SPECIFICATION FairSpec
CONSTANTS
  app = app
  cluster = cluster
  role = role
  table = table
  index = index
  ext = ext
  strategy = strategy
  sub = sub
  Runners = {r1}
  Targets <- TwoTargets
  ClusterTargets = {cluster}
  Catalog <- WideCatalog
  NonTxCreate = {sub}
  NonTxDrop = {sub}
  CautionDrop = {}
  IfNotExists = {ext}
  Instruction = {strategy}
  LintErrors = {}
  LintWarnings = {ext}
  Foreign = {ext}
  Options <- SoloOptions
  FaultPoints = {"compile", "load", "prompt", "connect", "tx"}
  MaxFaults = 1
  MaxEdits = 2
PROPERTIES RecordIsTrue Converges
