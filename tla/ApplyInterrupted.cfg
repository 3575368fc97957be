SPECIFICATION FairSpec
CONSTANTS
  app = app
  cluster = cluster
  role = role
  table = table
  index = index
  ext = ext
  strategy = strategy
  sub = sub
  Runners = {r1}
  Targets <- OneTarget
  ClusterTargets = {}
  Catalog <- SmallCatalog
  NonTxCreate = {index}
  NonTxDrop = {}
  CautionDrop = {index}
  IfNotExists = {}
  Instruction = {}
  LintErrors = {}
  LintWarnings = {}
  Foreign = {}
  Options <- PermissiveOnly
  FaultPoints = {"nontx"}
  MaxFaults = 1
  MaxEdits = 0
PROPERTIES Converges
