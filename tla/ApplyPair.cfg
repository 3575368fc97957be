SPECIFICATION Spec
CONSTANTS
  app = app
  cluster = cluster
  role = role
  table = table
  index = index
  ext = ext
  strategy = strategy
  sub = sub
  Runners = {r1, r2}
  Targets <- OneTarget
  ClusterTargets = {}
  Catalog <- SmallCatalog
  NonTxCreate = {index}
  NonTxDrop = {}
  CautionDrop = {index}
  IfNotExists = {}
  Instruction = {}
  LintErrors = {}
  LintWarnings = {}
  Foreign = {table}
  Options <- AllOptions
  FaultPoints = {"connect", "tx", "commit", "nontx", "archive", "save", "write"}
  MaxFaults = 1
  MaxEdits = 2
SYMMETRY RunnerSymmetry
INVARIANTS TypeOK
PROPERTIES LossesAreAllowed ForeignSurvives TransactionIsAtomic RecordIsTrue Deployed
