SPECIFICATION Spec
CONSTANTS
  None = None
  ChangeKinds = {"whole"}
  CanFail = FALSE
  MaxVersion = 2
  MaxInbox = 2
  MaxValidations = 2
  MaxPublications = 1
PROPERTY EditorSeesLatest
