SPECIFICATION Spec
CONSTANTS
  None = None
  ChangeKinds = {"whole", "ranges"}
  CanFail = TRUE
  MaxVersion = 2
  MaxInbox = 2
  MaxValidations = 2
  MaxPublications = 1
INVARIANTS TypeOK OneTimer CacheIsOfText
PROPERTY ChangesAreValidated
