SPECIFICATION Spec
CONSTANTS
  Char <- MCChar
  Blank <- MCBlank
  Dollar = 36
  Slash = 47
  Star = 42
  MaxText = 6
  InitialCap = 1
  MaxSerialized = 1
INVARIANTS TypeOK TagInBounds DollarAgreesWithTokenizer CommentAgreesWithFormatter
PROPERTY Returns
