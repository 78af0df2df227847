SPECIFICATION Spec
CONSTANTS
  NULL = NULL
  Hashes <- MCHashes
  Types <- MCTypes
  Versions = {"Whole", "Old"}
  Root = "Whole"
  Values <- MCValues
  WMESSAGE_SIZE = 8
  MaxEntries = 2
INVARIANTS
  TypeOK
  
  
  DecodersAgree
  CutBetweenFields
CHECK_DEADLOCK FALSE
