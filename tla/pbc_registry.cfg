SPECIFICATION FairSpec
CONSTANTS
  NULL = NULL
  Hashes <- MCHashes
  Descriptor <- MCDescriptor
  Requests <- MCRequests
INVARIANTS
  TypeOK
  DependencyFirst
  IdAgreesName
  
PROPERTIES
  FilesSpec
  
