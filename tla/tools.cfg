SPECIFICATION Spec
CONSTANTS
  SharedBlocks <- MCShared
  Words <- MCWords
  Readmes <- MCReadmes
  FreshRoot <- MCRoot
  FreshPackage <- MCPackage
  MaxReadmeEdits = 2
  MaxSourceEdits = 2
  Null = Null
  Undefined = Undefined
  Odd = Odd
  Clock = 100
  Listings <- MCListings
  Argvs <- MCArgvs
  Snapshots <- MCSnapshots
  Downloads <- MCDownloads
  Requests <- MCRequests
  MaxReplacements = 1
CHECK_DEADLOCK FALSE
INVARIANTS
  ToolsTypeOK
  SyncOutcomeIsTrue
  OutcomeIsTrue
  RefusedLeavesOutput
  OneSnapshot
  ProvenanceIsTrue
  StatusIsTrue
  PrintedAreBest
  SourcesAgree
  OrderIsIrrelevant
PROPERTIES
  OwnTextKept
