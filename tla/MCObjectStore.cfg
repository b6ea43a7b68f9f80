SPECIFICATION FairSpec
CONSTANTS
  Paths <- MCPaths
  Under <- MCUnder
  Contents = {v}
  NoContent = NoContent
  NoBase = NoBase
  Free = Free
  NoWrite = NoWrite
  NoRequest = NoRequest
  Workers = {w1, w2}
  MaxSeq = 4
INVARIANTS NoFileInsideFile DeletedFolderKeepsNewerFiles
PROPERTIES NoLateRevision AnsweredRevisionExists ImplementsSharedVault EveryRequestEnds
\* Receive stops at the bound MaxSeq.
CHECK_DEADLOCK FALSE
