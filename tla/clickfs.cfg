\* Two processes, two opens, the table altered once.
SPECIFICATION FairSpec
CONSTANTS
  p1 = p1
  p2 = p2
  Procs = {p1, p2}
  SchemaFile = SchemaFile
  ReadmeFile = ReadmeFile
  StreamFile = StreamFile
  SubQueries = {"stats", "count", "schema"}
  Codes = {60, 999}
  Statuses = {403, 404}
  MaxVer = 1
  MaxFh = 2
  MaxPos = 2
  Placeholder = 1
  Offsets = {0, 2}
  Sizes = {2}
  tail_enabled = TRUE
INVARIANTS
  TypeOK
  ReadsTheOpenedFile
  HeldIsKnown
  FreshOnOpen
  FailuresStayLocal
  ErrnoTellsCause
  NoOrphanStreams
PROPERTIES
  EveryRequestIsAnswered
  FilesArePrivate
