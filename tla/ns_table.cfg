\* The directory of a table is listed and its files are looked up while its partitions change.
SPECIFICATION Spec
CONSTANTS
  Db = Db
  Dot = Dot
  DotDot = DotDot
  Schema = Schema
  ReadmeMd = ReadmeMd
  All = All
  d1 = d1
  t1 = t1
  t2 = t2
  p1 = p1
  Collation <- MCCollation
  Valid <- MCValid
  ValidPart <- MCValidPart
  Catalogs <- PartitionCatalogs
  LookupNames <- TableNames
  LsDirs <- TableDirs
  CacheTtl = 1
  QueryMax = 1
  BufCap = 4
INVARIANTS
  TypeOK
  QuietListing
  AnswersAreFresh
