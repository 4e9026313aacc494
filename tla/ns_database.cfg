\* Tables come and go while their database is looked up and listed.
SPECIFICATION Spec
CONSTANTS
  Db = Db
  Dot = Dot
  DotDot = DotDot
  Schema = Schema
  ReadmeMd = ReadmeMd
  All = All
  d1 = d1
  t1 = t1
  t2 = t2
  p1 = p1
  Collation <- MCCollation
  Valid <- MCValid
  ValidPart <- MCValidPart
  Catalogs <- DatabaseCatalogs
  LookupNames <- DbNames
  LsDirs <- DbDirs
  CacheTtl = 1
  QueryMax = 1
  BufCap = 3
INVARIANTS
  QuietListing
  AnswersAreFresh
