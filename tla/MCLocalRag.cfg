CONSTANTS
  notes = notes
  agenda = agenda
  exam = exam
  date = date
  room = room
  the = the
  Files <- MCFiles
  TextFiles = {agenda, notes}
  NameWords <- MCNameWords
  InitialFiles <- MCInitialFiles
  Contents <- MCContents
  Talk <- MCTalk
  Queries <- MCQueries
  one = one
  two = two
  Turns <- MCTurns
  Lexicon <- MCLexicon
  MaxTerms = 2
  ChunkSize = 2
  Overlap = 1
  MaxFiles = 1
  MaxScan = 2
  IndexSize = 3
  ScanSize = 2
  RefreshLimit = 2
  SearchWindow = 1
  MaxRetrievals = 3
  MaxChanges = 2
  MaxRagCrashes = 1
SPECIFICATION RagSpec
SYMMETRY Symmetry
INVARIANTS
  TermsMatchChunks
  QuietRefreshHeals
PROPERTY
  MissMeansAbsent
CHECK_DEADLOCK FALSE
