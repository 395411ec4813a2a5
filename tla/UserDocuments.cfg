SPECIFICATION Spec
CONSTANTS
  p1 = p1
  p2 = p2
  t1 = t1
  t2 = t2
  t3 = t3
  Procs = {p1, p2}
  Threads = {t1, t2, t3}
  NoThread = NoThread
  Docs = {d1, d2, d3}
  NoDoc = NoDoc
  ProcOf <- Requests
  MaxDocuments = 1
  PatientOwner = TRUE
  ShortCommits = TRUE
  MaxVersions = 3
  MaxRequests = 3
  MaxCrashes = 1
  MaxSources = 3
  MaxChars = 24
  MinUsefulChars = 3
  HeaderChars = 2
  Unit = 60
  DuplicateAt = 51
  RrfK = 2
  RerankMin = 2
  RerankLimit = 2
  Margin = 1
  Corpora <- AllCorpora
  Rankings <- AllRankings
  Scorings <- AllScorings
  Texts <- AllTexts
  Scores <- AllScores
  VectorLimit = 2
  Bm25Limit = 2
  MinScore = 1
  Views <- AllViews
  Relevances <- AllRelevances
  Contexts <- AllContexts
  Answers <- AllAnswers
  ChunkSize = 4
  Overlap = 1
  Sections <- AllSections
  Folders <- AllFolders
  Runtimes = {"one", "other"}
  Unparsable = {3}
SYMMETRY Alike
INVARIANTS StoresAgree SearchFindsReady FunctionsAreSound
CHECK_DEADLOCK FALSE
