SPECIFICATION DeskSpec
CONSTANTS
  Outcomes <- MCOutcomes
  MaxSets = 1
  MaxBoots = 1
  Programs <- MCPrograms
  Irreversible <- MCIrreversible
  MaxUnwrapDepth = 2
  MaxSize = 4
  Places <- MCPlaces
  MaxLinks = 2
  Dangerous = {}
  MemoryFile <- MCMemoryFile
  FirstTree <- MCTree
  Uploads = {u1, u2}
  MaxChunks = 2
  SizeCap = 2
  MaxInFlight = 2
  Editors = {e1, e2}
  Texts <- MCTexts
  FirstLines <- MCFirstLines
  Patches <- MCPatches
  Drafts <- MCDrafts
  MaxEdits = 2
  Tabs = {t1}
  Helpers = {h1, h2}
  Items <- MCItems
  Boards <- MCBoards
  MaxPlans = 2
  MaxSaves = 3
  MaxTurns = 2
  Files = {f1}
  CodeFiles = {f1}
  Slots = {w1, w2}
  Commands = {k1}
  Outputs <- MCPrinted
  MaxContents = 3
  MaxRecords = 2
  Requests = {r1, r2}
  ConfigClient = 0
  MaxFlows = 2
  MaxTokens = 2
  MaxRevokes = 1
  MemoryTabs = {m1}
  Entries <- MCEntries
  FirstFiles <- MCFirstFiles
  Days = 2
  MaxLines = 4
  MaxWrites = 3
  Browsers = {b1, b2}
  Sessions = {s1, s2}
  Sends = {q1, q2}
  BrowserTabs = {t2}
  MaxPages = 1
  NoSession = NoSession
  FirstRows <- MCFirstRows
  KeepChoices = {0, 1}
  Threshold = 4
  MaxRows = 8
  MaxCallsPerRow = 2
  MaxDeletes = 1
  SkillNames = {"b", "x"}
  Builtins = {"b"}
  Bundles <- MCBundles
  Slugs = {"x"}
  Installs = {i1, i2}
  Uninstalls = {n1}
  Refreshes = {r3}
  MaxEntries = 3
  FileCap = 2
  TotalCap = 3
  MaxFolders = 2
  Convs = {v1, v2}
  ToolCalls = {o1, o2, o3}
  MaxContexts = 3
  MaxTabs = 2
  NumPaths = 3
  SensitivePaths = {3}
  Contents <- MCContents
  FirstCommit <- MCFirstCommit
  AgentTools = {"write_file", "run_command"}
  MaxListed = 2
  MaxPanelEdits = 2
  MaxPanelTurns = 1
  Chats = {"c"}
  Posts = {p1, p2}
  Removals = {d1}
  Openings = {o4, o5}
  Folders = {"a", "b"}
  Links = {"l"}
  MaxProjects = 2
  FileLines <- MCFileLines
  MaxFileLines = 4
  ChunkSize = 4
  ChunkOverlap = 1
  LabelSize = 1
  Seps <- MCSeps
  NumFiles = 1
  FileTexts <- MCFileTexts
  MaxRewrites = 2
  Indexers = {x1, x2}
  EmbeddingModels <- MCEmbeddingModels
  BatchSize = 2
  MaxTopK = 3
  TopK = 2
  RrfConstant = 2
  MaxSearches = 1
  Cosine <- MCCosine
  Terms <- MCTerms
INVARIANT TypesOK
INVARIANT PassesAreEarned
INVARIANT TiersAreOrdered
INVARIANT EffectsAreTrue
INVARIANT ChunksAreKept
INVARIANT GuardedEditsKnowTheirBase
INVARIANT ChangesAreAccountedFor
INVARIANT TokensAreOwned
INVARIANT MemoryIsKept
INVARIANT BridgeAnswers
INVARIANT HistoryIsTold
INVARIANT SkillsSurvive
INVARIANT PoolIsSound
INVARIANT PanelStaysConsistent
 
INVARIANT RetrievalStaysFaithful
PROPERTY PlansAreKept
CHECK_DEADLOCK FALSE
