SPECIFICATION ComponentsSpec
CONSTANTS
  Procs = {p1, p2}
  Governors = {p1, p2}
  NoGovernor = NoGovernor
  Inodes = {i1, i2, i3}
  NoInode = NoInode
  MaxDepth = 2
  MarkerCrash = FALSE
  SlowWriters = FALSE
  Callers = {p1, p2}
  MaxNumber = 2
  Appenders = {p1, p2}
  NoAppender = NoAppender
  Batches <- TwoBatches
  MaxLines = 3
  MaxOps = 3
  Paths = {a, b}
  Texts = {x}
  MaxText = 2
  MaxMuts = 2
  MaxEdits = 1
  Dates = {d1}
  Samples = {1}
  Prints = {f}
  Claimers = {c1, c2}
  NoClaim = NoClaim
  MaxDays = 1
  MaxObs = 2
  MaxReceipts = 3
  MaxOthers = 1
  MaxJournalLines = 3
  MaxJournalFaults = 2
  MaxMisses = 2
  MaxFaults = 2
  MaxMutations = 4
  MaxArtifactEdits = 1
  MaxApplyFaults = 2
  Openers = {o1, o2}
  NoOpener = NoOpener
  MaxCommits = 3
  MaxLeases = 2
  Targets = 2
  MaxTries = 2
  MaxTouched = 1
  MaxDecisions = 3
  Workers = {w1, w2}
  NoWorker = NoWorker
  Receipts = {r1, r2}
  MaxEntries = 3
  MaxFailures = 2
  Writers = {v1, v2}
  NoWriter = NoWriter
  Sessions = {s1, s2}
  MaxChanges = 2
  MaxArchives = 1
  MaxLost = 1
  MaxMoves = 2
  MaxFiles = 3
  HashFile = 2
  RemovedFile = 3
  MaxVersions = 2
  MaxBatches = 2
  MaxTreeEdits = 1
  MaxUpdateFaults = 2
  Importers = {w1, w2}
  Imports = {a, b}
  MaxImportFaults = 2
  Savers = {w1, w2}
  Bodies = {a, b}
  MaxSaves = 2
  MaxSaveFaults = 2
  MaxTampers = 1
  Observers = {w1}
  PageLimit = 1
  MaxTelemetry = 2
  MaxResults = 2
  MaxObserverFaults = 1
  Raters = {w1}
  MaxApplies = 2
  MaxVerdicts = 3
  MaxRatingFaults = 1
CHECK_DEADLOCK FALSE
INVARIANTS ComponentsTypeOK HolderOwnsTheFile AnswersAreTrue StaysReadable
           NothingIsLost  ReceiptsAreCanonical
           OneLiveApply CopyIsOfOneMoment AppliedIsWhole HalfAppliedIsRepaired
           OneEntryPerReceipt IndexFollowsSessions   ImportsAgree
           SavedOnce CompleteMeansObserved RatingsStayValid VerdictsNeverGoBack
PROPERTIES ImplementsExclusiveLock JournalTellsTheTruth RepairMakesWhole TerminalsTellTheTruth
           BatchTellsTheTruth
