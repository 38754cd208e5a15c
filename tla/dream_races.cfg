\* One run and a request of any kind, or two runs, between which one forgets.
CONSTANTS
  Requests = {r1}
  Dreamers = {d1, d2}
  MaxRows = 4
  InitRows = 2
  Contents = {a, b}
  Blank = blank
  SubmittedTypes = {"fact"}
  Ops = {"ingest", "remember", "replace", "forget", "recall"}
  SearchLimit = 2
  RecallTopK = 2
  DedupTopK = 3
  SeedLimit = 2
  BatchSize = 2
  KeyRank <- KeysBackwards
SYMMETRY Symmetry
CONSTRAINT Meeting
CONSTRAINT AlikeAtFirst
SPECIFICATION DreamSpec
INVARIANTS
  DreamInv
  ChangesAccounted
  SourcesRetired
  DreamFreshness
  LineageSound
  AcknowledgedWritesHold
  DuplicateFreshness
  NoLockAcrossProvider
PROPERTIES
  RetiredStaysRetired
  ImplementsLifecycle
