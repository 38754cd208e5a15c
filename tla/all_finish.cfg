\* Two recalls and a run, that lock the same rows in any order.
CONSTANTS
  Requests = {r1, r2}
  Dreamers = {d1}
  MaxRows = 3
  InitRows = 2
  Contents = {a}
  Blank = blank
  SubmittedTypes = {"fact"}
  Ops = {"recall"}
  SearchLimit = 1
  RecallTopK = 2
  DedupTopK = 2
  SeedLimit = 2
  BatchSize = 2
  KeyRank <- KeysBackwards
SPECIFICATION DreamFairSpec
INVARIANTS
  RecallFreshness
  AccessNeverOvercounted
  RecallsCounted
PROPERTIES
  RequestsFinish
  RunsFinish
