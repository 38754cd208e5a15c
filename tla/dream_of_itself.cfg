\* One run, alone.
CONSTANTS
  Requests = {}
  Dreamers = {d1}
  MaxRows = 3
  InitRows = 2
  Contents = {a}
  Blank = blank
  SubmittedTypes = {"fact"}
  Ops = {}
  SearchLimit = 3
  RecallTopK = 2
  DedupTopK = 3
  SeedLimit = 2
  BatchSize = 2
  KeyRank <- KeysBackwards
SPECIFICATION DreamSpec
INVARIANTS
  PromotedApart
