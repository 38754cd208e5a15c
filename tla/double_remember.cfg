\* One fact remembered twice at the same time.
CONSTANTS
  Requests = {r1, r2}
  Dreamers = {}
  MaxRows = 2
  InitRows = 0
  Contents = {a}
  Blank = blank
  SubmittedTypes = {"fact"}
  Ops = {"remember"}
  SearchLimit = 2
  RecallTopK = 2
  DedupTopK = 2
SPECIFICATION Spec
INVARIANTS
  NoDuplicateMemories
