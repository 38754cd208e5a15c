\* Two recalls while the same memory is reinforced.
CONSTANTS
  Requests = {r1, r2, r3}
  Dreamers = {}
  MaxRows = 2
  InitRows = 1
  Contents = {a}
  Blank = blank
  SubmittedTypes = {"fact"}
  Ops = {"remember", "recall"}
  SearchLimit = 2
  RecallTopK = 2
  DedupTopK = 2
SPECIFICATION Spec
INVARIANTS
  AccessCountsRecalls
