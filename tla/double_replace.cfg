\* Two replacements of one memory.
CONSTANTS
  Requests = {r1, r2}
  Dreamers = {}
  MaxRows = 3
  InitRows = 1
  Contents = {a, b}
  Blank = blank
  SubmittedTypes = {"fact"}
  Ops = {"replace"}
  SearchLimit = 2
  RecallTopK = 2
  DedupTopK = 2
SPECIFICATION Spec
INVARIANTS
  ReplacementLinked
