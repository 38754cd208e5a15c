\* Any three requests over one memory and what they add to it.
CONSTANTS
  Requests = {r1, r2, r3}
  Dreamers = {}
  MaxRows = 4
  InitRows = 1
  Contents = {a, b}
  Blank = blank
  SubmittedTypes = {"fact"}
  Ops = {"recall", "remember", "replace", "forget"}
  SearchLimit = 2
  RecallTopK = 2
  DedupTopK = 3
SYMMETRY Symmetry
SPECIFICATION Spec
INVARIANTS
  LineageSound
  AcknowledgedWritesHold
  OnlyAcknowledgedWrites
  IInv
  AccessInv
PROPERTIES
  RetiredStaysRetired
  ImplementsLifecycle
