\* A single weak candidate.
CONSTANTS
  Memories = {m1, m2}
  RrfK = 1
  CandidateLimit = 2
  TopK = 2
  Unit = 12
  Whole = 2520
  MaxRaw = 2
  Activations = {0}
SYMMETRY Symmetry
SPECIFICATION Spec
INVARIANTS
  MatchesAreSimilar
