\* Every pair of rankings of four memories, of which three are kept and two answered.
CONSTANTS
  Memories = {m1, m2, m3, m4}
  RrfK = 1
  CandidateLimit = 3
  TopK = 2
  Unit = 60
  Whole = 2520
  MaxRaw = 2
  Activations = {0, 2520}
SYMMETRY Symmetry
SPECIFICATION Spec
INVARIANTS
  FusionAgrees
  RelevanceLeads
  FallbackKeepsOrder
  BestIsWhole
  RankInv
