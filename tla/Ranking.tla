------------------------------- MODULE Ranking -------------------------------
(***************************************************************************)
(* One search of RecallService, from the two ranked lists the database     *)
(* returned to the candidates that recall answers or remember_memory       *)
(* compares with: rank fusion, rerank, final score, cut, duplicate test.   *)
(* Whatever the provider decides is chosen freely: both lists, the raw     *)
(* scores of the reranker, activations.                                    *)
(*                                                                         *)
(* Scores are integers: Whole stands for 1.0 of a normalised score, Unit   *)
(* for 1.0 of a fused one, MaxRaw for 1.0 of the reranker. Unit and the    *)
(* spans of raw scores divide without a remainder; a normalised fused      *)
(* score is rounded down by less than 1 / Whole, too little to change an   *)
(* order. The weights 0.75, 0.15 and 0.10 become 75, 15 and 10, final      *)
(* scores 0 .. 100 * Whole. Activation is calculate_activation / 1.5,      *)
(* already capped at 1.                                                    *)
(***************************************************************************)
EXTENDS Integers, SequencesExt

CONSTANTS
  Memories,        \* active memories
  RrfK,            \* rrf_k
  CandidateLimit,  \* recall_candidate_limit
  TopK,            \* top_k of the caller
  Unit, Whole,     \* see above
  MaxRaw,          \* the reranker scores 0 .. MaxRaw
  Activations      \* the activations of this instance, of 0 .. Whole

ASSUME RankingBounds ==
  /\ IsFiniteSet(Memories)
  /\ RrfK \in Nat /\ CandidateLimit \in Nat /\ TopK \in Nat \ {0}
  /\ Unit \in Nat \ {0} /\ Whole \in Nat \ {0} /\ MaxRaw \in Nat \ {0}
  /\ Activations \subseteq 0 .. Whole
ASSUME RankingExact ==
  \A n \in 1 .. Cardinality(Memories) : RrfK + n > 0 /\ Unit % (RrfK + n) = 0

VARIABLES
  stage,       \* what the search does next
  vector,      \* vector_candidates, best first
  lexical,     \* full_text_search_candidates, best first
  candidates,  \* the candidates, in the order the code has them
  raw,         \* what rerank_results returned for each candidate
  relevance,   \* retrieval_score of each candidate
  activation,  \* of each candidate
  affine,      \* the candidates of the caller's workspace
  final        \* final_score of each candidate

vars == <<stage, vector, lexical, candidates, raw, relevance, activation, affine, final>>

-----------------------------------------------------------------------------
(* Helpers.                                                                *)

(* The rank of c in a list, from 1 on.                                     *)
RankIn(list, c) == CHOOSE n \in DOMAIN list : list[n] = c

(* list.sort(key = score, reverse = True) of a list that has each c of S   *)
(* at place[c]: equal scores stay as they were.                            *)
Before(score, place, c, d) ==
  score[c] > score[d] \/ (score[c] = score[d] /\ place[c] < place[d])

SortedBy(S, score, place) ==
  CHOOSE list \in [1 .. Cardinality(S) -> S] :
    \A n, k \in DOMAIN list : n < k => Before(score, place, list[n], list[k])

Cut(list, n) == SubSeq(list, 1, Min({n, Len(list)}))

(* Seeded defect: scores that are all equal are erased. *)
NormalizedErasing(score) ==
  LET low  == Min(Range(score))
      high == Max(Range(score))
  IN [c \in DOMAIN score |->
        IF low = high THEN 0 ELSE ((score[c] - low) * Whole) \div (high - low)]
(* normalize_scores, of a score for each candidate.                        *)
Normalized(score) ==
  LET low  == Min(Range(score))
      high == Max(Range(score))
  IN [c \in DOMAIN score |->
        IF low = high THEN IF high > 0 THEN Whole ELSE 0
                      ELSE ((score[c] - low) * Whole) \div (high - low)]

(* What a memory at rank n of one list gets from it: 1 / (rrf_k + n).      *)
Share(list, c) ==
  IF Contains(list, c) THEN Unit \div (RrfK + RankIn(list, c)) ELSE 0

(* Seeded defect: the second list overwrites what the first one gave. *)
FusedLast(c) == IF Contains(lexical, c) THEN Share(lexical, c) ELSE Share(vector, c)
Fused(c) == Share(vector, c) + Share(lexical, c)

(* The memories either list found, and where the dict of                   *)
(* reciprocal_rank_fusion has them: those of the vector list, then those   *)
(* only lexical.                                                           *)
Found == ToSet(vector) \cup ToSet(lexical)
Place(c) ==
  IF Contains(vector, c) THEN RankIn(vector, c) ELSE Len(vector) + RankIn(lexical, c)

(* Seeded defect: the fallback scores rise along the list. *)
FallbackRising(list) == [c \in ToSet(list) |-> 4 * Len(list) + RankIn(list, c)]
(* The fallback of rerank_results for n documents, 1.0 - i / n * 0.2 for   *)
(* i = 0 .. n - 1, times 5 * n.                                            *)
Fallback(list) ==
  [c \in ToSet(list) |-> 5 * Len(list) - RankIn(list, c) + 1]

(* Seeded defect: the weights of relevance and activation are swapped. *)
ScoreSwapped(rel, act, aff) == 15 * rel + 75 * act + 10 * aff
Score(rel, act, aff) == 75 * rel + 15 * act + 10 * aff

-----------------------------------------------------------------------------
Init ==
  /\ stage = "fuse"
  /\ vector \in SetToAllKPermutations(Memories)
  /\ lexical \in SetToAllKPermutations(Memories)
  /\ candidates = <<>> /\ raw = <<>> /\ relevance = <<>>
  /\ activation = <<>> /\ affine = {} /\ final = <<>>

(* reciprocal_rank_fusion, and the fused scores normalised.                *)
Fuse ==
  /\ stage = "fuse"
  /\ LET order == SortedBy(Found, [c \in Found |-> Fused(c)], [c \in Found |-> Place(c)])
         kept  == Cut(order, CandidateLimit)
     IN /\ candidates' = kept
        /\ relevance' = IF kept = <<>> THEN <<>>
                        ELSE Normalized([c \in ToSet(kept) |-> Fused(c)])
  /\ stage' = "rerank"
  /\ UNCHANGED <<vector, lexical, raw, activation, affine, final>>

(* The reranker scores the candidates: the scores replace the fused ones.  *)
Rerank ==
  /\ stage = "rerank" /\ candidates # <<>>
  /\ raw' \in [ToSet(candidates) -> 0 .. MaxRaw]
  /\ relevance' = Normalized(raw')
  /\ stage' = "weigh"
  /\ UNCHANGED <<vector, lexical, candidates, activation, affine, final>>

(* It fails, or no model is configured: scores that fall with the order.   *)
RerankFails ==
  /\ stage = "rerank" /\ candidates # <<>>
  /\ relevance' = Normalized(Fallback(candidates))
  /\ stage' = "weigh"
  /\ UNCHANGED <<vector, lexical, candidates, raw, activation, affine, final>>

(* rerank_enabled is false, or there is nothing to rank.                   *)
RerankSkipped ==
  /\ stage = "rerank"
  /\ stage' = "weigh"
  /\ UNCHANGED <<vector, lexical, candidates, raw, relevance, activation, affine, final>>

(* The final scores, the sort and the cut at top_k.                        *)
Weigh ==
  /\ stage = "weigh"
  /\ activation' \in [ToSet(candidates) -> Activations]
  /\ affine' \in SUBSET ToSet(candidates)
  /\ LET found == ToSet(candidates)
         score == [c \in found |->
                     Score(relevance[c], activation'[c], IF c \in affine' THEN Whole ELSE 0)]
         place == [c \in found |-> RankIn(candidates, c)]
     IN /\ final' = score
        /\ candidates' = Cut(SortedBy(found, score, place), TopK)
  /\ stage' = "done"
  /\ UNCHANGED <<vector, lexical, raw, relevance>>

Done == stage = "done" /\ UNCHANGED vars

Next == Fuse \/ Rerank \/ RerankFails \/ RerankSkipped \/ Weigh \/ Done

Spec == Init /\ [][Next]_vars

-----------------------------------------------------------------------------
(* What must hold.                                                         *)

RankingTypeOK ==
  /\ stage \in {"fuse", "rerank", "weigh", "done"}
  /\ ToSet(candidates) \subseteq Memories
  /\ DOMAIN relevance \subseteq Memories
  /\ \A c \in DOMAIN relevance : relevance[c] \in 0 .. Whole

(* c is ranked no lower than d in this list; not found is lowest.          *)
NoLower(list, c, d) ==
  Contains(list, d) => Contains(list, c) /\ RankIn(list, c) <= RankIn(list, d)

(* Fusion keeps what both rankings agree on: a memory ranked no lower than *)
(* d in both lists, and higher in one, is kept if d is, and comes first.   *)
(* (reciprocal_rank_fusion)                                                *)
FusionAgrees ==
  stage = "rerank" =>
    \A d \in ToSet(candidates) : \A c \in Memories \ {d} :
      NoLower(vector, c, d) /\ NoLower(lexical, c, d) =>
        /\ Contains(candidates, c)
        /\ RankIn(candidates, c) < RankIn(candidates, d)

(* Relevance leads: no activation and no workspace puts a candidate before *)
(* one, or keeps it in the answer instead of one, whose relevance is more  *)
(* than a third of the scale higher; and nothing is answered twice.        *)
(* (the weights 0.75, 0.15 and 0.10, and the sort and cut of search)       *)
RelevanceLeads ==
  stage = "done" =>
    /\ IsInjective(candidates)
    /\ \A c \in DOMAIN final, n \in DOMAIN candidates :
         3 * (relevance[c] - relevance[candidates[n]]) > Whole =>
           \E k \in 1 .. n - 1 : candidates[k] = c

(* A reranker that fails changes nothing: relevance falls along the fused  *)
(* order.  (the fallback of rerank_results, and normalize_scores)          *)
FallbackKeepsOrder ==
  stage = "weigh" /\ raw = <<>> =>
    \A i, k \in DOMAIN candidates :
      i < k => relevance[candidates[i]] >= relevance[candidates[k]]

(* The best candidate is always scored 1.0, however little the reranker    *)
(* thinks of it, as long as that is more than nothing.                     *)
(* (normalize_scores: "preserving useful all-equal positive signals")      *)
BestIsWhole ==
  stage \in {"weigh", "done"} /\ DOMAIN relevance # {} =>
    \/ \E c \in DOMAIN relevance : relevance[c] = Whole
    \/ raw # <<>> /\ \A c \in DOMAIN raw : raw[c] = 0

-----------------------------------------------------------------------------
(* What the documentation says and the code does not do.                   *)

(* The candidates remember_memory takes for semantic duplicates if they    *)
(* are durable: retrieval_score >= 0.95.                                   *)
SemanticMatches == {c \in ToSet(candidates) : 100 * relevance[c] >= 95 * Whole}

(* "detects exact and semantic duplicates": what is taken for a semantic   *)
(* duplicate is one to the reranker, that scored it 0.95 or more.          *)
MatchesAreSimilar ==
  stage = "done" /\ raw # <<>> =>
    \A c \in SemanticMatches : 100 * raw[c] >= 95 * MaxRaw
=============================================================================
