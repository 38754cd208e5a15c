-------------------------- MODULE RankingInvariant --------------------------
(* An inductive invariant of Ranking: what each list and score that the    *)
(* search carries from one step to the next says about the lists it        *)
(* started from.                                                           *)
EXTENDS Ranking

(* Nothing is ranked twice.                                                *)
Once(list) == list \in Seq(Memories) /\ IsInjective(list)

(* The candidates of the fusion: those found with the highest fused scores.*)
FusedLead ==
  stage = "rerank" =>
    \A n \in DOMAIN candidates :
      /\ candidates[n] \in Found
      /\ \A c \in Found :
           Fused(c) > Fused(candidates[n]) => \E k \in 1 .. n - 1 : candidates[k] = c

(* Until the answer is cut, each candidate has a relevance and no one else *)
(* has; without scores of the reranker it falls along the list.            *)
RelevanceKnown ==
  stage \in {"rerank", "weigh"} =>
    /\ DOMAIN relevance = ToSet(candidates)
    /\ raw = <<>> =>
         \A i, k \in DOMAIN candidates :
           i < k => relevance[candidates[i]] >= relevance[candidates[k]]

BestKnown ==
  stage # "fuse" /\ DOMAIN relevance # {} =>
    \/ \E c \in DOMAIN relevance : relevance[c] = Whole
    \/ raw # <<>> /\ \A c \in DOMAIN raw : raw[c] = 0

(* The inductive invariant: nothing is ranked twice; before the fusion     *)
(* nothing is known, and before the rerank no raw score; then what the     *)
(* fusion, the normalisation and the final sort give.                      *)
RankInv ==
  /\ RankingTypeOK
  /\ Once(vector) /\ Once(lexical) /\ Once(candidates)
  /\ stage = "fuse" => relevance = <<>>
  /\ stage \in {"fuse", "rerank"} => raw = <<>>
  /\ FusedLead /\ RelevanceKnown /\ BestKnown /\ RelevanceLeads
=============================================================================
