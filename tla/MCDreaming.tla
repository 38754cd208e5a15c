----------------------------- MODULE MCDreaming -----------------------------
(* Constants and the bounds of the runs of Dreaming.                       *)
EXTENDS DreamingInvariant, TLC

(* Primary keys in the opposite order of the inserts: the order of a flush *)
(* is not the order in which the memories came.                            *)
KeysBackwards == [i \in 1 .. MaxRows |-> MaxRows - i]

Symmetry == Permutations(Requests) \cup Permutations(Dreamers) \cup Permutations(Contents)

(* Bound: the memories of the start have one content.  Any other content,  *)
(* that a request or a run brings, is new to the corpus.                   *)
AlikeAtFirst == \A i, k \in 1 .. InitRows : corpus[i].content = corpus[k].content

(* Bound: any two sessions meet, of any kind; a third one only if what the *)
(* request does is to forget.                                              *)
Meeting ==
  \/ Cardinality({s \in Sessions : pc[s] # "new"}) <= 2
  \/ \E r \in Requests : pc[r] # "new" /\ job[r].op = "forget"
=============================================================================
