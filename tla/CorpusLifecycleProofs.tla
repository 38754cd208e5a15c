----------------------- MODULE CorpusLifecycleProofs -----------------------
(* The lineage promise of the abstract corpus, for any number of memories. *)
EXTENDS CorpusLifecycle, TLAPS

(* Every memory has a life, and an heir or none.                           *)
THEOREM LifecycleTypeCorrect == Spec => []TypeOK
<1>1. Init => TypeOK
  BY DEF Init, TypeOK, Gone
<1>2. TypeOK /\ [Next]_vars => TypeOK'
  BY DEF TypeOK, Gone, Next, Store, Replace, Forget, Dream, vars
<1> QED BY <1>1, <1>2, PTL DEF Spec

(* An heir is later than the memory it replaced, and was stored: following *)
(* heirs always moves forward, so it ends.                                 *)
THEOREM HeirsAlwaysSound == Spec => []HeirsSound
<1>1. Init => HeirsSound
  BY DEF Init, HeirsSound
<1>2. TypeOK /\ HeirsSound /\ [Next]_vars => HeirsSound'
  <2> SUFFICES ASSUME TypeOK, HeirsSound, [Next]_vars PROVE HeirsSound'
    OBVIOUS
  <2>1. ASSUME NEW n \in Ids, Store(n) PROVE HeirsSound'
    BY <2>1 DEF TypeOK, Gone, HeirsSound, Store
  <2>2. ASSUME NEW t \in Ids, NEW n \in Ids, Replace(t, n) PROVE HeirsSound'
    BY <2>2 DEF TypeOK, HeirsSound, Gone, Replace, Ids, NoId
  <2>3. ASSUME NEW t \in Ids, Forget(t) PROVE HeirsSound'
    BY <2>3 DEF TypeOK, HeirsSound, Gone, Forget
  <2>4. ASSUME NEW S \in SUBSET Ids, NEW n \in Ids \cup {NoId}, Dream({n} \ {NoId}, S)
        PROVE  HeirsSound'
    BY <2>4 DEF TypeOK, HeirsSound, Gone, Dream
  <2>5. CASE UNCHANGED vars
    BY <2>5 DEF vars, HeirsSound
  <2> QED BY <2>1, <2>2, <2>3, <2>4, <2>5 DEF Next
<1> QED BY <1>1, <1>2, LifecycleTypeCorrect, PTL DEF Spec
=============================================================================
