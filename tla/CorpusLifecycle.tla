-------------------------- MODULE CorpusLifecycle --------------------------
(***************************************************************************)
(* What the memory corpus promises whoever calls it, however its requests  *)
(* interleave, fail or crash.  A memory is unknown until one atomic step   *)
(* stores it; it is active until a step retires it (forgets, replaces or   *)
(* consolidates it); a retired memory never comes back.  A replacement is  *)
(* one step: the new memory appears, the old one is retired and the link   *)
(* to the new one is written together or not at all.                       *)
(*                                                                         *)
(* The promise is deliberately weak about a memory that is already         *)
(* retired: a late request that raced the first one may retire it again    *)
(* and move its link.  MemoryRequests and Dreaming implement it.           *)
(***************************************************************************)
EXTENDS Integers

CONSTANTS
  MaxRows,   \* the memories that may ever exist are 1 .. MaxRows
  InitRows   \* those stored before the behaviour starts are 1 .. InitRows

Ids == 1 .. MaxRows
NoId == 0

VARIABLES
  life,   \* life[i]: "unknown", "active", "retired" or "consolidated"
  heir    \* heir[i]: the memory that replaced i, or NoId

vars == <<life, heir>>

Init ==
  /\ life = [i \in Ids |-> IF i <= InitRows THEN "active" ELSE "unknown"]
  /\ heir = [i \in Ids |-> NoId]

(* An ingested turn or a remembered fact is stored.                        *)
Store(n) ==
  /\ life[n] = "unknown"
  /\ life' = [life EXCEPT ![n] = "active"]
  /\ UNCHANGED heir

(* Memory t is replaced by the new memory n.                               *)
Replace(t, n) ==
  /\ life[t] # "unknown"
  /\ life[n] = "unknown"
  /\ t < n
  /\ life' = [life EXCEPT ![t] = "retired", ![n] = "active"]
  /\ heir' = [heir EXCEPT ![t] = n]

(* Memory t is forgotten; a link it already had stays.                     *)
Forget(t) ==
  /\ life[t] # "unknown"
  /\ life' = [life EXCEPT ![t] = "retired"]
  /\ UNCHANGED heir

(* The memories S are consolidated into a new memory, or into one that was *)
(* there (N is empty).  No link is written.                                *)
Dream(N, S) ==
  /\ \A n \in N : life[n] = "unknown"
  /\ \A i \in S : life[i] # "unknown"
  /\ life' = [i \in Ids |-> IF i \in S THEN "consolidated"
                           ELSE IF i \in N THEN "active" ELSE life[i]]
  /\ UNCHANGED heir

Next ==
  \/ \E n \in Ids : Store(n)
  \/ \E t, n \in Ids : Replace(t, n)
  \/ \E t \in Ids : Forget(t)
  \/ \E S \in SUBSET Ids, n \in Ids \cup {NoId} : Dream({n} \ {NoId}, S)

Spec == Init /\ [][Next]_vars

-----------------------------------------------------------------------------
(* No longer recalled: forgotten or replaced, or merged into a dream.      *)
Gone == {"retired", "consolidated"}

TypeOK ==
  /\ life \in [Ids -> {"unknown", "active"} \cup Gone]
  /\ heir \in [Ids -> Ids \cup {NoId}]

(* Only a memory that is gone has an heir, a later one, that was stored:   *)
(* each chain of replacements moves forward and ends at a memory without   *)
(* an heir.                                                                *)
(* (superseded_by of replace_memory)                                       *)
HeirsSound ==
  \A i \in Ids : heir[i] # NoId =>
    /\ life[i] \in Gone
    /\ heir[i] \in Ids /\ heir[i] > i
    /\ life[heir[i]] # "unknown"
=============================================================================
