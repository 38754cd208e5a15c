---------------------------- MODULE MCMigrations ----------------------------
(* Memories from before revision 0006, one of each type, in namespaces of  *)
(* each form.                                                              *)
EXTENDS MigrationsInvariant

Memory(type, namespace) ==
  [type |-> type, namespace |-> namespace, scope |-> "shared", link |-> "a later memory"]

SampleRows ==
  {Memory(t, "default") : t \in {"episodic", "semantic", "relationship", "preference", "procedural"}}
  \cup {Memory("core", "repo:camillo"), Memory("profile", "repo:"), Memory("note", "team")}

Symmetry == Permutations(Attempts)
=============================================================================
