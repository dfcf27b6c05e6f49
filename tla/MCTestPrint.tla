----------------------------- MODULE MCTestPrint -----------------------------
(***************************************************************************)
(* Small instances for TLC of the guided test print and, in a scene of its *)
(* own, of submissions of every kind.                                      *)
(***************************************************************************)
EXTENDS TestPrint, TLC

VARIABLE scene

testVars == <<session, nextId, submitting, call>>

MCInit == scene \in {"testPrint", "native"} /\ Init

MCNext ==
  /\ UNCHANGED scene
  /\ \/ scene = "testPrint" /\ Next
     \/ scene = "native" /\ NativeNext /\ UNCHANGED testVars

MCSpec == MCInit /\ [][MCNext]_<<scene, vars>>

Symmetry == Permutations(Owners) \cup Permutations(Media)
=============================================================================
