---------------------------- MODULE MCHarmonySym ----------------------------
(***************************************************************************)
(* A session with PRO in which clients and values are interchangeable: no  *)
(* plug-in compares them, and all of them meet the constraints.            *)
(***************************************************************************)
EXTENDS MCHarmonyPro, TLC

Alike == Permutations(Clients) \cup Permutations(Vals)

=============================================================================
