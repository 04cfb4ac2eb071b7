----------------------------- MODULE MCServer ------------------------------
(***************************************************************************)
(* The server for TLC: clients are interchangeable when no liveness is     *)
(* checked.                                                                *)
(***************************************************************************)
EXTENDS HServer, TLC

ClientSymmetry == Permutations(Clients)

=============================================================================
