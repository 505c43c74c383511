---------------------------- MODULE MCEchoSelect ----------------------------
(***************************************************************************)
(* Constants of EchoSelect for the safety run: the clients are alike.      *)
(***************************************************************************)
EXTENDS EchoSelect, TLC

ClientSymmetry == Permutations(Clients)
=============================================================================
