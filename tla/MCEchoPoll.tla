----------------------------- MODULE MCEchoPoll -----------------------------
(***************************************************************************)
(* Constants of EchoPoll for the safety run: the clients are alike.        *)
(***************************************************************************)
EXTENDS EchoPoll, TLC

ClientSymmetry == Permutations(Clients)
=============================================================================
