---------------------------- MODULE MCMulticast -----------------------------
(***************************************************************************)
(* Command lines for Multicast: two clients with a long and a short        *)
(* message and one server, of any kinds.  The first client runs on the     *)
(* server's host and joins a group, its own or another one's (then one     *)
(* kind of far client will do); the second one is far away and sends       *)
(* without waiting.                                                        *)
(***************************************************************************)
EXTENDS Multicast, TLC

CONSTANTS near, far, server

MCClients == {near, far}
MCServers == {server}
MCTextLen == (near :> 2) @@ (far :> 1)

Line0(k, g, h, w) ==
  [kind |-> k, group |-> g, host |-> h, loop |-> TRUE, join |-> TRUE, cont |-> w]

Lines(k1, k2, k3, g) ==
  (server :> Line0(k1, "g1", "h1", FALSE)) @@ (near :> Line0(k2, g, "h1", FALSE))
    @@ (far :> Line0(k3, "g1", "h2", TRUE))

Kinds == {"c", "go", "rust"}

MCSetups ==
  {Lines(k1, k2, k3, "g1") : k1 \in Kinds, k2 \in Kinds, k3 \in {"c", "rust"}}
    \cup {Lines(k1, k2, "rust", "g2") : k1 \in Kinds, k2 \in Kinds}
=============================================================================
