---------------------------- MODULE AetherLinkMC ----------------------------
(* A client with two socket objects, and a peer with two, for different channels. *)
EXTENDS AetherLink

CONSTANTS ada, peer, a1, a2, p1, p2

Owners == [s \in Sockets |-> IF s \in {p1, p2} THEN peer ELSE ada]
Joins == [s \in Sockets |-> IF s = p2 THEN "aside" ELSE "main"]
AllByAda == [r \in LinkRequests |-> ada]
=============================================================================
