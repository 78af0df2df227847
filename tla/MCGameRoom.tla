----------------------------- MODULE MCGameRoom -----------------------------
(***************************************************************************)
(* Small rooms for TLC: players a and b, and their connections.            *)
(***************************************************************************)
EXTENDS GameRoom, TLC

CONSTANTS a, b, g1, g2, g3

OwnerOf2      == (g1 :> a) @@ (g2 :> b)
OwnerTwoConns == (g1 :> a) @@ (g2 :> a) @@ (g3 :> b)

(* players with their connections are interchangeable when none is a robot *)
Swap == {p \in Permutations(User \cup Conn) :
            \A g \in Conn : p[g] \in Conn /\ p[Owner[g]] = Owner[p[g]]}
=============================================================================
