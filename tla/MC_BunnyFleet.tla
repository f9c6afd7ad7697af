--------------------------- MODULE MC_BunnyFleet ---------------------------
(***************************************************************************)
(* BunnyFleet for TLC.  BunnyFleet.cfg: two nodes, each configured with    *)
(* its own address.  BunnyFleetUnion.cfg: each configured with both, as    *)
(* docs/self-hosting.md advises.  BunnyFleetLive.cfg: one node with two    *)
(* addresses.  Three ids leave room for a second record of an address.     *)
(***************************************************************************)
EXTENDS BunnyFleet, TLC

CONSTANTS n1, n2, a, b, i1, i2, i3

MCNodes == {n1, n2}
MCAddress == (n1 :> a) @@ (n2 :> b)
MCOwn == (n1 :> {a}) @@ (n2 :> {b})
MCUnion == [n \in MCNodes |-> {a, b}]
Symmetry == Permutations({i1, i2, i3})

MCAddress1 == n1 :> a
MCBoth1 == n1 :> {a, b}
=============================================================================
