--------------------------- MODULE MC_ObjectCache ---------------------------
(***************************************************************************)
(* ObjectCache on a small instance: two callers, one shard shared by two   *)
(* keys and one of a single key; two small objects fit the share of the    *)
(* target (12 \div 2) but not that of the floor (10 \div 2); the big       *)
(* object is over every share, and over the whole budget once memory       *)
(* pressure has cut it to the floor.  The cut is clamped by the floor and  *)
(* the climb back takes two growths.                                       *)
(***************************************************************************)
EXTENDS ObjectCache

CONSTANTS k1, k2, k3, small, big

MCKeys == {k1, k2, k3}
MCObjects == {small, big}
MCShardOf == (k1 :> 1) @@ (k2 :> 1) @@ (k3 :> 2)
MCSize == (small :> 3) @@ (big :> 11)
=============================================================================
