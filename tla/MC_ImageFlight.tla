--------------------------- MODULE MC_ImageFlight ---------------------------
(***************************************************************************)
(* ImageFlight for TLC: three requests and three option strings of one     *)
(* source, so that three leaders can compete for two permits, or two       *)
(* requests wait for the third.  The fourth string asks for more than      *)
(* MaxDim and is refused.  Sides are at most 8, 5 by default, with sources *)
(* on both sides of either.  Radii of blurs go up to 3, so that a window   *)
(* reaches beyond both ends of a line.                                     *)
(***************************************************************************)
EXTENDS ImageFlight

Pair(k, v) == [key |-> k, value |-> v]

MCTexts == {<<>>,
            <<Pair("width", 3), Pair("blur", 1)>>,
            <<Pair("height", 4), Pair("width", 7), Pair("height", 2), Pair("blur", 6)>>,
            <<Pair("width", 9)>>}

MCSamples == UNION {[w : {3}, h : {2}, pix : [0..5 -> {0, 255}]],
                    [w : {1}, h : {4}, pix : [0..3 -> {0, 100, 254, 255}]]}

MCImages == {[w |-> i[1], h |-> i[2]] : i \in (1..12) \X (1..12)}
=============================================================================
