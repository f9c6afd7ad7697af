---------------------------- MODULE MC_CertGuard ----------------------------
(***************************************************************************)
(* CertGuard with two apexes, three hosts of one and one of the other, two *)
(* concurrent handshakes, a per-apex limit, a global one over a shorter    *)
(* window and a disabled one; the clock outlives every window.             *)
(***************************************************************************)
EXTENDS CertGuard, TLC

CONSTANTS x1, x2, x3, y1, a, b

MCHosts == {x1, x2, x3, y1}
MCApexOf == (x1 :> a) @@ (x2 :> a) @@ (x3 :> a) @@ (y1 :> b)
MCLimits == {[global |-> FALSE, window |-> 2, max |-> 1],
             [global |-> TRUE, window |-> 1, max |-> 2],
             [global |-> TRUE, window |-> 2, max |-> 0]}
Symmetry == Permutations({x1, x2, x3})
=============================================================================
