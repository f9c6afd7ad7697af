------------------------- MODULE MC_DomainRegistry -------------------------
(***************************************************************************)
(* DomainRegistry for TLC: one domain whose record is a bare host with a   *)
(* query, one that ParseOrigin refuses, or none, and may be unreachable at *)
(* any time, and one restart.  DomainRegistry.cfg has two interchangeable  *)
(* requests, so that two Observes or a Visit and the refresher can hold    *)
(* copies at once; DomainRegistryLive.cfg has one and checks what must     *)
(* happen in the end.                                                      *)
(***************************************************************************)
EXTENDS DomainRegistry, TLC

CONSTANTS r1, r2

MCRequests == {r1, r2}
Symmetry == Permutations(MCRequests)

Bare == [scheme |-> "none", name |-> "n1", extras |-> TRUE]
Refused == [scheme |-> "other", name |-> "n1", extras |-> FALSE]
MCRecords == {Bare, Refused}
=============================================================================
