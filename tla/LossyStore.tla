---------------------------- MODULE LossyStore ----------------------------
(***************************************************************************)
(* What the object cache of internal/cache promises to its callers: a      *)
(* dictionary that may forget any entry at any moment, and nothing else.   *)
(* A value read under a key was offered for that very key by a Set, a Set  *)
(* replaces the earlier value for good, and a value that has left the      *)
(* store comes back only through another Set.                              *)
(***************************************************************************)
EXTENDS FiniteSets

CONSTANTS Keys,      \* the keys (internal/cache.Key digests)
          Objects,   \* the values
          Callers,   \* the goroutines that use the store
          None       \* the value of a key that is not stored

VARIABLES store,     \* the value of every key, None when it is absent
          offer      \* the Set a caller is in the middle of, None otherwise

vars == <<store, offer>>

Offers == [key : Keys, obj : Objects]

TypeOK == /\ store \in [Keys -> Objects \cup {None}]
          /\ offer \in [Callers -> Offers \cup {None}]

Init == /\ store = [k \in Keys |-> None]
        /\ offer = [c \in Callers |-> None]

\* A caller begins a Set; nothing is visible yet.
Offer(c) == /\ offer[c] = None
            /\ \E x \in Offers : offer' = [offer EXCEPT ![c] = x]
            /\ UNCHANGED store

\* The offered value replaces the key's value; other keys may be forgotten
\* to make room, the key just written may not.
Accept(c) ==
    /\ offer[c] # None
    /\ \E lost \in SUBSET (Keys \ {offer[c].key}) :
         store' = [k \in Keys |-> IF k = offer[c].key THEN offer[c].obj
                                  ELSE IF k \in lost THEN None ELSE store[k]]
    /\ offer' = [offer EXCEPT ![c] = None]

\* Expiry, deletion and budget cuts forget entries.
Forget ==
    /\ \E lost \in SUBSET Keys :
         store' = [k \in Keys |-> IF k \in lost THEN None ELSE store[k]]
    /\ UNCHANGED offer

Next == Forget \/ \E c \in Callers : Offer(c) \/ Accept(c)

Spec == Init /\ [][Next]_vars
=============================================================================
