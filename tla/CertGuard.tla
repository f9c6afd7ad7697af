----------------------------- MODULE CertGuard -----------------------------
(***************************************************************************)
(* On-demand certificate issuance: the guard of internal/certguard and the *)
(* two callbacks of internal/server that consult it, decideIssuance before *)
(* an ACME order and onCertEvent after it.  certmagic and the CA between   *)
(* the two are external: an order ends with a certificate or a failure,    *)
(* whenever it likes, and orders of different names run concurrently.      *)
(*                                                                         *)
(* certmagic orders a certificate for a name it holds none for and keeps   *)
(* the certificate, so every name is issued once; its renewals are not     *)
(* recorded by onCertEvent and change nothing here.  An issuance event of  *)
(* the guard is therefore the time recorded for a host name.  A step is a  *)
(* critical section of the guard's mutex; reading the file and pruning are *)
(* one step of a restart.                                                  *)
(***************************************************************************)
EXTENDS Integers, FiniteSets

CONSTANTS Hosts,       \* host names clients ask for (valid, pointing here)
          Apexes,      \* registrable domains
          ApexOf,      \* dnsx.Apex
          Handshakes,  \* the goroutines that may wait for a certificate
          Limits,      \* the four limits of certguard.Limits
          Retention,   \* how long an event is kept
          MaxNow       \* bound on the clock

Windows == 1..(Retention - 1)

ASSUME GuardAssumption ==
    /\ IsFiniteSet(Hosts)
    /\ IsFiniteSet(Handshakes)
    /\ ApexOf \in [Hosts -> Apexes]
    /\ Retention \in Nat
    /\ Limits \subseteq [global : BOOLEAN, window : Windows, max : Nat]
    /\ MaxNow \in Nat

VARIABLES now,      \* the clock
          at,       \* Guard.events: when each host's issuance was recorded
          disk,     \* certguard.json
          hs,       \* what each handshake is waiting for
          ca,       \* the CA's view: when each host's certificate was issued
          lost,     \* issued hosts a restart has left unknown to the guard
          saved     \* whether the latest saveLocked reached the disk

vars == <<now, at, disk, hs, ca, lost, saved>>

Never == -1
Times == Nat \cup {Never}

Idle == [pc |-> "idle"]
Waiting == [pc : {"approved", "obtained"}, host : Hosts]

Init == /\ now = 0
        /\ at = [x \in Hosts |-> Never]
        /\ disk = [x \in Hosts |-> Never]
        /\ hs = [h \in Handshakes |-> Idle]
        /\ ca = [x \in Hosts |-> Never]
        /\ lost = {}
        /\ saved = TRUE

-----------------------------------------------------------------------------
\* The hosts that share limit l with host x: its apex's, or all of them.
Peers(l, x) == {y \in Hosts : l.global \/ ApexOf[y] = ApexOf[x]}

\* countSince / countAllSince: t.After(now - window) is strict.
Within(f, l, x) == {y \in Peers(l, x) : f[y] # Never /\ f[y] > now - l.window}

\* Mutation: events are dropped one time unit too early.
PrunedEarly(f) ==
    [x \in Hosts |-> IF f[x] # Never /\ f[x] > now - (Retention - 1) THEN f[x] ELSE Never]

\* pruneLocked.
Pruned(f) ==
    [x \in Hosts |-> IF f[x] # Never /\ f[x] > now - Retention THEN f[x] ELSE Never]

\* Mutation: the limit may be reached and passed by one.
AllowedOffByOne(f, x) ==
    \A l \in Limits : l.max > 0 => Cardinality(Within(f, l, x)) <= l.max

\* Check on an event table: a limit of zero is disabled.
Allowed(f, x) ==
    \A l \in Limits : l.max > 0 => Cardinality(Within(f, l, x)) < l.max

HostsInFlight == {hs[h].host : h \in {g \in Handshakes : hs[g] # Idle}}

\* decideIssuance: Check prunes, then compares; the approval is not recorded.
\* (A refused name leaves the pruned table: PruneOnRefusal.)
Approve(h, x) ==
    /\ hs[h] = Idle
    /\ ca[x] = Never /\ x \notin HostsInFlight
    /\ at' = Pruned(at)
    /\ Allowed(at', x)
    /\ hs' = [hs EXCEPT ![h] = [pc |-> "approved", host |-> x]]
    /\ UNCHANGED <<now, disk, ca, lost, saved>>

PruneOnRefusal(x) ==
    /\ at' = Pruned(at)
    /\ ~Allowed(at', x)
    /\ UNCHANGED <<now, disk, hs, ca, lost, saved>>

\* The CA issues the certificate (external).
Obtain(h) ==
    /\ hs[h] # Idle /\ hs[h].pc = "approved"
    /\ ca' = [ca EXCEPT ![hs[h].host] = now]
    /\ hs' = [hs EXCEPT ![h].pc = "obtained"]
    /\ UNCHANGED <<now, at, disk, lost, saved>>

\* Mutation: a failed order leaves its handshake behind.
FailStuck(h) ==
    /\ hs[h] # Idle /\ hs[h].pc = "approved"
    /\ hs' = [hs EXCEPT ![h].pc = "failed"]
    /\ UNCHANGED <<now, at, disk, ca, lost, saved>>

\* The order fails: cert_failed is logged and nothing else happens.
Fail(h) ==
    /\ hs[h] # Idle /\ hs[h].pc = "approved"
    /\ hs' = [hs EXCEPT ![h] = Idle]
    /\ UNCHANGED <<now, at, disk, ca, lost, saved>>

\* saveLocked: the whole table is written; a failure is dropped silently.
Save(table) == /\ saved' \in BOOLEAN
               /\ disk' = IF saved' THEN table ELSE disk

\* Mutation: the table is saved before the new event is appended.
RecordSavedFirst(h) ==
    /\ hs[h] # Idle /\ hs[h].pc = "obtained"
    /\ at' = [at EXCEPT ![hs[h].host] = now]
    /\ hs' = [hs EXCEPT ![h] = Idle]
    /\ Save(at)
    /\ UNCHANGED <<now, ca, lost>>

\* cert_obtained of a new certificate: Record appends and saves.
Record(h) ==
    /\ hs[h] # Idle /\ hs[h].pc = "obtained"
    /\ at' = [at EXCEPT ![hs[h].host] = now]
    /\ hs' = [hs EXCEPT ![h] = Idle]
    /\ Save(at')
    /\ UNCHANGED <<now, ca, lost>>

\* The process dies at any point and New loads and prunes the file.
Restart ==
    /\ at' = Pruned(disk)
    /\ hs' = [h \in Handshakes |-> Idle]
    /\ lost' = {x \in Hosts : ca[x] # Never /\ disk[x] = Never}
    /\ saved' = TRUE
    /\ UNCHANGED <<now, disk, ca>>

Tick == /\ now < MaxNow
        /\ now' = now + 1
        /\ UNCHANGED <<at, disk, hs, ca, lost, saved>>

Next == \/ \E h \in Handshakes : \/ \E x \in Hosts : Approve(h, x)
                                 \/ Obtain(h) \/ Fail(h) \/ Record(h)
        \/ \E x \in Hosts : PruneOnRefusal(x)
        \/ Restart
        \/ Tick

Spec == Init /\ [][Next]_vars

-----------------------------------------------------------------------------
TypeOK == /\ now \in Nat
          /\ at \in [Hosts -> Times]
          /\ disk \in [Hosts -> Times]
          /\ hs \in [Handshakes -> Waiting \cup {Idle}]
          /\ ca \in [Hosts -> Times]
          /\ lost \subseteq Hosts
          /\ saved \in BOOLEAN

\* Every certificate the CA issued within the retention period is in the
\* guard's table at no earlier a time than the CA counts it from, or about to
\* be recorded, or was lost to a restart: pruning, failed saves and the order
\* of callbacks make the guard forget nothing a window still counts.
NothingForgotten ==
    \A x \in Hosts :
        ca[x] # Never =>
            \/ at[x] # Never /\ at[x] >= ca[x]
            \/ \E h \in Handshakes : hs[h] = [pc |-> "obtained", host |-> x]
            \/ x \in lost
            \/ ca[x] <= now - Retention

\* A save writes the whole history, so one success heals earlier failures:
\* when the latest save worked, a restart now would lose no recorded event.
DiskCurrent ==
    saved => \A x \in Hosts : at[x] # Never => disk[x] = at[x]

\* What the CA has issued and still counts against limit l for host x, and
\* what it is about to: without the issuances restarts have made unknown.
Charged(l, x) ==
    (Within(ca, l, x) \ lost) \cup (HostsInFlight \cap Peers(l, x))

\* The budgets hold up to concurrency: since Check and Record are separate
\* steps, handshakes in flight together may overshoot a limit, but by fewer
\* than there are of them; one handshake at a time enforces it exactly.
OvershootBounded ==
    \A l \in Limits, x \in Hosts :
        l.max > 0 => Cardinality(Charged(l, x)) < l.max + Cardinality(Handshakes)

-----------------------------------------------------------------------------
\* The inductive invariant behind the theorems of CertGuard_proofs.

\* Two handshakes never wait for the same host; an approved one's host has no
\* certificate yet, and an obtained one's is not recorded yet.
OrdersDistinct ==
    \A h \in Handshakes :
        hs[h] # Idle =>
            /\ hs[h].pc = "approved" => ca[hs[h].host] = Never
            /\ hs[h].pc = "obtained" =>
                 ca[hs[h].host] # Never /\ at[hs[h].host] = Never /\ disk[hs[h].host] = Never
            /\ \A g \in Handshakes : hs[g] # Idle /\ hs[g].host = hs[h].host => g = h

\* The three views of a host's issuance are in order of time, and the file
\* says what the table says unless the event has aged out of the table.
RecordsOrdered ==
    \A x \in Hosts :
        /\ ca[x] <= now
        /\ at[x] # Never => ca[x] # Never /\ at[x] >= ca[x] /\ at[x] <= now
        /\ disk[x] # Never => /\ ca[x] # Never /\ disk[x] >= ca[x]
                             /\ (at[x] = disk[x] \/ disk[x] <= now - Retention)

\* What the guard itself counts against a limit, plus what it has approved.
Used(l, x) == Within(at, l, x) \cup (HostsInFlight \cap Peers(l, x))

UsedBounded ==
    \A l \in Limits, x \in Hosts :
        l.max > 0 => Cardinality(Used(l, x)) < l.max + Cardinality(Handshakes)

IInv == /\ TypeOK /\ OrdersDistinct /\ RecordsOrdered
        /\ NothingForgotten /\ DiskCurrent /\ UsedBounded

=============================================================================
