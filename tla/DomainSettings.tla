--------------------------- MODULE DomainSettings ---------------------------
(***************************************************************************)
(* internal/domain/domain.go: the settings an owner publishes in the       *)
(* config record of a domain, and the caching policy they make.            *)
(*                                                                         *)
(* A record is the sequence of its key=value pairs.  A value is a word, or *)
(* a number with what its suffix stands for (units of a duration, or       *)
(* bytes), 0 without one; a value that is neither has no representative,   *)
(* being ignored as an unknown key is.  Numbers are as wide as durations.  *)
(***************************************************************************)
EXTENDS CachePolicy

CONSTANTS DefaultTTL,   \* an hour
          DefaultSWR,   \* ten minutes
          NodeCap       \* the node's cap of an object, HUBCDN_CACHE_MAX_OBJECT

ASSUME SettingsAssumption ==
    /\ DefaultTTL \in Nat /\ DefaultSWR \in Nat
    /\ NodeCap \in Nat \ {0}

DefaultSettings ==
    [mode |-> "standard", ttl |-> DefaultTTL, swr |-> DefaultSWR,
     websocket |-> TRUE, preserveHost |-> TRUE, maxObject |-> NodeCap]

\* A record is a sequence, in which certain keys have numbers.
Numeric == {"ttl", "swr", "max_object"}
WellTyped(record) ==
    /\ Len(record) \in Nat /\ DOMAIN record = 1..Len(record)
    /\ \A i \in DOMAIN record :
          record[i].key \in Numeric => record[i].value \in [number : Int, unit : Nat]

\* What a value reads as: a set of one element, or none if it is malformed.
\* ParseMode takes any word.
ReadMode(v) == {IF v \in Modes THEN v ELSE "standard"}

\* parseTTL: bare seconds are multiplied in the width of a duration, which
\* time.ParseDuration does not leave.
ReadTTL(v) ==
    LET d == IF v.unit = 0 THEN Wrap(v.number * Second) ELSE v.number * v.unit
    IN  IF v.number >= 0 /\ Fits(IF v.unit = 0 THEN v.number ELSE d) THEN {d} ELSE {}

ReadSwitch(v) == IF v \in {"on", "off"} THEN {v = "on"} ELSE {}

\* Mutation: the number is compared before its unit is applied.
ReadSizeEarly(v) ==
    IF Fits(v.number) /\ 0 < v.number /\ v.number <= NodeCap
    THEN {Wrap(v.number * (IF v.unit = 0 THEN 1 ELSE v.unit))} ELSE {}

\* parseSize, which multiplies in 64 bits, and the limits of max_object.
ReadSize(v) ==
    LET size == Wrap(v.number * (IF v.unit = 0 THEN 1 ELSE v.unit))
    IN  IF Fits(v.number) /\ 0 < size /\ size <= NodeCap THEN {size} ELSE {}

Read(key, v) ==
    CASE key = "cache" -> ReadMode(v)
      [] key \in {"ttl", "swr"} -> ReadTTL(v)
      [] key \in {"websocket", "preserve_host"} -> ReadSwitch(v)
      [] key = "max_object" -> ReadSize(v)

\* The last well-formed pair of a key counts.
Given(record, key) == {i \in DOMAIN record :
    record[i].key = key /\ Read(key, record[i].value) # {}}

Setting(record, key, default) ==
    IF Given(record, key) = {} THEN default
    ELSE LET last == CHOOSE i \in Given(record, key) : \A j \in Given(record, key) : j <= i
         IN  CHOOSE x \in Read(key, record[last].value) : TRUE

ParseSettings(record) ==
    [mode         |-> Setting(record, "cache", DefaultSettings.mode),
     ttl          |-> Setting(record, "ttl", DefaultSettings.ttl),
     swr          |-> Setting(record, "swr", DefaultSettings.swr),
     websocket    |-> Setting(record, "websocket", DefaultSettings.websocket),
     preserveHost |-> Setting(record, "preserve_host", DefaultSettings.preserveHost),
     maxObject    |-> Setting(record, "max_object", DefaultSettings.maxObject)]

\* Settings.Policy.
PolicyOf(s) == [mode |-> s.mode, ttl |-> s.ttl, stale |-> s.swr, maxObject |-> s.maxObject]
=============================================================================
