---------------------------- MODULE CachePolicy ----------------------------
(***************************************************************************)
(* internal/cache/policy.go: which requests may be answered from the       *)
(* cache, and which responses are kept for how long.                       *)
(*                                                                         *)
(* A request is the set of its features that matter.  A header that may be *)
(* repeated is the sequence of its lines, of which http.Header.Get returns *)
(* the first; a line of Cache-Control is a sequence of directives.         *)
(* Durations are integers of Word values, as a time.Duration has 2^64, and *)
(* a number that Atoi cannot read is one outside that range.  The (ttl,    *)
(* ok) of the code is one number here: ok says that it is positive.        *)
(***************************************************************************)
EXTENDS Integers, Sequences

CONSTANTS Second,   \* units of a duration in a second (10^9)
          Word,     \* how many values a duration has (2^64)
          MaxTTL    \* maxTTL

ASSUME PolicyAssumption ==
    /\ Second \in Nat \ {0} /\ Word \in Nat \ {0}
    /\ MaxTTL \in Nat \ {0}

Modes == {"off", "standard", "aggressive"}
Policy == [mode : Modes, ttl : Int, stale : Int, maxObject : Int]

Directive == [name : STRING, value : Int]
Response == [cacheableStatus : BOOLEAN, setCookie : BOOLEAN, static : BOOLEAN,
             vary : Seq({"*", "a field"}), expires : Seq(Int),
             cacheControl : Seq(Seq(Directive))]

\* other method: neither GET nor HEAD.
Features == {"other method", "authorization", "range", "no-store", "cookie"}

Fits(d) == -(Word \div 2) <= d /\ d < Word \div 2
Wrap(d) == ((d + (Word \div 2)) % Word) - (Word \div 2)

-----------------------------------------------------------------------------
\* Mutation: cookies are ignored in every mode.
CacheableWithCookies(p, r) ==
    /\ p.mode # "off"
    /\ r \cap {"other method", "authorization", "range", "no-store"} = {}

CacheableRequest(p, r) ==
    /\ p.mode # "off"
    /\ r \cap {"other method", "authorization", "range", "no-store"} = {}
    /\ "cookie" \in r => p.mode = "aggressive"

-----------------------------------------------------------------------------
\* parseCacheControl: a later max-age overrides an earlier one, unless it is
\* not a number.
CacheControl(x) == IF x.cacheControl = <<>> THEN <<>> ELSE Head(x.cacheControl)
Has(line, name) == \E i \in DOMAIN line : line[i].name = name

Seconds(line, name) ==
    LET valid == {i \in DOMAIN line : line[i].name = name /\ Fits(line[i].value)}
    IN  IF valid = {} THEN -1
        ELSE line[CHOOSE i \in valid : \A j \in valid : j <= i].value

\* What is never kept, whatever its freshness.
Refused(p, x) ==
    \/ p.mode = "off" \/ ~x.cacheableStatus
    \/ x.setCookie
    \/ x.vary # <<>> /\ Head(x.vary) = "*"
    \/ Has(CacheControl(x), "no-store") \/ Has(CacheControl(x), "private")

\* The freshness the origin gives explicitly: zero or less when it gives none
\* or forbids it, and when the seconds it gives overflow.
Freshness(x) ==
    LET line == CacheControl(x)
    IN  IF Has(line, "no-cache") THEN 0
        ELSE IF Seconds(line, "s-maxage") >= 0 THEN Wrap(Seconds(line, "s-maxage") * Second)
        ELSE IF Seconds(line, "max-age") >= 0 THEN Wrap(Seconds(line, "max-age") * Second)
        ELSE IF x.expires # <<>> THEN x.expires[1]
        ELSE 0

Explicit(x) ==
    LET line == CacheControl(x)
    IN  \/ Has(line, "no-cache") \/ Seconds(line, "max-age") >= 0 \/ Seconds(line, "s-maxage") >= 0
        \/ x.expires # <<>>

\* Mutation: the cap is forgotten.
CapTTLNever(ttl) == ttl

CapTTL(ttl) == IF ttl > MaxTTL THEN MaxTTL ELSE ttl

\* Mutation: the owner's TTL wins in aggressive mode.
ResponseTTLOfOwner(p, x) ==
    IF Refused(p, x) THEN 0
    ELSE IF p.mode = "aggressive" \/ (~Explicit(x) /\ x.static) THEN p.ttl
    ELSE IF Freshness(x) > 0 THEN CapTTL(Freshness(x))
    ELSE 0

ResponseTTL(p, x) ==
    IF Refused(p, x) THEN 0
    ELSE IF Freshness(x) > 0 THEN CapTTL(Freshness(x))
    ELSE IF p.mode = "aggressive" \/ (~Explicit(x) /\ x.static) THEN p.ttl
    ELSE 0

-----------------------------------------------------------------------------
\* docs/caching.md:67-69, "Never cached regardless of mode", read as HTTP
\* reads a header: all of its lines count.
Unshareable(x) ==
    \/ ~x.cacheableStatus \/ x.setCookie
    \/ \E i \in DOMAIN x.vary : x.vary[i] = "*"
    \/ \E i \in DOMAIN x.cacheControl :
          Has(x.cacheControl[i], "no-store") \/ Has(x.cacheControl[i], "private")

\* What a request with credentials gets is for its sender alone, except that
\* the owner of an aggressive domain has declared its cookies to be of no
\* account.
Personal(p, r) == "authorization" \in r \/ ("cookie" \in r /\ p.mode # "aggressive")
=============================================================================
