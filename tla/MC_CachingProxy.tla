-------------------------- MODULE MC_CachingProxy --------------------------
(***************************************************************************)
(* CachingProxy for TLC: one resource that changes twice, and more         *)
(* background goroutines than keys, so that a second refresh could start.  *)
(* Durations are 8 bits wide with 10 units to a second and a cap of 5      *)
(* seconds: 9 seconds are over the cap, 20 are negative, 26 positive and   *)
(* small again, 200 are not a number.  The records are an empty one, one   *)
(* for each mode, one with a TTL that wraps, and one in which typos,       *)
(* repetitions and sizes that wrap, or exceed the node's cap of 100, leave *)
(* something of use.  CachingProxy.cfg has origins that send every header  *)
(* on one line, CachingProxyPrivate.cfg ones that send two lines of        *)
(* Cache-Control.                                                          *)
(***************************************************************************)
EXTENDS CachingProxy

Pair(k, v) == [key |-> k, value |-> v]
Number(n, u) == [number |-> n, unit |-> u]

MCRecords ==
    {<<>>,
     <<Pair("cache", "off")>>,
     <<Pair("cache", "aggressive")>>,
     <<Pair("cache", "aggressive"), Pair("ttl", Number(20, 0)), Pair("swr", Number(3, 60))>>,
     <<Pair("cache", "aggressive"), Pair("cache", "agressive"), Pair("ttl", Number(0, 0)),
       Pair("max_object", Number(17, 16)), Pair("max_object", Number(60, 16)),
       Pair("max_object", Number(7, 16)), Pair("ttl", Number(-1, 10)),
       Pair("websocket", "off"), Pair("preserve_host", "never")>>}

Directives == [name : {"no-store", "no-cache", "private"}, value : {0}]
              \cup [name : {"max-age", "s-maxage"}, value : {0, 3, 9, 20, 26, 200}]
Lines == {<<d>> : d \in Directives} \cup {<<d, e>> : d, e \in Directives}

Headers(cacheControls) ==
    [cacheableStatus : BOOLEAN, setCookie : BOOLEAN, static : BOOLEAN,
     vary : {<<>>, <<"*">>}, expires : {<<>>, <<-10>>, <<10>>},
     cacheControl : cacheControls]

MCResponses == Headers({<<>>} \cup {<<line>> : line \in Lines})

Short == {<<d>> : d \in [name : {"private"}, value : {0}] \cup [name : {"max-age"}, value : {3}]}
MCTwoLines == Headers({<<line, other>> : line, other \in Short})
=============================================================================
