---------------------------- MODULE ExchangeRates ----------------------------
(***************************************************************************)
(* The exchange rates the dashboard polls (api/fx/rates).  Every process   *)
(* of the server keeps one answer of the provider, which its requests      *)
(* read, miss and fill together; a request is served by any process.       *)
(***************************************************************************)
EXTENDS Naturals

CONSTANTS
    Servers,    \* processes
    Getters,    \* concurrent requests for rates
    CacheLife,  \* CACHE_TTL_MS, in ticks
    MaxWait,    \* bound: ticks a fetch takes, which the code leaves open
    MaxDay      \* bound: days of the provider

ASSUME RatesAssumption ==
    /\ CacheLife \in Nat /\ MaxWait \in Nat /\ MaxDay \in Nat \ {0}

VARIABLES
    today,     \* the day of the provider's rates, which never goes back
    cache,     \* of each process: [day, age]; day 0 when empty
    get,       \* [at, server, source, day, waited, floor]; floor is history:
               \* the newest day answered when the request came in
    newest,    \* history: the newest day answered by any process
    since      \* history: ticks since that day or a newer one was first answered

ratesVars == <<today, cache, get, newest, since>>

RateDays == 0 .. MaxDay
Overdue == CacheLife + MaxWait + 1   \* where "since" stops counting

NoRates == [day |-> 0, age |-> 0]
NoGet(s) == [at |-> "idle", server |-> s, source |-> "none", day |-> 0, waited |-> 0, floor |-> 0]

RatesTypeOK ==
    /\ today \in 1 .. MaxDay /\ newest \in RateDays
    /\ cache \in [Servers -> [day: RateDays, age: 0 .. CacheLife + 1]]
    /\ get \in [Getters -> [at: {"idle", "asking", "given", "answered"}, server: Servers,
                            source: {"none", "live", "cache"}, day: RateDays,
                            waited: 0 .. MaxWait, floor: RateDays]]
    /\ since \in [1 .. MaxDay -> 0 .. Overdue]

RatesInit ==
    /\ today = 1 /\ newest = 0
    /\ cache = [s \in Servers |-> NoRates]
    /\ \E s \in Servers : get = [g \in Getters |-> NoGet(s)]
    /\ since = [d \in 1 .. MaxDay |-> 0]

\* mutant: an entry that has expired counts as well
Filled(s) == cache[s].day # 0

(* What getCachedResponse returns an answer for.                            *)
Unexpired(s) == cache[s].day # 0 /\ cache[s].age <= CacheLife

-----------------------------------------------------------------------------
Answered(g, row) ==
    /\ get' = [get EXCEPT ![g] = row]
    /\ newest' = IF row.day > newest THEN row.day ELSE newest
    /\ UNCHANGED <<today, since>>

GetCached(g, s) ==
    /\ get[g].at = "idle" /\ Unexpired(s)
    /\ Answered(g, [at |-> "answered", server |-> s, source |-> "cache",
                    day |-> cache[s].day, waited |-> 0, floor |-> newest])
    /\ UNCHANGED cache

FetchLiveRates(g, s) ==
    /\ get[g].at = "idle" /\ ~Unexpired(s)
    /\ get' = [get EXCEPT ![g] = [at |-> "asking", server |-> s, source |-> "none",
                                  day |-> 0, waited |-> 0, floor |-> newest]]
    /\ UNCHANGED <<today, cache, newest, since>>

(* The provider: frankfurter.app.                                           *)
GiveRates(g) ==
    /\ get[g].at = "asking"
    /\ get' = [get EXCEPT ![g].at = "given", ![g].day = today]
    /\ UNCHANGED <<today, cache, newest, since>>

SetCachedResponse(g) ==
    /\ get[g].at = "given"
    /\ cache' = [cache EXCEPT ![get[g].server] = [day |-> get[g].day, age |-> 0]]
    /\ Answered(g, [get[g] EXCEPT !.at = "answered", !.source = "live"])

(* Another request of the process may have filled the cache meanwhile; if   *)
(* none has, the rates are unavailable.                                     *)
FallBack(g) ==
    LET s == get[g].server
    IN /\ get[g].at \in {"asking", "given"}
       /\ \/ /\ Unexpired(s)
             /\ Answered(g, [get[g] EXCEPT !.at = "answered", !.source = "cache", !.day = cache[s].day])
          \/ /\ ~Unexpired(s)
             /\ get' = [get EXCEPT ![g] = NoGet(s)] /\ UNCHANGED <<today, newest, since>>
       /\ UNCHANGED cache

Leave(g) ==
    /\ get[g].at = "answered" /\ get' = [get EXCEPT ![g] = NoGet(get[g].server)]
    /\ UNCHANGED <<today, cache, newest, since>>

(* A process restarts with an empty cache; its requests end.                *)
RestartServer(s) ==
    /\ cache' = [cache EXCEPT ![s] = NoRates]
    /\ get' = [g \in Getters |-> IF get[g].server = s THEN NoGet(s) ELSE get[g]]
    /\ UNCHANGED <<today, newest, since>>

Waiting(g) == get[g].at \in {"asking", "given"}

AgeRates ==
    /\ \A g \in Getters : Waiting(g) => get[g].waited < MaxWait
    /\ cache' = [s \in Servers |-> [cache[s] EXCEPT !.age = IF @ > CacheLife THEN @ ELSE @ + 1]]
    /\ get' = [g \in Getters |-> IF Waiting(g) THEN [get[g] EXCEPT !.waited = @ + 1] ELSE get[g]]
    /\ since' = [d \in 1 .. MaxDay |->
                     IF d <= newest /\ since[d] < Overdue THEN since[d] + 1 ELSE since[d]]
    /\ UNCHANGED <<today, newest>>

NextDay ==
    /\ today < MaxDay /\ today' = today + 1
    /\ UNCHANGED <<cache, get, newest, since>>

-----------------------------------------------------------------------------
RatesNext ==
    \/ AgeRates \/ NextDay
    \/ \E s \in Servers : RestartServer(s)
    \/ \E g \in Getters :
           \/ \E s \in Servers : GetCached(g, s) \/ FetchLiveRates(g, s)
           \/ GiveRates(g) \/ SetCachedResponse(g) \/ FallBack(g) \/ Leave(g)

RatesSpec == RatesInit /\ [][RatesNext]_ratesVars

-----------------------------------------------------------------------------
(* An answer that is marked "live" is no older than any that a process gave *)
(* before its request came in.                                              *)
LiveIsNew ==
    \A g \in Getters : get[g].at = "answered" /\ get[g].source = "live" => get[g].day >= get[g].floor

(* Answers may go back, between two processes and when a slow fetch writes  *)
(* over a newer one's entry, but not for long: once rates were answered, no *)
(* older ones are after the life of an entry and the longest fetch.         *)
NoOlder(day, ticks) == day >= newest \/ since[day + 1] <= ticks

KeepsUp(g) ==
    get'[g].at = "answered" /\ get[g].at # "answered"
        => NoOlder(get'[g].day, CacheLife + MaxWait)

RatesAreSound == [](RatesTypeOK /\ LiveIsNew) /\ [][\A g \in Getters : KeepsUp(g)]_ratesVars

=============================================================================
