----------------------------- MODULE PayoutGate -----------------------------
(***************************************************************************)
(* What stands between a browser and the two payout routes: the client's   *)
(* apiFetchJson (lib/api.ts), which names every mutation with a random key *)
(* and sends it again after a 401, and the rate limit, origin check and    *)
(* idempotency key of lib/security/api-protection.ts.                      *)
(*                                                                         *)
(* The tables of the gate are variables of a server process: each instance *)
(* has its own, and a restart empties them.  Times are counted down.       *)
(***************************************************************************)
EXTENDS Integers, FiniteSets, Functions

CONSTANTS
    Instances,
    Calls,    \* calls of apiFetchJson in progress or lately over
    Limit,    \* requests let through in a window
    Window,   \* its length
    KeyLife,  \* how long a key is remembered
    NoServer

ASSUME GateAssumption ==
    /\ {Limit, Window, KeyLife} \subseteq Nat \ {0}
    /\ NoServer \notin Instances

VARIABLES
    bucket,   \* rateBuckets of each instance: [count, left]
    replay,   \* replayKeys of each instance: what is left of each call's key
    call,     \* where each call is, and which of its two fetches it is on
    recent,   \* history: requests each instance let through, by age in ticks
    worked    \* history: how often the handler of each call's key ran

gateVars == <<bucket, replay, call, recent, worked>>

Ages == 0 .. Window - 1
Over == [at |-> "over", fetch |-> 0, server |-> NoServer]

GateTypeOK ==
    /\ bucket \in [Instances -> [count: 0 .. Limit + 1, left: 0 .. Window]]
    /\ replay \in [Instances -> [Calls -> 0 .. KeyLife]]
    /\ call \in [Calls -> [at: {"over", "sent", "inside"}, fetch: 0 .. 2,
                           server: Instances \cup {NoServer}]]
    /\ recent \in [Instances -> [Ages -> Nat]]
    /\ worked \in [Calls -> Nat]

GateInit ==
    /\ bucket = [s \in Instances |-> [count |-> 0, left |-> 0]]
    /\ replay = [s \in Instances |-> [k \in Calls |-> 0]]
    /\ call = [k \in Calls |-> Over]
    /\ recent = [s \in Instances |-> [age \in Ages |-> 0]]
    /\ worked = [k \in Calls |-> 0]

-----------------------------------------------------------------------------
(* The client.                                                              *)

Sent(n) == [at |-> "sent", fetch |-> n, server |-> NoServer]

(* A new call has a key no instance knows.                                  *)
Fetch(k) ==
    /\ call[k] = Over /\ \A s \in Instances : replay[s][k] = 0
    /\ call' = [call EXCEPT ![k] = Sent(1)]
    /\ worked' = [worked EXCEPT ![k] = 0]
    /\ UNCHANGED <<bucket, replay, recent>>

(* Any other answer than a 401, or none at all, ends the call.              *)
EndCall(k) == call' = [call EXCEPT ![k] = Over]

LoseRequest(k) ==
    /\ call[k].at = "sent" /\ EndCall(k)
    /\ UNCHANGED <<bucket, replay, recent, worked>>

(* A 401 is met with a new token, if there is one, and the same key.        *)
AnswerUnauthorized(k) ==
    /\ call[k].at = "inside"
    /\ \/ EndCall(k)
       \/ call[k].fetch = 1 /\ call' = [call EXCEPT ![k] = Sent(2)]
    /\ UNCHANGED <<bucket, replay, recent, worked>>

-----------------------------------------------------------------------------
(* The gate of instance s, before anything is awaited.                      *)

(* The bucket after one more request; what exceeds the limit is not told    *)
(* apart.                                                                   *)
AfterRequest(b) ==
    IF b.left = 0 THEN [count |-> 1, left |-> Window]
    ELSE [b EXCEPT !.count = IF b.count <= Limit THEN b.count + 1 ELSE b.count]

WithinLimit(b) == b.left = 0 \/ b.count < Limit

Reach(k, s) ==
    /\ call[k].at = "sent"
    /\ bucket' = [bucket EXCEPT ![s] = AfterRequest(bucket[s])]

AnswerTooMany(k, s) ==
    /\ Reach(k, s) /\ ~WithinLimit(bucket[s]) /\ EndCall(k)
    /\ UNCHANGED <<replay, recent, worked>>

LetThrough(s) == recent' = [recent EXCEPT ![s][0] = @ + 1]

(* A browser's cookies come with a wrong origin or token.                   *)
AnswerForeign(k, s) ==
    /\ Reach(k, s) /\ WithinLimit(bucket[s]) /\ EndCall(k) /\ LetThrough(s)
    /\ UNCHANGED <<replay, worked>>

AnswerReplayed(k, s) ==
    /\ Reach(k, s) /\ WithinLimit(bucket[s]) /\ LetThrough(s)
    /\ replay[s][k] > 0 /\ EndCall(k)
    /\ UNCHANGED <<replay, worked>>

Admit(k, s) ==
    /\ Reach(k, s) /\ WithinLimit(bucket[s]) /\ LetThrough(s)
    /\ replay[s][k] = 0
    /\ replay' = [replay EXCEPT ![s][k] = KeyLife]
    /\ call' = [call EXCEPT ![k].at = "inside", ![k].server = s]
    /\ UNCHANGED worked

\* mutant: the client also fetches again when no answer comes
WorkAndRefetch(k) ==
    /\ call[k].at = "inside"
    /\ worked' = [worked EXCEPT ![k] = @ + 1]
    /\ \/ EndCall(k)
       \/ call[k].fetch = 1 /\ call' = [call EXCEPT ![k] = Sent(2)]
    /\ UNCHANGED <<bucket, replay, recent>>

(* Past requireAdmin the handler runs; its answer, if it arrives, is final. *)
Work(k) ==
    /\ call[k].at = "inside" /\ EndCall(k)
    /\ worked' = [worked EXCEPT ![k] = @ + 1]
    /\ UNCHANGED <<bucket, replay, recent>>

-----------------------------------------------------------------------------
Restart(s) ==
    /\ bucket' = [bucket EXCEPT ![s] = [count |-> 0, left |-> 0]]
    /\ replay' = [replay EXCEPT ![s] = [k \in Calls |-> 0]]
    /\ recent' = [recent EXCEPT ![s] = [age \in Ages |-> 0]]
    /\ call' = [k \in Calls |-> IF call[k].server = s THEN Over ELSE call[k]]
    /\ UNCHANGED worked

Less(n) == IF n = 0 THEN 0 ELSE n - 1

(* A bucket whose time is over counts no more.                              *)
Tick ==
    /\ bucket' = [s \in Instances |->
                     IF bucket[s].left <= 1 THEN [count |-> 0, left |-> 0]
                     ELSE [bucket[s] EXCEPT !.left = @ - 1]]
    /\ replay' = [s \in Instances |-> [k \in Calls |-> Less(replay[s][k])]]
    /\ recent' = [s \in Instances |->
                     [age \in Ages |-> IF age = 0 THEN 0 ELSE recent[s][age - 1]]]
    /\ UNCHANGED <<call, worked>>

GateNext ==
    \/ \E k \in Calls :
           \/ Fetch(k) \/ LoseRequest(k) \/ AnswerUnauthorized(k) \/ Work(k)
           \/ \E s \in Instances :
                  AnswerTooMany(k, s) \/ AnswerForeign(k, s) \/ AnswerReplayed(k, s) \/ Admit(k, s)
    \/ \E s \in Instances : Restart(s)
    \/ Tick

(* Time passes; clients and servers need not do anything.                   *)
GateSpec == GateInit /\ [][GateNext]_gateVars /\ WF_gateVars(Tick)

-----------------------------------------------------------------------------
(* Whatever the clients' timing, an instance lets fewer than two limits     *)
(* through in any stretch of a window's length.                             *)
BurstIsBounded == \A s \in Instances : SumFunctionOnSet(recent[s], Ages) < 2 * Limit

(* The payout handler runs at most once for a key, though the gate forgets  *)
(* keys, instances do not share them and the client sends some of them      *)
(* again.                                                                   *)
KeyWorksOnce == \A k \in Calls : worked[k] <= 1

(* Requests that are refused do not keep an instance closed: however many   *)
(* there are, its window ends.                                              *)
WindowsReopen == \A s \in Instances : bucket[s].count > Limit ~> bucket[s].left = 0

(* The gate bounds what it lets through, per window and per key.            *)
GateIsSound == GateTypeOK /\ BurstIsBounded /\ KeyWorksOnce

=============================================================================
