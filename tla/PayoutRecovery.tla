--------------------------- MODULE PayoutRecovery ---------------------------
(***************************************************************************)
(* The recovery services beside the payout engine, over the same rows and  *)
(* the same chain: the sweep and the retry jobs of                         *)
(* lib/services/payout-recovery.service.ts, and the rescue of a stuck      *)
(* escrow of lib/services/escrow-recovery.service.ts.                      *)
(*                                                                         *)
(* A payout row is never deleted and is unique per invoice, so the sweep's *)
(* search for a second confirmed row of the invoice finds nothing.         *)
(***************************************************************************)
EXTENDS PayoutEngine

CONSTANTS
    Sweeps,      \* concurrent calls of reconcileFailedPayouts
    Workers,     \* concurrent calls of retryTransientFailures
    Rescues,     \* calls of releaseOrReconcileStuckEscrow
    MaxAttempts  \* FailedJob.maxAttempts

ASSUME RecoveryAssumption ==
    /\ MaxAttempts \in Nat \ {0}
    /\ Rescues \subseteq Signatures \ Attempts

VARIABLES
    job,      \* the FailedJob row of each invoice's payout
    sweep,    \* the row each sweep is at
    worker,   \* the job each worker is at, and the attempt it runs
    rescue,   \* progress of each rescue, with its transaction
    answered  \* attempts that have returned a confirmed payout to their caller

recoveryVars == <<job, sweep, worker, rescue, answered>>

JobStatus == {"NONE", "PENDING_RETRY", "RESOLVED", "PERMANENT_FAILURE"}

NoSweep == [at |-> "idle"]
NoWork == [at |-> "idle"]
NoRescue == [at |-> "read"]

RecoveryTypeOK ==
    /\ TypeOK
    /\ job \in [Invoices -> [status: JobStatus, attempts: Nat]]
    /\ sweep \in [Sweeps -> {NoSweep} \cup
                            [at: {"read", "book", "queue"}, invoice: Invoices] \cup
                            [at: {"check"}, invoice: Invoices, signature: Signatures]]
    /\ worker \in [Workers -> {NoWork} \cup
                              [at: {"readRow"}, invoice: Invoices, attempts: Nat] \cup
                              [at: {"run"}, invoice: Invoices, attempts: Nat,
                               attempt: Attempts]]
    /\ rescue \in [Rescues -> {NoRescue} \cup
                              [at: {"status", "reconcile", "release", "await", "book",
                                    "done"},
                               invoice: Invoices, wallet: Payees,
                               tx: {"none", "sent", "landed", "dropped"}]]
    /\ answered \subseteq Attempts

RecoveryInit ==
    /\ Init
    /\ job = [i \in Invoices |-> [status |-> "NONE", attempts |-> 0]]
    /\ sweep = [s \in Sweeps |-> NoSweep]
    /\ worker = [w \in Workers |-> NoWork]
    /\ rescue = [r \in Rescues |-> NoRescue]
    /\ answered = {}

-----------------------------------------------------------------------------
(* reconcileFailedPayouts lists FAILED and PENDING rows, those of running   *)
(* attempts included, and takes them one by one.                            *)
Sweeping(s, next) ==
    /\ sweep' = [sweep EXCEPT ![s] = next]
    /\ UNCHANGED <<worker, rescue, answered>>

SelectRow(s, i) ==
    /\ sweep[s] = NoSweep
    /\ payout[i].status \in {"FAILED", "PENDING"}
    /\ Sweeping(s, [at |-> "read", invoice |-> i])
    /\ UNCHANGED <<vars, job>>

(* reconcilePayout reads the row again.                                     *)
ReadSweptRow(s) ==
    LET i == sweep[s].invoice IN
    /\ sweep[s].at = "read"
    /\ Sweeping(s, IF payout[i].txSignature # None
                   THEN [at |-> "check", invoice |-> i, signature |-> payout[i].txSignature]
                   ELSE [at |-> "queue", invoice |-> i])
    /\ UNCHANGED <<vars, job>>

(* getSignatureStatus: the node may not know a transaction that landed.     *)
Landed(signature) ==
    \/ signature \in Attempts /\ tx[signature].state = "landed"
    \/ signature \in Rescues /\ rescue[signature].tx = "landed"

CheckSignature(s) ==
    /\ sweep[s].at = "check"
    /\ \E found \in BOOLEAN :
          /\ found => Landed(sweep[s].signature)
          /\ Sweeping(s, [at |-> IF found THEN "book" ELSE "queue",
                          invoice |-> sweep[s].invoice])
    /\ UNCHANGED <<vars, job>>

(* The $transaction of the sweep leaves the signature as it finds it.       *)
BookSwept(s) ==
    LET i == sweep[s].invoice IN
    /\ sweep[s].at = "book"
    /\ payout' = [payout EXCEPT ![i].status = "CONFIRMED"]
    /\ invoice' = [invoice EXCEPT ![i] = "PAID"]
    /\ Sweeping(s, NoSweep)
    /\ UNCHANGED <<chainVars, call, pc, seen, tx, review, historyVars, job>>

(* failedJob.upsert: an old job is opened again, its attempts kept.         *)
QueueRetry(s) ==
    /\ sweep[s].at = "queue"
    /\ job' = [job EXCEPT ![sweep[s].invoice].status = "PENDING_RETRY"]
    /\ Sweeping(s, NoSweep)
    /\ UNCHANGED vars

DropSweep(s) ==
    /\ sweep[s] # NoSweep
    /\ Sweeping(s, NoSweep)
    /\ UNCHANGED <<vars, job>>

-----------------------------------------------------------------------------
(* retryTransientFailures: a job as findMany read it, then its payout row,  *)
(* then a call of executePayout with the row's wallet.                      *)
Working(w, next) ==
    /\ worker' = [worker EXCEPT ![w] = next]
    /\ UNCHANGED <<sweep, rescue, answered>>

TakeJob(w, i) ==
    /\ worker[w] = NoWork
    /\ job[i].status = "PENDING_RETRY"
    /\ Working(w, [at |-> "readRow", invoice |-> i, attempts |-> job[i].attempts])
    /\ UNCHANGED <<vars, job>>

(* The attempt is one nobody has called yet.                                *)
Idling(a) ==
    /\ pc[a] = "lookup"
    /\ \A w \in Workers : worker[w].at = "run" => worker[w].attempt # a

StartRetry(w, a) ==
    LET i == worker[w].invoice IN
    /\ worker[w].at = "readRow"
    /\ Idling(a)
    /\ call[a] = [invoice |-> i, wallet |-> payout[i].wallet]
    /\ Working(w, [at |-> "run", invoice |-> i, attempts |-> worker[w].attempts, attempt |-> a])
    /\ UNCHANGED <<vars, job>>

(* The job is RESOLVED when executePayout returned.  It has failed when     *)
(* executePayout threw, or when the update to RESOLVED itself failed; the   *)
(* error is transient by its message, which a refused duplicate's is not.   *)
Returned(a) == a \in answered

MayBeTransient(a) == seen[a] # "PENDING"

ResolveJob(w) ==
    /\ worker[w].at = "run"
    /\ pc[worker[w].attempt] = "done"
    /\ Returned(worker[w].attempt)
    /\ job' = [job EXCEPT ![worker[w].invoice].status = "RESOLVED"]
    /\ Working(w, NoWork)
    /\ UNCHANGED vars

FailJob(w) ==
    LET attempts == worker[w].attempts + 1 IN
    /\ worker[w].at = "run"
    /\ pc[worker[w].attempt] = "done"
    /\ \E transient \in BOOLEAN :
          /\ transient => MayBeTransient(worker[w].attempt)
          /\ job' = [job EXCEPT ![worker[w].invoice] =
                        [status |-> IF attempts >= MaxAttempts \/ ~transient
                                    THEN "PERMANENT_FAILURE" ELSE "PENDING_RETRY",
                         attempts |-> attempts]]
    /\ Working(w, NoWork)
    /\ UNCHANGED vars

(* The worker dies; an attempt it runs dies with it.                        *)
DropWorker(w) ==
    /\ worker[w] # NoWork
    /\ worker[w].at = "run" => pc[worker[w].attempt] = "done"
    /\ Working(w, NoWork)
    /\ UNCHANGED <<vars, job>>

-----------------------------------------------------------------------------
(* releaseOrReconcileStuckEscrow.                                           *)
Rescuing(r, next) ==
    /\ rescue' = [rescue EXCEPT ![r] = next]
    /\ UNCHANGED <<job, sweep, worker, answered>>

RescueAt(r, at) == Rescuing(r, [rescue[r] EXCEPT !.at = at])

ReadStuckRow(r, i) ==
    /\ rescue[r] = NoRescue
    /\ payout[i].status # "NONE"
    /\ Rescuing(r, [at |-> "status", invoice |-> i, wallet |-> payout[i].wallet, tx |-> "none"])
    /\ UNCHANGED vars

UnreleasedToo(account) == account.initialized  \* mutant: an open escrow is reconciled

AlreadyReleased(account) == account.initialized /\ account.isReleased

ReadStuckEscrow(r) ==
    LET account == escrow[rescue[r].invoice] IN
    /\ rescue[r].at = "status"
    /\ RescueAt(r, IF ~account.initialized THEN "done"
                   ELSE IF AlreadyReleased(account) THEN "reconcile" ELSE "release")
    /\ UNCHANGED vars

(* A released escrow confirms the row, without a signature, and the row     *)
(* alone.                                                                   *)
ReconcileReleased(r) ==
    /\ rescue[r].at = "reconcile"
    /\ payout' = [payout EXCEPT ![rescue[r].invoice].status = "CONFIRMED"]
    /\ RescueAt(r, "done")
    /\ UNCHANGED <<chainVars, invoice, call, pc, seen, tx, review, historyVars>>

(* releaseEscrow reads the account once more.                               *)
ReleaseStuck(r) ==
    LET account == escrow[rescue[r].invoice] IN
    /\ rescue[r].at = "release"
    /\ \/ /\ ~account.isReleased
          /\ Rescuing(r, [rescue[r] EXCEPT !.at = "await", !.tx = "sent"])
       \/ /\ account.isReleased
          /\ RescueAt(r, "done")
    /\ UNCHANGED vars

LandRescue(r) ==
    /\ rescue[r] # NoRescue /\ rescue[r].tx = "sent"
    /\ Chain!Release(rescue[r].invoice, Treasury, rescue[r].wallet)
    /\ Rescuing(r, [rescue[r] EXCEPT !.tx = "landed"])
    /\ UNCHANGED <<dbVars, call, pc, seen, tx, review, historyVars>>

DropRescue(r) ==
    /\ rescue[r] # NoRescue /\ rescue[r].tx = "sent"
    /\ Rescuing(r, [rescue[r] EXCEPT !.tx = "dropped"])
    /\ UNCHANGED vars

RescueConfirmation(r) ==
    /\ rescue[r].at = "await"
    /\ \/ rescue[r].tx = "landed" /\ RescueAt(r, "book")
       \/ rescue[r].tx = "dropped" /\ RescueAt(r, "done")
    /\ UNCHANGED vars

BookRescue(r) ==
    LET i == rescue[r].invoice IN
    /\ rescue[r].at = "book"
    /\ payout' = [payout EXCEPT ![i] = BookedRow(@, r)]
    /\ invoice' = [invoice EXCEPT ![i] = "PAID"]
    /\ RescueAt(r, "done")
    /\ UNCHANGED <<chainVars, call, pc, seen, tx, review, historyVars>>

(* An error at any await, a confirmation timeout included, ends the rescue. *)
AbandonRescue(r) ==
    /\ rescue[r].at \in {"status", "reconcile", "release", "await", "book"}
    /\ RescueAt(r, "done")
    /\ UNCHANGED vars

-----------------------------------------------------------------------------
(* The engine, with what its calls return.                                  *)
Answer(a) ==
    /\ Repair(a) \/ Confirm(a)
    /\ answered' = answered \cup {a}
    /\ UNCHANGED <<job, sweep, worker, rescue>>

Progress(a) ==
    /\ \/ Lookup(a) \/ ReadInvoice(a) \/ CreateRow(a) \/ ReclaimRow(a)
       \/ InitializeEscrow(a) \/ DepositEscrow(a) \/ ReleaseEscrow(a) \/ SavePda(a)
       \/ Confirmation(a) \/ MarkFailed(a) \/ Throw(a) \/ Crash(a) \/ Cluster(a)
    /\ UNCHANGED recoveryVars

Sweep(s) ==
    \/ \E i \in Invoices : SelectRow(s, i)
    \/ ReadSweptRow(s) \/ CheckSignature(s) \/ BookSwept(s) \/ QueueRetry(s) \/ DropSweep(s)

Work(w) ==
    \/ \E i \in Invoices : TakeJob(w, i)
    \/ \E a \in Attempts : StartRetry(w, a)
    \/ ResolveJob(w) \/ FailJob(w) \/ DropWorker(w)

Rescue(r) ==
    \/ \E i \in Invoices : ReadStuckRow(r, i)
    \/ ReadStuckEscrow(r) \/ ReconcileReleased(r) \/ ReleaseStuck(r) \/ RescueConfirmation(r)
    \/ BookRescue(r) \/ AbandonRescue(r) \/ LandRescue(r) \/ DropRescue(r)

RecoveryNext ==
    \/ \E a \in Attempts : Answer(a) \/ Progress(a)
    \/ \E r \in Reviewers : Reviewing(r) /\ UNCHANGED recoveryVars
    \/ \E s \in Sweeps : Sweep(s)
    \/ \E w \in Workers : Work(w)
    \/ \E r \in Rescues : Rescue(r)

RecoverySpec == RecoveryInit /\ [][RecoveryNext]_<<vars, recoveryVars>>

-----------------------------------------------------------------------------
(* Properties.  BooksMeetChain must hold here too: no recovery books a      *)
(* payment that was not made, or leaves money nobody answers for, whoever   *)
(* it races with.                                                           *)

(* One release of an invoice lands, whoever sends it: attempts called by    *)
(* requests, attempts called by retry jobs, and rescues.                    *)
ReleasedBy(i) ==
    {a \in Attempts : call[a].invoice = i /\ tx[a] = [op |-> "release", state |-> "landed"]}
    \cup {r \in Rescues : rescue[r] # NoRescue /\ rescue[r].invoice = i
                          /\ rescue[r].tx = "landed"}

OneRelease == \A i \in Invoices : Cardinality(ReleasedBy(i)) <= 1

(* A job that was closed as RESOLVED has its money paid out, although the   *)
(* row may have been opened again since.                                    *)
ResolvedIsPaid ==
    \A i \in Invoices :
        job[i].status = "RESOLVED" => escrow[i].isReleased /\ paid[i] > 0

(* A call that finds a CONFIRMED row sends nothing, also when a recovery    *)
(* confirmed the row without a signature, so that the call does not answer  *)
(* at once but goes on to claim the row.                                    *)
ConfirmedIsNotRetried ==
    \A a \in Attempts :
        seen[a] = "CONFIRMED" => tx[a].op = "none" /\ pc[a] \notin Claimed

(* The books meet the chain and the chain pays once, whoever recovers.      *)
RecoveryBooks == RecoveryTypeOK /\ BooksMeetChain /\ OneRelease /\ ResolvedIsPaid

=============================================================================
