----------------------------- MODULE Dashboard ------------------------------
(***************************************************************************)
(* The company's dashboard (app/dashboard/page.tsx, hooks/use-app-data.ts) *)
(* over a cached page of the newest invoices: what it offers to approve,   *)
(* reject and pay is what its last fetch found, its requests and fetches   *)
(* are on their way together, and the same rows change elsewhere.  The     *)
(* routes are kept to what they read and write of the invoice's status;    *)
(* contractors, payouts and money are the other modules'.                  *)
(***************************************************************************)
EXTENDS Naturals

CONSTANTS
    Bills,
    Clicks,     \* requests the page has on their way at a time
    NoInvoice

ASSUME DashboardAssumption == NoInvoice \notin Bills

VARIABLES
    status,      \* of the server's invoices
    list,        \* query "invoices": [known, data, valid]
    asking,      \* its fetch: [at, tries, data]
    dialog,      \* the invoice of the open reject dialog
    click,       \* of each click: [kind, of, at]
    said,        \* history: what the page announced of which invoice
    overwritten  \* history: invoices decided upon a reading that was outdated

dashboardVars == <<status, list, asking, dialog, click, said, overwritten>>
serverVars == <<status, overwritten>>
pageVars == <<list, asking, dialog, said>>

InvoiceStatuses == {"PENDING", "APPROVED", "REJECTED", "PAID"}
Listings == [Bills -> InvoiceStatuses \cup {"unlisted"}]
Unlisted == [i \in Bills |-> "unlisted"]

NotAsking == [at |-> "no", tries |-> 0, data |-> Unlisted]
AskFor == [at |-> "sent", tries |-> 1, data |-> Unlisted]
NoClick == [kind |-> "none", of |-> {}, at |-> "idle"]

DashboardTypeOK ==
    /\ status \in [Bills -> InvoiceStatuses]
    /\ list \in [known: BOOLEAN, data: Listings, valid: BOOLEAN]
    /\ asking \in [at: {"no", "sent", "answered"}, tries: 0 .. 2, data: Listings]
    /\ dialog \in Bills \cup {NoInvoice}
    /\ click \in [Clicks -> {NoClick} \cup
           [kind: {"approve", "reject", "pay"}, of: SUBSET Bills,
            at: {"sent", "read", "done", "refused"}]]
    /\ said \subseteq Bills \X InvoiceStatuses
    /\ overwritten \subseteq Bills

DashboardInit ==
    /\ status \in [Bills -> {"PENDING", "APPROVED"}]
    /\ list = [known |-> FALSE, data |-> Unlisted, valid |-> FALSE]
    /\ asking = AskFor
    /\ dialog = NoInvoice
    /\ click = [c \in Clicks |-> NoClick]
    /\ said = {} /\ overwritten = {}

-----------------------------------------------------------------------------
(* The query.                                                               *)

DroppedNever == FALSE  \* mutant: joins the fetch that is on its way

Dropped == list.known

(* An invalidated query is fetched anew.  What was on its way is dropped,   *)
(* except on the first load, which is joined.                               *)
Invalidate ==
    /\ list' = [list EXCEPT !.valid = FALSE]
    /\ asking' = IF Dropped \/ asking.at = "no" THEN AskFor ELSE asking

(* The page is looked at again, and the list is no longer fresh.            *)
Refocus ==
    /\ asking.at = "no" /\ asking' = AskFor
    /\ UNCHANGED <<serverVars, list, dialog, click, said>>

(* The refresh button, or an invoice created here.                          *)
Refresh == Invalidate /\ UNCHANGED <<serverVars, dialog, click, said>>

Shown(page) == [i \in Bills |-> IF i \in page THEN status[i] ELSE "unlisted"]

ServeList ==
    /\ asking.at = "sent"
    /\ \E page \in SUBSET Bills :
           asking' = [asking EXCEPT !.at = "answered", !.data = Shown(page)]
    /\ UNCHANGED <<serverVars, list, dialog, click, said>>

ShowList ==
    /\ asking.at = "answered" /\ asking' = NotAsking
    /\ list' = [known |-> TRUE, data |-> asking.data, valid |-> TRUE]
    /\ UNCHANGED <<serverVars, dialog, click, said>>

(* Refused or lost: asked once more, then the old list stays.               *)
FailList ==
    /\ asking.at # "no"
    /\ asking' = IF asking.tries = 1 THEN [AskFor EXCEPT !.tries = 2] ELSE NotAsking
    /\ UNCHANGED <<serverVars, list, dialog, click, said>>

-----------------------------------------------------------------------------
(* What the page offers.                                                    *)

Clicked(c, kind, of) ==
    /\ click[c] = NoClick
    /\ click' = [click EXCEPT ![c] = [kind |-> kind, of |-> of, at |-> "sent"]]
    /\ UNCHANGED <<serverVars, pageVars>>

Pending(kind) == \E c \in Clicks : click[c].kind = kind

Approve(c, i) == list.data[i] = "PENDING" /\ Clicked(c, "approve", {i})

OpenReject(i) ==
    /\ list.data[i] = "PENDING" /\ dialog' = i
    /\ UNCHANGED <<serverVars, list, asking, click, said>>

CloseReject ==
    /\ dialog # NoInvoice /\ dialog' = NoInvoice
    /\ UNCHANGED <<serverVars, list, asking, click, said>>

(* The dialog stays open while the list changes under it.                   *)
Reject(c) == dialog # NoInvoice /\ ~Pending("reject") /\ Clicked(c, "reject", {dialog})

PayoutQueue == {i \in Bills : list.data[i] = "APPROVED"}

ExecutePayouts(c) == PayoutQueue # {} /\ ~Pending("pay") /\ Clicked(c, "pay", PayoutQueue)

-----------------------------------------------------------------------------
(* The routes: they read, and then write by the invoice's id alone.         *)

At(c, kind, at) == click[c].kind = kind /\ click[c].at = at

Moves(c, at) == click' = [click EXCEPT ![c].at = at]

ReadToDecide(c, i) ==
    /\ click[c].of = {i}
    /\ \/ At(c, "approve", "sent") /\ Moves(c, CASE status[i] = "PENDING" -> "read"
                                                 [] status[i] = "APPROVED" -> "done"
                                                 [] OTHER -> "refused")
       \/ At(c, "reject", "sent") /\ Moves(c, IF status[i] = "PENDING" THEN "read" ELSE "refused")
    /\ UNCHANGED <<serverVars, pageVars>>

Decide(i, decision) ==
    /\ status' = [status EXCEPT ![i] = decision]
    /\ overwritten' = IF status[i] = "PENDING" THEN overwritten ELSE overwritten \cup {i}

WriteDecision(c, i) ==
    /\ click[c].of = {i} /\ Moves(c, "done")
    /\ \/ At(c, "approve", "read") /\ Decide(i, "APPROVED")
       \/ At(c, "reject", "read") /\ Decide(i, "REJECTED")
    /\ UNCHANGED pageVars

ReadToPay(c) ==
    /\ At(c, "pay", "sent")
    /\ Moves(c, IF \A i \in click[c].of : status[i] = "APPROVED" THEN "read" ELSE "refused")
    /\ UNCHANGED <<serverVars, pageVars>>

(* All of the batch is paid or none; a payout row of an earlier attempt, or *)
(* the transfer, may be in the way.                                         *)
ServePayment(c) ==
    /\ At(c, "pay", "read")
    /\ \/ /\ status' = [i \in Bills |-> IF i \in click[c].of THEN "PAID" ELSE status[i]]
          /\ Moves(c, "done")
       \/ UNCHANGED status /\ Moves(c, "refused")
    /\ UNCHANGED <<overwritten, pageVars>>

(* Other administrators, whose readings may be outdated too, and payouts.   *)
Elsewhere(i) ==
    /\ \/ \E decision \in {"APPROVED", "REJECTED"} : Decide(i, decision)
       \/ status[i] = "APPROVED" /\ status' = [status EXCEPT ![i] = "PAID"] /\ UNCHANGED overwritten
    /\ UNCHANGED <<click, pageVars>>

-----------------------------------------------------------------------------
(* Answers.                                                                 *)

Announcement(kind) ==
    CASE kind = "approve" -> "APPROVED" [] kind = "reject" -> "REJECTED" [] kind = "pay" -> "PAID"

EndClick(c) == click' = [click EXCEPT ![c] = NoClick]

OnSuccess(c) ==
    /\ click[c].at = "done" /\ EndClick(c)
    /\ said' = said \cup (click[c].of \X {Announcement(click[c].kind)})
    /\ Invalidate
    /\ dialog' = IF click[c].kind = "reject" THEN NoInvoice ELSE dialog
    /\ UNCHANGED serverVars

(* Refused, or no answer: the list is left as it is.                        *)
OnError(c) ==
    /\ click[c].at \in {"sent", "done", "refused"} /\ EndClick(c)
    /\ UNCHANGED <<serverVars, pageVars>>

-----------------------------------------------------------------------------
DashboardNext ==
    \/ Refocus \/ Refresh \/ ServeList \/ ShowList \/ FailList \/ CloseReject
    \/ \E i \in Bills : OpenReject(i) \/ Elsewhere(i)
    \/ \E c \in Clicks :
           \/ Reject(c) \/ ExecutePayouts(c) \/ ReadToPay(c) \/ ServePayment(c)
           \/ OnSuccess(c) \/ OnError(c)
           \/ \E i \in Bills : Approve(c, i) \/ ReadToDecide(c, i) \/ WriteDecision(c, i)

DashboardSpec == DashboardInit /\ [][DashboardNext]_dashboardVars

-----------------------------------------------------------------------------
(* A list that is not marked as outdated agrees with what the page has      *)
(* announced, whatever was on its way: no invoice it said was paid is       *)
(* offered to be paid, none it said was decided is offered to be decided,   *)
(* unless the server let a decision write over another.                     *)
Agrees(shown, announced) ==
    \/ shown \in {announced, "unlisted"}
    \/ announced = "APPROVED" /\ shown = "PAID"

AllAgree(shown) ==
    \A i \in Bills, what \in InvoiceStatuses :
        <<i, what>> \in said /\ i \notin overwritten => Agrees(shown[i], what)

AnnouncedIsListed == list.valid => AllAgree(list.data)

(* An announcement stays true of the server's row.                          *)
AnnouncedIsTrue == AllAgree(status)

DashboardIsTrue == DashboardTypeOK /\ AnnouncedIsListed /\ AnnouncedIsTrue

=============================================================================
