------------------------------- MODULE Portal -------------------------------
(***************************************************************************)
(* The contractor's own page (app/contractor/page.tsx): who is signed in,  *)
(* the profile, and a list of invoices by filter and page.  Every change   *)
(* of the selection sends a fetch, none is cancelled, and the last answer  *)
(* to come in is what the page shows, whatever it was asked for.           *)
(***************************************************************************)
EXTENDS Naturals, Sequences, FiniteSetsExt

CONSTANTS
    Filters,
    All,          \* the filter the page starts with
    MaxPages,     \* bound: pages the invoices of a filter fill
    MaxFetches    \* bound: fetches of a visit

ASSUME PortalAssumption ==
    /\ All \in Filters
    /\ MaxPages \in Nat /\ MaxFetches \in Nat

VARIABLES
    filled,   \* pages that the server's invoices of each filter fill
    user,     \* [session, linked]; linked: the token names a contractor
    profile,  \* "loading", "asked", "settled", or "again" when asked anew
    error,    \* the page shows an error, for good
    pick,     \* [filter, page]
    fetch,    \* the visit's fetches: [of, at, pages]
    loading,  \* the list is hidden behind a spinner
    listed,   \* the list shown: [of, pages]
    late,     \* history: a newer fetch was answered before the one shown
    hurried,  \* history: Next was clicked on an outdated pagination
    shrunk    \* history: filters that lost a page since the visit began

portalVars == <<filled, user, profile, error, pick, fetch, loading, listed, late, hurried, shrunk>>
sessionVars == <<user, profile>>
listVars == <<fetch, loading, listed, late>>

Picks == [filter: Filters, page: 1 .. MaxPages + 1]
Start == [filter |-> All, page |-> 1]
NotListed == [of |-> Start, pages |-> 0]  \* pagination null: no buttons

PortalTypeOK ==
    /\ filled \in [Filters -> 0 .. MaxPages]
    /\ user \in [session: {"unknown", "in", "out"}, linked: BOOLEAN]
    /\ profile \in {"loading", "asked", "settled", "again"}
    /\ pick \in Picks
    /\ fetch \in Seq([of: Picks, at: {"sent", "answered", "done"}, pages: 0 .. MaxPages])
    /\ Len(fetch) <= MaxFetches
    /\ listed \in [of: Picks, pages: 0 .. MaxPages]
    /\ {error, loading, late, hurried} \subseteq BOOLEAN
    /\ shrunk \subseteq Filters

Fresh ==
    /\ profile' = "loading" /\ error' = FALSE
    /\ pick' = Start /\ hurried' = FALSE /\ shrunk' = {}
    /\ fetch' = <<>> /\ loading' = FALSE /\ listed' = NotListed /\ late' = FALSE

PortalInit ==
    /\ filled \in [Filters -> 0 .. MaxPages]
    /\ user = [session |-> "unknown", linked |-> FALSE]
    /\ profile = "loading" /\ error = FALSE
    /\ pick = Start /\ hurried = FALSE /\ shrunk = {}
    /\ fetch = <<>> /\ loading = FALSE /\ listed = NotListed /\ late = FALSE

-----------------------------------------------------------------------------
(* The list is on the screen once the profile has come, while nothing is    *)
(* wrong.                                                                   *)
OnScreen == profile \in {"settled", "again"} /\ ~error

(* The effects.                                                             *)

InFlight == {n \in DOMAIN fetch : fetch[n].at # "done"}

(* fetchInvoices runs anew when the session or the selection changed.       *)
FetchInvoices(chosen) ==
    /\ Len(fetch) < MaxFetches
    /\ fetch' = Append(fetch, [of |-> chosen, at |-> "sent", pages |-> 0])
    /\ loading' = TRUE
    /\ UNCHANGED <<listed, late>>

(* The session becomes known, or changes.                                   *)
Authenticate(session, linked) ==
    /\ user' = [session |-> session, linked |-> linked] /\ user' # user
    /\ IF session = "in" /\ linked
       THEN profile' = (IF OnScreen THEN "again" ELSE "asked") /\ UNCHANGED error
       ELSE profile' = "settled" /\ error' = TRUE
    /\ IF session = "in" /\ user.session # "in" THEN FetchInvoices(pick) ELSE UNCHANGED listVars
    /\ UNCHANGED <<filled, pick, hurried, shrunk>>

AnswerProfile ==
    /\ profile \in {"asked", "again"} /\ profile' = "settled"
    /\ error' \in {error, TRUE}
    /\ UNCHANGED <<filled, user, pick, listVars, hurried, shrunk>>

ServeFetch(n) ==
    /\ fetch[n].at = "sent"
    /\ fetch' = [fetch EXCEPT ![n].at = "answered", ![n].pages = filled[fetch[n].of.filter]]
    /\ UNCHANGED <<filled, sessionVars, error, pick, loading, listed, late, hurried, shrunk>>

(* Any answer ends the spinner.                                             *)
ShowFetch(n) ==
    /\ fetch[n].at = "answered"
    /\ fetch' = [fetch EXCEPT ![n].at = "done"]
    /\ listed' = [of |-> fetch[n].of, pages |-> fetch[n].pages]
    /\ late' = (\E newer \in DOMAIN fetch : newer > n /\ fetch[newer].at = "done")
    /\ loading' = FALSE
    /\ UNCHANGED <<filled, sessionVars, error, pick, hurried, shrunk>>

FailFetch(n) ==
    /\ fetch[n].at # "done"
    /\ fetch' = [fetch EXCEPT ![n].at = "done"]
    /\ error' = TRUE /\ loading' = FALSE
    /\ UNCHANGED <<filled, sessionVars, pick, listed, late, hurried, shrunk>>

-----------------------------------------------------------------------------
(* The buttons.                                                             *)

(* React renders nothing anew, and sends no fetch, for an equal value.      *)
Select(chosen) ==
    /\ OnScreen /\ pick' = chosen
    /\ IF chosen # pick /\ user.session = "in" THEN FetchInvoices(chosen) ELSE UNCHANGED listVars
    /\ UNCHANGED <<filled, sessionVars, error, shrunk>>

FilteredInPlace(filter) == [pick EXCEPT !.filter = filter]  \* mutant: the page stays

Filtered(filter) == [filter |-> filter, page |-> 1]

SelectFilter(filter) == Select(Filtered(filter)) /\ hurried' = FALSE

Paged == listed.pages > 1

Previous ==
    /\ Paged /\ pick.page # 1
    /\ Select([pick EXCEPT !.page = @ - 1])
    /\ UNCHANGED hurried

Following == Min({listed.pages, pick.page + 1})

NextPage ==
    /\ Paged /\ pick.page # listed.pages
    /\ Select([pick EXCEPT !.page = Following])
    /\ hurried' = (hurried \/ InFlight # {} \/ late)

-----------------------------------------------------------------------------
(* Invoices are submitted and decided on meanwhile.                         *)
Fill(filter) ==
    /\ \/ filled[filter] < MaxPages /\ filled' = [filled EXCEPT ![filter] = @ + 1] /\ UNCHANGED shrunk
       \/ /\ filled[filter] > 0 /\ filled' = [filled EXCEPT ![filter] = @ - 1]
          /\ shrunk' = shrunk \cup {filter}
    /\ UNCHANGED <<sessionVars, error, pick, listVars, hurried>>

ReloadPortal ==
    /\ Fresh /\ user' = [session |-> "unknown", linked |-> FALSE]
    /\ UNCHANGED filled

-----------------------------------------------------------------------------
PortalNext ==
    \/ Authenticate("out", FALSE) \/ \E linked \in BOOLEAN : Authenticate("in", linked)
    \/ AnswerProfile \/ Previous \/ NextPage \/ ReloadPortal
    \/ \E n \in DOMAIN fetch : ServeFetch(n) \/ ShowFetch(n) \/ FailFetch(n)
    \/ \E filter \in Filters : SelectFilter(filter) \/ Fill(filter)

PortalSpec == PortalInit /\ [][PortalNext]_portalVars

-----------------------------------------------------------------------------
(* Once every fetch is answered the page lists what is selected, unless the *)
(* answers came in out of order.                                            *)
SelectionIsListed == OnScreen /\ fetch # <<>> /\ InFlight = {} /\ ~late => listed.of = pick

(* The contractor is not left on a page behind the last one, where no       *)
(* button leads back, unless Next was clicked while the list was on its way *)
(* or the list itself became shorter.                                       *)
PageIsReachable ==
    OnScreen /\ fetch # <<>> /\ InFlight = {} /\ ~late /\ ~hurried /\ pick.filter \notin shrunk =>
        pick.page <= Max({1, listed.pages})

PortalIsTrue == PortalTypeOK /\ SelectionIsListed /\ PageIsReachable

=============================================================================
