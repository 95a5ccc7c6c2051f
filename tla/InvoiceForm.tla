---------------------------- MODULE InvoiceForm -----------------------------
(***************************************************************************)
(* The contractor's page for a new invoice, contractor/invoices/new, from  *)
(* the fields to the answer of POST /api/invoices.  The page keeps text    *)
(* and reads numbers from it; it sends one total, in whole cents, with the *)
(* lines, and the route compares the two.  Who may submit, and the         *)
(* contractor's row, are Workforce's; that lines are described is asked by *)
(* page and route alike and left out.                                      *)
(***************************************************************************)
EXTENDS InvoiceRules, FiniteSets

CONSTANTS
    Quantities,    \* as read from the text: 0 also for what is no number
    Prices,        \* likewise
    NoPrice,       \* an empty price
    Days,
    MaxLines,      \* bound: lines of the form
    MaxSubmissions \* bound: requests sent

ASSUME InvoiceFormAssumption ==
    /\ Quantities \subseteq Int /\ 1 \in Quantities
    /\ Prices \subseteq Int /\ NoPrice \notin Prices
    /\ Days \subseteq Int /\ Days # {}
    /\ MaxLines \in Nat \ {0} /\ MaxSubmissions \in Nat

VARIABLES
    form,     \* [lines, starts, ends]
    screen,   \* "editing", "sending" or "submitted"
    touched,  \* history: the form was edited while it was being sent
    request,  \* the requests sent, and then what the route did with each
    visit     \* [first, losses]: this visit's first request, its lost answers

formVars == <<form, screen, touched, request, visit>>

NewLine == [quantity |-> 1, price |-> NoPrice]
Lines == [quantity: Quantities, price: Prices \cup {NoPrice}]

FormTypeOK ==
    /\ form.lines \in Seq(Lines) /\ Len(form.lines) \in 1 .. MaxLines
    /\ form.starts \in Days /\ form.ends \in Days
    /\ screen \in {"editing", "sending", "submitted"} /\ touched \in BOOLEAN
    /\ Len(request) <= MaxSubmissions
    /\ visit.first \in 1 .. Len(request) + 1 /\ visit.losses \in 0 .. Len(request)

(* From the first of the month, in local time, to today, in universal time. *)
Blanks == {[lines |-> <<NewLine>>, starts |-> first, ends |-> today] : first, today \in Days}

FormInit ==
    /\ form \in Blanks
    /\ screen = "editing" /\ touched = FALSE
    /\ request = <<>>
    /\ visit = [first |-> 1, losses |-> 0]

-----------------------------------------------------------------------------
(* The fields can be edited until the invoice is known to be submitted.     *)

Edit(changed) ==
    /\ screen # "submitted" /\ form' = changed
    /\ touched' = (touched \/ screen = "sending")
    /\ UNCHANGED <<screen, request, visit>>

AddLine == Len(form.lines) < MaxLines /\ Edit([form EXCEPT !.lines = Append(@, NewLine)])

RemoveLine(n) == Len(form.lines) > 1 /\ Edit([form EXCEPT !.lines = RemoveAt(@, n)])

UpdateLine(n) ==
    \/ \E quantity \in Quantities : Edit([form EXCEPT !.lines[n].quantity = quantity])
    \/ \E price \in Prices : Edit([form EXCEPT !.lines[n].price = price])

SetPeriod == \E day \in Days : Edit([form EXCEPT !.starts = day]) \/ Edit([form EXCEPT !.ends = day])

-----------------------------------------------------------------------------
(* An empty price counts as nothing in the total, and is not accepted.      *)

ParsedLine(line) ==
    [quantity |-> line.quantity, price |-> IF line.price = NoPrice THEN 0 ELSE line.price]

Parsed(lines) == [n \in DOMAIN lines |-> ParsedLine(lines[n])]

ComputedTotal(lines) == LineTotal(Parsed(lines))

(* The cents a total is written as.  It is a binary sum: where it stands    *)
(* for the middle between two cents, its last bit decides which is taken,   *)
(* and toFixed, which takes the exact value of the sum, and the number      *)
(* format, which takes its shortest decimal, may decide differently.        *)
InTheMiddle(total) == total % Cent = Cent \div 2

Nearest(total) ==
    LET down == Cent * (total \div Cent)
    IN IF InTheMiddle(total) THEN {down, down + Cent}
       ELSE {IF total - down < Cent \div 2 THEN down ELSE down + Cent}

\* mutant: the amount is rounded up
FixedUp(total) == {Cent * ((total + Cent - 1) \div Cent)}

ToFixed(total) == Nearest(total)

FormatUsdc(total) == Nearest(total)

Validate(f) ==
    /\ f.starts <= f.ends
    /\ \A n \in DOMAIN f.lines :
           /\ f.lines[n].quantity > 0
           /\ f.lines[n].price # NoPrice /\ f.lines[n].price >= 0
    /\ ComputedTotal(f.lines) > 0

Payloads(f) ==
    {[amount |-> amount, items |-> Parsed(f.lines), starts |-> f.starts, ends |-> f.ends] :
         amount \in ToFixed(ComputedTotal(f.lines))}

ReadyToSend(shown) == shown = "editing"

Submit ==
    /\ ReadyToSend(screen) /\ Validate(form) /\ Len(request) < MaxSubmissions
    /\ \E payload \in Payloads(form) : request' = Append(request, [at |-> "sent", payload |-> payload])
    /\ screen' = "sending" /\ touched' = FALSE
    /\ UNCHANGED <<form, visit>>

(* The route stores what it accepts, or answers that it does not.           *)
ServeForm(n) ==
    LET payload == request[n].payload
    IN /\ request[n].at = "sent"
       /\ request' = [request EXCEPT ![n] =
              [at |-> IF ValidForm(payload) THEN "created" ELSE "refused", amount |-> payload.amount]]
       /\ UNCHANGED <<form, screen, touched, visit>>

AnswerForm ==
    /\ screen = "sending"
    /\ \/ Last(request).at = "created" /\ screen' = "submitted"
       \/ Last(request).at = "refused" /\ screen' = "editing"
    /\ UNCHANGED <<form, touched, request, visit>>

(* Without an answer the page reports an error, and is ready to send again. *)
LoseForm ==
    /\ screen = "sending" /\ screen' = "editing"
    /\ visit' = [visit EXCEPT !.losses = @ + 1]
    /\ UNCHANGED <<form, touched, request>>

VisitForm ==
    /\ form' \in Blanks
    /\ screen' = "editing" /\ touched' = FALSE
    /\ visit' = [first |-> Len(request) + 1, losses |-> 0]
    /\ UNCHANGED request

FormNext ==
    \/ AddLine \/ SetPeriod \/ Submit \/ AnswerForm \/ LoseForm \/ VisitForm
    \/ \E n \in DOMAIN form.lines : RemoveLine(n) \/ UpdateLine(n)
    \/ \E n \in DOMAIN request : ServeForm(n)

FormSpec == FormInit /\ [][FormNext]_formVars

-----------------------------------------------------------------------------
(* The route refuses nothing that the page let through, except what comes   *)
(* to half a cent at most.                                                  *)
RefusedIsWorthless == \A n \in DOMAIN request : request[n].at = "refused" => request[n].amount = 0

(* Within a visit every invoice after the first had an answer lost before   *)
(* it: only then does the page send the same work twice.                    *)
TwiceOnlyAfterLoss ==
    LET ofVisit == {n \in visit.first .. Len(request) : request[n].at = "created"}
    IN Cardinality(ofVisit) <= 1 + visit.losses

(* The success screen shows the amount that was stored, unless the form was *)
(* edited on the way.  A total in the middle between two cents is the one   *)
(* exception: screen and row may then differ, by one cent.                  *)
ShownIsStored ==
    screen = "submitted" /\ ~touched =>
        LET total == ComputedTotal(form.lines)
            stored == Last(request).amount
        IN \A shown \in FormatUsdc(total) :
               shown # stored => InTheMiddle(total) /\ shown - stored \in {-Cent, Cent}

(* The page and the route agree on what was submitted, how often and for    *)
(* how much.                                                                *)
FormIsSound == FormTypeOK /\ RefusedIsWorthless /\ TwiceOnlyAfterLoss /\ ShownIsStored

=============================================================================
