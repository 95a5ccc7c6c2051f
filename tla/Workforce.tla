----------------------------- MODULE Workforce -----------------------------
(***************************************************************************)
(* Contractors and the invoices they submit: lib/services/                 *)
(* contractor.service.ts, invoice.service.ts and the routes that call them.*)
(*                                                                         *)
(* A handler is a few database calls with an await between them, and no    *)
(* transaction: what it read may be gone when it writes, and it may stop   *)
(* before its audit row.  Rows are kept by their place in a sequence; a    *)
(* deleted contractor stays there, no longer live, as ids are not reused.  *)
(* What executePayout does between a route's read and the PAID row is      *)
(* PayoutEngine's.                                                         *)
(***************************************************************************)
EXTENDS RowSecurity, InvoiceRules, Integers, FiniteSets, Sequences, SequencesExt

CONSTANTS
    Sessions,        \* sessions: [company, claims, appContractor]
    Companies,
    Emails,         \* as typed
    Normal,         \* toLowerCase().trim() of each
    WalletInputs,   \* wallets as typed, NoWallet among them
    NoWallet,
    WellFormed,     \* those that are 32 to 44 characters of base58
    KycVerdicts,    \* values of KycStatus that are asked for
    Forms,          \* invoices as submitted, for InvoiceRules
    MaxContractors, \* bound: rows created
    MaxInvoices,    \* bound: rows created
    Jobs,           \* concurrent requests
    MaxJobs         \* bound: requests served

ASSUME WorkforceAssumption ==
    /\ \A u \in Sessions : u.company \in Companies
    /\ Nowhere \notin Companies
    /\ Normal \in [Emails -> Emails]
    /\ NoWallet \in WalletInputs \ WellFormed
    /\ KycVerdicts \subseteq {"PENDING", "VERIFIED", "REJECTED"}
    /\ {MaxContractors, MaxInvoices, MaxJobs} \subseteq Nat

ASSUME NobodyAssumption == Nowhere \notin 1 .. MaxContractors

VARIABLES
    contractor, \* Contractor rows
    invoice,    \* Invoice rows
    submitted,  \* their ids by submittedAt, the oldest first
    audit,      \* AuditLog rows
    mailed,     \* invoices whose rejection was mailed
    job,        \* what each request has read, and the await it is at
    served,     \* requests started so far
    seenBy,     \* history: contractors there were when each one's email was checked
    raced,      \* history: contractors written from a read that was outdated
    unlogged    \* history: audit rows of requests that stopped before them

workforceTables == <<contractor, invoice, submitted, audit, mailed>>
workforceHistory == <<seenBy, raced, unlogged>>
workforceVars == <<workforceTables, job, served, workforceHistory>>

Preferences == {"USDC", "FIAT"}
Statuses == {"PENDING", "APPROVED", "REJECTED", "PAID"}
ContractorRows == [company: Companies, email: Emails, preference: Preferences,
                   wallet: WalletInputs, kyc: {"PENDING", "VERIFIED", "REJECTED"}, live: BOOLEAN]
InvoiceRows == [company: Companies, contractor: 1 .. MaxContractors, status: Statuses]
Idle == [at |-> "idle"]

Entry(action, id) == [action |-> action, subject |-> id]
KycEntry(id, verdict) == [action |-> "KYC_STATUS_UPDATED", subject |-> id, verdict |-> verdict]

WorkforceTypeOK ==
    /\ contractor \in Seq(ContractorRows) /\ Len(contractor) <= MaxContractors
    /\ invoice \in Seq(InvoiceRows) /\ Len(invoice) <= MaxInvoices
    /\ Len(submitted) = Len(invoice) /\ ToSet(submitted) = DOMAIN invoice
    /\ \A e \in audit \cup unlogged : e.subject \in DOMAIN contractor \cup DOMAIN invoice
    /\ mailed \subseteq DOMAIN invoice /\ raced \subseteq DOMAIN contractor
    /\ DOMAIN job = Jobs /\ served \in 0 .. MaxJobs
    /\ Len(seenBy) = Len(contractor)

WorkforceInit ==
    /\ contractor = <<>> /\ invoice = <<>> /\ submitted = <<>>
    /\ audit = {} /\ mailed = {}
    /\ job = [j \in Jobs |-> Idle] /\ served = 0
    /\ seenBy = <<>> /\ raced = {} /\ unlogged = {}

-----------------------------------------------------------------------------
(* Sessions of the invoice routes: any role but "admin" is a contractor's.  *)

CallerRole(u) == IF CurrentAuthRole(u.claims) = "admin" THEN "admin" ELSE "contractor"

ContractorIdOf(u) == IF u.appContractor # Nowhere THEN u.appContractor ELSE CurrentContractor(u.claims)

(* Requests.                                                                *)

Free(j) == job[j] = Idle /\ served < MaxJobs

Serve(j, label, u, id, draft) ==
    /\ served' = served + 1
    /\ job' = [job EXCEPT ![j] = [at |-> label, company |-> u.company, id |-> id, draft |-> draft]]

Waits(j, label) == job[j].at = label
Move(j, label) == job' = [job EXCEPT ![j].at = label]
End(j) == job' = [job EXCEPT ![j] = Idle]

FoundRow(rows, id, company) == id \in DOMAIN rows /\ rows[id].company = company

FoundContractor(id, company) == FoundRow(contractor, id, company) /\ contractor[id].live

(* What is left of a handler once its row is written: its audit row, then   *)
(* whatever comes after.                                                    *)
ThenAudit(j, id, entry, next) ==
    job' = [job EXCEPT ![j] = [at |-> "audit", company |-> job[j].company, id |-> id,
                               draft |-> [entry |-> entry, next |-> next]]]

Logs(j) == audit' = audit \cup {job[j].draft.entry}

WriteAudit(j) ==
    /\ Waits(j, "audit") /\ Logs(j)
    /\ IF job[j].draft.next = "idle" THEN End(j) ELSE Move(j, job[j].draft.next)
    /\ UNCHANGED <<contractor, invoice, submitted, mailed, served, workforceHistory>>

(* A handler stops at an await: its process dies, or the database fails it  *)
(* or refuses it.                                                           *)
Stop(j) ==
    /\ job[j] # Idle /\ End(j)
    /\ unlogged' = IF Waits(j, "audit") THEN unlogged \cup {job[j].draft.entry} ELSE unlogged
    /\ UNCHANGED <<workforceTables, served, seenBy, raced>>

-----------------------------------------------------------------------------
(* Contractors.  Any member of the company may call these routes.           *)

ValidOnboarding(form) ==
    /\ form.preference = "USDC" => form.wallet \in WellFormed
    /\ form.preference = "FIAT" => form.currency

OnboardingForms == [email: Emails, preference: Preferences, wallet: WalletInputs, currency: BOOLEAN]

TwinsOf(company, email) ==
    {c \in DOMAIN contractor : contractor[c].live /\ contractor[c].company = company
                               /\ contractor[c].email = Normal[email]}

Onboard(j, u) ==
    \E form \in OnboardingForms :
        /\ ValidOnboarding(form)
        /\ TwinsOf(u.company, form.email) = {}
        /\ Serve(j, "create", u, 0, [seen |-> Len(contractor),
               row |-> [company |-> u.company, email |-> Normal[form.email],
                        preference |-> form.preference, wallet |-> form.wallet,
                        kyc |-> "PENDING", live |-> TRUE]])
        /\ UNCHANGED <<workforceTables, workforceHistory>>

CreateContractor(j) ==
    /\ Waits(j, "create") /\ Len(contractor) < MaxContractors
    /\ contractor' = Append(contractor, job[j].draft.row)
    /\ seenBy' = Append(seenBy, job[j].draft.seen)
    /\ ThenAudit(j, Len(contractor'), Entry("CONTRACTOR_ONBOARDED", Len(contractor')), "idle")
    /\ UNCHANGED <<invoice, submitted, audit, mailed, served, raced, unlogged>>

(* A profile change: "keep" stands for a field that is not sent.  The check *)
(* sees the row as it was read, and passes whatever has no wallet.          *)
Keep == "keep"
ProfileChanges == [preference: Preferences \cup {Keep}, wallet: WalletInputs \cup {Keep}]

NewPreference(row, change) == IF change.preference = Keep THEN row.preference ELSE change.preference
NewWallet(row, change) == IF change.wallet \in {Keep, NoWallet} THEN row.wallet ELSE change.wallet

StaysPayable(row, change) ==
    NewPreference(row, change) = "USDC" => NewWallet(row, change) \in WellFormed \cup {NoWallet}

ReadProfile(j, u) ==
    \E c \in DOMAIN contractor, change \in ProfileChanges :
        /\ FoundContractor(c, u.company)
        /\ StaysPayable(contractor[c], change)
        /\ Serve(j, "write", u, c, [change |-> change, read |-> contractor[c]])
        /\ UNCHANGED <<workforceTables, workforceHistory>>

Written(row, change) ==
    [row EXCEPT !.preference = NewPreference(row, change),
                !.wallet = IF change.wallet = Keep THEN row.wallet ELSE change.wallet]

WriteProfile(j) ==
    LET c == job[j].id
        read == job[j].draft.read
    IN /\ Waits(j, "write") /\ contractor[c].live /\ End(j)
       /\ contractor' = [contractor EXCEPT ![c] = Written(contractor[c], job[j].draft.change)]
       /\ raced' = IF <<read.preference, read.wallet>> = <<contractor[c].preference, contractor[c].wallet>>
                   THEN raced ELSE raced \cup {c}
       /\ UNCHANGED <<invoice, submitted, audit, mailed, served, seenBy, unlogged>>

ReadForKyc(j, u) ==
    \E c \in DOMAIN contractor, verdict \in KycVerdicts :
        /\ FoundContractor(c, u.company)
        /\ Serve(j, "verdict", u, c, verdict)
        /\ UNCHANGED <<workforceTables, workforceHistory>>

WriteKyc(j) ==
    LET c == job[j].id
        verdict == job[j].draft
    IN /\ Waits(j, "verdict") /\ contractor[c].live
       /\ contractor' = [contractor EXCEPT ![c].kyc = verdict]
       /\ ThenAudit(j, c, KycEntry(c, verdict), "idle")
       /\ UNCHANGED <<invoice, submitted, audit, mailed, served, workforceHistory>>

-----------------------------------------------------------------------------
(* Deletion: the contractor, its open invoices, the audit row, and then the *)
(* row itself, which the foreign key of any invoice keeps.                  *)

ReadForDelete(j, u) ==
    \E c \in DOMAIN contractor :
        /\ FoundContractor(c, u.company)
        /\ Serve(j, "count", u, c, "none")
        /\ UNCHANGED <<workforceTables, workforceHistory>>

InvoicesOf(c) == {i \in DOMAIN invoice : invoice[i].contractor = c}

\* mutant: the audit row is left for after the deletion
CountThenDelete(j) ==
    /\ Waits(j, "count") /\ Move(j, "delete")
    /\ \A i \in InvoicesOf(job[j].id) : invoice[i].status \notin {"PENDING", "APPROVED"}
    /\ UNCHANGED <<workforceTables, served, workforceHistory>>

CountOpen(j) ==
    /\ Waits(j, "count")
    /\ \A i \in InvoicesOf(job[j].id) : invoice[i].status \notin {"PENDING", "APPROVED"}
    /\ ThenAudit(j, job[j].id, Entry("CONTRACTOR_DELETED", job[j].id), "delete")
    /\ UNCHANGED <<workforceTables, served, workforceHistory>>

DeleteContractor(j) ==
    LET c == job[j].id
    IN /\ Waits(j, "delete") /\ contractor[c].live /\ InvoicesOf(c) = {} /\ End(j)
       /\ contractor' = [contractor EXCEPT ![c].live = FALSE]
       /\ UNCHANGED <<invoice, submitted, audit, mailed, served, workforceHistory>>

-----------------------------------------------------------------------------
(* Invoices.  A form is refused unless it is a valid one; the contractor is *)
(* looked up by the route and again by the service.                         *)

MaySubmitFor(u, c) == CallerRole(u) = "contractor" => ContractorIdOf(u) = c

SubmitInvoice(j, u) ==
    \E c \in DOMAIN contractor, form \in Forms :
        /\ ValidForm(form) /\ MaySubmitFor(u, c)
        /\ FoundContractor(c, u.company)
        /\ Serve(j, "add", u, c, "none")
        /\ UNCHANGED <<workforceTables, workforceHistory>>

LookAgain(j) ==
    /\ Waits(j, "add") /\ FoundContractor(job[j].id, job[j].company) /\ Move(j, "insert")
    /\ UNCHANGED <<workforceTables, served, workforceHistory>>

InsertInvoice(j) ==
    LET c == job[j].id
    IN /\ Waits(j, "insert") /\ contractor[c].live /\ Len(invoice) < MaxInvoices /\ End(j)
       /\ invoice' = Append(invoice, [company |-> job[j].company, contractor |-> c,
                                      status |-> "PENDING"])
       /\ submitted' = Append(submitted, Len(invoice'))
       /\ UNCHANGED <<contractor, audit, mailed, served, workforceHistory>>

(* The demo's submission: the company's oldest pending invoice becomes the  *)
(* newest, whatever it has become since it was read.                        *)
OldestPending(company) ==
    LET pending == {n \in DOMAIN submitted : /\ invoice[submitted[n]].company = company
                                             /\ invoice[submitted[n]].status = "PENDING"}
    IN {submitted[n] : n \in {n \in pending : \A m \in pending : n <= m}}

ReadOldest(j, u) ==
    \E i \in OldestPending(u.company) :
        /\ CurrentAuthRole(u.claims) \in {"", "admin"}
        /\ Serve(j, "stamp", u, i, "none")
        /\ UNCHANGED <<workforceTables, workforceHistory>>

Stamp(j) ==
    /\ Waits(j, "stamp") /\ End(j)
    /\ \E n \in DOMAIN submitted :
           submitted[n] = job[j].id /\ submitted' = Append(RemoveAt(submitted, n), job[j].id)
    /\ UNCHANGED <<contractor, invoice, audit, mailed, served, workforceHistory>>

-----------------------------------------------------------------------------
(* Decisions of an admin, who may be any member.                            *)

Payable(i) == invoice[i].status \in {"PENDING", "APPROVED"}

WithWallet(i) == contractor[invoice[i].contractor].wallet # NoWallet

(* PATCH /api/invoices/:id/approve pays, or only approves with settle false.*)
ApproveById(j, u) ==
    \E i \in DOMAIN invoice :
        /\ FoundRow(invoice, i, u.company) /\ Payable(i)
        /\ \/ WithWallet(i) /\ Serve(j, "pay", u, i, "none")
           \/ invoice[i].status = "PENDING" /\ Serve(j, "approve", u, i, "none")
        /\ UNCHANGED <<workforceTables, workforceHistory>>

(* PATCH /api/invoices/approve always pays.                                 *)
ApproveByBody(j, u) ==
    \E i \in DOMAIN invoice :
        /\ FoundRow(invoice, i, u.company) /\ Payable(i) /\ WithWallet(i)
        /\ Serve(j, "pay", u, i, "none")
        /\ UNCHANGED <<workforceTables, workforceHistory>>

(* POST /api/payouts/execute leaves the status to the engine.               *)
ExecuteById(j, u) ==
    \E i \in DOMAIN invoice :
        /\ FoundRow(invoice, i, u.company) /\ WithWallet(i)
        /\ Serve(j, "pay", u, i, "none")
        /\ UNCHANGED <<workforceTables, workforceHistory>>

MarkPaid(j) ==
    /\ Waits(j, "pay") /\ End(j)
    /\ invoice' = [invoice EXCEPT ![job[j].id].status = "PAID"]
    /\ UNCHANGED <<contractor, submitted, audit, mailed, served, workforceHistory>>

ReadToApprove(j) ==
    /\ Waits(j, "approve") /\ invoice[job[j].id].status = "PENDING" /\ Move(j, "approved")
    /\ UNCHANGED <<workforceTables, served, workforceHistory>>

SetDecision(j, label, status, action, next) ==
    /\ Waits(j, label)
    /\ invoice' = [invoice EXCEPT ![job[j].id].status = status]
    /\ ThenAudit(j, job[j].id, Entry(action, job[j].id), next)
    /\ UNCHANGED <<contractor, submitted, audit, mailed, served, workforceHistory>>

SetApproved(j) == SetDecision(j, "approved", "APPROVED", "INVOICE_APPROVED", "idle")

(* Rejection by id mails the contractor once the audit row is written;      *)
(* rejection by body does not.                                              *)
ReadToReject(j, u, label) ==
    \E i \in DOMAIN invoice :
        /\ FoundRow(invoice, i, u.company) /\ invoice[i].status = "PENDING"
        /\ Serve(j, label, u, i, "none")
        /\ UNCHANGED <<workforceTables, workforceHistory>>

RejectById(j, u) == ReadToReject(j, u, "rejected")

RejectByBody(j, u) == ReadToReject(j, u, "rejected quietly")

SetRejected(j) == SetDecision(j, "rejected", "REJECTED", "INVOICE_REJECTED", "mail")

SetRejectedQuietly(j) == SetDecision(j, "rejected quietly", "REJECTED", "INVOICE_REJECTED", "idle")

(* A provider that fails is reported as a warning.                          *)
MailRejection(j) ==
    /\ Waits(j, "mail") /\ End(j)
    /\ mailed' \in {mailed, mailed \cup {job[j].id}}
    /\ UNCHANGED <<contractor, invoice, submitted, audit, served, workforceHistory>>

-----------------------------------------------------------------------------
(* Listings, newest first, and their pages.  A contractor is locked to its  *)
(* own invoices; anyone else may ask for one contractor's.                  *)
Newest(company, only) ==
    LET wanted(i) == invoice[i].company = company /\ only \in {Nowhere, invoice[i].contractor}
        rows[n \in 0 .. Len(submitted)] ==
            IF n = 0 THEN <<>>
            ELSE (IF wanted(submitted[n]) THEN <<submitted[n]>> ELSE <<>>) \o rows[n - 1]
    IN rows[Len(submitted)]

\* mutant: the contractor asked for wins
ListedUnlocked(u, asked) == Newest(u.company, asked)

ListedInvoices(u, asked) ==
    Newest(u.company, IF CallerRole(u) = "contractor" THEN ContractorIdOf(u) ELSE asked)

(* A session without a contractor is refused before it lists.               *)
MayList(u) == CallerRole(u) = "contractor" => ContractorIdOf(u) # Nowhere

MayOpen(u, i) ==
    /\ FoundRow(invoice, i, u.company)
    /\ CallerRole(u) = "contractor" => invoice[i].contractor = ContractorIdOf(u)

ListedContractors(u) == {c \in DOMAIN contractor : FoundContractor(c, u.company)}

Page(rows, page, size) ==
    LET last == page * size
    IN SubSeq(rows, (page - 1) * size + 1, IF last < Len(rows) THEN last ELSE Len(rows))

TotalPages(rows, size) == (Len(rows) + size - 1) \div size

-----------------------------------------------------------------------------
ContractorStep(j, u) == Onboard(j, u) \/ ReadProfile(j, u) \/ ReadForKyc(j, u) \/ ReadForDelete(j, u)
InvoiceStep(j, u) ==
    \/ SubmitInvoice(j, u) \/ ReadOldest(j, u)
    \/ ApproveById(j, u) \/ ApproveByBody(j, u) \/ ExecuteById(j, u)
    \/ RejectById(j, u) \/ RejectByBody(j, u)
JobStep(j) ==
    \/ CreateContractor(j) \/ WriteProfile(j) \/ WriteKyc(j) \/ CountOpen(j) \/ DeleteContractor(j)
    \/ LookAgain(j) \/ InsertInvoice(j) \/ Stamp(j) \/ MarkPaid(j)
    \/ ReadToApprove(j) \/ SetApproved(j) \/ SetRejected(j) \/ SetRejectedQuietly(j)
    \/ MailRejection(j) \/ WriteAudit(j) \/ Stop(j)

WorkforceNext ==
    \E j \in Jobs :
        \/ Free(j) /\ \E u \in Sessions : ContractorStep(j, u) \/ InvoiceStep(j, u)
        \/ JobStep(j)

WorkforceSpec == WorkforceInit /\ [][WorkforceNext]_workforceVars

-----------------------------------------------------------------------------
(* Two contractors of a company share an email only when the older one was  *)
(* created after the younger one's email was checked.                       *)
TwinsWereUnaware ==
    \A c, d \in DOMAIN contractor :
        c < d /\ contractor[c].live /\ contractor[d].live
        /\ contractor[c].company = contractor[d].company
        /\ contractor[c].email = contractor[d].email => c > seenBy[d]

(* No sequence of onboardings and profile changes leaves a contractor paid  *)
(* in USDC with a wallet that is no address, unless two changes overlapped. *)
(* The wallet may be missing: such a contractor is paid once one is given.  *)
UsdcWalletsAreAddresses ==
    \A c \in DOMAIN contractor \ raced :
        contractor[c].preference = "USDC" => contractor[c].wallet \in WellFormed \cup {NoWallet}

(* An invoice belongs to a contractor that is there and is of its company,  *)
(* however a deletion met the two lookups of the submission.                *)
InvoicesHaveContractors ==
    \A i \in DOMAIN invoice : FoundContractor(invoice[i].contractor, invoice[i].company)

(* Every onboarding, verdict, decision and deletion has its audit row; the  *)
(* first three lack it only while the request is about to write it, or when *)
(* it stopped right there, and a deletion never does.                       *)
Logged(e) ==
    \/ e \in audit \cup unlogged
    \/ \E j \in Jobs : Waits(j, "audit") /\ job[j].draft.entry = e

AuditIsComplete ==
    /\ \A c \in DOMAIN contractor :
           /\ Logged(Entry("CONTRACTOR_ONBOARDED", c))
           /\ contractor[c].kyc # "PENDING" => Logged(KycEntry(c, contractor[c].kyc))
           /\ ~contractor[c].live => Entry("CONTRACTOR_DELETED", c) \in audit
    /\ \A i \in DOMAIN invoice :
           /\ invoice[i].status = "APPROVED" => Logged(Entry("INVOICE_APPROVED", i))
           /\ invoice[i].status = "REJECTED" => Logged(Entry("INVOICE_REJECTED", i))

(* A contractor is told of a rejection only when it was stored and audited. *)
MailedIsRejected == \A i \in mailed : Entry("INVOICE_REJECTED", i) \in audit

(* The policies' own assumption about sessions: whoever is no admin and     *)
(* names a contractor has the contractor's role and names it to them.       *)
KnownToPolicies(u) ==
    CallerRole(u) = "contractor" /\ ContractorIdOf(u) # Nowhere =>
        CurrentAuthRole(u.claims) = "contractor" /\ ContractorIdOf(u) = CurrentContractor(u.claims)

(* What the routes show is of the session's company, and what the row level *)
(* policies let the same session select, whichever contractor it asks for.  *)
ShownWithinPolicies ==
    LET home == [u \in Sessions |-> u.company]
    IN \A u \in Sessions :
           /\ \A c \in ListedContractors(u) : CompanyRowVisible(home, u, contractor[c].company)
           /\ \A i \in DOMAIN invoice :
                  \/ MayOpen(u, i)
                  \/ MayList(u) /\ \E asked \in DOMAIN contractor \cup {Nowhere} :
                                       i \in ToSet(ListedInvoices(u, asked))
                  => /\ CompanyRowVisible(home, u, invoice[i].company)
                     /\ KnownToPolicies(u) =>
                            InvoiceVisible(home, u, u.claims, invoice[i].company, invoice[i].contractor)

(* The pages of a listing are the listing: every row on one page, once.     *)
PagesAreTheListing ==
    \A u \in Sessions, size \in 1 .. MaxInvoices :
        LET rows == ListedInvoices(u, Nowhere)
        IN rows = FlattenSeq([page \in 1 .. TotalPages(rows, size) |-> Page(rows, page, size)])

(* Rows keep their references and their audit trail under any interleaving. *)
RowsAreSound ==
    /\ WorkforceTypeOK /\ TwinsWereUnaware /\ UsdcWalletsAreAddresses
    /\ InvoicesHaveContractors /\ AuditIsComplete /\ MailedIsRejected

(* What is listed is what may be seen, each row once.                       *)
ListingsAreSound == ShownWithinPolicies /\ PagesAreTheListing

=============================================================================
