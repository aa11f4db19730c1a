------------------------------- MODULE Sales -------------------------------
(***************************************************************************)
(* Invoices, their payments and the customer credits that follow them      *)
(* (application/use_cases/sales_use_cases.py, credit_use_cases.py).        *)
(*                                                                         *)
(* Every invoice operation locks the invoice row for its whole             *)
(* transaction, and every credit payment locks the credit row, so each of  *)
(* them is one step.  Two operations are not: a cancellation reads the     *)
(* invoice's credit without a lock and writes it back whole, and the       *)
(* overdue check reads all the credits of a business without a             *)
(* transaction and writes them back one by one.  These are jobs: a read    *)
(* step, then write steps, with other requests between them.               *)
(*                                                                         *)
(* Amounts are whole numbers of the smallest unit; all invoices that have  *)
(* a customer have the same one.  The units of an invoice are the business *)
(* of Stock: here they are only counted as they come back.                 *)
(***************************************************************************)
EXTENDS Integers

CONSTANTS Invoices,    \* invoice rows
          MaxCredits,  \* bound: credit rows
          Keys,        \* idempotency keys
          NoKey,       \* "the payment has no idempotency key"
          None,        \* "no invoice": a credit's null foreign key, an unused key
          Workers,     \* connections that run a job
          MaxDay,      \* bound: last day of the model
          Bills,       \* bound: [lines, tax, disc] of a new invoice
          Amounts,     \* bound: amounts paid, advanced or lent (the serializers want > 0)
          Patches,     \* bound: the fields set by an update
          MaxRequests  \* bound: requests in a behaviour

Credits == 1..MaxCredits       \* in the order of creation
InvoiceStatus == {"CREDIT", "COMPLETED", "CANCELLED"}
CreditStatus == {"PENDING", "OVERDUE", "PARTIALLY_PAID", "SETTLED", "CANCELLED"}

\* The value of a field after an update that may set it.
Given(patch, field, old) == IF field \in DOMAIN patch THEN patch[field] ELSE old

ASSUME SalesConstants ==
    /\ MaxCredits \in Nat /\ MaxDay \in Nat /\ MaxRequests \in Nat
    /\ None \notin Invoices /\ NoKey \notin Keys
    /\ Bills \subseteq [lines : Nat, tax : Nat, disc : Nat]
    /\ Amounts \subseteq Nat \ {0}
    /\ \A p \in Patches : /\ Given(p, "status", "CREDIT") \in InvoiceStatus
                          /\ Given(p, "tax", 0) \in Nat
                          /\ Given(p, "disc", 0) \in Nat
                          /\ Given(p, "paid", 0) \in Nat
                          /\ Given(p, "archived", FALSE) \in BOOLEAN

VARIABLES inv,       \* inv[i]: the invoice row
          cred,      \* cred[c]: the credit row
          keyAt,     \* keyAt[k]: the invoice whose payment row holds the (unique) key
          job,       \* job[w]: the cancellation or overdue check that w is running
          today,     \* the day
          left,      \* requests still to come
          returned,  \* history: how often the units of an invoice went back to stock
          charged,   \* history: how often a payment with a key was taken into an invoice
          got,       \* history: all that was paid on a credit
          clobbered  \* history: a stale paid amount was written over a newer one

vars == <<inv, cred, keyAt, job, today, left, returned, charged, got, clobbered>>

Invoice == [state : {"new", "live", "gone"}, customer : BOOLEAN, lines : Nat, tax : Nat,
            disc : Nat, total : Nat, paid : Nat, rem : Nat, status : InvoiceStatus,
            archived : BOOLEAN]
Credit == [state : {"new", "live", "gone"}, invoice : Invoices \cup {None}, amount : Nat,
           paid : Nat, rem : Nat, due : 0..MaxDay, status : CreditStatus]
NoInvoice == [state |-> "new", customer |-> FALSE, lines |-> 0, tax |-> 0, disc |-> 0,
              total |-> 0, paid |-> 0, rem |-> 0, status |-> "CANCELLED", archived |-> FALSE]
NoCredit == [state |-> "new", invoice |-> None, amount |-> 0, paid |-> 0, rem |-> 0,
             due |-> 0, status |-> "CANCELLED"]
Job == [op : {"idle", "cancel", "overdue"}, invoice : Invoices \cup {None},
        todo : SUBSET Credits, seen : [Credits -> Credit]]
Idle == [op |-> "idle", invoice |-> None, todo |-> {}, seen |-> [c \in Credits |-> NoCredit]]

Live(i) == inv[i].state = "live"
Owed(c) == cred[c].state = "live"
CreditsOf(i) == {c \in Credits : Owed(c) /\ cred[c].invoice = i}

\* Credit.update_status: the status that goes with a paid and a remaining
\* amount.  A credit that was settled or cancelled is not found overdue.
StatusFor(old, paid, rem, due) ==
    IF rem <= 0 THEN "SETTLED"
    ELSE IF paid > 0 THEN "PARTIALLY_PAID"
    ELSE IF old \notin {"SETTLED", "CANCELLED"} /\ today > due THEN "OVERDUE" ELSE "PENDING"

\* What is missing of a total.
Debt(total, paid) == IF paid < total THEN total - paid ELSE 0

(* Variant: what is already paid is forgotten. *)
RemainingOfTotal(status, total, paid) == IF status = "CREDIT" THEN total ELSE 0

\* Invoice.get_remaining_amount.
Remaining(status, total, paid) == IF status = "CREDIT" THEN Debt(total, paid) ELSE 0
-----------------------------------------------------------------------------
Init == /\ inv = [i \in Invoices |-> NoInvoice]
        /\ cred = [c \in Credits |-> NoCredit]
        /\ keyAt = [k \in Keys |-> None]
        /\ job = [w \in Workers |-> Idle]
        /\ today = 0
        /\ left = MaxRequests
        /\ returned = [i \in Invoices |-> 0]
        /\ charged = [i \in Invoices |-> [k \in Keys |-> 0]]
        /\ got = [c \in Credits |-> 0]
        /\ clobbered = [c \in Credits |-> FALSE]

Request == left > 0 /\ left' = left - 1

(* Variant: the invoice row is read without FOR UPDATE. *)
FreeUnlocked(i) == i \in Invoices

\* No cancellation in progress holds the lock of the invoice row.
Free(i) == \A w \in Workers : job[w].op = "cancel" => job[w].invoice # i

\* The next credit row: a new credit with paid of amount paid.
NextCredit(c) == cred[c].state = "new" /\ \A d \in 1..(c - 1) : cred[d].state # "new"
NewCredit(i, amount, paid, due) ==
    [state |-> "live", invoice |-> i, amount |-> amount, paid |-> paid, rem |-> amount - paid,
     due |-> due, status |-> StatusFor("PENDING", paid, amount - paid, due)]
-----------------------------------------------------------------------------
(* Invoices. *)

\* CREDIT when something is owed or when the sale is on credit and not overpaid.
StatusOnCreation(onCredit, advance, total) ==
    IF advance < total \/ (onCredit /\ advance = total) THEN "CREDIT" ELSE "COMPLETED"

\* The advance is stored as given, also when it exceeds the total.  A CREDIT
\* invoice of a customer comes with a credit; one of amount 0 raises, and the
\* whole creation is rolled back.
CreateInvoice(i) ==
    /\ Request
    /\ inv[i].state = "new"
    /\ \E bill \in Bills, advance \in Amounts \cup {0}, onCredit \in BOOLEAN,
          customer \in BOOLEAN, due \in 0..MaxDay :
         LET total == bill.lines + bill.tax
             status == StatusOnCreation(onCredit, advance, total)
         IN /\ inv' = [inv EXCEPT ![i] =
                         [state |-> "live", customer |-> customer, lines |-> bill.lines,
                          tax |-> bill.tax, disc |-> bill.disc, total |-> total,
                          paid |-> advance, rem |-> Debt(total, advance),
                          status |-> status, archived |-> FALSE]]
            /\ IF status = "CREDIT" /\ customer
               THEN /\ total > 0
                    /\ \E c \in Credits : /\ NextCredit(c)
                                          /\ cred' = [cred EXCEPT ![c] = NewCredit(i, total, advance, due)]
                                          /\ got' = [got EXCEPT ![c] = advance]
               ELSE UNCHANGED <<cred, got>>
    /\ UNCHANGED <<keyAt, job, today, returned, charged, clobbered>>

\* A completed invoice can only be updated to CANCELLED.
Updatable(i, patch) == Live(i) /\ (inv[i].status = "COMPLETED" =>
                                     Given(patch, "status", "none") = "CANCELLED")

\* A new tax or discount recomputes the total from the lines; a discount above
\* the sum raises.  Stock, payments and credits stay as they are.
UpdateInvoice(i) ==
    /\ Request
    /\ Free(i)
    /\ \E patch \in Patches :
         LET r == inv[i]
             status == Given(patch, "status", r.status)
             tax == Given(patch, "tax", r.tax)
             disc == Given(patch, "disc", r.disc)
             paid == Given(patch, "paid", r.paid)
             retotal == DOMAIN patch \cap {"tax", "disc"} # {}
             total == IF retotal THEN r.lines + tax - disc ELSE r.total
         IN /\ Updatable(i, patch)
            /\ retotal => disc <= r.lines + tax
            /\ inv' = [inv EXCEPT ![i] =
                         [r EXCEPT !.status = status, !.tax = tax, !.disc = disc,
                                   !.paid = paid, !.total = total,
                                   !.archived = Given(patch, "archived", r.archived),
                                   !.rem = Remaining(status, total, paid)]]
    /\ UNCHANGED <<cred, keyAt, job, today, returned, charged, got, clobbered>>

ArchiveInvoice(i) ==
    /\ Request
    /\ Live(i) /\ Free(i)
    /\ ~inv[i].archived
    /\ inv' = [inv EXCEPT ![i].archived = TRUE]
    /\ UNCHANGED <<cred, keyAt, job, today, returned, charged, got, clobbered>>

\* The invoice, its payment rows and its credit are deleted.  The lookup of
\* the credit raises when there are several.
DeleteInvoice(i) ==
    /\ Request
    /\ Live(i) /\ Free(i)
    /\ \A c, d \in CreditsOf(i) : c = d
    /\ inv' = [inv EXCEPT ![i] = [NoInvoice EXCEPT !.state = "gone"]]
    /\ cred' = [c \in Credits |-> IF c \in CreditsOf(i) THEN [NoCredit EXCEPT !.state = "gone"]
                                                        ELSE cred[c]]
    /\ keyAt' = [k \in Keys |-> IF keyAt[k] = i THEN None ELSE keyAt[k]]
    /\ charged' = [charged EXCEPT ![i] = [k \in Keys |-> 0]]
    /\ UNCHANGED <<job, today, returned, got, clobbered>>

\* The deletion of a product takes its invoice lines with it (CASCADE), without
\* the lock of the invoice row; the total is not computed again.
ProductDeleted(i) ==
    /\ Request
    /\ Live(i)
    /\ \E rest \in 0..(inv[i].lines - 1) : inv' = [inv EXCEPT ![i].lines = rest]
    /\ UNCHANGED <<cred, keyAt, job, today, returned, charged, got, clobbered>>
-----------------------------------------------------------------------------
(* Payments. *)

Least(a, b) == IF a <= b THEN a ELSE b

(* Variant: the payment row is stored without its key. *)
StoreNoKey(k, i) == UNCHANGED keyAt

\* The payment row of invoice i holds key k.
StoreKey(k, i) == keyAt' = [x \in Keys |-> IF x = k THEN i ELSE keyAt[x]]

(* Variant: an amount above what is missing is taken in full. *)
AppliedInFull(i, amount) == amount

\* process_payment: an amount above what is missing is applied as what is
\* missing, which is negative when the invoice holds more than its total.
Applied(i, amount) == Least(amount, inv[i].total - inv[i].paid)

\* An invoice row after n more has been paid on it, with rem still owed.
Received(r, n, rem) == [r EXCEPT !.paid = r.paid + n, !.rem = rem,
                                 !.status = IF rem = 0 THEN "COMPLETED" ELSE r.status]

(* Variant: the credit's remaining amount does not follow its paid amount. *)
PaidOffOnlyPaid(r, n) == [r EXCEPT !.paid = r.paid + n, !.status = StatusFor(r.status, r.paid + n, r.rem, r.due)]

(* Variant: the payment lowers what remains but is not added to what was paid. *)
PaidOffOnlyRem(r, n) == [r EXCEPT !.rem = r.rem - n, !.status = StatusFor(r.status, r.paid, r.rem - n, r.due)]

\* A credit row after n more has been paid on it.
PaidOff(r, n) == [r EXCEPT !.paid = r.paid + n, !.rem = r.rem - n,
                           !.status = StatusFor(r.status, r.paid + n, r.rem - n, r.due)]

\* The invoices of a customer pass a payment on to their credits.
Following(i) == IF inv[i].customer THEN CreditsOf(i) ELSE {}

\* A key already stored for this invoice returns the stored payment, one stored
\* for another invoice breaks the unique constraint: neither changes a row.  A
\* credit whose amounts would become negative raises, and nothing is paid.
PayInvoice(i) ==
    /\ Request
    /\ Live(i) /\ Free(i)
    /\ \E amount \in Amounts, k \in Keys \cup {NoKey} :
         LET n == Applied(i, amount)
         IN /\ k \in Keys => keyAt[k] = None
            /\ \A c \in Following(i) : cred[c].paid + n >= 0 /\ cred[c].rem - n >= 0
            /\ inv' = [inv EXCEPT ![i] = Received(inv[i], n, Debt(inv[i].total, inv[i].paid + n))]
            /\ cred' = [c \in Credits |-> IF c \in Following(i) THEN PaidOff(cred[c], n) ELSE cred[c]]
            /\ got' = [c \in Credits |-> IF c \in Following(i) THEN got[c] + n ELSE got[c]]
            /\ StoreKey(k, i)
            /\ charged' = [charged EXCEPT ![i] =
                                    [x \in Keys |-> charged[i][x] + IF x = k THEN 1 ELSE 0]]
    /\ UNCHANGED <<job, today, returned, clobbered>>

\* ApplyCreditPayment: at most what the invoice and its only credit still owe.
ApplyCreditPayment(i) ==
    /\ Request
    /\ Live(i) /\ Free(i)
    /\ inv[i].status = "CREDIT"
    /\ \E c \in Credits, amount \in Amounts :
         /\ CreditsOf(i) = {c}
         /\ cred[c].status \notin {"SETTLED", "CANCELLED"}
         /\ LET n == Least(amount, Least(inv[i].rem, cred[c].rem))
                rem == Remaining("CREDIT", inv[i].total, inv[i].paid + n)
            IN /\ n > 0
               /\ inv' = [inv EXCEPT ![i] = Received(inv[i], n, rem)]
               /\ cred' = [cred EXCEPT ![c] = PaidOff(cred[c], n)]
               /\ got' = [got EXCEPT ![c] = @ + n]
    /\ UNCHANGED <<keyAt, job, today, returned, charged, clobbered>>
-----------------------------------------------------------------------------
(* Credits. *)

\* Inserting a credit of an invoice takes a key-share lock on the invoice row.
CreateCredit(c) ==
    /\ Request
    /\ NextCredit(c)
    /\ \E i \in Invoices \cup {None}, amount \in Amounts, due \in 0..MaxDay :
         /\ i \in Invoices => Live(i) /\ Free(i)
         /\ cred' = [cred EXCEPT ![c] = NewCredit(i, amount, 0, due)]
    /\ UNCHANGED <<inv, keyAt, job, today, returned, charged, got, clobbered>>

\* A cancelled credit may be paid; the invoice does not hear of it.
PayCredit(c) ==
    /\ Request
    /\ Owed(c)
    /\ cred[c].status # "SETTLED"
    /\ \E n \in Amounts : /\ n <= cred[c].rem
                          /\ cred' = [cred EXCEPT ![c] = PaidOff(cred[c], n)]
                          /\ got' = [got EXCEPT ![c] = @ + n]
    /\ UNCHANGED <<inv, keyAt, job, today, returned, charged, clobbered>>
-----------------------------------------------------------------------------
(* Jobs: credits read without a lock and written back whole. *)

\* Credit repository update: every column but the foreign key, from the copy r.
WriteBack(c, r) ==
    /\ cred' = [cred EXCEPT ![c] = [r EXCEPT !.invoice = cred[c].invoice]]
    /\ clobbered' = [clobbered EXCEPT ![c] = @ \/ r.paid # cred[c].paid]

\* The cancellation locks the invoice row, returns the units of its lines
\* to stock, and reads the newest credit that follows the invoice.
CancelRead(w, i) ==
    /\ Request
    /\ job[w].op = "idle"
    /\ Live(i) /\ Free(i)
    /\ inv[i].status # "CANCELLED"
    /\ job' = [job EXCEPT ![w] =
                 [op |-> "cancel", invoice |-> i, seen |-> cred,
                  todo |-> {c \in Following(i) : \A d \in Following(i) : d <= c}]]
    /\ UNCHANGED <<inv, cred, keyAt, today, returned, charged, got, clobbered>>

CancelWrite(w) ==
    /\ job[w].op = "cancel"
    /\ LET i == job[w].invoice IN
         /\ \/ /\ job[w].todo = {}
               /\ UNCHANGED <<cred, clobbered>>
            \/ \E c \in job[w].todo : WriteBack(c, [job[w].seen[c] EXCEPT !.status = "CANCELLED"])
         /\ inv' = [inv EXCEPT ![i].status = "CANCELLED"]
         /\ returned' = [returned EXCEPT ![i] = @ + 1]
    /\ job' = [job EXCEPT ![w] = Idle]
    /\ UNCHANGED <<keyAt, today, left, charged, got>>

\* Credits that are past their due date and not yet marked.
OverdueRead(w) ==
    /\ Request
    /\ job[w].op = "idle"
    /\ LET late == {c \in Credits : /\ Owed(c)
                                    /\ cred[c].status \in {"PENDING", "PARTIALLY_PAID"}
                                    /\ today > cred[c].due}
       IN /\ late # {}
          /\ job' = [job EXCEPT ![w] = [op |-> "overdue", invoice |-> None, todo |-> late, seen |-> cred]]
    /\ UNCHANGED <<inv, cred, keyAt, today, returned, charged, got, clobbered>>

(* Variant: every credit of the list is marked, partly paid ones too. *)
MarkedOverdueBlindly(r) == [r EXCEPT !.status = "OVERDUE"]

\* update_status on the copy.
MarkedOverdue(r) == [r EXCEPT !.status = StatusFor(r.status, r.paid, r.rem, r.due)]

\* One credit of the list, newest first: only one that is now OVERDUE is
\* written; a deleted one raises and ends the check.
OverdueWrite(w) ==
    /\ job[w].op = "overdue"
    /\ \E c \in job[w].todo :
         LET r == MarkedOverdue(job[w].seen[c])
             rest == job[w].todo \ {c}
             next == IF rest = {} THEN Idle ELSE [job[w] EXCEPT !.todo = rest]
         IN /\ \A d \in job[w].todo : d <= c
            /\ \/ /\ r.status # "OVERDUE"
                  /\ job' = [job EXCEPT ![w] = next]
                  /\ UNCHANGED <<cred, clobbered>>
               \/ /\ r.status = "OVERDUE" /\ Owed(c)
                  /\ WriteBack(c, r)
                  /\ job' = [job EXCEPT ![w] = next]
               \/ /\ r.status = "OVERDUE" /\ ~Owed(c)
                  /\ job' = [job EXCEPT ![w] = Idle]
                  /\ UNCHANGED <<cred, clobbered>>
    /\ UNCHANGED <<inv, keyAt, today, left, returned, charged, got>>

\* A crash, or stock that cannot be returned: the transaction is rolled back
\* (an overdue check keeps what it has written).
JobFails(w) ==
    /\ job[w].op # "idle"
    /\ job' = [job EXCEPT ![w] = Idle]
    /\ UNCHANGED <<inv, cred, keyAt, today, left, returned, charged, got, clobbered>>

NextDay == /\ today < MaxDay
           /\ today' = today + 1
           /\ UNCHANGED <<inv, cred, keyAt, job, left, returned, charged, got, clobbered>>

OnInvoice(i) == \/ CreateInvoice(i) \/ UpdateInvoice(i) \/ ArchiveInvoice(i) \/ DeleteInvoice(i)
                \/ ProductDeleted(i) \/ PayInvoice(i) \/ ApplyCreditPayment(i)
OnCredit(c) == CreateCredit(c) \/ PayCredit(c)
InJob(w) == \/ \E i \in Invoices : CancelRead(w, i)
            \/ CancelWrite(w) \/ OverdueRead(w) \/ OverdueWrite(w) \/ JobFails(w)

Next == \/ \E i \in Invoices : OnInvoice(i)
        \/ \E c \in Credits : OnCredit(c)
        \/ \E w \in Workers : InJob(w)
        \/ NextDay

Spec == Init /\ [][Next]_vars
-----------------------------------------------------------------------------
(* Properties. *)

\* Every variable has its type: no amount of an invoice or a credit is negative.
TypeOK == /\ inv \in [Invoices -> Invoice]
          /\ cred \in [Credits -> Credit]
          /\ keyAt \in [Keys -> Invoices \cup {None}]
          /\ job \in [Workers -> Job]
          /\ today \in 0..MaxDay
          /\ left \in 0..MaxRequests
          /\ returned \in [Invoices -> Nat]
          /\ charged \in [Invoices -> [Keys -> Nat]]
          /\ got \in [Credits -> Int]
          /\ clobbered \in [Credits -> BOOLEAN]

\* Whatever a customer pays through the invoice, the credit or the application
\* of the credit, and whatever stale copy is written back, a credit's paid and
\* remaining amounts add up to what was lent.
Balanced(r) == r.paid + r.rem = r.amount
CreditBalances == \A c \in Credits : Balanced(cred[c])

\* A credit's status tells its amounts (Credit.update_status), after any
\* interleaving of payments with cancellations and overdue checks.
StatusTrue(r) == r.status # "CANCELLED" =>
                   /\ r.status = "SETTLED" <=> r.rem = 0
                   /\ r.status = "PARTIALLY_PAID" <=> r.rem > 0 /\ r.paid > 0
                   /\ r.status = "OVERDUE" => today > r.due
CreditStatusHonest == \A c \in Credits : StatusTrue(cred[c])

\* A CREDIT invoice owes exactly its total less what was paid; an invoice in
\* another status shows that debt or none.
DebtTrue(r) == /\ r.rem \in {0, Debt(r.total, r.paid)}
               /\ r.status = "CREDIT" => r.rem = Debt(r.total, r.paid)
DebtHonest == \A i \in Invoices : DebtTrue(inv[i])

\* A payment retried with its idempotency key is taken once, into one invoice.
ChargedOnce == \A k \in Keys, i \in Invoices :
                 charged[i][k] > 0 => /\ charged[i][k] = 1
                                      /\ \A j \in Invoices \ {i} : charged[j][k] = 0

\* Unless a stale copy was written over it, a credit's paid amount is all that
\* was paid on it.
NothingLostUnlessClobbered == \A c \in Credits : Owed(c) /\ ~clobbered[c] => cred[c].paid = got[c]

\* A step never reopens a completed invoice or changes its total: it stays
\* completed, or it is cancelled or deleted.
CompletedStays == \A i \in Invoices :
    Live(i) /\ inv[i].status = "COMPLETED" =>
      \/ inv'[i].state = "gone"
      \/ inv'[i].status = "CANCELLED"
      \/ inv'[i].status = "COMPLETED" /\ inv'[i].total = inv[i].total
CompletedInvoicesStay == [][CompletedStays]_vars

\* The units of an invoice go back to stock only while it is not cancelled: of
\* two concurrent cancellations one fails.
ReturnOnce == \A i \in Invoices : returned'[i] # returned[i] => inv[i].status # "CANCELLED"
NoDoubleCancel == [][ReturnOnce]_vars

\* Why the action properties and NothingLostUnlessClobbered hold: a cancellation
\* in progress is the only one of its invoice, which it has found not cancelled
\* and keeps locked together with the credit it read, ...
CancelHolds == \A w \in Workers : job[w].op = "cancel" =>
                 /\ job[w].invoice \in Invoices
                 /\ Live(job[w].invoice)
                 /\ inv[job[w].invoice].status # "CANCELLED"
                 /\ \A v \in Workers \ {w} : job[v].op = "cancel" => job[v].invoice # job[w].invoice
                 /\ \A c \in job[w].todo : Owed(c) /\ cred[c].invoice = job[w].invoice
\* ... the copies that will be written back are rows that were right once, ...
CopiesTrue == \A w \in Workers, c \in Credits :
                /\ Balanced(job[w].seen[c]) /\ StatusTrue(job[w].seen[c])
                /\ c \in job[w].todo => job[w].seen[c].state = "live"
\* ... a key is charged where its payment row is, ...
KeysHeld == \A k \in Keys, i \in Invoices :
              charged[i][k] > 0 => charged[i][k] = 1 /\ keyAt[k] = i
\* ... and nothing was paid on a credit that does not exist yet.
NothingGotEarly == \A c \in Credits : cred[c].state = "new" => got[c] = 0
SalesInv == /\ TypeOK /\ CreditBalances /\ CreditStatusHonest /\ DebtHonest
            /\ NothingLostUnlessClobbered /\ CancelHolds /\ CopiesTrue /\ KeysHeld
            /\ NothingGotEarly

\* The program implements Receivables: whatever the locks, the payment keys, the
\* jobs and the order of requests, money reaches a sale and its accounts in one
\* step and within what is missing, completed sales keep their terms, and only a
\* stale copy makes an account show less than was received for it.
Sale(r) == [state |-> r.state, customer |-> r.customer, status |-> r.status,
            total |-> r.total, paid |-> r.paid]
Account(r) == [state |-> r.state, of |-> r.invoice, loan |-> r.amount, paid |-> r.paid]
SaleBook == [i \in Invoices |-> Sale(inv[i])]
AccountBook == [c \in Credits |-> Account(cred[c])]
Books == INSTANCE Receivables WITH sale <- SaleBook, account <- AccountBook, received <- got
BooksSpec == Books!Spec

\* "Archived invoices remain read-only": the documentation of the invoice
\* endpoints.
ArchivedReadOnly == [][\A i \in Invoices : Live(i) /\ inv[i].archived =>
                         inv'[i] = inv[i] \/ inv'[i].state = "gone"]_vars

\* get_by_id_for_update, "row lock for update (prevents race conditions)": no
\* payment on a credit is lost.
NoLostCreditPayment == \A c \in Credits : Owed(c) => cred[c].paid = got[c]
=============================================================================
