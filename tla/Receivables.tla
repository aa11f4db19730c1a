---------------------------- MODULE Receivables ----------------------------
(***************************************************************************)
(* What the program promises about the money of customers, without         *)
(* requests, locks, payment rows, jobs and copies: sales, and accounts of  *)
(* what was lent.  Money that comes in for a sale is added to the sale and *)
(* to its accounts in one step, and never exceeds the total of the one or  *)
(* the loan of the others; a sale paid in full is completed, and from then *)
(* on its terms change only as it is cancelled; its units come back when   *)
(* it is cancelled, which it is not already.  What an account shows as     *)
(* paid departs from what was received for it only when it is reset, by a  *)
(* cancellation or by marking it; the loan itself never changes.           *)
(***************************************************************************)
EXTENDS Integers

CONSTANTS Invoices, Credits,
          None                \* "no sale": of an account by itself

VARIABLES sale,      \* sale[i]: its state, customer, status, total and what was paid on it
          account,   \* account[c]: its state, the sale it is for, the loan and what it shows as paid
          received,  \* received[c]: the money that came in for account c
          returned   \* returned[i]: how often the units of sale i came back

vars == <<sale, account, received, returned>>

NoSale == [state |-> "new", customer |-> FALSE, status |-> "CANCELLED", total |-> 0, paid |-> 0]
NoAccount == [state |-> "new", of |-> None, loan |-> 0, paid |-> 0]

Live(i) == sale[i].state = "live"
Of(i) == {c \in Credits : account[c].state = "live" /\ account[c].of = i}

Init == /\ sale = [i \in Invoices |-> NoSale]
        /\ account = [c \in Credits |-> NoAccount]
        /\ received = [c \in Credits |-> 0]
        /\ returned = [i \in Invoices |-> 0]

\* An account is opened, with an advance already paid on it.
Open(c, i, loan, advance) ==
    /\ account[c].state = "new"
    /\ loan > 0 /\ advance \in 0..loan
    /\ account' = [account EXCEPT ![c] = [state |-> "live", of |-> i, loan |-> loan, paid |-> advance]]
    /\ received' = [received EXCEPT ![c] = advance]

\* n comes in for each of the accounts C.
Receive(C, n) ==
    /\ \A c \in C : account[c].paid + n \in 0..account[c].loan
    /\ account' = [c \in Credits |-> IF c \in C THEN [account[c] EXCEPT !.paid = @ + n] ELSE account[c]]
    /\ received' = [c \in Credits |-> IF c \in C THEN received[c] + n ELSE received[c]]

\* An account shows something else as paid, without money coming in.
Reset(c) ==
    /\ account[c].state = "live"
    /\ account'[c].paid \in 0..account[c].loan
    /\ account' = [account EXCEPT ![c].paid = account'[c].paid]
    /\ UNCHANGED received

\* A sale on credit to a customer, and only such a one, opens an account.
Sell(i) ==
    LET s == sale'[i] IN
    /\ sale[i].state = "new" /\ s.state = "live"
    /\ sale' = [sale EXCEPT ![i] = s]
    /\ s.status = "COMPLETED" => s.paid >= s.total
    /\ s.status = "CREDIT" => s.paid <= s.total
    /\ IF s.status = "CREDIT" /\ s.customer
       THEN \E c \in Credits : Open(c, i, s.total, s.paid)
       ELSE UNCHANGED <<account, received>>
    /\ UNCHANGED returned

\* Money for a sale: at most what is missing, and for its accounts too.
Pay(i) ==
    LET paid == sale'[i].paid
        n == paid - sale[i].paid
    IN /\ Live(i)
       /\ paid <= sale[i].total
       /\ sale' = [sale EXCEPT ![i].paid = paid,
                               ![i].status = IF paid = sale[i].total THEN "COMPLETED"
                                                                     ELSE sale[i].status]
       /\ \/ sale[i].customer /\ Receive(Of(i), n)
          \/ ~sale[i].customer /\ Receive({}, n)
          \/ n > 0 /\ \E c \in Credits : Of(i) = {c} /\ Receive({c}, n)
       /\ UNCHANGED returned

\* The terms of a sale are changed by hand, of a completed one only to cancel it.
Amend(i) ==
    /\ Live(i) /\ sale'[i].state = "live"
    /\ sale[i].status = "COMPLETED" => sale'[i].status = "CANCELLED"
    /\ sale' = [sale EXCEPT ![i] = [sale'[i] EXCEPT !.customer = sale[i].customer]]
    /\ UNCHANGED <<account, received, returned>>

\* The units of a sale come back, and its account may be set to an earlier amount.
Cancel(i) ==
    /\ Live(i) /\ sale[i].status # "CANCELLED"
    /\ sale' = [sale EXCEPT ![i].status = "CANCELLED"]
    /\ returned' = [returned EXCEPT ![i] = @ + 1]
    /\ (\E c \in Of(i) : Reset(c)) \/ UNCHANGED <<account, received>>

\* A sale is deleted with its account.
Delete(i) ==
    /\ Live(i)
    /\ \A c, d \in Of(i) : c = d
    /\ sale' = [sale EXCEPT ![i] = [NoSale EXCEPT !.state = "gone"]]
    /\ account' = [c \in Credits |-> IF c \in Of(i) THEN [NoAccount EXCEPT !.state = "gone"] ELSE account[c]]
    /\ UNCHANGED <<received, returned>>

\* An account by hand, for a sale or by itself.
Lend(c) ==
    LET a == account'[c] IN
    /\ a.of # None => a.of \in Invoices /\ Live(a.of)
    /\ Open(c, a.of, a.loan, 0)
    /\ UNCHANGED <<sale, returned>>

\* Money for one account, of which its sale does not hear.
Repay(c) ==
    LET n == received'[c] - received[c] IN
    /\ account[c].state = "live"
    /\ n > 0 /\ Receive({c}, n)
    /\ UNCHANGED <<sale, returned>>

\* An account that is late is marked, and set to an earlier amount as it is.
Mark(c) == Reset(c) /\ UNCHANGED <<sale, returned>>

Next == \/ \E i \in Invoices : Sell(i) \/ Pay(i) \/ Amend(i) \/ Cancel(i) \/ Delete(i)
        \/ \E c \in Credits : Lend(c) \/ Repay(c) \/ Mark(c)

Spec == Init /\ [][Next]_vars
=============================================================================
