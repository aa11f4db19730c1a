------------------------------ MODULE MCTrade -------------------------------
(***************************************************************************)
(* Customers and invoice numbers, and notifications: what an invoice does  *)
(* in its transaction beside the money and the stock.  The two share no    *)
(* row, so a behaviour follows one of them, chosen at its start.           *)
(***************************************************************************)
EXTENDS Billing, Notifications, TLC

VARIABLE part

Init == /\ part \in {"billing", "notifications"}
        /\ BillingInit /\ NotesInit
        /\ part = "billing" => type = "CRITICAL_STOCK"
Next == \/ /\ part = "billing" /\ BillingNext
           /\ UNCHANGED <<part, noteVars>>
        \/ /\ part = "notifications" /\ NotesNext
           /\ UNCHANGED <<part, billingVars>>
Spec == Init /\ [][Next]_<<part, billingVars, noteVars>>

TypeOK == BillingType /\ NotesType

\* The parts have the same names for their requests, and for some of their rows,
\* so that few permutations serve both.
Interchangeable == Permutations(Tills) \cup Permutations(Customers)
=============================================================================
