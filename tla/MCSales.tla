------------------------------ MODULE MCSales ------------------------------
(***************************************************************************)
(* Constants for TLC.  The bills are small enough for an advance of 3 to   *)
(* pay, overpay or leave something of each of them.                        *)
(***************************************************************************)
EXTENDS Sales, TLC

\* A plain bill, one with a discount on its lines, and one that costs nothing.
SomeBills == {[lines |-> 2, tax |-> 0, disc |-> 0], [lines |-> 1, tax |-> 0, disc |-> 1],
              [lines |-> 0, tax |-> 0, disc |-> 0]}

\* One bill of two units.
PlainBill == {[lines |-> 2, tax |-> 0, disc |-> 0]}

\* Reopening, completing and cancelling by hand; a new tax, discount or paid amount.
SomePatches == {[status |-> "CREDIT"], [status |-> "COMPLETED"], [status |-> "CANCELLED"],
                [tax |-> 1], [disc |-> 2], [paid |-> 2],
                [archived |-> TRUE], [status |-> "CREDIT", paid |-> 0, tax |-> 1]}

\* Only a cancelled or credit invoice set to CREDIT again.
Reopening == {[status |-> "CREDIT"]}

Interchangeable == Permutations(Invoices) \cup Permutations(Workers)
InterchangeableKeys == Interchangeable \cup Permutations(Keys)
=============================================================================
