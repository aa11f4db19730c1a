---------------------------- MODULE StockCounter ----------------------------
(***************************************************************************)
(* What the inventory promises, without requests, locks or snapshots: each *)
(* product has a quantity on hand and a book of stock movements.  A        *)
(* recorded movement changes the quantity that is on hand at that moment   *)
(* and the book by the same amount, for all the lines of a sale at once;   *)
(* anything else that touches a quantity is an overwrite that leaves the   *)
(* book alone, or the deletion of the product with its movements.          *)
(***************************************************************************)
EXTENDS Integers

CONSTANT Products

VARIABLES quantity,  \* quantity[p]: units on hand
          book       \* book[p]: signed sum of the movements of p

vars == <<quantity, book>>

Init == /\ quantity = [p \in Products |-> 0]
        /\ book = [p \in Products |-> 0]

\* Every product moves by what its book moves, all of them in one direction.
Move == /\ quantity' \in [Products -> Nat]
        /\ \A p \in Products : quantity'[p] - quantity[p] = book'[p] - book[p]
        /\ \/ \A p \in Products : book'[p] >= book[p]
           \/ \A p \in Products : book'[p] <= book[p]

\* The quantity of one product is set by hand: creation, stocktaking, a stale write.
Overwrite(p) == /\ quantity' \in [Products -> Nat]
                /\ \A r \in Products \ {p} : quantity'[r] = quantity[r]
                /\ book' = book

\* A product and its movements are deleted together.
Drop(p) == /\ quantity' = [quantity EXCEPT ![p] = 0]
           /\ book' = [book EXCEPT ![p] = 0]

Next == Move \/ \E p \in Products : Overwrite(p) \/ Drop(p)

Spec == Init /\ [][Next]_vars
=============================================================================
