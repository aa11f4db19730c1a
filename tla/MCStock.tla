------------------------------ MODULE MCStock ------------------------------
(***************************************************************************)
(* Constants for TLC: two products, two workers, and every line order over *)
(* them, so that two invoices can lock the products in opposite orders.    *)
(***************************************************************************)
EXTENDS Stock, TLC

AllOrders == {o \in UNION {[1..n -> Products] : n \in 1..2} :
                \A i, j \in DOMAIN o : o[i] = o[j] => i = j}

\* An edit of another field, a stocktaking, and an earlier or later expiry date.
SomeEdits == {[qty |-> Keep, expiry |-> Keep], [qty |-> 2, expiry |-> Keep],
              [qty |-> Keep, expiry |-> 0], [qty |-> Keep, expiry |-> 1]}

\* Only an update of a field other than quantity and expiry.
FieldEdit == {[qty |-> Keep, expiry |-> Keep]}

\* Products and workers are interchangeable: no definition orders them.
Interchangeable == Permutations(Products) \cup Permutations(Workers)
=============================================================================
