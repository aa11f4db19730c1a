------------------------------ MODULE Billing -------------------------------
(***************************************************************************)
(* Whom an invoice is for and what number it bears: the customers of a     *)
(* business (application/use_cases/customer_use_cases.py) and the part of  *)
(* CreateInvoiceUseCase that finds or makes the customer and numbers the   *)
(* invoice (application/use_cases/sales_use_cases.py); module Sales has    *)
(* the money.                                                              *)
(*                                                                         *)
(* An e-mail or a telephone number is looked up before a customer is       *)
(* written; nothing but the look-up keeps it to one customer.  The number  *)
(* of an invoice is looked up too, and kept by a unique constraint.  The   *)
(* requests of a till run in a transaction.                                *)
(***************************************************************************)
EXTENDS Integers, Sequences, FiniteSets, FiniteSetsExt

CONSTANTS Customers, NoCustomer,     \* customer rows; each is made once
          Emails, NoEmail, Phones, NoPhone,
          Desks, Tills,              \* requests on customers and on invoices being served
          MaxBills, MaxBillingCalls  \* bounds: invoices that are inserted, requests in a behaviour

ASSUME BillingConstants == /\ NoCustomer \notin Customers /\ NoEmail \notin Emails /\ NoPhone \notin Phones
                           /\ {MaxBills, MaxBillingCalls} \subseteq Nat

VARIABLES customer,        \* the rows
          bill,            \* the rows in the order in which they were inserted
          desk, till,      \* desk[k], till[t]: where a request is, and what it has read
          removed,         \* history: the numbers of deleted invoices
          billingCalls     \* requests that may still come

billingVars == <<customer, bill, desk, till, removed, billingCalls>>

Customer == [state : {"none", "held", "live", "gone"}, email : Emails \cup {NoEmail}, phone : Phones \cup {NoPhone},
             late : BOOLEAN]  \* history: written after another request had changed the rows its writer read
NoCustomerRow == [state |-> "none", email |-> NoEmail, phone |-> NoPhone, late |-> FALSE]
Bill == [state : {"held", "live", "gone"}, number : Nat \ {0}, customer : Customers \cup {NoCustomer}]

Vacant == [op |-> "none", customer |-> NoCustomer, copy |-> NoCustomerRow, email |-> NoEmail, phone |-> NoPhone,
           overtaken |-> FALSE]
Desk == [op : {"none", "create", "look", "find", "save"}, customer : Customers \cup {NoCustomer}, copy : Customer,
         email : Emails \cup {NoEmail}, phone : Phones \cup {NoPhone},  \* what the request names
         overtaken : BOOLEAN]  \* a customer has been written since the request began
Closed == [op |-> "none", customer |-> NoCustomer, number |-> 0, overtaken |-> FALSE]
Till == [op : {"none", "number", "insert", "commit"}, customer : Customers \cup {NoCustomer}, number : Nat,
         overtaken : BOOLEAN]

BillingInit == /\ customer = [c \in Customers |-> NoCustomerRow]
               /\ bill = <<>>
               /\ desk = [k \in Desks |-> Vacant]
               /\ till = [t \in Tills |-> Closed]
               /\ removed = {}
               /\ billingCalls = MaxBillingCalls

Bills == 1..Len(bill)
Called == billingCalls > 0 /\ billingCalls' = billingCalls - 1
Seats(k, r) == desk' = [desk EXCEPT ![k] = r]
\* Customers have been written: what the other requests have read is old.
Old(r) == [r EXCEPT !.overtaken = r.op # "none"]
Overtakes == /\ desk' = [j \in Desks |-> Old(desk[j])]
             /\ till' = [u \in Tills |-> Old(till[u])]
DeskWrote(k) == /\ desk' = [j \in Desks |-> IF j = k THEN Vacant ELSE Old(desk[j])]
                /\ till' = [u \in Tills |-> Old(till[u])]
TillWrote(t) == /\ desk' = [j \in Desks |-> Old(desk[j])]
                /\ till' = [u \in Tills |-> IF u = t THEN Closed ELSE Old(till[u])]

ByEmail(e) == {c \in Customers : customer[c].state = "live" /\ customer[c].email = e /\ e # NoEmail}
ByPhone(p) == {c \in Customers : customer[c].state = "live" /\ customer[c].phone = p /\ p # NoPhone}
-----------------------------------------------------------------------------
(* Customers. *)

\* Of several customers the query returns any: it may be the one being updated.
EmailPasses(e, c) == ByEmail(e) = {} \/ c \in ByEmail(e)
PhonePasses(p, c) == ByPhone(p) = {} \/ c \in ByPhone(p)

CreateLook(k, e, p) ==
    /\ Called /\ desk[k].op = "none"
    /\ ByEmail(e) = {} /\ ByPhone(p) = {}
    /\ Seats(k, [Vacant EXCEPT !.op = "create", !.email = e, !.phone = p])
    /\ UNCHANGED <<customer, bill, till, removed>>

CreateInsert(k, c) ==
    /\ desk[k].op = "create" /\ customer[c].state = "none"
    /\ customer' = [customer EXCEPT ![c] = [state |-> "live", email |-> desk[k].email, phone |-> desk[k].phone,
                                            late |-> desk[k].overtaken]]
    /\ DeskWrote(k)
    /\ UNCHANGED <<bill, removed, billingCalls>>

\* A field that the request does not name stays as it is, or is emptied: no
\* look-up is made for an empty string.
CustomerRead(k, c, e, p) ==
    /\ Called /\ desk[k].op = "none"
    /\ customer[c].state = "live"
    /\ \E x \in {customer[c].email, IF e = NoEmail THEN NoEmail ELSE customer[c].email},
         y \in {customer[c].phone, IF p = NoPhone THEN NoPhone ELSE customer[c].phone} :
         Seats(k, [Vacant EXCEPT !.op = "look", !.customer = c, !.email = e, !.phone = p,
                                 !.copy = [customer[c] EXCEPT !.email = x, !.phone = y]])
    /\ UNCHANGED <<customer, bill, till, removed>>

CustomerLook(k) ==
    LET r == desk[k] IN
    /\ r.op = "look"
    /\ EmailPasses(r.email, r.customer) /\ PhonePasses(r.phone, r.customer)
    /\ Seats(k, [r EXCEPT !.op = "find"])
    /\ UNCHANGED <<customer, bill, till, removed, billingCalls>>

CustomerFind(k) ==
    /\ desk[k].op = "find" /\ customer[desk[k].customer].state = "live"
    /\ Seats(k, [desk[k] EXCEPT !.op = "save"])
    /\ UNCHANGED <<customer, bill, till, removed, billingCalls>>

\* The copy is written whole; a row deleted since CustomerFind is inserted again.
CustomerSave(k) ==
    LET r == desk[k]  c == r.customer IN
    /\ r.op = "save"
    /\ customer' = [customer EXCEPT ![c] =
                       [state |-> "live", email |-> IF r.email = NoEmail THEN r.copy.email ELSE r.email,
                        phone |-> IF r.phone = NoPhone THEN r.copy.phone ELSE r.phone,
                        late |-> @.late \/ r.overtaken]]
    /\ DeskWrote(k)
    /\ UNCHANGED <<bill, removed, billingCalls>>

\* Its invoices lose the customer.
DeleteCustomer(c) ==
    /\ Called
    /\ customer[c].state = "live"
    /\ customer' = [customer EXCEPT ![c].state = "gone"]
    /\ bill' = [i \in Bills |-> IF bill[i].state = "live" /\ bill[i].customer = c
                                THEN [bill[i] EXCEPT !.customer = NoCustomer] ELSE bill[i]]
    /\ Overtakes
    /\ UNCHANGED removed

\* A refusal, an error or a crash before the write
DeskEnds(k) == /\ desk[k].op # "none" /\ Seats(k, Vacant)
               /\ UNCHANGED <<customer, bill, till, removed, billingCalls>>
-----------------------------------------------------------------------------
(* Invoices, each in a transaction. *)

Numbers == {bill[i].number : i \in {j \in Bills : bill[j].state = "live"}}

(* Variant: the telephone number is looked up only when there is no e-mail. *)
FoundByEmail(e, p) == IF e # NoEmail THEN ByEmail(e) ELSE ByPhone(p)

\* _resolve_customer: by e-mail, or else by telephone number.
Found(e, p) == IF ByEmail(e) # {} THEN ByEmail(e) ELSE ByPhone(p)

\* The invoice names a customer, nobody, or somebody who is found or made.
Resolve(t, c) == /\ Called /\ till[t].op = "none"
                 /\ c # NoCustomer => customer[c].state = "live"
                 /\ till' = [till EXCEPT ![t] = [Closed EXCEPT !.op = "number", !.customer = c]]
                 /\ UNCHANGED <<customer, bill, desk, removed>>
ResolveContact(t, e, p) == \E c \in Found(e, p) : Resolve(t, c)
ResolveNew(t, e, p, c) ==
    /\ Called /\ till[t].op = "none"
    /\ Found(e, p) = {} /\ customer[c].state = "none"
    /\ customer' = [customer EXCEPT ![c] = [state |-> "held", email |-> e, phone |-> p, late |-> FALSE]]
    /\ till' = [till EXCEPT ![t] = [Closed EXCEPT !.op = "number", !.customer = c]]
    /\ UNCHANGED <<bill, desk, removed>>

(* Variant: the highest number, not the next one. *)
NumberLast(t) ==
    /\ till[t].op = "number"
    /\ till' = [till EXCEPT ![t].op = "insert", ![t].number = IF Numbers = {} THEN 0 ELSE Max(Numbers)]
    /\ UNCHANGED <<customer, bill, desk, removed, billingCalls>>

\* get_next_invoice_number
Number(t) ==
    /\ till[t].op = "number"
    /\ till' = [till EXCEPT ![t].op = "insert", ![t].number = IF Numbers = {} THEN 1 ELSE Max(Numbers) + 1]
    /\ UNCHANGED <<customer, bill, desk, removed, billingCalls>>

(* Variant: without the unique constraint. *)
InsertUnchecked(t) ==
    /\ till[t].op = "insert" /\ Len(bill) < MaxBills
    /\ bill' = Append(bill, [state |-> "held", number |-> till[t].number, customer |-> till[t].customer])
    /\ till' = [till EXCEPT ![t].op = "commit"]
    /\ UNCHANGED <<customer, desk, removed, billingCalls>>

\* The constraint makes the insert wait for another transaction that has the number.
Insert(t) ==
    /\ till[t].op = "insert" /\ Len(bill) < MaxBills
    /\ \A j \in Bills : bill[j].state \in {"held", "live"} => bill[j].number # till[t].number
    /\ bill' = Append(bill, [state |-> "held", number |-> till[t].number, customer |-> till[t].customer])
    /\ till' = [till EXCEPT ![t].op = "commit"]
    /\ UNCHANGED <<customer, desk, removed, billingCalls>>

Mine(t) == {i \in Bills : bill[i].state = "held" /\ bill[i].number = till[t].number}

\* The lines, the stock and the payments of the invoice are in module Sales.  The
\* reference to the customer is checked at the end.
Commit(t) ==
    LET c == till[t].customer  new == c # NoCustomer /\ customer[c].state = "held" IN
    /\ till[t].op = "commit"
    /\ c # NoCustomer => customer[c].state \in {"held", "live"}
    /\ bill' = [i \in Bills |-> IF i \in Mine(t) THEN [bill[i] EXCEPT !.state = "live"] ELSE bill[i]]
    /\ IF new THEN /\ customer' = [customer EXCEPT ![c].state = "live", ![c].late = till[t].overtaken]
                   /\ TillWrote(t)
       ELSE /\ till' = [till EXCEPT ![t] = Closed]
            /\ UNCHANGED <<customer, desk>>
    /\ UNCHANGED <<removed, billingCalls>>

\* The number has been taken, the customer has gone, something else fails, or a crash.
Rollback(t) ==
    LET c == till[t].customer IN
    /\ till[t].op # "none"
    /\ customer' = [d \in Customers |-> IF d = c /\ customer[d].state = "held"
                                        THEN [customer[d] EXCEPT !.state = "gone"] ELSE customer[d]]
    /\ bill' = [i \in Bills |-> IF till[t].op = "commit" /\ i \in Mine(t) THEN [bill[i] EXCEPT !.state = "gone"]
                                ELSE bill[i]]
    /\ till' = [till EXCEPT ![t] = Closed]
    /\ UNCHANGED <<desk, removed, billingCalls>>

DeleteBill(i) == /\ Called
                 /\ bill[i].state = "live"
                 /\ bill' = [bill EXCEPT ![i].state = "gone"]
                 /\ removed' = removed \cup {bill[i].number}
                 /\ UNCHANGED <<customer, desk, till>>
-----------------------------------------------------------------------------
(* The endpoints of CustomerViewSet and the invoices of SalesViewSet. *)
SomeEmail == Emails \cup {NoEmail}
SomePhone == Phones \cup {NoPhone}
create_customer(k) == \/ \E e \in SomeEmail, p \in SomePhone : CreateLook(k, e, p)
                      \/ \E c \in Customers : CreateInsert(k, c)
update_customer(k) == \/ \E c \in Customers, e \in SomeEmail, p \in SomePhone : CustomerRead(k, c, e, p)
                      \/ CustomerLook(k) \/ CustomerFind(k) \/ CustomerSave(k)
destroy_customer == \E c \in Customers : DeleteCustomer(c)
create_invoice(t) == \/ \E c \in Customers \cup {NoCustomer} : Resolve(t, c)
                     \/ \E e \in SomeEmail, p \in SomePhone :
                           ResolveContact(t, e, p) \/ \E c \in Customers : ResolveNew(t, e, p, c)
                     \/ Number(t) \/ Insert(t) \/ Commit(t) \/ Rollback(t)
delete_invoice == \E i \in Bills : DeleteBill(i)

BillingNext == \/ \E k \in Desks : create_customer(k) \/ update_customer(k) \/ DeskEnds(k)
               \/ \E t \in Tills : create_invoice(t)
               \/ destroy_customer \/ delete_invoice
BillingSpec == BillingInit /\ [][BillingNext]_billingVars
-----------------------------------------------------------------------------
BillingType == /\ customer \in [Customers -> Customer]
               /\ bill \in Seq(Bill) /\ Len(bill) <= MaxBills
               /\ desk \in [Desks -> Desk]
               /\ till \in [Tills -> Till]
               /\ removed \in SUBSET Nat
               /\ billingCalls \in 0..MaxBillingCalls

Share(c, d) == /\ customer[c].state = "live" /\ customer[d].state = "live"
               /\ \/ customer[c].email = customer[d].email /\ customer[c].email # NoEmail
                  \/ customer[c].phone = customer[d].phone /\ customer[c].phone # NoPhone

\* Two customers share an e-mail or a telephone number only when one of them was
\* written by a request that another one overtook after its look-up, whether the
\* customer was made at the desk, by an invoice, or changed by the writing back of
\* an old copy (customer_use_cases.py:47, sales_use_cases.py:355).
CustomersDistinct == \A c, d \in Customers :
    c # d /\ Share(c, d) => customer[c].late \/ customer[d].late

\* The invoices of a business are numbered one by one: no number twice, and none
\* left out but those of invoices that were deleted, although the highest number
\* is read without a lock and a transaction may be rolled back
\* (sales_repositories.py:165).
NumbersExact == /\ \A i, j \in Bills : (i # j /\ bill[i].state = "live" /\ bill[j].state = "live")
                                          => bill[i].number # bill[j].number
                /\ \A i \in Bills : bill[i].state = "live" => 1..bill[i].number \subseteq Numbers \cup removed
=============================================================================
