---------------------------- MODULE TradeProofs -----------------------------
(***************************************************************************)
(* Proofs about Billing and Notifications, which MCTrade puts side by side.*)
(*                                                                         *)
(* Billing: two invariants, one on the numbers of the invoices and one on  *)
(* the customers, are inductive together with the types.  For the          *)
(* customers: whoever writes makes every other request that is under way   *)
(* overtaken, so what a request has looked up holds until it is overtaken. *)
(*                                                                         *)
(* Notifications: what a run saw when it checked does not change           *)
(* afterwards, while the clock only makes rows older; and whom a run still *)
(* has to tell follows from its list and from the rows it has written,     *)
(* which are all in the state of the owner's row they belong to.           *)
(***************************************************************************)
EXTENDS MCTrade, FiniteSetTheorems, WellFoundedInduction, TLAPS

(* Billing. *)

\* A bounded set of numbers that has a member has a largest one.
LEMMA MaxExists ==
  ASSUME NEW B \in Nat, NEW S \in SUBSET (0..B), S # {}
  PROVE  Max(S) \in S
  <1> DEFINE T == {B - x : x \in S}
  <1>1. T \subseteq Nat /\ T # {}
    <2>1. \A x \in S : B - x \in Nat /\ B - x \in T
      OBVIOUS
    <2> QED
      BY <2>1
  <1>2. \E R : IsWellFoundedOn(R, Nat) /\ \A x, y \in Nat : x < y => <<x, y>> \in R
    <2>1. ASSUME NEW x \in Nat, NEW y \in Nat, x < y PROVE <<x, y>> \in OpToRel(<, Nat)
      <3>1. <<x, y>> \in Nat \X Nat /\ <<x, y>>[1] < <<x, y>>[2]
        BY <2>1
      <3> QED
        BY <3>1, Zenon DEF OpToRel
    <2> QED
      BY <2>1, NatLessThanWellFounded, Zenon
  <1>3. PICK R : IsWellFoundedOn(R, Nat) /\ \A x, y \in Nat : x < y => <<x, y>> \in R
    BY <1>2, Zenon
  <1>4. PICK m \in T : \A y \in T : ~(<<y, m>> \in R)
    <2> HIDE DEF T
    <2>1. IsWellFoundedOn(R, Nat)
      BY <1>3
    <2>2. T \subseteq Nat /\ T # {}
      BY <1>1
    <2> QED
      BY <2>1, <2>2, WFMin, Zenon
  <1>5. \A y \in T : m <= y
    <2> HIDE DEF T
    <2>1. ASSUME NEW y \in T PROVE m <= y
      <3>1. m \in Nat /\ y \in Nat /\ ~(y < m)
        BY <1>1, <1>3, <1>4
      <3> QED
        BY <3>1
    <2> QED
      BY <2>1
  <1>6. PICK z \in S : m = B - z
    BY <1>4
  <1>7. \A x \in S : z >= x
    <2>1. ASSUME NEW x \in S PROVE z >= x
      <3>1. B - x \in T
        OBVIOUS
      <3>2. B - z <= B - x
        BY <1>5, <1>6, <3>1
      <3> QED
        BY <3>2
    <2> QED
      BY <2>1
  <1> QED
    BY <1>7 DEF Max
-----------------------------------------------------------------------------
(* Numbers. *)

Taken(i) == bill[i].state \in {"held", "live"}
Used == Numbers \cup removed

NoneTwice == \A i, j \in Bills : (i # j /\ Taken(i) /\ Taken(j)) => bill[i].number # bill[j].number
\* An invoice is numbered no higher than there have been invoices, and what is
\* below the number it was given has been used.
BillsFollow == \A i \in Bills : bill[i].number <= i /\ (Taken(i) => 1..(bill[i].number - 1) \subseteq Used)
TillsFollow == \A t \in Tills : till[t].op = "insert" =>
                  till[t].number \in 1..(Len(bill) + 1) /\ 1..(till[t].number - 1) \subseteq Used

NumbersInv == BillingType /\ NoneTwice /\ BillsFollow /\ TillsFollow

LEMMA NumbersBounded ==
  ASSUME NumbersInv
  PROVE  Numbers \subseteq 1..Len(bill) /\ Len(bill) \in Nat
  <1>1. Len(bill) \in Nat /\ \A i \in Bills : bill[i] \in Bill
    BY DEF NumbersInv, BillingType, Bills
  <1>2. \A i \in Bills : bill[i].number \in Nat \ {0} /\ bill[i].number <= i /\ i <= Len(bill)
    BY <1>1 DEF Bill, NumbersInv, BillsFollow, Bills
  <1> QED
    BY <1>1, <1>2 DEF Numbers, Bills

\* The next number is a new one, and all below it are used.
LEMMA NextNumber ==
  ASSUME NumbersInv
  PROVE  LET n == IF Numbers = {} THEN 1 ELSE Max(Numbers) + 1 IN
         n \in 1..(Len(bill) + 1) /\ 1..(n - 1) \subseteq Used
  <1>1. Numbers \subseteq 1..Len(bill) /\ Len(bill) \in Nat
    BY NumbersBounded
  <1>2. CASE Numbers = {}
    BY <1>1, <1>2
  <1>3. CASE Numbers # {}
    <2>1. Max(Numbers) \in Numbers
      <3>1. Numbers \in SUBSET (0..Len(bill))
        BY <1>1
      <3> QED
        BY <1>1, <1>3, <3>1, MaxExists
    <2>2. PICK i \in Bills : bill[i].state = "live" /\ bill[i].number = Max(Numbers)
      BY <2>1 DEF Numbers
    <2>3. 1..(bill[i].number - 1) \subseteq Used
      BY <2>2 DEF NumbersInv, BillsFollow, Taken
    <2>4. Max(Numbers) \in Used /\ Max(Numbers) \in 1..Len(bill)
      BY <1>1, <2>1 DEF Used
    <2>5. 1..Max(Numbers) \subseteq Used
      BY <1>1, <2>2, <2>3, <2>4
    <2>6. Max(Numbers) + 1 - 1 = Max(Numbers)
      BY <1>1, <2>4
    <2> QED
      BY <1>1, <1>3, <2>4, <2>5, <2>6
  <1> QED
    BY <1>2, <1>3

\* Invoices are closed, deleted or lose their customer; none is made or numbered.
LEMMA NumbersStay ==
  ASSUME NumbersInv, bill' \in Seq(Bill), Len(bill') = Len(bill), removed \subseteq removed',
         \A i \in Bills : /\ bill'[i].number = bill[i].number
                          /\ bill'[i].state \in {"held", "live"} => Taken(i)
                          /\ bill[i].state = "live" => (bill'[i].state = "live" \/ bill[i].number \in removed'),
         \A t \in Tills : till'[t].op = "insert" => till[t].op = "insert" /\ till'[t].number = till[t].number
  PROVE  NoneTwice' /\ BillsFollow' /\ TillsFollow'
  <1>1. Bills' = Bills
    BY DEF Bills
  <1>2. Used \subseteq Used'
    <2>1. ASSUME NEW n \in Numbers PROVE n \in Used'
      <3>1. PICK i \in Bills : bill[i].state = "live" /\ bill[i].number = n
        BY <2>1 DEF Numbers
      <3> QED
        BY <1>1, <3>1 DEF Used, Numbers
    <2> QED
      BY <2>1 DEF Used
  <1>3. NoneTwice'
    BY <1>1 DEF NumbersInv, NoneTwice, Taken
  <1>4. BillsFollow'
    BY <1>1, <1>2 DEF NumbersInv, BillsFollow, Taken
  <1>5. TillsFollow'
    BY <1>2 DEF NumbersInv, TillsFollow
  <1> QED
    BY <1>3, <1>4, <1>5

LEMMA NumberKeeps ==
  ASSUME NumbersInv, NEW t \in Tills, Number(t)
  PROVE  NoneTwice' /\ BillsFollow' /\ TillsFollow' /\ till' \in [Tills -> Till]
  <1>0. PICK n : n = IF Numbers = {} THEN 1 ELSE Max(Numbers) + 1
    OBVIOUS
  <1>1. n \in 1..(Len(bill) + 1) /\ 1..(n - 1) \subseteq Used
    BY <1>0, NextNumber
  <1>2. /\ till \in [Tills -> Till] /\ Len(bill) \in Nat
        /\ till' = [till EXCEPT ![t].op = "insert", ![t].number = n] /\ UNCHANGED <<bill, removed>>
    BY <1>0 DEF Number, NumbersInv, BillingType
  <1>3. till'[t].op = "insert" /\ till'[t].number = n /\ \A u \in Tills \ {t} : till'[u] = till[u]
    BY <1>2 DEF Till
  <1>4. till' \in [Tills -> Till]
    <2>1. [till[t] EXCEPT !.op = "insert", !.number = n] \in Till
      <3>1. n \in Nat /\ till[t] \in Till
        BY <1>1, <1>2
      <3> QED
        BY <3>1 DEF Till
    <2>2. till' = [till EXCEPT ![t] = [till[t] EXCEPT !.op = "insert", !.number = n]]
      BY <1>2
    <2> QED
      BY <1>2, <2>1, <2>2
  <1>5. Used' = Used /\ Bills' = Bills
    BY <1>2 DEF Used, Numbers, Bills
  <1>6. TillsFollow'
    <2>1. ASSUME NEW u \in Tills, till'[u].op = "insert"
          PROVE  till'[u].number \in 1..(Len(bill) + 1) /\ 1..(till'[u].number - 1) \subseteq Used
      <3>1. CASE u = t
        BY <1>1, <1>3, <3>1
      <3>2. CASE u # t
        BY <1>3, <2>1, <3>2 DEF NumbersInv, TillsFollow
      <3> QED
        BY <3>1, <3>2
    <2>2. Len(bill') = Len(bill)
      BY <1>2
    <2> QED
      BY <1>5, <2>1, <2>2 DEF TillsFollow
  <1>7. NoneTwice' /\ BillsFollow'
    BY <1>2, <1>5 DEF NumbersInv, NoneTwice, BillsFollow, Taken
  <1> QED
    BY <1>4, <1>6, <1>7

LEMMA InsertKeeps ==
  ASSUME NumbersInv, NEW t \in Tills, Insert(t)
  PROVE  /\ NoneTwice' /\ BillsFollow' /\ TillsFollow'
         /\ till' \in [Tills -> Till] /\ bill' \in Seq(Bill) /\ Len(bill') <= MaxBills
  <1>0. PICK b, n, L : /\ n = till[t].number /\ L = Len(bill)
                       /\ b = [state |-> "held", number |-> n, customer |-> till[t].customer]
    OBVIOUS
  <1>1. /\ till \in [Tills -> Till] /\ bill \in Seq(Bill) /\ L \in Nat /\ MaxBills \in Nat
        /\ L < MaxBills /\ till[t].op = "insert"
    BY <1>0, BillingConstants DEF Insert, NumbersInv, BillingType
  <1>2. n \in 1..(L + 1) /\ 1..(n - 1) \subseteq Used
    BY <1>0, <1>1 DEF NumbersInv, TillsFollow
  <1>3. b \in Bill /\ b.number = n /\ b.state = "held"
    BY <1>0, <1>1, <1>2 DEF Bill, Till
  <1>4. /\ bill' = Append(bill, b) /\ till' = [till EXCEPT ![t].op = "commit"] /\ removed' = removed
        /\ \A j \in Bills : Taken(j) => bill[j].number # n
    BY <1>0 DEF Insert, Taken
  <1>5. /\ bill' \in Seq(Bill) /\ Len(bill') = L + 1 /\ bill'[L + 1] = b
        /\ \A i \in Bills : bill'[i] = bill[i]
    BY <1>0, <1>1, <1>3, <1>4 DEF Bills
  <1>6. Bills' = Bills \cup {L + 1} /\ L + 1 \notin Bills
    BY <1>0, <1>1, <1>5 DEF Bills
  <1>7. Used' = Used
    <2>1. \A i \in Bills' : bill'[i].state = "live" <=> (i \in Bills /\ bill[i].state = "live")
      BY <1>3, <1>5, <1>6
    <2>2. {j \in Bills' : bill'[j].state = "live"} = {j \in Bills : bill[j].state = "live"}
      BY <1>6, <2>1
    <2>3. Numbers' = Numbers
      <3>1. \A i \in {j \in Bills : bill[j].state = "live"} : bill'[i].number = bill[i].number
        BY <1>5
      <3> QED
        BY <2>2, <3>1 DEF Numbers
    <2> QED
      BY <1>4, <2>3 DEF Used
  <1>8. NoneTwice'
    <2>1. \A i \in Bills : bill'[i].state \in {"held", "live"} => (Taken(i) /\ bill'[i].number # n)
      BY <1>4, <1>5 DEF Taken
    <2>2. \A i, j \in Bills : (i # j /\ Taken(i) /\ Taken(j)) => bill[i].number # bill[j].number
      BY DEF NumbersInv, NoneTwice
    <2>3. ASSUME NEW i \in Bills', NEW j \in Bills', i # j, Taken(i)', Taken(j)'
          PROVE  bill'[i].number # bill'[j].number
      <3>1. CASE i \in Bills /\ j \in Bills
        BY <1>5, <2>1, <2>2, <2>3, <3>1 DEF Taken
      <3>2. CASE i = L + 1 /\ j \in Bills
        BY <1>3, <1>5, <2>1, <2>3, <3>2 DEF Taken
      <3>3. CASE j = L + 1 /\ i \in Bills
        BY <1>3, <1>5, <2>1, <2>3, <3>3 DEF Taken
      <3> QED
        BY <1>6, <2>3, <3>1, <3>2, <3>3
    <2> QED
      BY <2>3 DEF NoneTwice
  <1>9. BillsFollow'
    BY <1>1, <1>2, <1>3, <1>5, <1>6, <1>7 DEF NumbersInv, BillsFollow, Taken
  <1>10. till' \in [Tills -> Till] /\ \A u \in Tills : till'[u].op = "insert" => till'[u] = till[u]
    <2>1. [till[t] EXCEPT !.op = "commit"] \in Till /\ [till[t] EXCEPT !.op = "commit"].op = "commit"
      BY <1>1 DEF Till
    <2>2. till' = [till EXCEPT ![t] = [till[t] EXCEPT !.op = "commit"]]
      BY <1>4
    <2> QED
      BY <1>1, <2>1, <2>2
  <1>11. TillsFollow'
    <2>1. ASSUME NEW u \in Tills, till'[u].op = "insert"
          PROVE  till'[u].number \in 1..(L + 2) /\ 1..(till'[u].number - 1) \subseteq Used
      <3>1. till'[u] = till[u]
        BY <1>10, <2>1
      <3>2. till[u].number \in 1..(L + 1) /\ 1..(till[u].number - 1) \subseteq Used
        BY <1>0, <2>1, <3>1 DEF NumbersInv, TillsFollow
      <3> QED
        BY <1>1, <3>1, <3>2
    <2>2. Len(bill') + 1 = L + 2
      BY <1>1, <1>5
    <2> QED
      BY <1>7, <2>1, <2>2 DEF TillsFollow
  <1> QED
    BY <1>1, <1>5, <1>8, <1>9, <1>10, <1>11
-----------------------------------------------------------------------------
(* Customers. *)

Free(e, p) == ByEmail(e) = {} /\ ByPhone(p) = {}

\* What a request has found out holds until it is overtaken.
DeskFit(r) ==
    /\ (r.op = "create" /\ ~r.overtaken) => Free(r.email, r.phone)
    /\ r.op \in {"look", "find", "save"} =>
         /\ r.customer \in Customers /\ customer[r.customer].state \in {"live", "gone"}
         /\ ~r.overtaken => /\ customer[r.customer].state = "live"
                            /\ r.copy.email \in {customer[r.customer].email, NoEmail}
                            /\ r.copy.phone \in {customer[r.customer].phone, NoPhone}
                            /\ r.op # "look" => /\ EmailPasses(r.email, r.customer)
                                                /\ PhonePasses(r.phone, r.customer)
TillFit(r) ==
    (r.op # "none" /\ ~r.overtaken /\ r.customer \in Customers /\ customer[r.customer].state = "held")
        => Free(customer[r.customer].email, customer[r.customer].phone)

CustomersInv == /\ CustomersDistinct
                /\ \A k \in Desks : DeskFit(desk[k])
                /\ \A t \in Tills : TillFit(till[t])

\* The customers that a look-up sees stay as they are.
LiveSame == \A c \in Customers : /\ customer[c].state = "live" <=> customer'[c].state = "live"
                                 /\ customer[c].state = "live" => customer'[c] = customer[c]

LEMMA LookupSame ==
  ASSUME LiveSame
  PROVE  /\ \A e : ByEmail(e)' = ByEmail(e)
         /\ \A p : ByPhone(p)' = ByPhone(p)
         /\ CustomersDistinct => CustomersDistinct'
  <1>1. ASSUME NEW e PROVE ByEmail(e)' = ByEmail(e)
    BY DEF LiveSame, ByEmail
  <1>2. ASSUME NEW p PROVE ByPhone(p)' = ByPhone(p)
    BY DEF LiveSame, ByPhone
  <1>3. \A c, d \in Customers : Share(c, d)' => Share(c, d) /\ customer'[c] = customer[c] /\ customer'[d] = customer[d]
    BY DEF LiveSame, Share
  <1>4. CustomersDistinct => CustomersDistinct'
    BY <1>3 DEF CustomersDistinct
  <1> QED
    BY <1>1, <1>2, <1>4

\* A step that writes no customer that can be seen.
LEMMA LookupStep ==
  ASSUME CustomersInv, LiveSame,
         \A c \in Customers : customer[c].state \in {"live", "gone"} => customer'[c].state \in {"live", "gone"},
         \A c \in Customers : customer'[c].state = "held" =>
             (customer'[c] = customer[c] \/ Free(customer'[c].email, customer'[c].phone)),
         \A k \in Desks : desk'[k] = desk[k] \/ DeskFit(desk[k])',
         \A t \in Tills : \/ till'[t].op = "none"
                          \/ till'[t].customer \in Customers =>
                                (customer'[till'[t].customer].state = "held" =>
                                    Free(customer'[till'[t].customer].email, customer'[till'[t].customer].phone))
                          \/ /\ till[t].op # "none" /\ till'[t].customer = till[t].customer
                             /\ till'[t].overtaken = till[t].overtaken
  PROVE  CustomersInv'
  <1>1. /\ \A e : ByEmail(e)' = ByEmail(e)
        /\ \A p : ByPhone(p)' = ByPhone(p)
        /\ CustomersDistinct'
    BY LookupSame DEF CustomersInv
  <1>2. \A e, p : Free(e, p)' = Free(e, p)
    BY <1>1 DEF Free
  <1>3. ASSUME NEW k \in Desks, desk'[k] = desk[k] PROVE DeskFit(desk[k])'
    <2>1. DeskFit(desk[k])
      BY DEF CustomersInv
    <2> QED
      BY <1>1, <1>2, <1>3, <2>1 DEF DeskFit, EmailPasses, PhonePasses, LiveSame
  <1>4. ASSUME NEW t \in Tills PROVE TillFit(till[t])'
    <2>1. TillFit(till[t])
      BY DEF CustomersInv
    <2>2. CASE till'[t].op = "none"
      BY <2>2 DEF TillFit
    <2>3. CASE till'[t].customer \in Customers =>
                  (customer'[till'[t].customer].state = "held" =>
                      Free(customer'[till'[t].customer].email, customer'[till'[t].customer].phone))
      BY <1>2, <2>3 DEF TillFit
    <2>4. CASE /\ till[t].op # "none" /\ till'[t].customer = till[t].customer
               /\ till'[t].overtaken = till[t].overtaken
      BY <1>2, <2>1, <2>4 DEF TillFit
    <2> QED
      BY <2>2, <2>3, <2>4
  <1> QED
    BY <1>1, <1>3, <1>4 DEF CustomersInv

\* A step that writes a customer that can be seen: the other requests are overtaken.
LEMMA WriteStep ==
  ASSUME BillingType, CustomersInv, CustomersDistinct',
         \A c \in Customers : customer[c].state \in {"live", "gone"} => customer'[c].state \in {"live", "gone"},
         \A k \in Desks : desk'[k] = Vacant \/ desk'[k] = Old(desk[k]),
         \A t \in Tills : till'[t] = Closed \/ till'[t] = Old(till[t])
  PROVE  CustomersInv'
  <1>1. ASSUME NEW k \in Desks PROVE DeskFit(desk[k])'
    <2>1. CASE desk'[k] = Vacant
      BY <2>1 DEF DeskFit, Vacant
    <2>2. CASE desk'[k] = Old(desk[k])
      <3>1. DeskFit(desk[k]) /\ desk[k] \in Desk
        BY DEF CustomersInv, BillingType
      <3>2. /\ desk'[k].op = desk[k].op /\ desk'[k].customer = desk[k].customer
            /\ desk'[k].overtaken = (desk[k].op # "none")
        BY <2>2, <3>1 DEF Old, Desk
      <3> QED
        BY <3>1, <3>2 DEF DeskFit
    <2> QED
      BY <2>1, <2>2
  <1>2. ASSUME NEW t \in Tills PROVE TillFit(till[t])'
    <2>1. CASE till'[t] = Closed
      BY <2>1 DEF TillFit, Closed
    <2>2. CASE till'[t] = Old(till[t])
      <3>1. till[t] \in Till
        BY DEF BillingType
      <3>2. till'[t].op = till[t].op /\ till'[t].overtaken = (till[t].op # "none")
        BY <2>2, <3>1 DEF Old, Till
      <3> QED
        BY <3>2 DEF TillFit
    <2> QED
      BY <2>1, <2>2
  <1> QED
    BY <1>1, <1>2 DEF CustomersInv

LEMMA OldTyped ==
  ASSUME BillingType
  PROVE  /\ \A k \in Desks : Old(desk[k]) \in Desk
         /\ \A t \in Tills : /\ Old(till[t]) \in Till /\ Old(till[t]).op = till[t].op
                             /\ Old(till[t]).number = till[t].number
  <1>1. \A k \in Desks : desk[k] \in Desk
    BY DEF BillingType
  <1>2. \A t \in Tills : till[t] \in Till
    BY DEF BillingType
  <1>3. \A k \in Desks : Old(desk[k]) \in Desk
    BY <1>1 DEF Old, Desk
  <1>4. \A t \in Tills : /\ Old(till[t]) \in Till /\ Old(till[t]).op = till[t].op
                         /\ Old(till[t]).number = till[t].number
    BY <1>2 DEF Old, Till
  <1> QED
    BY <1>3, <1>4
-----------------------------------------------------------------------------
(* The actions. *)

BillingInv == NumbersInv /\ CustomersInv

\* A desk is taken or left, and nothing else changes.
LEMMA DeskMove ==
  ASSUME BillingInv, NEW k \in Desks, NEW r \in Desk, DeskFit(r), Seats(k, r),
         UNCHANGED <<customer, bill, till, removed>>, billingCalls' \in 0..MaxBillingCalls
  PROVE  BillingInv'
  <1>1. desk' = [desk EXCEPT ![k] = r] /\ desk \in [Desks -> Desk]
    BY DEF Seats, BillingInv, NumbersInv, BillingType
  <1>2. BillingType'
    BY <1>1 DEF BillingInv, NumbersInv, BillingType
  <1>3. NoneTwice' /\ BillsFollow' /\ TillsFollow'
    BY DEF BillingInv, NumbersInv, NoneTwice, BillsFollow, TillsFollow, Taken, Used, Numbers, Bills
  <1>4. \A j \in Desks : desk'[j] = r \/ desk'[j] = desk[j]
    BY <1>1
  <1>5. CustomersInv'
    <2>1. CustomersDistinct'
      BY DEF BillingInv, CustomersInv, CustomersDistinct, Share
    <2>2. \A t \in Tills : TillFit(till[t])'
      BY DEF BillingInv, CustomersInv, TillFit, Free, ByEmail, ByPhone
    <2>3. ASSUME NEW x, DeskFit(x) PROVE DeskFit(x)'
      BY <2>3 DEF DeskFit, EmailPasses, PhonePasses, Free, ByEmail, ByPhone
    <2>4. ASSUME NEW j \in Desks PROVE DeskFit(desk[j])'
      <3>1. PICK x : x = desk'[j] /\ DeskFit(x)
        BY <1>4 DEF BillingInv, CustomersInv
      <3>2. DeskFit(x)'
        BY <2>3, <3>1
      <3> QED
        BY <3>1, <3>2 DEF DeskFit
    <2> QED
      BY <2>1, <2>2, <2>4 DEF CustomersInv
  <1> QED
    BY <1>2, <1>3, <1>5 DEF BillingInv, NumbersInv

LEMMA CalledTyped ==
  ASSUME BillingType, Called \/ UNCHANGED billingCalls
  PROVE  billingCalls' \in 0..MaxBillingCalls
  BY BillingConstants DEF BillingType, Called

LEMMA VacantFits == Vacant \in Desk /\ DeskFit(Vacant) /\ Closed \in Till
  BY BillingConstants DEF Vacant, Desk, DeskFit, Closed, Till, NoCustomerRow, Customer

\* What is looked up is what fits.
LEMMA DeskKeeps ==
  ASSUME BillingInv, NEW k \in Desks,
         \/ \E e \in SomeEmail, p \in SomePhone : CreateLook(k, e, p)
         \/ \E c \in Customers, e \in SomeEmail, p \in SomePhone : CustomerRead(k, c, e, p)
         \/ CustomerLook(k) \/ CustomerFind(k) \/ DeskEnds(k)
  PROVE  BillingInv'
  <1>1. desk[k] \in Desk /\ DeskFit(desk[k]) /\ customer \in [Customers -> Customer] /\ BillingType
    BY DEF BillingInv, NumbersInv, BillingType, CustomersInv
  <1>2. ASSUME NEW e \in SomeEmail, NEW p \in SomePhone, CreateLook(k, e, p) PROVE BillingInv'
    <2>1. PICK r : r = [Vacant EXCEPT !.op = "create", !.email = e, !.phone = p]
      OBVIOUS
    <2>2. r \in Desk /\ r.op = "create" /\ r.email = e /\ r.phone = p
      BY <2>1, VacantFits DEF Desk, SomeEmail, SomePhone
    <2>3. DeskFit(r)
      BY <1>2, <2>2 DEF DeskFit, Free, CreateLook
    <2> QED
      BY <1>1, <1>2, <2>1, <2>2, <2>3, DeskMove, CalledTyped DEF CreateLook
  <1>3. ASSUME NEW c \in Customers, NEW e \in SomeEmail, NEW p \in SomePhone, CustomerRead(k, c, e, p)
        PROVE  BillingInv'
    <2>0. PICK x \in {customer[c].email, NoEmail}, y \in {customer[c].phone, NoPhone} :
             Seats(k, [Vacant EXCEPT !.op = "look", !.customer = c, !.email = e, !.phone = p,
                                     !.copy = [customer[c] EXCEPT !.email = x, !.phone = y]])
      BY <1>3 DEF CustomerRead
    <2>1. PICK q : q = [customer[c] EXCEPT !.email = x, !.phone = y]
      OBVIOUS
    <2>2. q \in Customer /\ q.email = x /\ q.phone = y
      BY <1>1, <2>1, BillingConstants DEF Customer
    <2>3. PICK r : r = [Vacant EXCEPT !.op = "look", !.customer = c, !.email = e, !.phone = p, !.copy = q]
      OBVIOUS
    <2>4. r \in Desk /\ r.op = "look" /\ r.customer = c /\ r.copy = q
      BY <2>2, <2>3, VacantFits DEF Desk, SomeEmail, SomePhone
    <2>5. DeskFit(r)
      BY <1>3, <2>2, <2>4 DEF DeskFit, CustomerRead
    <2>6. Seats(k, r)
      BY <2>0, <2>1, <2>3
    <2> QED
      BY <1>1, <1>3, <2>4, <2>5, <2>6, DeskMove, CalledTyped DEF CustomerRead
  <1>4. ASSUME CustomerLook(k) PROVE BillingInv'
    <2>1. PICK r : r = [desk[k] EXCEPT !.op = "find"]
      OBVIOUS
    <2>2. /\ r \in Desk /\ r.op = "find" /\ r.customer = desk[k].customer /\ r.copy = desk[k].copy
          /\ r.email = desk[k].email /\ r.phone = desk[k].phone /\ r.overtaken = desk[k].overtaken
      BY <1>1, <2>1 DEF Desk
    <2>3. DeskFit(r)
      BY <1>1, <1>4, <2>2 DEF DeskFit, CustomerLook
    <2> QED
      BY <1>1, <1>4, <2>1, <2>2, <2>3, DeskMove, CalledTyped DEF CustomerLook
  <1>5. ASSUME CustomerFind(k) PROVE BillingInv'
    <2>1. PICK r : r = [desk[k] EXCEPT !.op = "save"]
      OBVIOUS
    <2>2. /\ r \in Desk /\ r.op = "save" /\ r.customer = desk[k].customer /\ r.copy = desk[k].copy
          /\ r.email = desk[k].email /\ r.phone = desk[k].phone /\ r.overtaken = desk[k].overtaken
      BY <1>1, <2>1 DEF Desk
    <2>3. DeskFit(r)
      BY <1>1, <1>5, <2>2 DEF DeskFit, CustomerFind
    <2> QED
      BY <1>1, <1>5, <2>1, <2>2, <2>3, DeskMove, CalledTyped DEF CustomerFind
  <1>6. ASSUME DeskEnds(k) PROVE BillingInv'
    BY <1>1, <1>6, VacantFits, DeskMove, CalledTyped DEF DeskEnds
  <1> QED
    BY <1>2, <1>3, <1>4, <1>5, <1>6

\* What a step does to the invoices without making or numbering any.
BillsKept == /\ bill' \in Seq(Bill) /\ Len(bill') = Len(bill)
             /\ removed \subseteq removed' /\ removed' \in SUBSET Nat
             /\ \A i \in Bills : /\ bill'[i].number = bill[i].number
                                 /\ bill'[i].state \in {"held", "live"} => Taken(i)
                                 /\ bill[i].state = "live" => (bill'[i].state = "live" \/ bill[i].number \in removed')

LEMMA BillsUnchanged ==
  ASSUME BillingType, UNCHANGED <<bill, removed>>
  PROVE  BillsKept
  BY DEF BillsKept, BillingType, Taken

\* Customers are written, and all requests but those that end are overtaken.
LEMMA Overtaken ==
  ASSUME BillingInv, customer' \in [Customers -> Customer], CustomersDistinct', BillsKept,
         \A c \in Customers : customer[c].state \in {"live", "gone"} => customer'[c].state \in {"live", "gone"},
         NEW D, NEW T,
         desk' = [j \in Desks |-> IF j \in D THEN Vacant ELSE Old(desk[j])],
         till' = [u \in Tills |-> IF u \in T THEN Closed ELSE Old(till[u])],
         billingCalls' \in 0..MaxBillingCalls
  PROVE  BillingInv'
  <1>1. BillingType /\ CustomersInv /\ NumbersInv
    BY DEF BillingInv, NumbersInv
  <1>2. desk' \in [Desks -> Desk] /\ till' \in [Tills -> Till]
    BY <1>1, OldTyped, VacantFits
  <1>3. \A k \in Desks : desk'[k] = Vacant \/ desk'[k] = Old(desk[k])
    OBVIOUS
  <1>4. \A t \in Tills : till'[t] = Closed \/ till'[t] = Old(till[t])
    OBVIOUS
  <1>5. CustomersInv'
    BY <1>1, <1>3, <1>4, WriteStep
  <1>6. \A t \in Tills : till'[t].op = "insert" => till[t].op = "insert" /\ till'[t].number = till[t].number
    BY <1>1, <1>4, OldTyped DEF Closed
  <1>7. NoneTwice' /\ BillsFollow' /\ TillsFollow'
    BY <1>1, <1>6, NumbersStay DEF BillsKept
  <1>8. Len(bill') <= MaxBills
    BY <1>1 DEF BillsKept, BillingType
  <1>9. BillingType'
    BY <1>2, <1>8 DEF BillsKept, BillingType
  <1> QED
    BY <1>5, <1>7, <1>9 DEF BillingInv, NumbersInv

\* The new customer shares nothing with those that the look-up saw.
LEMMA CreateInsertKeeps ==
  ASSUME BillingInv, NEW k \in Desks, NEW c \in Customers, CreateInsert(k, c)
  PROVE  BillingInv'
  <1>0. PICK r, x : /\ r = desk[k]
                    /\ x = [state |-> "live", email |-> r.email, phone |-> r.phone, late |-> r.overtaken]
    OBVIOUS
  <1>1. /\ BillingType /\ CustomersDistinct /\ r \in Desk /\ DeskFit(r) /\ r.op = "create"
        /\ customer \in [Customers -> Customer] /\ customer[c].state = "none"
    BY <1>0 DEF BillingInv, NumbersInv, BillingType, CustomersInv, CreateInsert
  <1>2. x \in Customer /\ x.state = "live" /\ x.email = r.email /\ x.phone = r.phone /\ x.late = r.overtaken
    BY <1>0, <1>1 DEF Desk, Customer
  <1>3. customer' = [customer EXCEPT ![c] = x] /\ DeskWrote(k) /\ UNCHANGED <<bill, removed, billingCalls>>
    BY <1>0 DEF CreateInsert
  <1>4. /\ customer' \in [Customers -> Customer] /\ customer'[c] = x
        /\ \A d \in Customers \ {c} : customer'[d] = customer[d]
    BY <1>1, <1>2, <1>3
  <1>5. ASSUME NEW d \in Customers \ {c}, Share(c, d)' \/ Share(d, c)' PROVE x.late \/ customer[d].late
    <2>1. CASE r.overtaken
      BY <1>2, <2>1
    <2>2. CASE ~r.overtaken
      <3>1. ByEmail(x.email) = {} /\ ByPhone(x.phone) = {}
        BY <1>1, <1>2, <2>2 DEF DeskFit, Free
      <3>2. d \in ByEmail(x.email) \/ d \in ByPhone(x.phone)
        BY <1>4, <1>5 DEF Share, ByEmail, ByPhone
      <3> QED
        BY <3>1, <3>2
    <2> QED
      BY <2>1, <2>2
  <1>6. CustomersDistinct'
    <2>1. ASSUME NEW a \in Customers, NEW d \in Customers, a # d, Share(a, d)'
          PROVE  customer'[a].late \/ customer'[d].late
      <3>1. CASE a = c
        BY <1>4, <1>5, <2>1, <3>1
      <3>2. CASE d = c
        BY <1>4, <1>5, <2>1, <3>2
      <3>3. CASE a # c /\ d # c
        BY <1>1, <1>4, <2>1, <3>3 DEF CustomersDistinct, Share
      <3> QED
        BY <3>1, <3>2, <3>3
    <2> QED
      BY <2>1 DEF CustomersDistinct
  <1>7. \A d \in Customers : customer[d].state \in {"live", "gone"} => customer'[d].state \in {"live", "gone"}
    BY <1>1, <1>4
  <1>8. PICK D, T : D = {k} /\ T = {}
    OBVIOUS
  <1>8a. /\ desk' = [j \in Desks |-> IF j \in D THEN Vacant ELSE Old(desk[j])]
        /\ till' = [u \in Tills |-> IF u \in T THEN Closed ELSE Old(till[u])]
    BY <1>3, <1>8 DEF DeskWrote
  <1>9. BillsKept
    BY <1>1, <1>3, BillsUnchanged
  <1>10. billingCalls' \in 0..MaxBillingCalls
    BY <1>1, <1>3, CalledTyped
  <1> QED
    BY <1>4, <1>6, <1>7, <1>8a, <1>9, <1>10, Overtaken

\* What the customer shares after the change it shared before, or the look-up
\* would have stopped the change.
LEMMA CustomerSaveKeeps ==
  ASSUME BillingInv, NEW k \in Desks, CustomerSave(k)
  PROVE  BillingInv'
  <1>0. PICK r, c, x : /\ r = desk[k] /\ c = r.customer
                       /\ x = [state |-> "live", email |-> IF r.email = NoEmail THEN r.copy.email ELSE r.email,
                               phone |-> IF r.phone = NoPhone THEN r.copy.phone ELSE r.phone,
                               late |-> customer[c].late \/ r.overtaken]
    OBVIOUS
  <1>1. /\ BillingType /\ CustomersDistinct /\ r \in Desk /\ DeskFit(r) /\ r.op = "save"
        /\ customer \in [Customers -> Customer]
    BY <1>0 DEF BillingInv, NumbersInv, BillingType, CustomersInv, CustomerSave
  <1>2. c \in Customers /\ customer[c].state \in {"live", "gone"} /\ r.copy \in Customer
    BY <1>0, <1>1 DEF DeskFit, Desk
  <1>3. /\ x \in Customer /\ x.state = "live"
        /\ x.email = (IF r.email = NoEmail THEN r.copy.email ELSE r.email)
        /\ x.phone = (IF r.phone = NoPhone THEN r.copy.phone ELSE r.phone)
        /\ x.late = (customer[c].late \/ r.overtaken)
    BY <1>0, <1>1, <1>2 DEF Desk, Customer
  <1>4. customer' = [customer EXCEPT ![c] = x] /\ DeskWrote(k) /\ UNCHANGED <<bill, removed, billingCalls>>
    BY <1>0 DEF CustomerSave
  <1>5. /\ customer' \in [Customers -> Customer] /\ customer'[c] = x
        /\ \A d \in Customers \ {c} : customer'[d] = customer[d]
    BY <1>1, <1>2, <1>3, <1>4
  <1>6. ASSUME NEW d \in Customers \ {c}, Share(c, d)' \/ Share(d, c)', ~r.overtaken
        PROVE  Share(c, d)
    <2>1. /\ customer[c].state = "live"
          /\ r.copy.email \in {customer[c].email, NoEmail} /\ r.copy.phone \in {customer[c].phone, NoPhone}
          /\ EmailPasses(r.email, c) /\ PhonePasses(r.phone, c)
      BY <1>0, <1>1, <1>6 DEF DeskFit
    <2>2. /\ customer[d].state = "live"
          /\ \/ x.email = customer[d].email /\ x.email # NoEmail
             \/ x.phone = customer[d].phone /\ x.phone # NoPhone
      BY <1>5, <1>6 DEF Share
    <2>3. ASSUME x.email = customer[d].email, x.email # NoEmail PROVE customer[c].email = x.email
      <3>1. CASE r.email = NoEmail
        BY <1>3, <2>1, <2>3, <3>1
      <3>2. CASE r.email # NoEmail
        <4>1. d \in ByEmail(r.email)
          BY <1>3, <2>2, <2>3, <3>2 DEF ByEmail
        <4>2. c \in ByEmail(r.email)
          BY <2>1, <4>1 DEF EmailPasses
        <4> QED
          BY <1>3, <3>2, <4>2 DEF ByEmail
      <3> QED
        BY <3>1, <3>2
    <2>4. ASSUME x.phone = customer[d].phone, x.phone # NoPhone PROVE customer[c].phone = x.phone
      <3>1. CASE r.phone = NoPhone
        BY <1>3, <2>1, <2>4, <3>1
      <3>2. CASE r.phone # NoPhone
        <4>1. d \in ByPhone(r.phone)
          BY <1>3, <2>2, <2>4, <3>2 DEF ByPhone
        <4>2. c \in ByPhone(r.phone)
          BY <2>1, <4>1 DEF PhonePasses
        <4> QED
          BY <1>3, <3>2, <4>2 DEF ByPhone
      <3> QED
        BY <3>1, <3>2
    <2> QED
      BY <2>1, <2>2, <2>3, <2>4 DEF Share
  <1>7. ASSUME NEW d \in Customers \ {c}, Share(c, d)' \/ Share(d, c)' PROVE x.late \/ customer[d].late
    <2>1. CASE r.overtaken
      BY <1>3, <2>1
    <2>2. CASE ~r.overtaken
      BY <1>1, <1>2, <1>3, <1>6, <1>7, <2>2 DEF CustomersDistinct
    <2> QED
      BY <2>1, <2>2
  <1>8. CustomersDistinct'
    <2>1. ASSUME NEW a \in Customers, NEW d \in Customers, a # d, Share(a, d)'
          PROVE  customer'[a].late \/ customer'[d].late
      <3>1. CASE a = c
        BY <1>5, <1>7, <2>1, <3>1
      <3>2. CASE d = c
        BY <1>5, <1>7, <2>1, <3>2
      <3>3. CASE a # c /\ d # c
        BY <1>1, <1>5, <2>1, <3>3 DEF CustomersDistinct, Share
      <3> QED
        BY <3>1, <3>2, <3>3
    <2> QED
      BY <2>1 DEF CustomersDistinct
  <1>9. \A d \in Customers : customer[d].state \in {"live", "gone"} => customer'[d].state \in {"live", "gone"}
    BY <1>3, <1>5
  <1>10. PICK D, T : D = {k} /\ T = {}
    OBVIOUS
  <1>10a. /\ desk' = [j \in Desks |-> IF j \in D THEN Vacant ELSE Old(desk[j])]
         /\ till' = [u \in Tills |-> IF u \in T THEN Closed ELSE Old(till[u])]
    BY <1>4, <1>10 DEF DeskWrote
  <1>11. BillsKept
    BY <1>1, <1>4, BillsUnchanged
  <1>12. billingCalls' \in 0..MaxBillingCalls
    BY <1>1, <1>4, CalledTyped
  <1> QED
    BY <1>5, <1>8, <1>9, <1>10a, <1>11, <1>12, Overtaken

\* The invoices of the customer lose it.
LEMMA DeleteCustomerKeeps ==
  ASSUME BillingInv, NEW c \in Customers, DeleteCustomer(c)
  PROVE  BillingInv'
  <1>1. /\ BillingType /\ CustomersDistinct /\ customer \in [Customers -> Customer]
        /\ bill \in Seq(Bill) /\ Len(bill) \in Nat /\ removed \in SUBSET Nat
    BY DEF BillingInv, NumbersInv, BillingType, CustomersInv
  <1>2. customer' = [customer EXCEPT ![c] = [customer[c] EXCEPT !.state = "gone"]] /\ Overtakes /\ Called
    BY DEF DeleteCustomer
  <1>3. [customer[c] EXCEPT !.state = "gone"] \in Customer /\ [customer[c] EXCEPT !.state = "gone"].state = "gone"
    BY <1>1 DEF Customer
  <1>4. /\ customer' \in [Customers -> Customer] /\ customer'[c].state = "gone"
        /\ \A d \in Customers \ {c} : customer'[d] = customer[d]
    BY <1>1, <1>2, <1>3
  <1>5. CustomersDistinct'
    BY <1>1, <1>4 DEF CustomersDistinct, Share
  <1>6. \A d \in Customers : customer[d].state \in {"live", "gone"} => customer'[d].state \in {"live", "gone"}
    BY <1>4
  <1>7. BillsKept
    <2>1. /\ bill' = [i \in 1..Len(bill) |-> IF bill[i].state = "live" /\ bill[i].customer = c
                                             THEN [bill[i] EXCEPT !.customer = NoCustomer] ELSE bill[i]]
          /\ removed' = removed
      BY DEF DeleteCustomer, Bills
    <2>2. \A i \in 1..Len(bill) : bill[i] \in Bill
      BY <1>1
    <2>3. \A i \in 1..Len(bill) : /\ [bill[i] EXCEPT !.customer = NoCustomer] \in Bill
                                  /\ [bill[i] EXCEPT !.customer = NoCustomer].number = bill[i].number
                                  /\ [bill[i] EXCEPT !.customer = NoCustomer].state = bill[i].state
      BY <2>2 DEF Bill
    <2>4. \A i \in 1..Len(bill) : /\ bill'[i] \in Bill /\ bill'[i].number = bill[i].number
                                  /\ bill'[i].state = bill[i].state
      BY <2>1, <2>2, <2>3
    <2>5. bill' \in Seq(Bill) /\ Len(bill') = Len(bill)
      BY <1>1, <2>1, <2>4
    <2> QED
      BY <1>1, <2>1, <2>4, <2>5 DEF BillsKept, Bills, Taken
  <1>8. PICK D, T : D = {} /\ T = {}
    OBVIOUS
  <1>9. /\ desk' = [j \in Desks |-> IF j \in D THEN Vacant ELSE Old(desk[j])]
        /\ till' = [u \in Tills |-> IF u \in T THEN Closed ELSE Old(till[u])]
    BY <1>2, <1>8 DEF Overtakes
  <1>10. billingCalls' \in 0..MaxBillingCalls
    BY <1>1, <1>2, CalledTyped
  <1> QED
    BY <1>4, <1>5, <1>6, <1>7, <1>9, <1>10, Overtaken

\* A till changes, and with it at most customers that no look-up sees.
LEMMA TillMove ==
  ASSUME BillingInv, NEW t \in Tills, NEW x \in Till, till' = [till EXCEPT ![t] = x], x.op # "insert",
         customer' \in [Customers -> Customer], LiveSame, BillsKept, UNCHANGED desk,
         \A c \in Customers : customer[c].state \in {"live", "gone"} => customer'[c].state \in {"live", "gone"},
         \A c \in Customers : customer'[c].state = "held" =>
             (customer'[c] = customer[c] \/ Free(customer'[c].email, customer'[c].phone)),
         \/ x.op = "none"
         \/ x.customer \in Customers => (customer'[x.customer].state = "held" =>
                                            Free(customer'[x.customer].email, customer'[x.customer].phone))
         \/ till[t].op # "none" /\ x.customer = till[t].customer /\ x.overtaken = till[t].overtaken,
         billingCalls' \in 0..MaxBillingCalls
  PROVE  BillingInv'
  <1>1. BillingType /\ NumbersInv /\ CustomersInv /\ till \in [Tills -> Till]
    BY DEF BillingInv, NumbersInv, BillingType
  <1>2. till' \in [Tills -> Till] /\ till'[t] = x /\ \A u \in Tills \ {t} : till'[u] = till[u]
    BY <1>1
  <1>3. BillingType'
    BY <1>1, <1>2 DEF BillingType, BillsKept
  <1>4. \A u \in Tills : till'[u].op = "insert" => till[u].op = "insert" /\ till'[u].number = till[u].number
    BY <1>2
  <1>5. NoneTwice' /\ BillsFollow' /\ TillsFollow'
    BY <1>1, <1>4, NumbersStay DEF BillsKept
  <1>6. \A u \in Tills : \/ till'[u].op = "none"
                         \/ till'[u].customer \in Customers =>
                               (customer'[till'[u].customer].state = "held" =>
                                   Free(customer'[till'[u].customer].email, customer'[till'[u].customer].phone))
                         \/ /\ till[u].op # "none" /\ till'[u].customer = till[u].customer
                            /\ till'[u].overtaken = till[u].overtaken
    <2>1. ASSUME NEW u \in Tills \ {t}, till[u].op = "none" PROVE till'[u].op = "none"
      BY <1>2, <2>1
    <2> QED
      BY <1>2, <2>1
  <1>7. CustomersInv'
    BY <1>1, <1>6, LookupStep
  <1> QED
    BY <1>3, <1>5, <1>7 DEF BillingInv, NumbersInv

LEMMA CustomersUnchanged ==
  ASSUME BillingType, UNCHANGED customer
  PROVE  /\ customer' \in [Customers -> Customer] /\ LiveSame
         /\ \A c \in Customers : customer[c].state \in {"live", "gone"} => customer'[c].state \in {"live", "gone"}
         /\ \A c \in Customers : customer'[c].state = "held" =>
               (customer'[c] = customer[c] \/ Free(customer'[c].email, customer'[c].phone))
  BY DEF BillingType, LiveSame

LEMMA ResolveKeeps ==
  ASSUME BillingInv, NEW t \in Tills, NEW c \in Customers \cup {NoCustomer}, Resolve(t, c)
  PROVE  BillingInv'
  <1>0. PICK x : x = [Closed EXCEPT !.op = "number", !.customer = c]
    OBVIOUS
  <1>1. x \in Till /\ x.op = "number" /\ x.customer = c
    BY <1>0 DEF Closed, Till
  <1>2. BillingType /\ till' = [till EXCEPT ![t] = x] /\ Called /\ UNCHANGED <<customer, bill, desk, removed>>
    BY <1>0 DEF Resolve, BillingInv, NumbersInv
  <1>3. c \in Customers => customer'[c].state # "held"
    BY <1>2, BillingConstants DEF Resolve
  <1>4. BillsKept /\ billingCalls' \in 0..MaxBillingCalls
    BY <1>2, BillsUnchanged, CalledTyped
  <1> QED
    BY <1>1, <1>2, <1>3, <1>4, CustomersUnchanged, TillMove

\* The customer that is made for the invoice is not seen before the commit.
LEMMA ResolveNewKeeps ==
  ASSUME BillingInv, NEW t \in Tills, NEW e \in SomeEmail, NEW p \in SomePhone, NEW c \in Customers,
         ResolveNew(t, e, p, c)
  PROVE  BillingInv'
  <1>0. PICK x, y : /\ x = [Closed EXCEPT !.op = "number", !.customer = c]
                    /\ y = [state |-> "held", email |-> e, phone |-> p, late |-> FALSE]
    OBVIOUS
  <1>1. x \in Till /\ x.op = "number" /\ x.customer = c
    BY <1>0 DEF Closed, Till
  <1>2. y \in Customer /\ y.state = "held" /\ y.email = e /\ y.phone = p
    BY <1>0 DEF Customer, SomeEmail, SomePhone
  <1>3. /\ BillingType /\ till' = [till EXCEPT ![t] = x] /\ customer' = [customer EXCEPT ![c] = y]
        /\ Called /\ UNCHANGED <<bill, desk, removed>> /\ customer[c].state = "none"
    BY <1>0 DEF ResolveNew, BillingInv, NumbersInv
  <1>4. /\ customer' \in [Customers -> Customer] /\ customer'[c] = y
        /\ \A d \in Customers \ {c} : customer'[d] = customer[d]
    BY <1>2, <1>3 DEF BillingType
  <1>5. Free(e, p)
    BY DEF ResolveNew, Found, Free
  <1>6. LiveSame
    BY <1>2, <1>3, <1>4 DEF LiveSame
  <1>7. /\ \A d \in Customers : customer[d].state \in {"live", "gone"} => customer'[d].state \in {"live", "gone"}
        /\ \A d \in Customers : customer'[d].state = "held" =>
              (customer'[d] = customer[d] \/ Free(customer'[d].email, customer'[d].phone))
    BY <1>2, <1>3, <1>4, <1>5
  <1>8. BillsKept /\ billingCalls' \in 0..MaxBillingCalls
    BY <1>3, BillsUnchanged, CalledTyped
  <1> QED
    BY <1>1, <1>2, <1>3, <1>4, <1>5, <1>6, <1>7, <1>8, TillMove

\* Numbering and inserting leave the customers alone.
LEMMA TillCustomerSame ==
  ASSUME BillingInv, NEW t \in Tills, UNCHANGED <<customer, desk>>, till[t].op # "none",
         \A u \in Tills \ {t} : till'[u] = till[u],
         till'[t].customer = till[t].customer, till'[t].overtaken = till[t].overtaken
  PROVE  CustomersInv'
  <1>1. CustomersInv /\ BillingType
    BY DEF BillingInv, NumbersInv
  <1>2. \A u \in Tills : \/ till'[u].op = "none"
                         \/ till'[u].customer \in Customers =>
                               (customer'[till'[u].customer].state = "held" =>
                                   Free(customer'[till'[u].customer].email, customer'[till'[u].customer].phone))
                         \/ /\ till[u].op # "none" /\ till'[u].customer = till[u].customer
                            /\ till'[u].overtaken = till[u].overtaken
    <2>1. ASSUME NEW u \in Tills \ {t}, till[u].op = "none" PROVE till'[u].op = "none"
      BY <2>1
    <2> QED
      BY <2>1
  <1> QED
    BY <1>1, <1>2, CustomersUnchanged, LookupStep

LEMMA NumberingKeeps ==
  ASSUME BillingInv, NEW t \in Tills, Number(t) \/ Insert(t)
  PROVE  BillingInv'
  <1>1. NumbersInv /\ BillingType /\ till \in [Tills -> Till] /\ till[t] \in Till
    BY DEF BillingInv, NumbersInv, BillingType
  <1>2. CASE Number(t)
    <2>1. NoneTwice' /\ BillsFollow' /\ TillsFollow' /\ till' \in [Tills -> Till]
      BY <1>1, <1>2, NumberKeeps
    <2>2. BillingType'
      BY <1>1, <1>2, <2>1 DEF Number, BillingType
    <2>3. CustomersInv'
      BY <1>1, <1>2, TillCustomerSame DEF Number, Till
    <2> QED
      BY <2>1, <2>2, <2>3 DEF BillingInv, NumbersInv
  <1>3. CASE Insert(t)
    <2>1. /\ NoneTwice' /\ BillsFollow' /\ TillsFollow'
          /\ till' \in [Tills -> Till] /\ bill' \in Seq(Bill) /\ Len(bill') <= MaxBills
      BY <1>1, <1>3, InsertKeeps
    <2>2. BillingType'
      BY <1>1, <1>3, <2>1 DEF Insert, BillingType
    <2>3. CustomersInv'
      BY <1>1, <1>3, TillCustomerSame DEF Insert, Till
    <2> QED
      BY <2>1, <2>2, <2>3 DEF BillingInv, NumbersInv
  <1> QED
    BY <1>2, <1>3

\* The invoices of a transaction that ends go from held to st.
LEMMA BillsEnd ==
  ASSUME BillingType, NEW M, M \subseteq Bills, \A i \in M : bill[i].state = "held", NEW st \in {"live", "gone"},
         bill' = [i \in Bills |-> IF i \in M THEN [bill[i] EXCEPT !.state = st] ELSE bill[i]], removed' = removed
  PROVE  BillsKept
  <1>1. bill \in Seq(Bill) /\ Len(bill) \in Nat /\ removed \in SUBSET Nat
    BY DEF BillingType
  <1>2. \A i \in 1..Len(bill) : bill[i] \in Bill
    BY <1>1
  <1>3. \A i \in 1..Len(bill) : /\ [bill[i] EXCEPT !.state = st] \in Bill
                                /\ [bill[i] EXCEPT !.state = st].number = bill[i].number
                                /\ [bill[i] EXCEPT !.state = st].state = st
    BY <1>2 DEF Bill
  <1>4. \A i \in 1..Len(bill) : /\ bill'[i] \in Bill /\ bill'[i].number = bill[i].number
                                /\ bill'[i].state = IF i \in M THEN st ELSE bill[i].state
    BY <1>2, <1>3 DEF Bills
  <1>5. bill' \in Seq(Bill) /\ Len(bill') = Len(bill)
    BY <1>1, <1>4 DEF Bills
  <1>6. ASSUME NEW i \in Bills
        PROVE  /\ bill'[i].number = bill[i].number
               /\ bill'[i].state \in {"held", "live"} => Taken(i)
               /\ bill[i].state = "live" => (bill'[i].state = "live" \/ bill[i].number \in removed')
    <2>1. i \in 1..Len(bill)
      BY DEF Bills
    <2>2. CASE i \in M
      BY <1>4, <2>1, <2>2 DEF Taken
    <2>3. CASE i \notin M
      BY <1>4, <2>1, <2>3 DEF Taken
    <2> QED
      BY <2>2, <2>3
  <1> QED
    BY <1>1, <1>5, <1>6 DEF BillsKept

\* The customer that was made for the invoice shares nothing with those that the
\* look-up saw, as long as no other request has written a customer since.
LEMMA CommitKeeps ==
  ASSUME BillingInv, NEW t \in Tills, Commit(t)
  PROVE  BillingInv'
  <1>0. PICK r, c, M : r = till[t] /\ c = r.customer /\ M = Mine(t)
    OBVIOUS
  <1>1. /\ BillingType /\ CustomersDistinct /\ r \in Till /\ TillFit(r) /\ r.op = "commit"
        /\ customer \in [Customers -> Customer]
        /\ c \in Customers \cup {NoCustomer}
    BY <1>0 DEF BillingInv, NumbersInv, BillingType, CustomersInv, Commit, Till
  <1>2. M \subseteq Bills /\ (\A i \in M : bill[i].state = "held")
    BY <1>0 DEF Mine
  <1>3. /\ bill' = [i \in Bills |-> IF i \in M THEN [bill[i] EXCEPT !.state = "live"] ELSE bill[i]]
        /\ removed' = removed /\ billingCalls' = billingCalls
    BY <1>0 DEF Commit
  <1>4. BillsKept
    BY <1>1, <1>2, <1>3, BillsEnd
  <1>5. billingCalls' \in 0..MaxBillingCalls
    BY <1>1, <1>3, CalledTyped
  <1>6. CASE ~(c # NoCustomer /\ customer[c].state = "held")
    <2>1. till' = [till EXCEPT ![t] = Closed] /\ UNCHANGED <<customer, desk>>
      BY <1>0, <1>6 DEF Commit
    <2>2. Closed \in Till /\ Closed.op = "none"
      BY VacantFits DEF Closed
    <2> QED
      BY <1>1, <1>4, <1>5, <2>1, <2>2, CustomersUnchanged, TillMove
  <1>7. CASE c # NoCustomer /\ customer[c].state = "held"
    <2>0. PICK x : x = [customer[c] EXCEPT !.state = "live", !.late = r.overtaken]
      OBVIOUS
    <2>1. c \in Customers
      BY <1>1, <1>7
    <2>2. /\ x \in Customer /\ x.state = "live" /\ x.late = r.overtaken
          /\ x.email = customer[c].email /\ x.phone = customer[c].phone
      BY <1>1, <2>0, <2>1 DEF Customer, Till
    <2>3. TillWrote(t) /\ customer' = [customer EXCEPT ![c].state = "live", ![c].late = r.overtaken]
      BY <1>0, <1>7 DEF Commit
    <2>4. /\ customer' \in [Customers -> Customer] /\ customer'[c] = x
          /\ \A d \in Customers \ {c} : customer'[d] = customer[d]
      BY <1>1, <2>0, <2>1, <2>2, <2>3
    <2>5. ASSUME NEW d \in Customers \ {c}, Share(c, d)' \/ Share(d, c)' PROVE x.late \/ customer[d].late
      <3>1. CASE r.overtaken
        BY <2>2, <3>1
      <3>2. CASE ~r.overtaken
        <4>1. ByEmail(x.email) = {} /\ ByPhone(x.phone) = {}
          BY <1>0, <1>1, <1>7, <2>1, <2>2, <3>2 DEF TillFit, Free
        <4>2. d \in ByEmail(x.email) \/ d \in ByPhone(x.phone)
          BY <2>4, <2>5 DEF Share, ByEmail, ByPhone
        <4> QED
          BY <4>1, <4>2
      <3> QED
        BY <3>1, <3>2
    <2>6. CustomersDistinct'
      <3>1. ASSUME NEW a \in Customers, NEW d \in Customers, a # d, Share(a, d)'
            PROVE  customer'[a].late \/ customer'[d].late
        <4>1. CASE a = c
          BY <2>4, <2>5, <3>1, <4>1
        <4>2. CASE d = c
          BY <2>4, <2>5, <3>1, <4>2
        <4>3. CASE a # c /\ d # c
          BY <1>1, <2>4, <3>1, <4>3 DEF CustomersDistinct, Share
        <4> QED
          BY <4>1, <4>2, <4>3
      <3> QED
        BY <3>1 DEF CustomersDistinct
    <2>7. \A d \in Customers : customer[d].state \in {"live", "gone"} => customer'[d].state \in {"live", "gone"}
      BY <1>7, <2>2, <2>4
    <2>8. PICK D, T : D = {} /\ T = {t}
      OBVIOUS
    <2>9. /\ desk' = [j \in Desks |-> IF j \in D THEN Vacant ELSE Old(desk[j])]
          /\ till' = [u \in Tills |-> IF u \in T THEN Closed ELSE Old(till[u])]
      BY <2>3, <2>8 DEF TillWrote
    <2> QED
      BY <1>4, <1>5, <2>4, <2>6, <2>7, <2>9, Overtaken
  <1> QED
    BY <1>6, <1>7

LEMMA RollbackKeeps ==
  ASSUME BillingInv, NEW t \in Tills, Rollback(t)
  PROVE  BillingInv'
  <1>0. PICK c, M : c = till[t].customer /\ M = IF till[t].op = "commit" THEN Mine(t) ELSE {}
    OBVIOUS
  <1>1. BillingType /\ customer \in [Customers -> Customer]
    BY DEF BillingInv, NumbersInv, BillingType
  <1>2. M \subseteq Bills /\ (\A i \in M : bill[i].state = "held")
    BY <1>0 DEF Mine
  <1>3. /\ bill' = [i \in Bills |-> IF i \in M THEN [bill[i] EXCEPT !.state = "gone"] ELSE bill[i]]
        /\ UNCHANGED <<removed, billingCalls, desk>> /\ till' = [till EXCEPT ![t] = Closed]
        /\ customer' = [d \in Customers |-> IF d = c /\ customer[d].state = "held"
                                            THEN [customer[d] EXCEPT !.state = "gone"] ELSE customer[d]]
    BY <1>0 DEF Rollback
  <1>4. BillsKept
    BY <1>1, <1>2, <1>3, BillsEnd
  <1>5. billingCalls' \in 0..MaxBillingCalls
    BY <1>1, <1>3, CalledTyped
  <1>6. \A d \in Customers : /\ customer'[d] \in Customer
                             /\ IF d = c /\ customer[d].state = "held" THEN customer'[d].state = "gone"
                                ELSE customer'[d] = customer[d]
    BY <1>1, <1>3 DEF Customer
  <1>7. customer' \in [Customers -> Customer]
    BY <1>3, <1>6
  <1>8. LiveSame
    BY <1>6 DEF LiveSame
  <1>9. /\ \A d \in Customers : customer[d].state \in {"live", "gone"} => customer'[d].state \in {"live", "gone"}
        /\ \A d \in Customers : customer'[d].state = "held" =>
              (customer'[d] = customer[d] \/ Free(customer'[d].email, customer'[d].phone))
    BY <1>6
  <1>10. Closed \in Till /\ Closed.op = "none"
    BY VacantFits DEF Closed
  <1> QED
    BY <1>3, <1>4, <1>5, <1>7, <1>8, <1>9, <1>10, TillMove

\* The number of a deleted invoice is remembered.
LEMMA DeleteBillKeeps ==
  ASSUME BillingInv, NEW i \in Bills, DeleteBill(i)
  PROVE  BillingInv'
  <1>1. /\ BillingType /\ NumbersInv /\ CustomersInv /\ bill \in Seq(Bill) /\ Len(bill) \in Nat
        /\ i \in 1..Len(bill) /\ bill[i] \in Bill
    BY DEF BillingInv, NumbersInv, BillingType, Bills
  <1>2. /\ Called /\ UNCHANGED <<customer, desk, till>>
        /\ bill' = [bill EXCEPT ![i] = [bill[i] EXCEPT !.state = "gone"]]
        /\ removed' = removed \cup {bill[i].number}
    BY DEF DeleteBill
  <1>3. /\ [bill[i] EXCEPT !.state = "gone"] \in Bill /\ [bill[i] EXCEPT !.state = "gone"].state = "gone"
        /\ [bill[i] EXCEPT !.state = "gone"].number = bill[i].number /\ bill[i].number \in Nat
    BY <1>1 DEF Bill
  <1>4. /\ bill' \in Seq(Bill) /\ Len(bill') = Len(bill)
        /\ bill'[i] = [bill[i] EXCEPT !.state = "gone"]
        /\ \A j \in Bills \ {i} : bill'[j] = bill[j]
    BY <1>1, <1>2, <1>3 DEF Bills
  <1>5. BillsKept
    BY <1>1, <1>2, <1>3, <1>4 DEF BillsKept, BillingType, Taken
  <1>6. NoneTwice' /\ BillsFollow' /\ TillsFollow'
    BY <1>1, <1>2, <1>5, NumbersStay DEF BillsKept
  <1>7. BillingType'
    BY <1>1, <1>2, <1>5, CalledTyped DEF BillsKept, BillingType
  <1>8. CustomersInv'
    BY <1>2 DEF BillingInv, CustomersInv, CustomersDistinct, Share, DeskFit, TillFit, EmailPasses, PhonePasses,
                Free, ByEmail, ByPhone
  <1> QED
    BY <1>6, <1>7, <1>8 DEF BillingInv, NumbersInv
-----------------------------------------------------------------------------
LEMMA BillingInvInit ==
  ASSUME BillingInit
  PROVE  BillingInv
  <1>1. bill = <<>> /\ Bills = {} /\ Len(bill) = 0
    BY DEF BillingInit, Bills
  <1>2. BillingType
    BY <1>1, VacantFits, BillingConstants DEF BillingInit, BillingType, NoCustomerRow, Customer
  <1>3. NoneTwice /\ BillsFollow /\ TillsFollow
    BY <1>1 DEF BillingInit, NoneTwice, BillsFollow, TillsFollow, Closed
  <1>4. CustomersInv
    BY VacantFits DEF BillingInit, CustomersInv, CustomersDistinct, Share, NoCustomerRow, TillFit, Closed
  <1> QED
    BY <1>2, <1>3, <1>4 DEF BillingInv, NumbersInv

LEMMA BillingInvStep ==
  ASSUME BillingInv, [BillingNext]_billingVars
  PROVE  BillingInv'
  <1>1. ASSUME NEW k \in Desks, create_customer(k) \/ update_customer(k) \/ DeskEnds(k) PROVE BillingInv'
    BY <1>1, DeskKeeps, CreateInsertKeeps, CustomerSaveKeeps DEF create_customer, update_customer
  <1>2. ASSUME NEW t \in Tills, create_invoice(t) PROVE BillingInv'
    <2>1. ASSUME NEW e \in SomeEmail, NEW p \in SomePhone, ResolveContact(t, e, p) PROVE BillingInv'
      BY <2>1, ResolveKeeps DEF ResolveContact, Found, ByEmail, ByPhone
    <2> QED
      BY <1>2, <2>1, ResolveKeeps, ResolveNewKeeps, NumberingKeeps, CommitKeeps, RollbackKeeps
         DEF create_invoice
  <1>3. CASE destroy_customer
    BY <1>3, DeleteCustomerKeeps DEF destroy_customer
  <1>4. CASE delete_invoice
    BY <1>4, DeleteBillKeeps DEF delete_invoice
  <1>5. CASE UNCHANGED billingVars
    <2>1. UNCHANGED <<customer, bill, desk, till, removed, billingCalls>>
      BY <1>5 DEF billingVars
    <2>2. BillingType' /\ NoneTwice' /\ BillsFollow' /\ TillsFollow'
      BY <2>1 DEF BillingInv, NumbersInv, BillingType, NoneTwice, BillsFollow, TillsFollow, Taken, Used,
         Numbers, Bills
    <2>3. CustomersInv'
      BY <2>1 DEF BillingInv, CustomersInv, CustomersDistinct, Share, DeskFit, TillFit, EmailPasses,
         PhonePasses,
                  Free, ByEmail, ByPhone
    <2> QED
      BY <2>2, <2>3 DEF BillingInv, NumbersInv
  <1> QED
    BY <1>1, <1>2, <1>3, <1>4, <1>5 DEF BillingNext

LEMMA BillingInvariant == BillingSpec => []BillingInv
  <1>1. BillingInit => BillingInv
    BY BillingInvInit
  <1>2. BillingInv /\ [BillingNext]_billingVars => BillingInv'
    BY BillingInvStep
  <1> QED
    BY <1>1, <1>2, PTL DEF BillingSpec

\* No number twice, and none left out but those of invoices that were deleted,
\* however many tills create invoices at once and however many transactions are
\* rolled back (sales_repositories.py:165).
THEOREM InvoiceNumbersExact == BillingSpec => []NumbersExact
  <1>1. ASSUME BillingInv PROVE NumbersExact
    <2>1. \A i, j \in Bills : (i # j /\ bill[i].state = "live" /\ bill[j].state = "live")
                                 => bill[i].number # bill[j].number
      BY <1>1 DEF BillingInv, NumbersInv, NoneTwice, Taken
    <2>2. ASSUME NEW i \in Bills, bill[i].state = "live" PROVE 1..bill[i].number \subseteq Numbers \cup removed
      <3>1. bill[i].number \in Nat
        <4>1. bill \in Seq(Bill) /\ i \in 1..Len(bill)
          BY <1>1 DEF BillingInv, NumbersInv, BillingType, Bills
        <4>2. bill[i] \in Bill
          BY <4>1
        <4> QED
          BY <4>2 DEF Bill
      <3>2. 1..(bill[i].number - 1) \subseteq Numbers \cup removed
        BY <1>1, <2>2 DEF BillingInv, NumbersInv, BillsFollow, Taken, Used
      <3>3. bill[i].number \in Numbers
        BY <2>2 DEF Numbers
      <3> QED
        BY <3>1, <3>2, <3>3
    <2> QED
      BY <2>1, <2>2 DEF NumbersExact
  <1> QED
    BY <1>1, BillingInvariant, PTL

\* Two customers share an e-mail or a telephone number only when one of them was
\* written by a request that another one overtook after its look-up, whatever the
\* number of requests (customer_use_cases.py:47, sales_use_cases.py:355).
THEOREM CustomersAreDistinct == BillingSpec => []CustomersDistinct
  <1>1. BillingInv => CustomersDistinct
    BY DEF BillingInv, CustomersInv
  <1> QED
    BY <1>1, BillingInvariant, PTL
-----------------------------------------------------------------------------
(* Notifications. *)

\* What a run that saw S may notify of item: all it saw of it is too old, or too
\* far back to be looked at.
Overlooked(S, item, now) == \A i \in S :
    (notes[i].item = item /\ notes[i].at >= now - Recency) => Cardinality({k \in S : k > i}) >= Limit

\* A run between the owner and the managers belongs to a row of the owner, which
\* is in the transaction of the run, if it has one.
Telling(r) == run[r].op \in {"managers", "each"}
RunFits(r) ==
    /\ run[r].own \subseteq Rows /\ (run[r].op = "owner" => run[r].saw \subseteq Rows)
    /\ run[r].op = "owner" => Overlooked(run[r].saw, run[r].item, hour)
    /\ (run[r].op = "owner" \/ Telling(r)) => run[r].item \in Items
    /\ run[r].op = "tx" => run[r].tx
    /\ ~run[r].tx => run[r].own = {}
    /\ Telling(r) => /\ run[r].head \in Rows /\ notes[run[r].head].to = Boss
                     /\ notes[run[r].head].state = IF run[r].tx THEN "held" ELSE "there"
                     /\ run[r].tx => run[r].head \in run[r].own
RunsInv == /\ \A r \in Runs : RunFits(r)
           /\ \A r, s \in Runs : r # s => run[r].own \cap run[s].own = {}

RowFits(k) == LET h == notes[k].head IN
    /\ h \in Rows /\ notes[h].to = Boss /\ notes[k].state = notes[h].state
    /\ notes[k].to = Boss => h = k
    /\ notes[k].due \subseteq managers
    /\ notes[k].mail = "sent" => notes[k].state = "there"
    /\ k \in Owners => notes[k].saw \subseteq Rows /\ Overlooked(notes[k].saw, notes[k].item, notes[k].at)
RowsInv == \A k \in Rows : RowFits(k)

\* Whom the run of row i was to tell is told, or will be.
Told(i, m) == \/ \E k \in Rows : notes[k].head = i /\ notes[k].to = m
              \/ \E r \in Runs : Telling(r) /\ run[r].head = i /\ (run[r].op = "each" => m \in run[r].list)
ToldInv == \A i \in Owners : notes[i].state # "void" => \A m \in notes[i].due : Told(i, m)

NotesInv == NotesType /\ RunsInv /\ RowsInv /\ ToldInv
-----------------------------------------------------------------------------
LEMMA Bounds ==
  /\ MaxHour \in Nat /\ MaxRuns \in Nat /\ MaxNotes \in Nat /\ MaxReads \in Nat /\ Recency \in Nat
  /\ Limit \in Nat \ {0} /\ Boss \notin Team /\ NoItem \notin Items /\ MaxNotes > 0
  <1>1. \A x \in {MaxHour, MaxRuns, MaxNotes, MaxReads} : x \in Nat
    BY NotificationsConstants, Zenon
  <1> QED
    BY <1>1, NotificationsConstants

LEMMA RowsTyped ==
  ASSUME NotesInv
  PROVE  /\ Len(notes) \in Nat /\ Rows \subseteq 1..MaxNotes /\ Owners \subseteq Rows
         /\ \A i \in Rows : notes[i] \in Note
         /\ \A r \in Runs : run[r] \in Run
         /\ hour \in Int /\ hour \in Nat
  <1>1. notes \in Seq(Note) /\ Len(notes) <= MaxNotes /\ run \in [Runs -> Run] /\ hour \in 0..MaxHour
    BY DEF NotesInv, NotesType
  <1>2. Len(notes) \in Nat /\ \A i \in 1..Len(notes) : notes[i] \in Note
    BY <1>1
  <1>3. Rows \subseteq 1..MaxNotes
    BY <1>1, <1>2, Bounds DEF Rows
  <1>4. hour \in Nat /\ hour \in Int
    BY <1>1, Bounds
  <1>5. \A i \in Rows : notes[i] \in Note
    BY <1>2 DEF Rows
  <1>6. Owners \subseteq Rows
    BY DEF Owners
  <1>7. \A r \in Runs : run[r] \in Run
    BY <1>1
  <1> QED
    BY <1>2, <1>3, <1>4, <1>5, <1>6, <1>7

LEMMA AtTyped ==
  ASSUME NEW x \in Note
  PROVE  x.at \in Nat
  <1>1. x.at \in 0..MaxHour
    BY DEF Note
  <1> QED
    BY <1>1, Bounds

\* Rows keep whom and what they tell, and when; none is lost.
Kept(i) == /\ notes'[i].to = notes[i].to /\ notes'[i].item = notes[i].item /\ notes'[i].at = notes[i].at
           /\ notes'[i].head = notes[i].head /\ notes'[i].saw = notes[i].saw
NotesKept == Len(notes') = Len(notes) /\ \A i \in Rows : Kept(i) /\ notes'[i] \in Note

LEMMA OverlookedKept ==
  ASSUME NotesInv, NEW S, S \subseteq Rows, \A i \in Rows : Kept(i),
         NEW item, NEW now \in Nat, NEW later \in Nat, now <= later, Overlooked(S, item, now)
  PROVE  Overlooked(S, item, later)'
  <1> SUFFICES ASSUME NEW i \in S, notes'[i].item = item, notes'[i].at >= later - Recency
               PROVE  Cardinality({k \in S : k > i}) >= Limit
    BY DEF Overlooked
  <1>1. i \in Rows /\ notes[i].item = item /\ notes[i].at >= later - Recency
    BY DEF Kept
  <1>2. notes[i] \in Note
    BY <1>1, RowsTyped
  <1>4. notes[i].at \in Nat
    BY <1>2, AtTyped
  <1>3. notes[i].at >= now - Recency
    BY <1>1, <1>4, Bounds
  <1> QED
    BY <1>1, <1>3 DEF Overlooked

\* A run that a step leaves alone still fits.
LEMMA RunKept ==
  ASSUME NotesInv, NEW r \in Runs, run'[r] = run[r], \A i \in Rows : Kept(i) /\ i \in Rows',
         Telling(r) => notes'[run[r].head].state = notes[run[r].head].state,
         hour' \in Nat, hour <= hour'
  PROVE  RunFits(r)'
  <1>1. RunFits(r)
    BY DEF NotesInv, RunsInv
  <1>2. PICK now \in Nat : now = hour
    BY RowsTyped
  <1>3. PICK later \in Nat : later = hour'
    OBVIOUS
  <1>4. PICK S, item : S = run[r].saw /\ item = run[r].item
    OBVIOUS
  <1>5. run[r].op = "owner" => Overlooked(S, item, later)'
    <2>1. now <= later
      BY <1>2, <1>3
    <2>2. run[r].op = "owner" => S \subseteq Rows /\ Overlooked(S, item, now)
      BY <1>1, <1>2, <1>4 DEF RunFits
    <2> QED
      BY <2>1, <2>2, OverlookedKept
  <1>6. run[r].op = "owner" => Overlooked(run[r].saw, run[r].item, hour)'
    BY <1>1, <1>3, <1>4, <1>5 DEF Overlooked
  <1>7. Telling(r) => run[r].head \in Rows /\ notes'[run[r].head].to = notes[run[r].head].to
    BY <1>1 DEF RunFits, Kept
  <1> QED
    BY <1>1, <1>6, <1>7 DEF RunFits, Telling

\* So does a row.
LEMMA RowKept ==
  ASSUME NotesInv, NEW k \in Rows, \A i \in Rows : Kept(i) /\ i \in Rows',
         notes'[k].state = notes'[notes[k].head].state,
         notes'[k].mail = "sent" => notes'[k].state = "there", notes'[k].due \subseteq managers'
  PROVE  RowFits(k)'
  <1>1. RowFits(k) /\ Kept(k)
    BY DEF NotesInv, RowsInv
  <1>2. notes[k].head \in Rows /\ Kept(notes[k].head)
    BY <1>1 DEF RowFits
  <1>3. notes[k] \in Note
    BY RowsTyped
  <1>4. PICK t \in Nat : t = notes[k].at
    BY <1>3, AtTyped
  <1>5. PICK S, item : S = notes[k].saw /\ item = notes[k].item
    OBVIOUS
  <1>6. k \in Owners => S \subseteq Rows /\ Overlooked(S, item, t)
    BY <1>1, <1>4, <1>5 DEF RowFits
  <1>7. k \in Owners => Overlooked(S, item, t)'
    <2>1. t <= t
      BY <1>4
    <2> QED
      BY <1>6, <2>1, OverlookedKept
  <1>8. S = notes'[k].saw /\ item = notes'[k].item /\ t = notes'[k].at
    BY <1>1, <1>4, <1>5 DEF Kept
  <1>9. k \in Owners' => k \in Owners
    BY <1>1 DEF Owners, Kept
  <1>10. k \in Owners' => notes'[k].saw \subseteq Rows' /\ Overlooked(notes[k].saw, notes[k].item, notes[k].at)'
    BY <1>6, <1>7, <1>8, <1>9 DEF Overlooked
  <1> QED
    BY <1>1, <1>2, <1>10 DEF RowFits, Kept

\* Runs and the states of the rows stay.
LEMMA QuietKeeps ==
  ASSUME NotesInv, NotesType', NotesKept, UNCHANGED run, hour' \in Nat, hour <= hour',
         \A i \in Rows : /\ notes'[i].state = notes[i].state
                         /\ notes'[i].mail = "sent" => (notes[i].mail = "sent" \/ notes[i].state = "there")
                         /\ notes'[i].due \subseteq notes[i].due /\ notes'[i].due \subseteq managers'
  PROVE  NotesInv'
  <1>1. Rows' = Rows /\ Owners' = Owners
    BY DEF NotesKept, Kept, Rows, Owners
  <1>2. \A i \in Rows : Kept(i) /\ i \in Rows'
    BY <1>1 DEF NotesKept
  <1>3. RunsInv'
    <2>1. ASSUME NEW r \in Runs PROVE RunFits(r)'
      <3>1. Telling(r) => notes'[run[r].head].state = notes[run[r].head].state
        BY DEF NotesInv, RunsInv, RunFits
      <3> QED
        BY <1>2, <3>1, RunKept
    <2> QED
      BY <2>1 DEF NotesInv, RunsInv
  <1>4. RowsInv'
    <2>1. ASSUME NEW k \in Rows PROVE RowFits(k)'
      <3>1. /\ notes[k].head \in Rows /\ notes[k].state = notes[notes[k].head].state
            /\ notes[k].mail = "sent" => notes[k].state = "there"
        BY DEF NotesInv, RowsInv, RowFits
      <3> QED
        BY <1>2, <3>1, RowKept
    <2> QED
      BY <1>1, <2>1 DEF RowsInv
  <1>5. ToldInv'
    <2> SUFFICES ASSUME NEW i \in Owners, notes'[i].state # "void", NEW m \in notes'[i].due
                 PROVE  Told(i, m)'
      BY <1>1 DEF ToldInv
    <2>1. i \in Rows /\ notes[i].state # "void" /\ m \in notes[i].due
      BY DEF Owners
    <2>2. Told(i, m)
      BY <2>1 DEF NotesInv, ToldInv
    <2> QED
      BY <1>1, <2>2 DEF Told, Telling, NotesKept, Kept
  <1> QED
    BY <1>3, <1>4, <1>5 DEF NotesInv
-----------------------------------------------------------------------------
(* What goes on beside the runs. *)

\* A row of which one field is written.
WithStatus(x, s) == [x EXCEPT !.status = s]
WithMail(x, s) == [x EXCEPT !.mail = s]
WithDue(x, s) == [x EXCEPT !.due = s]
WithState(x, s) == [x EXCEPT !.state = s]
Alike(x, y) == /\ y \in Note /\ y.to = x.to /\ y.item = x.item /\ y.at = x.at
               /\ y.head = x.head /\ y.saw = x.saw

LEMMA StatusTyped ==
  ASSUME NEW x \in Note, NEW s \in {"UNREAD", "READ", "ARCHIVED"}
  PROVE  /\ Alike(x, WithStatus(x, s)) /\ WithStatus(x, s).state = x.state
         /\ WithStatus(x, s).mail = x.mail /\ WithStatus(x, s).due = x.due
  BY DEF Note, Alike, WithStatus

LEMMA MailTyped ==
  ASSUME NEW x \in Note, NEW s \in {"sent", "unsent"}
  PROVE  /\ Alike(x, WithMail(x, s)) /\ WithMail(x, s).state = x.state
         /\ WithMail(x, s).mail = s /\ WithMail(x, s).due = x.due
  BY DEF Note, Alike, WithMail

LEMMA DueTyped ==
  ASSUME NEW x \in Note, NEW s \in SUBSET Team
  PROVE  /\ Alike(x, WithDue(x, s)) /\ WithDue(x, s).state = x.state
         /\ WithDue(x, s).mail = x.mail /\ WithDue(x, s).due = s
  BY DEF Note, Alike, WithDue

LEMMA StateTyped ==
  ASSUME NEW x \in Note, NEW s \in {"there", "void"}
  PROVE  /\ Alike(x, WithState(x, s)) /\ WithState(x, s).state = s
         /\ WithState(x, s).mail = x.mail /\ WithState(x, s).due = x.due
  BY DEF Note, Alike, WithState

LEMMA RowWritten ==
  ASSUME notes \in Seq(Note), NEW n, NEW x, notes' = [notes EXCEPT ![n] = x],
         \A i \in 1..Len(notes) : notes'[i] \in Note
  PROVE  notes' \in Seq(Note) /\ Len(notes') = Len(notes)
  <1>1. Len(notes) \in Nat /\ DOMAIN notes = 1..Len(notes)
    OBVIOUS
  <1>2. notes' \in [1..Len(notes) -> Note]
    BY <1>1
  <1> QED
    BY <1>1, <1>2

LEMMA SameRows ==
  ASSUME NotesInv, UNCHANGED notes
  PROVE  /\ NotesKept /\ notes' \in Seq(Note) /\ Len(notes') <= MaxNotes
         /\ \A i \in Rows : notes'[i] = notes[i] /\ notes[i].due \subseteq managers
  BY RowsTyped DEF NotesInv, NotesType, NotesKept, Kept, RowsInv, RowFits

LEMMA ReadersKeep ==
  ASSUME NotesInv, NEW q \in Readers,
         \/ \E i \in Rows, op \in {"read", "archive"} : ReadNote(q, i, op)
         \/ \E u \in People : CountUnread(q, u)
  PROVE  NotesInv'
  <1>1. /\ UNCHANGED <<type, hour, managers, notes, run, runs>> /\ reads' = reads - 1 /\ reads > 0
        /\ reads \in 0..MaxReads /\ reader \in [Readers -> Reader]
    BY DEF ReadNote, CountUnread, NotesInv, NotesType
  <1>2. reads' \in 0..MaxReads
    BY <1>1, Bounds
  <1>3. Absent \in Reader
    BY Bounds DEF Absent, Reader, People
  <1>4. reader' \in [Readers -> Reader]
    <2>1. ASSUME NEW i \in Rows, NEW op \in {"read", "archive"}, ReadNote(q, i, op)
          PROVE  reader' \in [Readers -> Reader]
      <3>1. i \in 0..MaxNotes
        BY RowsTyped
      <3>2. [Absent EXCEPT !.op = op, !.note = i] \in Reader
        BY <1>3, <3>1 DEF Reader
      <3> QED
        BY <1>1, <2>1, <3>2 DEF ReadNote
    <2>2. ASSUME NEW u \in People, CountUnread(q, u)
          PROVE  reader' \in [Readers -> Reader]
      <3>1. [Absent EXCEPT !.op = "all", !.by = u] \in Reader
        BY <1>3 DEF Reader
      <3> QED
        BY <1>1, <2>2, <3>1 DEF CountUnread
    <2> QED
      BY <2>1, <2>2
  <1>5. NotesType'
    BY <1>1, <1>2, <1>4, SameRows DEF NotesInv, NotesType
  <1>6. hour' \in Nat /\ hour <= hour'
    BY <1>1, RowsTyped
  <1> QED
    BY <1>1, <1>5, <1>6, SameRows, QuietKeeps

\* A statement that writes the rows of a set, in a field other than their state.
WritesOne(i) == /\ Kept(i) /\ notes'[i].state = notes[i].state
                /\ notes'[i].mail = "sent" => (notes[i].mail = "sent" \/ notes[i].state = "there")
                /\ notes'[i].due \subseteq notes[i].due /\ notes'[i].due \subseteq managers'
Writes == /\ UNCHANGED <<type, run, runs>> /\ hour' \in 0..MaxHour /\ hour <= hour'
          /\ managers' \subseteq managers /\ reader' \in [Readers -> Reader] /\ reads' \in 0..MaxReads
          /\ notes' \in Seq(Note) /\ Len(notes') = Len(notes)
LEMMA WriteKeeps ==
  ASSUME NotesInv, Writes, \A i \in Rows : WritesOne(i)
  PROVE  NotesInv'
  <1>1. \A i \in Rows : notes'[i] \in Note
    BY DEF Rows, Writes
  <1>2. hour' \in Nat
    BY Bounds DEF Writes
  <1>3. NotesType'
    BY RowsTyped DEF NotesInv, NotesType, Writes
  <1> QED
    BY <1>1, <1>2, <1>3, QuietKeeps DEF NotesKept, Writes, WritesOne

LEMMA AbsentTyped == Absent \in Reader
  BY Bounds DEF Absent, Reader, People

LEMMA WriteStatusKeeps ==
  ASSUME NotesInv, NEW q \in Readers, NEW op, NEW status \in {"READ", "ARCHIVED"}, WriteStatus(q, op, status)
  PROVE  NotesInv'
  <1> PICK n : n = reader[q].note
    OBVIOUS
  <1>1. /\ notes' = [notes EXCEPT ![n] = WithStatus(notes[n], status)]
        /\ reader' = [reader EXCEPT ![q] = Absent] /\ UNCHANGED <<type, hour, managers, run, runs, reads>>
    BY DEF WriteStatus, WithStatus
  <1>2. \A i \in Rows : notes[i] \in Note
    BY RowsTyped
  <1>3. ASSUME NEW i \in Rows
        PROVE  /\ notes'[i] \in Note /\ Kept(i) /\ notes'[i].state = notes[i].state
               /\ notes'[i].mail = notes[i].mail /\ notes'[i].due = notes[i].due
    <2>1. i \in 1..Len(notes) /\ notes \in Seq(Note)
      BY DEF Rows, NotesInv, NotesType
    <2>2. PICK x \in Note : x = notes[i]
      BY <1>2
    <2>3. CASE n = i
      <3>1. notes'[i] = WithStatus(x, status)
        BY <1>1, <2>1, <2>2, <2>3
      <3> QED
        BY <2>2, <3>1, StatusTyped DEF Kept, Alike
    <2>4. CASE n # i
      BY <1>1, <1>2, <2>1, <2>4 DEF Kept
    <2> QED
      BY <2>3, <2>4
  <1>4. notes' \in Seq(Note) /\ Len(notes') = Len(notes)
    <2>1. notes \in Seq(Note) /\ Len(notes) \in Nat /\ \A i \in 1..Len(notes) : notes'[i] \in Note
      BY <1>3 DEF NotesInv, NotesType, Rows
    <2> QED
      BY <1>1, <2>1, RowWritten
  <1>5. /\ hour' \in 0..MaxHour /\ hour <= hour' /\ reads' \in 0..MaxReads /\ reader' \in [Readers -> Reader]
        /\ managers' = managers
    BY <1>1, RowsTyped, AbsentTyped DEF NotesInv, NotesType
  <1>6. \A i \in Rows : notes[i].due \subseteq managers
    BY DEF NotesInv, RowsInv, RowFits
  <1>7. Writes
    BY <1>1, <1>4, <1>5 DEF Writes
  <1>8. \A i \in Rows : WritesOne(i)
    BY <1>3, <1>5, <1>6 DEF WritesOne
  <1> QED
    BY <1>7, <1>8, WriteKeeps

LEMMA MarkAllKeeps ==
  ASSUME NotesInv, NEW q \in Readers, MarkAll(q)
  PROVE  NotesInv'
  <1>1. /\ notes' = [i \in Rows |-> IF notes[i].to = reader[q].by /\ notes[i].state = "there" /\ notes[i].status = "UNREAD"
                                    THEN [notes[i] EXCEPT !.status = "READ"] ELSE notes[i]]
        /\ reader' = [reader EXCEPT ![q] = Absent] /\ UNCHANGED <<type, hour, managers, run, runs, reads>>
    BY DEF MarkAll
  <1>3. ASSUME NEW i \in Rows
        PROVE  /\ notes'[i] \in Note /\ Kept(i) /\ notes'[i].state = notes[i].state
               /\ notes'[i].mail = notes[i].mail /\ notes'[i].due = notes[i].due
    <2>1. PICK x \in Note : x = notes[i]
      BY RowsTyped
    <2>2. notes'[i] = WithStatus(x, "READ") \/ notes'[i] = x
      BY <1>1, <2>1 DEF WithStatus
    <2>3. CASE notes'[i] = WithStatus(x, "READ")
      BY <2>1, <2>3, StatusTyped DEF Kept, Alike
    <2>4. CASE notes'[i] = x
      BY <2>1, <2>4 DEF Kept
    <2> QED
      BY <2>2, <2>3, <2>4
  <1>4. notes' \in Seq(Note) /\ Len(notes') = Len(notes)
    <2>1. Len(notes) \in Nat /\ \A i \in 1..Len(notes) : notes'[i] \in Note
      BY <1>3, RowsTyped DEF Rows
    <2> QED
      BY <1>1, <2>1 DEF Rows
  <1>5. /\ hour' \in 0..MaxHour /\ hour <= hour' /\ reads' \in 0..MaxReads /\ reader' \in [Readers -> Reader]
        /\ managers' = managers
    BY <1>1, RowsTyped, AbsentTyped DEF NotesInv, NotesType
  <1>6. \A i \in Rows : notes[i].due \subseteq managers
    BY DEF NotesInv, RowsInv, RowFits
  <1>7. Writes
    BY <1>1, <1>4, <1>5 DEF Writes
  <1>8. \A i \in Rows : WritesOne(i)
    BY <1>3, <1>5, <1>6 DEF WritesOne
  <1> QED
    BY <1>7, <1>8, WriteKeeps

Mails(n, st) == /\ notes' = [notes EXCEPT ![n] = WithMail(notes[n], st)]
                /\ st = "sent" => notes[n].state = "there"
Mailed(i) == /\ Kept(i) /\ notes'[i].state = notes[i].state /\ notes'[i].due = notes[i].due
             /\ notes'[i].mail = "sent" => (notes[i].mail = "sent" \/ notes[i].state = "there")
LEMMA RowsMailed ==
  ASSUME NotesInv, NEW n, NEW st \in {"sent", "unsent"}, Mails(n, st)
  PROVE  notes' \in Seq(Note) /\ Len(notes') = Len(notes) /\ \A i \in Rows : Mailed(i)
  <1>1. notes' = [notes EXCEPT ![n] = WithMail(notes[n], st)]
    BY DEF Mails
  <1>2. st = "sent" => notes[n].state = "there"
    BY DEF Mails
  <1>3. \A i \in Rows : notes[i] \in Note
    BY RowsTyped
  <1>4. ASSUME NEW i \in Rows
        PROVE  notes'[i] \in Note /\ Mailed(i)
    <2>1. i \in 1..Len(notes) /\ notes \in Seq(Note)
      BY DEF Rows, NotesInv, NotesType
    <2>2. PICK x \in Note : x = notes[i]
      BY <1>3
    <2>3. CASE n = i
      <3>1. notes'[i] = WithMail(x, st)
        BY <1>1, <2>1, <2>2, <2>3
      <3> QED
        BY <1>2, <2>2, <2>3, <3>1, MailTyped DEF Mailed, Kept, Alike
    <2>4. CASE n # i
      BY <1>1, <1>3, <2>1, <2>4 DEF Mailed, Kept
    <2> QED
      BY <2>3, <2>4
  <1>5. notes' \in Seq(Note) /\ Len(notes') = Len(notes)
    <2>1. notes \in Seq(Note) /\ Len(notes) \in Nat /\ \A i \in 1..Len(notes) : notes'[i] \in Note
      BY <1>4 DEF NotesInv, NotesType, Rows
    <2> QED
      BY <1>1, <2>1, RowWritten
  <1> QED
    BY <1>4, <1>5

\* Only a row that is there can be sent.
LEMMA SendMailKeeps ==
  ASSUME NotesInv, NEW n, SendMail(n)
  PROVE  NotesInv'
  <1>1. UNCHANGED <<type, hour, managers, run, reader, runs>> /\ reads > 0 /\ reads' = reads - 1
    BY DEF SendMail
  <1>2. \E st \in {"sent", "unsent"} : Mails(n, st)
    BY Zenon DEF SendMail, Mails, WithMail
  <1>3. notes' \in Seq(Note) /\ Len(notes') = Len(notes) /\ \A i \in Rows : Mailed(i)
    <2> PICK st \in {"sent", "unsent"} : Mails(n, st)
      BY <1>2
    <2> QED
      BY RowsMailed
  <1>4. /\ hour' \in 0..MaxHour /\ hour <= hour' /\ reader' \in [Readers -> Reader] /\ managers' = managers
    BY <1>1, RowsTyped DEF NotesInv, NotesType
  <1>5. reads' \in 0..MaxReads
    BY <1>1, Bounds DEF NotesInv, NotesType
  <1>6. \A i \in Rows : notes[i].due \subseteq managers
    BY DEF NotesInv, RowsInv, RowFits
  <1>7. \A i \in Rows : notes'[i].due = notes[i].due
    BY <1>3 DEF Mailed
  <1>8. \A i \in Rows : /\ Kept(i) /\ notes'[i].state = notes[i].state
                        /\ notes'[i].mail = "sent" => (notes[i].mail = "sent" \/ notes[i].state = "there")
    BY <1>3 DEF Mailed
  <1>9. \A i \in Rows : notes'[i].due \subseteq notes[i].due /\ notes'[i].due \subseteq managers'
    BY <1>4, <1>6, <1>7
  <1>10. Writes
    BY <1>1, <1>3, <1>4, <1>5 DEF Writes
  <1>11. \A i \in Rows : WritesOne(i)
    BY <1>8, <1>9 DEF WritesOne
  <1> QED
    BY <1>10, <1>11, WriteKeeps

LEMMA ManagerLeavesKeeps ==
  ASSUME NotesInv, NEW m \in Team, ManagerLeaves(m)
  PROVE  NotesInv'
  <1>1. /\ notes' = [i \in Rows |-> [notes[i] EXCEPT !.due = notes[i].due \ {m}]] /\ managers' = managers \ {m}
        /\ UNCHANGED <<type, hour, run, reader, runs, reads>>
    BY DEF ManagerLeaves
  <1>2. \A i \in Rows : notes[i].due \subseteq managers
    BY DEF NotesInv, RowsInv, RowFits
  <1>3. ASSUME NEW i \in Rows
        PROVE  /\ notes'[i] \in Note /\ Kept(i) /\ notes'[i].state = notes[i].state
               /\ notes'[i].mail = notes[i].mail /\ notes'[i].due = notes[i].due \ {m}
    <2>1. PICK x \in Note : x = notes[i]
      BY RowsTyped
    <2>2. PICK d : d = x.due \ {m}
      OBVIOUS
    <2>3. d \in SUBSET Team
      BY <2>1, <2>2 DEF Note
    <2>4. notes'[i] = WithDue(x, d)
      BY <1>1, <2>1, <2>2 DEF WithDue
    <2> QED
      BY <2>1, <2>2, <2>3, <2>4, DueTyped DEF Kept, Alike
  <1>4. notes' \in Seq(Note) /\ Len(notes') = Len(notes)
    <2>1. Len(notes) \in Nat /\ \A i \in 1..Len(notes) : notes'[i] \in Note
      BY <1>3, RowsTyped DEF Rows
    <2> QED
      BY <1>1, <2>1 DEF Rows
  <1>5. /\ hour' \in 0..MaxHour /\ hour <= hour' /\ reads' \in 0..MaxReads /\ reader' \in [Readers -> Reader]
        /\ managers' \subseteq managers
    BY <1>1, RowsTyped DEF NotesInv, NotesType
  <1>6. \A i \in Rows : notes'[i].due \subseteq notes[i].due /\ notes'[i].due \subseteq managers'
    BY <1>1, <1>2, <1>3
  <1>7. \A i \in Rows : notes'[i].mail = "sent" => (notes[i].mail = "sent" \/ notes[i].state = "there")
    BY <1>3
  <1>8. Writes
    BY <1>1, <1>4, <1>5 DEF Writes
  <1>9. \A i \in Rows : WritesOne(i)
    BY <1>3, <1>6, <1>7 DEF WritesOne
  <1> QED
    BY <1>8, <1>9, WriteKeeps

LEMMA TickKeeps ==
  ASSUME NotesInv, Tick
  PROVE  NotesInv'
  <1>1. /\ hour < MaxHour /\ hour' = hour + 1 /\ hour \in Nat
        /\ UNCHANGED <<type, managers, notes, run, reader, runs, reads>>
    BY RowsTyped DEF Tick
  <1>2. hour' \in 0..MaxHour /\ hour <= hour' /\ hour' \in Nat
    BY <1>1, Bounds
  <1>3. NotesType'
    BY <1>1, <1>2 DEF NotesInv, NotesType
  <1> QED
    BY <1>1, <1>2, <1>3, SameRows, QuietKeeps
-----------------------------------------------------------------------------
(* The steps of a run. *)

\* A run of which some fields are written.
Begun(x, item, tx, S) == [x EXCEPT !.op = "owner", !.item = item, !.tx = tx, !.saw = S]
Leads(x, n) == [x EXCEPT !.op = "managers", !.head = n, !.own = IF x.tx THEN x.own \cup {n} ELSE x.own]
Lists(x, L) == [x EXCEPT !.op = "each", !.list = L]
Shorter(x, L) == [x EXCEPT !.list = L]
Rested(x) == IF x.tx THEN [x EXCEPT !.op = "tx", !.list = {}] ELSE Stopped

LEMMA BegunTyped ==
  ASSUME NEW x \in Run, NEW item \in Items, NEW tx \in BOOLEAN, NEW S \in SUBSET (1..MaxNotes)
  PROVE  LET y == Begun(x, item, tx, S) IN
         y \in Run /\ y.op = "owner" /\ y.item = item /\ y.tx = tx /\ y.saw = S /\ y.own = x.own
  <1>1. Begun(x, item, tx, S) \in Run
    BY DEF Run, Begun
  <1>2. /\ Begun(x, item, tx, S).op = "owner" /\ Begun(x, item, tx, S).item = item
        /\ Begun(x, item, tx, S).tx = tx
    BY DEF Run, Begun
  <1>3. Begun(x, item, tx, S).saw = S /\ Begun(x, item, tx, S).own = x.own
    BY DEF Run, Begun
  <1> QED
    BY <1>1, <1>2, <1>3

LEMMA LeadsTyped ==
  ASSUME NEW x \in Run, NEW n \in 1..MaxNotes
  PROVE  LET y == Leads(x, n) IN
         /\ y \in Run /\ y.op = "managers" /\ y.head = n /\ y.tx = x.tx /\ y.item = x.item
         /\ y.own = IF x.tx THEN x.own \cup {n} ELSE x.own
  <1> DEFINE own == IF x.tx THEN x.own \cup {n} ELSE x.own
  <1>1. own \in SUBSET (1..MaxNotes)
    BY DEF Run
  <1>2. Leads(x, n) = [x EXCEPT !.op = "managers", !.head = n, !.own = own]
    BY DEF Leads
  <1> HIDE DEF own
  <1>3. Leads(x, n) \in Run
    BY <1>1, <1>2 DEF Run
  <1>4. /\ Leads(x, n).op = "managers" /\ Leads(x, n).head = n /\ Leads(x, n).tx = x.tx
        /\ Leads(x, n).item = x.item
    BY <1>2 DEF Run
  <1>5. Leads(x, n).own = own
    BY <1>2 DEF Run
  <1> QED
    BY <1>3, <1>4, <1>5 DEF own

LEMMA ListsTyped ==
  ASSUME NEW x \in Run, NEW L \in SUBSET Team
  PROVE  LET y == Lists(x, L) IN
         y \in Run /\ y.op = "each" /\ y.list = L /\ y.head = x.head /\ y.tx = x.tx /\ y.own = x.own /\ y.item = x.item
  BY DEF Run, Lists

LEMMA ShorterTyped ==
  ASSUME NEW x \in Run, NEW L \in SUBSET Team
  PROVE  LET y == Shorter(x, L) IN
         y \in Run /\ y.op = x.op /\ y.list = L /\ y.head = x.head /\ y.tx = x.tx /\ y.own = x.own /\ y.item = x.item
  BY DEF Run, Shorter

LEMMA RestedTyped ==
  ASSUME NEW x \in Run, 1 \in 1..MaxNotes, ~x.tx => x.own = {}
  PROVE  LET y == Rested(x) IN
         /\ y \in Run /\ y.op \in {"tx", "none"} /\ (y.op = "tx" => y.tx) /\ (~y.tx => y.own = {})
         /\ y.own = x.own
  <1>1. x.tx \in BOOLEAN
    BY DEF Run
  <1>2. CASE x.tx
    BY <1>2 DEF Run, Rested
  <1>3. CASE ~x.tx
    BY <1>3 DEF Run, Rested, Stopped
  <1> QED
    BY <1>1, <1>2, <1>3

LEMMA Moved ==
  ASSUME NotesInv, NEW r \in Runs, NEW x \in Run, Goes(r, x)
  PROVE  run' \in [Runs -> Run] /\ run'[r] = x /\ \A s \in Runs : s # r => run'[s] = run[s]
  <1>1. run \in [Runs -> Run] /\ run' = [run EXCEPT ![r] = x]
    BY DEF Goes, NotesInv, NotesType
  <1> QED
    BY <1>1
\* The runs fit after a step of r if r does, and has not taken rows of others.
LEMMA RunsStep ==
  ASSUME NotesInv, NEW r \in Runs, NEW x \in Run, Goes(r, x), hour' = hour,
         \A i \in Rows : Kept(i) /\ i \in Rows', RunFits(r)', x.own \cap Rows \subseteq run[r].own,
         \A s \in Runs : (s # r /\ Telling(s)) => notes'[run[s].head].state = notes[run[s].head].state
  PROVE  RunsInv'
  <1>1. run'[r] = x /\ \A s \in Runs : s # r => run'[s] = run[s]
    BY Moved
  <1>2. ASSUME NEW s \in Runs, s # r PROVE RunFits(s)'
    <2>1. run'[s] = run[s] /\ hour' \in Nat /\ hour <= hour'
      BY <1>1, <1>2, RowsTyped
    <2> QED
      BY <1>2, <2>1, RunKept
  <1>3. ASSUME NEW s \in Runs, NEW t \in Runs, s # t PROVE run'[s].own \cap run'[t].own = {}
    <2>1. /\ run[s].own \cap run[t].own = {}
          /\ run[s].own \subseteq Rows /\ run[t].own \subseteq Rows
      BY <1>3 DEF NotesInv, RunsInv, RunFits
    <2> QED
      BY <1>1, <1>3, <2>1
  <1> QED
    BY <1>2, <1>3 DEF RunsInv

\* The managers whom r was to tell are those who change; so do new rows.
LEMMA ToldStep ==
  ASSUME NotesInv, NEW r \in Runs, NEW x \in Run, Goes(r, x), \A i \in Rows : Kept(i) /\ i \in Rows',
         \A i \in Rows : notes'[i].due \subseteq notes[i].due /\ (notes[i].state = "void" => notes'[i].state = "void"),
         \A i \in Owners : (Telling(r) /\ run[r].head = i /\ notes'[i].state # "void")
                           => \A m \in notes'[i].due : (run[r].op = "each" => m \in run[r].list) => Told(i, m)',
         \A i \in Owners' : i \notin Rows => \A m \in notes'[i].due : Told(i, m)'
  PROVE  ToldInv'
  <1> SUFFICES ASSUME NEW i \in Owners', notes'[i].state # "void", NEW m \in notes'[i].due
               PROVE  Told(i, m)'
    BY DEF ToldInv
  <1>1. \A s \in Runs : s # r => run'[s] = run[s]
    BY Moved
  <1>2. CASE i \in Rows
    <2>1. i \in Owners /\ notes[i].state # "void" /\ m \in notes[i].due
      BY <1>2 DEF Owners, Kept
    <2>2. Told(i, m)
      BY <2>1 DEF NotesInv, ToldInv
    <2>3. CASE \E k \in Rows : notes[k].head = i /\ notes[k].to = m
      BY <2>3 DEF Told, Kept
    <2>4. ASSUME NEW s \in Runs, Telling(s), run[s].head = i, run[s].op = "each" => m \in run[s].list
          PROVE  Told(i, m)'
      <3>1. CASE s = r
        BY <2>1, <2>4, <3>1
      <3>2. CASE s # r
        BY <1>1, <2>4, <3>2 DEF Told, Telling
      <3> QED
        BY <3>1, <3>2
    <2> QED
      BY <2>2, <2>3, <2>4 DEF Told
  <1> QED
    BY <1>2

LEMMA SeenFits ==
  ASSUME NotesInv, NEW r \in Runs
  PROVE  /\ Seen(r) \subseteq Rows /\ Seen(r) \in SUBSET (1..MaxNotes)
         /\ \A item : ~Recent(r, item) => Overlooked(Seen(r), item, hour)
  <1>1. Seen(r) \subseteq Rows /\ Rows \subseteq 1..MaxNotes
    BY RowsTyped DEF Seen
  <1>2. ASSUME NEW item, ~Recent(r, item), NEW i \in Seen(r), notes[i].item = item, notes[i].at >= hour - Recency
        PROVE  Cardinality({k \in Seen(r) : k > i}) >= Limit
    <2>1. i \notin Newest(Seen(r))
      BY <1>2 DEF Recent
    <2>2. ~(Cardinality({k \in Seen(r) : k > i}) < Limit)
      BY <2>1 DEF Newest
    <2>3. IsFiniteSet(1..Len(notes)) /\ {k \in Seen(r) : k > i} \subseteq 1..Len(notes)
      BY <1>1, RowsTyped, FS_Interval DEF Rows
    <2>4. Cardinality({k \in Seen(r) : k > i}) \in Nat
      BY <2>3, FS_Subset, FS_CardinalityType
    <2> QED
      BY <2>2, <2>4, Bounds
  <1> QED
    BY <1>1, <1>2 DEF Overlooked
\* A run goes on without writing a row.
LEMMA QuietRun ==
  ASSUME NotesInv, NEW r \in Runs, NEW x \in Run, Goes(r, x), UNCHANGED <<type, hour, managers, notes, reader, reads>>,
         runs' \in 0..MaxRuns, RunFits(r)', x.own \subseteq run[r].own,
         \A i \in Owners : (Telling(r) /\ run[r].head = i)
                           => \A m \in notes[i].due : (run[r].op = "each" => m \in run[r].list) => Told(i, m)'
  PROVE  NotesInv'
  <1>1. Rows' = Rows /\ Owners' = Owners /\ \A i \in Rows : Kept(i) /\ i \in Rows' /\ notes'[i] = notes[i]
    BY DEF Rows, Owners, Kept
  <1>2. NotesType'
    BY Moved DEF NotesInv, NotesType
  <1>3. RunsInv'
    <2>1. \A s \in Runs : (s # r /\ Telling(s)) => notes'[run[s].head].state = notes[run[s].head].state
      OBVIOUS
    <2>2. x.own \cap Rows \subseteq run[r].own
      OBVIOUS
    <2> QED
      BY <1>1, <2>1, <2>2, RunsStep
  <1>4. RowsInv'
    <2>1. ASSUME NEW k \in Rows PROVE RowFits(k)'
      BY <1>1 DEF NotesInv, RowsInv, RowFits, Overlooked
    <2> QED
      BY <1>1, <2>1 DEF RowsInv
  <1>5. ToldInv'
    <2>1. \A i \in Rows : notes'[i].due \subseteq notes[i].due /\ (notes[i].state = "void" => notes'[i].state = "void")
      BY <1>1
    <2>2. \A i \in Owners : (Telling(r) /\ run[r].head = i /\ notes'[i].state # "void")
             => \A m \in notes'[i].due : (run[r].op = "each" => m \in run[r].list) => Told(i, m)'
      BY <1>1 DEF Owners
    <2>3. \A i \in Owners' : i \notin Rows => \A m \in notes'[i].due : Told(i, m)'
      BY <1>1 DEF Owners
    <2> QED
      BY <1>1, <2>1, <2>2, <2>3, ToldStep
  <1> QED
    BY <1>2, <1>3, <1>4, <1>5 DEF NotesInv

LEMMA CheckKeeps ==
  ASSUME NotesInv, NEW r \in Runs, NEW item \in Items, NEW tx \in BOOLEAN, Check(r, item, tx)
  PROVE  NotesInv'
  <1>1. /\ run[r].op = IF run[r].tx THEN "tx" ELSE "none"
        /\ runs > 0 /\ runs' = runs - 1 /\ (tx = run[r].tx \/ run[r].op = "none") /\ ~Recent(r, item)
        /\ UNCHANGED <<type, hour, managers, notes, reader, reads>>
    BY DEF Check
  <1> PICK w \in Run, S \in SUBSET (1..MaxNotes) : w = run[r] /\ S = Seen(r)
    BY RowsTyped, SeenFits
  <1> PICK x : x = Begun(w, item, tx, S)
    OBVIOUS
  <1>2. x \in Run /\ x.op = "owner" /\ x.item = item /\ x.tx = tx /\ x.saw = S /\ x.own = w.own
    BY BegunTyped
  <1>3. Goes(r, x)
    BY DEF Check, Begun
  <1>4. run'[r] = x
    BY <1>2, <1>3, Moved
  <1>5. ~Telling(r) /\ (~tx => w.own = {}) /\ w.own \subseteq Rows
    <2>1. w.own \subseteq Rows /\ (~w.tx => w.own = {}) /\ w.tx \in BOOLEAN
      BY DEF NotesInv, RunsInv, RunFits, Run
    <2> QED
      BY <1>1, <2>1 DEF Telling
  <1>6. Overlooked(S, item, hour)' /\ S \subseteq Rows'
    BY <1>1, SeenFits DEF Overlooked, Rows
  <1>7. RunFits(r)'
    <2>1. Rows' = Rows
      BY <1>1 DEF Rows
    <2> QED
      BY <1>2, <1>4, <1>5, <1>6, <2>1 DEF RunFits, Telling, Overlooked
  <1>8. runs' \in 0..MaxRuns
    BY <1>1, Bounds DEF NotesInv, NotesType
  <1>9. x.own \subseteq run[r].own
    BY <1>2
  <1> QED
    BY <1>1, <1>2, <1>3, <1>5, <1>7, <1>8, <1>9, QuietRun

\* A run that rests fits, as far as its rows do.
LEMMA RestFits ==
  ASSUME NotesInv, NEW r \in Runs, Goes(r, Rested(run[r])), Rows \subseteq Rows', 1 \in 1..MaxNotes
  PROVE  RunFits(r)' /\ Rested(run[r]) \in Run /\ Rested(run[r]).own = run[r].own
  <1> PICK w \in Run : w = run[r]
    BY RowsTyped
  <1> PICK x : x = Rested(w)
    OBVIOUS
  <1>1. w.own \subseteq Rows /\ (~w.tx => w.own = {})
    BY DEF NotesInv, RunsInv, RunFits
  <1>2. /\ x \in Run /\ x.op \in {"tx", "none"} /\ (x.op = "tx" => x.tx) /\ (~x.tx => x.own = {})
        /\ x.own = w.own
    BY <1>1, RestedTyped
  <1>3. run'[r] = x
    BY <1>2, Moved
  <1> QED
    BY <1>1, <1>2, <1>3 DEF RunFits, Telling

LEMMA ListManagersKeeps ==
  ASSUME NotesInv, NEW r \in Runs, ListManagers(r)
  PROVE  NotesInv'
  <1>1. /\ run[r].op = "managers" /\ UNCHANGED <<type, hour, managers, notes, reader, runs, reads>>
    BY DEF ListManagers
  <1> PICK w \in Run, L \in SUBSET Team : w = run[r] /\ L = managers
    BY RowsTyped DEF NotesInv, NotesType
  <1>2. /\ w.own \subseteq Rows /\ w.head \in Rows /\ notes[w.head].to = Boss /\ (~w.tx => w.own = {})
        /\ notes[w.head].state = (IF w.tx THEN "held" ELSE "there")
        /\ (w.tx => w.head \in w.own) /\ w.item \in Items
    BY <1>1 DEF NotesInv, RunsInv, RunFits, Telling
  <1>3. 1 \in 1..MaxNotes /\ Rows \subseteq Rows' /\ Rows' = Rows
    BY <1>1, <1>2, RowsTyped, Bounds DEF Rows
  <1>4. runs' \in 0..MaxRuns
    BY <1>1 DEF NotesInv, NotesType
  <1>5. \A i \in Owners : notes[i].due \subseteq L
    BY DEF NotesInv, RowsInv, RowFits, Owners
  <1>6. CASE managers = {}
    <2>1. Goes(r, Rested(w))
      BY <1>1, <1>6 DEF ListManagers, Rests, Rested
    <2>2. RunFits(r)' /\ Rested(w) \in Run /\ Rested(w).own \subseteq run[r].own
      BY <1>3, <2>1, RestFits
    <2>3. \A i \in Owners : (Telling(r) /\ run[r].head = i)
             => \A m \in notes[i].due : (run[r].op = "each" => m \in run[r].list) => Told(i, m)'
      BY <1>5, <1>6
    <2> QED
      BY <1>1, <1>4, <2>1, <2>2, <2>3, QuietRun
  <1>7. CASE managers # {}
    <2> PICK x : x = Lists(w, L)
      OBVIOUS
    <2>1. /\ x \in Run /\ x.op = "each" /\ x.list = L /\ x.head = w.head /\ x.tx = w.tx /\ x.own = w.own
          /\ x.item = w.item
      BY ListsTyped
    <2>2. Goes(r, x)
      BY <1>7 DEF ListManagers, Lists
    <2>3. run'[r] = x
      BY <2>1, <2>2, Moved
    <2>4. RunFits(r)'
      BY <1>1, <1>2, <1>3, <2>1, <2>3 DEF RunFits, Telling
    <2>5. \A i \in Owners : (Telling(r) /\ run[r].head = i)
             => \A m \in notes[i].due : (run[r].op = "each" => m \in run[r].list) => Told(i, m)'
      BY <1>5, <2>1, <2>3 DEF Told, Telling
    <2>6. x.own \subseteq run[r].own
      BY <2>1
    <2> QED
      BY <1>1, <1>4, <2>1, <2>2, <2>4, <2>5, <2>6, QuietRun
  <1> QED
    BY <1>6, <1>7
\* A row as it is inserted.
Inserted(to, item, at, st, head, saw, due) ==
    [to |-> to, item |-> item, at |-> at, status |-> "UNREAD", mail |-> "queued",
     state |-> st, head |-> head, saw |-> saw, due |-> due]
LEMMA InsertedTyped ==
  ASSUME NEW to \in People, NEW item \in Items, NEW at \in 0..MaxHour, NEW st \in {"held", "there"},
         NEW head \in 1..MaxNotes, NEW saw \in SUBSET (1..MaxNotes), NEW due \in SUBSET Team
  PROVE  LET y == Inserted(to, item, at, st, head, saw, due) IN
         /\ y \in Note /\ y.to = to /\ y.item = item /\ y.at = at /\ y.state = st /\ y.head = head
         /\ y.saw = saw /\ y.due = due /\ y.mail = "queued"
  BY DEF Inserted, Note

Adds(y) == notes' = Append(notes, y)
LEMMA Appended ==
  ASSUME NotesInv, NEW y \in Note, Adds(y), Len(notes) < MaxNotes
  PROVE  LET n == Len(notes) + 1 IN
         /\ notes' \in Seq(Note) /\ Len(notes') <= MaxNotes /\ n \in 1..MaxNotes
         /\ n \notin Rows /\ Rows' = Rows \cup {n} /\ notes'[n] = y
         /\ \A i \in Rows : notes'[i] = notes[i] /\ Kept(i) /\ i \in Rows'
  <1>1. notes \in Seq(Note) /\ Len(notes) \in Nat /\ notes' = Append(notes, y)
    BY DEF NotesInv, NotesType, Adds
  <1>2. /\ notes' \in Seq(Note) /\ Len(notes') = Len(notes) + 1 /\ notes'[Len(notes) + 1] = y
        /\ \A i \in 1..Len(notes) : notes'[i] = notes[i]
    BY <1>1
  <1>3. Len(notes) + 1 \in 1..MaxNotes /\ Len(notes') <= MaxNotes
    BY <1>1, <1>2, Bounds
  <1>4. Len(notes) + 1 \notin Rows /\ Rows' = Rows \cup {Len(notes) + 1}
    BY <1>1, <1>2 DEF Rows
  <1>5. \A i \in Rows : notes'[i] = notes[i] /\ Kept(i) /\ i \in Rows'
    BY <1>2, <1>4 DEF Rows, Kept
  <1> QED
    BY <1>2, <1>3, <1>4, <1>5

\* Run r writes row y and goes on as x.
LEMMA AddKeeps ==
  ASSUME NotesInv, NEW r \in Runs, NEW x \in Run, Goes(r, x), NEW y \in Note, Adds(y), Len(notes) < MaxNotes,
         NEW n, n = Len(notes) + 1,
         UNCHANGED <<type, hour, managers, reader, runs, reads>>,
         RunFits(r)', x.own \cap Rows \subseteq run[r].own, RowFits(n)',
         \A i \in Owners : (Telling(r) /\ run[r].head = i)
                           => \A m \in notes[i].due : (run[r].op = "each" => m \in run[r].list) => Told(i, m)',
         y.to = Boss => \A m \in y.due : Told(n, m)'
  PROVE  NotesInv'
  <1>1. /\ notes' \in Seq(Note) /\ Len(notes') <= MaxNotes /\ n \notin Rows /\ Rows' = Rows \cup {n} /\ notes'[n] = y
        /\ \A i \in Rows : notes'[i] = notes[i] /\ Kept(i) /\ i \in Rows'
    BY Appended
  <1>2. NotesType'
    BY <1>1, Moved DEF NotesInv, NotesType
  <1>3. RunsInv'
    <2>1. \A s \in Runs : (s # r /\ Telling(s)) => notes'[run[s].head].state = notes[run[s].head].state
      BY <1>1 DEF NotesInv, RunsInv, RunFits
    <2> QED
      BY <1>1, <2>1, RunsStep
  <1>4. RowsInv'
    <2>1. ASSUME NEW k \in Rows PROVE RowFits(k)'
      <3>1. /\ notes[k].head \in Rows /\ notes[k].state = notes[notes[k].head].state
            /\ (notes[k].mail = "sent" => notes[k].state = "there") /\ notes[k].due \subseteq managers
        BY DEF NotesInv, RowsInv, RowFits
      <3>2. \A i \in Rows : Kept(i) /\ i \in Rows'
        BY <1>1
      <3>3. /\ notes'[k].state = notes'[notes[k].head].state
            /\ (notes'[k].mail = "sent" => notes'[k].state = "there") /\ notes'[k].due \subseteq managers'
        BY <1>1, <3>1
      <3> QED
        BY <3>2, <3>3, RowKept
    <2>2. RowFits(n)'
      OBVIOUS
    <2> QED
      BY <1>1, <2>1, <2>2 DEF RowsInv
  <1>5. ToldInv'
    <2>1. \A i \in Rows : notes'[i].due \subseteq notes[i].due /\ (notes[i].state = "void" => notes'[i].state = "void")
      BY <1>1
    <2>2. \A i \in Owners : (Telling(r) /\ run[r].head = i /\ notes'[i].state # "void")
             => \A m \in notes'[i].due : (run[r].op = "each" => m \in run[r].list) => Told(i, m)'
      BY <1>1 DEF Owners
    <2>3. \A i \in Owners' : i \notin Rows => \A m \in notes'[i].due : Told(i, m)'
      BY <1>1 DEF Owners
    <2>4. \A i \in Rows : Kept(i) /\ i \in Rows'
      BY <1>1
    <2> QED
      BY <2>1, <2>2, <2>3, <2>4, ToldStep
  <1> QED
    BY <1>2, <1>3, <1>4, <1>5 DEF NotesInv

LEMMA TellOwnerKeeps ==
  ASSUME NotesInv, NEW r \in Runs, TellOwner(r)
  PROVE  NotesInv'
  <1>1. /\ run[r].op = "owner" /\ Len(notes) + 1 <= MaxNotes
        /\ UNCHANGED <<type, hour, managers, reader, runs, reads>>
    BY DEF TellOwner
  <1>2. Len(notes) \in Nat /\ Len(notes) < MaxNotes
    BY <1>1, RowsTyped, Bounds
  <1> PICK w \in Run, L \in SUBSET Team, now \in 0..MaxHour : w = run[r] /\ L = managers /\ now = hour
    BY RowsTyped DEF NotesInv, NotesType
  <1> PICK n \in 1..MaxNotes : n = Len(notes) + 1
    BY <1>1, <1>2, Bounds
  <1> PICK st \in {"held", "there"} : st = IF w.tx THEN "held" ELSE "there"
    OBVIOUS
  <1>3. /\ w.own \subseteq Rows /\ (~w.tx => w.own = {}) /\ w.saw \subseteq Rows
        /\ Overlooked(w.saw, w.item, now) /\ w.item \in Items
    BY <1>1 DEF NotesInv, RunsInv, RunFits
  <1>4. w.saw \in SUBSET (1..MaxNotes) /\ w.tx \in BOOLEAN
    BY DEF Run
  <1> PICK x : x = Leads(w, n)
    OBVIOUS
  <1> PICK y : y = Inserted(Boss, w.item, now, st, n, w.saw, L)
    OBVIOUS
  <1>5. /\ x \in Run /\ x.op = "managers" /\ x.head = n /\ x.tx = w.tx
        /\ x.own = (IF w.tx THEN w.own \cup {n} ELSE w.own) /\ x.item = w.item
    BY LeadsTyped, ZenonT(40)
  <1>6. /\ y \in Note /\ y.to = Boss /\ y.item = w.item /\ y.at = now /\ y.state = st /\ y.head = n
        /\ y.saw = w.saw /\ y.due = L /\ y.mail = "queued"
    <2>1. Boss \in People
      BY DEF People
    <2> QED
      BY <1>3, <1>4, <2>1, InsertedTyped
  <1>7. Goes(r, x) /\ Adds(y)
    BY DEF TellOwner, New, Adds, Inserted, Leads
  <1>8. /\ notes'[n] = y /\ Rows' = Rows \cup {n} /\ n \notin Rows /\ run'[r] = x
        /\ \A i \in Rows : notes'[i] = notes[i] /\ Kept(i)
    BY <1>2, <1>5, <1>6, <1>7, Appended, Moved
  <1>9. Overlooked(w.saw, w.item, now)'
    <2>1. now \in Nat /\ now <= now
      BY Bounds
    <2> QED
      BY <1>3, <1>8, <2>1, OverlookedKept
  <1>10. RunFits(r)'
    BY <1>3, <1>5, <1>6, <1>8 DEF RunFits, Telling
  <1>11. RowFits(n)'
    <2>1. n \in Rows' /\ y.saw \subseteq Rows' /\ y.due \subseteq managers'
      BY <1>1, <1>3, <1>6, <1>8
    <2>2. Overlooked(y.saw, y.item, y.at)'
      BY <1>6, <1>9 DEF Overlooked
    <2> QED
      BY <1>6, <1>8, <2>1, <2>2 DEF RowFits, Overlooked
  <1>12. \A m \in y.due : Told(n, m)'
    BY <1>5, <1>8 DEF Told, Telling
  <1>13. x.own \cap Rows \subseteq run[r].own /\ ~Telling(r)
    BY <1>1, <1>3, <1>5, <1>8 DEF Telling
  <1> QED
    BY <1>1, <1>2, <1>5, <1>6, <1>7, <1>10, <1>11, <1>12, <1>13, AddKeeps
LEMMA TellManagerKeeps ==
  ASSUME NotesInv, NEW r \in Runs, NEW g \in Team, TellManager(r, g)
  PROVE  NotesInv'
  <1>1. /\ run[r].op = "each" /\ g \in run[r].list /\ Len(notes) < MaxNotes
        /\ UNCHANGED <<type, hour, managers, reader, runs, reads>>
    BY DEF TellManager
  <1> PICK w \in Run, now \in 0..MaxHour : w = run[r] /\ now = hour
    BY RowsTyped DEF NotesInv, NotesType
  <1> PICK n : n = Len(notes) + 1
    OBVIOUS
  <1> PICK st \in {"held", "there"} : st = IF w.tx THEN "held" ELSE "there"
    OBVIOUS
  <1> PICK h : h = w.head
    OBVIOUS
  <1>2. /\ w.own \subseteq Rows /\ (~w.tx => w.own = {}) /\ w.item \in Items
        /\ h \in Rows /\ notes[h].to = Boss /\ notes[h].state = st /\ (w.tx => h \in w.own)
    BY <1>1 DEF NotesInv, RunsInv, RunFits, Telling
  <1>3. w.saw \in SUBSET (1..MaxNotes) /\ w.list \in SUBSET Team /\ h \in 1..MaxNotes
    BY DEF Run
  <1> PICK y : y = Inserted(g, w.item, now, st, h, w.saw, {})
    OBVIOUS
  <1>4. /\ y \in Note /\ y.to = g /\ y.item = w.item /\ y.at = now /\ y.state = st /\ y.head = h
        /\ y.saw = w.saw /\ y.due = {} /\ y.mail = "queued"
    <2>1. g \in People /\ {} \in SUBSET Team
      BY DEF People
    <2> QED
      BY <1>2, <1>3, <2>1, InsertedTyped
  <1>5. Adds(y)
    BY DEF TellManager, New, Adds, Inserted
  <1>6. /\ notes'[n] = y /\ Rows' = Rows \cup {n} /\ n \notin Rows
        /\ \A i \in Rows : notes'[i] = notes[i] /\ Kept(i)
    BY <1>1, <1>4, <1>5, Appended
  <1>7. RowFits(n)'
    <2>1. y.to # Boss /\ notes'[h] = notes[h] /\ h \in Rows' /\ n \notin Owners'
      BY <1>2, <1>4, <1>6, Bounds DEF Owners
    <2>2. notes'[n].due \subseteq managers' /\ notes'[n].mail # "sent"
      BY <1>4, <1>6
    <2>3. notes'[n].head = h /\ notes'[n].state = st /\ notes'[n].to # Boss
      BY <1>4, <1>6, <2>1
    <2> QED
      BY <1>2, <2>1, <2>2, <2>3 DEF RowFits
  <1>8. Told(h, g)'
    BY <1>4, <1>6 DEF Told
  <1>9. y.to # Boss
    BY <1>4, Bounds
  <1>10. CASE w.list = {g}
    <2>1. Goes(r, Rested(w))
      BY <1>10 DEF TellManager, Rests, Rested
    <2>2. 1 \in 1..MaxNotes /\ Rows \subseteq Rows'
      BY <1>3, <1>6, Bounds
    <2>3. RunFits(r)' /\ Rested(w) \in Run /\ Rested(w).own = w.own
      BY <2>1, <2>2, RestFits
    <2>4. \A i \in Owners : (Telling(r) /\ run[r].head = i)
             => \A m \in notes[i].due : (run[r].op = "each" => m \in run[r].list) => Told(i, m)'
      BY <1>1, <1>8, <1>10
    <2>5. Rested(w).own \cap Rows \subseteq run[r].own
      BY <2>3
    <2> QED
      BY <1>1, <1>4, <1>5, <1>7, <1>9, <2>1, <2>3, <2>4, <2>5, AddKeeps
  <1>11. CASE w.list # {g}
    <2> PICK L \in SUBSET Team : L = w.list \ {g}
      BY <1>3
    <2> PICK x : x = Shorter(w, L)
      OBVIOUS
    <2>1. /\ x \in Run /\ x.op = "each" /\ x.list = L /\ x.head = h /\ x.tx = w.tx /\ x.own = w.own
          /\ x.item = w.item
      BY <1>1, ShorterTyped
    <2>2. Goes(r, x)
      BY <1>11 DEF TellManager, Shorter
    <2>3. run'[r] = x
      BY <2>1, <2>2, Moved
    <2>4. RunFits(r)'
      <3>1. notes'[h] = notes[h] /\ h \in Rows' /\ x.own \subseteq Rows'
        BY <1>2, <1>6, <2>1
      <3> QED
        BY <1>2, <2>1, <2>3, <3>1 DEF RunFits, Telling
    <2>5. \A m \in L : Told(h, m)'
      BY <2>1, <2>3 DEF Told, Telling
    <2>6. \A i \in Owners : (Telling(r) /\ run[r].head = i)
             => \A m \in notes[i].due : (run[r].op = "each" => m \in run[r].list) => Told(i, m)'
      BY <1>1, <1>8, <2>5
    <2>7. x.own \cap Rows \subseteq run[r].own
      BY <2>1
    <2> QED
      BY <1>1, <1>4, <1>5, <1>7, <1>9, <2>1, <2>2, <2>4, <2>6, <2>7, AddKeeps
  <1> QED
    BY <1>10, <1>11

\* The transaction of r ends, and r with it; a row goes with the owner's row.
LEMMA SettleKeeps ==
  ASSUME NotesInv, NEW r \in Runs, NEW st \in {"there", "void"}, notes' = Settle(r, st), run[r].tx, Goes(r, Stopped),
         UNCHANGED <<type, hour, managers, reader, runs, reads>>, st = "there" => ~Telling(r)
  PROVE  NotesInv'
  <1> PICK own : own = run[r].own
    OBVIOUS
  <1>1. ASSUME NEW i \in Rows
        PROVE  /\ notes'[i] \in Note /\ Kept(i) /\ notes'[i].mail = notes[i].mail /\ notes'[i].due = notes[i].due
               /\ notes'[i].state = IF notes[i].state = "held" /\ notes[i].head \in own THEN st ELSE notes[i].state
    <2>1. PICK x \in Note : x = notes[i]
      BY RowsTyped
    <2>2. notes'[i] = IF x.state = "held" /\ x.head \in own THEN WithState(x, st) ELSE x
      BY <2>1 DEF Settle, WithState
    <2>3. CASE x.state = "held" /\ x.head \in own
      <3>1. notes'[i] = WithState(x, st)
        BY <2>2, <2>3
      <3> QED
        BY <2>1, <2>3, <3>1, StateTyped DEF Kept, Alike
    <2>4. CASE ~(x.state = "held" /\ x.head \in own)
      <3>1. notes'[i] = x
        BY <2>2, <2>4
      <3> QED
        BY <2>1, <2>4, <3>1 DEF Kept
    <2> QED
      BY <2>3, <2>4
  <1>2. notes' \in Seq(Note) /\ Len(notes') = Len(notes)
    <2>1. Len(notes) \in Nat /\ notes' \in [1..Len(notes) -> Note]
      BY <1>1, RowsTyped DEF Settle, Rows
    <2> QED
      BY <2>1
  <1>3. Rows' = Rows /\ Owners' = Owners
    BY <1>1, <1>2 DEF Rows, Owners, Kept
  <1>4. \A i \in Rows : Kept(i) /\ i \in Rows'
    BY <1>1, <1>3
  <1>5. Stopped \in Run /\ Stopped.op = "none" /\ Stopped.own = {} /\ ~Stopped.tx /\ run'[r] = Stopped
    <2>1. 1 \in 1..MaxNotes
      BY RowsTyped, Bounds DEF Run
    <2>2. Stopped \in Run /\ Stopped.op = "none" /\ Stopped.own = {} /\ ~Stopped.tx
      BY <2>1 DEF Stopped, Run
    <2> QED
      BY <2>2, Moved
  <1>6. NotesType'
    BY <1>2, <1>5, Moved DEF NotesInv, NotesType
  <1>7. \A k \in Rows : notes[k].to = Boss => notes[k].head = k
    BY DEF NotesInv, RowsInv, RowFits
  <1>8. RunsInv'
    <2>1. ASSUME NEW s \in Runs, s # r, Telling(s)
          PROVE  notes'[run[s].head].state = notes[run[s].head].state
      <3> PICK h : h = run[s].head
        OBVIOUS
      <3>1. /\ h \in Rows /\ notes[h].head = h /\ (run[s].tx => h \in run[s].own)
            /\ notes[h].state = (IF run[s].tx THEN "held" ELSE "there") /\ run[s].tx \in BOOLEAN
        BY <1>7, <2>1, RowsTyped DEF NotesInv, RunsInv, RunFits, Run
      <3>2. h \in run[s].own => h \notin own
        BY <2>1 DEF NotesInv, RunsInv
      <3> QED
        BY <1>1, <3>1, <3>2
    <2>2. RunFits(r)'
      BY <1>5 DEF RunFits, Telling
    <2>3. Stopped.own \cap Rows \subseteq run[r].own
      BY <1>5
    <2> QED
      BY <1>4, <1>5, <2>1, <2>2, <2>3, RunsStep
  <1>9. RowsInv'
    <2>1. ASSUME NEW k \in Rows PROVE RowFits(k)'
      <3> PICK h : h = notes[k].head
        OBVIOUS
      <3>1. /\ h \in Rows /\ notes[h].to = Boss /\ notes[k].state = notes[h].state
            /\ (notes[k].mail = "sent" => notes[k].state = "there") /\ notes[k].due \subseteq managers
        BY DEF NotesInv, RowsInv, RowFits
      <3>2. notes[h].head = h
        BY <1>7, <3>1
      <3>3. notes'[k].state = notes'[h].state
        BY <1>1, <3>1, <3>2
      <3>4. (notes'[k].mail = "sent" => notes'[k].state = "there") /\ notes'[k].due \subseteq managers'
        BY <1>1, <3>1
      <3> QED
        BY <1>4, <3>3, <3>4, RowKept
    <2> QED
      BY <1>3, <2>1 DEF RowsInv
  <1>10. ToldInv'
    <2>1. \A i \in Rows : notes'[i].due \subseteq notes[i].due /\ (notes[i].state = "void" => notes'[i].state = "void")
      BY <1>1
    <2>2. ASSUME NEW i \in Owners, Telling(r), run[r].head = i PROVE notes'[i].state = "void"
      <3>1. i \in Rows /\ notes[i].head = i
        BY <1>7 DEF Owners
      <3>2. notes[i].state = "held" /\ i \in own
        BY <2>2 DEF NotesInv, RunsInv, RunFits
      <3> QED
        BY <1>1, <2>2, <3>1, <3>2
    <2>3. \A i \in Owners : (Telling(r) /\ run[r].head = i /\ notes'[i].state # "void")
             => \A m \in notes'[i].due : (run[r].op = "each" => m \in run[r].list) => Told(i, m)'
      BY <2>2
    <2>4. \A i \in Owners' : i \notin Rows => \A m \in notes'[i].due : Told(i, m)'
      BY <1>3 DEF Owners
    <2> QED
      BY <1>4, <1>5, <2>1, <2>3, <2>4, ToldStep
  <1> QED
    BY <1>6, <1>8, <1>9, <1>10 DEF NotesInv

LEMMA EndsKeep ==
  ASSUME NotesInv, NEW r \in Runs, CommitRun(r) \/ RollbackRun(r)
  PROVE  NotesInv'
  <1>1. CASE CommitRun(r)
    <2>1. run[r].tx /\ ~Telling(r)
      BY <1>1 DEF CommitRun, NotesInv, RunsInv, RunFits, Telling
    <2>2. /\ notes' = Settle(r, "there") /\ Goes(r, Stopped)
          /\ UNCHANGED <<type, hour, managers, reader, runs, reads>>
      BY <1>1 DEF CommitRun
    <2> QED
      BY <2>1, <2>2, SettleKeeps
  <1>2. CASE RollbackRun(r)
    <2>1. /\ notes' = Settle(r, "void") /\ Goes(r, Stopped) /\ run[r].tx
          /\ UNCHANGED <<type, hour, managers, reader, runs, reads>>
      BY <1>2 DEF RollbackRun
    <2> QED
      BY <2>1, SettleKeeps
  <1> QED
    BY <1>1, <1>2

\* A run that breaks off owes nothing any more.
LEMMA BreaksKeeps ==
  ASSUME NotesInv, NEW r \in Runs, Breaks(r)
  PROVE  NotesInv'
  <1>1. Telling(r) /\ UNCHANGED <<type, hour, managers, reader, runs, reads>>
    BY DEF Breaks, Telling
  <1> PICK w, h : w \in Run /\ w = run[r] /\ h = w.head
    BY RowsTyped
  <1>2. h \in Rows /\ notes[h].to = Boss
    BY <1>1 DEF NotesInv, RunsInv, RunFits
  <1>3. notes' = [notes EXCEPT ![h] = WithDue(notes[h], {})]
    BY DEF Breaks, WithDue
  <1>4. ASSUME NEW i \in Rows
        PROVE  /\ notes'[i] \in Note /\ Kept(i) /\ notes'[i].state = notes[i].state
               /\ notes'[i].mail = notes[i].mail /\ notes'[i].due = IF i = h THEN {} ELSE notes[i].due
    <2>1. i \in 1..Len(notes) /\ notes \in Seq(Note)
      BY DEF Rows, NotesInv, NotesType
    <2>2. PICK x \in Note : x = notes[i]
      BY RowsTyped
    <2>3. CASE h = i
      <3>1. notes'[i] = WithDue(x, {})
        BY <1>3, <2>1, <2>2, <2>3
      <3> QED
        BY <2>2, <2>3, <3>1, DueTyped DEF Kept, Alike
    <2>4. CASE h # i
      BY <1>3, <2>1, <2>2, <2>4 DEF Kept
    <2> QED
      BY <2>3, <2>4
  <1>5. notes' \in Seq(Note) /\ Len(notes') = Len(notes)
    <2>1. notes \in Seq(Note) /\ Len(notes) \in Nat /\ \A i \in 1..Len(notes) : notes'[i] \in Note
      BY <1>4 DEF NotesInv, NotesType, Rows
    <2> QED
      BY <1>3, <2>1, RowWritten
  <1>6. Rows' = Rows /\ Owners' = Owners /\ \A i \in Rows : Kept(i) /\ i \in Rows'
    BY <1>4, <1>5 DEF Rows, Owners, Kept
  <1>7. Goes(r, Rested(w))
    BY DEF Breaks, Rests, Rested
  <1>8. RunFits(r)' /\ Rested(w) \in Run /\ Rested(w).own \cap Rows \subseteq run[r].own
    <2>1. 1 \in 1..MaxNotes /\ Rows \subseteq Rows'
      BY <1>2, <1>6, RowsTyped, Bounds DEF Rows
    <2> QED
      BY <1>7, <2>1, RestFits
  <1>9. NotesType'
    BY <1>1, <1>5, <1>7, <1>8, Moved DEF NotesInv, NotesType
  <1>10. RunsInv'
    <2>1. \A s \in Runs : (s # r /\ Telling(s)) => notes'[run[s].head].state = notes[run[s].head].state
      BY <1>4 DEF NotesInv, RunsInv, RunFits
    <2> QED
      BY <1>1, <1>6, <1>7, <1>8, <2>1, RunsStep
  <1>11. RowsInv'
    <2>1. ASSUME NEW k \in Rows PROVE RowFits(k)'
      <3>1. /\ notes[k].head \in Rows /\ notes[k].state = notes[notes[k].head].state
            /\ (notes[k].mail = "sent" => notes[k].state = "there") /\ notes[k].due \subseteq managers
        BY DEF NotesInv, RowsInv, RowFits
      <3>2. /\ notes'[k].state = notes'[notes[k].head].state
            /\ (notes'[k].mail = "sent" => notes'[k].state = "there") /\ notes'[k].due \subseteq managers'
        BY <1>1, <1>4, <3>1
      <3> QED
        BY <1>6, <3>2, RowKept
    <2> QED
      BY <1>6, <2>1 DEF RowsInv
  <1>12. ToldInv'
    <2>1. \A i \in Rows : notes'[i].due \subseteq notes[i].due /\ (notes[i].state = "void" => notes'[i].state = "void")
      BY <1>4
    <2>2. \A i \in Owners : (Telling(r) /\ run[r].head = i /\ notes'[i].state # "void")
             => \A m \in notes'[i].due : (run[r].op = "each" => m \in run[r].list) => Told(i, m)'
      BY <1>4 DEF Owners
    <2>3. \A i \in Owners' : i \notin Rows => \A m \in notes'[i].due : Told(i, m)'
      BY <1>6 DEF Owners
    <2> QED
      BY <1>6, <1>7, <1>8, <2>1, <2>2, <2>3, ToldStep
  <1> QED
    BY <1>9, <1>10, <1>11, <1>12 DEF NotesInv
-----------------------------------------------------------------------------
LEMMA InitFits ==
  ASSUME NotesInit
  PROVE  NotesInv
  <1>1. notes = <<>> /\ Len(notes) = 0 /\ Rows = {} /\ Owners = {}
    BY DEF NotesInit, Rows, Owners
  <1>2. Boss \in People /\ Absent \in Reader
    BY AbsentTyped DEF People
  <1>3. MaxNotes \in Nat /\ MaxHour \in Nat /\ MaxRuns \in Nat /\ MaxReads \in Nat
    BY Bounds
  <1>4. notes \in Seq(Note)
    BY <1>1
  <1>5. RunsInv
    BY <1>1 DEF NotesInit, RunsInv, RunFits, Telling, Stopped
  <1>6. RowsInv /\ ToldInv
    BY <1>1 DEF RowsInv, ToldInv
  <1>7. Stopped \in Run
    BY <1>3, Bounds DEF Stopped, Run
  <1>8. NotesType
    BY <1>1, <1>2, <1>3, <1>4, <1>7 DEF NotesInit, NotesType
  <1> QED
    BY <1>5, <1>6, <1>8 DEF NotesInv

LEMMA StepKeeps ==
  ASSUME NotesInv, NotesNext
  PROVE  NotesInv'
  <1>1. ASSUME NEW r \in Runs, NEW tx \in BOOLEAN, Begins(r, tx) PROVE NotesInv'
    BY <1>1, CheckKeeps DEF Begins
  <1>2. ASSUME NEW r \in Runs, Tells(r) PROVE NotesInv'
    BY <1>2, TellOwnerKeeps, ListManagersKeeps, TellManagerKeeps, BreaksKeeps DEF Tells
  <1>3. ASSUME NEW r \in Runs,
               \/ notify_product_expiring(r) \/ notify_product_expired(r)
               \/ notify_low_stock(r) \/ notify_payment_overdue(r)
        PROVE  NotesInv'
    <2>1. Begins(r, TRUE) \/ Begins(r, FALSE) \/ Tells(r) \/ CommitRun(r) \/ RollbackRun(r)
      BY <1>3 DEF notify_product_expiring, notify_product_expired, notify_low_stock, notify_payment_overdue
    <2> QED
      BY <1>1, <1>2, <2>1, EndsKeep
  <1>4. ASSUME NEW q \in Readers, mark_read(q) \/ archive_notification(q) \/ mark_all_read(q)
        PROVE  NotesInv'
    <2>1. CASE mark_read(q)
      <3>1. (\E i \in Rows, op \in {"read", "archive"} : ReadNote(q, i, op)) \/ WriteStatus(q, "read", "READ")
        BY <2>1 DEF mark_read
      <3> QED
        BY <3>1, ReadersKeep, WriteStatusKeeps
    <2>2. CASE archive_notification(q)
      <3>1. (\E i \in Rows, op \in {"read", "archive"} : ReadNote(q, i, op)) \/ WriteStatus(q, "archive", "ARCHIVED")
        BY <2>2 DEF archive_notification
      <3> QED
        BY <3>1, ReadersKeep, WriteStatusKeeps
    <2>3. CASE mark_all_read(q)
      BY <2>3, ReadersKeep, MarkAllKeeps DEF mark_all_read
    <2> QED
      BY <1>4, <2>1, <2>2, <2>3
  <1>5. ASSUME NEW i \in Rows, SendMail(i) PROVE NotesInv'
    BY <1>5, SendMailKeeps
  <1>6. ASSUME NEW m \in Team, ManagerLeaves(m) PROVE NotesInv'
    BY <1>6, ManagerLeavesKeeps
  <1>7. CASE Tick
    BY <1>7, TickKeeps
  <1> QED
    BY <1>3, <1>4, <1>5, <1>6, <1>7 DEF NotesNext

LEMMA StutterKeeps ==
  ASSUME NotesInv, UNCHANGED noteVars
  PROVE  NotesInv'
  <1>1. /\ UNCHANGED <<type, hour, managers, notes, run, reader, runs, reads>>
    BY DEF noteVars
  <1>2. NotesType'
    BY <1>1 DEF NotesInv, NotesType
  <1>3. hour' \in Nat /\ hour <= hour'
    BY <1>1, RowsTyped
  <1> QED
    BY <1>1, <1>2, <1>3, SameRows, QuietKeeps

LEMMA AlwaysFits == NotesSpec => []NotesInv
  <1>1. NotesInit => NotesInv
    BY InitFits
  <1>2. NotesInv /\ [NotesNext]_noteVars => NotesInv'
    BY StepKeeps, StutterKeeps
  <1> QED
    BY <1>1, <1>2, PTL DEF NotesSpec

LEMMA FitsNotTwice ==
  ASSUME NotesInv
  PROVE  NotTwiceADay
  <1> SUFFICES ASSUME NEW i \in Owners, NEW j \in Owners, i < j, notes[i].item = notes[j].item,
                      notes[j].at - notes[i].at <= Recency, i \in notes[j].saw
               PROVE  Cardinality({k \in notes[j].saw : k > i}) >= Limit
    BY DEF NotTwiceADay
  <1>1. i \in Rows /\ j \in Rows /\ notes[i] \in Note /\ notes[j] \in Note
    BY RowsTyped
  <1>2. notes[i].at \in Nat /\ notes[j].at \in Nat
    BY <1>1, AtTyped
  <1>3. Overlooked(notes[j].saw, notes[j].item, notes[j].at)
    BY <1>1 DEF NotesInv, RowsInv, RowFits
  <1>4. notes[i].at >= notes[j].at - Recency
    BY <1>2, Bounds
  <1> QED
    BY <1>3, <1>4 DEF Overlooked

LEMMA FitsTold ==
  ASSUME NotesInv
  PROVE  TeamTold
  <1>1. ASSUME NEW i \in Owners, NEW m \in Team, notes[i].state = "there", m \in notes[i].due
        PROVE  \/ \E k \in Rows : notes[k].head = i /\ notes[k].to = m /\ notes[k].state = "there"
               \/ \E r \in Runs : run[r].op \in {"managers", "each"} /\ run[r].head = i
    <2>1. Told(i, m)
      BY <1>1 DEF NotesInv, ToldInv
    <2>2. ASSUME NEW k \in Rows, notes[k].head = i, notes[k].to = m PROVE notes[k].state = "there"
      BY <1>1, <2>2 DEF NotesInv, RowsInv, RowFits
    <2> QED
      BY <2>1, <2>2 DEF Told, Telling
  <1>2. \A i \in Rows : notes[i].mail = "sent" => notes[i].state = "there"
    BY DEF NotesInv, RowsInv, RowFits
  <1> QED
    BY <1>1, <1>2 DEF TeamTold

\* The owner is not told of the same thing twice within a day, unless the run that
\* tells him again could not see the first row or no longer looked so far back
\* (NotificationDomainService._has_recent_notification).
THEOREM OwnersAreToldOnceADay == NotesSpec => []NotTwiceADay
  <1>1. NotesInv => NotTwiceADay
    BY FitsNotTwice
  <1> QED
    BY <1>1, AlwaysFits, PTL

\* The managers are told with the owner, or by a run that is still at it or broke
\* off, and what a failed transaction told nobody has been sent
\* (NotificationDomainService.notify_low_stock and its siblings).
THEOREM TeamsAreTold == NotesSpec => []TeamTold
  <1>1. NotesInv => TeamTold
    BY FitsTold
  <1> QED
    BY <1>1, AlwaysFits, PTL
-----------------------------------------------------------------------------
(* The two side by side. *)

\* Whatever is done for one is no step of the other, so both keep their promises
\* when they run beside each other.
THEOREM TradeParts == Spec => BillingSpec /\ NotesSpec
  <1>1. Init => BillingInit /\ NotesInit
    BY DEF Init
  <1>2. [Next]_<<part, billingVars, noteVars>> => [BillingNext]_billingVars /\ [NotesNext]_noteVars
    BY DEF Next, billingVars, noteVars
  <1> QED
    BY <1>1, <1>2, PTL DEF Spec, BillingSpec, NotesSpec

\* Customers, invoices, notifications and the requests at work on them have the
\* types of their tables and DTOs at all times (sales_models.py, notification_models.py).
THEOREM TradeTypeCorrect == Spec => []TypeOK
  <1>1. BillingInv /\ NotesInv => TypeOK
    BY DEF TypeOK, BillingInv, NumbersInv, NotesInv
  <1> QED
    BY <1>1, TradeParts, BillingInvariant, AlwaysFits, PTL
=============================================================================
