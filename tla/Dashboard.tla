------------------------------ MODULE Dashboard ------------------------------
(***************************************************************************)
(* The owner's dashboard (application/use_cases/dashboard_use_cases.py,    *)
(* infrastructure/persistence/repositories/dashboard_repositories.py).     *)
(*                                                                         *)
(* An answer is put together from many queries in no transaction: the rows *)
(* it adds up may change between two of them.  Some queries read invoices, *)
(* some the lines of invoices, which go with their product.  A figure is   *)
(* modelled by the set of rows it adds up.  Counts of other tables         *)
(* (products, customers, members, credits), the latest sales, a cashier's  *)
(* customers and lifetime quantity, payroll, which no endpoint writes, and *)
(* the percentage a trend makes of two amounts are left out; so is a       *)
(* category that is deleted while its statistics are read.                 *)
(***************************************************************************)
EXTENDS Integers, Sequences, FiniteSets, Functions

CONSTANTS Bills,          \* invoice rows; each is made once
          Outlays,        \* expense rows; each is made once
          Products, Places, Nowhere,  \* a product is in a place: its category and subcategory
          Sales, NoSale,  \* the content of an invoice: the totals of its lines, cashier, customer, total
          Limit,          \* how many groups a list of the best names
          Owner,          \* the cashier who has no row among the members
          Second,         \* in units of the clock
          Spans,          \* the lengths of a day, a week, ...: the first is a day, the second a week
          MaxNow, MaxWrites  \* bounds: the clock, rows written

DayLength == Spans[1]
WeekLength == Spans[2]

ASSUME DashboardConstants ==
    /\ Second \in Nat \ {0} /\ MaxNow \in Nat /\ MaxWrites \in Nat /\ Limit \in Nat
    /\ Spans \in Seq(Nat) /\ Len(Spans) >= 2
    /\ \A i \in 1..Len(Spans) : Spans[i] > Second /\ Spans[i] % Spans[1] = 0
    /\ Places # {} /\ Nowhere \notin Places /\ NoSale \notin Sales
    /\ \A s \in Sales : DOMAIN s.lines \subseteq Products

VARIABLES now,
          bill,    \* bill[b]: the row
          outlay,  \* outlay[o]: when it was spent
          shelf,   \* shelf[x]: where the product is; its lines go when it does
          viewer,  \* the request being answered, or the last one that was
          writes

dashboardVars == <<now, bill, outlay, shelf, viewer, writes>>

Bill == [status : {"none", "COMPLETED", "CREDIT", "CANCELLED"}, archived : BOOLEAN,
         at : 0..MaxNow, sale : Sales \cup {NoSale}]
NoBill == [status |-> "none", archived |-> FALSE, at |-> 0, sale |-> NoSale]
NotSpent == MaxNow + 1

Endpoints == {"summary", "daily", "product", "category", "subcategory", "cashier"}
\* day: when the day began on which the request read its clock; touched: the rows written since
Resting == [kind |-> "none", subject |-> Owner, from |-> 0, to |-> 0, todo |-> <<>>,
            answer |-> [n \in {} |-> {}], day |-> 0, touched |-> {}]

DashboardInit == /\ now = 0
                 /\ bill = [b \in Bills |-> NoBill]
                 /\ outlay = [o \in Outlays |-> NotSpent]
                 /\ shelf \in [Products -> Places]
                 /\ viewer = Resting
                 /\ writes = MaxWrites

DashboardType == /\ now \in 0..MaxNow /\ writes \in 0..MaxWrites
                 /\ bill \in [Bills -> Bill] /\ outlay \in [Outlays -> 0..NotSpent]
                 /\ shelf \in [Products -> Places \cup {Nowhere}]
                 /\ viewer.kind \in Endpoints \cup {"none"}
                 /\ viewer.kind # "none" => viewer.from <= viewer.to /\ viewer.from % DayLength = 0
                 /\ viewer.touched \subseteq Bills \cup Outlays \cup Products
-----------------------------------------------------------------------------
(* The rows, as the other requests write them. *)

\* What others write while a request is answered.  An answer that is complete is gone.
Meanwhile(rows) ==
    viewer' = IF viewer.todo = <<>> THEN Resting ELSE [viewer EXCEPT !.touched = @ \cup rows]
\* A row dated after the period's end is no part of it.
Touches(row, at) == Meanwhile(IF at <= viewer.to THEN {row} ELSE {})

\* InvoiceRepositoryImpl.create
Sell(b, s, status) ==
    /\ writes > 0 /\ bill[b].status = "none" /\ \A x \in DOMAIN s.lines : shelf[x] # Nowhere
    /\ bill' = [bill EXCEPT ![b] = [status |-> status, archived |-> FALSE, at |-> now, sale |-> s]]
    /\ writes' = writes - 1 /\ Touches(b, now)
    /\ UNCHANGED <<now, outlay, shelf>>

\* InvoiceRepositoryImpl.update: paid in full, cancelled, or archived
Change(b) ==
    /\ writes > 0 /\ bill[b].status # "none"
    /\ \/ bill[b].status = "CREDIT" /\ bill' = [bill EXCEPT ![b].status = "COMPLETED"]
       \/ bill[b].status # "CANCELLED" /\ bill' = [bill EXCEPT ![b].status = "CANCELLED"]
       \/ ~bill[b].archived /\ bill' = [bill EXCEPT ![b].archived = TRUE]
    /\ writes' = writes - 1 /\ Touches(b, bill[b].at)
    /\ UNCHANGED <<now, outlay, shelf>>

\* ExpenseRepositoryImpl.create
Spend(o) ==
    /\ writes > 0 /\ outlay[o] = NotSpent
    /\ outlay' = [outlay EXCEPT ![o] = now]
    /\ writes' = writes - 1 /\ Touches(o, now)
    /\ UNCHANGED <<now, bill, shelf>>

\* DeleteProductUseCase: the lines of the product go with it, the invoices stay.  Inserted
\* again by a late update it would have no lines: to the dashboard another product.
Discard(x) ==
    /\ writes > 0 /\ shelf[x] # Nowhere
    /\ shelf' = [shelf EXCEPT ![x] = Nowhere]
    /\ writes' = writes - 1 /\ Meanwhile({x})
    /\ UNCHANGED <<now, bill, outlay>>

\* UpdateProductUseCase: to another category and subcategory
Move(x, p) ==
    /\ writes > 0 /\ shelf[x] \notin {Nowhere, p}
    /\ shelf' = [shelf EXCEPT ![x] = p]
    /\ writes' = writes - 1 /\ Meanwhile({x})
    /\ UNCHANGED <<now, bill, outlay>>

Floor(t, span) == t - (t % span)

TimePasses ==
    /\ now < MaxNow /\ now' = now + 1
    /\ Meanwhile({})
    /\ UNCHANGED <<bill, outlay, shelf, writes>>
-----------------------------------------------------------------------------
(* Periods: from the start of a day to the end of a day, or to now. *)

Least(a, b) == IF a <= b THEN a ELSE b

\* _validate_and_normalize_dates, the same in the six use cases: the days asked for, or
\* this week; refused when they end before they start, or start after now.
Period(first, last) == [from |-> first * DayLength, to |-> Least(last * DayLength + DayLength - 1, now)]
ThisWeek == [from |-> Floor(now, WeekLength), to |-> now]
Periods == {ThisWeek} \cup {Period(d[1], d[2]) : d \in {e \in (0..MaxNow) \X (0..MaxNow) :
                                                    e[1] <= e[2] /\ e[2] * DayLength <= MaxNow /\ e[1] * DayLength <= now}}

(* Variant: the previous period ends where the current one starts. *)
PreviousTouching(r) == [from |-> r.from - (r.to - r.from), to |-> r.from]

\* _calculate_previous_period, the same in the four use cases
Previous(r) == [from |-> r.from - Second - (r.to - r.from), to |-> r.from - Second]
-----------------------------------------------------------------------------
(* The queries.  A figure is named by what asks for it, what it is, and, for sums  *)
(* since midnight, since the start of the week and so on, a span; 0 is the period. *)

Within(at, p) == p.from <= at /\ at <= p.to
Since(i, r) == IF i = 0 THEN r.from ELSE Floor(now, Spans[i])
SpansAsked == 0..Len(Spans)

\* aggregate_revenue_metrics: within the period, also the sums since midnight and so on
RevenueSince(i, r) == {b \in Bills : /\ bill[b].status = "COMPLETED" /\ ~bill[b].archived
                                     /\ Within(bill[b].at, r) /\ bill[b].at >= Since(i, r)}
\* aggregate_expense_metrics
ExpensesSince(i, r) == {o \in Outlays : Within(outlay[o], r) /\ outlay[o] >= Since(i, r)}

\* The lines of invoices that there are, each with its invoice.
Lines == {l \in Bills \X Products : /\ bill[l[1]].status # "none" /\ l[2] \in DOMAIN bill[l[1]].sale.lines
                                    /\ shelf[l[2]] # Nowhere}
Of(l) == bill[l[1]]

(* Variant: archived invoices count among the best sellers. *)
TopSoldEver(r) == {l \in Lines : Of(l).status = "COMPLETED" /\ Within(Of(l).at, r)}

\* get_top_products, get_top_categories, and calculate_product_margins, which the
\* product statistics of a day are also read from
TopSold(r) == {l \in Lines : Of(l).status = "COMPLETED" /\ ~Of(l).archived /\ Within(Of(l).at, r)}

\* A list names the groups that sold for most: products, their categories as they are now,
\* customers.  Of groups that sold for the same any may be named; here it is one.
Group(by, l) == CASE by = "product" -> l[2]
                  [] by = "category" -> shelf[l[2]].category
                  [] by = "customer" -> Of(l).sale.customer
Groups(by, S) == {Group(by, l) : l \in S}
Worth(by, g, S) == LET own == {l \in S : Group(by, l) = g}
                   IN  SumFunctionOnSet([l \in own |-> Of(l).sale.lines[l[2]]], own)
Best(by, S) == CHOOSE T \in SUBSET Groups(by, S) :
                  /\ Cardinality(T) = Limit
                  /\ \A g \in T, h \in Groups(by, S) \ T : Worth(by, g, S) >= Worth(by, h, S)
Cut(by, S) == IF Cardinality(Groups(by, S)) <= Limit THEN S
              ELSE {l \in S : Group(by, l) \in Best(by, S)}

\* get_business_overview_metrics: whatever the period
Lifetime == {b \in Bills : bill[b].status = "COMPLETED" /\ ~bill[b].archived}
LifetimeExpenses == {o \in Outlays : outlay[o] # NotSpent}

\* aggregate_daily_metrics: to the end of the last day
WholeDays(r) == [from |-> r.from, to |-> Floor(r.to, DayLength) + DayLength - 1]
OnDays(r, statuses) == {b \in Bills : /\ bill[b].status \in statuses /\ ~bill[b].archived
                                      /\ Within(bill[b].at, WholeDays(r))}
ExpensesOnDays(r) == {o \in Outlays : Within(outlay[o], WholeDays(r)) /\ outlay[o] # NotSpent}
\* aggregate_daily_profits: the cost of what was sold, whatever became of the invoice
Cost(r) == {l \in Lines : ~Of(l).archived /\ Within(Of(l).at, r)}

\* What was sold in the period p of the product, of what is in the category now, by the cashier
About(kind, x, l) == CASE kind = "product" -> l[2] = x
                       [] kind = "category" -> shelf[l[2]].category = x
                       [] kind = "subcategory" -> shelf[l[2]].subcategory = x
                       [] kind = "cashier" -> Of(l).sale.cashier = x
SoldLines(kind, x, p) == {l \in Lines : /\ Of(l).status = "COMPLETED" /\ ~Of(l).archived
                                        /\ About(kind, x, l) /\ Within(Of(l).at, p)}
\* get_cashier_statistics adds up invoices, their lines for the quantities
CashierSold(k, p) == {b \in Bills : /\ bill[b].status = "COMPLETED" /\ ~bill[b].archived
                                    /\ bill[b].sale.cashier = k /\ Within(bill[b].at, p)}
\* since the cashier joined, which the owner does now
Joined(k) == IF k = Owner THEN now ELSE 0
LifetimeOf(k) == {b \in Lifetime : bill[b].sale.cashier = k /\ bill[b].at >= Joined(k)}

Amount(S) == SumFunctionOnSet([b \in S |-> bill[b].sale.total], S)
Cashiers == {s.cashier : s \in Sales}
\* get_cashier_ranking: the cashiers who sold for more; with no sales there is no rank
Above(k, own, r) == IF own = {} THEN {}
                    ELSE {c \in Cashiers \ {k} : Amount(CashierSold(c, r)) > Amount(own)}
-----------------------------------------------------------------------------
(* Answers.  A use case is the sequence of its queries; a query gives one or more figures. *)

Metrics(asker) == [i \in 1..(2 * (Len(Spans) + 1)) |->
                     IF i <= Len(Spans) + 1 THEN {<<asker, "revenue", i - 1>>}
                     ELSE {<<asker, "expenses", i - Len(Spans) - 2>>}]
\* GetDashboardSummaryUseCase: revenue, expenses, both again for the profit, the rest
Summary == Metrics("own") \o Metrics("profit")
           \o <<{<<"own", "top", 0>>}, {<<"own", "lifetime", 0>>}, {<<"own", "lifetime_expenses", 0>>}>>
\* GetDashboardDailyUseCase, after a first reading of the days that it throws away
Daily == <<{<<"own", "cost", 0>>},
           {<<"own", "completed", 0>>, <<"own", "credit", 0>>, <<"own", "sales", 0>>},
           {<<"own", "daily_expenses", 0>>}, {<<"own", "top", 0>>}, {<<"own", "categories", 0>>},
           {<<"own", "statistics", 0>>}, {<<"own", "margins", 0>>}>>
Twice(steps) == [i \in 1..Len(steps) |-> {<<"current", steps[i], 0>>}]
                \o [i \in 1..Len(steps) |-> {<<"previous", steps[i], 0>>}]
\* GetProductStatisticsUseCase, GetCategoryStatisticsUseCase, GetSubCategoryStatisticsUseCase,
\* GetCashierStatisticsUseCase: the period, then the one before it.  The cashier's days are
\* asked for before the quantities and read after them.
ProductStatistics == Twice(<<"sold", "top_customers">>)
CategoryStatistics == Twice(<<"sold", "top_products">>)
SubCategoryStatistics == Twice(<<"sold", "top_products">>)
CashierStatistics == Twice(<<"any", "quantities", "sold", "lifetime">>)
                     \o <<{<<"rank", "own", 0>>}, {<<"rank", "above", 0>>}>>
Plan == [summary |-> Summary, daily |-> Daily, product |-> ProductStatistics, category |-> CategoryStatistics,
         subcategory |-> SubCategoryStatistics, cashier |-> CashierStatistics]

PeriodOf(n, r) == IF n[1] = "previous" THEN Previous(r) ELSE r
\* Without a sale in the period a cashier's figures are all nought.
CashierFigure(n, r) ==
    IF n[1] # "rank" /\ n[2] # "any" /\ r.answer[<<n[1], "any", 0>>] = {} THEN {}
    ELSE CASE n[2] \in {"any", "sold"} -> CashierSold(r.subject, PeriodOf(n, r))
           [] n[2] = "quantities" -> SoldLines("cashier", r.subject, PeriodOf(n, r))
           [] n[2] = "lifetime" -> LifetimeOf(r.subject)
           [] n[2] = "own" -> CashierSold(r.subject, r)
           [] n[2] = "above" -> Above(r.subject, r.answer[<<"rank", "own", 0>>], r)
Figure(n, r) ==
    IF r.kind = "cashier" THEN CashierFigure(n, r)
    ELSE CASE n[2] = "sold" -> SoldLines(r.kind, r.subject, PeriodOf(n, r))
           [] n[2] = "top_customers" -> Cut("customer", SoldLines(r.kind, r.subject, PeriodOf(n, r)))
           [] n[2] = "top_products" -> Cut("product", SoldLines(r.kind, r.subject, PeriodOf(n, r)))
           [] n[2] = "revenue" -> RevenueSince(n[3], r)
           [] n[2] = "expenses" -> ExpensesSince(n[3], r)
           [] n[2] = "top" -> Cut("product", TopSold(r))
           [] n[2] = "categories" -> Cut("category", TopSold(r))
           [] n[2] \in {"statistics", "margins"} -> TopSold(r)
           [] n[2] = "lifetime" -> Lifetime
           [] n[2] = "lifetime_expenses" -> LifetimeExpenses
           [] n[2] = "cost" -> Cost(r)
           [] n[2] = "completed" -> OnDays(r, {"COMPLETED"})
           [] n[2] = "credit" -> OnDays(r, {"CREDIT"})
           [] n[2] = "sales" -> OnDays(r, {"COMPLETED", "CREDIT", "CANCELLED"})
           [] n[2] = "daily_expenses" -> ExpensesOnDays(r)

\* The statistics of a day are taken from rows that lack a date, a quantity and a cost;
\* a product deleted since it was looked up is not found.
Fails(r, n) == \/ n[2] = "statistics" /\ Figure(n, r) # {}
               \/ r.kind = "product" /\ n = <<"current", "sold", 0>> /\ shelf[r.subject] = Nowhere
Query(r) ==
    LET q == Head(r.todo) IN
    IF \E n \in q : Fails(r, n) THEN [r EXCEPT !.todo = <<>>]
    ELSE [r EXCEPT !.todo = Tail(@),
                   !.answer = [n \in q \cup DOMAIN @ |-> IF n \in q THEN Figure(n, r) ELSE @[n]]]

\* Only the owner of the business is answered, about what is in the business.
Ask(kind, subject, p) ==
    /\ viewer.todo = <<>>
    /\ viewer' = [Resting EXCEPT !.kind = kind, !.subject = subject, !.from = p.from, !.to = p.to,
                                 !.todo = Plan[kind], !.day = Floor(now, DayLength)]
    /\ UNCHANGED <<now, bill, outlay, shelf, writes>>
Reads ==
    /\ viewer.todo # <<>>
    /\ viewer' = Query(viewer)
    /\ UNCHANGED <<now, bill, outlay, shelf, writes>>

get_summary == \E p \in Periods : Ask("summary", Owner, p)
get_daily == \E p \in Periods : Ask("daily", Owner, p)
get_product_statistics == \E x \in Products, p \in Periods : shelf[x] # Nowhere /\ Ask("product", x, p)
get_category_statistics == \E h \in Places, p \in Periods : Ask("category", h.category, p)
get_subcategory_statistics == \E h \in Places, p \in Periods : Ask("subcategory", h.subcategory, p)
get_cashier_statistics == \E k \in Cashiers, p \in Periods : Ask("cashier", k, p)

DashboardNext == \/ \E b \in Bills, s \in Sales : Sell(b, s, "COMPLETED") \/ Sell(b, s, "CREDIT")
                 \/ \E b \in Bills : Change(b)
                 \/ \E o \in Outlays : Spend(o)
                 \/ \E x \in Products : Discard(x)
                 \/ \E x \in Products, p \in Places : Move(x, p)
                 \/ TimePasses
                 \/ get_summary \/ get_daily
                 \/ get_product_statistics \/ get_category_statistics
                 \/ get_subcategory_statistics \/ get_cashier_statistics
                 \/ Reads
DashboardSpec == DashboardInit /\ [][DashboardNext]_dashboardVars
-----------------------------------------------------------------------------
(* Properties. *)

Known(n) == n \in DOMAIN viewer.answer
A(who, what) == viewer.answer[<<who, what, 0>>]

\* The invoices behind a figure of sales.
Invoices(what, S) == IF viewer.kind = "cashier" /\ what # "quantities" THEN S ELSE {l[1] : l \in S}

\* A trend compares two periods that share no sale: whatever is written between the
\* queries, no sale is counted both in the period and in the one before it
\* (_calculate_previous_period, and bounds that both queries include).
PeriodsApart == \A what \in {"any", "sold", "top_customers", "top_products", "quantities"} :
    Known(<<"current", what, 0>>) /\ Known(<<"previous", what, 0>>) =>
        Invoices(what, A("current", what)) \cap Invoices(what, A("previous", what)) = {}

\* What was not written since the request read its clock: invoices, expenses; lines of
\* such invoices and of products that were not written either.
Settled(S) == S \ viewer.touched
SettledLines(S) == {l \in S : l[1] \notin viewer.touched /\ l[2] \notin viewer.touched}
LinesOf(S) == {l \in Lines : l[1] \in S}
SameDay == Floor(now, DayLength) = viewer.day
\* A list names nothing that the figure lacks, and everything while its groups are few.
ListAgrees(by, list, S) == /\ SettledLines(list) \subseteq S
                           /\ (viewer.touched = {} /\ Cardinality(Groups(by, S)) <= Limit => list = S)

\* The summary's two readings agree, sums since midnight and so on are part of the
\* period's, the best sellers are lines of its invoices, the lifetime covers it.
SummaryAgrees == viewer.kind = "summary" =>
    /\ \A what \in {"revenue", "expenses"}, i \in SpansAsked :
          LET n == <<"own", what, i>>
              again == <<"profit", what, i>> IN
          Known(n) => /\ Settled(viewer.answer[n]) \subseteq A("own", what)
                      /\ (Known(again) /\ (i = 0 \/ SameDay) =>
                            Settled(viewer.answer[again]) = Settled(viewer.answer[n]))
    /\ Known(<<"own", "top", 0>>) => ListAgrees("product", A("own", "top"), LinesOf(A("own", "revenue")))
    /\ Known(<<"own", "lifetime", 0>>) => Settled(A("own", "revenue")) \subseteq A("own", "lifetime")
    /\ Known(<<"own", "lifetime_expenses", 0>>) =>
          Settled(A("own", "expenses")) \subseteq A("own", "lifetime_expenses")

\* What counts as a sale of the days counts its cost, for the lines that are left; the
\* best sellers are lines of what was completed.
Dated(S) == {b \in S : bill[b].at <= viewer.to}
DaysAgree == viewer.kind = "daily" =>
    /\ Known(<<"own", "sales", 0>>) => SettledLines(A("own", "cost")) = SettledLines(LinesOf(Dated(A("own", "sales"))))
    /\ Known(<<"own", "top", 0>>) => ListAgrees("product", A("own", "top"), LinesOf(Dated(A("own", "completed"))))
    /\ Known(<<"own", "categories", 0>>) =>
          ListAgrees("category", A("own", "categories"), LinesOf(Dated(A("own", "completed"))))

\* The totals, the lists and the rank are over the same sales; a member's lifetime covers the period.
StatisticsAgree == viewer.kind \in {"product", "category", "subcategory", "cashier"} =>
    /\ \A which \in {"current", "previous"} : Known(<<which, "sold", 0>>) =>
          /\ Known(<<which, "any", 0>>) => Settled(A(which, "any")) = Settled(A(which, "sold"))
          /\ Known(<<which, "quantities", 0>>) =>
                SettledLines(A(which, "quantities")) = SettledLines(LinesOf(A(which, "sold")))
          /\ Known(<<which, "top_customers", 0>>) => ListAgrees("customer", A(which, "top_customers"), A(which, "sold"))
          /\ Known(<<which, "top_products", 0>>) => ListAgrees("product", A(which, "top_products"), A(which, "sold"))
    /\ Known(<<"current", "lifetime", 0>>) /\ viewer.subject # Owner =>
          Settled(A("current", "sold")) \subseteq A("current", "lifetime")
    /\ Known(<<"rank", "own", 0>>) => Settled(A("rank", "own")) = Settled(A("current", "sold"))

\* Queries written apart agree in one answer, whatever is written between them: on each
\* row that was not written since the request read its clock they say the same; sales
\* made meanwhile, after the end of the period, disturb no figure of it.  Lines of a product
\* that is gone are in none of the figures of lines, their invoices still in the others.
FiguresAgree == SummaryAgrees /\ DaysAgree /\ StatisticsAgree
=============================================================================
