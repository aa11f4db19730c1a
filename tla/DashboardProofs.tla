-------------------------- MODULE DashboardProofs --------------------------
(***************************************************************************)
(* Proofs about Dashboard.  An answer is followed query by query along its *)
(* plan: how many queries are answered, which figures that gives, and what *)
(* each figure is of the rows as they are now.  On the rows that were not  *)
(* written since the request read its clock a figure is what its query     *)
(* would give now, or, for a list of the best, part of it; that a sale     *)
(* keeps its date and its content holds always, and is all that keeps the  *)
(* two periods of a trend apart.                                           *)
(***************************************************************************)
EXTENDS Dashboard, TLAPS

\* The names of figures.
Count == Len(Spans)
Askers == {"own", "profit", "current", "previous", "rank"}
Matters == {"revenue", "expenses", "top", "lifetime", "lifetime_expenses", "cost", "completed", "credit", "sales",
            "daily_expenses", "categories", "statistics", "margins", "sold",
            "top_customers", "top_products", "any", "quantities",
            "own", "above"}
FigureNames == Askers \X Matters \X (0..Count)
Lists == Seq(SUBSET FigureNames)

\* What the assumptions say of the spans, the day and the week.
LEMMA SpansFit ==
  /\ Count \in Nat /\ Count >= 2 /\ Second \in Nat /\ Second > 0 /\ MaxNow \in Nat /\ MaxWrites \in Nat
  /\ DayLength \in Nat /\ DayLength > Second /\ WeekLength \in Nat /\ WeekLength > Second
  /\ WeekLength % DayLength = 0
  /\ \A i \in 1..Count : Spans[i] \in Nat /\ Spans[i] > Second /\ Spans[i] % DayLength = 0
  BY DashboardConstants DEF Count, DayLength, WeekLength

\* Lists of queries: joining two, their members, and the short ones.
LEMMA Joins ==
  ASSUME NEW s \in Lists, NEW t \in Lists
  PROVE  /\ s \o t \in Lists /\ Len(s \o t) = Len(s) + Len(t) /\ Len(s) \in Nat /\ Len(t) \in Nat
         /\ \A i \in 1..Len(s) : (s \o t)[i] = s[i]
         /\ \A i \in 1..Len(t) : (s \o t)[Len(s) + i] = t[i]
  BY DEF Lists

LEMMA ListOf ==
  ASSUME NEW n \in Nat, NEW f, f = [i \in 1..n |-> f[i]], \A i \in 1..n : f[i] \in SUBSET FigureNames
  PROVE  f \in Lists /\ Len(f) = n
  BY DEF Lists

LEMMA ListHas ==
  ASSUME NEW s \in Lists, NEW i \in 1..Len(s)
  PROVE  s[i] \in SUBSET FigureNames
  BY DEF Lists

LEMMA PairListed ==
  ASSUME NEW a \in SUBSET FigureNames, NEW b \in SUBSET FigureNames
  PROVE  <<a, b>> \in Lists /\ Len(<<a, b>>) = 2 /\ <<a, b>>[1] = a /\ <<a, b>>[2] = b
  BY DEF Lists

LEMMA TripleListed ==
  ASSUME NEW a \in SUBSET FigureNames, NEW b \in SUBSET FigureNames, NEW c \in SUBSET FigureNames
  PROVE  /\ <<a, b, c>> \in Lists /\ Len(<<a, b, c>>) = 3
         /\ <<a, b, c>>[1] = a /\ <<a, b, c>>[2] = b /\ <<a, b, c>>[3] = c
  BY DEF Lists

\* The names of figures.
LEMMA Named ==
  ASSUME NEW a \in Askers, NEW b \in Matters, NEW n \in 0..Count
  PROVE  {<<a, b, n>>} \in SUBSET FigureNames
  BY DEF FigureNames

LEMMA NamedZero ==
  ASSUME NEW a \in Askers, NEW b \in Matters
  PROVE  {<<a, b, 0>>} \in SUBSET FigureNames
  <1>1. 0 \in 0..Count
    BY SpansFit
  <1> QED
    BY <1>1, Named

\* The plans, query by query: first the figures of the periods, as
\* _calculate_business_metrics asks for them.
LEMMA MetricsAt ==
  ASSUME NEW asker \in Askers
  PROVE  /\ Metrics(asker) \in Lists /\ Len(Metrics(asker)) = 2 * Count + 2
         /\ \A j \in 0..Count : /\ Metrics(asker)[j + 1] = {<<asker, "revenue", j>>}
                                /\ Metrics(asker)[Count + 2 + j] = {<<asker, "expenses", j>>}
  <1> DEFINE m(i) == IF i <= Count + 1 THEN {<<asker, "revenue", i - 1>>} ELSE {<<asker, "expenses", i - Count - 2>>}
  <1>1. Metrics(asker) = [i \in 1..(2 * Count + 2) |-> m(i)]
    BY SpansFit DEF Metrics, Count
  <1>2. ASSUME NEW i \in 1..(2 * Count + 2)
        PROVE  m(i) \in SUBSET FigureNames
    <2>1. CASE i <= Count + 1
      <3>1. i - 1 \in 0..Count
        BY <2>1, SpansFit
      <3>2. m(i) = {<<asker, "revenue", i - 1>>}
        BY <2>1
      <3> QED
        BY <3>1, <3>2, Named DEF Matters
    <2>2. CASE i > Count + 1
      <3>1. i - Count - 2 \in 0..Count
        BY <2>2, SpansFit
      <3>2. m(i) = {<<asker, "expenses", i - Count - 2>>}
        BY <2>2, SpansFit
      <3> QED
        BY <3>1, <3>2, Named DEF Matters
    <2> QED
      BY <2>1, <2>2, SpansFit
  <1>3. ASSUME NEW j \in 0..Count
        PROVE  m(j + 1) = {<<asker, "revenue", j>>} /\ m(Count + 2 + j) = {<<asker, "expenses", j>>}
    <2>1. j + 1 <= Count + 1 /\ (j + 1) - 1 = j /\ ~(Count + 2 + j <= Count + 1) /\ (Count + 2 + j) - Count - 2 = j
      BY SpansFit
    <2> QED
      BY <2>1
  <1>4. \A j \in 0..Count : j + 1 \in 1..(2 * Count + 2) /\ Count + 2 + j \in 1..(2 * Count + 2)
    BY SpansFit
  <1> HIDE DEF m
  <1> QED
    BY <1>1, <1>2, <1>3, <1>4, SpansFit DEF Lists

\* The summary asks for its own metrics, for those of the profit, and three more.
LEMMA SummaryAt ==
  /\ Summary \in Lists /\ Len(Summary) = 4 * Count + 7
  /\ \A j \in 0..Count : /\ Summary[j + 1] = {<<"own", "revenue", j>>}
                         /\ Summary[Count + 2 + j] = {<<"own", "expenses", j>>}
                         /\ Summary[2 * Count + 3 + j] = {<<"profit", "revenue", j>>}
                         /\ Summary[3 * Count + 4 + j] = {<<"profit", "expenses", j>>}
  /\ Summary[4 * Count + 5] = {<<"own", "top", 0>>}
  /\ Summary[4 * Count + 6] = {<<"own", "lifetime", 0>>}
  /\ Summary[4 * Count + 7] = {<<"own", "lifetime_expenses", 0>>}
  <1> DEFINE own == Metrics("own")
             profit == Metrics("profit")
             rest == <<{<<"own", "top", 0>>}, {<<"own", "lifetime", 0>>}, {<<"own", "lifetime_expenses", 0>>}>>
  <1>1. own \in Lists /\ profit \in Lists /\ Len(own) = 2 * Count + 2 /\ Len(profit) = 2 * Count + 2
    BY MetricsAt DEF Askers
  <1>2. rest \in Lists /\ Len(rest) = 3 /\ rest[1] = {<<"own", "top", 0>>} /\ rest[2] = {<<"own", "lifetime", 0>>}
        /\ rest[3] = {<<"own", "lifetime_expenses", 0>>}
    <2>1. {<<"own", "top", 0>>} \in SUBSET FigureNames /\ {<<"own", "lifetime", 0>>} \in SUBSET FigureNames
          /\ {<<"own", "lifetime_expenses", 0>>} \in SUBSET FigureNames
      BY NamedZero DEF Askers, Matters
    <2> QED
      BY <2>1, TripleListed
  <1>3. \A j \in 0..Count : /\ own[j + 1] = {<<"own", "revenue", j>>}
                            /\ own[Count + 2 + j] = {<<"own", "expenses", j>>}
                            /\ profit[j + 1] = {<<"profit", "revenue", j>>}
                            /\ profit[Count + 2 + j] = {<<"profit", "expenses", j>>}
    BY MetricsAt DEF Askers
  <1>4. Summary = (own \o profit) \o rest
    BY DEF Summary
  <1> HIDE DEF own, profit, rest
  <1> DEFINE both == own \o profit
  <1>5. /\ both \in Lists /\ Len(both) = 4 * Count + 4
        /\ \A i \in 1..(2 * Count + 2) : both[i] = own[i] /\ both[2 * Count + 2 + i] = profit[i]
    <2>1. 2 * Count + 2 \in Nat /\ (2 * Count + 2) + (2 * Count + 2) = 4 * Count + 4
      BY SpansFit
    <2>2. /\ own \o profit \in Lists /\ Len(own \o profit) = Len(own) + Len(profit)
          /\ Len(own) \in Nat /\ Len(profit) \in Nat
          /\ \A i \in 1..Len(own) : (own \o profit)[i] = own[i]
          /\ \A i \in 1..Len(profit) : (own \o profit)[Len(own) + i] = profit[i]
      BY ONLY <1>1, Joins, Zenon
    <2> QED
      BY <1>1, <2>1, <2>2
  <1>6. Summary = both \o rest
    BY <1>4
  <1> HIDE DEF both
  <1>7. /\ Summary \in Lists /\ Len(Summary) = 4 * Count + 7
        /\ \A i \in 1..(4 * Count + 4) : Summary[i] = both[i]
        /\ \A i \in 1..3 : Summary[4 * Count + 4 + i] = rest[i]
    <2>1. PICK m \in Nat : m = 4 * Count + 4
      BY SpansFit
    <2>2. m + 3 = 4 * Count + 7
      BY <2>1, SpansFit
    <2>3. both \in Lists /\ rest \in Lists /\ Len(both) = m /\ Len(rest) = 3
      BY <1>2, <1>5, <2>1
    <2>4. /\ both \o rest \in Lists /\ Len(both \o rest) = m + 3
          /\ \A i \in 1..m : (both \o rest)[i] = both[i]
          /\ \A i \in 1..3 : (both \o rest)[m + i] = rest[i]
      <3>1. /\ both \o rest \in Lists /\ Len(both \o rest) = Len(both) + Len(rest)
            /\ Len(both) \in Nat /\ Len(rest) \in Nat
            /\ \A i \in 1..Len(both) : (both \o rest)[i] = both[i]
            /\ \A i \in 1..Len(rest) : (both \o rest)[Len(both) + i] = rest[i]
        BY ONLY <2>3, Joins, Zenon
      <3> QED
        BY <2>3, <3>1
    <2> QED
      BY <1>6, <2>1, <2>2, <2>4
  <1>8. ASSUME NEW j \in 0..Count
        PROVE  /\ Summary[j + 1] = own[j + 1] /\ Summary[Count + 2 + j] = own[Count + 2 + j]
               /\ Summary[2 * Count + 3 + j] = profit[j + 1] /\ Summary[3 * Count + 4 + j] = profit[Count + 2 + j]
    <2>1. j + 1 \in 1..(2 * Count + 2) /\ Count + 2 + j \in 1..(2 * Count + 2)
      BY SpansFit
    <2>2. 2 * Count + 2 + (j + 1) = 2 * Count + 3 + j /\ 2 * Count + 2 + (Count + 2 + j) = 3 * Count + 4 + j
      BY SpansFit
    <2>3. \A i \in 1..(2 * Count + 2) : i \in 1..(4 * Count + 4) /\ 2 * Count + 2 + i \in 1..(4 * Count + 4)
      BY SpansFit
    <2> QED
      BY <1>5, <1>7, <2>1, <2>2, <2>3
  <1>9. Summary[4 * Count + 5] = rest[1] /\ Summary[4 * Count + 6] = rest[2] /\ Summary[4 * Count + 7] = rest[3]
    <2>1. /\ (4 * Count + 4) + 1 = 4 * Count + 5 /\ (4 * Count + 4) + 2 = 4 * Count + 6
          /\ (4 * Count + 4) + 3 = 4 * Count + 7
      BY SpansFit
    <2> QED
      BY <1>7, <2>1
  <1> QED
    BY <1>2, <1>3, <1>7, <1>8, <1>9

\* A comparison asks the same of the current and of the previous period.
LEMMA TwiceAt ==
  ASSUME NEW steps \in Seq(Matters)
  PROVE  /\ Twice(steps) \in Lists /\ Len(Twice(steps)) = 2 * Len(steps)
         /\ \A i \in 1..Len(steps) : /\ Twice(steps)[i] = {<<"current", steps[i], 0>>}
                                     /\ Twice(steps)[Len(steps) + i] = {<<"previous", steps[i], 0>>}
  <1> DEFINE one == [i \in 1..Len(steps) |-> {<<"current", steps[i], 0>>}]
             two == [i \in 1..Len(steps) |-> {<<"previous", steps[i], 0>>}]
  <1>1. one \in Lists /\ two \in Lists /\ Len(one) = Len(steps) /\ Len(two) = Len(steps)
    <2>1. \A i \in 1..Len(steps) : steps[i] \in Matters
      OBVIOUS
    <2>2. \A i \in 1..Len(steps) : /\ {<<"current", steps[i], 0>>} \in SUBSET FigureNames
                                    /\ {<<"previous", steps[i], 0>>} \in SUBSET FigureNames
      BY <2>1, NamedZero DEF Askers
    <2>3. Len(steps) \in Nat
      OBVIOUS
    <2>4. /\ one = [i \in 1..Len(steps) |-> one[i]] /\ two = [i \in 1..Len(steps) |-> two[i]]
          /\ \A i \in 1..Len(steps) : one[i] \in SUBSET FigureNames /\ two[i] \in SUBSET FigureNames
      BY <2>2
    <2> HIDE DEF one, two
    <2> QED
      BY <2>3, <2>4, ListOf
  <1>2. Twice(steps) = one \o two
    BY DEF Twice
  <1>3. \A i \in 1..Len(steps) : one[i] = {<<"current", steps[i], 0>>} /\ two[i] = {<<"previous", steps[i], 0>>}
    OBVIOUS
  <1>4. Len(steps) \in Nat
    OBVIOUS
  <1> HIDE DEF one, two
  <1>5. /\ one \o two \in Lists /\ Len(one \o two) = Len(steps) + Len(steps)
        /\ \A i \in 1..Len(steps) : (one \o two)[i] = one[i] /\ (one \o two)[Len(steps) + i] = two[i]
    <2>1. /\ one \o two \in Lists /\ Len(one \o two) = Len(one) + Len(two) /\ Len(one) \in Nat /\ Len(two) \in Nat
          /\ \A i \in 1..Len(one) : (one \o two)[i] = one[i]
          /\ \A i \in 1..Len(two) : (one \o two)[Len(one) + i] = two[i]
      BY ONLY <1>1, Joins, Zenon
    <2> QED
      BY <1>1, <1>4, <2>1
  <1>6. Len(steps) + Len(steps) = 2 * Len(steps)
    BY <1>4
  <1>7. /\ one \o two \in Lists /\ Len(one \o two) = 2 * Len(steps)
        /\ \A i \in 1..Len(steps) : /\ (one \o two)[i] = {<<"current", steps[i], 0>>}
                                    /\ (one \o two)[Len(steps) + i] = {<<"previous", steps[i], 0>>}
    BY ONLY <1>3, <1>5, <1>6, Zenon
  <1> QED
    BY ONLY <1>2, <1>7, Zenon

\* A comparison of two queries each has four.
LEMMA FourAt ==
  ASSUME NEW a \in Matters, NEW b \in Matters, NEW P, P = Twice(<<a, b>>)
  PROVE  /\ P \in Lists /\ Len(P) = 4
         /\ P[1] = {<<"current", a, 0>>} /\ P[2] = {<<"current", b, 0>>}
         /\ P[3] = {<<"previous", a, 0>>} /\ P[4] = {<<"previous", b, 0>>}
  <1>1. PICK steps : steps = <<a, b>>
    OBVIOUS
  <1>2. steps \in Seq(Matters) /\ Len(steps) = 2 /\ steps[1] = a /\ steps[2] = b
    BY <1>1
  <1>3. /\ Twice(steps) \in Lists /\ Len(Twice(steps)) = 4
        /\ \A i \in 1..2 : /\ Twice(steps)[i] = {<<"current", steps[i], 0>>}
                            /\ Twice(steps)[2 + i] = {<<"previous", steps[i], 0>>}
    <2>1. /\ Twice(steps) \in Lists /\ Len(Twice(steps)) = 2 * Len(steps)
          /\ \A i \in 1..Len(steps) : /\ Twice(steps)[i] = {<<"current", steps[i], 0>>}
                                      /\ Twice(steps)[Len(steps) + i] = {<<"previous", steps[i], 0>>}
      BY ONLY <1>2, TwiceAt, Zenon
    <2> QED
      BY <1>2, <2>1
  <1>4. /\ Twice(steps)[1] = {<<"current", steps[1], 0>>} /\ Twice(steps)[2] = {<<"current", steps[2], 0>>}
        /\ Twice(steps)[2 + 1] = {<<"previous", steps[1], 0>>} /\ Twice(steps)[2 + 2] = {<<"previous", steps[2], 0>>}
    BY <1>3
  <1> QED
    BY <1>1, <1>2, <1>3, <1>4

\* The ten queries about a cashier.
LEMMA CashierAt ==
  LET P == CashierStatistics IN
  /\ P \in Lists /\ Len(P) = 10
  /\ P[1] = {<<"current", "any", 0>>} /\ P[2] = {<<"current", "quantities", 0>>}
  /\ P[3] = {<<"current", "sold", 0>>} /\ P[4] = {<<"current", "lifetime", 0>>}
  /\ P[5] = {<<"previous", "any", 0>>} /\ P[6] = {<<"previous", "quantities", 0>>}
  /\ P[7] = {<<"previous", "sold", 0>>} /\ P[8] = {<<"previous", "lifetime", 0>>}
  /\ P[9] = {<<"rank", "own", 0>>} /\ P[10] = {<<"rank", "above", 0>>}
  <1>1. PICK steps : steps = <<"any", "quantities", "sold", "lifetime">>
    OBVIOUS
  <1>2. /\ steps \in Seq(Matters) /\ Len(steps) = 4 /\ steps[1] = "any" /\ steps[2] = "quantities"
        /\ steps[3] = "sold" /\ steps[4] = "lifetime"
    BY <1>1 DEF Matters
  <1>3. PICK both : both = Twice(steps)
    OBVIOUS
  <1>4. /\ both \in Lists /\ Len(both) = 8
        /\ \A i \in 1..4 : both[i] = {<<"current", steps[i], 0>>} /\ both[4 + i] = {<<"previous", steps[i], 0>>}
    <2>1. /\ Twice(steps) \in Lists /\ Len(Twice(steps)) = 2 * Len(steps)
          /\ \A i \in 1..Len(steps) : /\ Twice(steps)[i] = {<<"current", steps[i], 0>>}
                                      /\ Twice(steps)[Len(steps) + i] = {<<"previous", steps[i], 0>>}
      BY ONLY <1>2, TwiceAt, Zenon
    <2> QED
      BY <1>2, <1>3, <2>1
  <1>5. /\ both[1] = {<<"current", "any", 0>>} /\ both[2] = {<<"current", "quantities", 0>>}
        /\ both[3] = {<<"current", "sold", 0>>} /\ both[4] = {<<"current", "lifetime", 0>>}
        /\ both[4 + 1] = {<<"previous", "any", 0>>} /\ both[4 + 2] = {<<"previous", "quantities", 0>>}
        /\ both[4 + 3] = {<<"previous", "sold", 0>>} /\ both[4 + 4] = {<<"previous", "lifetime", 0>>}
    BY <1>2, <1>4
  <1>6. PICK rank : rank = <<{<<"rank", "own", 0>>}, {<<"rank", "above", 0>>}>>
    OBVIOUS
  <1>7. rank \in Lists /\ Len(rank) = 2 /\ rank[1] = {<<"rank", "own", 0>>} /\ rank[2] = {<<"rank", "above", 0>>}
    <2>1. {<<"rank", "own", 0>>} \in SUBSET FigureNames /\ {<<"rank", "above", 0>>} \in SUBSET FigureNames
      BY NamedZero DEF Askers, Matters
    <2> QED
      BY <1>6, <2>1, PairListed
  <1>8. CashierStatistics = both \o rank
    BY <1>1, <1>3, <1>6 DEF CashierStatistics
  <1>9. /\ CashierStatistics \in Lists /\ Len(CashierStatistics) = 10
        /\ \A i \in 1..8 : CashierStatistics[i] = both[i]
        /\ \A i \in 1..2 : CashierStatistics[8 + i] = rank[i]
    <2>1. /\ both \o rank \in Lists /\ Len(both \o rank) = Len(both) + Len(rank) /\ Len(both) \in Nat /\ Len(rank) \in Nat
          /\ \A i \in 1..Len(both) : (both \o rank)[i] = both[i]
          /\ \A i \in 1..Len(rank) : (both \o rank)[Len(both) + i] = rank[i]
      BY ONLY <1>4, <1>7, Joins, Zenon
    <2> QED
      BY <1>4, <1>7, <1>8, <2>1
  <1>10. CashierStatistics[8 + 1] = rank[1] /\ CashierStatistics[8 + 2] = rank[2]
    BY <1>9
  <1> QED
    BY <1>5, <1>7, <1>9, <1>10

\* The seven queries of a day.
LEMMA DailyAt ==
  LET P == Daily IN
  /\ P \in Lists /\ Len(P) = 7
  /\ P[1] = {<<"own", "cost", 0>>}
  /\ P[2] = {<<"own", "completed", 0>>, <<"own", "credit", 0>>, <<"own", "sales", 0>>}
  /\ P[3] = {<<"own", "daily_expenses", 0>>} /\ P[4] = {<<"own", "top", 0>>}
  /\ P[5] = {<<"own", "categories", 0>>} /\ P[6] = {<<"own", "statistics", 0>>} /\ P[7] = {<<"own", "margins", 0>>}
  <1>1. /\ {<<"own", "cost", 0>>} \in SUBSET FigureNames /\ {<<"own", "daily_expenses", 0>>} \in SUBSET FigureNames
        /\ {<<"own", "top", 0>>} \in SUBSET FigureNames /\ {<<"own", "statistics", 0>>} \in SUBSET FigureNames
        /\ {<<"own", "margins", 0>>} \in SUBSET FigureNames /\ {<<"own", "categories", 0>>} \in SUBSET FigureNames
    BY NamedZero DEF Askers, Matters
  <1>2. {<<"own", "completed", 0>>, <<"own", "credit", 0>>, <<"own", "sales", 0>>} \in SUBSET FigureNames
    <2>1. /\ {<<"own", "completed", 0>>} \in SUBSET FigureNames /\ {<<"own", "credit", 0>>} \in SUBSET FigureNames
          /\ {<<"own", "sales", 0>>} \in SUBSET FigureNames
      BY NamedZero DEF Askers, Matters
    <2> QED
      BY <2>1
  <1>3. ASSUME NEW a \in SUBSET FigureNames, NEW b \in SUBSET FigureNames, NEW c \in SUBSET FigureNames,
               NEW d \in SUBSET FigureNames, NEW e \in SUBSET FigureNames, NEW f \in SUBSET FigureNames,
               NEW g \in SUBSET FigureNames
        PROVE  LET P == <<a, b, c, d, e, f, g>> IN
               /\ P \in Lists /\ Len(P) = 7 /\ P[1] = a /\ P[2] = b /\ P[3] = c /\ P[4] = d /\ P[5] = e
               /\ P[6] = f /\ P[7] = g
    BY DEF Lists
  <1> QED
    BY <1>1, <1>2, <1>3 DEF Daily

Statistics == {"product", "category", "subcategory", "cashier"}
SaleFigures == {"any", "sold", "top_customers", "top_products", "quantities"}

SummaryMatters == {"revenue", "expenses", "top", "lifetime", "lifetime_expenses"}
DailyMatters == {"cost", "completed", "credit", "sales", "daily_expenses", "top", "categories", "statistics", "margins"}
SoldMatters(kind) == IF kind = "cashier" THEN {"any", "sold", "quantities", "lifetime"}
                                         ELSE {"sold", "top_customers", "top_products"}

\* A figure that the use case kind may ask for.
MayAsk(kind, n) ==
  /\ n \in FigureNames /\ n = <<n[1], n[2], n[3]>>
  /\ kind = "summary" => n[1] \in {"own", "profit"} /\ n[2] \in SummaryMatters
  /\ kind = "daily" => n[1] = "own" /\ n[2] \in DailyMatters
  /\ kind \in Statistics => \/ n[1] \in {"current", "previous"} /\ n[2] \in SoldMatters(kind)
                            \/ n[1] = "rank" /\ n[2] \in {"own", "above"} /\ kind = "cashier"

\* What a plan asks for.
PlanFits(kind) == /\ Plan[kind] \in Lists
                  /\ \A i \in 1..Len(Plan[kind]) : \A n \in Plan[kind][i] : MayAsk(kind, n)

\* A figure is known by its asker, its matter and its span.
LEMMA NamesOf ==
  \A n \in FigureNames : n = <<n[1], n[2], n[3]>> /\ n[1] \in Askers /\ n[2] \in Matters /\ n[3] \in 0..Count
  BY DEF FigureNames

\* Each plan asks for figures of its own use case.
LEMMA SummaryFits == PlanFits("summary")
  <1> DEFINE P == Summary
  <1>1. P \in Lists /\ Len(P) = 4 * Count + 7
    BY SummaryAt
  <1>2. ASSUME NEW i \in 1..Len(P), NEW n \in P[i]
        PROVE  n[1] \in {"own", "profit"} /\ n[2] \in {"revenue", "expenses", "top", "lifetime", "lifetime_expenses"}
    <2>1. CASE i <= Count + 1
      <3>1. i - 1 \in 0..Count /\ (i - 1) + 1 = i
        BY <2>1, <1>1, SpansFit
      <3>2. P[i] = {<<"own", "revenue", i - 1>>}
        BY <3>1, SummaryAt
      <3> QED
        BY <3>2
    <2>2. CASE Count + 1 < i /\ i <= 2 * Count + 2
      <3>1. i - Count - 2 \in 0..Count /\ Count + 2 + (i - Count - 2) = i
        BY <2>2, <1>1, SpansFit
      <3>2. P[i] = {<<"own", "expenses", i - Count - 2>>}
        BY <3>1, SummaryAt
      <3> QED
        BY <3>2
    <2>3. CASE 2 * Count + 2 < i /\ i <= 3 * Count + 3
      <3>1. i - 2 * Count - 3 \in 0..Count /\ 2 * Count + 3 + (i - 2 * Count - 3) = i
        BY <2>3, <1>1, SpansFit
      <3>2. P[i] = {<<"profit", "revenue", i - 2 * Count - 3>>}
        BY <3>1, SummaryAt
      <3> QED
        BY <3>2
    <2>4. CASE 3 * Count + 3 < i /\ i <= 4 * Count + 4
      <3>1. i - 3 * Count - 4 \in 0..Count /\ 3 * Count + 4 + (i - 3 * Count - 4) = i
        BY <2>4, <1>1, SpansFit
      <3>2. P[i] = {<<"profit", "expenses", i - 3 * Count - 4>>}
        BY <3>1, SummaryAt
      <3> QED
        BY <3>2
    <2>5. CASE i \in {4 * Count + 5, 4 * Count + 6, 4 * Count + 7}
      BY <2>5, SummaryAt
    <2> QED
      BY <1>1, <2>1, <2>2, <2>3, <2>4, <2>5, SpansFit
  <1>3. \A i \in 1..Len(P) : P[i] \in SUBSET FigureNames
    BY <1>1 DEF Lists
  <1>4. Plan["summary"] = P
    BY DEF Plan
  <1> HIDE DEF P
  <1> QED
    BY <1>1, <1>2, <1>3, <1>4, NamesOf DEF PlanFits, Statistics, MayAsk, SummaryMatters, DailyMatters,
       SoldMatters

LEMMA DailyFits == PlanFits("daily")
  <1>1. PICK P : P = Daily
    OBVIOUS
  <1>2. /\ P \in Lists /\ Len(P) = 7
        /\ P[1] = {<<"own", "cost", 0>>}
        /\ P[2] = {<<"own", "completed", 0>>, <<"own", "credit", 0>>, <<"own", "sales", 0>>}
        /\ P[3] = {<<"own", "daily_expenses", 0>>} /\ P[4] = {<<"own", "top", 0>>}
        /\ P[5] = {<<"own", "categories", 0>>} /\ P[6] = {<<"own", "statistics", 0>>} /\ P[7] = {<<"own", "margins", 0>>}
    BY <1>1, DailyAt
  <1>3. \A i \in 1..7 : P[i] \in SUBSET FigureNames
    BY <1>2 DEF Lists
  <1>4. ASSUME NEW i \in 1..7, NEW n \in P[i]
        PROVE  n[1] = "own" /\ n[2] \in DailyMatters
    <2>1. i = 1 \/ i = 2 \/ i = 3 \/ i = 4 \/ i = 5 \/ i = 6 \/ i = 7
      OBVIOUS
    <2> QED
      BY <1>2, <2>1 DEF DailyMatters
  <1>5. Plan["daily"] = P
    BY <1>1 DEF Plan
  <1> QED
    BY <1>2, <1>3, <1>4, <1>5, NamesOf DEF PlanFits, Statistics, MayAsk, SummaryMatters, DailyMatters,
       SoldMatters

LEMMA FourFits ==
  ASSUME NEW kind \in Statistics \ {"cashier"}
  PROVE  /\ PlanFits(kind) /\ Len(Plan[kind]) = 4
         /\ Plan[kind][1] = {<<"current", "sold", 0>>} /\ Plan[kind][3] = {<<"previous", "sold", 0>>}
  <1>1. PICK a \in {"top_customers", "top_products"} : Plan[kind] = Twice(<<"sold", a>>)
    BY DEF Statistics, Plan, ProductStatistics, CategoryStatistics, SubCategoryStatistics
  <1>2. PICK P : P = Plan[kind]
    OBVIOUS
  <1>3. /\ P \in Lists /\ Len(P) = 4
        /\ P[1] = {<<"current", "sold", 0>>} /\ P[2] = {<<"current", a, 0>>}
        /\ P[3] = {<<"previous", "sold", 0>>} /\ P[4] = {<<"previous", a, 0>>}
    <2>1. a \in Matters /\ "sold" \in Matters
      BY DEF Matters
    <2>2. P = Twice(<<"sold", a>>)
      BY <1>1, <1>2
    <2> QED
      BY ONLY <2>1, <2>2, FourAt
  <1>4. \A i \in 1..4 : P[i] \in SUBSET FigureNames
    BY <1>3 DEF Lists
  <1>5. ASSUME NEW i \in 1..4, NEW n \in P[i]
        PROVE  n[1] \in {"current", "previous"} /\ n[2] \in {"sold", "top_customers", "top_products"}
    <2>1. i = 1 \/ i = 2 \/ i = 3 \/ i = 4
      OBVIOUS
    <2> QED
      BY <1>3, <2>1
  <1>6. kind # "summary" /\ kind # "daily" /\ kind # "cashier"
    BY DEF Statistics
  <1> QED
    BY <1>2, <1>3, <1>4, <1>5, <1>6, NamesOf DEF PlanFits, MayAsk, SummaryMatters, DailyMatters, SoldMatters

LEMMA CashierFits == PlanFits("cashier")
  <1>1. PICK P : P = CashierStatistics
    OBVIOUS
  <1>2. /\ P \in Lists /\ Len(P) = 10
        /\ P[1] = {<<"current", "any", 0>>} /\ P[2] = {<<"current", "quantities", 0>>}
        /\ P[3] = {<<"current", "sold", 0>>} /\ P[4] = {<<"current", "lifetime", 0>>}
        /\ P[5] = {<<"previous", "any", 0>>} /\ P[6] = {<<"previous", "quantities", 0>>}
        /\ P[7] = {<<"previous", "sold", 0>>} /\ P[8] = {<<"previous", "lifetime", 0>>}
        /\ P[9] = {<<"rank", "own", 0>>} /\ P[10] = {<<"rank", "above", 0>>}
    BY <1>1, CashierAt
  <1>3. \A i \in 1..10 : P[i] \in SUBSET FigureNames
    <2>1. P \in Lists /\ Len(P) = 10
      BY <1>2
    <2> QED
      BY ONLY <2>1, ListHas
  <1>4. ASSUME NEW i \in 1..10, NEW n \in P[i]
        PROVE  \/ n[1] \in {"current", "previous"} /\ n[2] \in {"any", "sold", "quantities", "lifetime"}
               \/ n[1] = "rank" /\ n[2] \in {"own", "above"}
    <2>1. i = 1 \/ i = 2 \/ i = 3 \/ i = 4 \/ i = 5 \/ i = 6 \/ i = 7 \/ i = 8 \/ i = 9 \/ i = 10
      OBVIOUS
    <2> QED
      BY <1>2, <2>1
  <1>5. Plan["cashier"] = P
    BY <1>1 DEF Plan
  <1> QED
    BY <1>2, <1>3, <1>4, <1>5, NamesOf DEF PlanFits, MayAsk, SummaryMatters, DailyMatters, SoldMatters

LEMMA PlansFit == \A kind \in Endpoints : PlanFits(kind)
  BY SummaryFits, DailyFits, FourFits, CashierFits DEF Endpoints, Statistics

-----------------------------------------------------------------------------
\* Division by a positive number.
LEMMA Division ==
  ASSUME NEW a \in Int, NEW d \in Nat \ {0}
  PROVE  a = (d * (a \div d)) + (a % d) /\ (a % d) \in 0..(d - 1) /\ a \div d \in Int
  OBVIOUS

LEMMA Multiple ==
  ASSUME NEW k \in Int, NEW d \in Nat \ {0}
  PROVE  (d * k) % d = 0
  OBVIOUS

\* What divides a span of whole days leaves whole days.
LEMMA WholeDaysOnly ==
  ASSUME NEW a \in Int, NEW s \in Nat \ {0}, NEW d \in Nat \ {0}, (a % s) = 0, (s % d) = 0
  PROVE  (a % d) = 0
  <1>1. PICK p \in Int : a = s * p
    <2>1. a = (s * (a \div s)) + (a % s) /\ a \div s \in Int
      OBVIOUS
    <2>2. a = s * (a \div s)
      BY <2>1
    <2> QED
      BY <2>1, <2>2
  <1>2. PICK q \in Int : s = d * q
    <2>1. s = (d * (s \div d)) + (s % d) /\ s \div d \in Int
      OBVIOUS
    <2>2. s = d * (s \div d)
      BY <2>1
    <2> QED
      BY <2>1, <2>2
  <1>3. a = d * (q * p) /\ q * p \in Int
    BY <1>1, <1>2
  <1> QED
    BY <1>3, Multiple

\* The floor of an instant begins a span that holds the instant.
LEMMA FloorIs ==
  ASSUME NEW t \in Nat, NEW s \in Nat \ {0}
  PROVE  Floor(t, s) \in Nat /\ Floor(t, s) <= t /\ t <= Floor(t, s) + s - 1 /\ (Floor(t, s) % s) = 0
  <1>1. Floor(t, s) = s * (t \div s) /\ t \div s \in Int
    BY Division DEF Floor
  <1>2. (Floor(t, s) % s) = 0
    BY <1>1, Multiple
  <1>3. (t % s) \in 0..(s - 1) /\ t \div s >= 0
    OBVIOUS
  <1>4. s * (t \div s) >= 0
    BY <1>1, <1>3
  <1> QED
    BY <1>1, <1>2, <1>3, <1>4 DEF Floor

\* A span of whole days begins anew only at a midnight.
LEMMA FloorStays ==
  ASSUME NEW t \in Nat, NEW s \in Nat \ {0}, NEW d \in Nat \ {0}, (s % d) = 0, Floor(t + 1, d) # t + 1
  PROVE  Floor(t + 1, s) = Floor(t, s)
  <1>1. ((t + 1) % d) # 0
    BY DEF Floor
  <1>3. PICK q, m : q = t \div s /\ m = (t % s)
    OBVIOUS
  <1>0. PICK u \in Int : u = t + 1
    OBVIOUS
  <1>2. (u % s) # 0
    <2>1. (u % d) # 0 /\ u \in Int /\ s \in Nat \ {0} /\ d \in Nat \ {0} /\ (s % d) = 0
      BY <1>0, <1>1
    <2> QED
      BY ONLY <2>1, WholeDaysOnly, Zenon
  <1>4. PICK p, n : p = u \div s /\ n = (u % s)
    OBVIOUS
  <1>5. q \in Int /\ m \in 0..(s - 1) /\ t = (s * q) + m
    BY <1>3
  <1>6. p \in Int /\ n \in 0..(s - 1) /\ u = (s * p) + n
    BY <1>4
  <1>7. s * (p - q) = m + 1 - n /\ n # 0
    BY <1>0, <1>2, <1>4, <1>5, <1>6
  <1>8. p - q >= 1 => s * (p - q) >= s
    BY <1>5, <1>6
  <1>9. p - q <= -1 => s * (p - q) <= -s
    BY <1>5, <1>6
  <1>10. p = q
    BY <1>5, <1>6, <1>7, <1>8, <1>9
  <1>11. Floor(t + 1, s) = (t + 1) - n /\ Floor(t, s) = t - m
    BY <1>0, <1>3, <1>4 DEF Floor
  <1> QED
    BY <1>0, <1>5, <1>6, <1>10, <1>11

\* The invoices dated from lo to hi, by status and as they are now.
Between(statuses, lo, hi) == {b \in Bills : /\ bill[b].status \in statuses /\ ~bill[b].archived
                                            /\ lo <= bill[b].at /\ bill[b].at <= hi}
Rows(statuses, p) == Between(statuses, p.from, p.to)
Paid(p) == Rows({"COMPLETED"}, p)
Statuses == {"COMPLETED", "CREDIT", "CANCELLED"}
Written == {b \in Bills : bill[b].status # "none"}
CashierPaid(p) == {b \in Paid(p) : bill[b].sale.cashier = viewer.subject}
AskedLines(p) == {l \in LinesOf(Paid(p)) : About(viewer.kind, viewer.subject, l)}
Fresh(n) == n[3] = 0 \/ SameDay

\* What a figure is now of the rows that were not written.
SummaryStands(n, S) ==
  /\ n[2] = "revenue" => /\ Settled(S) \subseteq Paid(viewer)
                         /\ Fresh(n) => Settled(S) = Settled({b \in Paid(viewer) : bill[b].at >= Since(n[3], viewer)})
  /\ n[2] = "expenses" => /\ Settled(S) \subseteq ExpensesSince(0, viewer)
                          /\ Fresh(n) => Settled(S) = Settled(ExpensesSince(n[3], viewer))
  /\ n[2] = "top" => ListAgrees("product", S, LinesOf(Paid(viewer)))
  /\ n[2] = "lifetime" => Settled(Paid(viewer)) \subseteq S
  /\ n[2] = "lifetime_expenses" => Settled(ExpensesSince(0, viewer)) \subseteq S
DailyStands(n, S) ==
  /\ n[2] = "cost" => SettledLines(S) = SettledLines(LinesOf(Rows(Statuses, viewer)))
  /\ n[2] = "top" => ListAgrees("product", S, LinesOf(Paid(viewer)))
  /\ n[2] = "categories" => ListAgrees("category", S, LinesOf(Paid(viewer)))
  /\ n[2] = "completed" => S \subseteq Written /\ Settled(Dated(S)) = Settled(Paid(viewer))
  /\ n[2] = "sales" => S \subseteq Written /\ Settled(Dated(S)) = Settled(Rows(Statuses, viewer))
CashierStands(n, S) ==
  /\ n[2] \in {"any", "sold", "own"} => Settled(S) = Settled(CashierPaid(PeriodOf(n, viewer)))
  /\ n[2] = "quantities" => SettledLines(S) = SettledLines(LinesOf(CashierPaid(PeriodOf(n, viewer))))
  /\ n = <<"current", "lifetime", 0>> /\ viewer.subject # Owner => Settled(CashierPaid(viewer)) \subseteq S
LinesStand(n, S) ==
  /\ n[2] = "sold" => SettledLines(S) = SettledLines(AskedLines(PeriodOf(n, viewer)))
  /\ n[2] = "top_customers" => ListAgrees("customer", S, AskedLines(PeriodOf(n, viewer)))
  /\ n[2] = "top_products" => ListAgrees("product", S, AskedLines(PeriodOf(n, viewer)))
ByLine == {"product", "category", "subcategory"}
Stands(n, S) ==
  /\ viewer.kind = "summary" => SummaryStands(n, S)
  /\ viewer.kind = "daily" => DailyStands(n, S)
  /\ viewer.kind = "cashier" => CashierStands(n, S)
  /\ viewer.kind \in ByLine => LinesStand(n, S)

ViewerFits ==
  /\ viewer = [kind |-> viewer.kind, subject |-> viewer.subject, from |-> viewer.from, to |-> viewer.to,
               todo |-> viewer.todo, answer |-> viewer.answer, day |-> viewer.day, touched |-> viewer.touched]
  /\ viewer.todo \in Lists
  /\ viewer.kind = "none" => viewer = Resting
  /\ viewer.kind # "none" => /\ viewer.from \in Nat /\ viewer.to \in Nat /\ viewer.to <= now
                             /\ viewer.day \in Nat /\ viewer.day <= now
SalesFit == \A b \in Bills : bill[b].status # "none" => bill[b].sale \in Sales

\* k queries of the plan are answered.
At(k) ==
  LET P == Plan[viewer.kind] IN
  /\ viewer.todo # <<>> => /\ Len(viewer.todo) = Len(P) - k
                           /\ \A j \in 1..Len(viewer.todo) : viewer.todo[j] = P[k + j]
  /\ DOMAIN viewer.answer = UNION {P[i] : i \in 1..k}
OnPlan == viewer.kind # "none" => \E k \in 0..Len(Plan[viewer.kind]) : At(k)

\* What was sold is of written rows dated in the period asked for.
SoldInPeriod(n, S) == n[1] \in {"current", "previous"} /\ n[2] \in SaleFigures =>
                 \A b \in Invoices(n[2], S) : b \in Written /\ Within(bill[b].at, PeriodOf(n, viewer))
ApartFits == \A n \in DOMAIN viewer.answer : SoldInPeriod(n, viewer.answer[n])
FiguresFit == \A n \in DOMAIN viewer.answer : Stands(n, viewer.answer[n])

DashboardInv == DashboardType /\ ViewerFits /\ SalesFit /\ OnPlan /\ ApartFits /\ FiguresFit
-----------------------------------------------------------------------------
(* The writers. *)

\* What is written keeps its date and its content.
Lasting == \A b \in Bills : bill[b].status # "none" =>
             bill'[b].status # "none" /\ bill'[b].at = bill[b].at /\ bill'[b].sale = bill[b].sale
\* Only rows that count as touched are written, among those dated up to the end of the
\* period, and no sum starts anew on the day of the request.
Later(b) == bill[b].status = "none" \/ bill[b].at > viewer.to
Steady ==
  /\ viewer.touched \subseteq viewer'.touched
  /\ \A b \in Bills \ viewer'.touched : bill'[b] = bill[b] \/ (Later(b) /\ Later(b)')
  /\ \A o \in Outlays \ viewer'.touched :
        outlay'[o] = outlay[o] \/ (outlay[o] > viewer.to /\ outlay'[o] > viewer.to)
  /\ \A x \in Products \ viewer'.touched : shelf'[x] = shelf[x]
  /\ SameDay' => SameDay /\ \A i \in 1..Count : Floor(now', Spans[i]) = Floor(now, Spans[i])
SameRequest == /\ viewer'.kind = viewer.kind /\ viewer'.subject = viewer.subject /\ viewer'.from = viewer.from
               /\ viewer'.to = viewer.to /\ viewer'.day = viewer.day
Calm == /\ DashboardType /\ DashboardType' /\ Lasting /\ Steady /\ SameRequest
        /\ viewer.from \in Int /\ viewer.to \in Int /\ viewer.from <= viewer.to

\* An invoice that was not written is in a period when it was.
LEMMA RowKept ==
  ASSUME Calm, NEW b \in Bills, b \notin viewer'.touched, NEW statuses \in SUBSET Statuses,
         NEW CONSTANT lo, NEW CONSTANT hi \in Int, hi <= viewer.to
  PROVE  /\ (b \in Between(statuses, lo, hi))' <=> b \in Between(statuses, lo, hi)
         /\ b \in Between(statuses, lo, hi) => bill'[b] = bill[b]
  <1>1. /\ bill'[b] = bill[b] \/ ((bill[b].status = "none" \/ bill[b].at > viewer.to)
                                  /\ (bill'[b].status = "none" \/ bill'[b].at > viewer.to))
        /\ bill[b].at \in Int /\ bill'[b].at \in Int /\ viewer.to \in Int /\ "none" \notin statuses
    BY DEF Calm, Steady, Later, SameRequest, DashboardType, Bill, Statuses
  <1> QED
    BY <1>1 DEF Between

\* Rows, and lines, of which the step leaves those that are not touched as they were.
KeptRows(R, T) == /\ R \subseteq Bills /\ T \subseteq Bills
                  /\ \A b \in Bills \ viewer'.touched : (b \in T <=> b \in R) /\ (b \in R => bill'[b] = bill[b])
KeptLines(S, T) == /\ S \subseteq Bills \X Products /\ T \subseteq Bills \X Products
                   /\ \A l \in Bills \X Products :
                         l[1] \notin viewer'.touched /\ l[2] \notin viewer'.touched =>
                            /\ l \in T <=> l \in S
                            /\ l \in S => bill'[l[1]] = bill[l[1]] /\ shelf'[l[2]] = shelf[l[2]]

\* The rows of the period and of the one before it are kept.
LEMMA PeriodKept ==
  ASSUME Calm, NEW CONSTANT n
  PROVE  /\ KeptRows(Paid(viewer), Paid(viewer)') /\ KeptRows(Rows(Statuses, viewer), Rows(Statuses, viewer)')
         /\ KeptRows(Paid(PeriodOf(n, viewer)), Paid(PeriodOf(n, viewer))')
  <1>1. ASSUME NEW CONSTANT statuses \in SUBSET Statuses, NEW CONSTANT lo, NEW CONSTANT hi \in Int, hi <= viewer.to
        PROVE  KeptRows(Between(statuses, lo, hi), Between(statuses, lo, hi)')
    <2>1. Between(statuses, lo, hi) \subseteq Bills /\ Between(statuses, lo, hi)' \subseteq Bills
      BY DEF Between
    <2>2. ASSUME NEW b \in Bills, b \notin viewer'.touched
          PROVE  /\ b \in Between(statuses, lo, hi)' <=> b \in Between(statuses, lo, hi)
                 /\ b \in Between(statuses, lo, hi) => bill'[b] = bill[b]
      BY <1>1, <2>2, RowKept
    <2> QED
      BY <2>1, <2>2 DEF KeptRows
  <1>2. PICK lo, hi : lo = viewer.from /\ hi = viewer.to
    OBVIOUS
  <1>3. PICK lp, hp : lp = PeriodOf(n, viewer).from /\ hp = PeriodOf(n, viewer).to
    OBVIOUS
  <1>4. hi \in Int /\ hi <= viewer.to
    BY <1>2 DEF Calm
  <1>5. hp \in Int /\ hp <= viewer.to
    BY <1>3, SpansFit DEF Calm, PeriodOf, Previous
  <1>6. /\ Paid(viewer) = Between({"COMPLETED"}, lo, hi) /\ Paid(viewer)' = Between({"COMPLETED"}, lo, hi)'
        /\ Rows(Statuses, viewer) = Between(Statuses, lo, hi) /\ Rows(Statuses, viewer)' = Between(Statuses, lo, hi)'
    BY <1>2 DEF Paid, Rows, Between, Statuses, Calm, SameRequest
  <1>7. PeriodOf(n, viewer)'.from = lp /\ PeriodOf(n, viewer)'.to = hp
    BY <1>3 DEF PeriodOf, Previous, Calm, SameRequest
  <1>8. /\ Paid(PeriodOf(n, viewer)) = Between({"COMPLETED"}, lp, hp)
        /\ Paid(PeriodOf(n, viewer))' = Between({"COMPLETED"}, lp, hp)'
    BY <1>3, <1>7 DEF Paid, Rows, Between
  <1>9. {"COMPLETED"} \in SUBSET Statuses /\ Statuses \in SUBSET Statuses
    BY DEF Statuses
  <1>10. /\ KeptRows(Between({"COMPLETED"}, lo, hi), Between({"COMPLETED"}, lo, hi)')
         /\ KeptRows(Between(Statuses, lo, hi), Between(Statuses, lo, hi)')
         /\ KeptRows(Between({"COMPLETED"}, lp, hp), Between({"COMPLETED"}, lp, hp)')
    BY <1>1, <1>4, <1>5, <1>9
  <1> QED
    BY <1>6, <1>8, <1>10

\* The lines of rows that are kept.
LEMMA RowsLinesKept ==
  ASSUME Calm, NEW R, NEW T, KeptRows(R, T)
  PROVE  KeptLines({l \in Lines : l[1] \in R}, {l \in Lines' : l[1] \in T})
  <1>1. Lines \subseteq Bills \X Products /\ Lines' \subseteq Bills \X Products
    BY DEF Lines
  <1>2. ASSUME NEW l \in Bills \X Products, l[1] \notin viewer'.touched, l[2] \notin viewer'.touched
        PROVE  /\ (l \in Lines' /\ l[1] \in T) <=> (l \in Lines /\ l[1] \in R)
               /\ l[1] \in R => bill'[l[1]] = bill[l[1]] /\ shelf'[l[2]] = shelf[l[2]]
    <2>1. l[1] \in Bills \ viewer'.touched /\ l[2] \in Products \ viewer'.touched
      BY <1>2
    <2>2. shelf'[l[2]] = shelf[l[2]]
      BY <2>1 DEF Calm, Steady
    <2>3. (l[1] \in T <=> l[1] \in R) /\ (l[1] \in R => bill'[l[1]] = bill[l[1]])
      BY <2>1 DEF KeptRows
    <2>4. l \in Lines <=> /\ bill[l[1]].status # "none" /\ l[2] \in DOMAIN bill[l[1]].sale.lines
                          /\ shelf[l[2]] # Nowhere
      BY DEF Lines
    <2>5. l \in Lines' <=> /\ bill'[l[1]].status # "none" /\ l[2] \in DOMAIN bill'[l[1]].sale.lines
                           /\ shelf'[l[2]] # Nowhere
      BY DEF Lines
    <2> QED
      BY <2>2, <2>3, <2>4, <2>5
  <1> QED
    BY <1>1, <1>2 DEF KeptLines

LEMMA LinesKept ==
  ASSUME Calm, NEW CONSTANT n
  PROVE  /\ KeptLines(LinesOf(Paid(viewer)), LinesOf(Paid(viewer))')
         /\ KeptLines(LinesOf(Rows(Statuses, viewer)), LinesOf(Rows(Statuses, viewer))')
         /\ KeptLines(LinesOf(Paid(PeriodOf(n, viewer))), LinesOf(Paid(PeriodOf(n, viewer)))')
  <1>1. /\ KeptRows(Paid(viewer), Paid(viewer)') /\ KeptRows(Rows(Statuses, viewer), Rows(Statuses, viewer)')
        /\ KeptRows(Paid(PeriodOf(n, viewer)), Paid(PeriodOf(n, viewer))')
    BY PeriodKept
  <1>2. /\ KeptLines({l \in Lines : l[1] \in Paid(viewer)}, {l \in Lines' : l[1] \in Paid(viewer)'})
        /\ KeptLines({l \in Lines : l[1] \in Rows(Statuses, viewer)}, {l \in Lines' : l[1] \in Rows(Statuses, viewer)'})
        /\ KeptLines({l \in Lines : l[1] \in Paid(PeriodOf(n, viewer))},
                     {l \in Lines' : l[1] \in Paid(PeriodOf(n, viewer))'})
    BY <1>1, RowsLinesKept
  <1> QED
    BY <1>2 DEF LinesOf

\* The lines that the statistics of a product, a category or a subcategory are about.
LEMMA AskedLinesKept ==
  ASSUME Calm, NEW CONSTANT n, viewer.kind \in ByLine
  PROVE  KeptLines(AskedLines(PeriodOf(n, viewer)), AskedLines(PeriodOf(n, viewer))')
  <1>1. PICK S, T : S = LinesOf(Paid(PeriodOf(n, viewer))) /\ T = LinesOf(Paid(PeriodOf(n, viewer)))'
    OBVIOUS
  <1>2. KeptLines(S, T)
    BY <1>1, LinesKept
  <1>3. PICK kind, x : kind = viewer.kind /\ x = viewer.subject
    OBVIOUS
  <1>4. /\ AskedLines(PeriodOf(n, viewer)) = {l \in S : About(kind, x, l)}
        /\ AskedLines(PeriodOf(n, viewer))' = {l \in T : About(kind, x, l)'}
    BY <1>1, <1>3 DEF AskedLines, Calm, SameRequest
  <1>5. ASSUME NEW CONSTANT l, shelf'[l[2]] = shelf[l[2]]
        PROVE  About(kind, x, l)' <=> About(kind, x, l)
    BY <1>3, <1>5 DEF About, ByLine
  <1> QED
    BY <1>2, <1>4, <1>5 DEF KeptLines

\* What is said of the settled lines outlives the step, so does what a list names.
Grouped == {"product", "category", "customer"}
Clear(T) == {l \in T : l[1] \notin viewer'.touched /\ l[2] \notin viewer'.touched}

LEMMA SettledKept ==
  ASSUME Calm, NEW S, NEW T, KeptLines(S, T), NEW CONSTANT U, SettledLines(U) = SettledLines(S)
  PROVE  SettledLines(U)' = Clear(T)
  <1>1. viewer.touched \subseteq viewer'.touched
    BY DEF Calm, Steady
  <1>2. SettledLines(U)' = Clear(SettledLines(U)) /\ Clear(SettledLines(S)) = Clear(S)
    BY <1>1 DEF SettledLines, Clear
  <1>3. Clear(S) = Clear(T)
    BY DEF Clear, KeptLines
  <1> QED
    BY <1>2, <1>3

ListOfNext(by, list, T) ==
  /\ SettledLines(list)' \subseteq T
  /\ (viewer'.touched = {} /\ Cardinality({Group(by, l)' : l \in T}) <= Limit => list = T)

LEMMA ListKept ==
  ASSUME Calm, NEW S, NEW T, KeptLines(S, T), NEW CONSTANT by \in Grouped,
         NEW CONSTANT list, ListAgrees(by, list, S)
  PROVE  ListOfNext(by, list, T)
  <1>1. SettledLines(list)' \subseteq T
    <2>1. \A l \in SettledLines(list)' : l \in SettledLines(list)
      BY DEF SettledLines, Calm, Steady
    <2>2. \A l \in SettledLines(list)' : l \in S /\ l[1] \notin viewer'.touched /\ l[2] \notin viewer'.touched
      BY <2>1 DEF SettledLines, ListAgrees
    <2> QED
      BY <2>2 DEF KeptLines
  <1>2. ASSUME viewer'.touched = {}
        PROVE  viewer.touched = {} /\ T = S /\ {Group(by, l)' : l \in T} = Groups(by, S)
    <2>1. viewer.touched = {}
      BY <1>2 DEF Calm, Steady
    <2>2. T = S
      BY <1>2 DEF KeptLines
    <2>3. \A l \in S : bill'[l[1]] = bill[l[1]] /\ shelf'[l[2]] = shelf[l[2]]
      BY <1>2 DEF KeptLines
    <2>4. ASSUME NEW CONSTANT l \in S
          PROVE  Group(by, l)' = Group(by, l)
      BY <2>3 DEF Group, Of, Grouped
    <2> QED
      BY <2>1, <2>2, <2>4 DEF Groups
  <1> QED
    BY <1>1, <1>2 DEF ListAgrees, ListOfNext

LEMMA PaidListKept ==
  ASSUME Calm, NEW CONSTANT by \in Grouped, NEW CONSTANT list,
         ListAgrees(by, list, LinesOf(Paid(viewer)))
  PROVE  ListAgrees(by, list, LinesOf(Paid(viewer)))'
  <1>1. PICK S, T : S = LinesOf(Paid(viewer)) /\ T = LinesOf(Paid(viewer))'
    OBVIOUS
  <1>2. KeptLines(S, T)
    BY <1>1, LinesKept
  <1>3. ListAgrees(by, list, S)
    BY <1>1
  <1>4. ListOfNext(by, list, T)
    BY <1>2, <1>3, ListKept
  <1> QED
    BY <1>1, <1>4 DEF ListOfNext, ListAgrees, Groups

LEMMA AskedListKept ==
  ASSUME Calm, viewer.kind \in ByLine, NEW CONSTANT n, NEW CONSTANT by \in Grouped, NEW CONSTANT list,
         ListAgrees(by, list, AskedLines(PeriodOf(n, viewer)))
  PROVE  ListAgrees(by, list, AskedLines(PeriodOf(n, viewer)))'
  <1>1. PICK S, T : S = AskedLines(PeriodOf(n, viewer)) /\ T = AskedLines(PeriodOf(n, viewer))'
    OBVIOUS
  <1>2. KeptLines(S, T)
    BY <1>1, AskedLinesKept
  <1>3. ListAgrees(by, list, S)
    BY <1>1
  <1>4. ListOfNext(by, list, T)
    BY <1>2, <1>3, ListKept
  <1> QED
    BY <1>1, <1>4 DEF ListOfNext, ListAgrees, Groups

\* What is claimed of a figure outlives a step that writes no row but those it touches.
LEMMA SummaryKept ==
  ASSUME Calm, viewer.kind = "summary", NEW CONSTANT n, n[3] \in 0..Count, NEW CONSTANT S, SummaryStands(n, S)
  PROVE  SummaryStands(n, S)'
  <1>1. KeptRows(Paid(viewer), Paid(viewer)')
    BY PeriodKept
  <1>2. viewer.touched \subseteq viewer'.touched /\ (Fresh(n)' => Fresh(n) /\ Since(n[3], viewer)' = Since(n[3], viewer))
    <2>1. n[3] = 0 \/ n[3] \in 1..Count
      BY SpansFit
    <2>2. viewer'.from = viewer.from /\ (SameDay' => SameDay) /\ viewer.touched \subseteq viewer'.touched
      BY DEF Calm, Steady, SameRequest
    <2>3. CASE n[3] = 0
      BY <2>2, <2>3 DEF Fresh, Since
    <2>4. CASE n[3] \in 1..Count
      <3>1. n[3] # 0 /\ (SameDay' => Floor(now', Spans[n[3]]) = Floor(now, Spans[n[3]]))
        BY <2>4, SpansFit DEF Calm, Steady
      <3> QED
        BY <2>2, <3>1 DEF Fresh, Since
    <2> QED
      BY <2>1, <2>3, <2>4
  <1>3. Settled(S)' \subseteq Settled(S) /\ \A x \in Settled(S) : x \notin viewer'.touched => x \in Settled(S)'
    BY <1>2 DEF Settled
  <1>4. ASSUME n[2] = "revenue"
        PROVE  /\ Settled(S)' \subseteq Paid(viewer)'
               /\ Fresh(n)' => Settled(S)' = Settled({b \in Paid(viewer) : bill[b].at >= Since(n[3], viewer)})'
    <2>1. Settled(S) \subseteq Paid(viewer)
      BY <1>4 DEF SummaryStands
    <2>2. Settled(S)' \subseteq Paid(viewer)'
      BY <1>1, <1>3, <2>1 DEF KeptRows, Settled
    <2>3. ASSUME Fresh(n)'
          PROVE  Settled(S)' = Settled({b \in Paid(viewer) : bill[b].at >= Since(n[3], viewer)})'
      <3>1. Settled(S) = Settled({b \in Paid(viewer) : bill[b].at >= Since(n[3], viewer)})
        BY <1>2, <1>4, <2>3 DEF SummaryStands
      <3>2. PICK t : t = Since(n[3], viewer)
        OBVIOUS
      <3>3. Since(n[3], viewer)' = t
        BY <1>2, <2>3, <3>2
      <3>4. Settled(S) = {b \in Paid(viewer) : bill[b].at >= t} \ viewer.touched
        BY <3>1, <3>2 DEF Settled
      <3>5. ASSUME NEW b \in Bills, b \notin viewer'.touched
            PROVE  b \in Paid(viewer)' /\ bill'[b].at >= t <=> b \in Paid(viewer) /\ bill[b].at >= t
        BY <1>1, <3>5 DEF KeptRows
      <3>6. Settled(S)' = {b \in Paid(viewer)' : bill'[b].at >= t} \ viewer'.touched
        <4>1. Settled(S)' = Settled(S) \ viewer'.touched
          BY <1>2 DEF Settled
        <4>2. Paid(viewer) \subseteq Bills /\ Paid(viewer)' \subseteq Bills
          BY <1>1 DEF KeptRows
        <4> QED
          BY <1>2, <3>4, <3>5, <4>1, <4>2
      <3>7. Settled({b \in Paid(viewer) : bill[b].at >= Since(n[3], viewer)})'
              = {b \in Paid(viewer)' : bill'[b].at >= Since(n[3], viewer)'} \ viewer'.touched
        BY DEF Settled
      <3> QED
        BY <3>3, <3>6, <3>7
    <2> QED
      BY <2>2, <2>3
  <1>5. ASSUME n[2] = "expenses"
        PROVE  /\ Settled(S)' \subseteq ExpensesSince(0, viewer)'
               /\ Fresh(n)' => Settled(S)' = Settled(ExpensesSince(n[3], viewer))'
    <2>1. ASSUME NEW CONSTANT t, NEW o \in Outlays, o \notin viewer'.touched
          PROVE  /\ outlay[o] <= viewer.to <=> outlay'[o] <= viewer.to
                 /\ outlay[o] <= viewer.to => outlay'[o] = outlay[o]
      <3>1. /\ outlay'[o] = outlay[o] \/ (outlay[o] > viewer.to /\ outlay'[o] > viewer.to)
            /\ outlay[o] \in Int /\ outlay'[o] \in Int /\ viewer.to \in Int
        BY <2>1, SpansFit DEF Calm, Steady, DashboardType, NotSpent
      <3> QED
        BY <3>1
    <2>2. PICK lo, hi : lo = viewer.from /\ hi = viewer.to
      OBVIOUS
    <2>3. viewer'.from = lo /\ viewer'.to = hi /\ lo \in Int /\ hi \in Int
      BY <2>2 DEF Calm, SameRequest
    <2>4. \A o \in Outlays : outlay[o] \in Int /\ outlay'[o] \in Int
      BY SpansFit DEF Calm, DashboardType, NotSpent
    <2>5. /\ ExpensesSince(0, viewer) = {o \in Outlays : lo <= outlay[o] /\ outlay[o] <= hi}
          /\ ExpensesSince(0, viewer)' = {o \in Outlays : lo <= outlay'[o] /\ outlay'[o] <= hi}
      BY <2>2, <2>3, <2>4 DEF ExpensesSince, Within, Since
    <2>6. Settled(S)' \subseteq ExpensesSince(0, viewer)'
      <3>1. Settled(S) \subseteq ExpensesSince(0, viewer)
        BY <1>5 DEF SummaryStands
      <3>2. \A o \in Settled(S)' : o \in ExpensesSince(0, viewer) /\ o \notin viewer'.touched
        BY <1>3, <3>1 DEF Settled
      <3> QED
        BY <2>1, <2>2, <2>5, <3>2
    <2>7. ASSUME Fresh(n)'
          PROVE  Settled(S)' = Settled(ExpensesSince(n[3], viewer))'
      <3>1. Settled(S) = Settled(ExpensesSince(n[3], viewer))
        BY <1>2, <1>5, <2>7 DEF SummaryStands
      <3>2. PICK t : t = Since(n[3], viewer)
        OBVIOUS
      <3>3. Since(n[3], viewer)' = t
        BY <1>2, <2>7, <3>2
      <3>4. /\ ExpensesSince(n[3], viewer) = {o \in Outlays : lo <= outlay[o] /\ outlay[o] <= hi /\ outlay[o] >= t}
            /\ ExpensesSince(n[3], viewer)' = {o \in Outlays : lo <= outlay'[o] /\ outlay'[o] <= hi /\ outlay'[o] >= t}
        BY <2>2, <2>3, <3>2, <3>3 DEF ExpensesSince, Within
      <3>5. ASSUME NEW o \in Outlays, o \notin viewer'.touched
            PROVE  o \in ExpensesSince(n[3], viewer)' <=> o \in ExpensesSince(n[3], viewer)
        BY <2>1, <2>2, <3>4, <3>5
      <3>6. Settled(S)' = Settled(S) \ viewer'.touched
        BY <1>2 DEF Settled
      <3>7. ExpensesSince(n[3], viewer) \subseteq Outlays /\ ExpensesSince(n[3], viewer)' \subseteq Outlays
        BY DEF ExpensesSince
      <3>8. /\ Settled(ExpensesSince(n[3], viewer)) = ExpensesSince(n[3], viewer) \ viewer.touched
            /\ Settled(ExpensesSince(n[3], viewer))' = ExpensesSince(n[3], viewer)' \ viewer'.touched
        BY DEF Settled
      <3> QED
        BY <1>2, <3>1, <3>5, <3>6, <3>7, <3>8
    <2> QED
      BY <2>6, <2>7
  <1>6. ASSUME n[2] = "top"
        PROVE  ListAgrees("product", S, LinesOf(Paid(viewer)))'
    <2>1. ListAgrees("product", S, LinesOf(Paid(viewer)))
      BY <1>6 DEF SummaryStands
    <2> QED
      BY <2>1, PaidListKept DEF Grouped
  <1>7. ASSUME n[2] = "lifetime"
        PROVE  Settled(Paid(viewer))' \subseteq S
    BY <1>1, <1>2, <1>7 DEF SummaryStands, Settled, KeptRows
  <1>8. ASSUME n[2] = "lifetime_expenses"
        PROVE  Settled(ExpensesSince(0, viewer))' \subseteq S
    <2>1. ASSUME NEW o \in Settled(ExpensesSince(0, viewer))'
          PROVE  o \in Settled(ExpensesSince(0, viewer))
      <3>1. /\ o \in Outlays /\ o \notin viewer'.touched
            /\ viewer'.from <= outlay'[o] /\ outlay'[o] <= viewer'.to /\ outlay'[o] >= viewer'.from
        BY <2>1 DEF Settled, ExpensesSince, Within, Since
      <3>2. /\ outlay'[o] = outlay[o] \/ (outlay[o] > viewer.to /\ outlay'[o] > viewer.to)
            /\ outlay[o] \in Int /\ outlay'[o] \in Int /\ viewer.to \in Int
            /\ viewer'.to = viewer.to /\ viewer'.from = viewer.from
        BY <3>1, SpansFit DEF Calm, Steady, SameRequest, DashboardType, NotSpent
      <3>3. outlay'[o] = outlay[o]
        BY <3>1, <3>2
      <3> QED
        BY <1>2, <3>1, <3>2, <3>3 DEF Settled, ExpensesSince, Within, Since
    <2> QED
      BY <1>8, <2>1 DEF SummaryStands
  <1> QED
    BY <1>4, <1>5, <1>6, <1>7, <1>8 DEF SummaryStands

LEMMA DailyKept ==
  ASSUME Calm, viewer.kind = "daily", NEW CONSTANT n, NEW CONSTANT S, DailyStands(n, S)
  PROVE  DailyStands(n, S)'
  <1>1. ASSUME NEW CONSTANT by \in Grouped, ListAgrees(by, S, LinesOf(Paid(viewer)))
        PROVE  ListAgrees(by, S, LinesOf(Paid(viewer)))'
    BY <1>1, PaidListKept
  <1>2. ASSUME SettledLines(S) = SettledLines(LinesOf(Rows(Statuses, viewer)))
        PROVE  (SettledLines(S) = SettledLines(LinesOf(Rows(Statuses, viewer))))'
    <2>1. PICK Q, T : Q = LinesOf(Rows(Statuses, viewer)) /\ T = LinesOf(Rows(Statuses, viewer))'
      OBVIOUS
    <2>2. KeptLines(Q, T) /\ SettledLines(S) = SettledLines(Q)
      BY <1>2, <2>1, LinesKept
    <2>3. SettledLines(S)' = Clear(T)
      BY <2>2, SettledKept
    <2> QED
      BY <2>1, <2>3 DEF SettledLines, Clear
  <1>3. ASSUME S \subseteq Written
        PROVE  (S \subseteq Written)' /\ Dated(S)' = Dated(S)
    BY <1>3 DEF Written, Dated, Calm, Lasting, SameRequest
  <1>4. ASSUME NEW R, NEW T, KeptRows(R, T), Settled(Dated(S)) = Settled(R), S \subseteq Written
        PROVE  Settled(Dated(S))' = T \ viewer'.touched
    <2>1. viewer.touched \subseteq viewer'.touched
      BY DEF Calm, Steady
    <2>2. Dated(S) \ viewer.touched = R \ viewer.touched /\ Settled(Dated(S))' = Dated(S) \ viewer'.touched
      BY <1>3, <1>4 DEF Settled
    <2>3. R \ viewer'.touched = T \ viewer'.touched
      BY <1>4 DEF KeptRows
    <2> QED
      BY <2>1, <2>2, <2>3
  <1>5. /\ KeptRows(Paid(viewer), Paid(viewer)') /\ KeptRows(Rows(Statuses, viewer), Rows(Statuses, viewer)')
    BY PeriodKept
  <1>6. ASSUME n[2] = "completed"
        PROVE  (S \subseteq Written)' /\ (Settled(Dated(S)) = Settled(Paid(viewer)))'
    <2>1. S \subseteq Written /\ Settled(Dated(S)) = Settled(Paid(viewer))
      BY <1>6 DEF DailyStands
    <2>2. Settled(Dated(S))' = Paid(viewer)' \ viewer'.touched
      BY <1>4, <1>5, <2>1
    <2> QED
      BY <1>3, <2>1, <2>2 DEF Settled
  <1>7. ASSUME n[2] = "sales"
        PROVE  (S \subseteq Written)' /\ (Settled(Dated(S)) = Settled(Rows(Statuses, viewer)))'
    <2>1. S \subseteq Written /\ Settled(Dated(S)) = Settled(Rows(Statuses, viewer))
      BY <1>7 DEF DailyStands
    <2>2. Settled(Dated(S))' = Rows(Statuses, viewer)' \ viewer'.touched
      BY <1>4, <1>5, <2>1
    <2> QED
      BY <1>3, <2>1, <2>2 DEF Settled
  <1> QED
    BY <1>1, <1>2, <1>6, <1>7 DEF DailyStands, Grouped

LEMMA CashierKept ==
  ASSUME Calm, viewer.kind = "cashier", NEW CONSTANT n, NEW CONSTANT S, CashierStands(n, S)
  PROVE  CashierStands(n, S)'
  <1>1. viewer.touched \subseteq viewer'.touched /\ viewer'.subject = viewer.subject
    BY DEF Calm, Steady, SameRequest
  <1>2. /\ KeptRows(CashierPaid(viewer), CashierPaid(viewer)')
        /\ KeptRows(CashierPaid(PeriodOf(n, viewer)), CashierPaid(PeriodOf(n, viewer))')
    <2>1. /\ KeptRows(Paid(viewer), Paid(viewer)')
          /\ KeptRows(Paid(PeriodOf(n, viewer)), Paid(PeriodOf(n, viewer))')
      BY PeriodKept
    <2>2. ASSUME NEW R, NEW T, KeptRows(R, T)
          PROVE  KeptRows({b \in R : bill[b].sale.cashier = viewer.subject},
                          {b \in T : bill'[b].sale.cashier = viewer.subject})
      BY <2>2 DEF KeptRows
    <2>3. /\ CashierPaid(viewer)' = {b \in Paid(viewer)' : bill'[b].sale.cashier = viewer.subject}
          /\ CashierPaid(PeriodOf(n, viewer))'
               = {b \in Paid(PeriodOf(n, viewer))' : bill'[b].sale.cashier = viewer.subject}
      BY <1>1 DEF CashierPaid
    <2>4. /\ KeptRows({b \in Paid(viewer) : bill[b].sale.cashier = viewer.subject},
                      {b \in Paid(viewer)' : bill'[b].sale.cashier = viewer.subject})
          /\ KeptRows({b \in Paid(PeriodOf(n, viewer)) : bill[b].sale.cashier = viewer.subject},
                      {b \in Paid(PeriodOf(n, viewer))' : bill'[b].sale.cashier = viewer.subject})
      BY <2>1, <2>2
    <2> QED
      BY <2>3, <2>4 DEF CashierPaid
  <1>3. ASSUME n[2] \in {"any", "sold", "own"}
        PROVE  (Settled(S) = Settled(CashierPaid(PeriodOf(n, viewer))))'
    <2>1. PICK Q, T : Q = CashierPaid(PeriodOf(n, viewer)) /\ T = CashierPaid(PeriodOf(n, viewer))'
      OBVIOUS
    <2>2. KeptRows(Q, T) /\ Settled(S) = Settled(Q)
      BY <1>2, <1>3, <2>1 DEF CashierStands
    <2>3. Settled(S)' = T \ viewer'.touched
      BY <1>1, <2>2 DEF Settled, KeptRows
    <2> QED
      BY <2>1, <2>3 DEF Settled
  <1>4. ASSUME n[2] = "quantities"
        PROVE  (SettledLines(S) = SettledLines(LinesOf(CashierPaid(PeriodOf(n, viewer)))))'
    <2>1. PICK Q, T : Q = CashierPaid(PeriodOf(n, viewer)) /\ T = CashierPaid(PeriodOf(n, viewer))'
      OBVIOUS
    <2>2. PICK K, L : K = {l \in Lines : l[1] \in Q} /\ L = {l \in Lines' : l[1] \in T}
      OBVIOUS
    <2>3. KeptLines(K, L)
      <3>1. KeptRows(Q, T)
        BY <1>2, <2>1
      <3> QED
        BY <2>2, <3>1, RowsLinesKept
    <2>4. SettledLines(S) = SettledLines(K)
      BY <1>4, <2>1, <2>2 DEF CashierStands, LinesOf
    <2>5. SettledLines(S)' = Clear(L)
      BY <2>3, <2>4, SettledKept
    <2>6. L = LinesOf(CashierPaid(PeriodOf(n, viewer)))'
      BY <2>1, <2>2 DEF LinesOf
    <2> QED
      BY <2>5, <2>6 DEF SettledLines, Clear
  <1>5. ASSUME n = <<"current", "lifetime", 0>>, viewer.subject # Owner
        PROVE  Settled(CashierPaid(viewer))' \subseteq S
    BY <1>1, <1>2, <1>5 DEF CashierStands, Settled, KeptRows
  <1> QED
    BY <1>1, <1>3, <1>4, <1>5 DEF CashierStands

LEMMA LinesStandKept ==
  ASSUME Calm, viewer.kind \in ByLine, NEW CONSTANT n, NEW CONSTANT S, LinesStand(n, S)
  PROVE  LinesStand(n, S)'
  <1>1. PICK Q, T : Q = AskedLines(PeriodOf(n, viewer)) /\ T = AskedLines(PeriodOf(n, viewer))'
    OBVIOUS
  <1>2. KeptLines(Q, T)
    BY <1>1, AskedLinesKept
  <1>3. ASSUME n[2] = "sold"
        PROVE  (SettledLines(S) = SettledLines(AskedLines(PeriodOf(n, viewer))))'
    <2>1. SettledLines(S) = SettledLines(Q)
      BY <1>1, <1>3 DEF LinesStand
    <2>2. SettledLines(S)' = Clear(T)
      BY <1>2, <2>1, SettledKept
    <2> QED
      BY <1>1, <2>2 DEF SettledLines, Clear
  <1>4. ASSUME NEW CONSTANT by \in Grouped,
               ListAgrees(by, S, AskedLines(PeriodOf(n, viewer)))
        PROVE  ListAgrees(by, S, AskedLines(PeriodOf(n, viewer)))'
    BY <1>4, AskedListKept
  <1> QED
    BY <1>3, <1>4 DEF LinesStand, Grouped

LEMMA StandsKept ==
  ASSUME Calm, NEW CONSTANT n, n[3] \in 0..Count, NEW CONSTANT S, Stands(n, S)
  PROVE  Stands(n, S)'
  <1>1. viewer'.kind = viewer.kind
    BY DEF Calm, SameRequest
  <1>2. CASE viewer.kind = "summary"
    BY <1>1, <1>2, SummaryKept DEF Stands, ByLine
  <1>3. CASE viewer.kind = "daily"
    BY <1>1, <1>3, DailyKept DEF Stands, ByLine
  <1>4. CASE viewer.kind = "cashier"
    BY <1>1, <1>4, CashierKept DEF Stands, ByLine
  <1>5. CASE viewer.kind \in ByLine
    BY <1>1, <1>5, LinesStandKept DEF Stands, ByLine
  <1> QED
    BY <1>1, <1>2, <1>3, <1>4, <1>5 DEF Stands

\* What has been answered had been asked for.
LEMMA AnsweredNames ==
  ASSUME DashboardInv, NEW n \in DOMAIN viewer.answer
  PROVE  viewer.kind \in Endpoints /\ MayAsk(viewer.kind, n)
  <1>1. viewer.kind \in Endpoints
    BY DEF DashboardInv, DashboardType, ViewerFits, Resting
  <1>2. PICK P : P = Plan[viewer.kind]
    OBVIOUS
  <1>3. PICK k \in 0..Len(P) : DOMAIN viewer.answer = UNION {P[i] : i \in 1..k}
    BY <1>1, <1>2 DEF DashboardInv, OnPlan, At, Endpoints
  <1>4. Len(P) \in Nat
    BY <1>1, <1>2, PlansFit DEF PlanFits, Lists
  <1>5. PICK i \in 1..Len(P) : n \in P[i]
    BY <1>3, <1>4
  <1> QED
    BY <1>1, <1>2, <1>5, PlansFit DEF PlanFits

\* A step that follows another's writing.
LEMMA Meantime ==
  ASSUME DashboardInv, DashboardType', SalesFit', Lasting, now' >= now, NEW rows, Meanwhile(rows),
         viewer.kind # "none" /\ SameRequest /\ viewer'.touched = viewer.touched \cup rows => Steady
  PROVE  DashboardInv'
  <1>1. CASE viewer' = Resting
    BY <1>1 DEF DashboardInv, ViewerFits, OnPlan, ApartFits, FiguresFit, Resting, Lists
  <1>2. CASE viewer.todo # <<>> /\ viewer' = [viewer EXCEPT !.touched = @ \cup rows]
    <2>1. viewer.kind # "none"
      BY <1>2 DEF DashboardInv, ViewerFits, Resting
    <2>2. /\ SameRequest /\ viewer'.todo = viewer.todo /\ viewer'.answer = viewer.answer
          /\ viewer'.touched = viewer.touched \cup rows
          /\ viewer.from \in Nat /\ viewer.to \in Nat /\ viewer.from <= viewer.to /\ viewer.to <= now
          /\ viewer.day \in Nat /\ viewer.day <= now
      BY <1>2, <2>1 DEF DashboardInv, ViewerFits, SameRequest, DashboardType
    <2>3. ViewerFits'
      <3>1. viewer' = [kind |-> viewer'.kind, subject |-> viewer'.subject, from |-> viewer'.from, to |-> viewer'.to,
               todo |-> viewer'.todo, answer |-> viewer'.answer, day |-> viewer'.day, touched |-> viewer'.touched]
        BY <1>2 DEF DashboardInv, ViewerFits
      <3>2. now \in Int /\ now' \in Int
        BY SpansFit DEF DashboardInv, DashboardType
      <3> QED
        BY <2>1, <2>2, <3>1, <3>2 DEF DashboardInv, ViewerFits, SameRequest
    <2>4. OnPlan'
      <3>1. viewer'.kind = viewer.kind /\ viewer'.todo = viewer.todo /\ viewer'.answer = viewer.answer
        BY <2>2 DEF SameRequest
      <3>2. PICK k \in 0..Len(Plan[viewer.kind]) : At(k)
        BY <2>1 DEF DashboardInv, OnPlan
      <3>3. At(k)'
        BY <3>1, <3>2 DEF At
      <3> QED
        BY <3>1, <3>2, <3>3 DEF OnPlan
    <2>5. ApartFits'
      <3>1. ASSUME NEW CONSTANT n, NEW CONSTANT S, SoldInPeriod(n, S)
            PROVE  SoldInPeriod(n, S)'
        <4>1. PeriodOf(n, viewer)'.from = PeriodOf(n, viewer).from /\ PeriodOf(n, viewer)'.to = PeriodOf(n, viewer).to
          BY <2>2 DEF PeriodOf, Previous, SameRequest
        <4>2. Invoices(n[2], S)' = Invoices(n[2], S)
          BY <2>2 DEF Invoices, SameRequest
        <4> QED
          BY <3>1, <4>1, <4>2 DEF SoldInPeriod, Lasting, Written, Within
      <3> QED
        BY <2>2, <3>1 DEF DashboardInv, ApartFits, SameRequest
    <2>6. FiguresFit'
      <3>1. SUFFICES ASSUME NEW CONSTANT n \in DOMAIN viewer.answer
                     PROVE  Stands(n, viewer.answer[n])'
        BY <2>2 DEF FiguresFit, SameRequest
      <3>2. n[3] \in 0..Count
        BY AnsweredNames, NamesOf DEF MayAsk
      <3>3. PICK S : S = viewer.answer[n]
        OBVIOUS
      <3>4. Stands(n, S)
        BY <3>3 DEF DashboardInv, FiguresFit
      <3>5. Calm
        BY <2>1, <2>2 DEF Calm, DashboardInv
      <3>6. Stands(n, S)'
        BY <3>2, <3>4, <3>5, StandsKept
      <3> QED
        BY <2>2, <3>3, <3>6 DEF SameRequest
    <2> QED
      BY <2>3, <2>4, <2>5, <2>6 DEF DashboardInv
  <1> QED
    BY <1>1, <1>2 DEF Meanwhile

\* Rows are the records of their fields.
LEMMA RecordOf ==
  ASSUME DashboardType, NEW b \in Bills
  PROVE  /\ bill[b] = [status |-> bill[b].status, archived |-> bill[b].archived, at |-> bill[b].at, sale |-> bill[b].sale]
         /\ bill[b].status \in {"none", "COMPLETED", "CREDIT", "CANCELLED"} /\ bill[b].archived \in BOOLEAN
         /\ bill[b].at \in 0..MaxNow /\ bill[b].sale \in Sales \cup {NoSale}
  BY DEF DashboardType, Bill

\* The type of what the writers leave of the request.
LEMMA TypeFollows ==
  ASSUME DashboardInv, NEW rows, rows \subseteq Bills \cup Outlays \cup Products, Meanwhile(rows),
         now' \in 0..MaxNow, writes' \in 0..MaxWrites, bill' \in [Bills -> Bill], outlay' \in [Outlays -> 0..NotSpent],
         shelf' \in [Products -> Places \cup {Nowhere}]
  PROVE  DashboardType'
  <1>1. CASE viewer' = Resting
    BY <1>1 DEF DashboardType, Resting
  <1>2. CASE viewer' = [viewer EXCEPT !.touched = @ \cup rows]
    <2>1. /\ viewer'.kind = viewer.kind /\ viewer'.from = viewer.from
          /\ viewer'.to = viewer.to /\ viewer'.touched = viewer.touched \cup rows
      BY <1>2 DEF DashboardInv, ViewerFits
    <2> QED
      BY <2>1 DEF DashboardInv, DashboardType
  <1> QED
    BY <1>1, <1>2 DEF Meanwhile

\* The clock and the spans, where the step is not a tick.
LEMMA SameTime ==
  ASSUME now' = now, SameRequest
  PROVE  SameDay' => SameDay /\ \A i \in 1..Count : Floor(now', Spans[i]) = Floor(now, Spans[i])
  BY DEF SameDay, SameRequest

\* The writers, one by one.
LEMMA SellKeeps ==
  ASSUME DashboardInv, NEW b \in Bills, NEW s \in Sales, NEW status \in {"COMPLETED", "CREDIT"}, Sell(b, s, status)
  PROVE  DashboardInv'
  <1> DEFINE row == [status |-> status, archived |-> FALSE, at |-> now, sale |-> s]
             rows == IF now <= viewer.to THEN {b} ELSE {}
  <1>1. /\ bill[b].status = "none" /\ now' = now /\ outlay' = outlay /\ shelf' = shelf /\ writes' = writes - 1
        /\ writes > 0 /\ bill' = [bill EXCEPT ![b] = row] /\ Meanwhile(rows)
    BY DEF Sell, Touches
  <1>2. row \in Bill /\ bill \in [Bills -> Bill]
    BY DEF DashboardInv, DashboardType, Bill
  <1>3. bill' \in [Bills -> Bill] /\ bill'[b] = row /\ \A c \in Bills \ {b} : bill'[c] = bill[c]
    BY <1>1, <1>2
  <1>4. rows \subseteq Bills \cup Outlays \cup Products /\ now \in 0..MaxNow /\ writes' \in 0..MaxWrites
        /\ outlay \in [Outlays -> 0..NotSpent] /\ shelf \in [Products -> Places \cup {Nowhere}]
    BY <1>1, SpansFit DEF DashboardInv, DashboardType
  <1>5. b \notin rows => now > viewer.to \/ viewer.kind = "none"
    BY <1>4 DEF DashboardInv, ViewerFits
  <1>6. bill'[b].at = now
    BY <1>3
  <1> HIDE DEF rows
  <1>7. DashboardType'
    BY <1>1, <1>3, <1>4, TypeFollows
  <1>8. SalesFit' /\ Lasting
    BY <1>1, <1>3 DEF DashboardInv, SalesFit, Lasting
  <1>9. ASSUME viewer.kind # "none", SameRequest, viewer'.touched = viewer.touched \cup rows
        PROVE  Steady
    <2>1. ASSUME NEW c \in Bills, c \notin viewer'.touched
          PROVE  bill'[c] = bill[c] \/ (Later(c) /\ Later(c)')
      <3>1. CASE c # b
        BY <1>3, <3>1
      <3>2. CASE c = b
        BY <1>1, <1>5, <1>6, <1>9, <2>1, <3>2 DEF Later, SameRequest
      <3> QED
        BY <3>1, <3>2
    <2>2. SameDay' => SameDay /\ \A i \in 1..Count : Floor(now', Spans[i]) = Floor(now, Spans[i])
      BY <1>1, <1>9, SameTime
    <2> QED
      BY <1>1, <1>9, <2>1, <2>2 DEF Steady
  <1>10. now' >= now
    BY <1>1, <1>4, SpansFit
  <1> QED
    BY <1>1, <1>7, <1>8, <1>9, <1>10, Meantime

LEMMA ChangeKeeps ==
  ASSUME DashboardInv, NEW b \in Bills, Change(b)
  PROVE  DashboardInv'
  <1> DEFINE rows == IF bill[b].at <= viewer.to THEN {b} ELSE {}
  <1>1. /\ bill[b].status # "none" /\ now' = now /\ outlay' = outlay /\ shelf' = shelf /\ writes' = writes - 1
        /\ writes > 0 /\ Meanwhile(rows)
    BY DEF Change, Touches
  <1>2. PICK row \in Bill : /\ bill' = [bill EXCEPT ![b] = row] /\ row.status # "none"
                            /\ row.at = bill[b].at /\ row.sale = bill[b].sale
    <2>1. CASE bill' = [bill EXCEPT ![b].status = "COMPLETED"]
      <3>1. [bill[b] EXCEPT !.status = "COMPLETED"] \in Bill
        BY DEF DashboardInv, DashboardType, Bill
      <3> QED
        BY <2>1, <3>1, RecordOf DEF DashboardInv
    <2>2. CASE bill' = [bill EXCEPT ![b].status = "CANCELLED"]
      <3>1. [bill[b] EXCEPT !.status = "CANCELLED"] \in Bill
        BY DEF DashboardInv, DashboardType, Bill
      <3> QED
        BY <2>2, <3>1, RecordOf DEF DashboardInv
    <2>3. CASE bill' = [bill EXCEPT ![b].archived = TRUE]
      <3>1. [bill[b] EXCEPT !.archived = TRUE] \in Bill
        BY DEF DashboardInv, DashboardType, Bill
      <3> QED
        BY <1>1, <2>3, <3>1, RecordOf DEF DashboardInv
    <2> QED
      BY <2>1, <2>2, <2>3 DEF Change
  <1>3. bill' \in [Bills -> Bill] /\ bill'[b] = row /\ \A c \in Bills \ {b} : bill'[c] = bill[c]
    BY <1>2 DEF DashboardInv, DashboardType
  <1>4. rows \subseteq Bills \cup Outlays \cup Products /\ now \in 0..MaxNow /\ writes' \in 0..MaxWrites
        /\ outlay \in [Outlays -> 0..NotSpent] /\ shelf \in [Products -> Places \cup {Nowhere}]
    BY <1>1, SpansFit DEF DashboardInv, DashboardType
  <1>5. b \notin rows => bill[b].at > viewer.to \/ viewer.kind = "none"
    BY DEF DashboardInv, DashboardType, ViewerFits, Bill
  <1> HIDE DEF rows
  <1>6. DashboardType'
    BY <1>1, <1>3, <1>4, TypeFollows
  <1>7. SalesFit' /\ Lasting
    BY <1>1, <1>2, <1>3 DEF DashboardInv, SalesFit, Lasting
  <1>8. ASSUME viewer.kind # "none", SameRequest, viewer'.touched = viewer.touched \cup rows
        PROVE  Steady
    <2>1. ASSUME NEW c \in Bills, c \notin viewer'.touched
          PROVE  bill'[c] = bill[c] \/ (Later(c) /\ Later(c)')
      <3>1. CASE c # b
        BY <1>3, <3>1
      <3>2. CASE c = b
        BY <1>2, <1>3, <1>5, <1>8, <2>1, <3>2 DEF Later, SameRequest
      <3> QED
        BY <3>1, <3>2
    <2>2. SameDay' => SameDay /\ \A i \in 1..Count : Floor(now', Spans[i]) = Floor(now, Spans[i])
      BY <1>1, <1>8, SameTime
    <2> QED
      BY <1>1, <1>8, <2>1, <2>2 DEF Steady
  <1>9. now' >= now
    BY <1>1, <1>4, SpansFit
  <1> QED
    BY <1>1, <1>6, <1>7, <1>8, <1>9, Meantime

LEMMA SpendKeeps ==
  ASSUME DashboardInv, NEW o \in Outlays, Spend(o)
  PROVE  DashboardInv'
  <1> DEFINE rows == IF now <= viewer.to THEN {o} ELSE {}
  <1>1. /\ outlay[o] = NotSpent /\ now' = now /\ bill' = bill /\ shelf' = shelf /\ writes' = writes - 1 /\ writes > 0
        /\ outlay' = [outlay EXCEPT ![o] = now] /\ Meanwhile(rows)
    BY DEF Spend, Touches
  <1>2. /\ rows \subseteq Bills \cup Outlays \cup Products /\ now \in 0..MaxNow /\ writes' \in 0..MaxWrites
        /\ bill \in [Bills -> Bill] /\ now \in 0..NotSpent /\ shelf \in [Products -> Places \cup {Nowhere}]
    BY <1>1, SpansFit DEF DashboardInv, DashboardType, NotSpent
  <1>3. outlay' \in [Outlays -> 0..NotSpent] /\ outlay'[o] = now /\ \A p \in Outlays \ {o} : outlay'[p] = outlay[p]
    BY <1>1, <1>2 DEF DashboardInv, DashboardType
  <1>4. viewer.kind # "none" => outlay[o] > viewer.to /\ (o \notin rows => now > viewer.to)
    BY <1>1, <1>2, SpansFit DEF DashboardInv, ViewerFits, NotSpent
  <1> HIDE DEF rows
  <1>5. DashboardType'
    BY <1>1, <1>2, <1>3, TypeFollows
  <1>6. SalesFit' /\ Lasting
    BY <1>1 DEF DashboardInv, SalesFit, Lasting
  <1>7. ASSUME viewer.kind # "none", SameRequest, viewer'.touched = viewer.touched \cup rows
        PROVE  Steady
    <2>1. ASSUME NEW p \in Outlays, p \notin viewer'.touched
          PROVE  outlay'[p] = outlay[p] \/ (outlay[p] > viewer.to /\ outlay'[p] > viewer.to)
      BY <1>3, <1>4, <1>7, <2>1
    <2>2. SameDay' => SameDay /\ \A i \in 1..Count : Floor(now', Spans[i]) = Floor(now, Spans[i])
      BY <1>1, <1>7, SameTime
    <2> QED
      BY <1>1, <1>7, <2>1, <2>2 DEF Steady
  <1>8. now' >= now
    BY <1>1, <1>2, SpansFit
  <1> QED
    BY <1>1, <1>5, <1>6, <1>7, <1>8, Meantime

\* A product that goes, or goes elsewhere, counts as written whenever it was made.
LEMMA ShelfKeeps ==
  ASSUME DashboardInv, NEW x \in Products, NEW p \in Places \cup {Nowhere}, shelf' = [shelf EXCEPT ![x] = p],
         writes > 0, writes' = writes - 1, Meanwhile({x}), UNCHANGED <<now, bill, outlay>>
  PROVE  DashboardInv'
  <1>1. {x} \subseteq Bills \cup Outlays \cup Products /\ now \in 0..MaxNow /\ writes' \in 0..MaxWrites
        /\ bill \in [Bills -> Bill] /\ outlay \in [Outlays -> 0..NotSpent]
    BY SpansFit DEF DashboardInv, DashboardType
  <1>2. shelf' \in [Products -> Places \cup {Nowhere}] /\ \A y \in Products \ {x} : shelf'[y] = shelf[y]
    BY DEF DashboardInv, DashboardType
  <1>3. DashboardType'
    BY <1>1, <1>2, TypeFollows
  <1>4. SalesFit' /\ Lasting
    BY DEF DashboardInv, SalesFit, Lasting
  <1>5. ASSUME viewer.kind # "none", SameRequest, viewer'.touched = viewer.touched \cup {x}
        PROVE  Steady
    <2>1. \A y \in Products \ viewer'.touched : shelf'[y] = shelf[y]
      BY <1>2, <1>5
    <2>2. SameDay' => SameDay /\ \A i \in 1..Count : Floor(now', Spans[i]) = Floor(now, Spans[i])
      BY <1>5, SameTime
    <2> QED
      BY <1>5, <2>1, <2>2 DEF Steady
  <1>6. now' >= now
    BY <1>1, SpansFit
  <1> QED
    BY <1>3, <1>4, <1>5, <1>6, Meantime

LEMMA DiscardKeeps ==
  ASSUME DashboardInv, NEW x \in Products, Discard(x)
  PROVE  DashboardInv'
  <1>1. Nowhere \in Places \cup {Nowhere}
    OBVIOUS
  <1> QED
    BY <1>1, ShelfKeeps DEF Discard

LEMMA MoveKeeps ==
  ASSUME DashboardInv, NEW x \in Products, NEW p \in Places, Move(x, p)
  PROVE  DashboardInv'
  BY ShelfKeeps DEF Move

\* A midnight ends the day on which the request read its clock.
LEMMA TimePassesKeeps ==
  ASSUME DashboardInv, TimePasses
  PROVE  DashboardInv'
  <1> DEFINE rows == {}
  <1>1. /\ now < MaxNow /\ now' = now + 1 /\ bill' = bill /\ outlay' = outlay /\ shelf' = shelf /\ writes' = writes
        /\ Meanwhile(rows)
    BY DEF TimePasses
  <1>2. /\ now \in Nat /\ now' \in 0..MaxNow /\ writes \in 0..MaxWrites /\ bill \in [Bills -> Bill]
        /\ outlay \in [Outlays -> 0..NotSpent] /\ shelf \in [Products -> Places \cup {Nowhere}] /\ now' >= now
        /\ rows \subseteq Bills \cup Outlays \cup Products
    BY <1>1, SpansFit DEF DashboardInv, DashboardType
  <1> HIDE DEF rows
  <1>3. DashboardType'
    BY <1>1, <1>2, TypeFollows
  <1>4. SalesFit' /\ Lasting
    BY <1>1 DEF DashboardInv, SalesFit, Lasting
  <1>5. ASSUME viewer.kind # "none", SameRequest, viewer'.touched = viewer.touched \cup rows
        PROVE  Steady
    <2>1. ASSUME SameDay'
          PROVE  SameDay /\ \A i \in 1..Count : Floor(now', Spans[i]) = Floor(now, Spans[i])
      <3>1. Floor(now + 1, DayLength) = viewer.day /\ viewer.day <= now /\ viewer.day \in Nat
        BY <1>1, <1>5, <2>1 DEF SameDay, SameRequest, DashboardInv, ViewerFits
      <3>2. Floor(now + 1, DayLength) # now + 1
        BY <1>2, <3>1
      <3>3. ASSUME NEW i \in 1..Count
            PROVE  Floor(now', Spans[i]) = Floor(now, Spans[i])
        <4>1. Spans[i] \in Nat \ {0} /\ DayLength \in Nat \ {0} /\ (Spans[i] % DayLength) = 0
          BY SpansFit
        <4> QED
          BY <1>1, <1>2, <3>2, <4>1, FloorStays
      <3>4. Floor(now', DayLength) = Floor(now, DayLength)
        <4>1. 1 \in 1..Count /\ Spans[1] = DayLength
          BY SpansFit DEF DayLength
        <4> QED
          BY <3>3, <4>1
      <3> QED
        BY <1>1, <3>1, <3>3, <3>4 DEF SameDay
    <2> QED
      BY <1>1, <1>5, <2>1 DEF Steady
  <1> QED
    BY <1>1, <1>2, <1>3, <1>4, <1>5, Meantime

\* A period starts with a day and ends by now.
LEMMA PeriodsFit ==
  ASSUME now \in 0..MaxNow, NEW p \in Periods
  PROVE  /\ p = [from |-> p.from, to |-> p.to] /\ p.from \in Nat /\ p.to \in Nat /\ p.from <= p.to /\ p.to <= now
         /\ (p.from % DayLength) = 0
  <1>1. CASE p = ThisWeek
    <2>1. now \in Nat /\ WeekLength \in Nat \ {0} /\ DayLength \in Nat \ {0} /\ (WeekLength % DayLength) = 0
      BY SpansFit
    <2>2. PICK t : t = Floor(now, WeekLength)
      OBVIOUS
    <2>3. t \in Nat /\ t <= now /\ (t % WeekLength) = 0
      BY <2>1, <2>2, FloorIs
    <2>4. (t % DayLength) = 0
      <3>1. t \in Int
        BY <2>3
      <3> QED
        BY ONLY <2>1, <2>3, <3>1, WholeDaysOnly, Zenon
    <2> QED
      BY <1>1, <2>1, <2>2, <2>3, <2>4 DEF ThisWeek
  <1>2. ASSUME NEW first \in 0..MaxNow, NEW last \in 0..MaxNow, first <= last, first * DayLength <= now,
               p = Period(first, last)
        PROVE  /\ p = [from |-> p.from, to |-> p.to] /\ p.from \in Nat /\ p.to \in Nat /\ p.from <= p.to /\ p.to <= now
               /\ (p.from % DayLength) = 0
    <2>1. DayLength \in Nat \ {0} /\ DayLength >= 1 /\ first \in Nat /\ last \in Nat /\ now \in Nat
      BY SpansFit
    <2>2. PICK a, z : a = first * DayLength /\ z = last * DayLength
      OBVIOUS
    <2>3. a \in Nat /\ z \in Nat /\ a <= z /\ a <= now
      BY <1>2, <2>1, <2>2
    <2>4. (a % DayLength) = 0
      <3>1. a = DayLength * first /\ first \in Int
        BY <2>1, <2>2
      <3> QED
        BY <2>1, <3>1, Multiple
    <2>5. p = [from |-> a, to |-> Least(z + DayLength - 1, now)]
      BY <1>2, <2>2 DEF Period
    <2> QED
      BY <2>1, <2>3, <2>4, <2>5 DEF Least
  <1>3. p = ThisWeek \/ \E d \in (0..MaxNow) \X (0..MaxNow) :
                           d[1] <= d[2] /\ d[1] * DayLength <= now /\ p = Period(d[1], d[2])
    BY DEF Periods
  <1> QED
    BY <1>1, <1>2, <1>3

\* A request begins with nothing answered and its whole plan ahead.
LEMMA AskKeeps ==
  ASSUME DashboardInv, NEW kind \in Endpoints, NEW subject, NEW p \in Periods, Ask(kind, subject, p)
  PROVE  DashboardInv'
  <1>1. /\ viewer' = [kind |-> kind, subject |-> subject, from |-> p.from, to |-> p.to, todo |-> Plan[kind],
                      answer |-> [n \in {} |-> {}], day |-> Floor(now, DayLength), touched |-> {}]
        /\ now' = now /\ bill' = bill /\ outlay' = outlay /\ shelf' = shelf /\ writes' = writes
    BY DEF Ask, Resting
  <1>2. /\ p.from \in Nat /\ p.to \in Nat /\ p.from <= p.to /\ p.to <= now /\ (p.from % DayLength) = 0
    BY PeriodsFit DEF DashboardInv, DashboardType
  <1>3. DashboardType'
    BY <1>1, <1>2 DEF DashboardInv, DashboardType, Endpoints
  <1>4. ViewerFits'
    <2>1. Plan[kind] \in Lists
      BY PlansFit DEF PlanFits
    <2>2. Floor(now, DayLength) \in Nat /\ Floor(now, DayLength) <= now
      <3>1. now \in Nat /\ DayLength \in Nat \ {0}
        BY SpansFit DEF DashboardInv, DashboardType
      <3> QED
        BY <3>1, FloorIs
    <2> QED
      BY <1>1, <1>2, <2>1, <2>2 DEF ViewerFits, Endpoints
  <1>5. OnPlan'
    <2>1. PICK P : P = Plan[kind]
      OBVIOUS
    <2>2. Len(P) \in Nat
      BY <2>1, PlansFit DEF PlanFits, Lists
    <2>3. 0 \in 0..Len(P) /\ UNION {P[i] : i \in 1..0} = {}
      BY <2>2
    <2>4. At(0)'
      <3>1. viewer'.kind = kind /\ viewer'.todo = P /\ DOMAIN viewer'.answer = {}
        BY <1>1, <2>1
      <3>2. \A j \in 1..Len(P) : P[j] = P[0 + j]
        BY <2>2
      <3> QED
        BY <2>1, <2>2, <2>3, <3>1, <3>2 DEF At
    <2> QED
      BY <1>1, <2>1, <2>3, <2>4 DEF OnPlan
  <1>6. SalesFit' /\ ApartFits' /\ FiguresFit'
    BY <1>1 DEF DashboardInv, SalesFit, ApartFits, FiguresFit
  <1> QED
    BY <1>3, <1>4, <1>5, <1>6 DEF DashboardInv

\* What comes first in a plan.
LEMMA SummaryOrder ==
  LET P == Plan["summary"] IN
  /\ Len(P) = 4 * Count + 7 /\ P[1] = {<<"own", "revenue", 0>>} /\ P[Count + 2] = {<<"own", "expenses", 0>>}
  /\ \A i \in 1..Len(P) : \A n \in P[i] : n[2] # "revenue" => i >= Count + 2
  <1>1. PICK P : P = Summary
    OBVIOUS
  <1>2. Plan["summary"] = P
    BY <1>1 DEF Plan
  <1>3. /\ Len(P) = 4 * Count + 7
        /\ \A j \in 0..Count : P[j + 1] = {<<"own", "revenue", j>>} /\ P[Count + 2 + j] = {<<"own", "expenses", j>>}
    BY <1>1, SummaryAt
  <1>4. P[1] = {<<"own", "revenue", 0>>} /\ P[Count + 2] = {<<"own", "expenses", 0>>}
    <2>1. 0 \in 0..Count /\ 0 + 1 = 1 /\ Count + 2 + 0 = Count + 2
      BY SpansFit
    <2>2. P[0 + 1] = {<<"own", "revenue", 0>>} /\ P[Count + 2 + 0] = {<<"own", "expenses", 0>>}
      BY <1>3, <2>1
    <2> QED
      BY <2>1, <2>2
  <1>5. ASSUME NEW i \in 1..Len(P), NEW n \in P[i], ~(i >= Count + 2)
        PROVE  n[2] = "revenue"
    <2>1. PICK j \in 0..Count : i = j + 1
      <3>1. i - 1 \in 0..Count /\ (i - 1) + 1 = i
        BY <1>3, <1>5, SpansFit
      <3> QED
        BY <3>1
    <2>2. P[i] = {<<"own", "revenue", j>>}
      BY <1>3, <2>1
    <2> QED
      BY <2>2
  <1>6. \A i \in 1..Len(P) : \A n \in P[i] : n[2] # "revenue" => i >= Count + 2
    BY <1>5
  <1> QED
    BY ONLY <1>2, <1>3, <1>4, <1>6, Zenon

LEMMA DailyOrder ==
  LET P == Plan["daily"] IN
  /\ Len(P) = 7 /\ P[1] = {<<"own", "cost", 0>>}
  /\ P[2] = {<<"own", "completed", 0>>, <<"own", "credit", 0>>, <<"own", "sales", 0>>}
  /\ \A i \in 1..Len(P) : \A n \in P[i] : n[2] \in {"sales", "top", "categories"} => i >= 2
  <1>1. PICK P : P = Daily
    OBVIOUS
  <1>2. Plan["daily"] = P
    BY <1>1 DEF Plan
  <1>3. /\ Len(P) = 7 /\ P[1] = {<<"own", "cost", 0>>}
        /\ P[2] = {<<"own", "completed", 0>>, <<"own", "credit", 0>>, <<"own", "sales", 0>>}
    BY <1>1, DailyAt
  <1>4. \A i \in 1..Len(P) : \A n \in P[i] : n[2] \in {"sales", "top", "categories"} => i >= 2
    BY <1>3
  <1> QED
    BY ONLY <1>2, <1>3, <1>4, Zenon

LEMMA CashierOrder ==
  LET P == Plan["cashier"] IN
  /\ Len(P) = 10 /\ P[1] = {<<"current", "any", 0>>} /\ P[3] = {<<"current", "sold", 0>>}
  /\ P[5] = {<<"previous", "any", 0>>} /\ P[7] = {<<"previous", "sold", 0>>}
  /\ \A i \in 1..Len(P) : \A n \in P[i] : /\ n[2] \in {"lifetime", "own"} => i >= 3
                                          /\ n[2] # "any" => i >= 2
                                          /\ n[1] = "previous" /\ n[2] # "any" => i >= 6
  <1>1. PICK P : P = CashierStatistics
    OBVIOUS
  <1>2. Plan["cashier"] = P
    BY <1>1 DEF Plan
  <1>3. /\ Len(P) = 10
        /\ P[1] = {<<"current", "any", 0>>} /\ P[2] = {<<"current", "quantities", 0>>}
        /\ P[3] = {<<"current", "sold", 0>>} /\ P[4] = {<<"current", "lifetime", 0>>}
        /\ P[5] = {<<"previous", "any", 0>>} /\ P[7] = {<<"previous", "sold", 0>>}
    BY <1>1, CashierAt
  <1>4. ASSUME NEW i \in 1..Len(P), NEW n \in P[i]
        PROVE  /\ n[2] \in {"lifetime", "own"} => i >= 3
               /\ n[2] # "any" => i >= 2
               /\ n[1] = "previous" /\ n[2] # "any" => i >= 6
    <2>1. i = 1 \/ i = 2 \/ i = 3 \/ i = 4 \/ i = 5 \/ i >= 6
      BY <1>3
    <2> QED
      BY <1>3, <2>1
  <1> QED
    BY ONLY <1>2, <1>3, <1>4, Zenon
-----------------------------------------------------------------------------
\* The figure n is asked for by the query after the first k.
Asks(n, k) == /\ DashboardInv /\ viewer.kind \in Endpoints /\ k \in 0..Len(Plan[viewer.kind]) /\ At(k)
              /\ k + 1 \in 1..Len(Plan[viewer.kind]) /\ n \in Plan[viewer.kind][k + 1]

\* What is asked for belongs to the use case that asks.
LEMMA AskedNames ==
  ASSUME NEW n, NEW k, Asks(n, k)
  PROVE  MayAsk(viewer.kind, n)
  BY PlansFit DEF Asks, PlanFits

\* Before a cashier's other figures, whether anything was sold at all.
LEMMA AnyKnown ==
  ASSUME NEW n, NEW k, Asks(n, k), viewer.kind = "cashier", n[1] # "rank", n[2] # "any"
  PROVE  <<n[1], "any", 0>> \in DOMAIN viewer.answer
  <1>1. PICK P : P = Plan["cashier"]
    OBVIOUS
  <1>2. k \in 0..Len(P) /\ k + 1 \in 1..Len(P) /\ n \in P[k + 1] /\ DOMAIN viewer.answer = UNION {P[i] : i \in 1..k}
    BY <1>1 DEF Asks, At
  <1>3. n[1] \in {"current", "previous"}
    BY AskedNames DEF Statistics, MayAsk
  <1>4. /\ Len(P) = 10 /\ P[1] = {<<"current", "any", 0>>} /\ P[5] = {<<"previous", "any", 0>>}
        /\ k + 1 >= 2 /\ (n[1] = "previous" => k + 1 >= 6)
    <2>1. \A i \in 1..Len(P) : \A m \in P[i] : /\ m[2] # "any" => i >= 2
                                               /\ m[1] = "previous" /\ m[2] # "any" => i >= 6
      BY <1>1, CashierOrder
    <2>2. Len(P) = 10 /\ P[1] = {<<"current", "any", 0>>} /\ P[5] = {<<"previous", "any", 0>>}
      BY <1>1, CashierOrder
    <2> QED
      BY <1>2, <2>1, <2>2
  <1>5. CASE n[1] = "current"
    <2>1. 1 \in 1..k
      BY <1>2, <1>4
    <2> QED
      BY <1>2, <1>4, <1>5, <2>1
  <1>6. CASE n[1] = "previous"
    <2>1. 5 \in 1..k
      BY <1>2, <1>4, <1>6
    <2> QED
      BY <1>2, <1>4, <1>6, <2>1
  <1> QED
    BY <1>3, <1>5, <1>6

\* A list of the best names lines of what it is read from, all of them while their groups are few.
LEMMA CutFits ==
  ASSUME NEW by, NEW S
  PROVE  Cut(by, S) \subseteq S /\ ListAgrees(by, Cut(by, S), S)
  <1>1. Cut(by, S) \subseteq S /\ (Cardinality(Groups(by, S)) <= Limit => Cut(by, S) = S)
    BY DEF Cut
  <1> QED
    BY <1>1 DEF ListAgrees, SettledLines

\* What is read as sold in a period was dated in it.
LEMMA FigureApart ==
  ASSUME NEW n, NEW k, Asks(n, k)
  PROVE  SoldInPeriod(n, Figure(n, viewer))
  <1>1. SUFFICES ASSUME n[1] \in {"current", "previous"}, n[2] \in SaleFigures
                 PROVE  \A b \in Invoices(n[2], Figure(n, viewer)) :
                           b \in Written /\ Within(bill[b].at, PeriodOf(n, viewer))
    BY DEF SoldInPeriod
  <1>2. viewer.kind \in Statistics
    BY <1>1, AskedNames DEF Asks, Endpoints, Statistics, MayAsk
  <1>3. PICK p, kind, x : p = PeriodOf(n, viewer) /\ kind = viewer.kind /\ x = viewer.subject
    OBVIOUS
  <1>4. \A l \in SoldLines(kind, x, p) : l[1] \in Written /\ Within(bill[l[1]].at, p)
    BY DEF SoldLines, Lines, Of, Written
  <1>5. CASE kind = "cashier"
    <2>1. n[2] \in {"any", "sold", "quantities"}
      BY <1>1, <1>2, <1>3, <1>5, AskedNames DEF SaleFigures, MayAsk, SummaryMatters, DailyMatters, SoldMatters
    <2>2. CASE n[2] = "quantities"
      <3>1. Figure(n, viewer) = {} \/ Figure(n, viewer) = SoldLines(kind, x, p)
        BY <1>3, <1>5, <2>2 DEF Figure, CashierFigure
      <3>2. Invoices(n[2], Figure(n, viewer)) = {l[1] : l \in Figure(n, viewer)}
        BY <2>2 DEF Invoices
      <3> QED
        BY <1>3, <1>4, <3>1, <3>2
    <2>3. CASE n[2] \in {"any", "sold"}
      <3>1. Figure(n, viewer) = {} \/ Figure(n, viewer) = CashierSold(x, p)
        BY <1>3, <1>5, <2>3 DEF Figure, CashierFigure
      <3>2. Invoices(n[2], Figure(n, viewer)) = Figure(n, viewer)
        BY <1>3, <1>5, <2>3 DEF Invoices
      <3> QED
        BY <1>3, <3>1, <3>2 DEF CashierSold, Written
    <2> QED
      BY <2>1, <2>2, <2>3
  <1>6. CASE kind # "cashier"
    <2>1. n[2] \in {"sold", "top_customers", "top_products"}
      BY <1>1, <1>2, <1>3, <1>6, AskedNames DEF MayAsk, SummaryMatters, DailyMatters, SoldMatters
    <2>2. /\ n[2] = "sold" => Figure(n, viewer) = SoldLines(kind, x, p)
          /\ n[2] = "top_customers" => Figure(n, viewer) = Cut("customer", SoldLines(kind, x, p))
          /\ n[2] = "top_products" => Figure(n, viewer) = Cut("product", SoldLines(kind, x, p))
      BY <1>3, <1>6 DEF Figure
    <2>3. Figure(n, viewer) \subseteq SoldLines(kind, x, p)
      BY <2>1, <2>2, CutFits
    <2>4. Invoices(n[2], Figure(n, viewer)) = {l[1] : l \in Figure(n, viewer)}
      BY <1>3, <1>6 DEF Invoices
    <2> QED
      BY <1>3, <1>4, <2>3, <2>4
  <1> QED
    BY <1>5, <1>6

\* A figure that has just been read stands.
LEMMA SummaryRead ==
  ASSUME NEW n, NEW k, Asks(n, k), viewer.kind = "summary"
  PROVE  SummaryStands(n, Figure(n, viewer))
  <1>1. n[2] = "revenue" => Figure(n, viewer) = RevenueSince(n[3], viewer)
    BY DEF Figure
  <1>2. n[2] = "expenses" => Figure(n, viewer) = ExpensesSince(n[3], viewer)
    BY DEF Figure
  <1>3. n[2] = "top" => Figure(n, viewer) = Cut("product", TopSold(viewer))
    BY DEF Figure
  <1>4. n[2] = "lifetime" => Figure(n, viewer) = Lifetime
    BY DEF Figure
  <1>5. n[2] = "lifetime_expenses" => Figure(n, viewer) = LifetimeExpenses
    BY DEF Figure
  <1>6. /\ RevenueSince(n[3], viewer) = {b \in Paid(viewer) : bill[b].at >= Since(n[3], viewer)}
        /\ Paid(viewer) \subseteq Lifetime
    BY DEF RevenueSince, Paid, Rows, Between, Lifetime, Within
  <1>7. TopSold(viewer) = LinesOf(Paid(viewer))
    BY DEF TopSold, LinesOf, Paid, Rows, Between, Lines, Of, Within
  <1>8. ExpensesSince(n[3], viewer) \subseteq ExpensesSince(0, viewer)
    <2>1. viewer.from \in Int /\ \A o \in Outlays : outlay[o] \in Int
      BY SpansFit DEF Asks, DashboardInv, ViewerFits, DashboardType, NotSpent
    <2> QED
      BY <2>1 DEF ExpensesSince, Within, Since
  <1>9. ExpensesSince(0, viewer) \subseteq LifetimeExpenses
    <2>1. viewer.to \in Int /\ viewer.to < NotSpent
      BY SpansFit DEF Asks, DashboardInv, ViewerFits, DashboardType, NotSpent
    <2>2. ~(NotSpent <= viewer.to)
      BY <2>1, SpansFit DEF NotSpent
    <2> QED
      BY <2>2 DEF ExpensesSince, LifetimeExpenses, Within
  <1>10. n[2] = "top" => ListAgrees("product", Figure(n, viewer), LinesOf(Paid(viewer)))
    BY <1>3, <1>7, CutFits
  <1> QED
    BY <1>1, <1>2, <1>4, <1>5, <1>6, <1>8, <1>9, <1>10 DEF SummaryStands, Settled

LEMMA DailyRead ==
  ASSUME NEW n, NEW k, Asks(n, k), viewer.kind = "daily"
  PROVE  DailyStands(n, Figure(n, viewer))
  <1>1. /\ n[2] = "cost" => Figure(n, viewer) = Cost(viewer)
        /\ n[2] = "top" => Figure(n, viewer) = Cut("product", TopSold(viewer))
        /\ n[2] = "categories" => Figure(n, viewer) = Cut("category", TopSold(viewer))
        /\ n[2] = "completed" => Figure(n, viewer) = OnDays(viewer, {"COMPLETED"})
        /\ n[2] = "sales" => Figure(n, viewer) = OnDays(viewer, {"COMPLETED", "CREDIT", "CANCELLED"})
    BY DEF Figure
  <1>2. TopSold(viewer) = LinesOf(Paid(viewer))
    BY DEF TopSold, LinesOf, Paid, Rows, Between, Lines, Of, Within
  <1>3. Cost(viewer) = LinesOf(Rows(Statuses, viewer))
    <2>1. \A l \in Lines : l[1] \in Bills /\ bill[l[1]].status \in Statuses
      BY DEF Lines, Statuses, Asks, DashboardInv, DashboardType, Bill
    <2> QED
      BY <2>1 DEF Cost, LinesOf, Rows, Between, Of, Within
  <1>4. ASSUME NEW statuses \in SUBSET Statuses
        PROVE  OnDays(viewer, statuses) \subseteq Written /\ Dated(OnDays(viewer, statuses)) = Rows(statuses, viewer)
    <2>1. viewer.to \in Nat /\ viewer.to <= Floor(viewer.to, DayLength) + DayLength - 1
          /\ Floor(viewer.to, DayLength) \in Nat
      <3>1. viewer.to \in Nat /\ DayLength \in Nat \ {0}
        BY SpansFit DEF Asks, DashboardInv, ViewerFits
      <3> QED
        BY <3>1, FloorIs
    <2>2. PICK last : last = Floor(viewer.to, DayLength) + DayLength - 1
      OBVIOUS
    <2>3. OnDays(viewer, statuses) = {b \in Bills : bill[b].status \in statuses /\ ~bill[b].archived
                                                    /\ viewer.from <= bill[b].at /\ bill[b].at <= last}
      BY <2>2 DEF OnDays, WholeDays, Within
    <2>4. last \in Int /\ viewer.to <= last /\ \A b \in Bills : bill[b].at \in Int
      BY <2>1, <2>2, SpansFit DEF Asks, DashboardInv, DashboardType, Bill
    <2> QED
      BY <2>1, <2>3, <2>4 DEF Dated, Rows, Between, Written, Statuses
  <1>5. {"COMPLETED"} \in SUBSET Statuses /\ Statuses \in SUBSET Statuses
        /\ Statuses = {"COMPLETED", "CREDIT", "CANCELLED"}
    BY DEF Statuses
  <1>6. /\ n[2] = "top" => ListAgrees("product", Figure(n, viewer), LinesOf(Paid(viewer)))
        /\ n[2] = "categories" => ListAgrees("category", Figure(n, viewer), LinesOf(Paid(viewer)))
    BY <1>1, <1>2, CutFits
  <1> QED
    BY <1>1, <1>3, <1>4, <1>5, <1>6 DEF DailyStands, Paid

LEMMA CashierRead ==
  ASSUME NEW n, NEW k, Asks(n, k), viewer.kind = "cashier"
  PROVE  CashierStands(n, Figure(n, viewer))
  <1>1. PICK p, x : p = PeriodOf(n, viewer) /\ x = viewer.subject
    OBVIOUS
  <1>2. CashierSold(x, p) = CashierPaid(p) /\ CashierSold(x, viewer) = CashierPaid(viewer)
    BY <1>1 DEF CashierSold, CashierPaid, Paid, Rows, Between, Within
  <1>3. SoldLines("cashier", x, p) = LinesOf(CashierPaid(p))
    <2>1. \A l \in Lines : l[1] \in Bills
      BY DEF Lines
    <2> QED
      BY <1>1, <2>1 DEF SoldLines, LinesOf, CashierPaid, Paid, Rows, Between, About, Of, Within
  <1>4. n[2] = "own" => p = viewer
    BY <1>1, AskedNames DEF MayAsk, Statistics, SoldMatters, PeriodOf
  <1>5. n = <<"current", "lifetime", 0>> => n[1] = "current" /\ n[2] = "lifetime" /\ p = viewer
    BY <1>1 DEF PeriodOf
  <1>6. CASE n[1] # "rank" /\ n[2] # "any" /\ viewer.answer[<<n[1], "any", 0>>] = {}
    <2>1. PICK m : m = <<n[1], "any", 0>>
      OBVIOUS
    <2>2. m \in DOMAIN viewer.answer /\ m[1] = n[1] /\ m[2] = "any"
      BY <1>6, <2>1, AnyKnown
    <2>3. CashierStands(m, viewer.answer[m])
      BY <2>2 DEF Asks, DashboardInv, FiguresFit, Stands
    <2>4. PeriodOf(m, viewer) = p /\ viewer.answer[m] = {}
      BY <1>1, <1>6, <2>1, <2>2 DEF PeriodOf
    <2>5. Settled(CashierPaid(p)) = {}
      BY <2>2, <2>3, <2>4 DEF CashierStands, Settled
    <2>6. SettledLines(LinesOf(CashierPaid(p))) = {}
      BY <2>5 DEF Settled, SettledLines, LinesOf
    <2>7. Figure(n, viewer) = {} /\ Settled({}) = {} /\ SettledLines({}) = {}
      BY <1>6 DEF Figure, CashierFigure, Settled, SettledLines
    <2> QED
      BY <1>1, <1>5, <2>5, <2>6, <2>7 DEF CashierStands
  <1>7. CASE ~(n[1] # "rank" /\ n[2] # "any" /\ viewer.answer[<<n[1], "any", 0>>] = {})
    <2>1. /\ n[2] \in {"any", "sold"} => Figure(n, viewer) = CashierSold(x, p)
          /\ n[2] = "quantities" => Figure(n, viewer) = SoldLines("cashier", x, p)
          /\ n[2] = "lifetime" => Figure(n, viewer) = LifetimeOf(x)
          /\ n[2] = "own" => Figure(n, viewer) = CashierSold(x, viewer)
      BY <1>1, <1>7 DEF Figure, CashierFigure
    <2>2. x # Owner => CashierPaid(viewer) \subseteq LifetimeOf(x)
      <3>1. \A b \in Bills : bill[b].at >= 0
        BY DEF Asks, DashboardInv, DashboardType, Bill
      <3> QED
        BY <1>1, <3>1 DEF CashierPaid, Paid, Rows, Between, LifetimeOf, Lifetime, Joined
    <2>3. Settled(CashierPaid(viewer)) \subseteq CashierPaid(viewer)
      BY DEF Settled
    <2> QED
      BY <1>1, <1>2, <1>3, <1>4, <1>5, <2>1, <2>2, <2>3 DEF CashierStands
  <1> QED
    BY <1>6, <1>7

LEMMA LinesRead ==
  ASSUME NEW n, NEW k, Asks(n, k), viewer.kind \in ByLine
  PROVE  LinesStand(n, Figure(n, viewer))
  <1>1. PICK p, kind, x : p = PeriodOf(n, viewer) /\ kind = viewer.kind /\ x = viewer.subject
    OBVIOUS
  <1>2. SoldLines(kind, x, p) = AskedLines(p)
    <2>1. \A l \in Lines : l[1] \in Bills
      BY DEF Lines
    <2> QED
      BY <1>1, <2>1 DEF SoldLines, LinesOf, AskedLines, Paid, Rows, Between, Of, Within
  <1>3. /\ n[2] = "sold" => Figure(n, viewer) = SoldLines(kind, x, p)
        /\ n[2] = "top_customers" => Figure(n, viewer) = Cut("customer", SoldLines(kind, x, p))
        /\ n[2] = "top_products" => Figure(n, viewer) = Cut("product", SoldLines(kind, x, p))
    BY <1>1 DEF Figure, ByLine
  <1>4. /\ n[2] = "top_customers" => ListAgrees("customer", Figure(n, viewer), AskedLines(p))
        /\ n[2] = "top_products" => ListAgrees("product", Figure(n, viewer), AskedLines(p))
    BY <1>2, <1>3, CutFits
  <1> QED
    BY <1>1, <1>2, <1>3, <1>4 DEF LinesStand

LEMMA FigureStands ==
  ASSUME NEW n, NEW k, Asks(n, k)
  PROVE  Stands(n, Figure(n, viewer))
  BY SummaryRead, DailyRead, CashierRead, LinesRead DEF Stands

\* A step that leaves the rows alone is calm.
LEMMA AloneIsCalm ==
  ASSUME DashboardInv, DashboardType', UNCHANGED <<now, bill, outlay, shelf>>, SameRequest,
         viewer'.touched = viewer.touched, viewer.kind # "none"
  PROVE  Calm
  <1>1. viewer.from \in Int /\ viewer.to \in Int /\ viewer.from <= viewer.to
    BY DEF DashboardInv, DashboardType, ViewerFits
  <1>2. Lasting
    BY DEF Lasting
  <1>3. Steady
    BY SameTime DEF Steady
  <1> QED
    BY <1>1, <1>2, <1>3 DEF Calm, DashboardInv

LEMMA ApartStays ==
  ASSUME UNCHANGED <<now, bill, outlay, shelf>>, SameRequest, NEW CONSTANT n, NEW CONSTANT S, SoldInPeriod(n, S)
  PROVE  SoldInPeriod(n, S)'
  <1>1. PeriodOf(n, viewer)'.from = PeriodOf(n, viewer).from /\ PeriodOf(n, viewer)'.to = PeriodOf(n, viewer).to
    BY DEF PeriodOf, Previous, SameRequest
  <1>2. Invoices(n[2], S)' = Invoices(n[2], S)
    BY DEF Invoices, SameRequest
  <1> QED
    BY <1>1, <1>2 DEF SoldInPeriod, Written, Within

\* A query adds its figures to the answer and leaves the others as they were.
LEMMA ReadsKeeps ==
  ASSUME DashboardInv, Reads
  PROVE  DashboardInv'
  <1>1. /\ viewer.todo # <<>> /\ viewer' = Query(viewer) /\ now' = now
        /\ bill' = bill /\ outlay' = outlay /\ shelf' = shelf /\ writes' = writes
    BY DEF Reads
  <1>2. viewer.kind \in Endpoints /\ viewer.kind # "none"
    BY <1>1 DEF DashboardInv, DashboardType, ViewerFits, Resting, Endpoints
  <1>3. PICK P : P = Plan[viewer.kind]
    OBVIOUS
  <1>4. P \in Lists /\ Len(P) \in Nat /\ viewer.todo \in Lists /\ Len(viewer.todo) \in Nat /\ Len(viewer.todo) > 0
    BY <1>1, <1>2, <1>3, PlansFit DEF PlanFits, Lists, DashboardInv, ViewerFits
  <1>5. PICK k \in 0..Len(P) : At(k)
    BY <1>2, <1>3 DEF DashboardInv, OnPlan
  <1>6. /\ Len(viewer.todo) = Len(P) - k /\ \A j \in 1..Len(viewer.todo) : viewer.todo[j] = P[k + j]
        /\ DOMAIN viewer.answer = UNION {P[i] : i \in 1..k}
    BY <1>1, <1>3, <1>5 DEF At
  <1>7. k + 1 \in 1..Len(P)
    BY <1>4, <1>5, <1>6
  <1>8. PICK q : q = Head(viewer.todo)
    OBVIOUS
  <1>9. q = P[k + 1]
    <2>1. 1 \in 1..Len(viewer.todo) /\ Head(viewer.todo) = viewer.todo[1]
      BY <1>4 DEF Lists
    <2> QED
      BY <1>6, <1>8, <2>1
  <1>10. SalesFit'
    BY <1>1 DEF DashboardInv, SalesFit
  <1>11. UNCHANGED <<now, bill, outlay, shelf>>
    BY <1>1
  <1>12. CASE \E n \in q : Fails(viewer, n)
    <2>1. viewer' = [viewer EXCEPT !.todo = <<>>]
      BY <1>1, <1>8, <1>12 DEF Query
    <2>2. /\ SameRequest /\ viewer'.todo = <<>> /\ viewer'.answer = viewer.answer /\ viewer'.touched = viewer.touched
          /\ viewer' = [kind |-> viewer'.kind, subject |-> viewer'.subject, from |-> viewer'.from, to |-> viewer'.to,
                  todo |-> viewer'.todo, answer |-> viewer'.answer, day |-> viewer'.day, touched |-> viewer'.touched]
      BY <2>1 DEF DashboardInv, ViewerFits, SameRequest
    <2>3. DashboardType' /\ ViewerFits'
      BY <1>1, <1>2, <2>2 DEF DashboardInv, DashboardType, ViewerFits, SameRequest, Lists
    <2>4. OnPlan'
      <3>1. viewer'.kind = viewer.kind /\ viewer'.todo = <<>> /\ viewer'.answer = viewer.answer
        BY <2>2 DEF SameRequest
      <3>2. DOMAIN viewer'.answer = UNION {P[i] : i \in 1..k}
        BY <1>6, <3>1
      <3>3. At(k)'
        BY <1>3, <3>1, <3>2 DEF At
      <3> QED
        BY <1>3, <3>1, <3>3 DEF OnPlan
    <2>5. ApartFits'
      BY <1>11, <2>2, ApartStays DEF DashboardInv, ApartFits
    <2>6. FiguresFit'
      <3>1. Calm
        BY <1>2, <1>11, <2>2, <2>3, AloneIsCalm
      <3>2. ASSUME NEW CONSTANT n \in DOMAIN viewer.answer
            PROVE  Stands(n, viewer.answer[n])'
        <4>1. PICK S : S = viewer.answer[n]
          OBVIOUS
        <4>2. Stands(n, S)
          BY <4>1 DEF DashboardInv, FiguresFit
        <4>3. n[3] \in 0..Count
          BY AnsweredNames, NamesOf DEF MayAsk
        <4>4. Stands(n, S)'
          BY <3>1, <4>2, <4>3, StandsKept
        <4> QED
          BY <2>2, <4>1, <4>4
      <3> QED
        BY <2>2, <3>2 DEF FiguresFit
    <2> QED
      BY <1>10, <2>3, <2>4, <2>5, <2>6 DEF DashboardInv
  <1>13. CASE ~ \E n \in q : Fails(viewer, n)
    <2>1. viewer' = [viewer EXCEPT !.todo = Tail(@),
                                   !.answer = [n \in q \cup DOMAIN @ |-> IF n \in q THEN Figure(n, viewer) ELSE @[n]]]
      BY <1>1, <1>8, <1>13 DEF Query
    <2>2. /\ SameRequest /\ viewer'.todo = Tail(viewer.todo) /\ viewer'.touched = viewer.touched
          /\ viewer'.answer = [n \in q \cup DOMAIN viewer.answer |-> IF n \in q THEN Figure(n, viewer)
                                                                              ELSE viewer.answer[n]]
          /\ viewer' = [kind |-> viewer'.kind, subject |-> viewer'.subject, from |-> viewer'.from, to |-> viewer'.to,
                  todo |-> viewer'.todo, answer |-> viewer'.answer, day |-> viewer'.day, touched |-> viewer'.touched]
      BY <2>1 DEF DashboardInv, ViewerFits, SameRequest
    <2>3. PICK next : next = viewer'.answer
      OBVIOUS
    <2>4. /\ DOMAIN next = q \cup DOMAIN viewer.answer
          /\ \A n \in q : next[n] = Figure(n, viewer)
          /\ \A n \in DOMAIN viewer.answer \ q : next[n] = viewer.answer[n]
      BY <2>2, <2>3
    <2>5. DOMAIN next = UNION {P[i] : i \in 1..(k + 1)}
      <3>1. UNION {P[i] : i \in 1..(k + 1)} = P[k + 1] \cup UNION {P[i] : i \in 1..k}
        BY <1>5, <1>4
      <3> QED
        BY <1>6, <1>9, <2>4, <3>1
    <2>6. \A n \in q : Asks(n, k)
      BY <1>2, <1>3, <1>5, <1>7, <1>9 DEF Asks
    <2>7. PICK rest : rest = viewer'.todo
      OBVIOUS
    <2>8. /\ rest \in Lists /\ Len(rest) = Len(P) - (k + 1) /\ Len(rest) \in Nat
          /\ \A j \in 1..Len(rest) : rest[j] = P[(k + 1) + j]
      <3>1. /\ Len(Tail(viewer.todo)) = Len(viewer.todo) - 1 /\ Tail(viewer.todo) \in Lists
            /\ \A j \in 1..Len(Tail(viewer.todo)) :
                  Tail(viewer.todo)[j] = viewer.todo[j + 1] /\ j + 1 \in 1..Len(viewer.todo)
        BY <1>4 DEF Lists
      <3>2. \A j \in 1..Len(rest) : rest[j] = P[k + (j + 1)] /\ k + (j + 1) = (k + 1) + j
        BY <1>4, <1>5, <1>6, <2>2, <2>7, <3>1
      <3>3. Len(rest) = Len(P) - (k + 1) /\ Len(rest) \in Nat
        BY <1>4, <1>5, <1>6, <2>2, <2>7, <3>1
      <3>4. \A j \in 1..Len(rest) : rest[j] = P[(k + 1) + j]
        BY <3>2
      <3> QED
        BY <2>2, <2>7, <3>1, <3>3, <3>4
    <2>9. DashboardType' /\ ViewerFits'
      BY <1>1, <1>2, <2>2, <2>7, <2>8 DEF DashboardInv, DashboardType, ViewerFits, SameRequest
    <2>10. OnPlan'
      <3>1. At(k + 1)'
        BY <1>3, <2>2, <2>3, <2>5, <2>7, <2>8 DEF At, SameRequest
      <3>2. k + 1 \in 0..Len(P)
        BY <1>7
      <3> QED
        BY <1>3, <2>2, <3>1, <3>2 DEF OnPlan, SameRequest
    <2>11. ApartFits'
      <3>1. ASSUME NEW CONSTANT n \in DOMAIN next
            PROVE  SoldInPeriod(n, next[n])
        BY <2>4, <2>6, FigureApart DEF DashboardInv, ApartFits
      <3>2. ASSUME NEW CONSTANT n \in DOMAIN next
            PROVE  SoldInPeriod(n, next[n])'
        BY <1>11, <2>2, <3>1, ApartStays
      <3> QED
        BY <2>3, <3>2 DEF ApartFits
    <2>12. FiguresFit'
      <3>1. Calm
        BY <1>2, <1>11, <2>2, <2>9, AloneIsCalm
      <3>2. ASSUME NEW CONSTANT n \in DOMAIN next
            PROVE  Stands(n, next[n])'
        <4>1. PICK S : S = next[n]
          OBVIOUS
        <4>2. Stands(n, S) /\ n[3] \in 0..Count
          <5>1. CASE n \in q
            <6>1. MayAsk(viewer.kind, n) /\ Stands(n, Figure(n, viewer))
              BY <2>6, <5>1, AskedNames, FigureStands
            <6> QED
              BY <2>4, <4>1, <5>1, <6>1, NamesOf DEF MayAsk
          <5>2. CASE n \notin q
            <6>1. n \in DOMAIN viewer.answer /\ MayAsk(viewer.kind, n)
              BY <2>4, <5>2, AnsweredNames
            <6> QED
              BY <2>4, <4>1, <5>2, <6>1, NamesOf DEF MayAsk, DashboardInv, FiguresFit
          <5> QED
            BY <5>1, <5>2
        <4>3. Stands(n, S)'
          BY <3>1, <4>2, StandsKept
        <4> QED
          BY <4>1, <4>3
      <3> QED
        BY <2>3, <3>2 DEF FiguresFit
    <2> QED
      BY <1>10, <2>9, <2>10, <2>11, <2>12 DEF DashboardInv
  <1> QED
    BY <1>12, <1>13

LEMMA DashboardStarts ==
  ASSUME DashboardInit
  PROVE  DashboardInv
  <1>1. NoBill \in Bill /\ NotSpent \in 0..NotSpent /\ 0 \in 0..MaxNow /\ MaxWrites \in 0..MaxWrites
    BY SpansFit DEF NoBill, Bill, NotSpent
  <1>2. DashboardType
    BY <1>1 DEF DashboardInit, DashboardType, Resting
  <1>3. \A b \in Bills : bill[b].status = "none"
    BY DEF DashboardInit, NoBill
  <1> QED
    BY <1>2, <1>3 DEF DashboardInit, DashboardInv, ViewerFits, SalesFit, OnPlan, ApartFits, FiguresFit, Resting, Lists

LEMMA DashboardKept ==
  ASSUME DashboardInv, [DashboardNext]_dashboardVars
  PROVE  DashboardInv'
  <1>1. CASE UNCHANGED dashboardVars
    <2>1. now' = now /\ bill' = bill /\ outlay' = outlay /\ shelf' = shelf /\ viewer' = viewer /\ writes' = writes
      BY <1>1 DEF dashboardVars
    <2>2. DashboardType' /\ ViewerFits' /\ SalesFit' /\ SameRequest
      BY <2>1 DEF DashboardInv, DashboardType, ViewerFits, SalesFit, SameRequest
    <2>3. OnPlan'
      <3>1. viewer.kind # "none" => \E k \in 0..Len(Plan[viewer.kind]) : At(k)
        BY DEF DashboardInv, OnPlan
      <3>2. ASSUME NEW CONSTANT k, At(k)
            PROVE  At(k)'
        BY <2>1, <3>2 DEF At
      <3> QED
        BY <2>1, <3>1, <3>2 DEF OnPlan
    <2>4. ApartFits'
      BY <2>1, <2>2, ApartStays DEF DashboardInv, ApartFits
    <2>5. FiguresFit'
      <3>1. ASSUME NEW CONSTANT n \in DOMAIN viewer.answer
            PROVE  Stands(n, viewer.answer[n])'
        <4>1. PICK S : S = viewer.answer[n]
          OBVIOUS
        <4>2. Stands(n, S)
          BY <4>1 DEF DashboardInv, FiguresFit
        <4>3. viewer.kind \in Endpoints /\ n[3] \in 0..Count
          BY AnsweredNames, NamesOf DEF MayAsk
        <4>4. Calm
          <5>1. viewer.kind # "none"
            BY <4>3 DEF Endpoints
          <5> QED
            BY <2>1, <2>2, <5>1, AloneIsCalm
        <4>5. Stands(n, S)'
          BY <4>2, <4>3, <4>4, StandsKept
        <4> QED
          BY <2>1, <4>1, <4>5
      <3> QED
        BY <2>1, <3>1 DEF FiguresFit
    <2> QED
      BY <2>2, <2>3, <2>4, <2>5 DEF DashboardInv
  <1>2. CASE DashboardNext
    <2>1. ASSUME NEW b \in Bills, NEW s \in Sales, Sell(b, s, "COMPLETED") \/ Sell(b, s, "CREDIT")
          PROVE  DashboardInv'
      BY <2>1, SellKeeps
    <2>2. CASE get_summary \/ get_daily
      BY <2>2, AskKeeps DEF get_summary, get_daily, Endpoints
    <2>3. CASE get_product_statistics
      BY <2>3, AskKeeps DEF get_product_statistics, Endpoints
    <2>4. CASE get_category_statistics
      BY <2>4, AskKeeps DEF get_category_statistics, Endpoints
    <2>5. CASE get_subcategory_statistics
      BY <2>5, AskKeeps DEF get_subcategory_statistics, Endpoints
    <2>6. CASE get_cashier_statistics
      BY <2>6, AskKeeps DEF get_cashier_statistics, Endpoints
    <2>7. ASSUME NEW x \in Products, Discard(x) \/ \E p \in Places : Move(x, p)
          PROVE  DashboardInv'
      BY <2>7, DiscardKeeps, MoveKeeps
    <2> QED
      BY <1>2, <2>1, <2>2, <2>3, <2>4, <2>5, <2>6, <2>7, ChangeKeeps, SpendKeeps, TimePassesKeeps, ReadsKeeps
         DEF DashboardNext
  <1> QED
    BY <1>1, <1>2

\* What the invariant says of sales is what the property says of them.
LEMMA ApartImplied ==
  ASSUME DashboardInv
  PROVE  PeriodsApart
  <1>1. SUFFICES ASSUME NEW what \in SaleFigures, Known(<<"current", what, 0>>), Known(<<"previous", what, 0>>),
                        NEW b \in Invoices(what, A("current", what)) \cap Invoices(what, A("previous", what))
                 PROVE  FALSE
    BY DEF PeriodsApart, SaleFigures
  <1>2. PICK m, n : m = <<"current", what, 0>> /\ n = <<"previous", what, 0>>
    OBVIOUS
  <1>3. /\ SoldInPeriod(m, viewer.answer[m]) /\ SoldInPeriod(n, viewer.answer[n])
        /\ b \in Invoices(m[2], viewer.answer[m]) /\ b \in Invoices(n[2], viewer.answer[n])
    BY <1>1, <1>2 DEF Known, A, DashboardInv, ApartFits
  <1>4. b \in Written /\ Within(bill[b].at, viewer) /\ Within(bill[b].at, Previous(viewer))
    BY <1>1, <1>2, <1>3 DEF SoldInPeriod, PeriodOf, SaleFigures
  <1>5. viewer.kind # "none"
    BY <1>1, <1>2 DEF Known, DashboardInv, ViewerFits, Resting
  <1>6. bill[b].at \in Int /\ viewer.from \in Int /\ viewer.to \in Int /\ viewer.from <= viewer.to
    BY <1>4, <1>5 DEF DashboardInv, DashboardType, ViewerFits, Bill, Written
  <1> QED
    BY <1>4, <1>6, SpansFit DEF Within, Previous

-----------------------------------------------------------------------------
\* What a plan has asked for by the time it has asked for something else.
LEMMA KnownFirst ==
  ASSUME DashboardInv
  PROVE  /\ viewer.kind = "summary" => \A n \in DOMAIN viewer.answer :
               /\ <<"own", "revenue", 0>> \in DOMAIN viewer.answer
               /\ n[2] # "revenue" => <<"own", "expenses", 0>> \in DOMAIN viewer.answer
         /\ viewer.kind = "daily" => \A n \in DOMAIN viewer.answer :
               /\ <<"own", "cost", 0>> \in DOMAIN viewer.answer
               /\ n[2] \in {"sales", "top", "categories"} => <<"own", "completed", 0>> \in DOMAIN viewer.answer
         /\ viewer.kind = "cashier" => \A n \in DOMAIN viewer.answer :
               n[2] \in {"lifetime", "own"} => <<"current", "sold", 0>> \in DOMAIN viewer.answer
  <1>1. PICK P : P = Plan[viewer.kind]
    OBVIOUS
  <1>2. SUFFICES ASSUME viewer.kind \in {"summary", "daily", "cashier"}, NEW n \in DOMAIN viewer.answer
                 PROVE  /\ viewer.kind = "summary" =>
                             /\ <<"own", "revenue", 0>> \in DOMAIN viewer.answer
                             /\ n[2] # "revenue" => <<"own", "expenses", 0>> \in DOMAIN viewer.answer
                        /\ viewer.kind = "daily" =>
                             /\ <<"own", "cost", 0>> \in DOMAIN viewer.answer
                             /\ n[2] \in {"sales", "top", "categories"} =>
                                  <<"own", "completed", 0>> \in DOMAIN viewer.answer
                        /\ viewer.kind = "cashier" /\ n[2] \in {"lifetime", "own"} =>
                             <<"current", "sold", 0>> \in DOMAIN viewer.answer
    OBVIOUS
  <1>3. Len(P) \in Nat
    BY <1>1, <1>2, PlansFit DEF PlanFits, Lists, Endpoints
  <1>4. PICK k \in 0..Len(P) : DOMAIN viewer.answer = UNION {P[i] : i \in 1..k}
    BY <1>1, <1>2 DEF DashboardInv, OnPlan, At
  <1>5. PICK i \in 1..k : n \in P[i]
    BY <1>2, <1>4
  <1>6. 1 \in 1..k /\ i \in 1..Len(P) /\ \A j \in Nat : 1 <= j /\ j <= i => j \in 1..k
    BY <1>3, <1>4, <1>5
  <1>7. CASE viewer.kind = "summary"
    <2>1. P[1] = {<<"own", "revenue", 0>>} /\ P[Count + 2] = {<<"own", "expenses", 0>>}
          /\ (n[2] # "revenue" => i >= Count + 2)
      BY <1>1, <1>5, <1>6, <1>7, SummaryOrder
    <2>2. n[2] # "revenue" => Count + 2 \in 1..k
      BY <1>6, <2>1, SpansFit
    <2> QED
      BY <1>4, <1>6, <1>7, <2>1, <2>2
  <1>8. CASE viewer.kind = "daily"
    <2>1. /\ P[1] = {<<"own", "cost", 0>>}
          /\ P[2] = {<<"own", "completed", 0>>, <<"own", "credit", 0>>, <<"own", "sales", 0>>}
          /\ (n[2] \in {"sales", "top", "categories"} => i >= 2)
      BY <1>1, <1>5, <1>6, <1>8, DailyOrder
    <2>2. n[2] \in {"sales", "top", "categories"} => 2 \in 1..k
      BY <1>6, <2>1
    <2> QED
      BY <1>4, <1>6, <1>8, <2>1, <2>2
  <1>9. CASE viewer.kind = "cashier"
    <2>1. P[3] = {<<"current", "sold", 0>>} /\ (n[2] \in {"lifetime", "own"} => i >= 3)
      BY <1>1, <1>5, <1>6, <1>9, CashierOrder
    <2>2. n[2] \in {"lifetime", "own"} => 3 \in 1..k
      BY <1>6, <2>1
    <2> QED
      BY <1>4, <1>6, <1>9, <2>1, <2>2
  <1> QED
    BY <1>2, <1>7, <1>8, <1>9

\* Lines of rows that are the same where they are settled are the same where they are;
\* a list agrees with any lines that are the same as its own there.
LEMMA SettledRows ==
  ASSUME NEW R, NEW T, Settled(R) = Settled(T)
  PROVE  SettledLines(LinesOf(R)) = SettledLines(LinesOf(T))
  BY DEF Settled, SettledLines, LinesOf

LEMMA ListMoves ==
  ASSUME NEW by, NEW list, NEW S, NEW T, ListAgrees(by, list, S), SettledLines(S) = SettledLines(T)
  PROVE  ListAgrees(by, list, T)
  <1>1. SettledLines(list) \subseteq T
    BY DEF ListAgrees, SettledLines
  <1>2. ASSUME viewer.touched = {}
        PROVE  S = T
    <2>1. SettledLines(S) = S /\ SettledLines(T) = T
      BY <1>2 DEF SettledLines
    <2> QED
      BY <2>1
  <1> QED
    BY <1>1, <1>2 DEF ListAgrees

\* Figures that stand for the same rows agree with each other.
LEMMA SummaryImplied ==
  ASSUME DashboardInv
  PROVE  SummaryAgrees
  <1>1. SUFFICES ASSUME viewer.kind = "summary"
                 PROVE  SummaryAgrees
    BY DEF SummaryAgrees
  <1>2. ASSUME NEW n \in DOMAIN viewer.answer
        PROVE  SummaryStands(n, viewer.answer[n])
    BY <1>1 DEF DashboardInv, FiguresFit, Stands
  <1>3. {b \in Paid(viewer) : bill[b].at >= Since(0, viewer)} = Paid(viewer)
    <2>1. viewer.from \in Int /\ \A b \in Bills : bill[b].at \in Int
      BY <1>1 DEF DashboardInv, DashboardType, ViewerFits, Bill
    <2> QED
      BY <2>1 DEF Paid, Rows, Between, Since
  <1>4. ASSUME DOMAIN viewer.answer # {}
        PROVE  Settled(A("own", "revenue")) = Settled(Paid(viewer))
    <2>1. PICK n : n = <<"own", "revenue", 0>>
      OBVIOUS
    <2>2. n \in DOMAIN viewer.answer /\ n[2] = "revenue" /\ n[3] = 0 /\ A("own", "revenue") = viewer.answer[n]
      BY <1>1, <1>4, <2>1, KnownFirst DEF A
    <2> QED
      BY <1>2, <1>3, <2>2 DEF SummaryStands, Fresh
  <1>5. ASSUME <<"own", "expenses", 0>> \in DOMAIN viewer.answer
        PROVE  Settled(A("own", "expenses")) = Settled(ExpensesSince(0, viewer))
    <2>1. PICK n : n = <<"own", "expenses", 0>>
      OBVIOUS
    <2>2. n \in DOMAIN viewer.answer /\ n[2] = "expenses" /\ n[3] = 0 /\ A("own", "expenses") = viewer.answer[n]
      BY <1>5, <2>1 DEF A
    <2> QED
      BY <1>2, <2>2 DEF SummaryStands, Fresh
  <1>6. ASSUME NEW what \in {"revenue", "expenses"}, NEW i \in SpansAsked, <<"own", what, i>> \in DOMAIN viewer.answer
        PROVE  /\ Settled(viewer.answer[<<"own", what, i>>]) \subseteq A("own", what)
               /\ <<"profit", what, i>> \in DOMAIN viewer.answer /\ (i = 0 \/ SameDay) =>
                     Settled(viewer.answer[<<"profit", what, i>>]) = Settled(viewer.answer[<<"own", what, i>>])
    <2>1. PICK n, m : n = <<"own", what, i>> /\ m = <<"profit", what, i>>
      OBVIOUS
    <2>2. n \in DOMAIN viewer.answer /\ n[2] = what /\ n[3] = i /\ m[2] = what /\ m[3] = i
      BY <1>6, <2>1
    <2>3. SummaryStands(n, viewer.answer[n]) /\ (m \in DOMAIN viewer.answer => SummaryStands(m, viewer.answer[m]))
      BY <1>2, <2>2
    <2>4. m \in DOMAIN viewer.answer /\ (i = 0 \/ SameDay) => Settled(viewer.answer[m]) = Settled(viewer.answer[n])
      BY <2>2, <2>3 DEF SummaryStands, Fresh
    <2>5. ASSUME what = "revenue"
          PROVE  Settled(viewer.answer[n]) \subseteq A("own", what)
      <3>1. Settled(viewer.answer[n]) \subseteq Paid(viewer)
        BY <2>2, <2>3, <2>5 DEF SummaryStands
      <3>2. Settled(A("own", what)) = Settled(Paid(viewer))
        BY <1>4, <2>2, <2>5
      <3> QED
        BY <3>1, <3>2 DEF Settled
    <2>6. ASSUME what = "expenses"
          PROVE  Settled(viewer.answer[n]) \subseteq A("own", what)
      <3>1. Settled(viewer.answer[n]) \subseteq ExpensesSince(0, viewer)
        BY <2>2, <2>3, <2>6 DEF SummaryStands
      <3>2. Settled(A("own", what)) = Settled(ExpensesSince(0, viewer))
        BY <1>1, <1>5, <2>2, <2>6, KnownFirst
      <3> QED
        BY <3>1, <3>2 DEF Settled
    <2>7. Settled(viewer.answer[n]) \subseteq A("own", what)
      BY <2>5, <2>6
    <2> QED
      BY <2>1, <2>4, <2>7
  <1>7. ASSUME <<"own", "top", 0>> \in DOMAIN viewer.answer
        PROVE  ListAgrees("product", A("own", "top"), LinesOf(A("own", "revenue")))
    <2>1. PICK n : n = <<"own", "top", 0>>
      OBVIOUS
    <2>2. n \in DOMAIN viewer.answer /\ n[2] = "top" /\ A("own", "top") = viewer.answer[n]
      BY <1>7, <2>1 DEF A
    <2>3. ListAgrees("product", A("own", "top"), LinesOf(Paid(viewer)))
      BY <1>2, <2>2 DEF SummaryStands
    <2>4. SettledLines(LinesOf(Paid(viewer))) = SettledLines(LinesOf(A("own", "revenue")))
      BY <1>4, <2>2, SettledRows
    <2> QED
      BY <2>3, <2>4, ListMoves
  <1>8. ASSUME <<"own", "lifetime", 0>> \in DOMAIN viewer.answer
        PROVE  Settled(A("own", "revenue")) \subseteq A("own", "lifetime")
    <2>1. PICK n : n = <<"own", "lifetime", 0>>
      OBVIOUS
    <2>2. n \in DOMAIN viewer.answer /\ n[2] = "lifetime" /\ A("own", "lifetime") = viewer.answer[n]
      BY <1>8, <2>1 DEF A
    <2> QED
      BY <1>2, <1>4, <2>2 DEF SummaryStands
  <1>9. ASSUME <<"own", "lifetime_expenses", 0>> \in DOMAIN viewer.answer
        PROVE  Settled(A("own", "expenses")) \subseteq A("own", "lifetime_expenses")
    <2>1. PICK n : n = <<"own", "lifetime_expenses", 0>>
      OBVIOUS
    <2>2. n \in DOMAIN viewer.answer /\ n[2] = "lifetime_expenses" /\ A("own", "lifetime_expenses") = viewer.answer[n]
      BY <1>9, <2>1 DEF A
    <2>3. <<"own", "expenses", 0>> \in DOMAIN viewer.answer
      BY <1>1, <2>2, KnownFirst
    <2> QED
      BY <1>2, <1>5, <2>2, <2>3 DEF SummaryStands
  <1> QED
    BY <1>6, <1>7, <1>8, <1>9 DEF SummaryAgrees, Known

LEMMA DaysImplied ==
  ASSUME DashboardInv
  PROVE  DaysAgree
  <1>1. SUFFICES ASSUME viewer.kind = "daily"
                 PROVE  DaysAgree
    BY DEF DaysAgree
  <1>2. ASSUME NEW what, <<"own", what, 0>> \in DOMAIN viewer.answer
        PROVE  /\ what = "cost" => SettledLines(A("own", what)) = SettledLines(LinesOf(Rows(Statuses, viewer)))
               /\ what = "top" => ListAgrees("product", A("own", what), LinesOf(Paid(viewer)))
               /\ what = "categories" => ListAgrees("category", A("own", what), LinesOf(Paid(viewer)))
               /\ what = "completed" => Settled(Dated(A("own", what))) = Settled(Paid(viewer))
               /\ what = "sales" => Settled(Dated(A("own", what))) = Settled(Rows(Statuses, viewer))
               /\ <<"own", "cost", 0>> \in DOMAIN viewer.answer
               /\ what \in {"top", "categories"} => <<"own", "completed", 0>> \in DOMAIN viewer.answer
    <2>1. PICK n : n = <<"own", what, 0>>
      OBVIOUS
    <2>2. n[2] = what /\ n \in DOMAIN viewer.answer /\ A("own", what) = viewer.answer[n]
      BY <1>2, <2>1 DEF A
    <2>3. DailyStands(n, viewer.answer[n])
      BY <1>1, <2>2 DEF DashboardInv, FiguresFit, Stands
    <2>4. /\ <<"own", "cost", 0>> \in DOMAIN viewer.answer
          /\ what \in {"top", "categories"} => <<"own", "completed", 0>> \in DOMAIN viewer.answer
      BY <1>1, <2>2, KnownFirst
    <2> QED
      BY <2>2, <2>3, <2>4 DEF DailyStands
  <1>3. ASSUME <<"own", "sales", 0>> \in DOMAIN viewer.answer
        PROVE  SettledLines(A("own", "cost")) = SettledLines(LinesOf(Dated(A("own", "sales"))))
    <2>1. Settled(Dated(A("own", "sales"))) = Settled(Rows(Statuses, viewer))
      BY <1>2, <1>3
    <2>2. SettledLines(A("own", "cost")) = SettledLines(LinesOf(Rows(Statuses, viewer)))
      BY <1>2, <1>3
    <2>3. SettledLines(LinesOf(Dated(A("own", "sales")))) = SettledLines(LinesOf(Rows(Statuses, viewer)))
      BY <2>1, SettledRows
    <2> QED
      BY <2>2, <2>3
  <1>4. ASSUME <<"own", "completed", 0>> \in DOMAIN viewer.answer
        PROVE  SettledLines(LinesOf(Paid(viewer))) = SettledLines(LinesOf(Dated(A("own", "completed"))))
    <2>1. Settled(Paid(viewer)) = Settled(Dated(A("own", "completed")))
      BY <1>2, <1>4
    <2> QED
      BY <2>1, SettledRows
  <1>5. ASSUME <<"own", "top", 0>> \in DOMAIN viewer.answer
        PROVE  ListAgrees("product", A("own", "top"), LinesOf(Dated(A("own", "completed"))))
    <2>1. ListAgrees("product", A("own", "top"), LinesOf(Paid(viewer)))
          /\ <<"own", "completed", 0>> \in DOMAIN viewer.answer
      BY <1>2, <1>5
    <2> QED
      BY <1>4, <2>1, ListMoves
  <1>6. ASSUME <<"own", "categories", 0>> \in DOMAIN viewer.answer
        PROVE  ListAgrees("category", A("own", "categories"), LinesOf(Dated(A("own", "completed"))))
    <2>1. ListAgrees("category", A("own", "categories"), LinesOf(Paid(viewer)))
          /\ <<"own", "completed", 0>> \in DOMAIN viewer.answer
      BY <1>2, <1>6
    <2> QED
      BY <1>4, <2>1, ListMoves
  <1> QED
    BY <1>3, <1>5, <1>6 DEF DaysAgree, Known

LEMMA StatisticsImplied ==
  ASSUME DashboardInv
  PROVE  StatisticsAgree
  <1>1. SUFFICES ASSUME viewer.kind \in Statistics
                 PROVE  StatisticsAgree
    BY DEF StatisticsAgree, Statistics
  <1>2. ASSUME NEW n \in DOMAIN viewer.answer
        PROVE  /\ Stands(n, viewer.answer[n]) /\ n[2] # "revenue"
               /\ viewer.kind = "cashier" =>
                     CashierStands(n, viewer.answer[n]) /\ n[2] \notin {"top_customers", "top_products"}
               /\ viewer.kind # "cashier" => LinesStand(n, viewer.answer[n])
                                             /\ n[2] \in {"sold", "top_customers", "top_products"}
    <2>1. Stands(n, viewer.answer[n]) /\ MayAsk(viewer.kind, n)
      BY AnsweredNames DEF DashboardInv, FiguresFit
    <2> QED
      BY <1>1, <2>1 DEF Stands, MayAsk, Statistics, ByLine, SoldMatters
  <1>3. ASSUME NEW which \in {"current", "previous"}, NEW what, <<which, what, 0>> \in DOMAIN viewer.answer,
               <<which, "sold", 0>> \in DOMAIN viewer.answer
        PROVE  /\ what = "any" => Settled(A(which, what)) = Settled(A(which, "sold"))
               /\ what = "quantities" => SettledLines(A(which, what)) = SettledLines(LinesOf(A(which, "sold")))
               /\ what = "top_customers" => ListAgrees("customer", A(which, what), A(which, "sold"))
               /\ what = "top_products" => ListAgrees("product", A(which, what), A(which, "sold"))
    <2>1. PICK n, m, p : /\ n = <<which, what, 0>> /\ m = <<which, "sold", 0>>
                         /\ p = IF which = "previous" THEN Previous(viewer) ELSE viewer
      OBVIOUS
    <2>2. /\ n \in DOMAIN viewer.answer /\ n[2] = what /\ A(which, what) = viewer.answer[n]
          /\ m \in DOMAIN viewer.answer /\ m[2] = "sold" /\ A(which, "sold") = viewer.answer[m]
          /\ PeriodOf(n, viewer) = p /\ PeriodOf(m, viewer) = p
      BY <1>3, <2>1 DEF A, PeriodOf
    <2>3. CASE viewer.kind = "cashier"
      <3>1. CashierStands(n, viewer.answer[n]) /\ CashierStands(m, viewer.answer[m])
            /\ n[2] \notin {"top_customers", "top_products"}
        BY <1>2, <2>2, <2>3
      <3>2. Settled(A(which, "sold")) = Settled(CashierPaid(p))
        BY <2>2, <3>1 DEF CashierStands
      <3>3. SettledLines(LinesOf(A(which, "sold"))) = SettledLines(LinesOf(CashierPaid(p)))
        BY <3>2, SettledRows
      <3>4. /\ what = "any" => Settled(A(which, what)) = Settled(CashierPaid(p))
            /\ what = "quantities" => SettledLines(A(which, what)) = SettledLines(LinesOf(CashierPaid(p)))
        BY <2>2, <3>1 DEF CashierStands
      <3> QED
        BY <2>2, <3>1, <3>2, <3>3, <3>4
    <2>4. CASE viewer.kind # "cashier"
      <3>1. LinesStand(n, viewer.answer[n]) /\ LinesStand(m, viewer.answer[m])
            /\ n[2] \in {"sold", "top_customers", "top_products"}
        BY <1>2, <2>2, <2>4
      <3>2. SettledLines(A(which, "sold")) = SettledLines(AskedLines(p))
        BY <2>2, <3>1 DEF LinesStand
      <3>3. /\ what = "top_customers" => ListAgrees("customer", A(which, what), AskedLines(p))
            /\ what = "top_products" => ListAgrees("product", A(which, what), AskedLines(p))
        BY <2>2, <3>1 DEF LinesStand
      <3>4. /\ what = "top_customers" => ListAgrees("customer", A(which, what), A(which, "sold"))
            /\ what = "top_products" => ListAgrees("product", A(which, what), A(which, "sold"))
        BY <3>2, <3>3, ListMoves
      <3> QED
        BY <2>2, <3>1, <3>4
    <2> QED
      BY <2>3, <2>4
  <1>4. ASSUME <<"current", "sold", 0>> \in DOMAIN viewer.answer, viewer.kind = "cashier"
        PROVE  Settled(A("current", "sold")) = Settled(CashierPaid(viewer))
    <2>1. PICK m : m = <<"current", "sold", 0>>
      OBVIOUS
    <2>2. m \in DOMAIN viewer.answer /\ m[2] = "sold" /\ A("current", "sold") = viewer.answer[m]
          /\ PeriodOf(m, viewer) = viewer
      BY <1>4, <2>1 DEF A, PeriodOf
    <2> QED
      BY <1>2, <1>4, <2>2 DEF CashierStands
  <1>5. ASSUME <<"current", "lifetime", 0>> \in DOMAIN viewer.answer, viewer.subject # Owner
        PROVE  Settled(A("current", "sold")) \subseteq A("current", "lifetime")
    <2>1. PICK n : n = <<"current", "lifetime", 0>>
      OBVIOUS
    <2>2. n \in DOMAIN viewer.answer /\ n[2] = "lifetime" /\ A("current", "lifetime") = viewer.answer[n]
      BY <1>5, <2>1 DEF A
    <2>3. viewer.kind = "cashier"
      BY <1>2, <2>2
    <2>4. <<"current", "sold", 0>> \in DOMAIN viewer.answer
      BY <2>2, <2>3, KnownFirst
    <2>5. Settled(CashierPaid(viewer)) \subseteq A("current", "lifetime")
      BY <1>2, <1>5, <2>1, <2>2, <2>3 DEF CashierStands
    <2> QED
      BY <1>4, <2>3, <2>4, <2>5
  <1>6. ASSUME <<"rank", "own", 0>> \in DOMAIN viewer.answer
        PROVE  Settled(A("rank", "own")) = Settled(A("current", "sold"))
    <2>1. PICK n : n = <<"rank", "own", 0>>
      OBVIOUS
    <2>2. n \in DOMAIN viewer.answer /\ n[2] = "own" /\ A("rank", "own") = viewer.answer[n]
          /\ PeriodOf(n, viewer) = viewer
      BY <1>6, <2>1 DEF A, PeriodOf
    <2>3. viewer.kind = "cashier"
      BY <1>2, <2>2
    <2>4. <<"current", "sold", 0>> \in DOMAIN viewer.answer
      BY <2>2, <2>3, KnownFirst
    <2>5. Settled(A("rank", "own")) = Settled(CashierPaid(viewer))
      BY <1>2, <2>2, <2>3 DEF CashierStands
    <2> QED
      BY <1>4, <2>3, <2>4, <2>5
  <1> QED
    BY <1>3, <1>5, <1>6 DEF StatisticsAgree, Known

LEMMA AgreeImplied ==
  ASSUME DashboardInv
  PROVE  FiguresAgree
  BY SummaryImplied, DaysImplied, StatisticsImplied DEF FiguresAgree
-----------------------------------------------------------------------------
LEMMA DashboardInvariant == DashboardSpec => []DashboardInv
  <1>1. DashboardInit => DashboardInv
    BY DashboardStarts
  <1>2. DashboardInv /\ [DashboardNext]_dashboardVars => DashboardInv'
    BY DashboardKept
  <1> QED
    BY <1>1, <1>2, PTL DEF DashboardSpec

\* A trend compares two periods that share no sale, whatever is written and
\* however often the clock ticks between the queries, for any spans of days and
\* any smallest unit of time shorter than a day
\* (dashboard_use_cases.py:_calculate_previous_period).
THEOREM TrendPeriodsShareNoSale == DashboardSpec => []PeriodsApart
  <1>1. DashboardInv => PeriodsApart
    BY ApartImplied
  <1> QED
    BY <1>1, DashboardInvariant, PTL

\* The figures of one answer, each read by a query of its own, say the same of every
\* row that was not written since the request read its clock, whether they are taken
\* from invoices or from the lines that are left of them, and a list of the best names
\* nothing the figures lack; sales made after the period's end disturb none of them.
\* This holds for any number of invoices, expenses, products and spans, whatever is sold,
\* settled, cancelled, archived, deleted or moved between the queries
\* (DashboardMetricsRepositoryImpl.aggregate_revenue_metrics and its siblings).
THEOREM QueriesAgree == DashboardSpec => []FiguresAgree
  <1>1. DashboardInv => FiguresAgree
    BY AgreeImplied
  <1> QED
    BY <1>1, DashboardInvariant, PTL
=============================================================================
