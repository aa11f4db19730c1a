---------------------------- MODULE OfficeProofs ----------------------------
(***************************************************************************)
(* Proofs about Catalogue, Finance and Members.  None of their requests    *)
(* takes a lock, so each invariant says what a request that has not been   *)
(* overtaken may still rely on when it writes.                             *)
(*                                                                         *)
(* Catalogue: a planned product names a subcategory of its category, which *)
(* a subcategory never leaves; everything else is looked at when the       *)
(* statement runs.                                                         *)
(*                                                                         *)
(* Finance: on every day to come, not only today, an employee has no more  *)
(* salaries than allowed, and a request about to insert one has room for   *)
(* it; of an expense nobody shares, the last entry of the log says what    *)
(* the request at work on it has read.                                     *)
(*                                                                         *)
(* Members: a request about to tie a user to a business knows the user     *)
(* to be free, for whoever ties him first marks it as overtaken.           *)
(***************************************************************************)
EXTENDS MCOffice, DashboardProofs, FiniteSetTheorems

(* The catalogue. *)

\* A product about to be written.
Planned(x) == x.op \in {"newgood", "good"} =>
    /\ x.row.state = "live"
    /\ x.row.subcategory # NoSubcategory =>
          /\ subcategory[x.row.subcategory].state # "none"
          /\ subcategory[x.row.subcategory].category = x.row.category
EditorsFit == \A e \in Editors : Planned(editor[e])
CatalogueInv == CatalogueType /\ ScopeSound /\ EditorsFit

\* A subcategory that has been made stays in its category.
Placed == \A s \in Subcategories : subcategory[s].state # "none" =>
             subcategory'[s].state # "none" /\ subcategory'[s].category = subcategory[s].category
\* What products may refer to stays.
Stable == /\ \A c \in Categories : HasCategory(c) => HasCategory(c)'
          /\ \A s \in Subcategories : HasSubcategory(s) =>
                HasSubcategory(s)' /\ subcategory'[s].category = subcategory[s].category

LEMMA EditorsStay ==
  ASSUME CatalogueInv, Placed, NEW e \in Editors, NEW x \in Editor, Planned(x)',
         editor' = [editor EXCEPT ![e] = x]
  PROVE  EditorsFit' /\ editor' \in [Editors -> Editor]
  <1>1. editor' \in [Editors -> Editor] /\ editor'[e] = x /\ \A d \in Editors \ {e} : editor'[d] = editor[d]
    BY DEF CatalogueInv, CatalogueType
  <1>2. ASSUME NEW d \in Editors \ {e}
        PROVE  Planned(editor[d])'
    <2>1. PICK y : y = editor[d]
      OBVIOUS
    <2>2. y \in Editor /\ Planned(y)
      BY <2>1 DEF CatalogueInv, CatalogueType, EditorsFit
    <2>3. y.row.subcategory \in Subcategories \cup {NoSubcategory}
      BY <2>2 DEF Editor, Good
    <2>4. Planned(y)'
      BY <2>2, <2>3 DEF Planned, Placed
    <2> QED
      BY <1>1, <2>1, <2>4
  <1> QED
    BY <1>1, <1>2 DEF EditorsFit

LEMMA EditorsSame ==
  ASSUME CatalogueInv, Placed, UNCHANGED editor
  PROVE  EditorsFit' /\ editor' \in [Editors -> Editor]
  <1>1. ASSUME NEW d \in Editors
        PROVE  Planned(editor[d])'
    <2>1. PICK y : y = editor[d]
      OBVIOUS
    <2>2. y \in Editor /\ Planned(y)
      BY <2>1 DEF CatalogueInv, CatalogueType, EditorsFit
    <2>3. y.row.subcategory \in Subcategories \cup {NoSubcategory}
      BY <2>2 DEF Editor, Good
    <2>4. Planned(y)'
      BY <2>2, <2>3 DEF Planned, Placed
    <2> QED
      BY <2>1, <2>4
  <1> QED
    BY <1>1 DEF EditorsFit, CatalogueInv, CatalogueType

LEMMA ScopeStays ==
  ASSUME CatalogueInv, Stable, UNCHANGED good
  PROVE  ScopeSound'
  <1>1. ASSUME NEW g \in Goods, HasGood(g)
        PROVE  /\ References(good[g])'
               /\ good[g].subcategory # NoSubcategory => subcategory'[good[g].subcategory].category = good[g].category
    BY <1>1 DEF CatalogueInv, ScopeSound, References, Stable, HasCategory, HasSubcategory
  <1>2. \A g \in Goods : HasGood(g)' <=> HasGood(g)
    BY DEF HasGood
  <1> QED
    BY <1>1, <1>2 DEF CatalogueInv, ScopeSound, References

\* A product is placed, or moved, where the constraints admit it.
LEMMA PlacingKeeps ==
  ASSUME CatalogueInv, NEW g \in Goods, NEW r \in Good, r.state = "live", References(r), GoodNameFree(r, g),
         r.subcategory # NoSubcategory => subcategory[r.subcategory].category = r.category,
         good' = [good EXCEPT ![g] = r], UNCHANGED <<category, subcategory>>
  PROVE  ScopeSound' /\ good' \in [Goods -> Good]
  <1>1. good' \in [Goods -> Good] /\ good'[g] = r /\ \A h \in Goods \ {g} : good'[h] = good[h]
    BY DEF CatalogueInv, CatalogueType
  <1>2. /\ \A c : HasCategory(c)' <=> HasCategory(c)
        /\ \A s : HasSubcategory(s)' <=> HasSubcategory(s)
    BY DEF HasCategory, HasSubcategory
  <1>3. \A h \in Goods : HasGood(h)' <=> (h = g \/ HasGood(h))
    BY <1>1 DEF HasGood, CatalogueInv, CatalogueType
  <1>4. \A h \in Goods \ {g} : (HasGood(h) /\ good[h].category = r.category /\ good[h].subcategory = r.subcategory)
                                  => good[h].name # r.name
    BY DEF GoodNameFree, Scope
  <1>5. ASSUME NEW h \in Goods, HasGood(h)'
        PROVE  /\ References(good[h])'
               /\ good'[h].subcategory # NoSubcategory => subcategory'[good'[h].subcategory].category = good'[h].category
    BY <1>1, <1>2, <1>3, <1>5 DEF CatalogueInv, ScopeSound, References
  <1>6. ASSUME NEW h \in Goods, HasGood(h)', NEW i \in Goods \ {h}, HasGood(i)',
               good'[i].category = good'[h].category, good'[i].subcategory = good'[h].subcategory
        PROVE  good'[i].name # good'[h].name
    <2>1. CASE h = g
      BY <1>1, <1>3, <1>4, <1>6, <2>1
    <2>2. CASE i = g
      BY <1>1, <1>3, <1>4, <1>6, <2>2
    <2>3. CASE h # g /\ i # g
      BY <1>1, <1>3, <1>6, <2>3 DEF CatalogueInv, ScopeSound
    <2> QED
      BY <2>1, <2>2, <2>3
  <1> QED
    BY <1>1, <1>5, <1>6 DEF ScopeSound

LEMMA RowsTypedC ==
  ASSUME CatalogueType
  PROVE  /\ \A c \in Categories : category[c] \in Category
         /\ \A s \in Subcategories : subcategory[s] \in Subcategory
         /\ \A g \in Goods : good[g] \in Good
         /\ \A e \in Editors : editor[e] \in Editor /\ editor[e].row \in Good
                               /\ editor[e].name \in Names
                               /\ editor[e].category \in Categories \cup {NoCategory}
                               /\ editor[e].subcategory \in Subcategories \cup {NoSubcategory}
                               /\ editor[e].good \in Goods \cup {NoGood}
  BY DEF CatalogueType, Editor

LEMMA AwayFits == Away \in Editor /\ Planned(Away)' /\ NoGoodRow \in Good /\ AName \in Names
  BY CatalogueConstants DEF Away, Editor, Planned, NoGoodRow, Good, AName

LEMMA FewerEdits == ASSUME CatalogueInv, edits > 0, edits' = edits - 1
                    PROVE  edits' \in 0..MaxEdits
  BY CatalogueConstants DEF CatalogueInv, CatalogueType

\* A request goes on, or ends, and no row changes.
LEMMA EditorMoves ==
  ASSUME CatalogueInv, NEW e \in Editors, NEW x \in Editor, Planned(x)', edits' \in 0..MaxEdits,
         editor' = [editor EXCEPT ![e] = x], UNCHANGED <<category, subcategory, good>>
  PROVE  CatalogueInv'
  <1>1. Placed /\ Stable
    BY DEF Placed, Stable, HasCategory, HasSubcategory
  <1>2. EditorsFit' /\ editor' \in [Editors -> Editor]
    BY <1>1, EditorsStay
  <1>3. ScopeSound'
    BY <1>1, ScopeStays
  <1> QED
    BY <1>2, <1>3 DEF CatalogueInv, CatalogueType

LEMMA PlanKeeps ==
  ASSUME CatalogueInv, NEW e \in Editors,
         \/ \E c \in Categories, n \in Names : RenameCategory(e, c, n) \/ PlanSubcategory(e, c, n)
         \/ \E s \in Subcategories, n \in Names : RenameSubcategory(e, s, n)
  PROVE  CatalogueInv'
  <1>1. PICK x : /\ x \in Editor /\ Planned(x)' /\ editor' = [editor EXCEPT ![e] = x]
                 /\ edits > 0 /\ edits' = edits - 1 /\ UNCHANGED <<category, subcategory, good>>
    <2>1. CASE \E c \in Categories, n \in Names : RenameCategory(e, c, n) \/ PlanSubcategory(e, c, n)
      <3>1. PICK c \in Categories, n \in Names : RenameCategory(e, c, n) \/ PlanSubcategory(e, c, n)
        BY <2>1
      <3>2. \A op \in {"category", "newsubcategory"} :
               LET x == [Away EXCEPT !.op = op, !.category = c, !.name = n] IN x \in Editor /\ Planned(x)'
        BY AwayFits DEF Away, Editor, Planned
      <3> QED
        BY <3>1, <3>2 DEF RenameCategory, PlanSubcategory, Edits, Keeps
    <2>2. CASE \E s \in Subcategories, n \in Names : RenameSubcategory(e, s, n)
      <3>1. PICK s \in Subcategories, n \in Names : RenameSubcategory(e, s, n)
        BY <2>2
      <3>2. LET x == [Away EXCEPT !.op = "subcategory", !.subcategory = s, !.name = n] IN x \in Editor /\ Planned(x)'
        BY AwayFits DEF Away, Editor, Planned
      <3> QED
        BY <3>1, <3>2 DEF RenameSubcategory, Edits, Keeps
    <2> QED
      BY <2>1, <2>2
  <1>2. edits' \in 0..MaxEdits
    BY <1>1, FewerEdits
  <1> QED
    BY <1>1, <1>2, EditorMoves

\* The place that a product is planned for is looked at when it is planned.
LEMMA PlanGoodKeeps ==
  ASSUME CatalogueInv, NEW e \in Editors, NEW x \in Editor, NEW g \in Goods \cup {NoGood},
         NEW r \in Good, x.row = r, r.state = "live", Fits(r, g), edits > 0, edits' = edits - 1,
         editor' = [editor EXCEPT ![e] = x], UNCHANGED <<category, subcategory, good>>
  PROVE  CatalogueInv'
  <1>1. r.subcategory # NoSubcategory => /\ subcategory'[r.subcategory].state # "none"
                                         /\ subcategory'[r.subcategory].category = r.category
    BY DEF Fits, References, HasSubcategory
  <1>2. Planned(x)'
    BY <1>1 DEF Planned
  <1>3. edits' \in 0..MaxEdits
    BY FewerEdits
  <1> QED
    BY <1>2, <1>3, EditorMoves

LEMMA PlaceKeeps ==
  ASSUME CatalogueInv, NEW e \in Editors,
         NEW c \in Categories \cup {NoCategory}, NEW s \in Subcategories \cup {NoSubcategory}, NEW n \in Names,
         NEW provided \in BOOLEAN,
         \/ c \in Categories /\ PlanGood(e, c, s, n)
         \/ \E g \in Goods : PlaceEdit(e, g, c, s, provided, n)
  PROVE  CatalogueInv'
  <1>1. CASE c \in Categories /\ PlanGood(e, c, s, n)
    <2>1. PICK r : r = [state |-> "live", name |-> n, category |-> c, subcategory |-> s]
      OBVIOUS
    <2>2. r \in Good /\ r.state = "live"
      BY <1>1, <2>1 DEF Good
    <2>3. PICK x : x = [Away EXCEPT !.op = "newgood", !.row = r]
      OBVIOUS
    <2>5. x \in Editor /\ x.row = r
      BY <2>2, <2>3, AwayFits DEF Away, Editor
    <2>6. editor' = [editor EXCEPT ![e] = x]
      BY <1>1, <2>1, <2>3 DEF PlanGood, Keeps
    <2>4. Fits(r, NoGood) /\ edits > 0 /\ edits' = edits - 1 /\ UNCHANGED <<category, subcategory, good>>
      BY <1>1, <2>1 DEF PlanGood, Edits
    <2> QED
      BY <2>2, <2>4, <2>5, <2>6, PlanGoodKeeps
  <1>2. CASE \E g \in Goods : PlaceEdit(e, g, c, s, provided, n)
    <2>1. PICK g \in Goods : PlaceEdit(e, g, c, s, provided, n)
      BY <1>2
    <2>2. PICK r : r = [Target(good[g], c, s, provided) EXCEPT !.name = n]
      OBVIOUS
    <2>3. r \in Good /\ r.state = "live"
      BY <2>1, <2>2, RowsTypedC DEF CatalogueInv, PlaceEdit, HasGood, Target, Good
    <2>5. PICK x : x = [Away EXCEPT !.op = "good", !.good = g, !.row = r]
      OBVIOUS
    <2>6. x \in Editor /\ x.row = r
      BY <2>3, <2>5, AwayFits DEF Away, Editor
    <2>4. /\ editor' = [editor EXCEPT ![e] = x]
          /\ Fits(r, g) /\ edits > 0 /\ edits' = edits - 1 /\ UNCHANGED <<category, subcategory, good>>
      BY <2>1, <2>2, <2>5 DEF PlaceEdit, Edits, Keeps
    <2> QED
      BY <2>3, <2>4, <2>6, PlanGoodKeeps
  <1> QED
    BY <1>1, <1>2

\* The planned product is written, or refused by a constraint.
LEMMA WriteGoodKeeps ==
  ASSUME CatalogueInv, NEW e \in Editors, SaveGood(e) \/ \E g \in Goods : CreateGood(e, g)
  PROVE  CatalogueInv'
  <1>1. PICK r : r = editor[e].row
    OBVIOUS
  <1>2. /\ r \in Good /\ editor[e].op \in {"newgood", "good"} /\ editor' = [editor EXCEPT ![e] = Away]
        /\ UNCHANGED <<category, subcategory, edits>>
    BY <1>1, RowsTypedC DEF CatalogueInv, SaveGood, CreateGood, Leaves, Keeps
  <1>3. r.state = "live" /\ (r.subcategory # NoSubcategory => subcategory[r.subcategory].category = r.category)
    BY <1>1, <1>2 DEF CatalogueInv, EditorsFit, Planned
  <1>4. Placed /\ Stable
    BY <1>2 DEF Placed, Stable, HasCategory, HasSubcategory
  <1>5. EditorsFit' /\ editor' \in [Editors -> Editor]
    BY <1>2, <1>4, AwayFits, EditorsStay
  <1>6. ScopeSound' /\ good' \in [Goods -> Good]
    <2>1. CASE UNCHANGED good
      BY <1>4, <2>1, ScopeStays DEF CatalogueInv, CatalogueType
    <2>2. CASE \E g \in Goods : References(r) /\ GoodNameFree(r, g) /\ good' = [good EXCEPT ![g] = r]
      BY <1>2, <1>3, <2>2, PlacingKeeps
    <2> QED
      <3>1. CASE SaveGood(e)
        <4>1. PICK g : g = editor[e].good
          OBVIOUS
        <4>2. CASE UNCHANGED good
          BY <2>1, <4>2
        <4>3. CASE References(r) /\ GoodNameFree(r, g) /\ good' = [good EXCEPT ![g] = r]
          <5>1. CASE g \in Goods
            BY <2>2, <4>3, <5>1
          <5>2. CASE g \notin Goods
            <6>1. UNCHANGED good
              BY <4>3, <5>2 DEF CatalogueInv, CatalogueType
            <6> QED
              BY <2>1, <6>1
          <5> QED
            BY <5>1, <5>2
        <4> QED
          BY <1>1, <3>1, <4>1, <4>2, <4>3 DEF SaveGood
      <3>2. CASE \E g \in Goods : CreateGood(e, g)
        BY <1>1, <2>1, <2>2, <3>2 DEF CreateGood
      <3> QED
        BY <3>1, <3>2
  <1> QED
    BY <1>2, <1>5, <1>6 DEF CatalogueInv, CatalogueType

\* A category or a subcategory is made or renamed.
LEMMA NamingKeeps ==
  ASSUME CatalogueInv, Placed, Stable, UNCHANGED good, edits' \in 0..MaxEdits,
         category' \in [Categories -> Category], subcategory' \in [Subcategories -> Subcategory],
         UNCHANGED editor \/ \E e \in Editors : editor' = [editor EXCEPT ![e] = Away]
  PROVE  CatalogueInv'
  <1>1. ScopeSound'
    BY ScopeStays
  <1>2. EditorsFit' /\ editor' \in [Editors -> Editor]
    BY AwayFits, EditorsStay, EditorsSame
  <1> QED
    BY <1>1, <1>2 DEF CatalogueInv, CatalogueType

LEMMA CategoryWritesKeep ==
  ASSUME CatalogueInv,
         \/ \E c \in Categories, n \in Names : CreateCategory(c, n)
         \/ \E e \in Editors : SaveCategory(e)
  PROVE  CatalogueInv'
  <1>1. Placed /\ Stable /\ UNCHANGED good /\ category' \in [Categories -> Category]
    <2>0. UNCHANGED <<subcategory, good>>
      BY DEF CreateCategory, SaveCategory
    <2>1. CASE \E c \in Categories, n \in Names : CreateCategory(c, n)
      <3>1. PICK c \in Categories, n \in Names : category' = [category EXCEPT ![c] = [state |-> "live", name |-> n]]
        BY <2>1 DEF CreateCategory
      <3> QED
        BY <2>0, <3>1 DEF Placed, Stable, HasCategory, HasSubcategory, CatalogueInv, CatalogueType, Category
    <2>2. CASE \E e \in Editors : SaveCategory(e)
      <3>1. PICK e \in Editors : SaveCategory(e)
        BY <2>2
      <3>2. PICK c, n : c = editor[e].category /\ n = editor[e].name
        OBVIOUS
      <3>3. n \in Names
        BY <3>2, RowsTypedC DEF CatalogueInv
      <3>4. CASE UNCHANGED category
        BY <2>0, <3>4 DEF Placed, Stable, HasCategory, HasSubcategory, CatalogueInv, CatalogueType
      <3>5. CASE category' = [category EXCEPT ![c] = [state |-> "live", name |-> n]]
        BY <2>0, <3>3, <3>5, RowsTypedC
           DEF Placed, Stable, HasCategory, HasSubcategory, CatalogueInv, CatalogueType, Category
      <3> QED
        BY <3>1, <3>2, <3>4, <3>5 DEF SaveCategory
    <2> QED
      BY <2>1, <2>2
  <1>2. edits' \in 0..MaxEdits
    BY FewerEdits DEF CreateCategory, SaveCategory, CatalogueInv, CatalogueType
  <1>3. UNCHANGED editor \/ \E e \in Editors : editor' = [editor EXCEPT ![e] = Away]
    BY DEF CreateCategory, SaveCategory, Leaves, Keeps
  <1>4. subcategory' \in [Subcategories -> Subcategory]
    BY DEF CreateCategory, SaveCategory, CatalogueInv, CatalogueType
  <1> QED
    BY <1>1, <1>2, <1>3, <1>4, NamingKeeps

LEMMA SubcategoryWritesKeep ==
  ASSUME CatalogueInv, NEW e \in Editors, SaveSubcategory(e) \/ \E s \in Subcategories : CreateSubcategory(e, s)
  PROVE  CatalogueInv'
  <1>0. UNCHANGED <<category, good, edits>> /\ editor' = [editor EXCEPT ![e] = Away]
    BY DEF SaveSubcategory, CreateSubcategory, Leaves, Keeps
  <1>1. subcategory' \in [Subcategories -> Subcategory] /\ Placed /\ Stable
    <2>1. CASE SaveSubcategory(e)
      <3>1. PICK s, n : s = editor[e].subcategory /\ n = editor[e].name
        OBVIOUS
      <3>2. n \in Names
        BY <3>1, RowsTypedC DEF CatalogueInv
      <3>3. CASE UNCHANGED subcategory
        BY <1>0, <3>3 DEF CatalogueInv, CatalogueType, Placed, Stable, HasCategory, HasSubcategory
      <3>4. CASE subcategory' = [subcategory EXCEPT ![s] = [@ EXCEPT !.state = "live", !.name = n]]
        BY <1>0, <3>2, <3>4, RowsTypedC
           DEF CatalogueInv, CatalogueType, Placed, Stable, HasCategory, HasSubcategory, Subcategory
      <3> QED
        BY <2>1, <3>1, <3>3, <3>4 DEF SaveSubcategory
    <2>2. CASE \E s \in Subcategories : CreateSubcategory(e, s)
      <3>1. PICK s \in Subcategories : CreateSubcategory(e, s)
        BY <2>2
      <3>2. PICK c, n : c = editor[e].category /\ n = editor[e].name
        OBVIOUS
      <3>3. n \in Names
        BY <3>2, RowsTypedC DEF CatalogueInv
      <3>4. CASE UNCHANGED subcategory
        BY <1>0, <3>4 DEF CatalogueInv, CatalogueType, Placed, Stable, HasCategory, HasSubcategory
      <3>5. CASE HasCategory(c) /\ subcategory' = [subcategory EXCEPT ![s] = [state |-> "live", name |-> n, category |-> c]]
        BY <1>0, <3>1, <3>3, <3>5, RowsTypedC
           DEF CreateSubcategory, CatalogueInv, CatalogueType, Placed, Stable, HasCategory, HasSubcategory,
               Subcategory
      <3> QED
        BY <3>1, <3>2, <3>4, <3>5 DEF CreateSubcategory
    <2> QED
      BY <2>1, <2>2
  <1> QED
    BY <1>0, <1>1, NamingKeeps DEF CatalogueInv, CatalogueType
-----------------------------------------------------------------------------
LEMMA DeleteGoodKeeps ==
  ASSUME CatalogueInv, NEW g \in Goods, DeleteGood(g)
  PROVE  CatalogueInv'
  <1>1. Placed /\ UNCHANGED <<category, subcategory, editor>> /\ edits' \in 0..MaxEdits
    BY FewerEdits DEF DeleteGood, Placed
  <1>2. EditorsFit' /\ editor' \in [Editors -> Editor]
    BY <1>1, EditorsSame
  <1>3. good' \in [Goods -> Good] /\ \A h \in Goods : HasGood(h)' => HasGood(h) /\ good'[h] = good[h]
    BY RowsTypedC DEF DeleteGood, CatalogueInv, CatalogueType, HasGood, Good
  <1>4. ScopeSound'
    BY <1>1, <1>3 DEF CatalogueInv, ScopeSound, References, HasCategory, HasSubcategory
  <1> QED
    BY <1>1, <1>2, <1>3, <1>4 DEF CatalogueInv, CatalogueType

\* The products of the subcategory move up only where their names are free.
LEMMA DeleteSubcategoryKeeps ==
  ASSUME CatalogueInv, NEW s \in Subcategories, DeleteSubcategory(s)
  PROVE  CatalogueInv'
  <1> DEFINE Left == {g \in Goods : HasGood(g) /\ good[g].subcategory = s}
  <1>1. /\ UNCHANGED <<category, editor>> /\ edits' \in 0..MaxEdits /\ HasSubcategory(s)
        /\ subcategory' = [subcategory EXCEPT ![s].state = "gone"]
    BY FewerEdits DEF DeleteSubcategory
  <1>2. /\ good' = [g \in Goods |-> IF g \in Left THEN [good[g] EXCEPT !.subcategory = NoSubcategory] ELSE good[g]]
        /\ \A g \in Left : \A h \in Goods \ {g} :
              HasGood(h) /\ Scope(good'[h]) = Scope(good'[g]) => good'[h].name # good'[g].name
    BY DEF DeleteSubcategory
  <1>3. Placed /\ subcategory' \in [Subcategories -> Subcategory]
    BY <1>1, RowsTypedC DEF Placed, CatalogueInv, CatalogueType, Subcategory
  <1>4. EditorsFit' /\ editor' \in [Editors -> Editor]
    BY <1>1, <1>3, EditorsSame
  <1>5. good' \in [Goods -> Good]
    BY <1>2, RowsTypedC DEF CatalogueInv, Good
  <1>6. ASSUME NEW g \in Goods
        PROVE  /\ HasGood(g)' <=> HasGood(g)
               /\ good'[g].name = good[g].name /\ good'[g].category = good[g].category
               /\ good'[g].subcategory = IF g \in Left THEN NoSubcategory ELSE good[g].subcategory
    BY <1>2, RowsTypedC DEF CatalogueInv, HasGood, Good
  <1>7. ASSUME NEW g \in Goods, HasGood(g)'
        PROVE  /\ References(good[g])'
               /\ good'[g].subcategory # NoSubcategory => subcategory'[good'[g].subcategory].category = good'[g].category
    <2>1. HasGood(g) /\ References(good[g])
      BY <1>6, <1>7 DEF CatalogueInv, ScopeSound
    <2>2. good'[g].subcategory # s
      BY <1>6, <2>1, CatalogueConstants
    <2> QED
      BY <1>1, <1>6, <2>1, <2>2 DEF CatalogueInv, CatalogueType, ScopeSound, References, HasCategory,
         HasSubcategory
  <1>8. ASSUME NEW g \in Goods, HasGood(g)', NEW h \in Goods \ {g}, HasGood(h)',
               good'[h].category = good'[g].category, good'[h].subcategory = good'[g].subcategory
        PROVE  good'[h].name # good'[g].name
    <2>0. HasGood(g) /\ HasGood(h) /\ Scope(good'[h]) = Scope(good'[g])
      BY <1>6, <1>8 DEF Scope
    <2>1. CASE g \in Left
      BY <1>2, <2>0, <2>1
    <2>2. CASE h \in Left
      BY <1>2, <2>0, <2>2
    <2>3. CASE g \notin Left /\ h \notin Left
      BY <1>6, <1>8, <2>0, <2>3 DEF CatalogueInv, ScopeSound
    <2> QED
      BY <2>1, <2>2, <2>3
  <1>9. ScopeSound'
    BY <1>7, <1>8 DEF ScopeSound
  <1> QED
    BY <1>1, <1>3, <1>4, <1>5, <1>9 DEF CatalogueInv, CatalogueType

\* The cascade takes every product of the category; one that stays is in another
\* category, and so is its subcategory.
LEMMA DeleteCategoryKeeps ==
  ASSUME CatalogueInv, NEW c \in Categories, DeleteCategory(c)
  PROVE  CatalogueInv'
  <1> DEFINE Gone == {s \in Subcategories : HasSubcategory(s) /\ subcategory[s].category = c}
  <1>1. /\ UNCHANGED editor /\ edits' \in 0..MaxEdits /\ category' = [category EXCEPT ![c].state = "gone"]
        /\ subcategory' = [s \in Subcategories |-> IF s \in Gone THEN [subcategory[s] EXCEPT !.state = "gone"]
                                                   ELSE subcategory[s]]
    BY FewerEdits DEF DeleteCategory
  <1>2. good' = [g \in Goods |->
                  IF HasGood(g) /\ good[g].category = c THEN [good[g] EXCEPT !.state = "gone"]
                  ELSE IF good[g].subcategory \in Gone THEN [good[g] EXCEPT !.subcategory = NoSubcategory]
                  ELSE good[g]]
    BY DEF DeleteCategory
  <1>3. Placed /\ subcategory' \in [Subcategories -> Subcategory] /\ category' \in [Categories -> Category]
    BY <1>1, RowsTypedC DEF Placed, CatalogueInv, CatalogueType, Subcategory, Category
  <1>4. EditorsFit' /\ editor' \in [Editors -> Editor]
    BY <1>1, <1>3, EditorsSame
  <1>5. good' \in [Goods -> Good]
    BY <1>2, RowsTypedC DEF CatalogueInv, Good
  <1>6. ASSUME NEW g \in Goods, HasGood(g)'
        PROVE  HasGood(g) /\ good[g].category # c /\ good[g].subcategory \notin Gone /\ good'[g] = good[g]
    <2>1. HasGood(g) /\ good[g].category # c
      BY <1>2, <1>6, RowsTypedC DEF CatalogueInv, HasGood, Good
    <2>2. good[g].subcategory \notin Gone
      BY <2>1, CatalogueConstants DEF CatalogueInv, ScopeSound
    <2> QED
      BY <1>2, <2>1, <2>2
  <1>7. ASSUME NEW g \in Goods, HasGood(g)'
        PROVE  /\ References(good[g])'
               /\ good'[g].subcategory # NoSubcategory => subcategory'[good'[g].subcategory].category = good'[g].category
    BY <1>1, <1>6, <1>7 DEF CatalogueInv, CatalogueType, ScopeSound, References, HasCategory, HasSubcategory
  <1>8. ScopeSound'
    BY <1>6, <1>7 DEF CatalogueInv, ScopeSound
  <1> QED
    BY <1>1, <1>3, <1>4, <1>5, <1>8 DEF CatalogueInv, CatalogueType
-----------------------------------------------------------------------------
LEMMA CatalogueInvInit == CatalogueInit => CatalogueInv
  <1> SUFFICES ASSUME CatalogueInit
               PROVE  CatalogueInv
    OBVIOUS
  <1>1. CatalogueType
    BY AwayFits, CatalogueConstants
       DEF CatalogueInit, CatalogueType, NoCategoryRow, NoSubcategoryRow, Category, Subcategory
  <1>2. ScopeSound
    BY DEF CatalogueInit, ScopeSound, HasGood, NoGoodRow
  <1>3. EditorsFit
    BY DEF CatalogueInit, EditorsFit, Planned, Away
  <1> QED
    BY <1>1, <1>2, <1>3 DEF CatalogueInv

LEMMA CatalogueInvStep == CatalogueInv /\ [CatalogueNext]_catalogueVars => CatalogueInv'
  <1> SUFFICES ASSUME CatalogueInv, [CatalogueNext]_catalogueVars
               PROVE  CatalogueInv'
    OBVIOUS
  <1>1. CASE create_category \/ \E e \in Editors : SaveCategory(e)
    BY <1>1, CategoryWritesKeep DEF create_category
  <1>2. CASE destroy_category \/ destroy_subcategory \/ destroy_product
    BY <1>2, DeleteCategoryKeeps, DeleteSubcategoryKeeps, DeleteGoodKeeps
       DEF destroy_category, destroy_subcategory, destroy_product
  <1>3. ASSUME NEW e \in Editors,
               \/ \E c \in Categories, n \in Names : RenameCategory(e, c, n) \/ PlanSubcategory(e, c, n)
               \/ \E s \in Subcategories, n \in Names : RenameSubcategory(e, s, n)
        PROVE  CatalogueInv'
    BY <1>3, PlanKeeps
  <1>4. ASSUME NEW e \in Editors, SaveSubcategory(e) \/ \E s \in Subcategories : CreateSubcategory(e, s)
        PROVE  CatalogueInv'
    BY <1>4, SubcategoryWritesKeep
  <1>5. ASSUME NEW e \in Editors, create_product(e) \/ update_product(e)
        PROVE  CatalogueInv'
    BY <1>5, PlaceKeeps, WriteGoodKeeps DEF create_product, update_product
  <1>6. CASE UNCHANGED catalogueVars
    <2>1. UNCHANGED <<category, subcategory, good, editor, edits>>
      BY <1>6 DEF catalogueVars
    <2>2. Placed /\ Stable
      BY <2>1 DEF Placed, Stable, HasCategory, HasSubcategory
    <2>3. ScopeSound' /\ EditorsFit'
      BY <2>1, <2>2, ScopeStays, EditorsSame
    <2> QED
      BY <2>1, <2>3 DEF CatalogueInv, CatalogueType
  <1> QED
    BY <1>1, <1>2, <1>3, <1>4, <1>5, <1>6
       DEF CatalogueNext, update_category, create_subcategory, update_subcategory

LEMMA CatalogueInvariant == CatalogueSpec => []CatalogueInv
  <1>1. CatalogueInit => CatalogueInv
    BY CatalogueInvInit
  <1>2. CatalogueInv /\ [CatalogueNext]_catalogueVars => CatalogueInv'
    BY CatalogueInvStep
  <1> QED
    BY <1>1, <1>2, PTL DEF CatalogueSpec

\* A product is in a category that exists and in a subcategory of that category,
\* and nobody else there has its name, with any number of requests that have
\* checked names and places before they write (inventory_use_cases.py:1017).
THEOREM ProductsArePlaced == CatalogueSpec => []ScopeSound
  <1>1. CatalogueInv => ScopeSound
    BY DEF CatalogueInv
  <1> QED
    BY <1>1, CatalogueInvariant, PTL
-----------------------------------------------------------------------------
(* Salaries and expenses. *)

Entry == [before : Contents, after : Contents]
\* The salaries of e that a look-up on day t would find.
Cover(e, t) == {s \in Salaries : salary[s].of = e /\ salary[s].state = "kept"
                                 /\ salary[s].from <= t /\ t <= salary[s].to}

\* The log of an expense, and the requests at work on it.
LogFits(x) ==
    /\ expense[x].state = "none" => log[x] = <<>> /\ \A a \in Accountants : accountant[a].expense # x
    /\ ~torn[x] => \A a, c \in Accountants : accountant[a].expense = x /\ accountant[c].expense = x => a = c
    /\ ~torn[x] /\ expense[x].state = "gone" => \A a \in Accountants : accountant[a].expense # x
    /\ ~torn[x] /\ expense[x].state = "live" =>
          /\ \A i \in 2..Len(log[x]) : log[x][i].before = log[x][i - 1].after
          /\ \/ Len(log[x]) > 0 /\ log[x][Len(log[x])].after = expense[x].content
             \/ \E a \in Accountants : accountant[a].expense = x /\ accountant[a].op = "log"
          /\ \A a \in Accountants : accountant[a].expense = x =>
                /\ accountant[a].op = "write" => accountant[a].before = expense[x].content
                /\ accountant[a].op = "log" =>
                      /\ accountant[a].after = expense[x].content
                      /\ Len(log[x]) > 0 => log[x][Len(log[x])].after = accountant[a].before

\* A request is at work on salaries, on an expense, or on nothing.
Busy(r) == /\ r.expense # NoExpense <=> r.op \in {"write", "log"}
           /\ r.of # NoEmployee <=> r.op \in {"close", "store", "edit"}

\* What a request may rely on that would write a salary: the row it has read is
\* one of the employee and, unless it has been overtaken, as it was; and there
\* is room for the row it will insert.
SalaryFits(r) ==
    /\ r.op \in {"close", "edit"} =>
          /\ r.current \in Salaries /\ salary[r.current].state = "kept" /\ salary[r.current].of = r.of
          /\ r.row.state = "kept" /\ r.row.of = r.of
    /\ r.op = "close" /\ ~r.overtaken =>
          /\ r.row = salary[r.current] /\ r.row.from <= today
          /\ r.from # Never => r.from - Day <= r.row.to
          /\ \A t \in Int : t >= today => Cardinality(Cover(r.of, t) \ {r.current}) <= surplus[r.of]
    /\ r.op = "store" /\ ~r.overtaken =>
          \A t \in Int : t >= today /\ t >= From(r) => Cardinality(Cover(r.of, t)) <= surplus[r.of]

Kept == \A s \in Salaries : salary[s].state = "kept" => salary[s].of # NoEmployee
Covered == \A e \in Employees : \A t \in Int : t >= today => Cardinality(Cover(e, t)) <= 1 + surplus[e]
Promise(e) == promised[e] =>
    \/ \E s \in Salaries : salary[s].of = e /\ salary[s].state = "kept" /\ salary[s].from <= today /\ salary[s].to = Never
    \/ \E a \in Accountants : accountant[a].of = e /\ accountant[a].op = "store" /\ From(accountant[a]) <= today

LogsFit == /\ torn \in [Expenses -> BOOLEAN] /\ log \in [Expenses -> Seq(Entry)]
           /\ \A a \in Accountants : Busy(accountant[a])
           /\ \A x \in Expenses : LogFits(x)
SalariesFit == /\ Covered /\ Kept
               /\ \A a \in Accountants : SalaryFits(accountant[a])
               /\ \A e \in Employees : Promise(e)
FinanceInv == FinanceType /\ LogsFit /\ SalariesFit
-----------------------------------------------------------------------------
(* The requests. *)

LEMMA RowsTypedF ==
  ASSUME FinanceType
  PROVE  /\ today \in 0..MaxToday
         /\ \A s \in Salaries : salary[s] \in Salary
         /\ \A x \in Expenses : expense[x] \in Expense
         /\ \A a \in Accountants : /\ accountant[a] \in Accountant /\ accountant[a].row \in Salary
                                   /\ accountant[a].of \in Employees \cup {NoEmployee}
                                   /\ accountant[a].expense \in Expenses \cup {NoExpense}
                                   /\ accountant[a].before \in Contents /\ accountant[a].after \in Contents
                                   /\ accountant[a].overtaken \in BOOLEAN
                                   /\ accountant[a].from \in Dates \cup {Never}
  BY DEF FinanceType, Accountant

\* Request c is where it was; it may have been overtaken.
Same(c) == /\ accountant'[c].op = accountant[c].op /\ accountant'[c].of = accountant[c].of
           /\ accountant'[c].from = accountant[c].from /\ accountant'[c].current = accountant[c].current
           /\ accountant'[c].row = accountant[c].row /\ accountant'[c].expense = accountant[c].expense
           /\ accountant'[c].before = accountant[c].before /\ accountant'[c].after = accountant[c].after
           /\ accountant[c].overtaken => accountant'[c].overtaken

\* Request a goes on as r, and nobody else moves.
Goes(a, r) == /\ accountant' \in [Accountants -> Accountant]
              /\ accountant'[a] = r
              /\ \A c \in Accountants \ {a} : Same(c)

LEMMA OvertakenFits ==
  ASSUME NEW y \in Accountant
  PROVE  LET z == [y EXCEPT !.overtaken = TRUE] IN
         /\ z \in Accountant /\ z.overtaken /\ z.op = y.op /\ z.of = y.of /\ z.from = y.from /\ z.current = y.current
         /\ z.row = y.row /\ z.expense = y.expense /\ z.before = y.before /\ z.after = y.after
  BY DEF Accountant

LEMMA HoldsGoes ==
  ASSUME FinanceType, NEW a \in Accountants, NEW r \in Accountant, Holds(a, r)
  PROVE  Goes(a, r)
  BY DEF FinanceType, Holds, Goes, Same

LEMMA WroteGoes ==
  ASSUME FinanceType, NEW a \in Accountants, NEW r \in Accountant, Wrote(a, r)
  PROVE  /\ Goes(a, r)
         /\ \A c \in Accountants \ {a} : accountant[c].of # NoEmployee /\ accountant[c].of = accountant[a].of
                                           => accountant'[c].overtaken
  <1>1. DOMAIN accountant' = Accountants /\ accountant'[a] = r
    BY DEF Wrote
  <1>2. ASSUME NEW c \in Accountants \ {a}
        PROVE  /\ accountant'[c] \in Accountant /\ Same(c)
               /\ accountant[c].of # NoEmployee /\ accountant[c].of = accountant[a].of => accountant'[c].overtaken
    <2>1. accountant[c] \in Accountant
      BY RowsTypedF
    <2>2. accountant'[c] = IF \/ accountant[c].of # NoEmployee /\ accountant[c].of = accountant[a].of
                              \/ accountant[c].expense # NoExpense /\ accountant[c].expense = accountant[a].expense
                           THEN [accountant[c] EXCEPT !.overtaken = TRUE] ELSE accountant[c]
      BY DEF Wrote
    <2>3. accountant'[c] \in Accountant /\ Same(c)
      BY <2>1, <2>2, OvertakenFits DEF Same
    <2>4. accountant[c].of # NoEmployee /\ accountant[c].of = accountant[a].of => accountant'[c].overtaken
      BY <2>1, <2>2, OvertakenFits
    <2> QED
      BY <2>3, <2>4
  <1>3. accountant' \in [Accountants -> Accountant]
    BY <1>1, <1>2 DEF Wrote
  <1> QED
    BY <1>1, <1>2, <1>3 DEF Goes

LEMMA AtRestFits == /\ AtRest \in Accountant /\ Busy(AtRest) /\ NoSalaryRow \in Salary /\ Some \in Contents
                    /\ AtRest.expense = NoExpense /\ AtRest.op = "none" /\ AtRest.of = NoEmployee
                    /\ ~AtRest.overtaken
  BY FinanceConstants DEF AtRest, Accountant, Busy, NoSalaryRow, Salary, Dates, Some
-----------------------------------------------------------------------------
(* The audit log. *)

\* An expense on which nobody moves.
LEMMA LogStays ==
  ASSUME NEW x \in Expenses, LogFits(x),
         expense'[x] = expense[x], log'[x] = log[x], torn'[x] = torn[x],
         \A c \in Accountants : \/ Same(c)
                                \/ accountant[c].expense # x /\ accountant'[c].expense # x
  PROVE  LogFits(x)'
  BY DEF LogFits, Same

LEMMA BusyStays ==
  ASSUME FinanceInv, NEW a \in Accountants, NEW r \in Accountant, Goes(a, r), Busy(r)
  PROVE  \A c \in Accountants : Busy(accountant'[c])
  <1>1. ASSUME NEW c \in Accountants \ {a}
        PROVE  Busy(accountant'[c])
    <2>1. Busy(accountant[c]) /\ Same(c)
      BY DEF FinanceInv, LogsFit, Goes
    <2> QED
      BY <2>1 DEF Busy, Same
  <1> QED
    BY <1>1 DEF Goes

\* A request that is not about an expense.
LEMMA LogsStay ==
  ASSUME FinanceInv, NEW a \in Accountants, NEW r \in Accountant, Goes(a, r), Busy(r),
         accountant[a].expense = NoExpense, r.expense = NoExpense, UNCHANGED <<expense, log, torn>>
  PROVE  LogsFit'
  <1>1. ASSUME NEW x \in Expenses
        PROVE  LogFits(x)'
    BY LogStays, FinanceConstants DEF FinanceInv, LogsFit, Goes
  <1>2. \A c \in Accountants : Busy(accountant'[c])
    BY BusyStays
  <1> QED
    BY <1>1, <1>2 DEF FinanceInv, LogsFit, Busy

\* A request about x goes on, and nothing else is written than what is kept of x.
LEMMA LogMoves ==
  ASSUME FinanceInv, NEW a \in Accountants, NEW r \in Accountant, Goes(a, r), Busy(r), NEW x \in Expenses,
         accountant[a].expense \in {x, NoExpense}, r.expense \in {x, NoExpense},
         \A y \in Expenses \ {x} : expense'[y] = expense[y] /\ log'[y] = log[y] /\ torn'[y] = torn[y],
         torn' \in [Expenses -> BOOLEAN], log' \in [Expenses -> Seq(Entry)], LogFits(x)'
  PROVE  LogsFit'
  <1>1. ASSUME NEW y \in Expenses \ {x}
        PROVE  LogFits(y)'
    BY LogStays, FinanceConstants DEF FinanceInv, LogsFit, Goes
  <1>2. \A c \in Accountants : Busy(accountant'[c])
    BY BusyStays
  <1> QED
    BY <1>1, <1>2 DEF LogsFit, Busy

LEMMA CreateExpenseLogs ==
  ASSUME FinanceInv, NEW a \in Accountants, NEW x \in Expenses, NEW c \in Contents, NEW r \in Accountant,
         Goes(a, r), Busy(r), r.op = "log", r.expense = x, r.before = c, r.after = c,
         accountant[a].op = "none", expense[x].state = "none",
         expense' = [expense EXCEPT ![x] = [state |-> "live", content |-> c]], UNCHANGED <<log, torn>>
  PROVE  LogsFit'
  <1>1. accountant[a].expense = NoExpense
    BY DEF FinanceInv, LogsFit, Busy
  <1>2. log[x] = <<>> /\ \A d \in Accountants : accountant[d].expense # x
    BY DEF FinanceInv, LogsFit, LogFits
  <1>3. expense'[x] = [state |-> "live", content |-> c] /\ \A y \in Expenses \ {x} : expense'[y] = expense[y]
    BY DEF FinanceInv, FinanceType
  <1>4. \A d \in Accountants \ {a} : accountant'[d].expense # x
    BY <1>2 DEF Goes, Same
  <1>5. LogFits(x)'
    BY <1>2, <1>3, <1>4 DEF LogFits, Goes
  <1> QED
    BY <1>1, <1>3, <1>5, LogMoves DEF FinanceInv, LogsFit

LEMMA ExpenseReadLogs ==
  ASSUME FinanceInv, NEW a \in Accountants, NEW x \in Expenses, NEW r \in Accountant,
         Goes(a, r), Busy(r), r.op = "write", r.expense = x, r.before = expense[x].content,
         accountant[a].op = "none", expense[x].state = "live",
         torn' = [torn EXCEPT ![x] = @ \/ Shared(a, x)], UNCHANGED <<expense, log>>
  PROVE  LogsFit'
  <1>1. accountant[a].expense = NoExpense
    BY DEF FinanceInv, LogsFit, Busy
  <1>2. /\ torn' \in [Expenses -> BOOLEAN]
        /\ ~torn'[x] => ~torn[x] /\ \A d \in Accountants \ {a} : accountant[d].expense # x
        /\ \A y \in Expenses \ {x} : torn'[y] = torn[y]
    BY DEF FinanceInv, LogsFit, Shared
  <1>3. LogFits(x)
    BY DEF FinanceInv, LogsFit
  <1>4. ASSUME ~torn'[x]
        PROVE  /\ \A d \in Accountants \ {a} : accountant[d].expense # x /\ accountant'[d].expense # x
               /\ Len(log[x]) > 0 /\ log[x][Len(log[x])].after = expense[x].content
    BY <1>1, <1>2, <1>3, <1>4, FinanceConstants DEF LogFits, Goes, Same
  <1>5. LogFits(x)'
    BY <1>2, <1>3, <1>4 DEF LogFits, Goes
  <1> QED
    BY <1>1, <1>2, <1>5, LogMoves DEF FinanceInv, LogsFit

LEMMA ExpenseWriteLogs ==
  ASSUME FinanceInv, NEW a \in Accountants, NEW x \in Expenses, NEW r \in Accountant,
         Goes(a, r), Busy(r), r.op = "log", r.expense = x, r.before = accountant[a].before,
         accountant[a].op = "write", accountant[a].expense = x,
         expense' = [expense EXCEPT ![x] = [state |-> "live", content |-> r.after]], UNCHANGED <<log, torn>>
  PROVE  LogsFit'
  <1>1. /\ expense'[x].state = "live" /\ expense'[x].content = r.after
        /\ \A y \in Expenses \ {x} : expense'[y] = expense[y]
    BY DEF FinanceInv, FinanceType
  <1>2. LogFits(x) /\ (~torn[x] => expense[x].state = "live")
    BY DEF FinanceInv, LogsFit, LogFits, FinanceType, Expense
  <1>3. ASSUME ~torn[x]
        PROVE  /\ \A d \in Accountants \ {a} : accountant[d].expense # x /\ accountant'[d].expense # x
               /\ Len(log[x]) > 0 => log[x][Len(log[x])].after = r.before
    BY <1>2, <1>3 DEF LogFits, Goes, Same
  <1>4. LogFits(x)'
    BY <1>1, <1>2, <1>3 DEF LogFits, Goes
  <1> QED
    BY <1>1, <1>4, LogMoves DEF FinanceInv, LogsFit

\* Nothing was written: the expense is gone.
LEMMA GoneLogs ==
  ASSUME FinanceInv, NEW a \in Accountants, NEW x \in Expenses, Goes(a, AtRest),
         accountant[a].expense = x, expense[x].state # "live", UNCHANGED <<expense, log, torn>>
  PROVE  LogsFit'
  <1>1. LogFits(x) /\ expense[x].state # "none"
    BY DEF FinanceInv, LogsFit, LogFits
  <1>2. LogFits(x)'
    BY <1>1, AtRestFits, FinanceConstants DEF LogFits, Goes, Same
  <1> QED
    BY <1>2, AtRestFits, LogMoves DEF FinanceInv, LogsFit

LEMMA LogExpenseLogs ==
  ASSUME FinanceInv, NEW a \in Accountants, NEW x \in Expenses, Goes(a, AtRest), NEW b \in Contents, NEW f \in Contents,
         accountant[a].op = "log", accountant[a].expense = x, expense[x].state = "live",
         accountant[a].before = b, accountant[a].after = f,
         log' = [log EXCEPT ![x] = Append(@, [before |-> b, after |-> f])], UNCHANGED <<expense, torn>>
  PROVE  LogsFit'
  <1>1. PICK l : l = log[x]
    OBVIOUS
  <1>2. PICK n : n = [before |-> b, after |-> f]
    OBVIOUS
  <1>3. n \in Entry /\ n.before = b /\ n.after = f
    BY <1>2 DEF Entry
  <1>4. /\ l \in Seq(Entry) /\ log'[x] = Append(l, n) /\ log' \in [Expenses -> Seq(Entry)]
        /\ \A y \in Expenses \ {x} : log'[y] = log[y]
    <2>1. l \in Seq(Entry) /\ Append(l, n) \in Seq(Entry)
      BY <1>1, <1>3 DEF FinanceInv, LogsFit
    <2> QED
      BY <1>1, <1>2, <2>1 DEF FinanceInv, LogsFit
  <1>5. /\ Len(log'[x]) = Len(l) + 1 /\ log'[x][Len(l) + 1] = n /\ Len(l) \in Nat
        /\ \A i \in 1..Len(l) : log'[x][i] = l[i]
    BY <1>3, <1>4
  <1>6. LogFits(x)
    BY DEF FinanceInv, LogsFit
  <1>7. ASSUME ~torn[x]
        PROVE  /\ \A d \in Accountants : accountant'[d].expense # x
               /\ f = expense[x].content
               /\ Len(l) > 0 => l[Len(l)].after = b
               /\ \A i \in 2..Len(l) : l[i].before = l[i - 1].after
    BY <1>1, <1>6, <1>7, AtRestFits, FinanceConstants DEF LogFits, Goes, Same
  <1>8. ASSUME ~torn[x]
        PROVE  /\ \A i \in 2..(Len(l) + 1) : log'[x][i].before = log'[x][i - 1].after
               /\ log'[x][Len(l) + 1].after = expense[x].content
    <2>1. ASSUME NEW i \in 2..(Len(l) + 1)
          PROVE  log'[x][i].before = log'[x][i - 1].after
      <3>1. CASE i = Len(l) + 1
        BY <1>3, <1>5, <1>7, <1>8, <3>1
      <3>2. CASE i # Len(l) + 1
        <4>1. i \in 2..Len(l) /\ i \in 1..Len(l) /\ i - 1 \in 1..Len(l)
          BY <1>5, <3>2
        <4> QED
          BY <1>5, <1>7, <1>8, <4>1
      <3> QED
        BY <3>1, <3>2
    <2> QED
      BY <1>3, <1>5, <1>7, <1>8, <2>1
  <1>9. LogFits(x)'
    <2>1. expense'[x] = expense[x] /\ torn'[x] = torn[x]
      OBVIOUS
    <2> QED
      BY <1>5, <1>7, <1>8, <2>1 DEF LogFits
  <1> QED
    BY <1>4, <1>9, AtRestFits, LogMoves DEF FinanceInv, LogsFit

\* Neither a row nor a log of an expense that exists is touched.
LEMMA DeleteExpenseLogs ==
  ASSUME FinanceInv, NEW x \in Expenses, expense[x].state = "live",
         expense' = [expense EXCEPT ![x].state = "gone"], log' = [log EXCEPT ![x] = <<>>],
         torn' = [torn EXCEPT ![x] = @ \/ \E a \in Accountants : accountant[a].expense = x], UNCHANGED accountant
  PROVE  LogsFit'
  <1>0. /\ torn' \in [Expenses -> BOOLEAN]
        /\ ~torn'[x] => ~torn[x] /\ \A a \in Accountants : accountant[a].expense # x
        /\ \A y \in Expenses \ {x} : torn'[y] = torn[y]
    BY DEF FinanceInv, LogsFit
  <1>1. LogFits(x) /\ log' \in [Expenses -> Seq(Entry)]
    BY DEF FinanceInv, LogsFit
  <1>2. expense'[x].state = "gone"
    BY DEF FinanceInv, FinanceType, Expense
  <1>3. LogFits(x)'
    BY <1>0, <1>1, <1>2 DEF LogFits
  <1>4. ASSUME NEW y \in Expenses \ {x}
        PROVE  LogFits(y)'
    <2>1. LogFits(y) /\ expense'[y] = expense[y] /\ log'[y] = log[y] /\ torn'[y] = torn[y]
      BY <1>0 DEF FinanceInv, LogsFit, FinanceType
    <2> QED
      BY <2>1, LogStays DEF Same
  <1> QED
    BY <1>0, <1>1, <1>3, <1>4 DEF FinanceInv, LogsFit

\* A request dies: before its entry it leaves the log torn.
LEMMA DiesLogs ==
  ASSUME FinanceInv, NEW a \in Accountants, NEW x \in Expenses, Goes(a, AtRest), accountant[a].expense = x,
         torn' = IF accountant[a].op = "log" THEN [torn EXCEPT ![x] = TRUE] ELSE torn, UNCHANGED <<expense, log>>
  PROVE  LogsFit'
  <1>1. /\ torn' \in [Expenses -> BOOLEAN]
        /\ ~torn'[x] => ~torn[x] /\ accountant[a].op # "log"
        /\ \A y \in Expenses \ {x} : torn'[y] = torn[y]
    BY DEF FinanceInv, LogsFit
  <1>2. LogFits(x)
    BY DEF FinanceInv, LogsFit
  <1>3. LogFits(x)'
    BY <1>1, <1>2, AtRestFits, FinanceConstants DEF LogFits, Goes, Same
  <1> QED
    BY <1>1, <1>3, AtRestFits, LogMoves DEF FinanceInv, LogsFit
-----------------------------------------------------------------------------
(* The salaries. *)

LEMMA CoverFinite ==
  ASSUME NEW e, NEW t
  PROVE  Cover(e, t) \in SUBSET Salaries /\ IsFiniteSet(Cover(e, t)) /\ Cardinality(Cover(e, t)) \in Nat
  <1>1. Cover(e, t) \in SUBSET Salaries
    BY DEF Cover
  <1>2. IsFiniteSet(Cover(e, t))
    BY <1>1, FinanceConstants, FS_Subset
  <1> QED
    BY <1>1, <1>2, FS_CardinalityType

\* One salary more, at most.
LEMMA OneMore ==
  ASSUME NEW S, NEW T, NEW s, IsFiniteSet(S), T \subseteq S \cup {s}
  PROVE  Cardinality(T) \in Nat /\ Cardinality(S) \in Nat /\ Cardinality(T) <= Cardinality(S) + 1
  <1>1. IsFiniteSet(S \cup {s}) /\ Cardinality(S) \in Nat
    BY FS_AddElement, FS_CardinalityType
  <1>2. Cardinality(S \cup {s}) <= Cardinality(S) + 1
    <2>1. CASE s \in S
      BY <1>1, <2>1, FS_AddElement
    <2>2. CASE s \notin S
      BY <1>1, <2>2, FS_AddElement
    <2> QED
      BY <2>1, <2>2
  <1>3. IsFiniteSet(T) /\ Cardinality(T) <= Cardinality(S \cup {s})
    BY <1>1, FS_Subset
  <1> QED
    BY <1>1, <1>2, <1>3, FS_CardinalityType

LEMMA NoMore ==
  ASSUME NEW S, NEW T, IsFiniteSet(S), T \subseteq S
  PROVE  Cardinality(T) \in Nat /\ Cardinality(S) \in Nat /\ Cardinality(T) <= Cardinality(S)
  BY FS_Subset, FS_CardinalityType

\* A request that has only been overtaken relies on less.
LEMMA OvertakenRelies ==
  ASSUME NEW y \in Accountant, NEW z \in Accountant, SalaryFits(y),
         z.op = y.op, z.of = y.of, z.from = y.from, z.current = y.current, z.row = y.row,
         y.overtaken => z.overtaken
  PROVE  SalaryFits(z)
  BY DEF SalaryFits, From

\* Salary rows stay as they are.
LEMMA SalariesStay ==
  ASSUME FinanceInv, NEW a \in Accountants, NEW r \in Accountant, Goes(a, r), SalaryFits(r),
         UNCHANGED <<today, salary, surplus>>,
         \A e \in Employees : promised'[e] => promised[e] /\ ~(accountant[a].op = "store" /\ accountant[a].of = e)
  PROVE  SalariesFit'
  <1>1. Covered' /\ Kept'
    BY DEF FinanceInv, SalariesFit, Covered, Kept, Cover
  <1>2. ASSUME NEW c \in Accountants
        PROVE  SalaryFits(accountant[c])'
    <2>1. PICK z : z = accountant'[c]
      OBVIOUS
    <2>2. SalaryFits(z)
      <3>1. CASE c = a
        BY <2>1, <3>1 DEF Goes
      <3>2. CASE c # a
        BY <2>1, <3>2, OvertakenRelies, RowsTypedF DEF FinanceInv, SalariesFit, Goes, Same
      <3> QED
        BY <3>1, <3>2
    <2>3. SalaryFits(z)'
      BY <2>2 DEF SalaryFits, From, Cover
    <2> QED
      BY <2>1, <2>3
  <1>3. ASSUME NEW e \in Employees, promised'[e]
        PROVE  \/ \E s \in Salaries : /\ salary'[s].of = e /\ salary'[s].state = "kept"
                                        /\ salary'[s].from <= today' /\ salary'[s].to = Never
               \/ \E d \in Accountants : /\ accountant'[d].of = e /\ accountant'[d].op = "store"
                                           /\ From(accountant[d])' <= today'
    <2>1. Promise(e) /\ promised[e] /\ ~(accountant[a].op = "store" /\ accountant[a].of = e)
      BY <1>3 DEF FinanceInv, SalariesFit
    <2> QED
      BY <2>1 DEF Promise, Goes, Same, From
  <1> QED
    BY <1>1, <1>2, <1>3 DEF SalariesFit, Promise

\* A day passes.
LEMMA PassesSalaries ==
  ASSUME FinanceInv, today' = today + 1, UNCHANGED <<salary, surplus, promised, accountant>>
  PROVE  SalariesFit'
  <1>0. Covered'
    BY RowsTypedF, FinanceConstants DEF FinanceInv, SalariesFit, Covered, Cover
  <1>1. Covered' /\ Kept'
    BY <1>0 DEF FinanceInv, SalariesFit, Kept
  <1>2. ASSUME NEW c \in Accountants
        PROVE  SalaryFits(accountant[c])'
    <2>1. PICK z : z = accountant[c]
      OBVIOUS
    <2>2. SalaryFits(z) /\ z \in Accountant /\ z.row \in Salary /\ z.from \in Int /\ z.row.from \in Int
      BY <2>1, RowsTypedF, FinanceConstants DEF FinanceInv, SalariesFit, Dates, Salary
    <2>3. SalaryFits(z)'
      BY <2>2, RowsTypedF, FinanceConstants DEF SalaryFits, From, Cover, FinanceInv
    <2> QED
      BY <2>1, <2>3
  <1>3. ASSUME NEW e \in Employees
        PROVE  Promise(e)'
    <2>1. Promise(e)
      BY DEF FinanceInv, SalariesFit
    <2>2. ASSUME NEW s \in Salaries, salary[s].from <= today
          PROVE  salary[s].from <= today'
      BY <2>2, RowsTypedF, FinanceConstants DEF FinanceInv, Salary, Dates
    <2>3. ASSUME NEW d \in Accountants, From(accountant[d]) <= today
          PROVE  From(accountant[d])' <= today'
      BY <2>3, RowsTypedF, FinanceConstants DEF FinanceInv, Dates, From
    <2> QED
      BY <2>1, <2>2, <2>3 DEF Promise
  <1> QED
    BY <1>1, <1>2, <1>3 DEF SalariesFit

\* A request writes a salary of e, its own or a new one, and says so to the others.
LEMMA RowWritten ==
  ASSUME FinanceInv, NEW a \in Accountants, NEW r \in Accountant, NEW e \in Employees, Goes(a, r),
         \A c \in Accountants \ {a} : accountant[c].of = e => accountant'[c].overtaken,
         NEW s \in Salaries, NEW row \in Salary, row.state = "kept", row.of = e,
         salary[s].state = "none" \/ (salary[s].state = "kept" /\ salary[s].of = e),
         salary' = [salary EXCEPT ![s] = row],
         \A d \in Employees \ {e} : surplus'[d] = surplus[d] /\ promised'[d] = promised[d],
         accountant[a].of = e, UNCHANGED today, SalaryFits(r)', Promise(e)',
         \A t \in Int : t >= today => Cardinality(Cover(e, t)') <= 1 + surplus'[e]
  PROVE  SalariesFit'
  <1>1. salary'[s] = row /\ \A q \in Salaries \ {s} : salary'[q] = salary[q]
    BY DEF FinanceInv, FinanceType
  <1>2. \A d, t : d # e => Cover(d, t)' = Cover(d, t)
    BY <1>1 DEF Cover
  <1>3. Covered' /\ Kept'
    BY <1>1, <1>2, FinanceConstants DEF FinanceInv, SalariesFit, Covered, Kept
  <1>4. ASSUME NEW c \in Accountants
        PROVE  SalaryFits(accountant[c])'
    <2>1. PICK z : z = accountant'[c]
      OBVIOUS
    <2>2. CASE c = a
      BY <2>2 DEF Goes
    <2>3. CASE c # a
      <3>1. SalaryFits(z) /\ z \in Accountant
        BY <2>1, <2>3, OvertakenRelies, RowsTypedF DEF FinanceInv, SalariesFit, Goes, Same
      <3>2. z.of = e => z.overtaken
        BY <2>1, <2>3 DEF Goes, Same
      <3>3. z.of # e /\ z.op \in {"close", "store", "edit"} => z.of \in Employees \ {e}
        BY <2>1, <2>3, RowsTypedF DEF FinanceInv, LogsFit, Busy, Goes, Same
      <3>4. z.op \in {"close", "edit"} => salary'[z.current].state = "kept" /\ salary'[z.current].of = z.of
                                          /\ (z.of # e => salary'[z.current] = salary[z.current])
        BY <1>1, <3>1 DEF SalaryFits
      <3>5. SalaryFits(z)'
        BY <1>2, <3>1, <3>2, <3>3, <3>4 DEF SalaryFits, From
      <3> QED
        BY <2>1, <3>5
    <2> QED
      BY <2>2, <2>3
  <1>5. ASSUME NEW d \in Employees \ {e}
        PROVE  Promise(d)'
    <2>1. Promise(d)
      BY DEF FinanceInv, SalariesFit
    <2>2. ASSUME NEW q \in Salaries, salary[q].of = d, salary[q].state = "kept"
          PROVE  salary'[q] = salary[q]
      BY <1>1, <2>2
    <2>3. ASSUME NEW c \in Accountants, accountant[c].of = d
          PROVE  Same(c) /\ From(accountant[c])' = From(accountant[c])
      BY <2>3 DEF Goes, Same, From
    <2> QED
      BY <2>1, <2>2, <2>3 DEF Promise, Same
  <1> QED
    BY <1>3, <1>4, <1>5 DEF SalariesFit
-----------------------------------------------------------------------------
(* Opening a salary. *)

LEMMA ActivesCover ==
  ASSUME FinanceType, NEW e \in Employees
  PROVE  /\ Actives(e) = Cover(e, today)
         /\ ~Ahead(e) => \A t \in Int : t >= today => Cover(e, t) \subseteq Actives(e)
  <1>1. Actives(e) = Cover(e, today)
    BY DEF Actives, IsActive, Cover
  <1>2. ASSUME ~Ahead(e), NEW t \in Int, t >= today, NEW s \in Cover(e, t)
        PROVE  s \in Actives(e)
    <2>1. s \in Salaries /\ salary[s] \in Salary /\ today \in Int
      BY RowsTypedF, FinanceConstants DEF Cover
    <2>2. ~(salary[s].from > today) /\ salary[s].from \in Int /\ salary[s].to \in Int
      BY <1>2, <2>1, FinanceConstants DEF Ahead, Cover, Salary, Dates
    <2> QED
      BY <1>2, <2>1, <2>2 DEF Actives, IsActive, Cover
  <1> QED
    BY <1>1, <1>2

\* The current salary is one that the look-up has found.
LEMMA CurrentFits ==
  ASSUME NEW e \in Employees, NEW s \in Current(e)
  PROVE  IF s = NoSalary THEN Actives(e) = {} ELSE s \in Actives(e)
  BY FinanceConstants DEF Current, Actives

LEMMA OpenReadKeeps ==
  ASSUME FinanceInv, NEW a \in Accountants, NEW e \in Employees, NEW from \in Starts, OpenRead(a, e, from)
  PROVE  FinanceInv'
  <1>1. PICK s \in Current(e) :
          Holds(a, [AtRest EXCEPT !.op = IF s = NoSalary THEN "store" ELSE "close", !.of = e,
                                  !.from = from, !.current = s,
                                  !.row = IF s = NoSalary THEN NoSalaryRow ELSE salary[s],
                                  !.overtaken = Ahead(e)])
    BY DEF OpenRead
  <1>2. PICK r : r = [AtRest EXCEPT !.op = IF s = NoSalary THEN "store" ELSE "close", !.of = e,
                                  !.from = from, !.current = s,
                                  !.row = IF s = NoSalary THEN NoSalaryRow ELSE salary[s],
                                  !.overtaken = Ahead(e)]
    OBVIOUS
  <1>3. /\ today \in Int /\ Day \in Int /\ from \in Dates \cup {Never} /\ (from # Never => from - Day <= today)
    BY RowsTypedF, FinanceConstants DEF FinanceInv, Starts, Dates
  <1>4. /\ s \in Salaries \cup {NoSalary} /\ (s # NoSalary => s \in Actives(e))
        /\ (s = NoSalary => Actives(e) = {})
    BY CurrentFits, FinanceConstants DEF Current, Actives
  <1>5. (IF s = NoSalary THEN NoSalaryRow ELSE salary[s]) \in Salary
    BY <1>4, RowsTypedF, AtRestFits DEF FinanceInv
  <1>6. /\ r \in Accountant /\ r.op = (IF s = NoSalary THEN "store" ELSE "close") /\ r.of = e /\ r.from = from
        /\ r.current = s /\ r.row = (IF s = NoSalary THEN NoSalaryRow ELSE salary[s]) /\ r.expense = NoExpense
        /\ r.overtaken = Ahead(e)
    <2>1. Ahead(e) \in BOOLEAN
      BY DEF Ahead
    <2> QED
      BY <1>2, <1>3, <1>4, <1>5, <2>1, AtRestFits DEF AtRest, Accountant
  <1>7. Goes(a, r) /\ UNCHANGED <<today, salary, surplus, promised, expense, log, torn>> /\ accountant[a].op = "none"
    BY <1>1, <1>2, <1>6, HoldsGoes DEF OpenRead, Asked, FinanceInv
  <1>8. SalaryFits(r)
    <2>1. CASE s = NoSalary
      <3>1. r.op = "store"
        BY <1>6, <2>1
      <3>2. ASSUME ~r.overtaken, NEW t \in Int, t >= today
            PROVE  Cardinality(Cover(e, t)) <= surplus[e]
        <4>1. Cover(e, t) = {}
          BY <1>4, <1>6, <2>1, <3>2, ActivesCover DEF FinanceInv
        <4>2. surplus[e] \in Nat
          BY DEF FinanceInv, FinanceType
        <4> QED
          BY <4>1, <4>2, FS_EmptySet
      <3> QED
        BY <1>6, <3>1, <3>2 DEF SalaryFits
    <2>2. CASE s # NoSalary
      <3>1. s \in Cover(e, today) /\ r.op = "close" /\ r.row = salary[s]
        BY <1>4, <1>6, <2>2, ActivesCover DEF FinanceInv
      <3>2. /\ s \in Salaries /\ salary[s].state = "kept" /\ salary[s].of = e /\ salary[s].from <= today
            /\ today <= salary[s].to
        BY <3>1 DEF Cover
      <3>3. from # Never => from - Day <= salary[s].to
        <4>1. salary[s].to \in Int /\ (from # Never => from \in Int)
          BY <1>3, <3>2, RowsTypedF, FinanceConstants DEF FinanceInv, Salary, Dates
        <4> QED
          BY <1>3, <3>2, <4>1
      <3>4. ASSUME ~r.overtaken, NEW t \in Int, t >= today
            PROVE  Cardinality(Cover(e, t) \ {s}) <= surplus[e]
        <4>1. Cover(e, t) \subseteq Cover(e, today)
          BY <1>6, <3>4, ActivesCover DEF FinanceInv
        <4>2. /\ IsFiniteSet(Cover(e, today)) /\ Cardinality(Cover(e, today)) \in Nat
              /\ Cardinality(Cover(e, today)) <= 1 + surplus[e] /\ surplus[e] \in Nat
          BY <1>3, CoverFinite DEF FinanceInv, SalariesFit, Covered, FinanceType
        <4>3. /\ IsFiniteSet(Cover(e, today) \ {s})
              /\ Cardinality(Cover(e, today) \ {s}) = Cardinality(Cover(e, today)) - 1
          BY <3>1, <4>2, FS_RemoveElement
        <4>4. Cardinality(Cover(e, t) \ {s}) \in Nat /\ Cardinality(Cover(e, today) \ {s}) \in Nat
              /\ Cardinality(Cover(e, t) \ {s}) <= Cardinality(Cover(e, today) \ {s})
          BY <4>1, <4>3, NoMore
        <4> QED
          BY <4>2, <4>3, <4>4
      <3> QED
        BY <1>6, <3>1, <3>2, <3>3, <3>4 DEF SalaryFits
    <2> QED
      BY <2>1, <2>2
  <1>9. SalariesFit'
    BY <1>6, <1>7, <1>8, SalariesStay
  <1>10. LogsFit'
    <2>1. Busy(r)
      BY <1>6, FinanceConstants DEF Busy
    <2>2. accountant[a].expense = NoExpense
      BY <1>7 DEF FinanceInv, LogsFit, Busy
    <2> QED
      BY <1>6, <1>7, <2>1, <2>2, LogsStay
  <1>11. FinanceType'
    BY <1>7, <1>10 DEF FinanceInv, FinanceType, Goes, LogsFit, Entry
  <1> QED
    BY <1>9, <1>10, <1>11 DEF FinanceInv

\* A request about salaries goes on.
LEMMA SalaryRequestKeeps ==
  ASSUME FinanceInv, NEW a \in Accountants, NEW r \in Accountant, Goes(a, r), Busy(r), r.expense = NoExpense,
         accountant[a].expense = NoExpense, SalariesFit', UNCHANGED <<today, expense, log, torn>>,
         salary' \in [Salaries -> Salary], surplus' \in [Employees -> Nat], promised' \in [Employees -> BOOLEAN]
  PROVE  FinanceInv'
  <1>1. LogsFit'
    BY LogsStay
  <1>2. FinanceType'
    BY <1>1 DEF FinanceInv, FinanceType, Goes, LogsFit, Entry
  <1> QED
    BY <1>1, <1>2 DEF FinanceInv

LEMMA SalaryRequest ==
  ASSUME FinanceInv, NEW a \in Accountants, accountant[a].op \in {"close", "store", "edit"}
  PROVE  /\ accountant[a].of \in Employees /\ accountant[a].of # NoEmployee /\ accountant[a].expense = NoExpense
         /\ accountant[a] \in Accountant /\ accountant[a].row \in Salary
         /\ accountant[a].from \in Dates \cup {Never} /\ From(accountant[a]) \in Dates
         /\ accountant[a].overtaken \in BOOLEAN /\ SalaryFits(accountant[a])
         /\ accountant[a].current \in Salaries \cup {NoSalary} /\ surplus[accountant[a].of] \in Nat
         /\ today \in Int /\ Day \in Nat \ {0} /\ Never \in Int /\ Dates \subseteq Int
         /\ From(accountant[a]) \in Int /\ Day \in Int /\ Day > 0
  <1>1. Busy(accountant[a]) /\ SalaryFits(accountant[a])
    BY DEF FinanceInv, LogsFit, SalariesFit
  <1>2. accountant[a].of \in Employees /\ accountant[a].of # NoEmployee /\ accountant[a].expense = NoExpense
    BY <1>1, RowsTypedF DEF Busy, FinanceInv
  <1>3. From(accountant[a]) \in Dates
    BY RowsTypedF, FinanceConstants DEF FinanceInv, From, Dates
  <1>4. Dates \subseteq Int /\ today \in Int /\ Never \in Int /\ Day \in Int /\ Day > 0
    BY RowsTypedF, FinanceConstants DEF FinanceInv, Dates
  <1> QED
    BY <1>1, <1>2, <1>3, <1>4, RowsTypedF, FinanceConstants DEF FinanceInv, FinanceType, Accountant

LEMMA OpenCloseKeeps ==
  ASSUME FinanceInv, NEW a \in Accountants, OpenClose(a)
  PROVE  FinanceInv'
  <1>1. PICK y : y = accountant[a]
    OBVIOUS
  <1>2. PICK e : e = y.of
    OBVIOUS
  <1>3. PICK s : s = y.current
    OBVIOUS
  <1>4. PICK r : r = [y EXCEPT !.op = "store"]
    OBVIOUS
  <1>5. PICK to : to = From(y) - Day
    OBVIOUS
  <1>6. PICK row : row = [y.row EXCEPT !.to = to]
    OBVIOUS
  <1>7. /\ y.op = "close" /\ salary' = [salary EXCEPT ![s] = row] /\ Exceeds(e, y.overtaken)
        /\ promised' = [promised EXCEPT ![e] = @ /\ From(y) <= today] /\ Wrote(a, r)
        /\ UNCHANGED <<today, expense, log, torn>>
    BY <1>1, <1>2, <1>3, <1>4, <1>5, <1>6 DEF OpenClose
  <1>8. /\ e \in Employees /\ e # NoEmployee /\ y.expense = NoExpense /\ y \in Accountant /\ y.row \in Salary
        /\ From(y) \in Dates /\ y.overtaken \in BOOLEAN /\ SalaryFits(y) /\ surplus[e] \in Nat
        /\ today \in Int /\ Day \in Nat \ {0} /\ Never \in Int /\ Dates \subseteq Int
        /\ y.from \in Dates \cup {Never} /\ From(y) \in Int /\ Day \in Int /\ Day > 0
    BY <1>1, <1>2, <1>7, SalaryRequest
  <1>9. /\ r \in Accountant /\ r.op = "store" /\ r.of = e /\ r.from = y.from /\ r.expense = NoExpense
        /\ r.overtaken = y.overtaken
    BY <1>2, <1>4, <1>8 DEF Accountant
  <1>10. /\ s \in Salaries /\ salary[s].state = "kept" /\ salary[s].of = e /\ y.row.state = "kept" /\ y.row.of = e
    BY <1>2, <1>3, <1>7, <1>8 DEF SalaryFits
  <1>11. to \in (-2 * Day)..Never
    BY <1>5, <1>8, FinanceConstants DEF Dates
  <1>12. /\ row \in Salary /\ row.state = "kept" /\ row.of = e /\ row.from = y.row.from /\ row.to = to
    BY <1>6, <1>8, <1>10, <1>11 DEF Salary
  <1>13. /\ Goes(a, r) /\ \A c \in Accountants \ {a} : accountant[c].of = e => accountant'[c].overtaken
    BY <1>1, <1>2, <1>7, <1>8, <1>9, WroteGoes DEF FinanceInv
  <1>14. /\ salary' \in [Salaries -> Salary] /\ salary'[s] = row /\ \A q \in Salaries \ {s} : salary'[q] = salary[q]
    BY <1>7, <1>10, <1>12 DEF FinanceInv, FinanceType
  <1>15. /\ surplus' \in [Employees -> Nat] /\ surplus'[e] = surplus[e] + (IF y.overtaken THEN 1 ELSE 0)
         /\ \A d \in Employees \ {e} : surplus'[d] = surplus[d]
    BY <1>7, <1>8 DEF Exceeds, FinanceInv, FinanceType
  <1>16. /\ promised' \in [Employees -> BOOLEAN] /\ (promised'[e] => From(y) <= today)
         /\ \A d \in Employees \ {e} : promised'[d] = promised[d]
    BY <1>7, <1>8 DEF FinanceInv, FinanceType
  \* The row that is closed is found on no day on which the new one is.
  <1>17. ASSUME NEW t \in Int, t >= today, t >= From(y)
         PROVE  s \notin Cover(e, t)' /\ Cover(e, t)' \subseteq Cover(e, t) \ {s}
    <2>0. From(y) \in Int /\ Day \in Int /\ Day > 0
      BY <1>8
    <2>1. ~(t <= to)
      BY <1>5, <1>17, <2>0
    <2> QED
      BY <1>12, <1>14, <2>1 DEF Cover
  <1>18. ASSUME NEW t \in Int, t >= today
         PROVE  Cardinality(Cover(e, t)') <= 1 + surplus'[e]
    <2>1. /\ IsFiniteSet(Cover(e, t)) /\ Cardinality(Cover(e, t)) \in Nat
          /\ Cardinality(Cover(e, t)) <= 1 + surplus[e]
      BY <1>8, <1>18, CoverFinite DEF FinanceInv, SalariesFit, Covered
    <2>2. CASE y.overtaken
      <3>1. Cover(e, t)' \subseteq Cover(e, t) \cup {s}
        BY <1>14 DEF Cover
      <3>2. Cardinality(Cover(e, t)') \in Nat /\ Cardinality(Cover(e, t)') <= Cardinality(Cover(e, t)) + 1
        BY <2>1, <3>1, OneMore
      <3> QED
        BY <1>8, <1>15, <2>1, <2>2, <3>2
    <2>3. CASE ~y.overtaken
      <3>1. Cover(e, t)' \subseteq Cover(e, t)
        <4>1. y.row = salary[s] /\ (y.from # Never => to <= y.row.to)
          BY <1>3, <1>5, <1>7, <1>8, <2>3 DEF SalaryFits, From
        <4>2. y.from = Never => ~(t <= to)
          BY <1>5, <1>8, <1>18 DEF From
        <4>3. t <= to => t <= y.row.to
          BY <1>8, <1>11, <1>18, <4>1, <4>2, FinanceConstants DEF Salary
        <4> QED
          BY <1>10, <1>12, <1>14, <4>1, <4>3 DEF Cover
      <3>2. Cardinality(Cover(e, t)') \in Nat /\ Cardinality(Cover(e, t)') <= Cardinality(Cover(e, t))
        BY <2>1, <3>1, NoMore
      <3> QED
        BY <1>8, <1>15, <2>1, <2>3, <3>2
    <2> QED
      BY <2>2, <2>3
  <1>19. SalaryFits(r)'
    <2>1. ASSUME ~r.overtaken, NEW t \in Int, t >= today, t >= From(y)
          PROVE  Cardinality(Cover(e, t)') <= surplus'[e]
      <3>1. Cover(e, t)' \subseteq Cover(e, t) \ {s}
        BY <1>17, <2>1
      <3>2. IsFiniteSet(Cover(e, t) \ {s}) /\ Cardinality(Cover(e, t) \ {s}) <= surplus[e]
        BY <1>2, <1>3, <1>7, <1>8, <1>9, <2>1, CoverFinite, FS_RemoveElement DEF SalaryFits
      <3>3. Cardinality(Cover(e, t)') \in Nat /\ Cardinality(Cover(e, t) \ {s}) \in Nat
            /\ Cardinality(Cover(e, t)') <= Cardinality(Cover(e, t) \ {s})
        BY <3>1, <3>2, NoMore
      <3> QED
        BY <1>8, <1>9, <1>15, <2>1, <3>2, <3>3
    <2>2. From(r)' = From(y)
      BY <1>7, <1>9 DEF From
    <2> QED
      BY <1>7, <1>9, <2>1, <2>2 DEF SalaryFits
  <1>20. Promise(e)'
    <2>1. From(accountant[a])' = From(y)
      BY <1>7, <1>9, <1>13 DEF From, Goes
    <2> QED
      BY <1>7, <1>9, <1>13, <1>16, <2>1 DEF Promise, Goes
  <1>21. SalariesFit'
    BY <1>1, <1>2, <1>7, <1>8, <1>9, <1>10, <1>12, <1>13, <1>15, <1>16, <1>18, <1>19, <1>20, RowWritten
  <1>22. Busy(r)
    BY <1>8, <1>9, FinanceConstants DEF Busy
  <1> QED
    BY <1>1, <1>7, <1>8, <1>9, <1>13, <1>14, <1>15, <1>16, <1>21, <1>22, SalaryRequestKeeps

LEMMA OpenStoreKeeps ==
  ASSUME FinanceInv, NEW a \in Accountants, NEW s \in Salaries, OpenStore(a, s)
  PROVE  FinanceInv'
  <1>1. PICK y : y = accountant[a]
    OBVIOUS
  <1>2. PICK e : e = y.of
    OBVIOUS
  <1>3. PICK from : from = From(y)
    OBVIOUS
  <1>4. PICK row : row = [state |-> "kept", of |-> e, from |-> from, to |-> Never]
    OBVIOUS
  <1>5. /\ y.op = "store" /\ salary[s].state = "none" /\ salary' = [salary EXCEPT ![s] = row]
        /\ Exceeds(e, y.overtaken)
        /\ promised' = [promised EXCEPT ![e] = @ \/ from <= today] /\ Wrote(a, AtRest)
        /\ UNCHANGED <<today, expense, log, torn>>
    BY <1>1, <1>2, <1>3, <1>4 DEF OpenStore
  <1>6. /\ e \in Employees /\ e # NoEmployee /\ y.expense = NoExpense /\ y \in Accountant
        /\ from \in Dates /\ y.overtaken \in BOOLEAN /\ SalaryFits(y) /\ surplus[e] \in Nat
        /\ today \in Int /\ Day \in Nat \ {0} /\ Never \in Int /\ Dates \subseteq Int
    BY <1>1, <1>2, <1>3, <1>5, SalaryRequest
  <1>7. row \in Salary /\ row.state = "kept" /\ row.of = e /\ row.from = from /\ row.to = Never
    <2>1. Never \in (-2 * Day)..Never
      BY <1>6, FinanceConstants
    <2> QED
      BY <1>4, <1>6, <2>1 DEF Salary
  <1>8. /\ Goes(a, AtRest) /\ \A c \in Accountants \ {a} : accountant[c].of = e => accountant'[c].overtaken
    BY <1>1, <1>2, <1>5, <1>6, AtRestFits, WroteGoes DEF FinanceInv
  <1>9. /\ salary' \in [Salaries -> Salary] /\ salary'[s] = row /\ \A q \in Salaries \ {s} : salary'[q] = salary[q]
    BY <1>5, <1>7 DEF FinanceInv, FinanceType
  <1>10. /\ surplus' \in [Employees -> Nat] /\ surplus'[e] = surplus[e] + (IF y.overtaken THEN 1 ELSE 0)
         /\ \A d \in Employees \ {e} : surplus'[d] = surplus[d]
    BY <1>5, <1>6 DEF Exceeds, FinanceInv, FinanceType
  <1>11. /\ promised' \in [Employees -> BOOLEAN] /\ (promised'[e] => promised[e] \/ from <= today)
         /\ \A d \in Employees \ {e} : promised'[d] = promised[d]
    BY <1>5, <1>6 DEF FinanceInv, FinanceType
  <1>12. ASSUME NEW t \in Int, t >= today
         PROVE  Cardinality(Cover(e, t)') <= 1 + surplus'[e]
    <2>1. /\ IsFiniteSet(Cover(e, t)) /\ Cardinality(Cover(e, t)) \in Nat
          /\ Cardinality(Cover(e, t)) <= 1 + surplus[e]
      BY <1>6, <1>12, CoverFinite DEF FinanceInv, SalariesFit, Covered
    <2>2. Cover(e, t)' \subseteq Cover(e, t) \cup {s}
      BY <1>9 DEF Cover
    <2>3. Cardinality(Cover(e, t)') \in Nat /\ Cardinality(Cover(e, t)') <= Cardinality(Cover(e, t)) + 1
      BY <2>1, <2>2, OneMore
    <2>4. CASE y.overtaken
      BY <1>6, <1>10, <2>1, <2>3, <2>4
    <2>5. CASE ~y.overtaken /\ t >= from
      <3>1. Cardinality(Cover(e, t)) <= surplus[e]
        BY <1>2, <1>3, <1>5, <1>6, <1>12, <2>5 DEF SalaryFits
      <3> QED
        BY <1>6, <1>10, <2>1, <2>3, <2>5, <3>1
    <2>6. CASE ~(t >= from)
      <3>1. Cover(e, t)' \subseteq Cover(e, t)
        BY <1>6, <1>7, <1>9, <2>6 DEF Cover
      <3>2. Cardinality(Cover(e, t)') \in Nat /\ Cardinality(Cover(e, t)') <= Cardinality(Cover(e, t))
        BY <2>1, <3>1, NoMore
      <3> QED
        BY <1>6, <1>10, <2>1, <3>2
    <2> QED
      BY <2>4, <2>5, <2>6
  <1>13. SalaryFits(AtRest)'
    BY AtRestFits DEF SalaryFits
  <1>14. Promise(e)'
    <2>1. CASE from <= today
      BY <1>5, <1>7, <1>9, <2>1 DEF Promise
    <2>2. CASE ~(from <= today)
      <3>1. Promise(e)
        BY <1>6 DEF FinanceInv, SalariesFit
      <3>2. ASSUME NEW q \in Salaries, salary[q].state = "kept"
            PROVE  salary'[q] = salary[q]
        BY <1>5, <1>9, <3>2
      <3>3. ASSUME NEW c \in Accountants, From(accountant[c]) <= today
            PROVE  c # a /\ Same(c) /\ From(accountant[c])' = From(accountant[c])
        BY <1>1, <1>3, <1>5, <1>8, <2>2, <3>3 DEF Goes, Same, From
      <3> QED
        BY <1>5, <1>11, <2>2, <3>1, <3>2, <3>3 DEF Promise, Same
    <2> QED
      BY <2>1, <2>2
  <1>15. SalariesFit'
    BY <1>1, <1>2, <1>5, <1>6, <1>7, <1>8, <1>10, <1>11, <1>12, <1>13, <1>14, AtRestFits, RowWritten
  <1> QED
    BY <1>1, <1>5, <1>6, <1>8, <1>9, <1>10, <1>11, <1>15, AtRestFits, SalaryRequestKeeps

LEMMA DatedFits ==
  ASSUME NEW q \in Salary, NEW f \in Dates, NEW g \in (-2 * Day)..Never
  PROVE  LET z == [q EXCEPT !.from = f, !.to = g] IN z \in Salary /\ z.state = q.state /\ z.of = q.of
  <1>1. PICK D, N : D = Dates /\ N = (-2 * Day)..Never
    OBVIOUS
  <1>2. Salary = [state : {"none", "kept"}, of : Employees \cup {NoEmployee}, from : D, to : N]
    BY <1>1 DEF Salary
  <1> QED
    BY <1>1, <1>2

LEMMA SalaryEditReadKeeps ==
  ASSUME FinanceInv, NEW a \in Accountants, NEW s \in Salaries, NEW from \in {Never, today}, NEW to \in {Never, today},
         SalaryEditRead(a, s, from, to)
  PROVE  FinanceInv'
  <1>1. PICK q : q = salary[s]
    OBVIOUS
  <1>2. q \in Salary /\ today \in 0..MaxToday
    BY <1>1, RowsTypedF DEF FinanceInv
  <1>3. PICK row : row = [q EXCEPT !.from = IF from = Never THEN @ ELSE from, !.to = IF to = Never THEN @ ELSE to]
    OBVIOUS
  <1>4. row \in Salary /\ row.state = q.state /\ row.of = q.of
    <2>1. today \in Dates /\ today \in (-2 * Day)..Never /\ Never \in (-2 * Day)..Never
      BY <1>2, FinanceConstants DEF Dates
    <2>2. (IF from = Never THEN q.from ELSE from) \in Dates /\ (IF to = Never THEN q.to ELSE to) \in (-2 * Day)..Never
      BY <1>2, <2>1 DEF Salary
    <2>3. PICK f, g : f = (IF from = Never THEN q.from ELSE from) /\ g = (IF to = Never THEN q.to ELSE to)
      OBVIOUS
    <2>4. row = [q EXCEPT !.from = f, !.to = g]
      BY <1>3, <2>3
    <2>5. f \in Dates /\ g \in (-2 * Day)..Never /\ q \in Salary
      BY <1>2, <2>2, <2>3
    <2> QED
      BY <2>4, <2>5, DatedFits
  <1>5. PICK r : r = [AtRest EXCEPT !.op = "edit", !.of = q.of, !.current = s, !.row = row]
    OBVIOUS
  <1>6. /\ r \in Accountant /\ r.op = "edit" /\ r.of = q.of /\ r.current = s /\ r.row = row /\ r.expense = NoExpense
    BY <1>2, <1>4, <1>5, AtRestFits DEF AtRest, Accountant, Salary
  <1>7. /\ Goes(a, r) /\ UNCHANGED <<today, salary, surplus, promised, expense, log, torn>>
        /\ accountant[a].op = "none" /\ q.state = "kept"
    BY <1>1, <1>3, <1>5, <1>6, HoldsGoes DEF SalaryEditRead, Asked, FinanceInv
  <1>8. SalaryFits(r)
    BY <1>1, <1>4, <1>6, <1>7 DEF SalaryFits
  <1>9. SalariesFit'
    BY <1>6, <1>7, <1>8, SalariesStay
  <1>10. q.of # NoEmployee
    BY <1>1, <1>7 DEF FinanceInv, SalariesFit, Kept
  <1>11. Busy(r)
    BY <1>6, <1>10, FinanceConstants DEF Busy
  <1>12. accountant[a].expense = NoExpense
    BY <1>7 DEF FinanceInv, LogsFit, Busy
  <1> QED
    BY <1>6, <1>7, <1>9, <1>11, <1>12, SalaryRequestKeeps DEF FinanceInv, FinanceType

LEMMA SalaryEditWriteKeeps ==
  ASSUME FinanceInv, NEW a \in Accountants, SalaryEditWrite(a)
  PROVE  FinanceInv'
  <1>1. PICK y : y = accountant[a]
    OBVIOUS
  <1>2. PICK e : e = y.of
    OBVIOUS
  <1>3. PICK s : s = y.current
    OBVIOUS
  <1>4. PICK row : row = y.row
    OBVIOUS
  <1>5. PICK dated : dated = (row.from # salary[s].from \/ row.to # salary[s].to)
    OBVIOUS
  <1>6. /\ y.op = "edit" /\ salary' = [salary EXCEPT ![s] = row] /\ Exceeds(e, dated)
        /\ promised' = [promised EXCEPT ![e] = @ /\ ~dated] /\ Wrote(a, AtRest)
        /\ UNCHANGED <<today, expense, log, torn>>
    BY <1>1, <1>2, <1>3, <1>4, <1>5 DEF SalaryEditWrite
  <1>7. /\ e \in Employees /\ e # NoEmployee /\ y.expense = NoExpense /\ row \in Salary
        /\ SalaryFits(y) /\ surplus[e] \in Nat /\ today \in Int
    BY <1>1, <1>2, <1>4, <1>6, SalaryRequest
  <1>8. /\ s \in Salaries /\ salary[s].state = "kept" /\ salary[s].of = e /\ row.state = "kept" /\ row.of = e
    BY <1>2, <1>3, <1>4, <1>6, <1>7 DEF SalaryFits
  <1>9. /\ Goes(a, AtRest) /\ \A c \in Accountants \ {a} : accountant[c].of = e => accountant'[c].overtaken
    BY <1>1, <1>2, <1>6, <1>7, AtRestFits, WroteGoes DEF FinanceInv
  <1>10. /\ salary' \in [Salaries -> Salary] /\ salary'[s] = row /\ \A q \in Salaries \ {s} : salary'[q] = salary[q]
    BY <1>6, <1>7, <1>8 DEF FinanceInv, FinanceType
  <1>11. /\ surplus' \in [Employees -> Nat] /\ surplus'[e] = surplus[e] + (IF dated THEN 1 ELSE 0)
         /\ \A d \in Employees \ {e} : surplus'[d] = surplus[d]
    BY <1>6, <1>7 DEF Exceeds, FinanceInv, FinanceType
  <1>12. /\ promised' \in [Employees -> BOOLEAN] /\ (promised'[e] => promised[e] /\ ~dated)
         /\ \A d \in Employees \ {e} : promised'[d] = promised[d]
    BY <1>5, <1>6, <1>7 DEF FinanceInv, FinanceType
  <1>13. ~dated => row = salary[s]
    <2>1. PICK q : q = salary[s]
      OBVIOUS
    <2>2. q \in Salary
      BY <1>8, <2>1, RowsTypedF DEF FinanceInv
    <2>3. ~dated => row.from = q.from /\ row.to = q.to /\ row.state = q.state /\ row.of = q.of
      BY <1>5, <1>8, <2>1
    <2> QED
      BY <1>7, <2>1, <2>2, <2>3 DEF Salary
  <1>14. ASSUME NEW t \in Int, t >= today
         PROVE  Cardinality(Cover(e, t)') <= 1 + surplus'[e]
    <2>1. /\ IsFiniteSet(Cover(e, t)) /\ Cardinality(Cover(e, t)) \in Nat
          /\ Cardinality(Cover(e, t)) <= 1 + surplus[e]
      BY <1>7, <1>14, CoverFinite DEF FinanceInv, SalariesFit, Covered
    <2>2. CASE dated
      <3>1. Cover(e, t)' \subseteq Cover(e, t) \cup {s}
        BY <1>10 DEF Cover
      <3>2. Cardinality(Cover(e, t)') \in Nat /\ Cardinality(Cover(e, t)') <= Cardinality(Cover(e, t)) + 1
        BY <2>1, <3>1, OneMore
      <3> QED
        BY <1>7, <1>11, <2>1, <2>2, <3>2
    <2>3. CASE ~dated
      <3>1. Cover(e, t)' = Cover(e, t)
        BY <1>8, <1>10, <1>13, <2>3 DEF Cover
      <3> QED
        BY <1>7, <1>11, <2>1, <2>3, <3>1
    <2> QED
      BY <2>2, <2>3
  <1>15. SalaryFits(AtRest)'
    BY AtRestFits DEF SalaryFits
  <1>16. Promise(e)'
    <2>1. ASSUME promised'[e]
          PROVE  \A q \in Salaries : salary'[q] = salary[q]
      BY <1>10, <1>12, <1>13, <2>1
    <2>2. Promise(e)
      BY <1>7 DEF FinanceInv, SalariesFit
    <2>3. ASSUME NEW c \in Accountants, accountant[c].op = "store"
          PROVE  Same(c) /\ From(accountant[c])' = From(accountant[c])
      BY <1>1, <1>6, <1>9, <2>3 DEF Goes, Same, From
    <2> QED
      BY <1>6, <1>12, <2>1, <2>2, <2>3 DEF Promise, Same
  <1>17. SalariesFit'
    BY <1>1, <1>2, <1>6, <1>7, <1>8, <1>9, <1>11, <1>12, <1>14, <1>15, <1>16, AtRestFits, RowWritten
  <1> QED
    BY <1>1, <1>6, <1>7, <1>9, <1>10, <1>11, <1>12, <1>17, AtRestFits, SalaryRequestKeeps
-----------------------------------------------------------------------------
(* A request about an expense; the salaries stay. *)

LEMMA ExpenseRequestKeeps ==
  ASSUME FinanceInv, NEW a \in Accountants, NEW r \in Accountant, Goes(a, r), LogsFit',
         r.op \notin {"close", "store", "edit"}, accountant[a].op # "store",
         expense' \in [Expenses -> Expense], UNCHANGED <<today, salary, surplus, promised>>
  PROVE  FinanceInv'
  <1>1. SalariesFit'
    <2>1. SalaryFits(r)
      BY DEF SalaryFits
    <2> QED
      BY <2>1, SalariesStay
  <1>2. FinanceType'
    BY DEF FinanceInv, FinanceType, Goes, LogsFit, Entry
  <1> QED
    BY <1>1, <1>2 DEF FinanceInv

LEMMA CreateExpenseKeeps ==
  ASSUME FinanceInv, NEW a \in Accountants, NEW x \in Expenses, NEW c \in Contents, CreateExpense(a, x, c)
  PROVE  FinanceInv'
  <1>1. PICK r : r = [AtRest EXCEPT !.op = "log", !.expense = x, !.before = c, !.after = c, !.new = TRUE]
    OBVIOUS
  <1>2. /\ r \in Accountant /\ r.op = "log" /\ r.expense = x /\ r.before = c /\ r.after = c /\ r.of = NoEmployee
    BY <1>1, AtRestFits DEF AtRest, Accountant
  <1>3. Busy(r) /\ Goes(a, r)
    BY <1>1, <1>2, FinanceConstants, HoldsGoes DEF Busy, CreateExpense, FinanceInv
  <1>4. accountant[a].op = "none" /\ UNCHANGED <<today, salary, surplus, promised, log, torn>>
    BY DEF CreateExpense, Asked
  <1>5. /\ expense[x].state = "none" /\ expense' = [expense EXCEPT ![x] = [state |-> "live", content |-> c]]
        /\ expense' \in [Expenses -> Expense]
    BY DEF CreateExpense, FinanceInv, FinanceType, Expense
  <1>6. LogsFit'
    BY <1>2, <1>3, <1>4, <1>5, CreateExpenseLogs
  <1> QED
    BY <1>2, <1>3, <1>4, <1>5, <1>6, ExpenseRequestKeeps

LEMMA ExpenseReadKeeps ==
  ASSUME FinanceInv, NEW a \in Accountants, NEW x \in Expenses, NEW c \in Contents, ExpenseRead(a, x, c)
  PROVE  FinanceInv'
  <1>0. PICK b : b = expense[x].content
    OBVIOUS
  <1>1. PICK r : r = [AtRest EXCEPT !.op = "write", !.expense = x, !.before = b, !.after = c]
    OBVIOUS
  <1>2. /\ r \in Accountant /\ r.op = "write" /\ r.expense = x /\ r.before = b /\ r.of = NoEmployee
    <2>1. b \in Contents
      BY <1>0, RowsTypedF DEF FinanceInv, Expense
    <2> QED
      BY <1>1, <2>1, AtRestFits DEF AtRest, Accountant
  <1>3. Busy(r) /\ Goes(a, r)
    BY <1>0, <1>1, <1>2, FinanceConstants, HoldsGoes DEF Busy, ExpenseRead, FinanceInv
  <1>4. /\ accountant[a].op = "none" /\ UNCHANGED <<today, salary, surplus, promised, expense, log>>
        /\ expense[x].state = "live" /\ torn' = [torn EXCEPT ![x] = @ \/ Shared(a, x)]
    BY DEF ExpenseRead, Asked
  <1>5. LogsFit'
    BY <1>0, <1>2, <1>3, <1>4, ExpenseReadLogs
  <1> QED
    BY <1>2, <1>3, <1>4, <1>5, ExpenseRequestKeeps DEF FinanceInv, FinanceType

LEMMA ExpenseWriteKeeps ==
  ASSUME FinanceInv, NEW a \in Accountants, ExpenseWrite(a)
  PROVE  FinanceInv'
  <1>1. PICK y : y = accountant[a]
    OBVIOUS
  <1>2. PICK x : x = y.expense
    OBVIOUS
  <1>3. /\ y.op = "write" /\ UNCHANGED <<today, salary, surplus, promised, log, torn>>
    BY <1>1 DEF ExpenseWrite
  <1>4. y \in Accountant /\ x \in Expenses /\ y.of = NoEmployee
    <2>1. Busy(y) /\ y \in Accountant
      BY <1>1, RowsTypedF DEF FinanceInv, LogsFit
    <2> QED
      BY <1>1, <1>2, <1>3, <2>1, RowsTypedF DEF Busy, FinanceInv
  <1>5. CASE /\ expense' = [expense EXCEPT ![x] = [state |-> "live", content |-> y.after]]
             /\ Wrote(a, [y EXCEPT !.op = "log"])
    <2>1. PICK r : r = [y EXCEPT !.op = "log"]
      OBVIOUS
    <2>2. /\ r \in Accountant /\ r.op = "log" /\ r.expense = x /\ r.before = y.before /\ r.of = NoEmployee
          /\ r.after = y.after /\ r.after \in Contents
      BY <1>2, <1>4, <2>1 DEF Accountant
    <2>3. Wrote(a, r) /\ expense' = [expense EXCEPT ![x] = [state |-> "live", content |-> r.after]]
      BY <1>5, <2>1, <2>2
    <2>4. Busy(r) /\ Goes(a, r)
      BY <1>4, <2>2, <2>3, WroteGoes, FinanceConstants DEF Busy, FinanceInv
    <2>5. LogsFit'
      BY <1>1, <1>2, <1>3, <1>4, <1>5, <2>2, <2>3, <2>4, ExpenseWriteLogs
    <2>6. expense' \in [Expenses -> Expense]
      BY <2>2, <2>3 DEF FinanceInv, FinanceType, Expense
    <2> QED
      BY <1>1, <1>3, <2>2, <2>4, <2>5, <2>6, ExpenseRequestKeeps
  <1>6. CASE expense[x].state = "gone" /\ Holds(a, AtRest) /\ UNCHANGED expense
    <2>1. Holds(a, AtRest) /\ UNCHANGED expense
      BY <1>6
    <2>2. Goes(a, AtRest)
      BY <2>1, AtRestFits, HoldsGoes DEF FinanceInv
    <2>3. LogsFit'
      BY <1>1, <1>2, <1>3, <1>4, <1>6, <2>1, <2>2, GoneLogs
    <2> QED
      BY <1>1, <1>3, <2>1, <2>2, <2>3, AtRestFits, ExpenseRequestKeeps DEF FinanceInv, FinanceType
  <1> QED
    BY <1>1, <1>2, <1>5, <1>6 DEF ExpenseWrite

LEMMA LogExpenseKeeps ==
  ASSUME FinanceInv, NEW a \in Accountants, LogExpense(a)
  PROVE  FinanceInv'
  <1>1. PICK y : y = accountant[a]
    OBVIOUS
  <1>2. PICK x, b, f : x = y.expense /\ b = y.before /\ f = y.after
    OBVIOUS
  <1>3. /\ y.op = "log" /\ UNCHANGED <<today, salary, surplus, promised, expense, torn>> /\ Wrote(a, AtRest)
        /\ log' = IF expense[x].state = "live"
                  THEN [log EXCEPT ![x] = Append(@, [before |-> b, after |-> f])] ELSE log
    BY <1>1, <1>2 DEF LogExpense
  <1>4. x \in Expenses /\ b \in Contents /\ f \in Contents
    BY <1>1, <1>2, <1>3, RowsTypedF DEF FinanceInv, LogsFit, Busy
  <1>5. Goes(a, AtRest)
    BY <1>3, AtRestFits, WroteGoes DEF FinanceInv
  <1>6. LogsFit'
    <2>1. CASE expense[x].state = "live"
      BY <1>1, <1>2, <1>3, <1>4, <1>5, <2>1, LogExpenseLogs
    <2>2. CASE expense[x].state # "live"
      BY <1>1, <1>2, <1>3, <1>4, <1>5, <2>2, GoneLogs
    <2> QED
      BY <2>1, <2>2
  <1> QED
    BY <1>1, <1>3, <1>5, <1>6, AtRestFits, ExpenseRequestKeeps DEF FinanceInv, FinanceType

LEMMA SalariesSame ==
  ASSUME SalariesFit, UNCHANGED <<today, salary, surplus, promised, accountant>>
  PROVE  SalariesFit'
  <1>1. Covered' /\ Kept'
    BY DEF SalariesFit, Covered, Kept, Cover
  <1>2. ASSUME NEW c \in Accountants
        PROVE  SalaryFits(accountant[c])'
    <2>1. PICK z : z = accountant[c]
      OBVIOUS
    <2>2. SalaryFits(z)
      BY <2>1 DEF SalariesFit
    <2>3. SalaryFits(z)'
      BY <2>2 DEF SalaryFits, From, Cover
    <2> QED
      BY <2>1, <2>3
  <1>3. \A e \in Employees : Promise(e)'
    BY DEF SalariesFit, Promise, From
  <1> QED
    BY <1>1, <1>2, <1>3 DEF SalariesFit

LEMMA DeleteExpenseKeeps ==
  ASSUME FinanceInv, NEW x \in Expenses, DeleteExpense(x)
  PROVE  FinanceInv'
  <1>1. /\ expense[x].state = "live" /\ expense' = [expense EXCEPT ![x].state = "gone"]
        /\ log' = [log EXCEPT ![x] = <<>>] /\ UNCHANGED <<today, salary, surplus, promised, accountant>>
        /\ torn' = [torn EXCEPT ![x] = @ \/ \E a \in Accountants : accountant[a].expense = x]
    BY DEF DeleteExpense
  <1>2. LogsFit'
    BY <1>1, DeleteExpenseLogs
  <1>3. SalariesFit'
    BY <1>1, SalariesSame DEF FinanceInv
  <1>4. FinanceType'
    <2>1. expense[x] \in Expense
      BY RowsTypedF DEF FinanceInv
    <2>2. expense' \in [Expenses -> Expense]
      BY <1>1, <2>1 DEF FinanceInv, FinanceType, Expense
    <2> QED
      BY <1>1, <1>2, <2>2 DEF FinanceInv, FinanceType, LogsFit, Entry
  <1> QED
    BY <1>2, <1>3, <1>4 DEF FinanceInv

LEMMA DiesKeeps ==
  ASSUME FinanceInv, NEW a \in Accountants, Dies(a)
  PROVE  FinanceInv'
  <1>1. PICK y : y = accountant[a]
    OBVIOUS
  <1>2. Goes(a, AtRest) /\ Busy(y)
    BY <1>1, AtRestFits, HoldsGoes DEF Dies, FinanceInv, LogsFit
  <1>3. UNCHANGED <<today, salary, surplus, expense, log>>
    BY DEF Dies
  <1>4. /\ promised' \in [Employees -> BOOLEAN]
        /\ \A e \in Employees : promised'[e] => promised[e] /\ ~(y.op = "store" /\ y.of = e)
    BY <1>1 DEF Dies, FinanceInv, FinanceType
  <1>5. SalaryFits(AtRest)
    BY AtRestFits DEF SalaryFits
  <1>6. SalariesFit'
    BY <1>1, <1>2, <1>3, <1>4, <1>5, AtRestFits, SalariesStay
  <1>7. LogsFit'
    <2>1. CASE y.expense = NoExpense
      <3>1. UNCHANGED torn
        BY <1>1, <1>2, <2>1 DEF Dies, Busy
      <3> QED
        BY <1>1, <1>2, <1>3, <2>1, <3>1, AtRestFits, LogsStay
    <2>2. CASE y.expense # NoExpense
      <3>1. PICK x : x = y.expense
        OBVIOUS
      <3>2. x \in Expenses
        BY <1>1, <2>2, <3>1, RowsTypedF DEF FinanceInv
      <3>3. torn' = IF accountant[a].op = "log" THEN [torn EXCEPT ![x] = TRUE] ELSE torn
        BY <1>1, <3>1 DEF Dies
      <3> QED
        BY <1>1, <1>2, <1>3, <3>1, <3>2, <3>3, DiesLogs
    <2> QED
      BY <2>1, <2>2
  <1>8. FinanceType'
    BY <1>2, <1>3, <1>4, <1>7 DEF FinanceInv, FinanceType, Goes, LogsFit, Entry
  <1> QED
    BY <1>6, <1>7, <1>8 DEF FinanceInv

LEMMA PassesKeeps ==
  ASSUME FinanceInv, Passes
  PROVE  FinanceInv'
  <1>1. today < MaxToday /\ today' = today + 1 /\ UNCHANGED <<salary, surplus, promised, expense, log, torn, accountant>>
    BY DEF Passes
  <1>2. SalariesFit'
    BY <1>1, PassesSalaries
  <1>3. LogsFit'
    BY <1>1 DEF FinanceInv, LogsFit, LogFits, Busy
  <1>4. FinanceType'
    <2>1. today' \in 0..MaxToday
      BY <1>1, RowsTypedF, FinanceConstants DEF FinanceInv
    <2> QED
      BY <1>1, <2>1 DEF FinanceInv, FinanceType
  <1> QED
    BY <1>2, <1>3, <1>4 DEF FinanceInv
-----------------------------------------------------------------------------
LEMMA FinanceInvInit == FinanceInit => FinanceInv
  <1> SUFFICES ASSUME FinanceInit
               PROVE  FinanceInv
    OBVIOUS
  <1>1. FinanceType
    BY AtRestFits, FinanceConstants DEF FinanceInit, FinanceType, Expense
  <1>2. LogsFit
    BY AtRestFits, FinanceConstants DEF FinanceInit, LogsFit, LogFits, Entry
  <1>3. \A e, t : Cover(e, t) = {}
    BY DEF FinanceInit, Cover, NoSalaryRow
  <1>4. Covered
    <2>1. \A e \in Employees : surplus[e] = 0
      BY DEF FinanceInit
    <2>2. Cardinality({}) <= 1 + 0
      BY FS_EmptySet
    <2> QED
      BY <1>3, <2>1, <2>2 DEF Covered
  <1>5. SalariesFit
    BY <1>4, AtRestFits DEF FinanceInit, SalariesFit, Kept, SalaryFits, Promise, NoSalaryRow
  <1> QED
    BY <1>1, <1>2, <1>5 DEF FinanceInv

LEMMA FinanceInvStep == FinanceInv /\ [FinanceNext]_financeVars => FinanceInv'
  <1> SUFFICES ASSUME FinanceInv, [FinanceNext]_financeVars
               PROVE  FinanceInv'
    OBVIOUS
  <1>1. ASSUME NEW a \in Accountants, create_salary(a) \/ promote(a) \/ update_salary(a)
        PROVE  FinanceInv'
    BY <1>1, OpenReadKeeps, OpenCloseKeeps, OpenStoreKeeps, SalaryEditReadKeeps, SalaryEditWriteKeeps
       DEF create_salary, promote, PromoteRead, update_salary
  <1>2. ASSUME NEW a \in Accountants, create_expense(a) \/ update_expense(a)
        PROVE  FinanceInv'
    BY <1>2, CreateExpenseKeeps, LogExpenseKeeps, ExpenseReadKeeps, ExpenseWriteKeeps
       DEF create_expense, update_expense
  <1>3. CASE destroy_expense \/ Passes \/ \E a \in Accountants : Dies(a)
    BY <1>3, DeleteExpenseKeeps, PassesKeeps, DiesKeeps DEF destroy_expense
  <1>4. CASE UNCHANGED financeVars
    <2>1. UNCHANGED <<today, salary, surplus, promised, expense, log, torn, accountant>>
      BY <1>4 DEF financeVars
    <2>2. FinanceType'
      BY <2>1 DEF FinanceInv, FinanceType
    <2>3. LogsFit'
      BY <2>1 DEF FinanceInv, LogsFit, LogFits, Busy
    <2>4. SalariesFit'
      BY <2>1, SalariesSame DEF FinanceInv
    <2> QED
      BY <2>2, <2>3, <2>4 DEF FinanceInv
  <1> QED
    BY <1>1, <1>2, <1>3, <1>4 DEF FinanceNext

LEMMA CoveredToday == FinanceInv => OneOpenSalary
  <1> SUFFICES ASSUME FinanceInv, NEW e \in Employees
               PROVE  /\ Cardinality(Actives(e)) <= 1 + surplus[e]
                      /\ promised[e] => \/ Actives(e) # {}
                                        \/ \E a \in Accountants : accountant[a].of = e /\ accountant[a].op = "store"
    BY DEF OneOpenSalary
  <1>1. today \in Int /\ today <= Never
    BY RowsTypedF, FinanceConstants DEF FinanceInv
  <1>2. Cardinality(Actives(e)) <= 1 + surplus[e]
    BY <1>1, ActivesCover DEF FinanceInv, SalariesFit, Covered
  <1>3. ASSUME NEW s \in Salaries, salary[s].of = e, salary[s].state = "kept", salary[s].from <= today, salary[s].to = Never
        PROVE  Actives(e) # {}
    BY <1>1, <1>3 DEF Actives, IsActive
  <1> QED
    BY <1>2, <1>3 DEF FinanceInv, SalariesFit, Promise

LEMMA FinanceInvariant == FinanceSpec => []FinanceInv
  <1>1. FinanceInit => FinanceInv
    BY FinanceInvInit
  <1>2. FinanceInv /\ [FinanceNext]_financeVars => FinanceInv'
    BY FinanceInvStep
  <1> QED
    BY <1>1, <1>2, PTL DEF FinanceSpec

\* An employee has one salary at a time, over any number of requests and days,
\* unless one was overtaken or a date was set ahead or by hand, and is without
\* one only between the two writes of a change (salary_use_cases.py:63).
THEOREM OneSalaryAtATime == FinanceSpec => []OneOpenSalary
  <1>1. FinanceInv => OneOpenSalary
    BY CoveredToday
  <1> QED
    BY <1>1, FinanceInvariant, PTL

\* Each entry of an audit log begins where the one before ends, and the last
\* one ends at what the row holds, for an expense on which no two requests were
\* at work at once and none died before its entry (finance_use_cases.py:312).
THEOREM LogsTellTheHistory == FinanceSpec => []AuditChain
  <1>1. FinanceInv => AuditChain
    BY DEF FinanceInv, LogsFit, LogFits, AuditChain
  <1> QED
    BY <1>1, FinanceInvariant, PTL
-----------------------------------------------------------------------------
(* Businesses and members. *)

OwnerRow(u) == account[u].state = "live" /\ account[u].role = "owner"

\* Another operation has set the role between the reading and the writing of a copy.
Lost(u) == "role" \in clobbered[u]
\* The businesses that u founded, and those a request may yet insert again for u.
Claims(u) == Founded(u) \cup {b \in Businesses : \E k \in Clerks :
                                  /\ clerk[k].op = "edit" /\ clerk[k].business = b
                                  /\ clerk[k].shop.owner = u /\ ~clerk[k].shop.late}

\* The ties of a user, one business at a time.
Ties(u) ==
    /\ \A b, d \in Timely(u) : b = d
    /\ Timely(u) # {} /\ Claims(u) # {} => Lost(u)
    /\ \A b \in Timely(u) : ~member[b][u].removed
    /\ Claims(u) # {} /\ ~Lost(u) => OwnerRow(u)

\* What a request may rely on when it writes, unless it has been overtaken.
ClerkFits(r) ==
    /\ r.op \notin {"none", "profile"} => r.business \in Businesses
    /\ r.op \in {"create", "add", "insert", "remove", "update"} => r.target \in Users
    /\ r.op = "create" => /\ r.copy.state = "live"
                          /\ r.copy.role = "owner" => OwnerRow(r.target) \/ Lost(r.target)
                          /\ r.copy.role = r.base.role \/ Lost(r.target)
                          /\ ~r.overtaken => Memberships(r.target) = {}
    /\ r.op = "profile" => /\ r.by \in Users /\ r.copy.state = "live"
                           /\ r.copy.role = r.base.role \/ Lost(r.by)
    /\ r.op \in {"add", "insert"} /\ ~r.overtaken => Claims(r.target) = {} \/ Lost(r.target)
    /\ r.op = "insert" /\ ~r.overtaken => Memberships(r.target) = {}
    /\ r.op = "update" /\ ~r.overtaken => member[r.business][r.target].state \in {"none", "active"}
    /\ r.op = "update" => r.row.state \in {"active", "left"}

\* The role of a user is the one the operations about it have given him.
RoleFits(u) == Lost(u) \/ account[u].role = intended[u].role

MembersInv == /\ MembersType
              /\ \A u \in Users : Ties(u) /\ RoleFits(u)
              /\ \A k \in Clerks : ClerkFits(clerk[k])

\* The row of an owner stays one, unless a stale copy is written over it.
RolesKept == \A u \in Users : /\ Lost(u) => Lost(u)'
                              /\ OwnerRow(u) => OwnerRow(u)' \/ Lost(u)'
                              /\ RoleFits(u)'
\* The ties of u become fewer, if they change at all.
Fewer(u) == /\ \A b \in Businesses : member'[b][u] \in {member[b][u], NoMember}
            /\ Claims(u)' \subseteq Claims(u)
\* Request j is where it was; it may have been overtaken.
Waits(j) == LET y == clerk[j]  z == clerk'[j] IN
    /\ z.op = y.op /\ z.business = y.business /\ z.target = y.target /\ z.by = y.by
    /\ z.copy = y.copy /\ z.base = y.base /\ z.row = y.row /\ z.shop = y.shop /\ (y.overtaken => z.overtaken)

LEMMA RowsTypedM ==
  ASSUME MembersType
  PROVE  /\ \A u \in Users : account[u] \in Account /\ intended[u] \in Account /\ clobbered[u] \in SUBSET Fields
         /\ \A b \in Businesses : business[b] \in Business
         /\ \A b \in Businesses, u \in Users : member[b][u] \in Member
         /\ \A k \in Clerks : /\ clerk[k] \in Clerk
                              /\ clerk[k].copy \in Account /\ clerk[k].base \in Account
                              /\ clerk[k].row \in Member /\ clerk[k].shop \in Business
                              /\ clerk[k].role \in {"manager", "cashier"} /\ clerk[k].overtaken \in BOOLEAN
  <1>1. \A k \in Clerks : clerk[k] \in Clerk
    BY DEF MembersType
  <1>2. \A k \in Clerks : /\ clerk[k].copy \in Account /\ clerk[k].base \in Account
                              /\ clerk[k].row \in Member /\ clerk[k].shop \in Business
                          /\ clerk[k].role \in {"manager", "cashier"} /\ clerk[k].overtaken \in BOOLEAN
    BY <1>1 DEF Clerk
  <1> QED
    BY <1>1, <1>2 DEF MembersType, AccountsType

LEMMA FreeFits == /\ Free \in Clerk /\ Free.op = "none" /\ ~Free.overtaken
                  /\ NoMember \in Member /\ NoBusinessRow \in Business /\ NoAccount \in Account
  <1>1. NoMember \in Member /\ NoBusinessRow \in Business /\ NoAccount \in Account
    BY DEF NoMember, Member, NoBusinessRow, Business, NoAccount, Account, Roles
  <1> QED
    BY <1>1 DEF Free, Clerk

LEMMA FewerTies ==
  ASSUME MembersInv, RolesKept, NEW u \in Users, Fewer(u)
  PROVE  /\ Ties(u)' /\ Memberships(u)' \subseteq Memberships(u)
         /\ Claims(u)' \subseteq Claims(u)
  <1>1. /\ Memberships(u)' \subseteq Memberships(u) /\ Timely(u)' \subseteq Timely(u)
        /\ \A b \in Timely(u)' : member'[b][u] = member[b][u]
    BY DEF Fewer, Memberships, Timely, NoMember
  <1>2. Ties(u) /\ Claims(u)' \subseteq Claims(u)
    BY DEF MembersInv, Fewer
  <1>3. (Lost(u) => Lost(u)') /\ (OwnerRow(u) => OwnerRow(u)' \/ Lost(u)')
    BY DEF RolesKept
  <1>4. /\ \A b, d \in Timely(u)' : b = d
        /\ \A b \in Timely(u)' : ~member'[b][u].removed
    BY <1>1, <1>2 DEF Ties
  <1>5. /\ Timely(u)' # {} /\ Claims(u)' # {} => Lost(u)'
        /\ Claims(u)' # {} /\ ~Lost(u)' => OwnerRow(u)'
    BY <1>1, <1>2, <1>3 DEF Ties
  <1> QED
    BY <1>1, <1>2, <1>4, <1>5 DEF Ties

\* A waiting request may still rely on what it relied on, if the ties of its
\* target have only become fewer or it knows that it has been overtaken.
LEMMA WaitsFits ==
  ASSUME MembersInv, RolesKept, NEW j \in Clerks, Waits(j),
         clerk[j].target \in Users => Fewer(clerk[j].target) \/ clerk'[j].overtaken
  PROVE  ClerkFits(clerk[j])'
  <1>1. PICK y, z : y = clerk[j] /\ z = clerk'[j]
    OBVIOUS
  <1>2. PICK u : u = y.target
    OBVIOUS
  <1>3. /\ z.op = y.op /\ z.business = y.business /\ z.target = u /\ z.by = y.by
        /\ z.copy = y.copy /\ z.base = y.base /\ z.row = y.row /\ z.shop = y.shop /\ (y.overtaken => z.overtaken)
    BY <1>1, <1>2 DEF Waits
  <1>4. ClerkFits(y)
    BY <1>1 DEF MembersInv
  <1>5. ASSUME u \in Users, ~z.overtaken
        PROVE  /\ Memberships(u)' \subseteq Memberships(u) /\ Claims(u)' \subseteq Claims(u)
               /\ \A b \in Businesses : member'[b][u] \in {member[b][u], NoMember}
    <2>1. Fewer(u)
      BY <1>1, <1>2, <1>5
    <2> QED
      BY <1>5, <2>1, FewerTies DEF Fewer
  <1>6. u \in Users => (Lost(u) => Lost(u)') /\ (OwnerRow(u) => OwnerRow(u)' \/ Lost(u)')
    BY DEF RolesKept
  <1>7. y.op = "create" /\ ~z.overtaken => Memberships(u)' = {}
    <2>1. y.op = "create" /\ ~z.overtaken => u \in Users /\ Memberships(u) = {}
      BY <1>2, <1>3, <1>4 DEF ClerkFits
    <2> QED
      BY <1>5, <2>1
  <1>8. y.op \in {"add", "insert"} /\ ~z.overtaken => Claims(u)' = {} \/ Lost(u)'
    BY <1>2, <1>3, <1>4, <1>5, <1>6 DEF ClerkFits
  <1>9. y.op = "insert" /\ ~z.overtaken => Memberships(u)' = {}
    <2>1. y.op = "insert" /\ ~z.overtaken => u \in Users /\ Memberships(u) = {}
      BY <1>2, <1>3, <1>4 DEF ClerkFits
    <2> QED
      BY <1>5, <2>1
  <1>10. y.op = "update" /\ ~z.overtaken => member'[y.business][u].state \in {"none", "active"}
    BY <1>2, <1>3, <1>4, <1>5 DEF ClerkFits, NoMember
  <1>11. y.op = "profile" => (Lost(y.by) => Lost(y.by)')
    BY <1>4 DEF ClerkFits, RolesKept
  <1>12. ClerkFits(z)'
    BY <1>2, <1>3, <1>4, <1>6, <1>7, <1>8, <1>9, <1>10, <1>11 DEF ClerkFits
  <1> QED
    BY <1>1, <1>12

\* A write changes the ties of W for better, as the goal says, and those of
\* others only to fewer.
LEMMA WriteKeeps ==
  ASSUME MembersInv, RolesKept, NEW W \in SUBSET Users, MembersType',
         \A u \in Users \ W : Fewer(u), \A u \in W : Ties(u)',
         \A j \in Clerks : ClerkFits(clerk[j])' \/ (Waits(j) /\ (clerk[j].target \in W => clerk'[j].overtaken))
  PROVE  MembersInv'
  <1>1. \A u \in Users : Ties(u)' /\ RoleFits(u)'
    BY FewerTies DEF RolesKept
  <1>2. \A j \in Clerks : ClerkFits(clerk[j])'
    BY WaitsFits
  <1> QED
    BY <1>1, <1>2 DEF MembersInv

LEMMA FewerKeeps ==
  ASSUME MembersInv, RolesKept, MembersType', \A u \in Users : Fewer(u),
         \A j \in Clerks : ClerkFits(clerk[j])' \/ Waits(j)
  PROVE  MembersInv'
  <1>1. \A u \in Users : Ties(u)' /\ RoleFits(u)'
    BY FewerTies DEF RolesKept
  <1>2. \A j \in Clerks : ClerkFits(clerk[j])'
    BY WaitsFits
  <1> QED
    BY <1>1, <1>2 DEF MembersInv

\* Requests wait, or are not to write the row of a business.
NobodyEdits == \A j \in Clerks : Waits(j) \/ clerk'[j].op # "edit"

LEMMA FewerClaims ==
  ASSUME NEW u, NobodyEdits, Founded(u)' \subseteq Claims(u)
  PROVE  Claims(u)' \subseteq Claims(u)
  BY DEF Claims, NobodyEdits, Waits

LEMMA SameTies ==
  ASSUME UNCHANGED <<business, member>>, NobodyEdits
  PROVE  \A u \in Users : Fewer(u)
  <1>1. \A u \in Users : Founded(u)' \subseteq Claims(u)
    BY DEF Founded, Claims, Owns, Open
  <1> QED
    BY <1>1, FewerClaims DEF Fewer

LEMMA SameRows ==
  ASSUME MembersInv, UNCHANGED <<account, intended, clobbered>>
  PROVE  RolesKept
  BY DEF RolesKept, OwnerRow, MembersInv, RoleFits, Lost

LEMMA EndWaits ==
  ASSUME MembersInv, NEW k \in Clerks, NEW r \in Clerk, clerk' = [clerk EXCEPT ![k] = r]
  PROVE  /\ clerk' \in [Clerks -> Clerk] /\ clerk'[k] = r
         /\ \A j \in Clerks \ {k} : clerk'[j] = clerk[j] /\ Waits(j)
  BY DEF MembersInv, MembersType, Waits

LEMMA OvertakenClerk ==
  ASSUME NEW y \in Clerk
  PROVE  LET z == [y EXCEPT !.overtaken = TRUE] IN
         /\ z \in Clerk /\ z.overtaken /\ z.op = y.op /\ z.business = y.business /\ z.target = y.target
         /\ z.by = y.by /\ z.copy = y.copy /\ z.base = y.base /\ z.row = y.row /\ z.shop = y.shop
  BY DEF Clerk

LEMMA ChangingWaits ==
  ASSUME MembersInv, NEW k \in Clerks, NEW u, EndChanging(k, u)
  PROVE  /\ clerk' \in [Clerks -> Clerk] /\ clerk'[k] = Free
         /\ \A j \in Clerks \ {k} : Waits(j) /\ (clerk[j].target = u => clerk'[j].overtaken)
  <1>1. clerk'[k] = Free /\ DOMAIN clerk' = Clerks
    BY DEF EndChanging
  <1>2. ASSUME NEW j \in Clerks \ {k}
        PROVE  clerk'[j] \in Clerk /\ Waits(j) /\ (clerk[j].target = u => clerk'[j].overtaken)
    <2>1. PICK y, z : y = clerk[j] /\ z = clerk'[j]
      OBVIOUS
    <2>2. y \in Clerk
      BY <2>1, RowsTypedM DEF MembersInv
    <2>3. z = IF y.target = u THEN [y EXCEPT !.overtaken = TRUE] ELSE y
      BY <2>1 DEF EndChanging
    <2>4. /\ z \in Clerk /\ (y.target = u => z.overtaken) /\ z.op = y.op /\ z.business = y.business
          /\ z.target = y.target /\ z.by = y.by /\ z.copy = y.copy /\ z.base = y.base
          /\ z.row = y.row /\ z.shop = y.shop /\ (y.overtaken => z.overtaken)
      BY <2>2, <2>3, OvertakenClerk
    <2> QED
      BY <2>1, <2>4 DEF Waits
  <1>3. clerk' \in [Clerks -> Clerk]
    BY <1>1, <1>2, FreeFits DEF EndChanging
  <1> QED
    BY <1>1, <1>2, <1>3

\* A request reads, goes on or gives up, and no row changes.
LEMMA ReadKeeps ==
  ASSUME MembersInv, NEW k \in Clerks, NEW r \in Clerk, clerk' = [clerk EXCEPT ![k] = r], ClerkFits(r),
         r.op = "edit" => Open(r.business) /\ r.shop = business[r.business],
         memberCalls' \in 0..MaxMemberCalls, UNCHANGED <<business, member, account, intended, clobbered>>
  PROVE  MembersInv'
  <1>0. clerk'[k] = r /\ \A j \in Clerks \ {k} : clerk'[j] = clerk[j]
    BY EndWaits
  <1>1. RolesKept /\ \A u \in Users : Fewer(u)
    <2>1. \A u \in Users : Founded(u)' = Founded(u)
      BY DEF Founded, Owns, Open
    <2>2. \A u \in Users : Claims(u)' \subseteq Claims(u)
      <3>1. ASSUME NEW u \in Users, NEW b \in Claims(u)'
            PROVE  b \in Claims(u)
        <4>1. CASE b \in Founded(u)'
          BY <2>1, <4>1 DEF Claims
        <4>2. CASE b \notin Founded(u)'
          <5>1. PICK j \in Clerks : /\ clerk'[j].op = "edit" /\ clerk'[j].business = b
                                   /\ clerk'[j].shop.owner = u /\ ~clerk'[j].shop.late
            BY <3>1, <4>2 DEF Claims
          <5>2. CASE j = k
            BY <1>0, <3>1, <5>1, <5>2 DEF Claims, Founded, Owns
          <5>3. CASE j # k
            <6>1. clerk'[j] = clerk[j]
              BY <1>0, <5>3
            <6>2. b \in Businesses
              BY <3>1 DEF Claims, Founded
            <6> QED
              BY <5>1, <6>1, <6>2 DEF Claims
          <5> QED
            BY <5>2, <5>3
        <4> QED
          BY <4>1, <4>2
      <3> QED
        BY <3>1
    <2> QED
      BY <2>2, SameRows DEF Fewer
  <1>2. MembersType'
    BY EndWaits DEF MembersInv, MembersType, AccountsType
  <1>3. ClerkFits(r)'
    <2>1. \A u : /\ OwnerRow(u)' <=> OwnerRow(u)
                 /\ Memberships(u)' = Memberships(u) /\ Lost(u)' = Lost(u)
      BY DEF OwnerRow, Memberships, Lost
    <2>2. r.target \in Users => Claims(r.target)' \subseteq Claims(r.target)
      BY <1>1 DEF Fewer
    <2> QED
      BY <2>1, <2>2 DEF ClerkFits
  <1>4. \A j \in Clerks : ClerkFits(clerk[j])' \/ Waits(j)
    BY <1>3, EndWaits
  <1> QED
    BY <1>1, <1>2, <1>4, FewerKeeps

LEMMA FewerCalls == ASSUME MembersInv, memberCalls > 0, memberCalls' = memberCalls - 1
                    PROVE  memberCalls' \in 0..MaxMemberCalls
  BY MembersConstants DEF MembersInv, MembersType

LEMMA FreeRelies == ClerkFits(Free) /\ ClerkFits(Free)'
  BY FreeFits DEF ClerkFits

\* A request that ends, or is refused, or dies.
LEMMA GivesUpKeeps ==
  ASSUME MembersInv, NEW k \in Clerks, EndOf(k), UNCHANGED <<memberCalls, business, member, account, intended, clobbered>>
  PROVE  MembersInv'
  <1>1. memberCalls' \in 0..MaxMemberCalls
    BY DEF MembersInv, MembersType
  <1> QED
    BY <1>1, FreeFits, FreeRelies, ReadKeeps DEF EndOf

LEMMA CreateReadKeeps ==
  ASSUME MembersInv, NEW k \in Clerks, NEW u \in Users, NEW b \in Businesses, CreateRead(k, u, b)
  PROVE  MembersInv'
  <1>1. PICK y, x : y = account[u] /\ x = intended[u]
    OBVIOUS
  <1>2. y \in Account /\ x \in Account
    BY <1>1, RowsTypedM DEF MembersInv
  <1>3. PICK r : r = [[Free EXCEPT !.op = "create", !.business = b, !.target = u, !.copy = y, !.base = x]
                      EXCEPT !.overtaken = FALSE]
    OBVIOUS
  <1>4. r \in Clerk /\ r.op = "create" /\ r.business = b /\ r.target = u /\ r.copy = y /\ r.base = x
    BY <1>2, <1>3, FreeFits DEF Free, Clerk
  <1>5. clerk' = [clerk EXCEPT ![k] = r] /\ Exists(u) /\ Memberships(u) = {}
    BY <1>1, <1>3 DEF CreateRead, Take
  <1>6. ClerkFits(r)
    <2>1. RoleFits(u)
      BY DEF MembersInv
    <2> QED
      BY <1>1, <1>4, <1>5, <2>1 DEF ClerkFits, OwnerRow, Exists, RoleFits
  <1>7. memberCalls' \in 0..MaxMemberCalls
    BY FewerCalls DEF CreateRead, Begin
  <1> QED
    BY <1>4, <1>5, <1>6, <1>7, ReadKeeps DEF CreateRead

LEMMA EditReadKeeps ==
  ASSUME MembersInv, NEW k \in Clerks, NEW u \in Users, NEW b \in Businesses, EditRead(k, u, b)
  PROVE  MembersInv'
  <1>1. PICK y : y = business[b]
    OBVIOUS
  <1>2. y \in Business
    BY <1>1, RowsTypedM DEF MembersInv
  <1>3. PICK r : r = [[Free EXCEPT !.op = "edit", !.business = b, !.by = u, !.shop = y] EXCEPT !.overtaken = FALSE]
    OBVIOUS
  <1>4. r \in Clerk /\ r.op = "edit" /\ r.business = b /\ r.shop = y
    BY <1>2, <1>3, FreeFits DEF Free, Clerk
  <1>5. clerk' = [clerk EXCEPT ![k] = r] /\ Open(b)
    BY <1>1, <1>3 DEF EditRead, Take, CanManageMembers, Owns
  <1>6. ClerkFits(r)
    BY <1>4 DEF ClerkFits
  <1>7. memberCalls' \in 0..MaxMemberCalls
    BY FewerCalls DEF EditRead, Begin
  <1> QED
    BY <1>1, <1>4, <1>5, <1>6, <1>7, ReadKeeps DEF EditRead

LEMMA AddReadKeeps ==
  ASSUME MembersInv, NEW k \in Clerks, NEW u \in Users, NEW b \in Businesses, NEW v \in Users,
         NEW role \in {"manager", "cashier"}, AddRead(k, u, b, v, role)
  PROVE  MembersInv'
  <1>1. PICK y : y = account[v]
    OBVIOUS
  <1>2. y \in Account
    BY <1>1, RowsTypedM DEF MembersInv
  <1>3. PICK r : r = [[Free EXCEPT !.op = "add", !.business = b, !.by = u, !.target = v, !.role = role, !.copy = y]
                      EXCEPT !.overtaken = FALSE]
    OBVIOUS
  <1>4. r \in Clerk /\ r.op = "add" /\ r.business = b /\ r.target = v
    BY <1>2, <1>3, FreeFits DEF Free, Clerk
  <1>5. clerk' = [clerk EXCEPT ![k] = r] /\ Appointable(v)
    BY <1>1, <1>3 DEF AddRead, Take
  <1>6. Claims(v) = {} \/ Lost(v)
    BY <1>5 DEF Appointable, Exists, MembersInv, Ties, OwnerRow
  <1>7. ClerkFits(r)
    BY <1>4, <1>6 DEF ClerkFits
  <1>8. memberCalls' \in 0..MaxMemberCalls
    BY FewerCalls DEF AddRead, Begin
  <1> QED
    BY <1>4, <1>5, <1>7, <1>8, ReadKeeps DEF AddRead

LEMMA AddLookKeeps ==
  ASSUME MembersInv, NEW k \in Clerks, AddLook(k)
  PROVE  MembersInv'
  <1>1. PICK y : y = clerk[k]
    OBVIOUS
  <1>2. y \in Clerk /\ ClerkFits(y) /\ y.op = "add"
    BY <1>1, RowsTypedM DEF MembersInv, AddLook
  <1>3. UNCHANGED <<memberCalls, business, member, account, intended, clobbered>> /\ memberCalls' \in 0..MaxMemberCalls
    BY DEF AddLook, MembersInv, MembersType
  <1>4. CASE EndOf(k)
    BY <1>3, <1>4, GivesUpKeeps
  <1>5. CASE Memberships(y.target) = {} /\ clerk' = [clerk EXCEPT ![k].op = "insert"]
    <2>1. PICK r : r = [y EXCEPT !.op = "insert"]
      OBVIOUS
    <2>2. /\ r \in Clerk /\ r.op = "insert" /\ r.business = y.business /\ r.target = y.target
          /\ r.overtaken = y.overtaken
      BY <1>2, <2>1 DEF Clerk
    <2>3. clerk' = [clerk EXCEPT ![k] = r]
      BY <1>1, <1>5, <2>1
    <2>4. ClerkFits(r)
      BY <1>2, <1>5, <2>2 DEF ClerkFits
    <2> QED
      BY <1>3, <2>2, <2>3, <2>4, ReadKeeps
  <1> QED
    BY <1>1, <1>4, <1>5 DEF AddLook

LEMMA RemoveReadKeeps ==
  ASSUME MembersInv, NEW k \in Clerks, NEW u \in Users, NEW b \in Businesses, NEW v \in Users, RemoveRead(k, u, b, v)
  PROVE  MembersInv'
  <1>1. PICK r : r = [[Free EXCEPT !.op = "remove", !.business = b, !.by = u, !.target = v] EXCEPT !.overtaken = FALSE]
    OBVIOUS
  <1>2. r \in Clerk /\ r.op = "remove" /\ r.business = b /\ r.target = v
    BY <1>1, FreeFits DEF Free, Clerk
  <1>3. clerk' = [clerk EXCEPT ![k] = r]
    BY <1>1 DEF RemoveRead, Take
  <1>4. ClerkFits(r)
    BY <1>2 DEF ClerkFits
  <1>5. memberCalls' \in 0..MaxMemberCalls
    BY FewerCalls DEF RemoveRead, Begin
  <1> QED
    BY <1>2, <1>3, <1>4, <1>5, ReadKeeps DEF RemoveRead

LEMMA UpdateReadKeeps ==
  ASSUME MembersInv, NEW k \in Clerks, NEW u \in Users, NEW b \in Businesses, NEW v \in Users, UpdateRead(k, u, b, v)
  PROVE  MembersInv'
  <1>1. PICK m : m = member[b][v]
    OBVIOUS
  <1>2. m \in Member
    BY <1>1, RowsTypedM DEF MembersInv
  <1>3. PICK row : /\ row \in Member /\ row.state \in {"active", "left"} /\ m.state = "active"
                   /\ Take(k, [Free EXCEPT !.op = "update", !.business = b, !.by = u, !.target = v, !.row = row])
    <2>1. ASSUME NEW role \in {"manager", "cashier"}, NEW state \in {"active", "left"}
          PROVE  LET row == [m EXCEPT !.role = role, !.state = state] IN row \in Member /\ row.state = state
      BY <1>2 DEF Member
    <2>2. LET row == [m EXCEPT !.state = "left"] IN row \in Member /\ row.state = "left"
      BY <1>2 DEF Member
    <2> QED
      BY <1>1, <2>1, <2>2 DEF UpdateRead, MayUpdate
  <1>4. PICK r : r = [[Free EXCEPT !.op = "update", !.business = b, !.by = u, !.target = v, !.row = row]
                      EXCEPT !.overtaken = FALSE]
    OBVIOUS
  <1>5. r \in Clerk /\ r.op = "update" /\ r.business = b /\ r.target = v /\ r.row = row
    BY <1>3, <1>4, FreeFits DEF Free, Clerk
  <1>6. clerk' = [clerk EXCEPT ![k] = r]
    BY <1>3, <1>4 DEF Take
  <1>7. ClerkFits(r)
    BY <1>1, <1>3, <1>5 DEF ClerkFits
  <1>8. memberCalls' \in 0..MaxMemberCalls
    BY FewerCalls DEF UpdateRead, Begin
  <1> QED
    BY <1>5, <1>6, <1>7, <1>8, ReadKeeps DEF UpdateRead

LEMMA UserReadKeeps ==
  ASSUME MembersInv, NEW k \in Clerks, NEW u \in Users, UserRead(k, u)
  PROVE  MembersInv'
  <1>1. PICK y, x : y = account[u] /\ x = intended[u]
    OBVIOUS
  <1>2. y \in Account /\ x \in Account
    BY <1>1, RowsTypedM DEF MembersInv
  <1>3. PICK r : r = [Free EXCEPT !.op = "profile", !.by = u, !.copy = y, !.base = x]
    OBVIOUS
  <1>4. r \in Clerk /\ r.op = "profile" /\ r.by = u /\ r.copy = y /\ r.base = x
    BY <1>2, <1>3, FreeFits DEF Free, Clerk
  <1>5. clerk' = [clerk EXCEPT ![k] = r] /\ Exists(u)
    BY <1>1, <1>3 DEF UserRead
  <1>6. ClerkFits(r)
    <2>1. RoleFits(u)
      BY DEF MembersInv
    <2> QED
      BY <1>1, <1>4, <1>5, <2>1 DEF ClerkFits, Exists, RoleFits
  <1>7. memberCalls' \in 0..MaxMemberCalls
    BY FewerCalls DEF UserRead, Begin
  <1> QED
    BY <1>4, <1>5, <1>6, <1>7, ReadKeeps DEF UserRead
-----------------------------------------------------------------------------
(* The writes. *)

\* A copy that is written back takes the role of an owner only if another
\* operation has set the role since it was read.
LEMMA WriteBackRows ==
  ASSUME MembersInv, NEW u \in Users, NEW f \in Account, NEW aim \in Account, NEW since \in Account,
         WriteBack(u, f, aim, since), f.state = "live",
         aim.role = intended[u].role \/ f.role = "owner",
         f.role = since.role \/ Lost(u)
  PROVE  AccountsType' /\ RolesKept /\ account'[u] = f
  <1> DEFINE stale == {k \in Fields : aim[k] # since[k]}
  <1>1. stale \subseteq Fields /\ ("role" \in stale <=> aim.role # since.role)
    BY DEF Fields
  <1>2. /\ account' = [account EXCEPT ![u] = f] /\ intended' = [intended EXCEPT ![u] = aim]
        /\ clobbered' = [clobbered EXCEPT ![u] = clobbered[u] \cup stale]
    BY DEF WriteBack
  <1> HIDE DEF stale
  <1>3. AccountsType
    BY DEF MembersInv, MembersType
  <1>4. /\ AccountsType' /\ account'[u] = f /\ intended'[u] = aim /\ clobbered'[u] = clobbered[u] \cup stale
        /\ \A v \in Users \ {u} : /\ account'[v] = account[v] /\ intended'[v] = intended[v]
                                  /\ clobbered'[v] = clobbered[v]
    BY <1>1, <1>2, <1>3 DEF AccountsType
  <1>5. Lost(u)' <=> Lost(u) \/ aim.role # since.role
    BY <1>1, <1>4 DEF Lost
  <1>6. RoleFits(u)
    BY DEF MembersInv
  <1>7. RoleFits(u)'
    BY <1>4, <1>5 DEF RoleFits
  <1>8. OwnerRow(u) => OwnerRow(u)' \/ Lost(u)'
    BY <1>4, <1>5, <1>6 DEF OwnerRow, RoleFits
  <1>9. ASSUME NEW v \in Users
        PROVE  /\ Lost(v) => Lost(v)'
               /\ OwnerRow(v) => OwnerRow(v)' \/ Lost(v)'
               /\ RoleFits(v)'
    <2>1. CASE v = u
      BY <1>5, <1>7, <1>8, <2>1
    <2>2. CASE v # u
      <3>1. RoleFits(v)
        BY DEF MembersInv
      <3> QED
        BY <1>4, <2>2, <3>1 DEF Lost, OwnerRow, RoleFits
    <2> QED
      BY <2>1, <2>2
  <1> QED
    BY <1>4, <1>9 DEF RolesKept

LEMMA CreateRow ==
  ASSUME MembersInv, NEW u \in Users, NEW x \in Account, CreateAccount(u, x)
  PROVE  AccountsType' /\ RolesKept
  <1>1. AccountsType'
    BY DEF CreateAccount, AccountsType, MembersInv, MembersType
  <1>2. RolesKept
    BY DEF CreateAccount, Exists, AccountsType, MembersInv, MembersType, RolesKept, OwnerRow, RoleFits, Lost
  <1> QED
    BY <1>1, <1>2

LEMMA CreateWriteKeeps ==
  ASSUME MembersInv, NEW k \in Clerks, CreateWrite(k)
  PROVE  MembersInv'
  <1>1. PICK y : y = clerk[k]
    OBVIOUS
  <1>2. PICK u, b, x : /\ u = y.target /\ b = y.business
                       /\ x = [state |-> "live", owner |-> u, active |-> TRUE, late |-> y.overtaken]
    OBVIOUS
  <1>3. /\ y \in Clerk /\ y.copy \in Account /\ y.base \in Account /\ y.overtaken \in BOOLEAN
        /\ ClerkFits(y) /\ y.op = "create" /\ u \in Users /\ b \in Businesses
    <2>1. /\ y \in Clerk /\ y.copy \in Account /\ y.base \in Account /\ y.overtaken \in BOOLEAN
          /\ ClerkFits(y) /\ y.op = "create"
      BY <1>1, RowsTypedM DEF MembersInv, CreateWrite
    <2> QED
      BY <1>2, <2>1 DEF ClerkFits
  <1>4. /\ business[b].state = "none" /\ business' = [business EXCEPT ![b] = x] /\ EndChanging(k, u)
        /\ UNCHANGED <<member, memberCalls>>
    BY <1>1, <1>2 DEF CreateWrite
  <1>5. x \in Business /\ x.owner = u /\ x.late = y.overtaken
    BY <1>2, <1>3 DEF Business
  <1>6. /\ business' \in [Businesses -> Business] /\ business'[b] = x
        /\ \A c \in Businesses \ {b} : business'[c] = business[c]
    BY <1>3, <1>4, <1>5 DEF MembersInv, MembersType
  <1>7. /\ AccountsType' /\ RolesKept
        /\ y.copy.role # "owner" => OwnerRow(u)'
        /\ y.copy.role = "owner" => OwnerRow(u)' \/ Lost(u)'
    <2>1. CASE y.copy.role = "owner"
      <3>1. UNCHANGED <<account, intended, clobbered>>
        BY <1>1, <2>1 DEF CreateWrite, accountVars
      <3>2. OwnerRow(u) \/ Lost(u)
        BY <1>2, <1>3, <2>1 DEF ClerkFits
      <3> QED
        BY <2>1, <3>1, <3>2, SameRows DEF AccountsType, MembersInv, MembersType, OwnerRow, Lost
    <2>2. CASE y.copy.role # "owner"
      <3>1. PICK f, aim, since : /\ f = MadeOwner(y.copy) /\ aim = MadeOwner(intended[u])
                                 /\ since = MadeOwner(y.base)
        OBVIOUS
      <3>2. /\ f \in Account /\ f.state = "live" /\ f.role = "owner" /\ aim \in Account
            /\ since \in Account /\ since.role = "owner"
        <4>1. ASSUME NEW a \in Account
              PROVE  MadeOwner(a) \in Account /\ MadeOwner(a).role = "owner" /\ MadeOwner(a).state = a.state
          BY DEF Account, Roles, MadeOwner
        <4>2. intended[u] \in Account /\ y.copy.state = "live"
          BY <1>3, RowsTypedM DEF MembersInv, ClerkFits
        <4> QED
          BY <1>3, <3>1, <4>1, <4>2
      <3>3. WriteBack(u, f, aim, since)
        BY <1>1, <1>2, <2>2, <3>1 DEF CreateWrite
      <3>4. AccountsType' /\ RolesKept /\ account'[u] = f
        BY <1>3, <3>2, <3>3, WriteBackRows
      <3> QED
        BY <2>2, <3>2, <3>4 DEF OwnerRow
    <2> QED
      BY <2>1, <2>2
  <1>14. NobodyEdits
    BY <1>4, ChangingWaits, FreeFits DEF NobodyEdits
  <1>8. \A v \in Users \ {u} : Fewer(v)
    <2>1. \A v \in Users \ {u} : Founded(v)' \subseteq Claims(v)
      BY <1>5, <1>6 DEF Founded, Claims, Owns, Open
    <2> QED
      BY <1>4, <1>14, <2>1, FewerClaims DEF Fewer
  <1>9. Ties(u)'
    <2>1. Timely(u)' = Timely(u) /\ (~y.overtaken => Timely(u) = {})
      BY <1>2, <1>3, <1>4 DEF Timely, Memberships, ClerkFits
    <2>2. y.overtaken => Claims(u)' \subseteq Claims(u)
      <3>1. y.overtaken => Founded(u)' \subseteq Claims(u)
        BY <1>5, <1>6 DEF Founded, Claims, Owns, Open
      <3> QED
        BY <1>14, <3>1, FewerClaims
    <2>3. Ties(u) /\ (Lost(u) => Lost(u)')
      BY <1>3, <1>7 DEF MembersInv, RolesKept
    <2>4. Timely(u)' # {} /\ Claims(u)' # {} => Lost(u)'
      BY <2>1, <2>2, <2>3 DEF Ties
    <2>5. /\ \A c, d \in Timely(u)' : c = d
          /\ \A c \in Timely(u)' : ~member'[c][u].removed
      BY <1>4, <2>1, <2>3 DEF Ties
    <2> QED
      BY <1>7, <2>4, <2>5 DEF Ties
  <1>10. /\ clerk' \in [Clerks -> Clerk] /\ clerk'[k] = Free
         /\ \A j \in Clerks \ {k} : Waits(j) /\ (clerk[j].target = u => clerk'[j].overtaken)
    BY <1>4, ChangingWaits
  <1>11. MembersType'
    BY <1>4, <1>6, <1>7, <1>10 DEF MembersInv, MembersType
  <1>12. \A j \in Clerks : ClerkFits(clerk[j])' \/ (Waits(j) /\ (clerk[j].target \in {u} => clerk'[j].overtaken))
    BY <1>10, FreeRelies
  <1>13. {u} \in SUBSET Users /\ \A v \in {u} : Ties(v)'
    BY <1>3, <1>9
  <1> QED
    BY <1>7, <1>8, <1>11, <1>12, <1>13, WriteKeeps

\* Nothing but is_active changes in the row of a business.
LEMMA ShopKeeps ==
  ASSUME MembersInv, NEW b \in Businesses, NEW x \in BOOLEAN, business' = [business EXCEPT ![b].active = x],
         UNCHANGED <<member, memberCalls, account, intended, clobbered>>,
         UNCHANGED clerk \/ \E k \in Clerks : EndOf(k)
  PROVE  MembersInv'
  <1>1. /\ business' \in [Businesses -> Business]
        /\ \A c \in Businesses : business'[c].state = business[c].state /\ business'[c].owner = business[c].owner
                                 /\ business'[c].late = business[c].late
    <2>1. business[b] \in Business
      BY RowsTypedM DEF MembersInv
    <2> QED
      BY <2>1 DEF MembersInv, MembersType, Business
  <1>3. /\ clerk' \in [Clerks -> Clerk] /\ NobodyEdits
        /\ \A j \in Clerks : ClerkFits(clerk[j])' \/ Waits(j)
    <2>1. CASE UNCHANGED clerk
      BY <2>1 DEF MembersInv, MembersType, Waits, NobodyEdits
    <2>2. CASE \E k \in Clerks : EndOf(k)
      <3>1. PICK k \in Clerks : clerk' = [clerk EXCEPT ![k] = Free]
        BY <2>2 DEF EndOf
      <3> QED
        BY <3>1, FreeFits, FreeRelies, EndWaits DEF NobodyEdits
    <2> QED
      BY <2>1, <2>2
  <1>2. RolesKept /\ \A u \in Users : Fewer(u)
    <2>1. \A u \in Users : Founded(u)' \subseteq Claims(u)
      BY <1>1 DEF Founded, Claims, Owns, Open
    <2> QED
      BY <1>3, <2>1, SameRows, FewerClaims DEF Fewer
  <1>4. MembersType'
    BY <1>1, <1>3 DEF MembersInv, MembersType, AccountsType
  <1> QED
    BY <1>2, <1>3, <1>4, FewerKeeps

LEMMA EditWriteKeeps ==
  ASSUME MembersInv, NEW k \in Clerks, EditWrite(k)
  PROVE  MembersInv'
  <1>1. PICK y, b, x : y = clerk[k] /\ b = y.business /\ x = y.shop.active
    OBVIOUS
  <1>2. y.op = "edit" /\ EndOf(k) /\ UNCHANGED <<member, memberCalls, account, intended, clobbered>>
    BY <1>1 DEF EditWrite
  <1>3. b \in Businesses /\ x \in BOOLEAN
    <2>1. ClerkFits(y) /\ y.shop \in Business
      BY <1>1, RowsTypedM DEF MembersInv
    <2> QED
      BY <1>1, <1>2, <2>1 DEF ClerkFits, Business
  <1>4. CASE Open(b)
    BY <1>1, <1>2, <1>3, <1>4, ShopKeeps DEF EditWrite
  <1>5. CASE ~Open(b)
    <2>1. PICK row : row \in {business[b], y.shop} /\ business' = [business EXCEPT ![b] = row]
      BY <1>1, <1>5 DEF EditWrite
    <2>2. row \in Business
      BY <1>1, <1>3, <2>1, RowsTypedM DEF MembersInv
    <2>3. business' \in [Businesses -> Business] /\ business'[b] = row
          /\ \A c \in Businesses \ {b} : business'[c] = business[c]
      BY <1>3, <2>1, <2>2 DEF MembersInv, MembersType
    <2>4. clerk' \in [Clerks -> Clerk] /\ NobodyEdits /\ \A j \in Clerks : ClerkFits(clerk[j])' \/ Waits(j)
      BY <1>2, EndWaits, FreeFits, FreeRelies DEF EndOf, NobodyEdits
    <2>5. \A v \in Users : Founded(v)' \subseteq Claims(v)
      BY <1>1, <1>2, <2>1, <2>3 DEF Founded, Claims, Owns, Open
    <2>6. RolesKept /\ \A v \in Users : Fewer(v)
      BY <1>2, <2>4, <2>5, SameRows, FewerClaims DEF Fewer
    <2>7. MembersType'
      BY <1>2, <2>3, <2>4 DEF MembersInv, MembersType, AccountsType
    <2> QED
      BY <2>4, <2>6, <2>7, FewerKeeps
  <1> QED
    BY <1>4, <1>5

LEMMA DeleteBusinessKeeps ==
  ASSUME MembersInv, NEW u \in Users, NEW b \in Businesses, DeleteBusiness(u, b)
  PROVE  MembersInv'
  <1>1. /\ business' = [business EXCEPT ![b] = NoBusinessRow]
        /\ member' = [member EXCEPT ![b] = [v \in Users |-> NoMember]]
        /\ UNCHANGED <<clerk, account, intended, clobbered>> /\ memberCalls' \in 0..MaxMemberCalls
    BY FewerCalls DEF DeleteBusiness
  <1>2. business' \in [Businesses -> Business] /\ member' \in [Businesses -> [Users -> Member]]
    BY <1>1, FreeFits DEF MembersInv, MembersType
  <1>3. /\ business'[b] = NoBusinessRow /\ \A v \in Users : member'[b][v] = NoMember
        /\ \A c \in Businesses \ {b} : business'[c] = business[c] /\ member'[c] = member[c]
    BY <1>1 DEF MembersInv, MembersType
  <1>5. RolesKept /\ \A j \in Clerks : Waits(j)
    BY <1>1, SameRows DEF Waits
  <1>4. \A v \in Users : Fewer(v)
    <2>1. \A v \in Users : Founded(v)' \subseteq Claims(v)
      BY <1>3 DEF Founded, Claims, Owns, Open, NoBusinessRow
    <2> QED
      BY <1>3, <1>5, <2>1, FewerClaims DEF Fewer, NobodyEdits
  <1>6. MembersType'
    BY <1>1, <1>2 DEF MembersInv, MembersType, AccountsType
  <1> QED
    BY <1>4, <1>5, <1>6, FewerKeeps

\* One row of a member changes; the others on the same user are told.
LEMMA TieWritten ==
  ASSUME MembersInv, NEW k \in Clerks, NEW b \in Businesses, NEW v \in Users, NEW m \in Member,
         member' = [member EXCEPT ![b][v] = m], EndChanging(k, v), UNCHANGED <<business, memberCalls>>,
         AccountsType', RolesKept,
         m.state = "active" /\ ~m.late =>
            /\ ~m.removed
            /\ Timely(v) \subseteq {b}
            /\ Claims(v) # {} => Lost(v)
  PROVE  MembersInv'
  <1>1. /\ member' \in [Businesses -> [Users -> Member]] /\ member'[b][v] = m
        /\ \A c \in Businesses, u \in Users : c # b \/ u # v => member'[c][u] = member[c][u]
    BY DEF MembersInv, MembersType
  <1>8. \A u \in Users : Claims(u)' \subseteq Claims(u)
    <2>1. NobodyEdits
      BY ChangingWaits, FreeFits DEF NobodyEdits
    <2>2. \A u \in Users : Founded(u)' \subseteq Claims(u)
      BY DEF Founded, Claims, Owns, Open
    <2> QED
      BY <2>1, <2>2, FewerClaims
  <1>2. \A u \in Users \ {v} : Fewer(u)
    BY <1>1, <1>8 DEF Fewer
  <1>3. Ties(v)'
    <2>1. /\ Timely(v)' \subseteq Timely(v) \cup {b}
          /\ b \in Timely(v)' => m.state = "active" /\ ~m.late
          /\ \A c \in Timely(v)' \ {b} : c \in Timely(v) /\ member'[c][v] = member[c][v]
      BY <1>1 DEF Timely, Memberships
    <2>2. Claims(v)' \subseteq Claims(v) /\ Ties(v)
      BY <1>8 DEF MembersInv
    <2>3. \A c, d \in Timely(v)' : c = d
      BY <2>1, <2>2 DEF Ties
    <2>4. \A c \in Timely(v)' : ~member'[c][v].removed
      BY <1>1, <2>1, <2>2 DEF Ties
    <2>5. (Lost(v) => Lost(v)') /\ (OwnerRow(v) => OwnerRow(v)' \/ Lost(v)')
      BY DEF RolesKept
    <2>6. /\ Timely(v)' # {} /\ Claims(v)' # {} => Lost(v)'
          /\ Claims(v)' # {} /\ ~Lost(v)' => OwnerRow(v)'
      BY <2>1, <2>2, <2>5 DEF Ties
    <2> QED
      BY <2>3, <2>4, <2>6 DEF Ties
  <1>4. /\ clerk' \in [Clerks -> Clerk] /\ clerk'[k] = Free
        /\ \A j \in Clerks \ {k} : Waits(j) /\ (clerk[j].target = v => clerk'[j].overtaken)
    BY ChangingWaits
  <1>5. MembersType'
    BY <1>1, <1>4 DEF MembersInv, MembersType
  <1>6. \A j \in Clerks : ClerkFits(clerk[j])' \/ (Waits(j) /\ (clerk[j].target \in {v} => clerk'[j].overtaken))
    BY <1>4, FreeRelies
  <1>7. {v} \in SUBSET Users /\ \A u \in {v} : Ties(u)'
    BY <1>3
  <1> QED
    BY <1>2, <1>5, <1>6, <1>7, WriteKeeps

\* The row to be changed is gone.
LEMMA NoTieWritten ==
  ASSUME MembersInv, NEW k \in Clerks, NEW v, EndChanging(k, v),
         UNCHANGED <<business, member, memberCalls, account, intended, clobbered>>
  PROVE  MembersInv'
  <1>2. clerk' \in [Clerks -> Clerk] /\ NobodyEdits /\ \A j \in Clerks : ClerkFits(clerk[j])' \/ Waits(j)
    BY ChangingWaits, FreeRelies, FreeFits DEF NobodyEdits
  <1>1. RolesKept /\ \A u \in Users : Fewer(u)
    BY <1>2, SameTies, SameRows
  <1>3. MembersType'
    BY <1>2 DEF MembersInv, MembersType, AccountsType
  <1> QED
    BY <1>1, <1>2, <1>3, FewerKeeps

LEMMA AddWriteKeeps ==
  ASSUME MembersInv, NEW k \in Clerks, AddWrite(k)
  PROVE  MembersInv'
  <1>1. PICK y : y = clerk[k]
    OBVIOUS
  <1>2. PICK b, v, new : b = y.business /\ v = y.target /\ new = (y.copy.state = "none")
    OBVIOUS
  <1>3. /\ y \in Clerk /\ y.role \in {"manager", "cashier"} /\ y.overtaken \in BOOLEAN /\ ClerkFits(y)
        /\ y.op = "insert" /\ b \in Businesses /\ v \in Users
    <2>1. y \in Clerk /\ y.role \in {"manager", "cashier"} /\ y.overtaken \in BOOLEAN /\ ClerkFits(y) /\ y.op = "insert"
      BY <1>1, RowsTypedM DEF MembersInv, AddWrite
    <2> QED
      BY <1>2, <2>1 DEF ClerkFits
  <1>4. UNCHANGED <<business, memberCalls>>
    BY DEF AddWrite
  <1>5. CASE Open(b) /\ member[b][v].state = "none" /\ (new => ~Exists(v))
    <2>1. PICK m : m = [NoMember EXCEPT !.state = "active", !.role = y.role, !.late = y.overtaken]
      OBVIOUS
    <2>2. m \in Member /\ m.late = y.overtaken /\ ~m.removed
      BY <1>3, <2>1 DEF NoMember, Member
    <2>3. member' = [member EXCEPT ![b][v] = m] /\ EndChanging(k, v)
      BY <1>1, <1>2, <1>5, <2>1 DEF AddWrite
    <2>4. AccountsType' /\ RolesKept
      <3>1. CASE new
        <4>1. PICK x : x = [NoAccount EXCEPT !.state = "live", !.active = TRUE, !.verified = TRUE]
          OBVIOUS
        <4>2. x \in Account
          BY <4>1 DEF NoAccount, Account, Roles
        <4>3. CreateAccount(v, x)
          BY <1>1, <1>2, <1>5, <3>1, <4>1 DEF AddWrite
        <4> QED
          BY <1>3, <4>2, <4>3, CreateRow
      <3>2. CASE ~new
        <4>1. UNCHANGED <<account, intended, clobbered>>
          BY <1>1, <1>2, <1>5, <3>2 DEF AddWrite, accountVars
        <4> QED
          BY <4>1, SameRows DEF MembersInv, MembersType, AccountsType
      <3> QED
        BY <3>1, <3>2
    <2>5. ~y.overtaken => Timely(v) = {} /\ (Claims(v) # {} => Lost(v))
      BY <1>2, <1>3 DEF ClerkFits, Timely
    <2> QED
      BY <1>3, <1>4, <2>2, <2>3, <2>4, <2>5, TieWritten
  <1>6. CASE ~(Open(b) /\ member[b][v].state = "none" /\ (new => ~Exists(v)))
    BY <1>1, <1>2, <1>4, <1>6, GivesUpKeeps DEF AddWrite
  <1> QED
    BY <1>5, <1>6

LEMMA RemoveWriteKeeps ==
  ASSUME MembersInv, NEW k \in Clerks, RemoveWrite(k)
  PROVE  MembersInv'
  <1>1. PICK y : y = clerk[k]
    OBVIOUS
  <1>2. PICK b, v : b = y.business /\ v = y.target
    OBVIOUS
  <1>3. y.op = "remove" /\ b \in Businesses /\ v \in Users
    BY <1>1, <1>2 DEF MembersInv, RemoveWrite, ClerkFits
  <1>4. EndChanging(k, v) /\ UNCHANGED <<business, memberCalls, account, intended, clobbered>>
    BY <1>1, <1>2 DEF RemoveWrite
  <1>5. CASE member[b][v].state = "none"
    BY <1>1, <1>2, <1>4, <1>5, NoTieWritten DEF RemoveWrite
  <1>6. CASE member[b][v].state # "none"
    <2>1. PICK m : m = [member[b][v] EXCEPT !.state = "left", !.removed = TRUE]
      OBVIOUS
    <2>2. m \in Member /\ m.state = "left"
      BY <1>3, <2>1, RowsTypedM DEF MembersInv, Member
    <2>3. member' = [member EXCEPT ![b][v] = m]
      <3>1. member' = [member EXCEPT ![b][v].state = "left", ![b][v].removed = TRUE]
        BY <1>1, <1>2, <1>6 DEF RemoveWrite
      <3> QED
        BY <1>3, <2>1, <3>1, RowsTypedM DEF MembersInv, MembersType, Member
    <2>4. AccountsType' /\ RolesKept
      BY <1>4, SameRows DEF MembersInv, MembersType, AccountsType
    <2> QED
      BY <1>3, <1>4, <2>2, <2>3, <2>4, TieWritten
  <1> QED
    BY <1>5, <1>6

LEMMA UpdateWriteKeeps ==
  ASSUME MembersInv, NEW k \in Clerks, UpdateWrite(k)
  PROVE  MembersInv'
  <1>1. PICK y : y = clerk[k]
    OBVIOUS
  <1>2. PICK b, v, n, row : b = y.business /\ v = y.target /\ n = member[b][v] /\ row = y.row
    OBVIOUS
  <1>3. /\ y.overtaken \in BOOLEAN /\ row \in Member /\ ClerkFits(y) /\ y.op = "update"
        /\ b \in Businesses /\ v \in Users /\ n \in Member
    <2>1. y.overtaken \in BOOLEAN /\ row \in Member /\ ClerkFits(y) /\ y.op = "update"
      BY <1>1, <1>2, RowsTypedM DEF MembersInv, UpdateWrite
    <2>2. b \in Businesses /\ v \in Users
      BY <1>2, <2>1 DEF ClerkFits
    <2> QED
      BY <1>2, <2>1, <2>2, RowsTypedM DEF MembersInv
  <1>4. EndChanging(k, v) /\ UNCHANGED <<business, memberCalls, account, intended, clobbered>>
    BY <1>1, <1>2 DEF UpdateWrite
  <1>5. CASE n.state = "none"
    BY <1>1, <1>2, <1>4, <1>5, NoTieWritten DEF UpdateWrite
  <1>6. CASE n.state # "none"
    <2>1. PICK m : m = [row EXCEPT !.removed = n.removed \/ row.state = "left", !.late = n.late \/ y.overtaken]
      OBVIOUS
    <2>2. m \in Member /\ m.state = row.state
      BY <1>3, <2>1 DEF Member
    <2>3. /\ m.late <=> (n.late \/ y.overtaken)
          /\ m.removed <=> (n.removed \/ row.state = "left")
      BY <1>3, <2>1 DEF Member
    <2>4. member' = [member EXCEPT ![b][v] = m]
      BY <1>1, <1>2, <1>6, <2>1 DEF UpdateWrite
    <2>5. AccountsType' /\ RolesKept
      BY <1>4, SameRows DEF MembersInv, MembersType, AccountsType
    <2>6. ASSUME m.state = "active", ~m.late
          PROVE  ~m.removed /\ Timely(v) \subseteq {b} /\ (Claims(v) # {} => Lost(v))
      <3>1. ~n.late /\ ~y.overtaken /\ n.state = "active"
        BY <1>2, <1>3, <1>6, <2>3, <2>6 DEF ClerkFits
      <3>2. b \in Timely(v)
        BY <1>2, <1>3, <3>1 DEF Timely, Memberships
      <3>3. Ties(v)
        BY <1>3 DEF MembersInv
      <3> QED
        BY <1>2, <2>2, <2>3, <2>6, <3>2, <3>3 DEF Ties
    <2> QED
      BY <1>3, <1>4, <2>2, <2>4, <2>5, <2>6, TieWritten
  <1> QED
    BY <1>5, <1>6

LEMMA JoinKeeps ==
  ASSUME MembersInv, NEW u \in Users, Join(u)
  PROVE  MembersInv'
  <1>1. PICK x : x = [NoAccount EXCEPT !.state = "live", !.active = TRUE, !.verified = TRUE]
    OBVIOUS
  <1>2. x \in Account
    BY <1>1 DEF NoAccount, Account, Roles
  <1>3. CreateAccount(u, x) /\ UNCHANGED <<business, member, clerk>> /\ memberCalls' \in 0..MaxMemberCalls
    BY <1>1, FewerCalls DEF Join
  <1>4. AccountsType' /\ RolesKept
    BY <1>2, <1>3, CreateRow
  <1>5. (\A v \in Users : Fewer(v)) /\ \A j \in Clerks : Waits(j)
    BY <1>3, SameTies DEF Waits, NobodyEdits
  <1>6. MembersType'
    BY <1>3, <1>4 DEF MembersInv, MembersType
  <1> QED
    BY <1>4, <1>5, <1>6, FewerKeeps

LEMMA UserWriteKeeps ==
  ASSUME MembersInv, NEW k \in Clerks, UserWrite(k)
  PROVE  MembersInv'
  <1>1. PICK y : y = clerk[k]
    OBVIOUS
  <1>2. PICK u, c, base : u = y.by /\ c = y.copy /\ base = y.base
    OBVIOUS
  <1>3. /\ u \in Users /\ c \in Account /\ base \in Account /\ c.state = "live"
        /\ c.role = base.role \/ Lost(u)
    <2>1. y.op = "profile" /\ ClerkFits(y) /\ c \in Account /\ base \in Account
      BY <1>1, <1>2, RowsTypedM DEF MembersInv, UserWrite
    <2> QED
      BY <1>2, <2>1 DEF ClerkFits
  <1>4. WriteBack(u, c, intended[u], base) /\ EndOf(k) /\ UNCHANGED <<business, member, memberCalls>>
    BY <1>1, <1>2 DEF UserWrite
  <1>5. AccountsType' /\ RolesKept
    <2>1. intended[u] \in Account
      BY <1>3, RowsTypedM DEF MembersInv
    <2> QED
      BY <1>3, <1>4, <2>1, WriteBackRows
  <1>6. clerk' \in [Clerks -> Clerk] /\ NobodyEdits /\ \A j \in Clerks : ClerkFits(clerk[j])' \/ Waits(j)
    BY <1>4, EndWaits, FreeFits, FreeRelies DEF EndOf, NobodyEdits
  <1>7. MembersType'
    BY <1>4, <1>5, <1>6 DEF MembersInv, MembersType
  <1> QED
    BY <1>4, <1>5, <1>6, <1>7, SameTies, FewerKeeps
-----------------------------------------------------------------------------
LEMMA MembersInvInit == MembersInit => MembersInv
  <1> SUFFICES ASSUME MembersInit
               PROVE  MembersInv
    OBVIOUS
  <1>1. MembersType
    BY FreeFits, MembersConstants DEF MembersInit, AccountsInit, MembersType, AccountsType, Fields
  <1>2. ASSUME NEW u \in Users
        PROVE  Ties(u) /\ RoleFits(u)
    <2>1. Timely(u) = {} /\ Founded(u) = {}
      BY DEF MembersInit, Timely, Memberships, Founded, Owns, Open, NoMember, NoBusinessRow
    <2>2. Claims(u) = {}
      BY <2>1, FreeFits DEF Claims, MembersInit
    <2> QED
      BY <2>1, <2>2 DEF Ties, RoleFits, MembersInit, AccountsInit
  <1>3. \A k \in Clerks : ClerkFits(clerk[k])
    BY FreeRelies DEF MembersInit
  <1> QED
    BY <1>1, <1>2, <1>3 DEF MembersInv

LEMMA MembersInvStep == MembersInv /\ [MembersNext]_memberVars => MembersInv'
  <1> SUFFICES ASSUME MembersInv, [MembersNext]_memberVars
               PROVE  MembersInv'
    OBVIOUS
  <1>1. ASSUME NEW k \in Clerks, create_business(k) \/ update_business(k)
        PROVE  MembersInv'
    BY <1>1, CreateReadKeeps, CreateWriteKeeps, EditReadKeeps, EditWriteKeeps
       DEF create_business, update_business
  <1>2. ASSUME NEW k \in Clerks, add_member(k)
        PROVE  MembersInv'
    BY <1>2, AddReadKeeps, AddLookKeeps, AddWriteKeeps DEF add_member
  <1>3. ASSUME NEW k \in Clerks, remove_member(k) \/ update_member(k)
        PROVE  MembersInv'
    BY <1>3, RemoveReadKeeps, RemoveWriteKeeps, UpdateReadKeeps, UpdateWriteKeeps
       DEF remove_member, update_member
  <1>4. ASSUME NEW k \in Clerks, (\E u \in Users : UserRead(k, u)) \/ UserWrite(k) \/ Quit(k)
        PROVE  MembersInv'
    BY <1>4, UserReadKeeps, UserWriteKeeps, GivesUpKeeps DEF Quit
  <1>5. CASE destroy_business \/ \E u \in Users : Join(u)
    BY <1>5, DeleteBusinessKeeps, JoinKeeps DEF destroy_business
  <1>6. ASSUME NEW b \in Businesses, Suspend(b)
        PROVE  MembersInv'
    <2>1. /\ business' = [business EXCEPT ![b].active = FALSE]
          /\ UNCHANGED <<member, clerk, memberCalls, account, intended, clobbered>>
      BY <1>6 DEF Suspend
    <2> QED
      BY <2>1, ShopKeeps
  <1>7. CASE UNCHANGED memberVars
    <2>1. UNCHANGED <<business, member, clerk, memberCalls, account, intended, clobbered>>
      BY <1>7 DEF memberVars
    <2>2. RolesKept /\ (\A u \in Users : Fewer(u)) /\ \A j \in Clerks : Waits(j)
      BY <2>1, SameTies, SameRows DEF Waits, NobodyEdits
    <2>3. MembersType'
      BY <2>1 DEF MembersInv, MembersType, AccountsType
    <2> QED
      BY <2>2, <2>3, FewerKeeps
  <1> QED
    BY <1>1, <1>2, <1>3, <1>4, <1>5, <1>6, <1>7 DEF MembersNext

LEMMA TiesAreOne == MembersInv => OneBusinessEach
  <1> SUFFICES ASSUME MembersInv, NEW u \in Users
               PROVE  /\ Cardinality(Timely(u)) <= 1
                      /\ (Timely(u) # {} /\ Claims(u) # {}) => Lost(u)
                      /\ \A b \in Timely(u) : ~member[b][u].removed
    BY DEF OneBusinessEach, Claims, Lost
  <1>1. Ties(u)
    BY DEF MembersInv
  <1>2. Cardinality(Timely(u)) <= 1
    <2>1. CASE Timely(u) = {}
      BY <2>1, FS_EmptySet
    <2>2. CASE Timely(u) # {}
      <3>1. PICK b : Timely(u) = {b}
        BY <1>1, <2>2 DEF Ties
      <3> QED
        BY <3>1, FS_Singleton
    <2> QED
      BY <2>1, <2>2
  <1> QED
    BY <1>1, <1>2 DEF Ties

LEMMA MembersInvariant == MembersSpec => []MembersInv
  <1>1. MembersInit => MembersInv
    BY MembersInvInit
  <1>2. MembersInv /\ [MembersNext]_memberVars => MembersInv'
    BY MembersInvStep
  <1> QED
    BY <1>1, <1>2, PTL DEF MembersSpec

\* A user has one membership, or the businesses he owns, and a removed member
\* stays removed, unless a request wrote after what it had read changed
\* (business_use_cases.py:542).
THEOREM OneBusinessForAUser == MembersSpec => []OneBusinessEach
  <1>1. MembersInv => OneBusinessEach
    BY TiesAreOne
  <1> QED
    BY <1>1, MembersInvariant, PTL
-----------------------------------------------------------------------------
(* The four parts of the office side by side. *)

\* What is proved of members, of salaries and expenses, of the catalogue and of
\* the dashboard holds of the four together: no step of one touches what another
\* keeps.
THEOREM OfficeParts == Spec => MembersSpec /\ FinanceSpec /\ CatalogueSpec /\ DashboardSpec
  <1>1. Init => MembersInit /\ FinanceInit /\ CatalogueInit /\ DashboardInit
    BY DEF Init
  <1>2. [Next]_<<part, memberVars, financeVars, catalogueVars, dashboardVars>> =>
          /\ [MembersNext]_memberVars /\ [FinanceNext]_financeVars
          /\ [CatalogueNext]_catalogueVars /\ [DashboardNext]_dashboardVars
    BY DEF Next, memberVars, financeVars, catalogueVars, dashboardVars
  <1> QED
    BY <1>1, <1>2, PTL DEF Spec, MembersSpec, FinanceSpec, CatalogueSpec, DashboardSpec

\* Businesses, members, salaries, expenses, the catalogue, invoices and the
\* requests at work on them have the types of their tables and DTOs at all times
\* (business_models.py, finance_models.py, inventory_models.py).
THEOREM OfficeTypeCorrect == Spec => []TypeOK
  <1>1. MembersInv /\ FinanceInv /\ CatalogueInv /\ DashboardInv => TypeOK
    BY DEF TypeOK, MembersInv, FinanceInv, CatalogueInv, DashboardInv
  <1> QED
    BY <1>1, OfficeParts, MembersInvariant, FinanceInvariant, CatalogueInvariant, DashboardInvariant, PTL
=============================================================================
