----------------------------- MODULE Catalogue ------------------------------
(***************************************************************************)
(* The categories, subcategories and products of a business, as far as     *)
(* their names and places go (application/use_cases/                       *)
(* inventory_use_cases.py, infrastructure/persistence/models/              *)
(* inventory_models.py); module Stock has the quantities.                  *)
(*                                                                         *)
(* A request checks names and places, then writes, without a transaction;  *)
(* the foreign keys and the unique constraints of the tables decide what   *)
(* it finds when it writes.  An update fetches the row once more and saves *)
(* it whole: a row deleted before that is not found, one deleted between   *)
(* the two is inserted again, if the constraints admit it                  *)
(* (inventory_repositories.py:73).                                         *)
(***************************************************************************)
EXTENDS Integers, FiniteSets

CONSTANTS Categories, NoCategory,  \* rows of each table; each is made once
          Subcategories, NoSubcategory,
          Goods, NoGood,           \* products
          Names,
          Editors,                 \* requests being served at the same time
          MaxEdits                 \* bound: requests in a behaviour

ASSUME CatalogueConstants ==
    /\ NoCategory \notin Categories /\ NoSubcategory \notin Subcategories /\ NoGood \notin Goods
    /\ MaxEdits \in Nat /\ Names # {}

VARIABLES category, subcategory, good,  \* the rows
          editor,  \* editor[e]: where a request is, and the row it will write
          edits    \* requests that may still come

catalogueVars == <<category, subcategory, good, editor, edits>>

AName == CHOOSE n \in Names : TRUE
Category == [state : {"none", "live", "gone"}, name : Names]
Subcategory == [state : {"none", "live", "gone"}, name : Names, category : Categories \cup {NoCategory}]
Good == [state : {"none", "live", "gone"}, name : Names, category : Categories \cup {NoCategory},
         subcategory : Subcategories \cup {NoSubcategory}]
NoCategoryRow == [state |-> "none", name |-> AName]
NoSubcategoryRow == [state |-> "none", name |-> AName, category |-> NoCategory]
NoGoodRow == [state |-> "none", name |-> AName, category |-> NoCategory, subcategory |-> NoSubcategory]

Away == [op |-> "none", category |-> NoCategory, subcategory |-> NoSubcategory, good |-> NoGood,
         name |-> AName, row |-> NoGoodRow]
Editor == [op : {"none", "category", "newsubcategory", "subcategory", "newgood", "good"},
           category : Categories \cup {NoCategory}, subcategory : Subcategories \cup {NoSubcategory},
           good : Goods \cup {NoGood}, name : Names, row : Good]

CatalogueInit == /\ category = [c \in Categories |-> NoCategoryRow]
                 /\ subcategory = [s \in Subcategories |-> NoSubcategoryRow]
                 /\ good = [g \in Goods |-> NoGoodRow]
                 /\ editor = [e \in Editors |-> Away]
                 /\ edits = MaxEdits

Edits(e) == editor[e].op = "none" /\ edits > 0 /\ edits' = edits - 1
Keeps(e, r) == editor' = [editor EXCEPT ![e] = r]
Leaves(e) == Keeps(e, Away)

HasCategory(c) == c \in Categories /\ category[c].state = "live"
HasSubcategory(s) == s \in Subcategories /\ subcategory[s].state = "live"
HasGood(g) == g \in Goods /\ good[g].state = "live"
-----------------------------------------------------------------------------
(* The constraints of the tables. *)

\* uniq_category_business_name
CategoryNameFree(n, c) == ~\E d \in Categories \ {c} : HasCategory(d) /\ category[d].name = n
\* uniq_subcategory_per_category
SubcategoryNameFree(n, in, s) == ~\E t \in Subcategories \ {s} :
    HasSubcategory(t) /\ subcategory[t].category = in /\ subcategory[t].name = n
\* The category when there is no subcategory, or else the subcategory.
Scope(r) == IF r.subcategory = NoSubcategory THEN r.category ELSE r.subcategory
\* uniq_product_category_name_when_no_subcategory, uniq_product_subcategory_name
GoodNameFree(r, g) == ~\E h \in Goods \ {g} : HasGood(h) /\ Scope(good[h]) = Scope(r) /\ good[h].name = r.name
References(r) == HasCategory(r.category) /\ (r.subcategory # NoSubcategory => HasSubcategory(r.subcategory))
-----------------------------------------------------------------------------
(* Categories and subcategories. *)

\* The name is looked up, and the constraint refuses what the look-up missed.
CreateCategory(c, n) ==
    /\ edits > 0 /\ edits' = edits - 1
    /\ category[c].state = "none" /\ CategoryNameFree(n, c)
    /\ category' = [category EXCEPT ![c] = [state |-> "live", name |-> n]]
    /\ UNCHANGED <<subcategory, good, editor>>

\* A copy with another name, or with the old one and another description.
RenameCategory(e, c, n) ==
    /\ Edits(e)
    /\ HasCategory(c) /\ CategoryNameFree(n, c)
    /\ Keeps(e, [Away EXCEPT !.op = "category", !.category = c, !.name = n])
    /\ UNCHANGED <<category, subcategory, good>>

SaveCategory(e) ==
    LET c == editor[e].category  n == editor[e].name IN
    /\ editor[e].op = "category"
    /\ \/ CategoryNameFree(n, c) /\ category' = [category EXCEPT ![c] = [state |-> "live", name |-> n]]
       \/ ~(HasCategory(c) /\ CategoryNameFree(n, c)) /\ UNCHANGED category
    /\ Leaves(e)
    /\ UNCHANGED <<subcategory, good, edits>>

\* Subcategories and products go with it.
DeleteCategory(c) ==
    LET Gone == {s \in Subcategories : HasSubcategory(s) /\ subcategory[s].category = c} IN
    /\ edits > 0 /\ edits' = edits - 1
    /\ HasCategory(c)
    /\ category' = [category EXCEPT ![c].state = "gone"]
    /\ subcategory' = [s \in Subcategories |-> IF s \in Gone THEN [subcategory[s] EXCEPT !.state = "gone"]
                                               ELSE subcategory[s]]
    /\ good' = [g \in Goods |->
                  IF HasGood(g) /\ good[g].category = c THEN [good[g] EXCEPT !.state = "gone"]
                  ELSE IF good[g].subcategory \in Gone THEN [good[g] EXCEPT !.subcategory = NoSubcategory]
                  ELSE good[g]]
    /\ UNCHANGED editor

\* The category is there and the name is free in it.
PlanSubcategory(e, c, n) ==
    /\ Edits(e)
    /\ HasCategory(c) /\ SubcategoryNameFree(n, c, NoSubcategory)
    /\ Keeps(e, [Away EXCEPT !.op = "newsubcategory", !.category = c, !.name = n])
    /\ UNCHANGED <<category, subcategory, good>>

CreateSubcategory(e, s) ==
    LET c == editor[e].category  n == editor[e].name IN
    /\ editor[e].op = "newsubcategory" /\ subcategory[s].state = "none"
    /\ subcategory' = IF HasCategory(c) /\ SubcategoryNameFree(n, c, s)
                      THEN [subcategory EXCEPT ![s] = [state |-> "live", name |-> n, category |-> c]]
                      ELSE subcategory
    /\ Leaves(e)
    /\ UNCHANGED <<category, good, edits>>

\* The category of a subcategory never changes.
RenameSubcategory(e, s, n) ==
    /\ Edits(e)
    /\ HasSubcategory(s) /\ SubcategoryNameFree(n, subcategory[s].category, s)
    /\ Keeps(e, [Away EXCEPT !.op = "subcategory", !.subcategory = s, !.name = n])
    /\ UNCHANGED <<category, subcategory, good>>

SaveSubcategory(e) ==
    LET s == editor[e].subcategory  n == editor[e].name
        free == SubcategoryNameFree(n, subcategory[s].category, s)
    IN
    /\ editor[e].op = "subcategory"
    /\ \/ /\ free /\ HasCategory(subcategory[s].category)
          /\ subcategory' = [subcategory EXCEPT ![s] = [@ EXCEPT !.state = "live", !.name = n]]
       \/ ~(HasSubcategory(s) /\ free) /\ UNCHANGED subcategory
    /\ Leaves(e)
    /\ UNCHANGED <<category, good, edits>>

\* Its products lose the subcategory, unless one of them then has the name of a
\* product of the category: the statement fails.
DeleteSubcategory(s) ==
    LET Left == {g \in Goods : HasGood(g) /\ good[g].subcategory = s}
        Moved == [g \in Goods |-> IF g \in Left THEN [good[g] EXCEPT !.subcategory = NoSubcategory] ELSE good[g]]
    IN /\ edits > 0 /\ edits' = edits - 1
       /\ HasSubcategory(s)
       /\ \A g \in Left : \A h \in Goods \ {g} :
              HasGood(h) /\ Scope(Moved[h]) = Scope(Moved[g]) => Moved[h].name # Moved[g].name
       /\ subcategory' = [subcategory EXCEPT ![s].state = "gone"]
       /\ good' = Moved
       /\ UNCHANGED <<category, editor>>
-----------------------------------------------------------------------------
(* Products. *)

\* The checks of CreateProductUseCase and UpdateProductUseCase.
Fits(r, g) == /\ References(r)
              /\ r.subcategory # NoSubcategory => subcategory[r.subcategory].category = r.category
              /\ GoodNameFree(r, g)

PlanGood(e, c, s, n) ==
    LET r == [state |-> "live", name |-> n, category |-> c, subcategory |-> s] IN
    /\ Edits(e)
    /\ Fits(r, NoGood)
    /\ Keeps(e, [Away EXCEPT !.op = "newgood", !.row = r])
    /\ UNCHANGED <<category, subcategory, good>>

\* The constraints, at the time of the statement.
CreateGood(e, g) ==
    LET r == editor[e].row IN
    /\ editor[e].op = "newgood" /\ good[g].state = "none"
    /\ good' = IF References(r) /\ GoodNameFree(r, g) THEN [good EXCEPT ![g] = r] ELSE good
    /\ Leaves(e)
    /\ UNCHANGED <<category, subcategory, edits>>

(* Variant: a product that changes its category keeps its subcategory, and the
   subcategory is looked at only when the request names one. *)
TargetKept(r, c, s, provided) == [r EXCEPT !.category = IF c = NoCategory THEN @ ELSE c,
                                           !.subcategory = IF provided THEN s ELSE @]

\* Where the product is to be: the category of the request, and the subcategory
\* when the request provides one, or none; another category without a word on
\* the subcategory leaves the old one.
Target(r, c, s, provided) == [r EXCEPT !.category = IF c = NoCategory THEN @ ELSE c,
                                       !.subcategory = IF provided THEN s
                                                       ELSE IF c # NoCategory THEN NoSubcategory ELSE @]

(* Variant: a subcategory that was there before is not compared with the category. *)
PlaceEditUnchecked(e, g, c, s, provided, n) ==
    LET r == [TargetKept(good[g], c, s, provided) EXCEPT !.name = n] IN
    /\ Edits(e)
    /\ HasGood(g)
    /\ References(r) /\ GoodNameFree(r, g)
    /\ Keeps(e, [Away EXCEPT !.op = "good", !.good = g, !.row = r])
    /\ UNCHANGED <<category, subcategory, good>>

PlaceEdit(e, g, c, s, provided, n) ==
    LET r == [Target(good[g], c, s, provided) EXCEPT !.name = n] IN
    /\ Edits(e)
    /\ HasGood(g)
    /\ Fits(r, g)
    /\ Keeps(e, [Away EXCEPT !.op = "good", !.good = g, !.row = r])
    /\ UNCHANGED <<category, subcategory, good>>

\* The whole row is written.
SaveGood(e) ==
    LET g == editor[e].good  r == editor[e].row IN
    /\ editor[e].op = "good"
    /\ \/ References(r) /\ GoodNameFree(r, g) /\ good' = [good EXCEPT ![g] = r]
       \/ ~(HasGood(g) /\ References(r) /\ GoodNameFree(r, g)) /\ UNCHANGED good
    /\ Leaves(e)
    /\ UNCHANGED <<category, subcategory, edits>>

DeleteGood(g) ==
    /\ edits > 0 /\ edits' = edits - 1
    /\ HasGood(g)
    /\ good' = [good EXCEPT ![g].state = "gone"]
    /\ UNCHANGED <<category, subcategory, editor>>
-----------------------------------------------------------------------------
(* The endpoints of InventoryViewSet, CategoryViewSet, SubCategoryViewSet and *)
(* ProductViewSet.                                                            *)
create_category == \E c \in Categories, n \in Names : CreateCategory(c, n)
update_category(e) == (\E c \in Categories, n \in Names : RenameCategory(e, c, n)) \/ SaveCategory(e)
destroy_category == \E c \in Categories : DeleteCategory(c)
create_subcategory(e) == \/ \E c \in Categories, n \in Names : PlanSubcategory(e, c, n)
                         \/ \E s \in Subcategories : CreateSubcategory(e, s)
update_subcategory(e) == (\E s \in Subcategories, n \in Names : RenameSubcategory(e, s, n)) \/ SaveSubcategory(e)
destroy_subcategory == \E s \in Subcategories : DeleteSubcategory(s)
create_product(e) == \/ \E c \in Categories, s \in Subcategories \cup {NoSubcategory}, n \in Names : PlanGood(e, c, s, n)
                     \/ \E g \in Goods : CreateGood(e, g)
update_product(e) == \/ \E g \in Goods, c \in Categories \cup {NoCategory},
                           s \in Subcategories \cup {NoSubcategory}, provided \in BOOLEAN, n \in Names :
                        PlaceEdit(e, g, c, s, provided, n)
                     \/ SaveGood(e)
destroy_product == \E g \in Goods : DeleteGood(g)

CatalogueNext == \/ create_category \/ destroy_category \/ destroy_subcategory \/ destroy_product
                 \/ \E e \in Editors : \/ update_category(e) \/ create_subcategory(e) \/ update_subcategory(e)
                                       \/ create_product(e) \/ update_product(e)
CatalogueSpec == CatalogueInit /\ [][CatalogueNext]_catalogueVars
-----------------------------------------------------------------------------
CatalogueType == /\ category \in [Categories -> Category]
                 /\ subcategory \in [Subcategories -> Subcategory]
                 /\ good \in [Goods -> Good]
                 /\ editor \in [Editors -> Editor]
                 /\ edits \in 0..MaxEdits

\* A product is in a category that exists and in a subcategory of that category,
\* and nobody else there has its name, although the checks are made before the
\* write, on rows that may be renamed, moved or deleted in between
\* (inventory_use_cases.py:1017, inventory_use_cases.py:613).
ScopeSound == \A g \in Goods : HasGood(g) =>
    /\ References(good[g])
    /\ good[g].subcategory # NoSubcategory => subcategory[good[g].subcategory].category = good[g].category
    /\ \A h \in Goods \ {g} : HasGood(h) /\ good[h].category = good[g].category
                                /\ good[h].subcategory = good[g].subcategory => good[h].name # good[g].name
=============================================================================
