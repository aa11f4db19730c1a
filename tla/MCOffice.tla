------------------------------ MODULE MCOffice ------------------------------
(***************************************************************************)
(* Four parts of the back office that share no row they both decide by:    *)
(* members, salaries and expenses, the catalogue, the dashboard.  A        *)
(* behaviour follows one of them, chosen at its start.                     *)
(***************************************************************************)
EXTENDS Members, Finance, Catalogue, Dashboard, TLC

VARIABLE part

\* Both products start in one place.
Grain == [category |-> "food", subcategory |-> "grain"]

Init == /\ part \in {"members", "finance", "catalogue", "dashboard"}
        /\ MembersInit /\ FinanceInit /\ CatalogueInit /\ DashboardInit
        /\ shelf = [x \in Products |-> Grain]
Next == \/ /\ part = "members" /\ MembersNext
           /\ UNCHANGED <<part, financeVars, catalogueVars, dashboardVars>>
        \/ /\ part = "finance" /\ FinanceNext
           /\ UNCHANGED <<part, memberVars, catalogueVars, dashboardVars>>
        \/ /\ part = "catalogue" /\ CatalogueNext
           /\ UNCHANGED <<part, memberVars, financeVars, dashboardVars>>
        \/ /\ part = "dashboard" /\ DashboardNext
           /\ UNCHANGED <<part, memberVars, financeVars, catalogueVars>>
Spec == Init /\ [][Next]_<<part, memberVars, financeVars, catalogueVars, dashboardVars>>

TypeOK == MembersType /\ FinanceType /\ CatalogueType /\ DashboardType

\* A member sells both products to a customer; the owner sells one to another.
OfficeSales == {[lines |-> [rice |-> 1, beans |-> 1], cashier |-> "ann", customer |-> "walk-in", total |-> 2],
                [lines |-> [beans |-> 1], cashier |-> "boss", customer |-> "regular", total |-> 1]}
OfficePlaces == {Grain, [category |-> "seed", subcategory |-> "bulk"]}
OfficeSpans == <<2, 4>>

\* The parts have the same names for their requests, and for some of their rows,
\* so that few permutations serve all.
Interchangeable == Permutations(Clerks) \cup Permutations(Businesses)
=============================================================================
