------------------------------ MODULE Finance -------------------------------
(***************************************************************************)
(* Salaries and expenses (application/use_cases/salary_use_cases.py,       *)
(* finance_use_cases.py, infrastructure/persistence/repositories/          *)
(* finance_repositories.py).  Nothing here runs in a transaction.          *)
(*                                                                         *)
(* A salary is current from effective_from to effective_to.  A new one is  *)
(* opened in three steps: the current one is read, closed, and the new row *)
(* inserted.  An expense is read, written whole, and then logged from the  *)
(* copies that the request holds.                                          *)
(***************************************************************************)
EXTENDS Integers, Sequences, FiniteSets

CONSTANTS Salaries, NoSalary,   \* salary rows; each is made once
          Employees, NoEmployee,
          Expenses, NoExpense,  \* expense rows; each is made once
          Contents,             \* what the fields of an expense hold
          Accountants,          \* requests being served at the same time
          Day, Never,           \* a day in units of the clock; no effective_to
          MaxToday, MaxFinanceCalls  \* bounds: the clock, requests

ASSUME FinanceConstants ==
    /\ NoSalary \notin Salaries /\ NoEmployee \notin Employees /\ NoExpense \notin Expenses
    /\ Day \in Nat \ {0} /\ MaxToday \in Nat /\ Never > MaxToday + Day /\ Never \in Nat
    /\ MaxFinanceCalls \in Nat /\ Contents # {} /\ IsFiniteSet(Salaries)

VARIABLES today,
          salary,     \* salary[s]: the row
          surplus,    \* history: salaries of e opened, or dated, by a request that was overtaken,
                      \* beside a salary to come, or by hand
          promised,   \* history: e has a salary, and only dates set by hand, a date ahead or a crash can end it
          expense,    \* expense[x]: the row
          log,        \* log[x]: its audit log
          torn,       \* history: requests on x overlapped, or one died before its entry
          accountant, \* accountant[a]: where a request is, and what it has read
          financeCalls

financeVars == <<today, salary, surplus, promised, expense, log, torn, accountant, financeCalls>>

Dates == -Day..(MaxToday + Day)
Salary == [state : {"none", "kept"}, of : Employees \cup {NoEmployee}, from : Dates, to : (-2 * Day)..Never]
NoSalaryRow == [state |-> "none", of |-> NoEmployee, from |-> 0, to |-> Never]
Expense == [state : {"none", "live", "gone"}, content : Contents]
Some == CHOOSE c \in Contents : TRUE

AtRest == [op |-> "none", of |-> NoEmployee, from |-> Never, current |-> NoSalary, row |-> NoSalaryRow,
           expense |-> NoExpense, before |-> Some, after |-> Some, new |-> FALSE, overtaken |-> FALSE]
Accountant == [op : {"none", "close", "store", "edit", "write", "log"},
               of : Employees \cup {NoEmployee},
               from : Dates \cup {Never},  \* dto.effective_from, Never when there is none
               current : Salaries \cup {NoSalary}, row : Salary,
               expense : Expenses \cup {NoExpense}, before : Contents, after : Contents, new : BOOLEAN,
               overtaken : BOOLEAN]  \* the salaries of the employee, or the expense, have been written
                                     \* since, or a salary dated ahead was waiting

FinanceInit == /\ today = 0
               /\ salary = [s \in Salaries |-> NoSalaryRow]
               /\ surplus = [e \in Employees |-> 0]
               /\ promised = [e \in Employees |-> FALSE]
               /\ expense = [x \in Expenses |-> [state |-> "none", content |-> Some]]
               /\ log = [x \in Expenses |-> <<>>]
               /\ torn = [x \in Expenses |-> FALSE]
               /\ accountant = [a \in Accountants |-> AtRest]
               /\ financeCalls = MaxFinanceCalls

Asked(a) == accountant[a].op = "none" /\ financeCalls > 0 /\ financeCalls' = financeCalls - 1
Holds(a, r) == accountant' = [accountant EXCEPT ![a] = r]
\* Request a goes on as r, after a write that the others on the same rows have not seen.
Wrote(a, r) == accountant' = [c \in Accountants |->
                  IF c = a THEN r
                  ELSE IF \/ accountant[c].of # NoEmployee /\ accountant[c].of = accountant[a].of
                          \/ accountant[c].expense # NoExpense /\ accountant[c].expense = accountant[a].expense
                  THEN [accountant[c] EXCEPT !.overtaken = TRUE] ELSE accountant[c]]
-----------------------------------------------------------------------------
(* Salaries. *)

IsActive(r) == r.state = "kept" /\ r.from <= today /\ today <= r.to
Actives(e) == {s \in Salaries : salary[s].of = e /\ IsActive(salary[s])}
\* get_current_salary: of several, the one that began last.
Current(e) == IF Actives(e) = {} THEN {NoSalary}
              ELSE {s \in Actives(e) : \A t \in Actives(e) : salary[t].from <= salary[s].from}
Ahead(e) == \E s \in Salaries : salary[s].of = e /\ salary[s].state = "kept" /\ salary[s].from > today

\* CreateSalaryUseCase; from is effective_from, when the request names it.
OpenRead(a, e, from) ==
    /\ Asked(a)
    /\ \E s \in Current(e) :
          Holds(a, [AtRest EXCEPT !.op = IF s = NoSalary THEN "store" ELSE "close", !.of = e,
                                  !.from = from, !.current = s,
                                  !.row = IF s = NoSalary THEN NoSalaryRow ELSE salary[s],
                                  !.overtaken = Ahead(e)])
    /\ UNCHANGED <<today, salary, surplus, promised, expense, log, torn>>

\* PromoteEmployeeUseCase needs a current salary, of a lower amount, and goes on
\* like CreateSalaryUseCase.
PromoteRead(a, e, from) == Actives(e) # {} /\ OpenRead(a, e, from)

(* Variant: a request that names no date is not given today's. *)
FromNamed(r) == r.from

\* effective_from, today by default
From(r) == IF r.from = Never THEN today ELSE r.from
Exceeds(e, yes) == surplus' = [surplus EXCEPT ![e] = @ + (IF yes THEN 1 ELSE 0)]

(* Variant: the current salary is left open. *)
OpenCloseNot(a) ==
    LET r == accountant[a] IN
    /\ r.op = "close"
    /\ Holds(a, [r EXCEPT !.op = "store"])
    /\ UNCHANGED <<today, salary, surplus, promised, expense, log, torn, financeCalls>>

\* The current salary ends a day before the new one begins; the copy is written whole.
OpenClose(a) ==
    LET r == accountant[a] IN
    /\ r.op = "close"
    /\ salary' = [salary EXCEPT ![r.current] =
                     [r.row EXCEPT !.to = From(r) - Day]]
    /\ Exceeds(r.of, r.overtaken)
    /\ promised' = [promised EXCEPT ![r.of] = @ /\ From(r) <= today]
    /\ Wrote(a, [r EXCEPT !.op = "store"])
    /\ UNCHANGED <<today, expense, log, torn, financeCalls>>

OpenStore(a, s) ==
    LET r == accountant[a] IN
    /\ r.op = "store" /\ salary[s].state = "none"
    /\ salary' = [salary EXCEPT ![s] = [state |-> "kept", of |-> r.of, from |-> From(r), to |-> Never]]
    /\ Exceeds(r.of, r.overtaken)
    /\ promised' = [promised EXCEPT ![r.of] = @ \/ From(r) <= today]
    /\ Wrote(a, AtRest)
    /\ UNCHANGED <<today, expense, log, torn, financeCalls>>

\* UpdateSalaryUseCase: amounts, and dates if the request names them.
SalaryEditRead(a, s, from, to) ==
    /\ Asked(a)
    /\ salary[s].state = "kept"
    /\ Holds(a, [AtRest EXCEPT !.op = "edit", !.of = salary[s].of, !.current = s,
                               !.row = [salary[s] EXCEPT !.from = IF from = Never THEN @ ELSE from,
                                                         !.to = IF to = Never THEN @ ELSE to]])
    /\ UNCHANGED <<today, salary, surplus, promised, expense, log, torn>>

SalaryEditWrite(a) ==
    LET r == accountant[a]  s == r.current
        dated == r.row.from # salary[s].from \/ r.row.to # salary[s].to
    IN /\ r.op = "edit"
       /\ salary' = [salary EXCEPT ![s] = r.row]
       /\ Exceeds(r.of, dated)
       /\ promised' = [promised EXCEPT ![r.of] = @ /\ ~dated]
       /\ Wrote(a, AtRest)
       /\ UNCHANGED <<today, expense, log, torn, financeCalls>>

Passes == /\ today < MaxToday /\ today' = today + 1
          /\ UNCHANGED <<salary, surplus, promised, expense, log, torn, accountant, financeCalls>>
-----------------------------------------------------------------------------
(* Expenses. *)

\* Somebody else is at work on x.
Shared(a, x) == \E c \in Accountants \ {a} : accountant[c].expense = x

CreateExpense(a, x, c) ==
    /\ Asked(a)
    /\ expense[x].state = "none"
    /\ expense' = [expense EXCEPT ![x] = [state |-> "live", content |-> c]]
    /\ Holds(a, [AtRest EXCEPT !.op = "log", !.expense = x, !.before = c, !.after = c, !.new = TRUE])
    /\ UNCHANGED <<today, salary, surplus, promised, log, torn>>

(* Variant: the state before the change is not copied before it. *)
ExpenseReadShared(a, x, c) ==
    /\ Asked(a)
    /\ expense[x].state = "live"
    /\ Holds(a, [AtRest EXCEPT !.op = "write", !.expense = x, !.before = c, !.after = c])
    /\ torn' = [torn EXCEPT ![x] = @ \/ Shared(a, x)]
    /\ UNCHANGED <<today, salary, surplus, promised, expense, log>>

\* UpdateExpenseUseCase: what it was, and what it shall be.
ExpenseRead(a, x, c) ==
    /\ Asked(a)
    /\ expense[x].state = "live"
    /\ Holds(a, [AtRest EXCEPT !.op = "write", !.expense = x, !.before = expense[x].content, !.after = c])
    /\ torn' = [torn EXCEPT ![x] = @ \/ Shared(a, x)]
    /\ UNCHANGED <<today, salary, surplus, promised, expense, log>>

\* An expense deleted before the row is fetched again is not found; one deleted
\* after that is inserted again (finance_repositories.py:126).
ExpenseWrite(a) ==
    LET r == accountant[a]  x == r.expense IN
    /\ r.op = "write"
    /\ \/ /\ expense' = [expense EXCEPT ![x] = [state |-> "live", content |-> r.after]]
          /\ Wrote(a, [r EXCEPT !.op = "log"])
       \/ expense[x].state = "gone" /\ Holds(a, AtRest) /\ UNCHANGED expense
    /\ UNCHANGED <<today, salary, surplus, promised, log, torn, financeCalls>>

\* The entry refers to the expense: of one that is gone it is refused.
LogExpense(a) ==
    LET r == accountant[a]  x == r.expense IN
    /\ r.op = "log"
    /\ log' = IF expense[x].state = "live"
              THEN [log EXCEPT ![x] = Append(@, [before |-> r.before, after |-> r.after])] ELSE log
    /\ Wrote(a, AtRest)
    /\ UNCHANGED <<today, salary, surplus, promised, expense, torn, financeCalls>>

\* The log goes with the row; the entry that would tell of the deletion is then
\* refused, and the request answers with an error.  A request that is at work on
\* the row may insert it again.
DeleteExpense(x) ==
    /\ financeCalls > 0 /\ financeCalls' = financeCalls - 1
    /\ expense[x].state = "live"
    /\ expense' = [expense EXCEPT ![x].state = "gone"]
    /\ log' = [log EXCEPT ![x] = <<>>]
    /\ torn' = [torn EXCEPT ![x] = @ \/ \E a \in Accountants : accountant[a].expense = x]
    /\ UNCHANGED <<today, salary, surplus, promised, accountant>>
-----------------------------------------------------------------------------
\* The worker dies, or a query fails.
Dies(a) ==
    LET r == accountant[a] IN
    /\ r.op # "none"
    /\ torn' = IF r.op = "log" THEN [torn EXCEPT ![r.expense] = TRUE] ELSE torn
    /\ promised' = IF r.op = "store" THEN [promised EXCEPT ![r.of] = FALSE] ELSE promised
    /\ Holds(a, AtRest)
    /\ UNCHANGED <<today, salary, surplus, expense, log, financeCalls>>

(* The endpoints of FinanceViewSet. *)
Starts == {Never, today - Day, today + Day} \cap (Dates \cup {Never})
create_salary(a) == \/ \E e \in Employees, from \in Starts : OpenRead(a, e, from)
                    \/ OpenClose(a) \/ \E s \in Salaries : OpenStore(a, s)
promote(a) == \E e \in Employees, from \in Starts : PromoteRead(a, e, from)
update_salary(a) == \/ \E s \in Salaries, from, to \in {Never, today} : SalaryEditRead(a, s, from, to)
                    \/ SalaryEditWrite(a)
create_expense(a) == (\E x \in Expenses, c \in Contents : CreateExpense(a, x, c)) \/ LogExpense(a)
update_expense(a) == (\E x \in Expenses, c \in Contents : ExpenseRead(a, x, c)) \/ ExpenseWrite(a)
destroy_expense == \E x \in Expenses : DeleteExpense(x)

FinanceNext == \/ \E a \in Accountants : \/ create_salary(a) \/ promote(a) \/ update_salary(a)
                                         \/ create_expense(a) \/ update_expense(a) \/ Dies(a)
               \/ destroy_expense \/ Passes
FinanceSpec == FinanceInit /\ [][FinanceNext]_financeVars
-----------------------------------------------------------------------------
FinanceType == /\ today \in 0..MaxToday
               /\ salary \in [Salaries -> Salary]
               /\ surplus \in [Employees -> Nat]
               /\ promised \in [Employees -> BOOLEAN]
               /\ expense \in [Expenses -> Expense]
               /\ \A x \in Expenses : log[x] \in Seq([before : Contents, after : Contents])
               /\ accountant \in [Accountants -> Accountant]

\* An employee has one salary at a time.  He has a second one only when the
\* request that opened it had been overtaken by another, when a salary dated
\* ahead was waiting, or when dates were set by hand; he is left without one
\* only between the two writes of a change, by a crash there, by a date ahead,
\* or by hand (salary_use_cases.py:63, salary_use_cases.py:167).
OneOpenSalary == \A e \in Employees :
    /\ Cardinality(Actives(e)) <= 1 + surplus[e]
    /\ promised[e] => \/ Actives(e) # {}
                      \/ \E a \in Accountants : accountant[a].of = e /\ accountant[a].op = "store"

\* The audit log of an expense tells its history: each entry begins where the
\* one before ends, and the last one ends at what the row holds, unless two
\* requests were at work on the expense at once or one died before its entry
\* (finance_use_cases.py:312).
AuditChain == \A x \in Expenses :
    LET n == Len(log[x]) IN
    ~torn[x] /\ expense[x].state = "live" =>
        /\ \A i \in 2..n : log[x][i].before = log[x][i - 1].after
        /\ \/ n > 0 /\ log[x][n].after = expense[x].content
           \/ \E a \in Accountants : accountant[a].expense = x /\ accountant[a].op = "log"
=============================================================================
