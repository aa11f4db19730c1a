---------------------------- MODULE ReportsProofs ----------------------------
(***************************************************************************)
(* Proofs about Reports: its inductive invariant, and that it implements   *)
(* ReportLife.  Most steps change a row, a file or one task in a way that  *)
(* is harmless for the same reasons; RowStep and FileStep say what those   *)
(* changes have in common, and the lemmas TaskGoes, TaskEnds and Outside   *)
(* are proved once from them.                                              *)
(***************************************************************************)
EXTENDS Reports, TLAPS

\* Rows are neither made nor set back to generating, and name files that exist.
RowStep == /\ row' \in [Reports -> Row]
           /\ \A r \in Reports :
                /\ row'[r].state = "none" <=> row[r].state = "none"
                /\ Generating(row'[r]) => Generating(row[r])
                /\ row'[r].state = "live" /\ row'[r].url => stored'[r] \/ erased'[r]

\* A file is gone only when a deletion has removed it.
FileStep == /\ stored' \in [Reports -> BOOLEAN] /\ erased' \in [Reports -> BOOLEAN]
            /\ \A r \in Reports : stored[r] \/ erased[r] => stored'[r] \/ erased'[r]

LEMMA NoChange ==
  ASSUME ReportsInv, UNCHANGED <<row, stored, erased>>
  PROVE  RowStep /\ FileStep
  BY DEF ReportsInv, TypeOK, UrlHasFile, Live, RowStep, FileStep

\* A live row turns into one with an outcome.
LEMMA OutcomeStep ==
  ASSUME ReportsInv, NEW r \in Reports, NEW x \in Row, x.state = "live", x.status # "generating",
         x.url => stored[r] \/ erased[r],
         row' = [row EXCEPT ![r] = Updated(@, x)], UNCHANGED <<stored, erased>>
  PROVE  RowStep /\ FileStep /\ ~Generating(row'[r])
  <1>1. TypeOK /\ UrlHasFile
    BY DEF ReportsInv
  <1>2. row[r] \in Row /\ row \in [Reports -> Row]
    BY <1>1 DEF TypeOK
  <1>3. row'[r] = IF row[r].state = "live" THEN x ELSE row[r]
    BY <1>2 DEF Updated
  <1>4. \A q \in Reports \ {r} : row'[q] = row[q]
    BY <1>2
  <1>5. row' \in [Reports -> Row]
    BY <1>2 DEF Updated
  <1>6. FileStep
    BY <1>1 DEF TypeOK, FileStep
  <1>7. ~Generating(row'[r])
    BY <1>3 DEF Generating
  <1>8. ASSUME NEW q \in Reports
        PROVE  /\ row'[q].state = "none" <=> row[q].state = "none"
               /\ Generating(row'[q]) => Generating(row[q])
               /\ row'[q].state = "live" /\ row'[q].url => stored'[q] \/ erased'[q]
    <2>1. CASE q = r
      BY <2>1, <1>3, <1>7
    <2>2. CASE q # r
      BY <2>2, <1>4, <1>1 DEF UrlHasFile, Live
    <2> QED
      BY <2>1, <2>2
  <1> QED
    BY <1>5, <1>6, <1>7, <1>8 DEF RowStep

LEMMA OutcomeRows ==
  ASSUME NEW url \in BOOLEAN
  PROVE  /\ Completed(url) \in Row /\ Completed(url).state = "live"
         /\ Completed(url).status # "generating" /\ Completed(url).url = url
         /\ Failed(url) \in Row /\ Failed(url).state = "live"
         /\ Failed(url).status # "generating" /\ Failed(url).url = url
  BY DEF Completed, Failed, Row

\* As long as no request commits or dispatches, nothing becomes awaited.
LEMMA AwaitedFalls ==
  ASSUME RowStep, UNCHANGED maker, NEW r \in Reports, Awaited(r)'
  PROVE  Awaited(r)
  BY DEF RowStep, Awaited

\* The parts of the invariant that only rows, files and drafts can disturb.
LEMMA RowParts ==
  ASSUME ReportsInv, RowStep, FileStep, UNCHANGED maker
  PROVE  /\ UrlHasFile'
         /\ \A r \in Reports : maker'[r].draft.url => stored'[r] \/ erased'[r]
         /\ \A r \in Reports : /\ maker'[r].pc # "over" => row'[r].state = "none"
                               /\ maker'[r].pc = "ready" =>
                                    maker'[r].draft.state = "live" /\ maker'[r].draft.status # "failed"
  <1>1. UrlHasFile'
    BY DEF RowStep, UrlHasFile, Live
  <1>2. \A r \in Reports : maker'[r].draft.url => stored'[r] \/ erased'[r]
    BY DEF ReportsInv, NamesStored, FileStep
  <1>3. \A r \in Reports : /\ maker'[r].pc # "over" => row'[r].state = "none"
                           /\ maker'[r].pc = "ready" =>
                                    maker'[r].draft.state = "live" /\ maker'[r].draft.status # "failed"
    BY DEF ReportsInv, MadeOnce, RowStep
  <1> QED
    BY <1>1, <1>2, <1>3

\* A task that goes on to its next step, or fails.
LEMMA TaskGoes ==
  ASSUME ReportsInv, RowStep, FileStep, NEW w \in Workers, NEW t \in Task,
         task' = [task EXCEPT ![w] = t], UNCHANGED <<maker, inbox, removal, kills, repeats, lost>>,
         NEW r \in Reports, task[w].report = r, t.report = r, t.attempt = task[w].attempt,
         t.pc # "idle",
         errors' \in 0..MaxErrors, errors' >= errors,
         t.new \/ t.old => stored'[r] \/ erased'[r],
         t.pc \in {"load", "open", "upload", "save", "check", "mark"} => row'[r].state # "none",
         t.pc = "check" => ~Generating(row'[r]),
         t.pc \in {"undo", "error", "mark"} => errors' > t.attempt \/ ~Awaited(r)'
  PROVE  ReportsInv'
  <1>0. TypeOK /\ errors \in Nat /\ errors' \in Nat
    BY DEF ReportsInv, TypeOK
  <1>1. task'[w] = t /\ \A v \in Workers \ {w} : task'[v] = task[v]
    BY <1>0 DEF TypeOK
  <1>2. \A v \in Workers : task'[v].report = task[v].report /\ task'[v].attempt = task[v].attempt
    BY <1>1
  <1>3. TypeOK'
    BY <1>0 DEF TypeOK, RowStep, FileStep
  <1>4. InGoodHands'
    BY <1>2, AwaitedFalls DEF ReportsInv, InGoodHands, Queued, Running
  <1>5. RetriesOutlastErrors'
    BY <1>0, ReportsConstants DEF ReportsInv, RetriesOutlastErrors
  <1>6. NamesStored'
    <2>1. \A v \in Workers : task'[v].report \in Reports /\ (task'[v].new \/ task'[v].old) =>
                               stored'[task'[v].report] \/ erased'[task'[v].report]
      BY <1>1 DEF ReportsInv, NamesStored, FileStep
    <2> QED
      BY <2>1, RowParts DEF NamesStored
  <1>7. BusyWithReport'
    BY <1>1 DEF ReportsInv, BusyWithReport
  <1>8. MadeOnce'
    <2>1. \A q \in Reports : maker'[q].pc \in {"none", "begun"} => ~Queued(q)' /\ ~Running(q)'
      BY <1>2 DEF ReportsInv, MadeOnce, Queued, Running
    <2> QED
      BY <2>1, RowParts DEF MadeOnce
  <1>9. SeenBefore'
    <2> SUFFICES ASSUME NEW v \in Workers
                 PROVE  /\ task'[v].pc \in {"load", "open", "upload", "save", "check", "mark"} =>
                             row'[task'[v].report].state # "none"
                        /\ task'[v].pc = "check" => ~Generating(row'[task'[v].report])
      BY DEF SeenBefore
    <2>1. CASE v = w
      BY <2>1, <1>1
    <2>2. CASE v # w
      BY <2>2, <1>1 DEF ReportsInv, SeenBefore, BusyWithReport, RowStep
    <2> QED
      BY <2>1, <2>2
  <1>10. ErrorsPaid'
    <2> SUFFICES ASSUME NEW q \in Reports, Awaited(q)'
                 PROVE  /\ \A a \in Attempts : inbox[q][a] > 0 => errors' >= a
                        /\ \A v \in Workers : task'[v].report = q =>
                             /\ errors' >= task'[v].attempt
                             /\ task'[v].pc \in {"undo", "error", "mark"} => errors' > task'[v].attempt
      BY DEF ErrorsPaid
    <2>1. Awaited(q)
      BY AwaitedFalls
    <2>2. \A a \in Attempts : inbox[q][a] > 0 => errors' >= a
      BY <2>1, <1>0, ReportsConstants DEF ReportsInv, ErrorsPaid, Attempts
    <2>3. ASSUME NEW v \in Workers, task'[v].report = q
          PROVE  /\ errors' >= task'[v].attempt
                 /\ task'[v].pc \in {"undo", "error", "mark"} => errors' > task'[v].attempt
      <3>1. task[v].attempt \in Int /\ task'[v].attempt = task[v].attempt /\ task[v].report = q
        BY <1>0, <1>2, <2>3, ReportsConstants DEF TypeOK, Task, Attempts
      <3>2. errors >= task[v].attempt
        BY <2>1, <3>1 DEF ReportsInv, ErrorsPaid
      <3>3. CASE v = w
        BY <3>1, <3>2, <3>3, <1>0, <1>1, <2>3
      <3>4. CASE v # w
        <4>1. task[v].pc \in {"undo", "error", "mark"} => errors > task[v].attempt
          BY <2>1, <3>1 DEF ReportsInv, ErrorsPaid
        <4> QED
          BY <4>1, <3>1, <3>2, <3>4, <1>0, <1>1
      <3> QED
        BY <3>3, <3>4
    <2> QED
      BY <2>2, <2>3
  <1> QED
    BY <1>3, <1>4, <1>5, <1>6, <1>7, <1>8, <1>9, <1>10, RowParts DEF ReportsInv

\* A task that ends: it has settled its report, is retried, or gives up.
LEMMA TaskEnds ==
  ASSUME ReportsInv, RowStep, FileStep, NEW w \in Workers,
         task' = [task EXCEPT ![w] = Idle], UNCHANGED <<maker, removal>>,
         NEW r \in Reports, task[w].report = r,
         errors' \in 0..MaxErrors, errors' >= errors,
         kills' \in 0..MaxKills, repeats' \in 0..MaxRepeats,
         NEW a \in Attempts,
         \/ inbox' = inbox
         \/ inbox' = [inbox EXCEPT ![r][a] = @ + 1] /\ (Awaited(r)' => errors' >= a),
         NEW why \in {"early", "killed", "unsent", "exhausted"},
         lost' = lost \/ lost' = [lost EXCEPT ![r] = why],
         why = "exhausted" /\ lost' # lost => errors' > MaxRetries,
         Awaited(r)' => inbox' # inbox \/ lost' = [lost EXCEPT ![r] = why]
  PROVE  ReportsInv'
  <1>0. TypeOK /\ errors \in Nat /\ errors' \in Nat /\ MaxRetries \in Nat
    BY ReportsConstants DEF ReportsInv, TypeOK
  <1>1. task'[w] = Idle /\ \A v \in Workers \ {w} : task'[v] = task[v]
    BY <1>0 DEF TypeOK
  <1>2. Idle \in Task /\ Idle.pc = "idle" /\ Idle.report = NoReport /\ NoReport \notin Reports
    BY ReportsConstants DEF Idle, Task, Attempts
  <1>3. inbox' \in [Reports -> [Attempts -> Nat]]
    <2>1. inbox \in [Reports -> [Attempts -> Nat]]
      BY <1>0 DEF TypeOK
    <2>2. [inbox[r] EXCEPT ![a] = @ + 1] \in [Attempts -> Nat]
      BY <2>1
    <2> QED
      BY <2>1, <2>2
  <1>4. \A q \in Reports, b \in Attempts :
          /\ inbox'[q][b] >= inbox[q][b]
          /\ q # r \/ b # a => inbox'[q][b] = inbox[q][b]
          /\ inbox' # inbox => inbox'[r][a] > 0
    BY <1>0 DEF TypeOK
  <1>5. lost' \in [Reports -> {"no", "early", "killed", "unsent", "exhausted"}]
    BY <1>0 DEF TypeOK
  <1>6. TypeOK'
    BY <1>0, <1>2, <1>3, <1>5 DEF TypeOK, RowStep, FileStep
  <1>7. InGoodHands'
    <2> SUFFICES ASSUME NEW q \in Reports, Awaited(q)'
                 PROVE  Queued(q)' \/ Running(q)' \/ lost'[q] # "no"
      BY DEF InGoodHands
    <2>1. CASE q = r
      BY <2>1, <1>0, <1>4 DEF TypeOK, Queued
    <2>2. CASE q # r
      <3>1. Queued(q) \/ Running(q) \/ lost[q] # "no"
        BY AwaitedFalls DEF ReportsInv, InGoodHands
      <3>2. Queued(q) => Queued(q)'
        BY <2>2, <1>4 DEF Queued
      <3>3. Running(q) => Running(q)'
        BY <2>2, <1>1 DEF Running
      <3>4. lost'[q] = lost[q]
        BY <2>2, <1>0 DEF TypeOK
      <3> QED
        BY <3>1, <3>2, <3>3, <3>4
    <2> QED
      BY <2>1, <2>2
  <1>8. RetriesOutlastErrors'
    <2> SUFFICES ASSUME NEW q \in Reports, lost'[q] = "exhausted"
                 PROVE  errors' > MaxRetries
      BY DEF RetriesOutlastErrors
    <2>1. CASE lost[q] = "exhausted"
      BY <2>1, <1>0 DEF ReportsInv, RetriesOutlastErrors
    <2>2. CASE lost[q] # "exhausted"
      BY <2>2, <1>0 DEF TypeOK
    <2> QED
      BY <2>1, <2>2
  <1>9. NamesStored'
    <2>1. \A v \in Workers : task'[v].report \in Reports /\ (task'[v].new \/ task'[v].old) =>
                               stored'[task'[v].report] \/ erased'[task'[v].report]
      BY <1>1, <1>2 DEF ReportsInv, NamesStored, FileStep
    <2> QED
      BY <2>1, RowParts DEF NamesStored
  <1>10. BusyWithReport'
    BY <1>1, <1>2 DEF ReportsInv, BusyWithReport
  <1>11. MadeOnce'
    <2>1. ASSUME NEW q \in Reports, maker'[q].pc \in {"none", "begun"}
          PROVE  ~Queued(q)' /\ ~Running(q)'
      <3>1. ~Queued(q) /\ ~Running(q)
        BY <2>1 DEF ReportsInv, MadeOnce
      <3>2. q # r
        BY <3>1 DEF Running
      <3>3. ~Queued(q)'
        BY <3>1, <3>2, <1>4 DEF Queued
      <3>4. ~Running(q)'
        BY <3>1, <1>1, <1>2 DEF Running
      <3> QED
        BY <3>3, <3>4
    <2> QED
      BY <2>1, RowParts DEF MadeOnce
  <1>12. SeenBefore'
    <2> SUFFICES ASSUME NEW v \in Workers
                 PROVE  /\ task'[v].pc \in {"load", "open", "upload", "save", "check", "mark"} =>
                             row'[task'[v].report].state # "none"
                        /\ task'[v].pc = "check" => ~Generating(row'[task'[v].report])
      BY DEF SeenBefore
    <2>1. CASE v = w
      BY <2>1, <1>1, <1>2
    <2>2. CASE v # w
      BY <2>2, <1>1 DEF ReportsInv, SeenBefore, BusyWithReport, RowStep
    <2> QED
      BY <2>1, <2>2
  <1>13. ErrorsPaid'
    <2> SUFFICES ASSUME NEW q \in Reports, Awaited(q)'
                 PROVE  /\ \A b \in Attempts : inbox'[q][b] > 0 => errors' >= b
                        /\ \A v \in Workers : task'[v].report = q =>
                             /\ errors' >= task'[v].attempt
                             /\ task'[v].pc \in {"undo", "error", "mark"} => errors' > task'[v].attempt
      BY DEF ErrorsPaid
    <2>1. Awaited(q)
      BY AwaitedFalls
    <2>2. ASSUME NEW b \in Attempts, inbox'[q][b] > 0
          PROVE  errors' >= b
      <3>1. b \in Int
        BY <1>0 DEF Attempts
      <3>2. CASE q = r /\ b = a /\ inbox' # inbox
        BY <3>2
      <3>3. CASE ~(q = r /\ b = a /\ inbox' # inbox)
        <4>1. inbox[q][b] > 0
          BY <2>2, <3>3, <1>4
        <4>2. errors >= b
          BY <4>1, <2>1 DEF ReportsInv, ErrorsPaid
        <4> QED
          BY <4>2, <3>1, <1>0
      <3> QED
        BY <3>2, <3>3
    <2>3. ASSUME NEW v \in Workers, task'[v].report = q
          PROVE  /\ errors' >= task'[v].attempt
                 /\ task'[v].pc \in {"undo", "error", "mark"} => errors' > task'[v].attempt
      <3>1. v # w
        BY <2>3, <1>1, <1>2
      <3>2. task'[v] = task[v] /\ task[v].attempt \in Int
        BY <3>1, <1>0, <1>1 DEF TypeOK, Task, Attempts
      <3>3. /\ errors >= task[v].attempt
            /\ task[v].pc \in {"undo", "error", "mark"} => errors > task[v].attempt
        BY <2>1, <2>3, <3>2 DEF ReportsInv, ErrorsPaid
      <3> QED
        BY <3>2, <3>3, <1>0
    <2> QED
      BY <2>2, <2>3
  <1> QED
    BY <1>6, <1>7, <1>8, <1>9, <1>10, <1>11, <1>12, <1>13, RowParts DEF ReportsInv

\* A step of a deletion, which leaves the tasks and the broker alone.
LEMMA Outside ==
  ASSUME ReportsInv, RowStep, FileStep,
         UNCHANGED <<maker, inbox, task, errors, kills, repeats, lost>>,
         removal' \in [Clients -> Removal],
         \A c \in Clients : removal'[c].pc # "idle" => removal'[c].report \in Reports
  PROVE  ReportsInv'
  <1>1. TypeOK'
    BY DEF ReportsInv, TypeOK, RowStep, FileStep
  <1>2. InGoodHands'
    BY AwaitedFalls DEF ReportsInv, InGoodHands, Queued, Running
  <1>3. RetriesOutlastErrors'
    BY DEF ReportsInv, RetriesOutlastErrors
  <1>4. NamesStored'
    BY RowParts DEF ReportsInv, NamesStored, FileStep
  <1>5. BusyWithReport'
    BY DEF ReportsInv, BusyWithReport
  <1>6. MadeOnce'
    BY RowParts DEF ReportsInv, MadeOnce, Queued, Running
  <1>7. SeenBefore'
    BY DEF ReportsInv, SeenBefore, BusyWithReport, RowStep
  <1>8. ErrorsPaid'
    BY AwaitedFalls DEF ReportsInv, ErrorsPaid
  <1> QED
    BY <1>1, <1>2, <1>3, <1>4, <1>5, <1>6, <1>7, <1>8, RowParts DEF ReportsInv
-----------------------------------------------------------------------------
(* The steps of the task. *)

\* What is known of the worker w, which works on r.
LEMMA TaskOf ==
  ASSUME ReportsInv, NEW w \in Workers, NEW r \in Reports, task[w].report = r
  PROVE  /\ task[w] \in Task /\ task[w].attempt \in Attempts /\ task[w].attempt \in Nat
         /\ task[w].new \in BOOLEAN /\ task[w].old \in BOOLEAN
         /\ task[w].pc # "idle" /\ row[r] \in Row
         /\ errors \in 0..MaxErrors /\ errors \in Nat /\ MaxErrors \in Nat
         /\ task[w].new \/ task[w].old => stored[r] \/ erased[r]
         /\ Awaited(r) => errors >= task[w].attempt
         /\ Awaited(r) /\ task[w].pc \in {"undo", "error", "mark"} => errors > task[w].attempt
  BY ReportsConstants
  DEF ReportsInv, TypeOK, Task, BusyWithReport, NamesStored, ErrorsPaid, Attempts

\* A row that was committed once and is not generating is not awaited.
LEMMA GoneNotAwaited ==
  ASSUME ReportsInv, NEW r \in Reports, row[r].state # "none", ~Generating(row[r])
  PROVE  ~Awaited(r)
  BY DEF ReportsInv, MadeOnce, Awaited

\* A step to p that changes nothing else of the task.
LEMMA TaskGoto ==
  ASSUME ReportsInv, RowStep, FileStep, NEW w \in Workers,
         NEW p \in {"open", "upload", "check", "undo", "error"},
         Goto(w, p), UNCHANGED <<maker, inbox, removal, kills, repeats, lost>>,
         NEW r \in Reports, task[w].report = r,
         errors' \in 0..MaxErrors, errors' >= errors,
         p \in {"open", "upload", "check"} => row'[r].state # "none",
         p = "check" => ~Generating(row'[r]),
         p \in {"undo", "error"} => errors' > task[w].attempt \/ ~Awaited(r)'
  PROVE  ReportsInv'
  <1> DEFINE t == [task[w] EXCEPT !.pc = p]
  <1>1. task[w] \in Task /\ (task[w].new \/ task[w].old => stored[r] \/ erased[r])
    BY TaskOf
  <1>2. t \in Task /\ t.pc = p /\ t.report = r /\ t.attempt = task[w].attempt
        /\ t.new = task[w].new /\ t.old = task[w].old
    BY <1>1 DEF Task
  <1>3. task' = [task EXCEPT ![w] = t]
    BY DEF Goto, ReportsInv, TypeOK
  <1>4. t.new \/ t.old => stored'[r] \/ erased'[r]
    BY <1>1, <1>2 DEF FileStep
  <1> HIDE DEF t
  <1> QED
    BY <1>2, <1>3, <1>4, TaskGoes

\* An error is paid for.
LEMMA ErrorPays ==
  ASSUME ReportsInv, NEW w \in Workers, NEW r \in Reports, task[w].report = r,
         RowStep, UNCHANGED maker, Error
  PROVE  /\ errors' \in 0..MaxErrors /\ errors' >= errors /\ errors' \in Nat
         /\ errors' > task[w].attempt \/ ~Awaited(r)'
  <1>1. /\ errors \in 0..MaxErrors /\ errors \in Nat /\ MaxErrors \in Nat
        /\ task[w].attempt \in Nat /\ (Awaited(r) => errors >= task[w].attempt)
    BY TaskOf
  <1>2. Awaited(r)' => Awaited(r)
    BY AwaitedFalls
  <1> QED
    BY <1>1, <1>2 DEF Error

\* The row of r has been deleted: nobody waits for r.
LEMMA Missing ==
  ASSUME ReportsInv, NEW r \in Reports, row[r].state # "none", ~Live(r), RowStep, UNCHANGED maker
  PROVE  ~Awaited(r) /\ ~Awaited(r)'
  BY GoneNotAwaited, AwaitedFalls DEF Live, Generating

LEMMA TaskLoadInv ==
  ASSUME ReportsInv, NEW w \in Workers, NEW r \in Reports, task[w].report = r, TaskLoad(w)
  PROVE  ReportsInv'
  <1>0. /\ task[w].pc = "load"
        /\ UNCHANGED <<row, maker, inbox, removal, stored, kills, repeats, lost, erased>>
    BY DEF TaskLoad, At
  <1>1. RowStep /\ FileStep
    BY <1>0, NoChange
  <1>2. row[r].state # "none" /\ task[w] \in Task /\ row[r] \in Row /\ errors \in 0..MaxErrors
        /\ errors' >= errors
    BY <1>0, TaskOf DEF ReportsInv, SeenBefore, TaskLoad, NoError, Error
  <1>3. CASE /\ Live(r) /\ NoError
             /\ task' = [task EXCEPT ![w].pc = "open", ![w].old = row[r].url]
    <2> DEFINE t == [task[w] EXCEPT !.pc = "open", !.old = row[r].url]
    <2>1. t \in Task /\ t.pc = "open" /\ t.report = r /\ t.attempt = task[w].attempt
          /\ t.new = task[w].new /\ t.old = row[r].url
      BY <1>2 DEF Task, Row
    <2>2. task' = [task EXCEPT ![w] = t] /\ errors' = errors
      BY <1>3 DEF ReportsInv, TypeOK, NoError
    <2>3. t.new \/ t.old => stored'[r] \/ erased'[r]
      BY <2>1, <1>0, <1>3, TaskOf DEF ReportsInv, UrlHasFile
    <2> HIDE DEF t
    <2> QED
      BY <1>0, <1>1, <1>2, <2>1, <2>2, <2>3, TaskGoes
  <1>4. CASE ~Live(r) /\ NoError /\ Goto(w, "error")
    BY <1>0, <1>1, <1>2, <1>4, Missing, TaskGoto DEF NoError
  <1>5. CASE Error /\ Goto(w, "error")
    BY <1>0, <1>1, <1>5, ErrorPays, TaskGoto
  <1> QED
    BY <1>3, <1>4, <1>5 DEF TaskLoad

LEMMA TaskOpenInv ==
  ASSUME ReportsInv, NEW w \in Workers, NEW r \in Reports, task[w].report = r, TaskOpen(w)
  PROVE  ReportsInv'
  <1>0. /\ task[w].pc = "open"
        /\ UNCHANGED <<row, maker, inbox, removal, stored, kills, repeats, lost, erased>>
    BY DEF TaskOpen, At
  <1>1. RowStep /\ FileStep
    BY <1>0, NoChange
  <1>2. row[r].state # "none" /\ errors \in 0..MaxErrors /\ errors \in Nat
    BY <1>0, TaskOf DEF ReportsInv, SeenBefore
  <1>3. CASE Live(r) /\ NoError /\ Goto(w, "upload")
    BY <1>0, <1>1, <1>2, <1>3, TaskGoto DEF NoError
  <1>4. CASE ~Live(r) /\ NoError /\ Goto(w, "undo")
    BY <1>0, <1>1, <1>2, <1>4, Missing, TaskGoto DEF NoError
  <1>5. CASE Error /\ Goto(w, "undo")
    BY <1>0, <1>1, <1>5, ErrorPays, TaskGoto
  <1> QED
    BY <1>3, <1>4, <1>5 DEF TaskOpen

\* An upload only adds a file, and names it if it returns a URL.
LEMMA UploadStep ==
  ASSUME ReportsInv, NEW r \in Reports, NEW url \in BOOLEAN, Upload(r, url), UNCHANGED <<row, erased>>
  PROVE  RowStep /\ FileStep /\ (url => stored'[r] \/ erased'[r])
  <1>1. /\ stored \in [Reports -> BOOLEAN] /\ erased \in [Reports -> BOOLEAN]
        /\ row \in [Reports -> Row] /\ UrlHasFile
    BY DEF ReportsInv, TypeOK
  <1>2. stored' = stored \/ stored' = [stored EXCEPT ![r] = TRUE]
    BY DEF Upload
  <1>3. FileStep /\ (\A q \in Reports : stored[q] => stored'[q])
    BY <1>1, <1>2 DEF FileStep
  <1>4. RowStep
    BY <1>1, <1>3 DEF RowStep, UrlHasFile, Live
  <1>5. url => stored' = [stored EXCEPT ![r] = TRUE]
    BY DEF Upload
  <1>6. url => stored'[r]
    BY <1>1, <1>5
  <1> QED
    BY <1>3, <1>4, <1>6

LEMMA TaskUploadInv ==
  ASSUME ReportsInv, NEW w \in Workers, NEW r \in Reports, task[w].report = r, TaskUpload(w)
  PROVE  ReportsInv'
  <1>1. /\ task[w].pc = "upload"
        /\ UNCHANGED <<row, maker, inbox, removal, errors, kills, repeats, lost, erased>>
    BY DEF TaskUpload, At
  <1>2. PICK url \in BOOLEAN : /\ Upload(r, url)
                               /\ task' = [task EXCEPT ![w].pc = "save", ![w].new = url]
    BY DEF TaskUpload
  <1>3. RowStep /\ FileStep /\ (url => stored'[r] \/ erased'[r])
    BY <1>1, <1>2, UploadStep
  <1>4. row[r].state # "none" /\ task[w] \in Task /\ errors \in 0..MaxErrors /\ errors \in Nat
        /\ (task[w].old => stored'[r] \/ erased'[r])
    BY <1>1, <1>3, TaskOf DEF ReportsInv, SeenBefore, FileStep
  <1> DEFINE t == [task[w] EXCEPT !.pc = "save", !.new = url]
  <1>5. t \in Task /\ t.pc = "save" /\ t.report = r /\ t.attempt = task[w].attempt
        /\ t.new = url /\ t.old = task[w].old
    BY <1>4 DEF Task
  <1>6. task' = [task EXCEPT ![w] = t]
    BY <1>2 DEF ReportsInv, TypeOK
  <1>7. t.new \/ t.old => stored'[r] \/ erased'[r]
    BY <1>3, <1>4, <1>5
  <1>8. /\ errors' \in 0..MaxErrors /\ errors' >= errors /\ row'[r].state # "none"
        /\ UNCHANGED <<maker, inbox, removal, kills, repeats, lost>>
    BY <1>1, <1>4
  <1> HIDE DEF t
  <1> QED
    BY <1>3, <1>5, <1>6, <1>7, <1>8, TaskGoes

LEMMA TaskSaveInv ==
  ASSUME ReportsInv, NEW w \in Workers, NEW r \in Reports, task[w].report = r, TaskSave(w)
  PROVE  ReportsInv'
  <1> DEFINE x == Completed(task[w].new)
             saved == row' = [row EXCEPT ![r] = Updated(@, x)]
  <1>0. /\ task[w].pc = "save"
        /\ UNCHANGED <<maker, inbox, removal, stored, kills, repeats, lost, erased>>
        /\ \/ saved /\ NoError /\ Goto(w, IF row[r].state = "live" THEN "check" ELSE "undo")
           \/ saved /\ Error /\ Goto(w, "undo")
           \/ UNCHANGED row /\ Error /\ Goto(w, "undo")
    BY DEF TaskSave, At
  <1>1. /\ row[r].state # "none" /\ errors \in 0..MaxErrors /\ errors \in Nat
        /\ task[w].new \in BOOLEAN /\ (task[w].new => stored[r] \/ erased[r])
    BY <1>0, TaskOf DEF ReportsInv, SeenBefore
  <1>2. x \in Row /\ x.state = "live" /\ x.status # "generating" /\ (x.url => stored[r] \/ erased[r])
    BY <1>1, OutcomeRows
  <1>3. ASSUME saved PROVE RowStep /\ FileStep /\ ~Generating(row'[r])
    <2> HIDE DEF x
    <2> QED
      BY <1>0, <1>2, <1>3, OutcomeStep
  <1> HIDE DEF saved
  <1>4. CASE saved /\ NoError /\ Goto(w, IF row[r].state = "live" THEN "check" ELSE "undo")
    <2>1. row'[r].state # "none"
      BY <1>1, <1>3, <1>4 DEF RowStep
    <2>2. CASE row[r].state = "live"
      <3>1. Goto(w, "check")
        BY <1>4, <2>2
      <3> QED
        BY <3>1, <2>1, <1>0, <1>1, <1>3, <1>4, TaskGoto DEF NoError
    <2>3. CASE row[r].state # "live"
      <3>1. Goto(w, "undo") /\ ~Live(r)
        BY <1>4, <2>3 DEF Live
      <3>2. ~Awaited(r)'
        BY <3>1, <1>0, <1>1, <1>3, <1>4, Missing
      <3> QED
        BY <3>1, <3>2, <1>0, <1>1, <1>3, <1>4, TaskGoto DEF NoError
    <2> QED
      BY <2>2, <2>3
  <1>5. CASE saved /\ Error /\ Goto(w, "undo")
    BY <1>0, <1>3, <1>5, ErrorPays, TaskGoto
  <1>6. CASE UNCHANGED row /\ Error /\ Goto(w, "undo")
    <2>1. RowStep /\ FileStep
      BY <1>0, <1>6, NoChange
    <2> QED
      BY <2>1, <1>0, <1>6, ErrorPays, TaskGoto
  <1> QED
    BY <1>0, <1>4, <1>5, <1>6

LEMMA TaskUndoInv ==
  ASSUME ReportsInv, NEW w \in Workers, NEW r \in Reports, task[w].report = r, TaskUndo(w)
  PROVE  ReportsInv'
  <1> DEFINE x == Failed(task[w].old)
  <1>0. /\ task[w].pc = "undo" /\ Goto(w, "error")
        /\ UNCHANGED <<maker, inbox, removal, stored, kills, repeats, lost, erased>>
        /\ \/ row' = [row EXCEPT ![r] = Updated(@, x)] /\ NoError
           \/ UNCHANGED row /\ Error
    BY DEF TaskUndo, At
  <1>1. /\ errors \in 0..MaxErrors /\ errors \in Nat /\ task[w].attempt \in Nat
        /\ task[w].old \in BOOLEAN /\ (task[w].old => stored[r] \/ erased[r])
        /\ (Awaited(r) => errors > task[w].attempt)
    BY <1>0, TaskOf
  <1>2. x \in Row /\ x.state = "live" /\ x.status # "generating" /\ (x.url => stored[r] \/ erased[r])
    BY <1>1, OutcomeRows
  <1> HIDE DEF x
  <1>3. CASE row' = [row EXCEPT ![r] = Updated(@, x)] /\ NoError
    <2>1. RowStep /\ FileStep
      BY <1>0, <1>2, <1>3, OutcomeStep
    <2>2. Awaited(r)' => Awaited(r)
      BY <2>1, <1>0, AwaitedFalls
    <2> QED
      BY <2>1, <2>2, <1>0, <1>1, <1>3, TaskGoto DEF NoError
  <1>4. CASE UNCHANGED row /\ Error
    <2>1. RowStep /\ FileStep
      BY <1>0, <1>4, NoChange
    <2> QED
      BY <2>1, <1>0, <1>4, ErrorPays, TaskGoto
  <1> QED
    BY <1>0, <1>3, <1>4

LEMMA TaskCheckInv ==
  ASSUME ReportsInv, NEW w \in Workers, NEW r \in Reports, task[w].report = r, TaskCheck(w)
  PROVE  ReportsInv'
  <1>0. /\ task[w].pc = "check"
        /\ UNCHANGED <<row, maker, inbox, removal, stored, kills, repeats, lost, erased>>
    BY DEF TaskCheck, At
  <1>1. RowStep /\ FileStep
    BY <1>0, NoChange
  <1>2. /\ ~Generating(row[r]) /\ row[r].state # "none"
        /\ errors \in 0..MaxErrors /\ errors \in Nat
        /\ kills \in 0..MaxKills /\ repeats \in 0..MaxRepeats /\ 0 \in Attempts
    BY <1>0, TaskOf, ReportsConstants DEF ReportsInv, SeenBefore, TypeOK, Attempts
  <1>3. CASE NoError /\ Stop(w)
    <2>1. ~Awaited(r)'
      BY <1>0, <1>1, <1>2, GoneNotAwaited, AwaitedFalls
    <2>2. task' = [task EXCEPT ![w] = Idle] /\ errors' = errors
      BY <1>3 DEF Stop, NoError
    <2>3. /\ \/ inbox' = inbox
             \/ inbox' = [inbox EXCEPT ![r][0] = @ + 1] /\ (Awaited(r)' => errors' >= 0)
          /\ lost' = lost \/ lost' = [lost EXCEPT ![r] = "killed"]
          /\ "killed" = "exhausted" /\ lost' # lost => errors' > MaxRetries
          /\ Awaited(r)' => inbox' # inbox \/ lost' = [lost EXCEPT ![r] = "killed"]
      BY <2>1, <1>0
    <2>4. /\ UNCHANGED <<maker, removal>> /\ errors' \in 0..MaxErrors /\ errors' >= errors
          /\ kills' \in 0..MaxKills /\ repeats' \in 0..MaxRepeats
      BY <2>2, <1>0, <1>2
    <2> QED
      BY <2>2, <2>3, <2>4, <1>1, <1>2, TaskEnds
  <1>4. CASE Error /\ Goto(w, "error")
    BY <1>0, <1>1, <1>4, ErrorPays, TaskGoto
  <1> QED
    BY <1>0, <1>3, <1>4 DEF TaskCheck

\* A retried task hands its report on to the broker, or gives up a report that
\* is still awaited only when every attempt has been paid for.
LEMMA RetryEnds ==
  ASSUME ReportsInv, RowStep, FileStep, NEW w \in Workers, NEW r \in Reports, task[w].report = r,
         UNCHANGED <<maker, removal, kills, repeats>>, Stop(w),
         errors' \in 0..MaxErrors, errors' >= errors,
         NEW a \in Attempts, task[w].attempt = a,
         errors' > a \/ ~Awaited(r)',
         \/ Retryable(a) /\ Send(r, a + 1) /\ UNCHANGED lost
         \/ ~Retryable(a) /\ UNCHANGED inbox /\ Lose(r, "exhausted") /\ errors' > a
         \/ Retryable(a) /\ UNCHANGED inbox /\ Lose(r, "unsent")
         \/ UNCHANGED inbox /\ UNCHANGED lost /\ ~Awaited(r)'
  PROVE  ReportsInv'
  <1>1. /\ errors' \in Nat /\ a \in Nat /\ MaxRetries \in Nat /\ a <= MaxRetries
        /\ kills' \in 0..MaxKills /\ repeats' \in 0..MaxRepeats
    BY ReportsConstants DEF ReportsInv, TypeOK, Attempts
  <1>2. task' = [task EXCEPT ![w] = Idle]
    BY DEF Stop
  <1>3. CASE Retryable(a) /\ Send(r, a + 1) /\ UNCHANGED lost
    <2> DEFINE b == a + 1
    <2>1. b \in Attempts
      BY <1>1, <1>3 DEF Retryable, Attempts
    <2>2. inbox' = [inbox EXCEPT ![r][b] = @ + 1]
      BY <1>3 DEF Send
    <2>3. Awaited(r)' => errors' >= b
      BY <1>1
    <2>4. inbox' # inbox
      <3>1. inbox \in [Reports -> [Attempts -> Nat]]
        BY DEF ReportsInv, TypeOK
      <3>2. inbox'[r][b] = inbox[r][b] + 1 /\ inbox[r][b] \in Nat
        BY <3>1, <2>1, <2>2
      <3> QED
        BY <3>2
    <2> HIDE DEF b
    <2>5. /\ \/ inbox' = inbox
             \/ inbox' = [inbox EXCEPT ![r][b] = @ + 1] /\ (Awaited(r)' => errors' >= b)
          /\ lost' = lost \/ lost' = [lost EXCEPT ![r] = "killed"]
          /\ "killed" = "exhausted" /\ lost' # lost => errors' > MaxRetries
          /\ Awaited(r)' => inbox' # inbox \/ lost' = [lost EXCEPT ![r] = "killed"]
      BY <1>3, <2>2, <2>3, <2>4
    <2> QED
      BY <1>1, <1>2, <2>1, <2>5, TaskEnds
  <1>4. CASE ~Retryable(a) /\ UNCHANGED inbox /\ Lose(r, "exhausted") /\ errors' > a
    <2>1. a = MaxRetries
      BY <1>1, <1>4 DEF Retryable
    <2>2. /\ \/ inbox' = inbox
             \/ inbox' = [inbox EXCEPT ![r][a] = @ + 1] /\ (Awaited(r)' => errors' >= a)
          /\ lost' = lost \/ lost' = [lost EXCEPT ![r] = "exhausted"]
          /\ "exhausted" = "exhausted" /\ lost' # lost => errors' > MaxRetries
          /\ Awaited(r)' => inbox' # inbox \/ lost' = [lost EXCEPT ![r] = "exhausted"]
      BY <1>4, <2>1 DEF Lose
    <2>3. /\ UNCHANGED <<maker, removal>> /\ errors' \in 0..MaxErrors /\ errors' >= errors
          /\ kills' \in 0..MaxKills /\ repeats' \in 0..MaxRepeats
      BY <1>1
    <2> QED
      BY <1>2, <2>2, <2>3, TaskEnds
  <1>5. CASE \/ Retryable(a) /\ UNCHANGED inbox /\ Lose(r, "unsent")
             \/ UNCHANGED inbox /\ UNCHANGED lost /\ ~Awaited(r)'
    <2>1. /\ \/ inbox' = inbox
             \/ inbox' = [inbox EXCEPT ![r][a] = @ + 1] /\ (Awaited(r)' => errors' >= a)
          /\ lost' = lost \/ lost' = [lost EXCEPT ![r] = "unsent"]
          /\ "unsent" = "exhausted" /\ lost' # lost => errors' > MaxRetries
          /\ Awaited(r)' => inbox' # inbox \/ lost' = [lost EXCEPT ![r] = "unsent"]
      BY <1>5 DEF Lose
    <2>2. /\ UNCHANGED <<maker, removal>> /\ errors' \in 0..MaxErrors /\ errors' >= errors
          /\ kills' \in 0..MaxKills /\ repeats' \in 0..MaxRepeats
      BY <1>1
    <2> QED
      BY <1>2, <2>1, <2>2, TaskEnds
  <1> QED
    BY <1>3, <1>4, <1>5

LEMMA TaskErrorInv ==
  ASSUME ReportsInv, NEW w \in Workers, NEW r \in Reports, task[w].report = r, TaskError(w)
  PROVE  ReportsInv'
  <1>0. /\ task[w].pc = "error"
        /\ UNCHANGED <<row, maker, removal, stored, kills, repeats, erased>>
    BY DEF TaskError, At
  <1>1. RowStep /\ FileStep
    BY <1>0, NoChange
  <1> DEFINE a == task[w].attempt
  <1>2. /\ task[w] \in Task /\ row[r] \in Row /\ a \in Attempts /\ a \in Nat
        /\ errors \in 0..MaxErrors /\ errors \in Nat
        /\ (task[w].new => stored[r] \/ erased[r])
        /\ (Awaited(r) => errors > a)
    BY <1>0, TaskOf
  <1>3. CASE /\ Live(r) /\ NoError
             /\ task' = [task EXCEPT ![w].pc = "mark", ![w].old = row[r].url]
             /\ UNCHANGED <<inbox, lost>>
    <2> DEFINE t == [task[w] EXCEPT !.pc = "mark", !.old = row[r].url]
    <2>1. t \in Task /\ t.pc = "mark" /\ t.report = r /\ t.attempt = task[w].attempt
          /\ t.new = task[w].new /\ t.old = row[r].url
      BY <1>2 DEF Task, Row
    <2>2. task' = [task EXCEPT ![w] = t] /\ errors' = errors
      BY <1>3 DEF ReportsInv, TypeOK, NoError
    <2>3. t.new \/ t.old => stored'[r] \/ erased'[r]
      BY <2>1, <1>0, <1>2, <1>3 DEF ReportsInv, UrlHasFile
    <2>4. row'[r].state # "none"
      BY <1>0, <1>3 DEF Live
    <2>5. errors' > t.attempt \/ ~Awaited(r)'
      BY <2>1, <2>2, <1>1, <1>0, <1>2, AwaitedFalls
    <2>6. errors' \in 0..MaxErrors /\ errors' >= errors
      BY <1>2, <2>2
    <2>7. UNCHANGED <<maker, inbox, removal, kills, repeats, lost>>
      BY <1>0, <1>3
    <2> HIDE DEF t
    <2> QED
      BY <1>1, <2>1, <2>2, <2>3, <2>4, <2>5, <2>6, <2>7, TaskGoes
  <1>4. CASE ((~Live(r) /\ NoError) \/ Error) /\ Retry(w, Awaited(r))
    <2>1. errors' \in 0..MaxErrors /\ errors' \in Nat /\ errors' >= errors
      BY <1>1, <1>0, <1>2, <1>4, ErrorPays DEF NoError
    <2>2. Awaited(r) => errors' > a
      BY <2>1, <1>2
    <2>3. Awaited(r)' => Awaited(r)
      BY <1>0, <1>1, AwaitedFalls
    <2>4. /\ Stop(w)
          /\ \/ Retryable(a) /\ Send(r, a + 1) /\ UNCHANGED lost
             \/ ~Retryable(a) /\ UNCHANGED inbox /\ Awaited(r) /\ Lose(r, "exhausted")
             \/ Retryable(a) /\ UNCHANGED inbox /\ Awaited(r) /\ Lose(r, "unsent")
             \/ UNCHANGED inbox /\ ~Awaited(r) /\ UNCHANGED lost
      BY <1>4 DEF Retry
    <2> HIDE DEF a
    <2>5. \/ Retryable(a) /\ Send(r, a + 1) /\ UNCHANGED lost
          \/ ~Retryable(a) /\ UNCHANGED inbox /\ Lose(r, "exhausted") /\ errors' > a
          \/ Retryable(a) /\ UNCHANGED inbox /\ Lose(r, "unsent")
          \/ UNCHANGED inbox /\ UNCHANGED lost /\ ~Awaited(r)'
      BY <2>2, <2>3, <2>4
    <2>6. errors' > a \/ ~Awaited(r)'
      BY <2>2, <2>3
    <2>7. task[w].attempt = a
      BY DEF a
    <2> QED
      BY <2>1, <2>4, <2>5, <2>6, <2>7, <1>0, <1>1, <1>2, RetryEnds
  <1> QED
    BY <1>3, <1>4 DEF TaskError

LEMMA TaskMarkInv ==
  ASSUME ReportsInv, NEW w \in Workers, NEW r \in Reports, task[w].report = r, TaskMark(w)
  PROVE  ReportsInv'
  <1> DEFINE x == Failed(task[w].old)
             a == task[w].attempt
  <1>0. /\ task[w].pc = "mark"
        /\ UNCHANGED <<maker, removal, stored, kills, repeats, erased>>
    BY DEF TaskMark, At
  <1>1. /\ errors \in 0..MaxErrors /\ errors \in Nat /\ a \in Attempts /\ a \in Nat
        /\ task[w].old \in BOOLEAN /\ (task[w].old => stored[r] \/ erased[r])
        /\ (Awaited(r) => errors > a) /\ row[r].state # "none"
    BY <1>0, TaskOf DEF ReportsInv, SeenBefore
  <1>2. x \in Row /\ x.state = "live" /\ x.status # "generating" /\ (x.url => stored[r] \/ erased[r])
    BY <1>1, OutcomeRows
  <1> HIDE DEF x
  <1>3. CASE row' = [row EXCEPT ![r] = Updated(@, x)] /\ NoError /\ Retry(w, FALSE)
    <2>1. RowStep /\ FileStep /\ ~Generating(row'[r])
      BY <1>0, <1>2, <1>3, OutcomeStep
    <2>2. ~Awaited(r)'
      BY <2>1, <1>0, <1>1 DEF ReportsInv, MadeOnce, Awaited
    <2>3. /\ Stop(w)
          /\ \/ Retryable(a) /\ Send(r, a + 1) /\ UNCHANGED lost
             \/ UNCHANGED inbox /\ UNCHANGED lost
      BY <1>3 DEF Retry
    <2> HIDE DEF a
    <2>4. errors' = errors /\ task[w].attempt = a
      BY <1>3 DEF NoError, a
    <2> QED
      BY <2>1, <2>2, <2>3, <2>4, <1>0, <1>1, RetryEnds
  <1>4. CASE UNCHANGED row /\ Error /\ Retry(w, Awaited(r))
    <2>1. RowStep /\ FileStep
      BY <1>0, <1>4, NoChange
    <2>2. errors' \in 0..MaxErrors /\ errors' \in Nat /\ errors' >= errors
      BY <2>1, <1>0, <1>4, ErrorPays
    <2>3. (Awaited(r) => errors' > a) /\ (Awaited(r)' => Awaited(r))
      BY <2>1, <2>2, <1>0, <1>1, AwaitedFalls
    <2>4. /\ Stop(w)
          /\ \/ Retryable(a) /\ Send(r, a + 1) /\ UNCHANGED lost
             \/ ~Retryable(a) /\ UNCHANGED inbox /\ Awaited(r) /\ Lose(r, "exhausted")
             \/ Retryable(a) /\ UNCHANGED inbox /\ Awaited(r) /\ Lose(r, "unsent")
             \/ UNCHANGED inbox /\ ~Awaited(r) /\ UNCHANGED lost
      BY <1>4 DEF Retry
    <2> HIDE DEF a
    <2>5. \/ Retryable(a) /\ Send(r, a + 1) /\ UNCHANGED lost
          \/ ~Retryable(a) /\ UNCHANGED inbox /\ Lose(r, "exhausted") /\ errors' > a
          \/ Retryable(a) /\ UNCHANGED inbox /\ Lose(r, "unsent")
          \/ UNCHANGED inbox /\ UNCHANGED lost /\ ~Awaited(r)'
      BY <2>3, <2>4
    <2>6. errors' > a \/ ~Awaited(r)'
      BY <2>3
    <2>7. task[w].attempt = a
      BY DEF a
    <2> QED
      BY <2>1, <2>2, <2>4, <2>5, <2>6, <2>7, <1>0, <1>1, RetryEnds
  <1> QED
    BY <1>3, <1>4 DEF TaskMark, x

LEMMA KillInv ==
  ASSUME ReportsInv, NEW w \in Workers, NEW r \in Reports, task[w].report = r, Kill(w)
  PROVE  ReportsInv'
  <1>1. /\ UNCHANGED <<row, maker, inbox, removal, stored, errors, repeats, erased>>
        /\ task' = [task EXCEPT ![w] = Idle] /\ kills < MaxKills /\ kills' = kills + 1
        /\ IF Awaited(r) THEN lost' = [lost EXCEPT ![r] = "killed"] ELSE UNCHANGED lost
    BY DEF Kill, Stop, Lose
  <1>2. RowStep /\ FileStep
    BY <1>1, NoChange
  <1>3. /\ kills' \in 0..MaxKills /\ repeats' \in 0..MaxRepeats
        /\ errors' \in 0..MaxErrors /\ errors' >= errors /\ 0 \in Attempts
    BY <1>1, ReportsConstants DEF ReportsInv, TypeOK, Attempts
  <1>4. Awaited(r)' => Awaited(r)
    BY <1>1, <1>2, AwaitedFalls
  <1>5. /\ \/ inbox' = inbox
           \/ inbox' = [inbox EXCEPT ![r][0] = @ + 1] /\ (Awaited(r)' => errors' >= 0)
        /\ lost' = lost \/ lost' = [lost EXCEPT ![r] = "killed"]
        /\ "killed" = "exhausted" /\ lost' # lost => errors' > MaxRetries
        /\ Awaited(r)' => inbox' # inbox \/ lost' = [lost EXCEPT ![r] = "killed"]
    BY <1>1, <1>4
  <1> QED
    BY <1>1, <1>2, <1>3, <1>5, TaskEnds

\* A message is taken: its attempt is paid for if r is still awaited.
LEMMA TaskStartInv ==
  ASSUME ReportsInv, NEW w \in Workers, NEW r \in Reports, NEW a \in Attempts, TaskStart(w, r, a)
  PROVE  ReportsInv'
  <1> DEFINE t(p) == [Idle EXCEPT !.pc = p, !.report = r, !.attempt = a]
             stays == /\ UNCHANGED task /\ errors' = errors
                      /\ (lost' = lost /\ ~Awaited(r)) \/ lost' = [lost EXCEPT ![r] = "early"]
             goes(p) == /\ task' = [task EXCEPT ![w] = t(p)] /\ lost' = lost
                        /\ p = "load" => errors' = errors /\ row[r].state # "none"
                        /\ p = "error" => errors' = errors + 1 /\ errors < MaxErrors
  <1>0. /\ task[w].pc = "idle" /\ inbox[r][a] > 0
        /\ inbox' = [inbox EXCEPT ![r][a] = @ - 1]
        /\ UNCHANGED <<row, maker, removal, stored, kills, repeats, erased>>
    BY DEF TaskStart, At
  <1>1. /\ TypeOK /\ errors \in Nat /\ errors \in 0..MaxErrors /\ MaxErrors \in Nat
        /\ a \in Nat /\ task[w].report \notin Reports /\ (Awaited(r) => errors >= a)
    BY <1>0, ReportsConstants DEF ReportsInv, TypeOK, Attempts, BusyWithReport, ErrorsPaid
  <1>2. stays \/ goes("load") \/ goes("error")
    <2>1. CASE ~Live(r) /\ NoError /\ UNCHANGED task /\ IF Awaited(r) THEN Lose(r, "early") ELSE UNCHANGED lost
      BY <2>1 DEF NoError, Lose
    <2>2. CASE Live(r) /\ ~Generating(row[r]) /\ NoError /\ UNCHANGED <<task, lost>>
      BY <2>2, GoneNotAwaited DEF NoError, Live
    <2>3. CASE Generating(row[r]) /\ NoError /\ task' = [task EXCEPT ![w] = t("load")] /\ UNCHANGED lost
      BY <2>3 DEF NoError, Generating
    <2>4. CASE Error /\ task' = [task EXCEPT ![w] = t("error")] /\ UNCHANGED lost
      BY <2>4 DEF Error
    <2> QED
      BY <2>1, <2>2, <2>3, <2>4 DEF TaskStart
  <1>3. /\ inbox' \in [Reports -> [Attempts -> Nat]]
        /\ \A q \in Reports, b \in Attempts : /\ inbox'[q][b] > 0 => inbox[q][b] > 0
                                              /\ q # r => inbox'[q][b] = inbox[q][b]
    <2>1. inbox \in [Reports -> [Attempts -> Nat]] /\ inbox[r][a] - 1 \in Nat
      BY <1>0, <1>1 DEF TypeOK
    <2>2. [inbox[r] EXCEPT ![a] = @ - 1] \in [Attempts -> Nat]
      BY <2>1
    <2>3. inbox'[r] = [inbox[r] EXCEPT ![a] = @ - 1] /\ \A q \in Reports \ {r} : inbox'[q] = inbox[q]
      BY <1>0, <2>1
    <2>4. ASSUME NEW b \in Attempts, inbox'[r][b] > 0 PROVE inbox[r][b] > 0
      BY <1>0, <2>1, <2>3, <2>4
    <2> QED
      BY <1>0, <2>1, <2>2, <2>3, <2>4
  <1>4. \A p \in {"load", "error"} :
           t(p) \in Task /\ t(p).pc = p /\ t(p).report = r /\ t(p).attempt = a /\ ~t(p).new /\ ~t(p).old
    BY DEF Idle, Task
  <1> HIDE DEF t
  <1>5. /\ \A v \in Workers \ {w} : task'[v] = task[v]
        /\ \/ task'[w] = task[w] /\ errors' = errors
           \/ /\ task'[w] = t("load") /\ errors' = errors /\ row[r].state # "none"
              /\ task'[w] \in Task /\ task'[w].pc = "load"
              /\ task'[w].report = r /\ task'[w].attempt = a /\ ~task'[w].new /\ ~task'[w].old
           \/ /\ task'[w] = t("error") /\ errors' = errors + 1
              /\ task'[w] \in Task /\ task'[w].pc = "error"
              /\ task'[w].report = r /\ task'[w].attempt = a /\ ~task'[w].new /\ ~task'[w].old
    BY <1>1, <1>2, <1>4 DEF TypeOK
  <1>6. errors' \in 0..MaxErrors /\ errors' \in Nat /\ errors' >= errors
    BY <1>1, <1>2
  <1>7. TypeOK'
    <2>1. task' \in [Workers -> Task]
      BY <1>1, <1>2, <1>4 DEF TypeOK
    <2>2. lost' \in [Reports -> {"no", "early", "killed", "unsent", "exhausted"}]
      BY <1>1, <1>2 DEF TypeOK
    <2> QED
      BY <2>1, <2>2, <1>0, <1>1, <1>3, <1>6 DEF TypeOK
  <1>8. \A q \in Reports : Awaited(q)' <=> Awaited(q)
    BY <1>0 DEF Awaited
  <1>9. UrlHasFile'
    BY <1>0 DEF ReportsInv, UrlHasFile, Live
  <1>10. InGoodHands'
    <2> SUFFICES ASSUME NEW q \in Reports, Awaited(q)
                 PROVE  Queued(q)' \/ Running(q)' \/ lost'[q] # "no"
      BY <1>8 DEF InGoodHands
    <2>1. CASE q = r
      <3>1. CASE stays
        BY <2>1, <3>1, <1>1 DEF TypeOK
      <3>2. CASE goes("load") \/ goes("error")
        BY <2>1, <3>2, <1>1, <1>4 DEF TypeOK, Running
      <3> QED
        BY <3>1, <3>2, <1>2
    <2>2. CASE q # r
      <3>1. Queued(q) \/ Running(q) \/ lost[q] # "no"
        BY DEF ReportsInv, InGoodHands
      <3>2. Queued(q) => Queued(q)'
        BY <2>2, <1>3 DEF Queued
      <3>3. Running(q) => Running(q)'
        BY <2>2, <1>1, <1>5 DEF Running
      <3>4. lost'[q] = lost[q]
        BY <2>2, <1>1, <1>2 DEF TypeOK
      <3> QED
        BY <3>1, <3>2, <3>3, <3>4
    <2> QED
      BY <2>1, <2>2
  <1>11. RetriesOutlastErrors'
    <2> SUFFICES ASSUME NEW q \in Reports, lost'[q] = "exhausted"
                 PROVE  errors' > MaxRetries
      BY DEF RetriesOutlastErrors
    <2>1. lost[q] = "exhausted"
      BY <1>1, <1>2 DEF TypeOK
    <2> QED
      BY <2>1, <1>1, <1>6, ReportsConstants DEF ReportsInv, RetriesOutlastErrors
  <1> HIDE DEF stays, goes
  <1>12. NamesStored'
    BY <1>0, <1>5 DEF ReportsInv, NamesStored
  <1>13. BusyWithReport'
    BY <1>0, <1>5 DEF ReportsInv, BusyWithReport
  <1>14. MadeOnce'
    <2> SUFFICES ASSUME NEW q \in Reports, maker[q].pc \in {"none", "begun"}
                 PROVE  ~Queued(q)' /\ ~Running(q)'
      BY <1>0 DEF ReportsInv, MadeOnce
    <2>1. ~Queued(q) /\ ~Running(q)
      BY DEF ReportsInv, MadeOnce
    <2>2. q # r
      BY <2>1, <1>0 DEF Queued
    <2>3. ~Queued(q)'
      BY <2>1, <1>3 DEF Queued
    <2>4. ~Running(q)'
      BY <2>1, <2>2, <1>5 DEF Running
    <2> QED
      BY <2>3, <2>4
  <1>15. SeenBefore'
    BY <1>0, <1>5 DEF ReportsInv, SeenBefore
  <1>16. ErrorsPaid'
    <2> SUFFICES ASSUME NEW q \in Reports, Awaited(q)
                 PROVE  /\ \A b \in Attempts : inbox'[q][b] > 0 => errors' >= b
                        /\ \A v \in Workers : task'[v].report = q =>
                             /\ errors' >= task'[v].attempt
                             /\ task'[v].pc \in {"undo", "error", "mark"} => errors' > task'[v].attempt
      BY <1>8 DEF ErrorsPaid
    <2>1. ASSUME NEW b \in Attempts, inbox'[q][b] > 0 PROVE errors' >= b
      <3>1. errors >= b /\ b \in Nat
        BY <2>1, <1>3, ReportsConstants DEF ReportsInv, ErrorsPaid, Attempts
      <3> QED
        BY <3>1, <1>1, <1>6
    <2>2. ASSUME NEW v \in Workers, task'[v].report = q
          PROVE  /\ errors' >= task'[v].attempt
                 /\ task'[v].pc \in {"undo", "error", "mark"} => errors' > task'[v].attempt
      <3>1. CASE v = w
        BY <2>2, <3>1, <1>1, <1>5
      <3>2. CASE v # w
        <4>1. task'[v] = task[v] /\ task[v].attempt \in Nat
          BY <3>2, <1>1, <1>5, ReportsConstants DEF TypeOK, Task, Attempts
        <4>2. /\ errors >= task[v].attempt
              /\ task[v].pc \in {"undo", "error", "mark"} => errors > task[v].attempt
          BY <2>2, <4>1 DEF ReportsInv, ErrorsPaid
        <4> QED
          BY <4>1, <4>2, <1>1, <1>6
      <3> QED
        BY <3>1, <3>2
    <2> QED
      BY <2>1, <2>2
  <1> QED
    BY <1>7, <1>9, <1>10, <1>11, <1>12, <1>13, <1>14, <1>15, <1>16 DEF ReportsInv

-----------------------------------------------------------------------------
(* The steps of the request that creates a report. *)

\* A step of the request that creates r, which no task has seen yet.
LEMMA MakerSteps ==
  ASSUME ReportsInv, NEW r \in Reports, NEW m \in Maker,
         maker[r].pc # "over", maker' = [maker EXCEPT ![r] = m],
         UNCHANGED <<task, removal, errors, kills, repeats, lost, erased>>,
         FileStep,
         row' \in [Reports -> Row], \A q \in Reports \ {r} : row'[q] = row[q],
         inbox' \in [Reports -> [Attempts -> Nat]], \A q \in Reports \ {r} : inbox'[q] = inbox[q],
         row'[r].state = "live" /\ row'[r].url => stored'[r] \/ erased[r],
         m.draft.url => stored'[r] \/ erased[r],
         m.pc # "over" => row'[r].state = "none",
         m.pc = "ready" => m.draft.state = "live" /\ m.draft.status # "failed",
         m.pc \in {"none", "begun"} => ~Queued(r)' /\ ~Running(r),
         Awaited(r)' => Awaited(r) \/ ~Running(r),
         Awaited(r)' => Queued(r)' \/ Running(r) \/ lost[r] # "no",
         Awaited(r)' => \A a \in Attempts : inbox'[r][a] > 0 => errors >= a
  PROVE  ReportsInv'
  <1>0. TypeOK /\ row[r].state = "none"
    BY DEF ReportsInv, MadeOnce
  <1>1. maker'[r] = m /\ \A q \in Reports \ {r} : maker'[q] = maker[q]
    BY <1>0 DEF TypeOK
  <1>2. TypeOK'
    BY <1>0 DEF TypeOK, FileStep
  <1>3. \A q \in Reports \ {r} : /\ Awaited(q)' <=> Awaited(q)
                                 /\ Queued(q)' <=> Queued(q)
    BY <1>1 DEF Awaited, Queued
  <1>4. \A q \in Reports : Running(q)' <=> Running(q)
    BY DEF Running
  <1>5. UrlHasFile'
    BY DEF ReportsInv, UrlHasFile, Live, FileStep
  <1>6. InGoodHands'
    BY <1>3, <1>4 DEF ReportsInv, InGoodHands
  <1>7. RetriesOutlastErrors'
    BY DEF ReportsInv, RetriesOutlastErrors
  <1>8. NamesStored'
    <2>1. \A q \in Reports : maker'[q].draft.url => stored'[q] \/ erased'[q]
      BY <1>1 DEF ReportsInv, NamesStored, FileStep
    <2>2. \A w \in Workers : task'[w].report \in Reports /\ (task'[w].new \/ task'[w].old) =>
                               stored'[task'[w].report] \/ erased'[task'[w].report]
      BY DEF ReportsInv, NamesStored, FileStep
    <2> QED
      BY <2>1, <2>2 DEF NamesStored
  <1>9. BusyWithReport'
    BY DEF ReportsInv, BusyWithReport
  <1>10. MadeOnce'
    BY <1>1, <1>3, <1>4 DEF ReportsInv, MadeOnce
  <1>11. SeenBefore'
    BY <1>0 DEF ReportsInv, SeenBefore, BusyWithReport
  <1>12. ErrorsPaid'
    <2> SUFFICES ASSUME NEW q \in Reports, Awaited(q)'
                 PROVE  /\ \A a \in Attempts : inbox'[q][a] > 0 => errors >= a
                        /\ \A w \in Workers : task[w].report = q =>
                             /\ errors >= task[w].attempt
                             /\ task[w].pc \in {"undo", "error", "mark"} => errors > task[w].attempt
      BY DEF ErrorsPaid
    <2>1. CASE q # r
      BY <2>1, <1>3 DEF ReportsInv, ErrorsPaid
    <2>2. CASE q = r
      BY <2>2 DEF ReportsInv, ErrorsPaid, Running
    <2> QED
      BY <2>1, <2>2
  <1> QED
    BY <1>2, <1>5, <1>6, <1>7, <1>8, <1>9, <1>10, <1>11, <1>12 DEF ReportsInv

LEMMA MakerTypes ==
  ASSUME ReportsInv, NEW r \in Reports
  PROVE  /\ row \in [Reports -> Row] /\ row[r] \in Row
         /\ maker \in [Reports -> Maker] /\ maker[r] \in Maker /\ maker[r].draft \in Row
         /\ inbox \in [Reports -> [Attempts -> Nat]] /\ inbox[r] \in [Attempts -> Nat]
         /\ NoRow \in Row /\ NoRow.state = "none" /\ ~NoRow.url /\ 0 \in Attempts
         /\ stored \in [Reports -> BOOLEAN] /\ erased \in [Reports -> BOOLEAN]
  BY ReportsConstants DEF ReportsInv, TypeOK, Maker, Row, NoRow, Attempts

LEMMA BeginInv ==
  ASSUME ReportsInv, NEW r \in Reports, Begin(r)
  PROVE  ReportsInv'
  <1> DEFINE m == [maker[r] EXCEPT !.pc = "begun"]
  <1>1. /\ maker[r].pc = "none"
        /\ UNCHANGED <<row, inbox, task, removal, stored, errors, kills, repeats, lost, erased>>
    BY DEF Begin
  <1>2. m \in Maker /\ m.pc = "begun" /\ m.draft = maker[r].draft
    BY MakerTypes DEF Maker
  <1>3. maker' = [maker EXCEPT ![r] = m] /\ maker'[r] = m
    BY MakerTypes DEF Begin
  <1> HIDE DEF m
  <1>4. FileStep
    BY <1>1, NoChange
  <1>5. row[r].state = "none" /\ ~Queued(r) /\ ~Running(r)
    BY <1>1 DEF ReportsInv, MadeOnce
  <1>6. ~Awaited(r)' /\ ~Queued(r)'
    BY <1>1, <1>2, <1>3, <1>5 DEF Awaited, Generating, Queued
  <1>7. m.draft.url => stored'[r] \/ erased[r]
    BY <1>1, <1>2 DEF ReportsInv, NamesStored
  <1>8. row' \in [Reports -> Row] /\ inbox' \in [Reports -> [Attempts -> Nat]]
    BY <1>1, MakerTypes
  <1> QED
    BY <1>1, <1>2, <1>3, <1>4, <1>5, <1>6, <1>7, <1>8, MakerSteps

\* A message more for r.
LEMMA Sent ==
  ASSUME ReportsInv, NEW r \in Reports, NEW a \in Attempts, Send(r, a)
  PROVE  /\ inbox' \in [Reports -> [Attempts -> Nat]]
         /\ \A q \in Reports \ {r} : inbox'[q] = inbox[q]
         /\ inbox'[r][a] > 0
         /\ \A b \in Attempts : /\ inbox'[r][b] >= inbox[r][b]
                                /\ b # a => inbox'[r][b] = inbox[r][b]
  <1>1. inbox \in [Reports -> [Attempts -> Nat]] /\ inbox[r] \in [Attempts -> Nat]
    BY DEF ReportsInv, TypeOK
  <1>2. inbox'[r] = [inbox[r] EXCEPT ![a] = @ + 1] /\ \A q \in Reports \ {r} : inbox'[q] = inbox[q]
    BY <1>1 DEF Send
  <1>3. inbox'[r] \in [Attempts -> Nat]
    BY <1>1, <1>2
  <1>4. inbox' \in [Reports -> [Attempts -> Nat]]
    BY <1>1, <1>3 DEF Send
  <1> QED
    BY <1>1, <1>2, <1>4

LEMMA DispatchInv ==
  ASSUME ReportsInv, NEW r \in Reports, Dispatch(r)
  PROVE  ReportsInv'
  <1> DEFINE m == [pc |-> "ready", draft |-> [NoRow EXCEPT !.state = "live"]]
  <1>1. /\ maker[r].pc = "begun" /\ Send(r, 0) /\ maker' = [maker EXCEPT ![r] = m]
        /\ UNCHANGED <<row, task, removal, stored, errors, kills, repeats, lost, erased>>
    BY DEF Dispatch, Draft
  <1>2. m \in Maker /\ m.pc = "ready" /\ m.draft.state = "live" /\ ~m.draft.url
        /\ m.draft.status # "failed"
    BY DEF Maker, Row, NoRow
  <1> HIDE DEF m
  <1>3. FileStep
    BY <1>1, NoChange
  <1>4. row[r].state = "none" /\ ~Queued(r) /\ ~Running(r)
    BY <1>1 DEF ReportsInv, MadeOnce
  <1>5. /\ inbox' \in [Reports -> [Attempts -> Nat]] /\ \A q \in Reports \ {r} : inbox'[q] = inbox[q]
        /\ Queued(r)' /\ \A b \in Attempts : inbox'[r][b] > 0 => b = 0
    BY <1>1, <1>4, MakerTypes, Sent DEF Queued
  <1>6. \A b \in Attempts : inbox'[r][b] > 0 => errors >= b
    BY <1>5 DEF ReportsInv, TypeOK
  <1>7. row' \in [Reports -> Row]
    BY <1>1, MakerTypes
  <1> QED
    BY <1>1, <1>2, <1>3, <1>4, <1>5, <1>6, <1>7, MakerSteps

LEMMA GenerateNowInv ==
  ASSUME ReportsInv, NEW r \in Reports, GenerateNow(r)
  PROVE  ReportsInv'
  <1>1. /\ maker[r].pc = "begun"
        /\ Send(r, 0) \/ UNCHANGED inbox
        /\ UNCHANGED <<row, task, removal, errors, kills, repeats, lost, erased>>
    BY DEF GenerateNow
  <1>2. PICK url \in BOOLEAN : Upload(r, url) /\ Draft(r, Completed(url))
    BY DEF GenerateNow
  <1> DEFINE m == [pc |-> "ready", draft |-> Completed(url)]
  <1>3. /\ m \in Maker /\ m.pc = "ready" /\ m.draft.state = "live" /\ m.draft.url = url
        /\ ~Generating(m.draft) /\ m.draft.status # "failed"
    BY OutcomeRows DEF Maker, Generating, Completed
  <1>4. maker' = [maker EXCEPT ![r] = m] /\ maker'[r] = m
    BY <1>2, MakerTypes DEF Draft
  <1> HIDE DEF m
  <1>5. FileStep /\ (url => stored'[r] \/ erased'[r])
    BY <1>1, <1>2, UploadStep
  <1>6. row[r].state = "none"
    BY <1>1 DEF ReportsInv, MadeOnce
  <1>7. ~Awaited(r)'
    BY <1>1, <1>3, <1>4, <1>6 DEF Awaited, Generating
  <1>8. inbox' \in [Reports -> [Attempts -> Nat]] /\ \A q \in Reports \ {r} : inbox'[q] = inbox[q]
    BY <1>1, MakerTypes, Sent
  <1>9. row' \in [Reports -> Row]
    BY <1>1, MakerTypes
  <1> QED
    BY <1>1, <1>3, <1>4, <1>5, <1>6, <1>7, <1>8, <1>9, MakerSteps

LEMMA AbortInv ==
  ASSUME ReportsInv, NEW r \in Reports, Abort(r)
  PROVE  ReportsInv'
  <1> DEFINE m == [pc |-> "over", draft |-> NoRow]
  <1>1. /\ maker[r].pc \in {"begun", "ready"} /\ maker' = [maker EXCEPT ![r] = m]
        /\ UNCHANGED <<row, inbox, task, removal, stored, errors, kills, repeats, lost, erased>>
    BY DEF Abort
  <1>2. m \in Maker /\ m.pc = "over" /\ ~m.draft.url /\ maker'[r].pc = "over"
    BY <1>1, MakerTypes DEF Maker
  <1> HIDE DEF m
  <1>3. FileStep
    BY <1>1, NoChange
  <1>4. row[r].state = "none"
    BY <1>1 DEF ReportsInv, MadeOnce
  <1>5. ~Awaited(r)'
    BY <1>1, <1>2, <1>4 DEF Awaited, Generating
  <1>6. row' \in [Reports -> Row] /\ inbox' \in [Reports -> [Attempts -> Nat]]
    BY <1>1, MakerTypes
  <1> QED
    BY <1>1, <1>2, <1>3, <1>4, <1>5, <1>6, MakerSteps

LEMMA CommitInv ==
  ASSUME ReportsInv, NEW r \in Reports, Commit(r)
  PROVE  ReportsInv'
  <1> DEFINE m == [pc |-> "over", draft |-> NoRow]
             x == maker[r].draft
  <1>1. /\ maker[r].pc = "ready" /\ maker' = [maker EXCEPT ![r] = m]
        /\ row' = [row EXCEPT ![r] = x]
        /\ UNCHANGED <<inbox, task, removal, stored, errors, kills, repeats, lost, erased>>
    BY DEF Commit
  <1>2. m \in Maker /\ m.pc = "over" /\ ~m.draft.url /\ maker'[r].pc = "over"
    BY <1>1, MakerTypes DEF Maker
  <1> HIDE DEF m
  <1>3. FileStep
    BY <1>1, MakerTypes DEF FileStep
  <1>4. /\ row' \in [Reports -> Row] /\ row'[r] = x /\ \A q \in Reports \ {r} : row'[q] = row[q]
        /\ inbox' \in [Reports -> [Attempts -> Nat]]
    BY <1>1, MakerTypes
  <1>5. Awaited(r)' => Awaited(r)
    BY <1>1, <1>2, <1>4 DEF Awaited
  <1>6. x.url => stored[r] \/ erased[r]
    BY DEF ReportsInv, NamesStored
  <1>7. Awaited(r) => Queued(r) \/ Running(r) \/ lost[r] # "no"
    BY DEF ReportsInv, InGoodHands
  <1>8. Queued(r)' <=> Queued(r)
    BY <1>1 DEF Queued
  <1>9. Awaited(r) => \A a \in Attempts : inbox[r][a] > 0 => errors >= a
    BY DEF ReportsInv, ErrorsPaid
  <1>10. Awaited(r)' => \A a \in Attempts : inbox'[r][a] > 0 => errors >= a
    BY <1>1, <1>5, <1>9
  <1> QED
    BY <1>1, <1>2, <1>3, <1>4, <1>5, <1>6, <1>7, <1>8, <1>10, MakerSteps

-----------------------------------------------------------------------------
(* The broker and the deletions. *)

LEMMA RepeatInv ==
  ASSUME ReportsInv, NEW r \in Reports, NEW a \in Attempts, Repeat(r, a)
  PROVE  ReportsInv'
  <1>1. /\ inbox[r][a] > 0 /\ Send(r, a) /\ repeats < MaxRepeats /\ repeats' = repeats + 1
        /\ UNCHANGED <<row, maker, task, removal, stored, errors, kills, lost, erased>>
    BY DEF Repeat
  <1>2. RowStep /\ FileStep
    BY <1>1, NoChange
  <1>3. /\ inbox' \in [Reports -> [Attempts -> Nat]]
        /\ \A q \in Reports, b \in Attempts : inbox'[q][b] > 0 <=> inbox[q][b] > 0
    <2>1. inbox \in [Reports -> [Attempts -> Nat]]
      BY MakerTypes DEF ReportsInv, TypeOK
    <2>2. /\ inbox' \in [Reports -> [Attempts -> Nat]]
          /\ \A q \in Reports \ {r} : inbox'[q] = inbox[q]
          /\ inbox'[r][a] > 0
          /\ \A b \in Attempts : b # a => inbox'[r][b] = inbox[r][b]
      BY <1>1, Sent
    <2> QED
      BY <1>1, <2>1, <2>2
  <1>4. TypeOK'
    BY <1>1, <1>3, ReportsConstants DEF ReportsInv, TypeOK
  <1>5. \A q \in Reports : /\ Awaited(q)' <=> Awaited(q)
                           /\ Queued(q)' <=> Queued(q)
                           /\ Running(q)' <=> Running(q)
    BY <1>1, <1>3 DEF Awaited, Queued, Running
  <1>6. InGoodHands'
    BY <1>1, <1>5 DEF ReportsInv, InGoodHands
  <1>7. RetriesOutlastErrors'
    BY <1>1 DEF ReportsInv, RetriesOutlastErrors
  <1>8. UrlHasFile' /\ NamesStored' /\ BusyWithReport' /\ SeenBefore'
    BY <1>1 DEF ReportsInv, UrlHasFile, Live, NamesStored, BusyWithReport, SeenBefore
  <1>9. MadeOnce'
    BY <1>1, <1>5 DEF ReportsInv, MadeOnce
  <1>10. ErrorsPaid'
    BY <1>1, <1>3, <1>5 DEF ReportsInv, ErrorsPaid
  <1> QED
    BY <1>4, <1>6, <1>7, <1>8, <1>9, <1>10 DEF ReportsInv

\* Deleting a row takes it away from clients, and from nobody who waits.
LEMMA RemovedStep ==
  ASSUME ReportsInv, NEW r \in Reports, row' = [row EXCEPT ![r] = Removed(@)], UNCHANGED <<stored, erased>>
  PROVE  RowStep /\ FileStep /\ row'[r] = Removed(row[r]) /\ \A q \in Reports \ {r} : row'[q] = row[q]
  <1>1. row \in [Reports -> Row] /\ row[r] \in Row /\ UrlHasFile
    BY MakerTypes DEF ReportsInv
  <1>2. row'[r] = Removed(row[r]) /\ \A q \in Reports \ {r} : row'[q] = row[q]
    BY <1>1
  <1>3. /\ Removed(row[r]) \in Row
        /\ Removed(row[r]).state = "none" <=> row[r].state = "none"
        /\ Removed(row[r]).state # "live"
    BY <1>1 DEF Removed, NoRow, Row
  <1>4. row' \in [Reports -> Row]
    BY <1>1, <1>3
  <1>5. ASSUME NEW q \in Reports
        PROVE  /\ row'[q].state = "none" <=> row[q].state = "none"
               /\ Generating(row'[q]) => Generating(row[q])
               /\ row'[q].state = "live" /\ row'[q].url => stored'[q] \/ erased'[q]
    <2>1. CASE q = r
      BY <2>1, <1>2, <1>3 DEF Generating
    <2>2. CASE q # r
      BY <2>2, <1>1, <1>2 DEF UrlHasFile, Live
    <2> QED
      BY <2>1, <2>2
  <1> QED
    BY <1>2, <1>4, <1>5, MakerTypes DEF RowStep, FileStep

LEMMA DeletingInv ==
  ASSUME ReportsInv, NEW c \in Clients, Deleting(c)
  PROVE  ReportsInv'
  <1>0. /\ removal \in [Clients -> Removal]
        /\ \A d \in Clients : removal[d].pc # "idle" => removal[d].report \in Reports
        /\ NoRemoval \in Removal /\ NoRemoval.pc = "idle"
    BY DEF ReportsInv, TypeOK, BusyWithReport, NoRemoval, Removal
  <1>1. ASSUME NEW r \in Reports, DeleteRead(c, r)
        PROVE  ReportsInv'
    <2> DEFINE m == [pc |-> "file", report |-> r, url |-> row[r].url]
    <2>1. /\ removal' = [removal EXCEPT ![c] = m]
          /\ UNCHANGED <<row, maker, inbox, task, stored, errors, kills, repeats, lost, erased>>
      BY <1>1 DEF DeleteRead
    <2>2. m \in Removal /\ m.report \in Reports
      BY MakerTypes DEF Removal, Row
    <2> HIDE DEF m
    <2>3. /\ removal' \in [Clients -> Removal]
          /\ \A d \in Clients : removal'[d].pc # "idle" => removal'[d].report \in Reports
      BY <1>0, <2>1, <2>2
    <2> QED
      BY <2>1, <2>3, NoChange, Outside
  <1>2. CASE DeleteFile(c)
    <2>1. /\ removal' = [removal EXCEPT ![c].pc = "row"] /\ removal[c].pc = "file"
          /\ UNCHANGED <<row, maker, inbox, task, errors, kills, repeats, lost>>
      BY <1>2 DEF DeleteFile
    <2>2. /\ removal' \in [Clients -> Removal]
          /\ \A d \in Clients : removal'[d].pc # "idle" => removal'[d].report \in Reports
      BY <1>0, <2>1 DEF Removal
    <2>3. FileStep
      BY <1>2, MakerTypes DEF DeleteFile, FileStep, ReportsInv, TypeOK
    <2>4. RowStep
      BY <2>1, <2>3 DEF ReportsInv, TypeOK, UrlHasFile, Live, RowStep, FileStep
    <2> QED
      BY <2>1, <2>2, <2>3, <2>4, Outside
  <1>3. CASE DeleteRow(c)
    <2> DEFINE r == removal[c].report
    <2>1. /\ removal[c].pc = "row" /\ removal' = [removal EXCEPT ![c] = NoRemoval]
          /\ row' = [row EXCEPT ![r] = Removed(@)]
          /\ UNCHANGED <<maker, inbox, task, stored, errors, kills, repeats, lost, erased>>
      BY <1>3 DEF DeleteRow
    <2>2. /\ removal' \in [Clients -> Removal]
          /\ \A d \in Clients : removal'[d].pc # "idle" => removal'[d].report \in Reports
      BY <1>0, <2>1
    <2>3. RowStep /\ FileStep
      BY <1>0, <2>1, RemovedStep
    <2> QED
      BY <2>1, <2>2, <2>3, Outside
  <1>4. CASE DeleteFails(c)
    <2>1. /\ removal' = [removal EXCEPT ![c] = NoRemoval]
          /\ UNCHANGED <<row, maker, inbox, task, stored, errors, kills, repeats, lost, erased>>
      BY <1>4 DEF DeleteFails
    <2>2. /\ removal' \in [Clients -> Removal]
          /\ \A d \in Clients : removal'[d].pc # "idle" => removal'[d].report \in Reports
      BY <1>0, <2>1
    <2> QED
      BY <2>1, <2>2, NoChange, Outside
  <1> QED
    BY <1>1, <1>2, <1>3, <1>4 DEF Deleting

LEMMA BusinessDeletedInv ==
  ASSUME ReportsInv, NEW r \in Reports, BusinessDeleted(r)
  PROVE  ReportsInv'
  <1>1. /\ row' = [row EXCEPT ![r] = Removed(@)]
        /\ UNCHANGED <<maker, inbox, task, removal, stored, errors, kills, repeats, lost, erased>>
    BY DEF BusinessDeleted
  <1>2. /\ removal' \in [Clients -> Removal]
        /\ \A d \in Clients : removal'[d].pc # "idle" => removal'[d].report \in Reports
    BY <1>1 DEF ReportsInv, TypeOK, BusyWithReport
  <1> QED
    BY <1>1, <1>2, RemovedStep, Outside
-----------------------------------------------------------------------------
(* The theorems. *)

LEMMA InitInv == Init => ReportsInv
  <1> SUFFICES ASSUME Init PROVE ReportsInv
    OBVIOUS
  <1>1. /\ NoRow \in Row /\ NoRow.state = "none" /\ ~NoRow.url
        /\ [pc |-> "none", draft |-> NoRow] \in Maker
        /\ Idle \in Task /\ Idle.pc = "idle" /\ Idle.report = NoReport
        /\ NoRemoval \in Removal /\ NoRemoval.pc = "idle"
    BY ReportsConstants DEF NoRow, Row, Maker, Idle, Task, NoRemoval, Removal, Attempts
  <1>2. TypeOK
    BY <1>1, ReportsConstants DEF Init, TypeOK
  <1>3. \A r \in Reports : ~Awaited(r) /\ ~Queued(r) /\ ~Running(r) /\ ~Live(r)
    <2> SUFFICES ASSUME NEW r \in Reports
                 PROVE  ~Awaited(r) /\ ~Queued(r) /\ ~Running(r) /\ ~Live(r)
      OBVIOUS
    <2>1. row[r] = NoRow /\ maker[r].pc = "none" /\ inbox[r] = [a \in Attempts |-> 0]
      BY DEF Init
    <2>2. ~Awaited(r) /\ ~Live(r)
      BY <1>1, <2>1 DEF Awaited, Generating, Live
    <2>3. ~Queued(r)
      BY <2>1 DEF Queued
    <2>4. ~Running(r)
      BY <1>1, ReportsConstants DEF Init, Running
    <2> QED
      BY <2>2, <2>3, <2>4
  <1>4. UrlHasFile /\ InGoodHands /\ RetriesOutlastErrors /\ ErrorsPaid
    BY <1>3 DEF Init, UrlHasFile, InGoodHands, RetriesOutlastErrors, ErrorsPaid
  <1>5. NamesStored /\ BusyWithReport /\ SeenBefore
    BY <1>1, ReportsConstants DEF Init, NamesStored, BusyWithReport, SeenBefore
  <1>6. MadeOnce
    BY <1>1, <1>3 DEF Init, MadeOnce
  <1> QED
    BY <1>2, <1>4, <1>5, <1>6 DEF ReportsInv

LEMMA TaskStepInv ==
  ASSUME ReportsInv, NEW w \in Workers, TaskStep(w) \/ Kill(w)
  PROVE  ReportsInv'
  <1>1. task[w].pc # "idle"
    BY DEF TaskStep, Kill, At, TaskLoad, TaskOpen, TaskUpload, TaskSave, TaskUndo, TaskCheck, TaskError, TaskMark
  <1>2. PICK r \in Reports : task[w].report = r
    BY <1>1 DEF ReportsInv, BusyWithReport
  <1> QED
    BY <1>2, TaskLoadInv, TaskOpenInv, TaskUploadInv, TaskSaveInv, TaskUndoInv, TaskCheckInv,
       TaskErrorInv, TaskMarkInv, KillInv DEF TaskStep

LEMMA NextInv ==
  ASSUME ReportsInv, [Next]_vars
  PROVE  ReportsInv'
  <1>1. ASSUME NEW r \in Reports, Making(r) PROVE ReportsInv'
    BY <1>1, BeginInv, DispatchInv, GenerateNowInv, AbortInv, CommitInv DEF Making
  <1>2. ASSUME NEW r \in Reports, Take(r) PROVE ReportsInv'
    BY <1>2, TaskStartInv DEF Take
  <1>3. ASSUME NEW r \in Reports, BusinessDeleted(r) PROVE ReportsInv'
    BY <1>3, BusinessDeletedInv
  <1>4. ASSUME NEW r \in Reports, NEW a \in Attempts, Repeat(r, a) PROVE ReportsInv'
    BY <1>4, RepeatInv
  <1>5. ASSUME NEW w \in Workers, TaskStep(w) \/ Kill(w) PROVE ReportsInv'
    BY <1>5, TaskStepInv
  <1>6. ASSUME NEW c \in Clients, Deleting(c) PROVE ReportsInv'
    BY <1>6, DeletingInv
  <1>7. CASE UNCHANGED vars
    BY <1>7 DEF vars, ReportsInv, TypeOK, UrlHasFile, InGoodHands, RetriesOutlastErrors, NamesStored,
       BusyWithReport, MadeOnce, SeenBefore, ErrorsPaid, Live, Awaited, Queued, Running
  <1> QED
    BY <1>1, <1>2, <1>3, <1>4, <1>5, <1>6, <1>7 DEF Next

\* The invariant holds in every reachable state, for any number of reports,
\* workers and deletions, and any bound on retries and faults.
THEOREM ReportsInvariant == Spec => []ReportsInv
  <1>1. ReportsInv /\ [Next]_vars => ReportsInv'
    BY NextInv
  <1> QED
    BY InitInv, <1>1, PTL DEF Spec

\* A file URL that a client can see names a file in S3 that no deletion has
\* removed, whichever task wrote the row last.
THEOREM ReportsUrlHasFile == Spec => []UrlHasFile
  <1>1. ReportsInv => UrlHasFile
    BY DEF ReportsInv
  <1> QED
    BY <1>1, ReportsInvariant, PTL

\* A generating report has a message or a task, or one of the four ways to
\* lose it has happened.
THEOREM ReportsInGoodHands == Spec => []InGoodHands
  <1>1. ReportsInv => InGoodHands
    BY DEF ReportsInv
  <1> QED
    BY <1>1, ReportsInvariant, PTL

\* Giving a report up takes more failing calls than there are retries.
THEOREM ReportsRetriesOutlastErrors == Spec => []RetriesOutlastErrors
  <1>1. ReportsInv => RetriesOutlastErrors
    BY DEF ReportsInv
  <1> QED
    BY <1>1, ReportsInvariant, PTL

-----------------------------------------------------------------------------
(* Reports implements ReportLife. *)

\* What clients see changes where a row does.
LEMMA OneRow ==
  ASSUME NEW r \in Reports, \A q \in Reports \ {r} : row'[q] = row[q]
  PROVE  [q \in Reports |-> Phase(row'[q])] =
           [[q \in Reports |-> Phase(row[q])] EXCEPT ![r] = Phase(row'[r])]
  OBVIOUS

LEMMA SameRows ==
  ASSUME UNCHANGED row
  PROVE  UNCHANGED [q \in Reports |-> Phase(row[q])]
  BY DEF Phase

\* A step that writes an outcome to a row settles it, if the row is there.
LEMMA OutcomeSettles ==
  ASSUME ReportsInv, NEW r \in Reports, NEW x \in Row, x.state = "live", x.status # "generating",
         row' = [row EXCEPT ![r] = Updated(@, x)]
  PROVE  Life!Settle(r) \/ UNCHANGED row
  <1>1. row \in [Reports -> Row] /\ row[r] \in Row
    BY MakerTypes
  <1>2. row'[r] = Updated(row[r], x) /\ \A q \in Reports \ {r} : row'[q] = row[q]
    BY <1>1
  <1>3. CASE row[r].state = "live"
    <2>1. Phase(row'[r]) = x.status /\ x.status \in Life!Outcomes
      BY <1>2, <1>3 DEF Updated, Phase, Row, Life!Outcomes
    <2>2. Phase(row[r]) = row[r].status /\ row[r].status \in Life!Outcomes \cup {"generating"}
      BY <1>1, <1>3 DEF Phase, Row, Life!Outcomes
    <2>3. [q \in Reports |-> Phase(row[q])][r] = Phase(row[r])
      OBVIOUS
    <2> QED
      BY <1>2, <2>1, <2>2, <2>3, OneRow DEF Life!Settle
  <1>4. CASE row[r].state # "live"
    <2>1. row' = row
      BY <1>1, <1>4 DEF Updated
    <2> QED
      BY <2>1
  <1> QED
    BY <1>3, <1>4

\* A step that removes a row deletes it, if the row is there.
LEMMA RemovedDeletes ==
  ASSUME ReportsInv, NEW r \in Reports, row' = [row EXCEPT ![r] = Removed(@)]
  PROVE  Life!Delete(r) \/ UNCHANGED row
  <1>1. row \in [Reports -> Row] /\ row[r] \in Row
    BY MakerTypes
  <1>2. row'[r] = Removed(row[r]) /\ \A q \in Reports \ {r} : row'[q] = row[q]
    BY <1>1
  <1>3. CASE row[r].state = "live"
    <2>1. Phase(row'[r]) = "deleted"
      BY <1>2, <1>3 DEF Removed, NoRow, Phase
    <2>2. Phase(row[r]) = row[r].status /\ row[r].status \in Life!Outcomes \cup {"generating"}
      BY <1>1, <1>3 DEF Phase, Row, Life!Outcomes
    <2>3. [q \in Reports |-> Phase(row[q])][r] = Phase(row[r])
      OBVIOUS
    <2> QED
      BY <1>2, <2>1, <2>2, <2>3, OneRow DEF Life!Delete
  <1>4. CASE row[r].state # "live"
    <2>1. row' = row
      BY <1>1, <1>4 DEF Removed
    <2> QED
      BY <2>1
  <1> QED
    BY <1>3, <1>4

LEMMA CommitAppears ==
  ASSUME ReportsInv, NEW r \in Reports, Commit(r)
  PROVE  Life!Appear(r)
  <1>1. /\ maker[r].pc = "ready" /\ row' = [row EXCEPT ![r] = maker[r].draft]
        /\ row[r].state = "none"
        /\ maker[r].draft.state = "live" /\ maker[r].draft.status # "failed"
    BY DEF Commit, ReportsInv, MadeOnce
  <1>2. row'[r] = maker[r].draft /\ maker[r].draft \in Row /\ \A q \in Reports \ {r} : row'[q] = row[q]
    BY <1>1, MakerTypes
  <1>3. Phase(row[r]) = "none" /\ Phase(row'[r]) \in {"generating", "completed"}
    BY <1>1, <1>2 DEF Phase, Row
  <1>4. [q \in Reports |-> Phase(row[q])][r] = Phase(row[r])
    OBVIOUS
  <1> QED
    BY <1>2, <1>3, <1>4, OneRow DEF Life!Appear

LEMMA TaskStepSettles ==
  ASSUME ReportsInv, NEW w \in Workers, TaskStep(w) \/ Kill(w)
  PROVE  (\E r \in Reports : Life!Settle(r)) \/ UNCHANGED row
  <1>1. CASE TaskSave(w)
    <2>1. PICK r \in Reports : task[w].report = r
      BY <1>1 DEF TaskSave, At, ReportsInv, BusyWithReport
    <2> DEFINE x == Completed(task[w].new)
    <2>2. x \in Row /\ x.state = "live" /\ x.status # "generating"
      BY <2>1, TaskOf, OutcomeRows
    <2>3. row' = [row EXCEPT ![r] = Updated(@, x)] \/ UNCHANGED row
      BY <1>1, <2>1 DEF TaskSave
    <2> HIDE DEF x
    <2> QED
      BY <2>2, <2>3, OutcomeSettles
  <1>2. CASE TaskUndo(w) \/ TaskMark(w)
    <2>1. PICK r \in Reports : task[w].report = r
      BY <1>2 DEF TaskUndo, TaskMark, At, ReportsInv, BusyWithReport
    <2> DEFINE x == Failed(task[w].old)
    <2>2. x \in Row /\ x.state = "live" /\ x.status # "generating"
      BY <2>1, TaskOf, OutcomeRows
    <2>3. row' = [row EXCEPT ![r] = Updated(@, x)] \/ UNCHANGED row
      BY <1>2, <2>1 DEF TaskUndo, TaskMark
    <2> HIDE DEF x
    <2> QED
      BY <2>2, <2>3, OutcomeSettles
  <1>3. CASE TaskLoad(w) \/ TaskOpen(w) \/ TaskUpload(w) \/ TaskCheck(w) \/ TaskError(w) \/ Kill(w)
    BY <1>3 DEF TaskLoad, TaskOpen, TaskUpload, TaskCheck, TaskError, Kill
  <1> QED
    BY <1>1, <1>2, <1>3 DEF TaskStep

LEMMA LifeStep ==
  ASSUME ReportsInv, [Next]_vars
  PROVE  [Life!Next]_([r \in Reports |-> Phase(row[r])])
  <1>1. ASSUME NEW r \in Reports, Making(r) PROVE Life!Appear(r) \/ UNCHANGED row
    <2>1. CASE Commit(r)
      BY <2>1, CommitAppears
    <2>2. CASE Begin(r) \/ Dispatch(r) \/ GenerateNow(r) \/ Abort(r)
      BY <2>2 DEF Begin, Dispatch, GenerateNow, Abort
    <2> QED
      BY <1>1, <2>1, <2>2 DEF Making
  <1>2. ASSUME NEW r \in Reports, BusinessDeleted(r) PROVE Life!Delete(r) \/ UNCHANGED row
    BY <1>2, RemovedDeletes DEF BusinessDeleted
  <1>3. ASSUME NEW c \in Clients, Deleting(c) PROVE (\E r \in Reports : Life!Delete(r)) \/ UNCHANGED row
    <2>1. CASE DeleteRow(c)
      <3>1. PICK r \in Reports : r = removal[c].report
        BY <2>1 DEF DeleteRow, ReportsInv, BusyWithReport
      <3>2. row' = [row EXCEPT ![r] = Removed(@)]
        BY <2>1, <3>1 DEF DeleteRow
      <3> QED
        BY <3>2, RemovedDeletes
    <2>2. CASE (\E r \in Reports : DeleteRead(c, r)) \/ DeleteFile(c) \/ DeleteFails(c)
      BY <2>2 DEF DeleteRead, DeleteFile, DeleteFails
    <2> QED
      BY <1>3, <2>1, <2>2 DEF Deleting
  <1>4. ASSUME NEW r \in Reports, NEW a \in Attempts,
               Repeat(r, a) \/ \E w \in Workers : TaskStart(w, r, a)
        PROVE  UNCHANGED row
    BY <1>4 DEF Repeat, TaskStart
  <1>5. Life!Next \/ UNCHANGED row
    <2>1. ASSUME NEW r \in Reports, Life!Appear(r) \/ Life!Settle(r) \/ Life!Delete(r)
          PROVE  Life!Next
      BY <2>1 DEF Life!Next
    <2>2. CASE \E r \in Reports : Making(r) \/ BusinessDeleted(r)
      BY <2>1, <2>2, <1>1, <1>2
    <2>3. CASE \/ \E r \in Reports : Take(r)
               \/ \E r \in Reports, a \in Attempts : Repeat(r, a)
      BY <2>3, <1>4 DEF Take
    <2>4. CASE \E w \in Workers : TaskStep(w) \/ Kill(w)
      BY <2>1, <2>4, TaskStepSettles
    <2>5. CASE \E c \in Clients : Deleting(c)
      BY <2>1, <2>5, <1>3
    <2>6. \/ \E r \in Reports : Making(r) \/ BusinessDeleted(r)
          \/ \E r \in Reports : Take(r)
          \/ \E r \in Reports, a \in Attempts : Repeat(r, a)
          \/ \E w \in Workers : TaskStep(w) \/ Kill(w)
          \/ \E c \in Clients : Deleting(c)
          \/ UNCHANGED vars
      BY DEF Next
    <2>7. CASE UNCHANGED vars
      BY <2>7 DEF vars
    <2> QED
      BY <2>2, <2>3, <2>4, <2>5, <2>6, <2>7
  <1> QED
    BY <1>5, SameRows

\* What clients see of reports is what ReportLife promises: no report goes back
\* to generating, and none comes back after its deletion.
THEOREM ReportsImplementLife == Spec => LifeSpec
  <1>1. Init => Life!Init
    BY DEF Init, NoRow, Phase, Life!Init
  <1>2. ReportsInv /\ [Next]_vars => [Life!Next]_([r \in Reports |-> Phase(row[r])])
    BY LifeStep
  <1> QED
    BY <1>1, <1>2, ReportsInvariant, PTL DEF Spec, LifeSpec, Life!Spec
=============================================================================
