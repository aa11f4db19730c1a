------------------------------- MODULE Reports -------------------------------
(***************************************************************************)
(* Report rows, the files they name in S3, and the Celery task between     *)
(* (application/use_cases/report_use_cases.py, tasks/report_tasks.py).     *)
(*                                                                         *)
(* The request that creates a report runs in one transaction and sends the *)
(* task to the broker before it commits.  The task runs without a          *)
(* transaction: every query of it is a step, any of them may fail, and     *)
(* each failure leads to a handler of its own.  The broker hands a message *)
(* to a worker before the task runs (acks_late is off), so a killed worker *)
(* loses it; it may also deliver a message twice.                          *)
(*                                                                         *)
(* The payload of a report is written in the transaction that creates it   *)
(* and only read afterwards; it is left out.                               *)
(***************************************************************************)
EXTENDS Integers

CONSTANTS Reports,     \* report ids; each is used once
          Workers,     \* Celery workers
          Clients,     \* requests that delete a report
          NoReport,    \* "works on no report"
          MaxRetries,  \* max_retries of generate_report_task
          MaxErrors,   \* bound: failed database calls in a behaviour
          MaxKills,    \* bound: workers killed (hard time limit, restart)
          MaxRepeats   \* bound: messages delivered once more

ASSUME ReportsConstants ==
    /\ NoReport \notin Reports
    /\ MaxRetries \in Nat /\ MaxErrors \in Nat /\ MaxKills \in Nat /\ MaxRepeats \in Nat

VARIABLES row,      \* row[r]: the committed report row; url: file_url is set
          maker,    \* maker[r]: the request that creates r, and what it will commit
          inbox,    \* inbox[r][a]: messages in the broker for attempt a at r
          task,     \* task[w]: where the task on worker w is, and what it has read
          removal,  \* removal[c]: where the deletion of client c is, and what it has read
          stored,   \* stored[r]: the file of r is in S3
          errors, kills, repeats,  \* counted against their bounds
          lost,     \* history: why nobody will finish r, or "no"
          erased    \* history: a deletion has removed the file of r from S3

vars == <<row, maker, inbox, task, removal, stored, errors, kills, repeats, lost, erased>>

Attempts == 0..MaxRetries
Row == [state : {"none", "live", "gone"},
        status : {"generating", "completed", "failed"}, url : BOOLEAN]
NoRow == [state |-> "none", status |-> "generating", url |-> FALSE]
Completed(url) == [state |-> "live", status |-> "completed", url |-> url]
Failed(url) == [state |-> "live", status |-> "failed", url |-> url]

Maker == [pc : {"none", "begun", "ready", "over"}, draft : Row]
Idle == [pc |-> "idle", report |-> NoReport, attempt |-> 0, new |-> FALSE, old |-> FALSE]
Task == [pc : {"idle", "load", "open", "upload", "save", "undo", "check", "error", "mark"},
         report : Reports \cup {NoReport}, attempt : Attempts,
         new : BOOLEAN,  \* the file_url to be saved
         old : BOOLEAN]  \* the file_url of the copy that a handler writes back
NoRemoval == [pc |-> "idle", report |-> NoReport, url |-> FALSE]
Removal == [pc : {"idle", "file", "row"}, report : Reports \cup {NoReport}, url : BOOLEAN]

Live(r) == row[r].state = "live"
Generating(x) == x.state = "live" /\ x.status = "generating"

\* Somebody should finish r: it is generating, or about to be committed so.
Awaited(r) == Generating(row[r]) \/ (maker[r].pc = "ready" /\ Generating(maker[r].draft))
Queued(r) == \E a \in Attempts : inbox[r][a] > 0
Running(r) == \E w \in Workers : task[w].report = r
-----------------------------------------------------------------------------
Init == /\ row = [r \in Reports |-> NoRow]
        /\ maker = [r \in Reports |-> [pc |-> "none", draft |-> NoRow]]
        /\ inbox = [r \in Reports |-> [a \in Attempts |-> 0]]
        /\ task = [w \in Workers |-> Idle]
        /\ removal = [c \in Clients |-> NoRemoval]
        /\ stored = [r \in Reports |-> FALSE]
        /\ errors = 0 /\ kills = 0 /\ repeats = 0
        /\ lost = [r \in Reports |-> "no"]
        /\ erased = [r \in Reports |-> FALSE]

Send(r, a) == inbox' = [inbox EXCEPT ![r][a] = @ + 1]

(* Variant: the repository saves the row with Model.save(), which inserts it
   when it is gone. *)
UpdatedOrInserted(x, y) == y

\* Repository update, filter(id).update(..): nothing happens to a missing row.
Updated(x, y) == IF x.state = "live" THEN y ELSE x

(* Variant: the URL is kept when the upload raises. *)
UploadAlwaysNamed(r, url) == stored' = stored

\* Rendering and upload_pdf / upload_word: the file is stored and its URL
\* returned, or something raises, before or after S3 has stored the file.
\* The exception is logged and swallowed.
Upload(r, url) == \/ url /\ stored' = [stored EXCEPT ![r] = TRUE]
                  \/ ~url /\ stored' = [stored EXCEPT ![r] = TRUE]
                  \/ ~url /\ stored' = stored
-----------------------------------------------------------------------------
(* The request that creates a report: GenerateAndSaveReportUseCase.execute. *)

\* The row is inserted, the payload computed and saved, nothing is committed.
Begin(r) == /\ maker[r].pc = "none"
            /\ maker' = [maker EXCEPT ![r].pc = "begun"]
            /\ UNCHANGED <<row, inbox, task, removal, stored, errors, kills, repeats, lost, erased>>

\* The request leaves r as it is going to be committed.
Draft(r, x) == maker' = [maker EXCEPT ![r] = [pc |-> "ready", draft |-> x]]

\* generate_report_task.delay
Dispatch(r) == /\ maker[r].pc = "begun"
               /\ Draft(r, [NoRow EXCEPT !.state = "live"])
               /\ Send(r, 0)
               /\ UNCHANGED <<row, task, removal, stored, errors, kills, repeats, lost, erased>>

\* delay raises, perhaps after the broker has got the message: the file is
\* made by the request itself.
GenerateNow(r) == /\ maker[r].pc = "begun"
                  /\ \E url \in BOOLEAN : Upload(r, url) /\ Draft(r, Completed(url))
                  /\ Send(r, 0) \/ UNCHANGED inbox
                  /\ UNCHANGED <<row, task, removal, errors, kills, repeats, lost, erased>>

\* Everything the request has written is rolled back; messages and files stay.
Abort(r) == /\ maker[r].pc \in {"begun", "ready"}
            /\ maker' = [maker EXCEPT ![r] = [pc |-> "over", draft |-> NoRow]]
            /\ UNCHANGED <<row, inbox, task, removal, stored, errors, kills, repeats, lost, erased>>

Commit(r) == /\ maker[r].pc = "ready"
             /\ row' = [row EXCEPT ![r] = maker[r].draft]
             /\ maker' = [maker EXCEPT ![r] = [pc |-> "over", draft |-> NoRow]]
             /\ UNCHANGED <<inbox, task, removal, stored, errors, kills, repeats, lost, erased>>
-----------------------------------------------------------------------------
(* The task: generate_report_task. *)

At(w, pc) == task[w].pc = pc
Goto(w, pc) == task' = [task EXCEPT ![w].pc = pc]
Stop(w) == task' = [task EXCEPT ![w] = Idle]
Error == errors < MaxErrors /\ errors' = errors + 1
NoError == UNCHANGED errors
Lose(r, why) == lost' = [lost EXCEPT ![r] = why]

\* A worker takes a message.  Without a row, or with one that is not
\* generating, the task returns: it is neither retried nor sent again.
TaskStart(w, r, a) ==
    /\ At(w, "idle")
    /\ inbox[r][a] > 0
    /\ inbox' = [inbox EXCEPT ![r][a] = @ - 1]
    /\ LET go(pc) == task' = [task EXCEPT ![w] = [Idle EXCEPT !.pc = pc, !.report = r, !.attempt = a]]
       IN \/ /\ ~Live(r) /\ NoError /\ UNCHANGED task
             /\ IF Awaited(r) THEN Lose(r, "early") ELSE UNCHANGED lost
          \/ Live(r) /\ ~Generating(row[r]) /\ NoError /\ UNCHANGED <<task, lost>>
          \/ Generating(row[r]) /\ NoError /\ go("load") /\ UNCHANGED lost
          \/ Error /\ go("error") /\ UNCHANGED lost
    /\ UNCHANGED <<row, maker, removal, stored, kills, repeats, erased>>

\* generate_and_save_report_content reads the row again: this is the copy its
\* handler will write back.
TaskLoad(w) ==
    /\ At(w, "load")
    /\ LET r == task[w].report IN
         \/ /\ Live(r) /\ NoError
            /\ task' = [task EXCEPT ![w].pc = "open", ![w].old = row[r].url]
         \/ ~Live(r) /\ NoError /\ Goto(w, "error")
         \/ Error /\ Goto(w, "error")
    /\ UNCHANGED <<row, maker, inbox, removal, stored, kills, repeats, lost, erased>>

\* _generate_and_upload_file reads it once more.
TaskOpen(w) ==
    /\ At(w, "open")
    /\ \/ Live(task[w].report) /\ NoError /\ Goto(w, "upload")
       \/ ~Live(task[w].report) /\ NoError /\ Goto(w, "undo")
       \/ Error /\ Goto(w, "undo")
    /\ UNCHANGED <<row, maker, inbox, removal, stored, kills, repeats, lost, erased>>

TaskUpload(w) ==
    /\ At(w, "upload")
    /\ \E url \in BOOLEAN : /\ Upload(task[w].report, url)
                            /\ task' = [task EXCEPT ![w].pc = "save", ![w].new = url]
    /\ UNCHANGED <<row, maker, inbox, removal, errors, kills, repeats, lost, erased>>

\* The row is COMPLETED, with or without a file.  The update raises when there
\* is no row; the query after it may fail when the update is done.
TaskSave(w) ==
    /\ At(w, "save")
    /\ LET r == task[w].report
           saved == row' = [row EXCEPT ![r] = Updated(@, Completed(task[w].new))]
       IN \/ saved /\ NoError /\ Goto(w, IF row[r].state = "live" THEN "check" ELSE "undo")
          \/ saved /\ Error /\ Goto(w, "undo")
          \/ UNCHANGED row /\ Error /\ Goto(w, "undo")
    /\ UNCHANGED <<maker, inbox, removal, stored, kills, repeats, lost, erased>>

\* except of generate_and_save_report_content: the copy is written back as
\* FAILED, then the exception goes on to the task.
TaskUndo(w) ==
    /\ At(w, "undo")
    /\ LET r == task[w].report IN
         \/ row' = [row EXCEPT ![r] = Updated(@, Failed(task[w].old))] /\ NoError
         \/ UNCHANGED row /\ Error
    /\ Goto(w, "error")
    /\ UNCHANGED <<maker, inbox, removal, stored, kills, repeats, lost, erased>>

\* The task reads the row to log its status.
TaskCheck(w) ==
    /\ At(w, "check")
    /\ \/ NoError /\ Stop(w)
       \/ Error /\ Goto(w, "error")
    /\ UNCHANGED <<row, maker, inbox, removal, stored, kills, repeats, lost, erased>>

(* Variant: the last retry is not made. *)
RetryableOneLess(a) == a + 1 < MaxRetries

Retryable(a) == a < MaxRetries

(* Variant: the handler returns instead of retrying. *)
RetryNever(w, stillAwaited) == Stop(w) /\ UNCHANGED <<inbox, lost>>

\* self.retry: the message comes again, or the broker does not take it and it is
\* rejected, or the task ends with the exception.
Retry(w, stillAwaited) ==
    /\ Stop(w)
    /\ LET r == task[w].report
           a == task[w].attempt
           giveUp(why) == /\ UNCHANGED inbox
                          /\ IF stillAwaited THEN Lose(r, why) ELSE UNCHANGED lost
       IN \/ Retryable(a) /\ Send(r, a + 1) /\ UNCHANGED lost
          \/ Retryable(a) /\ giveUp("unsent")
          \/ ~Retryable(a) /\ giveUp("exhausted")

\* except of the task: a fresh copy is read ...
TaskError(w) ==
    /\ At(w, "error")
    /\ LET r == task[w].report IN
         \/ /\ Live(r) /\ NoError
            /\ task' = [task EXCEPT ![w].pc = "mark", ![w].old = row[r].url]
            /\ UNCHANGED <<inbox, lost>>
         \/ ~Live(r) /\ NoError /\ Retry(w, Awaited(r))
         \/ Error /\ Retry(w, Awaited(r))
    /\ UNCHANGED <<row, maker, removal, stored, kills, repeats, erased>>

\* ... and written back as FAILED; whether that works or not, the task is retried.
TaskMark(w) ==
    /\ At(w, "mark")
    /\ LET r == task[w].report IN
         \/ /\ row' = [row EXCEPT ![r] = Updated(@, Failed(task[w].old))]
            /\ NoError /\ Retry(w, FALSE)
         \/ UNCHANGED row /\ Error /\ Retry(w, Awaited(r))
    /\ UNCHANGED <<maker, removal, stored, kills, repeats, erased>>

Kill(w) ==
    /\ ~At(w, "idle")
    /\ kills < MaxKills /\ kills' = kills + 1
    /\ Stop(w)
    /\ IF Awaited(task[w].report) THEN Lose(task[w].report, "killed") ELSE UNCHANGED lost
    /\ UNCHANGED <<row, maker, inbox, removal, stored, errors, repeats, erased>>

\* The broker delivers a message once more.
Repeat(r, a) ==
    /\ inbox[r][a] > 0
    /\ repeats < MaxRepeats /\ repeats' = repeats + 1
    /\ Send(r, a)
    /\ UNCHANGED <<row, maker, task, removal, stored, errors, kills, lost, erased>>
-----------------------------------------------------------------------------
(* Deletion: DeleteReportUseCase, without a transaction. *)

DeleteRead(c, r) ==
    /\ removal[c].pc = "idle"
    /\ Live(r)
    /\ removal' = [removal EXCEPT ![c] = [pc |-> "file", report |-> r, url |-> row[r].url]]
    /\ UNCHANGED <<row, maker, inbox, task, stored, errors, kills, repeats, lost, erased>>

\* delete_file_safe: a failure is logged and swallowed.
DeleteFile(c) ==
    /\ removal[c].pc = "file"
    /\ LET r == removal[c].report IN
         \/ /\ removal[c].url
            /\ stored' = [stored EXCEPT ![r] = FALSE]
            /\ erased' = [erased EXCEPT ![r] = TRUE]
         \/ UNCHANGED <<stored, erased>>
    /\ removal' = [removal EXCEPT ![c].pc = "row"]
    /\ UNCHANGED <<row, maker, inbox, task, errors, kills, repeats, lost>>

Removed(x) == IF x.state = "live" THEN [NoRow EXCEPT !.state = "gone"] ELSE x

DeleteRow(c) ==
    /\ removal[c].pc = "row"
    /\ row' = [row EXCEPT ![removal[c].report] = Removed(@)]
    /\ removal' = [removal EXCEPT ![c] = NoRemoval]
    /\ UNCHANGED <<maker, inbox, task, stored, errors, kills, repeats, lost, erased>>

\* The request dies between two of its steps.
DeleteFails(c) ==
    /\ removal[c].pc # "idle"
    /\ removal' = [removal EXCEPT ![c] = NoRemoval]
    /\ UNCHANGED <<row, maker, inbox, task, stored, errors, kills, repeats, lost, erased>>

\* The business of r is deleted, and its reports with it (CASCADE).
BusinessDeleted(r) ==
    /\ Live(r)
    /\ row' = [row EXCEPT ![r] = Removed(@)]
    /\ UNCHANGED <<maker, inbox, task, removal, stored, errors, kills, repeats, lost, erased>>

\* What a worker does by itself once it has taken a message.
TaskStep(w) == \/ TaskLoad(w) \/ TaskOpen(w) \/ TaskUpload(w) \/ TaskSave(w) \/ TaskUndo(w)
               \/ TaskCheck(w) \/ TaskError(w) \/ TaskMark(w)
Take(r) == \E w \in Workers, a \in Attempts : TaskStart(w, r, a)
Making(r) == Begin(r) \/ Dispatch(r) \/ GenerateNow(r) \/ Abort(r) \/ Commit(r)
Deleting(c) == (\E r \in Reports : DeleteRead(c, r)) \/ DeleteFile(c) \/ DeleteRow(c) \/ DeleteFails(c)

Next == \/ \E r \in Reports : Making(r) \/ Take(r) \/ BusinessDeleted(r)
        \/ \E r \in Reports, a \in Attempts : Repeat(r, a)
        \/ \E w \in Workers : TaskStep(w) \/ Kill(w)
        \/ \E c \in Clients : Deleting(c)

Spec == Init /\ [][Next]_vars
FairSpec == /\ Spec
            /\ \A w \in Workers : WF_vars(TaskStep(w))
            /\ \A r \in Reports : WF_vars(Take(r))
-----------------------------------------------------------------------------
(* Properties. *)

\* Every variable has its type.
TypeOK == /\ row \in [Reports -> Row]
          /\ maker \in [Reports -> Maker]
          /\ inbox \in [Reports -> [Attempts -> Nat]]
          /\ task \in [Workers -> Task]
          /\ removal \in [Clients -> Removal]
          /\ stored \in [Reports -> BOOLEAN]
          /\ errors \in 0..MaxErrors /\ kills \in 0..MaxKills /\ repeats \in 0..MaxRepeats
          /\ lost \in [Reports -> {"no", "early", "killed", "unsent", "exhausted"}]
          /\ erased \in [Reports -> BOOLEAN]

\* A file URL that a client can see names a file in S3, unless a deletion of
\* the report has removed the file; handlers that write old copies back and
\* tasks that run twice included.
UrlHasFile == \A r \in Reports : Live(r) /\ row[r].url => stored[r] \/ erased[r]

\* A report that is generating is in the broker or in the hands of a task,
\* unless a task came before the commit, its worker was killed, the broker
\* refused a retry, or all its retries failed.
InGoodHands == \A r \in Reports : Awaited(r) => Queued(r) \/ Running(r) \/ lost[r] # "no"

\* A report is given up only after each of its attempts met a failing call of
\* its own.
RetriesOutlastErrors == \A r \in Reports : lost[r] = "exhausted" => errors > MaxRetries

\* Clients see the life of a report as ReportLife describes it.
Phase(x) == CASE x.state = "none" -> "none"
              [] x.state = "gone" -> "deleted"
              [] OTHER -> x.status
Life == INSTANCE ReportLife WITH phase <- [r \in Reports |-> Phase(row[r])]
LifeSpec == Life!Spec

\* A generating report is completed, failed or deleted in the end, unless
\* nobody is left to do it.
EveryReportSettles ==
    \A r \in Reports : Generating(row[r]) ~> ~Generating(row[r]) \/ lost[r] # "no"

\* Why they hold.  A file URL in a copy or a draft names a file as well, ...
NamesStored ==
    /\ \A w \in Workers : task[w].report \in Reports /\ (task[w].new \/ task[w].old) =>
                           stored[task[w].report] \/ erased[task[w].report]
    /\ \A r \in Reports : maker[r].draft.url => stored[r] \/ erased[r]
\* ... a worker that is not idle works on a report, and so does a deletion, ...
BusyWithReport ==
    /\ \A w \in Workers : task[w].pc # "idle" <=> task[w].report \in Reports
    /\ \A c \in Clients : removal[c].pc # "idle" => removal[c].report \in Reports
\* ... a report is committed once, by its request, whose message is the first, ...
MadeOnce == \A r \in Reports :
    /\ maker[r].pc # "over" => row[r].state = "none"
    /\ maker[r].pc = "ready" => maker[r].draft.state = "live" /\ maker[r].draft.status # "failed"
    /\ maker[r].pc \in {"none", "begun"} => ~Queued(r) /\ ~Running(r)
\* ... a task past its first read, and without an error, has seen a committed
\* row, which a task that has saved it leaves with an outcome, ...
SeenBefore == \A w \in Workers :
    /\ task[w].pc \in {"load", "open", "upload", "save", "check", "mark"} =>
         row[task[w].report].state # "none"
    /\ task[w].pc = "check" => ~Generating(row[task[w].report])
\* ... and every attempt at a report that is still awaited has met an error.
ErrorsPaid == \A r \in Reports : Awaited(r) =>
    /\ \A a \in Attempts : inbox[r][a] > 0 => errors >= a
    /\ \A w \in Workers : task[w].report = r =>
         /\ errors >= task[w].attempt
         /\ task[w].pc \in {"undo", "error", "mark"} => errors > task[w].attempt
ReportsInv == /\ TypeOK /\ UrlHasFile /\ InGoodHands /\ RetriesOutlastErrors /\ NamesStored
              /\ BusyWithReport /\ MadeOnce /\ SeenBefore /\ ErrorsPaid

\* "The report is being generated in the background", the answer to a request
\* that leaves a report generating.
BeingGenerated == \A r \in Reports : Generating(row[r]) => Queued(r) \/ Running(r)
=============================================================================
