---------------------------- MODULE Notifications ---------------------------
(***************************************************************************)
(* The notifications a business gets about its products and credits        *)
(* (domain/notifications/services.py, application/use_cases/               *)
(* alert_use_cases.py, notification_use_cases.py, tasks/                   *)
(* notification_tasks.py).                                                 *)
(*                                                                         *)
(* A run tells the owner and then the managers, one row each, if the owner *)
(* has not been told of the same thing within a day; runs are started by   *)
(* the scheduler and by every invoice that leaves a product short, inside  *)
(* the transaction of the invoice.  A check looks at one type, so that     *)
(* types never meet: a behaviour has one.                                  *)
(***************************************************************************)
EXTENDS Integers, Sequences, FiniteSets

CONSTANTS Team, Boss,        \* those who may be managers; the owner
          Items, NoItem,     \* products or credits
          Runs,              \* runs of the service going on at the same time
          Readers,           \* requests of users being served
          Limit,             \* how many notifications the check looks at (100)
          Recency,           \* a day
          MaxHour, MaxRuns, MaxNotes, MaxReads  \* bounds: the clock, runs, rows, requests and e-mails

ASSUME NotificationsConstants == /\ Boss \notin Team /\ NoItem \notin Items /\ Limit \in Nat \ {0} /\ Recency \in Nat
                                 /\ {MaxHour, MaxRuns, MaxNotes, MaxReads} \subseteq Nat /\ MaxNotes > 0

VARIABLES type,      \* the type of the behaviour
          hour,      \* the clock
          managers,  \* active members that are managers
          notes,     \* the rows, in the order of created_at
          run,       \* run[r]: where a run is
          reader,    \* reader[q]: where a request of a user is
          runs, reads  \* those that may still come

noteVars == <<type, hour, managers, notes, run, reader, runs, reads>>

People == Team \cup {Boss}
NotificationTypes == {"NEAR_EXPIRY", "EXPIRED", "CRITICAL_STOCK", "PAYMENT_OVERDUE"}
Note == [to : People, item : Items, at : 0..MaxHour,
         state : {"held", "there", "void"},          \* held: written by a transaction that is open
         status : {"UNREAD", "READ", "ARCHIVED"}, mail : {"queued", "sent", "unsent"},
         head : 1..MaxNotes,         \* history: the first row of the run that wrote it
         saw : SUBSET (1..MaxNotes), \* history: the owner's rows its run could see when it checked
         due : SUBSET Team]          \* history: of an owner's row, the managers ever since then, whom
                                     \* the run is to tell
Stopped == [op |-> "none", item |-> NoItem, tx |-> FALSE, head |-> 1, list |-> {}, own |-> {},
            saw |-> {}]
Run == [op : {"none", "owner", "managers", "each", "tx"}, item : Items \cup {NoItem},
        tx : BOOLEAN,                 \* inside the transaction of an invoice
        head : 1..MaxNotes, list : SUBSET Team, own : SUBSET (1..MaxNotes), saw : SUBSET (1..MaxNotes)]
Absent == [op |-> "none", note |-> 0, by |-> Boss]
Reader == [op : {"none", "read", "archive", "all"}, note : 0..MaxNotes, by : People]

NotesInit == /\ type \in NotificationTypes
             /\ hour = 0
             /\ managers = Team
             /\ notes = <<>>
             /\ run = [r \in Runs |-> Stopped]
             /\ reader = [q \in Readers |-> Absent]
             /\ runs = MaxRuns
             /\ reads = MaxReads

Goes(r, s) == run' = [run EXCEPT ![r] = s]
Rows == 1..Len(notes)
-----------------------------------------------------------------------------
(* A run of the service. *)

\* What run r can see of the owner's rows.
Seen(r) == {i \in Rows : notes[i].to = Boss /\ (notes[i].state = "there" \/ i \in run[r].own)}
\* get_by_user: the newest of them, up to the limit
Newest(S) == {i \in S : Cardinality({j \in S : j > i}) < Limit}

(* Variant: only unread rows are looked at. *)
RecentUnread(r, item) == \E i \in Newest({j \in Seen(r) : notes[j].status = "UNREAD"}) :
                            notes[i].item = item /\ notes[i].at >= hour - Recency

\* _has_recent_notification, _has_recent_credit_notification
Recent(r, item) == \E i \in Newest(Seen(r)) : notes[i].item = item /\ notes[i].at >= hour - Recency

Check(r, item, tx) ==
    /\ run[r].op = IF run[r].tx THEN "tx" ELSE "none"
    /\ runs > 0 /\ runs' = runs - 1
    /\ tx = run[r].tx \/ run[r].op = "none"
    /\ ~Recent(r, item)
    /\ Goes(r, [run[r] EXCEPT !.op = "owner", !.item = item, !.tx = tx, !.saw = Seen(r)])
    /\ UNCHANGED <<type, hour, managers, notes, reader, reads>>

\* _create_notification: the row, and a task for the e-mail; a broker that fails is
\* a task that does not send.
New(r, to, head, due) ==
    notes' = Append(notes, [to |-> to, item |-> run[r].item, at |-> hour, status |-> "UNREAD", mail |-> "queued",
                            state |-> IF run[r].tx THEN "held" ELSE "there",
                            head |-> head, saw |-> run[r].saw, due |-> due])

TellOwner(r) ==
    LET n == Len(notes) + 1 IN
    /\ run[r].op = "owner" /\ n <= MaxNotes
    /\ New(r, Boss, n, managers)
    /\ Goes(r, [run[r] EXCEPT !.op = "managers", !.head = n, !.own = IF run[r].tx THEN @ \cup {n} ELSE @])
    /\ UNCHANGED <<type, hour, managers, reader, runs, reads>>

Rests(r) == IF run[r].tx THEN [run[r] EXCEPT !.op = "tx", !.list = {}] ELSE Stopped

(* Variant: the managers are told only if there is no recent notification of
   the owner, the one just made included. *)
ListManagersAnew(r) ==
    /\ run[r].op = "managers"
    /\ Goes(r, IF managers = {} \/ Recent(r, run[r].item) THEN Rests(r)
               ELSE [run[r] EXCEPT !.op = "each", !.list = managers])
    /\ UNCHANGED <<type, hour, managers, notes, reader, runs, reads>>

\* get_managers
ListManagers(r) ==
    /\ run[r].op = "managers"
    /\ Goes(r, IF managers = {} THEN Rests(r) ELSE [run[r] EXCEPT !.op = "each", !.list = managers])
    /\ UNCHANGED <<type, hour, managers, notes, reader, runs, reads>>

TellManager(r, m) ==
    /\ run[r].op = "each" /\ m \in run[r].list /\ Len(notes) < MaxNotes
    /\ New(r, m, run[r].head, {})
    /\ Goes(r, IF run[r].list = {m} THEN Rests(r) ELSE [run[r] EXCEPT !.list = @ \ {m}])
    /\ UNCHANGED <<type, hour, managers, reader, runs, reads>>

\* The rows of the open transaction of r become state.
Settle(r, state) == [i \in Rows |-> IF notes[i].state = "held" /\ notes[i].head \in run[r].own
                                    THEN [notes[i] EXCEPT !.state = state] ELSE notes[i]]

\* The invoice is done.
CommitRun(r) == /\ run[r].op = "tx"
                /\ notes' = Settle(r, "there")
                /\ Goes(r, Stopped)
                /\ UNCHANGED <<type, hour, managers, reader, runs, reads>>
\* It fails, or the worker dies inside it.
RollbackRun(r) == /\ run[r].tx
                  /\ notes' = Settle(r, "void")
                  /\ Goes(r, Stopped)
                  /\ UNCHANGED <<type, hour, managers, reader, runs, reads>>
\* An error on the way, which is logged, or a crash outside a transaction: the
\* managers that are left are not told.
Breaks(r) == /\ run[r].op \in {"managers", "each"}
             /\ notes' = [notes EXCEPT ![run[r].head].due = {}]
             /\ Goes(r, Rests(r))
             /\ UNCHANGED <<type, hour, managers, reader, runs, reads>>
-----------------------------------------------------------------------------
(* What goes on beside the runs. *)

\* send_notification_task: by e-mail or else by SMS; a row that is not there, or
\* not yet, is given up.
SendMail(i) ==
    /\ i \in Rows /\ notes[i].mail = "queued"
    /\ \E mail \in IF notes[i].state = "there" THEN {"sent", "unsent"} ELSE {"unsent"} :
          notes' = [notes EXCEPT ![i].mail = mail]
    /\ reads > 0 /\ reads' = reads - 1
    /\ UNCHANGED <<type, hour, managers, run, reader, runs>>

\* A user opens a row of his own, to mark it as read or to archive it.
ReadNote(q, i, op) ==
    /\ reader[q].op = "none" /\ reads > 0 /\ reads' = reads - 1
    /\ i \in Rows /\ notes[i].state = "there"
    /\ reader' = [reader EXCEPT ![q] = [Absent EXCEPT !.op = op, !.note = i]]
    /\ UNCHANGED <<type, hour, managers, notes, run, runs>>
WriteStatus(q, op, status) ==
    /\ reader[q].op = op
    /\ notes' = [notes EXCEPT ![reader[q].note].status = status]
    /\ reader' = [reader EXCEPT ![q] = Absent]
    /\ UNCHANGED <<type, hour, managers, run, runs, reads>>
\* The unread rows are counted for the answer before the statement that marks them.
CountUnread(q, u) ==
    /\ reader[q].op = "none" /\ reads > 0 /\ reads' = reads - 1
    /\ reader' = [reader EXCEPT ![q] = [Absent EXCEPT !.op = "all", !.by = u]]
    /\ UNCHANGED <<type, hour, managers, notes, run, runs>>
MarkAll(q) ==
    /\ reader[q].op = "all"
    /\ notes' = [i \in Rows |-> IF notes[i].to = reader[q].by /\ notes[i].state = "there" /\ notes[i].status = "UNREAD"
                                THEN [notes[i] EXCEPT !.status = "READ"] ELSE notes[i]]
    /\ reader' = [reader EXCEPT ![q] = Absent]
    /\ UNCHANGED <<type, hour, managers, run, runs, reads>>

\* Module Members
ManagerLeaves(m) == /\ m \in managers
                    /\ managers' = managers \ {m}
                    /\ notes' = [i \in Rows |-> [notes[i] EXCEPT !.due = @ \ {m}]]
                    /\ UNCHANGED <<type, hour, run, reader, runs, reads>>
Tick == /\ hour < MaxHour /\ hour' = hour + 1
        /\ UNCHANGED <<type, managers, notes, run, reader, runs, reads>>
-----------------------------------------------------------------------------
(* The functions of NotificationDomainService and of the endpoints of         *)
(* NotificationViewSet.                                                       *)
Begins(r, tx) == \E i \in Items : Check(r, i, tx)
Tells(r) == TellOwner(r) \/ ListManagers(r) \/ (\E m \in Team : TellManager(r, m)) \/ Breaks(r)
notify_product_expiring(r) == type = "NEAR_EXPIRY" /\ (Begins(r, FALSE) \/ Tells(r))
notify_product_expired(r) == type = "EXPIRED" /\ (Begins(r, FALSE) \/ Tells(r))
notify_payment_overdue(r) == type = "PAYMENT_OVERDUE" /\ (Begins(r, FALSE) \/ Tells(r))
\* By the scheduler, or inside an invoice.
notify_low_stock(r) == /\ type = "CRITICAL_STOCK"
                       /\ Begins(r, FALSE) \/ Begins(r, TRUE) \/ Tells(r) \/ CommitRun(r) \/ RollbackRun(r)
mark_read(q) == (\E i \in Rows : ReadNote(q, i, "read")) \/ WriteStatus(q, "read", "READ")
archive_notification(q) == (\E i \in Rows : ReadNote(q, i, "archive")) \/ WriteStatus(q, "archive", "ARCHIVED")
mark_all_read(q) == (\E u \in People : CountUnread(q, u)) \/ MarkAll(q)

NotesNext == \/ \E r \in Runs : \/ notify_product_expiring(r) \/ notify_product_expired(r)
                                \/ notify_low_stock(r) \/ notify_payment_overdue(r)
             \/ \E q \in Readers : mark_read(q) \/ archive_notification(q) \/ mark_all_read(q)
             \/ \E i \in Rows : SendMail(i)
             \/ \E m \in Team : ManagerLeaves(m)
             \/ Tick
NotesSpec == NotesInit /\ [][NotesNext]_noteVars
-----------------------------------------------------------------------------
NotesType == /\ type \in NotificationTypes
             /\ hour \in 0..MaxHour
             /\ managers \subseteq Team
             /\ notes \in Seq(Note) /\ Len(notes) <= MaxNotes
             /\ run \in [Runs -> Run]
             /\ reader \in [Readers -> Reader]
             /\ runs \in 0..MaxRuns /\ reads \in 0..MaxReads

Owners == {i \in Rows : notes[i].to = Boss}

\* The owner hears of the same thing once a day, whether he reads his
\* notifications or not.  He hears of it twice only when the run that told him
\* again could not see the first row, or when so many newer ones had come that the
\* check no longer looked at it (domain/notifications/services.py:348).
NotTwiceADay == \A i, j \in Owners :
    LET saw == notes[j].saw IN
    (i < j /\ notes[i].item = notes[j].item /\ notes[j].at - notes[i].at <= Recency)
    => i \notin saw \/ Cardinality({k \in saw : k > i}) >= Limit

\* Whenever the owner is told, so are the managers, by the same run, unless it
\* breaks off; and what is told by a transaction that fails is told to nobody, by
\* e-mail neither (domain/notifications/services.py:260).
TeamTold == /\ \A i \in Owners, m \in Team : (notes[i].state = "there" /\ m \in notes[i].due) =>
                  \/ \E k \in Rows : notes[k].head = i /\ notes[k].to = m /\ notes[k].state = "there"
                  \/ \E r \in Runs : run[r].op \in {"managers", "each"} /\ run[r].head = i
            /\ \A i \in Rows : notes[i].mail = "sent" => notes[i].state = "there"
=============================================================================
