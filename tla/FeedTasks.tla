------------------------------- MODULE FeedTasks -------------------------------
(***************************************************************************)
(* The rows of the feeds and their periodic tasks, which celery beat reads *)
(* to poll them.  FeedTaskManager keeps one task per feed by name; signals *)
(* of the feed call it when an admin saves or deletes a feed, and two      *)
(* commands call it for the feeds they inject or for all feeds.            *)
(*                                                                         *)
(* An admin's save is one transaction of READ COMMITTED: it sees what is   *)
(* committed and what it wrote itself, a statement that writes what another*)
(* transaction has written waits for it, and nothing shows before the      *)
(* commit.  The commands commit every statement.                           *)
(***************************************************************************)
EXTENDS Integers, FiniteSets

CONSTANTS
  Feed,       \* primary keys, given out once each
  Admin,      \* admin requests that may be served at once
  Interval,   \* the choices of polling_interval
  I_10m,      \* the interval of an injected feed
  WithShell,  \* whether the commands are run as well
  NoFeed,     \* model value
  NoRow,      \* model value: there is no such feed
  NoTask,     \* model value: there is no task of that name
  Untouched   \* model value: the transaction has not written the task

ASSUME FeedTasksAssumption ==
  /\ I_10m \in Interval
  /\ NoTask \notin Interval /\ Untouched \notin Interval \cup {NoTask}
  /\ WithShell \in BOOLEAN

Row == [polling_interval : Interval, is_archived : BOOLEAN]

ASSUME NoRowAssumption == NoRow \notin Row

VARIABLES
  row,      \* the committed feeds
  task,     \* the committed tasks: the interval of each
  issued,   \* the primary keys given out so far
  admin,    \* the transaction of each admin request
  shell     \* the command that runs

vars == <<row, task, issued, admin, shell>>

--------------------------------------------------------------------------------
\* pc is the next statement and then the one after the call of FeedTaskManager;
\* new is the row to be written, NoRow to delete it; task is what the
\* transaction has written of the task; found whether a remove_task has found
\* one; alone whether nothing else ran since it began.
Rest == [pc |-> "idle", then |-> "idle", feed |-> NoFeed, new |-> NoRow,
         task |-> Untouched, found |-> FALSE, alone |-> FALSE]

AdminSteps == {"idle", "select", "delete", "exists", "insert", "compare", "write", "commit"}

\* A command holds the feeds it has read and those it still has to handle.
ShellRest == [pc |-> "idle", todo |-> {}, read |-> [f \in Feed |-> NoRow],
              found |-> {}, alone |-> FALSE]

Transaction ==
  [pc : AdminSteps, then : AdminSteps, feed : Feed \cup {NoFeed},
   new : Row \cup {NoRow}, task : Interval \cup {NoTask, Untouched},
   found : BOOLEAN, alone : BOOLEAN]

Command ==
  [pc : {"idle", "clear", "load", "each", "remove", "inject"}, todo : SUBSET Feed,
   read : [Feed -> Row \cup {NoRow}], found : SUBSET Feed, alone : BOOLEAN]

TypeOK ==
  /\ row \in [Feed -> Row \cup {NoRow}]
  /\ task \in [Feed -> Interval \cup {NoTask}]
  /\ issued \subseteq Feed
  /\ admin \in [Admin -> Transaction]
  /\ shell \in Command

Init ==
  /\ row = [f \in Feed |-> NoRow]
  /\ task = [f \in Feed |-> NoTask]
  /\ issued = {}
  /\ admin = [a \in Admin |-> Rest]
  /\ shell = ShellRest

\* A request or a command starts: what runs beside it is not alone any more.
Quiet == shell.pc = "idle" /\ \A a \in Admin : admin[a].pc = "idle"

Begin(a, pc, then, f, new) ==
  /\ admin[a].pc = "idle"
  /\ admin' = [b \in Admin |->
       IF b = a THEN [Rest EXCEPT !.pc = pc, !.then = then, !.feed = f, !.new = new,
                                  !.alone = Quiet]
       ELSE [admin[b] EXCEPT !.alone = FALSE]]
  /\ shell' = [shell EXCEPT !.alone = FALSE]
  /\ UNCHANGED <<row, task>>

Continue(a) == [admin[a] EXCEPT !.pc = admin[a].then]

\* Sensitivity variant: a transaction that sees its own writes only.
OwnTask(a) == admin[a].task

\* The task as the transaction sees it.
View(a) == IF admin[a].task = Untouched THEN task[admin[a].feed] ELSE admin[a].task

\* Another transaction has written the task of the feed and has not ended.
Locked(a, f) ==
  \E b \in Admin \ {a} : admin[b].feed = f /\ admin[b].task # Untouched

\* A task row that is gone, or was made anew, is not the one others have found.
Forget(F) ==
  [b \in Admin |-> [admin[b] EXCEPT !.found = @ /\ admin[b].feed \notin F]]

--------------------------------------------------------------------------------
\* The admin site saves the form of a feed, changed or not: update_feed branches
\* on is_archived.
Edit(a, f, new) ==
  /\ row[f] # NoRow
  /\ IF new.is_archived THEN Begin(a, "select", "write", f, new)
     ELSE Begin(a, "exists", "compare", f, new)
  /\ UNCHANGED issued

\* It adds a feed: the row is inserted, create_feed adds the task.
Create(a, f, new) ==
  /\ f \notin issued
  /\ Begin(a, "exists", "commit", f, new)
  /\ issued' = issued \cup {f}

\* A transaction has deleted or inserted the row of the feed and has not ended.
RowLocked(a, f) ==
  \E b \in Admin \ {a} : admin[b].feed = f /\ admin[b].then = "commit"

\* It deletes a feed: the row first, then delete_feed removes the task.
DeleteFeed(a, f) ==
  /\ row[f] # NoRow
  /\ ~RowLocked(a, f)
  /\ Begin(a, "select", "commit", f, NoRow)
  /\ UNCHANGED issued

\* remove_task: the delete of the queryset selects the tasks of that name ...
SelectTask(a) ==
  /\ admin[a].pc = "select"
  /\ admin' = [admin EXCEPT ![a].pc = "delete", ![a].found = View(a) # NoTask]
  /\ UNCHANGED <<row, task, issued, shell>>

\* ... and deletes the rows it has found, if they are still there.
DeleteTask(a) ==
  /\ admin[a].pc = "delete"
  /\ admin[a].found => ~Locked(a, admin[a].feed)
  /\ admin' = [admin EXCEPT ![a] =
       [Continue(a) EXCEPT
          !.task = IF admin[a].found THEN NoTask ELSE @,
          !.found = FALSE,
          !.then = IF admin[a].then = "exists" THEN "write" ELSE @]]
  /\ UNCHANGED <<row, task, issued, shell>>

\* Sensitivity variant: a task is added only where the feed was archived.
AddsUnarchived(a) ==
  /\ View(a) = NoTask
  /\ ~admin[a].new.is_archived
  /\ row[admin[a].feed] = NoRow \/ row[admin[a].feed].is_archived

\* add_task finds no task, and the feed is not archived.
AddsTask(a) == View(a) = NoTask /\ ~admin[a].new.is_archived

FindTask(a) ==
  /\ admin[a].pc = "exists"
  /\ admin' = [admin EXCEPT ![a] =
       IF AddsTask(a) THEN [@ EXCEPT !.pc = "insert"] ELSE Continue(a)]
  /\ UNCHANGED <<row, task, issued, shell>>

\* add_task creates the task.  Where another has committed one meanwhile the
\* insert breaks the transaction, which can only be rolled back.
InsertTask(a) ==
  /\ admin[a].pc = "insert"
  /\ ~Locked(a, admin[a].feed)
  /\ View(a) = NoTask
  /\ admin' = [admin EXCEPT ![a] =
       [Continue(a) EXCEPT !.task = admin[a].new.polling_interval]]
  /\ UNCHANGED <<row, task, issued, shell>>

\* Sensitivity variant: the interval of an existing task is left as it is.
KeepInterval(a) == FALSE

\* update_feed compares with the row in the database.
IntervalChanged(a) ==
  row[admin[a].feed].polling_interval # admin[a].new.polling_interval

\* update_task removes the task and adds it again; a row that is gone raises.
Compare(a) ==
  /\ admin[a].pc = "compare"
  /\ row[admin[a].feed] # NoRow
  /\ admin' = [admin EXCEPT ![a] =
       IF IntervalChanged(a) THEN [@ EXCEPT !.pc = "select", !.then = "exists"]
       ELSE [@ EXCEPT !.pc = "write", !.then = "write"]]
  /\ UNCHANGED <<row, task, issued, shell>>

\* The transaction ends with its row and its task.
Commit(a) ==
  LET f == admin[a].feed
  IN  /\ row' = [row EXCEPT ![f] = admin[a].new]
      /\ task' = [task EXCEPT ![f] = View(a)]
      /\ admin' = [(IF admin[a].task = Untouched THEN admin ELSE Forget({f}))
                     EXCEPT ![a] = Rest]
      /\ shell' = IF admin[a].task = Untouched THEN shell
                  ELSE [shell EXCEPT !.found = @ \ {f}]
      /\ UNCHANGED issued

\* The UPDATE of the row, after the task.
UpdateRow(a) ==
  /\ admin[a].pc = "write"
  /\ ~RowLocked(a, admin[a].feed)
  /\ row[admin[a].feed] # NoRow
  /\ Commit(a)

\* An UPDATE that finds no row: Django inserts it, and create_feed is called.
InsertRow(a) ==
  /\ admin[a].pc = "write"
  /\ ~RowLocked(a, admin[a].feed)
  /\ row[admin[a].feed] = NoRow
  /\ admin' = [admin EXCEPT ![a].pc = "exists", ![a].then = "commit"]
  /\ UNCHANGED <<row, task, issued, shell>>

EndTransaction(a) == admin[a].pc = "commit" /\ Commit(a)

\* An error, a deadlock that the database ends, or the death of the worker.
Rollback(a) ==
  /\ admin[a].pc # "idle"
  /\ admin' = [admin EXCEPT ![a] = Rest]
  /\ UNCHANGED <<row, task, issued, shell>>

AdminStep(a) ==
  \/ SelectTask(a) \/ DeleteTask(a) \/ FindTask(a) \/ InsertTask(a)
  \/ Compare(a) \/ UpdateRow(a) \/ InsertRow(a) \/ EndTransaction(a) \/ Rollback(a)

--------------------------------------------------------------------------------
\* regenerate_feed_periodic_tasks or the injection of feeds is started.
ShellBegin(pc, todo, read, found) ==
  /\ WithShell
  /\ shell.pc = "idle"
  /\ shell' = [ShellRest EXCEPT !.pc = pc, !.todo = todo, !.read = read,
                                 !.found = found, !.alone = Quiet]
  /\ admin' = [a \in Admin |-> [admin[a] EXCEPT !.alone = FALSE]]

\* No admin's transaction holds the tasks of these feeds.
Unlocked(F) == \A a \in Admin : admin[a].feed \in F => admin[a].task = Untouched

\* Sensitivity variant: only the tasks of feeds that are gone are deleted first.
ScheduledOfNoFeed == {f \in Feed : task[f] # NoTask /\ row[f] = NoRow}

\* force_delete_all_tasks finds every task of the prefix ...
Scheduled == {f \in Feed : task[f] # NoTask}

Regenerate ==
  /\ ShellBegin("clear", {}, ShellRest.read, Scheduled)
  /\ UNCHANGED <<row, task, issued>>

\* ... and deletes the ones it has found.
ForceDeleteAllTasks ==
  /\ shell.pc = "clear"
  /\ Unlocked(shell.found)
  /\ task' = [f \in Feed |-> IF f \in shell.found THEN NoTask ELSE task[f]]
  /\ admin' = Forget(shell.found)
  /\ shell' = [shell EXCEPT !.pc = "load", !.found = {}]
  /\ UNCHANGED <<row, issued>>

\* One query reads all the feeds.
LoadFeeds ==
  /\ shell.pc = "load"
  /\ shell' = [shell EXCEPT !.pc = "each", !.read = row,
                            !.todo = {f \in Feed : row[f] # NoRow}]
  /\ UNCHANGED <<row, task, issued, admin>>

\* add_task for a feed as it was read; an insert that fails is logged.
ShellAddTask(f) ==
  /\ \/ task[f] # NoTask /\ task' = task
     \/ /\ task[f] = NoTask /\ Unlocked({f})
        /\ task' = [task EXCEPT ![f] = shell.read[f].polling_interval]
  /\ UNCHANGED <<row, issued, admin>>

RegenerateTask(f) ==
  /\ shell.pc = "each"
  /\ f \in shell.todo
  /\ ~shell.read[f].is_archived
  /\ shell' = [shell EXCEPT !.todo = @ \ {f}]
  /\ ShellAddTask(f)

\* remove_task for an archived feed: the tasks of its name are found ...
FindArchivedTask(f) ==
  /\ shell.pc = "each"
  /\ f \in shell.todo
  /\ shell.read[f].is_archived
  /\ shell' = [shell EXCEPT !.pc = "remove", !.todo = @ \ {f},
                            !.found = {g \in {f} : task[g] # NoTask}]
  /\ UNCHANGED <<row, task, issued, admin>>

\* ... and deleted.
RemoveArchivedTask ==
  /\ shell.pc = "remove"
  /\ Unlocked(shell.found)
  /\ task' = [f \in Feed |-> IF f \in shell.found THEN NoTask ELSE task[f]]
  /\ admin' = Forget(shell.found)
  /\ shell' = [shell EXCEPT !.pc = "each", !.found = {}]
  /\ UNCHANGED <<row, issued>>

EndRegenerate ==
  /\ shell.pc = "each" /\ shell.todo = {}
  /\ shell' = ShellRest
  /\ UNCHANGED <<row, task, issued, admin>>

\* inject_feeds saves a feed that is not there yet: the row is committed before
\* create_feed is called.
InjectedRow == [polling_interval |-> I_10m, is_archived |-> FALSE]

InjectRow(f) ==
  /\ f \notin issued
  /\ ShellBegin("inject", {f}, [ShellRest.read EXCEPT ![f] = InjectedRow], {})
  /\ row' = [row EXCEPT ![f] = InjectedRow]
  /\ issued' = issued \cup {f}
  /\ UNCHANGED task

InjectTask(f) ==
  /\ shell.pc = "inject"
  /\ f \in shell.todo
  /\ shell' = ShellRest
  /\ ShellAddTask(f)

\* The command is interrupted.
KillShell ==
  /\ shell.pc # "idle"
  /\ shell' = ShellRest
  /\ UNCHANGED <<row, task, issued, admin>>

ShellStep ==
  \/ Regenerate \/ ForceDeleteAllTasks \/ LoadFeeds \/ EndRegenerate
  \/ RemoveArchivedTask \/ KillShell
  \/ \E f \in Feed : \/ RegenerateTask(f) \/ FindArchivedTask(f)
                     \/ InjectRow(f) \/ InjectTask(f)

Next ==
  \/ \E a \in Admin :
       \/ AdminStep(a)
       \/ \E f \in Feed : \/ DeleteFeed(a, f)
                          \/ \E new \in Row : Edit(a, f, new) \/ Create(a, f, new)
  \/ ShellStep

Spec == Init /\ [][Next]_vars

--------------------------------------------------------------------------------
IsActive(r) == r # NoRow /\ ~r.is_archived

\* A task fits a row when it polls it at its interval, and is absent for a feed
\* that is archived or gone.
Fits(t, r) == IF IsActive(r) THEN t = r.polling_interval ELSE t = NoTask

TaskFitsFeed == \A f \in Feed : Fits(task[f], row[f])

\* README.md:45: "Each feed has its own periodic task that is managed by the
\* Celery Beat scheduler."
ActiveFeedHasTask == \A f \in Feed : IsActive(row[f]) => task[f] # NoTask

\* Whatever overlapping requests and interrupted commands have left behind, one
\* save or deletion that nothing overlaps gives an active feed a task again, and
\* leaves none to an archived or deleted one (receivers.py:22-46, utils.py:40).
LoneSaveRepairs ==
  [][\A a \in Admin :
       (UpdateRow(a) \/ EndTransaction(a)) /\ admin[a].alone
         => LET f == admin[a].feed IN IsActive(row'[f]) <=> task'[f] # NoTask]_vars

\* Where the tasks fit the feeds, they still do after a save or deletion that
\* nothing overlaps: the signals cover every change, in its transaction, and
\* compare with the row that the form replaces (receivers.py:13-46).
LoneSaveKeepsFit ==
  [][\A a \in Admin :
       (UpdateRow(a) \/ EndTransaction(a)) /\ admin[a].alone
         => (TaskFitsFeed => TaskFitsFeed')]_vars

\* And one run of the command that nothing overlaps makes every task fit its
\* feed, the intervals as well (regenerate_feed_periodic_tasks.py:9-20).
LoneRegenerationRestores == [][EndRegenerate /\ shell.alone => TaskFitsFeed']_vars

\* At most one request or command runs, and no command is interrupted: only where
\* one of the two is not so do tasks and feeds come apart (ActiveFeedHasTask).
OneAtATime ==
  /\ \A a, b \in Admin : admin[a].pc # "idle" /\ admin[b].pc # "idle" => a = b
  /\ \A a \in Admin : admin[a].pc # "idle" => shell.pc = "idle"
Uninterrupted == [][KillShell => EndRegenerate]_vars

================================================================================
