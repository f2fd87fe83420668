------------------------------ MODULE Data_proofs ------------------------------
(***************************************************************************)
(* Proofs about the rows that several requests and commands share, the     *)
(* components of the run of MCData: FeedTasks, GeoData, AlertAnswers,      *)
(* AlertQueries, AlertCounts, Accounts and SubscriptionLists, for every    *)
(* size of the tables and any number of requests.                          *)
(***************************************************************************)
EXTENDS MCData, BoundedInduction

(* FeedTasks. *)

\* A request that runs has a feed, and a row to write unless it deletes; a
\* command has read the feeds it still has to handle.
StepsOK ==
  /\ \A a \in Admin : admin[a].pc # "idle" =>
       /\ admin[a].feed \in Feed
       /\ admin[a].then # "commit" \/ admin[a].pc \in {"exists", "insert", "compare", "write"}
            => admin[a].new \in Row
  /\ shell.pc \in {"each", "inject", "remove"}
       => \A f \in shell.todo : shell.read[f] \in Row

FeedTasksInv == TypeOK /\ StepsOK

\* A transaction that replaces its record by one of the type leaves the types.
LEMMA OwnStep ==
  ASSUME FeedTasksInv, NEW a \in Admin, NEW x \in Transaction,
         admin' = [admin EXCEPT ![a] = x],
         x.pc # "idle" =>
           /\ x.feed \in Feed
           /\ x.then # "commit" \/ x.pc \in {"exists", "insert", "compare", "write"} => x.new \in Row,
         UNCHANGED <<row, task, issued, shell>>
  PROVE  FeedTasksInv'
  BY DEF FeedTasksInv, TypeOK, StepsOK

\* Every step of a request keeps the types.
LEMMA AdminStepType ==
  ASSUME FeedTasksInv, NEW a \in Admin, AdminStep(a)
  PROVE  FeedTasksInv'
<1> DEFINE x == admin[a]
<1>a. /\ x \in Transaction /\ x.feed \in Feed /\ x.pc # "idle"
      /\ x.then # "commit" \/ x.pc \in {"exists", "insert", "compare", "write"} => x.new \in Row
  BY DEF FeedTasksInv, TypeOK, StepsOK, AdminStep, SelectTask, DeleteTask, FindTask,
         InsertTask, Compare, UpdateRow, InsertRow, EndTransaction, Rollback
<1>b. View(a) \in Interval \cup {NoTask}
  BY <1>a DEF View, FeedTasksInv, TypeOK, Transaction
<1>c. Rest \in Transaction /\ Rest.pc = "idle"
  BY DEF Rest, Transaction, AdminSteps
<1>1. CASE SelectTask(a)
  <2> DEFINE y == [x EXCEPT !.pc = "delete", !.found = View(a) # NoTask]
  <2>1. y \in Transaction /\ y.feed = x.feed /\ y.then = x.then /\ y.new = x.new
        /\ y.pc = "delete"
    BY <1>a DEF Transaction, AdminSteps
  <2>2. admin' = [admin EXCEPT ![a] = y]
    BY <1>1 DEF SelectTask, FeedTasksInv, TypeOK, Transaction
  <2> HIDE DEF y
  <2> QED BY <1>1, <1>a, <2>1, <2>2, OwnStep DEF SelectTask
<1>2. CASE DeleteTask(a)
  <2> DEFINE y == [Continue(a) EXCEPT
                     !.task = IF x.found THEN NoTask ELSE @,
                     !.found = FALSE,
                     !.then = IF x.then = "exists" THEN "write" ELSE @]
  <2>1. /\ y \in Transaction /\ y.feed = x.feed /\ y.new = x.new /\ y.pc = x.then
        /\ y.then = IF x.then = "exists" THEN "write" ELSE x.then
    BY <1>a DEF Transaction, AdminSteps, Continue
  <2>2. admin' = [admin EXCEPT ![a] = y]
    BY <1>2 DEF DeleteTask
  <2>3. y.then # "commit" \/ y.pc \in {"exists", "insert", "compare", "write"} => y.new \in Row
    BY <1>a, <2>1
  <2> HIDE DEF y
  <2> QED BY <1>2, <1>a, <2>1, <2>2, <2>3, OwnStep DEF DeleteTask
<1>3. CASE FindTask(a)
  <2> DEFINE y == IF AddsTask(a) THEN [x EXCEPT !.pc = "insert"] ELSE Continue(a)
  <2>1. y \in Transaction /\ y.feed = x.feed /\ y.new = x.new /\ y.then = x.then
    BY <1>a DEF Transaction, AdminSteps, Continue
  <2>2. admin' = [admin EXCEPT ![a] = y]
    BY <1>3 DEF FindTask
  <2>3. y.new \in Row
    BY <1>3, <1>a, <2>1 DEF FindTask
  <2> HIDE DEF y
  <2> QED BY <1>3, <1>a, <2>1, <2>2, <2>3, OwnStep DEF FindTask
<1>4. CASE InsertTask(a)
  <2> DEFINE y == [Continue(a) EXCEPT !.task = x.new.polling_interval]
  <2>1. x.new \in Row /\ x.new.polling_interval \in Interval
    BY <1>4, <1>a DEF InsertTask, Row
  <2>2. y \in Transaction /\ y.feed = x.feed /\ y.new = x.new /\ y.then = x.then
    BY <1>a, <2>1 DEF Transaction, AdminSteps, Continue
  <2>3. admin' = [admin EXCEPT ![a] = y]
    BY <1>4 DEF InsertTask
  <2> HIDE DEF y
  <2> QED BY <1>4, <1>a, <2>1, <2>2, <2>3, OwnStep DEF InsertTask
<1>5. CASE Compare(a)
  <2> DEFINE y == IF IntervalChanged(a)
                  THEN [x EXCEPT !.pc = "select", !.then = "exists"]
                  ELSE [x EXCEPT !.pc = "write", !.then = "write"]
  <2>1. y \in Transaction /\ y.feed = x.feed /\ y.new = x.new /\ y.pc # "idle"
    BY <1>a DEF Transaction, AdminSteps
  <2>2. admin' = [admin EXCEPT ![a] = y]
    BY <1>5 DEF Compare
  <2>3. x.new \in Row
    BY <1>5, <1>a DEF Compare
  <2> HIDE DEF y
  <2> QED BY <1>5, <1>a, <2>1, <2>2, <2>3, OwnStep DEF Compare
<1>6. ASSUME Commit(a) PROVE FeedTasksInv'
  <2> DEFINE others == IF x.task = Untouched THEN admin ELSE Forget({x.feed})
  <2>1. /\ row' \in [Feed -> Row \cup {NoRow}]
        /\ task' \in [Feed -> Interval \cup {NoTask}]
        /\ issued' = issued
    BY <1>6, <1>a, <1>b DEF Commit, FeedTasksInv, TypeOK, Transaction
  <2>2. others \in [Admin -> Transaction]
    BY DEF Forget, FeedTasksInv, TypeOK, Transaction
  <2>3. \A b \in Admin : /\ others[b].pc = admin[b].pc /\ others[b].then = admin[b].then
                         /\ others[b].feed = admin[b].feed /\ others[b].new = admin[b].new
    BY DEF Forget, FeedTasksInv, TypeOK, Transaction
  <2>4. admin' = [others EXCEPT ![a] = Rest]
    BY <1>6 DEF Commit
  <2> HIDE DEF others
  <2>5. admin' \in [Admin -> Transaction] /\ admin'[a] = Rest
    BY <1>c, <2>2, <2>4
  <2>6. \A b \in Admin : b # a => admin'[b] = others[b]
    BY <2>2, <2>4
  <2>7. /\ shell' \in Command
        /\ shell'.pc = shell.pc /\ shell'.todo = shell.todo /\ shell'.read = shell.read
    BY <1>6 DEF Commit, FeedTasksInv, TypeOK, Command
  <2> QED BY <1>c, <2>1, <2>3, <2>5, <2>6, <2>7 DEF FeedTasksInv, TypeOK, StepsOK
<1>7. CASE UpdateRow(a)
  BY <1>6, <1>7 DEF UpdateRow
<1>8. CASE InsertRow(a)
  <2> DEFINE y == [x EXCEPT !.pc = "exists", !.then = "commit"]
  <2>1. y \in Transaction /\ y.feed = x.feed /\ y.new = x.new /\ y.pc # "idle"
    BY <1>a DEF Transaction, AdminSteps
  <2>2. admin' = [admin EXCEPT ![a] = y]
    BY <1>8 DEF InsertRow, FeedTasksInv, TypeOK, Transaction
  <2>3. x.new \in Row
    BY <1>8, <1>a DEF InsertRow
  <2> HIDE DEF y
  <2> QED BY <1>8, <1>a, <2>1, <2>2, <2>3, OwnStep DEF InsertRow
<1>9. CASE EndTransaction(a)
  BY <1>6, <1>9 DEF EndTransaction
<1>10. CASE Rollback(a)
  BY <1>10, <1>c, OwnStep DEF Rollback
<1> QED
  BY <1>1, <1>2, <1>3, <1>4, <1>5, <1>7, <1>8, <1>9, <1>10 DEF AdminStep

\* The start of a command.
LEMMA ShellBeginType ==
  ASSUME FeedTasksInv, NEW pc \in {"clear", "inject"}, NEW todo \in SUBSET Feed,
         NEW read \in [Feed -> Row \cup {NoRow}], NEW found \in SUBSET Feed,
         ShellBegin(pc, todo, read, found), \A f \in todo : read[f] \in Row,
         row' \in [Feed -> Row \cup {NoRow}], issued' \subseteq Feed,
         task' \in [Feed -> Interval \cup {NoTask}]
  PROVE  FeedTasksInv'
<1>1. Quiet \in BOOLEAN
  BY DEF Quiet
<1>2. /\ shell' \in Command
      /\ shell'.todo = todo /\ shell'.read = read
  BY <1>1 DEF ShellBegin, ShellRest, Command
<1>3. /\ admin' \in [Admin -> Transaction]
      /\ \A b \in Admin : /\ admin'[b].pc = admin[b].pc
                          /\ admin'[b].then = admin[b].then
                          /\ admin'[b].feed = admin[b].feed
                          /\ admin'[b].new = admin[b].new
  <2>1. admin' = [a \in Admin |-> [admin[a] EXCEPT !.alone = FALSE]]
    BY DEF ShellBegin
  <2>2. \A b \in Admin : admin[b] \in Transaction
    BY DEF FeedTasksInv, TypeOK
  <2> QED BY <2>1, <2>2 DEF Transaction
<1> QED BY <1>2, <1>3 DEF FeedTasksInv, TypeOK, StepsOK

\* Every step of a command keeps the types.
LEMMA ShellStepType ==
  ASSUME FeedTasksInv, ShellStep
  PROVE  FeedTasksInv'
<1>a. ASSUME NEW F PROVE /\ Forget(F) \in [Admin -> Transaction]
                         /\ \A b \in Admin : /\ Forget(F)[b].pc = admin[b].pc
                                             /\ Forget(F)[b].then = admin[b].then
                                             /\ Forget(F)[b].feed = admin[b].feed
                                             /\ Forget(F)[b].new = admin[b].new
  BY DEF Forget, Transaction, FeedTasksInv, TypeOK
<1>b. ShellRest \in Command /\ ShellRest.pc = "idle"
  BY DEF ShellRest, Command
<1>c. ASSUME NEW F, admin' = Forget(F), task' \in [Feed -> Interval \cup {NoTask}],
             shell' \in Command, shell'.todo \subseteq shell.todo, shell'.read = shell.read,
             shell.pc = "remove" \/ shell'.pc = "load", UNCHANGED <<row, issued>>
      PROVE  FeedTasksInv'
  <2>1. /\ admin' \in [Admin -> Transaction]
        /\ \A b \in Admin : /\ admin'[b].pc = admin[b].pc
                            /\ admin'[b].then = admin[b].then
                            /\ admin'[b].feed = admin[b].feed
                            /\ admin'[b].new = admin[b].new
    BY <1>a, <1>c
  <2>2. shell'.pc \in {"each", "inject", "remove"}
          => \A f \in shell'.todo : shell'.read[f] \in Row
    BY <1>c DEF FeedTasksInv, StepsOK
  <2> QED BY <1>c, <2>1, <2>2 DEF FeedTasksInv, TypeOK, StepsOK
<1>1. CASE Regenerate
  <2>1. ShellRest.read \in [Feed -> Row \cup {NoRow}] /\ Scheduled \subseteq Feed
    BY DEF ShellRest, Scheduled
  <2>2. ShellBegin("clear", {}, ShellRest.read, Scheduled)
    BY <1>1 DEF Regenerate
  <2>3. /\ row' \in [Feed -> Row \cup {NoRow}] /\ issued' \subseteq Feed
        /\ task' \in [Feed -> Interval \cup {NoTask}]
    BY <1>1 DEF Regenerate, FeedTasksInv, TypeOK
  <2>4. \A f \in {} : ShellRest.read[f] \in Row
    OBVIOUS
  <2>5. {} \in SUBSET Feed /\ "clear" \in {"clear", "inject"}
    OBVIOUS
  <2> QED BY <2>1, <2>2, <2>3, <2>4, <2>5, ShellBeginType
<1>11. ASSUME NEW f \in Feed, InjectRow(f) PROVE FeedTasksInv'
  <2> DEFINE read == [ShellRest.read EXCEPT ![f] = InjectedRow]
  <2>1. InjectedRow \in Row
    BY FeedTasksAssumption DEF InjectedRow, Row
  <2>2. read \in [Feed -> Row \cup {NoRow}] /\ read[f] \in Row
    BY <2>1 DEF ShellRest
  <2>3. ShellBegin("inject", {f}, read, {})
    BY <1>11 DEF InjectRow
  <2>4. /\ row' \in [Feed -> Row \cup {NoRow}] /\ issued' \subseteq Feed
        /\ task' \in [Feed -> Interval \cup {NoTask}]
    BY <1>11, <2>1 DEF InjectRow, FeedTasksInv, TypeOK
  <2> HIDE DEF read
  <2> QED BY <2>2, <2>3, <2>4, ShellBeginType
<1>2. CASE ForceDeleteAllTasks
  <2>1. /\ shell' \in Command /\ shell'.pc = "load"
        /\ shell'.todo = shell.todo /\ shell'.read = shell.read
    BY <1>2 DEF ForceDeleteAllTasks, FeedTasksInv, TypeOK, Command
  <2>2. task' \in [Feed -> Interval \cup {NoTask}]
    BY <1>2 DEF ForceDeleteAllTasks, FeedTasksInv, TypeOK
  <2> QED BY <1>2, <1>c, <2>1, <2>2 DEF ForceDeleteAllTasks
<1>5. CASE RemoveArchivedTask
  <2>1. /\ shell' \in Command
        /\ shell'.todo = shell.todo /\ shell'.read = shell.read
    BY <1>5 DEF RemoveArchivedTask, FeedTasksInv, TypeOK, Command
  <2>2. task' \in [Feed -> Interval \cup {NoTask}]
    BY <1>5 DEF RemoveArchivedTask, FeedTasksInv, TypeOK
  <2> QED BY <1>5, <1>c, <2>1, <2>2 DEF RemoveArchivedTask
<1> USE FeedTasksAssumption, NoRowAssumption DEF FeedTasksInv, TypeOK, StepsOK, Command
<1>3. CASE LoadFeeds
  BY <1>3 DEF LoadFeeds
<1>4. CASE EndRegenerate \/ KillShell
  BY <1>4, <1>b DEF EndRegenerate, KillShell
<1>6. ASSUME NEW f \in Feed, FindArchivedTask(f) PROVE FeedTasksInv'
  BY <1>6 DEF FindArchivedTask
<1>7. ASSUME NEW f \in Feed, RegenerateTask(f) \/ InjectTask(f) PROVE FeedTasksInv'
  <2>1. shell.read[f] \in Row /\ ShellAddTask(f)
    BY <1>7 DEF RegenerateTask, InjectTask
  <2>2. task' \in [Feed -> Interval \cup {NoTask}] /\ UNCHANGED <<row, issued, admin>>
    BY <2>1 DEF ShellAddTask, Row
  <2>3. shell' = ShellRest \/ shell' = [shell EXCEPT !.todo = @ \ {f}]
    BY <1>7 DEF RegenerateTask, InjectTask
  <2> QED BY <1>b, <2>2, <2>3
<1> QED BY <1>1, <1>2, <1>3, <1>4, <1>5, <1>6, <1>7, <1>11 DEF ShellStep

\* And so does the start of a request.
LEMMA BeginType ==
  ASSUME FeedTasksInv, NEW a \in Admin, NEW pc \in {"select", "exists"},
         NEW then \in AdminSteps, NEW f \in Feed, NEW new \in Row \cup {NoRow},
         then # "commit" \/ pc = "exists" => new \in Row,
         Begin(a, pc, then, f, new), issued' \subseteq Feed
  PROVE  FeedTasksInv'
<1>1. Quiet \in BOOLEAN
  BY DEF Quiet
<1>2. /\ admin' \in [Admin -> Transaction]
      /\ admin'[a] = [pc |-> pc, then |-> then, feed |-> f, new |-> new,
                      task |-> Untouched, found |-> FALSE, alone |-> Quiet]
      /\ \A b \in Admin : b # a => /\ admin'[b].pc = admin[b].pc
                                   /\ admin'[b].then = admin[b].then
                                   /\ admin'[b].feed = admin[b].feed
                                   /\ admin'[b].new = admin[b].new
  BY <1>1 DEF Begin, Rest, FeedTasksInv, TypeOK, Transaction, AdminSteps
<1>3. /\ shell' \in Command /\ shell'.pc = shell.pc /\ shell'.todo = shell.todo
      /\ shell'.read = shell.read
  BY DEF Begin, FeedTasksInv, TypeOK, Command
<1> QED BY <1>2, <1>3 DEF Begin, FeedTasksInv, TypeOK, StepsOK

LEMMA FeedTasksTypeInductive == FeedTasksInv /\ [Next]_vars => FeedTasksInv'
<1> SUFFICES ASSUME FeedTasksInv, [Next]_vars PROVE FeedTasksInv'
  OBVIOUS
<1>1. ASSUME NEW a \in Admin, NEW f \in Feed, DeleteFeed(a, f) PROVE FeedTasksInv'
  BY <1>1, BeginType DEF DeleteFeed, AdminSteps, FeedTasksInv, TypeOK
<1>2. ASSUME NEW a \in Admin, NEW f \in Feed, NEW new \in Row, Edit(a, f, new)
      PROVE  FeedTasksInv'
  BY <1>2, BeginType DEF Edit, AdminSteps, FeedTasksInv, TypeOK
<1>3. ASSUME NEW a \in Admin, NEW f \in Feed, NEW new \in Row, Create(a, f, new)
      PROVE  FeedTasksInv'
  BY <1>3, BeginType DEF Create, AdminSteps, FeedTasksInv, TypeOK
<1>4. CASE UNCHANGED vars
  BY <1>4 DEF vars, FeedTasksInv, TypeOK, StepsOK
<1> QED BY <1>1, <1>2, <1>3, <1>4, AdminStepType, ShellStepType DEF Next

LEMMA FeedTasksInit == Init => FeedTasksInv
  BY DEF Init, FeedTasksInv, TypeOK, StepsOK, Rest, ShellRest, Transaction, Command,
         AdminSteps

\* Rows, tasks, transactions and commands keep their types however they overlap:
\* no step reads the row of a feed that is not there (receivers.py:36, utils.py:40).
THEOREM FeedTasksTypeCorrect == Spec => []TypeOK
<1>1. FeedTasksInv => TypeOK
  BY DEF FeedTasksInv
<1> QED BY <1>1, FeedTasksInit, FeedTasksTypeInductive, PTL DEF Spec

--------------------------------------------------------------------------------
\* What holds at each statement of a transaction x that runs alone: v is the
\* task as it sees it, r the committed row of its feed, and fit says whether the
\* committed task fits that row.
Stage(x, v, r, fit) ==
  /\ \/ x.then = "commit" /\ x.pc \in {"select", "delete"} /\ x.new = NoRow
     \/ x.then = "commit" /\ x.pc \in {"exists", "insert"} /\ v = NoTask
     \/ x.then = "commit" /\ x.pc = "commit" /\ Fits(v, x.new)
     \/ /\ x.then = "compare" /\ x.pc \in {"exists", "insert"}
        /\ x.task = Untouched /\ ~x.new.is_archived /\ r # NoRow
     \/ /\ x.then = "compare" /\ x.pc = "compare"
        /\ ~x.new.is_archived /\ r # NoRow /\ v # NoTask
        /\ fit /\ r.polling_interval = x.new.polling_interval
             => v = x.new.polling_interval
     \/ /\ x.then = "exists" /\ x.pc \in {"select", "delete"}
        /\ ~x.new.is_archived /\ r # NoRow
     \/ /\ x.then = "write" /\ x.pc \in {"select", "delete"}
        /\ x.new.is_archived /\ r # NoRow
     \/ /\ x.then = "write" /\ x.pc \in {"exists", "insert"}
        /\ ~x.new.is_archived /\ r # NoRow /\ v = NoTask
     \/ /\ x.then = "write" /\ x.pc = "write" /\ r # NoRow
        /\ IsActive(x.new) <=> v # NoTask
        /\ fit => Fits(v, x.new)
  /\ x.pc = "delete" => (x.found <=> v # NoTask)
  /\ x.pc = "insert" => v = NoTask /\ ~x.new.is_archived

\* What a transaction x sees of the task of its feed.
Seen(x) == IF x.task = Untouched THEN task[x.feed] ELSE x.task

StageHolds(x) == Stage(x, Seen(x), row[x.feed], Fits(task[x.feed], row[x.feed]))

\* What holds at each statement of a command that runs alone: every task is
\* gone, then every feed it has handled fits.
ShellStage ==
  \/ shell.pc = "clear" /\ Scheduled \subseteq shell.found
  \/ shell.pc = "load" /\ Scheduled = {}
  \/ /\ shell.pc \in {"each", "remove"}
     /\ shell.pc = "remove" => shell.found = {}
     /\ \A f \in Feed : IF f \in shell.todo THEN task[f] = NoTask /\ shell.read[f] = row[f]
                        ELSE Fits(task[f], row[f])
  \/ shell.pc = "inject"

\* A key that was not given out has neither a row nor a task.
IssuedInv ==
  /\ \A f \in Feed \ issued : row[f] = NoRow /\ task[f] = NoTask
  /\ \A a \in Admin : admin[a].pc # "idle" => admin[a].feed \in issued
  /\ shell.todo \subseteq issued

LoneAdmins ==
  \A a \in Admin : admin[a].alone =>
    /\ admin[a].pc # "idle"
    /\ shell.pc = "idle"
    /\ \A b \in Admin : b # a => admin[b].pc = "idle"
    /\ StageHolds(admin[a])

LoneShell ==
  shell.alone => (\A a \in Admin : admin[a].pc = "idle") /\ ShellStage

LoneInv == FeedTasksInv /\ IssuedInv /\ LoneAdmins /\ LoneShell

\* A statement of a transaction that commits nothing keeps LoneInv if it leads a
\* lone one from one stage to another.
LEMMA OwnStage ==
  ASSUME LoneInv, NEW a \in Admin, admin[a].pc # "idle", NEW y,
         admin' = [admin EXCEPT ![a] = y],
         y.pc # "idle" => y.feed = admin[a].feed,
         y.alone => y.pc # "idle" /\ admin[a].alone /\ StageHolds(y),
         FeedTasksInv', UNCHANGED <<row, task, issued, shell>>
  PROVE  LoneInv'
<1>1. admin'[a] = y /\ \A b \in Admin : b # a => admin'[b] = admin[b]
  BY DEF LoneInv, FeedTasksInv, TypeOK
<1>2. IssuedInv'
  BY <1>1 DEF LoneInv, IssuedInv
<1>3. ~shell.alone
  BY DEF LoneInv, LoneShell
<1>4. \A b \in Admin : b # a => ~admin[b].alone
  BY DEF LoneInv, LoneAdmins
<1>5. y.alone => StageHolds(admin[a])'
  BY <1>1 DEF StageHolds, Seen
<1>6. LoneAdmins'
  BY <1>1, <1>4, <1>5 DEF LoneInv, LoneAdmins
<1> QED BY <1>2, <1>3, <1>6 DEF LoneInv, LoneShell

\* What a request that runs and ends knows, for the steps below.
LEMMA RunningFacts ==
  ASSUME LoneInv, NEW a \in Admin, admin[a].pc # "idle"
  PROVE  /\ admin[a] \in Transaction /\ admin[a].feed \in Feed /\ admin[a].feed \in issued
         /\ row[admin[a].feed] \in Row \cup {NoRow}
         /\ View(a) = Seen(admin[a])
         /\ admin[a].alone => StageHolds(admin[a])
         /\ admin[a].then # "commit" \/ admin[a].pc \in {"exists", "insert", "compare", "write"}
              => /\ admin[a].new \in Row /\ admin[a].new # NoRow
                 /\ admin[a].new.polling_interval \in Interval
  BY NoRowAssumption
     DEF LoneInv, FeedTasksInv, TypeOK, StepsOK, IssuedInv, LoneAdmins, View, Seen, Row

\* The end of a transaction.  The proofs of the two action properties need the
\* same fact: what a lone transaction sees of the task fits what it writes.
LEMMA LoneCommit ==
  ASSUME LoneInv, NEW a \in Admin, UpdateRow(a) \/ EndTransaction(a), admin[a].alone
  PROVE  LET x == admin[a]
         IN  /\ IsActive(x.new) <=> View(a) # NoTask
             /\ Fits(task[x.feed], row[x.feed]) => Fits(View(a), x.new)
<1>1. admin[a].pc # "idle"
  BY DEF UpdateRow, EndTransaction
<1>2. admin[a].new \in Row => admin[a].new.polling_interval # NoTask
  BY FeedTasksAssumption DEF Row
<1>3. admin[a].new \in Row \cup {NoRow}
  BY <1>1, RunningFacts DEF Transaction
<1> QED
  BY <1>1, <1>2, <1>3, RunningFacts
     DEF UpdateRow, EndTransaction, StageHolds, Stage, Fits, IsActive

LEMMA CommitKeeps ==
  ASSUME LoneInv, NEW a \in Admin, admin[a].pc # "idle", Commit(a), FeedTasksInv'
  PROVE  LoneInv'
<1> DEFINE f == admin[a].feed
<1>1. /\ \A g \in Feed \ {f} : row'[g] = row[g] /\ task'[g] = task[g]
      /\ issued' = issued /\ f \in issued
  BY RunningFacts DEF Commit, LoneInv, FeedTasksInv, TypeOK
<1>2. /\ admin'[a] = Rest
      /\ \A b \in Admin : b # a => /\ admin'[b].pc = admin[b].pc
                                   /\ admin'[b].feed = admin[b].feed
                                   /\ admin'[b].alone = admin[b].alone
  BY DEF Commit, Forget, LoneInv, FeedTasksInv, TypeOK, Transaction
<1>3. shell'.todo = shell.todo /\ shell'.alone = shell.alone
  BY DEF Commit, LoneInv, FeedTasksInv, TypeOK, Command
<1>4. IssuedInv'
  BY <1>1, <1>2, <1>3 DEF LoneInv, IssuedInv, Rest
<1>5. ~shell'.alone
  BY <1>3 DEF LoneInv, LoneShell
<1>6. \A b \in Admin : ~admin'[b].alone
  BY <1>2 DEF LoneInv, LoneAdmins, Rest
<1> QED BY <1>4, <1>5, <1>6 DEF LoneInv, LoneAdmins, LoneShell

\* Every step of a request keeps LoneInv.
LEMMA LoneAdminStep ==
  ASSUME LoneInv, NEW a \in Admin, AdminStep(a), FeedTasksInv'
  PROVE  LoneInv'
<1> DEFINE x == admin[a]
           v == View(a)
<1>0. x.pc # "idle"
  BY DEF AdminStep, SelectTask, DeleteTask, FindTask, InsertTask, Compare, UpdateRow,
         InsertRow, EndTransaction, Rollback
<1>a. /\ x \in Transaction /\ v = Seen(x) /\ row[x.feed] \in Row \cup {NoRow}
      /\ x.alone => StageHolds(x)
      /\ x.then # "commit" \/ x.pc \in {"exists", "insert", "compare", "write"}
           => x.new \in Row /\ x.new # NoRow /\ x.new.polling_interval \in Interval
  BY <1>0, RunningFacts
<1>b. NoTask # Untouched /\ Untouched \notin Interval /\ NoTask \notin Interval
  BY FeedTasksAssumption
<1>1. CASE SelectTask(a)
  <2> DEFINE y == [x EXCEPT !.pc = "delete", !.found = v # NoTask]
  <2>1. /\ y.pc = "delete" /\ y.then = x.then /\ y.new = x.new /\ y.task = x.task
        /\ y.feed = x.feed /\ y.alone = x.alone /\ (y.found <=> v # NoTask)
    BY <1>a DEF Transaction
  <2>2. admin' = [admin EXCEPT ![a] = y]
    BY <1>1 DEF SelectTask, LoneInv, FeedTasksInv, TypeOK, Transaction
  <2>3. Seen(y) = v
    BY <2>1, <1>a DEF Seen
  <2> HIDE DEF y
  <2>4. y.alone => StageHolds(y)
    BY <1>1, <1>a, <2>1, <2>3 DEF SelectTask, StageHolds, Stage
  <2> QED BY <1>0, <1>1, <2>1, <2>2, <2>4, OwnStage DEF SelectTask
<1>2. CASE DeleteTask(a)
  <2> DEFINE y == [Continue(a) EXCEPT
                     !.task = IF x.found THEN NoTask ELSE @,
                     !.found = FALSE,
                     !.then = IF x.then = "exists" THEN "write" ELSE @]
  <2>1. /\ y.pc = x.then /\ y.new = x.new /\ y.feed = x.feed /\ y.alone = x.alone
        /\ y.then = (IF x.then = "exists" THEN "write" ELSE x.then)
        /\ y.task = (IF x.found THEN NoTask ELSE x.task)
    BY <1>a DEF Transaction, Continue
  <2>2. admin' = [admin EXCEPT ![a] = y]
    BY <1>2 DEF DeleteTask
  <2>3. x.alone => Seen(y) = NoTask
    BY <1>2, <1>a, <1>b, <2>1 DEF Seen, StageHolds, Stage, DeleteTask
  <2> HIDE DEF y
  <2>4. y.alone => y.pc # "idle" /\ StageHolds(y)
    BY <1>2, <1>a, <2>1, <2>3 DEF DeleteTask, StageHolds, Stage, Fits, IsActive
  <2> QED BY <1>0, <1>2, <2>1, <2>2, <2>4, OwnStage DEF DeleteTask
<1>3. CASE FindTask(a)
  <2> DEFINE y == IF AddsTask(a) THEN [x EXCEPT !.pc = "insert"] ELSE Continue(a)
  <2>1. /\ y.pc = (IF AddsTask(a) THEN "insert" ELSE x.then) /\ y.alone = x.alone
        /\ y.then = x.then /\ y.new = x.new /\ y.feed = x.feed /\ y.task = x.task
    BY <1>a DEF Transaction, Continue
  <2>2. admin' = [admin EXCEPT ![a] = y]
    BY <1>3 DEF FindTask
  <2>3. Seen(y) = v
    BY <2>1, <1>a DEF Seen
  <2> HIDE DEF y
  <2>4. y.alone => y.pc # "idle" /\ StageHolds(y)
    BY <1>3, <1>a, <1>b, <2>1, <2>3
       DEF FindTask, AddsTask, StageHolds, Stage, Fits, IsActive, Seen
  <2> QED BY <1>0, <1>3, <2>1, <2>2, <2>4, OwnStage DEF FindTask
<1>4. CASE InsertTask(a)
  <2> DEFINE y == [Continue(a) EXCEPT !.task = x.new.polling_interval]
  <2>1. /\ y.pc = x.then /\ y.then = x.then /\ y.new = x.new /\ y.feed = x.feed
        /\ y.task = x.new.polling_interval /\ y.alone = x.alone
    BY <1>a DEF Transaction, Continue
  <2>2. admin' = [admin EXCEPT ![a] = y]
    BY <1>4 DEF InsertTask
  <2>3. Seen(y) = x.new.polling_interval /\ Seen(y) # NoTask
    BY <1>4, <1>a, <1>b, <2>1 DEF Seen, InsertTask
  <2> HIDE DEF y
  <2>4. y.alone => y.pc # "idle" /\ StageHolds(y)
    BY <1>4, <1>a, <2>1, <2>3 DEF InsertTask, StageHolds, Stage, Fits, IsActive
  <2> QED BY <1>0, <1>4, <2>1, <2>2, <2>4, OwnStage DEF InsertTask
<1>5. CASE Compare(a)
  <2> DEFINE y == IF IntervalChanged(a)
                  THEN [x EXCEPT !.pc = "select", !.then = "exists"]
                  ELSE [x EXCEPT !.pc = "write", !.then = "write"]
  <2>1. /\ y.new = x.new /\ y.feed = x.feed /\ y.task = x.task /\ y.alone = x.alone
        /\ IF IntervalChanged(a) THEN y.pc = "select" /\ y.then = "exists"
           ELSE y.pc = "write" /\ y.then = "write"
    BY <1>a DEF Transaction
  <2>2. admin' = [admin EXCEPT ![a] = y]
    BY <1>5 DEF Compare
  <2>3. Seen(y) = v
    BY <2>1, <1>a DEF Seen
  <2> HIDE DEF y
  <2>4. y.alone => y.pc # "idle" /\ StageHolds(y)
    BY <1>5, <1>a, <2>1, <2>3
       DEF Compare, IntervalChanged, StageHolds, Stage, Fits, IsActive
  <2>5. y.feed = x.feed /\ y.alone = x.alone
    BY <2>1
  <2>6. UNCHANGED <<row, task, issued, shell>>
    BY <1>5 DEF Compare
  <2> QED BY <1>0, <2>2, <2>4, <2>5, <2>6, OwnStage
<1>6. CASE InsertRow(a)
  <2> DEFINE y == [x EXCEPT !.pc = "exists", !.then = "commit"]
  <2>1. y.feed = x.feed /\ y.alone = x.alone
    BY <1>a DEF Transaction
  <2>2. admin' = [admin EXCEPT ![a] = y]
    BY <1>6 DEF InsertRow, LoneInv, FeedTasksInv, TypeOK, Transaction
  <2>3. ~x.alone
    BY <1>6, <1>a DEF InsertRow, StageHolds, Stage
  <2> HIDE DEF y
  <2> QED BY <1>0, <1>6, <2>1, <2>2, <2>3, OwnStage DEF InsertRow
<1>7. CASE UpdateRow(a) \/ EndTransaction(a)
  BY <1>0, <1>7, CommitKeeps DEF UpdateRow, EndTransaction
<1>8. CASE Rollback(a)
  BY <1>0, <1>8, OwnStage DEF Rollback, Rest
<1> QED
  BY <1>1, <1>2, <1>3, <1>4, <1>5, <1>6, <1>7, <1>8 DEF AdminStep

\* And so does the start of a request.
LEMMA LoneBegin ==
  ASSUME LoneInv, NEW a \in Admin, NEW pc \in {"select", "exists"},
         NEW then \in {"write", "compare", "commit"}, NEW f \in Feed,
         NEW new \in Row \cup {NoRow}, Begin(a, pc, then, f, new), f \in issued',
         \/ then = "commit" /\ pc = "select" /\ new = NoRow
         \/ then = "commit" /\ pc = "exists" /\ f \notin issued
         \/ then = "compare" /\ pc = "exists" /\ ~new.is_archived /\ row[f] # NoRow
         \/ then = "write" /\ pc = "select" /\ new.is_archived /\ row[f] # NoRow,
         issued \subseteq issued', FeedTasksInv'
  PROVE  LoneInv'
<1>1. /\ admin'[a].pc = pc /\ admin'[a].then = then /\ admin'[a].feed = f
      /\ admin'[a].new = new /\ admin'[a].task = Untouched
      /\ admin'[a].alone = Quiet
  BY DEF Begin, Rest, LoneInv, FeedTasksInv, TypeOK
<1>2. /\ row' = row /\ task' = task
      /\ shell'.pc = shell.pc /\ shell'.todo = shell.todo /\ ~shell'.alone
  BY DEF Begin, LoneInv, FeedTasksInv, TypeOK, Command
<1>3. \A b \in Admin : b # a => /\ admin'[b].pc = admin[b].pc
                                /\ admin'[b].feed = admin[b].feed
                                /\ ~admin'[b].alone
  BY DEF Begin, LoneInv, FeedTasksInv, TypeOK, Transaction
<1>4. IssuedInv'
  BY <1>1, <1>2, <1>3 DEF LoneInv, IssuedInv
<1>5. Stage(admin'[a], task[f], row[f], Fits(task[f], row[f]))
  BY <1>1 DEF Stage, LoneInv, IssuedInv
<1>6. StageHolds(admin[a])'
  BY <1>1, <1>2, <1>5 DEF StageHolds, Seen, Fits, IsActive
<1>7. LoneAdmins'
  BY <1>1, <1>2, <1>3, <1>6 DEF LoneAdmins, Quiet
<1> QED BY <1>2, <1>4, <1>7 DEF LoneInv, LoneShell

\* Every step of a command keeps LoneInv.
LEMMA LoneShellStep ==
  ASSUME LoneInv, ShellStep, FeedTasksInv'
  PROVE  LoneInv'
<1>a. ASSUME UNCHANGED issued,
             \A f \in Feed \ issued : row'[f] = NoRow /\ task'[f] = NoTask,
             \A b \in Admin : /\ admin'[b].pc = admin[b].pc
                              /\ admin'[b].feed = admin[b].feed
                              /\ admin'[b].alone = admin[b].alone,
             shell.pc # "idle", shell'.todo \subseteq issued,
             shell'.alone => shell.alone /\ ShellStage'
      PROVE  LoneInv'
  <2>1. \A b \in Admin : ~admin'[b].alone
    BY <1>a DEF LoneInv, LoneAdmins
  <2> QED BY <1>a, <2>1 DEF LoneInv, IssuedInv, LoneAdmins, LoneShell
<1>b. ASSUME NEW F, admin' = Forget(F)
      PROVE  \A b \in Admin : /\ admin'[b].pc = admin[b].pc
                              /\ admin'[b].feed = admin[b].feed
                              /\ admin'[b].alone = admin[b].alone
  BY <1>b DEF Forget, LoneInv, FeedTasksInv, TypeOK, Transaction
<1>c. ASSUME NEW pc, NEW todo, NEW read, NEW found, ShellBegin(pc, todo, read, found),
             todo \subseteq issued', issued \subseteq issued',
             \A f \in Feed \ issued' : row'[f] = NoRow /\ task'[f] = NoTask,
             ShellStage'
      PROVE  LoneInv'
  <2>1. /\ shell'.alone = Quiet /\ shell'.todo = todo
        /\ \A b \in Admin : /\ admin'[b].pc = admin[b].pc
                            /\ admin'[b].feed = admin[b].feed
                            /\ ~admin'[b].alone
    BY <1>c DEF ShellBegin, ShellRest, LoneInv, FeedTasksInv, TypeOK, Transaction
  <2> QED BY <1>c, <2>1 DEF LoneInv, IssuedInv, LoneAdmins, LoneShell, Quiet
<1>d. \A f \in Feed \ issued : row[f] = NoRow /\ task[f] = NoTask
  BY DEF LoneInv, IssuedInv
<1>e. shell \in Command /\ shell.todo \subseteq issued /\ (shell.alone => ShellStage)
  BY DEF LoneInv, FeedTasksInv, TypeOK, IssuedInv, LoneShell
<1>1. CASE Regenerate
  <2>1. ShellStage'
    BY <1>1 DEF Regenerate, ShellBegin, ShellRest, ShellStage, Scheduled
  <2> QED BY <1>1, <1>c, <1>d, <2>1 DEF Regenerate
<1>2. CASE ForceDeleteAllTasks
  <2>1. /\ shell'.pc = "load" /\ shell'.todo = shell.todo /\ shell'.alone = shell.alone
        /\ \A f \in Feed : task'[f] = IF f \in shell.found THEN NoTask ELSE task[f]
    BY <1>2, <1>e DEF ForceDeleteAllTasks, Command
  <2>2. shell'.alone => ShellStage'
    BY <1>2, <1>e, <2>1 DEF ForceDeleteAllTasks, ShellStage, Scheduled
  <2> QED BY <1>2, <1>a, <1>b, <1>d, <1>e, <2>1, <2>2 DEF ForceDeleteAllTasks
<1>3. CASE LoadFeeds
  <2>1. /\ shell'.pc = "each" /\ shell'.alone = shell.alone
        /\ shell'.read = row /\ shell'.todo = {f \in Feed : row[f] # NoRow}
    BY <1>3, <1>e DEF LoadFeeds, Command
  <2>2. shell'.alone => ShellStage'
    BY <1>3, <1>e, <2>1 DEF LoadFeeds, ShellStage, Scheduled, Fits, IsActive
  <2>3. UNCHANGED <<row, task, issued, admin>> /\ shell.pc # "idle"
    BY <1>3 DEF LoadFeeds
  <2> QED BY <1>a, <1>d, <2>1, <2>2, <2>3
<1>4. CASE EndRegenerate \/ KillShell
  <2>1. /\ shell'.todo = {} /\ ~shell'.alone /\ shell.pc # "idle"
        /\ UNCHANGED <<row, task, issued, admin>>
    BY <1>4 DEF EndRegenerate, KillShell, ShellRest
  <2> QED BY <1>a, <1>d, <2>1
<1>5. CASE RemoveArchivedTask
  <2>1. /\ shell'.pc = "each" /\ shell'.todo = shell.todo /\ shell'.alone = shell.alone
        /\ shell'.read = shell.read /\ row' = row
        /\ \A f \in Feed : task'[f] = IF f \in shell.found THEN NoTask ELSE task[f]
    BY <1>5, <1>e DEF RemoveArchivedTask, Command
  <2>2. shell'.alone => ShellStage'
    BY <1>5, <1>e, <2>1 DEF RemoveArchivedTask, ShellStage, Fits, IsActive
  <2> QED BY <1>5, <1>a, <1>b, <1>d, <1>e, <2>1, <2>2 DEF RemoveArchivedTask
<1>6. ASSUME NEW f \in Feed, FindArchivedTask(f) PROVE LoneInv'
  <2>1. /\ shell'.pc = "remove" /\ shell'.todo = shell.todo \ {f}
        /\ shell'.alone = shell.alone /\ shell'.read = shell.read
        /\ shell'.found = {g \in {f} : task[g] # NoTask}
    BY <1>6, <1>e DEF FindArchivedTask, Command
  <2>2. shell'.alone => ShellStage'
    BY <1>6, <1>e, <2>1 DEF FindArchivedTask, ShellStage, Fits, IsActive
  <2>3. UNCHANGED <<row, task, issued, admin>> /\ shell.pc # "idle"
    BY <1>6 DEF FindArchivedTask
  <2> QED BY <1>a, <1>d, <1>e, <2>1, <2>2, <2>3
<1>7. ASSUME NEW f \in Feed, f \in shell.todo, ShellAddTask(f)
      PROVE  /\ UNCHANGED <<row, issued, admin>>
             /\ \A g \in Feed : g # f => task'[g] = task[g]
             /\ task[f] = NoTask => task'[f] = shell.read[f].polling_interval
             /\ \A g \in Feed \ issued : row'[g] = NoRow /\ task'[g] = NoTask
  BY <1>7, <1>d, <1>e DEF ShellAddTask, LoneInv, FeedTasksInv, TypeOK
<1>8. ASSUME NEW f \in Feed, RegenerateTask(f) PROVE LoneInv'
  <2>1. /\ shell'.pc = "each" /\ shell'.todo = shell.todo \ {f} /\ shell.pc = "each"
        /\ shell'.alone = shell.alone /\ shell'.read = shell.read
        /\ f \in shell.todo /\ ~shell.read[f].is_archived /\ shell.read[f] \in Row
    BY <1>8, <1>e DEF RegenerateTask, Command, LoneInv, FeedTasksInv, StepsOK
  <2>2. ShellAddTask(f)
    BY <1>8 DEF RegenerateTask
  <2>3. shell'.alone => ShellStage'
    BY <1>7, <1>e, <2>1, <2>2, NoRowAssumption DEF ShellStage, Fits, IsActive
  <2> QED BY <1>7, <1>a, <1>e, <2>1, <2>2, <2>3
<1>9. ASSUME NEW f \in Feed, InjectTask(f) PROVE LoneInv'
  <2>1. /\ shell'.todo = {} /\ ~shell'.alone /\ shell.pc # "idle"
        /\ f \in shell.todo /\ ShellAddTask(f)
    BY <1>9 DEF InjectTask, ShellRest
  <2> QED BY <1>7, <1>a, <2>1
<1>10. ASSUME NEW f \in Feed, InjectRow(f) PROVE LoneInv'
  <2>1. /\ issued' = issued \cup {f} /\ task' = task
        /\ \A g \in Feed : g # f => row'[g] = row[g]
    BY <1>10 DEF InjectRow, LoneInv, FeedTasksInv, TypeOK
  <2>2. ShellStage'
    BY <1>10 DEF InjectRow, ShellBegin, ShellRest, ShellStage
  <2>3. PICK read : ShellBegin("inject", {f}, read, {})
    BY <1>10 DEF InjectRow
  <2> QED BY <1>c, <1>d, <2>1, <2>2, <2>3
<1> QED
  BY <1>1, <1>2, <1>3, <1>4, <1>5, <1>6, <1>8, <1>9, <1>10 DEF ShellStep

LEMMA LoneInductive == LoneInv /\ [Next]_vars => LoneInv'
<1> SUFFICES ASSUME LoneInv, [Next]_vars PROVE LoneInv'
  OBVIOUS
<1>a. FeedTasksInv'
  BY FeedTasksTypeInductive DEF LoneInv
<1>b. \A f \in Feed : row[f] # NoRow => f \in issued
  BY DEF LoneInv, IssuedInv
<1>1. ASSUME NEW a \in Admin, NEW f \in Feed, DeleteFeed(a, f) PROVE LoneInv'
  <2>1. f \in issued' /\ issued \subseteq issued' /\ Begin(a, "select", "commit", f, NoRow)
    BY <1>1, <1>b DEF DeleteFeed
  <2>2. "select" \in {"select", "exists"} /\ "commit" \in {"write", "compare", "commit"}
        /\ NoRow \in Row \cup {NoRow}
    OBVIOUS
  <2> QED BY <1>a, <2>1, <2>2, LoneBegin
<1>2. ASSUME NEW a \in Admin, NEW f \in Feed, NEW new \in Row, Edit(a, f, new)
      PROVE  LoneInv'
  <2>1. f \in issued' /\ issued \subseteq issued'
    BY <1>2, <1>b DEF Edit
  <2> QED BY <1>2, <1>a, <2>1, LoneBegin DEF Edit
<1>3. ASSUME NEW a \in Admin, NEW f \in Feed, NEW new \in Row, Create(a, f, new)
      PROVE  LoneInv'
  <2>1. f \in issued' /\ issued \subseteq issued'
    BY <1>3 DEF Create
  <2> QED BY <1>3, <1>a, <2>1, LoneBegin DEF Create
<1>4. CASE UNCHANGED vars
  <2>1. UNCHANGED <<row, task, issued, admin, shell>>
    BY <1>4 DEF vars
  <2> QED BY <1>a, <2>1 DEF LoneInv, IssuedInv, LoneAdmins, LoneShell, ShellStage, Scheduled,
                            StageHolds, Stage, Seen, Fits, IsActive
<1> QED BY <1>1, <1>2, <1>3, <1>4, <1>a, LoneAdminStep, LoneShellStep DEF Next

\* The invariant of what runs alone, whatever ran before it.
THEOREM Lone == Spec => []LoneInv
<1>1. Init => LoneInv
  BY FeedTasksInit DEF Init, LoneInv, IssuedInv, LoneAdmins, LoneShell, Rest, ShellRest
<1> QED BY <1>1, LoneInductive, PTL DEF Spec

\* What a commit does to the row and the task of its feed, and to those only.
LEMMA CommitWrites ==
  ASSUME LoneInv, NEW a \in Admin, UpdateRow(a) \/ EndTransaction(a)
  PROVE  LET f == admin[a].feed
         IN  /\ f \in Feed
             /\ row' = [row EXCEPT ![f] = admin[a].new]
             /\ task' = [task EXCEPT ![f] = View(a)]
             /\ row'[f] = admin[a].new /\ task'[f] = View(a)
  BY RunningFacts DEF UpdateRow, EndTransaction, Commit, LoneInv, FeedTasksInv, TypeOK

\* A save or deletion that nothing overlaps gives an active feed a task and takes
\* it from any other, whatever overlapping requests and interrupted commands
\* have left behind (receivers.py:22-46, utils.py:40).
THEOREM LoneSavesRepair == Spec => LoneSaveRepairs
<1> DEFINE Repairs == \A a \in Admin : (UpdateRow(a) \/ EndTransaction(a)) /\ admin[a].alone
                        => LET f == admin[a].feed IN IsActive(row'[f]) <=> task'[f] # NoTask
<1>1. LoneInv => Repairs
  BY CommitWrites, LoneCommit
<1>2. LoneInv => [Repairs]_vars
  BY <1>1
<1> QED BY <1>2, Lone, PTL DEF LoneSaveRepairs

LEMMA LoneCommitFits ==
  ASSUME LoneInv, NEW a \in Admin, UpdateRow(a) \/ EndTransaction(a), admin[a].alone,
         TaskFitsFeed
  PROVE  TaskFitsFeed'
<1> DEFINE f == admin[a].feed
<1>1. f \in Feed /\ Fits(View(a), admin[a].new)
  BY CommitWrites, LoneCommit DEF TaskFitsFeed
<1>2. \A g \in Feed : Fits(task'[g], row'[g])
  BY <1>1, CommitWrites DEF TaskFitsFeed, LoneInv, FeedTasksInv, TypeOK
<1> QED BY <1>2 DEF TaskFitsFeed, Fits, IsActive

\* Where every task fits its feed, a save or deletion that nothing overlaps
\* leaves it so, the intervals included (receivers.py:13-46).
THEOREM LoneSavesKeepFit == Spec => LoneSaveKeepsFit
<1> DEFINE Keeps == \A a \in Admin : (UpdateRow(a) \/ EndTransaction(a)) /\ admin[a].alone
                      => (TaskFitsFeed => TaskFitsFeed')
<1>1. LoneInv => Keeps
  BY LoneCommitFits
<1>2. LoneInv => [Keeps]_vars
  BY <1>1
<1> QED BY <1>2, Lone, PTL DEF LoneSaveKeepsFit

\* One run of the regeneration that nothing overlaps makes every task fit its
\* feed, from any state (regenerate_feed_periodic_tasks.py:9-20).
THEOREM LoneRegenerationRestoresAll == Spec => LoneRegenerationRestores
<1>1. LoneInv => [EndRegenerate /\ shell.alone => TaskFitsFeed']_vars
  <2> SUFFICES ASSUME LoneInv, EndRegenerate, shell.alone PROVE TaskFitsFeed'
    OBVIOUS
  <2>1. \A f \in Feed : Fits(task[f], row[f])
    BY DEF LoneInv, LoneShell, ShellStage, EndRegenerate
  <2> QED BY <2>1 DEF EndRegenerate, TaskFitsFeed, Fits, IsActive
<1> QED BY <1>1, Lone, PTL DEF LoneRegenerationRestores

--------------------------------------------------------------------------------
\* Where requests and commands run one at a time: each is alone, and while no
\* command runs every task fits its feed.  An injection has left a row without its
\* task, which it is about to add.
InjectStage ==
  \E f \in Feed :
    /\ shell.todo = {f} /\ task[f] = NoTask
    /\ shell.read[f] = row[f] /\ row[f] = InjectedRow
    /\ \A g \in Feed \ {f} : Fits(task[g], row[g])

ApartInv ==
  /\ \A a \in Admin : admin[a].pc # "idle" => admin[a].alone
  /\ shell.pc # "idle" => shell.alone
  /\ shell.pc = "idle" => TaskFitsFeed
  /\ shell.pc = "inject" => InjectStage

\* The start of a request.
LEMMA ApartBegin ==
  ASSUME LoneInv, ApartInv, OneAtATime', NEW a \in Admin, NEW pc \in AdminSteps \ {"idle"},
         NEW then, NEW f, NEW new, Begin(a, pc, then, f, new)
  PROVE  ApartInv'
<1>1. /\ admin'[a].pc = pc /\ admin'[a].alone = Quiet
      /\ \A b \in Admin \ {a} : admin'[b].pc = admin[b].pc
      /\ shell'.pc = shell.pc /\ row' = row /\ task' = task
  BY DEF Begin, Rest, LoneInv, FeedTasksInv, TypeOK, Transaction, Command
<1>2. Quiet /\ \A b \in Admin \ {a} : admin'[b].pc = "idle"
  BY <1>1 DEF OneAtATime, Quiet, Begin
<1> QED BY <1>1, <1>2 DEF ApartInv, Quiet, TaskFitsFeed, Fits, IsActive

\* The steps of a request.
LEMMA ApartAdminStep ==
  ASSUME LoneInv, ApartInv, NEW a \in Admin, AdminStep(a)
  PROVE  ApartInv'
<1>1. admin[a].pc # "idle" /\ admin[a].alone /\ shell.pc = "idle"
  BY DEF ApartInv, LoneInv, LoneAdmins, AdminStep, SelectTask, DeleteTask, FindTask,
         InsertTask, Compare, UpdateRow, InsertRow, EndTransaction, Rollback
<1>2. \A b \in Admin \ {a} : admin[b].pc = "idle"
  BY <1>1 DEF LoneInv, LoneAdmins
<1>3. CASE UpdateRow(a) \/ EndTransaction(a)
  <2>1. TaskFitsFeed'
    BY <1>1, <1>3, LoneCommitFits DEF ApartInv
  <2>2. \A b \in Admin : admin'[b].pc = "idle"
    <3>1. Commit(a)
      BY <1>3 DEF UpdateRow, EndTransaction
    <3>2. \A b \in Admin : Forget({admin[a].feed})[b].pc = admin[b].pc
      BY DEF Forget, Transaction, LoneInv, FeedTasksInv, TypeOK
    <3>3. admin' = [(IF admin[a].task = Untouched THEN admin ELSE Forget({admin[a].feed}))
                     EXCEPT ![a] = Rest]
      BY <3>1 DEF Commit
    <3>4. Rest.pc = "idle"
      BY DEF Rest
    <3>5. Forget({admin[a].feed}) = [b \in Admin |-> Forget({admin[a].feed})[b]]
      BY DEF Forget
    <3> QED BY <1>2, <3>2, <3>3, <3>4, <3>5 DEF LoneInv, FeedTasksInv, TypeOK
  <2>3. shell'.pc = "idle"
    BY <1>1, <1>3 DEF UpdateRow, EndTransaction, Commit, LoneInv, FeedTasksInv, TypeOK, Command
  <2> QED BY <2>1, <2>2, <2>3 DEF ApartInv
<1>4. ASSUME NEW y, admin' = [admin EXCEPT ![a] = y], y.pc # "idle" => y.alone,
             UNCHANGED <<row, task, shell>>
      PROVE  ApartInv'
  BY <1>1, <1>2, <1>4 DEF ApartInv, TaskFitsFeed, Fits, IsActive, LoneInv, FeedTasksInv, TypeOK
<1> USE <1>1, <1>4 DEF LoneInv, FeedTasksInv, TypeOK, Transaction, Continue
<1>5. CASE SelectTask(a)
  <2> DEFINE y == [admin[a] EXCEPT !.pc = "delete", !.found = View(a) # NoTask]
  <2>1. admin' = [admin EXCEPT ![a] = y] /\ y.alone = admin[a].alone
    BY <1>5 DEF SelectTask
  <2> HIDE DEF y
  <2> QED BY <1>5, <2>1 DEF SelectTask
<1>6. CASE DeleteTask(a)
  <2> DEFINE y == [Continue(a) EXCEPT
                     !.task = IF admin[a].found THEN NoTask ELSE @,
                     !.found = FALSE,
                     !.then = IF admin[a].then = "exists" THEN "write" ELSE @]
  <2>1. admin' = [admin EXCEPT ![a] = y] /\ y.alone = admin[a].alone
    BY <1>6 DEF DeleteTask
  <2> HIDE DEF y
  <2> QED BY <1>6, <2>1 DEF DeleteTask
<1>7. CASE FindTask(a)
  <2> DEFINE y == IF AddsTask(a) THEN [admin[a] EXCEPT !.pc = "insert"] ELSE Continue(a)
  <2>1. admin' = [admin EXCEPT ![a] = y] /\ y.alone = admin[a].alone
    BY <1>7 DEF FindTask
  <2> HIDE DEF y
  <2> QED BY <1>7, <2>1 DEF FindTask
<1>8. CASE InsertTask(a)
  <2> DEFINE y == [Continue(a) EXCEPT !.task = admin[a].new.polling_interval]
  <2>1. admin' = [admin EXCEPT ![a] = y] /\ y.alone = admin[a].alone
    BY <1>8 DEF InsertTask
  <2> HIDE DEF y
  <2> QED BY <1>8, <2>1 DEF InsertTask
<1>9. CASE Compare(a)
  <2> DEFINE y == IF IntervalChanged(a)
                  THEN [admin[a] EXCEPT !.pc = "select", !.then = "exists"]
                  ELSE [admin[a] EXCEPT !.pc = "write", !.then = "write"]
  <2>1. admin' = [admin EXCEPT ![a] = y] /\ y.alone = admin[a].alone
    BY <1>9 DEF Compare
  <2> HIDE DEF y
  <2> QED BY <1>9, <2>1 DEF Compare
<1>10. CASE InsertRow(a)
  <2> DEFINE y == [admin[a] EXCEPT !.pc = "exists", !.then = "commit"]
  <2>1. admin' = [admin EXCEPT ![a] = y] /\ y.alone = admin[a].alone
    BY <1>10 DEF InsertRow
  <2> HIDE DEF y
  <2> QED BY <1>10, <2>1 DEF InsertRow
<1>11. CASE Rollback(a)
  <2>1. Rest.pc = "idle"
    BY DEF Rest
  <2> QED BY <1>11, <2>1 DEF Rollback
<1> QED BY <1>3, <1>5, <1>6, <1>7, <1>8, <1>9, <1>10, <1>11 DEF AdminStep

\* The steps of a command that is not interrupted.
LEMMA ApartShellStep ==
  ASSUME LoneInv, ApartInv, OneAtATime', ShellStep, KillShell => EndRegenerate
  PROVE  ApartInv'
<1> USE DEF LoneInv, FeedTasksInv, TypeOK, Command
<1>1. ASSUME NEW pc, NEW todo, NEW read, NEW found, ShellBegin(pc, todo, read, found),
             pc # "idle", pc = "inject" => InjectStage'
      PROVE  ApartInv'
  <2>1. shell'.pc = pc /\ shell'.alone = Quiet /\ shell.pc = "idle"
    BY <1>1 DEF ShellBegin, ShellRest
  <2>2. \A b \in Admin : admin'[b].pc = admin[b].pc
    BY <1>1 DEF ShellBegin, Transaction
  <2>3. \A b \in Admin : admin[b].pc = "idle"
    BY <1>1, <2>1, <2>2 DEF OneAtATime
  <2> QED BY <1>1, <2>1, <2>2, <2>3 DEF ApartInv, Quiet
<1>2. CASE Regenerate
  BY <1>1, <1>2 DEF Regenerate
<1>3. ASSUME NEW f \in Feed, InjectRow(f) PROVE ApartInv'
  <2>1. PICK read : read = [ShellRest.read EXCEPT ![f] = InjectedRow]
    OBVIOUS
  <2>2. ShellBegin("inject", {f}, read, {})
    BY <1>3, <2>1 DEF InjectRow
  <2>3. read[f] = InjectedRow
    BY <2>1 DEF ShellRest
  <2>4. /\ shell.pc = "idle" /\ shell'.todo = {f} /\ shell'.read = read
    BY <2>2 DEF ShellBegin, ShellRest
  <2>5. /\ task' = task /\ task[f] = NoTask /\ row'[f] = InjectedRow
        /\ \A g \in Feed \ {f} : row'[g] = row[g]
    BY <1>3 DEF InjectRow, IssuedInv
  <2>6. InjectStage'
    BY <2>3, <2>4, <2>5 DEF InjectStage, ApartInv, TaskFitsFeed, Fits, IsActive
  <2> QED BY <1>1, <2>2, <2>6
<1> DEFINE Elsewhere == \A b \in Admin : admin[b].pc = "idle"
<1>4. shell.pc # "idle" => shell.alone /\ Elsewhere /\ ShellStage
  BY DEF ApartInv, LoneShell
<1>5. ASSUME NEW F, admin' = Forget(F) \/ admin' = admin, Elsewhere
      PROVE  \A b \in Admin : admin'[b].pc = "idle"
  BY <1>5 DEF Forget, Transaction
<1>6. CASE ForceDeleteAllTasks \/ LoadFeeds \/ RemoveArchivedTask
  <2>1. /\ shell.pc # "idle" /\ shell'.pc \in {"load", "each"} /\ shell'.alone = shell.alone
        /\ \E F : admin' = Forget(F) \/ admin' = admin
    BY <1>6 DEF ForceDeleteAllTasks, LoadFeeds, RemoveArchivedTask
  <2> QED BY <1>4, <1>5, <2>1 DEF ApartInv
<1>7. ASSUME NEW f \in Feed, RegenerateTask(f) \/ FindArchivedTask(f) PROVE ApartInv'
  <2>1. /\ shell.pc # "idle" /\ shell'.pc \in {"each", "remove"} /\ shell'.alone = shell.alone
        /\ admin' = admin
    BY <1>7 DEF RegenerateTask, FindArchivedTask, ShellAddTask
  <2> QED BY <1>4, <2>1 DEF ApartInv
<1>8. CASE EndRegenerate
  <2>1. \A f \in Feed : Fits(task[f], row[f])
    BY <1>4, <1>8 DEF EndRegenerate, ShellStage
  <2>2. shell'.pc = "idle" /\ UNCHANGED <<row, task, admin>> /\ Elsewhere
    BY <1>4, <1>8 DEF EndRegenerate, ShellRest
  <2> QED BY <2>1, <2>2 DEF ApartInv, TaskFitsFeed, Fits, IsActive
<1>9. ASSUME NEW f \in Feed, InjectTask(f) PROVE ApartInv'
  <2>1. /\ shell.pc = "inject" /\ f \in shell.todo /\ shell'.pc = "idle" /\ ShellAddTask(f)
    BY <1>9 DEF InjectTask, ShellRest
  <2>2. /\ task[f] = NoTask /\ shell.read[f] = row[f] /\ row[f] = InjectedRow
        /\ \A g \in Feed \ {f} : Fits(task[g], row[g])
    BY <2>1 DEF ApartInv, InjectStage
  <2>3. /\ task' = [task EXCEPT ![f] = I_10m] /\ UNCHANGED <<row, admin>>
    BY <2>1, <2>2 DEF ShellAddTask, InjectedRow
  <2>4. Fits(I_10m, InjectedRow)
    <3>1. InjectedRow \in Row
      BY FeedTasksAssumption DEF InjectedRow, Row
    <3> QED BY <3>1, NoRowAssumption DEF Fits, IsActive, InjectedRow
  <2>5. \A g \in Feed : Fits(task[g], row[g])'
    BY <2>2, <2>3, <2>4 DEF Fits, IsActive
  <2> QED BY <1>4, <2>1, <2>3, <2>5 DEF ApartInv, TaskFitsFeed, Fits, IsActive
<1> QED BY <1>2, <1>3, <1>6, <1>7, <1>8, <1>9 DEF ShellStep

\* Where requests and commands never overlap and no command is interrupted, every
\* task fits its feed whenever no command runs, and so every active feed has one:
\* errors, deadlocks and dead workers of the admin site included, whose
\* transactions are rolled back (README.md:45, receivers.py:13-46).
THEOREM ApartTasksFit ==
  Spec /\ []OneAtATime /\ Uninterrupted
    => [](shell.pc = "idle" => TaskFitsFeed /\ ActiveFeedHasTask)
<1>1. Init => ApartInv
  BY DEF Init, ApartInv, Rest, ShellRest, TaskFitsFeed, Fits, IsActive
<1>2. ASSUME LoneInv, ApartInv, OneAtATime', [Next]_vars, [KillShell => EndRegenerate]_vars
      PROVE  ApartInv'
  <2>1. CASE UNCHANGED vars
    BY <1>2, <2>1 DEF vars, ApartInv, InjectStage, TaskFitsFeed, Fits, IsActive
  <2>2. ASSUME NEW a \in Admin, NEW f \in Feed, DeleteFeed(a, f) PROVE ApartInv'
    BY <1>2, <2>2, ApartBegin DEF DeleteFeed, AdminSteps
  <2>3. ASSUME NEW a \in Admin, NEW f \in Feed, NEW new \in Row,
               Edit(a, f, new) \/ Create(a, f, new)
        PROVE  ApartInv'
    BY <1>2, <2>3, ApartBegin DEF Edit, Create, AdminSteps
  <2>4. CASE ShellStep /\ ~UNCHANGED vars
    BY <1>2, <2>4, ApartShellStep
  <2> QED BY <1>2, <2>1, <2>2, <2>3, <2>4, ApartAdminStep DEF Next
<1>3. LoneInv /\ ApartInv => (shell.pc = "idle" => TaskFitsFeed /\ ActiveFeedHasTask)
  <2>1. \A r \in Row : r.polling_interval # NoTask
    BY FeedTasksAssumption DEF Row
  <2> QED BY <2>1 DEF ApartInv, TaskFitsFeed, ActiveFeedHasTask, Fits, IsActive, LoneInv,
             FeedTasksInv, TypeOK
<1> QED BY <1>1, <1>2, <1>3, Lone, PTL DEF Spec, Uninterrupted

--------------------------------------------------------------------------------

(* GeoData. *)

\* The countries, the sync that writes them and the form of an admin.
CountriesShape ==
  /\ countries \in [Iso -> CountryRow \cup {NoGeoRow}]
  /\ remote.region \in [Iso -> GeoRegion] /\ remote.countries \subseteq Iso
  /\ {"step", "countries", "regions", "read", "stale"} \subseteq DOMAIN sync
  /\ sync.step # "off" => sync.regions \in [Iso -> GeoRegion] /\ sync.countries \subseteq Iso
  /\ flagRuns \in [FlagRun -> [step: {"off", "mark", "unmark"}, ids: SUBSET Iso, alone: BOOLEAN]]
  /\ page = NoPage \/ page \in Iso \X CountryRow

\* A run that nothing has crossed is the only one, and the countries it read are
\* marked after its first UPDATE.
FlagRunHolds(q) ==
  /\ flagRuns[q].ids \subseteq Existing
  /\ flagRuns[q].alone => \A r \in FlagRun \ {q} : flagRuns[r].step = "off"
  /\ flagRuns[q].alone /\ flagRuns[q].step = "unmark" =>
       \A c \in flagRuns[q].ids : countries[c].flag

GeoInv ==
  /\ CountriesShape /\ CountryHasUnknown
  /\ page # NoPage => page[1] \in Existing
  /\ \A q \in FlagRun : FlagRunHolds(q)

\* A step that leaves the flag runs alone and keeps every country and its flag.
LEMMA FlagRunsKept ==
  ASSUME GeoInv, CountriesShape', UNCHANGED flagRuns,
         \A c \in Existing : c \in Existing' /\ countries'[c].flag = countries[c].flag
  PROVE  \A q \in FlagRun : FlagRunHolds(q)'
BY DEF GeoInv, FlagRunHolds, CountriesShape

LEMMA SyncEndsKeeps ==
  ASSUME GeoInv, NEW all \in BOOLEAN, SyncEnds(all)
  PROVE  GeoInv'
<1>1. /\ sync.step = "divisions" /\ sync' = NoSync
      /\ UNCHANGED <<remote, flagRuns, page>>
      /\ \/ UNCHANGED <<countries, unknown>>
         \/ /\ countries' = [c \in Iso |-> IF c \in sync.countries THEN Saved(c) ELSE countries[c]]
            /\ unknown' = unknown \cup CreatedUnknown(sync.countries)
  <2>1. PICK order \in SetToSeqs(IF all
               THEN {f \in remote.features : f.country \in sync.countries} ELSE {}) :
          LET end == InjectDivisions(order) IN
          IF end.failed THEN UNCHANGED <<countries, unknown, divisions, calm>>
          ELSE /\ countries' = [c \in Iso |-> IF c \in sync.countries THEN Saved(c) ELSE countries[c]]
               /\ unknown' = unknown \cup CreatedUnknown(sync.countries)
    BY DEF SyncEnds
  <2> QED BY <2>1 DEF SyncEnds
<1>2. CountriesShape /\ sync.regions \in [Iso -> GeoRegion] /\ sync.countries \subseteq Iso
  BY <1>1 DEF GeoInv, CountriesShape
<1>3. \A c \in sync.countries :
        /\ Saved(c) \in CountryRow /\ Saved(c) # NoGeoRow
        /\ countries[c] # NoGeoRow => Saved(c).flag = countries[c].flag
  <2> SUFFICES ASSUME NEW c \in sync.countries
               PROVE  /\ Saved(c) \in CountryRow /\ Saved(c) # NoGeoRow
                      /\ countries[c] # NoGeoRow => Saved(c).flag = countries[c].flag
    OBVIOUS
  <2>1. /\ c \in Iso /\ sync.regions[c] \in GeoRegion
        /\ countries[c] # NoGeoRow => countries[c].flag \in BOOLEAN
    BY <1>2 DEF CountriesShape, CountryRow
  <2>2. Saved(c) \in CountryRow
    BY <2>1 DEF Saved, CountryRow
  <2> QED BY <2>1, <2>2, GeoAssumption DEF Saved, CountryRow
<1>4. countries' \in [Iso -> CountryRow \cup {NoGeoRow}]
  BY <1>1, <1>2, <1>3 DEF CountriesShape
<1>5. CountriesShape'
  BY <1>1, <1>2, <1>4 DEF CountriesShape, NoSync
<1>6. \A c \in Existing : c \in Existing' /\ countries'[c].flag = countries[c].flag
  BY <1>1, <1>2, <1>3 DEF Existing
<1>7. CountryHasUnknown'
  BY <1>1, <1>2 DEF GeoInv, CountryHasUnknown, Existing, CreatedUnknown
<1> QED BY <1>1, <1>5, <1>6, <1>7, FlagRunsKept DEF GeoInv

LEMMA FlagStepsKeep ==
  ASSUME GeoInv, NEW q \in FlagRun,
         FetchMessages(q) \/ MarkCountries(q) \/ UnmarkOthers(q) \/ FlagRunFails(q)
  PROVE  GeoInv'
<1> DEFINE FlagType == [step: {"off", "mark", "unmark"}, ids: SUBSET Iso, alone: BOOLEAN]
<1>0. UNCHANGED <<unknown, remote, sync, page>> /\ flagRuns' \in [FlagRun -> FlagType]
  <2>1. /\ NoFlagRun \in FlagType
        /\ \A x \in FlagType : [x EXCEPT !.step = "unmark"] \in FlagType
                             /\ [x EXCEPT !.alone = FALSE] \in FlagType
        /\ \A b \in BOOLEAN :
             [step |-> "mark", ids |-> remote.messages \cap Existing, alone |-> b] \in FlagType
    BY DEF NoFlagRun, Existing
  <2>2. flagRuns \in [FlagRun -> FlagType]
    BY DEF GeoInv, CountriesShape
  <2>3. (\A r \in FlagRun : flagRuns[r].step = "off") \in BOOLEAN
    OBVIOUS
  <2> HIDE DEF FlagType
  <2>4. CASE FetchMessages(q)
    BY <2>1, <2>2, <2>3, <2>4 DEF FetchMessages, Others
  <2>5. CASE MarkCountries(q) \/ UnmarkOthers(q) \/ FlagRunFails(q)
    <3>1. \/ flagRuns' = [flagRuns EXCEPT ![q].step = "unmark"]
          \/ flagRuns' = [flagRuns EXCEPT ![q] = NoFlagRun]
      BY <2>5 DEF MarkCountries, UnmarkOthers, FlagRunFails
    <3> QED BY <2>1, <2>2, <2>5, <3>1 DEF MarkCountries, UnmarkOthers, FlagRunFails
  <2> QED BY <2>4, <2>5
<1>1. ASSUME NEW C, NEW value \in BOOLEAN, SetFlags(C, value)
      PROVE  /\ countries' \in [Iso -> CountryRow \cup {NoGeoRow}] /\ Existing' = Existing
             /\ \A c \in Existing : countries'[c].flag = IF c \in C THEN value ELSE countries[c].flag
  <2>1. \A c \in Existing : /\ countries[c] \in CountryRow
                            /\ [countries[c] EXCEPT !.flag = value] \in CountryRow
                            /\ [countries[c] EXCEPT !.flag = value].flag = value
    BY DEF GeoInv, CountriesShape, Existing, CountryRow
  <2>2. countries' = [c \in Iso |-> IF c \in C /\ c \in Existing
                                    THEN [countries[c] EXCEPT !.flag = value] ELSE countries[c]]
    BY <1>1 DEF SetFlags
  <2>3. countries' \in [Iso -> CountryRow \cup {NoGeoRow}]
    BY <2>1, <2>2 DEF GeoInv, CountriesShape
  <2>4. Existing \subseteq Iso
    BY DEF Existing
  <2>5. \A c \in Existing : countries'[c] # NoGeoRow
    BY <2>1, <2>2, <2>4, GeoAssumption DEF Existing, CountryRow
  <2>6. \A c \in Iso \ Existing : countries'[c] = NoGeoRow
    BY <2>2 DEF Existing
  <2>7. Existing' = Existing
    BY <2>4, <2>5, <2>6 DEF Existing
  <2> QED BY <2>1, <2>2, <2>3, <2>4, <2>7
<1>2. CASE FetchMessages(q)
  <2>1. /\ flagRuns' = Others(q, [step |-> "mark", ids |-> remote.messages \cap Existing,
                                  alone |-> \A r \in FlagRun : flagRuns[r].step = "off"])
        /\ flagRuns[q].step = "off" /\ UNCHANGED countries
    BY <1>2 DEF FetchMessages
  <2>2. /\ flagRuns'[q].step = "mark" /\ flagRuns'[q].ids \subseteq Existing
        /\ flagRuns'[q].alone => \A r \in FlagRun : flagRuns[r].step = "off"
        /\ \A r \in FlagRun \ {q} : /\ flagRuns'[r].step = flagRuns[r].step
                                    /\ flagRuns'[r].ids = flagRuns[r].ids
                                    /\ flagRuns'[r].alone = FALSE
    BY <2>1 DEF Others, GeoInv, CountriesShape
  <2>3. Existing' = Existing
    BY <2>1 DEF Existing
  <2>4. ASSUME NEW r \in FlagRun PROVE FlagRunHolds(r)'
    <3>1. CASE r = q
      BY <3>1, <2>2, <2>3 DEF FlagRunHolds
    <3>2. CASE r # q
      BY <3>2, <2>2, <2>3 DEF FlagRunHolds, GeoInv
    <3> QED BY <3>1, <3>2
  <2> QED BY <1>0, <2>1, <2>3, <2>4 DEF GeoInv, CountriesShape, CountryHasUnknown
<1>3. CASE MarkCountries(q)
  <2>1. /\ SetFlags(flagRuns[q].ids, TRUE)
        /\ flagRuns[q].step = "mark" /\ flagRuns' = [flagRuns EXCEPT ![q].step = "unmark"]
    BY <1>3 DEF MarkCountries
  <2>2. /\ countries' \in [Iso -> CountryRow \cup {NoGeoRow}] /\ Existing' = Existing
        /\ \A c \in Existing :
             countries'[c].flag = IF c \in flagRuns[q].ids THEN TRUE ELSE countries[c].flag
    BY <1>1, <2>1
  <2>3. /\ flagRuns'[q].step = "unmark" /\ flagRuns'[q].ids = flagRuns[q].ids
        /\ flagRuns'[q].alone = flagRuns[q].alone
        /\ \A r \in FlagRun \ {q} : flagRuns'[r] = flagRuns[r]
    BY <2>1 DEF GeoInv, CountriesShape
  <2>4. \A r \in FlagRun \ {q} : flagRuns[r].alone = FALSE
    BY <2>1 DEF GeoInv, FlagRunHolds, CountriesShape
  <2>5. ASSUME NEW r \in FlagRun PROVE FlagRunHolds(r)'
    <3>1. FlagRunHolds(r) /\ FlagRunHolds(q)
      BY DEF GeoInv
    <3>2. CASE r = q
      BY <3>1, <3>2, <2>2, <2>3 DEF FlagRunHolds
    <3>3. CASE r # q
      BY <3>1, <3>3, <2>2, <2>3, <2>4 DEF FlagRunHolds
    <3> QED BY <3>2, <3>3
  <2> QED BY <1>0, <2>2, <2>5 DEF GeoInv, CountriesShape, CountryHasUnknown
<1>4. CASE UnmarkOthers(q) \/ FlagRunFails(q)
  <2>1. /\ flagRuns' = [flagRuns EXCEPT ![q] = NoFlagRun] /\ flagRuns[q].step # "off"
        /\ \/ SetFlags({c \in Existing : ~(c \in flagRuns[q].ids /\ countries[c].flag)}, FALSE)
           \/ UNCHANGED countries
    BY <1>4 DEF UnmarkOthers, FlagRunFails
  <2>2. countries' \in [Iso -> CountryRow \cup {NoGeoRow}] /\ Existing' = Existing
    BY <1>1, <2>1 DEF GeoInv, CountriesShape, Existing
  <2>3. /\ flagRuns'[q] = NoFlagRun
        /\ \A r \in FlagRun \ {q} : flagRuns'[r] = flagRuns[r]
    BY <2>1 DEF GeoInv, CountriesShape
  <2>4. \A r \in FlagRun \ {q} : flagRuns[r].alone = FALSE
    BY <2>1 DEF GeoInv, FlagRunHolds, CountriesShape
  <2> QED
    BY <1>0, <2>2, <2>3, <2>4
    DEF GeoInv, CountriesShape, CountryHasUnknown, FlagRunHolds, NoFlagRun
<1> QED BY <1>2, <1>3, <1>4

LEMMA FormKeeps ==
  ASSUME GeoInv, SubmitForm \/ \E c \in Iso : OpenForm(c)
  PROVE  GeoInv'
<1>1. CASE SubmitForm
  <2>1. /\ page # NoPage /\ countries' = [countries EXCEPT ![page[1]] = page[2]] /\ page' = NoPage
        /\ flagRuns' = [r \in FlagRun |-> [flagRuns[r] EXCEPT !.alone = FALSE]]
        /\ UNCHANGED <<unknown, remote, sync>>
    BY <1>1 DEF SubmitForm
  <2>2. page \in Iso \X CountryRow /\ page[1] \in Iso /\ page[2] \in CountryRow /\ page[2] # NoGeoRow
    BY <2>1, GeoAssumption DEF GeoInv, CountriesShape, CountryRow
  <2>3. \A r \in FlagRun : /\ flagRuns'[r].step = flagRuns[r].step /\ flagRuns'[r].ids = flagRuns[r].ids
                           /\ flagRuns'[r].alone = FALSE
    BY <2>1 DEF GeoInv, CountriesShape
  <2>4. page[1] \in Existing
    BY <2>1 DEF GeoInv
  <2>5. countries' \in [Iso -> CountryRow \cup {NoGeoRow}] /\ Existing' = Existing
    BY <2>1, <2>2, <2>4 DEF GeoInv, CountriesShape, Existing
  <2>6. flagRuns' \in [FlagRun -> [step: {"off", "mark", "unmark"}, ids: SUBSET Iso, alone: BOOLEAN]]
    BY <2>1 DEF GeoInv, CountriesShape
  <2> QED BY <2>1, <2>3, <2>5, <2>6 DEF GeoInv, CountriesShape, CountryHasUnknown, FlagRunHolds
<1>2. ASSUME NEW c \in Iso, OpenForm(c) PROVE GeoInv'
  <2>1. countries[c] \in CountryRow
    BY <1>2 DEF OpenForm, Existing, GeoInv, CountriesShape
  <2> QED BY <1>2, <2>1
          DEF OpenForm, GeoInv, CountriesShape, CountryHasUnknown, FlagRunHolds, Existing
<1> QED BY <1>1, <1>2

LEMMA GeoInductive == GeoInv /\ [GeoNext]_geoVars => GeoInv'
<1> SUFFICES ASSUME GeoInv, [GeoNext]_geoVars PROVE GeoInv'
  OBVIOUS
<1> USE DEF GeoInv, CountriesShape
<1>1. CASE UNCHANGED geoVars
  BY <1>1 DEF geoVars, CountryHasUnknown, FlagRunHolds, Existing
<1>2. CASE SyncCountries
  <2>1. /\ sync' = [step |-> "divisions", countries |-> remote.countries,
                    regions |-> remote.region, read |-> countries, stale |-> FALSE]
        /\ UNCHANGED <<countries, unknown, remote, flagRuns, page>>
    BY <1>2 DEF SyncCountries
  <2> QED BY <2>1 DEF CountryHasUnknown, FlagRunHolds, Existing
<1>3. CASE SyncFails
  BY <1>3 DEF SyncFails, NoSync, CountryHasUnknown, FlagRunHolds, Existing
<1>4. CASE RemoteEdit
  <2>1. /\ remote' \in Published /\ sync' = [sync EXCEPT !.stale = sync.step # "off"]
        /\ UNCHANGED <<countries, unknown, flagRuns, page>>
    BY <1>4 DEF RemoteEdit
  <2>2. remote'.region \in [Iso -> GeoRegion] /\ remote'.countries \subseteq Iso
    BY <2>1 DEF Published
  <2>3. /\ {"step", "countries", "regions", "read", "stale"} \subseteq DOMAIN sync'
        /\ sync'.step = sync.step /\ sync'.regions = sync.regions /\ sync'.countries = sync.countries
    BY <2>1
  <2> QED BY <2>1, <2>2, <2>3 DEF CountryHasUnknown, FlagRunHolds, Existing
<1> QED
  BY <1>1, <1>2, <1>3, <1>4, FormKeeps, SyncEndsKeeps, FlagStepsKeep DEF GeoNext

LEMMA GeoInitial == GeoInit => GeoInv
BY DEF GeoInit, GeoInv, CountriesShape, Published, NoSync, NoFlagRun, CountryHasUnknown, Existing,
   FlagRunHolds

\* A run of the flag command that no other run and no admin crosses publishes the
\* flags of preparemessages, for any countries and syncs beside it.
THEOREM FlagRunsPublish == GeoSpec => FlagsFollowRun
<1>1. GeoInv /\ [GeoNext]_geoVars =>
        [\A q \in FlagRun :
           flagRuns[q].alone /\ UnmarkOthers(q) =>
             \A c \in Existing : countries'[c].flag <=> c \in flagRuns[q].ids]_geoVars
  <2> SUFFICES ASSUME GeoInv, NEW q \in FlagRun, flagRuns[q].alone, UnmarkOthers(q),
                      NEW c \in Existing
               PROVE  countries'[c].flag <=> c \in flagRuns[q].ids
    OBVIOUS
  <2>1. c \in Iso /\ countries[c] \in CountryRow
    BY DEF Existing, GeoInv, CountriesShape
  <2>2. c \in flagRuns[q].ids => countries[c].flag = TRUE
    BY <2>1 DEF UnmarkOthers, GeoInv, FlagRunHolds, CountryRow
  <2>3. countries'[c] = IF c \in flagRuns[q].ids /\ countries[c].flag THEN countries[c]
                        ELSE [countries[c] EXCEPT !.flag = FALSE]
    BY <2>1 DEF UnmarkOthers, SetFlags
  <2> QED BY <2>1, <2>2, <2>3 DEF CountryRow
<1> QED BY <1>1, GeoInitial, GeoInductive, PTL DEF GeoSpec, FlagsFollowRun

(* inject_admin1s. *)

RowShape == [id: DivisionId \cup {NoId}, name: DivisionName, country: Iso]

\* A query for the feature finds the row.
Matches(entry, f) == entry.country = f.country /\ (entry.id = f.id \/ entry.name = f.name)

\* Rows are those of the features F or have nothing to do with them.
Settling(rows, F) ==
  \A k \in Pk : rows[k] # NoGeoRow => rows[k] \in F \/ \A f \in F : ~Matches(rows[k], f)

EachHasRow(rows, F) == \A f \in F : \E k \in Pk : rows[k] = f

\* Rows and batch after the features seen: a row without an id waits to be written, and
\* a row that one of the features matched is theirs or waits as well.
BatchHolds(st, F, seen) ==
  /\ st.rows \in [Pk -> RowShape \cup {NoGeoRow}] /\ st.batch \in Seq(Pk \X Feature)
  /\ \A i \in DOMAIN st.batch : st.rows[st.batch[i][1]] # NoGeoRow /\ st.batch[i][2] \in seen
  /\ \A k \in Pk : st.rows[k] # NoGeoRow =>
       /\ st.rows[k].id = NoId => Whens(st, k) # {}
       /\ \/ st.rows[k] \in F \/ Whens(st, k) # {}
          \/ \A f \in seen : ~Matches(st.rows[k], f)

\* If the rows were settling before: no row waits for two features, and each feature
\* seen has one.
SettlingHolds(st, F, seen) ==
  /\ \A k \in Pk : st.rows[k] # NoGeoRow =>
       st.rows[k] \in F \/ st.rows[k].id = NoId \/ \A f \in F : ~Matches(st.rows[k], f)
  /\ \A i \in DOMAIN st.batch : LET entry == st.rows[st.batch[i][1]] IN
       entry.name = st.batch[i][2].name /\ entry.country = st.batch[i][2].country
  /\ \A f \in seen : \E k \in Pk :
       st.rows[k] = f \/ \E i \in DOMAIN st.batch : st.batch[i] = <<k, f>>

InjectHolds(st, F, seen) ==
  BatchHolds(st, F, seen) /\ (Settling(divisions, F) => SettlingHolds(st, F, seen))

FreeRows(rows) == {k \in Pk : rows[k] = NoGeoRow}

LEMMA BatchIs ==
  ASSUME NEW b \in Seq(Pk \X Feature)
  PROVE  /\ Len(b) \in Nat /\ DOMAIN b = 1 .. Len(b)
         /\ \A i \in DOMAIN b : /\ b[i] = <<b[i][1], b[i][2]>>
                                /\ b[i][1] \in Pk /\ b[i][2] \in Feature
<1>1. Len(b) \in Nat /\ DOMAIN b = 1 .. Len(b)
  OBVIOUS
<1> DEFINE E == Pk \X Feature
<1>2. \A i \in DOMAIN b : b[i] \in E
  <2>1. b \in Seq(E)
    OBVIOUS
  <2> HIDE DEF E
  <2> QED BY <2>1
<1> QED BY <1>1, <1>2

\* bulk_update writes the first entry of each row.
LEMMA FlushIs ==
  ASSUME NEW st, st.rows \in [Pk -> RowShape \cup {NoGeoRow}], st.batch \in Seq(Pk \X Feature),
         \A i \in DOMAIN st.batch : st.rows[st.batch[i][1]] # NoGeoRow
  PROVE  LET t == FlushBatch(st) IN
         /\ t.batch = <<>> /\ t.rows = [k \in Pk |-> t.rows[k]] /\ t.failed = Clash(t.rows)
         /\ \A k \in Pk : Whens(st, k) = {} => t.rows[k] = st.rows[k]
         /\ \A k \in Pk : Whens(st, k) # {} => \E i \in Whens(st, k) : t.rows[k] = st.batch[i][2]
<1> DEFINE b == st.batch
           t == FlushBatch(st)
<1>1. /\ Len(b) \in Nat /\ DOMAIN b = 1 .. Len(b)
      /\ \A i \in DOMAIN b : b[i][1] \in Pk /\ b[i][2] \in Feature
  BY BatchIs
<1>2. /\ t.batch = <<>> /\ t.rows = [k \in Pk |-> t.rows[k]] /\ t.failed = Clash(t.rows)
      /\ \A k \in Pk : t.rows[k] = IF Whens(st, k) = {} THEN st.rows[k]
                         ELSE WrittenDivision(st.rows[k], b[FirstOne(Whens(st, k))][2])
  BY DEF FlushBatch
<1>3. ASSUME NEW k \in Pk, Whens(st, k) # {}
      PROVE  \E i \in Whens(st, k) : t.rows[k] = b[i][2]
  <2> DEFINE S == Whens(st, k)
  <2>1. S \in SUBSET (0 .. Len(b)) /\ S \subseteq DOMAIN b
    BY <1>1 DEF Whens
  <2> HIDE DEF S
  <2>2. \E i \in S : \A j \in S : i <= j
    BY <1>1, <1>3, <2>1, LeastNat DEF S
  <2>3. FirstOne(S) \in S
    BY <2>2 DEF FirstOne
  <2>4. b[FirstOne(S)][2] \in Feature /\ b[FirstOne(S)][1] = k
    BY <1>1, <2>1, <2>3 DEF S, Whens
  <2>5. st.rows[k] \in RowShape
    BY <2>1, <2>3, <2>4
  <2>6. \A entry \in RowShape, f \in Feature : WrittenDivision(entry, f) = f
    BY DEF WrittenDivision, RowShape, Feature
  <2>7. t.rows[k] = WrittenDivision(st.rows[k], b[FirstOne(S)][2])
    BY <1>2, <1>3 DEF S
  <2> QED BY <2>3, <2>4, <2>5, <2>6, <2>7 DEF S
<1> HIDE DEF t
<1> QED BY <1>2, <1>3 DEF t, b

\* What the rows are after a flush that no unique constraint refused.
LEMMA FlushHolds ==
  ASSUME NEW F \in FeatureSet, NEW seen \in SUBSET F, NEW st, InjectHolds(st, F, seen)
  PROVE  LET t == FlushBatch(st) IN
         /\ InjectHolds(t, F, seen) /\ t.batch = <<>> /\ t.failed = Clash(t.rows)
         /\ FreeRows(t.rows) = FreeRows(st.rows)
<1> DEFINE b == st.batch
           t == FlushBatch(st)
<1>1. BatchHolds(st, F, seen)
  BY DEF InjectHolds
<1>2. /\ t.batch = <<>> /\ t.rows = [k \in Pk |-> t.rows[k]] /\ t.failed = Clash(t.rows)
      /\ \A k \in Pk : Whens(st, k) = {} => t.rows[k] = st.rows[k]
      /\ \A k \in Pk : Whens(st, k) # {} => \E i \in Whens(st, k) : t.rows[k] = b[i][2]
  BY <1>1, FlushIs DEF BatchHolds
<1> HIDE DEF t
<1>3. /\ DOMAIN b = 1 .. Len(b)
      /\ \A i \in DOMAIN b : /\ b[i] = <<b[i][1], b[i][2]>> /\ b[i][1] \in Pk
                             /\ b[i][2] \in seen /\ b[i][2] \in Feature /\ st.rows[b[i][1]] # NoGeoRow
  BY <1>1, BatchIs DEF BatchHolds
<1>4. /\ F \subseteq Feature /\ \A f, g \in F : f.name = g.name => f = g
      /\ \A f \in Feature : f \in RowShape /\ f # NoGeoRow /\ f.id # NoId
  BY GeoAssumption DEF FeatureSet, Feature, RowShape
<1>5. \A k \in Pk : Whens(st, k) # {} => /\ t.rows[k] \in seen /\ t.rows[k] \in Feature
                                         /\ st.rows[k] # NoGeoRow
  BY <1>2, <1>3 DEF Whens
<1>6. \A k \in Pk : Whens(t, k) = {}
  BY <1>2 DEF Whens
<1>7. BatchHolds(t, F, seen)
  <2>1. \A k \in Pk : st.rows[k] \in RowShape \cup {NoGeoRow}
    BY <1>1 DEF BatchHolds
  <2>2. \A k \in Pk : t.rows[k] \in RowShape \cup {NoGeoRow}
    BY <1>2, <1>4, <1>5, <2>1
  <2>3. t.rows \in [Pk -> RowShape \cup {NoGeoRow}]
    BY <1>2, <2>2
  <2>4. t.batch \in Seq(Pk \X Feature) /\ DOMAIN t.batch = {}
    BY <1>2
  <2>5. ASSUME NEW k \in Pk, t.rows[k] # NoGeoRow
        PROVE  /\ t.rows[k].id # NoId
               /\ t.rows[k] \in F \/ \A f \in seen : ~Matches(t.rows[k], f)
    <3>1. CASE Whens(st, k) = {}
      <4>1. t.rows[k] = st.rows[k]
        BY <1>2, <3>1
      <4> QED BY <1>1, <2>5, <3>1, <4>1 DEF BatchHolds
    <3>2. CASE Whens(st, k) # {}
      BY <1>4, <1>5, <3>2
    <3> QED BY <3>1, <3>2
  <2> QED BY <2>3, <2>4, <2>5 DEF BatchHolds
<1>8. FreeRows(t.rows) = FreeRows(st.rows)
  BY <1>2, <1>4, <1>5 DEF FreeRows
<1>9. ASSUME SettlingHolds(st, F, seen) PROVE SettlingHolds(t, F, seen)
  <2>1. ASSUME NEW k \in Pk, NEW i \in Whens(st, k), NEW f \in F, st.rows[k].name = f.name
        PROVE  b[i][2] = f
    <3>1. b[i][1] = k /\ i \in DOMAIN b
      BY DEF Whens
    <3>2. b[i][2].name = f.name /\ b[i][2] \in F
      BY <1>3, <1>9, <2>1, <3>1 DEF SettlingHolds
    <3> QED BY <1>4, <3>2
  <2>2. \A k \in Pk : t.rows[k] # NoGeoRow =>
          t.rows[k] \in F \/ t.rows[k].id = NoId \/ \A f \in F : ~Matches(t.rows[k], f)
    <3> SUFFICES ASSUME NEW k \in Pk, t.rows[k] # NoGeoRow
                 PROVE  t.rows[k] \in F \/ t.rows[k].id = NoId \/ \A f \in F : ~Matches(t.rows[k], f)
      OBVIOUS
    <3>1. CASE Whens(st, k) = {}
      <4>1. t.rows[k] = st.rows[k]
        BY <1>2, <3>1
      <4> QED BY <1>9, <4>1 DEF SettlingHolds
    <3>2. CASE Whens(st, k) # {}
      BY <1>5, <3>2
    <3> QED BY <3>1, <3>2
  <2>3. ASSUME NEW f \in seen PROVE \E k \in Pk : t.rows[k] = f
    <3>1. PICK k \in Pk : st.rows[k] = f \/ \E i \in DOMAIN b : b[i] = <<k, f>>
      BY <1>9 DEF SettlingHolds
    <3>2. CASE Whens(st, k) = {}
      <4>1. st.rows[k] = f
        BY <3>1, <3>2 DEF Whens
      <4> QED BY <1>2, <3>2, <4>1
    <3>3. CASE Whens(st, k) # {}
      <4>1. st.rows[k].name = f.name
        <5>1. ASSUME NEW i \in DOMAIN b, b[i] = <<k, f>> PROVE st.rows[k].name = f.name
          BY <1>9, <5>1 DEF SettlingHolds
        <5> QED BY <3>1, <5>1
      <4>2. PICK i \in Whens(st, k) : t.rows[k] = b[i][2]
        BY <1>2, <3>3
      <4>3. t.rows[k] = f
        BY <2>1, <4>1, <4>2
      <4> QED BY <4>3
    <3> QED BY <3>2, <3>3
  <2>4. DOMAIN t.batch = {}
    BY <1>2
  <2> QED BY <2>2, <2>3, <2>4 DEF SettlingHolds
<1> QED BY <1>2, <1>7, <1>8, <1>9 DEF InjectHolds, t

\* A feature is added to the batch, for the one row that it matches or for a new one.
LEMMA AddHolds ==
  ASSUME NEW F \in FeatureSet, NEW seen \in SUBSET F, NEW f \in F, NEW st,
         InjectHolds(st, F, seen), NEW k \in Pk,
         \A j \in Matching(st.rows, f) : j = k,
         Matching(st.rows, f) # {} => k \in Matching(st.rows, f),
         Matching(st.rows, f) = {} => st.rows[k] = NoGeoRow,
         NEW t, t.batch = Append(st.batch, <<k, f>>),
         t.rows = IF Matching(st.rows, f) # {} THEN st.rows
                  ELSE [st.rows EXCEPT ![k] = [id |-> NoId, name |-> f.name, country |-> f.country]]
  PROVE  InjectHolds(t, F, seen \cup {f}) /\ FreeRows(st.rows) \ {k} \subseteq FreeRows(t.rows)
<1> DEFINE b == st.batch
           n == Len(b)
           new == [id |-> NoId, name |-> f.name, country |-> f.country]
           found == Matching(st.rows, f) # {}
<1>1. BatchHolds(st, F, seen)
  BY DEF InjectHolds
<1>2. /\ n \in Nat /\ DOMAIN b = 1 .. n
      /\ \A i \in DOMAIN b : b[i] = <<b[i][1], b[i][2]>> /\ b[i][1] \in Pk /\ b[i][2] \in seen
                             /\ st.rows[b[i][1]] # NoGeoRow
  BY <1>1, BatchIs DEF BatchHolds
<1>3. /\ F \subseteq Feature /\ \A g \in F : g.id = f.id \/ g.name = f.name => g = f
      /\ f \in Feature /\ f.id # NoId /\ new \in RowShape /\ new # NoGeoRow /\ \A g \in F : g # NoGeoRow
  BY GeoAssumption DEF FeatureSet, Feature, RowShape
<1>4. /\ t.batch \in Seq(Pk \X Feature) /\ DOMAIN t.batch = 1 .. n + 1
      /\ t.batch[n + 1] = <<k, f>> /\ \A i \in DOMAIN b : i \in 1 .. n + 1 /\ t.batch[i] = b[i]
  <2> DEFINE E == Pk \X Feature
  <2>1. b \in Seq(E) /\ <<k, f>> \in E
    BY <1>1, <1>3 DEF BatchHolds
  <2> HIDE DEF E, b
  <2>2. Append(b, <<k, f>>) \in Seq(E) /\ Len(Append(b, <<k, f>>)) = Len(b) + 1
        /\ Append(b, <<k, f>>)[Len(b) + 1] = <<k, f>>
        /\ \A i \in 1 .. Len(b) : Append(b, <<k, f>>)[i] = b[i]
    BY <2>1
  <2>3. t.batch = Append(b, <<k, f>>)
    BY DEF b
  <2>4. DOMAIN t.batch = 1 .. n + 1
    BY <2>2, <2>3
  <2>5. t.batch \in Seq(E)
    BY <2>2, <2>3
  <2>6. /\ t.batch[n + 1] = <<k, f>>
        /\ \A i \in DOMAIN b : i \in 1 .. n + 1 /\ t.batch[i] = b[i]
    BY <1>2, <2>2, <2>3
  <2> QED BY <2>4, <2>5, <2>6 DEF E
<1>5. \A i \in DOMAIN t.batch : i \in DOMAIN b \/ i = n + 1
  BY <1>2, <1>4
<1> HIDE DEF b, n
<1>6. \A j \in Pk : st.rows[j] \in RowShape \cup {NoGeoRow}
  BY <1>1 DEF BatchHolds
<1>7. /\ \A j \in Pk \ {k} : t.rows[j] = st.rows[j]
      /\ found => t.rows[k] = st.rows[k] /\ st.rows[k] # NoGeoRow /\ Matches(st.rows[k], f)
      /\ ~found => t.rows[k] = new /\ st.rows[k] = NoGeoRow
      /\ t.rows \in [Pk -> RowShape \cup {NoGeoRow}]
  <2>1. st.rows \in [Pk -> RowShape \cup {NoGeoRow}]
    BY <1>1 DEF BatchHolds
  <2> QED BY <1>3, <2>1 DEF Matching, Matches
<1>8. \A j \in Pk \ {k} : st.rows[j] # NoGeoRow => ~Matches(st.rows[j], f)
  BY DEF Matching, Matches
<1>9. t.rows[k] # NoGeoRow /\ t.rows[k] \in RowShape
  BY <1>3, <1>6, <1>7
<1> HIDE DEF new
<1>10. n + 1 \in Whens(t, k) /\ \A j \in Pk : Whens(st, j) # {} => Whens(t, j) # {}
  BY <1>2, <1>4 DEF Whens, b
<1>11. BatchHolds(t, F, seen \cup {f})
  <2>1. ASSUME NEW i \in DOMAIN t.batch
        PROVE  t.rows[t.batch[i][1]] # NoGeoRow /\ t.batch[i][2] \in seen \cup {f}
    <3>1. CASE i = n + 1
      BY <1>4, <1>9, <3>1
    <3>2. CASE i \in DOMAIN b
      BY <1>2, <1>4, <1>7, <1>9, <3>2
    <3> QED BY <1>5, <3>1, <3>2
  <2>2. ASSUME NEW j \in Pk, t.rows[j] # NoGeoRow
        PROVE  /\ t.rows[j].id = NoId => Whens(t, j) # {}
               /\ \/ t.rows[j] \in F \/ Whens(t, j) # {}
                  \/ \A g \in seen \cup {f} : ~Matches(t.rows[j], g)
    <3>1. CASE j = k
      BY <1>10, <3>1
    <3>2. CASE j # k
      BY <1>1, <1>7, <1>8, <1>10, <2>2, <3>2 DEF BatchHolds
    <3> QED BY <3>1, <3>2
  <2> QED BY <1>4, <1>7, <2>1, <2>2 DEF BatchHolds
<1>12. ASSUME SettlingHolds(st, F, seen) PROVE SettlingHolds(t, F, seen \cup {f})
  <2>1. t.rows[k].name = f.name /\ t.rows[k].country = f.country
    <3>1. CASE ~found
      BY <1>7, <3>1 DEF new
    <3>2. CASE found
      <4>1. st.rows[k] \in F \/ st.rows[k].id = NoId \/ \A g \in F : ~Matches(st.rows[k], g)
        BY <1>7, <1>12, <3>2 DEF SettlingHolds
      <4> QED BY <1>3, <1>7, <3>2, <4>1 DEF Matches
    <3> QED BY <3>1, <3>2
  <2>2. ASSUME NEW j \in Pk, t.rows[j] # NoGeoRow
        PROVE  t.rows[j] \in F \/ t.rows[j].id = NoId \/ \A g \in F : ~Matches(t.rows[j], g)
    <3>1. CASE j = k /\ ~found
      BY <1>7, <3>1 DEF new
    <3>2. CASE j # k \/ found
      <4>1. t.rows[j] = st.rows[j]
        BY <1>7, <3>2
      <4> QED BY <1>12, <2>2, <4>1 DEF SettlingHolds
    <3> QED BY <3>1, <3>2
  <2>3. ASSUME NEW i \in DOMAIN t.batch
        PROVE  LET entry == t.rows[t.batch[i][1]] IN
               entry.name = t.batch[i][2].name /\ entry.country = t.batch[i][2].country
    <3>1. CASE i = n + 1
      BY <1>4, <2>1, <3>1
    <3>2. CASE i \in DOMAIN b
      <4>1. t.batch[i] = b[i] /\ b[i][1] \in Pk /\ st.rows[b[i][1]] # NoGeoRow
        BY <1>2, <1>4, <3>2
      <4>2. t.rows[b[i][1]] = st.rows[b[i][1]]
        BY <1>7, <4>1
      <4> QED BY <1>12, <3>2, <4>1, <4>2 DEF SettlingHolds, b
    <3> QED BY <1>5, <3>1, <3>2
  <2>4. ASSUME NEW g \in seen \cup {f}
        PROVE  \E j \in Pk : t.rows[j] = g \/ \E i \in DOMAIN t.batch : t.batch[i] = <<j, g>>
    <3>1. CASE g = f
      BY <1>2, <1>4, <3>1
    <3>2. CASE g \in seen
      <4>1. PICK j \in Pk : st.rows[j] = g \/ \E i \in DOMAIN b : b[i] = <<j, g>>
        BY <1>12, <3>2 DEF SettlingHolds, b
      <4>2. CASE st.rows[j] = g
        <5>1. st.rows[j] # NoGeoRow
          BY <1>3, <3>2, <4>2
        <5> QED BY <1>7, <4>2, <5>1
      <4>3. CASE \E i \in DOMAIN b : b[i] = <<j, g>>
        BY <1>4, <4>3
      <4> QED BY <4>1, <4>2, <4>3
    <3> QED BY <3>1, <3>2
  <2> QED BY <2>2, <2>3, <2>4 DEF SettlingHolds
<1>13. FreeRows(st.rows) \ {k} \subseteq FreeRows(t.rows)
  BY <1>7 DEF FreeRows
<1> QED BY <1>11, <1>12, <1>13 DEF InjectHolds

IsState(st) ==
  st = [rows |-> st.rows, batch |-> st.batch, failed |-> st.failed] /\ st.failed \in BOOLEAN

\* One feature, if nothing is raised: it takes at most one free row.
LEMMA FeatureHolds ==
  ASSUME NEW F \in FeatureSet, NEW seen \in SUBSET F, NEW f \in F, NEW st, IsState(st),
         ~st.failed => InjectHolds(st, F, seen) /\ FreeRows(st.rows) # {}
  PROVE  LET t == InjectDivision(st, f) IN
         /\ IsState(t)
         /\ ~t.failed => /\ ~st.failed /\ InjectHolds(t, F, seen \cup {f})
                         /\ \E k \in Pk : FreeRows(st.rows) \ {k} \subseteq FreeRows(t.rows)
<1> DEFINE t == InjectDivision(st, f)
           M == Matching(st.rows, f)
           free == {j \in Pk : st.rows[j] = NoGeoRow}
           k == CHOOSE j \in (IF M = {} THEN free ELSE M) : TRUE
           new == [id |-> NoId, name |-> f.name, country |-> f.country]
           rows == IF M # {} THEN st.rows ELSE [st.rows EXCEPT ![k] = new]
           added == [st EXCEPT !.rows = rows, !.batch = Append(@, <<k, f>>)]
<1>1. t = CASE st.failed -> st
            [] ~st.failed /\ Cardinality(M) > 1 -> [st EXCEPT !.failed = TRUE]
            [] OTHER -> IF Len(added.batch) < UpdateChunk THEN added ELSE FlushBatch(added)
  BY DEF InjectDivision
<1> HIDE DEF t
<1>2. CASE st.failed
  <2>1. t = st
    BY <1>1, <1>2
  <2> QED BY <1>2, <2>1 DEF t
<1>3. CASE ~st.failed /\ Cardinality(M) > 1
  <2>1. t = [st EXCEPT !.failed = TRUE]
    BY <1>1, <1>3
  <2>2. t = [rows |-> st.rows, batch |-> st.batch, failed |-> TRUE]
    BY <2>1 DEF IsState
  <2> QED BY <2>2 DEF t, IsState
<1>4. CASE ~st.failed /\ ~(Cardinality(M) > 1)
  <2>1. t = IF Len(added.batch) < UpdateChunk THEN added ELSE FlushBatch(added)
    BY <1>1, <1>4
  <2>2. InjectHolds(st, F, seen) /\ FreeRows(st.rows) # {} /\ st.failed = FALSE
    BY <1>4 DEF IsState
  <2>3. \A i, j \in M : i = j
    <3>1. M \subseteq Pk
      BY DEF Matching
    <3> HIDE DEF M
    <3>2. IsFiniteSet(M) /\ Cardinality(M) \in Nat
      BY <3>1, GeoAssumption, FS_Subset, FS_CardinalityType
    <3>3. Cardinality(M) = 0 \/ Cardinality(M) = 1
      BY <1>4, <3>2
    <3> QED BY <3>2, <3>3, FS_EmptySet, FS_Singleton
  <2>4. /\ k \in Pk /\ \A j \in M : j = k
        /\ M # {} => k \in M
        /\ M = {} => st.rows[k] = NoGeoRow
    <3>1. (IF M = {} THEN free ELSE M) # {}
      BY <2>2 DEF FreeRows
    <3>2. k \in IF M = {} THEN free ELSE M
      BY <3>1
    <3>3. M \subseteq Pk /\ free \subseteq Pk
      BY DEF Matching
    <3> HIDE DEF M, k
    <3> QED BY <2>3, <3>2, <3>3
  <2> HIDE DEF k, M
  <2>5. /\ added.rows = rows /\ added.batch = Append(st.batch, <<k, f>>) /\ added.failed = FALSE
        /\ IsState(added)
    <3>1. added = [rows |-> rows, batch |-> Append(st.batch, <<k, f>>), failed |-> st.failed]
      <4> DEFINE c == Append(st.batch, <<k, f>>)
      <4>1. added = [st EXCEPT !.rows = rows, !.batch = c]
        OBVIOUS
      <4> HIDE DEF added, rows, c
      <4> QED BY <4>1 DEF IsState, c
    <3> HIDE DEF added, rows
    <3> QED BY <2>2, <3>1 DEF IsState
  <2> HIDE DEF added
  <2>6. InjectHolds(added, F, seen \cup {f}) /\ FreeRows(st.rows) \ {k} \subseteq FreeRows(added.rows)
    BY <2>2, <2>4, <2>5, AddHolds DEF M
  <2>7. CASE Len(added.batch) < UpdateChunk
    <3>1. t = added
      BY <2>1, <2>7
    <3> QED BY <2>2, <2>4, <2>5, <2>6, <3>1 DEF t
  <2>8. CASE ~(Len(added.batch) < UpdateChunk)
    <3>1. t = FlushBatch(added)
      BY <2>1, <2>8
    <3>2. InjectHolds(t, F, seen \cup {f}) /\ FreeRows(t.rows) = FreeRows(added.rows)
      BY <2>6, <3>1, FlushHolds
    <3>3. IsState(t)
      BY <3>1 DEF FlushBatch, IsState, Clash
    <3> QED BY <2>2, <2>4, <2>6, <3>2, <3>3 DEF t
  <2> QED BY <2>7, <2>8
<1> QED BY <1>2, <1>3, <1>4

\* r has the states of inject_admin1s after each of the first n features.
InjectStates(o, n, r) ==
  /\ r = [j \in 0 .. n |-> r[j]]
  /\ r[0] = [rows |-> divisions, batch |-> <<>>, failed |-> FALSE]
  /\ \A j \in 1 .. n : r[j] = InjectDivision(r[j - 1], o[j])

LEMMA StatesExist ==
  ASSUME NEW o, NEW N \in Nat
  PROVE  \E r : InjectStates(o, N, r)
<1> DEFINE G == {n \in 0 .. N : \E r : InjectStates(o, n, r)}
           start == [rows |-> divisions, batch |-> <<>>, failed |-> FALSE]
<1>1. 0 \in G
  <2>1. InjectStates(o, 0, [j \in 0 .. 0 |-> start])
    BY DEF InjectStates
  <2> QED BY <2>1
<1>2. ASSUME NEW n \in 1 .. N, n - 1 \in G PROVE n \in G
  <2>1. PICK r : InjectStates(o, n - 1, r)
    BY <1>2
  <2> DEFINE last == InjectDivision(r[n - 1], o[n])
             t == [j \in 0 .. n |-> IF j = n THEN last ELSE r[j]]
  <2> HIDE DEF last
  <2>2. n \in Nat /\ t[n] = last /\ \A j \in 0 .. n - 1 : t[j] = r[j]
    OBVIOUS
  <2>3. t = [j \in 0 .. n |-> t[j]]
    OBVIOUS
  <2> HIDE DEF t
  <2>4. ASSUME NEW j \in 1 .. n PROVE t[j] = InjectDivision(t[j - 1], o[j])
    <3>1. t[j - 1] = r[j - 1]
      BY <2>2
    <3>2. CASE j = n
      BY <2>2, <3>1, <3>2 DEF last
    <3>3. CASE j # n
      <4>1. j \in 1 .. n - 1 /\ t[j] = r[j]
        BY <2>2, <3>3
      <4> QED BY <2>1, <3>1, <4>1 DEF InjectStates
    <3> QED BY <3>2, <3>3
  <2>5. InjectStates(o, n, t)
    BY <2>1, <2>2, <2>3, <2>4 DEF InjectStates
  <2> QED BY <2>5
<1> HIDE DEF G
<1>3. 0 .. N \subseteq G
  BY <1>1, <1>2, UpTo
<1>4. N \in G
  BY <1>3
<1> QED BY <1>4 DEF G

LEMMA StatesAre ==
  ASSUME NEW o, Len(o) \in Nat
  PROVE  \E r : /\ InjectStates(o, Len(o), r)
                /\ InjectDivisions(o) = IF r[Len(o)].failed THEN r[Len(o)] ELSE FlushBatch(r[Len(o)])
<1> DEFINE N == Len(o)
           start == [rows |-> divisions, batch |-> <<>>, failed |-> FALSE]
           Is(r) == r = [n \in 0 .. N |-> IF n = 0 THEN start ELSE InjectDivision(r[n - 1], o[n])]
           st == CHOOSE r : Is(r)
<1>1. PICK r : InjectStates(o, N, r)
  BY StatesExist
<1>2. Is(r)
  <2>1. ASSUME NEW n \in 0 .. N
        PROVE  r[n] = IF n = 0 THEN start ELSE InjectDivision(r[n - 1], o[n])
    <3>1. CASE n = 0
      BY <1>1, <3>1 DEF InjectStates
    <3>2. CASE n # 0
      <4>1. n \in 1 .. N
        BY <3>2
      <4> QED BY <1>1, <3>2, <4>1 DEF InjectStates
    <3> QED BY <3>1, <3>2
  <2>2. r = [n \in 0 .. N |-> r[n]]
    BY <1>1 DEF InjectStates
  <2> QED BY <2>1, <2>2, Zenon
<1>3. InjectDivisions(o) = IF st[N].failed THEN st[N] ELSE FlushBatch(st[N])
  BY DEF InjectDivisions
<1> HIDE DEF Is
<1>4. Is(st)
  BY <1>2, Zenon
<1> HIDE DEF st
<1>5. st = [n \in 0 .. N |-> IF n = 0 THEN start ELSE InjectDivision(st[n - 1], o[n])]
  BY <1>4 DEF Is
<1>6. \A n \in 0 .. N : st[n] = IF n = 0 THEN start ELSE InjectDivision(st[n - 1], o[n])
  BY <1>5, Zenon
<1>7. st = [n \in 0 .. N |-> st[n]]
  <2>1. DOMAIN st = 0 .. N
    BY <1>5, Zenon
  <2>2. st = [n \in DOMAIN st |-> st[n]]
    BY <1>5
  <2> QED BY <2>1, <2>2
<1>8. \A j \in 1 .. N : st[j] = InjectDivision(st[j - 1], o[j])
  BY <1>6
<1>9. st[0] = start
  <2>1. 0 \in 0 .. N
    OBVIOUS
  <2> HIDE DEF start
  <2>2. st[0] = IF 0 = 0 THEN start ELSE InjectDivision(st[0 - 1], o[0])
    BY <1>6, <2>1
  <2> QED BY <2>2
<1>10. InjectStates(o, N, st)
  BY <1>7, <1>8, <1>9 DEF InjectStates
<1> QED BY <1>3, <1>10

\* An order of the features has each of them.
LEMMA OrderHasAll ==
  ASSUME NEW F, IsFiniteSet(F), NEW o \in SetToSeqs(F)
  PROVE  /\ Len(o) = Cardinality(F) /\ Len(o) \in Nat
         /\ \A j \in 1 .. Len(o) : o[j] \in F
         /\ {o[j] : j \in 1 .. Len(o)} = F
<1> DEFINE N == Cardinality(F)
           D == 1 .. N
           T == {o[j] : j \in D}
<1>1. N \in Nat
  BY FS_CardinalityType
<1>2. o \in [D -> F] /\ \A i, j \in D : i # j => o[i] # o[j]
  BY DEF SetToSeqs
<1>3. Len(o) = N
  <2> HIDE DEF N
  <2> QED BY <1>1, <1>2
<1>4. T \in SUBSET F /\ o \in Surjection(D, T) /\ o \in Injection(D, T)
  <2>1. T \in SUBSET F /\ \A j \in D : o[j] \in T
    BY <1>2
  <2>2. o \in [D -> T] /\ \A t \in T : \E j \in D : o[j] = t
    BY <1>2, <2>1
  <2> HIDE DEF T, D
  <2> QED BY <1>2, <2>1, <2>2 DEF Surjection, Injection, IsInjective
<1>5. IsFiniteSet(D) /\ Cardinality(D) = N
  <2> HIDE DEF N
  <2> QED BY <1>1, FS_Interval
<1>6. Cardinality(T) = N
  <2> HIDE DEF T, D
  <2> QED BY <1>4, <1>5, FS_Surjection
<1>7. T = F
  <2> HIDE DEF T
  <2> QED BY <1>4, <1>6, FS_Subset
<1> QED BY <1>1, <1>2, <1>3, <1>7

\* What a sync leaves that no exception rolls back.
LEMMA SyncLeaves ==
  ASSUME NEW F \in FeatureSet, NEW o \in SetToSeqs(F),
         divisions \in [Pk -> Division \cup {NoGeoRow}],
         Cardinality(FreeRows(divisions)) >= Len(o), ~InjectDivisions(o).failed
  PROVE  LET rows == InjectDivisions(o).rows IN
         /\ rows \in [Pk -> Division \cup {NoGeoRow}] /\ ~Clash(rows)
         /\ Settling(rows, F)
         /\ Settling(divisions, F) => EachHasRow(rows, F)
         /\ F = {} => rows = divisions
<1> DEFINE N == Len(o)
           SeenNow(n) == {o[j] : j \in 1 .. n}
<1>1. IsFiniteSet(F) /\ F \subseteq Feature
  BY DEF FeatureSet
<1>2. /\ N = Cardinality(F) /\ N \in Nat /\ \A j \in 1 .. N : o[j] \in F
      /\ SeenNow(N) = F
  BY <1>1, OrderHasAll
<1>3. PICK r : /\ InjectStates(o, N, r)
               /\ InjectDivisions(o) = IF r[N].failed THEN r[N] ELSE FlushBatch(r[N])
  BY <1>2, StatesAre
<1> HIDE DEF N
<1>4. /\ r[0] = [rows |-> divisions, batch |-> <<>>, failed |-> FALSE]
      /\ \A j \in 1 .. N : r[j] = InjectDivision(r[j - 1], o[j])
  BY <1>3 DEF InjectStates
<1>5. \A entry \in Division : entry \in RowShape /\ entry.id # NoId /\ entry # NoGeoRow
  BY GeoAssumption DEF Division, RowShape
<1> DEFINE G == {n \in 0 .. N : /\ IsState(r[n])
                                /\ ~r[n].failed => /\ InjectHolds(r[n], F, SeenNow(n))
                                                   /\ Cardinality(FreeRows(r[n].rows)) >= N - n}
<1>6. 0 \in G
  <2>1. IsState(r[0]) /\ r[0].rows = divisions /\ r[0].batch = <<>> /\ SeenNow(0) = {}
    BY <1>4 DEF IsState
  <2>2. BatchHolds(r[0], F, {})
    <3>1. r[0].batch \in Seq(Pk \X Feature) /\ DOMAIN r[0].batch = {}
      BY <2>1
    <3> QED BY <1>5, <2>1, <3>1 DEF BatchHolds
  <2>3. Settling(divisions, F) => SettlingHolds(r[0], F, {})
    BY <2>1 DEF Settling, SettlingHolds
  <2>4. Cardinality(FreeRows(divisions)) >= N - 0
    BY <1>2 DEF N
  <2>5. InjectHolds(r[0], F, SeenNow(0))
    BY <2>1, <2>2, <2>3 DEF InjectHolds
  <2>6. 0 \in 0 .. N
    BY <1>2
  <2> HIDE DEF SeenNow
  <2> QED BY <2>1, <2>4, <2>5, <2>6
<1>7. ASSUME NEW n \in 1 .. N, n - 1 \in G PROVE n \in G
  <2> DEFINE st == r[n - 1]
  <2>1. /\ n \in Nat /\ n \in 0 .. N /\ IsState(st) /\ r[n] = InjectDivision(st, o[n]) /\ o[n] \in F
        /\ ~st.failed => /\ InjectHolds(st, F, SeenNow(n - 1))
                         /\ Cardinality(FreeRows(st.rows)) >= N - (n - 1)
    BY <1>2, <1>4, <1>7
  <2> HIDE DEF st, G
  <2>2. SeenNow(n - 1) \in SUBSET F /\ SeenNow(n) = SeenNow(n - 1) \cup {o[n]}
    <3>1. \A j \in 1 .. n : j = n \/ j \in 1 .. n - 1
      BY <2>1
    <3>2. \A j \in 1 .. n - 1 : j \in 1 .. n /\ j \in 1 .. N
      BY <1>2, <2>1
    <3>3. n \in 1 .. n
      BY <2>1
    <3> QED BY <1>2, <3>1, <3>2, <3>3
  <2> HIDE DEF SeenNow
  <2>3. /\ FreeRows(st.rows) \subseteq Pk /\ IsFiniteSet(FreeRows(st.rows))
        /\ Cardinality(FreeRows(st.rows)) \in Nat
    <3>1. FreeRows(st.rows) \subseteq Pk
      BY DEF FreeRows
    <3> QED BY <3>1, GeoAssumption, FS_Subset, FS_CardinalityType
  <2>4. ~st.failed => FreeRows(st.rows) # {}
    BY <1>2, <2>1, <2>3, FS_EmptySet
  <2>5. /\ IsState(r[n])
        /\ ~r[n].failed => /\ ~st.failed /\ InjectHolds(r[n], F, SeenNow(n))
                           /\ \E k \in Pk : FreeRows(st.rows) \ {k} \subseteq FreeRows(r[n].rows)
    <3>1. ~st.failed => InjectHolds(st, F, SeenNow(n - 1)) /\ FreeRows(st.rows) # {}
      BY <2>1, <2>4
    <3>2. LET t == InjectDivision(st, o[n]) IN
          /\ IsState(t)
          /\ ~t.failed => /\ ~st.failed /\ InjectHolds(t, F, SeenNow(n - 1) \cup {o[n]})
                          /\ \E k \in Pk : FreeRows(st.rows) \ {k} \subseteq FreeRows(t.rows)
      BY <2>1, <2>2, <3>1, FeatureHolds
    <3> QED BY <2>1, <2>2, <3>2
  <2>6. ASSUME ~r[n].failed PROVE Cardinality(FreeRows(r[n].rows)) >= N - n
    <3>1. PICK k \in Pk : FreeRows(st.rows) \ {k} \subseteq FreeRows(r[n].rows)
      BY <2>5, <2>6
    <3>2. FreeRows(r[n].rows) \subseteq Pk
      BY DEF FreeRows
    <3>3. IsFiniteSet(FreeRows(r[n].rows)) /\ Cardinality(FreeRows(r[n].rows)) \in Nat
      BY <3>2, GeoAssumption, FS_Subset, FS_CardinalityType
    <3>4. Cardinality(FreeRows(st.rows) \ {k}) <= Cardinality(FreeRows(r[n].rows))
      BY <3>1, <3>3, FS_Subset
    <3>5. Cardinality(FreeRows(st.rows) \ {k}) >= Cardinality(FreeRows(st.rows)) - 1
          /\ Cardinality(FreeRows(st.rows) \ {k}) \in Int
      <4>1. Cardinality(FreeRows(st.rows) \ {k}) =
              IF k \in FreeRows(st.rows) THEN Cardinality(FreeRows(st.rows)) - 1
              ELSE Cardinality(FreeRows(st.rows))
        BY <2>3, FS_RemoveElement
      <4> QED BY <2>3, <4>1
    <3>6. Cardinality(FreeRows(st.rows)) >= N - (n - 1)
      BY <2>1, <2>5, <2>6
    <3> QED BY <1>2, <2>1, <2>3, <3>3, <3>4, <3>5, <3>6
  <2> QED BY <2>1, <2>5, <2>6 DEF G
<1>8. N \in G
  <2> HIDE DEF G
  <2>1. 0 .. N \subseteq G
    BY <1>2, <1>6, <1>7, UpTo
  <2> QED BY <1>2, <2>1
<1> DEFINE st == r[N]
           t == FlushBatch(st)
<1>9. ~st.failed /\ InjectHolds(st, F, F) /\ InjectDivisions(o) = t
  BY <1>2, <1>3, <1>8
<1>10. N = 0 => st.rows = divisions /\ st.batch = <<>>
  BY <1>4
<1> HIDE DEF st, t, G, SeenNow
<1>11. InjectHolds(t, F, F) /\ t.batch = <<>> /\ t.failed = Clash(t.rows)
  BY <1>9, FlushHolds DEF t
<1>12. /\ \A k \in Pk : Whens(t, k) = {}
       /\ DOMAIN t.batch = {}
  BY <1>11 DEF Whens
<1>13. t.rows \in [Pk -> Division \cup {NoGeoRow}]
  <2>1. \A entry \in RowShape : entry.id # NoId => entry \in Division
    BY DEF RowShape, Division
  <2> QED BY <1>11, <1>12, <2>1 DEF InjectHolds, BatchHolds
<1>14. Settling(t.rows, F)
  BY <1>11, <1>12 DEF InjectHolds, BatchHolds, Settling
<1>15. Settling(divisions, F) => EachHasRow(t.rows, F)
  BY <1>11, <1>12 DEF InjectHolds, SettlingHolds, EachHasRow
<1>16. ASSUME F = {} PROVE t.rows = divisions
  <2>1. N = 0
    BY <1>2, <1>16, FS_EmptySet
  <2>2. st.rows = divisions /\ st.batch = <<>> /\ \A k \in Pk : Whens(st, k) = {}
    BY <1>10, <2>1 DEF Whens
  <2>3. st.rows \in [Pk -> RowShape \cup {NoGeoRow}] /\ st.batch \in Seq(Pk \X Feature)
        /\ DOMAIN st.batch = {}
    BY <1>9, <2>2 DEF InjectHolds, BatchHolds
  <2>4. t.rows = [k \in Pk |-> t.rows[k]] /\ \A k \in Pk : t.rows[k] = divisions[k]
    BY <2>2, <2>3, FlushIs DEF t
  <2>5. divisions = [k \in Pk |-> divisions[k]]
    OBVIOUS
  <2> QED BY <2>4, <2>5
<1> QED BY <1>9, <1>11, <1>13, <1>14, <1>15, <1>16

--------------------------------------------------------------------------------
\* The divisions of the countries that IFRC-GO lists.
Served == {f \in remote.features : f.country \in remote.countries}

\* The first sync that sees what is published leaves rows that are settling; those
\* after it miss none.
DivisionsInv ==
  /\ remote \in Published /\ unknown \subseteq Iso
  /\ edits \in 0 .. MaxEdits /\ calm \in 0 .. 2
  /\ sync.step \in {"off", "divisions"} /\ sync.stale \in BOOLEAN
  /\ sync.step # "off" /\ ~sync.stale => sync.countries = remote.countries
  /\ calm > 0 => ~sync.stale /\ Settling(divisions, Served)
  /\ divisions \in [Pk -> Division \cup {NoGeoRow}] /\ ~Clash(divisions)
  /\ calm = 2 => EachHasRow(divisions, Served)

LEMMA SyncSettlesDivisions ==
  ASSUME GeoInv, DivisionsInv, NEW all \in BOOLEAN, SyncEnds(all)
  PROVE  DivisionsInv'
<1> DEFINE F == IF all THEN {f \in remote.features : f.country \in sync.countries} ELSE {}
<1>1. F \in FeatureSet
  <2>1. remote.features \in FeatureSet
    BY DEF DivisionsInv, Published
  <2>2. F \subseteq remote.features
    OBVIOUS
  <2> HIDE DEF F
  <2>3. IsFiniteSet(F)
    BY <2>1, <2>2, FS_Subset DEF FeatureSet
  <2> QED BY <2>1, <2>2, <2>3 DEF FeatureSet
<1>2. PICK order \in SetToSeqs(F) :
        LET end == InjectDivisions(order) IN
        /\ Cardinality({k \in Pk : divisions[k] = NoGeoRow}) >= Len(order)
        /\ IF end.failed THEN UNCHANGED <<countries, unknown, divisions, calm>>
           ELSE /\ unknown' = unknown \cup CreatedUnknown(sync.countries)
                /\ divisions' = end.rows
                /\ calm' = IF sync.stale \/ ~all \/ calm = 2 THEN calm ELSE calm + 1
  BY DEF SyncEnds
<1>3. /\ sync.step = "divisions" /\ sync' = NoSync /\ sync'.step = "off" /\ sync'.stale = FALSE
      /\ UNCHANGED <<remote, edits>> /\ Served' = Served
  BY DEF SyncEnds, NoSync, Served
<1> DEFINE end == InjectDivisions(order)
<1> HIDE DEF F, end
<1>4. CASE end.failed
  <2>1. UNCHANGED <<unknown, divisions, calm>>
    BY <1>2, <1>4 DEF end
  <2> QED BY <1>3, <2>1 DEF DivisionsInv, Settling, EachHasRow, Clash
<1>5. CASE ~end.failed
  <2>1. /\ unknown' = unknown \cup CreatedUnknown(sync.countries) /\ divisions' = end.rows
        /\ calm' = IF sync.stale \/ ~all \/ calm = 2 THEN calm ELSE calm + 1
    BY <1>2, <1>5 DEF end
  <2>2. Cardinality(FreeRows(divisions)) >= Len(order)
    BY <1>2 DEF FreeRows
  <2>3. /\ divisions' \in [Pk -> Division \cup {NoGeoRow}] /\ ~Clash(divisions')
        /\ Settling(divisions', F)
        /\ Settling(divisions, F) => EachHasRow(divisions', F)
        /\ F = {} => divisions' = divisions
    BY <1>1, <1>5, <2>1, <2>2, SyncLeaves DEF end, DivisionsInv
  <2>4. unknown' \subseteq Iso
    BY <1>3, <2>1 DEF DivisionsInv, GeoInv, CountriesShape, CreatedUnknown
  <2>5. CASE ~all
    <3>1. divisions' = divisions /\ calm' = calm
      BY <2>1, <2>3, <2>5 DEF F
    <3> QED BY <1>3, <2>4, <3>1 DEF DivisionsInv, Settling, EachHasRow, Clash
  <2>6. CASE all /\ sync.stale
    <3>1. calm' = 0
      BY <2>1, <2>6 DEF DivisionsInv
    <3>2. ~Clash(divisions)'
      BY <2>3 DEF Clash
    <3>3. divisions' \in [Pk -> Division \cup {NoGeoRow}]
      BY <2>3
    <3>4. calm' \in 0 .. 2 /\ ~(calm' > 0) /\ calm' # 2
      BY <3>1
    <3>5. remote' \in Published /\ edits' \in 0 .. MaxEdits
      BY <1>3 DEF DivisionsInv
    <3> QED BY <1>3, <2>4, <3>2, <3>3, <3>4, <3>5 DEF DivisionsInv
  <2>7. CASE all /\ ~sync.stale
    <3>1. F = Served
      BY <1>3, <2>7 DEF F, Served, DivisionsInv
    <3>2. Settling(divisions', Served') /\ (calm > 0 => EachHasRow(divisions', Served'))
      BY <1>3, <2>3, <3>1 DEF DivisionsInv
    <3>3. calm' \in 0 .. 2 /\ (calm' = 2 => calm > 0)
      BY <2>1 DEF DivisionsInv
    <3> QED BY <1>3, <2>3, <2>4, <3>2, <3>3 DEF DivisionsInv, Settling, EachHasRow, Clash
  <2> QED BY <2>5, <2>6, <2>7
<1> QED BY <1>4, <1>5

LEMMA DivisionsInductive == GeoInv /\ DivisionsInv /\ [GeoNext]_geoVars => DivisionsInv'
<1> SUFFICES ASSUME GeoInv, DivisionsInv, [GeoNext]_geoVars PROVE DivisionsInv'
  OBVIOUS
<1>1. ASSUME UNCHANGED <<unknown, divisions, remote, edits, calm>>,
             \/ UNCHANGED sync
             \/ sync' = NoSync
             \/ sync'.step = "divisions" /\ sync'.stale = FALSE /\ sync'.countries = remote.countries
      PROVE  DivisionsInv'
  <2>1. Served' = Served /\ Clash(divisions)' = Clash(divisions)
    BY <1>1 DEF Served, Clash
  <2>2. /\ Settling(divisions, Served)' = Settling(divisions, Served)
        /\ EachHasRow(divisions, Served)' = EachHasRow(divisions, Served)
    BY <1>1, <2>1 DEF Settling, EachHasRow
  <2>3. /\ sync'.step \in {"off", "divisions"} /\ sync'.stale \in BOOLEAN
        /\ sync'.step # "off" /\ ~sync'.stale => sync'.countries = remote.countries
        /\ calm > 0 => ~sync'.stale
    <3>1. CASE UNCHANGED sync
      BY <3>1 DEF DivisionsInv
    <3>2. CASE sync' = NoSync
      BY <3>2 DEF NoSync
    <3>3. CASE sync'.step = "divisions" /\ sync'.stale = FALSE /\ sync'.countries = remote.countries
      BY <3>3
    <3> QED BY <1>1, <3>1, <3>2, <3>3
  <2> QED BY <1>1, <2>1, <2>2, <2>3 DEF DivisionsInv
<1>2. CASE SyncCountries
  BY <1>1, <1>2 DEF SyncCountries
<1>3. CASE SyncFails
  BY <1>1, <1>3 DEF SyncFails
<1>4. CASE RemoteEdit
  <2>1. /\ remote' \in Published /\ edits' \in 0 .. MaxEdits /\ calm' = 0
        /\ sync' = [sync EXCEPT !.stale = sync.step # "off"] /\ UNCHANGED <<unknown, divisions>>
    BY <1>4, GeoAssumption DEF RemoteEdit, DivisionsInv
  <2>2. sync'.step = sync.step /\ sync'.stale = (sync.step # "off")
    BY <2>1 DEF GeoInv, CountriesShape
  <2>3. ~Clash(divisions)'
    BY <2>1 DEF DivisionsInv, Clash
  <2>4. sync'.step \in {"off", "divisions"} /\ sync'.stale \in BOOLEAN
        /\ ~(sync'.step # "off" /\ ~sync'.stale)
    BY <2>2 DEF DivisionsInv
  <2> QED BY <2>1, <2>3, <2>4 DEF DivisionsInv
<1>5. CASE SubmitForm \/ \E c \in Iso : OpenForm(c)
  BY <1>1, <1>5 DEF SubmitForm, OpenForm
<1>6. ASSUME NEW q \in FlagRun,
             FetchMessages(q) \/ MarkCountries(q) \/ UnmarkOthers(q) \/ FlagRunFails(q)
      PROVE  DivisionsInv'
  BY <1>1, <1>6 DEF FetchMessages, MarkCountries, UnmarkOthers, FlagRunFails
<1>7. CASE UNCHANGED geoVars
  BY <1>1, <1>7 DEF geoVars
<1> QED BY <1>2, <1>3, <1>4, <1>5, <1>6, <1>7, SyncSettlesDivisions DEF GeoNext

LEMMA DivisionsStart == GeoInit => DivisionsInv
<1> SUFFICES ASSUME GeoInit PROVE DivisionsInv
  OBVIOUS
<1>1. /\ divisions = [k \in Pk |-> NoGeoRow] /\ sync = NoSync /\ calm = 0 /\ edits = 0
      /\ unknown = {} /\ remote \in Published
  BY DEF GeoInit
<1> QED BY <1>1, GeoAssumption DEF DivisionsInv, NoSync, Clash

LEMMA GeoInvsHold == GeoSpec => [](GeoInv /\ DivisionsInv)
<1>1. GeoInit => GeoInv /\ DivisionsInv
  BY GeoInitial, DivisionsStart
<1>2. GeoInv /\ DivisionsInv /\ [GeoNext]_geoVars => (GeoInv /\ DivisionsInv)'
  BY GeoInductive, DivisionsInductive
<1> QED BY <1>1, <1>2, PTL DEF GeoSpec

\* Countries, divisions, what is published and the forms and runs that hold copies of
\* them have their types (data_injector/geo.py).
THEOREM GeoTyped == GeoSpec => []GeoTypeOK
<1>1. GeoInv /\ DivisionsInv => GeoTypeOK
  BY DEF GeoInv, CountriesShape, DivisionsInv, GeoTypeOK
<1> QED BY <1>1, GeoInvsHold, PTL

\* Each country has its unknown division, and after two syncs of what IFRC-GO goes on
\* publishing each of its divisions has exactly one row, whatever rows earlier syncs
\* left, whatever the chunks and the order of the features (inject_admin1s,
\* create_unknown_admin1).
THEOREM CountryDataIsSettled == GeoSpec => []CountryDataSettles
<1>1. DivisionsInv => SyncSettles
  <2> SUFFICES ASSUME DivisionsInv, calm = 2, NEW f \in remote.features,
                      f.country \in remote.countries
               PROVE  Cardinality({k \in Pk : divisions[k] = f}) = 1
    BY DEF SyncSettles
  <2>1. PICK k \in Pk : divisions[k] = f
    BY DEF DivisionsInv, Served, EachHasRow
  <2>2. f # NoGeoRow /\ f.id # NoId
    <3>1. f \in Feature
      BY DEF DivisionsInv, Published, FeatureSet
    <3> QED BY <3>1, GeoAssumption DEF Feature
  <2>3. {j \in Pk : divisions[j] = f} = {k}
    BY <2>1, <2>2 DEF DivisionsInv, Clash
  <2> QED BY <2>3, FS_Singleton
<1>2. GeoInv /\ DivisionsInv => CountryDataSettles
  BY <1>1 DEF GeoInv, CountryDataSettles
<1> QED BY <1>2, GeoInvsHold, PTL

--------------------------------------------------------------------------------

(* AlertAnswers. *)

LEMMA DocumentIsTyped ==
  ASSUME NEW n \in AlertDoc
  PROVE  /\ Size(n) \in Nat
         /\ \A i \in 1 .. Size(n) :
              /\ Model(n, i) \in Created \cup Queued
              /\ Parent(n, i) \in 0 .. i - 1
              /\ Owner[Model(n, i)] = IF Parent(n, i) = 0 THEN "Alert" ELSE Model(n, Parent(n, i))
<1>1. Document[n] \in Seq([model : Created \cup Queued, parent : Nat])
  BY AnswersAssumption
<1>2. Size(n) \in Nat
  BY <1>1 DEF Size
<1>3. ASSUME NEW i \in 1 .. Size(n)
      PROVE  Document[n][i] \in [model : Created \cup Queued, parent : Nat]
  <2> DEFINE s == Document[n]
  <2>1. i \in 1 .. Len(s)
    BY DEF Size
  <2> HIDE DEF s
  <2>2. s[i] \in [model : Created \cup Queued, parent : Nat]
    <3> DEFINE E == [model : Created \cup Queued, parent : Nat]
    <3>1. s \in Seq(E) BY <1>1 DEF s
    <3> HIDE DEF E
    <3>2. s[i] \in E BY <2>1, <3>1
    <3> QED BY <3>2 DEF E
  <2> QED BY <2>2 DEF s
<1>4. \A i \in 1 .. Size(n) : Model(n, i) \in Created \cup Queued /\ Parent(n, i) \in Nat
  BY <1>3 DEF Model, Parent
<1>5. \A i \in 1 .. Size(n) : Parent(n, i) < i
  BY AnswersAssumption
<1>6. \A i \in 1 .. Size(n) :
        Owner[Model(n, i)] = IF Parent(n, i) = 0 THEN "Alert" ELSE Model(n, Parent(n, i))
  BY AnswersAssumption
<1>7. \A i \in 1 .. Size(n) : Parent(n, i) \in 0 .. i - 1
  BY <1>4, <1>5
<1> QED BY <1>2, <1>4, <1>6, <1>7

\* up is the function that Above defines, as far as k.
Reached(n, k, up) ==
  /\ up = [j \in 0 .. k |-> up[j]]
  /\ up[0] = {0}
  /\ \A j \in 1 .. k : up[j] = {j} \cup up[Parent(n, j)]

\* It reaches one further.
LEMMA ReachesNext ==
  ASSUME NEW n, NEW k \in Nat, NEW up, Reached(n, k, up),
         \A j \in 1 .. k + 1 : Parent(n, j) \in 0 .. j - 1
  PROVE  \E g : Reached(n, k + 1, g)
<1> DEFINE g == [j \in 0 .. k + 1 |-> IF j =< k THEN up[j] ELSE {k + 1} \cup up[Parent(n, k + 1)]]
<1>1. up[0] = {0} /\ \A j \in 1 .. k : up[j] = {j} \cup up[Parent(n, j)]
  BY DEF Reached
<1>2. /\ \A j \in 0 .. k : g[j] = up[j]
      /\ g[k + 1] = {k + 1} \cup up[Parent(n, k + 1)]
  OBVIOUS
<1>3. g = [j \in 0 .. k + 1 |-> g[j]]
  OBVIOUS
<1> HIDE DEF g
<1>4. g[0] = {0}
  BY <1>1, <1>2
<1>5. ASSUME NEW j \in 1 .. k + 1 PROVE g[j] = {j} \cup g[Parent(n, j)]
  <2>1. Parent(n, j) \in 0 .. k
    OBVIOUS
  <2>2. g[Parent(n, j)] = up[Parent(n, j)]
    BY <1>2, <2>1
  <2>3. g[j] = {j} \cup up[Parent(n, j)]
    BY <1>1, <1>2
  <2> QED BY <2>2, <2>3
<1> QED BY <1>3, <1>4, <1>5 DEF Reached

\* The recursion of Above ends: an element belongs to one before it.
LEMMA AboveEnds ==
  ASSUME NEW n \in AlertDoc, NEW k \in 0 .. Size(n)
  PROVE  \E up : Reached(n, k, up)
<1> DEFINE Stuck == {i \in 0 .. Size(n) : ~\E up : Reached(n, i, up)}
<1> SUFFICES ASSUME Stuck # {} PROVE FALSE
  OBVIOUS
<1>1. PICK m \in Stuck : \A i \in Stuck : m =< i
  <2> HIDE DEF Stuck
  <2>1. Stuck \in SUBSET (0 .. Size(n)) BY DEF Stuck
  <2> QED BY <2>1, DocumentIsTyped, LeastNat
<1>2. m \in Nat /\ m \in 0 .. Size(n) /\ Size(n) \in Nat
  BY DocumentIsTyped
<1>3. m # 0
  <2>1. Reached(n, 0, [j \in 0 .. 0 |-> {0}])
    BY DEF Reached
  <2> QED BY <2>1
<1>4. m - 1 \in Nat /\ \E up : Reached(n, m - 1, up)
  <2>1. m - 1 \in 0 .. Size(n) /\ m - 1 \notin Stuck
    BY <1>1, <1>2, <1>3
  <2> QED BY <2>1
<1>5. \A j \in 1 .. (m - 1) + 1 : Parent(n, j) \in 0 .. j - 1
  BY <1>2, DocumentIsTyped
<1>6. \E up : Reached(n, (m - 1) + 1, up)
  <2> HIDE DEF Stuck
  <2> QED BY <1>4, <1>5, ReachesNext
<1> QED BY <1>2, <1>6

\* What an element belongs to: itself, and what the one it is part of belongs to.
LEMMA AboveIs ==
  ASSUME NEW n \in AlertDoc
  PROVE  /\ Above(n, 0) = {0}
         /\ \A i \in 1 .. Size(n) : Above(n, i) = {i} \cup Above(n, Parent(n, i))
<1> DEFINE Is(g) == g = [j \in 0 .. Size(n) |->
                            IF j = 0 THEN {0} ELSE {j} \cup g[Parent(n, j)]]
           up == CHOOSE g : Is(g)
<1>1. Size(n) \in Nat /\ Size(n) \in 0 .. Size(n)
  BY DocumentIsTyped
<1>2. PICK g : Reached(n, Size(n), g)
  BY <1>1, AboveEnds
<1>3. \A j \in 0 .. Size(n) : j = 0 \/ j \in 1 .. Size(n)
  BY <1>1
<1>4. Is(g)
  <2>1. ASSUME NEW j \in 0 .. Size(n)
        PROVE  g[j] = IF j = 0 THEN {0} ELSE {j} \cup g[Parent(n, j)]
    BY <1>2, <1>3 DEF Reached
  <2>2. g = [j \in 0 .. Size(n) |-> g[j]]
    BY <1>2 DEF Reached
  <2> QED BY <2>1, <2>2
<1>5. \A i : Above(n, i) = up[i]
  BY DEF Above
<1> HIDE DEF Is
<1>6. Is(up)
  BY <1>4, Zenon
<1> HIDE DEF up
<1>7. up[0] = {0}
  BY <1>1, <1>6 DEF Is
<1>8. ASSUME NEW i \in 1 .. Size(n) PROVE up[i] = {i} \cup up[Parent(n, i)]
  <2>1. i \in 0 .. Size(n) /\ i # 0
    BY <1>1
  <2>2. up = [j \in 0 .. Size(n) |-> IF j = 0 THEN {0} ELSE {j} \cup up[Parent(n, j)]]
    BY <1>6 DEF Is
  <2>3. up[i] = IF i = 0 THEN {0} ELSE {i} \cup up[Parent(n, i)]
    BY <2>1, <2>2, Zenon
  <2> QED BY <2>1, <2>3
<1> QED BY <1>5, <1>7, <1>8

DocumentHolds(n) == RowsHold(n) /\ QueuesHold(n) /\ NothingLeftOut(n)

\* A family of as many members as a sequence is long.
LEMMA InQueueIsShort ==
  ASSUME AnswersForm, NEW n \in AlertDoc, NEW m \in Queued
  PROVE  /\ IsFiniteSet(InQueue(writer[n], m))
         /\ Cardinality(InQueue(writer[n], m)) =< Len(writer[n].queue[m])
         /\ Len(writer[n].queue[m]) \in Nat
<1> DEFINE q == writer[n].queue[m]
<1>1. q \in Seq(Nat)
  BY DEF AnswersForm
<1>2. InQueue(writer[n], m) = {q[k] : k \in 1 .. Len(q)} /\ Len(q) \in Nat
  BY <1>1 DEF InQueue
<1>3. IsFiniteSet(1 .. Len(q)) /\ Cardinality(1 .. Len(q)) = Len(q)
  <2> DEFINE l == Len(q)
  <2>1. l \in Nat /\ 1 =< l + 1
    BY <1>2
  <2> HIDE DEF l
  <2>2. IsFiniteSet(1 .. l) /\ Cardinality(1 .. l) = l
    <3>1. IsFiniteSet(1 .. l) /\ Cardinality(1 .. l) = IF 1 > l THEN 0 ELSE l - 1 + 1
      BY <2>1, FS_Interval
    <3> QED BY <2>1, <3>1
  <2> QED BY <2>2 DEF l
<1> HIDE DEF q
<1> DEFINE D == 1 .. Len(q)
           I == {q[k] : k \in D}
<1>4. IsFiniteSet(D)
  BY <1>3
<1>5. IsFiniteSet(I) /\ Cardinality(I) =< Cardinality(D)
  <2> HIDE DEF D
  <2> DEFINE f == [k \in D |-> q[k]]
  <2>1. f \in Surjection(D, I)
    BY DEF Surjection
  <2> HIDE DEF f, I
  <2> QED BY <1>4, <2>1, FS_Surjection
<1>6. Len(q) \in Nat /\ q = writer[n].queue[m]
  BY <1>2 DEF q
<1> QED BY <1>2, <1>3, <1>5, <1>6

\* While a document is visited, what is not written waits in a queue that is short.
LEMMA LostWaits ==
  ASSUME AnswersForm, NEW n \in AlertDoc, QueuesHold(n),
         \A i \in (1 .. writer[n].next - 1) \ parts[n] : i \in InQueue(writer[n], Model(n, i)),
         NEW m \in Queued
  PROVE  Cardinality(Lost(n, m)) < chunk_size
<1>1. Lost(n, m) \subseteq InQueue(writer[n], m)
  BY DEF Lost
<1>2. Len(writer[n].queue[m]) < chunk_size
  BY DEF QueuesHold
<1>3. Cardinality(Lost(n, m)) =< Cardinality(InQueue(writer[n], m))
  BY <1>1, InQueueIsShort, FS_Subset
<1>4. Cardinality(Lost(n, m)) \in Nat /\ Cardinality(InQueue(writer[n], m)) \in Nat
  BY <1>1, InQueueIsShort, FS_Subset, FS_CardinalityType
<1>5. chunk_size \in Nat /\ Len(writer[n].queue[m]) \in Nat
  BY AnswersAssumption, InQueueIsShort
<1>6. Cardinality(InQueue(writer[n], m)) =< Len(writer[n].queue[m])
  BY InQueueIsShort
<1> QED BY <1>2, <1>3, <1>4, <1>5, <1>6

\* A document whose worker does nothing, and which may be pruned, holds on.
LEMMA RestingHolds ==
  ASSUME NEW n \in AlertDoc, DocumentHolds(n), parts'[n] = parts[n], writer'[n] = writer[n],
         n \in pruned => n \in pruned'
  PROVE  DocumentHolds(n)'
BY DEF DocumentHolds, RowsHold, QueuesHold, NothingLeftOut, Visiting, Lost, InQueue

LEMMA StoppedHolds ==
  ASSUME AnswersForm, NEW n \in AlertDoc, DocumentHolds(n), Visiting(n), parts' = parts,
         pruned' = pruned, writer' = [writer EXCEPT ![n] = Stopped(writer[n])]
  PROVE  DocumentHolds(n)'
<1>1. /\ writer'[n].step = "stopped" /\ writer'[n].next = writer[n].next
      /\ writer'[n].queue = NoQueue
  BY DEF AnswersForm, Stopped
<1>2. RowsHold(n)'
  BY <1>1 DEF DocumentHolds, RowsHold
<1>3. QueuesHold(n)'
  BY <1>1, AnswersAssumption DEF QueuesHold, NoQueue, InQueue
<1>4. NothingLeftOut(n)'
  <2> SUFFICES ASSUME n \notin pruned PROVE NothingLeftOut(n)'
    BY DEF NothingLeftOut
  <2>1. \A m \in Queued : Cardinality(Lost(n, m)) < chunk_size
    BY LostWaits DEF DocumentHolds, NothingLeftOut
  <2>2. \A m \in Queued : Lost(n, m)' = Lost(n, m)
    BY <1>1 DEF Lost
  <2> QED BY <1>1, <2>1, <2>2 DEF DocumentHolds, NothingLeftOut, Visiting
<1> QED BY <1>2, <1>3, <1>4 DEF DocumentHolds

\* Rows are written for elements that have been visited, or that the worker is at.
LEMMA WrittenHolds ==
  ASSUME AnswersForm, NEW n \in AlertDoc, DocumentHolds(n), Visiting(n), pruned' = pruned,
         NEW I \in SUBSET (1 .. Size(n)), \A i \in I : Parent(n, i) \in parts[n],
         NEW w, parts'[n] = parts[n] \cup I, writer'[n] = w,
         w.step \in {"visit", "done"}, w.step = "done" => w.next = Size(n) + 1,
         w.next \in 1 .. Size(n) + 1, w.next >= writer[n].next, \A i \in I : i < w.next,
         \A m \in Queued : Len(w.queue[m]) < chunk_size,
         \A m \in Queued : InQueue(w, m) \subseteq 1 .. w.next - 1,
         \A i \in writer[n].next .. w.next - 1 :
           i \in I \/ (Model(n, i) \notin Created /\ i \in InQueue(w, Model(n, i))),
         \A m \in Queued : InQueue(writer[n], m) \subseteq I \cup InQueue(w, m)
  PROVE  DocumentHolds(n)'
<1>1. parts'[n] = parts[n] \cup I /\ writer'[n] = w
  OBVIOUS
<1>2. Size(n) \in Nat /\ writer[n].next \in Nat /\ w.next \in Nat
  BY DocumentIsTyped DEF AnswersForm
<1>3. w.step \in {"visit", "done"} /\ w.next \in 1 .. Size(n) + 1
  OBVIOUS
<1>4. RowsHold(n)'
  <2>1. parts'[n] \subseteq 0 .. Size(n)
    <3>1. parts[n] \subseteq 0 .. Size(n) /\ I \subseteq 0 .. Size(n)
      BY <1>2 DEF DocumentHolds, RowsHold
    <3> QED BY <1>1, <3>1
  <2>2. \A i \in parts'[n] : i < w.next
    <3>1. \A i \in parts[n] : i \in Int /\ i < writer[n].next
      BY <1>2 DEF DocumentHolds, RowsHold
    <3>2. \A i \in parts[n] : i < w.next
      BY <1>2, <3>1
    <3> QED BY <1>1, <3>2
  <2>3. \A i \in parts'[n] \ {0} : Parent(n, i) \in parts'[n]
    BY <1>1 DEF DocumentHolds, RowsHold
  <2> QED BY <1>1, <1>3, <2>1, <2>2, <2>3 DEF RowsHold
<1>5. QueuesHold(n)'
  BY <1>1 DEF QueuesHold, InQueue
<1>6. NothingLeftOut(n)'
  <2> SUFFICES ASSUME n \notin pruned PROVE NothingLeftOut(n)'
    BY DEF NothingLeftOut
  <2>1. \A i \in 1 .. writer[n].next - 1 : Model(n, i) \in Created => i \in parts[n]
    BY DEF DocumentHolds, NothingLeftOut
  <2>2. \A i \in (1 .. writer[n].next - 1) \ parts[n] : i \in InQueue(writer[n], Model(n, i))
    BY DEF DocumentHolds, NothingLeftOut
  <2>3. \A i \in 1 .. w.next - 1 : i \in 1 .. writer[n].next - 1 \/ i \in writer[n].next .. w.next - 1
    BY <1>2
  <2>4. \A i \in 1 .. w.next - 1 : Model(n, i) \in Created => i \in parts'[n]
    BY <1>1, <2>1, <2>3
  <2>5. \A i \in 1 .. w.next - 1 : Model(n, i) \in Created \cup Queued
    BY <1>2, <1>3, DocumentIsTyped
  <2>6. \A i \in (1 .. w.next - 1) \ parts'[n] : i \in InQueue(w, Model(n, i))
    <3> SUFFICES ASSUME NEW i \in (1 .. w.next - 1) \ parts'[n] PROVE i \in InQueue(w, Model(n, i))
      OBVIOUS
    <3>1. CASE i \in writer[n].next .. w.next - 1
      BY <1>1, <3>1
    <3>2. CASE i \in 1 .. writer[n].next - 1
      <4>1. i \notin parts[n] /\ i \notin I
        BY <1>1
      <4>2. Model(n, i) \in Queued
        BY <2>1, <2>5, <3>2, <4>1
      <4>3. i \in InQueue(writer[n], Model(n, i))
        BY <2>2, <3>2, <4>1
      <4> QED BY <4>1, <4>2, <4>3
    <3> QED BY <2>3, <3>1, <3>2
  <2> QED BY <1>1, <1>3, <2>4, <2>6 DEF NothingLeftOut, Visiting, InQueue
<1> QED BY <1>4, <1>5, <1>6 DEF DocumentHolds

LEMMA StartDocumentHolds ==
  ASSUME AnswersForm, NEW n \in AlertDoc, DocumentHolds(n), StartDocument(n)
  PROVE  DocumentHolds(n)'
<1>1. /\ parts'[n] = {0} /\ writer'[n].step = "visit" /\ writer'[n].next = 1
      /\ writer'[n].queue = writer[n].queue
  BY DEF StartDocument, AnswersForm, DocumentHolds, RowsHold
<1>2. Size(n) \in Nat
  BY DocumentIsTyped
<1>3. RowsHold(n)'
  BY <1>1, <1>2 DEF RowsHold
<1>4. QueuesHold(n)'
  BY <1>1 DEF StartDocument, DocumentHolds, RowsHold, QueuesHold, InQueue
<1>5. NothingLeftOut(n)'
  BY <1>1 DEF NothingLeftOut, Visiting
<1> QED BY <1>3, <1>4, <1>5 DEF DocumentHolds

LEMMA CreatePartHolds ==
  ASSUME AnswersForm, NEW n \in AlertDoc, DocumentHolds(n), CreatePart(n)
  PROVE  DocumentHolds(n)'
<1> DEFINE i == writer[n].next
           w == [writer[n] EXCEPT !.next = @ + 1]
<1>1. /\ writer[n].step = "visit" /\ i =< Size(n) /\ Model(n, i) \in Created
      /\ InsertParts(n, {i}, w) /\ pruned' = pruned
  BY DEF CreatePart
<1>2. Size(n) \in Nat /\ i \in 1 .. Size(n)
  BY <1>1, DocumentIsTyped DEF DocumentHolds, RowsHold
<1>3. CASE Parent(n, i) \in parts[n]
  <2>1. parts'[n] = parts[n] \cup {i} /\ writer'[n] = w
    BY <1>1, <1>3 DEF InsertParts, AnswersForm
  <2>2. w.step = "visit" /\ w.next = i + 1 /\ w.queue = writer[n].queue
    BY <1>1 DEF AnswersForm
  <2>3. \A m \in Queued : InQueue(w, m) = InQueue(writer[n], m)
    BY <2>2 DEF InQueue
  <2>4. \A m \in Queued : Len(w.queue[m]) < chunk_size /\ InQueue(w, m) \subseteq 1 .. i - 1
    BY <2>2, <2>3 DEF DocumentHolds, QueuesHold
  <2> HIDE DEF w
  <2>5. \A m \in Queued : InQueue(w, m) \subseteq 1 .. w.next - 1
    BY <1>2, <2>2, <2>4
  <2> DEFINE I == {i}
  <2>6. /\ w.step \in {"visit", "done"} /\ (w.step = "done" => w.next = Size(n) + 1)
        /\ w.next >= writer[n].next /\ w.next \in 1 .. Size(n) + 1
        /\ I \in SUBSET (1 .. Size(n)) /\ Visiting(n) /\ \A j \in I : j < w.next
    BY <1>1, <1>2, <2>2 DEF Visiting
  <2>7. /\ parts'[n] = parts[n] \cup I /\ \A j \in I : Parent(n, j) \in parts[n]
        /\ \A m \in Queued : InQueue(writer[n], m) \subseteq I \cup InQueue(w, m)
        /\ \A m \in Queued : Len(w.queue[m]) < chunk_size
    BY <1>3, <2>1, <2>3, <2>4
  <2>8. \A j \in writer[n].next .. w.next - 1 :
          j \in I \/ (Model(n, j) \notin Created /\ j \in InQueue(w, Model(n, j)))
    BY <1>2, <2>2
  <2> HIDE DEF I
  <2> QED BY <1>1, <2>1, <2>5, <2>6, <2>7, <2>8, WrittenHolds
<1>4. CASE Parent(n, i) \notin parts[n]
  <2>1. parts' = parts /\ writer' = [writer EXCEPT ![n] = Stopped(writer[n])]
    BY <1>1, <1>4 DEF InsertParts
  <2> QED BY <1>1, <2>1, StoppedHolds DEF Visiting
<1> QED BY <1>3, <1>4

LEMMA QueueFacts ==
  ASSUME AnswersForm, NEW n \in AlertDoc, NEW m \in Queued
  PROVE  /\ writer[n].queue[m] \in Seq(Nat)
         /\ Committed(writer[n], m).step = writer[n].step
         /\ Committed(writer[n], m).next = writer[n].next
         /\ Committed(writer[n], m).queue \in [Queued -> Seq(Nat)]
         /\ Committed(writer[n], m).queue[m] = <<>>
         /\ InQueue(Committed(writer[n], m), m) = {}
         /\ \A k \in Queued \ {m} : /\ Committed(writer[n], m).queue[k] = writer[n].queue[k]
                                    /\ InQueue(Committed(writer[n], m), k) = InQueue(writer[n], k)
BY DEF AnswersForm, Committed, InQueue

LEMMA AddPartHolds ==
  ASSUME AnswersForm, NEW n \in AlertDoc, DocumentHolds(n), AddPart(n)
  PROVE  DocumentHolds(n)'
<1> DEFINE i == writer[n].next
           m == Model(n, i)
           q == writer[n].queue[m]
           added == [writer[n] EXCEPT !.next = @ + 1, !.queue[m] = Append(@, i)]
           I == IF Full(added.queue[m]) THEN InQueue(added, m) ELSE {}
           w == IF Full(added.queue[m]) THEN Committed(added, m) ELSE added
<1>1. /\ writer[n].step = "visit" /\ i =< Size(n) /\ m \in Queued
      /\ InsertParts(n, I, w) /\ pruned' = pruned
  BY DEF AddPart
<1>2. Size(n) \in Nat /\ i \in 1 .. Size(n) /\ Visiting(n)
  BY <1>1, DocumentIsTyped DEF DocumentHolds, RowsHold, Visiting
<1>3. q \in Seq(Nat) /\ Len(q) < chunk_size /\ \A j \in DOMAIN q : q[j] \in 1 .. i - 1
  BY <1>1 DEF AnswersForm, DocumentHolds, QueuesHold, InQueue
<1>4. /\ added.step = "visit" /\ added.next = i + 1 /\ added.queue[m] = Append(q, i)
      /\ \A k \in Queued \ {m} : added.queue[k] = writer[n].queue[k]
  BY <1>1 DEF AnswersForm
<1>5. InQueue(added, m) = InQueue(writer[n], m) \cup {i}
  <2>1. Append(q, i) = [j \in 1 .. Len(q) + 1 |-> IF j = Len(q) + 1 THEN i ELSE q[j]]
    BY <1>2, <1>3
  <2>2. Len(q) \in Nat /\ DOMAIN q = 1 .. Len(q)
    BY <1>3
  <2>3. {Append(q, i)[j] : j \in DOMAIN Append(q, i)} = {q[j] : j \in DOMAIN q} \cup {i}
    <3> HIDE DEF q, i
    <3>1. DOMAIN Append(q, i) = 1 .. Len(q) + 1
      BY <2>1
    <3>2. \A j \in 1 .. Len(q) : Append(q, i)[j] = q[j]
      BY <2>1, <2>2
    <3>3. Append(q, i)[Len(q) + 1] = i
      BY <2>1, <2>2
    <3>4. \A j \in 1 .. Len(q) + 1 : j \in 1 .. Len(q) \/ j = Len(q) + 1
      BY <2>2
    <3>5. Len(q) + 1 \in 1 .. Len(q) + 1 /\ 1 .. Len(q) \subseteq 1 .. Len(q) + 1
      BY <2>2
    <3> QED BY <2>2, <3>1, <3>2, <3>3, <3>4, <3>5
  <2> QED BY <1>4, <2>3 DEF InQueue
<1>6. \A k \in Queued \ {m} : InQueue(added, k) = InQueue(writer[n], k)
  BY <1>4 DEF InQueue
<1>7. \A k \in Queued : InQueue(writer[n], k) \subseteq 1 .. i - 1 /\ Len(writer[n].queue[k]) < chunk_size
  BY DEF DocumentHolds, QueuesHold
<1>8. /\ w.step = "visit" /\ w.next = i + 1
      /\ \A k \in Queued \ {m} : w.queue[k] = writer[n].queue[k]
      /\ Len(w.queue[m]) < chunk_size
      /\ InQueue(w, m) \subseteq 1 .. i /\ I \subseteq 1 .. i
      /\ \A k \in Queued \ {m} : InQueue(w, k) = InQueue(writer[n], k)
      /\ InQueue(writer[n], m) \cup {i} \subseteq I \cup InQueue(w, m)
  <2>1. chunk_size \in Nat /\ 0 < chunk_size /\ Len(Append(q, i)) = Len(q) + 1 /\ Len(q) \in Nat
    BY <1>2, <1>3, AnswersAssumption
  <2>2. InQueue(writer[n], m) \cup {i} \subseteq 1 .. i
    BY <1>1, <1>2, <1>7
  <2>3. CASE Full(added.queue[m])
    <3>1. I = InQueue(added, m) /\ w = Committed(added, m)
      BY <2>3
    <3>2. /\ Committed(added, m).step = "visit" /\ Committed(added, m).next = i + 1
          /\ Committed(added, m).queue[m] = <<>>
          /\ \A k \in Queued \ {m} : Committed(added, m).queue[k] = added.queue[k]
      BY <1>1, <1>2 DEF AnswersForm, Committed
    <3> HIDE DEF added, I, w, i, m, q
    <3>3. InQueue(w, m) = {} /\ \A k \in Queued \ {m} : InQueue(w, k) = InQueue(added, k)
      BY <3>1, <3>2 DEF InQueue
    <3>4. Len(w.queue[m]) < chunk_size
      BY <2>1, <3>1, <3>2
    <3> QED BY <1>4, <1>5, <1>6, <2>2, <3>1, <3>2, <3>3, <3>4
  <2>4. CASE ~Full(added.queue[m])
    <3>1. I = {} /\ w = added
      BY <2>4
    <3>2. Len(added.queue[m]) < chunk_size
      BY <1>4, <2>1, <2>4 DEF Full
    <3> HIDE DEF added, I, w, i, m, q
    <3> QED BY <1>4, <1>5, <1>6, <2>2, <3>1, <3>2
  <2> QED BY <2>3, <2>4
<1> HIDE DEF added, I, w, i, q
<1>9. CASE \A j \in I : Parent(n, j) \in parts[n]
  <2>1. parts'[n] = parts[n] \cup I /\ writer'[n] = w
    BY <1>1, <1>9 DEF InsertParts, AnswersForm
  <2>2. /\ w.step \in {"visit", "done"} /\ (w.step = "done" => w.next = Size(n) + 1)
        /\ w.next >= writer[n].next /\ w.next \in 1 .. Size(n) + 1
        /\ I \in SUBSET (1 .. Size(n)) /\ \A j \in I : j < w.next
    BY <1>2, <1>8 DEF i
  <2>3. /\ \A k \in Queued : Len(w.queue[k]) < chunk_size
        /\ \A k \in Queued : InQueue(writer[n], k) \subseteq I \cup InQueue(w, k)
    BY <1>7, <1>8
  <2>4. \A k \in Queued : InQueue(w, k) \subseteq 1 .. w.next - 1
    <3>1. 1 .. w.next - 1 = 1 .. i /\ 1 .. i - 1 \subseteq 1 .. i
      BY <1>2, <1>8
    <3> QED BY <1>7, <1>8, <3>1
  <2>5. \A j \in writer[n].next .. w.next - 1 :
          j \in I \/ (Model(n, j) \notin Created /\ j \in InQueue(w, Model(n, j)))
    <3>1. \A j \in writer[n].next .. w.next - 1 : j = i
      BY <1>2, <1>8 DEF i
    <3>2. m \notin Created /\ m = Model(n, i)
      BY <1>1 DEF Created, Queued
    <3> HIDE DEF m
    <3> QED BY <1>8, <3>1, <3>2
  <2> HIDE DEF m
  <2> QED BY <1>1, <1>2, <1>9, <2>1, <2>2, <2>3, <2>4, <2>5, WrittenHolds
<1>10. CASE ~\A j \in I : Parent(n, j) \in parts[n]
  <2>1. parts' = parts /\ writer' = [writer EXCEPT ![n] = Stopped(writer[n])]
    BY <1>1, <1>10 DEF InsertParts
  <2> QED BY <1>1, <1>2, <2>1, StoppedHolds
<1> QED BY <1>9, <1>10

LEMMA EndDocumentHolds ==
  ASSUME AnswersForm, NEW n \in AlertDoc, DocumentHolds(n), EndDocument(n)
  PROVE  DocumentHolds(n)'
<1>1. /\ writer[n].step = "visit" /\ writer[n].next = Size(n) + 1 /\ Visiting(n)
  BY DocumentIsTyped DEF EndDocument, DocumentHolds, RowsHold, Visiting
<1>2. /\ parts' = parts /\ pruned' = pruned /\ writer'[n].step = "done"
      /\ writer'[n].next = writer[n].next /\ writer'[n].queue = writer[n].queue
  BY DEF EndDocument, AnswersForm
<1>3. RowsHold(n)'
  BY <1>1, <1>2 DEF DocumentHolds, RowsHold
<1>4. QueuesHold(n)'
  BY <1>2 DEF DocumentHolds, QueuesHold, InQueue
<1>5. NothingLeftOut(n)'
  BY <1>1, <1>2 DEF DocumentHolds, NothingLeftOut, Visiting, InQueue
<1> QED BY <1>3, <1>4, <1>5 DEF DocumentHolds

LEMMA CommitRestHolds ==
  ASSUME AnswersForm, NEW n \in AlertDoc, DocumentHolds(n), CommitRest(n)
  PROVE  DocumentHolds(n)'
<1>1. /\ writer[n].step = "done" /\ writer[n].next = Size(n) + 1 /\ pruned' = pruned
      /\ Visiting(n) /\ Size(n) \in Nat
  BY DocumentIsTyped DEF CommitRest, DocumentHolds, RowsHold, Visiting
<1>2. ASSUME NEW m \in Unsaved(writer[n]),
             InsertParts(n, InQueue(writer[n], m), Committed(writer[n], m))
      PROVE  DocumentHolds(n)'
  <2> DEFINE I == InQueue(writer[n], m)
             w == Committed(writer[n], m)
  <2>1. m \in Queued
    BY DEF Unsaved
  <2>2. /\ w.step = "done" /\ w.next = writer[n].next /\ w.queue[m] = <<>> /\ InQueue(w, m) = {}
        /\ \A k \in Queued \ {m} :
             w.queue[k] = writer[n].queue[k] /\ InQueue(w, k) = InQueue(writer[n], k)
    BY <1>1, <2>1, QueueFacts
  <2>3. \A k \in Queued :
          InQueue(writer[n], k) \subseteq 1 .. writer[n].next - 1 /\ Len(writer[n].queue[k]) < chunk_size
    BY DEF DocumentHolds, QueuesHold
  <2> HIDE DEF I, w
  <2>4. CASE \A j \in I : Parent(n, j) \in parts[n]
    <3>1. parts'[n] = parts[n] \cup I /\ writer'[n] = w
      BY <1>2, <2>4 DEF InsertParts, AnswersForm, I, w
    <3>2. /\ w.step \in {"visit", "done"} /\ (w.step = "done" => w.next = Size(n) + 1)
          /\ w.next >= writer[n].next /\ w.next \in 1 .. Size(n) + 1
      BY <1>1, <2>2
    <3>3. I \in SUBSET (1 .. Size(n)) /\ \A j \in I : j < w.next
      BY <1>1, <2>1, <2>2, <2>3 DEF I
    <3>4. \A k \in Queued : Len(w.queue[k]) < chunk_size
      <4>1. Len(<<>>) < chunk_size
        BY AnswersAssumption
      <4> QED BY <2>2, <2>3, <4>1
    <3>5. \A k \in Queued : InQueue(w, k) \subseteq 1 .. w.next - 1
      BY <2>2, <2>3
    <3>6. \A k \in Queued : InQueue(writer[n], k) \subseteq I \cup InQueue(w, k)
      BY <2>2 DEF I
    <3>7. \A j \in writer[n].next .. w.next - 1 :
            j \in I \/ (Model(n, j) \notin Created /\ j \in InQueue(w, Model(n, j)))
      BY <1>1, <2>2
    <3> QED BY <1>1, <2>4, <3>1, <3>2, <3>3, <3>4, <3>5, <3>6, <3>7, WrittenHolds
  <2>5. CASE ~\A j \in I : Parent(n, j) \in parts[n]
    <3>1. parts' = parts /\ writer' = [writer EXCEPT ![n] = Stopped(writer[n])]
      BY <1>2, <2>5 DEF InsertParts, I
    <3> QED BY <1>1, <3>1, StoppedHolds
  <2> QED BY <2>4, <2>5
<1>3. ASSUME Unsaved(writer[n]) = {}, writer' = [writer EXCEPT ![n].step = "ingested"],
             parts' = parts
      PROVE  DocumentHolds(n)'
  <2>1. /\ writer'[n].step = "ingested" /\ writer'[n].next = writer[n].next
        /\ writer'[n].queue = writer[n].queue
    BY <1>3 DEF AnswersForm
  <2>2. RowsHold(n)'
    BY <1>1, <1>3, <2>1 DEF DocumentHolds, RowsHold
  <2>3. QueuesHold(n)'
    BY <2>1 DEF DocumentHolds, QueuesHold, InQueue
  <2>4. NothingLeftOut(n)'
    <3> SUFFICES ASSUME n \notin pruned PROVE NothingLeftOut(n)'
      BY <1>1 DEF NothingLeftOut
    <3>1. \A m \in Queued : InQueue(writer[n], m) = {}
      BY <1>3 DEF Unsaved, InQueue
    <3>2. \A i \in 1 .. writer[n].next - 1 : Model(n, i) \in Created \cup Queued
      BY <1>1, DocumentIsTyped
    <3>3. \A i \in 1 .. writer[n].next - 1 : i \in parts[n]
      BY <1>1, <3>1, <3>2 DEF DocumentHolds, NothingLeftOut
    <3>4. \A m \in Queued : Cardinality(Lost(n, m)) < chunk_size
      BY <1>1, LostWaits DEF DocumentHolds, NothingLeftOut
    <3>5. \A m \in Queued : Lost(n, m)' = Lost(n, m)
      BY <1>3, <2>1 DEF Lost
    <3>6. 1 .. Size(n) \subseteq parts[n]
      BY <1>1, <3>3
    <3> QED BY <1>3, <2>1, <3>3, <3>4, <3>5, <3>6 DEF NothingLeftOut, Visiting
  <2> QED BY <2>2, <2>3, <2>4 DEF DocumentHolds
<1> QED BY <1>2, <1>3 DEF CommitRest

LEMMA StopWriterHolds ==
  ASSUME AnswersForm, NEW n \in AlertDoc, DocumentHolds(n), StopWriter(n)
  PROVE  DocumentHolds(n)'
BY StoppedHolds DEF StopWriter, Visiting, AnswersForm

\* With a row goes all that belongs to it, so no row is left without its owner.
LEMMA DeletePartHolds ==
  ASSUME AnswersForm, NEW n \in AlertDoc, DocumentHolds(n), NEW i \in 0 .. Size(n),
         DeletePart(n, i)
  PROVE  DocumentHolds(n)'
<1>1. parts'[n] = parts[n] \ Under(n, i) /\ writer' = writer /\ n \in pruned'
  BY DEF DeletePart, AnswersForm
<1>2. ASSUME NEW j \in parts'[n] \ {0} PROVE Parent(n, j) \in parts'[n]
  <2>1. j \in parts[n] /\ j \in 1 .. Size(n) /\ i \notin Above(n, j)
    <3>1. j \in parts[n] /\ j \notin Under(n, i)
      BY <1>1
    <3>2. j \in 0 .. Size(n) /\ j # 0
      BY <3>1 DEF DocumentHolds, RowsHold
    <3>3. j \in 1 .. Size(n)
      BY <3>2, DocumentIsTyped
    <3> QED BY <3>1, <3>2, <3>3 DEF Under
  <2>2. Above(n, Parent(n, j)) \subseteq Above(n, j)
    BY <2>1, AboveIs
  <2>3. Parent(n, j) \notin Under(n, i)
    BY <2>1, <2>2 DEF Under
  <2> QED BY <1>1, <2>1, <2>3 DEF DocumentHolds, RowsHold
<1>3. RowsHold(n)'
  BY <1>1, <1>2 DEF DocumentHolds, RowsHold
<1>4. QueuesHold(n)'
  BY <1>1 DEF DocumentHolds, QueuesHold, InQueue
<1> QED BY <1>1, <1>3, <1>4 DEF DocumentHolds, NothingLeftOut

LEMMA KeyIs ==
  /\ \A k \in Key : k = <<k[1], k[2]>> /\ k[1] \in AlertDoc /\ k[2] \in 0 .. Size(k[1])
  /\ \A n \in AlertDoc : \A i \in 0 .. Size(n) : <<n, i>> \in Key
  /\ \A n \in AlertDoc : <<n, 0>> \in Key
<1>1. \A n \in AlertDoc : 0 \in 0 .. Size(n)
  BY DocumentIsTyped
<1> QED BY <1>1 DEF Key

LEMMA AskedIsKeys ==
  ASSUME AnswersForm, NEW l \in DOMAIN Loader
  PROVE  AskedOf(l) \subseteq Key /\ Batch(l) \subseteq Key
<1>1. \A fields : Got(fields) \subseteq Key
  BY DEF Got, AnswersForm
<1>2. {<<n, 0>> : n \in answer.page} \subseteq Key
  BY KeyIs DEF AnswersForm
<1>3. l \in {"info", "infos", "parameters", "areas", "polygons", "circles", "geocodes"}
  BY DEF Loader
<1>4. AskedOf(l) \subseteq Key
  BY <1>1, <1>2, <1>3 DEF AskedOf
<1> QED BY <1>4 DEF Batch

LEMMA WriterForm ==
  ASSUME AnswersForm, NEW n \in AlertDoc,
         \/ StartDocument(n) \/ CreatePart(n) \/ AddPart(n) \/ EndDocument(n) \/ CommitRest(n)
         \/ StopWriter(n)
  PROVE  /\ AnswersForm' /\ UNCHANGED <<answer, whole, pruned>>
         /\ writer[n].step \in {"off", "visit", "done"}
         /\ \A k \in AlertDoc \ {n} : writer'[k] = writer[k] /\ parts'[k] = parts[k]
<1> DEFINE W == [step : {"off", "visit", "done", "ingested", "stopped"}, next : Nat,
                 queue : [Queued -> Seq(Nat)]]
<1> SUFFICES /\ parts' \in [AlertDoc -> SUBSET Nat] /\ writer' \in [AlertDoc -> W]
             /\ UNCHANGED <<answer, whole, pruned>>
             /\ writer[n].step \in {"off", "visit", "done"}
             /\ \A k \in AlertDoc \ {n} : writer'[k] = writer[k] /\ parts'[k] = parts[k]
  BY DEF AnswersForm
<1>1. parts \in [AlertDoc -> SUBSET Nat] /\ writer \in [AlertDoc -> W] /\ writer[n] \in W
  BY DEF AnswersForm
<1>2. \A w \in W : w.next \in Nat /\ w.queue \in [Queued -> Seq(Nat)]
  OBVIOUS
<1>3. ASSUME NEW w \in W, NEW s \in {"off", "visit", "done", "ingested", "stopped"}
      PROVE  [w EXCEPT !.step = s] \in W
  OBVIOUS
<1>4. ASSUME NEW w \in W, NEW i \in Nat, NEW q \in [Queued -> Seq(Nat)]
      PROVE  /\ [w EXCEPT !.next = i] \in W /\ [w EXCEPT !.queue = q] \in W
             /\ [w EXCEPT !.next = i, !.queue = q] \in W
             /\ [w EXCEPT !.step = "stopped", !.queue = q] \in W
  <2>1. [w EXCEPT !.next = i] \in W
    OBVIOUS
  <2>2. [w EXCEPT !.queue = q] \in W
    OBVIOUS
  <2>3. [w EXCEPT !.next = i, !.queue = q] \in W
    OBVIOUS
  <2>4. [w EXCEPT !.step = "stopped", !.queue = q] \in W
    OBVIOUS
  <2> QED BY <2>1, <2>2, <2>3, <2>4
<1>5. <<>> \in Seq(Nat) /\ NoQueue \in [Queued -> Seq(Nat)]
  BY DEF NoQueue
<1>6. Stopped(writer[n]) \in W
  <2> HIDE DEF W
  <2> QED BY <1>1, <1>4, <1>5, Zenon DEF Stopped
<1>7. ASSUME NEW I \in SUBSET Nat, NEW w \in W, InsertParts(n, I, w)
      PROVE  /\ parts' \in [AlertDoc -> SUBSET Nat] /\ writer' \in [AlertDoc -> W]
             /\ \A k \in AlertDoc \ {n} : writer'[k] = writer[k] /\ parts'[k] = parts[k]
  <2> HIDE DEF W
  <2> QED BY <1>1, <1>6, <1>7 DEF InsertParts
<1>8. ASSUME NEW m \in Queued, NEW w \in W PROVE Committed(w, m) \in W /\ InQueue(w, m) \in SUBSET Nat
  <2>1. [w.queue EXCEPT ![m] = <<>>] \in [Queued -> Seq(Nat)]
    BY <1>2, <1>5
  <2>2. [w EXCEPT !.queue = [w.queue EXCEPT ![m] = <<>>]] \in W
    <3> HIDE DEF W
    <3> QED BY <1>4, <2>1
  <2>3. Committed(w, m) \in W
    BY <2>2 DEF Committed
  <2>4. InQueue(w, m) \in SUBSET Nat
    <3>1. w.queue[m] \in Seq(Nat)
      BY <1>2
    <3> QED BY <3>1 DEF InQueue
  <2> QED BY <2>3, <2>4
<1>9. CASE StartDocument(n)
  <2>1. [writer[n] EXCEPT !.step = "visit"] \in W
    <3> HIDE DEF W
    <3> QED BY <1>1, <1>3
  <2>2. {0} \in SUBSET Nat
    OBVIOUS
  <2> HIDE DEF W
  <2> QED BY <1>1, <1>9, <2>1, <2>2 DEF StartDocument
<1>10. CASE CreatePart(n)
  <2>1. [writer[n] EXCEPT !.next = @ + 1] \in W /\ {writer[n].next} \in SUBSET Nat
    <3>1. writer[n].next \in Nat /\ writer[n].next + 1 \in Nat
      BY <1>1, <1>2
    <3> HIDE DEF W
    <3> QED BY <1>1, <1>2, <1>4, <3>1
  <2> HIDE DEF W
  <2> QED BY <1>7, <1>10, <2>1 DEF CreatePart
<1>11. CASE AddPart(n)
  <2> DEFINE m == Model(n, writer[n].next)
             added == [writer[n] EXCEPT !.next = @ + 1, !.queue[m] = Append(@, writer[n].next)]
  <2>1. m \in Queued
    BY <1>11 DEF AddPart
  <2>2. added \in W
    <3>1. writer[n].queue[m] \in Seq(Nat) /\ writer[n].next \in Nat
      BY <1>1, <2>1
    <3>2. Append(writer[n].queue[m], writer[n].next) \in Seq(Nat)
      BY <3>1
    <3>3. [writer[n].queue EXCEPT ![m] = Append(@, writer[n].next)] \in [Queued -> Seq(Nat)]
      BY <1>1, <1>2, <2>1, <3>2
    <3>4. writer[n].next + 1 \in Nat
      BY <3>1
    <3> HIDE DEF m
    <3>5. added = [writer[n] EXCEPT !.next = writer[n].next + 1,
                     !.queue = [writer[n].queue EXCEPT ![m] = Append(@, writer[n].next)]]
      OBVIOUS
    <3> HIDE DEF W, added
    <3> QED BY <1>1, <1>4, <3>3, <3>4, <3>5
  <2> HIDE DEF W
  <2>3. IF Full(added.queue[m])
        THEN InsertParts(n, InQueue(added, m), Committed(added, m)) ELSE InsertParts(n, {}, added)
    BY <1>11 DEF AddPart
  <2> HIDE DEF added, m
  <2>4. InQueue(added, m) \in SUBSET Nat /\ Committed(added, m) \in W /\ {} \in SUBSET Nat
    BY <1>8, <2>1, <2>2
  <2>5. writer[n].step = "visit" /\ UNCHANGED <<answer, whole, pruned>>
    BY <1>11 DEF AddPart
  <2> QED BY <1>7, <2>2, <2>3, <2>4, <2>5
<1>12. CASE EndDocument(n)
  BY <1>1, <1>12 DEF EndDocument
<1>13. CASE CommitRest(n)
  <2>1. ASSUME NEW m \in Unsaved(writer[n])
        PROVE  InQueue(writer[n], m) \in SUBSET Nat /\ Committed(writer[n], m) \in W
    BY <1>1, <1>8 DEF Unsaved
  <2>2. [writer[n] EXCEPT !.step = "ingested"] \in W
    BY <1>1
  <2>3. writer[n].step = "done" /\ UNCHANGED <<answer, whole, pruned>>
    BY <1>13 DEF CommitRest
  <2> HIDE DEF W
  <2>4. CASE \E m \in Unsaved(writer[n]) : InsertParts(n, InQueue(writer[n], m), Committed(writer[n], m))
    BY <1>7, <2>1, <2>3, <2>4
  <2>5. CASE writer' = [writer EXCEPT ![n].step = "ingested"] /\ UNCHANGED parts
    BY <1>1, <2>2, <2>3, <2>5
  <2> QED BY <1>13, <2>4, <2>5 DEF CommitRest
<1>14. CASE StopWriter(n)
  <2> HIDE DEF W
  <2> QED BY <1>1, <1>6, <1>14 DEF StopWriter
<1> QED BY <1>9, <1>10, <1>11, <1>12, <1>13, <1>14

\* The answer holds on while the tables change under it.
LEMMA AnswerRests ==
  ASSUME AnswersForm, AnswerHolds, UNCHANGED <<answer, whole>>, pruned \subseteq pruned',
         \A k \in whole : writer'[k].step = writer[k].step
  PROVE  AnswerHolds'
<1>1. \A l : Batch(l)' = Batch(l)
  BY DEF Batch, AskedOf, Got
<1>2. (answer.step = "done" => \A l \in DOMAIN Loader : Batch(l) = {})'
  BY <1>1 DEF AnswerHolds
<1> QED BY <1>2 DEF AnswerHolds

LEMMA LoadBatchHolds ==
  ASSUME AnswersForm, DocumentInv, AnswerHolds, NEW l \in DOMAIN Loader, LoadBatch(l)
  PROVE  AnswersForm' /\ AnswerHolds'
<1> DEFINE keys == Batch(l)
           rows == Loaded(l, keys)
<1>1. /\ answer.step = "open" /\ UNCHANGED <<parts, writer, pruned, whole>>
      /\ answer' = [answer EXCEPT !.loaded = @ \cup ({l} \X keys), !.got = @ \cup ({l} \X rows)]
  BY DEF LoadBatch
<1>2. /\ answer'.step = "open" /\ answer'.fields = answer.fields /\ answer'.page = answer.page
      /\ answer'.loaded = answer.loaded \cup ({l} \X keys)
      /\ answer'.got = answer.got \cup ({l} \X rows)
  BY <1>1 DEF AnswersForm
<1>3. rows \subseteq Children(Loader[l], keys)
  BY DEF Loaded, FirstOf
<1>4. Children(Loader[l], keys) \subseteq Key /\ keys \subseteq Key
  BY AskedIsKeys DEF Children
<1> HIDE DEF keys, rows
<1>5. AnswersForm'
  <2>1. /\ {l} \X keys \subseteq (DOMAIN Loader) \X Key
        /\ {l} \X rows \subseteq (DOMAIN Loader) \X Key
    BY <1>3, <1>4
  <2> QED BY <1>1, <2>1 DEF AnswersForm
<1>6. ASSUME NEW k \in (DOMAIN Loader) \ {"info"}, NEW n \in whole \ pruned, NEW p \in Nat,
             <<k, <<n, p>>>> \in answer'.loaded, NEW i \in 1 .. Size(n),
             Model(n, i) = Loader[k], Parent(n, i) = p
      PROVE  <<k, <<n, i>>>> \in answer'.got
  <2>1. CASE <<k, <<n, p>>>> \in answer.loaded
    BY <1>2, <1>6, <2>1 DEF AnswerHolds
  <2>2. CASE k = l /\ <<n, p>> \in keys
    <3>1. n \in AlertDoc
      BY DEF AnswersForm
    <3>2. i \in parts[n] \ {0}
      <4>1. writer[n].step = "ingested"
        BY DEF AnswerHolds
      <4>2. i \in parts[n]
        BY <3>1, <4>1 DEF DocumentInv, NothingLeftOut
      <4> QED BY <4>2
    <3>3. <<n, i>> \in Key
      BY <3>1, KeyIs
    <3>4. <<n, i>> \in Children(Loader[l], keys)
      BY <1>6, <2>2, <3>2, <3>3 DEF Children
    <3>5. <<n, i>> \in rows
      BY <2>2, <3>4 DEF rows, Loaded
    <3> QED BY <1>2, <2>2, <3>5
  <2> QED BY <1>2, <1>6, <2>1, <2>2
<1>7. ASSUME NEW k \in DOMAIN Loader, NEW n \in AlertDoc, NEW i \in Nat,
             <<k, <<n, i>>>> \in answer'.got
      PROVE  /\ i \in 1 .. Size(n) /\ Model(n, i) = Loader[k]
             /\ k = "info" /\ n \notin pruned => \A j \in 1 .. i - 1 : Model(n, j) # "AlertInfo"
  <2>1. CASE <<k, <<n, i>>>> \in answer.got
    BY <2>1 DEF AnswerHolds
  <2>2. CASE k = l /\ <<n, i>> \in rows
    <3>1. /\ <<n, i>> \in Key /\ i \in parts[n] \ {0} /\ Model(n, i) = Loader[l]
          /\ <<n, Parent(n, i)>> \in keys
      BY <1>3, <2>2 DEF Children
    <3>2. i \in 1 .. Size(n) /\ Size(n) \in Nat
      BY <3>1, KeyIs, DocumentIsTyped
    <3>3. ASSUME k = "info", n \notin pruned, NEW j \in 1 .. i - 1, Model(n, j) = "AlertInfo"
          PROVE  FALSE
      <4>1. j \in 1 .. Size(n) /\ j < i
        BY <3>2
      <4>2. Model(n, i) = "AlertInfo"
        BY <2>2, <3>1, <3>3 DEF Loader
      <4>3. ASSUME NEW h \in 1 .. Size(n), Model(n, h) = "AlertInfo" PROVE Parent(n, h) = 0
        <5>1. \A m \in Created \cup Queued : m # "Alert"
          BY DEF Created, Queued
        <5>2. Owner[Model(n, h)] = "Alert"
          BY <4>3 DEF Owner
        <5>3. Parent(n, h) # 0 => Parent(n, h) \in 1 .. Size(n)
          BY <3>2, DocumentIsTyped
        <5> QED BY <5>1, <5>2, <5>3, DocumentIsTyped
      <4>4. <<n, Parent(n, j)>> \in keys
        BY <3>1, <3>2, <3>3, <4>1, <4>2, <4>3
      <4>5. j \in parts[n] \ {0}
        <5>1. i < writer[n].next /\ writer[n].next \in Nat
          BY <3>1 DEF DocumentInv, RowsHold, AnswersForm
        <5>2. j \in 1 .. writer[n].next - 1
          BY <3>2, <4>1, <5>1
        <5> QED BY <3>3, <5>2 DEF DocumentInv, NothingLeftOut, Created
      <4>6. <<n, j>> \in Key
        BY <4>1, KeyIs
      <4>7. <<n, j>> \in Children(Loader[l], keys)
        BY <2>2, <3>3, <4>4, <4>5, <4>6 DEF Children, Loader
      <4>8. <<n, i>> \in FirstOf(Children(Loader[l], keys))
        BY <2>2, <3>3 DEF rows, Loaded
      <4>9. j >= i
        BY <4>7, <4>8 DEF FirstOf
      <4> QED BY <3>2, <4>1, <4>9
    <3> QED BY <2>2, <3>1, <3>2, <3>3
  <2> QED BY <1>2, <1>7, <2>1, <2>2
<1>8. AnswerHolds'
  BY <1>1, <1>2, <1>6, <1>7 DEF AnswerHolds
<1> QED BY <1>5, <1>8

LEMMA AnswersInductive == AnswersInv /\ [AnswersNext]_answersVars => AnswersInv'
<1> SUFFICES ASSUME AnswersInv, [AnswersNext]_answersVars PROVE AnswersInv'
  OBVIOUS
<1>1. AnswersForm /\ AnswerHolds /\ DocumentInv /\ \A n \in AlertDoc : DocumentHolds(n)
  BY DEF AnswersInv, DocumentInv, DocumentHolds
<1>2. \A n \in whole : n \in AlertDoc /\ writer[n].step = "ingested"
  BY <1>1 DEF AnswersForm, AnswerHolds
<1>3. SUFFICES AnswersForm' /\ AnswerHolds' /\ \A n \in AlertDoc : DocumentHolds(n)'
  BY DEF AnswersInv, DocumentInv, DocumentHolds
<1>4. ASSUME NEW n \in AlertDoc,
             \/ StartDocument(n) \/ CreatePart(n) \/ AddPart(n) \/ EndDocument(n)
             \/ CommitRest(n) \/ StopWriter(n)
      PROVE  AnswersForm' /\ AnswerHolds' /\ \A k \in AlertDoc : DocumentHolds(k)'
  <2>1. /\ AnswersForm' /\ UNCHANGED <<answer, whole, pruned>>
        /\ writer[n].step \in {"off", "visit", "done"}
        /\ \A k \in AlertDoc \ {n} : writer'[k] = writer[k] /\ parts'[k] = parts[k]
    BY <1>1, <1>4, WriterForm
  <2>2. AnswerHolds'
    BY <1>1, <1>2, <2>1, AnswerRests
  <2>3. DocumentHolds(n)'
    BY <1>1, <1>4, StartDocumentHolds, CreatePartHolds, AddPartHolds, EndDocumentHolds,
       CommitRestHolds, StopWriterHolds
  <2>4. \A k \in AlertDoc \ {n} : DocumentHolds(k)'
    BY <1>1, <2>1, RestingHolds
  <2> QED BY <2>1, <2>2, <2>3, <2>4
<1>5. ASSUME NEW n \in AlertDoc, NEW i \in 0 .. Size(n), DeletePart(n, i)
      PROVE  AnswersForm' /\ AnswerHolds' /\ \A k \in AlertDoc : DocumentHolds(k)'
  <2>1. /\ parts' = [parts EXCEPT ![n] = @ \ Under(n, i)] /\ pruned' = pruned \cup {n}
        /\ UNCHANGED <<writer, answer, whole>>
    BY <1>5 DEF DeletePart
  <2>2. AnswersForm'
    <3>1. parts' \in [AlertDoc -> SUBSET Nat]
      BY <1>1, <2>1 DEF AnswersForm
    <3> QED BY <1>1, <2>1, <3>1 DEF AnswersForm
  <2>3. AnswerHolds'
    BY <1>1, <2>1, AnswerRests
  <2>4. DocumentHolds(n)'
    BY <1>1, <1>5, DeletePartHolds
  <2>5. \A k \in AlertDoc \ {n} : parts'[k] = parts[k] /\ writer'[k] = writer[k]
    BY <1>1, <2>1 DEF AnswersForm
  <2>6. \A k \in AlertDoc \ {n} : DocumentHolds(k)'
    BY <1>1, <2>1, <2>5, RestingHolds
  <2> QED BY <2>2, <2>3, <2>4, <2>6
<1>6. ASSUME UNCHANGED <<parts, writer, pruned>> PROVE \A k \in AlertDoc : DocumentHolds(k)'
  BY <1>1, <1>6, RestingHolds
<1>7. ASSUME NEW fields \in Selection, AskForAlerts(fields) PROVE AnswersForm' /\ AnswerHolds'
  <2>1. fields \in SUBSET DOMAIN Loader
    BY AnswersAssumption
  <2>2. /\ answer.step = "idle" /\ UNCHANGED <<parts, writer, pruned>>
        /\ answer'.step = "open" /\ answer'.loaded = {} /\ answer'.got = {}
        /\ whole' = {n \in AlertDoc : writer[n].step = "ingested"}
    BY <1>1, <1>7 DEF AskForAlerts, AnswersForm, AnswerHolds
  <2>3. AnswersForm'
    BY <1>1, <1>7, <2>1, <2>2 DEF AskForAlerts, AnswersForm
  <2>4. AnswerHolds'
    BY <2>2 DEF AnswerHolds
  <2> QED BY <2>3, <2>4
<1>8. ASSUME EndAnswer PROVE AnswersForm' /\ AnswerHolds'
  <2>1. /\ answer.step = "open" /\ UNCHANGED <<parts, writer, pruned, whole>>
        /\ \A l \in DOMAIN Loader : Batch(l) = {}
        /\ answer' = [answer EXCEPT !.step = "done"]
    BY <1>8 DEF EndAnswer
  <2>2. /\ answer'.step = "done" /\ answer'.fields = answer.fields /\ answer'.page = answer.page
        /\ answer'.loaded = answer.loaded /\ answer'.got = answer.got
    BY <1>1, <2>1 DEF AnswersForm
  <2>3. \A l \in DOMAIN Loader : Batch(l)' = {}
    BY <2>1, <2>2 DEF Batch, AskedOf, Got
  <2>4. AnswersForm'
    BY <1>1, <2>1 DEF AnswersForm
  <2>5. AnswerHolds'
    BY <1>1, <2>1, <2>2, <2>3 DEF AnswerHolds
  <2> QED BY <2>4, <2>5
<1>9. CASE UNCHANGED answersVars
  <2>1. UNCHANGED <<parts, writer, answer, pruned, whole>>
    BY <1>9 DEF answersVars
  <2>2. AnswersForm'
    BY <1>1, <2>1 DEF AnswersForm
  <2> QED BY <1>1, <1>6, <2>1, <2>2, AnswerRests
<1>10. ASSUME NEW l \in DOMAIN Loader, LoadBatch(l) PROVE AnswersForm' /\ AnswerHolds'
  BY <1>1, <1>10, LoadBatchHolds
<1>11. EndAnswer \/ (\E fields \in Selection : AskForAlerts(fields)) \/ (\E l \in DOMAIN Loader : LoadBatch(l))
       => UNCHANGED <<parts, writer, pruned>>
  BY DEF EndAnswer, AskForAlerts, LoadBatch
<1> QED BY <1>4, <1>5, <1>6, <1>7, <1>8, <1>9, <1>10, <1>11 DEF AnswersNext

LEMMA AnswersStart == AnswersInit => AnswersInv
<1> SUFFICES ASSUME AnswersInit PROVE AnswersInv
  OBVIOUS
<1>1. /\ parts = [n \in AlertDoc |-> {}] /\ pruned = {} /\ whole = {}
      /\ writer = [n \in AlertDoc |-> [step |-> "off", next |-> 1, queue |-> NoQueue]]
      /\ answer = [step |-> "idle", fields |-> {}, page |-> {}, loaded |-> {}, got |-> {}]
  BY DEF AnswersInit
<1>2. NoQueue \in [Queued -> Seq(Nat)]
  BY DEF NoQueue
<1>3. AnswersForm
  BY <1>1, <1>2 DEF AnswersForm
<1>4. AnswerHolds
  BY <1>1 DEF AnswerHolds
<1>5. ASSUME NEW n \in AlertDoc PROVE DocumentHolds(n)
  <2>1. /\ parts[n] = {} /\ writer[n].step = "off" /\ writer[n].next = 1
        /\ writer[n].queue = NoQueue /\ Size(n) \in Nat
    BY <1>1, DocumentIsTyped
  <2>2. RowsHold(n)
    BY <2>1 DEF RowsHold
  <2>3. QueuesHold(n) /\ \A m \in Queued : InQueue(writer[n], m) = {}
    BY <2>1, AnswersAssumption DEF QueuesHold, NoQueue, InQueue
  <2>4. \A m \in Queued : Cardinality(Lost(n, m)) < chunk_size
    BY <1>3, <2>1, <2>3, LostWaits
  <2>5. NothingLeftOut(n)
    BY <2>1, <2>4 DEF NothingLeftOut
  <2> QED BY <2>2, <2>3, <2>5 DEF DocumentHolds
<1> QED BY <1>3, <1>4, <1>5 DEF AnswersInv, DocumentInv, DocumentHolds

LEMMA AnswersInvHolds == AnswersSpec => []AnswersInv
<1>1. AnswersInv /\ [AnswersNext]_answersVars => AnswersInv'
  BY AnswersInductive
<1> QED BY <1>1, AnswersStart, PTL DEF AnswersSpec

\* The rows, the workers and the answer keep their types: no row stays without the
\* row it belongs to, and no queue is ever a chunk long.
THEOREM AnswersTyped == AnswersSpec => []AnswersTypeOK
<1>1. AnswersInv => AnswersTypeOK
  <2> SUFFICES ASSUME AnswersInv PROVE AnswersTypeOK
    OBVIOUS
  <2>1. \A n \in AlertDoc : RowsHold(n) /\ QueuesHold(n) /\ AnswersForm
    BY DEF AnswersInv, DocumentInv
  <2>2. AnswersForm
    BY DEF AnswersInv
  <2> QED BY <2>1, <2>2 DEF AnswersForm, RowsHold, QueuesHold, AnswersTypeOK
<1> QED BY <1>1, AnswersInvHolds, PTL

\* A worker that stops in the middle of a document loses less than a chunk of each
\* model, for every document and size of a chunk.
THEOREM LossStaysBounded == AnswersSpec => []LossIsBounded
<1>1. AnswersInv => LossIsBounded
  <2> SUFFICES ASSUME AnswersInv, NEW n \in AlertDoc \ pruned, NEW m \in Created \cup Queued
               PROVE  Cardinality(Lost(n, m)) < IF m \in Queued THEN chunk_size ELSE 1
    BY DEF LossIsBounded
  <2>1. AnswersForm /\ RowsHold(n) /\ QueuesHold(n) /\ NothingLeftOut(n)
    BY DEF AnswersInv, DocumentInv
  <2>2. CASE m \in Queued
    <3>1. CASE Visiting(n)
      <4>1. Cardinality(Lost(n, m)) < chunk_size
        BY <2>1, <2>2, <3>1, LostWaits DEF NothingLeftOut
      <4> QED BY <2>2, <4>1
    <3>2. CASE ~Visiting(n)
      BY <2>1, <2>2, <3>2 DEF NothingLeftOut
    <3> QED BY <3>1, <3>2
  <2>3. CASE m \notin Queued
    <3>1. m \in Created
      BY <2>3
    <3>2. Lost(n, m) = {}
      BY <2>1, <3>1 DEF NothingLeftOut, Lost
    <3> QED BY <2>3, <3>2, FS_EmptySet
  <2> QED BY <2>2, <2>3
<1> QED BY <1>1, AnswersInvHolds, PTL

\* What an answer about an ingested alert holds of its document: by the first
\* element that were missing, whose owner is there and was asked for.
LEMMA WholeIsAnswered ==
  ASSUME AnswersInv PROVE AnswersIngestedWhole
<1> DEFINE models == {Loader[l] : l \in answer.fields \ {"info"}}
<1> SUFFICES ASSUME answer.step = "done", NEW n \in (whole \cap answer.page) \ pruned,
                    NEW e \in 1 .. Size(n), \A j \in Above(n, e) \ {0} : Model(n, j) \in models
             PROVE  <<n, e>> \in Got(DOMAIN Loader)
  BY DEF AnswersIngestedWhole
<1>1. AnswersForm /\ AnswerHolds /\ n \in AlertDoc /\ Size(n) \in Nat
  BY DocumentIsTyped DEF AnswersInv, AnswersForm
<1> DEFINE Selected(i) == \A j \in Above(n, i) \ {0} : Model(n, j) \in models
           Has(i) == \E l \in answer.fields \ {"info"} :
                       Loader[l] = Model(n, i) /\ <<l, <<n, i>>>> \in answer.got
           Missing == {i \in 1 .. Size(n) : Selected(i) /\ ~Has(i)}
<1>2. answer.fields \subseteq DOMAIN Loader /\ \A l \in DOMAIN Loader : Batch(l) = {}
  BY <1>1 DEF AnswersForm, AnswerHolds
<1>3. ASSUME NEW i \in 1 .. Size(n), NEW l \in answer.fields \ {"info"}, Loader[l] = Model(n, i),
             <<n, Parent(n, i)>> \in AskedOf(l)
      PROVE  Has(i)
  <2>1. l \in DOMAIN Loader
    BY <1>2
  <2>2. <<l, <<n, Parent(n, i)>>>> \in answer.loaded
    BY <1>2, <1>3, <2>1 DEF Batch
  <2>3. Parent(n, i) \in Nat
    BY <1>1, DocumentIsTyped
  <2>4. <<l, <<n, i>>>> \in answer.got
    BY <1>1, <1>3, <2>1, <2>2, <2>3 DEF AnswerHolds
  <2> QED BY <1>3, <2>4
<1>4. ASSUME Missing # {} PROVE FALSE
  <2>1. PICK i \in Missing : \A k \in Missing : i =< k
    <3>1. Missing \in SUBSET (0 .. Size(n))
      BY <1>1
    <3> HIDE DEF Missing
    <3> QED BY <1>1, <1>4, <3>1, LeastNat
  <2>2. i \in 1 .. Size(n) /\ Selected(i) /\ ~Has(i)
    OBVIOUS
  <2>3. /\ Parent(n, i) \in 0 .. i - 1
        /\ Owner[Model(n, i)] = IF Parent(n, i) = 0 THEN "Alert" ELSE Model(n, Parent(n, i))
        /\ Above(n, i) = {i} \cup Above(n, Parent(n, i))
    BY <1>1, <2>2, DocumentIsTyped, AboveIs
  <2> HIDE DEF Missing, Has
  <2>4. PICK l \in answer.fields \ {"info"} : Loader[l] = Model(n, i)
    BY <2>2, <2>3
  <2>5. l \in {"infos", "parameters", "areas", "polygons", "circles", "geocodes"}
    BY <1>2 DEF Loader
  <2>6. CASE Parent(n, i) = 0
    <3>1. Model(n, i) \in Created \cup Queued
      BY <1>1, <2>2, DocumentIsTyped
    <3>2. Model(n, i) = "AlertInfo"
      BY <2>3, <2>6, <3>1 DEF Owner, Created, Queued
    <3>3. l = "infos"
      BY <2>4, <2>5, <3>2 DEF Loader
    <3>4. <<n, 0>> \in AskedOf(l)
      BY <3>3 DEF AskedOf
    <3> QED BY <1>3, <2>2, <2>4, <2>6, <3>4
  <2>7. CASE Parent(n, i) # 0
    <3> DEFINE p == Parent(n, i)
    <3>1. p \in 1 .. Size(n) /\ p < i /\ p \in Int /\ i \in Int
      BY <1>1, <2>2, <2>3, <2>7
    <3>2. Selected(p)
      BY <2>2, <2>3
    <3>3. p \notin Missing
      BY <2>1, <3>1
    <3>4. Has(p)
      BY <3>1, <3>2, <3>3 DEF Missing
    <3>5. PICK k \in answer.fields \ {"info"} :
            Loader[k] = Model(n, p) /\ <<k, <<n, p>>>> \in answer.got
      BY <3>4 DEF Has
    <3>6. k \in {"infos", "parameters", "areas", "polygons", "circles", "geocodes"}
      BY <1>2 DEF Loader
    <3>7. Owner[Loader[l]] = Loader[k]
      BY <2>3, <2>4, <2>7, <3>5
    <3>8. \/ l \in {"parameters", "areas"} /\ k = "infos"
          \/ l \in {"polygons", "circles", "geocodes"} /\ k = "areas"
      BY <2>5, <3>6, <3>7 DEF Owner, Loader
    <3>9. /\ k = "infos" => <<n, p>> \in Got({"info", "infos"})
          /\ k = "areas" => <<n, p>> \in Got({"areas"})
      BY <3>5 DEF Got
    <3>10. <<n, p>> \in AskedOf(l)
      BY <3>8, <3>9 DEF AskedOf
    <3> QED BY <1>3, <2>2, <2>4, <3>10
  <2> QED BY <2>6, <2>7
<1>5. Selected(e)
  OBVIOUS
<1>6. Has(e)
  BY <1>4, <1>5
<1> QED BY <1>2, <1>6 DEF Got

\* An answer about ingested alerts is whole, however deep the document, and its info
\* is the first, for every selection of fields and every interleaving of its queries
\* with the workers.
THEOREM AnswersAreComplete == AnswersSpec => []AnswersComplete
<1>1. AnswersInv => InfoIsFirst
  <2> SUFFICES ASSUME AnswersInv, NEW r \in Got({"info"}), NEW s \in Got({"infos"}),
                      r[1] = s[1], r[1] \notin pruned
               PROVE  r[2] =< s[2]
    BY DEF InfoIsFirst
  <2>1. AnswersForm /\ AnswerHolds
    BY DEF AnswersInv
  <2>2. <<"info", r>> \in answer.got /\ <<"infos", s>> \in answer.got
    <3>1. \A g \in answer.got : g = <<g[1], g[2]>>
      BY <2>1 DEF AnswersForm
    <3>2. PICK g \in answer.got : g[1] = "info" /\ g[2] = r
      BY DEF Got
    <3>3. PICK h \in answer.got : h[1] = "infos" /\ h[2] = s
      BY DEF Got
    <3> QED BY <3>1, <3>2, <3>3
  <2>3. r \in Key /\ s \in Key
    BY <2>1, <2>2 DEF AnswersForm
  <2>4. /\ r = <<r[1], r[2]>> /\ s = <<s[1], s[2]>> /\ r[1] \in AlertDoc
        /\ r[2] \in Nat /\ s[2] \in Nat
    BY <2>3, KeyIs, DocumentIsTyped
  <2>5. \A j \in 1 .. r[2] - 1 : Model(r[1], j) # "AlertInfo"
    BY <2>1, <2>2, <2>4 DEF AnswerHolds, Loader
  <2>6. s[2] >= 1 /\ Model(r[1], s[2]) = "AlertInfo"
    <3>1. s[2] \in 1 .. Size(s[1]) /\ Model(s[1], s[2]) = Loader["infos"]
      BY <2>1, <2>2, <2>4 DEF AnswerHolds, Loader
    <3> QED BY <2>4, <3>1 DEF Loader
  <2> QED BY <2>4, <2>5, <2>6
<1>2. AnswersInv => AnswersComplete
  BY <1>1, WholeIsAnswered DEF AnswersComplete
<1> QED BY <1>2, AnswersInvHolds, PTL

--------------------------------------------------------------------------------

(* AlertQueries.  Rows and Total are recursive functions over the alerts; what they
   return is proved by induction, for the numbers up to LastPk. *)

\* s has the sums of f, as far as k.
Sums(f, k, s) ==
  /\ s \in [0 .. k -> Nat] /\ s[0] = 0
  /\ \A j \in 1 .. k : s[j] = f[j] + s[j - 1]

\* The sums that Total takes by recursion exist.
LEMMA SumsExist ==
  ASSUME NEW f \in [Alerts -> Nat]
  PROVE  \E s : Sums(f, LastPk, s)
<1> DEFINE G == {k \in 0 .. LastPk : \E s : Sums(f, k, s)}
<1>1. LastPk \in Nat
  BY QueriesAssumption
<1>2. 0 \in G
  <2>1. Sums(f, 0, [j \in 0 .. 0 |-> 0])
    BY DEF Sums
  <2> QED BY <1>1, <2>1
<1>3. ASSUME NEW k \in 1 .. LastPk, k - 1 \in G PROVE k \in G
  <2>1. PICK s : Sums(f, k - 1, s)
    BY <1>3
  <2> DEFINE t == [j \in 0 .. k |-> IF j = k THEN f[k] + s[k - 1] ELSE s[j]]
  <2>2. f[k] \in Nat /\ k \in Nat /\ k - 1 \in 0 .. k - 1
    BY DEF Alerts
  <2>3. s \in [0 .. k - 1 -> Nat] /\ s[0] = 0 /\ \A j \in 1 .. k - 1 : s[j] = f[j] + s[j - 1]
    BY <2>1 DEF Sums
  <2>4. s[k - 1] \in Nat
    BY <2>2, <2>3
  <2>5. t[k] = f[k] + s[k - 1] /\ \A j \in 0 .. k - 1 : t[j] = s[j]
    BY <2>2
  <2>6. t \in [0 .. k -> Nat]
    BY <2>2, <2>3, <2>4
  <2> HIDE DEF t
  <2>7. t[0] = 0
    BY <2>2, <2>3, <2>5
  <2>8. ASSUME NEW j \in 1 .. k PROVE t[j] = f[j] + t[j - 1]
    <3>1. j - 1 \in 0 .. k - 1 /\ (j = k \/ j \in 1 .. k - 1)
      BY <2>2
    <3> QED BY <2>2, <2>3, <2>5, <3>1
  <2>9. Sums(f, k, t)
    BY <2>6, <2>7, <2>8 DEF Sums
  <2> QED BY <2>9
<1> HIDE DEF G
<1>4. 0 .. LastPk \subseteq G
  BY <1>1, <1>2, <1>3, UpTo
<1>5. LastPk \in G
  BY <1>1, <1>4
<1> QED BY <1>5 DEF G

\* Total is the last of them.
LEMMA TotalIs ==
  ASSUME NEW f \in [Alerts -> Nat]
  PROVE  \E s : Sums(f, LastPk, s) /\ Total(f) = s[LastPk]
<1> DEFINE Is(s) == s = [n \in 0 .. LastPk |-> IF n = 0 THEN 0 ELSE f[n] + s[n - 1]]
           up == CHOOSE s : Is(s)
<1>1. LastPk \in Nat
  BY QueriesAssumption
<1>2. PICK s : Sums(f, LastPk, s)
  BY SumsExist
<1>3. Is(s)
  <2>1. s = [n \in 0 .. LastPk |-> s[n]]
    BY <1>2 DEF Sums
  <2>2. ASSUME NEW n \in 0 .. LastPk PROVE s[n] = IF n = 0 THEN 0 ELSE f[n] + s[n - 1]
    BY <1>1, <1>2 DEF Sums
  <2> QED BY <2>1, <2>2
<1>4. Total(f) = up[LastPk]
  BY DEF Total
<1> HIDE DEF Is
<1>5. Is(up)
  BY <1>3, Zenon
<1> HIDE DEF up
<1>6. /\ up = [n \in 0 .. LastPk |-> up[n]]
      /\ \A n \in 0 .. LastPk : up[n] = IF n = 0 THEN 0 ELSE f[n] + up[n - 1]
  <2>1. up = [n \in 0 .. LastPk |-> IF n = 0 THEN 0 ELSE f[n] + up[n - 1]]
    BY <1>5 DEF Is
  <2>2. \A n \in 0 .. LastPk : up[n] = IF n = 0 THEN 0 ELSE f[n] + up[n - 1]
    BY <2>1, Zenon
  <2> QED BY <2>1, <2>2
<1>7. up[0] = 0
  <2>1. 0 \in 0 .. LastPk
    BY <1>1
  <2>2. up[0] = IF 0 = 0 THEN 0 ELSE f[0] + up[0 - 1]
    BY <1>6, <2>1
  <2> QED BY <2>2
<1>8. ASSUME NEW n \in 1 .. LastPk PROVE up[n] = f[n] + up[n - 1]
  <2>1. n \in 0 .. LastPk /\ n # 0
    BY <1>1
  <2>2. up[n] = IF n = 0 THEN 0 ELSE f[n] + up[n - 1]
    BY <1>6, <2>1
  <2> QED BY <2>1, <2>2
<1> DEFINE G == {k \in 0 .. LastPk : up[k] \in Nat}
<1>9. 0 \in G
  BY <1>1, <1>7
<1>10. ASSUME NEW k \in 1 .. LastPk, k - 1 \in G PROVE k \in G
  <2>1. f[k] \in Nat /\ up[k - 1] \in Nat
    BY <1>10 DEF Alerts
  <2>2. k \in 0 .. LastPk
    BY <1>1
  <2> QED BY <1>8, <2>1, <2>2
<1> HIDE DEF G
<1>11. 0 .. LastPk \subseteq G
  BY <1>1, <1>9, <1>10, UpTo
<1>12. Sums(f, LastPk, up)
  <2>1. up \in [0 .. LastPk -> Nat]
    BY <1>6, <1>11 DEF G
  <2> QED BY <1>7, <1>8, <2>1 DEF Sums
<1> QED BY <1>4, <1>12

\* A total of naturals is one.
LEMMA TotalNat ==
  ASSUME NEW f \in [Alerts -> Nat]
  PROVE  Total(f) \in Nat
BY TotalIs, QueriesAssumption DEF Sums

\* A total is within two others if each summand is.
LEMMA TotalSum ==
  ASSUME NEW f \in [Alerts -> Nat], NEW g \in [Alerts -> Nat], NEW h \in [Alerts -> Nat],
         \A n \in Alerts : f[n] =< g[n] + h[n]
  PROVE  Total(f) =< Total(g) + Total(h)
<1>1. PICK s : Sums(f, LastPk, s) /\ Total(f) = s[LastPk]
  BY TotalIs
<1>2. PICK t : Sums(g, LastPk, t) /\ Total(g) = t[LastPk]
  BY TotalIs
<1>3. PICK u : Sums(h, LastPk, u) /\ Total(h) = u[LastPk]
  BY TotalIs
<1>4. LastPk \in Nat /\ LastPk \in 0 .. LastPk
  BY QueriesAssumption
<1> DEFINE G == {k \in 0 .. LastPk : s[k] =< t[k] + u[k]}
<1>5. 0 \in G
  BY <1>1, <1>2, <1>3, <1>4 DEF Sums
<1>6. ASSUME NEW k \in 1 .. LastPk, k - 1 \in G PROVE k \in G
  <2>1. k \in 0 .. LastPk /\ k - 1 \in 0 .. LastPk /\ k \in Alerts
    BY <1>4 DEF Alerts
  <2>2. /\ s[k] = f[k] + s[k - 1] /\ t[k] = g[k] + t[k - 1] /\ u[k] = h[k] + u[k - 1]
        /\ s[k - 1] \in Nat /\ t[k - 1] \in Nat /\ u[k - 1] \in Nat
    BY <1>1, <1>2, <1>3, <2>1 DEF Sums
  <2>3. f[k] \in Nat /\ g[k] \in Nat /\ h[k] \in Nat /\ f[k] =< g[k] + h[k]
    BY <2>1
  <2>4. s[k - 1] =< t[k - 1] + u[k - 1]
    BY <1>6
  <2>5. s[k] =< t[k] + u[k]
    BY <2>2, <2>3, <2>4
  <2> QED BY <2>1, <2>5
<1> HIDE DEF G
<1>7. LastPk \in G
  BY <1>4, <1>5, <1>6, UpTo
<1> QED BY <1>1, <1>2, <1>3, <1>7 DEF G

\* A total is smaller if one summand is and none is larger.
LEMMA TotalLess ==
  ASSUME NEW f \in [Alerts -> Nat], NEW g \in [Alerts -> Nat],
         \A n \in Alerts : f[n] =< g[n], NEW m \in Alerts, f[m] < g[m]
  PROVE  Total(f) < Total(g)
<1>1. PICK s : Sums(f, LastPk, s) /\ Total(f) = s[LastPk]
  BY TotalIs
<1>2. PICK t : Sums(g, LastPk, t) /\ Total(g) = t[LastPk]
  BY TotalIs
<1>4. LastPk \in Nat /\ LastPk \in 0 .. LastPk /\ m \in 1 .. LastPk
  BY QueriesAssumption DEF Alerts
<1> DEFINE G == {k \in 0 .. LastPk : s[k] =< t[k] /\ (k >= m => s[k] < t[k])}
<1>5. 0 \in G
  BY <1>1, <1>2, <1>4 DEF Sums
<1>6. ASSUME NEW k \in 1 .. LastPk, k - 1 \in G PROVE k \in G
  <2>1. k \in 0 .. LastPk /\ k - 1 \in 0 .. LastPk /\ k \in Alerts /\ k \in Int /\ m \in Int
    BY <1>4 DEF Alerts
  <2>2. /\ s[k] = f[k] + s[k - 1] /\ t[k] = g[k] + t[k - 1]
        /\ s[k - 1] \in Nat /\ t[k - 1] \in Nat
    BY <1>1, <1>2, <2>1 DEF Sums
  <2>3. f[k] \in Nat /\ g[k] \in Nat /\ f[k] =< g[k] /\ (k = m => f[k] < g[k])
    BY <2>1
  <2>4. s[k - 1] =< t[k - 1] /\ (k - 1 >= m => s[k - 1] < t[k - 1])
    BY <1>6
  <2>5. s[k] =< t[k] /\ (k >= m => s[k] < t[k])
    BY <2>1, <2>2, <2>3, <2>4
  <2> QED BY <2>1, <2>5
<1> HIDE DEF G
<1>7. LastPk \in G
  BY <1>4, <1>5, <1>6, UpTo
<1>8. LastPk >= m
  BY <1>4
<1> QED BY <1>1, <1>2, <1>7, <1>8 DEF G

\* The total of a characteristic function is the size of its set.
LEMMA TotalCounts ==
  ASSUME NEW X \in SUBSET Alerts
  PROVE  IsFiniteSet(X) /\ Total([n \in Alerts |-> IF n \in X THEN 1 ELSE 0]) = Cardinality(X)
<1> DEFINE f == [n \in Alerts |-> IF n \in X THEN 1 ELSE 0]
<1>1. f \in [Alerts -> Nat]
  OBVIOUS
<1>2. PICK s : Sums(f, LastPk, s) /\ Total(f) = s[LastPk]
  <2> HIDE DEF f
  <2> QED BY <1>1, TotalIs
<1>3. LastPk \in Nat /\ LastPk \in 0 .. LastPk
  BY QueriesAssumption
<1> DEFINE Y(k) == X \cap (1 .. k)
           G == {k \in 0 .. LastPk : IsFiniteSet(Y(k)) /\ s[k] = Cardinality(Y(k))}
<1>4. 0 \in G
  <2>1. Y(0) = {}
    OBVIOUS
  <2>2. s[0] = 0
    BY <1>2 DEF Sums
  <2> QED BY <1>3, <2>1, <2>2, FS_EmptySet
<1>5. ASSUME NEW k \in 1 .. LastPk, k - 1 \in G PROVE k \in G
  <2>1. k \in 0 .. LastPk /\ k \in Alerts /\ k \in Nat
    BY <1>3 DEF Alerts
  <2>2. IsFiniteSet(Y(k - 1)) /\ s[k - 1] = Cardinality(Y(k - 1))
    BY <1>5
  <2>3. s[k] = f[k] + s[k - 1]
    BY <1>2 DEF Sums
  <2>4. CASE k \in X
    <3>1. Y(k) = Y(k - 1) \cup {k} /\ k \notin Y(k - 1)
      BY <2>1, <2>4
    <3>2. f[k] = 1
      BY <2>1, <2>4
    <3> HIDE DEF Y, f
    <3>3. IsFiniteSet(Y(k)) /\ Cardinality(Y(k)) = Cardinality(Y(k - 1)) + 1
      BY <2>2, <3>1, FS_AddElement
    <3>4. Cardinality(Y(k - 1)) \in Nat
      BY <2>2, FS_CardinalityType
    <3> QED BY <2>1, <2>2, <2>3, <3>2, <3>3, <3>4
  <2>5. CASE k \notin X
    <3>1. Y(k) = Y(k - 1)
      BY <2>1, <2>5
    <3>2. f[k] = 0
      BY <2>1, <2>5
    <3> HIDE DEF Y, f
    <3>4. Cardinality(Y(k - 1)) \in Nat
      BY <2>2, FS_CardinalityType
    <3> QED BY <2>1, <2>2, <2>3, <3>1, <3>2, <3>4
  <2> QED BY <2>4, <2>5
<1>6. X = Y(LastPk)
  BY DEF Alerts
<1> HIDE DEF G, Y, f
<1>7. LastPk \in G
  BY <1>3, <1>4, <1>5, UpTo
<1> QED BY <1>2, <1>6, <1>7 DEF G, f

--------------------------------------------------------------------------------
\* r has the rows of the alerts up to k, in their order.
Reads(c, k, r) ==
  /\ r \in [0 .. k -> Seq(Alerts)] /\ r[0] = <<>>
  /\ \A j \in 1 .. k : r[j] = [i \in 1 .. c[j] |-> j] \o r[j - 1]

\* The rows of one alert.
LEMMA CopiesOf ==
  ASSUME NEW n \in Nat, NEW S, NEW x \in S
  PROVE  [i \in 1 .. n |-> x] \in Seq(S) /\ Len([i \in 1 .. n |-> x]) = n
OBVIOUS

\* The sequences that Rows builds by recursion exist.
LEMMA ReadsExist ==
  ASSUME NEW c \in [Alerts -> Nat]
  PROVE  \E r : Reads(c, LastPk, r)
<1> DEFINE G == {k \in 0 .. LastPk : \E r : Reads(c, k, r)}
<1>1. LastPk \in Nat
  BY QueriesAssumption
<1>2. 0 \in G
  <2>1. <<>> \in Seq(Alerts)
    OBVIOUS
  <2>2. Reads(c, 0, [j \in 0 .. 0 |-> <<>>])
    BY <2>1 DEF Reads
  <2> QED BY <1>1, <2>2
<1>3. ASSUME NEW k \in 1 .. LastPk, k - 1 \in G PROVE k \in G
  <2>1. PICK r : Reads(c, k - 1, r)
    BY <1>3
  <2> DEFINE own == [i \in 1 .. c[k] |-> k]
             t == [j \in 0 .. k |-> IF j = k THEN own \o r[k - 1] ELSE r[j]]
  <2>2. c[k] \in Nat /\ k \in Nat /\ k - 1 \in 0 .. k - 1 /\ k \in Alerts
    BY DEF Alerts
  <2>3. r \in [0 .. k - 1 -> Seq(Alerts)] /\ r[0] = <<>>
        /\ \A j \in 1 .. k - 1 : r[j] = [i \in 1 .. c[j] |-> j] \o r[j - 1]
    BY <2>1 DEF Reads
  <2>4. own \in Seq(Alerts) /\ r[k - 1] \in Seq(Alerts)
    <3>1. own \in Seq(Alerts)
      BY <2>2, CopiesOf
    <3> HIDE DEF own
    <3>2. r[k - 1] \in Seq(Alerts)
      BY <2>2, <2>3
    <3> QED BY <3>1, <3>2
  <2> HIDE DEF own
  <2>5. own \o r[k - 1] \in Seq(Alerts)
    BY <2>4
  <2>6. t[k] = own \o r[k - 1] /\ \A j \in 0 .. k - 1 : t[j] = r[j]
    BY <2>2
  <2>7. t \in [0 .. k -> Seq(Alerts)]
    <3>1. \A j \in 0 .. k : j = k \/ j \in 0 .. k - 1
      BY <2>2
    <3>2. \A j \in 0 .. k : t[j] \in Seq(Alerts)
      BY <2>3, <2>5, <2>6, <3>1
    <3>3. t = [j \in 0 .. k |-> t[j]]
      OBVIOUS
    <3> HIDE DEF t
    <3> QED BY <3>2, <3>3
  <2> HIDE DEF t
  <2>8. t[0] = <<>>
    BY <2>2, <2>3, <2>6
  <2>9. ASSUME NEW j \in 1 .. k PROVE t[j] = [i \in 1 .. c[j] |-> j] \o t[j - 1]
    <3>1. j - 1 \in 0 .. k - 1 /\ (j = k \/ j \in 1 .. k - 1)
      BY <2>2
    <3>2. t[j - 1] = r[j - 1]
      BY <2>6, <3>1
    <3>3. CASE j = k
      BY <2>6, <3>2, <3>3 DEF own
    <3>4. CASE j \in 1 .. k - 1
      <4>1. t[j] = r[j]
        BY <2>2, <2>6, <3>4
      <4> QED BY <2>3, <3>2, <3>4, <4>1
    <3> QED BY <3>1, <3>3, <3>4
  <2>10. Reads(c, k, t)
    BY <2>7, <2>8, <2>9 DEF Reads
  <2> QED BY <2>10
<1> HIDE DEF G
<1>4. 0 .. LastPk \subseteq G
  BY <1>1, <1>2, <1>3, UpTo
<1>5. LastPk \in G
  BY <1>1, <1>4
<1> QED BY <1>5 DEF G

\* The list is made of these reads.
LEMMA RowsAre ==
  ASSUME NEW q, NEW c \in [Alerts -> Nat],
         \A n \in Alerts : c[n] = Copies(q, n, listing, matched)
  PROVE  \E r : Reads(c, LastPk, r) /\ Rows(q) = r[LastPk]
<1> DEFINE Is(r) == r = [n \in 0 .. LastPk |->
                       IF n = 0 THEN <<>>
                       ELSE [i \in 1 .. Copies(q, n, listing, matched) |-> n] \o r[n - 1]]
           down == CHOOSE r : Is(r)
<1>1. LastPk \in Nat
  BY QueriesAssumption
<1>2. PICK r : Reads(c, LastPk, r)
  BY ReadsExist
<1>3. Is(r)
  <2>1. r = [n \in 0 .. LastPk |-> r[n]]
    BY <1>2 DEF Reads
  <2>2. ASSUME NEW n \in 0 .. LastPk
        PROVE  r[n] = IF n = 0 THEN <<>>
                      ELSE [i \in 1 .. Copies(q, n, listing, matched) |-> n] \o r[n - 1]
    <3>1. CASE n = 0
      BY <1>2, <3>1 DEF Reads
    <3>2. CASE n # 0
      <4>1. n \in 1 .. LastPk /\ n \in Alerts
        BY <1>1, <3>2 DEF Alerts
      <4>2. c[n] = Copies(q, n, listing, matched)
        BY <4>1
      <4>3. r[n] = [i \in 1 .. c[n] |-> n] \o r[n - 1]
        BY <1>2, <4>1 DEF Reads
      <4> QED BY <3>2, <4>2, <4>3
    <3> QED BY <3>1, <3>2
  <2> QED BY <2>1, <2>2, Zenon
<1>4. Rows(q) = down[LastPk]
  BY DEF Rows
<1> HIDE DEF Is
<1>5. Is(down)
  BY <1>3, Zenon
<1> HIDE DEF down
<1>6. down = [n \in 0 .. LastPk |-> down[n]]
      /\ \A n \in 0 .. LastPk : down[n] = IF n = 0 THEN <<>>
            ELSE [i \in 1 .. Copies(q, n, listing, matched) |-> n] \o down[n - 1]
  <2>1. down = [n \in 0 .. LastPk |-> IF n = 0 THEN <<>>
                  ELSE [i \in 1 .. Copies(q, n, listing, matched) |-> n] \o down[n - 1]]
    BY <1>5 DEF Is
  <2>2. \A n \in 0 .. LastPk : down[n] = IF n = 0 THEN <<>>
            ELSE [i \in 1 .. Copies(q, n, listing, matched) |-> n] \o down[n - 1]
    BY <2>1, Zenon
  <2>3. DOMAIN down = 0 .. LastPk
    BY <2>1, Zenon
  <2>4. down = [n \in DOMAIN down |-> down[n]]
    BY <2>1
  <2> QED BY <2>2, <2>3, <2>4
\* Both satisfy the same recursion.
<1> DEFINE G == {k \in 0 .. LastPk : down[k] = r[k]}
<1>7. 0 \in G
  <2>1. 0 \in 0 .. LastPk
    BY <1>1
  <2>2. down[0] = IF 0 = 0 THEN <<>>
            ELSE [i \in 1 .. Copies(q, 0, listing, matched) |-> 0] \o down[0 - 1]
    BY <1>6, <2>1
  <2>3. down[0] = <<>> /\ r[0] = <<>>
    BY <1>2, <2>2 DEF Reads
  <2> QED BY <2>1, <2>3
<1>8. ASSUME NEW k \in 1 .. LastPk, k - 1 \in G PROVE k \in G
  <2>1. k \in 0 .. LastPk /\ k # 0 /\ k \in Alerts
    BY <1>1 DEF Alerts
  <2>2. down[k] = IF k = 0 THEN <<>>
            ELSE [i \in 1 .. Copies(q, k, listing, matched) |-> k] \o down[k - 1]
    BY <1>6, <2>1
  <2>3. down[k] = [i \in 1 .. c[k] |-> k] \o down[k - 1]
    BY <2>1, <2>2
  <2>4. r[k] = [i \in 1 .. c[k] |-> k] \o r[k - 1]
    BY <1>2 DEF Reads
  <2>5. down[k - 1] = r[k - 1]
    BY <1>8
  <2> QED BY <2>1, <2>3, <2>4, <2>5
<1> HIDE DEF G
<1>9. LastPk \in G
  BY <1>1, <1>7, <1>8, UpTo
<1> QED BY <1>2, <1>4, <1>9 DEF G

\* The sum of the copies of the alerts from n on, with the sums of all copies.
LEMMA EndIs ==
  ASSUME NEW c \in [Alerts -> Nat], NEW s, Sums(c, LastPk, s), NEW n \in 1 .. LastPk + 1
  PROVE  End(c, n) = s[LastPk] - s[n - 1] /\ End(c, n) \in Nat
<1> DEFINE f == [k \in Alerts |-> IF k >= n THEN c[k] ELSE 0]
<1>1. f \in [Alerts -> Nat] /\ \A k \in Alerts : f[k] = IF k >= n THEN c[k] ELSE 0
  OBVIOUS
<1>2. End(c, n) = Total(f)
  BY DEF End
<1> HIDE DEF f
<1>3. PICK t : Sums(f, LastPk, t) /\ Total(f) = t[LastPk]
  BY <1>1, TotalIs
<1>4. LastPk \in Nat /\ n \in Nat /\ n - 1 \in 0 .. LastPk /\ LastPk \in 0 .. LastPk
  BY QueriesAssumption
<1> DEFINE G == {k \in 0 .. LastPk : t[k] = IF k < n THEN 0 ELSE s[k] - s[n - 1]}
<1>5. 0 \in G
  BY <1>3, <1>4 DEF Sums
<1>6. ASSUME NEW k \in 1 .. LastPk, k - 1 \in G PROVE k \in G
  <2>1. k \in 0 .. LastPk /\ k \in Alerts /\ k \in Nat /\ k - 1 \in 0 .. LastPk
    BY <1>4 DEF Alerts
  <2>2. /\ s[k] = c[k] + s[k - 1] /\ t[k] = f[k] + t[k - 1]
        /\ s[k - 1] \in Nat /\ t[k - 1] \in Nat /\ s[n - 1] \in Nat
    BY <1>3, <1>4, <2>1 DEF Sums
  <2>3. c[k] \in Nat /\ f[k] = IF k >= n THEN c[k] ELSE 0
    BY <1>1, <2>1
  <2>4. t[k - 1] = IF k - 1 < n THEN 0 ELSE s[k - 1] - s[n - 1]
    BY <1>6
  <2>5. t[k] = IF k < n THEN 0 ELSE s[k] - s[n - 1]
    <3>1. CASE k < n
      BY <1>4, <2>1, <2>2, <2>3, <2>4, <3>1
    <3>2. CASE k = n
      BY <1>4, <2>1, <2>2, <2>3, <2>4, <3>2
    <3>3. CASE k > n
      BY <1>4, <2>1, <2>2, <2>3, <2>4, <3>3
    <3> QED BY <1>4, <2>1, <3>1, <3>2, <3>3
  <2> QED BY <2>1, <2>5
<1> HIDE DEF G
<1>7. t[LastPk] = IF LastPk < n THEN 0 ELSE s[LastPk] - s[n - 1]
  BY <1>4, <1>5, <1>6, UpTo DEF G
<1>8. LastPk < n => n - 1 = LastPk
  BY <1>4
<1>9. t[LastPk] \in Nat /\ s[LastPk] \in Nat
  BY <1>3, <1>4 DEF Sums
<1> QED BY <1>2, <1>3, <1>7, <1>8, <1>9

\* The places of two sequences, one after the other.
LEMMA Joined ==
  ASSUME NEW S, NEW s \in Seq(S), NEW t \in Seq(S)
  PROVE  /\ s \o t \in Seq(S) /\ Len(s \o t) = Len(s) + Len(t)
         /\ Len(s) \in Nat /\ Len(t) \in Nat
         /\ \A i \in 1 .. Len(s) + Len(t) :
              (s \o t)[i] = IF i =< Len(s) THEN s[i] ELSE t[i - Len(s)]
OBVIOUS

\* The rows of an alert are where the sums of the copies have them.
LEMMA ReadsPlaces ==
  ASSUME NEW c \in [Alerts -> Nat], NEW s, Sums(c, LastPk, s), NEW r, Reads(c, LastPk, r)
  PROVE  /\ r[LastPk] \in Seq(Alerts) /\ Len(r[LastPk]) = s[LastPk]
         /\ \A i \in 1 .. s[LastPk] : c[r[LastPk][i]] > 0
         /\ \A n \in Alerts, i \in 1 .. s[LastPk] :
              s[LastPk] - s[n] < i /\ i =< s[LastPk] - s[n - 1] => r[LastPk][i] = n
<1> DEFINE Placed(k) ==
             /\ Len(r[k]) = s[k]
             /\ \A i \in 1 .. s[k] : c[r[k][i]] > 0
             /\ \A n \in 1 .. k, i \in 1 .. s[k] :
                  s[k] - s[n] < i /\ i =< s[k] - s[n - 1] => r[k][i] = n
           G == {k \in 0 .. LastPk : Placed(k)}
<1>1. LastPk \in Nat /\ LastPk \in 0 .. LastPk
  BY QueriesAssumption
<1>2. 0 \in G
  <2>1. r[0] = <<>> /\ s[0] = 0
    BY DEF Reads, Sums
  <2>2. Placed(0)
    BY <2>1
  <2> HIDE DEF Placed
  <2> QED BY <1>1, <2>2
<1>3. ASSUME NEW k \in 1 .. LastPk, k - 1 \in G PROVE k \in G
  <2>1. k \in 0 .. LastPk /\ k - 1 \in 0 .. LastPk /\ k \in Alerts /\ k \in Nat
    BY <1>1 DEF Alerts
  <2> DEFINE own == [i \in 1 .. c[k] |-> k]
             l == s[k - 1]
             t == r[k - 1]
  <2>2. c[k] \in Nat /\ l \in Nat /\ s[k] = c[k] + l /\ s \in [0 .. LastPk -> Nat]
    BY <2>1 DEF Sums
  <2>3. t \in Seq(Alerts) /\ Len(t) = l
    BY <1>3, <2>1 DEF Reads
  <2>4. own \in Seq(Alerts) /\ Len(own) = c[k] /\ \A i \in 1 .. c[k] : own[i] = k
    BY <2>1, <2>2, CopiesOf
  <2>5. r[k] = own \o t
    BY DEF Reads
  <2>6. Placed(k - 1)
    BY <1>3
  <2>7. /\ \A i \in 1 .. l : c[t[i]] > 0
        /\ \A n \in 1 .. k - 1, i \in 1 .. l : l - s[n] < i /\ i =< l - s[n - 1] => t[i] = n
    BY <2>6
  <2> HIDE DEF own, t, l, Placed
  <2>13. /\ Len(own \o t) = Len(own) + Len(t)
         /\ \A i \in 1 .. Len(own) + Len(t) :
              (own \o t)[i] = IF i =< Len(own) THEN own[i] ELSE t[i - Len(own)]
    <3>1. own \in Seq(Alerts) /\ t \in Seq(Alerts)
      BY <2>3, <2>4
    <3> QED BY <3>1, Joined
  <2>8. Len(r[k]) = s[k]
    BY <2>2, <2>3, <2>4, <2>5, <2>13
  <2>9. \A i \in 1 .. s[k] : r[k][i] = IF i =< c[k] THEN k ELSE t[i - c[k]]
    <3>1. \A i \in 1 .. c[k] + l : (own \o t)[i] = IF i =< c[k] THEN own[i] ELSE t[i - c[k]]
      BY <2>3, <2>4, <2>13
    <3>2. \A i \in 1 .. c[k] + l : i =< c[k] => i \in 1 .. c[k]
      BY <2>2
    <3> QED BY <2>2, <2>4, <2>5, <3>1, <3>2
  <2>10. ASSUME NEW i \in 1 .. s[k] PROVE c[r[k][i]] > 0
    <3>1. CASE i =< c[k]
      BY <2>2, <2>9, <3>1
    <3>2. CASE i > c[k]
      <4>1. i - c[k] \in 1 .. l
        BY <2>2, <3>2
      <4>2. r[k][i] = t[i - c[k]]
        BY <2>2, <2>9, <3>2
      <4> QED BY <2>7, <4>1, <4>2
    <3> QED BY <2>2, <3>1, <3>2
  <2>11. ASSUME NEW n \in 1 .. k, NEW i \in 1 .. s[k], s[k] - s[n] < i, i =< s[k] - s[n - 1]
         PROVE  r[k][i] = n
    <3>1. s[n] \in Nat /\ s[n - 1] \in Nat
      BY <1>1, <2>2
    <3>2. CASE n = k
      <4>1. i =< c[k]
        BY <2>2, <2>11, <3>2 DEF l
      <4> QED BY <2>9, <3>2, <4>1
    <3>3. CASE n # k
      <4>1. n \in 1 .. k - 1
        BY <2>1, <3>3
      <4>2. s[n] =< l
        <5>1. s \in [0 .. LastPk -> Nat] /\ \A j \in 1 .. LastPk : s[j] = c[j] + s[j - 1] /\ c[j] \in Nat
          BY DEF Sums, Alerts
        <5> DEFINE H == {j \in 0 .. k - 1 - n : s[n] =< s[n + j]}
        <5>2. 0 \in H
          BY <2>1, <3>1, <4>1
        <5>3. ASSUME NEW j \in 1 .. k - 1 - n, j - 1 \in H PROVE j \in H
          <6>1. n + j \in 1 .. LastPk /\ n + (j - 1) = (n + j) - 1 /\ n + j - 1 \in 0 .. LastPk
            BY <1>1, <2>1, <4>1
          <6>2. s[n + j] = c[n + j] + s[n + j - 1] /\ c[n + j] \in Nat /\ s[n + j - 1] \in Nat
            BY <5>1, <6>1
          <6>3. s[n] =< s[n + (j - 1)]
            BY <5>3
          <6>4. s[n] =< s[n + j]
            BY <3>1, <6>1, <6>2, <6>3
          <6>5. j \in 0 .. k - 1 - n
            BY <2>1, <4>1
          <6> QED BY <6>4, <6>5
        <5> HIDE DEF H
        <5>4. k - 1 - n \in Nat /\ k - 1 - n \in 0 .. k - 1 - n
          BY <2>1, <4>1
        <5>5. k - 1 - n \in H
          BY <5>2, <5>3, <5>4, UpTo
        <5>6. n + (k - 1 - n) = k - 1
          BY <2>1, <4>1
        <5> QED BY <5>5, <5>6 DEF H, l
      <4>3. i > c[k] /\ i - c[k] \in 1 .. l
        BY <2>2, <2>11, <3>1, <4>2
      <4>4. l - s[n] < i - c[k] /\ i - c[k] =< l - s[n - 1]
        BY <2>2, <2>11, <3>1, <4>3
      <4>5. t[i - c[k]] = n
        BY <2>7, <4>1, <4>3, <4>4
      <4>6. ~(i =< c[k])
        BY <2>2, <4>3
      <4> QED BY <2>9, <4>5, <4>6
    <3> QED BY <3>2, <3>3
  <2>12. Placed(k)
    BY <2>8, <2>10, <2>11 DEF Placed
  <2> QED BY <2>1, <2>12
<1> HIDE DEF G, Placed
<1>4. Placed(LastPk)
  BY <1>1, <1>2, <1>3, UpTo DEF G
<1>5. r[LastPk] \in Seq(Alerts)
  BY <1>1 DEF Reads
<1> QED BY <1>4, <1>5 DEF Placed, Alerts

\* The list of a query, by its positions.
LEMMA ListIs ==
  ASSUME NEW q, NEW c \in [Alerts -> Nat],
         \A n \in Alerts : c[n] = Copies(q, n, listing, matched)
  PROVE  /\ Rows(q) \in Seq(Alerts) /\ Len(Rows(q)) = End(c, 1)
         /\ \A i \in 1 .. Len(Rows(q)) : c[Rows(q)[i]] > 0
         /\ \A n \in Alerts : c[n] > 0 =>
              End(c, n) \in 1 .. Len(Rows(q)) /\ Rows(q)[End(c, n)] = n
<1>1. PICK r : Reads(c, LastPk, r) /\ Rows(q) = r[LastPk]
  BY RowsAre
<1>2. PICK s : Sums(c, LastPk, s)
  BY SumsExist
<1>3. LastPk \in Nat /\ 1 \in 1 .. LastPk + 1
  BY QueriesAssumption
<1>4. Rows(q) \in Seq(Alerts) /\ Len(Rows(q)) = s[LastPk]
  BY <1>1, <1>2, ReadsPlaces
<1>5. s[0] = 0 /\ s[LastPk] \in Nat
  BY <1>2, <1>3 DEF Sums
<1>6. End(c, 1) = s[LastPk]
  <2>1. End(c, 1) = s[LastPk] - s[1 - 1]
    BY <1>2, <1>3, EndIs
  <2> QED BY <1>5, <2>1
<1>7. \A i \in 1 .. s[LastPk] : c[Rows(q)[i]] > 0
  BY <1>1, <1>2, ReadsPlaces
<1>8. ASSUME NEW n \in Alerts, c[n] > 0
      PROVE  End(c, n) \in 1 .. s[LastPk] /\ Rows(q)[End(c, n)] = n
  <2>1. n \in 1 .. LastPk + 1 /\ n \in 1 .. LastPk /\ n - 1 \in 0 .. LastPk
    BY <1>3 DEF Alerts
  <2>2. End(c, n) = s[LastPk] - s[n - 1] /\ End(c, n) \in Nat
    BY <1>2, <2>1, EndIs
  <2>3. s[n] = c[n] + s[n - 1] /\ c[n] \in Nat /\ s[n - 1] \in Nat
    BY <1>2, <2>1 DEF Sums
  <2>4. n + 1 \in 1 .. LastPk + 1 /\ (n + 1) - 1 = n
    BY <1>3, <2>1
  <2>5. End(c, n + 1) = s[LastPk] - s[n] /\ End(c, n + 1) \in Nat
    <3>1. End(c, n + 1) = s[LastPk] - s[(n + 1) - 1] /\ End(c, n + 1) \in Nat
      BY <1>2, <2>4, EndIs
    <3> QED BY <2>4, <3>1
  <2>6. s[LastPk] - s[n] < End(c, n) /\ End(c, n) =< s[LastPk] - s[n - 1]
    BY <1>5, <1>8, <2>2, <2>3
  <2>7. End(c, n) \in 1 .. s[LastPk]
    BY <1>5, <1>8, <2>2, <2>3, <2>5
  <2>8. r[LastPk][End(c, n)] = n
    BY <1>1, <1>2, <2>6, <2>7, ReadsPlaces
  <2> QED BY <1>1, <2>7, <2>8
<1> QED BY <1>4, <1>6, <1>7, <1>8

\* A row is before those of older alerts.
LEMMA EndsOrder ==
  ASSUME NEW c \in [Alerts -> Nat], NEW n \in Alerts, NEW m \in Alerts, n < m, c[n] > 0
  PROVE  End(c, m) < End(c, n) /\ End(c, m) \in Nat /\ End(c, n) \in Nat
<1> DEFINE f(h) == [k \in Alerts |-> IF k >= h THEN c[k] ELSE 0]
<1>1. f(n) \in [Alerts -> Nat] /\ f(m) \in [Alerts -> Nat]
  OBVIOUS
<1>2. \A k \in Alerts : f(m)[k] =< f(n)[k]
  BY DEF Alerts
<1>3. f(m)[n] < f(n)[n]
  BY DEF Alerts
<1>4. End(c, m) = Total(f(m)) /\ End(c, n) = Total(f(n))
  BY DEF End
<1> HIDE DEF f
<1>5. Total(f(m)) < Total(f(n))
  BY <1>1, <1>2, <1>3, TotalLess
<1> QED BY <1>1, <1>4, <1>5, TotalNat

\* What the list loses before a row moves it by no more.
LEMMA EndsMove ==
  ASSUME NEW c \in [Alerts -> Nat], NEW d \in [Alerts -> Nat], NEW lost \in [Alerts -> Nat],
         \A k \in Alerts : c[k] =< d[k] + lost[k], NEW n \in Alerts
  PROVE  End(c, n) =< End(d, n) + Total(lost) /\ End(d, n) \in Nat /\ End(c, n) \in Nat
<1> DEFINE f(h) == [k \in Alerts |-> IF k >= n THEN h[k] ELSE 0]
<1>1. f(c) \in [Alerts -> Nat] /\ f(d) \in [Alerts -> Nat]
  OBVIOUS
<1>2. \A k \in Alerts : f(c)[k] =< f(d)[k] + lost[k]
  <2>1. \A k \in Alerts : lost[k] \in Nat /\ c[k] \in Nat /\ d[k] \in Nat
    OBVIOUS
  <2> QED BY <2>1
<1>3. End(c, n) = Total(f(c)) /\ End(d, n) = Total(f(d))
  BY DEF End
<1> HIDE DEF f
<1>4. Total(f(c)) =< Total(f(d)) + Total(lost)
  BY <1>1, <1>2, TotalSum
<1> QED BY <1>1, <1>3, <1>4, TotalNat

\* The rows that the reader has passed grow by no more than the list loses.
LEMMA PassedGrows ==
  ASSUME NEW c \in [Alerts -> Nat], NEW d \in [Alerts -> Nat], NEW lost \in [Alerts -> Nat],
         \A k \in Alerts : c[k] =< d[k] + lost[k], NEW o \in Nat,
         NEW S \in SUBSET Alerts, NEW T \in SUBSET S, \A n \in S : c[n] > 0
  PROVE  Cardinality({n \in T : End(d, n) =< o})
           =< Cardinality({n \in S : End(c, n) =< o}) + Total(lost)
<1> DEFINE Old == {n \in S : End(c, n) =< o}
           New == {n \in T : End(d, n) =< o} \ Old
           L == Total(lost)
           I == o + 1 .. o + L
           f == [n \in New |-> End(c, n)]
<1>1. L \in Nat
  BY TotalNat
<1>2. IsFiniteSet(Old) /\ IsFiniteSet(New) /\ IsFiniteSet({n \in T : End(d, n) =< o})
  <2>1. \A X \in SUBSET Alerts : IsFiniteSet(X)
    BY TotalCounts
  <2>2. Old \in SUBSET Alerts /\ New \in SUBSET Alerts /\ {n \in T : End(d, n) =< o} \in SUBSET Alerts
    OBVIOUS
  <2> QED BY <2>1, <2>2
<1>3. ASSUME NEW n \in New PROVE End(c, n) \in I
  <2>1. n \in Alerts /\ End(d, n) =< o /\ ~(End(c, n) =< o)
    OBVIOUS
  <2>2. End(c, n) =< End(d, n) + L /\ End(d, n) \in Nat /\ End(c, n) \in Nat
    BY <2>1, EndsMove
  <2> HIDE DEF New, L
  <2> QED BY <1>1, <2>1, <2>2
<1>4. ASSUME NEW n \in New, NEW m \in New, End(c, n) = End(c, m) PROVE n = m
  <2>1. n \in Alerts /\ m \in Alerts /\ c[n] > 0 /\ c[m] > 0
    OBVIOUS
  <2>2. n \in Int /\ m \in Int
    BY <2>1 DEF Alerts
  <2> HIDE DEF New
  <2>3. ~(n < m) /\ ~(m < n)
    BY <1>4, <2>1, EndsOrder
  <2> QED BY <2>2, <2>3
<1>5. f \in Injection(New, I)
  <2>1. \A n \in New : f[n] = End(c, n)
    OBVIOUS
  <2>2. f \in [New -> I]
    <3> HIDE DEF New, I
    <3> QED BY <1>3
  <2> HIDE DEF New, I, f
  <2>3. \A n, m \in New : f[n] = f[m] => n = m
    BY <1>4, <2>1
  <2> QED BY <2>2, <2>3 DEF Injection, IsInjective
<1>6. IsFiniteSet(I) /\ Cardinality(I) = L
  <2> HIDE DEF L
  <2>1. o + 1 \in Int /\ o + L \in Int /\ (o + 1 > o + L => L = 0)
    BY <1>1
  <2>2. IsFiniteSet(I) /\ Cardinality(I) = IF o + 1 > o + L THEN 0 ELSE (o + L) - (o + 1) + 1
    BY <2>1, FS_Interval
  <2> QED BY <1>1, <2>1, <2>2
<1> HIDE DEF I, f, New, Old, L
<1>7. Cardinality(New) =< Cardinality(I)
  BY <1>2, <1>5, <1>6, FS_Injection
<1>8. {n \in T : End(d, n) =< o} \subseteq Old \cup New
  BY DEF New
<1>9. /\ IsFiniteSet(Old \cup New)
      /\ Cardinality(Old \cup New) = Cardinality(Old) + Cardinality(New) - Cardinality(Old \cap New)
  BY <1>2, FS_Union
<1>10. Cardinality(Old \cap New) = 0
  <2>1. Old \cap New = {}
    BY DEF New
  <2> QED BY <2>1, FS_EmptySet
<1>11. Cardinality({n \in T : End(d, n) =< o}) =< Cardinality(Old \cup New)
  BY <1>8, <1>9, FS_Subset
<1>12. /\ Cardinality(Old) \in Nat /\ Cardinality(New) \in Nat
       /\ Cardinality({n \in T : End(d, n) =< o}) \in Nat
  BY <1>2, FS_CardinalityType
<1>13. Cardinality({n \in T : End(d, n) =< o}) =< Cardinality(Old) + L
  <2> DEFINE X == Cardinality({n \in T : End(d, n) =< o})
  <2> HIDE DEF X
  <2>1. X =< Cardinality(Old \cup New) /\ X \in Nat
    BY <1>11, <1>12 DEF X
  <2>2. X =< Cardinality(Old) + L
    BY <1>1, <1>6, <1>7, <1>9, <1>10, <1>12, <2>1
  <2> QED BY <2>2 DEF X
<1> QED BY <1>13 DEF Old, L

ShownAlert == {"active", "expired"}

\* What a change of the tables keeps of their own properties.
TablesMoved ==
  /\ listing \in [Alerts -> {"absent", "active", "expired", "gone"}]
  /\ \A n \in Alerts : matched[n] \in 0 .. MatchingInfos[n]
  /\ matched \in [Alerts -> Nat]
  /\ located \subseteq {p \in Alerts \X placeRows : listing[p[1]] \in {"active", "expired"}}
  /\ feedRows \subseteq Feeds /\ placeRows \subseteq Places
  /\ \A n \in Alerts : listing[n] \in {"active", "expired"} => FeedOfAlert[n] \in feedRows

TableStep ==
  \/ \E n \in Alerts : IngestAlert(n) \/ IngestInfo(n) \/ IngestPlaces(n) \/ ExpireAlert(n)
  \/ \E f \in Feeds : RemoveFeed(f)
  \/ \E d \in Places : RemovePlace(d)

\* Every change of the tables keeps what they are like, and the history watches it; one
\* that deletes nothing takes no feed and no pair away.
LEMMA TablesKeep ==
  ASSUME TablesMoved, TableStep
  PROVE  /\ TablesMoved' /\ Watch
         /\ ~removed' => ~removed /\ feedRows' = feedRows /\ located \subseteq located'
<1> USE DEF TablesMoved
<1>1. ASSUME NEW n \in Alerts, IngestAlert(n) PROVE TablesMoved' /\ Watch /\ removed' = removed
         /\ feedRows' = feedRows /\ located \subseteq located'
  BY <1>1 DEF IngestAlert
<1>2. ASSUME NEW n \in Alerts, IngestInfo(n) PROVE TablesMoved' /\ Watch /\ removed' = removed
         /\ feedRows' = feedRows /\ located \subseteq located'
  <2>1. matched[n] + 1 \in 0 .. MatchingInfos[n]
    <3>1. matched[n] < MatchingInfos[n] /\ matched[n] \in Nat /\ MatchingInfos[n] \in Nat
      BY <1>2, QueriesAssumption DEF IngestInfo
    <3> QED BY <3>1
  <2>2. matched' = [matched EXCEPT ![n] = matched[n] + 1]
    BY <1>2 DEF IngestInfo
  <2>3. matched' \in [Alerts -> Nat] /\ \A k \in Alerts : matched'[k] \in 0 .. MatchingInfos[k]
    BY <2>1, <2>2, QueriesAssumption
  <2> QED BY <1>2, <2>3 DEF IngestInfo
<1>3. ASSUME NEW n \in Alerts, IngestPlaces(n) PROVE TablesMoved' /\ Watch /\ removed' = removed
         /\ feedRows' = feedRows /\ located \subseteq located'
  BY <1>3 DEF IngestPlaces
<1>4. ASSUME NEW n \in Alerts, ExpireAlert(n) PROVE TablesMoved' /\ Watch /\ removed' = removed
         /\ feedRows' = feedRows /\ located \subseteq located'
  BY <1>4 DEF ExpireAlert
<1>5. ASSUME NEW f \in Feeds, RemoveFeed(f) PROVE TablesMoved' /\ Watch /\ removed'
  <2>1. /\ listing' \in [Alerts -> {"absent", "active", "expired", "gone"}]
        /\ \A n \in Alerts : listing'[n] \in {"active", "expired"} =>
             listing[n] = listing'[n] /\ FeedOfAlert[n] # f
        /\ \A n \in Alerts : FeedOfAlert[n] # f => listing'[n] = listing[n]
    BY <1>5 DEF RemoveFeed
  <2>2. matched' \in [Alerts -> Nat] /\ \A n \in Alerts : matched'[n] \in 0 .. MatchingInfos[n]
    <3>1. \A n \in Alerts : matched'[n] = IF FeedOfAlert[n] = f THEN 0 ELSE matched[n]
      BY <1>5 DEF RemoveFeed
    <3>2. \A n \in Alerts : 0 \in 0 .. MatchingInfos[n]
      BY QueriesAssumption
    <3>3. matched' = [n \in Alerts |-> matched'[n]]
      BY <1>5 DEF RemoveFeed
    <3> QED BY <3>1, <3>2, <3>3
  <2>3. /\ located' = {p \in located : FeedOfAlert[p[1]] # f} /\ feedRows' = feedRows \ {f}
        /\ placeRows' = placeRows /\ removed' = TRUE /\ Watch
    BY <1>5 DEF RemoveFeed
  <2>4. located' \subseteq {p \in Alerts \X placeRows' : listing'[p[1]] \in {"active", "expired"}}
    BY <2>1, <2>3
  <2>5. \A n \in Alerts : listing'[n] \in {"active", "expired"} => FeedOfAlert[n] \in feedRows'
    BY <2>1, <2>3
  <2> QED BY <2>1, <2>2, <2>3, <2>4, <2>5
<1>6. ASSUME NEW d \in Places, RemovePlace(d) PROVE TablesMoved' /\ Watch /\ removed'
  BY <1>6 DEF RemovePlace
<1> QED BY <1>1, <1>2, <1>3, <1>4, <1>5, <1>6 DEF TableStep

\* A list has a natural number of rows of an alert.
LEMMA CopiesAreNat ==
  ASSUME NEW q, NEW status, NEW infos \in [Alerts -> Nat], NEW n \in Alerts
  PROVE  Copies(q, n, status, infos) \in Nat
<1>1. infos[n] \in Nat
  OBVIOUS
<1>2. CASE status[n] \notin Listed(q)
  BY <1>2 DEF Copies
<1>3. CASE status[n] \in Listed(q) /\ q.filtered /\ ~q.distinct
  BY <1>1, <1>3 DEF Copies
<1>4. CASE status[n] \in Listed(q) /\ ~(q.filtered /\ ~q.distinct)
  BY <1>4 DEF Copies
<1> QED BY <1>2, <1>3, <1>4

\* A row of the list is shown.
LEMMA RowsAreShown ==
  ASSUME NEW q, NEW status, NEW infos \in [Alerts -> Nat], NEW n \in Alerts,
         Copies(q, n, status, infos) > 0
  PROVE  status[n] \in {"active", "expired"} /\ status[n] \in Listed(q)
<1>1. status[n] \in Listed(q)
  BY DEF Copies
<1> QED BY <1>1 DEF Listed

\* A page of the list.
LEMMA PageIs ==
  ASSUME NEW rows \in Seq(Alerts), NEW o \in Nat, NEW l \in Nat
  PROVE  LET shown == Page(rows, o, l) IN
         /\ shown \in Seq(Alerts) /\ Len(shown) =< l
         /\ \A i \in DOMAIN shown : o + i \in 1 .. Len(rows) /\ shown[i] = rows[o + i]
         /\ \A k \in 1 .. Len(rows) : o < k /\ k =< o + l =>
              k - o \in DOMAIN shown /\ shown[k - o] = rows[k]
         /\ Len(shown) # l => Len(rows) < o + l
<1> DEFINE stop == IF o + l < Len(rows) THEN o + l ELSE Len(rows)
<1>1. stop \in Nat /\ stop =< Len(rows) /\ stop =< o + l /\ Len(rows) \in Nat
  OBVIOUS
<1>2. Page(rows, o, l) = SubSeq(rows, o + 1, stop)
  BY DEF Page
<1>3. /\ SubSeq(rows, o + 1, stop) \in Seq(Alerts)
      /\ Len(SubSeq(rows, o + 1, stop)) = IF o + 1 =< stop THEN stop - o ELSE 0
      /\ \A i \in 1 .. Len(SubSeq(rows, o + 1, stop)) :
           SubSeq(rows, o + 1, stop)[i] = rows[o + i]
  <2> HIDE DEF stop
  <2>1. o + 1 \in 1 .. Len(rows) + 1 \/ o + 1 > stop
    BY <1>1
  <2> QED BY <1>1, <2>1
<1>4. stop = o + l \/ (stop = Len(rows) /\ Len(rows) =< o + l)
  OBVIOUS
<1> DEFINE shown == SubSeq(rows, o + 1, stop)
<1>5. DOMAIN shown = 1 .. Len(shown)
  BY <1>3
<1> HIDE DEF stop, shown
<1>6. shown \in Seq(Alerts) /\ Len(shown) = (IF o + 1 =< stop THEN stop - o ELSE 0)
      /\ \A i \in 1 .. Len(shown) : shown[i] = rows[o + i]
  BY <1>3 DEF shown
<1>7. Len(shown) =< l
  BY <1>1, <1>6
<1>8. \A i \in DOMAIN shown : o + i \in 1 .. Len(rows) /\ shown[i] = rows[o + i]
  BY <1>1, <1>5, <1>6
<1>9. ASSUME NEW k \in 1 .. Len(rows), o < k, k =< o + l
      PROVE  k - o \in DOMAIN shown /\ shown[k - o] = rows[k]
  <2>1. k =< stop
    BY <1>1, <1>4, <1>9
  <2>2. k - o \in 1 .. Len(shown) /\ o + (k - o) = k
    BY <1>1, <1>6, <1>9, <2>1
  <2>3. shown[k - o] = rows[o + (k - o)]
    BY <1>6, <2>2
  <2> QED BY <1>5, <2>2, <2>3
<1>10. Len(shown) # l => Len(rows) < o + l
  BY <1>1, <1>4, <1>6
<1> QED BY <1>2, <1>6, <1>7, <1>8, <1>9, <1>10 DEF shown

\* What the invariant says of the tables and of the list that is read.
LEMMA QueriesParts ==
  ASSUME QueriesInv
  PROVE  TablesMoved /\ CopiesNow \in [Alerts -> Nat]
<1>1. TablesMoved
  BY DEF QueriesInv, QueriesTypeOK, TablesHold, TablesMoved
<1>2. \A n \in Alerts : Copies(walk.query, n, listing, matched) \in Nat
  BY <1>1, CopiesAreNat DEF TablesMoved
<1> QED BY <1>1, <1>2 DEF CopiesNow

\* A change of the tables takes no more rows of the walk than it counts.
LEMMA WatchHolds ==
  ASSUME QueriesInv, TableStep
  PROVE  UnseenForLeavers' /\ left' \in Nat /\ steady' \subseteq steady
<1> DEFINE c == [n \in Alerts |-> Copies(walk.query, n, listing, matched)]
           d == [n \in Alerts |-> Copies(walk.query, n, listing', matched')]
           drop(n) == Copies(walk.query, n, listing, matched) - Copies(walk.query, n, listing', matched')
           lost == [n \in Alerts |-> IF drop(n) > 0 THEN drop(n) ELSE 0]
<1>1. TablesMoved /\ TablesMoved' /\ Watch
  BY QueriesParts, TablesKeep
<1>2. \A n \in Alerts : /\ Copies(walk.query, n, listing, matched) \in Nat
                        /\ Copies(walk.query, n, listing', matched') \in Nat
  BY <1>1, CopiesAreNat DEF TablesMoved
<1>3. c \in [Alerts -> Nat] /\ d \in [Alerts -> Nat] /\ lost \in [Alerts -> Nat]
  <2>1. \A n \in Alerts : drop(n) \in Int
    BY <1>2
  <2>2. \A n \in Alerts : (IF drop(n) > 0 THEN drop(n) ELSE 0) \in Nat
    <3> HIDE DEF drop
    <3> QED BY <2>1
  <2> QED BY <1>2, <2>2
<1>4. \A n \in Alerts : c[n] =< d[n] + lost[n]
  <2> DEFINE x(n) == Copies(walk.query, n, listing, matched)
             y(n) == Copies(walk.query, n, listing', matched')
  <2>1. \A n \in Alerts : c[n] = x(n) /\ d[n] = y(n)
                          /\ lost[n] = IF x(n) - y(n) > 0 THEN x(n) - y(n) ELSE 0
    OBVIOUS
  <2>2. \A n \in Alerts : x(n) \in Nat /\ y(n) \in Nat
    BY <1>2
  <2> HIDE DEF x, y, c, d, lost
  <2> QED BY <2>1, <2>2
<1>5. /\ left' = IF walk.step = "idle" THEN 0 ELSE left + Total(lost)
      /\ steady' = {n \in steady : Copies(walk.query, n, listing', matched') > 0}
      /\ walk' = walk
  BY <1>1 DEF Watch
<1>6. c = CopiesNow /\ d = CopiesNow'
  BY <1>5 DEF CopiesNow
<1>7. Total(lost) \in Nat /\ left \in Nat
  <2>1. left \in Nat
    BY DEF QueriesInv, TablesHold
  <2> HIDE DEF lost
  <2> QED BY <1>3, <2>1, TotalNat
<1>8. left' \in Nat
  BY <1>5, <1>7
<1>9. /\ steady \subseteq Alerts /\ steady' \subseteq steady
      /\ (\A n \in steady : c[n] > 0) /\ (\A n \in steady' : d[n] > 0)
  <2>1. steady \subseteq Alerts /\ \A n \in steady : CopiesNow[n] > 0
    BY DEF QueriesInv, QueriesTypeOK, UnseenForLeavers
  <2>2. \A n \in Alerts : d[n] = Copies(walk.query, n, listing', matched')
    OBVIOUS
  <2> HIDE DEF c, d
  <2> QED BY <1>5, <1>6, <2>1, <2>2
<1> DEFINE S == steady \ walk.seen
           T == steady' \ walk.seen
<1>10. S \in SUBSET Alerts /\ T \in SUBSET S
  BY <1>9
<1> HIDE DEF c, d, lost, drop
<1>11. ASSUME NEW o \in Nat, Cardinality(Unseen(o)) =< left, walk.step # "idle"
       PROVE  Cardinality(Unseen(o)') =< left'
  <2>1. Cardinality({n \in T : End(d, n) =< o})
           =< Cardinality({n \in S : End(c, n) =< o}) + Total(lost)
    BY <1>3, <1>4, <1>9, <1>10, PassedGrows
  <2>2. Unseen(o) = {n \in S : End(c, n) =< o}
    BY <1>6 DEF Unseen
  <2>3. Unseen(o)' = {n \in T : End(d, n) =< o}
    BY <1>5, <1>6 DEF Unseen
  <2>4. IsFiniteSet(Unseen(o)) /\ IsFiniteSet(Unseen(o)')
    <3>1. Unseen(o) \in SUBSET Alerts /\ Unseen(o)' \in SUBSET Alerts
      BY <1>10, <2>2, <2>3
    <3> QED BY <3>1, TotalCounts
  <2>5. Cardinality(Unseen(o)) \in Nat /\ Cardinality(Unseen(o)') \in Nat
    BY <2>4, FS_CardinalityType
  <2> QED BY <1>5, <1>7, <1>11, <2>1, <2>2, <2>3, <2>5
<1>12. ASSUME Cardinality(S) =< left, walk.step # "idle" PROVE Cardinality(T) =< left'
  <2>1. IsFiniteSet(S) /\ IsFiniteSet(T)
    <3>1. S \in SUBSET Alerts /\ T \in SUBSET Alerts
      BY <1>10
    <3> QED BY <3>1, TotalCounts
  <2>2. Cardinality(T) =< Cardinality(S) /\ Cardinality(T) \in Nat /\ Cardinality(S) \in Nat
    BY <1>10, <2>1, FS_Subset, FS_CardinalityType
  <2> QED BY <1>5, <1>7, <1>12, <2>2
<1>13. walk.step = "idle" => steady' = {}
  BY <1>9 DEF QueriesInv, UnseenForLeavers
<1>14. walk.offset \in Nat /\ walk.offset + walk.limit \in Nat
  BY DEF QueriesInv, TablesHold
<1>15. UnseenForLeavers
  BY DEF QueriesInv
<1>16. /\ walk'.step = walk.step /\ walk'.full = walk.full /\ walk'.offset = walk.offset
       /\ walk'.limit = walk.limit /\ walk'.seen = walk.seen
  BY <1>5
<1>17. \A n \in steady' : (CopiesNow')[n] > 0
  BY <1>6, <1>9
<1>18. walk'.step = "items" => Cardinality(Unseen(walk.offset)') =< left'
  BY <1>11, <1>14, <1>15, <1>16 DEF UnseenForLeavers
<1>19. walk'.step \in Serving /\ walk'.full => Cardinality(Unseen(walk.offset + walk.limit)') =< left'
  BY <1>11, <1>14, <1>15, <1>16 DEF UnseenForLeavers, Serving
<1>20. walk'.step \in Serving /\ ~walk'.full => Cardinality(steady' \ walk'.seen) =< left'
  BY <1>12, <1>15, <1>16 DEF UnseenForLeavers, Serving
<1>21. walk'.step = "done" => Cardinality(steady' \ walk'.seen) =< left'
  BY <1>12, <1>15, <1>16 DEF UnseenForLeavers
<1>22. UnseenForLeavers'
  <2>1. walk'.step = "items" => Cardinality(Unseen(walk.offset)') =< left'
    BY <1>18
  <2> QED BY <1>13, <1>16, <1>17, <1>18, <1>19, <1>20, <1>21 DEF UnseenForLeavers, Unseen
<1> QED BY <1>8, <1>9, <1>22

\* A change of the tables keeps the invariant, whatever the client is about to read.
LEMMA TableStepHolds ==
  ASSUME QueriesInv, TableStep
  PROVE  QueriesInv'
<1>1. UnseenForLeavers' /\ left' \in Nat /\ steady' \subseteq steady
  BY WatchHolds
<1>2. TablesMoved /\ TablesMoved' /\ Watch
      /\ (~removed' => ~removed /\ feedRows' = feedRows /\ located \subseteq located')
  BY QueriesParts, TablesKeep
<1>3. walk' = walk /\ kept' = kept \cap located'
  BY <1>2 DEF Watch
<1>4. QueriesTypeOK'
  BY <1>1, <1>2, <1>3 DEF QueriesInv, QueriesTypeOK, TablesMoved
<1>5. TablesHold'
  BY <1>1, <1>2, <1>3 DEF QueriesInv, TablesHold, TablesMoved
<1>6. PageHolds'
  BY <1>2, <1>3 DEF QueriesInv, PageHolds, Serving
<1>7. FailsOnlyOnRemoval' /\ AnswersKeptPlaces'
  BY <1>2, <1>3 DEF QueriesInv, FailsOnlyOnRemoval, AnswersKeptPlaces
<1> QED BY <1>1, <1>4, <1>5, <1>6, <1>7 DEF QueriesInv

\* process_pagination: a limit is within the largest.
LEMMA LimitIs ==
  ASSUME NEW asked \in SomeLimits
  PROVE  Limit(asked) \in 0 .. MAX_PAGINATION_LIMIT
<1> DEFINE limit == IF asked = -1 THEN DEFAULT_PAGINATION_LIMIT ELSE asked
<1>1. limit \in Nat /\ MAX_PAGINATION_LIMIT \in Nat
  BY QueriesAssumption
<1>2. Limit(asked) = IF limit < MAX_PAGINATION_LIMIT THEN limit ELSE MAX_PAGINATION_LIMIT
  BY DEF Limit
<1> HIDE DEF limit
<1> QED BY <1>1, <1>2

\* The requests change no table.
LEMMA TablesStay ==
  ASSUME TablesMoved, UNCHANGED Tables
  PROVE  TablesMoved'
BY DEF TablesMoved, Tables

\* A walk starts with nothing passed.
LEMMA AskHolds ==
  ASSUME QueriesInv, NEW q \in Query, NEW asked \in SomeLimits, Ask(q, asked)
  PROVE  QueriesInv'
<1> DEFINE c == [n \in Alerts |-> Copies(q, n, listing, matched)]
<1>1. TablesMoved /\ TablesMoved'
  BY QueriesParts, TablesStay DEF Ask
<1>2. walk' = [step |-> "items", query |-> q, limit |-> Limit(asked), offset |-> 0,
               page |-> {}, full |-> FALSE, relation |-> {}, seen |-> {}, answered |-> {}]
  BY DEF Ask, NoWalk
<1>3. Limit(asked) \in 0 .. MAX_PAGINATION_LIMIT /\ Limit(asked) \in Nat
      /\ MAX_PAGINATION_LIMIT \in Nat
  BY LimitIs, QueriesAssumption
<1>4. /\ walk.step = "idle" /\ left' = 0 /\ kept' = kept /\ UNCHANGED Tables
      /\ steady' = {n \in Alerts : Copies(q, n, listing, matched) > 0}
  BY DEF Ask
<1>5. CopiesNow' = c /\ c \in [Alerts -> Nat]
  <2>1. \A n \in Alerts : Copies(q, n, listing, matched) \in Nat
    BY <1>1, CopiesAreNat DEF TablesMoved
  <2> QED BY <1>2, <1>4, <2>1 DEF CopiesNow, Tables
<1>6. kept = {}
  BY <1>4 DEF QueriesInv, PageHolds
<1>7. Cardinality(walk'.page) =< walk'.limit
  <2>1. walk'.page = {} /\ walk'.limit \in Nat
    BY <1>2, <1>3
  <2> QED BY <2>1, FS_EmptySet
<1>8. QueriesTypeOK'
  BY <1>1, <1>2, <1>3, <1>4, <1>6, <1>7 DEF QueriesTypeOK, TablesMoved
<1>9. TablesHold'
  BY <1>1, <1>2, <1>3, <1>4 DEF TablesHold, TablesMoved
<1>10. \A n \in steady' : c[n] > 0 /\ n \in Alerts
  BY <1>4
<1> HIDE DEF c
<1>11. (Unseen(walk.offset))' = {}
  <2>1. ASSUME NEW n \in steady' PROVE ~(End(c, n) =< 0)
    <3>1. n \in Alerts /\ c[n] > 0
      BY <1>10
    <3>2. \A k \in Alerts : c[k] = Copies(q, k, listing, matched)
      BY DEF c
    <3>3. End(c, n) \in 1 .. Len(Rows(q))
      BY <1>5, <3>1, <3>2, ListIs
    <3> QED BY <3>3
  <2>2. (Unseen(walk.offset))' = {n \in steady' \ walk'.seen : End(c, n) =< walk'.offset}
    BY <1>5 DEF Unseen
  <2> QED BY <1>2, <2>1, <2>2
<1>12. UnseenForLeavers'
  <2>1. Cardinality(Unseen(walk.offset)') =< left'
    BY <1>4, <1>11, FS_EmptySet
  <2> QED BY <1>2, <1>5, <1>10, <2>1 DEF UnseenForLeavers, Serving
<1>13. PageHolds' /\ FailsOnlyOnRemoval' /\ AnswersKeptPlaces'
  BY <1>2, <1>4, <1>6 DEF PageHolds, FailsOnlyOnRemoval, AnswersKeptPlaces, Serving
<1> QED BY <1>8, <1>9, <1>12, <1>13 DEF QueriesInv

\* A page is read: what it passes is seen, and a page that is not full is the last.
LEMMA ReadItemsHolds ==
  ASSUME QueriesInv, ReadItems
  PROVE  QueriesInv'
<1> DEFINE c == CopiesNow
           list == Rows(walk.query)
           rows == Page(list, walk.offset, walk.limit)
           shown == {rows[i] : i \in DOMAIN rows}
           o == walk.offset
           l == walk.limit
<1>1. TablesMoved /\ TablesMoved' /\ c \in [Alerts -> Nat]
  BY QueriesParts, TablesStay DEF ReadItems
<1>2. /\ walk' = [walk EXCEPT !.step = "feeds", !.page = shown, !.full = Len(rows) = walk.limit,
                          !.seen = @ \cup shown]
      /\ kept' = {p \in located : p[1] \in walk'.page} /\ removed' = FALSE
      /\ UNCHANGED Tables /\ left' = left /\ steady' = steady /\ walk.step = "items"
  BY DEF ReadItems
<1>3. TablesHold
  BY DEF QueriesInv
<1>4. /\ list \in Seq(Alerts) /\ Len(list) = End(c, 1)
      /\ \A i \in 1 .. Len(list) : c[list[i]] > 0
      /\ \A n \in Alerts : c[n] > 0 => End(c, n) \in 1 .. Len(list) /\ list[End(c, n)] = n
  <2>1. \A n \in Alerts : c[n] = Copies(walk.query, n, listing, matched)
    BY DEF CopiesNow
  <2> HIDE DEF c
  <2> QED BY <1>1, <2>1, ListIs
<1>5. o \in Nat /\ l \in Nat
  BY <1>3 DEF TablesHold
<1> HIDE DEF c, list
<1>6. /\ rows \in Seq(Alerts) /\ Len(rows) =< l
      /\ \A i \in DOMAIN rows : o + i \in 1 .. Len(list) /\ rows[i] = list[o + i]
      /\ \A k \in 1 .. Len(list) : o < k /\ k =< o + l =>
              k - o \in DOMAIN rows /\ rows[k - o] = list[k]
      /\ Len(rows) # l => Len(list) < o + l
  BY <1>4, <1>5, PageIs
<1> HIDE DEF rows, o, l
<1>7. \A n \in shown : n \in Alerts /\ c[n] > 0
  BY <1>4, <1>6
<1>8. Cardinality(shown) =< l /\ IsFiniteSet(shown)
  <2> DEFINE f == [i \in DOMAIN rows |-> rows[i]]
  <2>1. DOMAIN rows = 1 .. Len(rows) /\ Len(rows) \in Nat
    BY <1>6
  <2>2. IsFiniteSet(DOMAIN rows) /\ Cardinality(DOMAIN rows) = Len(rows)
    <3>1. Cardinality(1 .. Len(rows)) = Len(rows) /\ IsFiniteSet(1 .. Len(rows))
      <4> DEFINE k == Len(rows)
      <4>1. k \in Nat
        BY <2>1
      <4> HIDE DEF k
      <4>2. IsFiniteSet(1 .. k) /\ Cardinality(1 .. k) = IF 1 > k THEN 0 ELSE k - 1 + 1
        BY <4>1, FS_Interval
      <4>3. Cardinality(1 .. k) = k
        BY <4>1, <4>2
      <4> QED BY <4>2, <4>3 DEF k
    <3> QED BY <2>1, <3>1
  <2>3. f \in Surjection(DOMAIN rows, shown)
    BY DEF Surjection
  <2> HIDE DEF f, shown
  <2>4. IsFiniteSet(shown) /\ Cardinality(shown) =< Cardinality(DOMAIN rows)
    BY <2>2, <2>3, FS_Surjection
  <2>5. Cardinality(shown) \in Nat
    BY <2>4, FS_CardinalityType
  <2>6. Cardinality(shown) =< Len(rows) /\ Len(rows) =< l
    BY <1>6, <2>2, <2>4
  <2> DEFINE x == Cardinality(shown)
             y == Len(rows)
  <2>7. x \in Nat /\ y \in Nat /\ x =< y /\ y =< l
    BY <2>1, <2>5, <2>6
  <2> HIDE DEF x, y
  <2>8. x =< l
    BY <1>5, <2>7
  <2> QED BY <2>4, <2>8 DEF x
<1>9. /\ walk'.step = "feeds" /\ walk'.page = shown /\ walk'.full = (Len(rows) = l)
      /\ walk'.seen = walk.seen \cup shown /\ walk'.offset = o /\ walk'.limit = l
      /\ walk'.query = walk.query
  BY <1>2, <1>3 DEF TablesHold, l, o
<1> HIDE DEF shown
<1>10. QueriesTypeOK'
  <2>1. QueriesTypeOK
    BY DEF QueriesInv
  <2>2. kept' \subseteq located'
    BY <1>2 DEF Tables
  <2>3. Cardinality(walk'.page) =< walk'.limit
    BY <1>8, <1>9
  <2>4. walk'.limit \in 0 .. MAX_PAGINATION_LIMIT /\ walk'.query \in Query
    BY <1>9, <2>1 DEF QueriesTypeOK, l
  <2>5. (walk'.page \cup walk'.seen \cup steady') \subseteq Alerts
    BY <1>2, <1>7, <1>9, <2>1 DEF QueriesTypeOK
  <2> QED BY <1>1, <1>9, <2>2, <2>3, <2>4, <2>5 DEF QueriesTypeOK, TablesMoved
<1>11. TablesHold'
  <2>1. shown \in SUBSET Alerts
    BY <1>7
  <2> QED BY <1>1, <1>2, <1>3, <2>1 DEF TablesHold, TablesMoved, Serving
<1>12. CopiesNow' = c
  BY <1>2, <1>9 DEF c, CopiesNow, Tables
<1>13. steady \subseteq Alerts /\ (\A n \in steady : c[n] > 0)
       /\ Cardinality({n \in steady \ walk.seen : End(c, n) =< o}) =< left
  BY <1>2 DEF QueriesInv, QueriesTypeOK, UnseenForLeavers, Unseen, c, o
<1>14. ASSUME NEW n \in steady \ walk'.seen, End(c, n) =< o + l
       PROVE  n \in steady \ walk.seen /\ End(c, n) =< o
  <2>1. n \in Alerts /\ c[n] > 0 /\ n \notin shown /\ n \notin walk.seen
    BY <1>9, <1>13
  <2>2. End(c, n) \in 1 .. Len(list) /\ list[End(c, n)] = n
    BY <1>4, <2>1
  <2>3. ASSUME o < End(c, n) PROVE FALSE
    <3>1. End(c, n) - o \in DOMAIN rows /\ rows[End(c, n) - o] = n
      BY <1>6, <1>14, <2>2, <2>3
    <3> QED BY <2>1, <3>1 DEF shown
  <2> QED BY <1>5, <2>1, <2>2, <2>3
<1>15. ASSUME NEW n \in steady \ walk'.seen, ~walk'.full
       PROVE  End(c, n) =< o + l
  <2>1. Len(list) < o + l
    BY <1>6, <1>9, <1>15
  <2>2. End(c, n) \in 1 .. Len(list)
    BY <1>4, <1>13
  <2> QED BY <1>5, <2>1, <2>2
<1> DEFINE Old == {n \in steady \ walk.seen : End(c, n) =< o}
           New == {n \in steady \ walk'.seen : End(c, n) =< o + l}
<1>16. New \subseteq Old /\ (~walk'.full => steady \ walk'.seen = New)
  BY <1>14, <1>15
<1>17. Cardinality(New) =< left'
  <2>1. IsFiniteSet(Old) /\ IsFiniteSet(New)
    <3>1. Old \in SUBSET Alerts /\ New \in SUBSET Alerts
      BY <1>13
    <3> HIDE DEF Old, New
    <3> QED BY <3>1, TotalCounts
  <2>2. Cardinality(Old) =< left /\ left \in Nat
    BY <1>3, <1>13 DEF TablesHold
  <2> HIDE DEF Old, New
  <2>3. Cardinality(New) =< Cardinality(Old) /\ Cardinality(New) \in Nat /\ Cardinality(Old) \in Nat
    BY <1>16, <2>1, FS_Subset, FS_CardinalityType
  <2> QED BY <1>2, <2>2, <2>3
<1>18. UnseenForLeavers'
  <2>1. Unseen(walk.offset + walk.limit)' = New
    BY <1>2, <1>9, <1>12 DEF Unseen
  <2>2. ~walk'.full => Cardinality(steady' \ walk'.seen) =< left'
    BY <1>2, <1>16, <1>17
  <2> HIDE DEF New
  <2> QED BY <1>2, <1>9, <1>12, <1>13, <1>17, <2>1, <2>2 DEF UnseenForLeavers, Serving
<1>19. PageHolds'
  <2>1. ASSUME NEW n \in shown PROVE FeedOfAlert[n] \in feedRows
    <3>1. n \in Alerts /\ Copies(walk.query, n, listing, matched) > 0
      BY <1>7 DEF c, CopiesNow
    <3>2. listing[n] \in {"active", "expired"}
      BY <1>1, <3>1, RowsAreShown DEF TablesMoved
    <3> QED BY <1>3, <3>1, <3>2 DEF TablesHold
  <2> QED BY <1>2, <1>9, <2>1 DEF PageHolds, Serving, Tables
<1>20. FailsOnlyOnRemoval' /\ AnswersKeptPlaces'
  BY <1>9 DEF FailsOnlyOnRemoval, AnswersKeptPlaces
<1> QED BY <1>10, <1>11, <1>18, <1>19, <1>20 DEF QueriesInv

\* The data loaders of a page.
LEMMA LoadersHold ==
  ASSUME QueriesInv, LoadFeed \/ LoadRelation \/ LoadPlaces
  PROVE  QueriesInv'
<1>1. TablesMoved /\ TablesMoved' /\ TablesHold /\ QueriesTypeOK
  BY QueriesParts, TablesStay DEF LoadFeed, LoadRelation, LoadPlaces, QueriesInv
<1>2. /\ UNCHANGED Tables /\ left' = left /\ steady' = steady /\ kept' = kept /\ removed' = removed
      /\ walk.step \in Serving
  BY DEF LoadFeed, LoadRelation, LoadPlaces, Serving
<1>3. UnseenForLeavers /\ PageHolds /\ FailsOnlyOnRemoval /\ AnswersKeptPlaces
  BY DEF QueriesInv
\* Whatever a loader does, the page, what was seen and the query stay.
<1>4. ASSUME walk'.query = walk.query, walk'.seen = walk.seen, walk'.page = walk.page,
             walk'.limit = walk.limit,
             walk' \in [step : {"idle", "items", "failed", "done"} \cup Serving, query : Query,
               limit : Nat, offset : Nat, page : SUBSET Alerts, full : BOOLEAN,
               relation : SUBSET (Alerts \X Places), seen : SUBSET Alerts,
               answered : SUBSET (Alerts \X Places)],
             PageHolds', FailsOnlyOnRemoval', AnswersKeptPlaces',
             \/ walk'.step \in Serving /\ walk'.full = walk.full /\ walk'.offset = walk.offset
             \/ walk'.step = "failed"
             \/ walk'.step = "items" /\ walk.full /\ walk'.offset = walk.offset + walk.limit
             \/ walk'.step = "done" /\ ~walk.full
      PROVE  QueriesInv'
  <2>1. QueriesTypeOK'
    BY <1>1, <1>2, <1>4 DEF QueriesTypeOK, TablesMoved, Tables, Serving
  <2>2. TablesHold'
    BY <1>1, <1>2, <1>4 DEF TablesHold, TablesMoved
  <2>3. CopiesNow' = CopiesNow
    BY <1>2, <1>4 DEF CopiesNow, Tables
  <2>4. \A o : Unseen(o)' = Unseen(o)
    BY <1>2, <1>4, <2>3 DEF Unseen
  <2> DEFINE Ahead(stop) == Cardinality({n \in steady \ walk.seen : End(CopiesNow, n) <= stop}) =< left
  <2>5. /\ walk.full => Ahead(walk.offset + walk.limit)
        /\ ~walk.full => Cardinality(steady \ walk.seen) =< left
    BY <1>2, <1>3 DEF UnseenForLeavers, Unseen
  <2>6. UnseenForLeavers'
    <3>1. \A stop : Cardinality({n \in steady' \ walk'.seen : End(CopiesNow', n) <= stop}) =< left'
                      <=> Ahead(stop)
      BY <1>2, <1>4, <2>3
    <3>2. \A n \in steady' : (CopiesNow')[n] > 0
      BY <1>2, <1>3, <2>3 DEF UnseenForLeavers
    <3> HIDE DEF Ahead
    <3>3. walk'.step = "items" => Ahead(walk'.offset)
      BY <1>4, <2>5 DEF Serving
    <3>4. walk'.step \in Serving /\ walk'.full => Ahead(walk'.offset + walk'.limit)
      BY <1>4, <2>5 DEF Serving
    <3>5. walk'.step \in Serving /\ ~walk'.full => Cardinality(steady' \ walk'.seen) =< left'
      BY <1>2, <1>4, <2>5 DEF Serving
    <3>6. walk'.step = "done" => Cardinality(steady' \ walk'.seen) =< left'
      BY <1>2, <1>4, <2>5 DEF Serving
    <3>7. walk'.step # "idle"
      BY <1>4 DEF Serving
    <3> QED BY <3>1, <3>2, <3>3, <3>4, <3>5, <3>6, <3>7 DEF UnseenForLeavers, Unseen
  <2> QED BY <1>4, <2>1, <2>2, <2>6 DEF QueriesInv
<1>5. CASE LoadFeed
  <2> DEFINE to == IF \A n \in walk.page : FeedOfAlert[n] \in feedRows THEN "relation" ELSE "failed"
  <2>1. walk' = [walk EXCEPT !.step = to] /\ walk.step = "feeds"
    BY <1>5 DEF LoadFeed
  <2>2. to \in {"relation", "failed"} /\ (~removed => to = "relation")
    BY <1>2, <1>3, <2>1 DEF PageHolds
  <2> HIDE DEF to
  <2>3. PageHolds' /\ FailsOnlyOnRemoval' /\ AnswersKeptPlaces'
    BY <1>1, <1>2, <1>3, <2>1, <2>2
    DEF PageHolds, FailsOnlyOnRemoval, AnswersKeptPlaces, Serving, TablesHold, Tables
  <2> QED BY <1>1, <1>4, <2>1, <2>2, <2>3 DEF TablesHold, Serving
<1>6. CASE LoadRelation
  <2>1. walk' = [walk EXCEPT !.step = "places", !.relation = RelationMap] /\ walk.step = "relation"
    BY <1>6 DEF LoadRelation
  <2>2. /\ RelationMap \in SUBSET (Alerts \X Places) /\ RelationMap \subseteq located
        /\ kept \subseteq RelationMap /\ \A p \in RelationMap : p[1] \in walk.page
    <3>1. kept \subseteq located /\ \A p \in kept : p[1] \in walk.page
      BY <1>1, <1>2, <1>3 DEF PageHolds, QueriesTypeOK
    <3>2. located \subseteq Alerts \X Places
      BY <1>1 DEF TablesMoved
    <3> QED BY <3>1, <3>2 DEF RelationMap
  <2>3. PageHolds' /\ FailsOnlyOnRemoval' /\ AnswersKeptPlaces'
    BY <1>1, <1>2, <1>3, <2>1, <2>2
    DEF PageHolds, FailsOnlyOnRemoval, AnswersKeptPlaces, Serving, TablesHold, Tables
  <2> QED BY <1>1, <1>4, <2>1, <2>2, <2>3 DEF TablesHold, Serving
<1>7. CASE LoadPlaces
  <2>1. walk.step = "places" /\ kept \subseteq walk.relation
    BY <1>3, <1>7 DEF LoadPlaces, PageHolds
  <2>2. CASE \A p \in walk.relation : p[2] \in Admin1Map
    <3>1. walk' = [walk EXCEPT !.step = IF walk.full THEN "items" ELSE "done",
                               !.offset = IF walk.full THEN @ + walk.limit ELSE @,
                               !.answered = walk.relation]
      BY <1>7, <2>2 DEF LoadPlaces
    <3>2. /\ walk.offset \in Nat /\ walk.limit \in Nat /\ walk.full \in BOOLEAN
          /\ walk.offset + walk.limit \in Nat
      BY <1>1 DEF TablesHold
    <3>3. /\ walk'.step = IF walk.full THEN "items" ELSE "done"
          /\ walk'.answered = walk.relation
      BY <1>1, <3>1 DEF TablesHold
    <3>4. PageHolds' /\ FailsOnlyOnRemoval' /\ AnswersKeptPlaces'
      BY <1>2, <2>1, <3>3 DEF PageHolds, FailsOnlyOnRemoval, AnswersKeptPlaces, Serving
    <3> QED BY <1>1, <1>4, <3>1, <3>2, <3>4 DEF TablesHold, Serving
  <2>3. CASE ~ \A p \in walk.relation : p[2] \in Admin1Map
    <3>1. walk' = [walk EXCEPT !.step = "failed"]
      BY <1>7, <2>3 DEF LoadPlaces
    <3>2. removed
      <4>1. SUFFICES ASSUME ~removed, NEW p \in walk.relation PROVE p[2] \in Admin1Map
        BY <2>3
      <4>2. p \in located /\ p[1] \in walk.page
        BY <1>3, <2>1, <4>1 DEF PageHolds
      <4>3. p \in Alerts \X placeRows
        BY <1>1, <4>2 DEF TablesMoved
      <4>4. p = <<p[1], p[2]>> /\ p[2] \in placeRows
        BY <4>3
      <4> QED BY <4>2, <4>4 DEF Admin1Map
    <3>3. PageHolds' /\ FailsOnlyOnRemoval' /\ AnswersKeptPlaces'
      BY <1>1, <1>2, <3>1, <3>2
      DEF PageHolds, FailsOnlyOnRemoval, AnswersKeptPlaces, Serving, TablesHold
    <3> QED BY <1>1, <1>4, <3>1, <3>3 DEF TablesHold, Serving
  <2> QED BY <2>2, <2>3
<1> QED BY <1>5, <1>6, <1>7

\* Every step keeps the invariant.
LEMMA QueriesInductive == QueriesInv /\ [QueriesNext]_queriesVars => QueriesInv'
<1> SUFFICES ASSUME QueriesInv, [QueriesNext]_queriesVars PROVE QueriesInv'
  OBVIOUS
<1>1. CASE TableStep
  BY <1>1, TableStepHolds
<1>2. CASE \E q \in Query, asked \in SomeLimits : Ask(q, asked)
  BY <1>2, AskHolds
<1>3. CASE ReadItems
  BY <1>3, ReadItemsHolds
<1>4. CASE LoadFeed \/ LoadRelation \/ LoadPlaces
  BY <1>4, LoadersHold
<1>5. CASE UNCHANGED queriesVars
  <2>1. CopiesNow' = CopiesNow
    BY <1>5 DEF queriesVars, CopiesNow
  <2> QED BY <1>5, <2>1 DEF queriesVars, QueriesInv, QueriesTypeOK, TablesHold,
           UnseenForLeavers, Unseen, PageHolds, FailsOnlyOnRemoval, AnswersKeptPlaces
<1> QED BY <1>1, <1>2, <1>3, <1>4, <1>5 DEF QueriesNext, TableStep

\* The tables before the walk.
LEMMA QueriesStart == QueriesInit => QueriesInv
<1> SUFFICES ASSUME QueriesInit PROVE QueriesInv
  OBVIOUS
<1> USE DEF QueriesInit
<1>1. LastPk \in Nat /\ \A n \in Alerts : MatchingInfos[n] \in Nat /\ 0 \in 0 .. MatchingInfos[n]
                                           /\ MatchingInfos[n] \in 0 .. MatchingInfos[n]
  BY QueriesAssumption
<1>2. NoWalk.page = {} /\ NoWalk.seen = {} /\ NoWalk.limit = 1 /\ NoWalk.step = "idle"
      /\ NoWalk.query \in Query
  BY DEF NoWalk, Query
<1>3. Cardinality(walk.page) =< walk.limit
  BY <1>2, FS_EmptySet
<1>4. 1 \in 0 .. MAX_PAGINATION_LIMIT
  BY QueriesAssumption
<1>5. QueriesTypeOK
  BY <1>1, <1>2, <1>3, <1>4 DEF QueriesTypeOK
<1>6. TablesHold
  BY <1>1 DEF TablesHold, NoWalk, Query, Feeds
<1>7. UnseenForLeavers /\ PageHolds /\ FailsOnlyOnRemoval /\ AnswersKeptPlaces
  BY <1>2 DEF UnseenForLeavers, PageHolds, FailsOnlyOnRemoval, AnswersKeptPlaces, Serving
<1> QED BY <1>5, <1>6, <1>7 DEF QueriesInv

\* The invariant holds in every state.
LEMMA QueriesInvHolds == QueriesSpec => []QueriesInv
BY QueriesStart, QueriesInductive, PTL DEF QueriesSpec

\* What the lists, the requests and the walk are like (apps/cap_feed/queries.py): the
\* rows of AlertAdmin1 are of alerts and divisions that are there, and a page is never
\* longer than the limit (utils/strawberry/paginations.py).
THEOREM QueriesTyped == QueriesSpec => []QueriesTypeOK
BY QueriesInvHolds, PTL DEF QueriesInv

\* Who pages through a list misses no more of what was in it all the time than the rows
\* that left it, and gets it with its divisions, or no answer, only for a deletion
\* (apply_pagination, load_feed, load_admin1s_by_alert).
THEOREM ReadersMissOnlyLeavers == QueriesSpec => []WalksAreWhole
<1>1. QueriesInv => WalksAreWhole
  <2> SUFFICES ASSUME QueriesInv, walk.step = "done" PROVE WalkMissesForLeavers
    BY DEF QueriesInv, WalksAreWhole, WalkMissesForLeavers
  <2>1. Cardinality(steady \ walk.seen) =< left
    BY DEF QueriesInv, UnseenForLeavers
  <2>2. steady \ walk.seen \in SUBSET Alerts
    BY DEF QueriesInv, QueriesTypeOK
  <2> DEFINE X == steady \ walk.seen
  <2>3. Total([n \in Alerts |-> IF n \in X THEN 1 ELSE 0]) = Cardinality(X)
    BY <2>2, TotalCounts
  <2> QED BY <2>1, <2>3 DEF WalkMissesForLeavers
<1> QED BY <1>1, QueriesInvHolds, PTL

--------------------------------------------------------------------------------

(* AlertCounts. *)

\* One alert of a place for each pair, and the other way round.
LEMMA PairsOfPlace ==
  ASSUME NEW X \in SUBSET Alerts, NEW p
  PROVE  LET pairs == X \X {p} IN
         IsFiniteSet(pairs) /\ Cardinality(pairs) = Cardinality(X) /\ Cardinality(X) \in 0 .. LastPk
<1> DEFINE pairs == X \X {p}
<1>1. IsFiniteSet(X)
  BY TotalCounts
<1>2. IsFiniteSet({p}) /\ Cardinality({p}) = 1
  BY FS_Singleton
<1>3. IsFiniteSet(pairs) /\ Cardinality(pairs) = Cardinality(X)
  <2>1. IsFiniteSet(pairs) /\ Cardinality(pairs) = Cardinality(X) * Cardinality({p})
    BY <1>1, <1>2, FS_Product
  <2>2. Cardinality(X) \in Nat
    BY <1>1, FS_CardinalityType
  <2> QED BY <1>2, <2>1, <2>2
<1>4. Cardinality(X) \in 0 .. LastPk
  <2>1. LastPk \in Nat /\ IsFiniteSet(Alerts) /\ Cardinality(Alerts) = LastPk
    <3>1. LastPk \in Nat
      BY QueriesAssumption
    <3>2. IsFiniteSet(1 .. LastPk) /\ Cardinality(1 .. LastPk) = IF 1 > LastPk THEN 0 ELSE LastPk - 1 + 1
      BY <3>1, FS_Interval
    <3> QED BY <3>1, <3>2 DEF Alerts
  <2>2. Cardinality(X) \in Nat /\ Cardinality(X) =< Cardinality(Alerts)
    BY <1>1, <2>1, FS_Subset, FS_CardinalityType
  <2> DEFINE x == Cardinality(X)
  <2> HIDE DEF x
  <2>3. x \in Nat /\ x =< LastPk
    BY <2>1, <2>2 DEF x
  <2>4. x \in 0 .. LastPk
    BY <2>1, <2>3
  <2> QED BY <2>4 DEF x
<1> QED BY <1>3, <1>4

\* The alerts that a filter counts in a place.
InPlaceOf(kind, filtered, p) ==
  {n \in Alerts : InPlace(kind, n, p) /\ Copies(Filter(filtered), n, listing, matched) > 0}

\* Counted once each, they are those that the list without duplicates has there.
LEMMA ListHasThem ==
  ASSUME TablesMoved, NEW kind \in Kind, NEW filtered \in BOOLEAN
  PROVE  /\ InList(kind, filtered) \subseteq Alerts \X PlacesOf(kind)
         /\ \A m \in InList(kind, filtered) :
              listing[m[1]] = "active" /\ InPlace(kind, m[1], m[2])
         /\ \A p \in PlacesOf(kind) :
              At(InList(kind, filtered), p) = InPlaceOf(kind, filtered, p) \X {p}
<1> DEFINE q == [Filter(filtered) EXCEPT !.distinct = TRUE]
           c == [n \in Alerts |-> Copies(q, n, listing, matched)]
           list == Rows(q)
           on == {list[i] : i \in DOMAIN list}
<1>1. \A n \in Alerts : matched[n] \in Nat
  BY DEF TablesMoved
<1>2. c \in [Alerts -> Nat]
  BY CopiesAreNat DEF TablesMoved
<1>3. \A n \in Alerts : c[n] = Copies(q, n, listing, matched)
  OBVIOUS
<1>4. q.active = TRUE /\ q.filtered = filtered /\ q.distinct = TRUE
      /\ Filter(filtered).active = TRUE /\ Filter(filtered).filtered = filtered
      /\ Filter(filtered).distinct = FALSE
  BY DEF Filter
<1>5. ASSUME NEW n \in Alerts
      PROVE  /\ c[n] > 0 <=> Copies(Filter(filtered), n, listing, matched) > 0
             /\ c[n] > 0 => listing[n] = "active"
  <2> HIDE DEF q
  <2>1. Listed(q) = {"active"} /\ Listed(Filter(filtered)) = {"active"}
    BY <1>4 DEF Listed
  <2>2. CASE listing[n] \notin {"active"}
    BY <1>3, <2>1, <2>2 DEF Copies
  <2>3. CASE listing[n] \in {"active"} /\ filtered
    <3>1. Copies(q, n, listing, matched) = IF matched[n] = 0 THEN 0 ELSE 1
      BY <1>4, <2>1, <2>3 DEF Copies
    <3>2. Copies(Filter(filtered), n, listing, matched) = matched[n]
      BY <1>4, <2>1, <2>3 DEF Copies
    <3>3. c[n] = Copies(q, n, listing, matched) /\ matched[n] \in Nat
      BY <1>1, <1>3
    <3> HIDE DEF c
    <3>4. c[n] > 0 <=> matched[n] > 0
      BY <3>1, <3>3
    <3> QED BY <2>3, <3>2, <3>4
  <2>4. CASE listing[n] \in {"active"} /\ ~filtered
    <3>1. Copies(q, n, listing, matched) = 1
      BY <1>4, <2>1, <2>4 DEF Copies
    <3>2. Copies(Filter(filtered), n, listing, matched) = 1
      BY <1>4, <2>1, <2>4 DEF Copies
    <3> QED BY <1>3, <2>4, <3>1, <3>2
  <2> QED BY <2>2, <2>3, <2>4
<1> HIDE DEF c
<1>6. /\ list \in Seq(Alerts)
      /\ \A i \in 1 .. Len(list) : c[list[i]] > 0
      /\ \A n \in Alerts : c[n] > 0 => End(c, n) \in 1 .. Len(list) /\ list[End(c, n)] = n
  BY <1>2, <1>3, ListIs
<1> HIDE DEF list
<1>7. on = {n \in Alerts : c[n] > 0}
  <2>1. DOMAIN list = 1 .. Len(list) /\ \A i \in DOMAIN list : list[i] \in Alerts
    BY <1>6
  <2>2. \A n \in on : n \in Alerts /\ c[n] > 0
    BY <1>6, <2>1
  <2>3. \A n \in Alerts : c[n] > 0 => n \in on
    BY <1>6, <2>1
  <2> HIDE DEF on
  <2> QED BY <2>2, <2>3
<1>8. InList(kind, filtered) = {m \in on \X PlacesOf(kind) : InPlace(kind, m[1], m[2])}
  BY DEF InList, list
<1> HIDE DEF on
<1>9. InList(kind, filtered) \subseteq Alerts \X PlacesOf(kind)
  BY <1>7, <1>8
<1>10. \A m \in InList(kind, filtered) : listing[m[1]] = "active" /\ InPlace(kind, m[1], m[2])
  BY <1>5, <1>7, <1>8
<1>11. ASSUME NEW p \in PlacesOf(kind)
       PROVE  At(InList(kind, filtered), p) = InPlaceOf(kind, filtered, p) \X {p}
  <2>1. \A m \in At(InList(kind, filtered), p) : m \in InPlaceOf(kind, filtered, p) \X {p}
    BY <1>5, <1>7, <1>8 DEF At, InPlaceOf
  <2>2. ASSUME NEW n \in InPlaceOf(kind, filtered, p)
        PROVE  <<n, p>> \in At(InList(kind, filtered), p)
    <3>1. n \in on /\ InPlace(kind, n, p)
      BY <1>5, <1>7 DEF InPlaceOf
    <3>2. <<n, p>> \in on \X PlacesOf(kind) /\ <<n, p>>[1] = n /\ <<n, p>>[2] = p
      BY <3>1
    <3> QED BY <1>8, <3>1, <3>2 DEF At
  <2> QED BY <2>1, <2>2
<1> QED BY <1>9, <1>10, <1>11

\* The first query: the counts are those of the list.
LEMMA ReadCountsHolds ==
  ASSUME CountsInv, QueriesInv', NEW kind \in Kind, NEW filtered \in BOOLEAN, NEW withEmpty \in BOOLEAN,
         ReadCounts(kind, filtered, withEmpty)
  PROVE  CountsInv'
<1>1. TablesMoved
  BY QueriesParts DEF CountsInv
<1> DEFINE counts == FilteredCounts(kind, filtered)
           list == InList(kind, filtered)
<1>2. /\ tally' = [step |-> "rows", kind |-> kind, filtered |-> filtered, withEmpty |-> withEmpty,
                   count |-> counts, listed |-> {}, total |-> <<>>]
      /\ members' = list /\ departed' = {} /\ UNCHANGED queriesVars
  BY DEF ReadCounts, NoTally
<1>3. /\ list \subseteq Alerts \X PlacesOf(kind)
      /\ \A m \in list : listing[m[1]] = "active" /\ InPlace(kind, m[1], m[2])
      /\ \A p \in PlacesOf(kind) : At(list, p) = InPlaceOf(kind, filtered, p) \X {p}
  BY <1>1, ListHasThem
<1>4. ASSUME NEW p \in PlacesOf(kind)
      PROVE  /\ CountIn(kind, filtered, p) = Cardinality(At(list, p))
             /\ CountIn(kind, filtered, p) \in 0 .. LastPk
             /\ CountIn(kind, filtered, p) > 0 <=> p \in {m[2] : m \in list}
  <2> DEFINE X == InPlaceOf(kind, filtered, p)
  <2>1. X \in SUBSET Alerts /\ CountIn(kind, filtered, p) = Cardinality(X)
    BY DEF CountIn, InPlaceOf
  <2> HIDE DEF X, list
  <2>2. Cardinality(X \X {p}) = Cardinality(X) /\ Cardinality(X) \in 0 .. LastPk /\ IsFiniteSet(X)
    BY <2>1, PairsOfPlace, TotalCounts
  <2>3. At(list, p) = X \X {p}
    BY <1>3 DEF X
  <2>4. Cardinality(X) > 0 <=> X # {}
    <3>1. (Cardinality(X) = 0) <=> (X = {})
      BY <2>2, FS_EmptySet
    <3>2. Cardinality(X) \in Nat
      BY <2>2, FS_CardinalityType
    <3> QED BY <3>1, <3>2
  <2>5. X # {} <=> p \in {m[2] : m \in list}
    <3>1. ASSUME NEW n \in X PROVE p \in {m[2] : m \in list}
      <4>1. <<n, p>> \in list /\ <<n, p>>[2] = p
        BY <2>3 DEF At
      <4> QED BY <4>1
    <3>2. ASSUME NEW m \in list, m[2] = p PROVE X # {}
      BY <2>3, <3>2 DEF At
    <3> QED BY <3>1, <3>2
  <2> QED BY <2>1, <2>2, <2>3, <2>4, <2>5
<1> DEFINE D == {r \in PlacesOf(kind) : CountIn(kind, filtered, r) > 0}
<1>5. D = {m[2] : m \in list}
  <2>1. \A m \in list : m[2] \in PlacesOf(kind)
    BY <1>3
  <2> HIDE DEF list
  <2> QED BY <1>4, <2>1
<1>6. counts = [p \in {m[2] : m \in list} |-> Cardinality(At(list, p))]
  <2>1. counts = [p \in D |-> CountIn(kind, filtered, p)]
    BY DEF FilteredCounts
  <2>2. \A p \in D : CountIn(kind, filtered, p) = Cardinality(At(list, p))
    BY <1>4
  <2> HIDE DEF D, counts, list
  <2>3. counts = [p \in D |-> Cardinality(At(list, p))]
    BY <2>1, <2>2
  <2> QED BY <1>5, <2>3
<1>7. DOMAIN counts = D /\ \A p \in D : counts[p] \in 1 .. LastPk
  <2>1. counts = [p \in D |-> CountIn(kind, filtered, p)]
    BY DEF FilteredCounts
  <2>2. \A p \in D : CountIn(kind, filtered, p) \in 1 .. LastPk
    <3>1. \A p \in D : CountIn(kind, filtered, p) \in 0 .. LastPk /\ CountIn(kind, filtered, p) > 0
      BY <1>4
    <3>2. LastPk \in Nat
      BY QueriesAssumption
    <3> HIDE DEF D
    <3>3. \A k \in 0 .. LastPk : k > 0 => k \in 1 .. LastPk
      BY <3>2
    <3> QED BY <3>1, <3>3
  <2> HIDE DEF D, counts
  <2> QED BY <2>1, <2>2
<1> HIDE DEF counts, list
<1>8. CountsTypeOK'
  BY <1>2, <1>7 DEF CountsTypeOK
<1>9. MembersHold'
  <2>1. \A m \in members' \ departed' : (listing')[m[1]] = "active" /\ InPlace(kind, m[1], m[2])'
    BY <1>2, <1>3 DEF queriesVars, InPlace
  <2>2. members' \subseteq Alerts \X PlacesOf(tally'.kind)
    BY <1>2, <1>3
  <2>3. tally'.count = [p \in {m[2] : m \in members'} |-> Cardinality(At(members', p))]
    BY <1>2, <1>6
  <2> QED BY <1>2, <2>1, <2>2, <2>3 DEF MembersHold, At, InPlace
<1>10. PlacesHold' /\ FilteredWithinTotal' /\ tally'.filtered \in BOOLEAN
       /\ tally'.withEmpty \in BOOLEAN /\ DOMAIN tally' = DOMAIN NoTally
  BY <1>2 DEF PlacesHold, FilteredWithinTotal, NoTally
<1> QED BY <1>8, <1>9, <1>10 DEF CountsInv

\* The second: a place that is not found has lost its members.
LEMMA ReadPlacesHolds ==
  ASSUME CountsInv, QueriesInv', ReadPlaces
  PROVE  CountsInv'
<1> DEFINE found == {p \in DOMAIN tally.count \cap RowsOf(tally.kind) :
                       tally.withEmpty \/ tally.count[p] > 0}
<1>1. /\ tally' = [tally EXCEPT !.step = "totals", !.listed = found] /\ tally.step = "rows"
      /\ UNCHANGED <<queriesVars, members, departed>>
  BY DEF ReadPlaces
<1>2. /\ DOMAIN tally = DOMAIN NoTally /\ CountsTypeOK /\ MembersHold
      /\ tally.filtered \in BOOLEAN /\ tally.withEmpty \in BOOLEAN
  BY DEF CountsInv
<1>3. /\ tally'.step = "totals" /\ tally'.listed = found /\ tally'.kind = tally.kind
      /\ tally'.count = tally.count /\ tally'.filtered = tally.filtered
      /\ tally'.withEmpty = tally.withEmpty /\ DOMAIN tally' = DOMAIN NoTally
  BY <1>1, <1>2 DEF NoTally
<1>4. /\ tally.count = [p \in {m[2] : m \in members} |-> Cardinality(At(members, p))]
      /\ \A m \in members \ departed : listing[m[1]] = "active" /\ InPlace(tally.kind, m[1], m[2])
      /\ members \subseteq Alerts \X PlacesOf(tally.kind)
  BY <1>1, <1>2 DEF MembersHold
<1>5. \A p \in DOMAIN tally.count : tally.count[p] \in 1 .. LastPk
  BY <1>2 DEF CountsTypeOK
<1>6. found = {m[2] : m \in members} \cap RowsOf(tally.kind)
  <2>1. DOMAIN tally.count = {m[2] : m \in members}
    BY <1>4
  <2>2. \A p \in DOMAIN tally.count : tally.count[p] > 0
    BY <1>5, QueriesAssumption
  <2> QED BY <2>1, <2>2
<1> HIDE DEF found
<1>7. CountsTypeOK'
  <2>1. found \subseteq DOMAIN tally.count
    BY <1>4, <1>6
  <2> QED BY <1>1, <1>2, <1>3, <2>1 DEF CountsTypeOK
<1>8. MembersHold'
  BY <1>1, <1>3, <1>4 DEF MembersHold, At, InPlace, queriesVars
\* A member of a place that is not found has departed.
<1>9. ASSUME NEW m \in members, m[2] \notin found PROVE m \in departed
  <2>1. SUFFICES ASSUME m \notin departed PROVE FALSE
    OBVIOUS
  <2>2. listing[m[1]] = "active" /\ InPlace(tally.kind, m[1], m[2]) /\ m[1] \in Alerts
    BY <1>4, <2>1
  <2>3. m[2] \notin RowsOf(tally.kind)
    BY <1>6, <1>9
  <2>4. CASE tally.kind = "countries"
    <3>1. FeedOfAlert[m[1]] \in feedRows
      BY <2>2 DEF CountsInv, QueriesInv, TablesHold
    <3> QED BY <2>2, <2>3, <2>4, <3>1 DEF InPlace, RowsOf
  <2>5. CASE tally.kind # "countries"
    <3>1. <<m[1], m[2]>> \in located
      BY <2>2, <2>5 DEF InPlace
    <3>2. m[2] \in placeRows
      BY <3>1 DEF CountsInv, QueriesInv, QueriesTypeOK
    <3> QED BY <2>3, <2>5, <3>2 DEF RowsOf
  <2> QED BY <2>4, <2>5
<1>10. PlacesHold'
  BY <1>1, <1>3, <1>9 DEF PlacesHold, At
<1>11. FilteredWithinTotal'
  BY <1>3 DEF FilteredWithinTotal
<1> QED BY <1>2, <1>3, <1>7, <1>8, <1>10, <1>11 DEF CountsInv

\* The third: a member that has not departed is counted again.
LEMMA ReadTotalsHolds ==
  ASSUME CountsInv, QueriesInv', ReadTotals
  PROVE  CountsInv'
<1> DEFINE all == Totals(tally.kind, tally.listed)
<1>1. /\ tally' = [tally EXCEPT !.step = "done", !.total = all] /\ tally.step = "totals"
      /\ UNCHANGED <<queriesVars, members, departed>>
  BY DEF ReadTotals
<1>2. /\ DOMAIN tally = DOMAIN NoTally /\ CountsTypeOK /\ MembersHold /\ PlacesHold
      /\ tally.filtered \in BOOLEAN /\ tally.withEmpty \in BOOLEAN
  BY DEF CountsInv
<1>3. /\ tally'.step = "done" /\ tally'.total = all /\ tally'.kind = tally.kind
      /\ tally'.count = tally.count /\ tally'.filtered = tally.filtered
      /\ tally'.listed = tally.listed
      /\ tally'.withEmpty = tally.withEmpty /\ DOMAIN tally' = DOMAIN NoTally
  BY <1>1, <1>2 DEF NoTally
<1>4. /\ tally.count = [p \in {m[2] : m \in members} |-> Cardinality(At(members, p))]
      /\ \A m \in members \ departed : listing[m[1]] = "active" /\ InPlace(tally.kind, m[1], m[2])
      /\ members \subseteq Alerts \X PlacesOf(tally.kind)
  BY <1>1, <1>2 DEF MembersHold
<1>5. DOMAIN all = tally.listed /\ \A p \in tally.listed : all[p] = CountIn(tally.kind, FALSE, p)
  BY DEF Totals
<1> HIDE DEF all
<1>6. CountsTypeOK'
  BY <1>1, <1>2, <1>3, <1>5 DEF CountsTypeOK
<1>7. MembersHold'
  BY <1>1, <1>3, <1>4 DEF MembersHold, At
<1>8. PlacesHold'
  BY <1>1, <1>2, <1>3 DEF PlacesHold, At
<1>9. ASSUME NEW p \in tally.listed
      PROVE  tally.count[p] =< all[p] + Cardinality(At(departed, p))
  <2> DEFINE X == {n \in Alerts : InPlace(tally.kind, n, p)
                              /\ Copies(Filter(FALSE), n, listing, matched) > 0}
             there == X \X {p}
  <2>1. all[p] = Cardinality(X)
    BY <1>5 DEF CountIn
  <2>2. X \in SUBSET Alerts
    OBVIOUS
  <2>3. tally.count[p] = Cardinality(At(members, p))
    BY <1>2, <1>4 DEF CountsTypeOK
  <2>4. ASSUME NEW m \in At(members, p), m \notin departed PROVE m \in there
    <3>1. m \in members /\ m[2] = p
      BY DEF At
    <3>2. m \in Alerts \X PlacesOf(tally.kind)
      BY <1>4, <3>1
    <3>3. m = <<m[1], p>> /\ m[1] \in Alerts
      BY <3>1, <3>2
    <3>4. listing[m[1]] = "active" /\ InPlace(tally.kind, m[1], p)
      BY <1>4, <2>4, <3>1
    <3>5. Copies(Filter(FALSE), m[1], listing, matched) > 0
      <4>1. Copies(Filter(FALSE), m[1], listing, matched) = 1
        BY <3>4 DEF Copies, Filter, Listed
      <4> DEFINE rows == Copies(Filter(FALSE), m[1], listing, matched)
      <4> HIDE DEF rows
      <4>2. rows = 1
        BY <4>1, Zenon DEF rows
      <4>3. rows > 0
        BY <4>2
      <4> QED BY <4>3, Zenon DEF rows
    <3>6. m[1] \in X
      BY <3>3, <3>4, <3>5, Zenon
    <3> HIDE DEF X
    <3> QED BY <3>3, <3>6
  <2> HIDE DEF X
  <2>5. IsFiniteSet(there) /\ Cardinality(there) = Cardinality(X)
    BY <2>2, PairsOfPlace
  <2> HIDE DEF there
  <2>6. At(members, p) \subseteq there \cup At(departed, p)
    BY <2>4 DEF At
  <2>7. IsFiniteSet(At(departed, p))
    <3> DEFINE Y == Alerts \X {p}
    <3>1. Alerts \in SUBSET Alerts
      OBVIOUS
    <3>2. IsFiniteSet(Y)
      BY <3>1, PairsOfPlace
    <3>3. At(departed, p) \subseteq Y
      <4>1. departed \subseteq Alerts \X PlacesOf(tally.kind)
        BY <1>2, <1>4 DEF CountsTypeOK
      <4> QED BY <4>1 DEF At
    <3> QED BY <3>2, <3>3, FS_Subset
  <2> DEFINE U == there \cup At(departed, p)
  <2>8. /\ IsFiniteSet(U)
        /\ Cardinality(U) = Cardinality(there) + Cardinality(At(departed, p))
                              - Cardinality(there \cap At(departed, p))
    BY <2>5, <2>7, FS_Union
  <2>9. Cardinality(there \cap At(departed, p)) \in Nat
    <3>1. IsFiniteSet(there \cap At(departed, p))
      BY <2>5, FS_Intersection
    <3> QED BY <3>1, FS_CardinalityType
  <2> HIDE DEF U
  <2>10. Cardinality(At(members, p)) =< Cardinality(U) /\ IsFiniteSet(At(members, p))
    BY <2>6, <2>8, FS_Subset DEF U
  <2>11. /\ Cardinality(U) \in Nat /\ Cardinality(there) \in Nat
         /\ Cardinality(At(departed, p)) \in Nat /\ Cardinality(At(members, p)) \in Nat
    BY <2>5, <2>7, <2>8, <2>10, FS_CardinalityType
  <2> QED BY <2>1, <2>3, <2>5, <2>8, <2>9, <2>10, <2>11
<1>10. FilteredWithinTotal'
  BY <1>1, <1>3, <1>9 DEF FilteredWithinTotal, At
<1> QED BY <1>2, <1>3, <1>6, <1>7, <1>8, <1>10 DEF CountsInv

\* A change of the tables between the queries: a member that leaves its place departs.
LEMMA TablesChangeHolds ==
  ASSUME CountsInv, QueriesInv', TablesChange
  PROVE  CountsInv'
<1>1. /\ tally.step # "done" /\ tally' = tally /\ members' = members
      /\ departed' = departed \cup {m \in members :
                       \/ listing'[m[1]] # "active"
                       \/ tally.kind = "divisions" /\ m \notin located'}
  BY DEF TablesChange
<1>2. CountsTypeOK /\ MembersHold /\ PlacesHold
  BY DEF CountsInv
<1>3. CountsTypeOK'
  BY <1>1, <1>2 DEF CountsTypeOK
<1>4. ASSUME tally.step \in {"rows", "totals"}, NEW m \in members \ departed'
      PROVE  (listing')[m[1]] = "active" /\ InPlace(tally.kind, m[1], m[2])'
  <2>1. m \in members \ departed /\ listing'[m[1]] = "active"
        /\ (tally.kind = "divisions" => m \in located')
    BY <1>1, <1>4
  <2>2. InPlace(tally.kind, m[1], m[2]) /\ m = <<m[1], m[2]>>
    BY <1>2, <1>4, <2>1 DEF MembersHold
  <2>3. tally.kind \in Kind
    BY <1>2 DEF CountsTypeOK
  <2> QED BY <1>1, <2>1, <2>2, <2>3 DEF InPlace, Kind
<1>5. MembersHold'
  <2>1. \A m \in members' \ departed' : tally'.step \in {"rows", "totals"} =>
          (listing')[m[1]] = "active" /\ InPlace(tally.kind, m[1], m[2])'
    BY <1>1, <1>4
  <2> QED BY <1>1, <1>2, <2>1 DEF MembersHold, At, InPlace
<1>6. PlacesHold' /\ FilteredWithinTotal'
  BY <1>1, <1>2 DEF PlacesHold, FilteredWithinTotal, At
<1> QED BY <1>1, <1>3, <1>5, <1>6 DEF CountsInv

\* Every step keeps the invariant of the counts, and is one of AlertQueries or none.
LEMMA CountsInductive == CountsInv /\ [CountsNext]_countsVars => CountsInv'
<1> SUFFICES ASSUME CountsInv, [CountsNext]_countsVars PROVE CountsInv'
  OBVIOUS
<1>1. QueriesInv'
  <2>1. [QueriesNext]_queriesVars
    BY DEF CountsNext, countsVars, TablesChange, ReadCounts, ReadPlaces, ReadTotals, QueriesNext
  <2> QED BY <2>1, QueriesInductive DEF CountsInv
<1>2. CASE TablesChange
  BY <1>1, <1>2, TablesChangeHolds
<1>3. CASE \E kind \in Kind, filtered, withEmpty \in BOOLEAN : ReadCounts(kind, filtered, withEmpty)
  BY <1>1, <1>3, ReadCountsHolds
<1>4. CASE ReadPlaces
  BY <1>1, <1>4, ReadPlacesHolds
<1>5. CASE ReadTotals
  BY <1>1, <1>5, ReadTotalsHolds
<1>6. CASE UNCHANGED countsVars
  BY <1>1, <1>6 DEF countsVars, queriesVars, CountsInv, CountsTypeOK, MembersHold, PlacesHold,
    FilteredWithinTotal, At, InPlace
<1> QED BY <1>2, <1>3, <1>4, <1>5, <1>6 DEF CountsNext

\* The tables before the request.
LEMMA CountsStart == CountsInit => CountsInv
<1> SUFFICES ASSUME CountsInit PROVE CountsInv
  OBVIOUS
<1>1. QueriesInv /\ tally = NoTally /\ members = {} /\ departed = {}
  BY QueriesStart DEF CountsInit
<1>2. CountsTypeOK /\ MembersHold /\ PlacesHold /\ FilteredWithinTotal
  BY <1>1 DEF CountsTypeOK, MembersHold, PlacesHold, FilteredWithinTotal, NoTally, Kind
<1> QED BY <1>1, <1>2 DEF CountsInv, NoTally

\* The invariant of the counts holds in every state.
LEMMA CountsInvHolds == CountsSpec => []CountsInv
BY CountsStart, CountsInductive, PTL DEF CountsSpec

\* What the numbers of the map are like (apps/cap_feed/queries.py): a count is of 1 to all
\* alerts, and the totals are of the places that were listed.
THEOREM CountsTyped == CountsSpec => []CountsTypeOK
BY CountsInvHolds, PTL DEF CountsInv

\* The numbers of the map agree with the list of the same filter, and exceed the totals,
\* read later, by no more than what left between (allCountries and admin1s, against
\* load_alert_count_by_country and load_alert_count_by_admin1).
THEOREM NumbersAlwaysAgree == CountsSpec => []NumbersAgree
<1>1. CountsInv => NumbersAgree
  <2> SUFFICES ASSUME CountsInv PROVE MapAgreesWithList
    BY DEF CountsInv, NumbersAgree
  <2>1. SUFFICES ASSUME tally.step = "done", NEW p \in PlacesOf(tally.kind)
                 PROVE  /\ p \in tally.listed => tally.count[p] = Cardinality(At(members, p))
                        /\ p \notin tally.listed => At(members, p) \subseteq departed
    BY DEF MapAgreesWithList, At
  <2>2. CountsTypeOK /\ MembersHold /\ PlacesHold
    BY DEF CountsInv
  <2> QED BY <2>1, <2>2 DEF CountsTypeOK, MembersHold, PlacesHold
<1> QED BY <1>1, CountsInvHolds, PTL

--------------------------------------------------------------------------------

(* Accounts. *)

Steps == {"idle", "create", "activate", "login", "reset", "change", "refresh", "profile"}

\* What a request keeps in memory: it is about an account that exists, but for a
\* sign up, and its copy of a row is one the account has had.
Serves(b) ==
  LET d == serving[b].data IN
  /\ serving[b].step \in Steps
  /\ serving[b].step # "idle" => d.email \in Email
  /\ serving[b].step \notin {"idle", "create"} => account[d.email] \in UserRow
  /\ serving[b].step \in {"create", "reset", "change"} => d.pw \in Password
  /\ serving[b].step \in {"login", "refresh"} => d.hash \in Hash
  /\ serving[b].step = "activate" =>
       d.link \in links /\ d.link.kind = "activation" /\ d.link.email = d.email
  /\ serving[b].step = "reset" =>
       d.link \in links /\ d.link.kind = "reset" /\ d.link.email = d.email
  /\ serving[b].step = "profile" =>
       /\ d.row \in UserRow /\ d.row.hash[2] <= changes
       /\ d.row.active = TRUE => d.email \in openedBy

\* The numbers in hashes have been given out.
Numbered ==
  /\ \A e \in Email : account[e] \in UserRow => account[e].hash[2] <= changes
  /\ \A l \in links : l.row.hash[2] <= changes

\* The activation link of an account is made before it is open.
MailedClosed == \A l \in links : l.kind = "activation" => l.row.active = FALSE

Opened == \A e \in Email : account[e] \in UserRow /\ account[e].active = TRUE => e \in openedBy

\* A reset link that was used names a password older than the present one, and an
\* activation link that was used is one of an open account.
Spent(l) ==
  /\ l \in links /\ account[l.email] \in UserRow
  /\ l.email \notin undone =>
       IF l.kind = "reset" THEN l.row.hash[2] < account[l.email].hash[2]
       ELSE l.email \notin closed => account[l.email].active = TRUE

\* A session is one of an account that exists.
Signed(b) == session[b] # NoAccount => account[session[b][1]] \in UserRow

Types ==
  /\ account \in [Email -> UserRow \cup {NoAccount}]
  /\ links \subseteq Link
  /\ session \in [Browser -> (Email \X Hash) \cup {NoAccount}]
  /\ DOMAIN serving = Browser
  /\ changes \in 0 .. MaxChanges
  /\ openedBy \cup closed \cup undone \subseteq Email
  /\ lastSet \in [Email -> Hash \cup {NoAccount}]

AccountsInv ==
  /\ Types /\ Numbered /\ MailedClosed /\ Opened
  /\ \A b \in Browser : Serves(b) /\ Signed(b)
  /\ \A l \in spent : Spent(l)

\* The columns that a request may save one by one.
LEMMA SavedColumn ==
  ASSUME Types, NEW e \in Email, account[e] \in UserRow
  PROVE  /\ \A v \in BOOLEAN : [account EXCEPT ![e].active = v] =
              [account EXCEPT ![e] = [active |-> v, hash |-> @.hash, login |-> @.login]]
         /\ \A v \in Hash : [account EXCEPT ![e].hash = v] =
              [account EXCEPT ![e] = [active |-> @.active, hash |-> v, login |-> @.login]]
         /\ \A v \in 0 .. MaxChanges : [account EXCEPT ![e].login = v] =
              [account EXCEPT ![e] = [active |-> @.active, hash |-> @.hash, login |-> v]]
BY DEF Types, UserRow

\* A request that has loaded what it goes on with.
LEMMA LoadKeeps ==
  ASSUME AccountsInv, NEW b \in Browser, NEW step, NEW data,
         Load(b, step, data), Serves(b)'
  PROVE  AccountsInv'
<1> USE DEF Load
<1>1. \A c \in Browser : Serves(c)' /\ Signed(c)'
  BY DEF AccountsInv, Serves, Signed, Types
<1>2. Types' /\ Numbered' /\ MailedClosed' /\ Opened' /\ \A l \in spent' : Spent(l)'
  BY DEF AccountsInv, Types, Numbered, MailedClosed, Opened, Spent
<1> QED BY <1>1, <1>2 DEF AccountsInv

\* One account is given another row, and nothing that requests rely on goes.
RowSaved(e, userRow) ==
  /\ e \in Email /\ userRow \in UserRow
  /\ account' = [account EXCEPT ![e] = userRow]
  /\ Types' /\ userRow.hash[2] <= changes' /\ changes <= changes'
  /\ userRow.active = TRUE => e \in openedBy'
  /\ openedBy \subseteq openedBy' /\ undone \subseteq undone' /\ closed \subseteq closed'
  /\ links \subseteq links'
  /\ \A l \in links' \ links : /\ l.row.hash[2] <= changes'
                               /\ l.kind = "activation" => l.row.active = FALSE
  /\ \A b \in Browser : /\ serving'[b] = serving[b] \/ Serves(b)'
                        /\ session'[b] = session[b] \/ Signed(b)'
  /\ \A l \in spent : l.email = e /\ e \notin undone' =>
       IF l.kind = "reset" THEN account[e].hash[2] <= userRow.hash[2]
       ELSE e \notin closed' /\ account[e].active = TRUE => userRow.active = TRUE
  /\ \A l \in spent' \ spent : Spent(l)'

LEMMA SaveKeeps ==
  ASSUME AccountsInv, NEW e, NEW userRow, RowSaved(e, userRow)
  PROVE  AccountsInv'
<1> USE DEF RowSaved
<1>1. \A f \in Email : account'[f] = IF f = e THEN userRow ELSE account[f]
  BY DEF AccountsInv, Types
<1>2. Numbered'
  BY <1>1 DEF AccountsInv, Numbered, Types, UserRow, Hash, Link
<1>3. MailedClosed' /\ Opened'
  BY <1>1 DEF AccountsInv, MailedClosed, Opened
<1>4. ASSUME NEW b \in Browser PROVE Serves(b)'
  <2> SUFFICES ASSUME serving'[b] = serving[b] PROVE Serves(b)'
    OBVIOUS
  <2>1. Serves(b)
    BY DEF AccountsInv
  <2> QED BY <1>1, <2>1 DEF Serves, AccountsInv, Types, UserRow, Hash
<1>5. ASSUME NEW l \in spent' PROVE Spent(l)'
  <2> SUFFICES ASSUME l \in spent PROVE Spent(l)'
    OBVIOUS
  <2>1. Spent(l) /\ l \in Link
    BY DEF AccountsInv, Types, Spent
  <2> QED BY <1>1, <2>1 DEF Spent, AccountsInv, Types, UserRow, Hash, Link
<1>6. ASSUME NEW b \in Browser PROVE Signed(b)'
  BY <1>1 DEF Signed, AccountsInv, Types
<1> QED BY <1>2, <1>3, <1>4, <1>5, <1>6 DEF AccountsInv

\* A request that only validates: what it keeps in memory is what it has checked.
LEMMA ValidatesKeeps ==
  ASSUME AccountsInv, NEW b \in Browser, Validates(b)
  PROVE  AccountsInv'
<1> USE DEF AccountsInv
<1>0. SignedIn(b) => account[session[b][1]] \in UserRow
  BY DEF SignedIn, Signed
<1>1. ASSUME NEW e \in Email, NEW p \in Password, Register(b, e, p) PROVE AccountsInv'
  <2>1. Serves(b)'
    BY <1>1 DEF Register, Load, Serves, Types, Steps
  <2> QED BY <1>1, <2>1, LoadKeeps DEF Register
<1>2. ASSUME NEW e \in Email, NEW p \in Password, Authenticate(b, e, p) PROVE AccountsInv'
  <2>1. account[e] \in UserRow /\ account[e].hash \in Hash
    BY <1>2 DEF Authenticate, Registered, Types, UserRow
  <2>2. Serves(b)'
    BY <1>2, <2>1 DEF Authenticate, Load, Serves, Types, Steps
  <2> QED BY <1>2, <2>2, LoadKeeps DEF Authenticate
<1>3. ASSUME NEW l \in links, FollowActivation(b, l) PROVE AccountsInv'
  <2>1. l.email \in Email /\ account[l.email] \in UserRow
    BY <1>3 DEF FollowActivation, ActivationLinkHolds, Types, Link
  <2>2. Serves(b)'
    BY <1>3, <2>1 DEF FollowActivation, Load, Serves, Types, Steps
  <2> QED BY <1>3, <2>2, LoadKeeps DEF FollowActivation
<1>4. ASSUME NEW l \in links, NEW p \in Password, FollowReset(b, l, p) PROVE AccountsInv'
  <2>1. l.email \in Email /\ account[l.email] \in UserRow
    BY <1>4 DEF FollowReset, ResetLinkHolds, Types, Link
  <2>2. Serves(b)'
    BY <1>4, <2>1 DEF FollowReset, Load, Serves, Types, Steps
  <2> QED BY <1>4, <2>2, LoadKeeps DEF FollowReset
<1>5. ASSUME NEW p \in Password, ChangePassword(b, p) PROVE AccountsInv'
  <2>1. session[b][1] \in Email /\ session[b] \in Email \X Hash
    BY <1>5 DEF ChangePassword, SignedIn, Types
  <2>2. account[session[b][1]] \in UserRow
    BY <1>5, <2>1, <1>0 DEF ChangePassword
  <2>3. Serves(b)'
    BY <1>5, <2>1, <2>2 DEF ChangePassword, Load, Serves, Types, Steps
  <2> QED BY <1>5, <2>3, LoadKeeps DEF ChangePassword
<1>6. CASE UpdateMe(b)
  <2>1. session[b][1] \in Email /\ session[b] \in Email \X Hash
    BY <1>6 DEF UpdateMe, SignedIn, Types
  <2>2. account[session[b][1]] \in UserRow
    BY <1>6, <2>1, <1>0 DEF UpdateMe
  <2>3. Serves(b)'
    BY <1>6, <2>1, <2>2 DEF UpdateMe, Load, Serves, Types, Steps, Numbered, Opened
  <2> QED BY <1>6, <2>3, LoadKeeps DEF UpdateMe
<1> QED BY <1>1, <1>2, <1>3, <1>4, <1>5, <1>6 DEF Validates

\* A request that is over keeps nothing in memory.
LEMMA OverIsServed ==
  ASSUME Types, NEW b \in Browser, Done(b)
  PROVE  \A c \in Browser : serving'[c] = serving[c] \/ Serves(c)'
BY DEF Types, Done, NoRequest, Serves, Steps

\* A sign up: the address is taken, or it gets an account that is not open.
LEMMA CreateUserKeeps ==
  ASSUME AccountsInv, NEW b \in Browser, CreateUser(b)
  PROVE  AccountsInv'
<1> DEFINE e == Data(b).email
           userRow == NewRow(Data(b).pw)
<1> USE DEF AccountsInv
<1>1. e \in Email /\ Data(b).pw \in Password
  BY DEF CreateUser, Serves, Data
<1>2. \A c \in Browser : serving'[c] = serving[c] \/ Serves(c)'
  BY OverIsServed DEF CreateUser
<1>3. CASE Registered(e)
  <2>1. UNCHANGED <<account, links, session, changes, spent, openedBy, closed, lastSet, undone>>
    BY <1>3 DEF CreateUser
  <2>2. Types' /\ Numbered' /\ MailedClosed' /\ Opened' /\ \A l \in spent' : Spent(l)'
    BY <2>1 DEF CreateUser, Done, Types, Numbered, MailedClosed, Opened, Spent
  <2>3. \A c \in Browser : Serves(c)' /\ Signed(c)'
    BY <1>2, <2>1 DEF Serves, Signed
  <2> QED BY <2>2, <2>3
<1>4. CASE ~Registered(e)
  <2>1. /\ changes' = changes + 1 /\ changes' \in 0 .. MaxChanges
        /\ account' = [account EXCEPT ![e] = userRow]
        /\ lastSet' = [lastSet EXCEPT ![e] = account'[e].hash]
        /\ links \subseteq links'
        /\ links' \subseteq links \cup {[kind |-> "activation", email |-> e, row |-> account'[e]]}
        /\ UNCHANGED <<session, spent, openedBy, closed, undone>>
    BY <1>4, AccountsAssumption DEF CreateUser, Number, Types
  <2>2. userRow \in UserRow /\ userRow.active = FALSE /\ userRow.hash[2] = changes'
    BY <1>1, <2>1, AccountsAssumption DEF NewRow, SetPassword, UserRow, Hash, Types
  <2>3. account'[e] = userRow
    BY <1>1, <2>1 DEF Types
  <2>4. Types'
    BY <1>1, <2>1, <2>2, <2>3 DEF Types, CreateUser, Done, UserRow, Link
  <2>5. account[e] \notin UserRow
    BY <1>4, AccountsAssumption DEF Registered
  <2>6. \A l \in spent : l.email # e
    BY <2>5 DEF Spent
  <2>7. \A l \in links' \ links : /\ l.row.hash[2] <= changes'
                                  /\ l.kind = "activation" => l.row.active = FALSE
    BY <2>1, <2>2, <2>3
  <2> HIDE DEF userRow, AccountsInv
  <2>8. changes <= changes'
    BY <2>1 DEF AccountsInv, Types
  <2>9. RowSaved(e, userRow)
    BY <1>1, <1>2, <2>1, <2>2, <2>4, <2>6, <2>7, <2>8 DEF RowSaved
  <2> QED BY <2>9, SaveKeeps
<1> QED BY <1>3, <1>4

\* The account of a link is opened.
LEMMA ActivateSaveKeeps ==
  ASSUME AccountsInv, NEW b \in Browser, ActivateSave(b)
  PROVE  AccountsInv'
<1> DEFINE e == Data(b).email
           userRow == [active |-> TRUE, hash |-> account[e].hash, login |-> account[e].login]
<1> USE DEF AccountsInv
<1>1. /\ e \in Email /\ account[e] \in UserRow
      /\ Data(b).link \in links /\ Data(b).link.kind = "activation" /\ Data(b).link.email = e
  BY DEF ActivateSave, Serves, Data
<1>2. userRow \in UserRow
  BY <1>1 DEF UserRow
<1>3. account' = [account EXCEPT ![e] = userRow]
  BY <1>1, SavedColumn DEF ActivateSave
<1>4. /\ spent' = spent \cup {Data(b).link} /\ openedBy' = openedBy \cup {e}
      /\ UNCHANGED <<links, session, changes, lastSet, undone, closed>>
  BY DEF ActivateSave
<1>5. account'[e] = userRow /\ account' \in [Email -> UserRow \cup {NoAccount}]
  BY <1>1, <1>2, <1>3 DEF Types
<1>6. Types'
  BY <1>1, <1>4, <1>5 DEF Types, ActivateSave, Done
<1>7. \A l \in spent' \ spent : Spent(l)'
  BY <1>1, <1>2, <1>4, <1>5 DEF Spent
<1>8. userRow.hash[2] <= changes'
  BY <1>1, <1>4 DEF Numbered
<1> HIDE DEF userRow
<1>9. \A l \in spent : l.email = e =>
        IF l.kind = "reset" THEN account[e].hash[2] <= userRow.hash[2] ELSE userRow.active = TRUE
  BY <1>1 DEF userRow, Types, UserRow, Hash
<1>10. \A c \in Browser : serving'[c] = serving[c] \/ Serves(c)'
  BY OverIsServed DEF ActivateSave
<1>11. changes <= changes'
  BY <1>4 DEF Types
<1> HIDE DEF AccountsInv
<1>12. RowSaved(e, userRow)
  BY <1>1, <1>2, <1>3, <1>4, <1>5, <1>6, <1>7, <1>8, <1>9, <1>10, <1>11
     DEF RowSaved
<1> QED BY <1>12, SaveKeeps

\* An account is given a password: its hash has a number of its own.
LEMMA SavePasswordKeeps ==
  ASSUME AccountsInv, NEW b \in Browser, SavePassword(b),
         Data(b).email \in Email, account[Data(b).email] \in UserRow,
         Data(b).pw \in Password, DOMAIN serving' = Browser,
         \A c \in Browser : serving'[c] = serving[c] \/ Serves(c)',
         \A l \in spent' \ spent :
           l \in links /\ l.kind = "reset" /\ l.email = Data(b).email,
         UNCHANGED <<links, session, openedBy, undone, closed>>
  PROVE  AccountsInv'
<1> DEFINE e == Data(b).email
           userRow == [active |-> account[e].active, hash |-> SetPassword(Data(b).pw),
                   login |-> account[e].login]
<1> USE DEF AccountsInv
<1>1. changes' = changes + 1 /\ changes' \in 0 .. MaxChanges /\ changes <= changes'
  BY AccountsAssumption DEF SavePassword, Number, Types
<1>2. SetPassword(Data(b).pw) \in Hash /\ SetPassword(Data(b).pw)[2] = changes'
  BY <1>1 DEF SetPassword, Hash
<1>3. userRow \in UserRow
  BY <1>2 DEF UserRow
<1>4. account' = [account EXCEPT ![e] = userRow]
  BY <1>2, SavedColumn DEF SavePassword
<1>5. account'[e] = userRow /\ account' \in [Email -> UserRow \cup {NoAccount}]
  BY <1>3, <1>4 DEF Types
<1>6. Types'
  BY <1>1, <1>2, <1>5 DEF Types, SavePassword
<1>7. userRow.hash[2] = changes' /\ (userRow.active = TRUE => e \in openedBy')
  BY <1>2 DEF Opened
<1>8. \A l \in spent' \ spent : Spent(l)'
  <2>1. \A l \in links : l.row.hash[2] \in Int /\ l.row.hash[2] <= changes
    BY DEF Numbered, Types, Link, UserRow, Hash
  <2> QED BY <1>1, <1>3, <1>5, <1>7, <2>1 DEF Spent, Types
<1>9. \A l \in spent : l.email = e =>
        IF l.kind = "reset" THEN account[e].hash[2] <= userRow.hash[2]
        ELSE account[e].active = TRUE => userRow.active = TRUE
  <2>1. account[e].hash[2] \in Int /\ account[e].hash[2] <= changes
    BY DEF Numbered, UserRow, Hash
  <2> QED BY <1>1, <1>7, <2>1 DEF Types
<1> HIDE DEF userRow, AccountsInv
<1>10. RowSaved(e, userRow)
  BY <1>1, <1>3, <1>4, <1>6, <1>7, <1>8, <1>9 DEF RowSaved
<1> QED BY <1>10, SaveKeeps

\* A password that is reset by a link, or changed in a session.
LEMMA PasswordsKeep ==
  ASSUME AccountsInv, NEW b \in Browser, ResetSave(b) \/ ChangeSave(b)
  PROVE  AccountsInv'
<1>1. /\ Data(b).email \in Email /\ account[Data(b).email] \in UserRow
      /\ Data(b).pw \in Password /\ SavePassword(b)
      /\ UNCHANGED <<links, session, openedBy, undone, closed>>
  BY DEF AccountsInv, ResetSave, ChangeSave, Serves, Data
<1>2. CASE ResetSave(b)
  <2>1. \A c \in Browser : serving'[c] = serving[c] \/ Serves(c)'
    BY <1>2, OverIsServed DEF ResetSave, AccountsInv
  <2>2. \A l \in spent' \ spent :
          l \in links /\ l.kind = "reset" /\ l.email = Data(b).email
    BY <1>2 DEF AccountsInv, ResetSave, Serves, Data
  <2>3. DOMAIN serving' = Browser
    BY <1>2 DEF AccountsInv, Types, ResetSave, Done
  <2> QED BY <1>1, <2>1, <2>2, <2>3, SavePasswordKeeps
<1>3. CASE ChangeSave(b)
  <2>1. spent' = spent /\ DOMAIN serving' = Browser
    BY <1>3 DEF AccountsInv, Types, ChangeSave
  <2>2. /\ serving'[b].step = "refresh" /\ serving'[b].data.email = Data(b).email
        /\ serving'[b].data.hash = SetPassword(Data(b).pw)
    BY <1>3 DEF AccountsInv, Types, ChangeSave
  <2>3. SetPassword(Data(b).pw) \in Hash
    BY <1>1, AccountsAssumption DEF SetPassword, SavePassword, Number, Hash, AccountsInv, Types
  <2>4. account'[Data(b).email] \in UserRow
    BY <1>1, <2>3, SavedColumn DEF SavePassword, UserRow, AccountsInv, Types
  <2>5. Serves(b)'
    BY <1>1, <2>2, <2>3, <2>4 DEF Serves, Steps
  <2>6. \A c \in Browser : serving'[c] = serving[c] \/ Serves(c)'
    BY <1>3, <2>5 DEF AccountsInv, Types, ChangeSave
  <2> QED BY <1>1, <2>1, <2>6, SavePasswordKeeps
<1> QED BY <1>2, <1>3

\* A login saves its time.
LEMMA LoginKeeps ==
  ASSUME AccountsInv, NEW b \in Browser, Login(b)
  PROVE  AccountsInv'
<1> DEFINE e == Data(b).email
           userRow == [active |-> account[e].active, hash |-> account[e].hash, login |-> changes']
<1> USE DEF AccountsInv
<1>1. e \in Email /\ account[e] \in UserRow /\ Data(b).hash \in Hash
  BY DEF Login, Serves, Data
<1>2. changes' = changes + 1 /\ changes' \in 0 .. MaxChanges /\ changes <= changes'
  BY AccountsAssumption DEF Login, Number, Types
<1>3. userRow \in UserRow
  BY <1>1, <1>2 DEF UserRow
<1>4. account' = [account EXCEPT ![e] = userRow]
  BY <1>1, <1>2, SavedColumn DEF Login
<1>5. account'[e] = userRow /\ account' \in [Email -> UserRow \cup {NoAccount}]
  BY <1>1, <1>3, <1>4 DEF Types
<1>6. /\ session' = [session EXCEPT ![b] = <<e, Data(b).hash>>]
      /\ UNCHANGED <<links, spent, openedBy, lastSet, undone, closed>>
  BY DEF Login
<1>7. Types'
  BY <1>1, <1>2, <1>5, <1>6 DEF Types, Login, Done
<1>8. \A c \in Browser : /\ serving'[c] = serving[c] \/ Serves(c)'
                         /\ session'[c] = session[c] \/ Signed(c)'
  BY <1>1, <1>3, <1>5, <1>6, OverIsServed DEF Login, Types, Signed
<1>9. /\ userRow.active = TRUE => e \in openedBy'
      /\ userRow.hash[2] <= changes' /\ account[e].hash[2] <= userRow.hash[2]
  BY <1>1, <1>2, <1>6 DEF Opened, Numbered, Types, UserRow, Hash
<1>10. account[e].active = TRUE => userRow.active = TRUE
  OBVIOUS
<1> HIDE DEF userRow, AccountsInv
<1>11. RowSaved(e, userRow)
  BY <1>1, <1>2, <1>3, <1>4, <1>6, <1>7, <1>8, <1>9, <1>10 DEF RowSaved
<1> QED BY <1>11, SaveKeeps

\* A profile update saves the row that its request has loaded: it changes nothing,
\* or sets the account back.
LEMMA ProfileSaveKeeps ==
  ASSUME AccountsInv, NEW b \in Browser, ProfileSave(b)
  PROVE  AccountsInv'
<1> DEFINE e == Data(b).email
           userRow == Data(b).row
<1> USE DEF AccountsInv
<1>1. /\ e \in Email /\ account[e] \in UserRow
      /\ userRow \in UserRow /\ userRow.hash[2] <= changes /\ (userRow.active = TRUE => e \in openedBy)
  BY DEF ProfileSave, Serves, Data
<1>2. /\ account' = [account EXCEPT ![e] = userRow]
      /\ undone' = IF account' = account THEN undone ELSE undone \cup {e}
      /\ UNCHANGED <<links, session, changes, spent, openedBy, lastSet, closed>>
  BY DEF ProfileSave
<1>3. Types' /\ changes <= changes'
  BY <1>1, <1>2 DEF Types, ProfileSave, Done
<1>4. \A c \in Browser : serving'[c] = serving[c] \/ Serves(c)'
  BY OverIsServed DEF ProfileSave
<1>5. e \notin undone' => account[e] = userRow
  BY <1>1, <1>2 DEF Types
<1>6. userRow.hash[2] \in Int
  BY <1>1 DEF UserRow, Hash
<1> HIDE DEF userRow, AccountsInv
<1>7. RowSaved(e, userRow)
  BY <1>1, <1>2, <1>3, <1>4, <1>5, <1>6 DEF RowSaved
<1> QED BY <1>7, SaveKeeps

\* An admin opens or closes an account.
LEMMA AdminSwitchKeeps ==
  ASSUME AccountsInv, NEW e \in Email, AdminSwitch(e)
  PROVE  AccountsInv'
<1> DEFINE userRow == [account[e] EXCEPT !.active = ~@]
<1> USE DEF AccountsInv
<1>1. account[e] \in UserRow
  BY DEF AdminSwitch, Registered, Types
<1>2. userRow \in UserRow
  BY <1>1 DEF UserRow
<1>3. userRow.hash = account[e].hash
  BY <1>1 DEF UserRow
<1>4. account' = [account EXCEPT ![e] = userRow]
  BY <1>1 DEF AdminSwitch, Types, UserRow
<1>5. /\ openedBy' = openedBy \cup {e}
      /\ closed' = IF account[e].active THEN closed \cup {e} ELSE closed
      /\ UNCHANGED <<links, session, serving, changes, spent, lastSet, undone>>
  BY DEF AdminSwitch
<1>6. account'[e] = userRow /\ account' \in [Email -> UserRow \cup {NoAccount}]
  BY <1>1, <1>2, <1>4 DEF Types
<1>7. Types' /\ changes <= changes'
  BY <1>5, <1>6 DEF Types
<1>8. userRow.hash[2] <= changes' /\ account[e].hash[2] <= userRow.hash[2]
  BY <1>1, <1>3, <1>5 DEF Numbered, UserRow, Hash, Types
<1>9. e \notin closed' /\ account[e].active = TRUE => userRow.active = TRUE
  BY <1>5
<1> HIDE DEF userRow, AccountsInv
<1>10. RowSaved(e, userRow)
  BY <1>1, <1>2, <1>4, <1>5, <1>7, <1>8, <1>9 DEF RowSaved
<1> QED BY <1>10, SaveKeeps

\* Steps that leave the accounts alone: a link is mailed, a session ends or goes on.
LEMMA OthersKeep ==
  ASSUME AccountsInv,
         \/ \E e \in Email : TriggerReset(e)
         \/ \E b \in Browser : Logout(b) \/ ChangeRefresh(b)
  PROVE  AccountsInv'
<1> USE DEF AccountsInv
<1>1. UNCHANGED <<account, changes, spent, openedBy, lastSet, undone, closed>>
  BY DEF TriggerReset, Logout, ChangeRefresh
<1>2. ASSUME NEW e \in Email, TriggerReset(e) PROVE AccountsInv'
  <2>1. account[e] \in UserRow /\ links \subseteq links' /\ UNCHANGED <<session, serving>>
    BY <1>2 DEF TriggerReset, Registered, Types
  <2>2. Types' /\ Numbered' /\ MailedClosed'
    BY <1>1, <1>2, <2>1 DEF TriggerReset, Types, Numbered, MailedClosed, Link
  <2>3. Opened' /\ (\A b \in Browser : Serves(b)' /\ Signed(b)') /\ \A l \in spent' : Spent(l)'
    BY <1>1, <2>1 DEF Opened, Serves, Signed, Spent
  <2> QED BY <2>2, <2>3
<1>3. ASSUME NEW b \in Browser, Logout(b) \/ ChangeRefresh(b) PROVE AccountsInv'
  <2>1. links' = links
    BY <1>3 DEF Logout, ChangeRefresh
  <2>2. Numbered' /\ MailedClosed' /\ Opened' /\ \A l \in spent' : Spent(l)'
    BY <1>1, <2>1 DEF Numbered, MailedClosed, Opened, Spent
  <2>3. CASE Logout(b)
    <3>1. Types' /\ serving' = serving
      BY <1>1, <2>1, <2>3 DEF Logout, Types
    <3>2. \A c \in Browser : Serves(c)' /\ Signed(c)'
      BY <1>1, <2>1, <2>3, <3>1 DEF Logout, Serves, Signed, Types
    <3> QED BY <2>2, <3>1, <3>2
  <2>4. CASE ChangeRefresh(b)
    <3>1. /\ Data(b).email \in Email /\ Data(b).hash \in Hash
          /\ account[Data(b).email] \in UserRow
      BY <2>4 DEF ChangeRefresh, Serves, Data
    <3>2. session' = [session EXCEPT ![b] = <<Data(b).email, Data(b).hash>>]
      BY <2>4 DEF ChangeRefresh, Refreshed
    <3>3. Types'
      BY <1>1, <2>1, <2>4, <3>1, <3>2 DEF Types, ChangeRefresh, Done
    <3>4. \A c \in Browser : Signed(c)'
      BY <1>1, <3>1, <3>2 DEF Signed, Types
    <3>5. \A c \in Browser : serving'[c] = serving[c] \/ Serves(c)'
      BY <2>4, OverIsServed DEF ChangeRefresh
    <3>6. \A c \in Browser : Serves(c)'
      BY <1>1, <2>1, <3>5 DEF Serves
    <3> QED BY <2>2, <3>3, <3>4, <3>6
  <2> QED BY <1>3, <2>3, <2>4
<1> QED BY <1>2, <1>3

LEMMA AccountsInductive == AccountsInv /\ [AccountsNext]_accountsVars => AccountsInv'
<1> SUFFICES ASSUME AccountsInv, [AccountsNext]_accountsVars PROVE AccountsInv'
  OBVIOUS
<1>1. CASE UNCHANGED accountsVars
  BY <1>1 DEF accountsVars, AccountsInv, Types, Numbered, MailedClosed, Opened, Serves, Signed,
     Spent
<1>2. CASE AccountsNext
  BY <1>2, ValidatesKeeps, CreateUserKeeps, ActivateSaveKeeps, PasswordsKeep, LoginKeeps,
     ProfileSaveKeeps, AdminSwitchKeeps, OthersKeep DEF AccountsNext, Saves
<1> QED BY <1>1, <1>2

LEMMA AccountsInvHolds == AccountsSpec => []AccountsInv
<1>1. AccountsInit => AccountsInv
  BY AccountsAssumption DEF AccountsInit, AccountsInv, Types, Numbered, MailedClosed, Opened,
     Serves, Signed, Spent, NoRequest, Steps
<1> QED BY <1>1, AccountsInductive, PTL DEF AccountsSpec

\* The rows, sessions and requests have their types.
THEOREM AccountsTyped == AccountsSpec => []AccountsTypeOK
<1>1. AccountsInv => AccountsTypeOK
  BY DEF AccountsInv, Types, Serves, Steps, Spent, AccountsTypeOK
<1> QED BY <1>1, AccountsInvHolds, PTL

\* An account is open only after its link was followed, or an admin opened it,
\* whatever requests run side by side and whichever mails fail
\* (account_activation and register, apps/user/serializers.py).
THEOREM OpenedByItsLink == AccountsSpec => []ActiveByLink
<1>1. AccountsInv => ActiveByLink
  BY DEF AccountsInv, Types, Opened, ActiveByLink, Registered
<1> QED BY <1>1, AccountsInvHolds, PTL

\* A link that was used is refused from then on, for an account that no profile
\* update has set back and, for an activation link, no admin has closed
\* (main/tokens.py; apps/user/serializers.py).
THEOREM LinksWorkOnce == AccountsSpec => []SpentLinkIsDead
<1>1. ASSUME AccountsInv, NEW l \in spent, l.email \notin undone
      PROVE  IF l.kind = "reset" THEN ~ResetLinkHolds(l, account[l.email])
             ELSE l.email \notin closed => ~ActivationLinkHolds(l, account[l.email])
  <2>1. l \in Link /\ Spent(l) /\ l \in links /\ account[l.email] \in UserRow
    BY <1>1 DEF AccountsInv, Types, Spent
  <2>2. CASE l.kind = "reset"
    BY <1>1, <2>1, <2>2 DEF Spent, ResetLinkHolds, Link, UserRow, Hash
  <2>3. CASE l.kind # "reset"
    BY <1>1, <2>1, <2>3 DEF Spent, ActivationLinkHolds, AccountsInv, MailedClosed, Link
  <2> QED BY <2>2, <2>3
<1>2. AccountsInv => SpentLinkIsDead
  BY <1>1 DEF SpentLinkIsDead
<1> QED BY <1>2, AccountsInvHolds, PTL

\* Links do what they are mailed for and no more, for every set of addresses,
\* passwords and browsers (account_activation, password_reset_confirm, register).
THEOREM LinksAreSafe == AccountsSpec => []LinksHold
BY OpenedByItsLink, LinksWorkOnce, PTL DEF LinksHold

\* What a session or a request holds of a password was given out before, and a
\* password is the last one set unless a profile update set the account back.
SessionNumbered(b) == session[b] # NoAccount => session[b][2][2] <= changes

RequestNumbered(b) == serving[b].step \in {"login", "refresh"} => serving[b].data.hash[2] <= changes

LastIsSet == \A e \in Email : account[e] \in UserRow /\ e \notin undone => account[e].hash = lastSet[e]

SessionInv == LastIsSet /\ \A b \in Browser : SessionNumbered(b) /\ RequestNumbered(b)

\* Rows keep their hash, but for passwords that are set and accounts that are set
\* back.
LEMMA LastIsKept ==
  ASSUME AccountsInv, LastIsSet, undone \subseteq undone',
         \A e \in Email :
           \/ e \in undone'
           \/ account'[e] \in UserRow => account[e] \in UserRow /\ account'[e].hash = account[e].hash
              /\ lastSet'[e] = lastSet[e]
           \/ account'[e] \in UserRow => account'[e].hash = lastSet'[e]
  PROVE  LastIsSet'
BY DEF LastIsSet

LEMMA NumbersAreInts ==
  ASSUME AccountsInv
  PROVE  /\ changes \in Int
         /\ \A b \in Browser : session[b] # NoAccount => session[b][2] \in Hash /\ session[b][2][2] \in Int
         /\ \A b \in Browser : serving[b].step \in {"login", "refresh"} => serving[b].data.hash[2] \in Int
BY AccountsAssumption DEF AccountsInv, Types, Serves, Hash

LEMMA SessionsFrame ==
  ASSUME AccountsInv, AccountsInv', SessionInv, changes' >= changes,
         NEW b \in Browser,
         \A c \in Browser \ {b} : session'[c] = session[c] /\ serving'[c] = serving[c],
         session'[b] = session[b] \/ SessionNumbered(b)', RequestNumbered(b)'
  PROVE  \A c \in Browser : SessionNumbered(c)' /\ RequestNumbered(c)'
<1> SUFFICES ASSUME NEW c \in Browser PROVE SessionNumbered(c)' /\ RequestNumbered(c)'
  OBVIOUS
<1>1. SessionNumbered(c) /\ RequestNumbered(c)
  BY DEF SessionInv
<1>2. changes \in Int /\ changes' \in Int
  BY AccountsAssumption DEF AccountsInv, Types
<1>3. CASE c = b
  BY <1>1, <1>2, <1>3, NumbersAreInts DEF SessionNumbered
<1>4. CASE c # b
  BY <1>1, <1>2, <1>4, NumbersAreInts DEF SessionNumbered, RequestNumbered
<1> QED BY <1>3, <1>4

\* A request that is over or goes on to a step that holds no hash.
LEMMA OtherBrowsers ==
  ASSUME Types, NEW b \in Browser, NEW v, serving' = [serving EXCEPT ![b] = v]
  PROVE  serving'[b] = v /\ \A c \in Browser \ {b} : serving'[c] = serving[c]
BY DEF Types

LEMMA DoneIsIdle ==
  ASSUME Types, NEW b \in Browser, Done(b)
  PROVE  /\ serving'[b].step = "idle" /\ RequestNumbered(b)'
         /\ \A c \in Browser \ {b} : serving'[c] = serving[c]
<1>1. /\ serving'[b] = NoRequest
      /\ \A c \in Browser \ {b} : serving'[c] = serving[c]
  BY OtherBrowsers DEF Done
<1> QED BY <1>1 DEF NoRequest, RequestNumbered

LEMMA LoadedIsNumbered ==
  ASSUME AccountsInv, AccountsInv', SessionInv, NEW b \in Browser, NEW step \in Steps, NEW data,
         Load(b, step, data), step \in {"login", "refresh"} => data.hash[2] <= changes
  PROVE  SessionInv'
<1>1. /\ serving'[b] = [step |-> step, data |-> data]
      /\ \A c \in Browser \ {b} : serving'[c] = serving[c]
  BY OtherBrowsers DEF Load, AccountsInv
<1>2. UNCHANGED <<account, session, changes, lastSet, undone>>
  BY DEF Load
<1>3. RequestNumbered(b)'
  BY <1>1, <1>2 DEF RequestNumbered
<1>4. LastIsSet'
  BY <1>2 DEF SessionInv, LastIsSet
<1>5. changes' >= changes
  BY <1>2, NumbersAreInts
<1> QED BY <1>1, <1>2, <1>3, <1>4, <1>5, SessionsFrame DEF SessionInv

LEMMA ValidatesSessions ==
  ASSUME AccountsInv, AccountsInv', SessionInv, NEW b \in Browser, Validates(b)
  PROVE  SessionInv'
<1>1. \A e \in Email : account[e] # NoAccount => account[e].hash[2] <= changes
  BY DEF AccountsInv, Types, Numbered
<1>2. ASSUME NEW e \in Email, NEW p \in Password, Register(b, e, p) PROVE SessionInv'
  BY <1>2, LoadedIsNumbered DEF Register, Steps
<1>3. ASSUME NEW e \in Email, NEW p \in Password, Authenticate(b, e, p) PROVE SessionInv'
  BY <1>1, <1>3, LoadedIsNumbered DEF Authenticate, Steps, Registered
<1>4. ASSUME NEW l \in links, FollowActivation(b, l) PROVE SessionInv'
  BY <1>4, LoadedIsNumbered DEF FollowActivation, Steps
<1>5. ASSUME NEW l \in links, NEW p \in Password, FollowReset(b, l, p) PROVE SessionInv'
  BY <1>5, LoadedIsNumbered DEF FollowReset, Steps
<1>6. ASSUME NEW p \in Password, ChangePassword(b, p) PROVE SessionInv'
  BY <1>6, LoadedIsNumbered DEF ChangePassword, Steps
<1>7. CASE UpdateMe(b)
  BY <1>7, LoadedIsNumbered DEF UpdateMe, Steps
<1> QED BY <1>2, <1>3, <1>4, <1>5, <1>6, <1>7 DEF Validates

LEMMA SavesSessions ==
  ASSUME AccountsInv, AccountsInv', SessionInv, NEW b \in Browser, Saves(b)
  PROVE  SessionInv'
<1> USE DEF SessionInv
<1>1. Types /\ changes \in Int /\ serving[b].step # "idle"
  BY AccountsAssumption
  DEF AccountsInv, Types, Saves, CreateUser, ActivateSave, ResetSave, Login, ChangeSave,
      ChangeRefresh, ProfileSave
<1>2. Data(b).email \in Email
  BY <1>1 DEF AccountsInv, Serves, Data
<1>3. CASE CreateUser(b)
  <2>1. /\ UNCHANGED <<session, undone>> /\ Done(b)
        /\ \/ UNCHANGED <<account, changes, lastSet>>
           \/ /\ changes' = changes + 1
              /\ account' = [account EXCEPT ![Data(b).email] = NewRow(Data(b).pw)]
              /\ lastSet' = [lastSet EXCEPT ![Data(b).email] = account'[Data(b).email].hash]
    BY <1>3 DEF CreateUser, Number
  <2>2. LastIsSet'
    BY <2>1, <1>1, <1>2, LastIsKept DEF Types
  <2>3. changes' >= changes
    BY <1>1, <2>1
  <2> QED BY <1>1, <2>1, <2>2, <2>3, DoneIsIdle, SessionsFrame
<1>4. CASE ActivateSave(b)
  <2>1. /\ UNCHANGED <<session, changes, lastSet, undone>> /\ Done(b)
        /\ account' = [account EXCEPT ![Data(b).email].active = TRUE]
        /\ account[Data(b).email] \in UserRow
    BY <1>4 DEF ActivateSave, AccountsInv, Serves, Data
  <2>2. \A e \in Email : account'[e] \in UserRow => account[e] \in UserRow /\ account'[e].hash = account[e].hash
    BY <1>1, <1>2, <2>1 DEF Types, UserRow
  <2>3. LastIsSet'
    BY <2>1, <2>2 DEF LastIsSet
  <2> QED BY <1>1, <2>1, <2>3, DoneIsIdle, SessionsFrame
<1>5. CASE ResetSave(b) \/ ChangeSave(b)
  <2>1. /\ UNCHANGED <<session, undone>> /\ changes' = changes + 1
        /\ account' = [account EXCEPT ![Data(b).email].hash = SetPassword(Data(b).pw)]
        /\ lastSet' = [lastSet EXCEPT ![Data(b).email] = SetPassword(Data(b).pw)]
    BY <1>5 DEF ResetSave, ChangeSave, SavePassword, Number
  <2>2. account[Data(b).email] \in UserRow
    BY <1>5 DEF ResetSave, ChangeSave, AccountsInv, Serves, Data
  <2>3. /\ account'[Data(b).email].hash = SetPassword(Data(b).pw)
        /\ lastSet'[Data(b).email] = SetPassword(Data(b).pw)
        /\ \A e \in Email \ {Data(b).email} : account'[e] = account[e] /\ lastSet'[e] = lastSet[e]
    BY <1>1, <1>2, <2>1, <2>2 DEF Types, UserRow
  <2>4. LastIsSet'
    BY <2>1, <2>3 DEF LastIsSet
  <2>5. RequestNumbered(b)' /\ \A c \in Browser \ {b} : serving'[c] = serving[c]
    <3>1. CASE ResetSave(b)
      BY <1>1, <3>1, DoneIsIdle DEF ResetSave
    <3>2. CASE ChangeSave(b)
      <4>1. serving' = [serving EXCEPT ![b] = [step |-> "refresh",
              data |-> [email |-> Data(b).email, hash |-> SetPassword(Data(b).pw)]]]
        BY <3>2 DEF ChangeSave
      <4>2. SetPassword(Data(b).pw)[2] = changes'
        BY <2>1 DEF SetPassword
      <4>3. /\ serving'[b].data.hash = SetPassword(Data(b).pw)
            /\ \A c \in Browser \ {b} : serving'[c] = serving[c]
        <5>1. b \in DOMAIN serving /\ DOMAIN serving = Browser
          BY <1>1 DEF Types
        <5> QED BY <4>1, <5>1
      <4>4. changes' \in Int
        BY <1>1, <2>1
      <4> QED BY <4>2, <4>3, <4>4 DEF RequestNumbered
    <3> QED BY <1>5, <3>1, <3>2
  <2>6. changes' >= changes
    BY <1>1, <2>1
  <2> QED BY <2>1, <2>4, <2>5, <2>6, SessionsFrame
<1>6. CASE Login(b)
  <2>1. /\ UNCHANGED <<lastSet, undone>> /\ Done(b) /\ changes' = changes + 1
        /\ session' = [session EXCEPT ![b] = <<Data(b).email, Data(b).hash>>]
        /\ account' = [account EXCEPT ![Data(b).email].login = changes']
        /\ account[Data(b).email] \in UserRow /\ Data(b).hash[2] <= changes
        /\ serving[b].step = "login"
    BY <1>6 DEF Login, AccountsInv, Serves, Data, Number, RequestNumbered
  <2>2. \A e \in Email : account'[e] \in UserRow => account[e] \in UserRow /\ account'[e].hash = account[e].hash
    BY <1>1, <1>2, <2>1 DEF Types, UserRow
  <2>3. LastIsSet'
    BY <2>1, <2>2 DEF LastIsSet
  <2>4. Data(b).hash[2] \in Int
    BY <2>1, NumbersAreInts DEF Data
  <2>5. SessionNumbered(b)' /\ \A c \in Browser \ {b} : session'[c] = session[c]
    BY <1>1, <2>1, <2>4 DEF SessionNumbered, Types
  <2>6. changes' >= changes
    BY <1>1, <2>1
  <2> QED BY <1>1, <2>1, <2>3, <2>5, <2>6, DoneIsIdle, SessionsFrame
<1>7. CASE ChangeRefresh(b)
  <2>1. /\ UNCHANGED <<account, changes, lastSet, undone>> /\ Done(b)
        /\ session' = [session EXCEPT ![b] = <<Data(b).email, Data(b).hash>>]
        /\ Data(b).hash[2] <= changes
    BY <1>7 DEF ChangeRefresh, Refreshed, Data, RequestNumbered
  <2>2. LastIsSet'
    BY <2>1 DEF LastIsSet
  <2>3. SessionNumbered(b)' /\ \A c \in Browser \ {b} : session'[c] = session[c]
    BY <1>1, <2>1 DEF SessionNumbered, Types
  <2>4. changes' >= changes
    BY <1>1, <2>1
  <2> QED BY <1>1, <2>1, <2>2, <2>3, <2>4, DoneIsIdle, SessionsFrame
<1>8. CASE ProfileSave(b)
  <2>1. /\ UNCHANGED <<session, changes, lastSet>> /\ Done(b)
        /\ account' = [account EXCEPT ![Data(b).email] = Data(b).row]
        /\ undone' = IF account' = account THEN undone ELSE undone \cup {Data(b).email}
    BY <1>8 DEF ProfileSave
  <2>2. LastIsSet'
    BY <2>1, <1>1, <1>2 DEF LastIsSet, Types
  <2>3. changes' >= changes
    BY <1>1, <2>1
  <2> QED BY <1>1, <2>1, <2>2, <2>3, DoneIsIdle, SessionsFrame
<1> QED BY <1>3, <1>4, <1>5, <1>6, <1>7, <1>8 DEF Saves

LEMMA SessionsInductive ==
  AccountsInv /\ AccountsInv' /\ SessionInv /\ [AccountsNext]_accountsVars => SessionInv'
<1> SUFFICES ASSUME AccountsInv, AccountsInv', SessionInv, [AccountsNext]_accountsVars
             PROVE  SessionInv'
  OBVIOUS
<1>0. Types
  BY DEF AccountsInv
<1>1. CASE UNCHANGED accountsVars
  BY <1>1 DEF accountsVars, SessionInv, LastIsSet, SessionNumbered, RequestNumbered
<1>2. ASSUME NEW b \in Browser, Logout(b) PROVE SessionInv'
  <2>1. /\ session' = [session EXCEPT ![b] = NoAccount]
        /\ UNCHANGED <<account, serving, changes, lastSet, undone>>
    BY <1>2 DEF Logout
  <2> QED BY <1>0, <2>1 DEF SessionInv, LastIsSet, SessionNumbered, RequestNumbered, Types
<1>3. ASSUME NEW e \in Email, TriggerReset(e) PROVE SessionInv'
  BY <1>3 DEF TriggerReset, SessionInv, LastIsSet, SessionNumbered, RequestNumbered
<1>4. ASSUME NEW e \in Email, AdminSwitch(e) PROVE SessionInv'
  <2>1. /\ account' = [account EXCEPT ![e].active = ~@] /\ account[e] \in UserRow
        /\ UNCHANGED <<session, serving, changes, lastSet, undone>>
    BY <1>0, <1>4 DEF AdminSwitch, Registered, Types
  <2>2. \A x \in Email : account'[x] \in UserRow => account[x] \in UserRow /\ account'[x].hash = account[x].hash
    BY <1>0, <2>1 DEF Types, UserRow
  <2> QED BY <2>1, <2>2 DEF SessionInv, LastIsSet, SessionNumbered, RequestNumbered
<1> QED
  BY <1>1, <1>2, <1>3, <1>4, ValidatesSessions, SavesSessions DEF AccountsNext

LEMMA SessionsHold == AccountsSpec => [](AccountsInv /\ SessionInv)
<1>1. AccountsInit => SessionInv
  BY AccountsAssumption DEF AccountsInit, SessionInv, LastIsSet, SessionNumbered, RequestNumbered,
     NoRequest
<1> QED BY <1>1, SessionsInductive, AccountsInvHolds, PTL DEF AccountsSpec

\* A step that writes no password but the one it sets keeps every account on the
\* last one set.
LEMMA LastSetStep ==
  ASSUME AccountsInv, PasswordIsLastSet, [AccountsNext]_accountsVars,
         \A b \in Browser :
           ProfileSave(b) => account'[Data(b).email].hash = account[Data(b).email].hash
  PROVE  PasswordIsLastSet'
<1>0. /\ Types
      /\ \A b \in Browser : serving[b].step # "idle" => Data(b).email \in Email
      /\ \A b \in Browser : serving[b].step \notin {"idle", "create"} => account[Data(b).email] \in UserRow
  BY DEF AccountsInv, Serves, Data
<1>a. ASSUME NEW d \in Email, \A e \in Email \ {d} : account'[e] = account[e] /\ lastSet'[e] = lastSet[e],
             \/ account'[d].hash = lastSet'[d]
             \/ account[d] \in UserRow /\ account'[d].hash = account[d].hash /\ lastSet'[d] = lastSet[d]
      PROVE  PasswordIsLastSet'
  BY <1>a, AccountsAssumption DEF PasswordIsLastSet, Registered
<1>b. ASSUME UNCHANGED <<account, lastSet>> PROVE PasswordIsLastSet'
  BY <1>b DEF PasswordIsLastSet, Registered
<1>1. ASSUME NEW b \in Browser, Saves(b) PROVE PasswordIsLastSet'
  <2> DEFINE d == Data(b).email
  <2>0. /\ d \in Email
        /\ serving[b].step # "create" => account[d] \in UserRow
    BY <1>0, <1>1 DEF Saves, CreateUser, ActivateSave, ResetSave, Login, ChangeSave, ChangeRefresh, ProfileSave
  <2>1. CASE CreateUser(b) /\ ~Registered(d)
    <3>1. /\ account' = [account EXCEPT ![d] = NewRow(Data(b).pw)]
          /\ lastSet' = [lastSet EXCEPT ![d] = account'[d].hash]
      BY <2>1 DEF CreateUser
    <3> QED BY <1>0, <1>a, <2>0, <3>1 DEF Types
  <2>2. CASE CreateUser(b) /\ Registered(d)
    BY <1>b, <2>2 DEF CreateUser
  <2>3. CASE ActivateSave(b)
    <3>1. account' = [account EXCEPT ![d].active = TRUE] /\ lastSet' = lastSet
          /\ account[d] \in UserRow
      BY <2>0, <2>3 DEF ActivateSave
    <3>2. account'[d].hash = account[d].hash
      BY <1>0, <2>0, <3>1 DEF Types, UserRow
    <3> QED BY <1>0, <1>a, <2>0, <3>1, <3>2 DEF Types
  <2>4. CASE ResetSave(b) \/ ChangeSave(b)
    <3>1. /\ account' = [account EXCEPT ![d].hash = SetPassword(Data(b).pw)]
          /\ lastSet' = [lastSet EXCEPT ![d] = SetPassword(Data(b).pw)]
          /\ account[d] \in UserRow
      BY <2>0, <2>4 DEF ResetSave, ChangeSave, SavePassword
    <3>2. account'[d].hash = lastSet'[d]
      BY <1>0, <2>0, <3>1 DEF Types, UserRow
    <3> QED BY <1>0, <1>a, <2>0, <3>1, <3>2 DEF Types
  <2>5. CASE Login(b)
    <3>1. account' = [account EXCEPT ![d].login = changes'] /\ lastSet' = lastSet
          /\ account[d] \in UserRow
      BY <2>0, <2>5 DEF Login
    <3>2. account'[d].hash = account[d].hash
      BY <1>0, <2>0, <3>1 DEF Types, UserRow
    <3> QED BY <1>0, <1>a, <2>0, <3>1, <3>2 DEF Types
  <2>6. CASE ChangeRefresh(b)
    BY <1>b, <2>6 DEF ChangeRefresh
  <2>7. CASE ProfileSave(b)
    <3>1. account' = [account EXCEPT ![d] = Data(b).row] /\ lastSet' = lastSet
          /\ account[d] \in UserRow /\ account'[d].hash = account[d].hash
      BY <2>0, <2>7 DEF ProfileSave
    <3> QED BY <1>0, <1>a, <2>0, <3>1 DEF Types
  <2> QED BY <1>1, <2>1, <2>2, <2>3, <2>4, <2>5, <2>6, <2>7 DEF Saves
<1>2. ASSUME NEW e \in Email, AdminSwitch(e) PROVE PasswordIsLastSet'
  <2>1. account' = [account EXCEPT ![e].active = ~@] /\ lastSet' = lastSet
        /\ account[e] \in UserRow
    BY <1>0, <1>2 DEF AdminSwitch, Registered, Types
  <2>2. account'[e].hash = account[e].hash
    BY <1>0, <2>1 DEF Types, UserRow
  <2> QED BY <1>0, <1>a, <2>1, <2>2 DEF Types
<1> QED
  BY <1>b, <1>1, <1>2
  DEF AccountsNext, accountsVars, Validates, Register, Authenticate,
      FollowActivation, FollowReset, ChangePassword, UpdateMe, Load, Logout, TriggerReset

\* A profile update that writes an older password back is the only way an account
\* loses the last one it was given: resets, changes, logins and activations that
\* run side by side keep it (update_me, change_user_password, password_reset_confirm).
THEOREM PasswordsLast == AccountsSpec /\ ProfilesKeepPasswords => []PasswordIsLastSet
<1>1. AccountsInit => PasswordIsLastSet
  BY AccountsAssumption DEF AccountsInit, PasswordIsLastSet, Registered
<1> DEFINE Keeps == \A b \in Browser :
             ProfileSave(b) => account'[Data(b).email].hash = account[Data(b).email].hash
<1>2. ASSUME AccountsInv, PasswordIsLastSet, [AccountsNext]_accountsVars, [Keeps]_accountsVars
      PROVE  PasswordIsLastSet'
  <2>1. CASE UNCHANGED accountsVars
    BY <1>2, <2>1 DEF accountsVars, PasswordIsLastSet, Registered
  <2>2. CASE Keeps
    BY <1>2, <2>2, LastSetStep
  <2> QED BY <1>2, <2>1, <2>2
<1>3. ProfilesKeepPasswords => [][Keeps]_accountsVars
  BY DEF ProfilesKeepPasswords
<1> HIDE DEF Keeps
<1> QED BY <1>1, <1>2, <1>3, AccountsInvHolds, PTL DEF AccountsSpec

\* A step that sets a password adds a number to it that no session and no
\* request has.
LEMMA NewPasswordEndsSessions ==
  ASSUME AccountsInv, SessionInv, AccountsNext, NEW e \in Email, lastSet'[e] # lastSet[e],
         NEW c \in Browser, session'[c] # NoAccount, session'[c][1] = e
  PROVE  ~SignedIn(c)'
<1>0. /\ Types /\ changes \in Int
      /\ session[c] # NoAccount => session[c][2][2] <= changes
  BY AccountsAssumption DEF AccountsInv, Types, SessionInv, SessionNumbered
<1>1. PICK b \in Browser : CreateUser(b) \/ ResetSave(b) \/ ChangeSave(b)
  BY DEF AccountsNext, Validates, Saves, Logout, TriggerReset, AdminSwitch, Register, Authenticate,
     FollowActivation, FollowReset, ChangePassword, UpdateMe, Load, ActivateSave, Login,
     ChangeRefresh, ProfileSave
<1>2. session' = session
  BY <1>1 DEF CreateUser, ResetSave, ChangeSave
<1>3. CASE CreateUser(b)
  <2>1. e = Data(b).email /\ ~Registered(e)
    BY <1>0, <1>3 DEF CreateUser, Types
  <2>2. account[e] \in UserRow
    BY <1>2 DEF AccountsInv, Signed
  <2> QED BY <2>1, <2>2, AccountsAssumption DEF Registered
<1>4. CASE ResetSave(b) \/ ChangeSave(b)
  <2>1. /\ account' = [account EXCEPT ![Data(b).email].hash = SetPassword(Data(b).pw)]
        /\ lastSet' = [lastSet EXCEPT ![Data(b).email] = SetPassword(Data(b).pw)]
        /\ account[Data(b).email] \in UserRow
    BY <1>4 DEF ResetSave, ChangeSave, SavePassword, AccountsInv, Serves, Data
  <2>2. e = Data(b).email
    BY <1>0, <2>1 DEF Types
  <2>3. account'[e].hash = <<Data(b).pw, changes + 1>>
    BY <1>0, <2>1, <2>2 DEF Types, UserRow, SetPassword
  <2>4. session'[c][2][2] <= changes /\ session'[c][2][2] \in Int
    BY <1>0, <1>2, NumbersAreInts
  <2>5. session'[c][2] # account'[e].hash
    BY <1>0, <2>3, <2>4
  <2> QED BY <2>5 DEF SignedIn
<1> QED BY <1>1, <1>3, <1>4

\* A new password ends every session of the old one, and the browser that asked for
\* the change stays signed in, for any number of browsers and requests side by
\* side (change_user_password, password_reset_confirm, Django's session hash).
THEOREM SessionsEndWithPasswords == AccountsSpec => SessionsFollowPassword
<1>1. ASSUME AccountsInv, SessionInv, AccountsNext, NEW b \in Browser,
             serving[b].step = "refresh", serving'[b].step = "idle",
             account[Data(b).email].active, lastSet[Data(b).email] = Data(b).hash,
             Data(b).email \notin undone
      PROVE  SignedIn(b)'
  <2>1. Types /\ Data(b).email \in Email /\ Data(b).hash \in Hash /\ account[Data(b).email] \in UserRow
    BY <1>1 DEF AccountsInv, Serves, Data
  <2>2. ChangeRefresh(b)
    <3>1. \A c \in Browser \ {b} : \A v :
            serving' = [serving EXCEPT ![c] = v] => serving'[b] = serving[b]
      BY <2>1, OtherBrowsers
    <3>2. ASSUME NEW c \in Browser, Saves(c) PROVE c = b
      <4>1. \E v : serving' = [serving EXCEPT ![c] = v]
        BY <3>2 DEF Saves, CreateUser, ActivateSave, ResetSave, Login, ChangeSave, ChangeRefresh,
           ProfileSave, Done
      <4> QED BY <1>1, <3>1, <4>1
    <3>3. ASSUME NEW c \in Browser, Validates(c) PROVE FALSE
      <4>1. serving[c] = NoRequest /\ \E v : serving' = [serving EXCEPT ![c] = v]
        BY <3>3 DEF Validates, Register, Authenticate, FollowActivation, FollowReset,
           ChangePassword, UpdateMe, Load
      <4> QED BY <1>1, <3>1, <4>1 DEF NoRequest
    <3>4. serving' # serving
      BY <1>1
    <3> QED
      BY <1>1, <3>2, <3>3, <3>4
      DEF AccountsNext, Logout, TriggerReset, AdminSwitch, Saves, CreateUser, ActivateSave,
          ResetSave, Login, ChangeSave, ProfileSave
  <2>3. session'[b] = <<Data(b).email, Data(b).hash>> /\ account' = account
    BY <2>1, <2>2 DEF ChangeRefresh, Refreshed, Types
  <2>4. account[Data(b).email].hash = Data(b).hash
    BY <1>1, <2>1 DEF SessionInv, LastIsSet
  <2>5. <<Data(b).email, Data(b).hash>> # NoAccount
    BY <2>1, AccountsAssumption
  <2> QED BY <1>1, <2>3, <2>4, <2>5 DEF SignedIn
<1>2. AccountsInv /\ SessionInv /\ [AccountsNext]_accountsVars =>
        [/\ \A e \in Email : lastSet'[e] # lastSet[e] =>
              \A b \in Browser : session'[b] # NoAccount /\ session'[b][1] = e
                                   => ~SignedIn(b)'
         /\ \A b \in Browser :
              /\ serving[b].step = "refresh" /\ serving'[b].step = "idle"
              /\ account[Data(b).email].active
              /\ lastSet[Data(b).email] = Data(b).hash
              /\ Data(b).email \notin undone
              => SignedIn(b)']_accountsVars
  BY <1>1, NewPasswordEndsSessions
<1> QED BY <1>2, SessionsHold, PTL DEF AccountsSpec, SessionsFollowPassword

--------------------------------------------------------------------------------

(* SubscriptionLists. *)

\* PROTECT: a subscription has its country.
CountryStays == \A s \in subRows : CountryOf[s] \in countryRows

\* The fields of the request.
IsRequest ==
  /\ {"step", "user", "page", "fields", "pending", "counts", "lists", "shown", "all"}
       \subseteq DOMAIN reading
  /\ DOMAIN reading.lists = Followed /\ reading.fields \subseteq FieldName
  /\ reading.step = "done" => reading.pending = {}
  /\ reading.step # "idle" => divisionRows \subseteq before

\* The request has what its client asked for under a name.
Has(field) == field \in reading.fields /\ field \notin reading.pending

\* None of the rows of a subscription has changed since the request began.
Unmoved(s) == ({s} \X TaggedAlert) \cap changed = {}

\* What is read of a subscription is still so if none of its rows has changed.
CountsHold ==
  \A s \in reading.page : Unmoved(s) =>
    /\ Has("counts") => reading.counts[s] = RowSum(RowsPerAlert(s))
    /\ "alerts" \in reading.fields /\ s \notin reading.pending => reading.lists[s] = RowsPerAlert(s)

AllHold ==
  Has("all") =>
    \A a \in TaggedAlert :
      (\A s \in Followed : OwnerOf[s] = reading.user => <<s, a>> \notin changed) =>
        reading.all[a] = IF \E s \in OwnRows(reading.user) : taggedRows[<<s, a>>] > 0
                         THEN 1 ELSE 0

DisplaysHold ==
  Has("divisions") /\ reading.page # {} =>
    \E D \in SUBSET before :
      /\ divisionRows \subseteq D
      /\ \A s \in reading.page : reading.shown[s] = Among(StoredIds[s], D)

ReadHolds ==
  reading.step \in {"fields", "done"} => CountsHold /\ AllHold /\ DisplaysHold

ListsInv == ListsTypeOK /\ CountryStays /\ IsRequest /\ ReadHolds /\ FailsOnlyForDeleted

\* What is read stays as right as it was while rows come and go.
LEMMA TablesMayChange ==
  ASSUME ListsInv, UNCHANGED <<reading, before>>,
         changed \subseteq changed', divisionRows' \subseteq divisionRows, subRows' \subseteq subRows,
         \A s \in Followed, a \in TaggedAlert :
           <<s, a>> \notin changed' =>
             /\ taggedRows'[<<s, a>>] = taggedRows[<<s, a>>]
             /\ s \in subRows \ subRows' => taggedRows[<<s, a>>] = 0
  PROVE  IsRequest' /\ ReadHolds' /\ FailsOnlyForDeleted'
<1> USE DEF ListsInv
<1>1. IsRequest'
  BY DEF IsRequest
<1>2. FailsOnlyForDeleted'
  BY DEF FailsOnlyForDeleted
<1> SUFFICES ASSUME reading.step \in {"fields", "done"} PROVE CountsHold' /\ AllHold' /\ DisplaysHold'
  BY <1>1, <1>2 DEF ReadHolds
<1>a. CountsHold /\ AllHold /\ DisplaysHold
  BY DEF ReadHolds
<1>3. CountsHold'
  <2> SUFFICES ASSUME NEW s \in reading.page, Unmoved(s)'
               PROVE  Unmoved(s) /\ RowsPerAlert(s)' = RowsPerAlert(s)
    BY <1>a DEF CountsHold, Has
  <2>1. s \in Followed
    BY DEF ListsTypeOK
  <2>2. \A a \in TaggedAlert : <<s, a>> \notin changed'
    BY DEF Unmoved
  <2>3. \A a \in TaggedAlert : taggedRows'[<<s, a>>] = taggedRows[<<s, a>>]
    BY <2>1, <2>2
  <2> QED BY <2>2, <2>3 DEF Unmoved, RowsPerAlert
<1>4. AllHold'
  <2> SUFFICES ASSUME Has("all"), NEW a \in TaggedAlert,
                      \A s \in Followed : OwnerOf[s] = reading.user => <<s, a>> \notin changed'
               PROVE  reading.all[a] = IF \E s \in OwnRows(reading.user)' : taggedRows'[<<s, a>>] > 0
                                       THEN 1 ELSE 0
    BY DEF AllHold, Has, OwnRows
  <2>1. reading.all[a] = IF \E s \in OwnRows(reading.user) : taggedRows[<<s, a>>] > 0 THEN 1 ELSE 0
    BY <1>a DEF AllHold
  <2>2. subRows \subseteq Followed
    BY DEF ListsTypeOK
  <2>3. (\E s \in OwnRows(reading.user) : taggedRows[<<s, a>>] > 0)
          <=> (\E s \in OwnRows(reading.user)' : taggedRows'[<<s, a>>] > 0)
    BY <2>2 DEF OwnRows
  <2> QED BY <2>1, <2>3
<1>5. DisplaysHold'
  <2> SUFFICES ASSUME Has("divisions"), reading.page # {}
               PROVE  \E D \in SUBSET before : /\ divisionRows' \subseteq D
                        /\ \A s \in reading.page : reading.shown[s] = Among(StoredIds[s], D)
    BY DEF DisplaysHold, Has
  <2>1. PICK D \in SUBSET before : /\ divisionRows \subseteq D
                        /\ \A s \in reading.page : reading.shown[s] = Among(StoredIds[s], D)
    BY <1>a DEF DisplaysHold
  <2> QED BY <2>1
<1> QED BY <1>3, <1>4, <1>5

\* Rows of SubscriptionAlert go with what they refer to.
LEMMA TaggedGo ==
  ASSUME ListsInv, NEW S \in SUBSET subRows, NEW A \in SUBSET alertRows, KeepTagged(S, A)
  PROVE  /\ taggedRows' \in [Pair -> Nat]
         /\ \A p \in Pair : taggedRows'[p] > 0 =>
              taggedRows'[p] <= MaxCopies[p[1]] /\ p[1] \in S /\ p[2] \in A
         /\ changed \subseteq changed' /\ changed' \subseteq Pair
         /\ \A s \in Followed, a \in TaggedAlert :
              <<s, a>> \notin changed' =>
                /\ taggedRows'[<<s, a>>] = taggedRows[<<s, a>>]
                /\ s \in subRows \ S => taggedRows[<<s, a>>] = 0
<1>1. taggedRows \in [Pair -> Nat] /\ changed \subseteq Pair
      /\ \A p \in Pair : taggedRows[p] > 0 => taggedRows[p] <= MaxCopies[p[1]]
  BY DEF ListsInv, ListsTypeOK
<1>2. /\ taggedRows' = [p \in Pair |-> IF p[1] \in S /\ p[2] \in A THEN taggedRows[p] ELSE 0]
      /\ changed' = changed \cup {p \in Pair : taggedRows'[p] # taggedRows[p]}
  BY DEF KeepTagged
<1>3. taggedRows' \in [Pair -> Nat]
  BY <1>1, <1>2
<1>4. \A p \in Pair : taggedRows'[p] = IF p[1] \in S /\ p[2] \in A THEN taggedRows[p] ELSE 0
  BY <1>2
<1>5. \A s \in Followed, a \in TaggedAlert : <<s, a>> \in Pair
  BY DEF Pair
<1>6. \A s \in Followed, a \in TaggedAlert :
        /\ taggedRows'[<<s, a>>] # taggedRows[<<s, a>>] => <<s, a>> \in changed'
        /\ s \notin S => taggedRows'[<<s, a>>] = 0
  BY <1>2, <1>4, <1>5
<1> QED BY <1>1, <1>2, <1>3, <1>4, <1>6

\* The steps that change tables.
LEMMA TableStepsHold ==
  ASSUME ListsInv,
         \/ \E s \in Followed, a \in TaggedAlert : TagAgain(s, a)
         \/ \E a \in TaggedAlert : DropAlert(a)
         \/ \E s \in Followed : DropSubscription(s)
         \/ \E d \in AdminDivision : DropDivision(d)
         \/ \E c \in HomeCountry : DropCountry(c)
  PROVE  ListsInv'
<1> USE DEF ListsInv
<1>0. /\ subRows \subseteq Followed /\ countryRows \subseteq HomeCountry
      /\ divisionRows \subseteq AdminDivision /\ alertRows \subseteq TaggedAlert
      /\ taggedRows \in [Pair -> Nat]
  BY DEF ListsTypeOK
<1>1. ASSUME NEW s \in Followed, NEW a \in TaggedAlert, TagAgain(s, a) PROVE ListsInv'
  <2>1. <<s, a>> \in Pair /\ MaxCopies[s] \in Nat
    BY ListsAssumption DEF Pair
  <2>2. /\ taggedRows' \in [Pair -> Nat]
        /\ taggedRows'[<<s, a>>] <= MaxCopies[s]
        /\ \A p \in Pair : p # <<s, a>> => taggedRows'[p] = taggedRows[p]
    BY <1>0, <1>1, <2>1 DEF TagAgain
  <2>3. ListsTypeOK'
    BY <1>1, <2>1, <2>2 DEF TagAgain, ListsTypeOK
  <2>4. CountryStays'
    BY <1>1 DEF TagAgain, CountryStays
  <2>5. \A r \in Followed, b \in TaggedAlert : <<r, b>> \in Pair
    BY DEF Pair
  <2> QED BY <1>1, <2>2, <2>3, <2>4, <2>5, TablesMayChange DEF TagAgain
<1>2. ASSUME NEW a \in TaggedAlert, DropAlert(a) PROVE ListsInv'
  <2>1. alertRows' \in SUBSET alertRows /\ KeepTagged(subRows, alertRows')
        /\ UNCHANGED <<subRows, countryRows, divisionRows, reading, before>>
    BY <1>2 DEF DropAlert
  <2>2. ListsTypeOK'
    BY <2>1, TaggedGo DEF ListsTypeOK
  <2>3. CountryStays'
    BY <2>1 DEF CountryStays
  <2> QED BY <2>1, <2>2, <2>3, TaggedGo, TablesMayChange
<1>3. ASSUME NEW s \in Followed, DropSubscription(s) PROVE ListsInv'
  <2>1. subRows' \in SUBSET subRows /\ KeepTagged(subRows', alertRows)
        /\ UNCHANGED <<countryRows, divisionRows, alertRows, reading, before>>
    BY <1>3 DEF DropSubscription
  <2>2. ListsTypeOK'
    BY <2>1, TaggedGo DEF ListsTypeOK
  <2>3. CountryStays'
    BY <2>1 DEF CountryStays
  <2> QED BY <2>1, <2>2, <2>3, TaggedGo, TablesMayChange
<1>4. ASSUME NEW d \in AdminDivision, DropDivision(d) PROVE ListsInv'
  <2>1. ListsTypeOK' /\ CountryStays' /\ divisionRows' \subseteq divisionRows
    BY <1>4 DEF DropDivision, ListsTypeOK, CountryStays
  <2> QED BY <1>4, <2>1, TablesMayChange DEF DropDivision
<1>5. ASSUME NEW c \in HomeCountry, DropCountry(c) PROVE ListsInv'
  <2>1. alertRows' \in SUBSET alertRows /\ KeepTagged(subRows, alertRows')
        /\ divisionRows' \subseteq divisionRows /\ countryRows' = countryRows \ {c}
        /\ UNCHANGED <<subRows, reading, before>>
    BY <1>5 DEF DropCountry
  <2>2. ListsTypeOK'
    BY <2>1, TaggedGo DEF ListsTypeOK
  <2>3. CountryStays'
    BY <1>5, <2>1 DEF DropCountry, IsProtected, CountryStays
  <2> QED BY <2>1, <2>2, <2>3, TaggedGo, TablesMayChange
<1> QED BY <1>1, <1>2, <1>3, <1>4, <1>5

\* A new request has nothing yet.
LEMMA AskSubscriptionsHolds ==
  ASSUME ListsInv, NEW u \in Reader, AskSubscriptions(u)
  PROVE  ListsInv'
<1> USE DEF ListsInv
<1>1. PICK chosen \in Pages(u), fields \in FieldSets :
        reading' = [NotReading EXCEPT !.step = "fields", !.user = u, !.page = chosen,
         !.fields = fields,
         !.pending = (fields \cap {"all"}) \cup (IF "alerts" \in fields THEN chosen ELSE {})
           \cup (IF chosen = {} THEN {} ELSE fields \cap {"country", "counts", "divisions"})]
  BY DEF AskSubscriptions
<1>2. /\ reading'.step = "fields" /\ reading'.user = u /\ reading'.page = chosen
      /\ reading'.fields = fields
      /\ reading'.pending = (fields \cap {"all"}) \cup (IF "alerts" \in fields THEN chosen ELSE {})
           \cup (IF chosen = {} THEN {} ELSE fields \cap {"country", "counts", "divisions"})
      /\ DOMAIN reading'.lists = Followed
      /\ DOMAIN reading' = DOMAIN NotReading
  BY <1>1 DEF NotReading
<1>3. /\ UNCHANGED listsTables /\ changed' = {} /\ before' = divisionRows
  BY DEF AskSubscriptions
<1>4. chosen \subseteq {s \in Followed : OwnerOf[s] = u} /\ fields \subseteq FieldName
  BY ListsAssumption DEF Pages, OwnRows, ListsTypeOK
<1>5. ListsTypeOK'
  BY <1>2, <1>3, <1>4 DEF ListsTypeOK, listsTables
<1>6. CountryStays' /\ FailsOnlyForDeleted'
  BY <1>2, <1>3 DEF CountryStays, listsTables, FailsOnlyForDeleted
<1>7. IsRequest'
  BY <1>2, <1>3, <1>4 DEF IsRequest, listsTables, NotReading
<1>8. chosen # {} => ~Has("counts")' /\ ~Has("divisions")'
  BY <1>2 DEF Has
<1>9. ~Has("all")' /\ \A s \in chosen : "alerts" \in fields => s \in reading'.pending
  BY <1>2 DEF Has
<1> QED BY <1>2, <1>5, <1>6, <1>7, <1>8, <1>9 DEF ReadHolds, CountsHold, AllHold, DisplaysHold

\* A resolver of the request has its answer.
LEMMA ResolvedIs ==
  ASSUME ListsInv, NEW field, NEW x \in {"counts", "lists", "shown", "all", "step"}, NEW v,
         reading.step = "fields" /\ field \in reading.pending,
         reading' = [[reading EXCEPT ![x] = v] EXCEPT !.pending = @ \ {field}],
         UNCHANGED <<listsTables, changed, before>>,
         x = "lists" => DOMAIN v = Followed,
         x = "step" => v \in {"fields", "failed"}
  PROVE  /\ reading'[x] = v /\ reading'.pending = reading.pending \ {field}
         /\ \A y \in {"step", "user", "page", "fields", "counts", "lists", "shown", "all"} \ {x} :
              reading'[y] = reading[y]
         /\ ListsTypeOK' /\ CountryStays' /\ IsRequest'
<1> USE DEF ListsInv
<1>1. /\ reading'[x] = v /\ reading'.pending = reading.pending \ {field}
      /\ DOMAIN reading' = DOMAIN reading
      /\ \A y \in {"step", "user", "page", "fields", "counts", "lists", "shown", "all"} \ {x} :
              reading'[y] = reading[y]
  BY DEF IsRequest
<1>2. reading'.step \in {"fields", "failed"} /\ DOMAIN reading'.lists = Followed
      /\ reading'.page = reading.page /\ reading'.user = reading.user
      /\ reading'.fields = reading.fields
  BY <1>1 DEF IsRequest
<1>3. ListsTypeOK'
  BY <1>1, <1>2 DEF ListsTypeOK, listsTables
<1>4. CountryStays' /\ IsRequest'
  BY <1>1, <1>2 DEF CountryStays, IsRequest, listsTables
<1> QED BY <1>1, <1>3, <1>4

LEMMA RequestHolds ==
  ASSUME ListsInv,
         \/ LoadCountries \/ LoadCounts \/ LoadDivisions \/ ReadAll
         \/ \E s \in Followed : ReadAlertsOf(s)
  PROVE  ListsInv'
<1> USE DEF ListsInv
<1>a. Followed \cap FieldName = {} /\ reading.page \subseteq Followed
  BY ListsAssumption DEF ListsTypeOK
<1>b. UNCHANGED <<listsTables, changed, before>> /\ reading.step = "fields"
  BY DEF LoadCountries, LoadCounts, LoadDivisions, ReadAll, ReadAlertsOf, Resolved
<1>c. CountsHold /\ AllHold /\ DisplaysHold
  BY <1>b DEF ReadHolds
<1>1. CASE LoadCountries
  <2> DEFINE v == IF \A s \in reading.page : CountryOf[s] \in countryRows THEN "fields" ELSE "failed"
  <2>1. /\ reading' = [[reading EXCEPT !["step"] = v] EXCEPT !.pending = @ \ {"country"}]
        /\ "country" \in reading.pending
    BY <1>1, <1>b DEF LoadCountries, Resolved
  <2>2. /\ reading'.step = v /\ reading'.pending = reading.pending \ {"country"}
        /\ \A y \in {"user", "page", "fields", "counts", "lists", "shown", "all"} : reading'[y] = reading[y]
        /\ ListsTypeOK' /\ CountryStays' /\ IsRequest'
    BY <1>b, <2>1, ResolvedIs
  <2>3. FailsOnlyForDeleted'
    BY <1>b, <2>2 DEF FailsOnlyForDeleted, CountryStays, listsTables
  <2>4. \A f \in {"counts", "all", "divisions"} : Has(f)' = Has(f)
    BY <2>2 DEF Has
  <2>5. ReadHolds'
    BY <1>a, <1>b, <1>c, <2>2, <2>4
    DEF ReadHolds, CountsHold, AllHold, DisplaysHold, Unmoved, RowsPerAlert, listsTables, FieldName,
        OwnRows
  <2> QED BY <2>2, <2>3, <2>5
<1>2. CASE LoadCounts
  <2> DEFINE v == [s \in reading.page |-> CountOfRows(s)]
  <2>1. /\ reading' = [[reading EXCEPT !["counts"] = v] EXCEPT !.pending = @ \ {"counts"}]
        /\ "counts" \in reading.pending
    BY <1>2, <1>b DEF LoadCounts, Resolved
  <2>2. /\ reading'.counts = v /\ reading'.pending = reading.pending \ {"counts"}
        /\ \A y \in {"step", "user", "page", "fields", "lists", "shown", "all"} : reading'[y] = reading[y]
        /\ ListsTypeOK' /\ CountryStays' /\ IsRequest'
    BY <1>b, <2>1, ResolvedIs
  <2>3. FailsOnlyForDeleted'
    BY <1>b, <2>2 DEF FailsOnlyForDeleted
  <2>4. \A f \in {"all", "divisions"} : Has(f)' = Has(f)
    BY <2>2 DEF Has
  <2>5. \A s \in reading.page : reading'.counts[s] = RowSum(RowsPerAlert(s)) /\ RowsPerAlert(s)' = RowsPerAlert(s)
    BY <1>b, <2>2 DEF CountOfRows, RowsPerAlert, listsTables
  <2>6. ReadHolds'
    BY <1>a, <1>b, <1>c, <2>2, <2>4, <2>5
    DEF ReadHolds, CountsHold, AllHold, DisplaysHold, Unmoved, listsTables, FieldName, OwnRows
  <2> QED BY <2>2, <2>3, <2>6
<1>3. CASE LoadDivisions
  <2> DEFINE v == [s \in reading.page |-> KnownOf(StoredIds[s])]
  <2>1. /\ reading' = [[reading EXCEPT !["shown"] = v] EXCEPT !.pending = @ \ {"divisions"}]
        /\ "divisions" \in reading.pending
    BY <1>3, <1>b DEF LoadDivisions, Resolved
  <2>2. /\ reading'.shown = v /\ reading'.pending = reading.pending \ {"divisions"}
        /\ \A y \in {"step", "user", "page", "fields", "counts", "lists", "all"} : reading'[y] = reading[y]
        /\ ListsTypeOK' /\ CountryStays' /\ IsRequest'
    BY <1>b, <2>1, ResolvedIs
  <2>3. FailsOnlyForDeleted'
    BY <1>b, <2>2 DEF FailsOnlyForDeleted
  <2>4. \A f \in {"all", "counts"} : Has(f)' = Has(f)
    BY <2>2 DEF Has
  <2>5. \A s \in reading.page : reading'.shown[s] = Among(StoredIds[s], divisionRows)
    BY <2>2 DEF KnownOf
  <2>6. DisplaysHold'
    <3>1. divisionRows' \in SUBSET before' /\ divisionRows' = divisionRows
      BY <1>b DEF IsRequest, listsTables
    <3> QED BY <2>2, <2>5, <3>1 DEF DisplaysHold
  <2>7. CountsHold'
    BY <1>a, <1>b, <1>c, <2>2, <2>4 DEF CountsHold, Unmoved, RowsPerAlert, listsTables, FieldName
  <2>8. AllHold'
    BY <1>a, <1>b, <1>c, <2>2, <2>4 DEF AllHold, listsTables, OwnRows
  <2> QED BY <2>2, <2>3, <2>6, <2>7, <2>8 DEF ReadHolds
<1>4. CASE ReadAll
  <2> DEFINE v == [a \in TaggedAlert |-> Distinct(JoinRows(reading.user, a))]
  <2>1. /\ reading' = [[reading EXCEPT !["all"] = v] EXCEPT !.pending = @ \ {"all"}]
        /\ "all" \in reading.pending
    BY <1>4, <1>b DEF ReadAll, Resolved
  <2>2. /\ reading'.all = v /\ reading'.pending = reading.pending \ {"all"}
        /\ \A y \in {"step", "user", "page", "fields", "counts", "lists", "shown"} : reading'[y] = reading[y]
        /\ ListsTypeOK' /\ CountryStays' /\ IsRequest'
    BY <1>b, <2>1, ResolvedIs
  <2>3. FailsOnlyForDeleted'
    BY <1>b, <2>2 DEF FailsOnlyForDeleted
  <2>4. \A f \in {"counts", "divisions"} : Has(f)' = Has(f)
    BY <2>2 DEF Has
  <2>5. ASSUME NEW a \in TaggedAlert
        PROVE  reading'.all[a] = IF \E s \in OwnRows(reading.user) : taggedRows[<<s, a>>] > 0
                                 THEN 1 ELSE 0
    <3>1. \A s \in OwnRows(reading.user) : taggedRows[<<s, a>>] \in Nat
      BY DEF OwnRows, ListsTypeOK, Pair
    <3>2. \A s \in OwnRows(reading.user) : taggedRows[<<s, a>>] > 0 <=> 1 .. taggedRows[<<s, a>>] # {}
      BY <3>1
    <3> DEFINE O == OwnRows(reading.user)
               copies(s) == 1 .. taggedRows[<<s, a>>]
    <3>3. ASSUME NEW s \in O, copies(s) # {} PROVE JoinRows(reading.user, a) # {}
      <4>1. PICK i \in copies(s) : TRUE
        BY <3>3
      <4>2. <<s, i>> \in {s} \X copies(s)
        BY <4>1
      <4> HIDE DEF O
      <4>3. {s} \X copies(s) \in {{r} \X copies(r) : r \in O}
        BY <3>3
      <4> QED BY <4>2, <4>3, Zenon DEF JoinRows, O
    <3>4. ASSUME JoinRows(reading.user, a) # {} PROVE \E s \in O : copies(s) # {}
      <4>1. PICK z \in JoinRows(reading.user, a) : TRUE
        BY <3>4
      <4>2. PICK s \in O : z \in {s} \X copies(s)
        BY <4>1, Zenon DEF JoinRows
      <4> QED BY <4>2
    <3> QED BY <2>2, <3>2, <3>3, <3>4 DEF Distinct
  <2>6. AllHold'
    BY <1>b, <2>2, <2>5 DEF AllHold, OwnRows, listsTables
  <2>7. ReadHolds'
    BY <1>a, <1>b, <1>c, <2>2, <2>4, <2>6
    DEF ReadHolds, CountsHold, DisplaysHold, Unmoved, RowsPerAlert, listsTables, FieldName
  <2> QED BY <2>2, <2>3, <2>7
<1>5. ASSUME NEW s \in Followed, ReadAlertsOf(s) PROVE ListsInv'
  <2> DEFINE v == [reading.lists EXCEPT ![s] = RowsPerAlert(s)]
  <2>1. /\ reading' = [[reading EXCEPT !["lists"] = v] EXCEPT !.pending = @ \ {s}]
        /\ s \in reading.pending
    BY <1>5, <1>b DEF ReadAlertsOf, Resolved
  <2>2. /\ reading'.lists = v /\ reading'.pending = reading.pending \ {s}
        /\ \A y \in {"step", "user", "page", "fields", "counts", "shown", "all"} : reading'[y] = reading[y]
        /\ ListsTypeOK' /\ CountryStays' /\ IsRequest'
    <3>1. DOMAIN v = Followed
      BY DEF IsRequest
    <3> HIDE DEF v
    <3> QED BY <1>b, <2>1, <3>1, ResolvedIs
  <2>3. FailsOnlyForDeleted'
    BY <1>b, <2>2 DEF FailsOnlyForDeleted
  <2>4. \A f \in {"counts", "all", "divisions"} : Has(f)' = Has(f)
    BY <1>a, <2>2 DEF Has, FieldName
  <2>5. /\ \A r \in Followed : RowsPerAlert(r)' = RowsPerAlert(r)
        /\ reading'.lists[s] = RowsPerAlert(s)
        /\ \A r \in Followed \ {s} : reading'.lists[r] = reading.lists[r]
    BY <1>b, <2>2 DEF IsRequest, RowsPerAlert, listsTables
  <2>6. CountsHold'
    BY <1>a, <1>b, <1>c, <2>2, <2>4, <2>5 DEF CountsHold, Unmoved
  <2>7. ReadHolds'
    BY <1>b, <1>c, <2>2, <2>4, <2>6 DEF ReadHolds, AllHold, DisplaysHold, listsTables, OwnRows
  <2> QED BY <2>2, <2>3, <2>7
<1> QED BY <1>1, <1>2, <1>3, <1>4, <1>5

LEMMA ListsInductive == ListsInv /\ [ListsNext]_listsVars => ListsInv'
<1> SUFFICES ASSUME ListsInv, [ListsNext]_listsVars PROVE ListsInv'
  OBVIOUS
<1>1. ASSUME NEW u \in Reader, AskSubscriptions(u) PROVE ListsInv'
  BY <1>1, AskSubscriptionsHolds
<1>2. CASE Complete
  <2>1. /\ reading.step = "fields" /\ reading.pending = {} /\ reading'.step = "done"
        /\ DOMAIN reading' = DOMAIN reading
        /\ \A y \in {"user", "page", "fields", "pending", "counts", "lists", "shown", "all"} :
             reading'[y] = reading[y]
        /\ UNCHANGED <<listsTables, changed, before>>
    BY <1>2 DEF Complete, ListsInv, IsRequest
  <2>2. ListsTypeOK' /\ CountryStays' /\ IsRequest' /\ FailsOnlyForDeleted'
    BY <2>1 DEF ListsInv, ListsTypeOK, CountryStays, IsRequest, FailsOnlyForDeleted, listsTables
  <2>3. CountsHold /\ AllHold /\ DisplaysHold
    BY <2>1 DEF ListsInv, ReadHolds
  <2>4. \A f \in FieldName : Has(f)' = Has(f)
    BY <2>1 DEF Has
  <2>5. \A s \in Followed : RowsPerAlert(s)' = RowsPerAlert(s) /\ Unmoved(s)' = Unmoved(s)
    BY <2>1 DEF RowsPerAlert, Unmoved, listsTables
  <2>6. CountsHold'
    BY <2>1, <2>3, <2>4, <2>5 DEF CountsHold, ListsInv, ListsTypeOK, FieldName
  <2>7. AllHold'
    BY <2>1, <2>3, <2>4 DEF AllHold, OwnRows, FieldName, listsTables
  <2>8. DisplaysHold'
    BY <2>1, <2>3, <2>4 DEF DisplaysHold, FieldName, listsTables
  <2> QED BY <2>2, <2>6, <2>7, <2>8 DEF ListsInv, ReadHolds
<1>3. CASE TakeAnswer
  <2>1. /\ reading' = NotReading /\ reading'.step = "idle" /\ reading'.page = {} /\ reading'.fields = {}
        /\ reading'.pending = {} /\ DOMAIN reading'.lists = Followed
        /\ UNCHANGED listsTables /\ changed' = {} /\ before' = {}
    BY <1>3 DEF TakeAnswer, NotReading
  <2>2. ListsTypeOK'
    BY <2>1 DEF ListsInv, ListsTypeOK, listsTables
  <2>3. IsRequest'
    BY <2>1 DEF IsRequest, NotReading
  <2> QED BY <2>1, <2>2, <2>3 DEF ListsInv, CountryStays, ReadHolds, FailsOnlyForDeleted, listsTables
<1>4. CASE UNCHANGED listsVars
  <2>1. UNCHANGED <<reading, listsTables, changed, before>>
    BY <1>4 DEF listsVars
  <2>2. ListsTypeOK' /\ CountryStays' /\ IsRequest' /\ FailsOnlyForDeleted'
    BY <2>1 DEF ListsInv, ListsTypeOK, CountryStays, IsRequest, FailsOnlyForDeleted, listsTables
  <2>3. /\ \A f \in FieldName : Has(f)' = Has(f)
        /\ \A s \in Followed : RowsPerAlert(s)' = RowsPerAlert(s) /\ Unmoved(s)' = Unmoved(s)
    BY <2>1 DEF Has, RowsPerAlert, Unmoved, listsTables
  <2>4. CountsHold' = CountsHold
    <3>1. reading.page \subseteq Followed
      BY DEF ListsInv, ListsTypeOK
    <3>2. Has("counts")' = Has("counts")
      BY <2>3 DEF FieldName
    <3> QED BY <2>1, <2>3, <3>1, <3>2 DEF CountsHold
  <2>5. AllHold' = AllHold /\ DisplaysHold' = DisplaysHold
    BY <2>1, <2>3 DEF AllHold, DisplaysHold, OwnRows, FieldName, listsTables
  <2> QED BY <2>1, <2>2, <2>4, <2>5 DEF ListsInv, ReadHolds
<1> QED BY <1>1, <1>2, <1>3, <1>4, TableStepsHold, RequestHolds DEF ListsNext

LEMMA ListsStart == ListsInit => ListsInv
<1> SUFFICES ASSUME ListsInit PROVE ListsInv
  OBVIOUS
<1>1. /\ reading = NotReading /\ reading.step = "idle" /\ reading.page = {} /\ reading.fields = {}
      /\ reading.pending = {} /\ DOMAIN reading.lists = Followed
  BY DEF ListsInit, NotReading
<1>2. ListsTypeOK
  BY <1>1 DEF ListsInit, ListsTypeOK
<1>3. IsRequest
  BY <1>1 DEF IsRequest, NotReading
<1>4. CountryStays
  BY DEF ListsInit, CountryStays, HomeCountry
<1> QED BY <1>1, <1>2, <1>3, <1>4 DEF ListsInv, ReadHolds, FailsOnlyForDeleted

LEMMA ListsInvHolds == ListsSpec => []ListsInv
BY ListsStart, ListsInductive, PTL DEF ListsSpec

\* Tables and request have their types: no row of SubscriptionAlert outlives what it
\* refers to (apps/subscription/models.py:52).
THEOREM ListsTyped == ListsSpec => []ListsTypeOK
<1>1. ListsInv => ListsTypeOK
  BY DEF ListsInv
<1> QED BY <1>1, ListsInvHolds, PTL

\* A request for subscriptions has no answer only when one of them was deleted
\* while it ran (apps/subscription/models.py:26, cap_feed/dataloaders.py:44-47).
THEOREM AnswersUnlessDeleted == ListsSpec => []FailsOnlyForDeleted
<1>1. ListsInv => FailsOnlyForDeleted
  BY DEF ListsInv
<1> QED BY <1>1, ListsInvHolds, PTL

\* An answer about subscriptions agrees with itself, whatever tagging, other requests
\* and the admin site change between the queries of its loaders
\* (apps/subscription/types.py, dataloaders.py and queries.py).
THEOREM ListsAlwaysAgree == ListsSpec => []ListsAgree
<1>1. ListsInv => ListsAgree
  <2> SUFFICES ASSUME ListsInv, reading.step = "done" PROVE ListsAgree
    BY DEF ListsAgree, CountsMatchLists, EveryAlertOnce, DisplaysAgree
  <2>1. CountsHold /\ AllHold /\ DisplaysHold /\ reading.pending = {}
    BY DEF ListsInv, ReadHolds, IsRequest
  <2>2. CountsMatchLists
    BY <2>1 DEF CountsMatchLists, CountsHold, Has, Unmoved
  <2>3. EveryAlertOnce /\ DisplaysAgree
    BY <2>1 DEF EveryAlertOnce, AllHold, DisplaysAgree, DisplaysHold, Has
  <2> QED BY <2>2, <2>3 DEF ListsAgree
<1> QED BY <1>1, ListsInvHolds, PTL

--------------------------------------------------------------------------------

(* MCData. *)

\* The tables that are counted change as those that are listed do.
LEMMA CountsReadTables == CountsNext => [QueriesNext]_queriesVars
<1>1. TablesChange => QueriesNext
  BY DEF TablesChange, QueriesNext
<1>2. ReadPlaces \/ ReadTotals => UNCHANGED queriesVars
  BY DEF ReadPlaces, ReadTotals
<1>3. ASSUME NEW kind, NEW filtered, NEW withEmpty, ReadCounts(kind, filtered, withEmpty)
      PROVE UNCHANGED queriesVars
  BY <1>3 DEF ReadCounts
<1> QED BY <1>1, <1>2, <1>3 DEF CountsNext

\* A behaviour of the run is a behaviour of each component, so that what is proved
\* of one holds in the run; where the lists are read, the numbers rest.
THEOREM DataRunIsEach ==
  DataSpec => /\ Spec /\ GeoSpec /\ QueriesSpec /\ AnswersSpec /\ AccountsSpec /\ ListsSpec
              /\ part # "lists" => CountsSpec
<1>1. DataInit => /\ Init /\ GeoInit /\ QueriesInit /\ CountsInit /\ AnswersInit /\ AccountsInit
                  /\ ListsInit
  BY DEF DataInit, CountsInit
<1> DEFINE Elsewhere == part # "lists"
<1>2. ASSUME [DataNext]_dataVars
      PROVE  /\ [Next]_vars /\ [GeoNext]_geoVars /\ [AnswersNext]_answersVars
             /\ [AccountsNext]_accountsVars /\ [ListsNext]_listsVars
             /\ [QueriesNext]_queriesVars
             /\ Elsewhere => Elsewhere' /\ [CountsNext]_countsVars
  <2>1. CASE UNCHANGED dataVars
    BY <2>1 DEF dataVars, feedTasksVars, countsVars
  <2>2. CASE FeedsPart
    BY <2>2 DEF FeedsPart, feedTasksVars, countsVars
  <2>3. CASE GeoPart
    BY <2>3 DEF GeoPart, feedTasksVars, countsVars
  <2>4. CASE ListsPart
    BY <2>4 DEF ListsPart, feedTasksVars
  <2>5. CASE CountsPart
    <3>1. [QueriesNext]_queriesVars
      BY <2>5, CountsReadTables DEF CountsPart
    <3> QED BY <2>5, <3>1 DEF CountsPart, feedTasksVars
  <2>6. CASE AnswersPart
    BY <2>6 DEF AnswersPart, feedTasksVars, countsVars
  <2>7. CASE AccountsPart
    BY <2>7 DEF AccountsPart, feedTasksVars, countsVars
  <2>8. CASE SubscriptionsPart
    BY <2>8 DEF SubscriptionsPart, feedTasksVars, countsVars
  <2> QED BY <1>2, <2>1, <2>2, <2>3, <2>4, <2>5, <2>6, <2>7, <2>8 DEF DataNext
<1> HIDE DEF Elsewhere
<1>3. part # "lists" => Elsewhere
  BY DEF Elsewhere
<1> QED BY <1>1, <1>2, <1>3, PTL
        DEF DataSpec, Spec, GeoSpec, QueriesSpec, CountsSpec, AnswersSpec, AccountsSpec, ListsSpec

\* Feeds, country data, lists, numbers, answers, accounts and subscriptions keep
\* their types side by side.
THEOREM DataTyped == DataSpec => []DataTypeOK
<1>1. TypeOK /\ GeoTypeOK /\ QueriesTypeOK /\ CountsTypeOK /\ AnswersTypeOK /\ AccountsTypeOK /\ ListsTypeOK
        => DataTypeOK
  BY DEF DataTypeOK
<1> DEFINE Resting == part = "lists" /\ tally = NoTally /\ members = {} /\ departed = {}
<1>2. DataInit /\ ~(part # "lists") => Resting
  BY DEF DataInit, CountsInit
<1>3. Resting /\ [DataNext]_dataVars => Resting'
  BY DEF Resting, DataNext, FeedsPart, GeoPart, ListsPart, CountsPart, AnswersPart, AccountsPart,
     SubscriptionsPart, dataVars, countsVars, tallyVars
<1>4. Resting /\ QueriesTypeOK => CountsTypeOK
  <2> SUFFICES ASSUME Resting, QueriesTypeOK PROVE CountsTypeOK
    OBVIOUS
  <2>1. /\ tally.step = "idle" /\ tally.kind = "countries" /\ DOMAIN tally.count = {}
        /\ tally.listed = {} /\ departed = {}
    BY DEF Resting, NoTally
  <2> QED BY <2>1 DEF CountsTypeOK, Kind, Resting
<1> HIDE DEF Resting
<1> QED
  BY <1>1, <1>2, <1>3, <1>4, DataRunIsEach, FeedTasksTypeCorrect, GeoTyped, QueriesTyped, CountsTyped,
     AnswersTyped, AccountsTyped, ListsTyped, PTL DEF DataSpec

================================================================================
