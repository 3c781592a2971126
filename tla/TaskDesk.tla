------------------------------ MODULE TaskDesk ------------------------------
(***************************************************************************)
(* The tasks of users and the notice that a manager gets when a task of one *)
(* of his people is overdue by a day: TasksService, its cron job, and the   *)
(* recovery tasks of opportunity-recovery.ts.                               *)
(*                                                                          *)
(* The status that users see, computedStatus, is kept in a column although  *)
(* it depends on the time: every list, every card and the cron job bring it *)
(* up to date, and send the missing notices as they do.  They read first,   *)
(* decide, and write by id what they have decided.                          *)
(***************************************************************************)
EXTENDS Naturals, Sequences, FiniteSets, FiniteSetsExt

CONSTANTS
  MaxTasks    \* bound: tasks in the table

ASSUME TasksAssumption == MaxTasks \in Nat

VARIABLES
  tasks,     \* the table, in the order of creation
  notices,   \* notices[t]: critical_overdue_task notifications about task t
  readers,   \* readers[r]: what reader r has read and not yet acted upon
  left       \* bound: how often each kind of call or failure may still happen

taskVars == <<tasks, notices, readers>>

Allowed(kind) == left[kind] > 0
Spend(kind) == Allowed(kind) /\ left' = [left EXCEPT ![kind] = @ - 1]

-----------------------------------------------------------------------------
OnTime == 0     \* ON_TIME, TODAY and WARNING, which nothing depends upon
Overdue == 1
Critical == 2

Closed == {"COMPLETED", "CANCELLED"}
TaskIds == 1..Len(tasks)
IsOpen(t) == tasks[t].status \notin Closed
OpenTasks == {t \in TaskIds : IsOpen(t)}

\* late: how late the due date is by now.
ComputedStatus(late, status) == IF status \in Closed THEN OnTime ELSE late

\* kind and about stand for type, relatedType and relatedId; managed: the assignee has a manager.
NewTask(kind, about, late, managed) ==
  [status |-> "PENDING", late |-> late, shown |-> late, kind |-> kind, about |-> about,
   managed |-> managed]

Append1(task) == Len(tasks) < MaxTasks /\ tasks' = Append(tasks, task)

\* createHeadRecoveryTasks, for one head of sales: one task per lost lead or deal.
RecoveryTask(kind, about) ==
  IF \E t \in TaskIds : tasks[t].kind = kind /\ tasks[t].about = about THEN UNCHANGED tasks
  ELSE Append1(NewTask(kind, about, OnTime, FALSE))

Idle == [phase |-> "idle"]
Readers == {"cron", "list", "day", "card", "move"}

-----------------------------------------------------------------------------
\* A task that a user enters, with a due date that may be past.
CreateTask(kind, about) ==
  /\ Spend("createTask")
  /\ \E late \in {OnTime, Overdue, Critical}, managed \in BOOLEAN :
       Append1(NewTask(kind, about, late, managed))
  /\ UNCHANGED <<notices, readers>>

\* There is no guard on the status: a cancelled task can be completed.
Completed(t) == [tasks EXCEPT ![t].status = "COMPLETED", ![t].shown = OnTime]

Complete(t) ==
  /\ Spend("complete")
  /\ tasks' = Completed(t)
  /\ UNCHANGED <<notices, readers>>

\* The next task is created in the same transaction.
CompleteWithNext(t, kind, about) ==
  /\ Spend("complete")
  /\ Len(tasks) < MaxTasks
  /\ tasks' = Append(Completed(t), NewTask(kind, about, OnTime, tasks[t].managed))
  /\ UNCHANGED <<notices, readers>>

Cancel(t) ==
  /\ Spend("cancel")
  /\ tasks' = [tasks EXCEPT ![t].status = "CANCELLED", ![t].shown = OnTime]
  /\ UNCHANGED <<notices, readers>>

\* The status of the new date is computed from the task as it was read.
StartReschedule(t) ==
  /\ readers["move"] = Idle
  /\ Spend("reschedule")
  /\ \E late \in {OnTime, Critical} :
       readers' = [readers EXCEPT !["move"] =
         [phase |-> "read", task |-> t, late |-> late,
          shown |-> ComputedStatus(late, tasks[t].status)]]
  /\ UNCHANGED <<tasks, notices>>

Reschedule ==
  LET call == readers["move"] IN
  /\ call # Idle
  /\ tasks' = [tasks EXCEPT ![call.task].late = call.late, ![call.task].shown = call.shown]
  /\ readers' = [readers EXCEPT !["move"] = Idle]
  /\ UNCHANGED <<notices, left>>

-----------------------------------------------------------------------------
\* The tasks a reader looks at: the open ones of a list, those of a day that
\* are overdue or due today, and for the cron job the critical ones.
ListedTasks == OpenTasks
DayTasks == {s \in SUBSET OpenTasks : \A t \in OpenTasks : tasks[t].late # OnTime => t \in s}
CronTasks == {t \in OpenTasks : tasks[t].late = Critical}

Scopes(r) ==
  CASE r = "list" -> {ListedTasks}
    [] r = "day"  -> DayTasks
    [] r = "cron" -> {CronTasks}

Fresh(t) == ComputedStatus(tasks[t].late, tasks[t].status)

\* The tasks whose manager is to be told, shown as before or not.
ToldWhenChanged(t) == Fresh(t) = Critical /\ tasks[t].managed /\ tasks[t].shown # Critical
ToldAbout(t) == Fresh(t) = Critical /\ tasks[t].managed

\* persistComputedStatuses up to the search for notices that exist already.
ReadTasks(r) ==
  /\ readers[r] = Idle
  /\ \E scope \in Scopes(r) :
       LET changed == {t \in scope : Fresh(t) # tasks[t].shown}
       IN  readers' = [readers EXCEPT ![r] =
             [phase |-> "tasks", critical |-> {t \in scope : ToldAbout(t)},
              fresh |-> [t \in changed |-> Fresh(t)]]]
  /\ UNCHANGED <<tasks, notices>>

\* Nothing is written, and the reader is done, when all is as it should be.
ReadNotices(r) ==
  LET call == readers[r]
      untold == {t \in call.critical : notices[t] = 0}
  IN
  /\ call.phase = "tasks"
  /\ readers' = [readers EXCEPT ![r] =
       IF untold = {} /\ DOMAIN call.fresh = {} THEN Idle
       ELSE [phase |-> "notices", critical |-> untold, fresh |-> call.fresh]]
  /\ UNCHANGED <<tasks, notices, left>>

\* One transaction: the new statuses, by id, and a notice for each task.
Persist(r) ==
  LET call == readers[r] IN
  /\ call.phase = "notices"
  /\ tasks' = [t \in TaskIds |->
       IF t \in DOMAIN call.fresh THEN [tasks[t] EXCEPT !.shown = call.fresh[t]] ELSE tasks[t]]
  /\ notices' = [t \in DOMAIN notices |->
       IF t \in call.critical THEN notices[t] + 1 ELSE notices[t]]
  /\ readers' = [readers EXCEPT ![r] = Idle]
  /\ UNCHANGED left

\* The card of one task writes its status and the notice one after the other.
OpenCard(t) ==
  /\ readers["card"] = Idle
  /\ Spend("card")
  /\ readers' = [readers EXCEPT !["card"] =
       [phase |-> "status", task |-> t, fresh |-> Fresh(t), changed |-> Fresh(t) # tasks[t].shown,
        managed |-> tasks[t].managed]]
  /\ UNCHANGED <<tasks, notices>>

ShowStatus ==
  LET call == readers["card"] IN
  /\ call.phase = "status"
  /\ tasks' = IF call.changed THEN [tasks EXCEPT ![call.task].shown = call.fresh] ELSE tasks
  /\ readers' = [readers EXCEPT !["card"] =
       IF call.fresh = Critical /\ call.managed
       THEN [phase |-> "notice", task |-> call.task] ELSE Idle]
  /\ UNCHANGED <<notices, left>>

\* createCriticalOverdueNotificationIfNeeded: its search, and its insertion.
SearchNotice ==
  LET call == readers["card"] IN
  /\ call.phase = "notice"
  /\ readers' = [readers EXCEPT !["card"] =
       IF notices[call.task] > 0 THEN Idle ELSE [call EXCEPT !.phase = "insert"]]
  /\ UNCHANGED <<tasks, notices, left>>

InsertNotice ==
  LET call == readers["card"] IN
  /\ call.phase = "insert"
  /\ notices' = [notices EXCEPT ![call.task] = @ + 1]
  /\ readers' = [readers EXCEPT !["card"] = Idle]
  /\ UNCHANGED <<tasks, left>>

-----------------------------------------------------------------------------
List(r) == Spend(r) /\ ReadTasks(r)

\* Every ten minutes; a run that finds no task to look at does nothing.
EscalateCriticalOverdues == CronTasks # {} /\ ReadTasks("cron") /\ UNCHANGED left

\* Time passes for the tasks that are open.
Later == [t \in TaskIds |->
  IF IsOpen(t) /\ tasks[t].late < Critical THEN [tasks[t] EXCEPT !.late = @ + 1] ELSE tasks[t]]

\* The process stops: what it has read is lost.
ForgetReaders == readers' = [r \in Readers |-> Idle]

TaskSteps ==
  \/ \E t \in TaskIds : Complete(t) \/ Cancel(t) \/ StartReschedule(t) \/ OpenCard(t)
  \/ Reschedule
  \/ List("list") \/ List("day") \/ EscalateCriticalOverdues
  \/ \E r \in {"list", "day", "cron"} : ReadNotices(r) \/ Persist(r)
  \/ ShowStatus \/ SearchNotice \/ InsertNotice
=============================================================================
