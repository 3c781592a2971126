--------------------------- MODULE TelegramIntake ---------------------------
(***************************************************************************)
(* How an application that a client leaves in Telegram becomes a lead with  *)
(* a manager.  The webhook stores each update once and queues a job; five   *)
(* workers turn jobs into leads of the pool user; an administrator chooses  *)
(* the manager with a button, or after ten minutes the fallback job does;   *)
(* after thirty minutes the escalation job tells the administrator; every   *)
(* hour the reaper looks for updates that have not been processed.          *)
(*                                                                          *)
(* The messages that are sent matter here only because sending may fail.    *)
(* The queue is BullMQ with the options of queue.module.ts: three attempts, *)
(* finished jobs kept for a while, and a job that is added under the id of  *)
(* one that is still known is not added at all.  Ten and thirty minutes are *)
(* ages, which every lead reaches in its own time.                          *)
(***************************************************************************)
EXTENDS LeadDesk

CONSTANTS
  Updates,       \* updates of the bot: forms and presses of a button
  NoUpdate,
  UserOf,        \* UserOf[u]: the Telegram user of a form; "admin" presses a button
  PhoneOf,       \* PhoneOf[u]: the phone number in the form
  Markup,        \* forms with a name that Telegram does not take as HTML
  Deliveries,    \* requests to the webhook
  UpdateOf,      \* UpdateOf[d]: the update that request d delivers
  MaxTries,      \* attempts of a job
  MaxReaps,      \* MAX_REAP_ATTEMPTS
  Scenarios      \* bound: tables and calls to start from

ASSUME IntakeAssumption ==
  /\ NoUpdate \notin Updates
  /\ UpdateOf \in [Deliveries -> Updates]
  /\ DOMAIN UserOf = Updates /\ DOMAIN PhoneOf = Updates
  /\ MaxTries \in Nat \ {0} /\ MaxReaps \in Nat \ {0}

VARIABLES
  hooks,      \* hooks[d]: how far the handler of request d is
  events,     \* events[u]: the InboundWebhookEvent of u
  jobs,       \* jobs[u]: the job of u in the queue
  metas,      \* metas[l]: the TelegramLeadMetadata of lead l
  fallbacks,  \* leads with a delayed assignment job
  work,       \* work[a]: what actor a is doing
  round,      \* the run of the escalation job
  reaper,     \* the run of the reaper
  setup       \* the environment and the users there are, which nothing changes

intakeVars == <<hooks, events, jobs, metas, fallbacks, work, round, reaper, setup>>
vars == <<tasks, notices, readers, left, clients, leads, deals, calls, intakeVars>>

\* Workers by the update they handle, the loop that polls Telegram for presses
\* of a button, and the processor of the fallback queue.
Actors == Updates \cup {"poll", "fallback"}

NoEvent == [stored |-> FALSE, old |-> FALSE, processed |-> FALSE, attempts |-> 0]
\* The reaper may have given up an update whose job still waits for a worker.
GivenUp == [stored |-> TRUE, old |-> TRUE, processed |-> TRUE, attempts |-> MaxReaps]
NoJob == [state |-> "none", tries |-> 0, stalls |-> 0]
NoMeta ==
  [user |-> "none", pending |-> FALSE, escalated |-> FALSE, age |-> 0, claims |-> 0, markup |-> FALSE]
\* The row of TelegramLeadMetadata; claims counts what its updateMany has claimed;
\* markup: the title of the lead holds what Telegram rejects as HTML.
Metadata ==
  [user : {UserOf[u] : u \in Updates}, pending : BOOLEAN, escalated : BOOLEAN, age : 0..2,
   claims : Nat, markup : BOOLEAN]
Waiting(user) == [NoMeta EXCEPT !.user = user, !.pending = TRUE]

\* chat: TELEGRAM_ADMIN_CHAT_ID is set; users: those of ADMIN_USER_EMAIL and
\* SYSTEM_USER_EMAIL exist; active: the managers that are active.
Setup == [chat : BOOLEAN, users : BOOLEAN, active : SUBSET Managers]

Quiet == [todo |-> <<>>, step |-> 1]
Resting == [todo |-> {}, counting |-> NoUpdate]

GivenOnce(meta) == meta.user # "none" => meta.claims = IF meta.pending THEN 0 ELSE 1

\* The tables at first are such as the program leaves them.
ASSUME ScenariosAssumption ==
  \A s \in Scenarios :
    /\ s.setup \in Setup
    /\ s.clients \in Seq(Client)
    /\ s.leads \in Seq(Lead) /\ Len(s.leads) <= MaxLeads
    /\ s.metas \in Seq(Metadata) /\ \A l \in DOMAIN s.metas : GivenOnce(s.metas[l])
    /\ s.deals \in Seq(Deal) /\ \A d \in DOMAIN s.deals : UponOffer(s.deals[d])

Init ==
  \E s \in Scenarios :
    /\ setup = s.setup
    /\ left = s.left /\ tasks = s.tasks /\ clients = s.clients /\ leads = s.leads /\ deals = s.deals
    /\ notices = [t \in 1..MaxTasks |-> 0]
    /\ readers = [r \in Readers |-> Idle]
    /\ calls = {}
    /\ hooks = [d \in Deliveries |-> IF d \in s.deliveries THEN "new" ELSE "done"]
    /\ events = [u \in Updates |-> IF u \in s.queued THEN GivenUp ELSE NoEvent]
    /\ jobs = [u \in Updates |-> IF u \in s.queued THEN [NoJob EXCEPT !.state = "waiting"] ELSE NoJob]
    /\ metas = [l \in 1..MaxLeads |-> IF l \in DOMAIN s.metas THEN s.metas[l] ELSE NoMeta]
    /\ fallbacks = s.fallbacks
    /\ work = [a \in Actors |-> Idle]
    /\ round = Quiet /\ reaper = Resting

-----------------------------------------------------------------------------
\* The webhook: check, create under the unique key, queue.
Settle(d) == hooks' = [hooks EXCEPT ![d] = "done"]

CheckEvent(d) ==
  /\ hooks[d] = "new"
  /\ IF events[UpdateOf[d]].stored THEN Settle(d) ELSE hooks' = [hooks EXCEPT ![d] = "checked"]
  /\ UNCHANGED <<setup, events, jobs, metas, fallbacks, work, round, reaper, left, taskVars,
                deskVars>>

\* Of two requests that have both found nothing, the second gets P2002.
StoreEvent(d) ==
  LET u == UpdateOf[d] IN
  /\ hooks[d] = "checked"
  /\ IF events[u].stored THEN Settle(d) /\ UNCHANGED events
     ELSE /\ hooks' = [hooks EXCEPT ![d] = "stored"]
          /\ events' = [events EXCEPT ![u].stored = TRUE]
  /\ UNCHANGED <<setup, jobs, metas, fallbacks, work, round, reaper, left, taskVars, deskVars>>

\* A message cannot be sent, or a job cannot be queued.
Throws == Spend("failures")

\* Queue.add with jobId telegram-<id>: nothing while the queue knows the id.
Queued(u) == IF jobs[u].state = "none" THEN [jobs EXCEPT ![u].state = "waiting"] ELSE jobs

Enqueue(d) ==
  /\ hooks[d] = "stored"
  /\ Settle(d)
  /\ \/ jobs' = Queued(UpdateOf[d]) /\ UNCHANGED left
     \/ Throws /\ UNCHANGED jobs
  /\ UNCHANGED <<setup, events, metas, fallbacks, work, round, reaper, taskVars, deskVars>>

-----------------------------------------------------------------------------
\* TelegramLeadFactory.create: the lead of this user that still waits, or else
\* the client of the phone number.  A contact is found whatever has become of
\* its client, so a deleted client is found as well.
PendingLeads(user) ==
  {l \in LeadIds : metas[l].pending /\ metas[l].user = user /\ leads[l].owner = Pool}

FindClientByPhone(phone) ==
  LET found == {c \in ClientIds : clients[c].phone = phone}
  IN  IF found = {} THEN {0} ELSE found

\* What assignManager goes on with: the lead and the manager, if it waits and he
\* is active.
Choice(l, manager) ==
  IF manager \in setup.active /\ metas[l].pending THEN [phase |-> "claim", lead |-> l, manager |-> manager]
  ELSE [phase |-> "answer", lead |-> l]

\* A button names a lead and the index of a manager.  The managers may be others
\* by now, so it may be any of them.
Presses == {Choice(l, manager) : l \in LeadIds, manager \in Managers}

\* A worker takes a job.
StartJob(u) ==
  /\ jobs[u].state = "waiting"
  /\ work[u] = Idle
  /\ jobs' = [jobs EXCEPT ![u].state = "active"]
  /\ \/ /\ UserOf[u] # "admin"
        /\ \/ \E l \in PendingLeads(UserOf[u]) :
                work' = [work EXCEPT ![u] = [phase |-> "schedule", lead |-> l]]
           \/ /\ PendingLeads(UserOf[u]) = {}
              /\ \E c \in FindClientByPhone(PhoneOf[u]) :
                   work' = [work EXCEPT ![u] = [phase |-> "create", client |-> c]]
     \/ /\ UserOf[u] = "admin"
        /\ \E pressed \in Presses : work' = [work EXCEPT ![u] = pressed]
  /\ UNCHANGED <<setup, hooks, events, metas, fallbacks, round, reaper, left, taskVars, deskVars>>

\* The transaction that creates client, lead and metadata.
CreateTelegramLead(u) ==
  LET l == Len(leads) + 1
      client == IF work[u].client = 0 THEN Len(clients) + 1 ELSE work[u].client
  IN
  /\ work[u].phase = "create"
  /\ l <= MaxLeads /\ client <= MaxClients
  /\ clients' = IF work[u].client = 0 THEN Append(clients, NewClient(PhoneOf[u])) ELSE clients
  /\ leads' = Append(leads, NewLead(client, Pool))
  /\ metas' = [metas EXCEPT ![l] = [Waiting(UserOf[u]) EXCEPT !.markup = u \in Markup]]
  /\ work' = [work EXCEPT ![u] = [phase |-> "schedule", lead |-> l]]
  /\ UNCHANGED <<setup, deals, calls, hooks, events, jobs, fallbacks, round, reaper, left,
                taskVars>>

\* scheduleAssignmentFallback logs a failure and goes on.
ScheduleFallback(u) ==
  /\ work[u].phase = "schedule"
  /\ work' = [work EXCEPT ![u].phase = "announce"]
  /\ \/ fallbacks' = fallbacks \cup {work[u].lead} /\ UNCHANGED left
     \/ Throws /\ UNCHANGED fallbacks
  /\ UNCHANGED <<setup, hooks, events, jobs, metas, round, reaper, taskVars, deskVars>>

\* The error is kept on the event and the job is tried again, or has failed.
JobFails(u) ==
  /\ work' = [work EXCEPT ![u] = Idle]
  /\ jobs' = [jobs EXCEPT ![u].tries = @ + 1,
                          ![u].state = IF jobs[u].tries + 1 < MaxTries THEN "waiting" ELSE "failed"]

\* Here the name is escaped, so that only Telegram itself can refuse it.
SendLeadToAdmin(u) ==
  /\ work[u].phase = "announce"
  /\ \/ work' = [work EXCEPT ![u] = [phase |-> "mark"]] /\ UNCHANGED <<jobs, left>>
     \/ setup.chat /\ Throws /\ JobFails(u)
  /\ UNCHANGED <<setup, hooks, events, metas, fallbacks, round, reaper, taskVars, deskVars>>

MarkProcessed(u) ==
  /\ work[u].phase = "mark"
  /\ events' = [events EXCEPT ![u].processed = TRUE]
  /\ work' = [work EXCEPT ![u] = [phase |-> "return"]]
  /\ UNCHANGED <<setup, hooks, jobs, metas, fallbacks, round, reaper, left, taskVars, deskVars>>

CompleteJob(u) ==
  /\ work[u].phase = "return"
  /\ jobs' = [jobs EXCEPT ![u].state = "completed"]
  /\ work' = [work EXCEPT ![u] = Idle]
  /\ UNCHANGED <<setup, hooks, events, metas, fallbacks, round, reaper, left, taskVars, deskVars>>

\* removeOnComplete and removeOnFail: later jobs push a finished one out.
EvictJob(u) ==
  /\ jobs[u].state \in {"completed", "failed"}
  /\ Spend("evictions")
  /\ jobs' = [jobs EXCEPT ![u] = NoJob]
  /\ UNCHANGED <<setup, hooks, events, metas, fallbacks, work, round, reaper, taskVars, deskVars>>

-----------------------------------------------------------------------------
\* A press that the polling loop receives.  It is confirmed to Telegram before
\* it is handled, so it is lost when handling fails.
PressButton ==
  /\ work["poll"] = Idle
  /\ Spend("presses")
  /\ \E pressed \in Presses : work' = [work EXCEPT !["poll"] = pressed]
  /\ UNCHANGED <<setup, hooks, events, jobs, metas, fallbacks, round, reaper, taskVars, deskVars>>

\* findLeastLoadedManager.
Load(manager) ==
  Cardinality({l \in LeadIds : /\ leads[l].owner = manager /\ Exists(l)
                               /\ leads[l].status \in {"NEW", "IN_PROGRESS"}})
LeastLoaded == {m \in setup.active : \A other \in setup.active : Load(m) <= Load(other)}

\* The delayed job: nobody has reacted for ten minutes.  Without an active
\* manager the job is done, and the lead waits on.
StartFallback(l) ==
  /\ l \in fallbacks
  /\ metas[l].age >= 1
  /\ work["fallback"] = Idle
  /\ IF metas[l].pending /\ LeastLoaded # {}
     THEN \E manager \in LeastLoaded :
            work' = [work EXCEPT !["fallback"] = Choice(l, manager)] /\ UNCHANGED fallbacks
     ELSE fallbacks' = fallbacks \ {l} /\ UNCHANGED work
  /\ UNCHANGED <<setup, hooks, events, jobs, metas, round, reaper, left, taskVars, deskVars>>

\* The condition of the claim's updateMany.
AnyLead(l) == metas[l].user # "none"
Claimable(l) == metas[l].pending

\* The transaction of assignManager: the lead goes to the manager whoever owns
\* it by now, if nobody has claimed it.
Claim(a) ==
  LET l == work[a].lead IN
  /\ work[a].phase = "claim"
  /\ IF Claimable(l)
     THEN /\ metas' = [metas EXCEPT ![l].pending = FALSE, ![l].claims = @ + 1]
          /\ leads' = [leads EXCEPT ![l].owner = work[a].manager]
     ELSE UNCHANGED <<metas, leads>>
  /\ work' = [work EXCEPT ![a] = [phase |-> "answer", lead |-> l]]
  /\ UNCHANGED <<setup, clients, deals, calls, hooks, events, jobs, fallbacks, round, reaper,
                left, taskVars>>

\* What follows is messages: syncAdminMessages, answerCallback, and those to
\* the manager.  Any of them may throw.
Answer(a) ==
  /\ work[a].phase = "answer"
  /\ \/ /\ work' = [work EXCEPT ![a] = IF a \in Updates THEN [phase |-> "mark"] ELSE Idle]
        /\ fallbacks' = IF a = "fallback" THEN fallbacks \ {work[a].lead} ELSE fallbacks
        /\ UNCHANGED <<jobs, left>>
     \/ /\ Throws
        /\ IF a \in Updates THEN JobFails(a) ELSE work' = [work EXCEPT ![a] = Idle] /\ UNCHANGED jobs
        /\ UNCHANGED fallbacks
  /\ UNCHANGED <<setup, hooks, events, metas, round, reaper, taskVars, deskVars>>

-----------------------------------------------------------------------------
\* handleEscalation, every five minutes: what has waited for half an hour.
Stale ==
  {l \in LeadIds : /\ metas[l].pending /\ ~metas[l].escalated /\ metas[l].age >= 2
                   /\ leads[l].owner = Pool}

\* The leads come in the order of the database, which may be any.
Orders(found) ==
  {order \in [1..Cardinality(found) -> found] : \A i, j \in DOMAIN order : order[i] = order[j] => i = j}

StartRound ==
  /\ round = Quiet
  /\ Stale # {}
  /\ \E order \in Orders(Stale) : round' = [round EXCEPT !.todo = order]
  /\ UNCHANGED <<setup, hooks, events, jobs, metas, fallbacks, work, reaper, left, taskVars,
                deskVars>>

\* escalateLead decides from the metadata the round has read, and marks last.
MarkedFirst == <<"message", "mark", "task">>
EscalationSteps == <<"message", "task", "mark">>

\* A message that cannot be sent ends the round for the leads behind it as well.
\* A title that Telegram does not take as HTML does so in every round.
EscalateLead ==
  LET l == Head(round.todo)
      step == EscalationSteps[round.step]
      next == IF round.step < Len(EscalationSteps) THEN [round EXCEPT !.step = @ + 1]
              ELSE [todo |-> Tail(round.todo), step |-> 1]
  IN
  /\ round.todo # <<>>
  /\ \/ /\ step = "message"
        /\ \/ (setup.chat => ~metas[l].markup) /\ round' = next /\ UNCHANGED left
           \/ setup.chat /\ metas[l].markup /\ round' = Quiet /\ UNCHANGED left
           \/ setup.chat /\ round' = Quiet /\ Throws
        /\ UNCHANGED <<tasks, metas>>
     \/ /\ step = "task"
        /\ round' = next
        /\ IF setup.users
           THEN \E managed \in BOOLEAN : Append1(NewTask("escalation", l, OnTime, managed))
           ELSE UNCHANGED tasks
        /\ UNCHANGED <<metas, left>>
     \/ /\ step = "mark"
        /\ round' = next
        /\ metas' = [metas EXCEPT ![l].escalated = TRUE]
        /\ UNCHANGED <<tasks, left>>
  /\ UNCHANGED <<setup, notices, readers, hooks, events, jobs, fallbacks, work, reaper, deskVars>>

-----------------------------------------------------------------------------
\* reapStuckEvents, every hour, over the events it has read.
Stuck == {u \in Updates : events[u].stored /\ events[u].old /\ ~events[u].processed}

StartReaper ==
  /\ reaper = Resting
  /\ Stuck # {}
  /\ reaper' = [reaper EXCEPT !.todo = {<<u, events[u].attempts>> : u \in Stuck}]
  /\ UNCHANGED <<setup, hooks, events, jobs, metas, fallbacks, work, round, left, taskVars,
                deskVars>>

NeverGivesUp(attempts) == FALSE
GivesUp(attempts) == attempts >= MaxReaps

\* markProcessed with an error, or a job under the same id and, after that,
\* one attempt more.  A queue that refuses the job ends the run.  The webhook
\* stores every update with its payload, so none is given up for want of it.
ReapEvent ==
  /\ reaper.counting = NoUpdate
  /\ \E entry \in reaper.todo :
       LET u == entry[1] IN
       \/ /\ GivesUp(entry[2])
          /\ events' = [events EXCEPT ![u].processed = TRUE]
          /\ reaper' = [reaper EXCEPT !.todo = @ \ {entry}]
          /\ UNCHANGED <<jobs, left>>
       \/ /\ ~GivesUp(entry[2])
          /\ jobs' = Queued(u)
          /\ reaper' = [todo |-> reaper.todo \ {entry}, counting |-> u]
          /\ UNCHANGED <<events, left>>
       \/ ~GivesUp(entry[2]) /\ Throws /\ reaper' = Resting /\ UNCHANGED <<events, jobs>>
  /\ UNCHANGED <<setup, hooks, metas, fallbacks, work, round, taskVars, deskVars>>

\* Attempts are counted as far as they are told apart.
CountAttempt ==
  LET u == reaper.counting IN
  /\ u # NoUpdate
  /\ events' = [events EXCEPT ![u].attempts = Min({@ + 1, MaxReaps})]
  /\ reaper' = [reaper EXCEPT !.counting = NoUpdate]
  /\ UNCHANGED <<setup, hooks, jobs, metas, fallbacks, work, round, left, taskVars, deskVars>>

-----------------------------------------------------------------------------
EventAges(u) ==
  /\ events[u].stored /\ ~events[u].old
  /\ events' = [events EXCEPT ![u].old = TRUE]
  /\ UNCHANGED <<setup, hooks, jobs, metas, fallbacks, work, round, reaper, left, taskVars,
                deskVars>>

LeadAges(l) ==
  /\ metas[l].pending /\ metas[l].age < 2
  /\ metas' = [metas EXCEPT ![l].age = @ + 1]
  /\ UNCHANGED <<setup, hooks, events, jobs, fallbacks, work, round, reaper, left, taskVars,
                deskVars>>

TasksAge ==
  /\ Later # tasks
  /\ tasks' = Later
  /\ Spend("days")
  /\ UNCHANGED <<notices, readers, deskVars, intakeVars>>

\* The process stops.  A job that was active is found stalled and waits again;
\* the second time it has failed.
Crash ==
  /\ Spend("crashes")
  /\ jobs' = [u \in Updates |->
       IF jobs[u].state # "active" THEN jobs[u]
       ELSE [jobs[u] EXCEPT !.stalls = @ + 1, !.state = IF jobs[u].stalls = 0 THEN "waiting" ELSE "failed"]]
  /\ hooks' = [d \in Deliveries |-> IF hooks[d] = "new" THEN "new" ELSE "done"]
  /\ work' = [a \in Actors |-> Idle]
  /\ round' = Quiet /\ reaper' = Resting
  /\ calls' = {}
  /\ ForgetReaders
  /\ UNCHANGED <<setup, tasks, notices, clients, leads, deals, events, metas, fallbacks>>

IntakeSteps ==
  \/ \E d \in Deliveries : CheckEvent(d) \/ StoreEvent(d) \/ Enqueue(d)
  \/ \E u \in Updates :
       \/ StartJob(u) \/ CreateTelegramLead(u) \/ ScheduleFallback(u) \/ SendLeadToAdmin(u)
       \/ MarkProcessed(u) \/ CompleteJob(u) \/ EvictJob(u) \/ EventAges(u)
  \/ PressButton
  \/ \E l \in LeadIds : StartFallback(l) \/ LeadAges(l)
  \/ \E a \in Actors : Claim(a) \/ Answer(a)
  \/ StartRound \/ EscalateLead
  \/ StartReaper \/ ReapEvent \/ CountAttempt

Next ==
  \/ TaskSteps /\ UNCHANGED <<deskVars, intakeVars>>
  \/ DealSteps /\ UNCHANGED <<clients, leads, intakeVars>>
  \/ DeskSteps /\ UNCHANGED intakeVars
  \/ IntakeSteps
  \/ TasksAge
  \/ Crash

\* Workers and cron jobs go on as long as there is something to do, and time
\* passes.  Nobody has to press a button, and nobody has to open a task.  Each
\* of them has a processor, a timer or a cron job of its own.
JobSteps(u) ==
  \/ StartJob(u) \/ CreateTelegramLead(u) \/ ScheduleFallback(u) \/ SendLeadToAdmin(u)
  \/ Claim(u) \/ Answer(u) \/ MarkProcessed(u) \/ CompleteJob(u)

Workers ==
  \/ \E d \in Deliveries : CheckEvent(d) \/ StoreEvent(d) \/ Enqueue(d)
  \/ \E u \in Updates : JobSteps(u)
  \/ \E l \in LeadIds : StartFallback(l)
  \/ Claim("fallback") \/ Answer("fallback")

Clocks == (\E u \in Updates : EventAges(u)) \/ (\E l \in LeadIds : LeadAges(l))

TaskCron ==
  /\ EscalateCriticalOverdues \/ ReadNotices("cron") \/ Persist("cron")
  /\ UNCHANGED <<deskVars, intakeVars>>

Fairness ==
  /\ WF_vars(Workers) /\ WF_vars(Clocks)
  /\ WF_vars(StartRound \/ EscalateLead)
  /\ WF_vars(StartReaper \/ ReapEvent \/ CountAttempt)
  /\ WF_vars(TaskCron)

Spec == Init /\ [][Next]_vars /\ Fairness

-----------------------------------------------------------------------------
\* An update that the webhook has accepted is settled in the end: it has been
\* handled, or the reaper has given it up.  The process may stop at any point,
\* the queue may refuse a job, and a failed job may still block its own id.
\* (telegram-webhook.controller.ts, webhook-reaper.service.ts)
EveryUpdateSettles == \A u \in Updates : events[u].stored ~> events[u].processed

\* Buttons of two messages, the fallback job and repeated jobs give a lead away
\* once: one of them has claimed it exactly when it waits no longer.
\* (telegram-admin-handler.service.ts, assignManager)
HandedOverOnce ==
  \A l \in LeadIds : GivenOnce(metas[l])

\* A lead of the pool that waits does not wait unnoticed: it is claimed, or
\* moved by hand, or the administrator gets a task about it, even when a
\* message fails or the process stops between the steps of the escalation, for
\* this lead or for one before it in the round, and the job that was to choose a
\* manager was never queued or found none.  That is, unless a lead whose title
\* ends every round waits as well.  Where the users of the task do not exist the
\* lead is only marked.  (telegram-escalation.service.ts)
Waits(l) == l \in LeadIds /\ metas[l].pending /\ leads[l].owner = Pool
Told(l) == \E t \in TaskIds : tasks[t].kind = "escalation" /\ tasks[t].about = l
EndsRounds(l) == Waits(l) /\ metas[l].markup /\ setup.chat
Obstructed == \E l \in LeadIds : EndsRounds(l)
Escalated(l) == IF setup.users THEN Told(l) ELSE metas[l].escalated
NobodyForgotten == \A l \in 1..MaxLeads : Waits(l) ~> (~Waits(l) \/ Escalated(l) \/ Obstructed)

\* The manager of somebody whose open task is overdue by a day hears of it,
\* whichever reader has already shown the task as critical and stopped there.
\* (tasks.service.ts, escalateCriticalOverdues)
Unheard(t) ==
  t \in TaskIds /\ IsOpen(t) /\ tasks[t].late = Critical /\ tasks[t].managed /\ notices[t] = 0
OverdueReachesManager == \A t \in 1..MaxTasks : Unheard(t) ~> ~Unheard(t)

\* A lead is lost once: the first reason stays and the loss is recorded once,
\* whoever loses it at the same time, disqualifies it or deletes its client.
\* (leads.service.ts, lose)
LostOnce ==
  [][\A l \in LeadIds : leads[l].lost =>
       /\ leads[l]'.reason = leads[l].reason
       /\ leads[l]'.losses = leads[l].losses]_leads
=============================================================================
