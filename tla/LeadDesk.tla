------------------------------ MODULE LeadDesk ------------------------------
(***************************************************************************)
(* Clients and leads between a first contact and a deal: the handlers of    *)
(* LeadsService and ClientsService that change who is responsible, close a  *)
(* lead or remove it, with the tasks they create and cancel.  Qualification *)
(* and what follows it are in CalculationRequests.                          *)
(*                                                                          *)
(* A handler that decides from a row it has read, before it writes, is two  *)
(* actions; the call is in calls in between.                                *)
(***************************************************************************)
EXTENDS DealDesk

CONSTANTS
  Pool,        \* the user who owns leads nobody has been chosen for
  Managers,
  Phones,
  MaxLeads,    \* bound: leads in the table
  MaxClients   \* bound: clients in the table

ASSUME DeskAssumption == Pool \notin Managers /\ MaxLeads \in Nat /\ MaxClients \in Nat

VARIABLES
  clients,   \* the table of clients, in the order of creation
  leads      \* the table of leads, in the order of creation

deskVars == <<clients, leads, deals, calls>>

ClientIds == 1..Len(clients)
LeadIds == 1..Len(leads)
OpenStatuses == {"NEW", "IN_PROGRESS", "QUALIFIED"}
Reasons == {"PRICE", "OTHER"}

\* The rows of Client and Lead, and what they hold.
Client == [phone : Phones, deleted : BOOLEAN]
Lead ==
  [client : Nat, owner : Managers \cup {Pool},
   status : OpenStatuses \cup {"CONVERTED", "UNQUALIFIED", "LOST"}, lost : BOOLEAN, losses : Nat,
   reason : {"none"} \cup Reasons, ready : BOOLEAN, announced : Nat, deleted : BOOLEAN]

\* losses: LEAD_LOST entries of the audit log; lost: lostAt is set; ready: the
\* manager's commercial input is ready; announced: how often heads were told so.
NewLead(client, owner) ==
  [client |-> client, owner |-> owner, status |-> "NEW", lost |-> FALSE, losses |-> 0,
   reason |-> "none", ready |-> FALSE, announced |-> 0, deleted |-> FALSE]

NewClient(phone) == [phone |-> phone, deleted |-> FALSE]

\* ensureLeadExists.
Exists(l) == ~leads[l].deleted

-----------------------------------------------------------------------------
\* checkDuplicates, for the phone: among the clients that are not deleted.
MatchesPhone(phone) == {c \in ClientIds : clients[c].phone = phone /\ ~clients[c].deleted}

StartCreateClient(phone) ==
  /\ Spend("createClient")
  /\ MatchesPhone(phone) = {}
  /\ calls' = calls \cup {[op |-> "createClient", phone |-> phone]}
  /\ UNCHANGED <<clients, leads, deals, taskVars>>

\* No constraint of the database keeps a phone number unique.
CreateClient(call) ==
  /\ call.op = "createClient"
  /\ Len(clients) < MaxClients
  /\ clients' = Append(clients, NewClient(call.phone))
  /\ calls' = calls \ {call}
  /\ UNCHANGED <<leads, deals, taskVars, left>>

\* What is open at the client ends with it: tasks, leads, deals (and sessions).
\* The status that is shown for a task stays.
DeleteClient(c) ==
  LET endedLeads == {l \in LeadIds : leads[l].client = c /\ Exists(l)}
      endedDeals == {d \in DealIds : deals[d].client = c /\ DealExists(d)}
      tied(task) == IF task.kind = "deal" THEN task.about \in endedDeals
                    ELSE task.kind \notin {"recovery", "dealRecovery"} /\ task.about \in endedLeads
  IN
  /\ Spend("deleteClient")
  /\ ~clients[c].deleted
  /\ clients' = [clients EXCEPT ![c].deleted = TRUE]
  /\ tasks' = [t \in TaskIds |->
       IF IsOpen(t) /\ tied(tasks[t]) THEN [tasks[t] EXCEPT !.status = "CANCELLED"] ELSE tasks[t]]
  /\ leads' = [l \in LeadIds |->
       IF l \in endedLeads /\ leads[l].status \in OpenStatuses
       THEN [leads[l] EXCEPT !.status = "UNQUALIFIED"] ELSE leads[l]]
  /\ deals' = [d \in DealIds |->
       IF d \in endedDeals /\ deals[d].stage \notin Terminal
       THEN [deals[d] EXCEPT !.stage = "LOST"] ELSE deals[d]]
  /\ UNCHANGED <<calls, notices, readers>>

-----------------------------------------------------------------------------
\* The lead and the task of the first contact are one transaction.
CreateLead(client, owner) ==
  /\ Spend("createLead")
  /\ Len(leads) < MaxLeads
  /\ leads' = Append(leads, NewLead(client, owner))
  /\ \E managed \in BOOLEAN : Append1(NewTask("contact", Len(leads) + 1, OnTime, managed))
  /\ UNCHANGED <<clients, deals, calls, notices, readers>>

\* update calls assign for a new owner; its other fields decide nothing here.
\* Whether the lead waits for an assignment in Telegram is not looked at.
Assign(l, owner) ==
  /\ Spend("assign")
  /\ Exists(l)
  /\ leads[l].owner # owner
  /\ leads' = [leads EXCEPT ![l].owner = owner]
  /\ UNCHANGED <<clients, deals, calls, taskVars>>

DeleteLead(l) ==
  /\ Spend("deleteLead")
  /\ Exists(l)
  /\ leads' = [leads EXCEPT ![l].deleted = TRUE]
  /\ UNCHANGED <<clients, deals, calls, taskVars>>

-----------------------------------------------------------------------------
StartDisqualify(l) ==
  /\ Spend("disqualify")
  /\ Exists(l)
  /\ leads[l].status # "LOST"
  /\ calls' = calls \cup {[op |-> "disqualify", lead |-> l]}
  /\ UNCHANGED <<clients, leads, deals, taskVars>>

\* By id: a lead that was lost in the meantime becomes UNQUALIFIED.
Disqualify(call) ==
  /\ call.op = "disqualify"
  /\ leads' = [leads EXCEPT ![call.lead].status = "UNQUALIFIED"]
  /\ calls' = calls \ {call}
  /\ UNCHANGED <<clients, deals, taskVars, left>>

Recoverable == {"PRICE"}     \* stands for PRICE, NO_STOCK and LEAD_TIME

StartLose(l, reason) ==
  /\ Spend("lose")
  /\ Exists(l)
  /\ leads[l].status \notin {"CONVERTED", "LOST"}
  /\ ~leads[l].lost
  /\ calls' = calls \cup {[op |-> "lose", lead |-> l, reason |-> reason]}
  /\ UNCHANGED <<clients, leads, deals, taskVars>>

\* The condition of the transaction's updateMany.
NotConverted(l) == Exists(l) /\ leads[l].status # "CONVERTED"
Losable(l) == Exists(l) /\ ~leads[l].lost /\ leads[l].status \notin {"CONVERTED", "LOST"}

Lose(call) ==
  LET l == call.lead IN
  /\ call.op = "lose"
  /\ calls' = calls \ {call}
  /\ IF Losable(l)
     THEN /\ leads' = [leads EXCEPT ![l].status = "LOST", ![l].lost = TRUE,
                         ![l].reason = call.reason, ![l].losses = @ + 1]
          /\ IF call.reason \in Recoverable THEN RecoveryTask("recovery", l) ELSE UNCHANGED tasks
     ELSE UNCHANGED <<leads, tasks>>
  /\ UNCHANGED <<clients, deals, notices, readers, left>>

-----------------------------------------------------------------------------
\* assertLeadEligibleForHandoff; the note itself decides nothing.
StartHandoff(l, user) ==
  /\ Spend("handoff")
  /\ Exists(l)
  /\ leads[l].status = "QUALIFIED"
  /\ ~leads[l].ready
  /\ calls' = calls \cup {[op |-> "handoff", lead |-> l, by |-> user]}
  /\ UNCHANGED <<clients, leads, deals, taskVars>>

\* By id: of two calls that overlap the heads hear twice.
Handoff(call) ==
  /\ call.op = "handoff"
  /\ leads' = [leads EXCEPT ![call.lead].ready = TRUE, ![call.lead].announced = @ + 1]
  /\ calls' = calls \ {call}
  /\ UNCHANGED <<clients, deals, taskVars, left>>

-----------------------------------------------------------------------------
\* assertRelatedRecordAccess: a task is about a lead or a deal that is not
\* deleted, or about something else, which is 0.
RelatedRecords ==
  {<<"manual", l>> : l \in {0} \cup {l \in LeadIds : Exists(l)}}
    \cup {<<"deal", d>> : d \in {d \in DealIds : DealExists(d)}}

RelatedTasks ==
  /\ \E record \in RelatedRecords :
       \/ CreateTask(record[1], record[2])
       \/ \E t \in TaskIds : CompleteWithNext(t, record[1], record[2])
  /\ UNCHANGED deskVars

DeskSteps ==
  \/ RelatedTasks
  \/ \E phone \in Phones : StartCreateClient(phone)
  \/ \E c \in ClientIds :
       \/ DeleteClient(c)
       \/ \E owner \in Managers : CreateLead(c, owner)
       \/ \E list \in ItemLists, head \in BOOLEAN :
            CreateDeal(c, list, head) /\ UNCHANGED <<clients, leads>>
  \/ \E l \in LeadIds :
       \/ DeleteLead(l) \/ StartDisqualify(l)
       \/ \E user \in Managers : StartHandoff(l, user)
       \/ \E owner \in Managers \cup {Pool} : Assign(l, owner)
       \/ \E reason \in Reasons : StartLose(l, reason)
  \/ \E call \in calls : CreateClient(call) \/ Disqualify(call) \/ Lose(call) \/ Handoff(call)
=============================================================================
