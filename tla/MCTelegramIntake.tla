-------------------------- MODULE MCTelegramIntake --------------------------
(***************************************************************************)
(* Instances of TelegramIntake for TLC.  A scenario is what the tables hold *)
(* at first and what may happen to them: the calls of users, and how often  *)
(* sending or queueing fails, the process stops, a finished job is dropped. *)
(***************************************************************************)
EXTENDS TelegramIntake, TLC

CONSTANTS
  pool, m1, m2,         \* users
  form, again, button,  \* updates: two forms of one Telegram user, one press
  d1, d3, d4, d5        \* requests to the webhook

Forms == [u \in {form, again, button} |-> IF u = button THEN "admin" ELSE "tg"]
FormPhones == [u \in {form, again, button} |-> IF u = button THEN "none" ELSE "p"]
Delivered == (d1 :> form @@ d3 :> again @@ d4 :> button @@ d5 :> button)

Kinds == {"createTask", "complete", "cancel", "reschedule", "list", "day", "card",
          "createLead", "assign", "lose", "disqualify", "deleteLead", "deleteClient",
          "createClient", "handoff", "createDeal", "setItems", "changeStage", "addOffer",
          "approveOffer", "deleteDeal", "loseDeal", "acceptQuote", "presses", "failures", "crashes", "evictions", "days"}
Calls(f) == f @@ [k \in Kinds |-> 0]

Client1 == NewClient("p")
Lead1(owner) == NewLead(1, owner)
Empty == [deliveries |-> {}, queued |-> {}, clients |-> <<>>, leads |-> <<>>, metas |-> <<>>,
          deals |-> <<>>, fallbacks |-> {}, tasks |-> <<>>, left |-> Calls(<<>>),
          setup |-> [chat |-> TRUE, users |-> TRUE, active |-> {m1, m2}]]
OneWaits == [Empty EXCEPT !.clients = <<Client1>>, !.leads = <<Lead1(pool)>>,
                          !.metas = <<Waiting("tg")>>]

\* A press of a button for a lead that has a manager, delivered twice: nothing
\* but the webhook, the queue and the reaper.
Receiving ==
  [Empty EXCEPT !.deliveries = {d4, d5}, !.clients = <<Client1>>, !.leads = <<Lead1(m1)>>,
     !.metas = <<[Waiting("tg") EXCEPT !.pending = FALSE, !.claims = 1]>>,
     !.left = Calls("failures" :> 3 @@ "crashes" :> 1 @@ "evictions" :> 1)]
\* One form from the request to the lead.
OneForm == [Empty EXCEPT !.deliveries = {d1}, !.clients = <<Client1>>]
\* The job of a form that fails, and the one whose worker stops.
FormFails == [Empty EXCEPT !.queued = {form}, !.left = Calls("failures" :> 2)]
FormStops == [Empty EXCEPT !.queued = {form}, !.left = Calls("crashes" :> 1)]
\* Two forms of one user.
TwoForms == [Empty EXCEPT !.queued = {form, again}]
\* A lead waits; a press in the chat and one in the queue, the fallback job, the
\* escalation, and somebody who assigns it by hand.
Handover ==
  [OneWaits EXCEPT !.queued = {button}, !.fallbacks = {1},
     !.left = Calls("presses" :> 1 @@ "assign" :> 1 @@ "failures" :> 1)]
\* Nothing but the escalation is left for a lead that waits.
Escalation ==
  [OneWaits EXCEPT
     !.left = Calls("failures" :> 1 @@ "crashes" :> 1 @@ "days" :> 2 @@ "presses" :> 1)]
\* Two leads wait for the escalation; a message fails, or the process stops.
TwoWait ==
  [OneWaits EXCEPT !.leads = <<Lead1(pool), Lead1(pool)>>,
     !.metas = <<Waiting("tg"), Waiting("tg")>>,
     !.left = Calls("failures" :> 1 @@ "crashes" :> 1 @@ "presses" :> 1)]
\* One of them has a title that ends every round, until somebody takes it.
Rejected ==
  [TwoWait EXCEPT !.metas = <<[Waiting("tg") EXCEPT !.markup = TRUE], Waiting("tg")>>,
     !.left = Calls("presses" :> 1 @@ "assign" :> 1)]
\* There is no chat, no user for the task, and no or only one active manager.
Unstaffed ==
  [OneWaits EXCEPT !.fallbacks = {1}, !.setup = [chat |-> FALSE, users |-> FALSE, active |-> {}],
     !.left = Calls("presses" :> 1 @@ "crashes" :> 1)]
OneManager ==
  [OneWaits EXCEPT !.queued = {button}, !.fallbacks = {1}, !.setup.active = {m1},
     !.setup.users = FALSE, !.left = Calls("failures" :> 1)]
\* Two users close a lead, or its client is deleted, while it has a task.
Closing ==
  [Empty EXCEPT !.clients = <<Client1>>, !.leads = <<Lead1(m1)>>,
     !.tasks = <<NewTask("contact", 1, OnTime, FALSE)>>,
     !.left = Calls("lose" :> 2 @@ "disqualify" :> 1 @@ "deleteClient" :> 1 @@ "deleteLead" :> 1 @@ "createTask" :> 1)]
\* New rows for a client that may be deleted.
Entering ==
  [Empty EXCEPT !.clients = <<Client1>>,
     !.left = Calls("createLead" :> 1 @@ "createClient" :> 1 @@ "deleteClient" :> 1 @@ "lose" :> 1)]
\* A task that is critical already, in the hands of all its readers.
Overdues ==
  [Empty EXCEPT !.tasks = <<[NewTask("contact", 0, Critical, TRUE) EXCEPT !.shown = OnTime]>>,
     !.left = Calls("list" :> 1 @@ "card" :> 1 @@ "complete" :> 1 @@ "crashes" :> 1)]
TaskCalls ==
  [Empty EXCEPT !.tasks = <<NewTask("contact", 0, Overdue, TRUE)>>,
     !.left = Calls("day" :> 1 @@ "cancel" :> 1 @@ "days" :> 1 @@ "reschedule" :> 1)]
NewTasks == [Empty EXCEPT !.left = Calls("createTask" :> 2 @@ "complete" :> 1)]

\* A lead is handed to the heads of sales twice, or closed meanwhile.
Notes ==
  [Empty EXCEPT !.clients = <<Client1>>, !.leads = <<[Lead1(m1) EXCEPT !.status = "QUALIFIED"]>>,
     !.left = Calls("handoff" :> 2 @@ "disqualify" :> 1)]

\* Two items that may be sold, one of them by a head only.
Item == [sheets |-> 1, m2 |-> 1, price |-> 4, discount |-> 0]
Cheap == [sheets |-> 1, m2 |-> 4, price |-> 4, discount |-> 2]
Items == {{}, {Item}, {Cheap}}

Deal1 == [NewDeal(1) EXCEPT !.stage = "PAYMENT_PREPARATION", !.lines = {{Item}}, !.total = 4,
            !.offers = <<[amount |-> 4, approved |-> TRUE]>>]
Offered == [NewDeal(1) EXCEPT !.stage = "NEGOTIATION", !.lines = {{Item}}, !.total = 4]
\* A deal that is negotiated, with one call of each kind.
Bargaining ==
  [Empty EXCEPT !.clients = <<Client1>>, !.deals = <<Offered>>,
     !.left = Calls("changeStage" :> 2 @@ "addOffer" :> 2 @@ "approveOffer" :> 1)]
\* A quote of it is accepted, and it is lost, while its stage is changed.
Accepting ==
  [Empty EXCEPT !.clients = <<Client1>>, !.deals = <<Offered>>,
     !.left = Calls("changeStage" :> 2 @@ "acceptQuote" :> 2 @@ "loseDeal" :> 1)]
\* The lines of a deal while it is won.
Winning ==
  [Empty EXCEPT !.clients = <<Client1>>, !.deals = <<Deal1>>,
     !.left = Calls("setItems" :> 2 @@ "changeStage" :> 1 @@ "deleteClient" :> 1 @@ "deleteDeal" :> 1)]
NewDeals ==
  [Empty EXCEPT !.clients = <<Client1>>,
     !.left = Calls("createDeal" :> 1 @@ "changeStage" :> 1 @@ "complete" :> 1 @@ "deleteClient" :> 1)]

AllScenarios ==
  {Receiving, OneForm, FormFails, FormStops,
   TwoForms, Handover, Escalation, TwoWait, Rejected, Unstaffed, OneManager, Closing,
   Entering, Overdues, TaskCalls, NewTasks, Notes, Bargaining, Accepting, Winning, NewDeals}
=============================================================================
