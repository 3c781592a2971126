------------------------------ MODULE DealDesk ------------------------------
(***************************************************************************)
(* Deals as DealsService lets managers and heads of sales handle them: the  *)
(* lines of a deal and their prices, the offers made to the client, and the *)
(* stages, which a deal passes in order unless a head makes an exception or *)
(* the client accepts a quote.  What orders, quotes and supplier orders make *)
(* of a deal besides is in the modules about those.                         *)
(*                                                                          *)
(* A stage is decided upon from the deal, its lines and its offers as they  *)
(* were read, and written by id afterwards.                                 *)
(***************************************************************************)
EXTENDS TaskDesk, Integers

CONSTANTS
  ItemLists,      \* sets of items that a deal may be given
  PurchasePrice,  \* of a square metre of the product
  BasePrice,      \* 0 when there is none
  MaxDeals,       \* bound: deals in the table
  MaxOffers       \* bound: offers for a deal

ASSUME DealAssumption ==
  /\ MaxDeals \in Nat /\ MaxOffers \in Nat
  /\ PurchasePrice \in Nat /\ BasePrice \in Nat

VARIABLES
  deals,     \* the table of deals, with their lines, offers and stage history
  calls      \* calls between what they have read and what they write

Stages == <<"QUALIFICATION", "HPL_SELECTION", "OFFER_PREPARATION", "NEGOTIATION",
            "AGREEMENT_PENDING", "PAYMENT_PREPARATION", "WON">>
Terminal == {"WON", "LOST"}
Signed == {"AGREEMENT_PENDING", "PAYMENT_PREPARATION", "WON"}
\* SHIPPED is in nobody's way: only an exception or an override leads there.
StageNames == {Stages[i] : i \in 1..7} \cup {"SHIPPED", "LOST"}

DealIds == 1..Len(deals)
DealExists(d) == ~deals[d].deleted

\* getPermissions: a deal that is won or lost is closed, for heads as well.
IsClosed(deal) == deal.stage \in Terminal

\* The rows of DealOffer and Deal, and what they hold.
Offer == [amount : Int, approved : BOOLEAN]
Deal ==
  [client : Nat, stage : StageNames, lines : SUBSET ItemLists, total : Int, margin : Int,
   offers : Seq(Offer), excepted : BOOLEAN, accepted : BOOLEAN, lost : BOOLEAN, deleted : BOOLEAN]

\* lines: the lists whose lines are stored; total and margin as last computed;
\* excepted: an exception is in its stage history; accepted: a quote of it has
\* clientAcceptedAt; lost: lostAt is set.
NewDeal(client) ==
  [client |-> client, stage |-> "QUALIFICATION", lines |-> {}, total |-> 0, margin |-> 0,
   offers |-> <<>>, excepted |-> FALSE, accepted |-> FALSE, lost |-> FALSE, deleted |-> FALSE]

-----------------------------------------------------------------------------
\* assertManagerCannotAssignDiscount, validateDealItemPricing and the limits of
\* PricingPolicyService, all multiplied by the square metres that were entered.
PriceAllowed(item, head) ==
  LET paid == item.price * item.m2 - item.discount
      discount == IF head THEN 15 ELSE 0      \* percent
  IN
  /\ item.discount > 0 => head
  /\ paid >= PurchasePrice * item.m2
  /\ BasePrice # 0 => 100 * paid >= BasePrice * (100 - discount) * item.m2

\* calculateDealItems counts square metres from the sheets, of one each here;
\* a discount that a manager enters has been refused before.
LineTotal(item) == item.sheets * item.price - item.discount
LineMargin(item) == LineTotal(item) - item.sheets * PurchasePrice

\* calculateTotals.
Total(list) == MapThenSumSet(LineTotal, list)
Margin(list) == MapThenSumSet(LineMargin, list)
Priced(deal, list) == [deal EXCEPT !.total = Total(list), !.margin = Margin(list)]

Stored(list) == IF list = {} THEN {} ELSE {list}

\* ensureOpenTaskForActiveDeal: a task unless some task about the deal is open.
OpenTaskFor(d) ==
  IF \E t \in OpenTasks : tasks[t].kind = "deal" /\ tasks[t].about = d THEN UNCHANGED tasks
  ELSE \E managed \in BOOLEAN : Append1(NewTask("deal", d, OnTime, managed))

\* One transaction; whether the client still exists is not asked.
CreateDeal(client, list, head) ==
  LET deal == [NewDeal(client) EXCEPT !.lines = Stored(list)] IN
  /\ Spend("createDeal")
  /\ Len(deals) < MaxDeals
  /\ \A item \in list : PriceAllowed(item, head)
  /\ deals' = Append(deals, Priced(deal, list))
  /\ OpenTaskFor(Len(deals) + 1)
  /\ UNCHANGED <<calls, notices, readers>>

-----------------------------------------------------------------------------
Begin(call) == calls' = calls \cup {call} /\ UNCHANGED <<deals, taskVars>>
Finish(call) == calls' = calls \ {call}

\* assertCommercialMutationAllowed: what was agreed is frozen with the deal.
StartSetItems(d, list, head) ==
  /\ Spend("setItems")
  /\ DealExists(d)
  /\ ~IsClosed(deals[d])
  /\ \A item \in list : PriceAllowed(item, head)
  /\ Begin([op |-> "deleteItems", deal |-> d, list |-> list])

\* The transaction's deleteMany sees the lines that are committed by then.
DeleteItems(call) ==
  /\ call.op = "deleteItems"
  /\ calls' = (calls \ {call}) \cup
       {[op |-> "setItems", deal |-> call.deal, list |-> call.list, seen |-> deals[call.deal].lines]}
  /\ UNCHANGED <<deals, taskVars, left>>

\* Two overlapping calls leave the lines of both and the totals of the later.
SetItems(call) ==
  LET deal == deals[call.deal]
      lines == (deal.lines \ call.seen) \cup Stored(call.list)
  IN
  /\ call.op = "setItems"
  /\ deals' = [deals EXCEPT ![call.deal] = Priced([deal EXCEPT !.lines = lines], call.list)]
  /\ Finish(call)
  /\ UNCHANGED <<taskVars, left>>

-----------------------------------------------------------------------------
\* DEAL_STAGE_TRANSITIONS.
NextStages(stage) ==
  CASE stage \in Terminal -> {}
    [] stage = "SHIPPED" -> {"WON", "LOST"}
    [] OTHER -> {"LOST"} \cup {Stages[i + 1] : i \in {i \in 1..6 : Stages[i] = stage}}

ApprovedOnce(offers) == \E v \in DOMAIN offers : offers[v].approved

\* Faulty variant: an offer is enough to win the deal.
LacksOffer(deal, stage) ==
  \/ stage \in {"OFFER_PREPARATION", "NEGOTIATION", "WON"} /\ deal.lines = {}
  \/ stage = "NEGOTIATION" /\ deal.offers = <<>>
  \/ stage \in Signed /\ deal.offers = <<>>

\* getStageTransitionViolations; LOST is not asked for here, the DTO refuses it.
Lacks(deal, stage) ==
  \/ stage \in {"OFFER_PREPARATION", "NEGOTIATION", "WON"} /\ deal.lines = {}
  \/ stage = "NEGOTIATION" /\ deal.offers = <<>>
  \/ stage \in Signed /\ ~ApprovedOnce(deal.offers)

Override(deal, stage) == deal.stage # stage /\ IsClosed(deal)

\* A transition out of order counts as well, unless it is an override.
Violates(deal, stage) ==
  /\ deal.stage # stage
  /\ (~Override(deal, stage) /\ stage \notin NextStages(deal.stage)) \/ Lacks(deal, stage)

\* Only a head leaves a terminal stage or makes an exception, and gives a reason.
Exceptional(deal, stage) == Override(deal, stage) \/ Violates(deal, stage)

\* The stage a deal has already is written again, nothing being asked.
StartChangeStage(d, stage, head) ==
  /\ Spend("changeStage")
  /\ DealExists(d)
  /\ Exceptional(deals[d], stage) => head
  /\ Begin([op |-> "changeStage", deal |-> d, stage |-> stage,
            exception |-> Exceptional(deals[d], stage)])

\* By id: the deal may have another stage by now, or be deleted.
ChangeStage(call) ==
  /\ call.op = "changeStage"
  /\ deals' = [deals EXCEPT ![call.deal].stage = call.stage,
                            ![call.deal].excepted = @ \/ call.exception]
  /\ IF call.stage \in Terminal THEN UNCHANGED tasks ELSE OpenTaskFor(call.deal)
  /\ Finish(call)
  /\ UNCHANGED <<notices, readers, left>>

-----------------------------------------------------------------------------
\* The amount and the version are read first; the version is unique for a deal,
\* so that the second of two calls fails.
StartAddOffer(d) ==
  /\ Spend("addOffer")
  /\ DealExists(d)
  /\ Len(deals[d].offers) < MaxOffers
  /\ Begin([op |-> "addOffer", deal |-> d, version |-> Len(deals[d].offers) + 1,
            amount |-> deals[d].total])

AddOffer(call) ==
  /\ call.op = "addOffer"
  /\ deals' = IF call.version \in DOMAIN deals[call.deal].offers THEN deals
              ELSE [deals EXCEPT ![call.deal].offers =
                     Append(@, [amount |-> call.amount, approved |-> FALSE])]
  /\ Finish(call)
  /\ UNCHANGED <<taskVars, left>>

\* Any offer of the deal, whatever the stage and the versions after it.
ApproveOffer(d, v) ==
  /\ Spend("approveOffer")
  /\ DealExists(d)
  /\ deals' = [deals EXCEPT ![d].offers[v].approved = TRUE]
  /\ UNCHANGED <<calls, taskVars>>

\* DealLossService.lose: the updateMany asks for all of it again, so that reading
\* and writing are one step.  lostAt stays with a deal that a head reopens.
LoseDeal(d, recoverable) ==
  /\ Spend("loseDeal")
  /\ DealExists(d)
  /\ ~IsClosed(deals[d]) /\ ~deals[d].lost
  /\ deals' = [deals EXCEPT ![d].stage = "LOST", ![d].lost = TRUE]
  /\ IF recoverable THEN RecoveryTask("dealRecovery", d) ELSE UNCHANGED tasks
  /\ UNCHANGED <<calls, notices, readers>>

-----------------------------------------------------------------------------
\* stageOrder: what comes before AGREEMENT_PENDING.
Unsigned == {Stages[i] : i \in 1..4}

\* recordClientAcceptance, what it does to the deal: no offer is looked at.  The
\* transaction reads the stage, and writes the new one by id after that.
StartAcceptQuote(d) ==
  /\ Spend("acceptQuote")
  /\ DealExists(d)
  /\ Begin([op |-> "acceptQuote", deal |-> d, moves |-> deals[d].stage \in Unsigned])

AcceptQuote(call) ==
  /\ call.op = "acceptQuote"
  /\ deals' = [deals EXCEPT ![call.deal].accepted = TRUE,
                            ![call.deal].stage = IF call.moves THEN "AGREEMENT_PENDING" ELSE @]
  /\ Finish(call)
  /\ UNCHANGED <<taskVars, left>>

-----------------------------------------------------------------------------
DeleteDeal(d) ==
  /\ Spend("deleteDeal")
  /\ DealExists(d)
  /\ deals' = [deals EXCEPT ![d].deleted = TRUE]
  /\ UNCHANGED <<calls, taskVars>>

DealSteps ==
  \/ \E d \in DealIds :
       \/ DeleteDeal(d) \/ StartAddOffer(d) \/ StartAcceptQuote(d)
       \/ \E recoverable \in BOOLEAN : LoseDeal(d, recoverable)
       \/ \E v \in DOMAIN deals[d].offers : ApproveOffer(d, v)
       \/ \E head \in BOOLEAN :
            \/ \E list \in ItemLists : StartSetItems(d, list, head)
            \/ \E stage \in StageNames \ {"LOST"} : StartChangeStage(d, stage, head)
  \/ \E call \in calls :
       \/ DeleteItems(call) \/ SetItems(call) \/ ChangeStage(call) \/ AddOffer(call)
       \/ AcceptQuote(call)

-----------------------------------------------------------------------------
\* A deal is agreed, paid or won upon an offer that was approved or a quote that
\* the client has accepted, unless a head has made an exception and that is in
\* the history of the deal: also when the stage changes between the checks and
\* the write, or two calls write it.  Lines that are removed in between are not
\* covered: a deal may be won without any.
\* (deals.service.ts, changeStage; quotes.service.ts, recordClientAcceptance)
UponOffer(deal) ==
  deal.stage \in Signed => ApprovedOnce(deal.offers) \/ deal.accepted \/ deal.excepted
SignedUponOffer == \A d \in DealIds : UponOffer(deals[d])
=============================================================================
