--------------------------- MODULE IntakeTheorems ---------------------------
(***************************************************************************)
(* Theorems about leads and deals from a first contact on, for any number   *)
(* of updates, workers, managers, calls and rows: a lead is handed over     *)
(* once and lost once, and a deal is signed upon an offer the client has    *)
(* approved or by an exception.                                             *)
(***************************************************************************)
EXTENDS TelegramIntake, SequenceTheorems, TLAPS

-----------------------------------------------------------------------------
\* The domains of the variables these properties depend on.  Whether a total is
\* a number is of no consequence here.
Amounts == Int \cup {Total(list) : list \in ItemLists} \cup {Margin(list) : list \in ItemLists}

OfferRow == [amount : Amounts, approved : BOOLEAN]
DealRow ==
  [client : Nat, stage : StageNames, lines : SUBSET ItemLists, total : Amounts, margin : Amounts,
   offers : Seq(OfferRow), excepted : BOOLEAN, accepted : BOOLEAN, lost : BOOLEAN, deleted : BOOLEAN]

ClientRow == [phone : Phones \cup {PhoneOf[u] : u \in Updates}, deleted : BOOLEAN]

MetaRow ==
  [user : {UserOf[u] : u \in Updates} \cup {"none"}, pending : BOOLEAN, escalated : BOOLEAN,
   age : 0..2, claims : Nat, markup : BOOLEAN]

\* Calls and workers refer to rows that exist, of d deals and l leads.
DeleteItemsCall(d) == [op : {"deleteItems"}, deal : 1..d, list : ItemLists]
SetItemsCall(d) == [op : {"setItems"}, deal : 1..d, list : ItemLists, seen : SUBSET ItemLists]
StageCall(d) == [op : {"changeStage"}, deal : 1..d, stage : StageNames, exception : BOOLEAN]
OfferCall(d) == [op : {"addOffer"}, deal : 1..d, version : Nat, amount : Amounts]
AcceptCall(d) == [op : {"acceptQuote"}, deal : 1..d, moves : BOOLEAN]
ClientCall == [op : {"createClient"}, phone : Phones]
DisqualifyCall(l) == [op : {"disqualify"}, lead : 1..l]
LoseCall(l) == [op : {"lose"}, lead : 1..l, reason : Reasons]
HandoffCall(l) == [op : {"handoff"}, lead : 1..l, by : Managers]

Call(d, l) ==
  DeleteItemsCall(d) \cup SetItemsCall(d) \cup StageCall(d) \cup OfferCall(d) \cup AcceptCall(d)
    \cup ClientCall \cup DisqualifyCall(l) \cup LoseCall(l) \cup HandoffCall(l)

CreateWork == [phase : {"create"}, client : Nat]
LeadWork(l) == [phase : {"schedule", "announce", "answer"}, lead : 1..l]
ClaimWork(l) == [phase : {"claim"}, lead : 1..l, manager : Managers]
LastWork == [phase : {"idle", "mark", "return"}]
Work(l) == CreateWork \cup LeadWork(l) \cup ClaimWork(l) \cup LastWork

Typed ==
  /\ clients \in Seq(ClientRow)
  /\ leads \in Seq(Lead) /\ Len(leads) <= MaxLeads
  /\ deals \in Seq(DealRow)
  /\ calls \subseteq Call(Len(deals), Len(leads))
  /\ metas \in [1..MaxLeads -> MetaRow]
  /\ work \in [Actors -> Work(Len(leads))]
  /\ setup \in Setup

\* An offer was approved, a quote accepted or an exception made; none of them is
\* ever taken back.
Upheld(deal) == ApprovedOnce(deal.offers) \/ deal.accepted \/ deal.excepted

\* A stage that is still to be written was decided upon such a deal, or makes
\* an exception itself.
Decided(call, rows) ==
  call.op = "changeStage" /\ call.stage \in Signed => call.exception \/ Upheld(rows[call.deal])

CallsTrue == \A call \in calls : Decided(call, deals)

IntakeTrue ==
  /\ Typed
  /\ CallsTrue
  /\ SignedUponOffer
  /\ \A l \in 1..MaxLeads : GivenOnce(metas[l])

-----------------------------------------------------------------------------
\* What a step may do to the deals.
DealsMove ==
  /\ deals' \in Seq(DealRow) /\ Len(deals) <= Len(deals')
  /\ \A d \in DealIds : Upheld(deals[d]) => Upheld(deals'[d])
  /\ \A d \in 1..Len(deals') : UponOffer(deals'[d])

LEMMA DealsStay ==
  ASSUME Typed, SignedUponOffer, UNCHANGED deals
  PROVE  DealsMove
BY DEF DealsMove, Typed, SignedUponOffer, DealIds

LEMMA OneDealMoves ==
  ASSUME Typed, SignedUponOffer, NEW d \in DealIds, NEW row \in DealRow,
         Upheld(deals[d]) => Upheld(row), UponOffer(row), deals' = [deals EXCEPT ![d] = row]
  PROVE  DealsMove
<1>1. deals \in Seq(DealRow) /\ d \in 1..Len(deals)
  BY DEF Typed, DealIds
<1>2. /\ deals' \in Seq(DealRow) /\ Len(deals') = Len(deals)
      /\ \A j \in 1..Len(deals) : deals'[j] = IF j = d THEN row ELSE deals[j]
  BY <1>1, ExceptSeq
<1> QED
  BY <1>1, <1>2 DEF DealsMove, SignedUponOffer, DealIds

LEMMA DealAdds ==
  ASSUME Typed, SignedUponOffer, NEW row \in DealRow, UponOffer(row), deals' = Append(deals, row)
  PROVE  DealsMove
<1>1. deals \in Seq(DealRow)
  BY DEF Typed
<1>2. /\ deals' \in Seq(DealRow) /\ Len(deals') = Len(deals) + 1
      /\ \A i \in 1..Len(deals) : deals'[i] = deals[i]
      /\ deals'[Len(deals) + 1] = row
  BY <1>1, AppendProperties
<1>3. Len(deals) \in Nat
  BY <1>1
<1> QED
  BY <1>2, <1>3 DEF DealsMove, SignedUponOffer, DealIds

\* The totals leave stage, offers and exceptions alone.
LEMMA PricedRow ==
  ASSUME NEW deal \in DealRow, NEW list \in ItemLists
  PROVE  /\ Priced(deal, list) \in DealRow
         /\ Priced(deal, list).stage = deal.stage
         /\ Priced(deal, list).offers = deal.offers
         /\ Priced(deal, list).excepted = deal.excepted
         /\ Priced(deal, list).accepted = deal.accepted
<1>1. Total(list) \in Amounts /\ Margin(list) \in Amounts
  BY DEF Amounts
<1> QED
  BY <1>1 DEF Priced, DealRow

LEMMA NewDealRow ==
  ASSUME NEW client \in Nat
  PROVE  NewDeal(client) \in DealRow
<1>1. "QUALIFICATION" \in StageNames
  BY DEF StageNames, Stages
<1>2. 0 \in Amounts /\ <<>> \in Seq(OfferRow)
  BY DEF Amounts
<1> QED
  BY <1>1, <1>2 DEF NewDeal, DealRow

LEMMA StoredLists ==
  ASSUME NEW list \in ItemLists
  PROVE  Stored(list) \in SUBSET ItemLists
BY DEF Stored

\* A call is known by its op.
LEMMA CallKinds ==
  ASSUME Typed, NEW call \in calls
  PROVE  /\ call.op = "deleteItems" => call \in DeleteItemsCall(Len(deals))
         /\ call.op = "setItems" => call \in SetItemsCall(Len(deals))
         /\ call.op = "changeStage" => call \in StageCall(Len(deals))
         /\ call.op = "addOffer" => call \in OfferCall(Len(deals))
         /\ call.op = "acceptQuote" => call \in AcceptCall(Len(deals))
         /\ call.op = "createClient" => call \in ClientCall
         /\ call.op = "disqualify" => call \in DisqualifyCall(Len(leads))
         /\ call.op = "lose" => call \in LoseCall(Len(leads))
         /\ call.op = "handoff" => call \in HandoffCall(Len(leads))
BY DEF Typed, Call, DeleteItemsCall, SetItemsCall, StageCall, OfferCall, AcceptCall, ClientCall, DisqualifyCall,
       LoseCall, HandoffCall

-----------------------------------------------------------------------------
\* The calls after a step: some of those before it, and such as have decided
\* upon what they saw.
NewCall(call) == call \in Call(Len(deals), Len(leads)) /\ Decided(call, deals)
CallsMove == \A call \in calls' : call \in calls \/ NewCall(call)

LEMMA CallsStay ==
  ASSUME calls' \subseteq calls
  PROVE  CallsMove
BY DEF CallsMove

LEMMA CallStarts ==
  ASSUME NEW call, NewCall(call), calls' = calls \cup {call}
  PROVE  CallsMove
BY DEF CallsMove

-----------------------------------------------------------------------------
\* The handlers of deals.
LEMMA SignedKinds ==
  /\ Signed \subseteq StageNames /\ "AGREEMENT_PENDING" \in StageNames
  /\ "OFFER_PREPARATION" \notin Signed /\ "QUALIFICATION" \notin Signed /\ "LOST" \notin Signed
  /\ "LOST" \in StageNames
BY DEF Signed, StageNames, Stages

LEMMA CreateDealMoves ==
  ASSUME Typed, SignedUponOffer, NEW client \in Nat, NEW list \in ItemLists, NEW head,
         CreateDeal(client, list, head)
  PROVE  DealsMove
<1> DEFINE bare == NewDeal(client)
           deal == [bare EXCEPT !.lines = Stored(list)]
           row == Priced(deal, list)
<1>1. bare \in DealRow /\ bare.stage = "QUALIFICATION"
  BY NewDealRow DEF NewDeal
<1>2. Stored(list) \in SUBSET ItemLists
  BY StoredLists
<1> HIDE DEF bare
<1>3. deal \in DealRow /\ deal.stage = "QUALIFICATION"
  BY <1>1, <1>2 DEF DealRow
<1>4. deals' = Append(deals, row)
  BY DEF CreateDeal, bare
<1> HIDE DEF deal
<1>5. row \in DealRow /\ row.stage = "QUALIFICATION"
  BY <1>3, PricedRow
<1> HIDE DEF row
<1>6. UponOffer(row)
  BY <1>5, SignedKinds DEF UponOffer
<1> QED
  BY <1>4, <1>5, <1>6, DealAdds

LEMMA SetItemsMoves ==
  ASSUME Typed, SignedUponOffer, NEW call \in calls, SetItems(call)
  PROVE  DealsMove
<1> DEFINE d == call.deal
           lines == (deals[d].lines \ call.seen) \cup Stored(call.list)
           deal == [deals[d] EXCEPT !.lines = lines]
           row == Priced(deal, call.list)
<1>1. d \in 1..Len(deals) /\ call.list \in ItemLists
  BY CallKinds DEF SetItems, SetItemsCall
<1>2. deals[d] \in DealRow /\ d \in DealIds
  BY <1>1 DEF Typed, DealIds
<1>3. lines \in SUBSET ItemLists
  <2>1. Stored(call.list) \in SUBSET ItemLists
    BY <1>1, StoredLists
  <2>2. deals[d].lines \in SUBSET ItemLists
    BY <1>2 DEF DealRow
  <2> QED
    BY <2>1, <2>2
<1>5. deals' = [deals EXCEPT ![d] = row]
  BY DEF SetItems
<1> HIDE DEF lines
<1>4. /\ deal \in DealRow /\ deal.stage = deals[d].stage /\ deal.offers = deals[d].offers
      /\ deal.excepted = deals[d].excepted /\ deal.accepted = deals[d].accepted
  BY <1>2, <1>3 DEF DealRow
<1> HIDE DEF deal
<1>6. /\ row \in DealRow /\ row.stage = deals[d].stage /\ row.offers = deals[d].offers
      /\ row.excepted = deals[d].excepted /\ row.accepted = deals[d].accepted
  BY <1>1, <1>4, PricedRow
<1> HIDE DEF row
<1>7. UponOffer(row) /\ (Upheld(deals[d]) => Upheld(row))
  BY <1>2, <1>6 DEF SignedUponOffer, UponOffer, Upheld
<1> HIDE DEF d
<1> QED
  BY <1>2, <1>5, <1>6, <1>7, OneDealMoves

\* By id, after the checks: the exception is recorded with the stage.
LEMMA StageMovesDeal ==
  ASSUME Typed, CallsTrue, SignedUponOffer, NEW call \in calls, ChangeStage(call)
  PROVE  DealsMove
<1> DEFINE d == call.deal
           old == deals[d]
           staged == [old EXCEPT !.stage = call.stage]
           row == [staged EXCEPT !.excepted = @ \/ call.exception]
<1>1. d \in 1..Len(deals) /\ call.stage \in StageNames /\ call.exception \in BOOLEAN
  BY CallKinds DEF ChangeStage, StageCall
<1>2. old \in DealRow /\ d \in DealIds
  BY <1>1 DEF Typed, DealIds
<1>3. call.stage \in Signed => call.exception \/ Upheld(old)
  BY DEF CallsTrue, Decided, ChangeStage
<1>4. deals' = [deals EXCEPT ![d] = row]
  <2> DEFINE once == [deals EXCEPT ![d] = staged]
  <2>1. deals' = [once EXCEPT ![d] = [once[d] EXCEPT !.excepted = @ \/ call.exception]]
    BY DEF ChangeStage
  <2> HIDE DEF staged
  <2>2. once[d] = staged
    BY <1>1 DEF Typed
  <2>3. deals' = [once EXCEPT ![d] = row]
    BY <2>1, <2>2
  <2> HIDE DEF row
  <2> QED
    BY <1>1, <2>3 DEF Typed
<1>5. /\ staged \in DealRow /\ staged.stage = call.stage /\ staged.offers = old.offers
      /\ staged.excepted = old.excepted /\ staged.accepted = old.accepted
  BY <1>1, <1>2 DEF DealRow
<1> HIDE DEF staged
<1>6. (staged.excepted \/ call.exception) \in BOOLEAN
  OBVIOUS
<1>7. /\ row \in DealRow /\ row.stage = call.stage /\ row.offers = old.offers
      /\ row.excepted = (old.excepted \/ call.exception) /\ row.accepted = old.accepted
  BY <1>5, <1>6 DEF DealRow
<1> HIDE DEF row
<1>8. UponOffer(row) /\ (Upheld(old) => Upheld(row))
  BY <1>3, <1>7 DEF UponOffer, Upheld
<1> HIDE DEF d
<1> QED
  BY <1>2, <1>4, <1>7, <1>8, OneDealMoves

\* Offers are added at the end and approved in place.
LEMMA AddOfferMoves ==
  ASSUME Typed, SignedUponOffer, NEW call \in calls, AddOffer(call)
  PROVE  DealsMove
<1> DEFINE d == call.deal
           old == deals[d]
           new == [amount |-> call.amount, approved |-> FALSE]
           offers == Append(old.offers, new)
           row == [old EXCEPT !.offers = offers]
<1>1. d \in 1..Len(deals) /\ call.amount \in Amounts
  BY CallKinds DEF AddOffer, OfferCall
<1>2. old \in DealRow /\ d \in DealIds
  BY <1>1 DEF Typed, DealIds
<1>3. old.offers \in Seq(OfferRow) /\ new \in OfferRow
  BY <1>1, <1>2 DEF DealRow, OfferRow
<1>4. CASE UNCHANGED deals
  BY <1>4, DealsStay
<1>5. CASE deals' = [deals EXCEPT ![d].offers = offers]
  <2>1. deals' = [deals EXCEPT ![d] = row]
    BY <1>1, <1>5 DEF Typed
  <2>2. /\ offers \in Seq(OfferRow) /\ Len(offers) = Len(old.offers) + 1
        /\ \A i \in 1..Len(old.offers) : offers[i] = old.offers[i]
    BY <1>3, AppendProperties
  <2>3. ApprovedOnce(old.offers) => ApprovedOnce(offers)
    BY <1>3, <2>2 DEF ApprovedOnce
  <2> HIDE DEF offers
  <2>4. /\ row \in DealRow /\ row.stage = old.stage /\ row.offers = offers
        /\ row.excepted = old.excepted /\ row.accepted = old.accepted
    BY <1>2, <2>2 DEF DealRow
  <2> HIDE DEF row
  <2>5. UponOffer(row) /\ (Upheld(old) => Upheld(row))
    BY <1>2, <2>3, <2>4 DEF SignedUponOffer, UponOffer, Upheld
  <2> HIDE DEF d
  <2> QED
    BY <1>2, <2>1, <2>4, <2>5, OneDealMoves
<1> QED
  BY <1>4, <1>5 DEF AddOffer

LEMMA ApproveMoves ==
  ASSUME Typed, SignedUponOffer, NEW d \in DealIds, NEW v \in DOMAIN deals[d].offers, ApproveOffer(d, v)
  PROVE  DealsMove
<1> DEFINE old == deals[d]
           new == [old.offers[v] EXCEPT !.approved = TRUE]
           offers == [old.offers EXCEPT ![v] = new]
           row == [old EXCEPT !.offers = offers]
<1>1. old \in DealRow
  BY DEF Typed, DealIds
<1>2. old.offers \in Seq(OfferRow) /\ v \in 1..Len(old.offers)
  BY <1>1 DEF DealRow
<1>3. new \in OfferRow /\ new.approved
  <2>1. old.offers[v] \in OfferRow
    BY <1>2, ElementOfSeq
  <2> QED
    BY <2>1 DEF OfferRow
<1>4. deals' = [deals EXCEPT ![d] = row]
  BY DEF ApproveOffer, Typed, DealIds
<1> HIDE DEF new
<1>5. /\ offers \in Seq(OfferRow) /\ Len(offers) = Len(old.offers) /\ offers[v] = new
  BY <1>2, <1>3, ExceptSeq
<1>6. ApprovedOnce(offers)
  BY <1>2, <1>3, <1>5 DEF ApprovedOnce
<1> HIDE DEF offers
<1>7. row \in DealRow /\ row.offers = offers
  BY <1>1, <1>5 DEF DealRow
<1> HIDE DEF row
<1> QED
  BY <1>4, <1>6, <1>7, OneDealMoves DEF UponOffer, Upheld

LEMMA DeleteDealMoves ==
  ASSUME Typed, SignedUponOffer, NEW d \in DealIds, DeleteDeal(d)
  PROVE  DealsMove
<1> DEFINE old == deals[d]
           row == [old EXCEPT !.deleted = TRUE]
<1>1. old \in DealRow
  BY DEF Typed, DealIds
<1>2. /\ row \in DealRow /\ row.stage = old.stage /\ row.offers = old.offers
      /\ row.excepted = old.excepted /\ row.accepted = old.accepted
  BY <1>1 DEF DealRow
<1>3. deals' = [deals EXCEPT ![d] = row]
  BY DEF DeleteDeal, Typed, DealIds
<1> HIDE DEF row
<1> QED
  BY <1>2, <1>3, OneDealMoves DEF SignedUponOffer, UponOffer, Upheld

\* A loss, as a row: LOST is not signed.
LEMMA LoseDealMoves ==
  ASSUME Typed, SignedUponOffer, NEW d \in DealIds, NEW recoverable \in BOOLEAN, LoseDeal(d, recoverable)
  PROVE  DealsMove
<1> DEFINE old == deals[d]
           staged == [old EXCEPT !.stage = "LOST"]
           row == [staged EXCEPT !.lost = TRUE]
<1>1. old \in DealRow
  BY DEF Typed, DealIds
<1>2. /\ staged \in DealRow /\ staged.stage = "LOST" /\ staged.offers = old.offers
      /\ staged.excepted = old.excepted /\ staged.accepted = old.accepted
  BY <1>1, SignedKinds DEF DealRow
<1>3. deals' = [deals EXCEPT ![d] = row]
  <2> DEFINE once == [deals EXCEPT ![d] = staged]
  <2>1. deals' = [once EXCEPT ![d] = [once[d] EXCEPT !.lost = TRUE]]
    BY DEF LoseDeal
  <2> HIDE DEF staged
  <2>2. once[d] = staged
    BY DEF Typed, DealIds
  <2>3. deals' = [once EXCEPT ![d] = row]
    BY <2>1, <2>2
  <2> HIDE DEF row
  <2> QED
    BY <2>3 DEF Typed, DealIds
<1> HIDE DEF staged
<1>4. /\ row \in DealRow /\ row.stage = "LOST" /\ row.offers = old.offers
      /\ row.excepted = old.excepted /\ row.accepted = old.accepted
  BY <1>2 DEF DealRow
<1> HIDE DEF row
<1>5. UponOffer(row) /\ (Upheld(old) => Upheld(row))
  BY <1>4, SignedKinds DEF UponOffer, Upheld
<1> QED
  BY <1>3, <1>4, <1>5, OneDealMoves

\* The accepted quote is there with the stage that it leads to.
LEMMA AcceptMoves ==
  ASSUME Typed, SignedUponOffer, NEW call \in calls, AcceptQuote(call)
  PROVE  DealsMove
<1> DEFINE d == call.deal
           old == deals[d]
           stage == IF call.moves THEN "AGREEMENT_PENDING" ELSE old.stage
           noted == [old EXCEPT !.accepted = TRUE]
           row == [noted EXCEPT !.stage = stage]
<1>1. d \in 1..Len(deals)
  BY CallKinds DEF AcceptQuote, AcceptCall
<1>2. old \in DealRow /\ d \in DealIds
  BY <1>1 DEF Typed, DealIds
<1>3. stage \in StageNames
  BY <1>2, SignedKinds DEF DealRow
<1>4. /\ noted \in DealRow /\ noted.stage = old.stage /\ noted.accepted
  BY <1>2 DEF DealRow
<1>5. deals' = [deals EXCEPT ![d] = row]
  <2> DEFINE once == [deals EXCEPT ![d] = noted]
  <2>1. deals' = [once EXCEPT ![d] =
                    [once[d] EXCEPT !.stage = IF call.moves THEN "AGREEMENT_PENDING" ELSE @]]
    BY DEF AcceptQuote
  <2> HIDE DEF noted
  <2>2. once[d] = noted
    BY <1>1 DEF Typed
  <2>3. deals' = [once EXCEPT ![d] = row]
    BY <1>4, <2>1, <2>2
  <2> HIDE DEF row
  <2> QED
    BY <1>1, <2>3 DEF Typed
<1> HIDE DEF noted, stage
<1>6. row \in DealRow /\ row.accepted
  BY <1>3, <1>4 DEF DealRow
<1> HIDE DEF row
<1>7. UponOffer(row) /\ Upheld(row)
  BY <1>6 DEF UponOffer, Upheld
<1> HIDE DEF d
<1> QED
  BY <1>2, <1>5, <1>6, <1>7, OneDealMoves

-----------------------------------------------------------------------------
\* What is checked before the stage is written: the lines, the offers and the
\* order of the stages, unless a head makes an exception of them.
LEMMA StageStarts ==
  ASSUME Typed, SignedUponOffer, NEW d \in DealIds, NEW stage \in StageNames, NEW head \in BOOLEAN,
         StartChangeStage(d, stage, head)
  PROVE  CallsMove
<1> DEFINE exception == Exceptional(deals[d], stage)
           call == [op |-> "changeStage", deal |-> d, stage |-> stage, exception |-> exception]
<1>1. calls' = calls \cup {call}
  BY DEF StartChangeStage, Begin
<1>2. stage \in Signed => exception \/ Upheld(deals[d])
  <2>1. UponOffer(deals[d])
    BY DEF SignedUponOffer
  <2>2. CASE deals[d].stage = stage
    BY <2>1, <2>2 DEF UponOffer, Upheld
  <2>3. CASE deals[d].stage # stage /\ stage \in Signed
    BY <2>3 DEF Exceptional, Violates, Lacks, Upheld
  <2> QED
    BY <2>2, <2>3
<1>3. exception \in BOOLEAN
  BY DEF Exceptional
<1> HIDE DEF exception
<1>4. call \in StageCall(Len(deals))
  BY <1>3 DEF StageCall, DealIds
<1>5. Decided(call, deals)
  BY <1>2 DEF Decided
<1> HIDE DEF call
<1> QED
  BY <1>1, <1>4, <1>5, CallStarts DEF NewCall, Call

LEMMA ItemsStart ==
  ASSUME Typed, NEW d \in DealIds, NEW list \in ItemLists, NEW head, StartSetItems(d, list, head)
  PROVE  CallsMove
<1> DEFINE call == [op |-> "deleteItems", deal |-> d, list |-> list]
<1>1. calls' = calls \cup {call}
  BY DEF StartSetItems, Begin
<1>2. call \in DeleteItemsCall(Len(deals)) /\ Decided(call, deals)
  BY DEF DeleteItemsCall, DealIds, Decided
<1> HIDE DEF call
<1> QED
  BY <1>1, <1>2, CallStarts DEF NewCall, Call

LEMMA OfferStarts ==
  ASSUME Typed, NEW d \in DealIds, StartAddOffer(d)
  PROVE  CallsMove
<1> DEFINE call == [op |-> "addOffer", deal |-> d, version |-> Len(deals[d].offers) + 1,
                    amount |-> deals[d].total]
<1>1. calls' = calls \cup {call}
  BY DEF StartAddOffer, Begin
<1>2. deals[d] \in DealRow
  BY DEF Typed, DealIds
<1>3. deals[d].total \in Amounts /\ Len(deals[d].offers) + 1 \in Nat
  BY <1>2 DEF DealRow
<1>4. call \in OfferCall(Len(deals)) /\ Decided(call, deals)
  BY <1>3 DEF OfferCall, DealIds, Decided
<1> HIDE DEF call
<1> QED
  BY <1>1, <1>4, CallStarts DEF NewCall, Call

LEMMA AcceptStarts ==
  ASSUME Typed, NEW d \in DealIds, StartAcceptQuote(d)
  PROVE  CallsMove
<1> DEFINE moves == deals[d].stage \in Unsigned
           call == [op |-> "acceptQuote", deal |-> d, moves |-> moves]
<1>1. calls' = calls \cup {call}
  BY DEF StartAcceptQuote, Begin
<1>2. moves \in BOOLEAN
  OBVIOUS
<1> HIDE DEF moves
<1>3. call \in AcceptCall(Len(deals)) /\ Decided(call, deals)
  BY <1>2 DEF AcceptCall, DealIds, Decided
<1> HIDE DEF call
<1> QED
  BY <1>1, <1>3, CallStarts DEF NewCall, Call

LEMMA DeleteItemsMoves ==
  ASSUME Typed, NEW call \in calls, DeleteItems(call)
  PROVE  CallsMove
<1> DEFINE new == [op |-> "setItems", deal |-> call.deal, list |-> call.list, seen |-> deals[call.deal].lines]
<1>1. calls' = (calls \ {call}) \cup {new}
  BY DEF DeleteItems
<1>2. call.deal \in 1..Len(deals) /\ call.list \in ItemLists
  BY CallKinds DEF DeleteItems, DeleteItemsCall
<1>3. deals[call.deal].lines \in SUBSET ItemLists
  <2>1. deals[call.deal] \in DealRow
    BY <1>2, ElementOfSeq DEF Typed
  <2> QED
    BY <2>1 DEF DealRow
<1>4. new \in SetItemsCall(Len(deals)) /\ Decided(new, deals)
  BY <1>2, <1>3 DEF SetItemsCall, Decided
<1> HIDE DEF new
<1> QED
  BY <1>1, <1>4 DEF CallsMove, NewCall, Call

LEMMA DealStepsMove ==
  ASSUME Typed, CallsTrue, SignedUponOffer, DealSteps
  PROVE  DealsMove /\ CallsMove
<1>1. ASSUME NEW d \in DealIds, DeleteDeal(d)
      PROVE  DealsMove /\ CallsMove
  BY <1>1, DeleteDealMoves, CallsStay DEF DeleteDeal
<1>2. ASSUME NEW d \in DealIds, StartAddOffer(d)
      PROVE  DealsMove /\ CallsMove
  BY <1>2, OfferStarts, DealsStay DEF StartAddOffer, Begin
<1>3. ASSUME NEW d \in DealIds, NEW v \in DOMAIN deals[d].offers, ApproveOffer(d, v)
      PROVE  DealsMove /\ CallsMove
  BY <1>3, ApproveMoves, CallsStay DEF ApproveOffer
<1>4. ASSUME NEW d \in DealIds, NEW head \in BOOLEAN, NEW list \in ItemLists, StartSetItems(d, list, head)
      PROVE  DealsMove /\ CallsMove
  BY <1>4, ItemsStart, DealsStay DEF StartSetItems, Begin
<1>5. ASSUME NEW d \in DealIds, NEW head \in BOOLEAN, NEW stage \in StageNames,
             StartChangeStage(d, stage, head)
      PROVE  DealsMove /\ CallsMove
  BY <1>5, StageStarts, DealsStay DEF StartChangeStage, Begin
<1>6. ASSUME NEW call \in calls, DeleteItems(call)
      PROVE  DealsMove /\ CallsMove
  BY <1>6, DeleteItemsMoves, DealsStay DEF DeleteItems
<1>7. ASSUME NEW call \in calls,
             SetItems(call) \/ ChangeStage(call) \/ AddOffer(call) \/ AcceptQuote(call)
      PROVE  DealsMove /\ CallsMove
  <2>1. calls' \subseteq calls
    BY <1>7 DEF SetItems, ChangeStage, AddOffer, AcceptQuote, Finish
  <2> QED
    BY <1>7, <2>1, CallsStay, SetItemsMoves, StageMovesDeal, AddOfferMoves, AcceptMoves
<1>8. ASSUME NEW d \in DealIds, StartAcceptQuote(d)
      PROVE  DealsMove /\ CallsMove
  BY <1>8, AcceptStarts, DealsStay DEF StartAcceptQuote, Begin
<1>9. ASSUME NEW d \in DealIds, NEW recoverable \in BOOLEAN, LoseDeal(d, recoverable)
      PROVE  DealsMove /\ CallsMove
  BY <1>9, LoseDealMoves, CallsStay DEF LoseDeal
<1> QED
  BY <1>1, <1>2, <1>3, <1>4, <1>5, <1>6, <1>7, <1>8, <1>9 DEF DealSteps

-----------------------------------------------------------------------------
\* What a step may do to the leads: who is lost stays so, for the same reason.
LostStays(old, new) == old.lost => new.lost /\ new.reason = old.reason /\ new.losses = old.losses

LeadsMove ==
  /\ leads' \in Seq(Lead) /\ Len(leads) <= Len(leads') /\ Len(leads') <= MaxLeads
  /\ \A l \in LeadIds : LostStays(leads[l], leads'[l])

LEMMA LeadsStay ==
  ASSUME Typed, UNCHANGED leads
  PROVE  LeadsMove
BY DEF LeadsMove, LostStays, Typed, LeadIds

LEMMA OneLeadMoves ==
  ASSUME Typed, NEW l \in LeadIds, NEW row \in Lead, LostStays(leads[l], row),
         leads' = [leads EXCEPT ![l] = row]
  PROVE  LeadsMove
<1>1. leads \in Seq(Lead) /\ l \in 1..Len(leads) /\ Len(leads) <= MaxLeads
  BY DEF Typed, LeadIds
<1>2. /\ leads' \in Seq(Lead) /\ Len(leads') = Len(leads)
      /\ \A j \in 1..Len(leads) : leads'[j] = IF j = l THEN row ELSE leads[j]
  BY <1>1, ExceptSeq
<1>3. \A j \in LeadIds : LostStays(leads[j], leads'[j])
  BY <1>2 DEF LeadIds, LostStays
<1> QED
  BY <1>1, <1>2, <1>3 DEF LeadsMove

LEMMA LeadAdds ==
  ASSUME Typed, NEW row \in Lead, Len(leads) < MaxLeads, leads' = Append(leads, row)
  PROVE  LeadsMove
<1>1. leads \in Seq(Lead) /\ Len(leads) \in Nat
  BY DEF Typed
<1>2. /\ leads' \in Seq(Lead) /\ Len(leads') = Len(leads) + 1
      /\ \A i \in 1..Len(leads) : leads'[i] = leads[i]
  BY <1>1, AppendProperties
<1>3. \A l \in LeadIds : LostStays(leads[l], leads'[l])
  BY <1>2 DEF LeadIds, LostStays
<1>4. MaxLeads \in Nat
  BY DeskAssumption
<1>5. Len(leads) <= Len(leads') /\ Len(leads') <= MaxLeads
  BY <1>1, <1>2, <1>4
<1> QED
  BY <1>2, <1>3, <1>5 DEF LeadsMove

LEMMA NewLeadRow ==
  ASSUME NEW client \in Nat, NEW owner \in Managers \cup {Pool}
  PROVE  NewLead(client, owner) \in Lead
BY DEF NewLead, Lead, OpenStatuses, Reasons

LEMMA LeadRowAt ==
  ASSUME Typed, NEW l \in LeadIds
  PROVE  leads[l] \in Lead
BY ElementOfSeq DEF Typed, LeadIds

-----------------------------------------------------------------------------
\* The handlers of leads and clients.
LEMMA AssignMoves ==
  ASSUME Typed, NEW l \in LeadIds, NEW owner \in Managers \cup {Pool}, Assign(l, owner)
  PROVE  LeadsMove
<1> DEFINE row == [leads[l] EXCEPT !.owner = owner]
<1>1. leads[l] \in Lead
  BY LeadRowAt
<1>2. row \in Lead /\ LostStays(leads[l], row)
  BY <1>1 DEF Lead, LostStays
<1>3. leads' = [leads EXCEPT ![l] = row]
  BY DEF Assign, Typed, LeadIds
<1> HIDE DEF row
<1> QED
  BY <1>2, <1>3, OneLeadMoves

LEMMA DeleteLeadMoves ==
  ASSUME Typed, NEW l \in LeadIds, DeleteLead(l)
  PROVE  LeadsMove
<1> DEFINE row == [leads[l] EXCEPT !.deleted = TRUE]
<1>1. leads[l] \in Lead
  BY LeadRowAt
<1>2. row \in Lead /\ LostStays(leads[l], row)
  BY <1>1 DEF Lead, LostStays
<1>3. leads' = [leads EXCEPT ![l] = row]
  BY DEF DeleteLead, Typed, LeadIds
<1> HIDE DEF row
<1> QED
  BY <1>2, <1>3, OneLeadMoves

LEMMA DisqualifyMoves ==
  ASSUME Typed, NEW call \in calls, Disqualify(call)
  PROVE  LeadsMove
<1> DEFINE l == call.lead
           row == [leads[l] EXCEPT !.status = "UNQUALIFIED"]
<1>1. l \in LeadIds
  BY CallKinds DEF Disqualify, DisqualifyCall, LeadIds
<1>2. leads[l] \in Lead
  BY <1>1, LeadRowAt
<1>3. row \in Lead /\ LostStays(leads[l], row)
  BY <1>2 DEF Lead, LostStays
<1>4. leads' = [leads EXCEPT ![l] = row]
  BY DEF Disqualify, Typed
<1> HIDE DEF row, l
<1> QED
  BY <1>1, <1>3, <1>4, OneLeadMoves

LEMMA HandoffMoves ==
  ASSUME Typed, NEW call \in calls, Handoff(call)
  PROVE  LeadsMove
<1> DEFINE l == call.lead
           ready == [leads[l] EXCEPT !.ready = TRUE]
           row == [ready EXCEPT !.announced = @ + 1]
           once == [leads EXCEPT ![l] = ready]
<1>1. l \in LeadIds /\ l \in 1..Len(leads)
  BY CallKinds DEF Handoff, HandoffCall, LeadIds
<1>2. leads[l] \in Lead
  BY <1>1, LeadRowAt
<1>3. ready \in Lead /\ LostStays(leads[l], ready)
  BY <1>2 DEF Lead, LostStays
<1>4. leads' = [once EXCEPT ![l] = [once[l] EXCEPT !.announced = @ + 1]]
  BY DEF Handoff
<1> HIDE DEF ready
<1>5. once[l] = ready
  BY <1>1 DEF Typed
<1>6. row \in Lead /\ LostStays(ready, row)
  BY <1>3 DEF Lead, LostStays
<1>7. leads' = [once EXCEPT ![l] = row]
  BY <1>4, <1>5
<1> HIDE DEF row, l
<1>8. leads' = [leads EXCEPT ![l] = row]
  BY <1>1, <1>7 DEF Typed
<1> QED
  BY <1>1, <1>3, <1>6, <1>8, OneLeadMoves DEF LostStays

\* The condition of the update: a lead that is lost is not lost again.
LEMMA LoseMoves ==
  ASSUME Typed, NEW call \in calls, Lose(call)
  PROVE  LeadsMove
<1> DEFINE l == call.lead
           old == leads[l]
           row == [old EXCEPT !.status = "LOST", !.lost = TRUE, !.reason = call.reason, !.losses = @ + 1]
<1>1. l \in LeadIds /\ l \in 1..Len(leads) /\ call.reason \in Reasons
  BY CallKinds DEF Lose, LoseCall, LeadIds
<1>2. old \in Lead
  BY <1>1, LeadRowAt
<1>3. CASE UNCHANGED leads
  BY <1>3, LeadsStay
<1>4. CASE /\ Losable(l)
           /\ leads' = [leads EXCEPT ![l].status = "LOST", ![l].lost = TRUE,
                          ![l].reason = call.reason, ![l].losses = @ + 1]
  <2>1. leads' = [leads EXCEPT ![l] = row]
    BY <1>1, <1>4 DEF Typed
  <2>2. row \in Lead
    <3> DEFINE lost == [old EXCEPT !.status = "LOST", !.lost = TRUE]
               told == [lost EXCEPT !.reason = call.reason]
    <3>1. lost \in Lead
      BY <1>2 DEF Lead
    <3>2. row = [told EXCEPT !.losses = @ + 1]
      OBVIOUS
    <3> HIDE DEF lost
    <3>3. told \in Lead
      BY <1>1, <3>1 DEF Lead
    <3> HIDE DEF told, row
    <3> QED
      BY <3>2, <3>3 DEF Lead
  <2>3. LostStays(old, row)
    BY <1>4 DEF Losable, LostStays
  <2> HIDE DEF row, l
  <2> QED
    BY <1>1, <2>1, <2>2, <2>3, OneLeadMoves
<1> QED
  BY <1>3, <1>4 DEF Lose

LEMMA CreateLeadMoves ==
  ASSUME Typed, NEW client \in Nat, NEW owner \in Managers, CreateLead(client, owner)
  PROVE  LeadsMove
<1>1. NewLead(client, owner) \in Lead
  BY NewLeadRow
<1> QED
  BY <1>1, LeadAdds DEF CreateLead

\* What is open at a client that is deleted ends with it, row by row.
LEMMA ClientEndsLeads ==
  ASSUME Typed, NEW c \in ClientIds, DeleteClient(c)
  PROVE  LeadsMove
<1> DEFINE ended == {l \in LeadIds : leads[l].client = c /\ Exists(l)}
<1>1. leads' = [l \in LeadIds |->
        IF l \in ended /\ leads[l].status \in OpenStatuses
        THEN [leads[l] EXCEPT !.status = "UNQUALIFIED"] ELSE leads[l]]
  BY DEF DeleteClient
<1> HIDE DEF ended
<1>2. \A l \in LeadIds : leads'[l] \in Lead /\ LostStays(leads[l], leads'[l])
  <2> TAKE l \in LeadIds
  <2>1. leads[l] \in Lead
    BY LeadRowAt
  <2> QED
    BY <1>1, <2>1 DEF Lead, LostStays
<1>3. Len(leads) \in Nat /\ Len(leads) <= MaxLeads
  BY DEF Typed
<1>4. leads' \in [1..Len(leads) -> Lead]
  BY <1>1, <1>2 DEF LeadIds
<1>5. leads' \in Seq(Lead)
  BY <1>3, <1>4, SeqDef
<1>6. Len(leads') = Len(leads)
  BY <1>3, <1>4, <1>5, LenProperties
<1> QED
  BY <1>2, <1>3, <1>5, <1>6 DEF LeadsMove

LEMMA ClientEndsDeals ==
  ASSUME Typed, SignedUponOffer, NEW c \in ClientIds, DeleteClient(c)
  PROVE  DealsMove
<1> DEFINE ended == {d \in DealIds : deals[d].client = c /\ DealExists(d)}
<1>1. deals' = [d \in DealIds |->
        IF d \in ended /\ deals[d].stage \notin Terminal
        THEN [deals[d] EXCEPT !.stage = "LOST"] ELSE deals[d]]
  BY DEF DeleteClient
<1> HIDE DEF ended
<1>2. \A d \in DealIds : /\ deals'[d] \in DealRow /\ UponOffer(deals'[d])
                         /\ Upheld(deals[d]) => Upheld(deals'[d])
  <2> TAKE d \in DealIds
  <2>1. deals[d] \in DealRow
    BY ElementOfSeq DEF Typed, DealIds
  <2>2. UponOffer(deals[d])
    BY DEF SignedUponOffer
  <2>3. CASE deals'[d] = deals[d]
    BY <2>1, <2>2, <2>3
  <2>4. CASE deals'[d] = [deals[d] EXCEPT !.stage = "LOST"]
    <3>1. /\ deals'[d] \in DealRow /\ deals'[d].stage = "LOST"
          /\ deals'[d].offers = deals[d].offers /\ deals'[d].excepted = deals[d].excepted /\ deals'[d].accepted = deals[d].accepted
      BY <2>1, <2>4, SignedKinds DEF DealRow
    <3> QED
      BY <3>1, SignedKinds DEF UponOffer, Upheld
  <2> QED
    BY <1>1, <2>3, <2>4
<1>3. Len(deals) \in Nat
  BY DEF Typed
<1>4. deals' \in [1..Len(deals) -> DealRow]
  BY <1>1, <1>2 DEF DealIds
<1>5. deals' \in Seq(DealRow)
  BY <1>3, <1>4, SeqDef
<1>6. Len(deals') = Len(deals)
  BY <1>3, <1>4, <1>5, LenProperties
<1> QED
  BY <1>2, <1>3, <1>5, <1>6 DEF DealsMove, DealIds

-----------------------------------------------------------------------------
\* The calls about leads and clients.
LEMMA LeadCallStarts ==
  ASSUME Typed, NEW l \in LeadIds,
         \/ StartDisqualify(l)
         \/ \E user \in Managers : StartHandoff(l, user)
         \/ \E reason \in Reasons : StartLose(l, reason)
  PROVE  CallsMove
<1>1. l \in 1..Len(leads)
  BY DEF LeadIds
<1>2. CASE StartDisqualify(l)
  <2> DEFINE call == [op |-> "disqualify", lead |-> l]
  <2>1. calls' = calls \cup {call}
    BY <1>2 DEF StartDisqualify
  <2>2. call \in DisqualifyCall(Len(leads)) /\ Decided(call, deals)
    BY <1>1 DEF DisqualifyCall, Decided
  <2> HIDE DEF call
  <2> QED
    BY <2>1, <2>2, CallStarts DEF NewCall, Call
<1>3. ASSUME NEW user \in Managers, StartHandoff(l, user)
      PROVE  CallsMove
  <2> DEFINE call == [op |-> "handoff", lead |-> l, by |-> user]
  <2>1. calls' = calls \cup {call}
    BY <1>3 DEF StartHandoff
  <2>2. call \in HandoffCall(Len(leads)) /\ Decided(call, deals)
    BY <1>1 DEF HandoffCall, Decided
  <2> HIDE DEF call
  <2> QED
    BY <2>1, <2>2, CallStarts DEF NewCall, Call
<1>4. ASSUME NEW reason \in Reasons, StartLose(l, reason)
      PROVE  CallsMove
  <2> DEFINE call == [op |-> "lose", lead |-> l, reason |-> reason]
  <2>1. calls' = calls \cup {call}
    BY <1>4 DEF StartLose
  <2>2. call \in LoseCall(Len(leads)) /\ Decided(call, deals)
    BY <1>1 DEF LoseCall, Decided
  <2> HIDE DEF call
  <2> QED
    BY <2>1, <2>2, CallStarts DEF NewCall, Call
<1> QED
  BY <1>2, <1>3, <1>4

LEMMA ClientCallStarts ==
  ASSUME NEW phone \in Phones, StartCreateClient(phone)
  PROVE  CallsMove
<1> DEFINE call == [op |-> "createClient", phone |-> phone]
<1>1. calls' = calls \cup {call}
  BY DEF StartCreateClient
<1>2. call \in ClientCall /\ Decided(call, deals)
  BY DEF ClientCall, Decided
<1> HIDE DEF call
<1> QED
  BY <1>1, <1>2, CallStarts DEF NewCall, Call

ClientsMove == clients' \in Seq(ClientRow)

LEMMA ClientAdds ==
  ASSUME Typed, NEW phone \in Phones \cup {PhoneOf[u] : u \in Updates},
         clients' = Append(clients, NewClient(phone))
  PROVE  ClientsMove
<1>1. NewClient(phone) \in ClientRow
  BY DEF NewClient, ClientRow
<1> QED
  BY <1>1, AppendProperties DEF ClientsMove, Typed

LEMMA ClientDeletes ==
  ASSUME Typed, NEW c \in ClientIds, DeleteClient(c)
  PROVE  ClientsMove
<1> DEFINE row == [clients[c] EXCEPT !.deleted = TRUE]
<1>1. clients \in Seq(ClientRow) /\ c \in 1..Len(clients)
  BY DEF Typed, ClientIds
<1>2. clients[c] \in ClientRow
  BY <1>1, ElementOfSeq
<1>3. row \in ClientRow
  BY <1>2 DEF ClientRow
<1>4. clients' = [clients EXCEPT ![c] = row]
  BY <1>1 DEF DeleteClient
<1> HIDE DEF row
<1> QED
  BY <1>1, <1>3, <1>4, ExceptSeq DEF ClientsMove

LEMMA DeskStepsMove ==
  ASSUME Typed, CallsTrue, SignedUponOffer, DeskSteps
  PROVE  ClientsMove /\ LeadsMove /\ DealsMove /\ CallsMove
<1>0. UNCHANGED clients => ClientsMove
  BY DEF ClientsMove, Typed
<1>1. CASE RelatedTasks
  BY <1>0, <1>1, LeadsStay, DealsStay, CallsStay DEF RelatedTasks, deskVars
<1>2. ASSUME NEW phone \in Phones, StartCreateClient(phone)
      PROVE  ClientsMove /\ LeadsMove /\ DealsMove /\ CallsMove
  BY <1>0, <1>2, LeadsStay, DealsStay, ClientCallStarts DEF StartCreateClient
<1>3. ASSUME NEW c \in ClientIds, DeleteClient(c)
      PROVE  ClientsMove /\ LeadsMove /\ DealsMove /\ CallsMove
  <2>1. UNCHANGED calls
    BY <1>3 DEF DeleteClient
  <2> QED
    BY <1>3, <2>1, ClientDeletes, ClientEndsLeads, ClientEndsDeals, CallsStay
<1>4. ASSUME NEW c \in ClientIds, NEW owner \in Managers, CreateLead(c, owner)
      PROVE  ClientsMove /\ LeadsMove /\ DealsMove /\ CallsMove
  <2>1. UNCHANGED <<clients, deals, calls>>
    BY <1>4 DEF CreateLead
  <2>2. c \in Nat
    BY DEF ClientIds
  <2> QED
    BY <1>0, <1>4, <2>1, <2>2, CreateLeadMoves, DealsStay, CallsStay
<1>5. ASSUME NEW c \in ClientIds, NEW list \in ItemLists, NEW head \in BOOLEAN,
             CreateDeal(c, list, head), UNCHANGED <<clients, leads>>
      PROVE  ClientsMove /\ LeadsMove /\ DealsMove /\ CallsMove
  <2>1. UNCHANGED calls
    BY <1>5 DEF CreateDeal
  <2>2. c \in Nat
    BY DEF ClientIds
  <2> QED
    BY <1>0, <1>5, <2>1, <2>2, CreateDealMoves, LeadsStay, CallsStay
<1>6. ASSUME NEW l \in LeadIds, DeleteLead(l)
      PROVE  ClientsMove /\ LeadsMove /\ DealsMove /\ CallsMove
  BY <1>0, <1>6, DeleteLeadMoves, DealsStay, CallsStay DEF DeleteLead
<1>7. ASSUME NEW l \in LeadIds, NEW owner \in Managers \cup {Pool}, Assign(l, owner)
      PROVE  ClientsMove /\ LeadsMove /\ DealsMove /\ CallsMove
  BY <1>0, <1>7, AssignMoves, DealsStay, CallsStay DEF Assign
<1>8. ASSUME NEW l \in LeadIds,
             \/ StartDisqualify(l)
             \/ \E user \in Managers : StartHandoff(l, user)
             \/ \E reason \in Reasons : StartLose(l, reason)
      PROVE  ClientsMove /\ LeadsMove /\ DealsMove /\ CallsMove
  <2>1. UNCHANGED <<clients, leads, deals>>
    BY <1>8 DEF StartDisqualify, StartHandoff, StartLose
  <2> QED
    BY <1>0, <1>8, <2>1, LeadCallStarts, LeadsStay, DealsStay
<1>9. ASSUME NEW call \in calls, CreateClient(call)
      PROVE  ClientsMove /\ LeadsMove /\ DealsMove /\ CallsMove
  <2>1. calls' \subseteq calls /\ UNCHANGED <<leads, deals>>
    BY <1>9 DEF CreateClient
  <2>2. call.phone \in Phones /\ clients' = Append(clients, NewClient(call.phone))
    BY <1>9, CallKinds DEF CreateClient, ClientCall
  <2> QED
    BY <2>1, <2>2, ClientAdds, LeadsStay, DealsStay, CallsStay
<1>10. ASSUME NEW call \in calls, Disqualify(call) \/ Lose(call) \/ Handoff(call)
       PROVE  ClientsMove /\ LeadsMove /\ DealsMove /\ CallsMove
  <2>1. calls' \subseteq calls /\ UNCHANGED <<clients, deals>>
    BY <1>10 DEF Disqualify, Lose, Handoff
  <2> QED
    BY <1>0, <1>10, <2>1, DisqualifyMoves, LoseMoves, HandoffMoves, DealsStay, CallsStay
<1> QED
  BY <1>1, <1>2, <1>3, <1>4, <1>5, <1>6, <1>7, <1>8, <1>9, <1>10 DEF DeskSteps

-----------------------------------------------------------------------------
\* What workers, buttons and the fallback job are doing.
LEMMA WorkKinds ==
  ASSUME Typed, NEW a \in Actors
  PROVE  /\ work[a] \in Work(Len(leads))
         /\ work[a].phase = "create" => work[a] \in CreateWork
         /\ work[a].phase \in {"schedule", "announce", "answer"} => work[a] \in LeadWork(Len(leads))
         /\ work[a].phase = "claim" => work[a] \in ClaimWork(Len(leads))
BY DEF Typed, Work, CreateWork, LeadWork, ClaimWork, LastWork

LEMMA IdleWork ==
  ASSUME NEW n
  PROVE  Idle \in Work(n) /\ [phase |-> "mark"] \in Work(n) /\ [phase |-> "return"] \in Work(n)
BY DEF Idle, Work, LastWork

WorkMoves == work' \in [Actors -> Work(Len(leads'))]

LEMMA OneWorkMoves ==
  ASSUME Typed, LeadsMove, NEW a, NEW w \in Work(Len(leads')), work' = [work EXCEPT ![a] = w]
  PROVE  WorkMoves
<1>1. Len(leads) \in Nat /\ Len(leads') \in Nat /\ Len(leads) <= Len(leads')
  BY DEF Typed, LeadsMove
<1>2. 1..Len(leads) \subseteq 1..Len(leads')
  BY <1>1
<1>3. Work(Len(leads)) \subseteq Work(Len(leads'))
  BY <1>2 DEF Work, CreateWork, LeadWork, ClaimWork, LastWork
<1> QED
  BY <1>3 DEF WorkMoves, Typed

LEMMA WorkStays ==
  ASSUME Typed, LeadsMove, UNCHANGED work
  PROVE  WorkMoves
<1>1. Len(leads) \in Nat /\ Len(leads') \in Nat /\ Len(leads) <= Len(leads')
  BY DEF Typed, LeadsMove
<1>2. 1..Len(leads) \subseteq 1..Len(leads')
  BY <1>1
<1>3. Work(Len(leads)) \subseteq Work(Len(leads'))
  BY <1>2 DEF Work, CreateWork, LeadWork, ClaimWork, LastWork
<1> QED
  BY <1>3 DEF WorkMoves, Typed

LEMMA ChoiceWork ==
  ASSUME NEW l \in LeadIds, NEW manager \in Managers
  PROVE  Choice(l, manager) \in Work(Len(leads))
BY DEF Choice, Work, LeadWork, ClaimWork, LeadIds

-----------------------------------------------------------------------------
\* A lead is given away when it is claimed, and it is claimed while it waits.
MetasMove == metas' \in [1..MaxLeads -> MetaRow] /\ \A l \in 1..MaxLeads : GivenOnce(metas'[l])

LEMMA OneMetaMoves ==
  ASSUME Typed, \A l \in 1..MaxLeads : GivenOnce(metas[l]),
         NEW l, NEW row, l \in 1..MaxLeads => row \in MetaRow /\ GivenOnce(row),
         metas' = [metas EXCEPT ![l] = row]
  PROVE  MetasMove
BY DEF MetasMove, Typed

LEMMA LeadsAreMetas ==
  ASSUME Typed
  PROVE  LeadIds \subseteq 1..MaxLeads
<1>1. Len(leads) \in Nat /\ Len(leads) <= MaxLeads
  BY DEF Typed
<1> QED
  BY <1>1, DeskAssumption DEF LeadIds

LEMMA ClaimMoves ==
  ASSUME Typed, \A l \in 1..MaxLeads : GivenOnce(metas[l]), NEW a \in Actors, Claim(a)
  PROVE  LeadsMove /\ MetasMove /\ WorkMoves
<1> DEFINE l == work[a].lead
           old == metas[l]
           taken == [old EXCEPT !.pending = FALSE]
           meta == [taken EXCEPT !.claims = @ + 1]
           once == [metas EXCEPT ![l] = taken]
           lead == [leads[l] EXCEPT !.owner = work[a].manager]
           done == [phase |-> "answer", lead |-> l]
<1>1. l \in 1..Len(leads) /\ work[a].manager \in Managers
  BY WorkKinds DEF Claim, ClaimWork
<1>2. l \in LeadIds /\ l \in 1..MaxLeads
  BY <1>1, LeadsAreMetas DEF LeadIds
<1>3. work' = [work EXCEPT ![a] = done]
  BY DEF Claim
<1>4. LeadsMove /\ MetasMove
  <2>1. CASE UNCHANGED <<metas, leads>>
    BY <2>1, LeadsStay DEF MetasMove, Typed
  <2>2. CASE /\ Claimable(l)
             /\ metas' = [metas EXCEPT ![l].pending = FALSE, ![l].claims = @ + 1]
             /\ leads' = [leads EXCEPT ![l].owner = work[a].manager]
    <3>1. leads[l] \in Lead
      BY <1>2, LeadRowAt
    <3>2. lead \in Lead /\ LostStays(leads[l], lead)
      BY <1>1, <3>1 DEF Lead, LostStays
    <3>3. leads' = [leads EXCEPT ![l] = lead]
      BY <1>1, <2>2 DEF Typed
    <3>4. old \in MetaRow /\ old.pending /\ GivenOnce(old)
      BY <1>2, <2>2 DEF Typed, Claimable
    <3>5. metas' = [once EXCEPT ![l] = [once[l] EXCEPT !.claims = @ + 1]]
      BY <2>2
    <3>6. /\ taken \in MetaRow /\ taken.user = old.user /\ ~ taken.pending
          /\ taken.claims = old.claims
      BY <3>4 DEF MetaRow
    <3> HIDE DEF taken, lead
    <3>7. once[l] = taken
      BY <1>2 DEF Typed
    <3>8. /\ meta \in MetaRow /\ meta.user = old.user /\ ~ meta.pending
          /\ meta.claims = old.claims + 1
      BY <3>6 DEF MetaRow
    <3>9. metas' = [once EXCEPT ![l] = meta]
      BY <3>5, <3>7
    <3> HIDE DEF meta
    <3>10. metas' = [metas EXCEPT ![l] = meta]
      BY <1>2, <3>9 DEF Typed
    <3>11. GivenOnce(meta)
      BY <3>4, <3>8 DEF GivenOnce
    <3> HIDE DEF l
    <3>12. MetasMove
      BY <3>8, <3>10, <3>11, OneMetaMoves
    <3>13. LeadsMove
      BY <1>2, <3>2, <3>3, OneLeadMoves
    <3> QED
      BY <3>12, <3>13
  <2> QED
    BY <2>1, <2>2 DEF Claim
<1>5. done \in Work(Len(leads'))
  <2>1. l \in 1..Len(leads')
    BY <1>1, <1>4 DEF LeadsMove, Typed
  <2> QED
    BY <2>1 DEF Work, LeadWork
<1> HIDE DEF done
<1> QED
  BY <1>3, <1>4, <1>5, OneWorkMoves

-----------------------------------------------------------------------------
\* The steps of the intake.
LEMMA TelegramLeadMoves ==
  ASSUME Typed, \A l \in 1..MaxLeads : GivenOnce(metas[l]), NEW u \in Updates, CreateTelegramLead(u)
  PROVE  ClientsMove /\ LeadsMove /\ MetasMove /\ WorkMoves
<1> DEFINE l == Len(leads) + 1
           client == IF work[u].client = 0 THEN Len(clients) + 1 ELSE work[u].client
           done == [phase |-> "schedule", lead |-> l]
<1>1. u \in Actors
  BY DEF Actors
<1>2. work[u].client \in Nat
  BY <1>1, WorkKinds DEF CreateTelegramLead, CreateWork
<1>3. Len(leads) \in Nat /\ Len(clients) \in Nat /\ leads \in Seq(Lead) /\ clients \in Seq(ClientRow)
  BY DEF Typed
<1>4. client \in Nat
  BY <1>2, <1>3
<1>5. /\ clients' = IF work[u].client = 0 THEN Append(clients, NewClient(PhoneOf[u])) ELSE clients
      /\ leads' = Append(leads, NewLead(client, Pool))
      /\ metas' = [metas EXCEPT ![l] = [Waiting(UserOf[u]) EXCEPT !.markup = u \in Markup]]
      /\ work' = [work EXCEPT ![u] = done]
      /\ l <= MaxLeads
  BY DEF CreateTelegramLead
<1>6. ClientsMove
  BY <1>5, ClientAdds DEF ClientsMove, Typed
<1>7. NewLead(client, Pool) \in Lead
  BY <1>4, NewLeadRow
<1>8. Len(leads) < MaxLeads
  BY <1>3, <1>5, DeskAssumption
<1> HIDE DEF client
<1>9. LeadsMove /\ Len(leads') = l
  <2>1. Len(leads') = l
    BY <1>3, <1>5, <1>7, AppendProperties
  <2> QED
    BY <1>5, <1>7, <1>8, <2>1, LeadAdds
<1>10. /\ [Waiting(UserOf[u]) EXCEPT !.markup = u \in Markup] \in MetaRow
       /\ GivenOnce([Waiting(UserOf[u]) EXCEPT !.markup = u \in Markup])
  <2> DEFINE named == [NoMeta EXCEPT !.user = UserOf[u]]
  <2>1. NoMeta \in MetaRow /\ NoMeta.claims = 0
    BY DEF NoMeta, MetaRow
  <2>2. named \in MetaRow /\ named.claims = 0
    BY <2>1 DEF MetaRow
  <2>3. Waiting(UserOf[u]) = [named EXCEPT !.pending = TRUE]
    BY DEF Waiting
  <2> HIDE DEF named
  <2>4. /\ Waiting(UserOf[u]) \in MetaRow /\ Waiting(UserOf[u]).pending
        /\ Waiting(UserOf[u]).claims = 0
    BY <2>2, <2>3 DEF MetaRow
  <2>5. (u \in Markup) \in BOOLEAN
    OBVIOUS
  <2> QED
    BY <2>4, <2>5 DEF GivenOnce, MetaRow
<1>11. MetasMove
  BY <1>5, <1>10, OneMetaMoves
<1>12. done \in Work(Len(leads'))
  BY <1>3, <1>9 DEF Work, LeadWork
<1> HIDE DEF done
<1> QED
  BY <1>5, <1>6, <1>9, <1>11, <1>12, OneWorkMoves

LEMMA JobStarts ==
  ASSUME Typed, LeadsMove, UNCHANGED leads, NEW u \in Updates, StartJob(u)
  PROVE  WorkMoves
<1>1. \/ \E l \in PendingLeads(UserOf[u]) : work' = [work EXCEPT ![u] = [phase |-> "schedule", lead |-> l]]
      \/ \E c \in FindClientByPhone(PhoneOf[u]) : work' = [work EXCEPT ![u] = [phase |-> "create", client |-> c]]
      \/ \E pressed \in Presses : work' = [work EXCEPT ![u] = pressed]
  BY DEF StartJob
<1>2. ASSUME NEW l \in PendingLeads(UserOf[u]),
             work' = [work EXCEPT ![u] = [phase |-> "schedule", lead |-> l]]
      PROVE  WorkMoves
  <2> DEFINE w == [phase |-> "schedule", lead |-> l]
  <2>1. w \in Work(Len(leads'))
    BY DEF PendingLeads, LeadIds, Work, LeadWork
  <2> HIDE DEF w
  <2> QED
    BY <1>2, <2>1, OneWorkMoves DEF w
<1>3. ASSUME NEW c \in FindClientByPhone(PhoneOf[u]),
             work' = [work EXCEPT ![u] = [phase |-> "create", client |-> c]]
      PROVE  WorkMoves
  <2> DEFINE w == [phase |-> "create", client |-> c]
  <2>1. c \in Nat
    BY DEF FindClientByPhone, ClientIds
  <2>2. w \in Work(Len(leads'))
    BY <2>1 DEF Work, CreateWork
  <2> HIDE DEF w
  <2> QED
    BY <1>3, <2>2, OneWorkMoves DEF w
<1>4. ASSUME NEW pressed \in Presses, work' = [work EXCEPT ![u] = pressed]
      PROVE  WorkMoves
  <2>1. pressed \in Work(Len(leads'))
    BY ChoiceWork DEF Presses
  <2> QED
    BY <1>4, <2>1, OneWorkMoves
<1> QED
  BY <1>1, <1>2, <1>3, <1>4

LEMMA LaterSteps ==
  ASSUME Typed, LeadsMove, UNCHANGED leads, NEW u \in Updates,
         \/ ScheduleFallback(u) \/ SendLeadToAdmin(u) \/ MarkProcessed(u) \/ CompleteJob(u)
  PROVE  WorkMoves
<1>1. CASE ScheduleFallback(u)
  <2> DEFINE w == [work[u] EXCEPT !.phase = "announce"]
  <2>1. u \in Actors
    BY DEF Actors
  <2>2. work[u] \in LeadWork(Len(leads))
    BY <1>1, <2>1, WorkKinds DEF ScheduleFallback
  <2>3. w \in LeadWork(Len(leads))
    BY <2>2 DEF LeadWork
  <2>4. work' = [work EXCEPT ![u] = w]
    BY <1>1 DEF ScheduleFallback
  <2> HIDE DEF w
  <2> QED
    BY <2>3, <2>4, OneWorkMoves DEF Work
<1>2. CASE SendLeadToAdmin(u) \/ MarkProcessed(u) \/ CompleteJob(u)
  <2>1. \/ work' = [work EXCEPT ![u] = Idle]
        \/ work' = [work EXCEPT ![u] = [phase |-> "mark"]]
        \/ work' = [work EXCEPT ![u] = [phase |-> "return"]]
    BY <1>2 DEF SendLeadToAdmin, MarkProcessed, CompleteJob, JobFails
  <2> DEFINE mark == [phase |-> "mark"]
             return == [phase |-> "return"]
  <2>2. Idle \in Work(Len(leads')) /\ mark \in Work(Len(leads')) /\ return \in Work(Len(leads'))
    BY IdleWork
  <2> HIDE DEF mark, return
  <2> QED
    BY <2>1, <2>2, OneWorkMoves DEF mark, return
<1> QED
  BY <1>1, <1>2

LEMMA ChoicesMove ==
  ASSUME Typed, LeadsMove, UNCHANGED leads, PressButton \/ \E l \in LeadIds : StartFallback(l)
  PROVE  WorkMoves
<1>1. CASE PressButton
  <2>1. PICK pressed \in Presses : work' = [work EXCEPT !["poll"] = pressed]
    BY <1>1 DEF PressButton
  <2>2. pressed \in Work(Len(leads'))
    BY ChoiceWork DEF Presses
  <2> QED
    BY <2>1, <2>2, OneWorkMoves
<1>2. ASSUME NEW l \in LeadIds, StartFallback(l)
      PROVE  WorkMoves
  <2>1. CASE UNCHANGED work
    BY <2>1, WorkStays
  <2>2. ASSUME NEW manager \in LeastLoaded, work' = [work EXCEPT !["fallback"] = Choice(l, manager)]
        PROVE  WorkMoves
    <3>1. manager \in Managers
      BY DEF LeastLoaded, Typed, Setup
    <3>2. Choice(l, manager) \in Work(Len(leads'))
      BY <3>1, ChoiceWork
    <3> QED
      BY <2>2, <3>2, OneWorkMoves
  <2> QED
    BY <1>2, <2>1, <2>2 DEF StartFallback
<1> QED
  BY <1>1, <1>2

LEMMA AnswerMoves ==
  ASSUME Typed, LeadsMove, UNCHANGED leads, NEW a \in Actors, Answer(a)
  PROVE  WorkMoves
<1> DEFINE mark == [phase |-> "mark"]
<1>1. work' = [work EXCEPT ![a] = mark] \/ work' = [work EXCEPT ![a] = Idle]
  BY DEF Answer, JobFails
<1>2. Idle \in Work(Len(leads')) /\ mark \in Work(Len(leads'))
  BY IdleWork
<1> HIDE DEF mark
<1> QED
  BY <1>1, <1>2, OneWorkMoves

LEMMA MarkMoves ==
  ASSUME Typed, \A l \in 1..MaxLeads : GivenOnce(metas[l]), EscalateLead \/ \E l \in LeadIds : LeadAges(l)
  PROVE  MetasMove
<1>1. CASE UNCHANGED metas
  BY <1>1 DEF MetasMove, Typed
<1>2. ASSUME NEW l, metas' = [metas EXCEPT ![l].escalated = TRUE]
      PROVE  MetasMove
  <2> DEFINE row == [metas[l] EXCEPT !.escalated = TRUE]
  <2>1. metas' = [metas EXCEPT ![l] = row]
    BY <1>2
  <2>2. ASSUME l \in 1..MaxLeads
        PROVE  row \in MetaRow /\ GivenOnce(row)
    <3>1. metas[l] \in MetaRow /\ GivenOnce(metas[l])
      BY <2>2 DEF Typed
    <3>2. /\ row \in MetaRow /\ row.user = metas[l].user /\ row.pending = metas[l].pending
          /\ row.claims = metas[l].claims
      BY <3>1 DEF MetaRow
    <3> HIDE DEF row
    <3> QED
      BY <3>1, <3>2 DEF GivenOnce
  <2> HIDE DEF row
  <2> QED
    BY <2>1, <2>2, OneMetaMoves
<1>3. ASSUME NEW l \in LeadIds, LeadAges(l)
      PROVE  MetasMove
  <2> DEFINE row == [metas[l] EXCEPT !.age = @ + 1]
  <2>1. metas' = [metas EXCEPT ![l] = row] /\ metas[l].age < 2
    BY <1>3 DEF LeadAges
  <2>2. metas[l] \in MetaRow /\ GivenOnce(metas[l])
    BY LeadsAreMetas DEF Typed
  <2>3. /\ row \in MetaRow /\ row.user = metas[l].user /\ row.pending = metas[l].pending
        /\ row.claims = metas[l].claims
    BY <2>1, <2>2 DEF MetaRow
  <2> HIDE DEF row
  <2>4. GivenOnce(row)
    BY <2>2, <2>3 DEF GivenOnce
  <2> QED
    BY <2>1, <2>3, <2>4, OneMetaMoves
<1> QED
  BY <1>1, <1>2, <1>3 DEF EscalateLead

\* Everything a step of the intake may touch.
Moves ==
  /\ ClientsMove /\ LeadsMove /\ DealsMove /\ CallsMove /\ MetasMove /\ WorkMoves
  /\ UNCHANGED setup

LEMMA AllStay ==
  ASSUME IntakeTrue
  PROVE  /\ UNCHANGED clients => ClientsMove
         /\ UNCHANGED leads => LeadsMove
         /\ UNCHANGED deals => DealsMove
         /\ UNCHANGED calls => CallsMove
         /\ UNCHANGED metas => MetasMove
         /\ UNCHANGED work /\ LeadsMove => WorkMoves
<1>1. Typed /\ SignedUponOffer /\ \A l \in 1..MaxLeads : GivenOnce(metas[l])
  BY DEF IntakeTrue
<1>2. UNCHANGED clients => ClientsMove
  BY <1>1 DEF ClientsMove, Typed
<1>3. UNCHANGED metas => MetasMove
  BY <1>1 DEF MetasMove, Typed
<1> QED
  BY <1>1, <1>2, <1>3, LeadsStay, DealsStay, CallsStay, WorkStays

LEMMA IntakeStepsMove ==
  ASSUME IntakeTrue, IntakeSteps
  PROVE  Moves
<1>0. Typed /\ \A l \in 1..MaxLeads : GivenOnce(metas[l])
  BY DEF IntakeTrue
<1>1. UNCHANGED <<deals, calls, setup>>
  BY DEF IntakeSteps, CheckEvent, StoreEvent, Enqueue, StartJob, CreateTelegramLead, ScheduleFallback,
         SendLeadToAdmin, MarkProcessed, CompleteJob, EvictJob, EventAges, PressButton, StartFallback,
         LeadAges, Claim, Answer, StartRound, EscalateLead, StartReaper, ReapEvent, CountAttempt, deskVars
<1>2. DealsMove /\ CallsMove
  BY <1>1, AllStay
<1>3. ASSUME NEW u \in Updates, CreateTelegramLead(u)
      PROVE  Moves
  BY <1>0, <1>1, <1>2, <1>3, TelegramLeadMoves DEF Moves
<1>4. ASSUME NEW a \in Actors, Claim(a)
      PROVE  Moves
  <2>1. UNCHANGED clients
    BY <1>4 DEF Claim
  <2> QED
    BY <1>0, <1>1, <1>2, <1>4, <2>1, ClaimMoves, AllStay DEF Moves
<1>5. ASSUME UNCHANGED <<clients, leads, metas>>, WorkMoves \/ UNCHANGED work
      PROVE  Moves
  BY <1>1, <1>2, <1>5, AllStay DEF Moves
<1>6. ASSUME NEW u \in Updates,
             \/ StartJob(u) \/ ScheduleFallback(u) \/ SendLeadToAdmin(u) \/ MarkProcessed(u)
             \/ CompleteJob(u)
      PROVE  Moves
  <2>1. UNCHANGED <<clients, leads, metas>>
    BY <1>6 DEF StartJob, ScheduleFallback, SendLeadToAdmin, MarkProcessed, CompleteJob, deskVars
  <2>2. LeadsMove
    BY <2>1, AllStay
  <2> QED
    BY <1>0, <1>5, <1>6, <2>1, <2>2, JobStarts, LaterSteps
<1>7. CASE PressButton \/ \E l \in LeadIds : StartFallback(l)
  <2>1. UNCHANGED <<clients, leads, metas>>
    BY <1>7 DEF PressButton, StartFallback, deskVars
  <2>2. LeadsMove
    BY <2>1, AllStay
  <2> QED
    BY <1>0, <1>5, <1>7, <2>1, <2>2, ChoicesMove
<1>8. ASSUME NEW a \in Actors, Answer(a)
      PROVE  Moves
  <2>1. UNCHANGED <<clients, leads, metas>>
    BY <1>8 DEF Answer, deskVars
  <2>2. LeadsMove
    BY <2>1, AllStay
  <2> QED
    BY <1>0, <1>5, <1>8, <2>1, <2>2, AnswerMoves
<1>9. CASE EscalateLead \/ \E l \in LeadIds : LeadAges(l)
  <2>1. UNCHANGED <<clients, leads, work>>
    BY <1>9 DEF EscalateLead, LeadAges, deskVars
  <2>2. MetasMove
    BY <1>0, <1>9, MarkMoves
  <2> QED
    BY <1>1, <1>2, <2>1, <2>2, AllStay DEF Moves
<1>10. ASSUME \/ \E d \in Deliveries : CheckEvent(d) \/ StoreEvent(d) \/ Enqueue(d)
              \/ \E u \in Updates : EvictJob(u) \/ EventAges(u)
              \/ StartRound \/ StartReaper \/ ReapEvent \/ CountAttempt
       PROVE  Moves
  <2>1. UNCHANGED <<clients, leads, metas, work>>
    BY <1>10 DEF CheckEvent, StoreEvent, Enqueue, EvictJob, EventAges, StartRound, StartReaper, ReapEvent,
                 CountAttempt, deskVars
  <2> QED
    BY <1>5, <2>1
<1> QED
  BY <1>3, <1>4, <1>6, <1>7, <1>8, <1>9, <1>10 DEF IntakeSteps

-----------------------------------------------------------------------------
\* The invariant, step by step.
LEMMA NextMoves ==
  ASSUME IntakeTrue, [Next]_vars
  PROVE  Moves
<1>0. Typed /\ CallsTrue /\ SignedUponOffer
  BY DEF IntakeTrue
<1>1. ASSUME UNCHANGED <<clients, leads, deals, calls, metas, work, setup>>
      PROVE  Moves
  BY <1>1, AllStay DEF Moves
<1>2. CASE DealSteps /\ UNCHANGED <<clients, leads, intakeVars>>
  <2>1. DealsMove /\ CallsMove
    BY <1>0, <1>2, DealStepsMove
  <2>2. UNCHANGED <<clients, leads, metas, work, setup>>
    BY <1>2 DEF intakeVars
  <2> QED
    BY <2>1, <2>2, AllStay DEF Moves
<1>3. CASE DeskSteps /\ UNCHANGED intakeVars
  <2>1. ClientsMove /\ LeadsMove /\ DealsMove /\ CallsMove
    BY <1>0, <1>3, DeskStepsMove
  <2>2. UNCHANGED <<metas, work, setup>>
    BY <1>3 DEF intakeVars
  <2> QED
    BY <2>1, <2>2, AllStay DEF Moves
<1>4. CASE Crash
  <2>1. /\ UNCHANGED <<clients, leads, deals, metas, setup>> /\ calls' = {}
        /\ work' = [a \in Actors |-> Idle]
    BY <1>4 DEF Crash
  <2>2. WorkMoves
    BY <2>1, IdleWork DEF WorkMoves
  <2>3. CallsMove
    BY <2>1, CallsStay
  <2> QED
    BY <2>1, <2>2, <2>3, AllStay DEF Moves
<1>5. CASE (TaskSteps /\ UNCHANGED <<deskVars, intakeVars>>) \/ TasksAge \/ UNCHANGED vars
  BY <1>1, <1>5 DEF TasksAge, deskVars, intakeVars, vars
<1> QED
  BY <1>2, <1>3, <1>4, <1>5, IntakeStepsMove DEF Next

\* The rows that calls refer to stay, and so does what they decided upon.
LEMMA MovesKeep ==
  ASSUME IntakeTrue, Moves
  PROVE  IntakeTrue'
<1>0. Typed /\ CallsTrue
  BY DEF IntakeTrue
<1>1. /\ Len(deals) \in Nat /\ Len(deals') \in Nat /\ Len(deals) <= Len(deals')
      /\ Len(leads) \in Nat /\ Len(leads') \in Nat /\ Len(leads) <= Len(leads')
  BY <1>0 DEF Typed, Moves, DealsMove, LeadsMove
<1>2. 1..Len(deals) \subseteq 1..Len(deals') /\ 1..Len(leads) \subseteq 1..Len(leads')
  BY <1>1
<1>3. Call(Len(deals), Len(leads)) \subseteq Call(Len(deals'), Len(leads'))
  BY <1>2 DEF Call, DeleteItemsCall, SetItemsCall, StageCall, OfferCall, AcceptCall, DisqualifyCall, LoseCall,
              HandoffCall
<1>4. \A call \in calls' : call \in Call(Len(deals), Len(leads)) /\ Decided(call, deals)
  BY <1>0 DEF Moves, CallsMove, NewCall, Typed, CallsTrue
<1>5. \A call \in calls' : Decided(call, deals')
  <2> TAKE call \in calls'
  <2>1. ASSUME call.op = "changeStage"
        PROVE  call.deal \in DealIds
    <3>1. call \in StageCall(Len(deals))
      BY <1>4, <2>1 DEF Call, DeleteItemsCall, SetItemsCall, StageCall, OfferCall, AcceptCall, ClientCall,
                        DisqualifyCall, LoseCall, HandoffCall
    <3> QED
      BY <3>1 DEF StageCall, DealIds
  <2>2. \A d \in DealIds : Upheld(deals[d]) => Upheld(deals'[d])
    BY DEF Moves, DealsMove
  <2> QED
    BY <1>4, <2>1, <2>2 DEF Decided
<1>6. CallsTrue'
  BY <1>5 DEF CallsTrue
<1>7. Typed'
  BY <1>0, <1>3, <1>4 DEF Typed, Moves, ClientsMove, LeadsMove, DealsMove, MetasMove, WorkMoves
<1>8. SignedUponOffer'
  BY DEF Moves, DealsMove, SignedUponOffer, DealIds
<1>9. \A l \in 1..MaxLeads : GivenOnce(metas'[l])
  BY DEF Moves, MetasMove
<1> QED
  BY <1>6, <1>7, <1>8, <1>9 DEF IntakeTrue

LEMMA IntakeInit ==
  ASSUME Init
  PROVE  IntakeTrue
<1>1. PICK s \in Scenarios :
        /\ clients = s.clients /\ leads = s.leads /\ deals = s.deals
        /\ metas = [l \in 1..MaxLeads |-> IF l \in DOMAIN s.metas THEN s.metas[l] ELSE NoMeta]
        /\ calls = {} /\ work = [a \in Actors |-> Idle] /\ setup = s.setup
  BY DEF Init
<1>2. /\ s.setup \in Setup /\ s.clients \in Seq(Client)
      /\ s.leads \in Seq(Lead) /\ Len(s.leads) <= MaxLeads
      /\ s.metas \in Seq(Metadata) /\ \A l \in DOMAIN s.metas : GivenOnce(s.metas[l])
      /\ s.deals \in Seq(Deal) /\ \A d \in DOMAIN s.deals : UponOffer(s.deals[d])
  BY ScenariosAssumption
<1>3. clients \in Seq(ClientRow)
  <2>1. Client \subseteq ClientRow
    BY DEF Client, ClientRow
  <2> QED
    BY <1>1, <1>2, <2>1, SeqMonotonic
<1>4. deals \in Seq(DealRow)
  <2>1. Offer \subseteq OfferRow
    BY DEF Offer, OfferRow, Amounts
  <2>2. Seq(Offer) \subseteq Seq(OfferRow)
    BY <2>1, SeqMonotonic
  <2>3. Deal \subseteq DealRow
    BY <2>2 DEF Deal, DealRow, Amounts, StageNames
  <2> QED
    BY <1>1, <1>2, <2>3, SeqMonotonic
<1>5. \A l \in 1..MaxLeads : metas[l] \in MetaRow /\ GivenOnce(metas[l])
  <2> TAKE l \in 1..MaxLeads
  <2>1. CASE l \in DOMAIN s.metas
    <3>1. s.metas[l] \in Metadata /\ metas[l] = s.metas[l]
      BY <1>1, <1>2, <2>1, ElementOfSeq
    <3> QED
      BY <1>2, <2>1, <3>1 DEF Metadata, MetaRow
  <2>2. CASE l \notin DOMAIN s.metas
    BY <1>1, <2>2 DEF NoMeta, MetaRow, GivenOnce
  <2> QED
    BY <2>1, <2>2
<1>6. metas \in [1..MaxLeads -> MetaRow]
  BY <1>1, <1>5
<1>7. work \in [Actors -> Work(Len(leads))] /\ calls \subseteq Call(Len(deals), Len(leads))
  BY <1>1, IdleWork
<1>8. SignedUponOffer
  BY <1>1, <1>2 DEF SignedUponOffer, DealIds
<1>9. CallsTrue
  BY <1>1 DEF CallsTrue
<1> QED
  BY <1>1, <1>2, <1>3, <1>4, <1>5, <1>6, <1>7, <1>8, <1>9 DEF IntakeTrue, Typed

\* The invariant of every behaviour: a stage that is still to be written was
\* decided upon what the deal keeps, an approved offer, an accepted quote or an
\* exception, and a lead has
\* been claimed exactly when it waits no longer.
THEOREM IntakeInvariant == Spec => []IntakeTrue
<1>1. Init => IntakeTrue
  BY IntakeInit
<1>2. IntakeTrue /\ [Next]_vars => IntakeTrue'
  BY NextMoves, MovesKeep
<1> QED
  BY <1>1, <1>2, PTL DEF Spec

\* However many buttons, jobs and workers compete for it, a lead is given away
\* once: it has been claimed exactly when it waits no longer.
THEOREM LeadsHandedOverOnce == Spec => []HandedOverOnce
<1>1. IntakeTrue => HandedOverOnce
  BY LeadsAreMetas DEF IntakeTrue, HandedOverOnce
<1> QED
  BY <1>1, IntakeInvariant, PTL

\* A deal that is agreed, paid or won has an approved offer, an accepted quote or
\* an exception in its history, although the stage is written by id long after
\* stage and offers were looked at, and by acceptances of quotes at the same time.
THEOREM DealsSignedUponOffers == Spec => []SignedUponOffer
<1>1. IntakeTrue => SignedUponOffer
  BY DEF IntakeTrue
<1> QED
  BY <1>1, IntakeInvariant, PTL

\* The reason of a loss and its count never change again, whoever loses the
\* lead, disqualifies it or deletes its client.
THEOREM LeadsLostOnce == Spec => LostOnce
<1>1. IntakeTrue /\ [Next]_vars =>
        [\A l \in LeadIds : leads[l].lost =>
           /\ leads[l]'.reason = leads[l].reason
           /\ leads[l]'.losses = leads[l].losses]_leads
  BY NextMoves DEF Moves, LeadsMove, LostStays
<1> QED
  BY <1>1, IntakeInvariant, PTL DEF Spec, LostOnce
=============================================================================
