-------------------------- MODULE EngineeringOffers --------------------------
(***************************************************************************)
(* The commercial side of the engineering work of one lead: what the facade *)
(* subsystem (FacadeCommercialService) and the installation                 *)
(* (InstallationCommercialService) cost the client, and the quotes that     *)
(* take these components in (QuoteCompositionService).  It is composed with *)
(* the technical side, EngineeringWork.                                     *)
(*                                                                          *)
(* The two services are one text with other words, so a row of offers[kind] *)
(* is a row of either, and the handlers take the kind; what differs has a   *)
(* definition for each kind.  Again a handler reads, then writes by id.     *)
(* The transaction of patch deletes the lines it can see first and locks    *)
(* the row afterwards, so it is two steps; that of a new draft reads the    *)
(* last revision before it creates a row, and is two steps as well.         *)
(***************************************************************************)
EXTENDS EngineeringWork

CONSTANTS
  HplMaterials,   \* facade materials that are reference lines of the panels
  Offers,         \* supplier offers and contractor rates
  NoOffer,
  Foreign,        \* those priced in another currency than the client's
  Amounts,        \* prices for the client
  MaxRows,        \* bound: commercial rows of each kind
  MaxOfferRevision,   \* bound: a row of this revision is only approved
  MaxQuotes,      \* bound: quotes of the lead; with the last one no call begins
  MaxCatalogChanges   \* bound: changes of offers in force and of currency rates

VARIABLES
  offers,     \* offers[kind]: commercial calculations, oldest first
  catalog,    \* offers in force, and whether the currency rate is known
  quotes,     \* the engineering components of each quote
  presented   \* amounts that have stood in an offer awaiting approval

offerVars == <<offers, catalog, quotes, presented>>
allVars == <<lead, assignments, tasks, facade, installation, calls, scenario,
             offers, catalog, quotes, presented>>

Kinds == {"facade", "installation"}

-----------------------------------------------------------------------------
\* The technical calculation as the commercial side reads it: technicalSnapshot.
FacadeTechnical ==
  [ready |-> facade.status = "CALCULATED", revision |-> facade.revision,
   lines |-> [m \in DOMAIN facade.items |-> facade.items[m].final] @@ facade.extras]

InstallationTechnical ==
  [ready |-> installation.status = "READY", revision |-> installation.revision,
   lines |-> installation.items]

Technical(kind) == IF kind = "facade" THEN FacadeTechnical ELSE InstallationTechnical

\* computeItem of both services: a reference line of the panels has no price;
\* an offer or rate that is not in force is taken off the line.
FacadeLine(item, offer, active) ==
  IF item \in HplMaterials THEN [item |-> item, offer |-> NoOffer, priceStatus |-> "EXCLUDED"]
  ELSE IF offer \notin active
       THEN [item |-> item, offer |-> NoOffer, priceStatus |-> "NOT_CONFIGURED"]
  ELSE [item |-> item, offer |-> offer, priceStatus |-> "CONFIGURED"]

InstallationLine(item, rate, active) ==
  IF rate \notin active THEN [item |-> item, offer |-> NoOffer, priceStatus |-> "NOT_CONFIGURED"]
  ELSE [item |-> item, offer |-> rate, priceStatus |-> "CONFIGURED"]

ComputeItem(kind, item, offer, active) ==
  IF kind = "facade" THEN FacadeLine(item, offer, active) ELSE InstallationLine(item, offer, active)

\* applyFx: a line in another currency than the client's needs a rate.
ApplyFx(line, cat) ==
  [item |-> line.item, offer |-> line.offer, priceStatus |-> line.priceStatus,
   fx |-> line.offer \notin Foreign \/ cat.rateKnown]

\* A line of a row; stamp tells lines that were created at different writes.
Line(kind, item, offer, cat, stamp) ==
  ApplyFx(ComputeItem(kind, item, offer, cat.active), cat) @@ [stamp |-> stamp]

\* assertReadyForApproval: every line priced and converted, and a price named.
FacadeReadyForApproval(row) ==
  /\ \A line \in row.lines : line.priceStatus # "NOT_CONFIGURED" /\ line.fx
  /\ row.proposed > 0

InstallationReadyForApproval(row) ==
  /\ \A line \in row.lines : line.priceStatus \notin {"NOT_CONFIGURED", "INCOMPATIBLE_UNIT"}
  /\ \A line \in row.lines : line.fx
  /\ row.proposed > 0

ReadyForApproval(kind, row) ==
  IF kind = "facade" THEN FacadeReadyForApproval(row) ELSE InstallationReadyForApproval(row)

-----------------------------------------------------------------------------
OfferInit ==
  /\ TechInit
  /\ offers = [kind \in Kinds |-> <<>>]
  /\ catalog = [active |-> Offers, rateKnown |-> TRUE, changes |-> 0]
  /\ quotes = <<>>
  /\ presented = {}

Rows(kind) == DOMAIN offers[kind]

\* findFirst takes any row that says it is current.
Current(kind) == {k \in Rows(kind) : offers[kind][k].isCurrent}

MaxOf(numbers) == CHOOSE x \in numbers \cup {0} : \A y \in numbers : y <= x

LastRevision(rows) == MaxOf({rows[k].revision : k \in DOMAIN rows})

StartOffer(call) ==
  /\ call.handler \in scenario.handlers
  /\ Len(quotes) < MaxQuotes
  /\ Cardinality(calls) < MaxCalls
  /\ calls' = calls \cup {call}
  /\ UNCHANGED <<techVars, offerVars, scenario>>

\* What stands in an offer that awaits approval can be seen by the approver.
PresentedIn(kind, rows) ==
  {[kind |-> kind, row |-> k, amount |-> rows[k].proposed] :
     k \in {n \in DOMAIN rows : rows[n].status = "READY_FOR_APPROVAL"}}

\* A transaction leaves offers of one kind as rows.
EndOffer(call, rows) ==
  /\ offers' = [offers EXCEPT ![call.kind] = rows]
  /\ presented' = presented \cup PresentedIn(call.kind, rows)
  /\ calls' = calls \ {call}
  /\ UNCHANGED <<techVars, scenario, catalog, quotes>>

\* leadId and revision are unique together: a write that would repeat one fails.
RevisionFree(rows, revision) == \A j \in DOMAIN rows : rows[j].revision # revision

\* Faulty variant: without the unique index.
AnyRevision(rows, k, row) == [rows EXCEPT ![k] = [row EXCEPT !.revision = rows[k].revision + 1]]

WriteRow(rows, k, row) ==
  IF RevisionFree(rows, rows[k].revision + 1)
  THEN [rows EXCEPT ![k] = [row EXCEPT !.revision = rows[k].revision + 1]]
  ELSE rows

-----------------------------------------------------------------------------
\* createFromTechnical and reprice: a new draft from the technical lines that
\* were read, with the offers of the former row that are still in force.
Drafted(kind, technical, previous, cat) ==
  {Line(kind, item,
        IF \E line \in previous : line.item = item
        THEN (CHOOSE line \in previous : line.item = item).offer ELSE NoOffer,
        cat, 0) : item \in DOMAIN technical.lines}

\* Faulty variant: the draft is labelled with the technical revision of now.
DraftLabelledNow(call) ==
  [status |-> "DRAFT", revision |-> call.last + 1, isCurrent |-> TRUE,
   technicalRevision |-> Technical(call.kind).revision,
   technicalSnapshot |-> call.technical.lines,
   lines |-> Drafted(call.kind, call.technical, call.previous, catalog),
   proposed |-> 0, approved |-> 0, quoteCreated |-> FALSE]

FacadeDraftFromTechnical(call) ==
  [status |-> "DRAFT", revision |-> call.last + 1, isCurrent |-> TRUE,
   technicalRevision |-> call.technical.revision,
   technicalSnapshot |-> call.technical.lines,
   lines |-> Drafted(call.kind, call.technical, call.previous, catalog),
   proposed |-> 0, approved |-> 0, quoteCreated |-> FALSE]

InstallationDraftFromTechnical(call) == FacadeDraftFromTechnical(call)

PersistDraft(call) ==
  IF call.kind = "facade" THEN FacadeDraftFromTechnical(call)
                          ELSE InstallationDraftFromTechnical(call)

DraftHandlers == {"offer_create", "offer_reprice"}

\* k = 0 if there was no current row.
Demote(rows, k) == IF k = 0 THEN rows ELSE [rows EXCEPT ![k].isCurrent = FALSE]

\* Tells calls apart that have read the same.
NewCaller ==
  CHOOSE n \in 0..MaxCalls : \A c \in calls : c.handler \in DraftHandlers => c.caller # n

StartDraft(kind, handler, k) ==
  /\ Len(offers[kind]) < MaxRows
  /\ StartOffer([handler |-> handler, kind |-> kind, row |-> k, caller |-> NewCaller,
                 technical |-> Technical(kind), reading |-> FALSE, last |-> 0,
                 previous |-> IF k = 0 THEN {} ELSE offers[kind][k].lines])

\* An offer that is not approved yet is returned as it is.
StartCreateFromTechnical(kind) ==
  /\ Technical(kind).ready
  /\ IF Current(kind) = {} THEN StartDraft(kind, "offer_create", 0)
     ELSE \E k \in Current(kind) : /\ offers[kind][k].status = "APPROVED"
                                   /\ StartDraft(kind, "offer_create", k)

StartReprice(kind) ==
  /\ Technical(kind).ready
  /\ \E k \in Current(kind) : StartDraft(kind, "offer_reprice", k)

\* The transaction begins with the write that demotes the current row, which
\* keeps other writes of that row waiting until it ends, and it reads the last
\* revision.
Locked(kind, k) ==
  /\ k # 0
  /\ \E c \in calls : c.handler \in DraftHandlers /\ c.reading /\ c.kind = kind /\ c.row = k

DraftRead(call) ==
  /\ call.handler \in DraftHandlers
  /\ ~ call.reading
  /\ ~ Locked(call.kind, call.row)
  /\ calls' = (calls \ {call}) \cup
       {[call EXCEPT !.reading = TRUE, !.last = LastRevision(offers[call.kind])]}
  /\ UNCHANGED <<techVars, offerVars, scenario>>

\* Then it creates the new row, which the unique index refuses if the revision
\* has been taken since.
NewDraft(call) ==
  /\ call.handler \in DraftHandlers
  /\ call.reading
  /\ Len(offers[call.kind]) < MaxRows
  /\ RevisionFree(offers[call.kind], call.last + 1)
  /\ EndOffer(call, Append(Demote(offers[call.kind], call.row), PersistDraft(call)))

-----------------------------------------------------------------------------
\* patch: another offer for the lines, another price; back to DRAFT.  Bound: a
\* caller prices all lines and names an amount, or takes the amount back.
Mutable(row) == row.status # "APPROVED"

StartPatch(kind, offer, amount) ==
  \E k \in Current(kind) :
    LET row == offers[kind][k]
    IN  /\ Mutable(row)
        /\ row.revision < MaxOfferRevision
        /\ LET edited == IF amount = 0 THEN {} ELSE {line.item : line \in row.lines}
           IN  StartOffer([handler |-> "offer_patch", kind |-> kind, row |-> k, deleting |-> FALSE,
                           amount |-> amount, deleted |-> {},
                           lines |-> {Line(kind, line.item,
                                           IF line.item \in edited THEN offer ELSE line.offer,
                                           catalog, line.stamp) : line \in row.lines}])

\* deleteMany takes the lines that are committed when it begins ...
PatchDelete(call) ==
  /\ call.handler = "offer_patch"
  /\ ~ call.deleting
  /\ calls' = (calls \ {call}) \cup
       {[call EXCEPT !.deleting = TRUE, !.deleted = offers[call.kind][call.row].lines]}
  /\ UNCHANGED <<techVars, offerVars, scenario>>

\* ... and the row is written by id, with all lines and the price that were
\* computed from what was read.
Rewritten(row, call) ==
  (row.lines \ call.deleted) \cup
    {[line EXCEPT !.stamp = row.revision + 1] : line \in call.lines}

Patched(row, call) ==
  [row EXCEPT !.status = "DRAFT", !.proposed = call.amount, !.lines = Rewritten(row, call)]

FacadePatch(call, rows) == WriteRow(rows, call.row, Patched(rows[call.row], call))
InstallationPatch(call, rows) == WriteRow(rows, call.row, Patched(rows[call.row], call))

Patch(call) ==
  /\ call.handler = "offer_patch"
  /\ call.deleting
  /\ ~ Locked(call.kind, call.row)
  /\ LET rows == offers[call.kind]
     IN  EndOffer(call, IF call.kind = "facade" THEN FacadePatch(call, rows)
                                                ELSE InstallationPatch(call, rows))

-----------------------------------------------------------------------------
StartSubmit(kind) ==
  \E k \in Current(kind) :
    /\ Mutable(offers[kind][k])
    /\ offers[kind][k].revision < MaxOfferRevision
    /\ ReadyForApproval(kind, offers[kind][k])
    /\ StartOffer([handler |-> "offer_submit", kind |-> kind, row |-> k])

Submitted(row) == [row EXCEPT !.status = "READY_FOR_APPROVAL"]

FacadeSubmit(call, rows) == WriteRow(rows, call.row, Submitted(rows[call.row]))
InstallationSubmit(call, rows) == WriteRow(rows, call.row, Submitted(rows[call.row]))

Submit(call) ==
  /\ call.handler = "offer_submit"
  /\ ~ Locked(call.kind, call.row)
  /\ LET rows == offers[call.kind]
     IN  EndOffer(call, IF call.kind = "facade" THEN FacadeSubmit(call, rows)
                                                ELSE InstallationSubmit(call, rows))

StartApprove(kind) ==
  \E k \in Current(kind) :
    /\ offers[kind][k].status = "READY_FOR_APPROVAL"
    /\ ReadyForApproval(kind, offers[kind][k])
    /\ Technical(kind).revision > 0
    /\ StartOffer([handler |-> "offer_approve", kind |-> kind, row |-> k,
                   amount |-> offers[kind][k].proposed])

\* Faulty variant: the price that is in the row by now is approved.
ApprovedAsItIs(row, call) == [row EXCEPT !.status = "APPROVED", !.approved = row.proposed]

\* The price that was read is approved.
Approved(row, call) == [row EXCEPT !.status = "APPROVED", !.approved = call.amount]

FacadeApprove(call, rows) == WriteRow(rows, call.row, Approved(rows[call.row], call))
InstallationApprove(call, rows) == WriteRow(rows, call.row, Approved(rows[call.row], call))

Approve(call) ==
  /\ call.handler = "offer_approve"
  /\ ~ Locked(call.kind, call.row)
  /\ LET rows == offers[call.kind]
     IN  EndOffer(call, IF call.kind = "facade" THEN FacadeApprove(call, rows)
                                                ELSE InstallationApprove(call, rows))

\* A transaction may fail - of two drafts that read the same last revision the
\* unique index refuses one - and leaves nothing.
FailOffer(call) ==
  /\ call.handler \in DraftHandlers \cup {"offer_patch"}
  /\ calls' = calls \ {call}
  /\ UNCHANGED <<techVars, offerVars, scenario>>

-----------------------------------------------------------------------------
\* FacadeMaterialOfferService and InstallationCatalogService: an offer or rate
\* is taken out of force or put back; a currency rate expires or is entered.
ChangeCatalog ==
  /\ "catalog" \in scenario.handlers
  /\ catalog.changes < MaxCatalogChanges
  /\ \/ \E o \in Offers :
          catalog' = [catalog EXCEPT !.active = IF o \in @ THEN @ \ {o} ELSE @ \cup {o},
                                     !.changes = @ + 1]
     \/ catalog' = [catalog EXCEPT !.rateKnown = ~ @, !.changes = @ + 1]
  /\ UNCHANGED <<techVars, calls, scenario, offers, quotes, presented>>

\* facadeComponent and installationComponent.
Stale(kind, k) == offers[kind][k].technicalRevision # Technical(kind).revision

FacadeComponent(k) ==
  [kind |-> "facade", row |-> k, amount |-> offers["facade"][k].approved,
   technicalRevision |-> offers["facade"][k].technicalRevision]

InstallationComponent(k) ==
  [kind |-> "installation", row |-> k, amount |-> offers["installation"][k].approved,
   technicalRevision |-> offers["installation"][k].technicalRevision]

Component(kind, k) == IF kind = "facade" THEN FacadeComponent(k) ELSE InstallationComponent(k)

\* resolveLead: the approved components the client asked for; pick is the row
\* findFirst gives of each kind.
Includeable(kind, k) == /\ kind \in lead.needs
                        /\ offers[kind][k].status = "APPROVED"
                        /\ offers[kind][k].approved > 0

ResolveLead(pick) == {kind \in DOMAIN pick : Includeable(kind, pick[kind])}

\* attachToQuote, inside the transaction that creates the quote.  A stale
\* component needs the consent of the caller.  What is written of the row no
\* other handler writes, so its wait for a locked row changes nothing.
AttachToQuote(acknowledged) ==
  /\ "quote" \in scenario.handlers
  /\ Len(quotes) < MaxQuotes
  /\ \E pick \in [{kind \in Kinds : Current(kind) # {}} -> 1..MaxRows] :
       LET extras == ResolveLead(pick)
       IN  /\ \A kind \in DOMAIN pick : pick[kind] \in Current(kind)
           /\ acknowledged \/ \A kind \in extras : ~ Stale(kind, pick[kind])
           /\ quotes' = Append(quotes, [acknowledged |-> acknowledged,
                                        components |-> {Component(kind, pick[kind]) : kind \in extras}])
           /\ offers' = [kind \in Kinds |->
                IF kind \in extras THEN [offers[kind] EXCEPT ![pick[kind]].quoteCreated = TRUE]
                                   ELSE offers[kind]]
  /\ UNCHANGED <<techVars, calls, scenario, catalog, presented>>

-----------------------------------------------------------------------------
OfferStart(kind) ==
  \/ StartCreateFromTechnical(kind)
  \/ StartReprice(kind)
  \/ \E offer \in Offers, amount \in Amounts \cup {0} :
       StartPatch(kind, offer, amount)
  \/ StartSubmit(kind)
  \/ StartApprove(kind)

OfferTransaction(call) ==
  \/ DraftRead(call)
  \/ NewDraft(call)
  \/ PatchDelete(call)
  \/ Patch(call)
  \/ Submit(call)
  \/ Approve(call)
  \/ FailOffer(call)

Next ==
  \/ TechNext /\ UNCHANGED offerVars
  \/ \E kind \in Kinds : OfferStart(kind)
  \/ \E call \in calls : OfferTransaction(call)
  \/ ChangeCatalog
  \/ \E acknowledged \in BOOLEAN : AttachToQuote(acknowledged)

Spec == OfferInit /\ [][Next]_allVars

-----------------------------------------------------------------------------
\* Properties.

\* There is no constraint that keeps one row current: overlapping callers may
\* leave two, and a draft that read the last revision early may be the newest
\* row with the lower revision.  But the newest draft is current, so a caller
\* always finds an offer, and the revision a caller names names one row: drafts
\* count on from a revision they read before, and every write of an older row
\* counts its own revision up meanwhile.
NewestIsCurrent ==
  \A kind \in Kinds :
    /\ offers[kind] # <<>> => offers[kind][Len(offers[kind])].isCurrent
    /\ \A j, k \in Rows(kind) : j # k => offers[kind][j].revision # offers[kind][k].revision

\* What the client pays for a component was put before an approver: the amount
\* in a quote, and in an approved row, has stood in an offer awaiting approval.
ApprovedWasPresented ==
  /\ \A kind \in Kinds, k \in 1..MaxRows :
       k \in Rows(kind) /\ offers[kind][k].status = "APPROVED" =>
         [kind |-> kind, row |-> k, amount |-> offers[kind][k].approved] \in presented
  /\ \A q \in DOMAIN quotes : \A c \in quotes[q].components :
       [kind |-> c.kind, row |-> c.row, amount |-> c.amount] \in presented

\* A quote that was made without consent to stale components contains only
\* components that were priced from the technical lines as they are.
QuotedOnCurrentBasis ==
  [][\A q \in DOMAIN quotes' \ DOMAIN quotes : \A c \in quotes'[q].components :
       ~ quotes'[q].acknowledged =>
         offers[c.kind][c.row].technicalSnapshot = Technical(c.kind).lines]_quotes

\* What a message of both services says: an approved offer cannot be changed,
\* a new revision has to be created.
ApprovedStaysAsItIs ==
  [][\A kind \in Kinds, k \in 1..MaxRows :
       k \in Rows(kind) /\ offers[kind][k].status = "APPROVED" =>
         /\ offers'[kind][k].status = "APPROVED"
         /\ offers'[kind][k].lines = offers[kind][k].lines]_offers
=============================================================================
