--------------------------- MODULE QuoteLifecycle ---------------------------
(***************************************************************************)
(* The commercial offers (quotes) of one lead: QuotesService with the       *)
(* stored documents of QuoteDocumentService, the execution handoffs, the    *)
(* deal that DealFactory makes of a quote, and the steps of the lead and of *)
(* the deal that race with them.                                            *)
(*                                                                          *)
(* A caller reads, decides, and then runs a transaction that may find the   *)
(* rows changed.  calls[c] is what caller c has read and how far it is.  A  *)
(* transaction is one step where it decides by what it locks or by the      *)
(* condition of its UPDATE, and several where it acts on what it read       *)
(* before: the pricing, the finalization with its file outside of the       *)
(* transaction, the acceptance, and the change of the stock choice.         *)
(*                                                                          *)
(* All lines of a quote are one price, with 0 for a line without approved   *)
(* price; all its commercial terms are one value.                           *)
(***************************************************************************)
EXTENDS Integers, Sequences, FiniteSets

CONSTANTS
  Quotes,        \* rows the lead may get
  Requests,      \* its calculation requests
  Deals,         \* deals it may get
  Files,         \* documents that are stored
  Callers,       \* bound: calls that are under way
  Prices,        \* prices that are approved
  StageMoves,    \* stage changes that users make, as pairs
  Scenarios,     \* bound: what is explored together; the handlers that are called,
                 \* the number of quotes and of documents stored at a time,
                 \* the commercial terms, and the finalizations that die with
                 \* the process
  NoQuote, NoRequest, NoFile, NoDeal

ASSUME NothingAssumption ==
  /\ NoQuote \notin Quotes
  /\ NoRequest \notin Requests
  /\ NoFile \notin Files
  /\ NoDeal \notin Deals
ASSUME BoundsAssumption ==
  /\ Prices \subseteq Nat \ {0}
  /\ StageMoves \subseteq {"EARLY", "AGREED", "WON", "LOST"} \X {"EARLY", "AGREED", "WON", "LOST"}
  /\ \A s \in Scenarios :
       s.terms \subseteq Nat \ {0} /\ s.crashes \in Nat /\ s.quotes \in Nat

VARIABLES
  quotes,     \* quotes[q]: the row of q
  files,      \* files[f]: what the stored document f shows
  requests,   \* requests[r]: status of the calculation request
  lead,       \* the lead
  deals,      \* deals[d]: the deal, its lines and its handoffs
  calls,      \* calls[c]: the call of c that is under way
  crashes,    \* finalizations that left a document behind
  scenario    \* the bounds of this behaviour

vars == <<quotes, files, requests, lead, deals, calls, crashes, scenario>>

-----------------------------------------------------------------------------
\* QUOTE_STATUS_TRANSITIONS.
Transitions ==
  [draft     |-> {"sent"},
   sent      |-> {"approved", "rejected"},
   approved  |-> {"converted"},
   rejected  |-> {},
   converted |-> {}]

Statuses == DOMAIN Transitions

NoRow == [status |-> "NONE", request |-> NoRequest, version |-> 0,
          previous |-> NoQuote, price |-> 0, terms |-> 0,
          file |-> NoFile, accepted |-> FALSE, deal |-> NoDeal]

Existing == {q \in Quotes : quotes[q].status # "NONE"}

\* The next of the identifiers that are free, or none.
FirstOf(free) == IF free = {} THEN {} ELSE {CHOOSE x \in free : TRUE}
NewQuotes ==
  IF Cardinality(Existing) < scenario.quotes THEN FirstOf(Quotes \ Existing) ELSE {}

\* finalizedAt and pdfFileId are written together.
Finalized(q) == quotes[q].file # NoFile

NoDocument == [quote |-> NoQuote, price |-> 0, terms |-> 0]
Stored == {f \in Files : files[f] # NoDocument}
NewFiles == IF Cardinality(Stored) < scenario.quotes THEN FirstOf(Files \ Stored) ELSE {}

\* The stages between AGREEMENT_PENDING and WON are one.
Stages == {"EARLY", "AGREED", "WON", "LOST"}
NoDealRow == [stage |-> "NONE", lost |-> FALSE, lines |-> <<>>, handoffs |-> <<>>]
NewDealRow == [NoDealRow EXCEPT !.stage = "EARLY"]
FreeDeals == {d \in Deals : deals[d].stage = "NONE"}

-----------------------------------------------------------------------------
Idle == [handler |-> "none"]

Begin(c, call) ==
  /\ call.handler \in scenario.handlers
  /\ calls[c] = Idle
  /\ calls' = [calls EXCEPT ![c] = call]

End(c) == calls' = [calls EXCEPT ![c] = Idle]

In(c, handler, phase) == calls[c].handler = handler /\ calls[c].phase = phase

\* What the transactions under way have locked: the row of a quote that an
\* acceptance has claimed, the row of the lead while its stock choice is made.
QuoteRowFree(q) ==
  ~ \E c \in Callers : In(c, "accept", "claimed") /\ calls[c].quote = q

\* Faulty variant: nothing waits for the lead.
LeadRowIgnored == TRUE

LeadRowFree == ~ \E c \in Callers : In(c, "qualification", "checked")

\* The advisory lock of a handler on a quote.
LockFree(handler, phases, q) ==
  ~ \E c \in Callers : /\ calls[c].handler = handler
                       /\ calls[c].quote = q
                       /\ calls[c].phase \in phases

-----------------------------------------------------------------------------
\* A lead before its qualification, or one of the time when qualifying a lead
\* made no deal; or a quote the client accepted before handoffs were recorded.
NewLead == [status |-> "IN_PROGRESS", deal |-> NoDeal, lost |-> FALSE, stockOnly |-> FALSE]

EmptyInit ==
  /\ lead \in {NewLead, [NewLead EXCEPT !.status = "QUALIFIED"]}
  /\ quotes = [q \in Quotes |-> NoRow]
  /\ files = [f \in Files |-> NoDocument]
  /\ requests = [r \in Requests |-> "submitted"]
  /\ deals = [d \in Deals |-> NoDealRow]

AcceptedBefore ==
  \E q \in FirstOf(Quotes), r \in Requests, f \in FirstOf(Files), d \in FirstOf(Deals),
     p \in Prices, t \in scenario.terms :
    /\ "repair" \in scenario.handlers
    /\ lead = [NewLead EXCEPT !.status = "CONVERTED", !.deal = d]
    /\ quotes = [x \in Quotes |-> IF x # q THEN NoRow ELSE
         [status |-> "approved", request |-> r, version |-> 1, previous |-> NoQuote,
          price |-> p, terms |-> t, file |-> f, accepted |-> TRUE, deal |-> d]]
    /\ files = [x \in Files |-> IF x # f THEN NoDocument ELSE
         [quote |-> q, price |-> p, terms |-> t]]
    /\ requests = [x \in Requests |-> IF x = r THEN "quoted" ELSE "submitted"]
    /\ deals = [x \in Deals |-> IF x # d THEN NoDealRow ELSE
         [NewDealRow EXCEPT !.stage = "AGREED"]]

Init ==
  /\ scenario \in Scenarios
  /\ EmptyInit \/ AcceptedBefore
  /\ calls = [c \in Callers |-> Idle]
  /\ crashes = 0

-----------------------------------------------------------------------------
\* createFromCalculation and createFromRequest: the first version.  Of two that
\* saw no quote of the request, the unique keys let one through.
Unquoted(r) == \A q \in Existing : quotes[q].request # r

Create(r) ==
  /\ "create" \in scenario.handlers
  /\ Unquoted(r)
  /\ \E q \in NewQuotes, t \in scenario.terms :
       quotes' = [quotes EXCEPT ![q] = [NoRow EXCEPT
         !.status = "draft", !.request = r, !.version = 1, !.terms = t, !.deal = lead.deal]]
  /\ requests' = [requests EXCEPT
       ![r] = IF @ \in {"submitted", "processing"} THEN "processing" ELSE @]
  /\ UNCHANGED <<files, lead, deals, calls, crashes, scenario>>

\* assertQuoteMutableForLeader.
Mutable(q) == quotes[q].status = "draft" /\ ~ Finalized(q)

\* updateApprovedPricing: under its own advisory lock the quote is read ...
StartPricing(c, q) ==
  /\ Mutable(q)
  /\ LockFree("pricing", {"locked"}, q)
  /\ Begin(c, [handler |-> "pricing", phase |-> "locked", quote |-> q])
  /\ UNCHANGED <<quotes, files, requests, lead, deals, crashes, scenario>>

\* ... and written by id.
ApplyPrices(c) ==
  /\ In(c, "pricing", "locked")
  /\ QuoteRowFree(calls[c].quote)
  /\ \E p \in Prices : quotes' = [quotes EXCEPT ![calls[c].quote].price = p]
  /\ End(c)
  /\ UNCHANGED <<files, requests, lead, deals, crashes, scenario>>

\* updateCommercialTerms, also called by finalize: checked, then written by id.
StartTerms(c, q) ==
  /\ Mutable(q)
  /\ Begin(c, [handler |-> "terms", phase |-> "read", quote |-> q])
  /\ UNCHANGED <<quotes, files, requests, lead, deals, crashes, scenario>>

UpdateTerms(c) ==
  /\ In(c, "terms", "read")
  /\ QuoteRowFree(calls[c].quote)
  /\ \E t \in scenario.terms : quotes' = [quotes EXCEPT ![calls[c].quote].terms = t]
  /\ End(c)
  /\ UNCHANGED <<files, requests, lead, deals, crashes, scenario>>

\* assertExplicitApprovedPricing.
PriceApproved(q) == quotes[q].price # 0

\* finalize: under its advisory lock the quote is read again ...
StartFinalize(c, q) ==
  /\ Mutable(q)
  /\ PriceApproved(q)
  /\ LockFree("finalize", {"locked", "stored"}, q)
  /\ Begin(c, [handler |-> "finalize", phase |-> "locked", quote |-> q,
               file |-> NoFile, created |-> FALSE])
  /\ UNCHANGED <<quotes, files, requests, lead, deals, crashes, scenario>>

\* ... persistFinalPdf reads it once more, outside of the transaction, and
\* stores its document unless it has one.
PersistFinalPdf(c) ==
  LET q == calls[c].quote
      next == IF In(c, "finalize", "locked") THEN "stored" ELSE "failed"
      made(f, new) == calls' = [calls EXCEPT ![c] =
                        [@ EXCEPT !.phase = next, !.file = f, !.created = new]]
  IN  /\ In(c, "finalize", "locked") \/ In(c, "finalize", "timedOut")
      /\ \/ /\ Finalized(q)
            /\ made(quotes[q].file, FALSE)
            /\ UNCHANGED files
         \/ /\ ~ Finalized(q)
            /\ \E f \in NewFiles :
                 /\ files' = [files EXCEPT ![f] = [quote |-> q, price |-> quotes[q].price,
                                                   terms |-> quotes[q].terms]]
                 /\ made(f, TRUE)
      /\ UNCHANGED <<quotes, requests, lead, deals, crashes, scenario>>

\* The UPDATE and the commit; the caller may not learn that it was committed.
FinalizeQuote(c, learnt) ==
  LET q == calls[c].quote
  IN  /\ In(c, "finalize", "stored")
      /\ QuoteRowFree(q)
      /\ Mutable(q)
      /\ quotes' = [quotes EXCEPT ![q].file = calls[c].file]
      /\ requests' = [requests EXCEPT ![quotes[q].request] = "quoted"]
      /\ IF learnt THEN End(c) ELSE calls' = [calls EXCEPT ![c].phase = "failed"]
      /\ UNCHANGED <<files, lead, deals, crashes, scenario>>

\* The transaction is rolled back and its lock is gone, after 30 seconds or by
\* an error; the document may still be on its way.
RollBack(c) ==
  /\ \/ In(c, "finalize", "locked") /\ calls' = [calls EXCEPT ![c].phase = "timedOut"]
     \/ In(c, "finalize", "stored") /\ calls' = [calls EXCEPT ![c].phase = "failed"]
  /\ UNCHANGED <<quotes, files, requests, lead, deals, crashes, scenario>>

\* Faulty variant: the document goes although the quote may have it.
AnyDocument(f) == TRUE

Unreferenced(f) == \A q \in Quotes : quotes[q].file # f

\* cleanupUncommittedFinalPdf.
WithoutUncommitted(c) ==
  LET f == calls[c].file
  IN  IF calls[c].created /\ Unreferenced(f) THEN [files EXCEPT ![f] = NoDocument] ELSE files

CleanUp(c) ==
  /\ In(c, "finalize", "failed")
  /\ files' = WithoutUncommitted(c)
  /\ End(c)
  /\ UNCHANGED <<quotes, requests, lead, deals, crashes, scenario>>

\* The process dies, or the clean-up fails.
Crash(c) ==
  /\ crashes < scenario.crashes
  /\ In(c, "finalize", "stored") \/ In(c, "finalize", "failed")
  /\ crashes' = crashes + 1
  /\ End(c)
  /\ UNCHANGED <<quotes, files, requests, lead, deals, scenario>>

-----------------------------------------------------------------------------
\* createNextVersion copies what it has read of a finalized quote.
StartNextVersion(c, q) ==
  /\ Finalized(q)
  /\ Begin(c, [handler |-> "version", phase |-> "read", quote |-> q, row |-> quotes[q]])
  /\ UNCHANGED <<quotes, files, requests, lead, deals, crashes, scenario>>

\* Faulty variant: nobody looks for a version that is there.
NoSuccessor(q) == {}

Successors(q) == {s \in Existing : quotes[s].previous = q}

\* The prices of the next version: those of the source are kept, or its lines are
\* taken from the request again and are to be approved.
NextPrices(row) == {row.price, 0}

\* The row of the version after q: a draft, without what q went through.
VersionAfter(row, q, price) ==
  [row EXCEPT !.status = "draft", !.version = @ + 1, !.previous = q, !.price = price,
              !.file = NoFile, !.accepted = FALSE]

\* Under its advisory lock, it returns the next version that is there.
CreateNextVersion(c) ==
  LET row == calls[c].row
  IN  /\ In(c, "version", "read")
      /\ \/ /\ Successors(calls[c].quote) # {}
            /\ UNCHANGED quotes
         \/ /\ Successors(calls[c].quote) = {}
            /\ \E q \in NewQuotes, price \in NextPrices(row) :
                 quotes' = [quotes EXCEPT ![q] = VersionAfter(row, calls[c].quote, price)]
      /\ End(c)
      /\ UNCHANGED <<files, requests, lead, deals, crashes, scenario>>

\* updateStatus; whether the quote is still valid on the day it is sent is left
\* open.
StartUpdateStatus(c, q, status) ==
  /\ quotes[q].status # "NONE"
  /\ status \in Transitions[quotes[q].status] \ {"converted"}
  /\ status \in {"sent", "approved"} => Finalized(q)
  /\ Begin(c, [handler |-> "status", phase |-> "read", quote |-> q,
               seen |-> quotes[q].status, status |-> status])
  /\ UNCHANGED <<quotes, files, requests, lead, deals, crashes, scenario>>

\* Faulty variant: the UPDATE has no condition on the status.
AnyStatus(c) == TRUE

\* The WHERE clause of the UPDATE.
StillSeen(c) == quotes[calls[c].quote].status = calls[c].seen

\* An approval writes the row of the lead before the quote.
UpdateStatus(c) ==
  LET call == calls[c]
  IN  /\ In(c, "status", "read")
      /\ QuoteRowFree(call.quote)
      /\ call.status = "approved" => LeadRowFree
      /\ quotes' = IF StillSeen(c)
                   THEN [quotes EXCEPT ![call.quote].status = call.status]
                   ELSE quotes
      /\ End(c)
      /\ UNCHANGED <<files, requests, lead, deals, crashes, scenario>>

-----------------------------------------------------------------------------
Acceptable(q) ==
  /\ quotes[q].status \in {"approved", "converted"}
  /\ Finalized(q)
  /\ ~ quotes[q].accepted

\* Faulty variant: the active handoff is left as it is.
StillActive(handoffs) == handoffs

Superseded(handoffs) ==
  [k \in DOMAIN handoffs |-> [handoffs[k] EXCEPT !.status = "SUPERSEDED"]]

HandedOff(handoffs, q) == \E k \in DOMAIN handoffs : handoffs[k].quote = q

\* createExecutionHandoff, with the deal locked: the revision is the position.
WithHandoff(handoffs, q) ==
  IF HandedOff(handoffs, q)
  THEN handoffs
  ELSE Append(Superseded(handoffs), [quote |-> q, status |-> "ACTIVE"])

\* quote.dealId ?? lead.dealId.
DealOr(deal) == IF deal # NoDeal THEN deal ELSE lead.deal

\* recordClientAcceptance: its transaction claims the quote and reads the deal ...
StartAccept(c, q) ==
  /\ Acceptable(q)
  /\ Begin(c, [handler |-> "accept", phase |-> "read", quote |-> q, deal |-> quotes[q].deal,
               stage |-> "NONE"])
  /\ UNCHANGED <<quotes, files, requests, lead, deals, crashes, scenario>>

ClaimAcceptance(c) ==
  LET call == calls[c]
      d == DealOr(call.deal)
  IN  /\ In(c, "accept", "read")
      /\ QuoteRowFree(call.quote)
      /\ IF d # NoDeal /\ Acceptable(call.quote)
         THEN calls' = [calls EXCEPT ![c] = [@ EXCEPT !.phase = "claimed", !.deal = d,
                                                      !.stage = deals[d].stage]]
         ELSE End(c)
      /\ UNCHANGED <<quotes, files, requests, lead, deals, crashes, scenario>>

\* ... and then advances the deal by what it has read, converts the lead and
\* makes the handoff.
Accept(c) ==
  LET call == calls[c]
      d == call.deal
  IN  /\ In(c, "accept", "claimed")
      /\ LeadRowFree
      /\ quotes' = [quotes EXCEPT ![call.quote].accepted = TRUE, ![call.quote].deal = d]
      /\ deals' = [deals EXCEPT
           ![d].stage    = IF call.stage = "EARLY" THEN "AGREED" ELSE @,
           ![d].handoffs = WithHandoff(@, call.quote)]
      /\ lead' = IF lead.deal = d THEN [lead EXCEPT !.status = "CONVERTED"] ELSE lead
      /\ End(c)
      /\ UNCHANGED <<files, requests, crashes, scenario>>

\* ensureAcceptedQuoteHandoff: accepting an accepted quote again.
RepairHandoff(q) ==
  LET d == DealOr(quotes[q].deal)
  IN  /\ "repair" \in scenario.handlers
      /\ quotes[q].accepted
      /\ d # NoDeal
      /\ ~ HandedOff(deals[d].handoffs, q)
      /\ deals' = [deals EXCEPT ![d].handoffs = WithHandoff(@, q)]
      /\ UNCHANGED <<quotes, files, requests, lead, calls, crashes, scenario>>

-----------------------------------------------------------------------------
\* convertToDeal.
StartConvert(c, q) ==
  /\ quotes[q].status = "approved"
  /\ Finalized(q)
  /\ PriceApproved(q)
  /\ lead.status \in {"QUALIFIED", "CONVERTED"}
  /\ lead.stockOnly => quotes[q].accepted
  /\ Begin(c, [handler |-> "convert", phase |-> "read", quote |-> q, deal |-> lead.deal])
  /\ UNCHANGED <<quotes, files, requests, lead, deals, crashes, scenario>>

\* Faulty variant: the lead is claimed whatever deal it has.
AnyLead(d) == lead.status \in {"QUALIFIED", "CONVERTED"}

ClaimsLead(d) ==
  lead.deal \in {d, NoDeal} /\ lead.status \in {"QUALIFIED", "CONVERTED"}

ClaimsQuote(q, d) == quotes[q].deal \in {d, NoDeal} /\ quotes[q].status = "approved"

\* dealId and version of an offer are unique; each conversion makes one.
VersionFree(d, version) ==
  \A k \in DOMAIN deals[d].lines : quotes[deals[d].lines[k]].version # version

\* What the transaction writes when nothing has undone it.
Converted(q, d, row) ==
  /\ deals' = [deals EXCEPT ![d] = [row EXCEPT !.lines = Append(@, q)]]
  /\ lead' = [lead EXCEPT !.deal = d, !.status = "CONVERTED"]
  /\ quotes' = [quotes EXCEPT ![q].status = "converted", ![q].deal = d]

\* DealFactory.createFromQuote adds the lines of the quote to the deal of the
\* lead, at any stage, or makes a deal; a claim that fails undoes it.
Convert(c) ==
  LET q == calls[c].quote
      succeeds(d) == VersionFree(d, quotes[q].version) /\ ClaimsLead(d) /\ ClaimsQuote(q, d)
  IN  /\ In(c, "convert", "read")
      /\ LeadRowFree
      /\ QuoteRowFree(q)
      /\ LET d == calls[c].deal IN
           \/ d # NoDeal /\ succeeds(d) /\ Converted(q, d, deals[d])
           \/ d = NoDeal /\ \E new \in FirstOf(FreeDeals) : succeeds(new) /\ Converted(q, new, NewDealRow)
      /\ End(c)
      /\ UNCHANGED <<files, requests, crashes, scenario>>

\* A call that fails before it has written anything that stays.
Fail(c) ==
  /\ calls[c] # Idle
  /\ calls[c].handler = "finalize" => calls[c].phase \in {"locked", "timedOut"}
  /\ End(c)
  /\ UNCHANGED <<quotes, files, requests, lead, deals, crashes, scenario>>

-----------------------------------------------------------------------------
\* LeadsService and LeadQualificationService.
LeadStep == "lead" \in scenario.handlers /\ UNCHANGED <<quotes, files, requests, crashes, scenario>>

\* The qualification of a lead makes its deal, and may set the stock choice.
Qualify ==
  /\ lead.status = "IN_PROGRESS"
  /\ lead.deal = NoDeal
  /\ LeadRowFree
  /\ \E d \in FirstOf(FreeDeals), stockOnly \in BOOLEAN :
       /\ deals' = [deals EXCEPT ![d] = NewDealRow]
       /\ lead' = [lead EXCEPT !.status = "QUALIFIED", !.deal = d, !.stockOnly = stockOnly]
  /\ UNCHANGED calls
  /\ LeadStep

LoseLead ==
  /\ lead.status \notin {"CONVERTED", "LOST"}
  /\ ~ lead.lost
  /\ LeadRowFree
  /\ lead' = [lead EXCEPT !.status = "LOST", !.lost = TRUE]
  /\ UNCHANGED <<deals, calls>>
  /\ LeadStep

\* disqualify is checked and then written by id.
StartDisqualify(c) ==
  /\ lead.status # "LOST"
  /\ Begin(c, [handler |-> "disqualify", phase |-> "read", quote |-> NoQuote])
  /\ UNCHANGED <<quotes, files, requests, lead, deals, crashes, scenario>>

Disqualify(c) ==
  /\ In(c, "disqualify", "read")
  /\ LeadRowFree
  /\ lead' = [lead EXCEPT !.status = "UNQUALIFIED"]
  /\ End(c)
  /\ UNCHANGED <<quotes, files, requests, deals, crashes, scenario>>

\* upsert of the qualification: the row of the lead is locked, then
\* assertFulfillmentFieldsMutable looks for a quote that binds.
Committed(q) == quotes[q].status \in {"approved", "converted"} \/ quotes[q].accepted

StartQualification(c) ==
  /\ lead.status # "LOST"
  /\ Begin(c, [handler |-> "qualification", phase |-> "read", quote |-> NoQuote])
  /\ UNCHANGED <<quotes, files, requests, lead, deals, crashes, scenario>>

CheckQualification(c) ==
  /\ In(c, "qualification", "read")
  /\ LeadRowFree
  /\ lead.status # "CONVERTED"
  /\ \A q \in Quotes : ~ Committed(q)
  /\ calls' = [calls EXCEPT ![c].phase = "checked"]
  /\ UNCHANGED <<quotes, files, requests, lead, deals, crashes, scenario>>

WriteQualification(c) ==
  /\ In(c, "qualification", "checked")
  /\ \E stockOnly \in BOOLEAN : lead' = [lead EXCEPT !.stockOnly = stockOnly]
  /\ End(c)
  /\ UNCHANGED <<quotes, files, requests, deals, crashes, scenario>>

-----------------------------------------------------------------------------
\* DealsService.changeStage, with its exceptions, and DealLossService.lose.
DealStep == "deal" \in scenario.handlers /\ UNCHANGED <<quotes, files, requests, lead, calls, crashes, scenario>>

ChangeStage(d, stage) ==
  /\ <<deals[d].stage, stage>> \in StageMoves
  /\ deals' = [deals EXCEPT ![d].stage = stage]
  /\ DealStep

LoseDeal(d) ==
  /\ deals[d].stage \in {"EARLY", "AGREED"}
  /\ ~ deals[d].lost
  /\ deals' = [deals EXCEPT ![d].stage = "LOST", ![d].lost = TRUE]
  /\ DealStep

-----------------------------------------------------------------------------
StartCall(c, q) ==
  \/ StartPricing(c, q)
  \/ StartTerms(c, q)
  \/ StartFinalize(c, q)
  \/ StartNextVersion(c, q)
  \/ \E status \in Statuses : StartUpdateStatus(c, q, status)
  \/ StartAccept(c, q)
  \/ StartConvert(c, q)

GoOn(c) ==
  \/ ApplyPrices(c)
  \/ UpdateTerms(c)
  \/ PersistFinalPdf(c)
  \/ \E learnt \in BOOLEAN : FinalizeQuote(c, learnt)
  \/ RollBack(c)
  \/ CleanUp(c)
  \/ Crash(c)
  \/ CreateNextVersion(c)
  \/ UpdateStatus(c)
  \/ ClaimAcceptance(c)
  \/ Accept(c)
  \/ Convert(c)
  \/ StartDisqualify(c)
  \/ Disqualify(c)
  \/ StartQualification(c)
  \/ CheckQualification(c)
  \/ WriteQualification(c)
  \/ Fail(c)

Next ==
  \/ \E r \in Requests : Create(r)
  \/ \E c \in Callers : GoOn(c) \/ \E q \in Quotes : StartCall(c, q)
  \/ \E q \in Quotes : RepairHandoff(q)
  \/ Qualify
  \/ LoseLead
  \/ \E d \in Deals : LoseDeal(d) \/ \E stage \in Stages : ChangeStage(d, stage)

Spec == Init /\ [][Next]_vars

-----------------------------------------------------------------------------
\* Whatever left the house has its document: no clean-up of an attempt that
\* failed, timed out or did not learn of its commit takes the document away.
FinalizedHasDocument ==
  \A q \in Quotes :
    /\ quotes[q].status \notin {"NONE", "draft"} => Finalized(q)
    /\ Finalized(q) => files[quotes[q].file].quote = q

\* Of the attempts to finalize a quote, those that lose leave no document, in
\* any order of time-outs, commits and clean-ups, except when a process dies.
NoOrphanDocuments ==
  Cardinality({f \in Stored :
    Unreferenced(f) /\ \A c \in Callers : calls[c].handler = "finalize" => calls[c].file # f})
    <= crashes

\* Documents and quotes refer to each other: none is missing, none is left over.
DocumentsMatch == FinalizedHasDocument /\ NoOrphanDocuments

\* The quotes of a request are versions 1..n, each made from the one before
\* after that was finalized, also when two callers ask for the next version.
VersionsFormAChain ==
  \A r \in Requests :
    LET chain == {q \in Existing : quotes[q].request = r}
    IN  /\ {quotes[q].version : q \in chain} = 1..Cardinality(chain)
        /\ \A q \in chain :
             LET p == quotes[q].previous
             IN  IF quotes[q].version = 1 THEN p = NoQuote
                 ELSE p \in chain /\ Finalized(p) /\ quotes[p].version = quotes[q].version - 1

\* Two calls that decided on the same old status cannot both win, a finalized
\* quote keeps its document, and an acceptance stands.
NothingIsTakenBack ==
  [][\A q \in Existing :
       LET old == quotes[q]
           new == quotes'[q]
       IN  /\ new.status # old.status => new.status \in Transitions[old.status]
           /\ old.file # NoFile => new.file = old.file
           /\ old.accepted => new.accepted
           /\ old.deal # NoDeal => new.deal = old.deal]_quotes

\* The execution of a deal has one basis: of its handoffs the last is active
\* and no other, each is of another accepted quote of the deal, and no accepted
\* quote is without, however acceptances and conversions of versions overlap.
OneExecutionBasis ==
  /\ \A d \in Deals :
       LET handoffs == deals[d].handoffs
       IN  \A k \in DOMAIN handoffs :
             /\ handoffs[k].status = "ACTIVE" <=> k = Len(handoffs)
             /\ \A j \in DOMAIN handoffs : handoffs[j].quote = handoffs[k].quote => j = k
             /\ quotes[handoffs[k].quote].accepted
             /\ quotes[handoffs[k].quote].deal = d
             /\ quotes[handoffs[k].quote].status \in {"approved", "converted"}
  /\ "repair" \notin scenario.handlers =>
       \A q \in Existing : quotes[q].accepted => HandedOff(deals[quotes[q].deal].handoffs, q)

\* One deal comes out of a lead, and the lines of each converted quote are in
\* it once, although two callers may convert before there is a deal.
ConvertedTogether ==
  /\ \A d \in Deals \ FreeDeals : d = lead.deal
  /\ \A q \in Existing : quotes[q].status = "converted" =>
       /\ quotes[q].deal = lead.deal
       /\ Cardinality({k \in DOMAIN deals[lead.deal].lines : deals[lead.deal].lines[k] = q}) = 1
  /\ \A d \in Deals : \A k \in DOMAIN deals[d].lines :
       quotes[deals[d].lines[k]].status = "converted"

\* Once a quote is approved, whether the qualified lead is served from stock is
\* settled, although the approval and the qualification check each other.
StockChoiceSettled ==
  [][(\E q \in Quotes : Committed(q)) /\ lead.status # "IN_PROGRESS" =>
       lead'.stockOnly = lead.stockOnly]_lead
=============================================================================
