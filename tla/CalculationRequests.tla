------------------------ MODULE CalculationRequests ------------------------
(***************************************************************************)
(* From a lead that is qualified to the quote of its calculation:           *)
(* LeadsService.qualify, LeadCommercialQualificationService,                *)
(* CalculationRequestService, CalculationService, the first version of a    *)
(* quote in QuotesService, and the currency rates calculations are made     *)
(* with.                                                                    *)
(*                                                                          *)
(* A call reads and decides first and runs a transaction later; calls[c] is *)
(* what caller c has read and how far it is.  A transaction that replaces   *)
(* rows deletes those it can see by then (gone) and adds its own, and       *)
(* commits both at once: rows that another transaction adds in between      *)
(* stay.  Until then it has the deleted rows locked.  Fail is an error of   *)
(* the database, the loss of a connection or a victim of a deadlock.        *)
(*                                                                          *)
(* The items of a calculation are one value; the total is the value it was  *)
(* computed from.  Times of decisions count the decisions.                  *)
(***************************************************************************)
EXTENDS LinePricing, FiniteSets

CONSTANTS
  Requests,      \* calculation requests the lead may get
  MaxSessions,   \* bound: calculations made
  Callers,       \* bound: calls that are under way
  Items,         \* lists of items somebody may enter
  Lines,         \* lines somebody may ask the price of
  Qualification, \* the line the qualification of the lead describes
  TablePrice,    \* PanelThicknessPricing of those lines, in CNY; 0 for none
  RateValues,    \* rates of exchange
  Suppliers,     \* supplier and quality of a commercial decision
  LastDay,       \* bound: days are 0..LastDay
  Scenarios,     \* bound: what is explored together; the handlers, the numbers of
                 \* requests, sessions, decisions, rates and calls, and the leads at the start
  NoRequest, NoItems, NoSupplier, NoPreview

Sessions == 1..MaxSessions
Days == 0..LastDay
Never == LastDay + 1   \* effectiveTo = null

\* An item as it is entered: sizes are of the catalog, an area is not negative.
Item ==
  [type : STRING, size : {NoSize} \cup [width : Nat \ {0}, height : Nat \ {0}],
   thickness : STRING, area : Nat, color : STRING, described : BOOLEAN, mapped : BOOLEAN,
   price : Nat]

ASSUME CalculationAssumption ==
  /\ MaxSessions \in Nat /\ LastDay \in Nat
  /\ NoRequest \notin Requests
  /\ NoItems \notin Items
  /\ NoSupplier \notin Suppliers
  /\ Lines \subseteq Item /\ Qualification \in Item
  /\ TablePrice \in Nat /\ RateValues \subseteq Nat
  /\ \A x \in Scenarios : x.leads \subseteq {"IN_PROGRESS", "QUALIFIED"} /\ x.sessions \in Nat

VARIABLES
  lead,       \* status, deals made of it, its handoff tasks to the head
  decision,   \* the commercial decision: supplier, and when it was confirmed
  requests,   \* requests[r]: status, who made it, announcements of its submission
  sessions,   \* sessions[s]: the calculation s
  quotes,     \* first versions of quotes, and their later ones as one flag
  rates,      \* CNY to USD: rows with the days they are effective
  preview,    \* the last answer to a question for a price
  today,
  calls,      \* calls[c]: the call of c that is under way
  scenario    \* the bounds of this behaviour

vars == <<lead, decision, requests, sessions, quotes, rates, preview, today, calls, scenario>>

-----------------------------------------------------------------------------
NoRow == [status |-> "NONE", automatic |-> FALSE, announced |-> 0]
NoSession == [status |-> "NONE", request |-> NoRequest, deleted |-> FALSE,
              items |-> {}, total |-> NoItems, basis |-> 0]

Made == {s \in Sessions : sessions[s].status # "NONE"}
Rows == {s \in Made : sessions[s].status # "GONE"}
Existing == {r \in Requests : requests[r].status # "NONE"}

\* Of the identifiers that are free, the next n.
NextSessions(n) ==
  {s \in Sessions : Cardinality(Made) < s /\ s <= Cardinality(Made) + n /\ s <= scenario.sessions}
Room(n) == Cardinality(Made) + n <= scenario.sessions
NewRequests ==
  IF Existing # Requests /\ Cardinality(Existing) < scenario.requests /\ Room(1)
  THEN {CHOOSE r \in Requests \ Existing : TRUE} ELSE {}

\* The calculations of a request that its own queries and those of a quote see.
Calculations(r) == {s \in Rows : sessions[s].request = r /\ ~ sessions[s].deleted}

QuotesOf(r) == {q \in quotes : q.request = r}

-----------------------------------------------------------------------------
Idle == [handler |-> "none"]

Begin(c, call) ==
  /\ call.handler \in scenario.handlers
  /\ calls[c] = Idle
  /\ Cardinality({x \in Callers : calls[x] # Idle}) < scenario.callers
  /\ calls' = [calls EXCEPT ![c] = call]

Go(c, call) == calls' = [calls EXCEPT ![c] = call]
End(c) == Go(c, Idle)

In(c, handler, phase) == calls[c].handler = handler /\ calls[c].phase = phase

\* Rows the transactions under way have deleted, and so locked.
Locked == UNION {calls[c].gone : c \in {x \in Callers : calls[x] # Idle /\ calls[x].phase = "deleted"}}

Fail(c) ==
  /\ calls[c] # Idle
  /\ End(c)
  /\ UNCHANGED <<lead, decision, requests, sessions, quotes, rates, preview, today, scenario>>

-----------------------------------------------------------------------------
\* A lead of today, or one that was qualified when that made no request.
Init ==
  /\ scenario \in Scenarios
  /\ \E status \in scenario.leads :
       lead = [status |-> status, deals |-> IF status = "QUALIFIED" THEN 1 ELSE 0,
               open |-> 0, closed |-> 0]
  /\ decision = [supplier |-> NoSupplier, at |-> 0]
  /\ requests = [r \in Requests |-> NoRow]
  /\ sessions = [s \in Sessions |-> NoSession]
  /\ quotes = {}
  /\ rates = {}
  /\ preview = NoPreview
  /\ today = 0
  /\ calls = [c \in Callers |-> Idle]

-----------------------------------------------------------------------------
\* qualify: a lead that is qualified already is only given its request.
StartQualify(c) ==
  /\ lead.status \in {"IN_PROGRESS", "QUALIFIED"}
  /\ Begin(c, [handler |-> "qualify",
               phase   |-> IF lead.status = "QUALIFIED" THEN "finish" ELSE "read"])
  /\ UNCHANGED <<lead, decision, requests, sessions, quotes, rates, preview, today, scenario>>

\* Faulty variant: nobody waits for the lock.
NoLock == TRUE

\* The UPDATE that claims the lead waits for one that has claimed it, the
\* advisory lock of the lead for one that has looked for a request.
Claimable == lead.status = "IN_PROGRESS"
LockFree == ~ \E c \in Callers : In(c, "qualify", "claimed") \/ In(c, "qualify", "checked")

\* The claim and, in the same transaction, syncFromQualificationInTx; one that
\* comes too late sees what became of the lead (resolveLostQualifyClaim).
ClaimQualify(c) ==
  /\ In(c, "qualify", "read")
  /\ LockFree
  /\ \/ Claimable /\ Go(c, [calls[c] EXCEPT !.phase = "claimed"])
     \/ ~ Claimable /\ lead.status = "QUALIFIED" /\ Go(c, [calls[c] EXCEPT !.phase = "finish"])
     \/ ~ Claimable /\ lead.status # "QUALIFIED" /\ End(c)
  /\ UNCHANGED <<lead, decision, requests, sessions, quotes, rates, preview, today, scenario>>

\* finishQualifiedLead: under the lock, is there a request?
FinishQualified(c) ==
  /\ In(c, "qualify", "finish")
  /\ LockFree
  /\ IF Existing = {} THEN Go(c, [calls[c] EXCEPT !.phase = "checked"]) ELSE End(c)
  /\ UNCHANGED <<lead, decision, requests, sessions, quotes, rates, preview, today, scenario>>

\* createQualificationSession: one draft of the items the qualification names.
QualificationSession(r, i) ==
  [NoSession EXCEPT !.status = "draft", !.request = r, !.items = {i}, !.total = i]

\* The automatic request, a draft with that one calculation.
CreateAutomatic ==
  \E r \in NewRequests, i \in Items : \E s \in NextSessions(1) :
    /\ requests' = [requests EXCEPT ![r] =
         [NoRow EXCEPT !.status = "draft", !.automatic = TRUE]]
    /\ sessions' = [sessions EXCEPT ![s] = QualificationSession(r, i)]

\* The transaction of qualify commits: the deal, the task of the head, the
\* request unless a user has made one by the time it looked.
CommitQualify(c) ==
  /\ \/ /\ In(c, "qualify", "claimed")
        /\ lead' = [lead EXCEPT !.status = "QUALIFIED", !.deals = @ + 1, !.open = @ + 1]
     \/ /\ In(c, "qualify", "checked")
        /\ UNCHANGED lead
  /\ \/ CreateAutomatic
     \/ /\ In(c, "qualify", "claimed")
        /\ Existing # {}
        /\ UNCHANGED <<requests, sessions>>
  /\ End(c)
  /\ UNCHANGED <<decision, quotes, rates, preview, today, scenario>>

\* confirm: the lead is read again in the transaction.  A decision that is the
\* same keeps its time; the first one closes the task of the head.
ConfirmDecision(supplier) ==
  /\ "confirm" \in scenario.handlers
  /\ lead.status = "QUALIFIED"
  /\ supplier # decision.supplier
  /\ decision.at < scenario.decisions
  /\ decision' = [supplier |-> supplier, at |-> decision.at + 1]
  /\ lead' = IF decision.at = 0 THEN [lead EXCEPT !.closed = @ + lead.open, !.open = 0] ELSE lead
  /\ UNCHANGED <<requests, sessions, quotes, rates, preview, today, calls, scenario>>

\* lose, disqualify and the conversion, as far as they end what goes on here.
CloseLead(status) ==
  /\ "close" \in scenario.handlers
  /\ lead.status \in {"IN_PROGRESS", "QUALIFIED"}
  /\ status = "CONVERTED" => lead.status = "QUALIFIED"
  /\ LockFree
  /\ lead' = [lead EXCEPT !.status = status]
  /\ UNCHANGED <<decision, requests, sessions, quotes, rates, preview, today, calls, scenario>>

-----------------------------------------------------------------------------
\* guardLeadForCalculationRequest and guardLeadForHplCalculation.
Requestable == lead.status \in {"IN_PROGRESS", "QUALIFIED"}
Calculable == lead.status = "QUALIFIED" /\ decision.at > 0

\* create of a request: one or two groups, a calculation for each.
StartCreateRequest(c) ==
  /\ Requestable
  /\ \E i \in Items, n \in 1..2 :
       Begin(c, [handler |-> "request", phase |-> "read", items |-> i, groups |-> n])
  /\ UNCHANGED <<lead, decision, requests, sessions, quotes, rates, preview, today, scenario>>

\* The calculations a request gets, of items i.
WithGroups(rows, r, i, n, status) ==
  [s \in Sessions |-> IF s \in NextSessions(n)
                      THEN [NoSession EXCEPT !.status = status, !.request = r,
                                             !.items = {i}, !.total = i]
                      ELSE rows[s]]

CreateRequest(c) ==
  /\ In(c, "request", "read")
  /\ Room(calls[c].groups)
  /\ \E r \in NewRequests :
       /\ requests' = [requests EXCEPT ![r].status = "draft"]
       /\ sessions' = WithGroups(sessions, r, calls[c].items, calls[c].groups, "draft")
  /\ End(c)
  /\ UNCHANGED <<lead, decision, quotes, rates, preview, today, scenario>>

\* What a user may do with a request of this status: a manager edits a draft,
\* the head one that was submitted, or corrects one whose quote is final.
EditOf(r) ==
  CASE requests[r].status = "draft" -> "draft"
    [] requests[r].status \in {"submitted", "processing"} -> "review"
    [] requests[r].status = "quoted" /\ (\E q \in QuotesOf(r) : q.final) -> "revision"
    [] OTHER -> "none"

StartUpdateRequest(c, r) ==
  /\ Requestable
  /\ EditOf(r) # "none"
  /\ \E i \in Items, n \in 1..2 :
       Begin(c, [handler |-> "edit", phase |-> "read", request |-> r, edit |-> EditOf(r),
                 items |-> i, groups |-> n, gone |-> {}])
  /\ UNCHANGED <<lead, decision, requests, sessions, quotes, rates, preview, today, scenario>>

\* Faulty variant: the foreign key of a quote lets its calculation go.
CascadeDelete(s) == TRUE

\* calculationId of a quote: ON DELETE RESTRICT.
Deletable(s) == \A q \in quotes : q.session # s

\* The calculations of the request are marked as deleted, or deleted, which a
\* quote of one of them forbids.
DeleteGroups(c) ==
  LET r == calls[c].request
      visible == IF calls[c].edit = "revision" THEN Calculations(r)
                 ELSE {s \in Rows : sessions[s].request = r}
  IN  /\ In(c, "edit", "read")
      /\ IF calls[c].edit = "revision" \/ \A s \in visible : Deletable(s)
         THEN Go(c, [calls[c] EXCEPT !.phase = "deleted", !.gone = visible])
         ELSE End(c)
      /\ UNCHANGED <<lead, decision, requests, sessions, quotes, rates, preview, today, scenario>>

\* ... and the new ones are added, final unless the request was read as a draft.
\* Rows that another edit has deleted are waited for and not there any more.
WriteGroups(c) ==
  LET call == calls[c]
      without == [s \in Sessions |->
                    IF s \notin call.gone THEN sessions[s]
                    ELSE IF call.edit = "revision" THEN [sessions[s] EXCEPT !.deleted = TRUE]
                    ELSE [NoSession EXCEPT !.status = "GONE"]]
  IN  /\ In(c, "edit", "deleted")
      /\ Room(call.groups)
      /\ sessions' = WithGroups(without, call.request, call.items, call.groups,
                                IF call.edit = "draft" THEN "draft" ELSE "finalized")
      /\ End(c)
      /\ UNCHANGED <<lead, decision, requests, quotes, rates, preview, today, scenario>>

\* submit.
StartSubmit(c, r) ==
  /\ requests[r].status = "draft"
  /\ Calculations(r) # {}
  /\ Begin(c, [handler |-> "submit", phase |-> "read", request |-> r])
  /\ UNCHANGED <<lead, decision, requests, sessions, quotes, rates, preview, today, scenario>>

\* Faulty variant: the UPDATE goes by the id only.
AnyStatus(r) == TRUE

\* The WHERE clause of the UPDATE that claims the submission.
StillDraft(r) == requests[r].status = "draft"

ClaimSubmission(c) ==
  LET r == calls[c].request
  IN  /\ In(c, "submit", "read")
      /\ Calculations(r) \cap Locked = {}
      /\ \/ /\ StillDraft(r)
            /\ requests' = [requests EXCEPT ![r].status = "submitted"]
            /\ sessions' = [s \in Sessions |->
                 IF s \in Calculations(r) THEN [sessions[s] EXCEPT !.status = "finalized"]
                 ELSE sessions[s]]
            /\ Go(c, [calls[c] EXCEPT !.phase = "announce"])
         \/ /\ ~ StillDraft(r)
            /\ End(c)
            /\ UNCHANGED <<requests, sessions>>
      /\ UNCHANGED <<lead, decision, quotes, rates, preview, today, scenario>>

\* notifyRequestSubmittedSafe, after the commit: it may get lost.
Announce(c) ==
  /\ In(c, "submit", "announce")
  /\ requests' = [requests EXCEPT ![calls[c].request].announced = @ + 1]
  /\ End(c)
  /\ UNCHANGED <<lead, decision, sessions, quotes, rates, preview, today, scenario>>

-----------------------------------------------------------------------------
\* getActiveCnyUsdRate: of the rates effective at a time, the latest.
Effective(at) == {x \in rates : x.from <= at /\ at < x.to}
HasRate(at) == Effective(at) # {}
RateAt(at) == (CHOOSE x \in Effective(at) : \A y \in Effective(at) : y.from <= x.from).value

\* create of a direct calculation.
StartCalculate(c) ==
  /\ Calculable
  /\ HasRate(today)
  /\ \E i \in Items :
       Begin(c, [handler |-> "calculate", phase |-> "read", items |-> i, basis |-> decision.at])
  /\ UNCHANGED <<lead, decision, requests, sessions, quotes, rates, preview, today, scenario>>

Calculate(c) ==
  /\ In(c, "calculate", "read")
  /\ \E s \in NextSessions(1) :
       sessions' = [sessions EXCEPT ![s] =
         [NoSession EXCEPT !.status = "draft", !.items = {calls[c].items},
                           !.total = calls[c].items, !.basis = calls[c].basis]]
  /\ End(c)
  /\ UNCHANGED <<lead, decision, requests, quotes, rates, preview, today, scenario>>

\* assertDraft and assertRequestMutable.
Changeable(s) ==
  /\ sessions[s].status = "draft" /\ ~ sessions[s].deleted
  /\ sessions[s].request # NoRequest => requests[sessions[s].request].status = "draft"

\* update, of the items or of the notes, with which it keeps the total it read.
StartUpdate(c, s) ==
  /\ Changeable(s)
  /\ \/ /\ Calculable
        /\ HasRate(today)
        /\ \E i \in Items :
             Begin(c, [handler |-> "update", phase |-> "read", session |-> s, items |-> i,
                       total |-> i, basis |-> decision.at, lines |-> {}])
     \/ Begin(c, [handler |-> "update", phase |-> "notes", session |-> s,
                  total |-> sessions[s].total])
  /\ UNCHANGED <<lead, decision, requests, sessions, quotes, rates, preview, today, scenario>>

DeleteLines(c) ==
  /\ In(c, "update", "read")
  /\ calls' = [calls EXCEPT ![c].phase = "emptied", ![c].lines = sessions[calls[c].session].items]
  /\ UNCHANGED <<lead, decision, requests, sessions, quotes, rates, preview, today, scenario>>

\* What an update leaves in the row of its calculation.
Updated(row, call) ==
  IF call.phase = "notes" THEN [row EXCEPT !.total = call.total]
  ELSE [row EXCEPT !.items = (@ \ call.lines) \cup {call.items}, !.total = call.total,
                   !.basis = call.basis]

WriteLines(c) ==
  LET call == calls[c]
  IN  /\ In(c, "update", "emptied") \/ In(c, "update", "notes")
      /\ call.session \in Rows \ Locked
      /\ sessions' = [sessions EXCEPT ![call.session] = Updated(@, call)]
      /\ End(c)
      /\ UNCHANGED <<lead, decision, requests, quotes, rates, preview, today, scenario>>

\* finalize looks at the calculation and then writes it by its id.
StartFinalize(c, s) ==
  /\ sessions[s].status = "draft" /\ ~ sessions[s].deleted
  /\ Begin(c, [handler |-> "finalize", phase |-> "read", session |-> s])
  /\ UNCHANGED <<lead, decision, requests, sessions, quotes, rates, preview, today, scenario>>

Finalize(c) ==
  /\ In(c, "finalize", "read")
  /\ calls[c].session \in Rows \ Locked
  /\ sessions' = [sessions EXCEPT ![calls[c].session].status = "finalized"]
  /\ End(c)
  /\ UNCHANGED <<lead, decision, requests, quotes, rates, preview, today, scenario>>

\* softDelete, at any status.
SoftDelete(s) ==
  /\ "delete" \in scenario.handlers
  /\ s \in Rows \ Locked
  /\ ~ sessions[s].deleted
  /\ sessions' = [sessions EXCEPT ![s].deleted = TRUE]
  /\ UNCHANGED <<lead, decision, requests, quotes, rates, preview, today, calls, scenario>>

-----------------------------------------------------------------------------
\* createFromCalculation: assertCalculationMatchesCurrentStage2 for a direct
\* calculation and for one of a request that was priced with a decision.
OfCurrentDecision(s) ==
  sessions[s].basis > 0 \/ sessions[s].request = NoRequest => sessions[s].basis = decision.at

Quotable(s) ==
  /\ sessions[s].status = "finalized" /\ ~ sessions[s].deleted
  /\ OfCurrentDecision(s)
  /\ \A q \in quotes : q.session # s
  /\ sessions[s].request # NoRequest => QuotesOf(sessions[s].request) = {}

StartQuote(c, s) ==
  /\ Quotable(s)
  /\ Begin(c, [handler |-> "quote", phase |-> "read", session |-> s,
               request |-> sessions[s].request])
  /\ UNCHANGED <<lead, decision, requests, sessions, quotes, rates, preview, today, scenario>>

\* createFromRequest takes the first calculation of a request that was submitted.
StartQuoteOfRequest(c, r) ==
  /\ requests[r].status \notin {"NONE", "draft"}
  /\ QuotesOf(r) = {}
  /\ Calculations(r) # {}
  /\ Begin(c, [handler |-> "quote", phase |-> "request", request |-> r,
               session |-> CHOOSE s \in Calculations(r) : \A t \in Calculations(r) : s <= t])
  /\ UNCHANGED <<lead, decision, requests, sessions, quotes, rates, preview, today, scenario>>

ReadCalculation(c) ==
  /\ In(c, "quote", "request")
  /\ IF Quotable(calls[c].session) THEN Go(c, [calls[c] EXCEPT !.phase = "read"]) ELSE End(c)
  /\ UNCHANGED <<lead, decision, requests, sessions, quotes, rates, preview, today, scenario>>

\* The row of the quote: calculationId is unique, requestId and versionNumber
\* are, and the calculation must be there.
CreateQuote(c) ==
  LET s == calls[c].session
      r == calls[c].request
  IN  /\ In(c, "quote", "read")
      /\ s \in Rows \ Locked
      /\ \A q \in quotes : q.session # s /\ (r # NoRequest => q.request # r)
      /\ quotes' = quotes \cup {[session |-> s, request |-> r, final |-> FALSE]}
      /\ requests' = IF r = NoRequest THEN requests
                     ELSE [requests EXCEPT ![r].status =
                             IF @ \in {"submitted", "processing"} THEN "processing" ELSE @]
      /\ End(c)
      /\ UNCHANGED <<lead, decision, sessions, rates, preview, today, scenario>>

\* What QuoteLifecycle does to a request: its quote is finalized; a next version
\* is made, which is not final.
FinalizeQuote(q) ==
  /\ "version" \in scenario.handlers
  /\ ~ q.final
  /\ quotes' = (quotes \ {q}) \cup {[q EXCEPT !.final = TRUE]}
  /\ requests' = IF q.request = NoRequest THEN requests
                 ELSE [requests EXCEPT ![q.request].status = "quoted"]
  /\ UNCHANGED <<lead, decision, sessions, rates, preview, today, calls, scenario>>

NextVersion(q) ==
  /\ "version" \in scenario.handlers
  /\ q.final
  /\ quotes' = (quotes \ {q}) \cup {[q EXCEPT !.final = FALSE]}
  /\ UNCHANGED <<lead, decision, requests, sessions, rates, preview, today, calls, scenario>>

-----------------------------------------------------------------------------
\* Faulty variant: the open rate ends now, not when the new one begins.
ClosedNow(from) ==
  {[x EXCEPT !.to = IF @ = Never THEN today ELSE @] : x \in rates}

\* The rates without an end get the beginning of the new one.
ClosedAt(from) ==
  {[x EXCEPT !.to = IF @ = Never THEN from ELSE @] : x \in rates}

\* preview: of a lead, with its commercial decision, or of the catalog.  Without
\* the price in the table the head gets the sheets only, a manager an error.
Preview(item, ofLead, head) ==
  LET line == IF ofLead THEN Filled(item, Qualification) ELSE item
  IN  /\ "preview" \in scenario.handlers
      /\ PriceEnteredBy(item, head)
      /\ ofLead => Calculable
      /\ ~ Refused(line, IF ofLead THEN Qualification.type ELSE "none")
      /\ \/ /\ item.price = 0 /\ head
            /\ preview' = [line |-> line, priced |-> FALSE, geometry |-> Geometry(line)]
         \/ /\ item.price > 0 \/ ~ head
            /\ SupplierPrice(item, TablePrice) > 0
            /\ HasRate(today)
            /\ preview' = [line |-> line, priced |-> TRUE, geometry |-> Geometry(line),
                           price |-> PriceGeometry(line, TablePrice, RateAt(today))]
      /\ UNCHANGED <<lead, decision, requests, sessions, quotes, rates, today, calls, scenario>>

\* previewPricing: a line that a quote of a request has taken, by a head, at the
\* rate of today or at the one that an earlier approval has frozen.
PreviewQuote(item) ==
  /\ "preview" \in scenario.handlers
  /\ ~ RefusedInQuote(item)
  /\ SupplierPrice(item, TablePrice) > 0
  /\ \E at \in 0..today :
       /\ HasRate(at)
       /\ preview' = [line |-> item, priced |-> TRUE,
                      geometry |-> [Geometry(item) EXCEPT !.sheets = QuoteLine(item).sheets],
                      price |-> QuotePrice(item, TablePrice, RateAt(at))]
  /\ UNCHANGED <<lead, decision, requests, sessions, quotes, rates, today, calls, scenario>>

\* createCnyUsdRate, under its advisory lock, from any day on; the first rate
\* comes with the installation of the system.
CreateRate(from, value) ==
  /\ "rate" \in scenario.handlers
  /\ Cardinality(rates) < scenario.rates
  /\ rates' = ClosedAt(from) \cup {[number |-> Cardinality(rates) + 1, value |-> value,
                                  from |-> from, to |-> Never]}
  /\ UNCHANGED <<lead, decision, requests, sessions, quotes, preview, today, calls, scenario>>

Tick ==
  /\ "tick" \in scenario.handlers
  /\ today < LastDay
  /\ today' = today + 1
  /\ UNCHANGED <<lead, decision, requests, sessions, quotes, rates, preview, calls, scenario>>

-----------------------------------------------------------------------------
StartCall(c) ==
  \/ StartQualify(c)
  \/ StartCreateRequest(c)
  \/ StartCalculate(c)
  \/ \E r \in Existing :
       StartUpdateRequest(c, r) \/ StartSubmit(c, r) \/ StartQuoteOfRequest(c, r)
  \/ \E s \in Rows : StartUpdate(c, s) \/ StartFinalize(c, s) \/ StartQuote(c, s)

GoOn(c) ==
  \/ ClaimQualify(c)
  \/ FinishQualified(c)
  \/ CommitQualify(c)
  \/ CreateRequest(c)
  \/ DeleteGroups(c)
  \/ WriteGroups(c)
  \/ ClaimSubmission(c)
  \/ Announce(c)
  \/ Calculate(c)
  \/ DeleteLines(c)
  \/ WriteLines(c)
  \/ Finalize(c)
  \/ ReadCalculation(c)
  \/ CreateQuote(c)
  \/ Fail(c)

Next ==
  \/ \E c \in Callers : StartCall(c) \/ GoOn(c)
  \/ \E supplier \in Suppliers : ConfirmDecision(supplier)
  \/ \E status \in {"LOST", "UNQUALIFIED", "CONVERTED"} : CloseLead(status)
  \/ \E s \in Rows : SoftDelete(s)
  \/ \E q \in quotes : FinalizeQuote(q) \/ NextVersion(q)
  \/ \E item \in Lines, ofLead, head \in BOOLEAN : Preview(item, ofLead, head)
  \/ \E item \in Lines : PreviewQuote(item)
  \/ \E from \in Days, value \in RateValues : CreateRate(from, value)
  \/ Tick

Spec == Init /\ [][Next]_vars

-----------------------------------------------------------------------------
\* However many qualify a lead at a time, it has one deal, one request of the
\* system and one task for the head, which is open until there is a decision.
QualifiedOnce ==
  /\ lead.deals <= 1
  /\ Cardinality({r \in Existing : requests[r].automatic}) <= 1
  /\ lead.open + lead.closed <= 1
  /\ decision.at > 0 => lead.open = 0
  /\ lead.closed + lead.open > 0 => Existing # {}

\* A request is submitted once and its submission announced at most once,
\* although two users may submit it; and no call that read an old status, an
\* edit or a quote, takes it back.
Rank(status) ==
  CASE status = "NONE" -> 0 [] status = "draft" -> 1 [] status = "submitted" -> 2
    [] status = "processing" -> 3 [] status = "quoted" -> 4

SubmittedOnce ==
  [][\A r \in Requests : /\ Rank(requests[r].status) <= Rank(requests'[r].status)
                         /\ requests'[r].announced <= 1]_requests

\* What a quote was made of stays, and stays final: an edit or an update that
\* saw the calculation before the quote was there neither deletes nor reopens
\* it, and a quote that saw it before the edit is not made without it.  Nor is
\* there a second first version, of the calculation or of its request.
QuotedIsFinal ==
  \A q \in quotes :
    /\ sessions[q.session].status = "finalized"
    /\ \A other \in quotes \ {q} :
         other.session # q.session /\ (other.request = NoRequest \/ other.request # q.request)

\* From the first rate on there is one for every day, in whatever order rates
\* for days past and to come are entered.
AlwaysARate ==
  \A at \in Days : (\E x \in rates : x.from <= at) => HasRate(at)

\* The sheets of a preview cover what is required and one less would not; an
\* automatic request counts as many; and the total, which is rounded once, is
\* what the sheets cost at their rounded price up to the cents of the rounding.
EnoughSheets(line, sheets) ==
  /\ line.area <= sheets * PanelArea(line.size)
  /\ (sheets - 1) * PanelArea(line.size) < line.area
  /\ sheets = SheetsFromSize(line.area, line.size)

AddsUp(price, sheets) ==
  2 * (price.total - sheets * price.perSheet) \in (0 - sheets - 1)..(sheets + 1)

PreviewCovers ==
  preview # NoPreview =>
    /\ EnoughSheets(preview.line, preview.geometry.sheets)
    /\ 0 <= preview.geometry.waste /\ preview.geometry.waste <= 10000
    /\ preview.priced => AddsUp(preview.price, preview.geometry.sheets)
=============================================================================
