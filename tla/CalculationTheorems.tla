------------------------- MODULE CalculationTheorems -------------------------
(***************************************************************************)
(* Theorems about the way from a qualified lead to the first version of a    *)
(* quote, for any number of requests, calculations, callers, rates and days, *)
(* and for lines and prices of any size: a lead is qualified once, a request *)
(* is submitted once, what a quote was made of stays final, there is a rate  *)
(* for every day, and a preview counts enough sheets and adds up.            *)
(***************************************************************************)
EXTENDS CalculationRequests, FiniteSetTheorems, WellFoundedInduction, TLAPS

-----------------------------------------------------------------------------
\* The domains of the variables.
RequestRow ==
  [status : {"NONE", "draft", "submitted", "processing", "quoted"}, automatic : BOOLEAN,
   announced : Nat]

SessionRow ==
  [status : {"NONE", "draft", "finalized", "GONE"}, request : Requests \cup {NoRequest},
   deleted : BOOLEAN, items : SUBSET Items, total : Items \cup {NoItems}, basis : Nat]

LeadRow ==
  [status : {"IN_PROGRESS", "QUALIFIED", "LOST", "UNQUALIFIED", "CONVERTED"},
   deals : Nat, open : Nat, closed : Nat]

QuoteRow == [session : Sessions, request : Requests \cup {NoRequest}, final : BOOLEAN]

RateRow == [number : Nat, value : RateValues, from : Days, to : 0..Never]

QualifyCall == [handler : {"qualify"}, phase : {"read", "claimed", "checked", "finish"}]
CreateCall == [handler : {"request"}, phase : {"read"}, items : Items, groups : 1..2]
EditCall ==
  [handler : {"edit"}, phase : {"read", "deleted"}, request : Requests,
   edit : {"draft", "review", "revision"}, items : Items, groups : 1..2, gone : SUBSET Sessions]
SubmitCall == [handler : {"submit"}, phase : {"read", "announce"}, request : Requests]
CalculateCall == [handler : {"calculate"}, phase : {"read"}, items : Items, basis : Nat]
UpdateCall ==
  [handler : {"update"}, phase : {"read", "emptied"}, session : Sessions, items : Items,
   total : Items, basis : Nat, lines : SUBSET Items]
NotesCall ==
  [handler : {"update"}, phase : {"notes"}, session : Sessions, total : Items \cup {NoItems}]
FinalizeCall == [handler : {"finalize"}, phase : {"read"}, session : Sessions]
QuoteCall ==
  [handler : {"quote"}, phase : {"read", "request"}, session : Sessions,
   request : Requests \cup {NoRequest}]

Call ==
  {Idle} \cup QualifyCall \cup CreateCall \cup EditCall \cup SubmitCall \cup CalculateCall
    \cup UpdateCall \cup NotesCall \cup FinalizeCall \cup QuoteCall

Typed ==
  /\ lead \in LeadRow
  /\ decision \in [supplier : Suppliers \cup {NoSupplier}, at : Nat]
  /\ requests \in [Requests -> RequestRow]
  /\ sessions \in [Sessions -> SessionRow]
  /\ quotes \subseteq QuoteRow
  /\ rates \subseteq RateRow /\ IsFiniteSet(rates)
  /\ today \in Days
  /\ calls \in [Callers -> Call]
  /\ scenario \in Scenarios

-----------------------------------------------------------------------------
\* The lead: nothing is made of it before it is qualified, and only one who
\* holds the lock of the lead qualifies it or makes its automatic request.
LeadTrue ==
  /\ lead.deals <= 1
  /\ lead.open + lead.closed <= 1
  /\ decision.at > 0 => lead.open = 0
  /\ lead.closed + lead.open > 0 => Existing # {}
  /\ lead.status = "IN_PROGRESS" =>
       /\ lead.deals = 0 /\ lead.open = 0 /\ lead.closed = 0
       /\ decision.at = 0
       /\ \A r \in Requests : ~ requests[r].automatic

Holds(call) == call.handler = "qualify" /\ call.phase \in {"claimed", "checked"}
CameLate(call) == call.handler = "qualify" /\ call.phase \in {"finish", "checked"}

LockTrue ==
  \A c \in Callers :
    /\ Holds(calls[c]) =>
         /\ \A b \in Callers : Holds(calls[b]) => b = c
         /\ \A r \in Requests : ~ requests[r].automatic
         /\ calls[c].phase = "claimed" => lead.status = "IN_PROGRESS"
    /\ CameLate(calls[c]) => lead.status # "IN_PROGRESS"

AutomaticTrue ==
  /\ \A r \in Requests : requests[r].status = "NONE" => requests[r] = NoRow
  /\ \A r, s \in Requests : requests[r].automatic /\ requests[s].automatic => r = s

\* Announcements: a call that is about to make one is the only one of the
\* request, which nobody has announced yet.
Announces(call) == call.handler = "submit" /\ call.phase = "announce"

AnnouncementsTrue ==
  /\ \A r \in Requests :
       /\ requests[r].announced <= 1
       /\ requests[r].status \in {"NONE", "draft"} => requests[r].announced = 0
  /\ \A c \in Callers : Announces(calls[c]) =>
       /\ requests[calls[c].request].status \notin {"NONE", "draft"}
       /\ requests[calls[c].request].announced = 0
       /\ \A b \in Callers :
            Announces(calls[b]) /\ calls[b].request = calls[c].request => b = c

\* Calculations: their numbers are given one after the other; what a quote is
\* about to be made of is final or gone, and nothing that an edit has deleted
\* is in a quote, unless it only marks it.
NumbersTrue == \A s \in Made, t \in Sessions : t <= s => t \in Made

CallTrue(call) ==
  /\ call.handler = "quote" /\ call.phase = "read" =>
       sessions[call.session].status \in {"finalized", "GONE"}
  /\ call.handler = "edit" /\ call.phase = "deleted" =>
       /\ call.gone \subseteq Made
       /\ call.edit # "revision" => \A q \in quotes : q.session \notin call.gone

CallsTrue == \A c \in Callers : CallTrue(calls[c])

CalculationsTrue ==
  /\ Typed
  /\ LeadTrue /\ LockTrue /\ AutomaticTrue
  /\ AnnouncementsTrue
  /\ NumbersTrue /\ CallsTrue /\ QuotedIsFinal
  /\ AlwaysARate
  /\ PreviewCovers

-----------------------------------------------------------------------------
LEMMA CeilDivCovers ==
  ASSUME NEW n \in Nat, NEW d \in Nat \ {0}
  PROVE  /\ CeilDiv(n, d) \in Nat
         /\ n <= CeilDiv(n, d) * d
         /\ n > 0 => (CeilDiv(n, d) - 1) * d < n
<1> DEFINE q == (n + d - 1) \div d
<1>1. q \in Int
  BY SMT
<1>2. q * d <= n + d - 1 /\ n + d - 1 < (q + 1) * d
  BY SMT
<1> QED
  BY <1>1, <1>2, SMT DEF CeilDiv

LEMMA RoundedNear ==
  ASSUME NEW n \in Int, NEW d \in Nat \ {0}
  PROVE  /\ RoundHalfUp(n, d) \in Int
         /\ 2 * d * RoundHalfUp(n, d) <= 2 * n + d
         /\ 2 * n + d < 2 * d * (RoundHalfUp(n, d) + 1)
  BY SMT DEF RoundHalfUp

LEMMA LatestExists ==
  ASSUME NEW S, S # {}, NEW f \in [S -> Days]
  PROVE  \E x \in S : \A y \in S : f[y] <= f[x]
<1> DEFINE After(x) == (f[x] + 1)..LastDay
           T == {After(x) : x \in S}
<1>1. T \subseteq SUBSET Days /\ T # {}
  BY CalculationAssumption DEF Days
<1>2. IsFiniteSet(Days)
  BY CalculationAssumption, FS_Interval DEF Days
<1>3. IsWellFoundedOn(StrictSubsetOrdering(Days), FiniteSubsetsOf(Days))
  BY FS_StrictSubsetOrderingWellFounded
<1>4. T \subseteq FiniteSubsetsOf(Days)
  BY <1>1, <1>2, FS_Subset DEF FiniteSubsetsOf
<1> HIDE DEF T
<1>5. PICK A \in T : \A B \in T : ~ (<<B, A>> \in StrictSubsetOrdering(Days))
  BY <1>1, <1>3, <1>4, WFMin
<1>6. PICK x \in S : A = After(x)
  BY DEF T
<1>7. ASSUME NEW y \in S, ~ (f[y] <= f[x])
      PROVE  FALSE
  <2>1. After(y) \subseteq After(x) /\ f[y] \in After(x) /\ f[y] \notin After(y)
    BY <1>7, CalculationAssumption DEF Days
  <2>2. After(y) \in SUBSET Days /\ After(x) \in SUBSET Days
    BY CalculationAssumption DEF Days
  <2> HIDE DEF After
  <2>3. After(y) # After(x)
    BY <2>1
  <2>4. <<After(y), After(x)>> \in StrictSubsetOrdering(Days)
    BY <2>1, <2>2, <2>3 DEF StrictSubsetOrdering
  <2> QED
    BY <2>4, <1>5, <1>6 DEF T
<1> QED
  BY <1>7

\* The same for the earliest.
LEMMA EarliestExists ==
  ASSUME NEW S \in SUBSET Sessions, S # {}
  PROVE  \E x \in S : \A y \in S : x <= y
<1> DEFINE Up(x) == 1..x
           T == {Up(x) : x \in S}
<1>0. \A x \in S : Up(x) \in SUBSET Sessions
  BY CalculationAssumption DEF Sessions
<1>1. T \subseteq SUBSET Sessions /\ T # {}
  <2> HIDE DEF Up
  <2> QED
    BY <1>0
<1>2. IsFiniteSet(Sessions)
  BY CalculationAssumption, FS_Interval DEF Sessions
<1>3. IsWellFoundedOn(StrictSubsetOrdering(Sessions), FiniteSubsetsOf(Sessions))
  BY FS_StrictSubsetOrderingWellFounded
<1>4. T \subseteq FiniteSubsetsOf(Sessions)
  BY <1>1, <1>2, FS_Subset DEF FiniteSubsetsOf
<1> HIDE DEF T
<1>5. PICK A \in T : \A B \in T : ~ (<<B, A>> \in StrictSubsetOrdering(Sessions))
  BY <1>1, <1>3, <1>4, WFMin
<1>6. PICK x \in S : A = Up(x)
  BY DEF T
<1>7. ASSUME NEW y \in S, ~ (x <= y)
      PROVE  FALSE
  <2>1. Up(y) \subseteq Up(x) /\ x \in Up(x) /\ x \notin Up(y)
    BY <1>7, CalculationAssumption DEF Sessions
  <2>2. Up(y) \in SUBSET Sessions /\ Up(x) \in SUBSET Sessions
    BY <1>0
  <2> HIDE DEF Up
  <2>3. Up(y) # Up(x)
    BY <2>1
  <2>4. <<Up(y), Up(x)>> \in StrictSubsetOrdering(Sessions)
    BY <2>1, <2>2, <2>3 DEF StrictSubsetOrdering
  <2> QED
    BY <2>4, <1>5, <1>6 DEF T
<1> QED
  BY <1>7

-----------------------------------------------------------------------------
\* The numbers given are the first ones, so those to come are new.
LEMMA Numbered ==
  ASSUME NumbersTrue
  PROVE  /\ Cardinality(Made) \in Nat
         /\ \A s \in Sessions : s \in Made <=> s <= Cardinality(Made)
<1>1. IsFiniteSet(Sessions)
  BY CalculationAssumption, FS_Interval DEF Sessions
<1>2. Made \subseteq Sessions
  BY DEF Made
<1>3. IsFiniteSet(Made) /\ Cardinality(Made) \in Nat
  BY <1>1, <1>2, FS_Subset, FS_CardinalityType
<1>4. ASSUME NEW s \in Sessions, s \in Made
      PROVE  s <= Cardinality(Made)
  <2>1. 1..s \subseteq Made
    <3>1. \A t \in 1..s : t \in Sessions /\ t <= s
      BY CalculationAssumption DEF Sessions
    <3> QED
      BY <1>4, <3>1 DEF NumbersTrue
  <2>2. Cardinality(1..s) = s
    BY FS_Interval DEF Sessions
  <2> QED
    BY <1>3, <2>1, <2>2, FS_Subset
<1>5. ASSUME NEW s \in Sessions, s \notin Made
      PROVE  ~ (s <= Cardinality(Made))
  <2>1. Made \subseteq 1..(s - 1)
    BY <1>2, <1>5 DEF NumbersTrue, Sessions
  <2>2. IsFiniteSet(1..(s - 1)) /\ Cardinality(1..(s - 1)) = s - 1
    BY FS_Interval DEF Sessions
  <2>3. Cardinality(Made) <= s - 1
    BY <2>1, <2>2, FS_Subset
  <2> QED
    BY <1>3, <2>3 DEF Sessions
<1> QED
  BY <1>3, <1>4, <1>5

LEMMA NumbersAreNew ==
  ASSUME NumbersTrue, NEW n, NEW s \in NextSessions(n)
  PROVE  s \in Sessions /\ s \notin Made
BY Numbered DEF NextSessions, Sessions

LEMMA NumbersLater ==
  ASSUME Typed, NumbersTrue, NEW n \in Nat, Made' = Made \cup NextSessions(n)
  PROVE  NumbersTrue'
<1> SUFFICES ASSUME NEW s \in Made', NEW t \in Sessions, t <= s
             PROVE  t \in Made'
  BY DEF NumbersTrue, Sessions
<1>1. CASE s \in Made
  BY <1>1 DEF NumbersTrue
<1>2. CASE s \in NextSessions(n)
  <2>1. scenario.sessions \in Nat
    BY CalculationAssumption DEF Typed
  <2> QED
    BY <1>2, <2>1, Numbered DEF NextSessions, Sessions
<1> QED
  BY <1>1, <1>2

\* A call is put in the place of another, or under way, or over.
LEMMA CallPut ==
  ASSUME Typed, NEW c \in Callers, NEW call \in Call, calls' = [calls EXCEPT ![c] = call]
  PROVE  /\ calls' \in [Callers -> Call]
         /\ calls'[c] = call
         /\ \A b \in Callers : b # c => calls'[b] = calls[b]
BY DEF Typed

LEMMA CallOver ==
  ASSUME Typed, NEW c \in Callers, End(c)
  PROVE  /\ calls' \in [Callers -> Call]
         /\ calls'[c] = Idle
         /\ \A b \in Callers : b # c => calls'[b] = calls[b]
<1>1. Idle \in Call
  BY DEF Call
<1> QED
  BY <1>1, CallPut DEF End, Go

-----------------------------------------------------------------------------
\* The domains.
LEMMA TypedInit == Init => Typed
<1> SUFFICES ASSUME Init
             PROVE  Typed
  OBVIOUS
<1>1. lead \in LeadRow
  BY CalculationAssumption DEF Init, LeadRow
<1>2. NoRow \in RequestRow /\ NoSession \in SessionRow /\ Idle \in Call
  BY DEF NoRow, RequestRow, NoSession, SessionRow, Call
<1>3. 0 \in Days
  BY CalculationAssumption DEF Days
<1>4. IsFiniteSet({})
  BY FS_EmptySet
<1> QED
  BY <1>1, <1>2, <1>3, <1>4 DEF Init, Typed

\* A call that begins is of one of the kinds.
LEMMA StartTyped ==
  ASSUME Typed, NEW c \in Callers, StartCall(c)
  PROVE  \E call \in Call : Begin(c, call)
<1> USE DEF Call
<1>1. CASE StartQualify(c)
  BY <1>1 DEF StartQualify, QualifyCall
<1>2. CASE StartCreateRequest(c)
  BY <1>2 DEF StartCreateRequest, CreateCall
<1>3. CASE StartCalculate(c)
  BY <1>3 DEF StartCalculate, CalculateCall, Typed
<1>4. CASE \E r \in Existing : StartUpdateRequest(c, r)
  <2>1. PICK r \in Requests : StartUpdateRequest(c, r)
    BY <1>4 DEF Existing
  <2>2. EditOf(r) \in {"draft", "review", "revision"}
    BY <2>1 DEF StartUpdateRequest, EditOf
  <2> HIDE DEF Call
  <2>3. PICK i \in Items, n \in 1..2 :
          Begin(c, [handler |-> "edit", phase |-> "read", request |-> r, edit |-> EditOf(r),
                    items |-> i, groups |-> n, gone |-> {}])
    BY <2>1 DEF StartUpdateRequest
  <2>4. [handler |-> "edit", phase |-> "read", request |-> r, edit |-> EditOf(r),
         items |-> i, groups |-> n, gone |-> {}] \in EditCall
    BY <2>2 DEF EditCall
  <2> QED
    BY <2>3, <2>4 DEF Call
<1>5. CASE \E r \in Existing : StartSubmit(c, r)
  BY <1>5 DEF StartSubmit, SubmitCall, Existing
<1>6. CASE \E r \in Existing : StartQuoteOfRequest(c, r)
  <2>1. PICK r \in Requests : StartQuoteOfRequest(c, r)
    BY <1>6 DEF Existing
  <2> DEFINE first == CHOOSE s \in Calculations(r) : \A t \in Calculations(r) : s <= t
  <2>2. Calculations(r) \in SUBSET Sessions /\ Calculations(r) # {}
    BY <2>1 DEF StartQuoteOfRequest, Calculations, Rows, Made
  <2>3. first \in Sessions
    BY <2>2, EarliestExists
  <2> HIDE DEF Call
  <2>4. [handler |-> "quote", phase |-> "request", request |-> r, session |-> first] \in QuoteCall
    BY <2>3 DEF QuoteCall
  <2> QED
    BY <2>1, <2>4 DEF StartQuoteOfRequest, Call
<1>7. CASE \E s \in Rows : StartUpdate(c, s)
  <2>1. PICK s \in Sessions : StartUpdate(c, s)
    BY <1>7 DEF Rows, Made
  <2>2. sessions[s].total \in Items \cup {NoItems} /\ decision.at \in Nat
    BY DEF Typed, SessionRow
  <2>3. \A i \in Items :
          [handler |-> "update", phase |-> "read", session |-> s, items |-> i, total |-> i,
           basis |-> decision.at, lines |-> {}] \in UpdateCall
    BY <2>2 DEF UpdateCall
  <2>4. [handler |-> "update", phase |-> "notes", session |-> s,
         total |-> sessions[s].total] \in NotesCall
    BY <2>2 DEF NotesCall
  <2> QED
    BY <2>1, <2>3, <2>4 DEF StartUpdate
<1>8. CASE \E s \in Rows : StartFinalize(c, s)
  BY <1>8 DEF StartFinalize, FinalizeCall, Rows, Made
<1>9. CASE \E s \in Rows : StartQuote(c, s)
  <2>1. PICK s \in Sessions : StartQuote(c, s)
    BY <1>9 DEF Rows, Made
  <2>2. sessions[s].request \in Requests \cup {NoRequest}
    BY DEF Typed, SessionRow
  <2>3. [handler |-> "quote", phase |-> "read", session |-> s,
         request |-> sessions[s].request] \in QuoteCall
    BY <2>2 DEF QuoteCall
  <2> QED
    BY <2>1, <2>3 DEF StartQuote
<1> QED
  BY <1>1, <1>2, <1>3, <1>4, <1>5, <1>6, <1>7, <1>8, <1>9 DEF StartCall

LEMMA StartWritesNothing ==
  ASSUME NEW c, StartCall(c)
  PROVE  UNCHANGED <<lead, decision, requests, sessions, quotes, rates, preview, today, scenario>>
BY DEF StartCall, StartQualify, StartCreateRequest, StartCalculate, StartUpdateRequest, StartSubmit,
       StartQuoteOfRequest, StartUpdate, StartFinalize, StartQuote

\* A call is known by its handler.
LEMMA CallKinds ==
  ASSUME Typed, NEW c \in Callers
  PROVE  /\ calls[c].handler = "qualify" => calls[c] \in QualifyCall
         /\ calls[c].handler = "request" => calls[c] \in CreateCall
         /\ calls[c].handler = "edit" => calls[c] \in EditCall
         /\ calls[c].handler = "submit" => calls[c] \in SubmitCall
         /\ calls[c].handler = "calculate" => calls[c] \in CalculateCall
         /\ calls[c].handler = "update" => calls[c] \in UpdateCall \cup NotesCall
         /\ calls[c].handler = "finalize" => calls[c] \in FinalizeCall
         /\ calls[c].handler = "quote" => calls[c] \in QuoteCall
<1>1. calls[c] \in Call
  BY DEF Typed
<1> QED
  BY <1>1 DEF Call, Idle, QualifyCall, CreateCall, EditCall, SubmitCall, CalculateCall, UpdateCall,
              NotesCall, FinalizeCall, QuoteCall

\* What a call becomes when it goes on.
LEMMA GoesOn ==
  ASSUME Typed, NEW c \in Callers
  PROVE  /\ calls[c].handler = "qualify" =>
              \A phase \in {"claimed", "checked", "finish"} :
                [calls[c] EXCEPT !.phase = phase] \in QualifyCall
         /\ calls[c].handler = "edit" =>
              \A gone \in SUBSET Sessions :
                [calls[c] EXCEPT !.phase = "deleted", !.gone = gone] \in EditCall
         /\ calls[c].handler = "submit" => [calls[c] EXCEPT !.phase = "announce"] \in SubmitCall
         /\ calls[c].handler = "quote" => [calls[c] EXCEPT !.phase = "read"] \in QuoteCall
BY CallKinds DEF QualifyCall, EditCall, SubmitCall, QuoteCall

\* A calculation that is added, with others of its request or alone.
LEMMA WithGroupsTyped ==
  ASSUME Typed, NEW rows \in [Sessions -> SessionRow], NEW r \in Requests, NEW i \in Items, NEW n,
         NEW status \in {"draft", "finalized"}
  PROVE  WithGroups(rows, r, i, n, status) \in [Sessions -> SessionRow]
<1>1. [NoSession EXCEPT !.status = status, !.request = r, !.items = {i}, !.total = i] \in SessionRow
  BY DEF NoSession, SessionRow
<1> QED
  BY <1>1 DEF WithGroups

LEMMA NewRequestsTyped == \A r \in NewRequests : r \in Requests /\ r \notin Existing
BY DEF NewRequests, Existing

LEMMA SessionRowTyped ==
  ASSUME NEW row \in SessionRow
  PROVE  /\ \A status \in {"draft", "finalized", "GONE"} :
              [row EXCEPT !.status = status] \in SessionRow
         /\ [row EXCEPT !.deleted = TRUE] \in SessionRow
         /\ \A total \in Items \cup {NoItems} : [row EXCEPT !.total = total] \in SessionRow
         /\ \A items \in SUBSET Items, total \in Items, basis \in Nat :
              [row EXCEPT !.items = items, !.total = total, !.basis = basis] \in SessionRow
BY DEF SessionRow

LEMMA UpdatedTyped ==
  ASSUME NEW row \in SessionRow, NEW call \in UpdateCall \cup NotesCall
  PROVE  Updated(row, call) \in SessionRow
<1>1. CASE call \in NotesCall
  BY <1>1, SessionRowTyped DEF NotesCall, Updated
<1>2. CASE call \in UpdateCall
  <2> DEFINE items == (row.items \ call.lines) \cup {call.items}
  <2>1. /\ call.phase # "notes" /\ call.items \in Items
        /\ call.total \in Items /\ call.basis \in Nat
    BY <1>2 DEF UpdateCall
  <2>2. items \in SUBSET Items
    BY <2>1 DEF SessionRow
  <2>3. Updated(row, call) =
          [row EXCEPT !.items = items, !.total = call.total, !.basis = call.basis]
    BY <2>1 DEF Updated, SessionRow
  <2> HIDE DEF items
  <2> QED
    BY <2>1, <2>2, <2>3 DEF SessionRow
<1> QED
  BY <1>1, <1>2

LEMMA RequestRowTyped ==
  ASSUME NEW row \in RequestRow
  PROVE  /\ \A status \in {"NONE", "draft", "submitted", "processing", "quoted"} :
              [row EXCEPT !.status = status] \in RequestRow
         /\ [row EXCEPT !.announced = @ + 1] \in RequestRow
BY DEF RequestRow

LEMMA CreateAutomaticTyped ==
  ASSUME Typed, CreateAutomatic
  PROVE  requests' \in [Requests -> RequestRow] /\ sessions' \in [Sessions -> SessionRow]
<1>1. PICK r \in NewRequests, i \in Items, s \in NextSessions(1) :
        /\ requests' = [requests EXCEPT ![r] =
             [NoRow EXCEPT !.status = "draft", !.automatic = TRUE]]
        /\ sessions' = [sessions EXCEPT ![s] = QualificationSession(r, i)]
  BY DEF CreateAutomatic
<1>2. QualificationSession(r, i) \in SessionRow
  BY NewRequestsTyped DEF QualificationSession, NoSession, SessionRow
<1>3. [NoRow EXCEPT !.status = "draft", !.automatic = TRUE] \in RequestRow
  BY DEF NoRow, RequestRow
<1> QED
  BY <1>1, <1>2, <1>3 DEF Typed

LEMMA LeadRowTyped ==
  ASSUME NEW row \in LeadRow
  PROVE  /\ [row EXCEPT !.status = "QUALIFIED", !.deals = @ + 1, !.open = @ + 1] \in LeadRow
         /\ [row EXCEPT !.closed = @ + row.open, !.open = 0] \in LeadRow
         /\ \A status \in {"LOST", "UNQUALIFIED", "CONVERTED"} :
              [row EXCEPT !.status = status] \in LeadRow
<1>1. row.deals + 1 \in Nat /\ row.open + 1 \in Nat /\ row.closed + row.open \in Nat
  BY DEF LeadRow
<1>2. \A deals, open \in Nat :
        [row EXCEPT !.status = "QUALIFIED", !.deals = deals, !.open = open] \in LeadRow
  BY DEF LeadRow
<1>3. [row EXCEPT !.status = "QUALIFIED", !.deals = @ + 1, !.open = @ + 1]
        = [row EXCEPT !.status = "QUALIFIED", !.deals = row.deals + 1, !.open = row.open + 1]
  BY DEF LeadRow
<1>4. \A closed \in Nat : [row EXCEPT !.closed = closed, !.open = 0] \in LeadRow
  BY DEF LeadRow
<1>5. [row EXCEPT !.closed = @ + row.open, !.open = 0]
        = [row EXCEPT !.closed = row.closed + row.open, !.open = 0]
  BY DEF LeadRow
<1>6. \A status \in {"LOST", "UNQUALIFIED", "CONVERTED"} : [row EXCEPT !.status = status] \in LeadRow
  BY DEF LeadRow
<1> QED
  BY <1>1, <1>2, <1>3, <1>4, <1>5, <1>6

\* The end of each call, and what else writes.
LEMMA GoOnTyped ==
  ASSUME Typed, NEW c \in Callers, GoOn(c)
  PROVE  Typed'
<1>1. CASE ClaimQualify(c)
  <2>1. calls' \in [Callers -> Call]
    <3>1. calls[c].handler = "qualify"
      BY <1>1 DEF ClaimQualify, In
    <3>2. \A phase \in {"claimed", "finish"} : [calls[c] EXCEPT !.phase = phase] \in Call
      BY <3>1, GoesOn DEF Call
    <3> QED
      BY <1>1, <3>2, CallPut, CallOver DEF ClaimQualify, Go
  <2> QED
    BY <1>1, <2>1 DEF ClaimQualify, Typed
<1>2. CASE FinishQualified(c)
  <2>1. calls' \in [Callers -> Call]
    <3>1. calls[c].handler = "qualify"
      BY <1>2 DEF FinishQualified, In
    <3>2. [calls[c] EXCEPT !.phase = "checked"] \in Call
      BY <3>1, GoesOn DEF Call
    <3> QED
      BY <1>2, <3>2, CallPut, CallOver DEF FinishQualified, Go
  <2> QED
    BY <1>2, <2>1 DEF FinishQualified, Typed
<1>3. CASE CommitQualify(c)
  <2>1. calls' \in [Callers -> Call]
    BY <1>3, CallOver DEF CommitQualify
  <2>2. lead' \in LeadRow
    <3>1. lead \in LeadRow
      BY DEF Typed
    <3>2. [lead EXCEPT !.status = "QUALIFIED", !.deals = @ + 1, !.open = @ + 1] \in LeadRow
      BY <3>1, LeadRowTyped
    <3> QED
      BY <1>3, <3>1, <3>2 DEF CommitQualify
  <2>3. requests' \in [Requests -> RequestRow] /\ sessions' \in [Sessions -> SessionRow]
    BY <1>3, CreateAutomaticTyped DEF CommitQualify, Typed
  <2> QED
    BY <1>3, <2>1, <2>2, <2>3 DEF CommitQualify, Typed
<1>4. CASE CreateRequest(c)
  <2>1. calls' \in [Callers -> Call]
    BY <1>4, CallOver DEF CreateRequest
  <2>2. PICK r \in NewRequests :
          /\ requests' = [requests EXCEPT ![r].status = "draft"]
          /\ sessions' = WithGroups(sessions, r, calls[c].items, calls[c].groups, "draft")
    BY <1>4 DEF CreateRequest
  <2>3. r \in Requests /\ calls[c].items \in Items
    BY <1>4, NewRequestsTyped, CallKinds DEF CreateRequest, In, CreateCall
  <2>4. sessions' \in [Sessions -> SessionRow]
    BY <2>2, <2>3, WithGroupsTyped DEF Typed
  <2>5. requests' \in [Requests -> RequestRow]
    BY <2>2, <2>3, RequestRowTyped DEF Typed
  <2> QED
    BY <1>4, <2>1, <2>4, <2>5 DEF CreateRequest, Typed
<1>5. CASE DeleteGroups(c)
  <2>1. calls' \in [Callers -> Call]
    <3>1. calls[c].handler = "edit"
      BY <1>5 DEF DeleteGroups, In
    <3>2. \A gone \in SUBSET Sessions : [calls[c] EXCEPT !.phase = "deleted", !.gone = gone] \in Call
      BY <3>1, GoesOn DEF Call
    <3>3. Calculations(calls[c].request) \in SUBSET Sessions
      BY DEF Calculations, Rows, Made
    <3>4. {s \in Rows : sessions[s].request = calls[c].request} \in SUBSET Sessions
      BY DEF Rows, Made
    <3> QED
      BY <1>5, <3>2, <3>3, <3>4, CallPut, CallOver DEF DeleteGroups, Go
  <2> QED
    BY <1>5, <2>1 DEF DeleteGroups, Typed
<1>6. CASE WriteGroups(c)
  <2> DEFINE without == [s \in Sessions |->
               IF s \notin calls[c].gone THEN sessions[s]
               ELSE IF calls[c].edit = "revision" THEN [sessions[s] EXCEPT !.deleted = TRUE]
               ELSE [NoSession EXCEPT !.status = "GONE"]]
             status == IF calls[c].edit = "draft" THEN "draft" ELSE "finalized"
  <2>1. calls' \in [Callers -> Call]
    BY <1>6, CallOver DEF WriteGroups
  <2>2. [NoSession EXCEPT !.status = "GONE"] \in SessionRow
    BY DEF NoSession, SessionRow
  <2>3. without \in [Sessions -> SessionRow]
    BY <2>2, SessionRowTyped DEF Typed
  <2>4. calls[c].request \in Requests /\ calls[c].items \in Items
    BY <1>6, CallKinds DEF WriteGroups, In, EditCall
  <2>5. sessions' = WithGroups(without, calls[c].request, calls[c].items, calls[c].groups, status)
    BY <1>6 DEF WriteGroups
  <2>6. status \in {"draft", "finalized"}
    OBVIOUS
  <2> HIDE DEF without, status
  <2>7. sessions' \in [Sessions -> SessionRow]
    BY <2>3, <2>4, <2>5, <2>6, WithGroupsTyped
  <2> QED
    BY <1>6, <2>1, <2>7 DEF WriteGroups, Typed
<1>7. CASE ClaimSubmission(c)
  <2>1. calls' \in [Callers -> Call]
    <3>1. calls[c].handler = "submit"
      BY <1>7 DEF ClaimSubmission, In
    <3>2. [calls[c] EXCEPT !.phase = "announce"] \in Call
      BY <3>1, GoesOn DEF Call
    <3> QED
      BY <1>7, <3>2, CallPut, CallOver DEF ClaimSubmission, Go
  <2>2. \/ /\ requests' = [requests EXCEPT ![calls[c].request].status = "submitted"]
           /\ sessions' = [s \in Sessions |->
                IF s \in Calculations(calls[c].request)
                THEN [sessions[s] EXCEPT !.status = "finalized"] ELSE sessions[s]]
        \/ UNCHANGED <<requests, sessions>>
    BY <1>7 DEF ClaimSubmission
  <2>3. requests' \in [Requests -> RequestRow]
    <3>1. calls[c].request \in Requests
      BY <1>7, CallKinds DEF ClaimSubmission, In, SubmitCall
    <3>2. CASE requests' = [requests EXCEPT ![calls[c].request].status = "submitted"]
      BY <3>1, <3>2, RequestRowTyped DEF Typed
    <3> QED
      BY <2>2, <3>2 DEF Typed
  <2>4. sessions' \in [Sessions -> SessionRow]
    BY <2>2, SessionRowTyped DEF Typed
  <2> QED
    BY <1>7, <2>1, <2>3, <2>4 DEF ClaimSubmission, Typed
<1>8. CASE Announce(c)
  <2>1. calls' \in [Callers -> Call]
    BY <1>8, CallOver DEF Announce
  <2>2. requests' \in [Requests -> RequestRow]
    BY <1>8, RequestRowTyped DEF Announce, Typed
  <2> QED
    BY <1>8, <2>1, <2>2 DEF Announce, Typed
<1>9. CASE Calculate(c)
  <2>1. calls' \in [Callers -> Call]
    BY <1>9, CallOver DEF Calculate
  <2>2. calls[c].items \in Items /\ calls[c].basis \in Nat
    BY <1>9, CallKinds DEF Calculate, In, CalculateCall
  <2>3. [NoSession EXCEPT !.status = "draft", !.items = {calls[c].items},
                          !.total = calls[c].items, !.basis = calls[c].basis] \in SessionRow
    BY <2>2 DEF NoSession, SessionRow
  <2>4. sessions' \in [Sessions -> SessionRow]
    BY <1>9, <2>3 DEF Calculate, Typed
  <2> QED
    BY <1>9, <2>1, <2>4 DEF Calculate, Typed
<1>10. CASE DeleteLines(c)
  <2>1. calls[c] \in UpdateCall
    BY <1>10, CallKinds DEF DeleteLines, In, NotesCall
  <2>2. sessions[calls[c].session].items \in SUBSET Items
    BY <2>1 DEF Typed, SessionRow, UpdateCall
  <2>3. [[calls[c] EXCEPT !.phase = "emptied"] EXCEPT !.lines = sessions[calls[c].session].items]
          \in UpdateCall
    BY <2>1, <2>2 DEF UpdateCall
  <2>4. calls' \in [Callers -> Call]
    <3> DEFINE once == [calls EXCEPT ![c].phase = "emptied"]
    <3>1. calls' = [once EXCEPT ![c].lines = sessions[calls[c].session].items]
      BY <1>10 DEF DeleteLines
    <3>2. once = [calls EXCEPT ![c] = [calls[c] EXCEPT !.phase = "emptied"]]
      BY DEF Typed
    <3>3. calls' = [calls EXCEPT ![c] =
            [[calls[c] EXCEPT !.phase = "emptied"] EXCEPT !.lines = sessions[calls[c].session].items]]
      BY <3>1, <3>2 DEF Typed
    <3> QED
      BY <2>3, <3>3, CallPut DEF Call
  <2> QED
    BY <1>10, <2>4 DEF DeleteLines, Typed
<1>11. CASE WriteLines(c)
  <2>1. calls' \in [Callers -> Call]
    BY <1>11, CallOver DEF WriteLines
  <2>2. calls[c] \in UpdateCall \cup NotesCall
    BY <1>11, CallKinds DEF WriteLines, In
  <2>3. sessions' \in [Sessions -> SessionRow]
    <3>1. calls[c].session \in Sessions
      BY <2>2 DEF UpdateCall, NotesCall
    <3>2. sessions' = [sessions EXCEPT ![calls[c].session] = Updated(@, calls[c])]
      BY <1>11 DEF WriteLines
    <3>3. Updated(sessions[calls[c].session], calls[c]) \in SessionRow
      BY <2>2, <3>1, UpdatedTyped DEF Typed
    <3> QED
      BY <3>1, <3>2, <3>3 DEF Typed
  <2> QED
    BY <1>11, <2>1, <2>3 DEF WriteLines, Typed
<1>12. CASE Finalize(c)
  <2>1. calls' \in [Callers -> Call]
    BY <1>12, CallOver DEF Finalize
  <2>2. sessions' \in [Sessions -> SessionRow]
    BY <1>12, SessionRowTyped DEF Finalize, Typed
  <2> QED
    BY <1>12, <2>1, <2>2 DEF Finalize, Typed
<1>13. CASE ReadCalculation(c)
  <2>1. calls' \in [Callers -> Call]
    <3>1. calls[c].handler = "quote"
      BY <1>13 DEF ReadCalculation, In
    <3>2. [calls[c] EXCEPT !.phase = "read"] \in Call
      BY <3>1, GoesOn DEF Call
    <3> QED
      BY <1>13, <3>2, CallPut, CallOver DEF ReadCalculation, Go
  <2> QED
    BY <1>13, <2>1 DEF ReadCalculation, Typed
<1>14. CASE CreateQuote(c)
  <2>1. calls' \in [Callers -> Call]
    BY <1>14, CallOver DEF CreateQuote
  <2>2. calls[c].session \in Sessions /\ calls[c].request \in Requests \cup {NoRequest}
    BY <1>14, CallKinds DEF CreateQuote, In, QuoteCall
  <2>3. quotes' \subseteq QuoteRow
    <3>1. [session |-> calls[c].session, request |-> calls[c].request, final |-> FALSE] \in QuoteRow
      BY <2>2 DEF QuoteRow
    <3> QED
      BY <1>14, <3>1 DEF CreateQuote, Typed
  <2>4. requests' \in [Requests -> RequestRow]
    <3>1. CASE calls[c].request = NoRequest
      BY <1>14, <3>1 DEF CreateQuote, Typed
    <3>2. CASE calls[c].request # NoRequest
      <4>1. requests' = [requests EXCEPT ![calls[c].request].status =
                           IF @ \in {"submitted", "processing"} THEN "processing" ELSE @]
        BY <1>14, <3>2 DEF CreateQuote
      <4> DEFINE status == IF requests[calls[c].request].status \in {"submitted", "processing"}
                           THEN "processing" ELSE requests[calls[c].request].status
      <4>2. calls[c].request \in Requests
        BY <2>2, <3>2
      <4>3. requests' = [requests EXCEPT ![calls[c].request] = [@ EXCEPT !.status = status]]
        BY <4>1, <4>2 DEF Typed
      <4>4. status \in {"NONE", "draft", "submitted", "processing", "quoted"}
        BY <4>2 DEF Typed, RequestRow
      <4> HIDE DEF status
      <4> QED
        BY <4>2, <4>3, <4>4, RequestRowTyped DEF Typed
    <3> QED
      BY <3>1, <3>2
  <2> QED
    BY <1>14, <2>1, <2>3, <2>4 DEF CreateQuote, Typed
<1>15. CASE Fail(c)
  BY <1>15, CallOver DEF Fail, Typed
<1> QED
  BY <1>1, <1>2, <1>3, <1>4, <1>5, <1>6, <1>7, <1>8, <1>9, <1>10, <1>11, <1>12, <1>13, <1>14, <1>15
     DEF GoOn

LEMMA RatesTyped ==
  ASSUME Typed, NEW from \in Days, NEW value \in RateValues, CreateRate(from, value)
  PROVE  rates' \subseteq RateRow /\ IsFiniteSet(rates')
<1>1. IsFiniteSet(rates) /\ Cardinality(rates) + 1 \in Nat /\ LastDay \in Nat
  BY FS_CardinalityType, CalculationAssumption DEF Typed
<1>2. \A x \in RateRow : [x EXCEPT !.to = IF @ = Never THEN from ELSE @] \in RateRow
  <2> SUFFICES ASSUME NEW x \in RateRow
               PROVE  [x EXCEPT !.to = IF @ = Never THEN from ELSE @] \in RateRow
    OBVIOUS
  <2> DEFINE to == IF x.to = Never THEN from ELSE x.to
  <2>1. to \in 0..Never
    BY <1>1 DEF RateRow, Days, Never
  <2>2. [x EXCEPT !.to = IF @ = Never THEN from ELSE @] = [x EXCEPT !.to = to]
    BY DEF RateRow
  <2> HIDE DEF to
  <2> QED
    BY <2>1, <2>2 DEF RateRow
<1>3. ClosedAt(from) \subseteq RateRow
  BY <1>2 DEF ClosedAt, Typed
<1>4. IsFiniteSet(ClosedAt(from))
  <2> DEFINE close == [x \in rates |-> [x EXCEPT !.to = IF @ = Never THEN from ELSE @]]
  <2>1. ClosedAt(from) = {close[x] : x \in rates}
    BY DEF ClosedAt
  <2>2. close \in Surjection(rates, Range(close)) /\ Range(close) = {close[x] : x \in rates}
    BY DEF Surjection, Range
  <2> HIDE DEF close
  <2> QED
    BY <1>1, <2>1, <2>2, FS_Surjection
<1>5. Never \in 0..Never /\ from \in 0..LastDay
  BY <1>1 DEF Never, Days
<1>6. [number |-> Cardinality(rates) + 1, value |-> value, from |-> from, to |-> Never] \in RateRow
  BY <1>1, <1>5 DEF RateRow
<1> QED
  BY <1>3, <1>4, <1>6, FS_AddElement DEF CreateRate

\* The steps that no call takes.
Aside ==
  \/ \E supplier \in Suppliers : ConfirmDecision(supplier)
  \/ \E status \in {"LOST", "UNQUALIFIED", "CONVERTED"} : CloseLead(status)
  \/ \E s \in Rows : SoftDelete(s)
  \/ \E q \in quotes : FinalizeQuote(q) \/ NextVersion(q)
  \/ \E item \in Lines, ofLead, head \in BOOLEAN : Preview(item, ofLead, head)
  \/ \E item \in Lines : PreviewQuote(item)
  \/ \E from \in Days, value \in RateValues : CreateRate(from, value)
  \/ Tick

LEMMA AsideTyped ==
  ASSUME Typed, Aside
  PROVE  Typed'
<1> lead \in LeadRow
  BY DEF Typed
<1>1. ASSUME NEW supplier \in Suppliers, ConfirmDecision(supplier) PROVE Typed'
  <2>1. lead' \in LeadRow
    BY <1>1, LeadRowTyped DEF ConfirmDecision
  <2> QED
    BY <1>1, <2>1 DEF ConfirmDecision, Typed
<1>2. ASSUME NEW status \in {"LOST", "UNQUALIFIED", "CONVERTED"}, CloseLead(status)
      PROVE Typed'
  <2>1. lead' \in LeadRow
    BY <1>2, LeadRowTyped DEF CloseLead
  <2> QED
    BY <1>2, <2>1 DEF CloseLead, Typed
<1>3. ASSUME NEW s \in Rows, SoftDelete(s) PROVE Typed'
  <2>1. sessions' \in [Sessions -> SessionRow]
    BY <1>3, SessionRowTyped DEF SoftDelete, Typed, Rows, Made
  <2> QED
    BY <1>3, <2>1 DEF SoftDelete, Typed
<1>4. ASSUME NEW q \in quotes, FinalizeQuote(q) \/ NextVersion(q) PROVE Typed'
  <2>1. q \in QuoteRow
    BY DEF Typed
  <2>2. [q EXCEPT !.final = TRUE] \in QuoteRow /\ [q EXCEPT !.final = FALSE] \in QuoteRow
    BY <2>1 DEF QuoteRow
  <2>3. quotes' \subseteq QuoteRow
    BY <1>4, <2>2 DEF FinalizeQuote, NextVersion, Typed
  <2>4. requests' \in [Requests -> RequestRow]
    <3>1. CASE requests' = [requests EXCEPT ![q.request].status = "quoted"] /\ q.request # NoRequest
      <4>1. q.request \in Requests
        BY <2>1, <3>1 DEF QuoteRow
      <4>2. requests' = [requests EXCEPT ![q.request] = [@ EXCEPT !.status = "quoted"]]
        BY <3>1
      <4> QED
        BY <4>1, <4>2, RequestRowTyped DEF Typed
    <3> QED
      BY <1>4, <3>1 DEF FinalizeQuote, NextVersion, Typed
  <2> QED
    BY <1>4, <2>3, <2>4 DEF FinalizeQuote, NextVersion, Typed
<1>5. ASSUME NEW item, NEW ofLead, NEW head, Preview(item, ofLead, head) PROVE Typed'
  BY <1>5 DEF Preview, Typed
<1>6. ASSUME NEW item, PreviewQuote(item) PROVE Typed'
  BY <1>6 DEF PreviewQuote, Typed
<1>7. ASSUME NEW from \in Days, NEW value \in RateValues, CreateRate(from, value)
      PROVE Typed'
  BY <1>7, RatesTyped DEF CreateRate, Typed
<1>8. ASSUME Tick PROVE Typed'
  BY <1>8, CalculationAssumption DEF Tick, Typed, Days
<1> QED
  BY <1>1, <1>2, <1>3, <1>4, <1>5, <1>6, <1>7, <1>8 DEF Aside

LEMMA TypedStep ==
  ASSUME Typed, [Next]_vars
  PROVE  Typed'
<1>1. ASSUME NEW c \in Callers, StartCall(c)
      PROVE  Typed'
  <2>1. PICK call \in Call : Begin(c, call)
    BY <1>1, StartTyped
  <2>2. calls' \in [Callers -> Call]
    BY <2>1, CallPut DEF Begin
  <2> QED
    BY <1>1, <2>2, StartWritesNothing DEF Typed
<1>2. CASE UNCHANGED vars
  BY <1>2 DEF vars, Typed
<1> QED
  BY <1>1, <1>2, GoOnTyped, AsideTyped DEF Next, Aside

-----------------------------------------------------------------------------
\* Qualification.
QualifyTrue == LeadTrue /\ LockTrue /\ AutomaticTrue

\* Most steps leave the lead, who holds its lock and its automatic request.
LEMMA QualifyFrame ==
  ASSUME QualifyTrue, lead' = lead, decision' = decision,
         \A r \in Requests : requests'[r].automatic = requests[r].automatic,
         \A r \in Requests : requests'[r].status = "NONE" => requests'[r] = requests[r],
         \A c \in Callers : Holds(calls'[c]) => calls'[c] = calls[c],
         \A c \in Callers :
           CameLate(calls'[c]) => calls'[c] = calls[c] \/ lead.status # "IN_PROGRESS"
  PROVE  QualifyTrue'
<1>1. Existing # {} => Existing' # {}
  BY DEF Existing
<1>2. LeadTrue'
  BY <1>1 DEF QualifyTrue, LeadTrue
<1>3. LockTrue'
  BY DEF QualifyTrue, LockTrue
<1>4. AutomaticTrue'
  BY DEF QualifyTrue, AutomaticTrue
<1> QED
  BY <1>2, <1>3, <1>4 DEF QualifyTrue

\* How calls begin.
LEMMA StartFresh ==
  ASSUME Typed, NEW c \in Callers, StartCall(c)
  PROVE  /\ \A b \in Callers : b # c => calls'[b] = calls[b]
         /\ calls'[c].handler = "qualify" =>
              /\ calls'[c].phase \in {"read", "finish"}
              /\ calls'[c].phase = "finish" => lead.status = "QUALIFIED"
         /\ calls'[c].handler \in {"submit", "edit"} => calls'[c].phase = "read"
         /\ calls'[c].handler = "quote" /\ calls'[c].phase = "read" => Quotable(calls'[c].session)
<1>1. PICK call \in Call : Begin(c, call)
  BY StartTyped
<1>2. calls'[c] = call /\ \A b \in Callers : b # c => calls'[b] = calls[b]
  BY <1>1, CallPut DEF Begin
<1>3. \A new : Begin(c, new) => calls'[c] = new
  BY <1>1, <1>2, CallPut DEF Begin, Typed
<1>4. CASE StartQualify(c)
  <2>1. calls'[c] = [handler |-> "qualify",
                     phase |-> IF lead.status = "QUALIFIED" THEN "finish" ELSE "read"]
    BY <1>3, <1>4 DEF StartQualify
  <2> QED
    BY <1>2, <2>1
<1>5. CASE StartCreateRequest(c)
  <2>1. calls'[c].handler = "request"
    BY <1>3, <1>5 DEF StartCreateRequest
  <2> QED
    BY <1>2, <2>1
<1>6. CASE StartCalculate(c)
  <2>1. calls'[c].handler = "calculate"
    BY <1>3, <1>6 DEF StartCalculate
  <2> QED
    BY <1>2, <2>1
<1>7. ASSUME NEW r, StartUpdateRequest(c, r)
      PROVE  calls'[c].handler = "edit" /\ calls'[c].phase = "read"
  BY <1>3, <1>7 DEF StartUpdateRequest
<1>8. ASSUME NEW r, StartSubmit(c, r)
      PROVE  calls'[c].handler = "submit" /\ calls'[c].phase = "read"
  BY <1>3, <1>8 DEF StartSubmit
<1>9. ASSUME NEW r, StartQuoteOfRequest(c, r)
      PROVE  calls'[c].handler = "quote" /\ calls'[c].phase = "request"
  BY <1>3, <1>9 DEF StartQuoteOfRequest
<1>10. ASSUME NEW s, StartUpdate(c, s)
      PROVE  calls'[c].handler = "update"
  <2>1. ASSUME NEW i, Begin(c, [handler |-> "update", phase |-> "read", session |-> s, items |-> i,
                                total |-> i, basis |-> decision.at, lines |-> {}])
        PROVE  calls'[c].handler = "update"
    BY <1>3, <2>1
  <2>2. ASSUME Begin(c, [handler |-> "update", phase |-> "notes", session |-> s,
                         total |-> sessions[s].total])
        PROVE  calls'[c].handler = "update"
    BY <1>3, <2>2
  <2> QED
    BY <1>10, <2>1, <2>2 DEF StartUpdate
<1>11. ASSUME NEW s, StartFinalize(c, s)
      PROVE  calls'[c].handler = "finalize"
  BY <1>3, <1>11 DEF StartFinalize
<1>12. ASSUME NEW s, StartQuote(c, s)
      PROVE  calls'[c].handler = "quote" /\ calls'[c].session = s /\ Quotable(s)
  BY <1>3, <1>12 DEF StartQuote
<1> QED
  BY <1>2, <1>4, <1>5, <1>6, <1>7, <1>8, <1>9, <1>10, <1>11, <1>12 DEF StartCall

LEMMA LockFreeMeans == LockFree <=> \A c \in Callers : ~ Holds(calls[c])
BY DEF LockFree, In, Holds

LEMMA AutomaticCreated ==
  ASSUME Typed, AutomaticTrue, \A r \in Requests : ~ requests[r].automatic, CreateAutomatic
  PROVE  AutomaticTrue' /\ Existing' # {}
<1>1. PICK r \in NewRequests :
        requests' = [requests EXCEPT ![r] = [NoRow EXCEPT !.status = "draft", !.automatic = TRUE]]
  BY DEF CreateAutomatic
<1>2. r \in Requests
  BY NewRequestsTyped
<1>3. /\ requests'[r].status = "draft"
      /\ \A x \in Requests : x # r => requests'[x] = requests[x]
  BY <1>1, <1>2 DEF Typed, NoRow
<1>4. AutomaticTrue'
  BY <1>3 DEF AutomaticTrue
<1>5. r \in Existing'
  BY <1>2, <1>3 DEF Existing
<1> QED
  BY <1>4, <1>5

LEMMA ClaimQualifyTrue ==
  ASSUME Typed, QualifyTrue, NEW c \in Callers, ClaimQualify(c)
  PROVE  QualifyTrue'
<1>1. UNCHANGED <<lead, decision, requests>> /\ In(c, "qualify", "read")
  BY DEF ClaimQualify
<1>2. \A b \in Callers : ~ Holds(calls[b])
  BY LockFreeMeans DEF ClaimQualify
<1>3. CASE Claimable /\ Go(c, [calls[c] EXCEPT !.phase = "claimed"])
  <2>1. [calls[c] EXCEPT !.phase = "claimed"] \in Call
    BY <1>1, GoesOn DEF In, Call
  <2>2. /\ calls'[c] = [calls[c] EXCEPT !.phase = "claimed"]
        /\ \A b \in Callers : b # c => calls'[b] = calls[b]
    BY <1>3, <2>1, CallPut DEF Go
  <2>3. \A b \in Callers : Holds(calls'[b]) => b = c
    BY <1>2, <2>2
  <2>4. lead.status = "IN_PROGRESS" /\ \A r \in Requests : ~ requests[r].automatic
    BY <1>3 DEF Claimable, QualifyTrue, LeadTrue
  <2>5. ~ \E b \in Callers : CameLate(calls'[b])
    <3>1. \A b \in Callers : ~ CameLate(calls[b])
      BY <2>4 DEF QualifyTrue, LockTrue
    <3>2. calls[c] \in QualifyCall
      BY <1>1, CallKinds DEF In
    <3>3. calls'[c].phase = "claimed"
      BY <2>2, <3>2 DEF QualifyCall
    <3> QED
      BY <2>2, <3>1, <3>3 DEF CameLate
  <2>6. LockTrue'
    BY <1>1, <2>3, <2>4, <2>5 DEF LockTrue
  <2> QED
    BY <1>1, <2>6 DEF QualifyTrue, LeadTrue, AutomaticTrue, Existing
<1>4. CASE lead.status = "QUALIFIED" /\ Go(c, [calls[c] EXCEPT !.phase = "finish"])
  <2>1. [calls[c] EXCEPT !.phase = "finish"] \in Call /\ calls[c] \in QualifyCall
    BY <1>1, GoesOn, CallKinds DEF In, Call
  <2>2. /\ calls'[c] = [calls[c] EXCEPT !.phase = "finish"]
        /\ \A b \in Callers : b # c => calls'[b] = calls[b]
    BY <1>4, <2>1, CallPut DEF Go
  <2>3. ~ Holds(calls'[c])
    BY <2>1, <2>2 DEF Holds, QualifyCall
  <2>4. lead.status # "IN_PROGRESS"
    BY <1>1, <1>4
  <2> QED
    BY <1>1, <2>2, <2>3, <2>4, QualifyFrame
<1>5. CASE End(c)
  <2>1. calls'[c] = Idle /\ \A b \in Callers : b # c => calls'[b] = calls[b]
    BY <1>5, CallOver
  <2>2. ~ Holds(calls'[c]) /\ ~ CameLate(calls'[c])
    BY <2>1 DEF Holds, CameLate, Idle
  <2> QED
    BY <1>1, <2>1, <2>2, QualifyFrame
<1> QED
  BY <1>3, <1>4, <1>5 DEF ClaimQualify

LEMMA FinishQualifiedTrue ==
  ASSUME Typed, QualifyTrue, NEW c \in Callers, FinishQualified(c)
  PROVE  QualifyTrue'
<1>1. UNCHANGED <<lead, decision, requests>> /\ In(c, "qualify", "finish")
  BY DEF FinishQualified
<1>2. \A b \in Callers : ~ Holds(calls[b])
  BY LockFreeMeans DEF FinishQualified
<1>3. CASE Existing = {}
  <2>1. [calls[c] EXCEPT !.phase = "checked"] \in Call /\ calls[c] \in QualifyCall
    BY <1>1, GoesOn, CallKinds DEF In, Call
  <2>2. /\ calls'[c] = [calls[c] EXCEPT !.phase = "checked"]
        /\ \A b \in Callers : b # c => calls'[b] = calls[b]
    BY <1>3, <2>1, CallPut DEF Go, FinishQualified
  <2>3. \A b \in Callers : Holds(calls'[b]) => b = c
    BY <1>2, <2>2
  <2>4. \A r \in Requests : requests[r] = NoRow
    BY <1>3 DEF QualifyTrue, AutomaticTrue, Existing
  <2>5. calls'[c].phase # "claimed"
    BY <2>1, <2>2 DEF QualifyCall
  <2>6. lead.status # "IN_PROGRESS"
    BY <1>1 DEF QualifyTrue, LockTrue, CameLate, In
  <2>7. LockTrue'
    BY <1>1, <2>3, <2>4, <2>5, <2>6 DEF LockTrue, NoRow
  <2> QED
    BY <1>1, <2>7 DEF QualifyTrue, LeadTrue, AutomaticTrue, Existing
<1>4. CASE Existing # {}
  <2>1. calls'[c] = Idle /\ \A b \in Callers : b # c => calls'[b] = calls[b]
    BY <1>4, CallOver DEF FinishQualified
  <2>2. ~ Holds(calls'[c]) /\ ~ CameLate(calls'[c])
    BY <2>1 DEF Holds, CameLate, Idle
  <2> QED
    BY <1>1, <2>1, <2>2, QualifyFrame
<1> QED
  BY <1>3, <1>4

LEMMA CommitQualifyTrue ==
  ASSUME Typed, QualifyTrue, NEW c \in Callers, CommitQualify(c)
  PROVE  QualifyTrue'
<1>1. Holds(calls[c]) /\ UNCHANGED decision
  BY DEF CommitQualify, In, Holds
<1>2. calls'[c] = Idle /\ \A b \in Callers : b # c => calls'[b] = calls[b]
  BY CallOver DEF CommitQualify
<1>3. \A b \in Callers : ~ Holds(calls'[b])
  BY <1>1, <1>2 DEF QualifyTrue, LockTrue, Holds, Idle
<1>4. LockTrue'
  <2>1. lead.status # "IN_PROGRESS" => lead'.status # "IN_PROGRESS"
    BY DEF CommitQualify, Typed, LeadRow
  <2>2. lead.status = "IN_PROGRESS" => \A b \in Callers : ~ CameLate(calls'[b])
    BY <1>2 DEF QualifyTrue, LockTrue, CameLate, Idle
  <2> QED
    BY <1>3, <2>1, <2>2 DEF LockTrue
<1>5. \A r \in Requests : ~ requests[r].automatic
  BY <1>1 DEF QualifyTrue, LockTrue
<1>6. AutomaticTrue' /\ Existing' # {}
  BY <1>5, AutomaticCreated DEF CommitQualify, QualifyTrue, AutomaticTrue, Existing
<1>7. LeadTrue'
  <2>1. lead \in LeadRow /\ decision.at \in Nat
    BY DEF Typed
  <2>2. CASE In(c, "qualify", "claimed") /\ lead' = [lead EXCEPT !.status = "QUALIFIED", !.deals = @ + 1, !.open = @ + 1]
    <3>1. /\ lead.status = "IN_PROGRESS" /\ lead.deals = 0 /\ lead.open = 0 /\ lead.closed = 0
          /\ decision.at = 0
      BY <1>1, <2>2 DEF QualifyTrue, LockTrue, LeadTrue, In
    <3>2. /\ lead'.status = "QUALIFIED" /\ lead'.deals = 1 /\ lead'.open = 1 /\ lead'.closed = 0
      BY <2>1, <2>2, <3>1 DEF LeadRow
    <3> QED
      BY <1>1, <1>6, <3>1, <3>2 DEF LeadTrue
  <2>3. CASE In(c, "qualify", "checked") /\ UNCHANGED lead
    <3>1. lead.status # "IN_PROGRESS"
      BY <2>3 DEF QualifyTrue, LockTrue, In, CameLate
    <3> QED
      BY <1>1, <1>6, <2>3, <3>1 DEF LeadTrue, QualifyTrue
  <2> QED
    BY <2>2, <2>3 DEF CommitQualify
<1> QED
  BY <1>4, <1>6, <1>7 DEF QualifyTrue

-----------------------------------------------------------------------------
\* What becomes of a call that goes on: it is over, or in its next phase.
LEMMA GoOnFresh ==
  ASSUME Typed, NEW c \in Callers, GoOn(c)
  PROVE  /\ \A b \in Callers : b # c => calls'[b] = calls[b]
         /\ calls'[c].handler = "qualify" => ClaimQualify(c) \/ FinishQualified(c)
         /\ calls'[c].handler = "edit" =>
              /\ DeleteGroups(c)
              /\ calls'[c].gone \subseteq Made
              /\ calls'[c].edit # "revision" => \A q \in quotes : q.session \notin calls'[c].gone
         /\ calls'[c].handler = "submit" =>
              /\ ClaimSubmission(c)
              /\ calls'[c].request = calls[c].request
              /\ StillDraft(calls[c].request)
              /\ requests' = [requests EXCEPT ![calls[c].request].status = "submitted"]
         /\ calls'[c].handler = "quote" =>
              /\ ReadCalculation(c)
              /\ Quotable(calls'[c].session)
<1>1. ASSUME NEW call \in Call, Go(c, call)
      PROVE  calls'[c] = call /\ \A b \in Callers : b # c => calls'[b] = calls[b]
  BY <1>1, CallPut DEF Go
<1>2. Idle.handler = "none"
  BY DEF Idle
<1>3. End(c) => calls'[c].handler = "none" /\ \A b \in Callers : b # c => calls'[b] = calls[b]
  BY <1>2, CallOver
<1>4. CASE ClaimQualify(c)
  <2>1. calls[c].handler = "qualify" /\ calls[c] \in QualifyCall
    BY <1>4, CallKinds DEF ClaimQualify, In
  <2>2. \A phase \in {"claimed", "finish"} :
          /\ [calls[c] EXCEPT !.phase = phase] \in Call
          /\ [calls[c] EXCEPT !.phase = phase].handler = "qualify"
    BY <2>1, GoesOn DEF Call, QualifyCall
  <2>3. \/ \E phase \in {"claimed", "finish"} : Go(c, [calls[c] EXCEPT !.phase = phase])
        \/ End(c)
    BY <1>4 DEF ClaimQualify
  <2> QED
    BY <1>1, <1>3, <1>4, <2>2, <2>3
<1>5. CASE FinishQualified(c)
  <2>1. calls[c].handler = "qualify" /\ calls[c] \in QualifyCall
    BY <1>5, CallKinds DEF FinishQualified, In
  <2>2. /\ [calls[c] EXCEPT !.phase = "checked"] \in Call
        /\ [calls[c] EXCEPT !.phase = "checked"].handler = "qualify"
    BY <2>1, GoesOn DEF Call, QualifyCall
  <2> QED
    BY <1>1, <1>3, <1>5, <2>2 DEF FinishQualified
<1>6. CASE DeleteGroups(c)
  <2> DEFINE r == calls[c].request
             visible == IF calls[c].edit = "revision" THEN Calculations(r)
                        ELSE {s \in Rows : sessions[s].request = r}
             call == [calls[c] EXCEPT !.phase = "deleted", !.gone = visible]
  <2>1. calls[c] \in EditCall
    BY <1>6, CallKinds DEF DeleteGroups, In
  <2>2. visible \subseteq Made /\ Made \subseteq Sessions
    BY DEF Calculations, Rows, Made
  <2>3. \/ Go(c, call) /\ (calls[c].edit = "revision" \/ \A s \in visible : Deletable(s))
        \/ End(c)
    BY <1>6 DEF DeleteGroups
  <2> HIDE DEF visible
  <2>4. call \in EditCall /\ call.handler = "edit" /\ call.gone = visible /\ call.edit = calls[c].edit
    BY <2>1, <2>2 DEF EditCall
  <2>5. CASE Go(c, call) /\ (calls[c].edit = "revision" \/ \A s \in visible : Deletable(s))
    <3>1. calls'[c] = call /\ \A b \in Callers : b # c => calls'[b] = calls[b]
      BY <1>1, <2>4, <2>5 DEF Call
    <3>2. calls[c].edit # "revision" => \A q \in quotes : q.session \notin visible
      BY <2>5 DEF Deletable
    <3> HIDE DEF call
    <3> QED
      BY <1>6, <2>2, <2>4, <3>1, <3>2
  <2> QED
    BY <1>3, <2>3, <2>5
<1>7. CASE ClaimSubmission(c)
  <2>1. calls[c] \in SubmitCall
    BY <1>7, CallKinds DEF ClaimSubmission, In
  <2>2. /\ [calls[c] EXCEPT !.phase = "announce"] \in SubmitCall
        /\ [calls[c] EXCEPT !.phase = "announce"].handler = "submit"
        /\ [calls[c] EXCEPT !.phase = "announce"].request = calls[c].request
    BY <2>1 DEF SubmitCall
  <2>3. \/ /\ Go(c, [calls[c] EXCEPT !.phase = "announce"])
           /\ StillDraft(calls[c].request)
           /\ requests' = [requests EXCEPT ![calls[c].request].status = "submitted"]
        \/ End(c)
    BY <1>7 DEF ClaimSubmission
  <2> QED
    BY <1>1, <1>3, <1>7, <2>2, <2>3 DEF Call
<1>8. CASE DeleteLines(c)
  <2>1. calls[c] \in UpdateCall
    BY <1>8, CallKinds DEF DeleteLines, In, NotesCall
  <2>2. /\ calls'[c].handler = "update"
        /\ \A b \in Callers : b # c => calls'[b] = calls[b]
    BY <1>8, <2>1 DEF DeleteLines, Typed, UpdateCall
  <2> QED
    BY <2>2
<1>9. CASE ReadCalculation(c)
  <2>1. calls[c] \in QuoteCall
    BY <1>9, CallKinds DEF ReadCalculation, In
  <2>2. /\ [calls[c] EXCEPT !.phase = "read"] \in QuoteCall
        /\ [calls[c] EXCEPT !.phase = "read"].handler = "quote"
        /\ [calls[c] EXCEPT !.phase = "read"].session = calls[c].session
    BY <2>1 DEF QuoteCall
  <2>3. \/ Quotable(calls[c].session) /\ Go(c, [calls[c] EXCEPT !.phase = "read"])
        \/ End(c)
    BY <1>9 DEF ReadCalculation
  <2>4. CASE Quotable(calls[c].session) /\ Go(c, [calls[c] EXCEPT !.phase = "read"])
    <3>1. /\ calls'[c] = [calls[c] EXCEPT !.phase = "read"]
          /\ \A b \in Callers : b # c => calls'[b] = calls[b]
      BY <1>1, <2>2, <2>4 DEF Call
    <3>2. calls'[c].handler = "quote" /\ calls'[c].session = calls[c].session
      BY <2>2, <3>1
    <3> QED
      BY <1>9, <2>4, <3>1, <3>2
  <2> QED
    BY <1>3, <2>3, <2>4
<1>10. CASE End(c)
  BY <1>3, <1>10
<1> QED
  BY <1>4, <1>5, <1>6, <1>7, <1>8, <1>9, <1>10
     DEF GoOn, CommitQualify, CreateRequest, WriteGroups, Announce, Calculate, WriteLines, Finalize,
         CreateQuote, Fail

-----------------------------------------------------------------------------
\* Requests: every step but two leaves it to a request whose it is, and how
\* often it was announced, and takes no status back.
RowMoves(old, new) ==
  /\ Rank(old.status) <= Rank(new.status)
  /\ new.automatic = old.automatic
  /\ new.announced = old.announced
  /\ new.status = "NONE" => new = old

RequestsMove == \A r \in Requests : RowMoves(requests[r], requests'[r])

LEMMA RowStays ==
  ASSUME NEW row \in RequestRow
  PROVE  RowMoves(row, row)
BY DEF RowMoves, Rank, RequestRow

LEMMA RowRises ==
  ASSUME NEW row \in RequestRow, NEW status \in {"draft", "submitted", "processing", "quoted"},
         Rank(row.status) <= Rank(status)
  PROVE  RowMoves(row, [row EXCEPT !.status = status])
BY DEF RowMoves, RequestRow

LEMMA RequestsStay ==
  ASSUME Typed, UNCHANGED requests
  PROVE  RequestsMove
BY RowStays DEF RequestsMove, Typed

LEMMA OneRises ==
  ASSUME Typed, NEW r \in Requests, NEW status \in {"draft", "submitted", "processing", "quoted"},
         Rank(requests[r].status) <= Rank(status),
         requests' = [requests EXCEPT ![r].status = status]
  PROVE  RequestsMove
<1>1. requests[r] \in RequestRow
  BY DEF Typed
<1>2. requests'[r] = [requests[r] EXCEPT !.status = status]
  BY DEF Typed
<1>3. \A x \in Requests : x # r => requests'[x] = requests[x] /\ requests[x] \in RequestRow
  BY DEF Typed
<1>4. RowMoves(requests[r], requests'[r])
  BY <1>1, <1>2, RowRises
<1>5. \A x \in Requests : x # r => RowMoves(requests[x], requests'[x])
  BY <1>3, RowStays
<1> QED
  BY <1>4, <1>5 DEF RequestsMove

LEMMA GoOnMovesRequests ==
  ASSUME Typed, NEW c \in Callers, GoOn(c), ~ CommitQualify(c), ~ Announce(c)
  PROVE  RequestsMove
<1>1. CASE UNCHANGED requests
  BY <1>1, RequestsStay
<1>2. CASE CreateRequest(c)
  <2>1. PICK r \in NewRequests : requests' = [requests EXCEPT ![r].status = "draft"]
    BY <1>2 DEF CreateRequest
  <2>2. r \in Requests /\ requests[r].status = "NONE"
    BY NewRequestsTyped DEF Existing
  <2>3. Rank("NONE") <= Rank("draft")
    BY DEF Rank
  <2> QED
    BY <2>1, <2>2, <2>3, OneRises
<1>3. CASE ClaimSubmission(c)
  <2>1. calls[c].request \in Requests
    BY <1>3, CallKinds DEF ClaimSubmission, In, SubmitCall
  <2>2. CASE /\ StillDraft(calls[c].request)
             /\ requests' = [requests EXCEPT ![calls[c].request].status = "submitted"]
    <3>1. Rank("draft") <= Rank("submitted")
      BY DEF Rank
    <3> QED
      BY <2>1, <2>2, <3>1, OneRises DEF StillDraft
  <2> QED
    BY <1>1, <1>3, <2>2 DEF ClaimSubmission
<1>4. CASE CreateQuote(c)
  <2> DEFINE r == calls[c].request
  <2>1. CASE r # NoRequest
    <3>1. r \in Requests
      BY <1>4, <2>1, CallKinds DEF CreateQuote, In, QuoteCall
    <3>2. requests[r] \in RequestRow
      BY <3>1 DEF Typed
    <3> DEFINE status == IF requests[r].status \in {"submitted", "processing"}
                         THEN "processing" ELSE requests[r].status
    <3>3. requests' = [requests EXCEPT ![r].status = status]
      BY <1>4, <2>1, <3>1 DEF CreateQuote, Typed
    <3>4. CASE status \in {"draft", "submitted", "processing", "quoted"}
      <4>1. Rank(requests[r].status) <= Rank(status)
        BY <3>2 DEF Rank, RequestRow
      <4> HIDE DEF status
      <4> QED
        BY <3>1, <3>3, <3>4, <4>1, OneRises
    <3>5. CASE status \notin {"draft", "submitted", "processing", "quoted"}
      <4>1. status = requests[r].status
        BY <3>2, <3>5 DEF RequestRow
      <4> HIDE DEF status
      <4>2. requests' = requests
        BY <3>1, <3>2, <3>3, <4>1 DEF Typed, RequestRow
      <4> QED
        BY <4>2, RequestsStay
    <3> QED
      BY <3>4, <3>5
  <2> QED
    BY <1>1, <1>4, <2>1 DEF CreateQuote
<1> QED
  BY <1>1, <1>2, <1>3, <1>4
     DEF GoOn, ClaimQualify, FinishQualified, DeleteGroups, WriteGroups, Calculate, DeleteLines,
         WriteLines, Finalize, ReadCalculation, Fail

LEMMA AsideMovesRequests ==
  ASSUME Typed, Aside
  PROVE  RequestsMove
<1>1. CASE UNCHANGED requests
  BY <1>1, RequestsStay
<1>2. ASSUME NEW q \in quotes, FinalizeQuote(q), q.request # NoRequest
      PROVE  RequestsMove
  <2>1. q.request \in Requests
    BY <1>2 DEF Typed, QuoteRow
  <2>2. Rank(requests[q.request].status) <= Rank("quoted")
    BY <2>1 DEF Typed, RequestRow, Rank
  <2>3. requests' = [requests EXCEPT ![q.request].status = "quoted"]
    BY <1>2 DEF FinalizeQuote
  <2> QED
    BY <2>1, <2>2, <2>3, OneRises
<1> QED
  BY <1>1, <1>2
     DEF Aside, ConfirmDecision, CloseLead, SoftDelete, FinalizeQuote, NextVersion, Preview, PreviewQuote,
         CreateRate, Tick

\* The automatic request is made as a draft and the announcement only counted.
LEMMA CommitMovesRequests ==
  ASSUME Typed, AutomaticTrue, NEW c, CommitQualify(c)
  PROVE  \A r \in Requests :
           /\ Rank(requests[r].status) <= Rank(requests'[r].status)
           /\ requests'[r].announced = requests[r].announced
<1>1. CASE UNCHANGED requests
  BY <1>1, RequestsStay DEF RequestsMove, RowMoves
<1>2. CASE CreateAutomatic
  <2>1. PICK r \in NewRequests :
          requests' = [requests EXCEPT ![r] = [NoRow EXCEPT !.status = "draft", !.automatic = TRUE]]
    BY <1>2 DEF CreateAutomatic
  <2>2. r \in Requests /\ requests[r] = NoRow
    BY NewRequestsTyped DEF Existing, AutomaticTrue
  <2>3. /\ requests'[r].status = "draft" /\ requests'[r].announced = 0
        /\ \A x \in Requests : x # r => requests'[x] = requests[x] /\ requests[x] \in RequestRow
    BY <2>1, <2>2 DEF Typed, NoRow
  <2>4. \A row \in RequestRow : Rank(row.status) <= Rank(row.status)
    BY DEF RequestRow, Rank
  <2>5. Rank("NONE") <= Rank("draft")
    BY DEF Rank
  <2> QED
    BY <2>2, <2>3, <2>4, <2>5 DEF NoRow
<1> QED
  BY <1>1, <1>2 DEF CommitQualify

LEMMA AnnounceMovesRequests ==
  ASSUME Typed, NEW c \in Callers, Announce(c)
  PROVE  /\ calls[c].request \in Requests /\ Announces(calls[c])
         /\ \A r \in Requests :
              /\ requests'[r].status = requests[r].status
              /\ requests'[r].automatic = requests[r].automatic
              /\ r # calls[c].request => requests'[r] = requests[r]
         /\ requests'[calls[c].request].announced = requests[calls[c].request].announced + 1
<1>1. calls[c].request \in Requests /\ Announces(calls[c])
  BY CallKinds DEF Announce, In, SubmitCall, Announces
<1> DEFINE r == calls[c].request
           row == [requests[r] EXCEPT !.announced = @ + 1]
<1>2. requests' = [requests EXCEPT ![r].announced = @ + 1]
  BY DEF Announce
<1>3. requests[r] \in RequestRow
  BY <1>1 DEF Typed
<1>4. /\ row.status = requests[r].status /\ row.automatic = requests[r].automatic
      /\ row.announced = requests[r].announced + 1
  BY <1>3 DEF RequestRow
<1>5. requests'[r] = row /\ \A x \in Requests : x # r => requests'[x] = requests[x]
  BY <1>1, <1>2 DEF Typed
<1> HIDE DEF row
<1> QED
  BY <1>1, <1>4, <1>5

-----------------------------------------------------------------------------
\* A lead is qualified under its lock, whatever else is under way.
LEMMA RequestsMoveFrame ==
  ASSUME QualifyTrue, RequestsMove, UNCHANGED <<lead, decision>>,
         \A c \in Callers : Holds(calls'[c]) => calls'[c] = calls[c],
         \A c \in Callers :
           CameLate(calls'[c]) => calls'[c] = calls[c] \/ lead.status # "IN_PROGRESS"
  PROVE  QualifyTrue'
BY QualifyFrame DEF RequestsMove, RowMoves

LEMMA QualifyStarts ==
  ASSUME Typed, QualifyTrue, NEW c \in Callers, StartCall(c)
  PROVE  QualifyTrue'
<1>1. UNCHANGED <<lead, decision, requests>>
  BY StartWritesNothing
<1>2. \A b \in Callers : b # c => calls'[b] = calls[b]
  BY StartFresh
<1>3. ~ Holds(calls'[c])
  BY StartFresh DEF Holds
<1>4. CameLate(calls'[c]) => lead.status # "IN_PROGRESS"
  BY StartFresh DEF CameLate
<1> QED
  BY <1>1, <1>2, <1>3, <1>4, QualifyFrame

LEMMA QualifyGoesOn ==
  ASSUME Typed, QualifyTrue, AnnouncementsTrue, NEW c \in Callers, GoOn(c)
  PROVE  QualifyTrue'
<1>1. CASE ClaimQualify(c) \/ FinishQualified(c) \/ CommitQualify(c)
  BY <1>1, ClaimQualifyTrue, FinishQualifiedTrue, CommitQualifyTrue
<1>2. CASE ~ ClaimQualify(c) /\ ~ FinishQualified(c) /\ ~ CommitQualify(c)
  <2>1. UNCHANGED <<lead, decision>>
    BY <1>2 DEF GoOn, CreateRequest, DeleteGroups, WriteGroups, ClaimSubmission, Announce, Calculate,
                DeleteLines, WriteLines, Finalize, ReadCalculation, CreateQuote, Fail
  <2>2. \A b \in Callers : b # c => calls'[b] = calls[b]
    BY GoOnFresh
  <2>3. ~ Holds(calls'[c]) /\ ~ CameLate(calls'[c])
    BY <1>2, GoOnFresh DEF Holds, CameLate
  <2>4. CASE Announce(c)
    <3>1. \A r \in Requests :
            /\ requests'[r].status = requests[r].status
            /\ requests'[r].automatic = requests[r].automatic
            /\ r # calls[c].request => requests'[r] = requests[r]
      BY <2>4, AnnounceMovesRequests
    <3>2. requests[calls[c].request].status # "NONE"
      BY <2>4, AnnounceMovesRequests DEF AnnouncementsTrue
    <3>3. \A r \in Requests : requests'[r].status = "NONE" => requests'[r] = requests[r]
      BY <3>1, <3>2
    <3> QED
      BY <2>1, <2>2, <2>3, <3>1, <3>3, QualifyFrame
  <2>5. CASE ~ Announce(c)
    BY <1>2, <2>1, <2>2, <2>3, <2>5, GoOnMovesRequests, RequestsMoveFrame
  <2> QED
    BY <2>4, <2>5
<1> QED
  BY <1>1, <1>2

LEMMA QualifyAside ==
  ASSUME Typed, QualifyTrue, Aside
  PROVE  QualifyTrue'
<1> lead \in LeadRow /\ decision.at \in Nat
  BY DEF Typed
<1>1. ASSUME NEW supplier \in Suppliers, ConfirmDecision(supplier)
      PROVE  QualifyTrue'
  <2>1. /\ lead.status = "QUALIFIED" /\ UNCHANGED <<requests, calls>> /\ decision'.at = decision.at + 1
        /\ lead' = IF decision.at = 0 THEN [lead EXCEPT !.closed = @ + lead.open, !.open = 0] ELSE lead
    BY <1>1 DEF ConfirmDecision
  <2>2. CASE decision.at = 0
    <3>1. /\ lead'.status = lead.status /\ lead'.deals = lead.deals
          /\ lead'.closed = lead.closed + lead.open /\ lead'.open = 0
      BY <2>1, <2>2 DEF LeadRow
    <3>2. LeadTrue'
      BY <2>1, <3>1 DEF QualifyTrue, LeadTrue, Existing, LeadRow
    <3>3. LockTrue'
      BY <2>1, <3>1 DEF QualifyTrue, LockTrue
    <3> QED
      BY <2>1, <3>2, <3>3 DEF QualifyTrue, AutomaticTrue
  <2>3. CASE decision.at # 0
    BY <2>1, <2>3 DEF QualifyTrue, LeadTrue, LockTrue, AutomaticTrue, Existing
  <2> QED
    BY <2>2, <2>3
<1>2. ASSUME NEW status \in {"LOST", "UNQUALIFIED", "CONVERTED"}, CloseLead(status)
      PROVE  QualifyTrue'
  <2>1. /\ UNCHANGED <<decision, requests, calls>>
        /\ lead' = [lead EXCEPT !.status = status]
    BY <1>2 DEF CloseLead
  <2>2. /\ lead'.status = status /\ lead'.deals = lead.deals
        /\ lead'.closed = lead.closed /\ lead'.open = lead.open
    BY <2>1 DEF LeadRow
  <2>3. LeadTrue'
    BY <2>1, <2>2 DEF QualifyTrue, LeadTrue, Existing
  <2>4. \A c \in Callers : ~ Holds(calls[c])
    BY <1>2, LockFreeMeans DEF CloseLead
  <2>5. LockTrue'
    BY <2>1, <2>2, <2>4 DEF LockTrue
  <2> QED
    BY <2>1, <2>3, <2>5 DEF QualifyTrue, AutomaticTrue
<1>3. CASE UNCHANGED <<lead, decision, calls>>
  BY <1>3, AsideMovesRequests, RequestsMoveFrame
<1> QED
  BY <1>1, <1>2, <1>3
     DEF Aside, SoftDelete, FinalizeQuote, NextVersion, Preview, PreviewQuote, CreateRate, Tick

LEMMA QualifyStep ==
  ASSUME Typed, QualifyTrue, AnnouncementsTrue, [Next]_vars
  PROVE  QualifyTrue'
<1>1. CASE UNCHANGED vars
  BY <1>1 DEF vars, QualifyTrue, LeadTrue, LockTrue, AutomaticTrue, Existing
<1> QED
  BY <1>1, QualifyStarts, QualifyGoesOn, QualifyAside DEF Next, Aside

-----------------------------------------------------------------------------
\* Announcements.
LEMMA RanksOfDrafts ==
  ASSUME NEW old \in RequestRow, NEW new \in RequestRow, Rank(old.status) <= Rank(new.status),
         new.status \in {"NONE", "draft"}
  PROVE  old.status \in {"NONE", "draft"}
BY DEF RequestRow, Rank

LEMMA AnnouncementsFrame ==
  ASSUME Typed, Typed', AnnouncementsTrue,
         \A r \in Requests : /\ Rank(requests[r].status) <= Rank(requests'[r].status)
                             /\ requests'[r].announced = requests[r].announced,
         \A c \in Callers : Announces(calls'[c]) => calls'[c] = calls[c]
  PROVE  AnnouncementsTrue'
<1>1. \A r \in Requests :
        requests'[r].status \in {"NONE", "draft"} => requests[r].status \in {"NONE", "draft"}
  BY RanksOfDrafts DEF Typed
<1>2. \A c \in Callers : Announces(calls'[c]) => calls[c].request \in Requests
  BY CallKinds DEF Announces, SubmitCall
<1> QED
  BY <1>1, <1>2 DEF AnnouncementsTrue

LEMMA AnnouncementsStep ==
  ASSUME Typed, Typed', AutomaticTrue, AnnouncementsTrue, [Next]_vars
  PROVE  /\ AnnouncementsTrue'
         /\ \A r \in Requests : Rank(requests[r].status) <= Rank(requests'[r].status)
<1> DEFINE Same == \A r \in Requests : /\ Rank(requests[r].status) <= Rank(requests'[r].status)
                                       /\ requests'[r].announced = requests[r].announced
<1>1. RequestsMove => Same
  BY DEF RequestsMove, RowMoves
<1>2. UNCHANGED requests => Same
  BY <1>1, RequestsStay
<1>3. ASSUME NEW c \in Callers, StartCall(c)
      PROVE  AnnouncementsTrue' /\ Same
  <2>1. Same
    BY <1>2, <1>3, StartWritesNothing
  <2>2. \A b \in Callers : Announces(calls'[b]) => calls'[b] = calls[b]
    BY <1>3, StartFresh DEF Announces
  <2> QED
    BY <2>1, <2>2, AnnouncementsFrame
<1>4. ASSUME NEW c \in Callers, Announce(c)
      PROVE  AnnouncementsTrue' /\ \A r \in Requests : Rank(requests[r].status) <= Rank(requests'[r].status)
  <2> DEFINE r == calls[c].request
  <2>1. /\ r \in Requests /\ Announces(calls[c])
        /\ \A x \in Requests : /\ requests'[x].status = requests[x].status
                               /\ x # r => requests'[x] = requests[x]
        /\ requests'[r].announced = requests[r].announced + 1
    BY <1>4, AnnounceMovesRequests
  <2>2. /\ requests[r].announced = 0 /\ requests[r].status \notin {"NONE", "draft"}
        /\ \A b \in Callers : Announces(calls[b]) /\ calls[b].request = r => b = c
    BY <2>1 DEF AnnouncementsTrue
  <2>3. calls'[c] = Idle /\ \A b \in Callers : b # c => calls'[b] = calls[b]
    BY <1>4, CallOver DEF Announce
  <2>4. \A x \in Requests :
          /\ requests'[x].announced <= 1
          /\ requests'[x].status \in {"NONE", "draft"} => requests'[x].announced = 0
    BY <2>1, <2>2 DEF AnnouncementsTrue
  <2>5. ASSUME NEW b \in Callers, Announces(calls'[b])
        PROVE  /\ calls'[b] = calls[b] /\ calls[b].request # r /\ calls[b].request \in Requests
    <3>1. b # c
      BY <2>3, <2>5 DEF Announces, Idle
    <3>2. calls[b] \in SubmitCall
      BY <2>3, <2>5, <3>1, CallKinds DEF Announces
    <3> QED
      BY <2>2, <2>3, <2>5, <3>1, <3>2 DEF SubmitCall
  <2>6. AnnouncementsTrue'
    BY <2>1, <2>4, <2>5 DEF AnnouncementsTrue
  <2>7. \A row \in RequestRow : Rank(row.status) <= Rank(row.status)
    BY DEF RequestRow, Rank
  <2> QED
    BY <2>1, <2>6, <2>7 DEF Typed
<1>5. ASSUME NEW c \in Callers, GoOn(c), ~ Announce(c)
      PROVE  AnnouncementsTrue' /\ Same
  <2>1. Same
    BY <1>1, <1>5, GoOnMovesRequests, CommitMovesRequests
  <2>2. \A b \in Callers : b # c => calls'[b] = calls[b]
    BY <1>5, GoOnFresh
  <2>3. CASE ~ Announces(calls'[c])
    <3>1. \A b \in Callers : Announces(calls'[b]) => calls'[b] = calls[b]
      BY <2>2, <2>3
    <3> QED
      BY <2>1, <3>1, AnnouncementsFrame
  <2>4. CASE Announces(calls'[c])
    <3> DEFINE r == calls[c].request
    <3>1. /\ ClaimSubmission(c) /\ calls'[c].request = r /\ requests[r].status = "draft"
          /\ requests' = [requests EXCEPT ![r].status = "submitted"]
      BY <1>5, <2>4, GoOnFresh DEF Announces, StillDraft
    <3>2. r \in Requests
      BY <3>1, CallKinds DEF ClaimSubmission, In, SubmitCall
    <3>3. requests'[r].status = "submitted" /\ \A x \in Requests : x # r => requests'[x] = requests[x]
      BY <3>1, <3>2 DEF Typed, RequestRow
    <3>4. requests[r].announced = 0
      BY <3>1, <3>2 DEF AnnouncementsTrue
    <3>5. \A b \in Callers : Announces(calls[b]) => calls[b].request # r /\ calls[b].request \in Requests
      BY <3>1, CallKinds DEF AnnouncementsTrue, Announces, SubmitCall
    <3>6. \A x \in Requests :
            /\ requests'[x].announced <= 1
            /\ requests'[x].status \in {"NONE", "draft"} => requests'[x].announced = 0
      BY <2>1, <3>3 DEF AnnouncementsTrue
    <3>7. \A b \in Callers : Announces(calls'[b]) =>
            /\ requests'[calls'[b].request].status \notin {"NONE", "draft"}
            /\ requests'[calls'[b].request].announced = 0
      BY <2>1, <2>2, <3>1, <3>2, <3>3, <3>4, <3>5 DEF AnnouncementsTrue
    <3>8. ASSUME NEW b \in Callers, NEW d \in Callers, Announces(calls'[b]), Announces(calls'[d]),
                 calls'[b].request = calls'[d].request
          PROVE  b = d
      <4>1. CASE b = c
        BY <2>2, <3>1, <3>5, <3>8, <4>1
      <4>2. CASE d = c
        BY <2>2, <3>1, <3>5, <3>8, <4>2
      <4>3. CASE b # c /\ d # c
        BY <2>2, <3>8, <4>3 DEF AnnouncementsTrue
      <4> QED
        BY <4>1, <4>2, <4>3
    <3>9. AnnouncementsTrue'
      BY <3>6, <3>7, <3>8 DEF AnnouncementsTrue
    <3> QED
      BY <2>1, <3>9
  <2> QED
    BY <2>3, <2>4
<1>6. ASSUME Aside
      PROVE  AnnouncementsTrue' /\ Same
  <2>1. UNCHANGED calls
    BY <1>6 DEF Aside, ConfirmDecision, CloseLead, SoftDelete, FinalizeQuote, NextVersion, Preview,
                PreviewQuote, CreateRate, Tick
  <2>2. Same
    BY <1>1, <1>6, AsideMovesRequests
  <2> QED
    BY <2>1, <2>2, AnnouncementsFrame
<1>7. CASE UNCHANGED vars
  BY <1>2, <1>7, AnnouncementsFrame DEF vars
<1> QED
  BY <1>3, <1>4, <1>5, <1>6, <1>7 DEF Next, Aside

-----------------------------------------------------------------------------
\* Calculations: none that was made is forgotten, final or gone ones stay so,
\* those of quotes stay final, and new ones take the next numbers.
Keeps(old, new) ==
  /\ old.status # "NONE" => new.status # "NONE"
  /\ old.status \in {"finalized", "GONE"} => new.status \in {"finalized", "GONE"}

SessionsMove ==
  /\ \A s \in Sessions : Keeps(sessions[s], sessions'[s])
  /\ \A q \in quotes :
       sessions[q.session].status = "finalized" => sessions'[q.session].status = "finalized"
  /\ \E n \in Nat : Made' = Made \cup NextSessions(n)

LEMMA NoNumbers ==
  ASSUME NumbersTrue
  PROVE  NextSessions(0) = {}
BY Numbered DEF NextSessions, Sessions

LEMMA SessionsStay ==
  ASSUME Typed, NumbersTrue, UNCHANGED sessions
  PROVE  SessionsMove
<1>1. Made' = Made \cup NextSessions(0)
  BY NoNumbers DEF Made
<1> QED
  BY <1>1 DEF SessionsMove, Keeps

LEMMA OneChanges ==
  ASSUME Typed, NumbersTrue, NEW s \in Made, NEW row \in SessionRow,
         row.status = sessions[s].status \/ (s \in Rows /\ row.status = "finalized"),
         sessions' = [sessions EXCEPT ![s] = row]
  PROVE  SessionsMove
<1>1. s \in Sessions /\ sessions[s].status # "NONE"
  BY DEF Made
<1>2. sessions'[s] = row /\ \A t \in Sessions : t # s => sessions'[t] = sessions[t]
  BY <1>1 DEF Typed
<1>3. Keeps(sessions[s], row) /\ row.status # "NONE"
  BY <1>1 DEF Keeps, Rows
<1>4. Made' = Made
  BY <1>1, <1>2, <1>3 DEF Made
<1>5. Made' = Made \cup NextSessions(0)
  BY <1>4, NoNumbers
<1>6. \A t \in Sessions : Keeps(sessions[t], sessions'[t])
  BY <1>2, <1>3 DEF Keeps
<1>7. \A q \in quotes :
        sessions[q.session].status = "finalized" => sessions'[q.session].status = "finalized"
  BY <1>2 DEF Typed, QuoteRow
<1> QED
  BY <1>5, <1>6, <1>7 DEF SessionsMove

LEMMA OneIsNew ==
  ASSUME Typed, NumbersTrue, NEW s \in NextSessions(1), NEW row \in SessionRow, row.status # "NONE",
         sessions' = [sessions EXCEPT ![s] = row]
  PROVE  SessionsMove
<1>1. s \in Sessions /\ s \notin Made
  BY NumbersAreNew
<1>2. sessions'[s] = row /\ \A t \in Sessions : t # s => sessions'[t] = sessions[t]
  BY <1>1 DEF Typed
<1>3. NextSessions(1) = {s}
  BY Numbered DEF NextSessions, Sessions
<1>4. Made' = Made \cup NextSessions(1)
  BY <1>1, <1>2, <1>3 DEF Made
<1>5. \A t \in Sessions : Keeps(sessions[t], sessions'[t])
  BY <1>1, <1>2 DEF Keeps, Made
<1>6. \A q \in quotes :
        sessions[q.session].status = "finalized" => sessions'[q.session].status = "finalized"
  BY <1>1, <1>2 DEF Typed, QuoteRow, Made
<1> QED
  BY <1>4, <1>5, <1>6 DEF SessionsMove

LEMMA GroupsAreNew ==
  ASSUME Typed, NumbersTrue, NEW rows \in [Sessions -> SessionRow], NEW r, NEW i, NEW n \in Nat,
         NEW status \in {"draft", "finalized"},
         \A s \in Sessions : /\ Keeps(sessions[s], rows[s])
                             /\ sessions[s].status = "NONE" => rows[s].status = "NONE",
         \A q \in quotes :
           sessions[q.session].status = "finalized" => rows[q.session].status = "finalized",
         sessions' = WithGroups(rows, r, i, n, status)
  PROVE  SessionsMove
<1>1. \A s \in NextSessions(n) : s \in Sessions /\ s \notin Made
  BY NumbersAreNew
<1>2. \A s \in Sessions : s \notin NextSessions(n) => sessions'[s] = rows[s]
  BY DEF WithGroups
<1>3. \A s \in NextSessions(n) : sessions'[s].status = status
  BY <1>1 DEF WithGroups, NoSession
<1>4. Made' = Made \cup NextSessions(n)
  BY <1>1, <1>2, <1>3 DEF Made, Keeps
<1>5. \A s \in Sessions : Keeps(sessions[s], sessions'[s])
  BY <1>1, <1>2 DEF Keeps, Made
<1>6. \A q \in quotes :
        sessions[q.session].status = "finalized" => sessions'[q.session].status = "finalized"
  BY <1>1, <1>2 DEF Typed, QuoteRow, Made
<1> QED
  BY <1>4, <1>5, <1>6 DEF SessionsMove

LEMMA WriteGroupsMoves ==
  ASSUME Typed, NumbersTrue, CallsTrue, NEW c \in Callers, WriteGroups(c)
  PROVE  SessionsMove
<1> DEFINE without == [s \in Sessions |->
             IF s \notin calls[c].gone THEN sessions[s]
             ELSE IF calls[c].edit = "revision" THEN [sessions[s] EXCEPT !.deleted = TRUE]
             ELSE [NoSession EXCEPT !.status = "GONE"]]
           status == IF calls[c].edit = "draft" THEN "draft" ELSE "finalized"
<1>1. /\ calls[c] \in EditCall
      /\ calls[c].gone \subseteq Made
      /\ calls[c].edit # "revision" => \A q \in quotes : q.session \notin calls[c].gone
  BY CallKinds DEF WriteGroups, In, CallsTrue, CallTrue
<1>2. [NoSession EXCEPT !.status = "GONE"] \in SessionRow /\ [NoSession EXCEPT !.status = "GONE"].status = "GONE"
  BY DEF NoSession, SessionRow
<1>3. \A row \in SessionRow :
        /\ [row EXCEPT !.deleted = TRUE] \in SessionRow
        /\ [row EXCEPT !.deleted = TRUE].status = row.status
  BY DEF SessionRow
<1>4. without \in [Sessions -> SessionRow]
  BY <1>2, <1>3 DEF Typed
<1>5. \A s \in Sessions :
        \/ without[s].status = sessions[s].status
        \/ s \in calls[c].gone /\ calls[c].edit # "revision" /\ without[s].status = "GONE"
  BY <1>2, <1>3 DEF Typed
<1>6. status \in {"draft", "finalized"}
  OBVIOUS
<1>7. sessions' = WithGroups(without, calls[c].request, calls[c].items, calls[c].groups, status)
  BY DEF WriteGroups
<1>8. calls[c].groups \in Nat
  BY <1>1 DEF EditCall
<1> HIDE DEF without, status
<1>9. \A s \in Sessions : /\ Keeps(sessions[s], without[s])
                          /\ sessions[s].status = "NONE" => without[s].status = "NONE"
  BY <1>1, <1>5 DEF Keeps, Made
<1>10. \A q \in quotes :
         sessions[q.session].status = "finalized" => without[q.session].status = "finalized"
  BY <1>1, <1>5 DEF Typed, QuoteRow
<1> QED
  BY <1>4, <1>6, <1>7, <1>8, <1>9, <1>10, GroupsAreNew

LEMMA GoOnMovesSessions ==
  ASSUME Typed, NumbersTrue, CallsTrue, NEW c \in Callers, GoOn(c)
  PROVE  SessionsMove
<1>1. CASE UNCHANGED sessions
  BY <1>1, SessionsStay
<1>2. CASE CommitQualify(c)
  <2>1. CASE CreateAutomatic
    <3>1. PICK r \in NewRequests, i \in Items, s \in NextSessions(1) :
            sessions' = [sessions EXCEPT ![s] = QualificationSession(r, i)]
      BY <2>1 DEF CreateAutomatic
    <3>2. QualificationSession(r, i) \in SessionRow /\ QualificationSession(r, i).status = "draft"
      BY NewRequestsTyped DEF QualificationSession, NoSession, SessionRow
    <3> QED
      BY <3>1, <3>2, OneIsNew
  <2> QED
    BY <1>1, <1>2, <2>1 DEF CommitQualify
<1>3. CASE CreateRequest(c)
  <2>1. PICK r \in NewRequests :
          sessions' = WithGroups(sessions, r, calls[c].items, calls[c].groups, "draft")
    BY <1>3 DEF CreateRequest
  <2>2. calls[c].groups \in Nat
    BY <1>3, CallKinds DEF CreateRequest, In, CreateCall
  <2>3. sessions \in [Sessions -> SessionRow] /\ \A s \in Sessions : Keeps(sessions[s], sessions[s])
    BY DEF Typed, Keeps
  <2> QED
    BY <2>1, <2>2, <2>3, GroupsAreNew
<1>4. CASE WriteGroups(c)
  BY <1>4, WriteGroupsMoves
<1>5. CASE ClaimSubmission(c)
  <2>1. CASE sessions' = [s \in Sessions |->
                 IF s \in Calculations(calls[c].request) THEN [sessions[s] EXCEPT !.status = "finalized"]
                 ELSE sessions[s]]
    <3>1. \A s \in Sessions :
            \/ sessions'[s] = sessions[s]
            \/ s \in Rows /\ sessions'[s].status = "finalized"
      BY <2>1 DEF Typed, SessionRow, Calculations
    <3>2. \A s \in Sessions : Keeps(sessions[s], sessions'[s])
      BY <3>1 DEF Keeps
    <3>3. Made' = Made
      BY <3>1 DEF Made, Rows
    <3>4. \A q \in quotes :
            sessions[q.session].status = "finalized" => sessions'[q.session].status = "finalized"
      BY <3>1 DEF Typed, QuoteRow
    <3> QED
      BY <3>2, <3>3, <3>4, NoNumbers DEF SessionsMove
  <2> QED
    BY <1>1, <1>5, <2>1 DEF ClaimSubmission
<1>6. CASE Calculate(c)
  <2>1. calls[c].items \in Items /\ calls[c].basis \in Nat
    BY <1>6, CallKinds DEF Calculate, In, CalculateCall
  <2> DEFINE row == [NoSession EXCEPT !.status = "draft", !.items = {calls[c].items},
                                      !.total = calls[c].items, !.basis = calls[c].basis]
  <2>2. row \in SessionRow /\ row.status = "draft"
    BY <2>1 DEF NoSession, SessionRow
  <2>3. PICK s \in NextSessions(1) : sessions' = [sessions EXCEPT ![s] = row]
    BY <1>6 DEF Calculate
  <2> HIDE DEF row
  <2> QED
    BY <2>2, <2>3, OneIsNew
<1>7. CASE WriteLines(c)
  <2> DEFINE s == calls[c].session
             row == Updated(sessions[s], calls[c])
  <2>1. /\ calls[c] \in UpdateCall \cup NotesCall
        /\ s \in Made /\ s \in Sessions
        /\ sessions' = [sessions EXCEPT ![s] = row]
    BY <1>7, CallKinds DEF WriteLines, In, Rows, Made
  <2>2. sessions[s] \in SessionRow
    BY <2>1 DEF Typed
  <2>3. row \in SessionRow
    BY <2>1, <2>2, UpdatedTyped
  <2>4. row.status = sessions[s].status
    BY <2>2 DEF Updated, SessionRow
  <2> HIDE DEF row
  <2> QED
    BY <2>1, <2>3, <2>4, OneChanges
<1>8. CASE Finalize(c)
  <2> DEFINE s == calls[c].session
             row == [sessions[s] EXCEPT !.status = "finalized"]
  <2>1. s \in Rows /\ s \in Made /\ s \in Sessions
    BY <1>8 DEF Finalize, Rows, Made
  <2>2. sessions' = [sessions EXCEPT ![s] = row]
    BY <1>8 DEF Finalize
  <2>3. row \in SessionRow /\ row.status = "finalized"
    BY <2>1 DEF Typed, SessionRow
  <2> HIDE DEF row
  <2> QED
    BY <2>1, <2>2, <2>3, OneChanges
<1> QED
  BY <1>1, <1>2, <1>3, <1>4, <1>5, <1>6, <1>7, <1>8
     DEF GoOn, ClaimQualify, FinishQualified, DeleteGroups, Announce, DeleteLines, ReadCalculation,
         CreateQuote, Fail

LEMMA AsideMovesSessions ==
  ASSUME Typed, NumbersTrue, Aside
  PROVE  SessionsMove
<1>1. CASE UNCHANGED sessions
  BY <1>1, SessionsStay
<1>2. ASSUME NEW s \in Rows, SoftDelete(s)
      PROVE  SessionsMove
  <2> DEFINE row == [sessions[s] EXCEPT !.deleted = TRUE]
  <2>1. s \in Made /\ s \in Sessions
    BY DEF Rows, Made
  <2>2. sessions' = [sessions EXCEPT ![s] = row]
    BY <1>2 DEF SoftDelete
  <2>3. row \in SessionRow /\ row.status = sessions[s].status
    BY <2>1 DEF Typed, SessionRow
  <2> HIDE DEF row
  <2> QED
    BY <2>1, <2>2, <2>3, OneChanges
<1> QED
  BY <1>1, <1>2
     DEF Aside, ConfirmDecision, CloseLead, FinalizeQuote, NextVersion, Preview, PreviewQuote, CreateRate,
         Tick

LEMMA NumbersStep ==
  ASSUME Typed, NumbersTrue, SessionsMove
  PROVE  NumbersTrue' /\ Made \subseteq Made'
<1>1. PICK n \in Nat : Made' = Made \cup NextSessions(n)
  BY DEF SessionsMove
<1> QED
  BY <1>1, NumbersLater

-----------------------------------------------------------------------------
\* Quotes: apart from the new one they are those of before, made of the same.
SameQuotes ==
  \A q \in quotes' : \E p \in quotes : p.session = q.session

\* What is true of a call stays so, and is true of one that begins or goes on.
LEMMA CallsFrame ==
  ASSUME Typed, Typed', NumbersTrue, CallsTrue, SessionsMove, NEW c \in Callers,
         \A b \in Callers : b # c => calls'[b] = calls[b],
         CallTrue(calls'[c]),
         \A q \in quotes' : (\E p \in quotes : p.session = q.session)
                             \/ (q.session \notin Locked /\ calls'[c] = Idle)
  PROVE  CallsTrue'
<1>1. \A b \in Callers : calls'[b] \in Call /\ CallTrue(calls'[b])
  BY DEF Typed, CallsTrue
<1>2. ASSUME NEW b \in Callers, NEW q \in quotes', calls'[b].phase = "deleted", calls'[b].handler = "edit"
      PROVE  (\E p \in quotes : p.session = q.session) \/ q.session \notin calls'[b].gone
  <2>1. CASE b = c
    BY <1>2, <2>1 DEF Idle
  <2>2. CASE b # c
    <3>1. calls[b] # Idle /\ calls[b].phase = "deleted" /\ calls'[b] = calls[b]
      BY <1>2, <2>2 DEF Idle
    <3>2. calls'[b].gone \subseteq Locked
      BY <3>1 DEF Locked
    <3> QED
      BY <3>2
  <2> QED
    BY <2>1, <2>2
<1>3. Made \subseteq Made'
  BY NumbersStep
<1>4. ASSUME NEW b \in Callers, calls'[b].handler = "quote", calls'[b].phase = "read"
      PROVE  sessions'[calls'[b].session].status \in {"finalized", "GONE"}
  <2>1. calls'[b] \in QuoteCall
    BY <1>1, <1>4 DEF Call, Idle, QualifyCall, CreateCall, EditCall, SubmitCall, CalculateCall, UpdateCall,
                      NotesCall, FinalizeCall, QuoteCall
  <2>2. calls'[b].session \in Sessions
    BY <2>1 DEF QuoteCall
  <2>3. sessions[calls'[b].session].status \in {"finalized", "GONE"}
    BY <1>1, <1>4 DEF CallTrue
  <2> QED
    BY <2>2, <2>3 DEF SessionsMove, Keeps
<1>5. ASSUME NEW b \in Callers, calls'[b].handler = "edit", calls'[b].phase = "deleted"
      PROVE  /\ calls'[b].gone \subseteq Made'
             /\ calls'[b].edit # "revision" => \A q \in quotes' : q.session \notin calls'[b].gone
  BY <1>1, <1>2, <1>3, <1>5 DEF CallTrue
<1> QED
  BY <1>4, <1>5 DEF CallsTrue, CallTrue

LEMMA CallsStart ==
  ASSUME Typed, Typed', NumbersTrue, CallsTrue, NEW c \in Callers, StartCall(c)
  PROVE  CallsTrue'
<1>1. UNCHANGED <<sessions, quotes>>
  BY StartWritesNothing
<1>2. SessionsMove
  BY <1>1, SessionsStay
<1>3. CallTrue(calls'[c])
  BY StartFresh DEF CallTrue, Quotable
<1>4. \A b \in Callers : b # c => calls'[b] = calls[b]
  BY StartFresh
<1> QED
  BY <1>1, <1>2, <1>3, <1>4, CallsFrame

LEMMA CallsGoOn ==
  ASSUME Typed, Typed', NumbersTrue, CallsTrue, NEW c \in Callers, GoOn(c)
  PROVE  CallsTrue'
<1>1. SessionsMove
  BY GoOnMovesSessions
<1>2. CallTrue(calls'[c])
  BY GoOnFresh DEF CallTrue, Quotable
<1>3. \A b \in Callers : b # c => calls'[b] = calls[b]
  BY GoOnFresh
<1>4. \/ UNCHANGED quotes
      \/ /\ calls[c].session \notin Locked /\ calls'[c] = Idle
         /\ quotes' = quotes \cup {[session |-> calls[c].session, request |-> calls[c].request,
                                   final |-> FALSE]}
  <2>1. CreateQuote(c) => calls'[c] = Idle
    BY CallOver DEF CreateQuote
  <2> QED
    BY <2>1 DEF GoOn, ClaimQualify, FinishQualified, CommitQualify, CreateRequest, DeleteGroups, WriteGroups,
         ClaimSubmission, Announce, Calculate, DeleteLines, WriteLines, Finalize, ReadCalculation,
         CreateQuote, Fail
<1> QED
  BY <1>1, <1>2, <1>3, <1>4, CallsFrame

LEMMA CallsAside ==
  ASSUME Typed, Typed', NumbersTrue, CallsTrue, Aside
  PROVE  CallsTrue'
<1>1. SessionsMove
  BY AsideMovesSessions
<1>2. UNCHANGED calls
  BY DEF Aside, ConfirmDecision, CloseLead, SoftDelete, FinalizeQuote, NextVersion, Preview,
         PreviewQuote, CreateRate, Tick
<1>3. SameQuotes
  <2>1. CASE UNCHANGED quotes
    BY <2>1 DEF SameQuotes
  <2>2. ASSUME NEW q \in quotes, FinalizeQuote(q) \/ NextVersion(q)
        PROVE  SameQuotes
    <3>1. [q EXCEPT !.final = TRUE].session = q.session /\ [q EXCEPT !.final = FALSE].session = q.session
      BY DEF Typed, QuoteRow
    <3>2. \E new : new.session = q.session /\ quotes' = (quotes \ {q}) \cup {new}
      BY <2>2, <3>1 DEF FinalizeQuote, NextVersion
    <3> QED
      BY <3>2 DEF SameQuotes
  <2> QED
    BY <2>1, <2>2 DEF Aside, ConfirmDecision, CloseLead, SoftDelete, Preview, PreviewQuote, CreateRate, Tick
<1>4. ASSUME NEW c \in Callers
      PROVE  CallsTrue'
  <2>1. CallTrue(calls'[c])
    BY <1>2, <1>4 DEF CallsTrue
  <2> QED
    BY <1>1, <1>2, <1>3, <2>1, CallsFrame DEF SameQuotes
<1> QED
  BY <1>4 DEF CallsTrue

LEMMA CallsStep ==
  ASSUME Typed, Typed', NumbersTrue, CallsTrue, [Next]_vars
  PROVE  SessionsMove /\ CallsTrue'
<1>1. ASSUME NEW c \in Callers, StartCall(c)
      PROVE  SessionsMove /\ CallsTrue'
  <2>1. UNCHANGED sessions
    BY <1>1, StartWritesNothing
  <2> QED
    BY <1>1, <2>1, SessionsStay, CallsStart
<1>2. CASE UNCHANGED vars
  BY <1>2, SessionsStay DEF vars, CallsTrue, CallTrue, Made
<1> QED
  BY <1>1, <1>2, CallsGoOn, CallsAside, GoOnMovesSessions, AsideMovesSessions DEF Next, Aside

-----------------------------------------------------------------------------
\* A quote that is replaced by its other version, or added.
LEMMA QuotedFrame ==
  ASSUME Typed, QuotedIsFinal, SessionsMove, UNCHANGED quotes
  PROVE  QuotedIsFinal'
BY DEF QuotedIsFinal, SessionsMove

LEMMA VersionChanged ==
  ASSUME Typed, QuotedIsFinal, UNCHANGED sessions, NEW q \in quotes, NEW final \in BOOLEAN,
         quotes' = (quotes \ {q}) \cup {[q EXCEPT !.final = final]}
  PROVE  QuotedIsFinal'
<1> DEFINE new == [q EXCEPT !.final = final]
<1>1. new.session = q.session /\ new.request = q.request
  BY DEF Typed, QuoteRow
<1> HIDE DEF new
<1>2. ASSUME NEW x \in quotes'
      PROVE  \E p \in quotes : p.session = x.session /\ p.request = x.request /\ (x # new => p = x /\ p # q)
                               /\ (x = new => p = q)
  BY <1>1, <1>2 DEF new
<1>3. ASSUME NEW x \in quotes', NEW y \in quotes' \ {x}
      PROVE  y.session # x.session /\ (y.request = NoRequest \/ y.request # x.request)
  BY <1>2, <1>3 DEF QuotedIsFinal
<1>4. \A x \in quotes' : sessions'[x.session].status = "finalized"
  BY <1>2 DEF QuotedIsFinal
<1> QED
  BY <1>3, <1>4 DEF QuotedIsFinal

LEMMA CreatedQuoteFinal ==
  ASSUME Typed, CallsTrue, QuotedIsFinal, NEW c \in Callers, CreateQuote(c)
  PROVE  QuotedIsFinal'
<1> DEFINE s == calls[c].session
           r == calls[c].request
           new == [session |-> s, request |-> r, final |-> FALSE]
<1>1. /\ calls[c].handler = "quote" /\ calls[c].phase = "read"
      /\ s \in Rows /\ quotes' = quotes \cup {new} /\ UNCHANGED sessions
      /\ \A q \in quotes : q.session # s /\ (r # NoRequest => q.request # r)
  BY DEF CreateQuote, In
<1>2. sessions[s].status = "finalized"
  BY <1>1 DEF CallsTrue, CallTrue, Rows
<1>3. new.session = s /\ new.request = r
  OBVIOUS
<1> HIDE DEF new
<1>4. \A q \in quotes' : sessions'[q.session].status = "finalized"
  BY <1>1, <1>2, <1>3 DEF QuotedIsFinal
<1>5. ASSUME NEW x \in quotes', NEW y \in quotes' \ {x}
      PROVE  y.session # x.session /\ (y.request = NoRequest \/ y.request # x.request)
  <2>1. CASE x \in quotes /\ y \in quotes
    BY <1>5, <2>1 DEF QuotedIsFinal
  <2>2. CASE x = new /\ y \in quotes
    BY <1>1, <1>3, <2>2
  <2>3. CASE y = new /\ x \in quotes
    BY <1>1, <1>3, <2>3
  <2> QED
    BY <1>1, <1>5, <2>1, <2>2, <2>3
<1> QED
  BY <1>4, <1>5 DEF QuotedIsFinal

LEMMA QuotedStep ==
  ASSUME Typed, CallsTrue, QuotedIsFinal, SessionsMove, [Next]_vars
  PROVE  QuotedIsFinal'
<1>1. ASSUME NEW q \in quotes, FinalizeQuote(q) \/ NextVersion(q)
      PROVE  QuotedIsFinal'
  BY <1>1, VersionChanged DEF FinalizeQuote, NextVersion
<1>2. CASE UNCHANGED quotes
  BY <1>2, QuotedFrame
<1>3. ASSUME NEW c \in Callers, GoOn(c)
      PROVE  CreateQuote(c) \/ UNCHANGED quotes
  BY <1>3 DEF GoOn, ClaimQualify, FinishQualified, CommitQualify, CreateRequest, DeleteGroups, WriteGroups,
         ClaimSubmission, Announce, Calculate, DeleteLines, WriteLines, Finalize, ReadCalculation, Fail
<1>4. CASE Aside
  BY <1>1, <1>2, <1>4 DEF Aside, ConfirmDecision, CloseLead, SoftDelete, Preview, PreviewQuote,
                          CreateRate, Tick
<1> QED
  BY <1>2, <1>3, <1>4, StartWritesNothing, CreatedQuoteFinal DEF Next, Aside, vars

-----------------------------------------------------------------------------
\* Rates: a new one closes those that had no end where it begins, and is there
\* from then on; before that the one that was is.
LEMMA NewRateFills ==
  ASSUME Typed, AlwaysARate, NEW from \in Days, NEW value \in RateValues, CreateRate(from, value)
  PROVE  AlwaysARate'
<1> DEFINE new == [number |-> Cardinality(rates) + 1, value |-> value, from |-> from, to |-> Never]
           Close(x) == [x EXCEPT !.to = IF @ = Never THEN from ELSE @]
<1>1. rates' = {Close(x) : x \in rates} \cup {new}
  BY DEF CreateRate, ClosedAt
<1>2. LastDay \in Nat
  BY CalculationAssumption
<1>3. \A x \in rates : /\ Close(x).from = x.from
                       /\ Close(x).to = IF x.to = Never THEN from ELSE x.to
  BY DEF Typed, RateRow
<1>4. new.from = from /\ new.to = Never
  OBVIOUS
<1> HIDE DEF new, Close
<1>5. ASSUME NEW at \in Days, NEW x \in rates', x.from <= at
      PROVE  \E y \in rates' : y.from <= at /\ at < y.to
  <2>1. CASE from <= at
    <3>1. at < Never
      BY <1>2 DEF Days, Never
    <3> QED
      BY <1>1, <1>4, <2>1, <3>1
  <2>2. CASE ~ (from <= at)
    <3>1. PICK z \in rates : x = Close(z)
      BY <1>1, <1>4, <1>5, <2>2
    <3>2. z.from <= at
      BY <1>3, <1>5, <3>1
    <3>3. PICK y \in rates : y.from <= at /\ at < y.to
      BY <3>2 DEF AlwaysARate, HasRate, Effective
    <3>4. Close(y) \in rates'
      BY <1>1
    <3>5. at < from
      BY <2>2 DEF Days
    <3>6. Close(y).from <= at /\ at < Close(y).to
      BY <1>3, <3>3, <3>5
    <3> QED
      BY <3>4, <3>6
  <2> QED
    BY <2>1, <2>2
<1> QED
  BY <1>5 DEF AlwaysARate, HasRate, Effective

LEMMA RateStep ==
  ASSUME Typed, AlwaysARate, [Next]_vars
  PROVE  AlwaysARate'
<1>1. CASE UNCHANGED rates
  BY <1>1 DEF AlwaysARate, HasRate, Effective
<1>2. ASSUME NEW c \in Callers, GoOn(c)
      PROVE  UNCHANGED rates
  BY <1>2 DEF GoOn, ClaimQualify, FinishQualified, CommitQualify, CreateRequest, DeleteGroups, WriteGroups,
         ClaimSubmission, Announce, Calculate, DeleteLines, WriteLines, Finalize, ReadCalculation,
         CreateQuote, Fail
<1>3. CASE Aside
  BY <1>1, <1>3, NewRateFills
     DEF Aside, ConfirmDecision, CloseLead, SoftDelete, FinalizeQuote, NextVersion, Preview, PreviewQuote,
         Tick
<1> QED
  BY <1>1, <1>2, <1>3, StartWritesNothing DEF Next, Aside, vars

\* The rate that counts is one of those in force.
LEMMA RateAtTyped ==
  ASSUME Typed, NEW at, HasRate(at)
  PROVE  RateAt(at) \in Nat
<1> DEFINE S == Effective(at)
           f == [x \in S |-> x.from]
<1>1. S # {} /\ S \subseteq RateRow
  BY DEF HasRate, Effective, Typed
<1>2. f \in [S -> Days]
  BY <1>1 DEF RateRow
<1>3. \A x \in S : f[x] = x.from
  OBVIOUS
<1> HIDE DEF f, S
<1>4. \E x \in S : \A y \in S : f[y] <= f[x]
  BY <1>1, <1>2, LatestExists
<1>5. \E x \in S : \A y \in S : y.from <= x.from
  BY <1>3, <1>4
<1>6. (CHOOSE x \in S : \A y \in S : y.from <= x.from) \in RateRow
  BY <1>1, <1>5
<1> QED
  BY <1>6, CalculationAssumption DEF RateAt, RateRow, S

-----------------------------------------------------------------------------
\* Prices: sheets that cover an area, and their price rounded once.
Waste(sheets, area, panel) == RoundHalfUp((sheets * panel - area) * 10000, sheets * panel)

RoundedTogether(exact, panel, sheets) ==
  2 * (RoundHalfUp(exact * panel * sheets, 10) - sheets * RoundHalfUp(exact * panel, 10))
    \in (0 - sheets - 1)..(sheets + 1)

SheetsEnough(sheets, area, panel) ==
  /\ area <= sheets * panel
  /\ (sheets - 1) * panel < area
  /\ 0 <= Waste(sheets, area, panel) /\ Waste(sheets, area, panel) <= 10000

LEMMA SheetsCover ==
  ASSUME NEW area \in Nat \ {0}, NEW panel \in Nat \ {0}
  PROVE  /\ CeilDiv(area, panel) \in Nat \ {0}
         /\ SheetsEnough(CeilDiv(area, panel), area, panel)
<1> DEFINE sheets == CeilDiv(area, panel)
           actual == sheets * panel
<1>1. sheets \in Nat /\ area <= sheets * panel /\ (sheets - 1) * panel < area
  BY CeilDivCovers
<1> HIDE DEF sheets
<1>2. sheets # 0
  BY <1>1
<1>3. actual \in Nat \ {0} /\ area <= actual
  BY <1>1, <1>2, SMT
<1> HIDE DEF actual
<1> DEFINE n == (actual - area) * 10000
           w == RoundHalfUp(n, actual)
<1>4. n \in Nat /\ n <= actual * 10000
  BY <1>3
<1>5. w \in Int /\ 2 * actual * w <= 2 * n + actual /\ 2 * n + actual < 2 * actual * (w + 1)
  BY <1>3, <1>4, RoundedNear
<1> HIDE DEF w
<1>6. w >= 0
  BY <1>3, <1>4, <1>5, SMT DEF n
<1>7. w <= 10000
  BY <1>3, <1>4, <1>5, SMT DEF n
<1>8. Waste(sheets, area, panel) = w
  BY DEF w, n, actual, Waste
<1>9. SheetsEnough(sheets, area, panel)
  BY <1>1, <1>6, <1>7, <1>8 DEF SheetsEnough
<1> QED
  BY <1>1, <1>2, <1>9 DEF sheets

LEMMA TotalNear ==
  ASSUME NEW exact \in Nat, NEW panel \in Nat \ {0}, NEW sheets \in Nat \ {0}
  PROVE  RoundedTogether(exact, panel, sheets)
<1> DEFINE e == exact * panel
           total == RoundHalfUp(e * sheets, 10)
           one == RoundHalfUp(e, 10)
<1>1. e \in Nat
  BY SMT
<1> HIDE DEF e
<1>2. e * sheets \in Nat
  BY <1>1, SMT
<1>3. one \in Int /\ 20 * one <= 2 * e + 10 /\ 2 * e + 10 < 20 * (one + 1)
  BY <1>1, RoundedNear
<1> DEFINE es == e * sheets
<1>4. total \in Int /\ 20 * total <= 2 * (e * sheets) + 10 /\ 2 * (e * sheets) + 10 < 20 * (total + 1)
  <2>1. es \in Int /\ total = RoundHalfUp(es, 10)
    BY <1>2
  <2> HIDE DEF es, total
  <2>2. total \in Int /\ 20 * total <= 2 * es + 10 /\ 2 * es + 10 < 20 * (total + 1)
    BY <2>1, RoundedNear
  <2> QED
    BY <2>2 DEF es
<1> HIDE DEF one, total
<1>5. 20 * (one * sheets) <= 2 * (e * sheets) + 10 * sheets
  BY <1>1, <1>3, SMT
<1>6. 2 * (e * sheets) + 10 * sheets < 20 * (one * sheets) + 20 * sheets
  BY <1>1, <1>3, SMT
<1>7. one * sheets \in Int /\ sheets * one = one * sheets
  BY <1>3, SMT
<1>8. 2 * (total - sheets * one) <= sheets + 1
  BY <1>2, <1>4, <1>5, <1>6, <1>7, SMT
<1>9. 0 - sheets - 1 <= 2 * (total - sheets * one)
  BY <1>2, <1>4, <1>5, <1>6, <1>7, SMT
<1> QED
  BY <1>3, <1>4, <1>7, <1>8, <1>9 DEF one, total, e, RoundedTogether

\* What is asked of the answer to a question for a price.
Covers(answer) ==
  /\ EnoughSheets(answer.line, answer.geometry.sheets)
  /\ 0 <= answer.geometry.waste /\ answer.geometry.waste <= 10000
  /\ answer.priced => AddsUp(answer.price, answer.geometry.sheets)

LEMMA CompleteLine ==
  ASSUME NEW line \in Item, ~ Incomplete(line)
  PROVE  /\ line.size.width \in Nat \ {0} /\ line.size.height \in Nat \ {0}
         /\ line.area \in Nat \ {0}
         /\ PanelArea(line.size) \in Nat \ {0}
<1>1. line.size \in [width : Nat \ {0}, height : Nat \ {0}] /\ line.area \in Nat \ {0}
  BY DEF Item, Incomplete
<1>2. line.size.width \in Nat \ {0} /\ line.size.height \in Nat \ {0}
  BY <1>1
<1>3. line.size.width * line.size.height \in Nat \ {0}
  BY <1>2, SMT
<1> QED
  BY <1>1, <1>2, <1>3 DEF PanelArea

LEMMA FilledTyped ==
  ASSUME NEW item \in Item
  PROVE  Filled(item, Qualification) \in Item
<1> DEFINE q == Qualification
           type == IF item.type = "none" THEN q.type ELSE item.type
           size == IF item.size = NoSize THEN q.size ELSE item.size
           thickness == IF item.thickness = "none" THEN q.thickness ELSE item.thickness
           area == IF item.area = 0 THEN q.area ELSE item.area
<1>1. q \in Item
  BY CalculationAssumption
<1>2. type \in STRING /\ thickness \in STRING /\ area \in Nat
  BY <1>1 DEF Item
<1>3. size \in {NoSize} \cup [width : Nat \ {0}, height : Nat \ {0}]
  BY <1>1 DEF Item
<1>4. Filled(item, q) =
        [item EXCEPT !.type = type, !.size = size, !.thickness = thickness, !.area = area]
  BY DEF Filled, Item
<1> HIDE DEF type, size, thickness, area, q
<1>5. [item EXCEPT !.type = type, !.size = size, !.thickness = thickness, !.area = area] \in Item
  BY <1>2, <1>3 DEF Item
<1> QED
  BY <1>4, <1>5 DEF q

LEMMA LineCovered ==
  ASSUME NEW line \in Item, ~ Incomplete(line), NEW rate \in Nat, NEW answer,
         answer.line = line, answer.geometry = Geometry(line),
         answer.priced => answer.price = PriceGeometry(line, TablePrice, rate)
  PROVE  Covers(answer)
<1> DEFINE panel == PanelArea(line.size)
           sheets == CeilDiv(line.area, panel)
<1>1. line.area \in Nat \ {0} /\ panel \in Nat \ {0}
  BY CompleteLine
<1>2. /\ sheets \in Nat \ {0}
      /\ line.area <= sheets * panel
      /\ (sheets - 1) * panel < line.area
      /\ 0 <= Waste(sheets, line.area, panel) /\ Waste(sheets, line.area, panel) <= 10000
  <2> HIDE DEF panel
  <2>1. sheets \in Nat \ {0} /\ SheetsEnough(sheets, line.area, panel)
    BY <1>1, SheetsCover
  <2> HIDE DEF sheets
  <2> QED
    BY <2>1 DEF SheetsEnough
<1> HIDE DEF sheets, panel
<1>3. answer.geometry.sheets = sheets
  BY DEF Geometry, SheetsFor, sheets, panel
<1>4. 0 <= answer.geometry.waste /\ answer.geometry.waste <= 10000
  <2>1. answer.geometry.waste = Waste(sheets, line.area, panel)
    BY DEF Geometry, WastePercent, SheetsFor, sheets, panel, Waste
  <2> QED
    BY <1>2, <2>1
<1>5. sheets = SheetsFromSize(line.area, line.size)
  <2>1. ~ (line.area <= 0) /\ ~ (line.size.width <= 0) /\ ~ (line.size.height <= 0)
    BY CompleteLine
  <2> QED
    BY <2>1 DEF SheetsFromSize, sheets, panel
<1>6. EnoughSheets(line, sheets)
  BY <1>2, <1>5 DEF EnoughSheets, panel
<1>7. ASSUME answer.priced
      PROVE  AddsUp(answer.price, sheets)
  <2> DEFINE supplied == SupplierPrice(line, TablePrice)
             exact == supplied * rate * Coefficient
  <2>1. supplied \in Nat
    BY CalculationAssumption DEF SupplierPrice, Item
  <2> HIDE DEF supplied
  <2>2. exact \in Nat
    BY <2>1, SMT DEF Coefficient
  <2> HIDE DEF exact
  <2>3. RoundedTogether(exact, panel, sheets)
    BY <1>1, <1>2, <2>2, TotalNear
  <2>4. /\ answer.price.total = RoundHalfUp(exact * panel * sheets, 10)
        /\ answer.price.perSheet = RoundHalfUp(exact * panel, 10)
    BY <1>7 DEF PriceGeometry, Price, Geometry, SheetsFor, exact, supplied, panel, sheets
  <2> QED
    BY <2>3, <2>4 DEF AddsUp, RoundedTogether
<1> QED
  BY <1>3, <1>4, <1>6, <1>7 DEF Covers

LEMMA PreviewStep ==
  ASSUME Typed, PreviewCovers, [Next]_vars
  PROVE  PreviewCovers'
<1>1. PreviewCovers <=> (preview # NoPreview => Covers(preview))
  BY DEF PreviewCovers, Covers
<1>2. Covers(preview') => PreviewCovers'
  BY DEF PreviewCovers, Covers
<1>3. CASE UNCHANGED preview
  BY <1>3 DEF PreviewCovers
<1>4. ASSUME NEW item \in Lines, NEW ofLead \in BOOLEAN, NEW head \in BOOLEAN, Preview(item, ofLead, head)
      PROVE  Covers(preview')
  <2> DEFINE line == IF ofLead THEN Filled(item, Qualification) ELSE item
  <2>1. item \in Item
    BY CalculationAssumption
  <2>2. line \in Item
    BY <2>1, FilledTyped
  <2>3. ~ Incomplete(line)
    BY <1>4 DEF Preview, Refused
  <2>4. \/ preview' = [line |-> line, priced |-> FALSE, geometry |-> Geometry(line)]
        \/ /\ HasRate(today)
           /\ preview' = [line |-> line, priced |-> TRUE, geometry |-> Geometry(line),
                          price |-> PriceGeometry(line, TablePrice, RateAt(today))]
    BY <1>4 DEF Preview
  <2> HIDE DEF line
  <2>5. CASE preview' = [line |-> line, priced |-> FALSE, geometry |-> Geometry(line)]
    <3>1. preview'.line = line /\ preview'.geometry = Geometry(line) /\ ~ preview'.priced
      BY <2>5
    <3> QED
      BY <2>2, <2>3, <3>1, LineCovered
  <2>6. CASE /\ HasRate(today)
             /\ preview' = [line |-> line, priced |-> TRUE, geometry |-> Geometry(line),
                            price |-> PriceGeometry(line, TablePrice, RateAt(today))]
    <3>1. /\ preview'.line = line /\ preview'.geometry = Geometry(line)
          /\ preview'.price = PriceGeometry(line, TablePrice, RateAt(today))
      BY <2>6
    <3>2. RateAt(today) \in Nat
      BY <2>6, RateAtTyped
    <3> QED
      BY <2>2, <2>3, <3>1, <3>2, LineCovered
  <2> QED
    BY <2>4, <2>5, <2>6
<1>5. ASSUME NEW item \in Lines, PreviewQuote(item)
      PROVE  Covers(preview')
  <2>1. item \in Item /\ ~ Incomplete(item)
    BY <1>5, CalculationAssumption DEF PreviewQuote, RefusedInQuote
  <2>2. QuoteLine(item).sheets = SheetsFor(item.area, item.size)
    BY <2>1 DEF QuoteLine, Snapshot
  <2>3. PICK at \in 0..today :
          /\ HasRate(at)
          /\ preview' = [line |-> item, priced |-> TRUE,
                         geometry |-> [Geometry(item) EXCEPT !.sheets = QuoteLine(item).sheets],
                         price |-> QuotePrice(item, TablePrice, RateAt(at))]
    BY <1>5 DEF PreviewQuote
  <2>4. [Geometry(item) EXCEPT !.sheets = QuoteLine(item).sheets] = Geometry(item)
    BY <2>2 DEF Geometry
  <2>5. QuotePrice(item, TablePrice, RateAt(at)) = PriceGeometry(item, TablePrice, RateAt(at))
    BY <2>2 DEF QuotePrice, PriceGeometry, Geometry
  <2>6. /\ preview'.line = item /\ preview'.geometry = Geometry(item)
        /\ preview'.price = PriceGeometry(item, TablePrice, RateAt(at))
    BY <2>3, <2>4, <2>5
  <2> QED
    BY <2>1, <2>3, <2>6, RateAtTyped, LineCovered
<1>6. ASSUME NEW c \in Callers, GoOn(c)
      PROVE  UNCHANGED preview
  BY <1>6 DEF GoOn, ClaimQualify, FinishQualified, CommitQualify, CreateRequest, DeleteGroups, WriteGroups,
         ClaimSubmission, Announce, Calculate, DeleteLines, WriteLines, Finalize, ReadCalculation,
         CreateQuote, Fail
<1>7. CASE Aside
  BY <1>2, <1>3, <1>4, <1>5, <1>7
     DEF Aside, ConfirmDecision, CloseLead, SoftDelete, FinalizeQuote, NextVersion, CreateRate, Tick
<1> QED
  BY <1>3, <1>6, <1>7, StartWritesNothing DEF Next, Aside, vars

-----------------------------------------------------------------------------
LEMMA CalculationsInit == Init => CalculationsTrue
<1> SUFFICES ASSUME Init
             PROVE  CalculationsTrue
  OBVIOUS
<1>1. Typed
  BY TypedInit
<1>2. \A r \in Requests : requests[r] = NoRow /\ requests[r].status = "NONE"
                          /\ requests[r].announced = 0 /\ ~ requests[r].automatic
  BY DEF Init, NoRow
<1>3. \A c \in Callers : calls[c] = Idle /\ calls[c].handler = "none"
  BY DEF Init, Idle
<1>4. Made = {}
  BY DEF Init, Made, NoSession
<1>5. LeadTrue
  BY <1>2, CalculationAssumption DEF Init, LeadTrue
<1>6. LockTrue /\ AutomaticTrue /\ AnnouncementsTrue
  BY <1>2, <1>3 DEF LockTrue, Holds, CameLate, AutomaticTrue, AnnouncementsTrue, Announces
<1>7. NumbersTrue /\ CallsTrue
  BY <1>3, <1>4 DEF NumbersTrue, CallsTrue, CallTrue
<1>8. QuotedIsFinal /\ AlwaysARate /\ PreviewCovers
  BY DEF Init, QuotedIsFinal, AlwaysARate, PreviewCovers
<1> QED
  BY <1>1, <1>5, <1>6, <1>7, <1>8 DEF CalculationsTrue

LEMMA CalculationsStep == CalculationsTrue /\ [Next]_vars => CalculationsTrue'
<1> SUFFICES ASSUME CalculationsTrue, [Next]_vars
             PROVE  CalculationsTrue'
  OBVIOUS
<1> USE DEF CalculationsTrue
<1>1. Typed'
  BY TypedStep
<1>2. LeadTrue' /\ LockTrue' /\ AutomaticTrue'
  BY QualifyStep DEF QualifyTrue
<1>3. AnnouncementsTrue'
  BY <1>1, AnnouncementsStep
<1>4. SessionsMove /\ CallsTrue'
  BY <1>1, CallsStep
<1>5. NumbersTrue' /\ QuotedIsFinal'
  BY <1>4, NumbersStep, QuotedStep
<1> QED
  BY <1>1, <1>2, <1>3, <1>4, <1>5, RateStep, PreviewStep

LEMMA CalculationsInvariant == Spec => []CalculationsTrue
BY CalculationsInit, CalculationsStep, PTL DEF Spec

-----------------------------------------------------------------------------
\* However many users qualify a lead at a time, and whatever fails, it has one
\* deal, one request of the system and one task for the head, which is open until
\* there is a decision (LeadsService.qualify, finishQualifiedLead).
THEOREM QualifiedJustOnce == Spec => []QualifiedOnce
<1>1. CalculationsTrue => QualifiedOnce
  <2> SUFFICES ASSUME CalculationsTrue
               PROVE  QualifiedOnce
    OBVIOUS
  <2> DEFINE A == {r \in Existing : requests[r].automatic}
  <2>1. \A r, s \in A : r = s
    BY DEF CalculationsTrue, AutomaticTrue, Existing
  <2>2. Cardinality(A) <= 1
    <3>1. CASE A = {}
      BY <3>1, FS_EmptySet
    <3>2. ASSUME NEW r \in A
          PROVE  Cardinality(A) <= 1
      <4>1. A = {r}
        BY <2>1
      <4> HIDE DEF A
      <4>2. Cardinality(A) = 1
        BY <4>1, FS_Singleton
      <4> QED
        BY <4>2
    <3> QED
      BY <3>1, <3>2
  <2> QED
    BY <2>2 DEF CalculationsTrue, LeadTrue, QualifiedOnce
<1> QED
  BY <1>1, CalculationsInvariant, PTL

\* A request is submitted once and its submission announced at most once, however
\* many submit it, and no call that read an old status takes it back
\* (CalculationRequestService.submit).
THEOREM SubmittedJustOnce == Spec => SubmittedOnce
<1>1. CalculationsTrue /\ CalculationsTrue' /\ [Next]_vars =>
        [\A r \in Requests : /\ Rank(requests[r].status) <= Rank(requests'[r].status)
                             /\ requests'[r].announced <= 1]_requests
  <2> SUFFICES ASSUME CalculationsTrue, CalculationsTrue', [Next]_vars
               PROVE  \A r \in Requests : /\ Rank(requests[r].status) <= Rank(requests'[r].status)
                                          /\ requests'[r].announced <= 1
    OBVIOUS
  <2>1. \A r \in Requests : Rank(requests[r].status) <= Rank(requests'[r].status)
    BY AnnouncementsStep DEF CalculationsTrue
  <2>2. \A r \in Requests : requests'[r].announced <= 1
    BY DEF CalculationsTrue, AnnouncementsTrue
  <2> QED
    BY <2>1, <2>2
<1> QED
  BY <1>1, CalculationsInvariant, PTL DEF Spec, SubmittedOnce

\* What a quote was made of stays and stays final, in spite of edits and updates
\* that read it before, and neither a calculation nor a request has a second
\* first version (QuotesService.createFromCalculation, CalculationRequestService.update).
THEOREM QuotedStaysFinal == Spec => []QuotedIsFinal
<1>1. CalculationsTrue => QuotedIsFinal
  BY DEF CalculationsTrue
<1> QED
  BY <1>1, CalculationsInvariant, PTL

\* From the first rate on there is one for every day, in whatever order rates are
\* entered (CurrencyRateService, createCnyUsdRate).
THEOREM RateForEveryDay == Spec => []AlwaysARate
<1>1. CalculationsTrue => AlwaysARate
  BY DEF CalculationsTrue
<1> QED
  BY <1>1, CalculationsInvariant, PTL

\* For lines, prices and rates of any size: the sheets of a preview cover what is
\* required, one less would not, and the total is what the sheets cost up to the
\* cents of the rounding (PanelQuantityCalculator, PanelPriceCalculator).
THEOREM PreviewsCover == Spec => []PreviewCovers
<1>1. CalculationsTrue => PreviewCovers
  BY DEF CalculationsTrue
<1> QED
  BY <1>1, CalculationsInvariant, PTL
=============================================================================
