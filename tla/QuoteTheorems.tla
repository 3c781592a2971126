---------------------------- MODULE QuoteTheorems ----------------------------
(***************************************************************************)
(* Theorems about the quotes of a lead, for any number of quotes, requests,  *)
(* deals, documents and callers: documents and quotes match, versions form  *)
(* a chain, a deal has one basis of execution and the lines of its quotes   *)
(* once, nothing that was sent or accepted is taken back, and the stock     *)
(* choice is settled by an approval.                                        *)
(*                                                                          *)
(* The invariant has a part for each of these and one for what the calls    *)
(* under way have read; most parts speak of a few fields only, so a step    *)
(* that does not write these leaves the part as it was.                     *)
(***************************************************************************)
EXTENDS QuoteLifecycle, FiniteSetTheorems, TLAPS

-----------------------------------------------------------------------------
\* The domains of the variables.
Row ==
  [status : {"NONE", "draft", "sent", "approved", "rejected", "converted"},
   request : Requests \cup {NoRequest}, version : Nat, previous : Quotes \cup {NoQuote},
   price : Nat, terms : Nat, file : Files \cup {NoFile}, accepted : BOOLEAN,
   deal : Deals \cup {NoDeal}]

Document == [quote : Quotes \cup {NoQuote}, price : Nat, terms : Nat]

DealStages == Stages \cup {"NONE"}

Handoff == [quote : Quotes, status : {"ACTIVE", "SUPERSEDED"}]

DealRow == [stage : DealStages, lost : BOOLEAN, lines : Seq(Quotes), handoffs : Seq(Handoff)]

LeadRow ==
  [status : {"IN_PROGRESS", "QUALIFIED", "UNQUALIFIED", "CONVERTED", "LOST"},
   deal : Deals \cup {NoDeal}, lost : BOOLEAN, stockOnly : BOOLEAN]

WriteCall == [handler : {"pricing", "terms"}, phase : {"locked", "read"}, quote : Quotes]
FinalizeCall ==
  [handler : {"finalize"}, phase : {"locked", "timedOut", "stored", "failed"}, quote : Quotes,
   file : Files \cup {NoFile}, created : BOOLEAN]
VersionCall == [handler : {"version"}, phase : {"read"}, quote : Quotes, row : Row]
StatusCall ==
  [handler : {"status"}, phase : {"read"}, quote : Quotes,
   seen : {"draft", "sent", "approved", "rejected", "converted"},
   status : {"draft", "sent", "approved", "rejected", "converted"}]
AcceptCall ==
  [handler : {"accept"}, phase : {"read", "claimed"}, quote : Quotes,
   deal : Deals \cup {NoDeal}, stage : DealStages]
ConvertCall == [handler : {"convert"}, phase : {"read"}, quote : Quotes, deal : Deals \cup {NoDeal}]
LeadCall ==
  [handler : {"disqualify", "qualification"}, phase : {"read", "checked"}, quote : {NoQuote}]

Call ==
  {Idle} \cup WriteCall \cup FinalizeCall \cup VersionCall \cup StatusCall \cup AcceptCall
    \cup ConvertCall \cup LeadCall

Typed ==
  /\ quotes \in [Quotes -> Row]
  /\ files \in [Files -> Document]
  /\ deals \in [Deals -> DealRow]
  /\ lead \in LeadRow
  /\ calls \in [Callers -> Call]
  /\ crashes \in Nat
  /\ scenario \in Scenarios

-----------------------------------------------------------------------------
\* What a row says about itself, and of which deal: there is one for the lead.
RowTrue(row, leadDeal) ==
  /\ row.status = "NONE" => row = NoRow
  /\ row.status # "NONE" => row.request \in Requests /\ row.version # 0
  /\ row.status \notin {"NONE", "draft"} => row.file # NoFile
  /\ row.accepted => row.status \in {"approved", "converted"} /\ row.deal # NoDeal
  /\ row.deal \in {NoDeal, leadDeal}

RowsTrue == \A q \in Quotes : RowTrue(quotes[q], lead.deal)

\* The deal of the lead is the only one there is.
DealsTrue ==
  \A d \in Deals : IF d = lead.deal THEN deals[d].stage # "NONE" ELSE deals[d] = NoDealRow

\* Documents: a finalized quote has its own; an attempt that stored one holds it,
\* alone unless the quote has it too; what nobody has was left by a crash.
Holds(call) == call.handler = "finalize" /\ call.phase \in {"stored", "failed"}

HeldDocument(call) ==
  /\ Holds(call) =>
       /\ call.file \in Files
       /\ files[call.file].quote = call.quote
       /\ call.created \/ quotes[call.quote].file = call.file
  /\ call.handler = "finalize" /\ ~ Holds(call) => call.file = NoFile

Held(f) == \E c \in Callers : calls[c].handler = "finalize" /\ calls[c].file = f
Orphans == {f \in Files : files[f] # NoDocument /\ Unreferenced(f) /\ ~ Held(f)}

DocumentsTrue ==
  /\ \A q \in Quotes : Finalized(q) => files[quotes[q].file].quote = q
  /\ \A c \in Callers : HeldDocument(calls[c])
  /\ \A b, c \in Callers :
       /\ b # c /\ Holds(calls[b]) /\ Holds(calls[c])
       /\ calls[b].created /\ calls[c].created
       => calls[b].file # calls[c].file
  /\ IsFiniteSet(Orphans)
  /\ Cardinality(Orphans) <= crashes

\* The versions of a request, no two alike.
Chain(r) == {q \in Quotes : quotes[q].request = r}

VersionsTrue(r) ==
  /\ IsFiniteSet(Chain(r))
  /\ \A q \in Chain(r) : quotes[q].version \in 1..Cardinality(Chain(r))
  /\ \A n \in 1..Cardinality(Chain(r)) : \E q \in Chain(r) : quotes[q].version = n
  /\ \A p, q \in Chain(r) : quotes[p].version = quotes[q].version => p = q
  /\ \A q \in Chain(r) :
       LET p == quotes[q].previous
       IN  IF quotes[q].version = 1 THEN p = NoQuote
           ELSE p \in Chain(r) /\ Finalized(p) /\ quotes[p].version = quotes[q].version - 1

ChainsTrue == \A r \in Requests : VersionsTrue(r)

\* The deal: handoffs of accepted quotes, lines of converted ones.
HandoffsTrue ==
  /\ \A d \in Deals : LET handoffs == deals[d].handoffs IN
       \A k \in DOMAIN handoffs :
         /\ handoffs[k].status = "ACTIVE" <=> k = Len(handoffs)
         /\ \A j \in DOMAIN handoffs : handoffs[j].quote = handoffs[k].quote => j = k
         /\ quotes[handoffs[k].quote].accepted
         /\ quotes[handoffs[k].quote].deal = d
  /\ "repair" \notin scenario.handlers =>
       \A q \in Quotes : quotes[q].accepted => HandedOff(deals[quotes[q].deal].handoffs, q)

LinesTrue ==
  /\ \A d \in Deals : LET lines == deals[d].lines IN
       /\ \A k \in DOMAIN lines : quotes[lines[k]].status = "converted"
       /\ \A j, k \in DOMAIN lines : lines[j] = lines[k] => j = k
  /\ \A q \in Quotes : quotes[q].status = "converted" =>
       /\ quotes[q].deal # NoDeal
       /\ \E k \in DOMAIN deals[quotes[q].deal].lines : deals[quotes[q].deal].lines[k] = q

\* What the other calls have read, as far as it still holds.
CallTrue(call) ==
  /\ call.handler \in {"pricing", "terms", "finalize", "version", "status", "accept", "convert"} =>
       quotes[call.quote].status # "NONE"
  /\ call.handler = "version" =>
       /\ quotes[call.quote].file # NoFile
       /\ call.row.request = quotes[call.quote].request
       /\ call.row.version = quotes[call.quote].version
       /\ call.row.deal \in {NoDeal, lead.deal}
  /\ call.handler = "status" =>
       /\ call.seen \in {"draft", "sent"}
       /\ call.status \in Transitions[call.seen]
       /\ call.seen = "draft" => quotes[call.quote].file # NoFile
  /\ call.handler \in {"accept", "convert"} => call.deal \in {NoDeal, lead.deal}
  /\ call.handler = "accept" /\ call.phase = "claimed" =>
       /\ call.deal # NoDeal
       /\ ~ quotes[call.quote].accepted
       /\ quotes[call.quote].status \in {"approved", "converted"}
  /\ call.handler = "qualification" /\ call.phase = "checked" =>
       \A q \in Quotes : ~ Committed(q)

\* An acceptance locks the quote it has claimed.
ClaimsTrue ==
  \A b, c \in Callers :
    /\ In(b, "accept", "claimed") /\ In(c, "accept", "claimed")
    /\ calls[b].quote = calls[c].quote
    => b = c

CallsTrue == ClaimsTrue /\ \A c \in Callers : CallTrue(calls[c])

QuotesTrue ==
  /\ Typed
  /\ RowsTrue
  /\ DealsTrue
  /\ DocumentsTrue
  /\ ChainsTrue
  /\ HandoffsTrue
  /\ LinesTrue
  /\ CallsTrue

-----------------------------------------------------------------------------
\* Facts about the domains.

LEMMA TransitionFacts ==
  /\ Statuses = {"draft", "sent", "approved", "rejected", "converted"}
  /\ Transitions["draft"] = {"sent"}
  /\ Transitions["sent"] = {"approved", "rejected"}
  /\ Transitions["approved"] = {"converted"}
  /\ Transitions["rejected"] = {} /\ Transitions["converted"] = {}
BY DEF Statuses, Transitions

LEMMA NoRowTyped ==
  /\ NoRow \in Row
  /\ NoRow.status = "NONE" /\ NoRow.file = NoFile /\ ~ NoRow.accepted /\ NoRow.deal = NoDeal
  /\ NoRow.request = NoRequest
BY DEF NoRow, Row

LEMMA NoDealRowTyped ==
  /\ NoDealRow \in DealRow /\ NewDealRow \in DealRow
  /\ NoDealRow.stage = "NONE" /\ NoDealRow.lines = <<>> /\ NoDealRow.handoffs = <<>>
  /\ NewDealRow.stage = "EARLY" /\ NewDealRow.lines = <<>> /\ NewDealRow.handoffs = <<>>
<1>1. NewDealRow = [stage |-> "EARLY", lost |-> FALSE, lines |-> <<>>, handoffs |-> <<>>]
  <2>1. NoDealRow = [stage |-> "NONE", lost |-> FALSE, lines |-> <<>>, handoffs |-> <<>>]
    BY DEF NoDealRow
  <2>2. NewDealRow = [NoDealRow EXCEPT !.stage = "EARLY"]
    BY DEF NewDealRow
  <2>3. ASSUME NEW x, NEW y, NEW z
        PROVE  [[stage |-> "NONE", lost |-> z, lines |-> x, handoffs |-> y] EXCEPT !.stage = "EARLY"]
               = [stage |-> "EARLY", lost |-> z, lines |-> x, handoffs |-> y]
    OBVIOUS
  <2> QED BY <2>1, <2>2, <2>3
<1>2. <<>> \in Seq(Quotes) /\ <<>> \in Seq(Handoff)
  OBVIOUS
<1>3. {"EARLY", "NONE"} \subseteq DealStages /\ FALSE \in BOOLEAN
  BY DEF DealStages, Stages
<1>4. NoDealRow \in DealRow /\ NewDealRow \in DealRow
  BY <1>1, <1>2, <1>3, Zenon DEF NoDealRow, DealRow
<1> QED BY <1>1, <1>4 DEF NoDealRow

LEMMA NoDocumentTyped == NoDocument \in Document /\ NoDocument.quote = NoQuote
BY DEF NoDocument, Document

LEMMA FirstOfFacts == ASSUME NEW free, NEW x \in FirstOf(free) PROVE x \in free
BY DEF FirstOf

\* A call by its handler.
LEMMA IdleFacts ==
  /\ Idle \in Call /\ Idle.handler = "none"
BY DEF Call, Idle

LEMMA CallKinds ==
  ASSUME NEW call \in Call
  PROVE  /\ call.handler = "none" => call = Idle
         /\ call.handler \in {"pricing", "terms"} => call \in WriteCall
         /\ call.handler = "finalize" => call \in FinalizeCall
         /\ call.handler = "version" => call \in VersionCall
         /\ call.handler = "status" => call \in StatusCall
         /\ call.handler = "accept" => call \in AcceptCall
         /\ call.handler = "convert" => call \in ConvertCall
         /\ call.handler \in {"disqualify", "qualification"} => call \in LeadCall
BY DEF Call, Idle, WriteCall, FinalizeCall, VersionCall, StatusCall, AcceptCall, ConvertCall, LeadCall

\* The call of c becomes call.
Becomes(c, call) ==
  /\ calls' \in [Callers -> Call]
  /\ calls'[c] = call
  /\ \A b \in Callers : b # c => calls'[b] = calls[b]

LEMMA CallBecomes ==
  ASSUME Typed, NEW c \in Callers, NEW call \in Call, calls' = [calls EXCEPT ![c] = call]
  PROVE  Becomes(c, call)
BY DEF Typed, Becomes

LEMMA CallEnds ==
  ASSUME Typed, NEW c \in Callers, End(c)
  PROVE  Becomes(c, Idle)
BY CallBecomes, IdleFacts DEF End

-----------------------------------------------------------------------------
\* What every step keeps of a row, and of the deal of the lead.

KeptRow(old, new) ==
  /\ new.status # old.status => new.status \in Transitions[old.status]
  /\ old.file # NoFile => new.file = old.file
  /\ old.accepted => new.accepted
  /\ old.deal # NoDeal => new.deal = old.deal
  /\ new.request = old.request /\ new.version = old.version /\ new.previous = old.previous

Kept ==
  /\ \A q \in Quotes : quotes[q].status # "NONE" => KeptRow(quotes[q], quotes'[q])
  /\ lead'.deal = lead.deal \/ lead.deal = NoDeal

LEMMA KeptStatus ==
  ASSUME NEW old \in Row, NEW new \in Row, KeptRow(old, new), old.status # "NONE"
  PROVE  /\ new.status # "NONE"
         /\ old.status \in {"approved", "converted"} => new.status \in {"approved", "converted"}
         /\ old.status \notin {"NONE", "draft"} => new.status \notin {"NONE", "draft"}
BY TransitionFacts DEF KeptRow, Row

\* A step that leaves rows and lead alone.
LEMMA NothingKept == ASSUME UNCHANGED <<quotes, lead>> PROVE Kept
BY DEF Kept, KeptRow

\* A call goes on being true if nobody writes what it has locked.
LEMMA CallStaysTrue ==
  ASSUME Typed, Typed', Kept, NEW call \in Call, CallTrue(call),
         call.handler = "accept" /\ call.phase = "claimed" =>
           quotes'[call.quote].accepted = quotes[call.quote].accepted,
         call.handler = "qualification" /\ call.phase = "checked" =>
           \A q \in Quotes : Committed(q)' => Committed(q)
  PROVE  CallTrue(call)'
<1> DEFINE q == call.quote
           onQuote == {"pricing", "terms", "finalize", "version", "status", "accept", "convert"}
<1>1. CASE call.handler \in onQuote
  <2>1. q \in Quotes
    BY <1>1, CallKinds DEF WriteCall, FinalizeCall, VersionCall, StatusCall, AcceptCall, ConvertCall
  <2>2. quotes[q].status # "NONE" /\ quotes[q] \in Row /\ quotes'[q] \in Row
    BY <1>1, <2>1 DEF CallTrue, Typed
  <2>3. KeptRow(quotes[q], quotes'[q])
    BY <2>1, <2>2 DEF Kept
  <2>4. /\ quotes'[q].status # "NONE"
        /\ quotes[q].status \in {"approved", "converted"} =>
             quotes'[q].status \in {"approved", "converted"}
    BY <2>2, <2>3, KeptStatus
  <2>5. /\ quotes[q].file # NoFile => quotes'[q].file # NoFile
        /\ quotes'[q].request = quotes[q].request /\ quotes'[q].version = quotes[q].version
    BY <2>3 DEF KeptRow
  <2>6. \A d : d \in {NoDeal, lead.deal} => d \in {NoDeal, lead'.deal}
    BY DEF Kept
  <2> QED BY <1>1, <2>4, <2>5, <2>6 DEF CallTrue
<1>2. CASE call.handler \notin onQuote
  BY <1>2 DEF CallTrue
<1> QED BY <1>1, <1>2

-----------------------------------------------------------------------------
\* A step that does not write what a part of the invariant is about keeps it.

SameDocument(old, new) ==
  /\ \A f \in Files : new.handler = "finalize" /\ new.file = f
                      <=> old.handler = "finalize" /\ old.file = f
  /\ Holds(new) => Holds(old) /\ new.created = old.created /\ new.quote = old.quote
  /\ new.handler = "finalize" /\ ~ Holds(new) => new.file = NoFile

LEMMA DocumentsFrame ==
  ASSUME Typed, Typed', DocumentsTrue, files' = files, crashes' = crashes,
         \A q \in Quotes : quotes'[q].file = quotes[q].file,
         \A c \in Callers : calls'[c] = calls[c] \/ SameDocument(calls[c], calls'[c])
  PROVE  DocumentsTrue'
<1>1. ASSUME NEW c \in Callers
      PROVE  /\ HeldDocument(calls[c])'
             /\ Holds(calls'[c]) => /\ Holds(calls[c])
                                    /\ calls'[c].created = calls[c].created
                                    /\ calls'[c].file = calls[c].file
             /\ \A f \in Files : calls'[c].handler = "finalize" /\ calls'[c].file = f
                                 <=> calls[c].handler = "finalize" /\ calls[c].file = f
  <2> DEFINE old == calls[c]
             new == calls'[c]
  <2>1. HeldDocument(old) /\ old \in Call /\ new \in Call
    BY DEF DocumentsTrue, Typed
  <2>2. CASE new = old
    <3>1. ASSUME Holds(old) PROVE quotes'[old.quote].file = quotes[old.quote].file
      BY <2>1, <3>1, CallKinds DEF Holds, FinalizeCall
    <3> QED BY <2>1, <2>2, <3>1 DEF HeldDocument, Holds
  <2>3. CASE SameDocument(old, new)
    <3>1. ASSUME Holds(new)
          PROVE  /\ Holds(old) /\ new.created = old.created /\ new.quote = old.quote
                 /\ new.file = old.file /\ old.file \in Files /\ old.quote \in Quotes
      <4>1. Holds(old) /\ new.created = old.created /\ new.quote = old.quote
        BY <2>3, <3>1 DEF SameDocument
      <4>2. old.file \in Files /\ old.handler = "finalize"
        BY <2>1, <4>1 DEF HeldDocument, Holds
      <4>3. new.file = old.file
        BY <2>3, <4>2 DEF SameDocument
      <4>4. old.quote \in Quotes
        BY <2>1, <4>2, CallKinds DEF FinalizeCall
      <4> QED BY <4>1, <4>2, <4>3, <4>4
    <3>2. \A f \in Files : new.handler = "finalize" /\ new.file = f
                           <=> old.handler = "finalize" /\ old.file = f
      BY <2>3 DEF SameDocument
    <3>3. new.handler = "finalize" /\ ~ Holds(new) => new.file = NoFile
      BY <2>3 DEF SameDocument
    <3>4. Holds(new) => /\ new.file \in Files
                        /\ files[new.file].quote = new.quote
                        /\ new.created \/ quotes'[new.quote].file = new.file
      BY <2>1, <3>1 DEF HeldDocument
    <3> QED BY <3>1, <3>2, <3>3, <3>4 DEF HeldDocument, Holds
  <2> QED BY <2>2, <2>3
<1>2. \A f \in Files : Held(f)' <=> Held(f)
  BY <1>1 DEF Held
<1>3. \A f \in Files : Unreferenced(f)' <=> Unreferenced(f)
  BY DEF Unreferenced
<1>4. Orphans' = Orphans
  BY <1>2, <1>3 DEF Orphans
<1>5. \A q \in Quotes : Finalized(q)' => files'[quotes'[q].file].quote = q
  BY DEF DocumentsTrue, Finalized
<1>6. \A b, c \in Callers :
        b # c /\ Holds(calls'[b]) /\ Holds(calls'[c]) /\ calls'[b].created /\ calls'[c].created
        => calls'[b].file # calls'[c].file
  BY <1>1 DEF DocumentsTrue
<1> QED BY <1>1, <1>4, <1>5, <1>6 DEF DocumentsTrue, Holds

LEMMA ChainsFrame ==
  ASSUME Typed, ChainsTrue,
         \A q \in Quotes : /\ quotes'[q].request = quotes[q].request
                           /\ quotes'[q].version = quotes[q].version
                           /\ quotes'[q].previous = quotes[q].previous
                           /\ quotes[q].file # NoFile => quotes'[q].file # NoFile
  PROVE  ChainsTrue'
<1> SUFFICES ASSUME NEW r \in Requests PROVE VersionsTrue(r)'
  BY DEF ChainsTrue
<1>1. Chain(r)' = Chain(r) /\ VersionsTrue(r)
  BY DEF Chain, ChainsTrue
<1>2. \A q \in Chain(r) : q \in Quotes
  BY DEF Chain
<1> DEFINE n == Cardinality(Chain(r))
<1>3. ASSUME NEW q \in Chain(r)
      PROVE  LET p == quotes'[q].previous
             IN  IF quotes'[q].version = 1 THEN p = NoQuote
                 ELSE /\ p \in Chain(r)' /\ quotes'[p].file # NoFile
                      /\ quotes'[p].version = quotes'[q].version - 1
  <2> DEFINE p == quotes[q].previous
  <2>1. IF quotes[q].version = 1 THEN p = NoQuote
        ELSE p \in Chain(r) /\ quotes[p].file # NoFile /\ quotes[p].version = quotes[q].version - 1
    BY <1>1 DEF VersionsTrue, Finalized
  <2>2. quotes'[q].previous = p /\ quotes'[q].version = quotes[q].version
    BY <1>2
  <2>3. p \in Chain(r) =>
          /\ quotes'[p].version = quotes[p].version
          /\ quotes[p].file # NoFile => quotes'[p].file # NoFile
    BY <1>2
  <2> HIDE DEF p
  <2> QED BY <1>1, <2>1, <2>2, <2>3
<1>4. Cardinality(Chain(r)') = n /\ IsFiniteSet(Chain(r)')
  BY <1>1 DEF VersionsTrue
<1>5. /\ \A q \in Chain(r)' : quotes'[q].version \in 1..n
      /\ \A m \in 1..n : \E q \in Chain(r)' : quotes'[q].version = m
      /\ \A p, q \in Chain(r)' : quotes'[p].version = quotes'[q].version => p = q
  BY <1>1, <1>2 DEF VersionsTrue
<1>6. /\ IsFiniteSet(Chain(r)')
      /\ \A q \in Chain(r)' : quotes'[q].version \in 1..Cardinality(Chain(r)')
      /\ \A m \in 1..Cardinality(Chain(r)') : \E q \in Chain(r)' : quotes'[q].version = m
      /\ \A p, q \in Chain(r)' : quotes'[p].version = quotes'[q].version => p = q
  BY <1>4, <1>5
<1>7. \A q \in Chain(r)' :
        LET p == quotes'[q].previous
        IN  IF quotes'[q].version = 1 THEN p = NoQuote
            ELSE /\ p \in Chain(r)' /\ quotes'[p].file # NoFile
                 /\ quotes'[p].version = quotes'[q].version - 1
  BY <1>1, <1>3
<1> QED BY ONLY <1>6, <1>7 DEF VersionsTrue, Finalized

LEMMA HandoffsFrame ==
  ASSUME Typed, RowsTrue, HandoffsTrue, scenario' = scenario,
         \A d \in Deals : deals'[d].handoffs = deals[d].handoffs,
         \A q \in Quotes : /\ quotes'[q].accepted = quotes[q].accepted
                           /\ quotes[q].accepted => quotes'[q].deal = quotes[q].deal
  PROVE  HandoffsTrue'
<1>1. ASSUME NEW d \in Deals
      PROVE  /\ deals'[d].handoffs = deals[d].handoffs
             /\ \A k \in DOMAIN deals[d].handoffs : deals[d].handoffs[k].quote \in Quotes
  <2>1. deals[d].handoffs \in Seq(Handoff)
    BY DEF Typed, DealRow
  <2>2. \A k \in DOMAIN deals[d].handoffs : deals[d].handoffs[k] \in Handoff
    BY <2>1
  <2> QED BY <2>2 DEF Handoff
<1>2. \A q \in Quotes : quotes[q].accepted => quotes[q].deal \in Deals
  BY DEF RowsTrue, RowTrue, Typed, Row
<1>3. \A d \in Deals : \A q : HandedOff(deals'[d].handoffs, q) <=> HandedOff(deals[d].handoffs, q)
  BY <1>1 DEF HandedOff
<1>4. "repair" \notin scenario'.handlers =>
        \A q \in Quotes : quotes'[q].accepted => HandedOff(deals'[quotes'[q].deal].handoffs, q)
  BY <1>2, <1>3 DEF HandoffsTrue
<1>5. \A d \in Deals : \A k \in DOMAIN deals'[d].handoffs :
        /\ deals'[d].handoffs[k].status = "ACTIVE" <=> k = Len(deals'[d].handoffs)
        /\ \A j \in DOMAIN deals'[d].handoffs :
             deals'[d].handoffs[j].quote = deals'[d].handoffs[k].quote => j = k
        /\ quotes'[deals'[d].handoffs[k].quote].accepted
        /\ quotes'[deals'[d].handoffs[k].quote].deal = d
  BY <1>1 DEF HandoffsTrue
<1> QED BY <1>4, <1>5 DEF HandoffsTrue

LEMMA LinesFrame ==
  ASSUME Typed, LinesTrue,
         \A d \in Deals : deals'[d].lines = deals[d].lines,
         \A q \in Quotes :
           /\ quotes'[q].status = "converted" <=> quotes[q].status = "converted"
           /\ quotes[q].status = "converted" => quotes'[q].deal = quotes[q].deal
  PROVE  LinesTrue'
<1>1. ASSUME NEW d \in Deals
      PROVE  /\ deals'[d].lines = deals[d].lines
             /\ \A k \in DOMAIN deals[d].lines : deals[d].lines[k] \in Quotes
  BY DEF Typed, DealRow
<1>2. \A q \in Quotes : quotes[q].status = "converted" => quotes[q].deal \in Deals
  BY DEF LinesTrue, Typed, Row
<1>3. \A q \in Quotes : quotes'[q].status = "converted" =>
        /\ quotes'[q].deal # NoDeal
        /\ \E k \in DOMAIN deals'[quotes'[q].deal].lines : deals'[quotes'[q].deal].lines[k] = q
  BY <1>1, <1>2 DEF LinesTrue
<1>4. \A d \in Deals :
        /\ \A k \in DOMAIN deals'[d].lines : quotes'[deals'[d].lines[k]].status = "converted"
        /\ \A j, k \in DOMAIN deals'[d].lines : deals'[d].lines[j] = deals'[d].lines[k] => j = k
  BY <1>1 DEF LinesTrue
<1> QED BY <1>3, <1>4 DEF LinesTrue

\* The claims, when the call of c becomes call.
LEMMA ClaimsFrame ==
  ASSUME Typed, ClaimsTrue, NEW c \in Callers, NEW call, Becomes(c, call),
         call.handler = "accept" /\ call.phase = "claimed" => QuoteRowFree(call.quote)
  PROVE  ClaimsTrue'
<1> SUFFICES ASSUME NEW a \in Callers, NEW b \in Callers, a # b,
                    In(a, "accept", "claimed")', In(b, "accept", "claimed")',
                    calls'[a].quote = calls'[b].quote
             PROVE  FALSE
  BY DEF ClaimsTrue
<1>1. CASE a # c /\ b # c
  BY <1>1 DEF ClaimsTrue, In, Becomes
<1>2. CASE a = c
  BY <1>2 DEF Becomes, In, QuoteRowFree
<1>3. CASE b = c
  BY <1>3 DEF Becomes, In, QuoteRowFree
<1> QED BY <1>1, <1>2, <1>3

\* A step of c that writes nothing but what c has read and how far it is.
OnlyCall(c, call) ==
  /\ Becomes(c, call)
  /\ UNCHANGED <<quotes, files, lead, deals, crashes, scenario>>

LEMMA OnlyCallKeeps ==
  ASSUME QuotesTrue, NEW c \in Callers, NEW call \in Call, OnlyCall(c, call), CallTrue(call),
         call.handler = "accept" /\ call.phase = "claimed" => QuoteRowFree(call.quote),
         SameDocument(calls[c], call)
  PROVE  QuotesTrue' /\ Kept
<1>1. Typed /\ RowsTrue /\ DealsTrue /\ DocumentsTrue /\ ChainsTrue /\ HandoffsTrue /\ LinesTrue
      /\ CallsTrue
  BY DEF QuotesTrue
<1>2. Typed' /\ RowsTrue' /\ DealsTrue' /\ Kept
  BY <1>1, NothingKept DEF Typed, RowsTrue, DealsTrue, OnlyCall, Becomes
<1>3. DocumentsTrue'
  BY <1>1, <1>2, DocumentsFrame DEF OnlyCall, Becomes
<1>4. ChainsTrue' /\ HandoffsTrue' /\ LinesTrue'
  BY <1>1, ChainsFrame, HandoffsFrame, LinesFrame DEF OnlyCall
<1>5. ClaimsTrue'
  BY <1>1, ClaimsFrame DEF CallsTrue, OnlyCall
<1>6. ASSUME NEW b \in Callers PROVE CallTrue(calls[b])'
  <2>1. \A q \in Quotes : Committed(q)' <=> Committed(q)
    BY DEF OnlyCall, Committed
  <2>2. CallTrue(calls'[b]) /\ calls'[b] \in Call
    BY <1>1 DEF CallsTrue, OnlyCall, Becomes, Typed
  <2>3. PICK new : new = calls'[b]
    OBVIOUS
  <2>4. CallTrue(new)'
    BY <1>1, <1>2, <2>1, <2>2, <2>3, CallStaysTrue DEF OnlyCall
  <2> QED BY <2>3, <2>4 DEF CallTrue
<1> QED BY <1>2, <1>3, <1>4, <1>5, <1>6 DEF QuotesTrue, CallsTrue

\* A call begins with what it has read.
LEMMA BeginKeeps ==
  ASSUME QuotesTrue, NEW c \in Callers, NEW call \in Call, Begin(c, call), CallTrue(call),
         UNCHANGED <<quotes, files, lead, deals, crashes, scenario>>,
         ~ (call.handler = "accept" /\ call.phase = "claimed"),
         call.handler = "finalize" => call.phase = "locked" /\ call.file = NoFile
  PROVE  QuotesTrue' /\ Kept
<1>1. OnlyCall(c, call)
  BY CallBecomes DEF QuotesTrue, OnlyCall, Begin
<1>2. SameDocument(calls[c], call)
  BY NothingAssumption, IdleFacts DEF Begin, SameDocument, Holds
<1> QED BY <1>1, <1>2, OnlyCallKeeps

LEMMA StartKeeps ==
  ASSUME QuotesTrue, NEW c \in Callers, NEW q \in Quotes, StartCall(c, q)
  PROVE  QuotesTrue' /\ Kept
<1>1. Typed /\ RowsTrue /\ quotes[q] \in Row /\ RowTrue(quotes[q], lead.deal)
  BY DEF QuotesTrue, Typed, RowsTrue
<1>2. CASE StartPricing(c, q)
  <2> DEFINE call == [handler |-> "pricing", phase |-> "locked", quote |-> q]
  <2>1. call \in Call
    BY DEF Call, WriteCall
  <2>2. CallTrue(call)
    BY <1>2 DEF StartPricing, Mutable, CallTrue
  <2>3. ~ (call.handler = "accept" /\ call.phase = "claimed") /\ call.handler # "finalize"
    OBVIOUS
  <2>4. Begin(c, call) /\ UNCHANGED <<quotes, files, lead, deals, crashes, scenario>>
    BY <1>2 DEF StartPricing
  <2> HIDE DEF call
  <2> QED BY <2>1, <2>2, <2>3, <2>4, BeginKeeps
<1>3. CASE StartTerms(c, q)
  <2> DEFINE call == [handler |-> "terms", phase |-> "read", quote |-> q]
  <2>1. call \in Call
    BY DEF Call, WriteCall
  <2>2. CallTrue(call)
    BY <1>3 DEF StartTerms, Mutable, CallTrue
  <2>3. ~ (call.handler = "accept" /\ call.phase = "claimed") /\ call.handler # "finalize"
    OBVIOUS
  <2>4. Begin(c, call) /\ UNCHANGED <<quotes, files, lead, deals, crashes, scenario>>
    BY <1>3 DEF StartTerms
  <2> HIDE DEF call
  <2> QED BY <2>1, <2>2, <2>3, <2>4, BeginKeeps
<1>4. CASE StartFinalize(c, q)
  <2> DEFINE call == [handler |-> "finalize", phase |-> "locked", quote |-> q,
                      file |-> NoFile, created |-> FALSE]
  <2>1. call \in Call
    <3>1. call \in FinalizeCall
      BY DEF FinalizeCall
    <3> HIDE DEF call
    <3> QED BY <3>1 DEF Call
  <2>2. CallTrue(call)
    BY <1>4 DEF StartFinalize, Mutable, CallTrue
  <2>3. ~ (call.handler = "accept" /\ call.phase = "claimed") /\ call.phase = "locked"
        /\ call.file = NoFile
    OBVIOUS
  <2>4. Begin(c, call) /\ UNCHANGED <<quotes, files, lead, deals, crashes, scenario>>
    BY <1>4 DEF StartFinalize
  <2> HIDE DEF call
  <2> QED BY <2>1, <2>2, <2>3, <2>4, BeginKeeps
<1>5. CASE StartNextVersion(c, q)
  <2> DEFINE call == [handler |-> "version", phase |-> "read", quote |-> q, row |-> quotes[q]]
  <2>1. call \in Call
    <3>1. call \in VersionCall
      BY <1>1 DEF VersionCall
    <3> HIDE DEF call
    <3> QED BY <3>1 DEF Call
  <2>2. CallTrue(call)
    <3>1. quotes[q].file # NoFile /\ quotes[q].status # "NONE"
      BY <1>1, <1>5, NoRowTyped DEF StartNextVersion, Finalized, RowTrue
    <3> QED BY <1>1, <3>1 DEF CallTrue, RowTrue
  <2>3. ~ (call.handler = "accept" /\ call.phase = "claimed") /\ call.handler # "finalize"
    OBVIOUS
  <2>4. Begin(c, call) /\ UNCHANGED <<quotes, files, lead, deals, crashes, scenario>>
    BY <1>5 DEF StartNextVersion
  <2> HIDE DEF call
  <2>5. PICK new : new = call
    OBVIOUS
  <2> QED BY <2>1, <2>2, <2>3, <2>4, <2>5, BeginKeeps
<1>6. ASSUME NEW status \in Statuses, StartUpdateStatus(c, q, status)
      PROVE  QuotesTrue' /\ Kept
  <2> DEFINE call == [handler |-> "status", phase |-> "read", quote |-> q,
                      seen |-> quotes[q].status, status |-> status]
  <2>1. quotes[q].status # "NONE" /\ status \in Transitions[quotes[q].status] \ {"converted"}
        /\ (status \in {"sent", "approved"} => quotes[q].file # NoFile)
    BY <1>6 DEF StartUpdateStatus, Finalized
  <2>2. quotes[q].status \in {"draft", "sent"} /\ status \in {"sent", "approved", "rejected"}
        /\ (quotes[q].status = "draft" => status = "sent")
    BY <1>1, <2>1, TransitionFacts DEF Row
  <2>3. call \in Call
    <3>1. call \in StatusCall
      BY <2>2 DEF StatusCall
    <3> HIDE DEF call
    <3> QED BY <3>1 DEF Call
  <2>4. CallTrue(call)
    BY <2>1, <2>2 DEF CallTrue
  <2>5. ~ (call.handler = "accept" /\ call.phase = "claimed") /\ call.handler # "finalize"
    OBVIOUS
  <2>6. Begin(c, call) /\ UNCHANGED <<quotes, files, lead, deals, crashes, scenario>>
    BY <1>6 DEF StartUpdateStatus
  <2> HIDE DEF call
  <2> QED BY <2>3, <2>4, <2>5, <2>6, BeginKeeps
<1>7. CASE StartAccept(c, q)
  <2> DEFINE call == [handler |-> "accept", phase |-> "read", quote |-> q, deal |-> quotes[q].deal,
                      stage |-> "NONE"]
  <2>1. call \in Call
    <3>1. call \in AcceptCall
      BY <1>1 DEF AcceptCall, Row, DealStages
    <3> HIDE DEF call
    <3> QED BY <3>1 DEF Call
  <2>2. CallTrue(call)
    BY <1>1, <1>7 DEF StartAccept, Acceptable, CallTrue, RowTrue
  <2>3. ~ (call.handler = "accept" /\ call.phase = "claimed") /\ call.handler # "finalize"
    OBVIOUS
  <2>4. Begin(c, call) /\ UNCHANGED <<quotes, files, lead, deals, crashes, scenario>>
    BY <1>7 DEF StartAccept
  <2> HIDE DEF call
  <2> QED BY <2>1, <2>2, <2>3, <2>4, BeginKeeps
<1>8. CASE StartConvert(c, q)
  <2> DEFINE call == [handler |-> "convert", phase |-> "read", quote |-> q, deal |-> lead.deal]
  <2>1. call \in Call
    <3>1. call \in ConvertCall
      BY <1>1 DEF ConvertCall, Typed, LeadRow
    <3> HIDE DEF call
    <3> QED BY <3>1 DEF Call
  <2>2. CallTrue(call)
    BY <1>8 DEF StartConvert, CallTrue
  <2>3. ~ (call.handler = "accept" /\ call.phase = "claimed") /\ call.handler # "finalize"
    OBVIOUS
  <2>4. Begin(c, call) /\ UNCHANGED <<quotes, files, lead, deals, crashes, scenario>>
    BY <1>8 DEF StartConvert
  <2> HIDE DEF call
  <2> QED BY <2>1, <2>2, <2>3, <2>4, BeginKeeps
<1> QED BY <1>2, <1>3, <1>4, <1>5, <1>6, <1>7, <1>8 DEF StartCall

-----------------------------------------------------------------------------
\* The calls that go on without writing a row.

\* A call ends, and has stored no document.
LEMMA EndKeeps ==
  ASSUME QuotesTrue, NEW c \in Callers, End(c), ~ Holds(calls[c]),
         UNCHANGED <<quotes, files, lead, deals, crashes, scenario>>
  PROVE  QuotesTrue' /\ Kept
<1>1. OnlyCall(c, Idle)
  BY CallEnds DEF QuotesTrue, OnlyCall
<1>2. calls[c].handler = "finalize" => calls[c].file = NoFile
  BY DEF QuotesTrue, DocumentsTrue, HeldDocument
<1>3. SameDocument(calls[c], Idle)
  BY <1>2, NothingAssumption, IdleFacts DEF SameDocument, Holds
<1>4. CallTrue(Idle)
  BY IdleFacts DEF CallTrue
<1> QED BY <1>1, <1>3, <1>4, IdleFacts, OnlyCallKeeps

LEMMA FailKeeps ==
  ASSUME QuotesTrue, NEW c \in Callers, Fail(c)
  PROVE  QuotesTrue' /\ Kept
BY EndKeeps DEF Fail, Holds

LEMMA RollBackKeeps ==
  ASSUME QuotesTrue, NEW c \in Callers, RollBack(c)
  PROVE  QuotesTrue' /\ Kept
<1> DEFINE old == calls[c]
<1>1. old.handler = "finalize" /\ old \in FinalizeCall /\ CallTrue(old)
  BY CallKinds DEF RollBack, In, QuotesTrue, Typed, CallsTrue
<1>2. /\ old.phase = "locked" => old.file = NoFile
      /\ HeldDocument(old)
  BY <1>1 DEF QuotesTrue, DocumentsTrue, HeldDocument, Holds
<1>3. UNCHANGED <<quotes, files, lead, deals, crashes, scenario>>
  BY DEF RollBack
<1>4. PICK next \in {"timedOut", "failed"} :
        /\ calls' = [calls EXCEPT ![c].phase = next]
        /\ next = "timedOut" => old.phase = "locked"
        /\ next = "failed" => old.phase = "stored"
  BY DEF RollBack, In
<1> DEFINE new == [handler |-> "finalize", phase |-> next, quote |-> old.quote,
                   file |-> old.file, created |-> old.created]
<1>5. [old EXCEPT !.phase = next] = new
  BY <1>1 DEF FinalizeCall
<1>6. new \in FinalizeCall
  BY <1>1 DEF FinalizeCall
<1>7. /\ new.handler = "finalize" /\ new.phase = next /\ new.quote = old.quote
      /\ new.file = old.file /\ new.created = old.created
  OBVIOUS
<1> HIDE DEF new
<1>8. calls' = [calls EXCEPT ![c] = new] /\ new \in Call
  BY <1>4, <1>5, <1>6 DEF Call
<1>9. OnlyCall(c, new)
  BY <1>3, <1>8, CallBecomes DEF QuotesTrue, OnlyCall
<1>10. CallTrue(new)
  BY <1>1, <1>7 DEF CallTrue
<1>11. SameDocument(calls[c], new)
  BY <1>1, <1>2, <1>4, <1>7 DEF SameDocument, Holds
<1> QED BY <1>7, <1>8, <1>9, <1>10, <1>11, OnlyCallKeeps

LEMMA ClaimedCall ==
  ASSUME NEW old \in AcceptCall, NEW d, NEW stage
  PROVE  [old EXCEPT !.phase = "claimed", !.deal = d, !.stage = stage]
           = [handler |-> "accept", phase |-> "claimed", quote |-> old.quote, deal |-> d,
              stage |-> stage]
<1> DEFINE one == [old EXCEPT !.phase = "claimed"]
           two == [one EXCEPT !.deal = d]
           three == [two EXCEPT !.stage = stage]
<1>1. one = [handler |-> "accept", phase |-> "claimed", quote |-> old.quote, deal |-> old.deal,
             stage |-> old.stage]
  BY DEF AcceptCall
<1>2. one \in [handler : {"accept"}, phase : {"claimed"}, quote : {old.quote}, deal : {old.deal},
               stage : {old.stage}]
  BY <1>1
<1>3. [old EXCEPT !.phase = "claimed", !.deal = d, !.stage = stage] = three
  OBVIOUS
<1> HIDE DEF one
<1>4. two = [handler |-> "accept", phase |-> "claimed", quote |-> old.quote, deal |-> d,
             stage |-> old.stage]
  BY <1>2
<1>5. two \in [handler : {"accept"}, phase : {"claimed"}, quote : {old.quote}, deal : {d},
               stage : {old.stage}]
  BY <1>4
<1> HIDE DEF two
<1>6. three = [handler |-> "accept", phase |-> "claimed", quote |-> old.quote, deal |-> d,
               stage |-> stage]
  BY <1>5
<1> QED BY <1>3, <1>6

LEMMA ClaimAcceptanceKeeps ==
  ASSUME QuotesTrue, NEW c \in Callers, ClaimAcceptance(c)
  PROVE  QuotesTrue' /\ Kept
<1> DEFINE old == calls[c]
           d == DealOr(old.deal)
<1>1. /\ old.handler = "accept" /\ old.phase = "read" /\ QuoteRowFree(old.quote)
      /\ old \in AcceptCall /\ CallTrue(old)
  BY CallKinds DEF ClaimAcceptance, In, QuotesTrue, Typed, CallsTrue
<1>2. UNCHANGED <<quotes, files, lead, deals, crashes, scenario>>
  BY DEF ClaimAcceptance
<1>3. CASE ~ (d # NoDeal /\ Acceptable(old.quote))
  BY <1>1, <1>2, <1>3, EndKeeps DEF ClaimAcceptance, Holds
<1>4. CASE d # NoDeal /\ Acceptable(old.quote)
  <2>1. d \in Deals /\ d = lead.deal
    BY <1>1, <1>4 DEF DealOr, CallTrue, QuotesTrue, Typed, LeadRow
  <2>2. deals[d].stage \in DealStages
    BY <2>1 DEF QuotesTrue, Typed, DealRow
  <2> DEFINE new == [handler |-> "accept", phase |-> "claimed", quote |-> old.quote, deal |-> d,
                     stage |-> deals[d].stage]
  <2>3. calls' = [calls EXCEPT ![c] = [@ EXCEPT !.phase = "claimed", !.deal = d,
                                                !.stage = deals[d].stage]]
    BY <1>4 DEF ClaimAcceptance
  <2>4. PICK stage : stage = deals[d].stage
    OBVIOUS
  <2>5. PICK e : e = d
    OBVIOUS
  <2>6. [old EXCEPT !.phase = "claimed", !.deal = e, !.stage = stage]
          = [handler |-> "accept", phase |-> "claimed", quote |-> old.quote, deal |-> e,
             stage |-> stage]
    BY <1>1, ClaimedCall
  <2>7. new \in AcceptCall
    BY <1>1, <2>1, <2>2 DEF AcceptCall
  <2>8. new.handler = "accept" /\ new.phase = "claimed" /\ new.quote = old.quote /\ new.deal = d
    OBVIOUS
  <2>9. calls' = [calls EXCEPT ![c] = new]
    BY <2>3, <2>4, <2>5, <2>6
  <2> HIDE DEF new
  <2>10. new \in Call /\ OnlyCall(c, new)
    BY <1>2, <2>7, <2>9, CallBecomes DEF Call, QuotesTrue, OnlyCall
  <2>11. CallTrue(new)
    BY <1>1, <1>4, <2>1, <2>8 DEF CallTrue, Acceptable
  <2>12. SameDocument(calls[c], new)
    BY <1>1, <2>8 DEF SameDocument, Holds
  <2> QED BY <1>1, <2>8, <2>10, <2>11, <2>12, OnlyCallKeeps
<1> QED BY <1>3, <1>4

LEMMA LeadCallKeeps ==
  ASSUME QuotesTrue, NEW c \in Callers,
         StartDisqualify(c) \/ StartQualification(c) \/ CheckQualification(c)
  PROVE  QuotesTrue' /\ Kept
<1>1. ASSUME NEW handler \in {"disqualify", "qualification"},
             Begin(c, [handler |-> handler, phase |-> "read", quote |-> NoQuote]),
             UNCHANGED <<quotes, files, lead, deals, crashes, scenario>>
      PROVE  QuotesTrue' /\ Kept
  <2> DEFINE call == [handler |-> handler, phase |-> "read", quote |-> NoQuote]
  <2>1. call \in LeadCall /\ call.handler = handler /\ call.phase = "read"
    BY DEF LeadCall
  <2>2. Begin(c, call)
    BY <1>1
  <2> HIDE DEF call
  <2>3. call \in Call /\ CallTrue(call)
    BY <2>1 DEF Call, CallTrue
  <2>4. call.handler # "accept" /\ call.handler # "finalize"
    BY <2>1
  <2> QED BY <1>1, <2>2, <2>3, <2>4, BeginKeeps
<1>2. CASE CheckQualification(c)
  <2> DEFINE old == calls[c]
             new == [handler |-> "qualification", phase |-> "checked", quote |-> NoQuote]
  <2>1. old.handler = "qualification" /\ old \in LeadCall
    BY <1>2, CallKinds DEF CheckQualification, In, QuotesTrue, Typed
  <2>2. [old EXCEPT !.phase = "checked"] = new
    BY <2>1 DEF LeadCall
  <2>3. new \in LeadCall /\ new.handler = "qualification"
    BY DEF LeadCall
  <2>4. calls' = [calls EXCEPT ![c] = new]
    BY <1>2, <2>2 DEF CheckQualification
  <2> HIDE DEF new
  <2>5. new \in Call /\ OnlyCall(c, new)
    BY <1>2, <2>3, <2>4, CallBecomes DEF Call, QuotesTrue, OnlyCall, CheckQualification
  <2>6. CallTrue(new)
    BY <1>2, <2>3 DEF CheckQualification, CallTrue
  <2>7. SameDocument(calls[c], new)
    BY <2>1, <2>3 DEF SameDocument, Holds
  <2> QED BY <2>3, <2>5, <2>6, <2>7, OnlyCallKeeps
<1>3. CASE StartDisqualify(c)
  BY <1>1, <1>3 DEF StartDisqualify
<1>4. CASE StartQualification(c)
  BY <1>1, <1>4 DEF StartQualification
<1> QED BY <1>2, <1>3, <1>4

-----------------------------------------------------------------------------
\* The calls under way when c writes, and ends or goes on to finalize.

LEMMA CallsStayTrue ==
  ASSUME Typed, Typed', Kept, CallsTrue, NEW c \in Callers, NEW call \in Call, Becomes(c, call),
         call.handler \in {"none", "finalize"}, CallTrue(call),
         \A b \in Callers : b # c /\ In(b, "accept", "claimed") =>
           quotes'[calls[b].quote].accepted = quotes[calls[b].quote].accepted,
         \/ \A q \in Quotes : Committed(q)' => Committed(q)
         \/ \A b \in Callers : b # c => ~ In(b, "qualification", "checked")
  PROVE  CallsTrue'
<1>1. ClaimsTrue'
  BY ClaimsFrame DEF CallsTrue
<1>2. ASSUME NEW b \in Callers PROVE CallTrue(calls[b])'
  <2>1. CASE b = c
    <3>1. CallTrue(call)'
      BY CallStaysTrue
    <3>2. calls'[b] = call
      BY <2>1 DEF Becomes
    <3> QED BY <3>1, <3>2 DEF CallTrue
  <2>2. CASE b # c
    <3>1. PICK old : old = calls[b]
      OBVIOUS
    <3>2. calls'[b] = old /\ old \in Call /\ CallTrue(old)
      BY <2>2, <3>1 DEF Becomes, CallsTrue, Typed
    <3>3. CallTrue(old)'
      BY <2>2, <3>1, <3>2, CallStaysTrue DEF In
    <3> QED BY <3>2, <3>3 DEF CallTrue
  <2> QED BY <2>1, <2>2
<1> QED BY <1>1, <1>2 DEF CallsTrue

\* The row of q becomes row.
RowBecomes(q, row) ==
  /\ quotes' \in [Quotes -> Row]
  /\ quotes'[q] = row
  /\ \A p \in Quotes : p # q => quotes'[p] = quotes[p]

LEMMA RowKept ==
  ASSUME Typed, NEW q \in Quotes, NEW row, RowBecomes(q, row), quotes[q].status # "NONE" =>
         KeptRow(quotes[q], row), lead'.deal = lead.deal
  PROVE  Kept
BY DEF Kept, RowBecomes, KeptRow

\* A caller writes price, terms or status of a quote and is done.
LEMMA QuoteWritten ==
  ASSUME QuotesTrue, NEW c \in Callers, NEW q \in Quotes, NEW row \in Row,
         RowBecomes(q, row), End(c), ~ Holds(calls[c]),
         UNCHANGED <<files, lead, deals, crashes, scenario>>,
         quotes[q].status # "NONE", KeptRow(quotes[q], row), RowTrue(row, lead.deal),
         row.file = quotes[q].file, row.accepted = quotes[q].accepted, row.deal = quotes[q].deal,
         row.status = "converted" <=> quotes[q].status = "converted",
         row.status \in {"approved", "converted"} =>
           quotes[q].status \in {"approved", "converted"} \/ LeadRowFree
  PROVE  QuotesTrue' /\ Kept
<1>1. Typed /\ RowsTrue /\ DealsTrue /\ DocumentsTrue /\ ChainsTrue /\ HandoffsTrue /\ LinesTrue
      /\ CallsTrue
  BY DEF QuotesTrue
<1>2. Kept /\ Becomes(c, Idle)
  BY <1>1, RowKept, CallEnds
<1>3. Typed'
  BY <1>1, <1>2 DEF Typed, Becomes, RowBecomes
<1>4. RowsTrue' /\ DealsTrue'
  <2>1. \A p \in Quotes : RowTrue(quotes'[p], lead'.deal)
    BY <1>1 DEF RowsTrue, RowBecomes
  <2> QED BY <1>1, <2>1 DEF RowsTrue, DealsTrue, RowTrue
<1>5. \A p \in Quotes :
        /\ quotes'[p].file = quotes[p].file /\ quotes'[p].accepted = quotes[p].accepted
        /\ quotes'[p].deal = quotes[p].deal
        /\ quotes'[p].status = "converted" <=> quotes[p].status = "converted"
        /\ quotes'[p].request = quotes[p].request /\ quotes'[p].version = quotes[p].version
        /\ quotes'[p].previous = quotes[p].previous
  BY DEF RowBecomes, KeptRow
<1>6. DocumentsTrue'
  <2>1. calls[c].handler = "finalize" => calls[c].file = NoFile
    BY <1>1 DEF DocumentsTrue, HeldDocument
  <2>2. SameDocument(calls[c], Idle)
    BY <2>1, NothingAssumption, IdleFacts DEF SameDocument, Holds
  <2>3. \A b \in Callers : calls'[b] = calls[b] \/ SameDocument(calls[b], calls'[b])
    BY <1>2, <2>2 DEF Becomes
  <2> QED BY <1>1, <1>3, <1>5, <2>3, DocumentsFrame
<1>7. ChainsTrue' /\ HandoffsTrue' /\ LinesTrue'
  BY <1>1, <1>5, ChainsFrame, HandoffsFrame, LinesFrame
<1>8. CallsTrue'
  <2>1. CallTrue(Idle) /\ Idle \in Call /\ Idle.handler = "none"
    BY IdleFacts DEF CallTrue
  <2>2. \/ \A p \in Quotes : Committed(p)' => Committed(p)
        \/ \A b \in Callers : b # c => ~ In(b, "qualification", "checked")
    <3>1. CASE LeadRowFree
      BY <3>1 DEF LeadRowFree
    <3>2. CASE row.status \in {"approved", "converted"} =>
                 quotes[q].status \in {"approved", "converted"}
      BY <3>2, <1>5 DEF RowBecomes, Committed
    <3> QED BY <3>1, <3>2
  <2>3. \A b \in Callers : In(b, "accept", "claimed") => calls[b].quote \in Quotes
    BY <1>1, CallKinds DEF In, Typed, AcceptCall
  <2> QED BY <1>1, <1>2, <1>3, <1>5, <2>1, <2>2, <2>3, CallsStayTrue
<1> QED BY <1>2, <1>3, <1>4, <1>6, <1>7, <1>8 DEF QuotesTrue

\* A field of a row is written.
LEMMA PriceEdit ==
  ASSUME NEW old \in Row, NEW n \in Nat
  PROVE  LET new == [old EXCEPT !.price = n]
         IN  /\ new \in Row /\ new.status = old.status /\ new.file = old.file
             /\ new.accepted = old.accepted /\ new.deal = old.deal
             /\ new.request = old.request /\ new.version = old.version
             /\ new.previous = old.previous
BY DEF Row

LEMMA TermsEdit ==
  ASSUME NEW old \in Row, NEW n \in Nat
  PROVE  LET new == [old EXCEPT !.terms = n]
         IN  /\ new \in Row /\ new.status = old.status /\ new.file = old.file
             /\ new.accepted = old.accepted /\ new.deal = old.deal
             /\ new.request = old.request /\ new.version = old.version
             /\ new.previous = old.previous
BY DEF Row

LEMMA StatusEdit ==
  ASSUME NEW old \in Row, NEW status \in {"draft", "sent", "approved", "rejected", "converted"}
  PROVE  LET new == [old EXCEPT !.status = status]
         IN  /\ new \in Row /\ new.status = status /\ new.file = old.file
             /\ new.accepted = old.accepted /\ new.deal = old.deal
             /\ new.request = old.request /\ new.version = old.version
             /\ new.previous = old.previous
BY DEF Row

LEMMA FileEdit ==
  ASSUME NEW old \in Row, NEW file \in Files
  PROVE  LET new == [old EXCEPT !.file = file]
         IN  /\ new \in Row /\ new.status = old.status /\ new.file = file
             /\ new.accepted = old.accepted /\ new.deal = old.deal
             /\ new.request = old.request /\ new.version = old.version
             /\ new.previous = old.previous
BY DEF Row

LEMMA RowWritten ==
  ASSUME Typed, NEW q \in Quotes, NEW row \in Row, quotes' = [quotes EXCEPT ![q] = row]
  PROVE  RowBecomes(q, row)
BY DEF Typed, RowBecomes

\* A price or terms are written: nothing else of the row changes.
LEMMA DetailWritten ==
  ASSUME QuotesTrue, NEW c \in Callers, NEW q \in Quotes, NEW row \in Row,
         quotes' = [quotes EXCEPT ![q] = row], End(c), ~ Holds(calls[c]),
         UNCHANGED <<files, lead, deals, crashes, scenario>>, quotes[q].status # "NONE",
         row.status = quotes[q].status, row.file = quotes[q].file,
         row.accepted = quotes[q].accepted, row.deal = quotes[q].deal,
         row.request = quotes[q].request, row.version = quotes[q].version,
         row.previous = quotes[q].previous
  PROVE  QuotesTrue' /\ Kept
<1>1. RowBecomes(q, row)
  BY RowWritten DEF QuotesTrue
<1>2. KeptRow(quotes[q], row)
  BY DEF KeptRow
<1>3. RowTrue(row, lead.deal)
  BY DEF QuotesTrue, RowsTrue, RowTrue
<1> QED BY <1>1, <1>2, <1>3, QuoteWritten

LEMMA ApplyPricesKeeps ==
  ASSUME QuotesTrue, NEW c \in Callers, ApplyPrices(c)
  PROVE  QuotesTrue' /\ Kept
<1> DEFINE q == calls[c].quote
<1>1. calls[c].handler = "pricing" /\ calls[c] \in WriteCall /\ CallTrue(calls[c])
  BY CallKinds DEF ApplyPrices, In, QuotesTrue, Typed, CallsTrue
<1>2. q \in Quotes /\ quotes[q].status # "NONE" /\ quotes[q] \in Row /\ ~ Holds(calls[c])
  BY <1>1 DEF WriteCall, CallTrue, Holds, QuotesTrue, Typed
<1>3. PICK p \in Prices : quotes' = [quotes EXCEPT ![q].price = p]
  BY DEF ApplyPrices
<1>4. p \in Nat
  BY BoundsAssumption
<1>5. PICK row : row = [quotes[q] EXCEPT !.price = p]
  OBVIOUS
<1>6. /\ row \in Row /\ row.status = quotes[q].status /\ row.file = quotes[q].file
      /\ row.accepted = quotes[q].accepted /\ row.deal = quotes[q].deal
      /\ row.request = quotes[q].request /\ row.version = quotes[q].version
      /\ row.previous = quotes[q].previous
  BY <1>2, <1>4, <1>5, PriceEdit
<1>7. quotes' = [quotes EXCEPT ![q] = row]
  BY <1>3, <1>5
<1>8. End(c) /\ UNCHANGED <<files, lead, deals, crashes, scenario>>
  BY DEF ApplyPrices
<1> HIDE DEF q
<1> QED BY <1>2, <1>6, <1>7, <1>8, DetailWritten

LEMMA UpdateTermsKeeps ==
  ASSUME QuotesTrue, NEW c \in Callers, UpdateTerms(c)
  PROVE  QuotesTrue' /\ Kept
<1> DEFINE q == calls[c].quote
<1>1. calls[c].handler = "terms" /\ calls[c] \in WriteCall /\ CallTrue(calls[c])
  BY CallKinds DEF UpdateTerms, In, QuotesTrue, Typed, CallsTrue
<1>2. q \in Quotes /\ quotes[q].status # "NONE" /\ quotes[q] \in Row /\ ~ Holds(calls[c])
  BY <1>1 DEF WriteCall, CallTrue, Holds, QuotesTrue, Typed
<1>3. PICK t \in scenario.terms : quotes' = [quotes EXCEPT ![q].terms = t]
  BY DEF UpdateTerms
<1>4. t \in Nat
  BY BoundsAssumption DEF QuotesTrue, Typed
<1>5. PICK row : row = [quotes[q] EXCEPT !.terms = t]
  OBVIOUS
<1>6. /\ row \in Row /\ row.status = quotes[q].status /\ row.file = quotes[q].file
      /\ row.accepted = quotes[q].accepted /\ row.deal = quotes[q].deal
      /\ row.request = quotes[q].request /\ row.version = quotes[q].version
      /\ row.previous = quotes[q].previous
  BY <1>2, <1>4, <1>5, TermsEdit
<1>7. quotes' = [quotes EXCEPT ![q] = row]
  BY <1>3, <1>5
<1>8. End(c) /\ UNCHANGED <<files, lead, deals, crashes, scenario>>
  BY DEF UpdateTerms
<1> HIDE DEF q
<1> QED BY <1>2, <1>6, <1>7, <1>8, DetailWritten

LEMMA UpdateStatusKeeps ==
  ASSUME QuotesTrue, NEW c \in Callers, UpdateStatus(c)
  PROVE  QuotesTrue' /\ Kept
<1> DEFINE call == calls[c]
           q == call.quote
<1>1. call.handler = "status" /\ call \in StatusCall /\ CallTrue(call)
  BY CallKinds DEF UpdateStatus, In, QuotesTrue, Typed, CallsTrue
<1>2. /\ q \in Quotes /\ quotes[q].status # "NONE" /\ quotes[q] \in Row /\ ~ Holds(call)
      /\ RowTrue(quotes[q], lead.deal)
  BY <1>1 DEF StatusCall, CallTrue, Holds, QuotesTrue, Typed, RowsTrue
<1>3. End(c) /\ UNCHANGED <<files, lead, deals, crashes, scenario>>
  BY DEF UpdateStatus
<1>4. CASE ~ StillSeen(c)
  BY <1>2, <1>3, <1>4, EndKeeps DEF UpdateStatus
<1>5. CASE StillSeen(c)
  <2>1. quotes' = [quotes EXCEPT ![q].status = call.status]
    BY <1>5 DEF UpdateStatus
  <2>2. /\ quotes[q].status = call.seen /\ call.seen \in {"draft", "sent"}
        /\ call.status \in Transitions[call.seen]
        /\ call.seen = "draft" => quotes[q].file # NoFile
    BY <1>1, <1>5 DEF StillSeen, CallTrue
  <2>3. call.status \in {"sent", "approved", "rejected"} /\ quotes[q].file # NoFile
    BY <1>2, <2>2, TransitionFacts DEF RowTrue
  <2>4. call.status = "approved" => LeadRowFree
    BY DEF UpdateStatus
  <2>5. PICK s : s = call.status
    OBVIOUS
  <2>6. PICK row : row = [quotes[q] EXCEPT !.status = s]
    OBVIOUS
  <2>7. /\ row \in Row /\ row.status = s /\ row.file = quotes[q].file
        /\ row.accepted = quotes[q].accepted /\ row.deal = quotes[q].deal
        /\ row.request = quotes[q].request /\ row.version = quotes[q].version
        /\ row.previous = quotes[q].previous
    <3>1. s \in {"draft", "sent", "approved", "rejected", "converted"} /\ quotes[q] \in Row
      BY <1>2, <2>3, <2>5
    <3> HIDE DEF q
    <3> QED BY <2>6, <3>1, StatusEdit
  <2>8. RowBecomes(q, row)
    BY <1>2, <2>1, <2>5, <2>6, <2>7, RowWritten DEF QuotesTrue
  <2>9. KeptRow(quotes[q], row)
    BY <2>2, <2>5, <2>7 DEF KeptRow
  <2>10. ~ quotes[q].accepted
    BY <1>2, <2>2 DEF RowTrue
  <2>11. RowTrue(row, lead.deal)
    BY <1>2, <2>3, <2>5, <2>7, <2>10 DEF RowTrue
  <2>12. /\ row.status = "converted" <=> quotes[q].status = "converted"
         /\ row.status \in {"approved", "converted"} => LeadRowFree
    BY <2>2, <2>3, <2>4, <2>5, <2>7
  <2> HIDE DEF q
  <2> QED BY <1>2, <1>3, <2>7, <2>8, <2>9, <2>11, <2>12, QuoteWritten
<1> QED BY <1>4, <1>5

-----------------------------------------------------------------------------
\* The documents.

\* No document is left over, unless a process dies.
LEMMA OrphansStay ==
  ASSUME Typed, DocumentsTrue,
         \/ crashes' = crashes /\ Orphans' \subseteq Orphans
         \/ crashes' = crashes + 1 /\ \E f : Orphans' \subseteq Orphans \cup {f}
  PROVE  IsFiniteSet(Orphans)' /\ (Cardinality(Orphans) <= crashes)'
<1>1. IsFiniteSet(Orphans) /\ Cardinality(Orphans) <= crashes /\ crashes \in Nat
  BY DEF DocumentsTrue, Typed
<1>2. Cardinality(Orphans) \in Nat
  BY <1>1, FS_CardinalityType
<1>3. CASE crashes' = crashes /\ Orphans' \subseteq Orphans
  <2>1. IsFiniteSet(Orphans') /\ Cardinality(Orphans') <= Cardinality(Orphans)
    BY <1>1, <1>3, FS_Subset
  <2>2. Cardinality(Orphans') \in Nat
    BY <2>1, FS_CardinalityType
  <2> QED BY <1>1, <1>2, <1>3, <2>1, <2>2
<1>4. ASSUME crashes' = crashes + 1, NEW f, Orphans' \subseteq Orphans \cup {f}
      PROVE  IsFiniteSet(Orphans)' /\ (Cardinality(Orphans) <= crashes)'
  <2>1. /\ IsFiniteSet(Orphans \cup {f})
        /\ Cardinality(Orphans \cup {f}) \in {Cardinality(Orphans), Cardinality(Orphans) + 1}
    BY <1>1, FS_AddElement
  <2>2. IsFiniteSet(Orphans') /\ Cardinality(Orphans') <= Cardinality(Orphans \cup {f})
    BY <1>4, <2>1, FS_Subset
  <2>3. Cardinality(Orphans') \in Nat
    BY <2>2, FS_CardinalityType
  <2> QED BY <1>1, <1>2, <1>4, <2>1, <2>2, <2>3
<1> QED BY <1>3, <1>4

\* What a finalization that has stored a document says of it.
LEMMA HeldFacts ==
  ASSUME Typed, DocumentsTrue, NEW c \in Callers, Holds(calls[c])
  PROVE  /\ calls[c] \in FinalizeCall /\ calls[c].quote \in Quotes /\ calls[c].file \in Files
         /\ calls[c].created \in BOOLEAN
         /\ files[calls[c].file].quote = calls[c].quote /\ files[calls[c].file] # NoDocument
         /\ calls[c].created \/ quotes[calls[c].quote].file = calls[c].file
<1>1. calls[c] \in FinalizeCall /\ HeldDocument(calls[c])
  BY CallKinds DEF Typed, Holds, DocumentsTrue
<1> QED BY <1>1, NoDocumentTyped, NothingAssumption DEF FinalizeCall, HeldDocument

\* The file of a quote is stored.
LEMMA FileOfQuote ==
  ASSUME Typed, DocumentsTrue, NEW q \in Quotes, quotes[q].file # NoFile
  PROVE  quotes[q].file \in Files /\ files[quotes[q].file] # NoDocument
<1>1. quotes[q].file \in Files /\ files[quotes[q].file].quote = q
  BY DEF Typed, Row, DocumentsTrue, Finalized
<1> QED BY <1>1, NoDocumentTyped, NothingAssumption

\* A finalization that writes documents only.
LEMMA DocumentsWritten ==
  ASSUME QuotesTrue, NEW c \in Callers, NEW call \in Call, Becomes(c, call),
         call.handler \in {"none", "finalize"}, CallTrue(call),
         UNCHANGED <<quotes, lead, deals, scenario>>,
         files' \in [Files -> Document], crashes' \in Nat, DocumentsTrue'
  PROVE  QuotesTrue' /\ Kept
<1>1. Typed /\ RowsTrue /\ DealsTrue /\ ChainsTrue /\ HandoffsTrue /\ LinesTrue /\ CallsTrue
  BY DEF QuotesTrue
<1>2. Typed' /\ RowsTrue' /\ DealsTrue' /\ Kept
  BY <1>1, NothingKept DEF Typed, RowsTrue, DealsTrue, Becomes
<1>3. ChainsTrue' /\ HandoffsTrue' /\ LinesTrue'
  BY <1>1, ChainsFrame, HandoffsFrame, LinesFrame
<1>4. \A q \in Quotes : Committed(q)' => Committed(q)
  BY DEF Committed
<1>5. CallsTrue'
  BY <1>1, <1>2, <1>4, CallsStayTrue
<1> QED BY <1>2, <1>3, <1>5 DEF QuotesTrue

LEMMA CleanUpKeeps ==
  ASSUME QuotesTrue, NEW c \in Callers, CleanUp(c)
  PROVE  QuotesTrue' /\ Kept
<1> DEFINE f == calls[c].file
<1>1. Typed /\ DocumentsTrue /\ Holds(calls[c])
  BY DEF QuotesTrue, CleanUp, In, Holds
<1>2. Becomes(c, Idle) /\ UNCHANGED <<quotes, lead, deals, scenario, crashes>>
  BY <1>1, CallEnds DEF CleanUp
<1>3. /\ calls[c].quote \in Quotes /\ f \in Files
      /\ calls[c].created \/ quotes[calls[c].quote].file = f
  BY <1>1, HeldFacts
<1>4. \A b \in Callers : Holds(calls[b])' => b # c /\ Holds(calls[b]) /\ calls'[b] = calls[b]
  BY <1>2, IdleFacts DEF Becomes, Holds
<1>5. \A g \in Files : g # f => (Held(g)' <=> Held(g))
  BY <1>2, IdleFacts DEF Held, Becomes
<1>6. \A g : Unreferenced(g)' <=> Unreferenced(g)
  BY <1>2 DEF Unreferenced
<1>7. CASE ~ (calls[c].created /\ Unreferenced(f))
  <2>1. files' = files
    BY <1>7 DEF CleanUp, WithoutUncommitted
  <2>2. ~ Unreferenced(f)
    BY <1>3, <1>7 DEF Unreferenced
  <2>3. Orphans' \subseteq Orphans
    BY <1>5, <1>6, <2>1, <2>2 DEF Orphans
  <2>4. \A q \in Quotes : Finalized(q)' => files'[quotes'[q].file].quote = q
    BY <1>1, <1>2, <2>1 DEF DocumentsTrue, Finalized
  <2>5. \A b \in Callers : HeldDocument(calls[b])'
    BY <1>1, <1>2, <2>1, IdleFacts DEF DocumentsTrue, HeldDocument, Becomes, Holds
  <2>6. \A a, b \in Callers :
          a # b /\ Holds(calls[a])' /\ Holds(calls[b])' /\ calls'[a].created /\ calls'[b].created
          => calls'[a].file # calls'[b].file
    BY <1>1, <1>4 DEF DocumentsTrue
  <2>7. DocumentsTrue'
    BY <1>1, <1>2, <2>3, <2>4, <2>5, <2>6, OrphansStay DEF DocumentsTrue
  <2>8. CallTrue(Idle)
    BY IdleFacts DEF CallTrue
  <2> QED BY <1>1, <1>2, <2>1, <2>7, <2>8, IdleFacts, DocumentsWritten DEF Typed
<1>8. CASE calls[c].created /\ Unreferenced(f)
  <2>1. files' = [files EXCEPT ![f] = NoDocument]
    BY <1>8 DEF CleanUp, WithoutUncommitted
  <2>2. files' \in [Files -> Document] /\ files'[f] = NoDocument
        /\ \A g \in Files : g # f => files'[g] = files[g]
    BY <1>1, <1>3, <2>1, NoDocumentTyped DEF Typed
  <2>3. Orphans' \subseteq Orphans
    BY <1>5, <1>6, <2>2 DEF Orphans
  <2>4. \A q \in Quotes : Finalized(q)' => files'[quotes'[q].file].quote = q
    BY <1>1, <1>2, <1>8, <2>2, FileOfQuote DEF DocumentsTrue, Finalized, Unreferenced
  <2>5. ASSUME NEW b \in Callers PROVE HeldDocument(calls[b])'
    <3>1. CASE Holds(calls'[b])
      <4>1. b # c /\ Holds(calls[b]) /\ calls'[b] = calls[b]
        BY <1>4, <3>1 DEF Holds
      <4>2. /\ calls[b].file \in Files /\ files[calls[b].file].quote = calls[b].quote
            /\ calls[b].created \/ quotes[calls[b].quote].file = calls[b].file
            /\ calls[b].quote \in Quotes
        BY <1>1, <4>1, HeldFacts
      <4>3. calls[b].file # f
        BY <1>1, <1>8, <4>1, <4>2 DEF DocumentsTrue, Unreferenced
      <4> QED BY <1>2, <2>2, <3>1, <4>1, <4>2, <4>3 DEF HeldDocument, Holds
    <3>2. CASE ~ Holds(calls'[b])
      BY <1>1, <1>2, <3>2, IdleFacts DEF HeldDocument, Holds, DocumentsTrue, Becomes
    <3> QED BY <3>1, <3>2
  <2>6. \A a, b \in Callers :
          a # b /\ Holds(calls[a])' /\ Holds(calls[b])' /\ calls'[a].created /\ calls'[b].created
          => calls'[a].file # calls'[b].file
    BY <1>1, <1>4 DEF DocumentsTrue
  <2>7. DocumentsTrue'
    BY <1>1, <1>2, <2>3, <2>4, <2>5, <2>6, OrphansStay DEF DocumentsTrue
  <2>8. CallTrue(Idle)
    BY IdleFacts DEF CallTrue
  <2> QED BY <1>1, <1>2, <2>2, <2>7, <2>8, IdleFacts, DocumentsWritten DEF Typed
<1> QED BY <1>7, <1>8

LEMMA CrashKeeps ==
  ASSUME QuotesTrue, NEW c \in Callers, Crash(c)
  PROVE  QuotesTrue' /\ Kept
<1> DEFINE f == calls[c].file
<1>1. Typed /\ DocumentsTrue /\ Holds(calls[c])
  BY DEF QuotesTrue, Crash, In, Holds
<1>2. /\ Becomes(c, Idle) /\ UNCHANGED <<quotes, files, lead, deals, scenario>>
      /\ crashes' = crashes + 1 /\ crashes' \in Nat
  BY <1>1, CallEnds DEF Crash, Typed
<1>3. \A b \in Callers : Holds(calls[b])' => b # c /\ Holds(calls[b]) /\ calls'[b] = calls[b]
  BY <1>2, IdleFacts DEF Becomes, Holds
<1>4. \A g \in Files : g # f => (Held(g)' <=> Held(g))
  BY <1>2, IdleFacts DEF Held, Becomes
<1>5. \A g : Unreferenced(g)' <=> Unreferenced(g)
  BY <1>2 DEF Unreferenced
<1>6. Orphans' \subseteq Orphans \cup {f}
  BY <1>2, <1>4, <1>5 DEF Orphans
<1>7. \A q \in Quotes : Finalized(q)' => files'[quotes'[q].file].quote = q
  BY <1>1, <1>2 DEF DocumentsTrue, Finalized
<1>8. \A b \in Callers : HeldDocument(calls[b])'
  BY <1>1, <1>2, IdleFacts DEF DocumentsTrue, HeldDocument, Becomes, Holds
<1>9. \A a, b \in Callers :
        a # b /\ Holds(calls[a])' /\ Holds(calls[b])' /\ calls'[a].created /\ calls'[b].created
        => calls'[a].file # calls'[b].file
  BY <1>1, <1>3 DEF DocumentsTrue
<1>10. DocumentsTrue'
  BY <1>1, <1>2, <1>6, <1>7, <1>8, <1>9, OrphansStay DEF DocumentsTrue
<1>11. CallTrue(Idle)
  BY IdleFacts DEF CallTrue
<1> QED BY <1>1, <1>2, <1>10, <1>11, IdleFacts, DocumentsWritten DEF Typed

\* The call after its document is known.
LEMMA StoredCall ==
  ASSUME NEW old \in FinalizeCall, NEW next, NEW f, NEW created
  PROVE  [old EXCEPT !.phase = next, !.file = f, !.created = created]
           = [handler |-> "finalize", phase |-> next, quote |-> old.quote, file |-> f,
              created |-> created]
<1> DEFINE one == [old EXCEPT !.phase = next]
           two == [one EXCEPT !.file = f]
           three == [two EXCEPT !.created = created]
<1>1. one = [handler |-> "finalize", phase |-> next, quote |-> old.quote, file |-> old.file,
             created |-> old.created]
  BY DEF FinalizeCall
<1>2. one \in [handler : {"finalize"}, phase : {next}, quote : {old.quote}, file : {old.file},
               created : {old.created}]
  BY <1>1
<1>3. [old EXCEPT !.phase = next, !.file = f, !.created = created] = three
  OBVIOUS
<1> HIDE DEF one
<1>4. two = [handler |-> "finalize", phase |-> next, quote |-> old.quote, file |-> f,
             created |-> old.created]
  BY <1>2
<1>5. two \in [handler : {"finalize"}, phase : {next}, quote : {old.quote}, file : {f},
               created : {old.created}]
  BY <1>4
<1> HIDE DEF two
<1>6. three = [handler |-> "finalize", phase |-> next, quote |-> old.quote, file |-> f,
               created |-> created]
  BY <1>5
<1> QED BY <1>3, <1>6

LEMMA PersistFinalPdfKeeps ==
  ASSUME QuotesTrue, NEW c \in Callers, PersistFinalPdf(c)
  PROVE  QuotesTrue' /\ Kept
<1> DEFINE old == calls[c]
           q == old.quote
<1>1. Typed /\ DocumentsTrue
  BY DEF QuotesTrue
<1>2. /\ old.handler = "finalize" /\ old.phase \in {"locked", "timedOut"}
      /\ old \in FinalizeCall /\ CallTrue(old) /\ HeldDocument(old)
  BY CallKinds DEF PersistFinalPdf, In, QuotesTrue, Typed, CallsTrue, DocumentsTrue
<1>3. ~ Holds(old) /\ old.file = NoFile /\ q \in Quotes
  BY <1>2 DEF Holds, HeldDocument, FinalizeCall
<1>4. UNCHANGED <<quotes, lead, deals, crashes, scenario>>
  BY DEF PersistFinalPdf
<1>5. PICK next \in {"stored", "failed"} :
        next = IF In(c, "finalize", "locked") THEN "stored" ELSE "failed"
  OBVIOUS
<1>6. \E f \in Files, created \in BOOLEAN :
        /\ calls' = [calls EXCEPT ![c] = [@ EXCEPT !.phase = next, !.file = f, !.created = created]]
        /\ \/ ~ created /\ quotes[q].file = f /\ files' = files
           \/ /\ created /\ files[f] = NoDocument
              /\ files' = [files EXCEPT ![f] = [quote |-> q, price |-> quotes[q].price,
                                                terms |-> quotes[q].terms]]
  <2>1. CASE Finalized(q) /\ calls' = [calls EXCEPT ![c] =
               [@ EXCEPT !.phase = next, !.file = quotes[q].file, !.created = FALSE]]
             /\ files' = files
    <3>1. quotes[q].file \in Files
      BY <1>1, <1>3, <2>1, FileOfQuote DEF Finalized
    <3> QED BY <2>1, <3>1
  <2>2. CASE \E f \in NewFiles :
               /\ files' = [files EXCEPT ![f] = [quote |-> q, price |-> quotes[q].price,
                                                 terms |-> quotes[q].terms]]
               /\ calls' = [calls EXCEPT ![c] =
                    [@ EXCEPT !.phase = next, !.file = f, !.created = TRUE]]
    <3>1. \A f \in NewFiles : f \in Files /\ files[f] = NoDocument
      BY FirstOfFacts DEF NewFiles, Stored, FirstOf
    <3> QED BY <2>2, <3>1
  <2> QED BY <1>5, <2>1, <2>2 DEF PersistFinalPdf
<1>7. PICK f \in Files, created \in BOOLEAN :
        /\ calls' = [calls EXCEPT ![c] = [@ EXCEPT !.phase = next, !.file = f, !.created = created]]
        /\ \/ ~ created /\ quotes[q].file = f /\ files' = files
           \/ /\ created /\ files[f] = NoDocument
              /\ files' = [files EXCEPT ![f] = [quote |-> q, price |-> quotes[q].price,
                                                terms |-> quotes[q].terms]]
  BY <1>6
<1>8. PICK new : new = [old EXCEPT !.phase = next, !.file = f, !.created = created]
  OBVIOUS
<1>9. /\ new \in FinalizeCall /\ new.handler = "finalize" /\ new.quote = q
      /\ new.phase = next /\ new.file = f /\ new.created = created
  <2>1. new = [handler |-> "finalize", phase |-> next, quote |-> q, file |-> f,
               created |-> created]
    BY <1>2, <1>8, StoredCall
  <2>2. q \in Quotes
    BY <1>3
  <2> HIDE DEF q
  <2> QED BY <2>1, <2>2 DEF FinalizeCall
<1>10. new \in Call /\ Becomes(c, new)
  BY <1>1, <1>7, <1>8, <1>9, CallBecomes DEF Call
<1>11. CallTrue(new)
  BY <1>2, <1>9 DEF CallTrue
<1>12. PICK document \in Document :
         document = [quote |-> q, price |-> quotes[q].price, terms |-> quotes[q].terms]
  BY <1>1, <1>3 DEF Document, Typed, Row
<1>13. /\ files' \in [Files -> Document] /\ files'[f].quote = q
       /\ \A g \in Files : files[g] # NoDocument => files'[g] = files[g]
       /\ \A g \in Files : g # f => files'[g] = files[g]
  <2>1. CASE ~ created /\ quotes[q].file = f /\ files' = files
    <3>1. files[f].quote = q
      BY <1>1, <1>3, <2>1, NothingAssumption DEF DocumentsTrue, Finalized
    <3> QED BY <1>1, <2>1, <3>1 DEF Typed
  <2>2. CASE /\ created /\ files[f] = NoDocument
             /\ files' = [files EXCEPT ![f] = document]
    <3>1. document.quote = q
      BY <1>12
    <3> QED BY <1>1, <2>2, <3>1 DEF Typed
  <2> QED BY <1>7, <1>12, <2>1, <2>2
<1>14. created => files[f] = NoDocument
  BY <1>7
<1>15. \A b \in Callers : b # c => calls'[b] = calls[b]
  BY <1>10 DEF Becomes
<1>16. Orphans' \subseteq Orphans
  <2> SUFFICES ASSUME NEW g \in Files, files'[g] # NoDocument, Unreferenced(g)', ~ Held(g)'
               PROVE  files[g] # NoDocument /\ Unreferenced(g) /\ ~ Held(g)
    BY DEF Orphans
  <2>1. g # f
    BY <1>9, <1>10 DEF Held, Becomes
  <2>2. Unreferenced(g) /\ files[g] # NoDocument
    BY <1>4, <1>13, <2>1 DEF Unreferenced
  <2>3. g # NoFile
    BY NothingAssumption
  <2>4. ~ Held(g)
    BY <1>3, <1>15, <2>3 DEF Held
  <2> QED BY <2>2, <2>4
<1>17. \A p \in Quotes : Finalized(p)' => files'[quotes'[p].file].quote = p
  BY <1>1, <1>4, <1>13, FileOfQuote DEF DocumentsTrue, Finalized
<1>18. ASSUME NEW b \in Callers PROVE HeldDocument(calls[b])'
  <2>1. CASE b = c
    <3>1. calls'[b] = new
      BY <1>10, <2>1 DEF Becomes
    <3>2. created \/ quotes'[q].file = f
      BY <1>4, <1>7
    <3> QED BY <1>9, <1>13, <3>1, <3>2 DEF HeldDocument, Holds
  <2>2. CASE b # c /\ Holds(calls[b])
    <3>1. /\ calls[b].file \in Files /\ files[calls[b].file].quote = calls[b].quote
          /\ calls[b].created \/ quotes[calls[b].quote].file = calls[b].file
          /\ files[calls[b].file] # NoDocument
      BY <1>1, <2>2, HeldFacts
    <3> QED BY <1>4, <1>13, <1>15, <2>2, <3>1 DEF HeldDocument, Holds
  <2>3. CASE b # c /\ ~ Holds(calls[b])
    BY <1>1, <1>15, <2>3 DEF HeldDocument, Holds, DocumentsTrue
  <2> QED BY <2>1, <2>2, <2>3
<1>19. ASSUME NEW a \in Callers, NEW b \in Callers, a # b, Holds(calls'[a]), Holds(calls'[b]),
              calls'[a].created, calls'[b].created
       PROVE  calls'[a].file # calls'[b].file
  <2>1. CASE a # c /\ b # c
    BY <1>1, <1>15, <1>19, <2>1 DEF DocumentsTrue
  <2>2. CASE a = c
    <3>1. calls'[a] = new /\ calls'[b] = calls[b]
      BY <1>10, <1>15, <1>19, <2>2 DEF Becomes
    <3>2. files[calls[b].file] # NoDocument
      BY <1>1, <1>19, <3>1, HeldFacts
    <3> QED BY <1>9, <1>14, <1>19, <3>1, <3>2
  <2>3. CASE b = c
    <3>1. calls'[b] = new /\ calls'[a] = calls[a]
      BY <1>10, <1>15, <1>19, <2>3 DEF Becomes
    <3>2. files[calls[a].file] # NoDocument
      BY <1>1, <1>19, <3>1, HeldFacts
    <3> QED BY <1>9, <1>14, <1>19, <3>1, <3>2
  <2> QED BY <2>1, <2>2, <2>3
<1>20. DocumentsTrue'
  BY <1>1, <1>4, <1>16, <1>17, <1>18, <1>19, OrphansStay DEF DocumentsTrue, Holds
<1> HIDE DEF q
<1> QED BY <1>1, <1>4, <1>9, <1>10, <1>11, <1>13, <1>20, DocumentsWritten DEF Typed

LEMMA FinalizeQuoteKeeps ==
  ASSUME QuotesTrue, NEW c \in Callers, NEW learnt \in BOOLEAN, FinalizeQuote(c, learnt)
  PROVE  QuotesTrue' /\ Kept
<1> DEFINE old == calls[c]
           q == old.quote
           f == old.file
<1>1. Typed /\ RowsTrue /\ DealsTrue /\ DocumentsTrue /\ ChainsTrue /\ HandoffsTrue /\ LinesTrue
      /\ CallsTrue
  BY DEF QuotesTrue
<1>2. old.handler = "finalize" /\ old.phase = "stored" /\ Holds(old) /\ CallTrue(old)
  BY <1>1 DEF FinalizeQuote, In, Holds, CallsTrue
<1>3. /\ old \in FinalizeCall /\ q \in Quotes /\ f \in Files
      /\ files[f].quote = q /\ f # NoFile
  BY <1>1, <1>2, HeldFacts, NothingAssumption
<1>4. quotes[q].status = "draft" /\ quotes[q].file = NoFile /\ quotes[q] \in Row
      /\ RowTrue(quotes[q], lead.deal)
  BY <1>1, <1>3 DEF FinalizeQuote, Mutable, Finalized, Typed, RowsTrue
<1>5. UNCHANGED <<files, lead, deals, crashes, scenario>>
  BY DEF FinalizeQuote
<1>6. PICK row : row = [quotes[q] EXCEPT !.file = f]
  OBVIOUS
<1>7. /\ row \in Row /\ row.status = quotes[q].status /\ row.file = f
      /\ row.accepted = quotes[q].accepted /\ row.deal = quotes[q].deal
      /\ row.request = quotes[q].request /\ row.version = quotes[q].version
      /\ row.previous = quotes[q].previous
  BY <1>3, <1>4, <1>6, FileEdit
<1>8. RowBecomes(q, row)
  BY <1>1, <1>3, <1>6, <1>7, RowWritten DEF FinalizeQuote
<1>9. KeptRow(quotes[q], row) /\ RowTrue(row, lead.deal)
  BY <1>3, <1>4, <1>7 DEF KeptRow, RowTrue
<1>10. Kept
  BY <1>1, <1>3, <1>5, <1>8, <1>9, RowKept
<1>11. PICK new \in Call :
         /\ Becomes(c, new) /\ CallTrue(new)
         /\ \/ new = Idle
            \/ /\ new.handler = "finalize" /\ new.quote = q /\ new.file = f
               /\ new.created = old.created /\ Holds(new)
  <2>1. CASE learnt
    BY <1>1, <2>1, CallEnds, IdleFacts DEF FinalizeQuote, CallTrue
  <2>2. CASE ~ learnt
    <3>1. PICK new : new = [old EXCEPT !.phase = "failed"]
      OBVIOUS
    <3>2. /\ new \in FinalizeCall /\ new.handler = "finalize" /\ new.phase = "failed"
          /\ new.quote = q /\ new.file = f /\ new.created = old.created
      BY <1>3, <3>1 DEF FinalizeCall
    <3>3. calls' = [calls EXCEPT ![c] = new] /\ new \in Call
      BY <2>2, <3>1, <3>2 DEF FinalizeQuote, Call
    <3>4. CallTrue(new) /\ Holds(new)
      BY <1>2, <3>2 DEF CallTrue, Holds
    <3> QED BY <1>1, <3>2, <3>3, <3>4, CallBecomes
  <2> QED BY <2>1, <2>2
<1>12. Typed'
  BY <1>1, <1>5, <1>8, <1>11 DEF Typed, RowBecomes, Becomes
<1>13. RowsTrue' /\ DealsTrue'
  <2>1. \A p \in Quotes : RowTrue(quotes'[p], lead'.deal)
    BY <1>1, <1>5, <1>8, <1>9 DEF RowsTrue, RowBecomes
  <2> QED BY <1>1, <1>5, <2>1 DEF RowsTrue, DealsTrue, RowTrue
<1>14. \A p \in Quotes :
         /\ quotes'[p].status = quotes[p].status
         /\ quotes'[p].accepted = quotes[p].accepted /\ quotes'[p].deal = quotes[p].deal
         /\ quotes'[p].request = quotes[p].request /\ quotes'[p].version = quotes[p].version
         /\ quotes'[p].previous = quotes[p].previous
         /\ quotes[p].file # NoFile => quotes'[p].file = quotes[p].file
         /\ p # q => quotes'[p].file = quotes[p].file
  BY <1>4, <1>7, <1>8 DEF RowBecomes
<1>15. ChainsTrue' /\ HandoffsTrue' /\ LinesTrue'
  BY <1>1, <1>5, <1>14, ChainsFrame, HandoffsFrame, LinesFrame
<1>16. CallsTrue'
  <2>1. \A p \in Quotes : Committed(p)' => Committed(p)
    BY <1>14 DEF Committed
  <2>2. \A b \in Callers : In(b, "accept", "claimed") => calls[b].quote \in Quotes
    BY <1>1, CallKinds DEF In, Typed, AcceptCall
  <2>3. new.handler \in {"none", "finalize"}
    BY <1>11, IdleFacts
  <2> QED BY <1>1, <1>10, <1>11, <1>12, <1>14, <2>1, <2>2, <2>3, CallsStayTrue
<1>17. quotes'[q].file = f
  BY <1>7, <1>8 DEF RowBecomes
<1>18. DocumentsTrue'
  <2>1. \A p \in Quotes : Finalized(p)' => files'[quotes'[p].file].quote = p
    BY <1>1, <1>3, <1>5, <1>14, <1>17 DEF DocumentsTrue, Finalized
  <2>2. ASSUME NEW b \in Callers PROVE HeldDocument(calls[b])'
    <3>1. CASE b = c
      <4>1. calls'[b] = new
        BY <1>11, <3>1 DEF Becomes
      <4> QED BY <1>3, <1>5, <1>11, <1>17, <4>1, IdleFacts DEF HeldDocument, Holds
    <3>2. CASE b # c /\ Holds(calls[b])
      <4>1. /\ calls[b].file \in Files /\ files[calls[b].file].quote = calls[b].quote
            /\ calls[b].created \/ quotes[calls[b].quote].file = calls[b].file
            /\ calls[b].quote \in Quotes /\ calls[b].file # NoFile
        BY <1>1, <3>2, HeldFacts, NothingAssumption
      <4>2. calls'[b] = calls[b]
        BY <1>11, <3>2 DEF Becomes
      <4>3. calls[b].created \/ quotes'[calls[b].quote].file = calls[b].file
        BY <1>14, <4>1
      <4> QED BY <1>5, <3>2, <4>1, <4>2, <4>3 DEF HeldDocument, Holds
    <3>3. CASE b # c /\ ~ Holds(calls[b])
      BY <1>1, <1>11, <3>3 DEF HeldDocument, Holds, DocumentsTrue, Becomes
    <3> QED BY <3>1, <3>2, <3>3
  <2>3. \A b \in Callers : Holds(calls'[b]) =>
          /\ Holds(calls[b]) /\ calls'[b].file = calls[b].file
          /\ calls'[b].created = calls[b].created
    BY <1>2, <1>11, IdleFacts DEF Becomes, Holds
  <2>4. \A a, b \in Callers :
          a # b /\ Holds(calls'[a]) /\ Holds(calls'[b]) /\ calls'[a].created /\ calls'[b].created
          => calls'[a].file # calls'[b].file
    BY <1>1, <2>3 DEF DocumentsTrue
  <2>5. Orphans' \subseteq Orphans
    <3> SUFFICES ASSUME NEW g \in Files, files'[g] # NoDocument, Unreferenced(g)', ~ Held(g)'
                 PROVE  files[g] # NoDocument /\ Unreferenced(g) /\ ~ Held(g)
      BY DEF Orphans
    <3>1. g # f /\ g # NoFile
      BY <1>3, <1>17, NothingAssumption DEF Unreferenced
    <3>2. Unreferenced(g) /\ files[g] # NoDocument
      BY <1>4, <1>5, <1>14, <3>1 DEF Unreferenced
    <3>3. ~ Held(g)
      BY <1>11, <3>1 DEF Held, Becomes
    <3> QED BY <3>2, <3>3
  <2> QED BY <1>1, <1>5, <2>1, <2>2, <2>4, <2>5, OrphansStay DEF DocumentsTrue, Holds
<1> QED BY <1>10, <1>12, <1>13, <1>15, <1>16, <1>18 DEF QuotesTrue

-----------------------------------------------------------------------------
\* New rows: the first version of a request, the next version of a quote.

\* The calls under way when others go on.
LEMMA CallsGoOn ==
  ASSUME Typed, Typed', Kept, CallsTrue,
         \A b \in Callers : calls'[b] = calls[b] \/ calls'[b] = Idle,
         \A b \in Callers : In(b, "accept", "claimed")' =>
           quotes'[calls[b].quote].accepted = quotes[calls[b].quote].accepted,
         \/ \A q \in Quotes : Committed(q)' => Committed(q)
         \/ \A b \in Callers : ~ In(b, "qualification", "checked")'
  PROVE  CallsTrue'
<1>1. ClaimsTrue'
  <2>1. \A b \in Callers : In(b, "accept", "claimed")' =>
          In(b, "accept", "claimed") /\ calls'[b] = calls[b]
    BY IdleFacts DEF In
  <2> QED BY <2>1 DEF CallsTrue, ClaimsTrue
<1>2. ASSUME NEW b \in Callers PROVE CallTrue(calls[b])'
  <2>1. CASE calls'[b] = Idle
    BY <2>1, IdleFacts DEF CallTrue
  <2>2. CASE calls'[b] = calls[b]
    <3>1. PICK old : old = calls[b]
      OBVIOUS
    <3>2. calls'[b] = old /\ old \in Call /\ CallTrue(old)
      BY <2>2, <3>1 DEF CallsTrue, Typed
    <3>3. /\ old.handler = "accept" /\ old.phase = "claimed" =>
               quotes'[old.quote].accepted = quotes[old.quote].accepted
          /\ old.handler = "qualification" /\ old.phase = "checked" =>
               \A q \in Quotes : Committed(q)' => Committed(q)
      BY <2>2, <3>1 DEF In
    <3>4. CallTrue(old)'
      BY <3>2, <3>3, CallStaysTrue
    <3> QED BY <3>2, <3>4 DEF CallTrue
  <2> QED BY <2>1, <2>2
<1> QED BY <1>1, <1>2 DEF CallsTrue

LEMMA RowAdded ==
  ASSUME QuotesTrue, NEW q \in Quotes, quotes[q].status = "NONE", NEW row \in Row,
         RowBecomes(q, row), row.status = "draft", row.request \in Requests, row.version # 0,
         row.file = NoFile, ~ row.accepted, row.deal \in {NoDeal, lead.deal},
         calls' \in [Callers -> Call],
         \A b \in Callers : calls'[b] = calls[b] \/ (calls'[b] = Idle /\ ~ Holds(calls[b])),
         UNCHANGED <<files, lead, deals, crashes, scenario>>, ChainsTrue'
  PROVE  QuotesTrue' /\ Kept
<1>1. Typed /\ RowsTrue /\ DealsTrue /\ DocumentsTrue /\ HandoffsTrue /\ LinesTrue /\ CallsTrue
  BY DEF QuotesTrue
<1>2. /\ quotes[q].file = NoFile /\ quotes[q].accepted = FALSE /\ row.accepted = FALSE
  BY <1>1, NoRowTyped DEF RowsTrue, RowTrue, Typed, Row
<1>3. Kept
  BY <1>1, RowKept
<1>4. Typed'
  BY <1>1 DEF Typed, RowBecomes
<1>5. RowsTrue' /\ DealsTrue'
  <2>1. RowTrue(row, lead.deal)
    BY DEF RowTrue
  <2>2. \A p \in Quotes : RowTrue(quotes'[p], lead'.deal)
    BY <1>1, <2>1 DEF RowsTrue, RowBecomes
  <2> QED BY <1>1, <2>2 DEF RowsTrue, DealsTrue, RowTrue
<1>6. \A p \in Quotes :
        /\ quotes'[p].file = quotes[p].file /\ quotes'[p].accepted = quotes[p].accepted
        /\ quotes[p].accepted => quotes'[p].deal = quotes[p].deal
        /\ quotes'[p].status = "converted" <=> quotes[p].status = "converted"
        /\ quotes[p].status = "converted" => quotes'[p].deal = quotes[p].deal
        /\ Committed(p)' => Committed(p)
  BY <1>2 DEF RowBecomes, Committed
<1>7. DocumentsTrue'
  <2>1. ASSUME NEW b \in Callers PROVE calls'[b] = calls[b] \/ SameDocument(calls[b], calls'[b])
    <3>1. calls[b].handler = "finalize" /\ ~ Holds(calls[b]) => calls[b].file = NoFile
      BY <1>1 DEF DocumentsTrue, HeldDocument
    <3> QED BY <3>1, NothingAssumption, IdleFacts DEF SameDocument, Holds
  <2> QED BY <1>1, <1>4, <1>6, <2>1, DocumentsFrame
<1>8. HandoffsTrue' /\ LinesTrue'
  BY <1>1, <1>6, HandoffsFrame, LinesFrame
<1>9. CallsTrue'
  <2>1. \A b \in Callers : In(b, "accept", "claimed")' => calls[b].quote \in Quotes
    <3> SUFFICES ASSUME NEW b \in Callers, In(b, "accept", "claimed")' PROVE calls[b].quote \in Quotes
      OBVIOUS
    <3>1. calls[b].handler = "accept" /\ calls[b] \in Call
      BY <1>1, IdleFacts DEF In, Typed
    <3> QED BY <3>1, CallKinds DEF AcceptCall
  <2> QED BY <1>1, <1>3, <1>4, <1>6, <2>1, CallsGoOn
<1> QED BY <1>3, <1>4, <1>5, <1>7, <1>8, <1>9 DEF QuotesTrue

\* The rows of a chain exist.
LEMMA ChainExists ==
  ASSUME RowsTrue, NEW r \in Requests, NEW q \in Chain(r)
  PROVE  q \in Quotes /\ quotes[q].status # "NONE" /\ quotes[q].request = r
BY NoRowTyped, NothingAssumption DEF Chain, RowsTrue, RowTrue

\* A chain nobody writes.
LEMMA ChainSame ==
  ASSUME NEW r \in Requests, VersionsTrue(r), Chain(r)' = Chain(r),
         \A q \in Chain(r) : quotes'[q] = quotes[q]
  PROVE  VersionsTrue(r)'
BY DEF VersionsTrue, Finalized

LEMMA CreateKeeps ==
  ASSUME QuotesTrue, NEW r \in Requests, Create(r)
  PROVE  QuotesTrue' /\ Kept
<1>1. Typed /\ RowsTrue /\ ChainsTrue
  BY DEF QuotesTrue
<1>2. PICK q \in NewQuotes, t \in scenario.terms :
        quotes' = [quotes EXCEPT ![q] = [NoRow EXCEPT
          !.status = "draft", !.request = r, !.version = 1, !.terms = t, !.deal = lead.deal]]
  BY DEF Create
<1>3. q \in Quotes /\ quotes[q].status = "NONE" /\ quotes[q] = NoRow
  BY <1>1, FirstOfFacts DEF NewQuotes, Existing, RowsTrue, RowTrue
<1>4. t \in Nat /\ lead.deal \in Deals \cup {NoDeal}
  BY <1>1, BoundsAssumption DEF Typed, LeadRow
<1>5. PICK d : d = lead.deal
  OBVIOUS
<1>6. PICK row : row = [NoRow EXCEPT
        !.status = "draft", !.request = r, !.version = 1, !.terms = t, !.deal = d]
  OBVIOUS
<1>7. row = [status |-> "draft", request |-> r, version |-> 1, previous |-> NoQuote, price |-> 0,
             terms |-> t, file |-> NoFile, accepted |-> FALSE, deal |-> d]
  BY <1>6 DEF NoRow
<1>8. row \in Row
  BY <1>4, <1>5, <1>7 DEF Row
<1>9. RowBecomes(q, row)
  BY <1>1, <1>2, <1>3, <1>5, <1>6, <1>8, RowWritten
<1>10. Chain(r) = {}
  <2> SUFFICES ASSUME NEW p \in Chain(r) PROVE FALSE
    OBVIOUS
  <2>1. p \in Existing /\ quotes[p].request = r
    BY <1>1, ChainExists DEF Existing
  <2> QED BY <2>1 DEF Create, Unquoted
<1>11. Chain(r)' = {q}
  BY <1>3, <1>7, <1>9, <1>10 DEF Chain, RowBecomes
<1>12. \A s \in Requests : s # r =>
         Chain(s)' = Chain(s) /\ \A p \in Chain(s) : quotes'[p] = quotes[p]
  BY <1>3, <1>7, <1>9, NoRowTyped, NothingAssumption DEF Chain, RowBecomes
<1>13. VersionsTrue(r)'
  <2>1. IsFiniteSet({q}) /\ Cardinality({q}) = 1
    BY FS_Singleton
  <2>2. quotes'[q].version = 1 /\ quotes'[q].previous = NoQuote
    BY <1>7, <1>9 DEF RowBecomes
  <2> QED BY <1>11, <2>1, <2>2 DEF VersionsTrue
<1>14. ChainsTrue'
  BY <1>1, <1>12, <1>13, ChainSame DEF ChainsTrue
<1>15. calls' = calls /\ UNCHANGED <<files, lead, deals, crashes, scenario>>
  BY DEF Create
<1>16. /\ row.status = "draft" /\ row.request \in Requests /\ row.version # 0
       /\ row.file = NoFile /\ ~ row.accepted /\ row.deal \in {NoDeal, lead.deal}
  BY <1>5, <1>7
<1>17. /\ calls' \in [Callers -> Call]
       /\ \A b \in Callers : calls'[b] = calls[b] \/ (calls'[b] = Idle /\ ~ Holds(calls[b]))
  BY <1>1, <1>15 DEF Typed
<1> QED BY <1>3, <1>8, <1>9, <1>14, <1>15, <1>16, <1>17, RowAdded

\* The row of the next version, field by field.
LEMMA NextRow ==
  ASSUME NEW old \in Row, NEW s \in Quotes, NEW price \in Nat
  PROVE  LET new == VersionAfter(old, s, price)
         IN  /\ new \in Row /\ new.status = "draft" /\ new.version = old.version + 1
             /\ new.previous = s /\ new.file = NoFile /\ new.accepted = FALSE
             /\ new.request = old.request /\ new.deal = old.deal
<1> DEFINE one == [old EXCEPT !.status = "draft"]
           two == [one EXCEPT !.version = @ + 1]
           three == [two EXCEPT !.previous = s]
           four == [three EXCEPT !.price = price]
           five == [four EXCEPT !.file = NoFile]
           six == [five EXCEPT !.accepted = FALSE]
<1>1. one \in Row /\ one.status = "draft" /\ one.version = old.version
      /\ one.request = old.request /\ one.deal = old.deal
  BY DEF Row
<1>2. six = VersionAfter(old, s, price)
  BY DEF VersionAfter
<1> HIDE DEF one
<1>3. two \in Row /\ two.status = "draft" /\ two.version = old.version + 1
      /\ two.request = old.request /\ two.deal = old.deal
  BY <1>1 DEF Row
<1> HIDE DEF two
<1>4. three \in Row /\ three.status = "draft" /\ three.version = old.version + 1
      /\ three.previous = s /\ three.request = old.request /\ three.deal = old.deal
  BY <1>3 DEF Row
<1> HIDE DEF three
<1>5. four \in Row /\ four.status = "draft" /\ four.version = old.version + 1
      /\ four.previous = s /\ four.request = old.request /\ four.deal = old.deal
  BY <1>4 DEF Row
<1> HIDE DEF four
<1>6. five \in Row /\ five.status = "draft" /\ five.version = old.version + 1
      /\ five.previous = s /\ five.file = NoFile
      /\ five.request = old.request /\ five.deal = old.deal
  BY <1>5 DEF Row
<1> HIDE DEF five
<1>7. six \in Row /\ six.status = "draft" /\ six.version = old.version + 1
      /\ six.previous = s /\ six.file = NoFile /\ six.accepted = FALSE
      /\ six.request = old.request /\ six.deal = old.deal
  BY <1>6 DEF Row
<1> HIDE DEF six
<1> QED BY <1>2, <1>7

\* A chain without a successor of s ends with s; the next version goes behind.
LEMMA ChainGrows ==
  ASSUME Typed, RowsTrue, NEW r \in Requests, VersionsTrue(r),
         NEW s \in Quotes, quotes[s].status # "NONE", quotes[s].request = r, quotes[s].file # NoFile,
         Successors(s) = {}, NEW q \in Quotes, quotes[q].status = "NONE",
         NEW row \in Row, RowBecomes(q, row), row.status = "draft", row.request = r,
         row.version = quotes[s].version + 1, row.previous = s
  PROVE  VersionsTrue(r)'
<1> DEFINE C == Chain(r)
           n == Cardinality(C)
           v == quotes[s].version
<1>1. s \in C /\ q \notin C
  BY ChainExists DEF Chain
<1>2. IsFiniteSet(C) /\ n \in Nat
  BY FS_CardinalityType DEF VersionsTrue
<1>3. v \in 1..n
  BY <1>1 DEF VersionsTrue
<1>4. v = n
  <2> SUFFICES ASSUME v # n PROVE FALSE
    OBVIOUS
  <2>1. v + 1 \in 1..n /\ v + 1 # 1
    BY <1>2, <1>3
  <2>2. PICK t \in C : quotes[t].version = v + 1
    BY <2>1 DEF VersionsTrue
  <2>3. PICK p \in C : p = quotes[t].previous /\ quotes[p].version = quotes[t].version - 1
    BY <2>1, <2>2 DEF VersionsTrue
  <2>4. quotes[p].version = quotes[s].version
    BY <1>2, <1>3, <2>2, <2>3
  <2>5. p = s
    BY <1>1, <2>4 DEF VersionsTrue
  <2>6. t \in Successors(s)
    BY <2>3, <2>5, ChainExists DEF Successors, Existing
  <2> QED BY <2>6
<1>5. Chain(r)' = C \cup {q}
  BY <1>1 DEF Chain, RowBecomes
<1>6. IsFiniteSet(C \cup {q}) /\ Cardinality(C \cup {q}) = n + 1
  BY <1>1, <1>2, FS_AddElement
<1>7. \A p \in C : quotes'[p] = quotes[p] /\ p # q
  BY <1>1 DEF Chain, RowBecomes
<1>8. quotes'[q].version = n + 1 /\ quotes'[q].previous = s
  BY <1>4 DEF RowBecomes
<1>9. \A p \in C : quotes[p].version \in 1..n
  BY DEF VersionsTrue
<1>10. \A p \in C \cup {q} : quotes'[p].version \in 1..(n + 1)
  BY <1>2, <1>7, <1>8, <1>9
<1>11. \A m \in 1..(n + 1) : \E p \in C \cup {q} : quotes'[p].version = m
  <2> SUFFICES ASSUME NEW m \in 1..(n + 1) PROVE \E p \in C \cup {q} : quotes'[p].version = m
    OBVIOUS
  <2>1. CASE m = n + 1
    BY <1>8, <2>1
  <2>2. CASE m # n + 1
    <3>1. m \in 1..n
      BY <1>2, <2>2
    <3>2. PICK p \in C : quotes[p].version = m
      BY <3>1 DEF VersionsTrue
    <3> QED BY <1>7, <3>2
  <2> QED BY <2>1, <2>2
<1>12. \A a, b \in C \cup {q} : quotes'[a].version = quotes'[b].version => a = b
  <2>1. \A p \in C : quotes'[p].version # n + 1
    BY <1>2, <1>7, <1>9
  <2> QED BY <1>7, <1>8, <2>1 DEF VersionsTrue
<1>13. ASSUME NEW a \in C \cup {q}
       PROVE  LET p == quotes'[a].previous
              IN  IF quotes'[a].version = 1 THEN p = NoQuote
                  ELSE /\ p \in C \cup {q} /\ quotes'[p].file # NoFile
                       /\ quotes'[p].version = quotes'[a].version - 1
  <2>1. CASE a = q
    <3>1. quotes'[s] = quotes[s]
      BY <1>1, <1>7
    <3>2. n + 1 # 1 /\ n = (n + 1) - 1
      BY <1>2, <1>3
    <3> QED BY <1>1, <1>4, <1>8, <2>1, <3>1, <3>2
  <2>2. CASE a \in C
    <3> DEFINE p == quotes[a].previous
    <3>1. IF quotes[a].version = 1 THEN p = NoQuote
          ELSE p \in C /\ quotes[p].file # NoFile /\ quotes[p].version = quotes[a].version - 1
      BY <2>2 DEF VersionsTrue, Finalized
    <3>2. quotes'[a] = quotes[a]
      BY <1>7, <2>2
    <3>3. p \in C => quotes'[p] = quotes[p]
      BY <1>7
    <3> HIDE DEF p, C
    <3>4. quotes'[a].previous = p
      BY <3>2 DEF p
    <3> QED BY <3>1, <3>2, <3>3, <3>4
  <2> QED BY <2>1, <2>2
<1> HIDE DEF C
<1> QED BY ONLY <1>5, <1>6, <1>10, <1>11, <1>12, <1>13 DEF VersionsTrue, Finalized

LEMMA CreateNextVersionKeeps ==
  ASSUME QuotesTrue, NEW c \in Callers, CreateNextVersion(c)
  PROVE  QuotesTrue' /\ Kept
<1> DEFINE call == calls[c]
           s == call.quote
<1>1. Typed /\ RowsTrue /\ ChainsTrue
  BY DEF QuotesTrue
<1>2. call.handler = "version" /\ call \in VersionCall /\ CallTrue(call) /\ ~ Holds(call)
  BY CallKinds DEF CreateNextVersion, In, QuotesTrue, Typed, CallsTrue, Holds
<1>3. /\ s \in Quotes /\ call.row \in Row
      /\ quotes[s].status # "NONE" /\ quotes[s].file # NoFile
      /\ call.row.request = quotes[s].request /\ call.row.version = quotes[s].version
      /\ call.row.deal \in {NoDeal, lead.deal}
  BY <1>2 DEF VersionCall, CallTrue
<1>4. quotes[s].request \in Requests /\ quotes[s].version \in Nat
  BY <1>1, <1>3 DEF RowsTrue, RowTrue, Typed, Row
<1>5. End(c) /\ UNCHANGED <<files, requests, lead, deals, crashes, scenario>>
  BY DEF CreateNextVersion
<1>6. CASE UNCHANGED quotes
  BY <1>2, <1>5, <1>6, EndKeeps
<1>7. ASSUME Successors(s) = {}, NEW q \in NewQuotes, NEW price \in NextPrices(call.row),
             quotes' = [quotes EXCEPT ![q] = VersionAfter(call.row, s, price)]
      PROVE  QuotesTrue' /\ Kept
  <2>1. q \in Quotes /\ quotes[q].status = "NONE" /\ quotes[q] = NoRow
    BY <1>1, FirstOfFacts DEF NewQuotes, Existing, RowsTrue, RowTrue
  <2>2. price \in Nat
    BY <1>3 DEF NextPrices, Row
  <2>3. PICK old : old = call.row
    OBVIOUS
  <2>4. PICK source : source = s
    OBVIOUS
  <2>6. old \in Row /\ source \in Quotes
    BY <1>3, <2>3, <2>4
  <2>5. PICK row : row = VersionAfter(old, source, price)
    OBVIOUS
  <2>7. /\ row \in Row /\ row.status = "draft" /\ row.version = old.version + 1
        /\ row.previous = source /\ row.file = NoFile /\ row.accepted = FALSE
        /\ row.request = old.request /\ row.deal = old.deal
    BY <2>2, <2>5, <2>6, NextRow
  <2>8. quotes' = [quotes EXCEPT ![q] = row]
    BY <1>7, <2>3, <2>4, <2>5
  <2>9. RowBecomes(q, row)
    BY <1>1, <2>1, <2>7, <2>8, RowWritten
  <2>10. PICK r \in Requests : r = quotes[s].request
    BY <1>4
  <2>11. VersionsTrue(r)'
    BY <1>1, <1>3, <1>7, <2>1, <2>3, <2>4, <2>7, <2>9, <2>10, ChainGrows DEF ChainsTrue
  <2>12. \A t \in Requests : t # r =>
           Chain(t)' = Chain(t) /\ \A p \in Chain(t) : quotes'[p] = quotes[p]
    BY <1>3, <2>1, <2>3, <2>7, <2>9, <2>10, NoRowTyped, NothingAssumption DEF Chain, RowBecomes
  <2>13. ChainsTrue'
    BY <1>1, <2>11, <2>12, ChainSame DEF ChainsTrue
  <2>14. /\ calls' \in [Callers -> Call]
         /\ \A b \in Callers : calls'[b] = calls[b] \/ (calls'[b] = Idle /\ ~ Holds(calls[b]))
    BY <1>1, <1>2, <1>5, CallEnds DEF Becomes
  <2>15. /\ row.request \in Requests /\ row.version # 0 /\ ~ row.accepted
         /\ row.deal \in {NoDeal, lead.deal}
    BY <1>3, <1>4, <2>3, <2>7
  <2> QED BY <1>5, <2>1, <2>7, <2>9, <2>13, <2>14, <2>15, RowAdded
<1> QED BY <1>6, <1>7 DEF CreateNextVersion

-----------------------------------------------------------------------------
\* The lead and its deal.

DealBecomes(d, row) ==
  /\ deals' \in [Deals -> DealRow]
  /\ deals'[d] = row
  /\ \A e \in Deals : e # d => deals'[e] = deals[e]

LEMMA DealWritten ==
  ASSUME Typed, NEW d \in Deals, NEW row \in DealRow, deals' = [deals EXCEPT ![d] = row]
  PROVE  DealBecomes(d, row)
BY DEF Typed, DealBecomes

\* The lead or its deal changes; handoffs and lines do not.
LEMMA LeadWritten ==
  ASSUME QuotesTrue, UNCHANGED <<quotes, files, crashes, scenario>>,
         calls' \in [Callers -> Call],
         \A b \in Callers : calls'[b] = calls[b] \/ (calls'[b] = Idle /\ ~ Holds(calls[b])),
         lead' \in LeadRow, lead'.deal = lead.deal \/ lead.deal = NoDeal,
         deals' \in [Deals -> DealRow],
         \A d \in Deals : /\ deals'[d].handoffs = deals[d].handoffs
                          /\ deals'[d].lines = deals[d].lines,
         DealsTrue'
  PROVE  QuotesTrue' /\ Kept
<1>1. Typed /\ RowsTrue /\ DocumentsTrue /\ ChainsTrue /\ HandoffsTrue /\ LinesTrue /\ CallsTrue
  BY DEF QuotesTrue
<1>2. Kept
  BY DEF Kept, KeptRow
<1>3. Typed'
  BY <1>1 DEF Typed
<1>4. RowsTrue'
  BY <1>1 DEF RowsTrue, RowTrue
<1>5. DocumentsTrue'
  <2>1. ASSUME NEW b \in Callers PROVE calls'[b] = calls[b] \/ SameDocument(calls[b], calls'[b])
    <3>1. calls[b].handler = "finalize" /\ ~ Holds(calls[b]) => calls[b].file = NoFile
      BY <1>1 DEF DocumentsTrue, HeldDocument
    <3> QED BY <3>1, NothingAssumption, IdleFacts DEF SameDocument, Holds
  <2> QED BY <1>1, <1>3, <2>1, DocumentsFrame
<1>6. ChainsTrue' /\ HandoffsTrue' /\ LinesTrue'
  BY <1>1, ChainsFrame, HandoffsFrame, LinesFrame
<1>7. CallsTrue'
  <2>1. \A q \in Quotes : Committed(q)' => Committed(q)
    BY DEF Committed
  <2> QED BY <1>1, <1>2, <1>3, <2>1, CallsGoOn
<1> QED BY <1>2, <1>3, <1>4, <1>5, <1>6, <1>7, DealsTrue' DEF QuotesTrue

LEMMA QualifyEdit ==
  ASSUME NEW old \in LeadRow, NEW d \in Deals, NEW stockOnly \in BOOLEAN
  PROVE  /\ [old EXCEPT !.status = "QUALIFIED", !.deal = d, !.stockOnly = stockOnly] \in LeadRow
         /\ [old EXCEPT !.status = "QUALIFIED", !.deal = d, !.stockOnly = stockOnly].deal = d
BY DEF LeadRow

LEMMA ConvertEdit ==
  ASSUME NEW old \in LeadRow, NEW d \in Deals
  PROVE  /\ [old EXCEPT !.deal = d, !.status = "CONVERTED"] \in LeadRow
         /\ [old EXCEPT !.deal = d, !.status = "CONVERTED"].deal = d
         /\ [old EXCEPT !.status = "CONVERTED"] \in LeadRow
         /\ [old EXCEPT !.status = "CONVERTED"].deal = old.deal
BY DEF LeadRow

LEMMA LeadStatusEdit ==
  ASSUME NEW old \in LeadRow
  PROVE  /\ [old EXCEPT !.status = "LOST", !.lost = TRUE] \in LeadRow
         /\ [old EXCEPT !.status = "LOST", !.lost = TRUE].deal = old.deal
         /\ [old EXCEPT !.status = "UNQUALIFIED"] \in LeadRow
         /\ [old EXCEPT !.status = "UNQUALIFIED"].deal = old.deal
BY DEF LeadRow

LEMMA StockChoiceEdit ==
  ASSUME NEW old \in LeadRow, NEW stockOnly \in BOOLEAN
  PROVE  /\ [old EXCEPT !.stockOnly = stockOnly] \in LeadRow
         /\ [old EXCEPT !.stockOnly = stockOnly].deal = old.deal
BY DEF LeadRow

LEMMA StageEdit ==
  ASSUME NEW old \in DealRow, NEW stage \in Stages
  PROVE  /\ LET new == [old EXCEPT !.stage = stage] IN
              /\ new \in DealRow /\ new.stage = stage
              /\ new.lines = old.lines /\ new.handoffs = old.handoffs
         /\ LET new == [old EXCEPT !.stage = stage, !.lost = TRUE] IN
              /\ new \in DealRow /\ new.stage = stage
              /\ new.lines = old.lines /\ new.handoffs = old.handoffs
BY DEF DealRow, DealStages

\* What is free is as it was never made.
LEMMA FreeFacts ==
  ASSUME QuotesTrue, NEW d \in FirstOf(FreeDeals)
  PROVE  d \in Deals /\ deals[d] = NoDealRow /\ d # lead.deal
BY FirstOfFacts DEF FreeDeals, QuotesTrue, DealsTrue

LEMMA QualifyKeeps ==
  ASSUME QuotesTrue, Qualify
  PROVE  QuotesTrue' /\ Kept
<1>1. PICK d \in FirstOf(FreeDeals), stockOnly \in BOOLEAN :
        /\ deals' = [deals EXCEPT ![d] = NewDealRow]
        /\ lead' = [lead EXCEPT !.status = "QUALIFIED", !.deal = d, !.stockOnly = stockOnly]
  BY DEF Qualify
<1>2. d \in Deals /\ deals[d] = NoDealRow /\ lead.deal = NoDeal
  BY FreeFacts DEF Qualify
<1>3. lead' \in LeadRow /\ lead'.deal = d
  <2>1. lead \in LeadRow
    BY DEF QuotesTrue, Typed
  <2> QED BY <1>1, <1>2, <2>1, QualifyEdit
<1>4. DealBecomes(d, NewDealRow)
  BY <1>1, <1>2, NoDealRowTyped, DealWritten DEF QuotesTrue
<1>5. \A e \in Deals : deals'[e].handoffs = deals[e].handoffs /\ deals'[e].lines = deals[e].lines
  BY <1>2, <1>4, NoDealRowTyped DEF DealBecomes
<1>6. \A e \in Deals : deals[e] = NoDealRow
  BY <1>2, NothingAssumption DEF QuotesTrue, DealsTrue
<1>7. DealsTrue'
  BY <1>3, <1>4, <1>6, NoDealRowTyped DEF DealsTrue, DealBecomes
<1>8. calls' = calls /\ UNCHANGED <<quotes, files, crashes, scenario>> /\ calls \in [Callers -> Call]
  BY DEF Qualify, LeadStep, QuotesTrue, Typed
<1> QED BY <1>2, <1>3, <1>4, <1>5, <1>7, <1>8, LeadWritten DEF DealBecomes

\* The status, the loss or the stock choice of a lead is written.
LEMMA LeadStatusKeeps ==
  ASSUME QuotesTrue,
         LoseLead \/ \E c \in Callers : Disqualify(c) \/ WriteQualification(c)
  PROVE  QuotesTrue' /\ Kept
<1>1. lead \in LeadRow /\ calls \in [Callers -> Call] /\ deals \in [Deals -> DealRow] /\ DealsTrue
  BY DEF QuotesTrue, Typed
<1>2. lead' \in LeadRow /\ lead'.deal = lead.deal
  <2>1. CASE LoseLead
    BY <1>1, <2>1, LeadStatusEdit DEF LoseLead
  <2>2. ASSUME NEW c \in Callers, Disqualify(c) PROVE lead' \in LeadRow /\ lead'.deal = lead.deal
    BY <1>1, <2>2, LeadStatusEdit DEF Disqualify
  <2>3. ASSUME NEW c \in Callers, WriteQualification(c)
        PROVE  lead' \in LeadRow /\ lead'.deal = lead.deal
    <3>1. PICK stockOnly \in BOOLEAN : lead' = [lead EXCEPT !.stockOnly = stockOnly]
      BY <2>3 DEF WriteQualification
    <3> QED BY <1>1, <3>1, StockChoiceEdit
  <2> QED BY <2>1, <2>2, <2>3
<1>3. UNCHANGED <<quotes, files, deals, crashes, scenario>>
  BY DEF LoseLead, Disqualify, WriteQualification, LeadStep
<1>4. /\ calls' \in [Callers -> Call]
      /\ \A b \in Callers : calls'[b] = calls[b] \/ (calls'[b] = Idle /\ ~ Holds(calls[b]))
  <2>1. CASE LoseLead
    BY <1>1, <2>1 DEF LoseLead
  <2>2. ASSUME NEW c \in Callers, Disqualify(c) \/ WriteQualification(c)
        PROVE  /\ calls' \in [Callers -> Call]
               /\ \A b \in Callers :
                    calls'[b] = calls[b] \/ (calls'[b] = Idle /\ ~ Holds(calls[b]))
    <3>1. Becomes(c, Idle)
      BY <2>2, CallEnds DEF Disqualify, WriteQualification, QuotesTrue
    <3>2. ~ Holds(calls[c])
      BY <2>2 DEF Disqualify, WriteQualification, In, Holds
    <3> QED BY <3>1, <3>2 DEF Becomes
  <2> QED BY <2>1, <2>2
<1>5. DealsTrue'
  BY <1>1, <1>2, <1>3 DEF DealsTrue
<1> QED BY <1>1, <1>2, <1>3, <1>4, <1>5, LeadWritten

\* A stage is changed, or the deal lost.
LEMMA StageKeeps ==
  ASSUME QuotesTrue, NEW d \in Deals, LoseDeal(d) \/ \E stage \in Stages : ChangeStage(d, stage)
  PROVE  QuotesTrue' /\ Kept
<1>1. /\ lead \in LeadRow /\ calls \in [Callers -> Call] /\ DealsTrue
      /\ deals[d] \in DealRow
  BY DEF QuotesTrue, Typed
<1>2. /\ UNCHANGED <<quotes, files, lead, calls, crashes, scenario>>
      /\ deals[d].stage # "NONE"
      /\ \E row : /\ row \in DealRow /\ row.stage # "NONE"
                  /\ row.lines = deals[d].lines /\ row.handoffs = deals[d].handoffs
                  /\ deals' = [deals EXCEPT ![d] = row]
  <2>1. CASE LoseDeal(d)
    <3>1. PICK row : row = [deals[d] EXCEPT !.stage = "LOST", !.lost = TRUE]
      OBVIOUS
    <3>2. deals' = [deals EXCEPT ![d] = row]
      BY <2>1, <3>1 DEF LoseDeal
    <3>3. row \in DealRow /\ row.stage = "LOST"
          /\ row.lines = deals[d].lines /\ row.handoffs = deals[d].handoffs
      BY <1>1, <3>1, StageEdit DEF Stages
    <3>4. /\ UNCHANGED <<quotes, files, lead, calls, crashes, scenario>>
          /\ deals[d].stage # "NONE"
      BY <2>1 DEF LoseDeal, DealStep
    <3> QED BY <3>2, <3>3, <3>4
  <2>2. ASSUME NEW stage \in Stages, ChangeStage(d, stage)
        PROVE  /\ UNCHANGED <<quotes, files, lead, calls, crashes, scenario>>
               /\ deals[d].stage # "NONE"
               /\ \E row : /\ row \in DealRow /\ row.stage # "NONE"
                           /\ row.lines = deals[d].lines /\ row.handoffs = deals[d].handoffs
                           /\ deals' = [deals EXCEPT ![d] = row]
    <3>1. PICK row : row = [deals[d] EXCEPT !.stage = stage]
      OBVIOUS
    <3>2. deals' = [deals EXCEPT ![d] = row]
      BY <2>2, <3>1 DEF ChangeStage
    <3>3. row \in DealRow /\ row.stage = stage
          /\ row.lines = deals[d].lines /\ row.handoffs = deals[d].handoffs
      BY <1>1, <3>1, StageEdit
    <3>4. /\ UNCHANGED <<quotes, files, lead, calls, crashes, scenario>>
          /\ deals[d].stage # "NONE" /\ stage # "NONE"
      BY <2>2, BoundsAssumption DEF ChangeStage, DealStep, Stages
    <3> QED BY <3>2, <3>3, <3>4
  <2> QED BY <2>1, <2>2
<1>3. PICK row \in DealRow :
        /\ row.stage # "NONE" /\ row.lines = deals[d].lines /\ row.handoffs = deals[d].handoffs
        /\ deals' = [deals EXCEPT ![d] = row]
  BY <1>2
<1>4. DealBecomes(d, row)
  BY <1>3, DealWritten DEF QuotesTrue
<1>5. d = lead.deal
  BY <1>1, <1>2, NoDealRowTyped DEF DealsTrue
<1>6. DealsTrue'
  BY <1>1, <1>2, <1>3, <1>4, <1>5 DEF DealsTrue, DealBecomes
<1>7. \A e \in Deals : deals'[e].handoffs = deals[e].handoffs /\ deals'[e].lines = deals[e].lines
  BY <1>3, <1>4 DEF DealBecomes
<1> QED BY <1>1, <1>2, <1>4, <1>6, <1>7, LeadWritten DEF DealBecomes

-----------------------------------------------------------------------------
\* The handoffs of a deal: the last is active, each of another quote.

HandoffsFine(handoffs) ==
  \A k \in DOMAIN handoffs :
    /\ handoffs[k].status = "ACTIVE" <=> k = Len(handoffs)
    /\ \A j \in DOMAIN handoffs : handoffs[j].quote = handoffs[k].quote => j = k

LEMMA SupersededFacts ==
  ASSUME NEW handoffs \in Seq(Handoff)
  PROVE  /\ Superseded(handoffs) \in Seq(Handoff)
         /\ Len(Superseded(handoffs)) = Len(handoffs)
         /\ \A k \in 1..Len(handoffs) :
              /\ Superseded(handoffs)[k].quote = handoffs[k].quote
              /\ Superseded(handoffs)[k].status = "SUPERSEDED"
<1>1. DOMAIN handoffs = 1..Len(handoffs) /\ Len(handoffs) \in Nat
  OBVIOUS
<1>2. \A k \in 1..Len(handoffs) : handoffs[k] \in Handoff
  OBVIOUS
<1>3. ASSUME NEW old \in Handoff
      PROVE  /\ [old EXCEPT !.status = "SUPERSEDED"] \in Handoff
             /\ [old EXCEPT !.status = "SUPERSEDED"].quote = old.quote
             /\ [old EXCEPT !.status = "SUPERSEDED"].status = "SUPERSEDED"
  BY DEF Handoff
<1>4. Superseded(handoffs) = [k \in 1..Len(handoffs) |-> [handoffs[k] EXCEPT !.status = "SUPERSEDED"]]
  BY <1>1 DEF Superseded
<1>5. ASSUME NEW k \in 1..Len(handoffs)
      PROVE  /\ Superseded(handoffs)[k] \in Handoff
             /\ Superseded(handoffs)[k].quote = handoffs[k].quote
             /\ Superseded(handoffs)[k].status = "SUPERSEDED"
  <2>1. PICK old : old = handoffs[k]
    OBVIOUS
  <2>2. Superseded(handoffs)[k] = [old EXCEPT !.status = "SUPERSEDED"] /\ old \in Handoff
    BY <1>2, <1>4, <2>1
  <2> QED BY <1>3, <2>1, <2>2
<1>6. Superseded(handoffs) \in [1..Len(handoffs) -> Handoff]
  <2> DEFINE S == Superseded(handoffs)
  <2>1. S = [k \in 1..Len(handoffs) |-> S[k]]
    BY <1>4
  <2>2. \A k \in 1..Len(handoffs) : S[k] \in Handoff
    BY <1>5
  <2> HIDE DEF S
  <2>3. S \in [1..Len(handoffs) -> Handoff]
    BY <2>1, <2>2
  <2> QED BY <2>3 DEF S
<1>7. Superseded(handoffs) \in Seq(Handoff) /\ Len(Superseded(handoffs)) = Len(handoffs)
  BY <1>1, <1>6
<1> QED BY <1>5, <1>7

LEMMA WithHandoffFacts ==
  ASSUME NEW handoffs \in Seq(Handoff), HandoffsFine(handoffs), NEW q \in Quotes
  PROVE  /\ WithHandoff(handoffs, q) \in Seq(Handoff)
         /\ HandoffsFine(WithHandoff(handoffs, q))
         /\ HandedOff(WithHandoff(handoffs, q), q)
         /\ \A p : HandedOff(handoffs, p) => HandedOff(WithHandoff(handoffs, q), p)
         /\ \A p : HandedOff(WithHandoff(handoffs, q), p) => p = q \/ HandedOff(handoffs, p)
<1>1. CASE HandedOff(handoffs, q)
  BY <1>1 DEF WithHandoff
<1>2. CASE ~ HandedOff(handoffs, q)
  <2> DEFINE n == Len(handoffs)
             old == Superseded(handoffs)
             entry == [quote |-> q, status |-> "ACTIVE"]
             new == Append(old, entry)
  <2>1. WithHandoff(handoffs, q) = new
    BY <1>2 DEF WithHandoff
  <2>2. /\ old \in Seq(Handoff) /\ Len(old) = n /\ n \in Nat
        /\ \A k \in 1..n : old[k].quote = handoffs[k].quote /\ old[k].status = "SUPERSEDED"
    BY SupersededFacts
  <2>3. entry \in Handoff /\ entry.quote = q /\ entry.status = "ACTIVE"
    BY DEF Handoff
  <2> HIDE DEF old, entry
  <2>4. /\ new \in Seq(Handoff) /\ Len(new) = n + 1 /\ DOMAIN new = 1..(n + 1)
        /\ new[n + 1] = entry /\ \A k \in 1..n : new[k] = old[k]
    BY <2>2, <2>3
  <2> HIDE DEF new
  <2>5. DOMAIN handoffs = 1..n /\ \A k \in 1..n : handoffs[k].quote # q
    BY <1>2 DEF HandedOff
  <2>6. ASSUME NEW k \in 1..(n + 1)
        PROVE  /\ new[k].status = "ACTIVE" <=> k = n + 1
               /\ \A j \in 1..(n + 1) : new[j].quote = new[k].quote => j = k
    <3>1. \A j \in 1..(n + 1) : j = n + 1 \/ j \in 1..n
      BY <2>2
    <3>2. \A j \in 1..n : new[j].quote = handoffs[j].quote /\ new[j].status = "SUPERSEDED" /\ j # n + 1
      BY <2>2, <2>4
    <3>3. \A i, j \in 1..n : handoffs[i].quote = handoffs[j].quote => i = j
      BY <2>5 DEF HandoffsFine
    <3> QED BY <2>3, <2>4, <2>5, <3>1, <3>2, <3>3
  <2>7. HandoffsFine(new)
    BY <2>4, <2>6 DEF HandoffsFine
  <2>8. n + 1 \in DOMAIN new /\ \A k \in 1..n : k \in DOMAIN new /\ new[k].quote = handoffs[k].quote
    BY <2>2, <2>4
  <2>9. HandedOff(new, q) /\ \A p : HandedOff(handoffs, p) => HandedOff(new, p)
    BY <2>3, <2>4, <2>5, <2>8 DEF HandedOff
  <2>10. \A p : HandedOff(new, p) => p = q \/ HandedOff(handoffs, p)
    BY <2>2, <2>3, <2>4, <2>5, <2>8 DEF HandedOff
  <2> QED BY <2>1, <2>4, <2>7, <2>9, <2>10
<1> QED BY <1>1, <1>2

\* The deal of quote q gets its handoff; q is accepted, no other quote changes.
LEMMA HandoffAdded ==
  ASSUME Typed, RowsTrue, HandoffsTrue, scenario' = scenario, NEW q \in Quotes, NEW d \in Deals,
         NEW row, DealBecomes(d, row), row.handoffs = WithHandoff(deals[d].handoffs, q),
         quotes'[q].accepted, quotes'[q].deal = d, quotes[q].accepted => quotes[q].deal = d,
         \A p \in Quotes : p # q => quotes'[p].accepted = quotes[p].accepted
                                    /\ quotes'[p].deal = quotes[p].deal
  PROVE  HandoffsTrue'
<1>1. ASSUME NEW e \in Deals
      PROVE  /\ deals[e].handoffs \in Seq(Handoff) /\ HandoffsFine(deals[e].handoffs)
             /\ \A k \in DOMAIN deals[e].handoffs :
                  LET p == deals[e].handoffs[k].quote
                  IN  p \in Quotes /\ quotes[p].accepted /\ quotes[p].deal = e
  <2>1. deals[e].handoffs \in Seq(Handoff)
    BY DEF Typed, DealRow
  <2>2. \A k \in DOMAIN deals[e].handoffs : deals[e].handoffs[k] \in Handoff
    BY <2>1
  <2> QED BY <2>1, <2>2 DEF HandoffsTrue, HandoffsFine, Handoff
<1>2. ASSUME NEW e \in Deals, NEW p, HandedOff(deals[e].handoffs, p)
      PROVE  p \in Quotes /\ quotes[p].accepted /\ quotes[p].deal = e
  BY <1>1, <1>2 DEF HandedOff
<1> DEFINE new == WithHandoff(deals[d].handoffs, q)
<1>3. /\ new \in Seq(Handoff) /\ HandoffsFine(new) /\ HandedOff(new, q)
      /\ \A p : HandedOff(deals[d].handoffs, p) => HandedOff(new, p)
      /\ \A p : HandedOff(new, p) => p = q \/ HandedOff(deals[d].handoffs, p)
  BY <1>1, WithHandoffFacts
<1>4. deals'[d].handoffs = new
  BY DEF DealBecomes
<1> HIDE DEF new
<1>5. ASSUME NEW e \in Deals
      PROVE  /\ HandoffsFine(deals'[e].handoffs)
             /\ \A p : HandedOff(deals'[e].handoffs, p) =>
                         quotes'[p].accepted /\ quotes'[p].deal = e
  <2>1. CASE e = d
    BY <1>2, <1>3, <1>4, <2>1
  <2>2. CASE e # d
    <3>1. deals'[e].handoffs = deals[e].handoffs
      BY <2>2 DEF DealBecomes
    <3> QED BY <1>1, <1>2, <2>2, <3>1
  <2> QED BY <2>1, <2>2
<1>6. ASSUME NEW p \in Quotes, quotes'[p].accepted, "repair" \notin scenario'.handlers
      PROVE  HandedOff(deals'[quotes'[p].deal].handoffs, p)
  <2>1. CASE p = q
    BY <1>3, <1>4, <2>1
  <2>2. CASE p # q
    <3>1. /\ quotes[p].accepted /\ quotes'[p].deal = quotes[p].deal
          /\ quotes[p].deal \in Deals
          /\ HandedOff(deals[quotes[p].deal].handoffs, p)
      BY <1>6, <2>2 DEF HandoffsTrue, RowsTrue, RowTrue, Typed, Row
    <3>2. CASE quotes[p].deal = d
      BY <1>3, <1>4, <3>1, <3>2
    <3>3. CASE quotes[p].deal # d
      BY <3>1, <3>3 DEF DealBecomes
    <3> QED BY <3>2, <3>3
  <2> QED BY <2>1, <2>2
<1>7. ASSUME NEW e \in Deals, NEW k \in DOMAIN deals'[e].handoffs
      PROVE  /\ deals'[e].handoffs[k].status = "ACTIVE" <=> k = Len(deals'[e].handoffs)
             /\ \A j \in DOMAIN deals'[e].handoffs :
                  deals'[e].handoffs[j].quote = deals'[e].handoffs[k].quote => j = k
             /\ quotes'[deals'[e].handoffs[k].quote].accepted
             /\ quotes'[deals'[e].handoffs[k].quote].deal = e
  <2>1. HandedOff(deals'[e].handoffs, deals'[e].handoffs[k].quote)
    BY DEF HandedOff
  <2> QED BY <1>5, <2>1 DEF HandoffsFine
<1> QED BY <1>6, <1>7 DEF HandoffsTrue

LEMMA AcceptEdit ==
  ASSUME NEW old \in Row, NEW d \in Deals
  PROVE  LET new == [old EXCEPT !.accepted = TRUE, !.deal = d]
         IN  /\ new \in Row /\ new.status = old.status /\ new.file = old.file
             /\ new.accepted /\ new.deal = d
             /\ new.request = old.request /\ new.version = old.version
             /\ new.previous = old.previous
BY DEF Row

LEMMA ConvertedEdit ==
  ASSUME NEW old \in Row, NEW d \in Deals
  PROVE  LET new == [old EXCEPT !.status = "converted", !.deal = d]
         IN  /\ new \in Row /\ new.status = "converted" /\ new.file = old.file
             /\ new.accepted = old.accepted /\ new.deal = d
             /\ new.request = old.request /\ new.version = old.version
             /\ new.previous = old.previous
BY DEF Row

LEMMA HandoffsEdit ==
  ASSUME NEW old \in DealRow, NEW handoffs \in Seq(Handoff)
  PROVE  LET new == [old EXCEPT !.handoffs = handoffs]
         IN  /\ new \in DealRow /\ new.stage = old.stage
             /\ new.lines = old.lines /\ new.handoffs = handoffs
BY DEF DealRow

LEMMA LinesEdit ==
  ASSUME NEW old \in DealRow, NEW lines \in Seq(Quotes)
  PROVE  LET new == [old EXCEPT !.lines = lines]
         IN  /\ new \in DealRow /\ new.stage = old.stage
             /\ new.lines = lines /\ new.handoffs = old.handoffs
BY DEF DealRow

LEMMA HandoffsOf ==
  ASSUME Typed, HandoffsTrue, NEW d \in Deals
  PROVE  deals[d].handoffs \in Seq(Handoff) /\ HandoffsFine(deals[d].handoffs)
<1>1. deals[d].handoffs \in Seq(Handoff)
  BY DEF Typed, DealRow
<1> QED BY <1>1 DEF HandoffsTrue, HandoffsFine

LEMMA RepairHandoffKeeps ==
  ASSUME QuotesTrue, NEW q \in Quotes, RepairHandoff(q)
  PROVE  QuotesTrue' /\ Kept
<1> DEFINE d == DealOr(quotes[q].deal)
<1>1. Typed /\ RowsTrue /\ DealsTrue /\ DocumentsTrue /\ ChainsTrue /\ HandoffsTrue /\ LinesTrue
      /\ CallsTrue
  BY DEF QuotesTrue
<1>2. UNCHANGED <<quotes, files, lead, calls, crashes, scenario>>
  BY DEF RepairHandoff
<1>3. quotes[q].accepted /\ d = quotes[q].deal /\ d = lead.deal /\ d \in Deals
  BY <1>1 DEF RepairHandoff, RowsTrue, RowTrue, DealOr, Typed, LeadRow
<1>4. PICK h : h = WithHandoff(deals[d].handoffs, q)
  OBVIOUS
<1>5. h \in Seq(Handoff) /\ deals[d] \in DealRow
  BY <1>1, <1>3, <1>4, HandoffsOf, WithHandoffFacts DEF Typed
<1>6. PICK row : row = [deals[d] EXCEPT !.handoffs = h]
  OBVIOUS
<1>7. /\ row \in DealRow /\ row.stage = deals[d].stage
      /\ row.lines = deals[d].lines /\ row.handoffs = h
  BY <1>5, <1>6, HandoffsEdit
<1>8. deals' = [deals EXCEPT ![d] = row]
  BY <1>4, <1>6 DEF RepairHandoff
<1>9. DealBecomes(d, row)
  BY <1>1, <1>3, <1>7, <1>8, DealWritten
<1> HIDE DEF d
<1>10. Typed' /\ RowsTrue' /\ Kept
  BY <1>1, <1>2, <1>9, NothingKept DEF Typed, DealBecomes, RowsTrue
<1>11. DealsTrue'
  BY <1>1, <1>2, <1>3, <1>7, <1>9 DEF DealsTrue, DealBecomes
<1>12. DocumentsTrue' /\ ChainsTrue'
  BY <1>1, <1>2, <1>10, DocumentsFrame, ChainsFrame
<1>13. HandoffsTrue'
  BY <1>1, <1>2, <1>3, <1>4, <1>7, <1>9, HandoffAdded
<1>14. LinesTrue'
  BY <1>1, <1>2, <1>7, <1>9, LinesFrame DEF DealBecomes
<1>15. CallsTrue'
  <2>1. \A p \in Quotes : Committed(p)' => Committed(p)
    BY <1>2 DEF Committed
  <2> QED BY <1>1, <1>2, <1>10, <2>1, CallsGoOn
<1> QED BY <1>10, <1>11, <1>12, <1>13, <1>14, <1>15 DEF QuotesTrue

LEMMA AcceptKeeps ==
  ASSUME QuotesTrue, NEW c \in Callers, Accept(c)
  PROVE  QuotesTrue' /\ Kept
<1> DEFINE call == calls[c]
           q == call.quote
           d == call.deal
<1>1. Typed /\ RowsTrue /\ DealsTrue /\ DocumentsTrue /\ ChainsTrue /\ HandoffsTrue /\ LinesTrue
      /\ CallsTrue
  BY DEF QuotesTrue
<1>2. call.handler = "accept" /\ call.phase = "claimed" /\ call \in AcceptCall /\ CallTrue(call)
  BY <1>1, CallKinds DEF Accept, In, Typed, CallsTrue
<1>3. /\ q \in Quotes /\ d \in Deals /\ d = lead.deal /\ call.stage \in DealStages
      /\ quotes[q] \in Row /\ ~ quotes[q].accepted
      /\ quotes[q].status \in {"approved", "converted"}
      /\ RowTrue(quotes[q], lead.deal)
  BY <1>1, <1>2 DEF AcceptCall, CallTrue, Typed, RowsTrue
<1>4. UNCHANGED <<files, requests, crashes, scenario>> /\ LeadRowFree /\ Becomes(c, Idle)
  BY <1>1, CallEnds DEF Accept
<1>5. lead' \in LeadRow /\ lead'.deal = lead.deal
  <2>1. lead' = [lead EXCEPT !.status = "CONVERTED"] /\ lead \in LeadRow
    BY <1>1, <1>3 DEF Accept, Typed
  <2> QED BY <1>3, <2>1, ConvertEdit
<1>6. PICK e : e = d
  OBVIOUS
<1>7. PICK row : row = [quotes[q] EXCEPT !.accepted = TRUE, !.deal = e]
  OBVIOUS
<1>8. /\ row \in Row /\ row.status = quotes[q].status /\ row.file = quotes[q].file
      /\ row.accepted /\ row.deal = d
      /\ row.request = quotes[q].request /\ row.version = quotes[q].version
      /\ row.previous = quotes[q].previous
  <2>1. quotes[q] \in Row /\ e \in Deals
    BY <1>3, <1>6
  <2> HIDE DEF q, d
  <2> QED BY <1>6, <1>7, <2>1, AcceptEdit
<1>9. RowBecomes(q, row)
  <2>1. quotes' = [quotes EXCEPT ![q].accepted = TRUE, ![q].deal = e]
    BY <1>6 DEF Accept
  <2>2. quotes' = [quotes EXCEPT ![q] = row]
    BY <1>1, <1>3, <1>7, <2>1 DEF Typed
  <2> QED BY <1>1, <1>3, <1>8, <2>2, RowWritten
<1>10. PICK h : h = WithHandoff(deals[d].handoffs, q)
  OBVIOUS
<1>11. h \in Seq(Handoff) /\ deals[d] \in DealRow /\ deals[d].stage # "NONE"
  BY <1>1, <1>3, <1>10, HandoffsOf, WithHandoffFacts DEF Typed, DealsTrue
<1>12. PICK stage \in DealStages \ {"NONE"} :
         stage = IF call.stage = "EARLY" THEN "AGREED" ELSE deals[d].stage
  BY <1>11 DEF DealRow, DealStages, Stages
<1>13. PICK deal : deal = [deals[d] EXCEPT !.stage = stage, !.handoffs = h]
  OBVIOUS
<1>14. /\ deal \in DealRow /\ deal.stage # "NONE"
       /\ deal.lines = deals[d].lines /\ deal.handoffs = h
  <2>1. stage \in Stages /\ stage # "NONE"
    BY <1>12 DEF DealStages
  <2> HIDE DEF q, d
  <2>2. PICK staged : staged = [deals[d] EXCEPT !.stage = stage]
    OBVIOUS
  <2>3. staged \in DealRow /\ staged.stage = stage /\ staged.lines = deals[d].lines
    BY <1>11, <2>1, <2>2, StageEdit
  <2>4. deal = [staged EXCEPT !.handoffs = h]
    BY <1>13, <2>2
  <2> QED BY <1>11, <2>1, <2>3, <2>4, HandoffsEdit
<1>15. DealBecomes(d, deal)
  <2>1. deals' = [deals EXCEPT
          ![d].stage    = IF call.stage = "EARLY" THEN "AGREED" ELSE @,
          ![d].handoffs = WithHandoff(@, q)]
    BY DEF Accept
  <2>2. deals' = [deals EXCEPT ![d] = deal]
    BY <1>1, <1>3, <1>10, <1>11, <1>12, <1>13, <2>1 DEF Typed, DealRow
  <2> QED BY <1>1, <1>3, <1>14, <2>2, DealWritten
<1>16. KeptRow(quotes[q], row) /\ RowTrue(row, lead.deal)
  <2> HIDE DEF q, d
  <2>1. KeptRow(quotes[q], row)
    BY <1>3, <1>8 DEF KeptRow, RowTrue
  <2>2. RowTrue(row, lead.deal)
    BY <1>3, <1>8, NothingAssumption DEF RowTrue
  <2> QED BY <2>1, <2>2
<1>17. Kept
  BY <1>1, <1>3, <1>5, <1>9, <1>16, RowKept
<1>18. Typed'
  BY <1>1, <1>4, <1>5, <1>9, <1>15 DEF Typed, RowBecomes, DealBecomes, Becomes
<1>19. RowsTrue'
  BY <1>1, <1>5, <1>9, <1>16 DEF RowsTrue, RowBecomes, RowTrue
<1>20. DealsTrue'
  BY <1>1, <1>3, <1>5, <1>14, <1>15 DEF DealsTrue, DealBecomes
<1>21. \A p \in Quotes :
         /\ quotes'[p].file = quotes[p].file
         /\ quotes'[p].status = quotes[p].status
         /\ quotes'[p].request = quotes[p].request /\ quotes'[p].version = quotes[p].version
         /\ quotes'[p].previous = quotes[p].previous
         /\ p # q => quotes'[p] = quotes[p]
  BY <1>8, <1>9 DEF RowBecomes
<1> HIDE DEF q, d
<1>22. ChainsTrue'
  BY <1>1, <1>21, ChainsFrame
<1>23. DocumentsTrue'
  <2>1. SameDocument(calls[c], Idle)
    BY <1>2, IdleFacts DEF SameDocument, Holds
  <2> QED BY <1>1, <1>4, <1>18, <1>21, <2>1, DocumentsFrame DEF Becomes
<1>24. HandoffsTrue'
  <2>1. quotes'[q].accepted /\ quotes'[q].deal = d
    BY <1>8, <1>9 DEF RowBecomes
  <2> QED BY <1>1, <1>3, <1>4, <1>10, <1>14, <1>15, <1>21, <2>1, HandoffAdded
<1>25. LinesTrue'
  <2>1. \A e2 \in Deals : deals'[e2].lines = deals[e2].lines
    BY <1>14, <1>15 DEF DealBecomes
  <2>2. quotes[q].status = "converted" => quotes[q].deal = d
    BY <1>1, <1>3 DEF LinesTrue, RowTrue
  <2>3. quotes'[q].deal = d
    BY <1>8, <1>9 DEF RowBecomes
  <2> QED BY <1>1, <1>21, <2>1, <2>2, <2>3, LinesFrame
<1>26. CallsTrue'
  <2>1. CallTrue(Idle) /\ Idle \in Call /\ Idle.handler = "none"
    BY IdleFacts DEF CallTrue
  <2>2. \A b \in Callers : ~ In(b, "qualification", "checked")
    BY <1>4 DEF LeadRowFree
  <2>3. ASSUME NEW b \in Callers, b # c, In(b, "accept", "claimed")
        PROVE  quotes'[calls[b].quote].accepted = quotes[calls[b].quote].accepted
    <3>1. calls[b].quote \in Quotes
      BY <1>1, <2>3, CallKinds DEF In, Typed, AcceptCall
    <3>2. calls[b].quote # q
      BY <1>1, <1>2, <2>3 DEF CallsTrue, ClaimsTrue, In, q
    <3> QED BY <1>21, <3>1, <3>2
  <2> QED BY <1>1, <1>4, <1>17, <1>18, <2>1, <2>2, <2>3, CallsStayTrue
<1> QED BY <1>17, <1>18, <1>19, <1>20, <1>22, <1>23, <1>24, <1>25, <1>26 DEF QuotesTrue

\* The lines of a quote are added to its deal.
LEMMA ConvertedKeeps ==
  ASSUME QuotesTrue, NEW c \in Callers, NEW q \in Quotes, NEW d \in Deals, NEW base \in DealRow,
         ~ Holds(calls[c]), quotes[q].status = "approved", quotes[q].deal \in {d, NoDeal},
         lead.deal \in {d, NoDeal}, base.stage # "NONE",
         base.lines = deals[d].lines, base.handoffs = deals[d].handoffs,
         Converted(q, d, base), LeadRowFree, End(c), UNCHANGED <<files, crashes, scenario>>
  PROVE  QuotesTrue' /\ Kept
<1>1. Typed /\ RowsTrue /\ DealsTrue /\ DocumentsTrue /\ ChainsTrue /\ HandoffsTrue /\ LinesTrue
      /\ CallsTrue
  BY DEF QuotesTrue
<1>2. quotes[q] \in Row /\ RowTrue(quotes[q], lead.deal) /\ Becomes(c, Idle) /\ d # NoDeal
  BY <1>1, CallEnds, NothingAssumption DEF Typed, RowsTrue
<1>3. lead' \in LeadRow /\ lead'.deal = d
  <2>1. lead' = [lead EXCEPT !.deal = d, !.status = "CONVERTED"] /\ lead \in LeadRow
    BY <1>1 DEF Converted, Typed
  <2> QED BY <2>1, ConvertEdit
<1>4. PICK row : row = [quotes[q] EXCEPT !.status = "converted", !.deal = d]
  OBVIOUS
<1>5. /\ row \in Row /\ row.status = "converted" /\ row.file = quotes[q].file
      /\ row.accepted = quotes[q].accepted /\ row.deal = d
      /\ row.request = quotes[q].request /\ row.version = quotes[q].version
      /\ row.previous = quotes[q].previous
  BY <1>2, <1>4, ConvertedEdit
<1>6. RowBecomes(q, row)
  <2>1. quotes' = [quotes EXCEPT ![q] = row]
    BY <1>1, <1>4 DEF Typed, Converted
  <2> QED BY <1>1, <1>5, <2>1, RowWritten
<1>7. PICK lines : lines = Append(deals[d].lines, q)
  OBVIOUS
<1>8. /\ deals[d].lines \in Seq(Quotes) /\ lines \in Seq(Quotes)
      /\ DOMAIN deals[d].lines = 1..Len(deals[d].lines) /\ Len(deals[d].lines) \in Nat
      /\ DOMAIN lines = 1..(Len(deals[d].lines) + 1)
      /\ lines[Len(deals[d].lines) + 1] = q
      /\ \A k \in 1..Len(deals[d].lines) : lines[k] = deals[d].lines[k] /\ lines[k] \in Quotes
  <2>1. deals[d].lines \in Seq(Quotes)
    BY <1>1 DEF Typed, DealRow
  <2> QED BY <1>7, <2>1
<1>9. PICK deal : deal = [base EXCEPT !.lines = lines]
  OBVIOUS
<1>10. /\ deal \in DealRow /\ deal.stage = base.stage
       /\ deal.lines = lines /\ deal.handoffs = base.handoffs
  BY <1>8, <1>9, LinesEdit
<1>11. DealBecomes(d, deal)
  <2>1. deals' = [deals EXCEPT ![d] = deal]
    BY <1>7, <1>9 DEF Converted
  <2> QED BY <1>1, <1>10, <2>1, DealWritten
<1>12. KeptRow(quotes[q], row)
  BY <1>2, <1>5, TransitionFacts DEF KeptRow
<1>13. Kept
  <2>1. \A p \in Quotes : quotes[p].status # "NONE" => KeptRow(quotes[p], quotes'[p])
    BY <1>6, <1>12 DEF RowBecomes, KeptRow
  <2> QED BY <1>3, <2>1 DEF Kept
<1>14. Typed'
  BY <1>1, <1>2, <1>3, <1>6, <1>11 DEF Typed, RowBecomes, DealBecomes, Becomes
<1>15. RowsTrue'
  <2>1. ASSUME NEW p \in Quotes PROVE RowTrue(quotes'[p], d)
    <3>1. CASE p = q
      <4>1. row.file # NoFile
        BY <1>2, <1>5 DEF RowTrue
      <4>2. quotes'[p] = row
        BY <1>6, <3>1 DEF RowBecomes
      <4> QED BY <1>2, <1>5, <4>1, <4>2 DEF RowTrue
    <3>2. CASE p # q
      <4>1. quotes'[p] = quotes[p] /\ RowTrue(quotes[p], lead.deal)
        BY <1>1, <1>6, <3>2 DEF RowBecomes, RowsTrue
      <4> QED BY <4>1 DEF RowTrue
    <3> QED BY <3>1, <3>2
  <2> QED BY <1>3, <2>1 DEF RowsTrue
<1>16. DealsTrue'
  BY <1>1, <1>3, <1>10, <1>11, NothingAssumption DEF DealsTrue, DealBecomes
<1>17. \A p \in Quotes :
         /\ quotes'[p].file = quotes[p].file /\ quotes'[p].accepted = quotes[p].accepted
         /\ quotes'[p].request = quotes[p].request /\ quotes'[p].version = quotes[p].version
         /\ quotes'[p].previous = quotes[p].previous
         /\ p # q => quotes'[p] = quotes[p]
         /\ quotes[p].accepted => quotes'[p].deal = quotes[p].deal
         /\ quotes[p].status = "converted" => p # q
  <2>1. quotes[q].accepted => quotes[q].deal = d
    BY <1>2 DEF RowTrue
  <2> QED BY <1>5, <1>6, <2>1 DEF RowBecomes
<1>18. ChainsTrue' /\ HandoffsTrue'
  <2>1. \A e \in Deals : deals'[e].handoffs = deals[e].handoffs
    BY <1>10, <1>11 DEF DealBecomes
  <2> QED BY <1>1, <1>17, <2>1, ChainsFrame, HandoffsFrame
<1>19. DocumentsTrue'
  <2>1. calls[c].handler = "finalize" => calls[c].file = NoFile
    BY <1>1 DEF DocumentsTrue, HeldDocument
  <2>2. SameDocument(calls[c], Idle)
    BY <2>1, NothingAssumption, IdleFacts DEF SameDocument, Holds
  <2> QED BY <1>1, <1>2, <1>14, <1>17, <2>2, DocumentsFrame DEF Becomes
<1>20. CallsTrue'
  <2>1. CallTrue(Idle) /\ Idle \in Call /\ Idle.handler = "none"
    BY IdleFacts DEF CallTrue
  <2>2. \A b \in Callers : ~ In(b, "qualification", "checked")
    BY DEF LeadRowFree
  <2>3. \A b \in Callers : In(b, "accept", "claimed") => calls[b].quote \in Quotes
    BY <1>1, CallKinds DEF In, Typed, AcceptCall
  <2> QED BY <1>1, <1>2, <1>13, <1>14, <1>17, <2>1, <2>2, <2>3, CallsStayTrue
<1>21. LinesTrue'
  <2> DEFINE n == Len(deals[d].lines)
  <2>1. ASSUME NEW e \in Deals
        PROVE  /\ deals[e].lines \in Seq(Quotes)
               /\ \A k \in DOMAIN deals[e].lines :
                    deals[e].lines[k] \in Quotes /\ quotes[deals[e].lines[k]].status = "converted"
    <3>1. deals[e].lines \in Seq(Quotes)
      BY <1>1 DEF Typed, DealRow
    <3> QED BY <1>1, <3>1 DEF LinesTrue
  <2>2. deals'[d].lines = lines /\ \A e \in Deals : e # d => deals'[e].lines = deals[e].lines
    BY <1>10, <1>11 DEF DealBecomes
  <2>3. quotes'[q].status = "converted" /\ quotes'[q].deal = d
    BY <1>5, <1>6 DEF RowBecomes
  <2>4. \A k \in 1..n : /\ lines[k] # q /\ quotes'[lines[k]].status = "converted"
                        /\ \A j \in 1..n : lines[j] = lines[k] => j = k
    <3>1. \A k \in 1..n : /\ deals[d].lines[k] \in Quotes
                          /\ quotes[deals[d].lines[k]].status = "converted"
                          /\ \A j \in 1..n : deals[d].lines[j] = deals[d].lines[k] => j = k
      BY <1>1, <1>8, <2>1 DEF LinesTrue
    <3>2. \A k \in 1..n : lines[k] = deals[d].lines[k] /\ lines[k] # q
      BY <1>8, <1>17, <3>1
    <3>3. \A k \in 1..n : quotes'[lines[k]] = quotes[lines[k]]
      BY <1>17, <3>1, <3>2
    <3> QED BY <3>1, <3>2, <3>3
  <2>5. ASSUME NEW e \in Deals
        PROVE  /\ \A k \in DOMAIN deals'[e].lines : quotes'[deals'[e].lines[k]].status = "converted"
               /\ \A j, k \in DOMAIN deals'[e].lines :
                    deals'[e].lines[j] = deals'[e].lines[k] => j = k
    <3>1. CASE e = d
      <4>1. \A k \in 1..(n + 1) : k = n + 1 \/ k \in 1..n
        BY <1>8
      <4>2. \A k \in 1..(n + 1) : quotes'[lines[k]].status = "converted"
        BY <1>8, <2>3, <2>4, <4>1
      <4>3. \A j, k \in 1..(n + 1) : lines[j] = lines[k] => j = k
        BY <1>8, <2>4, <4>1
      <4> QED BY <1>8, <2>2, <3>1, <4>2, <4>3
    <3>2. CASE e # d
      BY <1>1, <1>17, <2>1, <2>2, <3>2 DEF LinesTrue
    <3> QED BY <3>1, <3>2
  <2>6. ASSUME NEW p \in Quotes, quotes'[p].status = "converted"
        PROVE  /\ quotes'[p].deal # NoDeal
               /\ \E k \in DOMAIN deals'[quotes'[p].deal].lines :
                    deals'[quotes'[p].deal].lines[k] = p
    <3>1. CASE p = q
      <4>1. Len(deals[d].lines) + 1 \in DOMAIN lines
        BY <1>8
      <4> QED BY <1>2, <1>8, <2>2, <2>3, <3>1, <4>1
    <3>2. CASE p # q
      <4> DEFINE e == quotes[p].deal
      <4>1. quotes'[p] = quotes[p] /\ e \in Deals
            /\ \E k \in DOMAIN deals[e].lines : deals[e].lines[k] = p
        BY <1>1, <1>17, <2>6, <3>2 DEF LinesTrue, Typed, Row
      <4>2. PICK k \in DOMAIN deals[e].lines : deals[e].lines[k] = p
        BY <4>1
      <4>3. k \in DOMAIN deals'[e].lines /\ deals'[e].lines[k] = p
        <5>1. CASE e = d
          BY <1>8, <2>2, <4>2, <5>1
        <5>2. CASE e # d
          BY <2>2, <4>1, <4>2, <5>2
        <5> QED BY <5>1, <5>2
      <4>4. quotes'[p].deal = e /\ e # NoDeal
        BY <4>1, NothingAssumption
      <4> HIDE DEF e
      <4> QED BY <4>3, <4>4
    <3> QED BY <3>1, <3>2
  <2> QED BY <2>5, <2>6 DEF LinesTrue
<1> QED BY <1>13, <1>14, <1>15, <1>16, <1>18, <1>19, <1>20, <1>21 DEF QuotesTrue

LEMMA ConvertKeeps ==
  ASSUME QuotesTrue, NEW c \in Callers, Convert(c)
  PROVE  QuotesTrue' /\ Kept
<1> DEFINE q == calls[c].quote
           d == calls[c].deal
<1>1. Typed /\ RowsTrue /\ DealsTrue
  BY DEF QuotesTrue
<1>2. calls[c].handler = "convert" /\ calls[c] \in ConvertCall /\ CallTrue(calls[c])
      /\ ~ Holds(calls[c])
  BY CallKinds DEF Convert, In, QuotesTrue, Typed, CallsTrue, Holds
<1>3. q \in Quotes /\ d \in Deals \cup {NoDeal} /\ d \in {NoDeal, lead.deal}
  BY <1>2 DEF ConvertCall, CallTrue
<1>4. End(c) /\ LeadRowFree /\ UNCHANGED <<files, crashes, scenario>>
  BY DEF Convert
<1>5. CASE d # NoDeal /\ ClaimsLead(d) /\ ClaimsQuote(q, d) /\ Converted(q, d, deals[d])
  <2>1. d \in Deals /\ d = lead.deal
    BY <1>3, <1>5
  <2>2. deals[d] \in DealRow /\ deals[d].stage # "NONE"
    BY <1>1, <2>1 DEF Typed, DealsTrue
  <2>3. quotes[q].status = "approved" /\ quotes[q].deal \in {d, NoDeal} /\ lead.deal \in {d, NoDeal}
    BY <1>5 DEF ClaimsLead, ClaimsQuote
  <2> QED BY <1>2, <1>3, <1>4, <1>5, <2>1, <2>2, <2>3, ConvertedKeeps
<1>6. ASSUME NEW new \in FirstOf(FreeDeals), ClaimsLead(new), ClaimsQuote(q, new),
             Converted(q, new, NewDealRow)
      PROVE  QuotesTrue' /\ Kept
  <2>1. new \in Deals /\ deals[new] = NoDealRow
    BY FreeFacts
  <2>2. /\ NewDealRow \in DealRow /\ NewDealRow.stage # "NONE"
        /\ NewDealRow.lines = deals[new].lines /\ NewDealRow.handoffs = deals[new].handoffs
    BY <2>1, NoDealRowTyped
  <2>3. /\ quotes[q].status = "approved" /\ quotes[q].deal \in {new, NoDeal}
        /\ lead.deal \in {new, NoDeal}
    BY <1>6 DEF ClaimsLead, ClaimsQuote
  <2> QED BY <1>2, <1>3, <1>4, <1>6, <2>1, <2>2, <2>3, ConvertedKeeps
<1> QED BY <1>5, <1>6 DEF Convert

-----------------------------------------------------------------------------
\* The initial states.

LEMMA FirstRow ==
  ASSUME NEW q \in Quotes, NEW r \in Requests, NEW p \in Nat, NEW t \in Nat, NEW f \in Files,
         NEW d \in Deals
  PROVE  LET row == [status |-> "approved", request |-> r, version |-> 1, previous |-> NoQuote,
                     price |-> p, terms |-> t, file |-> f, accepted |-> TRUE, deal |-> d]
         IN  /\ row \in Row /\ row.status = "approved" /\ row.request = r /\ row.version = 1
             /\ row.previous = NoQuote /\ row.file = f /\ row.accepted /\ row.deal = d
BY DEF Row

LEMMA LeadInit ==
  /\ NewLead \in LeadRow /\ [NewLead EXCEPT !.status = "QUALIFIED"] \in LeadRow
  /\ NewLead.deal = NoDeal /\ [NewLead EXCEPT !.status = "QUALIFIED"].deal = NoDeal
  /\ \A d \in Deals : LET row == [NewLead EXCEPT !.status = "CONVERTED", !.deal = d]
                      IN  row \in LeadRow /\ row.deal = d
<1>1. NewLead \in LeadRow /\ NewLead.deal = NoDeal
  BY DEF NewLead, LeadRow
<1>2. ASSUME NEW row \in LeadRow
      PROVE  /\ [row EXCEPT !.status = "QUALIFIED"] \in LeadRow
             /\ [row EXCEPT !.status = "QUALIFIED"].deal = row.deal
             /\ \A d \in Deals : LET new == [row EXCEPT !.status = "CONVERTED", !.deal = d]
                                 IN  new \in LeadRow /\ new.deal = d
  BY DEF LeadRow
<1> QED BY <1>1, <1>2

\* Nothing is under way, and no document is left over.
LEMMA NothingUnderWay ==
  ASSUME calls = [c \in Callers |-> Idle], crashes = 0,
         \A f \in Files : files[f] # NoDocument => \E q \in Quotes : quotes[q].file = f,
         \A q \in Quotes : Finalized(q) => files[quotes[q].file].quote = q
  PROVE  /\ calls \in [Callers -> Call] /\ crashes \in Nat /\ DocumentsTrue /\ CallsTrue
<1>1. \A c \in Callers : calls[c] = Idle /\ Idle.handler = "none" /\ Idle \in Call
  BY IdleFacts
<1>2. Orphans = {}
  BY DEF Orphans, Unreferenced
<1>3. IsFiniteSet(Orphans) /\ Cardinality(Orphans) = 0
  BY <1>2, FS_EmptySet
<1>4. DocumentsTrue
  BY <1>1, <1>3 DEF DocumentsTrue, HeldDocument, Holds
<1>5. CallsTrue
  BY <1>1 DEF CallsTrue, ClaimsTrue, CallTrue, In
<1> QED BY <1>1, <1>4, <1>5

LEMMA EmptyChain ==
  ASSUME NEW r, Chain(r) = {}
  PROVE  VersionsTrue(r)
BY FS_EmptySet DEF VersionsTrue

LEMMA QuotesTrueInit == Init => QuotesTrue
<1> SUFFICES ASSUME Init PROVE QuotesTrue
  OBVIOUS
<1>1. CASE EmptyInit
  <2>1. /\ quotes \in [Quotes -> Row] /\ \A q \in Quotes : quotes[q] = NoRow
    BY <1>1, NoRowTyped DEF EmptyInit
  <2>2. /\ files \in [Files -> Document] /\ \A f \in Files : files[f] = NoDocument
    BY <1>1, NoDocumentTyped DEF EmptyInit
  <2>3. /\ deals \in [Deals -> DealRow] /\ \A d \in Deals : deals[d] = NoDealRow
    BY <1>1, NoDealRowTyped DEF EmptyInit
  <2>4. lead \in LeadRow /\ lead.deal = NoDeal
    BY <1>1, LeadInit DEF EmptyInit
  <2>5. /\ calls \in [Callers -> Call] /\ crashes \in Nat /\ DocumentsTrue /\ CallsTrue
    BY <2>1, <2>2, NoRowTyped, NothingUnderWay DEF Init, Finalized
  <2>6. Typed
    BY <2>1, <2>2, <2>3, <2>4, <2>5 DEF Typed, Init
  <2>7. RowsTrue
    BY <2>1, NoRowTyped DEF RowsTrue, RowTrue
  <2>8. DealsTrue
    BY <2>3, <2>4, NothingAssumption DEF DealsTrue
  <2>9. ChainsTrue
    <3>1. \A r \in Requests : Chain(r) = {}
      BY <2>1, NoRowTyped, NothingAssumption DEF Chain
    <3> QED BY <3>1, EmptyChain DEF ChainsTrue
  <2>10. HandoffsTrue /\ LinesTrue
    <3>1. \A d \in Deals : DOMAIN deals[d].handoffs = {} /\ DOMAIN deals[d].lines = {}
      BY <2>3, NoDealRowTyped
    <3>2. \A q \in Quotes : ~ quotes[q].accepted /\ quotes[q].status # "converted"
      BY <2>1, NoRowTyped
    <3> QED BY <3>1, <3>2 DEF HandoffsTrue, LinesTrue
  <2> QED BY <2>5, <2>6, <2>7, <2>8, <2>9, <2>10 DEF QuotesTrue
<1>2. CASE AcceptedBefore
  <2>1. PICK q \in FirstOf(Quotes), r \in Requests, f \in FirstOf(Files), d \in FirstOf(Deals),
             p \in Prices, t \in scenario.terms :
          /\ "repair" \in scenario.handlers
          /\ lead = [NewLead EXCEPT !.status = "CONVERTED", !.deal = d]
          /\ quotes = [x \in Quotes |-> IF x # q THEN NoRow ELSE
               [status |-> "approved", request |-> r, version |-> 1, previous |-> NoQuote,
                price |-> p, terms |-> t, file |-> f, accepted |-> TRUE, deal |-> d]]
          /\ files = [x \in Files |-> IF x # f THEN NoDocument ELSE
               [quote |-> q, price |-> p, terms |-> t]]
          /\ requests = [x \in Requests |-> IF x = r THEN "quoted" ELSE "submitted"]
          /\ deals = [x \in Deals |-> IF x # d THEN NoDealRow ELSE
               [NewDealRow EXCEPT !.stage = "AGREED"]]
    BY <1>2 DEF AcceptedBefore
  <2>2. q \in Quotes /\ f \in Files /\ d \in Deals /\ p \in Nat /\ t \in Nat
    BY FirstOfFacts, BoundsAssumption DEF Init
  <2>3. PICK row : row = [status |-> "approved", request |-> r, version |-> 1,
                          previous |-> NoQuote, price |-> p, terms |-> t, file |-> f,
                          accepted |-> TRUE, deal |-> d]
    OBVIOUS
  <2>4. /\ row \in Row /\ row.status = "approved" /\ row.request = r /\ row.version = 1
        /\ row.previous = NoQuote /\ row.file = f /\ row.accepted /\ row.deal = d
    BY <2>2, <2>3, FirstRow
  <2>5. /\ quotes \in [Quotes -> Row] /\ quotes[q] = row
        /\ \A x \in Quotes : x # q => quotes[x] = NoRow
    BY <2>1, <2>2, <2>3, <2>4, NoRowTyped
  <2>6. PICK document : document = [quote |-> q, price |-> p, terms |-> t]
    OBVIOUS
  <2>7. document \in Document /\ document.quote = q
    BY <2>2, <2>6 DEF Document
  <2>8. /\ files \in [Files -> Document] /\ files[f] = document
        /\ \A x \in Files : x # f => files[x] = NoDocument
    BY <2>1, <2>2, <2>6, <2>7, NoDocumentTyped
  <2>9. PICK deal : deal = [NewDealRow EXCEPT !.stage = "AGREED"]
    OBVIOUS
  <2>10. /\ deal \in DealRow /\ deal.stage = "AGREED"
         /\ deal.lines = <<>> /\ deal.handoffs = <<>>
    BY <2>9, StageEdit, NoDealRowTyped DEF Stages
  <2>11. /\ deals \in [Deals -> DealRow] /\ deals[d] = deal
         /\ \A x \in Deals : x # d => deals[x] = NoDealRow
    BY <2>1, <2>2, <2>9, <2>10, NoDealRowTyped
  <2>12. lead \in LeadRow /\ lead.deal = d
    BY <2>1, <2>2, LeadInit
  <2>13. /\ calls \in [Callers -> Call] /\ crashes \in Nat /\ DocumentsTrue /\ CallsTrue
    <3>1. \A x \in Files : files[x] # NoDocument => \E y \in Quotes : quotes[y].file = x
      BY <2>2, <2>4, <2>5, <2>8
    <3>2. \A y \in Quotes : Finalized(y) => files[quotes[y].file].quote = y
      BY <2>4, <2>5, <2>7, <2>8, NoRowTyped DEF Finalized
    <3> QED BY <3>1, <3>2, NothingUnderWay DEF Init
  <2>14. Typed
    BY <2>5, <2>8, <2>11, <2>12, <2>13 DEF Typed, Init
  <2>15. RowsTrue
    <3>1. RowTrue(row, d) /\ RowTrue(NoRow, d)
      BY <2>2, <2>4, NoRowTyped, NothingAssumption DEF RowTrue
    <3> QED BY <2>5, <2>12, <3>1 DEF RowsTrue
  <2>16. DealsTrue
    BY <2>10, <2>11, <2>12 DEF DealsTrue
  <2>17. ChainsTrue
    <3>1. Chain(r) = {q} /\ \A s \in Requests : s # r => Chain(s) = {}
      BY <2>2, <2>4, <2>5, NoRowTyped, NothingAssumption DEF Chain
    <3>2. IsFiniteSet({q}) /\ Cardinality({q}) = 1
      BY FS_Singleton
    <3>3. VersionsTrue(r)
      <4>1. Cardinality(Chain(r)) = 1 /\ IsFiniteSet(Chain(r)) /\ 1..1 = {1}
        BY <3>1, <3>2
      <4>2. quotes[q].version = 1 /\ quotes[q].previous = NoQuote
        BY <2>4, <2>5
      <4> QED BY <3>1, <4>1, <4>2 DEF VersionsTrue
    <3> QED BY <3>1, <3>3, EmptyChain DEF ChainsTrue
  <2>18. HandoffsTrue /\ LinesTrue
    <3>1. \A x \in Deals : DOMAIN deals[x].handoffs = {} /\ DOMAIN deals[x].lines = {}
      BY <2>10, <2>11, NoDealRowTyped
    <3>2. \A x \in Quotes : quotes[x].status # "converted"
      BY <2>4, <2>5, NoRowTyped
    <3> QED BY <2>1, <3>1, <3>2 DEF HandoffsTrue, LinesTrue
  <2> QED BY <2>13, <2>14, <2>15, <2>16, <2>17, <2>18 DEF QuotesTrue
<1> QED BY <1>1, <1>2 DEF Init

-----------------------------------------------------------------------------
\* Every step keeps the invariant, and what Kept says.
LEMMA QuotesTrueStep == QuotesTrue /\ [Next]_vars => QuotesTrue' /\ Kept
<1> SUFFICES ASSUME QuotesTrue, [Next]_vars PROVE QuotesTrue' /\ Kept
  OBVIOUS
<1>1. ASSUME NEW r \in Requests, Create(r) PROVE QuotesTrue' /\ Kept
  BY <1>1, CreateKeeps
<1>2. ASSUME NEW c \in Callers, GoOn(c) PROVE QuotesTrue' /\ Kept
  BY <1>2, ApplyPricesKeeps, UpdateTermsKeeps, PersistFinalPdfKeeps, FinalizeQuoteKeeps,
     RollBackKeeps, CleanUpKeeps, CrashKeeps, CreateNextVersionKeeps, UpdateStatusKeeps,
     ClaimAcceptanceKeeps, AcceptKeeps, ConvertKeeps, LeadCallKeeps, LeadStatusKeeps, FailKeeps
  DEF GoOn
<1>3. ASSUME NEW c \in Callers, NEW q \in Quotes, StartCall(c, q) PROVE QuotesTrue' /\ Kept
  BY <1>3, StartKeeps
<1>4. ASSUME NEW q \in Quotes, RepairHandoff(q) PROVE QuotesTrue' /\ Kept
  BY <1>4, RepairHandoffKeeps
<1>5. CASE Qualify
  BY <1>5, QualifyKeeps
<1>6. CASE LoseLead
  BY <1>6, LeadStatusKeeps
<1>7. ASSUME NEW d \in Deals, LoseDeal(d) \/ \E stage \in Stages : ChangeStage(d, stage)
      PROVE  QuotesTrue' /\ Kept
  BY <1>7, StageKeeps
<1>8. CASE UNCHANGED vars
  <2>1. UNCHANGED <<quotes, files, lead, deals, calls, crashes, scenario>>
    BY <1>8 DEF vars
  <2>2. Typed /\ RowsTrue /\ DealsTrue /\ DocumentsTrue /\ ChainsTrue /\ HandoffsTrue /\ LinesTrue
        /\ CallsTrue
    BY DEF QuotesTrue
  <2>3. Typed' /\ RowsTrue' /\ DealsTrue' /\ Kept
    BY <2>1, <2>2, NothingKept DEF Typed, RowsTrue, DealsTrue
  <2>4. DocumentsTrue' /\ ChainsTrue' /\ HandoffsTrue' /\ LinesTrue'
    BY <2>1, <2>2, <2>3, DocumentsFrame, ChainsFrame, HandoffsFrame, LinesFrame
  <2>5. \A q \in Quotes : Committed(q)' => Committed(q)
    BY <2>1 DEF Committed
  <2>6. CallsTrue'
    BY <2>1, <2>2, <2>3, <2>5, CallsGoOn
  <2> QED BY <2>3, <2>4, <2>6 DEF QuotesTrue
<1> QED BY <1>1, <1>2, <1>3, <1>4, <1>5, <1>6, <1>7, <1>8 DEF Next

LEMMA QuotesAreTrue == Spec => []QuotesTrue
<1>1. Init => QuotesTrue
  BY QuotesTrueInit
<1>2. QuotesTrue /\ [Next]_vars => QuotesTrue'
  BY QuotesTrueStep
<1> QED BY <1>1, <1>2, PTL DEF Spec

-----------------------------------------------------------------------------
\* A quote that left the house has its own document, whatever the attempts to
\* finalize it went through, and no document is left over but by a crash
\* (finalize, persistFinalPdf and cleanupUncommittedFinalPdf).
THEOREM DocumentsAndQuotesMatch == Spec => []DocumentsMatch
<1>1. ASSUME QuotesTrue PROVE DocumentsMatch
  <2>1. Typed /\ RowsTrue /\ DocumentsTrue
    BY <1>1 DEF QuotesTrue
  <2>2. FinalizedHasDocument
    BY <2>1 DEF FinalizedHasDocument, RowsTrue, RowTrue, DocumentsTrue, Finalized, Typed, Row
  <2>3. {f \in Stored : Unreferenced(f)
           /\ \A c \in Callers : calls[c].handler = "finalize" => calls[c].file # f} = Orphans
    BY DEF Stored, Orphans, Held
  <2>4. NoOrphanDocuments
    BY <2>1, <2>3 DEF NoOrphanDocuments, DocumentsTrue
  <2> QED BY <2>2, <2>4 DEF DocumentsMatch
<1> QED BY <1>1, QuotesAreTrue, PTL

\* The versions of a request are numbered without gap, each made from the one
\* before it (createNextVersion, under its advisory lock).
THEOREM VersionsAreAChain == Spec => []VersionsFormAChain
<1>1. ASSUME QuotesTrue PROVE VersionsFormAChain
  <2> SUFFICES ASSUME NEW r \in Requests
               PROVE  LET chain == {q \in Existing : quotes[q].request = r}
                      IN  /\ {quotes[q].version : q \in chain} = 1..Cardinality(chain)
                          /\ \A q \in chain :
                               LET p == quotes[q].previous
                               IN  IF quotes[q].version = 1 THEN p = NoQuote
                                   ELSE p \in chain /\ Finalized(p)
                                        /\ quotes[p].version = quotes[q].version - 1
    BY DEF VersionsFormAChain
  <2>1. RowsTrue /\ VersionsTrue(r)
    BY <1>1 DEF QuotesTrue, ChainsTrue
  <2>2. {q \in Existing : quotes[q].request = r} = Chain(r)
    BY <2>1, ChainExists DEF Existing, Chain
  <2>3. {quotes[q].version : q \in Chain(r)} = 1..Cardinality(Chain(r))
    BY <2>1 DEF VersionsTrue
  <2> QED BY <2>1, <2>2, <2>3 DEF VersionsTrue
<1> QED BY <1>1, QuotesAreTrue, PTL

\* The last handoff of a deal is its one active, no quote is handed off twice,
\* and none that was accepted is missing (createExecutionHandoff).
THEOREM OneBasisOfExecution == Spec => []OneExecutionBasis
<1>1. ASSUME QuotesTrue PROVE OneExecutionBasis
  <2>1. Typed /\ RowsTrue /\ HandoffsTrue
    BY <1>1 DEF QuotesTrue
  <2>2. ASSUME NEW d \in Deals, NEW k \in DOMAIN deals[d].handoffs
        PROVE  /\ quotes[deals[d].handoffs[k].quote].accepted
               /\ quotes[deals[d].handoffs[k].quote].status \in {"approved", "converted"}
    <3>1. deals[d].handoffs \in Seq(Handoff)
      BY <2>1 DEF Typed, DealRow
    <3>2. deals[d].handoffs[k] \in Handoff
      BY <2>2, <3>1
    <3>3. deals[d].handoffs[k].quote \in Quotes
      BY <3>2 DEF Handoff
    <3> QED BY <2>1, <3>3 DEF HandoffsTrue, RowsTrue, RowTrue
  <2> QED BY <2>1, <2>2 DEF OneExecutionBasis, HandoffsTrue, Existing
<1> QED BY <1>1, QuotesAreTrue, PTL

\* One deal comes out of a lead and has the lines of each converted quote once
\* (convertToDeal and DealFactory.createFromQuote).
THEOREM QuotesConvertTogether == Spec => []ConvertedTogether
<1>1. ASSUME QuotesTrue PROVE ConvertedTogether
  <2>1. Typed /\ RowsTrue /\ DealsTrue /\ LinesTrue
    BY <1>1 DEF QuotesTrue
  <2>2. \A d \in Deals \ FreeDeals : d = lead.deal
    BY <2>1, NoDealRowTyped DEF FreeDeals, DealsTrue
  <2>3. ASSUME NEW q \in Quotes, quotes[q].status = "converted"
        PROVE  /\ quotes[q].deal = lead.deal
               /\ Cardinality({k \in DOMAIN deals[lead.deal].lines :
                                 deals[lead.deal].lines[k] = q}) = 1
    <3>1. quotes[q].deal = lead.deal /\ lead.deal \in Deals
      BY <2>1, <2>3 DEF LinesTrue, RowsTrue, RowTrue, Typed, LeadRow
    <3>2. PICK k \in DOMAIN deals[lead.deal].lines : deals[lead.deal].lines[k] = q
      BY <2>1, <2>3, <3>1 DEF LinesTrue
    <3>3. {j \in DOMAIN deals[lead.deal].lines : deals[lead.deal].lines[j] = q} = {k}
      BY <2>1, <3>1, <3>2 DEF LinesTrue
    <3> QED BY <3>1, <3>3, FS_Singleton
  <2> QED BY <2>1, <2>2, <2>3 DEF ConvertedTogether, LinesTrue, Existing
<1> QED BY <1>1, QuotesAreTrue, PTL

\* No step takes back a status, a document, an acceptance or a deal: of two that
\* decided on the same old row one fails (updateStatus, finalize, convertToDeal).
THEOREM NothingTakenBack == Spec => NothingIsTakenBack
<1>1. ASSUME Kept
      PROVE  \A q \in Existing :
               LET old == quotes[q]
                   new == quotes'[q]
               IN  /\ new.status # old.status => new.status \in Transitions[old.status]
                   /\ old.file # NoFile => new.file = old.file
                   /\ old.accepted => new.accepted
                   /\ old.deal # NoDeal => new.deal = old.deal
  BY <1>1 DEF Kept, KeptRow, Existing
<1>2. QuotesTrue /\ [Next]_vars =>
        [\A q \in Existing :
           LET old == quotes[q]
               new == quotes'[q]
           IN  /\ new.status # old.status => new.status \in Transitions[old.status]
               /\ old.file # NoFile => new.file = old.file
               /\ old.accepted => new.accepted
               /\ old.deal # NoDeal => new.deal = old.deal]_quotes
  BY <1>1, QuotesTrueStep
<1> QED BY <1>2, QuotesAreTrue, PTL DEF Spec, NothingIsTakenBack

\* Once a quote binds, the stock choice of a lead that was qualified stays: the
\* check of the qualification and the approval exclude each other by the row of
\* the lead (assertFulfillmentFieldsMutable, updateStatus).
THEOREM StockChoiceIsSettled == Spec => StockChoiceSettled
<1>1. ASSUME QuotesTrue, Next, NEW q \in Quotes, Committed(q), lead.status # "IN_PROGRESS"
      PROVE  lead'.stockOnly = lead.stockOnly
  <2>1. lead \in LeadRow
    BY <1>1 DEF QuotesTrue, Typed
  <2>2. ASSUME NEW c \in Callers PROVE ~ WriteQualification(c)
    <3> SUFFICES ASSUME WriteQualification(c) PROVE FALSE
      OBVIOUS
    <3>1. calls[c].handler = "qualification" /\ calls[c].phase = "checked" /\ CallTrue(calls[c])
      BY <1>1 DEF WriteQualification, In, QuotesTrue, CallsTrue
    <3> QED BY <1>1, <3>1 DEF CallTrue
  <2>3. ~ Qualify
    BY <1>1 DEF Qualify
  <2>4. CASE lead' = lead
    BY <2>4
  <2>5. CASE LoseLead
    BY <2>1, <2>5 DEF LoseLead, LeadRow
  <2>6. ASSUME NEW c \in Callers, Disqualify(c) PROVE lead'.stockOnly = lead.stockOnly
    BY <2>1, <2>6 DEF Disqualify, LeadRow
  <2>7. ASSUME NEW c \in Callers, Accept(c) PROVE lead'.stockOnly = lead.stockOnly
    <3>1. lead' = lead \/ lead' = [lead EXCEPT !.status = "CONVERTED"]
      BY <2>7 DEF Accept
    <3> QED BY <2>1, <3>1 DEF LeadRow
  <2>8. ASSUME NEW c \in Callers, Convert(c) PROVE lead'.stockOnly = lead.stockOnly
    <3>1. PICK d : lead' = [lead EXCEPT !.deal = d, !.status = "CONVERTED"]
      BY <2>8 DEF Convert, Converted
    <3> QED BY <2>1, <3>1 DEF LeadRow
  <2>9. lead' = lead \/ Qualify \/ LoseLead
        \/ \E c \in Callers : \/ Disqualify(c) \/ Accept(c) \/ Convert(c) \/ WriteQualification(c)
    BY <1>1 DEF Next, GoOn, StartCall, Create, StartPricing, StartTerms, StartFinalize,
       StartNextVersion, StartUpdateStatus, StartAccept, StartConvert, ApplyPrices, UpdateTerms,
       PersistFinalPdf, FinalizeQuote, RollBack, CleanUp, Crash, CreateNextVersion, UpdateStatus,
       ClaimAcceptance, StartDisqualify, StartQualification, CheckQualification, Fail,
       RepairHandoff, LoseDeal, ChangeStage, DealStep
  <2> QED BY <2>2, <2>3, <2>4, <2>5, <2>6, <2>7, <2>8, <2>9
<1>2. QuotesTrue /\ [Next]_vars =>
        [(\E q \in Quotes : Committed(q)) /\ lead.status # "IN_PROGRESS" =>
           lead'.stockOnly = lead.stockOnly]_lead
  BY <1>1 DEF vars
<1> QED BY <1>2, QuotesAreTrue, PTL DEF Spec, StockChoiceSettled
=============================================================================
