-------------------------- MODULE EngineeringTheorems --------------------------
(***************************************************************************)
(* Theorems about the engineering work of a lead and its offers, for any    *)
(* engineers, norms, works, offers and amounts and for every bound: one     *)
(* engineer at a time, quantities that follow the norms, revisions that     *)
(* tell every change, drafts that are not lost, amounts that were put       *)
(* before an approver, and quotes on the current technical basis.           *)
(*                                                                          *)
(* Each side has an invariant of its own: WorkTrue speaks of the technical  *)
(* calculations and of what their calls have read, OffersTrue of the        *)
(* commercial ones.                                                         *)
(***************************************************************************)
EXTENDS EngineeringOffers, SequenceTheorems, TLAPS

-----------------------------------------------------------------------------
\* What is known of a record whose other fields can be anything.
IsLine(x) == x \in [calculated : {x.calculated}, final : {x.final}, manual : BOOLEAN]

IsFacade(f) ==
  f \in [status : {f.status}, revision : Nat, config : {f.config}, normSet : {f.normSet},
         area : {f.area}, batch : Nat, items : {f.items}, extras : {f.extras}]

IsInstallation(i) == i \in [status : {i.status}, revision : Nat, items : {i.items}]

AssignmentRow ==
  [engineer : Engineers, status : {"ACTIVE", "SUPERSEDED", "RETURNED", "COMPLETED"},
   primary : BOOLEAN]

\* The engineers of a lead: an active row is the last one.
AssignmentsTrue ==
  /\ assignments \in Seq(AssignmentRow)
  /\ ActiveIsLatest

\* A line, for the area and the norm it was calculated with.
LineFollows(line, area, norm) ==
  /\ line.calculated = area * norm
  /\ line.manual \/ line.final = line.calculated

\* The lines of the facade calculation follow the norms.
LinesFollow(f, items) ==
  \A m \in DOMAIN items : IsLine(items[m]) /\ LineFollows(items[m], f.area, Norms[f.config][m])

FacadeTrue(f) ==
  /\ IsFacade(f)
  /\ f.batch <= f.revision
  /\ f.status = "CALCULATED" => DOMAIN f.items = DOMAIN Norms[f.config] /\ LinesFollow(f, f.items)
  /\ f.status # "CALCULATED" => f.items = NoLines

\* A correction under way is about a batch of items that was; while it is the
\* batch in force, the lines it is going to write follow the norms.
DraftTrue(call, f) ==
  /\ call.batch \in Nat
  /\ call.batch <= f.revision
  /\ f.batch = call.batch /\ f.status = "CALCULATED" /\ DOMAIN call.lines \subseteq DOMAIN f.items
       => LinesFollow(f, call.lines)

TechCallTrue(call, f) ==
  /\ call.handler = "assign" => call.engineer \in Engineers
  /\ call.handler = "facade_draft" => DraftTrue(call, f)

WorkTrue ==
  /\ AssignmentsTrue
  /\ FacadeTrue(facade)
  /\ IsInstallation(installation)
  /\ \A call \in calls : TechCallTrue(call, facade)

-----------------------------------------------------------------------------
\* The calculations of the facade, one lemma for each way it is written.

LEMMA NormLineFollows ==
  ASSUME NEW area, NEW norm
  PROVE  IsLine(NormLine(area, norm)) /\ LineFollows(NormLine(area, norm), area, norm)
BY DEF IsLine, LineFollows, NormLine

LEMMA LegacyTrue == FacadeTrue(Legacy)
<1> DEFINE items == [m \in DOMAIN Norms[BaseConfig] |-> NormLine(1, Norms[BaseConfig][m])]
<1>1. \A m \in DOMAIN items : IsLine(items[m]) /\ LineFollows(items[m], 1, Norms[BaseConfig][m])
  BY NormLineFollows
<1>2. DOMAIN items = DOMAIN Norms[BaseConfig]
  OBVIOUS
<1>3. Legacy = [NoFacade EXCEPT !.status = "CALCULATED", !.revision = 1, !.config = BaseConfig,
                  !.normSet = BaseConfig, !.area = 1, !.batch = 1, !.items = items]
  BY DEF Legacy
<1> HIDE DEF items
<1>4. Legacy = [status |-> "CALCULATED", revision |-> 1, config |-> BaseConfig,
                normSet |-> BaseConfig, area |-> 1, batch |-> 1, items |-> items, extras |-> NoLines]
  BY <1>3 DEF NoFacade
<1>5. IsFacade(Legacy)
  BY <1>4 DEF IsFacade
<1> QED BY <1>1, <1>2, <1>4, <1>5 DEF FacadeTrue, LinesFollow

LEMMA NoFacadeTrue == FacadeTrue(NoFacade)
BY DEF FacadeTrue, NoFacade, IsFacade

\* A calculation leaves one line for every material of the norm set; a line
\* corrected by hand keeps its quantity but is calculated anew.
LEMMA CalculatedTrue ==
  ASSUME NEW f, FacadeTrue(f), NEW call
  PROVE  /\ FacadeTrue(Calculated(f, call))
         /\ Calculated(f, call).revision = f.revision + 1
         /\ Calculated(f, call).batch = f.revision + 1
<1> DEFINE items == NormItems(call)
           norms == Norms[call.config]
           kept == IF SameNormSet(call) THEN ManualItems(call.seen) ELSE {}
           extras == IF SameNormSet(call) THEN f.extras ELSE NoLines
           g == Calculated(f, call)
<1>1. items = [m \in DOMAIN norms |->
                 IF m \in kept
                 THEN [calculated |-> call.area * norms[m],
                       final |-> call.seen.items[m].final, manual |-> TRUE]
                 ELSE NormLine(call.area, norms[m])]
  BY DEF NormItems
<1> HIDE DEF kept
<1>2. DOMAIN items = DOMAIN norms
  BY <1>1
<1>3. ASSUME NEW m \in DOMAIN items
      PROVE  IsLine(items[m]) /\ LineFollows(items[m], call.area, norms[m])
  <2>1. CASE m \in kept
    <3>1. items[m] = [calculated |-> call.area * norms[m],
                      final |-> call.seen.items[m].final, manual |-> TRUE]
      BY <1>1, <1>2, <2>1
    <3> HIDE DEF items
    <3> QED BY <3>1 DEF IsLine, LineFollows
  <2>2. CASE m \notin kept
    <3>1. items[m] = NormLine(call.area, norms[m])
      BY <1>1, <1>2, <2>2
    <3> QED BY <3>1, NormLineFollows
  <2> QED BY <2>1, <2>2
<1>4. g = [status |-> "CALCULATED", revision |-> f.revision + 1,
           config |-> call.config, normSet |-> call.config, area |-> call.area,
           batch |-> f.revision + 1, items |-> items, extras |-> extras]
  BY DEF Calculated
<1> HIDE DEF items, extras, g
<1>5. f.revision \in Nat
  BY DEF FacadeTrue, IsFacade
<1>6. IsFacade(g)
  BY <1>4, <1>5 DEF IsFacade
<1>7. /\ g.status = "CALCULATED" /\ g.revision = f.revision + 1 /\ g.batch = f.revision + 1
      /\ g.config = call.config /\ g.area = call.area /\ g.items = items
  BY <1>4
<1>8. FacadeTrue(g)
  BY <1>2, <1>3, <1>5, <1>6, <1>7 DEF FacadeTrue, LinesFollow
<1> QED BY <1>7, <1>8 DEF g

LEMMA UnsupportedTrue ==
  ASSUME NEW f, FacadeTrue(f), NEW call
  PROVE  /\ FacadeTrue(Unsupported(f, call))
         /\ Unsupported(f, call).revision = f.revision + 1
         /\ Unsupported(f, call).status = "UNSUPPORTED"
<1> DEFINE g == Unsupported(f, call)
<1>1. IsFacade(f) /\ f.batch <= f.revision
  BY DEF FacadeTrue
<1>2. g = [status |-> "UNSUPPORTED", revision |-> f.revision + 1, config |-> call.config,
           normSet |-> "none", area |-> call.area, batch |-> f.batch, items |-> NoLines,
           extras |-> f.extras]
  <2>1. g = [f EXCEPT !.status = "UNSUPPORTED", !.revision = f.revision + 1,
                      !.config = call.config, !.normSet = "none", !.area = call.area,
                      !.items = NoLines]
    BY <1>1 DEF Unsupported, IsFacade
  <2> HIDE DEF g
  <2> QED BY <2>1, <1>1 DEF IsFacade
<1>3. f.revision \in Nat /\ f.batch \in Nat
  BY <1>1 DEF IsFacade
<1> HIDE DEF g
<1>4. IsFacade(g)
  BY <1>2, <1>3 DEF IsFacade
<1>5. g.status = "UNSUPPORTED" /\ g.items = NoLines /\ g.batch = f.batch /\ g.revision = f.revision + 1
  BY <1>2
<1> QED BY <1>1, <1>3, <1>4, <1>5 DEF FacadeTrue, g

\* Corrected lines follow the norms if those they replace and those they bring do.
LEMMA CorrectedTrue ==
  ASSUME NEW f, FacadeTrue(f), NEW call, DraftTrue(call, f), ItemsAreThere(call, f)
  PROVE  LET g == [f EXCEPT !.items = Corrected(@, call.lines), !.extras = call.extras @@ @,
                            !.revision = @ + 1]
         IN  /\ FacadeTrue(g)
             /\ g.revision = f.revision + 1 /\ g.status = f.status /\ g.batch = f.batch
             /\ g.area = f.area /\ g.config = f.config /\ DOMAIN g.items = DOMAIN f.items
<1> DEFINE items == Corrected(f.items, call.lines)
           extras == call.extras @@ f.extras
           g == [f EXCEPT !.items = Corrected(@, call.lines), !.extras = call.extras @@ @,
                          !.revision = @ + 1]
<1>1. IsFacade(f) /\ f.batch <= f.revision
  BY DEF FacadeTrue
<1>2. g = [status |-> f.status, revision |-> f.revision + 1, config |-> f.config,
           normSet |-> f.normSet, area |-> f.area, batch |-> f.batch, items |-> items,
           extras |-> extras]
  <2>1. g = [f EXCEPT !.items = items, !.extras = extras, !.revision = f.revision + 1]
    BY <1>1 DEF IsFacade
  <2> HIDE DEF g, items, extras
  <2> QED BY <2>1, <1>1 DEF IsFacade
<1>3. f.revision \in Nat /\ f.batch \in Nat
  BY <1>1 DEF IsFacade
<1>4. items = [m \in DOMAIN f.items |-> IF m \in DOMAIN call.lines THEN call.lines[m]
                                                                 ELSE f.items[m]]
  BY DEF Corrected
<1> HIDE DEF g, items, extras
<1>5. DOMAIN items = DOMAIN f.items
  BY <1>4
<1>6. ASSUME f.status = "CALCULATED"
      PROVE  DOMAIN items = DOMAIN Norms[f.config] /\ LinesFollow(f, items)
  <2>1. DOMAIN f.items = DOMAIN Norms[f.config] /\ LinesFollow(f, f.items)
    BY <1>6 DEF FacadeTrue
  <2>2. ASSUME NEW m \in DOMAIN items
        PROVE  IsLine(items[m]) /\ LineFollows(items[m], f.area, Norms[f.config][m])
    <3>1. CASE m \in DOMAIN call.lines
      <4>1. LinesFollow(f, call.lines)
        BY <1>6, <3>1 DEF DraftTrue, ItemsAreThere
      <4>2. items[m] = call.lines[m]
        BY <1>4, <1>5, <3>1
      <4> QED BY <4>1, <4>2, <3>1 DEF LinesFollow
    <3>2. CASE m \notin DOMAIN call.lines
      <4>1. items[m] = f.items[m]
        BY <1>4, <1>5, <3>2
      <4> QED BY <4>1, <2>1, <1>5 DEF LinesFollow
    <3> QED BY <3>1, <3>2
  <2> QED BY <1>5, <2>1, <2>2 DEF LinesFollow
<1>7. ASSUME f.status # "CALCULATED" PROVE items = NoLines
  <2>1. DOMAIN f.items = {}
    BY <1>7 DEF FacadeTrue, NoLines
  <2> QED BY <2>1, <1>4 DEF NoLines
<1>8. IsFacade(g)
  BY <1>2, <1>3 DEF IsFacade
<1>9. /\ g.revision = f.revision + 1 /\ g.status = f.status /\ g.batch = f.batch
      /\ g.area = f.area /\ g.config = f.config /\ g.items = items
  BY <1>2
<1>10. FacadeTrue(g)
  BY <1>1, <1>3, <1>6, <1>7, <1>8, <1>9 DEF FacadeTrue, LinesFollow
<1> QED BY <1>5, <1>9, <1>10 DEF g

LEMMA WithExtraTrue ==
  ASSUME NEW f, FacadeTrue(f)
  PROVE  LET g == WithExtra(f)
         IN  /\ FacadeTrue(g)
             /\ g.revision = f.revision + 1 /\ g.status = f.status /\ g.batch = f.batch
             /\ g.area = f.area /\ g.config = f.config /\ g.items = f.items
<1> DEFINE g == WithExtra(f)
           extras == f.extras @@ (f.revision + 1 :> 1)
<1>1. IsFacade(f) /\ f.batch <= f.revision
  BY DEF FacadeTrue
<1>2. g = [f EXCEPT !.extras = extras, !.revision = f.revision + 1]
  BY <1>1 DEF WithExtra, IsFacade
<1>3. f.revision \in Nat /\ f.batch \in Nat
  BY <1>1 DEF IsFacade
<1> HIDE DEF g, extras
<1>4. g = [status |-> f.status, revision |-> f.revision + 1, config |-> f.config,
           normSet |-> f.normSet, area |-> f.area, batch |-> f.batch, items |-> f.items,
           extras |-> extras]
  BY <1>1, <1>2 DEF IsFacade
<1>5. IsFacade(g)
  BY <1>3, <1>4 DEF IsFacade
<1>6. /\ g.revision = f.revision + 1 /\ g.status = f.status /\ g.batch = f.batch
      /\ g.area = f.area /\ g.config = f.config /\ g.items = f.items
  BY <1>4
<1>7. FacadeTrue(g)
  BY <1>1, <1>3, <1>5, <1>6 DEF FacadeTrue, LinesFollow
<1> QED BY <1>6, <1>7 DEF g

\* What becomes of a correction under way when the facade is written: it is
\* about a former batch, or there is no line left, or nothing it relies on moved.
LEMMA DraftOutlivesWrite ==
  ASSUME NEW f, FacadeTrue(f), NEW g, FacadeTrue(g), g.revision = f.revision + 1,
         \/ g.batch = f.revision + 1
         \/ g.status # "CALCULATED"
         \/ /\ g.batch = f.batch /\ g.status = f.status /\ g.area = f.area
            /\ g.config = f.config /\ DOMAIN g.items = DOMAIN f.items,
         NEW call, TechCallTrue(call, f)
  PROVE  TechCallTrue(call, g)
<1>1. SUFFICES ASSUME call.handler = "facade_draft" PROVE DraftTrue(call, g)
  BY DEF TechCallTrue
<1>2. DraftTrue(call, f)
  BY <1>1 DEF TechCallTrue
<1>3. f.revision \in Nat /\ call.batch \in Nat /\ call.batch <= f.revision
  BY <1>2 DEF FacadeTrue, IsFacade, DraftTrue
<1>4. CASE g.batch = f.revision + 1
  BY <1>3, <1>4 DEF DraftTrue
<1>5. CASE g.status # "CALCULATED"
  BY <1>3, <1>5 DEF DraftTrue
<1>6. CASE /\ g.batch = f.batch /\ g.status = f.status /\ g.area = f.area
           /\ g.config = f.config /\ DOMAIN g.items = DOMAIN f.items
  BY <1>2, <1>3, <1>6 DEF DraftTrue, LinesFollow
<1> QED BY <1>4, <1>5, <1>6

\* A write of the facade, whatever the call: nothing, or a new revision.
FacadeWritten(f, g) ==
  /\ FacadeTrue(g)
  /\ g = f \/ g.revision = f.revision + 1
  /\ \A call : TechCallTrue(call, f) => TechCallTrue(call, g)

LEMMA CalculateWrites ==
  ASSUME NEW call, FacadeTrue(facade), Calculate(call)
  PROVE  FacadeWritten(facade, facade')
<1>1. CASE facade' = facade
  BY <1>1 DEF FacadeWritten
<1>2. CASE facade' = Unsupported(facade, call)
  <2>1. /\ FacadeTrue(facade') /\ facade'.revision = facade.revision + 1
        /\ facade'.status = "UNSUPPORTED"
    BY <1>2, UnsupportedTrue
  <2> QED BY <2>1, DraftOutlivesWrite DEF FacadeWritten
<1>3. CASE facade' = Calculated(facade, call)
  <2>1. /\ FacadeTrue(facade') /\ facade'.revision = facade.revision + 1
        /\ facade'.batch = facade.revision + 1
    BY <1>3, CalculatedTrue
  <2> QED BY <2>1, DraftOutlivesWrite DEF FacadeWritten
<1> QED BY <1>1, <1>2, <1>3 DEF Calculate

LEMMA FacadeDraftWrites ==
  ASSUME NEW call, FacadeTrue(facade), TechCallTrue(call, facade), FacadeDraft(call)
  PROVE  FacadeWritten(facade, facade')
<1>1. CASE ~ ItemsAreThere(call, facade)
  BY <1>1 DEF FacadeWritten, FacadeDraft
<1>2. CASE ItemsAreThere(call, facade)
  <2> DEFINE f == facade
             g == [f EXCEPT !.items = Corrected(@, call.lines), !.extras = call.extras @@ @,
                            !.revision = @ + 1]
  <2>1. facade' = g
    BY <1>2 DEF FacadeDraft
  <2>2. DraftTrue(call, f)
    BY DEF FacadeDraft, TechCallTrue
  <2>3. /\ FacadeTrue(g)
        /\ g.revision = f.revision + 1 /\ g.status = f.status /\ g.batch = f.batch
        /\ g.area = f.area /\ g.config = f.config /\ DOMAIN g.items = DOMAIN f.items
    BY <1>2, <2>2, CorrectedTrue
  <2> HIDE DEF g
  <2>4. \A c : TechCallTrue(c, f) => TechCallTrue(c, g)
    BY <2>3, DraftOutlivesWrite
  <2> QED BY <2>1, <2>3, <2>4 DEF FacadeWritten
<1> QED BY <1>1, <1>2

LEMMA AddItemWrites ==
  ASSUME NEW call, FacadeTrue(facade), AddItem(call)
  PROVE  FacadeWritten(facade, facade')
<1> DEFINE f == facade
           g == WithExtra(f)
<1>1. facade' = g
  BY DEF AddItem
<1>2. /\ FacadeTrue(g)
      /\ g.revision = f.revision + 1 /\ g.status = f.status /\ g.batch = f.batch
      /\ g.area = f.area /\ g.config = f.config /\ g.items = f.items
  BY WithExtraTrue
<1> HIDE DEF g
<1>3. \A c : TechCallTrue(c, f) => TechCallTrue(c, g)
  BY <1>2, DraftOutlivesWrite
<1> QED BY <1>1, <1>2, <1>3 DEF FacadeWritten

\* The correction a call is about to write follows the norms of the batch it read.
LEMMA DraftStarts ==
  ASSUME NEW f, FacadeTrue(f), NEW edited \in SUBSET DOMAIN f.items, NEW quantity, NEW extras
  PROVE  TechCallTrue([handler |-> "facade_draft", batch |-> f.batch, extras |-> extras,
                       lines |-> [m \in edited |->
                         [f.items[m] EXCEPT !.final  = quantity,
                                            !.manual = quantity # f.items[m].calculated]]], f)
<1> DEFINE lines == [m \in edited |->
                       [f.items[m] EXCEPT !.final  = quantity,
                                          !.manual = quantity # f.items[m].calculated]]
           call == [handler |-> "facade_draft", batch |-> f.batch, extras |-> extras,
                    lines |-> lines]
<1>1. ASSUME f.status = "CALCULATED", NEW m \in edited
      PROVE  IsLine(lines[m]) /\ LineFollows(lines[m], f.area, Norms[f.config][m])
  <2> DEFINE old == f.items[m]
             own == quantity # f.items[m].calculated
  <2>1. IsLine(old) /\ LineFollows(old, f.area, Norms[f.config][m])
    BY <1>1 DEF FacadeTrue, LinesFollow
  <2>2. lines[m] = [old EXCEPT !.final = quantity, !.manual = own]
    OBVIOUS
  <2>3. own \in BOOLEAN /\ (own <=> quantity # old.calculated)
    OBVIOUS
  <2> HIDE DEF lines, old, own
  <2>4. lines[m] = [calculated |-> old.calculated, final |-> quantity, manual |-> own]
    BY <2>1, <2>2 DEF IsLine
  <2>5. IsLine(lines[m])
    BY <2>3, <2>4 DEF IsLine
  <2>6. /\ lines[m].calculated = old.calculated /\ lines[m].final = quantity
        /\ lines[m].manual <=> own
    BY <2>4
  <2> QED BY <2>1, <2>3, <2>5, <2>6 DEF LineFollows
<1>2. DOMAIN lines = edited
  OBVIOUS
<1> HIDE DEF lines
<1>3. f.batch \in Nat /\ f.batch <= f.revision
  BY DEF FacadeTrue, IsFacade
<1>4. call.handler = "facade_draft" /\ call.batch = f.batch /\ call.lines = lines
  OBVIOUS
<1> HIDE DEF call
<1>5. TechCallTrue(call, f)
  BY <1>1, <1>2, <1>3, <1>4 DEF TechCallTrue, DraftTrue, LinesFollow
<1> QED BY <1>5 DEF call, lines

-----------------------------------------------------------------------------
\* The assignments.

\* Superseding leaves no row active.
LEMMA SupersedeLeavesNone ==
  ASSUME NEW rows \in Seq(AssignmentRow)
  PROVE  /\ SupersedeRows(rows) \in Seq(AssignmentRow)
         /\ Len(SupersedeRows(rows)) = Len(rows)
         /\ \A k \in 1..Len(rows) : SupersedeRows(rows)[k].status # "ACTIVE"
<1> DEFINE new == [k \in 1..Len(rows) |->
                     IF rows[k].status = "ACTIVE" THEN [rows[k] EXCEPT !.status = "SUPERSEDED"]
                                                  ELSE rows[k]]
<1>1. SupersedeRows(rows) = new
  BY DEF SupersedeRows
<1>2. ASSUME NEW k \in 1..Len(rows)
      PROVE  new[k] \in AssignmentRow /\ new[k].status # "ACTIVE"
  <2>1. rows[k] \in AssignmentRow
    OBVIOUS
  <2>2. CASE rows[k].status = "ACTIVE"
    <3>1. new[k] = [rows[k] EXCEPT !.status = "SUPERSEDED"]
      BY <2>2
    <3> HIDE DEF new
    <3> QED BY <3>1, <2>1 DEF AssignmentRow
  <2>3. CASE rows[k].status # "ACTIVE"
    <3>1. new[k] = rows[k]
      BY <2>3
    <3> HIDE DEF new
    <3> QED BY <3>1, <2>1, <2>3
  <2> QED BY <2>2, <2>3
<1>3. Len(rows) \in Nat /\ DOMAIN new = 1..Len(rows)
  OBVIOUS
<1>4. new \in [1..Len(rows) -> AssignmentRow]
  BY <1>2
<1> HIDE DEF new
<1>5. new \in Seq(AssignmentRow) /\ Len(new) = Len(rows)
  BY <1>3, <1>4
<1> QED BY <1>1, <1>2, <1>5

\* Handing over: the new row is the active one.
LEMMA AssignKeeps ==
  ASSUME AssignmentsTrue, NEW call, TechCallTrue(call, facade), Assign(call)
  PROVE  AssignmentsTrue'
<1> DEFINE e == call.engineer
           old == SupersedeRows(assignments)
           row == [engineer |-> e, status |-> "ACTIVE", primary |-> FALSE]
<1>1. CASE assignments' = assignments
  BY <1>1 DEF AssignmentsTrue, ActiveIsLatest, Active
<1>2. CASE assignments' = Append(old, row)
  <2>1. e \in Engineers
    BY DEF Assign, TechCallTrue
  <2>2. row \in AssignmentRow
    BY <2>1 DEF AssignmentRow
  <2>3. assignments \in Seq(AssignmentRow)
    BY DEF AssignmentsTrue
  <2>4. /\ old \in Seq(AssignmentRow) /\ Len(old) = Len(assignments)
        /\ \A k \in 1..Len(old) : old[k].status # "ACTIVE"
    BY <2>3, SupersedeLeavesNone
  <2> HIDE DEF old, row
  <2>5. assignments' \in Seq(AssignmentRow)
    BY <1>2, <2>2, <2>4
  <2>6. Len(assignments') = Len(old) + 1 /\ \A k \in 1..Len(old) : assignments'[k] = old[k]
    BY <1>2, <2>2, <2>4
  <2>7. \A k \in DOMAIN assignments' : assignments'[k].status = "ACTIVE" => k = Len(assignments')
    BY <2>4, <2>5, <2>6
  <2> QED BY <2>5, <2>7 DEF AssignmentsTrue, ActiveIsLatest, Active
<1> QED BY <1>1, <1>2 DEF Assign

\* Closing a row by its id, even one that was superseded, makes none active.
LEMMA CloseKeeps ==
  ASSUME AssignmentsTrue, NEW call, call.handler \in {"return", "complete", "finish"}, Close(call)
  PROVE  AssignmentsTrue'
<1>1. CASE call.row \notin DOMAIN assignments
  <2>1. assignments' = assignments
    BY <1>1, SMTT(30) DEF Close, AssignmentsTrue
  <2> QED BY <2>1 DEF AssignmentsTrue, ActiveIsLatest, Active
<1>2. CASE call.row \in DOMAIN assignments
  <2> DEFINE n == call.row
             row == assignments[n]
             new == CASE call.handler = "return"   -> returnToManager(row)
                      [] call.handler = "complete" -> complete(row)
                      [] call.handler = "finish"   -> finish(row)
  <2>1. assignments' = [assignments EXCEPT ![n] = new]
    BY DEF Close
  <2>2. assignments \in Seq(AssignmentRow) /\ n \in 1..Len(assignments)
    BY <1>2 DEF AssignmentsTrue
  <2>3. row \in AssignmentRow
    BY <2>2
  <2>4. new \in AssignmentRow /\ (new.status = "ACTIVE" => row.status = "ACTIVE")
    <3> HIDE DEF row
    <3>1. /\ returnToManager(row) \in AssignmentRow /\ returnToManager(row).status = "RETURNED"
          /\ complete(row) \in AssignmentRow /\ complete(row).status = row.status
          /\ finish(row) \in AssignmentRow /\ finish(row).status = "COMPLETED"
      BY <2>3 DEF AssignmentRow, returnToManager, complete, finish
    <3> QED BY <3>1
  <2> HIDE DEF new, n
  <2>5. /\ assignments' \in Seq(AssignmentRow) /\ Len(assignments') = Len(assignments)
        /\ assignments'[n] = new
        /\ \A k \in 1..Len(assignments) : k # n => assignments'[k] = assignments[k]
    BY <2>1, <2>2, <2>4
  <2>6. \A k \in 1..Len(assignments) : assignments[k].status = "ACTIVE" => k = Len(assignments)
    BY <2>2 DEF AssignmentsTrue, ActiveIsLatest, Active
  <2>7. \A k \in DOMAIN assignments' : assignments'[k].status = "ACTIVE" => k = Len(assignments')
    BY <2>2, <2>4, <2>5, <2>6
  <2> QED BY <2>5, <2>7 DEF AssignmentsTrue, ActiveIsLatest, Active
<1> QED BY <1>1, <1>2

\* The installation: a draft, or a calculation that is ready.
InstallationWritten(i, j) == IsInstallation(j) /\ (j = i \/ j.revision = i.revision + 1)

LEMMA InstallationWrites ==
  ASSUME NEW call, IsInstallation(installation), InstallationDraft(call) \/ InstallationReady(call)
  PROVE  InstallationWritten(installation, installation')
<1> DEFINE i == installation
<1>1. CASE i' = i
  BY <1>1 DEF InstallationWritten
<1>2. CASE /\ i.revision = 0
           /\ i' = [status |-> "DRAFT", revision |-> 1, items |-> call.items]
  BY <1>2 DEF InstallationWritten, IsInstallation
<1>3. CASE i' = [i EXCEPT !.revision = @ + 1, !.items = call.items]
  <2>1. i' = [status |-> i.status, revision |-> i.revision + 1, items |-> call.items]
    BY <1>3 DEF IsInstallation
  <2> QED BY <2>1 DEF InstallationWritten, IsInstallation
<1>4. CASE i' = [i EXCEPT !.status = "READY", !.revision = @ + 1]
  <2>1. i' = [status |-> "READY", revision |-> i.revision + 1, items |-> i.items]
    BY <1>4 DEF IsInstallation
  <2> QED BY <2>1 DEF InstallationWritten, IsInstallation
<1> QED BY <1>1, <1>2, <1>3, <1>4 DEF InstallationDraft, InstallationReady

-----------------------------------------------------------------------------
\* Every step of the system keeps WorkTrue, and a calculation that is touched
\* has a new revision.

RevisionsTell ==
  /\ facade' = facade \/ facade'.revision = facade.revision + 1
  /\ installation' = installation \/ installation'.revision = installation.revision + 1

LEMMA WorkTrueInit == TechInit => WorkTrue
<1> SUFFICES ASSUME TechInit PROVE WorkTrue
  OBVIOUS
<1>1. AssignmentsTrue
  <2>1. CASE assignments = <<>>
    BY <2>1 DEF AssignmentsTrue, ActiveIsLatest, Active
  <2>2. CASE \E e \in Engineers :
               assignments = <<[engineer |-> e, status |-> "ACTIVE", primary |-> FALSE]>>
    <3>1. PICK e \in Engineers :
            assignments = <<[engineer |-> e, status |-> "ACTIVE", primary |-> FALSE]>>
      BY <2>2
    <3>2. [engineer |-> e, status |-> "ACTIVE", primary |-> FALSE] \in AssignmentRow
      BY DEF AssignmentRow
    <3>3. assignments \in Seq(AssignmentRow) /\ Len(assignments) = 1
      BY <3>1, <3>2
    <3> QED BY <3>3 DEF AssignmentsTrue, ActiveIsLatest, Active
  <2> QED BY <2>1, <2>2 DEF TechInit
<1>2. FacadeTrue(facade)
  BY NoFacadeTrue, LegacyTrue DEF TechInit
<1>3. IsInstallation(installation) /\ calls = {}
  BY DEF TechInit, NoInstallation, IsInstallation
<1> QED BY <1>1, <1>2, <1>3 DEF WorkTrue

LEMMA NothingWritten ==
  ASSUME WorkTrue, UNCHANGED <<assignments, facade, installation>>,
         \A call \in calls' : call \in calls \/ TechCallTrue(call, facade)
  PROVE  WorkTrue' /\ RevisionsTell
<1>1. AssignmentsTrue'
  BY DEF WorkTrue, AssignmentsTrue, ActiveIsLatest, Active
<1> QED BY <1>1 DEF WorkTrue, RevisionsTell

LEMMA FacadeMoves ==
  ASSUME WorkTrue, UNCHANGED <<assignments, installation>>, calls' \subseteq calls,
         FacadeWritten(facade, facade')
  PROVE  WorkTrue' /\ RevisionsTell
<1>1. AssignmentsTrue'
  BY DEF WorkTrue, AssignmentsTrue, ActiveIsLatest, Active
<1> QED BY <1>1 DEF WorkTrue, RevisionsTell, FacadeWritten

LEMMA InstallationMoves ==
  ASSUME WorkTrue, UNCHANGED <<assignments, facade>>, calls' \subseteq calls,
         InstallationWritten(installation, installation')
  PROVE  WorkTrue' /\ RevisionsTell
<1>1. AssignmentsTrue'
  BY DEF WorkTrue, AssignmentsTrue, ActiveIsLatest, Active
<1> QED BY <1>1 DEF WorkTrue, RevisionsTell, InstallationWritten

LEMMA AssignmentsMove ==
  ASSUME WorkTrue, UNCHANGED <<facade, installation>>, calls' \subseteq calls, AssignmentsTrue'
  PROVE  WorkTrue' /\ RevisionsTell
BY DEF WorkTrue, RevisionsTell

LEMMA WorkStarts ==
  ASSUME WorkTrue, NEW e \in Engineers, TechStart(e)
  PROVE  WorkTrue' /\ RevisionsTell
<1>1. ASSUME NEW call, Start(call), TechCallTrue(call, facade)
      PROVE  WorkTrue' /\ RevisionsTell
  BY <1>1, NothingWritten DEF Start, techVars
<1>2. ASSUME NEW call, Start(call), call.handler \notin {"assign", "facade_draft"}
      PROVE  WorkTrue' /\ RevisionsTell
  <2>1. TechCallTrue(call, facade)
    BY <1>2 DEF TechCallTrue
  <2> QED BY <1>1, <1>2, <2>1
<1>3. CASE StartAssign(e)
  <2> DEFINE call == [handler |-> "assign", engineer |-> e]
  <2>1. TechCallTrue(call, facade)
    BY DEF TechCallTrue
  <2> QED BY <1>1, <1>3, <2>1 DEF StartAssign
<1>4. CASE \E handler \in {"return", "complete", "finish"} : StartClose(e, handler)
  <2>1. PICK handler \in {"return", "complete", "finish"} :
               \E k \in Active : Start([handler |-> handler, row |-> k])
    BY <1>4 DEF StartClose
  <2>2. PICK k : Start([handler |-> handler, row |-> k])
    BY <2>1
  <2>3. [handler |-> handler, row |-> k].handler \notin {"assign", "facade_draft"}
    OBVIOUS
  <2> QED BY <1>2, <2>2, <2>3
<1>5. CASE \E needs \in Needs, areas \in {{x} : x \in Areas} \cup {Areas} :
             StartQualification(e, needs, areas)
  <2>1. PICK needs, areas : Start([handler |-> "qualification", needs |-> needs, areas |-> areas])
    BY <1>5 DEF StartQualification
  <2> QED BY <1>2, <2>1
<1>6. CASE \E config \in Configs, area \in Areas : StartCalculate(e, config, area)
  <2>1. PICK config, area : Start([handler |-> "calculate", seen |-> facade, config |-> config,
                                   area |-> area])
    BY <1>6 DEF StartCalculate
  <2> QED BY <1>2, <2>1
<1>7. CASE \E edited \in SUBSET DOMAIN facade.items, extras \in SUBSET DOMAIN facade.extras,
             quantity \in Quantities \cup {0} :
             StartFacadeDraft(e, edited, extras, quantity)
  <2>1. PICK edited \in SUBSET DOMAIN facade.items, extras \in SUBSET DOMAIN facade.extras,
             quantity \in Quantities \cup {0} :
               StartFacadeDraft(e, edited, extras, quantity)
    BY <1>7
  <2> DEFINE call == [handler |-> "facade_draft", batch |-> facade.batch,
                      extras |-> [x \in extras |-> quantity],
                      lines |-> [m \in edited |->
                        [facade.items[m] EXCEPT !.final  = quantity,
                                                !.manual = quantity # facade.items[m].calculated]]]
  <2>2. Start(call)
    BY <2>1 DEF StartFacadeDraft
  <2>3. TechCallTrue(call, facade)
    BY DraftStarts DEF WorkTrue
  <2> HIDE DEF call
  <2> QED BY <1>1, <2>2, <2>3
<1>8. CASE StartAddItem(e)
  BY <1>2, <1>8 DEF StartAddItem
<1>9. CASE \E works \in SUBSET Works, quantity \in Quantities \cup Areas :
             StartInstallationDraft(e, works, quantity)
  <2>1. PICK works, quantity :
          Start([handler |-> "installation_draft", created |-> installation.revision = 0,
                 items |-> BuildItems(works, quantity)])
    BY <1>9 DEF StartInstallationDraft
  <2> QED BY <1>2, <2>1
<1>10. CASE StartInstallationReady(e)
  BY <1>2, <1>10 DEF StartInstallationReady
<1> QED BY <1>3, <1>4, <1>5, <1>6, <1>7, <1>8, <1>9, <1>10 DEF TechStart

LEMMA WorkTransacts ==
  ASSUME WorkTrue, NEW call \in calls, TechTransaction(call)
  PROVE  WorkTrue' /\ RevisionsTell
<1>1. /\ AssignmentsTrue /\ FacadeTrue(facade) /\ IsInstallation(installation)
      /\ TechCallTrue(call, facade)
  BY DEF WorkTrue
<1>2. CASE Assign(call)
  <2>1. AssignmentsTrue'
    BY <1>1, <1>2, AssignKeeps
  <2> QED BY <1>2, <2>1, AssignmentsMove DEF Assign, End
<1>3. CASE call.handler \in {"return", "complete", "finish"} /\ Close(call)
  <2>1. AssignmentsTrue'
    BY <1>1, <1>3, CloseKeeps
  <2> QED BY <1>3, <2>1, AssignmentsMove DEF Close, End
<1>4. CASE UpdateQualification(call)
  BY <1>4, NothingWritten DEF UpdateQualification, End
<1>5. CASE Calculate(call)
  <2>1. FacadeWritten(facade, facade')
    BY <1>1, <1>5, CalculateWrites
  <2> QED BY <1>5, <2>1, FacadeMoves DEF Calculate, End
<1>6. CASE FacadeDraft(call)
  <2>1. FacadeWritten(facade, facade')
    BY <1>1, <1>6, FacadeDraftWrites
  <2> QED BY <1>6, <2>1, FacadeMoves DEF FacadeDraft, End
<1>7. CASE AddItem(call)
  <2>1. FacadeWritten(facade, facade')
    BY <1>1, <1>7, AddItemWrites
  <2> QED BY <1>7, <2>1, FacadeMoves DEF AddItem, End
<1>8. CASE InstallationDraft(call) \/ InstallationReady(call)
  <2>1. InstallationWritten(installation, installation')
    BY <1>1, <1>8, InstallationWrites
  <2> QED BY <1>8, <2>1, InstallationMoves DEF InstallationDraft, InstallationReady, End
<1> QED BY <1>2, <1>3, <1>4, <1>5, <1>6, <1>7, <1>8 DEF TechTransaction

-----------------------------------------------------------------------------
\* The commercial side.

OfferHandlers == {"offer_create", "offer_reprice", "offer_patch", "offer_submit", "offer_approve"}

IsRow(r) ==
  r \in [status : {r.status}, revision : Nat, isCurrent : BOOLEAN,
         technicalRevision : {r.technicalRevision}, technicalSnapshot : {r.technicalSnapshot},
         lines : {r.lines}, proposed : {r.proposed}, approved : {r.approved},
         quoteCreated : {r.quoteCreated}]

Rowed(rows) ==
  /\ rows \in Seq({rows[k] : k \in DOMAIN rows})
  /\ \A k \in DOMAIN rows : IsRow(rows[k])

Newest(rows) == rows # <<>> => rows[Len(rows)].isCurrent
Distinct(rows) == \A j, k \in DOMAIN rows : j # k => rows[j].revision # rows[k].revision

\* There is a last revision, 0 if there is no row.
Numbers(rows) == {rows[k].revision : k \in DOMAIN rows}
HasLast(rows) == \E x \in Numbers(rows) \cup {0} : \A y \in Numbers(rows) : y <= x

\* An amount of row k that has stood before an approver.
Seen(kind, k, amount, shown) == [kind |-> kind, row |-> k, amount |-> amount] \in shown

ApprovedSeen(kind, rows, shown) ==
  \A k \in DOMAIN rows : rows[k].status = "APPROVED" => Seen(kind, k, rows[k].approved, shown)

ReadySeen(kind, rows, shown) ==
  \A k \in DOMAIN rows : rows[k].status = "READY_FOR_APPROVAL" =>
    Seen(kind, k, rows[k].proposed, shown)

\* Lines with the revision they were read at, against the calculation of now.
OnBasis(revision, lines, tech) ==
  /\ revision \in Nat /\ tech.revision \in Nat
  /\ revision <= tech.revision
  /\ revision = tech.revision => lines = tech.lines

RowsOnBasis(rows, tech) ==
  \A k \in DOMAIN rows : OnBasis(rows[k].technicalRevision, rows[k].technicalSnapshot, tech)

RowsTrue(kind, rows, shown, tech) ==
  /\ Rowed(rows)
  /\ Newest(rows)
  /\ Distinct(rows)
  /\ HasLast(rows)
  /\ ApprovedSeen(kind, rows, shown)
  /\ RowsOnBasis(rows, tech)

IsDraft(c) ==
  c \in [handler : DraftHandlers, kind : {c.kind}, row : {c.row}, caller : {c.caller},
         technical : {c.technical}, reading : BOOLEAN, last : Nat, previous : {c.previous}]

IsPatch(c) ==
  c \in [handler : {"offer_patch"}, kind : {c.kind}, row : {c.row}, deleting : {c.deleting},
         amount : {c.amount}, deleted : {c.deleted}, lines : {c.lines}]

\* What a call of the commercial side has read.
OfferCallTrue(call) ==
  /\ call.handler \in OfferHandlers => call.kind \in Kinds
  /\ call.handler \in {"offer_create", "offer_reprice"} =>
       /\ IsDraft(call)
       /\ call.row \in 0..Len(offers[call.kind])
       /\ OnBasis(call.technical.revision, call.technical.lines, Technical(call.kind))
  /\ call.handler \in {"offer_patch", "offer_submit", "offer_approve"} =>
       call.row \in DOMAIN offers[call.kind]
  /\ call.handler = "offer_patch" => IsPatch(call)
  /\ call.handler = "offer_approve" => Seen(call.kind, call.row, call.amount, presented)

OffersTrue ==
  /\ offers \in [Kinds -> {offers[kind] : kind \in Kinds}]
  /\ \A kind \in Kinds : /\ RowsTrue(kind, offers[kind], presented, Technical(kind))
                         /\ ReadySeen(kind, offers[kind], presented)
  /\ quotes \in Seq({quotes[q] : q \in DOMAIN quotes})
  /\ \A q \in DOMAIN quotes : \A c \in quotes[q].components : Seen(c.kind, c.row, c.amount, presented)
  /\ \A call \in calls : OfferCallTrue(call)

\* Rows, one written or one more.

LEMMA RowsLength ==
  ASSUME NEW rows, Rowed(rows)
  PROVE  Len(rows) \in Nat /\ DOMAIN rows = 1..Len(rows)
BY DEF Rowed

LEMMA SeqOfOwn ==
  ASSUME NEW S, NEW s \in Seq(S)
  PROVE  s \in Seq({s[j] : j \in DOMAIN s})
<1> DEFINE T == {s[j] : j \in DOMAIN s}
<1>1. Len(s) \in Nat /\ DOMAIN s = 1..Len(s) /\ s \in [1..Len(s) -> S]
  OBVIOUS
<1>2. \A j \in DOMAIN s : s[j] \in T
  OBVIOUS
<1> HIDE DEF T
<1>3. s \in [1..Len(s) -> T]
  BY <1>1, <1>2
<1>4. s \in Seq(T)
  BY <1>1, <1>3, SeqDef
<1> QED BY <1>4 DEF T

LEMMA RowWritten ==
  ASSUME NEW rows, Rowed(rows), NEW k \in DOMAIN rows, NEW row, IsRow(row),
         NEW new, new = [rows EXCEPT ![k] = row]
  PROVE  /\ Rowed(new) /\ Len(new) = Len(rows) /\ DOMAIN new = DOMAIN rows
         /\ new[k] = row
         /\ \A j \in DOMAIN rows : j # k => new[j] = rows[j]
<1> DEFINE S == {rows[j] : j \in DOMAIN rows} \cup {row}
<1>1. rows \in Seq(S)
  BY DEF Rowed
<1>2. row \in S /\ k \in 1..Len(rows)
  BY RowsLength
<1> HIDE DEF S
<1>3. /\ new \in Seq(S) /\ Len(new) = Len(rows) /\ DOMAIN new = DOMAIN rows
      /\ new[k] = row
      /\ \A j \in DOMAIN rows : j # k => new[j] = rows[j]
  BY <1>1, <1>2
<1>4. new \in Seq({new[j] : j \in DOMAIN new})
  <2>1. new \in Seq(S)
    BY <1>3
  <2> QED BY ONLY <2>1, SeqOfOwn
<1>5. \A j \in DOMAIN new : IsRow(new[j])
  BY <1>3 DEF Rowed
<1> QED BY <1>3, <1>4, <1>5 DEF Rowed

LEMMA RowAdded ==
  ASSUME NEW rows, Rowed(rows), NEW row, IsRow(row)
  PROVE  /\ Rowed(Append(rows, row)) /\ Len(Append(rows, row)) = Len(rows) + 1
         /\ Append(rows, row)[Len(rows) + 1] = row
         /\ \A j \in DOMAIN rows : Append(rows, row)[j] = rows[j]
<1> DEFINE new == Append(rows, row)
           S == {rows[j] : j \in DOMAIN rows} \cup {row}
<1>1. rows \in Seq(S) /\ row \in S
  BY DEF Rowed
<1> HIDE DEF S
<1>3. /\ new \in Seq(S) /\ Len(new) = Len(rows) + 1
      /\ new[Len(rows) + 1] = row
      /\ \A j \in DOMAIN rows : new[j] = rows[j]
  BY <1>1
<1>4. new \in Seq({new[j] : j \in DOMAIN new})
  BY <1>3, SeqOfOwn
<1>5. \A j \in DOMAIN new : IsRow(new[j])
  BY <1>1, <1>3, RowsLength DEF Rowed
<1> QED BY <1>3, <1>4, <1>5 DEF Rowed

\* A last revision remains when one row counts its own up, and when one more
\* row comes.
LEMMA CountedHasLast ==
  ASSUME NEW rows, HasLast(rows), \A n \in DOMAIN rows : rows[n].revision \in Nat,
         NEW k \in DOMAIN rows, NEW new, DOMAIN new = DOMAIN rows,
         new[k].revision = rows[k].revision + 1,
         \A n \in DOMAIN rows : n # k => new[n].revision = rows[n].revision
  PROVE  HasLast(new)
<1>1. PICK x \in Numbers(rows) \cup {0} : \A n \in DOMAIN rows : rows[n].revision <= x
  BY DEF HasLast, Numbers
<1>2. x \in Nat
  BY <1>1 DEF Numbers
<1>3. CASE rows[k].revision + 1 > x
  <2>1. \A n \in DOMAIN new : new[n].revision <= new[k].revision
    BY <1>1, <1>2, <1>3
  <2> QED BY <2>1 DEF HasLast, Numbers
<1>4. CASE rows[k].revision + 1 <= x
  <2>1. \A n \in DOMAIN new : new[n].revision <= x
    BY <1>1, <1>4
  <2>2. x # 0 /\ x # rows[k].revision
    BY <1>2, <1>4
  <2>3. PICK n \in DOMAIN rows : x = rows[n].revision
    BY <1>1, <2>2 DEF Numbers
  <2>4. x = new[n].revision
    BY <2>2, <2>3
  <2> QED BY <2>1, <2>3, <2>4 DEF HasLast, Numbers
<1> QED BY <1>2, <1>3, <1>4

LEMMA AddedHasLast ==
  ASSUME NEW rows, HasLast(rows), \A n \in DOMAIN rows : rows[n].revision \in Nat,
         NEW new, NEW k \in DOMAIN new, new[k].revision \in Nat,
         DOMAIN new = DOMAIN rows \cup {k},
         \A n \in DOMAIN rows : new[n].revision = rows[n].revision
  PROVE  HasLast(new)
<1>1. PICK x \in Numbers(rows) \cup {0} : \A n \in DOMAIN rows : rows[n].revision <= x
  BY DEF HasLast, Numbers
<1>2. x \in Nat
  BY <1>1 DEF Numbers
<1>3. CASE new[k].revision > x
  <2>1. \A n \in DOMAIN new : new[n].revision <= new[k].revision
    BY <1>1, <1>2, <1>3
  <2>2. \A y \in Numbers(new) : y <= new[k].revision
    BY <2>1 DEF Numbers
  <2>3. new[k].revision \in Numbers(new)
    BY DEF Numbers
  <2> QED BY <2>2, <2>3 DEF HasLast
<1>4. CASE new[k].revision <= x
  <2>1. \A n \in DOMAIN new : new[n].revision <= x
    BY <1>1, <1>4
  <2>2. \A y \in Numbers(new) : y <= x
    BY <2>1 DEF Numbers
  <2>3. x \in Numbers(new) \cup {0}
    BY <1>1 DEF Numbers
  <2> QED BY <2>2, <2>3 DEF HasLast
<1> QED BY <1>2, <1>3, <1>4

\* A row written by id counts its revision up, and not to one that is taken
\* (leadId and revision are unique).
LEMMA WriteRowTrue ==
  ASSUME NEW kind, NEW rows, NEW shown, NEW tech, RowsTrue(kind, rows, shown, tech),
         NEW k \in DOMAIN rows, NEW row, IsRow(row),
         row.isCurrent = rows[k].isCurrent,
         row.technicalRevision = rows[k].technicalRevision,
         row.technicalSnapshot = rows[k].technicalSnapshot,
         row.status = "APPROVED" => Seen(kind, k, row.approved, shown)
  PROVE  /\ RowsTrue(kind, WriteRow(rows, k, row), shown, tech)
         /\ Len(WriteRow(rows, k, row)) = Len(rows)
<1> DEFINE next == [row EXCEPT !.revision = rows[k].revision + 1]
           new == [rows EXCEPT ![k] = next]
<1>1. Rowed(rows) /\ IsRow(rows[k])
  BY DEF RowsTrue, Rowed
<1>2. rows[k].revision \in Nat
  BY <1>1 DEF IsRow
<1>3. /\ IsRow(next) /\ next.revision = rows[k].revision + 1 /\ next.status = row.status
      /\ next.isCurrent = row.isCurrent /\ next.technicalRevision = row.technicalRevision
      /\ next.technicalSnapshot = row.technicalSnapshot /\ next.approved = row.approved
  <2> DEFINE n == rows[k].revision + 1
  <2>1. next = [row EXCEPT !.revision = n] /\ n \in Nat
    BY <1>2
  <2> HIDE DEF next, n
  <2>2. next = [status |-> row.status, revision |-> n, isCurrent |-> row.isCurrent,
                technicalRevision |-> row.technicalRevision,
                technicalSnapshot |-> row.technicalSnapshot, lines |-> row.lines,
                proposed |-> row.proposed, approved |-> row.approved,
                quoteCreated |-> row.quoteCreated]
    BY <2>1 DEF IsRow
  <2>3. row.isCurrent \in BOOLEAN
    BY DEF IsRow
  <2>4. IsRow(next)
    BY <2>1, <2>2, <2>3 DEF IsRow
  <2> QED BY <2>2, <2>4 DEF n
<1>4. CASE ~ RevisionFree(rows, rows[k].revision + 1)
  BY <1>4 DEF WriteRow
<1>5. CASE RevisionFree(rows, rows[k].revision + 1)
  <2>1. WriteRow(rows, k, row) = new
    BY <1>5 DEF WriteRow
  <2> HIDE DEF next
  <2>2. /\ Rowed(new) /\ Len(new) = Len(rows) /\ DOMAIN new = DOMAIN rows
        /\ new[k] = next
        /\ \A j \in DOMAIN rows : j # k => new[j] = rows[j]
    BY <1>1, <1>3, RowWritten
  <2> HIDE DEF new
  <2>3. Len(rows) \in Nat /\ DOMAIN rows = 1..Len(rows)
    BY <1>1, RowsLength
  <2>4. Newest(new)
    <3>1. CASE k = Len(rows)
      <4>1. rows # <<>>
        BY <2>3
      <4> QED BY <3>1, <4>1, <2>2, <1>3 DEF RowsTrue, Newest
    <3>2. CASE k # Len(rows)
      <4>1. rows # <<>> /\ Len(rows) \in DOMAIN rows
        BY <2>3
      <4> QED BY <3>2, <4>1, <2>2 DEF RowsTrue, Newest
    <3> QED BY <3>1, <3>2
  <2>5. Distinct(new) /\ HasLast(new)
    <3>1. /\ \A n \in DOMAIN rows : rows[n].revision \in Nat
          /\ Distinct(rows) /\ HasLast(rows)
      BY <1>1 DEF RowsTrue, Rowed, IsRow
    <3>2. \A n \in DOMAIN rows : rows[n].revision # rows[k].revision + 1
      BY <1>5 DEF RevisionFree
    <3>3. /\ new[k].revision = rows[k].revision + 1
          /\ \A n \in DOMAIN rows : n # k => new[n].revision = rows[n].revision
      BY <2>2, <1>3
    <3>4. Distinct(new)
      BY <3>1, <3>2, <3>3, <2>2 DEF Distinct
    <3> QED BY <3>1, <3>3, <3>4, <2>2, CountedHasLast
  <2>6. ApprovedSeen(kind, new, shown)
    BY <2>2, <1>3 DEF ApprovedSeen, RowsTrue
  <2>7. RowsOnBasis(new, tech)
    BY <2>2, <1>3 DEF RowsOnBasis, RowsTrue
  <2> QED BY <2>1, <2>2, <2>4, <2>5, <2>6, <2>7 DEF RowsTrue
<1> QED BY <1>4, <1>5

LEMMA LastRevisionIsLast ==
  ASSUME NEW rows, Rowed(rows), HasLast(rows)
  PROVE  LastRevision(rows) \in Nat
<1>1. \A k \in DOMAIN rows : rows[k].revision \in Nat
  BY DEF Rowed, IsRow
<1>2. MaxOf(Numbers(rows)) \in Numbers(rows) \cup {0}
  BY DEF MaxOf, HasLast
<1>3. LastRevision(rows) = MaxOf(Numbers(rows))
  BY DEF LastRevision, Numbers
<1> QED BY <1>1, <1>2, <1>3 DEF Numbers

\* Taking the place of the current row leaves the rows as they were but for one flag.
LEMMA DemoteKeeps ==
  ASSUME NEW rows, Rowed(rows), NEW k \in 0..Len(rows)
  PROVE  /\ Rowed(Demote(rows, k)) /\ Len(Demote(rows, k)) = Len(rows)
         /\ DOMAIN Demote(rows, k) = DOMAIN rows
         /\ \A j \in DOMAIN rows :
              /\ Demote(rows, k)[j].revision = rows[j].revision
              /\ Demote(rows, k)[j].status = rows[j].status
              /\ Demote(rows, k)[j].approved = rows[j].approved
              /\ Demote(rows, k)[j].proposed = rows[j].proposed
              /\ Demote(rows, k)[j].technicalRevision = rows[j].technicalRevision
              /\ Demote(rows, k)[j].technicalSnapshot = rows[j].technicalSnapshot
<1>1. CASE k = 0
  BY <1>1 DEF Demote
<1>2. CASE k # 0
  <2> DEFINE old == rows[k]
             row == [old EXCEPT !.isCurrent = FALSE]
             new == [rows EXCEPT ![k] = row]
  <2>1. k \in DOMAIN rows /\ IsRow(old)
    BY <1>2, RowsLength DEF Rowed
  <2>2. Demote(rows, k) = new
    BY <1>2, <2>1 DEF Demote, Rowed
  <2> HIDE DEF old
  <2>3. row = [status |-> old.status, revision |-> old.revision, isCurrent |-> FALSE,
               technicalRevision |-> old.technicalRevision,
               technicalSnapshot |-> old.technicalSnapshot, lines |-> old.lines,
               proposed |-> old.proposed, approved |-> old.approved,
               quoteCreated |-> old.quoteCreated]
    <3>1. row = [old EXCEPT !.isCurrent = FALSE]
      OBVIOUS
    <3> HIDE DEF row
    <3> QED BY <2>1, <3>1 DEF IsRow
  <2> HIDE DEF row
  <2>4. /\ IsRow(row) /\ row.revision = old.revision /\ row.status = old.status
        /\ row.approved = old.approved /\ row.proposed = old.proposed
        /\ row.technicalRevision = old.technicalRevision
        /\ row.technicalSnapshot = old.technicalSnapshot
    <3>1. old.revision \in Nat
      BY <2>1 DEF IsRow
    <3> QED BY <2>3, <3>1 DEF IsRow
  <2>5. /\ Rowed(new) /\ Len(new) = Len(rows) /\ DOMAIN new = DOMAIN rows
        /\ new[k] = row
        /\ \A j \in DOMAIN rows : j # k => new[j] = rows[j]
    BY <2>1, <2>4, RowWritten
  <2> HIDE DEF new
  <2> QED BY <2>2, <2>4, <2>5 DEF old
<1> QED BY <1>1, <1>2

\* A new draft is inserted only under a revision that no row has.
LEMMA DraftAdded ==
  ASSUME NEW call, NEW kind, NEW rows, NEW shown, NEW tech, RowsTrue(kind, rows, shown, tech),
         NEW k \in 0..Len(rows),
         OnBasis(call.technical.revision, call.technical.lines, tech),
         call.last \in Nat, RevisionFree(rows, call.last + 1)
  PROVE  LET new == Append(Demote(rows, k), PersistDraft(call))
         IN  RowsTrue(kind, new, shown, tech) /\ Len(new) = Len(rows) + 1
<1> DEFINE old == Demote(rows, k)
           row == PersistDraft(call)
           new == Append(old, row)
<1>1. /\ Rowed(rows) /\ Distinct(rows) /\ HasLast(rows)
      /\ ApprovedSeen(kind, rows, shown) /\ RowsOnBasis(rows, tech)
  BY DEF RowsTrue
<1>2. /\ Rowed(old) /\ Len(old) = Len(rows) /\ DOMAIN old = DOMAIN rows
      /\ \A j \in DOMAIN rows :
           /\ old[j].revision = rows[j].revision
           /\ old[j].status = rows[j].status
           /\ old[j].approved = rows[j].approved
           /\ old[j].technicalRevision = rows[j].technicalRevision
           /\ old[j].technicalSnapshot = rows[j].technicalSnapshot
  BY <1>1, DemoteKeeps
<1>3. row = [status |-> "DRAFT", revision |-> call.last + 1, isCurrent |-> TRUE,
             technicalRevision |-> call.technical.revision,
             technicalSnapshot |-> call.technical.lines,
             lines |-> Drafted(call.kind, call.technical, call.previous, catalog),
             proposed |-> 0, approved |-> 0, quoteCreated |-> FALSE]
  BY DEF PersistDraft, FacadeDraftFromTechnical, InstallationDraftFromTechnical
<1> HIDE DEF old
<1>4. Distinct(old) /\ HasLast(old)
  BY <1>1, <1>2 DEF Distinct, HasLast, Numbers
<1>5. \A j \in DOMAIN old : old[j].revision # call.last + 1
  BY <1>2 DEF RevisionFree
<1> HIDE DEF row
<1>6. /\ IsRow(row) /\ row.revision = call.last + 1 /\ row.isCurrent
      /\ row.status = "DRAFT" /\ row.technicalRevision = call.technical.revision
      /\ row.technicalSnapshot = call.technical.lines
  BY <1>3 DEF IsRow
<1>15. new = Append(old, row)
  OBVIOUS
<1> HIDE DEF new
<1>7. /\ Rowed(new) /\ Len(new) = Len(old) + 1 /\ new[Len(old) + 1] = row
      /\ \A j \in DOMAIN old : new[j] = old[j]
  <2>1. Rowed(old) /\ IsRow(row)
    BY <1>2, <1>6
  <2> QED BY <2>1, <1>15, RowAdded
<1>8. /\ Len(old) \in Nat /\ DOMAIN old = 1..Len(old) /\ DOMAIN new = 1..(Len(old) + 1)
      /\ \A j \in DOMAIN old : old[j].revision \in Nat
  BY <1>2, <1>7, RowsLength DEF Rowed, IsRow
<1>9. Newest(new)
  BY <1>6, <1>7 DEF Newest
<1>10. Distinct(new) /\ HasLast(new)
  <2>1. /\ \A j \in DOMAIN old : new[j].revision = old[j].revision
        /\ new[Len(old) + 1].revision = call.last + 1
        /\ DOMAIN new = DOMAIN old \cup {Len(old) + 1}
    BY <1>6, <1>7, <1>8
  <2>2. Distinct(new)
    BY <2>1, <1>4, <1>5 DEF Distinct
  <2>3. call.last + 1 \in Nat
    OBVIOUS
  <2> QED BY <2>1, <2>2, <2>3, <1>4, <1>8, AddedHasLast
<1>11. \A j \in DOMAIN new : (j \in DOMAIN old /\ new[j] = old[j]) \/ new[j] = row
  BY <1>7, <1>8
<1>12. ApprovedSeen(kind, new, shown)
  BY <1>1, <1>2, <1>6, <1>11 DEF ApprovedSeen
<1>13. RowsOnBasis(new, tech)
  BY <1>1, <1>2, <1>6, <1>11 DEF RowsOnBasis
<1>14. RowsTrue(kind, new, shown, tech) /\ Len(new) = Len(rows) + 1
  BY <1>2, <1>7, <1>9, <1>10, <1>12, <1>13 DEF RowsTrue
<1> QED BY <1>14 DEF new, row, old

\* A row that another status is written to.
SameButFor(row, old) ==
  /\ IsRow(row)
  /\ row.isCurrent = old.isCurrent
  /\ row.technicalRevision = old.technicalRevision
  /\ row.technicalSnapshot = old.technicalSnapshot

LEMMA PatchedKeeps ==
  ASSUME NEW row, IsRow(row), NEW call
  PROVE  SameButFor(Patched(row, call), row) /\ Patched(row, call).status = "DRAFT"
<1> DEFINE new == Patched(row, call)
           lines == Rewritten(row, call)
<1>1. new = [row EXCEPT !.status = "DRAFT", !.proposed = call.amount, !.lines = lines]
  BY DEF Patched
<1> HIDE DEF new, lines
<1>2. new = [status |-> "DRAFT", revision |-> row.revision, isCurrent |-> row.isCurrent,
             technicalRevision |-> row.technicalRevision,
             technicalSnapshot |-> row.technicalSnapshot, lines |-> lines,
             proposed |-> call.amount, approved |-> row.approved,
             quoteCreated |-> row.quoteCreated]
  BY <1>1 DEF IsRow
<1>3. row.revision \in Nat /\ row.isCurrent \in BOOLEAN
  BY DEF IsRow
<1>4. IsRow(new)
  BY <1>2, <1>3 DEF IsRow
<1>5. SameButFor(new, row) /\ new.status = "DRAFT"
  BY <1>2, <1>4 DEF SameButFor
<1> QED BY <1>5 DEF new

LEMMA SubmittedKeeps ==
  ASSUME NEW row, IsRow(row)
  PROVE  SameButFor(Submitted(row), row) /\ Submitted(row).status = "READY_FOR_APPROVAL"
<1> DEFINE new == Submitted(row)
<1>1. new = [row EXCEPT !.status = "READY_FOR_APPROVAL"]
  BY DEF Submitted
<1> HIDE DEF new
<1>2. new = [status |-> "READY_FOR_APPROVAL", revision |-> row.revision,
             isCurrent |-> row.isCurrent, technicalRevision |-> row.technicalRevision,
             technicalSnapshot |-> row.technicalSnapshot, lines |-> row.lines,
             proposed |-> row.proposed, approved |-> row.approved,
             quoteCreated |-> row.quoteCreated]
  BY <1>1 DEF IsRow
<1>3. row.revision \in Nat /\ row.isCurrent \in BOOLEAN
  BY DEF IsRow
<1>4. IsRow(new)
  BY <1>2, <1>3 DEF IsRow
<1>5. SameButFor(new, row) /\ new.status = "READY_FOR_APPROVAL"
  BY <1>2, <1>4 DEF SameButFor
<1> QED BY <1>5 DEF new

LEMMA ApprovedKeeps ==
  ASSUME NEW row, IsRow(row), NEW call
  PROVE  SameButFor(Approved(row, call), row) /\ Approved(row, call).approved = call.amount
<1> DEFINE new == Approved(row, call)
<1>1. new = [row EXCEPT !.status = "APPROVED", !.approved = call.amount]
  BY DEF Approved
<1> HIDE DEF new
<1>2. new = [status |-> "APPROVED", revision |-> row.revision,
             isCurrent |-> row.isCurrent, technicalRevision |-> row.technicalRevision,
             technicalSnapshot |-> row.technicalSnapshot, lines |-> row.lines,
             proposed |-> row.proposed, approved |-> call.amount,
             quoteCreated |-> row.quoteCreated]
  BY <1>1 DEF IsRow
<1>3. row.revision \in Nat /\ row.isCurrent \in BOOLEAN
  BY DEF IsRow
<1>4. IsRow(new)
  BY <1>2, <1>3 DEF IsRow
<1>5. SameButFor(new, row) /\ new.approved = call.amount
  BY <1>2, <1>4 DEF SameButFor
<1> QED BY <1>5 DEF new

\* A transaction of the commercial side leaves rows of one kind, none fewer.
LEMMA TransactionLeaves ==
  ASSUME WorkTrue, OffersTrue, NEW call \in calls,
         NewDraft(call) \/ Patch(call) \/ Submit(call) \/ Approve(call)
  PROVE  \E rows : /\ EndOffer(call, rows)
                   /\ RowsTrue(call.kind, rows, presented, Technical(call.kind))
                   /\ Len(rows) >= Len(offers[call.kind])
<1> DEFINE kind == call.kind
           old == offers[kind]
           tech == Technical(kind)
           k == call.row
<1>1. OfferCallTrue(call) /\ call.handler \in OfferHandlers
  BY DEF OffersTrue, NewDraft, Patch, Submit, Approve, OfferHandlers, DraftHandlers
<1>2. kind \in Kinds /\ RowsTrue(kind, old, presented, tech)
  BY <1>1 DEF OfferCallTrue, OffersTrue
<1>3. Rowed(old) /\ Len(old) \in Nat
  BY <1>2, RowsLength DEF RowsTrue
<1>4. CASE NewDraft(call)
  <2> DEFINE new == Append(Demote(old, k), PersistDraft(call))
  <2>1. EndOffer(call, new) /\ RevisionFree(old, call.last + 1)
    BY <1>4 DEF NewDraft
  <2>2. /\ k \in 0..Len(old) /\ OnBasis(call.technical.revision, call.technical.lines, tech)
        /\ call.last \in Nat
    BY <1>1, <1>4 DEF NewDraft, DraftHandlers, OfferCallTrue, IsDraft
  <2> HIDE DEF kind, old, tech, k
  <2>3. RowsTrue(kind, new, presented, tech) /\ Len(new) = Len(old) + 1
    BY <1>2, <2>1, <2>2, DraftAdded
  <2> HIDE DEF new
  <2>4. Len(new) >= Len(old)
    BY <1>3, <2>3
  <2> QED BY <2>1, <2>3, <2>4 DEF kind, old, tech
<1>5. ASSUME NEW row, SameButFor(row, old[k]), k \in DOMAIN old,
             row.status = "APPROVED" => Seen(kind, k, row.approved, presented),
             EndOffer(call, WriteRow(old, k, row))
      PROVE  \E rows : /\ EndOffer(call, rows)
                       /\ RowsTrue(kind, rows, presented, tech)
                       /\ Len(rows) >= Len(old)
  <2> DEFINE new == WriteRow(old, k, row)
  <2> HIDE DEF kind, old, tech, k
  <2>1. RowsTrue(kind, new, presented, tech) /\ Len(new) = Len(old)
    BY <1>2, <1>5, WriteRowTrue DEF SameButFor
  <2>2. Len(new) >= Len(old)
    BY <1>3, <2>1
  <2> QED BY <1>5, <2>1, <2>2
<1>6. CASE Patch(call)
  <2>1. EndOffer(call, WriteRow(old, k, Patched(old[k], call))) /\ k \in DOMAIN old
    BY <1>1, <1>6 DEF Patch, FacadePatch, InstallationPatch, OfferCallTrue
  <2>2. IsRow(old[k])
    BY <1>3, <2>1 DEF Rowed
  <2>3. SameButFor(Patched(old[k], call), old[k]) /\ Patched(old[k], call).status = "DRAFT"
    BY <2>2, PatchedKeeps
  <2> QED BY <1>5, <2>1, <2>3
<1>7. CASE Submit(call)
  <2>1. EndOffer(call, WriteRow(old, k, Submitted(old[k]))) /\ k \in DOMAIN old
    BY <1>1, <1>7 DEF Submit, FacadeSubmit, InstallationSubmit, OfferCallTrue
  <2>2. IsRow(old[k])
    BY <1>3, <2>1 DEF Rowed
  <2>3. SameButFor(Submitted(old[k]), old[k]) /\ Submitted(old[k]).status = "READY_FOR_APPROVAL"
    BY <2>2, SubmittedKeeps
  <2> QED BY <1>5, <2>1, <2>3
<1>8. CASE Approve(call)
  <2>1. /\ EndOffer(call, WriteRow(old, k, Approved(old[k], call))) /\ k \in DOMAIN old
        /\ Seen(kind, k, call.amount, presented)
    BY <1>1, <1>8 DEF Approve, FacadeApprove, InstallationApprove, OfferCallTrue
  <2>2. IsRow(old[k])
    BY <1>3, <2>1 DEF Rowed
  <2>3. SameButFor(Approved(old[k], call), old[k]) /\ Approved(old[k], call).approved = call.amount
    BY <2>2, ApprovedKeeps
  <2> QED BY <1>5, <2>1, <2>3
<1> QED BY <1>4, <1>6, <1>7, <1>8

-----------------------------------------------------------------------------
\* What was true of rows and of calls stays true while the technical side moves on.

Later(tech, now) == now = tech \/ now.revision = tech.revision + 1

LEMMA BasisLater ==
  ASSUME NEW revision, NEW lines, NEW tech, OnBasis(revision, lines, tech),
         NEW now, Later(tech, now)
  PROVE  OnBasis(revision, lines, now)
<1>1. CASE now = tech
  BY <1>1
<1>2. CASE now.revision = tech.revision + 1
  BY <1>2 DEF OnBasis
<1> QED BY <1>1, <1>2 DEF Later

LEMMA RowsLater ==
  ASSUME NEW kind, NEW rows, NEW shown, NEW tech, RowsTrue(kind, rows, shown, tech),
         NEW more, shown \subseteq more, NEW now, Later(tech, now)
  PROVE  RowsTrue(kind, rows, more, now)
<1>1. ApprovedSeen(kind, rows, more)
  BY DEF RowsTrue, ApprovedSeen, Seen
<1>2. RowsOnBasis(rows, now)
  BY BasisLater DEF RowsTrue, RowsOnBasis
<1> QED BY <1>1, <1>2 DEF RowsTrue

LEMMA TechnicalLater ==
  ASSUME WorkTrue, RevisionsTell, NEW kind \in Kinds
  PROVE  Later(Technical(kind), Technical(kind)') /\ Technical(kind).revision \in Nat
<1>1. facade.revision \in Nat /\ installation.revision \in Nat
  BY DEF WorkTrue, FacadeTrue, IsFacade, IsInstallation
<1>2. CASE kind = "facade"
  <2>1. Technical(kind) = FacadeTechnical /\ Technical(kind)' = FacadeTechnical'
    BY <1>2 DEF Technical
  <2>2. FacadeTechnical.revision = facade.revision /\ FacadeTechnical'.revision = facade'.revision
    BY DEF FacadeTechnical
  <2>3. facade' = facade => FacadeTechnical' = FacadeTechnical
    BY DEF FacadeTechnical
  <2> QED BY <1>1, <2>1, <2>2, <2>3 DEF RevisionsTell, Later
<1>3. CASE kind = "installation"
  <2>1. Technical(kind) = InstallationTechnical /\ Technical(kind)' = InstallationTechnical'
    BY <1>3 DEF Technical
  <2>2. /\ InstallationTechnical.revision = installation.revision
        /\ InstallationTechnical'.revision = installation'.revision
    BY DEF InstallationTechnical
  <2>3. installation' = installation => InstallationTechnical' = InstallationTechnical
    BY DEF InstallationTechnical
  <2> QED BY <1>1, <2>1, <2>2, <2>3 DEF RevisionsTell, Later
<1> QED BY <1>2, <1>3 DEF Kinds

LEMMA CallsLater ==
  ASSUME WorkTrue, RevisionsTell, NEW call, OfferCallTrue(call),
         presented \subseteq presented',
         \A kind \in Kinds : /\ Rowed(offers[kind]) /\ Rowed(offers'[kind])
                             /\ Len(offers'[kind]) >= Len(offers[kind])
  PROVE  OfferCallTrue(call)'
<1>1. SUFFICES ASSUME call.handler \in OfferHandlers PROVE OfferCallTrue(call)'
  BY DEF OfferCallTrue, OfferHandlers
<1> DEFINE kind == call.kind
           old == offers[kind]
           new == offers'[kind]
<1>2. kind \in Kinds
  BY <1>1 DEF OfferCallTrue
<1>3. /\ Len(old) \in Nat /\ Len(new) \in Nat /\ Len(new) >= Len(old)
      /\ DOMAIN old = 1..Len(old) /\ DOMAIN new = 1..Len(new)
  BY <1>2, RowsLength
<1>4. Later(Technical(kind), Technical(kind)')
  BY <1>2, TechnicalLater
<1>5. ASSUME call.handler \in {"offer_create", "offer_reprice"}
      PROVE  /\ call.row \in 0..Len(new)
             /\ OnBasis(call.technical.revision, call.technical.lines, Technical(kind)')
  <2>1. /\ call.row \in 0..Len(old)
        /\ OnBasis(call.technical.revision, call.technical.lines, Technical(kind))
    BY <1>5 DEF OfferCallTrue
  <2>2. OnBasis(call.technical.revision, call.technical.lines, Technical(kind)')
    BY <2>1, <1>4, BasisLater
  <2> HIDE DEF old, new
  <2> QED BY <2>1, <2>2, <1>3
<1>6. ASSUME call.handler \in {"offer_patch", "offer_submit", "offer_approve"}
      PROVE  call.row \in DOMAIN new
  <2>1. call.row \in DOMAIN old
    BY <1>6 DEF OfferCallTrue
  <2> HIDE DEF old, new
  <2> QED BY <2>1, <1>3
<1> QED BY <1>2, <1>5, <1>6 DEF OfferCallTrue, Seen

LEMMA OffersStay ==
  ASSUME WorkTrue, OffersTrue, RevisionsTell, UNCHANGED <<offers, quotes, presented>>,
         \A call \in calls' : call \in calls \/ OfferCallTrue(call)'
  PROVE  OffersTrue'
<1>1. ASSUME NEW kind \in Kinds
      PROVE  /\ RowsTrue(kind, offers[kind], presented, Technical(kind)')
             /\ ReadySeen(kind, offers[kind], presented)
             /\ Rowed(offers[kind]) /\ Len(offers[kind]) \in Nat
  <2>1. RowsTrue(kind, offers[kind], presented, Technical(kind))
    BY DEF OffersTrue
  <2>2. Later(Technical(kind), Technical(kind)')
    BY TechnicalLater
  <2>3. RowsTrue(kind, offers[kind], presented, Technical(kind)')
    BY <2>1, <2>2, RowsLater
  <2> QED BY <2>1, <2>3, RowsLength DEF OffersTrue, RowsTrue
<1>2. \A call \in calls : OfferCallTrue(call)'
  BY <1>1, CallsLater DEF OffersTrue
<1>3. /\ offers \in [Kinds -> {offers[kind] : kind \in Kinds}]
      /\ quotes \in Seq({quotes[q] : q \in DOMAIN quotes})
      /\ \A q \in DOMAIN quotes : \A c \in quotes[q].components : Seen(c.kind, c.row, c.amount, presented)
  BY DEF OffersTrue
<1> QED BY <1>1, <1>2, <1>3 DEF OffersTrue

LEMMA OfferStarts ==
  ASSUME WorkTrue, OffersTrue, NEW call, StartOffer(call), OfferCallTrue(call)
  PROVE  OffersTrue'
<1>1. RevisionsTell /\ UNCHANGED <<facade, installation, offers, quotes, presented>>
  BY DEF StartOffer, RevisionsTell, techVars, offerVars
<1>2. \A kind : Technical(kind)' = Technical(kind)
  BY <1>1 DEF Technical, FacadeTechnical, InstallationTechnical
<1>3. OfferCallTrue(call)'
  BY <1>1, <1>2 DEF OfferCallTrue
<1>4. \A c \in calls' : c \in calls \/ OfferCallTrue(c)'
  BY <1>3 DEF StartOffer
<1> QED BY <1>1, <1>4, OffersStay

\* A draft reads the technical calculation as it is.
LEMMA DraftReads ==
  ASSUME WorkTrue, OffersTrue, NEW kind \in Kinds, NEW handler \in {"offer_create", "offer_reprice"},
         NEW k \in {0} \cup DOMAIN offers[kind], StartDraft(kind, handler, k)
  PROVE  OffersTrue'
<1> DEFINE tech == Technical(kind)
           previous == IF k = 0 THEN {} ELSE offers[kind][k].lines
           call == [handler |-> handler, kind |-> kind, row |-> k, caller |-> NewCaller,
                    technical |-> tech, reading |-> FALSE, last |-> 0, previous |-> previous]
<1>1. StartOffer(call)
  BY DEF StartDraft
<1>2. tech.revision \in Nat
  <2>1. facade.revision \in Nat /\ installation.revision \in Nat
    BY DEF WorkTrue, FacadeTrue, IsFacade, IsInstallation
  <2> QED BY <2>1 DEF Technical, FacadeTechnical, InstallationTechnical
<1>3. k \in 0..Len(offers[kind])
  <2>1. Len(offers[kind]) \in Nat /\ DOMAIN offers[kind] = 1..Len(offers[kind])
    BY RowsLength DEF OffersTrue, RowsTrue
  <2> QED BY <2>1
<1>4. OnBasis(tech.revision, tech.lines, tech)
  BY <1>2 DEF OnBasis
<1> HIDE DEF tech, previous
<1>5. /\ call.handler = handler /\ call.kind = kind /\ call.row = k /\ call.technical = tech
      /\ IsDraft(call)
  BY DEF IsDraft, DraftHandlers
<1> HIDE DEF call
<1>6. OfferCallTrue(call)
  BY <1>3, <1>4, <1>5 DEF OfferCallTrue, tech
<1> QED BY <1>1, <1>6, OfferStarts

LEMMA OfferStartsTrue ==
  ASSUME WorkTrue, OffersTrue, NEW kind \in Kinds, OfferStart(kind)
  PROVE  OffersTrue'
<1>1. \A k \in Current(kind) : k \in DOMAIN offers[kind]
  BY DEF Current, Rows
<1>2. CASE StartCreateFromTechnical(kind)
  BY <1>1, <1>2, DraftReads DEF StartCreateFromTechnical
<1>3. CASE StartReprice(kind)
  BY <1>1, <1>3, DraftReads DEF StartReprice
<1>4. ASSUME NEW offer, NEW amount, StartPatch(kind, offer, amount)
      PROVE  OffersTrue'
  <2>1. PICK k \in Current(kind) : \E lines :
          StartOffer([handler |-> "offer_patch", kind |-> kind, row |-> k, deleting |-> FALSE,
                      amount |-> amount, deleted |-> {}, lines |-> lines])
    BY <1>4 DEF StartPatch
  <2>2. PICK lines :
          StartOffer([handler |-> "offer_patch", kind |-> kind, row |-> k, deleting |-> FALSE,
                      amount |-> amount, deleted |-> {}, lines |-> lines])
    BY <2>1
  <2> DEFINE call == [handler |-> "offer_patch", kind |-> kind, row |-> k, deleting |-> FALSE,
                      amount |-> amount, deleted |-> {}, lines |-> lines]
  <2>3. IsPatch(call)
    BY DEF IsPatch
  <2>4. OfferCallTrue(call)
    BY <1>1, <2>3 DEF OfferCallTrue
  <2> HIDE DEF call
  <2>5. StartOffer(call)
    BY <2>2 DEF call
  <2> QED BY <2>4, <2>5, OfferStarts
<1>5. CASE StartSubmit(kind)
  <2>1. PICK k \in Current(kind) :
          StartOffer([handler |-> "offer_submit", kind |-> kind, row |-> k])
    BY <1>5 DEF StartSubmit
  <2>2. OfferCallTrue([handler |-> "offer_submit", kind |-> kind, row |-> k])
    BY <1>1 DEF OfferCallTrue
  <2> QED BY <2>1, <2>2, OfferStarts
<1>6. CASE StartApprove(kind)
  <2>1. PICK k \in Current(kind) :
          /\ offers[kind][k].status = "READY_FOR_APPROVAL"
          /\ StartOffer([handler |-> "offer_approve", kind |-> kind, row |-> k,
                         amount |-> offers[kind][k].proposed])
    BY <1>6 DEF StartApprove
  <2>2. Seen(kind, k, offers[kind][k].proposed, presented)
    BY <1>1, <2>1 DEF OffersTrue, ReadySeen
  <2>3. OfferCallTrue([handler |-> "offer_approve", kind |-> kind, row |-> k,
                       amount |-> offers[kind][k].proposed])
    BY <1>1, <2>2 DEF OfferCallTrue
  <2> QED BY <2>1, <2>3, OfferStarts
<1> QED BY <1>2, <1>3, <1>4, <1>5, <1>6 DEF OfferStart

LEMMA EndOfferTrue ==
  ASSUME WorkTrue, OffersTrue, NEW call \in calls, call.kind \in Kinds, NEW rows,
         EndOffer(call, rows), RowsTrue(call.kind, rows, presented, Technical(call.kind)),
         Len(rows) >= Len(offers[call.kind])
  PROVE  OffersTrue'
<1> DEFINE kind == call.kind
<1>1. RevisionsTell /\ UNCHANGED <<facade, installation, quotes>>
  BY DEF EndOffer, RevisionsTell, techVars
<1>2. \A j : Technical(j)' = Technical(j)
  BY <1>1 DEF Technical, FacadeTechnical, InstallationTechnical
<1>3. presented \subseteq presented'
  BY DEF EndOffer
<1>4. /\ offers' \in [Kinds -> {offers'[j] : j \in Kinds}]
      /\ offers'[kind] = rows
      /\ \A j \in Kinds : j # kind => offers'[j] = offers[j]
  <2>1. offers' = [offers EXCEPT ![kind] = rows] /\ DOMAIN offers = Kinds
    BY DEF EndOffer, OffersTrue
  <2>2. offers \in [Kinds -> {offers[j] : j \in Kinds}]
    BY DEF OffersTrue
  <2> HIDE DEF kind
  <2> QED BY <2>1, <2>2 DEF kind
<1>5. ASSUME NEW j \in Kinds
      PROVE  /\ RowsTrue(j, offers'[j], presented', Technical(j)')
             /\ ReadySeen(j, offers'[j], presented')
             /\ Rowed(offers[j]) /\ Rowed(offers'[j]) /\ Len(offers'[j]) >= Len(offers[j])
  <2>1. /\ RowsTrue(j, offers[j], presented, Technical(j))
        /\ ReadySeen(j, offers[j], presented) /\ Rowed(offers[j]) /\ Len(offers[j]) \in Nat
    BY RowsLength DEF OffersTrue, RowsTrue
  <2>2. CASE j = kind
    <3>1. RowsTrue(j, rows, presented', Technical(j))
      BY <2>2, <1>3, RowsLater DEF Later
    <3>2. ReadySeen(j, rows, presented')
      BY <2>2 DEF EndOffer, ReadySeen, PresentedIn, Seen
    <3> QED BY <2>1, <2>2, <3>1, <3>2, <1>2, <1>4 DEF RowsTrue
  <2>3. CASE j # kind
    <3>1. RowsTrue(j, offers[j], presented', Technical(j))
      BY <2>1, <1>3, RowsLater DEF Later
    <3>2. ReadySeen(j, offers[j], presented')
      BY <2>1, <1>3 DEF ReadySeen, Seen
    <3>3. offers'[j] = offers[j]
      BY <2>3, <1>4
    <3>4. Len(offers[j]) >= Len(offers[j])
      BY <2>1
    <3> QED BY <2>1, <3>1, <3>2, <3>3, <3>4, <1>2
  <2> QED BY <2>2, <2>3
<1>6. \A c \in calls' : OfferCallTrue(c)'
  <2>1. ASSUME NEW c \in calls PROVE OfferCallTrue(c)'
    BY <1>1, <1>3, <1>5, CallsLater DEF OffersTrue
  <2> QED BY <2>1 DEF EndOffer
<1>7. /\ quotes' \in Seq({quotes'[q] : q \in DOMAIN quotes'})
      /\ \A q \in DOMAIN quotes' : \A c \in quotes'[q].components :
           Seen(c.kind, c.row, c.amount, presented')
  BY <1>1, <1>3 DEF OffersTrue, Seen
<1> QED BY <1>4, <1>5, <1>6, <1>7 DEF OffersTrue

LEMMA OfferTransactsTrue ==
  ASSUME WorkTrue, OffersTrue, NEW call \in calls, OfferTransaction(call)
  PROVE  OffersTrue'
<1>1. CASE NewDraft(call) \/ Patch(call) \/ Submit(call) \/ Approve(call)
  <2>1. PICK rows : /\ EndOffer(call, rows)
                    /\ RowsTrue(call.kind, rows, presented, Technical(call.kind))
                    /\ Len(rows) >= Len(offers[call.kind])
    BY <1>1, TransactionLeaves
  <2>2. call.kind \in Kinds
    BY <1>1 DEF OffersTrue, OfferCallTrue, OfferHandlers, DraftHandlers, NewDraft, Patch, Submit,
                Approve
  <2> QED BY <2>1, <2>2, EndOfferTrue
<1>2. CASE FailOffer(call)
  <2>1. RevisionsTell /\ UNCHANGED <<offers, quotes, presented>> /\ calls' \subseteq calls
    BY <1>2 DEF FailOffer, RevisionsTell, techVars, offerVars
  <2> QED BY <2>1, OffersStay
<1>3. CASE PatchDelete(call)
  <2>1. PICK lines, c :
          /\ c = [call EXCEPT !.deleting = TRUE, !.deleted = lines]
          /\ calls' = (calls \ {call}) \cup {c}
          /\ RevisionsTell /\ UNCHANGED <<facade, installation, offers, quotes, presented>>
    BY <1>3 DEF PatchDelete, RevisionsTell, techVars, offerVars
  <2>2. /\ call.handler = "offer_patch" /\ IsPatch(call) /\ call.kind \in Kinds
        /\ call.row \in DOMAIN offers[call.kind]
    BY <1>3 DEF PatchDelete, OffersTrue, OfferCallTrue, OfferHandlers
  <2>3. c = [handler |-> "offer_patch", kind |-> call.kind, row |-> call.row, deleting |-> TRUE,
             amount |-> call.amount, deleted |-> lines, lines |-> call.lines]
    BY <2>1, <2>2 DEF IsPatch
  <2>4. IsPatch(c) /\ c.handler = "offer_patch" /\ c.kind = call.kind /\ c.row = call.row
    BY <2>3 DEF IsPatch
  <2>5. OfferCallTrue(c)'
    BY <2>1, <2>2, <2>4 DEF OfferCallTrue
  <2>6. \A d \in calls' : d \in calls \/ OfferCallTrue(d)'
    BY <2>1, <2>5
  <2> QED BY <2>1, <2>6, OffersStay
<1>4. CASE DraftRead(call)
  <2>1. PICK n, c :
          /\ n = LastRevision(offers[call.kind])
          /\ c = [call EXCEPT !.reading = TRUE, !.last = n]
          /\ calls' = (calls \ {call}) \cup {c}
          /\ RevisionsTell /\ UNCHANGED <<facade, installation, offers, quotes, presented>>
    BY <1>4 DEF DraftRead, RevisionsTell, techVars, offerVars
  <2>2. /\ call.handler \in DraftHandlers /\ IsDraft(call) /\ call.kind \in Kinds
        /\ call.row \in 0..Len(offers[call.kind])
        /\ OnBasis(call.technical.revision, call.technical.lines, Technical(call.kind))
    BY <1>4 DEF DraftRead, DraftHandlers, OffersTrue, OfferCallTrue, OfferHandlers
  <2>3. n \in Nat
    BY <2>1, <2>2, LastRevisionIsLast DEF OffersTrue, RowsTrue
  <2>4. c = [handler |-> call.handler, kind |-> call.kind, row |-> call.row,
             caller |-> call.caller, technical |-> call.technical, reading |-> TRUE, last |-> n,
             previous |-> call.previous]
    BY <2>1, <2>2 DEF IsDraft
  <2>5. /\ c.handler = call.handler /\ c.kind = call.kind /\ c.row = call.row
        /\ c.technical = call.technical /\ IsDraft(c)
    BY <2>2, <2>3, <2>4 DEF IsDraft
  <2>6. Technical(call.kind)' = Technical(call.kind)
    BY <2>1 DEF Technical, FacadeTechnical, InstallationTechnical
  <2>7. OfferCallTrue(c)'
    BY <2>1, <2>2, <2>5, <2>6 DEF OfferCallTrue, DraftHandlers
  <2>8. \A d \in calls' : d \in calls \/ OfferCallTrue(d)'
    BY <2>1, <2>7
  <2> QED BY <2>1, <2>8, OffersStay
<1> QED BY <1>1, <1>2, <1>3, <1>4 DEF OfferTransaction

\* Marking a row as quoted leaves all that is known of it.
LEMMA QuotedRowTrue ==
  ASSUME NEW kind, NEW rows, NEW shown, NEW tech, RowsTrue(kind, rows, shown, tech),
         ReadySeen(kind, rows, shown), NEW k \in DOMAIN rows
  PROVE  LET new == [rows EXCEPT ![k].quoteCreated = TRUE]
         IN  RowsTrue(kind, new, shown, tech) /\ ReadySeen(kind, new, shown) /\ Len(new) = Len(rows)
<1> DEFINE old == rows[k]
           row == [old EXCEPT !.quoteCreated = TRUE]
           new == [rows EXCEPT ![k] = row]
<1>1. Rowed(rows) /\ IsRow(old)
  BY DEF RowsTrue, Rowed
<1>2. row = [status |-> old.status, revision |-> old.revision, isCurrent |-> old.isCurrent,
             technicalRevision |-> old.technicalRevision,
             technicalSnapshot |-> old.technicalSnapshot, lines |-> old.lines,
             proposed |-> old.proposed, approved |-> old.approved, quoteCreated |-> TRUE]
  <2>1. row = [old EXCEPT !.quoteCreated = TRUE]
    OBVIOUS
  <2> HIDE DEF row, old
  <2> QED BY <1>1, <2>1 DEF IsRow
<1>3. [rows EXCEPT ![k].quoteCreated = TRUE] = new
  BY <1>1 DEF Rowed
<1>4. old.revision \in Nat /\ old.isCurrent \in BOOLEAN
  BY <1>1 DEF IsRow
<1> HIDE DEF row
<1>5. /\ IsRow(row) /\ row.revision = old.revision /\ row.status = old.status
      /\ row.isCurrent = old.isCurrent
      /\ row.approved = old.approved /\ row.proposed = old.proposed
      /\ row.technicalRevision = old.technicalRevision
      /\ row.technicalSnapshot = old.technicalSnapshot
  BY <1>2, <1>4 DEF IsRow
<1>6. /\ Rowed(new) /\ Len(new) = Len(rows) /\ DOMAIN new = DOMAIN rows
      /\ new[k] = row
      /\ \A j \in DOMAIN rows : j # k => new[j] = rows[j]
  BY <1>1, <1>5, RowWritten
<1> HIDE DEF new
<1>7. \A j \in DOMAIN rows :
        /\ new[j].revision = rows[j].revision /\ new[j].status = rows[j].status
        /\ new[j].isCurrent = rows[j].isCurrent
        /\ new[j].approved = rows[j].approved /\ new[j].proposed = rows[j].proposed
        /\ new[j].technicalRevision = rows[j].technicalRevision
        /\ new[j].technicalSnapshot = rows[j].technicalSnapshot
  BY <1>5, <1>6
<1>8. Newest(new)
  <2>1. Len(rows) \in Nat /\ DOMAIN rows = 1..Len(rows)
    BY <1>1, RowsLength
  <2>2. rows # <<>> /\ Len(rows) \in DOMAIN rows
    BY <2>1
  <2> QED BY <2>2, <1>6, <1>7 DEF Newest, RowsTrue
<1>9. RowsTrue(kind, new, shown, tech) /\ ReadySeen(kind, new, shown)
  BY <1>6, <1>7, <1>8 DEF RowsTrue, Distinct, HasLast, Numbers, ApprovedSeen, ReadySeen, RowsOnBasis
<1> QED BY <1>3, <1>6, <1>9

\* A component takes the amount an approver saw, and if the caller does not
\* consent to stale ones it is on the technical lines of now.
LEMMA ComponentSeen ==
  ASSUME OffersTrue, NEW kind \in Kinds, NEW k \in DOMAIN offers[kind], Includeable(kind, k)
  PROVE  /\ Component(kind, k).kind = kind /\ Component(kind, k).row = k
         /\ Seen(kind, k, Component(kind, k).amount, presented)
<1>1. Component(kind, k) = [kind |-> kind, row |-> k, amount |-> offers[kind][k].approved,
                            technicalRevision |-> offers[kind][k].technicalRevision]
  BY DEF Component, FacadeComponent, InstallationComponent, Kinds
<1>2. Seen(kind, k, offers[kind][k].approved, presented)
  BY DEF OffersTrue, RowsTrue, ApprovedSeen, Includeable
<1> QED BY <1>1, <1>2

\* What a step that makes a quote does.
Quoted(acknowledged) ==
  \E pick, extras :
    /\ extras \subseteq Kinds
    /\ \A kind \in extras : pick[kind] \in DOMAIN offers[kind] /\ Includeable(kind, pick[kind])
    /\ acknowledged \/ \A kind \in extras : ~ Stale(kind, pick[kind])
    /\ quotes' = Append(quotes, [acknowledged |-> acknowledged,
                                 components |-> {Component(kind, pick[kind]) : kind \in extras}])
    /\ offers' = [kind \in Kinds |->
         IF kind \in extras THEN [offers[kind] EXCEPT ![pick[kind]].quoteCreated = TRUE]
                            ELSE offers[kind]]
    /\ UNCHANGED <<techVars, calls, scenario, catalog, presented>>

LEMMA AttachIsQuoted ==
  ASSUME NEW acknowledged, AttachToQuote(acknowledged)
  PROVE  Quoted(acknowledged)
<1> DEFINE present == {kind \in Kinds : Current(kind) # {}}
<1>1. PICK pick \in [present -> 1..MaxRows] :
        LET extras == ResolveLead(pick)
        IN  /\ \A kind \in DOMAIN pick : pick[kind] \in Current(kind)
            /\ acknowledged \/ \A kind \in extras : ~ Stale(kind, pick[kind])
            /\ quotes' = Append(quotes, [acknowledged |-> acknowledged,
                                         components |-> {Component(kind, pick[kind]) : kind \in extras}])
            /\ offers' = [kind \in Kinds |->
                 IF kind \in extras THEN [offers[kind] EXCEPT ![pick[kind]].quoteCreated = TRUE]
                                    ELSE offers[kind]]
  BY DEF AttachToQuote
<1>2. DOMAIN pick = present
  OBVIOUS
<1>3. ResolveLead(pick) \subseteq Kinds
  BY <1>2 DEF ResolveLead
<1>4. \A kind \in ResolveLead(pick) :
        pick[kind] \in DOMAIN offers[kind] /\ Includeable(kind, pick[kind])
  BY <1>1 DEF ResolveLead, Current, Rows
<1> QED BY <1>1, <1>3, <1>4 DEF Quoted, AttachToQuote

-----------------------------------------------------------------------------
\* A step of the commercial side leaves the technical one alone; its calls are
\* not calls of the technical handlers.
LEMMA OfferStepsAside ==
  ASSUME NEW kind \in Kinds, OfferStart(kind)
  PROVE  /\ UNCHANGED techVars
         /\ \A call \in calls' : call \in calls \/ call.handler \in OfferHandlers
<1>1. ASSUME NEW call, StartOffer(call), call.handler \in OfferHandlers
      PROVE  /\ UNCHANGED techVars
             /\ \A c \in calls' : c \in calls \/ c.handler \in OfferHandlers
  BY <1>1 DEF StartOffer
<1>2. ASSUME NEW handler \in {"offer_create", "offer_reprice"}, NEW k, StartDraft(kind, handler, k)
      PROVE  \E call : StartOffer(call) /\ call.handler \in OfferHandlers
  <2> DEFINE call == [handler |-> handler, kind |-> kind, row |-> k, caller |-> NewCaller,
                      technical |-> Technical(kind), reading |-> FALSE, last |-> 0,
                      previous |-> IF k = 0 THEN {} ELSE offers[kind][k].lines]
  <2>1. StartOffer(call)
    BY <1>2 DEF StartDraft
  <2>2. call.handler = handler
    OBVIOUS
  <2> HIDE DEF call
  <2> QED BY <2>1, <2>2 DEF OfferHandlers
<1>3. CASE StartCreateFromTechnical(kind)
  BY <1>1, <1>2, <1>3 DEF StartCreateFromTechnical
<1>4. CASE StartReprice(kind)
  BY <1>1, <1>2, <1>4 DEF StartReprice
<1>5. ASSUME NEW offer, NEW amount, StartPatch(kind, offer, amount)
      PROVE  \E call : StartOffer(call) /\ call.handler \in OfferHandlers
  <2>1. PICK k, lines :
          StartOffer([handler |-> "offer_patch", kind |-> kind, row |-> k, deleting |-> FALSE,
                      amount |-> amount, deleted |-> {}, lines |-> lines])
    BY <1>5 DEF StartPatch
  <2> QED BY <2>1 DEF OfferHandlers
<1>6. CASE StartSubmit(kind)
  BY <1>1, <1>6 DEF StartSubmit, OfferHandlers
<1>7. CASE StartApprove(kind)
  BY <1>1, <1>7 DEF StartApprove, OfferHandlers
<1> QED BY <1>1, <1>3, <1>4, <1>5, <1>6, <1>7 DEF OfferStart

LEMMA OfferTransactionsAside ==
  ASSUME OffersTrue, NEW call \in calls, OfferTransaction(call)
  PROVE  /\ UNCHANGED techVars
         /\ \A c \in calls' : c \in calls \/ c.handler \in OfferHandlers
<1>1. CASE \E rows : EndOffer(call, rows)
  BY <1>1 DEF EndOffer
<1>2. CASE FailOffer(call)
  BY <1>2 DEF FailOffer
<1>3. CASE PatchDelete(call)
  <2> DEFINE c == [call EXCEPT !.deleting = TRUE,
                               !.deleted = offers[call.kind][call.row].lines]
  <2>1. calls' = (calls \ {call}) \cup {c} /\ UNCHANGED techVars
    BY <1>3 DEF PatchDelete
  <2>2. IsPatch(call)
    BY <1>3 DEF PatchDelete, OffersTrue, OfferCallTrue
  <2>3. c.handler = "offer_patch"
    BY <2>2 DEF IsPatch
  <2> HIDE DEF c
  <2> QED BY <2>1, <2>3 DEF OfferHandlers
<1>4. CASE DraftRead(call)
  <2> DEFINE c == [call EXCEPT !.reading = TRUE, !.last = LastRevision(offers[call.kind])]
  <2>1. calls' = (calls \ {call}) \cup {c} /\ UNCHANGED techVars
    BY <1>4 DEF DraftRead
  <2>2. IsDraft(call) /\ call.handler \in OfferHandlers
    BY <1>4 DEF DraftRead, DraftHandlers, OffersTrue, OfferCallTrue, OfferHandlers
  <2>3. c.handler = call.handler
    BY <2>2 DEF IsDraft
  <2> HIDE DEF c
  <2> QED BY <2>1, <2>2, <2>3
<1> QED BY <1>1, <1>2, <1>3, <1>4 DEF OfferTransaction, NewDraft, Patch, Submit, Approve

LEMMA WorkTrueStep ==
  ASSUME WorkTrue, OffersTrue, [Next]_allVars
  PROVE  WorkTrue' /\ RevisionsTell
<1>1. CASE UNCHANGED allVars
  BY <1>1, NothingWritten DEF allVars
<1>2. CASE TechNext
  <2>1. CASE \E e \in Engineers : TechStart(e) /\ UNCHANGED scenario
    BY <2>1, WorkStarts
  <2>2. CASE \E call \in calls : TechTransaction(call)
    BY <2>2, WorkTransacts
  <2>3. CASE (\E t \in tasks : CloseTask(t)) \/ CloseLead
    BY <2>3, NothingWritten DEF CloseTask, CloseLead
  <2> QED BY <1>2, <2>1, <2>2, <2>3 DEF TechNext
<1>3. CASE UNCHANGED techVars /\ \A call \in calls' : call \in calls \/ call.handler \in OfferHandlers
  <2>1. ASSUME NEW call, call.handler \in OfferHandlers PROVE TechCallTrue(call, facade)
    BY <2>1 DEF OfferHandlers, TechCallTrue
  <2> QED BY <1>3, <2>1, NothingWritten DEF techVars
<1>4. CASE \E kind \in Kinds : OfferStart(kind)
  BY <1>3, <1>4, OfferStepsAside
<1>5. CASE \E call \in calls : OfferTransaction(call)
  BY <1>3, <1>5, OfferTransactionsAside
<1>6. CASE ChangeCatalog \/ \E acknowledged \in BOOLEAN : AttachToQuote(acknowledged)
  BY <1>3, <1>6 DEF ChangeCatalog, AttachToQuote
<1> QED BY <1>1, <1>2, <1>4, <1>5, <1>6 DEF Next

\* Nor are the calls of the technical side calls of the commercial handlers.
LEMMA WorkStepsAside ==
  ASSUME TechNext
  PROVE  \A c \in calls' : c \in calls \/ c.handler \notin OfferHandlers
<1>1. ASSUME NEW call, Start(call), call.handler \notin OfferHandlers
      PROVE  \A c \in calls' : c \in calls \/ c.handler \notin OfferHandlers
  BY <1>1 DEF Start
<1>2. ASSUME NEW e \in Engineers, TechStart(e)
      PROVE  \E call : Start(call) /\ call.handler \notin OfferHandlers
  <2>1. CASE StartAssign(e)
    BY <2>1 DEF StartAssign, OfferHandlers
  <2>2. CASE \E handler \in {"return", "complete", "finish"} : StartClose(e, handler)
    <3>1. PICK handler \in {"return", "complete", "finish"} :
                 \E k \in Active : Start([handler |-> handler, row |-> k])
      BY <2>2 DEF StartClose
    <3>2. PICK k : Start([handler |-> handler, row |-> k])
      BY <3>1
    <3>3. [handler |-> handler, row |-> k].handler \notin OfferHandlers
      BY DEF OfferHandlers
    <3> QED BY <3>2, <3>3
  <2>3. CASE \E needs \in Needs, areas \in {{x} : x \in Areas} \cup {Areas} :
               StartQualification(e, needs, areas)
    <3>1. PICK needs, areas : Start([handler |-> "qualification", needs |-> needs, areas |-> areas])
      BY <2>3 DEF StartQualification
    <3> QED BY <3>1 DEF OfferHandlers
  <2>4. CASE \E config \in Configs, area \in Areas : StartCalculate(e, config, area)
    <3>1. PICK config, area : Start([handler |-> "calculate", seen |-> facade, config |-> config,
                                     area |-> area])
      BY <2>4 DEF StartCalculate
    <3> QED BY <3>1 DEF OfferHandlers
  <2>5. CASE \E edited \in SUBSET DOMAIN facade.items, extras \in SUBSET DOMAIN facade.extras,
               quantity \in Quantities \cup {0} :
               StartFacadeDraft(e, edited, extras, quantity)
    <3>1. PICK lines, own : Start([handler |-> "facade_draft", batch |-> facade.batch,
                                   extras |-> own, lines |-> lines])
      BY <2>5 DEF StartFacadeDraft
    <3> QED BY <3>1 DEF OfferHandlers
  <2>6. CASE StartAddItem(e)
    BY <2>6 DEF StartAddItem, OfferHandlers
  <2>7. CASE \E works \in SUBSET Works, quantity \in Quantities \cup Areas :
               StartInstallationDraft(e, works, quantity)
    <3>1. PICK works, quantity :
            Start([handler |-> "installation_draft", created |-> installation.revision = 0,
                   items |-> BuildItems(works, quantity)])
      BY <2>7 DEF StartInstallationDraft
    <3> QED BY <3>1 DEF OfferHandlers
  <2>8. CASE StartInstallationReady(e)
    BY <2>8 DEF StartInstallationReady, OfferHandlers
  <2> QED BY <1>2, <2>1, <2>2, <2>3, <2>4, <2>5, <2>6, <2>7, <2>8 DEF TechStart
<1>3. CASE \E e \in Engineers : TechStart(e) /\ UNCHANGED scenario
  BY <1>1, <1>2, <1>3
<1>4. CASE \E call \in calls : TechTransaction(call)
  BY <1>4 DEF TechTransaction, Assign, Close, UpdateQualification, Calculate, FacadeDraft, AddItem,
              InstallationDraft, InstallationReady, End
<1>5. CASE (\E t \in tasks : CloseTask(t)) \/ CloseLead
  BY <1>5 DEF CloseTask, CloseLead
<1> QED BY <1>3, <1>4, <1>5 DEF TechNext

\* A quote takes in components that were seen, and marks their rows.
LEMMA AttachTrue ==
  ASSUME WorkTrue, OffersTrue, NEW acknowledged, Quoted(acknowledged)
  PROVE  OffersTrue'
<1>1. PICK pick, extras :
        /\ extras \subseteq Kinds
        /\ \A kind \in extras : pick[kind] \in DOMAIN offers[kind] /\ Includeable(kind, pick[kind])
        /\ quotes' = Append(quotes, [acknowledged |-> acknowledged,
                                     components |-> {Component(kind, pick[kind]) : kind \in extras}])
        /\ offers' = [kind \in Kinds |->
             IF kind \in extras THEN [offers[kind] EXCEPT ![pick[kind]].quoteCreated = TRUE]
                                ELSE offers[kind]]
        /\ UNCHANGED <<techVars, calls, scenario, catalog, presented>>
  BY DEF Quoted
<1> DEFINE made == {Component(kind, pick[kind]) : kind \in extras}
           quote == [acknowledged |-> acknowledged, components |-> made]
<1>2. RevisionsTell /\ UNCHANGED <<facade, installation>>
  BY <1>1 DEF RevisionsTell, techVars
<1>3. \A j : Technical(j)' = Technical(j)
  BY <1>2 DEF Technical, FacadeTechnical, InstallationTechnical
<1>4. ASSUME NEW j \in Kinds
      PROVE  /\ RowsTrue(j, offers'[j], presented', Technical(j)')
             /\ ReadySeen(j, offers'[j], presented')
             /\ Rowed(offers[j]) /\ Rowed(offers'[j]) /\ Len(offers'[j]) >= Len(offers[j])
  <2>1. /\ RowsTrue(j, offers[j], presented, Technical(j))
        /\ ReadySeen(j, offers[j], presented) /\ Rowed(offers[j]) /\ Len(offers[j]) \in Nat
    BY RowsLength DEF OffersTrue, RowsTrue
  <2>2. CASE j \in extras
    <3>1. pick[j] \in DOMAIN offers[j]
      BY <2>2, <1>1
    <3>2. offers'[j] = [offers[j] EXCEPT ![pick[j]].quoteCreated = TRUE]
      BY <2>2, <1>1
    <3>3. /\ RowsTrue(j, offers'[j], presented, Technical(j)) /\ ReadySeen(j, offers'[j], presented)
          /\ Len(offers'[j]) = Len(offers[j])
      BY <2>1, <3>1, <3>2, QuotedRowTrue
    <3> QED BY <2>1, <3>3, <1>1, <1>3 DEF RowsTrue
  <2>3. CASE j \notin extras
    <3>1. offers'[j] = offers[j]
      BY <2>3, <1>1
    <3> QED BY <2>1, <3>1, <1>1, <1>3
  <2> QED BY <2>2, <2>3
<1>5. \A c \in calls' : OfferCallTrue(c)'
  <2>1. ASSUME NEW c \in calls PROVE OfferCallTrue(c)'
    BY <1>1, <1>2, <1>4, CallsLater DEF OffersTrue
  <2> QED BY <2>1, <1>1
<1>6. \A c \in made : Seen(c.kind, c.row, c.amount, presented)
  <2>1. ASSUME NEW kind \in extras
        PROVE  LET c == Component(kind, pick[kind]) IN Seen(c.kind, c.row, c.amount, presented)
    <3>1. /\ Component(kind, pick[kind]).kind = kind /\ Component(kind, pick[kind]).row = pick[kind]
          /\ Seen(kind, pick[kind], Component(kind, pick[kind]).amount, presented)
      BY <1>1, ComponentSeen
    <3> QED BY <3>1
  <2> QED BY <2>1
<1>7. /\ quotes' \in Seq({quotes'[q] : q \in DOMAIN quotes'})
      /\ \A q \in DOMAIN quotes' : \/ q \in DOMAIN quotes /\ quotes'[q] = quotes[q]
                                   \/ quotes'[q] = quote
  <2> DEFINE S == {quotes[q] : q \in DOMAIN quotes} \cup {quote}
  <2>1. quotes \in Seq(S) /\ quote \in S
    BY DEF OffersTrue
  <2>2. quotes' = Append(quotes, quote)
    BY <1>1
  <2> HIDE DEF S, quote
  <2>3. quotes' \in Seq(S)
    BY <2>1, <2>2
  <2>4. quotes' \in Seq({quotes'[q] : q \in DOMAIN quotes'})
    BY <2>3, SeqOfOwn
  <2>5. \A q \in DOMAIN quotes' : (q \in DOMAIN quotes /\ quotes'[q] = quotes[q]) \/ quotes'[q] = quote
    BY <2>1, <2>2
  <2> QED BY <2>4, <2>5
<1>8. \A q \in DOMAIN quotes' : \A c \in quotes'[q].components :
        Seen(c.kind, c.row, c.amount, presented')
  <2>1. quote.components = made
    OBVIOUS
  <2> HIDE DEF quote, made
  <2> QED BY <2>1, <1>1, <1>6, <1>7 DEF OffersTrue
<1>9. offers' \in [Kinds -> {offers'[kind] : kind \in Kinds}]
  <2>1. DOMAIN offers' = Kinds /\ offers' = [kind \in Kinds |-> offers'[kind]]
    BY <1>1
  <2> QED BY <2>1
<1> QED BY <1>4, <1>5, <1>7, <1>8, <1>9 DEF OffersTrue

-----------------------------------------------------------------------------
\* The invariant of both sides.
EngineeringTrue == WorkTrue /\ OffersTrue

LEMMA EngineeringTrueInit == OfferInit => EngineeringTrue
<1> SUFFICES ASSUME OfferInit PROVE OffersTrue
  BY WorkTrueInit DEF OfferInit, EngineeringTrue
<1>1. \A kind \in Kinds : offers[kind] = <<>>
  BY DEF OfferInit
<1>2. offers \in [Kinds -> {offers[kind] : kind \in Kinds}]
  BY DEF OfferInit
<1>3. \A kind \in Kinds : RowsTrue(kind, <<>>, presented, Technical(kind))
                          /\ ReadySeen(kind, <<>>, presented)
  BY DEF RowsTrue, Rowed, Newest, Distinct, HasLast, Numbers, ApprovedSeen, RowsOnBasis, ReadySeen
<1>4. quotes = <<>> /\ calls = {}
  BY DEF OfferInit, TechInit
<1> QED BY <1>1, <1>2, <1>3, <1>4 DEF OffersTrue

LEMMA EngineeringTrueStep ==
  ASSUME EngineeringTrue, [Next]_allVars
  PROVE  EngineeringTrue' /\ RevisionsTell
<1>1. WorkTrue /\ OffersTrue
  BY DEF EngineeringTrue
<1>2. WorkTrue' /\ RevisionsTell
  BY <1>1, WorkTrueStep
<1> SUFFICES OffersTrue'
  BY <1>2 DEF EngineeringTrue
<1>3. CASE UNCHANGED allVars
  BY <1>1, <1>2, <1>3, OffersStay DEF allVars
<1>4. CASE TechNext /\ UNCHANGED offerVars
  <2>1. \A c \in calls' : c \in calls \/ OfferCallTrue(c)'
    BY <1>4, WorkStepsAside DEF OfferCallTrue, OfferHandlers
  <2> QED BY <1>1, <1>2, <1>4, <2>1, OffersStay DEF offerVars
<1>5. CASE \E kind \in Kinds : OfferStart(kind)
  BY <1>1, <1>5, OfferStartsTrue
<1>6. CASE \E call \in calls : OfferTransaction(call)
  BY <1>1, <1>6, OfferTransactsTrue
<1>7. CASE ChangeCatalog
  BY <1>1, <1>2, <1>7, OffersStay DEF ChangeCatalog
<1>8. CASE \E acknowledged \in BOOLEAN : AttachToQuote(acknowledged)
  BY <1>1, <1>8, AttachIsQuoted, AttachTrue
<1> QED BY <1>3, <1>4, <1>5, <1>6, <1>7, <1>8 DEF Next

LEMMA EngineeringStaysTrue == Spec => []EngineeringTrue
<1>1. EngineeringTrue /\ [Next]_allVars => EngineeringTrue'
  BY EngineeringTrueStep
<1> QED BY <1>1, EngineeringTrueInit, PTL DEF Spec

-----------------------------------------------------------------------------
\* Handing the lead over closes the former assignment, and a late return or
\* finish of the former engineer touches his own row only: of all assignments
\* of a lead none but the newest is active (LeadEngineeringService).
THEOREM OneEngineer == Spec => []ActiveIsLatest
<1>1. EngineeringTrue => ActiveIsLatest
  BY DEF EngineeringTrue, WorkTrue, AssignmentsTrue
<1> QED BY <1>1, EngineeringStaysTrue, PTL

\* However calculations and corrections that read different states are saved
\* one over the other, the lines of the facade are those of the stored norm set
\* and follow the stored area, but for the engineer's own quantities
\* (FacadeCalculationService.calculate and saveDraft).
THEOREM NormsAreFollowed == Spec => []QuantitiesFollowNorms
<1>1. EngineeringTrue => QuantitiesFollowNorms
  <2> SUFFICES ASSUME EngineeringTrue PROVE QuantitiesFollowNorms
    OBVIOUS
  <2>1. FacadeTrue(facade)
    BY DEF EngineeringTrue, WorkTrue
  <2>2. ASSUME facade.status = "CALCULATED"
        PROVE  /\ DOMAIN facade.items = DOMAIN Norms[facade.config]
               /\ \A m \in DOMAIN facade.items :
                    LineFollows(facade.items[m], facade.area, Norms[facade.config][m])
    BY <2>1, <2>2 DEF FacadeTrue, LinesFollow
  <2> QED BY <2>1, <2>2 DEF QuantitiesFollowNorms, LineFollows, FacadeTrue
<1> QED BY <1>1, EngineeringStaysTrue, PTL

\* Both technical calculations implement TechnicalBasis: nothing an offer is
\* priced from changes without a new revision.
THEOREM RevisionsTellChange == Spec => RevisionTellsChange
<1>1. OfferInit => FacadeBasis!Init /\ InstallationBasis!Init
  <2>1. WorkTrue => facade.revision \in Nat /\ installation.revision \in Nat
    BY DEF WorkTrue, FacadeTrue, IsFacade, IsInstallation
  <2> QED BY <2>1, WorkTrueInit DEF OfferInit, FacadeBasis!Init, InstallationBasis!Init
<1>2. EngineeringTrue /\ [Next]_allVars =>
        /\ [FacadeBasis!Revise]_<<facade.revision, facade>>
        /\ [InstallationBasis!Revise]_<<installation.revision, installation>>
  BY EngineeringTrueStep DEF RevisionsTell, FacadeBasis!Revise, InstallationBasis!Revise
<1> QED BY <1>1, <1>2, EngineeringStaysTrue, PTL
        DEF Spec, RevisionTellsChange, FacadeBasis!Spec, InstallationBasis!Spec


\* Overlapping callers may leave two rows current, but the newest draft is among
\* them, and a revision names one row although drafts count on from a revision
\* they read earlier and every write by id counts its own up
\* (persistDraftFromTechnical and the writes of patch, submit and approve).
THEOREM NewestStaysCurrent == Spec => []NewestIsCurrent
<1>1. EngineeringTrue => NewestIsCurrent
  BY DEF EngineeringTrue, OffersTrue, RowsTrue, Newest, Distinct, NewestIsCurrent, Rows
<1> QED BY <1>1, EngineeringStaysTrue, PTL

\* Whatever overtakes an approval, the amount that ends up in an approved row
\* and in a quote has stood in an offer that awaited approval (approve writes
\* the price it read).
THEOREM NothingUnseenApproved == Spec => []ApprovedWasPresented
<1>1. EngineeringTrue => ApprovedWasPresented
  BY DEF EngineeringTrue, OffersTrue, RowsTrue, ApprovedSeen, Seen, ApprovedWasPresented, Rows
<1> QED BY <1>1, EngineeringStaysTrue, PTL

\* A component that is not stale by its revision number was priced from the
\* lines as they are: that is what the comparison in QuoteCompositionService
\* relies on, and it needs the promise of both technical calculations.
THEOREM QuotesAreOnBasis == Spec => QuotedOnCurrentBasis
<1> DEFINE Based(c) == offers[c.kind][c.row].technicalSnapshot = Technical(c.kind).lines
<1>1. ASSUME EngineeringTrue, [Next]_allVars
      PROVE  [\A q \in DOMAIN quotes' \ DOMAIN quotes : \A c \in quotes'[q].components :
                ~ quotes'[q].acknowledged =>
                  offers[c.kind][c.row].technicalSnapshot = Technical(c.kind).lines]_quotes
  <2>1. CASE UNCHANGED quotes
    BY <2>1
  <2>2. CASE \E acknowledged \in BOOLEAN : AttachToQuote(acknowledged)
    <3>1. PICK acknowledged \in BOOLEAN : Quoted(acknowledged)
      BY <2>2, AttachIsQuoted
    <3>2. PICK pick, extras :
            /\ extras \subseteq Kinds
            /\ \A kind \in extras : pick[kind] \in DOMAIN offers[kind] /\ Includeable(kind, pick[kind])
            /\ acknowledged \/ \A kind \in extras : ~ Stale(kind, pick[kind])
            /\ quotes' = Append(quotes, [acknowledged |-> acknowledged,
                                         components |-> {Component(kind, pick[kind]) : kind \in extras}])
      BY <3>1 DEF Quoted
    <3> DEFINE made == {Component(kind, pick[kind]) : kind \in extras}
               quote == [acknowledged |-> acknowledged, components |-> made]
    <3>3. ASSUME ~ acknowledged, NEW kind \in extras
          PROVE  Based(Component(kind, pick[kind]))
      <4>1. ~ Stale(kind, pick[kind]) /\ kind \in Kinds /\ pick[kind] \in DOMAIN offers[kind]
            /\ Includeable(kind, pick[kind])
        BY <3>2, <3>3
      <4>2. Component(kind, pick[kind]).kind = kind /\ Component(kind, pick[kind]).row = pick[kind]
        BY <1>1, <4>1, ComponentSeen DEF EngineeringTrue
      <4>3. OnBasis(offers[kind][pick[kind]].technicalRevision,
                    offers[kind][pick[kind]].technicalSnapshot, Technical(kind))
        BY <1>1, <4>1 DEF EngineeringTrue, OffersTrue, RowsTrue, RowsOnBasis
      <4>4. offers[kind][pick[kind]].technicalSnapshot = Technical(kind).lines
        BY <4>1, <4>3 DEF OnBasis, Stale
      <4> QED BY <4>2, <4>4
    <3>4. ~ acknowledged => \A c \in made : Based(c)
      BY <3>3
    <3>5. \A q \in DOMAIN quotes' \ DOMAIN quotes : quotes'[q] = quote
      <4> DEFINE S == {quotes[q] : q \in DOMAIN quotes} \cup {quote}
      <4>1. quotes \in Seq(S) /\ quote \in S
        BY <1>1 DEF EngineeringTrue, OffersTrue
      <4>2. quotes' = Append(quotes, quote)
        BY <3>2
      <4> HIDE DEF S, quote
      <4> QED BY <4>1, <4>2
    <3>6. quote.components = made /\ quote.acknowledged = acknowledged
      OBVIOUS
    <3> HIDE DEF quote, made, Based
    <3>7. \A q \in DOMAIN quotes' \ DOMAIN quotes : \A c \in quotes'[q].components :
            ~ quotes'[q].acknowledged => Based(c)
      BY <3>4, <3>5, <3>6
    <3> QED BY <3>7 DEF Based
  <2>3. CASE TechNext /\ UNCHANGED offerVars
    BY <2>1, <2>3 DEF offerVars
  <2>4. CASE \E kind \in Kinds : OfferStart(kind)
    <3>1. UNCHANGED quotes
      BY <2>4 DEF OfferStart, StartCreateFromTechnical, StartReprice, StartDraft, StartPatch,
                  StartSubmit, StartApprove, StartOffer, offerVars
    <3> QED BY <2>1, <3>1
  <2>5. CASE \E call \in calls : OfferTransaction(call)
    <3>1. UNCHANGED quotes
      BY <2>5 DEF OfferTransaction, DraftRead, NewDraft, PatchDelete, Patch, Submit, Approve, FailOffer,
                  EndOffer, offerVars
    <3> QED BY <2>1, <3>1
  <2>6. CASE ChangeCatalog \/ UNCHANGED allVars
    BY <2>1, <2>6 DEF ChangeCatalog, allVars
  <2> QED BY <1>1, <2>2, <2>3, <2>4, <2>5, <2>6 DEF Next
<1> QED BY <1>1, EngineeringStaysTrue, PTL DEF Spec, QuotedOnCurrentBasis
=============================================================================
