--------------------------- MODULE EngineeringWork ---------------------------
(***************************************************************************)
(* The technical side of one lead: the assignment of an engineer            *)
(* (LeadEngineeringService), the calculation of the facade subsystem        *)
(* (FacadeCalculationService) and of the installation works                 *)
(* (InstallationCalculationService).                                        *)
(*                                                                          *)
(* A handler first reads - access, the lead, the calculation as it is - and *)
(* then writes in a transaction that trusts what was read.  The reads are a *)
(* Start action that leaves a call, with all it has seen, in calls; the     *)
(* transaction takes it out.  expectedRevision is optional and compared     *)
(* with the revision read, so a call it refuses is one that never starts.   *)
(* Notifications and history rows are read by nobody and left out.          *)
(***************************************************************************)
EXTENDS Integers, Sequences, FiniteSets, TLC

CONSTANTS
  Engineers,        \* active users with the role ENGINEER
  Configs,          \* facade system configurations
  BaseConfig,       \* the historical one
  Norms,            \* Norms[c]: quantity per square metre of each material,
                    \* a function with no material if c cannot be calculated
  Works,            \* types of installation work, all measured in square metres
  Areas,            \* areas a qualification or an engineer may name
  Quantities,       \* quantities an engineer may enter
  Needs,            \* what the client ordered: sets of {"facade", "installation"}
  MaxAssignments,   \* bound: assignments of the lead
  MaxCalls,         \* bound: calls under way
  Scenarios         \* bound: what is explored together; handlers that run, what
                    \* the client ordered, revisions of each calculation

ASSUME EngineeringAssumption ==
  /\ MaxAssignments \in Nat
  /\ MaxCalls \in Nat
  /\ Areas \subseteq Nat \ {0}
  /\ Quantities \subseteq Nat
  /\ \A n \in Needs : n \subseteq {"facade", "installation"}
  /\ \A s \in Scenarios : s.needs \in Needs /\ s.facade \in Nat /\ s.installation \in Nat

VARIABLES
  lead,          \* status and qualification of the lead
  assignments,   \* LeadEngineeringAssignment rows, oldest first
  tasks,         \* CALCULATION tasks of the lead
  facade,        \* the FacadeSubsystemCalculation with its items
  installation,  \* the InstallationCalculation with its items
  calls,         \* calls between their reads and their transaction
  scenario       \* the bounds of this behaviour

techVars == <<lead, assignments, tasks, facade, installation>>
vars == <<lead, assignments, tasks, facade, installation, calls, scenario>>

-----------------------------------------------------------------------------
NoLines == [x \in {} |-> 0]

\* A calculation that is not there has revision 0.
NoFacade == [status |-> "NONE", revision |-> 0, config |-> "none", normSet |-> "none",
             area |-> 0, batch |-> 0, items |-> NoLines, extras |-> NoLines]
NoInstallation == [status |-> "NONE", revision |-> 0, items |-> NoLines]

\* multiplyAreaByNorm, with the engineer's own quantity where there is one.
NormLine(area, norm) == [calculated |-> area * norm, final |-> area * norm, manual |-> FALSE]

\* A calculation made before the base configuration became historical.
Legacy == [NoFacade EXCEPT !.status = "CALCULATED", !.revision = 1, !.config = BaseConfig,
             !.normSet = BaseConfig, !.area = 1, !.batch = 1,
             !.items = [m \in DOMAIN Norms[BaseConfig] |-> NormLine(1, Norms[BaseConfig][m])]]

TechInit ==
  /\ scenario \in Scenarios
  /\ lead = [status |-> "QUALIFIED", needs |-> scenario.needs, areas |-> {}]
  /\ \/ assignments = <<>> /\ tasks = {}
     \/ \E e \in Engineers :
          /\ assignments = <<[engineer |-> e, status |-> "ACTIVE", primary |-> FALSE]>>
          /\ tasks = {[engineer |-> e, open |-> TRUE]}
  /\ facade \in {f \in {NoFacade, Legacy} : f.revision <= scenario.facade}
  /\ installation = NoInstallation
  /\ calls = {}

Start(call) ==
  /\ call.handler \in scenario.handlers
  /\ Cardinality(calls) < MaxCalls
  /\ calls' = calls \cup {call}
  /\ UNCHANGED techVars

End(call) == calls' = calls \ {call}

-----------------------------------------------------------------------------
\* The assignment.  activeLeadId is set exactly while a row is ACTIVE.
Active == {k \in DOMAIN assignments : assignments[k].status = "ACTIVE"}
IsActive(e) == \E k \in Active : assignments[k].engineer = e

Assignable == lead.status \in {"NEW", "IN_PROGRESS", "QUALIFIED"}
leadNeedsEngineer == lead.needs # {}

StartAssign(e) ==
  /\ Assignable
  /\ leadNeedsEngineer
  /\ Start([handler |-> "assign", engineer |-> e])

\* Faulty variant: the engineer at work is not superseded.
KeepRows(rows) == rows

SupersedeRows(rows) ==
  [k \in DOMAIN rows |->
     IF rows[k].status = "ACTIVE" THEN [rows[k] EXCEPT !.status = "SUPERSEDED"] ELSE rows[k]]

\* ensureEngineeringTask: an open task of the engineer is taken up again.
EnsureTask(e) ==
  IF \E t \in tasks : t.engineer = e /\ t.open THEN tasks
  ELSE tasks \cup {[engineer |-> e, open |-> TRUE]}

\* One at a time: the transaction holds the advisory lock of the lead.
Assign(call) ==
  LET e == call.engineer
  IN  /\ call.handler = "assign"
      /\ Len(assignments) < MaxAssignments
      /\ IF IsActive(e) THEN UNCHANGED <<assignments, tasks>>
         ELSE /\ assignments' = Append(SupersedeRows(assignments),
                                       [engineer |-> e, status |-> "ACTIVE", primary |-> FALSE])
              /\ tasks' = EnsureTask(e)
      /\ UNCHANGED <<lead, facade, installation, scenario>>
      /\ End(call)

\* returnToManager, complete and finish: requireActiveAssignment, then the row
\* is written by id, whatever has become of it.
StartClose(e, handler) ==
  \E k \in Active :
    /\ assignments[k].engineer = e
    /\ Start([handler |-> handler, row |-> k])

returnToManager(row) == [row EXCEPT !.status = "RETURNED"]
complete(row) == [row EXCEPT !.primary = TRUE]
finish(row) == [row EXCEPT !.status = "COMPLETED"]

Close(call) ==
  /\ assignments' = [assignments EXCEPT ![call.row] =
       CASE call.handler = "return"   -> returnToManager(@)
         [] call.handler = "complete" -> complete(@)
         [] call.handler = "finish"   -> finish(@)]
  /\ UNCHANGED <<lead, tasks, facade, installation, scenario>>
  /\ End(call)

\* updateTechnicalQualification, as far as the calculations read it.
StartQualification(e, needs, areas) ==
  /\ IsActive(e)
  /\ Start([handler |-> "qualification", needs |-> needs, areas |-> areas])

UpdateQualification(call) ==
  /\ lead' = [lead EXCEPT !.needs = call.needs, !.areas = call.areas]
  /\ UNCHANGED <<assignments, tasks, facade, installation, scenario>>
  /\ End(call)

\* TasksService.complete by the engineer, and a lead that is lost.
CloseTask(t) ==
  /\ "task" \in scenario.handlers
  /\ t.open
  /\ tasks' = (tasks \ {t}) \cup {[t EXCEPT !.open = FALSE]}
  /\ UNCHANGED <<lead, assignments, facade, installation, calls, scenario>>

CloseLead ==
  /\ "task" \in scenario.handlers
  /\ lead.status = "QUALIFIED"
  /\ lead' = [lead EXCEPT !.status = "LOST"]
  /\ UNCHANGED <<assignments, tasks, facade, installation, calls, scenario>>

-----------------------------------------------------------------------------
\* The facade subsystem.
canEdit(e, need) == IsActive(e) /\ need \in lead.needs

ManualItems(f) == {m \in DOMAIN f.items : f.items[m].manual}

\* calculate: corrections made by hand and another configuration ask for a
\* confirmation, which the caller gives or the call ends here.
StartCalculate(e, config, area) ==
  /\ canEdit(e, "facade")
  /\ facade.revision < scenario.facade
  /\ config = BaseConfig => facade.config = BaseConfig
  /\ Start([handler |-> "calculate", seen |-> facade, config |-> config, area |-> area])

SameNormSet(call) == call.seen.normSet = call.config

\* Items by the norms; what the call saw corrected by hand stays corrected if
\* the norm set is the same.
NormItems(call) ==
  LET norms == Norms[call.config]
      kept  == IF SameNormSet(call) THEN ManualItems(call.seen) ELSE {}
  IN  [m \in DOMAIN norms |->
         IF m \in kept
         THEN [calculated |-> call.area * norms[m],
               final |-> call.seen.items[m].final, manual |-> TRUE]
         ELSE NormLine(call.area, norms[m])]

\* The row is updated by id, or created if none was seen; items other than
\* extra ones are replaced; extra ones go with the norm set.
Calculated(f, call) ==
  [status |-> "CALCULATED", revision |-> f.revision + 1,
   config |-> call.config, normSet |-> call.config, area |-> call.area,
   batch |-> f.revision + 1, items |-> NormItems(call),
   extras |-> IF SameNormSet(call) THEN f.extras ELSE NoLines]

\* saveUnsupported: a configuration that cannot be calculated has no norm set.
Unsupported(f, call) ==
  [f EXCEPT !.status = "UNSUPPORTED", !.revision = @ + 1, !.config = call.config,
            !.normSet = "none", !.area = call.area, !.items = NoLines]

\* leadId is unique: of two calls that saw no calculation one creates it.
Creatable(call, f) == call.seen.revision = 0 => f.revision = 0

Calculate(call) ==
  /\ call.handler = "calculate"
  /\ facade' = IF ~ Creatable(call, facade) THEN facade
               ELSE IF DOMAIN Norms[call.config] = {} THEN Unsupported(facade, call)
               ELSE Calculated(facade, call)
  /\ UNCHANGED <<lead, assignments, tasks, installation, scenario>>
  /\ End(call)

\* saveDraft: the quantities of some items, or the notes only.
StartFacadeDraft(e, edited, extras, quantity) ==
  /\ IsActive(e)
  /\ facade.revision \in 1..(scenario.facade - 1)
  /\ Start([handler |-> "facade_draft", batch |-> facade.batch,
            extras |-> [x \in extras |-> quantity],
            lines |-> [m \in edited |->
              [facade.items[m] EXCEPT !.final  = quantity,
                                      !.manual = quantity # facade.items[m].calculated]]])

\* Faulty variant: items are found by their material.
ItemsOfMaterials(call, f) == DOMAIN call.lines \subseteq DOMAIN f.items

\* Items are written by id: an item that was recalculated since is gone, and
\* the transaction fails with it.
ItemsAreThere(call, f) ==
  /\ DOMAIN call.lines = {} \/ (f.batch = call.batch /\ DOMAIN call.lines \subseteq DOMAIN f.items)
  /\ DOMAIN call.extras \subseteq DOMAIN f.extras

Corrected(items, lines) ==
  [m \in DOMAIN items |-> IF m \in DOMAIN lines THEN lines[m] ELSE items[m]]

FacadeDraft(call) ==
  /\ call.handler = "facade_draft"
  /\ facade' = IF ItemsAreThere(call, facade)
               THEN [facade EXCEPT !.items = Corrected(@, call.lines),
                                   !.extras = call.extras @@ @, !.revision = @ + 1]
               ELSE facade
  /\ UNCHANGED <<lead, assignments, tasks, installation, scenario>>
  /\ End(call)

StartAddItem(e) ==
  /\ IsActive(e)
  /\ facade.revision \in 1..(scenario.facade - 1)
  /\ Start([handler |-> "item"])

\* Faulty variant: the revision stays.
ExtraOnly(f) == [f EXCEPT !.extras = @ @@ (f.revision + 1 :> 1)]

\* Bound: a line of its own comes with the quantity 1, under the number of the
\* revision that brought it.
WithExtra(f) == [f EXCEPT !.extras = @ @@ (f.revision + 1 :> 1), !.revision = @ + 1]

AddItem(call) ==
  /\ call.handler = "item"
  /\ facade' = WithExtra(facade)
  /\ UNCHANGED <<lead, assignments, tasks, installation, scenario>>
  /\ End(call)

-----------------------------------------------------------------------------
\* The installation works.

\* suggestArea: the area is confirmed if the qualification names just one.
ConfirmedArea == IF Cardinality(lead.areas) = 1 THEN lead.areas ELSE {}

\* One line for each work; without a quantity of the engineer's own it is the
\* confirmed area.
BuildItems(works, quantity) == [w \in works |-> quantity]

\* saveDraft replaces all items.
StartInstallationDraft(e, works, quantity) ==
  /\ canEdit(e, "installation")
  /\ installation.revision < scenario.installation
  /\ quantity \in Quantities \cup ConfirmedArea
  /\ Start([handler |-> "installation_draft", created |-> installation.revision = 0,
            items |-> BuildItems(works, quantity)])

InstallationDraft(call) ==
  /\ call.handler = "installation_draft"
  /\ installation' =
       IF call.created
       THEN IF installation.revision = 0
            THEN [status |-> "DRAFT", revision |-> 1, items |-> call.items]
            ELSE installation
       ELSE [installation EXCEPT !.revision = @ + 1, !.items = call.items]
  /\ UNCHANGED <<lead, assignments, tasks, facade, scenario>>
  /\ End(call)

StartInstallationReady(e) ==
  /\ canEdit(e, "installation")
  /\ installation.revision \in 1..(scenario.installation - 1)
  /\ DOMAIN installation.items # {}
  /\ Start([handler |-> "installation_ready"])

InstallationReady(call) ==
  /\ call.handler = "installation_ready"
  /\ installation' = [installation EXCEPT !.status = "READY", !.revision = @ + 1]
  /\ UNCHANGED <<lead, assignments, tasks, facade, scenario>>
  /\ End(call)

-----------------------------------------------------------------------------
TechStart(e) ==
  \/ StartAssign(e)
  \/ \E handler \in {"return", "complete", "finish"} : StartClose(e, handler)
  \/ \E needs \in Needs, areas \in {{x} : x \in Areas} \cup {Areas} :
       StartQualification(e, needs, areas)
  \/ \E config \in Configs, area \in Areas : StartCalculate(e, config, area)
  \/ \E edited \in SUBSET DOMAIN facade.items, extras \in SUBSET DOMAIN facade.extras,
        quantity \in Quantities \cup {0} :
       StartFacadeDraft(e, edited, extras, quantity)
  \/ StartAddItem(e)
  \/ \E works \in SUBSET Works, quantity \in Quantities \cup Areas :
       StartInstallationDraft(e, works, quantity)
  \/ StartInstallationReady(e)

TechTransaction(call) ==
  \/ Assign(call)
  \/ call.handler \in {"return", "complete", "finish"} /\ Close(call)
  \/ call.handler = "qualification" /\ UpdateQualification(call)
  \/ Calculate(call)
  \/ FacadeDraft(call)
  \/ AddItem(call)
  \/ InstallationDraft(call)
  \/ InstallationReady(call)

TechNext ==
  \/ \E e \in Engineers : TechStart(e) /\ UNCHANGED scenario
  \/ \E call \in calls : TechTransaction(call)
  \/ \E t \in tasks : CloseTask(t)
  \/ CloseLead

TechSpec == TechInit /\ [][TechNext]_vars

-----------------------------------------------------------------------------
\* Properties.

\* One engineer at a time: handing the lead over closes the former assignment,
\* and a late return or finish of the former engineer does not touch the new one.
ActiveIsLatest == \A k \in Active : k = Len(assignments)

\* Every quantity that is not marked as the engineer's own is the area times
\* the norm of the stored configuration, and there is one line for every
\* material of its norm set and no other: also when calculations and
\* corrections that saw different states are saved one over the other.
QuantitiesFollowNorms ==
  /\ facade.status = "CALCULATED" =>
       /\ DOMAIN facade.items = DOMAIN Norms[facade.config]
       /\ \A m \in DOMAIN facade.items :
            LET line == facade.items[m]
            IN  /\ line.calculated = facade.area * Norms[facade.config][m]
                /\ line.manual \/ line.final = line.calculated
  /\ facade.status = "UNSUPPORTED" => facade.items = NoLines

\* The two calculations keep the promise of TechnicalBasis: nothing an offer is
\* priced from changes without a new revision.
FacadeBasis == INSTANCE TechnicalBasis WITH revision <- facade.revision, basis <- facade
InstallationBasis ==
  INSTANCE TechnicalBasis WITH revision <- installation.revision, basis <- installation

RevisionTellsChange == FacadeBasis!Spec /\ InstallationBasis!Spec
=============================================================================
