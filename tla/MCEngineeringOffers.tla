------------------------- MODULE MCEngineeringOffers -------------------------
(***************************************************************************)
(* Instances of EngineeringOffers for TLC.  Each scenario lets a group of   *)
(* handlers interleave: the hand-over of the lead between two engineers;    *)
(* each technical calculation; each commercial one with its technical side  *)
(* moving on underneath.                                                    *)
(***************************************************************************)
EXTENDS EngineeringOffers

CONSTANTS e1, e2              \* engineers
CONSTANTS board, profile      \* materials: board is a reference line
CONSTANTS base, dry, special  \* configurations
CONSTANTS mounting            \* a type of work
CONSTANTS offer1              \* an offer or rate

NormTable ==
  (base :> (board :> 1 @@ profile :> 1))
  @@ (dry :> (board :> 1 @@ profile :> 2))
  @@ (special :> [x \in {} |-> 0])

HandOver == {"assign", "return", "complete", "finish", "task"}
FacadeWork == {"calculate", "facade_draft", "item"}
InstallationWork == {"installation_draft", "installation_ready", "qualification", "return"}
Drafting == {"offer_create", "offer_reprice", "offer_patch"}
Approving == {"offer_create", "offer_patch", "offer_submit", "offer_approve"}
Pricing == Drafting \cup Approving

Scenario(handlers, needs, facadeBound, installationBound) ==
  [handlers |-> handlers, needs |-> needs, facade |-> facadeBound, installation |-> installationBound]

AllScenarios ==
  {Scenario(HandOver, {"facade"}, 0, 0),
   Scenario(FacadeWork, {"facade"}, 3, 0),
   Scenario(InstallationWork, {"installation"}, 0, 3),
   Scenario(Drafting \cup {"item"}, {"facade"}, 2, 0),
   Scenario(Approving \cup {"item", "quote"}, {"facade"}, 2, 0),
   Scenario(Pricing \cup {"catalog"}, {"facade"}, 1, 0),
   Scenario(Approving \cup {"installation_draft", "installation_ready", "quote"},
            {"installation"}, 0, 3)}

PatchScenario == {Scenario(Pricing, {"facade"}, 1, 0)}

EngineerSymmetry == Permutations(Engineers)
=============================================================================
