--------------------------- MODULE TechnicalBasis ---------------------------
(***************************************************************************)
(* What a commercial offer may rely on in the technical calculation it is   *)
(* made from: the revision number tells whether anything it was priced from *)
(* has changed.  Facade and installation calculations both promise this;    *)
(* EngineeringWork implements it twice.                                     *)
(***************************************************************************)
EXTENDS Naturals

VARIABLES
  revision,   \* 0 while there is no calculation
  basis       \* status, parameters and lines of the calculation

Init == revision \in Nat

\* Whatever changes, the revision says so, and it never goes back or repeats.
Revise == revision' = revision + 1

Spec == Init /\ [][Revise]_<<revision, basis>>
=============================================================================
