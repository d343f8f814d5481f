---------------------------- MODULE MCSerialCutover ----------------------------
(***************************************************************************)
(* TLC instances of SerialCutover.                                         *)
(***************************************************************************)
EXTENDS SerialCutover, TLC

CoordinatorSymmetry == Permutations(Coordinators)

\* The bound of the instance: two coordinators at once while nothing has died, and one
\* at a time, restarted in any mode, from the first death on.
OneAtATimeAfterDeaths ==
    \/ faults = 0
    \/ \E c \in Coordinators : \A d \in Coordinators \ {c} : pc[d] = "off"

=============================================================================
