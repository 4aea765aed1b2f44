----------------------------- MODULE TargetBag -----------------------------
(***************************************************************************)
(* What the flags, and the hints, of a challenge promise its players while *)
(* the provider reconciles them.  They are a bag of values, and each step  *)
(* brings it one element closer to the list aimed at: nothing is added     *)
(* beyond the list, and nothing is removed before everything on the list   *)
(* is there.  So an edit never leaves the challenge without a flag or a    *)
(* hint that both its old and its new version have.  Administrators may do *)
(* anything to the bag, and until the provider has looked at it again they *)
(* may have undone its reasons.                                            *)
(***************************************************************************)
EXTENDS Naturals

CONSTANT Values     \* the values of flags, or of hints

VARIABLES
    wanted,     \* how many of each value the spec lists
    target,     \* the list the provider is working on
    have,       \* how many of each value the challenge has
    disturbed   \* an administrator has acted since the provider last looked

vars == <<wanted, target, have, disturbed>>
Counts == [Values -> Nat]

Init ==
    /\ wanted \in Counts
    /\ target \in Counts
    /\ have = [v \in Values |-> 0]
    /\ disturbed = FALSE

\* The user edits the spec.
Edit == wanted' \in Counts /\ UNCHANGED <<target, have, disturbed>>

\* The provider reads the spec.
Aim == target' = wanted /\ UNCHANGED <<wanted, have, disturbed>>

\* An administrator does anything to the bag; the provider looks at it.
Interfere == disturbed' = TRUE /\ have' \in Counts /\ UNCHANGED <<wanted, target>>
Look == disturbed' = FALSE /\ UNCHANGED <<wanted, target, have>>

Add(v) ==
    /\ have[v] < target[v] \/ disturbed
    /\ have' = [have EXCEPT ![v] = @ + 1]
    /\ UNCHANGED <<wanted, target, disturbed>>

Remove(v) ==
    /\ \/ have[v] > target[v] /\ \A other \in Values : have[other] >= target[other]
       \/ disturbed
    /\ have' = [have EXCEPT ![v] = @ - 1]
    /\ UNCHANGED <<wanted, target, disturbed>>

Next == Edit \/ Aim \/ Interfere \/ Look \/ \E v \in Values : Add(v) \/ Remove(v)

Spec == Init /\ [][Next]_vars
=============================================================================
