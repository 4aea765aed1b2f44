----------------------------- MODULE MCHintSync -----------------------------
(***************************************************************************)
(* Small instances of HintSync for TLC.                                    *)
(***************************************************************************)
EXTENDS HintSync

Hint(key, pre, anonymize) == [key |-> key, pre |-> pre, anonymize |-> anonymize]

\* "a" opens "b"; "b" opens "a"; two hints of one value, one of them gated; a
\* cycle of three.
Forward == <<Hint("a", {}, Unset), Hint("b", {0}, "preview")>>
Backward == <<Hint("a", {1}, Unset), Hint("b", {}, Unset)>>
Twins == <<Hint("b", {}, Unset), Hint("c", {0}, "true"), Hint("b", {1}, Unset)>>
OneLess == <<Hint("b", {}, Unset)>>
Cyclic == <<Hint("a", {1}, Unset), Hint("b", {2}, Unset), Hint("c", {0}, Unset)>>

MCSpecLists == {Forward, Backward, Twins, OneLess}
MCSomeInvalid == MCSpecLists \cup {Cyclic}

MCCalls == Calls

\* validateHintPrereqs accepts just the lists whose hints can all be unlocked,
\* whatever four hints require of each other.
Graphs == [1..4 -> SUBSET (0..3)]
ASSUME ValidatesUnlockable ==
    \A pre \in Graphs : LET list == [i \in 1..4 |-> Hint("a", pre[i], Unset)] IN
        Valid(list) <=> Unlockable(list)
=============================================================================
