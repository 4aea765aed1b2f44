----------------------------- MODULE MCFlagSync -----------------------------
(***************************************************************************)
(* Small instances of FlagSync for TLC.                                    *)
(***************************************************************************)
EXTENDS FlagSync

A == [content |-> "a", type |-> ""]
AStatic == [content |-> "a", type |-> "static"]
ARegex == [content |-> "a", type |-> "regex"]
B == [content |-> "b", type |-> "regex"]

\* No flag, a flag listed twice (its type left out once), a change of type
\* only, and a list that shares a flag with the others.
MCSpecLists == {<<>>, <<A, AStatic>>, <<ARegex>>, <<B, A>>}

MCCalls == Calls
=============================================================================
