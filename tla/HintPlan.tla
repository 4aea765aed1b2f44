------------------------------ MODULE HintPlan ------------------------------
(***************************************************************************)
(* The pure part of the hints' reconciliation: the functions of            *)
(* internal/controller/challenge/flagshints.go that validate a list of     *)
(* hints, match it with the hints of CTFd and compare the two.             *)
(*                                                                         *)
(* A list is a sequence of records [key, pre, anonymize].  key is the      *)
(* hint's hintKey, the value of its content, title and cost together; pre  *)
(* holds the indices of its prerequisites, which count from 0.  The hints  *)
(* of CTFd are a function from IDs to records [key, requires, anonymize].  *)
(***************************************************************************)
EXTENDS Integers, Sequences, FiniteSets

Unset == "unset"        \* an anonymize left out
NoId == 0               \* idByIndex of a hint that must be created

\* What validation is for: the prerequisites are hints of the list, and no set
\* of hints in which every hint waits for another.
Unlockable(list) ==
    /\ \A i \in DOMAIN list : \A p \in list[i].pre : p + 1 \in DOMAIN list
    /\ \A S \in (SUBSET DOMAIN list) \ {{}} :
          \E i \in S : \A p \in list[i].pre : p + 1 \notin S

\* detectHintCycle keeps a colour for every hint, and the hints whose visits
\* are not over, the innermost first.
Searches(list) ==
    [color: [DOMAIN list -> {"white", "gray", "black"}], path: Seq(DOMAIN list)]
Unsearched(list) == [color |-> [i \in DOMAIN list |-> "white"], path |-> <<>>]

Enter(search, i) ==
    [color |-> [search.color EXCEPT ![i] = "gray"], path |-> <<i>> \o search.path]
Leave(search) ==
    [color |-> [search.color EXCEPT ![Head(search.path)] = "black"], path |-> Tail(search.path)]

\* What a visit has still to look into: prerequisites that are not black.  The
\* loop around all visits has the white hints.
Ahead(list, search) ==
    IF search.path = <<>> THEN {i \in DOMAIN list : search.color[i] = "white"}
    ELSE {p + 1 : p \in list[Head(search.path)].pre}
            \ {i \in DOMAIN list : search.color[i] = "black"}

\* One step of the search.  It stays where it is when it is over, and when it
\* comes to a prerequisite that is gray, which is the error.
Advance(list) == [search \in Searches(list) |->
    LET ahead == Ahead(list, search)
        i == CHOOSE j \in ahead : TRUE
    IN IF ahead # {} /\ search.color[i] = "white" THEN Enter(search, i)
       ELSE IF ahead = {} /\ search.path # <<>> THEN Leave(search)
       ELSE search]

\* detectHintCycle: every hint is entered and left once at most, and all are
\* black in the end unless there is an error.
Searched(list) ==
    LET after[n \in Nat] == IF n = 0 THEN Unsearched(list) ELSE Advance(list)[after[n - 1]]
    IN after[2 * Len(list)]

\* validateHintPrereqs: prerequisites are other hints of the list, in no cycle.
Valid(list) ==
    /\ \A i \in DOMAIN list : \A p \in list[i].pre : p + 1 \in DOMAIN list \ {i}
    /\ LET color == Searched(list).color IN \A i \in DOMAIN list : color[i] = "black"

\* Mutant of IdByIndex: hints of one value all go to the first in CTFd.
IdOfFirstEqual(list, hints) ==
    LET Equal(i) == {id \in DOMAIN hints : hints[id].key = list[i].key}
    IN [i \in DOMAIN list |-> IF Equal(i) = {} THEN NoId
                              ELSE CHOOSE id \in Equal(i) : \A o \in Equal(i) : id <= o]

\* planHints: the n-th hint of a value goes to the n-th hint in CTFd with that
\* value, in the order of the list and in the order of the IDs, in which CTFd
\* lists them.
IdByIndex(list, hints) ==
    LET Earlier(i) == {j \in DOMAIN list : j < i /\ list[j].key = list[i].key}
        Equal(i) == {id \in DOMAIN hints : hints[id].key = list[i].key}
        Matches(i) == {id \in Equal(i) :
                        Cardinality({o \in Equal(i) : o < id}) = Cardinality(Earlier(i))}
    IN [i \in DOMAIN list |-> IF Matches(i) = {} THEN NoId
                              ELSE CHOOSE id \in Matches(i) : TRUE]

Used(idByIndex) == {idByIndex[i] : i \in DOMAIN idByIndex}
Deletes(idByIndex, hints) == DOMAIN hints \ Used(idByIndex)

\* Mutant of MapPrereqs: the indices are sent as they are.
IndicesAsIds(list, idByIndex, i) == list[i].pre

\* mapPrereqs: the prerequisites of hint i as CTFd IDs.
MapPrereqs(list, idByIndex, i) == {idByIndex[p + 1] : p \in list[i].pre}

\* prereqsOf and Requirements.Anonymize of a hint that was listed, if it was.
PrereqsOf(hints, id) == IF id \in DOMAIN hints THEN hints[id].requires ELSE {}
AnonymizeOf(hints, id) == IF id \in DOMAIN hints THEN hints[id].anonymize ELSE Unset

\* A hint is as required when its prerequisites are, and its anonymize if the
\* list sets one that has an effect.
AsRequired(list, hints, idByIndex, i) ==
    /\ MapPrereqs(list, idByIndex, i) = PrereqsOf(hints, idByIndex[i])
    /\ list[i].pre # {} /\ list[i].anonymize # Unset
        => AnonymizeOf(hints, idByIndex[i]) = list[i].anonymize

HintsUpToDate(list, hints) ==
    LET idByIndex == IdByIndex(list, hints) IN
    /\ Valid(list)
    /\ Deletes(idByIndex, hints) = {}
    /\ \A i \in DOMAIN list : idByIndex[i] # NoId /\ AsRequired(list, hints, idByIndex, i)
=============================================================================
