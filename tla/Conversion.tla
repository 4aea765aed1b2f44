----------------------------- MODULE Conversion -----------------------------
(***************************************************************************)
(* The pure part of the challenge controller: postParams, patchParams and  *)
(* isUpToDate of internal/controller/challenge/conversion.go, over the     *)
(* fields of spec.forProvider (ChallengeParameters), and what CTFd makes   *)
(* of the payloads.  A body is a function from fields to values; a field   *)
(* that is left out has the value Nil.  The state and the requirements are *)
(* apart: the state has a treatment of its own, and the requirements are a *)
(* list of IDs that comes with a call of its own.                          *)
(***************************************************************************)
EXTENDS Integers, Sequences, FiniteSets

CONSTANT Nil        \* a pointer that is not set

Required == {"name", "category", "description"}
Optional == {"initial", "decay", "minimum", "maxAttempts", "nextID", "function",
             "connectionInfo", "attribution"}
Fields == Required \cup Optional \cup {"type", "value"}

Zero == "0"
Standard == "standard"      \* a type; any other derives the value from a formula
ByFormula == "by formula"

OrElse(pointer, default) == IF pointer = Nil THEN default ELSE pointer

TypeOrDefault(type) == IF type = "" THEN Standard ELSE type

PostParams(p) == [p EXCEPT !.type = TypeOrDefault(@), !.value = OrElse(@, Zero)]

\* Mutant of PatchParams: a pointer that is not set is sent as null.
PatchParamsOfAll(p) == [f \in Fields \ {"type"} |-> p[f]]

\* A PATCH leaves out the type, and every pointer that is not set.
PatchParams(p) == [f \in {g \in Fields \ {"type"} : p[g] # Nil} |-> p[f]]

\* CTFd fills in what a POST leaves out, keeps what a PATCH leaves out, and
\* computes the value of a challenge that is not standard.
CTFdDefault(f) == IF f = "maxAttempts" THEN Zero ELSE Nil

Valued(ch) == IF ch.type = Standard THEN ch ELSE [ch EXCEPT !.value = ByFormula]
Filled(params) == Valued([f \in Fields |-> OrElse(params[f], CTFdDefault(f))])
Overlaid(ch, params) ==
    Valued([f \in Fields |-> IF f \in DOMAIN params THEN params[f] ELSE ch[f]])

Occurrences(v, list) == Cardinality({i \in DOMAIN list : list[i] = v})
SameIntSet(a, b) ==
    /\ Len(a) = Len(b)
    /\ \A i \in DOMAIN a : Occurrences(a[i], a) = Occurrences(a[i], b)

\* Mutant of EqPtr: a pointer that is not set asks for a field that is not set.
EqPtrStrict(want, got) == want = got

EqPtr(want, got) == want # Nil => want = got

\* isUpToDate, but for the state and the requirements.
UpToDate(p, ch) ==
    /\ \A f \in Required : ch[f] = p[f]
    /\ ch.type = TypeOrDefault(p.type)
    /\ TypeOrDefault(p.type) = Standard => EqPtr(p.value, ch.value)
    /\ \A f \in Optional : EqPtr(p[f], ch[f])
=============================================================================
