---------------------------- MODULE MCChallenge ----------------------------
(***************************************************************************)
(* Small instances of Challenge for TLC.                                   *)
(***************************************************************************)
EXTENDS Challenge, TLC

CONSTANTS r1, r2, p1, p2

Bare == [f \in Fields |-> IF f \in Required THEN "text" ELSE IF f = "type" THEN "" ELSE Nil]

\* One spec that manages the state, the value and an optional field, one that
\* leaves them to CTFd, one of another type whose value CTFd computes, and one
\* that manages the state alone, with hints that validation rejects.
Managed == [body |-> [Bare EXCEPT !.value = "100", !.connectionInfo = "nc"],
            requirements |-> <<1, 2>>, state |-> "hidden", flags |-> "f1", hints |-> "h1"]
Unmanaged == [body |-> Bare, requirements |-> Nil, state |-> Unset,
              flags |-> "f2", hints |-> Nothing]
Dynamic == [body |-> [Bare EXCEPT !.type = "dynamic", !.value = "100", !.initial = "500"],
            requirements |-> <<2, 1>>, state |-> Unset, flags |-> "f1", hints |-> Nothing]
Invalid == [Unmanaged EXCEPT !.state = "visible", !.hints = Rejected]

MCSpecs == {Managed, Unmanaged}
MCInvalidOnly == {Invalid}
MCManagedOnly == {Managed}
MCLiveSpecs == {Managed, Dynamic, Invalid}

\* metadata.name defaults the external name: a name like "welcome", or "1".
WordNames == [r \in Resources |-> NotANumber]
NumericName == [r \in Resources |-> 1]

\* No pod is special, and nothing that eventually happens is asked for.
PodSymmetry == Permutations(Pods)

AllButGetAndLostPost == Calls \ {"get", "lostPost"}
AllButKube == Calls \ {"kube"}
=============================================================================
