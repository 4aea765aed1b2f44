------------------------------ MODULE HintSync ------------------------------
(***************************************************************************)
(* The hints of one challenge: syncHints, challengeHints,                  *)
(* createMissingHints and reconcileHintRequirements of                     *)
(* internal/controller/challenge/flagshints.go, one action per call to     *)
(* CTFd.  Calls fail or lose their reply, the pod crashes, the user edits  *)
(* the list and administrators touch the hints between any two calls.      *)
(***************************************************************************)
EXTENDS HintPlan

CONSTANTS
    HintKeys,       \* the values of hints
    SpecLists,      \* the lists spec.forProvider.hints may take
    MaxId,          \* CTFd hands out the hint IDs 1..MaxId, each once
    FaultyCalls,    \* the calls that may fail
    MaxFaults, MaxEdits, MaxInterventions

Calls == {"list", "post", "lostPost", "patch", "lostPatch", "delete", "lostDelete", "crash"}
Ids == 1..MaxId
Anonymize == {"true", "preview", Unset}
SpecHints == [key: HintKeys, pre: SUBSET Int, anonymize: Anonymize]

ASSUME ConstantsAssumption ==
    /\ MaxId \in Nat /\ MaxFaults \in Nat /\ MaxEdits \in Nat /\ MaxInterventions \in Nat
    /\ FaultyCalls \subseteq Calls
    /\ \A list \in SpecLists : list \in Seq(SpecHints)

VARIABLES
    spec,       \* spec.forProvider.hints
    hints,      \* the challenge's hints in CTFd
    nextId,     \* the hint ID CTFd hands out next
    sync,       \* the reconcile of the hints
    disturbed,  \* history: an administrator has acted since the sync began
    budget      \* what is left of the bounds

vars == <<spec, hints, nextId, sync, disturbed, budget>>

NoHint == [key |-> "absent"]
CTFdHints == [key: HintKeys, requires: SUBSET Ids, anonymize: Anonymize]
Present == {id \in Ids : hints[id] # NoHint}
InCTFd == [id \in Present |-> hints[id]]

\* A sync: the list it works on, the IDs challengeHints has still to GET and
\* what it got, the plan, the hints it has yet to check the requirements of,
\* and those it has yet to delete.
NoSync(list) == [pc |-> "idle", list |-> list, fetch |-> {}, seen |-> [id \in {} |-> NoHint],
                 idByIndex |-> <<>>, next |-> 1, deletes |-> {}]
Stop == sync' = NoSync(sync.list)

Spend(bound) == budget[bound] > 0 /\ budget' = [budget EXCEPT ![bound] = @ - 1]
Fault(call) == call \in FaultyCalls /\ Spend("fault")

\* A call that does `effect' and goes on, does nothing and fails, or does it
\* and loses the reply; either failure ends the sync with an error.
Answered(effect) == effect /\ UNCHANGED budget
Failed(call) == Fault(call) /\ UNCHANGED <<hints, nextId>> /\ Stop
Lost(call, effect) == Fault(call) /\ effect /\ Stop

----------------------------------------------------------------------------
Init ==
    /\ spec \in SpecLists
    /\ hints = [id \in Ids |-> NoHint]
    /\ nextId = 1
    /\ sync = NoSync(spec)
    /\ disturbed = FALSE
    /\ budget = [fault |-> MaxFaults, edit |-> MaxEdits, admin |-> MaxInterventions]

\* Mutant of Begin: the list is not validated.
BeginUnvalidated ==
    /\ sync.pc = "idle"
    /\ sync' = [NoSync(spec) EXCEPT !.pc = "list"]
    /\ UNCHANGED <<spec, hints, nextId, disturbed, budget>>

\* Update comes to syncHints, which validates the list before any call.
Begin ==
    /\ sync.pc = "idle"
    /\ sync' = [NoSync(spec) EXCEPT !.pc = IF Valid(spec) THEN "list" ELSE "idle"]
    /\ UNCHANGED <<spec, hints, nextId, disturbed, budget>>

\* Because Observe found the hints out of date, or something else has drifted.
BeginOutOfDate == ~HintsUpToDate(spec, InCTFd) /\ Begin
BeginAnyway == HintsUpToDate(spec, InCTFd) /\ Begin

\* challengeHints lists the IDs ...
List ==
    /\ sync.pc = "list"
    /\ \/ /\ sync' = [sync EXCEPT !.pc = "fetch", !.fetch = Present]
          /\ disturbed' = FALSE
          /\ UNCHANGED <<hints, nextId, budget>>
       \/ Failed("list") /\ UNCHANGED disturbed
    /\ UNCHANGED spec

\* ... and gets the hints one by one.  A hint deleted meanwhile is an error.
Fetch ==
    /\ sync.pc = "fetch"
    /\ LET id == CHOOSE i \in sync.fetch : \A o \in sync.fetch : i <= o IN
       /\ sync.fetch # {}
       /\ \/ /\ id \in Present
             /\ sync' = [sync EXCEPT !.fetch = @ \ {id},
                          !.seen = [i \in DOMAIN @ \cup {id} |-> IF i = id THEN hints[id] ELSE @[i]]]
             /\ UNCHANGED <<hints, nextId, budget>>
          \/ id \notin Present /\ Stop /\ UNCHANGED <<hints, nextId, budget>>
          \/ Failed("list")
    /\ UNCHANGED <<spec, disturbed>>

\* planHints runs once all are there.
Plan ==
    /\ sync.pc = "fetch" /\ sync.fetch = {}
    /\ LET idByIndex == IdByIndex(sync.list, sync.seen) IN
       sync' = [sync EXCEPT !.pc = "create", !.idByIndex = idByIndex,
                            !.deletes = Deletes(idByIndex, sync.seen)]
    /\ UNCHANGED <<spec, hints, nextId, disturbed, budget>>

\* The hints without an ID, and those with requirements to patch, in order.
Missing == {i \in DOMAIN sync.list : sync.idByIndex[i] = NoId}
Unwired == {i \in DOMAIN sync.list :
              i >= sync.next /\ ~AsRequired(sync.list, sync.seen, sync.idByIndex, i)}
First(S) == CHOOSE i \in S : \A j \in S : i <= j

\* createMissingHints: POST /hints, without the prerequisites.
Create ==
    LET i == First(Missing)
        posted == /\ nextId <= MaxId
                  /\ hints' = [hints EXCEPT ![nextId] =
                        [key |-> sync.list[i].key, requires |-> {}, anonymize |-> Unset]]
                  /\ nextId' = nextId + 1
    IN
    /\ sync.pc = "create" /\ Missing # {}
    /\ \/ Answered(posted) /\ sync' = [sync EXCEPT !.idByIndex[i] = nextId]
       \/ Failed("post")
       \/ Lost("lostPost", posted)
    /\ UNCHANGED <<spec, disturbed>>

\* Mutant of Wiring: the anonymize is forgotten.
WiringAlone(i) ==
    [key |-> sync.list[i].key, anonymize |-> Unset,
     requires |-> MapPrereqs(sync.list, sync.idByIndex, i)]

Wiring(i) ==
    [key |-> sync.list[i].key, anonymize |-> sync.list[i].anonymize,
     requires |-> MapPrereqs(sync.list, sync.idByIndex, i)]

\* reconcileHintRequirements: PATCH /hints/{id} of a hint whose requirements
\* are not as wanted.  CTFd refuses if the hint is gone.
Wire ==
    LET i == First(Unwired)
        id == sync.idByIndex[i]
        patched == /\ id \in Present
                   /\ hints' = [hints EXCEPT ![id] = Wiring(i)]
                   /\ UNCHANGED nextId
    IN
    /\ \/ sync.pc = "create" /\ Missing = {}
       \/ sync.pc = "wire"
    /\ Unwired # {}
    /\ \/ Answered(patched) /\ sync' = [sync EXCEPT !.pc = "wire", !.next = i + 1]
       \/ id \notin Present /\ Stop /\ UNCHANGED <<hints, nextId, budget>>
       \/ Failed("patch")
       \/ Lost("lostPatch", patched)
    /\ UNCHANGED <<spec, disturbed>>

\* Mutant of Wired: every hint has its ID.
Created == sync.pc \in {"create", "wire", "delete"} /\ Missing = {}

\* Every hint has its ID and its requirements.
Wired == sync.pc \in {"create", "wire", "delete"} /\ Missing = {} /\ Unwired = {}

\* DELETE /hints/{id} of the hints no longer wanted, in any order.  CTFd
\* refuses if the hint is gone.
Delete ==
    /\ Wired
    /\ \E id \in sync.deletes :
       LET deleted == /\ id \in Present
                      /\ hints' = [hints EXCEPT ![id] = NoHint]
                      /\ UNCHANGED nextId
       IN
       \/ Answered(deleted) /\ sync' = [sync EXCEPT !.pc = "delete", !.deletes = @ \ {id}]
       \/ id \notin Present /\ Stop /\ UNCHANGED <<hints, nextId, budget>>
       \/ Failed("delete")
       \/ Lost("lostDelete", deleted)
    /\ UNCHANGED <<spec, disturbed>>

\* Mutant of Succeed: returns before the hints left over are deleted.
SucceedEarly ==
    /\ Wired
    /\ Stop
    /\ UNCHANGED <<spec, hints, nextId, disturbed, budget>>

\* syncHints returns without an error.
Succeed ==
    /\ Wired /\ sync.deletes = {}
    /\ Stop
    /\ UNCHANGED <<spec, hints, nextId, disturbed, budget>>

Crash ==
    /\ sync.pc # "idle"
    /\ Failed("crash")
    /\ UNCHANGED <<spec, disturbed>>

EditSpec ==
    /\ Spend("edit")
    /\ spec' \in SpecLists \ {spec}
    /\ UNCHANGED <<hints, nextId, sync, disturbed>>

\* An administrator adds a hint, edits one in place or deletes one.
AdminActs ==
    /\ Spend("admin")
    /\ disturbed' = TRUE
    /\ \/ /\ nextId <= MaxId
          /\ \E key \in HintKeys :
                hints' = [hints EXCEPT ![nextId] =
                            [key |-> key, requires |-> {}, anonymize |-> Unset]]
          /\ nextId' = nextId + 1
       \/ /\ \E id \in Present :
             \/ \E key \in HintKeys : hints' = [hints EXCEPT ![id].key = key]
             \/ \E others \in SUBSET (Present \ {id}) : hints' = [hints EXCEPT ![id].requires = others]
             \/ hints' = [hints EXCEPT ![id] = NoHint]
          /\ UNCHANGED nextId
    /\ UNCHANGED <<spec, sync>>

Provider == BeginOutOfDate \/ List \/ Fetch \/ Plan \/ Create \/ Wire \/ Delete \/ Succeed
Next == Provider \/ BeginAnyway \/ Crash \/ EditSpec \/ AdminActs

Spec == Init /\ [][Next]_vars

\* Observe is called at every poll and the queue retries an Update that failed.
FairSpec == Spec /\ WF_vars(Provider)

----------------------------------------------------------------------------
(***************************************************************************)
(* Properties.                                                             *)
(***************************************************************************)
\* Every variable has its type.
TypeOK ==
    /\ spec \in SpecLists
    /\ hints \in [Ids -> CTFdHints \cup {NoHint}]
    /\ nextId \in 1..MaxId + 1
    /\ sync.pc \in {"idle", "list", "fetch", "create", "wire", "delete"}
    /\ sync.list \in SpecLists
    /\ sync.fetch \subseteq Ids /\ sync.deletes \subseteq Ids
    /\ \A id \in DOMAIN sync.seen : id \in Ids /\ sync.seen[id] \in CTFdHints
    /\ sync.idByIndex \in Seq(Ids \cup {NoId}) /\ sync.next \in Nat
    /\ disturbed \in BOOLEAN
    /\ budget \in [{"fault", "edit", "admin"} -> Nat]

\* The calls of syncHints, seen as a bag of hint values, never overshoot the
\* list they work on and make before they break, across failed calls, lost
\* replies, crashes and edits, unless an administrator has acted since the
\* listing.
Wanted(list) == [k \in HintKeys |-> Cardinality({i \in DOMAIN list : list[i].key = k})]
Had == [k \in HintKeys |-> Cardinality({id \in Present : hints[id].key = k})]
Target == INSTANCE TargetBag
    WITH Values <- HintKeys, wanted <- Wanted(spec), target <- Wanted(sync.list), have <- Had
RefinesTargetBag == Target!Spec

\* Deleting a hint never leaves a hint that stays waiting for it, which no
\* player could then unlock: the requirements are rewired first.
DeletesNoPrerequisite ==
    [][Delete /\ ~disturbed => \A id \in Used(sync.idByIndex) :
          id \in Present => hints'[id].requires \subseteq {o \in Ids : hints'[o] # NoHint}]_vars

\* A list whose hints cannot all be unlocked changes nothing in CTFd, by any of
\* the steps of a sync.
InvalidListTouchesNothing ==
    [][Provider \/ BeginAnyway => (hints' # hints => Unlockable(sync.list))]_vars

\* A syncHints that returns no error and that no administrator disturbed has
\* brought the hints to its list, prerequisites included.
SuccessMeansUpToDate ==
    [][Succeed /\ ~disturbed => HintsUpToDate(sync.list, InCTFd)]_vars

\* Once failures, edits and interventions stop, the hints come to match the
\* spec, if they can all be unlocked, and stay so.
EventuallyUpToDate == <>[](Unlockable(spec) => HintsUpToDate(spec, InCTFd))
=============================================================================
