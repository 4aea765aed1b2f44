------------------------------ MODULE FlagSync ------------------------------
(***************************************************************************)
(* The flags of one challenge: flagsUpToDate and syncFlags of              *)
(* internal/controller/challenge/flagshints.go, one action per call to     *)
(* CTFd.  Calls fail or lose their reply, the pod crashes, the user edits  *)
(* the list and administrators touch the flags between any two calls.      *)
(***************************************************************************)
EXTENDS Integers, Sequences, FiniteSets

CONSTANTS
    Contents,       \* the contents of flags (their data included)
    SpecLists,      \* the lists spec.forProvider.flags may take
    MaxId,          \* CTFd hands out the flag IDs 1..MaxId, each once
    FaultyCalls,    \* the calls that may fail
    MaxFaults, MaxEdits, MaxInterventions

Types == {"static", "regex"}
Calls == {"list", "post", "lostPost", "delete", "lostDelete", "crash"}
Ids == 1..MaxId
Keys == Contents \X Types

\* A flag of the spec may leave its type out.
SpecFlags == [content: Contents, type: Types \cup {""}]

ASSUME ConstantsAssumption ==
    /\ MaxId \in Nat /\ MaxFaults \in Nat /\ MaxEdits \in Nat /\ MaxInterventions \in Nat
    /\ FaultyCalls \subseteq Calls
    /\ \A list \in SpecLists : list \in Seq(SpecFlags)

VARIABLES
    spec,       \* spec.forProvider.flags
    flags,      \* the challenge's flags in CTFd
    nextId,     \* the flag ID CTFd hands out next
    sync,       \* the reconcile of the flags: its place, the list it works on,
                \* how far in it is, and the pool of flags not matched yet
    disturbed,  \* history: an administrator has acted since the sync began
    budget      \* what is left of the bounds

vars == <<spec, flags, nextId, sync, disturbed, budget>>

\* Mutant of FlagTypeOrDefault: no default.
FlagTypeAsGiven(type) == type

FlagTypeOrDefault(type) == IF type = "" THEN "static" ELSE type
\* The value-based identity of a flag.
FlagKey(flag) == <<flag.content, FlagTypeOrDefault(flag.type)>>

NoFlag == [content |-> "absent"]
CTFdFlags == [content: Contents, type: Types]
Entries == Ids \X Keys
Syncs == [pc: {"idle", "list", "sync"}, list: SpecLists, next: Nat \ {0}, pool: SUBSET Entries]
Present == {id \in Ids : flags[id] # NoFlag}

\* How many flags of each value a list has, and how many the challenge has.
Wanted(list) == [k \in Keys |-> Cardinality({i \in DOMAIN list : FlagKey(list[i]) = k})]
Had == [k \in Keys |-> Cardinality({id \in Present : FlagKey(flags[id]) = k})]

FlagsUpToDate(list) == Wanted(list) = Had

Spend(bound) == budget[bound] > 0 /\ budget' = [budget EXCEPT ![bound] = @ - 1]
Fault(call) == call \in FaultyCalls /\ Spend("fault")
Stop == sync' = [sync EXCEPT !.pc = "idle", !.next = 1, !.pool = {}]

----------------------------------------------------------------------------
Init ==
    /\ spec \in SpecLists
    /\ flags = [id \in Ids |-> NoFlag]
    /\ nextId = 1
    /\ sync = [pc |-> "idle", list |-> spec, next |-> 1, pool |-> {}]
    /\ disturbed = FALSE
    /\ budget = [fault |-> MaxFaults, edit |-> MaxEdits, admin |-> MaxInterventions]

Begin ==
    /\ sync.pc = "idle"
    /\ sync' = [sync EXCEPT !.pc = "list", !.list = spec]
    /\ UNCHANGED <<spec, flags, nextId, disturbed, budget>>

\* Observe finds the flags out of date, and Update comes to syncFlags.
BeginOutOfDate == ~FlagsUpToDate(spec) /\ Begin

\* Update comes to syncFlags because something else has drifted.
BeginAnyway == FlagsUpToDate(spec) /\ Begin

\* GetChallengeFlags fills the pool.
List ==
    /\ sync.pc = "list"
    /\ \/ /\ sync' = [sync EXCEPT !.pc = "sync", !.pool = {<<id, FlagKey(flags[id])>> : id \in Present}]
          /\ disturbed' = FALSE
          /\ UNCHANGED budget
       \/ /\ Fault("list")
          /\ Stop
          /\ UNCHANGED disturbed
    /\ UNCHANGED <<spec, flags, nextId>>

Pooled(k) == {entry \in sync.pool : entry[2] = k}

\* Mutant of Keep: the flag that is kept stays in the pool.
KeepInPool ==
    /\ sync.pc = "sync"
    /\ sync.next <= Len(sync.list)
    /\ Pooled(FlagKey(sync.list[sync.next])) # {}
    /\ sync' = [sync EXCEPT !.next = @ + 1]
    /\ UNCHANGED <<spec, flags, nextId, disturbed, budget>>

\* The next flag of the list takes a flag of its value out of the pool.
Keep ==
    /\ sync.pc = "sync"
    /\ sync.next <= Len(sync.list)
    /\ \E entry \in Pooled(FlagKey(sync.list[sync.next])) :
          sync' = [sync EXCEPT !.next = @ + 1, !.pool = @ \ {entry}]
    /\ UNCHANGED <<spec, flags, nextId, disturbed, budget>>

\* Or it is posted, if the pool has none of its value.
Post ==
    LET flag == sync.list[sync.next]
        posted == /\ nextId <= MaxId
                  /\ flags' = [flags EXCEPT ![nextId] =
                        [content |-> flag.content, type |-> FlagTypeOrDefault(flag.type)]]
                  /\ nextId' = nextId + 1
    IN
    /\ sync.pc = "sync"
    /\ sync.next <= Len(sync.list)
    /\ Pooled(FlagKey(flag)) = {}
    /\ \/ /\ posted
          /\ sync' = [sync EXCEPT !.next = @ + 1]
          /\ UNCHANGED budget
       \/ /\ Fault("post") /\ UNCHANGED <<flags, nextId>>
          /\ Stop
       \/ /\ Fault("lostPost") /\ posted
          /\ Stop
    /\ UNCHANGED <<spec, disturbed>>

\* Mutant of Delete: an error is passed over.
DeletePassingOverErrors ==
    /\ sync.pc = "sync"
    /\ sync.next > Len(sync.list)
    /\ \E entry \in sync.pool :
          /\ sync' = [sync EXCEPT !.pool = @ \ {entry}]
          /\ \/ flags' = [flags EXCEPT ![entry[1]] = NoFlag] /\ UNCHANGED budget
             \/ Fault("delete") /\ UNCHANGED flags
    /\ UNCHANGED <<spec, nextId, disturbed>>

\* When the list is through, what is left in the pool is deleted, in any order.
\* CTFd refuses to delete a flag that is not there.
Delete ==
    /\ sync.pc = "sync"
    /\ sync.next > Len(sync.list)
    /\ \E entry \in sync.pool :
       LET id == entry[1]
           deleted == flags' = [flags EXCEPT ![id] = NoFlag]
       IN
       \/ /\ id \in Present /\ deleted
          /\ sync' = [sync EXCEPT !.pool = @ \ {entry}]
          /\ UNCHANGED budget
       \/ /\ \/ id \notin Present /\ UNCHANGED <<flags, budget>>
             \/ Fault("delete") /\ UNCHANGED flags
             \/ Fault("lostDelete") /\ deleted
          /\ Stop
    /\ UNCHANGED <<spec, nextId, disturbed>>

\* Mutant of Succeed: returns before the flags left over are deleted.
SucceedEarly ==
    /\ sync.pc = "sync"
    /\ sync.next > Len(sync.list)
    /\ Stop
    /\ UNCHANGED <<spec, flags, nextId, disturbed, budget>>

\* syncFlags returns without an error.
Succeed ==
    /\ sync.pc = "sync"
    /\ sync.next > Len(sync.list)
    /\ sync.pool = {}
    /\ Stop
    /\ UNCHANGED <<spec, flags, nextId, disturbed, budget>>

Crash ==
    /\ sync.pc # "idle"
    /\ Fault("crash")
    /\ Stop
    /\ UNCHANGED <<spec, flags, nextId, disturbed>>

EditSpec ==
    /\ Spend("edit")
    /\ spec' \in SpecLists \ {spec}
    /\ UNCHANGED <<flags, nextId, sync, disturbed>>

\* An administrator adds a flag, edits one in place or deletes one.
AdminActs ==
    /\ Spend("admin")
    /\ disturbed' = TRUE
    /\ \/ /\ nextId <= MaxId
          /\ \E flag \in CTFdFlags : flags' = [flags EXCEPT ![nextId] = flag]
          /\ nextId' = nextId + 1
       \/ /\ \E id \in Present, flag \in CTFdFlags \cup {NoFlag} :
                flags' = [flags EXCEPT ![id] = flag]
          /\ UNCHANGED nextId
    /\ UNCHANGED <<spec, sync>>

Provider == BeginOutOfDate \/ List \/ Keep \/ Post \/ Delete \/ Succeed
Next == Provider \/ BeginAnyway \/ Crash \/ EditSpec \/ AdminActs

Spec == Init /\ [][Next]_vars

\* Observe is called at every poll and the queue retries an Update that failed.
FairSpec == Spec /\ WF_vars(Provider)

----------------------------------------------------------------------------
(***************************************************************************)
(* Properties.                                                             *)
(***************************************************************************)
\* Every variable has its type, and the pool holds flags that were listed.
TypeOK ==
    /\ spec \in SpecLists
    /\ flags \in [Ids -> CTFdFlags \cup {NoFlag}]
    /\ nextId \in 1..MaxId + 1
    /\ sync \in Syncs
    /\ disturbed \in BOOLEAN
    /\ budget \in [{"fault", "edit", "admin"} -> Nat]

\* The calls of syncFlags, seen as a bag of flag values, never overshoot the
\* list they work on and make before they break, across failed calls, lost
\* replies, crashes and edits, unless an administrator has acted since the
\* listing.
Target == INSTANCE TargetBag
    WITH Values <- Keys, wanted <- Wanted(spec), target <- Wanted(sync.list), have <- Had
RefinesTargetBag == Target!Spec

\* A syncFlags that returns no error and that no administrator disturbed has
\* brought the flags to its list.
SuccessMeansUpToDate ==
    [][Succeed /\ ~disturbed => FlagsUpToDate(sync.list)]_vars

\* Once failures, edits and interventions stop, the flags come to match the
\* spec and stay so.
EventuallyUpToDate == <>[]FlagsUpToDate(spec)
=============================================================================
