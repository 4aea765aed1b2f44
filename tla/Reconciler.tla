----------------------------- MODULE Reconciler -----------------------------
(***************************************************************************)
(* What every controller of the provider is driven by: crossplane's        *)
(* managed reconciler, the Kubernetes objects it reads through a lagging   *)
(* cache and writes with optimistic concurrency, and a CTFd that hands out *)
(* the IDs of what it is asked to create.  Challenge and Page add the      *)
(* calls that Observe, Create, Update and Delete make.                     *)
(*                                                                         *)
(* Every action of a worker is one call to CTFd or to the API server, so   *)
(* administrators, users, other resources and crashes interleave between   *)
(* any two of them.                                                        *)
(***************************************************************************)
EXTENDS Integers, FiniteSets

CONSTANTS
    Resources,      \* the managed objects, live from the start
    Pods,           \* the provider processes that reconcile them
    MaxId,          \* CTFd hands out the IDs 1..MaxId, each once
    Preexisting,    \* the IDs 1..Preexisting exist from the start, made by an administrator
    InitialName,    \* the external name each resource starts with
    Specs,          \* the values of spec.forProvider
    FaultyCalls,    \* the calls that may fail
    MaxFaults, MaxEdits, MaxInterventions, MaxCrashes

States == {"hidden", "visible"}
Unset == "unset"            \* no status.atProvider.state seen, or no state in the spec
NotANumber == 0             \* an external name that is no ID
Admin == "admin"            \* an administrator, working in CTFd's own UI
Nobody == "nobody"

Ids == 1..MaxId
Names == 0..MaxId
Calls == {"connect", "get", "requirements", "list", "secret", "post", "lostPost", "patch",
          "sync", "delete", "lostDelete", "kube"}
Bounds == {"fault", "edit", "admin", "crash"}

ASSUME BoundsAssumption ==
    /\ MaxId \in Nat
    /\ Preexisting \in 0..MaxId
    /\ MaxFaults \in Nat /\ MaxEdits \in Nat
    /\ MaxInterventions \in Nat /\ MaxCrashes \in Nat
    /\ FaultyCalls \subseteq Calls

ASSUME ResourcesAssumption ==
    /\ Resources \cap {Admin, Nobody} = {}
    /\ InitialName \in [Resources -> Names]

VARIABLES
    obj,        \* the managed objects in the API server
    cache,      \* each pod's informer cache of them
    wk,         \* each pod's reconcile of each object, if one runs
    recent,     \* the create-succeeded annotation is under 30 seconds old
    ctfd,       \* what CTFd has under each ID
    creator,    \* history: who had CTFd create an ID
    nextId,     \* the ID CTFd hands out next
    budget      \* what is left of the four bounds

vars == <<obj, cache, wk, recent, ctfd, creator, nextId, budget>>
kubeVars == <<obj, recent>>
ctfdVars == <<ctfd, creator, nextId>>

(***************************************************************************)
(* State.                                                                  *)
(***************************************************************************)
\* An API object.  mark is the newest external-create annotation; gen is
\* metadata.generation, which counts the edits of the spec.
Objects == [phase: {"live", "deleting", "gone"}, name: Names,
            mark: {"none", "pending", "failed", "created"}, finalizer: BOOLEAN,
            ready: BOOLEAN, spec: Specs, gen: Nat]

NoItem == [body |-> "absent"]

PCs == {"track", "resolve", "get", "flags", "hints", "mail", "finalizer", "pending", "post",
        "save", "saveFailed", "patch", "apply", "syncFlags", "syncHints", "delete", "release"}

\* A reconcile: the next call, the copy of the object it works on, the state
\* it saw in CTFd (status.atProvider.state), whether it has seen drift, and
\* what it does once the finalizer is there.
Workers == [pc: PCs, copy: Objects, seen: States \cup {Unset}, drift: BOOLEAN,
            todo: {"create", "update", "nothing"}]
Resting == [pc |-> "resting"]

At(p, r, pc) == wk[p][r].pc = pc
Copy(p, r) == wk[p][r].copy
Exists(id) == id \in Ids /\ ctfd[id] # NoItem

Goto(p, r, pc) == wk' = [wk EXCEPT ![p][r].pc = pc]
Rest(p, r) == wk' = [wk EXCEPT ![p][r] = Resting]

\* Mutant of Current: no optimistic concurrency.
CurrentUnversioned(p, r) == obj[r].phase # "gone"

\* The API server takes an update only of the newest version of the object.
Current(p, r) == Copy(p, r) = obj[r] /\ obj[r].phase # "gone"

Spend(bound) == budget[bound] > 0 /\ budget' = [budget EXCEPT ![bound] = @ - 1]
Fault(call) == call \in FaultyCalls /\ Spend("fault")

\* The object o becomes the newest version; the worker that wrote it goes on
\* with it.  A worker with an older version gets a conflict and gives up.
Update(p, r, o, pc) ==
    \/ /\ Current(p, r)
       /\ obj' = [obj EXCEPT ![r] = o]
       /\ wk' = [wk EXCEPT ![p][r].copy = o, ![p][r].pc = pc]
       /\ UNCHANGED budget
    \/ /\ (~Current(p, r) /\ UNCHANGED budget) \/ Fault("kube")
       /\ Rest(p, r)
       /\ UNCHANGED obj

\* The last call of a reconcile writes the status conditions, unless the
\* object has changed since the worker read it.
Finish(p, r, ready) ==
    /\ Rest(p, r)
    /\ obj' = IF Current(p, r) THEN [obj EXCEPT ![r].ready = ready] ELSE obj

----------------------------------------------------------------------------
(***************************************************************************)
(* The initial state: the objects have just been applied, nothing runs.    *)
(* Administrators have made handMade under the first IDs.                  *)
(***************************************************************************)
NewObject(r, spec) ==
    [phase |-> "live", name |-> InitialName[r], mark |-> "none", finalizer |-> FALSE,
     ready |-> FALSE, spec |-> spec, gen |-> 0]

InitWith(handMade) ==
    /\ \E spec \in [Resources -> Specs] : obj = [r \in Resources |-> NewObject(r, spec[r])]
    /\ cache = [p \in Pods |-> obj]
    /\ wk = [p \in Pods |-> [r \in Resources |-> Resting]]
    /\ recent = [r \in Resources |-> FALSE]
    /\ ctfd = [id \in Ids |-> IF id <= Preexisting THEN handMade ELSE NoItem]
    /\ creator = [id \in Ids |-> IF id <= Preexisting THEN Admin ELSE Nobody]
    /\ nextId = Preexisting + 1
    /\ budget = [fault |-> MaxFaults, edit |-> MaxEdits,
                 admin |-> MaxInterventions, crash |-> MaxCrashes]

----------------------------------------------------------------------------
(***************************************************************************)
(* Around Observe.                                                         *)
(***************************************************************************)
NewReconcile(o, pc) ==
    [pc |-> pc, copy |-> o, seen |-> Unset, drift |-> FALSE, todo |-> "nothing"]

\* Mutant of StartAt: goes on with an object whose creation is pending.
StartAtPending(p, r, pc) ==
    /\ At(p, r, "resting")
    /\ cache[p][r].phase # "gone"
    /\ wk' = [wk EXCEPT ![p][r] = NewReconcile(cache[p][r], pc)]
    /\ UNCHANGED <<kubeVars, cache, ctfdVars, budget>>

\* A reconcile starts from the cached object.  An object whose newest
\* annotation is create-pending is left alone: whether the creation was
\* carried out is unknown.
StartAt(p, r, pc) ==
    /\ At(p, r, "resting")
    /\ cache[p][r].phase # "gone"
    /\ cache[p][r].mark # "pending"
    /\ wk' = [wk EXCEPT ![p][r] = NewReconcile(cache[p][r], pc)]
    /\ UNCHANGED <<kubeVars, cache, ctfdVars, budget>>

\* Mutants of Absent: the finalizer is left out; a deleted object for which
\* nothing was ever created is not released.
AbsentWithoutFinalizer(p, r) ==
    IF Copy(p, r).phase = "deleting" THEN Goto(p, r, "release")
    ELSE wk' = [wk EXCEPT ![p][r].pc = "pending", ![p][r].todo = "create"]
AbsentKeepsUncreated(p, r) ==
    IF Copy(p, r).phase = "live"
    THEN wk' = [wk EXCEPT ![p][r].pc = "finalizer", ![p][r].todo = "create"]
    ELSE IF Copy(p, r).mark = "created" THEN Goto(p, r, "release") ELSE Rest(p, r)

\* What the reconciler does when Observe reports that CTFd has nothing.
Absent(p, r) ==
    LET o == Copy(p, r) IN
    \/ /\ o.mark = "created" /\ recent[r]
       /\ Rest(p, r)
    \/ /\ ~(o.mark = "created" /\ recent[r])
       /\ o.phase = "deleting"
       /\ Goto(p, r, "release")
    \/ /\ ~(o.mark = "created" /\ recent[r])
       /\ o.phase = "live"
       /\ wk' = [wk EXCEPT ![p][r].pc = "finalizer", ![p][r].todo = "create"]

\* What it does when Observe has found it, and found drift or not: it deletes,
\* updates, or waits for the next poll.
Observed(p, r, drift) ==
    \/ /\ Copy(p, r).phase = "deleting"
       /\ Goto(p, r, "delete")
    \/ /\ Copy(p, r).phase = "live"
       /\ wk' = [wk EXCEPT ![p][r].pc = "finalizer",
                           ![p][r].todo = IF drift THEN "update" ELSE "nothing"]

----------------------------------------------------------------------------
(***************************************************************************)
(* The finalizer, and around Create.                                       *)
(***************************************************************************)
\* Mutant of NextCall: the POST is not announced.
NextCallUnannounced(todo) == IF todo = "create" THEN "post" ELSE "patch"

NextCall(todo) == IF todo = "create" THEN "pending" ELSE "patch"

\* The finalizer comes before anything is made in CTFd.  A resource that is
\* up to date reports Ready and waits for the next poll.
AddFinalizer(p, r) ==
    LET o == Copy(p, r)
        todo == wk[p][r].todo
    IN
    /\ At(p, r, "finalizer")
    /\ \/ /\ ~o.finalizer
          /\ Update(p, r, [o EXCEPT !.finalizer = TRUE], "finalizer")
       \/ /\ o.finalizer /\ todo = "nothing"
          /\ Finish(p, r, TRUE)
          /\ UNCHANGED budget
       \/ /\ o.finalizer /\ todo # "nothing"
          /\ Goto(p, r, NextCall(todo))
          /\ UNCHANGED <<obj, budget>>
    /\ UNCHANGED <<recent, cache, ctfdVars>>

\* The create-pending annotation is stored before the POST, in an update that
\* conflicts unless the worker has the newest version.
SetPending(p, r) ==
    /\ At(p, r, "pending")
    /\ Update(p, r, [Copy(p, r) EXCEPT !.mark = "pending"], "post")
    /\ UNCHANGED <<recent, cache, ctfdVars>>

\* A POST has CTFd make one of items under the next ID.  A lost reply leaves
\* it behind and is an error to the worker.
Post(p, r, items) ==
    /\ At(p, r, "post")
    /\ \/ /\ nextId <= MaxId
          /\ \E item \in items : ctfd' = [ctfd EXCEPT ![nextId] = item]
          /\ creator' = [creator EXCEPT ![nextId] = r]
          /\ nextId' = nextId + 1
          /\ \/ /\ wk' = [wk EXCEPT ![p][r].copy.name = nextId, ![p][r].pc = "save"]
                /\ UNCHANGED budget
             \/ Fault("lostPost") /\ Goto(p, r, "saveFailed")
       \/ /\ Fault("post")
          /\ Goto(p, r, "saveFailed")
          /\ UNCHANGED ctfdVars
    /\ UNCHANGED <<kubeVars, cache>>

\* Mutant of Created: the name is that of the newest ID in CTFd.
CreatedNewest(o, name, ready) ==
    [o EXCEPT !.name = nextId - 1, !.mark = "created", !.ready = ready]

Created(o, name, ready) ==
    [o EXCEPT !.name = name, !.mark = "created", !.ready = ready]

\* The outcome of Create is stored in the annotations, retried over conflicts:
\* the new ID with create-succeeded, or create-failed.  The status write that
\* follows clears Ready, if it gets through.
SaveCreated(p, r) ==
    /\ At(p, r, "save")
    /\ \/ /\ obj[r].phase # "gone"
          /\ \E ready \in {FALSE, obj[r].ready} :
                obj' = [obj EXCEPT ![r] = Created(@, Copy(p, r).name, ready)]
          /\ recent' = [recent EXCEPT ![r] = TRUE]
          /\ UNCHANGED budget
       \/ /\ (obj[r].phase = "gone" /\ UNCHANGED budget) \/ Fault("kube")
          /\ UNCHANGED kubeVars
    /\ Rest(p, r)
    /\ UNCHANGED <<cache, ctfdVars>>

SaveFailed(p, r) ==
    /\ At(p, r, "saveFailed")
    /\ \/ /\ obj[r].phase # "gone"
          /\ \E ready \in {FALSE, obj[r].ready} :
                obj' = [obj EXCEPT ![r].mark = "failed", ![r].ready = ready]
          /\ UNCHANGED budget
       \/ /\ (obj[r].phase = "gone" /\ UNCHANGED budget) \/ Fault("kube")
          /\ UNCHANGED obj
    /\ Rest(p, r)
    /\ UNCHANGED <<recent, cache, ctfdVars>>

----------------------------------------------------------------------------
(***************************************************************************)
(* Around Delete, and the release of the object.                           *)
(***************************************************************************)
\* A DELETE of the item the copy names.  Whatever the answer, the object stays
\* until a later Observe finds nothing.
DeleteItem(p, r) ==
    LET deleted == [ctfd EXCEPT ![Copy(p, r).name] = NoItem] IN
    /\ At(p, r, "delete")
    /\ \/ ctfd' = deleted /\ UNCHANGED budget
       \/ Fault("delete") /\ UNCHANGED ctfd
       \/ Fault("lostDelete") /\ ctfd' = deleted
    /\ Finish(p, r, FALSE)
    /\ UNCHANGED <<recent, cache, creator, nextId>>

\* Without its finalizer an object that is being deleted is gone.
RemoveFinalizer(p, r) ==
    /\ At(p, r, "release")
    /\ \/ /\ Current(p, r)
          /\ obj' = [obj EXCEPT ![r].finalizer = FALSE, ![r].phase = "gone"]
          /\ UNCHANGED budget
       \/ /\ (~Current(p, r) /\ UNCHANGED budget) \/ Fault("kube")
          /\ UNCHANGED obj
    /\ Rest(p, r)
    /\ UNCHANGED <<recent, cache, ctfdVars>>

Bookkeeping(p, r) ==
    \/ AddFinalizer(p, r) \/ SetPending(p, r) \/ SaveCreated(p, r) \/ SaveFailed(p, r)
    \/ RemoveFinalizer(p, r)

----------------------------------------------------------------------------
(***************************************************************************)
(* The surroundings: the informers, the clock, the users of the cluster,   *)
(* and the fate of the pods.                                               *)
(***************************************************************************)
CacheSync(p, r) ==
    /\ cache[p][r] # obj[r]
    /\ cache' = [cache EXCEPT ![p][r] = obj[r]]
    /\ UNCHANGED <<kubeVars, wk, ctfdVars, budget>>

\* Thirty seconds pass after a Create.
GraceElapses(r) ==
    /\ recent[r]
    /\ recent' = [recent EXCEPT ![r] = FALSE]
    /\ UNCHANGED <<obj, cache, wk, ctfdVars, budget>>

EditSpec(r) ==
    /\ obj[r].phase # "gone"
    /\ Spend("edit")
    /\ \E spec \in Specs \ {obj[r].spec} :
          obj' = [obj EXCEPT ![r].spec = spec, ![r].gen = @ + 1]
    /\ UNCHANGED <<recent, cache, wk, ctfdVars>>

DeleteResource(r) ==
    /\ obj[r].phase = "live"
    /\ obj' = [obj EXCEPT ![r].phase = IF obj[r].finalizer THEN "deleting" ELSE "gone"]
    /\ UNCHANGED <<recent, cache, wk, ctfdVars, budget>>

\* A pod dies and another takes its place with a newly listed cache.
Crash(p) ==
    /\ Spend("crash")
    /\ wk' = [wk EXCEPT ![p] = [r \in Resources |-> Resting]]
    /\ cache' = [cache EXCEPT ![p] = obj]
    /\ UNCHANGED <<kubeVars, ctfdVars>>

Surroundings ==
    \/ \E p \in Pods, r \in Resources : CacheSync(p, r)
    \/ \E r \in Resources : GraceElapses(r) \/ EditSpec(r) \/ DeleteResource(r)
    \/ \E p \in Pods : Crash(p)

\* What an administrator does to an existing item: it becomes one of items.
Intervene(id, items) ==
    /\ Exists(id)
    /\ Spend("admin")
    /\ \E item \in items : ctfd' = [ctfd EXCEPT ![id] = item]
    /\ UNCHANGED <<kubeVars, cache, wk, creator, nextId>>

----------------------------------------------------------------------------
(***************************************************************************)
(* Properties.                                                             *)
(***************************************************************************)
\* Every variable has its type; what CTFd's items are is left to their kind.
TypedWith(items) ==
    /\ obj \in [Resources -> Objects]
    /\ cache \in [Pods -> [Resources -> Objects]]
    /\ wk \in [Pods -> [Resources -> Workers \cup {Resting}]]
    /\ recent \in [Resources -> BOOLEAN]
    /\ ctfd \in [Ids -> items \cup {NoItem}]
    /\ creator \in [Ids -> Resources \cup {Admin, Nobody}]
    /\ nextId \in 1..MaxId + 1
    /\ budget \in [Bounds -> Nat]

CreatedBy(r) == {id \in Ids : creator[id] = r /\ ctfd[id] # NoItem}

\* Every item a resource had CTFd create is still accounted for: the object is
\* there, and names it or carries the create-pending annotation that stops the
\* provider and tells an operator to look.
NoOrphan ==
    \A r \in Resources : \A id \in CreatedBy(r) :
        obj[r].phase # "gone" /\ (obj[r].name = id \/ obj[r].mark = "pending")

\* A resource never has two items in CTFd, whatever crashes, conflicts, stale
\* caches and failed calls come between its POSTs.
AtMostOne ==
    \A r \in Resources : \A id1, id2 \in CreatedBy(r) : id1 = id2

\* A resource that is gone has left nothing in CTFd: the finalizer was not
\* removed before the item was.  It is part of NoOrphan, stated for itself as
\* what the repository promises.
DeletionLeavesNothing ==
    \A r \in Resources : obj[r].phase = "gone" => CreatedBy(r) = {}

\* When CTFd creates an item, the object already carries, durably, the
\* finalizer and the create-pending annotation.
CreateIsAnnounced ==
    [][\A r \in Resources, id \in Ids : creator'[id] = r /\ creator[id] # r =>
          obj[r].phase # "gone" /\ obj[r].finalizer /\ obj[r].mark = "pending"]_vars

----------------------------------------------------------------------------
(***************************************************************************)
(* Why NoOrphan and AtMostOne hold, provided that a GET that fails is      *)
(* never taken for an absent item, that CTFd makes no item without the     *)
(* provider learning its ID, and that no resource starts with a number for *)
(* a name.                                                                 *)
(***************************************************************************)
WordsForNames == \A r \in Resources : InitialName[r] = NotANumber

ReliableAnswers == {"get", "lostPost"} \cap FaultyCalls = {} /\ WordsForNames

Creating(p, r) == wk[p][r].pc \in {"post", "save", "saveFailed"}
Before(p, r) == wk[p][r].pc \notin {"resting", "post", "save", "saveFailed"}

\* No ID is used before CTFd hands it out, and no name is ahead of CTFd.
IdsInOrder ==
    /\ \A id \in Ids : id >= nextId => ctfd[id] = NoItem
    /\ \A r \in Resources : obj[r].name < nextId
    /\ \A p \in Pods, r \in Resources : cache[p][r].name < nextId
    /\ \A p \in Pods, r \in Resources : wk[p][r].pc # "resting" => Copy(p, r).name < nextId

\* One worker at a time is between the create-pending annotation and the next,
\* and no other has a copy that the API server would take for the newest.
OneCreates ==
    /\ \A p \in Pods, r \in Resources : Creating(p, r) =>
          /\ obj[r].mark = "pending" /\ obj[r].finalizer /\ obj[r].phase # "gone"
          /\ \A q \in Pods : Creating(q, r) => q = p
    /\ \A p \in Pods, r \in Resources : Before(p, r) => Copy(p, r).mark # "pending"

\* A worker about to create or to release has seen that the item its copy
\* names is absent, and an ID that is absent never comes back.
AbsenceSeen ==
    \A p \in Pods, r \in Resources :
        /\ wk[p][r].pc = "pending" => Copy(p, r).finalizer
        /\ \/ wk[p][r].pc \in {"pending", "release"}
           \/ wk[p][r].pc = "finalizer" /\ wk[p][r].todo = "create"
           => ~Exists(Copy(p, r).name)

\* An object without the finalizer has nothing in CTFd.
FinalizerHolds ==
    \A r \in Resources : ~obj[r].finalizer => CreatedBy(r) = {}

\* What a creating worker knows of the items of its resource.
CreationKnown ==
    \A p \in Pods, r \in Resources :
        /\ wk[p][r].pc \in {"post", "saveFailed"} => CreatedBy(r) = {}
        /\ wk[p][r].pc = "save" => CreatedBy(r) \subseteq {Copy(p, r).name}

\* The inductive invariant: every item of a resource can be traced from its
\* object, whichever worker is wherever in a reconcile.
Traceable ==
    /\ IdsInOrder
    /\ OneCreates
    /\ AbsenceSeen
    /\ FinalizerHolds
    /\ CreationKnown
    /\ NoOrphan
    /\ AtMostOne

(***************************************************************************)
(* Why a reconcile touches nothing but what its own resource had made,     *)
(* provided that no resource starts with a number for a name: every name,  *)
(* on an object, in a cache or in a worker's copy, is one that CTFd gave   *)
(* to that very resource, and no ID has an owner before it is handed out.  *)
(***************************************************************************)
Own(r, name) == name = NotANumber \/ (name \in Ids /\ creator[name] = r)

OwnNames ==
    /\ \A id \in Ids : id >= nextId => creator[id] = Nobody
    /\ \A r \in Resources : Own(r, obj[r].name)
    /\ \A p \in Pods, r \in Resources : Own(r, cache[p][r].name)
    /\ \A p \in Pods, r \in Resources : wk[p][r].pc # "resting" => Own(r, Copy(p, r).name)

----------------------------------------------------------------------------
(***************************************************************************)
(* What it all amounts to.                                                 *)
(***************************************************************************)
Stage == [r \in Resources |->
    IF obj[r].phase = "gone" THEN "released"
    ELSE IF obj[r].mark = "pending" THEN "announced" ELSE "settled"]
Known == [r \in Resources |-> obj[r].name]
Held == [r \in Resources |-> CreatedBy(r)]
Used == {id \in Ids : id < nextId}

Promised == INSTANCE Custody WITH stage <- Stage, known <- Known, held <- Held, used <- Used

\* The reconciles of all pods together do to a resource's items what Custody
\* allows and nothing else.
KeepsCustody == Promised!Spec
=============================================================================
