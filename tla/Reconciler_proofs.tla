-------------------------- MODULE Reconciler_proofs -------------------------
(***************************************************************************)
(* Proofs about the calls of the managed reconciler, for every kind of     *)
(* item, every set of resources and of pods, every set of specs and every  *)
(* bound.  Challenge_proofs and Page_proofs add the calls of their kind.   *)
(***************************************************************************)
EXTENDS Reconciler, TLAPS

(***************************************************************************)
(* Type correctness.                                                       *)
(***************************************************************************)
\* Counting down one of the bounds leaves a budget.
LEMMA SpendType ==
    ASSUME budget \in [Bounds -> Nat], NEW b \in Bounds, Spend(b)
    PROVE  budget' \in [Bounds -> Nat]
BY DEF Spend

LEMMA FaultType ==
    ASSUME budget \in [Bounds -> Nat], NEW c, Fault(c)
    PROVE  budget' \in [Bounds -> Nat]
BY SpendType DEF Fault, Bounds

\* A call that fails spends one of the failures allowed.
LEMMA FaultSpends ==
    ASSUME budget \in [Bounds -> Nat], NEW c, Fault(c)
    PROVE  budget' # budget
<1>1. budget'["fault"] = budget["fault"] - 1 /\ budget["fault"] \in Nat
  BY DEF Fault, Spend, Bounds
<1>2. budget["fault"] - 1 # budget["fault"]
  BY <1>1
<1> QED
  BY <1>1, <1>2

\* A worker that is in a reconcile has a copy of its object.
LEMMA ActiveWorker ==
    ASSUME NEW items, TypedWith(items), NEW p \in Pods, NEW r \in Resources, wk[p][r].pc # "resting"
    PROVE  wk[p][r] \in Workers
BY DEF TypedWith, Resting

\* Replacing one worker's record by another leaves a table of workers.
LEMMA WorkerType ==
    ASSUME NEW items, TypedWith(items), NEW p \in Pods, NEW r \in Resources, NEW w \in Workers \cup {Resting},
           wk' = [wk EXCEPT ![p][r] = w]
    PROVE  wk' \in [Pods -> [Resources -> Workers \cup {Resting}]]
BY DEF TypedWith

LEMMA GotoType ==
    ASSUME NEW items, TypedWith(items), NEW p \in Pods, NEW r \in Resources, wk[p][r].pc # "resting",
           NEW pc \in PCs, Goto(p, r, pc)
    PROVE  wk' \in [Pods -> [Resources -> Workers \cup {Resting}]]
<1>1. wk[p][r] \in Workers
  BY ActiveWorker
<1>2. [wk[p][r] EXCEPT !.pc = pc] \in Workers
  BY <1>1 DEF Workers
<1>3. wk' = [wk EXCEPT ![p][r] = [wk[p][r] EXCEPT !.pc = pc]]
  BY DEF Goto
<1> QED
  BY <1>2, <1>3, WorkerType

LEMMA RestType ==
    ASSUME NEW items, TypedWith(items), NEW p \in Pods, NEW r \in Resources, Rest(p, r)
    PROVE  wk' \in [Pods -> [Resources -> Workers \cup {Resting}]]
BY WorkerType DEF Rest

\* An object written back stays in its type, and so does its writer.
LEMMA UpdateType ==
    ASSUME NEW items, TypedWith(items), NEW p \in Pods, NEW r \in Resources, wk[p][r].pc # "resting",
           NEW o \in Objects, NEW pc \in PCs, Update(p, r, o, pc)
    PROVE  /\ obj' \in [Resources -> Objects]
           /\ wk' \in [Pods -> [Resources -> Workers \cup {Resting}]]
           /\ budget' \in [Bounds -> Nat]
<1>1. wk[p][r] \in Workers
  BY ActiveWorker
<1>2. CASE /\ obj' = [obj EXCEPT ![r] = o]
           /\ wk' = [wk EXCEPT ![p][r].copy = o, ![p][r].pc = pc]
           /\ UNCHANGED budget
  <2>1. [wk[p][r] EXCEPT !.copy = o, !.pc = pc] \in Workers
    BY <1>1 DEF Workers
  <2>2. wk' = [wk EXCEPT ![p][r] = [wk[p][r] EXCEPT !.copy = o, !.pc = pc]]
    BY <1>2 DEF TypedWith
  <2>3. wk' \in [Pods -> [Resources -> Workers \cup {Resting}]]
    BY <2>1, <2>2, WorkerType
  <2> QED
    BY <1>2, <2>3 DEF TypedWith
<1>3. CASE /\ (~Current(p, r) /\ UNCHANGED budget) \/ Fault("kube")
           /\ Rest(p, r)
           /\ UNCHANGED obj
  <2>1. budget' \in [Bounds -> Nat]
    BY <1>3, FaultType DEF TypedWith
  <2> QED
    BY <1>3, <2>1, RestType DEF TypedWith
<1> QED
  BY <1>2, <1>3 DEF Update

LEMMA FinishType ==
    ASSUME NEW items, TypedWith(items), NEW p \in Pods, NEW r \in Resources, NEW ready \in BOOLEAN,
           Finish(p, r, ready)
    PROVE  /\ obj' \in [Resources -> Objects]
           /\ wk' \in [Pods -> [Resources -> Workers \cup {Resting}]]
<1>1. [obj[r] EXCEPT !.ready = ready] \in Objects
  <2>1. obj[r] \in Objects
    BY DEF TypedWith
  <2> QED
    BY <2>1 DEF Objects
<1>2. obj' \in [Resources -> Objects]
  BY <1>1 DEF Finish, TypedWith
<1> QED
  BY <1>2, RestType DEF Finish

(***************************************************************************)
(* One lemma per call of a reconcile.                                      *)
(***************************************************************************)
LEMMA StartAtType ==
    ASSUME NEW items, TypedWith(items), NEW p \in Pods, NEW r \in Resources,
           NEW pc \in PCs, StartAt(p, r, pc)
    PROVE  TypedWith(items)'
<1>1. NewReconcile(cache[p][r], pc) \in Workers
  BY DEF NewReconcile, TypedWith, Workers
<1>2. wk' = [wk EXCEPT ![p][r] = NewReconcile(cache[p][r], pc)]
  BY DEF StartAt
<1>3. wk' \in [Pods -> [Resources -> Workers \cup {Resting}]]
  BY <1>1, <1>2, WorkerType
<1> QED
  BY <1>3 DEF StartAt, TypedWith, kubeVars, ctfdVars

LEMMA AbsentType ==
    ASSUME NEW items, TypedWith(items), NEW p \in Pods, NEW r \in Resources, wk[p][r].pc # "resting", Absent(p, r)
    PROVE  wk' \in [Pods -> [Resources -> Workers \cup {Resting}]]
<1>1. wk[p][r] \in Workers
  BY ActiveWorker
<1>2. CASE Rest(p, r)
  BY <1>2, RestType
<1>3. CASE Goto(p, r, "release")
  BY <1>3, GotoType DEF PCs
<1>4. CASE wk' = [wk EXCEPT ![p][r].pc = "finalizer", ![p][r].todo = "create"]
  <2>1. [wk[p][r] EXCEPT !.pc = "finalizer", !.todo = "create"] \in Workers
    BY <1>1 DEF Workers, PCs
  <2>2. wk' = [wk EXCEPT ![p][r] = [wk[p][r] EXCEPT !.pc = "finalizer", !.todo = "create"]]
    BY <1>4 DEF TypedWith
  <2> QED
    BY <2>1, <2>2, WorkerType
<1> QED
  BY <1>2, <1>3, <1>4 DEF Absent

LEMMA ObservedType ==
    ASSUME NEW items, TypedWith(items), NEW p \in Pods, NEW r \in Resources,
           wk[p][r].pc # "resting", NEW drift, Observed(p, r, drift)
    PROVE  wk' \in [Pods -> [Resources -> Workers \cup {Resting}]]
<1>1. wk[p][r] \in Workers
  BY ActiveWorker
<1>2. ASSUME NEW todo \in {"update", "nothing"},
             wk' = [wk EXCEPT ![p][r].pc = "finalizer", ![p][r].todo = todo]
      PROVE  wk' \in [Pods -> [Resources -> Workers \cup {Resting}]]
  <2>1. [wk[p][r] EXCEPT !.pc = "finalizer", !.todo = todo] \in Workers
    BY <1>1 DEF Workers, PCs
  <2>2. wk' = [wk EXCEPT ![p][r] = [wk[p][r] EXCEPT !.pc = "finalizer", !.todo = todo]]
    BY <1>2 DEF TypedWith
  <2> QED
    BY <2>1, <2>2, WorkerType
<1> QED
  BY <1>1, <1>2, GotoType DEF Observed, PCs

LEMMA AddFinalizerType ==
    ASSUME NEW items, TypedWith(items), NEW p \in Pods, NEW r \in Resources, AddFinalizer(p, r)
    PROVE  TypedWith(items)'
<1> DEFINE o == [Copy(p, r) EXCEPT !.finalizer = TRUE]
<1>1. wk[p][r].pc # "resting" /\ wk[p][r] \in Workers
  BY ActiveWorker DEF AddFinalizer, At
<1>2. o \in Objects
  BY <1>1 DEF Workers, Objects, Copy
<1>3. CASE Update(p, r, o, "finalizer")
  BY <1>1, <1>2, <1>3, UpdateType DEF AddFinalizer, TypedWith, PCs, ctfdVars
<1>4. CASE Finish(p, r, TRUE) /\ UNCHANGED budget
  BY <1>4, FinishType DEF AddFinalizer, TypedWith, ctfdVars
<1>5. CASE Goto(p, r, NextCall(wk[p][r].todo)) /\ UNCHANGED <<obj, budget>>
  BY <1>1, <1>5, GotoType DEF AddFinalizer, TypedWith, PCs, NextCall, ctfdVars
<1> QED
  BY <1>3, <1>4, <1>5 DEF AddFinalizer

LEMMA SetPendingType ==
    ASSUME NEW items, TypedWith(items), NEW p \in Pods, NEW r \in Resources, SetPending(p, r)
    PROVE  TypedWith(items)'
<1>1. wk[p][r].pc # "resting" /\ wk[p][r] \in Workers
  BY ActiveWorker DEF SetPending, At
<1>2. [Copy(p, r) EXCEPT !.mark = "pending"] \in Objects
  BY <1>1 DEF Workers, Objects, Copy
<1> QED
  BY <1>1, <1>2, UpdateType DEF SetPending, TypedWith, PCs, ctfdVars

LEMMA PostType ==
    ASSUME NEW items, TypedWith(items), NEW p \in Pods, NEW r \in Resources,
           NEW new, new \subseteq items, Post(p, r, new)
    PROVE  TypedWith(items)'
<1>1. wk[p][r].pc # "resting" /\ wk[p][r] \in Workers
  BY ActiveWorker DEF Post, At
<1>2. budget' \in [Bounds -> Nat]
  BY FaultType DEF Post, TypedWith
<1>3. ctfd' \in [Ids -> items \cup {NoItem}]
  BY DEF Post, TypedWith, ctfdVars
<1>4. creator' \in [Ids -> Resources \cup {Admin, Nobody}] /\ nextId' \in 1..MaxId + 1
  BY BoundsAssumption DEF Post, TypedWith, ctfdVars
<1>5. wk' \in [Pods -> [Resources -> Workers \cup {Resting}]]
  <2>1. ASSUME nextId <= MaxId,
               wk' = [wk EXCEPT ![p][r].copy.name = nextId, ![p][r].pc = "save"]
        PROVE  wk' \in [Pods -> [Resources -> Workers \cup {Resting}]]
    <3> DEFINE named == [wk[p][r].copy EXCEPT !.name = nextId]
    <3>1. nextId \in Names
      BY <2>1, BoundsAssumption DEF TypedWith, Names
    <3>2. named \in Objects
      BY <1>1, <3>1 DEF Workers, Objects
    <3>3. [wk[p][r] EXCEPT !.copy = named, !.pc = "save"] \in Workers
      BY <1>1, <3>2 DEF Workers, PCs
    <3>4. wk' = [wk EXCEPT ![p][r] = [wk[p][r] EXCEPT !.copy = named, !.pc = "save"]]
      BY <1>1, <2>1 DEF TypedWith, Workers
    <3> QED
      BY <3>3, <3>4, WorkerType
  <2> QED
    BY <1>1, <2>1, GotoType DEF Post, PCs
<1> QED
  BY <1>2, <1>3, <1>4, <1>5 DEF Post, TypedWith, kubeVars

LEMMA SaveCreatedType ==
    ASSUME NEW items, TypedWith(items), NEW p \in Pods, NEW r \in Resources, SaveCreated(p, r)
    PROVE  TypedWith(items)'
<1>1. wk[p][r].pc # "resting" /\ wk[p][r] \in Workers
  BY ActiveWorker DEF SaveCreated, At
<1>2. budget' \in [Bounds -> Nat]
  BY FaultType DEF SaveCreated, TypedWith
<1>3. obj' \in [Resources -> Objects]
  <2>1. obj[r] \in Objects /\ Copy(p, r).name \in Names
    BY <1>1 DEF TypedWith, Workers, Objects, Copy
  <2>2. ASSUME NEW ready \in {FALSE, obj[r].ready}
        PROVE  Created(obj[r], Copy(p, r).name, ready) \in Objects
    BY <2>1 DEF Objects, Created
  <2>3. CASE UNCHANGED obj
    BY <2>3 DEF TypedWith
  <2>4. CASE \E ready \in {FALSE, obj[r].ready} :
                obj' = [obj EXCEPT ![r] = Created(@, Copy(p, r).name, ready)]
    BY <2>2, <2>4 DEF TypedWith
  <2> QED
    BY <2>3, <2>4 DEF SaveCreated, kubeVars
<1>4. wk' \in [Pods -> [Resources -> Workers \cup {Resting}]]
  BY RestType DEF SaveCreated
<1> QED
  BY <1>2, <1>3, <1>4 DEF SaveCreated, TypedWith, kubeVars, ctfdVars

LEMMA SaveFailedType ==
    ASSUME NEW items, TypedWith(items), NEW p \in Pods, NEW r \in Resources, SaveFailed(p, r)
    PROVE  TypedWith(items)'
<1>1. budget' \in [Bounds -> Nat]
  BY FaultType DEF SaveFailed, TypedWith
<1>2. obj' \in [Resources -> Objects]
  <2>1. obj[r] \in Objects
    BY DEF TypedWith
  <2>2. ASSUME NEW ready \in {FALSE, obj[r].ready}
        PROVE  [obj[r] EXCEPT !.mark = "failed", !.ready = ready] \in Objects
    BY <2>1 DEF Objects
  <2>3. CASE UNCHANGED obj
    BY <2>3 DEF TypedWith
  <2>4. CASE \E ready \in {FALSE, obj[r].ready} :
                obj' = [obj EXCEPT ![r].mark = "failed", ![r].ready = ready]
    <3>1. PICK ready \in {FALSE, obj[r].ready} :
             obj' = [obj EXCEPT ![r].mark = "failed", ![r].ready = ready]
      BY <2>4
    <3>2. obj' = [obj EXCEPT ![r] = [obj[r] EXCEPT !.mark = "failed", !.ready = ready]]
      BY <3>1
    <3> QED
      BY <2>2, <3>2 DEF TypedWith
  <2> QED
    BY <2>3, <2>4 DEF SaveFailed
<1>3. wk' \in [Pods -> [Resources -> Workers \cup {Resting}]]
  BY RestType DEF SaveFailed
<1> QED
  BY <1>1, <1>2, <1>3 DEF SaveFailed, TypedWith, ctfdVars

LEMMA DeleteItemType ==
    ASSUME NEW items, TypedWith(items), NEW p \in Pods, NEW r \in Resources, DeleteItem(p, r)
    PROVE  TypedWith(items)'
<1>1. budget' \in [Bounds -> Nat]
  BY FaultType DEF DeleteItem, TypedWith
<1>2. ctfd' \in [Ids -> items \cup {NoItem}]
  BY DEF DeleteItem, TypedWith
<1>3. /\ obj' \in [Resources -> Objects]
      /\ wk' \in [Pods -> [Resources -> Workers \cup {Resting}]]
  BY FinishType DEF DeleteItem
<1> QED
  BY <1>1, <1>2, <1>3 DEF DeleteItem, TypedWith

LEMMA RemoveFinalizerType ==
    ASSUME NEW items, TypedWith(items), NEW p \in Pods, NEW r \in Resources, RemoveFinalizer(p, r)
    PROVE  TypedWith(items)'
<1>1. budget' \in [Bounds -> Nat]
  BY FaultType DEF RemoveFinalizer, TypedWith
<1>2. obj' \in [Resources -> Objects]
  <2>1. obj[r] \in Objects
    BY DEF TypedWith
  <2>2. [obj[r] EXCEPT !.finalizer = FALSE, !.phase = "gone"] \in Objects
    BY <2>1 DEF Objects
  <2>3. CASE obj' = [obj EXCEPT ![r].finalizer = FALSE, ![r].phase = "gone"]
    <3>1. obj' = [obj EXCEPT ![r] = [obj[r] EXCEPT !.finalizer = FALSE, !.phase = "gone"]]
      BY <2>3
    <3> QED
      BY <2>2, <3>1 DEF TypedWith
  <2> QED
    BY <2>3 DEF RemoveFinalizer, TypedWith
<1>3. wk' \in [Pods -> [Resources -> Workers \cup {Resting}]]
  BY RestType DEF RemoveFinalizer
<1> QED
  BY <1>1, <1>2, <1>3 DEF RemoveFinalizer, TypedWith, ctfdVars

LEMMA BookkeepingType ==
    ASSUME NEW items, TypedWith(items), NEW p \in Pods, NEW r \in Resources,
           Bookkeeping(p, r)
    PROVE  TypedWith(items)'
BY AddFinalizerType, SetPendingType, SaveCreatedType, SaveFailedType, RemoveFinalizerType
   DEF Bookkeeping

LEMMA SurroundingsType ==
    ASSUME NEW items, TypedWith(items), Surroundings
    PROVE  TypedWith(items)'
<1>1. ASSUME NEW p \in Pods, NEW r \in Resources, CacheSync(p, r) PROVE TypedWith(items)'
  BY <1>1 DEF CacheSync, TypedWith, kubeVars, ctfdVars
<1>2. ASSUME NEW r \in Resources, GraceElapses(r) PROVE TypedWith(items)'
  BY <1>2 DEF GraceElapses, TypedWith, ctfdVars
<1>3. ASSUME NEW r \in Resources, EditSpec(r) PROVE TypedWith(items)'
  <2>1. obj[r] \in Objects
    BY DEF TypedWith
  <2>2. PICK spec \in Specs : obj' = [obj EXCEPT ![r].spec = spec, ![r].gen = @ + 1]
    BY <1>3 DEF EditSpec
  <2>3. [obj[r] EXCEPT !.spec = spec, !.gen = @ + 1] \in Objects
    <3>1. obj[r].gen + 1 \in Nat
      BY <2>1 DEF Objects
    <3> QED
      BY <2>1, <3>1 DEF Objects
  <2>4. obj' = [obj EXCEPT ![r] = [obj[r] EXCEPT !.spec = spec, !.gen = @ + 1]]
    BY <2>2
  <2>5. budget' \in [Bounds -> Nat]
    BY <1>3, SpendType DEF EditSpec, TypedWith, Bounds
  <2> QED
    BY <1>3, <2>3, <2>4, <2>5 DEF EditSpec, TypedWith, ctfdVars
<1>4. ASSUME NEW r \in Resources, DeleteResource(r) PROVE TypedWith(items)'
  <2>1. obj[r] \in Objects
    BY DEF TypedWith
  <2> DEFINE phase == IF obj[r].finalizer THEN "deleting" ELSE "gone"
  <2>2. [obj[r] EXCEPT !.phase = phase] \in Objects
    BY <2>1 DEF Objects
  <2>3. obj' = [obj EXCEPT ![r] = [obj[r] EXCEPT !.phase = phase]]
    BY <1>4 DEF DeleteResource
  <2> QED
    BY <1>4, <2>2, <2>3 DEF DeleteResource, TypedWith, ctfdVars
<1>5. ASSUME NEW p \in Pods, Crash(p) PROVE TypedWith(items)'
  <2>1. budget' \in [Bounds -> Nat]
    BY <1>5, SpendType DEF Crash, TypedWith, Bounds
  <2> QED
    BY <1>5, <2>1 DEF Crash, TypedWith, kubeVars, ctfdVars
<1> QED
  BY <1>1, <1>2, <1>3, <1>4, <1>5 DEF Surroundings

LEMMA InterveneType ==
    ASSUME NEW items, TypedWith(items), NEW id \in Ids, NEW S, S \subseteq items \cup {NoItem},
           Intervene(id, S)
    PROVE  TypedWith(items)'
<1>1. ctfd' \in [Ids -> items \cup {NoItem}]
  BY DEF Intervene, TypedWith
<1>2. budget' \in [Bounds -> Nat]
  BY SpendType DEF Intervene, TypedWith, Bounds
<1> QED
  BY <1>1, <1>2 DEF Intervene, TypedWith, kubeVars

LEMMA InitType ==
    ASSUME NEW items, NEW handMade \in items, InitWith(handMade)
    PROVE  TypedWith(items)
<1>1. PICK spec \in [Resources -> Specs] : obj = [r \in Resources |-> NewObject(r, spec[r])]
  BY DEF InitWith
<1>2. \A r \in Resources : NewObject(r, spec[r]) \in Objects
  BY ResourcesAssumption DEF NewObject, Objects
<1>3. obj \in [Resources -> Objects] /\ cache \in [Pods -> [Resources -> Objects]]
  BY <1>1, <1>2 DEF InitWith
<1>4. ctfd \in [Ids -> items \cup {NoItem}]
  BY DEF InitWith
<1>5. creator \in [Ids -> Resources \cup {Admin, Nobody}]
  BY DEF InitWith
<1>6. nextId \in 1..MaxId + 1
  BY BoundsAssumption DEF InitWith
<1>7. budget \in [Bounds -> Nat]
  BY BoundsAssumption DEF InitWith, Bounds
<1> QED
  BY <1>3, <1>4, <1>5, <1>6, <1>7 DEF InitWith, TypedWith

----------------------------------------------------------------------------
(***************************************************************************)
(* A call of a reconcile moves that reconcile alone.                       *)
(***************************************************************************)
MovesOnly(p, r) ==
    \A q \in Pods, s \in Resources : q # p \/ s # r => wk'[q][s] = wk[q][s]

LEMMA OthersRest ==
    ASSUME NEW items, TypedWith(items), NEW p \in Pods, NEW r \in Resources,
           \/ \E pc : StartAt(p, r, pc) \/ Goto(p, r, pc)
           \/ Absent(p, r) \/ \E drift : Observed(p, r, drift)
           \/ Bookkeeping(p, r) \/ \E new : Post(p, r, new)
           \/ DeleteItem(p, r) \/ Rest(p, r) \/ \E ready : Finish(p, r, ready)
    PROVE  MovesOnly(p, r)
<1> USE DEF MovesOnly, TypedWith
<1>1. ASSUME NEW pc, StartAt(p, r, pc) \/ Goto(p, r, pc) PROVE MovesOnly(p, r)
  BY <1>1 DEF StartAt, Goto
<1>2. CASE Rest(p, r)
  BY <1>2 DEF Rest
<1>3. CASE Absent(p, r)
  BY <1>1, <1>2, <1>3 DEF Absent, Goto
<1>4. ASSUME NEW drift, Observed(p, r, drift) PROVE MovesOnly(p, r)
  BY <1>4 DEF Observed, Goto
<1>5. CASE AddFinalizer(p, r) \/ SetPending(p, r)
  BY <1>1, <1>2, <1>5 DEF AddFinalizer, SetPending, Update, Finish
<1>6. ASSUME NEW new, Post(p, r, new) PROVE MovesOnly(p, r)
  BY <1>1, <1>6 DEF Post
<1>7. CASE SaveCreated(p, r) \/ SaveFailed(p, r) \/ RemoveFinalizer(p, r) \/ DeleteItem(p, r)
  BY <1>2, <1>7 DEF SaveCreated, SaveFailed, RemoveFinalizer, DeleteItem, Finish
<1>8. ASSUME NEW ready, Finish(p, r, ready) PROVE MovesOnly(p, r)
  BY <1>2, <1>8 DEF Finish
<1> QED
  BY <1>1, <1>2, <1>3, <1>4, <1>5, <1>6, <1>7, <1>8 DEF Bookkeeping

----------------------------------------------------------------------------
(***************************************************************************)
(* No item is lost and none is made twice.  Most steps are quiet: they     *)
(* leave alone what ties the objects to the items.                         *)
(***************************************************************************)
ObjectsKept ==
    \A s \in Resources :
        /\ obj'[s].name = obj[s].name /\ obj'[s].mark = obj[s].mark
        /\ obj'[s].phase = "gone" <=> obj[s].phase = "gone"
        /\ obj[s].finalizer => obj'[s].finalizer

ItemsKept ==
    /\ creator' = creator /\ nextId' = nextId
    /\ \A id \in Ids : ctfd[id] = NoItem => ctfd'[id] = NoItem

CachesKept ==
    \A q \in Pods, s \in Resources :
        cache'[q][s] = cache[q][s] \/ cache'[q][s] = obj[s]

\* A reconcile that a quiet step moves, moves within the calls before a POST
\* or ends, and knows what AbsenceSeen asks it to know.
WorkerKept(q, s) ==
    \/ wk'[q][s] = wk[q][s]
    \/ wk'[q][s].pc = "resting"
    \/ /\ Before(q, s)'
       /\ wk'[q][s].copy.mark # "pending"
       /\ wk'[q][s].copy.name < nextId
       /\ wk'[q][s].pc = "pending" => wk'[q][s].copy.finalizer
       /\ \/ wk'[q][s].pc \in {"pending", "release"}
          \/ wk'[q][s].pc = "finalizer" /\ wk'[q][s].todo = "create"
          => ~Exists(wk'[q][s].copy.name)

\* Items only go away in a quiet step.
LEMMA QuietCreatedBy ==
    ASSUME ItemsKept, NEW s \in Resources
    PROVE  CreatedBy(s)' \subseteq CreatedBy(s)
BY DEF ItemsKept, CreatedBy

LEMMA QuietStep ==
    ASSUME NEW items, TypedWith(items), TypedWith(items)', Traceable, ObjectsKept, ItemsKept, CachesKept,
           \A q \in Pods, s \in Resources : WorkerKept(q, s)
    PROVE  Traceable'
<1>1. IdsInOrder'
  <2>1. \A id \in Ids : id >= nextId' => ctfd'[id] = NoItem
    BY DEF Traceable, IdsInOrder, ItemsKept
  <2>2. \A s \in Resources : obj'[s].name < nextId'
    BY DEF Traceable, IdsInOrder, ItemsKept, ObjectsKept
  <2>3. \A q \in Pods, s \in Resources : cache'[q][s].name < nextId'
    BY DEF Traceable, IdsInOrder, ItemsKept, CachesKept
  <2>4. ASSUME NEW q \in Pods, NEW s \in Resources, wk'[q][s].pc # "resting"
        PROVE  wk'[q][s].copy.name < nextId'
    BY <2>4 DEF Traceable, IdsInOrder, ItemsKept, WorkerKept, Copy
  <2> QED
    BY <2>1, <2>2, <2>3, <2>4 DEF IdsInOrder, Copy
<1>2. OneCreates'
  <2>1. ASSUME NEW q \in Pods, NEW s \in Resources, Creating(q, s)' PROVE Creating(q, s)
    BY <2>1 DEF WorkerKept, Creating, Before
  <2>2. ASSUME NEW q \in Pods, NEW s \in Resources, Creating(q, s)'
        PROVE  /\ obj'[s].mark = "pending" /\ obj'[s].finalizer /\ obj'[s].phase # "gone"
               /\ \A o \in Pods : Creating(o, s)' => o = q
    BY <2>1, <2>2 DEF Traceable, OneCreates, ObjectsKept
  <2>3. ASSUME NEW q \in Pods, NEW s \in Resources, Before(q, s)'
        PROVE  wk'[q][s].copy.mark # "pending"
    BY <2>3 DEF Traceable, OneCreates, WorkerKept, Before, Copy
  <2> QED
    BY <2>2, <2>3 DEF OneCreates, Copy
<1>3. AbsenceSeen'
  <2> SUFFICES ASSUME NEW q \in Pods, NEW s \in Resources
               PROVE  /\ wk'[q][s].pc = "pending" => wk'[q][s].copy.finalizer
                      /\ \/ wk'[q][s].pc \in {"pending", "release"}
                         \/ wk'[q][s].pc = "finalizer" /\ wk'[q][s].todo = "create"
                         => ~Exists(wk[q][s].copy.name)'
    BY DEF AbsenceSeen, Copy
  <2>1. CASE wk'[q][s] = wk[q][s]
    BY <2>1 DEF Traceable, AbsenceSeen, Copy, ItemsKept, Exists
  <2>2. CASE wk'[q][s].pc = "resting"
    BY <2>2
  <2>3. CASE wk'[q][s] # wk[q][s] /\ wk'[q][s].pc # "resting"
    BY <2>3 DEF WorkerKept, ItemsKept, Exists
  <2> QED
    BY <2>1, <2>2, <2>3
<1>4. CreationKnown'
  <2> SUFFICES ASSUME NEW q \in Pods, NEW s \in Resources, Creating(q, s)'
               PROVE  /\ wk'[q][s].pc \in {"post", "saveFailed"} => CreatedBy(s)' = {}
                      /\ wk'[q][s].pc = "save" => CreatedBy(s)' \subseteq {wk'[q][s].copy.name}
    BY DEF CreationKnown, Creating, Copy
  <2>1. wk'[q][s] = wk[q][s]
    BY DEF WorkerKept, Creating, Before
  <2> QED
    BY <2>1, QuietCreatedBy DEF Traceable, CreationKnown, Copy
<1>5. FinalizerHolds'
  BY QuietCreatedBy DEF Traceable, FinalizerHolds, ObjectsKept
<1>6. NoOrphan'
  BY QuietCreatedBy DEF Traceable, NoOrphan, ObjectsKept
<1>7. AtMostOne'
  BY QuietCreatedBy DEF Traceable, AtMostOne
<1> QED
  BY <1>1, <1>2, <1>3, <1>4, <1>5, <1>6, <1>7 DEF Traceable

\* A quiet call of a reconcile need only be looked at for the worker that makes it.
LEMMA QuietReconcile ==
    ASSUME NEW items, TypedWith(items), TypedWith(items)', Traceable,
           NEW p \in Pods, NEW r \in Resources, MovesOnly(p, r),
           ObjectsKept, ItemsKept, cache' = cache, WorkerKept(p, r)
    PROVE  Traceable'
<1>1. CachesKept
  BY DEF CachesKept
<1>2. \A q \in Pods, s \in Resources : WorkerKept(q, s)
  BY DEF WorkerKept, MovesOnly
<1> QED
  BY <1>1, <1>2, QuietStep

\* A worker before a POST has an unmarked copy with a name CTFd has given out.
LEMMA MoverKnows ==
    ASSUME NEW items, TypedWith(items), Traceable, NEW p \in Pods, NEW r \in Resources, Before(p, r)
    PROVE  /\ wk[p][r] \in Workers
           /\ wk[p][r].copy.mark # "pending"
           /\ wk[p][r].copy.name < nextId
BY ActiveWorker DEF Traceable, OneCreates, IdsInOrder, Before, Copy

LEMMA RestKept ==
    ASSUME NEW items, TypedWith(items), NEW p \in Pods, NEW r \in Resources, Rest(p, r)
    PROVE  WorkerKept(p, r)
BY DEF Rest, WorkerKept, TypedWith, Resting

\* A worker that goes on to a call that asks for no knowledge of absence.
LEMMA ProceedKept ==
    ASSUME NEW items, TypedWith(items), Traceable, NEW p \in Pods, NEW r \in Resources,
           Before(p, r), Before(p, r)', wk'[p][r].copy = wk[p][r].copy,
           wk'[p][r].pc \notin {"pending", "release", "finalizer"}
    PROVE  WorkerKept(p, r)
BY MoverKnows DEF WorkerKept

LEMMA StartAtTraceable ==
    ASSUME NEW items, TypedWith(items), TypedWith(items)', Traceable,
           NEW p \in Pods, NEW r \in Resources,
           NEW pc \in {"track", "resolve", "get"}, StartAt(p, r, pc)
    PROVE  Traceable'
<1>1. cache[p][r].name < nextId
  BY DEF Traceable, IdsInOrder
<1>2. wk'[p][r] = [pc |-> pc, copy |-> cache[p][r], seen |-> Unset, drift |-> FALSE,
                   todo |-> "nothing"]
  BY DEF StartAt, NewReconcile, TypedWith
<1>3. WorkerKept(p, r)
  BY <1>1, <1>2 DEF WorkerKept, Before, StartAt
<1>4. ObjectsKept /\ ItemsKept /\ cache' = cache /\ MovesOnly(p, r)
  BY OthersRest DEF StartAt, ObjectsKept, ItemsKept, kubeVars, ctfdVars
<1> QED
  BY <1>3, <1>4, QuietReconcile

LEMMA AbsentKept ==
    ASSUME NEW items, TypedWith(items), Traceable, NEW p \in Pods, NEW r \in Resources,
           Before(p, r), Absent(p, r), ~Exists(Copy(p, r).name)
    PROVE  WorkerKept(p, r)
<1>1. /\ wk[p][r] \in Workers /\ wk[p][r].copy.mark # "pending"
      /\ wk[p][r].copy.name < nextId
  BY MoverKnows
<1>2. wk[p] \in [Resources -> Workers \cup {Resting}] /\ p \in DOMAIN wk
  BY DEF TypedWith
<1>3. CASE Goto(p, r, "release")
  <2>1. wk'[p][r] = [wk[p][r] EXCEPT !.pc = "release"]
    BY <1>2, <1>3 DEF Goto
  <2> QED
    BY <1>1, <2>1 DEF WorkerKept, Before, Workers, Copy
<1>4. CASE wk' = [wk EXCEPT ![p][r].pc = "finalizer", ![p][r].todo = "create"]
  <2>1. wk'[p][r] = [wk[p][r] EXCEPT !.pc = "finalizer", !.todo = "create"]
    BY <1>2, <1>4
  <2> QED
    BY <1>1, <2>1 DEF WorkerKept, Before, Workers, Copy
<1> QED
  BY <1>3, <1>4, RestKept DEF Absent

LEMMA ObservedKept ==
    ASSUME NEW items, TypedWith(items), Traceable, NEW p \in Pods, NEW r \in Resources,
           Before(p, r), NEW drift, Observed(p, r, drift)
    PROVE  WorkerKept(p, r)
<1>1. /\ wk[p][r] \in Workers /\ wk[p][r].copy.mark # "pending"
      /\ wk[p][r].copy.name < nextId
  BY MoverKnows
<1>2. ASSUME NEW todo \in {"update", "nothing"},
             wk' = [wk EXCEPT ![p][r].pc = "finalizer", ![p][r].todo = todo]
      PROVE  WorkerKept(p, r)
  <2>1. wk'[p][r] = [wk[p][r] EXCEPT !.pc = "finalizer", !.todo = todo]
    BY <1>2 DEF TypedWith
  <2> QED
    BY <1>1, <2>1 DEF Before, WorkerKept, Workers
<1>3. ASSUME Goto(p, r, "delete") PROVE WorkerKept(p, r)
  <2>1. wk'[p][r] = [wk[p][r] EXCEPT !.pc = "delete"]
    BY <1>3 DEF Goto, TypedWith
  <2> QED
    BY <1>1, <2>1 DEF Before, WorkerKept, Workers
<1> QED
  BY <1>2, <1>3 DEF Observed

\* The status write at the end of a reconcile leaves names, marks and finalizers alone.
LEMMA FinishKept ==
    ASSUME NEW items, TypedWith(items), NEW p \in Pods, NEW r \in Resources, NEW ready, Finish(p, r, ready)
    PROVE  ObjectsKept /\ WorkerKept(p, r)
<1>1. \A s \in Resources : obj[s] \in Objects
  BY DEF TypedWith
<1>2. ObjectsKept
  BY <1>1 DEF Finish, ObjectsKept, TypedWith, Objects
<1> QED
  BY <1>2, RestKept DEF Finish

LEMMA AddFinalizerTraceable ==
    ASSUME NEW items, TypedWith(items), TypedWith(items)', Traceable, NEW p \in Pods, NEW r \in Resources, AddFinalizer(p, r)
    PROVE  Traceable'
<1> DEFINE o == [Copy(p, r) EXCEPT !.finalizer = TRUE]
<1>1. wk[p][r].pc = "finalizer" /\ Before(p, r)
  BY DEF AddFinalizer, At, Before
<1>2. /\ wk[p][r] \in Workers /\ wk[p][r].copy.mark # "pending"
      /\ wk[p][r].copy.name < nextId
  BY <1>1, MoverKnows
<1>3. Copy(p, r) \in Objects
  BY <1>2 DEF Workers, Copy
<1>4. wk[p][r].todo = "create" => ~Exists(wk[p][r].copy.name)
  BY <1>1 DEF Traceable, AbsenceSeen, Copy
<1>5. ASSUME Current(p, r),
             obj' = [obj EXCEPT ![r] = o],
             wk' = [wk EXCEPT ![p][r].copy = o, ![p][r].pc = "finalizer"]
      PROVE  ObjectsKept /\ WorkerKept(p, r)
  <2>1. ObjectsKept
    BY <1>3, <1>5 DEF ObjectsKept, Current, TypedWith, Objects
  <2>2. wk'[p][r] = [wk[p][r] EXCEPT !.copy = o, !.pc = "finalizer"]
    BY <1>5 DEF TypedWith
  <2>3. o.mark = wk[p][r].copy.mark /\ o.name = wk[p][r].copy.name
    BY <1>3 DEF Objects, Copy
  <2>4. /\ wk'[p][r].copy = o /\ wk'[p][r].pc = "finalizer"
        /\ wk'[p][r].todo = wk[p][r].todo
    BY <1>2, <2>2 DEF Workers
  <2>5. WorkerKept(p, r)
    <3> HIDE DEF o
    <3> QED
      BY <1>2, <1>4, <2>3, <2>4 DEF WorkerKept, Before
  <2> QED
    BY <2>1, <2>5
<1>6. ASSUME Rest(p, r), UNCHANGED obj PROVE ObjectsKept /\ WorkerKept(p, r)
  BY <1>6, RestKept DEF ObjectsKept
<1>7. ASSUME Finish(p, r, TRUE) PROVE ObjectsKept /\ WorkerKept(p, r)
  BY <1>7, FinishKept
<1>8. ASSUME wk[p][r].copy.finalizer, Goto(p, r, NextCall(wk[p][r].todo)), UNCHANGED obj
      PROVE  ObjectsKept /\ WorkerKept(p, r)
  <2>1. wk'[p][r] = [wk[p][r] EXCEPT !.pc = NextCall(wk[p][r].todo)]
    BY <1>8 DEF Goto, TypedWith
  <2>2. WorkerKept(p, r)
    BY <1>2, <1>4, <1>8, <2>1 DEF WorkerKept, Before, NextCall, Workers
  <2> QED
    BY <1>8, <2>2 DEF ObjectsKept
<1>9. ObjectsKept /\ WorkerKept(p, r)
  BY <1>5, <1>6, <1>7, <1>8 DEF AddFinalizer, Update, Copy
<1>10. ItemsKept /\ cache' = cache /\ MovesOnly(p, r)
  BY OthersRest DEF AddFinalizer, ItemsKept, ctfdVars, Bookkeeping
<1> QED
  BY <1>9, <1>10, QuietReconcile

LEMMA DeleteItemTraceable ==
    ASSUME NEW items, TypedWith(items), TypedWith(items)', Traceable,
           NEW p \in Pods, NEW r \in Resources, DeleteItem(p, r)
    PROVE  Traceable'
<1>1. ObjectsKept /\ WorkerKept(p, r)
  BY FinishKept DEF DeleteItem
<1>2. ItemsKept
  BY DEF DeleteItem, ItemsKept, TypedWith
<1>3. cache' = cache /\ MovesOnly(p, r)
  BY OthersRest DEF DeleteItem
<1> QED
  BY <1>1, <1>2, <1>3, QuietReconcile

----------------------------------------------------------------------------
(***************************************************************************)
(* The steps that are not quiet: those of Create, the release of the       *)
(* object and its deletion.                                                *)
(***************************************************************************)
\* A worker with the newest version of an unmarked object, whose item it
\* has seen absent, knows that the object's resource has nothing in CTFd.
LEMMA NothingLeft ==
    ASSUME NEW items, TypedWith(items), Traceable, NEW p \in Pods, NEW r \in Resources,
           wk[p][r].pc \in {"pending", "release"}, Current(p, r)
    PROVE  CreatedBy(r) = {} /\ obj[r].mark # "pending"
<1>1. Before(p, r)
  BY DEF Before
<1>2. obj[r].mark # "pending"
  BY <1>1, MoverKnows DEF Current, Copy
<1>3. ~Exists(obj[r].name)
  BY DEF Traceable, AbsenceSeen, Current
<1>4. \A id \in CreatedBy(r) : obj[r].name = id /\ Exists(id)
  BY <1>2 DEF Traceable, NoOrphan, CreatedBy, Exists
<1> QED
  BY <1>2, <1>3, <1>4

LEMMA SetPendingTraceable ==
    ASSUME NEW items, TypedWith(items), TypedWith(items)', Traceable, NEW p \in Pods, NEW r \in Resources, SetPending(p, r)
    PROVE  Traceable'
<1> DEFINE o == [Copy(p, r) EXCEPT !.mark = "pending"]
<1>1. wk[p][r].pc = "pending" /\ Before(p, r) /\ MovesOnly(p, r)
  BY OthersRest DEF SetPending, At, Before, Bookkeeping
<1>2. wk[p][r] \in Workers /\ wk[p][r].copy.name < nextId
  BY <1>1, MoverKnows
<1>3. cache' = cache /\ ctfd' = ctfd /\ creator' = creator /\ nextId' = nextId
  BY DEF SetPending, ctfdVars
<1>4. ASSUME Rest(p, r), UNCHANGED obj PROVE Traceable'
  <2>1. ObjectsKept /\ ItemsKept /\ WorkerKept(p, r)
    BY <1>3, <1>4, RestKept DEF ObjectsKept, ItemsKept
  <2> QED
    BY <1>1, <1>3, <2>1, QuietReconcile
<1>5. ASSUME Current(p, r), obj' = [obj EXCEPT ![r] = o],
             wk' = [wk EXCEPT ![p][r].copy = o, ![p][r].pc = "post"]
      PROVE  Traceable'
  <2>1. CreatedBy(r) = {} /\ obj[r].mark # "pending"
    BY <1>1, <1>5, NothingLeft
  <2>2. wk[p][r].copy \in Objects /\ Copy(p, r) = wk[p][r].copy
    BY <1>2 DEF Workers, Copy
  <2>3. /\ o.mark = "pending" /\ o.name = wk[p][r].copy.name
        /\ o.finalizer = wk[p][r].copy.finalizer /\ o.phase = obj[r].phase
    BY <1>5, <2>2 DEF Objects, Current
  <2>4. o.finalizer /\ o.phase # "gone"
    BY <1>1, <1>5, <2>2, <2>3 DEF Traceable, AbsenceSeen, Current
  <2>5. wk'[p][r].copy = o /\ wk'[p][r].pc = "post"
    BY <1>2, <1>5 DEF Workers, TypedWith
  <2>6. \A q \in Pods, s \in Resources : q # p \/ s # r => wk'[q][s] = wk[q][s]
    BY <1>1 DEF MovesOnly
  <2>7. obj'[r] = o /\ \A s \in Resources : s # r => obj'[s] = obj[s]
    BY <1>5 DEF TypedWith
  <2>8. \A q \in Pods : ~Creating(q, r)
    BY <2>1 DEF Traceable, OneCreates
  <2>9. \A s \in Resources : CreatedBy(s)' = CreatedBy(s)
    BY <1>3 DEF CreatedBy
  <2> HIDE DEF o
  <2>10. IdsInOrder'
    BY <1>2, <1>3, <2>3, <2>5, <2>6, <2>7 DEF Traceable, IdsInOrder, Copy
  <2>11. OneCreates'
    <3>1. ASSUME NEW q \in Pods, NEW s \in Resources, Creating(q, s)'
          PROVE  /\ obj'[s].mark = "pending" /\ obj'[s].finalizer /\ obj'[s].phase # "gone"
                 /\ \A q2 \in Pods : Creating(q2, s)' => q2 = q
      <4>1. CASE s = r
        BY <2>3, <2>4, <2>6, <2>7, <2>8, <3>1, <4>1 DEF Creating
      <4>2. CASE s # r
        BY <2>6, <2>7, <3>1, <4>2 DEF Traceable, OneCreates, Creating
      <4> QED
        BY <4>1, <4>2
    <3>2. ASSUME NEW q \in Pods, NEW s \in Resources, Before(q, s)'
          PROVE  wk'[q][s].copy.mark # "pending"
      BY <2>5, <2>6, <3>2 DEF Traceable, OneCreates, Before, Copy
    <3> QED
      BY <3>1, <3>2 DEF OneCreates, Copy
  <2>12. AbsenceSeen'
    BY <1>3, <2>5, <2>6 DEF Traceable, AbsenceSeen, Copy, Exists
  <2>13. FinalizerHolds'
    BY <2>4, <2>7, <2>9 DEF Traceable, FinalizerHolds
  <2>14. CreationKnown'
    BY <2>1, <2>5, <2>6, <2>9 DEF Traceable, CreationKnown, Copy
  <2>15. NoOrphan'
    BY <2>1, <2>7, <2>9 DEF Traceable, NoOrphan
  <2>16. AtMostOne'
    BY <2>9 DEF Traceable, AtMostOne
  <2> QED
    BY <2>10, <2>11, <2>12, <2>13, <2>14, <2>15, <2>16 DEF Traceable
<1> QED
  BY <1>4, <1>5 DEF SetPending, Update

LEMMA PostTraceable ==
    ASSUME NEW items, ReliableAnswers, TypedWith(items), TypedWith(items)', Traceable,
           NEW p \in Pods, NEW r \in Resources, NEW new, Post(p, r, new)
    PROVE  Traceable'
<1>1. wk[p][r].pc = "post" /\ Creating(p, r) /\ MovesOnly(p, r)
  BY OthersRest DEF Post, At, Creating
<1>2. wk[p][r] \in Workers
  BY <1>1, ActiveWorker
<1>3. obj' = obj /\ cache' = cache
  BY DEF Post, kubeVars
<1>4. CreatedBy(r) = {}
  BY <1>1 DEF Traceable, CreationKnown
<1>5. /\ obj[r].mark = "pending" /\ obj[r].finalizer /\ obj[r].phase # "gone"
      /\ \A q \in Pods : Creating(q, r) => q = p
  BY <1>1 DEF Traceable, OneCreates
<1>6. \A q \in Pods, s \in Resources : q # p \/ s # r => wk'[q][s] = wk[q][s]
  BY <1>1 DEF MovesOnly
<1>7. OneCreates' /\ AbsenceSeen' /\ IdsInOrder' =>
         (FinalizerHolds' /\ CreationKnown' /\ NoOrphan' /\ AtMostOne' => Traceable')
  BY DEF Traceable
<1>8. ASSUME Goto(p, r, "saveFailed"), UNCHANGED ctfdVars PROVE Traceable'
  <2>1. wk'[p][r] = [wk[p][r] EXCEPT !.pc = "saveFailed"]
    BY <1>8 DEF Goto, TypedWith
  <2>2. wk'[p][r].pc = "saveFailed" /\ wk'[p][r].copy = wk[p][r].copy
    BY <1>2, <2>1 DEF Workers
  <2>3. \A s \in Resources : CreatedBy(s)' = CreatedBy(s)
    BY <1>8 DEF CreatedBy, ctfdVars
  <2>4. IdsInOrder'
    BY <1>1, <1>3, <1>6, <1>8, <2>2 DEF Traceable, IdsInOrder, Copy, ctfdVars
  <2>5. OneCreates'
    BY <1>1, <1>3, <1>6, <2>2 DEF Traceable, OneCreates, Creating, Before, Copy
  <2>6. AbsenceSeen'
    BY <1>6, <1>8, <2>2 DEF Traceable, AbsenceSeen, Copy, Exists, ctfdVars
  <2>7. CreationKnown'
    BY <1>4, <1>6, <2>2, <2>3 DEF Traceable, CreationKnown, Copy
  <2>8. FinalizerHolds' /\ NoOrphan' /\ AtMostOne'
    BY <1>3, <2>3 DEF Traceable, FinalizerHolds, NoOrphan, AtMostOne
  <2> QED
    BY <1>7, <2>4, <2>5, <2>6, <2>7, <2>8
<1>9. ASSUME nextId <= MaxId, NEW item,
             ctfd' = [ctfd EXCEPT ![nextId] = item],
             creator' = [creator EXCEPT ![nextId] = r], nextId' = nextId + 1,
             wk' = [wk EXCEPT ![p][r].copy.name = nextId, ![p][r].pc = "save"]
      PROVE  Traceable'
  <2>1. nextId \in Ids /\ nextId \in Nat
    BY <1>9, BoundsAssumption DEF TypedWith, Ids
  <2>2. wk'[p][r].pc = "save" /\ wk'[p][r].copy.name = nextId
    BY <1>2, <1>9 DEF Workers, Objects, TypedWith
  <2>3. \A id \in Ids : id # nextId => ctfd'[id] = ctfd[id] /\ creator'[id] = creator[id]
    BY <1>9 DEF TypedWith
  <2>4. creator'[nextId] = r
    BY <1>9, <2>1 DEF TypedWith
  <2>5. CreatedBy(r)' \subseteq {nextId}
    BY <1>4, <2>3 DEF CreatedBy
  <2>6. ASSUME NEW s \in Resources, s # r PROVE CreatedBy(s)' \subseteq CreatedBy(s)
    BY <2>3, <2>4, <2>6 DEF CreatedBy
  <2>7. \A q \in Pods, s \in Resources : wk[q][s].pc # "resting" =>
           wk[q][s].copy.name \in Int /\ wk[q][s].copy.name < nextId
    <3>1. \A q \in Pods, s \in Resources : wk[q][s].pc # "resting" => wk[q][s] \in Workers
      BY ActiveWorker
    <3> QED
      BY <3>1, BoundsAssumption DEF Traceable, IdsInOrder, Workers, Objects, Names, Copy
  <2>8. \A s \in Resources : obj[s].name \in Int
    BY BoundsAssumption DEF TypedWith, Objects, Names
  <2>9. \A q \in Pods, s \in Resources : cache[q][s].name \in Int
    BY BoundsAssumption DEF TypedWith, Objects, Names
  <2>10. IdsInOrder'
    <3>1. \A id \in Ids : id >= nextId' => ctfd'[id] = NoItem
      BY <1>9, <2>1, <2>3 DEF Traceable, IdsInOrder, Ids
    <3>2. \A s \in Resources : obj'[s].name < nextId'
      BY <1>3, <1>9, <2>1, <2>8 DEF Traceable, IdsInOrder
    <3>3. \A q \in Pods, s \in Resources : cache'[q][s].name < nextId'
      BY <1>3, <1>9, <2>1, <2>9 DEF Traceable, IdsInOrder
    <3>4. ASSUME NEW q \in Pods, NEW s \in Resources, wk'[q][s].pc # "resting"
          PROVE  wk'[q][s].copy.name < nextId'
      <4>1. CASE q = p /\ s = r
        BY <1>9, <2>1, <2>2, <4>1
      <4>2. CASE q # p \/ s # r
        <5>1. wk'[q][s] = wk[q][s]
          BY <1>6, <4>2
        <5>2. wk[q][s].copy.name \in Int /\ wk[q][s].copy.name < nextId
          BY <2>7, <3>4, <5>1
        <5> QED
          BY <1>9, <2>1, <5>1, <5>2
      <4> QED
        BY <4>1, <4>2
    <3> QED
      BY <3>1, <3>2, <3>3, <3>4 DEF IdsInOrder, Copy
  <2>11. OneCreates'
    BY <1>1, <1>3, <1>6, <2>2 DEF Traceable, OneCreates, Creating, Before, Copy
  <2>12. AbsenceSeen'
    <3> SUFFICES ASSUME NEW q \in Pods, NEW s \in Resources
                 PROVE  /\ wk'[q][s].pc = "pending" => wk'[q][s].copy.finalizer
                        /\ \/ wk'[q][s].pc \in {"pending", "release"}
                           \/ wk'[q][s].pc = "finalizer" /\ wk'[q][s].todo = "create"
                           => ~Exists(wk[q][s].copy.name)'
      BY DEF AbsenceSeen, Copy
    <3>1. CASE q = p /\ s = r
      BY <2>2, <3>1
    <3>2. CASE q # p \/ s # r
      BY <1>6, <2>3, <2>7, <3>2, <2>1 DEF Traceable, AbsenceSeen, Copy, Exists, Ids
    <3> QED
      BY <3>1, <3>2
  <2>13. CreationKnown'
    <3> SUFFICES ASSUME NEW q \in Pods, NEW s \in Resources, Creating(q, s)'
                 PROVE  /\ wk'[q][s].pc \in {"post", "saveFailed"} => CreatedBy(s)' = {}
                        /\ wk'[q][s].pc = "save" => CreatedBy(s)' \subseteq {wk'[q][s].copy.name}
      BY DEF CreationKnown, Creating, Copy
    <3>1. CASE s = r
      BY <1>5, <1>6, <2>2, <2>5, <3>1 DEF Creating
    <3>2. CASE s # r
      BY <1>6, <2>6, <3>2 DEF Traceable, CreationKnown, Copy
    <3> QED
      BY <3>1, <3>2
  <2>14. FinalizerHolds'
    BY <1>3, <1>5, <2>6 DEF Traceable, FinalizerHolds
  <2>15. NoOrphan'
    BY <1>3, <1>5, <2>6 DEF Traceable, NoOrphan
  <2>16. AtMostOne'
    BY <2>5, <2>6 DEF Traceable, AtMostOne
  <2> QED
    BY <1>7, <2>10, <2>11, <2>12, <2>13, <2>14, <2>15, <2>16
<1> QED
  BY <1>8, <1>9 DEF Post, ReliableAnswers, Fault

LEMMA SaveTraceable ==
    ASSUME NEW items, TypedWith(items), TypedWith(items)', Traceable, NEW p \in Pods, NEW r \in Resources,
           SaveCreated(p, r) \/ SaveFailed(p, r)
    PROVE  Traceable'
<1>1. wk[p][r].pc \in {"save", "saveFailed"} /\ Creating(p, r) /\ MovesOnly(p, r)
  BY OthersRest DEF SaveCreated, SaveFailed, At, Creating, Bookkeeping
<1>2. wk[p][r] \in Workers /\ Copy(p, r).name < nextId
  BY <1>1, ActiveWorker DEF Traceable, IdsInOrder
<1>3. cache' = cache /\ ctfd' = ctfd /\ creator' = creator /\ nextId' = nextId
  BY DEF SaveCreated, SaveFailed, ctfdVars
<1>4. Rest(p, r)
  BY DEF SaveCreated, SaveFailed
<1>5. CASE UNCHANGED obj
  <2>1. ObjectsKept /\ ItemsKept /\ WorkerKept(p, r)
    BY <1>3, <1>4, <1>5, RestKept DEF ObjectsKept, ItemsKept
  <2> QED
    BY <1>1, <1>3, <2>1, QuietReconcile
<1>6. obj[r] \in Objects /\ obj[r].finalizer /\ obj[r].phase # "gone"
  BY <1>1 DEF Traceable, OneCreates, TypedWith
<1>7. ASSUME NEW o, obj' = [obj EXCEPT ![r] = o],
             o.finalizer, o.phase # "gone", o.name < nextId, CreatedBy(r) \subseteq {o.name}
      PROVE  Traceable'
  <2>1. \A q \in Pods, s \in Resources : q # p \/ s # r => wk'[q][s] = wk[q][s]
    BY <1>1 DEF MovesOnly
  <2>2. wk'[p][r] = Resting
    BY <1>4 DEF Rest, TypedWith
  <2>3. \A q \in Pods : Creating(q, r) => q = p
    BY <1>1 DEF Traceable, OneCreates
  <2>4. obj'[r] = o /\ \A s \in Resources : s # r => obj'[s] = obj[s]
    BY <1>7 DEF TypedWith
  <2>5. \A s \in Resources : CreatedBy(s)' = CreatedBy(s)
    BY <1>3 DEF CreatedBy
  <2>6. IdsInOrder'
    BY <1>3, <1>7, <2>1, <2>2, <2>4 DEF Traceable, IdsInOrder, Copy, Resting
  <2>7. OneCreates'
    <3>1. ASSUME NEW q \in Pods, NEW s \in Resources, Creating(q, s)'
          PROVE  s # r /\ wk'[q][s] = wk[q][s] /\ Creating(q, s)
      BY <2>1, <2>2, <2>3, <3>1 DEF Creating, Resting
    <3>2. ASSUME NEW q \in Pods, NEW s \in Resources, Creating(q, s)'
          PROVE  /\ obj'[s].mark = "pending" /\ obj'[s].finalizer /\ obj'[s].phase # "gone"
                 /\ \A q2 \in Pods : Creating(q2, s)' => q2 = q
      BY <2>4, <3>1, <3>2 DEF Traceable, OneCreates
    <3>3. ASSUME NEW q \in Pods, NEW s \in Resources, Before(q, s)'
          PROVE  wk'[q][s].copy.mark # "pending"
      BY <2>1, <2>2, <3>3 DEF Traceable, OneCreates, Before, Resting, Copy
    <3> QED
      BY <3>2, <3>3 DEF OneCreates, Copy
  <2>8. AbsenceSeen'
    BY <1>3, <2>1, <2>2 DEF Traceable, AbsenceSeen, Copy, Exists, Resting
  <2>9. CreationKnown'
    BY <2>1, <2>2, <2>5 DEF Traceable, CreationKnown, Copy, Resting
  <2>10. FinalizerHolds'
    <3>1. ASSUME NEW s \in Resources, ~obj'[s].finalizer PROVE CreatedBy(s) = {}
      BY <1>7, <2>4, <3>1 DEF Traceable, FinalizerHolds
    <3> QED
      BY <2>5, <3>1 DEF FinalizerHolds
  <2>11. NoOrphan'
    BY <1>7, <2>4, <2>5 DEF Traceable, NoOrphan
  <2>12. AtMostOne'
    BY <2>5 DEF Traceable, AtMostOne
  <2> QED
    BY <2>6, <2>7, <2>8, <2>9, <2>10, <2>11, <2>12 DEF Traceable
<1>8. CASE SaveCreated(p, r) /\ ~UNCHANGED obj
  <2>1. wk[p][r].pc = "save"
    BY <1>8 DEF SaveCreated, At
  <2>2. CreatedBy(r) \subseteq {Copy(p, r).name}
    BY <2>1 DEF Traceable, CreationKnown
  <2>3. PICK ready \in {FALSE, obj[r].ready} :
           obj' = [obj EXCEPT ![r] = Created(@, Copy(p, r).name, ready)]
    BY <1>8 DEF SaveCreated, kubeVars
  <2> DEFINE o == Created(obj[r], Copy(p, r).name, ready)
  <2>4. /\ obj' = [obj EXCEPT ![r] = o]
        /\ o.name = Copy(p, r).name /\ o.finalizer /\ o.phase # "gone"
    BY <1>6, <2>3 DEF Objects, Created
  <2> HIDE DEF o
  <2> QED
    BY <1>2, <1>7, <2>2, <2>4
<1>9. CASE SaveFailed(p, r) /\ ~UNCHANGED obj
  <2>1. wk[p][r].pc = "saveFailed"
    BY <1>9 DEF SaveFailed, At
  <2>2. CreatedBy(r) = {}
    BY <2>1 DEF Traceable, CreationKnown
  <2>3. PICK ready \in {FALSE, obj[r].ready} :
           obj' = [obj EXCEPT ![r].mark = "failed", ![r].ready = ready]
    BY <1>9 DEF SaveFailed
  <2> DEFINE o == [obj[r] EXCEPT !.mark = "failed", !.ready = ready]
  <2>4. /\ obj' = [obj EXCEPT ![r] = o]
        /\ o.name = obj[r].name /\ o.finalizer /\ o.phase # "gone"
    BY <1>6, <2>3 DEF Objects
  <2>5. obj[r].name < nextId
    BY DEF Traceable, IdsInOrder
  <2> HIDE DEF o
  <2> QED
    BY <1>7, <2>2, <2>4, <2>5
<1> QED
  BY <1>5, <1>8, <1>9

LEMMA ReleaseTraceable ==
    ASSUME NEW items, TypedWith(items), TypedWith(items)', Traceable, NEW r \in Resources, CreatedBy(r) = {},
           \A q \in Pods : ~Creating(q, r), NEW o,
           o.name = obj[r].name, o.mark = obj[r].mark,
           obj' = [obj EXCEPT ![r] = o], CachesKept,
           ctfd' = ctfd, creator' = creator, nextId' = nextId,
           \A q \in Pods, s \in Resources : wk'[q][s] = wk[q][s] \/ wk'[q][s].pc = "resting"
    PROVE  Traceable'
<1>1. obj'[r] = o /\ \A s \in Resources : s # r => obj'[s] = obj[s]
  BY DEF TypedWith
<1>2. \A s \in Resources : CreatedBy(s)' = CreatedBy(s)
  BY DEF CreatedBy
<1>3. IdsInOrder'
  BY <1>1 DEF Traceable, IdsInOrder, CachesKept, Copy
<1>4. OneCreates'
  <2>1. ASSUME NEW q \in Pods, NEW s \in Resources, Creating(q, s)'
        PROVE  s # r /\ Creating(q, s) /\ wk'[q][s] = wk[q][s]
    BY <2>1 DEF Traceable, OneCreates, Creating
  <2>2. ASSUME NEW q \in Pods, NEW s \in Resources, Creating(q, s)'
        PROVE  /\ obj'[s].mark = "pending" /\ obj'[s].finalizer /\ obj'[s].phase # "gone"
               /\ \A q2 \in Pods : Creating(q2, s)' => q2 = q
    BY <1>1, <2>1, <2>2 DEF Traceable, OneCreates
  <2>3. ASSUME NEW q \in Pods, NEW s \in Resources, Before(q, s)'
        PROVE  wk'[q][s].copy.mark # "pending"
    BY <2>3 DEF Traceable, OneCreates, Before, Copy
  <2> QED
    BY <2>2, <2>3 DEF OneCreates, Copy
<1>5. AbsenceSeen'
  BY DEF Traceable, AbsenceSeen, Copy, Exists
<1>6. CreationKnown'
  BY <1>2 DEF Traceable, CreationKnown, Copy
<1>7. FinalizerHolds' /\ NoOrphan' /\ AtMostOne'
  BY <1>1, <1>2 DEF Traceable, FinalizerHolds, NoOrphan, AtMostOne
<1> QED
  BY <1>3, <1>4, <1>5, <1>6, <1>7 DEF Traceable

LEMMA RemoveFinalizerTraceable ==
    ASSUME NEW items, TypedWith(items), TypedWith(items)', Traceable, NEW p \in Pods, NEW r \in Resources, RemoveFinalizer(p, r)
    PROVE  Traceable'
<1> DEFINE o == [obj[r] EXCEPT !.finalizer = FALSE, !.phase = "gone"]
<1>1. wk[p][r].pc = "release" /\ MovesOnly(p, r) /\ Rest(p, r)
  BY OthersRest DEF RemoveFinalizer, At, Bookkeeping
<1>2. cache' = cache /\ ctfd' = ctfd /\ creator' = creator /\ nextId' = nextId
  BY DEF RemoveFinalizer, ctfdVars
<1>3. CASE UNCHANGED obj
  <2>1. ObjectsKept /\ ItemsKept /\ WorkerKept(p, r)
    BY <1>1, <1>2, <1>3, RestKept DEF ObjectsKept, ItemsKept
  <2> QED
    BY <1>1, <1>2, <2>1, QuietReconcile
<1>4. CASE Current(p, r) /\ obj' = [obj EXCEPT ![r].finalizer = FALSE, ![r].phase = "gone"]
  <2>1. CreatedBy(r) = {} /\ obj[r].mark # "pending"
    BY <1>1, <1>4, NothingLeft
  <2>2. obj[r] \in Objects /\ \A q \in Pods : ~Creating(q, r)
    BY <2>1 DEF TypedWith, Traceable, OneCreates
  <2>3. o.name = obj[r].name /\ o.mark = obj[r].mark /\ obj' = [obj EXCEPT ![r] = o]
    BY <1>4, <2>2 DEF Objects
  <2>4. \A q \in Pods, s \in Resources : wk'[q][s] = wk[q][s] \/ wk'[q][s].pc = "resting"
    BY <1>1 DEF Rest, TypedWith, Resting
  <2>5. CachesKept
    BY <1>2 DEF CachesKept
  <2> HIDE DEF o
  <2> QED
    BY <1>2, <2>1, <2>2, <2>3, <2>4, <2>5, ReleaseTraceable
<1> QED
  BY <1>3, <1>4 DEF RemoveFinalizer

LEMMA BookkeepingTraceable ==
    ASSUME NEW items, TypedWith(items), TypedWith(items)', Traceable,
           NEW p \in Pods, NEW r \in Resources, Bookkeeping(p, r)
    PROVE  Traceable'
BY AddFinalizerTraceable, SetPendingTraceable, SaveTraceable, RemoveFinalizerTraceable
   DEF Bookkeeping

LEMMA SurroundingsTraceable ==
    ASSUME NEW items, TypedWith(items), TypedWith(items)', Traceable, Surroundings
    PROVE  Traceable'
<1>1. ASSUME UNCHANGED wk PROVE \A q \in Pods, s \in Resources : WorkerKept(q, s)
  BY <1>1 DEF WorkerKept
<1>2. ASSUME NEW p \in Pods, NEW r \in Resources, CacheSync(p, r) PROVE Traceable'
  <2>1. ObjectsKept /\ ItemsKept /\ CachesKept /\ UNCHANGED wk
    BY <1>2 DEF CacheSync, ObjectsKept, ItemsKept, CachesKept, kubeVars, ctfdVars, TypedWith
  <2> QED
    BY <1>1, <2>1, QuietStep
<1>3. ASSUME NEW r \in Resources, GraceElapses(r) PROVE Traceable'
  <2>1. ObjectsKept /\ ItemsKept /\ CachesKept /\ UNCHANGED wk
    BY <1>3 DEF GraceElapses, ObjectsKept, ItemsKept, CachesKept, ctfdVars
  <2> QED
    BY <1>1, <2>1, QuietStep
<1>4. ASSUME NEW r \in Resources, EditSpec(r) PROVE Traceable'
  <2>1. \A s \in Resources : obj[s] \in Objects
    BY DEF TypedWith
  <2>2. ObjectsKept
    BY <1>4, <2>1 DEF EditSpec, ObjectsKept, TypedWith, Objects
  <2>3. ItemsKept /\ CachesKept /\ UNCHANGED wk
    BY <1>4 DEF EditSpec, ItemsKept, CachesKept, ctfdVars
  <2> QED
    BY <1>1, <2>2, <2>3, QuietStep
<1>5. ASSUME NEW p \in Pods, Crash(p) PROVE Traceable'
  <2>1. ObjectsKept /\ ItemsKept /\ CachesKept
    BY <1>5 DEF Crash, ObjectsKept, ItemsKept, CachesKept, kubeVars, ctfdVars, TypedWith
  <2>2. \A q \in Pods, s \in Resources : WorkerKept(q, s)
    BY <1>5 DEF Crash, WorkerKept, TypedWith, Resting
  <2> QED
    BY <2>1, <2>2, QuietStep
<1>6. ASSUME NEW r \in Resources, DeleteResource(r) PROVE Traceable'
  <2>1. obj[r] \in Objects
    BY DEF TypedWith
  <2>2. UNCHANGED <<recent, cache, wk, ctfdVars, budget>> /\ CachesKept
    BY <1>6 DEF DeleteResource, CachesKept
  <2>3. CASE obj[r].finalizer
    <3>1. ObjectsKept
      BY <1>6, <2>1, <2>3 DEF DeleteResource, ObjectsKept, TypedWith, Objects
    <3>2. ItemsKept
      BY <2>2 DEF ItemsKept, ctfdVars
    <3> QED
      BY <1>1, <2>2, <3>1, <3>2, QuietStep
  <2>4. CASE ~obj[r].finalizer
    <3> DEFINE o == [obj[r] EXCEPT !.phase = "gone"]
    <3>1. obj' = [obj EXCEPT ![r] = o] /\ o.name = obj[r].name /\ o.mark = obj[r].mark
      BY <1>6, <2>1, <2>4 DEF DeleteResource, Objects
    <3>2. CreatedBy(r) = {}
      BY <2>4 DEF Traceable, FinalizerHolds
    <3>3. \A q \in Pods : ~Creating(q, r)
      BY <2>4 DEF Traceable, OneCreates
    <3> HIDE DEF o
    <3> QED
      BY <2>2, <3>1, <3>2, <3>3, ReleaseTraceable DEF ctfdVars
  <2> QED
    BY <2>3, <2>4
<1> QED
  BY <1>2, <1>3, <1>4, <1>5, <1>6 DEF Surroundings

LEMMA InterveneTraceable ==
    ASSUME NEW items, TypedWith(items), TypedWith(items)', Traceable,
           NEW id \in Ids, NEW S, Intervene(id, S)
    PROVE  Traceable'
<1>1. ItemsKept
  BY DEF Intervene, ItemsKept, Exists, TypedWith
<1>2. ObjectsKept /\ CachesKept /\ UNCHANGED wk
  BY DEF Intervene, ObjectsKept, CachesKept, kubeVars
<1>3. \A q \in Pods, s \in Resources : WorkerKept(q, s)
  BY <1>2 DEF WorkerKept
<1> QED
  BY <1>1, <1>2, <1>3, QuietStep

LEMMA StutterTraceable ==
    ASSUME Traceable, UNCHANGED vars
    PROVE  Traceable'
BY DEF vars, Traceable, IdsInOrder, OneCreates, AbsenceSeen, FinalizerHolds,
       CreationKnown, NoOrphan, AtMostOne, Creating, Before, CreatedBy, Exists, Copy

LEMMA InitTraceable ==
    ASSUME ReliableAnswers, NEW handMade, InitWith(handMade)
    PROVE  Traceable
<1>1. /\ nextId \in Nat /\ nextId > 0 /\ nextId = Preexisting + 1
      /\ \A id \in Ids : id \in Nat /\ (id >= nextId => ctfd[id] = NoItem)
  BY BoundsAssumption DEF InitWith, Ids
<1>2. /\ \A r \in Resources : obj[r].name = 0
      /\ \A p \in Pods, r \in Resources : cache[p][r].name = 0
  BY DEF InitWith, NewObject, ReliableAnswers, WordsForNames, NotANumber
<1>3. \A p \in Pods, r \in Resources : wk[p][r].pc = "resting"
  BY DEF InitWith, Resting
<1>4. \A r \in Resources : CreatedBy(r) = {}
  BY ResourcesAssumption DEF InitWith, CreatedBy
<1>5. IdsInOrder
  BY <1>1, <1>2, <1>3 DEF IdsInOrder
<1> QED
  BY <1>3, <1>4, <1>5 DEF Traceable, OneCreates, Creating, Before, AbsenceSeen,
                          FinalizerHolds, CreationKnown, NoOrphan, AtMostOne

----------------------------------------------------------------------------
(***************************************************************************)
(* What holds whatever fails: one creation at a time, announced before it  *)
(* is made, and no name but one that CTFd gave to the resource itself.     *)
(***************************************************************************)
\* The inductive form of OneCreates: the finalizer comes before the announcement.
Announced ==
    /\ OneCreates
    /\ \A p \in Pods, r \in Resources : wk[p][r].pc = "pending" => Copy(p, r).finalizer
    /\ \A r \in Resources : obj[r].mark = "pending" => obj[r].finalizer

\* A quiet call leaves a worker at rest, or before a POST with a name it had or
\* read from its cache.
WorkerOrderly(q, s) ==
    \/ wk'[q][s].pc = "resting"
    \/ /\ Before(q, s)'
       /\ wk'[q][s].copy.mark # "pending"
       /\ wk'[q][s].pc = "pending" => wk'[q][s].copy.finalizer
       /\ \/ wk'[q][s].copy.name = cache[q][s].name
          \/ wk[q][s].pc # "resting" /\ wk'[q][s].copy.name = wk[q][s].copy.name

Orderly(p, r) ==
    /\ ObjectsKept /\ MovesOnly(p, r) /\ WorkerOrderly(p, r)
    /\ UNCHANGED <<cache, creator, nextId>>

LEMMA AnnouncedKept ==
    ASSUME Announced, ObjectsKept,
           \A q \in Pods, s \in Resources : wk'[q][s] = wk[q][s] \/ WorkerOrderly(q, s)
    PROVE  Announced'
<1>1. ASSUME NEW q \in Pods, NEW s \in Resources, Creating(q, s)'
      PROVE  Creating(q, s) /\ wk'[q][s] = wk[q][s]
  BY <1>1 DEF WorkerOrderly, Creating, Before
<1>2. ASSUME NEW q \in Pods, NEW s \in Resources, Creating(q, s)'
      PROVE  /\ obj'[s].mark = "pending" /\ obj'[s].finalizer /\ obj'[s].phase # "gone"
             /\ \A o \in Pods : Creating(o, s)' => o = q
  BY <1>1, <1>2 DEF Announced, OneCreates, ObjectsKept
<1>3. ASSUME NEW q \in Pods, NEW s \in Resources
      PROVE  /\ Before(q, s)' => wk'[q][s].copy.mark # "pending"
             /\ wk'[q][s].pc = "pending" => wk'[q][s].copy.finalizer
  BY DEF Announced, OneCreates, WorkerOrderly, Before, Copy
<1>4. \A s \in Resources : obj'[s].mark = "pending" => obj'[s].finalizer
  BY DEF Announced, ObjectsKept
<1> QED
  BY <1>2, <1>3, <1>4 DEF Announced, OneCreates, Copy

\* Names move from the objects to the caches and the copies and back; quiet
\* steps make none.
LEMMA OwnNamesKept ==
    ASSUME OwnNames, creator' = creator, nextId' = nextId, CachesKept,
           \A s \in Resources :
              \/ obj'[s].name = obj[s].name
              \/ \E q \in Pods : wk[q][s].pc # "resting" /\ obj'[s].name = wk[q][s].copy.name,
           \A q \in Pods, s \in Resources :
              \/ wk'[q][s] = wk[q][s] \/ wk'[q][s].pc = "resting"
              \/ wk'[q][s].copy.name = cache[q][s].name
              \/ wk[q][s].pc # "resting" /\ wk'[q][s].copy.name = wk[q][s].copy.name
    PROVE  OwnNames'
<1>1. \A s \in Resources : \A name :
         Own(s, name) <=> (name = NotANumber \/ (name \in Ids /\ creator'[name] = s))
  BY DEF Own
<1>2. \A s \in Resources : Own(s, obj'[s].name)
  BY DEF OwnNames, Copy
<1>3. \A q \in Pods, s \in Resources : Own(s, cache'[q][s].name)
  BY DEF OwnNames, CachesKept
<1>4. \A q \in Pods, s \in Resources : wk'[q][s].pc # "resting" => Own(s, wk'[q][s].copy.name)
  BY DEF OwnNames, Copy
<1> QED
  BY <1>1, <1>2, <1>3, <1>4 DEF OwnNames, Own, Copy

LEMMA OrderlyKept ==
    ASSUME NEW p \in Pods, NEW r \in Resources, Announced, Orderly(p, r)
    PROVE  Announced' /\ (OwnNames => OwnNames')
<1>1. \A q \in Pods, s \in Resources : wk'[q][s] = wk[q][s] \/ WorkerOrderly(q, s)
  BY DEF Orderly, MovesOnly
<1>2. Announced'
  BY <1>1, AnnouncedKept DEF Orderly
<1>3. CachesKept /\ \A s \in Resources : obj'[s].name = obj[s].name
  BY DEF Orderly, CachesKept, ObjectsKept
<1>4. \A q \in Pods, s \in Resources :
         \/ wk'[q][s] = wk[q][s] \/ wk'[q][s].pc = "resting"
         \/ wk'[q][s].copy.name = cache[q][s].name
         \/ wk[q][s].pc # "resting" /\ wk'[q][s].copy.name = wk[q][s].copy.name
  BY <1>1 DEF WorkerOrderly
<1>5. OwnNames => OwnNames'
  BY <1>3, <1>4, OwnNamesKept DEF Orderly
<1> QED
  BY <1>2, <1>5

LEMMA RestOrderly ==
    ASSUME NEW items, TypedWith(items), NEW p \in Pods, NEW r \in Resources, Rest(p, r)
    PROVE  WorkerOrderly(p, r)
BY DEF Rest, WorkerOrderly, TypedWith, Resting

\* A worker that goes on with its copy, to a call that is not a POST.
LEMMA ProceedOrderly ==
    ASSUME NEW items, TypedWith(items), Announced, NEW p \in Pods, NEW r \in Resources,
           Before(p, r), NEW w \in Workers, wk' = [wk EXCEPT ![p][r] = w],
           w.copy.name = Copy(p, r).name, w.copy.mark = Copy(p, r).mark,
           w.pc \notin {"post", "save", "saveFailed"},
           w.pc = "pending" => w.copy.finalizer
    PROVE  WorkerOrderly(p, r)
<1>1. wk'[p][r] = w
  BY DEF TypedWith
<1>2. Copy(p, r).mark # "pending" /\ wk[p][r].pc # "resting"
  BY DEF Announced, OneCreates, Before
<1>3. CASE w.pc = "resting"
  BY <1>1, <1>3 DEF WorkerOrderly
<1>4. CASE w.pc # "resting"
  BY <1>1, <1>2, <1>4 DEF WorkerOrderly, Before, Copy
<1> QED
  BY <1>3, <1>4

LEMMA GotoOrderly ==
    ASSUME NEW items, TypedWith(items), Announced, NEW p \in Pods, NEW r \in Resources,
           Before(p, r), NEW pc \in PCs \ {"post", "save", "saveFailed"},
           pc = "pending" => Copy(p, r).finalizer, Goto(p, r, pc)
    PROVE  WorkerOrderly(p, r)
<1> DEFINE w == [wk[p][r] EXCEPT !.pc = pc]
<1>1. wk[p][r] \in Workers
  BY ActiveWorker DEF Before
<1>2. /\ w \in Workers /\ w.pc = pc /\ w.copy = Copy(p, r)
      /\ wk' = [wk EXCEPT ![p][r] = w]
  BY <1>1 DEF Workers, Goto, Copy
<1> HIDE DEF w
<1> QED
  BY <1>2, ProceedOrderly

LEMMA FinalizerNextOrderly ==
    ASSUME NEW items, TypedWith(items), Announced, NEW p \in Pods, NEW r \in Resources,
           Before(p, r), NEW todo \in {"create", "update", "nothing"},
           wk' = [wk EXCEPT ![p][r].pc = "finalizer", ![p][r].todo = todo]
    PROVE  WorkerOrderly(p, r)
<1> DEFINE w == [wk[p][r] EXCEPT !.pc = "finalizer", !.todo = todo]
<1>1. wk[p][r] \in Workers
  BY ActiveWorker DEF Before
<1>2. w \in Workers /\ w.pc = "finalizer" /\ w.copy = Copy(p, r)
  BY <1>1 DEF Workers, PCs, Copy
<1>3. wk' = [wk EXCEPT ![p][r] = w]
  BY DEF TypedWith
<1> HIDE DEF w
<1> QED
  BY <1>2, <1>3, ProceedOrderly

LEMMA ObservationOrderly ==
    ASSUME NEW items, TypedWith(items), Announced, NEW p \in Pods, NEW r \in Resources,
           Before(p, r), Absent(p, r) \/ \E drift : Observed(p, r, drift)
    PROVE  WorkerOrderly(p, r)
<1>1. ASSUME NEW pc \in {"release", "delete"}, Goto(p, r, pc) PROVE WorkerOrderly(p, r)
  BY <1>1, GotoOrderly DEF PCs
<1>2. CASE Absent(p, r)
  BY <1>1, <1>2, RestOrderly, FinalizerNextOrderly DEF Absent
<1>3. ASSUME NEW drift, Observed(p, r, drift) PROVE WorkerOrderly(p, r)
  BY <1>1, <1>3, FinalizerNextOrderly DEF Observed
<1> QED
  BY <1>2, <1>3

LEMMA StartAtOrderly ==
    ASSUME NEW items, TypedWith(items), NEW p \in Pods, NEW r \in Resources,
           NEW pc \in {"track", "resolve", "get"}, StartAt(p, r, pc)
    PROVE  Orderly(p, r)
<1>1. wk'[p][r] = NewReconcile(cache[p][r], pc)
  BY DEF StartAt, TypedWith
<1>2. WorkerOrderly(p, r)
  BY <1>1 DEF StartAt, NewReconcile, WorkerOrderly, Before
<1>3. MovesOnly(p, r) /\ ObjectsKept
  BY OthersRest DEF StartAt, ObjectsKept, kubeVars
<1> QED
  BY <1>2, <1>3 DEF Orderly, StartAt, ctfdVars

LEMMA FinishOrderly ==
    ASSUME NEW items, TypedWith(items), NEW p \in Pods, NEW r \in Resources, NEW ready,
           Finish(p, r, ready)
    PROVE  ObjectsKept /\ WorkerOrderly(p, r)
BY FinishKept, RestOrderly DEF Finish

LEMMA DeleteItemOrderly ==
    ASSUME NEW items, TypedWith(items), NEW p \in Pods, NEW r \in Resources, DeleteItem(p, r)
    PROVE  Orderly(p, r)
BY FinishOrderly, OthersRest DEF DeleteItem, Orderly

LEMMA AddFinalizerOrderly ==
    ASSUME NEW items, TypedWith(items), Announced, NEW p \in Pods, NEW r \in Resources,
           AddFinalizer(p, r)
    PROVE  Orderly(p, r)
<1> DEFINE o == [Copy(p, r) EXCEPT !.finalizer = TRUE]
<1>1. wk[p][r].pc = "finalizer" /\ Before(p, r)
  BY DEF AddFinalizer, At, Before
<1>2. wk[p][r] \in Workers
  BY <1>1, ActiveWorker
<1>3. o \in Objects /\ o.mark = Copy(p, r).mark /\ o.name = Copy(p, r).name
  BY <1>2 DEF Workers, Copy, Objects
<1>4. ASSUME Current(p, r), obj' = [obj EXCEPT ![r] = o],
             wk' = [wk EXCEPT ![p][r].copy = o, ![p][r].pc = "finalizer"]
      PROVE  ObjectsKept /\ WorkerOrderly(p, r)
  <2> DEFINE w == [wk[p][r] EXCEPT !.copy = o, !.pc = "finalizer"]
  <2>1. ObjectsKept
    BY <1>2, <1>4 DEF ObjectsKept, Current, TypedWith, Objects, Workers, Copy
  <2>2. w \in Workers /\ w.copy = o /\ w.pc = "finalizer"
    <3> HIDE DEF o
    <3> QED
      BY <1>2, <1>3 DEF Workers, PCs
  <2>3. wk' = [wk EXCEPT ![p][r] = w]
    BY <1>4 DEF TypedWith
  <2> HIDE DEF w, o
  <2> QED
    BY <1>1, <1>3, <2>1, <2>2, <2>3, ProceedOrderly
<1>5. ASSUME Rest(p, r), UNCHANGED obj PROVE ObjectsKept /\ WorkerOrderly(p, r)
  BY <1>5, RestOrderly DEF ObjectsKept
<1>6. ASSUME Finish(p, r, TRUE) PROVE ObjectsKept /\ WorkerOrderly(p, r)
  BY <1>6, FinishOrderly
<1>7. ASSUME Copy(p, r).finalizer, Goto(p, r, NextCall(wk[p][r].todo)), UNCHANGED obj
      PROVE  ObjectsKept /\ WorkerOrderly(p, r)
  BY <1>1, <1>7, GotoOrderly DEF ObjectsKept, NextCall, PCs
<1>8. ObjectsKept /\ WorkerOrderly(p, r)
  BY <1>4, <1>5, <1>6, <1>7 DEF AddFinalizer, Update
<1> QED
  BY <1>8, OthersRest DEF AddFinalizer, Orderly, ctfdVars, Bookkeeping

\* The announcement: no other worker is creating, and none has an older copy
\* that the API server would take.
LEMMA SetPendingAnnounced ==
    ASSUME NEW items, TypedWith(items), Announced, NEW p \in Pods, NEW r \in Resources,
           SetPending(p, r)
    PROVE  Announced' /\ (OwnNames => OwnNames')
<1> DEFINE o == [Copy(p, r) EXCEPT !.mark = "pending"]
<1>1. wk[p][r].pc = "pending" /\ Before(p, r) /\ MovesOnly(p, r)
  BY OthersRest DEF SetPending, At, Before, Bookkeeping
<1>2. wk[p][r] \in Workers
  BY <1>1, ActiveWorker
<1>3. UNCHANGED <<cache, creator, nextId>>
  BY DEF SetPending, ctfdVars
<1>4. ASSUME Rest(p, r), UNCHANGED obj PROVE Announced' /\ (OwnNames => OwnNames')
  <2>1. Orderly(p, r)
    BY <1>1, <1>3, <1>4, RestOrderly DEF Orderly, ObjectsKept
  <2> QED
    BY <2>1, OrderlyKept
<1>5. ASSUME Current(p, r), obj' = [obj EXCEPT ![r] = o],
             wk' = [wk EXCEPT ![p][r].copy = o, ![p][r].pc = "post"]
      PROVE  Announced' /\ (OwnNames => OwnNames')
  <2>1. Copy(p, r) \in Objects /\ Copy(p, r) = obj[r]
    BY <1>2, <1>5 DEF Workers, Copy, Current
  <2>2. /\ o.mark = "pending" /\ o.name = Copy(p, r).name
        /\ o.finalizer = Copy(p, r).finalizer /\ o.phase = obj[r].phase
    BY <2>1 DEF Objects
  <2>3. o.finalizer /\ o.phase # "gone"
    BY <1>1, <1>5, <2>2 DEF Announced, Current
  <2>4. wk'[p][r].copy = o /\ wk'[p][r].pc = "post"
    BY <1>2, <1>5 DEF Workers, TypedWith
  <2>5. \A q \in Pods, s \in Resources : q # p \/ s # r => wk'[q][s] = wk[q][s]
    BY <1>1 DEF MovesOnly
  <2>6. obj'[r] = o /\ \A s \in Resources : s # r => obj'[s] = obj[s]
    BY <1>5 DEF TypedWith
  <2>7. \A q \in Pods : ~Creating(q, r)
    BY <1>1, <2>1 DEF Announced, OneCreates
  <2> HIDE DEF o
  <2>8. ASSUME NEW q \in Pods, NEW s \in Resources, Creating(q, s)'
        PROVE  /\ obj'[s].mark = "pending" /\ obj'[s].finalizer /\ obj'[s].phase # "gone"
               /\ \A q2 \in Pods : Creating(q2, s)' => q2 = q
    <3>1. CASE s = r
      BY <2>2, <2>3, <2>5, <2>6, <2>7, <2>8, <3>1 DEF Creating
    <3>2. CASE s # r
      BY <2>5, <2>6, <2>8, <3>2 DEF Announced, OneCreates, Creating
    <3> QED
      BY <3>1, <3>2
  <2>9. ASSUME NEW q \in Pods, NEW s \in Resources
        PROVE  /\ Before(q, s)' => wk'[q][s].copy.mark # "pending"
               /\ wk'[q][s].pc = "pending" => wk'[q][s].copy.finalizer
    BY <2>4, <2>5 DEF Announced, OneCreates, Before, Copy
  <2>10. Announced'
    BY <2>3, <2>6, <2>8, <2>9 DEF Announced, OneCreates, Copy
  <2>11. OwnNames => OwnNames'
    <3>1. CachesKept
      BY <1>3 DEF CachesKept
    <3>2. \A s \in Resources : obj'[s].name = obj[s].name
      BY <2>1, <2>2, <2>6
    <3>3. \A q \in Pods, s \in Resources :
             \/ wk'[q][s] = wk[q][s]
             \/ wk[q][s].pc # "resting" /\ wk'[q][s].copy.name = wk[q][s].copy.name
      BY <1>1, <2>2, <2>4, <2>5 DEF Copy
    <3> QED
      BY <1>3, <3>1, <3>2, <3>3, OwnNamesKept
  <2> QED
    BY <2>10, <2>11
<1> QED
  BY <1>4, <1>5 DEF SetPending, Update

\* Between the announcement and the outcome, OneCreates asks the same of a worker.
LEMMA CreatingOnAnnounced ==
    ASSUME Announced, NEW p \in Pods, NEW r \in Resources, Creating(p, r), MovesOnly(p, r),
           obj' = obj, wk'[p][r].pc \in {"save", "saveFailed"}
    PROVE  Announced'
BY DEF MovesOnly, Announced, OneCreates, Creating, Before, Copy

LEMMA PostKeepsAnnounced ==
    ASSUME NEW items, TypedWith(items), Announced, NEW p \in Pods, NEW r \in Resources,
           NEW new, Post(p, r, new)
    PROVE  Announced'
<1>1. Creating(p, r) /\ MovesOnly(p, r) /\ obj' = obj
  BY OthersRest DEF Post, At, Creating, kubeVars
<1>2. wk[p][r] \in Workers
  BY <1>1, ActiveWorker DEF Creating
<1>3. wk'[p][r].pc \in {"save", "saveFailed"}
  BY <1>2 DEF Post, Goto, Workers, TypedWith
<1> QED
  BY <1>1, <1>3, CreatingOnAnnounced

\* The ID that a POST returns is the resource's own; nobody else's name is it.
LEMMA PostOwnNames ==
    ASSUME NEW items, TypedWith(items), OwnNames, NEW p \in Pods, NEW r \in Resources,
           NEW new, Post(p, r, new)
    PROVE  OwnNames'
<1>1. wk[p][r].pc = "post" /\ MovesOnly(p, r) /\ UNCHANGED <<obj, cache>>
  BY OthersRest DEF Post, At, kubeVars
<1>2. wk[p][r] \in Workers
  BY <1>1, ActiveWorker
<1>3. CASE nextId <= MaxId /\ creator' = [creator EXCEPT ![nextId] = r] /\ nextId' = nextId + 1
  <2>1. nextId \in Ids /\ nextId \in Nat
    BY <1>3, BoundsAssumption DEF TypedWith, Ids
  <2>2. /\ creator'[nextId] = r /\ creator[nextId] = Nobody
        /\ \A id \in Ids : id # nextId => creator'[id] = creator[id]
    BY <1>3, <2>1 DEF OwnNames, TypedWith
  <2>3. \A s \in Resources : \A name :
           Own(s, name) => name = NotANumber \/ (name \in Ids /\ creator'[name] = s)
    BY <2>2, ResourcesAssumption DEF Own
  <2>4. ASSUME NEW id \in Ids, id >= nextId' PROVE creator'[id] = Nobody
    BY <1>3, <2>1, <2>2, <2>4 DEF OwnNames, Ids
  <2>5. \/ wk'[p][r].copy.name = nextId
        \/ wk'[p][r].copy.name = wk[p][r].copy.name
    <3>1. CASE wk' = [wk EXCEPT ![p][r].copy.name = nextId, ![p][r].pc = "save"]
      BY <1>2, <3>1 DEF Workers, Objects, TypedWith
    <3>2. CASE Goto(p, r, "saveFailed")
      BY <1>2, <3>2 DEF Goto, Workers, TypedWith
    <3> QED
      BY <3>1, <3>2 DEF Post
  <2>6. ASSUME NEW q \in Pods, NEW s \in Resources, wk'[q][s].pc # "resting"
        PROVE  \/ wk'[q][s].copy.name = NotANumber
               \/ wk'[q][s].copy.name \in Ids /\ creator'[wk'[q][s].copy.name] = s
    <3>1. CASE q = p /\ s = r
      BY <1>1, <2>1, <2>2, <2>3, <2>5, <3>1 DEF OwnNames, Copy
    <3>2. CASE q # p \/ s # r
      BY <1>1, <2>3, <2>6, <3>2 DEF OwnNames, MovesOnly, Copy
    <3> QED
      BY <3>1, <3>2
  <2>7. /\ \A s \in Resources : \/ obj'[s].name = NotANumber
                                \/ obj'[s].name \in Ids /\ creator'[obj'[s].name] = s
        /\ \A q \in Pods, s \in Resources :
              \/ cache'[q][s].name = NotANumber
              \/ cache'[q][s].name \in Ids /\ creator'[cache'[q][s].name] = s
    BY <1>1, <2>3 DEF OwnNames
  <2> QED
    BY <2>4, <2>6, <2>7 DEF OwnNames, Own, Copy
<1>4. CASE UNCHANGED ctfdVars /\ Goto(p, r, "saveFailed")
  <2>1. wk'[p][r].copy = wk[p][r].copy
    BY <1>2, <1>4 DEF Goto, Workers, TypedWith
  <2>2. CachesKept
    BY <1>1 DEF CachesKept
  <2>3. \A q \in Pods, s \in Resources :
           \/ wk'[q][s] = wk[q][s]
           \/ wk[q][s].pc # "resting" /\ wk'[q][s].copy.name = wk[q][s].copy.name
    BY <1>1, <2>1 DEF MovesOnly
  <2> QED
    BY <1>1, <1>4, <2>2, <2>3, OwnNamesKept DEF ctfdVars
<1> QED
  BY <1>3, <1>4 DEF Post

LEMMA SaveAnnounced ==
    ASSUME NEW items, TypedWith(items), Announced, NEW p \in Pods, NEW r \in Resources,
           SaveCreated(p, r) \/ SaveFailed(p, r)
    PROVE  Announced' /\ (OwnNames => OwnNames')
<1>1. Creating(p, r) /\ MovesOnly(p, r) /\ Rest(p, r)
  BY OthersRest DEF SaveCreated, SaveFailed, At, Creating, Bookkeeping
<1>2. wk'[p][r] = Resting /\ UNCHANGED <<cache, creator, nextId>>
  BY <1>1 DEF Rest, SaveCreated, SaveFailed, ctfdVars, TypedWith
<1>3. \A q \in Pods, s \in Resources : q # p \/ s # r => wk'[q][s] = wk[q][s]
  BY <1>1 DEF MovesOnly
<1>4. \A s \in Resources : s # r => obj'[s] = obj[s]
  BY DEF SaveCreated, SaveFailed, kubeVars, TypedWith
<1>5. \A q \in Pods, s \in Resources : Creating(q, s)' => s # r /\ Creating(q, s)
  BY <1>1, <1>2, <1>3 DEF Announced, OneCreates, Creating, Resting
<1>6. ASSUME NEW q \in Pods, NEW s \in Resources, Creating(q, s)'
      PROVE  /\ obj'[s].mark = "pending" /\ obj'[s].finalizer /\ obj'[s].phase # "gone"
             /\ \A q2 \in Pods : Creating(q2, s)' => q2 = q
  BY <1>4, <1>5, <1>6 DEF Announced, OneCreates
<1>7. ASSUME NEW q \in Pods, NEW s \in Resources
      PROVE  /\ Before(q, s)' => wk'[q][s].copy.mark # "pending"
             /\ wk'[q][s].pc = "pending" => wk'[q][s].copy.finalizer
  BY <1>2, <1>3 DEF Announced, OneCreates, Before, Resting, Copy
<1>8. Announced'
  <2>1. obj'[r].mark = "pending" => obj'[r].finalizer
    <3>1. CASE UNCHANGED obj
      BY <3>1 DEF Announced
    <3>2. ASSUME NEW name, NEW ready, obj' = [obj EXCEPT ![r] = Created(@, name, ready)]
          PROVE  obj'[r].mark # "pending"
      BY <3>2 DEF Created, TypedWith, Objects
    <3>3. ASSUME NEW ready, obj' = [obj EXCEPT ![r].mark = "failed", ![r].ready = ready]
          PROVE  obj'[r].mark # "pending"
      BY <3>3 DEF TypedWith, Objects
    <3> QED
      BY <3>1, <3>2, <3>3 DEF SaveCreated, SaveFailed, kubeVars
  <2> QED
    BY <1>4, <1>6, <1>7, <2>1 DEF Announced, OneCreates, Copy
<1>9. obj'[r].name = obj[r].name \/ obj'[r].name = wk[p][r].copy.name
  <2>1. obj[r] \in Objects
    BY DEF TypedWith
  <2>2. CASE SaveCreated(p, r)
    <3>1. CASE UNCHANGED obj
      BY <3>1
    <3>2. ASSUME NEW ready, obj' = [obj EXCEPT ![r] = Created(@, Copy(p, r).name, ready)]
          PROVE  obj'[r].name = wk[p][r].copy.name
      BY <2>1, <3>2 DEF Created, Copy, TypedWith, Objects
    <3> QED
      BY <2>2, <3>1, <3>2 DEF SaveCreated, kubeVars
  <2>3. CASE SaveFailed(p, r)
    BY <2>1, <2>3 DEF SaveFailed, TypedWith, Objects
  <2> QED
    BY <2>2, <2>3
<1>10. OwnNames => OwnNames'
  <2>1. CachesKept
    BY <1>2 DEF CachesKept
  <2>2. wk[p][r].pc # "resting"
    BY <1>1 DEF Creating
  <2>3. \A s \in Resources :
           \/ obj'[s].name = obj[s].name
           \/ \E q \in Pods : wk[q][s].pc # "resting" /\ obj'[s].name = wk[q][s].copy.name
    BY <1>4, <1>9, <2>2
  <2>4. \A q \in Pods, s \in Resources : wk'[q][s] = wk[q][s] \/ wk'[q][s].pc = "resting"
    BY <1>2, <1>3 DEF Resting
  <2> QED
    BY <1>2, <2>1, <2>3, <2>4, OwnNamesKept
<1> QED
  BY <1>8, <1>10

\* An object that nothing is being created for may go.
LEMMA GoneAnnounced ==
    ASSUME Announced, NEW r \in Resources, \A q \in Pods : ~Creating(q, r),
           \A s \in Resources : s # r => obj'[s] = obj[s],
           obj'[r].mark = "pending" => obj'[r].finalizer,
           obj'[r].name = obj[r].name, CachesKept, UNCHANGED <<creator, nextId>>,
           \A q \in Pods, s \in Resources : wk'[q][s] = wk[q][s] \/ wk'[q][s].pc = "resting"
    PROVE  Announced' /\ (OwnNames => OwnNames')
<1>1. \A q \in Pods, s \in Resources : Creating(q, s)' => s # r /\ Creating(q, s)
  BY DEF Creating
<1>2. ASSUME NEW q \in Pods, NEW s \in Resources, Creating(q, s)'
      PROVE  /\ obj'[s].mark = "pending" /\ obj'[s].finalizer /\ obj'[s].phase # "gone"
             /\ \A q2 \in Pods : Creating(q2, s)' => q2 = q
  BY <1>1, <1>2 DEF Announced, OneCreates
<1>3. ASSUME NEW q \in Pods, NEW s \in Resources
      PROVE  /\ Before(q, s)' => wk'[q][s].copy.mark # "pending"
             /\ wk'[q][s].pc = "pending" => wk'[q][s].copy.finalizer
  BY DEF Announced, OneCreates, Before, Copy
<1>4. Announced'
  BY <1>2, <1>3 DEF Announced, OneCreates, Copy
<1>5. OwnNames => OwnNames'
  BY OwnNamesKept
<1> QED
  BY <1>4, <1>5

LEMMA RemoveFinalizerAnnounced ==
    ASSUME NEW items, TypedWith(items), Announced, NEW p \in Pods, NEW r \in Resources,
           RemoveFinalizer(p, r)
    PROVE  Announced' /\ (OwnNames => OwnNames')
<1>1. Before(p, r) /\ MovesOnly(p, r) /\ Rest(p, r) /\ UNCHANGED <<cache, creator, nextId>>
  BY OthersRest DEF RemoveFinalizer, At, Before, Bookkeeping, ctfdVars
<1>2. CASE UNCHANGED obj
  <2>1. Orderly(p, r)
    BY <1>1, <1>2, RestOrderly DEF Orderly, ObjectsKept
  <2> QED
    BY <2>1, OrderlyKept
<1>3. CASE Current(p, r) /\ obj' = [obj EXCEPT ![r].finalizer = FALSE, ![r].phase = "gone"]
  <2>1. \A q \in Pods : ~Creating(q, r)
    BY <1>1, <1>3 DEF Current, Announced, OneCreates
  <2>2. obj'[r].name = obj[r].name /\ \A s \in Resources : s # r => obj'[s] = obj[s]
    BY <1>3 DEF TypedWith, Objects
  <2>3. \A q \in Pods, s \in Resources : wk'[q][s] = wk[q][s] \/ wk'[q][s].pc = "resting"
    BY <1>1 DEF Rest, TypedWith, Resting
  <2>4. CachesKept
    BY <1>1 DEF CachesKept
  <2>5. obj'[r].mark # "pending"
    BY <1>1, <1>3 DEF Current, Announced, OneCreates, TypedWith, Objects
  <2> QED
    BY <1>1, <2>1, <2>2, <2>3, <2>4, <2>5, GoneAnnounced
<1> QED
  BY <1>2, <1>3 DEF RemoveFinalizer

LEMMA BookkeepingAnnounced ==
    ASSUME NEW items, TypedWith(items), Announced, NEW p \in Pods, NEW r \in Resources,
           Bookkeeping(p, r)
    PROVE  Announced' /\ (OwnNames => OwnNames')
BY AddFinalizerOrderly, OrderlyKept, SetPendingAnnounced, SaveAnnounced, RemoveFinalizerAnnounced
   DEF Bookkeeping

\* Steps of no worker, but for a crash that ends some.
LEMMA AsideAnnounced ==
    ASSUME Announced, ObjectsKept, CachesKept, UNCHANGED <<creator, nextId>>,
           \A q \in Pods, s \in Resources : wk'[q][s] = wk[q][s] \/ wk'[q][s].pc = "resting"
    PROVE  Announced' /\ (OwnNames => OwnNames')
<1>1. Announced'
  BY AnnouncedKept DEF WorkerOrderly
<1>2. OwnNames => OwnNames'
  BY OwnNamesKept DEF ObjectsKept
<1> QED
  BY <1>1, <1>2

LEMMA SurroundingsAnnounced ==
    ASSUME NEW items, TypedWith(items), Announced, Surroundings
    PROVE  Announced' /\ (OwnNames => OwnNames')
<1>1. ASSUME NEW p \in Pods, NEW r \in Resources, CacheSync(p, r)
      PROVE  Announced' /\ (OwnNames => OwnNames')
  <2>1. ObjectsKept /\ CachesKept /\ UNCHANGED <<wk, creator, nextId>>
    BY <1>1 DEF CacheSync, ObjectsKept, CachesKept, kubeVars, ctfdVars, TypedWith
  <2> QED
    BY <2>1, AsideAnnounced
<1>2. ASSUME NEW r \in Resources, GraceElapses(r) PROVE Announced' /\ (OwnNames => OwnNames')
  BY <1>2, AsideAnnounced DEF GraceElapses, ObjectsKept, CachesKept, ctfdVars
<1>3. ASSUME NEW r \in Resources, EditSpec(r) PROVE Announced' /\ (OwnNames => OwnNames')
  <2>1. ObjectsKept
    BY <1>3 DEF EditSpec, ObjectsKept, TypedWith, Objects
  <2>2. CachesKept /\ UNCHANGED <<wk, creator, nextId>>
    BY <1>3 DEF EditSpec, CachesKept, ctfdVars
  <2> QED
    BY <2>1, <2>2, AsideAnnounced
<1>4. ASSUME NEW p \in Pods, Crash(p) PROVE Announced' /\ (OwnNames => OwnNames')
  <2>1. ObjectsKept /\ CachesKept /\ UNCHANGED <<creator, nextId>>
    BY <1>4 DEF Crash, ObjectsKept, CachesKept, kubeVars, ctfdVars, TypedWith
  <2>2. \A q \in Pods, s \in Resources : wk'[q][s] = wk[q][s] \/ wk'[q][s].pc = "resting"
    BY <1>4 DEF Crash, TypedWith, Resting
  <2> QED
    BY <2>1, <2>2, AsideAnnounced
<1>5. ASSUME NEW r \in Resources, DeleteResource(r) PROVE Announced' /\ (OwnNames => OwnNames')
  <2>1. CachesKept /\ UNCHANGED <<wk, creator, nextId>>
    BY <1>5 DEF DeleteResource, CachesKept, ctfdVars
  <2>2. obj[r] \in Objects
    BY DEF TypedWith
  <2>3. CASE obj[r].finalizer
    <3>1. ObjectsKept
      BY <1>5, <2>2, <2>3 DEF DeleteResource, ObjectsKept, TypedWith, Objects
    <3> QED
      BY <2>1, <3>1, AsideAnnounced
  <2>4. CASE ~obj[r].finalizer
    <3>1. \A q \in Pods : ~Creating(q, r)
      BY <2>4 DEF Announced, OneCreates
    <3>2. obj'[r].name = obj[r].name /\ \A s \in Resources : s # r => obj'[s] = obj[s]
      BY <1>5, <2>2 DEF DeleteResource, TypedWith, Objects
    <3>3. obj'[r].mark = "pending" => obj'[r].finalizer
      BY <1>5, <2>2 DEF DeleteResource, Announced, TypedWith, Objects
    <3> QED
      BY <2>1, <3>1, <3>2, <3>3, GoneAnnounced
  <2> QED
    BY <2>3, <2>4
<1> QED
  BY <1>1, <1>2, <1>3, <1>4, <1>5 DEF Surroundings

\* What leaves the objects, the caches and the workers alone, and makes nothing in CTFd.
LEMMA StillAnnounced ==
    ASSUME Announced, UNCHANGED <<obj, cache, wk, creator, nextId>>
    PROVE  Announced' /\ (OwnNames => OwnNames')
BY AsideAnnounced DEF ObjectsKept, CachesKept

LEMMA InitAnnounced ==
    ASSUME NEW handMade, InitWith(handMade)
    PROVE  Announced /\ (WordsForNames => OwnNames)
<1>1. \A p \in Pods, r \in Resources : wk[p][r].pc = "resting"
  BY DEF InitWith, Resting
<1>2. Announced
  <2>1. \A r \in Resources : obj[r].mark = "none"
    BY DEF InitWith, NewObject
  <2> QED
    BY <1>1, <2>1 DEF Announced, OneCreates, Creating, Before
<1>3. \A id \in Ids : id >= nextId => creator[id] = Nobody
  BY BoundsAssumption DEF InitWith, Ids
<1>4. ASSUME WordsForNames, NEW r \in Resources
      PROVE  obj[r].name = NotANumber /\ \A p \in Pods : cache[p][r].name = NotANumber
  BY <1>4 DEF InitWith, NewObject, WordsForNames
<1>5. WordsForNames => OwnNames
  BY <1>1, <1>3, <1>4 DEF OwnNames, Own
<1> QED
  BY <1>2, <1>5

\* Only a POST has CTFd hand out an ID, and it is announced.
LEMMA PostAnnounced ==
    ASSUME NEW items, TypedWith(items), Announced, NEW p \in Pods, NEW s \in Resources,
           NEW new, Post(p, s, new),
           NEW r \in Resources, NEW id \in Ids, creator'[id] = r, creator[id] # r
    PROVE  obj[r].phase # "gone" /\ obj[r].finalizer /\ obj[r].mark = "pending"
<1>1. s = r
  BY DEF Post, ctfdVars, TypedWith
<1> QED
  BY <1>1 DEF Post, At, Announced, OneCreates, Creating

LEMMA OthersHandOutNothing ==
    ASSUME NEW p \in Pods, NEW r \in Resources,
           \/ Bookkeeping(p, r) \/ DeleteItem(p, r) \/ \E pc : StartAt(p, r, pc)
           \/ Surroundings \/ \E id, S : Intervene(id, S)
    PROVE  creator' = creator
BY DEF Bookkeeping, AddFinalizer, SetPending, SaveCreated, SaveFailed, RemoveFinalizer,
       DeleteItem, StartAt, Surroundings, CacheSync, GraceElapses, EditSpec, DeleteResource,
       Crash, Intervene, ctfdVars

----------------------------------------------------------------------------
(***************************************************************************)
(* The reconciler implements Custody.                                      *)
(***************************************************************************)
\* Steps that leave names, marks and phases alone and touch at most one item
\* may make it disappear.
LEMMA OneIdCustody ==
    ASSUME ObjectsKept, ItemsKept, NEW name, \A id \in Ids : id # name => ctfd'[id] = ctfd[id]
    PROVE  [Promised!Next]_Promised!vars
<1>1. Stage' = Stage /\ Known' = Known /\ Used' = Used
  BY DEF ObjectsKept, ItemsKept, Stage, Known, Used
<1>2. \A s \in Resources : CreatedBy(s)' = {id \in CreatedBy(s) : ctfd'[id] # NoItem}
  BY DEF ItemsKept, CreatedBy
<1>3. ASSUME NEW r \in Resources, name \in CreatedBy(r), ctfd'[name] = NoItem
      PROVE  Promised!Drop(r, name)
  <2>1. CreatedBy(r)' = CreatedBy(r) \ {name}
    BY <1>2, <1>3 DEF CreatedBy
  <2>2. \A s \in Resources : s # r => CreatedBy(s)' = CreatedBy(s)
    BY <1>2, <1>3 DEF CreatedBy
  <2>3. Held' = [Held EXCEPT ![r] = @ \ {name}]
    BY <2>1, <2>2 DEF Held
  <2> QED
    BY <1>1, <1>3, <2>3 DEF Promised!Drop, Held
<1>4. ASSUME ~\E r \in Resources : name \in CreatedBy(r) /\ ctfd'[name] = NoItem
      PROVE  Held' = Held
  BY <1>2, <1>4 DEF Held, CreatedBy
<1>5. name \in Ids \/ Held' = Held
  BY <1>4 DEF CreatedBy
<1> QED
  BY <1>1, <1>3, <1>4, <1>5 DEF Promised!Next, Promised!vars

LEMMA AnnounceCustody ==
    ASSUME NEW items, TypedWith(items), Traceable, NEW p \in Pods, NEW r \in Resources,
           SetPending(p, r)
    PROVE  [Promised!Next]_Promised!vars
<1> DEFINE o == [Copy(p, r) EXCEPT !.mark = "pending"]
<1>1. wk[p][r].pc = "pending" /\ wk[p][r] \in Workers
  BY ActiveWorker DEF SetPending, At
<1>2. ctfd' = ctfd /\ creator' = creator /\ nextId' = nextId
  BY DEF SetPending, ctfdVars
<1>3. Held' = Held /\ Used' = Used
  BY <1>2 DEF Held, CreatedBy, Used
<1>4. CASE UNCHANGED obj
  BY <1>3, <1>4 DEF Stage, Known, Promised!vars
<1>5. CASE Current(p, r) /\ obj' = [obj EXCEPT ![r] = o]
  <2>1. CreatedBy(r) = {} /\ obj[r].mark # "pending"
    BY <1>1, <1>5, NothingLeft
  <2>2. o.mark = "pending" /\ o.name = obj[r].name /\ o.phase = obj[r].phase /\ o.phase # "gone"
    BY <1>1, <1>5 DEF Current, Copy, Workers, Objects
  <2> HIDE DEF o
  <2>3. obj'[r] = o /\ \A s \in Resources : s # r => obj'[s] = obj[s]
    BY <1>5 DEF TypedWith
  <2>4. Known' = Known
    BY <2>2, <2>3 DEF Known
  <2>5. Stage' = [Stage EXCEPT ![r] = "announced"] /\ Stage[r] = "settled"
    BY <2>1, <2>2, <2>3 DEF Stage
  <2>6. Promised!Announce(r)
    BY <1>3, <2>1, <2>4, <2>5 DEF Promised!Announce, Held
  <2> QED
    BY <2>6 DEF Promised!Next
<1> QED
  BY <1>4, <1>5 DEF SetPending, Update

LEMMA MakeCustody ==
    ASSUME NEW items, TypedWith(items), Traceable, NEW p \in Pods, NEW r \in Resources,
           NEW new, NoItem \notin new, Post(p, r, new)
    PROVE  [Promised!Next]_Promised!vars
<1>1. wk[p][r].pc = "post" /\ Creating(p, r)
  BY DEF Post, At, Creating
<1>2. Stage' = Stage /\ Known' = Known
  BY DEF Post, kubeVars, Stage, Known
<1>3. CreatedBy(r) = {} /\ Stage[r] = "announced"
  BY <1>1 DEF Traceable, CreationKnown, OneCreates, Stage
<1>4. CASE UNCHANGED ctfdVars
  BY <1>2, <1>4 DEF ctfdVars, Held, CreatedBy, Used, Promised!vars
<1>5. ASSUME nextId <= MaxId, NEW item, ctfd' = [ctfd EXCEPT ![nextId] = item],
             creator' = [creator EXCEPT ![nextId] = r], nextId' = nextId + 1,
             item # NoItem
      PROVE  Promised!Make(r, nextId) /\ nextId \in Ids
  <2>1. nextId \in Ids /\ nextId \in Nat
    BY <1>5, BoundsAssumption DEF TypedWith, Ids
  <2>2. \A id \in Ids : id # nextId => ctfd'[id] = ctfd[id] /\ creator'[id] = creator[id]
    BY <1>5 DEF TypedWith
  <2>3. creator'[nextId] = r /\ ctfd'[nextId] # NoItem /\ ctfd[nextId] = NoItem
    BY <1>5, <2>1 DEF TypedWith, Traceable, IdsInOrder
  <2>4. CreatedBy(r)' = {nextId}
    BY <1>3, <2>1, <2>2, <2>3 DEF CreatedBy
  <2>5. \A s \in Resources : s # r => CreatedBy(s)' = CreatedBy(s)
    BY <2>2, <2>3 DEF CreatedBy
  <2>6. Held' = [Held EXCEPT ![r] = {nextId}]
    BY <2>4, <2>5 DEF Held
  <2>7. Used' = Used \cup {nextId} /\ nextId \notin Used
    BY <1>5, <2>1 DEF Used, Ids
  <2> QED
    BY <1>2, <1>3, <2>1, <2>6, <2>7 DEF Promised!Make, Held
<1> QED
  BY <1>4, <1>5 DEF Post, Promised!Next

LEMMA RecordCustody ==
    ASSUME NEW items, TypedWith(items), Traceable, NEW p \in Pods, NEW r \in Resources,
           SaveCreated(p, r) \/ SaveFailed(p, r)
    PROVE  [Promised!Next]_Promised!vars
<1>1. wk[p][r].pc \in {"save", "saveFailed"} /\ Creating(p, r) /\ wk[p][r] \in Workers
  BY ActiveWorker DEF SaveCreated, SaveFailed, At, Creating
<1>2. ctfd' = ctfd /\ creator' = creator /\ nextId' = nextId
  BY DEF SaveCreated, SaveFailed, ctfdVars
<1>3. Held' = Held /\ Used' = Used
  BY <1>2 DEF Held, CreatedBy, Used
<1>4. CASE UNCHANGED obj
  BY <1>3, <1>4 DEF Stage, Known, Promised!vars
<1>5. obj[r] \in Objects /\ obj[r].mark = "pending" /\ obj[r].phase # "gone"
  BY <1>1 DEF Traceable, OneCreates, TypedWith
<1>6. ASSUME NEW o, obj' = [obj EXCEPT ![r] = o], o.phase # "gone", o.mark # "pending",
             o.name \in Names, CreatedBy(r) \subseteq {o.name}
      PROVE  [Promised!Next]_Promised!vars
  <2>1. obj'[r] = o /\ \A s \in Resources : s # r => obj'[s] = obj[s]
    BY <1>6 DEF TypedWith
  <2>2. Known' = [Known EXCEPT ![r] = o.name]
    BY <2>1 DEF Known
  <2>3. Stage' = [Stage EXCEPT ![r] = "settled"] /\ Stage[r] = "announced"
    BY <1>5, <1>6, <2>1 DEF Stage
  <2>4. Promised!Record(r, o.name)
    BY <1>3, <1>6, <2>2, <2>3 DEF Promised!Record, Held
  <2> QED
    BY <1>6, <2>4 DEF Promised!Next
<1>7. CASE SaveCreated(p, r) /\ ~UNCHANGED obj
  <2>1. CreatedBy(r) \subseteq {Copy(p, r).name}
    BY <1>7 DEF SaveCreated, At, Traceable, CreationKnown
  <2>2. PICK ready \in {FALSE, obj[r].ready} :
           obj' = [obj EXCEPT ![r] = Created(@, Copy(p, r).name, ready)]
    BY <1>7 DEF SaveCreated, kubeVars
  <2> DEFINE o == Created(obj[r], Copy(p, r).name, ready)
  <2>3. /\ obj' = [obj EXCEPT ![r] = o]
        /\ o.name = Copy(p, r).name /\ o.phase # "gone" /\ o.mark # "pending"
    BY <1>5, <2>2 DEF Objects, Created
  <2>4. Copy(p, r).name \in Names
    BY <1>1 DEF Workers, Objects, Copy
  <2> HIDE DEF o
  <2> QED
    BY <1>6, <2>1, <2>3, <2>4
<1>8. CASE SaveFailed(p, r) /\ ~UNCHANGED obj
  <2>1. CreatedBy(r) = {}
    BY <1>8 DEF SaveFailed, At, Traceable, CreationKnown
  <2>2. PICK ready \in {FALSE, obj[r].ready} :
           obj' = [obj EXCEPT ![r].mark = "failed", ![r].ready = ready]
    BY <1>8 DEF SaveFailed
  <2> DEFINE o == [obj[r] EXCEPT !.mark = "failed", !.ready = ready]
  <2>3. /\ obj' = [obj EXCEPT ![r] = o]
        /\ o.name = obj[r].name /\ o.phase # "gone" /\ o.mark # "pending" /\ o.name \in Names
    BY <1>5, <2>2 DEF Objects
  <2> HIDE DEF o
  <2> QED
    BY <1>6, <2>1, <2>3
<1> QED
  BY <1>4, <1>7, <1>8

LEMMA ReleaseCustody ==
    ASSUME NEW items, TypedWith(items), NEW r \in Resources, CreatedBy(r) = {},
           obj[r].phase # "gone", obj[r].mark # "pending",
           NEW o, obj' = [obj EXCEPT ![r] = o], o.phase = "gone", o.name = obj[r].name,
           ctfd' = ctfd, creator' = creator, nextId' = nextId
    PROVE  [Promised!Next]_Promised!vars
<1>1. Held' = Held /\ Used' = Used
  BY DEF Held, CreatedBy, Used
<1>2. obj'[r] = o /\ \A s \in Resources : s # r => obj'[s] = obj[s]
  BY DEF TypedWith
<1>3. Known' = Known
  BY <1>2 DEF Known
<1>4. Stage' = [Stage EXCEPT ![r] = "released"] /\ Stage[r] = "settled"
  BY <1>2 DEF Stage
<1>5. Promised!Release(r)
  BY <1>1, <1>3, <1>4 DEF Promised!Release, Held
<1> QED
  BY <1>5 DEF Promised!Next

LEMMA RemoveFinalizerCustody ==
    ASSUME NEW items, TypedWith(items), Traceable, NEW p \in Pods, NEW r \in Resources,
           RemoveFinalizer(p, r)
    PROVE  [Promised!Next]_Promised!vars
<1> DEFINE o == [obj[r] EXCEPT !.finalizer = FALSE, !.phase = "gone"]
<1>1. ctfd' = ctfd /\ creator' = creator /\ nextId' = nextId
  BY DEF RemoveFinalizer, ctfdVars
<1>2. CASE UNCHANGED obj
  BY <1>1, <1>2 DEF Stage, Known, Held, Used, CreatedBy, Promised!vars
<1>3. CASE Current(p, r) /\ obj' = [obj EXCEPT ![r].finalizer = FALSE, ![r].phase = "gone"]
  <2>1. CreatedBy(r) = {} /\ obj[r].mark # "pending" /\ obj[r].phase # "gone"
    BY <1>3, NothingLeft DEF RemoveFinalizer, At, Current
  <2>2. obj[r] \in Objects
    BY DEF TypedWith
  <2>3. o.phase = "gone" /\ o.name = obj[r].name /\ obj' = [obj EXCEPT ![r] = o]
    BY <1>3, <2>2 DEF Objects
  <2> HIDE DEF o
  <2> QED
    BY <1>1, <2>1, <2>3, ReleaseCustody
<1> QED
  BY <1>2, <1>3 DEF RemoveFinalizer

\* The calls that every kind of item shares.
LEMMA OrderlyCustody ==
    ASSUME NEW p \in Pods, NEW r \in Resources, Orderly(p, r), ItemsKept,
           \A id \in Ids : id # Copy(p, r).name => ctfd'[id] = ctfd[id]
    PROVE  [Promised!Next]_Promised!vars
BY OneIdCustody DEF Orderly

LEMMA BookkeepingCustody ==
    ASSUME NEW items, TypedWith(items), Traceable, Announced,
           NEW p \in Pods, NEW r \in Resources, Bookkeeping(p, r)
    PROVE  [Promised!Next]_Promised!vars
<1>1. CASE AddFinalizer(p, r)
  <2>1. Orderly(p, r) /\ UNCHANGED ctfdVars
    BY <1>1, AddFinalizerOrderly DEF AddFinalizer
  <2> QED
    BY <2>1, OrderlyCustody DEF ItemsKept, ctfdVars
<1> QED
  BY <1>1, AnnounceCustody, RecordCustody, RemoveFinalizerCustody DEF Bookkeeping

LEMMA StartAtCustody ==
    ASSUME NEW items, TypedWith(items), NEW p \in Pods, NEW r \in Resources,
           NEW pc \in {"track", "resolve", "get"}, StartAt(p, r, pc)
    PROVE  [Promised!Next]_Promised!vars
<1>1. Orderly(p, r) /\ UNCHANGED ctfdVars
  BY StartAtOrderly DEF StartAt
<1> QED
  BY <1>1, OrderlyCustody DEF ItemsKept, ctfdVars

LEMMA DeleteItemCustody ==
    ASSUME NEW items, TypedWith(items), NEW p \in Pods, NEW r \in Resources, DeleteItem(p, r)
    PROVE  [Promised!Next]_Promised!vars
<1>1. Orderly(p, r)
  BY DeleteItemOrderly
<1>2. ItemsKept /\ \A id \in Ids : id # Copy(p, r).name => ctfd'[id] = ctfd[id]
  BY DEF DeleteItem, ItemsKept, TypedWith
<1> QED
  BY <1>1, <1>2, OrderlyCustody

LEMMA SurroundingsCustody ==
    ASSUME NEW items, TypedWith(items), Traceable, Announced, Surroundings
    PROVE  [Promised!Next]_Promised!vars
<1>1. ItemsKept /\ ctfd' = ctfd /\ creator' = creator /\ nextId' = nextId
  BY DEF Surroundings, CacheSync, GraceElapses, EditSpec, DeleteResource, Crash, ItemsKept, ctfdVars
<1>2. CASE ObjectsKept
  BY <1>1, <1>2, OneIdCustody
<1>3. ASSUME NEW r \in Resources, DeleteResource(r), ~ObjectsKept
      PROVE  [Promised!Next]_Promised!vars
  <2> DEFINE o == [obj[r] EXCEPT !.phase = "gone"]
  <2>1. obj[r] \in Objects
    BY DEF TypedWith
  <2>2. ~obj[r].finalizer
    BY <1>3, <2>1 DEF DeleteResource, ObjectsKept, TypedWith, Objects
  <2>3. CreatedBy(r) = {} /\ obj[r].mark # "pending" /\ obj[r].phase # "gone"
    BY <1>3, <2>2 DEF Traceable, FinalizerHolds, Announced, DeleteResource
  <2>4. o.phase = "gone" /\ o.name = obj[r].name /\ obj' = [obj EXCEPT ![r] = o]
    BY <1>3, <2>1, <2>2 DEF DeleteResource, Objects
  <2> HIDE DEF o
  <2> QED
    BY <1>1, <2>3, <2>4, ReleaseCustody
<1>4. ASSUME NEW r \in Resources, EditSpec(r) PROVE ObjectsKept
  BY <1>4 DEF EditSpec, ObjectsKept, TypedWith, Objects
<1>5. (\E r \in Resources : DeleteResource(r)) \/ ObjectsKept
  BY <1>4 DEF Surroundings, CacheSync, GraceElapses, Crash, ObjectsKept, kubeVars
<1> QED
  BY <1>2, <1>3, <1>5

LEMMA InterveneCustody ==
    ASSUME NEW items, TypedWith(items), NEW id \in Ids, NEW S, Intervene(id, S)
    PROVE  [Promised!Next]_Promised!vars
<1>1. ItemsKept /\ ObjectsKept
  BY DEF Intervene, ItemsKept, ObjectsKept, Exists, TypedWith, kubeVars
<1>2. \A other \in Ids : other # id => ctfd'[other] = ctfd[other]
  BY DEF Intervene, TypedWith
<1> QED
  BY <1>1, <1>2, OneIdCustody

LEMMA InitCustody ==
    ASSUME NEW handMade, InitWith(handMade)
    PROVE  Promised!Init
<1>1. \A r \in Resources : /\ obj[r].phase = "live" /\ obj[r].mark = "none"
                           /\ obj[r].name \in Names
  BY ResourcesAssumption DEF InitWith, NewObject
<1>2. \A r \in Resources : CreatedBy(r) = {}
  BY ResourcesAssumption DEF InitWith, CreatedBy
<1> QED
  BY <1>1, <1>2 DEF Promised!Init, Stage, Known, Held, Used
=============================================================================
