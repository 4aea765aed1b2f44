-------------------------- MODULE Challenge_proofs --------------------------
(***************************************************************************)
(* Proofs about Challenge, for every set of resources and of pods, every   *)
(* set of specs and every bound.                                           *)
(***************************************************************************)
EXTENDS Challenge, Reconciler_proofs

(***************************************************************************)
(* What a POST and a PATCH make of a spec is a challenge.                  *)
(***************************************************************************)
LEMMA ValuedType ==
    ASSUME NEW b \in Bodies
    PROVE  Valued(b) \in Bodies
BY DEF Valued, Bodies, Values

LEMMA FilledType ==
    ASSUME NEW b \in Bodies
    PROVE  Filled(PostParams(b)) \in Bodies
<1> DEFINE params == PostParams(b)
           filled == [f \in Fields |-> OrElse(params[f], CTFdDefault(f))]
<1>1. params \in Bodies
  <2>1. /\ TypeOrDefault(b.type) \in Values
        /\ OrElse(b.value, Zero) \in Values
    BY DEF TypeOrDefault, OrElse, Bodies, Values, Fields
  <2> QED
    BY <2>1 DEF PostParams, Bodies
<1>2. \A f \in Fields : CTFdDefault(f) \in Values
  BY DEF CTFdDefault, Values
<1>3. filled \in Bodies
  <2> HIDE DEF params
  <2> QED
    BY <1>1, <1>2 DEF Bodies, OrElse
<1> HIDE DEF filled
<1>4. Valued(filled) \in Bodies
  BY <1>3, ValuedType
<1> QED
  BY <1>4 DEF Filled, filled

LEMMA OverlaidType ==
    ASSUME NEW b \in Bodies, NEW spec \in Bodies
    PROVE  Overlaid(b, PatchParams(spec)) \in Bodies
<1> DEFINE params == PatchParams(spec)
           over == [f \in Fields |-> IF f \in DOMAIN params THEN params[f] ELSE b[f]]
<1>1. \A f \in DOMAIN params : params[f] \in Values
  BY DEF PatchParams, Bodies
<1>2. over \in Bodies
  <2> HIDE DEF params
  <2> QED
    BY <1>1 DEF Bodies
<1> HIDE DEF over
<1>3. Valued(over) \in Bodies
  BY <1>2, ValuedType
<1> QED
  BY <1>3 DEF Overlaid, over

LEMMA RequirementsType ==
    ASSUME NEW spec \in Specs, NEW default \in Requirements
    PROVE  OrElse(spec.requirements, default) \in Requirements
BY DEF OrElse, Requirements

LEMMA PostedType ==
    ASSUME NEW o, o.spec \in Specs, NEW default \in States
    PROVE  Posted(o, default) \in Challenges
<1>1. Filled(PostParams(o.spec.body)) \in Bodies
  BY SpecsAssumption, FilledType
<1>2. OrElse(o.spec.requirements, <<>>) \in Requirements
  BY RequirementsType DEF Requirements
<1>3. (IF o.spec.state = Unset THEN default ELSE o.spec.state) \in States
  BY SpecsAssumption
<1>4. Nothing \in Flags /\ Nothing \in Hints
  BY DEF Flags, Hints
<1> QED
  BY <1>1, <1>2, <1>3, <1>4 DEF Posted, Challenges

LEMMA PatchedType ==
    ASSUME NEW ch \in Challenges, NEW o, o.spec \in Specs, NEW seen \in States
    PROVE  Patched(ch, o, seen) \in Challenges
<1>1. Overlaid(ch.body, PatchParams(o.spec.body)) \in Bodies
  BY SpecsAssumption, OverlaidType DEF Challenges
<1>2. OrElse(o.spec.requirements, ch.requirements) \in Requirements
  BY RequirementsType DEF Challenges
<1>3. (IF o.spec.state = Unset THEN seen ELSE o.spec.state) \in States
  BY SpecsAssumption
<1> QED
  BY <1>1, <1>2, <1>3 DEF Patched, Challenges

(***************************************************************************)
(* One lemma per call of a reconcile.                                      *)
(***************************************************************************)
LEMMA StartType ==
    ASSUME TypeOK, NEW p \in Pods, NEW r \in Resources, Start(p, r)
    PROVE  TypeOK'
BY StartAtType DEF Start, TypeOK, PCs

LEMMA GetChallengeType ==
    ASSUME TypeOK, NEW p \in Pods, NEW r \in Resources, GetChallenge(p, r)
    PROVE  TypeOK'
<1> DEFINE o == Copy(p, r)
<1>1. wk[p][r].pc # "resting" /\ wk[p][r] \in Workers
  BY ActiveWorker DEF GetChallenge, At, TypeOK, TypedWith
<1>2. budget' \in [Bounds -> Nat]
  BY FaultType DEF GetChallenge, TypeOK, TypedWith
<1>3. ASSUME NEW got, Exists(o.name),
             wk' = [wk EXCEPT ![p][r].pc = "flags",
                              ![p][r].seen = ObservedState(ctfd[o.name]),
                              ![p][r].drift = Drifted(ctfd[o.name], o.spec, got)]
      PROVE  wk' \in [Pods -> [Resources -> Workers \cup {Resting}]]
  <2> DEFINE d == Drifted(ctfd[o.name], o.spec, got)
             w == [wk[p][r] EXCEPT !.pc = "flags", !.seen = ctfd[o.name].state, !.drift = d]
  <2>1. ctfd[o.name].state \in States
    BY <1>3 DEF Exists, TypeOK, TypedWith, TypedWith, Challenges
  <2>2. d \in BOOLEAN
    BY DEF Drifted
  <2>3. w \in Workers
    <3> HIDE DEF d
    <3> QED
      BY <1>1, <2>1, <2>2 DEF Workers, PCs
  <2>4. wk' = [wk EXCEPT ![p][r] = w]
    BY <1>3 DEF TypeOK, TypedWith, TypedWith, ObservedState
  <2> QED
    BY <2>3, <2>4, WorkerType DEF TypeOK, TypedWith
<1>4. wk' \in [Pods -> [Resources -> Workers \cup {Resting}]]
  BY <1>1, <1>3, AbsentType DEF GetChallenge, TypeOK, TypedWith
<1> QED
  BY <1>2, <1>4 DEF GetChallenge, TypeOK, TypedWith, kubeVars, ctfdVars

LEMMA ListFlagsType ==
    ASSUME TypeOK, NEW p \in Pods, NEW r \in Resources, ListFlags(p, r)
    PROVE  TypeOK'
<1> DEFINE o == Copy(p, r)
<1>1. wk[p][r].pc # "resting" /\ wk[p][r] \in Workers
  BY ActiveWorker DEF ListFlags, At, TypeOK, TypedWith
<1>2. CASE /\ wk' = [wk EXCEPT ![p][r].pc = "hints",
                               ![p][r].drift = @ \/ Listed(o.name, "flags") # o.spec.flags]
           /\ UNCHANGED budget
  <2> DEFINE d == wk[p][r].drift \/ Listed(o.name, "flags") # o.spec.flags
             w == [wk[p][r] EXCEPT !.pc = "hints", !.drift = d]
  <2>1. d \in BOOLEAN
    OBVIOUS
  <2>2. w \in Workers
    <3> HIDE DEF d
    <3> QED
      BY <1>1, <2>1 DEF Workers, PCs
  <2>3. wk' = [wk EXCEPT ![p][r] = w]
    BY <1>2 DEF TypeOK, TypedWith
  <2>4. wk' \in [Pods -> [Resources -> Workers \cup {Resting}]]
    BY <2>2, <2>3, WorkerType DEF TypeOK, TypedWith
  <2> QED
    BY <1>2, <2>4 DEF ListFlags, TypeOK, TypedWith, kubeVars, ctfdVars
<1>3. CASE Fault("list") /\ Rest(p, r)
  <2>1. budget' \in [Bounds -> Nat]
    BY <1>3, FaultType DEF TypeOK, TypedWith
  <2> QED
    BY <1>3, <2>1, RestType DEF ListFlags, TypeOK, TypedWith, kubeVars, ctfdVars
<1> QED
  BY <1>2, <1>3 DEF ListFlags

LEMMA ListHintsType ==
    ASSUME TypeOK, NEW p \in Pods, NEW r \in Resources, ListHints(p, r)
    PROVE  TypeOK'
<1>1. wk[p][r].pc # "resting"
  BY DEF ListHints, At
<1>2. budget' \in [Bounds -> Nat]
  BY FaultType DEF ListHints, TypeOK, TypedWith
<1>3. wk' \in [Pods -> [Resources -> Workers \cup {Resting}]]
  BY <1>1, ObservedType, RestType DEF ListHints, TypeOK
<1> QED
  BY <1>2, <1>3 DEF ListHints, TypeOK, TypedWith, kubeVars, ctfdVars

LEMMA PostChallengeType ==
    ASSUME TypeOK, NEW p \in Pods, NEW r \in Resources, PostChallenge(p, r)
    PROVE  TypeOK'
<1> DEFINE new == {Posted(Copy(p, r), default) : default \in States}
<1>1. wk[p][r].pc # "resting" /\ wk[p][r] \in Workers
  BY ActiveWorker DEF PostChallenge, Post, At, TypeOK
<1>2. Copy(p, r).spec \in Specs
  BY <1>1 DEF Workers, Objects, Copy
<1>3. new \subseteq Challenges
  BY <1>2, PostedType
<1> HIDE DEF new
<1> QED
  BY <1>3, PostType DEF PostChallenge, TypeOK, new

LEMMA PatchChallengeType ==
    ASSUME TypeOK, StateSeen, NEW p \in Pods, NEW r \in Resources, PatchChallenge(p, r)
    PROVE  TypeOK'
<1> DEFINE o == Copy(p, r)
           new == Patched(ctfd[o.name], o, wk[p][r].seen)
           patched == [ctfd EXCEPT ![o.name] = Patched(@, o, wk[p][r].seen)]
<1>1. wk[p][r].pc # "resting" /\ wk[p][r] \in Workers
  BY ActiveWorker DEF PatchChallenge, At, TypeOK, TypedWith
<1>2. budget' \in [Bounds -> Nat]
  BY FaultType DEF PatchChallenge, TypeOK, TypedWith
<1>3. ASSUME Exists(o.name) PROVE patched \in [Ids -> Challenges \cup {NoItem}]
  <2>1. ctfd[o.name] \in Challenges
    BY <1>3 DEF Exists, TypeOK, TypedWith
  <2>2. o.spec \in Specs
    BY <1>1 DEF Workers, Objects, Copy
  <2>3. new \in Challenges
    <3>1. wk[p][r].seen \in States
      BY DEF StateSeen, PatchChallenge, At
    <3> QED
      BY <2>1, <2>2, <3>1, PatchedType
  <2> HIDE DEF new
  <2> QED
    BY <2>3 DEF TypeOK, TypedWith, new
<1>4. ctfd' \in [Ids -> Challenges \cup {NoItem}]
  BY <1>3 DEF PatchChallenge, TypeOK, TypedWith
<1>5. /\ obj' \in [Resources -> Objects]
      /\ wk' \in [Pods -> [Resources -> Workers \cup {Resting}]]
  BY <1>1, GotoType, FinishType DEF PatchChallenge, TypeOK, TypedWith, PCs
<1> QED
  BY <1>2, <1>4, <1>5 DEF PatchChallenge, TypeOK, TypedWith

LEMMA SyncFlagsType ==
    ASSUME TypeOK, NEW p \in Pods, NEW r \in Resources, SyncFlags(p, r)
    PROVE  TypeOK'
<1> DEFINE o == Copy(p, r)
<1>1. wk[p][r].pc # "resting" /\ wk[p][r] \in Workers
  BY ActiveWorker DEF SyncFlags, At, TypeOK, TypedWith
<1>2. budget' \in [Bounds -> Nat]
  BY FaultType DEF SyncFlags, TypeOK, TypedWith
<1>3. ctfd' \in [Ids -> Challenges \cup {NoItem}]
  <2>1. ASSUME Exists(o.name), NEW some \in Flags,
               ctfd' = [ctfd EXCEPT ![o.name].flags = some]
        PROVE  ctfd' \in [Ids -> Challenges \cup {NoItem}]
    <3>1. ctfd[o.name] \in Challenges
      BY <2>1 DEF Exists, TypeOK, TypedWith
    <3>2. [ctfd[o.name] EXCEPT !.flags = some] \in Challenges
      BY <3>1 DEF Challenges
    <3> QED
      BY <2>1, <3>2 DEF TypeOK, TypedWith
  <2>2. o.spec.flags \in Flags /\ Partial \in Flags
    BY <1>1 DEF Workers, Objects, Copy, Flags
  <2>3. Exists(o.name) => ctfd[o.name].flags \in Flags
    BY DEF Exists, TypeOK, TypedWith, Challenges
  <2> QED
    BY <2>1, <2>2, <2>3 DEF SyncFlags, TypeOK, TypedWith
<1>4. /\ obj' \in [Resources -> Objects]
      /\ wk' \in [Pods -> [Resources -> Workers \cup {Resting}]]
  BY <1>1, GotoType, FinishType DEF SyncFlags, TypeOK, TypedWith, PCs
<1> QED
  BY <1>2, <1>3, <1>4 DEF SyncFlags, TypeOK, TypedWith

LEMMA SyncHintsType ==
    ASSUME TypeOK, NEW p \in Pods, NEW r \in Resources, SyncHints(p, r)
    PROVE  TypeOK'
<1> DEFINE o == Copy(p, r)
<1>1. wk[p][r].pc # "resting" /\ wk[p][r] \in Workers
  BY ActiveWorker DEF SyncHints, At, TypeOK, TypedWith
<1>2. budget' \in [Bounds -> Nat]
  BY FaultType DEF SyncHints, TypeOK, TypedWith
<1>3. ctfd' \in [Ids -> Challenges \cup {NoItem}]
  <2>1. ASSUME Exists(o.name), NEW some \in Hints,
               ctfd' = [ctfd EXCEPT ![o.name].hints = some]
        PROVE  ctfd' \in [Ids -> Challenges \cup {NoItem}]
    <3>1. ctfd[o.name] \in Challenges
      BY <2>1 DEF Exists, TypeOK, TypedWith
    <3>2. [ctfd[o.name] EXCEPT !.hints = some] \in Challenges
      BY <3>1 DEF Challenges
    <3> QED
      BY <2>1, <3>2 DEF TypeOK, TypedWith
  <2>2. o.spec.hints \in Hints /\ Partial \in Hints
    BY <1>1 DEF Workers, Objects, Copy, Hints
  <2>3. Exists(o.name) => ctfd[o.name].hints \in Hints
    BY DEF Exists, TypeOK, TypedWith, Challenges
  <2> QED
    BY <2>1, <2>2, <2>3 DEF SyncHints, TypeOK, TypedWith
<1>4. /\ obj' \in [Resources -> Objects]
      /\ wk' \in [Pods -> [Resources -> Workers \cup {Resting}]]
  BY <1>1, FinishType DEF SyncHints, TypeOK, TypedWith
<1> QED
  BY <1>2, <1>3, <1>4 DEF SyncHints, TypeOK, TypedWith

LEMMA ReconcileType ==
    ASSUME TypeOK, StateSeen, NEW p \in Pods, NEW r \in Resources, Reconcile(p, r)
    PROVE  TypeOK'
<1>1. Bookkeeping(p, r) => TypeOK'
  BY BookkeepingType DEF TypeOK
<1>2. DeleteChallenge(p, r) => TypeOK'
  BY DeleteItemType DEF TypeOK, DeleteChallenge
<1> QED
  BY <1>1, <1>2, StartType, GetChallengeType, ListFlagsType, ListHintsType,
     PostChallengeType, PatchChallengeType, SyncFlagsType, SyncHintsType
     DEF Reconcile

LEMMA AdminActsType ==
    ASSUME TypeOK, NEW id \in Ids, AdminActs(id)
    PROVE  TypeOK'
<1> DEFINE new == {[ctfd[id] EXCEPT !.state = state] : state \in States \ {ctfd[id].state}}
                     \cup {[ctfd[id] EXCEPT !.flags = Partial], NoItem}
<1>1. ctfd[id] \in Challenges
  BY DEF AdminActs, Intervene, Exists, TypeOK, TypedWith
<1>2. \A state \in States : [ctfd[id] EXCEPT !.state = state] \in Challenges
  BY <1>1 DEF Challenges
<1>3. [ctfd[id] EXCEPT !.flags = Partial] \in Challenges
  BY <1>1 DEF Challenges, Flags
<1>4. new \subseteq Challenges \cup {NoItem}
  BY <1>2, <1>3
<1>5. Intervene(id, new)
  BY DEF AdminActs
<1> HIDE DEF new
<1> QED
  BY <1>4, <1>5, InterveneType DEF TypeOK

(***************************************************************************)
(* A call of a reconcile moves that reconcile alone.                       *)
(***************************************************************************)
LEMMA OtherWorkers ==
    ASSUME TypeOK, NEW p \in Pods, NEW r \in Resources, Reconcile(p, r)
    PROVE  MovesOnly(p, r)
<1>1. CASE Start(p, r) \/ PostChallenge(p, r) \/ DeleteChallenge(p, r) \/ Bookkeeping(p, r)
  BY <1>1, OthersRest DEF Start, PostChallenge, DeleteChallenge, TypeOK
<1>2. CASE GetChallenge(p, r) \/ ListFlags(p, r) \/ ListHints(p, r)
  <2>1. ASSUME Absent(p, r) \/ Rest(p, r) \/ \E drift : Observed(p, r, drift)
        PROVE  MovesOnly(p, r)
    BY <2>1, OthersRest DEF TypeOK
  <2> QED
    BY <1>2, <2>1 DEF GetChallenge, ListFlags, ListHints, MovesOnly, TypeOK, TypedWith
<1>3. CASE PatchChallenge(p, r) \/ SyncFlags(p, r) \/ SyncHints(p, r)
  <2>1. ASSUME Finish(p, r, TRUE) \/ \E pc : Goto(p, r, pc)
        PROVE  MovesOnly(p, r)
    BY <2>1, OthersRest DEF TypeOK
  <2> QED
    BY <1>3, <2>1 DEF PatchChallenge, SyncFlags, SyncHints
<1> QED
  BY <1>1, <1>2, <1>3 DEF Reconcile

SeenBy(p, r) ==
    \/ wk[p][r].pc \in {"flags", "hints", "patch"}
    \/ wk[p][r].pc = "finalizer" /\ wk[p][r].todo # "create"
    => wk[p][r].seen \in States

\* The reconcile that moves keeps StateSeen for itself.
LEMMA SeenByMover ==
    ASSUME TypeOK, StateSeen, NEW p \in Pods, NEW r \in Resources, Reconcile(p, r)
    PROVE  SeenBy(p, r)'
<1>1. SeenBy(p, r)
  BY DEF StateSeen, SeenBy
<1>2. CASE Start(p, r)
  BY <1>2 DEF Start, StartAt, NewReconcile, SeenBy, TypeOK, TypedWith
<1>3. CASE wk'[p][r] = Resting
  BY <1>3 DEF SeenBy, Resting
<1>4. ASSUME Rest(p, r) PROVE wk'[p][r] = Resting
  BY <1>4 DEF Rest, TypeOK, TypedWith
<1>5. wk[p] \in [Resources -> Workers \cup {Resting}] /\ p \in DOMAIN wk
  BY DEF TypeOK, TypedWith
<1>6. CASE GetChallenge(p, r)
  <2>1. wk[p][r].pc # "resting" /\ wk[p][r] \in Workers
    BY <1>6, ActiveWorker DEF GetChallenge, At, TypeOK, TypedWith
  <2>2. CASE Absent(p, r)
    <3>1. CASE Goto(p, r, "release")
      BY <1>5, <2>1, <3>1 DEF Goto, SeenBy, Workers
    <3>2. CASE wk' = [wk EXCEPT ![p][r].pc = "finalizer", ![p][r].todo = "create"]
      BY <2>1, <3>2 DEF SeenBy, Workers, TypeOK, TypedWith
    <3> QED
      BY <1>3, <1>4, <2>2, <3>1, <3>2 DEF Absent
  <2>3. ASSUME NEW got, Exists(Copy(p, r).name),
               wk' = [wk EXCEPT ![p][r].pc = "flags",
                                ![p][r].seen = ObservedState(ctfd[Copy(p, r).name]),
                                ![p][r].drift = Drifted(ctfd[Copy(p, r).name], Copy(p, r).spec, got)]
        PROVE  SeenBy(p, r)'
    <3>1. ctfd[Copy(p, r).name].state \in States
      BY <2>3 DEF Exists, TypeOK, TypedWith, Challenges
    <3>2. wk'[p][r].seen = ctfd[Copy(p, r).name].state
      BY <2>1, <2>3 DEF TypeOK, TypedWith, Workers, ObservedState
    <3> QED
      BY <3>1, <3>2 DEF SeenBy
  <2> QED
    BY <1>6, <2>2, <2>3 DEF GetChallenge
<1>7. CASE ListFlags(p, r) \/ ListHints(p, r)
  <2>1. wk[p][r].pc \in {"flags", "hints"} /\ wk[p][r] \in Workers
    BY <1>7, ActiveWorker DEF ListFlags, ListHints, At, TypeOK, TypedWith
  <2>2. CASE Rest(p, r)
    BY <1>3, <1>4, <2>2
  <2>3. CASE ~Rest(p, r)
    <3>1. wk'[p][r].seen = wk[p][r].seen
      BY <1>5, <1>7, <2>1, <2>3 DEF ListFlags, ListHints, Observed, Goto, Workers
    <3> QED
      BY <1>1, <2>1, <3>1 DEF SeenBy
  <2> QED
    BY <2>2, <2>3
<1>8. CASE AddFinalizer(p, r)
  <2>1. wk[p][r].pc = "finalizer" /\ wk[p][r] \in Workers
    BY <1>8, ActiveWorker DEF AddFinalizer, At, TypeOK, TypedWith
  <2>2. CASE Rest(p, r)
    BY <1>3, <1>4, <2>2
  <2>3. CASE Goto(p, r, NextCall(wk[p][r].todo)) /\ wk[p][r].todo # "nothing"
    BY <1>1, <1>5, <2>1, <2>3 DEF Goto, SeenBy, NextCall, Workers
  <2>4. CASE wk' = [wk EXCEPT ![p][r].copy = [Copy(p, r) EXCEPT !.finalizer = TRUE],
                              ![p][r].pc = "finalizer"]
    BY <1>1, <2>1, <2>4 DEF SeenBy, Workers, TypeOK, TypedWith
  <2> QED
    BY <1>8, <2>2, <2>3, <2>4 DEF AddFinalizer, Update, Finish
<1>9. CASE SetPending(p, r) \/ PostChallenge(p, r)
  <2>1. wk[p][r].pc # "resting" /\ wk[p][r] \in Workers
    BY <1>9, ActiveWorker DEF SetPending, PostChallenge, Post, At, TypeOK, TypedWith
  <2>2. wk'[p][r].pc \in {"resting", "post", "save", "saveFailed"}
    BY <1>3, <1>4, <1>5, <1>9, <2>1
       DEF SetPending, PostChallenge, Post, Update, Goto, Workers, Resting
  <2> QED
    BY <2>2 DEF SeenBy
<1>10. CASE \/ SaveCreated(p, r) \/ SaveFailed(p, r) \/ SyncHints(p, r)
            \/ DeleteChallenge(p, r) \/ RemoveFinalizer(p, r)
  BY <1>3, <1>4, <1>10
     DEF SaveCreated, SaveFailed, SyncHints, DeleteChallenge, DeleteItem, RemoveFinalizer,
         Finish
<1>11. CASE PatchChallenge(p, r) \/ SyncFlags(p, r)
  <2>1. wk[p][r].pc # "resting" /\ wk[p][r] \in Workers
    BY <1>11, ActiveWorker DEF PatchChallenge, SyncFlags, At, TypeOK, TypedWith
  <2>2. wk'[p][r].pc \in {"resting", "syncFlags", "syncHints"}
    BY <1>4, <1>5, <1>11, <2>1
       DEF PatchChallenge, SyncFlags, Finish, Goto, Workers, Resting
  <2> QED
    BY <2>2 DEF SeenBy
<1> QED
  BY <1>2, <1>6, <1>7, <1>8, <1>9, <1>10, <1>11 DEF Reconcile, Bookkeeping

LEMMA StateSeenStep ==
    ASSUME TypeOK, StateSeen, [Next]_vars
    PROVE  StateSeen'
<1>1. ASSUME NEW p \in Pods, NEW r \in Resources, Reconcile(p, r) PROVE StateSeen'
  <2> SUFFICES ASSUME NEW q \in Pods, NEW s \in Resources PROVE SeenBy(q, s)'
    BY DEF StateSeen, SeenBy
  <2>1. CASE q = p /\ s = r
    BY <1>1, <2>1, SeenByMover
  <2>2. CASE q # p \/ s # r
    BY <1>1, <2>2, OtherWorkers DEF MovesOnly, StateSeen, SeenBy
  <2> QED
    BY <2>1, <2>2
<1>2. CASE UNCHANGED wk
  BY <1>2 DEF StateSeen
<1>3. ASSUME NEW p \in Pods, Crash(p) PROVE StateSeen'
  BY <1>3 DEF Crash, StateSeen, TypeOK, TypedWith, Resting
<1>4. Surroundings \/ (\E id \in Ids : AdminActs(id)) => UNCHANGED wk \/ \E p \in Pods : Crash(p)
  BY DEF Surroundings, CacheSync, GraceElapses, EditSpec, DeleteResource, AdminActs, Intervene
<1> QED
  BY <1>1, <1>2, <1>3, <1>4 DEF Next, vars

(***************************************************************************)
(* Every variable keeps its type.  The state of a challenge does because a *)
(* PATCH that leaves the state to CTFd sends back the one Observe saw.     *)
(***************************************************************************)
THEOREM TypeCorrect == Spec => [](TypeOK /\ StateSeen)
<1>1. Init => TypeOK /\ StateSeen
  <2> SUFFICES ASSUME Init PROVE TypeOK /\ StateSeen
    OBVIOUS
  <2>1. HandMade \in Challenges
    BY DEF HandMade, Challenges, States, Bodies, Values, Requirements, Flags, Hints
  <2>2. TypeOK
    BY <2>1, InitType DEF Init, TypeOK
  <2>3. StateSeen
    BY DEF Init, InitWith, StateSeen, Resting
  <2> QED
    BY <2>2, <2>3
<1>2. TypeOK /\ StateSeen /\ [Next]_vars => TypeOK' /\ StateSeen'
  <2> SUFFICES ASSUME TypeOK, StateSeen, [Next]_vars PROVE TypeOK'
    BY StateSeenStep
  <2>1. CASE UNCHANGED vars
    BY <2>1 DEF vars, TypeOK, TypedWith
  <2>2. CASE Surroundings
    BY <2>2, SurroundingsType DEF TypeOK
  <2> QED
    BY <2>1, <2>2, ReconcileType, AdminActsType DEF Next
<1> QED
  BY <1>1, <1>2, PTL DEF Spec

\* So no PATCH ever falls back to a state that Observe has not seen.
THEOREM StateAlwaysSeen == Spec => []StateSeen
<1>1. TypeOK /\ StateSeen => StateSeen
  OBVIOUS
<1> QED
  BY <1>1, TypeCorrect, PTL

----------------------------------------------------------------------------
(***************************************************************************)
(* No challenge is lost and none is made twice: the calls that Challenge   *)
(* adds to the reconciler's are quiet.                                     *)
(***************************************************************************)
LEMMA ObserveTraceable ==
    ASSUME ReliableAnswers, TypeOK, TypeOK', Traceable, NEW p \in Pods, NEW r \in Resources,
           GetChallenge(p, r) \/ ListFlags(p, r) \/ ListHints(p, r)
    PROVE  Traceable'
<1>1. Before(p, r)
  BY DEF GetChallenge, ListFlags, ListHints, At, Before
<1>2. wk[p][r] \in Workers
  BY <1>1, MoverKnows DEF TypeOK
<1>3. ASSUME NEW got,
             wk' = [wk EXCEPT ![p][r].pc = "flags",
                              ![p][r].seen = ObservedState(ctfd[Copy(p, r).name]),
                              ![p][r].drift = Drifted(ctfd[Copy(p, r).name], Copy(p, r).spec, got)]
      PROVE  WorkerKept(p, r)
  <2>1. wk'[p][r].pc = "flags" /\ wk'[p][r].copy = wk[p][r].copy
    BY <1>2, <1>3 DEF Workers, TypeOK, TypedWith
  <2> QED
    BY <1>1, <2>1, ProceedKept DEF Before, TypeOK
<1>4. ASSUME wk' = [wk EXCEPT ![p][r].pc = "hints",
                              ![p][r].drift = @ \/ Listed(Copy(p, r).name, "flags")
                                                   # Copy(p, r).spec.flags]
      PROVE  WorkerKept(p, r)
  <2>1. wk'[p][r].pc = "hints" /\ wk'[p][r].copy = wk[p][r].copy
    BY <1>2, <1>4 DEF Workers, TypeOK, TypedWith
  <2> QED
    BY <1>1, <2>1, ProceedKept DEF Before, TypeOK
<1>5. WorkerKept(p, r)
  <2>1. CASE GetChallenge(p, r)
    BY <1>1, <1>3, <2>1, AbsentKept DEF GetChallenge, ReliableAnswers, Fault, TypeOK
  <2>2. CASE ListFlags(p, r)
    BY <1>4, <2>2, RestKept DEF ListFlags, TypeOK
  <2>3. CASE ListHints(p, r)
    BY <1>1, <2>3, ObservedKept, RestKept DEF ListHints, TypeOK
  <2> QED
    BY <2>1, <2>2, <2>3
<1>6. ObjectsKept /\ ItemsKept /\ cache' = cache
  BY DEF GetChallenge, ListFlags, ListHints, ObjectsKept, ItemsKept, kubeVars, ctfdVars
<1>7. MovesOnly(p, r)
  BY OtherWorkers DEF Reconcile
<1> QED
  BY <1>5, <1>6, <1>7, QuietReconcile DEF TypeOK

\* Update brings no challenge into being.
LEMMA UpdateKeepsItems ==
    ASSUME TypeOK, NEW p \in Pods, NEW r \in Resources,
           PatchChallenge(p, r) \/ SyncFlags(p, r) \/ SyncHints(p, r)
    PROVE  ItemsKept
<1>1. creator' = creator /\ nextId' = nextId
  BY DEF PatchChallenge, SyncFlags, SyncHints
<1>2. ASSUME NEW id \in Ids, ctfd[id] = NoItem PROVE ctfd'[id] = NoItem
  <2>1. CASE PatchChallenge(p, r)
    BY <1>2, <2>1 DEF PatchChallenge, Exists, TypeOK, TypedWith
  <2>2. CASE SyncFlags(p, r)
    BY <1>2, <2>2 DEF SyncFlags, Exists, TypeOK, TypedWith
  <2>3. CASE SyncHints(p, r)
    BY <1>2, <2>3 DEF SyncHints, Exists, TypeOK, TypedWith
  <2> QED
    BY <2>1, <2>2, <2>3
<1> QED
  BY <1>1, <1>2 DEF ItemsKept

LEMMA UpdateTraceable ==
    ASSUME TypeOK, TypeOK', Traceable, NEW p \in Pods, NEW r \in Resources,
           PatchChallenge(p, r) \/ SyncFlags(p, r) \/ SyncHints(p, r)
    PROVE  Traceable'
<1>1. Before(p, r)
  BY DEF PatchChallenge, SyncFlags, SyncHints, At, Before
<1>2. /\ wk[p][r] \in Workers /\ wk[p][r].copy.mark # "pending"
      /\ wk[p][r].copy.name < nextId
  BY <1>1, MoverKnows DEF TypeOK, TypedWith
<1>3. ASSUME NEW pc \in {"syncFlags", "syncHints"}, Goto(p, r, pc), UNCHANGED obj
      PROVE  ObjectsKept /\ WorkerKept(p, r)
  <2>1. wk'[p][r] = [wk[p][r] EXCEPT !.pc = pc]
    BY <1>3 DEF Goto, TypeOK, TypedWith
  <2> QED
    BY <1>2, <1>3, <2>1 DEF ObjectsKept, WorkerKept, Before, Workers
<1>4. ObjectsKept /\ WorkerKept(p, r)
  BY <1>3, FinishKept DEF PatchChallenge, SyncFlags, SyncHints, TypeOK, TypedWith
<1>5. ItemsKept
  BY UpdateKeepsItems
<1>6. cache' = cache /\ MovesOnly(p, r)
  BY OtherWorkers DEF PatchChallenge, SyncFlags, SyncHints, Reconcile
<1> QED
  BY <1>4, <1>5, <1>6, QuietReconcile DEF TypeOK, TypedWith

LEMMA StepTraceable ==
    ASSUME ReliableAnswers, TypeOK, TypeOK', Traceable, [Next]_vars
    PROVE  Traceable'
<1>1. ASSUME NEW p \in Pods, NEW r \in Resources, Reconcile(p, r) PROVE Traceable'
  <2>1. CASE Start(p, r)
    BY <2>1, StartAtTraceable DEF Start, TypeOK
  <2>2. CASE Bookkeeping(p, r)
    BY <2>2, BookkeepingTraceable DEF TypeOK
  <2>3. CASE PostChallenge(p, r)
    BY <2>3, PostTraceable DEF PostChallenge, TypeOK
  <2>4. CASE DeleteChallenge(p, r)
    BY <2>4, DeleteItemTraceable DEF DeleteChallenge, TypeOK
  <2> QED
    BY <1>1, <2>1, <2>2, <2>3, <2>4, ObserveTraceable, UpdateTraceable DEF Reconcile
<1>2. CASE Surroundings
  BY <1>2, SurroundingsTraceable DEF TypeOK
<1>3. CASE \E id \in Ids : AdminActs(id)
  BY <1>3, InterveneTraceable DEF AdminActs, TypeOK
<1>4. CASE UNCHANGED vars
  BY <1>4, StutterTraceable
<1> QED
  BY <1>1, <1>2, <1>3, <1>4 DEF Next

\* Whatever interleaving of pods, crashes, conflicts, edits and administrators,
\* every challenge can be traced from its object, as long as a failed GET is
\* never taken for an absent challenge and no reply to a POST is lost.
THEOREM TraceableAlways ==
    ASSUME ReliableAnswers
    PROVE  Spec => []Traceable
<1>1. Init => Traceable
  BY InitTraceable DEF Init
<1>2. TypeOK /\ TypeOK' /\ Traceable /\ [Next]_vars => Traceable'
  BY StepTraceable
<1>3. Spec => []TypeOK
  BY TypeCorrect, PTL
<1> QED
  BY <1>1, <1>2, <1>3, PTL DEF Spec

\* Under the same proviso no challenge that Create made is ever lost: the
\* object names it, or is stopped by its create-pending annotation.
THEOREM NothingLost ==
    ASSUME ReliableAnswers
    PROVE  Spec => []NoOrphan
<1>1. Traceable => NoOrphan
  BY DEF Traceable
<1> QED
  BY <1>1, TraceableAlways, PTL

\* Under the same proviso Create never makes a second challenge while the
\* first is in CTFd.
THEOREM NeverTwice ==
    ASSUME ReliableAnswers
    PROVE  Spec => []AtMostOne
<1>1. Traceable => AtMostOne
  BY DEF Traceable
<1> QED
  BY <1>1, TraceableAlways, PTL

\* That an object that is gone has left nothing in CTFd is the part of NoOrphan
\* that the run challenge_failed_get_leaks refutes when a GET may fail.
COROLLARY NothingLeftBehind ==
    ASSUME ReliableAnswers
    PROVE  Spec => []DeletionLeavesNothing
<1>1. NoOrphan => DeletionLeavesNothing
  BY DEF NoOrphan, DeletionLeavesNothing
<1> QED
  BY <1>1, NothingLost, PTL

----------------------------------------------------------------------------
(***************************************************************************)
(* What holds whatever fails.                                              *)
(***************************************************************************)
LEMMA ObserveOrderly ==
    ASSUME TypeOK, Announced, NEW p \in Pods, NEW r \in Resources,
           GetChallenge(p, r) \/ ListFlags(p, r) \/ ListHints(p, r)
    PROVE  Orderly(p, r)
<1>1. Before(p, r)
  BY DEF GetChallenge, ListFlags, ListHints, At, Before
<1>2. wk[p][r] \in Workers
  BY <1>1, ActiveWorker DEF Before, TypeOK
<1>3. ASSUME NEW got, Exists(Copy(p, r).name),
             wk' = [wk EXCEPT ![p][r].pc = "flags",
                              ![p][r].seen = ObservedState(ctfd[Copy(p, r).name]),
                              ![p][r].drift = Drifted(ctfd[Copy(p, r).name], Copy(p, r).spec, got)]
      PROVE  WorkerOrderly(p, r)
  <2> DEFINE d == Drifted(ctfd[Copy(p, r).name], Copy(p, r).spec, got)
             w == [wk[p][r] EXCEPT !.pc = "flags", !.seen = ctfd[Copy(p, r).name].state, !.drift = d]
  <2>1. ctfd[Copy(p, r).name].state \in States /\ d \in BOOLEAN
    BY <1>3 DEF Exists, TypeOK, TypedWith, Challenges, Drifted
  <2>2. w \in Workers /\ w.pc = "flags" /\ w.copy = Copy(p, r)
    <3> HIDE DEF d
    <3> QED
      BY <1>2, <2>1 DEF Workers, PCs, Copy
  <2>3. wk' = [wk EXCEPT ![p][r] = w]
    BY <1>3 DEF TypeOK, TypedWith, ObservedState
  <2> HIDE DEF w
  <2> QED
    BY <1>1, <2>2, <2>3, ProceedOrderly DEF TypeOK
<1>4. ASSUME wk' = [wk EXCEPT ![p][r].pc = "hints",
                              ![p][r].drift = @ \/ Listed(Copy(p, r).name, "flags")
                                                   # Copy(p, r).spec.flags]
      PROVE  WorkerOrderly(p, r)
  <2> DEFINE d == wk[p][r].drift \/ Listed(Copy(p, r).name, "flags") # Copy(p, r).spec.flags
             w == [wk[p][r] EXCEPT !.pc = "hints", !.drift = d]
  <2>1. w \in Workers /\ w.pc = "hints" /\ w.copy = Copy(p, r)
    <3>1. d \in BOOLEAN
      OBVIOUS
    <3> HIDE DEF d
    <3> QED
      BY <1>2, <3>1 DEF Workers, PCs, Copy
  <2>2. wk' = [wk EXCEPT ![p][r] = w]
    <3>1. wk' = [wk EXCEPT ![p][r].pc = "hints", ![p][r].drift = d]
      BY <1>4 DEF TypeOK, TypedWith
    <3> HIDE DEF d
    <3> QED
      BY <3>1 DEF TypeOK, TypedWith
  <2> HIDE DEF w
  <2> QED
    BY <1>1, <2>1, <2>2, ProceedOrderly DEF TypeOK
<1>5. WorkerOrderly(p, r)
  <2>1. CASE GetChallenge(p, r)
    <3>1. Absent(p, r) => WorkerOrderly(p, r)
      BY <1>1, ObservationOrderly DEF TypeOK
    <3>2. CASE ~Absent(p, r)
      <4>1. PICK got : /\ Exists(Copy(p, r).name)
                       /\ wk' = [wk EXCEPT ![p][r].pc = "flags",
                                ![p][r].seen = ObservedState(ctfd[Copy(p, r).name]),
                                ![p][r].drift = Drifted(ctfd[Copy(p, r).name], Copy(p, r).spec, got)]
        BY <2>1, <3>2, Zenon DEF GetChallenge
      <4> QED
        BY <1>3, <4>1
    <3> QED
      BY <3>1, <3>2
  <2>2. CASE ListFlags(p, r)
    BY <1>4, <2>2, RestOrderly DEF ListFlags, TypeOK
  <2>3. CASE ListHints(p, r)
    BY <1>1, <2>3, ObservationOrderly, RestOrderly DEF ListHints, TypeOK
  <2> QED
    BY <2>1, <2>2, <2>3
<1>6. ObjectsKept /\ UNCHANGED <<cache, creator, nextId>>
  BY DEF GetChallenge, ListFlags, ListHints, ObjectsKept, kubeVars, ctfdVars
<1> QED
  BY <1>5, <1>6, OtherWorkers DEF Orderly, Reconcile

LEMMA UpdateOrderly ==
    ASSUME TypeOK, Announced, NEW p \in Pods, NEW r \in Resources,
           PatchChallenge(p, r) \/ SyncFlags(p, r) \/ SyncHints(p, r)
    PROVE  Orderly(p, r)
<1>1. Before(p, r)
  BY DEF PatchChallenge, SyncFlags, SyncHints, At, Before
<1>2. ASSUME NEW pc \in {"syncFlags", "syncHints"}, Goto(p, r, pc), UNCHANGED obj
      PROVE  ObjectsKept /\ WorkerOrderly(p, r)
  BY <1>1, <1>2, GotoOrderly DEF ObjectsKept, TypeOK, PCs
<1>3. ObjectsKept /\ WorkerOrderly(p, r)
  BY <1>2, FinishOrderly DEF PatchChallenge, SyncFlags, SyncHints, TypeOK
<1> QED
  BY <1>3, OtherWorkers DEF Orderly, PatchChallenge, SyncFlags, SyncHints, Reconcile

LEMMA StepAnnounced ==
    ASSUME TypeOK, Announced, [Next]_vars
    PROVE  Announced' /\ (OwnNames => OwnNames')
<1>1. ASSUME NEW p \in Pods, NEW r \in Resources, Reconcile(p, r)
      PROVE  Announced' /\ (OwnNames => OwnNames')
  <2>1. CASE Start(p, r) \/ DeleteChallenge(p, r)
    BY <2>1, StartAtOrderly, DeleteItemOrderly, OrderlyKept DEF Start, DeleteChallenge, TypeOK
  <2>2. CASE Bookkeeping(p, r)
    BY <2>2, BookkeepingAnnounced DEF TypeOK
  <2>3. CASE PostChallenge(p, r)
    BY <2>3, PostKeepsAnnounced, PostOwnNames DEF PostChallenge, TypeOK
  <2> QED
    BY <1>1, <2>1, <2>2, <2>3, ObserveOrderly, UpdateOrderly, OrderlyKept DEF Reconcile
<1>2. CASE Surroundings
  BY <1>2, SurroundingsAnnounced DEF TypeOK
<1>3. CASE (\E id \in Ids : AdminActs(id)) \/ UNCHANGED vars
  BY <1>3, StillAnnounced DEF AdminActs, Intervene, kubeVars, vars
<1> QED
  BY <1>1, <1>2, <1>3 DEF Next

LEMMA AnnouncedAlways == Spec => []Announced
<1>1. Init => Announced
  BY InitAnnounced DEF Init
<1>2. TypeOK /\ Announced /\ [Next]_vars => Announced'
  BY StepAnnounced
<1> QED
  BY <1>1, <1>2, TypeCorrect, PTL DEF Spec

\* Whatever fails, crashes or conflicts, one pod at most is between announcing
\* a challenge of a resource and recording the outcome.
THEOREM OneCreatorAtATime == Spec => []OneCreates
<1>1. Announced => OneCreates
  BY DEF Announced
<1> QED
  BY <1>1, AnnouncedAlways, PTL

\* Only a POST has CTFd hand out an ID.
LEMMA OnlyPostHandsOut ==
    ASSUME [Next]_vars, creator' # creator
    PROVE  \E p \in Pods, r \in Resources : PostChallenge(p, r)
<1>1. ASSUME NEW p \in Pods, NEW r \in Resources, Reconcile(p, r), ~PostChallenge(p, r)
      PROVE  creator' = creator
  <2>1. CASE Start(p, r) \/ Bookkeeping(p, r) \/ DeleteChallenge(p, r)
    BY <2>1, OthersHandOutNothing DEF Start, DeleteChallenge
  <2>2. CASE GetChallenge(p, r) \/ ListFlags(p, r) \/ ListHints(p, r)
    BY <2>2 DEF GetChallenge, ListFlags, ListHints, ctfdVars
  <2>3. CASE PatchChallenge(p, r) \/ SyncFlags(p, r) \/ SyncHints(p, r)
    BY <2>3 DEF PatchChallenge, SyncFlags, SyncHints
  <2> QED
    BY <1>1, <2>1, <2>2, <2>3 DEF Reconcile
<1>2. ~Surroundings
  BY DEF Surroundings, CacheSync, GraceElapses, EditSpec, DeleteResource, Crash, ctfdVars
<1>3. ~\E id \in Ids : AdminActs(id)
  BY DEF AdminActs, Intervene
<1> QED
  BY <1>1, <1>2, <1>3 DEF Next, vars

\* Whatever fails, CTFd is never asked for a challenge before the object
\* durably carries the finalizer and the create-pending annotation.
THEOREM CreationAnnounced == Spec => CreateIsAnnounced
<1>1. ASSUME TypeOK, Announced, [Next]_vars, NEW r \in Resources, NEW id \in Ids,
             creator'[id] = r, creator[id] # r
      PROVE  obj[r].phase # "gone" /\ obj[r].finalizer /\ obj[r].mark = "pending"
  <2>1. PICK p \in Pods, s \in Resources : PostChallenge(p, s)
    BY <1>1, OnlyPostHandsOut
  <2> QED
    BY <1>1, <2>1, PostAnnounced DEF PostChallenge, TypeOK
<1>2. TypeOK /\ Announced /\ [Next]_vars =>
         [\A r \in Resources, id \in Ids : creator'[id] = r /\ creator[id] # r =>
             obj[r].phase # "gone" /\ obj[r].finalizer /\ obj[r].mark = "pending"]_vars
  BY <1>1
<1>3. Spec => []TypeOK
  BY TypeCorrect, PTL
<1> QED
  BY <1>2, <1>3, AnnouncedAlways, PTL DEF Spec, CreateIsAnnounced

\* A reconcile changes only the ID that it is handed or the one its copy names.
LEMMA ChangesWhatItNames ==
    ASSUME TypeOK, OwnNames, NEW p \in Pods, NEW r \in Resources, Reconcile(p, r),
           NEW id \in Ids, ctfd'[id] # ctfd[id]
    PROVE  creator'[id] = r
<1>1. wk[p][r].pc # "resting" => Own(r, Copy(p, r).name)
  BY DEF OwnNames
<1>2. CASE Start(p, r) \/ GetChallenge(p, r) \/ ListFlags(p, r) \/ ListHints(p, r)
  BY <1>2 DEF Start, StartAt, GetChallenge, ListFlags, ListHints, ctfdVars
<1>3. CASE Bookkeeping(p, r)
  BY <1>3 DEF Bookkeeping, AddFinalizer, SetPending, SaveCreated, SaveFailed, RemoveFinalizer,
              ctfdVars
<1>4. CASE PostChallenge(p, r)
  BY <1>4 DEF PostChallenge, Post, ctfdVars, TypeOK, TypedWith
<1>5. CASE PatchChallenge(p, r) \/ SyncFlags(p, r) \/ SyncHints(p, r) \/ DeleteChallenge(p, r)
  <2>1. wk[p][r].pc # "resting" /\ creator' = creator
    BY <1>5 DEF PatchChallenge, SyncFlags, SyncHints, DeleteChallenge, DeleteItem, At
  <2>2. id = Copy(p, r).name
    BY <1>5 DEF PatchChallenge, SyncFlags, SyncHints, DeleteChallenge, DeleteItem,
                TypeOK, TypedWith
  <2>3. id # NotANumber
    BY DEF Ids, NotANumber
  <2> QED
    BY <1>1, <2>1, <2>2, <2>3 DEF Own
<1> QED
  BY <1>2, <1>3, <1>4, <1>5 DEF Reconcile

\* Whatever fails, a reconcile changes no challenge but one that its own
\* resource had CTFd create, unless a resource starts with a number for a name.
THEOREM OthersUntouched ==
    ASSUME WordsForNames
    PROVE  Spec => OwnChallengesOnly
<1>1. Init => Announced /\ OwnNames
  BY InitAnnounced DEF Init
<1>2. TypeOK /\ (Announced /\ OwnNames) /\ [Next]_vars => (Announced /\ OwnNames)'
  BY StepAnnounced
<1>3. TypeOK /\ (Announced /\ OwnNames) /\ [Next]_vars =>
         [\A p \in Pods, r \in Resources : Reconcile(p, r) =>
             \A id \in Ids : ctfd'[id] # ctfd[id] => creator'[id] = r]_vars
  BY ChangesWhatItNames
<1> QED
  BY <1>1, <1>2, <1>3, TypeCorrect, PTL DEF Spec, OwnChallengesOnly

----------------------------------------------------------------------------
(***************************************************************************)
(* The controller implements Custody.                                      *)
(***************************************************************************)
LEMMA UpdateCustody ==
    ASSUME TypeOK, Announced, NEW p \in Pods, NEW r \in Resources,
           PatchChallenge(p, r) \/ SyncFlags(p, r) \/ SyncHints(p, r)
    PROVE  [Promised!Next]_Promised!vars
<1>1. ASSUME NEW id \in Ids, id # Copy(p, r).name PROVE ctfd'[id] = ctfd[id]
  BY <1>1 DEF PatchChallenge, SyncFlags, SyncHints, TypeOK, TypedWith
<1> QED
  BY <1>1, UpdateOrderly, UpdateKeepsItems, OrderlyCustody

LEMMA PostCustody ==
    ASSUME TypeOK, Traceable, NEW p \in Pods, NEW r \in Resources, PostChallenge(p, r)
    PROVE  [Promised!Next]_Promised!vars
<1> DEFINE new == {Posted(Copy(p, r), default) : default \in States}
<1>1. wk[p][r] \in Workers
  BY ActiveWorker DEF PostChallenge, Post, At, TypeOK
<1>2. Copy(p, r).spec \in Specs
  BY <1>1 DEF Copy, Workers, Objects
<1>3. new \subseteq Challenges
  BY <1>2, PostedType
<1>4. NoItem \notin new
  <2>1. "state" \notin DOMAIN NoItem
    BY DEF NoItem
  <2>2. \A ch \in Challenges : "state" \in DOMAIN ch
    BY DEF Challenges
  <2> QED
    BY <1>3, <2>1, <2>2
<1>5. Post(p, r, new)
  BY DEF PostChallenge
<1> HIDE DEF new
<1> QED
  BY <1>4, <1>5, MakeCustody DEF TypeOK

LEMMA StepCustody ==
    ASSUME TypeOK, Traceable, Announced, [Next]_vars
    PROVE  [Promised!Next]_Promised!vars
<1>1. ASSUME NEW p \in Pods, NEW r \in Resources, Reconcile(p, r)
      PROVE  [Promised!Next]_Promised!vars
  <2>1. CASE Start(p, r)
    BY <2>1, StartAtCustody DEF Start, TypeOK
  <2>2. CASE GetChallenge(p, r) \/ ListFlags(p, r) \/ ListHints(p, r)
    <3>1. UNCHANGED ctfdVars
      BY <2>2 DEF GetChallenge, ListFlags, ListHints
    <3> QED
      BY <2>2, <3>1, ObserveOrderly, OrderlyCustody DEF ItemsKept, ctfdVars
  <2>3. CASE Bookkeeping(p, r)
    BY <2>3, BookkeepingCustody DEF TypeOK
  <2>4. CASE DeleteChallenge(p, r)
    BY <2>4, DeleteItemCustody DEF DeleteChallenge, TypeOK
  <2> QED
    BY <1>1, <2>1, <2>2, <2>3, <2>4, PostCustody, UpdateCustody DEF Reconcile
<1>2. CASE Surroundings
  BY <1>2, SurroundingsCustody DEF TypeOK
<1>3. CASE \E id \in Ids : AdminActs(id)
  BY <1>3, InterveneCustody DEF AdminActs, TypeOK
<1>4. CASE UNCHANGED vars
  BY <1>4 DEF vars, kubeVars, ctfdVars, Stage, Known, Held, Used, CreatedBy, Promised!vars
<1> QED
  BY <1>1, <1>2, <1>3, <1>4 DEF Next

\* Under the proviso of Traceable the pods together, with stale caches, crashes,
\* conflicts and administrators, do to each resource's challenges only what
\* Custody allows: announce, make one, record the outcome, and release the
\* object when nothing is left.
THEOREM ChallengesInCustody ==
    ASSUME ReliableAnswers
    PROVE  Spec => KeepsCustody
<1>1. Init => Promised!Init
  BY InitCustody DEF Init
<1>2. TypeOK /\ Traceable /\ Announced /\ [Next]_vars => [Promised!Next]_Promised!vars
  BY StepCustody
<1> QED
  BY <1>1, <1>2, TypeCorrect, TraceableAlways, AnnouncedAlways, PTL
     DEF Spec, KeepsCustody, Promised!Spec
----------------------------------------------------------------------------
(***************************************************************************)
(* Updates take effect, and take nothing else with them.                   *)
(***************************************************************************)
\* The value apart, what CTFd computes changes no field.
LEMMA ValuedKeeps ==
    ASSUME NEW b, b = [f \in Fields |-> b[f]]
    PROVE  /\ \A f \in Fields \ {"value"} : Valued(b)[f] = b[f]
           /\ b.type = Standard => Valued(b) = b
BY DEF Valued

LEMMA FilledSettles ==
    ASSUME NEW b \in Bodies
    PROVE  UpToDate(b, Filled(PostParams(b)))
<1> DEFINE params == PostParams(b)
           filled == [f \in Fields |-> OrElse(params[f], CTFdDefault(f))]
<1>1. /\ \A f \in Required \cup Optional : params[f] = b[f]
      /\ params["type"] = TypeOrDefault(b.type)
      /\ params["value"] = OrElse(b.value, Zero)
  BY DEF PostParams, Bodies, Fields, Required, Optional
<1>2. /\ \A f \in Required : filled[f] = b[f]
      /\ \A f \in Optional : EqPtr(b[f], filled[f])
      /\ filled["type"] = TypeOrDefault(b.type)
      /\ EqPtr(b.value, filled["value"])
  <2> HIDE DEF params
  <2> QED
    BY <1>1 DEF OrElse, CTFdDefault, EqPtr, Fields, Required, Optional
<1>3. filled = [f \in Fields |-> filled[f]]
  OBVIOUS
<1> HIDE DEF filled
<1>4. /\ \A f \in Fields \ {"value"} : Valued(filled)[f] = filled[f]
      /\ filled["type"] = Standard => Valued(filled) = filled
  BY <1>3, ValuedKeeps
<1>5. UpToDate(b, Valued(filled))
  BY <1>2, <1>4 DEF UpToDate, Fields, Required, Optional
<1> QED
  BY <1>5 DEF Filled, filled

\* What a PATCH makes of a challenge's fields.
LEMMA OverlaidFields ==
    ASSUME NEW b \in Bodies, NEW was \in Bodies,
           NEW is, is = Overlaid(was, PatchParams(b))
    PROVE  /\ \A f \in Required \cup Optional : is[f] = IF b[f] # Nil THEN b[f] ELSE was[f]
           /\ is["type"] = was["type"]
           /\ was["type"] = Standard =>
                 is["value"] = IF b["value"] # Nil THEN b["value"] ELSE was["value"]
<1> DEFINE params == PatchParams(b)
           over == [f \in Fields |-> IF f \in DOMAIN params THEN params[f] ELSE was[f]]
<1>1. /\ \A f \in Fields \ {"type"} : over[f] = IF b[f] # Nil THEN b[f] ELSE was[f]
      /\ over["type"] = was["type"]
  BY DEF PatchParams, Fields
<1>2. over = [f \in Fields |-> over[f]]
  OBVIOUS
<1>3. is = Valued(over)
  BY DEF Overlaid
<1> HIDE DEF over
<1>4. /\ \A f \in Fields \ {"value"} : is[f] = over[f]
      /\ over["type"] = Standard => is = over
  BY <1>2, <1>3, ValuedKeeps
<1> QED
  BY <1>1, <1>4 DEF Fields, Required, Optional

LEMMA OverlaidSettles ==
    ASSUME NEW b \in Bodies, \A f \in Required : b[f] # Nil,
           NEW was \in Bodies, was.type = TypeOrDefault(b.type)
    PROVE  UpToDate(b, Overlaid(was, PatchParams(b)))
<1> DEFINE is == Overlaid(was, PatchParams(b))
<1>1. /\ \A f \in Required \cup Optional : is[f] = IF b[f] # Nil THEN b[f] ELSE was[f]
      /\ is["type"] = was["type"]
      /\ was["type"] = Standard =>
            is["value"] = IF b["value"] # Nil THEN b["value"] ELSE was["value"]
  BY OverlaidFields
<1> HIDE DEF is
<1>2. UpToDate(b, is)
  BY <1>1 DEF UpToDate, EqPtr
<1> QED
  BY <1>2 DEF is

LEMMA SameAsItself ==
    ASSUME NEW list
    PROVE  SameIntSet(list, list)
BY DEF SameIntSet

LEMMA PostedSettles ==
    ASSUME NEW o, o.spec \in Specs, NEW default \in States
    PROVE  ~Drifted(Posted(o, default), o.spec, Posted(o, default).requirements)
<1> DEFINE ch == Posted(o, default)
<1>1. /\ ch.body = Filled(PostParams(o.spec.body))
      /\ ch.requirements = OrElse(o.spec.requirements, <<>>)
      /\ ch.state = IF o.spec.state = Unset THEN default ELSE o.spec.state
  BY DEF Posted
<1>2. UpToDate(o.spec.body, ch.body)
  BY <1>1, FilledSettles, SpecsAssumption
<1>3. o.spec.requirements # Nil => SameIntSet(o.spec.requirements, ch.requirements)
  BY <1>1, SameAsItself DEF OrElse
<1> HIDE DEF ch
<1>4. ~Drifted(ch, o.spec, ch.requirements)
  BY <1>1, <1>2, <1>3 DEF Drifted
<1> QED
  BY <1>4 DEF ch

LEMMA PatchedSettles ==
    ASSUME NEW o, o.spec \in Specs, NEW was \in Challenges, NEW seen, TypeKept(was, o.spec)
    PROVE  ~Drifted(Patched(was, o, seen), o.spec, Patched(was, o, seen).requirements)
<1> DEFINE ch == Patched(was, o, seen)
<1>1. /\ ch.body = Overlaid(was.body, PatchParams(o.spec.body))
      /\ ch.requirements = OrElse(o.spec.requirements, was.requirements)
      /\ ch.state = IF o.spec.state = Unset THEN seen ELSE o.spec.state
  BY DEF Patched, Challenges
<1>2. UpToDate(o.spec.body, ch.body)
  BY <1>1, OverlaidSettles, SpecsAssumption DEF TypeKept, Challenges
<1>3. o.spec.requirements # Nil => SameIntSet(o.spec.requirements, ch.requirements)
  BY <1>1, SameAsItself DEF OrElse
<1> HIDE DEF ch
<1>4. ~Drifted(ch, o.spec, ch.requirements)
  BY <1>1, <1>2, <1>3 DEF Drifted
<1> QED
  BY <1>4 DEF ch

LEMMA PatchedLeavesUnset ==
    ASSUME NEW o, o.spec \in Specs, NEW was \in Challenges, NEW seen
    PROVE  LeavesUnset(o.spec, seen, was, Patched(was, o, seen))
<1> DEFINE ch == Patched(was, o, seen)
<1>1. /\ ch.body = Overlaid(was.body, PatchParams(o.spec.body))
      /\ ch.requirements = OrElse(o.spec.requirements, was.requirements)
      /\ ch.state = IF o.spec.state = Unset THEN seen ELSE o.spec.state
  BY DEF Patched, Challenges
<1>2. was.body \in Bodies /\ o.spec.body \in Bodies
  BY SpecsAssumption DEF Challenges
<1> HIDE DEF ch
<1>3. /\ \A f \in Required \cup Optional :
            ch.body[f] = IF o.spec.body[f] # Nil THEN o.spec.body[f] ELSE was.body[f]
      /\ ch.body["type"] = was.body["type"]
      /\ was.body["type"] = Standard =>
            ch.body["value"] = IF o.spec.body["value"] # Nil THEN o.spec.body["value"]
                                                             ELSE was.body["value"]
  BY <1>1, <1>2, OverlaidFields
<1>4. LeavesUnset(o.spec, seen, was, ch)
  BY <1>1, <1>3 DEF LeavesUnset, OrElse
<1> QED
  BY <1>4 DEF ch

\* A challenge that is there has the fields of one.
LEMMA ThereIsChallenge ==
    ASSUME TypeOK, NEW id, Exists(id)
    PROVE  id \in Ids /\ ctfd[id] \in Challenges
BY DEF Exists, TypeOK, TypedWith

\* What a reconcile writes, it does not find drifted: after every POST and every
\* PATCH that succeeds, with any specs, challenges and histories of them, the
\* fields, the requirements and the state are as isUpToDate wants them, unless
\* the type, which no PATCH carries, was changed.
THEOREM UpdatesSettle == Spec => WritesSettle
<1> DEFINE Settled(p, r, id) == ~Drifted(ctfd'[id], Copy(p, r).spec, ctfd'[id].requirements)
<1>1. ASSUME TypeOK, UNCHANGED budget, NEW p \in Pods, NEW r \in Resources, PostChallenge(p, r)
      PROVE  Settled(p, r, nextId)
  <2>1. Copy(p, r).spec \in Specs
    BY <1>1, ActiveWorker DEF PostChallenge, Post, At, TypeOK, Workers, Objects, Copy
  <2>2. PICK default \in States :
           nextId \in Ids /\ ctfd' = [ctfd EXCEPT ![nextId] = Posted(Copy(p, r), default)]
    BY <1>1, FaultSpends, BoundsAssumption DEF PostChallenge, Post, TypeOK, TypedWith, Ids
  <2>3. ctfd'[nextId] = Posted(Copy(p, r), default)
    BY <1>1, <2>2 DEF TypeOK, TypedWith
  <2> QED
    BY <2>1, <2>3, PostedSettles
<1>2. ASSUME TypeOK, UNCHANGED budget, NEW p \in Pods, NEW r \in Resources, PatchChallenge(p, r),
             Exists(Copy(p, r).name), TypeKept(ctfd[Copy(p, r).name], Copy(p, r).spec)
      PROVE  Settled(p, r, Copy(p, r).name)
  <2> DEFINE name == Copy(p, r).name
  <2>1. Copy(p, r).spec \in Specs
    BY <1>2, ActiveWorker DEF PatchChallenge, At, TypeOK, Workers, Objects, Copy
  <2>2. name \in Ids /\ ctfd[name] \in Challenges
    BY <1>2, ThereIsChallenge
  <2>3. ctfd' = [ctfd EXCEPT ![name] = Patched(@, Copy(p, r), wk[p][r].seen)]
    BY <1>2, FaultSpends DEF PatchChallenge, TypeOK, TypedWith
  <2>4. ctfd'[name] = Patched(ctfd[name], Copy(p, r), wk[p][r].seen)
    BY <1>2, <2>2, <2>3 DEF TypeOK, TypedWith
  <2> HIDE DEF name
  <2>5. Settled(p, r, name)
    BY <1>2, <2>1, <2>2, <2>4, PatchedSettles DEF name
  <2> QED
    BY <2>5 DEF name
<1>3. TypeOK /\ [Next]_vars =>
         [\A p \in Pods, r \in Resources : UNCHANGED budget =>
            /\ PostChallenge(p, r) => Settled(p, r, nextId)
            /\ PatchChallenge(p, r) /\ Exists(Copy(p, r).name)
                  /\ TypeKept(ctfd[Copy(p, r).name], Copy(p, r).spec)
                  => Settled(p, r, Copy(p, r).name)]_vars
  BY <1>1, <1>2
<1>4. Spec => []TypeOK
  BY TypeCorrect, PTL
<1> QED
  BY <1>3, <1>4, PTL DEF Spec, WritesSettle

\* Whatever fails and however stale the copy is: a reconcile that changes a
\* challenge leaves what its resource does not set as it was.
THEOREM UnsetFieldsKept == Spec => UnsetLeftAlone
<1> DEFINE Leaves(p, r, id) == LeavesUnset(Copy(p, r).spec, wk[p][r].seen, ctfd[id], ctfd'[id])
<1>1. ASSUME TypeOK, NEW p \in Pods, NEW r \in Resources, Reconcile(p, r),
             NEW id \in Ids, id < nextId, ctfd'[id] \notin {ctfd[id], NoItem}
      PROVE  Leaves(p, r, id)
  <2>1. CASE PatchChallenge(p, r)
    <3>1. Copy(p, r).spec \in Specs
      BY <1>1, <2>1, ActiveWorker DEF PatchChallenge, At, TypeOK, Workers, Objects, Copy
    <3>2. /\ Exists(Copy(p, r).name)
          /\ ctfd' = [ctfd EXCEPT ![Copy(p, r).name] = Patched(@, Copy(p, r), wk[p][r].seen)]
      BY <1>1, <2>1 DEF PatchChallenge
    <3>3. id = Copy(p, r).name /\ ctfd[id] \in Challenges
      BY <1>1, <3>2, ThereIsChallenge DEF TypeOK, TypedWith
    <3>4. ctfd'[id] = Patched(ctfd[id], Copy(p, r), wk[p][r].seen)
      BY <1>1, <3>2, <3>3 DEF TypeOK, TypedWith
    <3> QED
      BY <3>1, <3>3, <3>4, PatchedLeavesUnset
  <2>2. CASE SyncFlags(p, r) \/ SyncHints(p, r)
    <3>1. PICK some : \/ ctfd' = [ctfd EXCEPT ![Copy(p, r).name].flags = some]
                      \/ ctfd' = [ctfd EXCEPT ![Copy(p, r).name].hints = some]
      BY <1>1, <2>2 DEF SyncFlags, SyncHints
    <3>2. Exists(Copy(p, r).name)
      BY <1>1, <2>2 DEF SyncFlags, SyncHints
    <3>3. id = Copy(p, r).name /\ ctfd[id] \in Challenges
      BY <1>1, <3>1, <3>2, ThereIsChallenge DEF TypeOK, TypedWith
    <3>4. \/ ctfd'[id] = [ctfd[id] EXCEPT !.flags = some]
          \/ ctfd'[id] = [ctfd[id] EXCEPT !.hints = some]
      BY <1>1, <3>1, <3>3 DEF TypeOK, TypedWith
    <3>5. /\ ctfd'[id].body = ctfd[id].body
          /\ ctfd'[id].requirements = ctfd[id].requirements
          /\ ctfd'[id].state = ctfd[id].state
      BY <3>3, <3>4 DEF Challenges
    <3> QED
      BY <3>5 DEF LeavesUnset
  <2>3. CASE PostChallenge(p, r)
    BY <1>1, <2>3 DEF PostChallenge, Post, ctfdVars, TypeOK, TypedWith
  <2>4. CASE DeleteChallenge(p, r)
    BY <1>1, <2>4 DEF DeleteChallenge, DeleteItem, TypeOK, TypedWith
  <2>5. CASE Start(p, r) \/ GetChallenge(p, r) \/ ListFlags(p, r) \/ ListHints(p, r)
    BY <1>1, <2>5 DEF Start, StartAt, GetChallenge, ListFlags, ListHints, ctfdVars
  <2>6. CASE Bookkeeping(p, r)
    BY <1>1, <2>6 DEF Bookkeeping, AddFinalizer, SetPending, SaveCreated, SaveFailed,
                      RemoveFinalizer, ctfdVars
  <2> QED
    BY <1>1, <2>1, <2>2, <2>3, <2>4, <2>5, <2>6 DEF Reconcile
<1>2. TypeOK /\ [Next]_vars =>
         [\A p \in Pods, r \in Resources : Reconcile(p, r) =>
             \A id \in Ids : id < nextId /\ ctfd'[id] \notin {ctfd[id], NoItem} =>
                 Leaves(p, r, id)]_vars
  BY <1>1
<1>3. Spec => []TypeOK
  BY TypeCorrect, PTL
<1> QED
  BY <1>2, <1>3, PTL DEF Spec, UnsetLeftAlone
=============================================================================
