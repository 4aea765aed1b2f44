----------------------------- MODULE Page_proofs -----------------------------
(***************************************************************************)
(* Proofs about Page and the ProviderConfig it needs, for every set of     *)
(* resources and of pods, every set of specs and of credentials, and every *)
(* bound.                                                                  *)
(***************************************************************************)
EXTENDS Page, Reconciler_proofs

(***************************************************************************)
(* What a POST and a PATCH make of a spec is a page.                       *)
(***************************************************************************)
LEMMA StoredType ==
    ASSUME NEW spec \in Specs
    PROVE  Stored(Params(spec)) \subseteq Pages
<1> DEFINE page == Params(spec)
<1>1. spec \in Pages
  BY PageSpecsAssumption
<1>2. FormatOrDefault(spec.text.format) \in Values
  BY <1>1 DEF FormatOrDefault, Pages, Values, Text
<1>3. page \in Pages
  BY <1>1, <1>2 DEF Params, Pages
<1> HIDE DEF page
<1>4. [page EXCEPT !.text.content = Nil] \in Pages
  BY <1>3 DEF Pages, Values
<1> QED
  BY <1>3, <1>4 DEF Stored, page

LEMMA CopyType ==
    ASSUME TypeOK, NEW p \in Pods, NEW r \in Resources, wk[p][r].pc # "resting"
    PROVE  wk[p][r] \in Workers /\ Copy(p, r).spec \in Specs
BY ActiveWorker DEF TypeOK, Workers, Objects, Copy

(***************************************************************************)
(* Types: one lemma per call.                                              *)
(***************************************************************************)
LEMMA ConnectType ==
    ASSUME TypeOK, NEW p \in Pods, NEW r \in Resources, Connect(p, r)
    PROVE  TypeOK'
<1>1. wk[p][r].pc # "resting"
  BY DEF Connect, Track, Resolve, At
<1>2. budget' \in [Bounds -> Nat]
  BY FaultType DEF Connect, Track, Resolve, TypeOK, TypedWith
<1>3. wk' \in [Pods -> [Resources -> Workers \cup {Resting}]]
  BY <1>1, GotoType, RestType DEF Connect, Track, Resolve, TypeOK, PCs
<1>4. TypedWith(Pages)'
  BY <1>2, <1>3 DEF Connect, Track, Resolve, TypeOK, TypedWith, kubeVars, ctfdVars
<1>5. ConfigTyped'
  BY DEF Connect, Track, Resolve, TypeOK, ConfigTyped, configVars
<1> QED
  BY <1>4, <1>5 DEF TypeOK

LEMMA GetPageType ==
    ASSUME TypeOK, NEW p \in Pods, NEW r \in Resources, GetPage(p, r)
    PROVE  TypedWith(Pages)'
<1>1. wk[p][r].pc # "resting"
  BY DEF GetPage, At
<1>2. budget' \in [Bounds -> Nat]
  BY FaultType DEF GetPage, TypeOK, TypedWith
<1>3. wk' \in [Pods -> [Resources -> Workers \cup {Resting}]]
  BY <1>1, ObservedType, AbsentType DEF GetPage, TypeOK
<1> QED
  BY <1>2, <1>3 DEF GetPage, TypeOK, TypedWith, kubeVars, ctfdVars

LEMMA PatchPageType ==
    ASSUME TypeOK, NEW p \in Pods, NEW r \in Resources, PatchPage(p, r)
    PROVE  TypedWith(Pages)'
<1>1. Stored(Params(Copy(p, r).spec)) \subseteq Pages
  BY CopyType, StoredType DEF PatchPage, At
<1>2. ctfd' \in [Ids -> Pages \cup {NoItem}]
  BY <1>1 DEF PatchPage, TypeOK, TypedWith
<1>3. budget' \in [Bounds -> Nat]
  BY FaultType DEF PatchPage, TypeOK, TypedWith
<1>4. /\ obj' \in [Resources -> Objects]
      /\ wk' \in [Pods -> [Resources -> Workers \cup {Resting}]]
  BY FinishType DEF PatchPage, TypeOK
<1> QED
  BY <1>2, <1>3, <1>4 DEF PatchPage, TypeOK, TypedWith

LEMMA CallingType ==
    ASSUME TypeOK, NEW p \in Pods, NEW r \in Resources, Calling(p, r)
    PROVE  TypedWith(Pages)'
<1>1. CASE PostPage(p, r)
  <2>1. Stored(Params(Copy(p, r).spec)) \subseteq Pages
    BY <1>1, CopyType, StoredType DEF PostPage, Post, At
  <2> QED
    BY <1>1, <2>1, PostType DEF PostPage, TypeOK
<1>2. CASE Start(p, r)
  BY <1>2, StartAtType DEF Start, TypeOK, PCs
<1>3. CASE Bookkeeping(p, r) \/ DeletePage(p, r)
  BY <1>3, BookkeepingType, DeleteItemType DEF DeletePage, TypeOK
<1> QED
  BY <1>1, <1>2, <1>3, GetPageType, PatchPageType DEF Calling

LEMMA AdminActsType ==
    ASSUME TypeOK, NEW id \in Ids, AdminActs(id)
    PROVE  TypedWith(Pages)'
<1> DEFINE other == [ctfd[id] EXCEPT !.text.content = Nil, !.on = Switches \ @]
           new == {other, NoItem}
<1>1. ctfd[id] \in Pages
  BY DEF AdminActs, Intervene, Exists, TypeOK, TypedWith
<1>2. other.text \in [Text -> Values]
  BY <1>1 DEF Pages, Values, Text
<1>3. other \in Pages
  BY <1>1, <1>2 DEF Pages
<1>4. new \subseteq Pages \cup {NoItem} /\ Intervene(id, new)
  BY <1>3 DEF AdminActs
<1> HIDE DEF new
<1> QED
  BY <1>4, InterveneType DEF TypeOK

\* The config controller and its surroundings leave the objects and CTFd alone.
LEMMA ConfigActsQuiet ==
    ASSUME ConfigActs
    PROVE  UNCHANGED <<kubeVars, cache, wk, ctfdVars>>
BY DEF ConfigActs, AddConfigFinalizer, CountUsages, ReleaseConfig, DeleteConfig, EditSecret,
       UsageSync, CollectUsage, vars, kubeVars, ctfdVars

LEMMA ConfigActsType ==
    ASSUME TypeOK, ConfigActs
    PROVE  TypeOK'
<1>1. budget' \in [Bounds -> Nat]
  BY SpendType DEF ConfigActs, AddConfigFinalizer, CountUsages, ReleaseConfig, DeleteConfig,
                   EditSecret, UsageSync, CollectUsage, vars, TypeOK, TypedWith, Bounds
<1>2. TypedWith(Pages)'
  BY <1>1, ConfigActsQuiet DEF TypeOK, TypedWith, kubeVars, ctfdVars
<1>3. ASSUME AddConfigFinalizer \/ ReleaseConfig \/ DeleteConfig PROVE ConfigTyped'
  BY <1>3 DEF AddConfigFinalizer, ReleaseConfig, DeleteConfig, TypeOK, ConfigTyped, Configs
<1>4. ASSUME CountUsages \/ EditSecret \/ UsageSync \/ \E r \in Resources : CollectUsage(r)
      PROVE  ConfigTyped'
  BY <1>4 DEF CountUsages, Counted, EditSecret, UsageSync, CollectUsage, TypeOK, ConfigTyped
<1>5. ConfigTyped'
  BY <1>3, <1>4 DEF ConfigActs
<1> QED
  BY <1>2, <1>5 DEF TypeOK

LEMMA StepType ==
    ASSUME TypeOK, [Next]_allVars
    PROVE  TypeOK'
<1>1. ASSUME TypedWith(Pages)', UNCHANGED configVars PROVE TypeOK'
  BY <1>1 DEF TypeOK, ConfigTyped, configVars
<1>2. ASSUME NEW p \in Pods, NEW r \in Resources, Reconcile(p, r) PROVE TypeOK'
  BY <1>1, <1>2, ConnectType, CallingType DEF Reconcile
<1>3. CASE Surroundings /\ UNCHANGED configVars
  BY <1>1, <1>3, SurroundingsType DEF TypeOK
<1>4. CASE \E id \in Ids : AdminActs(id) /\ UNCHANGED configVars
  BY <1>1, <1>4, AdminActsType
<1>5. CASE UNCHANGED allVars
  BY <1>5 DEF allVars, vars, configVars, TypeOK, TypedWith, ConfigTyped
<1> QED
  BY <1>2, <1>3, <1>4, <1>5, ConfigActsType DEF Next

(***************************************************************************)
(* Every variable keeps its type.                                          *)
(***************************************************************************)
THEOREM PageTypeCorrect == Spec => []TypeOK
<1>1. Init => TypeOK
  <2> SUFFICES ASSUME Init PROVE TypeOK
    OBVIOUS
  <2>1. HandMade \in Pages
    BY DEF HandMade, Pages, Values
  <2>2. ConfigTyped
    BY DEF Init, ConfigInit, ConfigTyped, Configs
  <2> QED
    BY <2>1, <2>2, InitType DEF Init, TypeOK
<1>2. TypeOK /\ [Next]_allVars => TypeOK'
  BY StepType
<1> QED
  BY <1>1, <1>2, PTL DEF Spec

----------------------------------------------------------------------------
(***************************************************************************)
(* No page is lost and none is made twice.                                 *)
(***************************************************************************)
LEMMA PageCallsTraceable ==
    ASSUME ReliableAnswers, TypeOK, TypeOK', Traceable, NEW p \in Pods, NEW r \in Resources,
           Connect(p, r) \/ GetPage(p, r) \/ PatchPage(p, r)
    PROVE  Traceable'
<1>1. Before(p, r) /\ cache' = cache
  BY DEF Connect, Track, Resolve, GetPage, PatchPage, At, Before
<1>2. wk[p][r] \in Workers
  BY <1>1, MoverKnows DEF TypeOK
<1>3. MovesOnly(p, r)
  BY OthersRest DEF Connect, Track, Resolve, GetPage, PatchPage, TypeOK
<1>4. ASSUME NEW pc \in {"resolve", "get"}, Goto(p, r, pc) PROVE WorkerKept(p, r)
  <2>1. wk'[p][r] = [wk[p][r] EXCEPT !.pc = pc]
    BY <1>4 DEF Goto, TypeOK, TypedWith
  <2>2. wk'[p][r].pc = pc /\ wk'[p][r].copy = wk[p][r].copy
    BY <1>2, <2>1 DEF Workers
  <2> QED
    BY <1>1, <2>2, ProceedKept DEF Before, TypeOK
<1>5. CASE Connect(p, r)
  <2>1. WorkerKept(p, r)
    BY <1>4, <1>5, RestKept DEF Connect, Track, Resolve, TypeOK
  <2>2. ObjectsKept /\ ItemsKept
    BY <1>5 DEF Connect, Track, Resolve, ObjectsKept, ItemsKept, kubeVars, ctfdVars
  <2> QED
    BY <1>1, <1>3, <2>1, <2>2, QuietReconcile DEF TypeOK
<1>6. CASE GetPage(p, r)
  <2>1. WorkerKept(p, r)
    BY <1>1, <1>6, AbsentKept, ObservedKept DEF GetPage, ReliableAnswers, Fault, TypeOK
  <2>2. ObjectsKept /\ ItemsKept
    BY <1>6 DEF GetPage, ObjectsKept, ItemsKept, kubeVars, ctfdVars
  <2> QED
    BY <1>1, <1>3, <2>1, <2>2, QuietReconcile DEF TypeOK
<1>7. CASE PatchPage(p, r)
  <2>1. ObjectsKept /\ WorkerKept(p, r)
    BY <1>7, FinishKept DEF PatchPage, TypeOK
  <2>2. ItemsKept
    BY <1>7 DEF PatchPage, ItemsKept, Exists, TypeOK, TypedWith
  <2> QED
    BY <1>1, <1>3, <2>1, <2>2, QuietReconcile DEF TypeOK
<1> QED
  BY <1>5, <1>6, <1>7

\* Traceable does not depend on the budget.
LEMMA AsideTraceable ==
    ASSUME Traceable, UNCHANGED <<kubeVars, cache, wk, ctfdVars>>
    PROVE  Traceable'
BY DEF kubeVars, ctfdVars, Traceable, IdsInOrder, OneCreates, AbsenceSeen, FinalizerHolds,
       CreationKnown, NoOrphan, AtMostOne, Creating, Before, CreatedBy, Exists, Copy

LEMMA StepTraceable ==
    ASSUME ReliableAnswers, TypeOK, TypeOK', Traceable, [Next]_allVars
    PROVE  Traceable'
<1>1. ASSUME NEW p \in Pods, NEW r \in Resources, Reconcile(p, r) PROVE Traceable'
  <2>1. CASE Start(p, r)
    BY <2>1, StartAtTraceable DEF Start, TypeOK
  <2>2. CASE Bookkeeping(p, r)
    BY <2>2, BookkeepingTraceable DEF TypeOK
  <2>3. CASE PostPage(p, r)
    BY <2>3, PostTraceable DEF PostPage, TypeOK
  <2>4. CASE DeletePage(p, r)
    BY <2>4, DeleteItemTraceable DEF DeletePage, TypeOK
  <2> QED
    BY <1>1, <2>1, <2>2, <2>3, <2>4, PageCallsTraceable DEF Reconcile, Calling
<1>2. CASE Surroundings
  BY <1>2, SurroundingsTraceable DEF TypeOK
<1>3. CASE \E id \in Ids : AdminActs(id)
  BY <1>3, InterveneTraceable DEF AdminActs, TypeOK
<1>4. CASE ConfigActs
  BY <1>4, ConfigActsQuiet, AsideTraceable
<1>5. CASE UNCHANGED allVars
  BY <1>5, StutterTraceable DEF allVars
<1> QED
  BY <1>1, <1>2, <1>3, <1>4, <1>5 DEF Next

----------------------------------------------------------------------------
(***************************************************************************)
(* A ProviderConfig stays for its users.                                   *)
(***************************************************************************)
\* An object that is gone does not come back.
LEMMA GoneStays ==
    ASSUME TypeOK, [Next]_allVars, NEW s \in Resources, obj[s].phase = "gone"
    PROVE  obj'[s].phase = "gone"
<1>1. ASSUME NEW p \in Pods, NEW r \in Resources, NEW ready, Finish(p, r, ready)
      PROVE  obj'[s].phase = "gone"
  BY <1>1 DEF Finish, Current, TypeOK, TypedWith
<1>2. ASSUME NEW p \in Pods, NEW r \in Resources, NEW o, NEW pc, Update(p, r, o, pc)
      PROVE  obj'[s].phase = "gone"
  BY <1>2 DEF Update, Current, TypeOK, TypedWith
<1>3. ASSUME NEW p \in Pods, NEW r \in Resources, Bookkeeping(p, r)
      PROVE  obj'[s].phase = "gone"
  <2>1. CASE AddFinalizer(p, r) \/ SetPending(p, r)
    BY <1>1, <1>2, <2>1 DEF AddFinalizer, SetPending
  <2>2. CASE SaveCreated(p, r) \/ SaveFailed(p, r) \/ RemoveFinalizer(p, r)
    BY <2>2 DEF SaveCreated, SaveFailed, RemoveFinalizer, Current, kubeVars, TypeOK, TypedWith
  <2> QED
    BY <1>3, <2>1, <2>2 DEF Bookkeeping
<1>4. ASSUME NEW p \in Pods, NEW r \in Resources, Reconcile(p, r)
      PROVE  obj'[s].phase = "gone"
  BY <1>1, <1>3, <1>4 DEF Reconcile, Calling, Connect, Track, Resolve, Start, StartAt, GetPage,
                          PostPage, Post, PatchPage, DeletePage, DeleteItem, kubeVars
<1>5. CASE Surroundings
  BY <1>5 DEF Surroundings, CacheSync, GraceElapses, EditSpec, DeleteResource, Crash, kubeVars,
              TypeOK, TypedWith
<1>6. CASE (\E id \in Ids : AdminActs(id)) \/ ConfigActs \/ UNCHANGED allVars
  BY <1>6, ConfigActsQuiet DEF AdminActs, Intervene, kubeVars, allVars, vars
<1> QED
  BY <1>4, <1>5, <1>6 DEF Next

LEMMA UsersStayProtected ==
    ASSUME ConfigKind = "ProviderConfig", TypeOK, UsersProtected, [Next]_allVars
    PROVE  UsersProtected'
<1>1. \A r \in Resources : obj[r].phase = "gone" => obj'[r].phase = "gone"
  BY GoneStays
<1>2. known \subseteq Resources /\ protected \subseteq Resources /\ usages \subseteq Resources
  BY DEF TypeOK, ConfigTyped
<1>3. ASSUME usages \subseteq usages', UNCHANGED <<config, secret, known, users, protected>>
      PROVE  UsersProtected'
  BY <1>1, <1>2, <1>3 DEF UsersProtected
<1>4. ASSUME NEW p \in Pods, NEW r \in Resources, Connect(p, r) PROVE UsersProtected'
  BY <1>3, <1>4 DEF Connect, Track, Resolve, configVars
<1>5. CASE UNCHANGED configVars
  BY <1>3, <1>5 DEF configVars
<1>6. CASE ConfigActs
  <2>1. obj' = obj
    BY <1>6, ConfigActsQuiet DEF kubeVars
  <2>2. CASE AddConfigFinalizer
    BY <1>2, <2>1, <2>2 DEF AddConfigFinalizer, UsersProtected, TypeOK, ConfigTyped, Configs
  <2>3. CASE CountUsages
    BY <2>1, <2>3 DEF CountUsages, Counted, UsersProtected
  <2>4. CASE ReleaseConfig
    <3>1. users # NotCounted
      BY <2>4 DEF ReleaseConfig, NotCounted
    <3>2. \A r \in protected : obj[r].phase = "gone"
      BY <2>4, <3>1 DEF ReleaseConfig, UsersProtected
    <3>3. config'.phase = "gone"
      BY <2>4 DEF ReleaseConfig, TypeOK, ConfigTyped, Configs
    <3> QED
      BY <2>1, <2>4, <3>2, <3>3 DEF ReleaseConfig, UsersProtected
  <2>5. CASE DeleteConfig
    <3>1. config'.phase = IF config.finalizer THEN "deleting" ELSE "gone"
      BY <2>5 DEF DeleteConfig, TypeOK, ConfigTyped, Configs
    <3>2. users' = NotCounted /\ known' = known /\ usages' = usages
      BY <2>5 DEF DeleteConfig, UsersProtected
    <3> QED
      BY <2>1, <2>5, <3>1, <3>2 DEF DeleteConfig, UsersProtected
  <2>6. CASE EditSecret
    BY <2>1, <2>6 DEF EditSecret, UsersProtected
  <2>7. CASE UsageSync
    BY <2>1, <2>7 DEF UsageSync, UsersProtected
  <2>8. ASSUME NEW r \in Resources, CollectUsage(r) PROVE UsersProtected'
    BY <2>1, <2>8 DEF CollectUsage, UsersProtected
  <2> QED
    BY <1>6, <2>2, <2>3, <2>4, <2>5, <2>6, <2>7, <2>8 DEF ConfigActs
<1> QED
  BY <1>4, <1>5, <1>6 DEF Next, Reconcile, allVars

\* The config controller never lets go of a ProviderConfig while an object that
\* it knew to use it when its deletion was asked for is still there.
THEOREM ConfigKept ==
    ASSUME ConfigKind = "ProviderConfig"
    PROVE  Spec => []ConfigOutlivesUsers
<1>1. Init => UsersProtected
  BY DEF Init, ConfigInit, UsersProtected
<1>2. TypeOK /\ UsersProtected /\ [Next]_allVars => UsersProtected'
  BY UsersStayProtected
<1>3. UsersProtected => ConfigOutlivesUsers
  BY DEF UsersProtected, ConfigOutlivesUsers
<1> QED
  BY <1>1, <1>2, <1>3, PageTypeCorrect, PTL DEF Spec

\* With a ProviderConfig, whatever interleaving of pods, crashes, conflicts,
\* edits, administrators and deletions of the config, every page can be traced
\* from its object and the config outlives its users, as long as a failed GET is
\* never taken for an absent page and no reply to a POST is lost.
THEOREM PagesTraceableAlways ==
    ASSUME ReliableAnswers, ConfigKind = "ProviderConfig"
    PROVE  Spec => []PagesTraceable
<1>1. Init => Traceable /\ UsersProtected
  BY InitTraceable DEF Init, ConfigInit, UsersProtected
<1>2. TypeOK /\ TypeOK' /\ Traceable /\ [Next]_allVars => Traceable'
  BY StepTraceable
<1>3. TypeOK /\ UsersProtected /\ [Next]_allVars => UsersProtected'
  BY UsersStayProtected
<1>4. TypeOK /\ Traceable /\ UsersProtected => PagesTraceable
  BY DEF PagesTraceable
<1> QED
  BY <1>1, <1>2, <1>3, <1>4, PageTypeCorrect, PTL DEF Spec

\* Whatever the kind of config, no page that Create made is ever lost, or left
\* behind by an object that is gone, and none is made twice.
THEOREM NoPageLost ==
    ASSUME ReliableAnswers
    PROVE  Spec => [](NoOrphan /\ AtMostOne)
<1>1. Init => Traceable
  BY InitTraceable DEF Init
<1>2. TypeOK /\ TypeOK' /\ Traceable /\ [Next]_allVars => Traceable'
  BY StepTraceable
<1>3. Traceable => NoOrphan /\ AtMostOne
  BY DEF Traceable
<1> QED
  BY <1>1, <1>2, <1>3, PageTypeCorrect, PTL DEF Spec

----------------------------------------------------------------------------
(***************************************************************************)
(* What holds whatever fails, and whatever the kind of config.             *)
(***************************************************************************)
LEMMA PageCallsOrderly ==
    ASSUME TypeOK, Announced, NEW p \in Pods, NEW r \in Resources,
           Connect(p, r) \/ GetPage(p, r) \/ PatchPage(p, r)
    PROVE  Orderly(p, r)
<1>1. Before(p, r) /\ MovesOnly(p, r)
  BY OthersRest DEF Connect, Track, Resolve, GetPage, PatchPage, At, Before, TypeOK
<1>2. ASSUME NEW pc \in {"resolve", "get"}, Goto(p, r, pc) PROVE WorkerOrderly(p, r)
  BY <1>1, <1>2, GotoOrderly DEF TypeOK, PCs
<1>3. CASE Connect(p, r)
  <2>1. WorkerOrderly(p, r)
    BY <1>2, <1>3, RestOrderly DEF Connect, Track, Resolve, TypeOK
  <2> QED
    BY <1>1, <1>3, <2>1 DEF Orderly, Connect, Track, Resolve, ObjectsKept, kubeVars, ctfdVars
<1>4. CASE GetPage(p, r)
  <2>1. WorkerOrderly(p, r)
    BY <1>1, <1>4, ObservationOrderly DEF GetPage, TypeOK
  <2> QED
    BY <1>1, <1>4, <2>1 DEF Orderly, GetPage, ObjectsKept, kubeVars, ctfdVars
<1>5. CASE PatchPage(p, r)
  BY <1>1, <1>5, FinishOrderly DEF Orderly, PatchPage, TypeOK
<1> QED
  BY <1>3, <1>4, <1>5

LEMMA StepAnnounced ==
    ASSUME TypeOK, Announced, [Next]_allVars
    PROVE  Announced' /\ (OwnNames => OwnNames')
<1>1. ASSUME NEW p \in Pods, NEW r \in Resources, Reconcile(p, r)
      PROVE  Announced' /\ (OwnNames => OwnNames')
  <2>1. CASE Start(p, r) \/ DeletePage(p, r)
    BY <2>1, StartAtOrderly, DeleteItemOrderly, OrderlyKept DEF Start, DeletePage, TypeOK
  <2>2. CASE Bookkeeping(p, r)
    BY <2>2, BookkeepingAnnounced DEF TypeOK
  <2>3. CASE PostPage(p, r)
    BY <2>3, PostKeepsAnnounced, PostOwnNames DEF PostPage, TypeOK
  <2> QED
    BY <1>1, <2>1, <2>2, <2>3, PageCallsOrderly, OrderlyKept DEF Reconcile, Calling
<1>2. CASE Surroundings
  BY <1>2, SurroundingsAnnounced DEF TypeOK
<1>3. CASE (\E id \in Ids : AdminActs(id)) \/ UNCHANGED allVars
  BY <1>3, StillAnnounced DEF AdminActs, Intervene, kubeVars, allVars, vars
<1>4. CASE ConfigActs
  BY <1>4, ConfigActsQuiet, StillAnnounced DEF kubeVars, ctfdVars
<1> QED
  BY <1>1, <1>2, <1>3, <1>4 DEF Next

LEMMA AnnouncedAlways == Spec => []Announced
<1>1. Init => Announced
  BY InitAnnounced DEF Init
<1>2. TypeOK /\ Announced /\ [Next]_allVars => Announced'
  BY StepAnnounced
<1> QED
  BY <1>1, <1>2, PageTypeCorrect, PTL DEF Spec

\* Only a POST has CTFd hand out an ID.
LEMMA OnlyPostHandsOut ==
    ASSUME [Next]_allVars, creator' # creator
    PROVE  \E p \in Pods, r \in Resources : PostPage(p, r)
<1>1. ASSUME NEW p \in Pods, NEW r \in Resources, Reconcile(p, r), ~PostPage(p, r)
      PROVE  creator' = creator
  <2>1. CASE Start(p, r) \/ Bookkeeping(p, r) \/ DeletePage(p, r)
    BY <2>1, OthersHandOutNothing DEF Start, DeletePage
  <2>2. CASE Connect(p, r) \/ GetPage(p, r) \/ PatchPage(p, r)
    BY <2>2 DEF Connect, Track, Resolve, GetPage, PatchPage, ctfdVars
  <2> QED
    BY <1>1, <2>1, <2>2 DEF Reconcile, Calling
<1>2. ~Surroundings
  BY DEF Surroundings, CacheSync, GraceElapses, EditSpec, DeleteResource, Crash, ctfdVars
<1>3. ~\E id \in Ids : AdminActs(id)
  BY DEF AdminActs, Intervene
<1>4. ~ConfigActs
  BY ConfigActsQuiet DEF ctfdVars
<1> QED
  BY <1>1, <1>2, <1>3, <1>4 DEF Next, allVars, vars

\* Whatever fails, CTFd is never asked for a page before the object durably
\* carries the finalizer and the create-pending annotation.
THEOREM PageCreationAnnounced == Spec => CreateIsAnnounced
<1>1. ASSUME TypeOK, Announced, [Next]_allVars, NEW r \in Resources, NEW id \in Ids,
             creator'[id] = r, creator[id] # r
      PROVE  obj[r].phase # "gone" /\ obj[r].finalizer /\ obj[r].mark = "pending"
  <2>1. PICK p \in Pods, s \in Resources : PostPage(p, s)
    BY <1>1, OnlyPostHandsOut
  <2> QED
    BY <1>1, <2>1, PostAnnounced DEF PostPage, TypeOK
<1>2. TypeOK /\ Announced /\ [Next]_allVars =>
         [\A r \in Resources, id \in Ids : creator'[id] = r /\ creator[id] # r =>
             obj[r].phase # "gone" /\ obj[r].finalizer /\ obj[r].mark = "pending"]_vars
  BY <1>1
<1> QED
  BY <1>2, PageTypeCorrect, AnnouncedAlways, PTL DEF Spec, CreateIsAnnounced

\* A reconcile changes only the ID that it is handed or the one its copy names.
LEMMA ChangesWhatItNames ==
    ASSUME TypeOK, OwnNames, NEW p \in Pods, NEW r \in Resources, Reconcile(p, r),
           NEW id \in Ids, ctfd'[id] # ctfd[id]
    PROVE  creator'[id] = r
<1>1. wk[p][r].pc # "resting" => Own(r, Copy(p, r).name)
  BY DEF OwnNames
<1>2. CASE Connect(p, r) \/ Start(p, r) \/ GetPage(p, r)
  BY <1>2 DEF Connect, Track, Resolve, Start, StartAt, GetPage, ctfdVars
<1>3. CASE Bookkeeping(p, r)
  BY <1>3 DEF Bookkeeping, AddFinalizer, SetPending, SaveCreated, SaveFailed, RemoveFinalizer,
              ctfdVars
<1>4. CASE PostPage(p, r)
  BY <1>4 DEF PostPage, Post, ctfdVars, TypeOK, TypedWith
<1>5. CASE PatchPage(p, r) \/ DeletePage(p, r)
  <2>1. wk[p][r].pc # "resting" /\ creator' = creator
    BY <1>5 DEF PatchPage, DeletePage, DeleteItem, At
  <2>2. id = Copy(p, r).name
    BY <1>5 DEF PatchPage, DeletePage, DeleteItem, TypeOK, TypedWith
  <2>3. id # NotANumber
    BY DEF Ids, NotANumber
  <2> QED
    BY <1>1, <2>1, <2>2, <2>3 DEF Own
<1> QED
  BY <1>2, <1>3, <1>4, <1>5 DEF Reconcile, Calling

\* Whatever fails, a reconcile changes no page but one that its own resource
\* had CTFd create, unless a resource starts with a number for a name.
THEOREM OtherPagesUntouched ==
    ASSUME WordsForNames
    PROVE  Spec => OwnPagesOnly
<1>1. Init => Announced /\ OwnNames
  BY InitAnnounced DEF Init
<1>2. TypeOK /\ (Announced /\ OwnNames) /\ [Next]_allVars => (Announced /\ OwnNames)'
  BY StepAnnounced
<1>3. TypeOK /\ (Announced /\ OwnNames) /\ [Next]_allVars =>
         [\A p \in Pods, r \in Resources : Reconcile(p, r) =>
             \A id \in Ids : ctfd'[id] # ctfd[id] => creator'[id] = r]_allVars
  BY ChangesWhatItNames
<1> QED
  BY <1>1, <1>2, <1>3, PageTypeCorrect, PTL DEF Spec, OwnPagesOnly

----------------------------------------------------------------------------
(***************************************************************************)
(* The page controller implements Custody.                                 *)
(***************************************************************************)
LEMMA PagePostCustody ==
    ASSUME TypeOK, Traceable, NEW p \in Pods, NEW r \in Resources, PostPage(p, r)
    PROVE  [Promised!Next]_Promised!vars
<1> DEFINE new == Stored(Params(Copy(p, r).spec))
<1>1. wk[p][r] \in Workers
  BY ActiveWorker DEF PostPage, Post, At, TypeOK
<1>2. Copy(p, r).spec \in Specs
  BY <1>1 DEF Copy, Workers, Objects
<1>3. NoItem \notin new
  <2>1. "on" \notin DOMAIN NoItem
    BY DEF NoItem
  <2>2. \A page \in Pages : "on" \in DOMAIN page
    BY DEF Pages
  <2> QED
    BY <1>2, <2>1, <2>2, StoredType
<1>4. Post(p, r, new)
  BY DEF PostPage
<1> HIDE DEF new
<1> QED
  BY <1>3, <1>4, MakeCustody DEF TypeOK

LEMMA StepCustody ==
    ASSUME TypeOK, Traceable, Announced, [Next]_allVars
    PROVE  [Promised!Next]_Promised!vars
<1>1. ASSUME NEW p \in Pods, NEW r \in Resources, Reconcile(p, r)
      PROVE  [Promised!Next]_Promised!vars
  <2>1. CASE Start(p, r)
    BY <2>1, StartAtCustody DEF Start, TypeOK
  <2>2. CASE Connect(p, r) \/ GetPage(p, r) \/ PatchPage(p, r)
    <3>1. ItemsKept /\ \A id \in Ids : id # Copy(p, r).name => ctfd'[id] = ctfd[id]
      BY <2>2 DEF Connect, Track, Resolve, GetPage, PatchPage, ItemsKept, Exists, ctfdVars,
                  TypeOK, TypedWith
    <3> QED
      BY <2>2, <3>1, PageCallsOrderly, OrderlyCustody
  <2>3. CASE Bookkeeping(p, r)
    BY <2>3, BookkeepingCustody DEF TypeOK
  <2>4. CASE DeletePage(p, r)
    BY <2>4, DeleteItemCustody DEF DeletePage, TypeOK
  <2> QED
    BY <1>1, <2>1, <2>2, <2>3, <2>4, PagePostCustody DEF Reconcile, Calling
<1>2. CASE Surroundings
  BY <1>2, SurroundingsCustody DEF TypeOK
<1>3. CASE \E id \in Ids : AdminActs(id)
  BY <1>3, InterveneCustody DEF AdminActs, TypeOK
<1>4. CASE UNCHANGED <<kubeVars, ctfdVars>>
  BY <1>4 DEF kubeVars, ctfdVars, Stage, Known, Held, Used, CreatedBy, Promised!vars
<1>5. ConfigActs \/ UNCHANGED allVars => UNCHANGED <<kubeVars, ctfdVars>>
  BY ConfigActsQuiet DEF allVars, vars, kubeVars, ctfdVars
<1> QED
  BY <1>1, <1>2, <1>3, <1>4, <1>5 DEF Next

\* Under the proviso of Traceable the pods together do to each resource's pages
\* only what Custody allows, whatever becomes of their config.
THEOREM PagesInCustody ==
    ASSUME ReliableAnswers
    PROVE  Spec => KeepsCustody
<1>1. Init => Promised!Init
  BY InitCustody DEF Init
<1>2. Init => Traceable
  BY InitTraceable DEF Init
<1>3. TypeOK /\ TypeOK' /\ Traceable /\ [Next]_allVars => Traceable'
  BY StepTraceable
<1>4. TypeOK /\ Traceable /\ Announced /\ [Next]_allVars => [Promised!Next]_Promised!vars
  BY StepCustody
<1> QED
  BY <1>1, <1>2, <1>3, <1>4, PageTypeCorrect, AnnouncedAlways, PTL
     DEF Spec, KeepsCustody, Promised!Spec
----------------------------------------------------------------------------
(***************************************************************************)
(* Updates take effect.                                                    *)
(***************************************************************************)
LEMMA StoredSettles ==
    ASSUME NEW spec \in Specs, NEW page \in Stored(Params(spec))
    PROVE  IsUpToDate(spec, page)
<1> DEFINE params == Params(spec)
<1>1. /\ spec \in Pages /\ params \in Pages /\ page \in Pages
      /\ spec.text.content # Nil
  <2>1. params \in Stored(params)
    BY DEF Stored
  <2>2. Stored(params) \subseteq Pages
    BY StoredType
  <2> HIDE DEF params
  <2> QED
    BY <2>1, <2>2, PageSpecsAssumption DEF params
<1>2. params.on = spec.on /\ params.text["content"] = spec.text["content"]
  <2>1. params = [spec EXCEPT !.text = [spec.text EXCEPT !.format = FormatOrDefault(@)]]
    BY <1>1 DEF Params, Pages
  <2>2. [spec.text EXCEPT !.format = FormatOrDefault(@)]["content"] = spec.text["content"]
    BY <1>1 DEF Pages, Text
  <2> HIDE DEF params
  <2> QED
    BY <1>1, <2>1, <2>2 DEF Pages
<1>3. CASE page = params
  <2>1. Content(page) = spec.text.content
    BY <1>1, <1>2, <1>3 DEF Content
  <2> QED
    BY <1>2, <1>3, <2>1 DEF IsUpToDate
<1>4. CASE page = [params EXCEPT !.text.content = Nil] /\ params.text.content = Empty
  <2> HIDE DEF params
  <2>1. /\ page.on = params.on /\ page.text["content"] = Nil
        /\ \A f \in Text \ {"content"} : page.text[f] = params.text[f]
    BY <1>1, <1>4 DEF Pages, Text
  <2>2. Content(page) = spec.text.content
    BY <1>2, <1>4, <2>1 DEF Content
  <2> QED
    BY <1>2, <2>1, <2>2 DEF IsUpToDate, params
<1> QED
  BY <1>3, <1>4 DEF Stored

\* What a reconcile writes, it does not find drifted: after every POST and every
\* PATCH that succeeds the page is as isUpToDate wants it, whether CTFd reports
\* empty content as empty or as null.
THEOREM PageUpdatesSettle == Spec => WritesSettle
<1>1. ASSUME TypeOK, UNCHANGED budget, NEW p \in Pods, NEW r \in Resources, PostPage(p, r)
      PROVE  IsUpToDate(Copy(p, r).spec, ctfd'[nextId])
  <2>1. Copy(p, r).spec \in Specs
    BY <1>1, CopyType DEF PostPage, Post, At
  <2>2. PICK page \in Stored(Params(Copy(p, r).spec)) :
           nextId \in Ids /\ ctfd' = [ctfd EXCEPT ![nextId] = page]
    BY <1>1, FaultSpends, BoundsAssumption DEF PostPage, Post, TypeOK, TypedWith, Ids
  <2>3. ctfd'[nextId] = page
    BY <1>1, <2>2 DEF TypeOK, TypedWith
  <2> QED
    BY <2>1, <2>2, <2>3, StoredSettles
<1>2. ASSUME TypeOK, UNCHANGED budget, NEW p \in Pods, NEW r \in Resources, PatchPage(p, r),
             Exists(Copy(p, r).name)
      PROVE  IsUpToDate(Copy(p, r).spec, ctfd'[Copy(p, r).name])
  <2>1. Copy(p, r).spec \in Specs
    BY <1>2, CopyType DEF PatchPage, At
  <2>2. PICK page \in Stored(Params(Copy(p, r).spec)) :
           ctfd' = [ctfd EXCEPT ![Copy(p, r).name] = page]
    BY <1>2, FaultSpends DEF PatchPage, TypeOK, TypedWith
  <2>3. ctfd'[Copy(p, r).name] = page
    BY <1>2, <2>2 DEF TypeOK, TypedWith, Exists
  <2> QED
    BY <2>1, <2>2, <2>3, StoredSettles
<1>3. TypeOK /\ [Next]_allVars =>
         [\A p \in Pods, r \in Resources : UNCHANGED budget =>
            /\ PostPage(p, r) => IsUpToDate(Copy(p, r).spec, ctfd'[nextId])
            /\ PatchPage(p, r) /\ Exists(Copy(p, r).name)
                  => IsUpToDate(Copy(p, r).spec, ctfd'[Copy(p, r).name])]_allVars
  BY <1>1, <1>2
<1>4. Spec => []TypeOK
  BY PageTypeCorrect, PTL
<1> QED
  BY <1>3, <1>4, PTL DEF Spec, WritesSettle
=============================================================================
