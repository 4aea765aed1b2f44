--------------------------- MODULE FlagSync_proofs ---------------------------
(***************************************************************************)
(* Proofs about FlagSync, for every set of contents and of lists, every    *)
(* number of flags and every bound.                                        *)
(***************************************************************************)
EXTENDS FlagSync, FiniteSetTheorems, TLAPS

(***************************************************************************)
(* The inductive invariant.  While no administrator has acted since the    *)
(* listing, the flags of each value are those in the pool and those that   *)
(* the part of the list that is done has kept or posted.                   *)
(***************************************************************************)
HadIds(k) == {id \in Present : FlagKey(flags[id]) = k}
PooledIds(k) == {id \in Ids : <<id, k>> \in sync.pool}
WantedAt(list, k) == {i \in DOMAIN list : FlagKey(list[i]) = k}
DoneAt(k) == {i \in 1..sync.next - 1 : FlagKey(sync.list[i]) = k}

\* No ID is used before CTFd hands it out.
IdsInOrder == \A id \in Ids : id >= nextId => flags[id] = NoFlag

InPlace ==
    /\ sync.next <= Len(sync.list) + 1
    /\ sync.pc # "sync" => sync.next = 1

PoolListed ==
    \A id \in Ids, k \in Keys : <<id, k>> \in sync.pool => id \in HadIds(k)

Accounted ==
    \A k \in Keys : Cardinality(HadIds(k)) = Cardinality(PooledIds(k)) + Cardinality(DoneAt(k))

Tracked == sync.pc = "sync" /\ ~disturbed => PoolListed /\ Accounted

FlagsInv == TypeOK /\ IdsInOrder /\ InPlace /\ Tracked

(***************************************************************************)
(* Sets of flags and of places are finite.                                 *)
(***************************************************************************)
LEMMA ListType ==
    ASSUME NEW list \in SpecLists
    PROVE  /\ Len(list) \in Nat /\ DOMAIN list = 1..Len(list)
           /\ \A i \in 1..Len(list) : list[i] \in SpecFlags /\ FlagKey(list[i]) \in Keys
<1>1. list \in Seq(SpecFlags)
  BY ConstantsAssumption
<1>2. /\ Len(list) \in Nat /\ DOMAIN list = 1..Len(list)
      /\ \A i \in 1..Len(list) : list[i] \in SpecFlags
  BY <1>1
<1>3. \A flag \in SpecFlags : FlagKey(flag) \in Keys
  BY DEF SpecFlags, FlagKey, FlagTypeOrDefault, Keys, Types
<1> QED
  BY <1>2, <1>3

LEMMA FiniteIds ==
    ASSUME NEW S, S \subseteq Ids
    PROVE  IsFiniteSet(S) /\ Cardinality(S) \in Nat
<1>1. IsFiniteSet(Ids)
  BY ConstantsAssumption, FS_Interval DEF Ids
<1> QED
  BY <1>1, FS_Subset, FS_CardinalityType

LEMMA FinitePlaces ==
    ASSUME NEW n \in Nat, NEW S, S \subseteq 1..n
    PROVE  IsFiniteSet(S) /\ Cardinality(S) \in Nat
<1>1. IsFiniteSet(1..n)
  BY FS_Interval
<1> QED
  BY <1>1, FS_Subset, FS_CardinalityType

LEMMA CountTypes ==
    ASSUME TypeOK
    PROVE  /\ \A k \in Keys : IsFiniteSet(HadIds(k)) /\ Cardinality(HadIds(k)) \in Nat
           /\ \A k \in Keys : IsFiniteSet(PooledIds(k)) /\ Cardinality(PooledIds(k)) \in Nat
           /\ \A k \in Keys : IsFiniteSet(DoneAt(k)) /\ Cardinality(DoneAt(k)) \in Nat
           /\ \A list \in SpecLists, k \in Keys :
                 IsFiniteSet(WantedAt(list, k)) /\ Cardinality(WantedAt(list, k)) \in Nat
<1>1. \A k : HadIds(k) \subseteq Ids /\ PooledIds(k) \subseteq Ids
  BY DEF HadIds, PooledIds, Present
<1>2. sync.next - 1 \in Nat
  BY DEF TypeOK, Syncs
<1>3. \A k : DoneAt(k) \subseteq 1..sync.next - 1
  BY DEF DoneAt
<1>4. \A list \in SpecLists : Len(list) \in Nat /\ \A k : WantedAt(list, k) \subseteq 1..Len(list)
  BY ListType DEF WantedAt
<1> QED
  BY <1>1, <1>2, <1>3, <1>4, FiniteIds, FinitePlaces

\* Both counts, as cardinalities.
LEMMA Counts ==
    /\ \A k \in Keys : Had[k] = Cardinality(HadIds(k))
    /\ \A list : \A k \in Keys : Wanted(list)[k] = Cardinality(WantedAt(list, k))
BY DEF Had, HadIds, Wanted, WantedAt

(***************************************************************************)
(* Types.                                                                  *)
(***************************************************************************)
Bounds == {"fault", "edit", "admin"}

LEMMA FaultType ==
    ASSUME budget \in [Bounds -> Nat], NEW c, Fault(c)
    PROVE  budget' \in [Bounds -> Nat]
BY DEF Fault, Spend, Bounds

LEMMA StopType ==
    ASSUME sync \in Syncs, Stop
    PROVE  sync' \in Syncs /\ sync' = [sync EXCEPT !.pc = "idle", !.next = 1, !.pool = {}]
<1>1. \A pool \in SUBSET Entries, next \in Nat \ {0} :
         [sync EXCEPT !.pc = "idle", !.next = next, !.pool = pool] \in Syncs
  BY DEF Syncs
<1>2. {} \in SUBSET Entries /\ 1 \in Nat \ {0}
  OBVIOUS
<1> QED
  BY <1>1, <1>2 DEF Stop

\* A sync that goes on to the next flag of the list, or takes a flag off the pool.
LEMMA AdvanceType ==
    ASSUME sync \in Syncs, NEW pool, pool \subseteq sync.pool,
           NEW next \in {sync.next, sync.next + 1}
    PROVE  [sync EXCEPT !.next = next, !.pool = pool] \in Syncs
<1>1. next \in Nat \ {0}
  BY DEF Syncs
<1>2. pool \in SUBSET Entries
  BY DEF Syncs
<1> QED
  BY <1>1, <1>2 DEF Syncs

LEMMA FlagKeyType ==
    ASSUME NEW flag \in CTFdFlags
    PROVE  FlagKey(flag) = <<flag.content, flag.type>> /\ FlagKey(flag) \in Keys
<1>1. flag.content \in Contents /\ flag.type \in Types /\ flag.type # ""
  BY DEF CTFdFlags, Types
<1> QED
  BY <1>1 DEF FlagKey, FlagTypeOrDefault, Keys

LEMMA PostedType ==
    ASSUME NEW flag \in SpecFlags
    PROVE  /\ [content |-> flag.content, type |-> FlagTypeOrDefault(flag.type)] \in CTFdFlags
           /\ FlagKey([content |-> flag.content, type |-> FlagTypeOrDefault(flag.type)])
                = FlagKey(flag)
<1>1. flag.content \in Contents /\ FlagTypeOrDefault(flag.type) \in Types
  BY DEF SpecFlags, FlagTypeOrDefault, Types
<1>2. FlagTypeOrDefault(flag.type) # ""
  BY <1>1 DEF Types
<1> QED
  BY <1>1, <1>2 DEF CTFdFlags, FlagKey, FlagTypeOrDefault

LEMMA SyncType ==
    ASSUME TypeOK, [Next]_vars
    PROVE  sync' \in Syncs
<1>0. sync \in Syncs /\ spec \in SpecLists
  BY DEF TypeOK
<1>1. Stop => sync' \in Syncs
  BY <1>0, StopType
<1>2. CASE BeginOutOfDate \/ BeginAnyway
  BY <1>0, <1>2 DEF BeginOutOfDate, BeginAnyway, Begin, Syncs
<1>3. CASE List
  <2> DEFINE pool == {<<id, FlagKey(flags[id])>> : id \in Present}
  <2>1. pool \in SUBSET Entries
    <3>1. \A id \in Present : id \in Ids /\ FlagKey(flags[id]) \in Keys
      BY FlagKeyType DEF Present, TypeOK
    <3> QED
      BY <3>1 DEF Entries
  <2> HIDE DEF pool
  <2>2. [sync EXCEPT !.pc = "sync", !.pool = pool] \in Syncs
    BY <1>0, <2>1 DEF Syncs
  <2> QED
    BY <1>1, <1>3, <2>2 DEF List, pool
<1>4. CASE Keep
  <2>1. PICK entry : sync' = [sync EXCEPT !.next = @ + 1, !.pool = @ \ {entry}]
    BY <1>4 DEF Keep
  <2> QED
    BY <1>0, <2>1, AdvanceType
<1>5. CASE Post
  <2>1. [sync EXCEPT !.next = @ + 1, !.pool = @] \in Syncs
    BY <1>0, AdvanceType
  <2>2. [sync EXCEPT !.next = @ + 1] = [sync EXCEPT !.next = @ + 1, !.pool = @]
    BY <1>0 DEF Syncs
  <2> QED
    BY <1>1, <1>5, <2>1, <2>2 DEF Post
<1>6. CASE Delete
  <2>1. ASSUME NEW entry, sync' = [sync EXCEPT !.pool = @ \ {entry}] PROVE sync' \in Syncs
    <3>1. [sync EXCEPT !.next = @, !.pool = @ \ {entry}] \in Syncs
      BY <1>0, AdvanceType
    <3>2. [sync EXCEPT !.next = @, !.pool = @ \ {entry}] = [sync EXCEPT !.pool = @ \ {entry}]
      BY <1>0 DEF Syncs
    <3> QED
      BY <2>1, <3>1, <3>2
  <2> QED
    BY <1>1, <1>6, <2>1 DEF Delete
<1> QED
  BY <1>0, <1>1, <1>2, <1>3, <1>4, <1>5, <1>6
     DEF Next, Provider, Succeed, Crash, EditSpec, AdminActs, vars

LEMMA FlagsType ==
    ASSUME TypeOK, [Next]_vars
    PROVE  flags' \in [Ids -> CTFdFlags \cup {NoFlag}] /\ nextId' \in 1..MaxId + 1
<1>1. flags \in [Ids -> CTFdFlags \cup {NoFlag}] /\ nextId \in 1..MaxId + 1 /\ MaxId \in Nat
  BY ConstantsAssumption DEF TypeOK
<1>2. ASSUME nextId <= MaxId, NEW new \in CTFdFlags,
             flags' = [flags EXCEPT ![nextId] = new], nextId' = nextId + 1
      PROVE  flags' \in [Ids -> CTFdFlags \cup {NoFlag}] /\ nextId' \in 1..MaxId + 1
  <2>1. nextId' \in 1..MaxId + 1
    BY <1>1, <1>2
  <2> QED
    BY <1>1, <1>2, <2>1
<1>3. CASE Post
  <2>1. sync.list[sync.next] \in SpecFlags
    BY <1>3, ListType DEF Post, TypeOK, Syncs
  <2> DEFINE new == [content |-> sync.list[sync.next].content,
                     type |-> FlagTypeOrDefault(sync.list[sync.next].type)]
  <2>2. new \in CTFdFlags
    BY <2>1, PostedType
  <2>3. \/ UNCHANGED <<flags, nextId>>
        \/ nextId <= MaxId /\ flags' = [flags EXCEPT ![nextId] = new] /\ nextId' = nextId + 1
    BY <1>3 DEF Post
  <2> HIDE DEF new
  <2> QED
    BY <1>1, <1>2, <2>2, <2>3
<1>4. CASE Delete
  BY <1>1, <1>4 DEF Delete
<1>5. CASE AdminActs
  <2>1. ASSUME NEW id, NEW flag \in CTFdFlags \cup {NoFlag}, flags' = [flags EXCEPT ![id] = flag]
        PROVE  flags' \in [Ids -> CTFdFlags \cup {NoFlag}]
    BY <1>1, <2>1
  <2> QED
    BY <1>1, <1>2, <1>5, <2>1 DEF AdminActs
<1> QED
  BY <1>1, <1>3, <1>4, <1>5
     DEF Next, Provider, BeginOutOfDate, BeginAnyway, Begin, List, Keep, Succeed, Crash,
         EditSpec, vars

LEMMA TypeStep ==
    ASSUME TypeOK, [Next]_vars
    PROVE  TypeOK'
<1>1. budget' \in [Bounds -> Nat]
  <2>1. budget \in [Bounds -> Nat]
    BY DEF TypeOK, Bounds
  <2>2. \A c : Fault(c) => budget' \in [Bounds -> Nat]
    BY <2>1, FaultType
  <2>3. CASE EditSpec \/ AdminActs
    BY <2>1, <2>3 DEF EditSpec, AdminActs, Spend, Bounds
  <2> QED
    BY <2>1, <2>2, <2>3
       DEF Next, Provider, BeginOutOfDate, BeginAnyway, Begin, List, Keep, Post, Delete,
           Succeed, Crash, vars
<1>2. spec' \in SpecLists
  BY DEF TypeOK, Next, Provider, BeginOutOfDate, BeginAnyway, Begin, List, Keep, Post, Delete,
         Succeed, Crash, EditSpec, AdminActs, vars
<1>3. disturbed' \in BOOLEAN
  BY DEF TypeOK, Next, Provider, BeginOutOfDate, BeginAnyway, Begin, List, Keep, Post, Delete,
         Succeed, Crash, EditSpec, AdminActs, vars
<1> QED
  BY <1>1, <1>2, <1>3, SyncType, FlagsType DEF TypeOK, Bounds

LEMMA InitialType ==
    ASSUME Init
    PROVE  TypeOK
<1>1. sync \in Syncs
  <2>1. sync = [pc |-> "idle", list |-> spec, next |-> 1, pool |-> {}] /\ spec \in SpecLists
    BY DEF Init
  <2> QED
    BY <2>1 DEF Syncs
<1>2. budget \in [Bounds -> Nat]
  BY ConstantsAssumption DEF Init, Bounds
<1>3. nextId \in 1..MaxId + 1
  BY ConstantsAssumption DEF Init
<1> QED
  BY <1>1, <1>2, <1>3 DEF Init, TypeOK, Bounds

(***************************************************************************)
(* Every variable keeps its type, and the pool holds flags that were       *)
(* listed.                                                                 *)
(***************************************************************************)
THEOREM FlagsTypeCorrect == Spec => []TypeOK
<1>1. Init => TypeOK
  BY InitialType
<1>2. TypeOK /\ [Next]_vars => TypeOK'
  BY TypeStep
<1> QED
  BY <1>1, <1>2, PTL DEF Spec

----------------------------------------------------------------------------
(***************************************************************************)
(* What a step does to the counts.                                         *)
(***************************************************************************)
Posted(new) == nextId <= MaxId /\ flags' = [flags EXCEPT ![nextId] = new] /\ nextId' = nextId + 1
Deleted(id) == id \in Present /\ flags' = [flags EXCEPT ![id] = NoFlag]

LEMMA PostAdds ==
    ASSUME TypeOK, IdsInOrder, NEW new \in CTFdFlags, Posted(new), NEW k \in Keys
    PROVE  /\ HadIds(k)' = IF k = FlagKey(new) THEN HadIds(k) \cup {nextId} ELSE HadIds(k)
           /\ Cardinality(HadIds(k)') = IF k = FlagKey(new) THEN Cardinality(HadIds(k)) + 1
                                        ELSE Cardinality(HadIds(k))
<1>1. nextId \in Ids /\ flags[nextId] = NoFlag
  BY ConstantsAssumption DEF Posted, TypeOK, IdsInOrder, Ids
<1>2. new # NoFlag
  BY DEF CTFdFlags, NoFlag
<1>3. flags'[nextId] = new /\ \A id \in Ids : id # nextId => flags'[id] = flags[id]
  BY <1>1 DEF Posted, TypeOK
<1>4. HadIds(k)' = IF k = FlagKey(new) THEN HadIds(k) \cup {nextId} ELSE HadIds(k)
  BY <1>1, <1>2, <1>3 DEF HadIds, Present
<1>5. nextId \notin HadIds(k)
  BY <1>1 DEF HadIds, Present
<1> QED
  BY <1>4, <1>5, CountTypes, FS_AddElement

LEMMA DeleteTakes ==
    ASSUME TypeOK, NEW id, Deleted(id), NEW k \in Keys
    PROVE  /\ HadIds(k)' = HadIds(k) \ {id}
           /\ Cardinality(HadIds(k)') = IF k = FlagKey(flags[id]) THEN Cardinality(HadIds(k)) - 1
                                        ELSE Cardinality(HadIds(k))
<1>1. id \in Ids /\ flags'[id] = NoFlag /\ \A o \in Ids : o # id => flags'[o] = flags[o]
  BY DEF Deleted, Present, TypeOK
<1>2. HadIds(k)' = HadIds(k) \ {id}
  BY <1>1 DEF HadIds, Present
<1>3. id \in HadIds(k) <=> k = FlagKey(flags[id])
  BY DEF Deleted, HadIds
<1> QED
  BY <1>2, <1>3, CountTypes, FS_RemoveElement

\* The next flag of the list is done.
LEMMA DoneGrows ==
    ASSUME TypeOK, sync.next <= Len(sync.list), sync'.next = sync.next + 1,
           sync'.list = sync.list, NEW k \in Keys
    PROVE  Cardinality(DoneAt(k)') = IF k = FlagKey(sync.list[sync.next])
                                     THEN Cardinality(DoneAt(k)) + 1 ELSE Cardinality(DoneAt(k))
<1>1. sync.next \in Nat \ {0}
  BY DEF TypeOK, Syncs
<1>2. 1..sync'.next - 1 = (1..sync.next - 1) \cup {sync.next} /\ sync.next \notin 1..sync.next - 1
  BY <1>1
<1>3. DoneAt(k)' = IF k = FlagKey(sync.list[sync.next]) THEN DoneAt(k) \cup {sync.next} ELSE DoneAt(k)
  BY <1>2 DEF DoneAt
<1>4. sync.next \notin DoneAt(k)
  BY <1>2 DEF DoneAt
<1> QED
  BY <1>3, <1>4, CountTypes, FS_AddElement

\* Before the end of the list not all of the next flag's value is done, and at
\* the end all is.
LEMMA DoneBelowWanted ==
    ASSUME TypeOK, sync.next <= Len(sync.list)
    PROVE  LET k == FlagKey(sync.list[sync.next]) IN
           k \in Keys /\ Cardinality(DoneAt(k)) < Cardinality(WantedAt(sync.list, k))
<1> DEFINE k == FlagKey(sync.list[sync.next])
<1>1. sync.next \in Nat \ {0} /\ sync.list \in SpecLists
  BY DEF TypeOK, Syncs
<1>2. /\ Len(sync.list) \in Nat /\ DOMAIN sync.list = 1..Len(sync.list)
      /\ sync.next \in DOMAIN sync.list /\ k \in Keys
  BY <1>1, ListType
<1> HIDE DEF k
<1>3. DoneAt(k) \subseteq WantedAt(sync.list, k)
  BY <1>1, <1>2 DEF DoneAt, WantedAt
<1>4. sync.next \in WantedAt(sync.list, k)
  BY <1>2 DEF WantedAt, k
<1>5. sync.next \notin DoneAt(k)
  BY <1>1 DEF DoneAt
<1>6. Cardinality(DoneAt(k)) <= Cardinality(WantedAt(sync.list, k))
      /\ Cardinality(DoneAt(k)) # Cardinality(WantedAt(sync.list, k))
  BY <1>1, <1>2, <1>3, <1>4, <1>5, CountTypes, FS_Subset
<1>7. Cardinality(DoneAt(k)) < Cardinality(WantedAt(sync.list, k))
  BY <1>1, <1>2, <1>6, CountTypes
<1> QED
  BY <1>2, <1>7 DEF k

LEMMA DoneAtEnd ==
    ASSUME TypeOK, InPlace, sync.next > Len(sync.list)
    PROVE  \A k : DoneAt(k) = WantedAt(sync.list, k)
<1>1. sync.next \in Nat \ {0} /\ Len(sync.list) \in Nat /\ DOMAIN sync.list = 1..Len(sync.list)
  BY ListType DEF TypeOK, Syncs
<1>2. 1..sync.next - 1 = DOMAIN sync.list
  BY <1>1 DEF InPlace
<1> QED
  BY <1>2 DEF DoneAt, WantedAt

----------------------------------------------------------------------------
(***************************************************************************)
(* The invariant is inductive.                                             *)
(***************************************************************************)
LEMMA OrderStep ==
    ASSUME FlagsInv, [Next]_vars
    PROVE  IdsInOrder'
<1>1. /\ flags \in [Ids -> CTFdFlags \cup {NoFlag}] /\ nextId \in 1..MaxId + 1
      /\ MaxId \in Nat /\ \A id \in Ids : id \in Nat
  BY ConstantsAssumption DEF FlagsInv, TypeOK, Ids
<1>2. CASE UNCHANGED <<flags, nextId>>
  BY <1>2 DEF FlagsInv, IdsInOrder
<1>3. ASSUME NEW new, Posted(new) PROVE IdsInOrder'
  BY <1>1, <1>3 DEF Posted, FlagsInv, IdsInOrder
<1>4. ASSUME NEW id \in Present, NEW new, flags' = [flags EXCEPT ![id] = new], nextId' = nextId
      PROVE  IdsInOrder'
  <2>1. id < nextId
    BY <1>1, <1>4 DEF FlagsInv, IdsInOrder, Present
  <2> QED
    BY <1>1, <1>4, <2>1 DEF FlagsInv, IdsInOrder
<1>5. CASE Post
  BY <1>2, <1>3, <1>5 DEF Post, Posted
<1>6. CASE Delete
  <2>1. ASSUME NEW id, flags' = [flags EXCEPT ![id] = NoFlag], nextId' = nextId
        PROVE  IdsInOrder'
    BY <1>1, <2>1 DEF FlagsInv, IdsInOrder
  <2> QED
    BY <1>2, <1>6, <2>1 DEF Delete
<1>7. CASE AdminActs
  BY <1>3, <1>4, <1>7 DEF AdminActs, Posted
<1> QED
  BY <1>2, <1>5, <1>6, <1>7
     DEF Next, Provider, BeginOutOfDate, BeginAnyway, Begin, List, Keep, Succeed, Crash,
         EditSpec, vars

\* The fields of a sync after a step.
LEMMA SyncFields ==
    ASSUME sync \in Syncs
    PROVE  /\ \A pc, list : LET s == [sync EXCEPT !.pc = pc, !.list = list] IN
              s.pc = pc /\ s.list = list /\ s.next = sync.next /\ s.pool = sync.pool
           /\ \A pc, pool : LET s == [sync EXCEPT !.pc = pc, !.pool = pool] IN
              s.pc = pc /\ s.list = sync.list /\ s.next = sync.next /\ s.pool = pool
           /\ \A next, pool : LET s == [sync EXCEPT !.next = next, !.pool = pool] IN
              s.pc = sync.pc /\ s.list = sync.list /\ s.next = next /\ s.pool = pool
           /\ \A next : LET s == [sync EXCEPT !.next = next] IN
              s.pc = sync.pc /\ s.list = sync.list /\ s.next = next /\ s.pool = sync.pool
           /\ \A pool : LET s == [sync EXCEPT !.pool = pool] IN
              s.pc = sync.pc /\ s.list = sync.list /\ s.next = sync.next /\ s.pool = pool
           /\ Stop => sync'.pc = "idle" /\ sync'.list = sync.list /\ sync'.next = 1
BY DEF Syncs, Stop

LEMMA PlaceStep ==
    ASSUME FlagsInv, [Next]_vars
    PROVE  InPlace'
<1>1. /\ sync \in Syncs /\ sync.next \in Nat \ {0} /\ Len(sync.list) \in Nat /\ Len(spec) \in Nat
      /\ sync.next <= Len(sync.list) + 1 /\ (sync.pc # "sync" => sync.next = 1)
  BY ListType DEF FlagsInv, TypeOK, Syncs, InPlace
<1>2. ASSUME Stop PROVE InPlace'
  <2>1. sync'.pc = "idle" /\ sync'.next = 1 /\ sync'.list = sync.list
    BY <1>1, <1>2 DEF Stop, Syncs
  <2> QED
    BY <1>1, <2>1 DEF InPlace
<1>3. CASE BeginOutOfDate \/ BeginAnyway
  <2>1. sync'.pc = "list" /\ sync'.next = sync.next /\ sync'.list = spec /\ sync.pc = "idle"
    BY <1>1, <1>3 DEF BeginOutOfDate, BeginAnyway, Begin, Syncs
  <2> QED
    BY <1>1, <2>1 DEF InPlace
<1>4. CASE List
  <2>1. ASSUME NEW pool, sync' = [sync EXCEPT !.pc = "sync", !.pool = pool]
        PROVE  sync'.pc = "sync" /\ sync'.next = sync.next /\ sync'.list = sync.list
    BY <1>1, <2>1 DEF Syncs
  <2> QED
    BY <1>1, <1>2, <1>4, <2>1 DEF List, InPlace
<1>5. CASE Keep
  <2>1. /\ sync'.pc = "sync" /\ sync'.next = sync.next + 1 /\ sync'.list = sync.list
        /\ sync.next <= Len(sync.list)
    BY <1>1, <1>5 DEF Keep, Syncs
  <2> QED
    BY <1>1, <2>1 DEF InPlace
<1>6. CASE Post
  <2>1. ASSUME sync' = [sync EXCEPT !.next = @ + 1]
        PROVE  InPlace'
    <3>1. /\ sync'.pc = "sync" /\ sync'.next = sync.next + 1 /\ sync'.list = sync.list
          /\ sync.next <= Len(sync.list)
      BY <1>1, <1>6, <2>1 DEF Post, Syncs
    <3> QED
      BY <1>1, <3>1 DEF InPlace
  <2> QED
    BY <1>2, <1>6, <2>1 DEF Post
<1>7. CASE Delete
  <2>1. ASSUME NEW pool, sync' = [sync EXCEPT !.pool = pool]
        PROVE  InPlace'
    <3>1. sync'.pc = sync.pc /\ sync'.next = sync.next /\ sync'.list = sync.list
      BY <1>1, <2>1 DEF Syncs
    <3> QED
      BY <1>1, <3>1 DEF InPlace
  <2> QED
    BY <1>2, <1>7, <2>1 DEF Delete
<1>8. CASE UNCHANGED sync
  BY <1>8 DEF FlagsInv, InPlace
<1> QED
  BY <1>2, <1>3, <1>4, <1>5, <1>6, <1>7, <1>8
     DEF Next, Provider, Succeed, Crash, EditSpec, AdminActs, vars

LEMMA ListTracked ==
    ASSUME FlagsInv, List
    PROVE  Tracked'
<1>1. sync \in Syncs /\ sync.next = 1
  BY DEF FlagsInv, TypeOK, InPlace, List
<1>2. CASE Stop
  BY <1>1, <1>2, SyncFields DEF Tracked
<1>3. CASE sync' = [sync EXCEPT !.pc = "sync", !.pool = {<<id, FlagKey(flags[id])>> : id \in Present}]
  <2>1. sync'.pool = {<<id, FlagKey(flags[id])>> : id \in Present} /\ sync'.next = 1
        /\ sync'.list = sync.list
    BY <1>1, <1>3, SyncFields
  <2>2. flags' = flags
    BY DEF List
  <2>3. PoolListed'
    BY <2>1, <2>2 DEF PoolListed, HadIds, Present
  <2>4. \A k : PooledIds(k)' = HadIds(k)'
    BY <2>1, <2>2 DEF PooledIds, HadIds, Present
  <2>5. \A k : DoneAt(k)' = {}
    BY <2>1 DEF DoneAt
  <2>6. \A k \in Keys : Cardinality(HadIds(k)') \in Nat
    <3>1. \A k : HadIds(k)' = HadIds(k)
      BY <2>2 DEF HadIds, Present
    <3> QED
      BY <3>1, CountTypes DEF FlagsInv
  <2>7. Accounted'
    BY <2>4, <2>5, <2>6, FS_EmptySet DEF Accounted
  <2> QED
    BY <2>3, <2>7 DEF Tracked
<1> QED
  BY <1>2, <1>3 DEF List

LEMMA KeepTracked ==
    ASSUME FlagsInv, Keep
    PROVE  Tracked'
<1> SUFFICES ASSUME ~disturbed PROVE PoolListed' /\ Accounted'
  BY DEF Tracked, Keep
<1> DEFINE k0 == FlagKey(sync.list[sync.next])
<1>1. /\ sync \in Syncs /\ sync.pc = "sync" /\ sync.next <= Len(sync.list) /\ flags' = flags
      /\ TypeOK /\ PoolListed /\ Accounted
  BY DEF FlagsInv, Tracked, TypeOK, Keep
<1>2. PICK entry \in Pooled(k0) : sync' = [sync EXCEPT !.next = @ + 1, !.pool = @ \ {entry}]
  BY DEF Keep
<1>3. PICK id0 \in Ids : entry = <<id0, k0>> /\ entry \in sync.pool
  <2>1. entry \in sync.pool /\ entry[2] = k0 /\ entry \in Ids \X Keys
    BY <1>1, <1>2 DEF Pooled, Syncs, Entries
  <2> QED
    BY <2>1
<1>4. sync'.next = sync.next + 1 /\ sync'.list = sync.list /\ sync'.pool = sync.pool \ {<<id0, k0>>}
  BY <1>1, <1>2, <1>3, SyncFields
<1> HIDE DEF k0
<1>5. \A k : HadIds(k)' = HadIds(k)
  BY <1>1 DEF HadIds, Present
<1>6. PoolListed'
  BY <1>1, <1>4, <1>5 DEF PoolListed
<1>7. ASSUME NEW k \in Keys
      PROVE  Cardinality(HadIds(k)') = Cardinality(PooledIds(k)') + Cardinality(DoneAt(k)')
  <2>1. PooledIds(k)' = IF k = k0 THEN PooledIds(k) \ {id0} ELSE PooledIds(k)
    BY <1>4 DEF PooledIds
  <2>2. id0 \in PooledIds(k0)
    BY <1>3 DEF PooledIds
  <2>3. Cardinality(PooledIds(k)') = IF k = k0 THEN Cardinality(PooledIds(k)) - 1
                                     ELSE Cardinality(PooledIds(k))
    BY <1>1, <1>7, <2>1, <2>2, CountTypes, FS_RemoveElement
  <2>4. Cardinality(DoneAt(k)') = IF k = k0 THEN Cardinality(DoneAt(k)) + 1
                                  ELSE Cardinality(DoneAt(k))
    BY <1>1, <1>4, <1>7, DoneGrows DEF k0
  <2> QED
    BY <1>1, <1>5, <1>7, <2>3, <2>4, CountTypes DEF Accounted
<1> QED
  BY <1>6, <1>7 DEF Accounted

LEMMA PostTracked ==
    ASSUME FlagsInv, Post
    PROVE  Tracked'
<1> DEFINE flag == sync.list[sync.next]
           new == [content |-> flag.content, type |-> FlagTypeOrDefault(flag.type)]
           k0 == FlagKey(flag)
<1>1. /\ sync \in Syncs /\ sync.pc = "sync" /\ sync.next <= Len(sync.list) /\ Pooled(k0) = {}
      /\ TypeOK /\ IdsInOrder
  BY DEF FlagsInv, TypeOK, Post
<1>2. flag \in SpecFlags
  BY <1>1, ListType DEF TypeOK, Syncs
<1>3. new \in CTFdFlags /\ FlagKey(new) = k0
  BY <1>2, PostedType
<1>4. CASE Stop
  BY <1>1, <1>4, SyncFields DEF Tracked
<1>5. ASSUME Posted(new), sync' = [sync EXCEPT !.next = @ + 1], ~disturbed
      PROVE  PoolListed' /\ Accounted'
  <2> HIDE DEF new, k0
  <2>1. sync'.next = sync.next + 1 /\ sync'.list = sync.list /\ sync'.pool = sync.pool
    BY <1>1, <1>5, SyncFields
  <2>2. PoolListed /\ Accounted
    BY <1>1, <1>5 DEF FlagsInv, Tracked
  <2>3. PoolListed'
    BY <1>1, <1>3, <1>5, <2>1, <2>2, PostAdds DEF PoolListed
  <2>4. ASSUME NEW k \in Keys
        PROVE  Cardinality(HadIds(k)') = Cardinality(PooledIds(k)') + Cardinality(DoneAt(k)')
    <3>1. PooledIds(k)' = PooledIds(k)
      BY <2>1 DEF PooledIds
    <3>2. Cardinality(DoneAt(k)') = IF k = k0 THEN Cardinality(DoneAt(k)) + 1
                                    ELSE Cardinality(DoneAt(k))
      BY <1>1, <2>1, <2>4, DoneGrows DEF k0
    <3>3. Cardinality(HadIds(k)') = IF k = k0 THEN Cardinality(HadIds(k)) + 1
                                    ELSE Cardinality(HadIds(k))
      BY <1>1, <1>3, <1>5, <2>4, PostAdds
    <3> QED
      BY <1>1, <2>2, <2>4, <3>1, <3>2, <3>3, CountTypes DEF Accounted
  <2> QED
    BY <2>3, <2>4 DEF Accounted
<1>6. \/ Stop
      \/ Posted(new) /\ sync' = [sync EXCEPT !.next = @ + 1]
  BY DEF Post, Posted
<1>7. disturbed' = disturbed
  BY DEF Post
<1> QED
  BY <1>4, <1>5, <1>6, <1>7 DEF Tracked

LEMMA DeleteTracked ==
    ASSUME FlagsInv, Delete
    PROVE  Tracked'
<1>1. /\ sync \in Syncs /\ sync.pc = "sync" /\ TypeOK /\ disturbed' = disturbed
  BY DEF FlagsInv, TypeOK, Delete
<1>2. CASE Stop
  BY <1>1, <1>2, SyncFields DEF Tracked
<1>3. ASSUME NEW entry \in sync.pool, Deleted(entry[1]), sync' = [sync EXCEPT !.pool = @ \ {entry}],
             ~disturbed
      PROVE  PoolListed' /\ Accounted'
  <2>1. PICK id0 \in Ids, k0 \in Keys : entry = <<id0, k0>>
    BY <1>1 DEF Syncs, Entries
  <2>2. PoolListed /\ Accounted
    BY <1>1, <1>3 DEF FlagsInv, Tracked
  <2>3. id0 \in HadIds(k0) /\ FlagKey(flags[id0]) = k0
    BY <1>3, <2>1, <2>2 DEF PoolListed, HadIds
  <2>4. Deleted(id0)
    BY <1>3, <2>1
  <2>5. sync'.next = sync.next /\ sync'.list = sync.list /\ sync'.pool = sync.pool \ {<<id0, k0>>}
    BY <1>1, <1>3, <2>1, SyncFields
  <2>6. PoolListed'
    <3> SUFFICES ASSUME NEW id \in Ids, NEW k \in Keys, <<id, k>> \in sync.pool, <<id, k>> # <<id0, k0>>
                 PROVE  id \in HadIds(k)'
      BY <2>5 DEF PoolListed
    <3>1. id \in HadIds(k)
      BY <2>2 DEF PoolListed
    <3>2. id # id0
      BY <2>3, <3>1 DEF HadIds
    <3> QED
      BY <1>1, <2>4, <3>1, <3>2, DeleteTakes
  <2>7. ASSUME NEW k \in Keys
        PROVE  Cardinality(HadIds(k)') = Cardinality(PooledIds(k)') + Cardinality(DoneAt(k)')
    <3>1. PooledIds(k)' = IF k = k0 THEN PooledIds(k) \ {id0} ELSE PooledIds(k)
      BY <2>5 DEF PooledIds
    <3>2. id0 \in PooledIds(k0)
      BY <1>3, <2>1 DEF PooledIds
    <3>3. Cardinality(PooledIds(k)') = IF k = k0 THEN Cardinality(PooledIds(k)) - 1
                                       ELSE Cardinality(PooledIds(k))
      BY <1>1, <2>7, <3>1, <3>2, CountTypes, FS_RemoveElement
    <3>4. DoneAt(k)' = DoneAt(k)
      BY <2>5 DEF DoneAt
    <3>5. Cardinality(HadIds(k)') = IF k = k0 THEN Cardinality(HadIds(k)) - 1
                                    ELSE Cardinality(HadIds(k))
      BY <1>1, <2>3, <2>4, <2>7, DeleteTakes
    <3> QED
      BY <1>1, <2>2, <2>7, <3>3, <3>4, <3>5, CountTypes DEF Accounted
  <2> QED
    BY <2>6, <2>7 DEF Accounted
<1>4. \/ Stop
      \/ \E entry \in sync.pool : Deleted(entry[1]) /\ sync' = [sync EXCEPT !.pool = @ \ {entry}]
  BY DEF Delete, Deleted
<1> QED
  BY <1>1, <1>2, <1>3, <1>4 DEF Tracked

LEMMA TrackedStep ==
    ASSUME FlagsInv, [Next]_vars
    PROVE  Tracked'
<1>1. sync \in Syncs
  BY DEF FlagsInv, TypeOK
<1>2. CASE BeginOutOfDate \/ BeginAnyway
  <2>1. sync'.pc = "list"
    BY <1>1, <1>2 DEF BeginOutOfDate, BeginAnyway, Begin, Syncs
  <2> QED
    BY <2>1 DEF Tracked
<1>3. CASE Succeed \/ Crash
  BY <1>1, <1>3, SyncFields DEF Succeed, Crash, Tracked
<1>4. CASE AdminActs
  BY <1>4 DEF AdminActs, Tracked
<1>5. CASE UNCHANGED <<flags, sync, disturbed>>
  BY <1>5 DEF FlagsInv, Tracked, PoolListed, Accounted, HadIds, PooledIds, DoneAt, Present
<1> QED
  BY <1>2, <1>3, <1>4, <1>5, ListTracked, KeepTracked, PostTracked, DeleteTracked
     DEF Next, Provider, EditSpec, vars

LEMMA FlagsStep ==
    ASSUME FlagsInv, [Next]_vars
    PROVE  FlagsInv'
BY TypeStep, OrderStep, PlaceStep, TrackedStep DEF FlagsInv

LEMMA FlagsInitially ==
    ASSUME Init
    PROVE  FlagsInv
<1>1. TypeOK
  BY InitialType
<1>2. Len(spec) \in Nat
  BY ListType DEF Init
<1> QED
  BY <1>1, <1>2 DEF Init, FlagsInv, IdsInOrder, InPlace, Tracked

----------------------------------------------------------------------------
(***************************************************************************)
(* A syncFlags that returns without an error, and that no administrator    *)
(* disturbed, has brought the flags to its list, for every list and every  *)
(* set of flags it may find.                                               *)
(***************************************************************************)
THEOREM SuccessIsUpToDate == Spec => SuccessMeansUpToDate
<1>1. ASSUME FlagsInv, Succeed, ~disturbed PROVE FlagsUpToDate(sync.list)
  <2>1. Accounted /\ TypeOK /\ InPlace /\ sync.next > Len(sync.list) /\ sync.pool = {}
    BY <1>1 DEF Succeed, FlagsInv, Tracked
  <2>2. \A k \in Keys : Cardinality(PooledIds(k)) = 0
    <3>1. \A k : PooledIds(k) = {}
      BY <2>1 DEF PooledIds
    <3> QED
      BY <3>1, FS_EmptySet
  <2>3. \A k \in Keys : Cardinality(HadIds(k)) = Cardinality(WantedAt(sync.list, k))
    BY <2>1, <2>2, DoneAtEnd, CountTypes DEF Accounted
  <2>4. \A k \in Keys : Had[k] = Wanted(sync.list)[k]
    BY <2>3, Counts
  <2> QED
    BY <2>4 DEF FlagsUpToDate, Had, Wanted
<1>2. FlagsInv /\ [Next]_vars =>
         [Succeed /\ ~disturbed => FlagsUpToDate(sync.list)]_vars
  BY <1>1
<1>3. Init => FlagsInv
  BY FlagsInitially
<1>4. FlagsInv /\ [Next]_vars => FlagsInv'
  BY FlagsStep
<1> QED
  BY <1>2, <1>3, <1>4, PTL DEF Spec, SuccessMeansUpToDate

----------------------------------------------------------------------------
(***************************************************************************)
(* The refinement: the flags as a bag of values.                           *)
(***************************************************************************)
LEMMA CountsType ==
    ASSUME TypeOK
    PROVE  Had \in [Keys -> Nat] /\ \A list \in SpecLists : Wanted(list) \in [Keys -> Nat]
<1>1. \A k \in Keys : Cardinality(HadIds(k)) \in Nat
  BY CountTypes
<1>2. \A list \in SpecLists : \A k \in Keys : Cardinality(WantedAt(list, k)) \in Nat
  BY CountTypes
<1>3. Had = [k \in Keys |-> Cardinality(HadIds(k))]
  BY DEF Had, HadIds
<1>4. \A list : Wanted(list) = [k \in Keys |-> Cardinality(WantedAt(list, k))]
  BY DEF Wanted, WantedAt
<1> QED
  BY <1>1, <1>2, <1>3, <1>4

LEMMA PostIsAdd ==
    ASSUME TypeOK, IdsInOrder, NEW new \in CTFdFlags, Posted(new)
    PROVE  Had' = [Had EXCEPT ![FlagKey(new)] = @ + 1]
<1>1. /\ Had = [k \in Keys |-> Cardinality(HadIds(k))]
      /\ Had' = [k \in Keys |-> Cardinality(HadIds(k)')]
  BY DEF Had, HadIds
<1>2. \A k \in Keys : Cardinality(HadIds(k)') = IF k = FlagKey(new) THEN Cardinality(HadIds(k)) + 1
                                                ELSE Cardinality(HadIds(k))
  BY PostAdds
<1> QED
  BY <1>1, <1>2

LEMMA DeleteIsRemove ==
    ASSUME TypeOK, NEW id, Deleted(id)
    PROVE  Had' = [Had EXCEPT ![FlagKey(flags[id])] = @ - 1]
<1>1. /\ Had = [k \in Keys |-> Cardinality(HadIds(k))]
      /\ Had' = [k \in Keys |-> Cardinality(HadIds(k)')]
  BY DEF Had, HadIds
<1>2. \A k \in Keys : Cardinality(HadIds(k)') = IF k = FlagKey(flags[id]) THEN Cardinality(HadIds(k)) - 1
                                                ELSE Cardinality(HadIds(k))
  BY DeleteTakes
<1> QED
  BY <1>1, <1>2

LEMMA SameFlags ==
    ASSUME flags' = flags
    PROVE  Had' = Had
BY DEF Had, Present

\* The list a step works on.
LEMMA ListAfterStop ==
    ASSUME sync \in Syncs, Stop
    PROVE  sync'.list = sync.list
BY DEF Syncs, Stop

LEMMA PostAddsBelowTarget ==
    ASSUME FlagsInv, Post
    PROVE  Target!Next \/ UNCHANGED Target!vars
<1> DEFINE flag == sync.list[sync.next]
           new == [content |-> flag.content, type |-> FlagTypeOrDefault(flag.type)]
           k0 == FlagKey(flag)
<1>1. /\ sync \in Syncs /\ sync.pc = "sync" /\ sync.next <= Len(sync.list) /\ Pooled(k0) = {}
      /\ TypeOK /\ IdsInOrder /\ spec' = spec /\ disturbed' = disturbed
  BY DEF FlagsInv, TypeOK, Post
<1>2. flag \in SpecFlags
  BY <1>1, ListType DEF TypeOK, Syncs
<1>3. new \in CTFdFlags /\ FlagKey(new) = k0 /\ k0 \in Keys
  BY <1>1, <1>2, PostedType, DoneBelowWanted
<1>4. sync'.list = sync.list
  <2>1. ASSUME sync' = [sync EXCEPT !.next = @ + 1] PROVE sync'.list = sync.list
    BY <1>1, <2>1 DEF Syncs
  <2> QED
    BY <1>1, <2>1, ListAfterStop DEF Post
<1>5. UNCHANGED flags \/ Posted(new)
  BY DEF Post, Posted
<1>6. CASE UNCHANGED flags
  BY <1>1, <1>4, <1>6, SameFlags DEF Target!vars
<1>7. CASE Posted(new)
  <2> HIDE DEF new
  <2>1. Had' = [Had EXCEPT ![k0] = @ + 1]
    BY <1>1, <1>3, <1>7, PostIsAdd
  <2>2. Had[k0] < Wanted(sync.list)[k0] \/ disturbed
    <3> SUFFICES ASSUME ~disturbed PROVE Had[k0] < Wanted(sync.list)[k0]
      OBVIOUS
    <3>1. Cardinality(HadIds(k0)) = Cardinality(PooledIds(k0)) + Cardinality(DoneAt(k0))
      BY <1>1, <1>3 DEF FlagsInv, Tracked, Accounted
    <3>2. PooledIds(k0) = {}
      BY <1>1 DEF PooledIds, Pooled
    <3>3. Cardinality(PooledIds(k0)) = 0
      BY <3>2, FS_EmptySet
    <3>4. Cardinality(DoneAt(k0)) < Cardinality(WantedAt(sync.list, k0))
      BY <1>1, DoneBelowWanted
    <3>5. Cardinality(HadIds(k0)) < Cardinality(WantedAt(sync.list, k0))
      BY <1>1, <1>3, <3>1, <3>3, <3>4, CountTypes
    <3> QED
      BY <1>3, <3>5, Counts
  <2>3. Target!Add(k0)
    BY <1>1, <1>4, <2>1, <2>2 DEF Target!Add
  <2> QED
    BY <1>3, <2>3 DEF Target!Next
<1> QED
  BY <1>5, <1>6, <1>7

LEMMA DeleteRemovesAboveTarget ==
    ASSUME FlagsInv, Delete
    PROVE  Target!Next \/ UNCHANGED Target!vars
<1>1. /\ sync \in Syncs /\ sync.pc = "sync" /\ sync.next > Len(sync.list)
      /\ TypeOK /\ InPlace /\ spec' = spec /\ disturbed' = disturbed
  BY DEF FlagsInv, TypeOK, Delete
<1>2. PICK entry \in sync.pool :
         /\ UNCHANGED flags \/ flags' = [flags EXCEPT ![entry[1]] = NoFlag]
         /\ Stop \/ sync' = [sync EXCEPT !.pool = @ \ {entry}]
  BY DEF Delete
<1>3. sync'.list = sync.list
  <2>1. ASSUME sync' = [sync EXCEPT !.pool = @ \ {entry}] PROVE sync'.list = sync.list
    BY <1>1, <2>1 DEF Syncs
  <2> QED
    BY <1>1, <1>2, <2>1, ListAfterStop
<1>4. PICK id0 \in Ids, k0 \in Keys : entry = <<id0, k0>>
  BY <1>1 DEF Syncs, Entries
<1>5. CASE UNCHANGED flags
  BY <1>1, <1>3, <1>5, SameFlags DEF Target!vars
<1>6. CASE flags' = [flags EXCEPT ![entry[1]] = NoFlag] /\ entry[1] \notin Present
  <2>1. flags' = flags
    BY <1>1, <1>4, <1>6 DEF Present, TypeOK
  <2> QED
    BY <1>5, <2>1
<1>7. CASE Deleted(id0)
  <2> DEFINE k == FlagKey(flags[id0])
  <2>1. id0 \in HadIds(k) /\ k \in Keys
    <3>1. flags[id0] \in CTFdFlags
      BY <1>1, <1>4, <1>7 DEF Deleted, Present, TypeOK
    <3> QED
      BY <1>7, <3>1, FlagKeyType DEF Deleted, HadIds
  <2> HIDE DEF k
  <2>2. Had' = [Had EXCEPT ![k] = @ - 1]
    BY <1>1, <1>7, DeleteIsRemove DEF k
  <2>3. ASSUME ~disturbed
        PROVE  Had[k] > Wanted(sync.list)[k] /\ \A o \in Keys : Had[o] >= Wanted(sync.list)[o]
    <3>1. PoolListed /\ Accounted
      BY <1>1, <2>3 DEF FlagsInv, Tracked
    <3>2. \A o \in Keys : Cardinality(HadIds(o)) = Cardinality(PooledIds(o)) + Cardinality(WantedAt(sync.list, o))
      BY <1>1, <3>1, DoneAtEnd DEF Accounted
    <3>3. sync.list \in SpecLists
      BY <1>1 DEF Syncs
    <3>4. \A o \in Keys : Cardinality(HadIds(o)) >= Cardinality(WantedAt(sync.list, o))
      BY <1>1, <3>2, <3>3, CountTypes
    <3>5. k0 = k
      BY <1>2, <1>4, <3>1 DEF PoolListed, HadIds, k
    <3>6. PooledIds(k) # {}
      BY <1>2, <1>4, <3>5 DEF PooledIds
    <3>7. Cardinality(PooledIds(k)) # 0
      BY <1>1, <2>1, <3>6, CountTypes, FS_EmptySet
    <3>8. Cardinality(HadIds(k)) > Cardinality(WantedAt(sync.list, k))
      BY <1>1, <2>1, <3>2, <3>3, <3>7, CountTypes
    <3> QED
      BY <2>1, <3>4, <3>8, Counts
  <2>4. Target!Remove(k)
    BY <1>1, <1>3, <2>2, <2>3 DEF Target!Remove
  <2> QED
    BY <2>1, <2>4 DEF Target!Next
<1> QED
  BY <1>2, <1>4, <1>5, <1>6, <1>7 DEF Deleted

LEMMA FlagsRefineStep ==
    ASSUME FlagsInv, FlagsInv', [Next]_vars
    PROVE  Target!Next \/ UNCHANGED Target!vars
<1>1. /\ sync \in Syncs /\ TypeOK /\ TypeOK' /\ spec \in SpecLists /\ spec' \in SpecLists
  BY DEF FlagsInv, TypeOK
<1>2. CASE BeginOutOfDate \/ BeginAnyway
  <2>1. sync'.list = spec /\ spec' = spec /\ disturbed' = disturbed /\ Had' = Had
    BY <1>1, <1>2, SameFlags DEF BeginOutOfDate, BeginAnyway, Begin, Syncs
  <2>2. Target!Aim
    BY <2>1 DEF Target!Aim
  <2> QED
    BY <2>2 DEF Target!Next
<1>3. CASE List
  <2>1. spec' = spec /\ Had' = Had
    BY <1>3, SameFlags DEF List
  <2>2. sync'.list = sync.list
    <3>1. ASSUME NEW pool, sync' = [sync EXCEPT !.pc = "sync", !.pool = pool]
          PROVE  sync'.list = sync.list
      BY <1>1, <3>1 DEF Syncs
    <3> QED
      BY <1>1, <1>3, <3>1, ListAfterStop DEF List
  <2>3. disturbed' = FALSE \/ disturbed' = disturbed
    BY <1>3 DEF List
  <2> QED
    BY <2>1, <2>2, <2>3 DEF Target!Next, Target!Look, Target!vars
<1>4. CASE Keep
  <2>1. spec' = spec /\ Had' = Had /\ disturbed' = disturbed
    BY <1>4, SameFlags DEF Keep
  <2>2. sync'.list = sync.list
    BY <1>1, <1>4 DEF Keep, Syncs
  <2> QED
    BY <2>1, <2>2 DEF Target!vars
<1>5. CASE Succeed \/ Crash
  <2>1. spec' = spec /\ Had' = Had /\ disturbed' = disturbed /\ sync'.list = sync.list
    BY <1>1, <1>5, SameFlags, ListAfterStop DEF Succeed, Crash
  <2> QED
    BY <2>1 DEF Target!vars
<1>6. CASE EditSpec
  <2>1. sync' = sync /\ Had' = Had /\ disturbed' = disturbed
    BY <1>6, SameFlags DEF EditSpec
  <2>2. Wanted(spec') \in [Keys -> Nat]
    BY <1>1, CountsType
  <2>3. Wanted(spec)' = Wanted(spec')
    BY DEF Wanted
  <2>4. Target!Edit
    BY <2>1, <2>2, <2>3 DEF Target!Edit, Target!Counts
  <2> QED
    BY <2>4 DEF Target!Next
<1>7. CASE AdminActs
  <2>1. sync' = sync /\ spec' = spec /\ disturbed' = TRUE
    BY <1>7 DEF AdminActs
  <2>2. Had' \in [Keys -> Nat]
    <3>1. \A k \in Keys : Cardinality(HadIds(k))' \in Nat
      <4>1. \A k : HadIds(k)' \subseteq Ids
        BY DEF HadIds, Present, Ids
      <4> QED
        BY <4>1, FiniteIds
    <3>2. Had' = [k \in Keys |-> Cardinality(HadIds(k))']
      BY DEF Had, HadIds
    <3> QED
      BY <3>1, <3>2
  <2>3. Target!Interfere
    BY <2>1, <2>2 DEF Target!Interfere, Target!Counts
  <2> QED
    BY <2>3 DEF Target!Next
<1>8. CASE UNCHANGED vars
  BY <1>8, SameFlags DEF vars, Target!vars
<1> QED
  BY <1>2, <1>3, <1>4, <1>5, <1>6, <1>7, <1>8, PostAddsBelowTarget, DeleteRemovesAboveTarget
     DEF Next, Provider

LEMMA FlagsRefineInit ==
    ASSUME Init
    PROVE  Target!Init
<1>1. TypeOK /\ sync.list = spec /\ spec \in SpecLists /\ disturbed = FALSE
  BY InitialType DEF Init
<1>2. Wanted(spec) \in [Keys -> Nat]
  BY <1>1, CountsType
<1>3. Present = {}
  BY DEF Init, Present
<1>4. Had = [k \in Keys |-> 0]
  BY <1>3, FS_EmptySet DEF Had
<1> QED
  BY <1>1, <1>2, <1>4 DEF Target!Init, Target!Counts

(***************************************************************************)
(* The calls of syncFlags implement the bag that approaches its target:    *)
(* for every list, failure, lost reply, crash and edit, no call adds a     *)
(* flag beyond the list or removes one before everything listed is there,  *)
(* unless an administrator has acted since the listing.                    *)
(***************************************************************************)
THEOREM FlagsRefineTargetBag == Spec => RefinesTargetBag
<1>1. Init => FlagsInv
  BY FlagsInitially
<1>2. FlagsInv /\ [Next]_vars => FlagsInv'
  BY FlagsStep
<1>3. Init => Target!Init
  BY FlagsRefineInit
<1>4. FlagsInv /\ FlagsInv' /\ [Next]_vars => [Target!Next]_Target!vars
  BY FlagsRefineStep
<1> QED
  BY <1>1, <1>2, <1>3, <1>4, PTL DEF Spec, RefinesTargetBag, Target!Spec
=============================================================================
