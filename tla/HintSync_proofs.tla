--------------------------- MODULE HintSync_proofs ---------------------------
(***************************************************************************)
(* Proofs about HintSync, for every set of hint values and of lists, every *)
(* number of hints and every bound.                                        *)
(***************************************************************************)
EXTENDS HintSync, FiniteSetTheorems, FunctionTheorems, TLAPS

(***************************************************************************)
(* Finite sets of numbers: how many of a set are below one of its members. *)
(***************************************************************************)
Below(S, x) == {o \in S : o < x}

LEMMA FiniteInterval ==
    ASSUME NEW n \in Nat, NEW S, S \subseteq 1..n
    PROVE  IsFiniteSet(S) /\ Cardinality(S) \in Nat /\ S \subseteq Nat
<1>1. IsFiniteSet(1..n)
  BY FS_Interval
<1>2. IsFiniteSet(S)
  BY <1>1, FS_Subset
<1> QED
  BY <1>2, FS_CardinalityType

LEMMA BelowType ==
    ASSUME NEW S, IsFiniteSet(S), S \subseteq Nat, NEW x \in S
    PROVE  Cardinality(Below(S, x)) \in 0..Cardinality(S) - 1 /\ IsFiniteSet(Below(S, x))
<1>1. Below(S, x) \subseteq S \ {x}
  BY DEF Below
<1>2. IsFiniteSet(S \ {x}) /\ Cardinality(S \ {x}) = Cardinality(S) - 1
  BY FS_RemoveElement
<1>3. IsFiniteSet(Below(S, x)) /\ Cardinality(Below(S, x)) <= Cardinality(S \ {x})
  BY <1>1, <1>2, FS_Subset
<1> QED
  BY <1>2, <1>3, FS_CardinalityType

LEMMA BelowGrows ==
    ASSUME NEW S, IsFiniteSet(S), S \subseteq Nat, NEW x \in S, NEW y \in S
    PROVE  x < y <=> Cardinality(Below(S, x)) < Cardinality(Below(S, y))
<1>1. ASSUME NEW a \in S, NEW b \in S, a < b
      PROVE  Cardinality(Below(S, a)) < Cardinality(Below(S, b))
  <2>0. (\A o \in S : o < a => o < b) /\ ~(a < a)
    BY <1>1
  <2>1. Below(S, a) \subseteq Below(S, b) /\ a \in Below(S, b) /\ a \notin Below(S, a)
    BY <1>1, <2>0, Zenon DEF Below
  <2>2. /\ IsFiniteSet(Below(S, a)) /\ IsFiniteSet(Below(S, b))
        /\ Cardinality(Below(S, a)) \in Nat /\ Cardinality(Below(S, b)) \in Nat
    BY BelowType, FS_CardinalityType
  <2>3. /\ Cardinality(Below(S, a)) <= Cardinality(Below(S, b))
        /\ Cardinality(Below(S, a)) # Cardinality(Below(S, b))
    BY <2>1, <2>2, FS_Subset
  <2> QED
    BY <2>2, <2>3
<1>2. x < y => Cardinality(Below(S, x)) < Cardinality(Below(S, y))
  BY <1>1
<1>3. y < x => Cardinality(Below(S, y)) < Cardinality(Below(S, x))
  BY <1>1
<1>4. Cardinality(Below(S, x)) \in Nat /\ Cardinality(Below(S, y)) \in Nat /\ x \in Nat /\ y \in Nat
  BY BelowType, FS_CardinalityType
<1> QED
  BY <1>2, <1>3, <1>4

\* Every rank is taken: numbering the members from below is one to one, and
\* there are as many members as numbers.
LEMMA RankTaken ==
    ASSUME NEW S, IsFiniteSet(S), S \subseteq Nat, NEW n \in 0..Cardinality(S) - 1
    PROVE  \E x \in S : Cardinality(Below(S, x)) = n
<1> DEFINE Ranks == 0..Cardinality(S) - 1
           rank == [x \in S |-> Cardinality(Below(S, x))]
<1>1. Cardinality(S) \in Nat
  BY FS_CardinalityType
<1>2. rank \in [S -> Ranks]
  BY BelowType
<1>3. \A x, y \in S : rank[x] = rank[y] => x = y
  <2> SUFFICES ASSUME NEW x \in S, NEW y \in S, rank[x] = rank[y] PROVE x = y
    OBVIOUS
  <2>1. /\ x < y <=> Cardinality(Below(S, x)) < Cardinality(Below(S, y))
        /\ y < x <=> Cardinality(Below(S, y)) < Cardinality(Below(S, x))
    BY BelowGrows
  <2>2. Cardinality(Below(S, x)) = Cardinality(Below(S, y)) /\ Cardinality(Below(S, x)) \in Nat
    BY BelowType, FS_CardinalityType
  <2> QED
    BY <2>1, <2>2
<1>4. IsFiniteSet(Ranks) /\ Cardinality(Ranks) = Cardinality(S)
  BY <1>1, FS_Interval
<1> HIDE DEF Ranks
<1>5. rank \in Injection(S, Ranks)
  BY <1>2, <1>3, Fun_IsInj
<1>6. rank \in Surjection(S, Ranks)
  BY <1>4, <1>5, FS_Injection
<1>7. \A t \in Ranks : \E x \in S : rank[x] = t
  BY <1>6 DEF Surjection
<1> QED
  BY <1>7 DEF Ranks

LEMMA FirstIsLeast ==
    ASSUME NEW S, IsFiniteSet(S), S \subseteq Nat, S # {}
    PROVE  First(S) \in S /\ \A j \in S : First(S) <= j
<1>1. Cardinality(S) \in Nat /\ Cardinality(S) # 0
  BY FS_CardinalityType, FS_EmptySet
<1>2. 0 \in 0..Cardinality(S) - 1
  BY <1>1
<1>3. PICK x \in S : Cardinality(Below(S, x)) = 0
  BY <1>2, RankTaken
<1>4. Below(S, x) = {}
  BY <1>3, BelowType, FS_EmptySet
<1>5. \A j \in S : x <= j
  BY <1>4 DEF Below
<1> QED
  BY <1>5 DEF First

----------------------------------------------------------------------------
(***************************************************************************)
(* planHints: the n-th hint of a value goes to the n-th in CTFd.           *)
(***************************************************************************)
PartialHints == UNION {[S -> CTFdHints] : S \in SUBSET Ids}

EarlierIn(list, i) == {j \in DOMAIN list : j < i /\ list[j].key = list[i].key}
EqualIn(list, hs, i) == {id \in DOMAIN hs : hs[id].key = list[i].key}
MatchesIn(list, hs, i) ==
    {id \in EqualIn(list, hs, i) :
        Cardinality(Below(EqualIn(list, hs, i), id)) = Cardinality(EarlierIn(list, i))}

LEMMA ListType ==
    ASSUME NEW list \in SpecLists
    PROVE  /\ Len(list) \in Nat /\ DOMAIN list = 1..Len(list)
           /\ \A i \in DOMAIN list : list[i] \in SpecHints
<1>1. list \in Seq(SpecHints)
  BY ConstantsAssumption
<1> QED
  BY <1>1

LEMMA IdsType == /\ Ids \subseteq Nat \ {0} /\ NoId \notin Ids /\ MaxId \in Nat
                 /\ \A S : S \subseteq Ids => IsFiniteSet(S) /\ Cardinality(S) \in Nat /\ S \subseteq Nat
<1>1. MaxId \in Nat
  BY ConstantsAssumption
<1>2. \A S : S \subseteq Ids => IsFiniteSet(S) /\ Cardinality(S) \in Nat /\ S \subseteq Nat
  BY <1>1, FiniteInterval DEF Ids
<1> QED
  BY <1>1, <1>2 DEF Ids, NoId

LEMMA PlaceSets ==
    ASSUME NEW list \in SpecLists, NEW hs, DOMAIN hs \subseteq Ids, NEW i \in DOMAIN list
    PROVE  /\ IsFiniteSet(EarlierIn(list, i)) /\ Cardinality(EarlierIn(list, i)) \in Nat
           /\ EarlierIn(list, i) \subseteq Nat
           /\ IsFiniteSet(EqualIn(list, hs, i)) /\ Cardinality(EqualIn(list, hs, i)) \in Nat
           /\ EqualIn(list, hs, i) \subseteq Nat /\ EqualIn(list, hs, i) \subseteq Ids
<1>1. EarlierIn(list, i) \subseteq 1..Len(list) /\ Len(list) \in Nat
  BY ListType DEF EarlierIn
<1>2. EqualIn(list, hs, i) \subseteq Ids
  BY DEF EqualIn
<1> QED
  BY <1>1, <1>2, FiniteInterval, IdsType

LEMMA IdByIndexIs ==
    ASSUME NEW list, NEW hs
    PROVE  IdByIndex(list, hs) = [i \in DOMAIN list |->
               IF MatchesIn(list, hs, i) = {} THEN NoId
               ELSE CHOOSE id \in MatchesIn(list, hs, i) : TRUE]
BY DEF IdByIndex, MatchesIn, EqualIn, EarlierIn, Below

\* A hint has no ID only if CTFd has too few of its value.
LEMMA Matched ==
    ASSUME NEW list \in SpecLists, NEW hs, DOMAIN hs \subseteq Ids, NEW i \in DOMAIN list
    PROVE  LET id == IdByIndex(list, hs)[i] IN
           \/ /\ id = NoId
              /\ Cardinality(EarlierIn(list, i)) >= Cardinality(EqualIn(list, hs, i))
           \/ /\ id \in EqualIn(list, hs, i)
              /\ Cardinality(Below(EqualIn(list, hs, i), id)) = Cardinality(EarlierIn(list, i))
<1> DEFINE M == MatchesIn(list, hs, i)
<1>1. CASE M = {}
  <2>1. IdByIndex(list, hs)[i] = NoId
    BY <1>1, IdByIndexIs
  <2>2. ~(Cardinality(EarlierIn(list, i)) < Cardinality(EqualIn(list, hs, i)))
    <3> SUFFICES ASSUME Cardinality(EarlierIn(list, i)) < Cardinality(EqualIn(list, hs, i))
                 PROVE  FALSE
      OBVIOUS
    <3>1. Cardinality(EarlierIn(list, i)) \in 0..Cardinality(EqualIn(list, hs, i)) - 1
      BY PlaceSets
    <3>2. \E x \in EqualIn(list, hs, i) :
             Cardinality(Below(EqualIn(list, hs, i), x)) = Cardinality(EarlierIn(list, i))
      BY <3>1, PlaceSets, RankTaken
    <3> QED
      BY <1>1, <3>2 DEF MatchesIn
  <2> QED
    BY <2>1, <2>2, PlaceSets
<1>2. CASE M # {}
  <2>1. IdByIndex(list, hs)[i] \in M
    BY <1>2, IdByIndexIs
  <2> QED
    BY <2>1 DEF MatchesIn
<1> QED
  BY <1>1, <1>2

LEMMA MatchIs ==
    ASSUME NEW list \in SpecLists, NEW hs, DOMAIN hs \subseteq Ids, NEW i \in DOMAIN list,
           NEW id \in EqualIn(list, hs, i),
           Cardinality(Below(EqualIn(list, hs, i), id)) = Cardinality(EarlierIn(list, i))
    PROVE  IdByIndex(list, hs)[i] = id
<1> DEFINE M == MatchesIn(list, hs, i)
<1>1. id \in M
  BY DEF MatchesIn
<1>2. IdByIndex(list, hs)[i] \in M
  BY <1>1, IdByIndexIs
<1>3. \A x, y \in M : ~(x < y)
  <2> SUFFICES ASSUME NEW x \in M, NEW y \in M, x < y PROVE FALSE
    OBVIOUS
  <2>1. /\ x \in EqualIn(list, hs, i) /\ y \in EqualIn(list, hs, i)
        /\ Cardinality(Below(EqualIn(list, hs, i), x)) = Cardinality(EarlierIn(list, i))
        /\ Cardinality(Below(EqualIn(list, hs, i), y)) = Cardinality(EarlierIn(list, i))
    BY DEF MatchesIn
  <2>2. Cardinality(Below(EqualIn(list, hs, i), x)) < Cardinality(Below(EqualIn(list, hs, i), y))
    BY <2>1, PlaceSets, BelowGrows
  <2> QED
    BY <2>1, <2>2, PlaceSets
<1>4. M \subseteq Nat
  BY PlaceSets DEF MatchesIn
<1> QED
  BY <1>1, <1>2, <1>3, <1>4

LEMMA EarlierGrows ==
    ASSUME NEW list \in SpecLists, NEW i \in DOMAIN list, NEW j \in DOMAIN list,
           i < j, list[i].key = list[j].key
    PROVE  Cardinality(EarlierIn(list, i)) < Cardinality(EarlierIn(list, j))
<1>0. \A a \in DOMAIN list : a \in Nat
  BY ListType
<1>1. \A a \in DOMAIN list : (a < i => a < j) /\ ~(i < i)
  BY <1>0
<1>2. /\ EarlierIn(list, i) \subseteq EarlierIn(list, j)
      /\ i \in EarlierIn(list, j) /\ i \notin EarlierIn(list, i)
  BY <1>1, Zenon DEF EarlierIn
<1>3. /\ IsFiniteSet(EarlierIn(list, j)) /\ Cardinality(EarlierIn(list, j)) \in Nat
      /\ Cardinality(EarlierIn(list, i)) \in Nat
  BY PlaceSets, DOMAIN [x \in {} |-> x] = {}
<1>4. /\ Cardinality(EarlierIn(list, i)) <= Cardinality(EarlierIn(list, j))
      /\ Cardinality(EarlierIn(list, i)) # Cardinality(EarlierIn(list, j))
  BY <1>2, <1>3, FS_Subset
<1> QED
  BY <1>3, <1>4

\* Hints of one value get their IDs in the order of the list.
Ordered(list, ids) ==
    \A i, j \in DOMAIN list : i < j /\ list[i].key = list[j].key /\ ids[j] # NoId =>
        ids[i] # NoId /\ ids[i] < ids[j]

LEMMA PlanOrdered ==
    ASSUME NEW list \in SpecLists, NEW hs, DOMAIN hs \subseteq Ids
    PROVE  Ordered(list, IdByIndex(list, hs))
<1> DEFINE ids == IdByIndex(list, hs)
<1> SUFFICES ASSUME NEW i \in DOMAIN list, NEW j \in DOMAIN list,
                    i < j, list[i].key = list[j].key, ids[j] # NoId
             PROVE  ids[i] # NoId /\ ids[i] < ids[j]
  BY DEF Ordered
<1> DEFINE E == EqualIn(list, hs, i)
<1>1. EqualIn(list, hs, j) = E
  BY DEF EqualIn
<1>2. Cardinality(EarlierIn(list, i)) < Cardinality(EarlierIn(list, j))
  BY EarlierGrows
<1>3. ids[j] \in E /\ Cardinality(Below(E, ids[j])) = Cardinality(EarlierIn(list, j))
  BY <1>1, Matched
<1>4. /\ IsFiniteSet(E) /\ Cardinality(E) \in Nat /\ E \subseteq Nat /\ E \subseteq Ids
      /\ Cardinality(EarlierIn(list, i)) \in Nat /\ Cardinality(EarlierIn(list, j)) \in Nat
  BY PlaceSets
<1>5. Cardinality(Below(E, ids[j])) \in 0..Cardinality(E) - 1
  BY <1>3, <1>4, BelowType
<1>6. ids[i] \in E /\ Cardinality(Below(E, ids[i])) = Cardinality(EarlierIn(list, i))
  <2>1. \/ Cardinality(EarlierIn(list, i)) >= Cardinality(E)
        \/ ids[i] \in E /\ Cardinality(Below(E, ids[i])) = Cardinality(EarlierIn(list, i))
    BY Matched
  <2> QED
    BY <1>2, <1>3, <1>4, <1>5, <2>1
<1> HIDE DEF E, ids
<1>7. ids[i] < ids[j]
  BY <1>2, <1>3, <1>4, <1>6, BelowGrows
<1> QED
  BY <1>4, <1>6, <1>7, IdsType

\* A value of which a hint has no ID has none to spare.
LEMMA PlanSpare ==
    ASSUME NEW list \in SpecLists, NEW hs, DOMAIN hs \subseteq Ids, NEW i \in DOMAIN list,
           IdByIndex(list, hs)[i] = NoId, NEW id \in EqualIn(list, hs, i)
    PROVE  \E j \in DOMAIN list : IdByIndex(list, hs)[j] = id
<1> DEFINE E == EqualIn(list, hs, i)
           B == EarlierIn(list, i)
           n == Cardinality(Below(E, id))
<1>1. /\ IsFiniteSet(E) /\ Cardinality(E) \in Nat /\ E \subseteq Nat /\ E \subseteq Ids
      /\ IsFiniteSet(B) /\ Cardinality(B) \in Nat /\ B \subseteq Nat
  BY PlaceSets
<1>2. Cardinality(B) >= Cardinality(E)
  BY <1>1, Matched, IdsType
<1>3. n \in 0..Cardinality(E) - 1
  BY <1>1, BelowType
<1>4. n \in 0..Cardinality(B) - 1
  BY <1>1, <1>2, <1>3
<1> HIDE DEF n
<1>5. PICK j \in B : Cardinality(Below(B, j)) = n
  BY <1>1, <1>4, RankTaken
<1>6. j \in DOMAIN list /\ list[j].key = list[i].key /\ j < i
  BY DEF EarlierIn
<1>7. \A a \in DOMAIN list : a \in Nat
  BY ListType
<1>8. \A a \in DOMAIN list : a < j => a < i
  BY <1>6, <1>7
<1>9. Below(B, j) = EarlierIn(list, j)
  BY <1>6, <1>8, Zenon DEF EarlierIn, Below
<1>10. EqualIn(list, hs, j) = E
  BY <1>6 DEF EqualIn
<1>11. IdByIndex(list, hs)[j] = id
  BY <1>5, <1>6, <1>9, <1>10, MatchIs DEF n
<1> QED
  BY <1>6, <1>11

\* Hints that are just the list's, in order, are matched as they are.
LEMMA PlanAgain ==
    ASSUME NEW list \in SpecLists, NEW hs, DOMAIN hs \subseteq Ids, NEW ids, Ordered(list, ids),
           \A i \in DOMAIN list : ids[i] \in DOMAIN hs /\ hs[ids[i]].key = list[i].key,
           \A id \in DOMAIN hs : \E i \in DOMAIN list : ids[i] = id,
           NEW i \in DOMAIN list
    PROVE  IdByIndex(list, hs)[i] = ids[i]
<1> DEFINE E == EqualIn(list, hs, i)
           B == EarlierIn(list, i)
           f == [j \in B |-> ids[j]]
<1>1. /\ IsFiniteSet(E) /\ E \subseteq Nat /\ IsFiniteSet(B)
  BY PlaceSets
<1>2. ids[i] \in E
  BY DEF EqualIn
<1>3. \A j \in DOMAIN list : j \in Nat /\ ids[j] \in Nat /\ ids[j] # NoId
  <2>1. \A j \in DOMAIN list : j \in Nat
    BY ListType
  <2>2. \A j \in DOMAIN list : ids[j] \in Ids
    OBVIOUS
  <2> QED
    BY <2>1, <2>2, IdsType
<1>4. \A a, b \in DOMAIN list : a < b /\ list[a].key = list[b].key => ids[a] < ids[b]
  BY <1>3 DEF Ordered
<1>5. \A a, b \in DOMAIN list : list[a].key = list[b].key /\ ids[a] = ids[b] => a = b
  BY <1>3, <1>4
<1>6. f \in [B -> Below(E, ids[i])]
  BY <1>4 DEF EarlierIn, EqualIn, Below
<1>7. \A a, b \in B : f[a] = f[b] => a = b
  BY <1>5 DEF EarlierIn
<1>8. \A id \in Below(E, ids[i]) : \E a \in B : f[a] = id
  <2> SUFFICES ASSUME NEW id \in Below(E, ids[i]) PROVE \E a \in B : f[a] = id
    OBVIOUS
  <2>1. id \in DOMAIN hs /\ hs[id].key = list[i].key /\ id < ids[i]
    BY DEF Below, EqualIn
  <2>2. PICK a \in DOMAIN list : ids[a] = id
    BY <2>1
  <2>3. list[a].key = list[i].key
    BY <2>1, <2>2
  <2>4. a < i
    BY <1>3, <1>4, <2>1, <2>2, <2>3
  <2> QED
    BY <2>2, <2>3, <2>4 DEF EarlierIn
<1> HIDE DEF f
<1>9. f \in Bijection(B, Below(E, ids[i]))
  BY <1>6, <1>7, <1>8, Fun_IsBij
<1>10. ExistsBijection(B, Below(E, ids[i]))
  BY <1>9 DEF ExistsBijection
<1>11. Cardinality(Below(E, ids[i])) = Cardinality(B)
  BY <1>1, <1>10, FS_Bijection
<1> QED
  BY <1>2, <1>11, MatchIs

----------------------------------------------------------------------------
(***************************************************************************)
(* The inductive invariant.                                                *)
(***************************************************************************)
Syncs == [pc: {"idle", "list", "fetch", "create", "wire", "delete"}, list: SpecLists,
          fetch: SUBSET Ids, seen: PartialHints, idByIndex: Seq(Ids \cup {NoId}),
          next: Nat \ {0}, deletes: SUBSET Ids]

Planned == sync.pc \in {"create", "wire", "delete"}

\* What a sync has, wherever it is.
InPlace ==
    /\ sync.pc # "idle" => Valid(sync.list)
    /\ sync.pc \in {"idle", "list"} => DOMAIN sync.seen = {}
    /\ Planned => DOMAIN sync.idByIndex = DOMAIN sync.list
    /\ sync.pc \in {"wire", "delete"} => Missing = {}
    /\ sync.pc \notin {"wire", "delete"} => sync.next = 1

HintsTyped == TypeOK /\ sync \in Syncs /\ InPlace

\* No ID is used before CTFd hands it out.
IdsInOrder == \A id \in Ids : id >= nextId => hints[id] = NoHint /\ id \notin DOMAIN sync.seen

\* While no administrator has acted since the listing: what was fetched is what
\* is there,
Fetched ==
    sync.pc = "fetch" =>
        /\ Present = DOMAIN sync.seen \cup sync.fetch
        /\ \A id \in DOMAIN sync.seen : hints[id] = sync.seen[id]

\* every hint in CTFd is that of one on the list, or is to be deleted,
Assigned ==
    Planned =>
        /\ Ordered(sync.list, sync.idByIndex)
        /\ \A i \in DOMAIN sync.list : sync.idByIndex[i] # NoId =>
              sync.idByIndex[i] \in Present /\ hints[sync.idByIndex[i]].key = sync.list[i].key
        /\ sync.deletes = Present \ Used(sync.idByIndex)
        /\ \A i \in DOMAIN sync.list : sync.idByIndex[i] = NoId =>
              \A id \in sync.deletes : hints[id].key # sync.list[i].key

\* and it is as it was listed, or as the list wants it.
AsListed(i) ==
    LET id == sync.idByIndex[i] IN
    /\ hints[id].requires = PrereqsOf(sync.seen, id)
    /\ hints[id].anonymize = AnonymizeOf(sync.seen, id)
    /\ i < sync.next => AsRequired(sync.list, sync.seen, sync.idByIndex, i)

WiredSoFar ==
    Planned => \A i \in DOMAIN sync.list : sync.idByIndex[i] # NoId =>
        AsListed(i) \/ (i < sync.next /\ hints[sync.idByIndex[i]] = Wiring(i))

Tracked == ~disturbed => Fetched /\ Assigned /\ WiredSoFar

HintsInv == HintsTyped /\ IdsInOrder /\ Tracked

(***************************************************************************)
(* Types.                                                                  *)
(***************************************************************************)
Bounds == {"fault", "edit", "admin"}

LEMMA FaultType ==
    ASSUME budget \in [Bounds -> Nat], NEW c, Fault(c)
    PROVE  budget' \in [Bounds -> Nat]
BY DEF Fault, Spend, Bounds

LEMMA PartialHintsType ==
    /\ \A f \in PartialHints : /\ DOMAIN f \subseteq Ids /\ f = [id \in DOMAIN f |-> f[id]]
                               /\ \A id \in DOMAIN f : f[id] \in CTFdHints
    /\ \A S \in SUBSET Ids : \A f \in [S -> CTFdHints] : f \in PartialHints
BY DEF PartialHints

LEMMA SyncType ==
    ASSUME sync \in Syncs
    PROVE  /\ sync.list \in SpecLists /\ sync.fetch \subseteq Ids /\ sync.deletes \subseteq Ids
           /\ sync.seen \in PartialHints /\ DOMAIN sync.seen \subseteq Ids
           /\ \A id \in DOMAIN sync.seen : sync.seen[id] \in CTFdHints
           /\ sync.idByIndex \in Seq(Ids \cup {NoId}) /\ sync.next \in Nat \ {0}
           /\ sync.pc \in {"idle", "list", "fetch", "create", "wire", "delete"}
BY PartialHintsType DEF Syncs

LEMMA NoSyncType ==
    ASSUME NEW list \in SpecLists
    PROVE  /\ NoSync(list) \in Syncs /\ NoSync(list).pc = "idle" /\ NoSync(list).list = list
           /\ DOMAIN NoSync(list).seen = {} /\ NoSync(list).next = 1
<1>1. [id \in {} |-> NoHint] \in PartialHints
  <2>1. [id \in {} |-> NoHint] \in [{} -> CTFdHints]
    OBVIOUS
  <2> QED
    BY <2>1, PartialHintsType
<1>2. <<>> \in Seq(Ids \cup {NoId}) /\ {} \in SUBSET Ids /\ 1 \in Nat \ {0}
  OBVIOUS
<1> QED
  BY <1>1, <1>2 DEF NoSync, Syncs

\* A hint without an ID, and one to wire, are on the list.
LEMMA FirstOfList ==
    ASSUME sync \in Syncs, NEW S, S \subseteq DOMAIN sync.list, S # {}
    PROVE  First(S) \in S /\ First(S) \in Nat \ {0} /\ \A j \in S : First(S) <= j
<1>1. S \subseteq 1..Len(sync.list) /\ Len(sync.list) \in Nat
  BY SyncType, ListType
<1>2. IsFiniteSet(S) /\ S \subseteq Nat
  BY <1>1, FiniteInterval
<1>3. First(S) \in S /\ \A j \in S : First(S) <= j
  BY <1>2, FirstIsLeast
<1> QED
  BY <1>1, <1>3

LEMMA PrereqsMapped ==
    ASSUME NEW list \in SpecLists, Valid(list), NEW ids, DOMAIN ids = DOMAIN list,
           NEW i \in DOMAIN list
    PROVE  MapPrereqs(list, ids, i) \subseteq Used(ids)
<1>1. \A p \in list[i].pre : p + 1 \in DOMAIN list
  BY DEF Valid
<1> QED
  BY <1>1 DEF MapPrereqs, Used

LEMMA IdsAssigned ==
    ASSUME HintsTyped, Planned
    PROVE  /\ sync.idByIndex \in [DOMAIN sync.list -> Ids \cup {NoId}]
           /\ Missing = {} => Used(sync.idByIndex) \subseteq Ids
<1>1. sync.idByIndex \in Seq(Ids \cup {NoId}) /\ DOMAIN sync.idByIndex = DOMAIN sync.list
  BY SyncType DEF HintsTyped, InPlace
<1> QED
  BY <1>1 DEF Missing, Used

LEMMA WiringType ==
    ASSUME HintsTyped, Planned, Missing = {}, NEW i \in DOMAIN sync.list
    PROVE  Wiring(i) \in CTFdHints
<1>1. sync.list[i] \in SpecHints /\ sync.list \in SpecLists
  BY SyncType, ListType DEF HintsTyped
<1>2. MapPrereqs(sync.list, sync.idByIndex, i) \subseteq Ids
  <2>1. MapPrereqs(sync.list, sync.idByIndex, i) \subseteq Used(sync.idByIndex)
    BY <1>1, PrereqsMapped DEF HintsTyped, InPlace, Planned
  <2> QED
    BY <2>1, IdsAssigned
<1> QED
  BY <1>1, <1>2 DEF Wiring, CTFdHints, SpecHints

(***************************************************************************)
(* The sync after a step.                                                  *)
(***************************************************************************)
Placed == sync \in Syncs /\ InPlace

LEMMA StopPlaced ==
    ASSUME sync \in Syncs, Stop
    PROVE  Placed' /\ sync'.list = sync.list /\ sync'.pc = "idle" /\ DOMAIN sync'.seen = {}
<1>1. sync' = NoSync(sync.list) /\ sync.list \in SpecLists
  BY SyncType DEF Stop
<1>2. /\ sync' \in Syncs /\ sync'.pc = "idle" /\ sync'.list = sync.list
      /\ DOMAIN sync'.seen = {} /\ sync'.next = 1
  BY <1>1, NoSyncType
<1> QED
  BY <1>2 DEF Placed, InPlace, Planned

LEMMA BeginPlaced ==
    ASSUME HintsTyped, Begin
    PROVE  Placed' /\ sync'.list = spec /\ sync'.pc \in {"idle", "list"} /\ DOMAIN sync'.seen = {}
<1>1. /\ sync' = [NoSync(spec) EXCEPT !.pc = IF Valid(spec) THEN "list" ELSE "idle"]
      /\ spec \in SpecLists
  BY DEF Begin, HintsTyped, TypeOK
<1>2. NoSync(spec) \in Syncs /\ DOMAIN NoSync(spec).seen = {} /\ NoSync(spec).next = 1
      /\ NoSync(spec).list = spec
  BY <1>1, NoSyncType
<1> HIDE DEF NoSync
<1>3. /\ sync' \in Syncs /\ sync'.pc = (IF Valid(spec) THEN "list" ELSE "idle")
      /\ sync'.list = spec /\ sync'.seen = NoSync(spec).seen /\ sync'.next = NoSync(spec).next
  BY <1>1, <1>2 DEF Syncs
<1> QED
  BY <1>2, <1>3 DEF Placed, InPlace, Planned

LEMMA ListPlaced ==
    ASSUME HintsTyped, sync.pc = "list", sync' = [sync EXCEPT !.pc = "fetch", !.fetch = Present]
    PROVE  /\ Placed' /\ sync'.pc = "fetch" /\ sync'.list = sync.list /\ sync'.fetch = Present
           /\ sync'.seen = sync.seen
<1>1. sync \in Syncs /\ Present \in SUBSET Ids
  BY DEF HintsTyped, Present
<1>2. /\ sync' \in Syncs /\ sync'.pc = "fetch" /\ sync'.list = sync.list /\ sync'.fetch = Present
      /\ sync'.seen = sync.seen /\ sync'.next = sync.next
  BY <1>1 DEF Syncs
<1> QED
  BY <1>2 DEF HintsTyped, Placed, InPlace, Planned

LEMMA FetchPlaced ==
    ASSUME HintsTyped, sync.pc = "fetch", NEW id \in Present,
           sync' = [sync EXCEPT !.fetch = @ \ {id},
                      !.seen = [i \in DOMAIN @ \cup {id} |-> IF i = id THEN hints[id] ELSE @[i]]]
    PROVE  /\ Placed' /\ sync'.pc = "fetch" /\ sync'.list = sync.list
           /\ sync'.fetch = sync.fetch \ {id}
           /\ DOMAIN sync'.seen = DOMAIN sync.seen \cup {id}
           /\ \A i \in DOMAIN sync'.seen :
                 sync'.seen[i] = IF i = id THEN hints[id] ELSE sync.seen[i]
<1> DEFINE new == [i \in DOMAIN sync.seen \cup {id} |-> IF i = id THEN hints[id] ELSE sync.seen[i]]
<1>1. id \in Ids /\ hints[id] \in CTFdHints
  BY DEF Present, HintsTyped, TypeOK
<1>2. new \in PartialHints
  <2>1. DOMAIN sync.seen \cup {id} \in SUBSET Ids
    BY <1>1, SyncType DEF HintsTyped
  <2>2. new \in [DOMAIN sync.seen \cup {id} -> CTFdHints]
    BY <1>1, SyncType DEF HintsTyped
  <2> QED
    BY <2>1, <2>2, PartialHintsType
<1>3. sync' = [sync EXCEPT !.fetch = sync.fetch \ {id}, !.seen = new]
  BY SyncType DEF HintsTyped, Syncs
<1>4. DOMAIN new = DOMAIN sync.seen \cup {id}
      /\ \A i \in DOMAIN new : new[i] = IF i = id THEN hints[id] ELSE sync.seen[i]
  OBVIOUS
<1> HIDE DEF new
<1>5. /\ sync' \in Syncs /\ sync'.pc = "fetch" /\ sync'.list = sync.list
      /\ sync'.fetch = sync.fetch \ {id} /\ sync'.seen = new /\ sync'.next = sync.next
  BY <1>2, <1>3 DEF HintsTyped, Syncs
<1>6. Placed'
  BY <1>5 DEF HintsTyped, Placed, InPlace, Planned
<1> QED
  BY <1>4, <1>5, <1>6

LEMMA PlanPlaced ==
    ASSUME HintsTyped, sync.pc = "fetch", NEW ids, ids = IdByIndex(sync.list, sync.seen),
           sync' = [sync EXCEPT !.pc = "create", !.idByIndex = ids,
                                !.deletes = Deletes(ids, sync.seen)]
    PROVE  /\ Placed' /\ sync'.pc = "create" /\ sync'.list = sync.list /\ sync'.idByIndex = ids
           /\ sync'.deletes = Deletes(ids, sync.seen) /\ sync'.seen = sync.seen /\ sync'.next = 1
<1>1. sync \in Syncs /\ sync.list \in SpecLists /\ DOMAIN sync.seen \subseteq Ids /\ sync.next = 1
  BY SyncType DEF HintsTyped, InPlace
<1>2. DOMAIN ids = DOMAIN sync.list /\ ids = [i \in DOMAIN sync.list |-> ids[i]]
  BY IdByIndexIs
<1>3. \A i \in DOMAIN sync.list : ids[i] \in Ids \cup {NoId}
  BY <1>1, Matched, PlaceSets
<1>4. ids \in Seq(Ids \cup {NoId})
  <2>1. DOMAIN sync.list = 1..Len(sync.list) /\ Len(sync.list) \in Nat
    BY <1>1, ListType
  <2>2. ids \in [1..Len(sync.list) -> Ids \cup {NoId}]
    BY <1>2, <1>3, <2>1
  <2> QED
    BY <2>1, <2>2
<1>5. Deletes(ids, sync.seen) \in SUBSET Ids
  BY <1>1 DEF Deletes
<1> HIDE DEF Deletes
<1>6. /\ sync' \in Syncs /\ sync'.pc = "create" /\ sync'.list = sync.list /\ sync'.idByIndex = ids
      /\ sync'.deletes = Deletes(ids, sync.seen) /\ sync'.seen = sync.seen /\ sync'.next = sync.next
  BY <1>1, <1>4, <1>5 DEF Syncs
<1> QED
  BY <1>1, <1>2, <1>6 DEF HintsTyped, Placed, InPlace, Planned

LEMMA CreatePlaced ==
    ASSUME HintsTyped, sync.pc = "create", NEW i \in Missing, nextId <= MaxId,
           sync' = [sync EXCEPT !.idByIndex[i] = nextId]
    PROVE  /\ Placed' /\ sync'.pc = "create" /\ sync'.list = sync.list
           /\ sync'.idByIndex = [sync.idByIndex EXCEPT ![i] = nextId]
           /\ sync'.deletes = sync.deletes /\ sync'.seen = sync.seen /\ sync'.next = 1
<1>1. /\ sync \in Syncs /\ i \in DOMAIN sync.list /\ DOMAIN sync.idByIndex = DOMAIN sync.list
      /\ sync.next = 1 /\ nextId \in Ids
  BY IdsType DEF HintsTyped, TypeOK, InPlace, Planned, Missing, Ids
<1> DEFINE ids == [sync.idByIndex EXCEPT ![i] = nextId]
<1>2. ids \in Seq(Ids \cup {NoId}) /\ DOMAIN ids = DOMAIN sync.idByIndex
  <2>1. sync.idByIndex \in Seq(Ids \cup {NoId})
    BY <1>1, SyncType
  <2> QED
    BY <1>1, <2>1
<1>3. sync' = [sync EXCEPT !.idByIndex = ids]
  BY <1>1 DEF Syncs
<1> HIDE DEF ids
<1>4. /\ sync' \in Syncs /\ sync'.pc = "create" /\ sync'.list = sync.list /\ sync'.idByIndex = ids
      /\ sync'.deletes = sync.deletes /\ sync'.seen = sync.seen /\ sync'.next = sync.next
  BY <1>1, <1>2, <1>3 DEF Syncs
<1>5. Placed'
  BY <1>1, <1>2, <1>4 DEF HintsTyped, Placed, InPlace, Planned
<1> QED
  BY <1>1, <1>4, <1>5 DEF ids

LEMMA WirePlaced ==
    ASSUME HintsTyped, Planned, Missing = {}, NEW i \in Unwired,
           sync' = [sync EXCEPT !.pc = "wire", !.next = i + 1]
    PROVE  /\ Placed' /\ sync'.pc = "wire" /\ sync'.list = sync.list
           /\ sync'.idByIndex = sync.idByIndex /\ sync'.deletes = sync.deletes
           /\ sync'.seen = sync.seen /\ sync'.next = i + 1
<1>1. sync \in Syncs /\ i + 1 \in Nat \ {0}
  BY SyncType, ListType DEF HintsTyped, Unwired
<1>2. /\ sync' \in Syncs /\ sync'.pc = "wire" /\ sync'.list = sync.list
      /\ sync'.idByIndex = sync.idByIndex /\ sync'.deletes = sync.deletes
      /\ sync'.seen = sync.seen /\ sync'.next = i + 1
  BY <1>1 DEF Syncs
<1> QED
  BY <1>2 DEF HintsTyped, Placed, InPlace, Planned, Missing

LEMMA DeletePlaced ==
    ASSUME HintsTyped, Wired, NEW id,
           sync' = [sync EXCEPT !.pc = "delete", !.deletes = @ \ {id}]
    PROVE  /\ Placed' /\ sync'.pc = "delete" /\ sync'.list = sync.list
           /\ sync'.idByIndex = sync.idByIndex /\ sync'.deletes = sync.deletes \ {id}
           /\ sync'.seen = sync.seen /\ sync'.next = sync.next
<1>1. /\ sync' \in Syncs /\ sync'.pc = "delete" /\ sync'.list = sync.list
      /\ sync'.idByIndex = sync.idByIndex /\ sync'.deletes = sync.deletes \ {id}
      /\ sync'.seen = sync.seen /\ sync'.next = sync.next
  BY DEF HintsTyped, Syncs
<1> QED
  BY <1>1 DEF HintsTyped, Placed, InPlace, Planned, Missing, Wired

LEMMA PlacedStep ==
    ASSUME HintsTyped, [Next]_vars
    PROVE  Placed'
<1>0. sync \in Syncs
  BY DEF HintsTyped
<1>1. CASE Stop
  BY <1>0, <1>1, StopPlaced
<1>2. CASE BeginOutOfDate \/ BeginAnyway
  BY <1>2, BeginPlaced DEF BeginOutOfDate, BeginAnyway
<1>3. CASE List
  BY <1>1, <1>3, ListPlaced DEF List, Failed
<1>4. CASE Fetch
  BY <1>1, <1>4, FetchPlaced DEF Fetch, Failed
<1>5. CASE Plan
  BY <1>5, PlanPlaced DEF Plan
<1>6. CASE Create
  <2>1. First(Missing) \in Missing
    BY <1>0, <1>6, FirstOfList DEF Create, Missing
  <2> QED
    BY <1>1, <1>6, <2>1, CreatePlaced DEF Create, Answered, Failed, Lost
<1>7. CASE Wire
  <2>1. First(Unwired) \in Unwired
    BY <1>0, <1>7, FirstOfList DEF Wire, Unwired
  <2>2. Planned /\ Missing = {}
    BY <1>7 DEF Wire, HintsTyped, InPlace, Planned
  <2> QED
    BY <1>1, <1>7, <2>1, <2>2, WirePlaced DEF Wire, Answered, Failed, Lost
<1>8. CASE Delete
  BY <1>1, <1>8, DeletePlaced DEF Delete, Answered, Failed, Lost
<1>9. CASE Succeed \/ Crash
  BY <1>1, <1>9 DEF Succeed, Crash, Failed
<1>10. CASE UNCHANGED sync
  BY <1>10 DEF HintsTyped, Placed, InPlace, Planned, Missing
<1> QED
  BY <1>2, <1>3, <1>4, <1>5, <1>6, <1>7, <1>8, <1>9, <1>10
     DEF Next, Provider, EditSpec, AdminActs, vars

(***************************************************************************)
(* The hints after a step.                                                 *)
(***************************************************************************)
Posted(new) == nextId <= MaxId /\ hints' = [hints EXCEPT ![nextId] = new] /\ nextId' = nextId + 1
Changed(id, new) == hints' = [hints EXCEPT ![id] = new] /\ nextId' = nextId

NewHint(key) == [key |-> key, requires |-> {}, anonymize |-> Unset]

LEMMA NewHintType ==
    ASSUME NEW key \in HintKeys
    PROVE  NewHint(key) \in CTFdHints
BY DEF NewHint, CTFdHints, Anonymize

\* Every step posts a hint, changes or deletes one, or leaves them alone.
LEMMA HintsMove ==
    ASSUME HintsTyped, [Next]_vars
    PROVE  \/ UNCHANGED <<hints, nextId>>
           \/ \E key \in HintKeys : Posted(NewHint(key))
           \/ \E id \in Present, new \in CTFdHints \cup {NoHint} : Changed(id, new)
<1>1. CASE Create
  <2>1. First(Missing) \in DOMAIN sync.list
    BY <1>1, FirstOfList DEF Create, Missing, HintsTyped
  <2>2. sync.list[First(Missing)].key \in HintKeys
    BY <2>1, SyncType, ListType DEF HintsTyped, SpecHints
  <2> QED
    BY <1>1, <2>2 DEF Create, Answered, Failed, Lost, Posted, NewHint
<1>2. CASE Wire
  <2>1. First(Unwired) \in DOMAIN sync.list
    BY <1>2, FirstOfList DEF Wire, Unwired, HintsTyped
  <2>2. Wiring(First(Unwired)) \in CTFdHints
    BY <1>2, <2>1, WiringType DEF Wire, HintsTyped, InPlace, Planned
  <2> QED
    BY <1>2, <2>2 DEF Wire, Answered, Failed, Lost, Changed
<1>3. CASE Delete
  BY <1>3 DEF Delete, Answered, Failed, Lost, Changed
<1>4. CASE AdminActs
  <2>1. \/ \E key \in HintKeys : Posted(NewHint(key))
        \/ \E id \in Present :
              /\ nextId' = nextId
              /\ \/ \E key \in HintKeys : hints' = [hints EXCEPT ![id].key = key]
                 \/ \E others \in SUBSET (Present \ {id}) : hints' = [hints EXCEPT ![id].requires = others]
                 \/ hints' = [hints EXCEPT ![id] = NoHint]
    BY <1>4 DEF AdminActs, Posted, NewHint
  <2>2. SUFFICES ASSUME NEW id \in Present, nextId' = nextId,
                        \/ \E key \in HintKeys : hints' = [hints EXCEPT ![id].key = key]
                        \/ \E others \in SUBSET (Present \ {id}) :
                              hints' = [hints EXCEPT ![id].requires = others]
                        \/ hints' = [hints EXCEPT ![id] = NoHint]
                 PROVE  \E new \in CTFdHints \cup {NoHint} : Changed(id, new)
    BY <2>1
  <2>3. hints[id] \in CTFdHints /\ id \in Ids /\ Present \subseteq Ids
    BY DEF Present, HintsTyped, TypeOK
  <2>4. CASE hints' = [hints EXCEPT ![id] = NoHint]
    BY <2>2, <2>4 DEF Changed
  <2>5. ASSUME NEW key \in HintKeys, hints' = [hints EXCEPT ![id].key = key]
        PROVE  \E new \in CTFdHints \cup {NoHint} : Changed(id, new)
    <3>1. [hints[id] EXCEPT !.key = key] \in CTFdHints
      BY <2>3 DEF CTFdHints
    <3>2. hints' = [hints EXCEPT ![id] = [hints[id] EXCEPT !.key = key]]
      BY <2>3, <2>5
    <3> QED
      BY <2>2, <3>1, <3>2 DEF Changed
  <2>6. ASSUME NEW others \in SUBSET (Present \ {id}), hints' = [hints EXCEPT ![id].requires = others]
        PROVE  \E new \in CTFdHints \cup {NoHint} : Changed(id, new)
    <3>1. [hints[id] EXCEPT !.requires = others] \in CTFdHints
      BY <2>3 DEF CTFdHints
    <3>2. hints' = [hints EXCEPT ![id] = [hints[id] EXCEPT !.requires = others]]
      BY <2>3, <2>6
    <3> QED
      BY <2>2, <3>1, <3>2 DEF Changed
  <2> QED
    BY <2>2, <2>4, <2>5, <2>6
<1>5. CASE List
  BY <1>5 DEF List, Failed
<1>6. CASE Fetch
  BY <1>6 DEF Fetch, Failed
<1> QED
  BY <1>1, <1>2, <1>3, <1>4, <1>5, <1>6
     DEF Next, Provider, BeginOutOfDate, BeginAnyway, Begin, Plan, Succeed, Crash, Failed,
         EditSpec, vars

LEMMA TypeStep ==
    ASSUME HintsTyped, [Next]_vars
    PROVE  HintsTyped'
<1>1. /\ hints \in [Ids -> CTFdHints \cup {NoHint}] /\ nextId \in 1..MaxId + 1 /\ MaxId \in Nat
      /\ Present \subseteq Ids
  BY IdsType DEF HintsTyped, TypeOK, Present
<1>2. hints' \in [Ids -> CTFdHints \cup {NoHint}] /\ nextId' \in 1..MaxId + 1
  <2>1. ASSUME NEW new \in CTFdHints, Posted(new)
        PROVE  hints' \in [Ids -> CTFdHints \cup {NoHint}] /\ nextId' \in 1..MaxId + 1
    <3>1. hints' \in [Ids -> CTFdHints \cup {NoHint}]
      BY <1>1, <2>1 DEF Posted
    <3>2. nextId' \in 1..MaxId + 1
      BY <1>1, <2>1 DEF Posted
    <3> QED
      BY <3>1, <3>2
  <2>2. ASSUME NEW id \in Present, NEW new \in CTFdHints \cup {NoHint}, Changed(id, new)
        PROVE  hints' \in [Ids -> CTFdHints \cup {NoHint}] /\ nextId' \in 1..MaxId + 1
    BY <1>1, <2>2 DEF Changed
  <2> QED
    BY <1>1, <2>1, <2>2, HintsMove, NewHintType
<1>3. spec' \in SpecLists
  <2>1. spec \in SpecLists
    BY DEF HintsTyped, TypeOK
  <2> QED
    BY <2>1 DEF Next, Provider, BeginOutOfDate, BeginAnyway, Begin, List, Fetch, Plan, Create,
                Wire, Delete, Succeed, Crash, EditSpec, AdminActs, vars
<1>4. disturbed' \in BOOLEAN
  <2>1. disturbed \in BOOLEAN
    BY DEF HintsTyped, TypeOK
  <2> QED
    BY <2>1 DEF Next, Provider, BeginOutOfDate, BeginAnyway, Begin, List, Fetch, Plan, Create,
                Wire, Delete, Succeed, Crash, EditSpec, AdminActs, vars
<1>5. budget' \in [Bounds -> Nat]
  <2>1. budget \in [Bounds -> Nat]
    BY DEF HintsTyped, TypeOK, Bounds
  <2>2. \A b \in Bounds : Spend(b) => budget' \in [Bounds -> Nat]
    BY <2>1 DEF Spend
  <2>3. UNCHANGED budget => budget' \in [Bounds -> Nat]
    BY <2>1
  <2> QED
    BY <2>2, <2>3
       DEF Next, Provider, BeginOutOfDate, BeginAnyway, Begin, List, Fetch, Plan, Create, Wire,
           Delete, Succeed, Crash, EditSpec, AdminActs, vars, Answered, Failed, Lost, Fault, Bounds
<1>6. sync' \in Syncs /\ InPlace'
  BY PlacedStep DEF Placed
<1>7. /\ sync'.pc \in {"idle", "list", "fetch", "create", "wire", "delete"}
      /\ sync'.list \in SpecLists /\ sync'.fetch \subseteq Ids /\ sync'.deletes \subseteq Ids
      /\ \A id \in DOMAIN sync'.seen : id \in Ids /\ sync'.seen[id] \in CTFdHints
      /\ sync'.idByIndex \in Seq(Ids \cup {NoId}) /\ sync'.next \in Nat
  BY <1>6, PartialHintsType DEF Syncs
<1> QED
  BY <1>2, <1>3, <1>4, <1>5, <1>6, <1>7 DEF HintsTyped, TypeOK, Bounds

LEMMA InitialType ==
    ASSUME Init
    PROVE  HintsTyped
<1>1. spec \in SpecLists /\ sync = NoSync(spec)
  BY DEF Init
<1>2. /\ sync \in Syncs /\ sync.pc = "idle" /\ sync.list = spec
      /\ DOMAIN sync.seen = {} /\ sync.next = 1
  BY <1>1, NoSyncType
<1>3. InPlace
  BY <1>2 DEF InPlace, Planned
<1>4. budget \in [Bounds -> Nat]
  BY ConstantsAssumption DEF Init, Bounds
<1>5. nextId \in 1..MaxId + 1
  BY ConstantsAssumption DEF Init
<1> QED
  BY <1>1, <1>2, <1>3, <1>4, <1>5, SyncType DEF Init, HintsTyped, TypeOK, Bounds

(***************************************************************************)
(* Every variable keeps its type, for any lists, failures and              *)
(* administrators: among others, only IDs of hints are required, and what  *)
(* is wired is wired after all hints have their IDs.                       *)
(***************************************************************************)
THEOREM HintsTypeCorrect == Spec => []TypeOK
<1>1. Init => HintsTyped
  BY InitialType
<1>2. HintsTyped /\ [Next]_vars => HintsTyped'
  BY TypeStep
<1>3. HintsTyped => TypeOK
  BY DEF HintsTyped
<1> QED
  BY <1>1, <1>2, <1>3, PTL DEF Spec

----------------------------------------------------------------------------
(***************************************************************************)
(* detectHintCycle finds the cycles, and nothing else.  The library's      *)
(* induction theorems take a predicate; what is needed of them here can be *)
(* said of sets.                                                           *)
(***************************************************************************)
LEMMA LeastNumber ==
    ASSUME NEW S, S \subseteq Nat, S # {}
    PROVE  \E n \in S : \A m \in S : n <= m
<1> DEFINE less == OpToRel(<, Nat)
<1>1. \E n \in S : \A m \in S : <<m, n>> \notin less
  BY WFMin, NatLessThanWellFounded, Zenon
<1>2. \A m, n \in Nat : m < n => <<m, n>> \in less
  BY SMT DEF OpToRel
<1> HIDE DEF less
<1>3. PICK n \in S : \A m \in S : <<m, n>> \notin less
  BY <1>1, Zenon
<1>4. \A m \in S : ~(m < n)
  BY <1>2, <1>3, Zenon
<1> QED
  BY <1>4

LEMMA Induction ==
    ASSUME NEW S, 0 \in S, \A n \in Nat : n \in S => n + 1 \in S
    PROVE  \A n \in Nat : n \in S
<1> SUFFICES ASSUME Nat \ S # {} PROVE FALSE
  OBVIOUS
<1>1. PICK n \in Nat \ S : \A m \in Nat \ S : n <= m
  BY LeastNumber, Zenon
<1>2. n - 1 \in Nat /\ n - 1 \in S
  BY <1>1
<1> QED
  BY <1>1, <1>2

\* A step function can be iterated.
LEMMA Iterates ==
    ASSUME NEW S, NEW start \in S, NEW step \in [S -> S]
    PROVE  \E f : f = [n \in Nat |-> IF n = 0 THEN start ELSE step[f[n - 1]]]
<1> DEFINE Runs(n) == {g \in [0..n -> S] :
                          g[0] = start /\ \A i \in 0..n - 1 : g[i + 1] = step[g[i]]}
           exist == {n \in Nat : Runs(n) # {}}
<1>1. \A n \in Nat : n \in exist
  <2>1. 0 \in exist
    <3>1. [i \in 0..0 |-> start] \in Runs(0)
      OBVIOUS
    <3> QED
      BY <3>1
  <2>2. ASSUME NEW n \in Nat, n \in exist PROVE n + 1 \in exist
    <3>1. PICK g : g \in Runs(n)
      BY <2>2
    <3> DEFINE h == [i \in 0..n + 1 |-> IF i = n + 1 THEN step[g[n]] ELSE g[i]]
    <3>2. h \in Runs(n + 1)
      BY <3>1
    <3> QED
      BY <3>2
  <2> HIDE DEF exist
  <2> QED
    BY <2>1, <2>2, Induction
<1>2. ASSUME NEW n \in Nat, NEW g \in Runs(n), NEW h \in Runs(n + 1)
      PROVE  \A i \in Nat : i \in 0..n => g[i] = h[i]
  <2> DEFINE agree == {i \in Nat : i \in 0..n => g[i] = h[i]}
  <2>1. 0 \in agree
    OBVIOUS
  <2>2. ASSUME NEW i \in Nat, i \in agree PROVE i + 1 \in agree
    <3> SUFFICES ASSUME i + 1 \in 0..n PROVE g[i + 1] = h[i + 1]
      OBVIOUS
    <3>1. i \in 0..n - 1 /\ i \in 0..n /\ i \in 0..n + 1 - 1
      OBVIOUS
    <3>2. g[i + 1] = step[g[i]]
      BY <3>1
    <3>3. h[i + 1] = step[h[i]]
      BY <3>1
    <3> QED
      BY <2>2, <3>1, <3>2, <3>3
  <2> HIDE DEF agree
  <2>3. \A i \in Nat : i \in agree
    BY <2>1, <2>2, Induction
  <2> QED
    BY <2>3 DEF agree
<1> DEFINE run == [n \in Nat |-> CHOOSE g : g \in Runs(n)]
           f == [n \in Nat |-> run[n][n]]
<1>3. \A n \in Nat : run[n] \in Runs(n)
  <2> HIDE DEF Runs
  <2> QED
    BY <1>1
<1>4. f[0] = start
  BY <1>3
<1>5. ASSUME NEW n \in Nat PROVE f[n + 1] = step[f[n]]
  <2> HIDE DEF run
  <2>1. n + 1 \in Nat /\ n \in 0..n /\ n \in 0..n + 1 - 1
    OBVIOUS
  <2>2. run[n + 1] \in Runs(n + 1) /\ run[n] \in Runs(n)
    <3> HIDE DEF Runs
    <3> QED
      BY <1>3, <2>1
  <2>3. run[n + 1][n + 1] = step[run[n + 1][n]]
    BY <2>1, <2>2
  <2>4. run[n][n] = run[n + 1][n]
    <3> HIDE DEF Runs
    <3> QED
      BY <1>2, <2>1, <2>2
  <2> QED
    BY <2>1, <2>3, <2>4
<1>6. f = [n \in Nat |-> IF n = 0 THEN start ELSE step[f[n - 1]]]
  <2>1. \A n \in Nat : f[n] = IF n = 0 THEN start ELSE step[f[n - 1]]
    <3> HIDE DEF f
    <3>1. ASSUME NEW n \in Nat, n # 0 PROVE f[n] = step[f[n - 1]]
      <4>1. n - 1 \in Nat /\ n = (n - 1) + 1
        BY <3>1
      <4> QED
        BY <1>5, <4>1
    <3> QED
      BY <1>4, <3>1
  <2>2. f = [n \in Nat |-> f[n]]
    OBVIOUS
  <2> HIDE DEF f
  <2> QED
    BY <2>1, <2>2
<1> QED
  BY <1>6

\* The prerequisites are hints of the list.
InRange(list) == \A i \in DOMAIN list : \A p \in list[i].pre : p + 1 \in DOMAIN list
Black(search) == {i \in DOMAIN search.color : search.color[i] = "black"}

LEMMA AdvanceType ==
    ASSUME NEW list, InRange(list), NEW s \in Searches(list)
    PROVE  /\ Unsearched(list) \in Searches(list)
           /\ Advance(list)[s] \in Searches(list)
           /\ \/ Advance(list)[s] = s
              \/ \E i \in Ahead(list, s) : s.color[i] = "white" /\ Advance(list)[s] = Enter(s, i)
              \/ Ahead(list, s) = {} /\ s.path # <<>> /\ Advance(list)[s] = Leave(s)
           /\ Ahead(list, s) \subseteq DOMAIN list
<1>1. Unsearched(list) \in Searches(list)
  BY DEF Unsearched, Searches
<1>2. /\ s.color \in [DOMAIN list -> {"white", "gray", "black"}]
      /\ s.path \in Seq(DOMAIN list)
      /\ s.path # <<>> => Head(s.path) \in DOMAIN list /\ Tail(s.path) \in Seq(DOMAIN list)
  BY DEF Searches
<1>3. Ahead(list, s) \subseteq DOMAIN list
  BY <1>2 DEF Ahead, InRange
<1>4. \A i \in DOMAIN list : Enter(s, i) \in Searches(list)
  BY <1>2 DEF Enter, Searches
<1>5. s.path # <<>> => Leave(s) \in Searches(list)
  BY <1>2 DEF Leave, Searches
<1>6. \/ Advance(list)[s] = s
      \/ \E i \in Ahead(list, s) : s.color[i] = "white" /\ Advance(list)[s] = Enter(s, i)
      \/ Ahead(list, s) = {} /\ s.path # <<>> /\ Advance(list)[s] = Leave(s)
  BY DEF Advance
<1> QED
  BY <1>1, <1>3, <1>4, <1>5, <1>6

\* A search is a run of its steps.
LEMMA SearchRun ==
    ASSUME NEW list, InRange(list), Len(list) \in Nat
    PROVE  \E f \in [Nat -> Searches(list)] :
              /\ f[0] = Unsearched(list)
              /\ \A n \in Nat : f[n + 1] = Advance(list)[f[n]]
              /\ Searched(list) = f[2 * Len(list)]
<1> DEFINE start == Unsearched(list)
           step == Advance(list)
           After(g) == g = [n \in Nat |-> IF n = 0 THEN start ELSE step[g[n - 1]]]
           f == CHOOSE g : After(g)
<1>1. step \in [Searches(list) -> Searches(list)] /\ start \in Searches(list)
  <2>1. \A s \in Searches(list) : Advance(list)[s] \in Searches(list)
    BY AdvanceType
  <2>2. Unsearched(list) \in Searches(list)
    BY DEF Unsearched, Searches
  <2> QED
    BY <2>1, <2>2 DEF Advance
<1>2. Searched(list) = f[2 * Len(list)]
  BY DEF Searched
<1> HIDE DEF start, step
<1>3. \E g : After(g)
  BY <1>1, Iterates
<1>4. After(f)
  BY <1>3
<1>5. f[0] = start /\ \A n \in Nat : f[n + 1] = step[f[n]]
  <2> DEFINE r == [n \in Nat |-> IF n = 0 THEN start ELSE step[f[n - 1]]]
  <2>1. f = r
    BY <1>4
  <2>2. r[0] = start /\ \A n \in Nat : r[n + 1] = step[f[n]]
    <3> HIDE DEF f
    <3> QED
      OBVIOUS
  <2> HIDE DEF r, f
  <2> QED
    BY <2>1, <2>2
<1>6. DOMAIN f = Nat /\ f = [n \in Nat |-> f[n]]
  <2> DEFINE r == [n \in Nat |-> IF n = 0 THEN start ELSE step[f[n - 1]]]
  <2>1. f = r
    BY <1>4
  <2>2. DOMAIN r = Nat /\ r = [n \in Nat |-> r[n]]
    <3> HIDE DEF f
    <3> QED
      OBVIOUS
  <2> HIDE DEF r, f
  <2> QED
    BY <2>1, <2>2
<1> HIDE DEF f
<1>7. \A n \in Nat : f[n] \in Searches(list)
  <2> DEFINE typed == {n \in Nat : f[n] \in Searches(list)}
  <2>1. 0 \in typed
    BY <1>1, <1>5
  <2>2. ASSUME NEW n \in Nat, n \in typed PROVE n + 1 \in typed
    <3>1. f[n] \in Searches(list) /\ f[n + 1] = step[f[n]]
      BY <1>5, <2>2
    <3> QED
      BY <1>1, <3>1
  <2> HIDE DEF typed
  <2>3. \A n \in Nat : n \in typed
    BY <2>1, <2>2, Induction
  <2> QED
    BY <2>3 DEF typed
<1>8. f \in [Nat -> Searches(list)]
  BY <1>6, <1>7
<1> QED
  BY <1>2, <1>5, <1>8 DEF start, step

\* A hint turns black when all of its prerequisites are.
LEMMA TurnsBlack ==
    ASSUME NEW list, InRange(list), NEW s \in Searches(list),
           NEW i \in DOMAIN list, Advance(list)[s].color[i] = "black", s.color[i] # "black"
    PROVE  \A p \in list[i].pre : s.color[p + 1] = "black"
<1>1. s.color \in [DOMAIN list -> {"white", "gray", "black"}]
  BY DEF Searches
<1>2. Ahead(list, s) = {} /\ s.path # <<>> /\ Advance(list)[s] = Leave(s)
  <2>1. ASSUME NEW j \in Ahead(list, s) PROVE Advance(list)[s] # Enter(s, j)
    BY <1>1 DEF Enter
  <2> QED
    BY <2>1, AdvanceType
<1>3. i = Head(s.path)
  BY <1>1, <1>2 DEF Leave
<1> QED
  BY <1>2, <1>3 DEF Ahead

\* So the first hint of a set to turn black has no prerequisite in the set.
LEMMA ValidUnlocks ==
    ASSUME NEW list, Len(list) \in Nat, Valid(list)
    PROVE  Unlockable(list)
<1>1. InRange(list)
  BY DEF Valid, InRange
<1>2. PICK f \in [Nat -> Searches(list)] :
              /\ f[0] = Unsearched(list)
              /\ \A n \in Nat : f[n + 1] = Advance(list)[f[n]]
              /\ Searched(list) = f[2 * Len(list)]
  BY <1>1, SearchRun
<1>3. ASSUME NEW S \in (SUBSET (DOMAIN list)) \ {{}}
      PROVE  \E i \in S : \A p \in list[i].pre : p + 1 \notin S
  <2> DEFINE T == {n \in Nat : \E i \in S : f[n].color[i] = "black"}
  <2>1. 2 * Len(list) \in T
    BY <1>2 DEF Valid
  <2>2. PICK n \in T : \A m \in T : n <= m
    <3> HIDE DEF T
    <3>1. T \subseteq Nat
      BY DEF T
    <3> QED
      BY <2>1, <3>1, LeastNumber, Zenon
  <2>3. n \in Nat \ {0}
    <3>1. \A i \in S : f[0].color[i] = "white"
      BY <1>2 DEF Unsearched
    <3> QED
      BY <3>1
  <2>4. n - 1 \in Nat /\ n = (n - 1) + 1 /\ n - 1 \notin T
    BY <2>2, <2>3
  <2>5. f[n] = Advance(list)[f[n - 1]]
    BY <1>2, <2>4
  <2>6. PICK i \in S : f[n].color[i] = "black"
    BY <2>2
  <2>7. \A j \in S : f[n - 1].color[j] # "black"
    BY <2>4
  <2>8. \A p \in list[i].pre : f[n - 1].color[p + 1] = "black"
    <3>1. f[n - 1] \in Searches(list) /\ i \in DOMAIN list /\ f[n - 1].color[i] # "black"
      BY <2>4, <2>7
    <3>2. Advance(list)[f[n - 1]].color[i] = "black"
      BY <2>5, <2>6
    <3> HIDE DEF T
    <3> QED
      BY <1>1, <3>1, <3>2, TurnsBlack
  <2> QED
    BY <2>7, <2>8
<1> QED
  BY <1>1, <1>3 DEF Unlockable, InRange

\* The gray hints are those of the path, in which each requires the one before.
OnPath(list, s) ==
    /\ \A i \in DOMAIN list : s.color[i] = "gray" <=> \E k \in 1..Len(s.path) : s.path[k] = i
    /\ \A j, k \in 1..Len(s.path) : s.path[j] = s.path[k] => j = k
    /\ \A k \in 1..Len(s.path) - 1 : s.path[k] - 1 \in list[s.path[k + 1]].pre

LEMMA TailIndices ==
    ASSUME NEW S, NEW seq \in Seq(S), seq # <<>>
    PROVE  /\ Tail(seq) \in Seq(S) /\ Len(Tail(seq)) = Len(seq) - 1
           /\ \A k \in 1..Len(seq) - 1 : Tail(seq)[k] = seq[k + 1]
OBVIOUS

LEMMA OnPathKept ==
    ASSUME NEW list, InRange(list), DOMAIN list \subseteq Int,
           \A i \in DOMAIN list : list[i].pre \subseteq Int,
           NEW s \in Searches(list), OnPath(list, s)
    PROVE  OnPath(list, Advance(list)[s])
<1>1. /\ s.color \in [DOMAIN list -> {"white", "gray", "black"}]
      /\ s.path \in Seq(DOMAIN list)
  BY DEF Searches
<1>2. ASSUME NEW i \in Ahead(list, s), s.color[i] = "white" PROVE OnPath(list, Enter(s, i))
  <2> DEFINE path == <<i>> \o s.path
             color == [s.color EXCEPT ![i] = "gray"]
  <2>1. i \in DOMAIN list
    BY AdvanceType
  <2>2. /\ path \in Seq(DOMAIN list) /\ Len(path) = Len(s.path) + 1 /\ path[1] = i
        /\ \A k \in 1..Len(s.path) : path[k + 1] = s.path[k]
        /\ Len(s.path) \in Nat
    BY <1>1, <2>1
  <2>3. \A k \in 1..Len(s.path) : s.path[k] # i
    BY <1>2, <2>1 DEF OnPath
  <2>4. Len(s.path) > 0 => i - 1 \in list[s.path[1]].pre
    <3> SUFFICES ASSUME Len(s.path) > 0 PROVE i - 1 \in list[s.path[1]].pre
      OBVIOUS
    <3>1. s.path # <<>> /\ Head(s.path) = s.path[1] /\ s.path[1] \in DOMAIN list
      BY <1>1
    <3>2. PICK p \in list[s.path[1]].pre : i = p + 1
      BY <3>1 DEF Ahead
    <3> QED
      BY <3>1, <3>2
  <2> HIDE DEF path
  <2>5. \A k \in 1..Len(path) : k = 1 \/ (k - 1 \in 1..Len(s.path) /\ path[k] = s.path[k - 1])
    BY <2>2
  <2>6. \A j \in DOMAIN list : color[j] = "gray" <=> \E k \in 1..Len(path) : path[k] = j
    <3>1. ASSUME NEW j \in DOMAIN list, color[j] = "gray"
          PROVE  \E k \in 1..Len(path) : path[k] = j
      <4>1. CASE j = i
        BY <2>2, <4>1
      <4>2. CASE j # i
        <5>1. PICK k \in 1..Len(s.path) : s.path[k] = j
          BY <1>1, <3>1, <4>2 DEF OnPath
        <5>2. k + 1 \in 1..Len(path) /\ path[k + 1] = j
          BY <2>2, <5>1
        <5> QED
          BY <5>2
      <4> QED
        BY <4>1, <4>2
    <3>2. ASSUME NEW k \in 1..Len(path) PROVE color[path[k]] = "gray"
      <4>1. CASE k = 1
        BY <1>1, <2>1, <2>2, <4>1
      <4>2. CASE k # 1
        <5>1. k - 1 \in 1..Len(s.path) /\ path[k] = s.path[k - 1]
          BY <2>5, <4>2
        <5>2. path[k] \in DOMAIN list
          BY <1>1, <5>1
        <5>3. s.color[path[k]] = "gray"
          BY <5>1, <5>2 DEF OnPath
        <5> QED
          BY <1>1, <2>1, <5>2, <5>3
      <4> QED
        BY <4>1, <4>2
    <3> QED
      BY <3>1, <3>2
  <2>7. \A j, k \in 1..Len(path) : path[j] = path[k] => j = k
    <3> SUFFICES ASSUME NEW j \in 1..Len(path), NEW k \in 1..Len(path), path[j] = path[k]
                 PROVE  j = k
      OBVIOUS
    <3>1. CASE j = 1 \/ k = 1
      BY <2>2, <2>3, <2>5, <3>1
    <3>2. CASE j # 1 /\ k # 1
      <4>1. /\ j - 1 \in 1..Len(s.path) /\ k - 1 \in 1..Len(s.path)
            /\ s.path[j - 1] = s.path[k - 1]
        BY <2>5, <3>2
      <4>2. j - 1 = k - 1
        BY <4>1 DEF OnPath
      <4> QED
        BY <2>2, <4>2
    <3> QED
      BY <3>1, <3>2
  <2>8. \A k \in 1..Len(path) - 1 : path[k] - 1 \in list[path[k + 1]].pre
    <3> SUFFICES ASSUME NEW k \in 1..Len(path) - 1 PROVE path[k] - 1 \in list[path[k + 1]].pre
      OBVIOUS
    <3>1. k \in 1..Len(s.path) /\ path[k + 1] = s.path[k]
      BY <2>2
    <3>2. CASE k = 1
      BY <2>2, <2>4, <3>1, <3>2
    <3>3. CASE k # 1
      <4>1. k - 1 \in 1..Len(s.path) - 1 /\ (k - 1) + 1 = k /\ k \in 1..Len(path)
        BY <2>2, <3>3
      <4>2. path[k] = s.path[k - 1]
        BY <2>5, <3>3, <4>1
      <4> QED
        BY <3>1, <4>1, <4>2 DEF OnPath
    <3> QED
      BY <3>2, <3>3
  <2> QED
    BY <2>6, <2>7, <2>8 DEF OnPath, Enter, path
<1>3. ASSUME s.path # <<>> PROVE OnPath(list, Leave(s))
  <2> DEFINE path == Tail(s.path)
             top == Head(s.path)
             color == [s.color EXCEPT ![top] = "black"]
  <2>1. /\ path \in Seq(DOMAIN list) /\ Len(path) = Len(s.path) - 1 /\ top = s.path[1]
        /\ top \in DOMAIN list /\ Len(path) \in Nat /\ Len(s.path) \in Nat
        /\ \A k \in 1..Len(path) : path[k] = s.path[k + 1]
    <3>1. Len(s.path) \in Nat /\ Len(s.path) # 0
      BY <1>1, <1>3
    <3>2. top = s.path[1] /\ top \in DOMAIN list
      BY <1>1, <1>3, <3>1
    <3>3. /\ path \in Seq(DOMAIN list) /\ Len(path) = Len(s.path) - 1
          /\ \A k \in 1..Len(s.path) - 1 : path[k] = s.path[k + 1]
      BY <1>1, <1>3, TailIndices
    <3> QED
      BY <3>1, <3>2, <3>3
  <2> HIDE DEF path, top
  <2>2. \A j \in DOMAIN list : color[j] = "gray" <=> \E k \in 1..Len(path) : path[k] = j
    <3>1. ASSUME NEW j \in DOMAIN list, color[j] = "gray"
          PROVE  \E k \in 1..Len(path) : path[k] = j
      <4>1. s.color[j] = "gray" /\ j # top
        BY <1>1, <2>1, <3>1
      <4>2. PICK k \in 1..Len(s.path) : s.path[k] = j
        BY <4>1 DEF OnPath
      <4>3. k - 1 \in 1..Len(path) /\ path[k - 1] = j
        BY <2>1, <4>1, <4>2
      <4> QED
        BY <4>3
    <3>2. ASSUME NEW k \in 1..Len(path) PROVE color[path[k]] = "gray"
      <4>1. k + 1 \in 1..Len(s.path) /\ 1 \in 1..Len(s.path) /\ path[k] = s.path[k + 1]
        BY <2>1
      <4>2. path[k] # top /\ path[k] \in DOMAIN list
        BY <2>1, <4>1 DEF OnPath
      <4>3. s.color[path[k]] = "gray"
        BY <4>1, <4>2 DEF OnPath
      <4> QED
        BY <1>1, <2>1, <4>2, <4>3
    <3> QED
      BY <3>1, <3>2
  <2>3. \A j, k \in 1..Len(path) : path[j] = path[k] => j = k
    <3> SUFFICES ASSUME NEW j \in 1..Len(path), NEW k \in 1..Len(path), path[j] = path[k]
                 PROVE  j = k
      OBVIOUS
    <3>1. path[j] = s.path[j + 1] /\ path[k] = s.path[k + 1]
      BY <2>1
    <3>2. j + 1 \in 1..Len(s.path) /\ k + 1 \in 1..Len(s.path)
      <4>1. Len(path) = Len(s.path) - 1 /\ Len(path) \in Nat /\ Len(s.path) \in Nat
        BY <2>1
      <4> QED
        BY <4>1
    <3>3. j + 1 = k + 1
      BY <3>1, <3>2 DEF OnPath
    <3> QED
      BY <3>3
  <2>4. \A k \in 1..Len(path) - 1 : path[k] - 1 \in list[path[k + 1]].pre
    <3> SUFFICES ASSUME NEW k \in 1..Len(path) - 1 PROVE path[k] - 1 \in list[path[k + 1]].pre
      OBVIOUS
    <3>1. k + 1 \in 1..Len(s.path) - 1 /\ k \in 1..Len(path) /\ k + 1 \in 1..Len(path)
      <4>1. Len(path) = Len(s.path) - 1 /\ Len(path) \in Nat /\ Len(s.path) \in Nat
        BY <2>1
      <4> QED
        BY <4>1
    <3>2. path[k] = s.path[k + 1] /\ path[k + 1] = s.path[(k + 1) + 1]
      BY <2>1, <3>1
    <3> QED
      BY <3>1, <3>2 DEF OnPath
  <2> QED
    BY <2>2, <2>3, <2>4 DEF OnPath, Leave, path, top
<1> QED
  BY <1>2, <1>3, AdvanceType

\* A gray prerequisite closes a cycle.
LEMMA NoError ==
    ASSUME NEW list, Unlockable(list), DOMAIN list \subseteq Int,
           \A i \in DOMAIN list : list[i].pre \subseteq Int,
           NEW s \in Searches(list), OnPath(list, s), NEW i \in Ahead(list, s)
    PROVE  s.color[i] = "white"
<1>1. /\ s.color \in [DOMAIN list -> {"white", "gray", "black"}]
      /\ s.path \in Seq(DOMAIN list) /\ Len(s.path) \in Nat
  BY DEF Searches
<1>2. InRange(list)
  BY DEF Unlockable, InRange
<1>3. i \in DOMAIN list
  BY <1>2, AdvanceType
<1>4. CASE s.path = <<>>
  BY <1>4 DEF Ahead
<1>5. CASE s.path # <<>>
  <2>1. 1 \in 1..Len(s.path) /\ s.path[1] = Head(s.path)
    BY <1>1, <1>5
  <2>2. s.color[i] # "black" /\ i - 1 \in list[s.path[1]].pre
    <3>1. PICK p \in list[s.path[1]].pre : i = p + 1
      BY <1>5, <2>1 DEF Ahead
    <3>2. s.path[1] \in DOMAIN list
      BY <1>1, <2>1
    <3>3. i - 1 = p
      BY <1>3, <3>1, <3>2
    <3> QED
      BY <1>3, <1>5, <3>1, <3>3 DEF Ahead
  <2>3. s.color[i] # "gray"
    <3> SUFFICES ASSUME s.color[i] = "gray" PROVE FALSE
      OBVIOUS
    <3>1. PICK k \in 1..Len(s.path) : s.path[k] = i
      BY <1>3 DEF OnPath
    <3> DEFINE S == {s.path[j] : j \in 1..k}
    <3>2. S \in (SUBSET DOMAIN list) \ {{}}
      <4>1. \A j \in 1..k : s.path[j] \in DOMAIN list
        BY <1>1, <3>1
      <4>2. s.path[1] \in S
        BY <3>1
      <4> QED
        BY <4>1, <4>2
    <3>3. PICK h \in S : \A p \in list[h].pre : p + 1 \notin S
      <4> HIDE DEF S
      <4> QED
        BY <3>2, Zenon DEF Unlockable
    <3>4. PICK j \in 1..k : h = s.path[j]
      BY <3>3
    <3>5. CASE j = 1
      <4>1. i \in S /\ (i - 1) + 1 = i
        BY <1>3, <3>1
      <4> QED
        BY <2>2, <3>3, <3>4, <3>5, <4>1
    <3>6. CASE j # 1
      <4>1. /\ j - 1 \in 1..k /\ j - 1 \in 1..Len(s.path) - 1 /\ (j - 1) + 1 = j
        BY <1>1, <3>1, <3>6
      <4>2. s.path[j - 1] - 1 \in list[h].pre
        BY <3>4, <4>1 DEF OnPath
      <4>3. s.path[j - 1] \in S /\ s.path[j - 1] \in Int
        BY <1>1, <4>1
      <4> QED
        BY <3>3, <4>2, <4>3
    <3> QED
      BY <3>5, <3>6
  <2> QED
    BY <1>1, <1>3, <2>2, <2>3
<1> QED
  BY <1>4, <1>5

\* Until all are black, every step of the search enters a hint or leaves one.
Begun(search) == {i \in DOMAIN search.color : search.color[i] # "white"}

LEMMA SearchMoves ==
    ASSUME NEW list, Unlockable(list), DOMAIN list \subseteq Int,
           \A i \in DOMAIN list : list[i].pre \subseteq Int,
           NEW s \in Searches(list), OnPath(list, s)
    PROVE  \/ Black(s) = DOMAIN list /\ Advance(list)[s] = s
           \/ \E i \in DOMAIN list : s.color[i] = "white" /\ Advance(list)[s] = Enter(s, i)
           \/ s.path # <<>> /\ s.color[Head(s.path)] = "gray" /\ Advance(list)[s] = Leave(s)
<1>1. /\ s.color \in [DOMAIN list -> {"white", "gray", "black"}]
      /\ s.path \in Seq(DOMAIN list) /\ Len(s.path) \in Nat
  BY DEF Searches
<1>2. InRange(list)
  BY DEF Unlockable, InRange
<1>3. ASSUME Ahead(list, s) # {}
      PROVE  \E i \in DOMAIN list : s.color[i] = "white" /\ Advance(list)[s] = Enter(s, i)
  <2> DEFINE i == CHOOSE j \in Ahead(list, s) : TRUE
  <2>1. i \in Ahead(list, s)
    BY <1>3
  <2>2. s.color[i] = "white" /\ i \in DOMAIN list
    <3> HIDE DEF i
    <3> QED
      BY <1>2, <2>1, NoError, AdvanceType
  <2>3. Advance(list)[s] = Enter(s, i)
    BY <1>3, <2>2 DEF Advance
  <2> QED
    BY <2>2, <2>3
<1>4. ASSUME Ahead(list, s) = {}, s.path # <<>>
      PROVE  s.color[Head(s.path)] = "gray" /\ Advance(list)[s] = Leave(s)
  <2>1. 1 \in 1..Len(s.path) /\ Head(s.path) = s.path[1] /\ s.path[1] \in DOMAIN list
    BY <1>1, <1>4
  <2> QED
    BY <1>4, <2>1 DEF OnPath, Advance
<1>5. ASSUME Ahead(list, s) = {}, s.path = <<>>
      PROVE  Black(s) = DOMAIN list /\ Advance(list)[s] = s
  <2>1. ASSUME NEW i \in DOMAIN list PROVE s.color[i] = "black"
    <3>1. s.color[i] # "white"
      BY <1>5 DEF Ahead
    <3>2. s.color[i] # "gray"
      BY <1>1, <1>5 DEF OnPath
    <3> QED
      BY <1>1, <3>1, <3>2
  <2>2. Black(s) = DOMAIN list
    BY <1>1, <2>1 DEF Black
  <2>3. Advance(list)[s] = s
    BY <1>5 DEF Advance
  <2> QED
    BY <2>2, <2>3
<1> QED
  BY <1>3, <1>4, <1>5

LEMMA SearchCounts ==
    ASSUME NEW list, NEW n \in Nat, DOMAIN list = 1..n, Unlockable(list),
           \A i \in DOMAIN list : list[i].pre \subseteq Int,
           NEW s \in Searches(list), OnPath(list, s), NEW t, t = Advance(list)[s]
    PROVE  \/ Black(t) = DOMAIN list
           \/ /\ Black(s) # DOMAIN list
              /\ Cardinality(Begun(t)) + Cardinality(Black(t))
                    = Cardinality(Begun(s)) + Cardinality(Black(s)) + 1
<1>1. s.color \in [DOMAIN list -> {"white", "gray", "black"}] /\ s.path \in Seq(DOMAIN list)
  BY DEF Searches
<1>2. Begun(s) \subseteq 1..n /\ Black(s) \subseteq 1..n
  BY <1>1 DEF Begun, Black
<1>3. /\ IsFiniteSet(Begun(s)) /\ Cardinality(Begun(s)) \in Nat
      /\ IsFiniteSet(Black(s)) /\ Cardinality(Black(s)) \in Nat
  BY <1>2, FiniteInterval
<1>4. ASSUME NEW i \in DOMAIN list, s.color[i] = "white", t = Enter(s, i)
      PROVE  /\ Black(s) # DOMAIN list
             /\ Cardinality(Begun(t)) + Cardinality(Black(t))
                    = Cardinality(Begun(s)) + Cardinality(Black(s)) + 1
  <2>1. t.color = [s.color EXCEPT ![i] = "gray"]
    BY <1>4 DEF Enter
  <2>2. Begun(t) = Begun(s) \cup {i} /\ i \notin Begun(s)
    BY <1>1, <1>4, <2>1 DEF Begun
  <2>3. Black(t) = Black(s) /\ i \notin Black(s)
    BY <1>1, <1>4, <2>1 DEF Black
  <2>4. Cardinality(Begun(t)) = Cardinality(Begun(s)) + 1
    BY <1>3, <2>2, FS_AddElement
  <2> QED
    BY <1>3, <2>3, <2>4
<1>5. ASSUME s.path # <<>>, s.color[Head(s.path)] = "gray", t = Leave(s)
      PROVE  /\ Black(s) # DOMAIN list
             /\ Cardinality(Begun(t)) + Cardinality(Black(t))
                    = Cardinality(Begun(s)) + Cardinality(Black(s)) + 1
  <2> DEFINE i == Head(s.path)
  <2>1. i \in DOMAIN list /\ t.color = [s.color EXCEPT ![i] = "black"]
    BY <1>1, <1>5 DEF Leave
  <2>2. s.color[i] = "gray"
    BY <1>5
  <2> HIDE DEF i
  <2>3. Begun(t) = Begun(s)
    BY <1>1, <2>1, <2>2 DEF Begun
  <2>4. Black(t) = Black(s) \cup {i} /\ i \notin Black(s)
    BY <1>1, <2>1, <2>2 DEF Black
  <2>5. Cardinality(Black(t)) = Cardinality(Black(s)) + 1
    BY <1>3, <2>4, FS_AddElement
  <2> QED
    BY <1>3, <2>1, <2>3, <2>4, <2>5
<1>6. DOMAIN list \subseteq Int
  OBVIOUS
<1> QED
  BY <1>4, <1>5, <1>6, SearchMoves

LEMMA UnlockableIsValid ==
    ASSUME NEW list, Len(list) \in Nat, DOMAIN list = 1..Len(list), Unlockable(list),
           \A i \in DOMAIN list : list[i].pre \subseteq Int
    PROVE  Valid(list)
<1>1. InRange(list)
  BY DEF Unlockable, InRange
<1>2. PICK f \in [Nat -> Searches(list)] :
              /\ f[0] = Unsearched(list)
              /\ \A n \in Nat : f[n + 1] = Advance(list)[f[n]]
              /\ Searched(list) = f[2 * Len(list)]
  BY <1>1, SearchRun
<1> DEFINE Size(s) == Cardinality(Begun(s)) + Cardinality(Black(s))
           sound == {n \in Nat : /\ OnPath(list, f[n])
                                 /\ Black(f[n]) = DOMAIN list \/ Size(f[n]) = n}
<1>3. 0 \in sound
  <2>1. f[0].path = <<>> /\ f[0].color = [i \in DOMAIN list |-> "white"]
    BY <1>2 DEF Unsearched
  <2>2. OnPath(list, f[0])
    BY <2>1 DEF OnPath
  <2>3. Begun(f[0]) = {} /\ Black(f[0]) = {}
    BY <2>1 DEF Begun, Black
  <2>4. Size(f[0]) = 0
    BY <2>3, FS_EmptySet
  <2> QED
    BY <2>2, <2>4
<1>4. ASSUME NEW n \in Nat, n \in sound PROVE n + 1 \in sound
  <2>1. OnPath(list, f[n]) /\ (Black(f[n]) = DOMAIN list \/ Size(f[n]) = n)
    BY <1>4
  <2>2. f[n] \in Searches(list) /\ f[n + 1] = Advance(list)[f[n]] /\ DOMAIN list \subseteq Int
    <3>1. 1..Len(list) \subseteq Int
      OBVIOUS
    <3> QED
      BY <1>2, <3>1, Zenon
  <2>3. OnPath(list, f[n + 1])
    BY <1>1, <2>1, <2>2, OnPathKept
  <2>4. \/ Black(f[n + 1]) = DOMAIN list
        \/ Black(f[n]) # DOMAIN list /\ Size(f[n + 1]) = Size(f[n]) + 1
    BY <2>1, <2>2, SearchCounts
  <2> HIDE DEF Size
  <2> QED
    BY <2>1, <2>3, <2>4
<1>5. 2 * Len(list) \in sound
  <2> HIDE DEF sound
  <2> QED
    BY <1>3, <1>4, Induction
<1> DEFINE s == Searched(list)
<1>6. s \in Searches(list) /\ (Black(s) = DOMAIN list \/ Size(s) = 2 * Len(list))
  BY <1>2, <1>5
<1> HIDE DEF s, sound
<1>7. s.color \in [DOMAIN list -> {"white", "gray", "black"}]
  BY <1>6 DEF Searches
<1>8. Black(s) = DOMAIN list
  <2>1. Begun(s) \subseteq 1..Len(list) /\ Black(s) \subseteq 1..Len(list)
    BY <1>7 DEF Begun, Black
  <2>2. IsFiniteSet(1..Len(list)) /\ Cardinality(1..Len(list)) = Len(list)
    <3> DEFINE n == Len(list)
    <3>1. n \in Int /\ 1 \in Int
      OBVIOUS
    <3> HIDE DEF n
    <3>2. IsFiniteSet(1..n) /\ Cardinality(1..n) = IF 1 > n THEN 0 ELSE n - 1 + 1
      BY <3>1, FS_Interval
    <3> QED
      BY <3>2 DEF n
  <2>3. /\ Cardinality(Begun(s)) <= Len(list) /\ Cardinality(Black(s)) <= Len(list)
        /\ Cardinality(Begun(s)) \in Nat /\ Cardinality(Black(s)) \in Nat
        /\ Cardinality(Black(s)) = Len(list) => Black(s) = 1..Len(list)
    BY <2>1, <2>2, FS_Subset, FS_CardinalityType
  <2> QED
    BY <1>6, <2>3
<1>9. \A i \in DOMAIN list : s.color[i] = "black"
  BY <1>8 DEF Black
<1>10. ASSUME NEW i \in DOMAIN list, NEW p \in list[i].pre PROVE p + 1 \in DOMAIN list \ {i}
  <2>1. p + 1 \in DOMAIN list
    BY <1>1 DEF InRange
  <2>2. \E h \in {i} : \A q \in list[h].pre : q + 1 \notin {i}
    <3>1. {i} \in (SUBSET DOMAIN list) \ {{}}
      OBVIOUS
    <3> QED
      BY <3>1, Zenon DEF Unlockable
  <2> QED
    BY <2>1, <2>2
<1> QED
  BY <1>9, <1>10 DEF Valid, s

\* validateHintPrereqs accepts a list just if its hints can all be unlocked,
\* however many there are and whatever they require of each other.
THEOREM ValidMeansUnlockable ==
    \A list \in Seq(SpecHints) : Valid(list) <=> Unlockable(list)
<1> SUFFICES ASSUME NEW list \in Seq(SpecHints) PROVE Valid(list) <=> Unlockable(list)
  OBVIOUS
<1>1. Len(list) \in Nat /\ DOMAIN list = 1..Len(list)
  OBVIOUS
<1>2. ASSUME NEW i \in DOMAIN list PROVE list[i].pre \subseteq Int
  <2>1. list[i] \in SpecHints
    OBVIOUS
  <2> QED
    BY <2>1 DEF SpecHints
<1> QED
  BY <1>1, <1>2, ValidUnlocks, UnlockableIsValid

\* No step of a sync changes anything in CTFd for a list that cannot be
\* unlocked: validation comes before the first call that does.
THEOREM InvalidListsTouchNothing == Spec => InvalidListTouchesNothing
<1>1. ASSUME HintsTyped, Provider \/ BeginAnyway, hints' # hints
      PROVE  Unlockable(sync.list)
  <2>1. Create \/ Wire \/ Delete
    BY <1>1 DEF Provider, BeginOutOfDate, BeginAnyway, Begin, List, Fetch, Plan, Succeed, Failed
  <2>2. sync.pc # "idle"
    BY <2>1 DEF Create, Wire, Delete, Wired
  <2> QED
    BY <1>1, <2>2, SyncType, ConstantsAssumption, ValidMeansUnlockable DEF HintsTyped, InPlace
<1>2. HintsTyped /\ [Next]_vars =>
         [Provider \/ BeginAnyway => (hints' # hints => Unlockable(sync.list))]_vars
  BY <1>1
<1>3. Init => HintsTyped
  BY InitialType
<1>4. HintsTyped /\ [Next]_vars => HintsTyped'
  BY TypeStep
<1> QED
  BY <1>2, <1>3, <1>4, PTL DEF Spec, InvalidListTouchesNothing

----------------------------------------------------------------------------
(***************************************************************************)
(* The inductive invariant holds.                                          *)
(***************************************************************************)
LEMMA PresentType ==
    ASSUME TypeOK
    PROVE  /\ NoHint \notin CTFdHints /\ Present \subseteq Ids /\ Ids \subseteq Nat \ {0}
           /\ \A id \in Present : hints[id] \in CTFdHints
<1>1. NoHint \notin CTFdHints
  BY DEF NoHint, CTFdHints
<1> QED
  BY <1>1, IdsType DEF TypeOK, Present

LEMMA PresentAfterPost ==
    ASSUME HintsTyped, IdsInOrder, NEW new \in CTFdHints, Posted(new)
    PROVE  /\ nextId \in Ids /\ nextId \notin Present /\ nextId \notin DOMAIN sync.seen
           /\ Present' = Present \cup {nextId} /\ hints'[nextId] = new
           /\ \A id \in Present : hints'[id] = hints[id]
<1>1. nextId \in Ids /\ hints \in [Ids -> CTFdHints \cup {NoHint}]
  BY ConstantsAssumption DEF HintsTyped, TypeOK, Posted, Ids
<1>2. nextId \notin Present /\ nextId \notin DOMAIN sync.seen
  <2>1. nextId >= nextId
    BY <1>1, IdsType
  <2> QED
    BY <1>1, <2>1 DEF IdsInOrder, Present
<1>3. new # NoHint
  BY PresentType DEF HintsTyped
<1>4. \A id \in Ids : hints'[id] = IF id = nextId THEN new ELSE hints[id]
  BY <1>1 DEF Posted
<1> QED
  BY <1>1, <1>2, <1>3, <1>4 DEF Present

LEMMA PresentAfterChange ==
    ASSUME TypeOK, NEW id \in Present, NEW new, Changed(id, new)
    PROVE  /\ hints'[id] = new /\ \A o \in Ids \ {id} : hints'[o] = hints[o]
           /\ Present' = IF new = NoHint THEN Present \ {id} ELSE Present
<1>1. id \in Ids /\ hints \in [Ids -> CTFdHints \cup {NoHint}]
  BY DEF TypeOK, Present
<1>2. \A o \in Ids : hints'[o] = IF o = id THEN new ELSE hints[o]
  BY <1>1 DEF Changed
<1> QED
  BY <1>1, <1>2 DEF Present

LEMMA SeenStep ==
    ASSUME HintsTyped, [Next]_vars
    PROVE  DOMAIN sync'.seen \subseteq DOMAIN sync.seen \cup Present
<1>0. sync \in Syncs
  BY DEF HintsTyped
<1>1. CASE Stop
  BY <1>0, <1>1, StopPlaced
<1>2. CASE BeginOutOfDate \/ BeginAnyway
  BY <1>2, BeginPlaced DEF BeginOutOfDate, BeginAnyway
<1>3. CASE List
  BY <1>1, <1>3, ListPlaced DEF List, Failed
<1>4. CASE Fetch
  <2>1. ASSUME NEW id \in Present,
               sync' = [sync EXCEPT !.fetch = @ \ {id},
                          !.seen = [i \in DOMAIN @ \cup {id} |-> IF i = id THEN hints[id] ELSE @[i]]]
        PROVE  DOMAIN sync'.seen \subseteq DOMAIN sync.seen \cup Present
    <3>1. DOMAIN sync'.seen = DOMAIN sync.seen \cup {id}
      BY <1>4, <2>1, FetchPlaced DEF Fetch
    <3> QED
      BY <3>1
  <2> QED
    BY <1>1, <1>4, <2>1 DEF Fetch, Failed
<1>5. CASE Plan
  BY <1>5, PlanPlaced DEF Plan
<1>6. CASE Create
  <2>1. First(Missing) \in Missing
    BY <1>0, <1>6, FirstOfList DEF Create, Missing
  <2> QED
    BY <1>1, <1>6, <2>1, CreatePlaced DEF Create, Answered, Failed, Lost
<1>7. CASE Wire
  <2>1. First(Unwired) \in Unwired
    BY <1>0, <1>7, FirstOfList DEF Wire, Unwired
  <2>2. Planned /\ Missing = {}
    BY <1>7 DEF Wire, HintsTyped, InPlace, Planned
  <2> QED
    BY <1>1, <1>7, <2>1, <2>2, WirePlaced DEF Wire, Answered, Failed, Lost
<1>8. CASE Delete
  BY <1>1, <1>8, DeletePlaced DEF Delete, Answered, Failed, Lost
<1>9. CASE Succeed \/ Crash
  BY <1>1, <1>9 DEF Succeed, Crash, Failed
<1> QED
  BY <1>2, <1>3, <1>4, <1>5, <1>6, <1>7, <1>8, <1>9
     DEF Next, Provider, EditSpec, AdminActs, vars

LEMMA OrderStep ==
    ASSUME HintsTyped, IdsInOrder, [Next]_vars
    PROVE  IdsInOrder'
<1>1. Ids \subseteq Nat /\ nextId \in Nat /\ Present \subseteq Ids
  BY IdsType, PresentType DEF HintsTyped, TypeOK
<1>2. \A id \in Present : id < nextId
  BY <1>1 DEF IdsInOrder, Present
<1>3. nextId' \in {nextId, nextId + 1} /\ \A id \in Ids : id >= nextId' => hints'[id] = NoHint
  <2>1. CASE UNCHANGED <<hints, nextId>>
    BY <2>1 DEF IdsInOrder
  <2>2. ASSUME NEW new \in CTFdHints, Posted(new)
        PROVE  nextId' \in {nextId, nextId + 1} /\ \A id \in Ids : id >= nextId' => hints'[id] = NoHint
    <3>1. hints \in [Ids -> CTFdHints \cup {NoHint}]
      BY DEF HintsTyped, TypeOK
    <3> QED
      BY <1>1, <2>2, <3>1 DEF Posted, IdsInOrder
  <2>3. ASSUME NEW id \in Present, NEW new, Changed(id, new)
        PROVE  nextId' \in {nextId, nextId + 1} /\ \A o \in Ids : o >= nextId' => hints'[o] = NoHint
    <3>1. \A o \in Ids \ {id} : hints'[o] = hints[o]
      BY <2>3, PresentAfterChange DEF HintsTyped
    <3>2. nextId' = nextId /\ id < nextId /\ id \in Nat
      BY <1>1, <1>2, <2>3 DEF Changed
    <3> QED
      BY <1>1, <3>1, <3>2 DEF IdsInOrder
  <2> QED
    BY <2>1, <2>2, <2>3, HintsMove, NewHintType
<1>4. \A id \in DOMAIN sync'.seen : id < nextId
  <2>1. \A id \in DOMAIN sync.seen : id \in Ids /\ id \in Nat
    BY <1>1, SyncType DEF HintsTyped
  <2>2. \A id \in DOMAIN sync.seen : ~(id >= nextId)
    BY <2>1, Zenon DEF IdsInOrder
  <2>3. \A id \in DOMAIN sync.seen : id < nextId
    BY <1>1, <2>1, <2>2
  <2> QED
    BY <1>2, <2>3, SeenStep, Zenon
<1> QED
  BY <1>1, <1>3, <1>4 DEF IdsInOrder

LEMMA ListTracked ==
    ASSUME HintsInv, List
    PROVE  Tracked'
<1>0. HintsTyped /\ sync \in Syncs /\ sync.pc = "list" /\ DOMAIN sync.seen = {}
  BY DEF HintsInv, HintsTyped, List, InPlace
<1>1. CASE Stop
  BY <1>0, <1>1, StopPlaced DEF Tracked, Fetched, Assigned, WiredSoFar, Planned
<1>2. CASE sync' = [sync EXCEPT !.pc = "fetch", !.fetch = Present] /\ UNCHANGED hints
  <2>1. sync'.pc = "fetch" /\ sync'.fetch = Present /\ DOMAIN sync'.seen = {}
    BY <1>0, <1>2, ListPlaced
  <2>2. Present' = Present
    BY <1>2 DEF Present
  <2> QED
    BY <2>1, <2>2 DEF Tracked, Fetched, Assigned, WiredSoFar, Planned
<1> QED
  BY <1>1, <1>2 DEF List, Failed

LEMMA FetchTracked ==
    ASSUME HintsInv, Fetch
    PROVE  Tracked'
<1>0. /\ HintsTyped /\ sync \in Syncs /\ sync.pc = "fetch" /\ disturbed' = disturbed
      /\ ~disturbed => Fetched
  BY DEF HintsInv, HintsTyped, Fetch, Tracked
<1>1. CASE Stop
  BY <1>0, <1>1, StopPlaced DEF Tracked, Fetched, Assigned, WiredSoFar, Planned
<1>2. ASSUME NEW id \in Present, UNCHANGED hints,
             sync' = [sync EXCEPT !.fetch = @ \ {id},
                        !.seen = [i \in DOMAIN @ \cup {id} |-> IF i = id THEN hints[id] ELSE @[i]]]
      PROVE  Tracked'
  <2>1. /\ sync'.pc = "fetch" /\ sync'.fetch = sync.fetch \ {id}
        /\ DOMAIN sync'.seen = DOMAIN sync.seen \cup {id}
        /\ \A i \in DOMAIN sync'.seen : sync'.seen[i] = IF i = id THEN hints[id] ELSE sync.seen[i]
    BY <1>0, <1>2, FetchPlaced
  <2>2. Present' = Present
    BY <1>2 DEF Present
  <2>3. ASSUME ~disturbed
        PROVE  /\ Present' = DOMAIN sync'.seen \cup sync'.fetch
               /\ \A i \in DOMAIN sync'.seen : hints'[i] = sync'.seen[i]
    BY <1>0, <1>2, <2>1, <2>2, <2>3 DEF Fetched
  <2> QED
    BY <1>0, <2>1, <2>3 DEF Tracked, Fetched, Assigned, WiredSoFar, Planned
<1> QED
  BY <1>1, <1>2 DEF Fetch, Failed

LEMMA PlanTracked ==
    ASSUME HintsInv, Plan
    PROVE  Tracked'
<1> DEFINE ids == IdByIndex(sync.list, sync.seen)
<1>0. /\ HintsTyped /\ sync \in Syncs /\ sync.pc = "fetch" /\ sync.fetch = {}
      /\ disturbed' = disturbed /\ hints' = hints /\ (~disturbed => Fetched)
      /\ sync' = [sync EXCEPT !.pc = "create", !.idByIndex = ids, !.deletes = Deletes(ids, sync.seen)]
  BY DEF HintsInv, HintsTyped, Plan, Tracked
<1>1. /\ sync'.pc = "create" /\ sync'.list = sync.list /\ sync'.idByIndex = ids
      /\ sync'.deletes = Deletes(ids, sync.seen) /\ sync'.seen = sync.seen /\ sync'.next = 1
  BY <1>0, PlanPlaced
<1> SUFFICES ASSUME ~disturbed PROVE Assigned' /\ WiredSoFar'
  BY <1>0, <1>1 DEF Tracked, Fetched
<1>2. Present' = Present /\ Present = DOMAIN sync.seen /\ \A id \in Present : hints[id] = sync.seen[id]
  BY <1>0 DEF Fetched, Present
<1>3. sync.list \in SpecLists /\ DOMAIN sync.seen \subseteq Ids
  BY <1>0, SyncType
<1> HIDE DEF ids
<1>4. Ordered(sync.list, ids)
  BY <1>3, PlanOrdered DEF ids
<1>5. ASSUME NEW i \in DOMAIN sync.list, ids[i] # NoId
      PROVE  ids[i] \in Present /\ hints[ids[i]].key = sync.list[i].key
  <2>1. ids[i] \in EqualIn(sync.list, sync.seen, i)
    BY <1>3, <1>5, Matched DEF ids
  <2> QED
    BY <1>2, <2>1 DEF EqualIn
<1>6. Deletes(ids, sync.seen) = Present \ Used(ids)
  BY <1>2 DEF Deletes
<1>7. ASSUME NEW i \in DOMAIN sync.list, ids[i] = NoId, NEW id \in Present \ Used(ids)
      PROVE  hints[id].key # sync.list[i].key
  <2> SUFFICES ASSUME hints[id].key = sync.list[i].key PROVE FALSE
    OBVIOUS
  <2>1. id \in EqualIn(sync.list, sync.seen, i)
    BY <1>2 DEF EqualIn
  <2>2. PICK j \in DOMAIN sync.list : ids[j] = id
    BY <1>3, <1>7, <2>1, PlanSpare DEF ids
  <2>3. DOMAIN ids = DOMAIN sync.list
    BY IdByIndexIs DEF ids
  <2> QED
    BY <1>7, <2>2, <2>3 DEF Used
<1>8. Assigned'
  BY <1>0, <1>1, <1>2, <1>4, <1>5, <1>6, <1>7 DEF Assigned, Ordered, Used
<1>9. WiredSoFar'
  <2>1. ASSUME NEW i \in DOMAIN sync.list, ids[i] # NoId
        PROVE  /\ hints[ids[i]].requires = PrereqsOf(sync.seen, ids[i])
               /\ hints[ids[i]].anonymize = AnonymizeOf(sync.seen, ids[i]) /\ ~(i < 1)
    <3>1. ~(i < 1)
      BY <1>3, ListType
    <3> QED
      BY <1>2, <1>5, <2>1, <3>1 DEF PrereqsOf, AnonymizeOf
  <2> QED
    BY <1>0, <1>1, <2>1 DEF WiredSoFar, AsListed, PrereqsOf, AnonymizeOf
<1> QED
  BY <1>8, <1>9

\* What holds of a list that is planned and has not been disturbed.
LEMMA AssignedIds ==
    ASSUME HintsInv, Planned
    PROVE  /\ HintsTyped /\ TypeOK /\ IdsInOrder /\ sync \in Syncs
           /\ \A i \in DOMAIN sync.list : i \in Nat \ {0}
           /\ DOMAIN sync.idByIndex = DOMAIN sync.list /\ Present \subseteq Ids /\ NoId \notin Present
           /\ \A i \in DOMAIN sync.list : sync.idByIndex[i] \in Used(sync.idByIndex)
           /\ ~disturbed =>
                 /\ Assigned /\ WiredSoFar
                 /\ \A i, j \in DOMAIN sync.list :
                       sync.idByIndex[i] # NoId /\ sync.idByIndex[i] = sync.idByIndex[j] => i = j
<1>1. /\ HintsTyped /\ TypeOK /\ IdsInOrder /\ sync \in Syncs /\ sync.list \in SpecLists
      /\ DOMAIN sync.idByIndex = DOMAIN sync.list /\ Present \subseteq Ids /\ NoId \notin Present
  BY SyncType, PresentType, IdsType DEF HintsInv, HintsTyped, InPlace
<1>2. \A i \in DOMAIN sync.list : i \in Nat \ {0}
  BY <1>1, ListType
<1>3. \A i \in DOMAIN sync.list : sync.idByIndex[i] \in Used(sync.idByIndex)
  BY <1>1 DEF Used
<1>4. ASSUME ~disturbed
      PROVE  /\ Assigned /\ WiredSoFar
             /\ \A i, j \in DOMAIN sync.list :
                   sync.idByIndex[i] # NoId /\ sync.idByIndex[i] = sync.idByIndex[j] => i = j
  <2>1. Assigned /\ WiredSoFar
    BY <1>4 DEF HintsInv, Tracked
  <2>2. ASSUME NEW i \in DOMAIN sync.list, NEW j \in DOMAIN sync.list,
               sync.idByIndex[i] # NoId, sync.idByIndex[i] = sync.idByIndex[j], i < j
        PROVE  FALSE
    <3>1. sync.list[i].key = sync.list[j].key /\ sync.idByIndex[i] \in Present
      BY <2>1, <2>2 DEF Assigned
    <3>2. sync.idByIndex[i] < sync.idByIndex[j]
      BY <2>1, <2>2, <3>1 DEF Assigned, Ordered
    <3>3. sync.idByIndex[i] \in Nat
      BY <1>1, <3>1, IdsType
    <3> QED
      BY <2>2, <3>2, <3>3
  <2> QED
    BY <1>2, <2>1, <2>2
<1> QED
  BY <1>1, <1>2, <1>3, <1>4

LEMMA CreateTracked ==
    ASSUME HintsInv, Create
    PROVE  Tracked'
<1> DEFINE i0 == First(Missing)
           key == sync.list[i0].key
           ids == sync.idByIndex
           newIds == [ids EXCEPT ![i0] = nextId]
<1>0. Planned /\ HintsTyped /\ sync \in Syncs /\ sync.pc = "create" /\ disturbed' = disturbed
      /\ Missing # {}
  BY DEF HintsInv, HintsTyped, Create, Planned
<1>1. CASE Stop
  BY <1>0, <1>1, StopPlaced DEF Tracked, Fetched, Assigned, WiredSoFar, Planned
<1>2. ASSUME Posted(NewHint(key)), sync' = [sync EXCEPT !.idByIndex[i0] = nextId], ~disturbed
      PROVE  Assigned' /\ WiredSoFar' /\ sync'.pc = "create"
  <2>1. i0 \in Missing /\ i0 \in DOMAIN sync.list /\ \A j \in Missing : i0 <= j
    BY <1>0, FirstOfList DEF Missing
  <2>2. /\ sync'.pc = "create" /\ sync'.list = sync.list /\ sync'.idByIndex = newIds
        /\ sync'.deletes = sync.deletes /\ sync'.seen = sync.seen /\ sync'.next = 1
    BY <1>0, <1>2, <2>1, CreatePlaced DEF Posted
  <2>3. /\ \A i \in DOMAIN sync.list : i \in Nat \ {0}
        /\ DOMAIN ids = DOMAIN sync.list /\ Present \subseteq Ids /\ NoId \notin Present
        /\ Assigned /\ WiredSoFar /\ sync.next = 1
    BY <1>0, <1>2, AssignedIds DEF HintsTyped, InPlace
  <2>4. NewHint(key) \in CTFdHints
    <3>1. sync.list[i0] \in SpecHints
      BY <1>0, <2>1, SyncType, ListType
    <3> QED
      BY <3>1, NewHintType DEF SpecHints
  <2>5. /\ nextId \in Ids /\ nextId \notin Present /\ nextId \notin DOMAIN sync.seen
        /\ Present' = Present \cup {nextId} /\ hints'[nextId] = NewHint(key)
        /\ \A id \in Present : hints'[id] = hints[id]
    BY <1>2, <2>4, PresentAfterPost DEF HintsInv
  <2>6. newIds[i0] = nextId /\ DOMAIN newIds = DOMAIN ids
        /\ \A i \in DOMAIN sync.list \ {i0} : newIds[i] = ids[i]
    BY <2>1, <2>3
  <2>7. \A id \in Present : id < nextId
    BY <2>3, <2>5, IdsType DEF HintsInv, IdsInOrder, Present
  <2>8. nextId # NoId /\ ids[i0] = NoId
    BY <2>1, <2>5, IdsType DEF Missing
  <2> HIDE DEF newIds, key, i0
  <2>9. ASSUME NEW i \in DOMAIN sync.list, ids[i] # NoId
        PROVE  i # i0 /\ newIds[i] = ids[i] /\ ids[i] \in Present /\ hints'[ids[i]] = hints[ids[i]]
    BY <1>0, <2>3, <2>5, <2>6, <2>8, <2>9 DEF Assigned
  <2>10. Ordered(sync.list, newIds)
    <3> SUFFICES ASSUME NEW i \in DOMAIN sync.list, NEW j \in DOMAIN sync.list, i < j,
                        sync.list[i].key = sync.list[j].key, newIds[j] # NoId
                 PROVE  newIds[i] # NoId /\ newIds[i] < newIds[j]
      BY DEF Ordered
    <3>1. CASE j = i0
      <4>1. i \notin Missing
        BY <2>1, <2>3, <3>1
      <4>2. ids[i] # NoId
        BY <4>1 DEF Missing
      <4> QED
        BY <2>6, <2>7, <2>9, <3>1, <4>2
    <3>2. CASE j # i0
      <4>1. ids[j] # NoId
        BY <2>6, <3>2
      <4>2. ids[i] # NoId /\ ids[i] < ids[j]
        BY <1>0, <2>3, <4>1 DEF Assigned, Ordered
      <4> QED
        BY <2>6, <2>9, <3>2, <4>2
    <3> QED
      BY <3>1, <3>2
  <2>11. ASSUME NEW i \in DOMAIN sync.list, newIds[i] # NoId
         PROVE  newIds[i] \in Present' /\ hints'[newIds[i]].key = sync.list[i].key
    <3>1. CASE i = i0
      BY <2>5, <2>6, <3>1 DEF NewHint, key
    <3>2. CASE i # i0
      BY <1>0, <2>3, <2>5, <2>6, <2>9, <2>11, <3>2 DEF Assigned
    <3> QED
      BY <3>1, <3>2
  <2>12. sync.deletes = Present' \ Used(newIds)
    <3>1. sync.deletes = Present \ Used(ids)
      BY <1>0, <2>3 DEF Assigned
    <3>2. nextId \in Used(newIds)
      BY <2>1, <2>3, <2>6 DEF Used
    <3>3. ASSUME NEW id \in Present PROVE id \in Used(ids) <=> id \in Used(newIds)
      <4>1. id # NoId /\ id # nextId
        BY <2>3, <2>5
      <4>2. \A i \in DOMAIN sync.list : ids[i] = id <=> newIds[i] = id
        BY <2>6, <2>8, <4>1
      <4> QED
        BY <2>3, <2>6, <4>2 DEF Used
    <3> QED
      BY <2>5, <3>1, <3>2, <3>3
  <2>13. ASSUME NEW i \in DOMAIN sync.list, newIds[i] = NoId, NEW id \in sync.deletes
         PROVE  hints'[id].key # sync.list[i].key
    <3>1. i # i0 /\ ids[i] = NoId
      BY <2>6, <2>8, <2>13
    <3>2. id \in Present
      BY <1>0, <2>3 DEF Assigned
    <3> QED
      BY <1>0, <2>3, <2>5, <3>1, <3>2 DEF Assigned
  <2>14. Assigned'
    BY <2>2, <2>10, <2>11, <2>12, <2>13 DEF Assigned, Ordered, Used
  <2>15. ASSUME NEW i \in DOMAIN sync.list, newIds[i] # NoId
         PROVE  /\ hints'[newIds[i]].requires = PrereqsOf(sync.seen, newIds[i])
                /\ hints'[newIds[i]].anonymize = AnonymizeOf(sync.seen, newIds[i]) /\ ~(i < 1)
    <3>0. ~(i < 1) /\ ~(i < sync.next)
      BY <2>3
    <3>1. CASE i = i0
      BY <2>5, <2>6, <3>0, <3>1 DEF NewHint, PrereqsOf, AnonymizeOf
    <3>2. CASE i # i0
      <4>1. ids[i] # NoId /\ newIds[i] = ids[i] /\ hints'[ids[i]] = hints[ids[i]]
        BY <2>6, <2>9, <2>15, <3>2
      <4>2. AsListed(i)
        BY <1>0, <2>3, <3>0, <4>1 DEF WiredSoFar
      <4> QED
        BY <3>0, <4>1, <4>2 DEF AsListed
    <3> QED
      BY <3>1, <3>2
  <2>16. WiredSoFar'
    BY <2>2, <2>15 DEF WiredSoFar, AsListed, PrereqsOf, AnonymizeOf
  <2> QED
    BY <2>2, <2>14, <2>16
<1>3. Stop \/ (Posted(NewHint(key)) /\ sync' = [sync EXCEPT !.idByIndex[i0] = nextId])
  BY DEF Create, Answered, Failed, Lost, Posted, NewHint
<1> QED
  BY <1>0, <1>1, <1>2, <1>3 DEF Tracked, Fetched

\* What the comparison with the listing says stays, if its terms do.
LEMMA SameRequired ==
    ASSUME sync'.list = sync.list, sync'.idByIndex = sync.idByIndex, sync'.seen = sync.seen
    PROVE  \A i : /\ AsRequired(sync.list, sync.seen, sync.idByIndex, i)'
                        <=> AsRequired(sync.list, sync.seen, sync.idByIndex, i)
                  /\ Wiring(i)' = Wiring(i)
BY DEF AsRequired, Wiring, MapPrereqs, PrereqsOf, AnonymizeOf

LEMMA WireTracked ==
    ASSUME HintsInv, Wire
    PROVE  Tracked'
<1> DEFINE i0 == First(Unwired)
           ids == sync.idByIndex
           id0 == ids[i0]
<1>0. /\ Planned /\ Missing = {} /\ HintsTyped /\ sync \in Syncs /\ disturbed' = disturbed
      /\ Unwired # {}
  BY DEF HintsInv, HintsTyped, InPlace, Wire, Planned
<1>1. CASE Stop
  BY <1>0, <1>1, StopPlaced DEF Tracked, Fetched, Assigned, WiredSoFar, Planned
<1>2. ASSUME id0 \in Present, Changed(id0, Wiring(i0)), ~disturbed,
             sync' = [sync EXCEPT !.pc = "wire", !.next = i0 + 1]
      PROVE  Assigned' /\ WiredSoFar' /\ sync'.pc = "wire"
  <2>1. i0 \in Unwired /\ i0 \in DOMAIN sync.list /\ i0 >= sync.next /\ \A j \in Unwired : i0 <= j
    BY <1>0, FirstOfList DEF Unwired
  <2>2. /\ sync'.pc = "wire" /\ sync'.list = sync.list /\ sync'.idByIndex = ids
        /\ sync'.deletes = sync.deletes /\ sync'.seen = sync.seen /\ sync'.next = i0 + 1
    BY <1>0, <1>2, <2>1, WirePlaced
  <2>3. /\ \A i \in DOMAIN sync.list : i \in Nat \ {0}
        /\ Present \subseteq Ids /\ NoId \notin Present /\ Assigned /\ WiredSoFar
        /\ \A i, j \in DOMAIN sync.list : ids[i] # NoId /\ ids[i] = ids[j] => i = j
    BY <1>0, <1>2, AssignedIds
  <2>4. Wiring(i0) \in CTFdHints
    BY <1>0, <2>1, WiringType
  <2>5. Present' = Present /\ hints'[id0] = Wiring(i0) /\ \A o \in Ids \ {id0} : hints'[o] = hints[o]
    BY <1>0, <1>2, <2>4, PresentType, PresentAfterChange DEF HintsTyped
  <2>6. sync.next \in Nat
    BY <1>0, SyncType
  <2> HIDE DEF i0, id0
  <2>7. \A i \in DOMAIN sync.list : ids[i] # NoId
    BY <1>0 DEF Missing
  <2>8. ASSUME NEW i \in DOMAIN sync.list
        PROVE  ids[i] \in Present /\ (i # i0 => hints'[ids[i]] = hints[ids[i]])
    <3>1. ids[i] \in Present
      BY <1>0, <2>3, <2>7 DEF Assigned
    <3>2. i # i0 => ids[i] # id0
      BY <2>1, <2>3, <2>7 DEF id0
    <3> QED
      BY <2>3, <2>5, <3>1, <3>2
  <2>9. ASSUME NEW i \in DOMAIN sync.list
        PROVE  hints'[ids[i]].key = sync.list[i].key
    <3>1. CASE i = i0
      BY <2>5, <3>1 DEF Wiring, id0
    <3>2. CASE i # i0
      BY <1>0, <2>3, <2>7, <2>8, <3>2 DEF Assigned
    <3> QED
      BY <3>1, <3>2
  <2>10. Ordered(sync.list, ids) /\ sync.deletes = Present \ Used(ids)
    BY <1>0, <2>3 DEF Assigned
  <2>11. Assigned'
    BY <2>2, <2>5, <2>7, <2>8, <2>9, <2>10 DEF Assigned, Ordered, Used
  <2>12. ASSUME NEW i \in DOMAIN sync.list
         PROVE  AsListed(i)' \/ (i < sync'.next /\ hints'[ids[i]] = Wiring(i)')
    <3>1. CASE i = i0
      <4>1. i < sync'.next
        BY <2>2, <2>3, <3>1
      <4>2. hints'[ids[i]] = Wiring(i)'
        BY <2>2, <2>5, <3>1, SameRequired DEF id0
      <4> QED
        BY <4>1, <4>2
    <3>2. CASE i # i0 /\ i < sync.next /\ hints[ids[i]] = Wiring(i)
      <4>1. i < sync'.next
        BY <2>1, <2>2, <2>3, <2>6, <3>2
      <4>2. hints'[ids[i]] = Wiring(i)'
        BY <2>2, <2>8, <3>2, SameRequired
      <4> QED
        BY <4>1, <4>2
    <3>3. CASE i # i0 /\ AsListed(i)
      <4>1. /\ hints'[ids[i]].requires = PrereqsOf(sync.seen, ids[i])
            /\ hints'[ids[i]].anonymize = AnonymizeOf(sync.seen, ids[i])
        BY <2>8, <3>3 DEF AsListed
      <4>2. ASSUME i < sync'.next PROVE AsRequired(sync.list, sync.seen, sync.idByIndex, i)
        <5>1. i < i0 /\ i \notin Unwired
          BY <2>1, <2>2, <2>3, <3>3, <4>2
        <5>2. CASE i < sync.next
          BY <3>3, <5>2 DEF AsListed
        <5>3. CASE i >= sync.next
          BY <5>1, <5>3 DEF Unwired
        <5> QED
          BY <2>3, <2>6, <5>2, <5>3
      <4>3. i < sync'.next => AsRequired(sync.list, sync.seen, sync.idByIndex, i)'
        BY <2>2, <4>2, SameRequired
      <4>4. /\ PrereqsOf(sync.seen, sync.idByIndex[i])' = PrereqsOf(sync.seen, ids[i])
            /\ AnonymizeOf(sync.seen, sync.idByIndex[i])' = AnonymizeOf(sync.seen, ids[i])
        BY <2>2 DEF PrereqsOf, AnonymizeOf
      <4> QED
        BY <2>2, <4>1, <4>3, <4>4 DEF AsListed
    <3> QED
      BY <1>0, <2>3, <2>7, <3>1, <3>2, <3>3 DEF WiredSoFar
  <2>13. WiredSoFar'
    BY <2>2, <2>12 DEF WiredSoFar
  <2> QED
    BY <2>2, <2>11, <2>13
<1>3. \/ Stop
      \/ id0 \in Present /\ Changed(id0, Wiring(i0)) /\ sync' = [sync EXCEPT !.pc = "wire", !.next = i0 + 1]
  BY DEF Wire, Answered, Failed, Lost, Changed
<1> QED
  BY <1>0, <1>1, <1>2, <1>3 DEF Tracked, Fetched

LEMMA DeleteTracked ==
    ASSUME HintsInv, Delete
    PROVE  Tracked'
<1> DEFINE ids == sync.idByIndex
<1>0. /\ Planned /\ Wired /\ HintsTyped /\ sync \in Syncs /\ disturbed' = disturbed
  BY DEF HintsInv, HintsTyped, Delete, Wired, Planned
<1>1. CASE Stop
  BY <1>0, <1>1, StopPlaced DEF Tracked, Fetched, Assigned, WiredSoFar, Planned
<1>2. ASSUME NEW id \in sync.deletes, id \in Present, Changed(id, NoHint), ~disturbed,
             sync' = [sync EXCEPT !.pc = "delete", !.deletes = @ \ {id}]
      PROVE  Assigned' /\ WiredSoFar' /\ sync'.pc = "delete"
  <2>1. /\ sync'.pc = "delete" /\ sync'.list = sync.list /\ sync'.idByIndex = ids
        /\ sync'.deletes = sync.deletes \ {id} /\ sync'.seen = sync.seen /\ sync'.next = sync.next
    BY <1>0, <1>2, DeletePlaced
  <2>2. Assigned /\ WiredSoFar /\ Present \subseteq Ids
        /\ \A i \in DOMAIN sync.list : ids[i] \in Used(ids)
    BY <1>0, <1>2, AssignedIds
  <2>3. Present' = Present \ {id} /\ \A o \in Ids \ {id} : hints'[o] = hints[o]
    BY <1>0, <1>2, PresentAfterChange DEF HintsTyped
  <2>4. sync.deletes = Present \ Used(ids) /\ id \notin Used(ids) /\ Ordered(sync.list, ids)
    BY <1>0, <1>2, <2>2 DEF Assigned
  <2>5. ASSUME NEW i \in DOMAIN sync.list, ids[i] # NoId
        PROVE  ids[i] \in Present' /\ hints'[ids[i]] = hints[ids[i]]
    BY <1>0, <2>2, <2>3, <2>4, <2>5 DEF Assigned
  <2>6. \A o \in sync'.deletes : hints'[o] = hints[o] /\ o \in sync.deletes
    BY <2>1, <2>2, <2>3, <2>4
  <2>7. Present' \ Used(ids) = sync.deletes \ {id}
    BY <2>3, <2>4
  <2>8. Assigned'
    <3>1. \A i \in DOMAIN sync.list : ids[i] # NoId =>
             ids[i] \in Present' /\ hints'[ids[i]].key = sync.list[i].key
      BY <1>0, <2>2, <2>5 DEF Assigned
    <3>2. \A i \in DOMAIN sync.list : ids[i] = NoId =>
             \A o \in sync'.deletes : hints'[o].key # sync.list[i].key
      BY <1>0, <2>2, <2>6 DEF Assigned
    <3> QED
      BY <2>1, <2>4, <2>7, <3>1, <3>2 DEF Assigned, Ordered, Used
  <2>9. WiredSoFar'
    <3>1. \A i : /\ PrereqsOf(sync.seen, sync.idByIndex[i])' = PrereqsOf(sync.seen, ids[i])
                 /\ AnonymizeOf(sync.seen, sync.idByIndex[i])' = AnonymizeOf(sync.seen, ids[i])
      BY <2>1 DEF PrereqsOf, AnonymizeOf
    <3> SUFFICES ASSUME NEW i \in DOMAIN sync.list, ids[i] # NoId
                 PROVE  AsListed(i)' \/ (i < sync'.next /\ hints'[ids[i]] = Wiring(i)')
      BY <2>1 DEF WiredSoFar
    <3>2. AsListed(i) \/ (i < sync.next /\ hints[ids[i]] = Wiring(i))
      BY <1>0, <2>2 DEF WiredSoFar
    <3>3. CASE AsListed(i)
      BY <2>1, <2>5, <3>1, <3>3, SameRequired DEF AsListed
    <3>4. CASE i < sync.next /\ hints[ids[i]] = Wiring(i)
      BY <2>1, <2>5, <3>4, SameRequired
    <3> QED
      BY <3>2, <3>3, <3>4
  <2> QED
    BY <2>1, <2>8, <2>9
<1>3. \/ Stop
      \/ \E id \in sync.deletes :
            /\ id \in Present /\ Changed(id, NoHint)
            /\ sync' = [sync EXCEPT !.pc = "delete", !.deletes = @ \ {id}]
  BY DEF Delete, Answered, Failed, Lost, Changed
<1> QED
  BY <1>0, <1>1, <1>2, <1>3 DEF Tracked, Fetched

LEMMA TrackedStep ==
    ASSUME HintsInv, [Next]_vars
    PROVE  Tracked'
<1>0. HintsTyped /\ sync \in Syncs
  BY DEF HintsInv, HintsTyped
<1>1. CASE sync'.pc \in {"idle", "list"}
  BY <1>1 DEF Tracked, Fetched, Assigned, WiredSoFar, Planned
<1>2. CASE BeginOutOfDate \/ BeginAnyway
  BY <1>0, <1>1, <1>2, BeginPlaced DEF BeginOutOfDate, BeginAnyway
<1>3. CASE Succeed \/ Crash
  BY <1>0, <1>1, <1>3, StopPlaced DEF Succeed, Crash, Failed
<1>4. CASE AdminActs
  BY <1>4 DEF AdminActs, Tracked
<1>5. CASE UNCHANGED <<hints, sync, disturbed>>
  <2>1. Present' = Present
    BY <1>5 DEF Present
  <2>2. \A i : AsListed(i)' <=> AsListed(i)
    BY <1>5 DEF AsListed, AsRequired, MapPrereqs, PrereqsOf, AnonymizeOf
  <2>3. \A i : Wiring(i)' = Wiring(i)
    BY <1>5, SameRequired
  <2>4. Fetched => Fetched'
    BY <1>5, <2>1 DEF Fetched
  <2>5. Assigned => Assigned'
    BY <1>5, <2>1 DEF Assigned, Planned, Ordered, Used
  <2>6. WiredSoFar => WiredSoFar'
    BY <1>5, <2>2, <2>3 DEF WiredSoFar, Planned
  <2> QED
    BY <1>5, <2>4, <2>5, <2>6 DEF HintsInv, Tracked
<1> QED
  BY <1>2, <1>3, <1>4, <1>5, ListTracked, FetchTracked, PlanTracked, CreateTracked, WireTracked,
     DeleteTracked DEF Next, Provider, EditSpec, vars

LEMMA HintsStep ==
    ASSUME HintsInv, [Next]_vars
    PROVE  HintsInv'
BY TypeStep, OrderStep, TrackedStep DEF HintsInv

LEMMA HintsInitially ==
    ASSUME Init
    PROVE  HintsInv
<1>1. HintsTyped
  BY InitialType
<1>2. sync.pc = "idle" /\ DOMAIN sync.seen = {}
  BY NoSyncType DEF Init
<1>3. IdsInOrder
  BY <1>2 DEF Init, IdsInOrder
<1> QED
  BY <1>1, <1>2, <1>3 DEF HintsInv, Tracked, Fetched, Assigned, WiredSoFar, Planned

\* Once everything is wired, and until something is deleted: the hints of the
\* list are in CTFd as it wants them.
LEMMA WiredAsWanted ==
    ASSUME HintsInv, Wired, ~disturbed, NEW i \in DOMAIN sync.list
    PROVE  LET id == sync.idByIndex[i] IN
           /\ id # NoId /\ id \in Present /\ hints[id].key = sync.list[i].key
           /\ hints[id].requires = MapPrereqs(sync.list, sync.idByIndex, i)
           /\ sync.list[i].pre # {} /\ sync.list[i].anonymize # Unset =>
                 hints[id].anonymize = sync.list[i].anonymize
<1> DEFINE id == sync.idByIndex[i]
<1>1. /\ Planned /\ Assigned /\ WiredSoFar /\ sync.next \in Nat /\ i \in Nat
  <2>1. Planned
    BY DEF Wired, Planned
  <2> QED
    BY <2>1, AssignedIds, SyncType
<1>2. id # NoId /\ i \notin Unwired
  BY DEF Wired, Missing
<1>3. id \in Present /\ hints[id].key = sync.list[i].key
  BY <1>1, <1>2 DEF Assigned
<1>4. CASE hints[id] = Wiring(i)
  BY <1>2, <1>3, <1>4 DEF Wiring
<1>5. CASE AsListed(i)
  <2>1. AsRequired(sync.list, sync.seen, sync.idByIndex, i)
    BY <1>1, <1>2, <1>5 DEF AsListed, Unwired
  <2> QED
    BY <1>2, <1>3, <1>5, <2>1 DEF AsListed, AsRequired
<1> QED
  BY <1>1, <1>2, <1>4, <1>5 DEF WiredSoFar

----------------------------------------------------------------------------
(***************************************************************************)
(* Deleting a hint never takes the prerequisite of a hint that stays: what *)
(* the list's hints require are hints of the list, none of which is to be  *)
(* deleted, and the requirements are rewired before the first DELETE.      *)
(***************************************************************************)
THEOREM DeletesAreSafe == Spec => DeletesNoPrerequisite
<1>1. ASSUME HintsInv, Delete, ~disturbed, NEW id \in Used(sync.idByIndex), id \in Present
      PROVE  hints'[id].requires \subseteq {o \in Ids : hints'[o] # NoHint}
  <2>1. /\ Wired /\ Planned /\ HintsTyped /\ Valid(sync.list) /\ sync.list \in SpecLists
        /\ hints \in [Ids -> CTFdHints \cup {NoHint}]
    BY <1>1, SyncType DEF HintsInv, HintsTyped, TypeOK, InPlace, Delete, Wired, Planned
  <2>2. /\ DOMAIN sync.idByIndex = DOMAIN sync.list /\ Present \subseteq Ids
        /\ sync.deletes = Present \ Used(sync.idByIndex)
    BY <1>1, <2>1, AssignedIds DEF Assigned
  <2>3. PICK i \in DOMAIN sync.list : sync.idByIndex[i] = id
    BY <1>1, <2>2 DEF Used
  <2>4. hints[id].requires \subseteq Used(sync.idByIndex)
    BY <1>1, <2>1, <2>2, <2>3, WiredAsWanted, PrereqsMapped
  <2>5. Used(sync.idByIndex) \subseteq Present
    <3>1. \A j \in DOMAIN sync.list : sync.idByIndex[j] \in Present
      BY <1>1, <2>1, WiredAsWanted
    <3> QED
      BY <2>2, <3>1 DEF Used
  <2>6. CASE UNCHANGED hints
    BY <2>2, <2>4, <2>5, <2>6 DEF Present
  <2>7. ASSUME NEW d \in sync.deletes, hints' = [hints EXCEPT ![d] = NoHint]
        PROVE  hints'[id].requires \subseteq {o \in Ids : hints'[o] # NoHint}
    <3>1. d \notin Used(sync.idByIndex)
      BY <2>2
    <3>2. \A o \in Used(sync.idByIndex) : o \in Ids /\ hints'[o] = hints[o] /\ hints[o] # NoHint
      BY <2>1, <2>2, <2>5, <2>7, <3>1 DEF Present
    <3> QED
      BY <1>1, <2>4, <3>2
  <2> QED
    BY <1>1, <2>6, <2>7 DEF Delete, Answered, Failed, Lost
<1>2. HintsInv /\ [Next]_vars =>
         [Delete /\ ~disturbed => \A id \in Used(sync.idByIndex) :
             id \in Present => hints'[id].requires \subseteq {o \in Ids : hints'[o] # NoHint}]_vars
  BY <1>1
<1>3. Init => HintsInv
  BY HintsInitially
<1>4. HintsInv /\ [Next]_vars => HintsInv'
  BY HintsStep
<1> QED
  BY <1>2, <1>3, <1>4, PTL DEF Spec, DeletesNoPrerequisite

(***************************************************************************)
(* A syncHints that returns without an error, and that no administrator    *)
(* disturbed, has brought the hints to its list: a new look at CTFd would  *)
(* match them just as this one did and find nothing to do.                 *)
(***************************************************************************)
THEOREM SuccessIsUpToDate == Spec => SuccessMeansUpToDate
<1>1. ASSUME HintsInv, Succeed, ~disturbed PROVE HintsUpToDate(sync.list, InCTFd)
  <2> DEFINE ids == sync.idByIndex
  <2>1. /\ Wired /\ Planned /\ sync.deletes = {} /\ Valid(sync.list) /\ sync.list \in SpecLists
    BY <1>1, SyncType DEF HintsInv, HintsTyped, InPlace, Succeed, Wired, Planned
  <2>2. /\ DOMAIN ids = DOMAIN sync.list /\ Present \subseteq Ids
        /\ Present \subseteq Used(ids) /\ Ordered(sync.list, ids)
        /\ ids \in [DOMAIN sync.list -> Ids \cup {NoId}]
    BY <1>1, <2>1, AssignedIds, IdsAssigned DEF Assigned
  <2>3. DOMAIN InCTFd = Present /\ \A id \in Present : InCTFd[id] = hints[id]
    BY DEF InCTFd
  <2>4. \A i \in DOMAIN sync.list : /\ ids[i] # NoId /\ ids[i] \in Present
                                    /\ hints[ids[i]].key = sync.list[i].key
    BY <1>1, <2>1, WiredAsWanted
  <2>5. \A id \in Present : \E i \in DOMAIN sync.list : ids[i] = id
    BY <2>2 DEF Used
  <2>6. IdByIndex(sync.list, InCTFd) = ids
    <3>1. \A i \in DOMAIN sync.list : IdByIndex(sync.list, InCTFd)[i] = ids[i]
      BY <2>1, <2>2, <2>3, <2>4, <2>5, PlanAgain
    <3>2. \E f : IdByIndex(sync.list, InCTFd) = [i \in DOMAIN sync.list |-> f[i]]
      <4> DEFINE f == [i \in DOMAIN sync.list |->
                         IF MatchesIn(sync.list, InCTFd, i) = {} THEN NoId
                         ELSE CHOOSE id \in MatchesIn(sync.list, InCTFd, i) : TRUE]
      <4>1. IdByIndex(sync.list, InCTFd) = f
        BY IdByIndexIs
      <4>2. f = [i \in DOMAIN sync.list |-> f[i]]
        OBVIOUS
      <4> QED
        BY <4>1, <4>2
    <3> QED
      BY <2>2, <3>1, <3>2
  <2>7. Deletes(ids, InCTFd) = {}
    BY <2>2, <2>3 DEF Deletes
  <2>8. ASSUME NEW i \in DOMAIN sync.list PROVE AsRequired(sync.list, InCTFd, ids, i)
    <3>1. /\ ids[i] \in Present /\ InCTFd[ids[i]] = hints[ids[i]]
          /\ hints[ids[i]].requires = MapPrereqs(sync.list, ids, i)
          /\ sync.list[i].pre # {} /\ sync.list[i].anonymize # Unset =>
                hints[ids[i]].anonymize = sync.list[i].anonymize
      BY <1>1, <2>1, <2>3, WiredAsWanted
    <3>2. /\ PrereqsOf(InCTFd, ids[i]) = hints[ids[i]].requires
          /\ AnonymizeOf(InCTFd, ids[i]) = hints[ids[i]].anonymize
      BY <2>3, <3>1 DEF PrereqsOf, AnonymizeOf
    <3> QED
      BY <3>1, <3>2 DEF AsRequired
  <2> HIDE DEF ids
  <2> QED
    BY <2>1, <2>4, <2>6, <2>7, <2>8 DEF HintsUpToDate
<1>2. HintsInv /\ [Next]_vars =>
         [Succeed /\ ~disturbed => HintsUpToDate(sync.list, InCTFd)]_vars
  BY <1>1
<1>3. Init => HintsInv
  BY HintsInitially
<1>4. HintsInv /\ [Next]_vars => HintsInv'
  BY HintsStep
<1> QED
  BY <1>2, <1>3, <1>4, PTL DEF Spec, SuccessMeansUpToDate

----------------------------------------------------------------------------
(***************************************************************************)
(* The refinement: the hints as a bag of values.                           *)
(***************************************************************************)
HadIds(k) == {id \in Present : hints[id].key = k}
WantedAt(list, k) == {i \in DOMAIN list : list[i].key = k}

LEMMA CountTypes ==
    /\ \A k : IsFiniteSet(HadIds(k)) /\ Cardinality(HadIds(k)) \in Nat
    /\ \A list \in SpecLists : \A k :
          IsFiniteSet(WantedAt(list, k)) /\ Cardinality(WantedAt(list, k)) \in Nat
<1>1. \A k : HadIds(k) \subseteq Ids
  BY DEF HadIds, Present
<1>2. ASSUME NEW list \in SpecLists, NEW k
      PROVE  WantedAt(list, k) \subseteq 1..Len(list) /\ Len(list) \in Nat
  BY <1>2, ListType DEF WantedAt
<1> QED
  BY <1>1, <1>2, IdsType, FiniteInterval

LEMMA Counts ==
    /\ Had = [k \in HintKeys |-> Cardinality(HadIds(k))]
    /\ Had' = [k \in HintKeys |-> Cardinality(HadIds(k)')]
    /\ \A list : Wanted(list) = [k \in HintKeys |-> Cardinality(WantedAt(list, k))]
    /\ Had \in [HintKeys -> Nat] /\ \A list \in SpecLists : Wanted(list) \in [HintKeys -> Nat]
<1>1. /\ Had = [k \in HintKeys |-> Cardinality(HadIds(k))]
      /\ Had' = [k \in HintKeys |-> Cardinality(HadIds(k)')]
      /\ \A list : Wanted(list) = [k \in HintKeys |-> Cardinality(WantedAt(list, k))]
  BY DEF Had, HadIds, Wanted, WantedAt
<1> QED
  BY <1>1, CountTypes

LEMMA HadAfter == Had' \in [HintKeys -> Nat]
<1>1. \A k : HadIds(k)' \subseteq Ids
  BY DEF HadIds, Present, Ids
<1>2. \A k : Cardinality(HadIds(k)') \in Nat
  BY <1>1, IdsType
<1> QED
  BY <1>2, Counts

LEMMA SameHints ==
    ASSUME hints' = hints
    PROVE  Had' = Had
BY DEF Had, Present

\* A map that is one to one does not shrink a finite set.
LEMMA OneToOne ==
    ASSUME NEW S, NEW T, IsFiniteSet(T), NEW f \in [S -> T],
           \A a, b \in S : f[a] = f[b] => a = b
    PROVE  Cardinality(S) <= Cardinality(T)
<1>1. f \in Injection(S, T)
  BY Fun_IsInj
<1> QED
  BY <1>1, FS_Injection

\* While a hint is missing its value is one short, at least.
LEMMA MissingIsShort ==
    ASSUME HintsInv, Planned, ~disturbed, NEW i \in Missing
    PROVE  LET k == sync.list[i].key IN Cardinality(HadIds(k)) < Cardinality(WantedAt(sync.list, k))
<1> DEFINE k == sync.list[i].key
           T == WantedAt(sync.list, k) \ {i}
           f == [id \in HadIds(k) |-> CHOOSE j \in DOMAIN sync.list : sync.idByIndex[j] = id]
<1>1. /\ Assigned /\ NoId \notin Present /\ DOMAIN sync.idByIndex = DOMAIN sync.list
      /\ sync.list \in SpecLists
  BY AssignedIds, SyncType
<1>2. i \in DOMAIN sync.list /\ sync.idByIndex[i] = NoId
  BY DEF Missing
<1>3. ASSUME NEW id \in HadIds(k)
      PROVE  f[id] \in T /\ sync.idByIndex[f[id]] = id
  <2>1. id \in Present /\ hints[id].key = k
    BY DEF HadIds
  <2>2. id \in Used(sync.idByIndex)
    BY <1>1, <1>2, <2>1 DEF Assigned
  <2>3. \E j \in DOMAIN sync.list : sync.idByIndex[j] = id
    BY <1>1, <2>2 DEF Used
  <2>4. f[id] \in DOMAIN sync.list /\ sync.idByIndex[f[id]] = id
    BY <2>3
  <2> HIDE DEF f
  <2>5. sync.list[f[id]].key = k /\ f[id] # i
    BY <1>1, <1>2, <2>1, <2>4 DEF Assigned
  <2> QED
    BY <2>4, <2>5 DEF WantedAt
<1>4. f \in [HadIds(k) -> T]
  BY <1>3
<1>5. IsFiniteSet(T) /\ Cardinality(T) = Cardinality(WantedAt(sync.list, k)) - 1
  <2>1. i \in WantedAt(sync.list, k) /\ IsFiniteSet(WantedAt(sync.list, k))
    BY <1>1, <1>2, CountTypes DEF WantedAt
  <2> QED
    BY <2>1, FS_RemoveElement
<1> HIDE DEF f, T
<1>6. Cardinality(HadIds(k)) <= Cardinality(T)
  BY <1>3, <1>4, <1>5, OneToOne
<1> QED
  BY <1>1, <1>5, <1>6, CountTypes

\* Once none is missing no value is short, not even without the hints that are
\* to be deleted.
LEMMA NoneIsShort ==
    ASSUME HintsInv, Wired, ~disturbed, NEW k, NEW S, S \cap Used(sync.idByIndex) = {}
    PROVE  Cardinality(WantedAt(sync.list, k)) <= Cardinality(HadIds(k) \ S)
<1> DEFINE T == HadIds(k) \ S
           f == [i \in WantedAt(sync.list, k) |-> sync.idByIndex[i]]
<1>1. Planned
  BY DEF Wired, Planned
<1>2. ASSUME NEW i \in WantedAt(sync.list, k)
      PROVE  i \in DOMAIN sync.list /\ sync.idByIndex[i] \in T /\ sync.idByIndex[i] # NoId
  <2>1. i \in DOMAIN sync.list /\ sync.list[i].key = k
    BY DEF WantedAt
  <2>2. /\ sync.idByIndex[i] \in Present /\ hints[sync.idByIndex[i]].key = k
        /\ sync.idByIndex[i] # NoId
    BY <2>1, WiredAsWanted
  <2>3. sync.idByIndex[i] \in Used(sync.idByIndex)
    BY <1>1, <2>1, AssignedIds
  <2> QED
    BY <2>1, <2>2, <2>3 DEF HadIds
<1>3. f \in [WantedAt(sync.list, k) -> T]
  BY <1>2
<1>4. \A a, b \in WantedAt(sync.list, k) : f[a] = f[b] => a = b
  BY <1>1, <1>2, AssignedIds
<1>5. IsFiniteSet(T)
  BY CountTypes, FS_Subset
<1> HIDE DEF f, T
<1>6. Cardinality(WantedAt(sync.list, k)) <= Cardinality(T)
  BY <1>3, <1>4, <1>5, OneToOne
<1> QED
  BY <1>6 DEF T

Aside == spec' = spec /\ sync'.list = sync.list /\ disturbed' = disturbed

LEMMA SameAside ==
    ASSUME Aside, hints' = hints
    PROVE  UNCHANGED Target!vars
BY SameHints DEF Aside, Target!vars, Wanted

\* After an intervention anything goes, until the next listing.
LEMMA DisturbedAside ==
    ASSUME Aside, disturbed
    PROVE  Target!Next
<1>1. Target!Interfere
  BY HadAfter DEF Aside, Target!Interfere, Target!Counts, Wanted
<1> QED
  BY <1>1 DEF Target!Next

LEMMA CreateIsAdd ==
    ASSUME HintsInv, Create
    PROVE  Target!Next \/ UNCHANGED Target!vars
<1> DEFINE i0 == First(Missing)
           k0 == sync.list[i0].key
<1>1. /\ Planned /\ HintsTyped /\ sync \in Syncs /\ sync.pc = "create" /\ Missing # {}
      /\ spec' = spec /\ disturbed' = disturbed
  BY DEF HintsInv, HintsTyped, Create, Planned
<1>2. i0 \in Missing /\ i0 \in DOMAIN sync.list
  BY <1>1, FirstOfList DEF Missing
<1>3. sync.list[i0] \in SpecHints
  BY <1>1, <1>2, SyncType, ListType
<1>4. k0 \in HintKeys
  BY <1>3 DEF SpecHints
<1>5. Aside
  <2>1. ASSUME sync' = [sync EXCEPT !.idByIndex[i0] = nextId] PROVE sync'.list = sync.list
    BY <1>1, <2>1 DEF Syncs
  <2>2. Stop => sync'.list = sync.list
    BY <1>1, StopPlaced
  <2> QED
    BY <1>1, <2>1, <2>2 DEF Create, Answered, Failed, Lost, Aside
<1>6. UNCHANGED hints \/ Posted(NewHint(k0))
  BY DEF Create, Answered, Failed, Lost, Posted, NewHint
<1>7. ASSUME Posted(NewHint(k0)), ~disturbed PROVE Target!Add(k0)
  <2>1. /\ nextId \notin Present /\ Present' = Present \cup {nextId}
        /\ hints'[nextId] = NewHint(k0) /\ \A id \in Present : hints'[id] = hints[id]
    BY <1>1, <1>4, <1>7, NewHintType, PresentAfterPost DEF HintsInv
  <2>2. NewHint(k0).key = k0
    BY DEF NewHint
  <2> HIDE DEF k0, i0
  <2>3. \A k : HadIds(k)' = IF k = k0 THEN HadIds(k) \cup {nextId} ELSE HadIds(k)
    BY <2>1, <2>2 DEF HadIds
  <2>4. \A k : Cardinality(HadIds(k)') = IF k = k0 THEN Cardinality(HadIds(k)) + 1
                                         ELSE Cardinality(HadIds(k))
    <3>1. nextId \notin HadIds(k0)
      BY <2>1 DEF HadIds
    <3>2. Cardinality(HadIds(k0) \cup {nextId}) = Cardinality(HadIds(k0)) + 1
      BY <3>1, CountTypes, FS_AddElement
    <3> QED
      BY <2>3, <3>2
  <2>5. Had' = [Had EXCEPT ![k0] = @ + 1]
    BY <1>4, <2>4, Counts
  <2>6. Had[k0] < Wanted(sync.list)[k0]
    <3>1. Cardinality(HadIds(k0)) < Cardinality(WantedAt(sync.list, k0))
      BY <1>1, <1>2, <1>7, MissingIsShort DEF k0
    <3> QED
      BY <1>4, <3>1, Counts
  <2> QED
    BY <1>5, <2>5, <2>6 DEF Aside, Target!Add, Wanted
<1> QED
  BY <1>4, <1>5, <1>6, <1>7, SameAside, DisturbedAside DEF Target!Next

LEMMA WireKeepsValues ==
    ASSUME HintsInv, Wire
    PROVE  Target!Next \/ UNCHANGED Target!vars
<1> DEFINE i0 == First(Unwired)
           id0 == sync.idByIndex[i0]
<1>1. /\ Planned /\ Missing = {} /\ HintsTyped /\ TypeOK /\ sync \in Syncs /\ Unwired # {}
      /\ spec' = spec /\ disturbed' = disturbed
  BY DEF HintsInv, HintsTyped, InPlace, Wire, Planned
<1>2. i0 \in DOMAIN sync.list
  BY <1>1, FirstOfList DEF Unwired
<1>3. Aside
  <2>1. ASSUME sync' = [sync EXCEPT !.pc = "wire", !.next = i0 + 1] PROVE sync'.list = sync.list
    BY <1>1, <2>1 DEF Syncs
  <2>2. Stop => sync'.list = sync.list
    BY <1>1, StopPlaced
  <2> QED
    BY <1>1, <2>1, <2>2 DEF Wire, Answered, Failed, Lost, Aside
<1>4. UNCHANGED hints \/ (id0 \in Present /\ Changed(id0, Wiring(i0)))
  BY DEF Wire, Answered, Failed, Lost, Changed
<1>5. ASSUME id0 \in Present, Changed(id0, Wiring(i0)), ~disturbed
      PROVE  UNCHANGED Target!vars
  <2>1. Wiring(i0) \in CTFdHints /\ Wiring(i0) # NoHint
    BY <1>1, <1>2, WiringType, PresentType
  <2>2. /\ Present' = Present /\ hints'[id0] = Wiring(i0)
        /\ \A o \in Ids \ {id0} : hints'[o] = hints[o]
    BY <1>1, <1>5, <2>1, PresentAfterChange
  <2>3. hints[id0].key = sync.list[i0].key
    BY <1>1, <1>2, <1>5, AssignedIds DEF Assigned, Missing
  <2>4. hints'[id0].key = hints[id0].key
    BY <2>2, <2>3 DEF Wiring
  <2> HIDE DEF id0
  <2>5. Present \subseteq Ids
    BY DEF Present
  <2>6. \A id \in Present : hints'[id].key = hints[id].key
    BY <2>2, <2>4, <2>5
  <2>7. \A k : HadIds(k)' = HadIds(k)
    BY <2>2, <2>6 DEF HadIds
  <2>8. Had' = Had
    BY <2>7, Counts
  <2> QED
    BY <1>3, <2>8 DEF Aside, Target!vars, Wanted
<1> QED
  BY <1>3, <1>4, <1>5, SameAside, DisturbedAside

LEMMA DeleteIsRemove ==
    ASSUME HintsInv, Delete
    PROVE  Target!Next \/ UNCHANGED Target!vars
<1>1. /\ Wired /\ Planned /\ HintsTyped /\ TypeOK /\ sync \in Syncs
      /\ spec' = spec /\ disturbed' = disturbed
  BY DEF HintsInv, HintsTyped, Delete, Wired, Planned
<1>2. PICK d \in sync.deletes :
         /\ UNCHANGED hints \/ (d \in Present /\ Changed(d, NoHint))
         /\ Stop \/ sync' = [sync EXCEPT !.pc = "delete", !.deletes = @ \ {d}]
  BY DEF Delete, Answered, Failed, Lost, Changed
<1>3. Aside
  <2>1. ASSUME sync' = [sync EXCEPT !.pc = "delete", !.deletes = @ \ {d}] PROVE sync'.list = sync.list
    BY <1>1, <2>1 DEF Syncs
  <2>2. Stop => sync'.list = sync.list
    BY <1>1, StopPlaced
  <2> QED
    BY <1>1, <1>2, <2>1, <2>2 DEF Aside
<1>4. ASSUME d \in Present, Changed(d, NoHint), ~disturbed
      PROVE  Target!Next
  <2> DEFINE k0 == hints[d].key
  <2>1. Present' = Present \ {d} /\ \A o \in Ids \ {d} : hints'[o] = hints[o]
    BY <1>1, <1>4, PresentAfterChange
  <2>2. k0 \in HintKeys /\ d \in HadIds(k0)
    <3>1. hints[d] \in CTFdHints
      BY <1>1, <1>4, PresentType
    <3> QED
      BY <1>4, <3>1 DEF CTFdHints, HadIds
  <2>3. d \notin Used(sync.idByIndex)
    BY <1>1, <1>2, <1>4, AssignedIds DEF Assigned
  <2> HIDE DEF k0
  <2>4. \A k : HadIds(k)' = HadIds(k) \ {d}
    BY <2>1 DEF HadIds, Present
  <2>5. \A k : k # k0 => HadIds(k) \ {d} = HadIds(k)
    BY DEF HadIds, k0
  <2>6. /\ Cardinality(HadIds(k0) \ {d}) = Cardinality(HadIds(k0)) - 1
        /\ Cardinality(HadIds(k0)) \in Nat
    BY <2>2, CountTypes, FS_RemoveElement
  <2>7. Had' = [Had EXCEPT ![k0] = @ - 1]
    BY <2>2, <2>4, <2>5, <2>6, Counts
  <2>8. \A k : Cardinality(WantedAt(sync.list, k)) <= Cardinality(HadIds(k) \ {d})
    <3>1. {d} \cap Used(sync.idByIndex) = {}
      BY <2>3
    <3> QED
      BY <1>1, <1>4, <3>1, NoneIsShort
  <2>9. sync.list \in SpecLists
    BY <1>1, SyncType
  <2>10. Cardinality(HadIds(k0)) > Cardinality(WantedAt(sync.list, k0))
    BY <2>6, <2>8, <2>9, CountTypes
  <2>11. \A k : Cardinality(HadIds(k)) >= Cardinality(WantedAt(sync.list, k))
    BY <2>5, <2>8, <2>9, <2>10, CountTypes
  <2>12. Had[k0] > Wanted(sync.list)[k0] /\ \A k \in HintKeys : Had[k] >= Wanted(sync.list)[k]
    BY <2>2, <2>10, <2>11, Counts
  <2>13. Target!Remove(k0)
    BY <1>3, <2>7, <2>12 DEF Aside, Target!Remove, Wanted
  <2> QED
    BY <2>2, <2>13 DEF Target!Next
<1> QED
  BY <1>2, <1>3, <1>4, SameAside, DisturbedAside

LEMMA HintsRefineStep ==
    ASSUME HintsInv, HintsInv', [Next]_vars
    PROVE  Target!Next \/ UNCHANGED Target!vars
<1>1. /\ HintsTyped /\ sync \in Syncs /\ spec \in SpecLists /\ spec' \in SpecLists
  BY DEF HintsInv, HintsTyped, TypeOK
<1>2. CASE BeginOutOfDate \/ BeginAnyway
  <2>1. sync'.list = spec /\ spec' = spec /\ disturbed' = disturbed /\ Had' = Had
    BY <1>1, <1>2, BeginPlaced, SameHints DEF BeginOutOfDate, BeginAnyway, Begin
  <2>2. Target!Aim
    BY <2>1 DEF Target!Aim, Wanted
  <2> QED
    BY <2>2 DEF Target!Next
<1>3. CASE List
  <2>1. spec' = spec /\ Had' = Had
    BY <1>3, SameHints DEF List, Failed
  <2>2. sync'.list = sync.list
    BY <1>1, <1>3, ListPlaced, StopPlaced DEF List, Failed
  <2>3. disturbed' = FALSE \/ disturbed' = disturbed
    BY <1>3 DEF List
  <2> QED
    BY <2>1, <2>2, <2>3 DEF Target!Next, Target!Look, Target!vars, Wanted
<1>4. CASE Fetch
  <2>1. spec' = spec /\ hints' = hints /\ disturbed' = disturbed
    BY <1>4 DEF Fetch, Failed
  <2>2. sync'.list = sync.list
    <3>1. ASSUME NEW id \in Present,
                 sync' = [sync EXCEPT !.fetch = @ \ {id},
                            !.seen = [i \in DOMAIN @ \cup {id} |-> IF i = id THEN hints[id] ELSE @[i]]]
          PROVE  sync'.list = sync.list
      BY <1>1, <1>4, <3>1, FetchPlaced DEF Fetch
    <3>2. Stop => sync'.list = sync.list
      BY <1>1, StopPlaced
    <3> QED
      BY <1>4, <3>1, <3>2 DEF Fetch, Failed
  <2> QED
    BY <2>1, <2>2, SameAside DEF Aside
<1>5. CASE Plan
  <2>1. sync'.list = sync.list
    BY <1>1, <1>5, PlanPlaced DEF Plan
  <2> QED
    BY <1>5, <2>1, SameAside DEF Plan, Aside
<1>6. CASE Succeed \/ Crash
  BY <1>1, <1>6, StopPlaced, SameAside DEF Succeed, Crash, Failed, Aside
<1>7. CASE EditSpec
  <2>1. sync' = sync /\ Had' = Had /\ disturbed' = disturbed
    BY <1>7, SameHints DEF EditSpec
  <2>2. Wanted(spec)' = Wanted(spec') /\ Wanted(spec') \in [HintKeys -> Nat]
    BY <1>1, Counts DEF Wanted
  <2>3. Target!Edit
    BY <2>1, <2>2 DEF Target!Edit, Target!Counts, Wanted
  <2> QED
    BY <2>3 DEF Target!Next
<1>8. CASE AdminActs
  <2>1. Target!Interfere
    BY <1>8, HadAfter DEF AdminActs, Target!Interfere, Target!Counts, Wanted
  <2> QED
    BY <2>1 DEF Target!Next
<1>9. CASE UNCHANGED vars
  BY <1>9, SameHints DEF vars, Target!vars, Wanted
<1> QED
  BY <1>2, <1>3, <1>4, <1>5, <1>6, <1>7, <1>8, <1>9, CreateIsAdd, WireKeepsValues, DeleteIsRemove
     DEF Next, Provider

LEMMA HintsRefineInit ==
    ASSUME Init
    PROVE  Target!Init
<1>1. spec \in SpecLists /\ sync.list = spec /\ disturbed = FALSE
  BY NoSyncType DEF Init
<1>2. Wanted(spec) \in [HintKeys -> Nat]
  BY <1>1, Counts
<1>3. Present = {}
  BY DEF Init, Present
<1>4. Had = [k \in HintKeys |-> 0]
  BY <1>3, FS_EmptySet DEF Had
<1> QED
  BY <1>1, <1>2, <1>4 DEF Target!Init, Target!Counts

(***************************************************************************)
(* The calls of syncHints implement the bag that approaches its target:    *)
(* for every list, failure, lost reply, crash and edit, no call adds a     *)
(* hint beyond the list or removes one before everything listed is there,  *)
(* and rewiring keeps the values, unless an administrator has acted since  *)
(* the listing.                                                            *)
(***************************************************************************)
THEOREM HintsRefineTargetBag == Spec => RefinesTargetBag
<1>1. Init => HintsInv
  BY HintsInitially
<1>2. HintsInv /\ [Next]_vars => HintsInv'
  BY HintsStep
<1>3. Init => Target!Init
  BY HintsRefineInit
<1>4. HintsInv /\ HintsInv' /\ [Next]_vars => [Target!Next]_Target!vars
  BY HintsRefineStep
<1> QED
  BY <1>1, <1>2, <1>3, <1>4, PTL DEF Spec, RefinesTargetBag, Target!Spec
=============================================================================
