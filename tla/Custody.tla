------------------------------ MODULE Custody ------------------------------
(***************************************************************************)
(* What the provider promises of the items that its resources have in      *)
(* CTFd, without caches, pods, conflicts or retries.  An item is announced *)
(* before it is made, under an ID that was never used; no other is made    *)
(* until the outcome is on record; and a resource is not released while it *)
(* has an item or an unresolved announcement.  Items may disappear at any  *)
(* time, by the provider's own hand or an administrator's.                 *)
(***************************************************************************)
EXTENDS TLAPS

CONSTANTS Resources, Ids,
    Names       \* the IDs, and what stands for none

VARIABLES
    stage,      \* of each resource: settled, announced or released
    known,      \* the ID that is on record for it
    held,       \* the items it has in CTFd
    used        \* the IDs that CTFd has handed out

vars == <<stage, known, held, used>>

Init ==
    /\ stage = [r \in Resources |-> "settled"]
    /\ known \in [Resources -> Names]
    /\ held = [r \in Resources |-> {}]
    /\ used \subseteq Ids

Announce(r) ==
    /\ stage[r] = "settled" /\ held[r] = {}
    /\ stage' = [stage EXCEPT ![r] = "announced"]
    /\ UNCHANGED <<known, held, used>>

Make(r, id) ==
    /\ stage[r] = "announced" /\ held[r] = {}
    /\ id \notin used
    /\ held' = [held EXCEPT ![r] = {id}]
    /\ used' = used \cup {id}
    /\ UNCHANGED <<stage, known>>

\* The outcome, an ID or that there is none, goes on record.
Record(r, name) ==
    /\ stage[r] = "announced" /\ held[r] \subseteq {name}
    /\ stage' = [stage EXCEPT ![r] = "settled"]
    /\ known' = [known EXCEPT ![r] = name]
    /\ UNCHANGED <<held, used>>

Drop(r, id) ==
    /\ id \in held[r]
    /\ held' = [held EXCEPT ![r] = @ \ {id}]
    /\ UNCHANGED <<stage, known, used>>

Release(r) ==
    /\ stage[r] = "settled" /\ held[r] = {}
    /\ stage' = [stage EXCEPT ![r] = "released"]
    /\ UNCHANGED <<known, held, used>>

Next ==
    \E r \in Resources :
        \/ Announce(r) \/ Release(r)
        \/ \E id \in Ids : Make(r, id) \/ Drop(r, id)
        \/ \E name \in Names : Record(r, name)

Spec == Init /\ [][Next]_vars

\* What follows from it: a resource has at most one item and shares none, the
\* one on record once that is settled, and none once it is released.
Accounted ==
    \A r \in Resources :
        /\ held[r] \subseteq used
        /\ \A id1, id2 \in held[r] : id1 = id2
        /\ \A s \in Resources \ {r} : held[r] \cap held[s] = {}
        /\ stage[r] = "settled" => held[r] \subseteq {known[r]}
        /\ stage[r] = "released" => held[r] = {}

Stages == {"settled", "announced", "released"}
Typed ==
    /\ stage \in [Resources -> Stages]
    /\ known \in [Resources -> Names]
    /\ held \in [Resources -> SUBSET Ids]

\* However announcements, creations and losses of several resources follow each
\* other, no item is shared, forgotten or left behind by a released resource.
THEOREM CustodyAccounts == Spec => []Accounted
<1>1. Init => Typed /\ Accounted
  BY DEF Init, Typed, Stages, Accounted
<1>2. Typed /\ Accounted /\ [Next]_vars => Typed' /\ Accounted'
  <2> SUFFICES ASSUME Typed, Accounted, [Next]_vars PROVE Typed' /\ Accounted'
    OBVIOUS
  <2>1. ASSUME NEW r \in Resources, Announce(r) \/ Release(r) PROVE Typed' /\ Accounted'
    <3>1. /\ stage'[r] \in {"announced", "released"} /\ held[r] = {}
          /\ \A s \in Resources : s # r => stage'[s] = stage[s]
          /\ known' = known /\ held' = held /\ used' = used
      BY <2>1 DEF Announce, Release, Typed
    <3>2. Typed'
      BY <2>1 DEF Announce, Release, Typed, Stages
    <3> QED
      BY <3>1, <3>2 DEF Accounted
  <2>2. ASSUME NEW r \in Resources, NEW id \in Ids, Make(r, id) PROVE Typed' /\ Accounted'
    <3>1. /\ held'[r] = {id} /\ stage[r] = "announced" /\ id \notin used
          /\ \A s \in Resources : s # r => held'[s] = held[s]
          /\ stage' = stage /\ known' = known /\ used' = used \cup {id}
      BY <2>2 DEF Make, Typed
    <3>2. Typed'
      BY <2>2 DEF Make, Typed
    <3>3. \A s \in Resources : id \notin held[s]
      BY <3>1 DEF Accounted
    <3>4. ASSUME NEW s \in Resources
          PROVE  /\ held'[s] \subseteq used'
                 /\ \A id1, id2 \in held'[s] : id1 = id2
                 /\ stage'[s] = "settled" => held'[s] \subseteq {known'[s]}
                 /\ stage'[s] = "released" => held'[s] = {}
      BY <3>1 DEF Accounted
    <3>5. ASSUME NEW s \in Resources, NEW t \in Resources, s # t
          PROVE  held'[s] \cap held'[t] = {}
      BY <3>1, <3>3, <3>5 DEF Accounted
    <3> QED
      BY <3>2, <3>4, <3>5 DEF Accounted
  <2>3. ASSUME NEW r \in Resources, NEW id \in Ids, Drop(r, id) PROVE Typed' /\ Accounted'
    <3>1. /\ \A s \in Resources : held'[s] \subseteq held[s]
          /\ stage' = stage /\ known' = known /\ used' = used
      BY <2>3 DEF Drop, Typed
    <3>2. Typed'
      BY <2>3 DEF Drop, Typed
    <3> QED
      BY <3>1, <3>2, Zenon DEF Accounted
  <2>4. ASSUME NEW r \in Resources, NEW name \in Names, Record(r, name)
        PROVE  Typed' /\ Accounted'
    <3>1. /\ stage'[r] = "settled" /\ known'[r] = name /\ held[r] \subseteq {name}
          /\ \A s \in Resources : s # r => stage'[s] = stage[s] /\ known'[s] = known[s]
          /\ held' = held /\ used' = used
      BY <2>4 DEF Record, Typed
    <3>2. Typed'
      BY <2>4 DEF Record, Typed, Stages
    <3> QED
      BY <3>1, <3>2 DEF Accounted
  <2>5. CASE UNCHANGED vars
    BY <2>5 DEF vars, Typed, Accounted
  <2> QED
    BY <2>1, <2>2, <2>3, <2>4, <2>5 DEF Next
<1> QED
  BY <1>1, <1>2, PTL DEF Spec
=============================================================================
