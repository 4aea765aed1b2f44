----------------------------- MODULE Challenge -----------------------------
(***************************************************************************)
(* The lifecycle of Challenge managed resources: the controller of         *)
(* internal/controller/challenge/challenge.go, inside the managed          *)
(* reconciler.  Flags and hints are one value each here; FlagSync and      *)
(* HintSync model the calls behind syncFlags and syncHints.                *)
(***************************************************************************)
EXTENDS Reconciler, Conversion

Partial == "partial"        \* flags or hints a failed sync left half done
Nothing == "none"           \* no flag, no hint: what POST /challenges leaves
Rejected == "rejected"      \* a hints list validateHintPrereqs rejects
ByHand == "by hand"         \* what an administrator wrote

\* A spec has a body, requirements or Nil, a state or Unset, flags and hints.
Values == (UNION {{spec.body[f] : f \in Fields} : spec \in Specs})
             \cup {Nil, Zero, Standard, ByFormula, ByHand}
Requirements == ({spec.requirements : spec \in Specs} \ {Nil}) \cup {<<>>}
Bodies == [Fields -> Values]
Flags == {spec.flags : spec \in Specs} \cup {ByHand, Nothing, Partial}
Hints == {spec.hints : spec \in Specs} \cup {ByHand, Nothing, Partial}

\* The name, the category and the description are no pointers.
ASSUME SpecsAssumption ==
    \A spec \in Specs :
        /\ spec.body \in Bodies /\ \A f \in Required : spec.body[f] # Nil
        /\ spec.state \in States \cup {Unset}

\* A challenge in CTFd.
Challenges == [body: Bodies, requirements: Requirements, state: States,
               flags: Flags, hints: Hints]

HandMade == [body |-> [f \in Fields |-> ByHand], requirements |-> <<>>, state |-> "visible",
             flags |-> ByHand, hints |-> ByHand]

Init == InitWith(HandMade)

----------------------------------------------------------------------------
(***************************************************************************)
(* Observe.                                                                *)
(***************************************************************************)
\* Connect may fail as well, which is no different from not having started.
Start(p, r) == StartAt(p, r, "get")

\* isUpToDate: the challenge differs from the spec in a field it enforces.
\* got is the answer of GetChallengeRequirements.
Drifted(ch, spec, got) ==
    \/ ~UpToDate(spec.body, ch.body)
    \/ spec.requirements # Nil /\ ~SameIntSet(spec.requirements, got)
    \/ spec.state # Unset /\ ch.state # spec.state

\* Mutant of ObservedState: it is left out of the status.
ObservedNothing(ch) == Unset

\* What ChallengeObservation puts in status.atProvider.state.
ObservedState(ch) == ch.state

\* GetChallenge, and GetChallengeRequirements if the spec has any.  An error
\* of the first means absent; one of the second is dropped and reads as none.
GetChallenge(p, r) ==
    LET o == Copy(p, r)
        Found(got) == wk' = [wk EXCEPT ![p][r].pc = "flags",
                                       ![p][r].seen = ObservedState(ctfd[o.name]),
                                       ![p][r].drift = Drifted(ctfd[o.name], o.spec, got)]
    IN
    /\ At(p, r, "get")
    /\ \/ /\ Exists(o.name)
          /\ \/ Found(ctfd[o.name].requirements) /\ UNCHANGED budget
             \/ o.spec.requirements # Nil /\ Fault("requirements") /\ Found(<<>>)
       \/ /\ ~Exists(o.name)
          /\ Absent(p, r)
          /\ UNCHANGED budget
       \/ /\ o.name # NotANumber
          /\ Fault("get")
          /\ Absent(p, r)
    /\ UNCHANGED <<kubeVars, cache, ctfdVars>>

\* The flags or hints of a challenge; one deleted meanwhile has none.
Listed(id, part) == IF Exists(id) THEN ctfd[id][part] ELSE Nothing

ListFlags(p, r) ==
    LET o == Copy(p, r) IN
    /\ At(p, r, "flags")
    /\ \/ /\ wk' = [wk EXCEPT ![p][r].pc = "hints",
                              ![p][r].drift = @ \/ Listed(o.name, "flags") # o.spec.flags]
          /\ UNCHANGED budget
       \/ Fault("list") /\ Rest(p, r)
    /\ UNCHANGED <<kubeVars, cache, ctfdVars>>

\* Mutant of ListHints: Observe fails for a hints list that is rejected.
ListHintsIfValid(p, r) ==
    LET o == Copy(p, r) IN
    /\ At(p, r, "hints")
    /\ \/ o.spec.hints = Rejected /\ Rest(p, r)
       \/ /\ o.spec.hints # Rejected
          /\ Observed(p, r, wk[p][r].drift \/ Listed(o.name, "hints") # o.spec.hints)
    /\ UNCHANGED <<kubeVars, cache, ctfdVars, budget>>

\* The hints complete the observation.  A hints list that validation rejects
\* is never up to date.
ListHints(p, r) ==
    LET o == Copy(p, r) IN
    /\ At(p, r, "hints")
    /\ \/ /\ Observed(p, r, wk[p][r].drift \/ Listed(o.name, "hints") # o.spec.hints)
          /\ UNCHANGED budget
       \/ Fault("list") /\ Rest(p, r)
    /\ UNCHANGED <<kubeVars, cache, ctfdVars>>

----------------------------------------------------------------------------
(***************************************************************************)
(* Create; Update: PATCH, then the flags, then the hints; Delete.  Observe *)
(* has set the Available condition, which is written however Update ends.  *)
(***************************************************************************)
\* What POST /challenges makes of the spec.  CTFd picks the state it leaves out.
Posted(o, default) ==
    [body |-> Filled(PostParams(o.spec.body)),
     requirements |-> OrElse(o.spec.requirements, <<>>),
     state |-> IF o.spec.state = Unset THEN default ELSE o.spec.state,
     flags |-> Nothing, hints |-> Nothing]

PostChallenge(p, r) == Post(p, r, {Posted(Copy(p, r), default) : default \in States})

\* Mutant of Patched: a state left unset is sent empty.
PatchedBlank(ch, o, seen) ==
    [ch EXCEPT !.body = Overlaid(@, PatchParams(o.spec.body)),
               !.requirements = OrElse(o.spec.requirements, @),
               !.state = o.spec.state]

\* patchParams: a state left unset falls back to the one that was observed.
Patched(ch, o, seen) ==
    [ch EXCEPT !.body = Overlaid(@, PatchParams(o.spec.body)),
               !.requirements = OrElse(o.spec.requirements, @),
               !.state = IF o.spec.state = Unset THEN seen ELSE o.spec.state]

PatchChallenge(p, r) ==
    LET o == Copy(p, r)
        patched == [ctfd EXCEPT ![o.name] = Patched(@, o, wk[p][r].seen)]
    IN
    /\ At(p, r, "patch")
    /\ \/ /\ Exists(o.name)
          /\ ctfd' = patched
          /\ Goto(p, r, "syncFlags")
          /\ UNCHANGED <<obj, budget>>
       \/ /\ \/ ~Exists(o.name) /\ UNCHANGED <<ctfd, budget>>
             \/ Fault("patch") /\ (UNCHANGED ctfd \/ (Exists(o.name) /\ ctfd' = patched))
          /\ Finish(p, r, TRUE)
    /\ UNCHANGED <<recent, cache, creator, nextId>>

\* syncFlags brings the flags to the spec's, or fails somewhere on the way.
SyncFlags(p, r) ==
    LET o == Copy(p, r) IN
    /\ At(p, r, "syncFlags")
    /\ \/ /\ Exists(o.name)
          /\ ctfd' = [ctfd EXCEPT ![o.name].flags = o.spec.flags]
          /\ Goto(p, r, "syncHints")
          /\ UNCHANGED <<obj, budget>>
       \/ /\ \/ ~Exists(o.name) /\ UNCHANGED <<ctfd, budget>>
             \/ /\ Exists(o.name) /\ Fault("sync")
                /\ \E some \in {ctfd[o.name].flags, Partial, o.spec.flags} :
                      ctfd' = [ctfd EXCEPT ![o.name].flags = some]
          /\ Finish(p, r, TRUE)
    /\ UNCHANGED <<recent, cache, creator, nextId>>

\* syncHints validates the prerequisites first and changes nothing if they are
\* rejected.
SyncHints(p, r) ==
    LET o == Copy(p, r) IN
    /\ At(p, r, "syncHints")
    /\ \/ /\ Exists(o.name) /\ o.spec.hints # Rejected
          /\ ctfd' = [ctfd EXCEPT ![o.name].hints = o.spec.hints]
          /\ UNCHANGED budget
       \/ /\ ~Exists(o.name) \/ o.spec.hints = Rejected
          /\ UNCHANGED <<ctfd, budget>>
       \/ /\ Exists(o.name) /\ o.spec.hints # Rejected /\ Fault("sync")
          /\ \E some \in {ctfd[o.name].hints, Partial} :
                ctfd' = [ctfd EXCEPT ![o.name].hints = some]
    /\ Finish(p, r, TRUE)
    /\ UNCHANGED <<recent, cache, creator, nextId>>

\* Mutant of DeleteChallenge: the object is released without another look.
DeleteThenRelease(p, r) ==
    /\ At(p, r, "delete")
    /\ \/ ctfd' = [ctfd EXCEPT ![Copy(p, r).name] = NoItem] /\ UNCHANGED budget
       \/ Fault("delete") /\ UNCHANGED ctfd
    /\ Goto(p, r, "release")
    /\ UNCHANGED <<kubeVars, cache, creator, nextId>>

DeleteChallenge(p, r) == DeleteItem(p, r)

----------------------------------------------------------------------------
Reconcile(p, r) ==
    \/ Start(p, r) \/ GetChallenge(p, r) \/ ListFlags(p, r) \/ ListHints(p, r)
    \/ Bookkeeping(p, r) \/ PostChallenge(p, r)
    \/ PatchChallenge(p, r) \/ SyncFlags(p, r) \/ SyncHints(p, r) \/ DeleteChallenge(p, r)

\* An administrator hides or shows a challenge, touches its flags, or deletes it.
AdminActs(id) ==
    Intervene(id, {[ctfd[id] EXCEPT !.state = state] : state \in States \ {ctfd[id].state}}
                     \cup {[ctfd[id] EXCEPT !.flags = Partial], NoItem})

Next ==
    \/ \E p \in Pods, r \in Resources : Reconcile(p, r)
    \/ Surroundings
    \/ \E id \in Ids : AdminActs(id)

Spec == Init /\ [][Next]_vars

\* The work queue retries a failed reconcile and the poll interval brings back
\* a successful one, informers catch up, and time passes.
Fairness ==
    /\ \A p \in Pods, r \in Resources : WF_vars(Reconcile(p, r)) /\ WF_vars(CacheSync(p, r))
    /\ \A r \in Resources : WF_vars(GraceElapses(r))

FairSpec == Spec /\ Fairness

----------------------------------------------------------------------------
(***************************************************************************)
(* Properties.                                                             *)
(***************************************************************************)
\* Every variable has its type: among others, the state of a challenge in CTFd
\* is never blanked by a PATCH that leaves the state out.
TypeOK == TypedWith(Challenges)

\* A reconcile that has seen the challenge exist has seen its state, which is
\* what patchParams falls back to.
StateSeen ==
    \A p \in Pods, r \in Resources :
        \/ wk[p][r].pc \in {"flags", "hints", "patch"}
        \/ wk[p][r].pc = "finalizer" /\ wk[p][r].todo # "create"
        => wk[p][r].seen \in States

\* A reconcile changes, in CTFd, only challenges its own resource had created.
OwnChallengesOnly ==
    [][\A p \in Pods, r \in Resources : Reconcile(p, r) =>
          \A id \in Ids : ctfd'[id] # ctfd[id] => creator'[id] = r]_vars

\* The type, which no PATCH carries, is as it was when the challenge was made.
TypeKept(ch, spec) == ch.body.type = TypeOrDefault(spec.body.type)

\* A POST that succeeds makes a challenge, and a PATCH that succeeds leaves one,
\* in which isUpToDate finds nothing to do but for a changed type: no default,
\* no computed value, no field left unset is taken for drift.
WritesSettle ==
    [][\A p \in Pods, r \in Resources : UNCHANGED budget =>
          LET o == Copy(p, r)
              Settled(id) == ~Drifted(ctfd'[id], o.spec, ctfd'[id].requirements)
          IN
          /\ PostChallenge(p, r) => Settled(nextId)
          /\ PatchChallenge(p, r) /\ Exists(o.name) /\ TypeKept(ctfd[o.name], o.spec)
                => Settled(o.name)]_vars

\* A challenge that was changed has kept what the spec does not set, its type
\* included; of a state that is not set, seen was the last that was read.
LeavesUnset(spec, seen, was, is) ==
    /\ \A f \in Optional : spec.body[f] = Nil => is.body[f] = was.body[f]
    /\ is.body.type = was.body.type
    /\ is.body.type = Standard /\ spec.body.value = Nil => is.body.value = was.body.value
    /\ spec.requirements = Nil => is.requirements = was.requirements
    /\ spec.state = Unset => is.state \in {was.state, seen}

\* A reconcile leaves alone what its resource does not set, in every challenge
\* it changes, whichever of its calls fail.
UnsetLeftAlone ==
    [][\A p \in Pods, r \in Resources : Reconcile(p, r) =>
          \A id \in Ids : id < nextId /\ ctfd'[id] \notin {ctfd[id], NoItem} =>
              LeavesUnset(Copy(p, r).spec, wk[p][r].seen, ctfd[id], ctfd'[id])]_vars

\* The challenge has every field that the spec sets, as far as the types agree.
Fulfils(ch, spec) ==
    LET want == spec.body
        standard == ch.body.type = Standard /\ TypeKept(ch, spec)
    IN
    /\ \A f \in Required \cup Optional : EqPtr(want[f], ch.body[f])
    /\ spec.requirements # Nil => SameIntSet(spec.requirements, ch.requirements)
    /\ standard => EqPtr(want.value, ch.body.value)
    /\ spec.state \in {Unset, ch.state}
    /\ ch.flags = spec.flags /\ spec.hints \in {ch.hints, Rejected}

\* Once the failures, edits and interventions stop, every resource's challenge
\* comes to match its spec and stays so, or the resource is gone.  A hints list
\* that is rejected, or a type that was changed, does not keep the rest from it.
EventuallyInSync ==
    \A r \in Resources :
        <>[]( \/ obj[r].phase = "gone"
              \/ Exists(obj[r].name) /\ Fulfils(ctfd[obj[r].name], obj[r].spec))

\* A field left unset does not cause perpetual updates: the PATCHes stop, but
\* for a changed type and a rejected hints list, which no PATCH can repair.
UpdatesCease ==
    \A r \in Resources :
        \/ <>[][\A p \in Pods : ~PatchChallenge(p, r)]_vars
        \/ []<>(Exists(obj[r].name) /\ ~TypeKept(ctfd[obj[r].name], obj[r].spec))
        \/ []<>(obj[r].spec.hints = Rejected)

\* A deleted resource goes away: none is being deleted for ever, and one that
\* is can only become gone.
DeletionCompletes == \A r \in Resources : []<>(obj[r].phase # "deleting")
=============================================================================
