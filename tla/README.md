# A TLA+ model of the CTFd Crossplane provider

The provider turns Kubernetes objects into CTFd challenges, pages and settings.
Each kind has a controller whose `Observe`, `Create`, `Update` and `Delete` are
called by crossplane-runtime's managed reconciler; each of them makes HTTP calls
to a CTFd instance that administrators also use by hand. What is hard here is not
any single function but what happens between the calls: a process that dies
between a POST and the storing of the new ID, a cache that lags, two pods at work
on one object, a failed GET, an edit or an administrator in the middle of an
update. That is what the modules model, with TLC checking small instances and
TLAPS proving the invariants for all of them.

Paths below are relative to the repository.

## Inventory

| Component | State | Operations | Correct when |
|---|---|---|---|
| Challenge controller, `internal/controller/challenge/challenge.go` | none of its own: the object's external name, annotations, finalizer, conditions and spec (API server), the challenge (CTFd) | `Connect`, `Observe`, `Create`, `Update`, `Delete` | one challenge per resource, none lost, none but its own touched; converges; deletion leaves nothing |
| Conversion, `challenge/conversion.go` | none | `postParams`, `patchParams`, `isUpToDate` | what is set is enforced, what is not is left alone, and neither causes perpetual updates |
| Flags, `challenge/flagshints.go` | the challenge's flags in CTFd | `flagsUpToDate`, `syncFlags` | the list and the flags come to agree as bags of values, and what both lists have never goes away |
| Hints, `challenge/flagshints.go` | the challenge's hints in CTFd and their prerequisites | `validateHintPrereqs`, `detectHintCycle`, `planHints`, `hintsUpToDate`, `syncHints` | as flags; prerequisites point at existing hints and form no cycle |
| Page controller, `internal/controller/page/` | as a challenge, one page | as a challenge | as a challenge; content CTFd reports as null is no drift |
| Settings controller, `internal/controller/settings/` | CTFd's configuration, a singleton; the mail password | `currentConfig`, `mailPassword`, `apply` | only keys that are set are written; converges; deletion ends management |
| ProviderConfig, `internal/clients/ctfd.go`, `internal/controller/config/config.go` | configs, secrets, usages | `FromProviderConfig`, `NewClient`, usage tracking and counting | a config is there as long as a user needs it, and no longer |
| Process, `cmd/provider/main.go`, `internal/controller/register.go` | leader election (off by default), rate limits, poll interval | start-up | every object is looked at again and again |
| Bootstrap and e2e, `test/e2e/` | a fresh CTFd, its admin token, the credentials Secret | `ctfdctl`'s modes, `run.sh` | attempts may race, fail and repeat, and leave a token that works |
| API types, generated code, build files | - | - | - |

Interactions. The managed reconciler calls the controllers in one goroutine per
object and pod, reads the object from an informer cache, and writes annotations
and finalizer through the API server, which refuses an update of an old version.
Its annotations `external-create-pending`, `-succeeded` and `-failed` are stored
around `Create`, and an object whose newest annotation is `pending` is not
reconciled. `Connect` stores a usage of the ProviderConfig and reads its Secret
before every `Observe`. `Observe` returning "does not exist" leads to `Create` or,
for an object being deleted, to the removal of the finalizer. A challenge's
`Update` is `PATCH`, then flags, then hints; each stops at the first error. CTFd
hands out IDs and is assumed never to hand out one twice.

The reconciler, the config controller's reconciler, the API server, CTFd, users
and administrators are not code of this repository: their definitions are
modelled from how the code uses them (`hack/helpers/controller` shows the same
contract) and marked external in the map.

## Modules

| Module | Models | Composes |
|---|---|---|
| `Reconciler` | the managed reconciler, the API server and the caches, users, crashes, and a CTFd that hands out IDs: what every controller shares | |
| `Conversion` | `challenge/conversion.go`, field by field, and what CTFd makes of the payloads | |
| `Challenge` | the challenge controller | `Reconciler`, `Conversion` |
| `ProviderConfig` | `Connect`'s usage and credentials, the config controller | `Reconciler` |
| `Page` | the page controller and its conversion | `ProviderConfig` |
| `Settings` | the settings controller and its conversion | `Reconciler` |
| `Custody` | the abstract promise of challenges and pages: announce, make one, record, release with nothing left | implemented by `Challenge` and `Page` |
| `TargetBag` | the abstract promise of flags and hints: a bag that nears a list, make before break | |
| `FlagSync` | `flagsUpToDate`, `syncFlags`, call by call | implements `TargetBag` |
| `HintPlan` | the pure functions of hints, `detectHintCycle`'s depth-first search included | |
| `HintSync` | `syncHints` and what it calls, call by call | `HintPlan`; implements `TargetBag` |
| `Bootstrap` | `ctfdctl`'s bootstrap mode, run by a Job | |
| `*_proofs` | theorems about the module of that name | |
| `MC*` | instances for TLC | |

Each module keeps, next to the definition it changes, the mutants used to test
the properties: a comment starts with "Mutant of".  They are not part of any
specification.

### Reconciler

`obj` is the API server's objects: lifecycle phase, external name (0 is a name
that `strconv.Atoi` refuses), newest create annotation, finalizer, Ready, spec and
generation. `cache[p]` is pod p's informer cache. `wk[p][r]` is a reconcile in
progress: the next call, the copy of the object it works on, the state it saw in
CTFd (`status.atProvider.state`), whether it saw drift, and what it will do.
`ctfd` and `nextId` are CTFd's items and next ID; `creator` is history. `recent[r]`
is the reconciler's 30-second grace after a create; `budget` is what is left of
the bounds.

One action is one call, so everything else interleaves between any two of them. Two
places join a call to the one before it, `GetChallenge` here and `Setup` and `Login` of
`Bootstrap`, for reasons given there.
`StartAt` picks an object off the cache; `Absent` and `Observed` are what the
reconciler does with the two outcomes of `Observe`; `AddFinalizer`, `SetPending`,
`Post`, `SaveCreated`/`SaveFailed` are the way through `Create`; `DeleteItem` is
`Delete`; `RemoveFinalizer` ends the object. The surroundings are `CacheSync`,
`GraceElapses`, `EditSpec`, `DeleteResource`, `Crash` (a pod dies and another
replaces it) and, per kind, what administrators do. `FaultyCalls` names the calls
that may fail; `lostPost` and `lostDelete` are calls that take effect and lose
their reply.

`Custody` is what all of this is for, without caches, pods, conflicts and retries: a
resource is settled, announced or released; an item is made only when announced, one
at a time and under an ID never used; another is not made before the outcome is on
record; and a resource is not released while it holds an item. `KeepsCustody` maps
the API server's objects and CTFd to it (`Stage`, `Known`, `Held`, `Used` at the end
of `Reconciler`): most steps of the reconciles are stuttering ones, and those that are
not must be one of its five. Items may be dropped at any time, since administrators
delete them too.

### Challenge, Conversion

`GetChallenge`, `ListFlags` and `ListHints` are `Observe`; `PostChallenge` is `Create`; `PatchChallenge`, `SyncFlags`, `SyncHints`
are `Update`; `DeleteChallenge` is `Delete`. `GetChallenge`
includes the GET of the requirements, which decides nothing but whether drift is seen.
What comes between the two GETs can make that wrong for one poll: a challenge deleted
there has no requirements, which is drift, and the PATCH fails as it does when the
challenge is deleted after both; a PATCH of another pod may be seen in one answer and
not in the other. Nothing is created, released or left out of date for longer by it. A
challenge's `body` is a function
from the fields of `ChallengeParameters` to values, `Nil` for a pointer that is
not set; `requirements` is the list of IDs. The state has its own treatment in
the code and so in the model. Flags are one value and hints are one value here,
`Partial` when a sync stopped half-way, `Rejected` for a list that validation
refuses: `FlagSync` and `HintSync` open them up.

`Conversion` says what each payload carries (`PostParams`, `PatchParams`), what
CTFd makes of it (`Filled`, `Overlaid`: a PATCH keeps what it leaves out, a
challenge that is not standard has its value computed), and what is compared
(`UpToDate`). `Fulfils` in `Challenge` is the independent statement of what a
spec asks for. `WritesSettle` ties what is written to what is compared, in all three
conversions: `isUpToDate` finds nothing to do in what a POST or PATCH that succeeded
has left. `UnsetLeftAlone` is the other half: what the spec leaves unset is not
changed, but for the state, which a PATCH must carry and which is the last that was
read.

### ProviderConfig, Page

`Track` and `Resolve` are `Connect`: the usage is stored first, then the config
and its Secret are read; without a client the reconcile ends, also for an object
that is being deleted. `AddConfigFinalizer`, `CountUsages` and `ReleaseConfig` are
the controller of one kind of config, which counts, from its cache `known`, the
usages of the kind it was set up for (`Counted`). Kubernetes collects the usage of
a resource that is gone (`CollectUsage`). `protected` is history: the users known
when the deletion was asked for.

`Page` puts the page controller on top: every field of `PageParameters`, sent
whole by POST and PATCH, and null content taken for empty.

### Settings

The configuration of CTFd is, in `Reconciler`'s terms, item 1, which an
administrator made and every resource names, since `Observe` always finds it and
`Create` is therefore never reached. `GetConfigs` and `ObservePassword` are
`Observe` (the password is read there only to fail if it cannot be),
`ApplyPassword` and `Apply` are `apply`, which reads it again before the PATCH. A
PATCH that fails has stored any part of the keys. `DesiredConfig` has the keys
that are set, `ConfigString` is how a value is compared, `Stored` how CTFd keeps it.

### FlagSync, HintSync, TargetBag

`sync` is the Go call stack of one sync: the list it was given, how far it is, the
pool of existing flags not matched yet, or for hints the IDs still to GET, the
plan (`idByIndex`), the hints to wire and those to delete. `Begin` splits in
`BeginOutOfDate` (Observe found the list unmet) and `BeginAnyway` (Update runs
because of something else). The spec may be edited and administrators may act
between any two calls; the pod may crash.

`TargetBag` knows only how many of each value are wanted, aimed at and there, and
whether an administrator has acted since the provider last looked. It may add a
value that is short and remove one that is in excess once nothing is short. So
flags and hints that the old and the new list share survive any edit, under any
failure: `RefinesTargetBag` in both modules. What an administrator does is a step
of its own; between it and the next listing the bag may also move otherwise, since
the provider then works on what it saw before.

`HintPlan` has `detectHintCycle`'s depth-first search step by step: a state is the
colours and the hints being visited (Go's call stack), `Advance` enters a white hint,
leaves one whose prerequisites are black, or stays, and `Searched` is the state after
as many steps as entering and leaving every hint takes. The recursion over a stack is
written out so that it can be reasoned about. `Unlockable` says what the search is for
(every set of hints has one that waits for none of the set). An assumption of
`MCHintSync` compares the two on all graphs of four hints; a theorem does for all.
`IdByIndex` pairs hints of one value with CTFd's in the order of their IDs, while
`planHints` takes the order of the answer: that CTFd lists hints by ID is assumed.

### Bootstrap

`instance`, `minted` and `secret` are CTFd, the tokens it has given out and the
credentials Secret; `job[a]` is an attempt: its next call, whether its session is
the administrator's, its token, the Secret's version it read. One action is one
call of `ensureToken`, `setupAndToken`, `loginAndToken`, `mintToken`, `writeSecret`, but
that `Setup` and `Login` include the GET of a nonce and a session (`GetNonceAndSession`):
it leaves CTFd as it was, is the attempt's own, and fails as the call it is joined to
does, with nothing done. `Restart` is the Job's `backoffLimit`.

## Runs

| Run | Checks | Shows |
|---|---|---|
| `challenge_two_pods` | `NoOrphan`, `AtMostOne`, `Traceable`, `CreateIsAnnounced`, `KeepsCustody` | two pods cannot create twice, lose a challenge or leave one behind; a creation is announced before it happens; what they do together is what `Custody` allows |
| `challenge_two_resources` | `OwnChallengesOnly` | resources do not touch each other's challenges or a hand-made one |
| `challenge_live` | `TypeOK`, `StateSeen`, `WritesSettle`, `UnsetLeftAlone`, `EventuallyInSync`, `UpdatesCease`, `DeletionCompletes` | convergence in every field, an end of the PATCHes, and deletion, after one failed call to CTFd of any kind, one edit and one act of an administrator; a rejected hints list does not keep the rest of the challenge from converging |
| `flags` | `TypeOK`, `RefinesTargetBag`, `SuccessMeansUpToDate`, `EventuallyUpToDate` | make before break, a nil error means done, convergence |
| `hints` | the same, `DeletesNoPrerequisite`, `InvalidListTouchesNothing` | besides: no hint waits for a deleted one, a list with a cycle is never acted on |
| `page` | `PagesTraceable`, `ConfigOutlivesUsers`, `KeepsCustody`, `WritesSettle`, `PageInSync`, `UpdatesCease`, `DeletionCompletes`, `ConfigReleased` | a page and its config, each deleted at any time, an edit of the page's spec or of the config's Secret: neither blocks the other, and the config outlives its users |
| `settings` | `TypeOK`, `OnlySetKeysWritten`, `WritesSettle`, `EventuallyApplied`, `UpdatesCease` | a PATCH that fails half-way, or a password that changes between its two reads, writes nothing the spec does not set |
| `bootstrap` | `CredentialsWork`, `EveryAttemptSucceeds` | racing, failing attempts end with a token that works |

Runs that end in a counterexample, each a disagreement between the code and what
the repository says of it:

| Run | Property violated | What happens |
|---|---|---|
| `challenge_failed_get_leaks` | `DeletionLeavesNothing` | `Observe` takes any GET error for absence (`challenge.go:151-154`): while deleting, the finalizer goes and the challenge stays. `README.md:94-95`: "Deleting the `Challenge` deletes its flags and hints with it." |
| `challenge_numeric_name` | `OwnChallengesOnly` | a resource named `1` adopts, rewrites and deletes challenge 1. `challenge.go:144-146`: "Until Create assigns the numeric CTFd ID, a non-numeric external-name means the challenge does not exist yet" |
| `settings_deletion` | `DeletionCompletes` | `Delete` does nothing and `Observe` always finds the configuration, so the finalizer is never removed. `settings.go:217-218`: "Deleting the Settings resource only stops Crossplane from managing it." |
| `cluster_config_released` | `ConfigOutlivesUsers` | every connector stores a `ProviderConfigUsage`, but a ClusterProviderConfig's controller counts `ClusterProviderConfigUsage`s (`config.go:64`): it is released while pages need it. `types.go:110`: "A ClusterProviderConfigUsage indicates that a resource is using a ClusterProviderConfig." |

`DeletionLeavesNothing` is a part of `NoOrphan`, stated for itself as what the repository's
README promises. The same failed GET on a live object makes a second challenge: `AtMostOne` is
therefore checked, and proved, with reliable answers. A reply to a POST that is
lost does the same; no provider of this kind can tell.

### Bounds

- Resources and pods: one and one, one resource with two pods, two resources with
  one pod. Interference between pods needs two, between resources two.
  `challenge_two_pods` takes the pods as symmetric (`PodSymmetry`): it has no liveness
  property, no definition names a pod, and `Custody` does not see them.
- `MaxId`: IDs CTFd can hand out. One hand-made, and room for an item to be made
  again after an administrator deletes it; where it limits `Post` (the safety
  runs) it only cuts long behaviours off. In the liveness runs it is large enough
  for every POST the other bounds allow, or the property would fail.
- `MaxFaults`, `MaxEdits`, `MaxInterventions`, `MaxCrashes`: how many calls fail,
  specs or Secrets change, administrators act, pods die; 0, 1 or 2. The errors
  these properties catch take one or two of them; the proofs hold for any number.
- `FaultyCalls`: in `challenge_live` every call to CTFd, and none to the API server
  (below, under fairness). In `page` the connector's calls, PATCH and DELETE; a POST that
  fails is the same code for both kinds and in the runs of `Challenge`. GETs and lost
  POSTs are left out wherever a property needs `ReliableAnswers`.
- Specs: challenges of which one manages the state, the value and an optional
  field, one leaves them out, one is dynamic (its value is computed, its type
  differs: the drift no PATCH removes) and leaves the state out, one has a rejected
  hints list and sets neither value nor requirements; `challenge_live` has all but the
  second, and edits between any two. Pages: one with empty content, one with text and
  its switches on, edited into each other. Settings: two that share a switch and differ in the rest,
  one with a password. Flag lists: empty, a flag twice with and without its type,
  a change of type only, a shared flag. Hint lists: a prerequisite and its
  reversal, two hints of equal value of which one is gated, a shorter list, a
  cycle.
- Secrets of a config: one that gives a client, one with a session and no nonce.
- `Bootstrap`: two attempts, three failing calls, and a `BackoffLimit` of ten, so
  that the limit is never what stops an attempt in the liveness property; a
  conflict costs the loser a restart too.

The runs of `Challenge`, `Page`, `Settings` and `Bootstrap` set
`CHECK_DEADLOCK FALSE`, since a system whose objects are gone, or stopped by a
pending annotation, with the bounds spent, has nothing left to do, and neither has
a Job whose attempts are done. The flags and hints runs check deadlock.

### Fairness

`Challenge`, `Page`, `Settings`: weak fairness of each pod's reconcile of each
object, of its cache, and of the passing of the grace period. `Setup` gives the
reconciler a poll interval and a rate-limited work queue that retries failures, so
an object is always looked at again; a call in progress returns or fails. `Page`
adds weak fairness of the config controller (one work queue, so of its steps together),
of its informer and of the garbage collector. `FlagSync` and `HintSync`: weak fairness of the
provider's steps, from a begin that `Observe` asks for to the end, for the same
reason. `Bootstrap`: CTFd comes up and the Job's pods run. Users, administrators,
failures and crashes have no fairness.

`EventuallyInSync` is `<>[]`: once the bounded disturbances are spent. In its run
`kube` failures and crashes are left out: either can leave the create-pending
annotation in place for good, and the reconciler then waits for an operator on
purpose, which is what `NoOrphan` allows for. That deletions complete is stated as
`[]<>(phase # "deleting")`: a deleting object can only become gone. `UpdatesCease` names the two cases
in which challenges are patched for ever: a changed type, which is compared and
never sent, and a rejected hints list. `PageInSync` and `DeletionCompletes` of
pages ask that the credentials come to work and stay so (`HasClient`); a config
that had gone before its controller knew of the page is the exception the second
names. `EventuallyApplied` asks for a readable password and one Settings resource.

## Proofs

For every value of the constants:

| Theorem | States |
|---|---|
| `Challenge_proofs`: `TypeCorrect`, `StateAlwaysSeen` | `TypeOK`, `StateSeen`: no PATCH blanks a state |
| `TraceableAlways`, `NothingLost`, `NeverTwice` | `Traceable` and, from it, `NoOrphan`, `AtMostOne`, under `ReliableAnswers` |
| `ChallengesInCustody` | `KeepsCustody`: `Challenge` implements `Custody`, under `ReliableAnswers` |
| `OneCreatorAtATime`, `CreationAnnounced` | `OneCreates` and `CreateIsAnnounced`, whatever fails |
| `OthersUntouched` | `OwnChallengesOnly`, whatever fails, under `WordsForNames` |
| `UpdatesSettle`, `UnsetFieldsKept` | `WritesSettle`, `UnsetLeftAlone`, whatever fails |
| `Page_proofs`: `PageTypeCorrect`, `PagesTraceableAlways`, `NoPageLost`, `PagesInCustody`, `PageCreationAnnounced`, `OtherPagesUntouched`, `PageUpdatesSettle` | the same for pages (`PagesTraceable`, `KeepsCustody`, `CreateIsAnnounced`, `OwnPagesOnly`, `WritesSettle`), under the same provisos |
| `ConfigKept` | `ConfigOutlivesUsers`, if `ConfigKind = "ProviderConfig"` |
| `Custody`: `CustodyAccounts` | of the abstract specification: no item shared, forgotten, made twice or left by a released resource |
| `Settings_proofs`: `SettingsTypeCorrect`, `WritesOnlySetKeys`, `SettingsSettle` | `TypeOK`, `OnlySetKeysWritten`, `WritesSettle` |
| `FlagSync_proofs`: `FlagsTypeCorrect`, `SuccessIsUpToDate`, `FlagsRefineTargetBag` | `TypeOK`, `SuccessMeansUpToDate`, and that `FlagSync` implements `TargetBag` |
| `HintSync_proofs`: `HintsTypeCorrect`, `DeletesAreSafe`, `SuccessIsUpToDate`, `HintsRefineTargetBag` | `TypeOK`, `DeletesNoPrerequisite`, `SuccessMeansUpToDate`, and that `HintSync` implements `TargetBag` |
| `ValidMeansUnlockable`, `InvalidListsTouchNothing` | that the depth-first search accepts just the lists that can be unlocked, of any length, and `InvalidListTouchesNothing` from it |
| `Bootstrap_proofs`: `CredentialsAlwaysWork` | `CredentialsWork` |

`WordsForNames` says that no resource starts with a number for its name;
`ReliableAnswers` adds that no GET fails while the item is there and that no reply to
a POST is lost. If GETs may fail, `challenge_failed_get_leaks` refutes
`DeletionLeavesNothing`, which is part of what `NothingLost` states (its corollary
`NothingLeftBehind`); without `WordsForNames`, `challenge_numeric_name` refutes
`OthersUntouched` and what lies under the rest; the lost reply is a limit of the HTTP
API. Everything else may go wrong: other calls fail, DELETEs lose their replies, pods
crash, caches lag, any number of pods work on one object. Without the assumption of
`ConfigKept`, `cluster_config_released` refutes it. The other theorems have no
assumption but those on the constants: that a spec's fields are of the types Go gives
them, and that the bounds are numbers.

### Tracing what was created

`NoOrphan` and `AtMostOne` need strengthening: neither says what a reconcile in
progress knows. The invariant `Traceable` adds it.

1. `OneCreates`: between the stored create-pending annotation and the storing of
   the outcome there is one worker per object, the object has its finalizer and
   its newest annotation is `pending`; workers elsewhere hold unmarked copies,
   so the API server refuses what they write.
2. `AbsenceSeen`: who is about to create or release has seen the item of its
   copy absent, and (`IdsInOrder`) an absent ID below `nextId` never comes back.
3. `NothingLeft` (a lemma): a worker at that point whose copy is the newest
   version knows that nothing of the resource is in CTFd - the object is unmarked,
   so by `NoOrphan` its only item would be the one it names.
4. `CreationKnown` carries this through the POST to the storing of the new name;
   `FinalizerHolds` covers objects deleted before they had a finalizer.

Most steps are quiet: they leave objects' marks and names alone, delete items
at most, and move one worker without making it know more. `QuietStep` deals with
all of them; the calls of `Create` and the release have lemmas of their own.
`Reconciler_proofs` has all this once, for any kind of item; `Challenge_proofs`
and `Page_proofs` add the calls of their kind.

What holds whatever fails has an invariant of its own, `Announced`: `OneCreates`, and
that the finalizer is there before and during an announcement. It does not mention
CTFd, so wrong answers cannot break it; a step that obviously keeps it is called
`Orderly`. From it `CreationAnnounced` follows, and with `OwnNames` (every name on an
object, in a cache or in a copy was given by CTFd to that very resource, and an ID has
no owner before it is handed out) `OthersUntouched`: a reconcile changes the ID it is
handed or the one its copy names.

The refinement of `Custody` uses both invariants. A `SetPending` that gets through is
`Announce`, and `NothingLeft` is its guard; a POST is `Make`, by `CreationKnown`;
`SaveCreated` and `SaveFailed` are `Record`; a DELETE, an administrator's included, is
`Drop`; the removal of the finalizer, or the deletion of an object that had none, is
`Release`, by `NothingLeft` or `FinalizerHolds`. Every other step is a stutter.

### The other invariants

- `UsersProtected` (pages): once its deletion is asked for, a config stays
  `deleting` as long as one of its `protected` users is there, whose usage is then
  stored, cached, and counted if anything is. `GoneStays` (an object that is gone
  does not come back) and the owner's garbage collection keep usages in place.
- `SettingsInv`: types, that a configuration is there, and `Referenced`: a
  password on its way to CTFd comes from a reference of the copy at hand.
- `TokensWork` (bootstrap): a token held by an attempt past `mint`, and the one
  stored, are among the minted ones, whose number only grows.
- `FlagsInv`: `IdsInOrder`, `InPlace` (how far the sync is), and `Tracked`: while
  no administrator has acted since the listing, the challenge's flags of each
  value are as many as the pool's of that value (`PoolListed`) and the part of the
  list that is done (`Accounted`). At a POST the pool has none of the value, so
  the challenge has fewer than the list; at a DELETE the whole list is done, so
  everything listed is there and what the pool has is in excess. This is both
  `SuccessMeansUpToDate` and, with administrators' acts mapped to `Interfere`, the
  refinement.
- `HintsInv`: `HintsTyped`, `IdsInOrder`, and `Tracked`, which says three things of
  a sync that no administrator has disturbed. `Fetched`: what was fetched is what
  is there. `Assigned`: hints of one value have their IDs in the order of the list
  (`Ordered`, hence one to one), each ID is that of a hint of its value, `deletes`
  is all the rest, and a value of which a hint is missing has none to spare.
  `WiredSoFar`: a hint is as it was listed or as the list wants it. That `planHints`
  establishes `Assigned` is `PlanOrdered` and `PlanSpare`, which count: the n-th of
  a finite set of numbers exists if it has n (`RankTaken`). At a DELETE nothing is
  missing and nothing unwired, so what the hints of the list require are hints of
  the list, none of which is deleted; at the end a new `planHints` would find the
  same IDs again (`PlanAgain`), so `hintsUpToDate` holds.

### The search for cycles

`ValidMeansUnlockable` is about what an iteration computes, which asks for induction.
The library's induction theorems take an operator as a parameter and cannot be used,
so the induction is by the least number of a set of numbers that fail (`LeastNumber`,
from the library's well-foundedness of `<` on the naturals), over sets instead of
predicates. If all hints end up black (`SearchRun`), the hint of a set that turned
black first waits for none of the set, since a hint turns black only when its
prerequisites are (`TurnsBlack`, `ValidUnlocks`). Conversely the search keeps the gray
hints on its path, without repetition, each a prerequisite of the next (`OnPathKept`);
if the list can be unlocked, a gray prerequisite would close a cycle on that path, and
the hints of the cycle would be a set that cannot be unlocked (`NoError`). So every
step enters or leaves a hint (`SearchMoves`, `SearchCounts`), which can happen twice
the length of the list and no more.

### Model-checked only

The liveness properties: `EventuallyInSync`, `UpdatesCease`, `DeletionCompletes`,
`PageInSync`, `ConfigReleased`, `EventuallyApplied`, `EventuallyUpToDate` and
`EveryAttemptSucceeds`. The prover has neither fairness nor ENABLED. `WritesSettle`
is what of `UpdatesCease` can be proved: that no update makes another necessary. Every
invariant, action property and refinement that a passing run checks is also a theorem.

## Not modelled

- Generated code, CRDs, scheme registration, build and packaging: no behaviour of
  their own.
- Of the process: flag parsing, rate limits, metrics, events, change logs, the CRD
  gate. Several pods, crashes, polls and retries are in `Reconciler`.
- `spec.managementPolicies`, paused resources, deletion policy Orphan.
- CTFd reusing an ID, which SQLite's or a restored database might do.
- Two resources that name the same challenge on purpose (imports), and two
  Settings resources for one instance: `README.md:173` has one.
- `Requirements.Anonymize` of a challenge, which is sent and not compared; how
  often a hint lists one prerequisite.
- Usages and credentials in `Challenge` and `Settings`, whose connectors are the
  page's: there a failed `Connect` is a reconcile that has not started.
- A rotated mail password: it is not compared, as CTFd never returns it, and is
  sent when something else drifts.
- Bootstrap's `verify` and `checkstate`, which only read; `setstate` is one of the
  administrator's acts in `Challenge`.

Known behaviour of the code that no property rules out: an unmanaged state that an
administrator changes between `Observe`'s GET and `Update`'s PATCH is put back;
Available is set before `Update`, which may fail; a hint is open to players between
its POST and the PATCH that wires it; while a prerequisite is reversed, two hints
may require each other for a moment.
