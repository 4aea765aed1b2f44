--------------------------- MODULE Settings_proofs ---------------------------
(***************************************************************************)
(* Proofs about Settings, for every set of resources and of pods, every    *)
(* set of specs and of passwords, and every bound.                         *)
(***************************************************************************)
EXTENDS Settings, Reconciler_proofs

\* There is always a configuration.
AlwaysThere == Configuration \in Configurations

\* A worker that carries a password to CTFd has it from a reference of its copy.
Referenced ==
    \A p \in Pods, r \in Resources :
        wk[p][r].pc = "apply" => password[p][r] = None \/ Copy(p, r).spec.mail

\* The inductive invariant.
SettingsInv == TypeOK /\ AlwaysThere /\ Referenced

(***************************************************************************)
(* What a PATCH makes of the configuration.                                *)
(***************************************************************************)
LEMMA OverlaidType ==
    ASSUME NEW config \in Configurations, NEW spec \in Specs,
           NEW some, some \subseteq DOMAIN DesiredConfig(spec), NEW pw \in Passwords \cup {None}
    PROVE  Overlaid(config, DesiredConfig(spec), some, pw) \in Configurations
<1> DEFINE desired == DesiredConfig(spec)
           values == [k \in Keys |-> IF k \in some THEN Stored(k, desired[k])
                                     ELSE config.values[k]]
<1>1. spec.fields \in [Keys -> Values]
  BY SettingsAssumption DEF Parameters
<1>2. \A k \in some : k \in Keys /\ desired[k] = spec.fields[k]
  BY DEF DesiredConfig
<1>3. \A k \in some : Stored(k, desired[k]) \in Values
  <2>1. "0" \in Values /\ "1" \in Values
    BY DEF Values
  <2> HIDE DEF desired
  <2> QED
    BY <1>1, <1>2, <2>1 DEF Stored
<1>4. values \in [Keys -> Values]
  BY <1>3 DEF Configurations
<1> HIDE DEF values
<1>5. (IF pw = None THEN config.password ELSE pw) \in Passwords \cup {None}
  BY DEF Configurations
<1> QED
  BY <1>4, <1>5 DEF Overlaid, Configurations, values

LEMMA OverlaidKeeps ==
    ASSUME NEW config \in Configurations, NEW spec \in Specs,
           NEW some, some \subseteq DOMAIN DesiredConfig(spec), NEW pw \in Passwords \cup {None},
           NEW new, new = Overlaid(config, DesiredConfig(spec), some, pw)
    PROVE  /\ \A k \in Keys : new.values[k] # config.values[k] => spec.fields[k] # Nil
           /\ new.password # config.password => new.password = pw /\ pw # None
BY DEF Overlaid, DesiredConfig

LEMMA SettingsCopy ==
    ASSUME TypeOK, NEW p \in Pods, NEW r \in Resources, wk[p][r].pc # "resting"
    PROVE  wk[p][r] \in Workers /\ Copy(p, r).spec \in Specs
BY ActiveWorker DEF TypeOK, Workers, Objects, Copy

\* One call of Apply, all of it or as much as CTFd has carried out.
LEMMA ApplyDoes ==
    ASSUME SettingsInv, NEW p \in Pods, NEW r \in Resources, Apply(p, r)
    PROVE  \E some \in SUBSET DOMAIN DesiredConfig(Copy(p, r).spec), pw \in {None, password[p][r]} :
              ctfd' = [ctfd EXCEPT ![1] =
                          Overlaid(Configuration, DesiredConfig(Copy(p, r).spec), some, pw)]
<1> DEFINE desired == DesiredConfig(Copy(p, r).spec)
<1>1. ASSUME NEW some, some \subseteq DOMAIN desired, NEW pw \in {None, password[p][r]},
             ctfd' = [ctfd EXCEPT ![1] = Overlaid(@, desired, some, pw)]
      PROVE  \E s \in SUBSET DOMAIN desired, w \in {None, password[p][r]} :
                ctfd' = [ctfd EXCEPT ![1] = Overlaid(Configuration, desired, s, w)]
  BY <1>1 DEF Configuration
<1> QED
  BY <1>1 DEF Apply

LEMMA ApplyType ==
    ASSUME SettingsInv, NEW p \in Pods, NEW r \in Resources, Apply(p, r)
    PROVE  /\ Configuration' \in Configurations
           /\ ctfd' \in [Ids -> Configurations \cup {NoItem}]
<1>1. Copy(p, r).spec \in Specs /\ password[p][r] \in Passwords \cup {None}
  BY SettingsCopy DEF Apply, At, SettingsInv, TypeOK
<1>2. PICK some \in SUBSET DOMAIN DesiredConfig(Copy(p, r).spec), pw \in {None, password[p][r]} :
         ctfd' = [ctfd EXCEPT ![1] =
                     Overlaid(Configuration, DesiredConfig(Copy(p, r).spec), some, pw)]
  BY ApplyDoes
<1> DEFINE new == Overlaid(Configuration, DesiredConfig(Copy(p, r).spec), some, pw)
<1>3. new \in Configurations
  BY <1>1, OverlaidType DEF SettingsInv, AlwaysThere
<1> HIDE DEF new
<1>4. 1 \in Ids
  BY SingletonAssumption DEF Ids
<1>5. ctfd' = [ctfd EXCEPT ![1] = new]
  BY <1>2 DEF new
<1> QED
  BY <1>3, <1>4, <1>5 DEF SettingsInv, TypeOK, TypedWith, Configuration

(***************************************************************************)
(* Types: the calls of a reconcile and the rest.                           *)
(***************************************************************************)
LEMMA GetConfigsType ==
    ASSUME TypeOK, NEW p \in Pods, NEW r \in Resources, GetConfigs(p, r)
    PROVE  TypedWith(Configurations)'
<1> DEFINE d == ~IsUpToDate(DesiredConfig(Copy(p, r).spec), Configuration.values)
<1>1. wk[p][r] \in Workers
  BY SettingsCopy DEF GetConfigs, At
<1>2. budget' \in [Bounds -> Nat]
  BY FaultType DEF GetConfigs, TypeOK, TypedWith
<1>3. ASSUME wk' = [wk EXCEPT ![p][r].pc = "mail", ![p][r].drift = d]
      PROVE  wk' \in [Pods -> [Resources -> Workers \cup {Resting}]]
  <2>1. d \in BOOLEAN
    BY DEF IsUpToDate
  <2> HIDE DEF d
  <2>2. [wk[p][r] EXCEPT !.pc = "mail", !.drift = d] \in Workers
    BY <1>1, <2>1 DEF Workers, PCs
  <2>3. wk' = [wk EXCEPT ![p][r] = [wk[p][r] EXCEPT !.pc = "mail", !.drift = d]]
    BY <1>3 DEF TypeOK, TypedWith
  <2> QED
    BY <2>2, <2>3, WorkerType DEF TypeOK
<1>4. wk' \in [Pods -> [Resources -> Workers \cup {Resting}]]
  BY <1>3, RestType DEF GetConfigs, TypeOK
<1> QED
  BY <1>2, <1>4 DEF GetConfigs, TypeOK, TypedWith, kubeVars, ctfdVars

LEMMA PasswordCallsType ==
    ASSUME TypeOK, NEW p \in Pods, NEW r \in Resources,
           ObservePassword(p, r) \/ ApplyPassword(p, r) \/ DeleteSettings(p, r)
    PROVE  TypedWith(Configurations)'
<1>1. wk[p][r].pc # "resting"
  BY DEF ObservePassword, ApplyPassword, DeleteSettings, At
<1>2. budget' \in [Bounds -> Nat]
  BY FaultType DEF ObservePassword, ApplyPassword, DeleteSettings, TypeOK, TypedWith
<1>3. /\ wk' \in [Pods -> [Resources -> Workers \cup {Resting}]]
      /\ obj' \in [Resources -> Objects]
  <2>1. ASSUME NEW ready \in BOOLEAN, Finish(p, r, ready)
        PROVE  /\ wk' \in [Pods -> [Resources -> Workers \cup {Resting}]]
               /\ obj' \in [Resources -> Objects]
    BY <2>1, FinishType DEF TypeOK
  <2>2. CASE ObservePassword(p, r)
    BY <1>1, <2>1, <2>2, ObservedType DEF ObservePassword, TypeOK, TypedWith
  <2>3. CASE ApplyPassword(p, r)
    BY <1>1, <2>1, <2>3, GotoType DEF ApplyPassword, TypeOK, TypedWith, PCs
  <2>4. CASE DeleteSettings(p, r)
    BY <2>1, <2>4 DEF DeleteSettings
  <2> QED
    BY <2>2, <2>3, <2>4
<1> QED
  BY <1>2, <1>3 DEF ObservePassword, ApplyPassword, DeleteSettings, TypeOK, TypedWith, ctfdVars

LEMMA PasswordsType ==
    ASSUME TypeOK, NEW p \in Pods, NEW r \in Resources, Reconcile(p, r)
    PROVE  /\ mailSecret' = mailSecret
           /\ password' \in [Pods -> [Resources -> Passwords \cup {None}]]
<1>1. CASE ApplyPassword(p, r)
  <2>1. ~Unreadable(Copy(p, r).spec) => MailPassword(Copy(p, r).spec) \in Passwords \cup {None}
    BY DEF Unreadable, MailPassword, TypeOK
  <2>2. mailSecret' = mailSecret
    BY <1>1 DEF ApplyPassword
  <2>3. ASSUME NEW pw \in Passwords \cup {None}, password' = [password EXCEPT ![p][r] = pw]
        PROVE  password' \in [Pods -> [Resources -> Passwords \cup {None}]]
    BY <2>3 DEF TypeOK
  <2>4. CASE UNCHANGED password
    BY <2>2, <2>4 DEF TypeOK
  <2> QED
    BY <1>1, <2>1, <2>2, <2>3, <2>4 DEF ApplyPassword
<1>2. CASE Apply(p, r)
  BY <1>2 DEF Apply, TypeOK
<1> QED
  BY <1>1, <1>2 DEF Reconcile, Start, GetConfigs, ObservePassword, DeleteSettings, mailVars, TypeOK

LEMMA SettingsReconcileType ==
    ASSUME SettingsInv, NEW p \in Pods, NEW r \in Resources, Reconcile(p, r)
    PROVE  TypeOK' /\ AlwaysThere'
<1>1. TypedWith(Configurations)'
  <2>1. CASE Apply(p, r)
    <3>1. budget' \in [Bounds -> Nat]
      BY <2>1, FaultType DEF Apply, SettingsInv, TypeOK, TypedWith
    <3>2. /\ wk' \in [Pods -> [Resources -> Workers \cup {Resting}]]
          /\ obj' \in [Resources -> Objects]
      BY <2>1, FinishType DEF Apply, SettingsInv, TypeOK
    <3> QED
      BY <2>1, <3>1, <3>2, ApplyType DEF Apply, SettingsInv, TypeOK, TypedWith
  <2>2. CASE Start(p, r)
    BY <2>2, StartAtType DEF Start, SettingsInv, TypeOK, PCs
  <2>3. CASE Bookkeeping(p, r)
    BY <2>3, BookkeepingType DEF SettingsInv, TypeOK
  <2> QED
    BY <2>1, <2>2, <2>3, GetConfigsType, PasswordCallsType DEF Reconcile, SettingsInv
<1>2. AlwaysThere'
  <2>1. CASE Apply(p, r)
    BY <2>1, ApplyType DEF AlwaysThere
  <2>2. CASE ~Apply(p, r)
    <3>1. ctfd' = ctfd
      BY <2>2 DEF Reconcile, Start, StartAt, GetConfigs, ObservePassword, ApplyPassword,
                  DeleteSettings, Bookkeeping, AddFinalizer, SetPending, SaveCreated,
                  SaveFailed, RemoveFinalizer, ctfdVars
    <3> QED
      BY <3>1 DEF SettingsInv, AlwaysThere, Configuration
  <2> QED
    BY <2>1, <2>2
<1> QED
  BY <1>1, <1>2, PasswordsType DEF SettingsInv, TypeOK

\* Only ApplyPassword brings a worker to the PATCH.
LEMMA ReferencedStep ==
    ASSUME SettingsInv, NEW p \in Pods, NEW r \in Resources, Reconcile(p, r)
    PROVE  Referenced'
<1> USE DEF SettingsInv
<1>1. \A q \in Pods, s \in Resources : q # p \/ s # r =>
         wk'[q][s] = wk[q][s] /\ password'[q][s] = password[q][s]
  <2>1. MovesOnly(p, r)
    <3>1. CASE Start(p, r) \/ Bookkeeping(p, r) \/ ObservePassword(p, r) \/ DeleteSettings(p, r)
               \/ Apply(p, r) \/ ApplyPassword(p, r)
      BY <3>1, OthersRest DEF Start, ObservePassword, DeleteSettings, Apply, ApplyPassword, TypeOK
    <3>2. CASE GetConfigs(p, r)
      BY <3>2 DEF GetConfigs, Rest, MovesOnly, TypeOK, TypedWith
    <3> QED
      BY <3>1, <3>2 DEF Reconcile
  <2>2. \A q \in Pods, s \in Resources : q # p \/ s # r => password'[q][s] = password[q][s]
    <3>1. ASSUME NEW pw, password' = [password EXCEPT ![p][r] = pw]
          PROVE  \A q \in Pods, s \in Resources : q # p \/ s # r => password'[q][s] = password[q][s]
      BY <3>1 DEF TypeOK
    <3>2. password' = password \/ \E pw : password' = [password EXCEPT ![p][r] = pw]
      BY DEF Reconcile, Start, GetConfigs, ObservePassword, ApplyPassword, Apply, DeleteSettings,
             mailVars
    <3> QED
      BY <3>1, <3>2
  <2> QED
    BY <2>1, <2>2 DEF MovesOnly
<1>2. wk'[p][r].pc = "apply" => password'[p][r] = None \/ wk'[p][r].copy.spec.mail
  <2>1. ASSUME Rest(p, r) PROVE wk'[p][r].pc # "apply"
    BY <2>1 DEF Rest, Resting, TypeOK, TypedWith
  <2>2. ASSUME NEW pc, Goto(p, r, pc), wk[p][r].pc # "resting"
        PROVE  wk'[p][r].pc = pc /\ wk'[p][r].copy = wk[p][r].copy
    <3>1. wk'[p][r] = [wk[p][r] EXCEPT !.pc = pc]
      BY <2>2 DEF Goto, TypeOK, TypedWith
    <3> QED
      BY <2>2, <3>1, SettingsCopy DEF Workers
  <2>3. CASE ApplyPassword(p, r)
    <3>1. ASSUME Goto(p, r, "apply"),
                 password' = [password EXCEPT ![p][r] = MailPassword(Copy(p, r).spec)]
          PROVE  password'[p][r] = None \/ wk'[p][r].copy.spec.mail
      BY <2>2, <2>3, <3>1 DEF ApplyPassword, At, MailPassword, Copy, TypeOK
    <3> QED
      BY <2>1, <2>3, <3>1 DEF ApplyPassword, Finish
  <2>4. CASE Start(p, r)
    BY <2>4 DEF Start, StartAt, NewReconcile, TypeOK, TypedWith
  <2>5. CASE GetConfigs(p, r)
    <3>1. ASSUME NEW d, wk' = [wk EXCEPT ![p][r].pc = "mail", ![p][r].drift = d]
          PROVE  wk'[p][r].pc # "apply"
      <4>1. wk[p][r] \in Workers
        BY <2>5, SettingsCopy DEF GetConfigs, At
      <4> QED
        BY <3>1, <4>1 DEF Workers, TypeOK, TypedWith
    <3> QED
      BY <2>1, <2>5, <3>1 DEF GetConfigs
  <2>6. CASE ObservePassword(p, r)
    <3>1. ASSUME NEW todo, wk' = [wk EXCEPT ![p][r].pc = "finalizer", ![p][r].todo = todo]
          PROVE  wk'[p][r].pc # "apply"
      <4>1. wk[p][r] \in Workers
        BY <2>6, SettingsCopy DEF ObservePassword, At
      <4> QED
        BY <3>1, <4>1 DEF Workers, TypeOK, TypedWith
    <3> QED
      BY <2>1, <2>2, <2>6, <3>1 DEF ObservePassword, Observed, At, Finish
  <2>7. CASE Bookkeeping(p, r)
    <3>1. ASSUME NEW o, NEW pc \in {"finalizer", "post"}, Update(p, r, o, pc), wk[p][r].pc # "resting"
          PROVE  wk'[p][r].pc # "apply"
      <4>1. wk[p][r] \in Workers
        BY <3>1, SettingsCopy
      <4>2. ASSUME wk' = [wk EXCEPT ![p][r].copy = o, ![p][r].pc = pc]
            PROVE  wk'[p][r].pc = pc
        BY <4>1, <4>2 DEF Workers, TypeOK, TypedWith
      <4> QED
        BY <2>1, <3>1, <4>2 DEF Update
    <3>2. CASE AddFinalizer(p, r)
      BY <2>1, <2>2, <3>1, <3>2 DEF AddFinalizer, Finish, At, NextCall
    <3>3. CASE SetPending(p, r)
      BY <3>1, <3>3 DEF SetPending, At
    <3>4. CASE SaveCreated(p, r) \/ SaveFailed(p, r) \/ RemoveFinalizer(p, r)
      BY <2>1, <3>4 DEF SaveCreated, SaveFailed, RemoveFinalizer
    <3> QED
      BY <2>7, <3>2, <3>3, <3>4 DEF Bookkeeping
  <2>8. CASE Apply(p, r) \/ DeleteSettings(p, r)
    BY <2>1, <2>8 DEF Apply, DeleteSettings, Finish
  <2> QED
    BY <2>3, <2>4, <2>5, <2>6, <2>7, <2>8 DEF Reconcile
<1>3. SUFFICES ASSUME NEW q \in Pods, NEW s \in Resources, wk'[q][s].pc = "apply"
               PROVE  password'[q][s] = None \/ wk'[q][s].copy.spec.mail
  BY DEF Referenced, Copy
<1> QED
  BY <1>1, <1>2, <1>3 DEF Referenced, Copy

LEMMA SettingsStep ==
    ASSUME SettingsInv, [Next]_settingsVars
    PROVE  SettingsInv'
<1>1. ASSUME NEW p \in Pods, NEW r \in Resources, Reconcile(p, r) PROVE SettingsInv'
  BY <1>1, SettingsReconcileType, ReferencedStep DEF SettingsInv
<1>2. CASE Surroundings /\ UNCHANGED mailVars
  <2>1. ctfd' = ctfd
    BY <1>2 DEF Surroundings, CacheSync, GraceElapses, EditSpec, DeleteResource, Crash, ctfdVars
  <2>2. TypeOK' /\ AlwaysThere'
    <3>1. TypedWith(Configurations)'
      BY <1>2, SurroundingsType DEF SettingsInv, TypeOK
    <3>2. mailSecret' = mailSecret /\ password' = password /\ Configuration' = Configuration
      BY <1>2, <2>1 DEF mailVars, Configuration
    <3> QED
      BY <3>1, <3>2 DEF SettingsInv, TypeOK, AlwaysThere
  <2>3. \A q \in Pods, s \in Resources : wk'[q][s] = wk[q][s] \/ wk'[q][s].pc = "resting"
    <3>1. CASE wk' = wk
      BY <3>1
    <3>2. ASSUME NEW p \in Pods, Crash(p)
          PROVE  \A q \in Pods, s \in Resources : wk'[q][s] = wk[q][s] \/ wk'[q][s].pc = "resting"
      BY <3>2 DEF Crash, Resting, SettingsInv, TypeOK, TypedWith
    <3> QED
      BY <1>2, <3>1, <3>2 DEF Surroundings, CacheSync, GraceElapses, EditSpec, DeleteResource
  <2> QED
    BY <1>2, <2>2, <2>3 DEF SettingsInv, Referenced, Copy, mailVars
<1>3. CASE AdminActs
  <2> DEFINE new == {[Configuration EXCEPT !.values[k] = "by hand"] : k \in {"ctf_name", "paused"}}
  <2>1. new \subseteq Configurations
    <3>1. ASSUME NEW k \in {"ctf_name", "paused"}
          PROVE  [Configuration EXCEPT !.values[k] = "by hand"] \in Configurations
      <4>1. "by hand" \in Values
        BY DEF Values
      <4>2. [Configuration.values EXCEPT ![k] = "by hand"] \in [Keys -> Values]
        BY <4>1 DEF SettingsInv, AlwaysThere, Configurations
      <4>3. [Configuration EXCEPT !.values[k] = "by hand"]
               = [Configuration EXCEPT !.values = [Configuration.values EXCEPT ![k] = "by hand"]]
        BY DEF SettingsInv, AlwaysThere, Configurations
      <4> QED
        BY <4>2, <4>3 DEF SettingsInv, AlwaysThere, Configurations
    <3> QED
      BY <3>1
  <2>2. 1 \in Ids
    BY SingletonAssumption DEF Ids
  <2>3. Intervene(1, new) /\ UNCHANGED mailVars
    BY <1>3 DEF AdminActs
  <2> HIDE DEF new
  <2>4. TypedWith(Configurations)'
    BY <2>1, <2>2, <2>3, InterveneType DEF SettingsInv, TypeOK
  <2>5. Configuration' \in Configurations /\ wk' = wk
    BY <2>1, <2>2, <2>3 DEF Intervene, Configuration, SettingsInv, TypeOK, TypedWith
  <2> QED
    BY <2>3, <2>4, <2>5 DEF SettingsInv, TypeOK, AlwaysThere, Referenced, Copy, mailVars
<1>4. CASE EditSecret
  <2>1. budget' \in [Bounds -> Nat]
    BY <1>4, SpendType DEF EditSecret, SettingsInv, TypeOK, TypedWith, Bounds
  <2> QED
    BY <1>4, <2>1 DEF EditSecret, SettingsInv, TypeOK, TypedWith, AlwaysThere, Configuration,
                      Referenced, Copy, kubeVars, ctfdVars
<1>5. CASE UNCHANGED settingsVars
  BY <1>5 DEF settingsVars, vars, mailVars, SettingsInv, TypeOK, TypedWith, AlwaysThere,
              Configuration, Referenced, Copy
<1> QED
  BY <1>1, <1>2, <1>3, <1>4, <1>5 DEF Next

LEMMA SettingsInitially ==
    ASSUME Init
    PROVE  SettingsInv
<1>1. Fresh \in Configurations
  BY DEF Fresh, Configurations, Values
<1>2. TypedWith(Configurations)
  BY <1>1, InitType DEF Init
<1>3. 1 \in Ids /\ 1 <= Preexisting
  BY SingletonAssumption DEF Ids
<1>4. Configuration = Fresh
  BY <1>3 DEF Init, InitWith, Configuration
<1>5. Referenced
  BY DEF Init, InitWith, Referenced, Resting
<1> QED
  BY <1>1, <1>2, <1>4, <1>5 DEF Init, SettingsInv, TypeOK, AlwaysThere

(***************************************************************************)
(* Every variable keeps its type; CTFd never holds a password that was not *)
(* in the Secret.                                                          *)
(***************************************************************************)
THEOREM SettingsTypeCorrect == Spec => []TypeOK
<1>1. Init => SettingsInv
  BY SettingsInitially
<1>2. SettingsInv /\ [Next]_settingsVars => SettingsInv'
  BY SettingsStep
<1>3. SettingsInv => TypeOK
  BY DEF SettingsInv
<1> QED
  BY <1>1, <1>2, <1>3, PTL DEF Spec

\* Whatever fails halfway, whatever is edited or changes between the reads of
\* the Secret: no reconcile writes a key that its resource leaves out, or a
\* password without a reference to it, or blanks the password.
THEOREM WritesOnlySetKeys == Spec => OnlySetKeysWritten
<1> DEFINE Writes(p, r) ==
       /\ \A k \in Keys : Configuration'.values[k] # Configuration.values[k]
                             => Copy(p, r).spec.fields[k] # Nil
       /\ Configuration'.password # Configuration.password
             => Copy(p, r).spec.mail /\ Configuration'.password # None
<1>1. ASSUME SettingsInv, NEW p \in Pods, NEW r \in Resources, Reconcile(p, r) PROVE Writes(p, r)
  <2>1. CASE Apply(p, r)
    <3>1. /\ Copy(p, r).spec \in Specs /\ password[p][r] \in Passwords \cup {None}
          /\ Configuration \in Configurations
      BY <1>1, <2>1, SettingsCopy DEF Apply, At, SettingsInv, TypeOK, AlwaysThere
    <3>2. PICK some \in SUBSET DOMAIN DesiredConfig(Copy(p, r).spec),
               pw \in {None, password[p][r]} :
             ctfd' = [ctfd EXCEPT ![1] =
                         Overlaid(Configuration, DesiredConfig(Copy(p, r).spec), some, pw)]
      BY <1>1, <2>1, ApplyDoes
    <3>3. Configuration' = Overlaid(Configuration, DesiredConfig(Copy(p, r).spec), some, pw)
      BY <1>1, <3>2, SingletonAssumption DEF Configuration, Ids, SettingsInv, TypeOK, TypedWith
    <3>4. pw # None => Copy(p, r).spec.mail
      BY <1>1, <2>1 DEF Apply, At, SettingsInv, Referenced
    <3>5. some \subseteq DOMAIN DesiredConfig(Copy(p, r).spec) /\ pw \in Passwords \cup {None}
      BY <3>1
    <3>6. /\ \A k \in Keys : Configuration'.values[k] # Configuration.values[k]
                                => Copy(p, r).spec.fields[k] # Nil
          /\ Configuration'.password # Configuration.password
                => Configuration'.password = pw /\ pw # None
      <4> DEFINE new == Overlaid(Configuration, DesiredConfig(Copy(p, r).spec), some, pw)
      <4>1. /\ \A k \in Keys : new.values[k] # Configuration.values[k]
                                => Copy(p, r).spec.fields[k] # Nil
            /\ new.password # Configuration.password => new.password = pw /\ pw # None
        BY <3>1, <3>5, OverlaidKeeps
      <4> QED
        BY <3>3, <4>1
    <3> QED
      BY <3>4, <3>6
  <2>2. CASE ~Apply(p, r)
    <3>1. ctfd' = ctfd
      BY <1>1, <2>2 DEF Reconcile, Start, StartAt, GetConfigs, ObservePassword, ApplyPassword,
                  DeleteSettings, Bookkeeping, AddFinalizer, SetPending, SaveCreated,
                  SaveFailed, RemoveFinalizer, ctfdVars
    <3> QED
      BY <3>1 DEF Configuration
  <2> QED
    BY <2>1, <2>2
<1>2. SettingsInv /\ [Next]_settingsVars =>
         [\A p \in Pods, r \in Resources : Reconcile(p, r) => Writes(p, r)]_settingsVars
  BY <1>1
<1>3. Init => SettingsInv
  BY SettingsInitially
<1>4. SettingsInv /\ [Next]_settingsVars => SettingsInv'
  BY SettingsStep
<1> QED
  BY <1>2, <1>3, <1>4, PTL DEF Spec, OnlySetKeysWritten

\* What a reconcile writes, it does not find drifted: after a PATCH that succeeds
\* every key that is set reads as isUpToDate wants it, booleans included.
THEOREM SettingsSettle == Spec => WritesSettle
<1>1. ASSUME SettingsInv, NEW p \in Pods, NEW r \in Resources, Apply(p, r), UNCHANGED budget
      PROVE  IsUpToDate(DesiredConfig(Copy(p, r).spec), Configuration'.values)
  <2> DEFINE desired == DesiredConfig(Copy(p, r).spec)
             new == Overlaid(Configuration, desired, DOMAIN desired, password[p][r])
  <2>1. ctfd' = [ctfd EXCEPT ![1] = new]
    BY <1>1, FaultSpends DEF Apply, Configuration, SettingsInv, TypeOK, TypedWith
  <2>2. Configuration' = new
    BY <1>1, <2>1, SingletonAssumption DEF Configuration, Ids, SettingsInv, TypeOK, TypedWith
  <2>3. DOMAIN desired \subseteq Keys
    BY DEF DesiredConfig
  <2> HIDE DEF desired
  <2>4. \A k \in DOMAIN desired : new.values[k] = Stored(k, desired[k])
    BY <2>3 DEF Overlaid
  <2> HIDE DEF new
  <2>5. IsUpToDate(desired, new.values)
    BY <2>4 DEF IsUpToDate, Stored, ConfigString
  <2> QED
    BY <2>2, <2>5 DEF desired
<1>2. SettingsInv /\ [Next]_settingsVars =>
         [\A p \in Pods, r \in Resources : Apply(p, r) /\ UNCHANGED budget =>
             IsUpToDate(DesiredConfig(Copy(p, r).spec), Configuration'.values)]_settingsVars
  BY <1>1
<1>3. Init => SettingsInv
  BY SettingsInitially
<1>4. SettingsInv /\ [Next]_settingsVars => SettingsInv'
  BY SettingsStep
<1> QED
  BY <1>2, <1>3, <1>4, PTL DEF Spec, WritesSettle
=============================================================================
