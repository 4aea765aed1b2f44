--------------------------- MODULE ProviderConfig ---------------------------
(***************************************************************************)
(* How a reconcile gets its CTFd client, and what keeps the ProviderConfig *)
(* it comes from in place: Connect tracks a usage of the config            *)
(* (internal/controller/page/page.go) and resolves the config and its      *)
(* credentials (internal/clients/ctfd.go); the config controller           *)
(* (internal/controller/config/config.go) accounts for the usages.  All    *)
(* resources refer to one config.                                          *)
(***************************************************************************)
EXTENDS Reconciler

CONSTANTS
    ConfigKind,     \* the kind in the resources' providerConfigRef
    Secrets         \* the credentials a user may put in the config's Secret

ConfigKinds == {"ProviderConfig", "ClusterProviderConfig"}

\* Which fields of the JSON are there and not empty.  A Secret that is missing
\* or holds no JSON is as good as one without a URL.
Credentials == [url: BOOLEAN, api_key: BOOLEAN, session: BOOLEAN, nonce: BOOLEAN]

ASSUME SecretsAssumption == Secrets \subseteq Credentials

VARIABLES
    config,     \* the ProviderConfig or ClusterProviderConfig
    secret,     \* what its Secret holds
    usages,     \* the resources a ProviderConfigUsage exists for
    known,      \* those of them in the config controller's cache
    users,      \* what the config controller counted last, if it is deleting
    protected   \* history: the usages known when the deletion was asked for

configVars == <<config, secret, usages, known, users, protected>>
allVars == <<vars, configVars>>

Configs == [phase: {"live", "deleting", "gone"}, finalizer: BOOLEAN]
NotCounted == {"not counted"}

ConfigInit ==
    /\ config = [phase |-> "live", finalizer |-> FALSE]
    /\ secret \in Secrets
    /\ usages = {} /\ known = {} /\ protected = {}
    /\ users = NotCounted

----------------------------------------------------------------------------
(***************************************************************************)
(* Connect.                                                                *)
(***************************************************************************)
\* The usage is stored before the config is read, at every reconcile.
Track(p, r) ==
    /\ At(p, r, "track")
    /\ \/ /\ usages' = usages \cup {r}
          /\ Goto(p, r, "resolve")
          /\ UNCHANGED budget
       \/ Fault("connect") /\ Rest(p, r) /\ UNCHANGED usages
    /\ UNCHANGED <<kubeVars, cache, ctfdVars, config, secret, known, users, protected>>

\* NewClient takes an API key, or a session and a nonce.
Usable(creds) ==
    creds.url /\ (creds.api_key \/ (creds.session /\ creds.nonce))

\* Mutant of Resolved: a config that is being deleted gives no client.
ResolvedWhileLive == ConfigKind \in ConfigKinds /\ config.phase = "live" /\ Usable(secret)

\* FromProviderConfig.  Without a client the reconcile ends, and so it does
\* for an object that is being deleted.
Resolved == ConfigKind \in ConfigKinds /\ config.phase # "gone" /\ Usable(secret)

Resolve(p, r) ==
    /\ At(p, r, "resolve")
    /\ \/ Resolved /\ Goto(p, r, "get") /\ UNCHANGED budget
       \/ ~Resolved /\ Rest(p, r) /\ UNCHANGED budget
       \/ Fault("connect") /\ Rest(p, r)
    /\ UNCHANGED <<kubeVars, cache, ctfdVars, configVars>>

----------------------------------------------------------------------------
(***************************************************************************)
(* The config controller, one for each kind of config.                     *)
(***************************************************************************)
AddConfigFinalizer ==
    /\ config.phase = "live" /\ ~config.finalizer
    /\ config' = [config EXCEPT !.finalizer = TRUE]
    /\ UNCHANGED <<vars, secret, usages, known, users, protected>>

\* The controller of ClusterProviderConfigs counts ClusterProviderConfigUsages,
\* of which Track makes none.
Counted == IF ConfigKind = "ProviderConfig" THEN known ELSE {}

\* Mutant of CountUsages: the first count is the last.
CountUsagesOnce ==
    /\ config.phase = "deleting" /\ users = NotCounted
    /\ users' = Counted
    /\ UNCHANGED <<vars, config, secret, usages, known, protected>>

\* A config that is being deleted is counted again until it is released.
CountUsages ==
    /\ config.phase = "deleting" /\ users # Counted
    /\ users' = Counted
    /\ UNCHANGED <<vars, config, secret, usages, known, protected>>

\* Mutant of ReleaseConfig: the count is not waited for.
ReleaseConfigAnyway ==
    /\ config.phase = "deleting" /\ users # NotCounted
    /\ config' = [config EXCEPT !.phase = "gone", !.finalizer = FALSE]
    /\ UNCHANGED <<vars, secret, usages, known, users, protected>>

ReleaseConfig ==
    /\ config.phase = "deleting" /\ users = {}
    /\ config' = [config EXCEPT !.phase = "gone", !.finalizer = FALSE]
    /\ UNCHANGED <<vars, secret, usages, known, users, protected>>

----------------------------------------------------------------------------
(***************************************************************************)
(* The surroundings.                                                       *)
(***************************************************************************)
DeleteConfig ==
    /\ config.phase = "live"
    /\ config' = [config EXCEPT !.phase = IF config.finalizer THEN "deleting" ELSE "gone"]
    /\ protected' = IF config.finalizer THEN known ELSE {}
    /\ UNCHANGED <<vars, secret, usages, known, users>>

EditSecret ==
    /\ Spend("edit")
    /\ secret' \in Secrets \ {secret}
    /\ UNCHANGED <<kubeVars, cache, wk, ctfdVars, config, usages, known, users, protected>>

UsageSync ==
    /\ known # usages
    /\ known' = usages
    /\ UNCHANGED <<vars, config, secret, usages, users, protected>>

\* Kubernetes deletes the usage of a resource that is gone, its owner.
CollectUsage(r) ==
    /\ r \in usages /\ obj[r].phase = "gone"
    /\ usages' = usages \ {r}
    /\ UNCHANGED <<vars, config, secret, known, users, protected>>

ConfigActs ==
    \/ AddConfigFinalizer \/ CountUsages \/ ReleaseConfig
    \/ DeleteConfig \/ EditSecret \/ UsageSync
    \/ \E r \in Resources : CollectUsage(r)

\* The work queue of the config controller, its informer, the garbage collector.
ConfigFairness ==
    /\ WF_allVars(AddConfigFinalizer \/ CountUsages \/ ReleaseConfig)
    /\ WF_allVars(UsageSync)
    /\ \A r \in Resources : WF_allVars(CollectUsage(r))

----------------------------------------------------------------------------
(***************************************************************************)
(* Properties.                                                             *)
(***************************************************************************)
ConfigTyped ==
    /\ config \in Configs
    /\ secret \in Secrets
    /\ usages \subseteq Resources /\ known \subseteq Resources /\ protected \subseteq Resources
    /\ users \in {NotCounted} \cup SUBSET Resources

\* A config whose deletion was asked for stays until every resource that was
\* known to use it is gone: each needs it for its own deletion in CTFd.
ConfigOutlivesUsers ==
    config.phase = "gone" => \A r \in protected : obj[r].phase = "gone"

\* Why it holds for a ProviderConfig: a usage stays as long as its resource,
\* and so does what the config controller knows and counts of it.
UsersProtected ==
    /\ config.phase = "live" => users = NotCounted /\ protected = {}
    /\ \A r \in known : r \in usages \/ obj[r].phase = "gone"
    /\ \A r \in protected : obj[r].phase # "gone" =>
          /\ r \in usages /\ r \in known
          /\ config.phase = "deleting" /\ (users = NotCounted \/ r \in users)

\* A config that is being deleted for ever has a user that never goes.
ConfigReleased ==
    []<>(config.phase # "deleting" \/ \E r \in usages : obj[r].phase # "gone")
=============================================================================
