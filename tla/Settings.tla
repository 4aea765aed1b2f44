------------------------------ MODULE Settings ------------------------------
(***************************************************************************)
(* The lifecycle of Settings managed resources: settings.go and            *)
(* conversion.go of internal/controller/settings, inside the managed       *)
(* reconciler.  What they manage is one thing that is always there, the    *)
(* configuration of CTFd: in the terms of Reconciler it is the item 1,     *)
(* made by an administrator, and every resource names it.                  *)
(***************************************************************************)
EXTENDS Reconciler

CONSTANTS
    Nil,            \* a field that is not set
    Passwords       \* the SMTP passwords the Secret may hold

ASSUME SingletonAssumption ==
    /\ MaxId = 1 /\ Preexisting = 1
    /\ InitialName = [r \in Resources |-> 1]

\* The keys that SettingsParameters and MailSettings map to.
Switches == {"paused", "verify_emails", "name_changes", "hints_free_public_access",
             "html_sanitization", "mail_tls", "mail_ssl", "mail_useauth"}
Texts == {"ctf_name", "ctf_description", "ctf_theme", "theme_header", "theme_footer",
          "theme_settings", "default_locale", "challenge_visibility", "account_visibility",
          "score_visibility", "registration_visibility", "start", "end", "freeze",
          "user_mode", "registration_code", "challenge_ratings", "robots_txt", "tos_url",
          "tos_text", "privacy_url", "privacy_text", "mail_server", "mail_port",
          "mail_username"}
Numbers == {"team_size"}        \* a number is named by its decimal numeral
Keys == Switches \cup Texts \cup Numbers

None == ""              \* a key that is missing reads as the empty string
NoSecret == "no secret"

VARIABLES
    mailSecret,     \* the password in the Secret of passwordSecretRef
    password        \* what apply has read of it, for each pod and resource

mailVars == <<mailSecret, password>>
settingsVars == <<vars, mailVars>>

\* A spec: the fields, and whether there is a passwordSecretRef.
Values == (UNION {{spec.fields[k] : k \in Keys} : spec \in Specs})
             \cup {None, "by hand", "true", "false", "0", "1", Nil}
Parameters == [fields: [Keys -> Values], mail: BOOLEAN]
Configurations == [values: [Keys -> Values], password: Passwords \cup {None}]

ASSUME SettingsAssumption == Specs \subseteq Parameters /\ None \notin Passwords

Configuration == ctfd[1]
Fresh == [values |-> [k \in Keys |-> None], password |-> None]

Init ==
    /\ InitWith(Fresh)
    /\ mailSecret \in Passwords
    /\ password = [p \in Pods |-> [r \in Resources |-> None]]

----------------------------------------------------------------------------
(***************************************************************************)
(* desiredConfig, configString and isUpToDate.                             *)
(***************************************************************************)
\* Mutant of DesiredConfig: a key that is not set is sent empty.
DesiredConfigOfAll(spec) == [k \in Keys |-> IF spec.fields[k] = Nil THEN None ELSE spec.fields[k]]

\* The keys that are set, the password apart.
DesiredConfig(spec) == [k \in {j \in Keys : spec.fields[j] # Nil} |-> spec.fields[k]]

\* CTFd stores every value as a string, booleans as "1" and "0".
Stored(key, v) ==
    IF key \in Switches THEN (IF v = "true" THEN "1" ELSE "0") ELSE v

\* Mutant of ConfigString: booleans as Go prints them.
ConfigStringGo(key, v) == v

ConfigString(key, v) ==
    IF key \in Switches THEN (IF v = "true" THEN "1" ELSE "0") ELSE v

\* Mutant of IsUpToDate: the switches are not compared.
IsUpToDateInText(desired, observed) ==
    \A k \in DOMAIN desired \ Switches : observed[k] = ConfigString(k, desired[k])

IsUpToDate(desired, observed) ==
    \A k \in DOMAIN desired : observed[k] = ConfigString(k, desired[k])

\* CTFd after a PATCH has carried out some keys of a body, and the password.
Overlaid(config, body, some, pw) ==
    [values |-> [k \in Keys |-> IF k \in some THEN Stored(k, body[k]) ELSE config.values[k]],
     password |-> IF pw = None THEN config.password ELSE pw]

----------------------------------------------------------------------------
(***************************************************************************)
(* Observe, Update and Delete.  Create is never called: the name of the    *)
(* resource is its external name, and a configuration always exists.       *)
(***************************************************************************)
Start(p, r) == StartAt(p, r, "get") /\ UNCHANGED mailVars

GetConfigs(p, r) ==
    LET desired == DesiredConfig(Copy(p, r).spec) IN
    /\ At(p, r, "get")
    /\ \/ /\ wk' = [wk EXCEPT ![p][r].pc = "mail",
                              ![p][r].drift = ~IsUpToDate(desired, Configuration.values)]
          /\ UNCHANGED budget
       \/ Fault("get") /\ Rest(p, r)
    /\ UNCHANGED <<kubeVars, cache, ctfdVars, mailVars>>

\* What mailPassword reads.  Without a reference there is nothing to read.
MailPassword(spec) == IF spec.mail THEN mailSecret ELSE None

\* Mutant of Unreadable: the error is dropped.
UnreadableNever(spec) == FALSE

Unreadable(spec) == spec.mail /\ mailSecret = NoSecret

\* Observe reads the password only to fail if it cannot; the Available
\* condition, which is set by then, is written all the same.
ObservePassword(p, r) ==
    LET spec == Copy(p, r).spec IN
    /\ At(p, r, "mail")
    /\ \/ ~Unreadable(spec) /\ Observed(p, r, wk[p][r].drift) /\ UNCHANGED <<obj, budget>>
       \/ /\ (Unreadable(spec) /\ UNCHANGED budget) \/ (spec.mail /\ Fault("secret"))
          /\ Finish(p, r, TRUE)
    /\ UNCHANGED <<recent, cache, ctfdVars, mailVars>>

\* apply reads the password again, then sends the PATCH.
ApplyPassword(p, r) ==
    LET spec == Copy(p, r).spec IN
    /\ At(p, r, "patch")
    /\ \/ /\ ~Unreadable(spec)
          /\ password' = [password EXCEPT ![p][r] = MailPassword(spec)]
          /\ Goto(p, r, "apply")
          /\ UNCHANGED <<obj, budget>>
       \/ /\ (Unreadable(spec) /\ UNCHANGED budget) \/ (spec.mail /\ Fault("secret"))
          /\ Finish(p, r, TRUE)
          /\ UNCHANGED password
    /\ UNCHANGED <<recent, cache, ctfdVars, mailSecret>>

\* CTFd stores one key after the other; one that fails has stored some.
Apply(p, r) ==
    LET desired == DesiredConfig(Copy(p, r).spec)
        Done(some, pw) == ctfd' = [ctfd EXCEPT ![1] = Overlaid(@, desired, some, pw)]
    IN
    /\ At(p, r, "apply")
    /\ \/ Done(DOMAIN desired, password[p][r]) /\ UNCHANGED budget
       \/ /\ Fault("patch")
          /\ \E some \in SUBSET DOMAIN desired, pw \in {None, password[p][r]} : Done(some, pw)
    /\ password' = [password EXCEPT ![p][r] = None]
    /\ Finish(p, r, TRUE)
    /\ UNCHANGED <<recent, cache, creator, nextId, mailSecret>>

\* Delete does nothing.
DeleteSettings(p, r) ==
    /\ At(p, r, "delete")
    /\ Finish(p, r, FALSE)
    /\ UNCHANGED <<recent, cache, ctfdVars, budget, mailVars>>

----------------------------------------------------------------------------
Reconcile(p, r) ==
    \/ Start(p, r) \/ GetConfigs(p, r) \/ ObservePassword(p, r)
    \/ Bookkeeping(p, r) /\ UNCHANGED mailVars
    \/ ApplyPassword(p, r) \/ Apply(p, r) \/ DeleteSettings(p, r)

\* An administrator changes a setting; somebody changes or deletes the Secret.
AdminActs ==
    /\ Intervene(1, {[Configuration EXCEPT !.values[k] = "by hand"] : k \in {"ctf_name", "paused"}})
    /\ UNCHANGED mailVars

EditSecret ==
    /\ Spend("edit")
    /\ mailSecret' \in (Passwords \cup {None, NoSecret}) \ {mailSecret}
    /\ UNCHANGED <<kubeVars, cache, wk, ctfdVars, password>>

Next ==
    \/ \E p \in Pods, r \in Resources : Reconcile(p, r)
    \/ Surroundings /\ UNCHANGED mailVars
    \/ AdminActs
    \/ EditSecret

Spec == Init /\ [][Next]_settingsVars

\* As for challenges: retries and polls, and the informers.
Fairness ==
    \A p \in Pods, r \in Resources :
        /\ WF_settingsVars(Reconcile(p, r))
        /\ WF_settingsVars(CacheSync(p, r) /\ UNCHANGED mailVars)

FairSpec == Spec /\ Fairness

----------------------------------------------------------------------------
(***************************************************************************)
(* Properties.                                                             *)
(***************************************************************************)
\* Every variable has its type: among others, CTFd has no password but those
\* that were in the Secret.
TypeOK ==
    /\ TypedWith(Configurations)
    /\ mailSecret \in Passwords \cup {None, NoSecret}
    /\ password \in [Pods -> [Resources -> Passwords \cup {None}]]

\* A reconcile writes only keys that its resource sets, never the password
\* without a reference to it, and never blanks the password.
OnlySetKeysWritten ==
    [][\A p \in Pods, r \in Resources : Reconcile(p, r) =>
          LET spec == Copy(p, r).spec IN
          /\ \A k \in Keys : Configuration'.values[k] # Configuration.values[k]
                                => spec.fields[k] # Nil
          /\ Configuration'.password # Configuration.password
                => spec.mail /\ Configuration'.password # None]_settingsVars

\* A PATCH that succeeds leaves a configuration in which isUpToDate finds nothing
\* to do, booleans included.
WritesSettle ==
    [][\A p \in Pods, r \in Resources : Apply(p, r) /\ UNCHANGED budget =>
          IsUpToDate(DesiredConfig(Copy(p, r).spec), Configuration'.values)]_settingsVars

Live(r) == obj[r].phase = "live"
Applied(r) == \A k \in Keys : obj[r].spec.fields[k] # Nil =>
                 Configuration.values[k] = Stored(k, obj[r].spec.fields[k])

Readable(r) == ~Unreadable(obj[r].spec)

\* If its password can be read, the one resource that the documentation asks
\* for has CTFd configured as it says, once the failures, the edits and the
\* interventions stop, until it is deleted.
EventuallyApplied ==
    \A r \in Resources : <>[]Readable(r) => <>[](Live(r) => Applied(r))

\* The one resource does not cause perpetual updates.
UpdatesCease ==
    \A r \in Resources : <>[][\A p \in Pods : ~Apply(p, r)]_settingsVars

\* Deleting the resource only stops Crossplane from managing it: it goes away.
DeletionCompletes == \A r \in Resources : obj[r].phase = "deleting" ~> obj[r].phase = "gone"
=============================================================================
