----------------------------- MODULE Bootstrap -----------------------------
(***************************************************************************)
(* ctfdctl's bootstrap mode (test/e2e/ctfdctl/main.go), run by a Job: it   *)
(* sets up a CTFd instance, or logs in to one that is, and stores an admin *)
(* token where the ProviderConfig looks for it.  A Job may run more than   *)
(* one attempt at once, and starts a failed one again.                     *)
(*                                                                         *)
(* Every action is one call to CTFd or to the API server.                  *)
(***************************************************************************)
EXTENDS Integers

CONSTANTS
    Attempts,       \* the pods of the Job
    BackoffLimit,   \* how often the Job starts any of them again
    MaxFailures     \* how many calls fail, time out or are cut off

ASSUME BootstrapAssumption == BackoffLimit \in Nat /\ MaxFailures \in Nat

VARIABLES
    instance,   \* the CTFd instance
    minted,     \* how many admin tokens it has given out: 1..minted are valid
    secret,     \* the credentials Secret, once it exists
    job,        \* the attempts
    restarts,   \* how often the Job has started one again
    failures    \* what is left of MaxFailures

vars == <<instance, minted, secret, job, restarts, failures>>

NoToken == 0            \* a token without a value
NoSecret == [version |-> 0, token |-> NoToken]

\* An attempt: its next call, whether its session is the administrator's, the
\* token it got, the version of the Secret it read.
Waiting == [pc |-> "waitReady", admin |-> FALSE, token |-> NoToken, version |-> 0]

Init ==
    /\ instance = "starting" /\ minted = 0
    /\ secret = NoSecret
    /\ job = [a \in Attempts |-> Waiting]
    /\ restarts = 0
    /\ failures = MaxFailures

At(a, pc) == job[a].pc = pc
Goto(a, pc) == job' = [job EXCEPT ![a].pc = pc]

\* Every error ends the attempt.
Exit(a) == Goto(a, "failed")
Fails(a) == failures > 0 /\ failures' = failures - 1 /\ Exit(a)

----------------------------------------------------------------------------
Start ==
    /\ instance = "starting"
    /\ instance' = "fresh"
    /\ UNCHANGED <<minted, secret, job, failures, restarts>>

\* CTFd answers, or does not for five minutes.
WaitReady(a) ==
    /\ At(a, "waitReady")
    /\ \/ instance # "starting" /\ Goto(a, "isConfigured") /\ UNCHANGED failures
       \/ instance = "starting" /\ Fails(a)
    /\ UNCHANGED <<instance, minted, secret, restarts>>

\* Mutant of AfterConfigured: the wizard is run in any case.
SetupAlways(configured) == "setup"

AfterConfigured(configured) == IF configured THEN "login" ELSE "setup"

\* ensureToken: a GET that fails reads as not configured.
IsConfigured(a) ==
    /\ At(a, "isConfigured")
    /\ \/ Goto(a, AfterConfigured(instance = "configured")) /\ UNCHANGED failures
       \/ /\ failures > 0 /\ failures' = failures - 1
          /\ Goto(a, AfterConfigured(FALSE))
    /\ UNCHANGED <<instance, minted, secret, restarts>>

\* setupAndToken: the wizard makes the session the administrator's.  CTFd turns
\* a second one away, which is not an error: the session stays anonymous.
Setup(a) ==
    /\ At(a, "setup")
    /\ \/ /\ instance' = "configured"
          /\ job' = [job EXCEPT ![a].pc = "mint", ![a].admin = instance = "fresh"]
          /\ UNCHANGED failures
       \/ Fails(a) /\ instance' \in {instance, "configured"}
    /\ UNCHANGED <<minted, secret, restarts>>

\* loginAndToken.
Login(a) ==
    /\ At(a, "login")
    /\ \/ job' = [job EXCEPT ![a].pc = "mint", ![a].admin = TRUE] /\ UNCHANGED failures
       \/ Fails(a)
    /\ UNCHANGED <<instance, minted, secret, restarts>>

\* Mutant of Accepted: a token without a value is taken.
AcceptedAny(token) == TRUE

\* mintToken: an anonymous session gets a token without a value.
Accepted(token) == token # NoToken

MintToken(a) ==
    LET token == IF job[a].admin THEN minted + 1 ELSE NoToken
        Given == minted' = IF job[a].admin THEN token ELSE minted
    IN
    /\ At(a, "mint")
    /\ \/ /\ Accepted(token) /\ Given
          /\ job' = [job EXCEPT ![a].pc = "create", ![a].token = token]
          /\ UNCHANGED failures
       \/ ~Accepted(token) /\ Given /\ Exit(a) /\ UNCHANGED failures
       \/ Fails(a) /\ (UNCHANGED minted \/ Given)
    /\ UNCHANGED <<instance, secret, restarts>>

\* writeSecret: a Create; if the Secret exists a Get and an Update, which the
\* API server refuses when another was stored in between.
Store(a) == secret' = [version |-> secret.version + 1, token |-> job[a].token]

CreateSecret(a) ==
    /\ At(a, "create")
    /\ \/ secret = NoSecret /\ Store(a) /\ Goto(a, "done") /\ UNCHANGED failures
       \/ secret # NoSecret /\ Goto(a, "get") /\ UNCHANGED <<secret, failures>>
       \/ Fails(a) /\ (UNCHANGED secret \/ (secret = NoSecret /\ Store(a)))
    /\ UNCHANGED <<instance, minted, restarts>>

GetSecret(a) ==
    /\ At(a, "get")
    /\ \/ /\ job' = [job EXCEPT ![a].pc = "update", ![a].version = secret.version]
          /\ UNCHANGED failures
       \/ Fails(a)
    /\ UNCHANGED <<instance, minted, secret, restarts>>

UpdateSecret(a) ==
    /\ At(a, "update")
    /\ \/ secret.version = job[a].version /\ Store(a) /\ Goto(a, "done") /\ UNCHANGED failures
       \/ secret.version # job[a].version /\ Exit(a) /\ UNCHANGED <<secret, failures>>
       \/ Fails(a) /\ (UNCHANGED secret \/ (secret.version = job[a].version /\ Store(a)))
    /\ UNCHANGED <<instance, minted, restarts>>

\* The Job starts an attempt that failed again.
Restart(a) ==
    /\ At(a, "failed") /\ restarts < BackoffLimit
    /\ job' = [job EXCEPT ![a] = Waiting]
    /\ restarts' = restarts + 1
    /\ UNCHANGED <<instance, minted, secret, failures>>

Attempt(a) ==
    \/ WaitReady(a) \/ IsConfigured(a) \/ Setup(a) \/ Login(a) \/ MintToken(a)
    \/ CreateSecret(a) \/ GetSecret(a) \/ UpdateSecret(a) \/ Restart(a)

Next == Start \/ \E a \in Attempts : Attempt(a)

Spec == Init /\ [][Next]_vars

\* CTFd comes up, and the pods run.
FairSpec == Spec /\ WF_vars(Start) /\ \A a \in Attempts : WF_vars(Attempt(a))

----------------------------------------------------------------------------
(***************************************************************************)
(* Properties.                                                             *)
(***************************************************************************)
\* Whatever attempts race and fail, the Secret never holds anything but an
\* admin token that CTFd has given out.
CredentialsWork == secret # NoSecret => secret.token \in 1..minted

\* No attempt waits for another, or starts over for ever: within the backoff
\* limit every one comes to its end, with the credentials stored.
EveryAttemptSucceeds == \A a \in Attempts : <>[](At(a, "done") /\ secret # NoSecret)
=============================================================================
