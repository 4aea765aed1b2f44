--------------------------- MODULE Bootstrap_proofs ---------------------------
(***************************************************************************)
(* Proofs about Bootstrap, for any number of attempts, restarts and        *)
(* failures.                                                               *)
(***************************************************************************)
EXTENDS Bootstrap, TLAPS

Stages == {"waitReady", "isConfigured", "setup", "login", "mint", "create", "get", "update",
           "done", "failed"}

TypeOK ==
    /\ minted \in Nat
    /\ secret \in [version: Nat, token: Nat]
    /\ job \in [Attempts -> [pc: Stages, admin: BOOLEAN, token: Nat, version: Nat]]

\* An attempt that comes to store a token has one that CTFd has given out.
TokensGiven ==
    \A a \in Attempts : job[a].pc \in {"create", "get", "update"} => job[a].token \in 1..minted

\* The inductive invariant.
TokensWork == TypeOK /\ TokensGiven /\ CredentialsWork

\* An attempt that goes on, keeping the token it has, or to a call that needs none.
LEMMA GotoWorks ==
    ASSUME TokensWork, NEW a \in Attempts, NEW pc \in Stages, Goto(a, pc),
           pc \in {"create", "get", "update"} => job[a].token \in 1..minted,
           UNCHANGED secret, minted' \in {minted, minted + 1}
    PROVE  TokensWork'
<1>1. job' = [job EXCEPT ![a] = [job[a] EXCEPT !.pc = pc]]
  BY DEF Goto
<1>2. TypeOK'
  BY <1>1 DEF TokensWork, TypeOK
<1>3. TokensGiven' /\ CredentialsWork'
  BY <1>1 DEF TokensWork, TypeOK, TokensGiven, CredentialsWork
<1> QED
  BY <1>2, <1>3 DEF TokensWork

\* Storing the token of an attempt.
LEMMA StoreWorks ==
    ASSUME TokensWork, NEW a \in Attempts, NEW pc \in {"done", "failed"}, Goto(a, pc),
           Store(a), job[a].token \in 1..minted, UNCHANGED minted
    PROVE  TokensWork'
<1>1. job' = [job EXCEPT ![a] = [job[a] EXCEPT !.pc = pc]]
  BY DEF Goto
<1>2. TypeOK'
  BY <1>1 DEF TokensWork, TypeOK, Store, Stages
<1>3. TokensGiven' /\ CredentialsWork'
  BY <1>1 DEF TokensWork, TypeOK, TokensGiven, CredentialsWork, Store
<1> QED
  BY <1>2, <1>3 DEF TokensWork

\* An attempt whose record is replaced by one that does not store yet.
LEMMA ReplacedWorks ==
    ASSUME TokensWork, NEW a \in Attempts,
           NEW w \in [pc: Stages, admin: BOOLEAN, token: Nat, version: Nat],
           job' = [job EXCEPT ![a] = w], UNCHANGED secret, minted' \in {minted, minted + 1},
           w.pc \in {"create", "get", "update"} => w.token \in 1..minted'
    PROVE  TokensWork'
<1>1. TypeOK'
  BY DEF TokensWork, TypeOK
<1>2. TokensGiven' /\ CredentialsWork'
  BY DEF TokensWork, TypeOK, TokensGiven, CredentialsWork
<1> QED
  BY <1>1, <1>2 DEF TokensWork

LEMMA AttemptWorks ==
    ASSUME TokensWork, NEW a \in Attempts, Attempt(a)
    PROVE  TokensWork'
<1> DEFINE w == job[a]
<1>1. w \in [pc: Stages, admin: BOOLEAN, token: Nat, version: Nat] /\ minted \in Nat
  BY DEF TokensWork, TypeOK
<1>2. w.pc \in {"create", "get", "update"} => w.token \in 1..minted
  BY DEF TokensWork, TokensGiven
<1>3. ASSUME Goto(a, "failed"), UNCHANGED secret, minted' \in {minted, minted + 1}
      PROVE  TokensWork'
  BY <1>3, GotoWorks DEF Stages
<1>4. CASE WaitReady(a) \/ IsConfigured(a)
  BY <1>3, <1>4, GotoWorks
     DEF WaitReady, IsConfigured, AfterConfigured, Fails, Exit, Stages
<1>5. CASE Setup(a) \/ Login(a)
  <2>1. ASSUME NEW admin \in BOOLEAN,
               job' = [job EXCEPT ![a].pc = "mint", ![a].admin = admin]
        PROVE  TokensWork'
    <3>1. job' = [job EXCEPT ![a] = [w EXCEPT !.pc = "mint", !.admin = admin]]
      BY <2>1 DEF TokensWork, TypeOK
    <3>2. [w EXCEPT !.pc = "mint", !.admin = admin]
             \in [pc: Stages, admin: BOOLEAN, token: Nat, version: Nat]
      BY <1>1 DEF Stages
    <3> QED
      BY <1>1, <1>5, <3>1, <3>2, ReplacedWorks DEF Setup, Login
  <2> QED
    BY <1>3, <1>5, <2>1 DEF Setup, Login, Fails, Exit
<1>6. CASE MintToken(a)
  <2>1. minted' \in {minted, minted + 1} /\ UNCHANGED secret
    BY <1>6 DEF MintToken
  <2>2. ASSUME w.admin, minted' = minted + 1,
               job' = [job EXCEPT ![a].pc = "create", ![a].token = minted + 1]
        PROVE  TokensWork'
    <3> DEFINE token == minted + 1
               new == [w EXCEPT !.pc = "create", !.token = token]
    <3>1. token \in Nat /\ token \in 1..minted'
      BY <1>1, <2>2
    <3>2. job' = [job EXCEPT ![a] = new]
      BY <2>2 DEF TokensWork, TypeOK
    <3>3. new \in [pc: Stages, admin: BOOLEAN, token: Nat, version: Nat] /\ new.token = token
      <4> HIDE DEF token
      <4> QED
        BY <1>1, <3>1 DEF Stages
    <3> HIDE DEF new
    <3> QED
      BY <2>1, <3>1, <3>2, <3>3, ReplacedWorks
  <2> QED
    BY <1>3, <1>6, <2>1, <2>2 DEF MintToken, Accepted, Fails, Exit
<1>7. CASE CreateSecret(a)
  BY <1>2, <1>3, <1>7, GotoWorks, StoreWorks
     DEF CreateSecret, At, Fails, Exit, Stages
<1>8. CASE GetSecret(a)
  <2>1. ASSUME job' = [job EXCEPT ![a].pc = "update", ![a].version = secret.version]
        PROVE  TokensWork'
    <3>1. job' = [job EXCEPT ![a] = [w EXCEPT !.pc = "update", !.version = secret.version]]
      BY <2>1 DEF TokensWork, TypeOK
    <3>2. [w EXCEPT !.pc = "update", !.version = secret.version]
             \in [pc: Stages, admin: BOOLEAN, token: Nat, version: Nat]
      BY <1>1 DEF Stages, TokensWork, TypeOK
    <3>3. w.token \in 1..minted
      BY <1>2, <1>8 DEF GetSecret, At
    <3> QED
      BY <1>1, <1>8, <3>1, <3>2, <3>3, ReplacedWorks DEF GetSecret
  <2> QED
    BY <1>3, <1>8, <2>1 DEF GetSecret, Fails, Exit
<1>9. CASE UpdateSecret(a)
  BY <1>2, <1>3, <1>9, StoreWorks DEF UpdateSecret, At, Fails, Exit
<1>10. CASE Restart(a)
  <2>1. Waiting \in [pc: Stages, admin: BOOLEAN, token: Nat, version: Nat]
    BY DEF Waiting, Stages, NoToken
  <2> QED
    BY <1>10, <2>1, ReplacedWorks DEF Restart, Waiting
<1> QED
  BY <1>4, <1>5, <1>6, <1>7, <1>8, <1>9, <1>10 DEF Attempt

\* Whatever attempts race, fail, are cut off between a call and its answer and
\* are started again, the Secret never holds anything but a token CTFd gave out.
THEOREM CredentialsAlwaysWork == Spec => []CredentialsWork
<1>1. Init => TokensWork
  BY DEF Init, TokensWork, TypeOK, TokensGiven, CredentialsWork, NoSecret, NoToken, Waiting, Stages
<1>2. TokensWork /\ [Next]_vars => TokensWork'
  <2> SUFFICES ASSUME TokensWork, [Next]_vars PROVE TokensWork'
    OBVIOUS
  <2>1. CASE Start \/ UNCHANGED vars
    BY <2>1 DEF Start, vars, TokensWork, TypeOK, TokensGiven, CredentialsWork
  <2> QED
    BY <2>1, AttemptWorks DEF Next
<1>3. TokensWork => CredentialsWork
  BY DEF TokensWork
<1> QED
  BY <1>1, <1>2, <1>3, PTL DEF Spec
=============================================================================
