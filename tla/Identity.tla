------------------------------ MODULE Identity ------------------------------
(***************************************************************************)
(* Accounts and how people prove who they are: the statements of           *)
(* internal/identity on the initialization token, on accounts, on second   *)
(* factors and on sessions.                                                *)
(*                                                                         *)
(* Every action here is one statement or one transaction; the handlers     *)
(* that string them together are in module Credentials.  Passwords and     *)
(* initialization secrets are taken to be right.  The secrets of second    *)
(* factors are numbered; a person can give a code for a secret that has    *)
(* reached them, in the answer to its set-up, and for no other.  Expiry is *)
(* an event of its own instead of a clock.                                 *)
(***************************************************************************)
EXTENDS AccessControl

CONSTANTS
    Sessions,       \* rows of `identity_sessions` (ids are random)
    MaxSecrets      \* bound: secrets generated for second factors

ASSUME SecretsAssumption == MaxSecrets \in Nat

VARIABLES
    initialization, \* the row of `identity_initialization`, "none" without one
    factor,         \* accounts.totp_required and totp_secret_ciphertext (0: NULL)
    secrets,        \* secrets generated so far
    shown,          \* history: stored secrets that have reached their person
    session         \* identity_sessions: account, and whether it is still good

factors == <<factor, secrets, shown>>
identity == <<initialization, factors, session>>

NoFactor == [required |-> FALSE, secret |-> 0]
NoSession == [account |-> Owner, state |-> "none"]
States == {"none", "live", "expired", "revoked"}

IdentityInit ==
    /\ NoAccess
    /\ initialization = "none"
    /\ factor = [a \in Accounts |-> NoFactor]
    /\ secrets = 0
    /\ shown = {}
    /\ session = [v \in Sessions |-> NoSession]

NoAccounts == \A a \in Accounts : account[a] = "none"
Active(a) == account[a] = "active"

-----------------------------------------------------------------------------
(* The first account. *)

\* prepareInitializationToken, at every start-up with a token configured.
Prepare ==
    /\ NoAccounts /\ initialization # "consumed"
    /\ initialization' = "pending"
    /\ UNCHANGED <<access, factors, session>>

LapseInitialization ==
    /\ initialization = "pending"
    /\ initialization' = "lapsed"
    /\ UNCHANGED <<access, factors, session>>

\* Mutant of Initialize: the token is good for another try.
InitializeUnconsumed ==
    /\ NoAccounts /\ initialization = "pending"
    /\ AddAccount(Owner)
    /\ UNCHANGED identity

\* Initialize, one transaction: of two at a time the second finds an account.
Initialize ==
    /\ NoAccounts /\ initialization = "pending"
    /\ initialization' = "consumed"
    /\ AddAccount(Owner)
    /\ UNCHANGED <<factors, session>>

\* createAdminUser: some account must be there to do it.
CreateAccount(a) ==
    /\ ~NoAccounts
    /\ AddAccount(a)
    /\ UNCHANGED identity

-----------------------------------------------------------------------------
(* Sessions. *)

\* The INSERT of CreateSession repeats no condition of the SELECT before it.
AddSession(v, a) ==
    /\ session[v].state = "none"
    /\ session' = [session EXCEPT ![v] = [account |-> a, state |-> "live"]]
    /\ UNCHANGED <<initialization, factors>>

\* VerifySession
Verified(v) == session[v].state = "live" /\ Active(session[v].account)

SessionsOf(a) == {v \in Sessions : session[v].account = a}

\* UPDATE identity_sessions SET revoked_at = ... WHERE ... revoked_at IS NULL
RevokeSessions(which) ==
    /\ session' = [v \in Sessions |->
            IF v \in which /\ session[v].state # "none"
            THEN [session[v] EXCEPT !.state = "revoked"] ELSE session[v]]
    /\ UNCHANGED <<initialization, factors>>

ExpireSession(v) ==
    /\ session[v].state = "live"
    /\ session' = [session EXCEPT ![v].state = "expired"]
    /\ UNCHANGED <<access, initialization, factors>>

-----------------------------------------------------------------------------
(* Second factors: each UPDATE leaves accounts that are not active alone.  *)

\* verifyLoginTOTP, and the check of disableAccountTOTP.
FactorPassed(a) == factor[a].required => factor[a].secret \in shown

Stored == {factor[a].secret : a \in Accounts}

\* A secret that is no longer stored is of no use, shown or not.
WriteFactor(a, new) ==
    /\ factor' = [factor EXCEPT ![a] = IF Active(a) THEN new ELSE @]
    /\ shown' = shown \cap Stored'
    /\ UNCHANGED <<initialization, session>>

\* The UPDATE of setupTOTP: whether a code is required stays as it is.
SetSecret(a) ==
    /\ secrets < MaxSecrets
    /\ secrets' = secrets + 1
    /\ WriteFactor(a, [factor[a] EXCEPT !.secret = secrets + 1])

\* The answer of setupTOTP: its secret, once.
ShowSecret(secret) ==
    /\ shown' = shown \cup ({secret} \cap Stored)
    /\ UNCHANGED <<initialization, factor, secrets, session>>

\* The UPDATE of confirmTOTP, which does not look at the secret again.
SetRequired(a) ==
    /\ WriteFactor(a, [factor[a] EXCEPT !.required = TRUE])
    /\ UNCHANGED secrets

\* Mutant of ClearFactor: the secret goes, the requirement stays.
ClearSecret(a) ==
    /\ WriteFactor(a, [factor[a] EXCEPT !.secret = 0])
    /\ UNCHANGED secrets

\* DisableTOTP
ClearFactor(a) ==
    /\ WriteFactor(a, NoFactor)
    /\ UNCHANGED secrets

-----------------------------------------------------------------------------
IdentityTypeOK ==
    /\ AccessTypeOK
    /\ initialization \in {"none", "pending", "lapsed", "consumed"}
    /\ factor \in [Accounts -> [required : BOOLEAN, secret : 0 .. MaxSecrets]]
    /\ secrets \in 0 .. MaxSecrets
    /\ shown \in SUBSET (1 .. MaxSecrets)
    /\ session \in [Sessions -> [account : Accounts, state : States]]

\* The way in without an account is open until it was used, and never again:
\* from then on there are accounts, and no restart brings the token back.
SetUpOnce == NoAccounts <=> initialization # "consumed"
=============================================================================
