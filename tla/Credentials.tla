---------------------------- MODULE Credentials ----------------------------
(***************************************************************************)
(* What people and AI clients present instead of a password: the handlers  *)
(* that sign people in, manage their second factor and their sessions,     *)
(* and issue, accept and withdraw AI tokens (internal/aitoken), while      *)
(* administrators change accounts, memberships, grants and mounts.         *)
(*                                                                         *)
(* Handlers interleave at every statement.  A check that fails ends the    *)
(* request and leaves nothing behind, which is what CutOff does at every   *)
(* step; so an action here states what lets its handler go on.             *)
(***************************************************************************)
EXTENDS Identity

CONSTANTS
    Tokens,         \* rows of `ai_tokens` (ids are random)
    Requests,       \* concurrent HTTP requests
    Actors,         \* bound: the accounts that act and that administrators change
    Given           \* bound: the permissions that administrators give; which
                    \* of them is held makes no difference to a credential

ASSUME ActorsAssumption == Actors \subseteq Accounts
ASSUME GivenAssumption == Given \subseteq Permissions
ASSUME TokensAssumption == Tokens # {} /\ Mounts # {}

VARIABLES
    token,      \* ai_tokens and ai_token_boundaries (a boundary is a mount)
    req         \* the requests: step and local variables

vars == <<access, identity, token, req>>

SomeMount == CHOOSE m \in Mounts : TRUE
SomeToken == CHOOSE t \in Tokens : TRUE
NoToken == [by |-> Owner, state |-> "none", bounds |-> {}]

\* A request remembers whose it is, the token and the mount it is about, the
\* boundaries it has read or was asked for, and the secret that it generated
\* or has checked a code against.  `backed` is history: whether the right to all that the
\* token reaches was there when its boundaries were read.
Idle == [step |-> "idle", account |-> Owner, token |-> SomeToken, mount |-> SomeMount,
         bounds |-> {}, secret |-> 0, backed |-> FALSE]

Init ==
    /\ IdentityInit
    /\ token = [t \in Tokens |-> NoToken]
    /\ req = [r \in Requests |-> Idle]

-----------------------------------------------------------------------------
At(r, step) == req[r].step = step
Who(r) == req[r].account
Goto(r, step) == req' = [req EXCEPT ![r].step = step]
End(r) == req' = [req EXCEPT ![r] = Idle]
GotoIf(cond, r, step) == IF cond THEN Goto(r, step) ELSE End(r)

\* revoked_at IS NULL
Unrevoked(t) == token[t].state \in {"live", "expired"}

\* What a boundary of a token stands on.
Backed(t, m) == IsMember(token[t].by) /\ grant[m][token[t].by] # "none" /\ Exists(m)

TokensOf(a) == {t \in Tokens : token[t].by = a}

RevokeTokens(which) ==
    token' = [t \in Tokens |->
        IF t \in which /\ Unrevoked(t) THEN [token[t] EXCEPT !.state = "revoked"] ELSE token[t]]

\* DELETE FROM ai_token_boundaries
DropBoundaries(a, gone) ==
    token' = [t \in Tokens |->
        IF token[t].by = a THEN [token[t] EXCEPT !.bounds = @ \ gone] ELSE token[t]]

-----------------------------------------------------------------------------
(* createSession *)

\* Authenticate
SignIn(r, a) ==
    /\ At(r, "idle")
    /\ Active(a)
    /\ req' = [req EXCEPT ![r] = [Idle EXCEPT !.step = "factor", !.account = a]]
    /\ UNCHANGED <<access, identity, token>>

CheckFactor(r) ==
    /\ At(r, "factor")
    /\ Active(Who(r)) /\ FactorPassed(Who(r))
    /\ Goto(r, "status")
    /\ UNCHANGED <<access, identity, token>>

\* CreateSession looks whether the account is active ...
CheckStatus(r) ==
    /\ At(r, "status")
    /\ Active(Who(r))
    /\ Goto(r, "session")
    /\ UNCHANGED <<access, identity, token>>

\* ... and then inserts.
InsertSession(r, v) ==
    /\ At(r, "session")
    /\ AddSession(v, Who(r))
    /\ End(r)
    /\ UNCHANGED <<access, token>>

-----------------------------------------------------------------------------
(* Handlers for people who have signed in. *)

Handlers == {"setup", "confirm", "disable", "password", "end session", "authorize", "revoke token"}

\* requireSession, before anything else that a handler does.
RequireSession(r, v, handler) ==
    /\ At(r, "idle")
    /\ Verified(v)
    /\ req' = [req EXCEPT ![r] = [Idle EXCEPT !.step = handler, !.account = session[v].account]]
    /\ UNCHANGED <<access, identity, token>>

\* setupTOTP: the secret is replaced, whether or not one is required ...
SetupFactor(r) ==
    /\ At(r, "setup")
    /\ SetSecret(Who(r))
    /\ req' = [req EXCEPT ![r] = [@ EXCEPT !.step = "answer", !.secret = secrets + 1]]
    /\ UNCHANGED <<access, token>>

\* ... and is shown in the answer, unless that is lost (CutOff).
AnswerSetup(r) ==
    /\ At(r, "answer")
    /\ ShowSecret(req[r].secret)
    /\ End(r)
    /\ UNCHANGED <<access, token>>

\* Mutant of CheckCode: a code passes, whatever secret is stored.
CheckNoCode(r) ==
    /\ At(r, "confirm")
    /\ Active(Who(r))
    /\ req' = [req EXCEPT ![r] = [@ EXCEPT !.step = "require", !.secret = factor[Who(r)].secret]]
    /\ UNCHANGED <<access, identity, token>>

\* confirmTOTP: the code fits the secret that is stored ...
CheckCode(r) ==
    /\ At(r, "confirm")
    /\ Active(Who(r)) /\ factor[Who(r)].secret \in shown
    /\ req' = [req EXCEPT ![r] = [@ EXCEPT !.step = "require", !.secret = factor[Who(r)].secret]]
    /\ UNCHANGED <<access, identity, token>>

\* ... and from now on one is required.
ConfirmFactor(r) ==
    /\ At(r, "require")
    /\ SetRequired(Who(r))
    /\ End(r)
    /\ UNCHANGED <<access, token>>

\* disableAccountTOTP: password and code fit ...
CheckDisable(r) ==
    /\ At(r, "disable")
    /\ Active(Who(r)) /\ FactorPassed(Who(r))
    /\ Goto(r, "clear")
    /\ UNCHANGED <<access, identity, token>>

\* ... and the factor is gone.
DisableFactor(r) ==
    /\ At(r, "clear")
    /\ ClearFactor(Who(r))
    /\ End(r)
    /\ UNCHANGED <<access, token>>

\* changeAccountPassword with revokeTokens
RevokeOwnTokens(r) ==
    /\ At(r, "password")
    /\ Active(Who(r))
    /\ RevokeTokens(TokensOf(Who(r)))
    /\ End(r)
    /\ UNCHANGED <<access, identity>>

\* revokeAccountSession
EndOwnSession(r, v) ==
    /\ At(r, "end session")
    /\ v \in SessionsOf(Who(r))
    /\ RevokeSessions({v})
    /\ End(r)
    /\ UNCHANGED <<access, token>>

\* revokeAIToken
RevokeToken(r, t) ==
    /\ At(r, "revoke token")
    /\ t \in TokensOf(Who(r))
    /\ RevokeTokens({t})
    /\ End(r)
    /\ UNCHANGED <<access, identity>>

\* The cookie is all that revokeSession asks for.
SignOut(v) ==
    /\ RevokeSessions({v})
    /\ UNCHANGED <<access, token, req>>

-----------------------------------------------------------------------------
(* createAIToken *)

\* Mutant of AuthorizeBounds: no boundaries are boundaries, too.
AuthorizeAnyBounds(r, bounds) ==
    /\ At(r, "authorize")
    /\ \A m \in bounds : CanRead(Who(r), m)
    /\ req' = [req EXCEPT ![r] = [@ EXCEPT !.step = "insert", !.bounds = bounds]]
    /\ UNCHANGED <<access, identity, token>>

\* authorizeMount of every boundary asked for, before anything is written.
AuthorizeBounds(r, bounds) ==
    /\ At(r, "authorize")
    /\ bounds # {} /\ \A m \in bounds : CanRead(Who(r), m)
    /\ req' = [req EXCEPT ![r] = [@ EXCEPT !.step = "insert", !.bounds = bounds]]
    /\ UNCHANGED <<access, identity, token>>

\* Mutant of InsertToken: the boundaries are inserted as they were authorized.
InsertTokenUnchecked(r, t) ==
    /\ At(r, "insert")
    /\ token[t].state = "none" /\ Active(Who(r))
    /\ token' = [token EXCEPT ![t] =
            [by |-> Who(r), state |-> "live", bounds |-> req[r].bounds]]
    /\ req' = [req EXCEPT ![r] = [@ EXCEPT !.step = "recheck", !.token = t]]
    /\ UNCHANGED <<access, identity>>

\* Create, one transaction: no token when one of its boundaries is not inserted.
InsertToken(r, t) ==
    /\ At(r, "insert")
    /\ token[t].state = "none" /\ Active(Who(r))
    /\ \A m \in req[r].bounds : CanRead(Who(r), m)
    /\ token' = [token EXCEPT ![t] =
            [by |-> Who(r), state |-> "live", bounds |-> req[r].bounds]]
    /\ req' = [req EXCEPT ![r] = [@ EXCEPT !.step = "recheck", !.token = t]]
    /\ UNCHANGED <<access, identity>>

\* The boundaries are authorized again, and the token is handed out ...
Recheck(r) ==
    /\ At(r, "recheck")
    /\ GotoIf(\E m \in req[r].bounds : ~CanRead(Who(r), m), r, "withdraw")
    /\ UNCHANGED <<access, identity, token>>

\* ... or revoked, and its boundaries deleted.
WithdrawToken(r) ==
    /\ At(r, "withdraw")
    /\ LET t == req[r].token IN
        token' = [token EXCEPT ![t] =
            [token[t] EXCEPT !.state = IF Unrevoked(t) THEN "revoked" ELSE @, !.bounds = {}]]
    /\ End(r)
    /\ UNCHANGED <<access, identity>>

ExpireToken(t) ==
    /\ token[t].state = "live"
    /\ token' = [token EXCEPT ![t].state = "expired"]
    /\ UNCHANGED <<access, identity, req>>

-----------------------------------------------------------------------------
(* handleMCP: VerifyBearer, then a file within the boundaries. *)

\* loadToken: the row ...
LoadToken(r, t) ==
    /\ At(r, "idle")
    /\ token[t].state = "live" /\ Active(token[t].by)
    /\ req' = [req EXCEPT ![r] = [Idle EXCEPT !.step = "bounds", !.account = token[t].by,
                                             !.token = t]]
    /\ UNCHANGED <<access, identity, token>>

\* ... and, in a statement of its own, the boundaries; then the expiry.
LoadBoundaries(r) ==
    /\ At(r, "bounds")
    /\ LET t == req[r].token IN
        /\ token[t].state # "expired"
        /\ req' = [req EXCEPT ![r] = [@ EXCEPT
                !.step = "touch", !.bounds = token[t].bounds,
                !.backed = Active(token[t].by) /\ \A m \in token[t].bounds : Backed(t, m)]]
    /\ UNCHANGED <<access, identity, token>>

\* Mutant of TouchToken: the number of rows that were updated is not looked at.
TouchAnyway(r) ==
    /\ At(r, "touch")
    /\ Goto(r, "authorize read")
    /\ UNCHANGED <<access, identity, token>>

\* UPDATE ai_tokens SET last_used_at: the token is accepted when a row that is
\* not revoked was there to update.
TouchToken(r) ==
    /\ At(r, "touch")
    /\ Unrevoked(req[r].token)
    /\ Goto(r, "authorize read")
    /\ UNCHANGED <<access, identity, token>>

\* resolveAIPrincipalPath: what the person may read and the token covers.
AuthorizeRead(r, m) ==
    /\ At(r, "authorize read")
    /\ CanRead(Who(r), m) /\ m \in req[r].bounds
    /\ req' = [req EXCEPT ![r] = [@ EXCEPT !.step = "load", !.mount = m]]
    /\ UNCHANGED <<access, identity, token>>

LoadMount(r) ==
    /\ At(r, "load")
    /\ mount[req[r].mount].status = "active"
    /\ Goto(r, "identity")
    /\ UNCHANGED <<access, identity, token>>

\* verifyLoadedMountIdentity: a root that has drifted marks the mount.
VerifyIdentity(r) ==
    /\ At(r, "identity")
    /\ \/ Goto(r, "serve") /\ UNCHANGED access
       \/ End(r) /\ MarkUnavailable(req[r].mount)
    /\ UNCHANGED <<identity, token>>

Serve(r) ==
    /\ At(r, "serve")
    /\ End(r)
    /\ UNCHANGED <<access, identity, token>>

-----------------------------------------------------------------------------
(* Administrators, with what each change takes away from credentials.      *)

AddUser(a) == CreateAccount(a) /\ UNCHANGED <<token, req>>

EnableUser(a) ==
    /\ SetUserEnabled(a, "active")
    /\ UNCHANGED <<identity, token, req>>

\* Mutant of DisableUser: sessions are left to the check of the account.
DisableUserKeepSessions(a) ==
    /\ SetUserEnabled(a, "disabled")
    /\ RevokeTokens(TokensOf(a))
    /\ UNCHANGED <<identity, req>>

DisableUser(a) ==
    /\ SetUserEnabled(a, "disabled")
    /\ RevokeTokens(TokensOf(a))
    /\ RevokeSessions(SessionsOf(a))
    /\ UNCHANGED req

\* revokeAdminUserSessions
EndSessions(a) ==
    /\ RevokeSessions(SessionsOf(a))
    /\ UNCHANGED <<access, token, req>>

\* revokeAdminAIToken
EndToken(t) ==
    /\ Unrevoked(t)
    /\ RevokeTokens({t})
    /\ UNCHANGED <<access, identity, req>>

SetMember(a, permission) ==
    /\ PutMember(a, permission)
    /\ UNCHANGED <<identity, token, req>>

RemoveMember(a) ==
    /\ DeleteMember(a)
    /\ DropBoundaries(a, Mounts)
    /\ UNCHANGED <<identity, req>>

\* Boundaries go only when the grant does: the person is not an active member.
SetGrant(m, a, permission) ==
    /\ PutGrant(m, a, permission)
    /\ DropBoundaries(a, IF Grantable(m, a) THEN {} ELSE {m})
    /\ UNCHANGED <<identity, req>>

\* Mutant of RemoveGrant: the boundaries of the tokens stay.
RemoveGrantOnly(m, a) ==
    /\ DeleteGrant(m, a)
    /\ UNCHANGED <<identity, token, req>>

RemoveGrant(m, a) ==
    /\ DeleteGrant(m, a)
    /\ DropBoundaries(a, {m})
    /\ UNCHANGED <<identity, req>>

\* softDeleteMount deletes the boundaries of everyone's tokens.
DeleteMount(m) ==
    /\ SoftDeleteMount(m)
    /\ token' = [t \in Tokens |-> [token[t] EXCEPT !.bounds = @ \ {m}]]
    /\ UNCHANGED <<identity, req>>

\* createMount, autoRegisterDockerMounts and reverifyMount touch no credential.
ChangeMount(m) ==
    /\ \/ Active(Owner) /\ RegisterMount(m)
       \/ AutoRegister(m)
       \/ AutoGrant(m)
       \/ ReverifyMount(m)
    /\ UNCHANGED <<identity, token, req>>

-----------------------------------------------------------------------------
\* A check fails, a statement fails, the client goes away or the process is
\* killed.
CutOff(r) ==
    /\ ~At(r, "idle")
    /\ End(r)
    /\ UNCHANGED <<access, identity, token>>

SetUp == (Prepare \/ LapseInitialization \/ Initialize) /\ UNCHANGED <<token, req>>

People(r) ==
    \/ \E a \in Actors : SignIn(r, a)
    \/ CheckFactor(r) \/ CheckStatus(r)
    \/ \E v \in Sessions : InsertSession(r, v) \/ EndOwnSession(r, v)
    \/ \E v \in Sessions, handler \in Handlers : RequireSession(r, v, handler)
    \/ SetupFactor(r) \/ AnswerSetup(r) \/ CheckCode(r) \/ ConfirmFactor(r)
    \/ CheckDisable(r) \/ DisableFactor(r)
    \/ RevokeOwnTokens(r)
    \/ \E t \in Tokens : RevokeToken(r, t) \/ InsertToken(r, t)
    \/ \E bounds \in SUBSET Mounts : AuthorizeBounds(r, bounds)
    \/ Recheck(r) \/ WithdrawToken(r)

Clients(r) ==
    \/ \E t \in Tokens : LoadToken(r, t)
    \/ LoadBoundaries(r) \/ TouchToken(r)
    \/ \E m \in Mounts : AuthorizeRead(r, m)
    \/ LoadMount(r) \/ VerifyIdentity(r) \/ Serve(r)

Administration ==
    \/ \E a \in Accounts : AddUser(a)
    \/ \E a \in Actors : EnableUser(a) \/ DisableUser(a) \/ EndSessions(a) \/ RemoveMember(a)
    \/ \E a \in Actors, permission \in Given : SetMember(a, permission)
    \/ \E m \in Mounts, a \in Actors, permission \in Given : SetGrant(m, a, permission)
    \/ \E m \in Mounts, a \in Actors : RemoveGrant(m, a)
    \/ \E m \in Mounts : DeleteMount(m) \/ ChangeMount(m)
    \/ \E t \in Tokens : EndToken(t)

\* Time passes, or a browser signs out.
Lapses ==
    \/ \E v \in Sessions : ExpireSession(v) /\ UNCHANGED <<token, req>>
    \/ \E t \in Tokens : ExpireToken(t)
    \/ \E v \in Sessions : SignOut(v)

Next ==
    \/ SetUp
    \/ \E r \in Requests : People(r) \/ Clients(r) \/ CutOff(r)
    \/ Administration
    \/ Lapses

Spec == Init /\ [][Next]_vars

-----------------------------------------------------------------------------
Accepted == {"authorize read", "load", "identity", "serve"}
Steps == Handlers \cup Accepted \cup
    {"idle", "factor", "status", "session", "answer", "require", "clear", "insert", "recheck", "withdraw",
     "bounds", "touch"}

TypeOK ==
    /\ IdentityTypeOK
    /\ token \in [Tokens -> [by : Accounts, state : States, bounds : SUBSET Mounts]]
    /\ req \in [Requests -> [step : Steps, account : Accounts, token : Tokens, mount : Mounts,
                             bounds : SUBSET Mounts, secret : 0 .. MaxSecrets,
                             backed : BOOLEAN]]
    /\ \A r \in Requests : At(r, "insert") => req[r].bounds # {}

\* No token outlives the right it was issued for: one that is not revoked
\* belongs to an active account, and each of its boundaries to a mount that
\* exists, that the account holds a grant on and whose space it is a member
\* of, however createAIToken and the loss of the right interleave.  A grant
\* that is given again revives no old boundary.
TokensBacked ==
    \A t \in Tokens : Unrevoked(t) =>
        /\ Active(token[t].by)
        /\ \A m \in token[t].bounds : Backed(t, m)

\* VerifyBearer reads the row, the boundaries and the row again in three
\* statements; still, whatever changes in between, a token that is accepted
\* was backed, account and all, at the moment its boundaries were read.
AcceptedBacked == \A r \in Requests : req[r].step \in Accepted => req[r].backed

LiveOfDisabled(v) == session[v].state = "live" /\ ~Active(session[v].account)

\* Disabling an account leaves no session behind that comes back to life when
\* it is enabled: the only session an account has that is not active was
\* inserted by a sign-in whose check of the account was overtaken.
OnlyOvertakenSessions ==
    [][\A v \in Sessions : LiveOfDisabled(v)' /\ ~LiveOfDisabled(v) =>
            \E r \in Requests : At(r, "session") /\ Who(r) = session'[v].account]_vars

\* A code is asked for, and nobody can give one: the secret that is stored has
\* reached nobody, or there is none.
LockedOut(a) == factor[a].required /\ factor[a].secret \notin shown

\* There are two ways to lose the way in by the second factor, and no third:
\* setupTOTP replaces the secret of a factor that is required, and until its
\* answer arrives (for ever, when it is lost) nobody has the new one; or
\* confirmTOTP turns the factor on after the secret whose code it checked was
\* replaced or removed.
LockOutsHaveTwoCauses ==
    [][\A a \in Accounts : LockedOut(a)' /\ ~LockedOut(a) =>
            \E r \in Requests : Who(r) = a /\
                \/ /\ At(r, "setup") /\ factor[a].required
                   /\ At(r, "answer")' /\ req'[r].secret = factor'[a].secret
                \/ /\ At(r, "require") /\ At(r, "idle")'
                   /\ req[r].secret # factor[a].secret]_vars
=============================================================================
