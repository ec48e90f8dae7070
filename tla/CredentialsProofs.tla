------------------------- MODULE CredentialsProofs -------------------------
(***************************************************************************)
(* Proofs about accounts, sessions, second factors and AI tokens, for      *)
(* every number of accounts, mounts, sessions, tokens and requests.        *)
(***************************************************************************)
EXTENDS Credentials, TLAPS

USE OwnerAssumption, SecretsAssumption, ActorsAssumption, GivenAssumption, TokensAssumption

Token == [by : Accounts, state : States, bounds : SUBSET Mounts]
Request == [step : Steps, account : Accounts, token : Tokens, mount : Mounts,
            bounds : SUBSET Mounts, secret : 0 .. MaxSecrets, backed : BOOLEAN]

\* What a request that uses a token may count on: the row is there for good,
\* and if it is still not revoked then what was read of it was backed.  A
\* request that is about to show a secret has generated one.
RequestSound(q, rows) ==
    /\ q.step = "insert" => q.bounds # {}
    /\ q.step \in {"bounds", "touch"} => rows[q.token].state # "none"
    /\ q.step = "touch" /\ rows[q.token].state \in {"live", "expired"} => q.backed
    /\ q.step \in Accepted => q.backed
    /\ q.step = "answer" => q.secret # 0

RequestsSound == \A r \in Requests : RequestSound(req[r], token)

IInv == TypeOK /\ SetUpOnce /\ TokensBacked /\ RequestsSound

\* No token that is in the table disappears or comes back to life.
TokensLose ==
    \A t \in Tokens : token[t].state # "none" =>
        token'[t].state # "none" /\ (Unrevoked(t)' => Unrevoked(t))

\* Every token that is not revoked was so before, and reaches no further.
TokensShrink ==
    \A t \in Tokens : Unrevoked(t)' =>
        /\ Unrevoked(t)
        /\ token'[t].by = token[t].by /\ token'[t].bounds \subseteq token[t].bounds

\* What the tokens stand on is left alone.
RightsKept ==
    /\ \A a \in Accounts : (Active(a) => Active(a)') /\ (IsMember(a) => IsMember(a)')
    /\ \A m \in Mounts : Exists(m) => Exists(m)'
    /\ \A m \in Mounts, a \in Accounts : grant[m][a] # "none" => grant'[m][a] # "none"

Rested == UNCHANGED req \/ \E r \in Requests : End(r)

LEMMA IdleFacts == Idle \in Request /\ Idle.step = "idle"
<1>1. SomeMount \in Mounts /\ SomeToken \in Tokens
  BY DEF SomeMount, SomeToken
<1> QED BY <1>1 DEF Idle, Request, Steps

LEMMA TypeFacts ==
    ASSUME IInv
    PROVE  /\ IdentityTypeOK /\ AccessTypeOK
           /\ token \in [Tokens -> Token] /\ req \in [Requests -> Request]
BY DEF IInv, TypeOK, IdentityTypeOK, Token, Request

LEMMA Assemble ==
    ASSUME IdentityTypeOK, token \in [Tokens -> Token], req \in [Requests -> Request],
           SetUpOnce, TokensBacked, RequestsSound
    PROVE  IInv
<1>1. \A r \in Requests : At(r, "insert") => req[r].bounds # {}
  BY DEF RequestsSound, RequestSound, At
<1>2. TypeOK
  BY <1>1 DEF TypeOK, Token, Request
<1> QED BY <1>2 DEF IInv

LEMMA InitInv == Init => IInv
<1> SUFFICES ASSUME Init PROVE IInv
  OBVIOUS
<1>1. IdentityTypeOK
  BY DEF Init, IdentityInit, NoAccess, IdentityTypeOK, AccessTypeOK, Held, NoFactor, NoSession,
         States
<1>2. token \in [Tokens -> Token]
  BY DEF Init, NoToken, Token, States
<1>3. req \in [Requests -> Request] /\ \A r \in Requests : req[r].step = "idle"
  BY IdleFacts DEF Init
<1>4. RequestsSound
  BY <1>3 DEF RequestsSound, RequestSound, Accepted
<1>5. SetUpOnce
  BY DEF Init, IdentityInit, NoAccess, SetUpOnce, NoAccounts
<1>6. TokensBacked
  BY DEF Init, NoToken, TokensBacked, Unrevoked
<1> QED BY <1>1, <1>2, <1>3, <1>4, <1>5, <1>6, Assemble

-----------------------------------------------------------------------------
\* Requests: what one of them becomes, and what the others keep.
LEMMA RequestStep ==
    ASSUME IInv, NEW r \in Requests, NEW new \in Request, req' = [req EXCEPT ![r] = new],
           TokensLose, RequestSound(new, token')
    PROVE  req' \in [Requests -> Request] /\ RequestsSound'
<1>1. req' \in [Requests -> Request] /\ req'[r] = new
      /\ \A q \in Requests \ {r} : req'[q] = req[q]
  BY TypeFacts
<1>2. ASSUME NEW q \in Requests, q # r PROVE RequestSound(req'[q], token')
  <2>1. RequestSound(req[q], token) /\ req[q].token \in Tokens
    BY TypeFacts DEF IInv, RequestsSound, Request
  <2> QED BY <1>1, <1>2, <2>1 DEF RequestSound, TokensLose, Unrevoked
<1> QED BY <1>1, <1>2 DEF RequestsSound

LEMMA RestedStep ==
    ASSUME IInv, TokensLose, Rested
    PROVE  req' \in [Requests -> Request] /\ RequestsSound'
<1>1. CASE UNCHANGED req
  <2>1. ASSUME NEW q \in Requests PROVE RequestSound(req'[q], token')
    <3>1. RequestSound(req[q], token) /\ req[q].token \in Tokens
      BY TypeFacts DEF IInv, RequestsSound, Request
    <3> QED BY <1>1, <3>1 DEF RequestSound, TokensLose, Unrevoked
  <2> QED BY <1>1, <2>1, TypeFacts DEF RequestsSound
<1>2. ASSUME NEW r \in Requests, End(r)
      PROVE  req' \in [Requests -> Request] /\ RequestsSound'
  <2>1. RequestSound(Idle, token')
    BY IdleFacts DEF RequestSound, Accepted
  <2> QED BY <1>2, <2>1, IdleFacts, RequestStep DEF End
<1> QED BY <1>1, <1>2 DEF Rested

\* Tokens: what they stand on stays, or what stands on it goes.
LEMMA BackedKept ==
    ASSUME IInv, RightsKept, TokensShrink, token' \in [Tokens -> Token]
    PROVE  TokensBacked'
<1> SUFFICES ASSUME NEW t \in Tokens, Unrevoked(t)'
             PROVE  Active(token[t].by)' /\ \A m \in token'[t].bounds : Backed(t, m)'
  BY DEF TokensBacked
<1>1. /\ Active(token[t].by) /\ \A m \in token[t].bounds : Backed(t, m)
      /\ token[t].by \in Accounts /\ token[t].bounds \subseteq Mounts
      /\ token'[t].by = token[t].by /\ token'[t].bounds \subseteq token[t].bounds
  BY TypeFacts DEF IInv, TokensBacked, TokensShrink, Token
<1>2. Active(token[t].by)'
  BY <1>1 DEF RightsKept, Active
<1>3. ASSUME NEW m \in token'[t].bounds PROVE Backed(t, m)'
  BY <1>1 DEF RightsKept, Backed, IsMember, Exists
<1> QED BY <1>2, <1>3

LEMMA StepInv ==
    ASSUME IInv, IdentityTypeOK', token' \in [Tokens -> Token], SetUpOnce', TokensBacked',
           TokensLose, Rested
    PROVE  IInv'
<1>1. req' \in [Requests -> Request] /\ RequestsSound'
  BY RestedStep
<1>2. \A r \in Requests : At(r, "insert")' => req'[r].bounds # {}
  BY <1>1 DEF RequestsSound, RequestSound, At
<1>3. TypeOK'
  BY <1>1, <1>2 DEF TypeOK, Token, Request
<1> QED BY <1>1, <1>3 DEF IInv

\* A request goes on, and nothing else changes.
LEMMA QuietStep ==
    ASSUME IInv, UNCHANGED <<access, identity, token>>, NEW r \in Requests, NEW new \in Request,
           req' = [req EXCEPT ![r] = new], RequestSound(new, token)
    PROVE  IInv'
<1>1. TokensLose
  BY DEF TokensLose, Unrevoked
<1>2. req' \in [Requests -> Request] /\ RequestsSound'
  BY <1>1, RequestStep
<1>3. IdentityTypeOK' /\ token' \in [Tokens -> Token] /\ SetUpOnce' /\ TokensBacked'
  BY TypeFacts DEF IInv, IdentityTypeOK, AccessTypeOK, SetUpOnce, NoAccounts, TokensBacked,
                   Unrevoked, Active, Backed, IsMember, Exists, access, identity, factors
<1>4. \A q \in Requests : At(q, "insert")' => req'[q].bounds # {}
  BY <1>2 DEF RequestsSound, RequestSound, At
<1>5. TypeOK'
  BY <1>2, <1>3, <1>4 DEF TypeOK, Token, Request
<1> QED BY <1>2, <1>3, <1>5 DEF IInv

\* One that gives up, and one that goes on to a step that counts on nothing.
Plain == Steps \ ({"insert", "bounds", "touch", "answer"} \cup Accepted)

LEMMA QuietGoto ==
    ASSUME IInv, UNCHANGED <<access, identity, token>>, NEW r \in Requests,
           \/ End(r)
           \/ \E step \in Plain : Goto(r, step)
           \/ req[r].step \in Accepted /\ \E step \in Accepted : Goto(r, step)
    PROVE  IInv'
<1>1. CASE End(r)
  BY <1>1, IdleFacts, QuietStep DEF End, RequestSound, Accepted
<1>2. ASSUME NEW step \in Steps, Goto(r, step),
             step \in Plain \/ (step \in Accepted /\ req[r].step \in Accepted)
      PROVE  IInv'
  <2> DEFINE new == [req[r] EXCEPT !.step = step]
  <2>1. req[r] \in Request /\ RequestSound(req[r], token)
    BY TypeFacts DEF IInv, RequestsSound
  <2>2. new \in Request /\ new.step = step /\ new.backed = req[r].backed
    BY <2>1 DEF Request
  <2>3. req' = [req EXCEPT ![r] = new]
    BY <1>2 DEF Goto
  <2> HIDE DEF new
  <2>4. RequestSound(new, token)
    BY <1>2, <2>1, <2>2 DEF RequestSound, Plain, Accepted
  <2> QED BY <2>2, <2>3, <2>4, QuietStep
<1>3. Plain \subseteq Steps /\ Accepted \subseteq Steps
  BY DEF Plain, Steps
<1>4. ASSUME NEW step \in Plain, Goto(r, step) PROVE IInv'
  BY <1>2, <1>3, <1>4
<1>5. ASSUME req[r].step \in Accepted, NEW step \in Accepted, Goto(r, step) PROVE IInv'
  BY <1>2, <1>3, <1>5
<1> QED BY <1>1, <1>4, <1>5

-----------------------------------------------------------------------------
(* Steps of requests that change nothing else.                             *)

\* The beginning of a request, and a request that remembers what it has read.
LEMMA StartInv ==
    ASSUME IInv, NEW r \in Requests,
           \/ \E a \in Actors : SignIn(r, a)
           \/ \E v \in Sessions, handler \in Handlers : RequireSession(r, v, handler)
    PROVE  IInv'
<1>1. ASSUME NEW a \in Accounts, NEW step \in Plain,
             req' = [req EXCEPT ![r] = [Idle EXCEPT !.step = step, !.account = a]],
             UNCHANGED <<access, identity, token>>
      PROVE  IInv'
  <2> DEFINE new == [Idle EXCEPT !.step = step, !.account = a]
  <2>1. new \in Request /\ new.step = step
    BY IdleFacts DEF Request, Plain
  <2>2. req' = [req EXCEPT ![r] = new]
    BY <1>1
  <2> HIDE DEF new
  <2>3. RequestSound(new, token)
    BY <2>1 DEF RequestSound, Plain
  <2> QED BY <1>1, <2>1, <2>2, <2>3, QuietStep
<1>2. ASSUME NEW a \in Actors, SignIn(r, a) PROVE IInv'
  BY <1>1, <1>2 DEF SignIn, Plain, Steps, Accepted
<1>3. ASSUME NEW v \in Sessions, NEW handler \in Handlers, RequireSession(r, v, handler)
      PROVE  IInv'
  <2>1. session[v].account \in Accounts /\ handler \in Plain
    BY TypeFacts DEF IdentityTypeOK, Plain, Steps, Accepted, Handlers
  <2> QED BY <1>1, <1>3, <2>1 DEF RequireSession
<1> QED BY <1>2, <1>3

LEMMA GotoInv ==
    ASSUME IInv, NEW r \in Requests,
           \/ CheckFactor(r) \/ CheckStatus(r) \/ CheckDisable(r) \/ Recheck(r)
           \/ LoadMount(r) \/ Serve(r) \/ CutOff(r)
    PROVE  IInv'
<1>1. {"status", "session", "clear", "withdraw"} \subseteq Plain
  BY DEF Plain, Steps, Accepted
<1>2. {"load", "identity", "serve"} \subseteq Accepted
  BY DEF Accepted
<1>3. CASE CheckFactor(r) \/ CheckStatus(r) \/ CheckDisable(r)
  BY <1>1, <1>3, QuietGoto DEF CheckFactor, CheckStatus, CheckDisable
<1>4. CASE Recheck(r)
  BY <1>1, <1>4, QuietGoto DEF Recheck, GotoIf
<1>5. CASE LoadMount(r)
  BY <1>2, <1>5, QuietGoto DEF LoadMount, At
<1>6. CASE Serve(r) \/ CutOff(r)
  BY <1>6, QuietGoto DEF Serve, CutOff
<1> QED BY <1>3, <1>4, <1>5, <1>6

LEMMA CheckCodeInv == ASSUME IInv, NEW r \in Requests, CheckCode(r) PROVE IInv'
<1> DEFINE secret == factor[Who(r)].secret
           new == [req[r] EXCEPT !.step = "require", !.secret = secret]
<1>1. req[r] \in Request /\ Who(r) \in Accounts
  BY TypeFacts DEF Request, Who
<1>2. secret \in 0 .. MaxSecrets
  BY <1>1, TypeFacts DEF IdentityTypeOK
<1>3. new \in Request /\ new.step = "require"
  BY <1>1, <1>2 DEF Request, Steps
<1>4. req' = [req EXCEPT ![r] = new] /\ UNCHANGED <<access, identity, token>>
  BY DEF CheckCode
<1> HIDE DEF new
<1>5. RequestSound(new, token)
  BY <1>3 DEF RequestSound, Accepted
<1> QED BY <1>3, <1>4, <1>5, QuietStep

LEMMA AuthorizeBoundsInv ==
    ASSUME IInv, NEW r \in Requests, NEW bounds \in SUBSET Mounts, AuthorizeBounds(r, bounds)
    PROVE  IInv'
<1> DEFINE new == [req[r] EXCEPT !.step = "insert", !.bounds = bounds]
<1>1. new \in Request /\ new.step = "insert" /\ new.bounds # {}
  BY TypeFacts DEF AuthorizeBounds, Request, Steps
<1>2. req' = [req EXCEPT ![r] = new] /\ UNCHANGED <<access, identity, token>>
  BY DEF AuthorizeBounds
<1> HIDE DEF new
<1>3. RequestSound(new, token)
  BY <1>1 DEF RequestSound, Accepted
<1> QED BY <1>1, <1>2, <1>3, QuietStep

LEMMA LoadTokenInv ==
    ASSUME IInv, NEW r \in Requests, NEW t \in Tokens, LoadToken(r, t) PROVE IInv'
<1> DEFINE new == [Idle EXCEPT !.step = "bounds", !.account = token[t].by, !.token = t]
<1>1. token[t].by \in Accounts /\ token[t].state = "live"
  BY TypeFacts DEF LoadToken, Token
<1>2. new \in Request /\ new.step = "bounds" /\ new.token = t
  BY <1>1, IdleFacts DEF Request, Steps
<1>3. req' = [req EXCEPT ![r] = new] /\ UNCHANGED <<access, identity, token>>
  BY DEF LoadToken
<1> HIDE DEF new
<1>4. RequestSound(new, token)
  BY <1>1, <1>2 DEF RequestSound, Accepted
<1> QED BY <1>2, <1>3, <1>4, QuietStep

\* What is read of a token that is not revoked is backed, by TokensBacked.
LEMMA LoadBoundariesInv == ASSUME IInv, NEW r \in Requests, LoadBoundaries(r) PROVE IInv'
<1> DEFINE t == req[r].token
           backed == Active(token[t].by) /\ \A m \in token[t].bounds : Backed(t, m)
           new == [req[r] EXCEPT !.step = "touch", !.bounds = token[t].bounds,
                                 !.backed = backed]
<1>1. req[r] \in Request /\ t \in Tokens /\ token[t].bounds \in SUBSET Mounts
      /\ token[t].state # "none"
  BY TypeFacts DEF IInv, RequestsSound, RequestSound, LoadBoundaries, At, Request, Token
<1>2. Unrevoked(t) => backed
  BY <1>1 DEF IInv, TokensBacked
<1>3. req' = [req EXCEPT ![r] = new] /\ UNCHANGED <<access, identity, token>>
  BY DEF LoadBoundaries
<1>4. backed \in BOOLEAN
  OBVIOUS
<1> HIDE DEF backed
<1>5. new \in Request /\ new.step = "touch" /\ new.token = t /\ new.backed = backed
  BY <1>1, <1>4 DEF Request, Steps
<1> HIDE DEF new
<1>6. RequestSound(new, token)
  BY <1>1, <1>2, <1>5 DEF RequestSound, Unrevoked, Accepted
<1> QED BY <1>3, <1>5, <1>6, QuietStep

LEMMA TouchTokenInv == ASSUME IInv, NEW r \in Requests, TouchToken(r) PROVE IInv'
<1> DEFINE new == [req[r] EXCEPT !.step = "authorize read"]
<1>1. req[r] \in Request /\ req[r].backed
  BY TypeFacts DEF IInv, RequestsSound, RequestSound, TouchToken, At, Unrevoked
<1>2. new \in Request /\ new.step = "authorize read" /\ new.backed
  BY <1>1 DEF Request, Steps, Accepted
<1>3. req' = [req EXCEPT ![r] = new] /\ UNCHANGED <<access, identity, token>>
  BY DEF TouchToken, Goto
<1> HIDE DEF new
<1>4. RequestSound(new, token)
  BY <1>2 DEF RequestSound
<1> QED BY <1>2, <1>3, <1>4, QuietStep

LEMMA AuthorizeReadInv ==
    ASSUME IInv, NEW r \in Requests, NEW m \in Mounts, AuthorizeRead(r, m) PROVE IInv'
<1> DEFINE new == [req[r] EXCEPT !.step = "load", !.mount = m]
<1>1. req[r] \in Request /\ req[r].backed
  BY TypeFacts DEF IInv, RequestsSound, RequestSound, AuthorizeRead, At, Accepted
<1>2. new \in Request /\ new.step = "load" /\ new.backed
  BY <1>1 DEF Request, Steps, Accepted
<1>3. req' = [req EXCEPT ![r] = new] /\ UNCHANGED <<access, identity, token>>
  BY DEF AuthorizeRead
<1> HIDE DEF new
<1>4. RequestSound(new, token)
  BY <1>2 DEF RequestSound
<1> QED BY <1>2, <1>3, <1>4, QuietStep

-----------------------------------------------------------------------------
(* Steps that change accounts' sessions and factors, and nothing else.     *)

LEMMA IdentityStep ==
    ASSUME IInv, UNCHANGED <<access, token, initialization>>, Rested,
           factor' \in [Accounts -> [required : BOOLEAN, secret : 0 .. MaxSecrets]],
           secrets' \in 0 .. MaxSecrets, shown' \in SUBSET (1 .. MaxSecrets),
           session' \in [Sessions -> [account : Accounts, state : States]]
    PROVE  IInv'
<1>1. IdentityTypeOK'
  BY TypeFacts DEF IdentityTypeOK, AccessTypeOK, access
<1>2. token' \in [Tokens -> Token] /\ SetUpOnce' /\ TokensBacked' /\ TokensLose
  BY TypeFacts DEF IInv, SetUpOnce, NoAccounts, TokensBacked, TokensLose, Unrevoked, Active,
                   Backed, IsMember, Exists, access
<1> QED BY <1>1, <1>2, StepInv

LEMMA SessionFacts ==
    ASSUME IInv
    PROVE  /\ factor \in [Accounts -> [required : BOOLEAN, secret : 0 .. MaxSecrets]]
           /\ secrets \in 0 .. MaxSecrets
           /\ shown \in SUBSET (1 .. MaxSecrets)
           /\ session \in [Sessions -> [account : Accounts, state : States]]
           /\ \A r \in Requests : Who(r) \in Accounts
BY TypeFacts DEF IdentityTypeOK, Request, Who

LEMMA RevokeSessionsType ==
    ASSUME IInv, NEW which, RevokeSessions(which)
    PROVE  /\ session' \in [Sessions -> [account : Accounts, state : States]]
           /\ UNCHANGED <<initialization, factor, secrets, shown>>
BY SessionFacts DEF RevokeSessions, States, factors

LEMMA RevokeSessionsInv ==
    ASSUME IInv, NEW which, RevokeSessions(which), UNCHANGED <<access, token>>, Rested
    PROVE  IInv'
BY RevokeSessionsType, SessionFacts, IdentityStep

LEMMA SessionsInv ==
    ASSUME IInv,
           \/ \E r \in Requests, v \in Sessions : InsertSession(r, v) \/ EndOwnSession(r, v)
           \/ \E v \in Sessions : SignOut(v) \/ (ExpireSession(v) /\ UNCHANGED <<token, req>>)
           \/ \E a \in Accounts : EndSessions(a)
    PROVE  IInv'
<1>1. ASSUME NEW r \in Requests, NEW v \in Sessions, InsertSession(r, v) PROVE IInv'
  <2>1. session' \in [Sessions -> [account : Accounts, state : States]]
    BY <1>1, SessionFacts DEF InsertSession, AddSession, States
  <2> QED BY <1>1, <2>1, SessionFacts, IdentityStep DEF InsertSession, AddSession, factors, Rested
<1>2. ASSUME NEW r \in Requests, NEW v \in Sessions, EndOwnSession(r, v) PROVE IInv'
  BY <1>2, RevokeSessionsInv DEF EndOwnSession, Rested
<1>3. ASSUME NEW v \in Sessions, SignOut(v) PROVE IInv'
  BY <1>3, RevokeSessionsInv DEF SignOut, Rested
<1>4. ASSUME NEW v \in Sessions, ExpireSession(v), UNCHANGED <<token, req>> PROVE IInv'
  <2>1. session' \in [Sessions -> [account : Accounts, state : States]]
    BY <1>4, SessionFacts DEF ExpireSession, States
  <2> QED BY <1>4, <2>1, SessionFacts, IdentityStep DEF ExpireSession, factors, Rested
<1>5. ASSUME NEW a \in Accounts, EndSessions(a) PROVE IInv'
  BY <1>5, RevokeSessionsInv DEF EndSessions, Rested
<1> QED BY <1>1, <1>2, <1>3, <1>4, <1>5

LEMMA WriteFactorFacts ==
    ASSUME IInv, NEW a \in Accounts, NEW new \in [required : BOOLEAN, secret : 0 .. MaxSecrets],
           WriteFactor(a, new)
    PROVE  /\ factor' \in [Accounts -> [required : BOOLEAN, secret : 0 .. MaxSecrets]]
           /\ \A b \in Accounts : factor'[b] = factor[b] \/ (b = a /\ factor'[b] = new)
           /\ shown' \in SUBSET shown
           /\ \A n \in shown : n \in Stored' => n \in shown'
           /\ UNCHANGED <<initialization, session>>
BY SessionFacts DEF WriteFactor

\* What a factor becomes: a new secret, an old secret that is now required, or
\* nothing at all.
LEMMA FactorFacts ==
    ASSUME IInv, NEW a \in Accounts, SetSecret(a) \/ SetRequired(a) \/ ClearFactor(a)
    PROVE  /\ factor' \in [Accounts -> [required : BOOLEAN, secret : 0 .. MaxSecrets]]
           /\ secrets' \in 0 .. MaxSecrets /\ secrets <= secrets'
           /\ shown' \in SUBSET (1 .. MaxSecrets)
           /\ \A n \in shown : n \in Stored' => n \in shown'
           /\ UNCHANGED <<initialization, session>>
           /\ \A b \in Accounts : b # a => factor'[b] = factor[b]
           /\ SetSecret(a) => /\ secrets' = secrets + 1
                              /\ factor'[a] \in {factor[a], [factor[a] EXCEPT !.secret = secrets + 1]}
           /\ SetRequired(a) => factor'[a] \in {factor[a], [factor[a] EXCEPT !.required = TRUE]}
           /\ ClearFactor(a) => factor'[a] \in {factor[a], NoFactor}
<1>1. factor[a] \in [required : BOOLEAN, secret : 0 .. MaxSecrets] /\ secrets \in 0 .. MaxSecrets
      /\ shown \in SUBSET (1 .. MaxSecrets)
  BY SessionFacts
<1> DEFINE Common ==
        /\ factor' \in [Accounts -> [required : BOOLEAN, secret : 0 .. MaxSecrets]]
        /\ secrets' \in 0 .. MaxSecrets /\ secrets <= secrets'
        /\ shown' \in SUBSET (1 .. MaxSecrets)
        /\ \A n \in shown : n \in Stored' => n \in shown'
        /\ UNCHANGED <<initialization, session>>
        /\ \A b \in Accounts : b # a => factor'[b] = factor[b]
<1>2. ASSUME SetSecret(a)
      PROVE  /\ Common /\ secrets' = secrets + 1
             /\ factor'[a] \in {factor[a], [factor[a] EXCEPT !.secret = secrets + 1]}
  <2>1. PICK new : /\ new = [factor[a] EXCEPT !.secret = secrets + 1] /\ WriteFactor(a, new)
                   /\ secrets' = secrets + 1 /\ secrets < MaxSecrets
    BY <1>2 DEF SetSecret
  <2>2. new \in [required : BOOLEAN, secret : 0 .. MaxSecrets]
    BY <1>1, <2>1, SecretsAssumption
  <2> QED BY <1>1, <2>1, <2>2, WriteFactorFacts
<1>3. ASSUME SetRequired(a)
      PROVE  Common /\ factor'[a] \in {factor[a], [factor[a] EXCEPT !.required = TRUE]}
  <2>1. PICK new : /\ new = [factor[a] EXCEPT !.required = TRUE] /\ WriteFactor(a, new)
                   /\ secrets' = secrets
    BY <1>3 DEF SetRequired
  <2>2. new \in [required : BOOLEAN, secret : 0 .. MaxSecrets]
    BY <1>1, <2>1
  <2> QED BY <1>1, <2>1, <2>2, WriteFactorFacts
<1>4. ASSUME ClearFactor(a) PROVE Common /\ factor'[a] \in {factor[a], NoFactor}
  <2>1. NoFactor \in [required : BOOLEAN, secret : 0 .. MaxSecrets]
    BY DEF NoFactor
  <2>2. WriteFactor(a, NoFactor) /\ secrets' = secrets
    BY <1>4 DEF ClearFactor
  <2>3. PICK new \in [required : BOOLEAN, secret : 0 .. MaxSecrets] :
            new = NoFactor /\ WriteFactor(a, new)
    BY <2>1, <2>2
  <2>4. factor'[a] \in {factor[a], NoFactor}
    BY <2>3, WriteFactorFacts
  <2>5. Common
    BY <1>1, <2>2, <2>3, WriteFactorFacts
  <2> QED BY <2>4, <2>5
<1> HIDE DEF Common
<1>5. Common
  BY <1>2, <1>3, <1>4
<1> QED BY <1>2, <1>3, <1>4, <1>5 DEF Common

LEMMA FactorsInv ==
    ASSUME IInv, NEW r \in Requests, ConfirmFactor(r) \/ DisableFactor(r)
    PROVE  IInv'
<1>1. /\ SetRequired(Who(r)) \/ ClearFactor(Who(r))
      /\ End(r) /\ UNCHANGED <<access, token>>
  BY DEF ConfirmFactor, DisableFactor
<1> QED BY <1>1, SessionFacts, FactorFacts, IdentityStep DEF Rested

LEMMA SetupFactorInv == ASSUME IInv, NEW r \in Requests, SetupFactor(r) PROVE IInv'
<1> DEFINE new == [req[r] EXCEPT !.step = "answer", !.secret = secrets + 1]
<1>1. req[r] \in Request /\ Who(r) \in Accounts /\ SetSecret(Who(r))
      /\ req' = [req EXCEPT ![r] = new] /\ UNCHANGED <<access, token>>
  BY TypeFacts DEF SetupFactor, Request, Who
<1>2. /\ factor' \in [Accounts -> [required : BOOLEAN, secret : 0 .. MaxSecrets]]
      /\ secrets' \in 0 .. MaxSecrets /\ shown' \in SUBSET (1 .. MaxSecrets)
      /\ UNCHANGED <<initialization, session>>
  BY <1>1, FactorFacts
<1>3. secrets + 1 \in 0 .. MaxSecrets /\ secrets + 1 # 0
  BY <1>1, SessionFacts DEF SetSecret
<1>4. new \in Request /\ new.step = "answer" /\ new.secret # 0
  BY <1>1, <1>3 DEF Request, Steps
<1> HIDE DEF new
<1>5. RequestSound(new, token')
  BY <1>4 DEF RequestSound, Accepted
<1>6. token' \in [Tokens -> Token] /\ SetUpOnce' /\ TokensBacked' /\ TokensLose
  BY <1>1, <1>2, TypeFacts DEF IInv, SetUpOnce, NoAccounts, TokensBacked, TokensLose, Unrevoked,
                               Active, Backed, IsMember, Exists, access
<1>7. IdentityTypeOK'
  BY <1>1, <1>2, TypeFacts, SessionFacts DEF IdentityTypeOK, AccessTypeOK, access
<1>8. req' \in [Requests -> Request] /\ RequestsSound'
  BY <1>1, <1>4, <1>5, <1>6, RequestStep
<1>9. \A q \in Requests : At(q, "insert")' => req'[q].bounds # {}
  BY <1>8 DEF RequestsSound, RequestSound, At
<1>10. TypeOK'
  BY <1>6, <1>7, <1>8, <1>9 DEF TypeOK, Token, Request
<1> QED BY <1>6, <1>8, <1>10 DEF IInv

LEMMA AnswerSetupInv == ASSUME IInv, NEW r \in Requests, AnswerSetup(r) PROVE IInv'
<1>1. /\ At(r, "answer") /\ shown' = shown \cup ({req[r].secret} \cap Stored)
      /\ UNCHANGED <<access, token, initialization, factor, secrets, session>> /\ End(r)
  BY DEF AnswerSetup, ShowSecret
<1>2. req[r].secret \in 1 .. MaxSecrets
  <2>1. req[r].secret \in 0 .. MaxSecrets /\ req[r].secret # 0
    BY <1>1, TypeFacts DEF IInv, RequestsSound, RequestSound, Request, At
  <2> QED BY <2>1
<1>3. shown' \in SUBSET (1 .. MaxSecrets)
  BY <1>1, <1>2, SessionFacts
<1> QED BY <1>1, <1>3, SessionFacts, IdentityStep DEF Rested

-----------------------------------------------------------------------------
(* Steps that change tokens, and nothing else.                             *)

LEMMA TokenStep ==
    ASSUME IInv, UNCHANGED <<access, identity>>, Rested, token' \in [Tokens -> Token],
           TokensLose, TokensShrink
    PROVE  IInv'
<1>1. IdentityTypeOK' /\ SetUpOnce' /\ RightsKept
  BY TypeFacts DEF IInv, IdentityTypeOK, AccessTypeOK, SetUpOnce, NoAccounts, RightsKept, Active,
                   IsMember, Exists, access, identity, factors
<1> QED BY <1>1, BackedKept, StepInv

LEMMA RevokeTokensFacts ==
    ASSUME IInv, NEW which, RevokeTokens(which)
    PROVE  /\ token' \in [Tokens -> Token] /\ TokensLose /\ TokensShrink
           /\ \A t \in Tokens : t \in which => ~Unrevoked(t)'
BY TypeFacts DEF RevokeTokens, TokensLose, TokensShrink, Unrevoked, Token, States

LEMMA TokensInv ==
    ASSUME IInv,
           \/ \E r \in Requests : RevokeOwnTokens(r) \/ WithdrawToken(r)
           \/ \E r \in Requests, t \in Tokens : RevokeToken(r, t)
           \/ \E t \in Tokens : ExpireToken(t) \/ EndToken(t)
    PROVE  IInv'
<1>1. ASSUME NEW r \in Requests, RevokeOwnTokens(r) PROVE IInv'
  BY <1>1, RevokeTokensFacts, TokenStep DEF RevokeOwnTokens, Rested
<1>2. ASSUME NEW r \in Requests, WithdrawToken(r) PROVE IInv'
  <2> DEFINE t == req[r].token
             row == [token[t] EXCEPT !.state = IF Unrevoked(t) THEN "revoked" ELSE @,
                                     !.bounds = {}]
  <2>1. t \in Tokens /\ token[t] \in Token
    BY TypeFacts DEF Request
  <2>2. row \in Token /\ row.by = token[t].by /\ row.bounds = {}
        /\ row.state = IF Unrevoked(t) THEN "revoked" ELSE token[t].state
    BY <2>1 DEF Token, States
  <2>3. token' = [token EXCEPT ![t] = row]
    BY <1>2 DEF WithdrawToken
  <2> HIDE DEF row, t
  <2>4. token' \in [Tokens -> Token] /\ token'[t] = row
        /\ \A u \in Tokens \ {t} : token'[u] = token[u]
    BY <2>1, <2>2, <2>3, TypeFacts
  <2>5. TokensLose /\ TokensShrink
    BY <2>1, <2>2, <2>4 DEF TokensLose, TokensShrink, Unrevoked
  <2> QED BY <1>2, <2>4, <2>5, TokenStep DEF WithdrawToken, Rested
<1>3. ASSUME NEW r \in Requests, NEW t \in Tokens, RevokeToken(r, t) PROVE IInv'
  BY <1>3, RevokeTokensFacts, TokenStep DEF RevokeToken, Rested
<1>4. ASSUME NEW t \in Tokens, ExpireToken(t) PROVE IInv'
  <2>1. token' \in [Tokens -> Token] /\ TokensLose /\ TokensShrink
    BY <1>4, TypeFacts DEF ExpireToken, TokensLose, TokensShrink, Unrevoked, Token, States
  <2> QED BY <1>4, <2>1, TokenStep DEF ExpireToken, Rested
<1>5. ASSUME NEW t \in Tokens, EndToken(t) PROVE IInv'
  BY <1>5, RevokeTokensFacts, TokenStep DEF EndToken, Rested
<1> QED BY <1>1, <1>2, <1>3, <1>4, <1>5

\* A new token is backed because its INSERT asks for the right once more.
LEMMA InsertTokenInv ==
    ASSUME IInv, NEW r \in Requests, NEW t \in Tokens, InsertToken(r, t) PROVE IInv'
<1> DEFINE row == [by |-> Who(r), state |-> "live", bounds |-> req[r].bounds]
           new == [req[r] EXCEPT !.step = "recheck", !.token = t]
<1>1. req[r] \in Request /\ Who(r) \in Accounts /\ req[r].bounds \in SUBSET Mounts
  BY TypeFacts DEF Request, Who
<1>2. row \in Token /\ row.by = Who(r) /\ row.bounds = req[r].bounds
  BY <1>1 DEF Token, States
<1>3. /\ token' = [token EXCEPT ![t] = row] /\ token[t].state = "none"
      /\ Active(Who(r))
      /\ \A m \in req[r].bounds : CanRead(Who(r), m)
      /\ req' = [req EXCEPT ![r] = new]
      /\ UNCHANGED <<access, identity>>
  BY DEF InsertToken
<1>4. new \in Request /\ new.step = "recheck"
  BY <1>1 DEF Request, Steps
<1> HIDE DEF row, new
<1>5. token' \in [Tokens -> Token] /\ token'[t] = row
      /\ \A u \in Tokens \ {t} : token'[u] = token[u]
  BY <1>2, <1>3, TypeFacts
<1>6. TokensLose
  BY <1>3, <1>5 DEF TokensLose, Unrevoked
<1>7. TokensBacked'
  <2>1. ASSUME NEW u \in Tokens \ {t}, Unrevoked(u)'
        PROVE  Active(token[u].by)' /\ \A m \in token'[u].bounds : Backed(u, m)'
    BY <1>3, <1>5, <2>1 DEF IInv, TokensBacked, Unrevoked, Active, Backed, IsMember, Exists,
                            access, identity
  <2>2. Active(token[t].by)' /\ \A m \in token'[t].bounds : Backed(t, m)'
    BY <1>1, <1>2, <1>3, <1>5 DEF Active, Backed, CanRead, IsMember, Exists, access
  <2> QED BY <2>1, <2>2 DEF TokensBacked
<1>8. RequestSound(new, token')
  BY <1>4 DEF RequestSound, Accepted
<1>9. req' \in [Requests -> Request] /\ RequestsSound'
  BY <1>3, <1>4, <1>6, <1>8, RequestStep
<1>10. IdentityTypeOK' /\ SetUpOnce'
  BY <1>3, TypeFacts DEF IInv, IdentityTypeOK, AccessTypeOK, SetUpOnce, NoAccounts, access,
                         identity, factors
<1>11. \A q \in Requests : At(q, "insert")' => req'[q].bounds # {}
  BY <1>9 DEF RequestsSound, RequestSound, At
<1>12. TypeOK'
  BY <1>5, <1>9, <1>10, <1>11 DEF TypeOK, Token, Request
<1> QED BY <1>7, <1>9, <1>10, <1>12 DEF IInv

-----------------------------------------------------------------------------
(* Steps that change what credentials stand on.                            *)

\* The same without a change that could take anything away from a token.
LEMMA GrowStep ==
    ASSUME IInv, AccessTypeOK', RightsKept, UNCHANGED <<token, identity>>, Rested,
           NoAccounts' <=> NoAccounts
    PROVE  IInv'
<1>1. IdentityTypeOK' /\ token' \in [Tokens -> Token]
  BY TypeFacts DEF IdentityTypeOK, identity, factors
<1>2. SetUpOnce'
  BY DEF IInv, SetUpOnce, identity
<1>3. TokensLose /\ TokensShrink
  BY TypeFacts DEF TokensLose, TokensShrink, Unrevoked
<1> QED BY <1>1, <1>2, <1>3, BackedKept, StepInv

LEMMA AddAccountFacts ==
    ASSUME IInv, NEW a \in Accounts, AddAccount(a)
    PROVE  AccessTypeOK' /\ RightsKept /\ ~NoAccounts'
<1>1. AccessTypeOK'
  BY TypeFacts DEF AddAccount, AccessTypeOK, Held, Permissions
<1>2. RightsKept
  BY TypeFacts DEF AddAccount, AccessTypeOK, RightsKept, Active, IsMember, Exists
<1>3. account'[a] = "active"
  BY TypeFacts DEF AddAccount, AccessTypeOK
<1> QED BY <1>1, <1>2, <1>3 DEF NoAccounts

LEMMA SetUpInv == ASSUME IInv, SetUp PROVE IInv'
<1>1. token' = token /\ UNCHANGED req /\ token \in [Tokens -> Token]
  BY TypeFacts DEF SetUp
<1>2. TokensLose /\ TokensShrink
  BY <1>1 DEF TokensLose, TokensShrink, Unrevoked
<1>3. CASE Prepare \/ LapseInitialization
  <2>1. AccessTypeOK' /\ RightsKept
    BY <1>3, TypeFacts DEF Prepare, LapseInitialization, access, AccessTypeOK, RightsKept, Active,
                           IsMember, Exists
  <2>2. IdentityTypeOK'
    BY <1>3, <2>1, TypeFacts DEF Prepare, LapseInitialization, IdentityTypeOK, factors
  <2>3. SetUpOnce'
    BY <1>3 DEF IInv, Prepare, LapseInitialization, SetUpOnce, NoAccounts, access
  <2> QED BY <1>1, <1>2, <2>1, <2>2, <2>3, BackedKept, StepInv DEF Rested
<1>4. CASE Initialize
  <2>1. AccessTypeOK' /\ RightsKept /\ ~NoAccounts'
    BY <1>4, AddAccountFacts DEF Initialize
  <2>2. IdentityTypeOK' /\ SetUpOnce'
    BY <1>4, <2>1, TypeFacts DEF Initialize, IdentityTypeOK, SetUpOnce, factors
  <2> QED BY <1>1, <1>2, <2>1, <2>2, BackedKept, StepInv DEF Rested
<1> QED BY <1>3, <1>4 DEF SetUp

LEMMA MountsKept ==
    ASSUME IInv, AccessTypeOK', UNCHANGED <<account, member, token, identity>>, Rested,
           \A m \in Mounts : Exists(m) => Exists(m)',
           \A m \in Mounts, a \in Accounts : grant[m][a] # "none" => grant'[m][a] # "none"
    PROVE  IInv'
<1>1. RightsKept /\ (NoAccounts' <=> NoAccounts)
  BY DEF RightsKept, NoAccounts, Active, IsMember
<1> QED BY <1>1, GrowStep

LEMMA ChangeMountInv == ASSUME IInv, NEW m \in Mounts, ChangeMount(m) PROVE IInv'
<1>1. UNCHANGED <<identity, token, req>> /\ Owner \in Accounts
  BY DEF ChangeMount
<1>2. CASE RegisterMount(m) \/ ReverifyMount(m)
  <2>1. /\ UNCHANGED <<account, member, grant>>
        /\ mount' = [mount EXCEPT ![m].status = "active"]
    BY <1>2 DEF RegisterMount, ReverifyMount
  <2>2. AccessTypeOK' /\ \A n \in Mounts : Exists(n) => Exists(n)'
    BY <2>1, TypeFacts DEF AccessTypeOK, Exists
  <2> QED BY <1>1, <2>1, <2>2, MountsKept DEF Rested
<1>3. CASE AutoRegister(m)
  <2>1. AccessTypeOK'
    BY <1>1, <1>3, TypeFacts DEF AutoRegister, AccessTypeOK, Held, Permissions
  <2>2. /\ UNCHANGED <<account, member>>
        /\ \A n \in Mounts : Exists(n) => Exists(n)'
        /\ \A n \in Mounts, a \in Accounts : grant[n][a] # "none" => grant'[n][a] # "none"
    BY <1>1, <1>3, TypeFacts DEF AutoRegister, AccessTypeOK, Exists
  <2> QED BY <1>1, <2>1, <2>2, MountsKept DEF Rested
<1>4. CASE AutoGrant(m)
  <2>1. AccessTypeOK'
    BY <1>1, <1>4, TypeFacts DEF AutoGrant, AccessTypeOK, Held, Permissions
  <2>2. /\ UNCHANGED <<account, member, mount>>
        /\ \A n \in Mounts, a \in Accounts : grant[n][a] # "none" => grant'[n][a] # "none"
    BY <1>1, <1>4, TypeFacts DEF AutoGrant, AccessTypeOK
  <2> QED BY <1>1, <2>1, <2>2, MountsKept DEF Rested, Exists
<1> QED BY <1>2, <1>3, <1>4 DEF ChangeMount

LEMMA VerifyIdentityInv == ASSUME IInv, NEW r \in Requests, VerifyIdentity(r) PROVE IInv'
<1>1. CASE Goto(r, "serve") /\ UNCHANGED access
  <2>1. req[r].step \in Accepted /\ "serve" \in Accepted /\ UNCHANGED <<access, identity, token>>
    BY <1>1 DEF VerifyIdentity, At, Accepted
  <2> QED BY <1>1, <2>1, QuietGoto
<1>2. CASE End(r) /\ MarkUnavailable(req[r].mount)
  <2> DEFINE m == req[r].mount
  <2>1. m \in Mounts
    BY TypeFacts DEF Request
  <2> HIDE DEF m
  <2>2. AccessTypeOK'
    BY <1>2, <2>1, TypeFacts DEF MarkUnavailable, AccessTypeOK, m
  <2>3. UNCHANGED <<account, member, grant>> /\ \A n \in Mounts : Exists(n) => Exists(n)'
    BY <1>2, <2>1, TypeFacts DEF MarkUnavailable, AccessTypeOK, Exists, m
  <2>4. Rested /\ UNCHANGED <<identity, token>>
    BY <1>2 DEF VerifyIdentity, Rested
  <2> QED BY <2>2, <2>3, <2>4, MountsKept
<1> QED BY <1>1, <1>2 DEF VerifyIdentity

LEMMA AddUserInv == ASSUME IInv, NEW a \in Accounts, AddUser(a) PROVE IInv'
<1>1. UNCHANGED <<identity, token, req>> /\ ~NoAccounts /\ AddAccount(a)
  BY DEF AddUser, CreateAccount
<1> QED BY <1>1, AddAccountFacts, GrowStep DEF Rested

LEMMA EnableUserInv == ASSUME IInv, NEW a \in Accounts, EnableUser(a) PROVE IInv'
<1>1. /\ UNCHANGED <<identity, token, req, member, grant, mount>> /\ account[a] # "none"
      /\ account' = [account EXCEPT ![a] = "active"]
  BY DEF EnableUser, SetUserEnabled
<1>2. AccessTypeOK' /\ RightsKept /\ (NoAccounts' <=> NoAccounts)
  BY <1>1, TypeFacts DEF AccessTypeOK, RightsKept, NoAccounts, Active, IsMember, Exists
<1> QED BY <1>1, <1>2, GrowStep DEF Rested

LEMMA SetMemberInv ==
    ASSUME IInv, NEW a \in Accounts, NEW permission \in Given, SetMember(a, permission)
    PROVE  IInv'
<1>1. permission \in Permissions /\ permission # "none"
  BY DEF Permissions
<1>2. UNCHANGED <<identity, token, req, account, grant, mount>>
      /\ member' = [member EXCEPT ![a] = permission]
  BY DEF SetMember, PutMember
<1>3. AccessTypeOK' /\ RightsKept /\ (NoAccounts' <=> NoAccounts)
  BY <1>1, <1>2, TypeFacts DEF AccessTypeOK, Held, RightsKept, NoAccounts, Active, IsMember, Exists
<1> QED BY <1>2, <1>3, GrowStep DEF Rested

\* The same with changes that take rights away: no boundary that is left on a
\* token that is not revoked stood on a right that is gone.
LEMMA LoseStep ==
    ASSUME IInv, IdentityTypeOK', UNCHANGED initialization, Rested, NoAccounts' <=> NoAccounts,
           token' \in [Tokens -> Token], TokensLose, TokensShrink,
           \A t \in Tokens : Unrevoked(t)' /\ Active(token[t].by) =>
                account'[token[t].by] = "active",
           \A t \in Tokens, m \in Mounts :
                /\ Unrevoked(t)' /\ m \in token'[t].bounds
                /\ IsMember(token[t].by) /\ grant[m][token[t].by] # "none" /\ Exists(m)
                => /\ member'[token[t].by] # "none" /\ grant'[m][token[t].by] # "none"
                   /\ mount'[m].status \notin {"none", "deleted"}
    PROVE  IInv'
<1>1. ASSUME NEW t \in Tokens, Unrevoked(t)'
      PROVE  Active(token[t].by)' /\ \A m \in token'[t].bounds : Backed(t, m)'
  <2>1. /\ Active(token[t].by) /\ \A m \in token[t].bounds : Backed(t, m)
        /\ token[t].bounds \subseteq Mounts
        /\ token'[t].by = token[t].by /\ token'[t].bounds \subseteq token[t].bounds
    BY <1>1, TypeFacts DEF IInv, TokensBacked, TokensShrink, Token
  <2>2. Active(token[t].by)'
    BY <1>1, <2>1 DEF Active
  <2>3. ASSUME NEW m \in token'[t].bounds PROVE Backed(t, m)'
    <3>1. m \in Mounts /\ Backed(t, m)
      BY <2>1
    <3> QED BY <1>1, <2>1, <3>1 DEF Backed, IsMember, Exists
  <2> QED BY <2>2, <2>3
<1>2. TokensBacked'
  BY <1>1 DEF TokensBacked
<1>3. SetUpOnce'
  BY DEF IInv, SetUpOnce
<1> QED BY <1>2, <1>3, StepInv

LEMMA DropBoundariesFacts ==
    ASSUME IInv, NEW a, NEW gone, DropBoundaries(a, gone)
    PROVE  /\ token' \in [Tokens -> Token] /\ TokensLose /\ TokensShrink
           /\ \A t \in Tokens : token[t].by = a => token'[t].bounds \cap gone = {}
BY TypeFacts DEF DropBoundaries, TokensLose, TokensShrink, Unrevoked, Token

LEMMA DisableUserInv == ASSUME IInv, NEW a \in Accounts, DisableUser(a) PROVE IInv'
<1>1. /\ account' = [account EXCEPT ![a] = "disabled"] /\ account[a] # "none"
      /\ UNCHANGED <<member, grant, mount, req>>
      /\ RevokeTokens(TokensOf(a)) /\ RevokeSessions(SessionsOf(a))
  BY DEF DisableUser, SetUserEnabled
<1>2. AccessTypeOK' /\ (NoAccounts' <=> NoAccounts)
  BY <1>1, TypeFacts DEF AccessTypeOK, NoAccounts
<1>3. IdentityTypeOK'
  BY <1>1, <1>2, TypeFacts, RevokeSessionsType DEF IdentityTypeOK
<1>4. /\ token' \in [Tokens -> Token] /\ TokensLose /\ TokensShrink
      /\ \A t \in Tokens : t \in TokensOf(a) => ~Unrevoked(t)'
  BY <1>1, RevokeTokensFacts
<1>5. \A t \in Tokens : Unrevoked(t)' => token[t].by # a /\ token[t].by \in Accounts
  BY <1>4, TypeFacts DEF TokensOf, Token
<1>6. \A b \in Accounts : b # a => account'[b] = account[b]
  BY <1>1, TypeFacts DEF AccessTypeOK
<1>7. \A t \in Tokens : Unrevoked(t)' /\ Active(token[t].by) => account'[token[t].by] = "active"
  BY <1>5, <1>6 DEF Active
<1>8. UNCHANGED initialization /\ Rested
  BY <1>1 DEF RevokeSessions, Rested
<1> QED BY <1>1, <1>2, <1>3, <1>4, <1>7, <1>8, LoseStep DEF IsMember, Exists

LEMMA RemoveMemberInv == ASSUME IInv, NEW a \in Accounts, RemoveMember(a) PROVE IInv'
<1>1. /\ member' = [member EXCEPT ![a] = "none"]
      /\ grant' = [m \in Mounts |-> [grant[m] EXCEPT ![a] = "none"]]
      /\ UNCHANGED <<account, mount, identity, req>> /\ DropBoundaries(a, Mounts)
  BY DEF RemoveMember, DeleteMember
<1>2. AccessTypeOK' /\ (NoAccounts' <=> NoAccounts)
  BY <1>1, TypeFacts DEF AccessTypeOK, Held, NoAccounts
<1>3. IdentityTypeOK'
  BY <1>1, <1>2, TypeFacts DEF IdentityTypeOK, identity, factors
<1>4. \A b \in Accounts : b # a =>
        member'[b] = member[b] /\ \A m \in Mounts : grant'[m][b] = grant[m][b]
  BY <1>1, TypeFacts DEF AccessTypeOK
<1>5. /\ token' \in [Tokens -> Token] /\ TokensLose /\ TokensShrink
      /\ \A t \in Tokens : token[t].by = a => token'[t].bounds \cap Mounts = {}
      /\ \A t \in Tokens : token[t].by \in Accounts
  BY <1>1, DropBoundariesFacts, TypeFacts DEF Token
<1>6. \A t \in Tokens, m \in Mounts : m \in token'[t].bounds => token[t].by # a
  BY <1>5
<1>7. \A t \in Tokens : Active(token[t].by) => account'[token[t].by] = "active"
  BY <1>1 DEF Active
<1>8. \A t \in Tokens, m \in Mounts :
        m \in token'[t].bounds /\ IsMember(token[t].by) /\ grant[m][token[t].by] # "none"
        => member'[token[t].by] # "none" /\ grant'[m][token[t].by] # "none"
  BY <1>4, <1>5, <1>6 DEF IsMember
<1>9. UNCHANGED initialization /\ Rested
  BY <1>1 DEF identity, Rested
<1> QED BY <1>1, <1>2, <1>3, <1>5, <1>7, <1>8, <1>9, LoseStep DEF Exists

\* Taking away the grant of one account on one mount, with the boundaries.
LEMMA LoseGrant ==
    ASSUME IInv, NEW m \in Mounts, NEW a \in Accounts, NEW permission \in Held, NEW gone,
           UNCHANGED <<account, member, mount, identity, req>>,
           grant' = [grant EXCEPT ![m][a] = permission],
           DropBoundaries(a, gone), permission = "none" => m \in gone
    PROVE  IInv'
<1>1. AccessTypeOK' /\ (NoAccounts' <=> NoAccounts)
  BY TypeFacts DEF AccessTypeOK, NoAccounts
<1>2. IdentityTypeOK'
  BY <1>1, TypeFacts DEF IdentityTypeOK, identity, factors
<1>3. \A n \in Mounts, b \in Accounts :
        grant'[n][b] = IF n = m /\ b = a THEN permission ELSE grant[n][b]
  BY TypeFacts DEF AccessTypeOK
<1>4. /\ token' \in [Tokens -> Token] /\ TokensLose /\ TokensShrink
      /\ \A t \in Tokens : token[t].by = a => token'[t].bounds \cap gone = {}
      /\ \A t \in Tokens : token[t].by \in Accounts
  BY DropBoundariesFacts, TypeFacts DEF Token
<1>5. \A t \in Tokens, n \in Mounts :
        n \in token'[t].bounds /\ grant[n][token[t].by] # "none" => grant'[n][token[t].by] # "none"
  BY <1>3, <1>4
<1>6. \A t \in Tokens : Active(token[t].by) => account'[token[t].by] = "active"
  BY DEF Active
<1>7. UNCHANGED initialization /\ Rested
  BY DEF identity, Rested
<1> QED BY <1>1, <1>2, <1>4, <1>5, <1>6, <1>7, LoseStep DEF IsMember, Exists

LEMMA GrantsInv ==
    ASSUME IInv, NEW m \in Mounts, NEW a \in Accounts,
           RemoveGrant(m, a) \/ \E permission \in Given : SetGrant(m, a, permission)
    PROVE  IInv'
<1>1. CASE RemoveGrant(m, a)
  BY <1>1, LoseGrant DEF RemoveGrant, DeleteGrant, Held
<1>2. ASSUME NEW permission \in Given, SetGrant(m, a, permission) PROVE IInv'
  <2> DEFINE given == IF Grantable(m, a) THEN permission ELSE "none"
             gone == IF Grantable(m, a) THEN {} ELSE {m}
  <2>1. given \in Held /\ (given = "none" => m \in gone)
    BY DEF Held, Permissions
  <2>2. /\ grant' = [grant EXCEPT ![m][a] = given] /\ DropBoundaries(a, gone)
        /\ UNCHANGED <<account, member, mount, identity, req>>
    BY <1>2 DEF SetGrant, PutGrant
  <2> HIDE DEF given, gone
  <2> QED BY <2>1, <2>2, LoseGrant
<1> QED BY <1>1, <1>2

LEMMA DeleteMountInv == ASSUME IInv, NEW m \in Mounts, DeleteMount(m) PROVE IInv'
<1>1. /\ mount' = [mount EXCEPT ![m].status = "deleted"]
      /\ grant' = [grant EXCEPT ![m] = [a \in Accounts |-> "none"]]
      /\ token' = [t \in Tokens |-> [token[t] EXCEPT !.bounds = @ \ {m}]]
      /\ UNCHANGED <<account, member, identity, req>>
  BY DEF DeleteMount, SoftDeleteMount
<1>2. AccessTypeOK' /\ (NoAccounts' <=> NoAccounts)
  BY <1>1, TypeFacts DEF AccessTypeOK, Held, NoAccounts
<1>3. IdentityTypeOK'
  BY <1>1, <1>2, TypeFacts DEF IdentityTypeOK, identity, factors
<1>4. /\ token' \in [Tokens -> Token] /\ TokensLose /\ TokensShrink
      /\ \A t \in Tokens : m \notin token'[t].bounds
  BY <1>1, TypeFacts DEF TokensLose, TokensShrink, Unrevoked, Token
<1>5. \A n \in Mounts : n # m => grant'[n] = grant[n] /\ mount'[n] = mount[n]
  BY <1>1, TypeFacts DEF AccessTypeOK
<1>6. \A t \in Tokens : Active(token[t].by) => account'[token[t].by] = "active"
  BY <1>1 DEF Active
<1>7. UNCHANGED initialization /\ Rested
  BY <1>1 DEF identity, Rested
<1> QED BY <1>1, <1>2, <1>3, <1>4, <1>5, <1>6, <1>7, LoseStep DEF IsMember, Exists

-----------------------------------------------------------------------------
LEMMA NextInv == IInv /\ [Next]_vars => IInv'
<1> SUFFICES ASSUME IInv, [Next]_vars PROVE IInv'
  OBVIOUS
<1>0. \A a \in Actors : a \in Accounts
  OBVIOUS
<1>1. ASSUME NEW r \in Requests, People(r) PROVE IInv'
  BY <1>1, StartInv, GotoInv, SessionsInv, FactorsInv, SetupFactorInv, AnswerSetupInv, CheckCodeInv, TokensInv, InsertTokenInv,
     AuthorizeBoundsInv DEF People
<1>2. ASSUME NEW r \in Requests, Clients(r) PROVE IInv'
  BY <1>2, LoadTokenInv, LoadBoundariesInv, TouchTokenInv, AuthorizeReadInv, GotoInv,
     VerifyIdentityInv DEF Clients
<1>3. ASSUME NEW r \in Requests, CutOff(r) PROVE IInv'
  BY <1>3, GotoInv
<1>4. CASE Administration
  BY <1>0, <1>4, AddUserInv, EnableUserInv, DisableUserInv, SessionsInv, RemoveMemberInv,
     SetMemberInv, GrantsInv, DeleteMountInv, ChangeMountInv, TokensInv DEF Administration
<1>5. CASE Lapses
  BY <1>5, SessionsInv, TokensInv DEF Lapses
<1>6. CASE UNCHANGED vars
  <2>1. UNCHANGED <<access, identity, token>> /\ UNCHANGED req
    BY <1>6 DEF vars
  <2>2. AccessTypeOK' /\ RightsKept /\ (NoAccounts' <=> NoAccounts)
    BY <2>1, TypeFacts DEF access, AccessTypeOK, RightsKept, NoAccounts, Active, IsMember, Exists
  <2> QED BY <2>1, <2>2, GrowStep DEF Rested
<1> QED BY <1>1, <1>2, <1>3, <1>4, <1>5, <1>6, SetUpInv DEF Next

\* The strengthened invariant, from which the theorems below follow.
THEOREM Inductive == Spec => []IInv
<1> QED BY InitInv, NextInv, PTL DEF Spec

\* Type correctness: rows and requests keep their shape, and no request
\* inserts a token without having authorized a boundary.
THEOREM TypeCorrect == Spec => []TypeOK
<1>1. IInv => TypeOK
  BY DEF IInv
<1> QED BY <1>1, Inductive, PTL

\* Initialize is open until the first account is there, and never again,
\* however often prepareInitializationToken runs.
THEOREM SetUpHappensOnce == Spec => []SetUpOnce
<1>1. IInv => SetUpOnce
  BY DEF IInv
<1> QED BY <1>1, Inductive, PTL

\* Create asks for the right in its own transaction, and each endpoint that
\* takes a right away takes away what stands on it: no token outlives it.
THEOREM NoTokenOutlivesItsRight == Spec => []TokensBacked
<1>1. IInv => TokensBacked
  BY DEF IInv
<1> QED BY <1>1, Inductive, PTL

\* The three statements of VerifyBearer are as good as one: whatever they
\* accept was backed when the boundaries were read.
THEOREM NothingUnbackedAccepted == Spec => []AcceptedBacked
<1>1. IInv => AcceptedBacked
  BY DEF IInv, RequestsSound, RequestSound, AcceptedBacked
<1> QED BY <1>1, Inductive, PTL

-----------------------------------------------------------------------------
(* What single steps do to sessions and factors.                           *)

\* Nobody loses the account, no session comes to life, no factor changes, and
\* whoever has seen a secret still has.
Calm ==
    /\ UNCHANGED <<factor, secrets>> /\ shown \subseteq shown'
    /\ \A a \in Accounts : Active(a) => Active(a)'
    /\ \A v \in Sessions : session'[v].state = "live" => session'[v] = session[v]

LEMMA CalmSteps ==
    ASSUME IInv,
           \/ UNCHANGED <<access, identity>>
           \/ UNCHANGED <<access, factors>> /\ \E which : RevokeSessions(which)
           \/ UNCHANGED <<account, identity>>
           \/ SetUp
           \/ \E a \in Accounts : AddUser(a) \/ EnableUser(a)
           \/ \E v \in Sessions : ExpireSession(v)
    PROVE  Calm
<1>1. CASE UNCHANGED <<access, identity>> \/ UNCHANGED <<account, identity>>
  BY <1>1 DEF access, identity, factors, Calm, Active
<1>2. ASSUME NEW which, RevokeSessions(which), UNCHANGED <<access, factors>> PROVE Calm
  <2>1. \A v \in Sessions : session'[v].state = "live" => session'[v] = session[v]
    BY <1>2, SessionFacts DEF RevokeSessions
  <2> QED BY <1>2, <2>1 DEF access, factors, Calm, Active
<1>3. CASE SetUp
  <2>1. CASE Prepare \/ LapseInitialization
    BY <2>1 DEF Prepare, LapseInitialization, access, factors, Calm, Active
  <2>2. CASE Initialize
    BY <2>2, AddAccountFacts DEF Initialize, factors, Calm, RightsKept
  <2> QED BY <1>3, <2>1, <2>2 DEF SetUp
<1>4. ASSUME NEW a \in Accounts, AddUser(a) PROVE Calm
  BY <1>4, AddAccountFacts DEF AddUser, CreateAccount, identity, factors, Calm, RightsKept
<1>5. ASSUME NEW a \in Accounts, EnableUser(a) PROVE Calm
  BY <1>5, TypeFacts DEF EnableUser, SetUserEnabled, AccessTypeOK, identity, factors, Calm, Active
<1>6. ASSUME NEW v \in Sessions, ExpireSession(v) PROVE Calm
  <2>1. \A w \in Sessions : session'[w].state = "live" => session'[w] = session[w]
    BY <1>6, SessionFacts DEF ExpireSession
  <2> QED BY <1>6, <2>1 DEF ExpireSession, access, factors, Calm, Active
<1> QED BY <1>1, <1>2, <1>3, <1>4, <1>5, <1>6

\* A change of the factor of the account of request r.
FactorStep(r) ==
    /\ SetupFactor(r) \/ ConfirmFactor(r) \/ DisableFactor(r)
    /\ UNCHANGED <<access, session>>

LEMMA StepKinds ==
    ASSUME IInv, [Next]_vars
    PROVE  \/ Calm
           \/ \E r \in Requests : FactorStep(r)
           \/ \E r \in Requests, v \in Sessions : InsertSession(r, v)
           \/ \E a \in Accounts : DisableUser(a)
<1>0. \A a \in Actors : a \in Accounts
  OBVIOUS
<1>1. ASSUME NEW r \in Requests, People(r)
      PROVE  \/ Calm \/ FactorStep(r)
             \/ \E v \in Sessions : InsertSession(r, v)
  <2>1. CASE \/ \E a \in Actors : SignIn(r, a)
             \/ CheckFactor(r) \/ CheckStatus(r)
             \/ \E v \in Sessions, handler \in Handlers : RequireSession(r, v, handler)
             \/ CheckCode(r) \/ CheckDisable(r) \/ RevokeOwnTokens(r)
             \/ \E t \in Tokens : RevokeToken(r, t) \/ InsertToken(r, t)
             \/ \E bounds \in SUBSET Mounts : AuthorizeBounds(r, bounds)
             \/ Recheck(r) \/ WithdrawToken(r)
    <3>1. UNCHANGED <<access, identity>>
      BY <2>1 DEF SignIn, CheckFactor, CheckStatus, RequireSession, CheckCode, CheckDisable,
                  RevokeOwnTokens, RevokeToken, InsertToken, AuthorizeBounds, Recheck,
                  WithdrawToken
    <3> QED BY <3>1, CalmSteps
  <2>2. ASSUME NEW v \in Sessions, EndOwnSession(r, v) PROVE Calm
    BY <2>2, CalmSteps DEF EndOwnSession, RevokeSessions, factors
  <2>3. CASE SetupFactor(r) \/ ConfirmFactor(r) \/ DisableFactor(r)
    BY <2>3 DEF FactorStep, SetupFactor, ConfirmFactor, DisableFactor, SetSecret, SetRequired,
                ClearFactor, WriteFactor
  <2>4. CASE AnswerSetup(r)
    BY <2>4 DEF AnswerSetup, ShowSecret, Calm, access, Active
  <2> QED BY <1>1, <2>1, <2>2, <2>3, <2>4 DEF People
<1>2. ASSUME NEW r \in Requests, Clients(r) \/ CutOff(r) PROVE Calm
  <2>1. UNCHANGED <<account, identity>>
    BY <1>2 DEF Clients, CutOff, LoadToken, LoadBoundaries, TouchToken, AuthorizeRead, LoadMount,
                VerifyIdentity, Serve, MarkUnavailable, access
  <2> QED BY <2>1, CalmSteps
<1>3. ASSUME Administration PROVE Calm \/ \E a \in Accounts : DisableUser(a)
  <2>1. CASE \/ \E a \in Actors : RemoveMember(a)
             \/ \E a \in Actors, permission \in Given : SetMember(a, permission)
             \/ \E m \in Mounts, a \in Actors, permission \in Given : SetGrant(m, a, permission)
             \/ \E m \in Mounts, a \in Actors : RemoveGrant(m, a)
             \/ \E m \in Mounts : DeleteMount(m) \/ ChangeMount(m)
             \/ \E t \in Tokens : EndToken(t)
    <3>1. UNCHANGED <<account, identity>>
      BY <2>1 DEF RemoveMember, DeleteMember, SetMember, PutMember, SetGrant, PutGrant,
                  RemoveGrant, DeleteGrant, DeleteMount, SoftDeleteMount, ChangeMount,
                  RegisterMount, AutoRegister, AutoGrant, ReverifyMount, EndToken, access
    <3> QED BY <3>1, CalmSteps
  <2>2. ASSUME NEW a \in Actors, EndSessions(a) PROVE Calm
    BY <2>2, CalmSteps DEF EndSessions, RevokeSessions, factors
  <2> QED BY <1>0, <1>3, <2>1, <2>2, CalmSteps DEF Administration
<1>4. CASE Lapses
  <2>1. ASSUME NEW v \in Sessions, SignOut(v) PROVE Calm
    BY <2>1, CalmSteps DEF SignOut, RevokeSessions, factors
  <2>2. ASSUME NEW t \in Tokens, ExpireToken(t) PROVE Calm
    BY <2>2, CalmSteps DEF ExpireToken
  <2> QED BY <1>4, <2>1, <2>2, CalmSteps DEF Lapses
<1>5. CASE UNCHANGED vars
  BY <1>5, CalmSteps DEF vars
<1> QED BY <1>1, <1>2, <1>3, <1>4, <1>5, CalmSteps DEF Next

\* Only the INSERT of CreateSession, when the account was disabled after the
\* SELECT before it, gives an account that is not active a live session.
THEOREM DisabledMeansSignedOut == Spec => OnlyOvertakenSessions
<1> DEFINE Overtaken ==
        \A v \in Sessions : LiveOfDisabled(v)' /\ ~LiveOfDisabled(v) =>
            \E r \in Requests : At(r, "session") /\ Who(r) = session'[v].account
<1>1. IInv /\ [Next]_vars => [Overtaken]_vars
  <2> SUFFICES ASSUME IInv, [Next]_vars, NEW v \in Sessions,
                      LiveOfDisabled(v)', ~LiveOfDisabled(v)
               PROVE  \E r \in Requests : At(r, "session") /\ Who(r) = session'[v].account
    OBVIOUS
  <2>0. session[v].account \in Accounts
    BY SessionFacts
  <2>1. ~Calm
    BY <2>0 DEF Calm, LiveOfDisabled, Active
  <2>2. ASSUME NEW r \in Requests, FactorStep(r) PROVE FALSE
    BY <2>2 DEF FactorStep, LiveOfDisabled, Active, access
  <2>3. ASSUME NEW r \in Requests, NEW w \in Sessions, InsertSession(r, w)
        PROVE  At(r, "session") /\ Who(r) = session'[v].account
    <3>1. At(r, "session") /\ UNCHANGED access
          /\ session' = [session EXCEPT ![w] = [account |-> Who(r), state |-> "live"]]
      BY <2>3 DEF InsertSession, AddSession
    <3>2. v = w
      BY <3>1, SessionFacts DEF LiveOfDisabled, Active, access
    <3> QED BY <3>1, <3>2, SessionFacts
  <2>4. ASSUME NEW a \in Accounts, DisableUser(a) PROVE FALSE
    <3>1. /\ RevokeSessions(SessionsOf(a))
          /\ account' = [account EXCEPT ![a] = "disabled"]
      BY <2>4 DEF DisableUser, SetUserEnabled
    <3>2. session'[v] = session[v] /\ session[v].state = "live" /\ session[v].account # a
      BY <3>1, SessionFacts DEF RevokeSessions, SessionsOf, LiveOfDisabled
    <3> QED BY <2>0, <3>1, <3>2, TypeFacts DEF LiveOfDisabled, Active, AccessTypeOK
  <2> QED BY <2>1, <2>2, <2>3, <2>4, StepKinds
<1> QED BY <1>1, Inductive, PTL DEF Spec, OnlyOvertakenSessions

-----------------------------------------------------------------------------
(* Codes that were checked.                                                *)

\* A request that is about to require codes has checked one against a secret
\* that was shown, if it is still the one that is stored.
CodesSound ==
    /\ \A a \in Accounts : factor[a].secret <= secrets
    /\ \A r \in Requests : At(r, "require") =>
        /\ req[r].secret \in 1 .. secrets
        /\ req[r].secret = factor[Who(r)].secret => req[r].secret \in shown

LEMMA NewChecks ==
    ASSUME IInv, [Next]_vars, NEW q \in Requests, At(q, "require")'
    PROVE  (At(q, "require") /\ req'[q] = req[q]) \/ CheckCode(q)
<1> DEFINE Kept == At(q, "require") /\ req'[q] = req[q]
<1>1. ASSUME NEW r \in Requests, NEW new, new.step # "require", req' = [req EXCEPT ![r] = new]
      PROVE  Kept
  BY <1>1, TypeFacts DEF At
<1>2. CASE UNCHANGED req
  BY <1>2 DEF At
<1>3. ASSUME NEW r \in Requests, End(r) PROVE Kept
  BY <1>1, <1>3, IdleFacts DEF End
<1>4. ASSUME NEW r \in Requests, NEW step, step # "require", Goto(r, step) PROVE Kept
  <2>1. req' = [req EXCEPT ![r] = [req[r] EXCEPT !.step = step]]
    BY <1>4 DEF Goto
  <2>2. [req[r] EXCEPT !.step = step].step = step
    BY TypeFacts DEF Request
  <2> QED BY <1>1, <1>4, <2>1, <2>2
<1>5. ASSUME NEW r \in Requests, People(r) PROVE Kept \/ CheckCode(q)
  <2>1. CASE CheckCode(r)
    <3>1. r # q => req'[q] = req[q]
      BY <2>1, TypeFacts DEF CheckCode
    <3> QED BY <2>1, <3>1 DEF At
  <2>2. ASSUME NEW a \in Actors, SignIn(r, a) PROVE Kept
    <3>1. [Idle EXCEPT !.step = "factor", !.account = a].step = "factor"
      BY IdleFacts DEF Request
    <3> QED BY <1>1, <2>2, <3>1 DEF SignIn
  <2>3. ASSUME NEW v \in Sessions, NEW handler \in Handlers, RequireSession(r, v, handler)
        PROVE  Kept
    <3>1. [Idle EXCEPT !.step = handler, !.account = session[v].account].step = handler
      BY IdleFacts DEF Request
    <3> QED BY <1>1, <2>3, <3>1 DEF RequireSession, Handlers
  <2>4. CASE SetupFactor(r)
    <3>1. [req[r] EXCEPT !.step = "answer", !.secret = secrets + 1].step = "answer"
      BY TypeFacts DEF Request
    <3> QED BY <1>1, <2>4, <3>1 DEF SetupFactor
  <2>5. ASSUME NEW t \in Tokens, InsertToken(r, t) PROVE Kept
    <3>1. [req[r] EXCEPT !.step = "recheck", !.token = t].step = "recheck"
      BY TypeFacts DEF Request
    <3> QED BY <1>1, <2>5, <3>1 DEF InsertToken
  <2>6. ASSUME NEW bounds \in SUBSET Mounts, AuthorizeBounds(r, bounds) PROVE Kept
    <3>1. [req[r] EXCEPT !.step = "insert", !.bounds = bounds].step = "insert"
      BY TypeFacts DEF Request
    <3> QED BY <1>1, <2>6, <3>1 DEF AuthorizeBounds
  <2>7. CASE CheckFactor(r) \/ CheckStatus(r) \/ CheckDisable(r) \/ Recheck(r)
    BY <1>3, <1>4, <2>7 DEF CheckFactor, CheckStatus, CheckDisable, Recheck, GotoIf
  <2>8. CASE \/ AnswerSetup(r) \/ ConfirmFactor(r) \/ DisableFactor(r) \/ RevokeOwnTokens(r)
             \/ WithdrawToken(r)
             \/ \E v \in Sessions : InsertSession(r, v) \/ EndOwnSession(r, v)
             \/ \E t \in Tokens : RevokeToken(r, t)
    BY <1>3, <2>8 DEF AnswerSetup, ConfirmFactor, DisableFactor, RevokeOwnTokens, WithdrawToken,
                      InsertSession, EndOwnSession, RevokeToken
  <2> QED BY <1>5, <2>1, <2>2, <2>3, <2>4, <2>5, <2>6, <2>7, <2>8 DEF People
<1>6. ASSUME NEW r \in Requests, Clients(r) \/ CutOff(r) PROVE Kept
  <2>1. ASSUME NEW t \in Tokens, LoadToken(r, t) PROVE Kept
    <3>1. [Idle EXCEPT !.step = "bounds", !.account = token[t].by, !.token = t].step = "bounds"
      BY IdleFacts DEF Request
    <3> QED BY <1>1, <2>1, <3>1 DEF LoadToken
  <2>2. CASE LoadBoundaries(r)
    <3>1. PICK new : /\ new = [req[r] EXCEPT
                            !.step = "touch", !.bounds = token[req[r].token].bounds,
                            !.backed = Active(token[req[r].token].by)
                                /\ \A m \in token[req[r].token].bounds : Backed(req[r].token, m)]
                     /\ req' = [req EXCEPT ![r] = new]
      BY <2>2 DEF LoadBoundaries
    <3>2. new.step = "touch"
      BY <3>1, TypeFacts DEF Request
    <3> QED BY <1>1, <3>1, <3>2
  <2>3. ASSUME NEW m \in Mounts, AuthorizeRead(r, m) PROVE Kept
    <3>1. [req[r] EXCEPT !.step = "load", !.mount = m].step = "load"
      BY TypeFacts DEF Request
    <3> QED BY <1>1, <2>3, <3>1 DEF AuthorizeRead
  <2>4. CASE TouchToken(r) \/ LoadMount(r) \/ VerifyIdentity(r) \/ Serve(r) \/ CutOff(r)
    BY <1>3, <1>4, <2>4 DEF TouchToken, LoadMount, VerifyIdentity, Serve, CutOff
  <2> QED BY <1>6, <2>1, <2>2, <2>3, <2>4 DEF Clients
<1>7. CASE SetUp \/ Administration \/ Lapses \/ UNCHANGED vars
  BY <1>2, <1>7 DEF SetUp, Administration, Lapses, vars, AddUser, EnableUser, DisableUser,
        EndSessions, RemoveMember, SetMember, SetGrant, RemoveGrant, DeleteMount, ChangeMount,
        EndToken, ExpireToken, SignOut
<1> QED BY <1>5, <1>6, <1>7 DEF Next

LEMMA CodesStep ==
    ASSUME IInv, CodesSound, [Next]_vars,
           \A a \in Accounts : factor'[a].secret <= secrets', secrets <= secrets',
           \A r \in Requests : At(r, "require") /\ req[r].secret = factor'[Who(r)].secret =>
                req[r].secret \in shown'
    PROVE  CodesSound'
<1>0. secrets \in Nat /\ secrets' \in Nat
  BY SessionFacts, NextInv, TypeFacts DEF IInv, TypeOK, IdentityTypeOK
<1>1. ASSUME NEW q \in Requests, At(q, "require")'
      PROVE  /\ req'[q].secret \in 1 .. secrets'
             /\ req'[q].secret = factor'[req'[q].account].secret => req'[q].secret \in shown'
  <2>1. CASE At(q, "require") /\ req'[q] = req[q]
    BY <1>0, <2>1 DEF CodesSound, Who
  <2>2. CASE CheckCode(q)
    <3>1. UNCHANGED <<factor, secrets, shown>>
      BY <2>2 DEF CheckCode, identity, factors
    <3>2. /\ req'[q].secret = factor[Who(q)].secret /\ factor[Who(q)].secret \in shown
          /\ Who(q) \in Accounts
      BY <2>2, TypeFacts DEF CheckCode, Request, Who
    <3>3. factor[Who(q)].secret \in 1 .. secrets
      BY <1>0, <3>2, SessionFacts DEF CodesSound
    <3> QED BY <3>1, <3>2, <3>3
  <2> QED BY <1>1, <2>1, <2>2, NewChecks
<1> QED BY <1>1 DEF CodesSound, At, Who

LEMMA CodesKept == IInv /\ CodesSound /\ [Next]_vars => CodesSound'
<1> SUFFICES ASSUME IInv, CodesSound, [Next]_vars PROVE CodesSound'
  OBVIOUS
<1>0. secrets \in Nat /\ \A r \in Requests : Who(r) \in Accounts
  BY SessionFacts
<1>1. CASE UNCHANGED <<factor, secrets>> /\ shown \subseteq shown'
  BY <1>0, <1>1, CodesStep DEF CodesSound
<1>2. ASSUME NEW r \in Requests, FactorStep(r) PROVE CodesSound'
  <2> DEFINE a == Who(r)
  <2>1. a \in Accounts /\ (SetSecret(a) \/ SetRequired(a) \/ ClearFactor(a))
    BY <1>0, <1>2 DEF FactorStep, SetupFactor, ConfirmFactor, DisableFactor
  <2> HIDE DEF a
  <2>2. /\ factor[a] \in [required : BOOLEAN, secret : 0 .. MaxSecrets]
        /\ \A b \in Accounts : b # a => factor'[b] = factor[b]
        /\ secrets' \in 0 .. MaxSecrets /\ secrets <= secrets'
        /\ \A n \in shown : n \in Stored' => n \in shown'
        /\ \/ factor'[a].secret = factor[a].secret
           \/ factor'[a].secret = 0
           \/ factor'[a].secret = secrets + 1 /\ secrets' = secrets + 1
    BY <2>1, SessionFacts, FactorFacts DEF NoFactor
  <2>3. ASSUME NEW b \in Accounts PROVE factor'[b].secret <= secrets'
    <3>1. factor[b].secret <= secrets /\ factor[b].secret \in Nat
      BY SessionFacts DEF CodesSound
    <3> QED BY <1>0, <2>2, <3>1
  <2>4. ASSUME NEW q \in Requests, At(q, "require"), req[q].secret = factor'[Who(q)].secret
        PROVE  req[q].secret \in shown'
    <3>1. /\ req[q].secret \in 1 .. secrets /\ Who(q) \in Accounts
          /\ req[q].secret = factor[Who(q)].secret => req[q].secret \in shown
      BY <1>0, <2>4 DEF CodesSound
    <3>2. req[q].secret # 0 /\ req[q].secret # secrets + 1
      BY <1>0, <3>1
    <3>3. req[q].secret = factor[Who(q)].secret
      BY <2>2, <2>4, <3>1, <3>2
    <3>4. req[q].secret \in Stored'
      BY <2>4, <3>1 DEF Stored
    <3> QED BY <2>2, <3>1, <3>3, <3>4
  <2> QED BY <2>2, <2>3, <2>4, CodesStep
<1>3. ASSUME NEW r \in Requests, NEW v \in Sessions, InsertSession(r, v)
      PROVE  UNCHANGED <<factor, secrets>> /\ shown \subseteq shown'
  BY <1>3 DEF InsertSession, AddSession, factors
<1>4. ASSUME NEW a \in Accounts, DisableUser(a)
      PROVE  UNCHANGED <<factor, secrets>> /\ shown \subseteq shown'
  BY <1>4 DEF DisableUser, RevokeSessions, factors
<1> QED BY <1>1, <1>2, <1>3, <1>4, StepKinds DEF Calm

\* setupTOTP, confirmTOTP and disableAccountTOTP: a code comes to be asked for
\* that nobody can give when a secret that is required is replaced, until the
\* answer arrives, or when confirmTOTP writes after the secret whose code it
\* checked is no longer the one that is stored; and in no other way.
THEOREM CodesCanBeGiven == Spec => LockOutsHaveTwoCauses
<1> DEFINE Replaced(r, a) ==
        /\ At(r, "setup") /\ factor[a].required
        /\ At(r, "answer")' /\ req'[r].secret = factor'[a].secret
           Overtaken(r, a) ==
        /\ At(r, "require") /\ At(r, "idle")'
        /\ req[r].secret # factor[a].secret
           Caused ==
        \A a \in Accounts : LockedOut(a)' /\ ~LockedOut(a) =>
            \E r \in Requests : Who(r) = a /\
                \/ /\ At(r, "setup") /\ factor[a].required
                   /\ At(r, "answer")' /\ req'[r].secret = factor'[a].secret
                \/ /\ At(r, "require") /\ At(r, "idle")'
                   /\ req[r].secret # factor[a].secret
<1>1. IInv /\ CodesSound /\ [Next]_vars => [Caused]_vars
  <2> SUFFICES ASSUME IInv, CodesSound, [Next]_vars, NEW a \in Accounts,
                      LockedOut(a)', ~LockedOut(a)
               PROVE  \E r \in Requests : Who(r) = a /\ (Replaced(r, a) \/ Overtaken(r, a))
    OBVIOUS
  <2>0. factor[a] \in [required : BOOLEAN, secret : 0 .. MaxSecrets] /\ secrets \in Nat
    BY SessionFacts
  <2>1. ~(factor' = factor /\ shown \subseteq shown')
    BY DEF LockedOut
  <2>2. ASSUME NEW r \in Requests, FactorStep(r)
        PROVE  Who(r) = a /\ (Replaced(r, a) \/ Overtaken(r, a))
    <3>1. /\ Who(r) \in Accounts /\ req[r] \in Request
          /\ SetSecret(Who(r)) \/ SetRequired(Who(r)) \/ ClearFactor(Who(r))
      BY <2>2, TypeFacts DEF FactorStep, SetupFactor, ConfirmFactor, DisableFactor, Request, Who
    <3>2. ASSUME factor'[a] = factor[a] PROVE FALSE
      <4>1. factor[a].secret \in shown /\ factor[a].secret \in Stored'
        BY <3>2 DEF LockedOut, Stored
      <4> QED BY <3>1, <3>2, <4>1, FactorFacts DEF LockedOut
    <3>3. Who(r) = a
      BY <3>1, <3>2, FactorFacts
    <3>4. CASE SetupFactor(r)
      <4>1. /\ secrets' = secrets + 1 /\ factor'[a] = [factor[a] EXCEPT !.secret = secrets + 1]
        BY <3>1, <3>2, <3>3, <3>4, FactorFacts DEF SetupFactor
      <4>2. factor[a].required /\ factor'[a].secret = secrets + 1
        BY <2>0, <4>1 DEF LockedOut
      <4>3. req'[r].step = "answer" /\ req'[r].secret = secrets + 1
        BY <3>1, <3>4, TypeFacts DEF SetupFactor, Request
      <4> QED BY <3>3, <3>4, <4>2, <4>3 DEF SetupFactor, At
    <3>5. CASE ConfirmFactor(r)
      <4>1. factor'[a] = [factor[a] EXCEPT !.required = TRUE]
        BY <3>1, <3>2, <3>3, <3>5, FactorFacts DEF ConfirmFactor
      <4>2. factor'[a].secret = factor[a].secret /\ factor'[a].secret \in Stored'
        BY <2>0, <4>1 DEF Stored
      <4>3. factor[a].secret \notin shown
        BY <3>1, <4>2, FactorFacts DEF LockedOut
      <4>4. At(r, "require") /\ req[r].secret # factor[a].secret
        BY <3>3, <3>5, <4>3 DEF ConfirmFactor, CodesSound
      <4>5. At(r, "idle")'
        BY <3>5, TypeFacts, IdleFacts DEF ConfirmFactor, End, At
      <4> QED BY <3>3, <4>4, <4>5
    <3>6. CASE DisableFactor(r)
      BY <3>1, <3>2, <3>3, <3>6, FactorFacts DEF DisableFactor, NoFactor, LockedOut
    <3> QED BY <2>2, <3>4, <3>5, <3>6 DEF FactorStep
  <2>3. ASSUME NEW r \in Requests, NEW v \in Sessions, InsertSession(r, v) PROVE FALSE
    BY <2>1, <2>3 DEF InsertSession, AddSession, factors
  <2>4. ASSUME NEW b \in Accounts, DisableUser(b) PROVE FALSE
    BY <2>1, <2>4 DEF DisableUser, RevokeSessions, factors
  <2> QED BY <2>1, <2>2, <2>3, <2>4, StepKinds DEF Calm
<1>2. Init => CodesSound
  BY IdleFacts DEF Init, IdentityInit, NoFactor, CodesSound, At
<1>3. Spec => []CodesSound
  BY <1>2, CodesKept, Inductive, PTL DEF Spec
<1> QED BY <1>1, <1>3, Inductive, PTL DEF Spec, LockOutsHaveTwoCauses
=============================================================================
