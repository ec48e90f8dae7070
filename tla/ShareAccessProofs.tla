------------------------- MODULE ShareAccessProofs -------------------------
(***************************************************************************)
(* Proofs about share links and the rights behind them, for every number   *)
(* of accounts, mounts, shares, sessions, requests, paths and ticks.       *)
(***************************************************************************)
EXTENDS ShareAccess, TLAPS

USE OwnerAssumption, PlacesAssumption, NoShareAssumption, BoundsAssumption, SessionTTLAssumption

Request == [step : Steps, share : Shares \cup {NoShare}, mount : Mounts, place : Places,
            public : BOOLEAN, change : Changes, object : 0 .. MaxObjects]
Terms == [by : Accounts, place : Places, expires : 0 .. MaxTime,
          limits : Counts, object : 0 .. MaxObjects]
RowStates == {"none", "live", "revoked"}

\* A request that works on a share has one.
RequestsHoldShares ==
    \A r \in Requests : req[r].step \in ShareSteps => req[r].share \in Shares

\* Until its INSERT a share belongs to the request that creates it alone.
CreatesAlone ==
    \A r \in Requests : req[r].step \in CreateSteps =>
        /\ row[req[r].share] = "none"
        /\ \A q \in Requests : q # r => req[q].share # req[r].share

\* A row of share_sessions is of some share.
SessionsHoldShares ==
    \A v \in Sessions : session[v].share = NoShare => session[v] = NoSession

RequestsInv == RequestsHoldShares /\ CreatesAlone

IInv == TypeOK /\ RequestsInv /\ SessionsHoldShares /\ NoDormantGrants /\ LiveSharesBacked

LEMMA PlacesFacts == /\ SomePlace \in Places /\ SomePlace[1] \in Mounts
                     /\ \A p \in Places : p[1] \in Mounts
<1>1. \E p \in Places : TRUE
  <2>1. PICK m \in Mounts, l \in Locations : TRUE
    OBVIOUS
  <2>2. <<m, l>> \in Places
    BY DEF Places
  <2> QED BY <2>2
<1> QED BY <1>1 DEF SomePlace, Places

LEMMA IdleFacts == Idle \in Request /\ Idle.step = "idle" /\ Idle.share = NoShare
BY PlacesFacts DEF Idle, Request, Steps, ShareSteps, CreateSteps, Changes

LEMMA InitInv == Init => IInv
<1> SUFFICES ASSUME Init PROVE IInv
  OBVIOUS
<1>1. TypeOK
  <2>1. AccessTypeOK
    BY DEF Init, AccessInit, AccessTypeOK, Held, Permissions
  <2>2. terms \in [Shares -> Terms]
    BY PlacesFacts DEF Init, Terms, NoUses, Counts
  <2>3. req \in [Requests -> Request]
    BY IdleFacts DEF Init
  <2> QED BY <2>1, <2>2, <2>3 DEF Init, TypeOK, NoUses, Counts, NoSession, Terms, Request
<1>2. RequestsInv
  BY IdleFacts DEF Init, RequestsInv, RequestsHoldShares, CreatesAlone, ShareSteps, CreateSteps
<1>3. SessionsHoldShares /\ LiveSharesBacked
  BY DEF Init, SessionsHoldShares, LiveSharesBacked, Live
<1>4. NoDormantGrants
  BY DEF Init, AccessInit, NoDormantGrants, IsMember, Exists
<1> QED BY <1>1, <1>2, <1>3, <1>4 DEF IInv

-----------------------------------------------------------------------------
\* What a request becomes in a step: it may give its share up, keep it, take
\* one that is in the table, or one that no request has; and no share that
\* another request is about to create appears in the table.
LEMMA RequestStepInv ==
    ASSUME IInv, NEW r \in Requests, NEW new \in Request, req' = [req EXCEPT ![r] = new],
           \A s \in Shares : row[s] = "none" => row'[s] = "none" \/ s = req[r].share,
           new.step \in ShareSteps => new.share \in Shares,
           new.step \in CreateSteps =>
                /\ row'[new.share] = "none"
                /\ \/ new.share = req[r].share /\ req[r].step \in CreateSteps
                   \/ \A q \in Requests : req[q].share # new.share,
           \/ new.share \in {NoShare, req[r].share}
           \/ new.share \in Shares /\ row[new.share] # "none"
           \/ \A q \in Requests : req[q].share # new.share
    PROVE  req' \in [Requests -> Request] /\ RequestsInv'
<1>1. req \in [Requests -> Request]
  BY DEF IInv, TypeOK, Request
<1>2. req'[r] = new /\ \A q \in Requests \ {r} : req'[q] = req[q]
  BY <1>1
<1>3. RequestsHoldShares'
  BY <1>2 DEF IInv, RequestsInv, RequestsHoldShares
<1>4. ASSUME NEW q \in Requests, req'[q].step \in CreateSteps, NEW p \in Requests, p # q
      PROVE  row'[req'[q].share] = "none" /\ req'[p].share # req'[q].share
  <2>0. \A x \in Requests : req[x].step \in CreateSteps => req[x].share \in Shares
    BY DEF IInv, RequestsInv, RequestsHoldShares, ShareSteps
  <2>1. CASE q = r
    BY <1>2, <1>4, <2>0, <2>1 DEF IInv, RequestsInv, CreatesAlone
  <2>2. CASE q # r /\ p = r
    BY <1>2, <1>4, <2>0, <2>2 DEF IInv, RequestsInv, CreatesAlone
  <2>3. CASE q # r /\ p # r
    BY <1>2, <1>4, <2>0, <2>3 DEF IInv, RequestsInv, CreatesAlone
  <2> QED BY <2>1, <2>2, <2>3
<1>5. ASSUME NEW q \in Requests, req'[q].step \in CreateSteps PROVE row'[req'[q].share] = "none"
  <2>0. \A x \in Requests : req[x].step \in CreateSteps => req[x].share \in Shares
    BY DEF IInv, RequestsInv, RequestsHoldShares, ShareSteps
  <2> QED BY <1>2, <1>5, <2>0 DEF IInv, RequestsInv, CreatesAlone
<1>6. CreatesAlone'
  BY <1>4, <1>5 DEF CreatesAlone
<1> QED BY <1>1, <1>3, <1>6 DEF RequestsInv

LEMMA GotoFacts ==
    ASSUME IInv, NEW r \in Requests, NEW step \in Steps, Goto(r, step)
    PROVE  \E new \in Request : /\ req' = [req EXCEPT ![r] = new]
                                /\ new.step = step /\ new.share = req[r].share
<1> DEFINE new == [req[r] EXCEPT !.step = step]
<1>1. req[r] \in Request
  BY DEF IInv, TypeOK, Request
<1>2. new \in Request /\ new.step = step /\ new.share = req[r].share
  BY <1>1 DEF Request
<1>3. req' = [req EXCEPT ![r] = new]
  BY DEF Goto
<1> HIDE DEF new
<1> QED BY <1>2, <1>3

LEMMA EndInv ==
    ASSUME IInv, NEW r \in Requests, End(r),
           \A s \in Shares : row[s] = "none" => row'[s] = "none" \/ s = req[r].share
    PROVE  req' \in [Requests -> Request] /\ RequestsInv'
BY IdleFacts, RequestStepInv DEF End, ShareSteps, CreateSteps

\* From one step on a share to another one, backwards never.
LEMMA GotoInv ==
    ASSUME IInv, NEW r \in Requests, NEW step \in ShareSteps, Goto(r, step),
           req[r].step \in ShareSteps,
           \A s \in Shares : row[s] = "none" => row'[s] = "none" \/ s = req[r].share,
           step \in CreateSteps => req[r].step \in CreateSteps /\ row'[req[r].share] = "none"
    PROVE  req' \in [Requests -> Request] /\ RequestsInv'
<1>1. step \in Steps
  BY DEF Steps
<1>2. PICK new \in Request : /\ req' = [req EXCEPT ![r] = new]
                             /\ new.step = step /\ new.share = req[r].share
  BY <1>1, GotoFacts
<1>3. req[r].share \in Shares
  BY DEF IInv, RequestsInv, RequestsHoldShares
<1> QED BY <1>2, <1>3, RequestStepInv

-----------------------------------------------------------------------------
\* Steps of requests that leave everything else alone.
LEMMA QuietStepInv ==
    ASSUME IInv, UNCHANGED <<access, shareVars, fileVars, now>>,
           req' \in [Requests -> Request], RequestsInv'
    PROVE  IInv'
<1>1. TypeOK'
  BY DEF IInv, TypeOK, AccessTypeOK, access, shareVars, fileVars, Request
<1>2. SessionsHoldShares' /\ NoDormantGrants' /\ LiveSharesBacked'
  BY DEF IInv, SessionsHoldShares, NoDormantGrants, LiveSharesBacked, IsMember, Exists, Live,
         Creator, MountOf, access, shareVars
<1> QED BY <1>1, <1>2 DEF IInv

LEMMA QuietGoto ==
    ASSUME IInv, NEW r \in Requests, NEW step \in ShareSteps, Goto(r, step) \/ End(r),
           req[r].step \in ShareSteps, step \in CreateSteps => req[r].step \in CreateSteps,
           UNCHANGED <<access, shareVars, fileVars, now>>
    PROVE  IInv'
<1>1. UNCHANGED row
  BY DEF shareVars
<1>2. step \in CreateSteps => row'[req[r].share] = "none"
  BY <1>1 DEF IInv, RequestsInv, CreatesAlone
<1>3. CASE Goto(r, step)
  BY <1>1, <1>2, <1>3, GotoInv, QuietStepInv
<1>4. CASE End(r)
  BY <1>1, <1>4, EndInv, QuietStepInv
<1> QED BY <1>3, <1>4

LEMMA LoadMountInv == ASSUME IInv, NEW r \in Requests, LoadMount(r) PROVE IInv'
<1> DEFINE step == AfterLoad[req[r].step]
<1>1. /\ req[r].step \in ShareSteps /\ step \in ShareSteps
      /\ step \in CreateSteps => req[r].step \in CreateSteps
  BY DEF LoadMount, AfterLoad, ShareSteps, CreateSteps
<1>2. (Goto(r, step) \/ End(r)) /\ UNCHANGED <<access, shareVars, fileVars, now>>
  BY DEF LoadMount, GotoIf
<1> HIDE DEF step
<1> QED BY <1>1, <1>2, QuietGoto

LEMMA ReauthorizeInv == ASSUME IInv, NEW r \in Requests, Reauthorize(r) PROVE IInv'
<1>1. req[r].step \in ShareSteps /\ "undo" \in ShareSteps /\ "undo" \notin CreateSteps
  BY DEF Reauthorize, At, ShareSteps, CreateSteps
<1>2. (Goto(r, "undo") \/ End(r)) /\ UNCHANGED <<access, shareVars, fileVars, now>>
  BY DEF Reauthorize, GotoIf
<1> QED BY <1>1, <1>2, QuietGoto

LEMMA ServeInv == ASSUME IInv, NEW r \in Requests, Serve(r) \/ CutOff(r) PROVE IInv'
<1>1. End(r) /\ UNCHANGED <<access, shareVars, fileVars, now>> /\ UNCHANGED row
  BY DEF Serve, CutOff, shareVars
<1> QED BY <1>1, EndInv, QuietStepInv

LEMMA OpenFileInv == ASSUME IInv, NEW r \in Requests, OpenFile(r) PROVE IInv'
<1> DEFINE object == content[terms[req[r].share].place]
           new == [req[r] EXCEPT !.step = "count", !.object = object]
<1>0. UNCHANGED <<access, shareVars, fileVars, now>> /\ UNCHANGED row
  BY DEF OpenFile, shareVars
<1>1. CASE req' = [req EXCEPT ![r] = new]
  <2>1. req[r] \in Request /\ req[r].step = "open"
    BY DEF IInv, TypeOK, Request, OpenFile, At
  <2>2. req[r].share \in Shares
    BY <2>1 DEF IInv, RequestsInv, RequestsHoldShares, ShareSteps
  <2>3. object \in 0 .. MaxObjects
    BY <2>2 DEF IInv, TypeOK
  <2> HIDE DEF object
  <2>4. new \in Request /\ new.step = "count" /\ new.share = req[r].share
    BY <2>1, <2>3 DEF Request, Steps, ShareSteps
  <2> HIDE DEF new
  <2>5. "count" \notin CreateSteps
    BY DEF CreateSteps
  <2> QED BY <1>0, <1>1, <2>2, <2>4, <2>5, RequestStepInv, QuietStepInv
<1>2. CASE End(r)
  BY <1>0, <1>2, EndInv, QuietStepInv
<1> QED BY <1>1, <1>2 DEF OpenFile

LEMMA StartDownloadInv ==
    ASSUME IInv, NEW r \in Requests, NEW v \in Sessions, StartDownload(r, v) PROVE IInv'
<1> DEFINE s == session[v].share
           new == [Idle EXCEPT !.step = "downloadLoad", !.share = s]
<1>1. s \in Shares /\ row[s] # "none"
  <2>1. s \in Shares
    BY DEF IInv, TypeOK, SessionsHoldShares, StartDownload
  <2> QED BY <2>1 DEF StartDownload, Usable, Live
<1>2. /\ req' = [req EXCEPT ![r] = new]
      /\ UNCHANGED <<access, shareVars, fileVars, now>> /\ UNCHANGED row
  BY DEF StartDownload, shareVars
<1> HIDE DEF s
<1>3. new \in Request /\ new.step = "downloadLoad" /\ new.share = s
  BY <1>1, IdleFacts DEF Request, Steps, ShareSteps
<1> HIDE DEF new
<1>4. "downloadLoad" \notin CreateSteps
  BY DEF CreateSteps
<1> QED BY <1>1, <1>2, <1>3, <1>4, RequestStepInv, QuietStepInv

LEMMA StartSettingsInv ==
    ASSUME IInv, NEW r \in Requests, NEW m \in Mounts, NEW change \in Changes,
           StartSettings(r, m, change)
    PROVE  IInv'
<1> DEFINE public == CASE change = "on" -> TRUE [] change = "off" -> FALSE
                       [] OTHER -> mount[m].public
           new == [Idle EXCEPT !.step = "settings", !.mount = m, !.change = change,
                               !.public = public]
<1>1. public \in BOOLEAN
  BY DEF IInv, TypeOK, AccessTypeOK
<1>2. /\ req' = [req EXCEPT ![r] = new]
      /\ UNCHANGED <<access, shareVars, fileVars, now>> /\ UNCHANGED row
  BY DEF StartSettings, shareVars
<1> HIDE DEF public
<1>3. new \in Request /\ new.step = "settings" /\ new.share = NoShare
  BY <1>1, IdleFacts DEF Request, Steps
<1> HIDE DEF new
<1>4. "settings" \notin ShareSteps /\ "settings" \notin CreateSteps
  BY DEF ShareSteps, CreateSteps
<1> QED BY <1>2, <1>3, <1>4, RequestStepInv, QuietStepInv

-----------------------------------------------------------------------------
(* Steps of requests that change rows of shares.                           *)

LEMMA VerifyIdentityInv == ASSUME IInv, NEW r \in Requests, VerifyIdentity(r) PROVE IInv'
<1> DEFINE step == AfterIdentity[req[r].step]
<1>1. /\ req[r].step \in ShareSteps /\ step \in ShareSteps
      /\ step \in CreateSteps => req[r].step \in CreateSteps
  BY DEF VerifyIdentity, AfterIdentity, ShareSteps, CreateSteps
<1>2. UNCHANGED <<shareVars, fileVars, now>>
  BY DEF VerifyIdentity
<1>3. CASE Goto(r, step) /\ UNCHANGED access
  <2> HIDE DEF step
  <2> QED BY <1>1, <1>2, <1>3, QuietGoto
<1>4. CASE End(r) /\ MarkUnavailable(MountOf(req[r].share))
  <2>1. UNCHANGED row
    BY <1>2 DEF shareVars
  <2>2. PICK m \in Mounts : MarkUnavailable(m)
    <3>1. req[r].share \in Shares
      BY <1>1 DEF IInv, RequestsInv, RequestsHoldShares
    <3>2. MountOf(req[r].share) \in Mounts
      BY <3>1, PlacesFacts DEF IInv, TypeOK, MountOf
    <3> QED BY <1>4, <3>2
  <2>3. mount' \in [Mounts -> [status : {"none", "active", "unavailable", "deleted"}, public : BOOLEAN]]
        /\ \A n \in Mounts : mount'[n].status = "deleted" <=> mount[n].status = "deleted"
    <3> DEFINE status == IF mount[m].status = "active" THEN "unavailable" ELSE mount[m].status
    <3>1. mount' = [mount EXCEPT ![m] = [mount[m] EXCEPT !.status = status]]
      BY <2>2 DEF MarkUnavailable
    <3>2. mount \in [Mounts -> [status : {"none", "active", "unavailable", "deleted"}, public : BOOLEAN]]
      BY DEF IInv, TypeOK, AccessTypeOK
    <3>3. /\ status \in {"none", "active", "unavailable", "deleted"}
          /\ status = "deleted" <=> mount[m].status = "deleted"
      BY <3>2
    <3> HIDE DEF status
    <3>4. [mount[m] EXCEPT !.status = status]
             \in [status : {"none", "active", "unavailable", "deleted"}, public : BOOLEAN]
      BY <3>2, <3>3
    <3>5. mount'[m].status = status /\ \A n \in Mounts \ {m} : mount'[n] = mount[n]
      BY <3>1, <3>2
    <3> QED BY <3>1, <3>2, <3>3, <3>4, <3>5
  <2>4. AccessTypeOK'
    BY <2>2, <2>3 DEF MarkUnavailable, IInv, TypeOK, AccessTypeOK
  <2>5. NoDormantGrants'
    BY <2>2, <2>3 DEF MarkUnavailable, IInv, NoDormantGrants, IsMember, Exists
  <2>6. LiveSharesBacked'
    <3>1. \A s \in Shares : MountOf(s) \in Mounts
      BY PlacesFacts DEF IInv, TypeOK, MountOf
    <3> QED BY <1>2, <2>2, <2>3, <3>1
            DEF MarkUnavailable, IInv, LiveSharesBacked, Exists, Live, Creator, MountOf, shareVars
  <2>7. TypeOK' /\ RequestsInv'
    BY <1>2, <1>4, <2>1, <2>4, EndInv DEF IInv, TypeOK, shareVars, fileVars, Request
  <2>8. SessionsHoldShares'
    BY <1>2 DEF IInv, SessionsHoldShares, shareVars
  <2> QED BY <2>5, <2>6, <2>7, <2>8 DEF IInv
<1> QED BY <1>2, <1>3, <1>4 DEF VerifyIdentity

LEMMA StartCreateInv ==
    ASSUME IInv, NEW r \in Requests, NEW s \in Shares, NEW a \in Accounts, NEW p \in Places,
           NEW limits \in Limits, NEW expires \in 1 .. MaxTime,
           StartCreate(r, s, a, p, limits, expires)
    PROVE  IInv'
<1> DEFINE new == [Idle EXCEPT !.step = "createLoad", !.share = s]
           t == [by |-> a, place |-> p, expires |-> expires, limits |-> limits, object |-> 0]
<1>1. /\ req' = [req EXCEPT ![r] = new] /\ terms' = [terms EXCEPT ![s] = t]
      /\ row[s] = "none" /\ \A q \in Requests : req[q].share # s
      /\ UNCHANGED <<access, row, uses, session, fileVars, now>>
  BY DEF StartCreate
<1>2. new \in Request /\ new.step = "createLoad" /\ new.share = s
  BY IdleFacts DEF Request, Steps, ShareSteps, CreateSteps
<1>3. t \in Terms
  BY DEF Terms, Limits, Counts
<1> HIDE DEF new, t
<1>4. req' \in [Requests -> Request] /\ RequestsInv'
  BY <1>1, <1>2, RequestStepInv
<1>5. TypeOK'
  BY <1>1, <1>3, <1>4 DEF IInv, TypeOK, AccessTypeOK, access, fileVars, Request, Terms
<1>6. LiveSharesBacked'
  BY <1>1 DEF IInv, TypeOK, LiveSharesBacked, Live, Creator, MountOf, Exists, access
<1>7. SessionsHoldShares' /\ NoDormantGrants'
  BY <1>1 DEF IInv, SessionsHoldShares, NoDormantGrants, IsMember, Exists, access
<1> QED BY <1>4, <1>5, <1>6, <1>7 DEF IInv

LEMMA CheckTargetInv == ASSUME IInv, NEW r \in Requests, CheckTarget(r) PROVE IInv'
<1> DEFINE s == req[r].share
           t == [terms[s] EXCEPT !.object = content[terms[s].place]]
<1>1. s \in Shares /\ row[s] = "none" /\ req[r].step \in CreateSteps
  BY DEF CheckTarget, At, IInv, RequestsInv, RequestsHoldShares, CreatesAlone, ShareSteps,
         CreateSteps
<1>2. /\ terms' = [terms EXCEPT ![s] = t]
      /\ Goto(r, "insert") \/ End(r)
      /\ UNCHANGED <<access, row, uses, session, fileVars, now>>
  BY <1>1 DEF CheckTarget, GotoIf, IInv, TypeOK
<1>3. t \in Terms
  <2>1. terms[s] \in Terms /\ content[terms[s].place] \in 0 .. MaxObjects
    BY <1>1 DEF IInv, TypeOK, Terms
  <2> QED BY <2>1 DEF Terms
<1> HIDE DEF t
<1>4. req' \in [Requests -> Request] /\ RequestsInv'
  <2>1. "insert" \in ShareSteps /\ CreateSteps \subseteq ShareSteps
    BY DEF ShareSteps, CreateSteps
  <2> QED BY <1>1, <1>2, <2>1, GotoInv, EndInv
<1>5. TypeOK'
  BY <1>2, <1>3, <1>4 DEF IInv, TypeOK, AccessTypeOK, access, fileVars, Request, Terms
<1>6. LiveSharesBacked'
  BY <1>1, <1>2 DEF IInv, TypeOK, LiveSharesBacked, Live, Creator, MountOf, Exists, access
<1>7. SessionsHoldShares' /\ NoDormantGrants'
  BY <1>2 DEF IInv, SessionsHoldShares, NoDormantGrants, IsMember, Exists, access
<1> QED BY <1>4, <1>5, <1>6, <1>7 DEF IInv

\* The conditions of INSERT ... SELECT are what keeps the share backed.
LEMMA InsertShareInv == ASSUME IInv, NEW r \in Requests, InsertShare(r) PROVE IInv'
<1> DEFINE s == req[r].share
<1>1. s \in Shares /\ row[s] = "none" /\ req[r].step \in ShareSteps
  BY DEF InsertShare, At, IInv, RequestsInv, RequestsHoldShares, CreatesAlone, ShareSteps,
         CreateSteps
<1>2. UNCHANGED <<access, terms, uses, session, fileVars, now>>
  BY DEF InsertShare
<1>3. CASE CanShare(Creator(s), MountOf(s)) /\ row' = [row EXCEPT ![s] = "live"]
           /\ Goto(r, "reauthorize")
  <2>1. \A x \in Shares : x # s => row'[x] = row[x]
    BY <1>3 DEF IInv, TypeOK
  <2>2. req' \in [Requests -> Request] /\ RequestsInv'
    <3>1. "reauthorize" \in ShareSteps /\ "reauthorize" \notin CreateSteps
      BY DEF ShareSteps, CreateSteps
    <3> QED BY <1>1, <1>3, <2>1, <3>1, GotoInv
  <2>3. TypeOK'
    BY <1>2, <1>3, <2>2 DEF IInv, TypeOK, AccessTypeOK, access, fileVars, Request
  <2>4. LiveSharesBacked'
    BY <1>2, <1>3, <2>1 DEF IInv, LiveSharesBacked, CanShare, Live, Creator, MountOf, Exists, access
  <2>5. SessionsHoldShares' /\ NoDormantGrants'
    BY <1>2 DEF IInv, SessionsHoldShares, NoDormantGrants, IsMember, Exists, access
  <2> QED BY <2>2, <2>3, <2>4, <2>5 DEF IInv
<1>4. CASE UNCHANGED row /\ End(r)
  BY <1>2, <1>4, EndInv, QuietStepInv DEF shareVars
<1> QED BY <1>3, <1>4 DEF InsertShare

-----------------------------------------------------------------------------
(* Revocation.                                                             *)

LEMMA RevokeFacts ==
    ASSUME TypeOK, NEW which, RevokeShares(which)
    PROVE  /\ row' \in [Shares -> RowStates]
           /\ \A s \in Shares : /\ row[s] = "none" <=> row'[s] = "none"
                                /\ row'[s] = "live" => row[s] = "live" /\ s \notin which
BY DEF TypeOK, RevokeShares, Live, RowStates

\* Revocation by a request that ends with it.
LEMMA RevokeStepInv ==
    ASSUME IInv, NEW r \in Requests, NEW which, RevokeShares(which), End(r),
           UNCHANGED <<access, terms, uses, session, fileVars, now>>
    PROVE  IInv'
<1>1. /\ row' \in [Shares -> RowStates]
      /\ \A s \in Shares : /\ row[s] = "none" <=> row'[s] = "none"
                           /\ row'[s] = "live" => row[s] = "live" /\ s \notin which
  BY RevokeFacts DEF IInv
<1>2. req' \in [Requests -> Request] /\ RequestsInv'
  BY <1>1, EndInv
<1>3. TypeOK'
  BY <1>1, <1>2 DEF IInv, TypeOK, AccessTypeOK, access, fileVars, Request, RowStates
<1>4. LiveSharesBacked'
  BY <1>1 DEF IInv, LiveSharesBacked, Live, Creator, MountOf, Exists, access
<1>5. SessionsHoldShares' /\ NoDormantGrants'
  BY DEF IInv, SessionsHoldShares, NoDormantGrants, IsMember, Exists, access
<1> QED BY <1>2, <1>3, <1>4, <1>5 DEF IInv

LEMMA UndoShareInv == ASSUME IInv, NEW r \in Requests, UndoShare(r) \/ RevokePath(r) PROVE IInv'
BY RevokeStepInv DEF UndoShare, RevokePath

\* What a share relies on that a has created on m.
Backing(a, m) ==
    account[a] = "active" /\ member[a] = "manager" /\ grant[m][a] = "manager" /\ Exists(m)

LEMMA SharesBackedBy ==
    ASSUME TypeOK
    PROVE  /\ \A s \in Shares : Creator(s) \in Accounts /\ MountOf(s) \in Mounts
           /\ LiveSharesBacked <=> \A s \in Shares : Live(s) => Backing(Creator(s), MountOf(s))
BY PlacesFacts DEF TypeOK, Creator, MountOf, LiveSharesBacked, Backing

\* What is left to show of a transaction that changes rights: it leaves no
\* grant dormant, and keeps what the shares rely on that it does not revoke.
LEMMA RightsInv ==
    ASSUME IInv, UNCHANGED <<terms, uses, session, fileVars, now>>,
           UNCHANGED req \/ \E r \in Requests : End(r),
           NEW which, RevokeShares(which),
           AccessTypeOK', NoDormantGrants',
           \A s \in Shares \ which, a \in Accounts, m \in Mounts :
                a = Creator(s) /\ m = MountOf(s) /\ Backing(a, m) => Backing(a, m)'
    PROVE  IInv'
<1>1. /\ row' \in [Shares -> RowStates]
      /\ \A s \in Shares : /\ row[s] = "none" <=> row'[s] = "none"
                           /\ row'[s] = "live" => row[s] = "live" /\ s \notin which
  BY RevokeFacts DEF IInv
<1>2. req' \in [Requests -> Request] /\ RequestsInv'
  <2>1. CASE UNCHANGED req
    <3>1. \A r \in Requests : req[r].step \in CreateSteps => req[r].share \in Shares
      BY DEF IInv, RequestsInv, RequestsHoldShares, ShareSteps
    <3> QED BY <1>1, <2>1, <3>1
            DEF IInv, TypeOK, Request, RequestsInv, RequestsHoldShares, CreatesAlone
  <2>2. ASSUME NEW r \in Requests, End(r) PROVE req' \in [Requests -> Request] /\ RequestsInv'
    BY <1>1, <2>2, EndInv
  <2> QED BY <2>1, <2>2
<1>3. TypeOK'
  BY <1>1, <1>2 DEF IInv, TypeOK, fileVars, Request, RowStates
<1>4. LiveSharesBacked'
  <2> SUFFICES ASSUME NEW s \in Shares, Live(s)'
               PROVE  Backing(Creator(s), MountOf(s))'
    BY DEF LiveSharesBacked, Backing
  <2>1. /\ Creator(s) \in Accounts /\ MountOf(s) \in Mounts
        /\ Live(s) => Backing(Creator(s), MountOf(s))
    BY SharesBackedBy DEF IInv
  <2>2. PICK a \in Accounts, m \in Mounts : a = Creator(s) /\ m = MountOf(s) /\ Backing(a, m)
    BY <1>1, <2>1 DEF Live
  <2>3. s \notin which
    BY <1>1 DEF Live
  <2>4. Backing(a, m)' /\ Creator(s)' = a /\ MountOf(s)' = m
    BY <2>2, <2>3 DEF Creator, MountOf
  <2> QED BY <2>4 DEF Backing, Exists
<1>5. SessionsHoldShares'
  BY DEF IInv, SessionsHoldShares
<1> QED BY <1>2, <1>3, <1>4, <1>5 DEF IInv

-----------------------------------------------------------------------------
(* The endpoints of administrators, one by one.                            *)

LEMMA RevokeNone == ASSUME IInv, UNCHANGED row PROVE RevokeShares({})
BY DEF IInv, TypeOK, RevokeShares

LEMMA EnableUserInv == ASSUME IInv, NEW b \in Accounts, EnableUser(b) PROVE IInv'
<1>1. /\ UNCHANGED <<member, grant, mount, row, terms, uses, session, fileVars, now, req>>
      /\ account' = [account EXCEPT ![b] = "active"]
  BY DEF EnableUser, SetUserEnabled, shareVars
<1>2. AccessTypeOK' /\ NoDormantGrants'
  BY <1>1 DEF IInv, TypeOK, AccessTypeOK, NoDormantGrants, IsMember, Exists
<1>3. \A a \in Accounts, m \in Mounts : Backing(a, m) => Backing(a, m)'
  BY <1>1 DEF Backing, Exists, IInv, TypeOK, AccessTypeOK
<1>4. RevokeShares({})
  BY <1>1, RevokeNone
<1> QED BY <1>1, <1>2, <1>3, <1>4, RightsInv

LEMMA DisableUserInv == ASSUME IInv, NEW b \in Accounts, DisableUser(b) PROVE IInv'
<1>1. /\ UNCHANGED <<member, grant, mount, terms, uses, session, fileVars, now, req>>
      /\ account' = [account EXCEPT ![b] = "disabled"] /\ RevokeShares(SharesOf(b))
  BY DEF DisableUser, SetUserEnabled
<1>2. AccessTypeOK' /\ NoDormantGrants'
  BY <1>1 DEF IInv, TypeOK, AccessTypeOK, NoDormantGrants, IsMember, Exists
<1>3. ASSUME NEW s \in Shares \ SharesOf(b), NEW a \in Accounts, NEW m \in Mounts,
             a = Creator(s), Backing(a, m)
      PROVE  Backing(a, m)'
  BY <1>1, <1>3 DEF Backing, Exists, SharesOf
<1> QED BY <1>1, <1>2, <1>3, RightsInv

LEMMA SetMemberInv ==
    ASSUME IInv, NEW b \in Accounts, NEW permission \in Permissions, SetMember(b, permission)
    PROVE  IInv'
<1> DEFINE which == IF permission = "manager" THEN {} ELSE SharesOf(b)
<1>1. /\ UNCHANGED <<account, grant, mount, terms, uses, session, fileVars, now, req>>
      /\ member' = [member EXCEPT ![b] = permission]
      /\ RevokeShares(which)
  BY DEF SetMember, PutMember
<1>2. AccessTypeOK' /\ NoDormantGrants'
  BY <1>1 DEF IInv, TypeOK, AccessTypeOK, NoDormantGrants, IsMember, Exists, Held, Permissions
<1>3. ASSUME NEW s \in Shares \ which, NEW a \in Accounts, NEW m \in Mounts,
             a = Creator(s), Backing(a, m)
      PROVE  Backing(a, m)'
  BY <1>1, <1>3 DEF Backing, Exists, SharesOf, IInv, TypeOK, AccessTypeOK
<1> HIDE DEF which
<1> QED BY <1>1, <1>2, <1>3, RightsInv

LEMMA RemoveMemberInv == ASSUME IInv, NEW b \in Accounts, RemoveMember(b) PROVE IInv'
<1>1. /\ UNCHANGED <<account, mount, terms, uses, session, fileVars, now, req>>
      /\ member' = [member EXCEPT ![b] = "none"]
      /\ grant' = [m \in Mounts |-> [grant[m] EXCEPT ![b] = "none"]]
      /\ RevokeShares(SharesOf(b))
  BY DEF RemoveMember, DeleteMember
<1>2. \A m \in Mounts, a \in Accounts : grant'[m][a] = IF a = b THEN "none" ELSE grant[m][a]
  BY <1>1 DEF IInv, TypeOK, AccessTypeOK
<1>3. AccessTypeOK'
  BY <1>1 DEF IInv, TypeOK, AccessTypeOK, Held
<1>4. NoDormantGrants'
  BY <1>1, <1>2 DEF IInv, TypeOK, AccessTypeOK, NoDormantGrants, IsMember, Exists
<1>5. ASSUME NEW s \in Shares \ SharesOf(b), NEW a \in Accounts, NEW m \in Mounts,
             a = Creator(s), Backing(a, m)
      PROVE  Backing(a, m)'
  BY <1>1, <1>2, <1>5 DEF Backing, Exists, SharesOf
<1> QED BY <1>1, <1>3, <1>4, <1>5, RightsInv

\* One grant changed, and the shares that relied on it revoked.
LEMMA GrantChangeInv ==
    ASSUME IInv, NEW n \in Mounts, NEW b \in Accounts, NEW permission \in Held, NEW which,
           Exists(n), permission # "none" => IsMember(b),
           grant' = [grant EXCEPT ![n][b] = permission],
           permission # "manager" => SharesOf(b) \cap SharesOn(n) \subseteq which,
           RevokeShares(which),
           UNCHANGED <<account, member, mount, terms, uses, session, fileVars, now, req>>
    PROVE  IInv'
<1>1. \A m \in Mounts, a \in Accounts :
        grant'[m][a] = IF m = n /\ a = b THEN permission ELSE grant[m][a]
  BY DEF IInv, TypeOK, AccessTypeOK
<1>2. AccessTypeOK'
  <2>1. [grant[n] EXCEPT ![b] = permission] \in [Accounts -> Held]
    BY DEF IInv, TypeOK, AccessTypeOK
  <2>2. grant' \in [Mounts -> [Accounts -> Held]]
    BY <2>1 DEF IInv, TypeOK, AccessTypeOK
  <2> QED BY <2>2 DEF IInv, TypeOK, AccessTypeOK
<1>3. NoDormantGrants'
  BY <1>1 DEF IInv, NoDormantGrants, IsMember, Exists
<1>4. ASSUME NEW s \in Shares \ which, NEW a \in Accounts, NEW m \in Mounts,
             a = Creator(s), m = MountOf(s), Backing(a, m)
      PROVE  Backing(a, m)'
  <2>1. m = n /\ a = b => permission = "manager"
    BY <1>4 DEF SharesOf, SharesOn
  <2> QED BY <1>1, <1>4, <2>1 DEF Backing, Exists
<1> QED BY <1>2, <1>3, <1>4, RightsInv

LEMMA GrantsInv ==
    ASSUME IInv, NEW m \in Mounts, NEW a \in Accounts,
           \/ \E permission \in Permissions : SetGrant(m, a, permission)
           \/ RemoveGrant(m, a)
    PROVE  IInv'
<1>1. ASSUME NEW permission \in Permissions, SetGrant(m, a, permission) PROVE IInv'
  <2> DEFINE new == IF Grantable(m, a) THEN permission ELSE "none"
             which == IF Grantable(m, a) /\ permission = "manager" /\ member[a] = "manager"
                      THEN {} ELSE SharesOf(a) \cap SharesOn(m)
  <2>1. /\ grant' = [grant EXCEPT ![m][a] = new] /\ Exists(m)
        /\ RevokeShares(which)
        /\ UNCHANGED <<account, member, mount, terms, uses, session, fileVars, now, req>>
    BY <1>1 DEF SetGrant, PutGrant
  <2>2. new \in Held /\ (new # "none" => IsMember(a))
    BY DEF Held, Grantable
  <2>3. new # "manager" => SharesOf(a) \cap SharesOn(m) \subseteq which
    OBVIOUS
  <2> HIDE DEF new, which
  <2> QED BY <2>1, <2>2, <2>3, GrantChangeInv
<1>2. CASE RemoveGrant(m, a)
  BY <1>2, GrantChangeInv DEF RemoveGrant, DeleteGrant, Held
<1> QED BY <1>1, <1>2

LEMMA GrantAtStartInv == ASSUME IInv, NEW m \in Mounts, GrantAtStart(m) PROVE IInv'
<1>1. UNCHANGED row
  BY DEF GrantAtStart, shareVars
<1>2. IsMember(Owner)
  BY DEF GrantAtStart, AutoGrant, IsMember
<1> QED BY <1>1, <1>2, RevokeNone, GrantChangeInv
        DEF GrantAtStart, AutoGrant, shareVars, Held, Permissions

LEMMA DeleteMountInv == ASSUME IInv, NEW n \in Mounts, DeleteMount(n) PROVE IInv'
<1>1. /\ UNCHANGED <<account, member, terms, uses, session, fileVars, now, req>>
      /\ mount' = [mount EXCEPT ![n] = [mount[n] EXCEPT !.status = "deleted"]]
      /\ grant' = [grant EXCEPT ![n] = [a \in Accounts |-> "none"]]
      /\ RevokeShares(SharesOn(n))
  BY DEF DeleteMount, SoftDeleteMount
<1>2. \A m \in Mounts : m # n => grant'[m] = grant[m] /\ mount'[m] = mount[m]
  BY <1>1 DEF IInv, TypeOK, AccessTypeOK
<1>3. AccessTypeOK'
  <2>1. [mount[n] EXCEPT !.status = "deleted"]
            \in [status : {"none", "active", "unavailable", "deleted"}, public : BOOLEAN]
    <3>1. mount[n] \in [status : {"none", "active", "unavailable", "deleted"}, public : BOOLEAN]
      BY DEF IInv, TypeOK, AccessTypeOK
    <3> QED BY <3>1
  <2>2. mount' \in [Mounts -> [status : {"none", "active", "unavailable", "deleted"}, public : BOOLEAN]]
    BY <1>1, <2>1 DEF IInv, TypeOK, AccessTypeOK
  <2> QED BY <1>1, <2>2 DEF IInv, TypeOK, AccessTypeOK, Held
<1>4. NoDormantGrants'
  BY <1>1, <1>2 DEF IInv, TypeOK, AccessTypeOK, NoDormantGrants, IsMember, Exists
<1>5. ASSUME NEW s \in Shares \ SharesOn(n), NEW a \in Accounts, NEW m \in Mounts,
             m = MountOf(s), Backing(a, m)
      PROVE  Backing(a, m)'
  <2>1. m # n
    BY <1>5 DEF SharesOn
  <2> QED BY <1>1, <1>2, <1>5, <2>1 DEF Backing, Exists
<1> QED BY <1>1, <1>3, <1>4, <1>5, RightsInv

\* A mount that changes without being deleted takes nothing away that a share
\* that is not revoked relies on.
LEMMA MountChangeInv ==
    ASSUME IInv, NEW which, RevokeShares(which),
           UNCHANGED <<account, member, grant, terms, uses, session, fileVars, now>>,
           UNCHANGED req \/ \E r \in Requests : End(r),
           mount' \in [Mounts -> [status : {"none", "active", "unavailable", "deleted"}, public : BOOLEAN]],
           \A n \in Mounts : Exists(n) => Exists(n)'
    PROVE  IInv'
<1>1. AccessTypeOK' /\ NoDormantGrants'
  BY DEF IInv, TypeOK, AccessTypeOK, NoDormantGrants, IsMember
<1>2. \A a \in Accounts, m \in Mounts : Backing(a, m) => Backing(a, m)'
  BY DEF Backing
<1> QED BY <1>1, <1>2, RightsInv

LEMMA ReverifyInv == ASSUME IInv, NEW m \in Mounts, Reverify(m) PROVE IInv'
<1>1. /\ mount' = [mount EXCEPT ![m].status = "active"]
      /\ UNCHANGED <<account, member, grant, shareVars, fileVars, now, req>>
  BY DEF Reverify, ReverifyMount
<1>2. mount' = [mount EXCEPT ![m] = [mount[m] EXCEPT !.status = "active"]]
  BY <1>1
<1>3. mount \in [Mounts -> [status : {"none", "active", "unavailable", "deleted"}, public : BOOLEAN]]
  BY DEF IInv, TypeOK, AccessTypeOK
<1>4. [mount[m] EXCEPT !.status = "active"]
         \in [status : {"none", "active", "unavailable", "deleted"}, public : BOOLEAN]
  BY <1>3
<1>5. mount' \in [Mounts -> [status : {"none", "active", "unavailable", "deleted"}, public : BOOLEAN]]
  BY <1>2, <1>3, <1>4
<1>6. \A n \in Mounts : Exists(n) => Exists(n)'
  BY <1>2, <1>3 DEF Exists
<1>7. RevokeShares({})
  BY <1>1, RevokeNone DEF shareVars
<1> QED BY <1>1, <1>5, <1>6, <1>7, MountChangeInv DEF shareVars

LEMMA UpdateSettingsInv == ASSUME IInv, NEW r \in Requests, UpdateSettings(r) PROVE IInv'
<1> DEFINE m == req[r].mount
           which == IF req[r].change = "off" THEN SharesOn(m) ELSE {}
<1>1. End(r) /\ UNCHANGED <<terms, uses, session, fileVars, now>>
  BY DEF UpdateSettings
<1>2. CASE WriteSettings(m, req[r].public) /\ RevokeShares(which)
  <2>1. req[r].public \in BOOLEAN /\ m \in Mounts
    BY DEF IInv, TypeOK
  <2>2. /\ mount' = [mount EXCEPT ![m] = [mount[m] EXCEPT !.public = req[r].public]]
        /\ UNCHANGED <<account, member, grant>>
    BY <1>2 DEF WriteSettings
  <2>3. mount \in [Mounts -> [status : {"none", "active", "unavailable", "deleted"}, public : BOOLEAN]]
    BY DEF IInv, TypeOK, AccessTypeOK
  <2> HIDE DEF m
  <2>4. [mount[m] EXCEPT !.public = req[r].public]
           \in [status : {"none", "active", "unavailable", "deleted"}, public : BOOLEAN]
    BY <2>1, <2>3
  <2>5. mount' \in [Mounts -> [status : {"none", "active", "unavailable", "deleted"}, public : BOOLEAN]]
    BY <2>1, <2>2, <2>3, <2>4
  <2>6. \A n \in Mounts : Exists(n) => Exists(n)'
    BY <2>1, <2>2, <2>3 DEF Exists
  <2> HIDE DEF which
  <2> QED BY <1>1, <1>2, <2>2, <2>5, <2>6, MountChangeInv
<1>3. CASE UNCHANGED <<access, row>>
  BY <1>1, <1>3, EndInv, QuietStepInv DEF shareVars
<1> QED BY <1>2, <1>3 DEF UpdateSettings

\* Revocations that are asked for.
LEMMA RevokeInv ==
    ASSUME IInv, \/ \E s \in Shares : RevokeShare(s)
                 \/ \E a \in Accounts : RevokeOwnShares(a)
    PROVE  IInv'
<1>1. PICK which : RevokeShares(which)
  BY DEF RevokeShare, RevokeOwnShares
<1>2. UNCHANGED <<access, terms, uses, session, fileVars, now, req>>
  BY DEF RevokeShare, RevokeOwnShares
<1>3. mount' \in [Mounts -> [status : {"none", "active", "unavailable", "deleted"}, public : BOOLEAN]]
      /\ \A n \in Mounts : Exists(n) => Exists(n)'
  BY <1>2 DEF IInv, TypeOK, AccessTypeOK, Exists, access
<1> QED BY <1>1, <1>2, <1>3, MountChangeInv DEF access

-----------------------------------------------------------------------------
(* Visitors, files and the clock.                                          *)

\* Steps that change neither rights nor shares, nor what requests stand at.
LEMMA RightsUntouched ==
    ASSUME IInv, UNCHANGED <<access, row, terms>>
    PROVE  NoDormantGrants' /\ LiveSharesBacked' /\ AccessTypeOK'
BY DEF IInv, TypeOK, AccessTypeOK, NoDormantGrants, LiveSharesBacked, IsMember, Exists, Live,
       Creator, MountOf, access

LEMMA RequestsUntouched == ASSUME IInv, UNCHANGED <<row, req>> PROVE RequestsInv'
BY DEF IInv, RequestsInv, RequestsHoldShares, CreatesAlone

LEMMA UseTyped ==
    ASSUME TypeOK, NEW s \in Shares,
           \/ /\ uses[s].visits < terms[s].limits.visits
              /\ uses' = [uses EXCEPT ![s].visits = @ + 1]
           \/ /\ uses[s].downloads < terms[s].limits.downloads
              /\ uses' = [uses EXCEPT ![s].downloads = @ + 1]
    PROVE  uses' \in [Shares -> Counts]
<1>1. uses[s] \in Counts /\ terms[s].limits \in Counts
  BY DEF TypeOK
<1>2. CASE /\ uses[s].visits < terms[s].limits.visits
           /\ uses' = [uses EXCEPT ![s].visits = @ + 1]
  <2>1. [uses[s] EXCEPT !.visits = @ + 1] \in Counts
    BY <1>1, <1>2 DEF Counts
  <2>2. uses' = [uses EXCEPT ![s] = [uses[s] EXCEPT !.visits = @ + 1]]
    BY <1>2
  <2> HIDE DEF Counts
  <2> QED BY <2>1, <2>2 DEF TypeOK
<1>3. CASE /\ uses[s].downloads < terms[s].limits.downloads
           /\ uses' = [uses EXCEPT ![s].downloads = @ + 1]
  <2>1. [uses[s] EXCEPT !.downloads = @ + 1] \in Counts
    BY <1>1, <1>3 DEF Counts
  <2>2. uses' = [uses EXCEPT ![s] = [uses[s] EXCEPT !.downloads = @ + 1]]
    BY <1>3
  <2> QED BY <2>1, <2>2 DEF TypeOK
<1> QED BY <1>2, <1>3

LEMMA ExchangeInv ==
    ASSUME IInv, NEW s \in Shares, NEW v \in Sessions, Exchange(s, v) PROVE IInv'
<1> DEFINE expires == Earlier(now + SessionTTL, terms[s].expires)
           new == [share |-> s, expires |-> expires]
<1>1. /\ UNCHANGED <<access, row, terms, fileVars, now, req>>
      /\ session' = [session EXCEPT ![v] = new]
      /\ uses[s].visits < terms[s].limits.visits
      /\ uses' = [uses EXCEPT ![s].visits = @ + 1]
  BY DEF Exchange
<1>2. expires \in 0 .. MaxTime
  BY DEF IInv, TypeOK, Earlier
<1>3. session' \in [Sessions -> [share : Shares \cup {NoShare}, expires : 0 .. MaxTime]]
  <2>1. new \in [share : Shares \cup {NoShare}, expires : 0 .. MaxTime]
    BY <1>2
  <2> QED BY <1>1, <2>1 DEF IInv, TypeOK
<1>4. SessionsHoldShares'
  <2>1. new.share # NoShare
    BY NoShareAssumption
  <2> HIDE DEF new
  <2> QED BY <1>1, <2>1 DEF IInv, TypeOK, SessionsHoldShares
<1>5. uses' \in [Shares -> Counts]
  BY <1>1, UseTyped DEF IInv
<1>6. TypeOK'
  BY <1>1, <1>3, <1>5, RightsUntouched DEF IInv, TypeOK, fileVars
<1> QED BY <1>1, <1>4, <1>6, RightsUntouched, RequestsUntouched DEF IInv

LEMMA CountDownloadInv == ASSUME IInv, NEW r \in Requests, CountDownload(r) PROVE IInv'
<1> DEFINE s == req[r].share
<1>1. s \in Shares /\ req[r].step \in ShareSteps
  BY DEF CountDownload, At, IInv, RequestsInv, RequestsHoldShares, ShareSteps
<1>2. UNCHANGED <<access, row, terms, session, fileVars, now>>
  BY DEF CountDownload
<1>3. uses' \in [Shares -> Counts]
  BY <1>1, UseTyped DEF CountDownload, IInv, TypeOK
<1>4. req' \in [Requests -> Request] /\ RequestsInv'
  <2>1. "serve" \in ShareSteps /\ "serve" \notin CreateSteps
    BY DEF ShareSteps, CreateSteps
  <2>2. Goto(r, "serve") \/ End(r)
    BY DEF CountDownload
  <2> QED BY <1>1, <1>2, <2>1, <2>2, GotoInv, EndInv
<1>5. TypeOK'
  BY <1>2, <1>3, <1>4, RightsUntouched DEF IInv, TypeOK, fileVars, Request
<1>6. SessionsHoldShares'
  BY <1>2 DEF IInv, SessionsHoldShares
<1> QED BY <1>2, <1>4, <1>5, <1>6, RightsUntouched DEF IInv

LEMMA ExpireSessionsInv == ASSUME IInv, ExpireSessions PROVE IInv'
<1>1. UNCHANGED <<access, row, terms, uses, fileVars, now, req>>
  BY DEF ExpireSessions
<1>2. /\ session' \in [Sessions -> [share : Shares \cup {NoShare}, expires : 0 .. MaxTime]]
      /\ SessionsHoldShares'
  BY DEF ExpireSessions, IInv, TypeOK, SessionsHoldShares, NoSession
<1>3. TypeOK'
  BY <1>1, <1>2, RightsUntouched DEF IInv, TypeOK, fileVars
<1> QED BY <1>1, <1>2, <1>3, RightsUntouched, RequestsUntouched DEF IInv

LEMMA FilesInv == ASSUME IInv, Files \/ Tick PROVE IInv'
<1>1. UNCHANGED <<access, shareVars, req>>
  BY DEF Files, Upload, MoveObject, Tick
<1>2. /\ content' \in [Places -> 0 .. MaxObjects] /\ objects' \in 0 .. MaxObjects
      /\ now' \in 0 .. MaxTime
  <2>1. CASE Tick
    BY <2>1 DEF Tick, IInv, TypeOK, fileVars
  <2>2. ASSUME NEW p \in Places, Upload(p)
        PROVE  content' \in [Places -> 0 .. MaxObjects] /\ objects' \in 0 .. MaxObjects
               /\ UNCHANGED now
    BY <2>2 DEF Upload, IInv, TypeOK
  <2>3. ASSUME NEW p \in Places, NEW q \in Places, MoveObject(p, q)
        PROVE  content' \in [Places -> 0 .. MaxObjects] /\ UNCHANGED <<objects, now>>
    BY <2>3 DEF MoveObject, IInv, TypeOK
  <2> QED BY <2>1, <2>2, <2>3 DEF Files, IInv, TypeOK
<1>3. TypeOK' /\ SessionsHoldShares'
  BY <1>1, <1>2, RightsUntouched DEF IInv, TypeOK, SessionsHoldShares, shareVars
<1> QED BY <1>1, <1>3, RightsUntouched, RequestsUntouched DEF IInv, shareVars

LEMMA StartDeleteInv ==
    ASSUME IInv, NEW r \in Requests, NEW p \in Places, StartDelete(r, p) PROVE IInv'
<1> DEFINE new == [Idle EXCEPT !.step = "revoke path", !.place = p]
<1>1. /\ req' = [req EXCEPT ![r] = new] /\ content' = [content EXCEPT ![p] = 0]
      /\ UNCHANGED <<access, shareVars, objects, now>> /\ UNCHANGED <<row, terms>>
  BY DEF StartDelete, shareVars
<1>2. new \in Request /\ new.step = "revoke path" /\ new.share = NoShare
  BY IdleFacts DEF Request, Steps
<1>3. "revoke path" \notin ShareSteps /\ "revoke path" \notin CreateSteps
  BY DEF ShareSteps, CreateSteps
<1> HIDE DEF new
<1>4. req' \in [Requests -> Request] /\ RequestsInv'
  BY <1>1, <1>2, <1>3, RequestStepInv
<1>5. TypeOK' /\ SessionsHoldShares'
  BY <1>1, <1>4, RightsUntouched DEF IInv, TypeOK, SessionsHoldShares, shareVars, Request
<1> QED BY <1>1, <1>4, <1>5, RightsUntouched DEF IInv

-----------------------------------------------------------------------------
LEMMA NextInv == ASSUME IInv, [Next]_vars PROVE IInv'
<1>1. ASSUME NEW r \in Requests, Start(r) PROVE IInv'
  BY <1>1, StartCreateInv, StartDownloadInv, StartSettingsInv, StartDeleteInv DEF Start
<1>2. ASSUME NEW r \in Requests, Advance(r) PROVE IInv'
  BY <1>2, LoadMountInv, VerifyIdentityInv, CheckTargetInv, InsertShareInv, ReauthorizeInv,
     UndoShareInv, OpenFileInv, CountDownloadInv, ServeInv, UpdateSettingsInv DEF Advance
<1>3. CASE Visitors
  BY <1>3, ExchangeInv, ExpireSessionsInv DEF Visitors
<1>4. CASE Administration
  BY <1>4, RevokeInv, EnableUserInv, DisableUserInv, RemoveMemberInv, SetMemberInv, GrantsInv,
     GrantAtStartInv, DeleteMountInv, ReverifyInv DEF Administration
<1>5. CASE UNCHANGED vars
  <2>1. UNCHANGED <<access, shareVars, fileVars, now>> /\ UNCHANGED <<row, req>>
    BY <1>5 DEF vars, shareVars
  <2> QED BY <2>1, RequestsUntouched, QuietStepInv DEF IInv, TypeOK, Request
<1> QED BY <1>1, <1>2, <1>3, <1>4, <1>5, FilesInv DEF Next

LEMMA Invariance == Spec => []IInv
BY InitInv, NextInv, PTL DEF Spec

THEOREM TypeCorrect == Spec => []TypeOK
BY Invariance, PTL DEF IInv

\* Only members of the space hold grants, and only on mounts that exist.
THEOREM GrantsNeverDormant == Spec => []NoDormantGrants
BY Invariance, PTL DEF IInv

\* For any number of accounts, mounts, links and requests, no link outlives
\* its creator's right to share.
THEOREM SharesBacked == Spec => []LiveSharesBacked
BY Invariance, PTL DEF IInv

-----------------------------------------------------------------------------
(* The refinement of ShareContract.                                        *)

Statuses == [s \in Shares |-> Status(s)]
LimitsOf == [s \in Shares |-> terms[s].limits]

\* Nothing that visitors see.
LEMMA Invisible ==
    ASSUME UNCHANGED <<row, now, uses>>,
           \A s \in Shares : /\ terms'[s].limits = terms[s].limits
                             /\ row[s] # "none" => terms'[s].expires = terms[s].expires
    PROVE  UNCHANGED Contract!vars
<1>1. \A s \in Shares : Status(s)' = Status(s)
  BY DEF Status, Live, InTime
<1>2. UNCHANGED Statuses /\ UNCHANGED LimitsOf
  BY <1>1 DEF Statuses, LimitsOf
<1> QED BY <1>2 DEF Contract!vars, Statuses, LimitsOf

\* Whatever ends links closes them.
LEMMA Closing ==
    ASSUME UNCHANGED <<uses, terms>>, NEW which \in SUBSET Shares,
           \A s \in Shares : Status(s)' =
                IF s \in which /\ Status(s) = "open" THEN "closed" ELSE Status(s)
    PROVE  Contract!Next
<1>1. Statuses' = [s \in Shares |-> IF s \in which /\ Statuses[s] = "open"
                                   THEN "closed" ELSE Statuses[s]]
  BY DEF Statuses
<1>2. UNCHANGED LimitsOf
  BY DEF LimitsOf
<1>3. Contract!Close(which)
  BY <1>1, <1>2 DEF Contract!Close, Statuses, LimitsOf
<1> QED BY <1>3 DEF Contract!Next

LEMMA RevokingCloses ==
    ASSUME IInv, NEW which, RevokeShares(which), UNCHANGED <<uses, terms, now>>
    PROVE  Contract!Next
<1>1. \A s \in Shares : row'[s] = IF s \in which /\ row[s] = "live" THEN "revoked" ELSE row[s]
  BY DEF RevokeShares, Live
<1>2. ASSUME NEW s \in Shares
      PROVE  Status(s)' = IF s \in which \cap Shares /\ Status(s) = "open" THEN "closed" ELSE Status(s)
  BY <1>1 DEF Status, Live, InTime, IInv, TypeOK
<1>3. which \cap Shares \in SUBSET Shares
  OBVIOUS
<1> QED BY <1>2, <1>3, Closing

LEMMA TimeCloses == ASSUME IInv, Tick PROVE Contract!Next
<1> DEFINE which == {s \in Shares : ~(now' < terms[s].expires)}
<1>1. UNCHANGED <<row, uses, terms>> /\ now' = now + 1 /\ now \in Nat
  BY DEF Tick, shareVars, IInv, TypeOK
<1>2. ASSUME NEW s \in Shares
      PROVE  Status(s)' = IF s \in which /\ Status(s) = "open" THEN "closed" ELSE Status(s)
  <2>1. terms[s].expires \in Nat
    BY DEF IInv, TypeOK
  <2> QED BY <1>1, <2>1 DEF Status, Live, InTime
<1>3. which \in SUBSET Shares
  OBVIOUS
<1> HIDE DEF which
<1> QED BY <1>1, <1>2, <1>3, Closing

LEMMA CreationPlans ==
    ASSUME IInv, NEW r \in Requests, NEW s \in Shares, NEW a \in Accounts, NEW p \in Places,
           NEW limits \in Limits, NEW expires \in 1 .. MaxTime,
           StartCreate(r, s, a, p, limits, expires)
    PROVE  Contract!Next
<1> DEFINE t == [by |-> a, place |-> p, expires |-> expires, limits |-> limits, object |-> 0]
<1>1. terms' = [terms EXCEPT ![s] = t] /\ row[s] = "none" /\ UNCHANGED <<row, uses, now>>
  BY DEF StartCreate
<1>2. t.limits = limits
  OBVIOUS
<1> HIDE DEF t
<1>3. LimitsOf' = [LimitsOf EXCEPT ![s] = limits]
  BY <1>1, <1>2 DEF LimitsOf, IInv, TypeOK
<1>4. \A x \in Shares : Status(x)' = Status(x)
  BY <1>1 DEF Status, Live, InTime, IInv, TypeOK
<1>5. UNCHANGED Statuses /\ Statuses[s] = "absent"
  BY <1>1, <1>4 DEF Statuses, Status
<1>6. limits \in Contract!Counts
  BY DEF Limits, Contract!Counts
<1>7. Contract!Plan(s, limits)
  BY <1>1, <1>3, <1>5 DEF Contract!Plan, Statuses, LimitsOf
<1> QED BY <1>6, <1>7 DEF Contract!Next

LEMMA InsertCreates ==
    ASSUME IInv, NEW r \in Requests, InsertShare(r)
    PROVE  Contract!Next \/ UNCHANGED Contract!vars
<1>1. PICK s \in Shares : s = req[r].share /\ row[s] = "none"
  BY DEF InsertShare, At, IInv, RequestsInv, RequestsHoldShares, CreatesAlone, ShareSteps,
         CreateSteps
<1>2. UNCHANGED <<terms, uses, now>>
  BY DEF InsertShare
<1>3. CASE row' = [row EXCEPT ![s] = "live"]
  <2> DEFINE new == Status(s)'
  <2>1. new \in {"open", "closed"} /\ Status(s) = "absent"
    BY <1>1, <1>3 DEF Status, Live, IInv, TypeOK
  <2>2. \A x \in Shares \ {s} : Status(x)' = Status(x)
    BY <1>2, <1>3 DEF Status, Live, InTime, IInv, TypeOK
  <2>3. Statuses' = [Statuses EXCEPT ![s] = new] /\ UNCHANGED LimitsOf
    BY <1>1, <1>2, <2>2 DEF Statuses, LimitsOf
  <2>4. Contract!Create(s)
    BY <1>1, <1>2, <2>1, <2>3 DEF Contract!Create, Statuses, LimitsOf
  <2> QED BY <1>1, <2>4 DEF Contract!Next
<1>4. CASE UNCHANGED row
  BY <1>2, <1>4, Invisible
<1> QED BY <1>1, <1>3, <1>4 DEF InsertShare

LEMMA ExchangeVisits ==
    ASSUME IInv, NEW s \in Shares, NEW v \in Sessions, Exchange(s, v) PROVE Contract!Next
<1>1. /\ uses[s].visits < terms[s].limits.visits
      /\ uses' = [uses EXCEPT ![s].visits = @ + 1]
      /\ UNCHANGED <<row, terms, now>> /\ Live(s) /\ InTime(s)
  BY DEF Exchange, Usable
<1>2. Status(s) = "open" /\ \A x \in Shares : Status(x)' = Status(x)
  BY <1>1 DEF Status, Live, InTime
<1>3. UNCHANGED Statuses /\ UNCHANGED LimitsOf
  BY <1>1, <1>2 DEF Statuses, LimitsOf
<1>4. Contract!Visit(s)
  BY <1>1, <1>2, <1>3 DEF Contract!Visit, Statuses, LimitsOf
<1> QED BY <1>4 DEF Contract!Next

LEMMA CountDownloads ==
    ASSUME IInv, NEW r \in Requests, CountDownload(r)
    PROVE  Contract!Next \/ UNCHANGED Contract!vars
<1> DEFINE s == req[r].share
<1>1. s \in Shares /\ UNCHANGED <<row, terms, now>>
  BY DEF CountDownload, At, IInv, RequestsInv, RequestsHoldShares, ShareSteps
<1>2. CASE UNCHANGED uses
  BY <1>1, <1>2, Invisible
<1>3. CASE /\ Usable(s) /\ uses[s].downloads < terms[s].limits.downloads
           /\ uses' = [uses EXCEPT ![s].downloads = @ + 1]
  <2>1. Status(s) = "open" /\ \A x \in Shares : Status(x)' = Status(x)
    BY <1>1, <1>3 DEF Status, Live, InTime, Usable
  <2>2. UNCHANGED Statuses /\ UNCHANGED LimitsOf
    BY <1>1, <2>1 DEF Statuses, LimitsOf
  <2>3. Contract!Download(s)
    BY <1>1, <1>3, <2>1, <2>2 DEF Contract!Download, Statuses, LimitsOf
  <2> QED BY <1>1, <2>3 DEF Contract!Next
<1> QED BY <1>2, <1>3 DEF CountDownload

LEMMA AdministrationCloses ==
    ASSUME IInv, Administration PROVE Contract!Next
<1>1. /\ UNCHANGED <<uses, terms, now>>
      /\ UNCHANGED row \/ \E which : RevokeShares(which)
  BY DEF Administration, RevokeShare, RevokeOwnShares, EnableUser, DisableUser, RemoveMember,
         SetMember, SetGrant, RemoveGrant, GrantAtStart, DeleteMount, Reverify, shareVars
<1>2. PICK which : RevokeShares(which)
  BY <1>1, RevokeNone
<1> QED BY <1>1, <1>2, RevokingCloses

LEMMA AdvanceImplements ==
    ASSUME IInv, NEW r \in Requests, Advance(r)
    PROVE  Contract!Next \/ UNCHANGED Contract!vars
<1>1. CASE \/ LoadMount(r) \/ VerifyIdentity(r) \/ Reauthorize(r) \/ OpenFile(r) \/ Serve(r)
           \/ CutOff(r)
  <2>1. UNCHANGED <<row, now, uses, terms>>
    BY <1>1 DEF LoadMount, VerifyIdentity, Reauthorize, OpenFile, Serve, CutOff, shareVars
  <2> QED BY <2>1, Invisible
<1>2. CASE CheckTarget(r)
  <2>1. UNCHANGED <<row, now, uses>>
    BY <1>2 DEF CheckTarget
  <2>2. req[r].share \in Shares
    BY <1>2 DEF CheckTarget, At, IInv, RequestsInv, RequestsHoldShares, ShareSteps, CreateSteps
  <2>3. \A s \in Shares : terms'[s].limits = terms[s].limits /\ terms'[s].expires = terms[s].expires
    BY <1>2, <2>2 DEF CheckTarget, IInv, TypeOK
  <2> QED BY <2>1, <2>3, Invisible
<1>3. CASE UndoShare(r) \/ RevokePath(r) \/ UpdateSettings(r)
  <2>1. /\ UNCHANGED <<uses, terms, now>>
        /\ UNCHANGED row \/ \E which : RevokeShares(which)
    BY <1>3 DEF UndoShare, RevokePath, UpdateSettings
  <2>2. PICK which : RevokeShares(which)
    BY <2>1, RevokeNone
  <2> QED BY <2>1, <2>2, RevokingCloses
<1> QED BY <1>1, <1>2, <1>3, InsertCreates, CountDownloads DEF Advance

LEMMA StepImplements ==
    ASSUME IInv, [Next]_vars PROVE Contract!Next \/ UNCHANGED Contract!vars
<1>1. ASSUME NEW r \in Requests, Start(r) PROVE Contract!Next \/ UNCHANGED Contract!vars
  <2>1. CASE \/ \E v \in Sessions : StartDownload(r, v)
             \/ \E m \in Mounts, change \in Changes : StartSettings(r, m, change)
             \/ \E p \in Places : StartDelete(r, p)
    <3>1. UNCHANGED <<row, now, uses, terms>>
      BY <2>1 DEF StartDownload, StartSettings, StartDelete, shareVars
    <3> QED BY <3>1, Invisible
  <2> QED BY <1>1, <2>1, CreationPlans DEF Start
<1>2. CASE Visitors
  <2>1. CASE ExpireSessions
    BY <2>1, Invisible DEF ExpireSessions
  <2> QED BY <1>2, <2>1, ExchangeVisits DEF Visitors
<1>3. CASE Files \/ UNCHANGED vars
  <2>1. UNCHANGED <<row, now, uses, terms>>
    BY <1>3 DEF Files, Upload, MoveObject, vars, shareVars
  <2> QED BY <2>1, Invisible
<1> QED BY <1>1, <1>2, <1>3, TimeCloses, AdvanceImplements, AdministrationCloses DEF Next

LEMMA InitImplements == Init => Contract!Init
BY DEF Init, Contract!Init, Status, NoUses, Contract!NoUses

\* Links keep their promise whatever happens to rights, settings and files:
\* every step of the program is a step of the contract, or none.
THEOREM Refinement == Spec => ImplementsContract
<1>1. IInv /\ [Next]_vars => [Contract!Next]_(Contract!vars)
  BY StepImplements
<1> QED BY <1>1, InitImplements, Invariance, PTL DEF Spec, ImplementsContract, Contract!Spec
=============================================================================
