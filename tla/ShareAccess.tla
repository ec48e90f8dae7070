---------------------------- MODULE ShareAccess ----------------------------
(***************************************************************************)
(* Share links: internal/share, the handlers of the server that create,    *)
(* use and revoke them, and every endpoint that takes the right to share   *)
(* away from their creators (module AccessControl, with the statements on  *)
(* `shares` that each transaction adds).                                   *)
(*                                                                         *)
(* Requests interleave at every statement and file operation.  A share is  *)
(* of one path of a mount; what stands at a path is an object, and an      *)
(* upload puts an object there that never was there before.  Secrets and   *)
(* passwords are taken to be right, and downloads to be allowed.           *)
(***************************************************************************)
EXTENDS AccessControl

CONSTANTS
    Shares,         \* rows of `shares` (ids are random, never used twice)
    Sessions,       \* bound: rows of `share_sessions` at a time
    Requests,       \* concurrent HTTP requests
    Locations,      \* relative paths in a mount
    NoShare,        \* no share
    MaxUses,        \* bound: the largest limit; no limit is the largest one
    SessionTTL,     \* life of a session, in ticks
    MaxTime,        \* bound: ticks of the clock
    MaxObjects      \* bound: objects uploaded

ASSUME PlacesAssumption == Mounts # {} /\ Locations # {}
ASSUME NoShareAssumption == NoShare \notin Shares
ASSUME BoundsAssumption == MaxUses \in Nat /\ MaxTime \in Nat /\ MaxObjects \in Nat
ASSUME SessionTTLAssumption == SessionTTL \in Nat \ {0}

VARIABLES
    row,        \* shares.revoked_at ("none" before the INSERT)
    terms,      \* the columns of a share that never change
    uses,       \* shares.used_visits and used_downloads
    session,    \* share_sessions: share and expiry
    content,    \* the object at a path of a mount (0: nothing)
    objects,    \* objects uploaded so far
    now,        \* the clock
    req         \* the requests: step and local variables

shareVars == <<row, terms, uses, session>>
fileVars == <<content, objects>>
vars == <<access, shareVars, fileVars, now, req>>

NoUses == [visits |-> 0, downloads |-> 0]
Counts == [visits : 0 .. MaxUses, downloads : 0 .. MaxUses]
Limits == [visits : 1 .. MaxUses, downloads : 1 .. MaxUses]
Changes == {"keep", "on", "off"}
NoSession == [share |-> NoShare, expires |-> 0]

Places == Mounts \X Locations
SomePlace == CHOOSE p \in Places : TRUE

\* A request remembers the share it is about, the mount or place that its
\* statement names, the setting it writes, and the object it has opened.
Idle == [step |-> "idle", share |-> NoShare, mount |-> SomePlace[1], place |-> SomePlace,
         public |-> FALSE, change |-> "keep", object |-> 0]

Init ==
    /\ AccessInit
    /\ row = [s \in Shares |-> "none"]
    /\ terms = [s \in Shares |-> [by |-> Owner, place |-> SomePlace, expires |-> 0,
                                  limits |-> NoUses, object |-> 0]]
    /\ uses = [s \in Shares |-> NoUses]
    /\ session = [v \in Sessions |-> NoSession]
    /\ content = [p \in Places |-> 0]
    /\ objects = 0
    /\ now = 0
    /\ req = [r \in Requests |-> Idle]

-----------------------------------------------------------------------------
Creator(s) == terms[s].by
MountOf(s) == terms[s].place[1]
Live(s) == row[s] = "live"
InTime(s) == now < terms[s].expires

\* The conditions that loadShareForExchange, VerifySession and
\* IncrementDownload put on a share.
Usable(s) == Live(s) /\ InTime(s) /\ CanShare(Creator(s), MountOf(s))

Earlier(t1, t2) == IF t1 <= t2 THEN t1 ELSE t2

\* UPDATE shares SET revoked_at = ... WHERE ... AND revoked_at IS NULL
RevokeShares(which) ==
    row' = [s \in Shares |-> IF s \in which /\ Live(s) THEN "revoked" ELSE row[s]]

SharesOf(a) == {s \in Shares : Creator(s) = a}
SharesOn(m) == {s \in Shares : MountOf(s) = m}

At(r, step) == req[r].step = step
Goto(r, step) == req' = [req EXCEPT ![r].step = step]
End(r) == req' = [req EXCEPT ![r] = Idle]
GotoIf(cond, r, step) == IF cond THEN Goto(r, step) ELSE End(r)

\* What follows on the load of the mount and the check of its identity, in
\* createShare and in shareDownload.
AfterLoad == [createLoad |-> "createIdentity", downloadLoad |-> "downloadIdentity"]
AfterIdentity == [createIdentity |-> "target", downloadIdentity |-> "open"]

-----------------------------------------------------------------------------
(* createShare *)

\* authorizeMount for manage_share.
StartCreate(r, s, a, p, limits, expires) ==
    /\ At(r, "idle")
    /\ row[s] = "none" /\ \A q \in Requests : req[q].share # s
    /\ CanShare(a, p[1])
    /\ terms' = [terms EXCEPT ![s] = [by |-> a, place |-> p, expires |-> expires,
                                      limits |-> limits, object |-> 0]]
    /\ req' = [req EXCEPT ![r] = [Idle EXCEPT !.step = "createLoad", !.share = s]]
    /\ UNCHANGED <<access, row, uses, session, fileVars, now>>

\* ValidateShareTarget, and the check that the expiry lies ahead.
CheckTarget(r) ==
    /\ At(r, "target")
    /\ LET s == req[r].share
           object == content[terms[s].place]
       IN  /\ terms' = [terms EXCEPT ![s].object = object]
           /\ GotoIf(object # 0 /\ InTime(s), r, "insert")
    /\ UNCHANGED <<access, row, uses, session, fileVars, now>>

\* Mutant of InsertShare: the conditions are left to the first check.
InsertShareUnchecked(r) ==
    /\ At(r, "insert")
    /\ row' = [row EXCEPT ![req[r].share] = "live"]
    /\ Goto(r, "reauthorize")
    /\ UNCHANGED <<access, terms, uses, session, fileVars, now>>

\* INSERT ... SELECT inserts nothing when the right to share is gone by now.
InsertShare(r) ==
    /\ At(r, "insert")
    /\ LET s == req[r].share IN
        IF CanShare(Creator(s), MountOf(s))
        THEN row' = [row EXCEPT ![s] = "live"] /\ Goto(r, "reauthorize")
        ELSE UNCHANGED row /\ End(r)
    /\ UNCHANGED <<access, terms, uses, session, fileVars, now>>

Reauthorize(r) ==
    /\ At(r, "reauthorize")
    /\ GotoIf(~CanShare(Creator(req[r].share), MountOf(req[r].share)), r, "undo")
    /\ UNCHANGED <<access, shareVars, fileVars, now>>

UndoShare(r) ==
    /\ At(r, "undo")
    /\ RevokeShares({req[r].share})
    /\ End(r)
    /\ UNCHANGED <<access, terms, uses, session, fileVars, now>>

-----------------------------------------------------------------------------
(* The first steps that createShare and shareDownload have in common.      *)

LoadMount(r) ==
    /\ req[r].step \in DOMAIN AfterLoad
    /\ GotoIf(mount[MountOf(req[r].share)].status = "active", r, AfterLoad[req[r].step])
    /\ UNCHANGED <<access, shareVars, fileVars, now>>

\* verifyLoadedMountIdentity: a root that has drifted marks the mount.
VerifyIdentity(r) ==
    /\ req[r].step \in DOMAIN AfterIdentity
    /\ \/ Goto(r, AfterIdentity[req[r].step]) /\ UNCHANGED access
       \/ End(r) /\ MarkUnavailable(MountOf(req[r].share))
    /\ UNCHANGED <<shareVars, fileVars, now>>

-----------------------------------------------------------------------------
(* Visitors: Exchange, and shareDownload.                                  *)

\* Mutant of Exchange: the condition on used_visits is missing.
ExchangeUnlimited(s, v) ==
    /\ Usable(s)
    /\ session[v] = NoSession
    /\ uses' = [uses EXCEPT ![s].visits = @ + 1]
    /\ session' = [session EXCEPT ![v] =
            [share |-> s, expires |-> Earlier(now + SessionTTL, terms[s].expires)]]
    /\ UNCHANGED <<access, row, terms, fileVars, now, req>>

\* Exchange, one transaction.
Exchange(s, v) ==
    /\ Usable(s)
    /\ uses[s].visits < terms[s].limits.visits
    /\ session[v] = NoSession
    /\ uses' = [uses EXCEPT ![s].visits = @ + 1]
    /\ session' = [session EXCEPT ![v] =
            [share |-> s, expires |-> Earlier(now + SessionTTL, terms[s].expires)]]
    /\ UNCHANGED <<access, row, terms, fileVars, now, req>>

\* requireShareSession
StartDownload(r, v) ==
    /\ At(r, "idle")
    /\ session[v] # NoSession
    /\ Usable(session[v].share)
    /\ now < session[v].expires
    /\ req' = [req EXCEPT ![r] = [Idle EXCEPT !.step = "downloadLoad", !.share = session[v].share]]
    /\ UNCHANGED <<access, shareVars, fileVars, now>>

OpenFile(r) ==
    /\ At(r, "open")
    /\ LET object == content[terms[req[r].share].place] IN
        IF object # 0
        THEN req' = [req EXCEPT ![r] = [@ EXCEPT !.step = "count", !.object = object]]
        ELSE End(r)
    /\ UNCHANGED <<access, shareVars, fileVars, now>>

\* Mutant of CountDownload: what the session was verified against is trusted.
CountDownloadVerified(r) ==
    /\ At(r, "count")
    /\ LET s == req[r].share IN
        IF uses[s].downloads < terms[s].limits.downloads
        THEN uses' = [uses EXCEPT ![s].downloads = @ + 1] /\ Goto(r, "serve")
        ELSE UNCHANGED uses /\ End(r)
    /\ UNCHANGED <<access, row, terms, session, fileVars, now>>

\* IncrementDownload repeats every condition in the UPDATE.
CountDownload(r) ==
    /\ At(r, "count")
    /\ LET s == req[r].share IN
        IF Usable(s) /\ uses[s].downloads < terms[s].limits.downloads
        THEN uses' = [uses EXCEPT ![s].downloads = @ + 1] /\ Goto(r, "serve")
        ELSE UNCHANGED uses /\ End(r)
    /\ UNCHANGED <<access, row, terms, session, fileVars, now>>

\* http.ServeContent from the file that is open.
Serve(r) ==
    /\ At(r, "serve")
    /\ End(r)
    /\ UNCHANGED <<access, shareVars, fileVars, now>>

\* expireOperationalRows
ExpireSessions ==
    /\ session' = [v \in Sessions |-> IF session[v].expires <= now THEN NoSession ELSE session[v]]
    /\ UNCHANGED <<access, row, terms, uses, fileVars, now, req>>

-----------------------------------------------------------------------------
(* The end of shares.                                                      *)

\* revokeShare, revokeAdminShare
RevokeShare(s) ==
    /\ Live(s)
    /\ RevokeShares({s})
    /\ UNCHANGED <<access, terms, uses, session, fileVars, now, req>>

\* changePassword with revokeShares
RevokeOwnShares(a) ==
    /\ account[a] = "active"
    /\ RevokeShares(SharesOf(a))
    /\ UNCHANGED <<access, terms, uses, session, fileVars, now, req>>

EnableUser(a) ==
    /\ SetUserEnabled(a, "active")
    /\ UNCHANGED <<shareVars, fileVars, now, req>>

DisableUser(a) ==
    /\ SetUserEnabled(a, "disabled")
    /\ RevokeShares(SharesOf(a))
    /\ UNCHANGED <<terms, uses, session, fileVars, now, req>>

\* Mutant of SetMember: shares are revoked when uploads are canceled.
SetMemberViewerOnly(a, permission) ==
    /\ PutMember(a, permission)
    /\ RevokeShares(IF permission = "viewer" THEN SharesOf(a) ELSE {})
    /\ UNCHANGED <<terms, uses, session, fileVars, now, req>>

SetMember(a, permission) ==
    /\ PutMember(a, permission)
    /\ RevokeShares(IF permission = "manager" THEN {} ELSE SharesOf(a))
    /\ UNCHANGED <<terms, uses, session, fileVars, now, req>>

RemoveMember(a) ==
    /\ DeleteMember(a)
    /\ RevokeShares(SharesOf(a))
    /\ UNCHANGED <<terms, uses, session, fileVars, now, req>>

SetGrant(m, a, permission) ==
    /\ PutGrant(m, a, permission)
    /\ RevokeShares(IF Grantable(m, a) /\ permission = "manager" /\ member[a] = "manager"
                    THEN {} ELSE SharesOf(a) \cap SharesOn(m))
    /\ UNCHANGED <<terms, uses, session, fileVars, now, req>>

RemoveGrant(m, a) ==
    /\ DeleteGrant(m, a)
    /\ RevokeShares(SharesOf(a) \cap SharesOn(m))
    /\ UNCHANGED <<terms, uses, session, fileVars, now, req>>

GrantAtStart(m) ==
    /\ AutoGrant(m)
    /\ UNCHANGED <<shareVars, fileVars, now, req>>

DeleteMount(m) ==
    /\ SoftDeleteMount(m)
    /\ RevokeShares(SharesOn(m))
    /\ UNCHANGED <<terms, uses, session, fileVars, now, req>>

\* renameMount reads the row; it keeps, or sets, allow_public_shares ...
StartSettings(r, m, change) ==
    /\ At(r, "idle")
    /\ Exists(m)
    /\ req' = [req EXCEPT ![r] = [Idle EXCEPT
            !.step = "settings", !.mount = m, !.change = change,
            !.public = CASE change = "on" -> TRUE [] change = "off" -> FALSE
                         [] OTHER -> mount[m].public]]
    /\ UNCHANGED <<access, shareVars, fileVars, now>>

\* ... and later writes it, revoking shares only when told to set it off.
UpdateSettings(r) ==
    /\ At(r, "settings")
    /\ LET m == req[r].mount IN
        IF Exists(m)
        THEN /\ WriteSettings(m, req[r].public)
             /\ RevokeShares(IF req[r].change = "off" THEN SharesOn(m) ELSE {})
        ELSE UNCHANGED <<access, row>>
    /\ End(r)
    /\ UNCHANGED <<terms, uses, session, fileVars, now>>

Reverify(m) ==
    /\ ReverifyMount(m)
    /\ UNCHANGED <<shareVars, fileVars, now, req>>

-----------------------------------------------------------------------------
(* Files.                                                                  *)

Upload(p) ==
    /\ content[p] = 0
    /\ objects < MaxObjects
    /\ objects' = objects + 1
    /\ content' = [content EXCEPT ![p] = objects + 1]
    /\ UNCHANGED <<access, shareVars, now, req>>

\* renameObject, moveObject: shares are left alone.
MoveObject(p, q) ==
    /\ p[1] = q[1] /\ content[p] # 0 /\ content[q] = 0
    /\ content' = [content EXCEPT ![p] = 0, ![q] = content[p]]
    /\ UNCHANGED <<access, shareVars, objects, now, req>>

\* deleteObject, or handleCrossMount on its source: the file goes first, ...
StartDelete(r, p) ==
    /\ At(r, "idle")
    /\ mount[p[1]].status = "active" /\ content[p] # 0
    /\ content' = [content EXCEPT ![p] = 0]
    /\ req' = [req EXCEPT ![r] = [Idle EXCEPT !.step = "revoke path", !.place = p]]
    /\ UNCHANGED <<access, shareVars, objects, now>>

\* ... then revokeSharesForPath, whose error is ignored.
RevokePath(r) ==
    /\ At(r, "revoke path")
    /\ RevokeShares({s \in Shares : terms[s].place = req[r].place})
    /\ End(r)
    /\ UNCHANGED <<access, terms, uses, session, fileVars, now>>

-----------------------------------------------------------------------------
Tick ==
    /\ now < MaxTime
    /\ now' = now + 1
    /\ UNCHANGED <<access, shareVars, fileVars, req>>

\* The client goes away, a statement fails or the process is killed.
CutOff(r) ==
    /\ ~At(r, "idle")
    /\ End(r)
    /\ UNCHANGED <<access, shareVars, fileVars, now>>

Advance(r) ==
    \/ LoadMount(r) \/ VerifyIdentity(r)
    \/ CheckTarget(r) \/ InsertShare(r) \/ Reauthorize(r) \/ UndoShare(r)
    \/ OpenFile(r) \/ CountDownload(r) \/ Serve(r)
    \/ UpdateSettings(r) \/ RevokePath(r) \/ CutOff(r)

Start(r) ==
    \/ \E s \in Shares, a \in Accounts, p \in Places, limits \in Limits, expires \in 1 .. MaxTime :
            StartCreate(r, s, a, p, limits, expires)
    \/ \E v \in Sessions : StartDownload(r, v)
    \/ \E m \in Mounts, change \in Changes : StartSettings(r, m, change)
    \/ \E p \in Places : StartDelete(r, p)

Visitors ==
    \/ \E s \in Shares, v \in Sessions : Exchange(s, v)
    \/ ExpireSessions

Administration ==
    \/ \E s \in Shares : RevokeShare(s)
    \/ \E a \in Accounts : RevokeOwnShares(a) \/ EnableUser(a) \/ DisableUser(a) \/ RemoveMember(a)
    \/ \E a \in Accounts, permission \in Permissions : SetMember(a, permission)
    \/ \E m \in Mounts, a \in Accounts, permission \in Permissions : SetGrant(m, a, permission)
    \/ \E m \in Mounts, a \in Accounts : RemoveGrant(m, a)
    \/ \E m \in Mounts : GrantAtStart(m) \/ DeleteMount(m) \/ Reverify(m)

Files == \E p \in Places : Upload(p) \/ \E q \in Places : MoveObject(p, q)

Next ==
    \/ \E r \in Requests : Start(r) \/ Advance(r)
    \/ Visitors
    \/ Administration
    \/ Files
    \/ Tick

Spec == Init /\ [][Next]_vars

-----------------------------------------------------------------------------
CreateSteps == {"createLoad", "createIdentity", "target", "insert"}
ShareSteps == CreateSteps \cup {"reauthorize", "undo", "downloadLoad", "downloadIdentity",
                               "open", "count", "serve"}
Steps == ShareSteps \cup {"idle", "settings", "revoke path"}

TypeOK ==
    /\ AccessTypeOK
    /\ row \in [Shares -> {"none", "live", "revoked"}]
    /\ terms \in [Shares -> [by : Accounts, place : Places, expires : 0 .. MaxTime,
                             limits : Counts, object : 0 .. MaxObjects]]
    /\ uses \in [Shares -> Counts]
    /\ session \in [Sessions -> [share : Shares \cup {NoShare}, expires : 0 .. MaxTime]]
    /\ content \in [Places -> 0 .. MaxObjects]
    /\ objects \in 0 .. MaxObjects
    /\ now \in 0 .. MaxTime
    /\ req \in [Requests -> [step : Steps, share : Shares \cup {NoShare}, mount : Mounts,
                             place : Places, public : BOOLEAN, change : Changes,
                             object : 0 .. MaxObjects]]

\* Nobody's link outlives the right to share: a share that is not revoked has
\* a creator who is active, manager of the space and manager on the mount by
\* grant, and a mount that exists, however the creation of the share and the
\* loss of the right interleave.  So none comes back to life when an account
\* is enabled, a membership restored or a grant given again.
LiveSharesBacked ==
    \A s \in Shares : Live(s) =>
        /\ account[Creator(s)] = "active"
        /\ member[Creator(s)] = "manager"
        /\ grant[MountOf(s)][Creator(s)] = "manager"
        /\ Exists(MountOf(s))

\* What a link is to its visitors.
Status(s) ==
    IF row[s] = "none" THEN "absent" ELSE IF Live(s) /\ InTime(s) THEN "open" ELSE "closed"

Contract == INSTANCE ShareContract WITH
    status <- [s \in Shares |-> Status(s)],
    limits <- [s \in Shares |-> terms[s].limits]

\* Shares keep their promise: closed for good, and used within their limits.
ImplementsContract == Contract!Spec

-----------------------------------------------------------------------------
(* What the documentation says and the code does not do.                   *)

\* "A share stays valid when its object is moved, and invalid when the object
\* is replaced": what is served is the object that was shared.
ServesSharedObject ==
    \A r \in Requests : At(r, "serve") => req[r].object = terms[req[r].share].object
=============================================================================
