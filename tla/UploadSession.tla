--------------------------- MODULE UploadSession ---------------------------
(***************************************************************************)
(* Resumable uploads: internal/transfer and the handlers of the server     *)
(* that drive it, for the uploads of one account to one mount.             *)
(*                                                                         *)
(* An upload is a row of `upload_sessions` and a directory of the mount    *)
(* with a manifest and part files.  Every request has a transfer.Service,  *)
(* hence a mutex, of its own: two requests on one upload interleave at     *)
(* every database statement and every file operation.  Data is abstracted  *)
(* to sizes, and a temporary file is known by the request that made it.    *)
(*                                                                         *)
(* Removing a directory is what os.Root.RemoveAll does: list it, unlink    *)
(* what was listed, and remove the directory, which fails if something has *)
(* come in since.  Every caller drops the error.                           *)
(***************************************************************************)
EXTENDS Naturals, FiniteSets, Functions

CONSTANTS
    Uploads,    \* upload ids (random in the code, never used twice)
    Requests,   \* concurrent HTTP requests
    Targets,    \* target paths in the mount
    MaxPart,    \* bound: part numbers are 1 .. MaxPart
    MaxSize,    \* bound: sizes of uploads and of parts
    NoUpload    \* a request about no upload

ASSUME MaxPartAssumption == MaxPart \in Nat
ASSUME MaxSizeAssumption == MaxSize \in Nat
ASSUME TargetsAssumption == Targets # {}

VARIABLES
    row,        \* upload_sessions.status and whether expires_at has passed
    asked,      \* target and declared size given at the creation
    disk,       \* the session directory: state, manifest, part files, and the
                \* requests with a temporary file for a part or for the result
    file,       \* what stands at a target path
    mount,      \* mounts.status
    writable,   \* the account may write: grants, membership and mount mode
    accepted,   \* rows of `upload_parts`: the parts a client was told are in
    req,        \* the requests: step and local variables
    published,  \* history: uploads whose file was published
    withdrawn   \* history: uploads whose cancellation ended with the directory gone,
                \* or that were canceled or expired while no other request was about them

access == <<mount, writable>>
vars == <<row, asked, disk, file, mount, writable, accepted, req, published, withdrawn>>

Parts == 1 .. MaxPart
Sizes == 0 .. MaxSize
PartSizes == UNION {[D -> Sizes] : D \in SUBSET Parts}
NoParts == [n \in {} |-> 0]
Others == "others"

ASSUME NoUploadAssumption == NoUpload \notin Uploads /\ Others \notin Uploads

NoFile == [by |-> NoUpload, size |-> 0]
NoDir == [state |-> "none", manifest |-> NoParts, parts |-> NoParts, temps |-> {}]
NoEntry == [manifest |-> FALSE, parts |-> {}, temps |-> {}]

\* A request remembers its upload, the part it wrote, the manifest as it
\* read it, of the file it assembles the next part and the size so far, and
\* what is left of the entries it listed to remove.
Idle == [step |-> "idle", upload |-> NoUpload, number |-> 1,
         seen |-> NoParts, next |-> 1, written |-> 0, left |-> NoEntry]

Init ==
    /\ row = [u \in Uploads |-> [status |-> "none", overdue |-> FALSE]]
    /\ asked = [u \in Uploads |-> [target |-> CHOOSE t \in Targets : TRUE, declared |-> 0]]
    /\ disk = [u \in Uploads |-> NoDir]
    /\ file = [t \in Targets |-> NoFile]
    /\ mount = "active"
    /\ writable = TRUE
    /\ accepted = [u \in Uploads |-> {}]
    /\ req = [r \in Requests |-> Idle]
    /\ published = {}
    /\ withdrawn = {}

-----------------------------------------------------------------------------
\* manifest.receivedSize
Received(manifest) == SumFunction(manifest)

\* Mutant of WithPart: a part sent again is added to the old one.
WithPartAdded(manifest, n, s) ==
    [k \in DOMAIN manifest \cup {n} |->
        IF k # n THEN manifest[k] ELSE IF n \in DOMAIN manifest THEN manifest[n] + s ELSE s]

\* manifest.Parts[n] = s
WithPart(manifest, n, s) ==
    [k \in DOMAIN manifest \cup {n} |-> IF k = n THEN s ELSE manifest[k]]

\* Mutant of Fits: each part is held against the declared size by itself.
FitsAlone(manifest, n, s, declared) == s <= declared

\* copyWithLimit: a part replaces the old one within the declared size.
Fits(manifest, n, s, declared) ==
    LET old == IF n \in DOMAIN manifest THEN manifest[n] ELSE 0
    IN  Received(manifest) + s <= declared + old

\* verifyComplete: the files are as the manifest says, the part numbers are
\* consecutive and the sizes add up; an empty upload must have no part.
IsComplete(manifest, parts, declared) ==
    /\ \A n \in DOMAIN manifest : n \in DOMAIN parts /\ parts[n] = manifest[n]
    /\ DOMAIN manifest = 1 .. Cardinality(DOMAIN manifest)
    /\ (declared = 0) <=> (manifest = NoParts)
    /\ Received(manifest) = declared

\* authorizeMount for writing, and the conditions of the INSERT
MayWrite == writable /\ mount = "active"

\* Mutant of Loadable: the status of the row is not in the condition.
LoadableAnyStatus(u) == row[u].status # "none" /\ ~row[u].overdue /\ mount = "active"

\* loadUpload
Loadable(u) == row[u].status = "active" /\ ~row[u].overdue /\ mount = "active"

At(r, step) == req[r].step = step
Upload(r) == req[r].upload
Target(u) == asked[u].target
Declared(u) == asked[u].declared
Free(t) == file[t] = NoFile
HasDir(u) == disk[u].state # "none"
HasTemp(r) == r \in disk[Upload(r)].temps

Goto(r, step) == req' = [req EXCEPT ![r].step = step]
Enter(r, step) == req' = [req EXCEPT ![r] = [Idle EXCEPT !.step = step, !.upload = Upload(r)]]
End(r) == req' = [req EXCEPT ![r] = Idle]
GotoIf(cond, r, step) == IF cond THEN Goto(r, step) ELSE End(r)

\* The active uploads that no request is about.
Unattended(which) ==
    {u \in which : row[u].status = "active" /\ \A r \in Requests : Upload(r) # u}

\* Temporary files have names of their own, and are known by their request here:
\* it does not begin again while a removal has one of its old ones in its list.
Ready(r) == At(r, "idle") /\ \A o \in Requests : r \notin req[o].left.temps

AddTemp(r) == disk' = [disk EXCEPT ![Upload(r)].temps = @ \cup {r}]
DropTemp(r) == disk' = [disk EXCEPT ![Upload(r)].temps = @ \ {r}]

\* UPDATE upload_sessions SET status = 'canceled' WHERE ... AND status = 'active'
CancelActive(which) ==
    row' = [u \in Uploads |-> IF u \in which /\ row[u].status = "active"
                              THEN [row[u] EXCEPT !.status = "canceled"]
                              ELSE row[u]]

\* The last UPDATE of a handler is not checked: it is lost when the client
\* has gone and with it the request's context.
MarkRow(u, status) == row' = [row EXCEPT ![u].status = status] \/ UNCHANGED row

\* A cancellation is over: the directory is gone, or the row is canceled and
\* nobody else is at the upload.
Withdraw(r) ==
    LET u == Upload(r)
        over == \/ ~HasDir(u)
                \/ row'[u].status # "active" /\ \A o \in Requests \ {r} : Upload(o) # u
    IN  withdrawn' = IF over THEN withdrawn \cup {u} ELSE withdrawn

-----------------------------------------------------------------------------
(* RemoveAll of the directory of the request's upload                      *)

\* What removes a directory, the step it is at then, and the step after it.
Removing == [undo |-> "undoing", clean |-> "cleaning", cancel |-> "canceling"]
Removed == [undoing |-> "undo row", cleaning |-> "mark completed", canceling |-> "mark canceled"]

Entries(u) == [manifest |-> disk[u].state = "ready", parts |-> DOMAIN disk[u].parts,
               temps |-> disk[u].temps]

ListDir(r) ==
    /\ req[r].step \in DOMAIN Removing
    /\ req' = [req EXCEPT ![r] = [Idle EXCEPT !.step = Removing[req[r].step], !.upload = Upload(r),
                                             !.left = Entries(Upload(r))]]
    /\ UNCHANGED <<row, asked, disk, file, access, accepted, published, withdrawn>>

\* Without its manifest an upload is not found any more.
UnlinkManifest(r) ==
    /\ req[r].step \in DOMAIN Removed
    /\ req[r].left.manifest
    /\ disk' = [disk EXCEPT ![Upload(r)] = [@ EXCEPT !.manifest = NoParts,
                                 !.state = IF HasDir(Upload(r)) THEN "made" ELSE "none"]]
    /\ req' = [req EXCEPT ![r].left.manifest = FALSE]
    /\ UNCHANGED <<row, asked, file, access, accepted, published, withdrawn>>

UnlinkPart(r, n) ==
    /\ req[r].step \in DOMAIN Removed
    /\ n \in req[r].left.parts
    /\ disk' = [disk EXCEPT ![Upload(r)].parts = Restrict(@, DOMAIN @ \ {n})]
    /\ req' = [req EXCEPT ![r].left.parts = @ \ {n}]
    /\ UNCHANGED <<row, asked, file, access, accepted, published, withdrawn>>

UnlinkTemp(r, o) ==
    /\ req[r].step \in DOMAIN Removed
    /\ o \in req[r].left.temps
    /\ disk' = [disk EXCEPT ![Upload(r)].temps = @ \ {o}]
    /\ req' = [req EXCEPT ![r].left.temps = @ \ {o}]
    /\ UNCHANGED <<row, asked, file, access, accepted, published, withdrawn>>

\* Only an empty directory is removed.
RemoveDir(r) ==
    /\ req[r].step \in DOMAIN Removed
    /\ req[r].left = NoEntry
    /\ disk' = IF Entries(Upload(r)) = NoEntry THEN [disk EXCEPT ![Upload(r)] = NoDir] ELSE disk
    /\ Enter(r, Removed[req[r].step])
    /\ UNCHANGED <<row, asked, file, access, accepted, published, withdrawn>>

\* The mount's root could not be opened, or an entry not be removed.
FailRemoval(r) ==
    /\ req[r].step \in DOMAIN Removed
    /\ Enter(r, Removed[req[r].step])
    /\ UNCHANGED <<row, asked, disk, file, access, accepted, published, withdrawn>>

-----------------------------------------------------------------------------
(* createUpload *)

Unused(u) ==
    /\ row[u].status = "none" /\ ~HasDir(u) /\ u \notin withdrawn
    /\ \A r \in Requests : Upload(r) # u

StartCreate(r, u, t, d) ==
    /\ Ready(r)
    /\ MayWrite
    /\ Unused(u)
    /\ asked' = [asked EXCEPT ![u] = [target |-> t, declared |-> d]]
    /\ req' = [req EXCEPT ![r] = [Idle EXCEPT !.step = "mkdir", !.upload = u]]
    /\ UNCHANGED <<row, disk, file, access, accepted, published, withdrawn>>

MakeDir(r) ==
    /\ At(r, "mkdir")
    /\ disk' = IF Free(Target(Upload(r)))
               THEN [disk EXCEPT ![Upload(r)].state = "made"]
               ELSE disk
    /\ GotoIf(Free(Target(Upload(r))), r, "first manifest")
    /\ UNCHANGED <<row, asked, file, access, accepted, published, withdrawn>>

SaveFirstManifest(r) ==
    /\ At(r, "first manifest")
    /\ disk' = [disk EXCEPT ![Upload(r)].state = "ready"]
    /\ Goto(r, "insert")
    /\ UNCHANGED <<row, asked, file, access, accepted, published, withdrawn>>

\* Nobody else knows the upload yet: its RemoveAll is one step.
FailFirstManifest(r) ==
    /\ At(r, "first manifest")
    /\ disk' = [disk EXCEPT ![Upload(r)] = NoDir] \/ UNCHANGED disk
    /\ End(r)
    /\ UNCHANGED <<row, asked, file, access, accepted, published, withdrawn>>

\* INSERT ... SELECT inserts nothing when the access is gone by now, or fails.
InsertRow(r) ==
    /\ At(r, "insert")
    /\ \/ MayWrite /\ row' = [row EXCEPT ![Upload(r)].status = "active"] /\ Goto(r, "recheck")
       \/ UNCHANGED row /\ Goto(r, "undo")
    /\ UNCHANGED <<asked, disk, file, access, accepted, published, withdrawn>>

Recheck(r) ==
    /\ At(r, "recheck")
    /\ (MayWrite /\ End(r)) \/ Goto(r, "undo")
    /\ UNCHANGED <<row, asked, disk, file, access, accepted, published, withdrawn>>

UndoRow(r) ==
    /\ At(r, "undo row")
    /\ CancelActive({Upload(r)}) \/ UNCHANGED row
    /\ Withdraw(r)
    /\ End(r)
    /\ UNCHANGED <<asked, disk, file, access, accepted, published>>

-----------------------------------------------------------------------------
(* What uploadPart, completeUpload and cancelUpload begin with.            *)

\* The step after canContinueUpload, by the step that waits for it.
FirstStep == [authorizePart |-> "read for part",
              authorizeComplete |-> "read for complete",
              authorizeCancel |-> "cancel"]

LoadUpload(r, u, wait) ==
    /\ Ready(r)
    /\ Loadable(u)
    /\ req' = [req EXCEPT ![r] = [Idle EXCEPT !.step = wait, !.upload = u]]
    /\ UNCHANGED <<row, asked, disk, file, access, accepted, published, withdrawn>>

\* canContinueUpload; a root that has drifted makes the mount unavailable.
Authorize(r) ==
    /\ req[r].step \in DOMAIN FirstStep
    /\ \/ MayWrite /\ Goto(r, FirstStep[req[r].step]) /\ UNCHANGED mount
       \/ End(r) /\ UNCHANGED mount
       \/ MayWrite /\ End(r) /\ mount' = "unavailable"
    /\ UNCHANGED <<row, asked, disk, file, writable, accepted, published, withdrawn>>

-----------------------------------------------------------------------------
(* uploadPart: WritePart, then the row of upload_parts.                    *)

ReadForPart(r) ==
    /\ At(r, "read for part")
    /\ IF disk[Upload(r)].state = "ready"
       THEN req' = [req EXCEPT ![r] = [@ EXCEPT !.step = "receive part",
                                                !.seen = disk[Upload(r)].manifest]]
       ELSE End(r)
    /\ UNCHANGED <<row, asked, disk, file, access, accepted, published, withdrawn>>

\* The data goes to a temporary file.
ReceivePart(r) ==
    /\ At(r, "receive part")
    /\ HasDir(Upload(r))
    /\ AddTemp(r)
    /\ Goto(r, "store part")
    /\ UNCHANGED <<row, asked, file, access, accepted, published, withdrawn>>

\* The temporary file is renamed to the part file, and the part entered in the
\* manifest in memory; its number and size are not looked at before.
StorePart(r, n, s) ==
    /\ At(r, "store part")
    /\ HasTemp(r)
    /\ Fits(req[r].seen, n, s, Declared(Upload(r)))
    /\ LET dir == disk[Upload(r)] IN
        disk' = [disk EXCEPT ![Upload(r)] = [dir EXCEPT !.parts = WithPart(dir.parts, n, s),
                                                        !.temps = dir.temps \ {r}]]
    /\ req' = [req EXCEPT ![r] = [@ EXCEPT !.step = "save manifest", !.number = n,
                                            !.seen = WithPart(req[r].seen, n, s)]]
    /\ UNCHANGED <<row, asked, file, access, accepted, published, withdrawn>>

\* The manifest in memory replaces the one on disk.
SaveManifest(r) ==
    /\ At(r, "save manifest")
    /\ HasDir(Upload(r))
    /\ disk' = [disk EXCEPT ![Upload(r)] = [@ EXCEPT !.state = "ready", !.manifest = req[r].seen]]
    /\ req' = [req EXCEPT ![r] = [@ EXCEPT !.step = "accept", !.seen = NoParts]]
    /\ UNCHANGED <<row, asked, file, access, accepted, published, withdrawn>>

\* The part does not fit, its client has gone, the disk is full, or a file
\* or the directory was removed.
FailPart(r) ==
    /\ req[r].step \in {"receive part", "store part", "save manifest"}
    /\ DropTemp(r)
    /\ End(r)
    /\ UNCHANGED <<row, asked, file, access, accepted, published, withdrawn>>

AcceptPart(r) ==
    /\ At(r, "accept")
    /\ \/ accepted' = [accepted EXCEPT ![Upload(r)] = @ \cup {req[r].number}]
       \/ UNCHANGED accepted
    /\ End(r)
    /\ UNCHANGED <<row, asked, disk, file, access, published, withdrawn>>

-----------------------------------------------------------------------------
(* completeUpload: CompleteUpload, then the row.                           *)

ReadForComplete(r) ==
    /\ At(r, "read for complete")
    /\ IF disk[Upload(r)].state = "ready"
       THEN req' = [req EXCEPT ![r] = [@ EXCEPT !.step = "verify", !.seen = disk[Upload(r)].manifest]]
       ELSE End(r)
    /\ UNCHANGED <<row, asked, disk, file, access, accepted, published, withdrawn>>

\* verifyComplete and validateTarget
Verify(r) ==
    /\ At(r, "verify")
    /\ LET u == Upload(r) IN
        GotoIf(/\ HasDir(u) /\ Free(Target(u))
               /\ IsComplete(req[r].seen, disk[u].parts, Declared(u)),
               r, "create final")
    /\ UNCHANGED <<row, asked, disk, file, access, accepted, published, withdrawn>>

CreateFinal(r) ==
    /\ At(r, "create final")
    /\ HasDir(Upload(r))
    /\ AddTemp(r)
    /\ Goto(r, "assemble")
    /\ UNCHANGED <<row, asked, file, access, accepted, published, withdrawn>>

\* assembleParts, one part at a time, then the check of the total size.
AssemblePart(r) ==
    /\ At(r, "assemble")
    /\ LET parts == disk[Upload(r)].parts
           n == req[r].next
       IN  /\ n <= Cardinality(DOMAIN req[r].seen)
           /\ n \in DOMAIN parts
           /\ req' = [req EXCEPT ![r] = [req[r] EXCEPT !.next = n + 1, !.written = @ + parts[n]]]
    /\ UNCHANGED <<row, asked, disk, file, access, accepted, published, withdrawn>>

\* Mutant of CheckSize: the size of what was assembled is not looked at.
CheckSizeSkipped(r) ==
    /\ At(r, "assemble")
    /\ req[r].next > Cardinality(DOMAIN req[r].seen)
    /\ req' = [req EXCEPT ![r] = [Idle EXCEPT !.step = "link", !.upload = Upload(r),
                                             !.written = req[r].written]]
    /\ UNCHANGED <<row, asked, disk, file, access, accepted, published, withdrawn>>

CheckSize(r) ==
    /\ At(r, "assemble")
    /\ req[r].next > Cardinality(DOMAIN req[r].seen)
    /\ req[r].written = Declared(Upload(r))
    /\ req' = [req EXCEPT ![r] = [Idle EXCEPT !.step = "link", !.upload = Upload(r),
                                             !.written = req[r].written]]
    /\ UNCHANGED <<row, asked, disk, file, access, accepted, published, withdrawn>>

\* The directory or a part is gone, the size is another, the target has
\* appeared, or the disk is full: the assembled file is removed.
FailComplete(r) ==
    /\ req[r].step \in {"create final", "assemble", "link"}
    /\ DropTemp(r)
    /\ End(r)
    /\ UNCHANGED <<row, asked, file, access, accepted, published, withdrawn>>

\* Mutant of Link: a rename, which replaces what stands at the target.
LinkReplacing(r) ==
    /\ At(r, "link")
    /\ HasTemp(r)
    /\ file' = [file EXCEPT ![Target(Upload(r))] = [by |-> Upload(r), size |-> req[r].written]]
    /\ published' = published \cup {Upload(r)}
    /\ Enter(r, "unlink")
    /\ UNCHANGED <<row, asked, disk, access, accepted, withdrawn>>

\* Mutant of Link: a target that has appeared is taken for success.
LinkIgnoringError(r) ==
    /\ At(r, "link")
    /\ HasTemp(r)
    /\ LET u == Upload(r) IN
        IF Free(Target(u))
        THEN /\ file' = [file EXCEPT ![Target(u)] = [by |-> u, size |-> req[r].written]]
             /\ published' = published \cup {u}
        ELSE UNCHANGED <<file, published>>
    /\ Enter(r, "unlink")
    /\ UNCHANGED <<row, asked, disk, access, accepted, withdrawn>>

\* Mutant of Link: the assembled file lies outside the upload's directory.
LinkFromElsewhere(r) ==
    /\ At(r, "link")
    /\ Free(Target(Upload(r)))
    /\ file' = [file EXCEPT ![Target(Upload(r))] = [by |-> Upload(r), size |-> req[r].written]]
    /\ published' = published \cup {Upload(r)}
    /\ Enter(r, "unlink")
    /\ UNCHANGED <<row, asked, disk, access, accepted, withdrawn>>

\* publish: a hard link, which fails when the target exists or the assembled
\* file was removed.
Link(r) ==
    /\ At(r, "link")
    /\ HasTemp(r) /\ Free(Target(Upload(r)))
    /\ file' = [file EXCEPT ![Target(Upload(r))] = [by |-> Upload(r), size |-> req[r].written]]
    /\ published' = published \cup {Upload(r)}
    /\ Enter(r, "unlink")
    /\ UNCHANGED <<row, asked, disk, access, accepted, withdrawn>>

\* The assembled file loses its first name; if that is gone already, the
\* request ends with an error although the file is published.
Unlink(r) ==
    /\ At(r, "unlink")
    /\ DropTemp(r)
    /\ GotoIf(HasTemp(r), r, "clean")
    /\ UNCHANGED <<row, asked, file, access, accepted, published, withdrawn>>

MarkCompleted(r) ==
    /\ At(r, "mark completed")
    /\ MarkRow(Upload(r), "completed")
    /\ End(r)
    /\ UNCHANGED <<asked, disk, file, access, accepted, published, withdrawn>>

-----------------------------------------------------------------------------
(* cancelUpload *)

MarkCanceled(r) ==
    /\ At(r, "mark canceled")
    /\ MarkRow(Upload(r), "canceled")
    /\ Withdraw(r)
    /\ End(r)
    /\ UNCHANGED <<asked, disk, file, access, accepted, published>>

-----------------------------------------------------------------------------
(* Maintenance, administrators, other users of the mount, and restarts.    *)

\* expires_at passes; it is only ever looked at in an active row.
Lapse(u) ==
    /\ row[u].status = "active" /\ ~row[u].overdue
    /\ row' = [row EXCEPT ![u].overdue = TRUE]
    /\ UNCHANGED <<asked, disk, file, access, accepted, req, published, withdrawn>>

\* expireOperationalRows
Expire ==
    /\ \E u \in Uploads : row[u].status = "active" /\ row[u].overdue
    /\ row' = [u \in Uploads |-> IF row[u].status = "active" /\ row[u].overdue
                                 THEN [row[u] EXCEPT !.status = "expired"]
                                 ELSE row[u]]
    /\ withdrawn' = withdrawn \cup Unattended({u \in Uploads : row[u].overdue})
    /\ UNCHANGED <<asked, disk, file, access, accepted, req, published>>

\* A grant, a membership or the mount's mode no longer allows writing.
Revoke ==
    /\ writable
    /\ writable' = FALSE
    /\ CancelActive(Uploads)
    /\ withdrawn' = withdrawn \cup Unattended(Uploads)
    /\ UNCHANGED <<asked, disk, file, mount, accepted, req, published>>

\* renameMount, asked for something else than the mode, writes back the mode
\* it had read before: read-only, without a word to the uploads.
WriteBackMode ==
    /\ writable
    /\ writable' = FALSE
    /\ UNCHANGED <<row, asked, disk, file, mount, accepted, req, published, withdrawn>>

\* A grant, a membership or the mode again, or a mode that is written back.
Regrant ==
    /\ ~writable /\ mount # "deleted"
    /\ writable' = TRUE
    /\ UNCHANGED <<row, asked, disk, file, mount, accepted, req, published, withdrawn>>

DeleteMount ==
    /\ mount # "deleted"
    /\ mount' = "deleted"
    /\ writable' = FALSE
    /\ CancelActive(Uploads)
    /\ withdrawn' = withdrawn \cup Unattended(Uploads)
    /\ UNCHANGED <<asked, disk, file, accepted, req, published>>

Reverify ==
    /\ mount = "unavailable"
    /\ mount' = "active"
    /\ UNCHANGED <<row, asked, disk, file, writable, accepted, req, published, withdrawn>>

OthersCreate(t) ==
    /\ Free(t)
    /\ file' = [file EXCEPT ![t] = [by |-> Others, size |-> 0]]
    /\ UNCHANGED <<row, asked, disk, access, accepted, req, published, withdrawn>>

OthersRemove(t) ==
    /\ ~Free(t)
    /\ file' = [file EXCEPT ![t] = NoFile]
    /\ UNCHANGED <<row, asked, disk, access, accepted, req, published, withdrawn>>

\* Requests are cut off at any step.  Database and disk stay as they are, but
\* for temporary files, which nobody opens again: any removal lists them.
Crash ==
    /\ \E r \in Requests : ~At(r, "idle")
    /\ req' = [r \in Requests |-> Idle]
    /\ disk' = [u \in Uploads |-> [disk[u] EXCEPT !.temps = {}]]
    /\ UNCHANGED <<row, asked, file, access, accepted, published, withdrawn>>

-----------------------------------------------------------------------------
RemoveAll(r) ==
    \/ ListDir(r) \/ UnlinkManifest(r) \/ RemoveDir(r) \/ FailRemoval(r)
    \/ \E n \in Parts : UnlinkPart(r, n)
    \/ \E o \in Requests : UnlinkTemp(r, o)

Create(r) ==
    \/ MakeDir(r) \/ SaveFirstManifest(r) \/ FailFirstManifest(r)
    \/ InsertRow(r) \/ Recheck(r) \/ UndoRow(r)

WritePart(r) ==
    \/ ReadForPart(r) \/ ReceivePart(r) \/ SaveManifest(r) \/ FailPart(r) \/ AcceptPart(r)
    \/ \E n \in Parts, s \in Sizes : StorePart(r, n, s)

CompleteUpload(r) ==
    \/ ReadForComplete(r) \/ Verify(r) \/ CreateFinal(r) \/ AssemblePart(r) \/ CheckSize(r)
    \/ FailComplete(r) \/ Link(r) \/ Unlink(r) \/ MarkCompleted(r)

Advance(r) ==
    \/ Create(r) \/ Authorize(r) \/ WritePart(r) \/ CompleteUpload(r) \/ MarkCanceled(r)
    \/ RemoveAll(r)

Start(r) ==
    \/ \E u \in Uploads, t \in Targets, d \in Sizes : StartCreate(r, u, t, d)
    \/ \E u \in Uploads, wait \in DOMAIN FirstStep : LoadUpload(r, u, wait)

Environment ==
    \/ \E u \in Uploads : Lapse(u)
    \/ \E t \in Targets : OthersCreate(t) \/ OthersRemove(t)
    \/ Revoke \/ WriteBackMode \/ Regrant \/ DeleteMount \/ Reverify

Next ==
    \/ \E r \in Requests : Start(r) \/ Advance(r)
    \/ Expire
    \/ Environment
    \/ Crash

Spec == Init /\ [][Next]_vars

-----------------------------------------------------------------------------
Steps == {"idle", "mkdir", "first manifest", "insert", "recheck", "undo row",
          "receive part", "store part", "save manifest", "accept", "verify", "create final",
          "assemble", "link", "unlink", "mark completed", "mark canceled"}
         \cup DOMAIN FirstStep \cup {FirstStep[w] : w \in DOMAIN FirstStep}
         \cup DOMAIN Removing \cup DOMAIN Removed

TypeOK ==
    /\ row \in [Uploads -> [status : {"none", "active", "completed", "canceled", "expired"},
                            overdue : BOOLEAN]]
    /\ asked \in [Uploads -> [target : Targets, declared : Sizes]]
    /\ disk \in [Uploads -> [state : {"none", "made", "ready"},
                             manifest : PartSizes, parts : PartSizes,
                             temps : SUBSET Requests]]
    /\ file \in [Targets -> [by : Uploads \cup {Others, NoUpload}, size : Sizes]]
    /\ mount \in {"active", "unavailable", "deleted"}
    /\ writable \in BOOLEAN
    /\ accepted \in [Uploads -> SUBSET Parts]
    /\ req \in [Requests -> [step : Steps, upload : Uploads \cup {NoUpload}, number : Parts \cup {1},
                             seen : PartSizes, next : 1 .. (MaxPart + 1),
                             written : Nat,
                             left : [manifest : BOOLEAN, parts : SUBSET Parts,
                                     temps : SUBSET Requests]]]
    /\ published \in SUBSET Uploads
    /\ withdrawn \in SUBSET Uploads

\* Nothing half-finished becomes visible: a published file has its declared
\* size, whatever parts were rewritten while it was assembled.
PublishedWhole ==
    \A t \in Targets : file[t].by \in Uploads => file[t].size = Declared(file[t].by)

\* An upload replaces no file, not even one that appeared after its checks.
NothingOverwritten ==
    [][\A t \in Targets : ~Free(t) => file'[t] \in {file[t], NoFile}]_vars

\* Once a cancellation has removed the directory, the file never appears any
\* more, even if a completion was under way and had assembled it.  Where the
\* directory stays, because of an error or of what came in after it was listed,
\* it is the row that ends the upload, as it does at a revocation, the deletion of
\* the mount and the expiry: the file never appears if no other request was at the
\* upload, whatever is granted again afterwards.  (If one was, and makes its final
\* file after the listing, it is published after the cancellation was answered.)
WithdrawnStaysUnpublished ==
    [][\A u \in withdrawn : u \in published' => u \in published]_vars

\* However requests interleave, a stored manifest never accounts for more
\* than the declared size.
ManifestWithinDeclared ==
    \A u \in Uploads : Received(disk[u].manifest) <= Declared(u)

\* A row says completed only if the file was published, whatever other requests
\* removed of the upload and wherever the completion was cut off.
RowsTruthful ==
    \A u \in Uploads : row[u].status = "completed" => u \in published

-----------------------------------------------------------------------------
(* What the documentation says and the code does not do.                   *)

=============================================================================
