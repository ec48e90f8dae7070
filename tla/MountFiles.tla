---------------------------- MODULE MountFiles ----------------------------
(***************************************************************************)
(* Files in mounts and where they go: renaming, the trash of managed       *)
(* mounts, copies and moves from one mount to another (internal/files and  *)
(* the handlers of file_ops.go).                                           *)
(*                                                                         *)
(* Nothing here is a transaction: each operation looks at the file system  *)
(* and changes it in several calls, which interleave with those of other   *)
(* requests, may fail, and of which the last may never come when the       *)
(* process is killed.  A rename replaces whatever is at its target, and    *)
(* RemoveAll of a directory lists it, unlinks what it has found and then   *)
(* fails if something has come in.                                         *)
(*                                                                         *)
(* A place is a mount and a name; directories inside a mount are left out. *)
(* What is in a place is a file's data, whole; the file that a request is  *)
(* still writing, which is known by the request; or a piece: what a write  *)
(* that was broken off, or the metadata of the trash, has left of a file.  *)
(***************************************************************************)
CONSTANTS
    Areas,          \* mounts
    Managed,        \* the mounts of kind managed, which have a trash
    Places,         \* the places there are: pairs of a mount and a name
    Beside,         \* [Places -> Places \cup {NoPlace}]: the conflict-safe name of
                    \* one second (bound: nothing is restored to NoPlace)
    MetaPlaces,     \* the places whose name is meta.json
    NoPlace,
    Data,           \* contents of files
    NoFile, Piece,
    Items,          \* directories in the trash (ids are random)
    NoItem,
    Workers         \* concurrent requests

ASSUME FilesAssumption ==
    /\ Managed \subseteq Areas
    /\ \A p \in Places : p[1] \in Areas
    /\ NoPlace \notin Places /\ MetaPlaces \subseteq Places
    /\ Beside \in [Places -> Places \cup {NoPlace}]
    /\ \A p \in Places : Beside[p] # NoPlace => Beside[p][1] = p[1]
    /\ NoItem \notin Items
    /\ {NoFile, Piece} \cap (Data \cup Workers) = {} /\ Data \cap Workers = {}
    /\ NoFile # Piece /\ Piece \notin Places \cup {NoPlace}

VARIABLES
    content,    \* the file in each place
    trash,      \* .omnora/trash/<id>: the object and meta.json in each directory
    work        \* the requests: step and local variables

filesVars == <<content, trash, work>>

\* `meta` is what meta.json says, a piece of it, or that there is none.  `self`:
\* the object has that name, and the two are one file.  `torn` is history: the
\* process was killed while a request was at the item, or one that removed the
\* directory had to leave it.
NoDirectory == [there |-> FALSE, object |-> NoFile, meta |-> NoPlace, self |-> FALSE,
                torn |-> FALSE]

\* A request remembers the places from and to, the item or the items it is
\* about, and the file it has opened to copy; and, in RemoveAll, the names it
\* has yet to unlink, and `why` the directory is removed.  `checked` is history:
\* the copy was whole, or another file stood in its place, when it was verified.
Resting == [step |-> "rest", from |-> NoPlace, to |-> NoPlace, item |-> NoItem,
            items |-> {}, names |-> {}, why |-> "tidy", file |-> NoFile,
            move |-> FALSE, checked |-> FALSE]

FilesInit ==
    /\ content = [p \in Places |-> NoFile]
    /\ trash = [i \in Items |-> NoDirectory]
    /\ work = [r \in Workers |-> Resting]

-----------------------------------------------------------------------------
On(r, step) == work[r].step = step
Turn(r, step) == work' = [work EXCEPT ![r].step = step]
Rest(r) == work' = [work EXCEPT ![r] = Resting]

Taken(p) == content[p] # NoFile
Held(d) == (\E p \in Places : content[p] = d) \/ (\E i \in Items : trash[i].object = d)

\* What becomes of the file that a request writes, wherever it is by now.
Written(r, d) ==
    /\ content' = [p \in Places |-> IF content[p] = r THEN d ELSE content[p]]
    /\ trash' = [i \in Items |-> IF trash[i].object = r THEN [trash[i] EXCEPT !.object = d]
                                                        ELSE trash[i]]

\* os.Root.Rename of what is known to be there.
Renamed(p, q) == content' = [content EXCEPT ![p] = NoFile, ![q] = content[p]]

\* The directory x of the trash, without its object.
WithoutObject(x) == [x EXCEPT !.object = NoFile, !.meta = IF x.self THEN NoPlace ELSE @]

\* A file is uploaded, or put there by the host.
Create(p, d) ==
    /\ ~Taken(p) /\ ~Held(d)
    /\ content' = [content EXCEPT ![p] = d]
    /\ UNCHANGED <<trash, work>>

-----------------------------------------------------------------------------
(* Rename, Move, Delete. *)

\* moveWithinMount looks for a file at the target ...
StartRename(r, p, q) ==
    /\ On(r, "rest")
    /\ p[1] = q[1] /\ Taken(p) /\ ~Taken(q)
    /\ work' = [work EXCEPT ![r] = [Resting EXCEPT !.step = "rename", !.from = p, !.to = q]]
    /\ UNCHANGED <<content, trash>>

\* ... and renames, whatever is there by now.
FinishRename(r) ==
    /\ On(r, "rename")
    /\ IF Taken(work[r].from) THEN Renamed(work[r].from, work[r].to) ELSE UNCHANGED content
    /\ Rest(r)
    /\ UNCHANGED trash

StartDelete(r, p) ==
    /\ On(r, "rest") /\ Taken(p)
    /\ work' = [work EXCEPT ![r] = [Resting EXCEPT !.step = "delete", !.from = p]]
    /\ UNCHANGED <<content, trash>>

FinishDelete(r) ==
    /\ On(r, "delete")
    /\ content' = [content EXCEPT ![work[r].from] = NoFile]
    /\ Rest(r)
    /\ UNCHANGED trash

-----------------------------------------------------------------------------
(* RemoveAll of a directory in the trash. *)

Entries(x) ==
    {n \in {"object", "meta"} :
        IF n = "object" THEN x.object # NoFile ELSE x.meta # NoPlace /\ ~x.self}

\* RemoveAll lists the directory x, which it is called for to purge it, to undo a
\* deletion, or to tidy up what should be empty.  The listing belongs to the
\* step before: what happens in between only takes entries away, but for a
\* purge, which may as well have come later.
Remove(r, i, x, why) ==
    work' = [work EXCEPT ![r] = [Resting EXCEPT
                !.step = "unlink", !.item = i, !.names = Entries(x), !.why = why,
                !.items = work[r].items \ {i}]]

\* EmptyTrash goes on to the next directory, whether this one is gone or not.
Removed(r) ==
    work' = [work EXCEPT ![r] = IF work[r].items = {} THEN Resting
                                ELSE [Resting EXCEPT !.step = "empty", !.items = work[r].items]]

\* What has been renamed or unlinked by others meanwhile is no error.
Unlink(r, n) ==
    /\ On(r, "unlink") /\ n \in work[r].names
    /\ trash' = [trash EXCEPT ![work[r].item] =
            IF n = "object" THEN WithoutObject(@) ELSE [@ EXCEPT !.meta = NoPlace]]
    /\ work' = [work EXCEPT ![r].names = @ \ {n}]
    /\ UNCHANGED content

RemoveDirectory(r) ==
    /\ On(r, "unlink") /\ work[r].names = {}
    /\ Entries(trash[work[r].item]) = {}
    /\ trash' = [trash EXCEPT ![work[r].item] = NoDirectory]
    /\ Removed(r)
    /\ UNCHANGED content

\* Something has come in since the directory was listed, or cannot be removed.
LeaveDirectory(r) ==
    /\ On(r, "unlink")
    /\ trash[work[r].item].there
    /\ trash' = [trash EXCEPT ![work[r].item].torn = TRUE]
    /\ Removed(r)
    /\ UNCHANGED content

-----------------------------------------------------------------------------
(* SoftDelete *)

\* An id that no request knows, of a directory that does not exist.
Unused(i) == ~trash[i].there /\ \A r \in Workers : work[r].item # i /\ i \notin work[r].items

StartTrash(r, p, i) ==
    /\ On(r, "rest")
    /\ p[1] \in Managed /\ Taken(p) /\ Unused(i)
    /\ trash' = [trash EXCEPT ![i] = [NoDirectory EXCEPT !.there = TRUE,
                                                         !.self = p \in MetaPlaces]]
    /\ work' = [work EXCEPT ![r] = [Resting EXCEPT !.step = "bin", !.from = p, !.item = i]]
    /\ UNCHANGED content

MoveToTrash(r) ==
    /\ On(r, "bin")
    /\ LET p == work[r].from
           i == work[r].item
       IN /\ Taken(p) /\ trash[i].there
          /\ trash' = [trash EXCEPT ![i].object = content[p]]
          /\ content' = [content EXCEPT ![p] = NoFile]
    /\ Turn(r, "meta")

\* There is nothing to rename, or no directory to rename it into, or the rename
\* fails for another reason.
FailToTrash(r) ==
    /\ On(r, "bin")
    /\ Remove(r, work[r].item, trash[work[r].item], "tidy")
    /\ UNCHANGED <<content, trash>>

\* meta.json is created in the directory, or truncated: the object itself, when
\* that is its name.
Overwritten(x, meta) == [x EXCEPT !.meta = meta, !.object = IF x.self THEN Piece ELSE @]

\* writeTrashMeta
WriteMeta(r) ==
    /\ On(r, "meta")
    /\ LET i == work[r].item IN
        /\ trash[i].there
        /\ trash' = [trash EXCEPT ![i] = Overwritten(@, work[r].from)]
    /\ Rest(r)
    /\ UNCHANGED content

\* It fails, and always does when the directory was removed meanwhile: before
\* the file is opened, while it is written, or when it is synced.
FailMeta(r) ==
    /\ On(r, "meta")
    /\ \/ UNCHANGED trash
       \/ /\ trash[work[r].item].there
          /\ \E meta \in {Piece, work[r].from} :
                trash' = [trash EXCEPT ![work[r].item] = Overwritten(@, meta)]
    /\ Turn(r, "undo")
    /\ UNCHANGED content

\* The object is renamed back, or that fails, too; the directory is removed.
UndoTrash(r) ==
    /\ On(r, "undo")
    /\ LET x == trash[work[r].item] IN
        \/ /\ x.object # NoFile
           /\ content' = [content EXCEPT ![work[r].from] = x.object]
           /\ trash' = [trash EXCEPT ![work[r].item] = WithoutObject(@)]
        \/ UNCHANGED <<content, trash>>
    /\ Remove(r, work[r].item, trash'[work[r].item], "undo")

-----------------------------------------------------------------------------
(* RestoreTrash, PurgeTrash, EmptyTrash *)

\* The metadata is read, and a place looked for that is free, or was not looked
\* at.
StartRestore(r, i) ==
    /\ On(r, "rest")
    /\ trash[i].meta \in Places
    /\ LET p == trash[i].meta
           target == IF Taken(p) THEN Beside[p] ELSE p
       IN /\ target # NoPlace
          /\ work' = [work EXCEPT ![r] = [Resting EXCEPT !.step = "restore", !.item = i,
                                                         !.to = target]]
    /\ UNCHANGED <<content, trash>>

Restored(r) ==
    LET x == trash[work[r].item] IN
    /\ x.object # NoFile
    /\ content' = [content EXCEPT ![work[r].to] = x.object]
    /\ trash' = [trash EXCEPT ![work[r].item] = WithoutObject(@)]

\* Mutant of FinishRestore: the directory is not removed.
FinishRestoreOnly(r) ==
    /\ On(r, "restore")
    /\ Restored(r)
    /\ Rest(r)

FinishRestore(r) ==
    /\ On(r, "restore")
    /\ Restored(r)
    /\ Remove(r, work[r].item, trash'[work[r].item], "tidy")

\* Mutant of FailRestore: the directory is removed all the same.
FailRestoreAndRemove(r) ==
    /\ On(r, "restore")
    /\ Remove(r, work[r].item, trash[work[r].item], "tidy")
    /\ UNCHANGED <<content, trash>>

\* The object was restored or purged meanwhile, or the rename fails for another
\* reason.
FailRestore(r) ==
    /\ On(r, "restore")
    /\ Rest(r)
    /\ UNCHANGED <<content, trash>>

StartPurge(r, i) ==
    /\ On(r, "rest") /\ trash[i].there
    /\ Remove(r, i, trash[i], "purge")
    /\ UNCHANGED <<content, trash>>

\* The directories that EmptyTrash finds, of deletions in progress, too.
StartEmpty(r) ==
    /\ On(r, "rest")
    /\ LET found == {i \in Items : trash[i].there} IN
        /\ found # {}
        /\ work' = [work EXCEPT ![r] = [Resting EXCEPT !.step = "empty", !.items = found]]
    /\ UNCHANGED <<content, trash>>

EmptyNext(r, i) ==
    /\ On(r, "empty") /\ i \in work[r].items
    /\ Remove(r, i, trash[i], "purge")
    /\ UNCHANGED <<content, trash>>

-----------------------------------------------------------------------------
(* CopyAcrossMounts, MoveAcrossMounts *)

StartCopy(r, p, q, move) ==
    /\ On(r, "rest")
    /\ p[1] # q[1] /\ p[2] = q[2] /\ ~Taken(q) /\ Taken(p)
    /\ work' = [work EXCEPT ![r] = [Resting EXCEPT !.step = "create", !.from = p, !.to = q,
                                                   !.move = move]]
    /\ UNCHANGED <<content, trash>>

\* From here on only the destination matters.
GiveUp(r) ==
    work' = [work EXCEPT ![r] = [Resting EXCEPT !.step = "clean up", !.to = work[r].to]]

\* copyFileVerified opens the source and creates the copy, O_EXCL.
CreateCopy(r) ==
    /\ On(r, "create")
    /\ LET p == work[r].from
           q == work[r].to
       IN IF Taken(p) /\ ~Taken(q)
          THEN /\ content' = [content EXCEPT ![q] = r]
               /\ work' = [work EXCEPT ![r] = [@ EXCEPT !.step = "copy", !.file = content[p]]]
          ELSE GiveUp(r) /\ UNCHANGED content
    /\ UNCHANGED trash

\* Mutant of WriteCopy: the file to write is looked for by its name.
WriteCopyByName(r) ==
    /\ On(r, "copy")
    /\ content' = [content EXCEPT ![work[r].to] =
            IF work[r].file \in Data THEN work[r].file ELSE Piece]
    /\ Turn(r, "verify")
    /\ UNCHANGED trash

\* The copy is written, to the file that was created wherever that is by now.
\* Reading a file that is still being written, or a piece, gives a piece.
WriteCopy(r) ==
    /\ On(r, "copy")
    /\ Written(r, IF work[r].file \in Data THEN work[r].file ELSE Piece)
    /\ Turn(r, "verify")

\* Nothing can be written any more, or less is read than the source once had.
FailCopy(r) ==
    /\ On(r, "copy")
    /\ Written(r, Piece)
    /\ GiveUp(r)

Copied(r) == content[work[r].to]

\* A copy ends here, a move goes on.
CopyDone(r) ==
    work' = [work EXCEPT ![r] =
        IF work[r].move
        THEN [Resting EXCEPT !.step = "remove source", !.from = work[r].from,
                             !.file = work[r].file, !.checked = Copied(r) \notin {NoFile, Piece}]
        ELSE Resting]

\* Mutant of VerifyCopy: the copy is taken to be there.
VerifyNothing(r) ==
    /\ On(r, "verify")
    /\ CopyDone(r)
    /\ UNCHANGED <<content, trash>>

\* The size of what is at the destination is compared with that of the source:
\* another file may have the same, but a piece only that of a piece.
VerifyCopy(r) ==
    /\ On(r, "verify")
    /\ Copied(r) # NoFile
    /\ Copied(r) = Piece => work[r].file \notin Data
    /\ CopyDone(r)
    /\ UNCHANGED <<content, trash>>

FailVerify(r) ==
    /\ On(r, "verify")
    /\ Copied(r) # work[r].file
    /\ GiveUp(r)
    /\ UNCHANGED <<content, trash>>

\* Whatever is at the destination by now is removed.
CleanUp(r) ==
    /\ On(r, "clean up")
    /\ content' = [content EXCEPT ![work[r].to] = NoFile]
    /\ Rest(r)
    /\ UNCHANGED trash

\* Delete of whatever is at the source by now; of nothing, it fails.
RemoveSource(r) ==
    /\ On(r, "remove source")
    /\ content' = [content EXCEPT ![work[r].from] = NoFile]
    /\ Rest(r)
    /\ UNCHANGED trash

-----------------------------------------------------------------------------
AtItem == {"bin", "meta", "undo", "unlink"}
AtWork(i) == \E r \in Workers : work[r].item = i /\ work[r].step \in AtItem

\* The process is killed.
KillWorkers ==
    /\ \E r \in Workers : ~On(r, "rest")
    /\ content' = [p \in Places |-> IF content[p] \in Workers THEN Piece ELSE content[p]]
    /\ trash' = [i \in Items |-> [trash[i] EXCEPT
            !.object = IF @ \in Workers THEN Piece ELSE @,
            !.torn = @ \/ (trash[i].there /\ AtWork(i))]]
    /\ work' = [r \in Workers |-> Resting]

FilesNext ==
    \/ \E p \in Places, d \in Data : Create(p, d)
    \/ \E r \in Workers, p, q \in Places : StartRename(r, p, q)
    \/ \E r \in Workers, p, q \in Places, move \in BOOLEAN : StartCopy(r, p, q, move)
    \/ \E r \in Workers, p \in Places : StartDelete(r, p)
    \/ \E r \in Workers, p \in Places, i \in Items : StartTrash(r, p, i)
    \/ \E r \in Workers, i \in Items : StartRestore(r, i) \/ StartPurge(r, i) \/ EmptyNext(r, i)
    \/ \E r \in Workers, n \in {"object", "meta"} : Unlink(r, n)
    \/ \E r \in Workers :
        \/ FinishRename(r) \/ FinishDelete(r)
        \/ RemoveDirectory(r) \/ LeaveDirectory(r)
        \/ MoveToTrash(r) \/ FailToTrash(r) \/ WriteMeta(r) \/ FailMeta(r) \/ UndoTrash(r)
        \/ FinishRestore(r) \/ FailRestore(r) \/ StartEmpty(r)
        \/ CreateCopy(r) \/ WriteCopy(r) \/ FailCopy(r) \/ VerifyCopy(r) \/ FailVerify(r)
        \/ CleanUp(r) \/ RemoveSource(r)
    \/ KillWorkers

FilesSpec == FilesInit /\ [][FilesNext]_filesVars

-----------------------------------------------------------------------------
WorkSteps == AtItem \cup
    {"rest", "rename", "delete", "restore", "empty", "create", "copy", "verify", "clean up",
     "remove source"}
Stuff == Data \cup Workers \cup {NoFile, Piece}

\* A file is half-written only as long as the request that writes it is at it.
FilesTypeOK ==
    /\ content \in [Places -> Stuff]
    /\ trash \in [Items -> [there : BOOLEAN, object : Stuff, meta : Places \cup {NoPlace, Piece},
                            self : BOOLEAN, torn : BOOLEAN]]
    /\ work \in [Workers -> [step : WorkSteps, from : Places \cup {NoPlace},
                             to : Places \cup {NoPlace}, item : Items \cup {NoItem},
                             items : SUBSET Items, names : SUBSET {"object", "meta"},
                             why : {"purge", "undo", "tidy"}, file : Stuff,
                             move : BOOLEAN, checked : BOOLEAN]]
    /\ \A r \in Workers : Held(r) => On(r, "copy")

\* A directory in the trash holds an object and its metadata, so that it is
\* listed and can be restored: no restoration, failed deletion or purge leaves
\* one behind that lacks either, unless a request is still at work on it, or the
\* process was killed while one was, or a request that removed the directory had
\* to leave it: EmptyTrash when a deletion in progress wrote its metadata after
\* the directory had been listed, or any of them when something cannot be
\* unlinked.
TrashWhole ==
    \A i \in Items : trash[i].there /\ ~trash[i].torn /\ ~AtWork(i) =>
        trash[i].object # NoFile /\ trash[i].meta \in Places

Unlinks(r, d, why) ==
    On(r, "unlink") /\ work[r].why = why /\ trash[work[r].item].object = d

\* What a request deletes because it was asked to.
Deletes(r, d) ==
    \/ On(r, "delete") /\ content[work[r].from] = d
    \/ Unlinks(r, d, "purge")

\* What it overwrites or removes because another file has come into the place
\* that it had found free, or that it had emptied or filled itself.
Overtaken(r, d) ==
    \/ work[r].step \in {"rename", "restore", "clean up"} /\ content[work[r].to] = d
    \/ On(r, "undo") /\ content[work[r].from] = d
    \/ /\ On(r, "remove source") /\ content[work[r].from] = d
       /\ d # work[r].file \/ work[r].checked

\* What SoftDelete loses of its own: a file called meta.json, and, when the
\* metadata cannot be written and the object cannot be renamed back, the object.
Bungles(r, d) ==
    \/ /\ On(r, "meta") /\ work[r].from \in MetaPlaces
       /\ trash[work[r].item].object = d
    \/ Unlinks(r, d, "undo")

\* Data is lost only by a request to delete it, by two requests racing for one
\* place, or by a deletion in one of two ways: that of a file called meta.json,
\* and one that fails twice.  No kill, no other error at any step of a deletion,
\* restoration, copy or move, and no other interleaving of them loses any.
LostOnlyOnPurpose ==
    [][\A d \in Data : Held(d) /\ ~Held(d)' =>
            \E r \in Workers :
                work'[r] # work[r] /\ (Deletes(r, d) \/ Overtaken(r, d) \/ Bungles(r, d))]_filesVars
=============================================================================
