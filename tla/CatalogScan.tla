---------------------------- MODULE CatalogScan ----------------------------
(***************************************************************************)
(* One full scan of a mount after another: internal/catalog/service.go,    *)
(* called batch by batch from runCatalogScanBatch with the cursor that the *)
(* job's checkpoint keeps, while others change the tree between batches.   *)
(*                                                                         *)
(* A batch walks the tree depth first, the entries of a directory in the   *)
(* order of their names, and collects entries whose path, compared as a    *)
(* string, lies after the cursor.  A path is a sequence of names, a name a *)
(* sequence of characters; the string of a path joins them by Slash.       *)
(***************************************************************************)
EXTENDS Naturals, FiniteSets, SequencesExt

CONSTANTS
    Paths,  \* bound: the paths that can exist, parents included
    Slash,  \* the separator, a number like every character
    Limit   \* entries per batch

Root == <<>>
Names == Seq(Nat \ {Slash}) \ {<<>>}

ASSUME SlashAssumption == Slash \in Nat
ASSUME PathsAssumption ==
    /\ IsFiniteSet(Paths)
    /\ \A p \in Paths : p \in Seq(Names) \ {Root} /\ Front(p) \in Paths \cup {Root}
ASSUME LimitAssumption == Limit \in Nat \ {0}

VARIABLES
    tree,       \* what stands at a path
    catalog,    \* catalog_entries: the kind under which a path is indexed
    cursor,     \* checkpoint of the job
    scanning,   \* the job is neither completed nor yet to be enqueued
    stable,     \* history: entries as they are since the scan was enqueued
    batches     \* history: batches since the scan was enqueued

vars == <<tree, catalog, cursor, scanning, stable, batches>>

Indexed == {"file", "directory"}
\* Symbolic links, special files and names that are not clean are skipped.
Kinds == Indexed \cup {"skipped"}

Init ==
    /\ tree = [p \in Paths |-> "none"]
    /\ catalog = [p \in Paths |-> "none"]
    /\ cursor = <<>>
    /\ scanning = FALSE
    /\ stable = {}
    /\ batches = 0

-----------------------------------------------------------------------------
\* The order of Go's strings.
Less(s, t) ==
    \E n \in 0 .. Len(s) :
        /\ n < Len(t)
        /\ \A i \in 1 .. n : s[i] = t[i]
        /\ n = Len(s) \/ s[n + 1] < t[n + 1]

\* relativePath of an entry: joinRelativePath, from the root down
Text(p) ==
    LET text[n \in DOMAIN p] ==
            IF n = 1 THEN p[1] ELSE text[n - 1] \o <<Slash>> \o p[n]
    IN  text[Len(p)]

\* os.ReadDir: the entries of a directory
Entries(t, dir) == {p \in Paths : Front(p) = dir /\ t[p] # "none"}

\* Mutant of FirstOf: the entries are taken from the last to the first.
FirstOfReversed(entries) == CHOOSE p \in entries : \A q \in entries : ~Less(Last(p), Last(q))

\* sort.Slice: the next of them by name
FirstOf(entries) == CHOOSE p \in entries : \A q \in entries : ~Less(Last(q), Last(p))

\* Mutant of IsNew: the cursor is forgotten.
IsNewAlways(p, c) == TRUE

IsNew(p, c) == Less(c, Text(p))

\* Mutant of Descends: a directory before the cursor is taken to be done.
DescendsAfterCursor(t, p, c) == t[p] = "directory" /\ IsNew(p, c)

\* Every directory is walked, whatever the cursor.
Descends(t, p, c) == t[p] = "directory"

Collect(b, p, c) == IF IsNew(p, c) THEN [b EXCEPT !.found = Append(@, p)] ELSE b

Full(b) == Len(b.found) >= Limit
Stop(b) == [b EXCEPT !.complete = FALSE]

Batches == [found : Seq(Paths), complete : BOOLEAN]
Siblings == {s \in SUBSET Paths : \A p, q \in s : Front(p) = Front(q)}

\* The closure `walk` of collectBatch, from some entries of a directory on:
\* what becomes of the batch b.
Walk(t, c) ==
    LET walk[left \in Siblings] == [b \in Batches |->
        LET p == FirstOf(left)
            with == Collect(b, p, c)
            below == IF ~Descends(t, p, c) THEN with
                     ELSE IF Full(with) THEN Stop(with)
                     ELSE walk[Entries(t, p)][with]
        IN  IF left = {} THEN b
            ELSE IF Full(b) THEN Stop(b)
            ELSE walk[left \ {p}][IF t[p] \in Indexed THEN below ELSE b]]
    IN  walk

CollectBatch(t, c) == Walk(t, c)[Entries(t, Root)][[found |-> <<>>, complete |-> TRUE]]

-----------------------------------------------------------------------------
\* A scan is enqueued: its checkpoint is empty.
EnqueueScan ==
    /\ ~scanning
    /\ scanning' = TRUE
    /\ cursor' = <<>>
    /\ stable' = {p \in Paths : tree[p] \in Indexed}
    /\ batches' = 0
    /\ UNCHANGED <<tree, catalog>>

\* Mutant of ScanBatch: a batch that is complete is not written.
ScanBatchUnwritten ==
    /\ scanning
    /\ LET batch == CollectBatch(tree, cursor) IN
        /\ catalog' = IF batch.complete THEN catalog
                      ELSE [p \in Paths |-> IF p \in ToSet(batch.found) THEN tree[p] ELSE catalog[p]]
        /\ scanning' = ~batch.complete
        /\ cursor' = IF batch.complete THEN <<>> ELSE Text(Last(batch.found))
    /\ batches' = batches + 1
    /\ UNCHANGED <<tree, stable>>

\* Mutant of ScanBatch: the entries are marked as scanned instead.
ScanBatchWithoutKind ==
    /\ scanning
    /\ LET batch == CollectBatch(tree, cursor) IN
        /\ catalog' = [p \in Paths |-> IF p \in ToSet(batch.found) THEN "skipped" ELSE catalog[p]]
        /\ scanning' = ~batch.complete
        /\ cursor' = IF batch.complete THEN <<>> ELSE Text(Last(batch.found))
    /\ batches' = batches + 1
    /\ UNCHANGED <<tree, stable>>

\* ScanBatch: collect, upsert in one transaction, and go on after the last
\* entry, or complete the job.  A batch that fails (an entry that vanishes
\* under the walk, a failed transaction) leaves everything as it was.
ScanBatch ==
    /\ scanning
    /\ LET batch == CollectBatch(tree, cursor) IN
        /\ catalog' = [p \in Paths |-> IF p \in ToSet(batch.found) THEN tree[p] ELSE catalog[p]]
        /\ scanning' = ~batch.complete
        /\ cursor' = IF batch.complete THEN <<>> ELSE Text(Last(batch.found))
    /\ batches' = batches + 1
    /\ UNCHANGED <<tree, stable>>

-----------------------------------------------------------------------------
(* Other users of the mount, between two batches.                          *)

AddEntry(p, kind) ==
    /\ tree[p] = "none"
    /\ Front(p) \in {Root} \cup {q \in Paths : tree[q] = "directory"}
    /\ tree' = [tree EXCEPT ![p] = kind]
    /\ UNCHANGED <<catalog, cursor, scanning, stable, batches>>

\* An entry goes, with everything below it.
RemoveEntry(p) ==
    /\ tree[p] # "none"
    /\ tree' = [q \in Paths |-> IF IsPrefix(p, q) THEN "none" ELSE tree[q]]
    /\ stable' = {q \in stable : ~IsPrefix(p, q)}
    /\ UNCHANGED <<catalog, cursor, scanning, batches>>

Next ==
    \/ EnqueueScan
    \/ ScanBatch
    \/ \E p \in Paths : RemoveEntry(p) \/ \E kind \in Kinds : AddEntry(p, kind)

Spec == Init /\ [][Next]_vars

-----------------------------------------------------------------------------
TypeOK ==
    /\ tree \in [Paths -> Kinds \cup {"none"}]
    /\ catalog \in [Paths -> Indexed \cup {"none"}]
    /\ cursor \in {Text(p) : p \in Paths} \cup {<<>>}
    /\ scanning \in BOOLEAN
    /\ stable \in SUBSET Paths
    /\ batches \in Nat

\* The order of the walk: a directory before what is in it, and two entries
\* as the names by which their paths first differ.
WalkBefore(p, q) ==
    p # q /\ (IsPrefix(p, q) \/ \E n \in 1 .. Len(p) :
        /\ n <= Len(q)
        /\ \A i \in 1 .. n - 1 : p[i] = q[i]
        /\ Less(p[n], q[n]))

\* What the recursive walk collects is, in the order of the walk, the first
\* entries after the cursor, and Limit of them unless there are no more; it
\* reports to be complete only if none is left out, and to be incomplete only
\* if it is full.
WalkCollectsFirst ==
    LET new == {p \in Paths : tree[p] \in Indexed /\ Less(cursor, Text(p))}
        batch == CollectBatch(tree, cursor)
        found == ToSet(batch.found)
    IN  /\ found \subseteq new
        /\ \A i, j \in DOMAIN batch.found :
            i < j => WalkBefore(batch.found[i], batch.found[j])
        /\ \A p \in found, q \in new \ found : WalkBefore(p, q)
        /\ Len(batch.found) <= Limit
        /\ found = new \/ Len(batch.found) = Limit
        /\ batch.complete => found = new
        /\ ~batch.complete => Len(batch.found) = Limit

\* Every batch that does not complete the scan leaves the cursor at an entry
\* beyond the one where it stood: no batch that was written is done again, and
\* so a scan is over after at most one batch per path and the last, however
\* the tree changes.
CursorAdvances == [][batches' > batches /\ scanning' => Less(cursor, cursor')]_vars

\* A completed scan has indexed, with its kind, every entry that stood there
\* throughout, but for one kind of loss: an entry that the walk reaches after
\* another one although its path, as a string, lies before.
MissesExplained ==
    ~scanning => \A p \in stable :
        \/ catalog[p] = tree[p]
        \/ \E q \in Paths : WalkBefore(q, p) /\ Less(Text(p), Text(q))

-----------------------------------------------------------------------------
(* What the documentation says and the code does not do.                   *)

\* "Reconciliation finally converges": a completed scan has indexed every
\* entry that stood there throughout.
StableEntriesIndexed == ~scanning => \A p \in stable : catalog[p] = tree[p]
=============================================================================
