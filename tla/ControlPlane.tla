---------------------------- MODULE ControlPlane ----------------------------
(***************************************************************************)
(* What administrators switch while the server runs: which route groups    *)
(* are exposed, and backups of the database and their restoration in place *)
(* (internal/server/route_groups.go, admin_control.go, internal/store).    *)
(*                                                                         *)
(* Whether a group is exposed is kept twice, in a table and in the memory  *)
(* of the server, which every request is checked against.  A restoration   *)
(* replaces the whole database, of which only the tables route_groups and  *)
(* backups are kept here.  A backup file is named after the second it is   *)
(* made in.                                                                *)
(***************************************************************************)
EXTENDS Naturals

CONSTANTS
    Groups,         \* route groups
    Overridden,     \* the groups that an environment variable decides on
    Override,       \* what it says: [Overridden -> BOOLEAN]
    Defaults,       \* the table of a new database: [Groups -> BOOLEAN]
    Backups,        \* rows of `backups` (ids are random)
    MaxSecond,      \* bound: seconds that pass
    NoFile,         \* no file
    Partial,        \* a file that a backup was broken off in
    Admins          \* concurrent requests of administrators

ASSUME ControlAssumption ==
    /\ Overridden \subseteq Groups /\ MaxSecond \in Nat
    /\ Override \in [Overridden -> BOOLEAN] /\ Defaults \in [Groups -> BOOLEAN]

Seconds == 0 .. MaxSecond
Never == MaxSecond + 1

\* What the file of a backup holds.
Snapshots == [exposed : [Groups -> BOOLEAN], kept : [Backups -> 0 .. Never]]

ASSUME SnapshotAssumption == NoFile \notin Snapshots /\ Partial \notin Snapshots

VARIABLES
    exposed,    \* route_groups.enabled
    routes,     \* cfg.Routes
    kept,       \* backups: the file of each row, by its second; Never without one
    file,       \* <ManagedDir>/backups: the snapshot in each file
    second,     \* the time
    ask,        \* the requests: step and local variables
    mixed,      \* history: groups that requests have been at in each other's way
    reused      \* history: seconds in which a file was backed up to more than once

controlVars == <<exposed, routes, kept, file, second, ask, mixed, reused>>

Waiting == [step |-> "wait", group |-> "none", value |-> FALSE, found |-> Defaults,
            todo |-> {}, second |-> Never]

\* RouteEnvOverrides come after what was loaded.
WithOverrides(found) == [g \in Groups |-> IF g \in Overridden THEN Override[g] ELSE found[g]]

ControlInit ==
    /\ exposed = WithOverrides(Defaults) /\ routes = exposed
    /\ kept = [b \in Backups |-> Never]
    /\ file = [s \in Seconds |-> NoFile]
    /\ second = 0
    /\ ask = [r \in Admins |-> Waiting]
    /\ mixed = {} /\ reused = {}

-----------------------------------------------------------------------------
Does(r, step) == ask[r].step = step
Answer(r) == ask' = [ask EXCEPT ![r] = Waiting]

Hydrating == {"read groups", "load", "store"}
InFlight(r, g) == ask[r].step \in Hydrating \/ (Does(r, "set") /\ ask[r].group = g)

\* A request begins to change groups: alone, or not.
Begins(r, groups) ==
    mixed' = (mixed \ groups) \cup {g \in groups : \E q \in Admins \ {r} : InFlight(q, g)}

\* routesMu is held while what was loaded is stored.
Locked == \E r \in Admins : Does(r, "store")

Tick ==
    /\ second < MaxSecond
    /\ second' = second + 1
    /\ UNCHANGED <<exposed, routes, kept, file, ask, mixed, reused>>

-----------------------------------------------------------------------------
(* updateAdminRouteGroup *)

\* persistRouteGroup
PersistRouteGroup(r, g, value) ==
    /\ Does(r, "wait")
    /\ exposed' = [exposed EXCEPT ![g] = value]
    /\ ask' = [ask EXCEPT ![r] = [Waiting EXCEPT !.step = "set", !.group = g, !.value = value]]
    /\ Begins(r, {g})
    /\ UNCHANGED <<routes, kept, file, second, reused>>

\* setRouteEnabled
SetRouteEnabled(r) ==
    /\ Does(r, "set") /\ ~Locked
    /\ routes' = [routes EXCEPT ![ask[r].group] = ask[r].value]
    /\ Answer(r)
    /\ UNCHANGED <<exposed, kept, file, second, mixed, reused>>

-----------------------------------------------------------------------------
(* createBackup *)

Snapshot == [exposed |-> exposed, kept |-> kept]

\* BackupTo, over whatever file has the name; the one connection that it takes
\* keeps everyone else from the database.
BackupTo(r) ==
    /\ Does(r, "wait")
    /\ file' = [file EXCEPT ![second] = Snapshot]
    /\ ask' = [ask EXCEPT ![r] = [Waiting EXCEPT !.step = "insert", !.second = second]]
    /\ reused' = IF file[second] # NoFile \/ \E q \in Admins : ask[q].second = second
                 THEN reused \cup {second} ELSE reused
    /\ UNCHANGED <<exposed, routes, kept, second, mixed>>

\* Mutant of FailBackup: the row says completed all the same.
FailBackupCompleted(r) ==
    /\ Does(r, "insert")
    /\ file' = [file EXCEPT ![ask[r].second] = NoFile]
    /\ kept' = [b \in Backups |-> IF kept[b] = Never THEN ask[r].second ELSE kept[b]]
    /\ Answer(r)
    /\ UNCHANGED <<exposed, routes, second, mixed, reused>>

\* BackupTo or verifyBackupFile fails: the file is removed, and the row that is
\* inserted has no path.
FailBackup(r) ==
    /\ Does(r, "insert")
    /\ file' = [file EXCEPT ![ask[r].second] = NoFile]
    /\ Answer(r)
    /\ UNCHANGED <<exposed, routes, kept, second, mixed, reused>>

\* The INSERT of the row, after the file was verified.
InsertBackup(r, b) ==
    /\ Does(r, "insert") /\ kept[b] = Never
    /\ file[ask[r].second] \notin {NoFile, Partial}
    /\ kept' = [kept EXCEPT ![b] = ask[r].second]
    /\ Answer(r)
    /\ UNCHANGED <<exposed, routes, file, second, mixed, reused>>

-----------------------------------------------------------------------------
(* restoreBackup, hydrateRouteGroups *)

\* Mutant of RestoreFrom: the route groups are not hydrated.
RestoreOnly(r, b) ==
    /\ Does(r, "wait") /\ kept[b] # Never
    /\ file[kept[b]] \notin {NoFile, Partial}
    /\ exposed' = file[kept[b]].exposed /\ kept' = file[kept[b]].kept
    /\ Begins(r, Groups)
    /\ UNCHANGED <<routes, file, second, ask, reused>>

\* The snapshot is verified and replaces the database.  (A file that another
\* backup of the same second removes between the two is left out.)
RestoreFrom(r, b) ==
    /\ Does(r, "wait") /\ kept[b] # Never
    /\ file[kept[b]] \notin {NoFile, Partial}
    /\ exposed' = file[kept[b]].exposed /\ kept' = file[kept[b]].kept
    /\ ask' = [ask EXCEPT ![r] = [Waiting EXCEPT !.step = "read groups"]]
    /\ Begins(r, Groups)
    /\ UNCHANGED <<routes, file, second, reused>>

\* SELECT name, enabled FROM route_groups, which no lock protects
ReadGroups(r) ==
    /\ Does(r, "read groups")
    /\ ask' = [ask EXCEPT ![r] = [@ EXCEPT !.step = "load", !.found = exposed]]
    /\ UNCHANGED <<exposed, routes, kept, file, second, mixed, reused>>

\* Mutant of LoadGroups: the memory is taken to be right.
LoadNothing(r) ==
    /\ Does(r, "load") /\ ~Locked
    /\ ask' = [ask EXCEPT ![r] = [@ EXCEPT !.step = "store", !.todo = Groups]]
    /\ UNCHANGED <<exposed, routes, kept, file, second, mixed, reused>>

\* Under routesMu: the memory ...
LoadGroups(r) ==
    /\ Does(r, "load") /\ ~Locked
    /\ routes' = WithOverrides(ask[r].found)
    /\ ask' = [ask EXCEPT ![r] = [@ EXCEPT !.step = "store", !.todo = Groups]]
    /\ UNCHANGED <<exposed, kept, file, second, mixed, reused>>

\* ... and, group by group, the table.
StoreGroup(r, g) ==
    /\ Does(r, "store") /\ g \in ask[r].todo
    /\ exposed' = [exposed EXCEPT ![g] = routes[g]]
    /\ ask' = [ask EXCEPT ![r] = IF ask[r].todo = {g} THEN Waiting
                                 ELSE [ask[r] EXCEPT !.todo = @ \ {g}]]
    /\ UNCHANGED <<routes, kept, file, second, mixed, reused>>

-----------------------------------------------------------------------------
\* The client goes away, or a statement fails: what hydrateRouteGroups has not
\* done by then stays undone, and nobody hears of it.
LeaveOff(r) ==
    /\ ~Does(r, "wait") /\ ~Does(r, "set")
    /\ Answer(r)
    /\ mixed' = IF ask[r].step \in Hydrating THEN Groups ELSE mixed
    /\ UNCHANGED <<exposed, routes, kept, file, second, reused>>

\* The process dies, perhaps in the middle of a backup, and starts again.
RestartServer(broken) ==
    /\ routes' = WithOverrides(exposed) /\ exposed' = routes'
    /\ file' = IF broken THEN [file EXCEPT ![second] = Partial] ELSE file
    /\ reused' = IF broken /\ (file[second] # NoFile) THEN reused \cup {second} ELSE reused
    /\ ask' = [r \in Admins |-> Waiting]
    /\ mixed' = {}
    /\ UNCHANGED <<kept, second>>

ControlNext ==
    \/ Tick
    \/ \E r \in Admins, g \in Groups, value \in BOOLEAN : PersistRouteGroup(r, g, value)
    \/ \E r \in Admins, b \in Backups : InsertBackup(r, b) \/ RestoreFrom(r, b)
    \/ \E r \in Admins, g \in Groups : StoreGroup(r, g)
    \/ \E r \in Admins :
        \/ SetRouteEnabled(r)
        \/ BackupTo(r) \/ FailBackup(r)
        \/ ReadGroups(r) \/ LoadGroups(r)
        \/ LeaveOff(r)
    \/ \E broken \in BOOLEAN : RestartServer(broken)

ControlSpec == ControlInit /\ [][ControlNext]_controlVars

-----------------------------------------------------------------------------
\* The gate of a route group and the table agree, so that a restart exposes
\* what was exposed and nothing else, whatever was switched, restored and
\* overridden before; but while a request is at the group, and after two were
\* at once or one was broken off, until the next one.
ExposureAgrees ==
    \A g \in Groups :
        \/ routes[g] = exposed[g]
        \/ g \in mixed
        \/ \E r \in Admins : InFlight(r, g)

\* Hydration stores in the table what it has read there: a setting that it
\* changes was overridden by the environment, or switched in between.
SettingsKept ==
    [][\A g \in Groups : exposed'[g] # exposed[g] =>
            \/ g \in Overridden \cup mixed
            \/ \E r \in Admins : Does(r, "wait") /\ ask'[r].step \in {"set", "read groups"}]_controlVars

\* A backup that is listed as completed can be restored, in whatever database
\* it is listed, after crashes and restorations, too: its file is there and
\* whole, unless a second backup was made in the same second.
BackupsRestorable ==
    \A b \in Backups : kept[b] # Never =>
        file[kept[b]] \notin {NoFile, Partial} \/ kept[b] \in reused
=============================================================================
