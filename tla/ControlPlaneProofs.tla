------------------------- MODULE ControlPlaneProofs -------------------------
(***************************************************************************)
(* Proofs about route groups and backups, for every set of groups, every   *)
(* override, any number of backups, seconds and concurrent requests, and   *)
(* for restarts and broken-off requests at any time.                       *)
(***************************************************************************)
EXTENDS ControlPlane, TLAPS

USE ControlAssumption, SnapshotAssumption

AskSteps == {"wait", "set", "insert", "read groups", "load", "store"}
Ask == [step : AskSteps, group : Groups \cup {"none"}, value : BOOLEAN,
        found : [Groups -> BOOLEAN], todo : SUBSET Groups, second : Seconds \cup {Never}]

TablesTyped ==
    /\ exposed \in [Groups -> BOOLEAN] /\ routes \in [Groups -> BOOLEAN]
    /\ kept \in [Backups -> Seconds \cup {Never}]
    /\ file \in [Seconds -> Snapshots \cup {NoFile, Partial}]
    /\ second \in Seconds
    /\ mixed \subseteq Groups /\ reused \subseteq Seconds

AsksTyped ==
    /\ ask \in [Admins -> Ask]
    /\ \A r \in Admins :
        /\ Does(r, "set") => ask[r].group \in Groups
        /\ Does(r, "insert") <=> ask[r].second # Never

\* What a request at a route group may count on, unless others were at the
\* group with it: the table says what it is about to put into the memory, and
\* of the groups that it has yet to store, only an overridden one changes.
AtGroup(a, g) == a.step \in Hydrating \/ (a.step = "set" /\ a.group = g)

Sound(a, g, table, memory) ==
    /\ a.step = "set" /\ a.group = g => table[g] = a.value
    /\ a.step = "load" => a.found[g] = table[g]
    /\ a.step = "store" /\ (g \notin a.todo \/ g \notin Overridden) => memory[g] = table[g]

AsksSound == \A r \in Admins, g \in Groups \ mixed : Sound(ask[r], g, exposed, routes)

\* Who is at a group that is not mixed is the only one.
AloneAtGroup ==
    \A g \in Groups \ mixed : \A r, q \in Admins : InFlight(r, g) /\ InFlight(q, g) => r = q

RoutesInv == AsksSound /\ AloneAtGroup /\ ExposureAgrees

\* Listed: a row of the table, or of a snapshot, has the file of second s.
Intact(s) == file[s] \notin {NoFile, Partial}
ListedIn(table, s) == \E b \in Backups : table[b] = s
Listed(s) ==
    \/ ListedIn(kept, s)
    \/ \E t \in Seconds : Intact(t) /\ ListedIn(file[t].kept, s)

\* What is listed anywhere can be restored: BackupsRestorable, in whatever
\* database will be in place.
ListedIntact == \A s \in Seconds : Listed(s) => Intact(s) \/ s \in reused

\* A file is listed only when its backup is over, and two requests are at one
\* file only in a second in which it was backed up to twice.
AloneAtFile ==
    \A r \in Admins, s \in Seconds \ reused : ask[r].second = s =>
        ~Listed(s) /\ \A q \in Admins : ask[q].second = s => q = r

BackupsInv == ListedIntact /\ AloneAtFile

CInv == TablesTyped /\ AsksTyped /\ RoutesInv /\ BackupsInv

-----------------------------------------------------------------------------
LEMMA WaitingFacts ==
    /\ Waiting \in Ask /\ Waiting.step = "wait" /\ Waiting.second = Never
    /\ Waiting.value \in BOOLEAN
BY DEF Waiting, Ask, AskSteps

LEMMA SecondFacts == Never \in Nat /\ Never \notin Seconds /\ Seconds \cup {Never} = 0 .. Never
BY DEF Seconds, Never

LEMMA OverrideFact ==
    ASSUME NEW found \in [Groups -> BOOLEAN]
    PROVE  /\ WithOverrides(found) \in [Groups -> BOOLEAN]
           /\ \A g \in Groups \ Overridden : WithOverrides(found)[g] = found[g]
BY DEF WithOverrides

LEMMA SnapshotFact == ASSUME TablesTyped PROVE Snapshot \in Snapshots
BY SecondFacts DEF TablesTyped, Snapshot, Snapshots

LEMMA InitInv == ControlInit => CInv
<1> SUFFICES ASSUME ControlInit PROVE CInv
  OBVIOUS
<1>1. TablesTyped
  BY OverrideFact DEF ControlInit, TablesTyped, Seconds
<1>2. AsksTyped
  BY WaitingFacts DEF ControlInit, AsksTyped, Does
<1>3. AsksSound /\ AloneAtGroup
  BY WaitingFacts DEF ControlInit, AsksSound, Sound, AloneAtGroup, InFlight, Hydrating, Does
<1>4. ExposureAgrees
  BY DEF ControlInit, ExposureAgrees
<1>5. BackupsInv
  <2>1. \A s \in Seconds : ~Listed(s)
    BY SecondFacts DEF ControlInit, Listed, ListedIn, Intact
  <2> QED BY <2>1, WaitingFacts, SecondFacts DEF ControlInit, BackupsInv, ListedIntact, AloneAtFile, Does
<1> QED BY <1>1, <1>2, <1>3, <1>4, <1>5 DEF CInv, RoutesInv

-----------------------------------------------------------------------------
(* Steps that the files, or the route groups, do not notice.               *)

\* Nothing more is listed, no file changes, and requests come to no file.
LEMMA BackupsKept ==
    ASSUME CInv, UNCHANGED <<file, reused>>,
           \A s \in Seconds : Listed(s)' => Listed(s),
           \A r \in Admins : ask'[r].second # Never => ask'[r] = ask[r]
    PROVE  BackupsInv'
<1>1. ListedIntact'
  BY DEF CInv, BackupsInv, ListedIntact, Intact
<1>2. AloneAtFile'
  <2> SUFFICES ASSUME NEW r \in Admins, NEW s \in Seconds \ reused, ask'[r].second = s
               PROVE  ~Listed(s)' /\ \A q \in Admins : ask'[q].second = s => q = r
    BY DEF AloneAtFile
  <2>1. s # Never
    BY SecondFacts
  <2>2. ~Listed(s) /\ \A q \in Admins : ask[q].second = s => q = r
    BY <2>1 DEF CInv, BackupsInv, AloneAtFile
  <2> QED BY <2>1, <2>2
<1> QED BY <1>1, <1>2 DEF BackupsInv

LEMMA SameListed ==
    ASSUME UNCHANGED <<kept, file>> PROVE \A s \in Seconds : Listed(s)' <=> Listed(s)
BY DEF Listed, ListedIn, Intact

LEMMA InFlightIs ==
    \A r \in Admins, g \in Groups :
        (InFlight(r, g) <=> AtGroup(ask[r], g)) /\ (InFlight(r, g)' <=> AtGroup(ask'[r], g))
BY DEF InFlight, AtGroup, Does

\* Requests that are at no route group come and go.
LEMMA RoutesKept ==
    ASSUME CInv, UNCHANGED <<exposed, routes, mixed>>,
           \A r \in Admins : \/ ask'[r] = ask[r]
                             \/ /\ ask[r].step \notin Hydrating \cup {"set"}
                                /\ ask'[r].step \notin Hydrating \cup {"set"}
    PROVE  RoutesInv'
<1>1. \A r \in Admins, g \in Groups : InFlight(r, g)' <=> InFlight(r, g)
  BY InFlightIs DEF AtGroup
<1>2. AsksSound'
  <2> SUFFICES ASSUME NEW r \in Admins, NEW g \in Groups \ mixed
               PROVE  Sound(ask'[r], g, exposed, routes)
    BY DEF AsksSound
  <2>1. Sound(ask[r], g, exposed, routes)
    BY DEF CInv, RoutesInv, AsksSound
  <2> QED BY <2>1 DEF Sound, Hydrating
<1>3. AloneAtGroup' /\ ExposureAgrees'
  BY <1>1 DEF CInv, RoutesInv, AloneAtGroup, ExposureAgrees
<1> QED BY <1>2, <1>3 DEF RoutesInv

-----------------------------------------------------------------------------
(* Steps at route groups.                                                  *)

\* A request begins: from now on it is in flight at its groups, alone or
\* mixed with those that were there.
LEMMA BeginRoutes ==
    ASSUME CInv, NEW r \in Admins, Does(r, "wait"), NEW new \in Ask, NEW groups \in SUBSET Groups,
           ask' = [ask EXCEPT ![r] = new], Begins(r, groups), UNCHANGED routes,
           \A g \in Groups \ groups : exposed'[g] = exposed[g],
           \/ new.step = "read groups" /\ groups = Groups
           \/ new.step = "set" /\ groups = {new.group} /\ exposed'[new.group] = new.value
    PROVE  RoutesInv'
<1>1. ask'[r] = new /\ \A q \in Admins \ {r} : ask'[q] = ask[q]
  BY DEF CInv, AsksTyped
<1>2. \A g \in Groups : AtGroup(new, g) <=> g \in groups
  BY DEF AtGroup, Hydrating
<1>3. \A g \in Groups : /\ InFlight(r, g)' <=> g \in groups
                        /\ \A q \in Admins \ {r} : InFlight(q, g)' <=> InFlight(q, g)
  BY <1>1, <1>2, InFlightIs
<1>4. \A g \in Groups : ~InFlight(r, g)
  BY InFlightIs DEF AtGroup, Hydrating, Does
<1>5. /\ \A g \in groups : g \notin mixed' => \A q \in Admins \ {r} : ~InFlight(q, g)
      /\ \A g \in Groups \ groups : g \in mixed' <=> g \in mixed
  BY DEF Begins
<1>6. AsksSound'
  <2> SUFFICES ASSUME NEW q \in Admins, NEW g \in Groups, g \notin mixed'
               PROVE  Sound(ask'[q], g, exposed', routes')
    BY DEF AsksSound
  <2>1. CASE q = r
    BY <1>1, <2>1 DEF Sound
  <2>2. CASE q # r /\ g \in groups
    <3>1. ~AtGroup(ask[q], g)
      BY <1>5, <2>2, InFlightIs
    <3> QED BY <1>1, <2>2, <3>1 DEF AtGroup, Hydrating, Sound
  <2>3. CASE q # r /\ g \notin groups
    <3>1. Sound(ask[q], g, exposed, routes) /\ ask'[q] = ask[q] /\ exposed'[g] = exposed[g]
      BY <1>1, <1>5, <2>3 DEF CInv, RoutesInv, AsksSound
    <3> QED BY <3>1 DEF Sound
  <2> QED BY <2>1, <2>2, <2>3
<1>7. AloneAtGroup'
  <2> SUFFICES ASSUME NEW g \in Groups, g \notin mixed', NEW p \in Admins, NEW q \in Admins,
                      InFlight(p, g)', InFlight(q, g)'
               PROVE  p = q
    BY DEF AloneAtGroup
  <2>1. CASE g \in groups
    BY <1>3, <1>5, <2>1
  <2>2. CASE g \notin groups
    <3>1. InFlight(p, g) /\ InFlight(q, g) /\ g \notin mixed
      BY <1>3, <1>5, <2>2
    <3> QED BY <3>1 DEF CInv, RoutesInv, AloneAtGroup
  <2> QED BY <2>1, <2>2
<1>8. ExposureAgrees'
  <2> SUFFICES ASSUME NEW g \in Groups, g \notin groups, g \notin mixed', routes'[g] # exposed'[g]
               PROVE  \E q \in Admins : InFlight(q, g)'
    BY <1>3 DEF ExposureAgrees
  <2>1. g \notin mixed /\ routes[g] # exposed[g]
    BY <1>5
  <2>2. PICK q \in Admins : InFlight(q, g)
    BY <2>1 DEF CInv, RoutesInv, ExposureAgrees
  <2> QED BY <1>3, <1>4, <2>2
<1> QED BY <1>6, <1>7, <1>8 DEF RoutesInv

\* A request that is in flight moves on or is done: what it leaves agrees.
LEMMA AdvanceRoutes ==
    ASSUME CInv, NEW r \in Admins, NEW new \in Ask, ask' = [ask EXCEPT ![r] = new], UNCHANGED mixed,
           \A g \in Groups : AtGroup(new, g) => AtGroup(ask[r], g),
           \A g \in Groups \ mixed : AtGroup(ask[r], g) =>
                Sound(new, g, exposed', routes') /\ (AtGroup(new, g) \/ routes'[g] = exposed'[g]),
           \A g \in Groups : ~AtGroup(ask[r], g) => exposed'[g] = exposed[g] /\ routes'[g] = routes[g]
    PROVE  RoutesInv'
<1>1. ask'[r] = new /\ \A q \in Admins \ {r} : ask'[q] = ask[q]
  BY DEF CInv, AsksTyped
<1>2. \A q \in Admins, g \in Groups : InFlight(q, g)' => InFlight(q, g)
  BY <1>1, InFlightIs
<1>3. AsksSound'
  <2> SUFFICES ASSUME NEW q \in Admins, NEW g \in Groups, g \notin mixed
               PROVE  Sound(ask'[q], g, exposed', routes')
    BY DEF AsksSound
  <2>1. CASE AtGroup(ask[r], g) /\ q = r
    BY <1>1, <2>1
  <2>2. CASE AtGroup(ask[r], g) /\ q # r
    <3>1. ~AtGroup(ask[q], g)
      BY <2>2, InFlightIs DEF CInv, RoutesInv, AloneAtGroup
    <3> QED BY <1>1, <2>2, <3>1 DEF AtGroup, Hydrating, Sound
  <2>3. CASE ~AtGroup(ask[r], g)
    <3>1. ~AtGroup(new, g) /\ exposed'[g] = exposed[g] /\ routes'[g] = routes[g]
      BY <2>3
    <3>2. Sound(ask[q], g, exposed, routes)
      BY DEF CInv, RoutesInv, AsksSound
    <3>3. CASE q = r
      BY <1>1, <3>1, <3>3 DEF AtGroup, Hydrating, Sound
    <3>4. CASE q # r
      BY <1>1, <3>1, <3>2, <3>4 DEF Sound
    <3> QED BY <3>3, <3>4
  <2> QED BY <2>1, <2>2, <2>3
<1>4. AloneAtGroup'
  BY <1>2 DEF CInv, RoutesInv, AloneAtGroup
<1>5. ExposureAgrees'
  <2> SUFFICES ASSUME NEW g \in Groups, g \notin mixed, routes'[g] # exposed'[g]
               PROVE  \E q \in Admins : InFlight(q, g)'
    BY DEF ExposureAgrees
  <2>1. CASE AtGroup(ask[r], g)
    BY <1>1, <2>1, InFlightIs
  <2>2. CASE ~AtGroup(ask[r], g)
    <3>1. PICK q \in Admins : InFlight(q, g)
      BY <2>2 DEF CInv, RoutesInv, ExposureAgrees
    <3> QED BY <1>1, <2>2, <3>1, InFlightIs
  <2> QED BY <2>1, <2>2
<1> QED BY <1>3, <1>4, <1>5 DEF RoutesInv

\* What one request does to its own record.
LEMMA AskStep ==
    ASSUME CInv, NEW r \in Admins, NEW new \in Ask, ask' = [ask EXCEPT ![r] = new],
           new.step = "set" => new.group \in Groups,
           new.step = "insert" <=> new.second # Never
    PROVE  /\ AsksTyped' /\ ask'[r] = new /\ \A q \in Admins \ {r} : ask'[q] = ask[q]
BY DEF CInv, AsksTyped, Does

LEMMA AskFacts ==
    ASSUME CInv, NEW r \in Admins
    PROVE  /\ ask[r] \in Ask /\ (ask[r].step = "set" => ask[r].group \in Groups)
           /\ ask[r].step = "insert" <=> ask[r].second # Never
           /\ \A g \in Groups \ mixed : Sound(ask[r], g, exposed, routes)
BY DEF CInv, AsksTyped, RoutesInv, AsksSound, Does

LEMMA TickStep == ASSUME CInv, Tick PROVE CInv'
<1>1. second' \in Seconds /\ UNCHANGED <<exposed, routes, kept, file, ask, mixed, reused>>
  BY DEF CInv, TablesTyped, Tick, Seconds
<1>2. TablesTyped' /\ AsksTyped'
  BY <1>1 DEF CInv, TablesTyped, AsksTyped, Does
<1>3. RoutesInv'
  BY <1>1, RoutesKept
<1>4. BackupsInv'
  BY <1>1, SameListed, BackupsKept
<1> QED BY <1>2, <1>3, <1>4 DEF CInv

LEMMA PersistStep ==
    ASSUME CInv, NEW r \in Admins, NEW g \in Groups, NEW value \in BOOLEAN,
           PersistRouteGroup(r, g, value)
    PROVE  CInv'
<1> DEFINE new == [Waiting EXCEPT !.step = "set", !.group = g, !.value = value]
<1>1. new \in Ask /\ new.step = "set" /\ new.group = g /\ new.value = value /\ new.second = Never
  BY WaitingFacts DEF Ask, AskSteps, Waiting
<1>2. /\ Does(r, "wait") /\ ask' = [ask EXCEPT ![r] = new] /\ exposed' = [exposed EXCEPT ![g] = value]
      /\ Begins(r, {g}) /\ UNCHANGED <<routes, kept, file, second, reused>>
  BY DEF PersistRouteGroup
<1> HIDE DEF new
<1>3. AsksTyped' /\ ask'[r] = new /\ \A q \in Admins \ {r} : ask'[q] = ask[q]
  BY <1>1, <1>2, AskStep
<1>4. /\ exposed' \in [Groups -> BOOLEAN] /\ exposed'[g] = value
      /\ \A h \in Groups \ {g} : exposed'[h] = exposed[h]
  BY <1>2 DEF CInv, TablesTyped
<1>5. TablesTyped'
  BY <1>2, <1>4 DEF CInv, TablesTyped, Begins
<1>6. RoutesInv'
  <2>1. {g} \in SUBSET Groups /\ exposed'[new.group] = new.value
    BY <1>1, <1>4
  <2> QED BY <1>1, <1>2, <1>4, <2>1, BeginRoutes
<1>7. BackupsInv'
  BY <1>1, <1>2, <1>3, SameListed, BackupsKept
<1> QED BY <1>3, <1>5, <1>6, <1>7 DEF CInv

LEMMA SetStep == ASSUME CInv, NEW r \in Admins, SetRouteEnabled(r) PROVE CInv'
<1>1. /\ ask[r].step = "set" /\ ask' = [ask EXCEPT ![r] = Waiting]
      /\ routes' = [routes EXCEPT ![ask[r].group] = ask[r].value]
      /\ UNCHANGED <<exposed, kept, file, second, mixed, reused>>
  BY DEF SetRouteEnabled, Does, Answer
<1>2. AsksTyped' /\ ask'[r] = Waiting /\ \A q \in Admins \ {r} : ask'[q] = ask[q]
  BY <1>1, WaitingFacts, AskStep
<1>3. ask[r].group \in Groups /\ ask[r].value \in BOOLEAN
  BY <1>1, AskFacts DEF Ask
<1>4. /\ routes' \in [Groups -> BOOLEAN] /\ routes'[ask[r].group] = ask[r].value
      /\ \A h \in Groups \ {ask[r].group} : routes'[h] = routes[h]
  BY <1>1, <1>3 DEF CInv, TablesTyped
<1>5. TablesTyped'
  BY <1>1, <1>4 DEF CInv, TablesTyped
<1>6. \A h \in Groups : /\ ~AtGroup(Waiting, h)
                        /\ AtGroup(ask[r], h) <=> h = ask[r].group
  BY <1>1, WaitingFacts DEF AtGroup, Hydrating
<1>7. \A h \in Groups \ mixed : Sound(Waiting, h, exposed', routes')
  BY WaitingFacts DEF Sound
<1>8. ask[r].group \notin mixed => routes'[ask[r].group] = exposed'[ask[r].group]
  BY <1>1, <1>3, <1>4, AskFacts DEF Sound
<1>9. RoutesInv'
  <2>1. \A h \in Groups \ mixed : AtGroup(ask[r], h) =>
            /\ Sound(Waiting, h, exposed', routes')
            /\ AtGroup(Waiting, h) \/ routes'[h] = exposed'[h]
    BY <1>6, <1>7, <1>8
  <2>2. \A h \in Groups : ~AtGroup(ask[r], h) => exposed'[h] = exposed[h] /\ routes'[h] = routes[h]
    BY <1>1, <1>4, <1>6
  <2>3. \A h \in Groups : AtGroup(Waiting, h) => AtGroup(ask[r], h)
    BY <1>6
  <2> QED BY <1>1, <2>1, <2>2, <2>3, WaitingFacts, AdvanceRoutes
<1>10. BackupsInv'
  BY <1>1, <1>2, WaitingFacts, SameListed, BackupsKept
<1> QED BY <1>2, <1>5, <1>9, <1>10 DEF CInv

LEMMA ReadGroupsStep == ASSUME CInv, NEW r \in Admins, ReadGroups(r) PROVE CInv'
<1> DEFINE new == [ask[r] EXCEPT !.step = "load", !.found = exposed]
<1>0. /\ ask[r].step = "read groups" /\ ask' = [ask EXCEPT ![r] = new]
      /\ UNCHANGED <<exposed, routes, kept, file, second, mixed, reused>>
  BY DEF ReadGroups, Does
<1>1. new \in Ask /\ new.step = "load" /\ new.found = exposed /\ new.second = Never
  <2>1. ask[r] \in Ask /\ ask[r].second = Never
    BY <1>0, AskFacts
  <2>2. exposed \in [Groups -> BOOLEAN]
    BY DEF CInv, TablesTyped
  <2> QED BY <2>1, <2>2 DEF Ask, AskSteps
<1> HIDE DEF new
<1>2. AsksTyped' /\ ask'[r] = new /\ \A q \in Admins \ {r} : ask'[q] = ask[q]
  BY <1>0, <1>1, AskStep
<1>3. \A g \in Groups : /\ AtGroup(ask[r], g) /\ AtGroup(new, g)
                        /\ Sound(new, g, exposed', routes')
  BY <1>0, <1>1 DEF AtGroup, Hydrating, Sound
<1>4. RoutesInv'
  BY <1>0, <1>1, <1>3, AdvanceRoutes
<1>5. BackupsInv'
  BY <1>0, <1>1, <1>2, SameListed, BackupsKept
<1> QED BY <1>0, <1>2, <1>4, <1>5 DEF CInv, TablesTyped

LEMMA LoadGroupsStep == ASSUME CInv, NEW r \in Admins, LoadGroups(r) PROVE CInv'
<1> DEFINE new == [ask[r] EXCEPT !.step = "store", !.todo = Groups]
<1>0. /\ ask[r].step = "load" /\ ask' = [ask EXCEPT ![r] = new]
      /\ routes' = WithOverrides(ask[r].found)
      /\ UNCHANGED <<exposed, kept, file, second, mixed, reused>>
  BY DEF LoadGroups, Does
<1>1. new \in Ask /\ new.step = "store" /\ new.todo = Groups /\ new.second = Never
  BY <1>0, AskFacts DEF Ask, AskSteps
<1>2. ask[r].found \in [Groups -> BOOLEAN]
  BY AskFacts DEF Ask
<1> HIDE DEF new
<1>3. AsksTyped' /\ ask'[r] = new /\ \A q \in Admins \ {r} : ask'[q] = ask[q]
  BY <1>0, <1>1, AskStep
<1>4. /\ routes' \in [Groups -> BOOLEAN]
      /\ \A g \in Groups \ Overridden : routes'[g] = ask[r].found[g]
  BY <1>0, <1>2, OverrideFact
<1>5. \A g \in Groups : AtGroup(ask[r], g) /\ AtGroup(new, g)
  BY <1>0, <1>1 DEF AtGroup, Hydrating
<1>6. ASSUME NEW g \in Groups \ mixed PROVE Sound(new, g, exposed', routes')
  <2>1. ask[r].found[g] = exposed[g]
    BY <1>0, AskFacts DEF Sound
  <2> QED BY <1>0, <1>1, <1>4, <2>1 DEF Sound
<1>7. RoutesInv'
  BY <1>0, <1>1, <1>5, <1>6, AdvanceRoutes
<1>8. BackupsInv'
  BY <1>0, <1>1, <1>3, SameListed, BackupsKept
<1> QED BY <1>0, <1>3, <1>4, <1>7, <1>8 DEF CInv, TablesTyped

LEMMA StoreGroupStep ==
    ASSUME CInv, NEW r \in Admins, NEW g \in Groups, StoreGroup(r, g)
    PROVE  CInv'
<1> DEFINE new == IF ask[r].todo = {g} THEN Waiting ELSE [ask[r] EXCEPT !.todo = @ \ {g}]
<1>0. /\ ask[r].step = "store" /\ g \in ask[r].todo /\ ask' = [ask EXCEPT ![r] = new]
      /\ exposed' = [exposed EXCEPT ![g] = routes[g]]
      /\ UNCHANGED <<routes, kept, file, second, mixed, reused>>
  BY DEF StoreGroup, Does
<1>1. /\ new \in Ask /\ new.second = Never
      /\ IF ask[r].todo = {g} THEN new.step = "wait"
         ELSE new.step = "store" /\ new.todo = ask[r].todo \ {g}
  BY <1>0, AskFacts, WaitingFacts DEF Ask
<1> HIDE DEF new
<1>2. AsksTyped' /\ ask'[r] = new /\ \A q \in Admins \ {r} : ask'[q] = ask[q]
  BY <1>0, <1>1, AskStep
<1>3. /\ exposed' \in [Groups -> BOOLEAN] /\ exposed'[g] = routes[g]
      /\ \A h \in Groups \ {g} : exposed'[h] = exposed[h]
  BY <1>0 DEF CInv, TablesTyped
<1>4. \A h \in Groups : AtGroup(ask[r], h)
  BY <1>0 DEF AtGroup, Hydrating
<1>5. ASSUME NEW h \in Groups \ mixed
      PROVE  Sound(new, h, exposed', routes') /\ (AtGroup(new, h) \/ routes'[h] = exposed'[h])
  <2>1. h \notin ask[r].todo \/ h \notin Overridden => routes[h] = exposed[h]
    BY <1>0, AskFacts DEF Sound
  <2>2. CASE ask[r].todo = {g}
    BY <1>0, <1>1, <1>3, <2>1, <2>2 DEF Sound
  <2>3. CASE ask[r].todo # {g}
    BY <1>0, <1>1, <1>3, <2>1, <2>3 DEF Sound, AtGroup, Hydrating
  <2> QED BY <2>2, <2>3
<1>6. RoutesInv'
  BY <1>0, <1>1, <1>4, <1>5, AdvanceRoutes
<1>7. BackupsInv'
  BY <1>0, <1>1, <1>2, SameListed, BackupsKept
<1> QED BY <1>0, <1>2, <1>3, <1>6, <1>7 DEF CInv, TablesTyped

-----------------------------------------------------------------------------
(* Steps at backups.                                                       *)

LEMMA RestoreStep ==
    ASSUME CInv, NEW r \in Admins, NEW b \in Backups, RestoreFrom(r, b)
    PROVE  CInv'
<1> DEFINE new == [Waiting EXCEPT !.step = "read groups"]
<1>0. new \in Ask /\ new.step = "read groups" /\ new.second = Never
  BY WaitingFacts DEF Ask, AskSteps, Waiting
<1>1. /\ Does(r, "wait") /\ kept[b] # Never /\ Intact(kept[b])
      /\ exposed' = file[kept[b]].exposed /\ kept' = file[kept[b]].kept
      /\ ask' = [ask EXCEPT ![r] = new] /\ Begins(r, Groups)
      /\ UNCHANGED <<routes, file, second, reused>>
  BY DEF RestoreFrom, Intact
<1> HIDE DEF new
<1>2. kept[b] \in Seconds /\ file[kept[b]] \in Snapshots
  BY <1>1 DEF CInv, TablesTyped, Intact
<1>3. exposed' \in [Groups -> BOOLEAN] /\ kept' \in [Backups -> Seconds \cup {Never}]
  BY <1>1, <1>2, SecondFacts DEF Snapshots
<1>4. AsksTyped' /\ ask'[r] = new /\ \A q \in Admins \ {r} : ask'[q] = ask[q]
  BY <1>0, <1>1, AskStep
<1>5. TablesTyped'
  BY <1>1, <1>3 DEF CInv, TablesTyped, Begins
<1>6. RoutesInv'
  BY <1>0, <1>1, <1>3, BeginRoutes
<1>7. \A s \in Seconds : Listed(s)' => Listed(s)
  BY <1>1, <1>2 DEF Listed, ListedIn, Intact
<1>8. BackupsInv'
  BY <1>0, <1>1, <1>4, <1>7, BackupsKept
<1> QED BY <1>4, <1>5, <1>6, <1>8 DEF CInv

\* A request leaves its file or comes to one: the groups do not notice.
LEMMA FileStep ==
    ASSUME CInv, NEW r \in Admins, NEW new \in Ask, ask' = [ask EXCEPT ![r] = new],
           UNCHANGED <<exposed, routes, mixed>>,
           ask[r].step \in {"wait", "insert"}, new.step \in {"wait", "insert"},
           new.step = "insert" <=> new.second # Never
    PROVE  /\ AsksTyped' /\ RoutesInv' /\ ask'[r] = new
           /\ \A q \in Admins \ {r} : ask'[q] = ask[q]
<1>1. AsksTyped' /\ ask'[r] = new /\ \A q \in Admins \ {r} : ask'[q] = ask[q]
  BY AskStep
<1>2. RoutesInv'
  BY <1>1, RoutesKept DEF Hydrating
<1> QED BY <1>1, <1>2

LEMMA BackupStep == ASSUME CInv, NEW r \in Admins, BackupTo(r) PROVE CInv'
<1> DEFINE new == [Waiting EXCEPT !.step = "insert", !.second = second]
<1>0. second \in Seconds /\ second # Never
  BY SecondFacts DEF CInv, TablesTyped
<1>1. new \in Ask /\ new.step = "insert" /\ new.second = second
  BY <1>0, WaitingFacts DEF Ask, AskSteps, Waiting
<1>2. /\ ask[r].step = "wait" /\ ask' = [ask EXCEPT ![r] = new]
      /\ file' = [file EXCEPT ![second] = Snapshot]
      /\ reused' = IF file[second] # NoFile \/ \E q \in Admins : ask[q].second = second
                   THEN reused \cup {second} ELSE reused
      /\ UNCHANGED <<exposed, routes, kept, second, mixed>>
  BY DEF BackupTo, Does
<1> HIDE DEF new
<1>3. /\ AsksTyped' /\ RoutesInv' /\ ask'[r] = new
      /\ \A q \in Admins \ {r} : ask'[q] = ask[q]
  BY <1>0, <1>1, <1>2, FileStep
<1>4. /\ file' \in [Seconds -> Snapshots \cup {NoFile, Partial}] /\ file'[second] = Snapshot
      /\ \A s \in Seconds \ {second} : file'[s] = file[s]
  BY <1>0, <1>2, SnapshotFact DEF CInv, TablesTyped
<1>5. TablesTyped'
  BY <1>0, <1>2, <1>4 DEF CInv, TablesTyped
<1>6. \A s \in Seconds : Listed(s)' => Listed(s)
  <2>1. Snapshot.kept = kept
    BY DEF Snapshot
  <2> QED BY <1>2, <1>4, <2>1 DEF Listed, ListedIn, Intact
<1>7. Intact(second)' /\ \A s \in Seconds \ {second} : Intact(s)' <=> Intact(s)
  <2>1. file'[second] \notin {NoFile, Partial} /\ second' = second
    BY <1>2, <1>4, SnapshotFact DEF CInv
  <2> QED BY <1>4, <2>1 DEF Intact
<1>8. ListedIntact'
  <2> SUFFICES ASSUME NEW s \in Seconds, Listed(s)' PROVE Intact(s)' \/ s \in reused'
    BY DEF ListedIntact
  <2>1. CASE s = second
    <3>1. file'[s] \notin {NoFile, Partial}
      BY <1>4, <2>1, SnapshotFact DEF CInv
    <3> QED BY <3>1 DEF Intact
  <2>2. CASE s # second
    BY <1>2, <1>6, <1>7, <2>2 DEF CInv, BackupsInv, ListedIntact
  <2> QED BY <2>1, <2>2
<1>9. AloneAtFile'
  <2> SUFFICES ASSUME NEW p \in Admins, NEW s \in Seconds \ reused', ask'[p].second = s
               PROVE  ~Listed(s)' /\ \A q \in Admins : ask'[q].second = s => q = p
    BY DEF AloneAtFile
  <2>1. s \notin reused
    BY <1>2
  <2>2. CASE s = second
    <3>1. file[s] = NoFile /\ \A q \in Admins : ask[q].second # s
      BY <1>2, <2>2
    <3>2. ~Listed(s)
      BY <2>1, <3>1 DEF CInv, BackupsInv, ListedIntact, Intact
    <3> QED BY <1>3, <1>6, <3>1, <3>2
  <2>3. CASE s # second
    <3>1. p # r /\ ask[p].second = s
      BY <1>1, <1>3, <2>3
    <3>2. ~Listed(s) /\ \A q \in Admins : ask[q].second = s => q = p
      BY <2>1, <3>1 DEF CInv, BackupsInv, AloneAtFile
    <3> QED BY <1>1, <1>3, <1>6, <2>3, <3>2
  <2> QED BY <2>2, <2>3
<1> QED BY <1>3, <1>5, <1>8, <1>9 DEF CInv, BackupsInv

LEMMA FailStep == ASSUME CInv, NEW r \in Admins, FailBackup(r) PROVE CInv'
<1>1. PICK at \in Seconds : at = ask[r].second /\ ask[r].step = "insert"
  BY AskFacts DEF FailBackup, Does, Ask
<1>2. /\ file' = [file EXCEPT ![at] = NoFile] /\ ask' = [ask EXCEPT ![r] = Waiting]
      /\ UNCHANGED <<exposed, routes, kept, second, mixed, reused>>
  BY <1>1 DEF FailBackup, Answer
<1>3. /\ AsksTyped' /\ RoutesInv' /\ ask'[r] = Waiting
      /\ \A q \in Admins \ {r} : ask'[q] = ask[q]
  BY <1>1, <1>2, WaitingFacts, FileStep
<1>4. /\ file' \in [Seconds -> Snapshots \cup {NoFile, Partial}] /\ file'[at] = NoFile
      /\ \A s \in Seconds \ {at} : file'[s] = file[s]
  BY <1>2 DEF CInv, TablesTyped
<1>5. TablesTyped'
  BY <1>2, <1>4 DEF CInv, TablesTyped
<1>6. \A s \in Seconds : Listed(s)' => Listed(s)
  BY <1>2, <1>4 DEF Listed, ListedIn, Intact
<1>7. ListedIntact'
  <2> SUFFICES ASSUME NEW s \in Seconds, Listed(s)', s \notin reused PROVE Intact(s)'
    BY <1>2 DEF ListedIntact
  <2>1. Listed(s) /\ Intact(s)
    BY <1>6 DEF CInv, BackupsInv, ListedIntact
  <2>2. s # at
    BY <1>1, <2>1 DEF CInv, BackupsInv, AloneAtFile
  <2> QED BY <1>4, <2>1, <2>2 DEF Intact
<1>8. AloneAtFile'
  BY <1>2, <1>3, <1>6, WaitingFacts, SecondFacts DEF CInv, BackupsInv, AloneAtFile
<1> QED BY <1>3, <1>5, <1>7, <1>8 DEF CInv, BackupsInv

LEMMA InsertStep ==
    ASSUME CInv, NEW r \in Admins, NEW b \in Backups, InsertBackup(r, b)
    PROVE  CInv'
<1>1. PICK at \in Seconds : at = ask[r].second /\ ask[r].step = "insert"
  BY AskFacts DEF InsertBackup, Does, Ask
<1>2. /\ Intact(at) /\ kept' = [kept EXCEPT ![b] = at] /\ ask' = [ask EXCEPT ![r] = Waiting]
      /\ UNCHANGED <<exposed, routes, file, second, mixed, reused>>
  BY <1>1 DEF InsertBackup, Answer, Intact
<1>3. /\ AsksTyped' /\ RoutesInv' /\ ask'[r] = Waiting
      /\ \A q \in Admins \ {r} : ask'[q] = ask[q]
  BY <1>1, <1>2, WaitingFacts, FileStep
<1>4. TablesTyped'
  BY <1>2 DEF CInv, TablesTyped
<1>5. \A s \in Seconds \ {at} : Listed(s)' => Listed(s)
  BY <1>2 DEF CInv, TablesTyped, Listed, ListedIn, Intact
<1>6. ListedIntact'
  BY <1>2, <1>5 DEF CInv, BackupsInv, ListedIntact, Intact
<1>7. AloneAtFile'
  <2> SUFFICES ASSUME NEW p \in Admins, NEW s \in Seconds \ reused, ask'[p].second = s
               PROVE  ~Listed(s)' /\ \A q \in Admins : ask'[q].second = s => q = p
    BY <1>2 DEF AloneAtFile
  <2>1. p # r /\ ask[p].second = s
    BY <1>3, WaitingFacts, SecondFacts
  <2>2. ~Listed(s) /\ \A q \in Admins : ask[q].second = s => q = p
    BY <2>1 DEF CInv, BackupsInv, AloneAtFile
  <2>3. s # at
    BY <1>1, <2>1, <2>2
  <2> QED BY <1>3, <1>5, <2>2, <2>3, WaitingFacts, SecondFacts
<1> QED BY <1>3, <1>4, <1>6, <1>7 DEF CInv, BackupsInv

-----------------------------------------------------------------------------
(* Requests broken off, and restarts.                                      *)

LEMMA LeaveStep == ASSUME CInv, NEW r \in Admins, LeaveOff(r) PROVE CInv'
<1>1. /\ ask[r].step \in Hydrating \cup {"insert"} /\ ask' = [ask EXCEPT ![r] = Waiting]
      /\ mixed' = IF ask[r].step \in Hydrating THEN Groups ELSE mixed
      /\ UNCHANGED <<exposed, routes, kept, file, second, reused>>
  BY AskFacts DEF LeaveOff, Does, Answer, Ask, AskSteps, Hydrating
<1>2. AsksTyped' /\ ask'[r] = Waiting /\ \A q \in Admins \ {r} : ask'[q] = ask[q]
  BY <1>1, WaitingFacts, AskStep
<1>3. TablesTyped'
  BY <1>1 DEF CInv, TablesTyped
<1>4. RoutesInv'
  <2>1. CASE ask[r].step \in Hydrating
    BY <1>1, <2>1 DEF RoutesInv, AsksSound, AloneAtGroup, ExposureAgrees
  <2>2. CASE ask[r].step \notin Hydrating
    <3>1. UNCHANGED mixed /\ ask[r].step = "insert" /\ "insert" \notin Hydrating \cup {"set"}
      BY <1>1, <2>2 DEF Hydrating
    <3>2. Waiting.step \notin Hydrating \cup {"set"}
      BY WaitingFacts DEF Hydrating
    <3> QED BY <1>1, <1>2, <3>1, <3>2, RoutesKept
  <2> QED BY <2>1, <2>2
<1>5. BackupsInv'
  BY <1>1, <1>2, WaitingFacts, SameListed, BackupsKept
<1> QED BY <1>2, <1>3, <1>4, <1>5 DEF CInv

LEMMA RestartStep == ASSUME CInv, NEW broken \in BOOLEAN, RestartServer(broken) PROVE CInv'
<1>0. second \in Seconds
  BY DEF CInv, TablesTyped
<1>1. /\ routes' = WithOverrides(exposed) /\ exposed' = routes' /\ mixed' = {}
      /\ ask' = [r \in Admins |-> Waiting] /\ UNCHANGED <<kept, second>>
      /\ file' = IF broken THEN [file EXCEPT ![second] = Partial] ELSE file
      /\ reused' = IF broken /\ file[second] # NoFile THEN reused \cup {second} ELSE reused
  BY DEF RestartServer
<1>2. AsksTyped' /\ \A r \in Admins : ask'[r] = Waiting
  BY <1>1, WaitingFacts DEF AsksTyped, Does
<1>3. routes' \in [Groups -> BOOLEAN] /\ exposed' \in [Groups -> BOOLEAN]
  BY <1>1, OverrideFact DEF CInv, TablesTyped
<1>4. /\ file' \in [Seconds -> Snapshots \cup {NoFile, Partial}]
      /\ broken => file'[second] = Partial
      /\ \A s \in Seconds : s # second \/ ~broken => file'[s] = file[s]
  BY <1>0, <1>1 DEF CInv, TablesTyped
<1>5. TablesTyped'
  BY <1>0, <1>1, <1>3, <1>4 DEF CInv, TablesTyped
<1>6. RoutesInv'
  <2>1. \A r \in Admins, g \in Groups : ~AtGroup(ask'[r], g)
    BY <1>2, WaitingFacts DEF AtGroup, Hydrating
  <2>2. AsksSound'
    BY <1>2, WaitingFacts DEF AsksSound, Sound
  <2>3. AloneAtGroup'
    BY <2>1, InFlightIs DEF AloneAtGroup
  <2>4. ExposureAgrees'
    BY <1>1 DEF ExposureAgrees
  <2> QED BY <2>2, <2>3, <2>4 DEF RoutesInv
<1>7. \A s \in Seconds : Listed(s)' => Listed(s)
  BY <1>1, <1>4 DEF Listed, ListedIn, Intact
<1>8. ListedIntact'
  <2> SUFFICES ASSUME NEW s \in Seconds, Listed(s)', s \notin reused' PROVE Intact(s)'
    BY DEF ListedIntact
  <2>1. Intact(s)
    BY <1>1, <1>7 DEF CInv, BackupsInv, ListedIntact
  <2>2. s # second \/ ~broken
    BY <1>1, <2>1 DEF Intact
  <2> QED BY <1>4, <2>1, <2>2 DEF Intact
<1>9. AloneAtFile'
  BY <1>2, WaitingFacts, SecondFacts DEF AloneAtFile
<1> QED BY <1>2, <1>5, <1>6, <1>8, <1>9 DEF CInv, BackupsInv

LEMMA StutterStep == ASSUME CInv, UNCHANGED controlVars PROVE CInv'
<1>1. UNCHANGED <<exposed, routes, kept, file, second, ask, mixed, reused>>
  BY DEF controlVars
<1>2. TablesTyped' /\ AsksTyped'
  BY <1>1 DEF CInv, TablesTyped, AsksTyped, Does
<1>3. RoutesInv' /\ BackupsInv'
  BY <1>1, RoutesKept, SameListed, BackupsKept
<1> QED BY <1>2, <1>3 DEF CInv

LEMMA NextStep == CInv /\ [ControlNext]_controlVars => CInv'
<1> SUFFICES ASSUME CInv, [ControlNext]_controlVars PROVE CInv'
  OBVIOUS
<1>1. ASSUME NEW r \in Admins,
             \/ \E g \in Groups, value \in BOOLEAN : PersistRouteGroup(r, g, value)
             \/ \E g \in Groups : StoreGroup(r, g)
             \/ SetRouteEnabled(r) \/ ReadGroups(r) \/ LoadGroups(r) \/ LeaveOff(r)
      PROVE  CInv'
  BY <1>1, PersistStep, StoreGroupStep, SetStep, ReadGroupsStep, LoadGroupsStep, LeaveStep
<1>2. ASSUME NEW r \in Admins,
             \/ BackupTo(r) \/ FailBackup(r)
             \/ \E b \in Backups : InsertBackup(r, b) \/ RestoreFrom(r, b)
      PROVE  CInv'
  BY <1>2, BackupStep, FailStep, InsertStep, RestoreStep
<1> QED BY <1>1, <1>2, TickStep, RestartStep, StutterStep DEF ControlNext

-----------------------------------------------------------------------------
\* The strengthening holds in every state.
THEOREM ControlInductive == ControlSpec => []CInv
BY InitInv, NextStep, PTL DEF ControlSpec

\* Whatever administrators switch and restore at once, the gate of a route
\* group and its row agree, but while a request is at it, or after two were.
THEOREM GateAndTableAgree == ControlSpec => []ExposureAgrees
<1>1. CInv => ExposureAgrees
  BY DEF CInv, RoutesInv
<1> QED BY <1>1, ControlInductive, PTL

\* Every backup listed as completed, before and after any restoration, has its
\* whole file, unless its second was used twice.
THEOREM ListedBackupsRestorable == ControlSpec => []BackupsRestorable
<1>1. CInv => BackupsRestorable
  <2> SUFFICES ASSUME CInv, NEW b \in Backups, kept[b] # Never
               PROVE  file[kept[b]] \notin {NoFile, Partial} \/ kept[b] \in reused
    BY DEF BackupsRestorable
  <2>1. kept[b] \in Seconds /\ Listed(kept[b])
    BY DEF CInv, TablesTyped, Listed, ListedIn
  <2> QED BY <2>1 DEF CInv, BackupsInv, ListedIntact, Intact
<1> QED BY <1>1, ControlInductive, PTL

\* Hydration writes back what it has read: only an override, a request that
\* was in its way, or an administrator changes a setting.
THEOREM SettingsStay == ControlSpec => SettingsKept
<1> DEFINE Excused(g) ==
      \/ g \in Overridden \cup mixed
      \/ \E r \in Admins : Does(r, "wait") /\ ask'[r].step \in {"set", "read groups"}
<1>1. ASSUME CInv, [ControlNext]_controlVars, NEW g \in Groups, exposed'[g] # exposed[g]
      PROVE  Excused(g)
  <2>1. ASSUME NEW r \in Admins, NEW h \in Groups, StoreGroup(r, h) PROVE Excused(g)
    <3>1. ask[r].step = "store" /\ h \in ask[r].todo /\ exposed' = [exposed EXCEPT ![h] = routes[h]]
      BY <2>1 DEF StoreGroup, Does
    <3>2. g = h /\ routes[g] # exposed[g]
      BY <1>1, <3>1 DEF CInv, TablesTyped
    <3> QED BY <1>1, <3>1, <3>2, AskFacts DEF Sound
  <2>2. ASSUME NEW r \in Admins, \/ \E h \in Groups, v \in BOOLEAN : PersistRouteGroup(r, h, v)
                                 \/ \E b \in Backups : RestoreFrom(r, b)
        PROVE  Excused(g)
    <3>1. ask'[r].step \in {"set", "read groups"} /\ Does(r, "wait")
      BY <1>1, <2>2 DEF PersistRouteGroup, RestoreFrom, CInv, AsksTyped, Waiting
    <3> QED BY <3>1
  <2>3. ASSUME NEW broken \in BOOLEAN, RestartServer(broken) PROVE Excused(g)
    BY <1>1, <2>3, OverrideFact DEF RestartServer, CInv, TablesTyped
  <2>4. ASSUME NEW r \in Admins,
               \/ SetRouteEnabled(r) \/ BackupTo(r) \/ FailBackup(r) \/ ReadGroups(r)
               \/ LoadGroups(r) \/ LeaveOff(r) \/ \E b \in Backups : InsertBackup(r, b)
        PROVE  FALSE
    BY <1>1, <2>4 DEF SetRouteEnabled, BackupTo, FailBackup, ReadGroups, LoadGroups, LeaveOff,
                      InsertBackup
  <2>5. ~Tick /\ ~UNCHANGED controlVars
    BY <1>1 DEF Tick, controlVars
  <2> QED BY <1>1, <2>1, <2>2, <2>3, <2>4, <2>5 DEF ControlNext
<1>2. CInv /\ [ControlNext]_controlVars => \A g \in Groups : exposed'[g] # exposed[g] => Excused(g)
  BY <1>1
<1> QED BY <1>2, ControlInductive, PTL DEF ControlSpec, SettingsKept
=============================================================================
