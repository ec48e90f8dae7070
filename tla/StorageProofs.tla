--------------------------- MODULE StorageProofs ---------------------------
(***************************************************************************)
(* Proofs about the registry of mounts, for every set of paths, rows,      *)
(* directories and requests, and however often the host remounts; and      *)
(* about files in mounts and their trash, for every set of mounts, places, *)
(* contents, directories in the trash and requests.                        *)
(***************************************************************************)
EXTENDS MountRegistry, MountFiles, TLAPS

-----------------------------------------------------------------------------
(* The registry of mounts. *)

USE RegistryAssumption

MountRow == [status : {"none", "active", "unavailable"}, root : Roots, seen : Sights,
             stale : BOOLEAN]
Call == [step : MountSteps, row : Rows \cup {NoMount}, root : Roots, stored : Sights,
         seen : Sights, known : SUBSET Identities, flag : BOOLEAN]

\* A mount whose identity is the one of its registration or reverification.
Here(x) == x.status # "none" /\ ~x.stale
Ident(x) == [root |-> x.root, at |-> x.seen]

\* An identity that a request knows of tells paths and directories of a row;
\* the kernel mount id may have been refreshed since.
Knows(q, x) == \E i \in q.known : i.root = x.root /\ i.at.dir = x.seen.dir

Registering == {"load", "verify", "insert"}
Using == {"reverify", "update", "capture", "mark", "refresh"}

\* What a request may count on, given the rows: the row it is about to insert
\* is free, and the one it uses has the path that it read; it knows of every
\* mount that it could be in conflict with, and has found no conflict when it
\* writes.
CallSound(q, rows) ==
    /\ q.step \in Registering => rows[q.row].status = "none"
    /\ q.step \in Using /\ rows[q.row].status # "none" => rows[q.row].root = q.root
    /\ q.step = "verify" \/ (q.step \in {"insert", "next"} /\ q.flag) =>
        \A n \in Rows : Here(rows[n]) => Knows(q, rows[n])
    /\ q.step = "reverify" =>
        \A n \in Rows \ {q.row} : Here(rows[n]) => Knows(q, rows[n])
    /\ q.step \in {"insert", "update"} =>
        \A n \in Rows \ {q.row} : Here(rows[n]) =>
            Disjoint([root |-> q.root, at |-> q.seen], Ident(rows[n]))
    /\ q.step = "next" => q.flag
    /\ q.step = "refresh" => q.seen.dir = q.stored.dir
    /\ q.step = "mark" => q.seen.dir # q.stored.dir \/ q.seen.via # q.stored.via

CallsSound == \A c \in Calls : CallSound(call[c], row)

\* Nobody else is about the row that a registration has chosen.
RowsAlone ==
    \A c, q \in Calls : c # q /\ call[c].step \in Registering => call[q].row # call[c].row

RootsUnique ==
    \A m, n \in Rows : m # n /\ Present(m) /\ Present(n) => row[m].root # row[n].root

RInv == MountTypeOK /\ RootsUnique /\ RootsDisjoint /\ CallsSound /\ RowsAlone

LEMMA RegistryTypes ==
    ASSUME RInv
    PROVE  /\ behind \in [Roots -> Sights]
           /\ row \in [Rows -> MountRow] /\ call \in [Calls -> Call]
           /\ mutex \in Calls \cup {NoCall}
           /\ \A c \in Calls : call[c].step \in Locked => mutex = c
           /\ \A c \in Calls : call[c].step # "free" => call[c].row \in Rows
BY DEF RInv, MountTypeOK, MountRow, Call

LEMMA NothingFacts ==
    /\ SomeRoot \in Roots /\ Nothing \in Sights
    /\ NoRow \in MountRow /\ NoRow.status = "none"
    /\ Free \in Call /\ Free.step = "free" /\ Free.row = NoMount
    /\ \A rows : CallSound(Free, rows)
<1>1. SomeRoot \in Roots
  BY DEF SomeRoot
<1>2. Nothing \in Sights
  BY DEF Nothing, Sights
<1>3. NoRow \in MountRow /\ NoRow.status = "none"
  BY <1>1, <1>2 DEF NoRow, MountRow
<1>4. Free \in Call /\ Free.step = "free" /\ Free.row = NoMount
  BY <1>1, <1>2 DEF Free, Call, MountSteps
<1>5. \A rows : CallSound(Free, rows)
  BY <1>4 DEF CallSound, Registering, Using
<1> QED BY <1>1, <1>2, <1>3, <1>4, <1>5

LEMMA MountInitInv == MountInit => RInv
<1> SUFFICES ASSUME MountInit PROVE RInv
  OBVIOUS
<1>1. /\ row \in [Rows -> MountRow] /\ \A m \in Rows : row[m].status = "none"
      /\ call \in [Calls -> Call] /\ \A c \in Calls : call[c] = Free
  BY NothingFacts DEF MountInit
<1>2. behind \in [Roots -> Sights]
  BY DEF MountInit
<1>3. MountTypeOK
  BY <1>1, <1>2, NothingFacts DEF MountInit, MountTypeOK, MountRow, Call, Locked
<1>4. RootsUnique /\ RootsDisjoint
  BY <1>1 DEF RootsUnique, RootsDisjoint, Present
<1>5. CallsSound /\ RowsAlone
  BY <1>1, NothingFacts DEF CallsSound, RowsAlone, Registering
<1> QED BY <1>3, <1>4, <1>5 DEF RInv

-----------------------------------------------------------------------------
\* Rows change in a way that no request need mind: mounts go, become
\* unavailable, or have their identity overwritten.
Tame ==
    \A n \in Rows : row'[n].status # "none" =>
        /\ row[n].status # "none" /\ row'[n].root = row[n].root
        /\ ~row'[n].stale => ~row[n].stale /\ row'[n].seen.dir = row[n].seen.dir

LEMMA TameSound ==
    ASSUME RInv, Tame, NEW q \in Call, q.step # "free" => q.row \in Rows,
           CallSound(q, row)
    PROVE  CallSound(q, row')
<1>1. ASSUME NEW n \in Rows, Here(row'[n])
      PROVE  /\ Here(row[n]) /\ (Knows(q, row[n]) => Knows(q, row'[n]))
             /\ \A i : Disjoint(i, Ident(row[n])) => Disjoint(i, Ident(row'[n]))
  <2>1. Here(row[n]) /\ row'[n].root = row[n].root /\ row'[n].seen.dir = row[n].seen.dir
    BY <1>1 DEF Tame, Here
  <2> QED BY <2>1 DEF Knows, Disjoint, SamePaths, Ident
<1>2. q.step \in Registering \cup Using => q.row \in Rows
  BY DEF Registering, Using
<1>3. \A n \in Rows : row'[n].status # "none" =>
        row[n].status # "none" /\ row'[n].root = row[n].root
  BY DEF Tame
<1> QED BY <1>1, <1>2, <1>3 DEF CallSound

LEMMA TameRoots == ASSUME RInv, Tame PROVE RootsUnique' /\ RootsDisjoint'
<1>1. RootsUnique'
  BY DEF RInv, RootsUnique, Present, Tame
<1>2. ASSUME NEW m \in Rows, NEW n \in Rows, m # n, Present(m)', Present(n)',
             ~row'[m].stale, ~row'[n].stale
      PROVE  Disjoint(IdentityOf(m)', IdentityOf(n)')
  <2>1. /\ Present(m) /\ Present(n) /\ ~row[m].stale /\ ~row[n].stale
        /\ row'[m].root = row[m].root /\ row'[m].seen.dir = row[m].seen.dir
        /\ row'[n].root = row[n].root /\ row'[n].seen.dir = row[n].seen.dir
    BY <1>2 DEF Tame, Present
  <2>2. Disjoint(IdentityOf(m), IdentityOf(n))
    BY <1>2, <2>1 DEF RInv, RootsDisjoint
  <2> QED BY <2>1, <2>2 DEF Disjoint, SamePaths, IdentityOf
<1>3. RootsDisjoint'
  BY <1>2 DEF RootsDisjoint
<1> QED BY <1>1, <1>3

\* What a step of the request c, which becomes `new`, means for the mutex and
\* for the rows that others have chosen.
MutexKept(c, new) ==
    /\ mutex' \in Calls \cup {NoCall}
    /\ new.step \in Locked => mutex' = c
    /\ \A q \in Calls \ {c} : call[q].step \in Locked => mutex' = q

RowsApart(c, new) ==
    \A q \in Calls \ {c} :
        new.step \in Registering \/ call[q].step \in Registering => call[q].row # new.row

RestTyped == behind' \in [Roots -> Sights]

\* One request takes a step.
LEMMA CallStep ==
    ASSUME RInv, NEW c \in Calls, NEW new \in Call, call' = [call EXCEPT ![c] = new],
           new.step # "free" => new.row \in Rows,
           row' \in [Rows -> MountRow], RestTyped, MutexKept(c, new), RowsApart(c, new),
           CallSound(new, row'), \A q \in Calls \ {c} : CallSound(call[q], row'),
           RootsUnique', RootsDisjoint'
    PROVE  RInv'
<1>1. /\ call' \in [Calls -> Call] /\ call'[c] = new
      /\ \A q \in Calls \ {c} : call'[q] = call[q]
  BY RegistryTypes
<1>2. \A q \in Calls : call'[q].step # "free" => call'[q].row \in Rows
  BY <1>1, RegistryTypes
<1>3. \A q \in Calls : call'[q].step \in Locked => mutex' = q
  BY <1>1 DEF MutexKept
<1>4. MountTypeOK'
  BY <1>1, <1>2, <1>3 DEF MountTypeOK, RestTyped, MutexKept, MountRow, Call
<1>5. CallsSound'
  BY <1>1 DEF CallsSound
<1>6. RowsAlone'
  <2> SUFFICES ASSUME NEW p \in Calls, NEW q \in Calls, p # q, call'[p].step \in Registering
               PROVE  call'[q].row # call'[p].row
    BY DEF RowsAlone
  <2>1. CASE p = c
    BY <1>1, <2>1 DEF RowsApart
  <2>2. CASE q = c
    BY <1>1, <2>2 DEF RowsApart
  <2>3. CASE p # c /\ q # c
    BY <1>1, <2>3 DEF RInv, RowsAlone
  <2> QED BY <2>1, <2>2, <2>3
<1> QED BY <1>4, <1>5, <1>6 DEF RInv

LEMMA OthersTame ==
    ASSUME RInv, Tame, NEW c \in Calls
    PROVE  /\ \A q \in Calls \ {c} : CallSound(call[q], row')
           /\ RootsUnique' /\ RootsDisjoint'
<1>1. ASSUME NEW q \in Calls PROVE CallSound(call[q], row')
  <2>1. /\ call[q] \in Call /\ CallSound(call[q], row)
        /\ call[q].step # "free" => call[q].row \in Rows
    BY RegistryTypes DEF RInv, CallsSound
  <2> QED BY <2>1, TameSound
<1> QED BY <1>1, TameRoots

LEMMA TameStep ==
    ASSUME RInv, NEW c \in Calls, NEW new \in Call, call' = [call EXCEPT ![c] = new],
           new.step # "free" => new.row \in Rows,
           row' \in [Rows -> MountRow], Tame, RestTyped, MutexKept(c, new), RowsApart(c, new),
           CallSound(new, row')
    PROVE  RInv'
BY OthersTame, CallStep

LEMMA RowsSame == ASSUME RInv, UNCHANGED row PROVE Tame /\ row' \in [Rows -> MountRow]
BY RegistryTypes DEF Tame

LEMMA RestSame == ASSUME RInv, UNCHANGED behind PROVE RestTyped
BY RegistryTypes DEF RestTyped

\* A request that holds the mutex and goes on, and one that needs no mutex.
LEMMA MutexSame ==
    ASSUME RInv, NEW c \in Calls, NEW new, UNCHANGED mutex,
           new.step \in Locked => call[c].step \in Locked
    PROVE  MutexKept(c, new)
BY RegistryTypes DEF MutexKept

LEMMA MutexTaken ==
    ASSUME RInv, NEW c \in Calls, NEW new, mutex = NoCall, mutex' = c
    PROVE  MutexKept(c, new)
BY RegistryTypes DEF MutexKept

\* The row of a request stays the same, or is one that is free for it.
LEMMA RowSame ==
    ASSUME RInv, NEW c \in Calls, NEW new, new.row = call[c].row,
           new.step \in Registering => call[c].step \in Registering
    PROVE  RowsApart(c, new)
BY DEF RInv, RowsAlone, RowsApart

LEMMA RowFresh ==
    ASSUME RInv, NEW c \in Calls, NEW new, Fresh(new.row) PROVE RowsApart(c, new)
BY DEF Fresh, RowsApart

LEMMA RowPresent ==
    ASSUME RInv, NEW c \in Calls, NEW new, Present(new.row), new.step \notin Registering
    PROVE  RowsApart(c, new)
BY DEF Present, RInv, CallsSound, CallSound, RowsApart

LEMMA RowNone ==
    ASSUME RInv, NEW c \in Calls, NEW new, new.row = NoMount, new.step \notin Registering
    PROVE  RowsApart(c, new)
BY RegistryTypes DEF RowsApart, Registering

\* A request that ends gives the mutex back, or never had it.
LEMMA FinishFacts ==
    ASSUME RInv, NEW c \in Calls, Finish(c), Unlock(c) \/ UNCHANGED mutex
    PROVE  /\ call' = [call EXCEPT ![c] = Free] /\ MutexKept(c, Free) /\ RowsApart(c, Free)
           /\ Free.step = "free"
<1>1. MutexKept(c, Free)
  BY RegistryTypes, NothingFacts DEF Unlock, MutexKept, Locked
<1>2. RowsApart(c, Free)
  BY NothingFacts, RowNone DEF Registering
<1> QED BY <1>1, <1>2, NothingFacts DEF Finish

LEMMA FinishStep ==
    ASSUME RInv, NEW c \in Calls, Finish(c), Unlock(c) \/ UNCHANGED mutex, RestTyped,
           Tame, row' \in [Rows -> MountRow]
    PROVE  RInv'
BY FinishFacts, NothingFacts, TameStep

-----------------------------------------------------------------------------
(* Steps that change nothing but requests and the mutex.                   *)

LEMMA ReadStep ==
    ASSUME RInv, NEW c \in Calls, NEW new \in Call, call' = [call EXCEPT ![c] = new],
           UNCHANGED <<behind, row>>,
           new.step # "free" => new.row \in Rows,
           MutexKept(c, new), RowsApart(c, new), CallSound(new, row)
    PROVE  RInv'
<1>1. UNCHANGED row /\ UNCHANGED behind /\ CallSound(new, row')
  BY DEF CallSound
<1> QED BY <1>1, RowsSame, RestSame, TameStep

LEMMA StartRegisterStep ==
    ASSUME RInv, NEW c \in Calls, NEW m \in Rows, NEW p \in Roots, NEW auto \in BOOLEAN,
           StartRegister(c, m, p, auto)
    PROVE  RInv'
<1> DEFINE new == [Free EXCEPT !.step = "load", !.row = m, !.root = p, !.flag = auto]
<1>1. new \in Call /\ new.step = "load" /\ new.row = m
  BY NothingFacts DEF Call, MountSteps
<1>2. /\ call' = [call EXCEPT ![c] = new] /\ UNCHANGED <<behind, row>>
      /\ mutex = NoCall /\ mutex' = c /\ Fresh(m)
  BY DEF StartRegister
<1> HIDE DEF new
<1>3. CallSound(new, row)
  BY <1>1, <1>2 DEF CallSound, Fresh, Registering, Using
<1>4. MutexKept(c, new) /\ RowsApart(c, new)
  BY <1>1, <1>2, MutexTaken, RowFresh
<1> QED BY <1>1, <1>2, <1>3, <1>4, ReadStep

LEMMA IdentitiesTyped ==
    ASSUME RInv
    PROVE  \A m \in Rows : IdentityOf(m) \in Identities /\ IdentityOf(m) = Ident(row[m])
<1> SUFFICES ASSUME NEW m \in Rows
             PROVE  IdentityOf(m) \in Identities /\ IdentityOf(m) = Ident(row[m])
  OBVIOUS
<1>1. row[m].root \in Roots /\ row[m].seen \in Sights
  BY RegistryTypes DEF MountRow
<1> QED BY <1>1 DEF IdentityOf, Ident, Identities

LEMMA LoadIdentitiesStep == ASSUME RInv, NEW c \in Calls, LoadIdentities(c) PROVE RInv'
<1> DEFINE found == {IdentityOf(m) : m \in {n \in Rows : Present(n)}}
           new == [call[c] EXCEPT !.step = "verify", !.known = found]
<1>1. call[c] \in Call /\ call[c].step = "load" /\ call[c].row \in Rows
      /\ CallSound(call[c], row)
  BY RegistryTypes DEF LoadIdentities, Doing, RInv, CallsSound
<1>2. /\ found \in SUBSET Identities
      /\ \A n \in Rows : Here(row[n]) =>
            \E i \in found : i.root = row[n].root /\ i.at.dir = row[n].seen.dir
  <2>1. \A m \in Rows : IdentityOf(m) \in Identities /\ IdentityOf(m) = Ident(row[m])
    BY IdentitiesTyped
  <2>2. \A m \in Rows : Present(m) => IdentityOf(m) \in found
    OBVIOUS
  <2>3. \A m \in Rows : Here(row[m]) => Present(m)
    BY DEF Here, Present
  <2>4. \A m \in Rows : Ident(row[m]).root = row[m].root /\ Ident(row[m]).at.dir = row[m].seen.dir
    BY DEF Ident
  <2> QED BY <2>1, <2>2, <2>3, <2>4
<1>3. call' = [call EXCEPT ![c] = new] /\ UNCHANGED <<behind, row, mutex>>
  BY DEF LoadIdentities
<1> HIDE DEF found
<1>4. new \in Call /\ new.step = "verify" /\ new.row = call[c].row /\ new.known = found
  BY <1>1, <1>2 DEF Call, MountSteps
<1> HIDE DEF new
<1>5. CallSound(new, row)
  BY <1>1, <1>2, <1>4 DEF CallSound, Knows, Registering, Using
<1>6. MutexKept(c, new) /\ RowsApart(c, new)
  BY <1>1, <1>3, <1>4, MutexSame, RowSame DEF Locked, Registering
<1> QED BY <1>1, <1>3, <1>4, <1>5, <1>6, ReadStep

LEMMA StartReverifyStep ==
    ASSUME RInv, NEW c \in Calls, NEW m \in Rows, StartReverify(c, m) PROVE RInv'
<1> DEFINE found == {IdentityOf(n) : n \in {k \in Rows : Present(k) /\ row[k].root # row[m].root}}
           new == [Free EXCEPT !.step = "reverify", !.row = m, !.root = row[m].root,
                               !.known = found]
<1>1. /\ call' = [call EXCEPT ![c] = new] /\ UNCHANGED <<behind, row>>
      /\ mutex = NoCall /\ mutex' = c /\ Present(m) /\ row[m] \in MountRow
  BY RegistryTypes DEF StartReverify
<1>2. found \in SUBSET Identities
  BY IdentitiesTyped
<1>3. ASSUME NEW n \in Rows \ {m}, Here(row[n])
      PROVE  \E i \in found : i.root = row[n].root /\ i.at.dir = row[n].seen.dir
  <2>1. Present(n) /\ row[n].root # row[m].root
    BY <1>1, <1>3 DEF RInv, RootsUnique, Here, Present
  <2>2. IdentityOf(n) \in found
    BY <2>1
  <2> QED BY <2>2 DEF IdentityOf
<1> HIDE DEF found
<1>4. /\ new \in Call /\ new.step = "reverify" /\ new.row = m /\ new.root = row[m].root
      /\ new.known = found
  BY <1>1, <1>2, NothingFacts DEF Call, MountSteps, MountRow
<1> HIDE DEF new
<1>5. CallSound(new, row)
  BY <1>3, <1>4 DEF CallSound, Knows, Registering, Using
<1>6. MutexKept(c, new) /\ RowsApart(c, new)
  BY <1>1, <1>4, MutexTaken, RowPresent DEF Registering
<1> QED BY <1>1, <1>4, <1>5, <1>6, ReadStep

\* No conflict with the mounts it knows is no conflict with any mount.
LEMMA VerifyCandidateStep == ASSUME RInv, NEW c \in Calls, VerifyCandidate(c) PROVE RInv'
<1> DEFINE at == behind[call[c].root]
           known == IF call[c].flag THEN call[c].known ELSE {}
           new == [call[c] EXCEPT !.step = AfterVerify[@], !.seen = at,
                                  !.known = IF call[c].flag THEN @ ELSE {}]
<1>1. /\ call[c] \in Call /\ call[c].step \in {"verify", "reverify"} /\ call[c].row \in Rows
      /\ CallSound(call[c], row)
  BY RegistryTypes DEF VerifyCandidate, AfterVerify, RInv, CallsSound
<1>2. /\ call' = [call EXCEPT ![c] = new] /\ UNCHANGED <<behind, row, mutex>>
      /\ \A i \in call[c].known : ~Conflict([root |-> call[c].root, at |-> at], i)
  BY DEF VerifyCandidate
<1>3. AfterVerify[call[c].step] = IF call[c].step = "verify" THEN "insert" ELSE "update"
  BY <1>1 DEF AfterVerify
<1>4. /\ new \in Call /\ new.row = call[c].row /\ new.root = call[c].root /\ new.seen = at
      /\ new.step = IF call[c].step = "verify" THEN "insert" ELSE "update"
      /\ new.known = known /\ new.flag = call[c].flag
  BY <1>1, <1>3, RegistryTypes DEF Call, MountSteps
<1> HIDE DEF new
<1>5. \A n \in Rows \ {new.row} : Here(row[n]) => Knows(call[c], row[n])
  BY <1>1, <1>4 DEF CallSound
<1>6. \A n \in Rows \ {new.row} : Here(row[n]) =>
        Disjoint([root |-> new.root, at |-> new.seen], Ident(row[n]))
  <2> SUFFICES ASSUME NEW n \in Rows \ {new.row}, Here(row[n])
               PROVE  Disjoint([root |-> new.root, at |-> new.seen], Ident(row[n]))
    OBVIOUS
  <2>1. PICK i \in call[c].known : i.root = row[n].root /\ i.at.dir = row[n].seen.dir
    BY <1>5 DEF Knows
  <2>2. ~Conflict([root |-> new.root, at |-> new.seen], i)
    BY <1>2, <1>4
  <2> QED BY <2>1, <2>2 DEF Conflict, Disjoint, SamePaths, Ident
<1>7. CallSound(new, row)
  <2>1. new.flag => \A n \in Rows : Knows(call[c], row[n]) => Knows(new, row[n])
    BY <1>4 DEF Knows
  <2> QED BY <1>1, <1>4, <1>6, <2>1 DEF CallSound, Registering, Using
<1>8. MutexKept(c, new) /\ RowsApart(c, new)
  <2>1. new.step \in Registering => call[c].step \in Registering
    BY <1>1, <1>4 DEF Registering
  <2> QED BY <1>1, <1>2, <1>4, <2>1, MutexSame, RowSame DEF Locked
<1> QED BY <1>1, <1>2, <1>4, <1>7, <1>8, ReadStep

LEMMA NextCandidateStep ==
    ASSUME RInv, NEW c \in Calls, NEW m \in Rows, NEW p \in Roots, NextCandidate(c, m, p)
    PROVE  RInv'
<1> DEFINE new == [call[c] EXCEPT !.step = "verify", !.row = m, !.root = p]
<1>1. /\ call[c] \in Call /\ call[c].step \in {"verify", "insert", "next"} /\ call[c].flag
      /\ CallSound(call[c], row)
  BY RegistryTypes DEF NextCandidate, RInv, CallsSound
<1>2. /\ call' = [call EXCEPT ![c] = new] /\ UNCHANGED <<behind, row, mutex>>
      /\ Fresh(m)
  BY DEF NextCandidate
<1>3. new \in Call /\ new.step = "verify" /\ new.row = m /\ new.known = call[c].known
  BY <1>1 DEF Call, MountSteps
<1> HIDE DEF new
<1>4. CallSound(new, row)
  <2>1. \A n \in Rows : Knows(call[c], row[n]) => Knows(new, row[n])
    BY <1>3 DEF Knows
  <2> QED BY <1>1, <1>2, <1>3, <2>1 DEF CallSound, Fresh, Registering, Using
<1>5. MutexKept(c, new) /\ RowsApart(c, new)
  BY <1>1, <1>2, <1>3, MutexSame, RowFresh DEF Locked
<1> QED BY <1>2, <1>3, <1>4, <1>5, ReadStep

LEMMA StartUseStep == ASSUME RInv, NEW c \in Calls, NEW m \in Rows, StartUse(c, m) PROVE RInv'
<1> DEFINE new == [Free EXCEPT !.step = "capture", !.row = m, !.root = row[m].root,
                               !.stored = row[m].seen]
<1>1. /\ call' = [call EXCEPT ![c] = new] /\ UNCHANGED <<behind, row, mutex>>
      /\ Present(m) /\ row[m] \in MountRow
  BY RegistryTypes DEF StartUse, Present
<1>2. new \in Call /\ new.step = "capture" /\ new.row = m /\ new.root = row[m].root
  BY <1>1, NothingFacts DEF Call, MountSteps, MountRow
<1> HIDE DEF new
<1>3. CallSound(new, row)
  BY <1>2 DEF CallSound, Registering, Using
<1>4. MutexKept(c, new) /\ RowsApart(c, new)
  BY <1>1, <1>2, MutexSame, RowPresent DEF Locked, Registering
<1> QED BY <1>1, <1>2, <1>3, <1>4, ReadStep

LEMMA CaptureStep == ASSUME RInv, NEW c \in Calls, Capture(c) PROVE RInv'
<1> DEFINE Next(at) == IF ~Matches(call[c].stored, at) THEN "mark"
                       ELSE IF call[c].stored.id # at.id THEN "refresh" ELSE "free"
<1>1. /\ call[c] \in Call /\ call[c].step = "capture" /\ call[c].row \in Rows
      /\ CallSound(call[c], row) /\ UNCHANGED <<behind, row, mutex>>
  BY RegistryTypes DEF Capture, Doing, RInv, CallsSound
<1>2. PICK at \in {behind[call[c].root], Nothing} :
        IF Next(at) = "free" THEN Finish(c)
        ELSE call' = [call EXCEPT ![c] = [call[c] EXCEPT !.step = Next(at), !.seen = at]]
  BY DEF Capture
<1>3. at \in Sights
  BY <1>1, RegistryTypes, NothingFacts DEF Call
<1>4. CASE Next(at) = "free"
  <2>1. Finish(c) /\ UNCHANGED mutex /\ UNCHANGED row /\ UNCHANGED behind
    BY <1>1, <1>2, <1>4
  <2> QED BY <2>1, RowsSame, RestSame, FinishStep
<1>5. CASE Next(at) # "free"
  <2> DEFINE next == Next(at)
             new == [call[c] EXCEPT !.step = next, !.seen = at]
  <2>1. call' = [call EXCEPT ![c] = new]
    BY <1>2, <1>5
  <2>2. /\ next \in {"mark", "refresh"}
        /\ next = "mark" => at.dir # call[c].stored.dir \/ at.via # call[c].stored.via
        /\ next = "refresh" => at.dir = call[c].stored.dir
    BY <1>5 DEF Matches
  <2> HIDE DEF next, Next
  <2>3. /\ new \in Call /\ new.step = next /\ new.row = call[c].row /\ new.root = call[c].root
        /\ new.seen = at /\ new.stored = call[c].stored
    BY <1>1, <1>3, <2>2 DEF Call, MountSteps
  <2> HIDE DEF new
  <2>4. CallSound(new, row)
    BY <1>1, <2>2, <2>3 DEF CallSound, Registering, Using
  <2>5. MutexKept(c, new) /\ RowsApart(c, new)
    BY <1>1, <2>2, <2>3, MutexSame, RowSame DEF Locked, Registering
  <2> QED BY <1>1, <2>1, <2>2, <2>3, <2>4, <2>5, ReadStep
<1> QED BY <1>4, <1>5

-----------------------------------------------------------------------------
(* Steps that change rows or directories.                                  *)

\* The row that is written stands for what was found free of conflicts.
LEMMA WrittenRoots ==
    ASSUME RInv, NEW m \in Rows, NEW x \in MountRow, row' = [row EXCEPT ![m] = x],
           x.status # "none",
           \A n \in Rows \ {m} : Present(n) => row[n].root # x.root,
           \A n \in Rows \ {m} : Here(row[n]) => Disjoint(Ident(x), Ident(row[n]))
    PROVE  RootsUnique' /\ RootsDisjoint' /\ row' \in [Rows -> MountRow]
<1>1. /\ row' \in [Rows -> MountRow] /\ row'[m] = x
      /\ \A n \in Rows \ {m} : row'[n] = row[n]
  BY RegistryTypes
<1>2. RootsUnique'
  BY <1>1 DEF RInv, RootsUnique, Present
<1>3. ASSUME NEW k \in Rows, NEW n \in Rows, k # n, Present(k)', Present(n)',
             ~row'[k].stale, ~row'[n].stale
      PROVE  Disjoint(IdentityOf(k)', IdentityOf(n)')
  <2>1. CASE k = m
    <3>1. Here(row[n]) /\ IdentityOf(k)' = Ident(x) /\ IdentityOf(n)' = Ident(row[n])
      BY <1>1, <1>3, <2>1 DEF Here, Present, IdentityOf, Ident
    <3> QED BY <1>3, <2>1, <3>1
  <2>2. CASE n = m
    <3>1. Here(row[k]) /\ IdentityOf(n)' = Ident(x) /\ IdentityOf(k)' = Ident(row[k])
      BY <1>1, <1>3, <2>2 DEF Here, Present, IdentityOf, Ident
    <3>2. Disjoint(Ident(x), Ident(row[k]))
      BY <1>3, <2>2, <3>1
    <3>3. {Ident(x).root, Ident(row[k]).root} = {Ident(row[k]).root, Ident(x).root}
      OBVIOUS
    <3> QED BY <3>1, <3>2, <3>3 DEF Disjoint, SamePaths
  <2>3. CASE k # m /\ n # m
    <3>1. /\ Present(k) /\ Present(n) /\ ~row[k].stale /\ ~row[n].stale
          /\ IdentityOf(k)' = IdentityOf(k) /\ IdentityOf(n)' = IdentityOf(n)
      BY <1>1, <1>3, <2>3 DEF Present, IdentityOf
    <3> QED BY <1>3, <3>1 DEF RInv, RootsDisjoint
  <2> QED BY <2>1, <2>2, <2>3
<1>4. RootsDisjoint'
  BY <1>3 DEF RootsDisjoint
<1> QED BY <1>1, <1>2, <1>4

\* Whoever holds the mutex is alone with it, and nobody else's row is written.
LEMMA OthersUnlocked ==
    ASSUME RInv, NEW c \in Calls, call[c].step \in Locked, NEW q \in Calls \ {c}
    PROVE  call[q].step \notin Locked
BY RegistryTypes

LEMMA InsertMountStep == ASSUME RInv, NEW c \in Calls, InsertMount(c) PROVE RInv'
<1> DEFINE m == call[c].row
           x == [status |-> "active", root |-> call[c].root, seen |-> call[c].seen,
                 stale |-> FALSE]
           own == [root |-> call[c].root, at |-> call[c].seen]
<1>1. /\ call[c] \in Call /\ call[c].step = "insert" /\ m \in Rows /\ CallSound(call[c], row)
      /\ row[m].status = "none"
  BY RegistryTypes DEF InsertMount, Doing, RInv, CallsSound, CallSound, Registering
<1>2. /\ row' = [row EXCEPT ![m] = x] /\ UNCHANGED behind
      /\ \A n \in Rows : Present(n) => row[n].root # call[c].root
  BY DEF InsertMount
<1>3. x \in MountRow /\ x.status # "none" /\ x.root = call[c].root /\ Ident(x) = own
  BY <1>1 DEF MountRow, Call, Ident
<1>4. own \in Identities
  BY <1>1 DEF Call, Identities
<1>5. \A n \in Rows \ {m} : Here(row[n]) => Disjoint(own, Ident(row[n]))
  BY <1>1 DEF CallSound
<1> HIDE DEF x, own
<1>6. RootsUnique' /\ RootsDisjoint' /\ row' \in [Rows -> MountRow]
  <2>1. \A n \in Rows \ {m} : Present(n) => row[n].root # x.root
    BY <1>2, <1>3
  <2>2. \A n \in Rows \ {m} : Here(row[n]) => Disjoint(Ident(x), Ident(row[n]))
    BY <1>3, <1>5
  <2> QED BY <1>1, <1>2, <1>3, <2>1, <2>2, WrittenRoots
<1>7. row'[m] = x /\ \A n \in Rows \ {m} : row'[n] = row[n]
  BY <1>1, <1>2, RegistryTypes
<1>8. ASSUME NEW q \in Calls \ {c} PROVE CallSound(call[q], row')
  <2>1. /\ call[q].step \notin Locked /\ call[q].row # m /\ CallSound(call[q], row)
        /\ call[q].step \in Using => call[q].row \in Rows
    BY <1>1, OthersUnlocked, RegistryTypes
       DEF RInv, RowsAlone, CallsSound, Registering, Locked, Using
  <2> QED BY <1>7, <2>1 DEF CallSound, Locked, Registering, Using
<1>9. RestTyped
  BY <1>2, RestSame
<1>10. CASE call[c].flag
  <2> DEFINE new == [call[c] EXCEPT !.step = "next", !.known = @ \cup {own}]
  <2>1. call' = [call EXCEPT ![c] = new] /\ UNCHANGED mutex
    BY <1>10 DEF InsertMount, own
  <2>2. /\ new \in Call /\ new.step = "next" /\ new.row = m /\ new.flag
        /\ new.known = call[c].known \cup {own}
    BY <1>1, <1>4, <1>10 DEF Call, MountSteps
  <2> HIDE DEF new
  <2>3. ASSUME NEW n \in Rows, Here(row'[n]) PROVE Knows(new, row'[n])
    <3>1. CASE n = m
      <4>1. own.root = x.root /\ own.at.dir = x.seen.dir
        BY <1>3 DEF Ident
      <4> QED BY <1>7, <2>2, <3>1, <4>1 DEF Knows
    <3>2. CASE n # m
      <4>1. Knows(call[c], row[n])
        BY <1>1, <1>7, <1>10, <2>3, <3>2 DEF CallSound
      <4> QED BY <1>7, <2>2, <3>2, <4>1 DEF Knows
    <3> QED BY <3>1, <3>2
  <2>4. CallSound(new, row')
    BY <2>2, <2>3 DEF CallSound, Registering, Using
  <2>5. MutexKept(c, new) /\ RowsApart(c, new)
    BY <1>1, <2>1, <2>2, MutexSame, RowSame DEF Locked, Registering
  <2> QED BY <1>1, <1>6, <1>8, <1>9, <2>1, <2>2, <2>4, <2>5, CallStep
<1>11. CASE ~call[c].flag
  <2>1. Finish(c) /\ Unlock(c)
    BY <1>11 DEF InsertMount
  <2> QED BY <1>6, <1>8, <1>9, <2>1, FinishFacts, NothingFacts, CallStep
<1> QED BY <1>10, <1>11

LEMMA UpdateMountStep == ASSUME RInv, NEW c \in Calls, UpdateMount(c) PROVE RInv'
<1> DEFINE m == call[c].row
           x == [row[m] EXCEPT !.status = "active", !.seen = call[c].seen, !.stale = FALSE]
<1>1. /\ call[c] \in Call /\ call[c].step = "update" /\ m \in Rows /\ CallSound(call[c], row)
      /\ Present(m) => row[m].root = call[c].root
  BY RegistryTypes DEF UpdateMount, Doing, RInv, CallsSound, CallSound, Using, Present
<1>2. Finish(c) /\ Unlock(c) /\ UNCHANGED behind
  BY DEF UpdateMount
<1>3. RestTyped
  BY <1>2, RestSame
<1>4. CASE ~Present(m)
  <2>1. UNCHANGED row
    BY <1>4 DEF UpdateMount
  <2> QED BY <1>2, <1>3, <2>1, RowsSame, FinishStep
<1>5. CASE Present(m)
  <2>1. row' = [row EXCEPT ![m] = x]
    BY <1>5 DEF UpdateMount
  <2>2. row[m] \in MountRow
    BY <1>1, RegistryTypes
  <2>3. /\ x \in MountRow /\ x.status # "none" /\ x.root = row[m].root
        /\ Ident(x) = [root |-> call[c].root, at |-> call[c].seen]
    BY <1>1, <1>5, <2>2 DEF MountRow, Call, Ident
  <2> HIDE DEF x
  <2>4. /\ \A n \in Rows \ {m} : Present(n) => row[n].root # x.root
        /\ \A n \in Rows \ {m} : Here(row[n]) => Disjoint(Ident(x), Ident(row[n]))
    BY <1>1, <1>5, <2>3 DEF RInv, RootsUnique, CallSound
  <2>5. RootsUnique' /\ RootsDisjoint' /\ row' \in [Rows -> MountRow]
    BY <1>1, <2>1, <2>3, <2>4, WrittenRoots
  <2>6. row'[m] = x /\ \A n \in Rows \ {m} : row'[n] = row[n]
    BY <1>1, <2>1, <2>3, RegistryTypes
  <2>7. ASSUME NEW q \in Calls \ {c} PROVE CallSound(call[q], row')
    <3>1. /\ call[q].step \notin Locked /\ CallSound(call[q], row)
          /\ call[q].step \in Using => call[q].row \in Rows
      BY <1>1, OthersUnlocked, RegistryTypes DEF RInv, CallsSound, Locked, Using
    <3> QED BY <1>5, <2>3, <2>6, <3>1 DEF CallSound, Locked, Registering, Using, Present
  <2> QED BY <1>2, <1>3, <2>5, <2>7, FinishFacts, NothingFacts, CallStep
<1> QED BY <1>4, <1>5

LEMMA DeleteMountStep == ASSUME RInv, NEW m \in Rows, DeleteMount(m) PROVE RInv'
<1>1. /\ Present(m) /\ row[m] \in MountRow /\ row' = [row EXCEPT ![m] = NoRow]
      /\ UNCHANGED <<behind, mutex, call>>
  BY RegistryTypes DEF DeleteMount
<1>2. row' \in [Rows -> MountRow] /\ Tame
  <2>1. row' \in [Rows -> MountRow]
    BY <1>1, RegistryTypes, NothingFacts
  <2>2. \A n \in Rows : n # m => row'[n] = row[n]
    BY <1>1, RegistryTypes
  <2>3. row'[m].status = "none"
    BY <1>1, RegistryTypes, NothingFacts
  <2> QED BY <1>1, <2>1, <2>2, <2>3 DEF Tame
<1>3. RootsUnique' /\ RootsDisjoint'
  BY <1>2, TameRoots
<1>4. ASSUME NEW q \in Calls PROVE CallSound(call[q], row')
  BY <1>2, RegistryTypes, TameSound DEF RInv, CallsSound
<1>5. CallsSound'
  BY <1>1, <1>4 DEF CallsSound
<1>6. MountTypeOK' /\ RowsAlone'
  BY <1>1, <1>2, RegistryTypes DEF RInv, MountTypeOK, RowsAlone, MountRow
<1> QED BY <1>3, <1>5, <1>6 DEF RInv

LEMMA MarkMountStep == ASSUME RInv, NEW c \in Calls, MarkMount(c) PROVE RInv'
<1> DEFINE m == call[c].row
<1>1. /\ Finish(c) /\ UNCHANGED mutex /\ UNCHANGED behind
      /\ call[c].step = "mark" /\ m \in Rows /\ row[m] \in MountRow
      /\ row' = [row EXCEPT ![m].status = IF @ = "active" THEN "unavailable" ELSE @]
  BY RegistryTypes DEF MarkMount, Doing
<1>2. /\ row'[m].root = row[m].root /\ row'[m].seen = row[m].seen
      /\ row'[m].stale = row[m].stale /\ row'[m] \in MountRow
      /\ row'[m].status # "none" => row[m].status # "none"
      /\ \A n \in Rows : n # m => row'[n] = row[n]
  BY <1>1, RegistryTypes DEF MountRow
<1>3. row' \in [Rows -> MountRow]
  BY <1>1, <1>2, RegistryTypes
<1>4. Tame
  BY <1>2 DEF Tame
<1>5. RestTyped
  BY <1>1, RestSame
<1> QED BY <1>1, <1>3, <1>4, <1>5, FinishStep

\* What is written over an identity that is still the one that was read is the
\* same directory; anything else is marked as stale.
LEMMA RefreshMountStep == ASSUME RInv, NEW c \in Calls, RefreshMount(c) PROVE RInv'
<1> DEFINE m == call[c].row
           x == [row[m] EXCEPT !.seen = call[c].seen,
                               !.stale = @ \/ row[m].seen.dir # call[c].stored.dir]
<1>1. /\ call[c] \in Call /\ call[c].step = "refresh" /\ m \in Rows /\ row[m] \in MountRow
      /\ call[c].seen.dir = call[c].stored.dir /\ Finish(c)
      /\ UNCHANGED mutex /\ UNCHANGED behind
  BY RegistryTypes DEF RefreshMount, Doing, RInv, CallsSound, CallSound
<1>2. Tame /\ row' \in [Rows -> MountRow]
  <2>1. CASE row[m].status = "active"
    <3>1. row' = [row EXCEPT ![m] = x]
      BY <2>1 DEF RefreshMount
    <3>2. /\ x \in MountRow /\ x.root = row[m].root /\ x.seen = call[c].seen
          /\ ~x.stale => ~row[m].stale /\ row[m].seen.dir = call[c].stored.dir
      BY <1>1 DEF MountRow, Call
    <3> HIDE DEF x
    <3>3. row' \in [Rows -> MountRow] /\ row'[m] = x /\ \A n \in Rows : n # m => row'[n] = row[n]
      BY <1>1, <3>1, <3>2, RegistryTypes
    <3> QED BY <1>1, <2>1, <3>2, <3>3 DEF Tame
  <2>2. CASE row[m].status # "active"
    <3>1. UNCHANGED row
      BY <2>2 DEF RefreshMount
    <3> QED BY <3>1, RowsSame
  <2> QED BY <2>1, <2>2
<1>3. RestTyped
  BY <1>1, RestSame
<1> QED BY <1>1, <1>2, <1>3, FinishStep

LEMMA AbortCallStep == ASSUME RInv, NEW c \in Calls, AbortCall(c) PROVE RInv'
<1>1. /\ Finish(c) /\ Unlock(c) /\ UNCHANGED row /\ UNCHANGED behind
  BY DEF AbortCall
<1> QED BY <1>1, RowsSame, RestSame, FinishStep

\* The host touches neither rows nor requests.
LEMMA RemountStep ==
    ASSUME RInv, NEW p \in Roots, NEW at \in Sights, Remount(p, at) PROVE RInv'
<1>1. /\ behind' = [behind EXCEPT ![p] = at] /\ behind \in [Roots -> Sights]
      /\ row' = row /\ mutex' = mutex /\ call' = call
  BY RegistryTypes DEF Remount
<1>2. behind' \in [Roots -> Sights]
  BY <1>1
<1> QED BY <1>1, <1>2
        DEF RInv, MountTypeOK, RootsUnique, RootsDisjoint, CallsSound, CallSound, RowsAlone,
            Present, IdentityOf

LEMMA MountNextInv == RInv /\ [MountNext]_mountVars => RInv'
<1> SUFFICES ASSUME RInv, [MountNext]_mountVars PROVE RInv'
  OBVIOUS
<1>1. CASE UNCHANGED mountVars
  BY <1>1 DEF mountVars, RInv, MountTypeOK, RootsUnique, RootsDisjoint, CallsSound, CallSound,
              RowsAlone, Present, IdentityOf
<1>2. ASSUME NEW p \in Unsteady, NEW at \in Sights, Remount(p, at) PROVE RInv'
  BY <1>2, RemountStep
<1>3. ASSUME NEW c \in Calls, NEW m \in Rows, NEW p \in Roots, NEW auto \in BOOLEAN,
             StartRegister(c, m, p, auto)
      PROVE  RInv'
  BY <1>3, StartRegisterStep
<1>4. ASSUME NEW c \in Calls, NEW m \in Rows, NEW p \in Roots, NextCandidate(c, m, p)
      PROVE  RInv'
  BY <1>4, NextCandidateStep
<1>5. ASSUME NEW m \in Rows, DeleteMount(m) PROVE RInv'
  BY <1>5, DeleteMountStep
<1>6. ASSUME NEW c \in Calls, NEW m \in Rows, StartReverify(c, m) \/ StartUse(c, m)
      PROVE  RInv'
  BY <1>6, StartReverifyStep, StartUseStep
<1>7. ASSUME NEW c \in Calls,
             \/ LoadIdentities(c) \/ VerifyCandidate(c) \/ InsertMount(c) \/ UpdateMount(c)
             \/ Capture(c) \/ MarkMount(c) \/ RefreshMount(c) \/ AbortCall(c)
      PROVE  RInv'
  BY <1>7, LoadIdentitiesStep, VerifyCandidateStep, InsertMountStep, UpdateMountStep,
     CaptureStep, MarkMountStep, RefreshMountStep, AbortCallStep
<1> QED BY <1>1, <1>2, <1>3, <1>4, <1>5, <1>6, <1>7 DEF MountNext

-----------------------------------------------------------------------------
\* The invariant holds in every state: what a registration or reverification
\* knows of the other mounts stays true until it writes, because the mutex keeps
\* the others out and deletions only make mounts disappear.
THEOREM RegistryInductive == MountSpec => []RInv
BY MountInitInv, MountNextInv, PTL DEF MountSpec

\* Rows, requests and the mutex stay within their types, a request about a mount
\* names a row, and every request that registers or reverifies holds the mutex.
THEOREM RegistryTypeCorrect == MountSpec => []MountTypeOK
<1>1. RInv => MountTypeOK
  BY DEF RInv
<1> QED BY <1>1, RegistryInductive, PTL

\* No directory belongs to two mounts, whatever requests and the host do, but
\* for a mount whose identity was overwritten by an overtaken refresh.
THEOREM DirectoriesStayApart == MountSpec => []RootsDisjoint
<1>1. RInv => RootsDisjoint
  BY DEF RInv
<1> QED BY <1>1, RegistryInductive, PTL

\* Only a mark makes an active mount unavailable.
LEMMA MarkedOnly ==
    ASSUME RInv, [MountNext]_mountVars, NEW m \in Rows,
           row[m].status = "active", row'[m].status = "unavailable"
    PROVE  \E c \in Calls : MarkMount(c) /\ call[c].row = m
<1> USE RegistryTypes
<1>1. row # row'
  OBVIOUS
<1>2. ASSUME NEW c \in Calls, InsertMount(c) PROVE FALSE
  <2>1. /\ row' = [row EXCEPT ![call[c].row] =
              [status |-> "active", root |-> call[c].root, seen |-> call[c].seen,
               stale |-> FALSE]]
    BY <1>2 DEF InsertMount
  <2> QED BY <2>1
<1>3. ASSUME NEW c \in Calls, UpdateMount(c) PROVE FALSE
  <2> DEFINE x == [row[call[c].row] EXCEPT !.status = "active", !.seen = call[c].seen,
                                           !.stale = FALSE]
  <2>1. row' = [row EXCEPT ![call[c].row] = x]
    BY <1>1, <1>3 DEF UpdateMount
  <2>2. m = call[c].row
    BY <2>1
  <2>3. x.status = "active"
    BY <2>2 DEF MountRow
  <2> HIDE DEF x
  <2> QED BY <2>1, <2>2, <2>3
<1>4. ASSUME NEW n \in Rows, DeleteMount(n) PROVE FALSE
  <2>1. row' = [row EXCEPT ![n] = NoRow]
    BY <1>4 DEF DeleteMount
  <2> QED BY <2>1, NothingFacts
<1>5. ASSUME NEW c \in Calls, RefreshMount(c) PROVE FALSE
  <2> DEFINE x == [row[call[c].row] EXCEPT
                     !.seen = call[c].seen,
                     !.stale = @ \/ row[call[c].row].seen.dir # call[c].stored.dir]
  <2>1. row' = [row EXCEPT ![call[c].row] = x]
    BY <1>1, <1>5 DEF RefreshMount
  <2>2. m = call[c].row
    BY <2>1
  <2>3. x.status = "active"
    BY <2>2 DEF MountRow
  <2> HIDE DEF x
  <2> QED BY <2>1, <2>2, <2>3
<1>6. ASSUME NEW c \in Calls, MarkMount(c) PROVE call[c].row = m
  BY <1>6 DEF MarkMount
<1> QED BY <1>1, <1>2, <1>3, <1>4, <1>5, <1>6
        DEF MountNext, mountVars, Remount, StartRegister, NextCandidate, StartReverify, StartUse,
            LoadIdentities, VerifyCandidate, Capture, AbortCall

LEMMA MarkJustified ==
    ASSUME RInv, NEW m \in Rows, NEW c \in Calls, MarkMount(c), call[c].row = m,
           row[m].status = "active", Unmoved(m),
           call[c].stored.dir = row[m].seen.dir, call[c].stored.via = row[m].seen.via
    PROVE  call[c].seen # behind[row[m].root]
<1>1. call[c].seen.dir # call[c].stored.dir \/ call[c].seen.via # call[c].stored.via
  BY DEF MarkMount, Doing, RInv, CallsSound, CallSound
<1> QED BY <1>1 DEF Unmoved

\* A mount is marked unavailable only if something else stood at its path when
\* the request looked, or the request could not look, or was overtaken; a
\* changed kernel mount id alone never takes it away.
THEOREM OnlyDriftTakesAway == MountSpec => OnlyDriftedUnavailable
<1>1. ASSUME RInv, [MountNext]_mountVars, NEW m \in Rows,
             row[m].status = "active", row'[m].status = "unavailable"
      PROVE  \/ ~Unmoved(m)
             \/ \E c \in Calls :
                 /\ Doing(c, "mark") /\ call[c].row = m
                 /\ \/ call[c].seen # behind[row[m].root]
                    \/ call[c].stored.dir # row[m].seen.dir
                    \/ call[c].stored.via # row[m].seen.via
  <2>1. \E c \in Calls : MarkMount(c) /\ call[c].row = m
    BY <1>1, MarkedOnly
  <2> QED BY <1>1, <2>1, MarkJustified DEF MarkMount
<1>2. RInv /\ [MountNext]_mountVars =>
        [\A m \in Rows : row[m].status = "active" /\ row'[m].status = "unavailable" =>
            \/ ~Unmoved(m)
            \/ \E c \in Calls :
                /\ Doing(c, "mark") /\ call[c].row = m
                /\ \/ call[c].seen # behind[row[m].root]
                   \/ call[c].stored.dir # row[m].seen.dir
                   \/ call[c].stored.via # row[m].seen.via]_mountVars
  BY <1>1
<1> QED BY <1>2, RegistryInductive, PTL DEF MountSpec, OnlyDriftedUnavailable

-----------------------------------------------------------------------------
(* Files and the trash. *)

HIDE RegistryAssumption
USE FilesAssumption

Item == [there : BOOLEAN, object : Stuff, meta : Places \cup {NoPlace, Piece},
         self : BOOLEAN, torn : BOOLEAN]
Work == [step : WorkSteps, from : Places \cup {NoPlace}, to : Places \cup {NoPlace},
         item : Items \cup {NoItem}, items : SUBSET Items, names : SUBSET {"object", "meta"},
         why : {"purge", "undo", "tidy"}, file : Stuff, move : BOOLEAN, checked : BOOLEAN]

\* The steps of SoftDelete, when its directory has no metadata yet; and the only
\* requests that may be at the same directory then.
Making == {"bin", "meta"}
Purging(w) == w.step = "unlink" /\ w.why = "purge"

\* What a request may count on, given the directories of the trash.
WorkSound(w, bin) ==
    /\ w.step \in Making \cup {"undo", "rename", "create"} => w.from \in Places
    /\ w.step \in {"rename", "restore"} => w.to \in Places
    /\ w.step \in AtItem \cup {"restore"} => w.item \in Items
    /\ w.step \in Making => bin[w.item].meta = NoPlace
    /\ w.step \in Making /\ bin[w.item].self => w.from \in MetaPlaces
    /\ w.step = "bin" => bin[w.item].object = NoFile
    /\ w.step = "unlink" /\ w.why = "tidy" => bin[w.item].object = NoFile
    /\ w.step = "remove source" /\ w.file \in Data => w.checked

\* A directory that is not there holds nothing; one that is holds everything,
\* when nobody is at work on it.
GoneEmpty(x) == ~x.there => x.object = NoFile /\ x.meta = NoPlace
Whole(x) == x.there /\ ~x.torn => x.object # NoFile /\ x.meta \in Places

WorkersSound == \A r \in Workers : WorkSound(work[r], trash)
ItemsSound == \A i \in Items : GoneEmpty(trash[i]) /\ (AtWork(i) \/ Whole(trash[i]))

\* The directory of a SoftDelete is its own, but for those who purge it.
MakersAlone ==
    \A r, q \in Workers : r # q /\ work[r].step \in Making /\ work[q].item = work[r].item =>
        Purging(work[q])

\* While the metadata is written the object is there, or somebody who purges the
\* directory has yet to remove it, or to leave it.
Unlinking(i) == \E q \in Workers : work[q].item = i /\ work[q].step = "unlink"
ObjectKept(i) ==
    \A r \in Workers : work[r].step = "meta" /\ work[r].item = i /\ trash[i].there /\ ~trash[i].torn =>
        trash[i].object # NoFile \/ Unlinking(i)
MakersHold == \A i \in Items : ObjectKept(i)

FInv == FilesTypeOK /\ WorkersSound /\ ItemsSound /\ MakersAlone /\ MakersHold

LEMMA Types ==
    ASSUME FInv
    PROVE  /\ content \in [Places -> Stuff] /\ trash \in [Items -> Item]
           /\ work \in [Workers -> Work]
BY DEF FInv, FilesTypeOK, Item, Work

LEMMA RestingFacts ==
    /\ Resting \in Work /\ Resting.step = "rest" /\ Resting.item = NoItem
    /\ Resting.why = "tidy" /\ \A bin : WorkSound(Resting, bin)
    /\ NoDirectory \in Item /\ GoneEmpty(NoDirectory) /\ Whole(NoDirectory)
    /\ NoDirectory.object = NoFile /\ NoDirectory.meta = NoPlace /\ ~NoDirectory.there
BY DEF Resting, Work, WorkSteps, Stuff, WorkSound, Making, AtItem, NoDirectory, Item, GoneEmpty,
       Whole

LEMMA FilesInitInv == FilesInit => FInv
<1> SUFFICES ASSUME FilesInit PROVE FInv
  OBVIOUS
<1>1. /\ \A r \in Workers : work[r] = Resting
      /\ \A i \in Items : trash[i] = NoDirectory
      /\ \A p \in Places : content[p] = NoFile
  BY DEF FilesInit
<1>2. \A r \in Workers : ~Held(r)
  BY <1>1, RestingFacts DEF Held
<1>3. FilesTypeOK
  BY <1>2, RestingFacts DEF FilesInit, FilesTypeOK, Item, Work, Stuff
<1>4. WorkersSound /\ ItemsSound
  BY <1>1, RestingFacts DEF WorkersSound, ItemsSound
<1>5. MakersAlone /\ MakersHold
  BY <1>1, RestingFacts DEF MakersAlone, MakersHold, ObjectKept, Making
<1> QED BY <1>3, <1>4, <1>5 DEF FInv

-----------------------------------------------------------------------------
\* What a directory keeps when the file in it is written to.
Kept(x, y) ==
    /\ y.there = x.there /\ y.meta = x.meta /\ y.torn = x.torn /\ y.self = x.self
    /\ y.object = NoFile <=> x.object = NoFile

\* What a step of the request r, which becomes `new`, means for the others when
\* the directory j is all that changes in the trash.
OthersKept(j) == \A i \in Items \ {j} : Kept(trash[i], trash'[i])

\* A directory loses entries, or changes while only those look at it who purge it.
Emptier(x, y) ==
    /\ x.object = NoFile => y.object = NoFile
    /\ x.meta = NoPlace => y.meta = NoPlace
    /\ y.self => x.self

OthersSpared(r, j) ==
    \/ Emptier(trash[j], trash'[j])
    \/ \A q \in Workers \ {r} : work[q].item = j => Purging(work[q])

OthersApart(r, new) ==
    \A q \in Workers \ {r} : new.item \in Items /\ work[q].item = new.item =>
        /\ new.step \in Making => Purging(work[q])
        /\ work[q].step \in Making => Purging(new)

OthersWrite(r, new) ==
    /\ \A q \in Workers : Held(q)' => Held(q) \/ (q = r /\ new.step = "copy")
    /\ work[r].step = "copy" => ~Held(r)'

ItemLeft(r, new, j) ==
    /\ work[r].step \in AtItem => work[r].item = j
    /\ new.step \in Making => new.item = j
    /\ j \in Items => GoneEmpty(trash'[j]) /\ (Whole(trash'[j]) \/ AtWork(j)') /\ ObjectKept(j)'

\* One request takes a step, and one directory of the trash changes.
LEMMA LocalStep ==
    ASSUME FInv, NEW r \in Workers, NEW new \in Work, NEW j,
           work' = [work EXCEPT ![r] = new],
           content' \in [Places -> Stuff], trash' \in [Items -> Item],
           WorkSound(new, trash'), OthersKept(j), j \in Items => OthersSpared(r, j),
           OthersApart(r, new), OthersWrite(r, new), ItemLeft(r, new, j)
    PROVE  FInv'
<1>1. /\ work' \in [Workers -> Work] /\ work'[r] = new
      /\ \A q \in Workers \ {r} : work'[q] = work[q]
  BY Types
<1>2. ASSUME NEW q \in Workers, Held(q)' PROVE work'[q].step = "copy"
  BY <1>1, <1>2 DEF OthersWrite, FInv, FilesTypeOK, On
<1>3. FilesTypeOK'
  BY <1>1, <1>2 DEF FilesTypeOK, Item, Work, On
<1>4. ASSUME NEW q \in Workers \ {r} PROVE WorkSound(work[q], trash')
  <2>1. WorkSound(work[q], trash)
    BY DEF FInv, WorkersSound
  <2>2. CASE work[q].item \in Items /\ work[q].item # j
    <3>1. Kept(trash[work[q].item], trash'[work[q].item])
      BY <2>2 DEF OthersKept
    <3> QED BY <2>1, <3>1 DEF WorkSound, Kept
  <2>3. CASE work[q].item \in Items /\ work[q].item = j
    <3>1. CASE Emptier(trash[j], trash'[j])
      BY <2>1, <2>3, <3>1 DEF WorkSound, Emptier
    <3>2. CASE Purging(work[q])
      BY <2>1, <2>3, <3>2 DEF WorkSound, Purging, Making, AtItem
    <3> QED BY <2>3, <3>1, <3>2 DEF OthersSpared
  <2>4. CASE work[q].item \notin Items
    BY <2>1, <2>4 DEF WorkSound, Making, AtItem
  <2> QED BY <2>2, <2>3, <2>4
<1>5. WorkersSound'
  BY <1>1, <1>4 DEF WorkersSound
<1>6. ASSUME NEW i \in Items PROVE GoneEmpty(trash'[i]) /\ (AtWork(i)' \/ Whole(trash'[i]))
  <2>1. CASE i = j
    BY <2>1 DEF ItemLeft
  <2>2. CASE i # j
    <3>1. Kept(trash[i], trash'[i]) /\ GoneEmpty(trash[i]) /\ (AtWork(i) \/ Whole(trash[i]))
      BY <2>2 DEF FInv, ItemsSound, OthersKept
    <3>2. GoneEmpty(trash'[i]) /\ (Whole(trash[i]) => Whole(trash'[i]))
      BY <3>1 DEF Kept, GoneEmpty, Whole
    <3>3. AtWork(i) => AtWork(i)'
      BY <1>1, <2>2 DEF AtWork, ItemLeft
    <3> QED BY <3>1, <3>2, <3>3
  <2> QED BY <2>1, <2>2
<1>7. ItemsSound'
  BY <1>6 DEF ItemsSound
<1>8. MakersAlone'
  <2> SUFFICES ASSUME NEW p \in Workers, NEW q \in Workers, p # q, work'[p].step \in Making,
                      work'[q].item = work'[p].item
               PROVE  Purging(work'[q])
    BY DEF MakersAlone
  <2>1. work'[p].item \in Items
    BY <1>5 DEF WorkersSound, WorkSound, Making, AtItem
  <2>2. CASE p = r
    BY <1>1, <2>1, <2>2 DEF OthersApart
  <2>3. CASE q = r
    BY <1>1, <2>1, <2>3 DEF OthersApart
  <2>4. CASE p # r /\ q # r
    BY <1>1, <2>4 DEF FInv, MakersAlone
  <2> QED BY <2>2, <2>3, <2>4
<1>9. ASSUME NEW i \in Items PROVE ObjectKept(i)'
  <2>1. CASE i = j
    BY <2>1 DEF ItemLeft
  <2>2. CASE i # j
    <3> SUFFICES ASSUME NEW p \in Workers, work'[p].step = "meta", work'[p].item = i,
                        trash'[i].there, ~trash'[i].torn, trash'[i].object = NoFile
                 PROVE  Unlinking(i)'
      BY DEF ObjectKept
    <3>1. p # r
      BY <1>1, <2>2 DEF ItemLeft, Making
    <3>2. Kept(trash[i], trash'[i])
      BY <2>2 DEF OthersKept
    <3>3. Unlinking(i)
      BY <1>1, <3>1, <3>2 DEF FInv, MakersHold, ObjectKept, Kept
    <3>4. PICK q \in Workers : work[q].item = i /\ work[q].step = "unlink"
      BY <3>3 DEF Unlinking
    <3>5. q # r
      BY <2>2, <3>4 DEF ItemLeft, AtItem
    <3> QED BY <1>1, <3>4, <3>5 DEF Unlinking
  <2> QED BY <2>1, <2>2
<1>10. MakersHold'
  BY <1>9 DEF MakersHold
<1> QED BY <1>3, <1>5, <1>7, <1>8, <1>10 DEF FInv

-----------------------------------------------------------------------------
\* What LostOnlyOnPurpose says of the request r and the data d, and of a step.
LostBy(r, d) ==
    /\ work'[r] # work[r]
    /\ Deletes(r, d) \/ Overtaken(r, d) \/ Bungles(r, d)

LossExcused == \A d \in Data : Held(d) /\ ~Held(d)' => \E r \in Workers : LostBy(r, d)

LEMMA NotWriting == ASSUME FInv, NEW r \in Workers, work[r].step # "copy" PROVE ~Held(r)
BY DEF FInv, FilesTypeOK, On

\* A request stays at its directory, or leaves it.
LEMMA StaysApart ==
    ASSUME FInv, NEW r \in Workers, NEW new \in Work, new.item \in {NoItem, work[r].item},
           new.step \in Making => work[r].step \in Making,
           Purging(work[r]) /\ new.item # NoItem => Purging(new)
    PROVE  OthersApart(r, new)
BY DEF OthersApart, FInv, MakersAlone

\* A request goes on, and the files stay where they are.
LEMMA QuietStep ==
    ASSUME FInv, NEW r \in Workers, NEW new \in Work, work' = [work EXCEPT ![r] = new],
           UNCHANGED <<content, trash>>, work[r].step \notin AtItem \cup {"copy"},
           WorkSound(new, trash), new.step \notin Making,
           Purging(new) \/ \A q \in Workers \ {r} :
                work[q].step \in Making /\ new.item \in Items => work[q].item # new.item
    PROVE  FInv' /\ LossExcused
<1>1. content' \in [Places -> Stuff] /\ trash' \in [Items -> Item]
  BY Types
<1>2. OthersKept(NoItem) /\ ItemLeft(r, new, NoItem) /\ NoItem \notin Items
  BY DEF OthersKept, Kept, ItemLeft
<1>3. WorkSound(new, trash')
  BY DEF WorkSound
<1>4. \A d : Held(d)' <=> Held(d)
  BY DEF Held
<1>5. OthersApart(r, new)
  BY DEF OthersApart
<1>6. OthersWrite(r, new)
  BY <1>4 DEF OthersWrite
<1>7. FInv'
  BY <1>1, <1>2, <1>3, <1>5, <1>6, LocalStep
<1> QED BY <1>4, <1>7 DEF LossExcused

\* What is in the places was in one of them before, or is the file that the
\* request is about to write.
NothingNew(r, new) ==
    \A p \in Places :
        \/ content'[p] \in {NoFile} \cup {content[x] : x \in Places}
        \/ content'[p] = r /\ new.step = "copy"

\* A request goes on, and the trash stays as it is.
LEMMA PlaceStep ==
    ASSUME FInv, NEW r \in Workers, NEW new \in Work, work' = [work EXCEPT ![r] = new],
           UNCHANGED trash, content' \in [Places -> Stuff],
           work[r].step \notin AtItem \cup {"copy"}, WorkSound(new, trash),
           new.step \notin Making, new.item \in {NoItem, work[r].item}, NothingNew(r, new)
    PROVE  FInv'
<1>1. trash' \in [Items -> Item]
  BY Types
<1>2. OthersKept(NoItem) /\ ItemLeft(r, new, NoItem) /\ NoItem \notin Items
  BY DEF OthersKept, Kept, ItemLeft
<1>3. WorkSound(new, trash')
  BY DEF WorkSound
<1>4. OthersWrite(r, new)
  BY DEF OthersWrite, Held, NothingNew
<1>5. OthersApart(r, new)
  BY StaysApart DEF Purging, AtItem
<1> QED BY <1>1, <1>2, <1>3, <1>4, <1>5, LocalStep

-----------------------------------------------------------------------------
(* Steps that only look.                                                   *)

LEMMA StartSteps ==
    ASSUME FInv, NEW r \in Workers,
           \/ \E p, q \in Places : StartRename(r, p, q)
           \/ \E p, q \in Places, move \in BOOLEAN : StartCopy(r, p, q, move)
           \/ \E p \in Places : StartDelete(r, p)
           \/ StartEmpty(r)
    PROVE  FInv' /\ LossExcused
<1>1. ASSUME NEW new \in Work, work' = [work EXCEPT ![r] = new], UNCHANGED <<content, trash>>,
             On(r, "rest"), new.item = NoItem,
             new.step \in {"rename", "create", "delete", "empty"},
             new.step \in {"rename", "create"} => new.from \in Places,
             new.step = "rename" => new.to \in Places
      PROVE  FInv' /\ LossExcused
  <2>1. WorkSound(new, trash) /\ new.step \notin Making
    BY <1>1 DEF WorkSound, Making, AtItem
  <2> QED BY <1>1, <2>1, QuietStep DEF On, AtItem
<1>2. ASSUME NEW p \in Places, NEW q \in Places, StartRename(r, p, q)
      PROVE  FInv' /\ LossExcused
  <2> DEFINE new == [Resting EXCEPT !.step = "rename", !.from = p, !.to = q]
  <2>1. new \in Work /\ new.step = "rename" /\ new.from = p /\ new.to = q /\ new.item = NoItem
    BY RestingFacts DEF Work, WorkSteps
  <2>2. work' = [work EXCEPT ![r] = new] /\ UNCHANGED <<content, trash>> /\ On(r, "rest")
    BY <1>2 DEF StartRename
  <2> HIDE DEF new
  <2> QED BY <1>1, <2>1, <2>2
<1>3. ASSUME NEW p \in Places, NEW q \in Places, NEW move \in BOOLEAN, StartCopy(r, p, q, move)
      PROVE  FInv' /\ LossExcused
  <2> DEFINE new == [Resting EXCEPT !.step = "create", !.from = p, !.to = q, !.move = move]
  <2>1. new \in Work /\ new.step = "create" /\ new.from = p /\ new.item = NoItem
    BY RestingFacts DEF Work, WorkSteps
  <2>2. work' = [work EXCEPT ![r] = new] /\ UNCHANGED <<content, trash>> /\ On(r, "rest")
    BY <1>3 DEF StartCopy
  <2> HIDE DEF new
  <2> QED BY <1>1, <2>1, <2>2
<1>4. ASSUME NEW p \in Places, StartDelete(r, p) PROVE FInv' /\ LossExcused
  <2> DEFINE new == [Resting EXCEPT !.step = "delete", !.from = p]
  <2>1. new \in Work /\ new.step = "delete" /\ new.item = NoItem
    BY RestingFacts DEF Work, WorkSteps
  <2>2. work' = [work EXCEPT ![r] = new] /\ UNCHANGED <<content, trash>> /\ On(r, "rest")
    BY <1>4 DEF StartDelete
  <2> HIDE DEF new
  <2> QED BY <1>1, <2>1, <2>2
<1>5. ASSUME NEW items \in SUBSET Items, On(r, "rest"), UNCHANGED <<content, trash>>,
             work' = [work EXCEPT ![r] = [Resting EXCEPT !.step = "empty", !.items = items]]
      PROVE  FInv' /\ LossExcused
  <2> DEFINE new == [Resting EXCEPT !.step = "empty", !.items = items]
  <2>1. new \in Work /\ new.step = "empty" /\ new.item = NoItem
    BY RestingFacts DEF Work, WorkSteps
  <2>2. work' = [work EXCEPT ![r] = new]
    BY <1>5
  <2> HIDE DEF new
  <2> QED BY <1>1, <1>5, <2>1, <2>2
<1>6. CASE StartEmpty(r)
  <2> DEFINE found == {i \in Items : trash[i].there}
  <2>1. found \in SUBSET Items
    OBVIOUS
  <2>2. work' = [work EXCEPT ![r] = [Resting EXCEPT !.step = "empty", !.items = found]]
        /\ UNCHANGED <<content, trash>> /\ On(r, "rest")
    BY <1>6 DEF StartEmpty
  <2> HIDE DEF found
  <2> QED BY <1>5, <2>1, <2>2
<1> QED BY <1>2, <1>3, <1>4, <1>6

\* RemoveAll begins, and ends.
LEMMA RemoveFacts ==
    ASSUME FInv, NEW r \in Workers, NEW i \in Items, NEW x, NEW why \in {"purge", "undo", "tidy"},
           Remove(r, i, x, why)
    PROVE  \E new \in Work : /\ work' = [work EXCEPT ![r] = new]
                             /\ new.step = "unlink" /\ new.item = i /\ new.why = why
<1> DEFINE items == work[r].items \ {i}
           new == [Resting EXCEPT !.step = "unlink", !.item = i, !.names = Entries(x),
                                  !.why = why, !.items = items]
<1>1. items \in SUBSET Items /\ Entries(x) \in SUBSET {"object", "meta"}
  BY Types DEF Work, Entries
<1>2. work' = [work EXCEPT ![r] = new]
  BY DEF Remove
<1> HIDE DEF items
<1>3. new \in Work /\ new.step = "unlink" /\ new.item = i /\ new.why = why
  BY <1>1, RestingFacts DEF Work, WorkSteps, AtItem
<1> QED BY <1>2, <1>3

LEMMA RemovedFacts ==
    ASSUME FInv, NEW r \in Workers, Removed(r)
    PROVE  \E new \in Work : /\ work' = [work EXCEPT ![r] = new]
                             /\ new.step \in {"rest", "empty"} /\ new.item = NoItem
                             /\ \A bin : WorkSound(new, bin)
<1> DEFINE new == IF work[r].items = {} THEN Resting
                  ELSE [Resting EXCEPT !.step = "empty", !.items = work[r].items]
<1>1. work[r].items \in SUBSET Items
  BY Types DEF Work
<1>2. new \in Work /\ new.step \in {"rest", "empty"} /\ new.item = NoItem
  <2>1. CASE work[r].items = {}
    BY <2>1, RestingFacts
  <2>2. CASE work[r].items # {}
    BY <1>1, <2>2, RestingFacts DEF Work, WorkSteps
  <2> QED BY <2>1, <2>2
<1>3. work' = [work EXCEPT ![r] = new]
  BY DEF Removed
<1> HIDE DEF new
<1>4. \A bin : WorkSound(new, bin)
  BY <1>2 DEF WorkSound, Making, AtItem
<1> QED BY <1>2, <1>3, <1>4

\* Whoever purges a directory looks at nothing else.
LEMMA PurgeSteps ==
    ASSUME FInv, NEW r \in Workers, NEW i \in Items, StartPurge(r, i) \/ EmptyNext(r, i)
    PROVE  FInv' /\ LossExcused
<1>1. PICK new \in Work : /\ work' = [work EXCEPT ![r] = new]
                          /\ new.step = "unlink" /\ new.item = i /\ new.why = "purge"
  BY RemoveFacts DEF StartPurge, EmptyNext
<1>2. work[r].step \in {"rest", "empty"} /\ UNCHANGED <<content, trash>>
  BY DEF StartPurge, EmptyNext, On
<1>3. WorkSound(new, trash) /\ Purging(new) /\ new.step \notin Making
  BY <1>1 DEF WorkSound, Making, AtItem, Purging
<1> QED BY <1>1, <1>2, <1>3, QuietStep DEF AtItem

\* What is restored has its metadata, so that no SoftDelete is at work on it.
LEMMA StartRestoreStep ==
    ASSUME FInv, NEW r \in Workers, NEW i \in Items, StartRestore(r, i)
    PROVE  FInv' /\ LossExcused
<1>1. PICK target \in Places :
        work' = [work EXCEPT ![r] = [Resting EXCEPT !.step = "restore", !.item = i, !.to = target]]
  <2>1. trash[i].meta \in Places
    BY DEF StartRestore
  <2>2. \A p \in Places : Beside[p] # NoPlace => Beside[p] \in Places
    OBVIOUS
  <2> QED BY <2>1, <2>2 DEF StartRestore
<1> DEFINE new == [Resting EXCEPT !.step = "restore", !.item = i, !.to = target]
<1>2. new \in Work /\ new.step = "restore" /\ new.item = i /\ new.to = target
  BY RestingFacts DEF Work, WorkSteps
<1>3. work' = [work EXCEPT ![r] = new] /\ UNCHANGED <<content, trash>> /\ work[r].step = "rest"
  BY <1>1 DEF StartRestore, On
<1> HIDE DEF new
<1>4. WorkSound(new, trash) /\ new.step \notin Making
  BY <1>2 DEF WorkSound, Making, AtItem
<1>5. \A q \in Workers : work[q].step \in Making => work[q].item # i
  BY DEF StartRestore, FInv, WorkersSound, WorkSound
<1> QED BY <1>2, <1>3, <1>4, <1>5, QuietStep DEF AtItem

LEMMA GiveUpFacts ==
    ASSUME FInv, NEW r \in Workers, GiveUp(r)
    PROVE  \E new \in Work : /\ work' = [work EXCEPT ![r] = new]
                             /\ new.step = "clean up" /\ new.item = NoItem
                             /\ WorkSound(new, trash)
<1> DEFINE new == [Resting EXCEPT !.step = "clean up", !.to = work[r].to]
<1>1. work[r].to \in Places \cup {NoPlace}
  BY Types DEF Work
<1>2. new \in Work /\ new.step = "clean up" /\ new.item = NoItem
  BY <1>1, RestingFacts DEF Work, WorkSteps
<1>3. work' = [work EXCEPT ![r] = new]
  BY DEF GiveUp
<1> HIDE DEF new
<1>4. WorkSound(new, trash)
  BY <1>2 DEF WorkSound, Making, AtItem
<1> QED BY <1>2, <1>3, <1>4

\* A copy of data that was found complete is there, and the request knows it.
LEMMA VerifySteps ==
    ASSUME FInv, NEW r \in Workers, VerifyCopy(r) \/ FailVerify(r)
    PROVE  FInv' /\ LossExcused
<1>1. work[r] \in Work /\ work[r].step = "verify" /\ UNCHANGED <<content, trash>>
  BY Types DEF VerifyCopy, FailVerify, On
<1>2. CASE VerifyCopy(r)
  <2> DEFINE checked == Copied(r) \notin {NoFile, Piece}
             new == IF work[r].move
                    THEN [Resting EXCEPT !.step = "remove source", !.from = work[r].from,
                                         !.file = work[r].file, !.checked = checked]
                    ELSE Resting
  <2>1. /\ new \in Work /\ new.step \in {"remove source", "rest"} /\ new.item = NoItem
        /\ new.step = "remove source" => new.file = work[r].file /\ new.checked = checked
    <3>1. checked \in BOOLEAN /\ work[r].from \in Places \cup {NoPlace} /\ work[r].file \in Stuff
      BY <1>1 DEF Work
    <3> HIDE DEF checked
    <3>2. CASE ~work[r].move
      BY <3>2, RestingFacts
    <3>3. CASE work[r].move
      BY <3>1, <3>3, RestingFacts DEF Work, WorkSteps
    <3> QED BY <3>2, <3>3
  <2>2. work' = [work EXCEPT ![r] = new]
    BY <1>2 DEF VerifyCopy, CopyDone
  <2>3. work[r].file \in Data => checked
    BY <1>2 DEF VerifyCopy
  <2> HIDE DEF new
  <2>4. WorkSound(new, trash) /\ new.step \notin Making
    BY <2>1, <2>3 DEF WorkSound, Making, AtItem
  <2> QED BY <1>1, <2>1, <2>2, <2>4, QuietStep DEF AtItem
<1>3. CASE FailVerify(r)
  <2>1. PICK new \in Work : /\ work' = [work EXCEPT ![r] = new]
                            /\ new.step = "clean up" /\ new.item = NoItem
                            /\ WorkSound(new, trash)
    BY <1>3, GiveUpFacts DEF FailVerify
  <2> QED BY <1>1, <2>1, QuietStep DEF Making, AtItem
<1> QED BY <1>2, <1>3

-----------------------------------------------------------------------------
(* Steps that change files in mounts.                                      *)

\* A request ends with a change of places.
LEMMA PlaceRest ==
    ASSUME FInv, NEW r \in Workers, Rest(r), UNCHANGED trash,
           content' \in [Places -> Stuff],
           work[r].step \notin AtItem \cup {"copy", "rest"},
           \A p \in Places : content'[p] \in {NoFile} \cup {content[x] : x \in Places}
    PROVE  FInv' /\ work'[r] # work[r]
<1>1. work' = [work EXCEPT ![r] = Resting] /\ work'[r] = Resting
  BY Types DEF Rest
<1>2. Resting.step \notin Making /\ WorkSound(Resting, trash)
  BY RestingFacts DEF Making
<1>3. NothingNew(r, Resting)
  BY DEF NothingNew
<1>4. FInv'
  BY <1>1, <1>2, <1>3, RestingFacts, PlaceStep
<1> QED BY <1>1, <1>4, RestingFacts

LEMMA FinishRenameStep ==
    ASSUME FInv, NEW r \in Workers, FinishRename(r) PROVE FInv' /\ LossExcused
<1> DEFINE p == work[r].from
           q == work[r].to
<1>1. /\ work[r].step = "rename" /\ p \in Places /\ q \in Places
      /\ content \in [Places -> Stuff] /\ NoFile \in Stuff
  BY Types DEF FinishRename, On, FInv, WorkersSound, WorkSound, Stuff
<1> HIDE DEF p, q
<1>2. CASE Taken(p)
  <2>1. content' = [content EXCEPT ![p] = NoFile, ![q] = content[p]]
    BY <1>2 DEF FinishRename, Renamed, p, q
  <2>2. /\ content' \in [Places -> Stuff]
        /\ \A x \in Places : content'[x] \in {NoFile} \cup {content[y] : y \in Places}
        /\ \A x \in Places \ {p, q} : content'[x] = content[x]
        /\ content'[q] = content[p]
    BY <1>1, <2>1
  <2>3. FInv' /\ work'[r] # work[r] /\ UNCHANGED trash
    BY <1>1, <2>2, PlaceRest DEF FinishRename, AtItem
  <2>4. ASSUME NEW d \in Data, Held(d), ~Held(d)' PROVE content[q] = d
    BY <1>1, <2>2, <2>3, <2>4 DEF Held
  <2> QED BY <1>1, <2>3, <2>4 DEF LossExcused, LostBy, Overtaken, q
<1>3. CASE ~Taken(p)
  <2>1. UNCHANGED content /\ Rest(r) /\ UNCHANGED trash
    BY <1>3 DEF FinishRename, p
  <2>2. \A x \in Places : content'[x] \in {NoFile} \cup {content[y] : y \in Places}
    BY <2>1
  <2>3. FInv'
    BY <1>1, <2>1, <2>2, PlaceRest DEF AtItem
  <2>4. LossExcused
    BY <2>1 DEF LossExcused, Held
  <2> QED BY <2>3, <2>4
<1> QED BY <1>2, <1>3

\* One place is emptied.
LEMMA EmptyPlace ==
    ASSUME FInv, NEW r \in Workers, Rest(r), UNCHANGED trash, NEW p,
           content' = [content EXCEPT ![p] = NoFile],
           work[r].step \notin AtItem \cup {"copy", "rest"}
    PROVE  /\ FInv' /\ work'[r] # work[r]
           /\ \A d \in Data : Held(d) /\ ~Held(d)' => content[p] = d
<1>1. /\ content' \in [Places -> Stuff]
      /\ \A x \in Places : content'[x] \in {NoFile} \cup {content[y] : y \in Places}
      /\ \A x \in Places \ {p} : content'[x] = content[x]
  BY Types DEF Stuff
<1>2. FInv' /\ work'[r] # work[r]
  BY <1>1, PlaceRest
<1> QED BY <1>1, <1>2 DEF Held

LEMMA EmptyingSteps ==
    ASSUME FInv, NEW r \in Workers, FinishDelete(r) \/ CleanUp(r) \/ RemoveSource(r)
    PROVE  FInv' /\ LossExcused
<1>1. CASE FinishDelete(r)
  <2>1. work[r].step = "delete"
    BY <1>1 DEF FinishDelete, On
  <2>2. /\ FInv' /\ work'[r] # work[r]
        /\ \A d \in Data : Held(d) /\ ~Held(d)' => content[work[r].from] = d
    BY <1>1, <2>1, EmptyPlace DEF FinishDelete, AtItem
  <2> QED BY <2>1, <2>2 DEF LossExcused, LostBy, Deletes, On
<1>2. CASE CleanUp(r)
  BY <1>2, EmptyPlace DEF CleanUp, On, AtItem, LossExcused, LostBy, Overtaken
<1>3. CASE RemoveSource(r)
  <2>1. work[r].step = "remove source" /\ (work[r].file \in Data => work[r].checked)
    BY <1>3 DEF RemoveSource, On, FInv, WorkersSound, WorkSound
  <2>2. /\ FInv' /\ work'[r] # work[r]
        /\ \A d \in Data : Held(d) /\ ~Held(d)' => content[work[r].from] = d
    BY <1>3, <2>1, EmptyPlace DEF RemoveSource, AtItem
  <2> QED BY <2>1, <2>2 DEF LossExcused, LostBy, Overtaken, On
<1> QED BY <1>1, <1>2, <1>3

LEMMA CreateCopyStep ==
    ASSUME FInv, NEW r \in Workers, CreateCopy(r) PROVE FInv' /\ LossExcused
<1> DEFINE p == work[r].from
           q == work[r].to
<1>1. /\ work[r] \in Work /\ work[r].step = "create" /\ p \in Places /\ UNCHANGED trash
      /\ content \in [Places -> Stuff] /\ r \in Stuff /\ NoFile \in Stuff
  BY Types DEF CreateCopy, On, FInv, WorkersSound, WorkSound, Stuff
<1>2. CASE Taken(p) /\ ~Taken(q)
  <2> DEFINE new == [work[r] EXCEPT !.step = "copy", !.file = content[p]]
  <2>1. new \in Work /\ new.step = "copy" /\ new.item = work[r].item
    BY <1>1 DEF Work, WorkSteps
  <2>2. content' = [content EXCEPT ![q] = r] /\ work' = [work EXCEPT ![r] = new]
        /\ content[q] = NoFile
    BY <1>2 DEF CreateCopy, Taken
  <2> HIDE DEF new, p, q
  <2>3. WorkSound(new, trash)
    BY <2>1 DEF WorkSound, Making, AtItem
  <2>4. /\ content' \in [Places -> Stuff]
        /\ \A x \in Places : content'[x] = content[x] \/ content'[x] = r
        /\ \A x \in Places : content[x] # NoFile => content'[x] = content[x]
    BY <1>1, <2>2
  <2>5. /\ work[r].step \notin AtItem \cup {"copy"} /\ new.step \notin Making
        /\ new.item \in {NoItem, work[r].item}
        /\ NothingNew(r, new)
    BY <1>1, <2>1, <2>4 DEF Making, AtItem, NothingNew
  <2>6. FInv'
    BY <1>1, <2>1, <2>2, <2>3, <2>4, <2>5, PlaceStep
  <2>7. LossExcused
    BY <1>1, <2>4 DEF LossExcused, Held
  <2> QED BY <2>6, <2>7
<1>3. CASE ~(Taken(p) /\ ~Taken(q))
  <2>1. UNCHANGED <<content, trash>> /\ GiveUp(r)
    BY <1>3 DEF CreateCopy
  <2>2. PICK new \in Work : /\ work' = [work EXCEPT ![r] = new]
                            /\ new.step = "clean up" /\ new.item = NoItem
                            /\ WorkSound(new, trash)
    BY <2>1, GiveUpFacts
  <2> QED BY <1>1, <2>1, <2>2, QuietStep DEF Making, AtItem
<1> QED BY <1>2, <1>3

\* The file that a request has been writing is finished, wherever it is.
LEMMA WrittenStep ==
    ASSUME FInv, NEW r \in Workers, NEW d \in Data \cup {Piece}, NEW new \in Work, Written(r, d),
           work' = [work EXCEPT ![r] = new], work[r].step = "copy", WorkSound(new, trash),
           new.step \in {"verify", "clean up"}, new.item \in {NoItem, work[r].item}
    PROVE  FInv' /\ LossExcused
<1>1. d \in Stuff /\ d # NoFile /\ d \notin Workers
  BY DEF Stuff
<1>2. /\ content' \in [Places -> Stuff]
      /\ \A p \in Places : content'[p] = IF content[p] = r THEN d ELSE content[p]
  BY <1>1, Types DEF Written
<1>3. /\ \A i \in Items : trash'[i] = IF trash[i].object = r
                                      THEN [trash[i] EXCEPT !.object = d] ELSE trash[i]
      /\ DOMAIN trash' = Items /\ trash' = [i \in Items |-> trash'[i]]
  BY DEF Written
<1>4. ASSUME NEW i \in Items
      PROVE  /\ trash'[i] \in Item /\ Kept(trash[i], trash'[i])
             /\ trash'[i].object = IF trash[i].object = r THEN d ELSE trash[i].object
  <2>1. trash[i] \in Item
    BY Types
  <2>2. CASE trash[i].object = r
    <3>1. trash'[i] = [trash[i] EXCEPT !.object = d] /\ r # NoFile
      BY <1>3, <2>2
    <3> QED BY <1>1, <2>1, <2>2, <3>1 DEF Item, Kept
  <2>3. CASE trash[i].object # r
    BY <1>3, <2>1, <2>3 DEF Kept
  <2> QED BY <2>2, <2>3
<1>5. trash' \in [Items -> Item]
  BY <1>3, <1>4
<1>6. ASSUME NEW x, Held(x)' PROVE x = d \/ (x # r /\ Held(x))
  <2>1. ASSUME NEW p \in Places, content'[p] = x PROVE x = d \/ (x # r /\ content[p] = x)
    BY <1>2, <2>1
  <2>2. ASSUME NEW i \in Items, trash'[i].object = x
        PROVE  x = d \/ (x # r /\ trash[i].object = x)
    BY <1>4, <2>2
  <2> QED BY <1>6, <2>1, <2>2 DEF Held
<1>7. ASSUME NEW x, x # r, Held(x) PROVE Held(x)'
  <2>1. ASSUME NEW p \in Places, content[p] = x PROVE content'[p] = x
    BY <1>2, <1>7, <2>1
  <2>2. ASSUME NEW i \in Items, trash[i].object = x PROVE trash'[i].object = x
    BY <1>4, <1>7, <2>2
  <2> QED BY <1>7, <2>1, <2>2 DEF Held
<1>8. ~Held(r)' /\ \A q \in Workers : Held(q)' => Held(q)
  BY <1>1, <1>6
<1>9. WorkSound(new, trash') /\ new.step \notin Making
  BY DEF WorkSound, Making, AtItem
<1>10. OthersApart(r, new)
  BY <1>9, StaysApart DEF Purging
<1>11. /\ OthersKept(NoItem) /\ ItemLeft(r, new, NoItem) /\ OthersWrite(r, new)
      /\ NoItem \notin Items
  BY <1>4, <1>8, <1>9 DEF OthersKept, ItemLeft, OthersWrite, AtItem
<1>12. FInv'
  BY <1>2, <1>5, <1>9, <1>10, <1>11, LocalStep
<1>13. LossExcused
  BY <1>7 DEF LossExcused
<1> QED BY <1>12, <1>13

LEMMA CopySteps ==
    ASSUME FInv, NEW r \in Workers, WriteCopy(r) \/ FailCopy(r) PROVE FInv' /\ LossExcused
<1>1. work[r] \in Work /\ work[r].step = "copy"
  BY Types DEF WriteCopy, FailCopy, On
<1>2. CASE WriteCopy(r)
  <2> DEFINE new == [work[r] EXCEPT !.step = "verify"]
  <2>1. new \in Work /\ new.step = "verify" /\ new.item = work[r].item
    BY <1>1 DEF Work, WorkSteps
  <2>2. work' = [work EXCEPT ![r] = new]
    BY <1>2 DEF WriteCopy, Turn
  <2> HIDE DEF new
  <2>3. WorkSound(new, trash)
    BY <2>1 DEF WorkSound, Making, AtItem
  <2>4. CASE work[r].file \in Data
    BY <1>1, <1>2, <2>1, <2>2, <2>3, <2>4, WrittenStep DEF WriteCopy
  <2>5. CASE work[r].file \notin Data
    BY <1>1, <1>2, <2>1, <2>2, <2>3, <2>5, WrittenStep DEF WriteCopy
  <2> QED BY <2>4, <2>5
<1>3. CASE FailCopy(r)
  <2>1. PICK new \in Work : /\ work' = [work EXCEPT ![r] = new]
                            /\ new.step = "clean up" /\ new.item = NoItem
                            /\ WorkSound(new, trash)
    BY <1>3, GiveUpFacts DEF FailCopy
  <2> QED BY <1>1, <1>3, <2>1, WrittenStep DEF FailCopy
<1> QED BY <1>2, <1>3

-----------------------------------------------------------------------------
(* Steps that change the trash.                                            *)

\* What is not there any more, what is there now, and what stays.
LEMMA TrashStep ==
    ASSUME FInv, NEW r \in Workers, NEW new \in Work, NEW i \in Items, NEW x \in Item,
           work' = [work EXCEPT ![r] = new], trash' = [trash EXCEPT ![i] = x],
           work[r].step # "copy", WorkSound(new, trash'),
           \/ Emptier(trash[i], x)
           \/ \A q \in Workers \ {r} : work[q].item = i => Purging(work[q]),
           OthersApart(r, new), ItemLeft(r, new, i),
           content' \in [Places -> Stuff],
           \A p \in Places :
                content'[p] \in {NoFile, trash[i].object} \cup {content[y] : y \in Places},
           x.object \in {NoFile, Piece, trash[i].object} \cup {content[y] : y \in Places}
    PROVE  FInv'
<1>1. trash' \in [Items -> Item] /\ trash'[i] = x /\ \A k \in Items \ {i} : trash'[k] = trash[k]
  BY Types
<1>2. OthersKept(i)
  BY <1>1 DEF OthersKept, Kept
<1>3. OthersWrite(r, new)
  <2>1. \A d : Held(d)' => Held(d) \/ d \in {NoFile, Piece}
    BY <1>1 DEF Held
  <2> QED BY <2>1, NotWriting DEF OthersWrite
<1>4. OthersSpared(r, i)
  BY <1>1 DEF OthersSpared
<1> QED BY <1>1, <1>2, <1>3, <1>4, LocalStep

\* Who unlinks answers for the directory.
LEMMA LeftUnlinking ==
    ASSUME NEW r \in Workers, NEW new, NEW i \in Items, work' = [work EXCEPT ![r] = new],
           work \in [Workers -> Work], new.step = "unlink", new.item = i
    PROVE  AtWork(i)' /\ ObjectKept(i)'
<1>1. work'[r] = new
  OBVIOUS
<1> QED BY <1>1 DEF AtWork, AtItem, ObjectKept, Unlinking

\* Only the directory changes, if at all.
LEMMA OnlyObjectLost ==
    ASSUME FInv, NEW i \in Items, NEW x \in Item, trash' = [trash EXCEPT ![i] = x],
           UNCHANGED content
    PROVE  \A d \in Data : Held(d) /\ ~Held(d)' => trash[i].object = d /\ x.object # d
BY Types DEF Held

LEMMA WithoutFacts ==
    ASSUME NEW x \in Item
    PROVE  /\ WithoutObject(x) \in Item /\ WithoutObject(x).object = NoFile
           /\ WithoutObject(x).there = x.there
           /\ GoneEmpty(x) => GoneEmpty(WithoutObject(x))
           /\ Emptier(x, WithoutObject(x))
BY DEF WithoutObject, Item, Stuff, GoneEmpty, Emptier

LEMMA OverwrittenFacts ==
    ASSUME NEW x \in Item, NEW meta \in Places \cup {Piece}
    PROVE  /\ Overwritten(x, meta) \in Item /\ Overwritten(x, meta).meta = meta
           /\ Overwritten(x, meta).there = x.there /\ Overwritten(x, meta).torn = x.torn
           /\ Overwritten(x, meta).object \in {x.object, Piece}
           /\ x.object # NoFile => Overwritten(x, meta).object # NoFile
           /\ Overwritten(x, meta).object # x.object => x.self
BY DEF Overwritten, Item, Stuff

LEMMA RestFacts ==
    ASSUME FInv, NEW r \in Workers, Rest(r)
    PROVE  work' = [work EXCEPT ![r] = Resting] /\ work'[r] = Resting
BY Types DEF Rest

\* The directory of a SoftDelete.
LEMMA MakerFacts ==
    ASSUME FInv, NEW r \in Workers, work[r].step \in Making
    PROVE  /\ work[r] \in Work /\ work[r].from \in Places /\ work[r].item \in Items
           /\ trash[work[r].item] \in Item /\ GoneEmpty(trash[work[r].item])
           /\ trash[work[r].item].meta = NoPlace
           /\ trash[work[r].item].self => work[r].from \in MetaPlaces
           /\ \A q \in Workers \ {r} : work[q].item = work[r].item => Purging(work[q])
<1>1. work[r] \in Work /\ WorkSound(work[r], trash)
  BY Types DEF FInv, WorkersSound
<1>2. work[r].item \in Items
  BY <1>1 DEF WorkSound, Making, AtItem
<1>3. trash[work[r].item] \in Item /\ GoneEmpty(trash[work[r].item])
  BY <1>2, Types DEF FInv, ItemsSound
<1>4. \A q \in Workers \ {r} : work[q].item = work[r].item => Purging(work[q])
  BY DEF FInv, MakersAlone
<1> QED BY <1>1, <1>2, <1>3, <1>4 DEF WorkSound, Making

LEMMA StartTrashStep ==
    ASSUME FInv, NEW r \in Workers, NEW p \in Places, NEW i \in Items, StartTrash(r, p, i)
    PROVE  FInv' /\ LossExcused
<1> DEFINE self == p \in MetaPlaces
           new == [Resting EXCEPT !.step = "bin", !.from = p, !.item = i]
           x == [NoDirectory EXCEPT !.there = TRUE, !.self = self]
<1>1. new \in Work /\ new.step = "bin" /\ new.from = p /\ new.item = i
  BY RestingFacts DEF Work, WorkSteps, AtItem
<1>2. /\ x \in Item /\ x.there /\ x.object = NoFile /\ x.meta = NoPlace
      /\ x.self => p \in MetaPlaces
  <2>1. self \in BOOLEAN
    OBVIOUS
  <2> HIDE DEF self
  <2>2. /\ x \in Item /\ x.there /\ x.object = NoFile /\ x.meta = NoPlace
        /\ x.self = self
    BY <2>1, RestingFacts DEF Item, NoDirectory
  <2> QED BY <2>2 DEF self
<1>3. /\ work' = [work EXCEPT ![r] = new] /\ trash' = [trash EXCEPT ![i] = x]
      /\ UNCHANGED content /\ work[r].step = "rest"
      /\ ~trash[i].there /\ \A q \in Workers : work[q].item # i
  BY DEF StartTrash, On, Unused
<1> HIDE DEF new, x
<1>4. /\ trash'[i] = x /\ work'[r] = new /\ content' \in [Places -> Stuff]
      /\ \A q \in Workers \ {r} : work'[q] = work[q]
  BY <1>3, Types
<1>5. trash[i].object = NoFile
  BY <1>3 DEF FInv, ItemsSound, GoneEmpty
<1>6. ItemLeft(r, new, i)
  <2>1. GoneEmpty(x) /\ AtWork(i)'
    BY <1>1, <1>2, <1>4 DEF GoneEmpty, AtWork, AtItem
  <2>2. ObjectKept(i)'
    BY <1>1, <1>3, <1>4 DEF ObjectKept
  <2> QED BY <1>1, <1>3, <1>4, <2>1, <2>2 DEF ItemLeft, AtItem
<1>7. WorkSound(new, trash')
  BY <1>1, <1>2, <1>4 DEF WorkSound, Making, AtItem
<1>8. OthersApart(r, new)
  BY <1>1, <1>3 DEF OthersApart
<1>9. FInv'
  BY <1>2, <1>1, <1>3, <1>4, <1>6, <1>7, <1>8, TrashStep
<1>10. \A d \in Data : Held(d) => Held(d)'
  BY <1>2, <1>3, <1>5, OnlyObjectLost
<1> QED BY <1>9, <1>10 DEF LossExcused

LEMMA MoveToTrashStep ==
    ASSUME FInv, NEW r \in Workers, MoveToTrash(r) PROVE FInv' /\ LossExcused
<1>0. work[r].step = "bin"
  BY DEF MoveToTrash, On
<1> PICK i \in Items : i = work[r].item
  BY <1>0, MakerFacts DEF Making
<1> DEFINE p == work[r].from
           new == [work[r] EXCEPT !.step = "meta"]
           x == [trash[i] EXCEPT !.object = content[p]]
<1>1. work[r].step = "bin" /\ Taken(p) /\ trash[i].there
  BY <1>0 DEF MoveToTrash
<1>2. /\ work[r] \in Work /\ p \in Places /\ trash[i] \in Item
      /\ trash[i].meta = NoPlace /\ (trash[i].self => p \in MetaPlaces)
      /\ \A q \in Workers \ {r} : work[q].item = i => Purging(work[q])
  BY <1>1, MakerFacts DEF Making
<1>3. trash[i].object = NoFile
  BY <1>1 DEF FInv, WorkersSound, WorkSound
<1>4. content \in [Places -> Stuff] /\ content[p] \in Stuff /\ content[p] # NoFile
  BY <1>1, <1>2, Types DEF Taken
<1>5. new \in Work /\ new.step = "meta" /\ new.item = i /\ new.from = p
  BY <1>2 DEF Work, WorkSteps, AtItem
<1>6. /\ x \in Item /\ x.there /\ x.object = content[p] /\ x.meta = NoPlace
      /\ x.self = trash[i].self
  BY <1>1, <1>2, <1>4 DEF Item
<1>7. /\ work' = [work EXCEPT ![r] = new] /\ trash' = [trash EXCEPT ![i] = x]
      /\ content' = [content EXCEPT ![p] = NoFile]
  BY DEF MoveToTrash, Turn
<1> HIDE DEF new, x
<1>8. /\ trash'[i] = x /\ \A k \in Items \ {i} : trash'[k] = trash[k]
      /\ work'[r] = new /\ \A q \in Workers \ {r} : work'[q] = work[q]
  BY <1>2, <1>6, <1>7, Types
<1>9. /\ content' \in [Places -> Stuff] /\ \A y \in Places \ {p} : content'[y] = content[y]
      /\ \A y \in Places :
            content'[y] \in {NoFile, trash[i].object} \cup {content[z] : z \in Places}
      /\ x.object \in {NoFile, Piece, trash[i].object} \cup {content[z] : z \in Places}
  BY <1>2, <1>4, <1>6, <1>7 DEF Stuff
<1>10. WorkSound(new, trash')
  BY <1>2, <1>5, <1>6, <1>8 DEF WorkSound, Making, AtItem
<1>11. OthersApart(r, new)
  BY <1>1, <1>5, StaysApart DEF Making, Purging
<1>12. ItemLeft(r, new, i)
  <2>1. GoneEmpty(x) /\ AtWork(i)'
    BY <1>5, <1>6, <1>8 DEF GoneEmpty, AtWork, AtItem
  <2>2. ObjectKept(i)'
    BY <1>2, <1>4, <1>5, <1>6, <1>8 DEF ObjectKept, Purging
  <2> QED BY <1>5, <1>8, <2>1, <2>2 DEF ItemLeft
<1>13. FInv'
  BY <1>1, <1>2, <1>5, <1>6, <1>7, <1>9, <1>10, <1>11, <1>12, TrashStep
<1>14. ASSUME NEW d \in Data, Held(d) PROVE Held(d)'
  <2>1. CASE content[p] = d
    BY <1>2, <1>6, <1>8, <2>1 DEF Held
  <2>2. CASE content[p] # d
    BY <1>3, <1>8, <1>9, <1>14, <2>2 DEF Held
  <2> QED BY <2>1, <2>2
<1> QED BY <1>13, <1>14 DEF LossExcused

LEMMA FailToTrashStep ==
    ASSUME FInv, NEW r \in Workers, FailToTrash(r) PROVE FInv' /\ LossExcused
<1>0. work[r].step = "bin"
  BY DEF FailToTrash, On
<1> PICK i \in Items : i = work[r].item
  BY <1>0, MakerFacts DEF Making
<1>1. work[r].step = "bin" /\ UNCHANGED <<content, trash>> /\ Remove(r, i, trash[i], "tidy")
  BY <1>0 DEF FailToTrash
<1>2. trash[i] \in Item /\ GoneEmpty(trash[i])
  BY <1>1, MakerFacts DEF Making
<1>3. trash[i].object = NoFile
  BY <1>1 DEF FInv, WorkersSound, WorkSound
<1>4. PICK new \in Work : /\ work' = [work EXCEPT ![r] = new]
                          /\ new.step = "unlink" /\ new.item = i /\ new.why = "tidy"
  BY <1>1, <1>2, RemoveFacts
<1>5. AtWork(i)' /\ ObjectKept(i)'
  BY <1>2, <1>4, Types, LeftUnlinking
<1>6. WorkSound(new, trash') /\ new.step \notin Making
  BY <1>1, <1>2, <1>3, <1>4 DEF WorkSound, Making, AtItem
<1>7. ItemLeft(r, new, i)
  BY <1>1, <1>2, <1>4, <1>5, <1>6 DEF ItemLeft
<1>8. OthersApart(r, new)
  BY <1>1, <1>4, <1>6, StaysApart DEF Purging
<1>9. trash' = [trash EXCEPT ![i] = trash[i]] /\ content' \in [Places -> Stuff]
  BY <1>1, <1>2, Types
<1>10. \A y \in Places : content'[y] \in {NoFile, trash[i].object} \cup {content[z] : z \in Places}
  BY <1>1
<1>11. Emptier(trash[i], trash[i])
  BY DEF Emptier
<1>12. FInv'
  BY <1>1, <1>2, <1>4, <1>6, <1>7, <1>8, <1>9, <1>10, <1>11, TrashStep
<1> QED BY <1>1, <1>12 DEF LossExcused, Held

\* The metadata is written to the directory, and no file in a mount changes.
LEMMA MetaSteps ==
    ASSUME FInv, NEW r \in Workers, WriteMeta(r) \/ FailMeta(r) PROVE FInv' /\ LossExcused
<1> DEFINE p == work[r].from
<1>1. work[r].step = "meta" /\ UNCHANGED content
  BY DEF WriteMeta, FailMeta, On
<1> PICK i \in Items : i = work[r].item
  BY <1>1, MakerFacts DEF Making
<1>2. /\ work[r] \in Work /\ p \in Places /\ trash[i] \in Item
      /\ GoneEmpty(trash[i]) /\ (trash[i].self => p \in MetaPlaces)
      /\ \A q \in Workers \ {r} : work[q].item = i => Purging(work[q])
  BY <1>1, MakerFacts DEF Making
<1>3. /\ content' \in [Places -> Stuff]
      /\ \A y \in Places : content'[y] \in {NoFile, trash[i].object} \cup
                                           {content[z] : z \in Places}
  BY <1>1, Types
<1>4. ASSUME NEW x \in Item, NEW new \in Work, trash' = [trash EXCEPT ![i] = x],
             work' = [work EXCEPT ![r] = new], new.step \in {"undo", "rest"},
             new.item \in {NoItem, i}, WorkSound(new, trash'), GoneEmpty(x),
             x.object \in {trash[i].object, Piece}, x.object # trash[i].object => trash[i].self,
             Whole(x) \/ AtWork(i)'
      PROVE  FInv' /\ LossExcused
  <2>1. /\ trash'[i] = x /\ work'[r] = new /\ \A q \in Workers \ {r} : work'[q] = work[q]
    BY <1>2, <1>4, Types
  <2>2. OthersApart(r, new)
    BY <1>1, <1>4, StaysApart DEF Making, Purging
  <2>3. ObjectKept(i)'
    BY <1>2, <1>4, <2>1, RestingFacts DEF ObjectKept, Purging
  <2>4. ItemLeft(r, new, i)
    BY <1>4, <2>1, <2>3 DEF ItemLeft, Making
  <2>5. FInv'
    BY <1>1, <1>2, <1>3, <1>4, <2>2, <2>4, TrashStep
  <2>6. ASSUME NEW d \in Data, Held(d), ~Held(d)' PROVE trash[i].object = d /\ p \in MetaPlaces
    BY <1>1, <1>2, <1>4, <2>6, OnlyObjectLost
  <2> QED BY <1>1, <1>4, <2>1, <2>5, <2>6 DEF LossExcused, LostBy, Bungles, On
<1>5. CASE WriteMeta(r)
  <2> DEFINE x == Overwritten(trash[i], p)
  <2>1. trash[i].there /\ trash' = [trash EXCEPT ![i] = x] /\ Rest(r)
    BY <1>5 DEF WriteMeta
  <2>2. /\ x \in Item /\ x.meta = p /\ x.there /\ x.torn = trash[i].torn
        /\ x.object \in {trash[i].object, Piece} /\ (x.object # trash[i].object => trash[i].self)
        /\ trash[i].object # NoFile => x.object # NoFile
    BY <1>2, <2>1, OverwrittenFacts
  <2> HIDE DEF x
  <2>3. Whole(x) \/ AtWork(i)'
    <3>1. trash[i].torn \/ trash[i].object # NoFile \/ Unlinking(i)
      BY <1>1, <1>2, <2>1 DEF FInv, MakersHold, ObjectKept
    <3>2. trash[i].torn \/ trash[i].object # NoFile => Whole(x)
      BY <1>2, <2>2 DEF Whole
    <3>3. ASSUME Unlinking(i) PROVE AtWork(i)'
      <4>1. PICK q \in Workers : work[q].item = i /\ work[q].step = "unlink"
        BY <3>3 DEF Unlinking
      <4>2. work'[q] = work[q]
        BY <1>1, <2>1, <4>1, Types DEF Rest
      <4> QED BY <4>1, <4>2 DEF AtWork, AtItem
    <3> QED BY <3>1, <3>2, <3>3
  <2>4. GoneEmpty(x)
    BY <2>2 DEF GoneEmpty
  <2> QED BY <1>4, <2>1, <2>2, <2>3, <2>4, RestFacts, RestingFacts
<1>6. CASE FailMeta(r)
  <2> DEFINE new == [work[r] EXCEPT !.step = "undo"]
  <2>1. new \in Work /\ new.step = "undo" /\ new.item = i /\ new.from = p
    BY <1>2 DEF Work, WorkSteps, AtItem
  <2>2. work' = [work EXCEPT ![r] = new]
    BY <1>6 DEF FailMeta, Turn
  <2>3. PICK x \in Item : /\ trash' = [trash EXCEPT ![i] = x] /\ GoneEmpty(x)
                          /\ x.object \in {trash[i].object, Piece}
                          /\ x.object # trash[i].object => trash[i].self
    <3>1. CASE UNCHANGED trash
      BY <1>2, <3>1, Types
    <3>2. CASE ~(UNCHANGED trash)
      <4>1. trash[i].there
        BY <1>6, <3>2 DEF FailMeta
      <4>2. PICK meta \in {Piece, p} : trash' = [trash EXCEPT ![i] = Overwritten(trash[i], meta)]
        BY <1>6, <3>2 DEF FailMeta
      <4> DEFINE x == Overwritten(trash[i], meta)
      <4>3. /\ x \in Item /\ x.there /\ x.object \in {trash[i].object, Piece}
            /\ x.object # trash[i].object => trash[i].self
        BY <1>2, <4>1, OverwrittenFacts
      <4>4. trash' = [trash EXCEPT ![i] = x]
        BY <4>2
      <4> HIDE DEF x
      <4>5. GoneEmpty(x)
        BY <4>3 DEF GoneEmpty
      <4> QED BY <4>3, <4>4, <4>5
    <3> QED BY <3>1, <3>2
  <2> HIDE DEF new
  <2>4. WorkSound(new, trash')
    BY <1>2, <2>1 DEF WorkSound, Making, AtItem
  <2>5. AtWork(i)'
    BY <2>1, <2>2, Types DEF AtWork, AtItem
  <2> QED BY <1>4, <2>1, <2>2, <2>3, <2>4, <2>5
<1> QED BY <1>5, <1>6

\* The object goes back to a mount, or stays, and the directory is to be removed.
LEMMA BackStep ==
    ASSUME FInv, NEW r \in Workers, NEW p \in Places, NEW why \in {"undo", "tidy"},
           work[r].step \in {"undo", "restore"}, trash[work[r].item].object # NoFile,
           content' = [content EXCEPT ![p] = trash[work[r].item].object],
           trash' = [trash EXCEPT ![work[r].item] = WithoutObject(@)],
           Remove(r, work[r].item, trash'[work[r].item], why)
    PROVE  /\ FInv' /\ work'[r] # work[r]
           /\ \A d \in Data : Held(d) /\ ~Held(d)' => content[p] = d
<1> PICK i \in Items : i = work[r].item
  BY DEF FInv, WorkersSound, WorkSound, AtItem
<1> DEFINE x == WithoutObject(trash[i])
           object == trash[i].object
<1>1. trash[i] \in Item /\ GoneEmpty(trash[i])
  BY Types DEF FInv, ItemsSound
<1>2. x \in Item /\ x.object = NoFile /\ GoneEmpty(x) /\ Emptier(trash[i], x)
  BY <1>1, WithoutFacts
<1>3. trash' = [trash EXCEPT ![i] = x]
  OBVIOUS
<1>4. PICK new \in Work : /\ work' = [work EXCEPT ![r] = new]
                          /\ new.step = "unlink" /\ new.item = i /\ new.why = why
  BY <1>1, RemoveFacts
<1>5. object \in Stuff /\ content \in [Places -> Stuff]
  BY <1>1, Types DEF Item
<1> HIDE DEF x
<1>6. /\ trash'[i] = x /\ \A k \in Items \ {i} : trash'[k] = trash[k]
      /\ work'[r] = new
  BY <1>1, <1>2, <1>3, <1>4, Types
<1>7. /\ content' \in [Places -> Stuff] /\ content'[p] = object
      /\ \A y \in Places \ {p} : content'[y] = content[y]
      /\ \A y \in Places : content'[y] \in {NoFile, object} \cup {content[z] : z \in Places}
  BY <1>5
<1> HIDE DEF object
<1>8. AtWork(i)' /\ ObjectKept(i)'
  BY <1>1, <1>4, Types, LeftUnlinking
<1>9. WorkSound(new, trash') /\ new.step \notin Making
  BY <1>1, <1>2, <1>4, <1>6 DEF WorkSound, Making, AtItem
<1>10. ItemLeft(r, new, i)
  BY <1>2, <1>6, <1>8, <1>9 DEF ItemLeft
<1>11. OthersApart(r, new)
  BY <1>4, <1>9, StaysApart DEF Purging
<1>12. FInv'
  BY <1>1, <1>2, <1>3, <1>4, <1>7, <1>9, <1>10, <1>11, TrashStep DEF object
<1>13. ASSUME NEW d \in Data, Held(d), ~Held(d)' PROVE content[p] = d
  <2>1. object # d
    BY <1>7, <1>13 DEF Held
  <2> QED BY <1>6, <1>7, <1>13, <2>1 DEF Held, object
<1> QED BY <1>4, <1>6, <1>12, <1>13

LEMMA UndoTrashStep ==
    ASSUME FInv, NEW r \in Workers, UndoTrash(r) PROVE FInv' /\ LossExcused
<1> DEFINE p == work[r].from
<1>0. work[r].step = "undo"
  BY DEF UndoTrash, On
<1> PICK i \in Items : i = work[r].item
  BY <1>0 DEF FInv, WorkersSound, WorkSound, AtItem
<1>1. work[r].step = "undo" /\ Remove(r, i, trash'[i], "undo")
  BY <1>0 DEF UndoTrash
<1>2. p \in Places /\ trash[i] \in Item /\ GoneEmpty(trash[i])
  BY <1>1, Types DEF FInv, WorkersSound, WorkSound, AtItem, ItemsSound
<1>3. CASE UNCHANGED <<content, trash>>
  <2>1. PICK new \in Work : /\ work' = [work EXCEPT ![r] = new]
                            /\ new.step = "unlink" /\ new.item = i /\ new.why = "undo"
    BY <1>1, <1>2, RemoveFacts
  <2>2. AtWork(i)' /\ ObjectKept(i)'
    BY <1>2, <2>1, Types, LeftUnlinking
  <2>3. WorkSound(new, trash') /\ new.step \notin Making
    BY <1>2, <2>1 DEF WorkSound, Making, AtItem
  <2>4. ItemLeft(r, new, i)
    BY <1>2, <1>3, <2>2, <2>3 DEF ItemLeft
  <2>5. OthersApart(r, new)
    BY <1>1, <2>1, <2>3, StaysApart DEF Purging
  <2>6. trash' = [trash EXCEPT ![i] = trash[i]] /\ content' \in [Places -> Stuff]
    BY <1>2, <1>3, Types
  <2>7. /\ Emptier(trash[i], trash[i])
        /\ \A y \in Places : content'[y] \in {NoFile, trash[i].object} \cup
                                             {content[z] : z \in Places}
    BY <1>3 DEF Emptier
  <2>8. FInv'
    BY <1>1, <1>2, <2>1, <2>3, <2>4, <2>5, <2>6, <2>7, TrashStep
  <2> QED BY <1>3, <2>8 DEF LossExcused, Held
<1>4. CASE ~(UNCHANGED <<content, trash>>)
  <2>1. /\ trash[i].object # NoFile /\ content' = [content EXCEPT ![p] = trash[i].object]
        /\ trash' = [trash EXCEPT ![i] = WithoutObject(@)]
    BY <1>4 DEF UndoTrash
  <2>2. /\ FInv' /\ work'[r] # work[r]
        /\ \A d \in Data : Held(d) /\ ~Held(d)' => content[p] = d
    BY <1>1, <1>2, <2>1, BackStep
  <2> QED BY <1>1, <2>2 DEF LossExcused, LostBy, Overtaken, On
<1> QED BY <1>3, <1>4

LEMMA RestoreSteps ==
    ASSUME FInv, NEW r \in Workers, FinishRestore(r) \/ FailRestore(r)
    PROVE  FInv' /\ LossExcused
<1>1. work[r].step = "restore"
  BY DEF FinishRestore, FailRestore, On
<1>2. CASE FinishRestore(r)
  <2>1. work[r].to \in Places
    BY <1>1 DEF FInv, WorkersSound, WorkSound
  <2>2. /\ FInv' /\ work'[r] # work[r]
        /\ \A d \in Data : Held(d) /\ ~Held(d)' => content[work[r].to] = d
    BY <1>1, <1>2, <2>1, BackStep DEF FinishRestore, Restored
  <2> QED BY <1>1, <2>2 DEF LossExcused, LostBy, Overtaken
<1>3. CASE FailRestore(r)
  BY <1>1, <1>3, RestFacts, RestingFacts, QuietStep DEF FailRestore, Making, AtItem
<1> QED BY <1>2, <1>3

\* An entry is unlinked: of a purge on purpose, of an undone deletion after the
\* object could not be renamed back, and otherwise never the object.
LEMMA UnlinkStep ==
    ASSUME FInv, NEW r \in Workers, NEW n \in {"object", "meta"}, Unlink(r, n)
    PROVE  FInv' /\ LossExcused
<1>0. work[r].step = "unlink"
  BY DEF Unlink, On
<1> PICK i \in Items : i = work[r].item
  BY <1>0 DEF FInv, WorkersSound, WorkSound, AtItem
<1> DEFINE x == IF n = "object" THEN WithoutObject(trash[i]) ELSE [trash[i] EXCEPT !.meta = NoPlace]
           names == work[r].names \ {n}
           new == [work[r] EXCEPT !.names = names]
<1>1. work[r].step = "unlink" /\ n \in work[r].names /\ UNCHANGED content
  BY DEF Unlink, On
<1>2. /\ work[r] \in Work /\ WorkSound(work[r], trash) /\ trash[i] \in Item
      /\ GoneEmpty(trash[i])
  BY <1>1, Types DEF FInv, WorkersSound, WorkSound, AtItem, ItemsSound
<1>3. x \in Item /\ GoneEmpty(x) /\ Emptier(trash[i], x) /\ x.object \in {NoFile, trash[i].object}
  <2>1. CASE n = "object"
    BY <1>2, <2>1, WithoutFacts
  <2>2. CASE n = "meta"
    BY <1>2, <2>2 DEF Item, GoneEmpty, Emptier
  <2> QED BY <2>1, <2>2
<1>4. names \in SUBSET {"object", "meta"}
  BY <1>2 DEF Work
<1>5. /\ new \in Work /\ new.step = "unlink" /\ new.item = i /\ new.why = work[r].why
      /\ new.names # work[r].names
  BY <1>1, <1>2, <1>4 DEF Work
<1>6. work' = [work EXCEPT ![r] = new] /\ trash' = [trash EXCEPT ![i] = x]
  <2>1. trash' = [trash EXCEPT ![i] = x]
    BY DEF Unlink
  <2> QED BY <2>1 DEF Unlink
<1> HIDE DEF x, new, names
<1>7. trash'[i] = x /\ work'[r] = new /\ content' \in [Places -> Stuff]
  BY <1>1, <1>2, <1>6, Types
<1>8. AtWork(i)' /\ ObjectKept(i)'
  BY <1>2, <1>5, <1>6, Types, LeftUnlinking
<1>9. WorkSound(new, trash') /\ new.step \notin Making
  BY <1>1, <1>2, <1>3, <1>5, <1>7 DEF WorkSound, Making, AtItem
<1>10. ItemLeft(r, new, i)
  BY <1>3, <1>7, <1>8, <1>9 DEF ItemLeft
<1>11. OthersApart(r, new)
  BY <1>5, <1>9, StaysApart DEF Purging
<1>12. /\ \A y \in Places : content'[y] \in {NoFile, trash[i].object} \cup
                                            {content[z] : z \in Places}
  BY <1>1
<1>13. FInv'
  BY <1>1, <1>2, <1>3, <1>5, <1>6, <1>7, <1>9, <1>10, <1>11, <1>12, TrashStep
<1>14. ASSUME NEW d \in Data, Held(d), ~Held(d)' PROVE trash[i].object = d /\ d # NoFile
  BY <1>1, <1>2, <1>3, <1>6, <1>14, OnlyObjectLost
<1>15. work[r].why \in {"purge", "undo"} \/ trash[i].object = NoFile
  BY <1>1, <1>2 DEF Work, WorkSound
<1> QED BY <1>1, <1>5, <1>7, <1>13, <1>14, <1>15
        DEF LossExcused, LostBy, Deletes, Bungles, Unlinks, On

\* RemoveAll ends: the directory is gone, or remains.
LEMMA RemovedSteps ==
    ASSUME FInv, NEW r \in Workers, RemoveDirectory(r) \/ LeaveDirectory(r)
    PROVE  FInv' /\ LossExcused
<1>1. work[r].step = "unlink" /\ UNCHANGED content /\ Removed(r)
  BY DEF RemoveDirectory, LeaveDirectory, On
<1> PICK i \in Items : i = work[r].item
  BY <1>1 DEF FInv, WorkersSound, WorkSound, AtItem
<1>2. trash[i] \in Item /\ GoneEmpty(trash[i])
  BY Types DEF FInv, ItemsSound
<1>3. PICK new \in Work : /\ work' = [work EXCEPT ![r] = new]
                          /\ new.step \in {"rest", "empty"} /\ new.item = NoItem
                          /\ \A bin : WorkSound(new, bin)
  BY <1>1, RemovedFacts
<1>4. PICK x \in Item : /\ trash' = [trash EXCEPT ![i] = x] /\ GoneEmpty(x)
                        /\ Emptier(trash[i], x) /\ x.object = trash[i].object
                        /\ ~x.there \/ x.torn
  <2>1. CASE RemoveDirectory(r)
    <3>1. trash[i].object = NoFile
      BY <2>1 DEF RemoveDirectory, Entries
    <3>2. trash' = [trash EXCEPT ![i] = NoDirectory] /\ ~NoDirectory.self
      BY <2>1 DEF RemoveDirectory, NoDirectory
    <3>3. Emptier(trash[i], NoDirectory)
      BY <3>2, RestingFacts DEF Emptier
    <3> QED BY <3>1, <3>2, <3>3, RestingFacts
  <2>2. CASE LeaveDirectory(r)
    <3> DEFINE x == [trash[i] EXCEPT !.torn = TRUE]
    <3>1. trash' = [trash EXCEPT ![i] = x]
      BY <2>2 DEF LeaveDirectory
    <3>2. /\ x \in Item /\ x.torn /\ x.object = trash[i].object /\ x.meta = trash[i].meta
          /\ x.there = trash[i].there /\ x.self = trash[i].self
      BY <1>2 DEF Item
    <3>3. GoneEmpty(x) /\ Emptier(trash[i], x)
      BY <1>2, <3>2 DEF GoneEmpty, Emptier
    <3> QED BY <3>1, <3>2, <3>3
  <2> QED BY <1>1, <2>1, <2>2
<1>5. trash'[i] = x /\ content' \in [Places -> Stuff]
  BY <1>1, <1>2, <1>4, Types
<1>6. new.step \notin Making /\ OthersApart(r, new)
  BY <1>3 DEF Making, OthersApart
<1>7. Whole(x) /\ ObjectKept(i)'
  BY <1>4, <1>5 DEF Whole, ObjectKept
<1>8. ItemLeft(r, new, i)
  BY <1>4, <1>5, <1>6, <1>7 DEF ItemLeft
<1>9. \A y \in Places : content'[y] \in {NoFile, trash[i].object} \cup {content[z] : z \in Places}
  BY <1>1
<1>10. FInv'
  BY <1>1, <1>2, <1>3, <1>4, <1>5, <1>6, <1>8, <1>9, TrashStep
<1>11. \A d \in Data : Held(d) => Held(d)'
  BY <1>1, <1>2, <1>4, OnlyObjectLost
<1> QED BY <1>10, <1>11 DEF LossExcused

-----------------------------------------------------------------------------
(* The host and the death of the process.                                  *)

\* What is known of the trash and of the requests speaks of nothing else.
LEMMA SameTrash ==
    ASSUME FInv, UNCHANGED trash, UNCHANGED work
    PROVE  WorkersSound' /\ ItemsSound' /\ MakersAlone' /\ MakersHold'
<1>1. WorkersSound'
  BY DEF FInv, WorkersSound
<1>2. ItemsSound'
  BY DEF FInv, ItemsSound, AtWork
<1>3. MakersAlone'
  BY DEF FInv, MakersAlone
<1>4. MakersHold'
  BY DEF FInv, MakersHold, ObjectKept, Unlinking
<1> QED BY <1>1, <1>2, <1>3, <1>4

LEMMA CreateStep ==
    ASSUME FInv, NEW p \in Places, NEW d \in Data, Create(p, d) PROVE FInv' /\ LossExcused
<1>1. /\ content' = [content EXCEPT ![p] = d] /\ UNCHANGED <<trash, work>>
      /\ content[p] = NoFile /\ d \in Stuff
  BY DEF Create, Taken, Stuff
<1>2. /\ content' \in [Places -> Stuff] /\ content'[p] = d
      /\ \A q \in Places \ {p} : content'[q] = content[q]
  BY <1>1, Types
<1>3. \A x : Held(x)' => Held(x) \/ x = d
  BY <1>1, <1>2 DEF Held
<1>4. FilesTypeOK'
  BY <1>1, <1>2, <1>3 DEF FInv, FilesTypeOK, On
<1>5. WorkersSound' /\ ItemsSound' /\ MakersAlone' /\ MakersHold'
  BY <1>1, SameTrash
<1>6. LossExcused
  BY <1>1, <1>2 DEF LossExcused, Held
<1> QED BY <1>4, <1>5, <1>6 DEF FInv

LEMMA KillStep == ASSUME FInv, KillWorkers PROVE FInv' /\ LossExcused
<1>1. /\ content' \in [Places -> Stuff]
      /\ \A p \in Places : content'[p] = IF content[p] \in Workers THEN Piece ELSE content[p]
  BY Types DEF KillWorkers, Stuff
<1>2. work' \in [Workers -> Work] /\ \A r \in Workers : work'[r] = Resting
  BY RestingFacts DEF KillWorkers
<1>3. ASSUME NEW i \in Items
      PROVE  /\ trash'[i] \in Item
             /\ trash'[i].object = IF trash[i].object \in Workers THEN Piece
                                                                   ELSE trash[i].object
             /\ trash'[i].there = trash[i].there /\ trash'[i].meta = trash[i].meta
             /\ trash[i].torn \/ (trash[i].there /\ AtWork(i)) => trash'[i].torn
  <2> DEFINE object == IF trash[i].object \in Workers THEN Piece ELSE trash[i].object
             torn == trash[i].torn \/ (trash[i].there /\ AtWork(i))
  <2>1. trash'[i] = [trash[i] EXCEPT !.object = object, !.torn = torn]
    BY DEF KillWorkers
  <2>2. trash[i] \in Item
    BY Types
  <2>3. object \in Stuff /\ torn \in BOOLEAN
    BY <2>2 DEF Item, Stuff
  <2> HIDE DEF object, torn
  <2>4. /\ trash'[i] \in Item /\ trash'[i].object = object /\ trash'[i].torn = torn
        /\ trash'[i].there = trash[i].there /\ trash'[i].meta = trash[i].meta
    BY <2>1, <2>2, <2>3 DEF Item
  <2> QED BY <2>4 DEF object, torn
<1>4. trash' \in [Items -> Item]
  <2>1. trash' = [i \in Items |-> trash'[i]]
    BY DEF KillWorkers
  <2> QED BY <1>3, <2>1
<1>5. \A r \in Workers : ~Held(r)'
  BY <1>1, <1>3 DEF Held
<1>6. FilesTypeOK'
  BY <1>1, <1>2, <1>4, <1>5 DEF FilesTypeOK, Item, Work
<1>7. WorkersSound' /\ MakersAlone' /\ MakersHold'
  BY <1>2, RestingFacts DEF WorkersSound, MakersAlone, MakersHold, ObjectKept, Making
<1>8. ASSUME NEW i \in Items PROVE GoneEmpty(trash'[i]) /\ Whole(trash'[i])
  <2>1. GoneEmpty(trash[i]) /\ (AtWork(i) \/ Whole(trash[i]))
    BY DEF FInv, ItemsSound
  <2>2. GoneEmpty(trash'[i])
    BY <1>3, <2>1 DEF GoneEmpty
  <2>3. CASE AtWork(i)
    BY <1>3, <2>2, <2>3 DEF Whole
  <2>4. CASE Whole(trash[i])
    <3>1. trash'[i].there /\ ~trash'[i].torn => trash[i].there /\ ~trash[i].torn
      BY <1>3
    <3>2. /\ trash'[i].meta = trash[i].meta
          /\ trash[i].object # NoFile => trash'[i].object # NoFile
      BY <1>3
    <3> QED BY <2>2, <2>4, <3>1, <3>2 DEF Whole
  <2> QED BY <2>1, <2>2, <2>3, <2>4
<1>9. ItemsSound'
  BY <1>8 DEF ItemsSound
<1>10. LossExcused
  BY <1>1, <1>3 DEF LossExcused, Held
<1> QED BY <1>6, <1>7, <1>9, <1>10 DEF FInv

LEMMA FilesNextInv == ASSUME FInv, [FilesNext]_filesVars PROVE FInv' /\ [LossExcused]_filesVars
<1>1. ASSUME NEW r \in Workers,
             \/ FinishRename(r) \/ FinishDelete(r)
             \/ RemoveDirectory(r) \/ LeaveDirectory(r)
             \/ MoveToTrash(r) \/ FailToTrash(r) \/ WriteMeta(r) \/ FailMeta(r) \/ UndoTrash(r)
             \/ FinishRestore(r) \/ FailRestore(r) \/ StartEmpty(r)
             \/ CreateCopy(r) \/ WriteCopy(r) \/ FailCopy(r) \/ VerifyCopy(r) \/ FailVerify(r)
             \/ CleanUp(r) \/ RemoveSource(r)
      PROVE  FInv' /\ LossExcused
  BY <1>1, FinishRenameStep, EmptyingSteps, RemovedSteps, MoveToTrashStep, FailToTrashStep,
     MetaSteps, UndoTrashStep, RestoreSteps, StartSteps, CreateCopyStep, CopySteps, VerifySteps
<1>2. CASE UNCHANGED filesVars
  <2>1. UNCHANGED content /\ UNCHANGED trash /\ UNCHANGED work
    BY <1>2 DEF filesVars
  <2>2. FilesTypeOK'
    BY <2>1 DEF FInv, FilesTypeOK, Held, On
  <2>3. FInv'
    BY <2>1, <2>2, SameTrash DEF FInv
  <2> QED BY <1>2, <2>3
<1>3. CASE FilesNext
  BY <1>1, <1>3, CreateStep, KillStep, StartSteps, StartTrashStep, StartRestoreStep, PurgeSteps,
     UnlinkStep DEF FilesNext
<1> QED BY <1>2, <1>3

\* The strengthened invariant, from which the theorems below follow.
THEOREM FilesInductive == FilesSpec => []FInv
<1>1. FInv /\ [FilesNext]_filesVars => FInv'
  BY FilesNextInv
<1> QED BY <1>1, FilesInitInv, PTL DEF FilesSpec

\* Type correctness; and no file is left half-written by a request that has
\* gone on from copyFileVerified.
THEOREM FilesTypeCorrect == FilesSpec => []FilesTypeOK
<1>1. FInv => FilesTypeOK
  BY DEF FInv
<1> QED BY <1>1, FilesInductive, PTL

\* SoftDelete, RestoreTrash, PurgeTrash and EmptyTrash leave no directory in
\* the trash that lacks its object or its meta.json, unless they are killed or a
\* RemoveAll has to leave what it did not find, or cannot remove.
THEOREM TrashStaysWhole == FilesSpec => []TrashWhole
<1>1. FInv => TrashWhole
  BY DEF FInv, ItemsSound, Whole, TrashWhole
<1> QED BY <1>1, FilesInductive, PTL

\* Renames, deletions, the trash, copies and moves lose data only where they
\* were asked to, where two requests race for one place, or where SoftDelete
\* overwrites a file called meta.json or fails to undo what it cannot finish.
THEOREM NothingLostByAccident == FilesSpec => LostOnlyOnPurpose
<1> DEFINE A == \A d \in Data : Held(d) /\ ~Held(d)' =>
                    \E r \in Workers :
                        work'[r] # work[r] /\ (Deletes(r, d) \/ Overtaken(r, d) \/ Bungles(r, d))
<1>1. FInv /\ [FilesNext]_filesVars => [A]_filesVars
  BY FilesNextInv DEF LossExcused, LostBy
<1>2. FilesSpec => [][A]_filesVars
  BY <1>1, FilesInductive, PTL DEF FilesSpec
<1> QED BY <1>2 DEF LostOnlyOnPurpose
=============================================================================
