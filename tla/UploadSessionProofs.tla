------------------------ MODULE UploadSessionProofs ------------------------
(***************************************************************************)
(* Proofs about uploads, for every number of uploads, requests, targets    *)
(* and parts, and every size.                                              *)
(***************************************************************************)
EXTENDS UploadSession, FiniteSetTheorems, WellFoundedInduction, TLAPS

(* The sum of a manifest.  SumFunction takes the elements of a function in *)
(* an order of its own; induction is over sets of numbers, whose members   *)
(* are the sizes of domains for which a fact holds.                        *)

\* The element that SumFunction takes first.
Pick(s) == CHOOSE x \in s : TRUE

\* The function that it recurs by.
Sums(f) == CHOOSE sum : sum = [s \in SUBSET DOMAIN f |->
                IF s = {} THEN 0 ELSE f[Pick(s)] + sum[s \ {Pick(s)}]]

LEMMA SumIs == ASSUME NEW f PROVE SumFunction(f) = Sums(f)[DOMAIN f]
BY DEF SumFunction, SumFunctionOnSet, FoldFunctionOnSet, MapThenFoldSet, Sums, Pick

\* Every set of numbers has a least one, and so induction is sound.
LEMMA Least == ASSUME NEW T \in SUBSET Nat, T # {} PROVE \E n \in T : \A k \in T : n <= k
<1>1. PICK n \in T : \A k \in T : ~(<<k, n>> \in OpToRel(<, Nat))
  BY NatLessThanWellFounded, WFMin
<1>2. \A k \in T : ~(k < n)
  BY <1>1 DEF OpToRel
<1> QED BY <1>2

LEMMA NatSet == ASSUME NEW T \in SUBSET Nat, 0 \in T, \A n \in T : n + 1 \in T PROVE T = Nat
<1> SUFFICES ASSUME T # Nat PROVE FALSE
  OBVIOUS
<1>1. PICK n \in Nat \ T : \A k \in Nat \ T : n <= k
  BY Least
<1>2. n - 1 \in T
  BY <1>1
<1> QED BY <1>1, <1>2

\* The sums over the subsets of at most k elements.
Small(D, k) == {s \in SUBSET D : Cardinality(s) <= k}
Rest(s) == s \ {Pick(s)}
SumsUpTo(f, k) ==
    {sum \in [Small(DOMAIN f, k) -> Nat] :
        \A s \in Small(DOMAIN f, k) : sum[s] = IF s = {} THEN 0 ELSE f[Pick(s)] + sum[Rest(s)]}

LEMMA SubsetFacts ==
    ASSUME NEW D, IsFiniteSet(D), NEW s \in SUBSET D
    PROVE  /\ IsFiniteSet(s) /\ Cardinality(s) \in Nat /\ Cardinality(s) <= Cardinality(D)
           /\ Cardinality(s) = 0 <=> s = {}
           /\ s # {} => Pick(s) \in s
           /\ \A x \in s : s \ {x} \in SUBSET D /\ Cardinality(s \ {x}) = Cardinality(s) - 1
<1>1. IsFiniteSet(s) /\ Cardinality(s) \in Nat /\ Cardinality(s) <= Cardinality(D)
  BY FS_Subset, FS_CardinalityType
<1>2. Cardinality(s) = 0 <=> s = {}
  BY <1>1, FS_EmptySet
<1>3. s # {} => Pick(s) \in s
  BY DEF Pick
<1>4. \A x \in s : s \ {x} \in SUBSET D /\ Cardinality(s \ {x}) = Cardinality(s) - 1
  BY <1>1, FS_RemoveElement
<1> QED BY <1>1, <1>2, <1>3, <1>4

\* The recursion is well-founded: there is a function as it describes.
LEMMA SumsExist ==
    ASSUME NEW f, IsFiniteSet(DOMAIN f), \A x \in DOMAIN f : f[x] \in Nat
    PROVE  \A k \in Nat : SumsUpTo(f, k) # {}
<1> DEFINE D == DOMAIN f
           T == {k \in Nat : SumsUpTo(f, k) # {}}
<1>1. 0 \in T
  <2> DEFINE g == [s \in Small(D, 0) |-> 0]
  <2>1. \A s \in Small(D, 0) : s = {}
    BY SubsetFacts DEF Small
  <2>2. g \in SumsUpTo(f, 0)
    BY <2>1 DEF SumsUpTo
  <2> QED BY <2>2
<1>2. ASSUME NEW k \in T PROVE k + 1 \in T
  <2>1. PICK old \in SumsUpTo(f, k) : TRUE
    OBVIOUS
  <2> DEFINE new == [s \in Small(D, k + 1) |->
                        IF s = {} THEN 0 ELSE f[Pick(s)] + old[Rest(s)]]
  <2>2. ASSUME NEW s \in Small(D, k + 1), s # {}
        PROVE  /\ Rest(s) \in Small(D, k) /\ Rest(s) \in Small(D, k + 1)
               /\ f[Pick(s)] \in Nat /\ old[Rest(s)] \in Nat
    <3>1. Pick(s) \in s /\ Rest(s) \in SUBSET D /\ Cardinality(Rest(s)) = Cardinality(s) - 1
          /\ Cardinality(s) \in Nat
      BY <2>2, SubsetFacts DEF Small, Rest
    <3>2. Rest(s) \in Small(D, k) /\ Rest(s) \in Small(D, k + 1)
      BY <3>1 DEF Small
    <3> QED BY <2>1, <3>1, <3>2 DEF SumsUpTo, Small
  <2>3. new \in [Small(D, k + 1) -> Nat]
    BY <2>2
  <2>4. ASSUME NEW s \in Small(D, k), s # {}
        PROVE  s \in Small(D, k + 1) /\ new[s] = old[s]
    <3>1. s \in Small(D, k + 1)
      BY SubsetFacts DEF Small
    <3> QED BY <2>1, <2>4, <3>1 DEF SumsUpTo
  <2>5. ASSUME NEW s \in Small(D, k + 1), s # {} PROVE new[Rest(s)] = old[Rest(s)]
    <3>1. Rest(s) \in Small(D, k) /\ Rest(s) \in Small(D, k + 1)
      BY <2>2, <2>5
    <3>2. CASE Rest(s) = {}
      BY <2>1, <3>1, <3>2 DEF SumsUpTo
    <3>3. CASE Rest(s) # {}
      BY <2>4, <3>1, <3>3
    <3> QED BY <3>2, <3>3
  <2>6. new \in SumsUpTo(f, k + 1)
    <3> SUFFICES ASSUME NEW s \in Small(D, k + 1)
                 PROVE  new[s] = IF s = {} THEN 0 ELSE f[Pick(s)] + new[Rest(s)]
      BY <2>3 DEF SumsUpTo
    <3>1. CASE s = {}
      BY <3>1
    <3>2. CASE s # {}
      BY <2>5, <3>2
    <3> QED BY <3>1, <3>2
  <2> QED BY <2>6
<1> HIDE DEF T
<1>3. T = Nat
  BY <1>1, <1>2, NatSet DEF T
<1> QED BY <1>3 DEF T

LEMMA SumsFact ==
    ASSUME NEW f, IsFiniteSet(DOMAIN f), \A x \in DOMAIN f : f[x] \in Nat
    PROVE  /\ Sums(f) \in [SUBSET DOMAIN f -> Nat]
           /\ Sums(f)[{}] = 0
           /\ \A s \in SUBSET DOMAIN f : s # {} => Sums(f)[s] = f[Pick(s)] + Sums(f)[s \ {Pick(s)}]
<1> DEFINE D == DOMAIN f
           k == Cardinality(D)
<1>1. k \in Nat /\ Small(D, k) = SUBSET D
  BY SubsetFacts, FS_CardinalityType DEF Small
<1>2. PICK g \in SumsUpTo(f, k) : TRUE
  BY <1>1, SumsExist
<1>3. g = [s \in SUBSET D |-> IF s = {} THEN 0 ELSE f[Pick(s)] + g[s \ {Pick(s)}]]
      /\ g \in [SUBSET D -> Nat]
  BY <1>1, <1>2 DEF SumsUpTo, Rest
<1>4. Sums(f) = [s \in SUBSET D |-> IF s = {} THEN 0 ELSE f[Pick(s)] + Sums(f)[s \ {Pick(s)}]]
  BY <1>3 DEF Sums
<1>5. \A s \in SUBSET D : Sums(f)[s] = IF s = {} THEN 0 ELSE f[Pick(s)] + Sums(f)[s \ {Pick(s)}]
  BY <1>4
<1> DEFINE T == {n \in Nat : \A s \in SUBSET D : Cardinality(s) = n => Sums(f)[s] \in Nat}
<1>6. 0 \in T
  <2>1. \A s \in SUBSET D : Cardinality(s) = 0 => s = {}
    BY SubsetFacts
  <2>2. {} \in SUBSET D /\ Sums(f)[{}] = 0
    BY <1>5
  <2> QED BY <2>1, <2>2
<1>7. ASSUME NEW n \in T PROVE n + 1 \in T
  <2> SUFFICES ASSUME NEW s \in SUBSET D, Cardinality(s) = n + 1 PROVE Sums(f)[s] \in Nat
    OBVIOUS
  <2>1. /\ s # {} /\ Pick(s) \in s /\ s \ {Pick(s)} \in SUBSET D
        /\ Cardinality(s \ {Pick(s)}) = n
    BY SubsetFacts
  <2>2. Sums(f)[s \ {Pick(s)}] \in Nat /\ f[Pick(s)] \in Nat
    BY <2>1
  <2> QED BY <1>5, <2>1, <2>2
<1> HIDE DEF T
<1>8. T = Nat
  BY <1>6, <1>7, NatSet DEF T
<1>9. \A s \in SUBSET D : Sums(f)[s] \in Nat
  BY <1>8, SubsetFacts DEF T
<1>10. Sums(f) \in [SUBSET D -> Nat]
  BY <1>4, <1>9
<1> QED BY <1>5, <1>10

\* It does not matter which element is taken first.
LEMMA SumsRemove ==
    ASSUME NEW f, IsFiniteSet(DOMAIN f), \A x \in DOMAIN f : f[x] \in Nat
    PROVE  \A s \in SUBSET DOMAIN f : \A x \in s : Sums(f)[s] = f[x] + Sums(f)[s \ {x}]
<1> DEFINE D == DOMAIN f
           Any(s) == \A x \in s : Sums(f)[s] = f[x] + Sums(f)[s \ {x}]
           T == {n \in Nat : \A s \in SUBSET D : Cardinality(s) = n => Any(s)}
<1>1. 0 \in T
  BY SubsetFacts
<1>2. ASSUME NEW n \in T PROVE n + 1 \in T
  <2> SUFFICES ASSUME NEW s \in SUBSET D, Cardinality(s) = n + 1, NEW x \in s
               PROVE  Sums(f)[s] = f[x] + Sums(f)[s \ {x}]
    OBVIOUS
  <2>0. s # {} /\ Pick(s) \in s
    BY SubsetFacts
  <2>1. PICK p \in s : Sums(f)[s] = f[p] + Sums(f)[s \ {p}]
    <3>1. Sums(f)[s] = f[Pick(s)] + Sums(f)[s \ {Pick(s)}]
      BY <2>0, SumsFact
    <3> QED BY <2>0, <3>1
  <2>2. ASSUME NEW y \in s
        PROVE  s \ {y} \in SUBSET D /\ Any(s \ {y}) /\ Sums(f)[s \ {y}] \in Nat /\ f[y] \in Nat
    <3>1. s \ {y} \in SUBSET D /\ Cardinality(s \ {y}) = n
      BY SubsetFacts
    <3>2. Any(s \ {y})
      BY <3>1
    <3>3. Sums(f)[s \ {y}] \in Nat /\ f[y] \in Nat
      BY <3>1, SumsFact
    <3> QED BY <3>1, <3>2, <3>3
  <2>3. CASE x = p
    BY <2>1, <2>3
  <2>4. CASE x # p
    <3>1. /\ Sums(f)[s \ {p}] = f[x] + Sums(f)[(s \ {p}) \ {x}]
          /\ Sums(f)[s \ {x}] = f[p] + Sums(f)[(s \ {x}) \ {p}]
      BY <2>1, <2>2, <2>4
    <3>2. (s \ {p}) \ {x} = (s \ {x}) \ {p} /\ (s \ {p}) \ {x} \in SUBSET D
      OBVIOUS
    <3>3. Sums(f)[(s \ {p}) \ {x}] \in Nat
      BY <3>2, SumsFact
    <3>4. f[p] \in Nat /\ f[x] \in Nat
      BY <2>2
    <3>5. PICK c \in Nat : c = Sums(f)[(s \ {p}) \ {x}]
      BY <3>3
    <3>6. Sums(f)[s] = f[p] + (f[x] + c) /\ Sums(f)[s \ {x}] = f[p] + c
      BY <2>1, <3>1, <3>2, <3>5
    <3> QED BY <3>4, <3>6
  <2> QED BY <2>3, <2>4
<1> HIDE DEF T
<1>3. T = Nat
  BY <1>1, <1>2, NatSet DEF T
<1>4. \A s \in SUBSET D : Cardinality(s) \in Nat
  BY SubsetFacts
<1> QED BY <1>3, <1>4 DEF T

\* Functions that agree on a set have one sum over it.
LEMMA SumsAgree ==
    ASSUME NEW f, IsFiniteSet(DOMAIN f), \A x \in DOMAIN f : f[x] \in Nat,
           NEW h, IsFiniteSet(DOMAIN h), \A x \in DOMAIN h : h[x] \in Nat,
           NEW A, A \subseteq DOMAIN f, A \subseteq DOMAIN h, \A x \in A : f[x] = h[x]
    PROVE  Sums(f)[A] = Sums(h)[A]
<1> DEFINE T == {n \in Nat : \A s \in SUBSET A : Cardinality(s) = n => Sums(f)[s] = Sums(h)[s]}
<1>0. IsFiniteSet(A)
  BY FS_Subset
<1>1. 0 \in T
  BY <1>0, SubsetFacts, SumsFact
<1>2. ASSUME NEW n \in T PROVE n + 1 \in T
  <2> SUFFICES ASSUME NEW s \in SUBSET A, Cardinality(s) = n + 1
               PROVE  Sums(f)[s] = Sums(h)[s]
    OBVIOUS
  <2>1. /\ s # {} /\ Pick(s) \in s /\ s \ {Pick(s)} \in SUBSET A
        /\ Cardinality(s \ {Pick(s)}) = n
    BY <1>0, SubsetFacts
  <2>2. Sums(f)[s \ {Pick(s)}] = Sums(h)[s \ {Pick(s)}]
    BY <2>1
  <2>3. /\ s \in SUBSET DOMAIN f /\ s \in SUBSET DOMAIN h /\ f[Pick(s)] = h[Pick(s)]
    BY <2>1
  <2>4. Sums(f)[s] = f[Pick(s)] + Sums(f)[s \ {Pick(s)}]
    BY <2>1, <2>3, SumsFact
  <2>5. Sums(h)[s] = h[Pick(s)] + Sums(h)[s \ {Pick(s)}]
    BY <2>1, <2>3, SumsFact
  <2> QED BY <2>2, <2>3, <2>4, <2>5
<1> HIDE DEF T
<1>3. T = Nat
  BY <1>1, <1>2, NatSet DEF T
<1>4. Cardinality(A) \in Nat
  BY <1>0, FS_CardinalityType
<1> QED BY <1>3, <1>4 DEF T

Numbers(f) == IsFiniteSet(DOMAIN f) /\ \A x \in DOMAIN f : f[x] \in Nat
OneMore(f, h, n) == DOMAIN h = DOMAIN f \cup {n} /\ \A x \in DOMAIN f \ {n} : h[x] = f[x]

LEMMA SumFacts ==
    /\ \A f : DOMAIN f = {} => SumFunction(f) = 0
    /\ \A f : Numbers(f) => SumFunction(f) \in Nat
    /\ \A f, h, n : Numbers(f) /\ Numbers(h) /\ OneMore(f, h, n) =>
        SumFunction(h) = SumFunction(f) + h[n] - (IF n \in DOMAIN f THEN f[n] ELSE 0)
<1>1. ASSUME NEW f, DOMAIN f = {} PROVE SumFunction(f) = 0
  BY <1>1, SumIs, SumsFact, FS_EmptySet
<1>2. ASSUME NEW f, IsFiniteSet(DOMAIN f), \A x \in DOMAIN f : f[x] \in Nat,
             NEW h, IsFiniteSet(DOMAIN h), \A x \in DOMAIN h : h[x] \in Nat,
             NEW n, DOMAIN h = DOMAIN f \cup {n}, \A x \in DOMAIN f \ {n} : h[x] = f[x]
      PROVE  SumFunction(h) = SumFunction(f) + h[n] - (IF n \in DOMAIN f THEN f[n] ELSE 0)
  <2> DEFINE A == DOMAIN f \ {n}
  <2>1. Sums(h)[DOMAIN h] = h[n] + Sums(h)[A]
    <3>1. DOMAIN h \ {n} = A /\ n \in DOMAIN h /\ DOMAIN h \in SUBSET DOMAIN h
      BY <1>2
    <3> QED BY <1>2, <3>1, SumsRemove
  <2>2. Sums(h)[A] = Sums(f)[A] /\ Sums(f)[A] \in Nat /\ h[n] \in Nat
    <3>1. A \in SUBSET DOMAIN f /\ A \subseteq DOMAIN h /\ \A x \in A : f[x] = h[x]
      BY <1>2
    <3>2. Sums(f)[A] = Sums(h)[A]
      BY <1>2, <3>1, SumsAgree
    <3>3. Sums(f)[A] \in Nat
      BY <1>2, <3>1, SumsFact
    <3> QED BY <1>2, <3>2, <3>3
  <2>3. CASE n \in DOMAIN f
    <3>1. DOMAIN f \in SUBSET DOMAIN f /\ f[n] \in Nat
      BY <1>2, <2>3
    <3>2. Sums(f)[DOMAIN f] = f[n] + Sums(f)[A]
      BY <1>2, <2>3, <3>1, SumsRemove
    <3> QED BY <2>1, <2>2, <2>3, <3>1, <3>2, SumIs
  <2>4. CASE n \notin DOMAIN f
    <3>1. DOMAIN f = A
      BY <2>4
    <3> QED BY <2>1, <2>2, <2>4, <3>1, SumIs
  <2> QED BY <2>3, <2>4
<1>3. ASSUME NEW f, IsFiniteSet(DOMAIN f), \A x \in DOMAIN f : f[x] \in Nat
      PROVE  SumFunction(f) \in Nat
  BY <1>3, SumIs, SumsFact
<1> QED BY <1>1, <1>2, <1>3 DEF Numbers, OneMore

-----------------------------------------------------------------------------
USE MaxPartAssumption, MaxSizeAssumption, TargetsAssumption, NoUploadAssumption

Row == [status : {"none", "active", "completed", "canceled", "expired"}, overdue : BOOLEAN]
Asked == [target : Targets, declared : Sizes]
Dir == [state : {"none", "made", "ready"}, manifest : PartSizes, parts : PartSizes,
        temps : SUBSET Requests]
File == [by : Uploads \cup {Others, NoUpload}, size : Sizes]
Listed == [manifest : BOOLEAN, parts : SUBSET Parts, temps : SUBSET Requests]
Request == [step : Steps, upload : Uploads \cup {NoUpload}, number : Parts \cup {1},
            seen : PartSizes, next : 1 .. (MaxPart + 1), written : Nat, left : Listed]

StateTyped ==
    /\ row \in [Uploads -> Row] /\ disk \in [Uploads -> Dir] /\ file \in [Targets -> File]
    /\ mount \in {"active", "unavailable", "deleted"} /\ writable \in BOOLEAN
    /\ accepted \in [Uploads -> SUBSET Parts]
    /\ published \subseteq Uploads /\ withdrawn \subseteq Uploads

Making == {"mkdir", "first manifest", "insert"}
Undoing == {"undo", "undoing", "undo row"}
Storing == {"save manifest", "accept"}
Finishing == {"unlink", "clean", "cleaning", "mark completed"}

\* What a request may count on, by its step: who makes an upload does so before
\* there is a row; any other has a row that is there for good; and what is about
\* to be published has the declared size.
Local(q, rows, asks, pub, gone) ==
    q.step # "idle" =>
        LET u == q.upload IN
        /\ u \in Uploads
        /\ q.step \in Making => rows[u].status = "none" /\ u \notin gone
        /\ q.step \notin Making \cup Undoing => rows[u].status # "none"
        /\ q.step \in Storing => q.number \in Parts
        /\ q.step = "link" => q.written = asks[u].declared
        /\ q.step \in Finishing => u \in pub

\* Nobody else is at the upload of a request that has no row yet.
Alone(r) == \A p \in Requests \ {r} : Upload(p) # Upload(r)

MakersAlone ==
    \A r \in Requests : ~At(r, "idle") /\ row[Upload(r)].status = "none" => Alone(r)

RequestsSound == \A r \in Requests : Local(req[r], row, asked, published, withdrawn)

\* What is withdrawn has no directory any more, or nobody can get at it.
Stopped(u) ==
    u \in withdrawn =>
        \/ disk[u].state = "none"
        \/ row[u].status # "active" /\ \A r \in Requests : Upload(r) # u

WithdrawnStopped == \A u \in Uploads : Stopped(u)

\* There is no file to link from where there is no directory.
Tidy(u) == disk[u].state = "none" => disk[u].temps = {}

DirsTidy == \A u \in Uploads : Tidy(u)

\* A file that an upload has published belongs to a row that is there for good.
FilesOwned == \A t \in Targets : file[t].by \in Uploads => row[file[t].by].status # "none"

IInv ==
    /\ TypeOK /\ PublishedWhole /\ RowsTruthful
    /\ RequestsSound /\ MakersAlone /\ WithdrawnStopped /\ DirsTidy /\ FilesOwned

-----------------------------------------------------------------------------

LEMMA PartFacts ==
    /\ NoParts \in PartSizes
    /\ \A m \in PartSizes : DOMAIN m \subseteq Parts /\ \A n \in DOMAIN m : m[n] \in Sizes
    /\ \A m \in PartSizes, n \in Parts, s \in Sizes : WithPart(m, n, s) \in PartSizes
<1>1. ASSUME NEW D \in SUBSET Parts, NEW m \in [D -> Sizes] PROVE m \in PartSizes
  BY DEF PartSizes
<1>2. NoParts \in [{} -> Sizes]
  BY DEF NoParts
<1>3. ASSUME NEW m \in PartSizes
      PROVE  /\ m = [n \in DOMAIN m |-> m[n]] /\ DOMAIN m \subseteq Parts
             /\ \A n \in DOMAIN m : m[n] \in Sizes
  BY DEF PartSizes
<1>4. ASSUME NEW m \in PartSizes, NEW n \in Parts, NEW s \in Sizes
      PROVE  WithPart(m, n, s) \in PartSizes
  <2>1. DOMAIN m \cup {n} \in SUBSET Parts
    BY <1>3
  <2>2. WithPart(m, n, s) \in [DOMAIN m \cup {n} -> Sizes]
    BY <1>3 DEF WithPart
  <2> QED BY <1>1, <2>1, <2>2
<1>5. NoParts \in PartSizes
  BY <1>1, <1>2
<1> QED BY <1>3, <1>4, <1>5

LEMMA CountFact == ASSUME NEW m \in PartSizes PROVE Cardinality(DOMAIN m) \in 0 .. MaxPart
<1>1. DOMAIN m \subseteq 1 .. MaxPart
  BY PartFacts DEF Parts
<1>2. IsFiniteSet(1 .. MaxPart) /\ Cardinality(1 .. MaxPart) = MaxPart
  BY FS_Interval
<1>3. IsFiniteSet(DOMAIN m) /\ Cardinality(DOMAIN m) <= MaxPart
  BY <1>1, <1>2, FS_Subset
<1> QED BY <1>3, FS_CardinalityType


LEMMA StepFacts ==
    /\ DOMAIN FirstStep = {"authorizePart", "authorizeComplete", "authorizeCancel"}
    /\ \A w \in DOMAIN FirstStep :
        FirstStep[w] \in {"read for part", "read for complete", "cancel"}
    /\ DOMAIN Removing = {"undo", "clean", "cancel"}
    /\ Removing["undo"] = "undoing" /\ Removing["clean"] = "cleaning"
    /\ Removing["cancel"] = "canceling"
    /\ DOMAIN Removed = {"undoing", "cleaning", "canceling"}
    /\ Removed["undoing"] = "undo row" /\ Removed["cleaning"] = "mark completed"
    /\ Removed["canceling"] = "mark canceled"
    /\ Steps = {"idle", "mkdir", "first manifest", "insert", "recheck", "undo row",
                "receive part", "store part", "save manifest", "accept", "verify", "create final",
                "assemble", "link", "unlink", "mark completed", "mark canceled",
                "authorizePart", "authorizeComplete", "authorizeCancel",
                "read for part", "read for complete", "cancel", "undo", "clean",
                "undoing", "cleaning", "canceling"}
<1>1. DOMAIN FirstStep = {"authorizePart", "authorizeComplete", "authorizeCancel"}
  BY DEF FirstStep
<1>2. /\ FirstStep["authorizePart"] = "read for part"
      /\ FirstStep["authorizeComplete"] = "read for complete"
      /\ FirstStep["authorizeCancel"] = "cancel"
  BY DEF FirstStep
<1>3. {FirstStep[w] : w \in DOMAIN FirstStep} = {"read for part", "read for complete", "cancel"}
  BY <1>1, <1>2
<1>4. DOMAIN Removing = {"undo", "clean", "cancel"}
      /\ DOMAIN Removed = {"undoing", "cleaning", "canceling"}
  BY DEF Removing, Removed
<1>5. /\ Removing["undo"] = "undoing" /\ Removing["clean"] = "cleaning"
      /\ Removing["cancel"] = "canceling"
  BY DEF Removing
<1>6. /\ Removed["undoing"] = "undo row" /\ Removed["cleaning"] = "mark completed"
      /\ Removed["canceling"] = "mark canceled"
  BY DEF Removed
<1>7. Steps = {"idle", "mkdir", "first manifest", "insert", "recheck", "undo row",
                "receive part", "store part", "save manifest", "accept", "verify", "create final",
                "assemble", "link", "unlink", "mark completed", "mark canceled"}
              \cup {"authorizePart", "authorizeComplete", "authorizeCancel"}
              \cup {"read for part", "read for complete", "cancel"}
              \cup {"undo", "clean", "cancel"} \cup {"undoing", "cleaning", "canceling"}
  BY <1>1, <1>3, <1>4 DEF Steps
<1> QED BY <1>1, <1>2, <1>4, <1>5, <1>6, <1>7

LEMMA IdleFacts ==
    /\ Idle \in Request /\ Idle.step = "idle" /\ Idle.upload = NoUpload
    /\ NoEntry \in Listed /\ NoDir \in Dir
    /\ NoDir.state = "none" /\ NoDir.temps = {} /\ NoDir.manifest = NoParts
<1>1. 1 \in 1 .. (MaxPart + 1) /\ 0 \in Sizes /\ 0 \in Nat
  BY DEF Sizes
<1>2. "idle" \in Steps
  BY StepFacts
<1>3. NoEntry \in Listed
  BY DEF NoEntry, Listed
<1>4. NoDir \in Dir /\ NoDir.state = "none" /\ NoDir.temps = {} /\ NoDir.manifest = NoParts
  BY PartFacts DEF NoDir, Dir
<1> QED BY <1>1, <1>2, <1>3, <1>4, PartFacts DEF Idle, Request

LEMMA TypeFacts ==
    ASSUME IInv
    PROVE  StateTyped /\ asked \in [Uploads -> Asked] /\ req \in [Requests -> Request]
BY DEF IInv, TypeOK, StateTyped, Row, Asked, Dir, File, Listed, Request

LEMMA Assemble ==
    ASSUME StateTyped, asked \in [Uploads -> Asked], req \in [Requests -> Request]
    PROVE  TypeOK
BY DEF TypeOK, StateTyped, Row, Asked, Dir, File, Listed, Request

LEMMA AssembleNext ==
    ASSUME StateTyped', asked' \in [Uploads -> Asked], req' \in [Requests -> Request]
    PROVE  TypeOK'
BY DEF TypeOK, StateTyped, Row, Asked, Dir, File, Listed, Request

LEMMA InitInv == Init => IInv
<1> SUFFICES ASSUME Init PROVE IInv
  OBVIOUS
<1>1. StateTyped
  BY PartFacts, IdleFacts DEF Init, StateTyped, Row, File, NoFile, Sizes
<1>2. asked \in [Uploads -> Asked]
  BY DEF Init, Asked, Sizes
<1>3. req \in [Requests -> Request] /\ \A r \in Requests : req[r].step = "idle"
  BY IdleFacts DEF Init
<1>4. TypeOK
  BY <1>1, <1>2, <1>3, Assemble
<1>5. PublishedWhole /\ FilesOwned
  BY DEF Init, NoFile, PublishedWhole, FilesOwned
<1>6. RowsTruthful
  BY DEF Init, RowsTruthful
<1>7. RequestsSound /\ MakersAlone
  BY <1>3 DEF RequestsSound, MakersAlone, Local, At
<1>8. WithdrawnStopped /\ DirsTidy
  BY IdleFacts DEF Init, WithdrawnStopped, Stopped, DirsTidy, Tidy
<1> QED BY <1>4, <1>5, <1>6, <1>7, <1>8 DEF IInv

-----------------------------------------------------------------------------
(* A request goes on at its upload, and leaves the other uploads alone.    *)

OthersKept(u) ==
    \A w \in Uploads \ {u} :
        row'[w] = row[w] /\ disk'[w] = disk[w] /\ (w \in withdrawn' => w \in withdrawn)

RowTrue(u) == row[u].status = "completed" => u \in published

LEMMA RequestFacts ==
    ASSUME IInv, NEW r \in Requests, ~At(r, "idle")
    PROVE  /\ req[r] \in Request /\ Upload(r) \in Uploads
           /\ row[Upload(r)] \in Row /\ disk[Upload(r)] \in Dir /\ asked[Upload(r)] \in Asked
           /\ Local(req[r], row, asked, published, withdrawn)
           /\ disk[Upload(r)].state # "none" => Upload(r) \notin withdrawn
           /\ RowTrue(Upload(r)) /\ Tidy(Upload(r))
<1>1. Local(req[r], row, asked, published, withdrawn)
  BY DEF IInv, RequestsSound
<1>2. req[r] \in Request /\ Upload(r) \in Uploads
  BY <1>1, TypeFacts DEF Local, At, Upload
<1>3. disk[Upload(r)].state # "none" => Upload(r) \notin withdrawn
  BY <1>2 DEF IInv, WithdrawnStopped, Stopped
<1> QED BY <1>1, <1>2, <1>3, TypeFacts DEF IInv, RowsTruthful, RowTrue, DirsTidy, StateTyped

LEMMA RequestStep ==
    ASSUME IInv, NEW r \in Requests, ~At(r, "idle"),
           NEW new \in Request, req' = [req EXCEPT ![r] = new],
           new.upload \in {Upload(r), NoUpload},
           UNCHANGED asked, published \subseteq published',
           OthersKept(Upload(r)),
           row[Upload(r)].status # "none" => row'[Upload(r)].status # "none",
           Local(new, row', asked', published', withdrawn')
    PROVE  req' \in [Requests -> Request] /\ RequestsSound' /\ MakersAlone'
<1> DEFINE u == Upload(r)
<1>1. /\ req' \in [Requests -> Request] /\ req'[r] = new
      /\ \A p \in Requests \ {r} : req'[p] = req[p]
  BY TypeFacts
<1>2. u \in Uploads
  BY RequestFacts
<1>3. ASSUME NEW p \in Requests \ {r}, ~At(p, "idle")
      PROVE  /\ Local(req'[p], row', asked', published', withdrawn')
             /\ row'[Upload(p)].status = "none" => Alone(p)'
  <2>1. Upload(p) \in Uploads /\ Local(req[p], row, asked, published, withdrawn)
    BY <1>3, RequestFacts
  <2>2. CASE Upload(p) = u
    <3>1. row[u].status # "none"
      BY <1>3, <2>2 DEF IInv, MakersAlone, Alone
    <3>2. row'[u].status # "none"
      BY <3>1
    <3> QED BY <1>1, <1>3, <2>1, <2>2, <3>1, <3>2 DEF Local, Upload, Making, Undoing
  <2>3. CASE Upload(p) # u
    <3>1. /\ row'[Upload(p)] = row[Upload(p)]
          /\ (Upload(p) \in withdrawn' => Upload(p) \in withdrawn)
      BY <2>1, <2>3 DEF OthersKept
    <3>2. Local(req'[p], row', asked', published', withdrawn')
      BY <1>1, <1>3, <2>1, <3>1 DEF Local, Upload
    <3>3. row'[Upload(p)].status = "none" => Alone(p)'
      <4> SUFFICES ASSUME row[Upload(p)].status = "none", NEW q \in Requests \ {p}
                   PROVE  req'[q].upload # req'[p].upload
        BY <3>1 DEF Alone, Upload
      <4>1. Upload(q) # Upload(p)
        BY <1>3 DEF IInv, MakersAlone, Alone
      <4> QED BY <1>1, <1>3, <2>1, <2>3, <4>1 DEF Upload
    <3> QED BY <3>2, <3>3
  <2> QED BY <2>2, <2>3
<1>4. ASSUME row'[u].status = "none", new.upload = u PROVE Alone(r)'
  <2>1. Alone(r)
    BY <1>4 DEF IInv, MakersAlone
  <2> QED BY <1>1, <1>4, <2>1 DEF Alone, Upload
<1>5. RequestsSound'
  <2> SUFFICES ASSUME NEW p \in Requests
               PROVE  Local(req'[p], row', asked', published', withdrawn')
    BY DEF RequestsSound
  <2>1. CASE p = r
    BY <1>1, <2>1
  <2>2. CASE p # r /\ ~At(p, "idle")
    BY <1>3, <2>2
  <2>3. CASE p # r /\ At(p, "idle")
    BY <1>1, <2>3 DEF Local, At
  <2> QED BY <2>1, <2>2, <2>3
<1>6. MakersAlone'
  <2> SUFFICES ASSUME NEW p \in Requests, req'[p].step # "idle",
                      row'[req'[p].upload].status = "none"
               PROVE  Alone(p)'
    BY DEF MakersAlone, At, Upload
  <2>1. CASE p = r
    <3>1. new.upload \in Uploads
      BY <1>1, <2>1 DEF Local
    <3> QED BY <1>1, <1>4, <2>1, <3>1
  <2>2. CASE p # r
    BY <1>1, <1>3, <2>2 DEF At, Upload
  <2> QED BY <2>1, <2>2
<1> QED BY <1>1, <1>5, <1>6

LEMMA StoppedStep ==
    ASSUME IInv, NEW r \in Requests, ~At(r, "idle"),
           NEW new \in Request, req' = [req EXCEPT ![r] = new],
           new.upload \in {Upload(r), NoUpload},
           NEW u \in Uploads, u = Upload(r), OthersKept(u), Stopped(u)', Tidy(u)'
    PROVE  WithdrawnStopped' /\ DirsTidy'
<1>1. DirsTidy'
  BY DEF IInv, DirsTidy, Tidy, OthersKept
<1>2. SUFFICES ASSUME NEW w \in Uploads, w \in withdrawn', w # u, disk'[w].state # "none"
               PROVE  row'[w].status # "active" /\ \A p \in Requests : req'[p].upload # w
  BY <1>1 DEF WithdrawnStopped, Stopped, Upload
<1>3. w \in withdrawn /\ disk[w].state # "none" /\ row'[w] = row[w]
  BY <1>2 DEF OthersKept
<1>4. row[w].status # "active" /\ \A p \in Requests : req[p].upload # w
  BY <1>3 DEF IInv, WithdrawnStopped, Stopped, Upload
<1>5. req'[r] = new /\ \A p \in Requests \ {r} : req'[p] = req[p]
  BY TypeFacts
<1> QED BY <1>2, <1>3, <1>4, <1>5

LEMMA FilesSame ==
    ASSUME IInv, UNCHANGED <<file, asked>>,
           \A u \in Uploads : row[u].status # "none" => row'[u].status # "none"
    PROVE  PublishedWhole' /\ FilesOwned'
BY DEF IInv, PublishedWhole, FilesOwned, Declared

LEMMA RowsStep ==
    ASSUME IInv, NEW u \in Uploads, OthersKept(u), RowTrue(u)', published \subseteq published'
    PROVE  RowsTruthful'
<1> SUFFICES ASSUME NEW w \in Uploads PROVE RowTrue(w)'
  BY DEF RowsTruthful, RowTrue
<1>1. RowTrue(w)
  BY DEF IInv, RowsTruthful, RowTrue
<1> QED BY <1>1 DEF OthersKept, RowTrue

LEMMA Step ==
    ASSUME IInv, NEW r \in Requests, ~At(r, "idle"),
           NEW new \in Request, req' = [req EXCEPT ![r] = new],
           new.upload \in {Upload(r), NoUpload},
           UNCHANGED <<asked, file, published>>, StateTyped',
           NEW u \in Uploads, u = Upload(r), OthersKept(u), RowTrue(u)', Stopped(u)', Tidy(u)',
           row[u].status # "none" => row'[u].status # "none",
           Local(new, row', asked', published', withdrawn')
    PROVE  IInv'
<1>1. req' \in [Requests -> Request] /\ RequestsSound' /\ MakersAlone'
  BY RequestStep
<1>2. WithdrawnStopped' /\ DirsTidy'
  BY StoppedStep
<1>3. \A w \in Uploads : row[w].status # "none" => row'[w].status # "none"
  BY DEF OthersKept
<1>4. PublishedWhole' /\ FilesOwned'
  BY <1>3, FilesSame
<1>5. RowsTruthful'
  BY RowsStep
<1>6. asked' \in [Uploads -> Asked]
  BY TypeFacts
<1>7. TypeOK'
  BY <1>1, <1>6, AssembleNext
<1> QED BY <1>1, <1>2, <1>4, <1>5, <1>7 DEF IInv

-----------------------------------------------------------------------------
(* The kinds of steps of requests: those that change nothing else, those   *)
(* that change the directory, and those that change the row.               *)

AllSame == UNCHANGED <<row, asked, disk, file, published, withdrawn>> /\ StateTyped'

\* The step that a request goes to counts on no more than it did already.
Follows(r, new) ==
    /\ new.upload = Upload(r)
    /\ new.step \in Making => req[r].step \in Making
    /\ new.step \notin Making \cup Undoing => req[r].step \notin Making \cup Undoing
    /\ new.step \in Storing => new.number \in Parts
    /\ new.step = "link" => new.written = Declared(Upload(r))
    /\ new.step \in Finishing => req[r].step \in Finishing

LEMMA FollowFacts ==
    ASSUME IInv, NEW r \in Requests, ~At(r, "idle"), NEW new,
           Follows(r, new) \/ new = Idle
    PROVE  Local(new, row, asked, published, withdrawn) /\ new.upload \in {Upload(r), NoUpload}
<1>1. CASE new = Idle
  BY <1>1, IdleFacts DEF Local
<1>2. CASE Follows(r, new)
  BY <1>2, RequestFacts DEF Follows, Local, At, Upload, Declared
<1> QED BY <1>1, <1>2

LEMMA QuietStep ==
    ASSUME IInv, AllSame, NEW r \in Requests, ~At(r, "idle"),
           NEW new \in Request, req' = [req EXCEPT ![r] = new],
           Follows(r, new) \/ new = Idle
    PROVE  IInv'
<1> PICK u \in Uploads : u = Upload(r)
  BY RequestFacts
<1>1. StateTyped'
  BY DEF AllSame
<1>2. OthersKept(u)
  BY DEF OthersKept, AllSame
<1>3. RowTrue(u)' /\ Stopped(u)' /\ Tidy(u)'
  BY RequestFacts DEF RowTrue, Stopped, Tidy, AllSame
<1>4. Local(new, row', asked', published', withdrawn') /\ new.upload \in {Upload(r), NoUpload}
  BY FollowFacts DEF AllSame
<1> QED BY <1>1, <1>2, <1>3, <1>4, Step DEF AllSame

LEMMA SameFacts ==
    ASSUME IInv, UNCHANGED <<row, asked, disk, file, access, accepted, published, withdrawn>>
    PROVE  AllSame
BY TypeFacts DEF AllSame, StateTyped, access

LEMMA EndStep == ASSUME IInv, AllSame, NEW r \in Requests, ~At(r, "idle"), End(r) PROVE IInv'
BY IdleFacts, QuietStep DEF End

LEMMA DiskStep ==
    ASSUME IInv, NEW r \in Requests, ~At(r, "idle"), NEW u \in Uploads, u = Upload(r),
           NEW d \in Dir, disk' = [disk EXCEPT ![u] = d],
           UNCHANGED <<row, asked, file, access, accepted, published, withdrawn>>,
           NEW new \in Request, req' = [req EXCEPT ![r] = new],
           Follows(r, new) \/ new = Idle,
           u \in withdrawn => d.state = "none",
           d.state = "none" => d.temps = {}
    PROVE  IInv'
<1>1. /\ disk' \in [Uploads -> Dir] /\ disk'[u] = d
      /\ \A w \in Uploads \ {u} : disk'[w] = disk[w]
  BY TypeFacts DEF StateTyped
<1>2. StateTyped'
  BY <1>1, TypeFacts DEF StateTyped, access
<1>3. OthersKept(u)
  BY <1>1 DEF OthersKept
<1>4. RowTrue(u)' /\ Stopped(u)' /\ Tidy(u)'
  BY <1>1, RequestFacts DEF RowTrue, Stopped, Tidy
<1>5. Local(new, row', asked', published', withdrawn') /\ new.upload \in {Upload(r), NoUpload}
  BY FollowFacts
<1> QED BY <1>1, <1>2, <1>3, <1>4, <1>5, Step

LEMMA RowStep ==
    ASSUME IInv, NEW r \in Requests, ~At(r, "idle"), NEW u \in Uploads, u = Upload(r),
           row' \in [Uploads -> Row], \A w \in Uploads \ {u} : row'[w] = row[w],
           row[u].status # "none" => row'[u].status # "none",
           row'[u].status = "completed" => row[u].status = "completed" \/ u \in published,
           UNCHANGED <<asked, disk, file, access, accepted, published>>,
           withdrawn' \subseteq withdrawn \cup {u}, Stopped(u)',
           NEW new \in Request, req' = [req EXCEPT ![r] = new], new.upload \in {u, NoUpload},
           Local(new, row', asked, published, withdrawn')
    PROVE  IInv'
<1>1. StateTyped'
  BY TypeFacts DEF StateTyped, access
<1>2. OthersKept(u)
  BY DEF OthersKept
<1>3. RowTrue(u)' /\ Tidy(u)'
  BY RequestFacts DEF RowTrue, Tidy
<1>4. Local(new, row', asked', published', withdrawn')
  OBVIOUS
<1> QED BY <1>1, <1>2, <1>3, <1>4, Step

\* What Goto and Enter make of a request.
LEMMA GotoFacts ==
    ASSUME IInv, NEW r \in Requests, NEW step \in Steps, Goto(r, step)
    PROVE  \E new \in Request : /\ req' = [req EXCEPT ![r] = new]
                                /\ new.step = step /\ new.upload = Upload(r)
                                /\ new.number = req[r].number /\ new.seen = req[r].seen
<1> DEFINE new == [req[r] EXCEPT !.step = step]
<1>1. req[r] \in Request
  BY TypeFacts
<1>2. /\ new \in Request /\ new.step = step /\ new.upload = Upload(r)
      /\ new.number = req[r].number /\ new.seen = req[r].seen
  BY <1>1 DEF Request, Upload
<1>3. req' = [req EXCEPT ![r] = new]
  BY DEF Goto
<1> HIDE DEF new
<1> QED BY <1>2, <1>3

LEMMA EnterFacts ==
    ASSUME IInv, NEW r \in Requests, ~At(r, "idle"), NEW step \in Steps, Enter(r, step)
    PROVE  \E new \in Request : /\ req' = [req EXCEPT ![r] = new]
                                /\ new.step = step /\ new.upload = Upload(r)
<1> DEFINE new == [Idle EXCEPT !.step = step, !.upload = Upload(r)]
<1>1. Upload(r) \in Uploads
  BY RequestFacts
<1>2. new \in Request /\ new.step = step /\ new.upload = Upload(r)
  BY <1>1, IdleFacts DEF Request
<1>3. req' = [req EXCEPT ![r] = new]
  BY DEF Enter
<1> HIDE DEF new
<1> QED BY <1>2, <1>3

\* A step that counts on no more than that there is a row.
Plain == {"recheck", "read for part", "read for complete", "cancel", "receive part",
          "store part", "verify", "create final", "assemble"}

LEMMA QuietGoto ==
    ASSUME IInv, AllSame, NEW r \in Requests, ~At(r, "idle"), NEW step \in Steps, Goto(r, step),
           \/ step \in Plain /\ req[r].step \notin Making \cup Undoing
           \/ step = "undo"
           \/ step \in Finishing /\ req[r].step \in Finishing
    PROVE  IInv'
<1>1. PICK new \in Request : /\ req' = [req EXCEPT ![r] = new]
                             /\ new.step = step /\ new.upload = Upload(r)
  BY GotoFacts
<1>2. Follows(r, new)
  BY <1>1 DEF Follows, Plain, Making, Undoing, Storing, Finishing
<1> QED BY <1>1, <1>2, QuietStep

-----------------------------------------------------------------------------
(* Creations. *)

LEMMA MakeDirStep == ASSUME IInv, NEW r \in Requests, MakeDir(r) PROVE IInv'
<1>0. ~At(r, "idle") /\ req[r].step = "mkdir"
  BY DEF MakeDir, At
<1> PICK u \in Uploads : u = Upload(r)
  BY <1>0, RequestFacts
<1>1. CASE Free(Target(u))
  <2> DEFINE d == [disk[u] EXCEPT !.state = "made"]
  <2>1. disk' = [disk EXCEPT ![u] = d] /\ Goto(r, "first manifest")
    BY <1>1 DEF MakeDir, GotoIf
  <2>2. d \in Dir /\ d.state = "made"
    BY <1>0, RequestFacts DEF Dir
  <2> HIDE DEF d
  <2>3. UNCHANGED <<row, asked, file, access, accepted, published, withdrawn>>
    BY DEF MakeDir
  <2> "first manifest" \in Steps
    BY StepFacts
  <2>4. PICK new \in Request : /\ req' = [req EXCEPT ![r] = new]
                               /\ new.step = "first manifest" /\ new.upload = Upload(r)
    BY <2>1, GotoFacts
  <2>5. u \notin withdrawn
    BY <1>0, RequestFacts DEF Local, Making, Upload
  <2>6. Follows(r, new)
    BY <1>0, <2>4 DEF Follows, Making, Undoing, Storing, Finishing
  <2> QED BY <1>0, <2>1, <2>2, <2>3, <2>4, <2>5, <2>6, DiskStep
<1>2. CASE ~Free(Target(u))
  <2>1. End(r) /\ UNCHANGED <<row, asked, disk, file, access, accepted, published, withdrawn>>
    BY <1>2 DEF MakeDir, GotoIf
  <2> QED BY <1>0, <2>1, SameFacts, EndStep
<1> QED BY <1>1, <1>2

LEMMA SaveFirstManifestStep ==
    ASSUME IInv, NEW r \in Requests, SaveFirstManifest(r) PROVE IInv'
<1>0. ~At(r, "idle") /\ req[r].step = "first manifest"
  BY DEF SaveFirstManifest, At
<1> PICK u \in Uploads : u = Upload(r)
  BY <1>0, RequestFacts
<1> DEFINE d == [disk[u] EXCEPT !.state = "ready"]
<1>1. disk' = [disk EXCEPT ![u] = d] /\ Goto(r, "insert")
  BY DEF SaveFirstManifest
<1>2. d \in Dir /\ d.state = "ready"
  BY <1>0, RequestFacts DEF Dir
<1> HIDE DEF d
<1>3. UNCHANGED <<row, asked, file, access, accepted, published, withdrawn>>
  BY DEF SaveFirstManifest
<1> "insert" \in Steps
  BY StepFacts
<1>4. PICK new \in Request : /\ req' = [req EXCEPT ![r] = new]
                             /\ new.step = "insert" /\ new.upload = Upload(r)
  BY <1>1, GotoFacts
<1>5. u \notin withdrawn
  BY <1>0, RequestFacts DEF Local, Making, Upload
<1>6. Follows(r, new)
  BY <1>0, <1>4 DEF Follows, Making, Undoing, Storing, Finishing
<1> QED BY <1>0, <1>1, <1>2, <1>3, <1>4, <1>5, <1>6, DiskStep

LEMMA FailFirstManifestStep ==
    ASSUME IInv, NEW r \in Requests, FailFirstManifest(r) PROVE IInv'
<1>0. ~At(r, "idle")
  BY DEF FailFirstManifest, At
<1> PICK u \in Uploads : u = Upload(r)
  BY <1>0, RequestFacts
<1>1. /\ req' = [req EXCEPT ![r] = Idle]
      /\ UNCHANGED <<row, asked, file, access, accepted, published, withdrawn>>
  BY DEF FailFirstManifest, End
<1>2. CASE disk' = [disk EXCEPT ![u] = NoDir]
  BY <1>0, <1>1, <1>2, IdleFacts, DiskStep
<1>3. CASE UNCHANGED disk
  BY <1>0, <1>1, <1>3, SameFacts, EndStep DEF End
<1> QED BY <1>2, <1>3 DEF FailFirstManifest

LEMMA InsertRowStep == ASSUME IInv, NEW r \in Requests, InsertRow(r) PROVE IInv'
<1>0. ~At(r, "idle") /\ req[r].step = "insert"
  BY DEF InsertRow, At
<1> PICK u \in Uploads : u = Upload(r)
  BY <1>0, RequestFacts
<1>1. UNCHANGED <<asked, disk, file, access, accepted, published, withdrawn>>
  BY DEF InsertRow
<1>2. u \notin withdrawn
  BY <1>0, RequestFacts DEF Local, Making, Upload
<1>3. CASE row' = [row EXCEPT ![u].status = "active"] /\ Goto(r, "recheck")
  <2>1. /\ row' \in [Uploads -> Row] /\ row'[u].status = "active"
        /\ \A w \in Uploads \ {u} : row'[w] = row[w]
    BY <1>3, TypeFacts DEF StateTyped, Row
  <2> "recheck" \in Steps
    BY StepFacts
  <2>2. PICK new \in Request : /\ req' = [req EXCEPT ![r] = new]
                               /\ new.step = "recheck" /\ new.upload = Upload(r)
    BY <1>3, GotoFacts
  <2>3. Local(new, row', asked, published, withdrawn')
    BY <2>1, <2>2 DEF Local, Making, Undoing, Storing, Finishing
  <2>4. Stopped(u)'
    BY <1>1, <1>2 DEF Stopped
  <2> QED BY <1>0, <1>1, <2>1, <2>2, <2>3, <2>4, RowStep
<1>4. CASE UNCHANGED row /\ Goto(r, "undo")
  BY <1>0, <1>1, <1>4, StepFacts, SameFacts, QuietGoto
<1> QED BY <1>3, <1>4 DEF InsertRow

LEMMA RecheckStep == ASSUME IInv, NEW r \in Requests, Recheck(r) PROVE IInv'
<1>1. /\ ~At(r, "idle") /\ (Goto(r, "undo") \/ End(r))
      /\ UNCHANGED <<row, asked, disk, file, access, accepted, published, withdrawn>>
  BY DEF Recheck, At
<1>2. AllSame /\ "undo" \in Steps
  BY <1>1, SameFacts, StepFacts
<1> QED BY <1>1, <1>2, EndStep, QuietGoto

\* A request that is over leaves its upload stopped, if it withdraws it.
LEMMA WithdrawFacts ==
    ASSUME IInv, NEW r \in Requests, ~At(r, "idle"), End(r), Withdraw(r),
           NEW u \in Uploads, u = Upload(r), UNCHANGED disk
    PROVE  withdrawn' \subseteq withdrawn \cup {u} /\ Stopped(u)'
<1>1. /\ withdrawn' \subseteq withdrawn \cup {u}
      /\ u \in withdrawn' => \/ u \in withdrawn \/ ~HasDir(u)
                             \/ row'[u].status # "active"
                                /\ \A o \in Requests \ {r} : Upload(o) # u
  BY DEF Withdraw
<1>2. req'[r] = Idle /\ \A o \in Requests \ {r} : req'[o] = req[o]
  BY TypeFacts DEF End
<1>3. (\A o \in Requests \ {r} : Upload(o) # u) => \A o \in Requests : req'[o].upload # u
  BY <1>2, IdleFacts, NoUploadAssumption DEF Upload
<1> QED BY <1>1, <1>3, RequestFacts DEF Stopped, HasDir, Upload

\* UndoRow, MarkCompleted and MarkCanceled.
LEMMA LastStep ==
    ASSUME IInv, NEW r \in Requests, ~At(r, "idle"), End(r),
           NEW u \in Uploads, u = Upload(r),
           row' \in [Uploads -> Row], \A w \in Uploads \ {u} : row'[w] = row[w],
           row[u].status # "none" => row'[u].status # "none",
           row'[u].status = "completed" => row[u].status = "completed" \/ u \in published,
           UNCHANGED <<asked, disk, file, access, accepted, published>>,
           withdrawn' = withdrawn \/ Withdraw(r)
    PROVE  IInv'
<1>1. Local(Idle, row', asked, published, withdrawn')
  BY IdleFacts DEF Local
<1>2. req' = [req EXCEPT ![r] = Idle]
  BY DEF End
<1>3. withdrawn' \subseteq withdrawn \cup {u} /\ Stopped(u)'
  <2>1. CASE withdrawn' = withdrawn
    BY <2>1, RequestFacts DEF Stopped
  <2>2. CASE Withdraw(r)
    BY <2>2, WithdrawFacts
  <2> QED BY <2>1, <2>2
<1> QED BY <1>1, <1>2, <1>3, IdleFacts, RowStep

LEMMA UndoRowStep == ASSUME IInv, NEW r \in Requests, UndoRow(r) PROVE IInv'
<1>0. ~At(r, "idle")
  BY DEF UndoRow, At
<1> PICK u \in Uploads : u = Upload(r)
  BY <1>0, RequestFacts
<1>1. End(r) /\ UNCHANGED <<asked, disk, file, access, accepted, published>> /\ Withdraw(r)
  BY DEF UndoRow
<1>2. CASE UNCHANGED row
  <2>1. row' \in [Uploads -> Row]
    BY <1>2, TypeFacts DEF StateTyped
  <2> QED BY <1>0, <1>1, <1>2, <2>1, LastStep
<1>3. CASE CancelActive({u})
  <2>1. row' = [w \in Uploads |-> IF w \in {u} /\ row[w].status = "active"
                                  THEN [row[w] EXCEPT !.status = "canceled"] ELSE row[w]]
    BY <1>3 DEF CancelActive
  <2>2. /\ row' \in [Uploads -> Row] /\ \A w \in Uploads \ {u} : row'[w] = row[w]
        /\ row'[u] = row[u] \/ row'[u].status = "canceled"
    BY <2>1, TypeFacts DEF StateTyped, Row
  <2> QED BY <1>0, <1>1, <2>2, LastStep
<1> QED BY <1>2, <1>3 DEF UndoRow

LEMMA MarkRowFacts ==
    ASSUME IInv, NEW u \in Uploads, NEW status \in {"completed", "canceled"}, MarkRow(u, status)
    PROVE  /\ row' \in [Uploads -> Row] /\ \A w \in Uploads \ {u} : row'[w] = row[w]
           /\ row'[u] = row[u] \/ row'[u].status = status
BY TypeFacts DEF MarkRow, StateTyped, Row

LEMMA MarkCompletedStep == ASSUME IInv, NEW r \in Requests, MarkCompleted(r) PROVE IInv'
<1>0. ~At(r, "idle") /\ req[r].step = "mark completed"
  BY DEF MarkCompleted, At
<1> PICK u \in Uploads : u = Upload(r)
  BY <1>0, RequestFacts
<1>1. /\ End(r) /\ UNCHANGED <<asked, disk, file, access, accepted, published, withdrawn>>
      /\ MarkRow(u, "completed")
  BY DEF MarkCompleted
<1>2. u \in published
  BY <1>0, RequestFacts DEF Local, Finishing, Upload
<1>3. /\ row' \in [Uploads -> Row] /\ \A w \in Uploads \ {u} : row'[w] = row[w]
      /\ row'[u] = row[u] \/ row'[u].status = "completed"
  BY <1>1, MarkRowFacts
<1> QED BY <1>0, <1>1, <1>2, <1>3, LastStep

LEMMA MarkCanceledStep == ASSUME IInv, NEW r \in Requests, MarkCanceled(r) PROVE IInv'
<1>0. ~At(r, "idle")
  BY DEF MarkCanceled, At
<1> PICK u \in Uploads : u = Upload(r)
  BY <1>0, RequestFacts
<1>1. /\ End(r) /\ UNCHANGED <<asked, disk, file, access, accepted, published>>
      /\ MarkRow(u, "canceled") /\ Withdraw(r)
  BY DEF MarkCanceled
<1>2. /\ row' \in [Uploads -> Row] /\ \A w \in Uploads \ {u} : row'[w] = row[w]
      /\ row'[u] = row[u] \/ row'[u].status = "canceled"
  BY <1>1, MarkRowFacts
<1> QED BY <1>0, <1>1, <1>2, LastStep

-----------------------------------------------------------------------------
(* RemoveAll. *)

\* What the removal's listing may hold, and where it leads to.
LEMMA RemovalFacts ==
    ASSUME IInv, NEW r \in Requests, req[r].step \in DOMAIN Removed
    PROVE  /\ ~At(r, "idle") /\ Removed[req[r].step] \in Steps
           /\ req[r].step \notin Making \cup {"link"} \cup Storing
           /\ \A new \in Request :
                 new.upload = Upload(r) /\ new.step \in {req[r].step, Removed[req[r].step]}
                    => Follows(r, new)
<1>1. CASE req[r].step = "undoing"
  BY <1>1, StepFacts DEF At, Follows, Making, Undoing, Storing, Finishing
<1>2. CASE req[r].step = "cleaning"
  BY <1>2, StepFacts DEF At, Follows, Making, Undoing, Storing, Finishing
<1>3. CASE req[r].step = "canceling"
  BY <1>3, StepFacts DEF At, Follows, Making, Undoing, Storing, Finishing
<1> QED BY <1>1, <1>2, <1>3, StepFacts

LEMMA ListDirStep == ASSUME IInv, NEW r \in Requests, ListDir(r) PROVE IInv'
<1>0. ~At(r, "idle") /\ req[r].step \in {"undo", "clean", "cancel"}
  BY StepFacts DEF ListDir, At
<1> PICK u \in Uploads : u = Upload(r)
  BY <1>0, RequestFacts
<1>1. AllSame
  BY SameFacts DEF ListDir
<1> DEFINE new == [Idle EXCEPT !.step = Removing[req[r].step], !.upload = Upload(r),
                               !.left = Entries(Upload(r))]
<1>2. Entries(u) \in Listed
  BY <1>0, RequestFacts, PartFacts DEF Entries, Listed, Dir
<1>3. Removing[req[r].step] \in Steps
  BY <1>0, StepFacts
<1>4. /\ new \in Request /\ new.step = Removing[req[r].step] /\ new.upload = Upload(r)
      /\ req' = [req EXCEPT ![r] = new]
  BY <1>2, <1>3, IdleFacts DEF Request, ListDir
<1> HIDE DEF new
<1>5. Follows(r, new)
  BY <1>0, <1>4, StepFacts DEF Follows, Making, Undoing, Storing, Finishing
<1> QED BY <1>0, <1>1, <1>4, <1>5, QuietStep

\* An entry is unlinked, and struck off the list.
LEMMA UnlinkStep ==
    ASSUME IInv, NEW r \in Requests, req[r].step \in DOMAIN Removed,
           NEW new \in Request, req' = [req EXCEPT ![r] = new],
           new.step = req[r].step, new.upload = Upload(r),
           NEW u \in Uploads, u = Upload(r),
           NEW d \in Dir, disk' = [disk EXCEPT ![u] = d],
           (d.state = "none") <=> (disk[u].state = "none"), d.temps \subseteq disk[u].temps,
           UNCHANGED <<row, asked, file, access, accepted, published, withdrawn>>
    PROVE  IInv'
<1>0. ~At(r, "idle")
  BY RemovalFacts
<1>1. Follows(r, new)
  BY RemovalFacts
<1>2. u \in withdrawn => d.state = "none"
  BY <1>0, RequestFacts
<1>3. d.state = "none" => d.temps = {}
  BY <1>0, RequestFacts DEF Tidy
<1> QED BY <1>0, <1>1, <1>2, <1>3, DiskStep

\* What is left of the list.
LEMMA StrikeFacts ==
    ASSUME IInv, NEW r \in Requests, NEW l \in Listed, req' = [req EXCEPT ![r].left = l]
    PROVE  \E new \in Request : /\ req' = [req EXCEPT ![r] = new]
                                /\ new.step = req[r].step /\ new.upload = Upload(r)
<1> DEFINE new == [req[r] EXCEPT !.left = l]
<1>1. /\ new \in Request /\ new.step = req[r].step /\ new.upload = Upload(r)
      /\ req' = [req EXCEPT ![r] = new]
  BY TypeFacts DEF Request, Upload
<1> HIDE DEF new
<1> QED BY <1>1

LEMMA RestrictPart ==
    ASSUME NEW m \in PartSizes, NEW D \in SUBSET DOMAIN m PROVE Restrict(m, D) \in PartSizes
<1>1. Restrict(m, D) = [n \in D |-> m[n]]
  BY DEF Restrict
<1>2. D \in SUBSET Parts /\ \A n \in D : m[n] \in Sizes
  BY PartFacts
<1>3. Restrict(m, D) \in [D -> Sizes]
  BY <1>1, <1>2
<1> QED BY <1>2, <1>3 DEF PartSizes

LEMMA UnlinkManifestStep == ASSUME IInv, NEW r \in Requests, UnlinkManifest(r) PROVE IInv'
<1>0. /\ req[r].step \in DOMAIN Removed
      /\ UNCHANGED <<row, asked, file, access, accepted, published, withdrawn>>
  BY DEF UnlinkManifest
<1>1. ~At(r, "idle")
  BY <1>0, RemovalFacts
<1> PICK u \in Uploads : u = Upload(r)
  BY <1>1, RequestFacts
<1>2. req[r].left \in Listed /\ disk[u] \in Dir
  BY <1>1, RequestFacts DEF Request
<1> DEFINE l == [req[r].left EXCEPT !.manifest = FALSE]
           d == [disk[u] EXCEPT !.manifest = NoParts, !.state = IF HasDir(u) THEN "made" ELSE "none"]
<1>3. l \in Listed /\ req' = [req EXCEPT ![r].left = l]
  BY <1>2 DEF UnlinkManifest, Listed
<1>4. /\ d \in Dir /\ ((d.state = "none") <=> (disk[u].state = "none"))
      /\ d.temps \subseteq disk[u].temps
  BY <1>2, PartFacts DEF Dir, HasDir
<1>5. disk' = [disk EXCEPT ![u] = d]
  BY DEF UnlinkManifest
<1> HIDE DEF l, d
<1>6. PICK new \in Request : /\ req' = [req EXCEPT ![r] = new]
                             /\ new.step = req[r].step /\ new.upload = Upload(r)
  BY <1>3, StrikeFacts
<1> QED BY <1>0, <1>4, <1>5, <1>6, UnlinkStep

LEMMA UnlinkPartStep == ASSUME IInv, NEW r \in Requests, NEW n, UnlinkPart(r, n) PROVE IInv'
<1>0. /\ req[r].step \in DOMAIN Removed
      /\ UNCHANGED <<row, asked, file, access, accepted, published, withdrawn>>
  BY DEF UnlinkPart
<1>1. ~At(r, "idle")
  BY <1>0, RemovalFacts
<1> PICK u \in Uploads : u = Upload(r)
  BY <1>1, RequestFacts
<1>2. req[r].left \in Listed /\ disk[u] \in Dir
  BY <1>1, RequestFacts DEF Request
<1> DEFINE l == [req[r].left EXCEPT !.parts = @ \ {n}]
           p == Restrict(disk[u].parts, DOMAIN disk[u].parts \ {n})
           d == [disk[u] EXCEPT !.parts = p]
<1>3. l \in Listed /\ req' = [req EXCEPT ![r].left = l]
  BY <1>2 DEF UnlinkPart, Listed
<1>4. p \in PartSizes
  BY <1>2, RestrictPart DEF Dir
<1>5. disk' = [disk EXCEPT ![u] = d]
  BY DEF UnlinkPart
<1> HIDE DEF l, p
<1>6. /\ d \in Dir /\ ((d.state = "none") <=> (disk[u].state = "none"))
      /\ d.temps \subseteq disk[u].temps
  BY <1>2, <1>4 DEF Dir
<1> HIDE DEF d
<1>7. PICK new \in Request : /\ req' = [req EXCEPT ![r] = new]
                             /\ new.step = req[r].step /\ new.upload = Upload(r)
  BY <1>3, StrikeFacts
<1> QED BY <1>0, <1>5, <1>6, <1>7, UnlinkStep

LEMMA UnlinkTempStep == ASSUME IInv, NEW r \in Requests, NEW o, UnlinkTemp(r, o) PROVE IInv'
<1>0. /\ req[r].step \in DOMAIN Removed
      /\ UNCHANGED <<row, asked, file, access, accepted, published, withdrawn>>
  BY DEF UnlinkTemp
<1>1. ~At(r, "idle")
  BY <1>0, RemovalFacts
<1> PICK u \in Uploads : u = Upload(r)
  BY <1>1, RequestFacts
<1>2. req[r].left \in Listed /\ disk[u] \in Dir
  BY <1>1, RequestFacts DEF Request
<1> DEFINE l == [req[r].left EXCEPT !.temps = @ \ {o}]
           d == [disk[u] EXCEPT !.temps = @ \ {o}]
<1>3. l \in Listed /\ req' = [req EXCEPT ![r].left = l]
  BY <1>2 DEF UnlinkTemp, Listed
<1>4. /\ d \in Dir /\ ((d.state = "none") <=> (disk[u].state = "none"))
      /\ d.temps \subseteq disk[u].temps
  BY <1>2 DEF Dir
<1>5. disk' = [disk EXCEPT ![u] = d]
  BY DEF UnlinkTemp
<1> HIDE DEF l, d
<1>6. PICK new \in Request : /\ req' = [req EXCEPT ![r] = new]
                             /\ new.step = req[r].step /\ new.upload = Upload(r)
  BY <1>3, StrikeFacts
<1> QED BY <1>0, <1>4, <1>5, <1>6, UnlinkStep

\* RemoveDir and FailRemoval: the removal is over.
LEMMA RemovedStep ==
    ASSUME IInv, NEW r \in Requests, RemoveDir(r) \/ FailRemoval(r) PROVE IInv'
<1>0. /\ req[r].step \in DOMAIN Removed /\ Enter(r, Removed[req[r].step])
      /\ UNCHANGED <<row, asked, file, access, accepted, published, withdrawn>>
  BY DEF RemoveDir, FailRemoval
<1>1. ~At(r, "idle") /\ Removed[req[r].step] \in Steps
  BY <1>0, RemovalFacts
<1> PICK u \in Uploads : u = Upload(r)
  BY <1>1, RequestFacts
<1> PICK step \in Steps : step = Removed[req[r].step]
  BY <1>1
<1>2. PICK new \in Request : /\ req' = [req EXCEPT ![r] = new]
                             /\ new.step = step /\ new.upload = Upload(r)
  BY <1>0, <1>1, EnterFacts
<1>3. Follows(r, new)
  BY <1>0, <1>2, RemovalFacts
<1>4. CASE disk' = [disk EXCEPT ![u] = NoDir]
  BY <1>0, <1>1, <1>2, <1>3, <1>4, IdleFacts, DiskStep
<1>5. CASE UNCHANGED disk
  <2>1. AllSame
    BY <1>0, <1>5, SameFacts
  <2> QED BY <1>1, <1>2, <1>3, <2>1, QuietStep
<1> QED BY <1>4, <1>5 DEF RemoveDir, FailRemoval

-----------------------------------------------------------------------------
(* Parts. *)

LEMMA AuthorizeStep == ASSUME IInv, NEW r \in Requests, Authorize(r) PROVE IInv'
<1>0. /\ ~At(r, "idle") /\ req[r].step \in {"authorizePart", "authorizeComplete", "authorizeCancel"}
      /\ FirstStep[req[r].step] \in {"read for part", "read for complete", "cancel"}
  BY StepFacts DEF Authorize, At
<1>1. mount' \in {mount, "unavailable"} /\ UNCHANGED writable
      /\ UNCHANGED <<row, asked, disk, file, accepted, published, withdrawn>>
  BY DEF Authorize
<1>2. AllSame
  BY <1>1, TypeFacts DEF AllSame, StateTyped
<1>3. CASE End(r)
  BY <1>0, <1>2, <1>3, EndStep
<1>4. CASE Goto(r, FirstStep[req[r].step])
  <2> PICK step \in {"read for part", "read for complete", "cancel"} : step = FirstStep[req[r].step]
    BY <1>0
  <2>1. step \in Steps /\ step \in Plain /\ req[r].step \notin Making \cup Undoing
    BY <1>0, StepFacts DEF Plain, Making, Undoing
  <2> QED BY <1>0, <1>2, <1>4, <2>1, QuietGoto
<1> QED BY <1>3, <1>4 DEF Authorize

\* A request reads a manifest, or adds to what it knows.
LEMMA RememberStep ==
    ASSUME IInv, AllSame, NEW r \in Requests,
           req[r].step \in {"read for part", "read for complete", "assemble"},
           NEW new \in Request, req' = [req EXCEPT ![r] = new],
           new.upload = Upload(r), new.step \in {"receive part", "verify", "assemble"}
    PROVE  IInv'
<1>1. ~At(r, "idle") /\ Follows(r, new)
  BY DEF At, Follows, Making, Undoing, Storing, Finishing
<1> QED BY <1>1, QuietStep

LEMMA ReadFacts ==
    ASSUME IInv, NEW r \in Requests, NEW u \in Uploads, u = Upload(r), NEW step \in Steps,
           req' = [req EXCEPT ![r] = [@ EXCEPT !.step = step, !.seen = disk[u].manifest]]
    PROVE  \E new \in Request : /\ req' = [req EXCEPT ![r] = new]
                                /\ new.step = step /\ new.upload = Upload(r)
<1> DEFINE new == [req[r] EXCEPT !.step = step, !.seen = disk[u].manifest]
<1>1. req[r] \in Request /\ disk[u].manifest \in PartSizes
  BY TypeFacts DEF StateTyped, Dir
<1>2. /\ new \in Request /\ new.step = step /\ new.upload = Upload(r)
      /\ req' = [req EXCEPT ![r] = new]
  BY <1>1 DEF Request, Upload
<1> HIDE DEF new
<1> QED BY <1>2

LEMMA ReadForPartStep == ASSUME IInv, NEW r \in Requests, ReadForPart(r) PROVE IInv'
<1>0. ~At(r, "idle") /\ req[r].step = "read for part" /\ "receive part" \in Steps
  BY StepFacts DEF ReadForPart, At
<1> PICK u \in Uploads : u = Upload(r)
  BY <1>0, RequestFacts
<1>1. AllSame
  BY SameFacts DEF ReadForPart
<1>2. CASE req' = [req EXCEPT ![r] = [@ EXCEPT !.step = "receive part", !.seen = disk[u].manifest]]
  <2>1. PICK new \in Request : /\ req' = [req EXCEPT ![r] = new]
                               /\ new.step = "receive part" /\ new.upload = Upload(r)
    BY <1>0, <1>2, ReadFacts
  <2> QED BY <1>0, <1>1, <2>1, RememberStep
<1> QED BY <1>0, <1>1, <1>2, EndStep DEF ReadForPart

\* ReceivePart and CreateFinal: a temporary file comes into a directory.
LEMMA AddTempStep == ASSUME IInv, NEW r \in Requests, ReceivePart(r) \/ CreateFinal(r) PROVE IInv'
<1>0. /\ ~At(r, "idle") /\ req[r].step \in {"receive part", "create final"}
      /\ HasDir(Upload(r)) /\ AddTemp(r)
      /\ UNCHANGED <<row, asked, file, access, accepted, published, withdrawn>>
  BY DEF ReceivePart, CreateFinal, At
<1> PICK u \in Uploads : u = Upload(r)
  BY <1>0, RequestFacts
<1> PICK step \in {"store part", "assemble"} : Goto(r, step)
  BY DEF ReceivePart, CreateFinal
<1> DEFINE d == [disk[u] EXCEPT !.temps = @ \cup {r}]
<1>1. d \in Dir /\ d.state = disk[u].state /\ disk' = [disk EXCEPT ![u] = d]
  BY <1>0, RequestFacts DEF Dir, AddTemp
<1> HIDE DEF d
<1>2. step \in Steps
  BY StepFacts
<1>3. PICK new \in Request : /\ req' = [req EXCEPT ![r] = new]
                             /\ new.step = step /\ new.upload = Upload(r)
  BY <1>2, GotoFacts
<1>4. Follows(r, new)
  BY <1>0, <1>3 DEF Follows, Making, Undoing, Storing, Finishing
<1>5. d.state # "none" /\ u \notin withdrawn
  BY <1>0, <1>1, RequestFacts DEF HasDir
<1> QED BY <1>0, <1>1, <1>3, <1>4, <1>5, DiskStep

\* FailPart, FailComplete and Unlink: it goes again.
LEMMA DropFacts ==
    ASSUME IInv, NEW r \in Requests, ~At(r, "idle"), NEW u \in Uploads, u = Upload(r), DropTemp(r)
    PROVE  \E d \in Dir : /\ disk' = [disk EXCEPT ![u] = d] /\ d.state = disk[u].state
                          /\ u \in withdrawn => d.state = "none"
                          /\ d.state = "none" => d.temps = {}
<1> DEFINE d == [disk[u] EXCEPT !.temps = @ \ {r}]
<1>1. /\ d \in Dir /\ d.state = disk[u].state /\ d.temps \subseteq disk[u].temps
      /\ disk' = [disk EXCEPT ![u] = d]
  BY RequestFacts DEF Dir, DropTemp
<1> HIDE DEF d
<1>2. u \in withdrawn => d.state = "none"
  BY <1>1, RequestFacts
<1>3. d.state = "none" => d.temps = {}
  BY <1>1, RequestFacts DEF Tidy
<1> QED BY <1>1, <1>2, <1>3

LEMMA DropStep ==
    ASSUME IInv, NEW r \in Requests, ~At(r, "idle"), DropTemp(r),
           UNCHANGED <<row, asked, file, access, accepted, published, withdrawn>>,
           End(r) \/ (Goto(r, "clean") /\ At(r, "unlink"))
    PROVE  IInv'
<1> PICK u \in Uploads : u = Upload(r)
  BY RequestFacts
<1>1. PICK d \in Dir : /\ disk' = [disk EXCEPT ![u] = d]
                       /\ u \in withdrawn => d.state = "none"
                       /\ d.state = "none" => d.temps = {}
  BY DropFacts
<1>2. CASE End(r)
  BY <1>1, <1>2, IdleFacts, DiskStep DEF End
<1>3. CASE Goto(r, "clean") /\ At(r, "unlink")
  <2> "clean" \in Steps
    BY StepFacts
  <2>1. PICK new \in Request : /\ req' = [req EXCEPT ![r] = new]
                               /\ new.step = "clean" /\ new.upload = Upload(r)
    BY <1>3, GotoFacts
  <2>2. Follows(r, new)
    BY <1>3, <2>1 DEF Follows, At, Making, Undoing, Storing, Finishing
  <2> QED BY <1>1, <2>1, <2>2, DiskStep
<1> QED BY <1>2, <1>3

LEMMA FailSteps == ASSUME IInv, NEW r \in Requests, FailPart(r) \/ FailComplete(r) PROVE IInv'
<1>1. /\ ~At(r, "idle") /\ DropTemp(r) /\ End(r)
      /\ UNCHANGED <<row, asked, file, access, accepted, published, withdrawn>>
  BY DEF FailPart, FailComplete, At
<1> QED BY <1>1, DropStep

LEMMA UnlinkFinalStep == ASSUME IInv, NEW r \in Requests, Unlink(r) PROVE IInv'
<1>1. /\ ~At(r, "idle") /\ DropTemp(r) /\ (End(r) \/ (Goto(r, "clean") /\ At(r, "unlink")))
      /\ UNCHANGED <<row, asked, file, access, accepted, published, withdrawn>>
  BY DEF Unlink, GotoIf, At
<1> QED BY <1>1, DropStep

LEMMA StorePartStep ==
    ASSUME IInv, NEW r \in Requests, NEW n \in Parts, NEW s \in Sizes, StorePart(r, n, s)
    PROVE  IInv'
<1>0. /\ ~At(r, "idle") /\ req[r].step = "store part" /\ HasTemp(r)
      /\ UNCHANGED <<row, asked, file, access, accepted, published, withdrawn>>
  BY DEF StorePart, At
<1> PICK u \in Uploads : u = Upload(r)
  BY <1>0, RequestFacts
<1>1. req[r] \in Request /\ disk[u] \in Dir
  BY <1>0, RequestFacts
<1> DEFINE parts == WithPart(disk[u].parts, n, s)
           seen == WithPart(req[r].seen, n, s)
           d == [disk[u] EXCEPT !.parts = parts, !.temps = disk[u].temps \ {r}]
           new == [req[r] EXCEPT !.step = "save manifest", !.number = n, !.seen = seen]
<1>2. disk' = [disk EXCEPT ![u] = d] /\ req' = [req EXCEPT ![r] = new]
  BY DEF StorePart
<1>3. parts \in PartSizes /\ seen \in PartSizes
  BY <1>1, PartFacts DEF Dir, Request
<1> HIDE DEF parts, seen
<1>4. d \in Dir /\ d.state = disk[u].state
  BY <1>1, <1>3 DEF Dir
<1>5. "save manifest" \in Steps
  BY StepFacts
<1>6. /\ new \in Request /\ new.step = "save manifest" /\ new.upload = Upload(r) /\ new.number = n
  BY <1>1, <1>3, <1>5 DEF Request, Upload
<1> HIDE DEF d, new
<1>7. Follows(r, new)
  BY <1>0, <1>6 DEF Follows, Making, Undoing, Storing, Finishing
<1>8. disk[u].state # "none" /\ u \notin withdrawn
  BY <1>0, RequestFacts DEF HasTemp, Tidy
<1> QED BY <1>0, <1>2, <1>4, <1>6, <1>7, <1>8, DiskStep

LEMMA SaveManifestStep == ASSUME IInv, NEW r \in Requests, SaveManifest(r) PROVE IInv'
<1>0. /\ ~At(r, "idle") /\ req[r].step = "save manifest" /\ HasDir(Upload(r))
      /\ UNCHANGED <<row, asked, file, access, accepted, published, withdrawn>>
  BY DEF SaveManifest, At
<1> PICK u \in Uploads : u = Upload(r)
  BY <1>0, RequestFacts
<1>1. req[r] \in Request /\ disk[u] \in Dir /\ req[r].number \in Parts
  BY <1>0, RequestFacts DEF Local, Storing
<1> DEFINE d == [disk[u] EXCEPT !.state = "ready", !.manifest = req[r].seen]
           new == [req[r] EXCEPT !.step = "accept", !.seen = NoParts]
<1>2. disk' = [disk EXCEPT ![u] = d] /\ req' = [req EXCEPT ![r] = new]
  BY DEF SaveManifest
<1>3. d \in Dir /\ d.state = "ready"
  BY <1>1 DEF Dir, Request
<1>4. "accept" \in Steps
  BY StepFacts
<1>5. /\ new \in Request /\ new.step = "accept" /\ new.upload = Upload(r) /\ new.number \in Parts
  BY <1>1, <1>4, PartFacts DEF Request, Upload
<1> HIDE DEF d, new
<1>6. Follows(r, new)
  BY <1>0, <1>5 DEF Follows, Making, Undoing, Storing, Finishing
<1>7. u \notin withdrawn
  BY <1>0, RequestFacts DEF HasDir
<1> QED BY <1>0, <1>2, <1>3, <1>5, <1>6, <1>7, DiskStep

LEMMA AcceptPartStep == ASSUME IInv, NEW r \in Requests, AcceptPart(r) PROVE IInv'
<1>0. /\ ~At(r, "idle") /\ req[r].step = "accept" /\ End(r)
      /\ UNCHANGED <<row, asked, disk, file, access, published, withdrawn>>
  BY DEF AcceptPart, At
<1> PICK u \in Uploads : u = Upload(r)
  BY <1>0, RequestFacts
<1>1. req[r].number \in Parts
  BY <1>0, RequestFacts DEF Local, Storing
<1>2. accepted' \in [Uploads -> SUBSET Parts]
  BY <1>1, TypeFacts DEF AcceptPart, StateTyped
<1>3. AllSame
  BY <1>0, <1>2, TypeFacts DEF AllSame, StateTyped, access
<1> QED BY <1>0, <1>3, EndStep

-----------------------------------------------------------------------------
(* Completions. *)

LEMMA ReadForCompleteStep == ASSUME IInv, NEW r \in Requests, ReadForComplete(r) PROVE IInv'
<1>0. ~At(r, "idle") /\ req[r].step = "read for complete" /\ "verify" \in Steps
  BY StepFacts DEF ReadForComplete, At
<1> PICK u \in Uploads : u = Upload(r)
  BY <1>0, RequestFacts
<1>1. AllSame
  BY SameFacts DEF ReadForComplete
<1>2. CASE req' = [req EXCEPT ![r] = [@ EXCEPT !.step = "verify", !.seen = disk[u].manifest]]
  <2>1. PICK new \in Request : /\ req' = [req EXCEPT ![r] = new]
                               /\ new.step = "verify" /\ new.upload = Upload(r)
    BY <1>0, <1>2, ReadFacts
  <2> QED BY <1>0, <1>1, <2>1, RememberStep
<1> QED BY <1>0, <1>1, <1>2, EndStep DEF ReadForComplete

LEMMA VerifyStep == ASSUME IInv, NEW r \in Requests, Verify(r) PROVE IInv'
<1>1. /\ ~At(r, "idle") /\ req[r].step = "verify" /\ (Goto(r, "create final") \/ End(r))
      /\ UNCHANGED <<row, asked, disk, file, access, accepted, published, withdrawn>>
  BY DEF Verify, GotoIf, At
<1>2. /\ AllSame /\ "create final" \in Steps /\ "create final" \in Plain
      /\ req[r].step \notin Making \cup Undoing
  BY <1>1, SameFacts, StepFacts DEF Plain, Making, Undoing
<1> QED BY <1>1, <1>2, EndStep, QuietGoto

LEMMA AssemblePartStep == ASSUME IInv, NEW r \in Requests, AssemblePart(r) PROVE IInv'
<1>0. ~At(r, "idle") /\ req[r].step = "assemble"
  BY DEF AssemblePart, At
<1> PICK u \in Uploads : u = Upload(r)
  BY <1>0, RequestFacts
<1>1. AllSame
  BY SameFacts DEF AssemblePart
<1> DEFINE n == req[r].next
           parts == disk[u].parts
           new == [req[r] EXCEPT !.next = n + 1, !.written = @ + parts[n]]
<1>2. /\ req' = [req EXCEPT ![r] = new] /\ n <= Cardinality(DOMAIN req[r].seen)
      /\ n \in DOMAIN parts
  BY DEF AssemblePart
<1>3. req[r] \in Request /\ parts \in PartSizes
  BY <1>0, RequestFacts DEF Dir
<1>4. parts[n] \in Nat
  BY <1>2, <1>3, PartFacts DEF Sizes
<1>5. Cardinality(DOMAIN req[r].seen) \in 0 .. MaxPart
  BY <1>3, CountFact DEF Request
<1>6. n \in 1 .. (MaxPart + 1)
  BY <1>3 DEF Request
<1>7. n + 1 \in 1 .. (MaxPart + 1)
  BY <1>2, <1>5, <1>6
<1>8. req[r].written + parts[n] \in Nat
  BY <1>3, <1>4 DEF Request
<1>9. new \in Request /\ new.step = "assemble" /\ new.upload = Upload(r)
  BY <1>0, <1>3, <1>7, <1>8 DEF Request, Upload
<1> HIDE DEF new
<1> QED BY <1>0, <1>1, <1>2, <1>9, RememberStep

LEMMA CheckSizeStep == ASSUME IInv, NEW r \in Requests, CheckSize(r) PROVE IInv'
<1>0. ~At(r, "idle") /\ req[r].step = "assemble" /\ req[r].written = Declared(Upload(r))
  BY DEF CheckSize, At
<1> PICK u \in Uploads : u = Upload(r)
  BY <1>0, RequestFacts
<1>1. AllSame
  BY SameFacts DEF CheckSize
<1> DEFINE new == [Idle EXCEPT !.step = "link", !.upload = u, !.written = req[r].written]
<1>2. req' = [req EXCEPT ![r] = new]
  BY DEF CheckSize
<1>3. "link" \in Steps /\ req[r].written \in Nat
  BY <1>0, StepFacts, RequestFacts DEF Request
<1>4. /\ new \in Request /\ new.step = "link" /\ new.upload = Upload(r)
      /\ new.written = Declared(Upload(r))
  BY <1>0, <1>3, IdleFacts DEF Request
<1> HIDE DEF new
<1>5. Follows(r, new)
  BY <1>0, <1>4 DEF Follows, Making, Undoing, Storing, Finishing
<1> QED BY <1>0, <1>1, <1>2, <1>4, <1>5, QuietStep

\* What is linked has the declared size, at a target that was free; and the
\* directory with the assembled file is there, so the upload is not withdrawn.
LEMMA LinkStep == ASSUME IInv, NEW r \in Requests, Link(r) PROVE IInv'
<1>0. ~At(r, "idle") /\ req[r].step = "link"
  BY DEF Link, At
<1> PICK u \in Uploads : u = Upload(r)
  BY <1>0, RequestFacts
<1> DEFINE linked == [by |-> u, size |-> req[r].written]
<1>1. /\ UNCHANGED <<row, asked, disk, access, accepted, withdrawn>>
      /\ file' = [file EXCEPT ![Target(u)] = linked]
      /\ published' = published \cup {u} /\ Enter(r, "unlink") /\ HasTemp(r)
  BY DEF Link
<1>2. /\ req[r].written = Declared(u) /\ row[u].status # "none" /\ disk[u].state # "none"
      /\ u \notin withdrawn /\ asked[u] \in Asked /\ RowTrue(u) /\ Tidy(u)
  BY <1>0, <1>1, RequestFacts DEF Local, Making, Undoing, Upload, Declared, HasTemp, Tidy
<1>3. linked \in File /\ Target(u) \in Targets
  BY <1>2 DEF File, Asked, Declared, Target
<1>4. /\ file' \in [Targets -> File] /\ file'[Target(u)] = linked
      /\ \A t \in Targets : t # Target(u) => file'[t] = file[t]
  BY <1>1, <1>3, TypeFacts DEF StateTyped
<1>5. StateTyped'
  BY <1>1, <1>4, TypeFacts DEF StateTyped, access
<1>6. PublishedWhole'
  BY <1>1, <1>2, <1>4 DEF IInv, PublishedWhole, Declared
<1>7. FilesOwned'
  BY <1>1, <1>2, <1>4 DEF IInv, FilesOwned
<1>8. OthersKept(u) /\ published \subseteq published' /\ RowTrue(u)' /\ Stopped(u)' /\ Tidy(u)'
  BY <1>1, <1>2 DEF OthersKept, RowTrue, Stopped, Tidy
<1>9. RowsTruthful'
  BY <1>8, RowsStep
<1> "unlink" \in Steps
  BY StepFacts
<1>10. PICK new \in Request : /\ req' = [req EXCEPT ![r] = new]
                              /\ new.step = "unlink" /\ new.upload = Upload(r)
  BY <1>0, <1>1, EnterFacts
<1>11. Local(new, row', asked', published', withdrawn')
  BY <1>1, <1>2, <1>10 DEF Local, Making, Undoing, Storing, Finishing
<1>12. req' \in [Requests -> Request] /\ RequestsSound' /\ MakersAlone'
  BY <1>0, <1>1, <1>2, <1>8, <1>10, <1>11, RequestStep
<1>13. WithdrawnStopped' /\ DirsTidy'
  BY <1>0, <1>8, <1>10, StoppedStep
<1>14. asked' \in [Uploads -> Asked]
  BY <1>1, TypeFacts
<1>15. TypeOK'
  BY <1>5, <1>12, <1>14, AssembleNext
<1> QED BY <1>6, <1>7, <1>9, <1>12, <1>13, <1>15 DEF IInv

LEMMA RemoveAllStep == ASSUME IInv, NEW r \in Requests, RemoveAll(r) PROVE IInv'
BY ListDirStep, UnlinkManifestStep, UnlinkPartStep, UnlinkTempStep, RemovedStep DEF RemoveAll

LEMMA CreateStep == ASSUME IInv, NEW r \in Requests, Create(r) PROVE IInv'
BY MakeDirStep, SaveFirstManifestStep, FailFirstManifestStep, InsertRowStep, RecheckStep,
   UndoRowStep DEF Create

LEMMA WritePartStep == ASSUME IInv, NEW r \in Requests, WritePart(r) PROVE IInv'
BY ReadForPartStep, AddTempStep, StorePartStep, SaveManifestStep, FailSteps, AcceptPartStep
   DEF WritePart

LEMMA CompleteUploadStep == ASSUME IInv, NEW r \in Requests, CompleteUpload(r) PROVE IInv'
BY ReadForCompleteStep, VerifyStep, AddTempStep, AssemblePartStep, CheckSizeStep, FailSteps,
   LinkStep, UnlinkFinalStep, MarkCompletedStep DEF CompleteUpload

LEMMA AdvanceStep == ASSUME IInv, NEW r \in Requests, Advance(r) PROVE IInv'
BY CreateStep, AuthorizeStep, WritePartStep, CompleteUploadStep, MarkCanceledStep, RemoveAllStep
   DEF Advance

-----------------------------------------------------------------------------
(* Requests begin. *)

\* A request comes to an upload that is active, or that nobody knows.
LEMMA BeginStep ==
    ASSUME IInv, NEW r \in Requests, At(r, "idle"), NEW u \in Uploads,
           NEW new \in Request, new.upload = u, new.step # "idle", req' = [req EXCEPT ![r] = new],
           UNCHANGED <<row, disk, file, access, accepted, published, withdrawn>>,
           asked' \in [Uploads -> Asked], \A w \in Uploads \ {u} : asked'[w] = asked[w],
           (row[u].status = "active" /\ asked' = asked) \/ Unused(u),
           Local(new, row, asked', published, withdrawn)
    PROVE  IInv'
<1>1. /\ req' \in [Requests -> Request] /\ req'[r] = new
      /\ \A p \in Requests \ {r} : req'[p] = req[p]
  BY TypeFacts
<1>2. StateTyped'
  BY TypeFacts DEF StateTyped, access
<1>3. TypeOK'
  BY <1>1, <1>2, AssembleNext
<1>4. ASSUME NEW p \in Requests \ {r}, req[p].step # "idle"
      PROVE  /\ Local(req'[p], row', asked', published', withdrawn')
             /\ row[Upload(p)].status = "none" => Upload(p) # u
  <2>1. Local(req[p], row, asked, published, withdrawn) /\ Upload(p) \in Uploads
    BY <1>4, RequestFacts DEF At
  <2>2. Upload(p) # u \/ (row[u].status = "active" /\ asked' = asked)
    BY DEF Unused
  <2>3. asked'[Upload(p)] = asked[Upload(p)]
    BY <2>1, <2>2
  <2> QED BY <1>1, <2>1, <2>2, <2>3 DEF Local, Upload
<1>5. RequestsSound'
  <2> SUFFICES ASSUME NEW p \in Requests
               PROVE  Local(req'[p], row', asked', published', withdrawn')
    BY DEF RequestsSound
  <2>1. CASE p = r
    BY <1>1, <2>1
  <2>2. CASE p # r /\ req[p].step # "idle"
    BY <1>4, <2>2
  <2>3. CASE p # r /\ req[p].step = "idle"
    BY <1>1, <2>3 DEF Local
  <2> QED BY <2>1, <2>2, <2>3
<1>6. MakersAlone'
  <2> SUFFICES ASSUME NEW p \in Requests, req'[p].step # "idle",
                      row[req'[p].upload].status = "none", NEW q \in Requests \ {p}
               PROVE  req'[q].upload # req'[p].upload
    BY DEF MakersAlone, Alone, At, Upload
  <2>1. CASE p = r
    BY <1>1, <2>1 DEF Unused, Upload
  <2>2. CASE p # r
    <3>1. req[p].step # "idle" /\ row[Upload(p)].status = "none"
      BY <1>1, <2>2 DEF Upload
    <3>2. Alone(p) /\ Upload(p) # u
      BY <1>4, <2>2, <3>1 DEF IInv, MakersAlone, At
    <3> QED BY <1>1, <2>2, <3>2 DEF Alone, Upload
  <2> QED BY <2>1, <2>2
<1>7. WithdrawnStopped'
  <2> SUFFICES ASSUME NEW w \in Uploads, w \in withdrawn, disk[w].state # "none"
               PROVE  /\ row[w].status # "active"
                      /\ \A p \in Requests : req'[p].upload # w
    BY DEF WithdrawnStopped, Stopped, Upload
  <2>1. row[w].status # "active" /\ \A p \in Requests : req[p].upload # w
    BY DEF IInv, WithdrawnStopped, Stopped, Upload
  <2> QED BY <1>1, <2>1 DEF Unused
<1>8. PublishedWhole' /\ FilesOwned'
  BY DEF IInv, PublishedWhole, FilesOwned, Unused, Declared
<1>9. RowsTruthful' /\ DirsTidy'
  BY DEF IInv, RowsTruthful, DirsTidy, Tidy
<1> QED BY <1>3, <1>5, <1>6, <1>7, <1>8, <1>9 DEF IInv

\* The record of a request that begins.
LEMMA BeginFacts ==
    ASSUME NEW u \in Uploads, NEW step \in Steps
    PROVE  \E new \in Request : /\ new = [Idle EXCEPT !.step = step, !.upload = u]
                                /\ new.step = step /\ new.upload = u
<1> DEFINE new == [Idle EXCEPT !.step = step, !.upload = u]
<1>1. new \in Request /\ new.step = step /\ new.upload = u
  BY IdleFacts DEF Request
<1> HIDE DEF new
<1>2. \E n \in Request : n = new /\ n.step = step /\ n.upload = u
  BY <1>1
<1> QED BY <1>2 DEF new

LEMMA StartCreateStep ==
    ASSUME IInv, NEW r \in Requests, NEW u \in Uploads, NEW t \in Targets, NEW d \in Sizes,
           StartCreate(r, u, t, d)
    PROVE  IInv'
<1>1. PICK new \in Request :
        /\ new = [Idle EXCEPT !.step = "mkdir", !.upload = u]
        /\ new.step = "mkdir" /\ new.upload = u
  BY BeginFacts, StepFacts
<1>2. /\ At(r, "idle") /\ Unused(u) /\ req' = [req EXCEPT ![r] = new]
      /\ asked' = [asked EXCEPT ![u] = [target |-> t, declared |-> d]]
      /\ UNCHANGED <<row, disk, file, access, accepted, published, withdrawn>>
  BY <1>1 DEF StartCreate, Ready
<1>3. asked' \in [Uploads -> Asked] /\ \A w \in Uploads \ {u} : asked'[w] = asked[w]
  BY <1>2, TypeFacts DEF Asked
<1>4. Local(new, row, asked', published, withdrawn)
  BY <1>1, <1>2 DEF Local, Making, Undoing, Storing, Finishing, Unused
<1> QED BY <1>1, <1>2, <1>3, <1>4, BeginStep

LEMMA LoadUploadStep ==
    ASSUME IInv, NEW r \in Requests, NEW u \in Uploads, NEW wait \in DOMAIN FirstStep,
           LoadUpload(r, u, wait)
    PROVE  IInv'
<1>0. wait \in {"authorizePart", "authorizeComplete", "authorizeCancel"} /\ wait \in Steps
  BY StepFacts
<1>1. PICK new \in Request :
        /\ new = [Idle EXCEPT !.step = wait, !.upload = u]
        /\ new.step = wait /\ new.upload = u
  BY <1>0, BeginFacts
<1>2. /\ At(r, "idle") /\ row[u].status = "active" /\ req' = [req EXCEPT ![r] = new]
      /\ UNCHANGED <<row, asked, disk, file, access, accepted, published, withdrawn>>
  BY <1>1 DEF LoadUpload, Loadable, Ready
<1>3. Local(new, row, asked', published, withdrawn)
  BY <1>0, <1>1, <1>2 DEF Local, Making, Undoing, Storing, Finishing
<1> QED BY <1>0, <1>1, <1>2, <1>3, TypeFacts, BeginStep

-----------------------------------------------------------------------------
(* Maintenance, administrators and others. *)

\* Rows are ended, and what nobody is at is withdrawn with them; rows that are
\* not there yet, and files of uploads, stay as they are.
LEMMA OutsideStep ==
    ASSUME IInv, UNCHANGED <<asked, disk, published, req>>, StateTyped',
           \A u \in Uploads :
                \/ row'[u].status = row[u].status
                \/ row[u].status = "active" /\ row'[u].status \in {"canceled", "expired"},
           \A u \in Uploads : u \in withdrawn' =>
                \/ u \in withdrawn
                \/ /\ row[u].status = "active" /\ row'[u].status \in {"canceled", "expired"}
                   /\ \A r \in Requests : Upload(r) # u,
           \A t \in Targets : file'[t] = file[t] \/ file'[t].by \notin Uploads
    PROVE  IInv'
<1>1. TypeOK'
  BY TypeFacts, AssembleNext
<1>2. RequestsSound'
  <2> SUFFICES ASSUME NEW p \in Requests, req[p].step # "idle"
               PROVE  Local(req[p], row', asked', published', withdrawn')
    BY DEF RequestsSound, Local
  <2>1. Local(req[p], row, asked, published, withdrawn) /\ Upload(p) \in Uploads
    BY RequestFacts DEF At
  <2>2. /\ row'[Upload(p)].status = "none" <=> row[Upload(p)].status = "none"
        /\ Upload(p) \in withdrawn' => Upload(p) \in withdrawn
    BY <2>1
  <2> QED BY <2>1, <2>2 DEF Local, Upload
<1>3. MakersAlone'
  <2> SUFFICES ASSUME NEW p \in Requests, ~At(p, "idle"), row'[Upload(p)].status = "none"
               PROVE  Alone(p)
    BY DEF MakersAlone, Alone, At, Upload
  <2>1. Upload(p) \in Uploads
    BY RequestFacts
  <2> QED BY <2>1 DEF IInv, MakersAlone
<1>4. WithdrawnStopped'
  <2> SUFFICES ASSUME NEW u \in Uploads, u \in withdrawn', disk[u].state # "none"
               PROVE  /\ row'[u].status # "active"
                      /\ \A r \in Requests : Upload(r) # u
    BY DEF WithdrawnStopped, Stopped, Upload
  <2> QED BY DEF IInv, WithdrawnStopped, Stopped
<1>5. RowsTruthful' /\ DirsTidy'
  BY DEF IInv, RowsTruthful, DirsTidy, Tidy
<1>6. PublishedWhole' /\ FilesOwned'
  BY DEF IInv, PublishedWhole, FilesOwned, Declared
<1> QED BY <1>1, <1>2, <1>3, <1>4, <1>5, <1>6 DEF IInv

\* Revoke and DeleteMount.
LEMMA CancelAllStep ==
    ASSUME IInv, CancelActive(Uploads), withdrawn' = withdrawn \cup Unattended(Uploads),
           writable' \in BOOLEAN, mount' \in {"active", "unavailable", "deleted"},
           UNCHANGED <<asked, disk, file, accepted, req, published>>
    PROVE  IInv'
<1>1. row' = [u \in Uploads |-> IF u \in Uploads /\ row[u].status = "active"
                                THEN [row[u] EXCEPT !.status = "canceled"] ELSE row[u]]
  BY DEF CancelActive
<1>2. row' \in [Uploads -> Row]
      /\ \A u \in Uploads : IF row[u].status = "active" THEN row'[u].status = "canceled"
                                                       ELSE row'[u] = row[u]
  BY <1>1, TypeFacts DEF StateTyped, Row
<1>3. StateTyped'
  BY <1>2, TypeFacts DEF StateTyped, Unattended
<1> QED BY <1>2, <1>3, OutsideStep DEF Unattended

LEMMA ExpireStep == ASSUME IInv, Expire PROVE IInv'
<1>1. row' = [u \in Uploads |-> IF row[u].status = "active" /\ row[u].overdue
                                THEN [row[u] EXCEPT !.status = "expired"] ELSE row[u]]
  BY DEF Expire
<1>2. row' \in [Uploads -> Row]
      /\ \A u \in Uploads : IF row[u].status = "active" /\ row[u].overdue
                            THEN row'[u].status = "expired" ELSE row'[u] = row[u]
  BY <1>1, TypeFacts DEF StateTyped, Row
<1>3. UNCHANGED <<asked, disk, file, access, accepted, req, published>>
      /\ withdrawn' = withdrawn \cup Unattended({u \in Uploads : row[u].overdue})
  BY DEF Expire
<1>4. StateTyped'
  BY <1>2, <1>3, TypeFacts DEF StateTyped, Unattended, access
<1> QED BY <1>2, <1>3, <1>4, OutsideStep DEF Unattended

LEMMA LapseStep == ASSUME IInv, NEW u \in Uploads, Lapse(u) PROVE IInv'
<1>1. /\ row' \in [Uploads -> Row] /\ \A w \in Uploads : row'[w].status = row[w].status
      /\ UNCHANGED <<asked, disk, file, access, accepted, req, published, withdrawn>>
  BY TypeFacts DEF Lapse, StateTyped, Row
<1>2. StateTyped'
  BY <1>1, TypeFacts DEF StateTyped, access
<1> QED BY <1>1, <1>2, OutsideStep

LEMMA EnvironmentStep == ASSUME IInv, Environment PROVE IInv'
<1>1. CASE Revoke
  BY <1>1, TypeFacts, CancelAllStep DEF Revoke, StateTyped
<1>2. CASE DeleteMount
  BY <1>2, CancelAllStep DEF DeleteMount
<1>3. CASE Regrant
  <2>1. StateTyped'
    BY <1>3, TypeFacts DEF Regrant, StateTyped
  <2> QED BY <1>3, <2>1, OutsideStep DEF Regrant
<1>4. CASE Reverify
  <2>1. StateTyped'
    BY <1>4, TypeFacts DEF Reverify, StateTyped
  <2> QED BY <1>4, <2>1, OutsideStep DEF Reverify
<1>5. CASE WriteBackMode
  <2>1. StateTyped'
    BY <1>5, TypeFacts DEF WriteBackMode, StateTyped
  <2> QED BY <1>5, <2>1, OutsideStep DEF WriteBackMode
<1>6. ASSUME NEW t \in Targets, OthersCreate(t) \/ OthersRemove(t) PROVE IInv'
  <2>1. UNCHANGED <<row, asked, disk, access, accepted, req, published, withdrawn>>
    BY <1>6 DEF OthersCreate, OthersRemove
  <2>2. PICK f \in File : file' = [file EXCEPT ![t] = f] /\ f.by \notin Uploads
    <3>1. 0 \in Sizes
      BY MaxSizeAssumption DEF Sizes
    <3>2. CASE OthersCreate(t)
      <4>1. [by |-> Others, size |-> 0] \in File
        BY <3>1 DEF File
      <4> QED BY <3>2, <4>1, NoUploadAssumption DEF OthersCreate
    <3>3. CASE OthersRemove(t)
      <4>1. NoFile \in File /\ NoFile.by = NoUpload
        BY <3>1 DEF File, NoFile
      <4> QED BY <3>3, <4>1, NoUploadAssumption DEF OthersRemove
    <3> QED BY <1>6, <3>2, <3>3
  <2>3. /\ file' \in [Targets -> File]
        /\ \A x \in Targets : file'[x] = file[x] \/ file'[x].by \notin Uploads
    BY <2>2, TypeFacts DEF StateTyped
  <2>4. StateTyped'
    BY <2>1, <2>3, TypeFacts DEF StateTyped, access
  <2> QED BY <2>1, <2>3, <2>4, OutsideStep
<1> QED BY <1>1, <1>2, <1>3, <1>4, <1>5, <1>6, LapseStep DEF Environment

LEMMA CrashStep == ASSUME IInv, Crash PROVE IInv'
<1>1. /\ req' = [r \in Requests |-> Idle]
      /\ disk' = [u \in Uploads |-> [disk[u] EXCEPT !.temps = {}]]
      /\ UNCHANGED <<row, asked, file, access, accepted, published, withdrawn>>
  BY DEF Crash
<1>2. /\ disk' \in [Uploads -> Dir]
      /\ \A u \in Uploads : disk'[u].state = disk[u].state /\ disk'[u].temps = {}
  <2>1. ASSUME NEW u \in Uploads
        PROVE  /\ [disk[u] EXCEPT !.temps = {}] \in Dir
               /\ [disk[u] EXCEPT !.temps = {}].state = disk[u].state
               /\ [disk[u] EXCEPT !.temps = {}].temps = {}
    BY TypeFacts DEF StateTyped, Dir
  <2> QED BY <1>1, <2>1
<1>3. StateTyped' /\ asked' \in [Uploads -> Asked] /\ req' \in [Requests -> Request]
  BY <1>1, <1>2, IdleFacts, TypeFacts DEF StateTyped, access
<1>4. TypeOK'
  BY <1>3, AssembleNext
<1>5. RequestsSound' /\ MakersAlone'
  BY <1>1, IdleFacts DEF RequestsSound, MakersAlone, Local, At
<1>6. WithdrawnStopped' /\ DirsTidy'
  <2>1. \A r \in Requests : Upload(r)' = NoUpload
    BY <1>1, IdleFacts DEF Upload
  <2>2. \A u \in Uploads : u \in withdrawn => disk[u].state = "none" \/ row[u].status # "active"
    BY DEF IInv, WithdrawnStopped, Stopped
  <2>3. WithdrawnStopped'
    BY <1>1, <1>2, <2>1, <2>2, NoUploadAssumption DEF WithdrawnStopped, Stopped
  <2> QED BY <1>2, <2>3 DEF DirsTidy, Tidy
<1>7. PublishedWhole' /\ FilesOwned' /\ RowsTruthful'
  BY <1>1 DEF IInv, PublishedWhole, FilesOwned, RowsTruthful, Declared
<1> QED BY <1>4, <1>5, <1>6, <1>7 DEF IInv

LEMMA StutterStep == ASSUME IInv, UNCHANGED vars PROVE IInv'
<1>1. UNCHANGED <<row, asked, disk, file, mount, writable, accepted, req, published, withdrawn>>
  BY DEF vars, access
<1>2. StateTyped'
  BY <1>1, TypeFacts DEF StateTyped
<1> QED BY <1>1, <1>2, OutsideStep

LEMMA NextStep == IInv /\ [Next]_vars => IInv'
<1> SUFFICES ASSUME IInv, [Next]_vars PROVE IInv'
  OBVIOUS
<1>1. CASE \E r \in Requests : Start(r) \/ Advance(r)
  BY <1>1, StartCreateStep, LoadUploadStep, AdvanceStep DEF Start
<1>2. CASE Expire \/ Environment \/ Crash
  BY <1>2, ExpireStep, EnvironmentStep, CrashStep
<1> QED BY <1>1, <1>2, StutterStep DEF Next

-----------------------------------------------------------------------------
\* The strengthening holds in every state: an upload that is not inserted yet belongs
\* to its maker alone, a file to link is in a directory, and what is withdrawn has no
\* directory or is out of everybody's reach.
THEOREM UploadsInductive == Spec => []IInv
BY InitInv, NextStep, PTL DEF Spec

\* Tables, directories, files and requests keep their types, whatever requests
\* and others do.
THEOREM TypeCorrect == Spec => []TypeOK
BY UploadsInductive, PTL DEF IInv

\* Whatever parts are rewritten while publish assembles them, a file that
\* becomes visible has the size that was declared for it.
THEOREM PublishedFilesWhole == Spec => []PublishedWhole
BY UploadsInductive, PTL DEF IInv

\* A row says completed only after the file was published, whatever was removed of the
\* upload meanwhile and wherever requests were cut off.
THEOREM RowsTellTheTruth == Spec => []RowsTruthful
BY UploadsInductive, PTL DEF IInv

\* Files become visible by a link, and change besides by others only.
LEMMA OnlyLinkPublishes ==
    ASSUME [Next]_vars
    PROVE  \/ \E r \in Requests : Link(r)
           \/ UNCHANGED published /\ (UNCHANGED file
                                     \/ \E x \in Targets : OthersCreate(x) \/ OthersRemove(x))
<1>1. ASSUME NEW r \in Requests, Start(r) PROVE UNCHANGED <<file, published>>
  BY <1>1 DEF Start, StartCreate, LoadUpload
<1>2. ASSUME NEW r \in Requests, Create(r) PROVE UNCHANGED <<file, published>>
  BY <1>2 DEF Create, MakeDir, SaveFirstManifest, FailFirstManifest, InsertRow, Recheck, UndoRow
<1>3. ASSUME NEW r \in Requests, Authorize(r) \/ MarkCanceled(r) PROVE UNCHANGED <<file, published>>
  BY <1>3 DEF Authorize, MarkCanceled
<1>4. ASSUME NEW r \in Requests, WritePart(r) PROVE UNCHANGED <<file, published>>
  BY <1>4 DEF WritePart, ReadForPart, ReceivePart, StorePart, SaveManifest, FailPart, AcceptPart
<1>5. ASSUME NEW r \in Requests, CompleteUpload(r) PROVE Link(r) \/ UNCHANGED <<file, published>>
  BY <1>5 DEF CompleteUpload, ReadForComplete, Verify, CreateFinal, AssemblePart, CheckSize,
              FailComplete, Unlink, MarkCompleted
<1>6. ASSUME NEW r \in Requests, RemoveAll(r) PROVE UNCHANGED <<file, published>>
  BY <1>6 DEF RemoveAll, ListDir, UnlinkManifest, UnlinkPart, UnlinkTemp, RemoveDir, FailRemoval
<1>7. CASE \E r \in Requests : Start(r) \/ Advance(r)
  BY <1>1, <1>2, <1>3, <1>4, <1>5, <1>6, <1>7 DEF Advance
<1>8. CASE Environment
  BY <1>8 DEF Environment, Lapse, Revoke, WriteBackMode, Regrant, DeleteMount, Reverify,
              OthersCreate, OthersRemove
<1>9. CASE Expire \/ Crash \/ UNCHANGED vars
  BY <1>9 DEF Expire, Crash, vars
<1> QED BY <1>7, <1>8, <1>9 DEF Next

\* publish links and never renames: no step of any request replaces a file.
THEOREM NothingReplaced == Spec => NothingOverwritten
<1>1. ASSUME IInv, [Next]_vars, NEW t \in Targets, ~Free(t)
      PROVE  file'[t] \in {file[t], NoFile}
  <2>1. ASSUME NEW r \in Requests, Link(r) PROVE file'[t] = file[t]
    <3>1. /\ Free(Target(Upload(r)))
          /\ file' = [file EXCEPT ![Target(Upload(r))] = [by |-> Upload(r), size |-> req[r].written]]
      BY <2>1 DEF Link
    <3> QED BY <1>1, <3>1, TypeFacts DEF Free, StateTyped
  <2>2. ASSUME NEW x \in Targets, OthersCreate(x) \/ OthersRemove(x)
        PROVE  file'[t] \in {file[t], NoFile}
    BY <1>1, <2>2, TypeFacts DEF OthersCreate, OthersRemove, Free, StateTyped
  <2>3. CASE UNCHANGED file
    BY <2>3
  <2> QED BY <1>1, <2>1, <2>2, <2>3, OnlyLinkPublishes
<1>2. IInv /\ [Next]_vars => \A t \in Targets : ~Free(t) => file'[t] \in {file[t], NoFile}
  BY <1>1
<1> QED BY <1>2, UploadsInductive, PTL DEF Spec, NothingOverwritten

\* What was withdrawn stays unpublished for ever, though a removal is not one step and
\* may fail: a completion links a file that is in the directory, and where there is one
\* nobody is at the upload and its row lets nobody come.
THEOREM WithdrawnForGood == Spec => WithdrawnStaysUnpublished
<1>1. ASSUME IInv, [Next]_vars, NEW u \in withdrawn, u \in published' PROVE u \in published
  <2>1. ASSUME NEW r \in Requests, Link(r) PROVE u \in published
    <3>1. published' = published \cup {Upload(r)} /\ HasTemp(r) /\ ~At(r, "idle")
      BY <2>1 DEF Link, At
    <3>2. Tidy(Upload(r)) /\ (disk[Upload(r)].state # "none" => Upload(r) \notin withdrawn)
      BY <1>1, <3>1, RequestFacts
    <3>3. disk[Upload(r)].state # "none"
      BY <3>1, <3>2 DEF HasTemp, Tidy
    <3> QED BY <1>1, <3>1, <3>2, <3>3
  <2> QED BY <1>1, <2>1, OnlyLinkPublishes
<1>2. IInv /\ [Next]_vars => \A u \in withdrawn : u \in published' => u \in published
  BY <1>1
<1> QED BY <1>2, UploadsInductive, PTL DEF Spec, WithdrawnStaysUnpublished

-----------------------------------------------------------------------------
(* Manifests.  The sum of a manifest is checked when a part is stored, and *)
(* the manifest that was checked then is the one that is written: others   *)
(* that write in between are overwritten, and so cannot add up.            *)

Writes(a) == a.step = "save manifest"

ManifestsFit ==
    /\ ManifestWithinDeclared
    /\ \A u \in Uploads : disk[u].state = "none" => disk[u].manifest = NoParts
    /\ \A r \in Requests : Writes(req[r]) => Received(req[r].seen) <= Declared(req[r].upload)

LEMMA ReceivedFacts ==
    /\ Received(NoParts) = 0
    /\ \A m \in PartSizes : Received(m) \in Nat
    /\ \A m \in PartSizes, n \in Parts, s \in Sizes, d \in Nat :
        Fits(m, n, s, d) => Received(WithPart(m, n, s)) <= d
<1>1. ASSUME NEW m \in PartSizes
      PROVE  Numbers(m)
  <2>1. DOMAIN m \in SUBSET (1 .. MaxPart) /\ \A x \in DOMAIN m : m[x] \in Nat
    BY PartFacts DEF Parts, Sizes
  <2>2. IsFiniteSet(1 .. MaxPart)
    BY FS_Interval
  <2>3. IsFiniteSet(DOMAIN m)
    BY <2>1, <2>2, FS_Subset
  <2> QED BY <2>1, <2>3 DEF Numbers
<1>2. Received(NoParts) = 0
  <2>1. DOMAIN NoParts = {}
    BY DEF NoParts
  <2> QED BY <2>1, SumFacts DEF Received
<1>3. \A m \in PartSizes : Received(m) \in Nat
  BY <1>1, SumFacts DEF Received
<1>4. ASSUME NEW m \in PartSizes, NEW n \in Parts, NEW s \in Sizes, NEW d \in Nat, Fits(m, n, s, d)
      PROVE  Received(WithPart(m, n, s)) <= d
  <2> DEFINE w == WithPart(m, n, s)
             old == IF n \in DOMAIN m THEN m[n] ELSE 0
  <2>1. w \in PartSizes
    BY PartFacts
  <2>2. DOMAIN w = DOMAIN m \cup {n} /\ w[n] = s /\ \A x \in DOMAIN m \ {n} : w[x] = m[x]
    BY DEF WithPart
  <2>3. Received(w) = Received(m) + s - old
    <3> HIDE DEF w
    <3>1. Numbers(m) /\ Numbers(w) /\ OneMore(m, w, n)
      BY <1>1, <2>1, <2>2 DEF OneMore
    <3>2. SumFunction(w) = SumFunction(m) + w[n] - (IF n \in DOMAIN m THEN m[n] ELSE 0)
      BY <3>1, SumFacts
    <3> QED BY <2>2, <3>2 DEF Received
  <2>4. Received(m) + s <= d + old
    BY <1>4 DEF Fits
  <2>5. Received(m) \in Nat /\ s \in Nat /\ old \in Nat
    BY <1>1, <1>3 DEF Numbers, Sizes
  <2> QED BY <2>3, <2>4, <2>5
<1> QED BY <1>2, <1>3, <1>4

\* What a step may do to a directory and to a request without writing a
\* manifest or checking one.
CalmDir(u) ==
    /\ disk'[u].manifest \in {NoParts, disk[u].manifest}
    /\ disk'[u].state = "none" => disk'[u].manifest = NoParts \/ disk[u].state = "none"

CalmRequest(r) ==
    Writes(req'[r]) =>
        Writes(req[r]) /\ req'[r].seen = req[r].seen /\ req'[r].upload = req[r].upload

LEMMA CalmStep ==
    ASSUME ManifestsFit, asked \in [Uploads -> Asked], UNCHANGED asked,
           \A u \in Uploads : CalmDir(u), \A r \in Requests : CalmRequest(r)
    PROVE  ManifestsFit'
<1>1. \A u \in Uploads : disk'[u].state = "none" => disk'[u].manifest = NoParts
  BY DEF ManifestsFit, CalmDir
<1>2. ManifestWithinDeclared'
  <2> SUFFICES ASSUME NEW u \in Uploads PROVE Received(disk'[u].manifest) <= asked[u].declared
    BY DEF ManifestWithinDeclared, Received, Declared
  <2>1. asked[u].declared \in Nat /\ Received(disk[u].manifest) <= asked[u].declared
    BY DEF ManifestsFit, ManifestWithinDeclared, Declared, Asked, Sizes
  <2>2. disk'[u].manifest \in {NoParts, disk[u].manifest}
    BY DEF CalmDir
  <2> QED BY <2>1, <2>2, ReceivedFacts
<1>3. ASSUME NEW r \in Requests, Writes(req'[r])
      PROVE  Received(req'[r].seen) <= asked[req'[r].upload].declared
  BY <1>3 DEF CalmRequest, ManifestsFit, Declared
<1> QED BY <1>1, <1>2, <1>3 DEF ManifestsFit, Writes, Received, Declared

\* The steps that leave the manifests, and what is about to be written, alone.
Calm == UNCHANGED asked /\ (\A u \in Uploads : CalmDir(u)) /\ \A r \in Requests : CalmRequest(r)

\* A request goes to a step at which it does not write.
LEMMA CalmRecord ==
    ASSUME IInv, NEW r \in Requests, NEW new, new.step # "save manifest",
           req' = [req EXCEPT ![r] = new]
    PROVE  \A p \in Requests : CalmRequest(p)
<1>1. req'[r] = new /\ \A p \in Requests \ {r} : req'[p] = req[p]
  BY TypeFacts
<1> QED BY <1>1 DEF CalmRequest, Writes

LEMMA CalmGoto ==
    ASSUME IInv, NEW r \in Requests, NEW step, step # "save manifest",
           Goto(r, step) \/ Enter(r, step)
    PROVE  \A p \in Requests : CalmRequest(p)
<1>1. CASE Goto(r, step)
  <2>1. [req[r] EXCEPT !.step = step].step = step
    BY TypeFacts DEF Request
  <2> QED BY <1>1, <2>1, CalmRecord DEF Goto
<1>2. CASE Enter(r, step)
  <2>1. [Idle EXCEPT !.step = step, !.upload = Upload(r)].step = step
    BY IdleFacts DEF Request
  <2> QED BY <1>2, <2>1, CalmRecord DEF Enter
<1> QED BY <1>1, <1>2

LEMMA CalmEnd == ASSUME IInv, NEW r \in Requests, End(r) PROVE \A p \in Requests : CalmRequest(p)
BY IdleFacts, CalmRecord DEF End

\* A directory of one upload is replaced.
LEMMA CalmReplaced ==
    ASSUME IInv, NEW u \in Uploads, NEW d, disk' = [disk EXCEPT ![u] = d],
           d.manifest \in {NoParts, disk[u].manifest},
           d.state = "none" => d.manifest = NoParts \/ disk[u].state = "none"
    PROVE  \A w \in Uploads : CalmDir(w)
<1>1. disk'[u] = d /\ \A w \in Uploads \ {u} : disk'[w] = disk[w]
  BY TypeFacts DEF StateTyped
<1> QED BY <1>1 DEF CalmDir

LEMMA CalmSame == ASSUME UNCHANGED disk PROVE \A u \in Uploads : CalmDir(u)
BY DEF CalmDir

LEMMA CalmTemps ==
    ASSUME IInv, NEW r \in Requests, ~At(r, "idle"), AddTemp(r) \/ DropTemp(r)
    PROVE  \A u \in Uploads : CalmDir(u)
<1> PICK u \in Uploads : u = Upload(r)
  BY RequestFacts
<1> PICK temps : disk' = [disk EXCEPT ![u].temps = temps]
  BY DEF AddTemp, DropTemp
<1> DEFINE d == [disk[u] EXCEPT !.temps = temps]
<1>1. d.manifest = disk[u].manifest /\ d.state = disk[u].state /\ disk' = [disk EXCEPT ![u] = d]
  BY TypeFacts DEF StateTyped, Dir
<1> HIDE DEF d
<1> QED BY <1>1, CalmReplaced

LEMMA CalmCreate == ASSUME IInv, NEW r \in Requests, Create(r) PROVE Calm
<1>0. ~At(r, "idle") /\ UNCHANGED asked
  BY DEF Create, MakeDir, SaveFirstManifest, FailFirstManifest, InsertRow, Recheck, UndoRow, At
<1>1. Goto(r, "first manifest") \/ Goto(r, "insert") \/ Goto(r, "recheck") \/ Goto(r, "undo") \/ End(r)
  BY DEF Create, MakeDir, SaveFirstManifest, FailFirstManifest, InsertRow, Recheck, UndoRow, GotoIf
<1>2. \A p \in Requests : CalmRequest(p)
  BY <1>1, CalmGoto, CalmEnd
<1> PICK u \in Uploads : u = Upload(r)
  BY <1>0, RequestFacts
<1>3. \/ UNCHANGED disk \/ disk' = [disk EXCEPT ![u] = NoDir]
      \/ \E state \in {"made", "ready"} : disk' = [disk EXCEPT ![u].state = state]
  BY DEF Create, MakeDir, SaveFirstManifest, FailFirstManifest, InsertRow, Recheck, UndoRow
<1>4. ASSUME NEW state \in {"made", "ready"}, disk' = [disk EXCEPT ![u].state = state]
      PROVE  \A w \in Uploads : CalmDir(w)
  <2> DEFINE d == [disk[u] EXCEPT !.state = state]
  <2>1. d.manifest = disk[u].manifest /\ d.state # "none" /\ disk' = [disk EXCEPT ![u] = d]
    BY <1>4, TypeFacts DEF StateTyped, Dir
  <2> HIDE DEF d
  <2> QED BY <2>1, CalmReplaced
<1>5. ASSUME disk' = [disk EXCEPT ![u] = NoDir] PROVE \A w \in Uploads : CalmDir(w)
  BY <1>5, IdleFacts, CalmReplaced
<1>6. \A w \in Uploads : CalmDir(w)
  BY <1>3, <1>4, <1>5, CalmSame
<1> QED BY <1>0, <1>2, <1>6 DEF Calm

LEMMA CalmAuthorize == ASSUME IInv, NEW r \in Requests, Authorize(r) PROVE Calm
<1>1. UNCHANGED <<asked, disk>> /\ (Goto(r, FirstStep[req[r].step]) \/ End(r))
  BY DEF Authorize
<1>2. FirstStep[req[r].step] # "save manifest"
  BY StepFacts DEF Authorize
<1>3. \A p \in Requests : CalmRequest(p)
  BY <1>1, <1>2, CalmGoto, CalmEnd
<1> QED BY <1>1, <1>3, CalmSame DEF Calm

LEMMA CalmRemoval == ASSUME IInv, NEW r \in Requests, RemoveAll(r) PROVE Calm
<1>0. UNCHANGED asked
  BY DEF RemoveAll, ListDir, UnlinkManifest, UnlinkPart, UnlinkTemp, RemoveDir, FailRemoval
<1>1. CASE ListDir(r)
  <2> DEFINE new == [Idle EXCEPT !.step = Removing[req[r].step], !.upload = Upload(r),
                                 !.left = Entries(Upload(r))]
  <2>1. req' = [req EXCEPT ![r] = new] /\ UNCHANGED disk
    BY <1>1 DEF ListDir
  <2>2. new.step # "save manifest"
    BY <1>1, StepFacts, IdleFacts DEF ListDir, Request
  <2> HIDE DEF new
  <2>3. \A p \in Requests : CalmRequest(p)
    BY <2>1, <2>2, CalmRecord
  <2> QED BY <1>0, <2>1, <2>3, CalmSame DEF Calm
<1>2. CASE req[r].step \in DOMAIN Removed
  <2>0. ~At(r, "idle") /\ Removed[req[r].step] # "save manifest" /\ req[r].step # "save manifest"
    BY <1>2, StepFacts DEF At
  <2> PICK u \in Uploads : u = Upload(r)
    BY <2>0, RequestFacts
  <2>1. ASSUME NEW l, req' = [req EXCEPT ![r].left = l]
        PROVE  \A p \in Requests : CalmRequest(p)
    <3> DEFINE new == [req[r] EXCEPT !.left = l]
    <3>1. new.step = req[r].step /\ req' = [req EXCEPT ![r] = new]
      BY <2>1, TypeFacts DEF Request
    <3> HIDE DEF new
    <3> QED BY <2>0, <3>1, CalmRecord
  <2>2. CASE UnlinkManifest(r)
    <3> DEFINE d == [disk[u] EXCEPT !.manifest = NoParts,
                                    !.state = IF HasDir(u) THEN "made" ELSE "none"]
    <3>1. d.manifest = NoParts
      BY TypeFacts DEF StateTyped, Dir
    <3>2. disk' = [disk EXCEPT ![u] = d]
      BY <2>2 DEF UnlinkManifest
    <3> HIDE DEF d
    <3>3. \A p \in Requests : CalmRequest(p)
      BY <2>1, <2>2 DEF UnlinkManifest
    <3> QED BY <1>0, <3>1, <3>2, <3>3, CalmReplaced DEF Calm
  <2>3. ASSUME NEW n, UnlinkPart(r, n) PROVE Calm
    <3> PICK parts : disk' = [disk EXCEPT ![u].parts = parts]
      BY <2>3 DEF UnlinkPart
    <3> DEFINE d == [disk[u] EXCEPT !.parts = parts]
    <3>1. d.manifest = disk[u].manifest /\ d.state = disk[u].state /\ disk' = [disk EXCEPT ![u] = d]
      BY TypeFacts DEF StateTyped, Dir
    <3> HIDE DEF d
    <3>2. \A p \in Requests : CalmRequest(p)
      BY <2>1, <2>3 DEF UnlinkPart
    <3> QED BY <1>0, <3>1, <3>2, CalmReplaced DEF Calm
  <2>4. ASSUME NEW o, UnlinkTemp(r, o) PROVE Calm
    <3> PICK temps : disk' = [disk EXCEPT ![u].temps = temps]
      BY <2>4 DEF UnlinkTemp
    <3> DEFINE d == [disk[u] EXCEPT !.temps = temps]
    <3>1. d.manifest = disk[u].manifest /\ d.state = disk[u].state /\ disk' = [disk EXCEPT ![u] = d]
      BY TypeFacts DEF StateTyped, Dir
    <3> HIDE DEF d
    <3>2. \A p \in Requests : CalmRequest(p)
      BY <2>1, <2>4 DEF UnlinkTemp
    <3> QED BY <1>0, <3>1, <3>2, CalmReplaced DEF Calm
  <2>5. CASE RemoveDir(r) \/ FailRemoval(r)
    <3>1. Enter(r, Removed[req[r].step]) /\ (UNCHANGED disk \/ disk' = [disk EXCEPT ![u] = NoDir])
      BY <2>5 DEF RemoveDir, FailRemoval
    <3>2. \A p \in Requests : CalmRequest(p)
      BY <2>0, <3>1, CalmGoto
    <3>3. \A w \in Uploads : CalmDir(w)
      BY <3>1, IdleFacts, CalmSame, CalmReplaced
    <3> QED BY <1>0, <3>2, <3>3 DEF Calm
  <2> QED BY <1>1, <2>2, <2>3, <2>4, <2>5 DEF RemoveAll
<1>3. CASE req[r].step \notin DOMAIN Removed
  BY <1>1, <1>3 DEF RemoveAll, UnlinkManifest, UnlinkPart, UnlinkTemp, RemoveDir, FailRemoval
<1> QED BY <1>2, <1>3

LEMMA CalmComplete ==
    ASSUME IInv, NEW r \in Requests, CompleteUpload(r) \/ MarkCanceled(r) PROVE Calm
<1>0. UNCHANGED asked
  BY DEF CompleteUpload, ReadForComplete, Verify, CreateFinal, AssemblePart, CheckSize,
         FailComplete, Link, Unlink, MarkCompleted, MarkCanceled
<1>1. CASE Verify(r) \/ Link(r) \/ MarkCompleted(r) \/ MarkCanceled(r)
  <2>1. /\ UNCHANGED disk
        /\ Goto(r, "create final") \/ Enter(r, "unlink") \/ End(r)
    BY <1>1 DEF Verify, Link, MarkCompleted, MarkCanceled, GotoIf
  <2>2. \A p \in Requests : CalmRequest(p)
    BY <2>1, CalmGoto, CalmEnd
  <2> QED BY <1>0, <2>1, <2>2, CalmSame DEF Calm
<1>2. CASE CreateFinal(r) \/ FailComplete(r) \/ Unlink(r)
  <2>1. /\ ~At(r, "idle") /\ (AddTemp(r) \/ DropTemp(r))
        /\ Goto(r, "assemble") \/ Goto(r, "clean") \/ End(r)
    BY <1>2 DEF CreateFinal, FailComplete, Unlink, GotoIf, At
  <2>2. \A p \in Requests : CalmRequest(p)
    BY <2>1, CalmGoto, CalmEnd
  <2> QED BY <1>0, <2>1, <2>2, CalmTemps DEF Calm
<1>3. CASE ReadForComplete(r)
  <2>1. UNCHANGED disk
    BY <1>3 DEF ReadForComplete
  <2>2. CASE End(r)
    BY <1>0, <2>1, <2>2, CalmEnd, CalmSame DEF Calm
  <2>3. CASE ~End(r)
    <3> DEFINE new == [req[r] EXCEPT !.step = "verify", !.seen = disk[Upload(r)].manifest]
    <3>1. req' = [req EXCEPT ![r] = new]
      BY <1>3, <2>3 DEF ReadForComplete
    <3>2. new.step # "save manifest"
      BY TypeFacts DEF Request
    <3> HIDE DEF new
    <3> QED BY <1>0, <2>1, <3>1, <3>2, CalmRecord, CalmSame DEF Calm
  <2> QED BY <2>2, <2>3
<1>4. CASE AssemblePart(r)
  <2>1. UNCHANGED disk /\ req[r].step = "assemble"
    BY <1>4 DEF AssemblePart, At
  <2> PICK n, w : req' = [req EXCEPT ![r] = [req[r] EXCEPT !.next = n, !.written = w]]
    BY <1>4 DEF AssemblePart
  <2> DEFINE new == [req[r] EXCEPT !.next = n, !.written = w]
  <2>2. req' = [req EXCEPT ![r] = new] /\ new.step # "save manifest"
    BY <2>1, TypeFacts DEF Request
  <2> HIDE DEF new
  <2> QED BY <1>0, <2>1, <2>2, CalmRecord, CalmSame DEF Calm
<1>5. CASE CheckSize(r)
  <2> DEFINE new == [Idle EXCEPT !.step = "link", !.upload = Upload(r), !.written = req[r].written]
  <2>1. UNCHANGED disk /\ req' = [req EXCEPT ![r] = new]
    BY <1>5 DEF CheckSize
  <2>2. new.step # "save manifest"
    BY IdleFacts DEF Request
  <2> HIDE DEF new
  <2> QED BY <1>0, <2>1, <2>2, CalmRecord, CalmSame DEF Calm
<1> QED BY <1>1, <1>2, <1>3, <1>4, <1>5 DEF CompleteUpload

LEMMA CalmWrite ==
    ASSUME IInv, NEW r \in Requests,
           ReadForPart(r) \/ ReceivePart(r) \/ FailPart(r) \/ AcceptPart(r)
    PROVE  Calm
<1>0. UNCHANGED asked
  BY DEF ReadForPart, ReceivePart, FailPart, AcceptPart
<1>1. CASE ReceivePart(r) \/ FailPart(r)
  <2>1. /\ ~At(r, "idle") /\ (AddTemp(r) \/ DropTemp(r)) /\ (Goto(r, "store part") \/ End(r))
    BY <1>1 DEF ReceivePart, FailPart, At
  <2>2. \A p \in Requests : CalmRequest(p)
    BY <2>1, CalmGoto, CalmEnd
  <2> QED BY <1>0, <2>1, <2>2, CalmTemps DEF Calm
<1>2. CASE AcceptPart(r)
  <2>1. UNCHANGED disk /\ End(r)
    BY <1>2 DEF AcceptPart
  <2> QED BY <1>0, <2>1, CalmEnd, CalmSame DEF Calm
<1>3. CASE ReadForPart(r)
  <2>1. UNCHANGED disk
    BY <1>3 DEF ReadForPart
  <2>2. CASE End(r)
    BY <1>0, <2>1, <2>2, CalmEnd, CalmSame DEF Calm
  <2>3. CASE ~End(r)
    <3> DEFINE new == [req[r] EXCEPT !.step = "receive part", !.seen = disk[Upload(r)].manifest]
    <3>1. req' = [req EXCEPT ![r] = new]
      BY <1>3, <2>3 DEF ReadForPart
    <3>2. new.step # "save manifest"
      BY TypeFacts DEF Request
    <3> HIDE DEF new
    <3> QED BY <1>0, <2>1, <3>1, <3>2, CalmRecord, CalmSame DEF Calm
  <2> QED BY <2>2, <2>3
<1> QED BY <1>1, <1>2, <1>3

LEMMA CalmOthers ==
    ASSUME IInv, \/ Expire \/ Environment \/ Crash \/ UNCHANGED vars
                 \/ \E r \in Requests, u \in Uploads, wait \in DOMAIN FirstStep : LoadUpload(r, u, wait)
    PROVE  Calm
<1>1. UNCHANGED asked
  BY DEF Expire, Environment, Crash, vars, LoadUpload, Lapse, OthersCreate, OthersRemove, Revoke,
         WriteBackMode, Regrant, DeleteMount, Reverify
<1>2. CASE Expire \/ Environment \/ UNCHANGED vars
  <2>1. UNCHANGED <<disk, req>>
    BY <1>2 DEF Expire, Environment, vars, Lapse, OthersCreate, OthersRemove, Revoke,
                WriteBackMode, Regrant, DeleteMount, Reverify
  <2> QED BY <1>1, <2>1, CalmSame DEF Calm, CalmRequest
<1>3. CASE Crash
  <2>1. \A p \in Requests : CalmRequest(p)
    BY <1>3, IdleFacts DEF Crash, CalmRequest, Writes
  <2>2. ASSUME NEW u \in Uploads PROVE CalmDir(u)
    <3>1. disk'[u] = [disk[u] EXCEPT !.temps = {}]
      BY <1>3 DEF Crash
    <3>2. disk'[u].manifest = disk[u].manifest /\ disk'[u].state = disk[u].state
      BY <3>1, TypeFacts DEF StateTyped, Dir
    <3> QED BY <3>2 DEF CalmDir
  <2> QED BY <1>1, <2>1, <2>2 DEF Calm
<1>4. ASSUME NEW r \in Requests, NEW u \in Uploads, NEW wait \in DOMAIN FirstStep,
             LoadUpload(r, u, wait)
      PROVE  Calm
  <2> DEFINE new == [Idle EXCEPT !.step = wait, !.upload = u]
  <2>1. req' = [req EXCEPT ![r] = new] /\ UNCHANGED disk
    BY <1>4 DEF LoadUpload
  <2>2. new.step # "save manifest"
    BY StepFacts, IdleFacts DEF Request
  <2> HIDE DEF new
  <2> QED BY <1>1, <2>1, <2>2, CalmRecord, CalmSame DEF Calm
<1> QED BY <1>2, <1>3, <1>4

\* The three other steps: the declared size is fixed before there is anything
\* to hold against it, a part is checked, and a checked manifest is written.
LEMMA CreateFits ==
    ASSUME IInv, ManifestsFit, NEW r \in Requests, NEW u \in Uploads, NEW t \in Targets,
           NEW d \in Sizes, StartCreate(r, u, t, d)
    PROVE  ManifestsFit'
<1>1. /\ UNCHANGED disk /\ disk[u].state = "none" /\ \A p \in Requests : req[p].upload # u
      /\ asked'[u].declared = d /\ \A w \in Uploads \ {u} : asked'[w] = asked[w]
  BY TypeFacts DEF StartCreate, Unused, HasDir, Upload
<1>2. req'[r].step = "mkdir" /\ \A p \in Requests \ {r} : req'[p] = req[p]
  BY TypeFacts, IdleFacts DEF StartCreate, Request
<1>3. ASSUME NEW w \in Uploads PROVE Received(disk[w].manifest) <= asked'[w].declared
  <2>1. CASE w = u
    BY <1>1, <2>1, ReceivedFacts DEF ManifestsFit, Sizes
  <2>2. CASE w # u
    BY <1>1, <2>2 DEF ManifestsFit, ManifestWithinDeclared, Declared
  <2> QED BY <2>1, <2>2
<1>4. ASSUME NEW p \in Requests, Writes(req'[p])
      PROVE  Received(req'[p].seen) <= asked'[req'[p].upload].declared
  <2>1. p # r /\ req'[p] = req[p] /\ ~At(p, "idle")
    BY <1>2, <1>4 DEF Writes, At
  <2>2. req[p].upload \in Uploads \ {u}
    BY <1>1, <2>1, RequestFacts DEF Upload
  <2> QED BY <1>1, <1>4, <2>1, <2>2 DEF ManifestsFit, Declared
<1> QED BY <1>1, <1>3, <1>4
        DEF ManifestsFit, ManifestWithinDeclared, Writes, Received, Declared

LEMMA StoreFits ==
    ASSUME IInv, ManifestsFit, NEW r \in Requests, NEW n \in Parts, NEW s \in Sizes,
           StorePart(r, n, s)
    PROVE  ManifestsFit'
<1>0. UNCHANGED asked /\ ~At(r, "idle") /\ Fits(req[r].seen, n, s, Declared(Upload(r)))
  BY DEF StorePart, At
<1> PICK u \in Uploads : u = Upload(r)
  BY <1>0, RequestFacts
<1> DEFINE parts == WithPart(disk[u].parts, n, s)
           d == [disk[u] EXCEPT !.parts = parts, !.temps = disk[u].temps \ {r}]
           seen == WithPart(req[r].seen, n, s)
           new == [req[r] EXCEPT !.step = "save manifest", !.number = n, !.seen = seen]
<1>1. disk' = [disk EXCEPT ![u] = d] /\ req' = [req EXCEPT ![r] = new]
  BY DEF StorePart
<1>2. req[r].seen \in PartSizes /\ Declared(u) \in Nat
  BY TypeFacts DEF Request, Declared, Asked, Sizes
<1>3. Received(seen) <= Declared(u)
  BY <1>0, <1>2, ReceivedFacts
<1> HIDE DEF parts, seen
<1>4. d.manifest = disk[u].manifest /\ d.state = disk[u].state
  BY TypeFacts DEF StateTyped, Dir
<1>5. new.seen = seen /\ new.upload = u
  BY TypeFacts DEF Request, Upload
<1> HIDE DEF d, new
<1>6. disk'[u] = d /\ \A w \in Uploads \ {u} : disk'[w] = disk[w]
  BY <1>1, TypeFacts DEF StateTyped
<1>7. req'[r] = new /\ \A p \in Requests \ {r} : req'[p] = req[p]
  BY <1>1, TypeFacts
<1>8. \A w \in Uploads : disk'[w].manifest = disk[w].manifest /\ disk'[w].state = disk[w].state
  BY <1>4, <1>6
<1>9. ASSUME NEW p \in Requests, Writes(req'[p])
      PROVE  Received(req'[p].seen) <= asked[req'[p].upload].declared
  <2>1. CASE p = r
    BY <1>3, <1>5, <1>7, <2>1 DEF Declared
  <2>2. CASE p # r
    BY <1>7, <1>9, <2>2 DEF ManifestsFit, Declared
  <2> QED BY <2>1, <2>2
<1> QED BY <1>0, <1>8, <1>9 DEF ManifestsFit, ManifestWithinDeclared, Writes, Received, Declared

LEMMA SaveFits ==
    ASSUME IInv, ManifestsFit, NEW r \in Requests, SaveManifest(r) PROVE ManifestsFit'
<1>0. UNCHANGED asked /\ ~At(r, "idle") /\ Writes(req[r])
  BY DEF SaveManifest, At, Writes
<1> PICK u \in Uploads : u = Upload(r)
  BY <1>0, RequestFacts
<1> DEFINE d == [disk[u] EXCEPT !.state = "ready", !.manifest = req[r].seen]
           new == [req[r] EXCEPT !.step = "accept", !.seen = NoParts]
<1>1. disk' = [disk EXCEPT ![u] = d] /\ req' = [req EXCEPT ![r] = new]
  BY DEF SaveManifest
<1>2. d.manifest = req[r].seen /\ d.state = "ready" /\ new.step = "accept"
  BY TypeFacts DEF StateTyped, Dir, Request
<1> HIDE DEF d, new
<1>3. disk'[u] = d /\ \A w \in Uploads \ {u} : disk'[w] = disk[w]
  BY <1>1, TypeFacts DEF StateTyped
<1>4. \A p \in Requests : CalmRequest(p)
  BY <1>1, <1>2, CalmRecord
<1>5. ASSUME NEW w \in Uploads PROVE Received(disk'[w].manifest) <= asked[w].declared
  <2>1. CASE w = u
    BY <1>0, <1>2, <1>3, <2>1 DEF ManifestsFit, Declared, Upload
  <2>2. CASE w # u
    BY <1>3, <2>2 DEF ManifestsFit, ManifestWithinDeclared, Declared
  <2> QED BY <2>1, <2>2
<1>6. \A w \in Uploads : disk'[w].state = "none" => disk'[w].manifest = NoParts
  BY <1>2, <1>3 DEF ManifestsFit
<1>7. ASSUME NEW p \in Requests, Writes(req'[p])
      PROVE  Received(req'[p].seen) <= asked[req'[p].upload].declared
  BY <1>4, <1>7 DEF CalmRequest, ManifestsFit, Declared
<1> QED BY <1>0, <1>5, <1>6, <1>7
        DEF ManifestsFit, ManifestWithinDeclared, Writes, Received, Declared

LEMMA FitsStep == IInv /\ ManifestsFit /\ [Next]_vars => ManifestsFit'
<1> SUFFICES ASSUME IInv, ManifestsFit, [Next]_vars PROVE ManifestsFit'
  OBVIOUS
<1>1. CASE Calm
  BY <1>1, TypeFacts, CalmStep DEF Calm
<1>2. ASSUME NEW r \in Requests, Start(r) \/ Advance(r) PROVE ManifestsFit'
  <2>1. CASE \E u \in Uploads, t \in Targets, d \in Sizes : StartCreate(r, u, t, d)
    BY <2>1, CreateFits
  <2>2. CASE \E u \in Uploads, wait \in DOMAIN FirstStep : LoadUpload(r, u, wait)
    BY <1>1, <2>2, CalmOthers
  <2>3. CASE Create(r) \/ Authorize(r) \/ CompleteUpload(r) \/ MarkCanceled(r) \/ RemoveAll(r)
    BY <1>1, <2>3, CalmCreate, CalmAuthorize, CalmComplete, CalmRemoval
  <2>4. CASE WritePart(r)
    BY <1>1, <2>4, CalmWrite, StoreFits, SaveFits DEF WritePart
  <2> QED BY <1>2, <2>1, <2>2, <2>3, <2>4 DEF Start, Advance
<1>3. CASE Expire \/ Environment \/ Crash \/ UNCHANGED vars
  BY <1>1, <1>3, CalmOthers
<1> QED BY <1>2, <1>3 DEF Next

\* However requests interleave, a stored manifest never accounts for more than
\* the declared size, for any number of parts.
THEOREM ManifestsAddUp == Spec => []ManifestWithinDeclared
<1>1. Init => ManifestsFit
  <2> SUFFICES ASSUME Init PROVE ManifestsFit
    OBVIOUS
  <2>1. \A u \in Uploads : disk[u].manifest = NoParts /\ Declared(u) = 0
    BY DEF Init, NoDir, Declared
  <2>2. \A r \in Requests : ~Writes(req[r])
    BY IdleFacts DEF Init, Writes
  <2> QED BY <2>1, <2>2, ReceivedFacts DEF ManifestsFit, ManifestWithinDeclared
<1>2. ManifestsFit => ManifestWithinDeclared
  BY DEF ManifestsFit
<1> QED BY <1>1, <1>2, FitsStep, UploadsInductive, PTL DEF Spec
=============================================================================
