------------------------ MODULE ShareContractProofs ------------------------
(***************************************************************************)
(* What follows from the promise of share links, for any number of links.  *)
(***************************************************************************)
EXTENDS ShareContract, TLAPS

\* A link that is not there yet was not used: without this, planning its
\* limits anew could put them below the uses.
UnusedWhenAbsent == \A s \in Shares : status[s] = "absent" => uses[s] = NoUses

ContractInv == TypeOK /\ WithinLimits /\ UnusedWhenAbsent

LEMMA ContractInvInit == ASSUME MaxUses \in Nat, Init PROVE ContractInv
BY DEF Init, ContractInv, TypeOK, WithinLimits, UnusedWhenAbsent, NoUses, Counts

LEMMA PlanInv ==
    ASSUME MaxUses \in Nat, ContractInv, NEW s \in Shares, NEW limit \in Counts, Plan(s, limit)
    PROVE  ContractInv'
<1>1. TypeOK'
  BY DEF ContractInv, TypeOK, Plan
<1>2. WithinLimits'
  <2> SUFFICES ASSUME NEW t \in Shares
               PROVE  uses'[t].visits <= limits'[t].visits /\ uses'[t].downloads <= limits'[t].downloads
    BY DEF WithinLimits
  <2>1. CASE t = s
    <3>1. uses'[t] = NoUses /\ limits'[t] = limit
      BY <2>1 DEF ContractInv, TypeOK, UnusedWhenAbsent, Plan
    <3> QED BY <3>1 DEF NoUses, Counts
  <2>2. CASE t # s
    BY <2>2 DEF ContractInv, TypeOK, WithinLimits, Plan
  <2> QED BY <2>1, <2>2
<1>3. UnusedWhenAbsent'
  BY DEF ContractInv, UnusedWhenAbsent, Plan
<1> QED BY <1>1, <1>2, <1>3 DEF ContractInv

LEMMA UseInv ==
    ASSUME MaxUses \in Nat, ContractInv, NEW s \in Shares, Visit(s) \/ Download(s)
    PROVE  ContractInv'
<1>1. uses[s] \in Counts /\ limits[s] \in Counts /\ uses \in [Shares -> Counts]
  BY DEF ContractInv, TypeOK
<1>2. \A t \in Shares \ {s} : uses'[t] = uses[t]
  BY <1>1 DEF Visit, Download
<1>3. /\ uses'[s] \in Counts
      /\ uses'[s].visits <= limits[s].visits /\ uses'[s].downloads <= limits[s].downloads
  <2>1. uses[s].visits <= limits[s].visits /\ uses[s].downloads <= limits[s].downloads
    BY DEF ContractInv, WithinLimits
  <2>2. CASE Visit(s)
    <3>1. uses'[s] = [uses[s] EXCEPT !.visits = @ + 1] /\ uses[s].visits < limits[s].visits
      BY <1>1, <2>2 DEF Visit
    <3> QED BY <1>1, <2>1, <3>1 DEF Counts
  <2>3. CASE Download(s)
    <3>1. uses'[s] = [uses[s] EXCEPT !.downloads = @ + 1] /\ uses[s].downloads < limits[s].downloads
      BY <1>1, <2>3 DEF Download
    <3> QED BY <1>1, <2>1, <3>1 DEF Counts
  <2> QED BY <2>2, <2>3
<1>4. UNCHANGED <<status, limits>> /\ status[s] = "open" /\ DOMAIN uses' = Shares
  BY <1>1 DEF Visit, Download
<1>5. uses' \in [Shares -> Counts]
  <2>1. uses' = [t \in Shares |-> uses'[t]]
    BY <1>1 DEF Visit, Download
  <2> QED BY <1>1, <1>2, <1>3, <2>1
<1>6. TypeOK'
  BY <1>4, <1>5 DEF ContractInv, TypeOK
<1>7. WithinLimits'
  BY <1>2, <1>3, <1>4 DEF ContractInv, WithinLimits
<1>8. UnusedWhenAbsent'
  BY <1>2, <1>4 DEF ContractInv, UnusedWhenAbsent
<1> QED BY <1>6, <1>7, <1>8 DEF ContractInv

LEMMA ContractInvNext == ASSUME MaxUses \in Nat, ContractInv, [Next]_vars PROVE ContractInv'
<1>1. CASE UNCHANGED vars
  BY <1>1 DEF vars, ContractInv, TypeOK, WithinLimits, UnusedWhenAbsent
<1>2. ASSUME NEW s \in Shares, NEW limit \in Counts, Plan(s, limit) PROVE ContractInv'
  BY <1>2, PlanInv
<1>3. ASSUME NEW s \in Shares, Create(s) PROVE ContractInv'
  BY <1>3 DEF Create, ContractInv, TypeOK, WithinLimits, UnusedWhenAbsent
<1>4. ASSUME NEW s \in Shares, Visit(s) \/ Download(s) PROVE ContractInv'
  BY <1>4, UseInv
<1>5. ASSUME NEW which \in SUBSET Shares, Close(which) PROVE ContractInv'
  BY <1>5 DEF Close, ContractInv, TypeOK, WithinLimits, UnusedWhenAbsent
<1> QED BY <1>1, <1>2, <1>3, <1>4, <1>5 DEF Next

\* For any number of links and any limits, a link is never used more often
\* than its limits say.
THEOREM LinksWithinLimits == ASSUME MaxUses \in Nat PROVE Spec => []WithinLimits
<1>1. Init => ContractInv
  BY ContractInvInit
<1>2. ContractInv /\ [Next]_vars => ContractInv'
  BY ContractInvNext
<1>3. ContractInv => WithinLimits
  BY DEF ContractInv
<1> QED BY <1>1, <1>2, <1>3, PTL DEF Spec

LEMMA ClosedStep ==
    ASSUME MaxUses \in Nat, TypeOK, [Next]_vars, NEW s \in Shares, status[s] = "closed"
    PROVE  status'[s] = "closed" /\ uses'[s] = uses[s]
<1>1. CASE UNCHANGED vars
  BY <1>1 DEF vars
<1>2. ASSUME NEW t \in Shares, NEW limit \in Counts, Plan(t, limit) PROVE UNCHANGED <<status, uses>>
  BY <1>2 DEF Plan
<1>3. ASSUME NEW t \in Shares, Create(t) PROVE status'[s] = status[s] /\ UNCHANGED uses
  BY <1>3 DEF Create, TypeOK
<1>4. ASSUME NEW t \in Shares, Visit(t) \/ Download(t) PROVE UNCHANGED status /\ uses'[s] = uses[s]
  BY <1>4 DEF Visit, Download, TypeOK
<1>5. ASSUME NEW which \in SUBSET Shares, Close(which) PROVE status'[s] = status[s] /\ UNCHANGED uses
  BY <1>5 DEF Close, TypeOK
<1> QED BY <1>1, <1>2, <1>3, <1>4, <1>5 DEF Next

\* A closed link stays closed, and its counters never change again.
THEOREM LinksClosedForGood == ASSUME MaxUses \in Nat PROVE Spec => ClosedForGood
<1>1. Init => ContractInv
  BY ContractInvInit
<1>2. ContractInv /\ [Next]_vars => ContractInv'
  BY ContractInvNext
<1>3. ContractInv /\ [Next]_vars =>
        [\A s \in Shares : status[s] = "closed" =>
            status'[s] = "closed" /\ uses'[s] = uses[s]]_vars
  BY ClosedStep DEF ContractInv
<1> QED BY <1>1, <1>2, <1>3, PTL DEF Spec, ClosedForGood
=============================================================================
