--------------------------- MODULE ShareContract ---------------------------
(***************************************************************************)
(* What the share links promise: a link that has been closed stays closed, *)
(* only an open link is visited or downloaded from, and never more often   *)
(* than its limits say, however many visitors use it at the same time.     *)
(***************************************************************************)
EXTENDS Naturals

CONSTANTS
    Shares,     \* share links
    MaxUses     \* the largest limit

VARIABLES
    status,     \* absent, open or closed
    limits,     \* the limits on visits and downloads given at the creation
    uses        \* visits and downloads so far

vars == <<status, limits, uses>>

Counts == [visits : 0 .. MaxUses, downloads : 0 .. MaxUses]
NoUses == [visits |-> 0, downloads |-> 0]

Init ==
    /\ status = [s \in Shares |-> "absent"]
    /\ limits = [s \in Shares |-> NoUses]
    /\ uses = [s \in Shares |-> NoUses]

\* The limits of a link are chosen before the link is there.
Plan(s, limit) ==
    /\ status[s] = "absent"
    /\ limits' = [limits EXCEPT ![s] = limit]
    /\ UNCHANGED <<status, uses>>

\* A link may come too late: its time is over when it is inserted.
Create(s) ==
    /\ status[s] = "absent"
    /\ \E new \in {"open", "closed"} : status' = [status EXCEPT ![s] = new]
    /\ UNCHANGED <<limits, uses>>

Visit(s) ==
    /\ status[s] = "open"
    /\ uses[s].visits < limits[s].visits
    /\ uses' = [uses EXCEPT ![s].visits = @ + 1]
    /\ UNCHANGED <<status, limits>>

Download(s) ==
    /\ status[s] = "open"
    /\ uses[s].downloads < limits[s].downloads
    /\ uses' = [uses EXCEPT ![s].downloads = @ + 1]
    /\ UNCHANGED <<status, limits>>

\* Links are closed by people and by the passing of time, several at once.
Close(which) ==
    /\ status' = [s \in Shares |-> IF s \in which /\ status[s] = "open" THEN "closed" ELSE status[s]]
    /\ UNCHANGED <<limits, uses>>

Next ==
    \/ \E s \in Shares :
        \/ \E limit \in Counts : Plan(s, limit)
        \/ Create(s) \/ Visit(s) \/ Download(s)
    \/ \E which \in SUBSET Shares : Close(which)

Spec == Init /\ [][Next]_vars

-----------------------------------------------------------------------------
TypeOK ==
    /\ status \in [Shares -> {"absent", "open", "closed"}]
    /\ limits \in [Shares -> Counts]
    /\ uses \in [Shares -> Counts]

\* A link is never used more often than its limits say.
WithinLimits ==
    \A s \in Shares :
        uses[s].visits <= limits[s].visits /\ uses[s].downloads <= limits[s].downloads

\* A closed link stays closed and is not used any more.
ClosedForGood ==
    [][\A s \in Shares : status[s] = "closed" =>
            status'[s] = "closed" /\ uses'[s] = uses[s]]_vars
=============================================================================
