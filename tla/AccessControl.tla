--------------------------- MODULE AccessControl ---------------------------
(***************************************************************************)
(* Who may do what in one space: internal/access and the endpoints of      *)
(* administrators that change accounts, memberships, grants and mounts.    *)
(*                                                                         *)
(* What a person may do with a mount is the lower of the membership in the *)
(* space and the explicit grant on the mount; the role of administrator    *)
(* gives no access.  Every endpoint is one transaction, which also cleans  *)
(* up what the change takes away from others: modules that extend this one *)
(* add that part to its actions.                                           *)
(***************************************************************************)
EXTENDS Naturals

CONSTANTS
    Accounts,   \* accounts
    Owner,      \* the first administrator, whose personal space this is
    Mounts      \* mounts of the space

ASSUME OwnerAssumption == Owner \in Accounts

VARIABLES
    account,    \* accounts.status ("none" before the account is created)
    member,     \* space_members.permission
    grant,      \* mount_account_grants.permission
    mount       \* mounts.status ("none" before the mount is registered) and
                \* mounts.allow_public_shares

access == <<account, member, grant, mount>>

Permissions == {"viewer", "editor", "manager"}
Held == Permissions \cup {"none"}

\* A system set up: nobody but the owner is a member.
AccessInit ==
    /\ account = [a \in Accounts |-> "active"]
    /\ member = [a \in Accounts |-> IF a = Owner THEN "manager" ELSE "none"]
    /\ grant = [m \in Mounts |-> [a \in Accounts |-> IF a = Owner THEN "manager" ELSE "none"]]
    /\ mount = [m \in Mounts |-> [status |-> "active", public |-> FALSE]]

\* The empty database, before initialization.
NoAccess ==
    /\ account = [a \in Accounts |-> "none"]
    /\ member = [a \in Accounts |-> "none"]
    /\ grant = [m \in Mounts |-> [a \in Accounts |-> "none"]]
    /\ mount = [m \in Mounts |-> [status |-> "none", public |-> FALSE]]

Exists(m) == mount[m].status \notin {"none", "deleted"}
IsMember(a) == member[a] # "none"

\* Authorize for read: any permission, and everything is active.
CanRead(a, m) ==
    /\ account[a] = "active"
    /\ IsMember(a)
    /\ grant[m][a] # "none"
    /\ mount[m].status = "active"

\* Authorize for manage_share, and the conditions that the statements on
\* shares repeat: both permissions are manager, everything is active and the
\* mount allows public shares.
CanShare(a, m) ==
    /\ account[a] = "active"
    /\ member[a] = "manager"
    /\ grant[m][a] = "manager"
    /\ mount[m].status = "active"
    /\ mount[m].public

-----------------------------------------------------------------------------
\* createAccountTx: an account and its personal space, which it manages.  The
\* space of this module is the owner's; everyone else's is another one.
AddAccount(a) ==
    /\ account[a] = "none"
    /\ account' = [account EXCEPT ![a] = "active"]
    /\ member' = [member EXCEPT ![a] = IF a = Owner THEN "manager" ELSE @]
    /\ UNCHANGED <<grant, mount>>

\* setAdminUserEnabled
SetUserEnabled(a, status) ==
    /\ account[a] # "none"
    /\ account' = [account EXCEPT ![a] = status]
    /\ UNCHANGED <<member, grant, mount>>

\* putAdminSpaceMember: an upsert, whatever the status of the account.
PutMember(a, permission) ==
    /\ account[a] # "none"
    /\ member' = [member EXCEPT ![a] = permission]
    /\ UNCHANGED <<account, grant, mount>>

\* Mutant of DeleteMember: the grants on the mounts of the space stay.
DeleteMemberOnly(a) ==
    /\ IsMember(a)
    /\ member' = [member EXCEPT ![a] = "none"]
    /\ UNCHANGED <<account, grant, mount>>

\* deleteAdminSpaceMember: rolled back when there is no membership.
DeleteMember(a) ==
    /\ IsMember(a)
    /\ member' = [member EXCEPT ![a] = "none"]
    /\ grant' = [m \in Mounts |-> [grant[m] EXCEPT ![a] = "none"]]
    /\ UNCHANGED <<account, mount>>

\* The INSERT ... SELECT of putAdminMountGrant finds an active member.
Grantable(m, a) == Exists(m) /\ account[a] = "active" /\ IsMember(a)

\* putAdminMountGrant: for anyone else a grant that exists is removed.
PutGrant(m, a, permission) ==
    /\ Exists(m)
    /\ grant' = [grant EXCEPT ![m][a] = IF Grantable(m, a) THEN permission ELSE "none"]
    /\ UNCHANGED <<account, member, mount>>

\* deleteAdminMountGrant
DeleteGrant(m, a) ==
    /\ Exists(m) /\ grant[m][a] # "none"
    /\ grant' = [grant EXCEPT ![m][a] = "none"]
    /\ UNCHANGED <<account, member, mount>>

\* ensureAutoMountGrant: at every start-up the first active administrator
\* with a personal space gets the grant on its mounts, revoked or not.
AutoGrant(m) ==
    /\ Exists(m) /\ account[Owner] = "active" /\ member[Owner] = "manager"
    /\ grant' = [grant EXCEPT ![m][Owner] = "manager"]
    /\ UNCHANGED <<account, member, mount>>

\* createMount: nobody gets a grant.
RegisterMount(m) ==
    /\ mount[m].status = "none"
    /\ mount' = [mount EXCEPT ![m].status = "active"]
    /\ UNCHANGED <<account, member, grant>>

\* autoRegisterDockerMounts, after initialization and at every start-up: a
\* root that is not registered yet, for the first active administrator.
AutoRegister(m) ==
    /\ mount[m].status = "none" /\ account[Owner] = "active" /\ member[Owner] = "manager"
    /\ mount' = [mount EXCEPT ![m].status = "active"]
    /\ grant' = [grant EXCEPT ![m][Owner] = "manager"]
    /\ UNCHANGED <<account, member>>

\* softDeleteMount
SoftDeleteMount(m) ==
    /\ Exists(m)
    /\ mount' = [mount EXCEPT ![m].status = "deleted"]
    /\ grant' = [grant EXCEPT ![m] = [a \in Accounts |-> "none"]]
    /\ UNCHANGED <<account, member>>

\* The UPDATE of renameMount writes every setting, as its request read or
\* changed them.
WriteSettings(m, public) ==
    /\ Exists(m)
    /\ mount' = [mount EXCEPT ![m].public = public]
    /\ UNCHANGED <<account, member, grant>>

\* markMountUnavailable: a request has found the root of the mount drifted.
MarkUnavailable(m) ==
    /\ mount' = [mount EXCEPT ![m].status = IF @ = "active" THEN "unavailable" ELSE @]
    /\ UNCHANGED <<account, member, grant>>

\* reverifyMount
ReverifyMount(m) ==
    /\ Exists(m)
    /\ mount' = [mount EXCEPT ![m].status = "active"]
    /\ UNCHANGED <<account, member, grant>>

-----------------------------------------------------------------------------
AccessTypeOK ==
    /\ account \in [Accounts -> {"none", "active", "disabled"}]
    /\ member \in [Accounts -> Held]
    /\ grant \in [Mounts -> [Accounts -> Held]]
    /\ mount \in [Mounts -> [status : {"none", "active", "unavailable", "deleted"},
                             public : BOOLEAN]]

\* No grant lies dormant: only members of the space hold grants and only on
\* mounts that exist, so that nobody who leaves the space and is taken in
\* again finds old grants in force.
NoDormantGrants ==
    \A m \in Mounts, a \in Accounts : grant[m][a] # "none" => IsMember(a) /\ Exists(m)
=============================================================================
