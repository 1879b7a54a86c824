----------------------------- MODULE Workspaces -----------------------------
(***************************************************************************)
(* One workspace, its members and its invitations (WorkspacesService).     *)
(*                                                                         *)
(* A request is served on a handler and cut at its awaits: req[h].at names *)
(* the database call it makes next.  What a request read before is what it *)
(* goes on with; a request that is refused leaves no trace and is no step. *)
(* developer and viewer, which nothing here tells apart, are "viewer".     *)
(***************************************************************************)
EXTENDS Naturals, FiniteSets, Sequences

CONSTANTS
  Users,      \* accounts with the role user
  Owner,      \* ownerId of the workspace
  Invites,    \* invitations that can be made
  Handlers,   \* requests served at a time
  TeamLimit,  \* subscription.teamMembersLimit || 1: no schema has the field
  MaxRows,    \* bound: member rows
  MaxAsks,    \* bound: requests of owners and admins in a behaviour
  MaxCrashes  \* bound

ASSUME WorkspaceAssumption ==
  /\ IsFiniteSet(Users) /\ Owner \in Users
  /\ TeamLimit \in Nat \ {0} /\ MaxRows \in Nat \ {0}
  /\ MaxAsks \in Nat /\ MaxCrashes \in Nat

VARIABLES
  active,    \* isActive
  members,   \* the roles in each user's rows, oldest first
  invites,   \* per invitation: state, email (of a user) and role
  req,       \* per handler
  asks, crashes,               \* bounds
  joins, twice, shared, raced, torn  \* history, see the properties

teamHistory == <<joins, twice, shared, raced, torn>>
team == <<active, members, invites>>

Roles == {"owner", "admin", "viewer"}
Rows == [Users -> Seq(Roles)]

\* A closed invitation is accepted, revoked or expired: it is found no more.
InviteStates == {"none", "open", "closed"}
InviteDocs == [state : InviteStates, email : Users, role : Roles]
Idle == [op |-> "idle"]
TeamOps == {"invite", "accept", "remove", "role", "revoke", "close"}
TeamSteps == {"count", "find", "create", "check", "save", "mark", "write"}

\* A request about no user in particular has the owner.
TeamRequests ==
  [op : TeamOps, at : TeamSteps, user : Users, inv : Invites \cup {"none"}, role : Roles,
   root : BOOLEAN, team : Nat]

WorkspaceInit(rows) ==
  /\ active = TRUE /\ members = rows
  /\ invites = [i \in Invites |-> [state |-> "none", email |-> Owner, role |-> "viewer"]]
  /\ req = [h \in Handlers |-> Idle] /\ asks = 0 /\ crashes = 0
  /\ joins = [i \in Invites |-> 0]
  /\ twice = {} /\ shared = {} /\ raced = {} /\ torn = {}

WorkspaceTypeOK ==
  /\ active \in BOOLEAN /\ members \in Rows
  /\ invites \in [Invites -> InviteDocs]
  /\ asks \in 0..MaxAsks /\ crashes \in 0..MaxCrashes
  /\ joins \in [Invites -> Nat]
  /\ twice \subseteq Users /\ raced \subseteq Users
  /\ shared \subseteq Invites /\ torn \subseteq Invites

-----------------------------------------------------------------------------
(* Members *)

IsIn(rows, u) == rows[u] # <<>>
Push(rows, u, role) == [rows EXCEPT ![u] = Append(@, role)]
Pull(rows, u) == [rows EXCEPT ![u] = <<>>]
Size(rows) == Cardinality(UNION {{u} \X DOMAIN rows[u] : u \in Users})

\* Array.find returns the first row, and $ names the first row that matches.
RoleIn(rows, u) == IF IsIn(rows, u) THEN rows[u][1] ELSE "none"
SetFirst(rows, u, role) == IF IsIn(rows, u) THEN [rows EXCEPT ![u][1] = role] ELSE rows

\* findOne and the role check: somebody may ask this.  The rows count, isActive
\* does not.  A super_admin may ask what the owner may.
Allowed(roles) == {by \in Users : RoleIn(members, by) \in roles} # {}
Managers == {"owner", "admin"}

Busy(h) == req[h] # Idle
At(h, op, step) == Busy(h) /\ req[h].op = op /\ req[h].at = step
Go(h, step) == req' = [req EXCEPT ![h].at = step]
End(h) == req' = [req EXCEPT ![h] = Idle]
Ask(h, super, op, step, u, i, role) ==
  /\ asks' = asks + 1
  /\ req' = [req EXCEPT ![h] =
       [op |-> op, at |-> step, user |-> u, inv |-> i, role |-> role,
        root |-> super,
        team |-> IF op = "invite" THEN Size(members) ELSE 0]]
  /\ UNCHANGED <<team, teamHistory, crashes>>

-----------------------------------------------------------------------------
(* Invitations *)

Open(i) == invites[i].state = "open"
Pending == {i \in Invites : Open(i)}
NoInvite == "none"
Others(h, op, step) == {g \in Handlers \ {h} : At(g, op, step)}

\* invite(): the copy of the workspace read here gives the number of members
\* and says who is one.  The owner is taken to be on the Enterprise plan.
Invite(h, super, email, role) ==
  /\ Allowed(Managers) /\ ~IsIn(members, email)
  /\ Ask(h, super, "invite", "count", email, NoInvite, role)

\* The open invitations are counted; a super_admin is exempt from the limit.
WithinTeam(h) == req[h].root \/ req[h].team + Cardinality(Pending) < TeamLimit
CountInvites(h) ==
  /\ At(h, "invite", "count")
  /\ IF WithinTeam(h) THEN Go(h, "find") ELSE End(h)
  /\ UNCHANGED <<team, joins, twice, shared, raced, torn, asks, crashes>>

\* Mutant: nobody looks.
SkipFind(h) ==
  /\ At(h, "invite", "find") /\ Go(h, "create")
  /\ UNCHANGED <<team, teamHistory, asks, crashes>>

FindInvite(h) ==
  /\ At(h, "invite", "find")
  /\ IF \E i \in Pending : invites[i].email = req[h].user THEN End(h) ELSE Go(h, "create")
  /\ UNCHANGED <<team, teamHistory, asks, crashes>>

\* history raced: addresses two requests had both found without an invitation.
CreateInvite(h, i) ==
  /\ At(h, "invite", "create") /\ invites[i].state = "none"
  /\ invites' = [invites EXCEPT ![i] =
       [state |-> "open", email |-> req[h].user, role |-> req[h].role]]
  /\ raced' = raced \cup ({req[g].user : g \in Others(h, "invite", "create")}
                          \cap {req[h].user})
  /\ End(h)
  /\ UNCHANGED <<active, members, joins, twice, shared, torn, asks, crashes>>

\* An invitation is found by its token, which any user may bring, or by its
\* code, which only the address invited may use.
MayUse(i, u, byCode) == Open(i) /\ (byCode => invites[i].email = u)
Accepting(g, i) == Busy(g) /\ req[g].op = "accept" /\ req[g].inv = i

\* history shared: invitations two accepts use at once.
Accept(h, u, i) ==
  /\ \E byCode \in BOOLEAN : MayUse(i, u, byCode)
  /\ req' = [req EXCEPT ![h] =
       [op |-> "accept", at |-> "check", user |-> u, inv |-> i,
        role |-> invites[i].role, root |-> FALSE, team |-> 0]]
  /\ shared' = shared \cup {req[g].inv : g \in {g \in Handlers : Accepting(g, i)}}
  /\ UNCHANGED <<team, joins, twice, raced, torn, asks, crashes>>

\* Mutant: a member may join once more.
AnyoneJoins(u) == TRUE
MayJoin(u) == ~IsIn(members, u)

\* processAcceptInvite: the workspace is read, closed or not.  history twice:
\* users with two accepts past this point at once.
CheckMember(h) ==
  /\ At(h, "accept", "check")
  /\ IF MayJoin(req[h].user)
     THEN /\ Go(h, "save")
          /\ twice' = twice \cup ({req[g].user : g \in Others(h, "accept", "save")}
                                  \cap {req[h].user})
     ELSE End(h) /\ UNCHANGED twice
  /\ UNCHANGED <<team, joins, shared, raced, torn, asks, crashes>>

\* save() sends the row pushed as a $push; the schema keeps no version.
SaveMember(h) ==
  /\ At(h, "accept", "save") /\ Size(members) < MaxRows
  /\ members' = Push(members, req[h].user, req[h].role)
  /\ joins' = [joins EXCEPT ![req[h].inv] = @ + 1]
  /\ Go(h, "mark")
  /\ UNCHANGED <<active, invites, twice, shared, raced, torn, asks, crashes>>

Close(i) == invites' = IF Open(i) THEN [invites EXCEPT ![i].state = "closed"] ELSE invites

\* Mutant: the invitation stays open.
LeaveOpen(h) ==
  /\ At(h, "accept", "mark") /\ UNCHANGED invites
  /\ End(h)
  /\ UNCHANGED <<active, members, teamHistory, asks, crashes>>

MarkAccepted(h) ==
  /\ At(h, "accept", "mark") /\ Close(req[h].inv)
  /\ End(h)
  /\ UNCHANGED <<active, members, teamHistory, asks, crashes>>

\* The TTL index deletes an invitation when its week is over.
ExpireInvite(i) ==
  /\ Open(i) /\ Close(i)
  /\ UNCHANGED <<active, members, req, asks, crashes, teamHistory>>

-----------------------------------------------------------------------------
(* Requests of owners and admins: read and check, then one write *)

\* Mutant: any row may go.
RemoveAnyone(h, u) ==
  Allowed(Managers) /\ Ask(h, FALSE, "remove", "write", u, NoInvite, "viewer")
Remove(h, u) ==
  /\ Allowed(Managers) /\ u # Owner
  /\ Ask(h, FALSE, "remove", "write", u, NoInvite, "viewer")
PullMember(h) ==
  /\ At(h, "remove", "write")
  /\ members' = Pull(members, req[h].user)
  /\ End(h)
  /\ UNCHANGED <<active, invites, teamHistory, asks, crashes>>

ChangeRole(h, u, role) ==
  /\ Allowed({"owner"}) /\ (u = Owner => role = "owner")
  /\ Ask(h, FALSE, "role", "write", u, NoInvite, role)
SetRole(h) ==
  /\ At(h, "role", "write")
  /\ members' = SetFirst(members, req[h].user, req[h].role)
  /\ End(h)
  /\ UNCHANGED <<active, invites, teamHistory, asks, crashes>>

Revoke(h, i) ==
  /\ Allowed(Managers)
  /\ Ask(h, FALSE, "revoke", "write", Owner, i, "viewer")
DeleteInvite(h) ==
  /\ At(h, "revoke", "write")
  /\ Close(req[h].inv)
  /\ End(h)
  /\ UNCHANGED <<active, members, teamHistory, asks, crashes>>

Delete(h) ==
  /\ IsIn(members, Owner)
  /\ Ask(h, FALSE, "close", "write", Owner, NoInvite, "viewer")
Deactivate(h) ==
  /\ At(h, "close", "write")
  /\ active' = FALSE
  /\ End(h)
  /\ UNCHANGED <<members, invites, teamHistory, asks, crashes>>

-----------------------------------------------------------------------------

\* The process stops: requests under way end where they are.  history torn:
\* invitations that admitted a user and were not marked.
Crash ==
  /\ crashes < MaxCrashes /\ crashes' = crashes + 1
  /\ req' = [h \in Handlers |-> Idle]
  /\ torn' = torn \cup {req[h].inv : h \in {h \in Handlers : At(h, "accept", "mark")}}
  /\ UNCHANGED <<team, joins, twice, shared, raced, asks>>

TeamRequest(h) ==
  \/ \E u \in Users :
       \/ \E role \in Roles : (\E super \in BOOLEAN : Invite(h, super, u, role))
                            \/ ChangeRole(h, u, role)
       \/ Remove(h, u)
  \/ \E i \in Invites : Revoke(h, i)
  \/ Delete(h)
TeamStep(h) ==
  \/ CountInvites(h) \/ FindInvite(h) \/ \E i \in Invites : CreateInvite(h, i)
  \/ CheckMember(h) \/ SaveMember(h) \/ MarkAccepted(h)
  \/ PullMember(h) \/ SetRole(h) \/ DeleteInvite(h) \/ Deactivate(h)
WorkspaceNext ==
  \/ \E h \in Handlers :
       \/ ~Busy(h) /\ asks < MaxAsks /\ TeamRequest(h)
       \/ ~Busy(h) /\ \E u \in Users, i \in Invites : Accept(h, u, i)
       \/ Busy(h) /\ TeamStep(h)
  \/ \E i \in Invites : ExpireInvite(i)
  \/ Crash

-----------------------------------------------------------------------------
(* Properties *)

\* The owner has one row, and it says owner: no stale copy of the workspace
\* lets a request remove or demote the owner, or join the owner a second time.
OwnerStays == members[Owner] = <<"owner">>

\* A user has a second row only after two accepts of his had both read the
\* members without him.
MembersOnce == \A u \in Users : u \notin twice => Len(members[u]) <= 1

\* An invitation admits a second user, or brings one back who was removed, only
\* if two accepts used it at once or one was cut off before it was marked.
InviteUsedOnce ==
  \A i \in Invites : i \notin shared \cup torn => joins[i] <= 1

\* Two invitations to one address are open at once only after two requests had
\* both looked for one in vain.
OneOpenPerEmail ==
  \A i, j \in Pending :
    i # j /\ invites[i].email = invites[j].email => invites[i].email \in raced

\* What stale copies of members and invitations can and cannot do (WorkspacesService).
WorkspacesSafe ==
  /\ WorkspaceTypeOK /\ OwnerStays /\ MembersOnce /\ InviteUsedOnce /\ OneOpenPerEmail
=============================================================================
