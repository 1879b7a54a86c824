------------------------------ MODULE Projects ------------------------------
(***************************************************************************)
(* A project of the workspace: its members, the guard in front of every    *)
(* project route with the roles it keeps in Redis, the default project a   *)
(* user gets when he has none, and the project's room of the realtime      *)
(* gateway.  Requests share the handlers of Workspaces.                    *)
(***************************************************************************)
EXTENDS Workspaces

CONSTANTS
  Lead,     \* ownerId of the project
  RoleTtl,  \* ROLE_CACHE_TTL_S
  MaxLag    \* bound: ticks a request takes

ASSUME ProjectAssumption ==
  Lead \in Users /\ RoleTtl \in Nat \ {0} /\ MaxLag \in Nat

VARIABLES
  deleted,  \* deletedAt is set
  linked,   \* is workspaceId set?
  rows,     \* the project's own members
  cached,   \* per user: the role in Redis and its time to live
  defaults, \* per user: default projects that are not deleted
  room,     \* users with a socket in the room of the project
  age,      \* history: per user and role, ticks since somebody gave it to him
  away,     \* history: per user, ticks since the project was there for him
  added, doubled, been  \* history, see the properties

project == <<deleted, linked, rows>>
projectHistory == <<added, doubled, been>>
tenancyVars == <<team, teamHistory, req, asks, crashes, project, cached, defaults, room,
                 age, away, projectHistory>>
projectRest == <<team, teamHistory, asks, crashes>>

NoRole == [role |-> "none", ttl |-> 0]
Oldest == RoleTtl + MaxLag + 1
ProjectOps == {"add", "drop", "grade", "link", "erase", "enter", "default", "watch"}
ProjectRequests ==
  [op : ProjectOps, at : {"write", "workspace", "fill"}, user : Users,
   role : Roles, ws : BOOLEAN, lag : 0..MaxLag]

TenancyTypeOK ==
  /\ WorkspaceTypeOK
  /\ req \in [Handlers -> {Idle} \cup TeamRequests \cup ProjectRequests]
  /\ deleted \in BOOLEAN /\ linked \in BOOLEAN
  /\ rows \in Rows
  /\ cached \in [Users -> [role : Roles \cup {"none"}, ttl : 0..RoleTtl]]
  /\ \A u \in Users : cached[u].role = "none" <=> cached[u].ttl = 0
  /\ defaults \in [Users -> Nat] /\ room \subseteq Users
  /\ age \in [Users -> [Roles -> 0..Oldest]] /\ away \in [Users -> 0..Oldest]
  /\ added \subseteq Users /\ doubled \subseteq Users /\ been \subseteq Users

\* The role the guard would find: the project's owner, its member, or a member
\* of its workspace while that is not deleted.
TeamRole(u) == IF linked /\ active THEN RoleIn(members, u) ELSE "none"
OwnRole(u) == IF u = Lead THEN "owner" ELSE RoleIn(rows, u)
RoleOf(u) ==
  IF deleted THEN "none" ELSE IF OwnRole(u) # "none" THEN OwnRole(u) ELSE TeamRole(u)
InProject(u) == ~deleted /\ OwnRole(u) # "none"

\* What the guard's two reads go by: the project is there for the user by itself or
\* by its workspace, and the one or the other gives him a role.
Near(u) == ~deleted /\ (OwnRole(u) # "none" \/ linked)
Given(u, r) == OwnRole(u) = r \/ (active /\ RoleIn(members, u) = r)

ProjectInit(link, own) ==
  /\ deleted = FALSE /\ linked = link /\ rows = own
  /\ cached = [u \in Users |-> NoRole] /\ defaults = [u \in Users |-> 0]
  /\ room = {} /\ added = {} /\ doubled = {} /\ been = {u \in Users : InProject(u)}
  /\ age = [u \in Users |-> [r \in Roles |-> IF Given(u, r) THEN 0 ELSE Oldest]]
  /\ away = [u \in Users |-> IF Near(u) THEN 0 ELSE Oldest]

-----------------------------------------------------------------------------
(* Requests *)

\* Histories: the age of each role and of each way to the project, kept at every step
\* and tick; and who was in the project at some time since his socket was connected.
Later(old, ticks) == IF old < Oldest THEN old + ticks ELSE Oldest
Note(ticks) ==
  /\ age' = [u \in Users |-> [r \in Roles |->
               IF Given(u, r)' THEN 0 ELSE Later(age[u][r], ticks)]]
  /\ away' = [u \in Users |-> IF Near(u)' THEN 0 ELSE Later(away[u], ticks)]
Been == been' = been \cup {u \in Users : InProject(u)'}

Serve(h, op, step, u, role, ws) ==
  /\ req' = [req EXCEPT ![h] = [op |-> op, at |-> step, user |-> u, role |-> role,
                                ws |-> ws, lag |-> 0]]
  /\ UNCHANGED <<team, teamHistory, crashes, project, cached, defaults, room>>
Start(h, op, step, u, role) ==
  Serve(h, op, step, u, role, FALSE) /\ UNCHANGED <<asks, added, doubled>>
Begin(h, op, u, role, ws) ==
  /\ asks' = asks + 1
  /\ Serve(h, op, "write", u, role, ws)

-----------------------------------------------------------------------------
(* Members and settings: findOne and its checks, then one write by id *)

\* Somebody who can see the project is its owner, or manages it; a super_admin
\* may ask what the owner may.
Seen == {u \in Users : RoleOf(u) # "none"}
Manages(u) == u = Lead \/ \E k \in DOMAIN rows[u] : rows[u][k] \in Managers
Managed == {u \in Seen : Manages(u)} # {}
Led == Lead \in Seen

\* Mutant: nobody looks for a row of the user.
AddAgain(h, u, role) ==
  /\ Managed /\ Begin(h, "add", u, role, FALSE) /\ UNCHANGED <<added, doubled>>

\* history added: users two requests are adding, neither having found a row.
AddMember(h, u, role) ==
  /\ Managed /\ ~IsIn(rows, u)
  /\ Begin(h, "add", u, role, FALSE)
  /\ added' = added \cup ({req[g].user : g \in Others(h, "add", "write")} \cap {u})
  /\ UNCHANGED doubled
PushMember(h) ==
  /\ At(h, "add", "write") /\ Size(rows) < MaxRows
  /\ rows' = Push(rows, req[h].user, req[h].role)
  /\ End(h)
  /\ UNCHANGED <<projectRest, deleted, linked, cached, defaults, room, added, doubled>>

RemoveMember(h, u) ==
  /\ Managed /\ u # Lead
  /\ Begin(h, "drop", u, "viewer", FALSE) /\ UNCHANGED <<added, doubled>>
DropMember(h) ==
  /\ At(h, "drop", "write")
  /\ rows' = Pull(rows, req[h].user)
  /\ End(h)
  /\ UNCHANGED <<projectRest, deleted, linked, cached, defaults, room, added, doubled>>

UpdateMemberRole(h, u, role) ==
  /\ Led
  /\ Begin(h, "grade", u, role, FALSE) /\ UNCHANGED <<added, doubled>>
SetMemberRole(h) ==
  /\ At(h, "grade", "write")
  /\ rows' = SetFirst(rows, req[h].user, req[h].role)
  /\ End(h)
  /\ UNCHANGED <<projectRest, deleted, linked, cached, defaults, room, added, doubled>>

\* update: whoever can see the project may link it to the workspace or unlink it.
Update(h, ws) ==
  /\ Seen # {} /\ Begin(h, "link", Lead, "viewer", ws) /\ UNCHANGED <<added, doubled>>
Link(h) ==
  /\ At(h, "link", "write")
  /\ linked' = req[h].ws
  /\ End(h)
  /\ UNCHANGED <<projectRest, deleted, rows, cached, defaults, room, added, doubled>>

DeleteProject(h) ==
  /\ Led
  /\ Begin(h, "erase", Lead, "viewer", FALSE) /\ UNCHANGED <<added, doubled>>
Erase(h) ==
  /\ At(h, "erase", "write")
  /\ deleted' = TRUE
  /\ End(h)
  /\ UNCHANGED <<projectRest, linked, rows, cached, defaults, room, added, doubled>>

-----------------------------------------------------------------------------
(* ProjectAccessGuard *)

\* A hit admits the user at once.  After a miss the project is read, and the
\* workspace after it if the project itself gives no role.
Enter(h, u) ==
  /\ cached[u].role = "none" /\ ~deleted
  /\ \/ /\ OwnRole(u) # "none"
        /\ Start(h, "enter", "fill", u, OwnRole(u))
     \/ /\ OwnRole(u) = "none" /\ linked
        /\ Start(h, "enter", "workspace", u, "viewer")
ReadWorkspace(h) ==
  /\ At(h, "enter", "workspace")
  /\ LET role == IF active THEN RoleIn(members, req[h].user) ELSE "none"
     IN  IF role = "none" THEN End(h)
         ELSE req' = [req EXCEPT ![h].at = "fill", ![h].role = role]
  /\ UNCHANGED <<projectRest, project, cached, defaults, room, added, doubled>>

\* persist: the role is stored for RoleTtl, whatever has happened meanwhile.
Fill(h) ==
  /\ At(h, "enter", "fill")
  /\ cached' = [cached EXCEPT ![req[h].user] = [role |-> req[h].role, ttl |-> RoleTtl]]
  /\ End(h)
  /\ UNCHANGED <<projectRest, project, defaults, room, added, doubled>>

\* Mutants: an entry that never expires, and one that outlives its time.
Sticky(entry) == entry
AgedLate(entry) == IF entry.ttl > 0 THEN [entry EXCEPT !.ttl = @ - 1] ELSE NoRole
Aged(entry) == IF entry.ttl > 1 THEN [entry EXCEPT !.ttl = @ - 1] ELSE NoRole

\* resolveDefault, here and in ProjectsService: look for a project that is not deleted,
\* else make one.  Of a user's projects there are the one above and his default ones.
\* history doubled: users two requests are making one for.
IsMember(u) == InProject(u)  \* Mutant: the default projects are not looked at.
HasProject(u) == InProject(u) \/ defaults[u] > 0
ResolveDefault(h, u) ==
  /\ ~HasProject(u)
  /\ Begin(h, "default", u, "viewer", FALSE)
  /\ doubled' = doubled \cup ({req[g].user : g \in Others(h, "default", "write")} \cap {u})
  /\ UNCHANGED added
CreateDefault(h) ==
  /\ At(h, "default", "write")
  /\ defaults' = [defaults EXCEPT ![req[h].user] = @ + 1]
  /\ End(h)
  /\ UNCHANGED <<projectRest, project, cached, room, added, doubled>>

\* delete, of a default project by the user who owns it: one step, as what the read
\* finds (the owner) never changes and a second write by id changes nothing.
DropDefault(u) ==
  /\ defaults[u] > 0 /\ defaults' = [defaults EXCEPT ![u] = @ - 1]
  /\ UNCHANGED <<projectRest, req, project, cached, room, added, doubled>>

-----------------------------------------------------------------------------
(* RealtimeGateway *)

\* Mutant: the workspace counts.
SubscribeByRole(h, u) ==
  /\ RoleOf(u) # "none" /\ u \notin room /\ Start(h, "watch", "write", u, "viewer")

\* subscribe: members of the project itself, then the room is joined.
Subscribe(h, u) ==
  /\ InProject(u) /\ u \notin room /\ Start(h, "watch", "write", u, "viewer")
Join(h) ==
  /\ At(h, "watch", "write")
  /\ room' = room \cup {req[h].user}
  /\ End(h)
  /\ UNCHANGED <<projectRest, project, cached, defaults, added, doubled>>

\* unsubscribe, or the socket closes.
Leave(u) ==
  /\ u \in room /\ room' = room \ {u}
  /\ UNCHANGED <<projectRest, req, project, cached, defaults, added, doubled>>

-----------------------------------------------------------------------------

\* Redis forgets; no request takes longer than MaxLag.
Tick ==
  /\ \A h \in Handlers : req[h].op \in ProjectOps => req[h].lag < MaxLag
  /\ req' = [h \in Handlers |-> IF req[h].op \in ProjectOps
                                THEN [req[h] EXCEPT !.lag = @ + 1] ELSE req[h]]
  /\ cached' = [u \in Users |-> Aged(cached[u])]
  /\ UNCHANGED <<projectRest, project, defaults, room, added, doubled>>

ProjectRequest(h) ==
  \/ \E u \in Users :
       \/ \E role \in Roles \ {"owner"} : AddMember(h, u, role) \/ UpdateMemberRole(h, u, role)
       \/ RemoveMember(h, u) \/ ResolveDefault(h, u)
  \/ \E ws \in BOOLEAN : Update(h, ws)
  \/ DeleteProject(h)
ProjectStep(h) ==
  \/ PushMember(h) \/ DropMember(h) \/ SetMemberRole(h) \/ Link(h) \/ Erase(h)
  \/ ReadWorkspace(h) \/ Fill(h) \/ CreateDefault(h) \/ Join(h)
ProjectNext ==
  \/ \E h \in Handlers :
       \/ ~Busy(h) /\ asks < MaxAsks /\ ProjectRequest(h)
       \/ ~Busy(h) /\ \E u \in Users : Enter(h, u) \/ Subscribe(h, u)
       \/ Busy(h) /\ ProjectStep(h)
  \/ \E u \in Users : Leave(u) \/ DropDefault(u)
  \/ WorkspaceNext /\ UNCHANGED <<project, cached, defaults, room, added, doubled>>

\* A workspace has its owner and a project no row twice; time passes or somebody moves.
OneRow(given) == given \in Rows /\ \A u \in Users : Len(given[u]) <= 1
TenancyInit ==
  \E team0, own \in Rows, link \in BOOLEAN :
    /\ OneRow(team0) /\ team0[Owner] = <<"owner">> /\ OneRow(own)
    /\ WorkspaceInit(team0) /\ ProjectInit(link, own)
TenancyNext ==
  \/ ProjectNext /\ Note(0) /\ Been
  \/ Tick /\ Note(1) /\ Been
TenancySpec == TenancyInit /\ [][TenancyNext]_tenancyVars

-----------------------------------------------------------------------------
(* Properties *)

\* A role in Redis was given to the user, and the project was there for him, no longer
\* ago than the entry lives and the request that stored it took: a member who is
\* removed or demoted, a project or a workspace that is deleted, a link that is cut
\* all tell by then.  The two are read one after the other, so that the role need
\* not have been the user's role in the project at any one time.
RoleBounded ==
  \A u \in Users : cached[u].role # "none" =>
    /\ age[u][cached[u].role] <= (RoleTtl - cached[u].ttl) + MaxLag
    /\ away[u] <= (RoleTtl - cached[u].ttl) + MaxLag

\* A user has a second row only after two requests added him side by side.
ProjectRowsOnce == \A u \in Users : u \notin added => Len(rows[u]) <= 1

\* A user has two default projects at once only by two requests side by side: when
\* he deletes his, the next request makes another, and one only.
OneDefault == \A u \in Users : u \notin doubled => defaults[u] <= 1

\* Only users who have been in the project itself get into its room: those who
\* reach the project through the workspace alone never do.
RoomOfMembers == room \subseteq been

\* Who may do what in a project, and for how long after he was removed.
ProjectsSafe ==
  /\ TenancyTypeOK /\ RoleBounded /\ ProjectRowsOnce /\ OneDefault /\ RoomOfMembers
=============================================================================
