--------------------------- MODULE Tenancy_proofs ---------------------------
(* Members, invitations, roles and rooms, for any users, invitations and     *)
(* handlers, any limits, and any rows a workspace and a project start with.  *)
EXTENDS Projects, FiniteSetTheorems, SequenceTheorems, TLAPS

-----------------------------------------------------------------------------
(* Rows *)

LEMMA PushRows ==
  ASSUME NEW m \in Rows, NEW u \in Users, NEW role \in Roles
  PROVE  /\ Push(m, u, role) \in Rows /\ Len(Push(m, u, role)[u]) = Len(m[u]) + 1
         /\ \A v \in Users \ {u} : Push(m, u, role)[v] = m[v]
<1>1. m[u] \in Seq(Roles)
  BY DEF Rows
<1>2. Append(m[u], role) \in Seq(Roles) /\ Len(Append(m[u], role)) = Len(m[u]) + 1
  BY <1>1, AppendProperties
<1> QED
  BY <1>2 DEF Push, Rows

LEMMA PullRows ==
  ASSUME NEW m \in Rows, NEW u \in Users
  PROVE  /\ Pull(m, u) \in Rows
         /\ \A v \in Users : Len(Pull(m, u)[v]) <= Len(m[v])
         /\ \A v \in Users \ {u} : Pull(m, u)[v] = m[v]
<1>1. <<>> \in Seq(Roles) /\ Len(<<>>) = 0
  BY EmptySeq
<1>2. \A v \in Users : Len(m[v]) \in Nat
  BY LenProperties DEF Rows
<1> QED
  BY <1>1, <1>2 DEF Pull, Rows

LEMMA SetFirstRows ==
  ASSUME NEW m \in Rows, NEW u \in Users, NEW role \in Roles
  PROVE  /\ SetFirst(m, u, role) \in Rows
         /\ \A v \in Users : Len(SetFirst(m, u, role)[v]) = Len(m[v])
         /\ \A v \in Users \ {u} : SetFirst(m, u, role)[v] = m[v]
         /\ m[u] = <<role>> => SetFirst(m, u, role)[u] = <<role>>
<1>1. CASE m[u] = <<>>
  <2>1. SetFirst(m, u, role) = m
    BY <1>1 DEF SetFirst, IsIn
  <2> QED
    BY <2>1
<1>2. CASE m[u] # <<>>
  <2> DEFINE s == [m[u] EXCEPT ![1] = role]
  <2>1. m[u] \in Seq(Roles) /\ Len(m[u]) \in Nat /\ 1 \in 1..Len(m[u])
    BY <1>2, EmptySeq, LenProperties DEF Rows
  <2>2. s \in Seq(Roles) /\ Len(s) = Len(m[u])
    BY <2>1, ExceptSeq
  <2>3. ASSUME m[u] = <<role>>
        PROVE  s = <<role>>
    BY <2>3
  <2>4. SetFirst(m, u, role) = [m EXCEPT ![u] = s]
    BY <1>2 DEF SetFirst, IsIn
  <2>5. m \in [Users -> Seq(Roles)]
    BY DEF Rows
  <2> QED
    BY <2>2, <2>3, <2>4, <2>5 DEF Rows
<1> QED
  BY <1>1, <1>2

LEMMA FirstRole ==
  ASSUME NEW m \in Rows, NEW u \in Users
  PROVE  RoleIn(m, u) \in Roles \cup {"none"} /\ (RoleIn(m, u) = "none" <=> m[u] = <<>>)
<1>1. m[u] \in Seq(Roles)
  BY DEF Rows
<1>2. m[u] # <<>> => m[u][1] \in Roles
  BY <1>1, EmptySeq, LenProperties, ElementOfSeq
<1> QED
  BY <1>2 DEF RoleIn, IsIn, Roles

LEMMA SizeIsNat ==
  ASSUME NEW m \in Rows
  PROVE  Size(m) \in Nat
<1> DEFINE of == [u \in Users |-> {u} \X DOMAIN m[u]]
           parts == {{u} \X DOMAIN m[u] : u \in Users}
<1>1. \A u \in Users : IsFiniteSet({u} \X DOMAIN m[u])
  <2> TAKE u \in Users
  <2>1. Len(m[u]) \in Nat /\ DOMAIN m[u] = 1..Len(m[u])
    BY LenProperties DEF Rows
  <2>2. IsFiniteSet(DOMAIN m[u])
    BY <2>1, FS_Interval
  <2> QED
    BY <2>2, FS_Product, FS_Singleton
<1>2. IsFiniteSet(parts)
  <2>1. of \in Surjection(Users, parts)
    BY DEF Surjection
  <2> QED
    BY <2>1, FS_Surjection, WorkspaceAssumption
<1>3. IsFiniteSet(UNION parts)
  BY <1>1, <1>2, FS_UNION
<1> QED
  BY <1>3, FS_CardinalityType DEF Size

-----------------------------------------------------------------------------
(* The invariant *)

Requests == {Idle} \cup TeamRequests \cup ProjectRequests

\* What has been checked of a request before it waits where it is.
Checked(r) ==
  /\ r.op = "remove" => r.user # Owner
  /\ r.op = "role" /\ r.user = Owner => r.role = "owner"
  /\ r.op = "accept" => r.inv \in Invites /\ (r.at = "save" => r.user # Owner)
  /\ r.op = "revoke" => r.inv \in Invites
RequestsChecked == \A h \in Handlers : Checked(req[h])

\* A request at this step is for this user, or, of an accept, on this invitation.
For(h, op, step, u) == At(h, op, step) /\ req[h].user = u
OnInvite(h, i) == Busy(h) /\ req[h].op = "accept" /\ req[h].inv = i

\* Only one request of a kind has looked for a user and not yet written, unless the
\* history says so; and nobody else has written meanwhile.
JoinsAlone ==
  \A u \in Users \ twice : \A g, h \in Handlers :
    For(h, "accept", "save", u) =>
      Len(members[u]) = 0 /\ (For(g, "accept", "save", u) => g = h)
AddsAlone ==
  \A u \in Users \ added : \A g, h \in Handlers :
    For(h, "add", "write", u) => Len(rows[u]) = 0 /\ (For(g, "add", "write", u) => g = h)
DefaultsAlone ==
  \A u \in Users \ doubled : \A g, h \in Handlers :
    For(h, "default", "write", u) =>
      defaults[u] = 0 /\ (For(g, "default", "write", u) => g = h)

\* What an accept does to its invitation, while no other uses it.
UsedAlone ==
  \A i \in Invites \ (shared \cup torn) :
    /\ \A g, h \in Handlers : OnInvite(g, i) /\ OnInvite(h, i) => g = h
    /\ \A h \in Handlers : OnInvite(h, i) /\ req[h].at # "mark" => joins[i] = 0
    /\ Open(i) => joins[i] = 0 \/ \E h \in Handlers : OnInvite(h, i) /\ req[h].at = "mark"
NoneUnused ==
  \A i \in Invites : invites[i].state = "none" =>
    joins[i] = 0 /\ \A h \in Handlers : ~OnInvite(h, i)
\* Who is about to create an invitation for an address has found none.
InvitesAlone ==
  \A h \in Handlers, i \in Invites :
    At(h, "invite", "create") /\ Open(i) /\ invites[i].email = req[h].user =>
      req[h].user \in raced

Rooms ==
  /\ {u \in Users : InProject(u)} \subseteq been
  /\ \A h \in Handlers : At(h, "watch", "write") => req[h].user \in been

\* What the guard has read, it read no longer ago than the request is old.
ReadLately ==
  \A h \in Handlers :
    /\ At(h, "enter", "workspace") => away[req[h].user] <= req[h].lag
    /\ At(h, "enter", "fill") =>
         away[req[h].user] <= req[h].lag /\ age[req[h].user][req[h].role] <= req[h].lag

TeamInv ==
  /\ OwnerStays /\ MembersOnce /\ JoinsAlone
  /\ InviteUsedOnce /\ UsedAlone /\ NoneUnused /\ OneOpenPerEmail /\ InvitesAlone
OwnInv ==
  /\ ProjectRowsOnce /\ AddsAlone /\ OneDefault /\ DefaultsAlone
  /\ RoomOfMembers /\ Rooms /\ RoleBounded /\ ReadLately
TenancyInv == TenancyTypeOK /\ RequestsChecked /\ TeamInv /\ OwnInv

-----------------------------------------------------------------------------
(* Steps that leave a part of the invariant alone *)

Becomes(h, r) == req' = [req EXCEPT ![h] = r]

\* An invitation stays as it is, or it was open and closes.
OnlyClosing ==
  \A i \in Invites :
    /\ invites'[i].email = invites[i].email
    /\ invites'[i].state = invites[i].state \/ (Open(i) /\ invites'[i].state = "closed")

LEMMA RequestTypes ==
  ASSUME TenancyTypeOK, RequestsChecked, NEW h \in Handlers, NEW r \in Requests, Checked(r),
         Becomes(h, r)
  PROVE  /\ req' \in [Handlers -> {Idle} \cup TeamRequests \cup ProjectRequests]
         /\ RequestsChecked' /\ req'[h] = r /\ \A g \in Handlers \ {h} : req'[g] = req[g]
BY DEF TenancyTypeOK, RequestsChecked, Becomes, Requests, Checked

LEMMA RequestKinds ==
  ASSUME NEW r \in Requests
  PROVE  \/ r = Idle /\ r.op = "idle"
         \/ r \in TeamRequests /\ r.op \in TeamOps /\ r.user \in Users /\ r.role \in Roles
         \/ /\ r \in ProjectRequests /\ r.op \in ProjectOps
            /\ r.user \in Users /\ r.role \in Roles /\ r.lag \in Nat /\ r.lag <= MaxLag
<1>1. CASE r = Idle
  BY <1>1 DEF Idle
<1>2. CASE r \in TeamRequests
  BY <1>2 DEF TeamRequests
<1>3. CASE r \in ProjectRequests
  BY <1>3, ProjectAssumption DEF ProjectRequests
<1> QED
  BY <1>1, <1>2, <1>3 DEF Requests

LEMMA CloseOnly ==
  ASSUME WorkspaceTypeOK, NEW i \in Invites, Close(i)
  PROVE  /\ OnlyClosing /\ ~Open(i)' /\ invites' \in [Invites -> InviteDocs]
BY DEF WorkspaceTypeOK, Close, OnlyClosing, Open, InviteDocs, InviteStates

LEMMA JoinsSame ==
  ASSUME TenancyTypeOK, TenancyTypeOK', JoinsAlone, MembersOnce, twice' = twice,
         \A u \in Users : Len(members'[u]) <= Len(members[u]),
         \A h \in Handlers, u \in Users : For(h, "accept", "save", u)' => For(h, "accept", "save", u)
  PROVE  JoinsAlone' /\ MembersOnce'
<1>1. \A u \in Users : Len(members[u]) \in Nat /\ Len(members'[u]) \in Nat
  BY LenProperties DEF TenancyTypeOK, WorkspaceTypeOK, Rows
<1>2. JoinsAlone'
  BY <1>1 DEF JoinsAlone
<1>3. MembersOnce'
  BY <1>1 DEF MembersOnce
<1> QED
  BY <1>2, <1>3

LEMMA UsedSame ==
  ASSUME TenancyTypeOK, TenancyTypeOK', UsedAlone, NoneUnused, InviteUsedOnce, OnlyClosing,
         joins' = joins, shared' = shared, torn \subseteq torn',
         \A h \in Handlers, i \in Invites :
           OnInvite(h, i)' => OnInvite(h, i) /\ req'[h].at = req[h].at,
         \A h \in Handlers, i \in Invites \ torn' :
           OnInvite(h, i) /\ req[h].at = "mark" /\ Open(i)' => OnInvite(h, i)' /\ req'[h].at = "mark"
  PROVE  UsedAlone' /\ NoneUnused' /\ InviteUsedOnce'
<1>1. \A i \in Invites : /\ Open(i)' => Open(i)
                         /\ invites'[i].state = "none" => invites[i].state = "none"
  BY DEF OnlyClosing, Open
<1>2. UsedAlone'
  <2> SUFFICES ASSUME NEW i \in Invites \ (shared' \cup torn')
               PROVE  /\ \A g, h \in Handlers : OnInvite(g, i)' /\ OnInvite(h, i)' => g = h
                      /\ \A h \in Handlers : OnInvite(h, i)' /\ req'[h].at # "mark" => joins'[i] = 0
                      /\ Open(i)' => \/ joins'[i] = 0
                                     \/ \E h \in Handlers : OnInvite(h, i)' /\ req'[h].at = "mark"
    BY DEF UsedAlone
  <2>1. i \in Invites \ (shared \cup torn)
    OBVIOUS
  <2> QED
    BY <1>1, <2>1 DEF UsedAlone
<1>3. NoneUnused'
  BY <1>1 DEF NoneUnused
<1>4. InviteUsedOnce'
  BY DEF InviteUsedOnce
<1> QED
  BY <1>2, <1>3, <1>4

LEMMA EmailsSame ==
  ASSUME TenancyTypeOK, OneOpenPerEmail, InvitesAlone, OnlyClosing, raced' = raced,
         \A h \in Handlers :
           At(h, "invite", "create")' => At(h, "invite", "create") /\ req'[h].user = req[h].user
  PROVE  OneOpenPerEmail' /\ InvitesAlone'
<1>1. \A i \in Invites : (Open(i)' => Open(i)) /\ invites'[i].email = invites[i].email
  BY DEF OnlyClosing, Open
<1>2. OneOpenPerEmail'
  BY <1>1 DEF OneOpenPerEmail, Pending
<1>3. InvitesAlone'
  BY <1>1 DEF InvitesAlone
<1> QED
  BY <1>2, <1>3

\* A step of requests that are no accepts and create no invitation.
Elsewhere(r) == r.op # "accept" /\ (r.op = "invite" => r.at # "create")
LEMMA TeamSame ==
  ASSUME TenancyInv, TenancyTypeOK', UNCHANGED teamHistory, OnlyClosing,
         members'[Owner] = members[Owner],
         \A u \in Users : Len(members'[u]) <= Len(members[u]),
         \A h \in Handlers : req'[h] = req[h] \/ (req[h].op # "accept" /\ Elsewhere(req'[h]))
  PROVE  TeamInv'
<1>1. JoinsAlone' /\ MembersOnce'
  BY JoinsSame DEF TenancyInv, TeamInv, teamHistory, Elsewhere, For, At, Busy
<1>2. UsedAlone' /\ NoneUnused' /\ InviteUsedOnce'
  BY UsedSame DEF TenancyInv, TeamInv, teamHistory, Elsewhere, OnInvite, Busy
<1>3. OneOpenPerEmail' /\ InvitesAlone'
  BY EmailsSame DEF TenancyInv, TeamInv, teamHistory, Elsewhere, At, Busy
<1>4. OwnerStays'
  BY DEF TenancyInv, TeamInv, OwnerStays
<1> QED
  BY <1>1, <1>2, <1>3, <1>4 DEF TeamInv

LEMMA AddsSame ==
  ASSUME TenancyTypeOK, TenancyTypeOK', AddsAlone, ProjectRowsOnce, added' = added,
         \A u \in Users : Len(rows'[u]) <= Len(rows[u]),
         \A h \in Handlers, u \in Users : For(h, "add", "write", u)' => For(h, "add", "write", u)
  PROVE  AddsAlone' /\ ProjectRowsOnce'
<1>1. \A u \in Users : Len(rows[u]) \in Nat /\ Len(rows'[u]) \in Nat
  BY LenProperties DEF TenancyTypeOK, Rows
<1>2. AddsAlone'
  BY <1>1 DEF AddsAlone
<1>3. ProjectRowsOnce'
  BY <1>1 DEF ProjectRowsOnce
<1> QED
  BY <1>2, <1>3

LEMMA DefaultsSame ==
  ASSUME DefaultsAlone, OneDefault, doubled' = doubled, defaults' = defaults,
         \A h \in Handlers, u \in Users :
           For(h, "default", "write", u)' => For(h, "default", "write", u)
  PROVE  DefaultsAlone' /\ OneDefault'
BY DEF DefaultsAlone, OneDefault

LEMMA RoomsSame ==
  ASSUME Rooms, RoomOfMembers, Been, room' \subseteq room,
         \A h \in Handlers :
           At(h, "watch", "write")' => At(h, "watch", "write") /\ req'[h].user = req[h].user
  PROVE  Rooms' /\ RoomOfMembers'
<1>1. been \subseteq been' /\ {u \in Users : InProject(u)'} \subseteq been'
  BY DEF Been
<1> QED
  BY <1>1 DEF Rooms, RoomOfMembers

LEMMA NoteKeeps ==
  ASSUME TenancyTypeOK, NEW ticks \in {0, 1}, Note(ticks)
  PROVE  /\ age' \in [Users -> [Roles -> 0..Oldest]] /\ away' \in [Users -> 0..Oldest]
         /\ \A u \in Users : /\ away'[u] <= away[u] + ticks
                             /\ Near(u)' => away'[u] = 0
                             /\ \A r \in Roles : /\ age'[u][r] <= age[u][r] + ticks
                                                 /\ Given(u, r)' => age'[u][r] = 0
<1>1. Oldest \in Nat
  BY ProjectAssumption DEF Oldest
<1>2. \A old \in 0..Oldest : Later(old, ticks) \in 0..Oldest /\ Later(old, ticks) <= old + ticks
  BY <1>1 DEF Later
<1>3. \A u \in Users : away[u] \in 0..Oldest /\ \A r \in Roles : age[u][r] \in 0..Oldest
  BY DEF TenancyTypeOK
<1>4. \A u \in Users : away'[u] = IF Near(u)' THEN 0 ELSE Later(away[u], ticks)
  BY DEF Note
<1>5. \A u \in Users, r \in Roles :
        age'[u][r] = IF Given(u, r)' THEN 0 ELSE Later(age[u][r], ticks)
  BY DEF Note
<1>6. age' \in [Users -> [Roles -> 0..Oldest]] /\ away' \in [Users -> 0..Oldest]
  BY <1>1, <1>2, <1>3 DEF Note
<1> QED
  BY <1>1, <1>2, <1>3, <1>4, <1>5, <1>6

LEMMA TimeSame ==
  ASSUME TenancyTypeOK, TenancyTypeOK', RoleBounded, ReadLately, Note(0), cached' = cached,
         \A h \in Handlers : req'[h] = req[h] \/ req'[h].op # "enter"
  PROVE  RoleBounded' /\ ReadLately'
<1>1. \A u \in Users : /\ away[u] \in Nat /\ away'[u] \in Nat /\ away'[u] <= away[u]
                       /\ \A r \in Roles : /\ age[u][r] \in Nat /\ age'[u][r] \in Nat
                                           /\ age'[u][r] <= age[u][r]
  BY NoteKeeps, ProjectAssumption DEF TenancyTypeOK, Oldest
<1>2. /\ RoleTtl \in Nat /\ MaxLag \in Nat
      /\ \A u \in Users : /\ cached[u].ttl \in Nat
                          /\ cached[u].role # "none" => cached[u].role \in Roles
  BY ProjectAssumption DEF TenancyTypeOK
<1>3. RoleBounded'
  BY <1>1, <1>2 DEF RoleBounded
<1>4. \A h \in Handlers : req[h].op = "enter" =>
        req[h].user \in Users /\ req[h].role \in Roles /\ req[h].lag \in Nat
  BY RequestKinds DEF TenancyTypeOK, Requests, TeamOps
<1>5. ReadLately'
  BY <1>1, <1>4 DEF ReadLately, At, Busy
<1> QED
  BY <1>3, <1>5

\* A step of requests that are not about the project's own data.
LEMMA OwnSame ==
  ASSUME TenancyInv, TenancyTypeOK', Note(0), Been,
         UNCHANGED <<added, doubled, defaults, cached>>, room' \subseteq room,
         \A u \in Users : Len(rows'[u]) <= Len(rows[u]),
         \A h \in Handlers :
           req'[h] = req[h] \/ req'[h].op \notin {"add", "default", "watch", "enter"}
  PROVE  OwnInv'
<1>1. AddsAlone' /\ ProjectRowsOnce'
  BY AddsSame DEF TenancyInv, OwnInv, For, At, Busy
<1>2. DefaultsAlone' /\ OneDefault'
  BY DefaultsSame DEF TenancyInv, OwnInv, For, At, Busy
<1>3. Rooms' /\ RoomOfMembers'
  BY RoomsSame DEF TenancyInv, OwnInv, At, Busy
<1>4. RoleBounded' /\ ReadLately'
  BY TimeSame DEF TenancyInv, OwnInv
<1> QED
  BY <1>1, <1>2, <1>3, <1>4 DEF OwnInv

-----------------------------------------------------------------------------
(* Steps of the workspace that are no accepts and create no invitation *)

LEMMA TypesNext ==
  ASSUME TenancyTypeOK, WorkspaceTypeOK',
         req' \in [Handlers -> {Idle} \cup TeamRequests \cup ProjectRequests],
         NEW ticks \in {0, 1}, Note(ticks), Been, rows' \in Rows, deleted' \in BOOLEAN,
         linked' \in BOOLEAN, cached' \in [Users -> [role : Roles \cup {"none"}, ttl : 0..RoleTtl]],
         \A u \in Users : cached'[u].role = "none" <=> cached'[u].ttl = 0,
         defaults' \in [Users -> Nat], room' \subseteq Users, added' \subseteq Users,
         doubled' \subseteq Users
  PROVE  TenancyTypeOK'
<1>1. age' \in [Users -> [Roles -> 0..Oldest]] /\ away' \in [Users -> 0..Oldest]
  BY NoteKeeps
<1>2. been' \subseteq Users
  BY DEF Been, TenancyTypeOK
<1> QED
  BY <1>1, <1>2 DEF TenancyTypeOK

projectSame == UNCHANGED <<project, cached, defaults, room, added, doubled>>

LEMMA TeamTypes ==
  ASSUME TenancyTypeOK, WorkspaceTypeOK', Note(0), Been, projectSame,
         req' \in [Handlers -> {Idle} \cup TeamRequests \cup ProjectRequests]
  PROVE  TenancyTypeOK'
<1>1. UNCHANGED <<rows, deleted, linked, cached, defaults, room, added, doubled>>
  BY DEF projectSame, project
<1> QED
  BY <1>1, TypesNext DEF TenancyTypeOK

LEMMA TeamOwn ==
  ASSUME TenancyInv, TenancyTypeOK', Note(0), Been, projectSame,
         \A h \in Handlers :
           req'[h] = req[h] \/ req'[h].op \notin {"add", "default", "watch", "enter"}
  PROVE  OwnInv'
<1>1. UNCHANGED <<rows, deleted, linked, cached, defaults, room, added, doubled>>
  BY DEF projectSame, project
<1>2. \A u \in Users : Len(rows[u]) \in Nat
  BY LenProperties DEF TenancyInv, TenancyTypeOK, Rows
<1> QED
  BY <1>1, <1>2, OwnSame

LEMMA TeamPlain ==
  ASSUME TenancyInv, NEW h \in Handlers, NEW r \in Requests, Checked(r), Becomes(h, r),
         req[h].op # "accept", Elsewhere(r), r.op \notin ProjectOps,
         members' \in Rows, members'[Owner] = members[Owner],
         \A u \in Users : Len(members'[u]) <= Len(members[u]),
         OnlyClosing, invites' \in [Invites -> InviteDocs], active' \in BOOLEAN,
         asks' \in 0..MaxAsks, UNCHANGED <<teamHistory, crashes>>,
         projectSame, Note(0), Been
  PROVE  TenancyInv'
<1>1. /\ req' \in [Handlers -> {Idle} \cup TeamRequests \cup ProjectRequests]
      /\ RequestsChecked' /\ req'[h] = r /\ \A g \in Handlers \ {h} : req'[g] = req[g]
  BY RequestTypes DEF TenancyInv
<1>2. WorkspaceTypeOK'
  BY DEF TenancyInv, TenancyTypeOK, WorkspaceTypeOK, teamHistory
<1>3. TenancyTypeOK'
  BY <1>1, <1>2, TeamTypes DEF TenancyInv
<1>4. TeamInv'
  BY <1>1, <1>3, TeamSame
<1>5. OwnInv'
  BY <1>1, <1>3, TeamOwn DEF ProjectOps
<1> QED
  BY <1>1, <1>3, <1>4, <1>5 DEF TenancyInv

\* What a step on the same request, or none, makes of it.
LEMMA GoesOn ==
  ASSUME TenancyTypeOK, NEW h \in Handlers, req[h] \in TeamRequests, NEW step \in TeamSteps,
         Go(h, step)
  PROVE  \E r \in TeamRequests : /\ Becomes(h, r) /\ r.op = req[h].op /\ r.at = step
                                 /\ r.user = req[h].user /\ r.inv = req[h].inv
                                 /\ r.role = req[h].role
<1> DEFINE r == [req[h] EXCEPT !.at = step]
<1>1. r \in TeamRequests /\ r.op = req[h].op /\ r.at = step /\ r.user = req[h].user
      /\ r.inv = req[h].inv /\ r.role = req[h].role
  BY DEF TeamRequests
<1>2. Becomes(h, r)
  BY DEF Go, Becomes
<1> QED
  BY <1>1, <1>2

LEMMA Ends ==
  ASSUME NEW h \in Handlers, End(h)
  PROVE  Becomes(h, Idle) /\ Idle \in Requests /\ Checked(Idle) /\ Elsewhere(Idle) /\ Idle.op = "idle"
BY DEF End, Becomes, Idle, Requests, Checked, Elsewhere

LEMMA SameTeam ==
  ASSUME TenancyTypeOK, UNCHANGED team
  PROVE  /\ members' \in Rows /\ members'[Owner] = members[Owner]
         /\ \A u \in Users : Len(members'[u]) <= Len(members[u])
         /\ OnlyClosing /\ invites' \in [Invites -> InviteDocs] /\ active' \in BOOLEAN
<1>1. UNCHANGED <<active, members, invites>>
  BY DEF team
<1>2. \A u \in Users : Len(members[u]) \in Nat
  BY LenProperties DEF TenancyTypeOK, WorkspaceTypeOK, Rows
<1> QED
  BY <1>1, <1>2 DEF TenancyTypeOK, WorkspaceTypeOK, OnlyClosing

LEMMA TeamRequestKeeps ==
  ASSUME TenancyInv, NEW h \in Handlers, ~Busy(h), asks < MaxAsks, TeamRequest(h),
         projectSame, Note(0), Been
  PROVE  TenancyInv'
<1>1. ASSUME NEW super \in BOOLEAN, NEW op \in TeamOps, NEW step \in TeamSteps, NEW u \in Users,
             NEW i \in Invites \cup {"none"}, NEW role \in Roles, Ask(h, super, op, step, u, i, role),
             op # "accept", op = "remove" => u # Owner, op = "role" /\ u = Owner => role = "owner",
             op = "revoke" => i \in Invites, op = "invite" => step # "create"
      PROVE  TenancyInv'
  <2> DEFINE r == [op |-> op, at |-> step, user |-> u, inv |-> i, role |-> role,
                   root |-> super, team |-> IF op = "invite" THEN Size(members) ELSE 0]
  <2>1. r \in TeamRequests
    BY SizeIsNat DEF TeamRequests, TenancyInv, TenancyTypeOK, WorkspaceTypeOK
  <2>2. r.op = op /\ r.at = step /\ r.user = u /\ r.inv = i /\ r.role = role
    OBVIOUS
  <2>3. Becomes(h, r) /\ asks' = asks + 1 /\ UNCHANGED <<team, teamHistory, crashes>>
    BY <1>1 DEF Ask, Becomes
  <2>4. Checked(r) /\ Elsewhere(r) /\ r.op \notin ProjectOps /\ r \in Requests
    BY <1>1, <2>1, <2>2 DEF Checked, Elsewhere, ProjectOps, TeamOps, Requests
  <2>5. req[h].op # "accept" /\ asks' \in 0..MaxAsks
    BY <2>3, WorkspaceAssumption DEF Busy, Idle, TenancyInv, TenancyTypeOK, WorkspaceTypeOK
  <2> HIDE DEF r
  <2> QED
    BY <2>3, <2>4, <2>5, SameTeam, TeamPlain DEF TenancyInv
<1>2. "viewer" \in Roles /\ Owner \in Users /\ FALSE \in BOOLEAN
  BY WorkspaceAssumption DEF Roles
<1>3. ASSUME NEW u \in Users, NEW role \in Roles, NEW super \in BOOLEAN, Invite(h, super, u, role)
      PROVE  TenancyInv'
  BY <1>1, <1>3 DEF Invite, TeamOps, TeamSteps, NoInvite
<1>4. ASSUME NEW u \in Users, NEW role \in Roles, ChangeRole(h, u, role)
      PROVE  TenancyInv'
  BY <1>1, <1>2, <1>4 DEF ChangeRole, TeamOps, TeamSteps, NoInvite
<1>5. ASSUME NEW u \in Users, Remove(h, u)
      PROVE  TenancyInv'
  BY <1>1, <1>2, <1>5 DEF Remove, TeamOps, TeamSteps, NoInvite
<1>6. ASSUME NEW i \in Invites, Revoke(h, i)
      PROVE  TenancyInv'
  BY <1>1, <1>2, <1>6 DEF Revoke, TeamOps, TeamSteps
<1>7. CASE Delete(h)
  BY <1>1, <1>2, <1>7 DEF Delete, TeamOps, TeamSteps, NoInvite
<1> QED
  BY <1>3, <1>4, <1>5, <1>6, <1>7 DEF TeamRequest

\* The request in hand is one of the workspace's.
LEMMA AtTeam ==
  ASSUME TenancyInv, NEW h \in Handlers, NEW op \in TeamOps, NEW step, At(h, op, step)
  PROVE  /\ req[h] \in TeamRequests /\ req[h].op = op /\ req[h].at = step /\ Busy(h)
         /\ req[h].user \in Users /\ req[h].role \in Roles /\ Checked(req[h])
BY RequestKinds DEF At, TenancyInv, TenancyTypeOK, RequestsChecked, Requests, TeamOps, ProjectOps,
                    Busy

LEMMA PlainSteps ==
  ASSUME TenancyInv, NEW h \in Handlers, projectSame, Note(0), Been,
         \/ CountInvites(h) \/ PullMember(h) \/ SetRole(h) \/ DeleteInvite(h) \/ Deactivate(h)
  PROVE  TenancyInv'
<1>1. /\ members \in Rows /\ invites \in [Invites -> InviteDocs] /\ active \in BOOLEAN
      /\ asks \in 0..MaxAsks /\ members[Owner] = <<"owner">> /\ Owner \in Users
      /\ TenancyTypeOK /\ WorkspaceTypeOK
  BY WorkspaceAssumption
     DEF TenancyInv, TenancyTypeOK, WorkspaceTypeOK, TeamInv, OwnerStays
<1>2. CASE CountInvites(h)
  <2>1. At(h, "invite", "count") /\ UNCHANGED <<team, teamHistory, asks, crashes>>
    BY <1>2 DEF CountInvites, teamHistory
  <2>2. req[h] \in TeamRequests /\ req[h].op = "invite"
    BY <2>1, AtTeam DEF TeamOps
  <2>3. CASE End(h)
    BY <1>1, <2>1, <2>2, <2>3, Ends, SameTeam, TeamPlain DEF ProjectOps
  <2>4. CASE Go(h, "find")
    <3>1. PICK r \in TeamRequests : Becomes(h, r) /\ r.op = "invite" /\ r.at = "find"
      BY <1>1, <2>2, <2>4, GoesOn DEF TeamSteps
    <3>2. Checked(r) /\ Elsewhere(r) /\ r.op \notin ProjectOps /\ r \in Requests
      BY <3>1 DEF Checked, Elsewhere, ProjectOps, Requests
    <3> QED
      BY <1>1, <2>1, <2>2, <3>1, <3>2, SameTeam, TeamPlain
  <2> QED
    BY <1>2, <2>3, <2>4 DEF CountInvites
<1>3. ASSUME NEW op \in TeamOps, op # "accept", At(h, op, "write"), End(h),
             members' \in Rows, members'[Owner] = members[Owner],
             \A u \in Users : Len(members'[u]) <= Len(members[u]),
             OnlyClosing, invites' \in [Invites -> InviteDocs], active' \in BOOLEAN,
             UNCHANGED <<teamHistory, asks, crashes>>
      PROVE  TenancyInv'
  <2>1. req[h].op # "accept"
    BY <1>3, AtTeam
  <2> QED
    BY <1>1, <1>3, <2>1, Ends, TeamPlain DEF ProjectOps
<1>4. UNCHANGED members =>
        members' \in Rows /\ members'[Owner] = members[Owner]
        /\ \A u \in Users : Len(members'[u]) <= Len(members[u])
  BY <1>1, LenProperties DEF Rows
<1>5. UNCHANGED invites => OnlyClosing /\ invites' \in [Invites -> InviteDocs]
  BY <1>1 DEF OnlyClosing
<1>6. CASE PullMember(h)
  <2>1. /\ At(h, "remove", "write") /\ members' = Pull(members, req[h].user) /\ End(h)
        /\ UNCHANGED <<active, invites, teamHistory, asks, crashes>>
    BY <1>6 DEF PullMember
  <2>2. req[h].user \in Users \ {Owner}
    BY <2>1, AtTeam DEF TeamOps, Checked
  <2>3. /\ members' \in Rows /\ members'[Owner] = members[Owner]
        /\ \A u \in Users : Len(members'[u]) <= Len(members[u])
    BY <1>1, <2>1, <2>2, PullRows
  <2> QED
    BY <1>1, <1>3, <1>5, <2>1, <2>3 DEF TeamOps
<1>7. CASE SetRole(h)
  <2>1. /\ At(h, "role", "write") /\ members' = SetFirst(members, req[h].user, req[h].role)
        /\ End(h) /\ UNCHANGED <<active, invites, teamHistory, asks, crashes>>
    BY <1>7 DEF SetRole
  <2>2. /\ req[h].user \in Users /\ req[h].role \in Roles
        /\ req[h].user = Owner => req[h].role = "owner"
    BY <2>1, AtTeam DEF TeamOps, Checked
  <2>3. \A u \in Users : Len(members[u]) \in Nat
    BY <1>1, LenProperties DEF Rows
  <2>4. members' \in Rows /\ \A u \in Users : Len(members'[u]) <= Len(members[u])
    BY <1>1, <2>1, <2>2, <2>3, SetFirstRows
  <2>5. members'[Owner] = members[Owner]
    BY <1>1, <2>1, <2>2, SetFirstRows
  <2> QED
    BY <1>1, <1>3, <1>5, <2>1, <2>4, <2>5 DEF TeamOps
<1>8. CASE DeleteInvite(h)
  <2>1. /\ At(h, "revoke", "write") /\ Close(req[h].inv) /\ End(h)
        /\ UNCHANGED <<active, members, teamHistory, asks, crashes>>
    BY <1>8 DEF DeleteInvite
  <2>2. req[h].inv \in Invites
    BY <2>1, AtTeam DEF TeamOps, Checked
  <2>3. OnlyClosing /\ invites' \in [Invites -> InviteDocs]
    BY <1>1, <2>1, <2>2, CloseOnly
  <2> QED
    BY <1>1, <1>3, <1>4, <2>1, <2>3 DEF TeamOps
<1>9. CASE Deactivate(h)
  <2>1. /\ At(h, "close", "write") /\ active' = FALSE /\ End(h)
        /\ UNCHANGED <<members, invites, teamHistory, asks, crashes>>
    BY <1>9 DEF Deactivate
  <2>2. active' \in BOOLEAN
    BY <2>1
  <2> QED
    BY <1>3, <1>4, <1>5, <2>1, <2>2 DEF TeamOps
<1> QED
  BY <1>2, <1>6, <1>7, <1>8, <1>9

-----------------------------------------------------------------------------
(* Invitations and accepts *)

\* What every step of the workspace keeps.
LEMMA TeamFrame ==
  ASSUME TenancyInv, NEW h \in Handlers, NEW r \in Requests, Checked(r), Becomes(h, r),
         r.op \notin ProjectOps, WorkspaceTypeOK', projectSame, Note(0), Been
  PROVE  /\ TenancyTypeOK' /\ RequestsChecked' /\ OwnInv'
         /\ req'[h] = r /\ \A g \in Handlers \ {h} : req'[g] = req[g]
<1>1. /\ req' \in [Handlers -> {Idle} \cup TeamRequests \cup ProjectRequests]
      /\ RequestsChecked' /\ req'[h] = r /\ \A g \in Handlers \ {h} : req'[g] = req[g]
  BY RequestTypes DEF TenancyInv
<1>2. TenancyTypeOK'
  BY <1>1, TeamTypes DEF TenancyInv
<1>3. OwnInv'
  BY <1>1, <1>2, TeamOwn DEF ProjectOps
<1> QED
  BY <1>1, <1>2, <1>3

LEMMA FindKeeps ==
  ASSUME TenancyInv, NEW h \in Handlers, FindInvite(h), projectSame, Note(0), Been
  PROVE  TenancyInv'
<1>1. At(h, "invite", "find") /\ UNCHANGED <<team, teamHistory, asks, crashes>>
  BY DEF FindInvite
<1>2. req[h] \in TeamRequests /\ req[h].op = "invite" /\ req[h].at = "find" /\ req[h].user \in Users
  BY <1>1, AtTeam DEF TeamOps
<1>3. TenancyTypeOK /\ asks' \in 0..MaxAsks /\ UNCHANGED <<active, members, invites>>
  BY <1>1 DEF TenancyInv, TenancyTypeOK, WorkspaceTypeOK, team
<1>4. CASE End(h)
  BY <1>1, <1>2, <1>3, <1>4, Ends, SameTeam, TeamPlain DEF ProjectOps
<1>5. CASE /\ Go(h, "create")
           /\ ~ \E i \in Pending : invites[i].email = req[h].user
  <2>1. PICK r \in TeamRequests : Becomes(h, r) /\ r.op = "invite" /\ r.at = "create"
                                  /\ r.user = req[h].user
    BY <1>2, <1>3, <1>5, GoesOn DEF TeamSteps
  <2>2. Checked(r) /\ r.op \notin ProjectOps /\ r \in Requests
    BY <2>1 DEF Checked, ProjectOps, Requests
  <2>3. WorkspaceTypeOK'
    BY <1>1, <1>3 DEF TenancyTypeOK, WorkspaceTypeOK, teamHistory
  <2>4. /\ TenancyTypeOK' /\ RequestsChecked' /\ OwnInv'
        /\ req'[h] = r /\ \A g \in Handlers \ {h} : req'[g] = req[g]
    BY <2>1, <2>2, <2>3, TeamFrame
  <2>5. OnlyClosing /\ \A u \in Users : Len(members'[u]) <= Len(members[u])
    BY <1>1, <1>3, SameTeam
  <2>6. JoinsAlone' /\ MembersOnce'
    BY <1>1, <1>3, <2>1, <2>4, <2>5, JoinsSame DEF TenancyInv, TeamInv, teamHistory, For, At, Busy
  <2>7. UsedAlone' /\ NoneUnused' /\ InviteUsedOnce'
    BY <1>1, <1>2, <1>3, <2>1, <2>4, <2>5, UsedSame
       DEF TenancyInv, TeamInv, teamHistory, OnInvite, Busy
  <2>8. OwnerStays' /\ OneOpenPerEmail'
    BY <1>1, <1>3 DEF TenancyInv, TeamInv, OwnerStays, OneOpenPerEmail, Pending, Open, teamHistory
  <2>9. InvitesAlone'
    BY <1>1, <1>3, <1>5, <2>1, <2>4
       DEF TenancyInv, TeamInv, InvitesAlone, Pending, Open, teamHistory, At, Busy
  <2> QED
    BY <2>4, <2>6, <2>7, <2>8, <2>9 DEF TenancyInv, TeamInv
<1> QED
  BY <1>4, <1>5 DEF FindInvite

LEMMA CreateInviteKeeps ==
  ASSUME TenancyInv, NEW h \in Handlers, NEW i \in Invites, CreateInvite(h, i),
         projectSame, Note(0), Been
  PROVE  TenancyInv'
<1> DEFINE new == [state |-> "open", email |-> req[h].user, role |-> req[h].role]
           racers == {req[g].user : g \in Others(h, "invite", "create")} \cap {req[h].user}
<1>1. /\ At(h, "invite", "create") /\ invites[i].state = "none" /\ End(h)
      /\ invites' = [invites EXCEPT ![i] = new] /\ raced' = raced \cup racers
      /\ UNCHANGED <<active, members, joins, twice, shared, torn, asks, crashes>>
  BY DEF CreateInvite
<1>2. /\ req[h] \in TeamRequests /\ req[h].op = "invite" /\ req[h].at = "create"
      /\ req[h].user \in Users /\ req[h].role \in Roles
  BY <1>1, AtTeam DEF TeamOps
<1>3. WorkspaceTypeOK /\ TenancyTypeOK
  BY DEF TenancyInv, TenancyTypeOK
<1>4. new \in InviteDocs
  BY <1>2 DEF InviteDocs, InviteStates
<1>5. WorkspaceTypeOK'
  BY <1>1, <1>2, <1>3, <1>4 DEF WorkspaceTypeOK
<1>6. /\ TenancyTypeOK' /\ RequestsChecked' /\ OwnInv'
      /\ req'[h] = Idle /\ \A g \in Handlers \ {h} : req'[g] = req[g]
  BY <1>1, <1>5, Ends, TeamFrame DEF ProjectOps
<1>7. /\ Open(i)' /\ invites'[i].email = req[h].user
      /\ \A j \in Invites \ {i} : invites'[j] = invites[j] /\ (Open(j)' <=> Open(j))
  BY <1>1, <1>3 DEF WorkspaceTypeOK, Open
<1>8. \A g \in Handlers : OnInvite(g, i)' => FALSE
  BY <1>1, <1>6 DEF TenancyInv, TeamInv, NoneUnused, OnInvite, Busy
<1>9. JoinsAlone' /\ MembersOnce'
  <2>1. \A u \in Users : Len(members'[u]) <= Len(members[u])
    BY <1>1, <1>3, LenProperties DEF WorkspaceTypeOK, Rows
  <2> QED
    BY <1>1, <1>3, <1>6, <2>1, JoinsSame DEF TenancyInv, TeamInv, For, At, Busy
<1>10. UsedAlone' /\ NoneUnused' /\ InviteUsedOnce'
  <2>1. \A g \in Handlers, j \in Invites :
          OnInvite(g, j)' <=> OnInvite(g, j) /\ req'[g] = req[g]
    BY <1>1, <1>2, <1>6 DEF OnInvite, Busy, Idle
  <2>2. joins[i] = 0
    BY <1>1 DEF TenancyInv, TeamInv, NoneUnused
  <2>3. \A j \in (Invites \ {i}) \ (shared \cup torn), g \in Handlers :
          OnInvite(g, j) => req'[g] = req[g]
    BY <1>2, <1>6 DEF OnInvite
  <2>4. UsedAlone'
    <3> SUFFICES ASSUME NEW j \in Invites \ (shared' \cup torn')
                 PROVE  /\ \A f, g \in Handlers : OnInvite(f, j)' /\ OnInvite(g, j)' => f = g
                        /\ \A g \in Handlers : OnInvite(g, j)' /\ req'[g].at # "mark" => joins'[j] = 0
                        /\ Open(j)' => \/ joins'[j] = 0
                                       \/ \E g \in Handlers : OnInvite(g, j)' /\ req'[g].at = "mark"
      BY DEF UsedAlone
    <3>1. j \in Invites \ (shared \cup torn)
      BY <1>1
    <3> QED
      BY <1>1, <1>7, <1>8, <2>1, <2>2, <2>3, <3>1 DEF TenancyInv, TeamInv, UsedAlone
  <2>5. NoneUnused'
    BY <1>1, <1>7, <2>1 DEF TenancyInv, TeamInv, NoneUnused, Open
  <2>6. InviteUsedOnce'
    BY <1>1 DEF TenancyInv, TeamInv, InviteUsedOnce
  <2> QED
    BY <2>4, <2>5, <2>6
<1>11. OneOpenPerEmail'
  <2> SUFFICES ASSUME NEW j \in Invites, NEW k \in Invites, Open(j)', Open(k)', j # k,
                      invites'[j].email = invites'[k].email
               PROVE  invites'[j].email \in raced'
    BY DEF OneOpenPerEmail, Pending
  <2>1. CASE j # i /\ k # i
    BY <1>1, <1>7, <2>1 DEF TenancyInv, TeamInv, OneOpenPerEmail, Pending
  <2>2. CASE j = i \/ k = i
    BY <1>1, <1>7, <2>2 DEF TenancyInv, TeamInv, InvitesAlone
  <2> QED
    BY <2>1, <2>2
<1>12. InvitesAlone'
  <2> SUFFICES ASSUME NEW g \in Handlers, NEW j \in Invites, At(g, "invite", "create")', Open(j)',
                      invites'[j].email = req'[g].user
               PROVE  req'[g].user \in raced'
    BY DEF InvitesAlone
  <2>1. g # h /\ req'[g] = req[g] /\ At(g, "invite", "create")
    BY <1>6 DEF At, Busy
  <2>2. CASE j # i
    BY <1>1, <1>7, <2>1, <2>2 DEF TenancyInv, TeamInv, InvitesAlone
  <2>3. CASE j = i
    BY <1>1, <1>7, <2>1, <2>3 DEF Others
  <2> QED
    BY <2>2, <2>3
<1>13. OwnerStays'
  BY <1>1 DEF TenancyInv, TeamInv, OwnerStays
<1> QED
  BY <1>6, <1>9, <1>10, <1>11, <1>12, <1>13 DEF TenancyInv, TeamInv

\* Accepts say nothing of addresses.
LEMMA AcceptEmails ==
  ASSUME TenancyInv, NEW h \in Handlers, req'[h].op \in {"accept", "idle"},
         \A g \in Handlers \ {h} : req'[g] = req[g], OnlyClosing, raced' = raced
  PROVE  OneOpenPerEmail' /\ InvitesAlone'
BY EmailsSame DEF TenancyInv, TeamInv, At, Busy

LEMMA AcceptKeeps ==
  ASSUME TenancyInv, NEW h \in Handlers, NEW u \in Users, NEW i \in Invites, ~Busy(h),
         Accept(h, u, i), projectSame, Note(0), Been
  PROVE  TenancyInv'
<1> DEFINE r == [op |-> "accept", at |-> "check", user |-> u, inv |-> i,
                 role |-> invites[i].role, root |-> FALSE, team |-> 0]
<1>1. /\ Open(i) /\ Becomes(h, r) /\ UNCHANGED <<team, joins, twice, raced, torn, asks, crashes>>
      /\ shared' = shared \cup {req[g].inv : g \in {g \in Handlers : Accepting(g, i)}}
  BY DEF Accept, MayUse, Becomes
<1>2. TenancyTypeOK /\ WorkspaceTypeOK /\ UNCHANGED <<active, members, invites>>
  BY <1>1 DEF TenancyInv, TenancyTypeOK, team
<1>3. r \in TeamRequests
  BY <1>2 DEF WorkspaceTypeOK, InviteDocs, TeamRequests, TeamOps, TeamSteps
<1>4. r.op = "accept" /\ r.at = "check" /\ r.user = u /\ r.inv = i
  OBVIOUS
<1> HIDE DEF r
<1>5. r \in Requests /\ Checked(r) /\ r.op \notin ProjectOps
  BY <1>3, <1>4 DEF Requests, Checked, ProjectOps
<1>6. {req[g].inv : g \in {g \in Handlers : Accepting(g, i)}} \subseteq {i}
  BY DEF Accepting
<1>7. WorkspaceTypeOK'
  BY <1>1, <1>2, <1>6 DEF WorkspaceTypeOK
<1>8. /\ TenancyTypeOK' /\ RequestsChecked' /\ OwnInv'
      /\ req'[h] = r /\ \A g \in Handlers \ {h} : req'[g] = req[g]
  BY <1>1, <1>5, <1>7, TeamFrame
<1>9. OnlyClosing /\ \A v \in Users : Len(members'[v]) <= Len(members[v])
  BY <1>1, <1>2, SameTeam
<1>10. JoinsAlone' /\ MembersOnce'
  BY <1>1, <1>2, <1>4, <1>8, <1>9, JoinsSame DEF TenancyInv, TeamInv, For, At, Busy
<1>11. \A g \in Handlers, j \in Invites :
         /\ g # h => (OnInvite(g, j)' <=> OnInvite(g, j)) /\ req'[g] = req[g]
         /\ OnInvite(h, j)' => j = i
         /\ ~OnInvite(h, j)
  BY <1>4, <1>8 DEF OnInvite, Busy
<1>12. i \notin shared' => \A g \in Handlers : ~OnInvite(g, i)
  BY <1>1 DEF Accepting, OnInvite
<1>13. UsedAlone'
  <2> SUFFICES ASSUME NEW j \in Invites \ (shared' \cup torn')
               PROVE  /\ \A f, g \in Handlers : OnInvite(f, j)' /\ OnInvite(g, j)' => f = g
                      /\ \A g \in Handlers : OnInvite(g, j)' /\ req'[g].at # "mark" => joins'[j] = 0
                      /\ Open(j)' => \/ joins'[j] = 0
                                     \/ \E g \in Handlers : OnInvite(g, j)' /\ req'[g].at = "mark"
    BY DEF UsedAlone
  <2>1. j \in Invites \ (shared \cup torn) /\ (Open(j)' <=> Open(j))
    BY <1>1, <1>2 DEF Open
  <2>2. CASE j = i
    <3>1. \A g \in Handlers : ~OnInvite(g, i)
      BY <1>12, <2>2
    <3>2. joins[i] = 0
      BY <1>1, <2>1, <2>2, <3>1 DEF TenancyInv, TeamInv, UsedAlone
    <3> QED
      BY <1>1, <1>11, <2>2, <3>1, <3>2
  <2>3. CASE j # i
    BY <1>1, <1>11, <2>1, <2>3 DEF TenancyInv, TeamInv, UsedAlone
  <2> QED
    BY <2>2, <2>3
<1>14. NoneUnused'
  BY <1>1, <1>2, <1>11 DEF TenancyInv, TeamInv, NoneUnused, Open
<1>15. InviteUsedOnce' /\ OwnerStays'
  BY <1>1, <1>2 DEF TenancyInv, TeamInv, InviteUsedOnce, OwnerStays
<1>16. OneOpenPerEmail' /\ InvitesAlone'
  BY <1>1, <1>4, <1>8, <1>9, AcceptEmails
<1> QED
  BY <1>8, <1>10, <1>13, <1>14, <1>15, <1>16 DEF TenancyInv, TeamInv

LEMMA CheckKeeps ==
  ASSUME TenancyInv, NEW h \in Handlers, CheckMember(h), projectSame, Note(0), Been
  PROVE  TenancyInv'
<1>0. PICK u \in Users : u = req[h].user
  BY AtTeam DEF CheckMember, TeamOps
<1> DEFINE rivals == {req[g].user : g \in Others(h, "accept", "save")} \cap {u}
<1>1. /\ At(h, "accept", "check")
      /\ UNCHANGED <<team, joins, shared, raced, torn, asks, crashes>>
  BY DEF CheckMember
<1>2. /\ req[h] \in TeamRequests /\ req[h].op = "accept" /\ req[h].at = "check"
      /\ req[h].inv \in Invites /\ OnInvite(h, req[h].inv)
  BY <1>1, AtTeam DEF TeamOps, Checked, OnInvite
<1>3. TenancyTypeOK /\ WorkspaceTypeOK /\ UNCHANGED <<active, members, invites>>
  BY <1>1 DEF TenancyInv, TenancyTypeOK, team
<1>4. OnlyClosing /\ \A v \in Users : Len(members'[v]) <= Len(members[v])
  BY <1>1, <1>3, SameTeam
<1>5. ASSUME NEW r \in Requests, Becomes(h, r), Checked(r), r.op \in {"accept", "idle"},
             r.op = "accept" => r.at = "save" /\ r.inv = req[h].inv, WorkspaceTypeOK',
             JoinsAlone' /\ MembersOnce'
      PROVE  TenancyInv'
  <2>1. /\ TenancyTypeOK' /\ RequestsChecked' /\ OwnInv'
        /\ req'[h] = r /\ \A g \in Handlers \ {h} : req'[g] = req[g]
    BY <1>5, TeamFrame DEF ProjectOps
  <2>2. \A g \in Handlers, i \in Invites : /\ OnInvite(g, i)' => OnInvite(g, i)
                                           /\ g # h => (OnInvite(g, i) => OnInvite(g, i)')
    BY <1>2, <1>5, <2>1 DEF OnInvite, Busy, Idle
  <2>3. \A g \in Handlers, i \in Invites :
          OnInvite(g, i)' /\ req'[g].at # "mark" => OnInvite(g, i) /\ req[g].at # "mark"
    BY <1>2, <2>1, <2>2
  <2>4. UsedAlone'
    <3> SUFFICES ASSUME NEW j \in Invites \ (shared' \cup torn')
                 PROVE  /\ \A f, g \in Handlers : OnInvite(f, j)' /\ OnInvite(g, j)' => f = g
                        /\ \A g \in Handlers : OnInvite(g, j)' /\ req'[g].at # "mark" => joins'[j] = 0
                        /\ Open(j)' => \/ joins'[j] = 0
                                       \/ \E g \in Handlers : OnInvite(g, j)' /\ req'[g].at = "mark"
      BY DEF UsedAlone
    <3>1. j \in Invites \ (shared \cup torn) /\ (Open(j)' <=> Open(j))
      BY <1>1, <1>3 DEF Open
    <3> QED
      BY <1>1, <1>2, <2>1, <2>2, <2>3, <3>1 DEF TenancyInv, TeamInv, UsedAlone
  <2>5. NoneUnused' /\ InviteUsedOnce' /\ OwnerStays'
    BY <1>1, <1>3, <2>2 DEF TenancyInv, TeamInv, NoneUnused, InviteUsedOnce, OwnerStays
  <2>6. OneOpenPerEmail' /\ InvitesAlone'
    BY <1>1, <1>4, <1>5, <2>1, AcceptEmails
  <2> QED
    BY <1>5, <2>1, <2>4, <2>5, <2>6 DEF TenancyInv, TeamInv
<1>6. CASE MayJoin(u)
  <2>1. Go(h, "save") /\ twice' = twice \cup rivals
    BY <1>0, <1>6 DEF CheckMember
  <2>2. PICK r \in TeamRequests : /\ Becomes(h, r) /\ r.op = "accept" /\ r.at = "save"
                                  /\ r.user = u /\ r.inv = req[h].inv
    BY <1>0, <1>2, <1>3, <2>1, GoesOn DEF TeamSteps
  <2>3. members[u] = <<>> /\ u # Owner
    <3>1. members[u] = <<>>
      BY <1>6 DEF MayJoin, IsIn
    <3>2. Len(members[u]) = 0
      BY <3>1, EmptySeq
    <3>3. Len(members[Owner]) = 1
      BY DEF TenancyInv, TeamInv, OwnerStays
    <3>4. u # Owner
      BY <3>2, <3>3
    <3> QED
      BY <3>1, <3>4
  <2>4. Checked(r) /\ r \in Requests
    BY <1>2, <2>2, <2>3 DEF Checked, Requests
  <2>5. WorkspaceTypeOK'
    BY <1>1, <1>2, <1>3, <2>1 DEF WorkspaceTypeOK
  <2>6. req'[h] = r /\ \A g \in Handlers \ {h} : req'[g] = req[g]
    BY <2>2, <2>4, RequestTypes DEF TenancyInv
  <2>7. \A g \in Handlers \ {h}, v \in Users :
          For(g, "accept", "save", v)' <=> For(g, "accept", "save", v)
    BY <2>6 DEF For, At, Busy
  <2>8. u \notin twice' => \A g \in Handlers \ {h} : ~For(g, "accept", "save", u)
    BY <2>1 DEF Others, For
  <2>9. \A v \in Users : For(h, "accept", "save", v)' => v = u
    BY <2>2, <2>6 DEF For
  <2>10. JoinsAlone'
    <3> SUFFICES ASSUME NEW v \in Users \ twice', NEW f \in Handlers, NEW g \in Handlers,
                        For(g, "accept", "save", v)'
                 PROVE  Len(members'[v]) = 0 /\ (For(f, "accept", "save", v)' => f = g)
      BY DEF JoinsAlone
    <3>1. v \notin twice
      BY <2>1
    <3>2. CASE v = u
      <4>1. g = h
        BY <2>7, <2>8, <3>2
      <4>2. Len(members'[v]) = 0
        BY <1>3, <2>3, <3>2, EmptySeq
      <4> QED
        BY <2>7, <2>8, <3>2, <4>1, <4>2
    <3>3. CASE v # u
      <4>1. g # h
        BY <2>9, <3>3
      <4> QED
        BY <1>3, <2>7, <2>9, <3>1, <3>3, <4>1 DEF TenancyInv, TeamInv, JoinsAlone
    <3> QED
      BY <3>2, <3>3
  <2>11. MembersOnce'
    BY <1>3, <2>1 DEF TenancyInv, TeamInv, MembersOnce
  <2> QED
    BY <1>5, <2>2, <2>4, <2>5, <2>10, <2>11
<1>7. CASE ~MayJoin(u)
  <2>1. End(h) /\ twice' = twice
    BY <1>0, <1>7 DEF CheckMember
  <2>2. WorkspaceTypeOK'
    BY <1>1, <1>3, <2>1 DEF WorkspaceTypeOK
  <2>3. TenancyTypeOK'
    BY <2>1, <2>2, Ends, TeamFrame DEF ProjectOps
  <2>4. \A g \in Handlers, v \in Users :
          For(g, "accept", "save", v)' => For(g, "accept", "save", v)
    BY <1>3, <2>1 DEF For, At, Busy, End, TenancyTypeOK, Idle
  <2>5. JoinsAlone' /\ MembersOnce'
    BY <1>3, <1>4, <2>1, <2>3, <2>4, JoinsSame DEF TenancyInv, TeamInv
  <2> QED
    BY <1>5, <2>1, <2>2, <2>5, Ends
<1> QED
  BY <1>6, <1>7

LEMMA SaveKeeps ==
  ASSUME TenancyInv, NEW h \in Handlers, SaveMember(h), projectSame, Note(0), Been
  PROVE  TenancyInv'
<1>0. PICK u \in Users, i \in Invites : u = req[h].user /\ i = req[h].inv
  BY AtTeam DEF SaveMember, TeamOps, Checked
<1>1. /\ At(h, "accept", "save") /\ members' = Push(members, u, req[h].role)
      /\ joins' = [joins EXCEPT ![i] = @ + 1] /\ Go(h, "mark")
      /\ UNCHANGED <<active, invites, twice, shared, raced, torn, asks, crashes>>
  BY <1>0 DEF SaveMember
<1>2. /\ req[h] \in TeamRequests /\ req[h].op = "accept" /\ req[h].at = "save"
      /\ u # Owner /\ req[h].role \in Roles /\ OnInvite(h, i)
  BY <1>0, <1>1, AtTeam DEF TeamOps, Checked, OnInvite
<1>3. TenancyTypeOK /\ WorkspaceTypeOK /\ members \in Rows
  BY DEF TenancyInv, TenancyTypeOK, WorkspaceTypeOK
<1>4. PICK r \in TeamRequests : /\ Becomes(h, r) /\ r.op = "accept" /\ r.at = "mark"
                                /\ r.user = u /\ r.inv = i
  BY <1>0, <1>1, <1>2, <1>3, GoesOn DEF TeamSteps
<1>5. r \in Requests /\ Checked(r) /\ r.op \notin ProjectOps
  BY <1>2, <1>4 DEF Requests, Checked, ProjectOps
<1>6. /\ members' \in Rows /\ Len(members'[u]) = Len(members[u]) + 1
      /\ \A v \in Users \ {u} : members'[v] = members[v]
  BY <1>1, <1>2, <1>3, PushRows
<1>7. WorkspaceTypeOK' /\ joins'[i] = joins[i] + 1 /\ \A j \in Invites \ {i} : joins'[j] = joins[j]
  BY <1>1, <1>2, <1>3, <1>6 DEF WorkspaceTypeOK
<1>8. /\ TenancyTypeOK' /\ RequestsChecked' /\ OwnInv'
      /\ req'[h] = r /\ \A g \in Handlers \ {h} : req'[g] = req[g]
  BY <1>4, <1>5, <1>7, TeamFrame
<1>9. OnlyClosing
  BY <1>1 DEF OnlyClosing
<1>10. \A g \in Handlers, v \in Users :
         For(g, "accept", "save", v)' => g # h /\ For(g, "accept", "save", v)
  BY <1>4, <1>8 DEF For, At, Busy
<1>11. For(h, "accept", "save", u)
  BY <1>0, <1>1 DEF For
<1>12. u \notin twice => Len(members[u]) = 0 /\ \A g \in Handlers : ~For(g, "accept", "save", u)'
  <2> SUFFICES ASSUME u \notin twice
               PROVE  /\ Len(members[u]) = 0
                      /\ \A g \in Handlers : For(g, "accept", "save", u) => g = h
    BY <1>2, <1>10
  <2>1. JoinsAlone /\ u \in Users \ twice
    BY <1>2 DEF TenancyInv, TeamInv
  <2> QED
    BY <1>11, <2>1 DEF JoinsAlone
<1>13. JoinsAlone' /\ MembersOnce'
  <2>1. ASSUME NEW v \in Users \ twice'
        PROVE  /\ Len(members'[v]) <= 1
               /\ \A f, g \in Handlers :
                    For(g, "accept", "save", v)' =>
                      Len(members'[v]) = 0 /\ (For(f, "accept", "save", v)' => f = g)
    <3>1. v \notin twice
      BY <1>1
    <3>2. CASE v = u
      <4>1. Len(members'[u]) = 0 + 1 /\ \A g \in Handlers : ~For(g, "accept", "save", u)'
        BY <1>6, <1>12, <3>1, <3>2
      <4> QED
        BY <3>2, <4>1
    <3>3. CASE v # u
      BY <1>6, <1>10, <3>1, <3>3 DEF TenancyInv, TeamInv, JoinsAlone, MembersOnce
    <3> QED
      BY <3>2, <3>3
  <2> QED
    BY <2>1 DEF JoinsAlone, MembersOnce
<1>14. \A g \in Handlers, j \in Invites : OnInvite(g, j)' <=> OnInvite(g, j)
  BY <1>0, <1>2, <1>4, <1>8 DEF OnInvite, Busy, Idle
<1>15. i \notin shared \cup torn => joins[i] = 0 /\ \A g \in Handlers : OnInvite(g, i) => g = h
  BY <1>2 DEF TenancyInv, TeamInv, UsedAlone
<1>16. UsedAlone'
  <2> SUFFICES ASSUME NEW j \in Invites \ (shared' \cup torn')
               PROVE  /\ \A f, g \in Handlers : OnInvite(f, j)' /\ OnInvite(g, j)' => f = g
                      /\ \A g \in Handlers : OnInvite(g, j)' /\ req'[g].at # "mark" => joins'[j] = 0
                      /\ Open(j)' => \/ joins'[j] = 0
                                     \/ \E g \in Handlers : OnInvite(g, j)' /\ req'[g].at = "mark"
    BY DEF UsedAlone
  <2>1. j \in Invites \ (shared \cup torn) /\ (Open(j)' <=> Open(j))
    BY <1>1 DEF Open
  <2>2. CASE j = i
    BY <1>2, <1>4, <1>8, <1>14, <1>15, <2>1, <2>2
  <2>3. CASE j # i
    <3>1. ~OnInvite(h, j)
      BY <1>0, <2>3 DEF OnInvite
    <3> QED
      BY <1>7, <1>8, <1>14, <2>1, <2>3, <3>1 DEF TenancyInv, TeamInv, UsedAlone
  <2> QED
    BY <2>2, <2>3
<1>17. NoneUnused'
  <2>1. invites[i].state # "none"
    BY <1>2 DEF TenancyInv, TeamInv, NoneUnused
  <2> QED
    BY <1>1, <1>7, <1>14, <2>1 DEF TenancyInv, TeamInv, NoneUnused
<1>18. InviteUsedOnce'
  BY <1>1, <1>7, <1>15 DEF TenancyInv, TeamInv, InviteUsedOnce
<1>19. OwnerStays'
  BY <1>2, <1>6, WorkspaceAssumption DEF TenancyInv, TeamInv, OwnerStays
<1>20. OneOpenPerEmail' /\ InvitesAlone'
  BY <1>1, <1>4, <1>8, <1>9, AcceptEmails
<1> QED
  BY <1>8, <1>13, <1>16, <1>17, <1>18, <1>19, <1>20 DEF TenancyInv, TeamInv

LEMMA MarkKeeps ==
  ASSUME TenancyInv, NEW h \in Handlers, MarkAccepted(h), projectSame, Note(0), Been
  PROVE  TenancyInv'
<1>1. PICK i \in Invites : i = req[h].inv
  BY AtTeam DEF MarkAccepted, TeamOps, Checked
<1>2. /\ At(h, "accept", "mark") /\ Close(i) /\ End(h)
      /\ UNCHANGED <<active, members, teamHistory, asks, crashes>>
  BY <1>1 DEF MarkAccepted
<1>3. TenancyTypeOK /\ WorkspaceTypeOK
  BY DEF TenancyInv, TenancyTypeOK
<1>4. OnlyClosing /\ ~Open(i)' /\ invites' \in [Invites -> InviteDocs]
  BY <1>2, <1>3, CloseOnly
<1>5. WorkspaceTypeOK'
  BY <1>2, <1>3, <1>4 DEF WorkspaceTypeOK, teamHistory
<1>6. /\ TenancyTypeOK' /\ RequestsChecked' /\ OwnInv'
      /\ req'[h] = Idle /\ \A g \in Handlers \ {h} : req'[g] = req[g]
  BY <1>2, <1>5, Ends, TeamFrame DEF ProjectOps
<1>7. UsedAlone' /\ NoneUnused' /\ InviteUsedOnce'
  <2>1. /\ \A g \in Handlers, j \in Invites :
             OnInvite(g, j)' => OnInvite(g, j) /\ req'[g].at = req[g].at
        /\ \A j \in Invites : OnInvite(h, j) => j = i
        /\ \A g \in Handlers \ {h}, j \in Invites :
             OnInvite(g, j) => OnInvite(g, j)' /\ req'[g].at = req[g].at
    BY <1>1, <1>6 DEF OnInvite, Busy
  <2> QED
    BY <1>2, <1>3, <1>4, <1>6, <2>1, UsedSame DEF TenancyInv, TeamInv, teamHistory
<1>8. JoinsAlone' /\ MembersOnce'
  <2>1. \A u \in Users : Len(members'[u]) <= Len(members[u])
    BY <1>2, <1>3, LenProperties DEF WorkspaceTypeOK, Rows
  <2> QED
    BY <1>2, <1>3, <1>6, <2>1, JoinsSame DEF TenancyInv, TeamInv, teamHistory, For, At, Busy
<1>9. OwnerStays'
  BY <1>2 DEF TenancyInv, TeamInv, OwnerStays
<1>10. OneOpenPerEmail' /\ InvitesAlone'
  BY <1>2, <1>4, <1>6, AcceptEmails DEF Idle, teamHistory
<1> QED
  BY <1>6, <1>7, <1>8, <1>9, <1>10 DEF TenancyInv, TeamInv

LEMMA ExpireKeeps ==
  ASSUME TenancyInv, NEW i \in Invites, ExpireInvite(i), projectSame, Note(0), Been
  PROVE  TenancyInv'
<1>1. Close(i) /\ UNCHANGED <<active, members, req, asks, crashes, teamHistory>>
  BY DEF ExpireInvite
<1>2. TenancyTypeOK /\ WorkspaceTypeOK /\ Owner \in Users
  BY WorkspaceAssumption DEF TenancyInv, TenancyTypeOK
<1>3. OnlyClosing /\ invites' \in [Invites -> InviteDocs]
  BY <1>1, <1>2, CloseOnly
<1>4. WorkspaceTypeOK'
  BY <1>1, <1>2, <1>3 DEF WorkspaceTypeOK, teamHistory
<1>5. TenancyTypeOK'
  BY <1>1, <1>2, <1>4, TeamTypes DEF TenancyTypeOK
<1>6. \A u \in Users : Len(members'[u]) <= Len(members[u])
  BY <1>1, <1>2, LenProperties DEF WorkspaceTypeOK, Rows
<1>7. TeamInv'
  BY <1>1, <1>3, <1>5, <1>6, TeamSame
<1>8. OwnInv'
  BY <1>1, <1>5, TeamOwn
<1>9. RequestsChecked'
  BY <1>1 DEF TenancyInv, RequestsChecked, Checked
<1> QED
  BY <1>5, <1>7, <1>8, <1>9 DEF TenancyInv

LEMMA CrashKeeps ==
  ASSUME TenancyInv, Crash, projectSame, Note(0), Been
  PROVE  TenancyInv'
<1> DEFINE cut == {req[h].inv : h \in {h \in Handlers : At(h, "accept", "mark")}}
<1>1. /\ crashes < MaxCrashes /\ crashes' = crashes + 1 /\ req' = [h \in Handlers |-> Idle]
      /\ torn' = torn \cup cut
      /\ UNCHANGED <<active, members, invites, joins, twice, shared, raced, asks>>
  BY DEF Crash, team
<1>2. TenancyTypeOK /\ WorkspaceTypeOK
  BY DEF TenancyInv, TenancyTypeOK
<1>3. cut \subseteq Invites
  BY AtTeam DEF TeamOps, Checked
<1>4. WorkspaceTypeOK'
  BY <1>1, <1>2, <1>3, WorkspaceAssumption DEF WorkspaceTypeOK
<1>5. TenancyTypeOK' /\ \A h \in Handlers : req'[h] = Idle /\ Idle.op = "idle"
  BY <1>1, <1>2, <1>4, TeamTypes DEF Idle
<1>6. OwnInv'
  BY <1>5, TeamOwn
<1>7. RequestsChecked'
  BY <1>5 DEF RequestsChecked, Checked
<1>8. OnlyClosing /\ \A u \in Users : Len(members'[u]) <= Len(members[u])
  BY <1>1, <1>2, LenProperties DEF OnlyClosing, WorkspaceTypeOK, Rows
<1>9. JoinsAlone' /\ MembersOnce'
  BY <1>1, <1>2, <1>5, <1>8, JoinsSame DEF TenancyInv, TeamInv, For, At, Busy
<1>10. UsedAlone' /\ NoneUnused' /\ InviteUsedOnce'
  <2>1. \A h \in Handlers, i \in Invites : ~OnInvite(h, i)'
    BY <1>5 DEF OnInvite, Busy
  <2>2. \A h \in Handlers, i \in Invites :
          OnInvite(h, i) /\ req[h].at = "mark" => i \in torn'
    BY <1>1 DEF OnInvite, At
  <2> QED
    BY <1>1, <1>2, <1>5, <1>8, <2>1, <2>2, UsedSame DEF TenancyInv, TeamInv
<1>11. OneOpenPerEmail' /\ InvitesAlone'
  BY <1>1, <1>2, <1>5, <1>8, EmailsSame DEF TenancyInv, TeamInv, At, Busy
<1>12. OwnerStays'
  BY <1>1 DEF TenancyInv, TeamInv, OwnerStays
<1> QED
  BY <1>5, <1>6, <1>7, <1>9, <1>10, <1>11, <1>12 DEF TenancyInv, TeamInv

LEMMA WorkspaceKeeps ==
  ASSUME TenancyInv, WorkspaceNext, projectSame, Note(0), Been
  PROVE  TenancyInv'
<1>1. ASSUME NEW h \in Handlers, TeamStep(h)
      PROVE  TenancyInv'
  BY <1>1, PlainSteps, FindKeeps, CreateInviteKeeps, CheckKeeps, SaveKeeps, MarkKeeps DEF TeamStep
<1> QED
  BY <1>1, TeamRequestKeeps, AcceptKeeps, ExpireKeeps, CrashKeeps DEF WorkspaceNext

-----------------------------------------------------------------------------
(* Steps of the project *)

projectTypes ==
  /\ rows \in Rows /\ deleted \in BOOLEAN /\ linked \in BOOLEAN
  /\ cached \in [Users -> [role : Roles \cup {"none"}, ttl : 0..RoleTtl]]
  /\ \A u \in Users : cached[u].role = "none" <=> cached[u].ttl = 0
  /\ defaults \in [Users -> Nat] /\ room \subseteq Users
  /\ added \subseteq Users /\ doubled \subseteq Users

LEMMA ProjectFrame ==
  ASSUME TenancyInv, NEW h \in Handlers, NEW r \in Requests, Becomes(h, r),
         r.op \notin TeamOps, req[h].op \notin TeamOps,
         UNCHANGED <<team, teamHistory, crashes>>, asks' \in 0..MaxAsks,
         projectTypes', Note(0), Been
  PROVE  /\ TenancyTypeOK' /\ RequestsChecked' /\ TeamInv'
         /\ req'[h] = r /\ \A g \in Handlers \ {h} : req'[g] = req[g]
<1>1. Checked(r)
  BY DEF Checked, TeamOps
<1>2. /\ req' \in [Handlers -> {Idle} \cup TeamRequests \cup ProjectRequests]
      /\ RequestsChecked' /\ req'[h] = r /\ \A g \in Handlers \ {h} : req'[g] = req[g]
  BY <1>1, RequestTypes DEF TenancyInv
<1>3. WorkspaceTypeOK'
  BY DEF TenancyInv, TenancyTypeOK, WorkspaceTypeOK, team, teamHistory
<1>4. TenancyTypeOK'
  BY <1>2, <1>3, TypesNext DEF TenancyInv, projectTypes
<1>5. /\ OnlyClosing /\ members'[Owner] = members[Owner]
      /\ \A u \in Users : Len(members'[u]) <= Len(members[u])
  BY SameTeam DEF TenancyInv
<1>6. TeamInv'
  BY <1>2, <1>4, <1>5, TeamSame DEF Elsewhere, TeamOps
<1> QED
  BY <1>2, <1>4, <1>6

LEMMA ProjectPlain ==
  ASSUME TenancyInv, NEW h \in Handlers, NEW r \in Requests, Becomes(h, r),
         r.op \notin TeamOps \cup {"add", "default", "watch", "enter"}, req[h].op \notin TeamOps,
         UNCHANGED <<team, teamHistory, crashes>>, asks' \in 0..MaxAsks,
         UNCHANGED <<cached, defaults, room, added, doubled>>,
         rows' \in Rows, \A u \in Users : Len(rows'[u]) <= Len(rows[u]),
         deleted' \in BOOLEAN, linked' \in BOOLEAN, Note(0), Been
  PROVE  TenancyInv'
<1>1. projectTypes'
  BY DEF projectTypes, TenancyInv, TenancyTypeOK
<1>2. /\ TenancyTypeOK' /\ RequestsChecked' /\ TeamInv'
      /\ req'[h] = r /\ \A g \in Handlers \ {h} : req'[g] = req[g]
  BY <1>1, ProjectFrame
<1>3. OwnInv'
  BY <1>2, OwnSame
<1> QED
  BY <1>2, <1>3 DEF TenancyInv

LEMMA SameRows ==
  ASSUME TenancyTypeOK, UNCHANGED project
  PROVE  /\ rows' \in Rows /\ \A u \in Users : Len(rows'[u]) <= Len(rows[u])
         /\ deleted' \in BOOLEAN /\ linked' \in BOOLEAN
BY LenProperties DEF TenancyTypeOK, project, Rows

Opened(h, op, step, u, role) ==
  \E r \in Requests :
    /\ Becomes(h, r) /\ r.op = op /\ r.at = step /\ r.user = u /\ r.role = role
    /\ r.lag = 0 /\ r.op \notin TeamOps
LEMMA Serves ==
  ASSUME TenancyInv, NEW h \in Handlers, ~Busy(h), NEW op \in ProjectOps,
         NEW step \in {"write", "workspace", "fill"}, NEW u \in Users, NEW role \in Roles,
         NEW ws \in BOOLEAN, Serve(h, op, step, u, role, ws)
  PROVE  /\ UNCHANGED <<team, teamHistory, crashes, project, cached, defaults, room>>
         /\ req[h].op \notin TeamOps
         /\ Opened(h, op, step, u, role)
<1> DEFINE r == [op |-> op, at |-> step, user |-> u, role |-> role, ws |-> ws, lag |-> 0]
<1>1. r \in ProjectRequests
  BY ProjectAssumption DEF ProjectRequests
<1>2. r.op = op /\ r.at = step /\ r.user = u /\ r.role = role /\ r.lag = 0
  OBVIOUS
<1>3. Becomes(h, r) /\ UNCHANGED <<team, teamHistory, crashes, project, cached, defaults, room>>
  BY DEF Serve, Becomes
<1>4. req[h].op \notin TeamOps
  BY DEF Busy, Idle, TeamOps
<1>5. r \in Requests /\ op \notin TeamOps
  BY <1>1 DEF Requests, ProjectOps, TeamOps
<1>6. Opened(h, op, step, u, role)
  BY <1>2, <1>3, <1>5 DEF Opened
<1> QED
  BY <1>3, <1>4, <1>6

LEMMA PlainRequests ==
  ASSUME TenancyInv, NEW h \in Handlers, ~Busy(h), asks < MaxAsks, NEW u \in Users,
         NEW op \in {"drop", "grade", "link", "erase"}, NEW role \in Roles, NEW ws \in BOOLEAN,
         Begin(h, op, u, role, ws), UNCHANGED <<added, doubled>>, Note(0), Been
  PROVE  TenancyInv'
<1>1. Serve(h, op, "write", u, role, ws) /\ asks' = asks + 1 /\ op \in ProjectOps
  BY DEF Begin, ProjectOps
<1>2. asks' \in 0..MaxAsks /\ TenancyTypeOK
  BY <1>1, WorkspaceAssumption DEF TenancyInv, TenancyTypeOK, WorkspaceTypeOK
<1>3. /\ UNCHANGED <<team, teamHistory, crashes, project, cached, defaults, room>>
      /\ req[h].op \notin TeamOps /\ Opened(h, op, "write", u, role)
  BY <1>1, Serves
<1>4. PICK r \in Requests : Becomes(h, r) /\ r.op = op /\ r.op \notin TeamOps
  BY <1>3 DEF Opened
<1> QED
  BY <1>2, <1>3, <1>4, SameRows, ProjectPlain

\* The request in hand is one of the project's.
LEMMA AtProject ==
  ASSUME TenancyInv, NEW h \in Handlers, NEW op \in ProjectOps, NEW step, At(h, op, step)
  PROVE  /\ req[h] \in ProjectRequests /\ req[h].op = op /\ req[h].at = step /\ Busy(h)
         /\ req[h].user \in Users /\ req[h].role \in Roles /\ req[h].op \notin TeamOps
         /\ req[h].ws \in BOOLEAN /\ req[h].lag \in Nat /\ req[h].lag <= MaxLag
<1>1. req[h] \in Requests /\ req[h].op = op /\ req[h].at = step /\ Busy(h)
  BY DEF At, TenancyInv, TenancyTypeOK, Requests
<1>2. /\ req[h] \in ProjectRequests /\ req[h].user \in Users /\ req[h].role \in Roles
      /\ req[h].op \notin TeamOps /\ req[h].lag \in Nat /\ req[h].lag <= MaxLag
  BY <1>1, RequestKinds DEF TeamOps, ProjectOps
<1>3. req[h].ws \in BOOLEAN
  BY <1>2 DEF ProjectRequests
<1> QED
  BY <1>1, <1>2, <1>3

LEMMA PlainWrites ==
  ASSUME TenancyInv, NEW h \in Handlers, DropMember(h) \/ SetMemberRole(h) \/ Link(h) \/ Erase(h),
         Note(0), Been
  PROVE  TenancyInv'
<1>1. /\ TenancyTypeOK /\ rows \in Rows /\ deleted \in BOOLEAN /\ linked \in BOOLEAN
      /\ asks \in 0..MaxAsks /\ \A u \in Users : Len(rows[u]) \in Nat
  BY LenProperties DEF TenancyInv, TenancyTypeOK, WorkspaceTypeOK, Rows
<1>2. ASSUME NEW op \in ProjectOps, At(h, op, "write"), End(h), UNCHANGED projectRest,
             UNCHANGED <<cached, defaults, room, added, doubled>>,
             rows' \in Rows, \A u \in Users : Len(rows'[u]) <= Len(rows[u]),
             deleted' \in BOOLEAN, linked' \in BOOLEAN
      PROVE  TenancyInv'
  <2>1. req[h].op \notin TeamOps
    BY <1>2, AtProject
  <2>2. UNCHANGED <<team, teamHistory, crashes>> /\ asks' \in 0..MaxAsks
    BY <1>1, <1>2 DEF projectRest
  <2> QED
    BY <1>2, <2>1, <2>2, Ends, ProjectPlain DEF TeamOps
<1>3. CASE DropMember(h)
  <2>1. req[h].user \in Users
    BY <1>3, AtProject DEF DropMember, ProjectOps
  <2>2. rows' \in Rows /\ \A u \in Users : Len(rows'[u]) <= Len(rows[u])
    BY <1>1, <1>3, <2>1, PullRows DEF DropMember
  <2> QED
    BY <1>1, <1>2, <1>3, <2>2 DEF DropMember, ProjectOps
<1>4. CASE SetMemberRole(h)
  <2>1. req[h].user \in Users /\ req[h].role \in Roles
    BY <1>4, AtProject DEF SetMemberRole, ProjectOps
  <2>2. rows' \in Rows /\ \A u \in Users : Len(rows'[u]) <= Len(rows[u])
    BY <1>1, <1>4, <2>1, SetFirstRows DEF SetMemberRole
  <2> QED
    BY <1>1, <1>2, <1>4, <2>2 DEF SetMemberRole, ProjectOps
<1>5. CASE Link(h)
  <2>1. req[h].ws \in BOOLEAN
    BY <1>5, AtProject DEF Link, ProjectOps
  <2> QED
    BY <1>1, <1>2, <1>5, <2>1 DEF Link, ProjectOps
<1>6. CASE Erase(h)
  BY <1>1, <1>2, <1>6 DEF Erase, ProjectOps
<1> QED
  BY <1>3, <1>4, <1>5, <1>6

\* A request of the handler h that begins or ends leaves the others where they are.
LEMMA OtherKinds ==
  ASSUME NEW h \in Handlers, NEW kind, req'[h].op # kind,
         \A g \in Handlers \ {h} : req'[g] = req[g]
  PROVE  \A step, u : \A g \in Handlers :
           /\ At(g, kind, step)' => At(g, kind, step) /\ req'[g] = req[g]
           /\ For(g, kind, step, u)' => For(g, kind, step, u)
BY DEF For, At, Busy

LEMMA AddKeeps ==
  ASSUME TenancyInv, NEW h \in Handlers, ~Busy(h), asks < MaxAsks, NEW u \in Users,
         NEW role \in Roles, AddMember(h, u, role), Note(0), Been
  PROVE  TenancyInv'
<1> DEFINE rivals == {req[g].user : g \in Others(h, "add", "write")} \cap {u}
<1>0. "add" \in ProjectOps /\ "write" \in {"write", "workspace", "fill"} /\ FALSE \in BOOLEAN
  BY DEF ProjectOps
<1>1. /\ ~IsIn(rows, u) /\ Serve(h, "add", "write", u, role, FALSE) /\ asks' = asks + 1
      /\ added' = added \cup rivals /\ doubled' = doubled
  BY DEF AddMember, Begin
<1>2. TenancyTypeOK /\ asks' \in 0..MaxAsks
  BY <1>1, WorkspaceAssumption DEF TenancyInv, TenancyTypeOK, WorkspaceTypeOK
<1>3. /\ UNCHANGED <<team, teamHistory, crashes, project, cached, defaults, room>>
      /\ req[h].op \notin TeamOps /\ Opened(h, "add", "write", u, role)
  BY <1>0, <1>1, Serves
<1>4. PICK r \in Requests : /\ Becomes(h, r) /\ r.op = "add" /\ r.at = "write" /\ r.user = u
                            /\ r.op \notin TeamOps
  BY <1>3 DEF Opened
<1>5. projectTypes' /\ rows' = rows
  BY <1>1, <1>2, <1>3 DEF projectTypes, TenancyTypeOK, project
<1>6. /\ TenancyTypeOK' /\ RequestsChecked' /\ TeamInv'
      /\ req'[h] = r /\ \A g \in Handlers \ {h} : req'[g] = req[g]
  BY <1>2, <1>3, <1>4, <1>5, ProjectFrame
<1>7. DefaultsAlone' /\ OneDefault'
  BY <1>1, <1>3, <1>4, <1>6, OtherKinds, DefaultsSame DEF TenancyInv, OwnInv
<1>8. Rooms' /\ RoomOfMembers'
  BY <1>3, <1>4, <1>6, OtherKinds, RoomsSame DEF TenancyInv, OwnInv
<1>9. RoleBounded' /\ ReadLately'
  BY <1>2, <1>3, <1>4, <1>6, TimeSame DEF TenancyInv, OwnInv
<1>10. ProjectRowsOnce'
  BY <1>1, <1>5 DEF TenancyInv, OwnInv, ProjectRowsOnce
<1>11. AddsAlone'
  <2> SUFFICES ASSUME NEW v \in Users \ added', NEW f \in Handlers, NEW g \in Handlers,
                      For(g, "add", "write", v)'
               PROVE  Len(rows'[v]) = 0 /\ (For(f, "add", "write", v)' => f = g)
    BY DEF AddsAlone
  <2>1. \A e \in Handlers \ {h}, w \in Users :
          For(e, "add", "write", w)' <=> For(e, "add", "write", w)
    BY <1>6 DEF For, At, Busy
  <2>2. \A w \in Users : For(h, "add", "write", w)' => w = u
    BY <1>4, <1>6 DEF For
  <2>3. u \notin added' => \A e \in Handlers \ {h} : ~For(e, "add", "write", u)
    BY <1>1 DEF Others, For
  <2>4. v \notin added
    BY <1>1
  <2>5. CASE v = u
    <3>1. g = h
      BY <2>1, <2>3, <2>5
    <3>2. Len(rows'[v]) = 0
      BY <1>1, <1>5, <2>5, EmptySeq DEF IsIn
    <3> QED
      BY <2>1, <2>3, <2>5, <3>1, <3>2
  <2>6. CASE v # u
    <3>1. g # h
      BY <2>2, <2>6
    <3> QED
      BY <1>5, <2>1, <2>2, <2>4, <2>6, <3>1 DEF TenancyInv, OwnInv, AddsAlone
  <2> QED
    BY <2>5, <2>6
<1> QED
  BY <1>6, <1>7, <1>8, <1>9, <1>10, <1>11 DEF TenancyInv, OwnInv

\* What the end of a request of the project keeps.
LEMMA EndFrame ==
  ASSUME TenancyInv, NEW h \in Handlers, NEW op \in ProjectOps, NEW step, At(h, op, step), End(h),
         UNCHANGED projectRest, projectTypes', Note(0), Been
  PROVE  /\ TenancyTypeOK' /\ RequestsChecked' /\ TeamInv'
         /\ req'[h] = Idle /\ Idle.op = "idle" /\ \A g \in Handlers \ {h} : req'[g] = req[g]
<1>1. UNCHANGED <<team, teamHistory, crashes>> /\ asks' \in 0..MaxAsks
  BY DEF projectRest, TenancyInv, TenancyTypeOK, WorkspaceTypeOK
<1>2. req[h].op \notin TeamOps
  BY AtProject
<1>3. Becomes(h, Idle) /\ Idle \in Requests /\ Idle.op = "idle" /\ Idle.op \notin TeamOps
  BY Ends DEF TeamOps
<1> QED
  BY <1>1, <1>2, <1>3, ProjectFrame

LEMMA PushKeeps ==
  ASSUME TenancyInv, NEW h \in Handlers, PushMember(h), Note(0), Been
  PROVE  TenancyInv'
<1>1. PICK u \in Users, role \in Roles : u = req[h].user /\ role = req[h].role
  BY AtProject DEF PushMember, ProjectOps
<1>2. /\ At(h, "add", "write") /\ rows' = Push(rows, u, role) /\ End(h)
      /\ UNCHANGED <<projectRest, deleted, linked, cached, defaults, room, added, doubled>>
  BY <1>1 DEF PushMember
<1>3. TenancyTypeOK /\ rows \in Rows
  BY DEF TenancyInv, TenancyTypeOK
<1>4. /\ rows' \in Rows /\ Len(rows'[u]) = Len(rows[u]) + 1
      /\ \A v \in Users \ {u} : rows'[v] = rows[v]
  BY <1>2, <1>3, PushRows
<1>5. projectTypes'
  BY <1>2, <1>3, <1>4 DEF projectTypes, TenancyTypeOK
<1>6. /\ TenancyTypeOK' /\ RequestsChecked' /\ TeamInv'
      /\ req'[h] = Idle /\ Idle.op = "idle" /\ \A g \in Handlers \ {h} : req'[g] = req[g]
  BY <1>2, <1>5, EndFrame DEF ProjectOps
<1>7. DefaultsAlone' /\ OneDefault'
  BY <1>2, <1>6, OtherKinds, DefaultsSame DEF TenancyInv, OwnInv
<1>8. Rooms' /\ RoomOfMembers'
  BY <1>2, <1>6, OtherKinds, RoomsSame DEF TenancyInv, OwnInv
<1>9. RoleBounded' /\ ReadLately'
  BY <1>2, <1>3, <1>6, TimeSame DEF TenancyInv, OwnInv
<1>10. \A g \in Handlers, v \in Users :
         For(g, "add", "write", v)' => g # h /\ For(g, "add", "write", v)
  BY <1>6 DEF For, At, Busy
<1>11. For(h, "add", "write", u)
  BY <1>1, <1>2 DEF For
<1>12. u \notin added => Len(rows[u]) = 0 /\ \A g \in Handlers : ~For(g, "add", "write", u)'
  <2> SUFFICES ASSUME u \notin added
               PROVE  Len(rows[u]) = 0 /\ \A g \in Handlers : For(g, "add", "write", u) => g = h
    BY <1>10
  <2> QED
    BY <1>11 DEF TenancyInv, OwnInv, AddsAlone
<1>13. ASSUME NEW v \in Users \ added'
       PROVE  /\ Len(rows'[v]) <= 1
              /\ \A f, g \in Handlers :
                   For(g, "add", "write", v)' =>
                     Len(rows'[v]) = 0 /\ (For(f, "add", "write", v)' => f = g)
  <2>1. v \notin added
    BY <1>2
  <2>2. CASE v = u
    <3>1. Len(rows'[u]) = 0 + 1 /\ \A g \in Handlers : ~For(g, "add", "write", u)'
      BY <1>4, <1>12, <2>1, <2>2
    <3> QED
      BY <2>2, <3>1
  <2>3. CASE v # u
    BY <1>4, <1>10, <2>1, <2>3 DEF TenancyInv, OwnInv, AddsAlone, ProjectRowsOnce
  <2> QED
    BY <2>2, <2>3
<1>14. AddsAlone' /\ ProjectRowsOnce'
  BY <1>13 DEF AddsAlone, ProjectRowsOnce
<1> QED
  BY <1>6, <1>7, <1>8, <1>9, <1>14 DEF TenancyInv, OwnInv

LEMMA ResolveKeeps ==
  ASSUME TenancyInv, NEW h \in Handlers, ~Busy(h), asks < MaxAsks, NEW u \in Users,
         ResolveDefault(h, u), Note(0), Been
  PROVE  TenancyInv'
<1> DEFINE rivals == {req[g].user : g \in Others(h, "default", "write")} \cap {u}
<1>0. /\ "default" \in ProjectOps /\ "write" \in {"write", "workspace", "fill"}
      /\ FALSE \in BOOLEAN /\ "viewer" \in Roles
  BY DEF ProjectOps, Roles
<1>1. /\ ~HasProject(u) /\ Serve(h, "default", "write", u, "viewer", FALSE) /\ asks' = asks + 1
      /\ doubled' = doubled \cup rivals /\ added' = added
  BY DEF ResolveDefault, Begin
<1>2. TenancyTypeOK /\ asks' \in 0..MaxAsks
  BY <1>1, WorkspaceAssumption DEF TenancyInv, TenancyTypeOK, WorkspaceTypeOK
<1>3. /\ UNCHANGED <<team, teamHistory, crashes, project, cached, defaults, room>>
      /\ req[h].op \notin TeamOps /\ Opened(h, "default", "write", u, "viewer")
  BY <1>0, <1>1, Serves
<1>4. PICK r \in Requests : /\ Becomes(h, r) /\ r.op = "default" /\ r.at = "write" /\ r.user = u
                            /\ r.op \notin TeamOps
  BY <1>3 DEF Opened
<1>5. projectTypes'
  BY <1>1, <1>2, <1>3 DEF projectTypes, TenancyTypeOK, project
<1>6. /\ TenancyTypeOK' /\ RequestsChecked' /\ TeamInv'
      /\ req'[h] = r /\ \A g \in Handlers \ {h} : req'[g] = req[g]
  BY <1>2, <1>3, <1>4, <1>5, ProjectFrame
<1>7. AddsAlone' /\ ProjectRowsOnce'
  BY <1>1, <1>2, <1>3, <1>4, <1>6, OtherKinds, SameRows, AddsSame DEF TenancyInv, OwnInv
<1>8. Rooms' /\ RoomOfMembers'
  BY <1>3, <1>4, <1>6, OtherKinds, RoomsSame DEF TenancyInv, OwnInv
<1>9. RoleBounded' /\ ReadLately'
  BY <1>2, <1>3, <1>4, <1>6, TimeSame DEF TenancyInv, OwnInv
<1>10. OneDefault'
  BY <1>1, <1>3 DEF TenancyInv, OwnInv, OneDefault
<1>11. DefaultsAlone'
  <2> SUFFICES ASSUME NEW v \in Users \ doubled', NEW f \in Handlers, NEW g \in Handlers,
                      For(g, "default", "write", v)'
               PROVE  defaults'[v] = 0 /\ (For(f, "default", "write", v)' => f = g)
    BY DEF DefaultsAlone
  <2>1. \A e \in Handlers \ {h}, w \in Users :
          For(e, "default", "write", w)' <=> For(e, "default", "write", w)
    BY <1>6 DEF For, At, Busy
  <2>2. \A w \in Users : For(h, "default", "write", w)' => w = u
    BY <1>4, <1>6 DEF For
  <2>3. u \notin doubled' => \A e \in Handlers \ {h} : ~For(e, "default", "write", u)
    BY <1>1 DEF Others, For
  <2>4. v \notin doubled
    BY <1>1
  <2>5. CASE v = u
    <3>1. g = h
      BY <2>1, <2>3, <2>5
    <3>2. defaults[u] = 0
      BY <1>1, <1>2 DEF HasProject, TenancyTypeOK
    <3> QED
      BY <1>3, <2>1, <2>3, <2>5, <3>1, <3>2
  <2>6. CASE v # u
    <3>1. g # h
      BY <2>2, <2>6
    <3> QED
      BY <1>3, <2>1, <2>2, <2>4, <2>6, <3>1 DEF TenancyInv, OwnInv, DefaultsAlone
  <2> QED
    BY <2>5, <2>6
<1> QED
  BY <1>6, <1>7, <1>8, <1>9, <1>10, <1>11 DEF TenancyInv, OwnInv

LEMMA CreateDefaultKeeps ==
  ASSUME TenancyInv, NEW h \in Handlers, CreateDefault(h), Note(0), Been
  PROVE  TenancyInv'
<1>1. PICK u \in Users : u = req[h].user
  BY AtProject DEF CreateDefault, ProjectOps
<1>2. /\ At(h, "default", "write") /\ defaults' = [defaults EXCEPT ![u] = @ + 1] /\ End(h)
      /\ UNCHANGED <<projectRest, project, cached, room, added, doubled>>
  BY <1>1 DEF CreateDefault
<1>3. TenancyTypeOK /\ rows' = rows
  BY <1>2 DEF TenancyInv, project
<1>4. projectTypes'
  BY <1>2, <1>3 DEF projectTypes, TenancyTypeOK, project
<1>5. /\ TenancyTypeOK' /\ RequestsChecked' /\ TeamInv'
      /\ req'[h] = Idle /\ Idle.op = "idle" /\ \A g \in Handlers \ {h} : req'[g] = req[g]
  BY <1>2, <1>4, EndFrame DEF ProjectOps
<1>6. AddsAlone' /\ ProjectRowsOnce'
  BY <1>2, <1>3, <1>5, OtherKinds, SameRows, AddsSame DEF TenancyInv, OwnInv
<1>7. Rooms' /\ RoomOfMembers'
  BY <1>2, <1>5, OtherKinds, RoomsSame DEF TenancyInv, OwnInv
<1>8. RoleBounded' /\ ReadLately'
  BY <1>2, <1>3, <1>5, TimeSame DEF TenancyInv, OwnInv
<1>9. \A g \in Handlers, v \in Users :
        For(g, "default", "write", v)' => g # h /\ For(g, "default", "write", v)
  BY <1>5 DEF For, At, Busy
<1>10. For(h, "default", "write", u)
  BY <1>1, <1>2 DEF For
<1>11. u \notin doubled =>
         defaults[u] = 0 /\ \A g \in Handlers : For(g, "default", "write", u) => g = h
  BY <1>10 DEF TenancyInv, OwnInv, DefaultsAlone
<1>12. defaults'[u] = defaults[u] + 1 /\ \A v \in Users \ {u} : defaults'[v] = defaults[v]
  BY <1>2, <1>3 DEF TenancyTypeOK
<1>13. ASSUME NEW v \in Users \ doubled'
       PROVE  /\ defaults'[v] <= 1
              /\ \A f, g \in Handlers :
                   For(g, "default", "write", v)' =>
                     defaults'[v] = 0 /\ (For(f, "default", "write", v)' => f = g)
  <2>1. v \notin doubled
    BY <1>2
  <2>2. CASE v = u
    <3>1. defaults'[u] = 0 + 1 /\ \A g \in Handlers : ~For(g, "default", "write", u)'
      BY <1>9, <1>11, <1>12, <2>1, <2>2
    <3> QED
      BY <2>2, <3>1
  <2>3. CASE v # u
    BY <1>9, <1>12, <2>1, <2>3 DEF TenancyInv, OwnInv, DefaultsAlone, OneDefault
  <2> QED
    BY <2>2, <2>3
<1>14. DefaultsAlone' /\ OneDefault'
  BY <1>13 DEF DefaultsAlone, OneDefault
<1> QED
  BY <1>5, <1>6, <1>7, <1>8, <1>14 DEF TenancyInv, OwnInv

LEMMA SubscribeKeeps ==
  ASSUME TenancyInv, NEW h \in Handlers, ~Busy(h), NEW u \in Users, Subscribe(h, u), Note(0), Been
  PROVE  TenancyInv'
<1>0. /\ "watch" \in ProjectOps /\ "write" \in {"write", "workspace", "fill"}
      /\ FALSE \in BOOLEAN /\ "viewer" \in Roles
  BY DEF ProjectOps, Roles
<1>1. /\ InProject(u) /\ Serve(h, "watch", "write", u, "viewer", FALSE)
      /\ UNCHANGED <<asks, added, doubled>>
  BY DEF Subscribe, Start
<1>2. TenancyTypeOK /\ asks' \in 0..MaxAsks
  BY <1>1 DEF TenancyInv, TenancyTypeOK, WorkspaceTypeOK
<1>3. /\ UNCHANGED <<team, teamHistory, crashes, project, cached, defaults, room>>
      /\ req[h].op \notin TeamOps /\ Opened(h, "watch", "write", u, "viewer")
  BY <1>0, <1>1, Serves
<1>4. PICK r \in Requests : /\ Becomes(h, r) /\ r.op = "watch" /\ r.at = "write" /\ r.user = u
                            /\ r.op \notin TeamOps
  BY <1>3 DEF Opened
<1>5. projectTypes'
  BY <1>1, <1>2, <1>3 DEF projectTypes, TenancyTypeOK, project
<1>6. /\ TenancyTypeOK' /\ RequestsChecked' /\ TeamInv'
      /\ req'[h] = r /\ \A g \in Handlers \ {h} : req'[g] = req[g]
  BY <1>2, <1>3, <1>4, <1>5, ProjectFrame
<1>7. AddsAlone' /\ ProjectRowsOnce'
  BY <1>1, <1>2, <1>3, <1>4, <1>6, OtherKinds, SameRows, AddsSame DEF TenancyInv, OwnInv
<1>8. DefaultsAlone' /\ OneDefault'
  BY <1>1, <1>3, <1>4, <1>6, OtherKinds, DefaultsSame DEF TenancyInv, OwnInv
<1>9. RoleBounded' /\ ReadLately'
  BY <1>2, <1>3, <1>4, <1>6, TimeSame DEF TenancyInv, OwnInv
<1>10. Rooms' /\ RoomOfMembers'
  <2>1. been \subseteq been' /\ {v \in Users : InProject(v)'} \subseteq been'
    BY DEF Been
  <2>2. u \in been
    BY <1>1 DEF TenancyInv, OwnInv, Rooms
  <2>3. \A g \in Handlers : At(g, "watch", "write")' => req'[g].user \in been'
    BY <1>4, <1>6, <2>1, <2>2 DEF TenancyInv, OwnInv, Rooms, At, Busy
  <2> QED
    BY <1>3, <2>1, <2>3 DEF TenancyInv, OwnInv, Rooms, RoomOfMembers
<1> QED
  BY <1>6, <1>7, <1>8, <1>9, <1>10 DEF TenancyInv, OwnInv

LEMMA JoinKeeps ==
  ASSUME TenancyInv, NEW h \in Handlers, Join(h), Note(0), Been
  PROVE  TenancyInv'
<1>1. /\ At(h, "watch", "write") /\ room' = room \cup {req[h].user} /\ End(h)
      /\ UNCHANGED <<projectRest, project, cached, defaults, added, doubled>>
  BY DEF Join
<1>2. TenancyTypeOK /\ req[h].user \in Users
  BY <1>1, AtProject DEF ProjectOps, TenancyInv
<1>3. projectTypes'
  BY <1>1, <1>2 DEF projectTypes, TenancyTypeOK, project
<1>4. /\ TenancyTypeOK' /\ RequestsChecked' /\ TeamInv'
      /\ req'[h] = Idle /\ Idle.op = "idle" /\ \A g \in Handlers \ {h} : req'[g] = req[g]
  BY <1>1, <1>3, EndFrame DEF ProjectOps
<1>5. AddsAlone' /\ ProjectRowsOnce'
  BY <1>1, <1>2, <1>4, OtherKinds, SameRows, AddsSame DEF TenancyInv, OwnInv
<1>6. DefaultsAlone' /\ OneDefault'
  BY <1>1, <1>4, OtherKinds, DefaultsSame DEF TenancyInv, OwnInv
<1>7. RoleBounded' /\ ReadLately'
  BY <1>1, <1>2, <1>4, TimeSame DEF TenancyInv, OwnInv
<1>8. Rooms' /\ RoomOfMembers'
  <2>1. been \subseteq been' /\ {v \in Users : InProject(v)'} \subseteq been'
    BY DEF Been
  <2>2. room' \subseteq been'
    BY <1>1, <2>1 DEF TenancyInv, OwnInv, Rooms, RoomOfMembers
  <2>3. \A g \in Handlers : At(g, "watch", "write")' => req'[g].user \in been'
    BY <1>4, <2>1 DEF TenancyInv, OwnInv, Rooms, At, Busy
  <2> QED
    BY <2>1, <2>2, <2>3 DEF Rooms, RoomOfMembers
<1> QED
  BY <1>4, <1>5, <1>6, <1>7, <1>8 DEF TenancyInv, OwnInv

LEMMA LeaveKeeps ==
  ASSUME TenancyInv, NEW u \in Users, Leave(u), Note(0), Been
  PROVE  TenancyInv'
<1>1. /\ room' = room \ {u}
      /\ UNCHANGED <<team, teamHistory, asks, crashes, req, project, cached, defaults, added, doubled>>
  BY DEF Leave, projectRest
<1>2. TenancyTypeOK /\ WorkspaceTypeOK
  BY DEF TenancyInv, TenancyTypeOK
<1>3. WorkspaceTypeOK'
  BY <1>1, <1>2 DEF WorkspaceTypeOK, team, teamHistory
<1>4. TenancyTypeOK'
  BY <1>1, <1>2, <1>3, SameRows, TypesNext DEF TenancyTypeOK
<1>5. RequestsChecked'
  BY <1>1 DEF TenancyInv, RequestsChecked, Checked
<1>6. TeamInv'
  BY <1>1, <1>2, <1>4, SameTeam, TeamSame
<1>7. OwnInv'
  BY <1>1, <1>2, <1>4, SameRows, OwnSame
<1> QED
  BY <1>4, <1>5, <1>6, <1>7 DEF TenancyInv

LEMMA DropDefaultKeeps ==
  ASSUME TenancyInv, NEW u \in Users, DropDefault(u), Note(0), Been
  PROVE  TenancyInv'
<1>1. /\ defaults[u] > 0 /\ defaults' = [defaults EXCEPT ![u] = @ - 1]
      /\ UNCHANGED <<team, teamHistory, asks, crashes, req, project, cached, room, added, doubled>>
  BY DEF DropDefault, projectRest
<1>2. TenancyTypeOK /\ WorkspaceTypeOK
  BY DEF TenancyInv, TenancyTypeOK
<1>3. WorkspaceTypeOK'
  BY <1>1, <1>2 DEF WorkspaceTypeOK, team, teamHistory
<1>4. /\ defaults \in [Users -> Nat] /\ defaults' \in [Users -> Nat]
      /\ \A v \in Users : defaults'[v] <= defaults[v]
  BY <1>1, <1>2 DEF TenancyTypeOK
<1>5. TenancyTypeOK'
  <2>1. projectTypes'
    BY <1>1, <1>2, <1>4 DEF projectTypes, TenancyTypeOK, project
  <2> QED
    BY <1>1, <1>2, <1>3, <2>1, TypesNext DEF projectTypes, TenancyTypeOK
<1>6. RequestsChecked'
  BY <1>1 DEF TenancyInv, RequestsChecked, Checked
<1>7. TeamInv'
  BY <1>1, <1>2, <1>5, SameTeam, TeamSame
<1>8. AddsAlone' /\ ProjectRowsOnce'
  BY <1>1, <1>2, <1>5, SameRows, AddsSame DEF TenancyInv, OwnInv, project, For, At, Busy
<1>9. DefaultsAlone'
  <2>1. \A h \in Handlers, v \in Users : For(h, "default", "write", v)' = For(h, "default", "write", v)
    BY <1>1 DEF For, At, Busy
  <2>2. \A v \in Users : defaults[v] = 0 => defaults'[v] = 0
    BY <1>4
  <2> QED
    BY <1>1, <2>1, <2>2 DEF TenancyInv, OwnInv, DefaultsAlone
<1>10. OneDefault'
  BY <1>1, <1>4 DEF TenancyInv, OwnInv, OneDefault
<1>11. Rooms' /\ RoomOfMembers'
  BY <1>1, RoomsSame DEF TenancyInv, OwnInv, At, Busy
<1>12. RoleBounded' /\ ReadLately'
  BY <1>1, <1>2, <1>5, TimeSame DEF TenancyInv, OwnInv
<1> QED
  BY <1>5, <1>6, <1>7, <1>8, <1>9, <1>10, <1>11, <1>12 DEF TenancyInv, OwnInv

\* The guard's steps leave everything but its own request and the roles in Redis.
LEMMA GuardRest ==
  ASSUME TenancyInv, TenancyTypeOK', NEW h \in Handlers, UNCHANGED <<project, defaults, room>>,
         UNCHANGED <<added, doubled>>, Been, req'[h].op \in {"enter", "idle"},
         \A g \in Handlers \ {h} : req'[g] = req[g]
  PROVE  AddsAlone' /\ ProjectRowsOnce' /\ DefaultsAlone' /\ OneDefault' /\ Rooms' /\ RoomOfMembers'
<1>1. AddsAlone' /\ ProjectRowsOnce'
  BY OtherKinds, SameRows, AddsSame DEF TenancyInv, OwnInv
<1>2. DefaultsAlone' /\ OneDefault'
  BY OtherKinds, DefaultsSame DEF TenancyInv, OwnInv
<1>3. Rooms' /\ RoomOfMembers'
  BY OtherKinds, RoomsSame DEF TenancyInv, OwnInv
<1> QED
  BY <1>1, <1>2, <1>3

LEMMA TimeNumbers ==
  ASSUME TenancyTypeOK
  PROVE  /\ RoleTtl \in Nat /\ MaxLag \in Nat
         /\ \A u \in Users : /\ away[u] \in Nat
                             /\ \A r \in Roles : age[u][r] \in Nat
                             /\ cached[u].ttl \in Nat /\ cached[u].ttl <= RoleTtl
                             /\ cached[u].role # "none" => cached[u].role \in Roles
         /\ \A g \in Handlers : req[g].op = "enter" =>
              req[g].user \in Users /\ req[g].role \in Roles /\ req[g].lag \in Nat
<1>1. RoleTtl \in Nat /\ MaxLag \in Nat /\ Oldest \in Nat
  BY ProjectAssumption DEF Oldest
<1>2. \A u \in Users : away[u] \in Nat /\ \A r \in Roles : age[u][r] \in Nat
  BY <1>1 DEF TenancyTypeOK
<1>3. \A u \in Users : /\ cached[u].ttl \in Nat /\ cached[u].ttl <= RoleTtl
                       /\ cached[u].role # "none" => cached[u].role \in Roles
  BY <1>1 DEF TenancyTypeOK
<1>4. \A g \in Handlers : req[g].op = "enter" =>
        req[g].user \in Users /\ req[g].role \in Roles /\ req[g].lag \in Nat
  BY RequestKinds DEF TenancyTypeOK, Requests, TeamOps
<1> QED
  BY <1>1, <1>2, <1>3, <1>4

\* Nothing has become older by more than the ticks.
LEMMA Younger ==
  ASSUME TenancyTypeOK, TenancyTypeOK', NEW ticks \in {0, 1}, Note(ticks)
  PROVE  \A v \in Users :
           /\ away[v] \in Nat /\ away'[v] \in Nat /\ away'[v] <= away[v] + ticks
           /\ Near(v)' => away'[v] = 0
           /\ \A x \in Roles : /\ age[v][x] \in Nat /\ age'[v][x] \in Nat
                               /\ age'[v][x] <= age[v][x] + ticks
                               /\ Given(v, x)' => age'[v][x] = 0
<1>1. Oldest \in Nat
  BY ProjectAssumption DEF Oldest
<1>2. \A v \in Users : away[v] \in Nat /\ \A x \in Roles : age[v][x] \in Nat
  BY <1>1 DEF TenancyTypeOK
<1>3. \A v \in Users : away'[v] \in Nat /\ \A x \in Roles : age'[v][x] \in Nat
  BY <1>1 DEF TenancyTypeOK
<1> QED
  BY <1>2, <1>3, NoteKeeps

\* A step of the guard that stores no role.
LEMMA GuardTime ==
  ASSUME TenancyInv, TenancyTypeOK', Note(0), cached' = cached, NEW h \in Handlers,
         \A g \in Handlers \ {h} : req'[g] = req[g]
  PROVE  /\ RoleBounded'
         /\ \A g \in Handlers \ {h} :
              /\ At(g, "enter", "workspace")' => away'[req'[g].user] <= req'[g].lag
              /\ At(g, "enter", "fill")' =>
                   away'[req'[g].user] <= req'[g].lag /\ age'[req'[g].user][req'[g].role] <= req'[g].lag
<1>1. TenancyTypeOK /\ RoleBounded /\ ReadLately
  BY DEF TenancyInv, OwnInv
<1>2. \A v \in Users : /\ away[v] \in Nat /\ away'[v] \in Nat /\ away'[v] <= away[v]
                       /\ \A x \in Roles : /\ age[v][x] \in Nat /\ age'[v][x] \in Nat
                                           /\ age'[v][x] <= age[v][x]
  <2>1. 0 \in {0, 1}
    OBVIOUS
  <2> QED
    BY <1>1, <2>1, Younger
<1>3. RoleBounded'
  BY <1>1, <1>2, TimeNumbers DEF RoleBounded
<1>4. ASSUME NEW g \in Handlers \ {h}
      PROVE  /\ At(g, "enter", "workspace")' => away'[req'[g].user] <= req'[g].lag
             /\ At(g, "enter", "fill")' =>
                  away'[req'[g].user] <= req'[g].lag /\ age'[req'[g].user][req'[g].role] <= req'[g].lag
  <2>1. req'[g] = req[g]
    OBVIOUS
  <2>2. req[g].op = "enter" =>
          req[g].user \in Users /\ req[g].role \in Roles /\ req[g].lag \in Nat
    BY <1>1, TimeNumbers
  <2> QED
    BY <1>1, <1>2, <2>1, <2>2 DEF ReadLately, At, Busy
<1> QED
  BY <1>3, <1>4

LEMMA EnterKeeps ==
  ASSUME TenancyInv, NEW h \in Handlers, ~Busy(h), NEW u \in Users, Enter(h, u), Note(0), Been
  PROVE  TenancyInv'
<1> DEFINE own == OwnRole(u) # "none"
           step == IF own THEN "fill" ELSE "workspace"
           role == IF own THEN OwnRole(u) ELSE "viewer"
<1>1. TenancyTypeOK /\ rows \in Rows
  BY DEF TenancyInv, TenancyTypeOK
<1>2. /\ Serve(h, "enter", step, u, role, FALSE) /\ UNCHANGED <<asks, added, doubled>>
      /\ Near(u)
  BY DEF Enter, Start, Near
<1>3. /\ "enter" \in ProjectOps /\ step \in {"write", "workspace", "fill"} /\ FALSE \in BOOLEAN
      /\ role \in Roles
  BY <1>1, FirstRole DEF ProjectOps, OwnRole, Roles
<1> HIDE DEF step, role
<1>4. /\ UNCHANGED <<team, teamHistory, crashes, project, cached, defaults, room>>
      /\ req[h].op \notin TeamOps /\ Opened(h, "enter", step, u, role)
  BY <1>2, <1>3, Serves
<1>5. PICK r \in Requests : /\ Becomes(h, r) /\ r.op = "enter" /\ r.at = step /\ r.user = u
                            /\ r.role = role /\ r.lag = 0 /\ r.op \notin TeamOps
  BY <1>4 DEF Opened
<1>6. projectTypes' /\ asks' \in 0..MaxAsks
  BY <1>1, <1>2, <1>4 DEF projectTypes, TenancyTypeOK, WorkspaceTypeOK, project
<1>7. /\ TenancyTypeOK' /\ RequestsChecked' /\ TeamInv'
      /\ req'[h] = r /\ \A g \in Handlers \ {h} : req'[g] = req[g]
  BY <1>4, <1>5, <1>6, ProjectFrame
<1>8. AddsAlone' /\ ProjectRowsOnce' /\ DefaultsAlone' /\ OneDefault' /\ Rooms' /\ RoomOfMembers'
  BY <1>2, <1>4, <1>5, <1>7, GuardRest
<1>9. /\ away'[u] = 0
      /\ own => age'[u][role] = 0
  <2>1. UNCHANGED <<deleted, linked, rows, members, active>>
    BY <1>4 DEF project, team
  <2>2. Near(u)'
    BY <1>2, <2>1 DEF Near, OwnRole
  <2>3. PICK x \in Roles : x = role
    BY <1>3
  <2>4. own => Given(u, x)'
    BY <2>1, <2>3 DEF Given, OwnRole, role
  <2>5. 0 \in {0, 1}
    OBVIOUS
  <2> QED
    BY <1>1, <1>7, <2>2, <2>3, <2>4, <2>5, Younger
<1>10. RoleBounded'
  BY <1>4, <1>7, GuardTime
<1>11. ReadLately'
  <2>1. \A g \in Handlers \ {h} :
          /\ At(g, "enter", "workspace")' => away'[req'[g].user] <= req'[g].lag
          /\ At(g, "enter", "fill")' =>
               away'[req'[g].user] <= req'[g].lag /\ age'[req'[g].user][req'[g].role] <= req'[g].lag
    BY <1>4, <1>7, GuardTime
  <2>2. At(h, "enter", "fill")' => own
    BY <1>5, <1>7 DEF At, step
  <2> QED
    BY <1>5, <1>7, <1>9, <2>1, <2>2 DEF ReadLately
<1> QED
  BY <1>7, <1>8, <1>10, <1>11 DEF TenancyInv, OwnInv

LEMMA ReadWorkspaceKeeps ==
  ASSUME TenancyInv, NEW h \in Handlers, ReadWorkspace(h), Note(0), Been
  PROVE  TenancyInv'
<1> DEFINE u == req[h].user
           role == IF active THEN RoleIn(members, u) ELSE "none"
           r == [req[h] EXCEPT !.at = "fill", !.role = role]
<1>1. /\ At(h, "enter", "workspace")
      /\ IF role = "none" THEN End(h) ELSE req' = [req EXCEPT ![h].at = "fill", ![h].role = role]
      /\ UNCHANGED <<projectRest, project, cached, defaults, room, added, doubled>>
  BY DEF ReadWorkspace
<1>2. /\ TenancyTypeOK /\ members \in Rows /\ u \in Users /\ "enter" \in ProjectOps
      /\ req \in [Handlers -> {Idle} \cup TeamRequests \cup ProjectRequests]
      /\ req[h] \in ProjectRequests /\ req[h].op = "enter" /\ req[h].op \notin TeamOps
      /\ req[h].lag \in Nat
  BY <1>1, AtProject DEF ProjectOps, TenancyInv, TenancyTypeOK, WorkspaceTypeOK
<1>3. UNCHANGED <<team, teamHistory, crashes>> /\ asks' \in 0..MaxAsks
  BY <1>1, <1>2 DEF projectRest, TenancyTypeOK, WorkspaceTypeOK
<1>4. CASE role = "none"
  <2>1. Becomes(h, Idle) /\ Idle \in Requests /\ Idle.op = "idle"
    BY <1>1, <1>4, Ends
  <2>2. Idle.op \notin TeamOps \cup {"add", "default", "watch", "enter"}
    BY <2>1 DEF TeamOps
  <2> QED
    BY <1>1, <1>2, <1>3, <2>1, <2>2, SameRows, ProjectPlain
<1>5. CASE role # "none"
  <2>1. active /\ role = RoleIn(members, u) /\ role \in Roles
    BY <1>2, <1>5, FirstRole
  <2>2. r \in ProjectRequests /\ r.op = "enter" /\ r.at = "fill" /\ r.user = u /\ r.lag = req[h].lag
    BY <1>2, <2>1 DEF ProjectRequests
  <2>3. r.role = role
    BY <1>2 DEF ProjectRequests
  <2>4. Becomes(h, r)
    BY <1>1, <1>2, <1>5 DEF Becomes
  <2>5. PICK next \in Requests : /\ next.op = "enter" /\ next.at = "fill" /\ next.user = u
                                 /\ next.lag = req[h].lag /\ next.role = role
                                 /\ Becomes(h, next) /\ next.op \notin TeamOps
    BY <2>2, <2>3, <2>4 DEF Requests, TeamOps
  <2>6. projectTypes'
    BY <1>1, <1>2 DEF projectTypes, TenancyTypeOK, project
  <2>7. /\ TenancyTypeOK' /\ RequestsChecked' /\ TeamInv'
        /\ req'[h] = next /\ \A g \in Handlers \ {h} : req'[g] = req[g]
    BY <1>2, <1>3, <2>5, <2>6, ProjectFrame
  <2>8. AddsAlone' /\ ProjectRowsOnce' /\ DefaultsAlone' /\ OneDefault' /\ Rooms' /\ RoomOfMembers'
    BY <1>1, <2>5, <2>7, GuardRest
  <2>9. PICK v \in Users : v = u
    BY <1>2
  <2>10. PICK x \in Roles : x = role
    BY <2>1
  <2>11. away'[v] <= req[h].lag /\ age'[v][x] <= req[h].lag
    <3>1. UNCHANGED <<active, members>>
      BY <1>3 DEF team
    <3>2. Given(v, x)'
      BY <2>1, <2>9, <2>10, <3>1 DEF Given
    <3>3. away[v] <= req[h].lag
      BY <1>1, <2>9 DEF TenancyInv, OwnInv, ReadLately
    <3>4. 0 \in {0, 1}
      OBVIOUS
    <3>5. /\ away[v] \in Nat /\ away'[v] \in Nat /\ away'[v] <= away[v]
          /\ age'[v][x] = 0
      BY <1>2, <2>7, <3>2, <3>4, Younger
    <3> QED
      BY <1>2, <3>3, <3>5
  <2>12. RoleBounded'
    BY <1>1, <2>7, GuardTime
  <2>13. ReadLately'
    <3>1. \A g \in Handlers \ {h} :
            /\ At(g, "enter", "workspace")' => away'[req'[g].user] <= req'[g].lag
            /\ At(g, "enter", "fill")' =>
                 away'[req'[g].user] <= req'[g].lag /\ age'[req'[g].user][req'[g].role] <= req'[g].lag
      BY <1>1, <2>7, GuardTime
    <3>2. req'[h].at = "fill" /\ req'[h].user = v /\ req'[h].role = x /\ req'[h].lag = req[h].lag
      BY <2>5, <2>7, <2>9, <2>10
    <3> QED
      BY <2>11, <3>1, <3>2 DEF ReadLately, At
  <2> QED
    BY <2>7, <2>8, <2>12, <2>13 DEF TenancyInv, OwnInv
<1> QED
  BY <1>4, <1>5

\* The role that is stored was the user's, and the project there for him, as long ago
\* as the request has taken; and that is no longer than MaxLag.
LEMMA FillKeeps ==
  ASSUME TenancyInv, NEW h \in Handlers, Fill(h), Note(0), Been
  PROVE  TenancyInv'
<1>1. /\ At(h, "enter", "fill")
      /\ cached' = [cached EXCEPT ![req[h].user] = [role |-> req[h].role, ttl |-> RoleTtl]]
      /\ End(h) /\ UNCHANGED <<projectRest, project, defaults, room, added, doubled>>
  BY DEF Fill
<1>2. /\ TenancyTypeOK /\ req[h].role \in Roles /\ "enter" \in ProjectOps
      /\ req[h].lag \in Nat /\ req[h].lag <= MaxLag /\ req[h].user \in Users
  BY <1>1, AtProject DEF ProjectOps, TenancyInv
<1>3. PICK u \in Users : u = req[h].user
  BY <1>2
<1>4. PICK x \in Roles : x = req[h].role /\ x # "none"
  BY <1>2 DEF Roles
<1> DEFINE entry == [role |-> x, ttl |-> RoleTtl]
<1>5. /\ RoleTtl \in Nat /\ RoleTtl # 0 /\ MaxLag \in Nat
      /\ entry \in [role : Roles \cup {"none"}, ttl : 0..RoleTtl]
      /\ entry.role = x /\ entry.ttl = RoleTtl
  BY ProjectAssumption
<1>6. /\ cached' \in [Users -> [role : Roles \cup {"none"}, ttl : 0..RoleTtl]]
      /\ cached'[u] = entry /\ \A v \in Users \ {u} : cached'[v] = cached[v]
  BY <1>1, <1>2, <1>3, <1>4, <1>5 DEF TenancyTypeOK
<1>7. projectTypes'
  <2>1. \A v \in Users : cached'[v].role = "none" <=> cached'[v].ttl = 0
    BY <1>2, <1>4, <1>5, <1>6 DEF TenancyTypeOK
  <2> QED
    BY <1>1, <1>2, <1>6, <2>1 DEF projectTypes, TenancyTypeOK, project
<1>8. /\ TenancyTypeOK' /\ RequestsChecked' /\ TeamInv'
      /\ req'[h] = Idle /\ Idle.op = "idle" /\ \A g \in Handlers \ {h} : req'[g] = req[g]
  BY <1>1, <1>2, <1>7, EndFrame
<1>9. AddsAlone' /\ ProjectRowsOnce' /\ DefaultsAlone' /\ OneDefault' /\ Rooms' /\ RoomOfMembers'
  BY <1>1, <1>8, GuardRest
<1>10. \A v \in Users : /\ away[v] \in Nat /\ away'[v] \in Nat /\ away'[v] <= away[v]
                        /\ \A y \in Roles : /\ age[v][y] \in Nat /\ age'[v][y] \in Nat
                                            /\ age'[v][y] <= age[v][y]
  <2>1. 0 \in {0, 1}
    OBVIOUS
  <2> QED
    BY <1>2, <1>8, <2>1, Younger
<1>11. RoleBounded'
  <2>1. away[u] <= req[h].lag /\ age[u][x] <= req[h].lag
    BY <1>1, <1>3, <1>4 DEF TenancyInv, OwnInv, ReadLately
  <2>2. away'[u] <= (RoleTtl - RoleTtl) + MaxLag /\ age'[u][x] <= (RoleTtl - RoleTtl) + MaxLag
    BY <1>2, <1>5, <1>10, <2>1
  <2>3. ASSUME NEW v \in Users \ {u}, cached[v].role # "none"
        PROVE  /\ age'[v][cached[v].role] <= (RoleTtl - cached[v].ttl) + MaxLag
               /\ away'[v] <= (RoleTtl - cached[v].ttl) + MaxLag
    <3>1. PICK y \in Roles : y = cached[v].role
      BY <1>2, <2>3, TimeNumbers
    <3>2. PICK n \in Nat : n = cached[v].ttl
      BY <1>2, TimeNumbers
    <3>3. age[v][y] <= (RoleTtl - n) + MaxLag /\ away[v] <= (RoleTtl - n) + MaxLag
      BY <2>3, <3>1, <3>2 DEF TenancyInv, OwnInv, RoleBounded
    <3>4. age'[v][y] <= (RoleTtl - n) + MaxLag /\ away'[v] <= (RoleTtl - n) + MaxLag
      BY <1>5, <1>10, <3>3
    <3> QED
      BY <3>1, <3>2, <3>4
  <2> QED
    BY <1>5, <1>6, <2>2, <2>3 DEF RoleBounded
<1>12. ReadLately'
  <2>1. ASSUME NEW g \in Handlers \ {h}
        PROVE  /\ At(g, "enter", "workspace")' => away'[req'[g].user] <= req'[g].lag
               /\ At(g, "enter", "fill")' =>
                    away'[req'[g].user] <= req'[g].lag /\ age'[req'[g].user][req'[g].role] <= req'[g].lag
    <3>1. req'[g] = req[g]
      BY <1>8
    <3>2. req[g].op = "enter" =>
            req[g].user \in Users /\ req[g].role \in Roles /\ req[g].lag \in Nat
      BY <1>2, TimeNumbers
    <3> QED
      BY <1>10, <3>1, <3>2 DEF TenancyInv, OwnInv, ReadLately, At, Busy
  <2> QED
    BY <1>8, <2>1 DEF ReadLately, At
<1> QED
  BY <1>8, <1>9, <1>11, <1>12 DEF TenancyInv, OwnInv

-----------------------------------------------------------------------------
(* Time *)

LEMMA TickTypes ==
  ASSUME TenancyInv, Tick, Note(1), Been
  PROVE  /\ TenancyTypeOK' /\ RequestsChecked'
         /\ \A h \in Handlers :
              \/ req'[h] = req[h] /\ req[h].op \notin ProjectOps
              \/ /\ req[h].op \in ProjectOps /\ req'[h].op = req[h].op /\ req'[h].at = req[h].at
                 /\ req'[h].user = req[h].user /\ req'[h].role = req[h].role
                 /\ req'[h].lag = req[h].lag + 1 /\ req'[h].op # "idle" /\ req[h] # Idle
<1>1. /\ TenancyTypeOK /\ WorkspaceTypeOK /\ RequestsChecked /\ MaxLag \in Nat /\ RoleTtl \in Nat
      /\ \A u \in Users : cached[u] \in [role : Roles \cup {"none"}, ttl : 0..RoleTtl]
  BY ProjectAssumption DEF TenancyInv, TenancyTypeOK
<1>2. \A h \in Handlers : req[h] \in Requests
  BY <1>1 DEF TenancyTypeOK, Requests
<1>3. ASSUME NEW h \in Handlers
      PROVE  /\ req'[h] \in Requests /\ Checked(req'[h])
             /\ \/ req'[h] = req[h] /\ req[h].op \notin ProjectOps
                \/ /\ req[h].op \in ProjectOps /\ req'[h].op = req[h].op /\ req'[h].at = req[h].at
                   /\ req'[h].user = req[h].user /\ req'[h].role = req[h].role
                   /\ req'[h].lag = req[h].lag + 1 /\ req'[h].op # "idle" /\ req[h] # Idle
  <2>1. CASE req[h].op \in ProjectOps
    <3> DEFINE r == [req[h] EXCEPT !.lag = @ + 1]
    <3>1. req[h] \in ProjectRequests /\ req[h].lag \in Nat /\ req[h].lag < MaxLag
      BY <1>2, <2>1, RequestKinds DEF Tick, TeamOps, ProjectOps
    <3>2. /\ r \in ProjectRequests /\ r.op = req[h].op /\ r.at = req[h].at
          /\ r.user = req[h].user /\ r.role = req[h].role /\ r.lag = req[h].lag + 1
      BY <1>1, <3>1 DEF ProjectRequests
    <3>3. req'[h] = r
      BY <2>1 DEF Tick
    <3>4. r.op # "idle" /\ req[h] # Idle /\ Checked(r)
      BY <2>1, <3>2 DEF ProjectOps, Idle, Checked
    <3> QED
      BY <2>1, <3>2, <3>3, <3>4 DEF Requests
  <2>2. CASE req[h].op \notin ProjectOps
    BY <1>1, <1>2, <2>2 DEF Tick, RequestsChecked
  <2> QED
    BY <2>1, <2>2
<1>4. req' \in [Handlers -> {Idle} \cup TeamRequests \cup ProjectRequests] /\ RequestsChecked'
  BY <1>3 DEF Tick, Requests, RequestsChecked
<1>5. /\ cached' \in [Users -> [role : Roles \cup {"none"}, ttl : 0..RoleTtl]]
      /\ \A u \in Users : cached'[u].role = "none" <=> cached'[u].ttl = 0
  <2>1. ASSUME NEW u \in Users
        PROVE  /\ Aged(cached[u]) \in [role : Roles \cup {"none"}, ttl : 0..RoleTtl]
               /\ Aged(cached[u]).role = "none" <=> Aged(cached[u]).ttl = 0
    BY <1>1 DEF TenancyTypeOK, Aged, NoRole
  <2>2. cached' = [u \in Users |-> Aged(cached[u])]
    BY DEF Tick
  <2> QED
    BY <2>1, <2>2
<1>6. WorkspaceTypeOK'
  BY <1>1 DEF Tick, projectRest, WorkspaceTypeOK, team, teamHistory
<1>7. /\ rows' \in Rows /\ deleted' \in BOOLEAN /\ linked' \in BOOLEAN
      /\ defaults' \in [Users -> Nat] /\ room' \subseteq Users /\ added' \subseteq Users
      /\ doubled' \subseteq Users
  BY <1>1 DEF Tick, project, TenancyTypeOK
<1>8. TenancyTypeOK'
  <2>1. 1 \in {0, 1}
    OBVIOUS
  <2> QED
    BY <1>1, <1>4, <1>5, <1>6, <1>7, <2>1, TypesNext
<1> QED
  BY <1>3, <1>4, <1>8

LEMMA TickKeeps ==
  ASSUME TenancyInv, Tick, Note(1), Been
  PROVE  TenancyInv'
<1>1. /\ UNCHANGED <<projectRest, project, defaults, room, added, doubled>>
      /\ cached' = [u \in Users |-> Aged(cached[u])]
  BY DEF Tick
<1>2. /\ TenancyTypeOK /\ TenancyTypeOK' /\ RequestsChecked'
      /\ \A h \in Handlers :
              \/ req'[h] = req[h] /\ req[h].op \notin ProjectOps
              \/ /\ req[h].op \in ProjectOps /\ req'[h].op = req[h].op /\ req'[h].at = req[h].at
                 /\ req'[h].user = req[h].user /\ req'[h].role = req[h].role
                 /\ req'[h].lag = req[h].lag + 1 /\ req'[h].op # "idle" /\ req[h] # Idle
  BY TickTypes DEF TenancyInv
<1>3. TeamInv'
  <2>1. /\ OnlyClosing /\ members'[Owner] = members[Owner] /\ UNCHANGED teamHistory
        /\ \A u \in Users : Len(members'[u]) <= Len(members[u])
    BY <1>1, <1>2, SameTeam DEF projectRest
  <2>2. \A h \in Handlers : req'[h] = req[h] \/ (req[h].op # "accept" /\ Elsewhere(req'[h]))
    BY <1>2 DEF Elsewhere, ProjectOps
  <2> QED
    BY <1>2, <2>1, <2>2, TeamSame
<1>4. \A op, step, u : \A h \in Handlers :
        /\ At(h, op, step)' => At(h, op, step) /\ req'[h].user = req[h].user
        /\ For(h, op, step, u)' => For(h, op, step, u)
  BY <1>2 DEF For, At, Busy
<1>5. AddsAlone' /\ ProjectRowsOnce'
  BY <1>1, <1>2, <1>4, SameRows, AddsSame DEF TenancyInv, OwnInv
<1>6. DefaultsAlone' /\ OneDefault'
  BY <1>1, <1>4, DefaultsSame DEF TenancyInv, OwnInv
<1>7. Rooms' /\ RoomOfMembers'
  BY <1>1, <1>4, RoomsSame DEF TenancyInv, OwnInv
<1>8. \A v \in Users : /\ away[v] \in Nat /\ away'[v] \in Nat /\ away'[v] <= away[v] + 1
                       /\ \A x \in Roles : /\ age[v][x] \in Nat /\ age'[v][x] \in Nat
                                           /\ age'[v][x] <= age[v][x] + 1
  <2>1. 1 \in {0, 1}
    OBVIOUS
  <2> QED
    BY <1>2, <2>1, Younger
<1>9. RoleBounded'
  <2> SUFFICES ASSUME NEW v \in Users, cached'[v].role # "none"
               PROVE  /\ age'[v][cached'[v].role] <= (RoleTtl - cached'[v].ttl) + MaxLag
                      /\ away'[v] <= (RoleTtl - cached'[v].ttl) + MaxLag
    BY DEF RoleBounded
  <2>1. cached[v].ttl \in Nat /\ RoleTtl \in Nat /\ MaxLag \in Nat
    BY <1>2, TimeNumbers
  <2>2. cached'[v] = Aged(cached[v])
    BY <1>1
  <2>3. /\ cached'[v].role = cached[v].role /\ cached'[v].ttl = cached[v].ttl - 1
        /\ cached[v].role # "none"
    BY <1>2, <2>1, <2>2 DEF Aged, NoRole, TenancyTypeOK
  <2>4. PICK x \in Roles : x = cached[v].role
    BY <1>2, <2>3, TimeNumbers
  <2>5. PICK n \in Nat : n = cached[v].ttl
    BY <2>1
  <2>6. age[v][x] <= (RoleTtl - n) + MaxLag /\ away[v] <= (RoleTtl - n) + MaxLag
    BY <2>3, <2>4, <2>5 DEF TenancyInv, OwnInv, RoleBounded
  <2>7. age'[v][x] <= (RoleTtl - (n - 1)) + MaxLag /\ away'[v] <= (RoleTtl - (n - 1)) + MaxLag
    BY <1>8, <2>1, <2>6
  <2> QED
    BY <2>3, <2>4, <2>5, <2>7
<1>10. ReadLately'
  <2> SUFFICES ASSUME NEW g \in Handlers
               PROVE  /\ At(g, "enter", "workspace")' => away'[req'[g].user] <= req'[g].lag
                      /\ At(g, "enter", "fill")' =>
                           /\ away'[req'[g].user] <= req'[g].lag
                           /\ age'[req'[g].user][req'[g].role] <= req'[g].lag
    BY DEF ReadLately
  <2>1. CASE req[g].op = "enter"
    <3>1. /\ req'[g].op = "enter" /\ req'[g].at = req[g].at /\ req'[g].user = req[g].user
          /\ req'[g].role = req[g].role /\ req'[g].lag = req[g].lag + 1 /\ req[g] # Idle
      BY <1>2, <2>1 DEF ProjectOps
    <3>2. req[g].user \in Users /\ req[g].role \in Roles /\ req[g].lag \in Nat
      BY <1>2, <2>1, TimeNumbers
    <3>3. /\ At(g, "enter", "workspace") => away[req[g].user] <= req[g].lag
          /\ At(g, "enter", "fill") =>
               away[req[g].user] <= req[g].lag /\ age[req[g].user][req[g].role] <= req[g].lag
      BY DEF TenancyInv, OwnInv, ReadLately
    <3>4. \A step : At(g, "enter", step)' => At(g, "enter", step)
      BY <1>4
    <3> QED
      BY <1>8, <3>1, <3>2, <3>3, <3>4
  <2>2. CASE req[g].op # "enter"
    BY <1>2, <2>2 DEF At, Busy
  <2> QED
    BY <2>1, <2>2
<1> QED
  BY <1>2, <1>3, <1>5, <1>6, <1>7, <1>9, <1>10 DEF TenancyInv, OwnInv

-----------------------------------------------------------------------------
(* The theorems *)

LEMMA RequestsKeep ==
  ASSUME TenancyInv, NEW h \in Handlers, ~Busy(h), asks < MaxAsks, ProjectRequest(h), Note(0), Been
  PROVE  TenancyInv'
<1>1. ASSUME NEW u \in Users, NEW role \in Roles, UpdateMemberRole(h, u, role)
      PROVE  TenancyInv'
  <2>1. "grade" \in {"drop", "grade", "link", "erase"} /\ FALSE \in BOOLEAN
    OBVIOUS
  <2> QED
    BY <1>1, <2>1, PlainRequests DEF UpdateMemberRole
<1>2. ASSUME NEW u \in Users, RemoveMember(h, u)
      PROVE  TenancyInv'
  <2>1. "drop" \in {"drop", "grade", "link", "erase"} /\ FALSE \in BOOLEAN /\ "viewer" \in Roles
    BY DEF Roles
  <2> QED
    BY <1>2, <2>1, PlainRequests DEF RemoveMember
<1>3. ASSUME NEW ws \in BOOLEAN, Update(h, ws)
      PROVE  TenancyInv'
  <2>1. "link" \in {"drop", "grade", "link", "erase"} /\ "viewer" \in Roles /\ Lead \in Users
    BY ProjectAssumption DEF Roles
  <2> QED
    BY <1>3, <2>1, PlainRequests DEF Update
<1>4. CASE DeleteProject(h)
  <2>1. /\ "erase" \in {"drop", "grade", "link", "erase"} /\ "viewer" \in Roles /\ Lead \in Users
        /\ FALSE \in BOOLEAN
    BY ProjectAssumption DEF Roles
  <2> QED
    BY <1>4, <2>1, PlainRequests DEF DeleteProject
<1> QED
  BY <1>1, <1>2, <1>3, <1>4, AddKeeps, ResolveKeeps DEF ProjectRequest

LEMMA ProjectKeeps ==
  ASSUME TenancyInv, ProjectNext, Note(0), Been
  PROVE  TenancyInv'
<1>1. ASSUME NEW h \in Handlers, ProjectStep(h)
      PROVE  TenancyInv'
  BY <1>1, PushKeeps, PlainWrites, ReadWorkspaceKeeps, FillKeeps, CreateDefaultKeeps, JoinKeeps
     DEF ProjectStep
<1>2. ASSUME NEW h \in Handlers, ~Busy(h), NEW u \in Users, Enter(h, u) \/ Subscribe(h, u)
      PROVE  TenancyInv'
  BY <1>2, EnterKeeps, SubscribeKeeps
<1>3. ASSUME WorkspaceNext, UNCHANGED <<project, cached, defaults, room, added, doubled>>
      PROVE  TenancyInv'
  BY <1>3, WorkspaceKeeps DEF projectSame
<1> QED
  BY <1>1, <1>2, <1>3, RequestsKeep, LeaveKeeps, DropDefaultKeeps DEF ProjectNext

LEMMA StepKeeps ==
  ASSUME TenancyInv, [TenancyNext]_tenancyVars
  PROVE  TenancyInv'
<1>1. CASE TenancyNext
  BY <1>1, ProjectKeeps, TickKeeps DEF TenancyNext
<1>2. CASE UNCHANGED tenancyVars
  <2>1. UNCHANGED <<active, members, invites, joins, twice, shared, raced, torn, req, asks, crashes,
                    deleted, linked, rows, cached, defaults, room, age, away, added, doubled, been>>
    BY <1>2 DEF tenancyVars, team, teamHistory, project, projectHistory
  <2>2. TenancyTypeOK'
    BY <2>1 DEF TenancyInv, TenancyTypeOK, WorkspaceTypeOK
  <2>3. RequestsChecked'
    BY <2>1 DEF TenancyInv, RequestsChecked, Checked
  <2>4. OwnerStays' /\ MembersOnce' /\ JoinsAlone' /\ InviteUsedOnce' /\ NoneUnused'
    BY <2>1 DEF TenancyInv, TeamInv, OwnerStays, MembersOnce, JoinsAlone, InviteUsedOnce,
                NoneUnused, For, At, Busy, OnInvite
  <2>5. UsedAlone' /\ OneOpenPerEmail' /\ InvitesAlone'
    BY <2>1 DEF TenancyInv, TeamInv, UsedAlone, OneOpenPerEmail, InvitesAlone, OnInvite, Open,
                At, Busy, Pending
  <2>6. ProjectRowsOnce' /\ AddsAlone' /\ OneDefault' /\ DefaultsAlone'
    BY <2>1 DEF TenancyInv, OwnInv, ProjectRowsOnce, AddsAlone, OneDefault, DefaultsAlone, For,
                At, Busy
  <2>7. RoomOfMembers' /\ Rooms' /\ RoleBounded' /\ ReadLately'
    BY <2>1 DEF TenancyInv, OwnInv, RoomOfMembers, Rooms, RoleBounded, ReadLately, At, Busy,
                InProject, OwnRole
  <2> QED
    BY <2>2, <2>3, <2>4, <2>5, <2>6, <2>7 DEF TenancyInv, TeamInv, OwnInv
<1> QED
  BY <1>1, <1>2

LEMMA InitHolds ==
  ASSUME TenancyInit
  PROVE  TenancyInv
<1>1. PICK team0, own \in Rows, link \in BOOLEAN :
        /\ OneRow(team0) /\ team0[Owner] = <<"owner">> /\ OneRow(own)
        /\ WorkspaceInit(team0) /\ ProjectInit(link, own)
  BY DEF TenancyInit
<1>2. /\ Owner \in Users /\ MaxAsks \in Nat /\ MaxCrashes \in Nat /\ RoleTtl \in Nat
      /\ MaxLag \in Nat /\ Oldest \in Nat
  BY WorkspaceAssumption, ProjectAssumption DEF Oldest
<1>3. /\ members = team0 /\ rows = own /\ linked \in BOOLEAN
      /\ \A u \in Users : Len(members[u]) <= 1 /\ Len(rows[u]) <= 1
  BY <1>1 DEF OneRow, WorkspaceInit, ProjectInit
<1>4. \A h \in Handlers : req[h] = Idle /\ req[h].op = "idle" /\ ~Busy(h)
  BY <1>1 DEF WorkspaceInit, Busy, Idle
<1>5. \A i \in Invites : /\ invites[i].state = "none" /\ joins[i] = 0 /\ ~Open(i)
  BY <1>1 DEF WorkspaceInit, Open
<1>6. /\ cached = [u \in Users |-> NoRole] /\ defaults = [u \in Users |-> 0] /\ room = {}
      /\ added = {} /\ doubled = {} /\ been = {u \in Users : InProject(u)}
      /\ age = [u \in Users |-> [r \in Roles |-> IF Given(u, r) THEN 0 ELSE Oldest]]
      /\ away = [u \in Users |-> IF Near(u) THEN 0 ELSE Oldest]
      /\ deleted = FALSE
  BY <1>1 DEF ProjectInit
<1>7. WorkspaceTypeOK
  <2>1. invites \in [Invites -> InviteDocs]
    BY <1>1, <1>2 DEF WorkspaceInit, InviteDocs, InviteStates, Roles
  <2> QED
    BY <1>1, <1>2, <2>1 DEF WorkspaceInit, WorkspaceTypeOK
<1>8. TenancyTypeOK
  <2>1. cached \in [Users -> [role : Roles \cup {"none"}, ttl : 0..RoleTtl]]
        /\ \A u \in Users : cached[u].role = "none" <=> cached[u].ttl = 0
    BY <1>2, <1>6 DEF NoRole
  <2>2. age \in [Users -> [Roles -> 0..Oldest]] /\ away \in [Users -> 0..Oldest]
    BY <1>2, <1>6
  <2>3. req \in [Handlers -> {Idle} \cup TeamRequests \cup ProjectRequests]
    BY <1>1 DEF WorkspaceInit
  <2> QED
    BY <1>1, <1>3, <1>6, <1>7, <2>1, <2>2, <2>3 DEF TenancyTypeOK
<1>9. RequestsChecked
  BY <1>4 DEF RequestsChecked, Checked
<1>10. TeamInv
  <2>1. OwnerStays /\ MembersOnce
    BY <1>1, <1>3 DEF OwnerStays, MembersOnce
  <2>2. JoinsAlone /\ InviteUsedOnce /\ UsedAlone /\ NoneUnused
    BY <1>4, <1>5 DEF JoinsAlone, InviteUsedOnce, UsedAlone, NoneUnused, For, At, OnInvite
  <2>3. OneOpenPerEmail /\ InvitesAlone
    BY <1>4, <1>5 DEF OneOpenPerEmail, InvitesAlone, At, Pending
  <2> QED
    BY <2>1, <2>2, <2>3 DEF TeamInv
<1>11. OwnInv
  <2>1. ProjectRowsOnce /\ AddsAlone /\ OneDefault /\ DefaultsAlone
    BY <1>3, <1>4, <1>6 DEF ProjectRowsOnce, AddsAlone, OneDefault, DefaultsAlone, For, At
  <2>2. RoomOfMembers /\ Rooms /\ ReadLately
    BY <1>4, <1>6 DEF RoomOfMembers, Rooms, ReadLately, At
  <2>3. RoleBounded
    BY <1>6 DEF RoleBounded, NoRole
  <2> QED
    BY <2>1, <2>2, <2>3 DEF OwnInv
<1> QED
  BY <1>8, <1>9, <1>10, <1>11 DEF TenancyInv

\* Workspaces and projects together: the guard of a project reads both.
THEOREM TenancyInvariant == TenancySpec => []TenancyInv
<1>1. TenancyInit => TenancyInv
  BY InitHolds
<1>2. TenancyInv /\ [TenancyNext]_tenancyVars => TenancyInv'
  BY StepKeeps
<1> QED
  BY <1>1, <1>2, PTL DEF TenancySpec

\* The owner of a workspace stays its owner; a member, an invitation and an address
\* are doubled only by two requests side by side or by a crash between two writes.
THEOREM WorkspacesAreSafe == TenancySpec => []WorkspacesSafe
<1>1. TenancyInv => WorkspacesSafe
  BY DEF TenancyInv, TenancyTypeOK, TeamInv, WorkspacesSafe
<1> QED
  BY <1>1, TenancyInvariant, PTL

\* A role in Redis was given to the user, and the project there for him, no longer ago
\* than it lives and a request takes; nobody enters the project's room who was never
\* in the project; a member or a default project is doubled only side by side.
THEOREM ProjectsAreSafe == TenancySpec => []ProjectsSafe
<1>1. TenancyInv => ProjectsSafe
  BY DEF TenancyInv, OwnInv, ProjectsSafe
<1> QED
  BY <1>1, TenancyInvariant, PTL
=============================================================================
