----------------------------- MODULE MCTenancy -----------------------------
(***************************************************************************)
(* Three menus, one per behaviour: a workspace that fills by invitation;   *)
(* the roles the guard finds and keeps for a guest; and the default        *)
(* project and the room.  The guest starts as an admin of the workspace    *)
(* and may be a member of the project too.                                 *)
(***************************************************************************)
EXTENDS Projects, TLC

CONSTANTS o, u, v
VARIABLES menu, guest

Sym == Permutations(Handlers) \cup Permutations(Invites) \cup Permutations({u, v})

With(x, role, rows0) == [rows0 EXCEPT ![x] = <<role>>]
Nobody == [x \in Users |-> <<>>]
OwnerOnly == With(o, "owner", Nobody)
RoleMenu == {"add", "drop", "grade", "link", "erase", "enter", "remove", "role", "close"}
RoomMenu == {"add", "drop", "erase", "default", "watch"}
OnMenu ==
  \A h \in Handlers : Busy(h)' =>
    IF menu = "team"
    THEN req'[h].op = "invite" => req'[h].role = "viewer"
    ELSE /\ menu = "rooms" => asks' < MaxAsks
         /\ req'[h].op \in IF menu = "roles" THEN RoleMenu ELSE RoomMenu
         /\ req'[h].op \notin {"link", "erase", "close"} => req'[h].user = guest

Init ==
  /\ guest \in {u, v}
  /\ \/ /\ menu = "team" /\ WorkspaceInit(OwnerOnly) /\ ProjectInit(FALSE, Nobody)
     \/ /\ menu \in {"roles", "rooms"}
        /\ WorkspaceInit(With(guest, "admin", OwnerOnly))
        /\ \E own \in {Nobody, With(guest, "viewer", Nobody)} : ProjectInit(TRUE, own)
Next ==
  /\ \/ /\ menu = "team" /\ WorkspaceNext /\ OnMenu
        /\ UNCHANGED <<project, cached, defaults, room, age, away, projectHistory>>
     \/ /\ menu # "team" /\ ProjectNext /\ OnMenu /\ Note(0) /\ Been
     \/ /\ menu = "roles" /\ Tick /\ Note(1) /\ Been
  /\ UNCHANGED <<menu, guest>>
vars == <<tenancyVars, menu, guest>>
Spec == Init /\ [][Next]_vars
=============================================================================
