------------------------------ MODULE Tunnels ------------------------------
(***************************************************************************)
(* TunnelService and the CLI that uses it (cli/tunnel.js).  The service    *)
(* keeps tunnels in the memory of one process: a tunnel has an entry in    *)
(* tunnelMeta, and the response its client listens on in tunnelSessions,   *)
(* which the client replaces when it connects again.                       *)
(***************************************************************************)
EXTENDS Naturals, FiniteSets

CONSTANTS
  Tunnels,    \* ids that can be drawn
  Streams,    \* event streams clients can open
  MaxTunnels  \* MAX_TUNNELS

ASSUME TunnelAssumption ==
  /\ IsFiniteSet(Tunnels) /\ MaxTunnels \in Nat \ {0}
  /\ "none" \notin Streams

VARIABLES
  tunnelMeta,      \* per id: as which one it was created, 0 for none
  aged,            \* tunnels older than TUNNEL_TTL_MS
  tunnelSessions,  \* per id: its stream, or "none"
  stream,          \* per stream: its tunnel and what has become of it
  cli,             \* per tunnel: what the client that created it does
  newest,          \* history: per id, the stream opened last
  cutOff, crowded  \* history, see the properties

tunnelVars == <<tunnelMeta, aged, tunnelSessions, stream, cli, newest, cutOff, crowded>>

Known == {t \in Tunnels : tunnelMeta[t] # 0}
StreamStates == {"new", "open", "ended", "closed"}

TunnelTypeOK ==
  /\ tunnelMeta \in [Tunnels -> Nat] /\ aged \subseteq Known
  /\ tunnelSessions \in [Tunnels -> Streams \cup {"none"}]
  /\ newest \in [Tunnels -> Streams \cup {"none"}]
  /\ stream \in [Streams -> [tunnel : Tunnels \cup {"none"}, state : StreamStates]]
  /\ cli \in [Tunnels -> {"none", "connecting", "listening", "waiting", "gone"}]
  /\ cutOff \subseteq Streams /\ crowded \in BOOLEAN

TunnelInit ==
  /\ tunnelMeta = [t \in Tunnels |-> 0] /\ aged = {}
  /\ tunnelSessions = [t \in Tunnels |-> "none"] /\ newest = tunnelSessions
  /\ stream = [s \in Streams |-> [tunnel |-> "none", state |-> "new"]]
  /\ cli = [t \in Tunnels |-> "none"]
  /\ cutOff = {} /\ crowded = FALSE

\* res.writableEnded is set by end() alone.
StreamOver(s) == stream[s].state \in {"ended", "closed"}
IsActive(t) == tunnelSessions[t] # "none" /\ ~StreamOver(tunnelSessions[t])
Without(ids) == [t \in Tunnels |-> IF t \in ids THEN 0 ELSE tunnelMeta[t]]
Forget(ids) == tunnelSessions' = [t \in Tunnels |-> IF t \in ids THEN "none" ELSE tunnelSessions[t]]
EndStream(ids) ==
  stream' = [s \in Streams |->
    IF \E t \in ids : tunnelSessions[t] = s /\ IsActive(t)
    THEN [stream[s] EXCEPT !.state = "ended"] ELSE stream[s]]

\* cleanupExpiredTunnels: old tunnels nobody listens on.
Expired == {t \in aged : ~IsActive(t)}

\* Mutant: nothing is evicted.
NoneEvicted == IF Cardinality(Known) < MaxTunnels THEN {} ELSE Expired

\* createTunnel makes room, when it must, by a cleanup and then by the oldest
\* tunnel nobody listens on.  If there is none the map grows past its limit.
Idlers == {t \in Known \ Expired : ~IsActive(t)}
FirstOf(S) == CHOOSE t \in S : \A u \in S : tunnelMeta[t] <= tunnelMeta[u]
Displaced ==
  IF Cardinality(Known) < MaxTunnels THEN {}
  ELSE IF Cardinality(Known \ Expired) < MaxTunnels \/ Idlers = {} THEN Expired
       ELSE Expired \cup {FirstOf(Idlers)}

\* The CLI asks for a tunnel, and then connects to it until it is stopped.
StartCli(t) == cli[t] = "none" /\ cli' = [cli EXCEPT ![t] = "connecting"]

CreateTunnel(t) ==
  /\ StartCli(t)
  /\ tunnelMeta' = [Without(Displaced) EXCEPT
       ![t] = Cardinality({u \in Tunnels : cli[u] # "none"}) + 1]
  /\ crowded' = (crowded \/ (Cardinality(Known) >= MaxTunnels /\ \A u \in Known : IsActive(u)))
  /\ aged' = aged \ Displaced
  /\ Forget(Displaced)
  /\ UNCHANGED <<stream, newest, cutOff>>

\* Any id will do for the stream.
OpenStream(t, s) ==
  /\ stream[s].state = "new"
  /\ stream' = [stream EXCEPT ![s] = [tunnel |-> t, state |-> "open"]]
  /\ tunnelSessions' = [tunnelSessions EXCEPT ![t] = s]
  /\ newest' = [newest EXCEPT ![t] = s]
  /\ UNCHANGED <<tunnelMeta, aged, cutOff, crowded>>

\* The client connects.  When the answer is lost it sees an error, though the
\* service has its stream; or the request does not arrive.
CliMoves(t, from, to) == cli[t] = from /\ cli' = [cli EXCEPT ![t] = to]
Connect(t, s) ==
  /\ CliMoves(t, "connecting", "listening") \/ CliMoves(t, "connecting", "waiting")
  /\ OpenStream(t, s)
ConnectFails(t) ==
  /\ CliMoves(t, "connecting", "waiting")
  /\ UNCHANGED <<tunnelMeta, aged, tunnelSessions, stream, newest, cutOff, crowded>>

\* The stream was ended: the client connects again three seconds later.
HearEnd(t) ==
  /\ CliMoves(t, "listening", "waiting") /\ StreamOver(newest[t])
  /\ UNCHANGED <<tunnelMeta, aged, tunnelSessions, stream, newest, cutOff, crowded>>
Retry(t) ==
  /\ CliMoves(t, "waiting", "connecting")
  /\ UNCHANGED <<tunnelMeta, aged, tunnelSessions, stream, newest, cutOff, crowded>>

\* The client is stopped, or its connection breaks: without an end of the stream
\* it has nothing left to do.
CliGone(t) ==
  /\ CliMoves(t, "listening", "gone") \/ CliMoves(t, "waiting", "gone")
  /\ UNCHANGED <<tunnelMeta, aged, tunnelSessions, stream, newest, cutOff, crowded>>

\* A connection closes once its response was ended, or its client is off it.
Closes(s) ==
  \/ stream[s].state = "ended"
  \/ stream[s].state = "open" /\ ~(cli[stream[s].tunnel] = "listening" /\ newest[stream[s].tunnel] = s)

\* Mutant: the session stays when its stream is closed.
KeepSession(s) ==
  /\ Closes(s)
  /\ stream' = [stream EXCEPT ![s].state = "closed"]
  /\ UNCHANGED <<tunnelMeta, aged, tunnelSessions, cli, newest, cutOff, crowded>>

\* The close handler removes whatever session the tunnel has by now.
\* history cutOff: streams it removed that were not the one that closed.
Close(s) ==
  /\ Closes(s)
  /\ stream' = [stream EXCEPT ![s].state = "closed"]
  /\ tunnelSessions' = [tunnelSessions EXCEPT ![stream[s].tunnel] = "none"]
  /\ cutOff' = cutOff \cup ({tunnelSessions[stream[s].tunnel]} \ {s, "none"})
  /\ UNCHANGED <<tunnelMeta, aged, cli, newest, crowded>>

\* forward drops a session whose stream was ended.
Forward(t) ==
  /\ ~IsActive(t) /\ Forget({t})
  /\ UNCHANGED <<tunnelMeta, aged, stream, cli, newest, cutOff, crowded>>

\* Mutant: the session is kept.
EndOnly(t) ==
  /\ t \in Known /\ tunnelMeta' = Without({t})
  /\ EndStream({t}) /\ aged' = aged \ {t}
  /\ UNCHANGED <<tunnelSessions, cli, newest, cutOff, crowded>>

\* Mutant: the stream is not ended.
JustForget(t) ==
  /\ t \in Known /\ tunnelMeta' = Without({t})
  /\ aged' = aged \ {t} /\ Forget({t})
  /\ UNCHANGED <<stream, cli, newest, cutOff, crowded>>

DeleteTunnel(t) ==
  /\ t \in Known /\ tunnelMeta' = Without({t})
  /\ EndStream({t}) /\ aged' = aged \ {t} /\ Forget({t})
  /\ UNCHANGED <<cli, newest, cutOff, crowded>>

CleanupExpiredTunnels ==
  /\ Expired # {} /\ tunnelMeta' = Without(Expired)
  /\ aged' = aged \ Expired /\ Forget(Expired)
  /\ UNCHANGED <<stream, cli, newest, cutOff, crowded>>

GrowOld(t) ==
  /\ t \in Known \ aged /\ aged' = aged \cup {t}
  /\ UNCHANGED <<tunnelMeta, tunnelSessions, stream, cli, newest, cutOff, crowded>>

TunnelNext ==
  \/ \E t \in Tunnels :
       \/ CreateTunnel(t) \/ Forward(t) \/ DeleteTunnel(t) \/ GrowOld(t)
       \/ ConnectFails(t) \/ HearEnd(t) \/ Retry(t) \/ CliGone(t)
       \/ \E s \in Streams : Connect(t, s)
  \/ \E s \in Streams : Close(s)
  \/ CleanupExpiredTunnels

TunnelSpec == TunnelInit /\ [][TunnelNext]_tunnelVars

-----------------------------------------------------------------------------
(* Properties *)

\* The client that connected last is reached as long as its stream is open,
\* except when an earlier stream of the tunnel closed after it connected.
NewestIsReached ==
  \A t \in Tunnels : LET s == newest[t] IN
    s # "none" /\ ~StreamOver(s) => tunnelSessions[t] = s \/ s \in cutOff

\* No event is written to a stream that is closed.
SessionsAreOpen ==
  \A t \in Tunnels :
    tunnelSessions[t] # "none" => stream[tunnelSessions[t]].state # "closed"

\* A session whose tunnel is gone, as its client came back to it after the
\* deletion, is one that is listened on: nothing else would ever remove it.
StrayIsLive ==
  \A t \in Tunnels \ Known :
    tunnelSessions[t] # "none" => stream[tunnelSessions[t]].state = "open"

\* There are more tunnels than the limit only if one was created when the map
\* was full and every tunnel of it had a client.
CapUnlessCrowded == Cardinality(Known) <= MaxTunnels \/ crowded

\* The two maps of TunnelService agree with the streams, as far as said above.
TunnelsSafe ==
  /\ TunnelTypeOK /\ NewestIsReached /\ SessionsAreOpen /\ StrayIsLive /\ CapUnlessCrowded
=============================================================================
