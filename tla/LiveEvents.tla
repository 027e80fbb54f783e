----------------------------- MODULE LiveEvents ------------------------------
(***************************************************************************)
(* Live events in one API process: the WebSocket connections of            *)
(* src/ws/server.ts with their book-keeping in src/ws/clientManager.ts,    *)
(* the PostgreSQL client of src/ws/eventBus.ts that LISTENs for what the   *)
(* indexer's transactions notify, and gracefulShutdown of src/index.ts,    *)
(* which takes both down.                                                  *)
(*                                                                         *)
(* An event handler runs in one JavaScript turn and is one step.  The ws   *)
(* and pg libraries and the peers decide which event comes next.  Passing  *)
(* a notification on to its subscribers changes none of this.              *)
(***************************************************************************)
EXTENDS Integers, FiniteSets

CONSTANTS
    Conns,       \* connections; an ended one stands for the next
    Ips,
    IpOf,        \* IpOf[c]: where connection c comes from
    MaxPerIp,    \* 5, see canAcceptConnection
    StaleBeats,  \* the heartbeat that finds a client idle for WS_STALE_TIMEOUT_MS: 3
    Sessions,    \* pg clients, likewise reused
    Channels,
    MayHear,     \* MayHear[c]: the public channels, its user's own, or all for an admin
    MaxSubscriptions, \* MAX_SUBSCRIPTIONS_PER_CLIENT
    MaxHttp      \* bound: HTTP connections

ASSUME LiveEventsAssumption ==
    /\ IpOf \in [Conns -> Ips] /\ MaxPerIp \in Nat \ {0} /\ StaleBeats \in Nat \ {0}
    /\ MayHear \in [Conns -> SUBSET Channels] /\ MaxSubscriptions \in Nat
    /\ MaxHttp \in Nat /\ IsFiniteSet(Conns) /\ "none" \notin Sessions

VARIABLES
    sock,      \* a connection's socket; all but "none" are in wss.clients, "refused" is one
               \* that was closed before any handler was attached
    alive,     \* isAlive is not false
    managed,   \* the ids in ClientManager.clients
    ipCounts,  \* ClientManager.ipCounts; an address without an entry counts 0
    quiet,     \* heartbeats since lastActivityAt
    channels,  \* what it has subscribed to
    silent,    \* peers that have vanished without a word
    late,      \* history: connections accepted after a shutdown has closed the others
    session,   \* a pg client: see Stages
    client,    \* listenerClient
    reconnecting,
    timers,    \* calls of startEventListener to come: the first one, or a retry
    gaveUp,    \* history: the last start of a listener failed
    http,      \* HTTP connections that server.close waits for: with a request in progress, or
               \* kept alive since the last
    phase      \* of the process

manager == <<managed, ipCounts, quiet, channels>>
connections == <<sock, alive, manager, silent, late>>
listener == <<session, client, reconnecting, timers, gaveUp>>
process == <<http, phase>>
vars == <<connections, listener, process>>

NoClient == "none"

\* "connecting": connect() is under way; "listening": LISTEN is, and nobody handles the
\* client's events yet; "attached": they are handled; "ended": it was attached, and may have
\* an error still to emit.
Stages == {"none", "connecting", "listening", "attached", "ended"}

TypeOK ==
    /\ sock \in [Conns -> {"none", "open", "closing", "refused"}]
    /\ alive \in [Conns -> BOOLEAN]
    /\ managed \subseteq Conns /\ ipCounts \in [Ips -> 0..MaxPerIp]
    /\ quiet \in [Conns -> 0..StaleBeats]
    /\ \A c \in Conns : /\ channels[c] \subseteq MayHear[c]
                        /\ Cardinality(channels[c]) <= MaxSubscriptions
    /\ silent \subseteq Conns /\ late \subseteq Conns
    /\ session \in [Sessions -> Stages] /\ client \in Sessions \cup {NoClient}
    /\ reconnecting \in BOOLEAN /\ timers \in 0..1 /\ gaveUp \in BOOLEAN
    /\ http \in 0..MaxHttp /\ phase \in {"running", "stopping", "closing", "draining", "exited"}

Init ==
    /\ sock = [c \in Conns |-> "none"] /\ alive = [c \in Conns |-> TRUE]
    /\ managed = {} /\ ipCounts = [i \in Ips |-> 0] /\ quiet = [c \in Conns |-> 0]
    /\ channels = [c \in Conns |-> {}]
    /\ silent = {} /\ late = {}
    /\ session = [s \in Sessions |-> "none"] /\ client = NoClient
    /\ reconnecting = FALSE /\ timers = 1 /\ gaveUp = FALSE
    /\ http = 0 /\ phase = "running"
----------------------------------------------------------------------------
(* Connections.                                                            *)

\* Mutant of Accepts.
AcceptsOneMore(ip) == ipCounts[ip] <= MaxPerIp

\* canAcceptConnection
Accepts(ip) == ipCounts[ip] < MaxPerIp

Add(c) ==
    /\ managed' = managed \cup {c} /\ quiet' = [quiet EXCEPT ![c] = 0]
    /\ ipCounts' = [ipCounts EXCEPT ![IpOf[c]] = @ + 1]
    /\ UNCHANGED channels

\* Mutant of Known: remove does not look the client up.
Anybody(cs) == cs

\* Only a client that is in the map is taken off its address's count.
Known(cs) == cs \cap managed

\* ClientManager.remove for each of cs.
Remove(cs) ==
    LET FromIp(i) == {c \in Known(cs) : IpOf[c] = i} IN
    /\ managed' = managed \ cs
    /\ quiet' = [c \in Conns |-> IF c \in cs THEN 0 ELSE quiet[c]]
    /\ channels' = [c \in Conns |-> IF c \in cs THEN {} ELSE channels[c]]
    /\ ipCounts' = [i \in Ips |-> ipCounts[i] - Cardinality(FromIp(i))]

\* The connection event.  The server takes no upgrade once wss.close has been called; a
\* token that is not accepted, or an address with its share of connections, is closed.
Connect(c, authenticated) ==
    /\ phase \in {"running", "stopping"} /\ sock[c] = "none"
    /\ alive' = [alive EXCEPT ![c] = TRUE] /\ silent' = silent \ {c}
    /\ IF authenticated /\ Accepts(IpOf[c])
       THEN /\ sock' = [sock EXCEPT ![c] = "open"] /\ Add(c)
            /\ late' = IF phase = "stopping" THEN late \cup {c} ELSE late
       ELSE sock' = [sock EXCEPT ![c] = "refused"] /\ UNCHANGED <<manager, late>>
    /\ UNCHANGED <<listener, process>>

\* A socket with handlers, which a close does not take away.
Handled(c) == phase # "exited" /\ sock[c] \in {"open", "closing"}

\* A peer that is heard, also on a socket that is being closed.
Peer(c) == Handled(c) /\ c \notin silent

\* A message moves lastActivityAt, not isAlive, and may be of no other consequence.
Message(c, subscribed) ==
    /\ Peer(c) /\ quiet' = [quiet EXCEPT ![c] = 0]
    /\ channels' = [channels EXCEPT ![c] = subscribed]
    /\ UNCHANGED <<sock, alive, managed, ipCounts, silent, late, listener, process>>

\* handleMessage, and ClientManager.subscribe, which refuses whatever comes at the limit, or
\* from a client that was removed.
Subscribe(c, ch) ==
    Message(c, IF c \in managed /\ ch \in MayHear[c] /\ Cardinality(channels[c]) < MaxSubscriptions
               THEN channels[c] \cup {ch} ELSE channels[c])

Unsubscribe(c, ch) == Message(c, channels[c] \ {ch})

\* pong: isAlive, and markAlive.
Pong(c) ==
    /\ Peer(c) /\ ~alive[c]
    /\ alive' = [alive EXCEPT ![c] = TRUE] /\ quiet' = [quiet EXCEPT ![c] = 0]
    /\ UNCHANGED <<sock, managed, ipCounts, channels, silent, late, listener, process>>

Vanish(c) ==
    /\ Peer(c) /\ silent' = silent \cup {c}
    /\ UNCHANGED <<sock, alive, manager, late, listener, process>>

\* The close event: the peer has closed, or a socket we are closing has come to its end (by
\* the peer's answer, after ws's 30 seconds, or because it was terminated).
SocketClosed(c) ==
    /\ phase # "exited" /\ (sock[c] \in {"closing", "refused"} \/ Peer(c))
    /\ sock' = [sock EXCEPT ![c] = "none"] /\ Remove({c})
    /\ alive' = [alive EXCEPT ![c] = TRUE] /\ silent' = silent \ {c} /\ late' = late \ {c}
    /\ UNCHANGED <<listener, process>>

\* The error event: remove closes the socket, if it is open; the close event follows.
SocketError(c) ==
    /\ Handled(c)
    /\ sock' = [sock EXCEPT ![c] = "closing"] /\ Remove({c})
    /\ UNCHANGED <<alive, silent, late, listener, process>>

\* An error of a socket that was refused has no handler, and ends the process.
RefusedSocketError(c) ==
    /\ phase # "exited" /\ sock[c] = "refused" /\ phase' = "exited"
    /\ UNCHANGED <<connections, listener, http>>

\* Mutant of Beating: the interval is cleared as soon as a shutdown begins.
BeatingUntilShutdown == phase = "running"

\* The interval is cleared when the WebSocket server has closed.
Beating == phase \notin {"draining", "exited"}

\* No pong since the last ping.
Unanswered(c) == ~alive[c]

\* Terminate who has not answered, ping the others; then terminate and remove who has been
\* idle for too long.
Heartbeat ==
    LET connected == {c \in Conns : sock[c] # "none"}
        idle == [c \in Conns |-> IF c \in managed /\ quiet[c] < StaleBeats
                                 THEN quiet[c] + 1 ELSE quiet[c]]
        stale == {c \in managed : idle[c] = StaleBeats}
        dead == {c \in Conns : sock[c] = "open" /\ Unanswered(c)} \cup stale IN
    /\ Beating
    /\ sock' = [c \in Conns |-> IF c \in dead THEN "closing" ELSE sock[c]]
    /\ alive' = [c \in Conns |-> IF c \in connected THEN FALSE ELSE alive[c]]
    /\ managed' = managed \ stale
    /\ quiet' = [c \in Conns |-> IF c \in stale THEN 0 ELSE idle[c]]
    /\ channels' = [c \in Conns |-> IF c \in stale THEN {} ELSE channels[c]]
    /\ ipCounts' = [i \in Ips |-> ipCounts[i] - Cardinality({c \in stale : IpOf[c] = i})]
    /\ UNCHANGED <<silent, late, listener, process>>
----------------------------------------------------------------------------
(* The listener.                                                           *)

\* startEventListener is called: by the server's start-up, or five seconds after an error.
StartListener(s) ==
    /\ phase # "exited" /\ timers > 0 /\ session[s] = "none"
    /\ timers' = timers - 1 /\ client' = s
    /\ session' = [session EXCEPT ![s] = "connecting"]
    /\ UNCHANGED <<connections, reconnecting, gaveUp, process>>

Connected(s) ==
    /\ phase # "exited" /\ session[s] = "connecting" /\ client = s
    /\ session' = [session EXCEPT ![s] = "listening"]
    /\ UNCHANGED <<connections, client, reconnecting, timers, gaveUp, process>>

\* Mutant of Reconnected: finally is forgotten.
StillReconnecting == reconnecting

\* finally { reconnecting = false }: a first start finds it false already.
Reconnected == FALSE

\* LISTEN has been answered: the handlers are attached, and the call returns.
Attach(s) ==
    /\ phase # "exited" /\ session[s] = "listening" /\ client = s
    /\ session' = [session EXCEPT ![s] = "attached"]
    /\ reconnecting' = Reconnected /\ gaveUp' = FALSE
    /\ UNCHANGED <<connections, client, timers, process>>

\* connect or LISTEN fails, or stopEventListener has taken the client away: startEventListener
\* throws.  Its caller logs that; nobody tries again.
StartFails(s) ==
    /\ phase # "exited" /\ session[s] \in {"connecting", "listening"}
    /\ session' = [session EXCEPT ![s] = "none"]
    /\ reconnecting' = FALSE /\ gaveUp' = TRUE
    /\ UNCHANGED <<connections, client, timers, process>>

\* The connection is lost before anybody handles the client's errors: an unhandled error
\* event ends the process.
Die(s) ==
    /\ phase # "exited" /\ session[s] = "listening"
    /\ phase' = "exited"
    /\ UNCHANGED <<connections, listener, http>>

\* Mutant of Ignored.
NeverIgnored == FALSE

\* if (reconnecting) return
Ignored == reconnecting

\* The error event of s, whose handler ends the current client, which is another one when
\* the error comes late.
ListenerError(s) ==
    LET over == IF Ignored THEN {s} ELSE {s} \cup ({client} \ {NoClient}) IN
    /\ phase # "exited" /\ session[s] \in {"attached", "ended"}
    /\ session' = [t \in Sessions |-> IF t \in over /\ session[t] = "attached"
                                      THEN "ended" ELSE session[t]]
    /\ IF Ignored
       THEN UNCHANGED <<client, reconnecting, timers>>
       ELSE client' = NoClient /\ reconnecting' = TRUE /\ timers' = timers + 1
    /\ UNCHANGED <<connections, gaveUp, process>>

\* An ended client has nothing left to emit.
Forget(s) ==
    /\ phase # "exited" /\ session[s] = "ended" /\ session' = [session EXCEPT ![s] = "none"]
    /\ UNCHANGED <<connections, client, reconnecting, timers, gaveUp, process>>
----------------------------------------------------------------------------
(* gracefulShutdown.                                                       *)

\* Mutant of ToClose: nobody is told to go.
Nobody == {}

\* for (const client of mgr.getAll()) client.socket.close(...)
ToClose == managed

CloseAll == sock' = [c \in Conns |-> IF c \in ToClose /\ sock[c] = "open"
                                     THEN "closing" ELSE sock[c]]

\* SIGTERM or SIGINT.  stopEventListener waits for the end of a client that is connected;
\* without one, wss.close follows at once.
Signal ==
    LET connected == client # NoClient /\ session[client] # "none" IN
    /\ phase = "running" /\ CloseAll
    /\ phase' = IF connected THEN "stopping" ELSE "closing"
    /\ session' = [s \in Sessions |-> IF s = client /\ session[s] = "attached"
                                      THEN "ended" ELSE session[s]]
    /\ client' = IF connected THEN client ELSE NoClient
    /\ UNCHANGED <<alive, manager, silent, late, reconnecting, timers, gaveUp, http>>

\* The listener's end() has resolved: listenerClient = null, and wss.close().
ListenerStopped ==
    /\ phase = "stopping" /\ client' = NoClient /\ phase' = "closing"
    /\ UNCHANGED <<connections, session, reconnecting, timers, gaveUp, http>>

\* A second signal runs gracefulShutdown again: those who came late are closed as well.
SignalAgain ==
    /\ phase \in {"stopping", "closing"} /\ CloseAll
    /\ UNCHANGED <<alive, manager, silent, late, listener, process>>

\* wss.close calls back when wss.clients is empty, and server.close() takes the HTTP server
\* off its port, when it may have clients.
WebSocketsClosed ==
    /\ phase = "closing" /\ \A c \in Conns : sock[c] = "none"
    /\ phase' = "draining" /\ http' \in 0..MaxHttp
    /\ UNCHANGED <<connections, listener>>

\* A client's request has been answered, and its connection has ended.
HttpEnds ==
    /\ phase = "draining" /\ http > 0 /\ http' = http - 1
    /\ UNCHANGED <<connections, listener, phase>>

\* server.close calls back when its connections have ended; Redis and the pool are next, and
\* process.exit.
Exit ==
    /\ phase = "draining" /\ http = 0
    /\ phase' = "exited"
    /\ UNCHANGED <<connections, listener, http>>

Connection(c) ==
    \/ \E authenticated \in BOOLEAN : Connect(c, authenticated)
    \/ \E ch \in Channels : Subscribe(c, ch) \/ Unsubscribe(c, ch)
    \/ Pong(c) \/ Vanish(c) \/ SocketClosed(c) \/ SocketError(c)

Listener(s) == StartListener(s) \/ Connected(s) \/ Attach(s) \/ StartFails(s)

Next ==
    \/ \E c \in Conns : Connection(c) \/ RefusedSocketError(c)
    \/ Heartbeat
    \/ \E s \in Sessions : Listener(s) \/ Die(s) \/ ListenerError(s) \/ Forget(s)
    \/ Signal \/ SignalAgain \/ ListenerStopped \/ WebSocketsClosed \/ HttpEnds \/ Exit

Spec == Init /\ [][Next]_vars

\* The interval and the timers of Node fire; a socket that is being closed comes to an end,
\* if by ws's own timer; a call of the pg client returns or throws.  Nothing is assumed of
\* the peers, of HTTP clients, nor of errors.
FairSpec ==
    /\ Spec
    /\ WF_vars(Heartbeat) /\ WF_vars(ListenerStopped)
    /\ WF_vars(WebSocketsClosed) /\ WF_vars(Exit)
    /\ \A c \in Conns : WF_vars(sock[c] \in {"closing", "refused"} /\ SocketClosed(c))
    /\ WF_vars(\E s \in Sessions : Listener(s))
    /\ WF_vars(\E s \in Sessions : Forget(s))
----------------------------------------------------------------------------
(* Properties.                                                             *)

\* However a connection ends - the peer closes it, it errs and closes, it is terminated, it
\* grows stale - its address gets its place back once: every address counts its own tracked
\* connections, none of them is a ghost, only they get events, and no open one goes untracked.
ClientsMatchSockets ==
    /\ \A i \in Ips : ipCounts[i] = Cardinality({c \in managed : IpOf[c] = i})
    /\ \A c \in managed : sock[c] \in {"open", "closing"}
    /\ \A c \in Conns : channels[c] # {} => c \in managed
    /\ \A c \in Conns : sock[c] = "open" => c \in managed

\* A second listener would send every live event twice: whichever errors come, late ones of
\* ended clients included, at most one client's notifications are passed on.  (Once
\* stopEventListener has forgotten a client that a retry put in place while it waited, late
\* errors can start a second one; but then the connections are being closed.)
OneListener ==
    phase = "running" => Cardinality({s \in Sessions : session[s] = "attached"}) <= 1

\* A peer that has vanished without closing does not keep its address's place.
SlotsComeBack ==
    \A c \in Conns :
        c \in managed /\ c \in silent ~> (c \notin managed \/ phase = "exited")

Listening == \E s \in Sessions : session[s] = "attached"

\* A process that does not listen for events will, however often its connection is lost,
\* unless the one attempt made after an error (or at its start) has failed.
ListensAgain == ~Listening ~> (Listening \/ gaveUp \/ phase # "running")

\* A shutdown comes to its end, peers that answer nothing notwithstanding.  It may wait for a
\* connection accepted while it was waiting for the listener, which nobody closes, and once
\* the WebSockets have gone for the last HTTP client; but for nothing else.
ShutdownCompletes ==
    phase \in {"stopping", "closing", "draining"} ~>
        \/ phase = "exited"
        \/ \E c \in late : sock[c] = "open"
        \/ phase = "draining" /\ http > 0
=============================================================================
