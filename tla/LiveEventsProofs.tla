-------------------------- MODULE LiveEventsProofs --------------------------
(***************************************************************************)
(* Proofs about LiveEvents, for any number of connections, addresses and   *)
(* clients of PostgreSQL, and any limits.                                  *)
(***************************************************************************)
EXTENDS LiveEvents, TLAPS, FiniteSetTheorems

(***************************************************************************)
(* Connections.                                                            *)
(***************************************************************************)

ConnectionTypes ==
    /\ sock \in [Conns -> {"none", "open", "closing", "refused"}] /\ alive \in [Conns -> BOOLEAN]
    /\ managed \subseteq Conns /\ ipCounts \in [Ips -> 0..MaxPerIp]
    /\ quiet \in [Conns -> 0..StaleBeats] /\ DOMAIN channels = Conns
    /\ \A c \in Conns : /\ channels[c] \subseteq MayHear[c] /\ IsFiniteSet(channels[c])
                        /\ Cardinality(channels[c]) <= MaxSubscriptions
    /\ silent \subseteq Conns /\ late \subseteq Conns

ConnectionInv == ConnectionTypes /\ ClientsMatchSockets

\* The tracked connections of an address.
Of(i, cs) == {c \in cs : IpOf[c] = i}

\* An address that is given a place counts one more, one that gets places back so many less.
LEMMA CountOneMore ==
    ASSUME NEW i \in Ips, NEW cs \in SUBSET Conns, NEW c \in Conns \ cs
    PROVE  /\ Cardinality(Of(i, cs)) \in Nat
           /\ Cardinality(Of(i, cs \cup {c})) =
                  IF IpOf[c] = i THEN Cardinality(Of(i, cs)) + 1 ELSE Cardinality(Of(i, cs))
<1>1. IsFiniteSet(Of(i, cs))
  BY FS_Subset, LiveEventsAssumption DEF Of
<1>2. CASE IpOf[c] = i
  <2>1. Of(i, cs \cup {c}) = Of(i, cs) \cup {c} /\ c \notin Of(i, cs)
    BY <1>2 DEF Of
  <2> QED
    BY <1>1, <1>2, <2>1, FS_AddElement, FS_CardinalityType
<1>3. CASE IpOf[c] # i
  <2>1. Of(i, cs \cup {c}) = Of(i, cs)
    BY <1>3 DEF Of
  <2> QED
    BY <1>1, <1>3, <2>1, FS_CardinalityType
<1> QED
  BY <1>2, <1>3

LEMMA CountLess ==
    ASSUME NEW i \in Ips, NEW cs \in SUBSET Conns, NEW gone
    PROVE  /\ Cardinality(Of(i, cs)) \in Nat /\ Cardinality(Of(i, cs \ gone)) \in Nat
           /\ Cardinality(Of(i, cs \ gone)) = Cardinality(Of(i, cs)) - Cardinality(Of(i, gone \cap cs))
<1>1. IsFiniteSet(Of(i, cs)) /\ IsFiniteSet(Of(i, cs \ gone))
  BY FS_Subset, LiveEventsAssumption DEF Of
<1>2. Of(i, cs \ gone) = Of(i, cs) \ Of(i, gone \cap cs)
      /\ Of(i, cs) \cap Of(i, gone \cap cs) = Of(i, gone \cap cs)
  BY DEF Of
<1>3. Cardinality(Of(i, cs)) \in Nat /\ Cardinality(Of(i, cs \ gone)) \in Nat
  BY <1>1, FS_CardinalityType
<1>4. Cardinality(Of(i, cs) \ Of(i, gone \cap cs))
      = Cardinality(Of(i, cs)) - Cardinality(Of(i, cs) \cap Of(i, gone \cap cs))
  BY <1>1, FS_Difference
<1> QED
  BY <1>2, <1>3, <1>4

\* The count of every address is the number of its tracked connections.
Counted == \A i \in Ips : ipCounts[i] = Cardinality(Of(i, managed))

LEMMA CountsOfMatch == ClientsMatchSockets => Counted
BY DEF ClientsMatchSockets, Counted, Of

LEMMA PlacesComeBack ==
    ASSUME ConnectionInv, NEW cs \in SUBSET Conns, managed' = managed \ cs,
           ipCounts' = [i \in Ips |-> ipCounts[i] - Cardinality(Of(i, cs \cap managed))]
    PROVE  Counted' /\ ipCounts' \in [Ips -> 0..MaxPerIp]
<1> USE DEF ConnectionInv
<1>1. \A i \in Ips : ipCounts'[i] = Cardinality(Of(i, managed \ cs)) /\ ipCounts'[i] \in 0..MaxPerIp
  <2> TAKE i \in Ips
  <2>1. ipCounts[i] = Cardinality(Of(i, managed)) /\ ipCounts[i] \in 0..MaxPerIp
    BY CountsOfMatch DEF Counted, ConnectionTypes
  <2>2. /\ Cardinality(Of(i, managed \ cs)) \in Nat
        /\ Cardinality(Of(i, managed \ cs)) <= Cardinality(Of(i, managed))
    <3>1. Of(i, managed \ cs) \in SUBSET Of(i, managed) /\ IsFiniteSet(Of(i, managed))
      BY FS_Subset, LiveEventsAssumption DEF Of, ConnectionTypes
    <3> QED
      BY <3>1, FS_Subset, FS_CardinalityType
  <2>3. Cardinality(Of(i, managed \ cs)) = Cardinality(Of(i, managed)) - Cardinality(Of(i, cs \cap managed))
    BY CountLess DEF ConnectionTypes
  <2> QED
    BY <2>1, <2>2, <2>3, LiveEventsAssumption
<1> QED
  BY <1>1 DEF Counted, Of

\* ClientManager.remove.
LEMMA RemoveTakesOff ==
    ASSUME ConnectionInv, NEW cs \in SUBSET Conns, Remove(cs)
    PROVE  /\ Counted' /\ ipCounts' \in [Ips -> 0..MaxPerIp]
           /\ managed' = managed \ cs
           /\ quiet' \in [Conns -> 0..StaleBeats] /\ DOMAIN channels' = Conns
           /\ \A c \in Conns : channels'[c] = IF c \in cs THEN {} ELSE channels[c]
<1>1. ipCounts' = [i \in Ips |-> ipCounts[i] - Cardinality(Of(i, cs \cap managed))]
  BY DEF Remove, Known, Of
<1>2. Counted' /\ ipCounts' \in [Ips -> 0..MaxPerIp] /\ managed' = managed \ cs
  BY <1>1, PlacesComeBack DEF Remove
<1>3. /\ quiet' = [c \in Conns |-> IF c \in cs THEN 0 ELSE quiet[c]]
      /\ channels' = [c \in Conns |-> IF c \in cs THEN {} ELSE channels[c]]
      /\ quiet \in [Conns -> 0..StaleBeats]
  BY DEF Remove, ConnectionInv, ConnectionTypes
<1> QED
  BY <1>2, <1>3, LiveEventsAssumption

LEMMA NothingSubscribed == IsFiniteSet({}) /\ Cardinality({}) = 0
BY FS_EmptySet

\* Every event of a connection keeps the book-keeping right.
LEMMA ConnectionStep ==
    ASSUME ConnectionInv, NEW c \in Conns, Connection(c)
    PROVE  ConnectionInv'
<1> USE LiveEventsAssumption DEF ConnectionInv
<1>1. ASSUME NEW authenticated \in BOOLEAN, Connect(c, authenticated)
      PROVE  ConnectionInv'
  <2>1. c \notin managed /\ sock[c] = "none" /\ alive' = [alive EXCEPT ![c] = TRUE]
        /\ silent' = silent \ {c} /\ channels' = channels
    BY <1>1 DEF Connect, ClientsMatchSockets, Add, manager
  <2>2. CASE authenticated /\ Accepts(IpOf[c])
    <3>1. /\ sock' = [sock EXCEPT ![c] = "open"] /\ managed' = managed \cup {c}
          /\ quiet' = [quiet EXCEPT ![c] = 0] /\ late' \subseteq late \cup {c}
          /\ ipCounts' = [ipCounts EXCEPT ![IpOf[c]] = @ + 1] /\ ipCounts[IpOf[c]] < MaxPerIp
      BY <1>1, <2>2 DEF Connect, Add, Accepts
    <3>2. Counted'
      BY <2>1, <3>1, CountOneMore, CountsOfMatch DEF Counted, ConnectionTypes
    <3>3. ConnectionTypes'
      BY <2>1, <3>1 DEF ConnectionTypes
    <3> QED
      BY <2>1, <3>1, <3>2, <3>3 DEF ClientsMatchSockets, Counted, Of, ConnectionTypes
  <2>3. CASE ~(authenticated /\ Accepts(IpOf[c]))
    BY <1>1, <2>1, <2>3 DEF Connect, ConnectionTypes, ClientsMatchSockets, manager
  <2> QED
    BY <2>2, <2>3
<1>2. ASSUME NEW subscribed, Message(c, subscribed), subscribed \subseteq MayHear[c],
             IsFiniteSet(subscribed), Cardinality(subscribed) <= MaxSubscriptions,
             c \in managed \/ subscribed = channels[c] \/ subscribed = {}
      PROVE  ConnectionInv'
  BY <1>2 DEF Message, ConnectionTypes, ClientsMatchSockets
<1>3. ASSUME NEW ch \in Channels, Subscribe(c, ch)
      PROVE  ConnectionInv'
  <2>1. CASE c \in managed /\ ch \in MayHear[c] /\ Cardinality(channels[c]) < MaxSubscriptions
    <3>1. /\ IsFiniteSet(channels[c] \cup {ch})
          /\ Cardinality(channels[c] \cup {ch}) <= MaxSubscriptions
      <4>1. IsFiniteSet(channels[c]) /\ Cardinality(channels[c]) \in Nat
        BY FS_CardinalityType DEF ConnectionTypes
      <4>2. /\ IsFiniteSet(channels[c] \cup {ch})
            /\ Cardinality(channels[c] \cup {ch}) \in {Cardinality(channels[c]), Cardinality(channels[c]) + 1}
        BY <4>1, FS_AddElement
      <4> QED
        BY <2>1, <4>1, <4>2
    <3> QED
      BY <1>2, <1>3, <2>1, <3>1 DEF Subscribe, ConnectionTypes
  <2>2. CASE ~(c \in managed /\ ch \in MayHear[c] /\ Cardinality(channels[c]) < MaxSubscriptions)
    BY <1>2, <1>3, <2>2 DEF Subscribe, ConnectionTypes
  <2> QED
    BY <2>1, <2>2
<1>4. ASSUME NEW ch \in Channels, Unsubscribe(c, ch)
      PROVE  ConnectionInv'
  <2>1. IsFiniteSet(channels[c] \ {ch}) /\ Cardinality(channels[c] \ {ch}) <= MaxSubscriptions
    <3>1. /\ IsFiniteSet(channels[c]) /\ Cardinality(channels[c]) \in Nat
          /\ Cardinality(channels[c]) <= MaxSubscriptions
      BY FS_CardinalityType DEF ConnectionTypes
    <3>2. /\ IsFiniteSet(channels[c] \ {ch})
          /\ Cardinality(channels[c] \ {ch}) \in {Cardinality(channels[c]), Cardinality(channels[c]) - 1}
      BY <3>1, FS_RemoveElement
    <3> QED
      BY <3>1, <3>2
  <2>2. c \in managed \/ channels[c] \ {ch} = {}
    BY DEF ClientsMatchSockets
  <2> QED
    BY <1>2, <1>4, <2>1, <2>2 DEF Unsubscribe, ConnectionTypes
<1>5. CASE Pong(c)
  BY <1>5 DEF Pong, ConnectionTypes, ClientsMatchSockets
<1>6. CASE Vanish(c)
  BY <1>6 DEF Vanish, Peer, ConnectionTypes, ClientsMatchSockets, manager
<1>7. CASE SocketClosed(c) \/ SocketError(c)
  <2>1. Remove({c})
        /\ sock' \in {[sock EXCEPT ![c] = "none"], [sock EXCEPT ![c] = "closing"]}
        /\ alive' \in {[alive EXCEPT ![c] = TRUE], alive}
        /\ silent' \subseteq silent /\ late' \subseteq late
    BY <1>7 DEF SocketClosed, SocketError
  <2>2. /\ Counted' /\ ipCounts' \in [Ips -> 0..MaxPerIp] /\ managed' = managed \ {c}
        /\ quiet' \in [Conns -> 0..StaleBeats] /\ DOMAIN channels' = Conns
        /\ \A d \in Conns : channels'[d] = IF d = c THEN {} ELSE channels[d]
    BY <2>1, RemoveTakesOff
  <2>3. ConnectionTypes'
    <3>1. \A d \in Conns :
              /\ channels'[d] \subseteq MayHear[d] /\ IsFiniteSet(channels'[d])
              /\ Cardinality(channels'[d]) <= MaxSubscriptions
      <4> TAKE d \in Conns
      <4>1. CASE d = c
        <5>1. channels'[d] = {} /\ MaxSubscriptions >= 0
          BY <2>2, <4>1
        <5> QED
          BY <5>1, NothingSubscribed
      <4>2. CASE d # c
        BY <2>2, <4>2 DEF ConnectionTypes
      <4> QED
        BY <4>1, <4>2
    <3>2. sock' \in [Conns -> {"none", "open", "closing", "refused"}]
      BY <2>1 DEF ConnectionTypes
    <3>3. alive' \in [Conns -> BOOLEAN]
      BY <2>1 DEF ConnectionTypes
    <3> QED
      BY <2>1, <2>2, <3>1, <3>2, <3>3 DEF ConnectionTypes
  <2>4. \A i \in Ips : ipCounts'[i] = Cardinality({d \in managed' : IpOf[d] = i})
    BY <2>2 DEF Counted, Of
  <2> QED
    BY <2>1, <2>2, <2>3, <2>4 DEF ConnectionTypes, ClientsMatchSockets
<1> QED
  BY <1>1, <1>3, <1>4, <1>5, <1>6, <1>7 DEF Connection

\* So does the heartbeat, which terminates connections without looking them up and removes
\* the stale ones among those it knows.
LEMMA HeartbeatStep ==
    ASSUME ConnectionInv, Heartbeat
    PROVE  ConnectionInv'
<1> DEFINE idle == [c \in Conns |-> IF c \in managed /\ quiet[c] < StaleBeats
                                    THEN quiet[c] + 1 ELSE quiet[c]]
           stale == {c \in managed : idle[c] = StaleBeats}
<1> USE LiveEventsAssumption DEF ConnectionInv
<1>1. /\ managed' = managed \ stale /\ sock' \in [Conns -> {"none", "open", "closing", "refused"}]
      /\ \A c \in Conns : sock'[c] = "closing" \/ (sock'[c] = sock[c] /\ c \notin stale)
      /\ alive' \in [Conns -> BOOLEAN]
      /\ silent' = silent /\ late' = late
  BY DEF Heartbeat, ConnectionTypes
<1>2. stale \in SUBSET Conns /\ stale \cap managed = stale /\ idle \in [Conns -> 0..StaleBeats]
  BY DEF ConnectionTypes
<1>3. /\ quiet' = [c \in Conns |-> IF c \in stale THEN 0 ELSE idle[c]]
      /\ channels' = [c \in Conns |-> IF c \in stale THEN {} ELSE channels[c]]
      /\ ipCounts' = [i \in Ips |-> ipCounts[i] - Cardinality({c \in stale : IpOf[c] = i})]
  BY DEF Heartbeat
<1>4. ipCounts' = [i \in Ips |-> ipCounts[i] - Cardinality(Of(i, stale \cap managed))]
  BY <1>2, <1>3 DEF Of
<1> HIDE DEF idle, stale
<1>5. Counted' /\ ipCounts' \in [Ips -> 0..MaxPerIp]
  BY <1>1, <1>2, <1>4, PlacesComeBack
<1>6. ConnectionTypes'
  BY <1>1, <1>2, <1>3, <1>5, NothingSubscribed DEF ConnectionTypes
<1>7. \A i \in Ips : ipCounts'[i] = Cardinality({d \in managed' : IpOf[d] = i})
  BY <1>5 DEF Counted, Of
<1> QED
  BY <1>1, <1>3, <1>6, <1>7 DEF ConnectionTypes, ClientsMatchSockets

\* A shutdown closes sockets of tracked connections only.
LEMMA CloseAllStep ==
    ASSUME ConnectionInv, CloseAll, UNCHANGED <<alive, manager, silent, late>>
    PROVE  ConnectionInv'
BY DEF ConnectionInv, ConnectionTypes, ClientsMatchSockets, CloseAll, ToClose, manager

LEMMA ConnectionsUntouched ==
    ASSUME ConnectionInv, UNCHANGED connections
    PROVE  ConnectionInv'
BY DEF ConnectionInv, ConnectionTypes, ClientsMatchSockets, connections, manager

(***************************************************************************)
(* The listener.                                                           *)
(***************************************************************************)

ListenerTypes ==
    /\ session \in [Sessions -> Stages] /\ client \in Sessions \cup {NoClient}
    /\ reconnecting \in BOOLEAN /\ timers \in 0..1 /\ gaveUp \in BOOLEAN
    /\ phase \in {"running", "stopping", "closing", "draining", "exited"}

\* A call of startEventListener is at work on it.
Starting(s) == session[s] \in {"connecting", "listening"}

\* One start at a time.  While one is due or at work and errors are not ignored, no client is
\* left that could have one.  Until a shutdown, whoever starts or listens is the client, and
\* no start is due while it listens.
ListenerInv ==
    /\ ListenerTypes
    /\ \A s, t \in Sessions : Starting(s) /\ Starting(t) => s = t
    /\ timers > 0 => \A s \in Sessions : ~Starting(s)
    /\ ~reconnecting /\ (timers > 0 \/ \E s \in Sessions : Starting(s)) =>
           \A s \in Sessions : session[s] \notin {"attached", "ended"}
    /\ phase = "running" =>
           \A s \in Sessions :
               /\ Starting(s) => client = s
               /\ session[s] = "attached" => client = s /\ timers = 0

LEMMA ListenerStep ==
    ASSUME ListenerInv, NEW s \in Sessions,
           Listener(s) \/ Die(s) \/ ListenerError(s) \/ Forget(s)
    PROVE  ListenerInv'
<1> USE LiveEventsAssumption DEF ListenerInv, ListenerTypes, Starting, Stages, NoClient, process
<1>1. CASE StartListener(s)
  BY <1>1 DEF StartListener
<1>2. CASE Connected(s)
  BY <1>2 DEF Connected
<1>3. CASE Attach(s)
  <2>1. /\ session[s] = "listening" /\ session' = [session EXCEPT ![s] = "attached"]
        /\ reconnecting' = FALSE /\ gaveUp' = FALSE /\ UNCHANGED <<client, timers, phase>>
    BY <1>3 DEF Attach, Reconnected
  <2>2. ListenerTypes'
    BY <2>1
  <2>3. timers = 0 /\ \A t \in Sessions \ {s} : ~Starting(t)
    BY <2>1
  <2>4. \A t \in Sessions : ~Starting(t)'
    BY <2>1, <2>3
  <2>5. phase = "running" => client = s /\ \A t \in Sessions : session[t] = "attached" => client = t
    BY <2>1
  <2> QED
    BY <2>1, <2>2, <2>3, <2>4, <2>5
<1>4. CASE StartFails(s)
  BY <1>4 DEF StartFails
<1>5. CASE Die(s)
  BY <1>5 DEF Die, listener
<1>6. CASE ListenerError(s) /\ Ignored
  BY <1>6 DEF ListenerError, Ignored
<1>7. CASE ListenerError(s) /\ ~Ignored
  BY <1>7 DEF ListenerError, Ignored
<1>8. CASE Forget(s)
  BY <1>8 DEF Forget
<1> QED
  BY <1>1, <1>2, <1>3, <1>4, <1>5, <1>6, <1>7, <1>8 DEF Listener

LEMMA ShutdownStep ==
    ASSUME ListenerInv,
           Signal \/ SignalAgain \/ ListenerStopped \/ WebSocketsClosed \/ Exit
    PROVE  ListenerInv'
<1> USE LiveEventsAssumption DEF ListenerInv, ListenerTypes, Starting, Stages, NoClient, process
<1>1. CASE Signal
  BY <1>1 DEF Signal
<1>2. CASE SignalAgain
  BY <1>2 DEF SignalAgain, listener
<1>3. CASE ListenerStopped \/ WebSocketsClosed \/ Exit
  BY <1>3 DEF ListenerStopped, WebSocketsClosed, Exit, listener
<1> QED
  BY <1>1, <1>2, <1>3

LEMMA ListenerUntouched ==
    ASSUME ListenerInv, UNCHANGED <<listener, phase>>
    PROVE  ListenerInv'
BY DEF ListenerInv, ListenerTypes, Starting, listener

(***************************************************************************)
(* The process.                                                            *)
(***************************************************************************)

IndInv == ConnectionInv /\ ListenerInv /\ http \in 0..MaxHttp

LEMMA InitInvariant == Init => IndInv
<1> SUFFICES ASSUME Init
             PROVE  IndInv
  OBVIOUS
<1>1. ConnectionInv
  BY NothingSubscribed, LiveEventsAssumption
     DEF Init, ConnectionInv, ConnectionTypes, ClientsMatchSockets
<1>2. ListenerInv
  <2>1. ListenerTypes
    <3>1. timers \in 0..1
      BY DEF Init
    <3> QED
      BY <3>1, Zenon DEF Init, ListenerTypes, Stages
  <2>2. \A s \in Sessions : ~Starting(s) /\ session[s] = "none"
    BY DEF Init, Starting
  <2> QED
    BY <2>1, <2>2 DEF ListenerInv
<1>3. http \in 0..MaxHttp
  BY LiveEventsAssumption DEF Init
<1> QED
  BY <1>1, <1>2, <1>3 DEF IndInv

LEMMA NextInvariant ==
    ASSUME IndInv, [Next]_vars
    PROVE  IndInv'
<1> USE DEF IndInv, process
<1>1. ASSUME NEW c \in Conns, Connection(c)
      PROVE  IndInv'
  <2>1. UNCHANGED <<listener, process>>
    BY <1>1 DEF Connection, Connect, Subscribe, Unsubscribe, Message, Pong, Vanish, SocketClosed,
                SocketError
  <2> QED
    BY <1>1, <2>1, ConnectionStep, ListenerUntouched
<1>2. ASSUME NEW c \in Conns, RefusedSocketError(c)
      PROVE  IndInv'
  <2>1. UNCHANGED <<connections, listener, http>> /\ phase' = "exited"
    BY <1>2 DEF RefusedSocketError
  <2>2. ListenerInv'
    BY <2>1 DEF ListenerInv, ListenerTypes, Starting, listener
  <2> QED
    BY <2>1, <2>2, ConnectionsUntouched
<1>3. CASE Heartbeat
  <2>1. UNCHANGED <<listener, process>>
    BY <1>3 DEF Heartbeat
  <2> QED
    BY <1>3, <2>1, HeartbeatStep, ListenerUntouched
<1>4. ASSUME NEW s \in Sessions, Listener(s) \/ Die(s) \/ ListenerError(s) \/ Forget(s)
      PROVE  IndInv'
  <2>1. UNCHANGED <<connections, http>>
    BY <1>4 DEF Listener, StartListener, Connected, Attach, StartFails, Die, ListenerError, Forget
  <2> QED
    BY <1>4, <2>1, ConnectionsUntouched, ListenerStep
<1>5. CASE Signal \/ SignalAgain
  <2>1. CloseAll /\ UNCHANGED <<alive, manager, silent, late, http>>
    BY <1>5 DEF Signal, SignalAgain
  <2> QED
    BY <1>5, <2>1, CloseAllStep, ShutdownStep
<1>6. CASE ListenerStopped \/ WebSocketsClosed \/ Exit
  <2>1. UNCHANGED connections /\ http' \in 0..MaxHttp
    BY <1>6 DEF ListenerStopped, WebSocketsClosed, Exit
  <2> QED
    BY <1>6, <2>1, ConnectionsUntouched, ShutdownStep
<1>7. CASE HttpEnds
  <2>1. UNCHANGED <<connections, listener, phase>> /\ http' \in 0..MaxHttp
    BY <1>7, LiveEventsAssumption DEF HttpEnds
  <2> QED
    BY <2>1, ConnectionsUntouched, ListenerUntouched
<1>8. CASE UNCHANGED vars
  BY <1>8, ConnectionsUntouched, ListenerUntouched DEF vars
<1> QED
  BY <1>1, <1>2, <1>3, <1>4, <1>5, <1>6, <1>7, <1>8 DEF Next

\* Every variable of the process keeps its type; so no address ever counts more connections
\* than it may have, and none fewer than none.
THEOREM LiveEventsTyped == Spec => []TypeOK
<1>1. IndInv => TypeOK
  BY DEF IndInv, ConnectionInv, ConnectionTypes, ListenerInv, ListenerTypes, TypeOK
<1> QED
  BY <1>1, InitInvariant, NextInvariant, PTL DEF Spec

\* For any number of connections, addresses and limits: however connections end, the counts,
\* the tracked clients, their subscriptions and the sockets stay in step.
THEOREM BookKeepingMatchesSockets == Spec => []ClientsMatchSockets
<1>1. IndInv => ClientsMatchSockets
  BY DEF IndInv, ConnectionInv
<1> QED
  BY <1>1, InitInvariant, NextInvariant, PTL DEF Spec

\* For any number of pg clients, however late the errors of ended ones come: until a shutdown
\* at most one client's notifications are passed on.
THEOREM NoSecondListener == Spec => []OneListener
<1>1. IndInv => OneListener
  <2> SUFFICES ASSUME IndInv, phase = "running"
               PROVE  Cardinality({s \in Sessions : session[s] = "attached"}) <= 1
    BY DEF OneListener
  <2>1. {s \in Sessions : session[s] = "attached"} \in SUBSET {client}
    <3>1. \A s \in Sessions : session[s] = "attached" => client = s
      BY DEF IndInv, ListenerInv
    <3> QED
      BY <3>1
  <2>2. IsFiniteSet({client}) /\ Cardinality({client}) = 1
    BY FS_Singleton
  <2> HIDE DEF IndInv
  <2> QED
    BY <2>1, <2>2, FS_Subset, FS_CardinalityType
<1> QED
  BY <1>1, InitInvariant, NextInvariant, PTL DEF Spec
=============================================================================
