------------------------------ MODULE Producer ------------------------------
(***************************************************************************)
(* The life cycle of the producers of a stream, internal/streams/producer.go. *)
(* A Producer dials a connection on demand, hands out its tracks, starts a *)
(* worker goroutine that runs the connection, dials again when the worker  *)
(* comes back, and retries with a timer while the source does not answer.  *)
(* Every method runs under the mutex of its producer and is one action;    *)
(* the worker reads workerID and calls reconnect in two critical sections, *)
(* which are two actions.                                                  *)
(***************************************************************************)
EXTENDS Integers, Sequences, FiniteSets

CONSTANTS
    Producers,      \* the Producer values
    Consumers,      \* the consumers whose senders hang on the tracks
    Conns,          \* the connections GetProducer may ever return: bounds the dials
    NoConn,         \* the nil connection
    Codecs,         \* what a recvonly media carries
    Back,           \* the sendonly (backchannel) media
    OfferSets,      \* the sets of medias a dialled connection may offer
    MaxRetry        \* bounds the retries of a reconnect

ASSUME ConnsAssumption == NoConn \notin Conns
ASSUME OffersAssumption == OfferSets \subseteq SUBSET (Codecs \cup {Back})
ASSUME RetryAssumption == MaxRetry \in Nat

VARIABLES
    state,      \* Producer.state
    conn,       \* Producer.conn
    workerID,   \* Producer.workerID
    receivers,  \* Producer.receivers
    senders,    \* Producer.senders: the consumers whose backchannel tracks it holds
    agents,     \* worker goroutines and retry timers of the producer
    connSt,     \* what happened to each connection
    offers,     \* the medias of each connection
    kids,       \* childs of each track: the consumers reading from it
    strays,     \* the childs of each track whose parent is not that track
    back        \* childs of each consumer's backchannel track: connections

prodVars == <<state, conn, workerID, receivers, senders, agents,
              connSt, offers, kids, strays, back>>

(* A track is a core.Receiver of a connection. Its codec is a pointer into *)
(* the medias of the connection that described it, so the same codec of    *)
(* two connections is two different pointers.                              *)
CodecPtr == [of : Conns, codec : Codecs]
Track == [conn : Conns, ptr : CodecPtr]

Agent == [wid : Nat, at : {"run", "failed", "ended", "timer"},
          conn : Conns, retry : Nat]

ProducerStates == {"none", "medias", "tracks", "start", "external"}

CoreTypeOK ==
    /\ state \in [Producers -> ProducerStates]
    /\ conn \in [Producers -> Conns \cup {NoConn}]
    /\ workerID \in [Producers -> Nat]
    /\ agents \in [Producers -> SUBSET Agent]
    /\ connSt \in [Conns -> {"fresh", "open", "stopped"}]

TrackTypeOK ==
    /\ receivers \in [Producers -> Seq(Track)]
    /\ senders \in [Producers -> SUBSET Consumers]
    /\ offers \in [Conns -> SUBSET (Codecs \cup {Back})]
    /\ kids \in [Track -> SUBSET Consumers]
    /\ strays \in [Track -> SUBSET Consumers]
    /\ back \in [Consumers -> SUBSET Conns]

ProducerTypeOK == CoreTypeOK /\ TrackTypeOK

ProducerInit ==
    /\ state = [p \in Producers |-> "none"]
    /\ conn = [p \in Producers |-> NoConn]
    /\ workerID = [p \in Producers |-> 0]
    /\ receivers = [p \in Producers |-> <<>>]
    /\ senders = [p \in Producers |-> {}]
    /\ agents = [p \in Producers |-> {}]
    /\ connSt = [c \in Conns |-> "fresh"]
    /\ offers = [c \in Conns |-> {}]
    /\ kids = [t \in Track |-> {}]
    /\ strays = [t \in Track |-> {}]
    /\ back = [u \in Consumers |-> {}]

-----------------------------------------------------------------------------
(* Connections and tracks.                                                 *)

(* GetProducer returns connection c, which offers the medias os.           *)
Dialled(c, os) ==
    /\ connSt[c] = "fresh"
    /\ connSt' = [connSt EXCEPT ![c] = "open"]
    /\ offers' = [offers EXCEPT ![c] = os]

NewTrack(c, ptr) == [conn |-> c, ptr |-> ptr]

(* Receiver.Close on a track with the childs K: each of them removes       *)
(* itself from its parent, so that the strays S stay. The loop of          *)
(* Node.Close ranges over a slice that RemoveChild shifts: one or two      *)
(* childs are all visited, of three or more some may not be, those in left. *)
Leftovers == IF Cardinality(Consumers) <= 2 THEN {{}} ELSE SUBSET Consumers

ClosedKids(K, S, left) == K \cap (S \cup IF Cardinality(K) <= 2 THEN {} ELSE left)

(* The tracks and senders of connection c close, c being stopped.          *)
KidsClosedBy(ks, st, c, left) ==
    [t \in Track |-> IF t.conn = c THEN ClosedKids(ks[t], st[t], left) ELSE ks[t]]

BackClosedBy(bk, c) == [u \in Consumers |-> bk[u] \ {c}]

(* The senders of a track, as stopProducers asks for them.                 *)
HasSenders(t) == kids[t] # {}
BackHasSenders(u) == back[u] # {}

-----------------------------------------------------------------------------
(* The methods of a producer.                                              *)

DialNew(p, c, os) ==
    /\ state[p] = "none"
    /\ Dialled(c, os)
    /\ conn' = [conn EXCEPT ![p] = c]
    /\ state' = [state EXCEPT ![p] = "medias"]
    /\ UNCHANGED <<workerID, receivers, senders, agents, kids, strays, back>>

HasConn(p) == state[p] # "none"

(* The receiver whose codec is the pointer ptr: there is at most one.      *)
Holding(p, ptr) == {i \in DOMAIN receivers[p] : receivers[p][i].ptr = ptr}

GotTrack(p, ptr) ==
    IF Holding(p, ptr) # {}
    THEN receivers[p][CHOOSE i \in Holding(p, ptr) : TRUE]
    ELSE NewTrack(conn[p], ptr)

GetTrack(p, ptr) ==
    /\ HasConn(p)
    /\ IF Holding(p, ptr) # {}
       THEN UNCHANGED <<receivers, state>>
       ELSE /\ receivers' = [receivers EXCEPT ![p] = Append(@, NewTrack(conn[p], ptr))]
            /\ state' = [state EXCEPT ![p] = IF @ = "medias" THEN "tracks" ELSE @]
    /\ UNCHANGED <<conn, workerID, senders, agents, connSt, offers, kids, strays, back>>

(* The backchannel: the connection's new sender hangs on u's track.        *)
AddTrack(p, u) ==
    /\ HasConn(p)
    /\ back' = [back EXCEPT ![u] = @ \cup {conn[p]}]
    /\ senders' = [senders EXCEPT ![p] = @ \cup {u}]
    /\ state' = [state EXCEPT ![p] = IF @ = "medias" THEN "tracks" ELSE @]
    /\ UNCHANGED <<conn, workerID, receivers, agents, connSt, offers, kids, strays>>

Start(p) ==
    /\ state[p] = "tracks"
    /\ state' = [state EXCEPT ![p] = "start"]
    /\ workerID' = [workerID EXCEPT ![p] = @ + 1]
    /\ agents' = [agents EXCEPT ![p] = @ \cup
            {[wid |-> workerID[p] + 1, at |-> "run", conn |-> conn[p], retry |-> 0]}]
    /\ UNCHANGED <<conn, receivers, senders, connSt, offers, kids, strays, back>>

(* Mutant: the stop of a started producer leaves workerID alone.           *)
NextIDMutant(p) == workerID[p]

(* The stop of a started producer retires its worker.                      *)
NextID(p) == IF state[p] = "start" THEN workerID[p] + 1 ELSE workerID[p]

Stop(p, left) ==
    /\ state[p] \notin {"external", "none"}
    /\ workerID' = [workerID EXCEPT ![p] = NextID(p)]
    /\ connSt' = [connSt EXCEPT ![conn[p]] = "stopped"]
    /\ kids' = KidsClosedBy(kids, strays, conn[p], left)
    /\ back' = BackClosedBy(back, conn[p])
    /\ conn' = [conn EXCEPT ![p] = NoConn]
    /\ state' = [state EXCEPT ![p] = "none"]
    /\ receivers' = [receivers EXCEPT ![p] = <<>>]
    /\ senders' = [senders EXCEPT ![p] = {}]
    /\ UNCHANGED <<agents, offers, strays>>

-----------------------------------------------------------------------------
(* The worker goroutine.                                                   *)

Becomes(p, a, S) == agents' = [agents EXCEPT ![p] = (@ \ {a}) \cup S]

(* conn.Start returns, with an error or without one.                       *)
StartReturns(p, a, at) ==
    /\ a.at = "run" /\ at \in {"failed", "ended"}
    /\ Becomes(p, a, {[a EXCEPT !.at = at]})
    /\ UNCHANGED <<state, conn, workerID, receivers, senders, connSt, offers, kids, strays, back>>

(* Mutant: reconnect asks whether the producer is started, not by whom.    *)
IsCurrentMutant(p, a) == state[p] = "start"

IsCurrent(p, a) == workerID[p] = a.wid

(* After an error the worker looks whether it is still the current one.    *)
WorkerCheck(p, a) ==
    /\ a.at = "failed"
    /\ Becomes(p, a, IF IsCurrent(p, a) THEN {[a EXCEPT !.at = "ended"]} ELSE {})
    /\ UNCHANGED <<state, conn, workerID, receivers, senders, connSt, offers, kids, strays, back>>

Redials(a) == a.at \in {"ended", "timer"}

(* Mutant: a retired worker tries again later.                             *)
ReconnectStaleMutant(p, a) ==
    /\ Redials(a) /\ ~IsCurrent(p, a)
    /\ Becomes(p, a, {[a EXCEPT !.at = "timer"]})
    /\ UNCHANGED <<state, conn, workerID, receivers, senders, connSt, offers, kids, strays, back>>

ReconnectStale(p, a) ==
    /\ Redials(a) /\ ~IsCurrent(p, a)
    /\ Becomes(p, a, {})
    /\ UNCHANGED <<state, conn, workerID, receivers, senders, connSt, offers, kids, strays, back>>

(* Mutant: no timer after a failed dial.                                   *)
ReconnectFailsMutant(p, a) ==
    /\ Redials(a) /\ IsCurrent(p, a)
    /\ a.retry < MaxRetry
    /\ Becomes(p, a, {})
    /\ UNCHANGED <<state, conn, workerID, receivers, senders, connSt, offers, kids, strays, back>>

(* GetProducer fails: a timer will call reconnect again.                   *)
ReconnectFails(p, a) ==
    /\ Redials(a) /\ IsCurrent(p, a)
    /\ a.retry < MaxRetry
    /\ Becomes(p, a, {[wid |-> a.wid, at |-> "timer", conn |-> a.conn, retry |-> a.retry + 1]})
    /\ UNCHANGED <<state, conn, workerID, receivers, senders, connSt, offers, kids, strays, back>>

(* The receiver that a recvonly media of codec k of the new connection     *)
(* replaces: the first one with an equal codec.                            *)
Replaced(p, i, got) ==
    /\ receivers[p][i].ptr.codec \in got
    /\ \A j \in 1..(i - 1) : receivers[p][j].ptr.codec # receivers[p][i].ptr.codec

Successor(p, c, i, got) ==
    IF Replaced(p, i, got)
    THEN NewTrack(c, [of |-> c, codec |-> receivers[p][i].ptr.codec])
    ELSE receivers[p][i]

(* Receiver.Replace (MoveNode) on every replaced receiver takes the list   *)
(* of the old receiver, gives it to the new one, and then points the       *)
(* childs to their new parent, one after the other and without a lock.     *)
(* What others do meanwhile shows in what is left at the end: a child that *)
(* closes has read the old parent and removes itself from the empty list   *)
(* of that one, a child that is being appended gets the old parent written *)
(* last, and either stays in the new list. These are the consumers that    *)
(* late names, with the codec of the track.                                *)
KidsMoved(ks, p, c, got) ==
    [t \in Track |->
        IF \E i \in DOMAIN receivers[p] : Replaced(p, i, got) /\ t = Successor(p, c, i, got)
        THEN ks[receivers[p][CHOOSE i \in DOMAIN receivers[p] :
                        Replaced(p, i, got) /\ t = Successor(p, c, i, got)]]
        ELSE IF \E i \in DOMAIN receivers[p] : Replaced(p, i, got) /\ t = receivers[p][i]
             THEN {} ELSE ks[t]]

StraysMoved(p, c, got, late) ==
    [t \in Track |->
        IF \E i \in DOMAIN receivers[p] : Replaced(p, i, got) /\ t = Successor(p, c, i, got)
        THEN {u \in KidsMoved(kids, p, c, got)[t] : <<u, t.ptr.codec>> \in late}
        ELSE IF \E i \in DOMAIN receivers[p] : Replaced(p, i, got) /\ t = receivers[p][i]
             THEN {} ELSE strays[t]]

(* Every consumer may be in the midst of a call, or none.                  *)
AnyLate == SUBSET (Consumers \X Codecs)

(* Mutant: the previous connection stops before the tracks move.           *)
KidsReconnectedMutant(p, c, got, left, late) ==
    KidsMoved(KidsClosedBy(kids, strays, conn[p], left), p, c, got)

(* The previous connection stops after the tracks have moved.              *)
KidsReconnected(p, c, got, left, late) ==
    KidsClosedBy(KidsMoved(kids, p, c, got), StraysMoved(p, c, got, late), conn[p], left)

(* Mutant: the previous connection is not stopped.                         *)
SwappedMutant(p, c) == [connSt EXCEPT ![c] = "open"]

Swapped(p, c) == [connSt EXCEPT ![c] = "open", ![conn[p]] = "stopped"]

NewWorker(p, a, c) == [wid |-> a.wid, at |-> "run", conn |-> c, retry |-> 0]

(* GetProducer succeeds: got are the offered codecs whose conn.GetTrack    *)
(* does, and the tracks in senders get a sender of the new connection if   *)
(* it has a backchannel.                                                   *)
Reconnect(p, a, c, os, got, left, late) ==
    /\ Redials(a) /\ IsCurrent(p, a)
    /\ connSt[c] = "fresh"
    /\ got \subseteq os \cap Codecs
    /\ receivers' = [receivers EXCEPT ![p] = [i \in DOMAIN @ |-> Successor(p, c, i, got)]]
    /\ kids' = KidsReconnected(p, c, got, left, late)
    /\ strays' = StraysMoved(p, c, got, late)
    /\ back' = BackClosedBy(
            [u \in Consumers |-> back[u] \cup IF Back \in os /\ u \in senders[p] THEN {c} ELSE {}],
            conn[p])
    /\ connSt' = Swapped(p, c)
    /\ offers' = [offers EXCEPT ![c] = os]
    /\ conn' = [conn EXCEPT ![p] = c]
    /\ Becomes(p, a, {NewWorker(p, a, c)})
    /\ UNCHANGED <<state, workerID, senders>>

(* Lates are the consumers that a reconnect may find in the midst of a     *)
(* call.                                                                   *)
WorkerStep(p, Lates) ==
    \E a \in agents[p] :
        \/ \E at \in {"failed", "ended"} : StartReturns(p, a, at)
        \/ WorkerCheck(p, a)
        \/ ReconnectStale(p, a)
        \/ ReconnectFails(p, a)
        \/ \E c \in Conns, os \in OfferSets, left \in Leftovers, late \in Lates :
               \E got \in SUBSET (os \cap Codecs) : Reconnect(p, a, c, os, got, left, late)

-----------------------------------------------------------------------------
(* Producers that push to the stream: Stream.AddProducer wraps their       *)
(* connection in an external producer. RemoveProducer is called when the   *)
(* connection is over and only takes the producer off the list: the        *)
(* readers stay where they are. The name p is then free for another one.   *)

AddExternal(p, c, os) ==
    /\ state[p] = "none"
    /\ Dialled(c, os)
    /\ conn' = [conn EXCEPT ![p] = c]
    /\ state' = [state EXCEPT ![p] = "external"]
    /\ UNCHANGED <<workerID, receivers, senders, agents, kids, strays, back>>

RemoveExternal(p) ==
    /\ state[p] = "external"
    /\ connSt' = [connSt EXCEPT ![conn[p]] = "stopped"]
    /\ conn' = [conn EXCEPT ![p] = NoConn]
    /\ state' = [state EXCEPT ![p] = "none"]
    /\ receivers' = [receivers EXCEPT ![p] = <<>>]
    /\ senders' = [senders EXCEPT ![p] = {}]
    /\ UNCHANGED <<workerID, agents, offers, kids, strays, back>>

(* A consumer's sender hangs on a track. AppendChild puts it in the list   *)
(* and, when it has given the mutex back, writes its parent; by then the   *)
(* list may be that of another track.                                      *)
Attach(u, t) ==
    /\ kids' = [kids EXCEPT ![t] = @ \cup {u}]
    /\ strays' = [strays EXCEPT ![t] = @ \cup {u}]
    /\ UNCHANGED <<state, conn, workerID, receivers, senders, agents, connSt, offers, back>>

Bind(u, t) ==
    /\ strays' = [strays EXCEPT ![t] = @ \ {u}]
    /\ UNCHANGED <<state, conn, workerID, receivers, senders, agents, connSt, offers, kids, back>>

(* Mutant: only the backchannel track is closed.                           *)
DetachMutant(u, found) ==
    /\ back' = [back EXCEPT ![u] = {}]
    /\ UNCHANGED <<state, conn, workerID, receivers, senders, agents, connSt, offers, kids, strays>>

(* A consumer that stops closes its senders, each of which removes itself  *)
(* from its parent, and its backchannel track. A sender that is in another *)
(* list stays there; if its move only then comes to an end (found), that   *)
(* list is its parent's in the end.                                        *)
Detach(u, found) ==
    /\ kids' = [t \in Track |-> kids[t] \ ({u} \ strays[t])]
    /\ strays' = [t \in Track |-> IF found THEN strays[t] \ {u} ELSE strays[t]]
    /\ back' = [back EXCEPT ![u] = {}]
    /\ UNCHANGED <<state, conn, workerID, receivers, senders, agents, connSt, offers>>

-----------------------------------------------------------------------------
(* Every caller at any time: the methods take the mutex and look at the    *)
(* state, so a producer promises the same to any order of calls.           *)

Call(p) ==
    \/ \E c \in Conns, os \in OfferSets : DialNew(p, c, os) \/ AddExternal(p, c, os)
    \/ \E ptr \in CodecPtr : GetTrack(p, ptr)
    \/ \E u \in Consumers : AddTrack(p, u)
    \/ Start(p)
    \/ \E left \in Leftovers : Stop(p, left)
    \/ RemoveExternal(p)

Reader(u) ==
    \/ \E t \in Track : Attach(u, t) \/ Bind(u, t)
    \/ \E found \in BOOLEAN : Detach(u, found)

ProducerNext ==
    \/ \E p \in Producers : Call(p) \/ WorkerStep(p, AnyLate)
    \/ \E u \in Consumers : Reader(u)

ProducerSpec == ProducerInit /\ [][ProducerNext]_prodVars

-----------------------------------------------------------------------------
(* Fairness. The scheduler runs every goroutine and every timer fires; the *)
(* Start of a connection returns once the connection was stopped, and need *)
(* not return otherwise. A source answers at the latest after MaxRetry.    *)

GoesOn(p, wid) ==
    \E a \in agents[p] :
        /\ a.wid = wid
        /\ \/ connSt[a.conn] = "stopped" /\ \E at \in {"failed", "ended"} : StartReturns(p, a, at)
           \/ WorkerCheck(p, a)
           \/ ReconnectStale(p, a)
           \/ ReconnectFails(p, a)
           \/ \E c \in Conns, os \in OfferSets, left \in Leftovers, late \in AnyLate :
                  \E got \in SUBSET (os \cap Codecs) : Reconnect(p, a, c, os, got, left, late)

(* A producer starts at most once per connection.                          *)
WorkerIDs == 1..(2 * Cardinality(Conns))

AgentsRun == \A p \in Producers, wid \in WorkerIDs : WF_prodVars(GoesOn(p, wid))

ProducerFairSpec == ProducerSpec /\ AgentsRun

-----------------------------------------------------------------------------
(* Properties.                                                             *)

Current(p) == {a \in agents[p] : a.wid = workerID[p]}

(* A started producer is served by exactly one goroutine or timer, and a   *)
(* producer that is not started by none: a worker that outlives stop(), or *)
(* a retry timer still armed, must never act for a later start.            *)
OneAgent ==
    \A p \in Producers :
        /\ \A a, b \in Current(p) : a = b
        /\ state[p] = "start" <=> Current(p) # {}

(* No connection is lost: one that is open is the connection of some       *)
(* producer, so the stop of that producer closes it ("fix ghost            *)
(* exec/ffmpeg"), and the connection of a producer is open.                *)
NoGhostConn ==
    /\ \A c \in Conns : connSt[c] = "open" => \E p \in Producers : conn[p] = c
    /\ \A p \in Producers : conn[p] # NoConn => connSt[conn[p]] = "open"

(* Two producers never share a connection, and the current worker runs the *)
(* connection its producer holds: reconnect then finds one to stop.        *)
WorkerRunsConn ==
    \A p \in Producers :
        /\ \A q \in Producers \ {p} : conn[p] # NoConn => conn[p] # conn[q]
        /\ \A a \in Current(p) : conn[p] = a.conn

(* What makes the three inductive: a producer has a connection unless its  *)
(* state is none, and no agent is ahead of workerID.                       *)
HoldsConn == \A p \in Producers : state[p] = "none" <=> conn[p] = NoConn
WidBound == \A p \in Producers : \A a \in agents[p] : a.wid <= workerID[p]

(* A worker or timer of an earlier start leaves the producer alone: it     *)
(* neither swaps the connection of the present one nor moves its readers.  *)
StaleAgentIsHarmless ==
    [][\A p \in Producers :
          conn'[p] # conn[p] /\ state[p] = "start" /\ state'[p] = "start" =>
              /\ workerID'[p] = workerID[p]
              /\ \E a \in agents[p] : a.wid = workerID[p] /\ a.conn = conn[p] /\ a.at # "run"
      ]_prodVars

(* No reader is left behind: when the receivers of a started producer have *)
(* distinct codecs, a reconnect carries every reader of a receiver over to *)
(* the receiver that takes its place, before the old connection stops.     *)
DistinctCodecs(p) ==
    \A i, j \in DOMAIN receivers[p] :
        receivers[p][i].ptr.codec = receivers[p][j].ptr.codec => i = j

ReadersMove ==
    [][\A p \in Producers :
          conn'[p] # conn[p] /\ state[p] = "start" /\ state'[p] = "start" /\ DistinctCodecs(p) =>
              \A i \in DOMAIN receivers[p] :
                  receivers'[p][i].conn = conn'[p] =>
                      kids[receivers[p][i]] \subseteq kids'[receivers'[p][i]]
      ]_prodVars

(* What a producer promises about connections: see ConnOwnership.          *)
Phase(p) == CASE state[p] = "none" -> "idle"
              [] state[p] \in {"medias", "tracks"} -> "ready"
              [] state[p] = "start" -> "live"
              [] state[p] = "external" -> "pushed"

Ownership == INSTANCE ConnOwnership WITH
    phase <- [p \in Producers |-> Phase(p)], owned <- conn, life <- connSt

ImplementsOwnership == Ownership!Spec

(* No goroutine leak: a worker or timer that stop() has overtaken ends.    *)
StaleAgentsEnd ==
    \A p \in Producers, wid \in WorkerIDs :
        (wid < workerID[p] /\ \E a \in agents[p] : a.wid = wid)
            ~> \A a \in agents[p] : a.wid # wid

(* A started producer whose connection came back is connected again, as    *)
(* long as the source has connections to give, or was stopped.             *)
Reconnects ==
    \A p \in Producers :
        (\E a \in Current(p) : a.at # "run")
            ~> \/ \E a \in Current(p) : a.at = "run"
               \/ state[p] # "start"
               \/ \A c \in Conns : connSt[c] # "fresh"
=============================================================================
