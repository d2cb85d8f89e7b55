--------------------------- MODULE StreamsProofs ----------------------------
(***************************************************************************)
(* Theorems about streams and their producers, for every number of         *)
(* producers, consumers, connections and codecs.                           *)
(*                                                                         *)
(* First the life cycle of producers, under any order of the calls that    *)
(* Producer allows. Then a stream: whatever its consumers do concurrently  *)
(* is some order of calls on its producers, so that what was proved of     *)
(* them holds in it. Last, who stops a producer, and that nobody stays.    *)
(***************************************************************************)
EXTENDS Streams, FiniteSetTheorems, TLAPS

-----------------------------------------------------------------------------
(* The life cycle of producers.                                            *)

(* Names for a test, a number or a record: the proofs see through them.    *)
USE DEF HasConn, IsCurrent, NextID, Swapped, NewWorker

(* The facts about state, conn, workerID, agents and connSt that are       *)
(* inductive together.                                                     *)
CoreInv ==
    /\ CoreTypeOK
    /\ HoldsConn
    /\ WidBound
    /\ OneAgent
    /\ NoGhostConn
    /\ WorkerRunsConn

LEMMA InitCore == ProducerInit => CoreInv
  BY DEF ProducerInit, CoreInv, CoreTypeOK, HoldsConn, WidBound, OneAgent,
         NoGhostConn, WorkerRunsConn, Current, ProducerStates

LEMMA DialCore ==
    ASSUME CoreInv, NEW p \in Producers, NEW c \in Conns, NEW os,
           DialNew(p, c, os) \/ AddExternal(p, c, os)
    PROVE  CoreInv'
  <1> USE ConnsAssumption
  <1>1. CoreTypeOK'
    BY DEF CoreInv, CoreTypeOK, DialNew, AddExternal, Dialled, ProducerStates
  <1>2. HoldsConn' /\ WidBound' /\ OneAgent'
    BY DEF CoreInv, CoreTypeOK, DialNew, AddExternal, Dialled, ProducerStates,
           HoldsConn, WidBound, OneAgent, Current
  <1>3. NoGhostConn' /\ WorkerRunsConn'
    BY DEF CoreInv, CoreTypeOK, DialNew, AddExternal, Dialled, ProducerStates,
           HoldsConn, OneAgent, Current, NoGhostConn, WorkerRunsConn
  <1> QED BY <1>1, <1>2, <1>3 DEF CoreInv

LEMMA TrackCore ==
    ASSUME CoreInv, NEW p \in Producers,
           state[p] # "none", 
           \/ state' = state
           \/ state' = [state EXCEPT ![p] = IF @ = "medias" THEN "tracks" ELSE @],
           UNCHANGED <<conn, workerID, agents, connSt>>
    PROVE  CoreInv'
  <1>1. CoreTypeOK'
    BY DEF CoreInv, CoreTypeOK, ProducerStates
  <1>2. HoldsConn' /\ WidBound' /\ OneAgent' /\ NoGhostConn' /\ WorkerRunsConn'
    BY DEF CoreInv, CoreTypeOK, ProducerStates, HoldsConn, WidBound, OneAgent, Current,
           NoGhostConn, WorkerRunsConn
  <1> QED BY <1>1, <1>2 DEF CoreInv

LEMMA StartCore ==
    ASSUME CoreInv, NEW p \in Producers, Start(p)
    PROVE  CoreInv'
  <1> DEFINE new == [wid |-> workerID[p] + 1, at |-> "run", conn |-> conn[p], retry |-> 0]
  <1>0. conn[p] \in Conns /\ new \in Agent
    BY DEF CoreInv, CoreTypeOK, HoldsConn, Start, Agent
  <1>1. CoreTypeOK'
    BY <1>0 DEF CoreInv, CoreTypeOK, Start, ProducerStates
  <1>2. /\ Current(p)' = {new}
        /\ \A q \in Producers \ {p} : Current(q)' = Current(q)
    BY DEF CoreInv, CoreTypeOK, WidBound, Start, Current, Agent
  <1>3. HoldsConn' /\ WidBound'
    BY DEF CoreInv, CoreTypeOK, HoldsConn, WidBound, Start, Agent
  <1>4. state'[p] = "start" /\ \A q \in Producers \ {p} : state'[q] = state[q]
    BY DEF CoreInv, CoreTypeOK, Start
  <1>5. OneAgent'
    <2>1. SUFFICES ASSUME NEW q \in Producers
                   PROVE  /\ \A a, b \in Current(q)' : a = b
                          /\ state'[q] = "start" <=> Current(q)' # {}
      BY DEF OneAgent
    <2>2. CASE q = p
      BY <1>2, <1>4, <2>2
    <2>3. CASE q # p
      BY <1>2, <1>4, <2>3 DEF CoreInv, OneAgent
    <2> QED BY <2>2, <2>3
  <1>6. WorkerRunsConn'
    BY <1>2 DEF CoreInv, WorkerRunsConn, Start
  <1>7. NoGhostConn'
    BY DEF CoreInv, NoGhostConn, Start
  <1> QED BY <1>1, <1>3, <1>5, <1>6, <1>7 DEF CoreInv

LEMMA StopCore ==
    ASSUME CoreInv, NEW p \in Producers, state[p] # "none",
           \/ state[p] = "start" /\ workerID' = [workerID EXCEPT ![p] = @ + 1]
           \/ state[p] # "start" /\ workerID' = workerID,
           connSt' = [connSt EXCEPT ![conn[p]] = "stopped"],
           conn' = [conn EXCEPT ![p] = NoConn],
           state' = [state EXCEPT ![p] = "none"],
           agents' = agents
    PROVE  CoreInv'
  <1>0. conn[p] \in Conns
    BY DEF CoreInv, CoreTypeOK, HoldsConn
  <1>1. CoreTypeOK'
    BY <1>0 DEF CoreInv, CoreTypeOK, ProducerStates
  <1>2. /\ state'[p] = "none" /\ conn'[p] = NoConn
        /\ \A q \in Producers \ {p} : /\ state'[q] = state[q] /\ conn'[q] = conn[q]
                                       /\ workerID'[q] = workerID[q]
    BY DEF CoreInv, CoreTypeOK
  <1>3. /\ Current(p)' = {}
        /\ \A q \in Producers \ {p} : Current(q)' = Current(q)
    BY <1>2 DEF CoreInv, CoreTypeOK, WidBound, OneAgent, Current, Agent
  <1>4. HoldsConn'
    BY <1>2 DEF CoreInv, HoldsConn
  <1>5. WidBound'
    <2>1. \A q \in Producers : workerID'[q] \in Nat /\ workerID[q] \in Nat /\ workerID[q] <= workerID'[q]
      BY DEF CoreInv, CoreTypeOK
    <2>2. \A q \in Producers : \A a \in agents[q] : a.wid \in Nat
      BY DEF CoreInv, CoreTypeOK, Agent
    <2> QED BY <2>1, <2>2 DEF CoreInv, WidBound
  <1>6. OneAgent'
    <2>1. SUFFICES ASSUME NEW q \in Producers
                   PROVE  /\ \A a, b \in Current(q)' : a = b
                          /\ state'[q] = "start" <=> Current(q)' # {}
      BY DEF OneAgent
    <2>2. CASE q = p
      BY <1>2, <1>3, <2>2
    <2>3. CASE q # p
      BY <1>2, <1>3, <2>3 DEF CoreInv, OneAgent
    <2> QED BY <2>2, <2>3
  <1>7. WorkerRunsConn'
    BY <1>2, <1>3 DEF CoreInv, WorkerRunsConn
  <1>8. NoGhostConn'
    <2>1. \A c \in Conns : connSt'[c] = IF c = conn[p] THEN "stopped" ELSE connSt[c]
      BY DEF CoreInv, CoreTypeOK
    <2>2. \A q \in Producers \ {p} : conn[q] # conn[p]
      BY <1>0, ConnsAssumption DEF CoreInv, WorkerRunsConn
    <2>3. \A q \in Producers : conn'[q] # NoConn => conn'[q] \in Conns
      BY <1>1 DEF CoreTypeOK
    <2> QED BY <1>0, <1>2, <2>1, <2>2, <2>3 DEF CoreInv, NoGhostConn
  <1> QED BY <1>1, <1>4, <1>5, <1>6, <1>7, <1>8 DEF CoreInv

(* A worker or timer moves on without touching the producer.               *)
LEMMA AgentCore ==
    ASSUME CoreInv, NEW p \in Producers, NEW a \in agents[p], NEW S \in SUBSET Agent,
           Becomes(p, a, S),
           \A b \in S : b.wid = a.wid /\ b.conn = a.conn,
           \A b, d \in S : b = d,
           S = {} => a.wid # workerID[p],
           UNCHANGED <<state, conn, workerID, connSt>>
    PROVE  CoreInv'
  <1>1. CoreTypeOK'
    BY DEF CoreInv, CoreTypeOK, Becomes
  <1>2. /\ \A q \in Producers \ {p} : Current(q)' = Current(q)
        /\ Current(p)' = IF a.wid = workerID[p] THEN S ELSE Current(p)
    BY DEF CoreInv, CoreTypeOK, OneAgent, Current, Becomes, Agent
  <1>3. HoldsConn' /\ WidBound' /\ NoGhostConn'
    BY DEF CoreInv, CoreTypeOK, HoldsConn, WidBound, NoGhostConn, Becomes
  <1>4. OneAgent' /\ WorkerRunsConn'
    BY <1>2 DEF CoreInv, OneAgent, WorkerRunsConn, Current
  <1> QED BY <1>1, <1>3, <1>4 DEF CoreInv

LEMMA ReconnectCore ==
    ASSUME CoreInv, NEW p \in Producers, NEW a \in agents[p], NEW c \in Conns,
           NEW os, NEW got, NEW left, NEW late, Reconnect(p, a, c, os, got, left, late)
    PROVE  CoreInv'
  <1> DEFINE new == [wid |-> a.wid, at |-> "run", conn |-> c, retry |-> 0]
  <1>0. /\ a \in Current(p) /\ state[p] = "start"
        /\ conn[p] \in Conns /\ conn[p] # c
        /\ new \in Agent
    BY DEF CoreInv, CoreTypeOK, HoldsConn, OneAgent, NoGhostConn, Current, Reconnect, Agent
  <1>1. CoreTypeOK'
    BY <1>0 DEF CoreInv, CoreTypeOK, Reconnect, Becomes
  <1>2. /\ Current(p)' = {new}
        /\ \A q \in Producers \ {p} : Current(q)' = Current(q)
    BY <1>0 DEF CoreInv, CoreTypeOK, OneAgent, Current, Reconnect, Becomes
  <1>3. HoldsConn' /\ WidBound'
    BY <1>0, ConnsAssumption
    DEF CoreInv, CoreTypeOK, HoldsConn, WidBound, Reconnect, Becomes
  <1>4. OneAgent' /\ WorkerRunsConn'
    BY <1>0, <1>2, ConnsAssumption
    DEF CoreInv, CoreTypeOK, OneAgent, WorkerRunsConn, NoGhostConn, Reconnect
  <1>5. NoGhostConn'
    BY <1>0, ConnsAssumption
    DEF CoreInv, CoreTypeOK, NoGhostConn, WorkerRunsConn, Reconnect
  <1> QED BY <1>1, <1>3, <1>4, <1>5 DEF CoreInv

LEMMA WorkerCore ==
    ASSUME CoreInv, NEW p \in Producers, NEW L, WorkerStep(p, L)
    PROVE  CoreInv'
  <1>1. PICK a \in agents[p] :
            \/ \E at \in {"failed", "ended"} : StartReturns(p, a, at)
            \/ WorkerCheck(p, a)
            \/ ReconnectStale(p, a)
            \/ ReconnectFails(p, a)
            \/ \E c \in Conns, os \in OfferSets, left \in Leftovers, late \in L :
                   \E got \in SUBSET (os \cap Codecs) : Reconnect(p, a, c, os, got, left, late)
    BY DEF WorkerStep
  <1>a. a \in Agent
    BY DEF CoreInv, CoreTypeOK
  <1>2. CASE \E at \in {"failed", "ended"} : StartReturns(p, a, at)
    <2>1. PICK at \in {"failed", "ended"} : StartReturns(p, a, at)
      BY <1>2
    <2>2. [a EXCEPT !.at = at] \in Agent
      BY <1>a DEF Agent
    <2> QED BY <1>a, <2>1, <2>2, AgentCore DEF StartReturns, Agent
  <1>3. CASE WorkerCheck(p, a)
    <2>1. [a EXCEPT !.at = "ended"] \in Agent
      BY <1>a DEF Agent
    <2>2. CASE workerID[p] = a.wid
      BY <1>a, <1>3, <2>1, <2>2, AgentCore DEF WorkerCheck, Agent
    <2>3. CASE workerID[p] # a.wid
      BY <1>a, <1>3, <2>3, AgentCore DEF WorkerCheck
    <2> QED BY <2>2, <2>3
  <1>4. CASE ReconnectStale(p, a)
    BY <1>a, <1>4, AgentCore DEF ReconnectStale
  <1>5. CASE ReconnectFails(p, a)
    <2> DEFINE b == [wid |-> a.wid, at |-> "timer", conn |-> a.conn, retry |-> a.retry + 1]
    <2>1. b \in Agent /\ b.wid = a.wid /\ b.conn = a.conn
      BY <1>a DEF Agent
    <2>2. Becomes(p, a, {b}) /\ UNCHANGED <<state, conn, workerID, connSt>>
      BY <1>5 DEF ReconnectFails
    <2> HIDE DEF b
    <2> QED BY <2>1, <2>2, AgentCore
  <1>6. CASE \E c \in Conns, os \in OfferSets, left \in Leftovers, late \in L :
                \E got \in SUBSET (os \cap Codecs) : Reconnect(p, a, c, os, got, left, late)
    BY <1>6, ReconnectCore
  <1> QED BY <1>1, <1>2, <1>3, <1>4, <1>5, <1>6

LEMMA NextCore == CoreInv /\ [ProducerNext]_prodVars => CoreInv'
  <1> SUFFICES ASSUME CoreInv, [ProducerNext]_prodVars
               PROVE  CoreInv'
    OBVIOUS
  <1>1. ASSUME NEW p \in Producers, Call(p)
        PROVE  CoreInv'
    <2>1. CASE \E c \in Conns, os \in OfferSets : DialNew(p, c, os) \/ AddExternal(p, c, os)
      BY <2>1, DialCore
    <2>2. CASE \E ptr \in CodecPtr : GetTrack(p, ptr)
      BY <2>2, TrackCore DEF GetTrack
    <2>3. CASE \E u \in Consumers : AddTrack(p, u)
      BY <2>3, TrackCore DEF AddTrack
    <2>4. CASE Start(p)
      BY <2>4, StartCore
    <2>5. ASSUME NEW left, Stop(p, left)
          PROVE  CoreInv'
      <3>1. CASE state[p] = "start"
        BY <2>5, <3>1, StopCore DEF Stop
      <3>2. CASE state[p] # "start"
        <4>1. workerID' = workerID
          BY <2>5, <3>2 DEF Stop, CoreInv, CoreTypeOK
        <4> QED BY <2>5, <3>2, <4>1, StopCore DEF Stop
      <3> QED BY <3>1, <3>2
    <2>6. CASE RemoveExternal(p)
      <3>1. workerID' = workerID /\ state[p] = "external"
        BY <2>6 DEF RemoveExternal
      <3> QED BY <2>6, <3>1, StopCore DEF RemoveExternal
    <2> QED BY <1>1, <2>1, <2>2, <2>3, <2>4, <2>5, <2>6 DEF Call
  <1>2. ASSUME NEW p \in Producers, NEW L, WorkerStep(p, L)
        PROVE  CoreInv'
    BY <1>2, WorkerCore
  <1>3. ASSUME UNCHANGED <<state, conn, workerID, agents, connSt>>
        PROVE  CoreInv'
    BY <1>3 DEF CoreInv, CoreTypeOK, HoldsConn, WidBound, OneAgent, NoGhostConn,
                WorkerRunsConn, Current
  <1>4. ASSUME NEW u \in Consumers, Reader(u)
        PROVE  CoreInv'
    BY <1>3, <1>4 DEF Reader, Attach, Bind, Detach
  <1> QED BY <1>1, <1>2, <1>3, <1>4 DEF ProducerNext, prodVars

(* A started producer is served by exactly one worker or timer; no         *)
(* connection that start, stop and reconnect open is ever lost; the        *)
(* current worker runs the connection its producer holds.                  *)
THEOREM ProducerSafety ==
    ProducerSpec => [](OneAgent /\ NoGhostConn /\ WorkerRunsConn)
  <1>1. CoreInv => OneAgent /\ NoGhostConn /\ WorkerRunsConn
    BY DEF CoreInv
  <1> QED BY <1>1, InitCore, NextCore, PTL DEF ProducerSpec

-----------------------------------------------------------------------------
(* Types of the tracks.                                                    *)

LEMMA ClosedType ==
    ASSUME NEW ks \in [Track -> SUBSET Consumers], NEW st, NEW c, NEW left
    PROVE  KidsClosedBy(ks, st, c, left) \in [Track -> SUBSET Consumers]
  BY DEF KidsClosedBy, ClosedKids

LEMMA SuccessorType ==
    ASSUME ProducerTypeOK, NEW p \in Producers, NEW c \in Conns, NEW got,
           NEW i \in DOMAIN receivers[p]
    PROVE  receivers[p][i] \in Track /\ Successor(p, c, i, got) \in Track
  <1>1. receivers[p] \in Seq(Track)
    BY DEF ProducerTypeOK, TrackTypeOK
  <1>2. receivers[p][i] \in Track
    BY <1>1
  <1> QED BY <1>2 DEF Successor, NewTrack, Track, CodecPtr

LEMMA MovedType ==
    ASSUME ProducerTypeOK, NEW p \in Producers, NEW c \in Conns, NEW got
    PROVE  KidsMoved(kids, p, c, got) \in [Track -> SUBSET Consumers]
  <1>1. ASSUME NEW t \in Track,
               \E i \in DOMAIN receivers[p] : Replaced(p, i, got) /\ t = Successor(p, c, i, got)
        PROVE  kids[receivers[p][CHOOSE i \in DOMAIN receivers[p] :
                        Replaced(p, i, got) /\ t = Successor(p, c, i, got)]] \in SUBSET Consumers
    <2> DEFINE j == CHOOSE i \in DOMAIN receivers[p] :
                        Replaced(p, i, got) /\ t = Successor(p, c, i, got)
    <2>1. j \in DOMAIN receivers[p]
      BY <1>1
    <2>2. receivers[p][j] \in Track
      BY <2>1, SuccessorType
    <2> QED BY <2>2 DEF ProducerTypeOK, TrackTypeOK
  <1>2. \A t \in Track : kids[t] \in SUBSET Consumers
    BY DEF ProducerTypeOK, TrackTypeOK
  <1> QED BY <1>1, <1>2 DEF KidsMoved

LEMMA TrackTypes ==
    ASSUME CoreInv, TrackTypeOK, [ProducerNext]_prodVars
    PROVE  TrackTypeOK'
  <1> USE DEF TrackTypeOK
  <1>0. ProducerTypeOK
    BY DEF ProducerTypeOK, CoreInv
  <1>1. ASSUME NEW p \in Producers, NEW c \in Conns, NEW os \in OfferSets,
               DialNew(p, c, os) \/ AddExternal(p, c, os)
        PROVE  TrackTypeOK'
    BY <1>1, OffersAssumption DEF DialNew, AddExternal, Dialled
  <1>2. ASSUME NEW p \in Producers, NEW ptr \in CodecPtr, GetTrack(p, ptr)
        PROVE  TrackTypeOK'
    <2>1. conn[p] \in Conns
      BY <1>2 DEF GetTrack, CoreInv, CoreTypeOK, HoldsConn
    <2>2. NewTrack(conn[p], ptr) \in Track
      BY <2>1 DEF NewTrack, Track
    <2>3. Append(receivers[p], NewTrack(conn[p], ptr)) \in Seq(Track)
      BY <2>2
    <2>4. CASE Holding(p, ptr) # {}
      BY <1>2, <2>4 DEF GetTrack
    <2>5. CASE Holding(p, ptr) = {}
      BY <1>2, <2>3, <2>5 DEF GetTrack
    <2> QED BY <2>4, <2>5
  <1>3. ASSUME NEW p \in Producers, NEW u \in Consumers, AddTrack(p, u)
        PROVE  TrackTypeOK'
    <2>1. conn[p] \in Conns
      BY <1>3 DEF AddTrack, CoreInv, CoreTypeOK, HoldsConn
    <2> QED BY <1>3, <2>1 DEF AddTrack
  <1>4. ASSUME NEW p \in Producers, NEW left, Stop(p, left) \/ RemoveExternal(p)
        PROVE  TrackTypeOK'
    <2>1. kids' \in [Track -> SUBSET Consumers] /\ strays' = strays
      BY <1>4, ClosedType DEF Stop, RemoveExternal
    <2>2. /\ receivers' = [receivers EXCEPT ![p] = <<>>]
          /\ senders' = [senders EXCEPT ![p] = {}]
          /\ offers' = offers
          /\ back' = back \/ back' = BackClosedBy(back, conn[p])
      BY <1>4 DEF Stop, RemoveExternal
    <2>3. back' \in [Consumers -> SUBSET Conns]
      BY <2>2 DEF BackClosedBy
    <2>4. receivers' \in [Producers -> Seq(Track)] /\ senders' \in [Producers -> SUBSET Consumers]
      BY <2>2
    <2> QED BY <2>1, <2>2, <2>3, <2>4
  <1>5. ASSUME NEW p \in Producers, NEW a \in agents[p], NEW c \in Conns,
               NEW os \in OfferSets, NEW got, NEW left, NEW late, Reconnect(p, a, c, os, got, left, late)
        PROVE  TrackTypeOK'
    <2>1. kids' \in [Track -> SUBSET Consumers]
      BY <1>0, <1>5, MovedType, ClosedType DEF Reconnect, KidsReconnected
    <2>s. strays' \in [Track -> SUBSET Consumers]
      BY <1>0, <1>5, MovedType DEF Reconnect, StraysMoved
    <2>2. receivers' \in [Producers -> Seq(Track)]
      <3>1. receivers[p] \in Seq(Track)
        OBVIOUS
      <3>2. \A i \in DOMAIN receivers[p] : Successor(p, c, i, got) \in Track
        BY <1>0, SuccessorType
      <3>3. [i \in DOMAIN receivers[p] |-> Successor(p, c, i, got)] \in Seq(Track)
        BY <3>1, <3>2
      <3> QED BY <1>5, <3>3 DEF Reconnect
    <2>3. back' \in [Consumers -> SUBSET Conns]
      BY <1>5 DEF Reconnect, BackClosedBy
    <2>4. senders' = senders /\ offers' \in [Conns -> SUBSET (Codecs \cup {Back})]
      BY <1>5, OffersAssumption DEF Reconnect
    <2> QED BY <2>1, <2>s, <2>2, <2>3, <2>4
  <1>6. ASSUME NEW u \in Consumers, Reader(u)
        PROVE  TrackTypeOK'
    <2>1. ASSUME NEW t \in Track, Attach(u, t) \/ Bind(u, t)
          PROVE  TrackTypeOK'
      <3>1. CASE Attach(u, t)
        <4>1. kids' \in [Track -> SUBSET Consumers] /\ strays' \in [Track -> SUBSET Consumers]
          BY <3>1 DEF Attach
        <4> QED BY <3>1, <4>1 DEF Attach
      <3>2. CASE Bind(u, t)
        BY <3>2 DEF Bind
      <3> QED BY <2>1, <3>1, <3>2
    <2>2. ASSUME NEW found, Detach(u, found)
          PROVE  TrackTypeOK'
      <3>1. /\ kids' = [t \in Track |-> kids[t] \ ({u} \ strays[t])]
            /\ strays' = [t \in Track |-> IF found THEN strays[t] \ {u} ELSE strays[t]]
            /\ back' = [back EXCEPT ![u] = {}]
            /\ UNCHANGED <<receivers, senders, offers>>
        BY <2>2 DEF Detach
      <3> QED BY <3>1
    <2> QED BY <1>6, <2>1, <2>2 DEF Reader
  <1>7. ASSUME UNCHANGED <<receivers, senders, offers, kids, strays, back>>
        PROVE  TrackTypeOK'
    BY <1>7
  <1>8. ASSUME NEW p \in Producers, NEW L, WorkerStep(p, L)
        PROVE  TrackTypeOK'
    BY <1>5, <1>7, <1>8
    DEF WorkerStep, StartReturns, WorkerCheck, ReconnectStale, ReconnectFails
  <1>9. ASSUME NEW p \in Producers, Call(p)
        PROVE  TrackTypeOK'
    BY <1>1, <1>2, <1>3, <1>4, <1>7, <1>9 DEF Call, Start
  <1>10. CASE UNCHANGED prodVars
    BY <1>7, <1>10 DEF prodVars
  <1> QED BY <1>6, <1>8, <1>9, <1>10 DEF ProducerNext

(* Every variable of the producers keeps its type.                         *)
THEOREM ProducerTypes == ProducerSpec => []ProducerTypeOK
  <1>1. ProducerInit => TrackTypeOK
    BY DEF ProducerInit, TrackTypeOK
  <1>2. CoreInv /\ TrackTypeOK /\ [ProducerNext]_prodVars => CoreInv' /\ TrackTypeOK'
    BY NextCore, TrackTypes
  <1>3. CoreInv /\ TrackTypeOK => ProducerTypeOK
    BY DEF CoreInv, ProducerTypeOK
  <1> QED BY <1>1, <1>2, <1>3, InitCore, PTL DEF ProducerSpec

-----------------------------------------------------------------------------
(* Steps that change the connection of a started producer.                 *)

LEMMA StaleStep ==
    ASSUME CoreInv, [ProducerNext]_prodVars, NEW p \in Producers,
           conn'[p] # conn[p], state[p] = "start", state'[p] = "start"
    PROVE  /\ workerID'[p] = workerID[p]
           /\ \E a \in agents[p] : a.wid = workerID[p] /\ a.conn = conn[p] /\ a.at # "run"
  <1> USE DEF CoreInv, CoreTypeOK
  <1>1. ASSUME NEW q \in Producers, Call(q)
        PROVE  FALSE
    BY <1>1 DEF Call, DialNew, AddExternal, GetTrack, AddTrack, Start, Stop, RemoveExternal
  <1>2. ASSUME NEW q \in Producers, NEW a \in agents[q], NEW c \in Conns, NEW os, NEW got, NEW left, NEW late,
               Reconnect(q, a, c, os, got, left, late)
        PROVE  /\ workerID'[p] = workerID[p]
               /\ \E b \in agents[p] : b.wid = workerID[p] /\ b.conn = conn[p] /\ b.at # "run"
    BY <1>2 DEF Reconnect, Redials, WorkerRunsConn, Current
  <1>3. ASSUME NEW q \in Producers, NEW L, WorkerStep(q, L)
        PROVE  /\ workerID'[p] = workerID[p]
               /\ \E b \in agents[p] : b.wid = workerID[p] /\ b.conn = conn[p] /\ b.at # "run"
    BY <1>2, <1>3 DEF WorkerStep, StartReturns, WorkerCheck, ReconnectStale, ReconnectFails
  <1>4. ASSUME NEW u \in Consumers, Reader(u)
        PROVE  FALSE
    BY <1>4 DEF Reader, Attach, Bind, Detach
  <1>5. CASE UNCHANGED prodVars
    BY <1>5 DEF prodVars
  <1> QED BY <1>1, <1>3, <1>4, <1>5 DEF ProducerNext

(* Only the current worker, back from its connection, or its timer trades  *)
(* the connection of a started producer.                                   *)
THEOREM StaleAgents == ProducerSpec => StaleAgentIsHarmless
  <1>1. CoreInv /\ [ProducerNext]_prodVars =>
            [\A p \in Producers :
                conn'[p] # conn[p] /\ state[p] = "start" /\ state'[p] = "start" =>
                    /\ workerID'[p] = workerID[p]
                    /\ \E a \in agents[p] : a.wid = workerID[p] /\ a.conn = conn[p] /\ a.at # "run"
            ]_prodVars
    BY StaleStep
  <1> QED BY <1>1, InitCore, NextCore, PTL DEF ProducerSpec, StaleAgentIsHarmless

-----------------------------------------------------------------------------
(* Refinement.                                                             *)

LEMMA PhaseStep ==
    ASSUME CoreInv, [ProducerNext]_prodVars
    PROVE  [Ownership!Next]_(Ownership!vars)
  <1> DEFINE ph == [p \in Producers |-> Phase(p)]
  <1> USE DEF CoreInv, CoreTypeOK
  <1>0. ASSUME UNCHANGED <<state, conn, connSt>>
        PROVE  UNCHANGED Ownership!vars
    <2>1. ph' = ph
      BY <1>0 DEF Phase
    <2> QED BY <1>0, <2>1 DEF Ownership!vars
  <1>1. ASSUME NEW p \in Producers, NEW c \in Conns, NEW os,
               DialNew(p, c, os) \/ AddExternal(p, c, os)
        PROVE  Ownership!Open(p, c)
    <2>1. ph[p] = "idle"
      BY <1>1 DEF Phase, DialNew, AddExternal
    <2>2. ph' = [ph EXCEPT ![p] = "ready"] \/ ph' = [ph EXCEPT ![p] = "pushed"]
      <3>1. CASE DialNew(p, c, os)
        BY <3>1 DEF Phase, DialNew, ProducerStates
      <3>2. CASE AddExternal(p, c, os)
        BY <3>2 DEF Phase, AddExternal, ProducerStates
      <3> QED BY <1>1, <3>1, <3>2
    <2> QED BY <1>1, <2>1, <2>2 DEF Ownership!Open, DialNew, AddExternal, Dialled
  <1>2. ASSUME NEW p \in Producers, state[p] # "none",
               \/ state' = state
               \/ state' = [state EXCEPT ![p] = IF @ = "medias" THEN "tracks" ELSE @],
               UNCHANGED <<conn, connSt>>
        PROVE  UNCHANGED Ownership!vars
    <2>1. ph' = ph
      BY <1>2 DEF Phase, ProducerStates
    <2> QED BY <1>2, <2>1 DEF Ownership!vars
  <1>3. ASSUME NEW p \in Producers, Start(p)
        PROVE  Ownership!GoLive(p)
    <2>1. ph[p] = "ready" /\ ph' = [ph EXCEPT ![p] = "live"]
      BY <1>3 DEF Phase, Start, ProducerStates
    <2> QED BY <1>3, <2>1 DEF Ownership!GoLive, Start
  <1>4. ASSUME NEW p \in Producers, NEW left, Stop(p, left) \/ RemoveExternal(p)
        PROVE  Ownership!Close(p)
    <2>0. state[p] # "none" /\ state' = [state EXCEPT ![p] = "none"]
      BY <1>4 DEF Stop, RemoveExternal
    <2>1. ph[p] # "idle" /\ ph' = [ph EXCEPT ![p] = "idle"]
      BY <2>0 DEF Phase, ProducerStates
    <2> QED BY <1>4, <2>1 DEF Ownership!Close, Stop, RemoveExternal
  <1>5. ASSUME NEW p \in Producers, NEW a \in agents[p], NEW c \in Conns,
               NEW os, NEW got, NEW left, NEW late, Reconnect(p, a, c, os, got, left, late)
        PROVE  Ownership!Swap(p, c)
    <2>1. state[p] = "start"
      BY <1>5 DEF Reconnect, OneAgent, Current
    <2>2. ph[p] = "live" /\ ph' = ph
      BY <1>5, <2>1 DEF Phase, Reconnect
    <2>a. conn[p] \in Conns /\ conn[p] # c
      BY <1>5, <2>1 DEF Reconnect, NoGhostConn, HoldsConn
    <2>b. connSt' = [connSt EXCEPT ![c] = "open", ![conn[p]] = "stopped"]
      BY <1>5 DEF Reconnect
    <2>3. connSt' = [connSt EXCEPT ![conn[p]] = "stopped", ![c] = "open"]
      BY <2>a, <2>b
    <2> QED BY <1>5, <2>2, <2>3 DEF Ownership!Swap, Reconnect
  <1>6. ASSUME NEW p \in Producers, Call(p)
        PROVE  [Ownership!Next]_(Ownership!vars)
    BY <1>1, <1>2, <1>3, <1>4, <1>6 DEF Call, GetTrack, AddTrack, Ownership!Next
  <1>7. ASSUME NEW p \in Producers, NEW L, WorkerStep(p, L)
        PROVE  [Ownership!Next]_(Ownership!vars)
    BY <1>0, <1>5, <1>7
    DEF WorkerStep, StartReturns, WorkerCheck, ReconnectStale, ReconnectFails, Ownership!Next
  <1>8. ASSUME NEW u \in Consumers, Reader(u)
        PROVE  UNCHANGED Ownership!vars
    BY <1>0, <1>8 DEF Reader, Attach, Bind, Detach
  <1>9. CASE UNCHANGED prodVars
    BY <1>0, <1>9 DEF prodVars
  <1> QED BY <1>6, <1>7, <1>8, <1>9 DEF ProducerNext

(* The life cycle implements the promise about connections: owned from the *)
(* dial to the stop, traded in one step, never used again.                 *)
THEOREM ProducerRefines == ProducerSpec => ImplementsOwnership
  <1>1. ProducerInit => Ownership!Init
    BY DEF ProducerInit, Ownership!Init, Phase
  <1> QED BY <1>1, InitCore, NextCore, PhaseStep, PTL
          DEF ProducerSpec, ImplementsOwnership, Ownership!Spec

-----------------------------------------------------------------------------
(* Backchannels and readers.                                               *)

(* No connection was pushed in, as in a stream that only has configured    *)
(* producers. Then a connection hangs on the track of a consumer only as   *)
(* the connection of a producer that holds the track.                      *)
NonePushed == \A p \in Producers : state[p] # "external"

TalkIsHeld ==
    \A u \in Consumers : \A c \in back[u] : \E p \in Producers : conn[p] = c /\ u \in senders[p]

LEMMA TalkStep ==
    ASSUME CoreInv, TrackTypeOK, NonePushed, TalkIsHeld, [ProducerNext]_prodVars
    PROVE  TalkIsHeld'
  <1> USE DEF TalkIsHeld
  <1>t. /\ conn \in [Producers -> Conns \cup {NoConn}]
        /\ senders \in [Producers -> SUBSET Consumers]
        /\ back \in [Consumers -> SUBSET Conns]
        /\ HoldsConn
    BY DEF CoreInv, CoreTypeOK, TrackTypeOK
  <1>0. ASSUME UNCHANGED <<conn, senders>>, \A u \in Consumers : back'[u] \subseteq back[u]
        PROVE  TalkIsHeld'
    BY <1>0
  <1>1. ASSUME NEW p \in Producers, NEW c \in Conns, NEW os, DialNew(p, c, os) \/ AddExternal(p, c, os)
        PROVE  TalkIsHeld'
    <2>1. conn[p] = NoConn /\ conn' = [conn EXCEPT ![p] = c] /\ UNCHANGED <<senders, back>>
      BY <1>1, <1>t DEF DialNew, AddExternal, HoldsConn
    <2>2. \A u \in Consumers : \A d \in back[u] : d # NoConn
      BY <1>t, ConnsAssumption
    <2> QED BY <1>t, <2>1, <2>2
  <1>2. ASSUME NEW p \in Producers, NEW u \in Consumers, AddTrack(p, u)
        PROVE  TalkIsHeld'
    BY <1>2, <1>t DEF AddTrack
  <1>3. ASSUME NEW p \in Producers, NEW left, Stop(p, left)
        PROVE  TalkIsHeld'
    <2>1. /\ back' = BackClosedBy(back, conn[p])
          /\ conn' = [conn EXCEPT ![p] = NoConn] /\ senders' = [senders EXCEPT ![p] = {}]
      BY <1>3 DEF Stop
    <2> QED BY <1>t, <2>1 DEF BackClosedBy
  <1>4. ASSUME NEW p \in Producers, NEW a \in agents[p], NEW c \in Conns, NEW os, NEW got, NEW left, NEW late,
               Reconnect(p, a, c, os, got, left, late)
        PROVE  TalkIsHeld'
    <2>1. /\ \A u \in Consumers : \A d \in back'[u] :
                d # conn[p] /\ (d \in back[u] \/ (d = c /\ u \in senders[p]))
          /\ conn' = [conn EXCEPT ![p] = c] /\ senders' = senders
      <3> DEFINE More(u) == IF Back \in os /\ u \in senders[p] THEN {c} ELSE {}
      <3>1. /\ back' = BackClosedBy([u \in Consumers |-> back[u] \cup More(u)], conn[p])
            /\ conn' = [conn EXCEPT ![p] = c] /\ senders' = senders
        BY <1>4 DEF Reconnect
      <3>2. \A u \in Consumers : \A d \in More(u) : d = c /\ u \in senders[p]
        OBVIOUS
      <3> HIDE DEF More
      <3>3. \A u \in Consumers : back'[u] = (back[u] \cup More(u)) \ {conn[p]}
        BY <3>1 DEF BackClosedBy
      <3>4. \A u \in Consumers : \A d \in back'[u] :
              d # conn[p] /\ (d \in back[u] \/ (d = c /\ u \in senders[p]))
        <4> TAKE u \in Consumers
        <4> TAKE d \in back'[u]
        <4>1. d \in (back[u] \cup More(u)) \ {conn[p]}
          BY <3>3
        <4> QED BY <3>2, <4>1
      <3> QED BY <3>1, <3>4
    <2> QED BY <1>t, <2>1
  <1>5. ASSUME NEW p \in Producers, Call(p)
        PROVE  TalkIsHeld'
    <2>1. CASE \E ptr \in CodecPtr : GetTrack(p, ptr)
      BY <1>0, <2>1 DEF GetTrack
    <2>2. CASE Start(p)
      BY <1>0, <2>2 DEF Start
    <2>3. ~RemoveExternal(p)
      BY DEF RemoveExternal, NonePushed
    <2> QED BY <1>1, <1>2, <1>3, <1>5, <2>1, <2>2, <2>3 DEF Call
  <1>6. ASSUME NEW p \in Producers, NEW L, WorkerStep(p, L)
        PROVE  TalkIsHeld'
    BY <1>0, <1>4, <1>6 DEF WorkerStep, StartReturns, WorkerCheck, ReconnectStale, ReconnectFails
  <1>7. ASSUME NEW u \in Consumers, Reader(u)
        PROVE  TalkIsHeld'
    BY <1>0, <1>t, <1>7 DEF Reader, Attach, Bind, Detach
  <1>8. CASE UNCHANGED prodVars
    BY <1>0, <1>8 DEF prodVars
  <1> QED BY <1>5, <1>6, <1>7, <1>8 DEF ProducerNext

(* A worker leaves senders and the state of producers alone; the readers   *)
(* it gives to a track, and the strays, are on the new connection and come *)
(* from the receivers of its producer.                                     *)
LEMMA WorkerTracks ==
    ASSUME CoreInv, TrackTypeOK, NEW p \in Producers, NEW L, WorkerStep(p, L)
    PROVE  /\ UNCHANGED <<state, senders>>
           /\ \A t \in Track : \A v \in kids'[t] :
                 \/ v \in kids[t]
                 \/ t.conn = conn'[p] /\ \E i \in DOMAIN receivers[p] : v \in kids[receivers[p][i]]
           /\ \A t \in Track : strays'[t] \subseteq strays[t] \/ t.conn = conn'[p]
           /\ \A q \in Producers : \A i \in DOMAIN receivers'[q] :
                 \/ q = p /\ receivers'[q][i].conn = conn'[p]
                 \/ i \in DOMAIN receivers[q] /\ receivers'[q][i] = receivers[q][i]
  <1> USE DEF CoreInv, CoreTypeOK, TrackTypeOK
  <1>1. CASE UNCHANGED <<state, senders, kids, strays, receivers>>
    BY <1>1
  <1>2. ASSUME NEW a \in agents[p], NEW c \in Conns, NEW os, NEW got, NEW left, NEW late,
               Reconnect(p, a, c, os, got, left, late)
        PROVE  /\ UNCHANGED <<state, senders>>
               /\ \A t \in Track : \A v \in kids'[t] :
                     \/ v \in kids[t]
                     \/ t.conn = conn'[p] /\ \E i \in DOMAIN receivers[p] : v \in kids[receivers[p][i]]
               /\ \A t \in Track : strays'[t] \subseteq strays[t] \/ t.conn = conn'[p]
               /\ \A q \in Producers : \A i \in DOMAIN receivers'[q] :
                     \/ q = p /\ receivers'[q][i].conn = conn'[p]
                     \/ i \in DOMAIN receivers[q] /\ receivers'[q][i] = receivers[q][i]
    <2> DEFINE moved == KidsMoved(kids, p, c, got)
               stray == StraysMoved(p, c, got, late)
               Came(t, i) == Replaced(p, i, got) /\ t = Successor(p, c, i, got)
    <2>0. ProducerTypeOK
      BY DEF ProducerTypeOK, CoreInv
    <2>c. conn'[p] = c
      BY <1>2 DEF Reconnect
    <2>s. \A t \in Track, i \in DOMAIN receivers[p] : Came(t, i) => t.conn = c
      BY DEF Successor, NewTrack
    <2>1. \A t \in Track : \A v \in moved[t] :
             v \in kids[t] \/ (t.conn = c /\ \E i \in DOMAIN receivers[p] : v \in kids[receivers[p][i]])
      <3> TAKE t \in Track
      <3> DEFINE j == CHOOSE i \in DOMAIN receivers[p] : Came(t, i)
      <3>1. CASE \E i \in DOMAIN receivers[p] : Came(t, i)
        <4>1. j \in DOMAIN receivers[p] /\ t.conn = c
          BY <2>s, <3>1
        <4>3. moved[t] = kids[receivers[p][j]]
          BY <3>1 DEF KidsMoved
        <4> HIDE DEF j, moved
        <4> QED BY <4>1, <4>3
      <3>2. CASE ~\E i \in DOMAIN receivers[p] : Came(t, i)
        <4>1. moved[t] = {} \/ moved[t] = kids[t]
          BY <3>2 DEF KidsMoved
        <4> HIDE DEF moved
        <4> QED BY <4>1
      <3> QED BY <3>1, <3>2
    <2>2. \A t \in Track : stray[t] \subseteq strays[t] \/ t.conn = c
      <3> TAKE t \in Track
      <3>1. CASE \E i \in DOMAIN receivers[p] : Came(t, i)
        BY <2>s, <3>1
      <3>2. CASE ~\E i \in DOMAIN receivers[p] : Came(t, i)
        <4>1. stray[t] = {} \/ stray[t] = strays[t]
          BY <3>2 DEF StraysMoved
        <4> HIDE DEF stray
        <4> QED BY <4>1
      <3> QED BY <3>1, <3>2
    <2>3. /\ kids' = KidsClosedBy(moved, stray, conn[p], left) /\ strays' = stray
          /\ UNCHANGED <<state, senders>>
      BY <1>2 DEF Reconnect, KidsReconnected
    <2>4. ASSUME NEW q \in Producers, NEW i \in DOMAIN receivers'[q]
          PROVE  \/ q = p /\ receivers'[q][i].conn = c
                 \/ i \in DOMAIN receivers[q] /\ receivers'[q][i] = receivers[q][i]
      <3>1. receivers' = [receivers EXCEPT ![p] =
                              [j \in DOMAIN receivers[p] |-> Successor(p, c, j, got)]]
        BY <1>2 DEF Reconnect
      <3>2. CASE q = p
        <4>1. i \in DOMAIN receivers[p] /\ receivers'[p][i] = Successor(p, c, i, got)
          BY <2>4, <3>1, <3>2
        <4> QED BY <3>2, <4>1 DEF Successor, NewTrack
      <3> QED BY <2>4, <3>1, <3>2
    <2> HIDE DEF moved, stray
    <2>5. \A t \in Track : kids'[t] \subseteq moved[t]
      BY <2>3 DEF KidsClosedBy, ClosedKids
    <2> QED BY <2>c, <2>1, <2>2, <2>3, <2>4, <2>5
  <1>3. CASE UNCHANGED <<state, conn, workerID, receivers, senders, connSt, offers, kids, strays, back>>
    BY <1>1, <1>3
  <1> QED BY <1>1, <1>2, <1>3 DEF WorkerStep, StartReturns, WorkerCheck, ReconnectStale, ReconnectFails

(* With distinct codecs, a replaced receiver is the only one that its      *)
(* successor succeeds, and the others are nobody's.                        *)
LEMMA MovedReaders ==
    ASSUME ProducerTypeOK, NEW p \in Producers, DistinctCodecs(p),
           NEW a, NEW c \in Conns, NEW os, NEW got, NEW left, NEW late,
           Reconnect(p, a, c, os, got, left, late), conn[p] # c,
           NEW i \in DOMAIN receivers[p], receivers'[p][i].conn = c
    PROVE  kids[receivers[p][i]] \subseteq kids'[receivers'[p][i]]
  <1> DEFINE R(j) == receivers[p][j]
             S(j) == Successor(p, c, j, got)
             t == S(i)
             moved == KidsMoved(kids, p, c, got)
  <1>1. \A j \in DOMAIN receivers[p] : R(j) \in Track /\ S(j) \in Track
    BY SuccessorType
  <1>2. receivers'[p][i] = t
    BY DEF Reconnect, ProducerTypeOK, TrackTypeOK
  <1>3. kids'[t] = moved[t]
    <2>1. t.conn = c /\ t \in Track
      BY <1>1, <1>2
    <2>2. kids' = KidsClosedBy(moved, StraysMoved(p, c, got, late), conn[p], left)
      BY DEF Reconnect, KidsReconnected
    <2> HIDE DEF t, moved
    <2> QED BY <2>1, <2>2 DEF KidsClosedBy
  <1>4. \A j \in DOMAIN receivers[p] :
            /\ S(j).ptr.codec = R(j).ptr.codec
            /\ Replaced(p, j, got) <=> R(j).ptr.codec \in got
    <2> TAKE j \in DOMAIN receivers[p]
    <2>1. S(j).ptr.codec = R(j).ptr.codec
      BY DEF Successor, NewTrack
    <2>2. \A k \in 1..(j - 1) : k \in DOMAIN receivers[p] /\ k # j
      <3>1. receivers[p] \in Seq(Track)
        BY DEF ProducerTypeOK, TrackTypeOK
      <3> QED BY <3>1
    <2>3. \A k \in 1..(j - 1) : R(k).ptr.codec # R(j).ptr.codec
      BY <2>2 DEF DistinctCodecs
    <2> QED BY <2>1, <2>3 DEF Replaced
  <1>5. moved[t] = kids[R(i)]
    <2> DEFINE Came(j) == Replaced(p, j, got) /\ t = Successor(p, c, j, got)
    <2>0. \A j \in DOMAIN receivers[p] : Came(j) => j = i
      BY <1>4 DEF DistinctCodecs
    <2>1. CASE Replaced(p, i, got)
      <3>1. Came(i)
        BY <2>1
      <3>2. (CHOOSE j \in DOMAIN receivers[p] : Came(j)) = i
        BY <2>0, <3>1
      <3>3. t \in Track
        BY <1>1
      <3> QED BY <3>1, <3>2, <3>3 DEF KidsMoved
    <2>2. CASE ~Replaced(p, i, got)
      <3>1. t = R(i)
        BY <2>2 DEF Successor
      <3>2. ~\E j \in DOMAIN receivers[p] : Came(j)
        BY <2>0, <2>2
      <3>3. ~\E j \in DOMAIN receivers[p] : Replaced(p, j, got) /\ t = R(j)
        BY <1>4, <2>2, <3>1 DEF DistinctCodecs
      <3>4. t \in Track
        BY <1>1
      <3> HIDE DEF t
      <3>5. moved[t] = kids[t]
        BY <3>2, <3>3, <3>4 DEF KidsMoved
      <3> QED BY <3>1, <3>5
    <2> QED BY <2>1, <2>2
  <1> QED BY <1>2, <1>3, <1>5

(* A reconnect leaves no reader behind: each is on the receiver that takes *)
(* the place of its own before the old connection stops.                   *)
THEOREM ReadersAreMoved == ProducerSpec => ReadersMove
  <1>1. ASSUME CoreInv, ProducerTypeOK, [ProducerNext]_prodVars, NEW p \in Producers,
               conn'[p] # conn[p], state[p] = "start", state'[p] = "start", DistinctCodecs(p),
               NEW i \in DOMAIN receivers[p], receivers'[p][i].conn = conn'[p]
        PROVE  kids[receivers[p][i]] \subseteq kids'[receivers'[p][i]]
    <2> USE DEF CoreInv, CoreTypeOK
    <2>1. ASSUME NEW q \in Producers, Call(q)
          PROVE  FALSE
      BY <1>1, <2>1 DEF Call, DialNew, AddExternal, GetTrack, AddTrack, Start, Stop, RemoveExternal
    <2>2. ASSUME NEW q \in Producers, NEW a \in agents[q], NEW c \in Conns, NEW os, NEW got, NEW left, NEW late,
                 Reconnect(q, a, c, os, got, left, late)
          PROVE  kids[receivers[p][i]] \subseteq kids'[receivers'[p][i]]
      <3>1. q = p /\ conn'[p] = c
        BY <1>1, <2>2 DEF Reconnect
      <3>2. conn[p] # c
        BY <1>1, <3>1
      <3> QED BY <1>1, <2>2, <3>1, <3>2, MovedReaders
    <2>3. ASSUME NEW q \in Producers, NEW L, WorkerStep(q, L)
          PROVE  kids[receivers[p][i]] \subseteq kids'[receivers'[p][i]]
      BY <1>1, <2>2, <2>3 DEF WorkerStep, StartReturns, WorkerCheck, ReconnectStale, ReconnectFails
    <2>4. ASSUME NEW u \in Consumers, Reader(u)
          PROVE  FALSE
      BY <1>1, <2>4 DEF Reader, Attach, Bind, Detach
    <2>5. CASE UNCHANGED prodVars
      BY <1>1, <2>5 DEF prodVars
    <2> QED BY <1>1, <2>1, <2>3, <2>4, <2>5 DEF ProducerNext
  <1>2. CoreInv /\ ProducerTypeOK /\ [ProducerNext]_prodVars =>
          [\A p \in Producers :
              conn'[p] # conn[p] /\ state[p] = "start" /\ state'[p] = "start" /\ DistinctCodecs(p) =>
                  \A i \in DOMAIN receivers[p] :
                      receivers'[p][i].conn = conn'[p] =>
                          kids[receivers[p][i]] \subseteq kids'[receivers'[p][i]]
          ]_prodVars
    BY <1>1
  <1> QED BY <1>2, InitCore, NextCore, ProducerTypes, PTL DEF ProducerSpec, ReadersMove

-----------------------------------------------------------------------------
(* A stream drives its producers through their life cycle.                 *)

USE DEF LastPending

LEMMA ProdType ==
    ASSUME NEW i \in DOMAIN Configured
    PROVE  Configured[i] \in Producers
  BY ConfiguredAssumption

LEMMA StreamInitType == ProducerInit /\ Init => op \in [Consumers -> Op]
  BY DEF Init, Idle, Op, PCs, NoTrack

(* A consumer is at a producer of the stream whenever it calls one, and    *)
(* holds a track of it when it attaches.                                   *)
Walks(o) == o.pc \in {"dial", "medias", "match", "attach", "bind"}
OpInv ==
    /\ op \in [Consumers -> Op]
    /\ \A u \in Consumers :
        /\ op[u].m \in Nat \ {0} /\ op[u].i \in Nat \ {0} /\ op[u].j \in Nat \ {0}
        /\ op[u].pc \in {"medias", "match", "attach", "bind"} =>
              op[u].i \in DOMAIN Configured /\ op[u].m \in DOMAIN Wants[u]
        /\ op[u].pc \in {"match", "attach", "bind"} => op[u].of \in Conns
        /\ op[u].pc \in {"attach", "bind"} => op[u].track \in Track
        /\ op[u].pc \in {"judge", "kill"} => op[u].j \in DOMAIN Configured

LostType == lost \in [Conns -> SUBSET Consumers]

StreamInv == CoreInv /\ TrackTypeOK /\ OpInv /\ LostType

LEMMA ConsumerCalls ==
    ASSUME StreamInv, NEW u \in Consumers, Goroutine(u)
    PROVE  (\E q \in Producers : Call(q)) \/ Reader(u) \/ UNCHANGED prodVars
  <1> USE DEF StreamInv, OpInv
  <1>1. ASSUME AddConsumer(u)
        PROVE  (\E q \in Producers : Call(q)) \/ Reader(u) \/ UNCHANGED prodVars
    <2>0. \A i \in DOMAIN Configured : Configured[i] \in Producers
      BY ProdType
    <2>1. CASE DialStep(u)
      <3>1. Prod(u) \in Producers
        BY <2>0, <2>1, ConfiguredAssumption
        DEF DialStep, Walking, AllProducersDone, Prod, Op
      <3> QED BY <2>1, <3>1 DEF DialStep, Call
    <2>2. CASE GetTrackStep(u)
      <3>1. Prod(u) \in Producers /\ op[u].of \in Conns
        BY <2>0, <2>2 DEF GetTrackStep, Prod
      <3>2. PICK k \in op[u].todo \cap Codecs : GetTrack(Prod(u), [of |-> op[u].of, codec |-> k])
        BY <2>2 DEF GetTrackStep
      <3>3. [of |-> op[u].of, codec |-> k] \in CodecPtr
        BY <3>1, <3>2 DEF CodecPtr
      <3> QED BY <3>1, <3>2, <3>3 DEF Call
    <2>3. CASE AttachStep(u) \/ BindStep(u)
      BY <2>3 DEF AttachStep, BindStep, Goto, Reader
    <2>4. CASE BackStep(u)
      <3>1. Prod(u) \in Producers
        BY <2>0, <2>4 DEF BackStep, Prod
      <3> QED BY <2>4, <3>1 DEF BackStep, Call
    <2>5. CASE StartStep(u)
      <3>1. op[u].starts \subseteq Producers
        BY DEF Op
      <3> QED BY <2>5, <3>1 DEF StartStep, Call
    <2> QED BY <1>1, <2>1, <2>2, <2>3, <2>4, <2>5
            DEF AddConsumer, AddBegins, WalkOn, DialFails, MediasStep, NoMatchLeft,
                GetTrackFails, AttachFails, BackFails, AddSettles, AddResult, AddAppends
  <1>2. ASSUME StopProducers(u)
        PROVE  (\E q \in Producers : Call(q)) \/ UNCHANGED prodVars
    <2>1. CASE StopKill(u)
      <3>1. Target(u) \in Producers
        BY <2>1, ProdType DEF StopKill, Target
      <3> QED BY <2>1, <3>1 DEF StopKill, Call
    <2> QED BY <1>2, <2>1
            DEF StopProducers, StopCheck, StopLock, StopLook, StopJudge, StopUnlock
  <1>3. ASSUME RemoveConsumer(u)
        PROVE  Reader(u) \/ UNCHANGED prodVars
    BY <1>3 DEF RemoveConsumer, RemoveBegins, RemoveCloses, RemoveUnlists, Reader
  <1> QED BY <1>1, <1>2, <1>3 DEF Goroutine

LEMMA StreamsCallsProducers ==
    ASSUME StreamInv, Next
    PROVE  [ProducerNext]_prodVars
  <1>1. ASSUME NEW u \in Consumers, Goroutine(u)
        PROVE  [ProducerNext]_prodVars
    BY <1>1, ConsumerCalls DEF ProducerNext
  <1>2. ASSUME NEW p \in Producers, Worker(p)
        PROVE  [ProducerNext]_prodVars
    <2>1. WorkerStep(p, Lates(p))
      BY <1>2 DEF Worker
    <2>2. Lates(p) \subseteq AnyLate
      <3>1. ASSUME NEW late \in Lates(p)
            PROVE  late \in AnyLate
        <4>1. PICK l : late = Binding(p) \cup l /\ l \subseteq Consumers \X Codecs
          BY <3>1 DEF Lates, Closing
        <4>2. Binding(p) \subseteq Consumers \X Codecs
          BY DEF Binding
        <4> QED BY <4>1, <4>2 DEF AnyLate
      <3> QED BY <3>1
    <2>3. WorkerStep(p, AnyLate)
      BY <2>1, <2>2 DEF WorkerStep
    <2> QED BY <2>3 DEF ProducerNext
  <1> QED BY <1>1, <1>2 DEF Next

(* A step of u changes op only at u.                                       *)
LEMMA OpStep ==
    ASSUME OpInv, NEW u \in Consumers, NEW o \in Op, op' = [op EXCEPT ![u] = o],
           o.m \in Nat \ {0} /\ o.i \in Nat \ {0} /\ o.j \in Nat \ {0},
           o.pc \in {"medias", "match", "attach", "bind"} =>
              o.i \in DOMAIN Configured /\ o.m \in DOMAIN Wants[u],
           o.pc \in {"match", "attach", "bind"} => o.of \in Conns,
           o.pc \in {"attach", "bind"} => o.track \in Track,
           o.pc \in {"judge", "kill"} => o.j \in DOMAIN Configured
    PROVE  OpInv'
  BY DEF OpInv

LEMMA GotoStep ==
    ASSUME OpInv, NEW u \in Consumers, NEW from, NEW to \in PCs, Goto(u, from, to),
           to \notin {"medias", "match", "attach", "bind", "judge", "kill"}
    PROVE  OpInv'
  <1> DEFINE o == [op[u] EXCEPT !.pc = to]
  <1>1. o \in Op /\ o.pc = to
    BY DEF OpInv, Op
  <1>2. o.m = op[u].m /\ o.i = op[u].i /\ o.j = op[u].j
    BY DEF OpInv, Op
  <1> QED BY <1>1, <1>2, OpStep DEF Goto, OpInv

LEMMA NextSteps ==
    ASSUME OpInv, NEW u \in Consumers
    PROVE  /\ NextProducer(u) \in Op /\ NextMedia(u) \in Op
           /\ NextProducer(u).pc = "dial" /\ NextMedia(u).pc = "dial"
           /\ NextProducer(u).m = op[u].m /\ NextProducer(u).i = op[u].i + 1
           /\ NextProducer(u).j = op[u].j
           /\ NextMedia(u).m = op[u].m + 1 /\ NextMedia(u).i = 1 /\ NextMedia(u).j = op[u].j
           /\ NextProducer(u).i \in Nat \ {0} /\ NextMedia(u).m \in Nat \ {0}
           /\ NextProducer(u).errs = op[u].errs /\ NextProducer(u).starts = op[u].starts
           /\ NextMedia(u).errs = op[u].errs /\ NextMedia(u).starts = op[u].starts
  <1> DEFINE o == op[u]
             Moved(n) == [o EXCEPT !.pc = "dial", !.i = n, !.of = NoConn,
                                   !.todo = {}, !.track = NoTrack]
             Fresh(n) == [o EXCEPT !.pc = "dial", !.m = n, !.i = 1, !.of = NoConn,
                                   !.todo = {}, !.track = NoTrack]
  <1>1. o \in Op /\ o.i + 1 \in Nat \ {0} /\ o.m + 1 \in Nat \ {0}
    BY DEF OpInv, Op
  <1>2. ASSUME NEW n \in Nat
        PROVE  /\ Moved(n) \in Op /\ Fresh(n) \in Op
               /\ Moved(n).pc = "dial" /\ Moved(n).m = o.m /\ Moved(n).i = n /\ Moved(n).j = o.j
               /\ Moved(n).errs = o.errs /\ Moved(n).starts = o.starts
               /\ Fresh(n).pc = "dial" /\ Fresh(n).m = n /\ Fresh(n).i = 1 /\ Fresh(n).j = o.j
               /\ Fresh(n).errs = o.errs /\ Fresh(n).starts = o.starts
    BY <1>1 DEF Op, PCs
  <1>3. NextProducer(u) = Moved(o.i + 1) /\ NextMedia(u) = Fresh(o.m + 1)
    BY DEF NextProducer, NextMedia
  <1> HIDE DEF Moved, Fresh
  <1> QED BY <1>1, <1>2, <1>3

LEMMA GetTrackCase ==
    ASSUME NEW u \in Consumers, GetTrackStep(u)
    PROVE  \E k \in op[u].todo \cap Codecs :
              /\ op[u].pc = "match"
              /\ GetTrack(Prod(u), [of |-> op[u].of, codec |-> k])
              /\ op' = [op EXCEPT ![u] = [op[u] EXCEPT !.pc = "attach",
                               !.track = GotTrack(Prod(u), [of |-> op[u].of, codec |-> k])]]
  BY Zenon DEF GetTrackStep

LEMMA AddKeepsOps ==
    ASSUME StreamInv, NEW u \in Consumers, AddConsumer(u)
    PROVE  OpInv'
  <1> USE DEF StreamInv
  <1> DEFINE o == op[u]
  <1>o. /\ o \in Op /\ o.m \in Nat \ {0} /\ o.i \in Nat \ {0} /\ o.j \in Nat \ {0}
        /\ Wants[u] \in Seq([want : SUBSET (Codecs \cup {Back}), all : BOOLEAN])
    BY WantsAssumption DEF OpInv
  <1>1. CASE AddBegins(u)
    BY <1>1, GotoStep DEF AddBegins, PCs
  <1>2. CASE WalkOn(u)
    <2> DEFINE n == IF AllMediasDone(u) THEN [Idle EXCEPT !.pc = "done", !.starts = o.starts]
                    ELSE IF AllProducersDone(u) THEN NextMedia(u) ELSE NextProducer(u)
    <2>1. op' = [op EXCEPT ![u] = n]
      BY <1>2 DEF WalkOn
    <2>2. [Idle EXCEPT !.pc = "done", !.starts = o.starts] \in Op
      BY <1>o DEF Idle, Op, PCs, NoTrack
    <2>3. /\ [Idle EXCEPT !.pc = "done", !.starts = o.starts].m = 1
          /\ [Idle EXCEPT !.pc = "done", !.starts = o.starts].i = 1
          /\ [Idle EXCEPT !.pc = "done", !.starts = o.starts].j = 1
          /\ [Idle EXCEPT !.pc = "done", !.starts = o.starts].pc = "done"
      BY DEF Idle
    <2>4. n \in Op /\ n.pc \in {"dial", "done"}
      BY <2>2, <2>3, NextSteps
    <2>5. n.m \in Nat \ {0} /\ n.i \in Nat \ {0} /\ n.j \in Nat \ {0}
      BY <1>o, <2>3, NextSteps
    <2> HIDE DEF n
    <2> QED BY <2>1, <2>4, <2>5, OpStep
  <1>a. ASSUME op' = [op EXCEPT ![u] = NextProducer(u)]
        PROVE  OpInv'
    <2> DEFINE n == NextProducer(u)
    <2>1. /\ n \in Op /\ n.pc = "dial" /\ n.m \in Nat \ {0} /\ n.i \in Nat \ {0}
          /\ n.j \in Nat \ {0}
      BY <1>o, NextSteps
    <2> HIDE DEF n
    <2>2. op' = [op EXCEPT ![u] = n]
      BY <1>a DEF n
    <2> QED BY <2>1, <2>2, OpStep
  <1>3. ASSUME Walking(u)
        PROVE  o.i \in DOMAIN Configured /\ o.m \in DOMAIN Wants[u] /\ Prod(u) \in Producers
    BY <1>3, <1>o, ConfiguredAssumption, ProdType
    DEF Walking, AllMediasDone, AllProducersDone, Prod
  <1>4. CASE DialStep(u)
    <2> DEFINE n == [o EXCEPT !.pc = "medias"]
    <2>1. op' = [op EXCEPT ![u] = n]
      BY <1>4 DEF DialStep
    <2>2. n \in Op /\ n.pc = "medias" /\ n.m = o.m /\ n.i = o.i /\ n.j = o.j
      BY <1>o DEF Op, PCs
    <2>3. o.i \in DOMAIN Configured /\ o.m \in DOMAIN Wants[u]
      BY <1>3, <1>4 DEF DialStep
    <2> HIDE DEF n
    <2> QED BY <1>o, <2>1, <2>2, <2>3, OpStep
  <1>5. CASE DialFails(u)
    <2> DEFINE n == [NextProducer(u) EXCEPT !.errs = NextProducer(u).errs \cup {Prod(u)}]
    <2>1. op' = [op EXCEPT ![u] = n]
      BY <1>5 DEF DialFails
    <2>2. Prod(u) \in Producers
      BY <1>3, <1>5 DEF DialFails
    <2>3. n \in Op /\ n.pc = "dial" /\ n.j = o.j /\ n.m = o.m /\ n.i = NextProducer(u).i
      BY <2>2, NextSteps DEF Op
    <2>4. n.i \in Nat \ {0}
      BY <2>3, NextSteps
    <2> HIDE DEF n
    <2> QED BY <1>o, <2>1, <2>3, <2>4, OpStep
  <1>6. CASE MediasStep(u)
    <2> DEFINE c == conn[Prod(u)]
               k == offers[c] \cap Media(u).want
               n == [o EXCEPT !.pc = "match", !.of = c, !.todo = k]
    <2>0. o.i \in DOMAIN Configured /\ o.m \in DOMAIN Wants[u] /\ Prod(u) \in Producers
      BY <1>6, ProdType DEF MediasStep, OpInv, Prod
    <2>1. CASE c = NoConn
      <3>1. op' = [op EXCEPT ![u] = NextProducer(u)]
        BY <1>6, <2>1 DEF MediasStep
      <3> QED BY <1>a, <3>1
    <2>2. CASE c # NoConn
      <3>1. c \in Conns
        BY <2>0, <2>2 DEF CoreInv, CoreTypeOK
      <3>2. k \subseteq Codecs \cup {Back}
        BY <3>1 DEF TrackTypeOK
      <3>3. op' = [op EXCEPT ![u] = n]
        BY <1>6, <2>2 DEF MediasStep
      <3> HIDE DEF c, k
      <3>4. n \in Op /\ n.pc = "match" /\ n.of = c /\ n.m = o.m /\ n.i = o.i /\ n.j = o.j
        BY <1>o, <3>1, <3>2 DEF Op, PCs
      <3> HIDE DEF n
      <3> QED BY <1>o, <2>0, <3>1, <3>3, <3>4, OpStep
    <2> QED BY <2>1, <2>2
  <1>7. ASSUME NEW k, NEW errs \in SUBSET Producers, o.pc \in {"match", "attach", "bind"},
               op' = [op EXCEPT ![u] = [MatchFails(u, k) EXCEPT !.errs = errs]]
        PROVE  OpInv'
    <2> DEFINE n == [[o EXCEPT !.pc = "match", !.todo = o.todo \ {k}, !.track = NoTrack] EXCEPT !.errs = errs]
    <2>1. op' = [op EXCEPT ![u] = n]
      BY <1>7 DEF MatchFails
    <2>2. n \in Op /\ n.pc = "match" /\ n.of = o.of /\ n.m = o.m /\ n.i = o.i /\ n.j = o.j
      BY <1>o, <1>7 DEF Op, PCs
    <2>3. o.of \in Conns /\ o.i \in DOMAIN Configured /\ o.m \in DOMAIN Wants[u]
      BY <1>7 DEF OpInv
    <2> HIDE DEF n
    <2> QED BY <1>o, <2>1, <2>2, <2>3, OpStep
  <1>8. ASSUME o.pc \in {"match", "attach", "bind"}
        PROVE  /\ Prod(u) \in Producers /\ o.errs \cup {Prod(u)} \in SUBSET Producers
               /\ o.of \in Conns /\ o.i \in DOMAIN Configured /\ o.m \in DOMAIN Wants[u]
    <2>1. Prod(u) \in Producers
      BY <1>8, ProdType DEF OpInv, Prod
    <2> QED BY <1>8, <2>1, <1>o DEF OpInv, Op
  <1>9. ASSUME NEW k, o.pc \in {"match", "attach", "bind"}, op' = [op EXCEPT ![u] = Matched(u, k)]
        PROVE  OpInv'
    <2>1. Prod(u) \in Producers
      BY <1>8, <1>9
    <2>2. CASE Media(u).all
      <3> DEFINE n == [o EXCEPT !.pc = "match", !.todo = o.todo \ {k}, !.track = NoTrack,
                                !.starts = o.starts \cup {Prod(u)}]
      <3>1. op' = [op EXCEPT ![u] = n]
        BY <1>9, <2>2 DEF Matched
      <3>2. n \in Op /\ n.pc = "match" /\ n.of = o.of /\ n.m = o.m /\ n.i = o.i /\ n.j = o.j
        BY <1>o, <2>1 DEF Op, PCs
      <3> HIDE DEF n
      <3> QED BY <1>8, <1>9, <1>o, <3>1, <3>2, OpStep
    <2>3. CASE ~Media(u).all
      <3> DEFINE n == [NextMedia(u) EXCEPT !.starts = NextMedia(u).starts \cup {Prod(u)}]
      <3>1. op' = [op EXCEPT ![u] = n]
        BY <1>9, <2>3 DEF Matched
      <3>2. n \in Op /\ n.pc = "dial" /\ n.m \in Nat \ {0} /\ n.i \in Nat \ {0} /\ n.j = o.j
        BY <2>1, NextSteps DEF Op
      <3> HIDE DEF n
      <3> QED BY <1>o, <3>1, <3>2, OpStep
    <2> QED BY <2>2, <2>3
  <1>10. CASE NoMatchLeft(u)
    BY <1>a, <1>10 DEF NoMatchLeft
  <1>11. CASE GetTrackFails(u) \/ BackFails(u)
    <2>1. ASSUME NEW k, o.pc = "match", NEW errs \in SUBSET {Prod(u)},
                 op' = [op EXCEPT ![u] = [MatchFails(u, k) EXCEPT !.errs = @ \cup errs]]
          PROVE  OpInv'
      <3>1. MatchFails(u, k).errs = o.errs
        BY <1>o DEF MatchFails, Op
      <3>2. o.errs \cup errs \in SUBSET Producers
        BY <1>8, <2>1
      <3> QED BY <1>7, <1>8, <2>1, <3>1, <3>2
    <2>2. CASE GetTrackFails(u)
      <3>1. {Prod(u)} \in SUBSET {Prod(u)}
        OBVIOUS
      <3> QED BY <2>1, <2>2, <3>1 DEF GetTrackFails
    <2>3. CASE BackFails(u)
      <3>1. PICK errs \in SUBSET {Prod(u)} :
               op' = [op EXCEPT ![u] = [MatchFails(u, Back) EXCEPT !.errs = @ \cup errs]]
        BY <2>3 DEF BackFails
      <3> QED BY <2>1, <2>3, <3>1 DEF BackFails
    <2> QED BY <1>11, <2>2, <2>3
  <1>12. CASE AttachFails(u)
    <2> DEFINE k == o.track.ptr.codec
    <2>1. [MatchFails(u, k) EXCEPT !.errs = o.errs] = MatchFails(u, k)
      BY <1>o DEF MatchFails, Op
    <2> QED BY <1>7, <1>12, <1>o, <2>1 DEF AttachFails, Op
  <1>13. CASE BindStep(u) \/ BackStep(u)
    BY <1>9, <1>13 DEF BindStep, BackStep
  <1>13a. CASE AttachStep(u)
    <2> DEFINE n == [o EXCEPT !.pc = "bind"]
    <2>1. o.pc = "attach" /\ op' = [op EXCEPT ![u] = n]
      BY <1>13a DEF AttachStep, Goto
    <2>2. n \in Op /\ n.pc = "bind" /\ n.of = o.of /\ n.m = o.m /\ n.i = o.i /\ n.j = o.j /\ n.track = o.track
      BY <1>o DEF Op, PCs
    <2>3. o.track \in Track
      BY <2>1 DEF OpInv
    <2> HIDE DEF n
    <2> QED BY <1>8, <1>o, <2>1, <2>2, <2>3, OpStep
  <1>14. CASE GetTrackStep(u)
    <2>1. PICK k \in o.todo \cap Codecs :
             /\ o.pc = "match"
             /\ GetTrack(Prod(u), [of |-> o.of, codec |-> k])
             /\ op' = [op EXCEPT ![u] = [o EXCEPT !.pc = "attach",
                              !.track = GotTrack(Prod(u), [of |-> o.of, codec |-> k])]]
      BY <1>14, GetTrackCase
    <2> DEFINE p == Prod(u)
               ptr == [of |-> o.of, codec |-> k]
               t == GotTrack(p, ptr)
               n == [o EXCEPT !.pc = "attach", !.track = t]
    <2>2. p \in Producers /\ ptr \in CodecPtr
      BY <1>8, <2>1 DEF CodecPtr
    <2>3. t \in Track
      <3>1. CASE Holding(p, ptr) # {}
        <4> DEFINE i == CHOOSE i \in Holding(p, ptr) : TRUE
        <4>1. receivers[p] \in Seq(Track)
          BY <2>2 DEF TrackTypeOK
        <4>3. i \in Holding(p, ptr)
          BY <3>1
        <4>4. receivers[p][i] \in Track
          <5>1. i \in DOMAIN receivers[p]
            BY <4>3 DEF Holding
          <5> HIDE DEF i, p
          <5> QED BY <4>1, <5>1
        <4> QED BY <3>1, <4>4 DEF GotTrack
      <3>2. CASE Holding(p, ptr) = {}
        <4>1. conn[p] \in Conns
          BY <2>1, <2>2 DEF GetTrack, CoreInv, CoreTypeOK, HoldsConn
        <4> QED BY <2>2, <3>2, <4>1 DEF GotTrack, NewTrack, Track
      <3> QED BY <3>1, <3>2
    <2> HIDE DEF t, ptr
    <2>4. n \in Op /\ n.pc = "attach" /\ n.track = t /\ n.of = o.of /\ n.m = o.m /\ n.i = o.i /\ n.j = o.j
      BY <1>o, <2>3 DEF Op, PCs
    <2>5. op' = [op EXCEPT ![u] = n]
      BY <2>1 DEF t, ptr
    <2> HIDE DEF n
    <2> QED BY <1>8, <1>o, <2>1, <2>3, <2>4, <2>5, OpStep
  <1>15. CASE AddSettles(u)
    <2> DEFINE n == [o EXCEPT !.pc = IF pending = 1 THEN "stopcheck" ELSE "result", !.ret = "result"]
    <2>1. n \in Op /\ n.pc \in {"stopcheck", "result"} /\ n.m = o.m /\ n.i = o.i /\ n.j = o.j
      BY <1>o DEF Op, PCs
    <2>2. op' = [op EXCEPT ![u] = n]
      BY <1>15 DEF AddSettles
    <2> HIDE DEF n
    <2> QED BY <1>o, <2>1, <2>2, OpStep
  <1>16. CASE AddResult(u)
    <2> DEFINE to == IF o.starts = {} THEN "failed" ELSE "append"
               n == [Idle EXCEPT !.pc = to, !.starts = o.starts]
    <2>0. to \in {"failed", "append"} /\ to \in PCs
      BY DEF PCs
    <2>2. op' = [op EXCEPT ![u] = n]
      BY <1>16 DEF AddResult
    <2> HIDE DEF to
    <2>a. Idle \in Op /\ Idle.m = 1 /\ Idle.i = 1 /\ Idle.j = 1 /\ o.starts \in SUBSET Producers
      BY <1>o DEF Op, PCs, Idle, NoTrack
    <2>b. n \in Op
      BY <2>a, <2>0 DEF Op
    <2>c. n.pc = to /\ n.m = Idle.m /\ n.i = Idle.i /\ n.j = Idle.j
      BY <2>a DEF Op
    <2>1. /\ n \in Op /\ n.pc \in {"failed", "append"}
          /\ n.m \in Nat \ {0} /\ n.i \in Nat \ {0} /\ n.j \in Nat \ {0}
      <3> HIDE DEF n
      <3> QED BY <2>0, <2>a, <2>b, <2>c
    <2> HIDE DEF n
    <2> QED BY <1>o, <2>1, <2>2, OpStep
  <1>17. CASE AddAppends(u)
    BY <1>17, GotoStep DEF AddAppends, PCs
  <1>18. CASE StartStep(u)
    <2>1. PICK p \in o.starts :
            op' = [op EXCEPT ![u].starts = @ \ {p},
                             ![u].pc = IF o.starts = {p} THEN "added" ELSE @]
      BY <1>18 DEF StartStep
    <2> DEFINE n == [o EXCEPT !.starts = o.starts \ {p},
                              !.pc = IF o.starts = {p} THEN "added" ELSE o.pc]
    <2>2. op' = [op EXCEPT ![u] = n]
      BY <1>o, <2>1 DEF Op, OpInv
    <2>3. n \in Op /\ n.pc \in {"start", "added"} /\ n.m = o.m /\ n.i = o.i /\ n.j = o.j
      <3>1. o.pc = "start"
        BY <1>18 DEF StartStep
      <3> QED BY <1>o, <3>1 DEF Op, PCs
    <2> HIDE DEF n
    <2> QED BY <1>o, <2>2, <2>3, OpStep
  <1> QED BY <1>1, <1>2, <1>4, <1>5, <1>6, <1>10, <1>11, <1>12, <1>13, <1>13a, <1>14, <1>15, <1>16, <1>17, <1>18
          DEF AddConsumer

LEMMA StopKeepsOps ==
    ASSUME StreamInv, NEW u \in Consumers, StopProducers(u) \/ RemoveConsumer(u)
    PROVE  OpInv'
  <1> USE DEF StreamInv
  <1> DEFINE o == op[u]
  <1>o. o \in Op /\ o.m \in Nat \ {0} /\ o.i \in Nat \ {0} /\ o.j \in Nat \ {0}
    BY DEF OpInv
  <1>1. CASE StopCheck(u)
    <2>1. o.ret \in {"result", "gone"}
      BY <1>o DEF Op
    <2>2. CASE pending > 0
      BY <1>1, <2>1, <2>2, GotoStep DEF StopCheck, PCs
    <2>3. CASE ~(pending > 0)
      BY <1>1, <2>3, GotoStep DEF StopCheck, PCs
    <2> QED BY <2>2, <2>3
  <1>2. CASE StopLock(u)
    BY <1>2, GotoStep DEF StopLock, PCs
  <1>3. CASE StopLook(u)
    <2> DEFINE R == {receivers[Target(u)][i] : i \in DOMAIN receivers[Target(u)]}
               S == senders[Target(u)]
               n == [o EXCEPT !.pc = "judge", !.seenR = R, !.seenS = S]
    <2>1. o.j \in DOMAIN Configured
      BY <1>3, <1>o, ConfiguredAssumption DEF StopLook
    <2>2. Target(u) \in Producers
      BY <2>1, ProdType DEF Target
    <2>3. R \subseteq Track /\ S \subseteq Consumers
      BY <2>2 DEF TrackTypeOK
    <2> HIDE DEF R, S
    <2>4. n \in Op /\ n.pc = "judge" /\ n.m = o.m /\ n.i = o.i /\ n.j = o.j
      BY <1>o, <2>3 DEF Op, PCs
    <2>5. op' = [op EXCEPT ![u] = n]
      BY <1>3 DEF StopLook, R, S
    <2> HIDE DEF n
    <2> QED BY <1>o, <2>1, <2>4, <2>5, OpStep
  <1>4. ASSUME NEW x \in Op, x.pc \in PCs \ {"medias", "match", "attach", "bind", "judge", "kill"},
               x.m = o.m, x.i = o.i, x.j \in Nat \ {0}, op' = [op EXCEPT ![u] = x]
        PROVE  OpInv'
    BY <1>o, <1>4, OpStep
  <1>5. CASE StopJudge(u)
    <2> DEFINE f(j) == [o EXCEPT !.pc = "look", !.j = j, !.seenR = {}, !.seenS = {}]
               g == [o EXCEPT !.pc = "kill", !.seenR = {}, !.seenS = {}]
    <2>0. o.j + 1 \in Nat \ {0} /\ o.j \in DOMAIN Configured
      BY <1>5, <1>o DEF StopJudge, OpInv
    <2>1. \A j \in Nat : f(j) \in Op /\ f(j).pc = "look" /\ f(j).m = o.m /\ f(j).i = o.i /\ f(j).j = j
      BY <1>o DEF Op, PCs
    <2>2. g \in Op /\ g.pc = "kill" /\ g.m = o.m /\ g.i = o.i /\ g.j = o.j
      BY <1>o DEF Op, PCs
    <2> DEFINE y == [o EXCEPT !.pc = "look", !.j = o.j + 1, !.seenR = {}, !.seenS = {}]
    <2>y. f(o.j + 1) = y
      OBVIOUS
    <2>3. op' = [op EXCEPT ![u] = y] \/ op' = [op EXCEPT ![u] = g]
      BY <1>5 DEF StopJudge
    <2> HIDE DEF f, g, y
    <2>4. CASE op' = [op EXCEPT ![u] = y]
      BY <1>4, <2>0, <2>1, <2>y, <2>4 DEF PCs
    <2>5. CASE op' = [op EXCEPT ![u] = g]
      BY <1>o, <2>0, <2>2, <2>5, OpStep
    <2> QED BY <2>3, <2>4, <2>5
  <1>6. CASE StopKill(u)
    <2> DEFINE f(j) == [o EXCEPT !.pc = "look", !.j = j]
    <2>0. o.j + 1 \in Nat \ {0}
      BY <1>o
    <2>1. \A j \in Nat : f(j) \in Op /\ f(j).pc = "look" /\ f(j).m = o.m /\ f(j).i = o.i /\ f(j).j = j
      BY <1>o DEF Op, PCs
    <2> DEFINE y == [o EXCEPT !.pc = "look", !.j = o.j + 1]
    <2>y. f(o.j + 1) = y
      OBVIOUS
    <2>2. op' = [op EXCEPT ![u] = y]
      BY <1>6 DEF StopKill
    <2> HIDE DEF f, y
    <2> QED BY <1>4, <2>0, <2>1, <2>y, <2>2 DEF PCs
  <1>7. CASE StopUnlock(u)
    <2> DEFINE r == o.ret
               x == [o EXCEPT !.pc = r, !.j = 1]
    <2>0. r \in {"result", "gone"} /\ r \in PCs
      BY <1>o DEF Op, PCs
    <2> HIDE DEF r
    <2>a. x \in Op
      BY <1>o, <2>0 DEF Op
    <2>1. x.pc = r /\ x.m = o.m /\ x.i = o.i /\ x.j \in Nat \ {0}
      BY <1>o DEF Op
    <2>2. x.pc \in {"result", "gone"}
      BY <2>0, <2>1
    <2>3. op' = [op EXCEPT ![u] = x]
      BY <1>7 DEF StopUnlock, r
    <2> HIDE DEF x
    <2> QED BY <1>4, <2>a, <2>1, <2>2, <2>3 DEF PCs
  <1>8. CASE RemoveCloses(u)
    <2> DEFINE x == [Idle EXCEPT !.pc = "remove"]
    <2>1. x \in Op /\ x.pc = "remove"
          /\ x.m \in Nat \ {0} /\ x.i \in Nat \ {0} /\ x.j \in Nat \ {0}
      BY DEF Idle, Op, PCs, NoTrack
    <2>2. op' = [op EXCEPT ![u] = x]
      BY <1>8 DEF RemoveCloses
    <2> HIDE DEF x
    <2> QED BY <2>1, <2>2, OpStep
  <1>9. CASE RemoveUnlists(u)
    BY <1>9, GotoStep DEF RemoveUnlists, PCs
  <1>10. CASE RemoveBegins(u)
    BY <1>10, GotoStep DEF RemoveBegins, PCs
  <1> QED BY <1>1, <1>2, <1>3, <1>5, <1>6, <1>7, <1>8, <1>9, <1>10 DEF StopProducers, RemoveConsumer

(* A worker leaves the tracks alone, or it reconnects.                     *)
LEMMA WorkerCases ==
    ASSUME NEW p \in Producers, NEW L, WorkerStep(p, L)
    PROVE  \/ UNCHANGED <<state, conn, workerID, receivers, senders, connSt, offers, kids, strays, back>>
           \/ \E a \in agents[p], c \in Conns, os \in OfferSets, got \in SUBSET Codecs,
                 left \in Leftovers, late \in L : Reconnect(p, a, c, os, got, left, late)
  <1>1. PICK a \in agents[p] :
            \/ \E at \in {"failed", "ended"} : StartReturns(p, a, at)
            \/ WorkerCheck(p, a)
            \/ ReconnectStale(p, a)
            \/ ReconnectFails(p, a)
            \/ \E c \in Conns, os \in OfferSets, left \in Leftovers, late \in L :
                   \E got \in SUBSET (os \cap Codecs) : Reconnect(p, a, c, os, got, left, late)
    BY DEF WorkerStep
  <1>2. CASE (\E at \in {"failed", "ended"} : StartReturns(p, a, at)) \/ WorkerCheck(p, a)
    BY <1>2 DEF StartReturns, WorkerCheck
  <1>3. CASE ReconnectStale(p, a) \/ ReconnectFails(p, a)
    BY <1>3 DEF ReconnectStale, ReconnectFails
  <1>4. CASE \E c \in Conns, os \in OfferSets, left \in Leftovers, late \in L :
                \E got \in SUBSET (os \cap Codecs) : Reconnect(p, a, c, os, got, left, late)
    BY <1>4
  <1> QED BY <1>1, <1>2, <1>3, <1>4

(* Who is lost stays so, and follows to the next connection.               *)
LEMMA LostSteps ==
    ASSUME StreamInv, NEW p \in Producers, Worker(p)
    PROVE  /\ LostType'
           /\ \A q \in Producers \ {p} : conn'[q] = conn[q]
           /\ \/ conn'[p] = conn[p] /\ UNCHANGED <<lost, receivers, connSt, kids, strays>>
              \/ /\ conn[p] \in Conns /\ conn'[p] \in Conns /\ connSt[conn'[p]] = "fresh"
                 /\ connSt'[conn'[p]] # "fresh"
                 /\ lost[conn[p]] \subseteq lost'[conn'[p]]
                 /\ lost[conn'[p]] \subseteq lost'[conn'[p]]
                 /\ StrayOn(conn'[p]) \subseteq lost'[conn'[p]]
                 /\ \A d \in Conns \ {conn'[p]} : lost'[d] = lost[d]
                 /\ \A d \in Conns : connSt[d] # "fresh" => connSt'[d] # "fresh"
  <1> USE DEF StreamInv, CoreInv, CoreTypeOK, LostType
  <1>1. lost' = LostNow(p) /\ WorkerStep(p, Lates(p))
    BY DEF Worker
  <1>2. CASE UNCHANGED <<state, conn, workerID, receivers, senders, connSt, offers, kids, strays, back>>
    BY <1>1, <1>2 DEF LostNow
  <1>3. ASSUME NEW a \in agents[p], NEW c \in Conns, NEW os, NEW got, NEW left, NEW late,
               Reconnect(p, a, c, os, got, left, late)
        PROVE  /\ LostType'
               /\ \A q \in Producers \ {p} : conn'[q] = conn[q]
               /\ conn[p] \in Conns /\ conn'[p] \in Conns /\ connSt[conn'[p]] = "fresh"
               /\ connSt'[conn'[p]] # "fresh"
               /\ lost[conn[p]] \subseteq lost'[conn'[p]]
               /\ lost[conn'[p]] \subseteq lost'[conn'[p]]
               /\ StrayOn(conn'[p]) \subseteq lost'[conn'[p]]
               /\ \A d \in Conns \ {conn'[p]} : lost'[d] = lost[d]
               /\ \A d \in Conns : connSt[d] # "fresh" => connSt'[d] # "fresh"
    <2>1. state[p] = "start"
      BY <1>3 DEF Reconnect, OneAgent, Current
    <2>2. conn[p] \in Conns /\ connSt[conn[p]] = "open" /\ connSt[c] = "fresh"
      BY <1>3, <2>1, ConnsAssumption DEF Reconnect, HoldsConn, NoGhostConn
    <2>3. /\ conn' = [conn EXCEPT ![p] = c]
          /\ connSt' = [connSt EXCEPT ![c] = "open", ![conn[p]] = "stopped"]
      BY <1>3 DEF Reconnect
    <2>4. conn'[p] = c /\ conn[p] # c
      BY <2>2, <2>3
    <2>5. lost' = [lost EXCEPT ![c] = @ \cup lost[conn[p]] \cup StrayOn(c)]
      BY <1>1, <2>4 DEF LostNow
    <2>6. StrayOn(c) \subseteq Consumers
      BY DEF StrayOn
    <2>7. /\ lost'[c] = lost[c] \cup lost[conn[p]] \cup StrayOn(c)
          /\ \A d \in Conns \ {c} : lost'[d] = lost[d]
      BY <2>5
    <2>8. LostType'
      BY <2>2, <2>5, <2>6
    <2> QED BY <2>2, <2>3, <2>4, <2>7, <2>8
  <1> QED BY <1>1, <1>2, <1>3, WorkerCases

LEMMA StreamInvHolds == Spec => []StreamInv
  <1>1. Init => StreamInv
    <2>1. Init => OpInv
      <3>1. Idle \in Op /\ Idle.pc = "idle" /\ Idle.m = 1 /\ Idle.i = 1 /\ Idle.j = 1
        BY DEF Idle, Op, PCs, NoTrack
      <3>2. Idle.m \in Nat \ {0} /\ Idle.i \in Nat \ {0} /\ Idle.j \in Nat \ {0}
        BY <3>1
      <3> HIDE DEF Idle
      <3> QED BY <3>1, <3>2 DEF Init, OpInv
    <2>2. Init => TrackTypeOK
      BY DEF Init, ProducerInit, TrackTypeOK
    <2> QED BY <2>1, <2>2, InitCore DEF Init, StreamInv, LostType
  <1>2. ASSUME StreamInv, [Next]_vars
        PROVE  StreamInv'
    <2>1. [ProducerNext]_prodVars
      BY <1>2, StreamsCallsProducers DEF vars
    <2>2. CoreInv' /\ TrackTypeOK'
      BY <1>2, <2>1, NextCore, TrackTypes DEF StreamInv
    <2>3. ASSUME UNCHANGED op
          PROVE  OpInv'
      BY <1>2, <2>3 DEF StreamInv, OpInv
    <2>4. OpInv'
      BY <1>2, <2>3, AddKeepsOps, StopKeepsOps DEF Next, Goroutine, Worker, streamVars, vars
    <2>5. LostType'
      BY <1>2, LostSteps DEF Next, Goroutine, vars, StreamInv, LostType
    <2> QED BY <2>2, <2>4, <2>5 DEF StreamInv
  <1> QED BY <1>1, <1>2, PTL DEF Spec

(* The consumers of a stream, however they interleave, only call the       *)
(* methods of its producers: what is proved of producers is true here.     *)
THEOREM StreamRunsProducers == Spec => ProducerSpec
  <1>1. StreamInv /\ [Next]_vars => [ProducerNext]_prodVars
    BY StreamsCallsProducers DEF vars
  <1>2. Init => ProducerInit
    BY DEF Init
  <1> QED BY <1>1, <1>2, StreamInvHolds, PTL DEF Spec, ProducerSpec

(* So no interleaving of joining and leaving consumers loses a connection  *)
(* or starts a second worker for a producer.                               *)
THEOREM StreamSafety == Spec => [](OneAgent /\ NoGhostConn /\ WorkerRunsConn)
  BY StreamRunsProducers, ProducerSafety, PTL

(* The counter, the list and the mutex of a stream hold what their types   *)
(* say, whoever joins, leaves or stops producers.                          *)
THEOREM StreamTypes == Spec => []TypeOK
  <1> DEFINE ListOK == /\ pending \in Int
                       /\ consumers \in SUBSET Consumers
                       /\ mu \in Consumers \cup {"free"}
                       /\ hung \in SUBSET Consumers
  <1>1. Init => ListOK
    BY DEF Init
  <1>2. ASSUME ListOK, [Next]_vars
        PROVE  ListOK'
    <2>0. ASSUME UNCHANGED <<pending, consumers, mu, hung>>
          PROVE  ListOK'
      BY <1>2, <2>0
    <2>1. ASSUME NEW u \in Consumers, AddConsumer(u), UNCHANGED hung
          PROVE  ListOK'
      <3>1. CASE AddBegins(u)
        BY <1>2, <2>1, <3>1 DEF AddBegins
      <3>2. CASE AddSettles(u)
        BY <1>2, <2>1, <3>2 DEF AddSettles
      <3>3. CASE AddAppends(u)
        BY <1>2, <2>1, <3>3 DEF AddAppends
      <3>4. CASE WalkOn(u) \/ NoMatchLeft(u) \/ AddResult(u)
        BY <2>0, <2>1, <3>4 DEF WalkOn, NoMatchLeft, AddResult
      <3>4a. CASE MediasStep(u)
        <4>1. UNCHANGED <<pending, consumers, mu>>
          BY <3>4a, Zenon DEF MediasStep
        <4> QED BY <2>0, <2>1, <4>1
      <3>5. CASE DialStep(u) \/ DialFails(u) \/ GetTrackStep(u) \/ GetTrackFails(u)
        BY <2>0, <2>1, <3>5 DEF DialStep, DialFails, GetTrackStep, GetTrackFails
      <3>6. CASE AttachStep(u) \/ BindStep(u) \/ AttachFails(u) \/ BackStep(u) \/ BackFails(u)
        BY <2>0, <2>1, <3>6 DEF AttachStep, BindStep, AttachFails, BackStep, BackFails
      <3>7. CASE StartStep(u)
        BY <2>0, <2>1, <3>7 DEF StartStep
      <3> QED BY <2>1, <3>1, <3>2, <3>3, <3>4, <3>4a, <3>5, <3>6, <3>7 DEF AddConsumer
    <2>2. ASSUME NEW u \in Consumers, StopProducers(u) \/ RemoveConsumer(u), UNCHANGED hung
          PROVE  ListOK'
      <3>1. CASE StopLock(u)
        BY <1>2, <2>2, <3>1 DEF StopLock
      <3>2. CASE StopUnlock(u)
        BY <1>2, <2>2, <3>2 DEF StopUnlock
      <3>3. CASE RemoveUnlists(u)
        BY <1>2, <2>2, <3>3 DEF RemoveUnlists
      <3>4. CASE StopCheck(u) \/ StopLook(u) \/ StopJudge(u)
        BY <2>0, <2>2, <3>4 DEF StopCheck, StopLook, StopJudge
      <3>5. CASE StopKill(u) \/ RemoveBegins(u) \/ RemoveCloses(u)
        BY <2>0, <2>2, <3>5 DEF StopKill, RemoveBegins, RemoveCloses
      <3> QED BY <2>2, <3>1, <3>2, <3>3, <3>4, <3>5 DEF StopProducers, RemoveConsumer
    <2>3. CASE UNCHANGED vars
      BY <2>0, <2>3 DEF vars, streamVars
    <2>4. ASSUME NEW p \in Producers, Worker(p)
          PROVE  ListOK'
      BY <1>2, <2>4 DEF Worker, streamVars
    <2> HIDE DEF ListOK
    <2> QED BY <1>2, <2>1, <2>2, <2>3, <2>4 DEF Next, Goroutine
  <1>3. StreamInv /\ ListOK => TypeOK
    BY DEF StreamInv, OpInv, LostType, TypeOK, ProducerTypeOK, CoreInv
  <1> QED BY <1>1, <1>2, <1>3, StreamInvHolds, PTL DEF Spec

-----------------------------------------------------------------------------
(* Who stops a producer. A consumer is counted in pending while it walks;  *)
(* once it hangs on tracks it will remove itself and stop producers, and   *)
(* with Stream.mu it walks over all of them. So a producer that runs has a *)
(* consumer that has still to come by.                                     *)

Counted == {u \in Consumers : op[u].pc \in {"dial", "medias", "match", "attach", "bind", "done"}}

Judging == {"look", "judge", "kill"}

(* It may hang on tracks, and is going to leave them.                      *)
Joined(u) ==
    \/ op[u].pc \in {"bind", "start", "added", "close"}
    \/ /\ op[u].starts # {}
       /\ \/ u \in Counted
          \/ op[u].pc \in {"result", "append"}
          \/ op[u].pc \in {"stopcheck", "lock"} \cup Judging /\ op[u].ret = "result"

(* It will come by the producer number i.                                  *)
ComesBy(u, i) ==
    \/ u \in Counted \/ Joined(u)
    \/ op[u].pc \in {"remove", "stopcheck", "lock"}
    \/ op[u].pc \in Judging /\ op[u].j <= i

EveryConsumerCounted == IsFiniteSet(Counted) /\ pending = Cardinality(Counted)

OneJudges ==
    \A u \in Consumers :
        /\ op[u].pc \in Judging => mu = u
        /\ op[u].pc \notin Judging => op[u].j = 1
        /\ op[u].pc = "judge" => op[u].seenS \subseteq senders[Target(u)]

(* Who is lost on connection d is also lost on the one that p has now: d   *)
(* is an earlier connection of p, or that one.                             *)
Led(p, d) == conn[p] \in Conns /\ connSt[d] # "fresh" /\ lost[d] \subseteq lost[conn[p]]

LostFollows == \A p \in Producers : \A i \in DOMAIN receivers[p] : Led(p, receivers[p][i].conn)

SeenLed ==
    \A u \in Consumers :
        op[u].pc = "judge" => \A t \in op[u].seenR : Led(Target(u), t.conn)

(* A child that has another parent than its track is being appended to it, *)
(* or a reconnect has made it so.                                          *)
StraysLost ==
    \A u \in Consumers, t \in Track :
        u \in strays[t] => u \in lost[t.conn] \/ (op[u].pc = "bind" /\ t = op[u].track)

ReadersJoined == \A u \in Consumers, t \in Track : u \in kids[t] => Joined(u) \/ u \in lost[t.conn]

TalkersJoined == \A u \in Consumers : back[u] # {} => Joined(u) \/ u \in hung

SomebodyComesBy ==
    \A i \in DOMAIN Configured :
        \/ Stopped(i)
        \/ \E u \in Consumers : ComesBy(u, i)
        \/ lost[conn[Configured[i]]] # {}
        \/ \E u \in senders[Configured[i]] : u \in hung

GhostInv ==
    /\ EveryConsumerCounted /\ OneJudges
    /\ LostFollows /\ SeenLed /\ StraysLost
    /\ ReadersJoined /\ TalkersJoined /\ NonePushed /\ TalkIsHeld /\ SomebodyComesBy

-----------------------------------------------------------------------------
(* What the steps of a consumer do to its place in the code.               *)

Elsewhere(u) == \A v \in Consumers \ {u} : op'[v] = op[v]

LEMMA OpBecomes ==
    ASSUME OpInv, NEW u \in Consumers, NEW o, op' = [op EXCEPT ![u] = o]
    PROVE  op'[u] = o /\ Elsewhere(u)
  BY DEF OpInv, Elsewhere

LEMMA GotoFields ==
    ASSUME OpInv, NEW u \in Consumers, NEW from, NEW to, Goto(u, from, to)
    PROVE  /\ Elsewhere(u) /\ op[u].pc = from /\ op'[u].pc = to
           /\ op'[u].starts = op[u].starts /\ op'[u].j = op[u].j /\ op'[u].ret = op[u].ret
           /\ op'[u].seenS = op[u].seenS /\ op'[u].track = op[u].track
  <1> DEFINE o == [op[u] EXCEPT !.pc = to]
  <1>1. op[u] \in Op /\ op' = [op EXCEPT ![u] = o] /\ op[u].pc = from
    BY DEF Goto, OpInv
  <1>2. /\ o.pc = to /\ o.starts = op[u].starts /\ o.j = op[u].j /\ o.ret = op[u].ret
        /\ o.seenS = op[u].seenS /\ o.track = op[u].track
    BY <1>1 DEF Op
  <1> HIDE DEF o
  <1> QED BY <1>1, <1>2, OpBecomes

Walk(u) ==
    \/ WalkOn(u) \/ DialStep(u) \/ DialFails(u) \/ MediasStep(u)
    \/ NoMatchLeft(u) \/ GetTrackStep(u) \/ GetTrackFails(u) \/ AttachStep(u)
    \/ BindStep(u) \/ AttachFails(u) \/ BackStep(u) \/ BackFails(u)

WalkPCs == {"dial", "medias", "match", "attach", "bind"}

LEMMA MoveFields ==
    ASSUME OpInv, NEW u \in Consumers
    PROVE  /\ NextProducer(u).pc = "dial" /\ NextProducer(u).starts = op[u].starts
           /\ NextMedia(u).pc = "dial" /\ NextMedia(u).starts = op[u].starts
           /\ NextProducer(u).j = op[u].j /\ NextMedia(u).j = op[u].j
           /\ NextProducer(u) \in Op /\ NextMedia(u) \in Op
  BY NextSteps

LEMMA FailFields ==
    ASSUME OpInv, NEW u \in Consumers, NEW k, NEW E
    PROVE  LET n == [MatchFails(u, k) EXCEPT !.errs = E] IN
           /\ n.pc = "match" /\ n.starts = op[u].starts /\ n.j = op[u].j
           /\ MatchFails(u, k).pc = "match" /\ MatchFails(u, k).starts = op[u].starts
           /\ MatchFails(u, k).j = op[u].j
  <1>1. op[u] \in Op
    BY DEF OpInv
  <1> QED BY <1>1 DEF MatchFails, Op

LEMMA MatchedFields ==
    ASSUME OpInv, NEW u \in Consumers, NEW k
    PROVE  /\ Matched(u, k).pc \in {"match", "dial"}
           /\ Matched(u, k).starts = op[u].starts \cup {Prod(u)}
           /\ Matched(u, k).j = op[u].j
  <1>1. op[u] \in Op
    BY DEF OpInv
  <1>2. CASE Media(u).all
    BY <1>1, <1>2 DEF Matched, Op
  <1>3. CASE ~Media(u).all
    <2>1. NextMedia(u) \in Op /\ NextMedia(u).pc = "dial"
          /\ NextMedia(u).starts = op[u].starts /\ NextMedia(u).j = op[u].j
      BY MoveFields
    <2>2. Matched(u, k) = [NextMedia(u) EXCEPT !.starts = @ \cup {Prod(u)}]
      BY <1>3 DEF Matched
    <2> QED BY <2>1, <2>2 DEF Op
  <1> QED BY <1>2, <1>3

LEMMA WalkFields ==
    ASSUME OpInv, NEW u \in Consumers, Walk(u)
    PROVE  /\ Elsewhere(u)
           /\ op[u].pc \in WalkPCs /\ op'[u].pc \in WalkPCs \cup {"done"}
           /\ op[u].starts \subseteq op'[u].starts
           /\ op'[u].j \in {1, op[u].j}
           /\ BindStep(u) \/ BackStep(u) => op'[u].starts # {}
           /\ UNCHANGED <<pending, mu>>
  <1> DEFINE o == op[u]
  <1>o. o \in Op
    BY DEF OpInv
  <1>0. UNCHANGED <<pending, mu>>
    BY DEF Walk, WalkOn, DialStep, DialFails, MediasStep, NoMatchLeft, GetTrackStep,
           GetTrackFails, AttachStep, BindStep, AttachFails, BackStep, BackFails
  <1>1. ASSUME NEW n, op' = [op EXCEPT ![u] = n], o.pc \in WalkPCs,
               n.pc \in WalkPCs \cup {"done"}, o.starts \subseteq n.starts, n.j \in {1, o.j},
               BindStep(u) \/ BackStep(u) => n.starts # {}
        PROVE  /\ Elsewhere(u)
               /\ op[u].pc \in WalkPCs /\ op'[u].pc \in WalkPCs \cup {"done"}
               /\ op[u].starts \subseteq op'[u].starts
               /\ op'[u].j \in {1, op[u].j}
               /\ BindStep(u) \/ BackStep(u) => op'[u].starts # {}
               /\ UNCHANGED <<pending, mu>>
    BY <1>0, <1>1, OpBecomes
  <1>2. CASE WalkOn(u)
    <2> DEFINE d == [Idle EXCEPT !.pc = "done", !.starts = o.starts]
               n == IF AllMediasDone(u) THEN d
                    ELSE IF AllProducersDone(u) THEN NextMedia(u) ELSE NextProducer(u)
    <2>1. op' = [op EXCEPT ![u] = n] /\ o.pc = "dial" /\ ~BindStep(u) /\ ~BackStep(u)
      BY <1>2 DEF WalkOn, BindStep, BackStep
    <2>2. d.pc = "done" /\ d.starts = o.starts /\ d.j = 1
      BY DEF Idle
    <2> HIDE DEF d
    <2>3. n.pc \in {"dial", "done"} /\ n.starts = o.starts /\ n.j \in {1, o.j}
      BY <2>2, MoveFields
    <2> HIDE DEF n
    <2> QED BY <1>1, <2>1, <2>3 DEF WalkPCs
  <1>3. ASSUME op' = [op EXCEPT ![u] = NextProducer(u)], o.pc \in WalkPCs,
               ~BindStep(u) /\ ~BackStep(u)
        PROVE  /\ Elsewhere(u)
               /\ op[u].pc \in WalkPCs /\ op'[u].pc \in WalkPCs \cup {"done"}
               /\ op[u].starts \subseteq op'[u].starts
               /\ op'[u].j \in {1, op[u].j}
               /\ BindStep(u) \/ BackStep(u) => op'[u].starts # {}
               /\ UNCHANGED <<pending, mu>>
    BY <1>1, <1>3, MoveFields DEF WalkPCs
  <1>4. CASE DialStep(u)
    <2> DEFINE n == [o EXCEPT !.pc = "medias"]
    <2>1. op' = [op EXCEPT ![u] = n] /\ o.pc = "dial" /\ ~BindStep(u) /\ ~BackStep(u)
      BY <1>4 DEF DialStep, Walking, BindStep, BackStep
    <2>2. n.pc = "medias" /\ n.starts = o.starts /\ n.j = o.j
      BY <1>o DEF Op
    <2> HIDE DEF n
    <2> QED BY <1>1, <2>1, <2>2 DEF WalkPCs
  <1>5. CASE DialFails(u)
    <2> DEFINE n == [NextProducer(u) EXCEPT !.errs = @ \cup {Prod(u)}]
    <2>1. op' = [op EXCEPT ![u] = n] /\ o.pc = "dial" /\ ~BindStep(u) /\ ~BackStep(u)
      BY <1>5 DEF DialFails, Walking, BindStep, BackStep
    <2>2. n.pc = "dial" /\ n.starts = o.starts /\ n.j = o.j
      BY MoveFields DEF Op
    <2> HIDE DEF n
    <2> QED BY <1>1, <2>1, <2>2 DEF WalkPCs
  <1>6. CASE MediasStep(u)
    <2>0. o.pc = "medias" /\ ~BindStep(u) /\ ~BackStep(u)
      BY <1>6 DEF MediasStep, BindStep, BackStep
    <2>1. CASE conn[Prod(u)] = NoConn
      BY <1>3, <1>6, <2>0, <2>1 DEF MediasStep, WalkPCs
    <2>2. CASE conn[Prod(u)] # NoConn
      <3> DEFINE c == conn[Prod(u)]
                 k == offers[c] \cap Media(u).want
                 n == [o EXCEPT !.pc = "match", !.of = c, !.todo = k]
      <3>1. op' = [op EXCEPT ![u] = n]
        BY <1>6, <2>2 DEF MediasStep
      <3> HIDE DEF c, k
      <3>2. n.pc = "match" /\ n.starts = o.starts /\ n.j = o.j
        BY <1>o DEF Op
      <3> HIDE DEF n
      <3> QED BY <1>1, <2>0, <3>1, <3>2 DEF WalkPCs
    <2> QED BY <2>1, <2>2
  <1>7. CASE NoMatchLeft(u)
    <2>1. o.pc = "match" /\ ~BindStep(u) /\ ~BackStep(u)
      BY <1>7 DEF NoMatchLeft, BindStep, BackStep
    <2> QED BY <1>3, <1>7, <2>1 DEF NoMatchLeft, WalkPCs
  <1>8. CASE GetTrackStep(u)
    <2>1. PICK t : op' = [op EXCEPT ![u] = [o EXCEPT !.pc = "attach", !.track = t]]
      BY <1>8 DEF GetTrackStep
    <2>2. o.pc = "match" /\ ~BindStep(u)
      BY <1>8 DEF GetTrackStep, BindStep
    <2> DEFINE n == [o EXCEPT !.pc = "attach", !.track = t]
    <2>3. n.pc = "attach" /\ n.starts = o.starts /\ n.j = o.j
      BY <1>o DEF Op
    <2>4. op' = [op EXCEPT ![u] = n]
      BY <2>1
    <2> HIDE DEF n
    <2>5. op'[u] = n
      BY <2>4, OpBecomes
    <2>6. ~BackStep(u)
      <3> SUFFICES ASSUME BackStep(u) PROVE FALSE
        OBVIOUS
      <3>1. op' = [op EXCEPT ![u] = Matched(u, Back)]
        BY DEF BackStep
      <3>2. op'[u] = Matched(u, Back)
        BY <3>1, OpBecomes
      <3> QED BY <2>3, <2>5, <3>2, MatchedFields
    <2> QED BY <1>1, <2>2, <2>3, <2>4, <2>6 DEF WalkPCs
  <1>9. CASE BindStep(u) \/ BackStep(u)
    <2>1. PICK k : op' = [op EXCEPT ![u] = Matched(u, k)]
      BY <1>9 DEF BindStep, BackStep
    <2>2. o.pc \in {"bind", "match"}
      BY <1>9 DEF BindStep, BackStep
    <2> DEFINE n == Matched(u, k)
    <2>3. n.pc \in {"match", "dial"} /\ n.starts = o.starts \cup {Prod(u)} /\ n.j = o.j
      BY MatchedFields
    <2>4. op' = [op EXCEPT ![u] = n]
      BY <2>1
    <2> HIDE DEF n
    <2> QED BY <1>1, <2>2, <2>3, <2>4 DEF WalkPCs
  <1>9a. CASE AttachStep(u)
    <2>1. op[u].pc = "attach" /\ ~BindStep(u) /\ ~BackStep(u)
      BY <1>9a DEF AttachStep, Goto, BindStep, BackStep
    <2> QED BY <1>0, <1>9a, <2>1, GotoFields DEF AttachStep, WalkPCs
  <1>10. CASE GetTrackFails(u) \/ AttachFails(u) \/ BackFails(u)
    <2>1. o.pc \in {"attach", "match"}
      BY <1>10 DEF GetTrackFails, AttachFails, BackFails
    <2>2. \E k, E : \/ op' = [op EXCEPT ![u] = [MatchFails(u, k) EXCEPT !.errs = E]]
                    \/ op' = [op EXCEPT ![u] = MatchFails(u, k)]
      <3>1. CASE GetTrackFails(u)
        <4>1. PICK k \in op[u].todo \cap Codecs :
                op' = [op EXCEPT ![u] = [MatchFails(u, k) EXCEPT !.errs = @ \cup {Prod(u)}]]
          BY <3>1 DEF GetTrackFails
        <4> DEFINE E == MatchFails(u, k).errs \cup {Prod(u)}
        <4>2. op' = [op EXCEPT ![u] = [MatchFails(u, k) EXCEPT !.errs = E]]
          BY <4>1
        <4> HIDE DEF E
        <4> QED BY <4>2
      <3>2. CASE AttachFails(u)
        BY <3>2 DEF AttachFails
      <3>3. CASE BackFails(u)
        <4>1. PICK errs \in SUBSET {Prod(u)} :
                op' = [op EXCEPT ![u] = [MatchFails(u, Back) EXCEPT !.errs = @ \cup errs]]
          BY <3>3 DEF BackFails
        <4> DEFINE E == MatchFails(u, Back).errs \cup errs
        <4>2. op' = [op EXCEPT ![u] = [MatchFails(u, Back) EXCEPT !.errs = E]]
          BY <4>1
        <4> HIDE DEF E
        <4> QED BY <4>2
      <3> QED BY <1>10, <3>1, <3>2, <3>3
    <2>3. /\ Elsewhere(u) /\ op'[u].pc = "match" /\ op'[u].starts = o.starts /\ op'[u].j = o.j
      <3>1. PICK k, E : \/ op' = [op EXCEPT ![u] = [MatchFails(u, k) EXCEPT !.errs = E]]
                        \/ op' = [op EXCEPT ![u] = MatchFails(u, k)]
        BY <2>2
      <3> DEFINE n == [MatchFails(u, k) EXCEPT !.errs = E]
                 m == MatchFails(u, k)
      <3>2. /\ n.pc = "match" /\ n.starts = o.starts /\ n.j = o.j
            /\ m.pc = "match" /\ m.starts = o.starts /\ m.j = o.j
        BY FailFields
      <3>3. op' = [op EXCEPT ![u] = n] \/ op' = [op EXCEPT ![u] = m]
        BY <3>1
      <3> HIDE DEF n, m
      <3>4. (op'[u] = n \/ op'[u] = m) /\ Elsewhere(u)
        BY <3>3, OpBecomes
      <3> QED BY <3>2, <3>4
    <2>4. BindStep(u) \/ BackStep(u) => op'[u].starts # {}
      <3>1. ASSUME BindStep(u) \/ BackStep(u)
            PROVE  op'[u].starts # {}
        <4>1. PICK k : op' = [op EXCEPT ![u] = Matched(u, k)]
          BY <3>1 DEF BindStep, BackStep
        <4>2. op'[u] = Matched(u, k)
          BY <4>1, OpBecomes
        <4> QED BY <4>2, MatchedFields
      <3> QED BY <3>1
    <2> QED BY <1>0, <2>1, <2>3, <2>4 DEF WalkPCs
  <1> QED BY <1>2, <1>4, <1>5, <1>6, <1>7, <1>8, <1>9, <1>9a, <1>10 DEF Walk

LEMMA AttachFields ==
    ASSUME OpInv, NEW u \in Consumers, AttachStep(u)
    PROVE  op[u].pc = "attach" /\ op'[u].pc = "bind" /\ op'[u].track = op[u].track
  BY GotoFields DEF AttachStep

(* A sender that has appended itself writes its parent next.               *)
LEMMA AtBind ==
    ASSUME NEW u \in Consumers, Goroutine(u), op[u].pc = "bind", OpInv
    PROVE  BindStep(u)
  <1>1. op[u].ret \in {"result", "gone"}
    BY DEF OpInv, Op
  <1>2. ~(AddBegins(u) \/ WalkOn(u) \/ DialStep(u) \/ DialFails(u) \/ MediasStep(u) \/ NoMatchLeft(u))
    BY DEF AddBegins, Goto, WalkOn, DialStep, DialFails, Walking, MediasStep, NoMatchLeft
  <1>3. ~(GetTrackStep(u) \/ GetTrackFails(u) \/ AttachStep(u) \/ AttachFails(u) \/ BackStep(u) \/ BackFails(u))
    BY DEF GetTrackStep, GetTrackFails, AttachStep, Goto, AttachFails, BackStep, BackFails
  <1>4. ~(AddSettles(u) \/ AddResult(u) \/ AddAppends(u) \/ StartStep(u) \/ RemoveConsumer(u))
    BY DEF AddSettles, AddResult, AddAppends, Goto, StartStep, RemoveConsumer, RemoveBegins,
           RemoveCloses, RemoveUnlists
  <1>5. ~StopProducers(u)
    BY DEF StopProducers, StopCheck, StopLock, StopLook, StopJudge, StopKill, StopUnlock, Goto
  <1> QED BY <1>2, <1>3, <1>4, <1>5 DEF Goroutine, AddConsumer

LEMMA AddFields ==
    ASSUME OpInv, NEW u \in Consumers
    PROVE  /\ AddSettles(u) =>
                /\ Elsewhere(u) /\ op[u].pc = "done"
                /\ op'[u].pc = IF pending = 1 THEN "stopcheck" ELSE "result"
                /\ op'[u].starts = op[u].starts /\ op'[u].j = op[u].j /\ op'[u].ret = "result"
           /\ AddResult(u) =>
                /\ Elsewhere(u) /\ op[u].pc = "result"
                /\ op'[u].pc = IF op[u].starts = {} THEN "failed" ELSE "append"
                /\ op'[u].starts = op[u].starts /\ op'[u].j = 1
           /\ StartStep(u) =>
                /\ Elsewhere(u) /\ op[u].pc = "start" /\ op'[u].pc \in {"start", "added"}
                /\ op'[u].j = op[u].j
  <1> DEFINE o == op[u]
  <1>o. o \in Op
    BY DEF OpInv
  <1>1. CASE AddSettles(u)
    <2> DEFINE to == IF pending = 1 THEN "stopcheck" ELSE "result"
               n == [o EXCEPT !.pc = to, !.ret = "result"]
    <2>1. op' = [op EXCEPT ![u] = n] /\ o.pc = "done"
      BY <1>1 DEF AddSettles
    <2>2. to \in {"stopcheck", "result"}
      OBVIOUS
    <2> HIDE DEF to
    <2>3. n.pc = to /\ n.starts = o.starts /\ n.j = o.j /\ n.ret = "result"
      BY <1>o DEF Op
    <2> HIDE DEF n
    <2>4. op'[u] = n /\ Elsewhere(u)
      BY <2>1, OpBecomes
    <2>5. ~AddResult(u) /\ ~StartStep(u)
      BY <2>1 DEF AddResult, StartStep
    <2> QED BY <2>1, <2>3, <2>4, <2>5 DEF to
  <1>2. CASE AddResult(u)
    <2> DEFINE to == IF o.starts = {} THEN "failed" ELSE "append"
               n == [Idle EXCEPT !.pc = to, !.starts = o.starts]
    <2>1. op' = [op EXCEPT ![u] = n] /\ o.pc = "result"
      BY <1>2 DEF AddResult
    <2> HIDE DEF to
    <2>3. n.pc = to /\ n.starts = o.starts /\ n.j = 1
      BY DEF Idle
    <2> HIDE DEF n
    <2>4. op'[u] = n /\ Elsewhere(u)
      BY <2>1, OpBecomes
    <2>5. ~AddSettles(u) /\ ~StartStep(u)
      BY <2>1 DEF AddSettles, StartStep
    <2> QED BY <2>1, <2>3, <2>4, <2>5 DEF to
  <1>3. CASE StartStep(u)
    <2>1. PICK p \in o.starts :
            op' = [op EXCEPT ![u].starts = @ \ {p},
                             ![u].pc = IF o.starts = {p} THEN "added" ELSE @]
      BY <1>3 DEF StartStep
    <2> DEFINE n == [o EXCEPT !.starts = o.starts \ {p},
                              !.pc = IF o.starts = {p} THEN "added" ELSE o.pc]
    <2>2. op' = [op EXCEPT ![u] = n] /\ o.pc = "start"
      BY <1>o, <1>3, <2>1 DEF Op, OpInv, StartStep
    <2>3. n.pc \in {"start", "added"} /\ n.j = o.j
      BY <1>o, <2>2 DEF Op
    <2> HIDE DEF n
    <2>4. op'[u] = n /\ Elsewhere(u)
      BY <2>2, OpBecomes
    <2>5. ~AddSettles(u) /\ ~AddResult(u)
      BY <2>2 DEF AddSettles, AddResult
    <2> QED BY <2>2, <2>3, <2>4, <2>5
  <1> QED BY <1>1, <1>2, <1>3

LEMMA StopFields ==
    ASSUME OpInv, NEW u \in Consumers
    PROVE  /\ StopLook(u) =>
                /\ Elsewhere(u) /\ op[u].pc = "look" /\ op'[u].pc = "judge"
                /\ op'[u].starts = op[u].starts /\ op'[u].ret = op[u].ret
                /\ op'[u].j = op[u].j /\ op'[u].seenS = senders[Target(u)]
                /\ \A t \in op'[u].seenR : \E i \in DOMAIN receivers[Target(u)] :
                                             t = receivers[Target(u)][i]
           /\ StopJudge(u) =>
                /\ Elsewhere(u) /\ op[u].pc = "judge"
                /\ op'[u].starts = op[u].starts /\ op'[u].ret = op[u].ret
                /\ IF (\E t \in op[u].seenR : kids[t] # {}) \/ (\E v \in op[u].seenS : back[v] # {})
                   THEN op'[u].pc = "look" /\ op'[u].j = op[u].j + 1
                   ELSE op'[u].pc = "kill" /\ op'[u].j = op[u].j
           /\ StopKill(u) =>
                /\ Elsewhere(u) /\ op[u].pc = "kill" /\ op'[u].pc = "look"
                /\ op'[u].starts = op[u].starts /\ op'[u].ret = op[u].ret
                /\ op'[u].j = op[u].j + 1
           /\ StopUnlock(u) =>
                /\ Elsewhere(u) /\ op[u].pc = "look" /\ op'[u].pc = op[u].ret
                /\ op[u].j > Len(Configured) /\ op'[u].j = 1
                /\ op'[u].starts = op[u].starts /\ op'[u].ret = op[u].ret
           /\ RemoveCloses(u) =>
                /\ Elsewhere(u) /\ op[u].pc = "close" /\ op'[u].pc = "remove" /\ op'[u].j = 1
                /\ op'[u].starts = {}
  <1> DEFINE o == op[u]
  <1>o. o \in Op
    BY DEF OpInv
  <1>1. ASSUME StopLook(u)
        PROVE  /\ Elsewhere(u) /\ op[u].pc = "look" /\ op'[u].pc = "judge"
               /\ op'[u].starts = op[u].starts /\ op'[u].ret = op[u].ret
               /\ op'[u].j = op[u].j /\ op'[u].seenS = senders[Target(u)]
               /\ \A t \in op'[u].seenR : \E i \in DOMAIN receivers[Target(u)] :
                                            t = receivers[Target(u)][i]
    <2> DEFINE r == {receivers[Target(u)][i] : i \in DOMAIN receivers[Target(u)]}
               s == senders[Target(u)]
               n == [o EXCEPT !.pc = "judge", !.seenR = r, !.seenS = s]
    <2>1. op' = [op EXCEPT ![u] = n] /\ o.pc = "look"
      BY <1>1 DEF StopLook
    <2> HIDE DEF r, s
    <2>2. n.pc = "judge" /\ n.starts = o.starts /\ n.ret = o.ret /\ n.j = o.j /\ n.seenS = s /\ n.seenR = r
      BY <1>o DEF Op
    <2> HIDE DEF n
    <2>3. op'[u] = n /\ Elsewhere(u)
      BY <2>1, OpBecomes
    <2> QED BY <2>1, <2>2, <2>3 DEF s, r
  <1>2. ASSUME StopJudge(u)
        PROVE  /\ Elsewhere(u) /\ op[u].pc = "judge"
               /\ op'[u].starts = op[u].starts /\ op'[u].ret = op[u].ret
               /\ IF (\E t \in op[u].seenR : kids[t] # {}) \/ (\E v \in op[u].seenS : back[v] # {})
                  THEN op'[u].pc = "look" /\ op'[u].j = op[u].j + 1
                  ELSE op'[u].pc = "kill" /\ op'[u].j = op[u].j
    <2> DEFINE K == (\E t \in op[u].seenR : kids[t] # {}) \/ (\E v \in op[u].seenS : back[v] # {})
               x == [o EXCEPT !.pc = "look", !.j = o.j + 1, !.seenR = {}, !.seenS = {}]
               y == [o EXCEPT !.pc = "kill", !.seenR = {}, !.seenS = {}]
    <2>1. op' = [op EXCEPT ![u] = IF K THEN x ELSE y] /\ o.pc = "judge"
      BY <1>2 DEF StopJudge, HasSenders, BackHasSenders
    <2>2. /\ x.pc = "look" /\ x.starts = o.starts /\ x.ret = o.ret /\ x.j = o.j + 1
          /\ y.pc = "kill" /\ y.starts = o.starts /\ y.ret = o.ret /\ y.j = o.j
      BY <1>o DEF Op
    <2> HIDE DEF x, y, K
    <2>3. op'[u] = (IF K THEN x ELSE y) /\ Elsewhere(u)
      BY <2>1, OpBecomes
    <2>4. /\ Elsewhere(u) /\ op[u].pc = "judge"
          /\ op'[u].starts = op[u].starts /\ op'[u].ret = op[u].ret
          /\ IF K THEN op'[u].pc = "look" /\ op'[u].j = op[u].j + 1
                  ELSE op'[u].pc = "kill" /\ op'[u].j = op[u].j
      BY <2>1, <2>2, <2>3
    <2> QED BY <2>4 DEF K
  <1>3. ASSUME StopKill(u)
        PROVE  /\ Elsewhere(u) /\ op[u].pc = "kill" /\ op'[u].pc = "look"
               /\ op'[u].starts = op[u].starts /\ op'[u].ret = op[u].ret
               /\ op'[u].j = op[u].j + 1
    <2> DEFINE n == [o EXCEPT !.pc = "look", !.j = o.j + 1]
    <2>1. op' = [op EXCEPT ![u] = n] /\ o.pc = "kill"
      BY <1>3 DEF StopKill
    <2>2. n.pc = "look" /\ n.starts = o.starts /\ n.ret = o.ret /\ n.j = o.j + 1
      BY <1>o DEF Op
    <2> HIDE DEF n
    <2> QED BY <2>1, <2>2, OpBecomes
  <1>4. ASSUME StopUnlock(u)
        PROVE  /\ Elsewhere(u) /\ op[u].pc = "look" /\ op'[u].pc = op[u].ret
               /\ op[u].j > Len(Configured) /\ op'[u].j = 1
               /\ op'[u].starts = op[u].starts /\ op'[u].ret = op[u].ret
    <2> DEFINE n == [o EXCEPT !.pc = o.ret, !.j = 1]
    <2>1. op' = [op EXCEPT ![u] = n] /\ o.pc = "look" /\ o.j > Len(Configured)
      BY <1>4 DEF StopUnlock
    <2>2. n.pc = o.ret /\ n.starts = o.starts /\ n.ret = o.ret /\ n.j = 1
      BY <1>o DEF Op
    <2> HIDE DEF n
    <2> QED BY <2>1, <2>2, OpBecomes
  <1>5. ASSUME RemoveCloses(u)
        PROVE  /\ Elsewhere(u) /\ op[u].pc = "close" /\ op'[u].pc = "remove" /\ op'[u].j = 1
               /\ op'[u].starts = {}
    <2> DEFINE n == [Idle EXCEPT !.pc = "remove"]
    <2>1. op' = [op EXCEPT ![u] = n] /\ o.pc = "close"
      BY <1>5 DEF RemoveCloses
    <2>2. n.pc = "remove" /\ n.j = 1 /\ n.starts = {}
      BY DEF Idle
    <2> HIDE DEF n
    <2> QED BY <2>1, <2>2, OpBecomes
  <1> QED BY <1>1, <1>2, <1>3, <1>4, <1>5

(* A consumer that hangs on tracks keeps on its way until it removes       *)
(* itself.                                                                 *)
LEMMA JoinedStays ==
    ASSUME OpInv, NEW u \in Consumers, Goroutine(u), ~RemoveCloses(u), Joined(u)
    PROVE  Joined(u)'
  <1> USE DEF Joined, Counted, Judging
  <1>1. CASE AddBegins(u)
    BY <1>1, GotoFields DEF AddBegins
  <1>2. CASE Walk(u)
    <2>1. op'[u].starts # {}
      <3>1. CASE op[u].pc = "bind"
        <4>1. BindStep(u)
          BY <3>1, AtBind
        <4> QED BY <1>2, <4>1, WalkFields
      <3>2. CASE op[u].pc # "bind"
        BY <1>2, <3>2, WalkFields DEF WalkPCs
      <3> QED BY <3>1, <3>2
    <2>2. u \in Counted'
      BY <1>2, WalkFields DEF WalkPCs
    <2> QED BY <2>1, <2>2
  <1>3. CASE AddSettles(u)
    BY <1>3, AddFields
  <1>4. CASE AddResult(u)
    BY <1>4, AddFields
  <1>5. CASE AddAppends(u)
    BY <1>5, GotoFields DEF AddAppends
  <1>6. CASE StartStep(u)
    BY <1>6, AddFields
  <1>7. CASE StopCheck(u)
    <2>1. /\ op[u].pc = "stopcheck" /\ op'[u].pc \in {op[u].ret, "lock"}
          /\ op'[u].starts = op[u].starts /\ op'[u].ret = op[u].ret
      <3>1. PICK to \in {op[u].ret, "lock"} : Goto(u, "stopcheck", to)
        BY <1>7 DEF StopCheck
      <3> QED BY <3>1, GotoFields
    <2> QED BY <2>1
  <1>8. CASE StopLock(u)
    BY <1>8, GotoFields DEF StopLock
  <1>9. CASE StopLook(u)
    BY <1>9, StopFields
  <1>10. CASE StopJudge(u)
    <2>1. /\ op[u].pc = "judge" /\ op'[u].pc \in {"look", "kill"}
          /\ op'[u].starts = op[u].starts /\ op'[u].ret = op[u].ret
      BY <1>10, StopFields
    <2> QED BY <2>1
  <1>11. CASE StopKill(u)
    BY <1>11, StopFields
  <1>12. CASE StopUnlock(u)
    BY <1>12, StopFields
  <1>13. CASE RemoveBegins(u) \/ RemoveUnlists(u)
    BY <1>13, GotoFields DEF RemoveBegins, RemoveUnlists
  <1> QED BY <1>1, <1>2, <1>3, <1>4, <1>5, <1>6, <1>7, <1>8, <1>9, <1>10, <1>11, <1>12, <1>13
          DEF Goroutine, AddConsumer, StopProducers, RemoveConsumer, Walk

LEMMA StaysElsewhere ==
    ASSUME OpInv, NEW u \in Consumers, Goroutine(u)
    PROVE  Elsewhere(u)
  <1>1. CASE StopCheck(u)
    <2>1. PICK to \in {op[u].ret, "lock"} : Goto(u, "stopcheck", to)
      BY <1>1 DEF StopCheck
    <2> QED BY <2>1, GotoFields
  <1>2. CASE Walk(u)
    BY <1>2, WalkFields
  <1>3. CASE AddBegins(u) \/ AddAppends(u) \/ StopLock(u) \/ RemoveBegins(u) \/ RemoveUnlists(u)
    BY <1>3, GotoFields DEF AddBegins, AddAppends, StopLock, RemoveBegins, RemoveUnlists
  <1>4. CASE AddSettles(u) \/ AddResult(u) \/ StartStep(u)
    BY <1>4, AddFields
  <1>5. CASE StopLook(u) \/ StopJudge(u) \/ StopKill(u) \/ StopUnlock(u) \/ RemoveCloses(u)
    BY <1>5, StopFields
  <1> QED BY <1>1, <1>2, <1>3, <1>4, <1>5
          DEF Goroutine, AddConsumer, StopProducers, RemoveConsumer, Walk

(* What the steps of a consumer do to tracks.                              *)
LEMMA TracksAlone ==
    ASSUME NEW u \in Consumers, Goroutine(u), ~RemoveCloses(u), ~AttachStep(u), ~BindStep(u),
           ~StopKill(u)
    PROVE  UNCHANGED <<kids, strays>>
  <1>1. CASE AddBegins(u) \/ WalkOn(u) \/ DialStep(u) \/ DialFails(u) \/ MediasStep(u)
    BY <1>1 DEF AddBegins, WalkOn, DialStep, DialNew, DialFails, MediasStep, prodVars
  <1>2. CASE NoMatchLeft(u) \/ GetTrackStep(u) \/ GetTrackFails(u) \/ AttachFails(u)
    BY <1>2 DEF NoMatchLeft, GetTrackStep, GetTrack, GetTrackFails, AttachFails, prodVars
  <1>3. CASE BackStep(u) \/ BackFails(u) \/ AddSettles(u) \/ AddResult(u) \/ AddAppends(u)
    BY <1>3 DEF BackStep, AddTrack, BackFails, AddSettles, AddResult, AddAppends, prodVars
  <1>4. CASE StartStep(u)
    BY <1>4 DEF StartStep, Start, prodVars
  <1>5. CASE StopCheck(u) \/ StopLock(u) \/ StopLook(u) \/ StopJudge(u) \/ StopUnlock(u)
    BY <1>5 DEF StopCheck, StopLock, StopLook, StopJudge, StopUnlock, prodVars
  <1>6. CASE RemoveBegins(u) \/ RemoveUnlists(u)
    BY <1>6 DEF RemoveBegins, RemoveUnlists, prodVars
  <1> QED BY <1>1, <1>2, <1>3, <1>4, <1>5, <1>6
          DEF Goroutine, AddConsumer, StopProducers, RemoveConsumer

LEMMA KidsStep ==
    ASSUME StreamInv, NEW u \in Consumers, Goroutine(u), NEW t \in Track, NEW v \in kids'[t]
    PROVE  \/ v \in kids[t] /\ (v = u /\ RemoveCloses(u) => v \in strays[t])
           \/ v = u /\ AttachStep(u)
  <1> USE DEF StreamInv
  <1>k. kids \in [Track -> SUBSET Consumers]
    BY DEF TrackTypeOK
  <1>1. CASE RemoveCloses(u)
    <2>1. kids' = [s \in Track |-> kids[s] \ ({u} \ strays[s])]
      BY <1>1 DEF RemoveCloses, Detach
    <2> QED BY <2>1
  <1>2. CASE AttachStep(u)
    <2>1. ~RemoveCloses(u)
      BY <1>2 DEF AttachStep, Goto, RemoveCloses
    <2>2. kids' = [kids EXCEPT ![op[u].track] = @ \cup {u}]
      BY <1>2 DEF AttachStep, Attach
    <2> QED BY <1>2, <1>k, <2>1, <2>2
  <1>3. CASE StopKill(u)
    <2>1. ~RemoveCloses(u)
      BY <1>3 DEF StopKill, RemoveCloses
    <2>2. kids' = kids \/ \E left : kids' = KidsClosedBy(kids, strays, conn[Target(u)], left)
      BY <1>3 DEF StopKill, Stop, prodVars
    <2> QED BY <1>k, <2>1, <2>2 DEF KidsClosedBy, ClosedKids
  <1>4. CASE BindStep(u)
    <2>1. kids' = kids /\ ~RemoveCloses(u)
      BY <1>4 DEF BindStep, Bind, RemoveCloses
    <2> QED BY <2>1
  <1> QED BY <1>1, <1>2, <1>3, <1>4, TracksAlone

LEMMA StraysStep ==
    ASSUME StreamInv, NEW u \in Consumers, Goroutine(u), NEW t \in Track, NEW v \in strays'[t]
    PROVE  \/ v \in strays[t] /\ ~(BindStep(u) /\ v = u /\ t = op[u].track)
           \/ v = u /\ AttachStep(u) /\ t = op[u].track
  <1> USE DEF StreamInv
  <1>k. strays \in [Track -> SUBSET Consumers]
    BY DEF TrackTypeOK
  <1>1. CASE RemoveCloses(u)
    <2>1. ~BindStep(u)
      BY <1>1 DEF RemoveCloses, BindStep
    <2>2. PICK found \in BOOLEAN :
             strays' = [s \in Track |-> IF found THEN strays[s] \ {u} ELSE strays[s]]
      BY <1>1 DEF RemoveCloses, Detach
    <2> QED BY <2>1, <2>2
  <1>2. CASE AttachStep(u)
    <2>1. ~BindStep(u)
      BY <1>2 DEF AttachStep, Goto, BindStep
    <2>2. strays' = [strays EXCEPT ![op[u].track] = @ \cup {u}]
      BY <1>2 DEF AttachStep, Attach
    <2> QED BY <1>2, <1>k, <2>1, <2>2
  <1>3. CASE StopKill(u)
    <2>1. ~BindStep(u) /\ strays' = strays
      BY <1>3 DEF StopKill, Stop, prodVars, BindStep
    <2> QED BY <2>1
  <1>4. CASE BindStep(u)
    <2>2. strays' = [strays EXCEPT ![op[u].track] = @ \ {u}]
      BY <1>4 DEF BindStep, Bind
    <2> QED BY <1>k, <2>2
  <1>5. CASE ~(RemoveCloses(u) \/ AttachStep(u) \/ StopKill(u) \/ BindStep(u))
    <2>1. strays' = strays
      BY <1>5, TracksAlone
    <2> QED BY <1>5, <2>1
  <1> QED BY <1>1, <1>2, <1>3, <1>4, <1>5

LEMMA BackStepOf ==
    ASSUME StreamInv, NEW u \in Consumers, Goroutine(u), NEW v \in Consumers, back'[v] # {}
    PROVE  \/ back[v] # {} /\ (v = u => ~RemoveCloses(u))
           \/ v = u /\ BackStep(u)
  <1> USE DEF StreamInv
  <1>k. back \in [Consumers -> SUBSET Conns]
    BY DEF TrackTypeOK
  <1>1. CASE RemoveCloses(u)
    BY <1>1, <1>k DEF RemoveCloses, Detach
  <1>2. CASE BackStep(u)
    <2>1. ~RemoveCloses(u)
      BY <1>2 DEF BackStep, RemoveCloses
    <2>2. back' = [back EXCEPT ![u] = @ \cup {conn[Prod(u)]}]
      BY <1>2 DEF BackStep, AddTrack
    <2> QED BY <1>2, <1>k, <2>1, <2>2
  <1>3. CASE StopKill(u)
    <2>1. ~RemoveCloses(u)
      BY <1>3 DEF StopKill, RemoveCloses
    <2>2. back' = back \/ back' = BackClosedBy(back, conn[Target(u)])
      BY <1>3 DEF StopKill, Stop, prodVars
    <2> QED BY <1>k, <2>1, <2>2 DEF BackClosedBy
  <1>4. ASSUME ~RemoveCloses(u), ~BackStep(u), ~StopKill(u)
        PROVE  UNCHANGED back
    <2>1. CASE AddBegins(u) \/ WalkOn(u) \/ DialStep(u) \/ DialFails(u) \/ MediasStep(u)
      BY <2>1 DEF AddBegins, WalkOn, DialStep, DialNew, DialFails, MediasStep, prodVars
    <2>2. CASE NoMatchLeft(u) \/ GetTrackStep(u) \/ GetTrackFails(u) \/ AttachFails(u)
      BY <2>2 DEF NoMatchLeft, GetTrackStep, GetTrack, GetTrackFails, AttachFails, prodVars
    <2>3. CASE AttachStep(u) \/ BindStep(u) \/ BackFails(u) \/ AddSettles(u) \/ AddResult(u) \/ AddAppends(u)
      BY <2>3 DEF AttachStep, Attach, BindStep, Bind, BackFails, AddSettles, AddResult, AddAppends, prodVars
    <2>4. CASE StartStep(u)
      BY <2>4 DEF StartStep, Start, prodVars
    <2>5. CASE StopCheck(u) \/ StopLock(u) \/ StopLook(u) \/ StopJudge(u) \/ StopUnlock(u)
      BY <2>5 DEF StopCheck, StopLock, StopLook, StopJudge, StopUnlock, prodVars
    <2>6. CASE RemoveBegins(u) \/ RemoveUnlists(u)
      BY <2>6 DEF RemoveBegins, RemoveUnlists, prodVars
    <2> QED BY <1>4, <2>1, <2>2, <2>3, <2>4, <2>5, <2>6
            DEF Goroutine, AddConsumer, StopProducers, RemoveConsumer
  <1> QED BY <1>1, <1>2, <1>3, <1>4

(* Only StopKill stops a producer and forgets its senders, and only        *)
(* DialStep wakes one: the connection of one that runs stays.              *)
LEMMA SendersStay ==
    ASSUME StreamInv, NEW u \in Consumers, Goroutine(u), ~StopKill(u), NEW p \in Producers
    PROVE  /\ senders[p] \subseteq senders'[p]
           /\ state'[p] \in {"none", "external"} \/ state[p] \notin {"none", "external"} \/ DialStep(u)
           /\ state'[p] = "external" => state[p] = "external"
           /\ conn[p] # NoConn => conn'[p] = conn[p]
  <1> USE DEF StreamInv
  <1>0. /\ senders \in [Producers -> SUBSET Consumers]
        /\ state \in [Producers -> ProducerStates]
        /\ conn \in [Producers -> Conns \cup {NoConn}]
        /\ state[p] = "none" => conn[p] = NoConn
    BY DEF TrackTypeOK, CoreInv, CoreTypeOK, HoldsConn
  <1>1. CASE DialStep(u)
    <2>1. CASE UNCHANGED prodVars
      BY <1>1, <2>1 DEF prodVars
    <2>2. ASSUME NEW c, NEW os, DialNew(Prod(u), c, os)
          PROVE  /\ senders' = senders
                 /\ state'[p] = "external" => state[p] = "external"
                 /\ conn[p] # NoConn => conn'[p] = conn[p]
      <3> DEFINE q == Prod(u)
      <3>1. /\ senders' = senders /\ state[q] = "none"
            /\ state' = [state EXCEPT ![q] = "medias"] /\ conn' = [conn EXCEPT ![q] = c]
        BY <2>2 DEF DialNew
      <3> HIDE DEF q
      <3> QED BY <1>0, <3>1
    <2> QED BY <1>1, <2>1, <2>2 DEF DialStep
  <1>2. CASE GetTrackStep(u)
    <2>1. PICK ptr : GetTrack(Prod(u), ptr)
      BY <1>2 DEF GetTrackStep
    <2> DEFINE q == Prod(u)
    <2>2. /\ senders' = senders /\ conn' = conn
          /\ \/ state' = state
             \/ /\ state[q] # "none"
                /\ state' = [state EXCEPT ![q] = IF state[q] = "medias" THEN "tracks" ELSE state[q]]
      BY <2>1 DEF GetTrack, HasConn
    <2> HIDE DEF q
    <2> QED BY <1>0, <2>2
  <1>3. CASE BackStep(u)
    <2> DEFINE q == Prod(u)
    <2>1. /\ senders' = [senders EXCEPT ![q] = @ \cup {u}] /\ conn' = conn
          /\ state' = [state EXCEPT ![q] = IF @ = "medias" THEN "tracks" ELSE @]
      BY <1>3 DEF BackStep, AddTrack
    <2> HIDE DEF q
    <2> QED BY <1>0, <2>1
  <1>4. CASE StartStep(u)
    <2>1. /\ senders' = senders /\ conn' = conn
          /\ \/ state' = state
             \/ \E q : state[q] = "tracks" /\ state' = [state EXCEPT ![q] = "start"]
      BY <1>4 DEF StartStep, Start, prodVars
    <2>2. ASSUME state' = state
          PROVE  /\ state'[p] \in {"none", "external"} \/ state[p] \notin {"none", "external"}
                 /\ state'[p] = "external" => state[p] = "external"
      BY <2>2
    <2>3. ASSUME NEW q, state[q] = "tracks", state' = [state EXCEPT ![q] = "start"]
          PROVE  /\ state'[p] \in {"none", "external"} \/ state[p] \notin {"none", "external"}
                 /\ state'[p] = "external" => state[p] = "external"
      BY <1>0, <2>3
    <2>4. /\ state'[p] \in {"none", "external"} \/ state[p] \notin {"none", "external"}
          /\ state'[p] = "external" => state[p] = "external"
      BY <2>1, <2>2, <2>3, Zenon
    <2> QED BY <2>1, <2>4
  <1>5. ASSUME ~DialStep(u), ~GetTrackStep(u), ~BackStep(u), ~StartStep(u)
        PROVE  UNCHANGED <<state, senders, conn>>
    <2>1. CASE AddBegins(u) \/ WalkOn(u) \/ DialFails(u) \/ MediasStep(u) \/ NoMatchLeft(u)
      BY <2>1 DEF AddBegins, WalkOn, DialFails, MediasStep, NoMatchLeft, prodVars
    <2>2. CASE GetTrackFails(u) \/ AttachStep(u) \/ BindStep(u) \/ AttachFails(u) \/ BackFails(u)
      BY <2>2 DEF GetTrackFails, AttachStep, Attach, BindStep, Bind, AttachFails, BackFails, prodVars
    <2>3. CASE AddSettles(u) \/ AddResult(u) \/ AddAppends(u)
      BY <2>3 DEF AddSettles, AddResult, AddAppends, prodVars
    <2>4. CASE StopCheck(u) \/ StopLock(u) \/ StopLook(u) \/ StopJudge(u) \/ StopUnlock(u)
      BY <2>4 DEF StopCheck, StopLock, StopLook, StopJudge, StopUnlock, prodVars
    <2>5. CASE RemoveBegins(u) \/ RemoveCloses(u) \/ RemoveUnlists(u)
      BY <2>5 DEF RemoveBegins, RemoveCloses, Detach, RemoveUnlists, prodVars
    <2> QED BY <1>5, <2>1, <2>2, <2>3, <2>4, <2>5
            DEF Goroutine, AddConsumer, StopProducers, RemoveConsumer
  <1> QED BY <1>1, <1>2, <1>3, <1>4, <1>5

LEMMA KillStep ==
    ASSUME StreamInv, NEW u \in Consumers, StopKill(u)
    PROVE  /\ Target(u) \in Producers
           /\ state'[Target(u)] \in {"none", "external"}
           /\ state'[Target(u)] = "external" => state[Target(u)] = "external"
           /\ \A p \in Producers \ {Target(u)} :
                 state'[p] = state[p] /\ senders'[p] = senders[p] /\ conn'[p] = conn[p]
  <1> DEFINE q == Target(u)
  <1>0. /\ senders \in [Producers -> SUBSET Consumers]
        /\ state \in [Producers -> ProducerStates]
        /\ conn \in [Producers -> Conns \cup {NoConn}]
    BY DEF StreamInv, TrackTypeOK, CoreInv, CoreTypeOK
  <1>1. q \in Producers
    BY ProdType DEF StreamInv, OpInv, StopKill, Target
  <1>2. \/ state[q] \in {"none", "external"} /\ UNCHANGED <<state, senders, conn>>
        \/ /\ state' = [state EXCEPT ![q] = "none"] /\ senders' = [senders EXCEPT ![q] = {}]
           /\ conn' = [conn EXCEPT ![q] = NoConn]
    BY DEF StopKill, Stop, prodVars
  <1> HIDE DEF q
  <1>3. /\ state'[q] \in {"none", "external"}
        /\ state'[q] = "external" => state[q] = "external"
        /\ \A p \in Producers \ {q} :
              state'[p] = state[p] /\ senders'[p] = senders[p] /\ conn'[p] = conn[p]
    BY <1>0, <1>1, <1>2
  <1> QED BY <1>1, <1>3 DEF q

(* What a call does to the connections and receivers.                      *)
LEMMA CallMoves ==
    ASSUME StreamInv, NEW q \in Producers, Call(q), NEW p \in Producers
    PROVE  /\ conn'[p] \in {conn[p], NoConn} \/ conn[p] = NoConn
           /\ \A d \in Conns : connSt[d] # "fresh" => connSt'[d] # "fresh"
           /\ \A i \in DOMAIN receivers'[p] :
                 \/ /\ i \in DOMAIN receivers[p] /\ receivers'[p][i] = receivers[p][i]
                    /\ conn'[p] = conn[p] \/ conn[p] = NoConn
                 \/ /\ receivers'[p][i].conn = conn[p] /\ conn'[p] = conn[p]
                    /\ conn[p] \in Conns /\ connSt[conn[p]] # "fresh"
  <1> USE DEF StreamInv, CoreInv, CoreTypeOK, TrackTypeOK
  <1>1. ASSUME NEW c \in Conns, NEW os, DialNew(q, c, os) \/ AddExternal(q, c, os)
        PROVE  /\ receivers' = receivers /\ \A r \in Producers : conn'[r] = conn[r] \/ conn[r] = NoConn
               /\ \A d \in Conns : connSt[d] # "fresh" => connSt'[d] # "fresh"
    <2>1. /\ receivers' = receivers /\ conn' = [conn EXCEPT ![q] = c] /\ conn[q] = NoConn
          /\ connSt' = [connSt EXCEPT ![c] = "open"]
      BY <1>1 DEF DialNew, AddExternal, Dialled, HoldsConn
    <2> QED BY <2>1
  <1>2. ASSUME NEW ptr \in CodecPtr, GetTrack(q, ptr)
        PROVE  /\ conn' = conn /\ connSt' = connSt
               /\ \A i \in DOMAIN receivers'[p] :
                     \/ i \in DOMAIN receivers[p] /\ receivers'[p][i] = receivers[p][i]
                     \/ /\ receivers'[p][i].conn = conn[p]
                        /\ conn[p] \in Conns /\ connSt[conn[p]] # "fresh"
    <2>0. conn' = conn /\ connSt' = connSt /\ conn[q] \in Conns /\ connSt[conn[q]] # "fresh"
      BY <1>2, ConnsAssumption DEF GetTrack, HasConn, HoldsConn, NoGhostConn
    <2> DEFINE t == NewTrack(conn[q], ptr)
    <2>1. receivers' = receivers \/ receivers' = [receivers EXCEPT ![q] = Append(receivers[q], t)]
      BY <1>2 DEF GetTrack
    <2>2. t \in Track /\ t.conn = conn[q]
      BY <1>2, <2>0 DEF NewTrack, Track
    <2>3. receivers[q] \in Seq(Track)
      OBVIOUS
    <2> HIDE DEF t
    <2>4. CASE receivers' = receivers
      BY <2>0, <2>4
    <2>5. CASE receivers' = [receivers EXCEPT ![q] = Append(receivers[q], t)]
      <3>1. CASE p # q
        BY <2>0, <2>5, <3>1
      <3>2. CASE p = q
        <4>1. receivers'[p] = Append(receivers[p], t)
          BY <2>5, <3>2
        <4> QED BY <2>0, <2>2, <2>3, <3>2, <4>1
      <3> QED BY <3>1, <3>2
    <2> QED BY <2>1, <2>4, <2>5
  <1>3. ASSUME NEW left, Stop(q, left) \/ RemoveExternal(q)
        PROVE  /\ \A d \in Conns : connSt[d] # "fresh" => connSt'[d] # "fresh"
               /\ conn'[p] \in {conn[p], NoConn}
               /\ \A i \in DOMAIN receivers'[p] :
                     /\ i \in DOMAIN receivers[p] /\ receivers'[p][i] = receivers[p][i]
                     /\ conn'[p] = conn[p]
    <2>1. /\ connSt' = [connSt EXCEPT ![conn[q]] = "stopped"] /\ conn' = [conn EXCEPT ![q] = NoConn]
          /\ receivers' = [receivers EXCEPT ![q] = <<>>]
      BY <1>3 DEF Stop, RemoveExternal
    <2>2. DOMAIN receivers'[q] = {}
      BY <2>1
    <2> QED BY <2>1, <2>2
  <1>4. CASE Start(q) \/ \E u \in Consumers : AddTrack(q, u)
    BY <1>4 DEF Start, AddTrack
  <1>5. CASE \E c \in Conns, os \in OfferSets : DialNew(q, c, os) \/ AddExternal(q, c, os)
    BY <1>1, <1>5
  <1>6. CASE \E ptr \in CodecPtr : GetTrack(q, ptr)
    BY <1>2, <1>6
  <1>7. CASE (\E left \in Leftovers : Stop(q, left)) \/ RemoveExternal(q)
    BY <1>3, <1>7
  <1> QED BY <1>4, <1>5, <1>6, <1>7 DEF Call

LEMMA GoroutineMoves ==
    ASSUME StreamInv, NEW u \in Consumers, Goroutine(u), NEW p \in Producers
    PROVE  /\ lost' = lost
           /\ conn'[p] \in {conn[p], NoConn} \/ conn[p] = NoConn
           /\ \A d \in Conns : connSt[d] # "fresh" => connSt'[d] # "fresh"
           /\ \A i \in DOMAIN receivers'[p] :
                 \/ /\ i \in DOMAIN receivers[p] /\ receivers'[p][i] = receivers[p][i]
                    /\ conn'[p] = conn[p] \/ conn[p] = NoConn
                 \/ /\ receivers'[p][i].conn = conn[p] /\ conn'[p] = conn[p]
                    /\ conn[p] \in Conns /\ connSt[conn[p]] # "fresh"
  <1>0. lost' = lost
    BY DEF Goroutine
  <1>1. CASE \E q \in Producers : Call(q)
    BY <1>0, <1>1, CallMoves
  <1>2. CASE Reader(u) \/ UNCHANGED prodVars
    <2>1. UNCHANGED <<conn, connSt, receivers>>
      BY <1>2 DEF Reader, Attach, Bind, Detach, prodVars
    <2> QED BY <1>0, <2>1
  <1> QED BY <1>1, <1>2, ConsumerCalls

LEMMA LedStays ==
    ASSUME StreamInv, Next, NEW p \in Producers, NEW d \in Conns, Led(p, d), conn'[p] # NoConn
    PROVE  Led(p, d)'
  <1> USE DEF Led
  <1>0. conn[p] # NoConn
    BY ConnsAssumption
  <1>1. ASSUME NEW u \in Consumers, Goroutine(u)
        PROVE  Led(p, d)'
    <2>1. conn'[p] = conn[p] /\ lost' = lost /\ connSt'[d] # "fresh"
      BY <1>0, <1>1, GoroutineMoves
    <2> QED BY <2>1
  <1>2. ASSUME NEW q \in Producers, Worker(q)
        PROVE  Led(p, d)'
    <2>1. CASE conn'[q] = conn[q] /\ UNCHANGED <<lost, receivers, connSt, kids, strays>>
      <3>1. conn'[p] = conn[p]
        BY <1>2, <2>1, LostSteps
      <3> QED BY <2>1, <3>1
    <2>2. CASE ~(conn'[q] = conn[q] /\ UNCHANGED <<lost, receivers, connSt, kids, strays>>)
      <3>1. /\ conn'[q] \in Conns /\ connSt[conn'[q]] = "fresh"
            /\ lost[conn[q]] \subseteq lost'[conn'[q]]
            /\ lost[conn'[q]] \subseteq lost'[conn'[q]]
            /\ \A e \in Conns \ {conn'[q]} : lost'[e] = lost[e]
            /\ connSt'[d] # "fresh"
            /\ \A r \in Producers \ {q} : conn'[r] = conn[r]
        BY <1>2, <2>2, LostSteps
      <3>2. lost'[d] = lost[d]
        BY <3>1
      <3>3. CASE p = q
        BY <3>1, <3>2, <3>3
      <3>4. CASE p # q
        <4>1. conn'[p] = conn[p] /\ lost[conn[p]] \subseteq lost'[conn[p]]
          BY <3>1, <3>4
        <4> QED BY <3>1, <3>2, <4>1
      <3> QED BY <3>3, <3>4
    <2> QED BY <2>1, <2>2
  <1> QED BY <1>1, <1>2 DEF Next

LEMMA FollowsStep ==
    ASSUME StreamInv, LostFollows, Next
    PROVE  LostFollows'
  <1> SUFFICES ASSUME NEW p \in Producers, NEW i \in DOMAIN receivers'[p]
               PROVE  Led(p, receivers[p][i].conn)'
    BY DEF LostFollows
  <1>1. ASSUME i \in DOMAIN receivers[p], receivers'[p][i] = receivers[p][i], conn'[p] # NoConn
        PROVE  Led(p, receivers[p][i].conn)'
    <2>1. receivers[p][i] \in Track /\ Led(p, receivers[p][i].conn)
      <3>1. receivers[p] \in Seq(Track)
        BY DEF StreamInv, TrackTypeOK
      <3> QED BY <1>1, <3>1 DEF LostFollows
    <2>2. PICK d \in Conns : d = receivers[p][i].conn /\ Led(p, d)
      BY <2>1 DEF Track
    <2>3. Led(p, d)'
      BY <1>1, <2>2, LedStays
    <2> QED BY <1>1, <2>2, <2>3 DEF Led
  <1>2. ASSUME receivers'[p][i].conn = conn'[p], conn'[p] \in Conns, connSt'[conn'[p]] # "fresh"
        PROVE  Led(p, receivers[p][i].conn)'
    BY <1>2 DEF Led
  <1>3. ASSUME NEW u \in Consumers, Goroutine(u)
        PROVE  Led(p, receivers[p][i].conn)'
    <2>1. CASE /\ i \in DOMAIN receivers[p] /\ receivers'[p][i] = receivers[p][i]
               /\ conn'[p] = conn[p] \/ conn[p] = NoConn
      <3>1. conn[p] \in Conns
        BY <2>1 DEF LostFollows, Led
      <3> QED BY <1>1, <2>1, <3>1, ConnsAssumption
    <2>2. CASE /\ receivers'[p][i].conn = conn[p] /\ conn'[p] = conn[p]
               /\ conn[p] \in Conns /\ connSt[conn[p]] # "fresh"
      <3>1. connSt'[conn[p]] # "fresh"
        BY <1>3, <2>2, GoroutineMoves
      <3> QED BY <1>2, <2>2, <3>1
    <2> QED BY <1>3, <2>1, <2>2, GoroutineMoves
  <1>4. ASSUME NEW q \in Producers, Worker(q)
        PROVE  Led(p, receivers[p][i].conn)'
    <2>0. CoreInv /\ TrackTypeOK /\ WorkerStep(q, Lates(q))
      BY <1>4 DEF StreamInv, Worker
    <2>1. CASE conn'[q] = conn[q] /\ UNCHANGED <<lost, receivers, connSt, kids, strays>>
      <3>1. conn'[p] = conn[p] /\ conn[p] \in Conns
        BY <1>4, <2>1, LostSteps DEF LostFollows, Led
      <3> QED BY <1>1, <2>1, <3>1, ConnsAssumption
    <2>2. CASE ~(conn'[q] = conn[q] /\ UNCHANGED <<lost, receivers, connSt, kids, strays>>)
      <3>1. /\ conn'[q] \in Conns /\ connSt'[conn'[q]] # "fresh"
            /\ \A r \in Producers \ {q} : conn'[r] = conn[r]
        BY <1>4, <2>2, LostSteps
      <3>2. CASE p = q /\ receivers'[p][i].conn = conn'[q]
        BY <1>2, <3>1, <3>2
      <3>3. CASE i \in DOMAIN receivers[p] /\ receivers'[p][i] = receivers[p][i]
        <4>1. conn'[p] # NoConn
          BY <3>1, <3>3, ConnsAssumption DEF LostFollows, Led
        <4> QED BY <1>1, <3>3, <4>1
      <3> QED BY <2>0, <3>2, <3>3, WorkerTracks
    <2> QED BY <2>1, <2>2
  <1> QED BY <1>3, <1>4 DEF Next

-----------------------------------------------------------------------------
(* The invariant, part by part.                                            *)

LEMMA StraysLostStep ==
    ASSUME StreamInv, StraysLost, Next
    PROVE  StraysLost'
  <1> SUFFICES ASSUME NEW v \in Consumers, NEW t \in Track, v \in strays'[t]
               PROVE  v \in lost'[t.conn] \/ (op'[v].pc = "bind" /\ t = op'[v].track)
    BY DEF StraysLost
  <1>0. OpInv /\ t.conn \in Conns
    BY DEF StreamInv, Track
  <1>1. ASSUME NEW u \in Consumers, Goroutine(u)
        PROVE  v \in lost'[t.conn] \/ (op'[v].pc = "bind" /\ t = op'[v].track)
    <2>0. lost' = lost /\ Elsewhere(u)
      BY <1>0, <1>1, StaysElsewhere DEF Goroutine
    <2>1. CASE v = u /\ AttachStep(u) /\ t = op[u].track
      BY <1>0, <2>1, AttachFields
    <2>2. CASE v \in strays[t] /\ ~(BindStep(u) /\ v = u /\ t = op[u].track)
      <3>1. CASE v \in lost[t.conn]
        BY <2>0, <3>1
      <3>2. CASE op[v].pc = "bind" /\ t = op[v].track
        <4>1. v # u
          BY <1>0, <1>1, <2>2, <3>2, AtBind
        <4> QED BY <2>0, <3>2, <4>1 DEF Elsewhere
      <3> QED BY <2>2, <3>1, <3>2 DEF StraysLost
    <2> QED BY <1>1, <2>1, <2>2, StraysStep
  <1>2. ASSUME NEW q \in Producers, Worker(q)
        PROVE  v \in lost'[t.conn] \/ (op'[v].pc = "bind" /\ t = op'[v].track)
    <2>0. op' = op
      BY <1>2 DEF Worker, streamVars
    <2>1. CASE conn'[q] = conn[q] /\ UNCHANGED <<lost, receivers, connSt, kids, strays>>
      BY <2>0, <2>1 DEF StraysLost
    <2>2. CASE ~(conn'[q] = conn[q] /\ UNCHANGED <<lost, receivers, connSt, kids, strays>>)
      <3>1. /\ StrayOn(conn'[q]) \subseteq lost'[conn'[q]]
            /\ \A d \in Conns \ {conn'[q]} : lost'[d] = lost[d]
        BY <1>2, <2>2, LostSteps
      <3>2. CASE t.conn = conn'[q]
        BY <3>1, <3>2 DEF StrayOn
      <3>3. CASE t.conn # conn'[q]
        <4>1. v \in strays[t]
          BY <1>2, <3>3, WorkerTracks DEF StreamInv, Worker
        <4> QED BY <1>0, <2>0, <3>1, <3>3, <4>1 DEF StraysLost
      <3> QED BY <3>2, <3>3
    <2> QED BY <2>1, <2>2
  <1> QED BY <1>1, <1>2 DEF Next

LEMMA ReadersStep ==
    ASSUME StreamInv, ReadersJoined, StraysLost, LostFollows, Next
    PROVE  ReadersJoined'
  <1> SUFFICES ASSUME NEW v \in Consumers, NEW t \in Track, v \in kids'[t]
               PROVE  Joined(v)' \/ v \in lost'[t.conn]
    BY DEF ReadersJoined
  <1>0. OpInv /\ t.conn \in Conns
    BY DEF StreamInv, Track
  <1>1. ASSUME NEW u \in Consumers, Goroutine(u)
        PROVE  Joined(v)' \/ v \in lost'[t.conn]
    <2>0. lost' = lost
      BY <1>1 DEF Goroutine
    <2>1. CASE v = u /\ AttachStep(u)
      BY <1>0, <2>1, AttachFields DEF Joined
    <2>2. CASE v \in kids[t] /\ (v = u /\ RemoveCloses(u) => v \in strays[t])
      <3>1. Joined(v) \/ v \in lost[t.conn]
        BY <2>2 DEF ReadersJoined
      <3>2. CASE v = u /\ RemoveCloses(u)
        <4>1. op[v].pc = "close"
          BY <3>2 DEF RemoveCloses
        <4> QED BY <2>0, <2>2, <3>2, <4>1 DEF StraysLost
      <3>3. CASE v = u /\ ~RemoveCloses(u)
        BY <1>0, <1>1, <2>0, <3>1, <3>3, JoinedStays
      <3>4. CASE v # u
        <4>1. op'[v] = op[v]
          BY <1>0, <1>1, <3>4, StaysElsewhere DEF Elsewhere
        <4>2. Joined(v) => Joined(v)'
          BY <4>1 DEF Joined, Counted
        <4> QED BY <2>0, <3>1, <4>2
      <3> QED BY <3>2, <3>3, <3>4
    <2> QED BY <1>1, <2>1, <2>2, KidsStep
  <1>2. ASSUME NEW q \in Producers, Worker(q)
        PROVE  Joined(v)' \/ v \in lost'[t.conn]
    <2>0. op' = op /\ CoreInv /\ TrackTypeOK /\ WorkerStep(q, Lates(q))
      BY <1>2 DEF StreamInv, Worker, streamVars
    <2>1. Joined(v) => Joined(v)'
      BY <2>0 DEF Joined, Counted
    <2>2. \A d \in Conns : lost[d] \subseteq lost'[d]
      BY <1>2, LostSteps
    <2>3. CASE v \in kids[t]
      BY <1>0, <2>1, <2>2, <2>3 DEF ReadersJoined
    <2>4. ASSUME t.conn = conn'[q], NEW i \in DOMAIN receivers[q], v \in kids[receivers[q][i]]
          PROVE  Joined(v)' \/ v \in lost'[t.conn]
      <3>1. receivers[q] \in Seq(Track)
        BY DEF StreamInv, TrackTypeOK
      <3>2. PICK s \in Track : s = receivers[q][i]
        BY <3>1
      <3>3. Joined(v) \/ v \in lost[s.conn]
        BY <2>4, <3>2 DEF ReadersJoined
      <3>4. lost[s.conn] \subseteq lost[conn[q]] /\ conn[q] \in Conns
        BY <3>2 DEF LostFollows, Led
      <3>5. lost[conn[q]] \subseteq lost'[conn'[q]]
        BY <1>2, <2>2, <3>4, LostSteps
      <3> QED BY <2>1, <2>4, <3>3, <3>4, <3>5
    <2> QED BY <2>0, <2>3, <2>4, WorkerTracks
  <1> QED BY <1>1, <1>2 DEF Next

LEMMA NonePushedStep ==
    ASSUME StreamInv, NonePushed, Next
    PROVE  NonePushed'
  <1> SUFFICES ASSUME NEW p \in Producers PROVE state'[p] # "external"
    BY DEF NonePushed
  <1>0. state[p] # "external"
    BY DEF NonePushed
  <1>1. ASSUME NEW u \in Consumers, Goroutine(u)
        PROVE  state'[p] # "external"
    <2>1. CASE StopKill(u)
      BY <1>0, <2>1, KillStep
    <2> QED BY <1>0, <1>1, <2>1, SendersStay
  <1>2. ASSUME NEW q \in Producers, Worker(q)
        PROVE  state'[p] # "external"
    BY <1>0, <1>2, WorkerTracks DEF StreamInv, Worker
  <1> QED BY <1>1, <1>2 DEF Next

LEMMA TalkersStep ==
    ASSUME StreamInv, TalkersJoined, Next
    PROVE  TalkersJoined'
  <1> SUFFICES ASSUME NEW v \in Consumers, back'[v] # {}
               PROVE  Joined(v)' \/ v \in hung'
    BY DEF TalkersJoined
  <1>1. ASSUME NEW u \in Consumers, Goroutine(u)
        PROVE  Joined(v)' \/ v \in hung'
    <2>0. hung' = hung
      BY <1>1 DEF Goroutine
    <2>1. CASE v = u /\ BackStep(u)
      <3>1. op'[u].starts # {} /\ op'[u].pc \in WalkPCs \cup {"done"}
        BY <2>1, WalkFields DEF StreamInv, Walk
      <3> QED BY <2>1, <3>1 DEF Joined, Counted, WalkPCs
    <2>2. CASE back[v] # {} /\ (v = u => ~RemoveCloses(u))
      <3>1. Joined(v) \/ v \in hung
        BY <2>2 DEF TalkersJoined
      <3>2. CASE v = u
        BY <1>1, <2>0, <2>2, <3>1, <3>2, JoinedStays DEF StreamInv
      <3>3. CASE v # u
        <4>1. op'[v] = op[v]
          BY <1>1, <3>3, StaysElsewhere DEF StreamInv, Elsewhere
        <4>2. Joined(v) => Joined(v)'
          BY <4>1 DEF Joined, Counted
        <4> QED BY <2>0, <3>1, <4>2
      <3> QED BY <3>2, <3>3
    <2> QED BY <1>1, <2>1, <2>2, BackStepOf
  <1>2. ASSUME NEW p \in Producers, Worker(p)
        PROVE  Joined(v)' \/ v \in hung'
    <2>1. op' = op /\ hung \subseteq hung' /\ (~(back'[v] \subseteq back[v]) => v \in hung')
      BY <1>2 DEF Worker, streamVars
    <2>2. Joined(v) => Joined(v)'
      BY <2>1 DEF Joined, Counted
    <2>3. CASE back'[v] \subseteq back[v]
      <3>1. back[v] # {}
        BY <2>3
      <3> QED BY <2>1, <2>2, <3>1 DEF TalkersJoined
    <2> QED BY <2>1, <2>3
  <1> QED BY <1>1, <1>2 DEF Next

LEMMA CountedStep ==
    ASSUME StreamInv, EveryConsumerCounted, Next
    PROVE  EveryConsumerCounted'
  <1> USE DEF EveryConsumerCounted
  <1>1. ASSUME Counted' = Counted, pending' = pending
        PROVE  EveryConsumerCounted'
    BY <1>1
  <1>2. ASSUME NEW u \in Consumers, Goroutine(u)
        PROVE  EveryConsumerCounted'
    <2>0. OpInv /\ Elsewhere(u)
      BY <1>2, StaysElsewhere DEF StreamInv
    <2>1. ASSUME u \in Counted <=> u \in Counted', pending' = pending
          PROVE  EveryConsumerCounted'
      <3>1. \A v \in Consumers : v \in Counted <=> v \in Counted'
        BY <2>0, <2>1 DEF Elsewhere, Counted
      <3>2. Counted' = Counted
        BY <3>1 DEF Counted
      <3> QED BY <1>1, <2>1, <3>2
    <2>2. CASE AddBegins(u)
      <3>1. op[u].pc = "idle" /\ op'[u].pc = "dial" /\ pending' = pending + 1
        BY <2>0, <2>2, GotoFields DEF AddBegins
      <3>2. Counted' = Counted \cup {u} /\ u \notin Counted
        BY <2>0, <3>1 DEF Elsewhere, Counted
      <3> QED BY <3>1, <3>2, FS_AddElement
    <2>3. CASE AddSettles(u)
      <3>1. op[u].pc = "done" /\ op'[u].pc \notin {"dial", "medias", "match", "attach", "bind", "done"}
        BY <2>0, <2>3, AddFields
      <3>2. pending' = pending - 1
        BY <2>3 DEF AddSettles
      <3>3. Counted' = Counted \ {u} /\ u \in Counted
        BY <2>0, <3>1 DEF Elsewhere, Counted
      <3> QED BY <3>2, <3>3, FS_RemoveElement
    <2>4. CASE Walk(u)
      BY <2>0, <2>1, <2>4, WalkFields DEF Counted, WalkPCs
    <2>5. CASE AddResult(u) \/ StartStep(u)
      <3>1. u \notin Counted /\ u \notin Counted'
        BY <2>0, <2>5, AddFields DEF Counted
      <3> QED BY <2>1, <2>5, <3>1 DEF AddResult, StartStep
    <2>6. CASE AddAppends(u) \/ StopLock(u) \/ RemoveBegins(u) \/ RemoveUnlists(u)
      <3>1. u \notin Counted /\ u \notin Counted'
        BY <2>0, <2>6, GotoFields DEF AddAppends, StopLock, RemoveBegins, RemoveUnlists, Counted
      <3> QED BY <2>1, <2>6, <3>1 DEF AddAppends, StopLock, RemoveBegins, RemoveUnlists
    <2>7. CASE StopCheck(u)
      <3>0. op[u].ret \in {"result", "gone"}
        BY <2>0 DEF OpInv, Op
      <3>1. PICK to \in {op[u].ret, "lock"} : Goto(u, "stopcheck", to)
        BY <2>7 DEF StopCheck
      <3>2. u \notin Counted /\ u \notin Counted'
        BY <2>0, <3>0, <3>1, GotoFields DEF Counted
      <3> QED BY <2>1, <2>7, <3>2 DEF StopCheck
    <2>8. CASE StopUnlock(u)
      <3>0. op[u].ret \in {"result", "gone"}
        BY <2>0 DEF OpInv, Op
      <3>1. u \notin Counted /\ u \notin Counted'
        BY <2>0, <2>8, <3>0, StopFields DEF Counted
      <3> QED BY <2>1, <2>8, <3>1 DEF StopUnlock
    <2>9. CASE StopLook(u) \/ StopKill(u) \/ RemoveCloses(u)
      <3>1. u \notin Counted /\ u \notin Counted'
        BY <2>0, <2>9, StopFields DEF Counted
      <3> QED BY <2>1, <2>9, <3>1 DEF StopLook, StopKill, RemoveCloses
    <2>10. CASE StopJudge(u)
      <3>1. op[u].pc = "judge" /\ op'[u].pc \in {"look", "kill"}
        BY <2>0, <2>10, StopFields
      <3>2. u \notin Counted /\ u \notin Counted'
        BY <3>1 DEF Counted
      <3> QED BY <2>1, <2>10, <3>2 DEF StopJudge
    <2> QED BY <1>2, <2>2, <2>3, <2>4, <2>5, <2>6, <2>7, <2>8, <2>9, <2>10
            DEF Goroutine, AddConsumer, StopProducers, RemoveConsumer, Walk
  <1>3. ASSUME NEW p \in Producers, Worker(p)
        PROVE  EveryConsumerCounted'
    BY <1>1, <1>3 DEF Worker, streamVars, Counted
  <1> QED BY <1>2, <1>3 DEF Next

LEMMA JudgesStep ==
    ASSUME StreamInv, OneJudges, Next
    PROVE  OneJudges'
  <1> USE DEF OneJudges, Judging
  <1>1. ASSUME NEW u \in Consumers, Goroutine(u)
        PROVE  OneJudges'
    <2>0. OpInv /\ Elsewhere(u) /\ u # "free"
      BY <1>1, StaysElsewhere, NamesAssumption DEF StreamInv
    <2>1. ASSUME NEW v \in Consumers, v # u
          PROVE  /\ op'[v].pc \in Judging => mu' = v
                 /\ op'[v].pc \notin Judging => op'[v].j = 1
                 /\ op'[v].pc = "judge" => op'[v].seenS \subseteq senders'[Target(v)']
      <3>1. op'[v] = op[v] /\ Target(v)' = Target(v) /\ v # "free"
        BY <2>0, <2>1, NamesAssumption DEF Elsewhere, Target
      <3>2. ASSUME op[v].pc \in Judging
            PROVE  mu' = v /\ ~StopKill(u)
        <4>1. mu = v /\ op[u].pc \notin Judging
          BY <2>1, <3>2
        <4>2. ~StopLock(u) /\ ~StopLook(u) /\ ~StopJudge(u) /\ ~StopKill(u) /\ ~StopUnlock(u)
          BY <2>0, <3>1, <4>1, StopFields DEF StopLock
        <4>3. mu' = mu
          BY <1>1, <2>0, <4>2, WalkFields
          DEF Goroutine, AddConsumer, StopProducers, RemoveConsumer, AddBegins, AddSettles, AddResult,
              AddAppends, StartStep, StopCheck, RemoveBegins, RemoveCloses, RemoveUnlists, Walk
        <4> QED BY <4>1, <4>2, <4>3
      <3>3. ASSUME op[v].pc = "judge"
            PROVE  senders[Target(v)] \subseteq senders'[Target(v)]
        <4>1. Target(v) \in Producers
          BY <2>0, <3>3, ProdType DEF OpInv, Target
        <4>2. ~StopKill(u)
          BY <3>2, <3>3
        <4> QED BY <1>1, <4>1, <4>2, SendersStay
      <3>4. op'[v].pc = "judge" => op'[v].seenS \subseteq senders'[Target(v)']
        BY <3>1, <3>3
      <3> QED BY <3>1, <3>2, <3>4
    <2>2. /\ op'[u].pc \in Judging => mu' = u
          /\ op'[u].pc \notin Judging => op'[u].j = 1
          /\ op'[u].pc = "judge" => op'[u].seenS \subseteq senders'[Target(u)']
      <3>1. CASE Walk(u)
        BY <2>0, <3>1, WalkFields DEF WalkPCs
      <3>2. CASE AddBegins(u) \/ AddAppends(u) \/ RemoveBegins(u) \/ RemoveUnlists(u)
        BY <2>0, <3>2, GotoFields DEF AddBegins, AddAppends, RemoveBegins, RemoveUnlists
      <3>3. CASE AddSettles(u)
        BY <2>0, <3>3, AddFields
      <3>4. CASE AddResult(u) \/ StartStep(u)
        BY <2>0, <3>4, AddFields
      <3>5. CASE StopCheck(u)
        <4>0. op[u].ret \in {"result", "gone"}
          BY <2>0 DEF OpInv, Op
        <4>1. PICK to \in {op[u].ret, "lock"} : Goto(u, "stopcheck", to)
          BY <3>5 DEF StopCheck
        <4> QED BY <2>0, <4>0, <4>1, GotoFields
      <3>6. CASE StopLock(u)
        BY <2>0, <3>6, GotoFields DEF StopLock
      <3>7. CASE StopLook(u)
        <4>1. /\ op[u].pc = "look" /\ op'[u].pc = "judge" /\ op'[u].j = op[u].j
              /\ op'[u].seenS = senders[Target(u)]
          BY <2>0, <3>7, StopFields
        <4>2. mu' = mu /\ senders' = senders
          BY <3>7 DEF StopLook, prodVars
        <4>3. Target(u)' = Target(u)
          BY <4>1 DEF Target
        <4> QED BY <4>1, <4>2, <4>3
      <3>8. CASE StopJudge(u)
        <4>1. op[u].pc = "judge" /\ op'[u].pc \in {"look", "kill"}
          BY <2>0, <3>8, StopFields
        <4>2. mu' = mu
          BY <3>8 DEF StopJudge
        <4> QED BY <4>1, <4>2
      <3>9. CASE StopKill(u)
        <4>1. op[u].pc = "kill" /\ op'[u].pc = "look"
          BY <2>0, <3>9, StopFields
        <4>2. mu' = mu
          BY <3>9 DEF StopKill
        <4> QED BY <4>1, <4>2
      <3>10. CASE StopUnlock(u)
        <4>0. op[u].ret \in {"result", "gone"}
          BY <2>0 DEF OpInv, Op
        <4> QED BY <2>0, <3>10, <4>0, StopFields
      <3>11. CASE RemoveCloses(u)
        BY <2>0, <3>11, StopFields
      <3> QED BY <1>1, <3>1, <3>2, <3>3, <3>4, <3>5, <3>6, <3>7, <3>8, <3>9, <3>10, <3>11
              DEF Goroutine, AddConsumer, StopProducers, RemoveConsumer, Walk
    <2> QED BY <2>1, <2>2
  <1>2. ASSUME NEW p \in Producers, Worker(p)
        PROVE  OneJudges'
    <2>1. op' = op /\ mu' = mu /\ senders' = senders
      BY <1>2, WorkerTracks DEF StreamInv, Worker, streamVars
    <2> QED BY <2>1 DEF Target
  <1> QED BY <1>1, <1>2 DEF Next

LEMMA SeenStep ==
    ASSUME StreamInv, GhostInv, Next
    PROVE  SeenLed'
  <1> SUFFICES ASSUME NEW v \in Consumers, op'[v].pc = "judge", NEW t \in op'[v].seenR
               PROVE  Led(Target(v), t.conn)'
    BY DEF SeenLed
  <1>0. OpInv
    BY DEF StreamInv
  <1>1. ASSUME op'[v] = op[v], op[v].pc = "judge",
               conn[Target(v)] # NoConn => conn'[Target(v)] # NoConn
        PROVE  Led(Target(v), t.conn)'
    <2>1. t \in Track /\ Target(v) \in Producers /\ Led(Target(v), t.conn)
      BY <1>0, <1>1, ProdType DEF OpInv, Op, GhostInv, SeenLed, Target
    <2>2. PICK d \in Conns, p \in Producers : d = t.conn /\ p = Target(v)
      BY <2>1 DEF Track
    <2>3. conn[p] \in Conns
      BY <2>1, <2>2 DEF Led
    <2>4. Led(p, d)'
      BY <1>1, <2>1, <2>2, <2>3, LedStays, ConnsAssumption
    <2>5. Target(v)' = p
      BY <1>1, <2>2 DEF Target
    <2> QED BY <2>2, <2>4, <2>5 DEF Led
  <1>2. ASSUME NEW u \in Consumers, Goroutine(u)
        PROVE  Led(Target(v), t.conn)'
    <2>0. Elsewhere(u)
      BY <1>0, <1>2, StaysElsewhere
    <2>1. CASE v # u
      <3>1. op'[v] = op[v] /\ op[v].pc = "judge"
        BY <2>0, <2>1 DEF Elsewhere
      <3>2. ~StopKill(u)
        BY <2>1, <3>1 DEF GhostInv, OneJudges, Judging, StopKill
      <3>3. Target(v) \in Producers
        BY <1>0, <3>1, ProdType DEF OpInv, Target
      <3> QED BY <1>1, <1>2, <3>1, <3>2, <3>3, SendersStay
    <2>2. CASE v = u
      <3>1. CASE StopLook(u)
        <4> DEFINE q == Target(u)
        <4>1. op[u].pc = "look" /\ op'[u].j = op[u].j
              /\ \E i \in DOMAIN receivers[q] : t = receivers[q][i]
          BY <1>0, <2>2, <3>1, StopFields
        <4>2. q \in Producers
          BY <1>0, <3>1, ProdType, ConfiguredAssumption DEF StopLook, OpInv, Target
        <4>3. Target(v)' = q
          BY <2>2, <4>1 DEF Target
        <4>4. UNCHANGED <<conn, connSt, lost>>
          BY <1>2, <3>1 DEF StopLook, prodVars, Goroutine
        <4> HIDE DEF q
        <4>5. Led(q, t.conn)
          BY <4>1, <4>2 DEF GhostInv, LostFollows
        <4> QED BY <4>3, <4>4, <4>5 DEF Led
      <3>2. CASE ~StopLook(u)
        <4>1. op'[u].pc = "judge"
          BY <2>2
        <4>2. ~Walk(u) /\ ~AddSettles(u) /\ ~AddResult(u) /\ ~StartStep(u)
          BY <1>0, <4>1, WalkFields, AddFields DEF WalkPCs
        <4>3. ~StopJudge(u) /\ ~StopKill(u) /\ ~RemoveCloses(u)
          BY <1>0, <4>1, StopFields
        <4>4. op[u].ret \in {"result", "gone"}
          BY <1>0 DEF OpInv, Op
        <4>5. ~StopUnlock(u)
          BY <1>0, <4>1, <4>4, StopFields
        <4>6. ~AddBegins(u) /\ ~AddAppends(u) /\ ~StopLock(u) /\ ~RemoveBegins(u) /\ ~RemoveUnlists(u)
          BY <1>0, <4>1, GotoFields DEF AddBegins, AddAppends, StopLock, RemoveBegins, RemoveUnlists
        <4>7. ~StopCheck(u)
          <5> SUFFICES ASSUME StopCheck(u) PROVE FALSE
            OBVIOUS
          <5>1. PICK to \in {op[u].ret, "lock"} : Goto(u, "stopcheck", to)
            BY DEF StopCheck
          <5> QED BY <1>0, <4>1, <4>4, <5>1, GotoFields
        <4> QED BY <1>2, <3>2, <4>2, <4>3, <4>5, <4>6, <4>7
                DEF Goroutine, AddConsumer, StopProducers, RemoveConsumer, Walk
      <3> QED BY <3>1, <3>2
    <2> QED BY <2>1, <2>2
  <1>3. ASSUME NEW q \in Producers, Worker(q)
        PROVE  Led(Target(v), t.conn)'
    <2>1. op' = op
      BY <1>3 DEF Worker, streamVars
    <2>2. Target(v) \in Producers
      BY <1>0, <2>1, ProdType DEF OpInv, Target
    <2>3. conn[Target(v)] # NoConn => conn'[Target(v)] # NoConn
      BY <1>3, <2>2, LostSteps, ConnsAssumption
    <2> QED BY <1>1, <2>1, <2>3
  <1> QED BY <1>2, <1>3 DEF Next

LEMMA ComesByStep ==
    ASSUME StreamInv, GhostInv, Next
    PROVE  SomebodyComesBy'
  <1> SUFFICES ASSUME NEW i \in DOMAIN Configured, ~Stopped(i)'
               PROVE  \/ \E v \in Consumers : ComesBy(v, i)'
                      \/ lost'[conn'[Configured[i]]] # {}
                      \/ \E v \in senders'[Configured[i]] : v \in hung'
    BY DEF SomebodyComesBy
  <1> DEFINE p == Configured[i]
  <1>0. /\ p \in Producers /\ OpInv /\ i \in Nat /\ i >= 1 /\ i <= Len(Configured)
        /\ state'[p] \notin {"none", "external"}
        /\ senders \in [Producers -> SUBSET Consumers]
    BY ProdType, ConfiguredAssumption DEF StreamInv, Stopped, TrackTypeOK
  <1> HIDE DEF p
  <1>1. ASSUME NEW u \in Consumers, Goroutine(u)
        PROVE  \/ \E v \in Consumers : ComesBy(v, i)'
               \/ lost'[conn'[p]] # {}
               \/ \E v \in senders'[p] : v \in hung'
    <2>0. Elsewhere(u) /\ hung' = hung /\ lost' = lost
      BY <1>0, <1>1, StaysElsewhere DEF Goroutine
    <2>1. ASSUME NEW v \in Consumers, v # u
          PROVE  /\ ComesBy(v, i) => ComesBy(v, i)'
                 /\ v \in Counted => v \in Counted'
                 /\ Joined(v) => Joined(v)'
      BY <2>0, <2>1 DEF Elsewhere, ComesBy, Joined, Counted
    <2>2. ASSUME NEW v \in Consumers, Joined(v), v = u => ~RemoveCloses(u)
          PROVE  ComesBy(v, i)'
      <3>1. Joined(v)'
        BY <1>0, <1>1, <2>1, <2>2, JoinedStays
      <3> QED BY <3>1 DEF ComesBy
    <2>3. CASE DialStep(u)
      <3>1. op'[u].pc \in WalkPCs \cup {"done"}
        BY <1>0, <2>3, WalkFields DEF Walk
      <3> QED BY <3>1 DEF ComesBy, Counted, WalkPCs
    <2>4. CASE StopKill(u)
      <3>1. p # Target(u) /\ state'[p] = state[p] /\ senders'[p] = senders[p] /\ conn'[p] = conn[p]
        BY <1>0, <2>4, KillStep
      <3>2. \/ \E v \in Consumers : ComesBy(v, i)
            \/ lost[conn[p]] # {}
            \/ \E v \in senders[p] : v \in hung
        BY <1>0, <3>1 DEF GhostInv, SomebodyComesBy, Stopped, p
      <3>3. CASE ComesBy(u, i)
        <4>1. /\ op[u].pc = "kill" /\ op'[u].pc = "look" /\ op'[u].j = op[u].j + 1
              /\ op[u].j \in Nat /\ ~RemoveCloses(u)
          BY <1>0, <2>4, StopFields DEF OpInv, RemoveCloses
        <4>2. op[u].j # i
          BY <3>1 DEF Target, p
        <4>3. CASE Joined(u)
          BY <2>2, <4>1, <4>3
        <4>4. CASE ~Joined(u)
          <5>1. op[u].j <= i
            BY <3>3, <4>1, <4>4 DEF ComesBy, Counted, Judging
          <5>2. op'[u].j <= i
            BY <1>0, <4>1, <4>2, <5>1
          <5> QED BY <4>1, <5>2 DEF ComesBy, Judging
        <4> QED BY <4>3, <4>4
      <3> QED BY <2>0, <2>1, <3>1, <3>2, <3>3
    <2>5. ASSUME ~DialStep(u), ~StopKill(u)
          PROVE  \/ \E v \in Consumers : ComesBy(v, i)'
                 \/ lost'[conn'[p]] # {}
                 \/ \E v \in senders'[p] : v \in hung'
      <3>1. /\ state[p] \notin {"none", "external"} /\ senders[p] \subseteq senders'[p]
            /\ conn'[p] = conn[p]
        BY <1>0, <1>1, <2>5, SendersStay DEF StreamInv, CoreInv, HoldsConn
      <3>2. \/ \E v \in Consumers : ComesBy(v, i)
            \/ lost[conn[p]] # {}
            \/ \E v \in senders[p] : v \in hung
        BY <3>1 DEF GhostInv, SomebodyComesBy, Stopped, p
      <3>3. CASE lost[conn[p]] # {} \/ \E v \in senders[p] : v \in hung
        BY <2>0, <3>1, <3>3
      <3>4. CASE \E v \in Consumers \ {u} : ComesBy(v, i)
        BY <2>1, <3>4
      <3>5. ASSUME ComesBy(u, i)
            PROVE  \/ \E v \in Consumers : ComesBy(v, i)'
                   \/ lost'[conn'[p]] # {}
                   \/ \E v \in senders'[p] : v \in hung'
        <4>1. CASE RemoveCloses(u)
          BY <1>0, <4>1, StopFields DEF ComesBy
        <4>2. CASE Joined(u) /\ ~RemoveCloses(u)
          BY <2>2, <4>2
        <4>3. ASSUME NEW w \in Counted, w # u
              PROVE  \E v \in Consumers : ComesBy(v, i)'
          BY <2>1, <4>3 DEF ComesBy, Counted
        <4>4. CASE Walk(u)
          <5>1. op'[u].pc \in WalkPCs \cup {"done"}
            BY <1>0, <4>4, WalkFields
          <5> QED BY <5>1 DEF ComesBy, Counted, WalkPCs
        <4>5. CASE AddSettles(u)
          <5>1. op'[u].pc = IF pending = 1 THEN "stopcheck" ELSE "result"
            BY <1>0, <4>5, AddFields
          <5>2. CASE pending = 1
            BY <5>1, <5>2 DEF ComesBy
          <5>3. CASE pending # 1
            <6>1. Counted # {u}
              BY <5>3, FS_Singleton DEF GhostInv, EveryConsumerCounted
            <6>2. u \in Counted
              BY <4>5 DEF AddSettles, Counted
            <6>3. PICK w \in Counted : w # u
              BY <6>1, <6>2
            <6> QED BY <4>3, <6>3
          <5> QED BY <5>2, <5>3
        <4>6. CASE StopCheck(u)
          <5>1. CASE pending > 0
            <6>1. Counted # {}
              BY <5>1, FS_EmptySet DEF GhostInv, EveryConsumerCounted
            <6>2. u \notin Counted
              BY <4>6 DEF StopCheck, Goto, Counted
            <6>3. PICK w \in Counted : TRUE
              BY <6>1
            <6> QED BY <4>3, <6>2, <6>3
          <5>2. CASE ~(pending > 0)
            <6>1. Goto(u, "stopcheck", "lock")
              BY <4>6, <5>2 DEF StopCheck
            <6>2. op'[u].pc = "lock"
              BY <1>0, <6>1, GotoFields
            <6> QED BY <6>2 DEF ComesBy
          <5> QED BY <5>1, <5>2
        <4>7. CASE StopLock(u)
          <5>1. op'[u].pc = "look" /\ op[u].pc = "lock" /\ op'[u].j = op[u].j
            BY <1>0, <4>7, GotoFields DEF StopLock
          <5>2. op[u].j = 1
            BY <5>1 DEF GhostInv, OneJudges, Judging
          <5> QED BY <1>0, <5>1, <5>2 DEF ComesBy, Judging
        <4>8. CASE StopLook(u) /\ ~Joined(u)
          <5>1. op[u].pc = "look" /\ op'[u].pc = "judge" /\ op'[u].j = op[u].j
            BY <1>0, <4>8, StopFields
          <5>2. op[u].j <= i
            BY <3>5, <4>8, <5>1 DEF ComesBy, Counted
          <5> QED BY <5>1, <5>2 DEF ComesBy, Judging
        <4>9. CASE StopJudge(u) /\ ~Joined(u)
          <5> DEFINE K == (\E t \in op[u].seenR : kids[t] # {}) \/ (\E v \in op[u].seenS : back[v] # {})
          <5>1. /\ op[u].pc = "judge"
                /\ IF K THEN op'[u].pc = "look" /\ op'[u].j = op[u].j + 1
                        ELSE op'[u].pc = "kill" /\ op'[u].j = op[u].j
            BY <1>0, <4>9, StopFields
          <5>2. op[u].j <= i /\ op[u].j \in Nat /\ ~RemoveCloses(u)
            BY <1>0, <3>5, <4>9, <5>1 DEF ComesBy, Counted, OpInv, RemoveCloses
          <5>3. CASE ~K
            BY <5>1, <5>2, <5>3 DEF ComesBy, Judging
          <5>4. CASE K /\ op[u].j # i
            <6>1. op'[u].pc = "look" /\ op'[u].j <= i
              BY <1>0, <5>1, <5>2, <5>4
            <6> QED BY <6>1 DEF ComesBy, Judging
          <5>5. ASSUME op[u].j = i, NEW t \in op[u].seenR, kids[t] # {}
                PROVE  (\E v \in Consumers : ComesBy(v, i)') \/ lost'[conn'[p]] # {}
            <6>1. t \in Track
              BY <1>0, <5>5 DEF OpInv, Op
            <6>2. PICK w \in Consumers : w \in kids[t]
              BY <5>5, <6>1 DEF StreamInv, TrackTypeOK
            <6>3. Joined(w) \/ w \in lost[t.conn]
              BY <6>1, <6>2 DEF GhostInv, ReadersJoined
            <6>4. Led(p, t.conn)
              BY <5>1, <5>5 DEF GhostInv, SeenLed, Target, p
            <6>5. CASE w \in lost[t.conn]
              BY <2>0, <3>1, <6>4, <6>5 DEF Led
            <6> QED BY <2>2, <5>2, <6>3, <6>5
          <5>6. ASSUME op[u].j = i, NEW w \in op[u].seenS, back[w] # {}
                PROVE  \/ \E v \in Consumers : ComesBy(v, i)'
                       \/ lost'[conn'[p]] # {}
                       \/ \E v \in senders'[p] : v \in hung'
            <6>1. w \in senders[p] /\ w \in Consumers
              BY <1>0, <5>1, <5>6 DEF GhostInv, OneJudges, Target, p
            <6>2. Joined(w) \/ w \in hung
              BY <5>6, <6>1 DEF GhostInv, TalkersJoined
            <6>3. CASE Joined(w)
              BY <2>2, <5>2, <6>1, <6>3
            <6> QED BY <2>0, <3>1, <6>1, <6>2, <6>3
          <5> QED BY <5>3, <5>4, <5>5, <5>6
        <4>10. CASE StopUnlock(u) /\ ~Joined(u)
          <5>1. op[u].pc = "look" /\ op[u].j > Len(Configured) /\ op[u].j \in Nat
            BY <1>0, <4>10, StopFields DEF OpInv
          <5>2. op[u].j <= i
            BY <3>5, <4>10, <5>1 DEF ComesBy, Counted
          <5>3. Len(Configured) \in Nat
            BY ConfiguredAssumption
          <5> QED BY <1>0, <5>1, <5>2, <5>3
        <4>10a. CASE RemoveBegins(u)
          <5>1. op[u].pc = "added" /\ ~RemoveCloses(u)
            BY <4>10a DEF RemoveBegins, Goto, RemoveCloses
          <5> QED BY <2>2, <5>1 DEF Joined
        <4>11. CASE RemoveUnlists(u)
          <5>1. op'[u].pc = "stopcheck"
            BY <1>0, <4>11, GotoFields DEF RemoveUnlists
          <5> QED BY <5>1 DEF ComesBy
        <4>12. CASE AddBegins(u)
          <5>1. op'[u].pc = "dial"
            BY <1>0, <4>12, GotoFields DEF AddBegins
          <5> QED BY <5>1 DEF ComesBy, Counted
        <4>13. CASE (AddResult(u) \/ AddAppends(u) \/ StartStep(u)) /\ ~Joined(u)
          <5>1. op[u].pc \in {"result", "append", "start"}
            BY <4>13 DEF AddResult, AddAppends, StartStep, Goto
          <5> QED BY <3>5, <4>13, <5>1 DEF ComesBy, Counted, Judging
        <4> QED BY <1>1, <2>5, <4>1, <4>2, <4>4, <4>5, <4>6, <4>7, <4>8, <4>9, <4>10, <4>10a, <4>11, <4>12, <4>13
                DEF Goroutine, AddConsumer, StopProducers, RemoveConsumer, Walk
      <3> QED BY <3>2, <3>3, <3>4, <3>5
    <2> QED BY <2>3, <2>4, <2>5
  <1>2. ASSUME NEW q \in Producers, Worker(q)
        PROVE  \/ \E v \in Consumers : ComesBy(v, i)'
               \/ lost'[conn'[p]] # {}
               \/ \E v \in senders'[p] : v \in hung'
    <2>1. op' = op /\ state' = state /\ senders' = senders /\ hung \subseteq hung'
      BY <1>2, WorkerTracks DEF StreamInv, Worker, streamVars
    <2>2. \/ \E v \in Consumers : ComesBy(v, i)
          \/ lost[conn[p]] # {}
          \/ \E v \in senders[p] : v \in hung
      BY <1>0, <2>1 DEF GhostInv, SomebodyComesBy, Stopped, p
    <2>3. \A v \in Consumers : ComesBy(v, i) => ComesBy(v, i)'
      BY <2>1 DEF ComesBy, Joined, Counted
    <2>4. lost[conn[p]] \subseteq lost'[conn'[p]]
      <3>1. conn[p] \in Conns /\ connSt[conn[p]] # "fresh"
        BY <1>0, <2>1, ConnsAssumption DEF StreamInv, CoreInv, CoreTypeOK, HoldsConn, NoGhostConn
      <3>3. CASE conn'[p] = conn[p]
        BY <1>2, <3>1, <3>3, LostSteps
      <3>4. CASE conn'[p] # conn[p]
        BY <1>0, <1>2, <3>1, <3>4, LostSteps
      <3> QED BY <3>3, <3>4
    <2> QED BY <2>1, <2>2, <2>3, <2>4
  <1> QED BY <1>1, <1>2 DEF Next, p

LEMMA GhostInvHolds == Spec => [](StreamInv /\ GhostInv)
  <1>1. Init => GhostInv
    <2> SUFFICES ASSUME Init PROVE GhostInv
      OBVIOUS
    <2>1. \A u \in Consumers : op[u].pc = "idle" /\ op[u].j = 1 /\ op[u].starts = {}
      BY DEF Init, Idle
    <2>2. Counted = {}
      BY <2>1 DEF Counted
    <2>3. EveryConsumerCounted
      BY <2>2, FS_EmptySet DEF Init, EveryConsumerCounted
    <2>4. OneJudges
      BY <2>1 DEF OneJudges, Judging
    <2>5. ReadersJoined /\ TalkersJoined /\ TalkIsHeld /\ NonePushed /\ StraysLost
      BY DEF Init, ProducerInit, ReadersJoined, TalkersJoined, TalkIsHeld, NonePushed, StraysLost
    <2>6. SomebodyComesBy
      BY ProdType DEF Init, ProducerInit, SomebodyComesBy, Stopped
    <2>7. LostFollows /\ SeenLed
      BY <2>1 DEF Init, ProducerInit, LostFollows, SeenLed
    <2> QED BY <2>3, <2>4, <2>5, <2>6, <2>7 DEF GhostInv
  <1>2. StreamInv /\ GhostInv /\ [Next]_vars => GhostInv'
    <2>1. ASSUME StreamInv, GhostInv, Next
          PROVE  GhostInv'
      <3>1. TalkIsHeld'
        BY <2>1, StreamsCallsProducers, TalkStep DEF StreamInv, GhostInv
      <3> QED BY <2>1, <3>1, CountedStep, JudgesStep, FollowsStep, SeenStep, StraysLostStep,
                 ReadersStep, TalkersStep, NonePushedStep, ComesByStep
              DEF GhostInv
    <2>2. ASSUME GhostInv, UNCHANGED vars
          PROVE  GhostInv'
      <3> USE <2>2 DEF vars, streamVars, prodVars
      <3>1. Counted' = Counted /\ \A u \in Consumers : Joined(u)' = Joined(u)
        BY DEF Counted, Joined
      <3>2. \A u \in Consumers, i \in DOMAIN Configured : ComesBy(u, i)' = ComesBy(u, i)
        BY <3>1 DEF ComesBy
      <3>3. EveryConsumerCounted' /\ OneJudges'
        BY <3>1 DEF GhostInv, EveryConsumerCounted, OneJudges, Target
      <3>4. ReadersJoined' /\ TalkersJoined' /\ TalkIsHeld' /\ NonePushed'
        BY <3>1 DEF GhostInv, ReadersJoined, TalkersJoined, TalkIsHeld, NonePushed
      <3>6. LostFollows' /\ SeenLed' /\ StraysLost'
        BY DEF GhostInv, LostFollows, SeenLed, StraysLost, Led, Target
      <3>5. SomebodyComesBy'
        BY <3>2 DEF GhostInv, SomebodyComesBy, Stopped
      <3> QED BY <3>3, <3>4, <3>5, <3>6 DEF GhostInv
    <2> QED BY <2>1, <2>2
  <1> QED BY <1>1, <1>2, StreamInvHolds, PTL DEF Spec

(* Whatever stops were skipped because another consumer was pending: when  *)
(* all have left, a producer that still runs has lost a consumer that was  *)
(* joining or leaving while it reconnected, or holds a track on which a    *)
(* reconnect has hung a connection.                                        *)
THEOREM IdleIsStopped == Spec => []IdleProducersStop
  <1>1. GhostInv => IdleProducersStop
    <2> SUFFICES ASSUME GhostInv, AllLeft, NEW i \in DOMAIN Configured
                 PROVE  \/ Stopped(i)
                        \/ lost[conn[Configured[i]]] # {}
                        \/ \E u \in senders[Configured[i]] : u \in hung
      BY DEF IdleProducersStop
    <2>1. \A u \in Consumers : ~ComesBy(u, i)
      BY DEF AllLeft, Left, ComesBy, Joined, Counted, Judging
    <2> QED BY <2>1 DEF GhostInv, SomebodyComesBy
  <1> QED BY <1>1, GhostInvHolds, PTL

(* So no producer that has lost nobody outlives its consumers as long as   *)
(* no reconnect has given a backchannel track a connection.                *)
THEOREM NoGhosts == Spec => [](hung = {} => NoGhostProducer)
  <1>1. IdleProducersStop /\ hung = {} => NoGhostProducer
    BY DEF IdleProducersStop, NoGhostProducer
  <1> QED BY <1>1, IdleIsStopped, PTL

(* And where no source has a backchannel, no such producer ever does.      *)
THEOREM NoGhostsWithoutTalk ==
    ASSUME \A os \in OfferSets : Back \notin os
    PROVE  Spec => []NoGhostProducer
  <1>1. Init => hung = {}
    BY DEF Init
  <1>2. StreamInv /\ hung = {} /\ [Next]_vars => (hung = {})'
    <2>1. ASSUME StreamInv, hung = {}, NEW p \in Producers, Worker(p)
          PROVE  hung' = {}
      <3>1. back \in [Consumers -> SUBSET Conns] /\ WorkerStep(p, Lates(p))
        BY <2>1 DEF StreamInv, TrackTypeOK, Worker
      <3>2. ASSUME NEW a, NEW c, NEW os \in OfferSets, NEW got, NEW left, NEW late,
                   Reconnect(p, a, c, os, got, left, late), NEW u \in Consumers
            PROVE  back'[u] \subseteq back[u]
        <4>1. back' = BackClosedBy([v \in Consumers |-> back[v] \cup {}], conn[p])
          BY <3>2 DEF Reconnect
        <4> QED BY <3>1, <4>1 DEF BackClosedBy
      <3>3. \A u \in Consumers : back'[u] \subseteq back[u]
        BY <3>1, <3>2, WorkerCases
      <3> QED BY <2>1, <3>3 DEF Worker
    <2> QED BY <2>1 DEF Next, Goroutine, vars
  <1> QED BY <1>1, <1>2, StreamInvHolds, NoGhosts, PTL DEF Spec

(* A consumer that left, or whose AddConsumer failed, is the reader of no  *)
(* track, whatever reconnected, stopped or failed meanwhile, but for one   *)
(* to which a reconnect carried it while it was joining or leaving.        *)
THEOREM NobodyStays == Spec => []NobodyLingers
  <1>1. GhostInv => NobodyLingers
    <2> SUFFICES ASSUME GhostInv, NEW u \in Consumers, Left(u)
                 PROVE  /\ \A t \in Track : Reads(u, t) => u \in lost[t.conn]
                        /\ \A c \in back[u] : \E p \in Producers : conn[p] = c /\ u \in senders[p]
      BY DEF NobodyLingers
    <2>1. ~Joined(u)
      BY DEF Left, Joined, Counted, Judging
    <2>2. \A t \in Track : Reads(u, t) => u \in lost[t.conn]
      BY <2>1 DEF GhostInv, ReadersJoined, Reads
    <2> QED BY <2>2 DEF GhostInv, TalkIsHeld
  <1> QED BY <1>1, GhostInvHolds, PTL
=============================================================================
