------------------------------- MODULE Streams -------------------------------
(***************************************************************************)
(* A stream and its consumers: internal/streams/stream.go and              *)
(* add_consumer.go. Every consumer is a goroutine that adds itself, reads  *)
(* for a while and removes itself; the producers are those of the          *)
(* configuration. AddConsumer takes no lock while it walks over            *)
(* s.producers: each call on a producer is a step of its own, under the    *)
(* mutex of that producer only. stopProducers reads the receivers and      *)
(* senders of a producer without that mutex.                               *)
(***************************************************************************)
EXTENDS Producer

CONSTANTS
    Configured,     \* Stream.producers, a sequence of producers
    Loops,          \* the producers that would read the consumer's own source
    Wants           \* [Consumers -> Seq([want, all])]: the consumer's medias

ASSUME NamesAssumption == "free" \notin Consumers
ASSUME ConfiguredAssumption == Configured \in Seq(Producers)
ASSUME LoopsAssumption == Loops \in [Consumers -> SUBSET Producers]
ASSUME WantsAssumption ==
    Wants \in [Consumers -> Seq([want : SUBSET (Codecs \cup {Back}), all : BOOLEAN])]

VARIABLES
    pending,    \* Stream.pending
    consumers,  \* Stream.consumers, as a set
    mu,         \* holder of Stream.mu, or "free"
    op,         \* where each consumer is in AddConsumer or RemoveConsumer
    hung,       \* history: the consumers on whose backchannel track a
                \* reconnect has hung a connection
    lost        \* history: for each connection the consumers that came to its
                \* tracks in a reconnect and kept another parent

streamVars == <<pending, consumers, mu, op>>
vars == <<prodVars, streamVars, hung, lost>>

NoTrack == [conn |-> NoConn]

Idle == [pc |-> "idle", m |-> 1, i |-> 1, of |-> NoConn, todo |-> {}, errs |-> {},
         starts |-> {}, track |-> NoTrack, j |-> 1, seenR |-> {}, seenS |-> {}, ret |-> "gone"]

PCs == {"idle", "dial", "medias", "match", "attach", "bind", "done", "stopcheck", "lock",
        "look", "judge", "kill", "result", "append", "start",
        "added", "close", "remove", "failed", "gone"}

Op == [pc : PCs, m : Nat, i : Nat, of : Conns \cup {NoConn},
       todo : SUBSET (Codecs \cup {Back}), errs : SUBSET Producers,
       starts : SUBSET Producers, track : Track \cup {NoTrack}, j : Nat,
       seenR : SUBSET Track, seenS : SUBSET Consumers, ret : {"result", "gone"}]

TypeOK ==
    /\ ProducerTypeOK
    /\ pending \in Int
    /\ consumers \in SUBSET Consumers
    /\ mu \in Consumers \cup {"free"}
    /\ op \in [Consumers -> Op]
    /\ hung \in SUBSET Consumers
    /\ lost \in [Conns -> SUBSET Consumers]

Init ==
    /\ ProducerInit
    /\ pending = 0
    /\ consumers = {}
    /\ mu = "free"
    /\ op = [u \in Consumers |-> Idle]
    /\ hung = {}
    /\ lost = [c \in Conns |-> {}]

-----------------------------------------------------------------------------
(* Stream.AddConsumer.                                                     *)

Goto(u, from, to) == op[u].pc = from /\ op' = [op EXCEPT ![u].pc = to]

AddBegins(u) ==
    /\ Goto(u, "idle", "dial")
    /\ pending' = pending + 1
    /\ UNCHANGED <<consumers, mu, prodVars>>

Media(u) == Wants[u][op[u].m]
AllMediasDone(u) == op[u].m > Len(Wants[u])
AllProducersDone(u) == op[u].i > Len(Configured)
Prod(u) == Configured[op[u].i]

NextProducer(u) == [op[u] EXCEPT !.pc = "dial", !.i = @ + 1, !.of = NoConn,
                                 !.todo = {}, !.track = NoTrack]
NextMedia(u) == [op[u] EXCEPT !.pc = "dial", !.m = @ + 1, !.i = 1, !.of = NoConn,
                              !.todo = {}, !.track = NoTrack]

Skipped(u) == Prod(u) \in op[u].errs \cup Loops[u]

Walking(u) ==
    /\ op[u].pc = "dial"
    /\ ~AllMediasDone(u) /\ ~AllProducersDone(u)
    /\ ~Skipped(u)

(* The loops over consumer medias and producers move on.                   *)
WalkOn(u) ==
    /\ op[u].pc = "dial" /\ ~Walking(u)
    /\ op' = [op EXCEPT ![u] =
                IF AllMediasDone(u) THEN [Idle EXCEPT !.pc = "done", !.starts = op[u].starts]
                ELSE IF AllProducersDone(u) THEN NextMedia(u) ELSE NextProducer(u)]
    /\ UNCHANGED <<pending, consumers, mu, prodVars>>

(* Producer.Dial: a producer that is not in state none is left as it is.   *)
DialStep(u) ==
    /\ Walking(u)
    /\ \/ /\ state[Prod(u)] # "none"
          /\ UNCHANGED prodVars
       \/ \E c \in Conns, os \in OfferSets : DialNew(Prod(u), c, os)
    /\ op' = [op EXCEPT ![u].pc = "medias"]
    /\ UNCHANGED <<pending, consumers, mu>>

DialFails(u) ==
    /\ Walking(u)
    /\ state[Prod(u)] = "none"
    /\ op' = [op EXCEPT ![u] = [NextProducer(u) EXCEPT !.errs = @ \cup {Prod(u)}]]
    /\ UNCHANGED <<pending, consumers, mu, prodVars>>

(* Producer.GetMedias: none when a stop came first.                        *)
MediasStep(u) ==
    LET c == conn[Prod(u)] IN
    /\ op[u].pc = "medias"
    /\ op' = [op EXCEPT ![u] =
                IF c = NoConn THEN NextProducer(u)
                ELSE [@ EXCEPT !.pc = "match", !.of = c, !.todo = offers[c] \cap Media(u).want]]
    /\ UNCHANGED <<pending, consumers, mu, prodVars>>

(* What follows a matched media: one match is enough for this consumer     *)
(* media, unless it takes them all.                                        *)
Matched(u, k) ==
    IF Media(u).all
    THEN [op[u] EXCEPT !.pc = "match", !.todo = @ \ {k}, !.track = NoTrack,
                       !.starts = @ \cup {Prod(u)}]
    ELSE [NextMedia(u) EXCEPT !.starts = @ \cup {Prod(u)}]

MatchFails(u, k) == [op[u] EXCEPT !.pc = "match", !.todo = @ \ {k}, !.track = NoTrack]

NoMatchLeft(u) ==
    /\ op[u].pc = "match" /\ op[u].todo = {}
    /\ op' = [op EXCEPT ![u] = NextProducer(u)]
    /\ UNCHANGED <<pending, consumers, mu, prodVars>>

(* A recvonly media: the producer's GetTrack, then the consumer's AddTrack. *)
GetTrackStep(u) ==
    \E k \in op[u].todo \cap Codecs :
        LET ptr == [of |-> op[u].of, codec |-> k] IN
        /\ op[u].pc = "match"
        /\ GetTrack(Prod(u), ptr)
        /\ op' = [op EXCEPT ![u] = [@ EXCEPT !.pc = "attach", !.track = GotTrack(Prod(u), ptr)]]
        /\ UNCHANGED <<pending, consumers, mu>>

(* The connection has no such track, or the producer was stopped.          *)
GetTrackFails(u) ==
    \E k \in op[u].todo \cap Codecs :
        /\ op[u].pc = "match"
        /\ op' = [op EXCEPT ![u] = [MatchFails(u, k) EXCEPT !.errs = @ \cup {Prod(u)}]]
        /\ UNCHANGED <<pending, consumers, mu, prodVars>>

(* The consumer's sender appends itself to the track, then writes parent.  *)
AttachStep(u) ==
    /\ Goto(u, "attach", "bind")
    /\ Attach(u, op[u].track)
    /\ UNCHANGED <<pending, consumers, mu>>

BindStep(u) ==
    /\ op[u].pc = "bind"
    /\ Bind(u, op[u].track)
    /\ op' = [op EXCEPT ![u] = Matched(u, op[u].track.ptr.codec)]
    /\ UNCHANGED <<pending, consumers, mu>>

AttachFails(u) ==
    /\ op[u].pc = "attach"
    /\ op' = [op EXCEPT ![u] = MatchFails(u, op[u].track.ptr.codec)]
    /\ UNCHANGED <<pending, consumers, mu, prodVars>>

(* A sendonly media: the consumer's own track goes to the producer.        *)
BackStep(u) ==
    /\ op[u].pc = "match" /\ Back \in op[u].todo
    /\ AddTrack(Prod(u), u)
    /\ op' = [op EXCEPT ![u] = Matched(u, Back)]
    /\ UNCHANGED <<pending, consumers, mu>>

(* It may fail on either side; only the producer's side is remembered.     *)
BackFails(u) ==
    /\ op[u].pc = "match" /\ Back \in op[u].todo
    /\ \E errs \in SUBSET {Prod(u)} :
          op' = [op EXCEPT ![u] = [MatchFails(u, Back) EXCEPT !.errs = @ \cup errs]]
    /\ UNCHANGED <<pending, consumers, mu, prodVars>>

(* Mutant: the count is compared before it goes down.                      *)
LastPendingMutant == pending = 0

LastPending == pending = 1

(* pending.Add(-1): the last of the pending consumers stops producers.     *)
AddSettles(u) ==
    /\ op[u].pc = "done"
    /\ op' = [op EXCEPT ![u] = [@ EXCEPT !.pc = IF LastPending THEN "stopcheck" ELSE "result",
                                         !.ret = "result"]]
    /\ pending' = pending - 1
    /\ UNCHANGED <<consumers, mu, prodVars>>

AddResult(u) ==
    /\ op[u].pc = "result"
    /\ op' = [op EXCEPT ![u] = [Idle EXCEPT !.pc = IF op[u].starts = {} THEN "failed" ELSE "append",
                                            !.starts = op[u].starts]]
    /\ UNCHANGED <<pending, consumers, mu, prodVars>>

AddAppends(u) ==
    /\ mu = "free"
    /\ Goto(u, "append", "start")
    /\ consumers' = consumers \cup {u}
    /\ UNCHANGED <<pending, mu, prodVars>>

(* Producer.start on each matched producer; a no-op unless it has tracks.  *)
StartStep(u) ==
    /\ op[u].pc = "start"
    /\ \E p \in op[u].starts :
        /\ op' = [op EXCEPT ![u].starts = @ \ {p},
                            ![u].pc = IF op[u].starts = {p} THEN "added" ELSE @]
        /\ IF state[p] = "tracks" THEN Start(p) ELSE UNCHANGED prodVars
    /\ UNCHANGED <<pending, consumers, mu>>

-----------------------------------------------------------------------------
(* Stream.stopProducers, called at the end of AddConsumer and of           *)
(* RemoveConsumer.                                                         *)

StopCheck(u) ==
    /\ Goto(u, "stopcheck", IF pending > 0 THEN op[u].ret ELSE "lock")
    /\ UNCHANGED <<pending, consumers, mu, prodVars>>

StopLock(u) ==
    /\ mu = "free"
    /\ Goto(u, "lock", "look")
    /\ mu' = u
    /\ UNCHANGED <<pending, consumers, prodVars>>

Target(u) == Configured[op[u].j]

(* The slices of the next producer are read ...                            *)
StopLook(u) ==
    /\ op[u].pc = "look" /\ op[u].j <= Len(Configured)
    /\ op' = [op EXCEPT ![u] = [@ EXCEPT !.pc = "judge",
                 !.seenR = {receivers[Target(u)][i] : i \in DOMAIN receivers[Target(u)]},
                 !.seenS = senders[Target(u)]]]
    /\ UNCHANGED <<pending, consumers, mu, prodVars>>

(* ... then their childs ...                                               *)
StopJudge(u) ==
    /\ op[u].pc = "judge"
    /\ op' = [op EXCEPT ![u] =
          IF (\E t \in op[u].seenR : HasSenders(t)) \/ (\E v \in op[u].seenS : BackHasSenders(v))
          THEN [op[u] EXCEPT !.pc = "look", !.j = @ + 1, !.seenR = {}, !.seenS = {}]
          ELSE [op[u] EXCEPT !.pc = "kill", !.seenR = {}, !.seenS = {}]]
    /\ UNCHANGED <<pending, consumers, mu, prodVars>>

(* ... then Producer.stop takes the mutex.                                 *)
StopKill(u) ==
    /\ op[u].pc = "kill"
    /\ IF state[Target(u)] \in {"external", "none"} THEN UNCHANGED prodVars
       ELSE \E left \in Leftovers : Stop(Target(u), left)
    /\ op' = [op EXCEPT ![u] = [op[u] EXCEPT !.pc = "look", !.j = @ + 1]]
    /\ UNCHANGED <<pending, consumers, mu>>

(* Mutant: the mutex is not given back.                                    *)
StopUnlockMutant(u) ==
    /\ op[u].pc = "look" /\ op[u].j > Len(Configured)
    /\ op' = [op EXCEPT ![u] = [op[u] EXCEPT !.pc = op[u].ret, !.j = 1]]
    /\ UNCHANGED <<pending, consumers, mu, prodVars>>

StopUnlock(u) ==
    /\ op[u].pc = "look" /\ op[u].j > Len(Configured)
    /\ op' = [op EXCEPT ![u] = [op[u] EXCEPT !.pc = op[u].ret, !.j = 1]]
    /\ mu' = "free"
    /\ UNCHANGED <<pending, consumers, prodVars>>

-----------------------------------------------------------------------------
(* Stream.RemoveConsumer: the consumer closes its senders and its own      *)
(* tracks, leaves the list and stops producers. A sender that closes reads *)
(* its parent first.                                                       *)

RemoveBegins(u) ==
    /\ Goto(u, "added", "close")
    /\ UNCHANGED <<pending, consumers, mu, prodVars>>

RemoveCloses(u) ==
    /\ op[u].pc = "close"
    /\ \E found \in BOOLEAN : Detach(u, found)
    /\ op' = [op EXCEPT ![u] = [Idle EXCEPT !.pc = "remove"]]
    /\ UNCHANGED <<pending, consumers, mu>>

RemoveUnlists(u) ==
    /\ mu = "free"
    /\ Goto(u, "remove", "stopcheck")
    /\ consumers' = consumers \ {u}
    /\ UNCHANGED <<pending, mu, prodVars>>

-----------------------------------------------------------------------------

AddConsumer(u) ==
    \/ AddBegins(u) \/ WalkOn(u) \/ DialStep(u) \/ DialFails(u) \/ MediasStep(u)
    \/ NoMatchLeft(u) \/ GetTrackStep(u) \/ GetTrackFails(u) \/ AttachStep(u)
    \/ BindStep(u) \/ AttachFails(u) \/ BackStep(u) \/ BackFails(u)
    \/ AddSettles(u) \/ AddResult(u) \/ AddAppends(u) \/ StartStep(u)

StopProducers(u) ==
    \/ StopCheck(u) \/ StopLock(u) \/ StopLook(u) \/ StopJudge(u) \/ StopKill(u) \/ StopUnlock(u)

RemoveConsumer(u) == RemoveBegins(u) \/ RemoveCloses(u) \/ RemoveUnlists(u)

Goroutine(u) ==
    /\ AddConsumer(u) \/ StopProducers(u) \/ RemoveConsumer(u)
    /\ UNCHANGED <<hung, lost>>

(* Whom a reconnect of p may find in the midst of a call: a consumer that  *)
(* has yet to write the parent of a sender that is in the list of one of   *)
(* the receivers, which comes too late in any case; and one that closes    *)
(* its senders, which may be late. A sender that leaves the new list while *)
(* MoveNode still ranges over it makes that skip others, if they are three *)
(* or more.                                                                *)
Binding(p) ==
    {x \in Consumers \X Codecs :
        /\ op[x[1]].pc = "bind" /\ op[x[1]].track.ptr.codec = x[2]
        /\ \E i \in DOMAIN receivers[p] :
              receivers[p][i].ptr.codec = x[2] /\ x[1] \in strays[receivers[p][i]]}

Closing == {u \in Consumers : op[u].pc = "close"}

Lates(p) ==
    {Binding(p) \cup late :
        late \in SUBSET ((IF Closing # {} /\ Cardinality(Consumers) > 2 THEN Consumers ELSE Closing)
                              \X Codecs)}

(* The consumers whose senders are on the tracks of connection c in the    *)
(* next state, but have another parent.                                    *)
StrayOn(c) == {u \in Consumers : \E t \in Track : t.conn = c /\ u \in strays'[t]}

LostNow(p) ==
    IF conn'[p] = conn[p] THEN lost
    ELSE [lost EXCEPT ![conn'[p]] = @ \cup lost[conn[p]] \cup StrayOn(conn'[p])]

Worker(p) ==
    /\ WorkerStep(p, Lates(p))
    /\ hung' = hung \cup {u \in Consumers : ~(back'[u] \subseteq back[u])}
    /\ lost' = LostNow(p)
    /\ UNCHANGED streamVars

Next ==
    \/ \E u \in Consumers : Goroutine(u)
    \/ \E p \in Producers : Worker(p)

Spec == Init /\ [][Next]_vars

(* Every goroutine that is in AddConsumer or RemoveConsumer keeps running, *)
(* and so do workers and timers; nobody has to add or remove a consumer.   *)
Returns(u) == op[u].pc \notin {"idle", "added"} /\ Goroutine(u)

FairSpec ==
    /\ Spec
    /\ \A u \in Consumers : WF_vars(Returns(u))
    /\ \A p \in Producers : WF_vars(Worker(p))

-----------------------------------------------------------------------------
(* Properties.                                                             *)

Left(u) == op[u].pc \in {"idle", "failed", "gone"}

Reads(u, t) == u \in kids[t]

AllLeft == \A u \in Consumers : Left(u)

Stopped(i) == state[Configured[i]] \in {"none", "external"}

(* No producer outlives its consumers: once every consumer has left or     *)
(* failed to join, whatever AddConsumer and RemoveConsumer skipped because *)
(* another consumer was pending, every producer is stopped, but for one    *)
(* whose reconnect met a consumer in the midst of joining or leaving and   *)
(* lost it. So it is where no source has a backchannel.                    *)
NoGhostProducer ==
    AllLeft => \A i \in DOMAIN Configured : Stopped(i) \/ lost[conn[Configured[i]]] # {}

(* With backchannels the same, but for a producer that holds the track of  *)
(* a consumer on which a reconnect, its own or that of another producer,   *)
(* has hung a connection: until the next reconnect stopProducers takes the *)
(* track for one that is in use.                                           *)
IdleProducersStop ==
    AllLeft => \A i \in DOMAIN Configured :
        \/ Stopped(i)
        \/ lost[conn[Configured[i]]] # {}
        \/ \E u \in senders[Configured[i]] : u \in hung

(* A consumer that left, or whose AddConsumer returned an error, hangs on  *)
(* no track but one to which a reconnect has carried it while it was       *)
(* joining or leaving, and only a connection that a reconnect has given    *)
(* its backchannel track, one a producer still holds, stays on that.       *)
NobodyLingers ==
    \A u \in Consumers : Left(u) =>
        /\ \A t \in Track : Reads(u, t) => u \in lost[t.conn]
        /\ \A c \in back[u] : \E p \in Producers : conn[p] = c /\ u \in senders[p]

(* AddConsumer and RemoveConsumer return: nobody waits for Stream.mu, or   *)
(* walks over the producers, for ever.                                     *)
EveryCallReturns ==
    \A u \in Consumers :
        (op[u].pc \notin {"idle", "added"}) ~> (op[u].pc \in {"added", "failed", "gone"})

(* "stop producers if they don't have readers" (add_consumer.go): the stop *)
(* of a producer never takes a track from a reader.                        *)
StopsOnlyIdle ==
    [][\A p \in Producers :
          state[p] \notin {"none", "external"} /\ state'[p] = "none" =>
              \A i \in DOMAIN receivers[p] : kids[receivers[p][i]] = {}]_vars

(* "stop producers if they don't have readers" (add_consumer.go): when     *)
(* every consumer has left, no producer runs.                              *)
NoReadersNoProducer == AllLeft => \A i \in DOMAIN Configured : Stopped(i)
=============================================================================
