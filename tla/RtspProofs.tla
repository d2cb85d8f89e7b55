----------------------------- MODULE RtspProofs ------------------------------
(***************************************************************************)
(* Proofs about Rtsp, for every set of medias, of clients and of calls.    *)
(*                                                                         *)
(* PlaysWhole of the client. The camera plays what it was asked to set up; *)
(* so while a call asks for one media after the other, every track of the  *)
(* connection is set up or is still to be (Restored), and an answer that   *)
(* is taken for a media is one for that media (Asking): the reader may     *)
(* have taken others, but a torn session is the only one that keeps what   *)
(* was given up. What plays, or was asked to, plays in the state play      *)
(* (Playing), whose tracks no call adds to.                                *)
(*                                                                         *)
(* NothingListed of the server. What is in the lists of a stream is of no  *)
(* program and has its closer (Listed): only the streams themselves stop   *)
(* the connections of programs.                                            *)
(*                                                                         *)
(* NoOrphan of the server. Calls of one path take each other's connection, *)
(* but a connection is handed over once: no two calls have it, so that     *)
(* Stop finds it as its call left it, and calls its OnClose, unless a      *)
(* TEARDOWN came before RECORD (Handed).                                   *)
(***************************************************************************)
EXTENDS Rtsp, SequenceTheorems, TLAPS

-----------------------------------------------------------------------------
(* The invariant of the client.                                            *)

Types ==
    /\ state \in {"none", "conn", "setup", "play"}
    /\ open \in BOOLEAN /\ plays \in BOOLEAN /\ torn \in BOOLEAN
    /\ call \in {"idle", "setup", "wait", "close", "dial", "describe", "described"}
    /\ receivers \in Seq(Medias) /\ senders \in Seq(Medias) /\ todo \in Seq(Medias)
    /\ wire \in Seq(Medias \cup Words) /\ answers \in Seq(Medias \cup Words)
    /\ set \subseteq Medias

Tracks == ToSet(receivers) \cup ToSet(senders)

(* Which connection and which state a call works with.                     *)
Calling ==
    /\ call # "idle" => state # "none" /\ todo # <<>>
    /\ call = "dial" => ~open
    /\ call \in {"describe", "described"} => state = "conn"
    /\ call \in {"setup", "wait"} => state \in {"conn", "setup"}
    /\ ~open => wire = <<>> /\ answers = <<>> /\ ~plays

Playing == plays \/ "play" \in ToSet(wire) => state = "play"

(* What is on the way is for the media that is waited for, and what the    *)
(* camera has answered is set up.                                          *)
Asking ==
    /\ ToSet(answers) \cap Medias \subseteq set
    /\ ~torn => (ToSet(wire) \cup ToSet(answers)) \cap Medias
                    \subseteq (IF call = "wait" THEN {Head(todo)} ELSE {})

Restored ==
    /\ state \in {"setup", "play"} /\ open /\ ~torn => Tracks \subseteq set
    /\ call \in {"setup", "wait"} /\ open /\ ~torn => Tracks \subseteq set \cup ToSet(todo)

ClientInv == Types /\ Calling /\ Playing /\ Asking /\ Restored

-----------------------------------------------------------------------------
(* The invariant of the server.                                            *)

ServerTypes ==
    /\ pc \in [Server!Clients -> {"none", "accept", "handle", "handed", "done"}]
    /\ sock \in [Server!Clients -> BOOLEAN]
    /\ closer \in [Server!Clients -> BOOLEAN] /\ listed \in [Server!Clients -> BOOLEAN]
    /\ waiter \in Calls \cup {"none"}
    /\ chan \in [Calls -> Calls \cup {"none"}] /\ prod \in [Calls -> Calls \cup {"none"}]
    /\ execCall \in [Calls -> {"idle", "wait", "failed", "got", "stopped"}]
    /\ asked \in [Server!Clients -> {"none", "offer", "setup", "go", "teardown"}]
    /\ connState \in [Server!Clients -> {"none", "setup", "play"}]
    /\ program \in [Calls -> {"none", "runs", "ended"}] /\ cancelled \in [Calls -> BOOLEAN]

Listed ==
    /\ \A c \in Server!Clients : listed[c] => c \in Others /\ closer[c]
    /\ \A x \in Calls : execCall[x] = "got" => prod[x] \in Calls

(* A connection asks for one thing after the other, and is handed over     *)
(* once: it waits in one channel, or is what one call has returned.        *)
Handed ==
    /\ \A c \in Server!Clients :
        /\ pc[c] = "none" => asked[c] = "none"
        /\ pc[c] = "accept" /\ asked[c] = "setup" => connState[c] = "setup"
    /\ \A x \in Calls : chan[x] # "none" =>
            pc[chan[x]] = "handed" /\ (connState[chan[x]] = "setup" \/ asked[chan[x]] = "teardown")
    /\ \A x \in Calls : execCall[x] = "got" =>
            pc[prod[x]] = "handed" /\ (connState[prod[x]] = "play" \/ asked[prod[x]] = "teardown")
    /\ \A x \in Calls : execCall[x] = "stopped" => prod[x] \in Calls /\ pc[prod[x]] \in {"handed", "done"}
    /\ \A x, y \in Calls : chan[x] # "none" /\ chan[x] = chan[y] => x = y
    /\ \A x, y \in Calls : chan[x] # "none" /\ execCall[y] = "got" => chan[x] # prod[y]
    /\ \A x, y \in Calls :
            execCall[x] = "got" /\ execCall[y] = "got" /\ prod[x] = prod[y] => x = y

ListsInv == ServerTypes /\ Listed /\ NothingListed

ServerInv == ListsInv /\ Handed /\ NoOrphan

IInv == ClientInv /\ ServerInv

-----------------------------------------------------------------------------
(* Sequences and what is in them.                                          *)

LEMMA ToSetOfSeq ==
    ASSUME NEW S, NEW q \in Seq(S)
    PROVE  ToSet(q) \subseteq S /\ (q = <<>> <=> ToSet(q) = {})
  <1>1. Len(q) \in Nat /\ DOMAIN q = 1..Len(q)
    BY LenProperties
  <1>2. \A i \in DOMAIN q : q[i] \in S
    BY <1>1, ElementOfSeq
  <1>3. q # <<>> => 1 \in DOMAIN q
    BY <1>1, EmptySeq
  <1>4. ToSet(q) \subseteq S
    BY <1>2 DEF ToSet
  <1>5. q # <<>> => q[1] \in ToSet(q)
    BY <1>3 DEF ToSet
  <1>6. q = <<>> => ToSet(q) = {}
    BY EmptySeq DEF ToSet
  <1>7. QED
    BY <1>4, <1>5, <1>6

LEMMA ToSetOfTail ==
    ASSUME NEW S, NEW q \in Seq(S), q # <<>>
    PROVE  /\ Tail(q) \in Seq(S) /\ Head(q) \in S
           /\ ToSet(q) = ToSet(Tail(q)) \cup {Head(q)}
           /\ Len(q) \in Nat \ {0} /\ Len(Tail(q)) = Len(q) - 1
  <1>1. Tail(q) \in Seq(S) /\ Len(Tail(q)) = Len(q) - 1 /\ Head(q) = q[1] /\ Len(q) \in Nat \ {0}
    BY EmptySeq, HeadTailProperties, LenProperties
  <1>2. \A i \in 1..(Len(q) - 1) : Tail(q)[i] = q[i + 1]
    BY HeadTailProperties, <1>1
  <1>3. DOMAIN Tail(q) = 1..(Len(q) - 1) /\ DOMAIN q = 1..Len(q)
    BY <1>1, LenProperties
  <1>4. ToSet(Tail(q)) \subseteq ToSet(q)
    <2>1. \A i \in DOMAIN Tail(q) : i + 1 \in DOMAIN q
      BY <1>1, <1>3
    <2>2. QED
      BY <1>2, <1>3, <2>1 DEF ToSet
  <1>5. 1 \in DOMAIN q
    BY <1>1, <1>3
  <1>6. Head(q) \in ToSet(q) /\ Head(q) \in S
    BY <1>1, <1>5, ElementOfSeq DEF ToSet
  <1>7. ToSet(q) \subseteq ToSet(Tail(q)) \cup {Head(q)}
    <2> SUFFICES ASSUME NEW i \in DOMAIN q, q[i] # Head(q) PROVE q[i] \in ToSet(Tail(q))
      BY DEF ToSet
    <2>1. i # 1 /\ i \in 1..Len(q)
      BY <1>1, <1>3
    <2>2. i - 1 \in 1..(Len(q) - 1) /\ (i - 1) + 1 = i
      BY <2>1, <1>1
    <2>3. Tail(q)[i - 1] = q[i]
      BY <2>2, <1>2
    <2>4. QED
      BY <2>2, <2>3, <1>3 DEF ToSet
  <1>8. QED
    BY <1>1, <1>4, <1>6, <1>7

LEMMA ToSetOfAppend ==
    ASSUME NEW S, NEW q \in Seq(S), NEW e \in S
    PROVE  Append(q, e) \in Seq(S) /\ ToSet(Append(q, e)) = ToSet(q) \cup {e}
  <1> DEFINE a == Append(q, e)
  <1>1. /\ a \in Seq(S) /\ Len(a) = Len(q) + 1 /\ Len(q) \in Nat
        /\ DOMAIN a = 1..(Len(q) + 1) /\ DOMAIN q = 1..Len(q)
        /\ a[Len(q) + 1] = e /\ \A i \in 1..Len(q) : a[i] = q[i]
    BY AppendProperties, LenProperties
  <1> HIDE DEF a
  <1>2. ToSet(a) \subseteq ToSet(q) \cup {e}
    <2>1. \A i \in DOMAIN a : i \in DOMAIN q \/ i = Len(q) + 1
      BY <1>1
    <2>2. QED
      BY <1>1, <2>1 DEF ToSet
  <1>3. ToSet(q) \subseteq ToSet(a)
    <2>1. DOMAIN q \subseteq DOMAIN a
      BY <1>1
    <2>2. QED
      BY <1>1, <2>1 DEF ToSet
  <1>4. e \in ToSet(a)
    <2>1. Len(q) + 1 \in DOMAIN a
      BY <1>1
    <2>2. QED
      BY <1>1, <2>1 DEF ToSet
  <1>5. QED
    BY <1>1, <1>2, <1>3, <1>4 DEF a

LEMMA ToSetOfConcat ==
    ASSUME NEW S, NEW q \in Seq(S), NEW r \in Seq(S)
    PROVE  q \o r \in Seq(S) /\ ToSet(q \o r) = ToSet(q) \cup ToSet(r)
  <1> DEFINE c == q \o r
  <1>1. /\ c \in Seq(S) /\ Len(c) = Len(q) + Len(r) /\ Len(q) \in Nat /\ Len(r) \in Nat
        /\ DOMAIN c = 1..(Len(q) + Len(r)) /\ DOMAIN q = 1..Len(q) /\ DOMAIN r = 1..Len(r)
        /\ \A i \in 1..(Len(q) + Len(r)) : c[i] = IF i <= Len(q) THEN q[i] ELSE r[i - Len(q)]
    BY ConcatProperties, LenProperties
  <1> HIDE DEF c
  <1>2. ToSet(c) \subseteq ToSet(q) \cup ToSet(r)
    <2> SUFFICES ASSUME NEW i \in DOMAIN c PROVE c[i] \in ToSet(q) \cup ToSet(r)
      BY DEF ToSet
    <2>1. CASE i <= Len(q)
      <3>1. i \in DOMAIN q /\ c[i] = q[i]
        BY <1>1, <2>1
      <3>2. QED
        BY <3>1 DEF ToSet
    <2>2. CASE ~(i <= Len(q))
      <3>1. i - Len(q) \in DOMAIN r /\ c[i] = r[i - Len(q)]
        BY <1>1, <2>2
      <3>2. QED
        BY <3>1 DEF ToSet
    <2>3. QED
      BY <2>1, <2>2
  <1>3. ToSet(q) \subseteq ToSet(c)
    <2>1. \A i \in DOMAIN q : i \in DOMAIN c /\ c[i] = q[i]
      BY <1>1
    <2>2. QED
      BY <2>1 DEF ToSet
  <1>4. ToSet(r) \subseteq ToSet(c)
    <2> SUFFICES ASSUME NEW i \in DOMAIN r PROVE r[i] \in ToSet(c)
      BY DEF ToSet
    <2>1. Len(q) + i \in DOMAIN c /\ ~(Len(q) + i <= Len(q)) /\ (Len(q) + i) - Len(q) = i
      BY <1>1
    <2>2. c[Len(q) + i] = r[i]
      BY <1>1, <2>1
    <2>3. QED
      BY <2>1, <2>2 DEF ToSet
  <1>5. QED
    BY <1>1, <1>2, <1>3, <1>4 DEF c

-----------------------------------------------------------------------------
(* Steps of the client.                                                    *)

LEMMA NothingIn == ToSet(<<>>) = {} /\ \A S : <<>> \in Seq(S)
  BY EmptySeq DEF ToSet

LEMMA ClientInitial == Init => ClientInv
  <1> SUFFICES ASSUME Init PROVE ClientInv
    OBVIOUS
  <1>1. Types
    BY NothingIn DEF Init, Types
  <1>2. Tracks = {} /\ ToSet(wire) = {} /\ ToSet(answers) = {}
    BY NothingIn DEF Init, Tracks
  <1>3. QED
    BY <1>1, <1>2 DEF Init, ClientInv, Calling, Playing, Asking, Restored

(* Whatever ends the session leaves nothing of it.                         *)
LEMMA SessionEnds ==
    ASSUME ClientInv, NoSession, open' = FALSE
    PROVE  /\ wire' \in Seq(Medias \cup Words) /\ answers' \in Seq(Medias \cup Words)
           /\ set' \subseteq Medias /\ plays' \in BOOLEAN /\ torn' \in BOOLEAN /\ open' \in BOOLEAN
           /\ Playing' /\ Asking' /\ Restored'
  BY NothingIn DEF NoSession, Playing, Asking, Restored

LEMMA SessionEndsStep ==
    ASSUME ClientInv, CloseOld \/ Stop \/ HangUp
    PROVE  ClientInv'
  <1> USE DEF ClientInv, tracks, calling, starting
  <1>1. NoSession /\ open' = FALSE /\ receivers' = receivers /\ senders' = senders /\ todo' = todo
    BY DEF CloseOld, Stop, HangUp
  <1>2. Types'
    <2>1. call' \in {"idle", "setup", "wait", "close", "dial", "describe", "described"}
      BY DEF CloseOld, Stop, HangUp, Types
    <2>2. state' \in {"none", "conn", "setup", "play"}
      BY DEF CloseOld, Stop, HangUp, Types
    <2>3. QED
      BY <1>1, <2>1, <2>2, SessionEnds DEF Types
  <1>3. Calling'
    BY <1>1 DEF CloseOld, Stop, HangUp, Calling, NoSession
  <1>4. QED
    BY <1>1, <1>2, <1>3, SessionEnds

(* A call gives up, or begins again without the backchannel. When an       *)
(* answer may still come, the session is torn.                             *)
LEMMA GivesUp ==
    ASSUME ClientInv, call # "idle", Fails \/ (call \in {"setup", "wait"} /\ SetupFails),
           UNCHANGED <<open, wire, set, plays>>,
           torn' \in BOOLEAN, torn => torn',
           answers' \in Seq(Medias \cup Words), ToSet(answers') \subseteq ToSet(answers),
           answers = <<>> => answers' = <<>>,
           call = "wait" /\ ~torn' => (ToSet(wire) \cup ToSet(answers')) \cap Medias = {}
    PROVE  ClientInv'
  <1> USE DEF ClientInv
  <1>1. /\ UNCHANGED <<state, receivers, senders>>
        /\ \/ call' = "idle" /\ todo' = <<>>
           \/ call' = "close" /\ todo' = todo
    BY DEF Fails, SetupFails
  <1>2. Types'
    BY <1>1, NothingIn DEF Types
  <1>3. Calling'
    BY <1>1 DEF Calling, Types
  <1>4. Playing'
    BY <1>1 DEF Playing
  <1>5. Asking'
    BY <1>1 DEF Asking, Types
  <1>6. Restored'
    BY <1>1 DEF Restored, Tracks, Types
  <1>7. QED
    BY <1>2, <1>3, <1>4, <1>5, <1>6

LEMMA CalledStep ==
    ASSUME ClientInv, Called
    PROVE  ClientInv'
  <1> USE DEF ClientInv
  <1>1. PICK m \in Medias : m \notin ToSet(receivers) \cup ToSet(senders) /\ todo' = <<m>>
    BY DEF Called
  <1>2. UNCHANGED <<state, open, receivers, senders, wire, answers, set, plays>>
    BY DEF Called, tracks
  <1>3. /\ call = "idle" /\ state # "none" /\ call' \in {"close", "setup"}
        /\ call' = "setup" => state # "play"
    BY DEF Called
  <1>4. torn' \in BOOLEAN /\ (torn => torn') /\ (~torn' /\ state = "conn" => receivers \o senders = <<>>)
    BY DEF Called, Types
  <1>5. todo' \in Seq(Medias) /\ todo' # <<>>
    BY <1>1
  <1>6. Types' /\ Calling' /\ Playing'
    <2>1. Types'
      BY <1>2, <1>3, <1>4, <1>5 DEF Types
    <2>2. Calling'
      BY <1>2, <1>3, <1>5 DEF Calling, Types
    <2>3. Playing'
      BY <1>2 DEF Playing
    <2>4. QED
      BY <2>1, <2>2, <2>3
  <1>7. Asking'
    BY <1>2, <1>3, <1>4 DEF Asking, Types
  <1>8. Restored'
    <2>1. state = "conn" /\ ~torn' => Tracks = {}
      BY <1>4, ToSetOfConcat, NothingIn DEF Types, Tracks
    <2>2. Tracks' = Tracks
      BY <1>2 DEF Tracks
    <2>3. QED
      BY <1>2, <1>3, <1>4, <2>1, <2>2 DEF Restored, Types
  <1>9. QED
    BY <1>6, <1>7, <1>8

LEMMA DialStep ==
    ASSUME ClientInv, Dial
    PROVE  ClientInv'
  <1> USE DEF ClientInv
  <1>1. UNCHANGED <<receivers, senders, wire, answers, set, plays, torn>>
    BY DEF Dial, Fails, tracks, session
  <1>2. call = "dial" /\ ~open /\ wire = <<>> /\ answers = <<>> /\ ~plays
    BY DEF Dial, Calling
  <1>3. CASE Fails /\ UNCHANGED open
    BY <1>1, <1>2, <1>3, GivesUp DEF Types
  <1>4. CASE open' = TRUE /\ state' = "conn" /\ call' = "describe" /\ todo' = todo
    <2>1. Types'
      BY <1>1, <1>4 DEF Types
    <2>2. Calling'
      BY <1>1, <1>2, <1>4 DEF Calling
    <2>3. Playing' /\ Asking' /\ Restored'
      BY <1>1, <1>2, <1>4, NothingIn DEF Playing, Asking, Restored
    <2>4. QED
      BY <2>1, <2>2, <2>3
  <1>5. QED
    BY <1>3, <1>4 DEF Dial

(* A request that is for no media is written.                              *)
LEMMA Writes ==
    ASSUME ClientInv, open, NEW word \in Words, wire' = Append(wire, word),
           word = "play" => state' = "play",
           state' = state \/ (state = "setup" /\ state' = "play" /\ call = "idle"),
           call' = call \/ (call = "describe" /\ call' = "described"),
           UNCHANGED <<open, receivers, senders, todo, answers, set, plays, torn>>
    PROVE  ClientInv'
  <1> USE DEF ClientInv
  <1>1. wire' \in Seq(Medias \cup Words) /\ ToSet(wire') = ToSet(wire) \cup {word}
    <2>1. wire \in Seq(Medias \cup Words) /\ word \in Medias \cup Words /\ wire' = Append(wire, word)
      BY DEF Types
    <2>2. QED
      BY <2>1, ToSetOfAppend
  <1>2. word \notin Medias
    BY MediasAssumption
  <1>3. Types'
    BY <1>1 DEF Types
  <1>4. Calling'
    BY <1>1 DEF Calling
  <1>5. Playing'
    BY <1>1 DEF Playing
  <1>6. Asking'
    BY <1>1, <1>2 DEF Asking
  <1>7. Restored'
    BY DEF Restored, Tracks
  <1>8. QED
    BY <1>3, <1>4, <1>5, <1>6, <1>7

LEMMA DescribeStep ==
    ASSUME ClientInv, Describe
    PROVE  ClientInv'
  <1>1. CASE open
    BY <1>1, Writes DEF Describe, tracks, Words
  <1>2. CASE ~open
    BY <1>2, GivesUp DEF Describe, ClientInv, Types
  <1>3. QED
    BY <1>1, <1>2

LEMMA SetupStep ==
    ASSUME ClientInv, Setup
    PROVE  ClientInv'
  <1> USE DEF ClientInv
  <1> DEFINE m == Head(todo)
  <1>1. call = "setup" /\ UNCHANGED <<open, answers, set, plays, torn>>
    BY DEF Setup
  <1>2. CASE (Fails \/ SetupFails) /\ UNCHANGED wire
    BY <1>1, <1>2, GivesUp DEF Types
  <1>3. CASE /\ open /\ wire' = Append(wire, m) /\ call' = "wait"
             /\ UNCHANGED <<state, tracks, todo>>
    <2>1. m \in Medias
      BY <1>1, ToSetOfTail DEF Types, Calling
    <2>2. wire' \in Seq(Medias \cup Words) /\ ToSet(wire') = ToSet(wire) \cup {m}
      <3>1. wire \in Seq(Medias \cup Words) /\ m \in Medias \cup Words
        BY <2>1 DEF Types
      <3>2. QED
        BY <1>3, <3>1, ToSetOfAppend
    <2>3. m # "play"
      BY <2>1, MediasAssumption DEF Words
    <2>4. Types'
      BY <1>1, <1>3, <2>2 DEF Types, tracks
    <2>5. Calling'
      BY <1>1, <1>3, <2>2 DEF Calling
    <2>6. Playing'
      BY <1>1, <1>3, <2>2, <2>3 DEF Playing
    <2>7. Asking'
      BY <1>1, <1>3, <2>2 DEF Asking
    <2>8. Restored'
      BY <1>1, <1>3 DEF Restored, Tracks, tracks
    <2>9. QED
      BY <2>4, <2>5, <2>6, <2>7, <2>8
  <1>4. QED
    BY <1>2, <1>3 DEF Setup

LEMMA NotAnsweredStep ==
    ASSUME ClientInv, NotAnswered
    PROVE  ClientInv'
  <1>1. /\ call # "idle" /\ (Fails \/ (call \in {"setup", "wait"} /\ SetupFails))
        /\ UNCHANGED <<open, wire, answers, set, plays>>
    BY DEF NotAnswered
  <1>2. torn' \in BOOLEAN /\ (torn => torn') /\ (~torn' => wire = <<>> /\ answers = <<>>)
    BY DEF NotAnswered, ClientInv, Types
  <1>3. QED
    BY <1>1, <1>2, GivesUp, NothingIn DEF ClientInv, Types

(* What Do takes may be an answer that somebody else has asked for. When   *)
(* nothing is left behind it, and it is for a media, it is for the one     *)
(* that is waited for: that one is set up now.                             *)
LEMMA AnsweredStep ==
    ASSUME ClientInv, Answered
    PROVE  ClientInv'
  <1> USE DEF ClientInv
  <1> DEFINE a == Head(answers)
             m == Head(todo)
  <1>1. /\ answers # <<>> /\ answers' = Tail(answers) /\ UNCHANGED <<open, wire, set, plays>>
        /\ call \in {"described", "wait"}
        /\ torn' = (torn \/ wire # <<>> \/ Len(answers) > 1)
    BY DEF Answered
  <1>2. /\ answers' \in Seq(Medias \cup Words) /\ ToSet(answers) = ToSet(answers') \cup {a}
        /\ Len(answers) \in Nat \ {0} /\ Len(answers') = Len(answers) - 1
    BY <1>1, ToSetOfTail DEF Types
  <1>3. torn' \in BOOLEAN /\ (torn => torn') /\ (~torn' => wire = <<>> /\ answers' = <<>>)
    <2>1. ~torn' => ~torn /\ wire = <<>> /\ ~(Len(answers) > 1)
      BY <1>1
    <2>2. ASSUME ~(Len(answers) > 1) PROVE answers' = <<>>
      <3>1. Len(answers) = 1
        BY <1>2, <2>2
      <3>2. Len(answers') = 0
        BY <1>2, <3>1
      <3>3. QED
        BY <1>2, <3>2, EmptySeq
    <2>3. torn' \in BOOLEAN
      BY <1>1 DEF Types
    <2>4. QED
      BY <2>1, <2>2, <2>3
  <1>4. ~torn' => ToSet(wire) = {} /\ ToSet(answers') = {}
    BY <1>3, NothingIn
  <1>5. CASE Fails \/ (call = "wait" /\ SetupFails)
    BY <1>1, <1>2, <1>3, <1>4, <1>5, GivesUp
  <1>6. CASE /\ call = "described" /\ call' = "setup" /\ todo' = Restore \o todo
             /\ UNCHANGED <<state, receivers, senders>>
    <2>1. Restore \in Seq(Medias) /\ ToSet(Restore) = Tracks
      BY ToSetOfConcat DEF Types, Restore, Tracks
    <2>2. todo' \in Seq(Medias) /\ ToSet(todo') = Tracks \cup ToSet(todo) /\ todo' # <<>>
      <3>1. todo' \in Seq(Medias) /\ ToSet(todo') = Tracks \cup ToSet(todo)
        BY <1>6, <2>1, ToSetOfConcat DEF Types
      <3>2. ToSet(todo) # {}
        BY <1>6, ToSetOfSeq DEF Types, Calling
      <3>3. QED
        BY <3>1, <3>2, NothingIn
    <2>3. Types'
      BY <1>1, <1>2, <1>3, <1>6, <2>2 DEF Types
    <2>4. Calling'
      BY <1>1, <1>2, <1>6, <2>2, EmptySeq DEF Calling
    <2>5. Playing' /\ Asking'
      BY <1>1, <1>2, <1>3, <1>4, <1>6 DEF Playing, Asking
    <2>6. Restored'
      BY <1>1, <1>3, <1>6, <2>2 DEF Restored, Tracks, Calling
    <2>7. QED
      BY <2>3, <2>4, <2>5, <2>6
  <1>7. CASE call = "wait" /\ a \in Medias /\ Len(todo) = 1 /\ Succeeds
    <2>1. /\ todo \in Seq(Medias) /\ todo # <<>> /\ m \in Medias /\ ToSet(todo) = {m}
      <3>1. todo \in Seq(Medias) /\ todo # <<>>
        BY <1>7 DEF Types, Calling
      <3>2. Len(Tail(todo)) = 0 /\ m \in Medias /\ Tail(todo) \in Seq(Medias)
            /\ ToSet(todo) = ToSet(Tail(todo)) \cup {m}
        BY <3>1, <1>7, ToSetOfTail
      <3>3. Tail(todo) = <<>>
        BY <3>2, EmptySeq
      <3>4. QED
        BY <3>1, <3>2, <3>3, NothingIn
    <2>2. ~torn' => a = m /\ m \in set
      BY <1>1, <1>2, <1>3, <1>7 DEF Asking
    <2>3. /\ state' = "setup" /\ call' = "idle" /\ todo' = <<>>
          /\ receivers' \in Seq(Medias) /\ senders' \in Seq(Medias) /\ Tracks' = Tracks \cup {m}
      <3>1. CASE m \in Recv
        <4>1. receivers' = Append(receivers, m) /\ senders' = senders
          BY <1>7, <3>1 DEF Succeeds
        <4>2. receivers' \in Seq(Medias) /\ ToSet(receivers') = ToSet(receivers) \cup {m}
          BY <4>1, <2>1, ToSetOfAppend DEF Types
        <4>3. QED
          BY <1>7, <4>1, <4>2 DEF Succeeds, Tracks, Types
      <3>2. CASE m \notin Recv
        <4>1. senders' = Append(senders, m) /\ receivers' = receivers
          BY <1>7, <3>2 DEF Succeeds
        <4>2. senders' \in Seq(Medias) /\ ToSet(senders') = ToSet(senders) \cup {m}
          BY <4>1, <2>1, ToSetOfAppend DEF Types
        <4>3. QED
          BY <1>7, <4>1, <4>2 DEF Succeeds, Tracks, Types
      <3>3. QED
        BY <3>1, <3>2
    <2>4. Types'
      BY <1>1, <1>2, <1>3, <2>3, NothingIn DEF Types
    <2>5. open /\ ~plays /\ "play" \notin ToSet(wire)
      BY <1>1, <1>7 DEF Calling, Playing
    <2>6. Calling'
      BY <1>1, <2>3, <2>5 DEF Calling
    <2>7. Playing'
      BY <1>1, <2>5 DEF Playing
    <2>8. Asking'
      BY <1>1, <1>2, <1>4, <1>3 DEF Asking
    <2>9. Restored'
      BY <1>1, <1>3, <1>7, <2>1, <2>2, <2>3, <2>5 DEF Restored
    <2>10. QED
      BY <2>4, <2>6, <2>7, <2>8, <2>9
  <1>8. CASE /\ call = "wait" /\ a \in Medias /\ Len(todo) > 1
             /\ call' = "setup" /\ todo' = Tail(todo) /\ UNCHANGED <<state, tracks>>
    <2>1. todo \in Seq(Medias) /\ todo # <<>>
      BY <1>8 DEF Types, Calling
    <2>2. /\ todo' \in Seq(Medias) /\ ToSet(todo) = ToSet(todo') \cup {m} /\ todo' # <<>>
      <3>1. /\ todo' \in Seq(Medias) /\ ToSet(todo) = ToSet(todo') \cup {m}
            /\ Len(todo') = Len(todo) - 1 /\ Len(todo) \in Nat
        BY <2>1, <1>8, ToSetOfTail
      <3>2. Len(todo') # 0
        <4>1. Len(todo) > 1
          BY <1>8
        <4>2. QED
          BY <3>1, <4>1
      <3>3. QED
        BY <3>1, <3>2, EmptySeq
    <2>3. ~torn' => a = m /\ m \in set
      BY <1>1, <1>2, <1>3, <1>8 DEF Asking
    <2>4. Types'
      BY <1>1, <1>2, <1>3, <1>8, <2>2 DEF Types, tracks
    <2>5. Calling'
      BY <1>1, <1>2, <1>8, <2>2 DEF Calling
    <2>6. Playing' /\ Asking'
      BY <1>1, <1>2, <1>3, <1>4, <1>8 DEF Playing, Asking
    <2>7. Restored'
      BY <1>1, <1>3, <1>8, <2>2, <2>3 DEF Restored, Tracks, tracks
    <2>8. QED
      BY <2>4, <2>5, <2>6, <2>7
  <1>9. CASE call = "described"
    BY <1>5, <1>6, <1>9 DEF Answered, Described
  <1>10. CASE call = "wait"
    BY <1>5, <1>7, <1>8, <1>10 DEF Answered, SetUp
  <1>11. QED
    BY <1>1, <1>9, <1>10

(* What the invariant speaks of does not change.                           *)
LEMMA ClientUnmoved ==
    ASSUME ClientInv, UNCHANGED <<state, open, receivers, senders, call, todo, session>>
    PROVE  ClientInv'
  BY DEF ClientInv, Types, Calling, Playing, Asking, Restored, Tracks, session

LEMMA StartStep ==
    ASSUME ClientInv, Start \/ Keepalive
    PROVE  ClientInv'
  <1>1. CASE StartBegins \/ HandleLoop \/ ReadError
    BY <1>1, ClientUnmoved DEF StartBegins, HandleLoop, ReadError, tracks, calling
  <1>2. CASE Top
    <2>1. CASE state = "setup" /\ open
      BY <1>2, <2>1, Writes DEF Top, tracks, calling, Words
    <2>2. CASE ~(state = "setup" /\ open)
      BY <1>2, <2>2, ClientUnmoved DEF Top, tracks, calling, session
    <2>3. QED
      BY <2>1, <2>2
  <1>3. CASE Keepalive
    BY <1>3, Writes DEF Keepalive, tracks, calling, Words
  <1>4. CASE ReadPacket
    <2>1. UNCHANGED <<state, open, receivers, senders, call, todo, wire, set, plays, torn>>
      BY <1>4 DEF ReadPacket, tracks, calling
    <2>2. CASE answers' = answers
      BY <2>1, <2>2, ClientUnmoved DEF session
    <2>3. CASE open /\ answers # <<>> /\ answers' = Tail(answers)
      <3>1. answers' \in Seq(Medias \cup Words) /\ ToSet(answers') \subseteq ToSet(answers)
        BY <2>3, ToSetOfTail DEF ClientInv, Types
      <3>2. Types' /\ Calling' /\ Playing'
        BY <2>1, <2>3, <3>1 DEF ClientInv, Types, Calling, Playing
      <3>3. Asking' /\ Restored'
        BY <2>1, <3>1 DEF ClientInv, Asking, Restored, Tracks
      <3>4. QED
        BY <3>2, <3>3 DEF ClientInv
    <2>4. QED
      BY <1>4, <2>2, <2>3 DEF ReadPacket
  <1>5. QED
    BY <1>1, <1>2, <1>3, <1>4 DEF Start

LEMMA CameraStep ==
    ASSUME ClientInv, CameraAnswers
    PROVE  ClientInv'
  <1> USE DEF ClientInv
  <1> DEFINE w == Head(wire)
  <1>1. /\ wire # <<>> /\ wire' = Tail(wire)
        /\ UNCHANGED <<state, open, receivers, senders, call, todo, torn>>
    BY DEF CameraAnswers, tracks, calling
  <1>2. /\ wire' \in Seq(Medias \cup Words) /\ w \in Medias \cup Words
        /\ ToSet(wire) = ToSet(wire') \cup {w} /\ open
    BY <1>1, ToSetOfTail DEF Types, Calling
  <1>3. PICK a \in {w, "bad"} :
            /\ answers' = Append(answers, a)
            /\ set \subseteq set' /\ set' \subseteq Medias /\ (a \in Medias => a \in set')
            /\ plays' \in BOOLEAN /\ (plays' => plays \/ w = "play")
    <2>1. CASE /\ answers' = Append(answers, w) /\ set' = set \cup ({w} \cap Medias)
               /\ plays' = (plays \/ w = "play")
      BY <2>1 DEF Types
    <2>2. CASE answers' = Append(answers, "bad") /\ UNCHANGED <<set, plays>>
      BY <2>2, MediasAssumption DEF Types, Words
    <2>3. QED
      BY <2>1, <2>2 DEF CameraAnswers
  <1>4. a \in Medias \cup Words /\ (a \in Medias => a = w)
    BY <1>2, <1>3, MediasAssumption DEF Words
  <1>5. answers' \in Seq(Medias \cup Words) /\ ToSet(answers') = ToSet(answers) \cup {a}
    BY <1>3, <1>4, ToSetOfAppend DEF Types
  <1>6. Types'
    BY <1>1, <1>2, <1>3, <1>5 DEF Types
  <1>7. Calling'
    BY <1>1, <1>2 DEF Calling
  <1>8. Playing'
    BY <1>1, <1>2, <1>3 DEF Playing
  <1>9. Asking'
    BY <1>1, <1>2, <1>3, <1>4, <1>5 DEF Asking
  <1>10. Restored'
    BY <1>1, <1>3 DEF Restored, Tracks
  <1>11. QED
    BY <1>6, <1>7, <1>8, <1>9, <1>10

LEMMA ClientStep ==
    ASSUME ClientInv, Next
    PROVE  ClientInv'
  <1>1. CASE Called
    BY <1>1, CalledStep
  <1>2. CASE Call
    BY <1>2, SessionEndsStep, DialStep, DescribeStep, SetupStep, AnsweredStep, NotAnsweredStep DEF Call
  <1>3. CASE Stop \/ HangUp
    BY <1>3, SessionEndsStep
  <1>4. CASE Start \/ Keepalive
    BY <1>4, StartStep
  <1>5. CASE CameraAnswers
    BY <1>5, CameraStep
  <1>6. QED
    BY <1>1, <1>2, <1>3, <1>4, <1>5 DEF Next

-----------------------------------------------------------------------------
(* Steps of the server.                                                    *)

LEMMA ServerInitial == Server!Init => ServerInv
  <1> SUFFICES ASSUME Server!Init PROVE ServerInv
    OBVIOUS
  <1> USE DEF Server!Init, Server!None
  <1>1. ServerTypes /\ Listed /\ NothingListed
    BY DEF ServerTypes, Listed, NothingListed, Server!NothingListed
  <1>2. Handed /\ NoOrphan
    BY DEF Handed, NoOrphan, Server!NoOrphan, Server!Over
  <1>3. QED
    BY <1>1, <1>2 DEF ServerInv, ListsInv

(* What the steps of connections and of calls are typed by.                *)
LEMMA ConnTypes ==
    ASSUME ServerTypes, NEW c \in Server!Clients, Server!Conn(c)
    PROVE  /\ chan' \in [Calls -> Calls \cup {"none"}]
           /\ asked' \in [Server!Clients -> {"none", "offer", "setup", "go", "teardown"}]
           /\ connState' \in [Server!Clients -> {"none", "setup", "play"}]
           /\ UNCHANGED <<waiter, execCall, prod, program, cancelled>>
           /\ asked' # asked => pc[c] = "accept" /\ asked' = [asked EXCEPT ![c] = asked'[c]]
  BY DEF Server!Conn, Server!Connect, Server!Announce, Server!Describe, Server!Setup, Server!Go,
         Server!HandedOver, Server!Takes, Server!Teardown, Server!Ends, Server!HangUp, Server!Asks, Server!Leaves, Server!execs,
         Server!None, ServerTypes

LEMMA ExecTypes ==
    ASSUME ServerTypes, NEW x \in Calls, Server!Exec(x)
    PROVE  /\ waiter' \in Calls \cup {"none"} /\ chan' \in [Calls -> Calls \cup {"none"}]
           /\ prod' \in [Calls -> Calls \cup {"none"}]
           /\ execCall' \in [Calls -> {"idle", "wait", "failed", "got", "stopped"}]
           /\ connState' \in [Server!Clients -> {"none", "setup", "play"}]
           /\ program' \in [Calls -> {"none", "runs", "ended"}]
           /\ cancelled' \in [Calls -> BOOLEAN]
           /\ UNCHANGED <<asked, listed, closer>>
  <1> USE DEF Server!Exec, Server!Begin, Server!Fails, Server!Gets, Server!Stop, Server!ProgramEnds,
              Server!Returns, Server!None, ServerTypes
  <1>1. /\ waiter' \in Calls \cup {"none"} /\ chan' \in [Calls -> Calls \cup {"none"}]
        /\ prod' \in [Calls -> Calls \cup {"none"}]
        /\ execCall' \in [Calls -> {"idle", "wait", "failed", "got", "stopped"}]
    OBVIOUS
  <1>2. connState' \in [Server!Clients -> {"none", "setup", "play"}]
    <2>1. \A c \in Server!Clients : Server!Started(c) \in {"none", "setup", "play"}
      BY DEF Server!Started
    <2>2. CASE Server!Gets(x)
      <3>1. chan[x] \in Server!Clients /\ connState' = [connState EXCEPT ![chan[x]] = Server!Started(chan[x])]
        BY <2>2 DEF Server!Clients
      <3>2. QED
        BY <2>1, <3>1
    <2>3. CASE ~Server!Gets(x)
      BY <2>3 DEF Server!conns
    <2>4. QED
      BY <2>2, <2>3
  <1>3. program' \in [Calls -> {"none", "runs", "ended"}]
    OBVIOUS
  <1>4. cancelled' \in [Calls -> BOOLEAN]
    BY DEF Server!OnClose
  <1>5. UNCHANGED <<asked, listed, closer>>
    BY DEF Server!conns
  <1>6. QED
    BY <1>1, <1>2, <1>3, <1>4, <1>5

(* A connection: what it becomes the closer of, it is listed for; and when *)
(* it ends its closer is called.                                           *)
LEMMA ConnLists ==
    ASSUME ListsInv, NEW c \in Server!Clients, Server!Conn(c)
    PROVE  ListsInv'
  <1> USE DEF ListsInv
  <1>1. UNCHANGED <<waiter, execCall, prod, program, cancelled>>
    BY ConnTypes
  <1>2. /\ chan' \in [Calls -> Calls \cup {"none"}]
        /\ asked' \in [Server!Clients -> {"none", "offer", "setup", "go", "teardown"}]
        /\ connState' \in [Server!Clients -> {"none", "setup", "play"}]
    BY ConnTypes
  <1>3. CASE Server!Connect(c)
    BY <1>1, <1>2, <1>3 DEF Server!Connect, ServerTypes, Listed, NothingListed, Server!NothingListed
  <1>4. CASE Server!Announce(c)
    BY <1>1, <1>2, <1>4 DEF Server!Announce, Server!Asks, ServerTypes, Listed, NothingListed, Server!NothingListed
  <1>5. CASE Server!Describe(c)
    BY <1>1, <1>2, <1>5 DEF Server!Describe, Server!Asks, ServerTypes, Listed, NothingListed, Server!NothingListed
  <1>6. CASE Server!Setup(c) \/ Server!HangUp(c)
    BY <1>1, <1>2, <1>6 DEF Server!Setup, Server!HangUp, ServerTypes, Listed, NothingListed, Server!NothingListed
  <1>7. CASE Server!Leaves(c) /\ closer' = closer
    <2>1. /\ listed' = [listed EXCEPT ![c] = listed[c] /\ ~closer[c]]
          /\ sock' = [sock EXCEPT ![c] = FALSE] /\ pc' = [pc EXCEPT ![c] = "done"]
      BY <1>7 DEF Server!Leaves
    <2>2. (listed[c] /\ ~closer[c]) \in BOOLEAN
      BY DEF ServerTypes
    <2>3. ServerTypes'
      BY <1>1, <1>2, <1>7, <2>1, <2>2 DEF ServerTypes
    <2>4. Listed' /\ NothingListed'
      BY <1>1, <1>7, <2>1 DEF ServerTypes, Listed, NothingListed, Server!NothingListed
    <2>5. QED
      BY <2>3, <2>4
  <1>8. CASE Server!Go(c)
    <2>1. CASE pc' \in {[pc EXCEPT ![c] = "handed"], [pc EXCEPT ![c] = "handle"]}
               /\ UNCHANGED <<listed, sock, closer>>
      BY <1>1, <1>2, <2>1 DEF ServerTypes, Listed, NothingListed, Server!NothingListed
    <2>2. QED
      BY <1>7, <1>8, <2>1 DEF Server!Go, Server!HandedOver
  <1>9. CASE Server!Teardown(c)
    <2>1. CASE pc' = [pc EXCEPT ![c] = "handed"] /\ sock' = [sock EXCEPT ![c] = FALSE]
               /\ UNCHANGED <<listed, closer>>
      BY <1>1, <1>2, <2>1 DEF ServerTypes, Listed, NothingListed, Server!NothingListed
    <2>2. QED
      BY <1>7, <1>9, <2>1 DEF Server!Teardown, Server!HandedOver
  <1>11. CASE Server!Ends(c)
    BY <1>7, <1>11 DEF Server!Ends
  <1>10. QED
    BY <1>3, <1>4, <1>5, <1>6, <1>8, <1>9, <1>11 DEF Server!Conn

LEMMA ExecLists ==
    ASSUME ListsInv, NEW x \in Calls, Server!Exec(x)
    PROVE  ListsInv'
  <1> USE DEF ListsInv
  <1>1. UNCHANGED <<asked, listed, closer>>
    BY ExecTypes
  <1>2. /\ waiter' \in Calls \cup {"none"} /\ chan' \in [Calls -> Calls \cup {"none"}]
        /\ prod' \in [Calls -> Calls \cup {"none"}]
        /\ execCall' \in [Calls -> {"idle", "wait", "failed", "got", "stopped"}]
        /\ connState' \in [Server!Clients -> {"none", "setup", "play"}]
        /\ program' \in [Calls -> {"none", "runs", "ended"}]
        /\ cancelled' \in [Calls -> BOOLEAN]
    BY ExecTypes
  <1>3. \A y \in Calls : execCall'[y] = "got" => prod'[y] \in Calls
    BY DEF Server!Exec, Server!Begin, Server!Fails, Server!Gets, Server!Stop, Server!ProgramEnds,
           Server!Returns, Server!None, ServerTypes, Listed
  <1>4. CASE UNCHANGED <<pc, sock>>
    BY <1>1, <1>2, <1>3, <1>4 DEF ServerTypes, Listed, NothingListed, Server!NothingListed
  <1>5. CASE Server!Stop(x) /\ ~UNCHANGED <<pc, sock>>
    <2>1. /\ sock' = [sock EXCEPT ![prod[x]] = FALSE] /\ pc' = [pc EXCEPT ![prod[x]] = "done"]
          /\ execCall[x] = "got"
      BY <1>5 DEF Server!Stop
    <2>2. prod[x] \in Calls /\ prod[x] \in Server!Clients /\ ~listed[prod[x]]
      BY <2>1, ServerAssumption DEF Listed, Server!Clients
    <2>3. QED
      BY <1>1, <1>2, <1>3, <2>1, <2>2 DEF ServerTypes, Listed, NothingListed, Server!NothingListed
  <1>6. QED
    BY <1>4, <1>5 DEF Server!Exec, Server!Begin, Server!Fails, Server!Gets, Server!ProgramEnds, Server!conns

(* A connection is in no channel, and of no call, before it is handed      *)
(* over, and takes no step of its own after.                               *)
LEMMA ConnHanded ==
    ASSUME ServerInv, NEW c \in Server!Clients, Server!Conn(c)
    PROVE  Handed' /\ NoOrphan'
  <1> USE DEF ServerInv, ListsInv
  <1>1. UNCHANGED <<waiter, execCall, prod, program, cancelled>>
    BY ConnTypes
  <1>2. NoOrphan'
    <2>1. ASSUME NEW x \in Calls, execCall[x] = "stopped" PROVE asked'[prod[x]] = asked[prod[x]]
      <3>1. prod[x] \in Server!Clients /\ pc[prod[x]] # "accept"
        BY <2>1 DEF Handed, Server!Clients
      <3>2. QED
        BY <3>1, ConnTypes DEF ServerTypes
    <2>2. QED
      BY <1>1, <2>1 DEF NoOrphan, Server!NoOrphan, Server!Over, Server!TornDown
  <1>3. CASE pc[c] # "handed" /\ chan' = chan
    <2>1. /\ \A d \in Server!Clients \ {c} :
                pc'[d] = pc[d] /\ asked'[d] = asked[d] /\ connState'[d] = connState[d]
          /\ pc'[c] = "none" => asked'[c] = "none"
          /\ pc'[c] = "accept" /\ asked'[c] = "setup" => connState'[c] = "setup"
          /\ pc[c] = "done" => pc'[c] = "done"
      BY <1>3 DEF Server!Conn, Server!Connect, Server!Announce, Server!Describe, Server!Setup,
             Server!Go, Server!Teardown, Server!HandedOver, Server!Takes, Server!Ends, Server!HangUp,
             Server!Asks, Server!Leaves, Server!execs, Server!None, ServerTypes, Handed
    <2>2. /\ \A x \in Calls : chan[x] # "none" => chan[x] \in Server!Clients \ {c}
          /\ \A x \in Calls : execCall[x] = "got" => prod[x] \in Server!Clients \ {c}
          /\ \A x \in Calls : execCall[x] = "stopped" => prod[x] \in Server!Clients
      BY <1>3 DEF Handed, Listed, ServerTypes, Server!Clients
    <2>3. QED
      BY <1>1, <1>2, <1>3, <2>1, <2>2 DEF Handed
  <1>4. CASE chan' # chan
    <2>1. /\ waiter \in Calls /\ chan[waiter] = "none" /\ c \in Calls
          /\ chan' = [chan EXCEPT ![waiter] = c]
          /\ pc[c] = "accept" /\ pc' = [pc EXCEPT ![c] = "handed"]
          /\ \/ asked[c] = "setup" /\ asked' = [asked EXCEPT ![c] = "go"] /\ connState' = connState
             \/ /\ asked' = [asked EXCEPT ![c] = "teardown"]
                /\ connState' = [connState EXCEPT ![c] = "none"]
      BY <1>4 DEF Server!Conn, Server!Connect, Server!Announce, Server!Describe, Server!Setup,
             Server!Go, Server!Teardown, Server!HandedOver, Server!Takes, Server!Ends, Server!HangUp,
             Server!Asks, Server!Leaves, Server!execs, Server!None, ServerTypes
    <2>2. /\ connState'[c] = "setup" \/ asked'[c] = "teardown"
          /\ \A d \in Server!Clients \ {c} :
                pc'[d] = pc[d] /\ asked'[d] = asked[d] /\ connState'[d] = connState[d]
      BY <2>1 DEF Handed, ServerTypes
    <2>3. /\ \A x \in Calls : chan[x] # "none" => chan[x] # c
          /\ \A x \in Calls : execCall[x] \in {"got", "stopped"} => prod[x] # c
      BY <2>1 DEF Handed
    <2>4. \A d \in Server!Clients :
            /\ pc'[d] = "none" => asked'[d] = "none"
            /\ pc'[d] = "accept" /\ asked'[d] = "setup" => connState'[d] = "setup"
      BY <2>1, <2>2 DEF Handed, ServerTypes
    <2>5. \A x \in Calls : chan'[x] # "none" =>
            pc'[chan'[x]] = "handed" /\ (connState'[chan'[x]] = "setup" \/ asked'[chan'[x]] = "teardown")
      BY <2>1, <2>2, <2>3 DEF Handed, ServerTypes, Server!Clients
    <2>6. \A x \in Calls : execCall'[x] = "got" =>
            pc'[prod'[x]] = "handed" /\ (connState'[prod'[x]] = "play" \/ asked'[prod'[x]] = "teardown")
      BY <1>1, <2>1, <2>2, <2>3 DEF Handed, Listed, ServerTypes, Server!Clients
    <2>7. \A x, y \in Calls : chan'[x] # "none" /\ chan'[x] = chan'[y] => x = y
      BY <2>1, <2>3 DEF Handed, ServerTypes
    <2>9. \A x \in Calls : execCall'[x] = "stopped" =>
            prod'[x] \in Calls /\ pc'[prod'[x]] \in {"handed", "done"}
      BY <1>1, <2>2, <2>3 DEF Handed, Server!Clients
    <2>10. \A x, y \in Calls : chan'[x] # "none" /\ execCall'[y] = "got" => chan'[x] # prod'[y]
      BY <1>1, <2>1, <2>3 DEF Handed, ServerTypes
    <2>8. QED
      BY <1>1, <1>2, <2>4, <2>5, <2>6, <2>7, <2>9, <2>10 DEF Handed
  <1>5. CASE pc[c] = "handed" /\ chan' = chan
    <2>1. Server!HangUp(c)
      BY <1>5 DEF Server!Conn, Server!Connect, Server!Announce, Server!Describe, Server!Setup,
             Server!Go, Server!Teardown, Server!Ends, Server!Asks
    <2>2. QED
      BY <1>1, <1>2, <1>5, <2>1 DEF Server!HangUp, Handed
  <1>6. QED
    BY <1>3, <1>4, <1>5

(* The connection that a call gets is its own from there on, so that Stop  *)
(* finds it playing and calls its OnClose, unless it was torn down.        *)
LEMMA ExecHanded ==
    ASSUME ServerInv, NEW x \in Calls, Server!Exec(x)
    PROVE  Handed' /\ NoOrphan'
  <1> USE DEF ServerInv, ListsInv
  <1> USE DEF Server!Over, Server!TornDown, Server!None
  <1>1. CASE Server!Begin(x) \/ Server!Fails(x) \/ Server!ProgramEnds(x)
    <2>1. /\ UNCHANGED <<chan, prod, pc, asked, connState>>
          /\ \A y \in Calls : execCall'[y] = "got" => execCall[y] = "got"
          /\ \A y \in Calls : execCall'[y] = "stopped" => execCall[y] = "stopped"
      BY <1>1 DEF Server!Begin, Server!Fails, Server!ProgramEnds, Server!Returns, Server!conns, ServerTypes
    <2>2. Handed'
      BY <2>1 DEF Handed
    <2>3. NoOrphan'
      BY <1>1, <2>1 DEF Server!Begin, Server!Fails, Server!ProgramEnds, Server!Returns, ServerTypes,
             NoOrphan, Server!NoOrphan
    <2>4. QED
      BY <2>2, <2>3
  <1>2. CASE Server!Gets(x)
    <2> DEFINE c == chan[x]
    <2>1. /\ c \in Calls /\ execCall[x] = "wait" /\ execCall' = [execCall EXCEPT ![x] = "got"]
          /\ prod' = [prod EXCEPT ![x] = c] /\ chan' = [chan EXCEPT ![x] = "none"]
          /\ connState' = [connState EXCEPT ![c] = Server!Started(c)]
          /\ UNCHANGED <<program, cancelled, pc, asked>>
      BY <1>2 DEF Server!Gets, Server!Returns, ServerTypes
    <2>2. /\ pc[c] = "handed" /\ c \in Server!Clients
          /\ connState'[c] = "play" \/ asked[c] = "teardown"
          /\ \A d \in Server!Clients \ {c} : connState'[d] = connState[d]
      BY <2>1, ServerAssumption DEF Handed, Server!Started, ServerTypes, Server!Clients
    <2>3. /\ \A y \in Calls : execCall[y] = "got" => prod[y] # c
          /\ \A y \in Calls \ {x} : chan[y] # c
      <3>1. ASSUME NEW y \in Calls, execCall[y] = "got", prod[y] = c PROVE FALSE
        BY <2>1, <3>1, ServerAssumption DEF Handed, Listed
      <3>2. QED
        BY <2>1, <2>2, <3>1, ServerAssumption DEF Handed
    <2>4. \A d \in Server!Clients :
            /\ pc'[d] = "none" => asked'[d] = "none"
            /\ pc'[d] = "accept" /\ asked'[d] = "setup" => connState'[d] = "setup"
      BY <2>1, <2>2 DEF Handed, ServerTypes
    <2>5. \A y \in Calls : chan'[y] # "none" =>
            pc'[chan'[y]] = "handed" /\ (connState'[chan'[y]] = "setup" \/ asked'[chan'[y]] = "teardown")
      BY <2>1, <2>2, <2>3 DEF Handed, ServerTypes, Server!Clients
    <2>6. \A y \in Calls : execCall'[y] = "got" =>
            pc'[prod'[y]] = "handed" /\ (connState'[prod'[y]] = "play" \/ asked'[prod'[y]] = "teardown")
      BY <2>1, <2>2, <2>3 DEF Handed, Listed, ServerTypes, Server!Clients
    <2>7. \A y, z \in Calls : chan'[y] # "none" /\ chan'[y] = chan'[z] => y = z
      BY <2>1 DEF Handed, ServerTypes
    <2>8. \A y, z \in Calls :
            execCall'[y] = "got" /\ execCall'[z] = "got" /\ prod'[y] = prod'[z] => y = z
      BY <2>1, <2>3 DEF Handed, ServerTypes
    <2>11. \A y \in Calls : execCall'[y] = "stopped" =>
            prod'[y] \in Calls /\ pc'[prod'[y]] \in {"handed", "done"}
      BY <2>1 DEF Handed, ServerTypes
    <2>12. \A y, z \in Calls : chan'[y] # "none" /\ execCall'[z] = "got" => chan'[y] # prod'[z]
      BY <2>1, <2>3 DEF Handed, ServerTypes
    <2>9. NoOrphan'
      BY <2>1 DEF NoOrphan, Server!NoOrphan, ServerTypes
    <2>10. QED
      BY <2>4, <2>5, <2>6, <2>7, <2>8, <2>9, <2>11, <2>12 DEF Handed
  <1>3. CASE Server!Stop(x)
    <2> DEFINE c == prod[x]
    <2>1. /\ execCall[x] = "got" /\ c \in Calls /\ pc[c] = "handed"
          /\ connState[c] = "play" \/ asked[c] = "teardown"
          /\ execCall' = [execCall EXCEPT ![x] = "stopped"]
          /\ UNCHANGED <<chan, prod, program, asked>>
      BY <1>3 DEF Server!Stop, Handed, Listed
    <2>2. /\ connState'[c] = "none" /\ pc'[c] \in {"handed", "done"}
          /\ \A d \in Server!Clients \ {c} : pc'[d] = pc[d] /\ connState'[d] = connState[d]
          /\ cancelled' = [cancelled EXCEPT ![x] = TRUE] \/ (cancelled' = cancelled /\ asked[c] = "teardown")
      BY <1>3, <2>1 DEF Server!Stop, Server!OnClose, ServerTypes, Server!Clients
    <2>3. /\ \A y \in Calls : execCall'[y] = "got" => execCall[y] = "got" /\ prod[y] # c
          /\ \A y \in Calls : chan[y] # "none" => chan[y] # c
      BY <2>1 DEF Handed, ServerTypes
    <2>4. \A d \in Server!Clients :
            /\ pc'[d] = "none" => asked'[d] = "none"
            /\ pc'[d] = "accept" /\ asked'[d] = "setup" => connState'[d] = "setup"
      BY <2>1, <2>2 DEF Handed, ServerTypes
    <2>5. Handed'
      BY <2>1, <2>2, <2>3, <2>4 DEF Handed, ServerTypes, Listed, Server!Clients
    <2>6. NoOrphan'
      BY <2>1, <2>2, ServerAssumption DEF NoOrphan, Server!NoOrphan, ServerTypes
    <2>7. QED
      BY <2>5, <2>6
  <1>4. QED
    BY <1>1, <1>2, <1>3 DEF Server!Exec

LEMMA ServerStep ==
    ASSUME ServerInv,
           (\E c \in Server!Clients : Server!Conn(c)) \/ (\E x \in Calls : Server!Exec(x))
    PROVE  ServerInv'
  BY ConnLists, ExecLists, ConnHanded, ExecHanded DEF ServerInv

-----------------------------------------------------------------------------
(* The roles. A behaviour is of one of them, and leaves alone what is of   *)
(* the other.                                                              *)

LEMMA ServerUnmoved ==
    ASSUME ServerInv, UNCHANGED serverVars
    PROVE  ServerInv'
  BY DEF ServerInv, ListsInv, ServerTypes, Listed, NothingListed, Server!NothingListed, Handed,
         NoOrphan, Server!NoOrphan, Server!Over, Server!TornDown, serverVars

LEMMA ClientStays ==
    ASSUME ClientInv, UNCHANGED vars
    PROVE  ClientInv'
  BY ClientUnmoved DEF vars, tracks, calling, session

LEMMA Inductive == IInv /\ [RoleNext]_roleVars => IInv'
  <1> SUFFICES ASSUME IInv, [RoleNext]_roleVars PROVE IInv'
    OBVIOUS
  <1> USE DEF IInv
  <1>1. CASE AsClient(Next)
    BY <1>1, ClientStep, ServerUnmoved DEF AsClient
  <1>2. CASE \E c \in Server!Clients : AsServer(RoleOf(c), Server!Conn(c))
    BY <1>2, ServerStep, ClientStays DEF AsServer
  <1>3. CASE \E x \in Calls : AsServer("programs", Server!Exec(x))
    BY <1>3, ServerStep, ClientStays DEF AsServer
  <1>4. CASE UNCHANGED roleVars
    BY <1>4, ServerUnmoved, ClientStays DEF roleVars
  <1>5. QED
    BY <1>1, <1>2, <1>3, <1>4 DEF RoleNext

LEMMA Invariant == RoleSpec => []IInv
  <1>1. RoleInit => IInv
    BY ClientInitial, ServerInitial DEF RoleInit, IInv
  <1>2. QED
    BY <1>1, Inductive, PTL DEF RoleSpec

(* A session that plays carries every track of its connection, whatever    *)
(* medias there are and however often GetTrack and AddTrack dialled anew,  *)
(* failed, or shared the answers of the camera with Handle.                *)
THEOREM SessionsAreWhole == RoleSpec => []PlaysWhole
  <1>1. IInv => PlaysWhole
    <2> SUFFICES ASSUME IInv, plays, ~torn PROVE ToSet(receivers \o senders) \subseteq set
      BY DEF PlaysWhole
    <2>1. state = "play" /\ open
      BY DEF IInv, ClientInv, Playing, Calling, Types
    <2>2. Tracks \subseteq set
      BY <2>1 DEF IInv, ClientInv, Restored
    <2>3. ToSet(receivers \o senders) = Tracks
      BY ToSetOfConcat DEF IInv, ClientInv, Types, Tracks
    <2>4. QED
      BY <2>2, <2>3
  <1>2. QED
    BY <1>1, Invariant, PTL

(* A connection of the server that has ended, with whatever request, is    *)
(* closed and in the lists of no stream; and whoever took whose            *)
(* connection, the program of a call that failed, or of one whose producer *)
(* was stopped, has ended or is told to, unless its connection was torn    *)
(* down before RECORD. For every number of viewers, and of programs that   *)
(* take each other's channel.                                              *)
THEOREM EndedIsGone == RoleSpec => []NothingStays
  <1>1. IInv => NothingStays
    BY DEF IInv, ServerInv, ListsInv, NothingStays
  <1>2. QED
    BY <1>1, Invariant, PTL
=============================================================================
