--------------------------- MODULE TutkDtlsProofs ----------------------------
(***************************************************************************)
(* Proofs about TutkDtls, for every list of commands and every size of the *)
(* queues: Close leaves nothing, the nil that it sets is met only while it *)
(* waits, and an answer that a command returned is one of the camera.      *)
(* For the first it has to be known that nobody starts anything once Close *)
(* has begun: Dial is over then, and no consumer is in AddTrack (Closing). *)
(* For the second, that whatever is in the queues has been at the camera,  *)
(* and that the camera has seen no command that has not begun (Begun).     *)
(***************************************************************************)
EXTENDS TutkDtls, SequenceTheorems, TLAPS

Dialling == {"discovery", "session", "connect", "login", "auth", "probe"}

(* Who may be doing what while Close is where it is.                       *)
Closing ==
    /\ main \in Dialling => talk = "idle"
    /\ closer # "none" => main \notin Dialling /\ talk = "idle" /\ cmd = 0
    /\ main = "failed" => closer # "none"
    /\ cmd # 0 => cmd = last
    /\ cmd # 0 /\ cmd <= Asked => main \in {"login", "auth"}
    /\ cmd > Asked => main \in {"start", "ended"} /\ talk = "command"
    /\ main \in {"probe", "start", "ended"} => last >= Asked

(* What Close has done so far.                                             *)
Closed ==
    /\ closer \in {"lock", "wait", "socket", "done"} => ctxDone
    /\ closer \in {"wait", "socket", "done"} => clientConn # "open" /\ ~serverConn
    /\ closer \in {"socket", "done"} => Running = {}
    /\ closer = "done" => ~socket
    /\ clientConn = "nil" => closer \in {"wait", "socket", "done"}
    /\ NilInCloseOnly

(* Nothing is in a queue that has not been at the camera, and nothing was  *)
(* there, or is written again by a timer, that has not begun.              *)
Items(q) == {q[i] : i \in DOMAIN q}
Begun ==
    /\ net \subseteq 1..last /\ ringing \subseteq 1..last
    /\ arrived \subseteq 1..last
    /\ answers \subseteq arrived
    /\ Items(clientBuf) \subseteq arrived \cup {Media}
    /\ Items(rawCmd) \subseteq arrived

IInv == TypeOK /\ Closing /\ Closed /\ Begun /\ AnsweredHasArrived

-----------------------------------------------------------------------------
(* The queues.                                                             *)

LEMMA Constants ==
    /\ Len(Kinds) \in Nat /\ Commands = 1..Len(Kinds)
    /\ Asked \in 1..Len(Kinds) /\ BufSize \in Nat \ {0} /\ CmdSize \in Nat \ {0}
  BY KindsAssumption, SizesAssumption DEF Commands

LEMMA ItemsOfTail ==
    ASSUME NEW S, NEW q \in Seq(S), q # <<>>
    PROVE  /\ Tail(q) \in Seq(S) /\ Items(Tail(q)) \subseteq Items(q)
           /\ Head(q) \in S /\ Head(q) \in Items(q)
  <1>1. Tail(q) \in Seq(S) /\ Len(Tail(q)) = Len(q) - 1 /\ Head(q) = q[1] /\ Len(q) \in Nat \ {0}
    BY EmptySeq, HeadTailProperties, LenProperties
  <1>2. \A i \in 1..(Len(q) - 1) : Tail(q)[i] = q[i + 1]
    BY HeadTailProperties, <1>1
  <1>3. DOMAIN Tail(q) = 1..(Len(q) - 1) /\ DOMAIN q = 1..Len(q)
    BY <1>1, LenProperties
  <1>4. \A i \in DOMAIN Tail(q) : i + 1 \in DOMAIN q
    BY <1>1, <1>3
  <1>5. Items(Tail(q)) \subseteq Items(q)
    BY <1>2, <1>3, <1>4 DEF Items
  <1>6. 1 \in DOMAIN q
    BY <1>1, <1>3
  <1>7. Head(q) \in Items(q)
    BY <1>1, <1>6 DEF Items
  <1>8. Head(q) \in S
    BY <1>1, <1>6, ElementOfSeq
  <1>9. QED
    BY <1>1, <1>5, <1>7, <1>8

LEMMA ItemsOfAppend ==
    ASSUME NEW S, NEW q \in Seq(S), NEW e \in S
    PROVE  Append(q, e) \in Seq(S) /\ Items(Append(q, e)) \subseteq Items(q) \cup {e}
  <1>1. Append(q, e) \in Seq(S) /\ Len(Append(q, e)) = Len(q) + 1 /\ Len(q) \in Nat
    BY AppendProperties, LenProperties
  <1>2. \A i \in DOMAIN Append(q, e) : Append(q, e)[i] = e \/ (i \in DOMAIN q /\ Append(q, e)[i] = q[i])
    BY AppendProperties, <1>1, LenProperties
  <1>3. QED
    BY <1>1, <1>2 DEF Items

(* queue keeps what it is given, and some of what was there.               *)
LEMMA ItemsOfQueue ==
    ASSUME NEW S, NEW q \in Seq(S), NEW e \in S, NEW size \in Nat \ {0}
    PROVE  Queue(q, e, size) \in Seq(S) /\ Items(Queue(q, e, size)) \subseteq Items(q) \cup {e}
  <1>1. CASE Len(q) = size
    <2>1. q # <<>>
      BY <1>1, EmptySeq
    <2>2. Tail(q) \in Seq(S) /\ Items(Tail(q)) \subseteq Items(q)
      BY <2>1, ItemsOfTail
    <2>3. Append(Tail(q), e) \in Seq(S) /\ Items(Append(Tail(q), e)) \subseteq Items(Tail(q)) \cup {e}
      BY <2>2, ItemsOfAppend
    <2>4. QED
      BY <1>1, <2>2, <2>3 DEF Queue
  <1>2. CASE Len(q) # size
    BY <1>2, ItemsOfAppend DEF Queue
  <1>3. QED
    BY <1>1, <1>2

-----------------------------------------------------------------------------

LEMMA Initial == Init => IInv
  <1> SUFFICES ASSUME Init PROVE IInv
    OBVIOUS
  <1>1. TypeOK
    <2>1. 0 \in 0..Len(Kinds)
      BY Constants
    <2>2. <<>> \in Seq(Commands \cup {Media}) /\ <<>> \in Seq(Commands)
      BY EmptySeq
    <2>3. [n \in Commands |-> "none"] \in [Commands -> {"none", "ok", "error"}]
      OBVIOUS
    <2>4. QED
      BY <2>1, <2>2, <2>3 DEF Init, TypeOK
  <1>2. Closing /\ Closed
    BY Constants DEF Init, Closing, Closed, NilInCloseOnly, Dialling, Running
  <1>3. Begun
    BY EmptySeq DEF Init, Begun, Items
  <1>4. AnsweredHasArrived
    BY DEF Init, AnsweredHasArrived
  <1>5. QED
    BY <1>1, <1>2, <1>3, <1>4 DEF IInv

(* The last two parts hold on when neither the queues nor the results      *)
(* change: a command that begins only widens what may be in them.          *)
LEMMA SameQueues ==
    ASSUME Begun, AnsweredHasArrived, UNCHANGED <<result, queues, outside>>,
           ringing' \subseteq ringing, last \in Int, last' \in Int, last' >= last
    PROVE  Begun' /\ AnsweredHasArrived'
  BY DEF Begun, AnsweredHasArrived, Items, queues, outside

(* Dial before its commands.                                               *)
LEMMA DialStep ==
    ASSUME IInv, Discovery \/ Session \/ Connect
    PROVE  IInv'
  <1> USE DEF Fails, outside, queues, waiting, IInv
  <1>1. UNCHANGED <<result, ringing, net, answers, arrived, last, cmd, clientBuf, rawCmd, talk>>
    BY DEF Discovery, Session, Connect
  <1>2. TypeOK'
    BY <1>1 DEF Discovery, Session, Connect, TypeOK, conn, routines
  <1>3. Closing'
    BY <1>1, Constants DEF Discovery, Session, Connect, Closing, Dialling, TypeOK
  <1>4. Closed'
    BY DEF Discovery, Session, Connect, Closed, NilInCloseOnly, Closing, Dialling, Running, conn, routines
  <1>5. Begun' /\ AnsweredHasArrived'
    BY <1>1 DEF Begun, AnsweredHasArrived, Items
  <1>6. QED
    BY <1>2, <1>3, <1>4, <1>5

(* A command begins.                                                       *)
LEMMA BeginStep ==
    ASSUME IInv, DialCommand \/ StartIntercom
    PROVE  IInv'
  <1> USE DEF IInv
  <1>1. /\ last \in 0..Len(Kinds) /\ last' = last + 1 /\ last' \in 0..Len(Kinds)
        /\ cmd' = last' /\ sent' = FALSE /\ cmd' # 0
    BY Constants DEF DialCommand, StartIntercom, Begins, TypeOK
  <1>2. UNCHANGED <<main, closer, result, ringing, conn, queues, routines, outside>>
    BY DEF DialCommand, StartIntercom, calls
  <1>3. TypeOK'
    <2>1. talk' \in {"idle", "command", "serve"}
      BY DEF DialCommand, StartIntercom, TypeOK, calls
    <2>2. cmd' \in 0..Len(Kinds) /\ last' \in 0..Len(Kinds) /\ sent' \in BOOLEAN
      BY <1>1
    <2>3. QED
      BY <1>2, <2>1, <2>2 DEF TypeOK, conn, queues, routines, outside
  <1>4. Closing'
    <2>1. CASE DialCommand
      BY <2>1, <1>1, <1>2, Constants DEF DialCommand, Closing, Dialling, calls
    <2>2. CASE StartIntercom
      <3>1. last >= Asked
        BY <2>2 DEF StartIntercom, Closing
      <3>2. QED
        BY <2>2, <3>1, <1>1, <1>2, Constants DEF StartIntercom, Closing, Dialling
    <2>3. QED
      BY <2>1, <2>2
  <1>5. Closed'
    BY <1>2 DEF Closed, NilInCloseOnly, Running, conn, routines
  <1>6. Begun' /\ AnsweredHasArrived'
    BY <1>1, <1>2, SameQueues
  <1>7. QED
    BY <1>3, <1>4, <1>5, <1>6

(* A command is written: only the one that has begun last.                 *)
LEMMA WriteStep ==
    ASSUME IInv, Write
    PROVE  IInv'
  <1> USE DEF IInv
  <1>1. net' = net \cup {cmd} /\ sent' = TRUE /\ cmd = last /\ cmd # 0 /\ last \in 0..Len(Kinds)
    BY DEF Write, OnTheWay, Closing, TypeOK
  <1>2. UNCHANGED <<calls, cmd, last, result, ringing, conn, queues, routines, answers, arrived>>
    BY DEF Write
  <1>3. cmd \in Commands /\ cmd \in 1..last
    BY <1>1, Constants
  <1>4. TypeOK'
    <2>1. net' \subseteq Commands /\ sent' \in BOOLEAN
      BY <1>1, <1>3 DEF TypeOK
    <2>2. QED
      BY <1>2, <2>1 DEF TypeOK, calls, conn, queues, routines
  <1>5. Closing' /\ Closed'
    BY <1>2 DEF Closing, Closed, NilInCloseOnly, Running, calls, conn, routines
  <1>6. Begun' /\ AnsweredHasArrived'
    BY <1>1, <1>2, <1>3 DEF Begun, AnsweredHasArrived, Items, queues
  <1>7. QED
    BY <1>4, <1>5, <1>6

(* The timer of a command that has returned writes it once more.           *)
LEMMA RingsStep ==
    ASSUME IInv, Rings
    PROVE  IInv'
  <1> USE DEF IInv
  <1>1. PICK n \in ringing : net' = net \cup {n}
    BY DEF Rings, OnTheWay
  <1>2. UNCHANGED <<calls, waiting, conn, queues, routines, answers, arrived>>
    BY DEF Rings
  <1>3. TypeOK'
    BY <1>1, <1>2 DEF TypeOK, calls, waiting, conn, queues, routines
  <1>4. Closing' /\ Closed'
    BY <1>2 DEF Closing, Closed, NilInCloseOnly, Running, calls, waiting, conn, routines
  <1>5. Begun' /\ AnsweredHasArrived'
    BY <1>1, <1>2 DEF Begun, AnsweredHasArrived, Items, waiting, queues
  <1>6. QED
    BY <1>3, <1>4, <1>5

(* A command returns. What it takes for its answer has its kind, and is    *)
(* of a command that begun before it or of itself.                         *)
LEMMA ReturnStep ==
    ASSUME IInv, cmd # 0, NEW res \in {"ok", "error"}, Returns(res), GoesOn(res),
           UNCHANGED <<conn, clientBuf, reader, worker, crashed, outside>>,
           rawCmd' \in Seq(Commands), Items(rawCmd') \subseteq arrived,
           res = "ok" => \E h \in arrived : Matches(h)
    PROVE  IInv'
  <1> USE DEF IInv
  <1>1. cmd \in Commands /\ cmd = last /\ closer = "none" /\ cmd \in Int /\ last \in 0..Len(Kinds)
    BY Constants DEF TypeOK, Closing
  <1>2. /\ cmd' = 0 /\ result' = [result EXCEPT ![cmd] = res] /\ last' = last /\ sent' = sent
        /\ ringing' \subseteq ringing \cup {cmd}
    BY DEF Returns
  <1>3. TypeOK'
    <2>1. cmd' \in 0..Len(Kinds) /\ last' \in 0..Len(Kinds) /\ sent' \in BOOLEAN
      BY <1>1, <1>2, Constants DEF TypeOK
    <2>2. ringing' \subseteq Commands /\ result' \in [Commands -> {"none", "ok", "error"}]
      BY <1>1, <1>2 DEF TypeOK
    <2>3. /\ main' \in {"discovery", "session", "connect", "login", "auth", "probe",
                        "start", "ended", "failed"}
          /\ talk' \in {"idle", "command", "serve"}
          /\ closer' \in {"none", "cancel", "lock", "wait", "socket", "done"}
          /\ ticker' \in {"none", "run", "ended"}
      BY DEF GoesOn, Fails, TypeOK
    <2>4. QED
      BY <2>1, <2>2, <2>3 DEF TypeOK, conn, outside
  <1>4. Closing'
    BY <1>1, <1>2, Constants DEF GoesOn, Fails, Closing, Dialling
  <1>5. Closed'
    <2>1. closer' \in {"none", "cancel"}
      BY <1>1 DEF GoesOn, Fails
    <2>2. clientConn' # "nil" /\ ~crashed'
      BY <1>1 DEF Closed, NilInCloseOnly, conn
    <2>3. QED
      BY <2>1, <2>2 DEF Closed, NilInCloseOnly
  <1>6. Begun'
    BY <1>1, <1>2, Constants DEF Begun, Items, outside
  <1>7. AnsweredHasArrived'
    <2> SUFFICES ASSUME NEW n \in Commands, result'[n] = "ok",
                        \A m \in 1..(n - 1) : Kinds[m] # Kinds[n]
                 PROVE  n \in arrived
      BY DEF AnsweredHasArrived, outside
    <2>1. CASE n # cmd
      BY <2>1, <1>1, <1>2 DEF TypeOK, AnsweredHasArrived
    <2>2. CASE n = cmd
      <3>1. res = "ok"
        BY <2>2, <1>1, <1>2 DEF TypeOK
      <3>2. PICK h \in arrived : Kinds[h] = Kinds[n]
        BY <3>1, <2>2 DEF Matches
      <3>3. h \in 1..n
        BY <2>2, <1>1, <3>2 DEF Begun
      <3>4. h \notin 1..(n - 1)
        BY <3>2
      <3>5. h = n
        BY <3>3, <3>4, <1>1, <2>2
      <3>6. QED
        BY <3>5
    <2>3. QED
      BY <2>1, <2>2
  <1>8. QED
    BY <1>3, <1>4, <1>5, <1>6, <1>7

LEMMA TakeAnswerStep ==
    ASSUME IInv, TakeAnswer
    PROVE  IInv'
  <1> USE DEF IInv
  <1>1. rawCmd \in Seq(Commands) /\ rawCmd # <<>> /\ rawCmd' = Tail(rawCmd) /\ cmd # 0
    BY DEF TakeAnswer, TypeOK
  <1>2. rawCmd' \in Seq(Commands) /\ Items(rawCmd') \subseteq arrived /\ Head(rawCmd) \in arrived
    BY <1>1, ItemsOfTail DEF Begun
  <1>3. UNCHANGED <<conn, clientBuf, reader, worker, crashed, outside>>
    BY DEF TakeAnswer
  <1>4. CASE Matches(Head(rawCmd))
    <2>1. Returns("ok") /\ GoesOn("ok")
      BY <1>4 DEF TakeAnswer
    <2>2. \E h \in arrived : Matches(h)
      BY <1>2, <1>4
    <2>3. QED
      BY <1>1, <1>2, <1>3, <2>1, <2>2, ReturnStep
  <1>5. CASE ~Matches(Head(rawCmd))
    <2>1. UNCHANGED <<waiting, calls, ticker>>
      BY <1>5 DEF TakeAnswer
    <2>2. TypeOK'
      BY <1>2, <1>3, <2>1 DEF TypeOK, waiting, calls, conn, outside
    <2>3. Closing' /\ Closed'
      BY <1>3, <2>1 DEF Closing, Closed, NilInCloseOnly, Running, waiting, calls, conn
    <2>4. Begun' /\ AnsweredHasArrived'
      BY <1>2, <1>3, <2>1 DEF Begun, AnsweredHasArrived, Items, waiting, outside
    <2>5. QED
      BY <2>2, <2>3, <2>4
  <1>6. QED
    BY <1>4, <1>5

LEMMA TimeOutStep ==
    ASSUME IInv, TimeOut
    PROVE  IInv'
  <1>1. /\ cmd # 0 /\ Returns("error") /\ GoesOn("error")
        /\ UNCHANGED <<conn, clientBuf, rawCmd, reader, worker, crashed, outside>>
    BY DEF TimeOut, queues
  <1>2. rawCmd' \in Seq(Commands) /\ Items(rawCmd') \subseteq arrived
    BY <1>1 DEF IInv, TypeOK, Begun, Items
  <1>3. QED
    BY <1>1, <1>2, ReturnStep

(* The calls of the producer, which no Close may meet in Dial, and those   *)
(* that read the packets.                                                  *)
LEMMA CallStep ==
    ASSUME IInv, Probe \/ Start \/ AVServStart \/ Stop
    PROVE  IInv'
  <1> USE DEF IInv
  <1>1. UNCHANGED <<waiting, ctxDone, clientConn, socket, queues, routines, outside>>
    BY DEF Probe, Start, AVServStart, Stop
  <1>2. TypeOK'
    <2>1. /\ main' \in {"discovery", "session", "connect", "login", "auth", "probe",
                        "start", "ended", "failed"}
          /\ talk' \in {"idle", "command", "serve"}
          /\ closer' \in {"none", "cancel", "lock", "wait", "socket", "done"}
          /\ frames' \in {"none", "empty", "packet", "closed"}
      BY DEF Probe, Start, AVServStart, Stop, TypeOK
    <2>2. serverConn' \in BOOLEAN
      BY DEF Probe, Start, AVServStart, Stop, TypeOK
    <2>3. QED
      BY <1>1, <2>1, <2>2 DEF TypeOK, waiting, queues, routines, outside
  <1>3. Closing'
    <2>1. last' = last /\ cmd' = cmd
      BY <1>1 DEF waiting
    <2>2. cmd # 0 => cmd <= Asked \/ cmd > Asked
      BY Constants DEF TypeOK
    <2>3. QED
      BY <2>1, <2>2, Constants DEF Closing, Dialling, Probe, Start, AVServStart, Stop, TypeOK
  <1>4. Closed'
    BY <1>1 DEF Closed, NilInCloseOnly, Closing, Running, routines, Probe, Start, AVServStart, Stop, Dialling
  <1>5. Begun' /\ AnsweredHasArrived'
    BY <1>1, SameQueues DEF TypeOK, waiting
  <1>6. QED
    BY <1>2, <1>3, <1>4, <1>5

LEMMA CloseStep ==
    ASSUME IInv, Close
    PROVE  IInv'
  <1> USE DEF IInv
  <1>1. /\ UNCHANGED <<main, talk, cmd, last, sent, result, queues, routines, outside>>
        /\ ringing' \subseteq ringing
        /\ closer # "none" /\ closer' \in {"lock", "wait", "socket", "done"}
    BY DEF Close, Cancel, CloseConns, Wait, CloseSocket, waiting
  <1>2. TypeOK'
    <2>1. ctxDone' \in BOOLEAN /\ serverConn' \in BOOLEAN /\ socket' \in BOOLEAN
      BY DEF Close, Cancel, CloseConns, Wait, CloseSocket, TypeOK, conn
    <2>2. clientConn' \in {"none", "open", "nil"} /\ frames' \in {"none", "empty", "packet", "closed"}
      BY DEF Close, Cancel, CloseConns, Wait, CloseSocket, TypeOK, conn
    <2>3. QED
      BY <1>1, <2>1, <2>2 DEF TypeOK, queues, routines, outside
  <1>3. Closing'
    BY <1>1 DEF Closing
  <1>4. Closed'
    <2>1. ~crashed /\ ~crashed' /\ Running' = Running
      BY <1>1 DEF Close, Cancel, CloseConns, Wait, CloseSocket, Up, Running, routines
    <2>2. clientConn' = "nil" => closer' \in {"wait", "socket", "done"}
      BY DEF Close, Cancel, CloseConns, Wait, CloseSocket, Closed, conn
    <2>3. /\ closer' \in {"lock", "wait", "socket", "done"} => ctxDone'
          /\ closer' \in {"wait", "socket", "done"} => clientConn' # "open" /\ ~serverConn'
          /\ closer' = "done" => ~socket'
      BY DEF Close, Cancel, CloseConns, Wait, CloseSocket, Closed, conn
    <2>4. closer' \in {"socket", "done"} => Running' = {}
      BY <2>1 DEF Close, Cancel, CloseConns, Wait, CloseSocket, AllDone, Closed
    <2>5. QED
      BY <2>1, <2>2, <2>3, <2>4 DEF Closed, NilInCloseOnly
  <1>5. Begun' /\ AnsweredHasArrived'
    BY <1>1, SameQueues DEF TypeOK
  <1>6. QED
    BY <1>2, <1>3, <1>4, <1>5

-----------------------------------------------------------------------------
(* The goroutines: they may end, and no step of theirs begins one.         *)

LEMMA RoutineStep ==
    ASSUME IInv, ReaderEnds \/ WorkerCalls \/ WorkerEnds \/ TickerEnds \/ TickerWrites
    PROVE  IInv'
  <1> USE DEF IInv
  <1>1. UNCHANGED <<calls, waiting, conn, queues, outside>>
    BY DEF ReaderEnds, WorkerCalls, WorkerEnds, TickerEnds, TickerWrites
  <1>2. TypeOK'
    <2>1. /\ reader' \in {"none", "run", "ended"} /\ ticker' \in {"none", "run", "ended"}
          /\ worker' \in {"none", "checked", "read", "ended"}
      BY DEF ReaderEnds, WorkerCalls, WorkerEnds, TickerEnds, TickerWrites, TypeOK
    <2>2. crashed' \in BOOLEAN
      BY DEF ReaderEnds, WorkerCalls, WorkerEnds, TickerEnds, TickerWrites, TypeOK
    <2>3. QED
      BY <1>1, <2>1, <2>2 DEF TypeOK, calls, waiting, conn, queues, outside
  <1>3. Closing'
    BY <1>1 DEF Closing, calls, waiting
  <1>4. Closed'
    <2>1. Running' \subseteq Running
      BY DEF ReaderEnds, WorkerCalls, WorkerEnds, TickerEnds, TickerWrites, Running
    <2>2. crashed' => crashed \/ (clientConn = "nil" /\ Running # {})
      BY DEF ReaderEnds, WorkerCalls, WorkerEnds, TickerEnds, TickerWrites, Running
    <2>3. NilInCloseOnly'
      BY <1>1, <2>2 DEF Closed, NilInCloseOnly, calls, conn
    <2>4. QED
      BY <1>1, <2>1, <2>3 DEF Closed, NilInCloseOnly, calls, conn
  <1>5. Begun' /\ AnsweredHasArrived'
    BY <1>1, SameQueues DEF TypeOK, waiting
  <1>6. QED
    BY <1>2, <1>3, <1>4, <1>5

(* An answer, or media, comes to clientBuf.                                *)
LEMMA ReaderStep ==
    ASSUME IInv, ReaderTakes \/ CameraSends
    PROVE  IInv'
  <1> USE DEF IInv
  <1>1. /\ UNCHANGED <<calls, waiting, conn, rawCmd, routines, net, arrived>>
        /\ answers' \subseteq answers
    BY DEF ReaderTakes, CameraSends, outside
  <1>2. PICK e \in arrived \cup {Media} : clientBuf' = Queue(clientBuf, e, BufSize)
    BY DEF ReaderTakes, CameraSends, Begun
  <1>3. clientBuf' \in Seq(Commands \cup {Media}) /\ Items(clientBuf') \subseteq arrived \cup {Media}
    <2>1. e \in Commands \cup {Media} /\ clientBuf \in Seq(Commands \cup {Media})
      BY DEF TypeOK
    <2>2. /\ clientBuf' \in Seq(Commands \cup {Media})
          /\ Items(clientBuf') \subseteq Items(clientBuf) \cup {e}
      BY <1>2, <2>1, ItemsOfQueue, Constants
    <2>3. QED
      BY <2>2 DEF Begun
  <1>4. TypeOK'
    BY <1>1, <1>3 DEF TypeOK, calls, waiting, conn, routines
  <1>5. Closing' /\ Closed'
    BY <1>1 DEF Closing, Closed, NilInCloseOnly, Running, calls, waiting, conn, routines
  <1>6. Begun'
    BY <1>1, <1>3 DEF Begun, Items, waiting
  <1>7. AnsweredHasArrived'
    BY <1>1 DEF AnsweredHasArrived, waiting
  <1>8. QED
    BY <1>4, <1>5, <1>6, <1>7

LEMMA WorkerTakesStep ==
    ASSUME IInv, WorkerTakes
    PROVE  IInv'
  <1> USE DEF IInv
  <1> DEFINE e == Head(clientBuf)
  <1>1. UNCHANGED <<calls, waiting, ctxDone, clientConn, serverConn, socket, reader, ticker,
                    crashed, outside>>
    BY DEF WorkerTakes
  <1>2. clientBuf \in Seq(Commands \cup {Media}) /\ clientBuf # <<>> /\ clientBuf' = Tail(clientBuf)
    BY DEF WorkerTakes, TypeOK
  <1>3. /\ clientBuf' \in Seq(Commands \cup {Media}) /\ Items(clientBuf') \subseteq Items(clientBuf)
        /\ e \in Commands \cup {Media} /\ e \in Items(clientBuf)
    BY <1>2, ItemsOfTail
  <1>4. rawCmd' \in Seq(Commands) /\ Items(rawCmd') \subseteq arrived
    <2>1. CASE e = Media
      BY <2>1 DEF WorkerTakes, TypeOK, Begun, Items
    <2>2. CASE e # Media
      <3>1. e \in Commands /\ e \in arrived /\ rawCmd' = Queue(rawCmd, e, CmdSize)
        BY <2>2, <1>3 DEF WorkerTakes, Begun
      <3>2. rawCmd \in Seq(Commands) /\ CmdSize \in Nat \ {0}
        BY Constants DEF TypeOK
      <3>3. rawCmd' \in Seq(Commands) /\ Items(rawCmd') \subseteq Items(rawCmd) \cup {e}
        BY <3>1, <3>2, ItemsOfQueue
      <3>4. QED
        BY <3>1, <3>3 DEF Begun
    <2>3. QED
      BY <2>1, <2>2
  <1>5. TypeOK'
    <2>1. /\ worker' \in {"none", "checked", "read", "ended"}
          /\ frames' \in {"none", "empty", "packet", "closed"}
      BY DEF WorkerTakes, TypeOK
    <2>2. QED
      BY <1>1, <1>3, <1>4, <2>1 DEF TypeOK, calls, waiting, outside
  <1>6. Closing'
    BY <1>1 DEF Closing, calls, waiting
  <1>7. Closed'
    <2>1. Running' \subseteq Running
      BY <1>1 DEF WorkerTakes, Running
    <2>2. QED
      BY <1>1, <2>1 DEF Closed, NilInCloseOnly, calls
  <1>8. Begun' /\ AnsweredHasArrived'
    BY <1>1, <1>3, <1>4 DEF Begun, AnsweredHasArrived, Items, waiting, outside
  <1>9. QED
    BY <1>5, <1>6, <1>7, <1>8

(* The camera answers what it has received; the network loses.             *)
LEMMA CameraStep ==
    ASSUME IInv, CameraAnswers \/ \E a \in Commands : Lose(a)
    PROVE  IInv'
  <1> USE DEF IInv
  <1>1. UNCHANGED <<calls, waiting, conn, queues, routines>>
    BY DEF CameraAnswers, Lose
  <1>2. /\ net' \subseteq net /\ arrived \subseteq arrived'
        /\ arrived' \subseteq arrived \cup net /\ answers' \subseteq arrived'
    BY DEF CameraAnswers, Lose, Begun
  <1>3. TypeOK'
    BY <1>1, <1>2 DEF TypeOK, calls, waiting, conn, queues, routines
  <1>4. Closing' /\ Closed'
    BY <1>1 DEF Closing, Closed, NilInCloseOnly, Running, calls, waiting, conn, routines
  <1>5. Begun' /\ AnsweredHasArrived'
    BY <1>1, <1>2 DEF Begun, AnsweredHasArrived, Items, waiting, queues
  <1>6. QED
    BY <1>3, <1>4, <1>5

-----------------------------------------------------------------------------

LEMMA Inductive == IInv /\ [Next]_vars => IInv'
  <1> SUFFICES ASSUME IInv, [Next]_vars PROVE IInv'
    OBVIOUS
  <1>1. CASE Dial
    BY <1>1, DialStep, BeginStep DEF Dial
  <1>2. CASE Command
    BY <1>2, WriteStep, RingsStep, TakeAnswerStep, TimeOutStep DEF Command
  <1>3. CASE Probe \/ Start \/ AVServStart \/ Stop
    BY <1>3, CallStep
  <1>4. CASE StartIntercom
    BY <1>4, BeginStep
  <1>5. CASE Close
    BY <1>5, CloseStep
  <1>6. CASE ReaderTakes
    BY <1>6, ReaderStep
  <1>7. CASE ReaderEnds \/ Ticker
    BY <1>7, RoutineStep DEF Ticker
  <1>8. CASE Worker
    BY <1>8, RoutineStep, WorkerTakesStep DEF Worker
  <1>9. CASE Camera
    BY <1>9, CameraStep, ReaderStep DEF Camera
  <1>10. CASE UNCHANGED vars
    <2>1. TypeOK'
      BY <1>10 DEF vars, calls, waiting, conn, queues, routines, outside, IInv, TypeOK
    <2>2. Closing' /\ Closed'
      BY <1>10 DEF vars, calls, waiting, conn, routines, IInv, Closing, Closed, NilInCloseOnly, Running
    <2>3. Begun' /\ AnsweredHasArrived'
      BY <1>10, SameQueues DEF vars, waiting, IInv, TypeOK
    <2>4. QED
      BY <2>1, <2>2, <2>3 DEF IInv
  <1>11. QED
    BY <1>1, <1>2, <1>3, <1>4, <1>5, <1>6, <1>7, <1>8, <1>9, <1>10 DEF Next

LEMMA Invariant == Spec => []IInv
  BY Initial, Inductive, PTL DEF Spec

(* What each variable of a connection to a Wyze camera may hold: no more   *)
(* commands are on the way, in a queue or waited for than there are, in    *)
(* any order of the steps of callers, goroutines, camera and network.      *)
THEOREM Types == Spec => []TypeOK
  <1>1. IInv => TypeOK
    BY DEF IInv
  <1>2. QED
    BY <1>1, Invariant, PTL

(* Close of a DTLSConn, by Stop or by a Dial that failed wherever it was,  *)
(* leaves no goroutine, no DTLS connection and no socket, and the nil that *)
(* it leaves is met by no goroutine before it or once it has returned,     *)
(* however many commands there are and whatever was on the way.            *)
THEOREM ClosedIsClean == Spec => []CloseIsClean
  <1>1. IInv => CloseIsClean
    BY DEF IInv, Closed, NothingLeft, CloseIsClean
  <1>2. QED
    BY <1>1, Invariant, PTL

(* WriteAndWaitIOCtrl takes an answer by its kind: the first command of a  *)
(* kind that returns one has been at the camera, although answers may be   *)
(* late, of another try, or lost, and the queues may drop the oldest.      *)
THEOREM AnswersAreOfTheCamera == Spec => []AnsweredHasArrived
  <1>1. IInv => AnsweredHasArrived
    BY DEF IInv
  <1>2. QED
    BY <1>1, Invariant, PTL
=============================================================================
