----------------------------- MODULE CommandAck ------------------------------
(***************************************************************************)
(* Commands to a camera over UDP: WriteCommand of pkg/xiaomi/miss/cs2 and  *)
(* of pkg/tutk, which share this code. A command is written up to five     *)
(* times, a ticker apart, until the worker goroutine calls the closure     *)
(* cmdAck that the latest WriteCommand left on the connection; an          *)
(* acknowledgement is not matched with the command it is for.              *)
(* The camera acknowledges every copy it receives; camera and network are  *)
(* external.                                                               *)
(***************************************************************************)
EXTENDS Integers

CONSTANTS
    Commands,   \* how many commands the callers write, one after the other
    Tries      \* 5 in the code

VARIABLES
    cmd,        \* the last command that took cmdMu
    pc,         \* idle: cmdMu is free; send, wait: in the loop
    repeat,     \* WriteCommand's repeat
    net,        \* commands on the way
    acks,       \* acknowledgements on the way
    arrived,    \* commands the camera has received
    result,     \* what WriteCommand returned
    prompt      \* a fact of the network: what is on the way arrives, or is
                \* lost, within a tick

All == 1..Commands

Init ==
    /\ cmd = 0 /\ pc = "idle" /\ repeat = 0
    /\ net = {} /\ acks = {} /\ arrived = {}
    /\ result = [n \in All |-> "none"]
    /\ prompt \in BOOLEAN

-----------------------------------------------------------------------------

WriteBegins ==
    /\ pc = "idle" /\ cmd < Commands
    /\ cmd' = cmd + 1
    /\ pc' = "send" /\ repeat' = Tries
    /\ UNCHANGED <<net, acks, arrived, result>>

Returns(res) ==
    /\ pc' = "idle"
    /\ result' = [result EXCEPT ![cmd] = res]

WriteSends ==
    /\ pc = "send"
    /\ net' = net \cup {cmd}
    /\ pc' = "wait"
    /\ UNCHANGED <<cmd, repeat, acks, arrived, result>>

(* The socket is closed.                                                   *)
WriteFails ==
    /\ pc = "send"
    /\ Returns("error")
    /\ UNCHANGED <<cmd, repeat, net, acks, arrived>>

(* The ticker fires: at once when cmdAck has reset it, else a second after *)
(* the last time.                                                          *)
Ticks == pc = "wait" /\ (prompt /\ repeat > 0 => net = {} /\ acks = {})

(* repeat.Add(-1) is above 0.                                              *)
Again ==
    /\ Ticks /\ repeat > 1
    /\ repeat' = repeat - 1
    /\ pc' = "send"
    /\ UNCHANGED <<cmd, net, acks, arrived, result>>

(* Mutant: the last try counts as a success.                               *)
GivesUpMutant ==
    /\ Ticks /\ repeat = 1
    /\ repeat' = 0
    /\ Returns("ok")
    /\ UNCHANGED <<cmd, net, acks, arrived>>

(* repeat.Add(-1) is 0.                                                    *)
GivesUp ==
    /\ Ticks /\ repeat = 1
    /\ repeat' = 0
    /\ Returns("error")
    /\ UNCHANGED <<cmd, net, acks, arrived>>

(* repeat.Add(-1) is below 0.                                              *)
Succeeds ==
    /\ Ticks /\ repeat = 0
    /\ Returns("ok")
    /\ UNCHANGED <<cmd, repeat, net, acks, arrived>>

(* cmdAck stores 0. The closure of a command that has returned stores into *)
(* variables nobody reads.                                                 *)
RepeatAcked == IF pc = "idle" THEN repeat ELSE 0

GetAck ==
    /\ \E n \in acks : acks' = acks \ {n}
    /\ repeat' = RepeatAcked
    /\ UNCHANGED <<cmd, pc, net, arrived, result>>

Camera ==
    /\ \E n \in net :
          net' = net \ {n} /\ acks' = acks \cup {n} /\ arrived' = arrived \cup {n}
    /\ UNCHANGED <<cmd, pc, repeat, result>>

Lose ==
    /\ \/ \E n \in net : net' = net \ {n} /\ UNCHANGED acks
       \/ \E n \in acks : acks' = acks \ {n} /\ UNCHANGED net
    /\ UNCHANGED <<cmd, pc, repeat, arrived, result>>

WriteCommand == WriteBegins \/ WriteSends \/ WriteFails \/ Again \/ GivesUp \/ Succeeds

-----------------------------------------------------------------------------
(* Properties.                                                             *)

(* A command that was reported as sent has reached the camera, on a prompt *)
(* network. On another one a second acknowledgement of the last command,   *)
(* when it comes late, counts for the next one.                            *)
SentHasArrived == prompt => \A n \in All : result[n] = "ok" => n \in arrived
=============================================================================
