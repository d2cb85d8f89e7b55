------------------------------- MODULE Cs2Conn -------------------------------
(***************************************************************************)
(* A connection of pkg/xiaomi/miss/cs2 as a whole: the media that its      *)
(* worker pushes (Cs2Channel), and the commands that its callers write     *)
(* (CommandAck). The two share the socket and the worker, which hands an   *)
(* acknowledgement to cmdAck between two packets, and no other state: a    *)
(* worker that has ended is to CommandAck a network that loses every       *)
(* acknowledgement. So a behaviour here is one of the two parts, and those *)
(* of both are their interleavings.                                        *)
(***************************************************************************)
EXTENDS Cs2Channel

CONSTANTS
    Commands,   \* see CommandAck
    Tries       \* the first value of its repeat: 5

ASSUME CommandsAssumption == Commands \in Nat /\ Tries \in Nat \ {0}

VARIABLES
    part,       \* media or commands
    cmd, cmdPc, repeat, cmdNet, cmdAcks, arrived, result, prompt

commandVars == <<cmd, cmdPc, repeat, cmdNet, cmdAcks, arrived, result, prompt>>
connVars == <<vars, part, commandVars>>

Command == INSTANCE CommandAck WITH pc <- cmdPc, net <- cmdNet, acks <- cmdAcks

(* The part that does nothing is in one initial state.                     *)
ConnInit ==
    /\ Init /\ Command!Init
    /\ \/ part = "media" /\ ~prompt
       \/ part = "commands" /\ cut = CHOOSE c \in Cuts : TRUE

Media == part = "media" /\ Next /\ UNCHANGED <<part, commandVars>>

Commanding(A) == part = "commands" /\ A /\ UNCHANGED <<vars, part, prompt>>

ConnNext ==
    \/ Media
    \/ Commanding(Command!WriteCommand)
    \/ Commanding(Command!GetAck \/ Command!Camera \/ Command!Lose)

ConnSpec == ConnInit /\ [][ConnNext]_connVars

-----------------------------------------------------------------------------
(* Properties: those of the parts.                                         *)

(* What the commands promise on a prompt network: see CommandAck.          *)
SentHasArrived == Command!SentHasArrived
=============================================================================
