-------------------------------- MODULE Rtsp ---------------------------------
(***************************************************************************)
(* The roles of a connection of pkg/rtsp: an active producer that dials a  *)
(* camera (RtspClient), and the connections that the server of             *)
(* internal/rtsp accepts, with the programs that publish to it             *)
(* (RtspServer). No connection has both roles and the roles share no       *)
(* state, so a behaviour here is that of one role.                         *)
(***************************************************************************)
EXTENDS RtspClient

CONSTANTS Others, Calls     \* see RtspServer

ASSUME ServerAssumption == Calls \cap Others = {} /\ "none" \notin Others \cup Calls

VARIABLES
    role,       \* client; viewers, programs: of the server
    pc, asked, peer, sock, connState, closer, listed,
    waiter, chan, execCall, replaces, prod, program, cancelled

serverVars ==
    <<pc, asked, peer, sock, connState, closer, listed,
      waiter, chan, execCall, replaces, prod, program, cancelled>>
roleVars == <<vars, role, serverVars>>

Server == INSTANCE RtspServer WITH state <- connState, call <- execCall

RoleInit ==
    /\ Init /\ Server!Init
    /\ role \in {"client", "viewers", "programs"} /\ (role # "client" => backchannel)

AsClient(A) == role = "client" /\ A /\ UNCHANGED <<role, serverVars>>
AsServer(r, A) == role = r /\ A /\ UNCHANGED <<role, vars>>

RoleOf(c) == IF c \in Calls THEN "programs" ELSE "viewers"

RoleNext ==
    \/ AsClient(Next)
    \/ \E c \in Server!Clients : AsServer(RoleOf(c), Server!Conn(c))
    \/ \E x \in Calls : AsServer("programs", Server!Exec(x))

RoleSpec == RoleInit /\ [][RoleNext]_roleVars

(* Client: the mutex is fair, a deadline that is shorter than the period   *)
(* of the keepalives passes, and a closed connection is noticed. Server:   *)
(* deadlines pass, a program that was killed ends, and reconnect goes on   *)
(* when it has another connection.                                         *)
RoleFairSpec ==
    /\ RoleSpec
    /\ WF_roleVars(AsClient(Call)) /\ SF_roleVars(AsClient(Top))
    /\ WF_roleVars(AsClient(HandleLoop))
    /\ WF_roleVars(AsClient(ReadPacket \/ ReadError)) /\ SF_roleVars(AsClient(ReadError /\ ~patient))
    /\ \A c \in Others \cup Calls : WF_roleVars(AsServer(RoleOf(c), Server!Ends(c) /\ ~peer[c]))
    /\ \A x \in Calls :
        /\ WF_roleVars(AsServer("programs", Server!Fails(x) \/ Server!Gets(x)))
        /\ WF_roleVars(AsServer("programs", Server!ProgramEnds(x) /\ cancelled[x]))
        /\ WF_roleVars(AsServer("programs", Server!Stop(x) /\ Server!Swapped(x)))

-----------------------------------------------------------------------------
(* Properties: those of the roles.                                         *)

(* What has ended stays nowhere: it is closed and in no list, and the      *)
(* programs of calls that are over are told to end. See RtspServer.        *)
NothingListed == Server!NothingListed
NoOrphan == Server!NoOrphan
NothingStays == NothingListed /\ NoOrphan

(* "fix ghost exec/ffmpeg": see RtspServer.                                *)
NoGhostExec == Server!NoGhostExec

(* No program outlives its call or its producer: see RtspServer.           *)
ProgramsEnd == Server!ProgramsEnd
=============================================================================
