------------------------------- MODULE Waiter --------------------------------
(***************************************************************************)
(* The Waiter of pkg/core/waiter.go: a WaitGroup that starts with the      *)
(* first Wait, is finished by the last Done, and stays finished. WebRTC    *)
(* sessions wait with it until the answer or the offer has been sent.      *)
(* Done changes the WaitGroup and the state in two steps under the mutex.  *)
(* The error it may be given is a variable of WebrtcClient.                *)
(***************************************************************************)
EXTENDS Integers

CONSTANT Callers    \* goroutines that use the waiter

VARIABLES
    state,      \* open tasks; -1: finished
    group,      \* the counter of the WaitGroup
    mu,         \* the caller in the middle of Done, or none
    pc          \* what each caller is in

waiterVars == <<state, group, mu, pc>>

Free == "free"      \* no caller holds mu

WaiterInit ==
    /\ state = 0 /\ group = 0 /\ mu = Free
    /\ pc = [c \in Callers |-> "out"]

Goes(c, from, to) == pc[c] = from /\ pc' = [pc EXCEPT ![c] = to]

(* The first Wait starts the waiter.                                       *)
Starts == state = 0

WaitBegins(c) ==
    /\ mu = Free
    /\ Goes(c, "out", "waiting")
    /\ IF Starts
       THEN state' = state + 1 /\ group' = group + 1
       ELSE UNCHANGED <<state, group>>
    /\ UNCHANGED mu

(* WaitGroup.Wait returns.                                                 *)
WaitReturns(c) ==
    /\ group = 0
    /\ Goes(c, "waiting", "out")
    /\ UNCHANGED <<state, group, mu>>

Count == state > 0

DoneBegins(c) ==
    /\ mu = Free /\ mu' = c
    /\ Goes(c, "out", "done")
    /\ IF Count
       THEN state' = state - 1 /\ group' = group - 1
       ELSE UNCHANGED <<state, group>>

(* After the last Done nothing changes any more.                           *)
Finish == state' = IF state = 0 THEN -1 ELSE state

DoneEnds(c) ==
    /\ mu = c /\ mu' = Free
    /\ Goes(c, "done", "out")
    /\ Finish
    /\ UNCHANGED group
=============================================================================
