------------------------------ MODULE LatestValue ------------------------------
(***************************************************************************)
(* What a socket's control report sender promises: one value at most is    *)
(* under way and one waits, a newer value replaces the waiting one, values *)
(* leave in the order they came, and nothing leaves once the socket is     *)
(* closed.  Module ControlReports implements it.                           *)
(***************************************************************************)
CONSTANTS
    Sockets,    \* every socket has a register of its own
    none        \* the empty register

VARIABLES
    pending,    \* the value that waits
    sending,    \* the value under way
    open        \* whether the socket is open

vars == <<pending, sending, open>>

Init ==
    /\ pending = [s \in Sockets |-> none]
    /\ sending = [s \in Sockets |-> none]
    /\ open \in [Sockets -> BOOLEAN]

\* Publishing never waits, whatever is pending or under way; the value is the
\* publisher's choice.
Publish(s) ==
    /\ pending'[s] # none
    /\ pending' = [pending EXCEPT ![s] = pending'[s]]
    /\ UNCHANGED <<sending, open>>

Take(s) ==
    /\ open[s] /\ pending[s] # none /\ sending[s] = none
    /\ sending' = [sending EXCEPT ![s] = pending[s]]
    /\ pending' = [pending EXCEPT ![s] = none]
    /\ UNCHANGED open

Done(s) ==
    /\ sending[s] # none
    /\ sending' = [sending EXCEPT ![s] = none]
    /\ UNCHANGED <<pending, open>>

\* Closing may cut off the value under way.
Close(s) ==
    /\ open[s]
    /\ open' = [open EXCEPT ![s] = FALSE]
    /\ sending' \in {sending, [sending EXCEPT ![s] = none]}
    /\ UNCHANGED pending

Discard(s) ==
    /\ ~open[s] /\ pending[s] # none
    /\ pending' = [pending EXCEPT ![s] = none]
    /\ UNCHANGED <<sending, open>>

Next == \E s \in Sockets : Publish(s) \/ Take(s) \/ Done(s) \/ Close(s) \/ Discard(s)

\* The promise without its liveness.
Safety == Init /\ [][Next]_vars

\* Every value leaves, is replaced by one that does, or the socket closes; what
\* is under way ends.
Progress ==
    \A s \in Sockets :
        /\ (pending[s] # none) ~> (pending[s] = none \/ ~open[s])
        /\ (sending[s] # none) ~> (sending[s] = none)

Spec == Safety /\ Progress
===============================================================================
