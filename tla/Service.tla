------------------------------ MODULE Service ------------------------------
(***************************************************************************)
(* What a thread can expect of a system call of the root server: it is     *)
(* served once and then returns with an answer to that very request.  No   *)
(* endpoint, no server, no kernel.                                         *)
(*                                                                         *)
(* RootServer implements this specification.                               *)
(***************************************************************************)
CONSTANTS
  Threads,     \* the callers
  Requests,    \* what they may ask for
  OneWay,      \* the requests that have no answer
  Answers,     \* Answers[r]: the possible answers to r
  OwnCancel,   \* OwnCancel[t]: requests by which t cancels its own call
  NoRequest, NoAnswer

VARIABLES
  phase,       \* phase[t]: "idle", "called", "served"
  request,     \* request[t]: t's latest request ...
  result       \* ... and what it returned

vars == <<phase, request, result>>

Init ==
  /\ phase = [t \in Threads |-> "idle"]
  /\ request = [t \in Threads |-> NoRequest]
  /\ result = [t \in Threads |-> NoAnswer]

Moves(t, from, to) ==
  /\ phase[t] = from
  /\ phase' = [phase EXCEPT ![t] = to]

Call(t, r) ==
  /\ Moves(t, "idle", "called")
  /\ request' = [request EXCEPT ![t] = r]
  /\ result' = [result EXCEPT ![t] = NoAnswer]

Serve(t) ==
  /\ request[t] \notin OneWay
  /\ Moves(t, "called", "served")
  /\ UNCHANGED <<request, result>>

Deliver(t) ==
  /\ request[t] \in OneWay
  /\ Moves(t, "called", "idle")
  /\ UNCHANGED <<request, result>>

Return(t) ==
  /\ Moves(t, "served", "idle")
  /\ \E a \in Answers[request[t]] : result' = [result EXCEPT ![t] = a]
  /\ UNCHANGED request

(* The call has to be made again.                                          *)
Restart(t) ==
  /\ request[t] \in OwnCancel[t]
  /\ Moves(t, "served", "called")
  /\ UNCHANGED <<request, result>>

Next ==
  \E t \in Threads :
    \/ \E r \in Requests : Call(t, r)
    \/ Serve(t) \/ Deliver(t) \/ Return(t) \/ Restart(t)

Spec == Init /\ [][Next]_vars
=============================================================================
