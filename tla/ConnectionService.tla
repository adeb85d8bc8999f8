-------------------------- MODULE ConnectionService --------------------------
(***************************************************************************)
(* What the server promises a connection, without slots, buffers or         *)
(* descriptors: it is taken once, answered at most once, and closed by the  *)
(* server only after the answer, unless the web server has left.  A         *)
(* connection may stay open forever; that none does is Server's liveness.   *)
(***************************************************************************)
CONSTANT Conns

VARIABLES phase,  \* of each connection: waiting, open, answered or closed
          gone    \* its web server has left

serviceVars == <<phase, gone>>

Init == phase = [c \in Conns |-> "waiting"] /\ gone = [c \in Conns |-> FALSE]

Take(c) ==
    /\ phase[c] = "waiting"
    /\ phase' = [phase EXCEPT ![c] = "open"]
    /\ UNCHANGED gone

Answer(c) ==
    /\ phase[c] = "open" /\ ~gone[c]
    /\ phase' = [phase EXCEPT ![c] = "answered"]
    /\ UNCHANGED gone

\* The server closes some connections at a time.
Close ==
    /\ \E closing \in SUBSET {c \in Conns : phase[c] = "answered"
                                            \/ (phase[c] = "open" /\ gone[c])} :
           phase' = [c \in Conns |-> IF c \in closing THEN "closed" ELSE phase[c]]
    /\ UNCHANGED gone

Leave(c) == gone' = [gone EXCEPT ![c] = TRUE] /\ UNCHANGED phase

Next == Close \/ \E c \in Conns : Take(c) \/ Answer(c) \/ Leave(c)

Spec == Init /\ [][Next]_serviceVars
=============================================================================
