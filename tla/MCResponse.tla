----------------------------- MODULE MCResponse -----------------------------
(* Instances of Response, see the .cfg files: a buffer of three bytes so    *)
(* that it fills, and a socket that takes a part of it, or every response.  *)
EXTENDS ResponseProperties

Setup(habits, sock, bytes) == [habits |-> habits, sock |-> sock, bytes |-> bytes]

\* A socket that splits records and a handler that only writes and ends.
Split    == Setup({"again", "leave"}, 2, 3)
\* Sockets that take every response.
Statused == Setup({"again", "status"}, 20, 3)
Flushed  == Setup({"flush"}, 20, 5)
Paged    == Setup({"page", "flush"}, 20, 5)

Orderly == {Split, Statused, Flushed, Paged}
Wild    == {Setup({"exec", "late", "flush", "file", "status", "leave"}, 2, 3),
            Setup({"page", "flush", "file", "status", "leave"}, 2, 3)}

\* What the theorems ask is met here, and in part there.
ASSUME OrderlyDeliverable == Setups = Orderly => Deliverable /\ PagesInDone /\ StatusesWhole
ASSUME WildPagesInDone == Setups = Wild => PagesInDone

\* Where the code does not do what its comments say.
StatusAfterFlush == {Setup({"flush", "status"}, 20, 4)}
OutputInExec     == {Setup({"exec"}, 20, 6)}
=============================================================================
