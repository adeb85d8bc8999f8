------------------------------ MODULE MCMailer ------------------------------
(* Mails for Mailer: lines of four characters, so that a body has one to    *)
(* three of them, and buffers that end before, at and behind a line break.  *)
EXTENDS Mailer

Kind(size, rcpt, buffer) == [size |-> size, rcpt |-> rcpt, buffer |-> buffer]
Two(a, b) == [m \in Mails |-> IF m = "m1" THEN a ELSE b]
Plain   == {Kind(4, TRUE, buffer) : buffer \in {2, 5, 6, 7, 8, 9, 30}}
           \cup {Kind(7, TRUE, buffer) : buffer \in {5, 11, 13}}
Odd     == {Kind(2, FALSE, 30), Kind(3, TRUE, 30), Kind(9, TRUE, 30)}
MCSetups == {Two(a, Kind(2, TRUE, 30)) : a \in Plain \cup Odd}
=============================================================================
