------------------------------ MODULE MCServer ------------------------------
(* Instances of Server: the requests web servers send, as message scripts.  *)
EXTENDS Server, TLC

Request(params, body) ==
    <<Msg("BEGIN", ""), Msg("PARAMS", params), Msg("PARAMS0", "")>> \o body \o <<Msg("STDIN0", "")>>

Small == <<Msg("STDIN", "small")>>
Big   == <<Msg("STDIN", "big")>>
Bad   == <<Msg("STDIN", "bad")>>

SmallForm == Request("", Small)
BigForm   == Request("", Big)
BrokenForm  == Request("", Bad)
BigBody   == Request("body", Big)
Upload    == Request("multipart", Small)
NoUpload  == Request("multipart", <<>>)
OddMethod == Request("badmethod", <<>>)
Aborted   == <<Msg("BEGIN", ""), Msg("OTHER", ""), Msg("PARAMS", ""), Msg("PARAMS0", ""), Msg("ABORT", "")>>
TwoParams == <<Msg("BEGIN", ""), Msg("PARAMS", ""), Msg("PARAMS", ""), Msg("PARAMS0", ""),
               Msg("STDIN0", "")>>
LongParam == <<Msg("BEGIN", ""), Msg("PARAMS", "long"), Msg("PARAMS0", ""), Msg("STDIN0", "")>>

Get     == Request("", <<>>)
GetOnly     == {Get}
GoodScripts == {SmallForm, BigBody, Upload}
FormScripts == {BigForm, Get}
OddScripts  == {Upload, NoUpload, OddMethod, BrokenForm, Aborted, TwoParams, LongParam}

\* What the theorems ask of the scripts is met by all but FormScripts.
ASSUME ScriptsOrderly == \A q \in GetOnly \cup GoodScripts \cup OddScripts : Orderly(q)
ASSUME FormsAreNot == \E q \in FormScripts : ~Orderly(q)

\* Web servers are interchangeable.
Symmetry == Permutations(Conns)
=============================================================================
