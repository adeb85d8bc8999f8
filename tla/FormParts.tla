------------------------------ MODULE FormParts ------------------------------
(***************************************************************************)
(* What reading a multipart form promises, however the form is cut on its   *)
(* way: parts are taken over in their order, each at most once, fields as a *)
(* parameter and files as an upload that grows; nothing is ever stored that *)
(* the form does not contain. Parts may be left out, and a field or a file  *)
(* may end early.                                                           *)
(***************************************************************************)
EXTENDS Naturals, Sequences

VARIABLES
    parts,      \* the form: [kind, name, value], its names distinct
    params,     \* what was stored, <<name, value>>
    uploads     \* [name, data] of the files

vars == <<parts, params, uploads>>

Recorded(name) ==
    \/ \E k \in DOMAIN params : params[k][1] = name
    \/ \E k \in DOMAIN uploads : uploads[k].name = name
\* Part i may be recorded as long as none behind it has been.
IsNext(i) == \A j \in i..Len(parts) : ~Recorded(parts[j].name)
IsLast(i) == /\ Recorded(parts[i].name)
             /\ \A j \in i + 1..Len(parts) : ~Recorded(parts[j].name)

Init == params = <<>> /\ uploads = <<>>

AddField ==
    /\ \E i \in DOMAIN parts : \E n \in 1..Len(parts[i].value) :
         /\ parts[i].kind = "field" /\ IsNext(i)
         /\ params' = Append(params, <<parts[i].name, SubSeq(parts[i].value, 1, n)>>)
    /\ UNCHANGED <<parts, uploads>>

AddFile ==
    /\ \E i \in DOMAIN parts :
         /\ parts[i].kind \in {"file", "body"} /\ IsNext(i)
         /\ \E n \in 0..Len(parts[i].value) :
              uploads' = Append(uploads, [name |-> parts[i].name,
                                          data |-> SubSeq(parts[i].value, 1, n)])
    /\ UNCHANGED <<parts, params>>

\* The file read last grows by a piece of its part.
Grow ==
    /\ uploads # <<>>
    /\ LET last == Len(uploads)
       IN  \E i \in DOMAIN parts :
             /\ parts[i].name = uploads[last].name /\ IsLast(i)
             /\ \E n \in Len(uploads[last].data) + 1..Len(parts[i].value) :
                  uploads' = [uploads EXCEPT ![last].data = SubSeq(parts[i].value, 1, n)]
    /\ UNCHANGED <<parts, params>>

Next == AddField \/ AddFile \/ Grow
Spec == Init /\ [][Next]_vars
=============================================================================
