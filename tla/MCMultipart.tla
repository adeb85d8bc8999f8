----------------------------- MODULE MCMultipart -----------------------------
(* Forms for Multipart: three parts, of which the first is a field of every *)
(* length, so that the chunks cut the others everywhere.                    *)
EXTENDS Multipart, SequencesExt

Bound == <<"cr", "lf", "-", "-", "b">>
CRLF  == <<"cr", "lf">>
\* No two symbols of a value are the same where one could stand for the other.
d(n)  == [i \in 1..n |-> <<"d", "e", "f">>[(i % 3) + 1]]

HeaderOf(kind, label) ==
    CASE kind = "field"  -> <<label>> \o CRLF \o CRLF
      [] kind = "file"   -> <<label, "file">> \o CRLF \o <<"type">> \o CRLF \o CRLF
      [] kind = "nofile" -> <<label, "nofile">> \o CRLF \o <<"type">> \o CRLF \o CRLF
      [] kind = "other"  -> <<"type">> \o CRLF \o CRLF
      [] kind = "body"   -> <<>>
Part(kind, label, value) ==
    [kind |-> kind, name |-> label, head |-> HeaderOf(kind, label), value |-> value]
Encoded(bytes, part) == bytes \o Bound \o CRLF \o part.head \o part.value
Joined(parts) == FoldLeft(Encoded, <<>>, parts)

Posted(parts) ==
    [parts |-> parts, spool |-> Joined(parts) \o Bound \o <<"-", "-">> \o CRLF,
     at |-> [i \in 1..Len(parts) + 1 |-> Len(Joined(SubSeq(parts, 1, i - 1)))],
     ondisk |-> TRUE, whole |-> TRUE]
\* A form whose sender stopped n bytes before the end.
Truncated(f, n) == [f EXCEPT !.spool = SubSeq(@, 1, Len(@) - n), !.whole = FALSE]
Body(n, disk) == [parts |-> <<Part("body", "[body]", d(n))>>, spool |-> d(n), at |-> <<>>, ondisk |-> disk,
                 whole |-> TRUE]

Second == {Part("field", "y", <<>>), Part("field", "y", <<"cr", "lf", "-", "d">>),
           Part("file", "y", <<>>), Part("file", "y", d(2)), Part("file", "y", <<"cr", "lf", "-", "-">>),
           Part("nofile", "y", <<>>), Part("other", "", d(1))}
Short  == 0..18 \cup {20, 33}
Whole  == {Posted(<<Part("field", "x", d(n)), p, Part("field", "z", d(1))>>) : n \in Short, p \in Second}
          \cup {Posted(<<Part("field", "x", d(n)), Part("field", "y", <<>>), Part("file", "z", d(7))>>) : n \in Short}
Cut    == {Truncated(Posted(<<Part("field", "x", d(n)), Part("file", "y", d(9))>>), 4) : n \in 0..3}
Bodies == {Body(1, FALSE), Body(5, TRUE)}
Three  == {Posted(<<Part("file", "x", d(n)), Part("file", "y", d(1)), Part("file", "z", d(3)),
                    Part("field", "w", d(2))>>) : n \in 1..4}
MCForms == Whole \cup Three \cup Cut \cup Bodies

Zeros == [i \in 1..9 |-> "0"]
MCJunks == {Zeros, <<"lf">> \o Zeros, CRLF \o Zeros, <<"-", "-">> \o Zeros}
           \cup {SubSeq(Bound, i, 5) \o Zeros : i \in 1..5}

ASSUME FormsArePosted == FormsPosted
=============================================================================
