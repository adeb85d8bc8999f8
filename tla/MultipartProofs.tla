--------------------------- MODULE MultipartProofs ---------------------------
(***************************************************************************)
(* For every form, every size of the chunks, of the buffers and of the      *)
(* upload list, and whatever lies in memory behind a chunk: the parser and  *)
(* its caller stay inside their buffers, and the files are closed. For      *)
(* every form as browsers post it: only its parts are stored, and all of    *)
(* them where nothing slipped.                                              *)
(***************************************************************************)
EXTENDS Multipart, SequenceLemmas, SequenceTheorems, WellFoundedInduction, TLAPS

USE MultipartAssumption DEF window, stored, vars

MpStates == {"BEGIN", "HEADER", "FILETYPE", "FILEDATA", "FLDDATA", "FINISH"}
Positions == {"start", "parse", "read", "done", "body", "copy", "over"}
Outcomes == {"none", "finished", "broken", "exhausted", "lost", "failed"}
Slips == {"beyond", "dropped", "full", "nofile", "unwritten"}
Uploads == [name : Names \cup {"", "[body]"}, data : Seq(STRING), bytes : Int, linked : BOOLEAN]

(* The inductive invariant, by what the actions change together: the chunk  *)
(* and the caller's counters; the value being read; the files. A parser     *)
(* that reads a value knows the name it is for, and as soon as a file was   *)
(* made there is an UploadFile to write to, also when no more can be made.  *)
(* What lies behind the end of flddata is the terminator of a value that    *)
(* fills it; the next value starts anew.                                    *)
ChunkInv ==
    /\ form \in Forms /\ ctl \in Positions
    /\ mem \in Seq(STRING) /\ Len(mem) <= MAX_MP /\ mp \in 0..Len(mem)
    /\ rd \in 0..Len(form.spool) /\ brmax \in 0..MAX_MP
    /\ mp_state \in MpStates /\ outcome \in Outcomes
    /\ ctl = "start" => mp = 0
ValueInv ==
    /\ name \in Names \cup {""}
    /\ flddata \in Seq(STRING) /\ (Len(flddata) <= REQ_MAX_FLDDATA \/ TerminatorBehind)
    /\ params \in Seq(Names \X Seq(STRING))
    /\ mp_state \in {"FLDDATA", "FILETYPE", "FILEDATA"} => name \in Names
    /\ slips \subseteq Slips
FileInv ==
    /\ uploads \in Seq(Uploads) /\ Len(uploads) <= REQ_MAX_UPLOADS
    /\ upfile \in 1..Len(uploads) \cup {NULL, Orphan}
    /\ Len(uploads) > 0 => upfile # NULL
    /\ mp_state = "FILEDATA" => upfile # NULL
    /\ fd_upload \in BOOLEAN /\ fd_spool \in BOOLEAN
Inv == ChunkInv /\ ValueInv /\ FileInv

(* The invariant is stronger than the property that TLC checks. *)
LEMMA InvImplies == Inv => TypeOK
<1> SUFFICES ASSUME Inv PROVE TypeOK
  OBVIOUS
<1>1. \A k \in DOMAIN params : params[k][1] \in Names
  <2> TAKE k \in DOMAIN params
  <2>1. params[k] \in Names \X Seq(STRING)
    BY ElementOfSeq, LenProperties DEF Inv, ValueInv
  <2>2. QED BY <2>1
<1>2. DOMAIN uploads = 1..Len(uploads)
  BY LenProperties DEF Inv, FileInv
<1>3. InBuffers
  BY DEF InBuffers, Inv, ChunkInv, ValueInv, FileInv
<1>4. QED
  BY <1>1, <1>2, <1>3 DEF TypeOK, Inv, ChunkInv, ValueInv, FileInv,
     MpStates, Positions, Outcomes, Slips
-----------------------------------------------------------------------------
(* The first of several places exists. *)
LEMMA LeastOf ==
    ASSUME NEW S \in SUBSET Nat, S # {}
    PROVE  Least(S) \in S /\ \A j \in S : Least(S) <= j
<1> DEFINE Below == {ss \in Nat \X Nat : ss[1] < ss[2]}
<1>1. IsWellFoundedOn(Below, Nat)
  BY NatLessThanWellFounded DEF OpToRel
<1>2. \A y, x \in Nat : ~(<<y, x>> \in Below) => x <= y
  OBVIOUS
<1>3. PICK x \in S : \A y \in S : ~ (<<y, x>> \in Below)
  <2> HIDE DEF Below
  <2>1. QED BY <1>1, WFMin
<1>4. \A y \in S : x <= y
  <2> HIDE DEF Below
  <2>1. QED BY <1>2, <1>3
<1>5. QED BY <1>4 DEF Least

(* A piece of a sequence of symbols is one, of the length asked for. *)
LEMMA PieceOf ==
    ASSUME NEW S, NEW s \in Seq(S), NEW i \in Nat, NEW n \in Nat, i + n <= Len(s)
    PROVE  SubSeq(s, i + 1, i + n) \in Seq(S) /\ Len(SubSeq(s, i + 1, i + n)) = n
<1>1. \A k \in i + 1..i + n : s[k] \in S
  BY ElementOfSeq, LenProperties
<1>2. QED BY <1>1, SubSeqProperties

(* The smaller of two lengths is a length that exceeds neither. *)
LEMMA SmallerType ==
    ASSUME NEW a \in Nat, NEW b \in Nat
    PROVE  Smaller(a, b) \in Nat /\ Smaller(a, b) <= a /\ Smaller(a, b) <= b
BY DEF Smaller

(* What the parser is given is what is left of the chunk. *)
LEMMA DataType ==
    ASSUME ChunkInv
    PROVE  data \in Seq(STRING) /\ dlen = Len(mem) - mp /\ dlen \in Nat
<1>1. Len(mem) \in Nat /\ mp \in Nat /\ Len(mem) - mp \in Nat
  BY LenProperties DEF ChunkInv
<1>2. data = SubSeq(mem, mp + 1, mp + (Len(mem) - mp))
  BY <1>1 DEF data
<1>3. QED BY <1>1, <1>2, PieceOf DEF ChunkInv, dlen

(* The rest of the spool, and a piece of it. *)
LEMMA LeftType ==
    ASSUME ChunkInv
    PROVE  Left \in Nat /\ Len(form.spool) \in Nat
           /\ \A n \in 0..Left : /\ Spool(rd, n) \in Seq(STRING)
                                 /\ Len(Spool(rd, n)) = n /\ rd + n \in 0..Len(form.spool)
<1>1. form.spool \in Seq(STRING) /\ rd \in Nat /\ Len(form.spool) \in Nat
  BY LenProperties DEF ChunkInv
<1>2. Left \in Nat /\ rd + Left = Len(form.spool)
  BY <1>1 DEF ChunkInv, Left
<1>3. ASSUME NEW n \in 0..Left
      PROVE  Spool(rd, n) \in Seq(STRING) /\ Len(Spool(rd, n)) = n
  BY <1>1, <1>2, <1>3, PieceOf DEF Spool
<1>4. \A n \in 0..Left : rd + n \in 0..Len(form.spool)
  BY <1>1, <1>2
<1>5. QED BY <1>1, <1>2, <1>3, <1>4

(* A boundary that was found lies in the chunk. *)
LEMMA BoundaryType ==
    ASSUME ChunkInv, BoundaryAt # {}
    PROVE  memmem \in Nat /\ memmem + bound_len <= dlen
<1>1. bound_len \in Nat /\ dlen \in Nat
  BY DataType, LenProperties DEF bound_len
<1>2. BoundaryAt \in SUBSET Nat
  BY <1>1 DEF BoundaryAt
<1>3. memmem \in BoundaryAt
  BY <1>2, LeastOf DEF memmem
<1>4. QED BY <1>1, <1>3 DEF BoundaryAt

(* What is noted about a reading stays a set of names. *)
LEMMA SlipType ==
    ASSUME slips \subseteq Slips, NEW kind \in Slips, NEW when, Slip(kind, when)
    PROVE  slips' \subseteq Slips
BY DEF Slip

(* The names that are noted. *)
LEMMA SlipNames ==
    /\ "beyond" \in Slips /\ "dropped" \in Slips /\ "full" \in Slips /\ "nofile" \in Slips
    /\ "unwritten" \in Slips
BY DEF Slips
-----------------------------------------------------------------------------
(* The caller goes on in the chunk, or with the next one, or stops. *)
LEMMA ConsumeChunk ==
    ASSUME ChunkInv, NEW n \in Int, NEW to \in MpStates, Consume(n, to)
    PROVE  ChunkInv' /\ mp_state' = to /\ UNCHANGED <<rd, mem, fd_spool>>
<1>1. UNCHANGED <<form, rd, mem, brmax, fd_spool>> /\ mp_state' = to
  BY DEF Consume
<1>2. /\ mp' \in 0..Len(mem)
      /\ ctl' \in {"done", "read", "parse", "over"}
      /\ outcome' \in {outcome, "finished", "lost"}
  BY DEF Consume, ChunkInv
<1>3. ctl' \in Positions /\ ctl' # "start"
  BY <1>2 DEF Positions
<1>4. outcome' \in Outcomes
  BY <1>2 DEF Outcomes, ChunkInv
<1>5. QED BY <1>1, <1>2, <1>3, <1>4 DEF ChunkInv

(* An exception leaves everything as it is. *)
LEMMA ThrowInv ==
    ASSUME Inv, Throw, slips' \subseteq Slips
    PROVE  Inv'
<1>1. ctl' \in Positions /\ ctl' # "start" /\ outcome' \in Outcomes
  BY DEF Throw, Positions, Outcomes
<1>2. UNCHANGED <<form, rd, mem, mp, brmax, mp_state, name, flddata, stored, fd_spool>>
  BY DEF Throw
<1>3. ChunkInv'
  BY <1>1, <1>2 DEF Inv, ChunkInv
<1>4. ValueInv' /\ FileInv'
  BY <1>2 DEF Inv, ValueInv, FileInv, TerminatorBehind
<1>5. QED BY <1>3, <1>4 DEF Inv

(* A step that consumes a part of the chunk and stores nothing. *)
LEMMA ConsumeInv ==
    ASSUME Inv, NEW n \in Int, NEW to \in MpStates, Consume(n, to), slips' \subseteq Slips,
           UNCHANGED <<name, flddata, stored>>,
           to \in {"FLDDATA", "FILETYPE", "FILEDATA"} => name \in Names,
           to = "FLDDATA" => mp_state = "FLDDATA",
           to = "FILEDATA" => upfile # NULL
    PROVE  Inv'
<1>1. ChunkInv' /\ mp_state' = to /\ UNCHANGED fd_spool
  BY ConsumeChunk DEF Inv
<1>2. ValueInv' /\ FileInv'
  BY <1>1 DEF Inv, ValueInv, FileInv, TerminatorBehind
<1>3. QED BY <1>1, <1>2 DEF Inv

(* The states the parser is sent to. *)
LEMMA StateNames ==
    /\ "BEGIN" \in MpStates /\ "HEADER" \in MpStates /\ "FILETYPE" \in MpStates
    /\ "FILEDATA" \in MpStates /\ "FLDDATA" \in MpStates /\ "FINISH" \in MpStates
BY DEF MpStates

(* A boundary has five symbols at least. *)
LEMMA BoundLength == bound_len \in Nat /\ bound_len >= 5
BY LenProperties DEF bound_len

(* A chunk that ends too early for the state it is parsed in. *)
LEMMA CutInv ==
    ASSUME Inv, HeaderCut \/ FileTypeCut \/ FileDataCut \/ FieldCut
    PROVE  Inv'
<1>1. /\ Consume(0, mp_state) /\ UNCHANGED <<name, flddata, stored, slips>>
  BY DEF HeaderCut, FileTypeCut, FileDataCut, FieldCut, Parsing
<1>2. mp_state \in MpStates /\ slips' \subseteq Slips
  BY <1>1 DEF Inv, ChunkInv, ValueInv
<1>3. /\ mp_state \in {"FLDDATA", "FILETYPE", "FILEDATA"} => name \in Names
      /\ mp_state = "FILEDATA" => upfile # NULL
  BY DEF Inv, ValueInv, FileInv
<1>4. QED BY <1>1, <1>2, <1>3, ConsumeInv

(* MP_BEGIN without a boundary in the chunk. *)
LEMMA SkipToBoundaryInv ==
    ASSUME Inv, SkipToBoundary
    PROVE  Inv'
<1> DEFINE n == IF dlen < bound_len THEN 0 ELSE Searched
<1>1. n \in Int
  BY DataType, BoundLength DEF Searched, Inv
<1>2. Consume(n, "BEGIN") /\ UNCHANGED <<name, flddata, stored, slips>>
  BY DEF SkipToBoundary
<1>3. slips' \subseteq Slips
  BY <1>2 DEF Inv, ValueInv
<1> HIDE DEF n
<1>4. QED BY <1>1, <1>2, <1>3, ConsumeInv, StateNames

(* MP_BEGIN with one. *)
LEMMA FindBoundaryInv ==
    ASSUME Inv, FindBoundary
    PROVE  Inv'
<1> DEFINE i == memmem + bound_len
<1>1. i + 2 \in Int
  BY BoundaryType, BoundLength DEF FindBoundary, Inv
<1>2. slips' \subseteq Slips
  <2>1. Slip("beyond", i + 2 > dlen)
    BY DEF FindBoundary
  <2> HIDE DEF i
  <2>2. QED BY <2>1, SlipType, SlipNames DEF Inv, ValueInv
<1>3. \/ Consume(i + 2, "FINISH") /\ UNCHANGED <<name, flddata, stored>>
      \/ Consume(i + 2, "HEADER") /\ UNCHANGED <<name, flddata, stored>>
      \/ Throw
  BY DEF FindBoundary
<1> HIDE DEF i
<1>4. CASE Throw
  BY <1>2, <1>4, ThrowInv
<1>5. CASE Consume(i + 2, "FINISH") /\ UNCHANGED <<name, flddata, stored>>
  BY <1>1, <1>2, <1>5, ConsumeInv, StateNames
<1>6. CASE Consume(i + 2, "HEADER") /\ UNCHANGED <<name, flddata, stored>>
  BY <1>1, <1>2, <1>6, ConsumeInv, StateNames
<1>7. QED BY <1>3, <1>4, <1>5, <1>6

(* A header line ends in the chunk; what is found in it lies in front. *)
LineEnd == Least(LineEnds(data \o <<dash>>))
Line == SubSeq(data, 1, LineEnd)
(* The line and the names found in it. *)
LEMMA HeaderType ==
    ASSUME Inv, LineEnds(data \o <<dash>>) # {}
    PROVE  /\ LineEnd \in Nat
           /\ \A symbols : IndexOf(Line, symbols) # {} =>
                               /\ Least(IndexOf(Line, symbols)) \in Nat
                               /\ Line[Least(IndexOf(Line, symbols))] \in symbols
<1>1. data \in Seq(STRING) /\ dlen \in Nat /\ dlen = Len(data)
  BY DataType DEF Inv, dlen
<1>2. LineEnd \in 0..dlen
  <2>1. LineEnds(data \o <<dash>>) \in SUBSET (0..dlen - 1)
    BY DEF LineEnds
  <2>2. 0..dlen - 1 \in SUBSET Nat /\ 0..dlen - 1 \in SUBSET (0..dlen)
    BY <1>1
  <2>3. QED BY <2>1, <2>2, LeastOf DEF LineEnd
<1>3. LineEnd \in Nat /\ Line \in Seq(STRING)
  <2>1. LineEnd \in Nat /\ 0 \in Nat /\ 0 + LineEnd <= Len(data)
    BY <1>1, <1>2
  <2>2. SubSeq(data, 0 + 1, 0 + LineEnd) \in Seq(STRING)
    BY <1>1, <2>1, PieceOf
  <2>3. QED BY <2>1, <2>2 DEF Line
<1>4. ASSUME NEW symbols, IndexOf(Line, symbols) # {}
      PROVE  /\ Least(IndexOf(Line, symbols)) \in Nat
             /\ Line[Least(IndexOf(Line, symbols))] \in symbols
  <2>1. IndexOf(Line, symbols) \in SUBSET Nat
    BY <1>3, LenProperties DEF IndexOf
  <2>2. Least(IndexOf(Line, symbols)) \in IndexOf(Line, symbols)
    BY <1>4, <2>1, LeastOf
  <2>3. QED BY <2>1, <2>2 DEF IndexOf
<1>5. QED BY <1>3, <1>4

(* MP_HEADER with the whole line in the chunk. *)
LEMMA HeaderInv ==
    ASSUME Inv, Header
    PROVE  Inv'
<1> DEFINE named == IndexOf(Line, Names)
           files == IndexOf(Line, {"file", "nofile"})
           sep == LineEnd + 2
<1>0. LineEnds(data \o <<dash>>) # {}
  BY DEF Header
<1>1. /\ LineEnd \in Nat
      /\ named # {} => Line[Least(named)] \in Names
      /\ files # {} => Least(files) \in Nat
  BY <1>0, HeaderType
<1>2. \/ /\ Consume(LineEnd + 2, "BEGIN") /\ Slip("beyond", LineEnd + 2 > dlen)
         /\ UNCHANGED <<name, flddata, stored>>
      \/ \E to \in {"FILETYPE", "BEGIN"} :
           /\ named # {} /\ files # {} /\ name' = Line[Least(named)]
           /\ Consume(Least(files) + 2, to) /\ Slip("beyond", Least(files) + 2 > dlen)
           /\ UNCHANGED <<flddata, stored>>
      \/ /\ named # {} /\ Slip("beyond", sep + 2 > dlen \/ Undecided(sep + 2))
         /\ \/ Throw
            \/ \E to \in {"BEGIN", "FLDDATA"} :
                 /\ name' = Line[Least(named)] /\ flddata' = <<>>
                 /\ Consume(sep + 2, to) /\ UNCHANGED stored
  BY DEF Header, LineEnd, Line
<1> HIDE DEF named, files
<1>3. slips' \subseteq Slips
  <2>1. \E when : Slip("beyond", when)
    BY <1>2
  <2>2. QED BY <2>1, SlipType, SlipNames DEF Inv, ValueInv
<1>4. CASE /\ Consume(LineEnd + 2, "BEGIN") /\ UNCHANGED <<name, flddata, stored>>
  BY <1>1, <1>3, <1>4, ConsumeInv, StateNames
<1>5. CASE Throw
  BY <1>3, <1>5, ThrowInv
<1>6. ASSUME NEW to \in {"FILETYPE", "BEGIN", "FLDDATA"}, NEW n \in Int, Consume(n, to),
             named # {}, name' = Line[Least(named)], UNCHANGED stored,
             flddata' = <<>> \/ (flddata' = flddata /\ to # "FLDDATA")
      PROVE  Inv'
  <2>1. to \in MpStates
    BY StateNames
  <2>2. ChunkInv' /\ mp_state' = to /\ UNCHANGED fd_spool
    BY <1>6, <2>1, ConsumeChunk DEF Inv
  <2>3. flddata' \in Seq(STRING) /\ (Len(flddata') <= REQ_MAX_FLDDATA \/ TerminatorBehind')
    <3>1. <<>> \in Seq(STRING) /\ Len(<<>>) = 0 /\ 0 <= REQ_MAX_FLDDATA
      BY EmptySeq
    <3>2. CASE flddata' = <<>>
      BY <3>1, <3>2
    <3>3. CASE flddata' = flddata /\ to # "FLDDATA"
      BY <2>2, <3>3 DEF Inv, ValueInv, TerminatorBehind
    <3>4. QED BY <1>6, <3>2, <3>3
  <2>4. ValueInv'
    BY <1>1, <1>3, <1>6, <2>2, <2>3 DEF Inv, ValueInv
  <2>5. FileInv'
    BY <1>6, <2>2 DEF Inv, FileInv
  <2>6. QED BY <2>2, <2>4, <2>5 DEF Inv
<1>7. QED
  <2>1. CASE \E to \in {"FILETYPE", "BEGIN"} :
               /\ named # {} /\ files # {} /\ name' = Line[Least(named)]
               /\ Consume(Least(files) + 2, to) /\ UNCHANGED <<flddata, stored>>
    <3>1. files # {} => Least(files) + 2 \in Int
      BY <1>1
    <3>2. QED BY <1>6, <2>1, <3>1
  <2>2. CASE \E to \in {"BEGIN", "FLDDATA"} :
               /\ named # {} /\ name' = Line[Least(named)] /\ flddata' = <<>>
               /\ Consume(sep + 2, to) /\ UNCHANGED stored
    <3>1. sep + 2 \in Int
      BY <1>1
    <3> HIDE DEF sep
    <3>2. QED BY <1>6, <2>2, <3>1
  <2>3. QED BY <1>2, <1>4, <1>5, <2>1, <2>2

(* A line that ends in what lies behind the chunk. *)
LEMMA HeaderTornInv ==
    ASSUME Inv, HeaderTorn
    PROVE  Inv'
<1>1. /\ ctl' = "over" /\ outcome' = "lost" /\ Slip("beyond", TRUE)
      /\ UNCHANGED <<form, rd, mem, mp, brmax, mp_state, name, flddata, stored, fd_spool>>
  BY DEF HeaderTorn
<1>2. ctl' \in Positions /\ ctl' # "start" /\ outcome' \in Outcomes
  BY <1>1 DEF Positions, Outcomes
<1>3. slips' \subseteq Slips
  BY <1>1, SlipType, SlipNames DEF Inv, ValueInv
<1>4. ValueInv'
  BY <1>1, <1>3 DEF Inv, ValueInv, TerminatorBehind
<1>5. ChunkInv' /\ FileInv'
  BY <1>1, <1>2 DEF Inv, ChunkInv, FileInv
<1>6. QED BY <1>4, <1>5 DEF Inv
-----------------------------------------------------------------------------
(* A changed field of an upload leaves the list one of uploads. *)
LEMMA DataSet ==
    ASSUME NEW u \in Seq(Uploads), NEW i \in 1..Len(u), NEW bytes \in Seq(STRING)
    PROVE  /\ [u EXCEPT ![i].data = bytes] \in Seq(Uploads)
           /\ Len([u EXCEPT ![i].data = bytes]) = Len(u)
<1>1. u[i] \in Uploads
  BY ElementOfSeq
<1>2. [u[i] EXCEPT !.data = bytes] \in Uploads
  BY <1>1 DEF Uploads
<1>3. QED BY <1>2, ExceptSeq

(* An upload whose counter is set remains one. *)
LEMMA BytesSet ==
    ASSUME NEW u \in Seq(Uploads), NEW i \in 1..Len(u), NEW n \in Int
    PROVE  /\ [u EXCEPT ![i].bytes = n] \in Seq(Uploads)
           /\ Len([u EXCEPT ![i].bytes = n]) = Len(u)
<1>1. u[i] \in Uploads
  BY ElementOfSeq
<1>2. [u[i] EXCEPT !.bytes = n] \in Uploads
  BY <1>1 DEF Uploads
<1>3. QED BY <1>2, ExceptSeq

(* An upload that is removed remains one. *)
LEMMA LinkedSet ==
    ASSUME NEW u \in Seq(Uploads), NEW i \in 1..Len(u), NEW l \in BOOLEAN
    PROVE  /\ [u EXCEPT ![i].linked = l] \in Seq(Uploads)
           /\ Len([u EXCEPT ![i].linked = l]) = Len(u)
<1>1. u[i] \in Uploads
  BY ElementOfSeq
<1>2. [u[i] EXCEPT !.linked = l] \in Uploads
  BY <1>1 DEF Uploads
<1>3. QED BY <1>2, ExceptSeq

(* What the list of uploads holds. *)
LEMMA ElementType ==
    ASSUME NEW u \in Seq(Uploads), NEW i \in 1..Len(u)
    PROVE  u[i].data \in Seq(STRING) /\ u[i].bytes \in Int /\ u[i].linked \in BOOLEAN
<1>1. u[i] \in Uploads
  BY ElementOfSeq
<1>2. QED BY <1>1 DEF Uploads

(* What is in the file after a write() that returns bw. *)
LEMMA AppendedType ==
    ASSUME Inv, NEW bw \in -1..dlen, NEW bytes \in Seq(STRING)
    PROVE  Appended(bytes, bw) \in Seq(STRING)
<1>1. CASE bw = -1
  BY <1>1 DEF Appended
<1>2. CASE bw # -1
  <2>1. dlen \in Nat /\ data \in Seq(STRING) /\ dlen = Len(data)
    BY DataType DEF Inv, dlen
  <2>2. 0 \in Nat /\ bw \in Nat /\ 0 + bw <= Len(data)
    BY <1>2, <2>1
  <2>3. SubSeq(data, 0 + 1, 0 + bw) \in Seq(STRING)
    BY <2>1, <2>2, PieceOf
  <2>4. SubSeq(data, 1, bw) \in Seq(STRING)
    BY <2>3
  <2>5. bytes \o SubSeq(data, 1, bw) \in Seq(STRING)
    BY <2>4, ConcatProperties
  <2>6. QED BY <1>2, <2>5 DEF Appended
<1>3. QED BY <1>1, <1>2

(* A write() that was noted. *)
LEMMA WriteType ==
    ASSUME Inv, NEW n \in 0..dlen, NEW bw \in write(n), Unwritten(bw)
    PROVE  bw \in -1..dlen /\ slips' \subseteq Slips
<1>1. bw \in {n, -1} /\ dlen \in Nat
  BY DataType DEF write, Inv
<1>2. slips' \subseteq Slips
  BY SlipType, SlipNames DEF Unwritten, Inv, ValueInv
<1>3. QED BY <1>1, <1>2

(* write() into the upload. *)
LEMMA WriteUploadType ==
    ASSUME Inv, NEW bw \in -1..dlen, WriteUpload(bw)
    PROVE  uploads' \in Seq(Uploads) /\ Len(uploads') = Len(uploads)
<1>1. uploads \in Seq(Uploads) /\ DOMAIN uploads = 1..Len(uploads)
  BY LenProperties DEF Inv, FileInv
<1>2. CASE upfile \notin DOMAIN uploads
  BY <1>1, <1>2 DEF WriteUpload
<1>3. CASE upfile \in DOMAIN uploads
  <2> DEFINE bytes == Appended(uploads[upfile].data, bw)
             u == [uploads EXCEPT ![upfile].data = bytes]
  <2>1. bytes \in Seq(STRING)
    BY <1>1, <1>3, ElementType, AppendedType
  <2>2. Counted(bw) \in Int
    BY <1>1, <1>3, ElementType DEF Counted
  <2>3. uploads' = [u EXCEPT ![upfile].bytes = Counted(bw)]
    BY <1>3 DEF WriteUpload
  <2> HIDE DEF bytes
  <2>4. u \in Seq(Uploads) /\ Len(u) = Len(uploads)
    BY <1>1, <1>3, <2>1, DataSet
  <2> HIDE DEF u
  <2>5. QED BY <1>1, <1>3, <2>2, <2>3, <2>4, BytesSet
<1>4. QED BY <1>2, <1>3

(* What FileDataEnd makes of the uploads when its write() returns bw. *)
EndUpload(bw) ==
    uploads' = IF upfile \in DOMAIN uploads
               THEN [uploads EXCEPT ![upfile].data = Appended(@, bw),
                                    ![upfile].bytes = Counted(bw),
                                    ![upfile].linked = @ /\ Counted(bw) # 0]
               ELSE uploads

(* The file that ends. *)
LEMMA FileEndType ==
    ASSUME Inv, NEW bw \in -1..dlen, EndUpload(bw)
    PROVE  uploads' \in Seq(Uploads) /\ Len(uploads') = Len(uploads)
<1>1. uploads \in Seq(Uploads) /\ DOMAIN uploads = 1..Len(uploads)
  BY LenProperties DEF Inv, FileInv
<1>2. CASE upfile \notin DOMAIN uploads
  BY <1>1, <1>2 DEF EndUpload
<1>3. CASE upfile \in DOMAIN uploads
  <2> DEFINE bytes == Appended(uploads[upfile].data, bw)
             u == [uploads EXCEPT ![upfile].data = bytes]
             v == [u EXCEPT ![upfile].bytes = Counted(bw)]
             l == v[upfile].linked /\ Counted(bw) # 0
  <2>1. bytes \in Seq(STRING)
    BY <1>1, <1>3, ElementType, AppendedType
  <2>2. Counted(bw) \in Int
    BY <1>1, <1>3, ElementType DEF Counted
  <2>3. uploads' = [v EXCEPT ![upfile].linked = l]
    BY <1>3 DEF EndUpload
  <2> HIDE DEF bytes
  <2>4. u \in Seq(Uploads) /\ Len(u) = Len(uploads)
    BY <1>1, <1>3, <2>1, DataSet
  <2> HIDE DEF u
  <2>5. v \in Seq(Uploads) /\ Len(v) = Len(uploads)
    <3>1. PICK w \in Seq(Uploads) : w = u /\ Len(w) = Len(uploads)
      BY <2>4
    <3>2. PICK c \in Int, j \in 1..Len(w) : c = Counted(bw) /\ j = upfile
      BY <1>1, <1>3, <2>2, <3>1
    <3>3. [w EXCEPT ![j].bytes = c] \in Seq(Uploads) /\ Len([w EXCEPT ![j].bytes = c]) = Len(w)
      BY BytesSet
    <3> QED BY <3>1, <3>2, <3>3
  <2> HIDE DEF v
  <2>6. l \in BOOLEAN
    OBVIOUS
  <2> HIDE DEF l
  <2>7. QED BY <1>1, <1>3, <2>3, <2>5, <2>6, LinkedSet
<1>4. QED BY <1>2, <1>3

(* A file that was just created. *)
LEMMA UploadMade ==
    ASSUME NEW label \in Names \cup {"", "[body]"}, NEW bytes \in Seq(STRING),
           NEW n \in Int, NEW l \in BOOLEAN
    PROVE  [name |-> label, data |-> bytes, bytes |-> n, linked |-> l] \in Uploads
BY Zenon DEF Uploads

(* An UploadFile is made, whether or not its file can be. *)
LEMMA CreateType ==
    ASSUME Inv, NEW label \in Names \cup {"[body]"}, createXferFile(label)
    PROVE  /\ uploads' \in Seq(Uploads) /\ Len(uploads') <= REQ_MAX_UPLOADS
           /\ upfile' \in 1..Len(uploads') \cup {NULL, Orphan}
           /\ upfile' # NULL
           /\ fd_upload' \in BOOLEAN /\ slips' \subseteq Slips
<1> DEFINE e == [name |-> label, data |-> <<>>, bytes |-> 0, linked |-> TRUE]
<1>1. /\ uploads \in Seq(Uploads) /\ Len(uploads) \in Nat /\ Len(uploads) <= REQ_MAX_UPLOADS
      /\ fd_upload \in BOOLEAN /\ slips \subseteq Slips
  BY LenProperties DEF Inv, FileInv, ValueInv
<1>2. CASE /\ Len(uploads) < REQ_MAX_UPLOADS /\ uploads' = Append(uploads, e)
           /\ upfile' = Len(uploads) + 1 /\ fd_upload' = TRUE /\ UNCHANGED slips
  <2>1. e \in Uploads
    <3>1. <<>> \in Seq(STRING)
      BY EmptySeq
    <3>2. label \in Names \cup {"", "[body]"}
      OBVIOUS
    <3>3. 0 \in Int /\ TRUE \in BOOLEAN
      OBVIOUS
    <3>4. QED BY <3>1, <3>2, <3>3, UploadMade
  <2> HIDE DEF e
  <2>2. uploads' \in Seq(Uploads) /\ Len(uploads') = Len(uploads) + 1
    BY <1>1, <1>2, <2>1, AppendProperties
  <2>3. QED BY <1>1, <1>2, <2>2 DEF NULL
<1>3. CASE upfile' = Orphan /\ UNCHANGED <<uploads, fd_upload>> /\ Slip("nofile", TRUE)
  <2>1. slips' \subseteq Slips
    BY <1>1, <1>3, SlipType, SlipNames
  <2>2. upfile' # NULL
    BY <1>3 DEF Orphan, NULL
  <2>3. QED BY <1>1, <1>3, <2>1, <2>2
<1>4. CASE /\ Len(uploads) = REQ_MAX_UPLOADS
           /\ UNCHANGED <<uploads, upfile, fd_upload>> /\ Slip("nofile", TRUE)
  <2>1. upfile # NULL /\ upfile \in 1..Len(uploads) \cup {NULL, Orphan}
    BY <1>4 DEF Inv, FileInv
  <2>2. QED BY <1>1, <1>4, <2>1, SlipType, SlipNames
<1>5. QED BY <1>2, <1>3, <1>4 DEF createXferFile

(* MP_FILETYPE with the content type in the chunk. *)
LEMMA FileTypeInv ==
    ASSUME Inv, FileType
    PROVE  Inv'
<1> DEFINE i == Least(EmptyLines) + 4
<1>1. i \in Int
  <2>1. EmptyLines \in SUBSET Nat /\ EmptyLines # {}
    <3>1. dlen \in Nat /\ EmptyLines # {}
      BY DataType DEF FileType, TypeRead, Inv
    <3>2. 0..dlen - 1 \in SUBSET Nat
      BY <3>1
    <3>3. QED BY <3>1, <3>2 DEF EmptyLines
  <2>2. Least(EmptyLines) \in Nat
    BY <2>1, LeastOf
  <2>3. QED BY <2>2
<1>2. /\ name \in Names
      /\ \/ /\ Consume(i, "BEGIN") /\ \E when : Slip("beyond", when)
            /\ UNCHANGED <<name, flddata, stored>>
         \/ /\ Consume(i, "FILEDATA") /\ createXferFile(name)
            /\ UNCHANGED <<name, flddata, params>>
  BY DEF FileType, Parsing, Inv, ValueInv
<1> HIDE DEF i
<1>3. CASE /\ Consume(i, "BEGIN") /\ \E when : Slip("beyond", when)
           /\ UNCHANGED <<name, flddata, stored>>
  <2>1. slips' \subseteq Slips
    BY <1>3, SlipType, SlipNames DEF Inv, ValueInv
  <2>2. QED BY <1>1, <1>3, <2>1, ConsumeInv, StateNames
<1>4. CASE /\ Consume(i, "FILEDATA") /\ createXferFile(name)
           /\ UNCHANGED <<name, flddata, params>>
  <2>1. ChunkInv' /\ mp_state' = "FILEDATA" /\ UNCHANGED fd_spool
    BY <1>1, <1>4, ConsumeChunk, StateNames DEF Inv
  <2>2. /\ uploads' \in Seq(Uploads) /\ Len(uploads') <= REQ_MAX_UPLOADS
        /\ upfile' \in 1..Len(uploads') \cup {NULL, Orphan}
        /\ upfile' # NULL
        /\ fd_upload' \in BOOLEAN /\ slips' \subseteq Slips
    BY <1>2, <1>4, CreateType
  <2>3. ValueInv'
    BY <1>2, <1>4, <2>1, <2>2 DEF Inv, ValueInv, TerminatorBehind
  <2>4. FileInv'
    BY <2>1, <2>2 DEF Inv, FileInv
  <2>5. QED BY <2>1, <2>3, <2>4 DEF Inv
<1>5. QED BY <1>2, <1>3, <1>4

(* The number of bytes searched in vain is one of the chunk's. *)
LEMMA SearchedType ==
    ASSUME Inv, dlen >= bound_len
    PROVE  Searched \in 0..dlen
<1>1. dlen \in Nat /\ bound_len \in Nat /\ bound_len >= 5
  BY DataType, BoundLength DEF Inv
<1>2. QED BY <1>1 DEF Searched

(* MP_FILEDATA without a boundary in the chunk. *)
LEMMA FileDataMoreInv ==
    ASSUME Inv, FileDataMore
    PROVE  Inv'
<1>1. /\ dlen >= bound_len /\ mp_state = "FILEDATA"
      /\ UNCHANGED <<name, flddata, params, upfile, fd_upload>>
  BY DEF FileDataMore, Parsing
<1>2. PICK bw \in write(Searched) : WriteUpload(bw) /\ Consume(bw, "FILEDATA") /\ Unwritten(bw)
  BY DEF FileDataMore
<1>3. bw \in -1..dlen /\ bw \in Int /\ slips' \subseteq Slips
  <2>1. Searched \in 0..dlen /\ dlen \in Nat
    BY <1>1, SearchedType, DataType DEF Inv
  <2>2. QED BY <1>2, <2>1, WriteType
<1>4. ChunkInv' /\ mp_state' = "FILEDATA" /\ UNCHANGED fd_spool
  BY <1>2, <1>3, ConsumeChunk, StateNames DEF Inv
<1>5. uploads' \in Seq(Uploads) /\ Len(uploads') = Len(uploads)
  BY <1>2, <1>3, WriteUploadType
<1>6. ValueInv' /\ FileInv'
  BY <1>1, <1>3, <1>4, <1>5 DEF Inv, ValueInv, FileInv, TerminatorBehind
<1>7. QED BY <1>4, <1>6 DEF Inv

(* MP_FILEDATA with one. *)
LEMMA FileDataEndInv ==
    ASSUME Inv, FileDataEnd
    PROVE  Inv'
<1>1. /\ BoundaryAt # {} /\ fd_upload' = FALSE
      /\ UNCHANGED <<name, flddata, params, upfile>>
  BY DEF FileDataEnd
<1>2. PICK bw \in write(memmem) : EndUpload(bw) /\ Consume(bw, "BEGIN") /\ Unwritten(bw)
  BY DEF FileDataEnd, EndUpload
<1>3. bw \in -1..dlen /\ bw \in Int /\ slips' \subseteq Slips
  <2>1. memmem \in 0..dlen /\ dlen \in Nat
    BY <1>1, BoundaryType, BoundLength, DataType DEF Inv
  <2>2. QED BY <1>2, <2>1, WriteType
<1>4. ChunkInv' /\ mp_state' = "BEGIN" /\ UNCHANGED fd_spool
  BY <1>2, <1>3, ConsumeChunk, StateNames DEF Inv
<1>5. uploads' \in Seq(Uploads) /\ Len(uploads') = Len(uploads)
  BY <1>2, <1>3, FileEndType
<1>6. ValueInv' /\ FileInv'
  BY <1>1, <1>3, <1>4, <1>5 DEF Inv, ValueInv, FileInv, TerminatorBehind
<1>7. QED BY <1>4, <1>6 DEF Inv
-----------------------------------------------------------------------------
(* As much as is taken of a value is in the chunk and fits behind the rest. *)
LEMMA ValueType ==
    ASSUME Inv, mp_state = "FLDDATA", NEW n \in Nat, n <= Room, n <= dlen
    PROVE  /\ flddata \o SubSeq(data, 1, n) \in Seq(STRING)
           /\ Len(flddata \o SubSeq(data, 1, n)) <= REQ_MAX_FLDDATA
<1>1. flddata \in Seq(STRING) /\ data \in Seq(STRING) /\ dlen = Len(data)
  BY DataType DEF Inv, ValueInv, dlen
<1>2. SubSeq(data, 1, n) \in Seq(STRING) /\ Len(SubSeq(data, 1, n)) = n
  <2>1. 0 \in Nat /\ 0 + n <= Len(data)
    BY <1>1
  <2>2. SubSeq(data, 0 + 1, 0 + n) \in Seq(STRING) /\ Len(SubSeq(data, 0 + 1, 0 + n)) = n
    BY <1>1, <2>1, PieceOf
  <2>3. QED BY <2>2
<1>3. /\ flddata \o SubSeq(data, 1, n) \in Seq(STRING)
      /\ Len(flddata \o SubSeq(data, 1, n)) = Len(flddata) + n
  BY <1>1, <1>2, ConcatProperties
<1>4. Len(flddata) + n <= REQ_MAX_FLDDATA
  <2>1. Len(flddata) \in Nat
    BY <1>1, LenProperties
  <2>2. QED BY <2>1 DEF Room
<1>5. QED BY <1>3, <1>4

(* What is taken for a value is in the chunk and has room in flddata. *)
LEMMA FieldMaxType ==
    ASSUME Inv, mp_state = "FLDDATA", dlen >= bound_len, Room > 0
    PROVE  FieldMax \in Nat /\ FieldMax <= Room /\ FieldMax <= dlen
<1>1. dlen \in Nat /\ bound_len \in Nat /\ dlen - bound_len \in Nat /\ dlen - bound_len <= dlen
  BY DataType, BoundLength DEF Inv
<1>2. Room \in Nat
  <2>1. Len(flddata) \in Nat
    BY LenProperties DEF Inv, ValueInv
  <2>2. QED BY <2>1 DEF Room
<1> DEFINE rest == dlen - bound_len
<1>3. FieldMax = Smaller(Room, rest) /\ rest \in Nat /\ rest <= dlen
  BY <1>1 DEF FieldMax
<1> HIDE DEF rest
<1>4. FieldMax \in Nat /\ FieldMax <= Room /\ FieldMax <= rest
  BY <1>2, <1>3, SmallerType
<1>5. QED BY <1>1, <1>3, <1>4

(* MP_FLDDATA when the value has no room left. *)
LEMMA FieldFullInv ==
    ASSUME Inv, FieldFull
    PROVE  Inv'
<1>1. /\ Consume(dlen, "FLDDATA") /\ Slip("full", TRUE) /\ mp_state = "FLDDATA"
      /\ UNCHANGED <<name, flddata, stored>>
  BY DEF FieldFull, Parsing
<1>2. dlen \in Int
  BY DataType DEF Inv
<1>3. slips' \subseteq Slips
  BY <1>1, SlipType, SlipNames DEF Inv, ValueInv
<1>4. name \in Names
  BY <1>1 DEF Inv, ValueInv
<1>5. QED BY <1>1, <1>2, <1>3, <1>4, ConsumeInv, StateNames

(* MP_FLDDATA without a boundary in the chunk. *)
LEMMA FieldMoreInv ==
    ASSUME Inv, FieldMore
    PROVE  Inv'
<1>1. /\ mp_state = "FLDDATA" /\ dlen >= bound_len /\ Room > 0
      /\ flddata' = flddata \o SubSeq(data, 1, FieldMax)
      /\ Consume(FieldMax, "FLDDATA")
      /\ UNCHANGED <<name, stored, slips>>
  BY DEF FieldMore, Parsing
<1>2. FieldMax \in Nat /\ FieldMax <= Room /\ FieldMax <= dlen
  BY <1>1, FieldMaxType
<1>3. ChunkInv' /\ mp_state' = "FLDDATA" /\ UNCHANGED fd_spool
  BY <1>1, <1>2, ConsumeChunk, StateNames DEF Inv
<1>4. flddata' \in Seq(STRING) /\ Len(flddata') <= REQ_MAX_FLDDATA
  BY <1>1, <1>2, ValueType
<1>5. ValueInv' /\ FileInv'
  BY <1>1, <1>3, <1>4 DEF Inv, ValueInv, FileInv
<1>6. QED BY <1>3, <1>5 DEF Inv

(* MP_FLDDATA with one. *)
LEMMA FieldEndInv ==
    ASSUME Inv, FieldEnd
    PROVE  Inv'
<1> DEFINE max == Smaller(FieldMax, memmem)
           value == flddata \o SubSeq(data, 1, max)
<1>1. mp_state = "FLDDATA" /\ Room > 0 /\ BoundaryAt # {}
  BY DEF FieldEnd, Parsing
<1>2. max \in Nat /\ max <= Room /\ max <= dlen
  <2>1. memmem \in Nat /\ dlen >= bound_len
    BY <1>1, BoundaryType, BoundLength, DataType DEF Inv
  <2>2. FieldMax \in Nat /\ FieldMax <= Room /\ FieldMax <= dlen
    BY <1>1, <2>1, FieldMaxType
  <2>3. max \in Nat /\ max <= FieldMax
    BY <2>1, <2>2, SmallerType
  <2>4. Room \in Int /\ dlen \in Int
    <3>1. Len(flddata) \in Nat /\ dlen \in Nat
      BY DataType, LenProperties DEF Inv, ValueInv
    <3>2. QED BY <3>1 DEF Room
  <2> HIDE DEF max
  <2>5. QED BY <2>2, <2>3, <2>4
<1>3. \/ Throw /\ UNCHANGED slips
      \/ /\ flddata' = Append(value, nul) /\ params' = Append(params, <<name, value>>)
         /\ Consume(max, "BEGIN") /\ Slip("full", max < memmem)
         /\ UNCHANGED <<name, uploads, upfile, fd_upload>>
  BY DEF FieldEnd
<1> HIDE DEF max
<1>4. value \in Seq(STRING) /\ Len(value) <= REQ_MAX_FLDDATA
  BY <1>1, <1>2, ValueType
<1> HIDE DEF value
<1>5. CASE Throw /\ UNCHANGED slips
  BY <1>5, ThrowInv DEF Inv, ValueInv
<1>6. CASE /\ flddata' = Append(value, nul) /\ params' = Append(params, <<name, value>>)
           /\ Consume(max, "BEGIN") /\ Slip("full", max < memmem)
           /\ UNCHANGED <<name, uploads, upfile, fd_upload>>
  <2>1. ChunkInv' /\ mp_state' = "BEGIN" /\ UNCHANGED fd_spool
    BY <1>2, <1>6, ConsumeChunk, StateNames DEF Inv
  <2>2. slips' \subseteq Slips
    BY <1>6, SlipType, SlipNames DEF Inv, ValueInv
  <2>3. params' \in Seq(Names \X Seq(STRING))
    <3>1. <<name, value>> \in Names \X Seq(STRING) /\ params \in Seq(Names \X Seq(STRING))
      BY <1>1, <1>4 DEF Inv, ValueInv
    <3>2. QED BY <1>6, <3>1, AppendProperties
  <2>4. flddata' \in Seq(STRING) /\ (Len(flddata') <= REQ_MAX_FLDDATA \/ TerminatorBehind')
    <3>1. nul \in STRING /\ Len(value) \in Nat
      BY <1>4, SymbolAssumption, LenProperties
    <3>2. /\ flddata' \in Seq(STRING) /\ Len(flddata') = Len(value) + 1
          /\ flddata'[Len(value) + 1] = nul
      BY <1>4, <1>6, <3>1, AppendProperties
    <3>3. QED BY <1>4, <2>1, <3>1, <3>2 DEF TerminatorBehind
  <2>5. ValueInv' /\ FileInv'
    BY <1>6, <2>1, <2>2, <2>3, <2>4 DEF Inv, ValueInv, FileInv
  <2>6. QED BY <2>1, <2>5 DEF Inv
<1>7. QED BY <1>3, <1>5, <1>6
-----------------------------------------------------------------------------
(* The first read() of processMultipart(). *)
LEMMA StartInv ==
    ASSUME Inv, Start
    PROVE  Inv'
<1> DEFINE n == Smaller(MAX_MP, Left)
<1>1. /\ ctl = "start" /\ mp' = mp /\ mp_state' = mp_state /\ form' = form
      /\ UNCHANGED <<name, flddata, stored, fd_spool, slips>>
      /\ \/ ctl' = "over" /\ outcome' = "failed" /\ UNCHANGED <<rd, mem, brmax>>
         \/ /\ rd' = n /\ brmax' = n /\ mem' = Spool(0, n)
            /\ ctl' = "parse" /\ outcome' = outcome
  BY DEF Start
<1>2. mp = 0 /\ 0 \in 0..Len(mem)
  BY <1>1 DEF Inv, ChunkInv
<1>3. ValueInv' /\ FileInv'
  BY <1>1 DEF Inv, ValueInv, FileInv, TerminatorBehind
<1>4. CASE ctl' = "over" /\ outcome' = "failed" /\ UNCHANGED <<rd, mem, brmax>>
  <2>1. ctl' \in Positions /\ ctl' # "start" /\ outcome' \in Outcomes
    BY <1>4 DEF Positions, Outcomes
  <2>2. ChunkInv'
    BY <1>1, <1>4, <2>1 DEF Inv, ChunkInv
  <2>3. QED BY <1>3, <2>2 DEF Inv
<1>5. CASE /\ rd' = n /\ brmax' = n /\ mem' = Spool(0, n)
           /\ ctl' = "parse" /\ outcome' = outcome
  <2>1. Left \in Nat /\ Len(form.spool) \in Nat /\ Left <= Len(form.spool)
        /\ form.spool \in Seq(STRING)
    <3>1. Left \in Nat /\ Len(form.spool) \in Nat /\ form.spool \in Seq(STRING)
      BY LeftType DEF Inv, ChunkInv
    <3>2. rd \in Nat
      BY <3>1 DEF Inv, ChunkInv
    <3>3. QED BY <3>1, <3>2 DEF Left
  <2>2. n \in Nat /\ n <= MAX_MP /\ n <= Left
    BY <2>1, SmallerType
  <2> HIDE DEF n
  <2>3. 0 \in Nat /\ 0 + n <= Len(form.spool) /\ n \in 0..MAX_MP /\ n \in 0..Len(form.spool)
    BY <2>1, <2>2
  <2>4. mem' \in Seq(STRING) /\ Len(mem') = n
    BY <1>5, <2>1, <2>2, <2>3, PieceOf DEF Spool
  <2>5. mp' \in 0..Len(mem')
    BY <1>1, <1>2, <2>2, <2>4
  <2>6. ctl' \in Positions /\ ctl' # "start"
    BY <1>5 DEF Positions
  <2>7. ChunkInv'
    BY <1>1, <1>5, <2>2, <2>3, <2>4, <2>5, <2>6 DEF Inv, ChunkInv
  <2>8. QED BY <1>3, <2>7 DEF Inv
<1>6. QED BY <1>1, <1>4, <1>5

(* Every further one, with what was left moved to the front. *)
LEMMA ReadMoreInv ==
    ASSUME Inv, ReadMore
    PROVE  Inv'
<1> DEFINE carried == IF Carries THEN data ELSE <<>>
           room == IF Carries THEN mp ELSE MAX_MP
           n == Smaller(room, Left)
<1>1. /\ \/ /\ n > 0 /\ mem' = carried \o Spool(rd, n)
            /\ mp' = 0 /\ rd' = rd + n /\ brmax' = n
            /\ ctl' = "parse" /\ outcome' = outcome
         \/ /\ ctl' \in {"done", "over"} /\ outcome' \in {"exhausted", "failed"}
            /\ UNCHANGED <<mem, mp, rd, brmax>>
      /\ Slip("dropped", dlen > 0 /\ ~Carries)
      /\ UNCHANGED <<form, mp_state, name, flddata, stored, fd_spool>>
  BY DEF ReadMore
<1>2. slips' \subseteq Slips
  BY <1>1, SlipType, SlipNames DEF Inv, ValueInv
<1>3. ValueInv' /\ FileInv'
  BY <1>1, <1>2 DEF Inv, ValueInv, FileInv, TerminatorBehind
<1>4. CASE /\ ctl' \in {"done", "over"} /\ outcome' \in {"exhausted", "failed"}
           /\ UNCHANGED <<mem, mp, rd, brmax>>
  <2>1. ctl' \in Positions /\ ctl' # "start" /\ outcome' \in Outcomes
    BY <1>4 DEF Positions, Outcomes
  <2>2. ChunkInv'
    BY <1>1, <1>4, <2>1 DEF Inv, ChunkInv
  <2>3. QED BY <1>3, <2>2 DEF Inv
<1>5. CASE /\ mem' = carried \o Spool(rd, n)
           /\ mp' = 0 /\ rd' = rd + n /\ brmax' = n
           /\ ctl' = "parse" /\ outcome' = outcome
  <2>1. /\ carried \in Seq(STRING) /\ Len(carried) \in Nat /\ room \in Nat
        /\ Len(carried) + room <= MAX_MP
    <3>1. /\ data \in Seq(STRING) /\ Len(data) = Len(mem) - mp /\ mp \in Nat
          /\ Len(mem) \in Nat /\ Len(mem) <= MAX_MP /\ mp <= Len(mem)
      BY DataType, LenProperties DEF Inv, ChunkInv, dlen
    <3>2. CASE Carries
      BY <3>1, <3>2
    <3>3. CASE ~Carries
      <4>1. carried = <<>> /\ room = MAX_MP
        BY <3>3
      <4>2. <<>> \in Seq(STRING) /\ Len(<<>>) = 0
        BY EmptySeq
      <4> HIDE DEF carried, room
      <4>3. QED BY <4>1, <4>2
    <3>4. QED BY <3>2, <3>3
  <2>2. Left \in Nat
    BY LeftType DEF Inv
  <2> HIDE DEF carried, room
  <2>3. n \in Nat /\ n <= room /\ n <= Left
    BY <2>1, <2>2, SmallerType
  <2> HIDE DEF n
  <2>4. /\ Spool(rd, n) \in Seq(STRING) /\ Len(Spool(rd, n)) = n
        /\ rd + n \in 0..Len(form.spool)
    <3>1. n \in 0..Left
      BY <2>2, <2>3
    <3>2. QED BY <3>1, LeftType DEF Inv
  <2>5. mem' \in Seq(STRING) /\ Len(mem') = Len(carried) + n
    BY <1>5, <2>1, <2>4, ConcatProperties
  <2>6. Len(mem') <= MAX_MP /\ mp' \in 0..Len(mem') /\ n \in 0..MAX_MP
    BY <1>5, <2>1, <2>3, <2>5
  <2>7. ctl' \in Positions /\ ctl' # "start"
    BY <1>5 DEF Positions
  <2>8. ChunkInv'
    BY <1>1, <1>5, <2>4, <2>5, <2>6, <2>7 DEF Inv, ChunkInv
  <2>9. QED BY <1>3, <2>8 DEF Inv
<1>6. QED BY <1>1, <1>4, <1>5

(* processMultipart_DONE. *)
LEMMA DoneInv ==
    ASSUME Inv, Done
    PROVE  Inv'
<1>1. ctl' = "over" /\ fd_spool' = FALSE /\ fd_upload' = FALSE
      /\ UNCHANGED <<form, rd, mem, mp, brmax, mp_state, name, flddata, params, uploads, upfile,
                     outcome, slips>>
  BY DEF Done, CleanUp
<1>2. ctl' \in Positions /\ ctl' # "start"
  BY <1>1 DEF Positions
<1>3. QED BY <1>1, <1>2 DEF Inv, ChunkInv, ValueInv, FileInv, TerminatorBehind
-----------------------------------------------------------------------------
(* A piece of the body is written. *)
LEMMA CopiedType ==
    ASSUME Inv, NEW n \in 0..Left
    PROVE  Copied(n) \in Seq(Uploads) /\ Len(Copied(n)) = Len(uploads)
<1> DEFINE bytes == uploads[upfile].data \o Spool(rd, n)
<1>1. uploads \in Seq(Uploads) /\ DOMAIN uploads = 1..Len(uploads)
  BY LenProperties DEF Inv, FileInv
<1>2. Copied(n) = [uploads EXCEPT ![upfile].data = bytes]
  BY DEF Copied
<1>3. CASE upfile \notin DOMAIN uploads
  <2> HIDE DEF bytes
  <2>1. uploads = [i \in DOMAIN uploads |-> uploads[i]]
    BY <1>1
  <2>2. Copied(n) = uploads
    BY <1>2, <1>3, <2>1
  <2>3. QED BY <1>1, <2>2
<1>4. CASE upfile \in DOMAIN uploads
  <2>1. bytes \in Seq(STRING)
    <3>1. Spool(rd, n) \in Seq(STRING)
      BY LeftType DEF Inv
    <3>2. uploads[upfile].data \in Seq(STRING)
      BY <1>1, <1>4, ElementType
    <3>3. QED BY <3>1, <3>2, ConcatProperties
  <2> HIDE DEF bytes
  <2>2. upfile \in 1..Len(uploads)
    BY <1>1, <1>4
  <2>3. [uploads EXCEPT ![upfile].data = bytes] \in Seq(Uploads)
        /\ Len([uploads EXCEPT ![upfile].data = bytes]) = Len(uploads)
    BY <1>1, <2>1, <2>2, DataSet
  <2>4. QED BY <1>2, <2>3
<1>5. QED BY <1>3, <1>4

(* A piece of the body, whether its write() fails or not. *)
LEMMA CopyBytesType ==
    ASSUME Inv, NEW n \in 0..Left, CopyBytes(n)
    PROVE  /\ uploads' \in Seq(Uploads) /\ Len(uploads') = Len(uploads)
           /\ rd' \in 0..Len(form.spool) /\ slips' \subseteq Slips
<1>1. PICK bw \in write(n) : uploads' = (IF bw = -1 THEN uploads ELSE Copied(n)) /\ Unwritten(bw)
  BY DEF CopyBytes
<1>2. uploads' \in {uploads, Copied(n)}
  BY <1>1
<1>3. slips' \subseteq Slips
  BY <1>1, SlipType, SlipNames DEF Unwritten, Inv, ValueInv
<1>4. rd' \in 0..Len(form.spool)
  BY LeftType DEF CopyBytes, Inv
<1>5. uploads \in Seq(Uploads)
  BY DEF Inv, FileInv
<1>6. QED BY <1>2, <1>3, <1>4, <1>5, CopiedType

(* processBodyData(). *)
LEMMA BodyInv ==
    ASSUME Inv, processBodyData
    PROVE  Inv'
<1>1. CASE BodyBegin
  <2>1. /\ createXferFile("[body]") /\ ctl' = "copy"
        /\ UNCHANGED <<form, rd, mem, mp, brmax, mp_state, name, flddata, params, fd_spool, outcome>>
    BY <1>1 DEF BodyBegin
  <2>2. ctl' \in Positions /\ ctl' # "start"
    BY <2>1 DEF Positions
  <2>3. /\ uploads' \in Seq(Uploads) /\ Len(uploads') <= REQ_MAX_UPLOADS
        /\ upfile' \in 1..Len(uploads') \cup {NULL, Orphan}
        /\ upfile' # NULL
        /\ fd_upload' \in BOOLEAN /\ slips' \subseteq Slips
    BY <2>1, CreateType
  <2>4. QED BY <2>1, <2>2, <2>3 DEF Inv, ChunkInv, ValueInv, FileInv, TerminatorBehind
<1>2. ASSUME NEW n \in 0..Left, CopyBytes(n),
             ctl' \in {ctl, "over"}, outcome' \in {outcome, "finished"}, fd_upload' \in BOOLEAN,
             UNCHANGED <<form, mem, mp, brmax, mp_state, name, flddata, params, upfile, fd_spool>>
      PROVE  Inv'
  <2>1. ctl' \in Positions /\ (ctl' = "start" => ctl = "start") /\ outcome' \in Outcomes
    BY <1>2 DEF Positions, Outcomes, Inv, ChunkInv
  <2>2. /\ uploads' \in Seq(Uploads) /\ Len(uploads') = Len(uploads)
        /\ rd' \in 0..Len(form.spool) /\ slips' \subseteq Slips
    BY <1>2, CopyBytesType
  <2>3. ChunkInv'
    BY <1>2, <2>1, <2>2 DEF Inv, ChunkInv
  <2>4. ValueInv' /\ FileInv'
    BY <1>2, <2>2 DEF Inv, ValueInv, FileInv, TerminatorBehind
  <2>5. QED BY <2>3, <2>4 DEF Inv
<1>3. CASE BodyInMemory
  <2>1. Left \in 0..Left
    BY LeftType DEF Inv
  <2>2. QED BY <1>2, <1>3, <2>1 DEF BodyInMemory
<1>4. CASE BodyCopy
  <2> DEFINE n == Smaller(BodyBuffer, Left)
  <2>1. n \in 0..Left
    <3>1. Left \in Nat
      BY LeftType DEF Inv
    <3>2. n \in Nat /\ n <= Left
      BY <3>1, SmallerType
    <3> HIDE DEF n
    <3>3. QED BY <3>1, <3>2
  <2>2. /\ CopyBytes(n)
        /\ UNCHANGED <<form, ctl, mem, mp, brmax, mp_state, name, flddata, params, upfile, fd_upload,
                       fd_spool, outcome>>
    BY <1>4 DEF BodyCopy
  <2> HIDE DEF n
  <2>3. fd_upload' \in BOOLEAN
    BY <2>2 DEF Inv, FileInv
  <2>4. QED BY <1>2, <2>1, <2>2, <2>3
<1>5. CASE BodyFails \/ BodyEnd
  <2>1. /\ ctl' = "over" /\ outcome' \in {"finished", "failed"}
        /\ fd_upload' \in {FALSE, fd_upload} /\ fd_spool' \in {FALSE, fd_spool}
        /\ UNCHANGED <<form, rd, mem, mp, brmax, mp_state, name, flddata, params, uploads, upfile, slips>>
    BY <1>5 DEF BodyFails, BodyEnd, CleanUp
  <2>2. ctl' \in Positions /\ ctl' # "start" /\ outcome' \in Outcomes
    BY <2>1 DEF Positions, Outcomes
  <2>3. fd_upload' \in BOOLEAN /\ fd_spool' \in BOOLEAN
    BY <2>1 DEF Inv, FileInv
  <2>4. QED BY <2>1, <2>2, <2>3 DEF Inv, ChunkInv, ValueInv, FileInv, TerminatorBehind
<1>6. QED BY <1>1, <1>3, <1>4, <1>5 DEF processBodyData
-----------------------------------------------------------------------------
(* Nothing has been read when a form arrives. *)
LEMMA InitInv == Init => Inv
<1> SUFFICES ASSUME Init PROVE Inv
  OBVIOUS
<1>1. ctl \in Positions /\ mp_state \in MpStates /\ outcome \in Outcomes
  BY DEF Init, Positions, MpStates, Outcomes
<1>2. form \in Forms /\ form.spool \in Seq(STRING) /\ form.ondisk \in BOOLEAN
  BY DEF Init
<1>3. Len(form.spool) \in Nat
  BY <1>2, LenProperties
<1>4. mem \in Seq(STRING) /\ Len(mem) = 0
  BY EmptySeq DEF Init
<1>5. flddata \in Seq(STRING) /\ Len(flddata) = 0 /\ params \in Seq(Names \X Seq(STRING))
  BY EmptySeq DEF Init
<1>6. uploads \in Seq(Uploads) /\ Len(uploads) = 0
  BY EmptySeq DEF Init
<1>7. ChunkInv
  <2>1. rd = 0 /\ mp = 0 /\ brmax = 0 /\ MAX_MP \in Nat
    BY DEF Init
  <2>2. rd \in 0..Len(form.spool) /\ brmax \in 0..MAX_MP /\ mp \in 0..Len(mem) /\ Len(mem) <= MAX_MP
    BY <1>3, <1>4, <2>1
  <2>3. QED BY <1>1, <1>2, <1>4, <2>1, <2>2 DEF ChunkInv
<1>8. ValueInv
  <2>1. Len(flddata) <= REQ_MAX_FLDDATA
    BY <1>5
  <2>2. mp_state \notin {"FLDDATA", "FILETYPE", "FILEDATA"} /\ slips \subseteq Slips /\ name = ""
    BY DEF Init
  <2>3. QED BY <1>5, <2>1, <2>2 DEF ValueInv
<1>9. FileInv
  <2>1. Len(uploads) <= REQ_MAX_UPLOADS
    BY <1>6
  <2>2. upfile = NULL /\ fd_upload = FALSE /\ fd_spool \in BOOLEAN /\ mp_state # "FILEDATA"
    BY <1>2 DEF Init
  <2>3. ~(Len(uploads) > 0)
    BY <1>6
  <2>4. QED BY <1>6, <2>1, <2>2, <2>3 DEF FileInv
<1>10. QED BY <1>7, <1>8, <1>9 DEF Inv

(* Every call of the parser, every read and every write keeps it. *)
LEMMA NextInv == Inv /\ [Next]_vars => Inv'
<1> SUFFICES ASSUME Inv, [Next]_vars PROVE Inv'
  OBVIOUS
<1>1. CASE Start
  BY <1>1, StartInv
<1>2. CASE parseMultipart
  <2>1. CASE SkipToBoundary \/ FindBoundary
    BY <2>1, SkipToBoundaryInv, FindBoundaryInv
  <2>2. CASE HeaderCut \/ FileTypeCut \/ FileDataCut \/ FieldCut
    BY <2>2, CutInv
  <2>3. CASE HeaderTorn \/ Header
    BY <2>3, HeaderTornInv, HeaderInv
  <2>4. CASE FileType
    BY <2>4, FileTypeInv
  <2>5. CASE FileDataMore \/ FileDataEnd
    BY <2>5, FileDataMoreInv, FileDataEndInv
  <2>6. CASE FieldFull \/ FieldMore \/ FieldEnd
    BY <2>6, FieldFullInv, FieldMoreInv, FieldEndInv
  <2>7. QED BY <1>2, <2>1, <2>2, <2>3, <2>4, <2>5, <2>6 DEF parseMultipart
<1>3. CASE ReadMore
  BY <1>3, ReadMoreInv
<1>4. CASE Done
  BY <1>4, DoneInv
<1>5. CASE processBodyData
  BY <1>5, BodyInv
<1>6. CASE UNCHANGED vars
  BY <1>6 DEF Inv, ChunkInv, ValueInv, FileInv, TerminatorBehind
<1>7. QED BY <1>1, <1>2, <1>3, <1>4, <1>5, <1>6 DEF Next

(* Whatever the form is, and wherever the chunks cut it, the counters stay  *)
(* inside mpdata and a value inside flddata, with one byte written behind   *)
(* flddata at most: the terminator of a value that fills it. No more files  *)
(* are made than there is room for, and file data always has an UploadFile  *)
(* (Request.cpp:510-894).                                                   *)
THEOREM TypeCorrect == Spec => []TypeOK
<1>1. Init => Inv
  BY InitInv
<1>2. Inv /\ [Next]_vars => Inv'
  BY NextInv
<1>3. Inv => TypeOK
  BY InvImplies
<1>4. QED BY <1>1, <1>2, <1>3, PTL DEF Spec

(* A call of the parser does not end the reading, unless it lost its place. *)
LEMMA ParseGoesOn ==
    ASSUME parseMultipart
    PROVE  ctl' # "over" \/ outcome' = "lost"
BY DEF parseMultipart, SkipToBoundary, FindBoundary, HeaderCut, HeaderTorn, Header,
   FileTypeCut, FileType, FileDataCut, FileDataMore, FileDataEnd,
   FieldCut, FieldFull, FieldMore, FieldEnd, Consume, Throw

(* The upload and the spool are closed however the reading of a form ends,  *)
(* but for a spool that cannot be read and a parser that lost its place     *)
(* (processMultipart_DONE and the end of processBodyData()).                *)
THEOREM FilesClosed == Spec => []Closed
<1>1. Init => Closed
  BY DEF Init, Closed
<1>2. Closed /\ [Next]_vars => Closed'
  <2> SUFFICES ASSUME Closed, [Next]_vars PROVE Closed'
    OBVIOUS
  <2>1. CASE Start
    BY <2>1 DEF Start, Closed
  <2>2. CASE parseMultipart
    BY <2>2, ParseGoesOn DEF Closed
  <2>3. CASE ReadMore
    BY <2>3 DEF ReadMore, Closed
  <2>4. CASE Done
    BY <2>4 DEF Done, CleanUp, Closed
  <2>5. CASE processBodyData
    BY <2>5 DEF processBodyData, BodyBegin, BodyInMemory, BodyFails, BodyCopy, BodyEnd, CleanUp, Closed
  <2>6. CASE UNCHANGED vars
    BY <2>6 DEF Closed
  <2>7. QED BY <2>1, <2>2, <2>3, <2>4, <2>5, <2>6 DEF Next
<1>3. QED BY <1>1, <1>2, PTL DEF Spec
-----------------------------------------------------------------------------
\* From here on each step names what it needs of the assumption.
HIDE MultipartAssumption

Laid(f) == f.parts \in Seq(Range(f.parts)) /\ LaidOut(f)

\* What is known of the i-th part.
IsPlaced(f, i) ==
    /\ IsPart(f.parts[i])
    /\ f.parts[i].head \in Seq(STRING) /\ Len(f.parts[i].head) \in Nat
    /\ f.parts[i].value \in Seq(STRING) /\ Len(f.parts[i].value) \in Nat
    /\ HeadAt(f, i) = f.at[i] + bound_len + 2 /\ HeadAt(f, i) \in Nat
    /\ ValueAt(f, i) = HeadAt(f, i) + Len(f.parts[i].head) /\ ValueAt(f, i) \in Nat
    /\ f.at[i + 1] = ValueAt(f, i) + Len(f.parts[i].value)

(* Where a form that is laid out has what. *)
LEMMA LayoutType ==
    ASSUME NEW f \in Forms, Laid(f)
    PROVE  /\ Len(f.parts) \in Nat /\ Len(f.spool) \in Nat /\ f.spool \in Seq(STRING)
           /\ \A i \in 1..Len(f.parts) + 1 : f.at[i] \in Nat
           /\ \A i \in 1..Len(f.parts) : IsPlaced(f, i)
<1>1. f.spool \in Seq(STRING) /\ Len(f.spool) \in Nat
  BY MultipartAssumption, LenProperties
<1>2. f.at \in Seq(Nat) /\ Len(f.at) = Len(f.parts) + 1
  BY DEF Laid, LaidOut
<1>3. Len(f.parts) \in Nat
  BY LenProperties DEF Laid
<1>4. \A i \in 1..Len(f.parts) + 1 : f.at[i] \in Nat
  BY <1>2, ElementOfSeq
<1>5. ASSUME NEW i \in 1..Len(f.parts)
      PROVE  IsPlaced(f, i)
  <2>1. IsPart(f.parts[i]) /\ f.at[i + 1] = ValueAt(f, i) + Len(f.parts[i].value)
    BY <1>5 DEF Laid, LaidOut
  <2>2. /\ f.parts[i].head \in Seq(STRING) /\ Len(f.parts[i].head) \in Nat
        /\ f.parts[i].value \in Seq(STRING) /\ Len(f.parts[i].value) \in Nat
    BY <2>1, LenProperties DEF IsPart
  <2>3. f.at[i] \in Nat
    BY <1>3, <1>4, <1>5
  <2>4. HeadAt(f, i) = f.at[i] + bound_len + 2 /\ HeadAt(f, i) \in Nat
    BY <2>3, BoundLength DEF HeadAt
  <2>5. ValueAt(f, i) = HeadAt(f, i) + Len(f.parts[i].head) /\ ValueAt(f, i) \in Nat
    BY <2>2, <2>4 DEF ValueAt
  <2> QED BY <2>1, <2>2, <2>4, <2>5 DEF IsPlaced
<1> QED BY <1>1, <1>3, <1>4, <1>5

(* One boundary is behind the other. *)
LEMMA AtRises ==
    ASSUME NEW f \in Forms, Laid(f),
           NEW i \in 1..Len(f.parts) + 1, NEW j \in 1..Len(f.parts) + 1, i < j
    PROVE  f.at[i] + bound_len + 2 <= f.at[j] /\ f.at[i + 1] <= f.at[j]
<1> DEFINE N == Len(f.parts)
           Behind(k) == f.at[i] + bound_len + 2 <= f.at[k] /\ f.at[i + 1] <= f.at[k]
           P == {k \in 0..N + 1 : k > i => Behind(k)}
<1>1. N \in Nat /\ \A k \in 1..N + 1 : f.at[k] \in Nat
  BY LayoutType
<1>2. ASSUME NEW k \in 1..N PROVE f.at[k] + bound_len + 2 <= f.at[k + 1]
  <2>1. IsPlaced(f, k) /\ f.at[k] \in Nat
    BY <1>1, LayoutType
  <2>2. PICK a \in Nat, h \in Nat, v \in Nat, l \in Nat, w \in Nat :
          a = f.at[k] /\ h = HeadAt(f, k) /\ v = ValueAt(f, k)
          /\ l = Len(f.parts[k].head) /\ w = Len(f.parts[k].value)
    BY <2>1 DEF IsPlaced
  <2>3. h = a + bound_len + 2 /\ v = h + l /\ f.at[k + 1] = v + w
    BY <2>1, <2>2 DEF IsPlaced
  <2>4. PICK n \in Nat : n = bound_len /\ n >= 5
    BY BoundLength
  <2>5. a + n + 2 <= v + w
    BY <2>3, <2>4
  <2> QED BY <2>2, <2>3, <2>4, <2>5
<1>3. 0 \in P
  BY <1>1
<1>4. ASSUME NEW k \in 0..N, k \in P PROVE k + 1 \in P
  <2>1. k + 1 \in 0..N + 1
    BY <1>1
  <2> SUFFICES ASSUME k + 1 > i PROVE Behind(k + 1)
    BY <2>1
  <2>2. k \in 1..N /\ (k = i \/ k > i)
    BY <1>1
  <2>3. f.at[k] + bound_len + 2 <= f.at[k + 1] /\ f.at[k] \in Nat /\ f.at[k + 1] \in Nat
    BY <1>1, <1>2, <2>1, <2>2
  <2>4. CASE k = i
    BY <2>3, <2>4
  <2>5. CASE k > i
    <3>1. Behind(k)
      BY <1>4, <2>5
    <3>2. f.at[i] \in Nat /\ f.at[i + 1] \in Nat
      BY <1>1, <2>2, <2>5
    <3>3. PICK b \in Nat, c \in Nat, d \in Nat, e \in Nat :
            b = f.at[i] /\ c = f.at[i + 1] /\ d = f.at[k] /\ e = f.at[k + 1]
      BY <2>3, <3>2
    <3>4. b + bound_len + 2 <= d /\ c <= d /\ d + bound_len + 2 <= e
      BY <2>3, <3>1, <3>3
    <3>5. PICK n \in Nat : n = bound_len /\ n >= 5
      BY BoundLength
    <3>6. b + n + 2 <= d /\ d + n + 2 <= e
      BY <3>4, <3>5
    <3>7. b + n + 2 <= e /\ c <= e
      BY <3>4, <3>6
    <3> QED BY <3>3, <3>5, <3>7
  <2> QED BY <2>2, <2>4, <2>5
<1>5. 0..N + 1 \subseteq P
  <2>1. PICK m \in Nat : m = N + 1
    BY <1>1
  <2>2. \A k \in 0..m : k \in P => k = m \/ k + 1 \in P
    <3> TAKE k \in 0..m
    <3>1. k = m \/ k \in 0..N
      BY <1>1, <2>1
    <3> HIDE DEF P
    <3> QED BY <1>4, <3>1
  <2> HIDE DEF P
  <2>3. 0..m \subseteq P
    BY <1>3, <2>2, Induction
  <2> QED BY <2>1, <2>3
<1> QED
  <2>1. j \in P
    BY <1>1, <1>5
  <2> QED BY <2>1

-----------------------------------------------------------------------------
Pos == rd - dlen
Parted == Len(form.parts)
PartAt(i) == form.parts[i]
Waiting == ctl \in {"parse", "read"}

Synced == Len(mem) <= rd /\ \A k \in 1..Len(mem) : mem[k] = form.spool[rd - Len(mem) + k]

\* The bytes d are those of the form behind the first p.
Reads(d, f, p) == p + Len(d) <= Len(f.spool) /\ \A k \in 1..Len(d) : d[k] = f.spool[p + k]

(* What the parser is given are the next bytes of the form. *)
LEMMA SyncedData ==
    ASSUME ChunkInv, Synced
    PROVE  /\ data \in Seq(STRING) /\ dlen = Len(data) /\ dlen \in Nat /\ Pos \in Nat
           /\ rd = Pos + dlen /\ rd \in Nat /\ mp \in Nat /\ Len(mem) \in Nat /\ Len(mem) = mp + dlen
           /\ Reads(data, form, Pos)
<1>1. /\ mem \in Seq(STRING) /\ mp \in Nat /\ Len(mem) \in Nat /\ mp <= Len(mem) /\ rd \in Nat
      /\ Len(mem) <= rd /\ Len(form.spool) \in Nat /\ rd <= Len(form.spool)
  <2>1. form.spool \in Seq(STRING)
    BY MultipartAssumption DEF ChunkInv
  <2> QED BY <2>1, LenProperties DEF ChunkInv, Synced
<1>2. PICK n \in Nat : n = Len(mem) - mp /\ mp + n = Len(mem)
  BY <1>1
<1>3. data = SubSeq(mem, mp + 1, mp + n)
  BY <1>2 DEF data
<1>4. PICK d : d = SubSeq(mem, mp + 1, mp + n) /\ d \in Seq(STRING) /\ Len(d) = n
               /\ \A k \in 1..n : d[k] = mem[mp + k]
  <2>1. PICK m \in Seq(STRING), r \in Nat : m = mem /\ r = mp /\ r + n <= Len(m)
    BY <1>1, <1>2
  <2>2. /\ SubSeq(m, r + 1, r + n) \in Seq(STRING) /\ Len(SubSeq(m, r + 1, r + n)) = n
        /\ \A k \in 1..n : SubSeq(m, r + 1, r + n)[k] = m[r + k]
    BY <2>1, SliceIs
  <2> QED BY <2>1, <2>2
<1>5. data = d /\ dlen = n
  BY <1>3, <1>4 DEF dlen
<1>6. PICK p \in Nat : p = rd - n /\ rd = p + n /\ p = rd - Len(mem) + mp
  <2>1. PICK a \in Nat, b \in Nat, c \in Nat : a = rd /\ b = Len(mem) /\ c = mp
    BY <1>1
  <2>2. b <= a /\ n = b - c /\ c <= b
    BY <1>1, <1>2, <2>1
  <2>3. a - n \in Nat /\ a = (a - n) + n /\ a - n = a - b + c
    BY <2>2
  <2> QED BY <2>1, <2>3
<1>7. Pos = p
  BY <1>5, <1>6 DEF Pos
<1>8. ASSUME NEW k \in 1..n PROVE d[k] = form.spool[p + k]
  <2>1. mp + k \in 1..Len(mem) /\ rd - Len(mem) + (mp + k) = p + k
    BY <1>1, <1>2, <1>6
  <2>2. mem[mp + k] = form.spool[rd - Len(mem) + (mp + k)]
    BY <2>1 DEF Synced
  <2> QED BY <1>4, <2>1, <2>2
<1>9. Reads(d, form, p)
  BY <1>1, <1>4, <1>6, <1>8 DEF Reads
<1> QED BY <1>1, <1>2, <1>4, <1>5, <1>6, <1>7, <1>9

(* A boundary is found where the form has one. *)
LEMMA BoundaryIs ==
    ASSUME NEW f \in Forms, Laid(f), NEW d \in Seq(STRING), NEW p \in Nat, Reads(d, f, p),
           NEW k \in Nat, k + bound_len <= Len(d)
    PROVE  Matches(d, k, Boundary) <=> \E j \in 1..Len(f.parts) + 1 : f.at[j] = p + k
<1>1. PICK n \in Nat : n = bound_len /\ n >= 5 /\ n = Len(Boundary)
  BY BoundLength DEF bound_len
<1>2. PICK q \in Nat : q = p + k
  OBVIOUS
<1>3. /\ Len(d) \in Nat /\ k + n <= Len(d) /\ p + Len(d) <= Len(f.spool)
      /\ f.spool \in Seq(STRING) /\ Len(f.spool) \in Nat
  BY <1>1, LayoutType, LenProperties DEF Reads
<1>4. q + n <= Len(f.spool)
  BY <1>2, <1>3
<1>5. PICK a : a = SubSeq(d, k + 1, k + n) /\ a \in Seq(STRING) /\ Len(a) = n
               /\ \A i \in 1..n : a[i] = d[k + i]
  <2>1. /\ SubSeq(d, k + 1, k + n) \in Seq(STRING) /\ Len(SubSeq(d, k + 1, k + n)) = n
        /\ \A i \in 1..n : SubSeq(d, k + 1, k + n)[i] = d[k + i]
    <3>1. IsSlice(Slice(d, k, n), STRING, d, k, n)
      BY <1>3, SliceOf
    <3> QED BY <3>1 DEF IsSlice, Slice
  <2> QED BY <2>1
<1>6. PICK b : b = SubSeq(f.spool, q + 1, q + n) /\ b \in Seq(STRING) /\ Len(b) = n
               /\ \A i \in 1..n : b[i] = f.spool[q + i]
  <2>1. PICK s \in Seq(STRING) : s = f.spool /\ q + n <= Len(s)
    BY <1>3, <1>4
  <2>2. /\ SubSeq(s, q + 1, q + n) \in Seq(STRING) /\ Len(SubSeq(s, q + 1, q + n)) = n
        /\ \A i \in 1..n : SubSeq(s, q + 1, q + n)[i] = s[q + i]
    <3>1. IsSlice(Slice(s, q, n), STRING, s, q, n)
      BY <2>1, SliceOf
    <3> QED BY <3>1 DEF IsSlice, Slice
  <2> QED BY <2>1, <2>2
<1>7. ASSUME NEW i \in 1..n PROVE a[i] = b[i]
  <2>1. k + i \in 1..Len(d) /\ p + (k + i) = q + i
    BY <1>2, <1>3
  <2>2. d[k + i] = f.spool[p + (k + i)]
    BY <2>1 DEF Reads
  <2> QED BY <1>5, <1>6, <2>1, <2>2
<1>8. a = b
  BY <1>5, <1>6, <1>7, SeqEqual
<1>9. Matches(d, k, Boundary) <=> Matches(f.spool, q, Boundary)
  BY <1>1, <1>3, <1>4, <1>5, <1>6, <1>8 DEF Matches
<1>10. q \in 0..Len(f.spool) - bound_len
  BY <1>1, <1>3, <1>4
<1>11. Matches(f.spool, q, Boundary) <=> \E j \in 1..Len(f.parts) + 1 : f.at[j] = q
  BY <1>10 DEF Laid, LaidOut
<1> QED BY <1>2, <1>9, <1>11

\* The boundary at or behind the place p is the i-th.
IsNextAt(f, p, i) == p <= f.at[i] /\ (i > 1 => f.at[i - 1] < p)

(* The next boundary of the form is what the parser finds, or not yet read. *)
LEMMA NextBoundary ==
    ASSUME ChunkInv, Synced, Laid(form), NEW i \in 1..Parted + 1, IsNextAt(form, Pos, i)
    PROVE  /\ BoundaryAt = {} => form.at[i] + bound_len > rd
           /\ BoundaryAt # {} => /\ memmem = form.at[i] - Pos
                                 /\ form.at[i] + bound_len <= rd
<1>1. PICK d \in Seq(STRING), p \in Nat :
         d = data /\ p = Pos /\ Len(d) \in Nat /\ dlen = Len(d) /\ rd = p + Len(d) /\ Reads(d, form, p)
  BY SyncedData
<1>2. PICK n \in Nat : n = bound_len /\ n >= 5
  BY BoundLength
<1>3. form \in Forms /\ Parted \in Nat /\ \A j \in 1..Parted + 1 : form.at[j] \in Nat
  BY LayoutType DEF ChunkInv, Parted
<1>4. BoundaryAt = {k \in 0..Len(d) - n : Matches(d, k, Boundary)}
  BY <1>1, <1>2 DEF BoundaryAt
<1>5. ASSUME NEW k \in 0..Len(d) - n
      PROVE  Matches(d, k, Boundary) <=> \E j \in 1..Parted + 1 : form.at[j] = p + k
  <2>1. k \in Nat /\ k + bound_len <= Len(d)
    BY <1>1, <1>2
  <2> QED BY <1>1, <1>3, <2>1, BoundaryIs DEF Parted
<1>6. PICK a \in Nat : a = form.at[i] /\ p <= a
  BY <1>1, <1>3 DEF IsNextAt
<1>7. ASSUME a + n <= rd PROVE a - p \in BoundaryAt
  <2>1. a - p \in 0..Len(d) - n /\ p + (a - p) = a
    <3>1. PICK l \in Nat : l = Len(d) /\ rd = p + l
      BY <1>1
    <3>2. n \in Nat /\ p <= a /\ a + n <= p + l
      BY <1>2, <1>6, <1>7, <3>1
    <3>3. a - p \in 0..l - n /\ p + (a - p) = a
      BY <3>2
    <3> QED BY <3>1, <3>3
  <2>2. PICK k \in 0..Len(d) - n : k = a - p
    BY <2>1
  <2>3. Matches(d, k, Boundary)
    BY <1>5, <1>6, <2>1, <2>2
  <2> QED BY <1>4, <2>2, <2>3
<1>8. ASSUME NEW k \in BoundaryAt PROVE k \in Nat /\ a <= p + k /\ p + k + n <= rd
  <2>1. k \in 0..Len(d) - n /\ Matches(d, k, Boundary)
    BY <1>4
  <2>2. PICK j \in 1..Parted + 1 : form.at[j] = p + k
    BY <1>5, <2>1
  <2>3. CASE j < i
    <3>1. PICK e \in 1..Parted + 1 : e = i - 1 /\ j <= e /\ i > 1
      BY <1>3, <2>3
    <3>2. form.at[e] < p
      BY <1>1, <3>1 DEF IsNextAt
    <3>3. form.at[j] <= form.at[e]
      <4>1. CASE j = e
        BY <1>3, <4>1
      <4>2. CASE j < e
        <5>1. form.at[j] + bound_len + 2 <= form.at[e]
          BY <1>3, <4>2, AtRises DEF Parted
        <5> QED BY <1>2, <1>3, <5>1
      <4> QED BY <3>1, <4>1, <4>2
    <3>4. form.at[j] \in Nat /\ form.at[e] \in Nat /\ k \in Nat
      BY <1>1, <1>2, <1>3, <2>1
    <3> QED BY <2>2, <3>2, <3>3, <3>4
  <2>4. CASE j = i
    BY <1>1, <1>2, <1>6, <2>1, <2>2, <2>4
  <2>5. CASE j > i
    <3>1. form.at[i] + bound_len + 2 <= form.at[j]
      BY <1>3, <2>5, AtRises DEF Parted
    <3>2. PICK l \in Nat, c \in Nat : l = Len(d) /\ c = form.at[j] /\ c = p + k /\ k \in 0..l - n
      BY <1>1, <1>3, <2>1, <2>2
    <3>3. a + n + 2 <= c /\ rd = p + l
      BY <1>1, <1>2, <1>6, <3>1, <3>2
    <3>4. k \in Nat /\ k + n <= l /\ n \in Nat /\ a \in Nat /\ p \in Nat
      BY <1>1, <1>2, <1>6, <3>2
    <3>5. a <= p + k /\ p + k + n <= p + l
      BY <3>2, <3>3, <3>4
    <3> QED BY <3>3, <3>4, <3>5
  <2>6. j < i \/ j = i \/ j > i
    BY <1>3
  <2> QED BY <2>3, <2>4, <2>5, <2>6
<1>9. BoundaryAt = {} => a + n > rd
  BY <1>1, <1>7
<1>10. ASSUME BoundaryAt # {} PROVE memmem = a - p /\ a + n <= rd
  <2>1. BoundaryAt \in SUBSET Nat
    BY <1>8
  <2>2. memmem \in BoundaryAt /\ \A k \in BoundaryAt : memmem <= k
    BY <1>10, <2>1, LeastOf DEF memmem
  <2>3. PICK m \in Nat : m = memmem /\ a <= p + m /\ p + m + n <= rd
    BY <1>8, <2>2
  <2>4. a + n <= rd /\ rd \in Nat
    BY <1>1, <2>3
  <2>5. m <= a - p
    BY <1>7, <2>2, <2>3, <2>4
  <2> QED BY <2>3, <2>4, <2>5
<1> QED BY <1>1, <1>2, <1>6, <1>9, <1>10
-----------------------------------------------------------------------------
(* The caller goes on behind what was used, or with the next chunk, or not. *)
LEMMA ConsumeMoves ==
    ASSUME ChunkInv, Synced, NEW n \in Int, NEW to \in MpStates, Consume(n, to)
    PROVE  /\ UNCHANGED <<form, rd, mem, brmax, fd_spool>> /\ mp_state' = to
           /\ Waiting' => /\ to # "FINISH" /\ Synced' /\ mp' = mp + n /\ outcome' = outcome
                          /\ Pos' = Pos + n /\ Pos + n <= rd /\ dlen' = dlen - n /\ n <= dlen
                          /\ ctl' = "read" => n = 0 \/ Pos + n = rd
           /\ ~Waiting' => \/ to = "FINISH" /\ ctl' = "done" /\ outcome' = "finished"
                           \/ to # "FINISH" /\ ctl' = "over" /\ ~(0 <= mp + n /\ n <= dlen)
<1>1. PICK m \in Nat, l \in Nat, r \in Nat, d \in Nat, p \in Nat :
        /\ m = mp /\ l = Len(mem) /\ r = rd /\ d = dlen /\ p = Pos
        /\ r = p + d /\ l = m + d
  BY SyncedData
<1>2. UNCHANGED <<form, rd, mem, brmax, fd_spool>> /\ mp_state' = to
  BY DEF Consume
<1>3. Synced'
  BY <1>2 DEF Synced
<1>4. ASSUME Waiting'
      PROVE  to # "FINISH" /\ m + n \in 0..l /\ mp' = m + n /\ outcome' = outcome
             /\ (ctl' = "read" => n = 0 \/ m + n = l)
  BY <1>1, <1>4 DEF Consume, Waiting, Stalled
<1>5. ASSUME Waiting' PROVE dlen' = d - n /\ Pos' = p + n /\ n <= d
  <2>1. m + n \in 0..l /\ mp' = m + n /\ Len(mem') = l /\ mem' \in Seq(STRING) /\ rd' = r
    BY <1>1, <1>2, <1>4, <1>5 DEF ChunkInv
  <2>2. PICK q \in Nat, w \in Nat : q = m + n /\ w = l - q /\ q + w = l /\ w = d - n /\ n <= d
    BY <1>1, <2>1
  <2>3. PICK s \in Seq(STRING) : s = mem' /\ q + w <= Len(s)
    BY <2>1, <2>2
  <2>4. Len(SubSeq(s, q + 1, q + w)) = w
    BY <2>3, PieceOf
  <2>5. data' = SubSeq(s, q + 1, q + w)
    BY <2>1, <2>2, <2>3 DEF data
  <2>6. dlen' = w
    BY <2>4, <2>5 DEF dlen
  <2>7. Pos' = r - w
    BY <2>1, <2>6 DEF Pos
  <2>8. r - w = p + n
    BY <1>1, <2>2
  <2> QED BY <2>2, <2>6, <2>7, <2>8
<1>6. ASSUME Waiting' PROVE p + n <= r /\ (ctl' = "read" => n = 0 \/ p + n = r)
  BY <1>1, <1>4, <1>5, <1>6
<1>7. ASSUME ~Waiting'
      PROVE  \/ to = "FINISH" /\ ctl' = "done" /\ outcome' = "finished"
             \/ to # "FINISH" /\ ctl' = "over" /\ ~(0 <= m + n /\ n <= d)
  <2>1. \/ to = "FINISH" /\ ctl' = "done" /\ outcome' = "finished"
        \/ to # "FINISH" /\ m + n \notin 0..l /\ ctl' = "over"
    BY <1>1, <1>7 DEF Consume, Waiting
  <2>2. m + n \notin 0..l => ~(0 <= m + n /\ n <= d)
    BY <1>1
  <2> QED BY <2>1, <2>2
<1> QED BY <1>1, <1>2, <1>3, <1>4, <1>5, <1>6, <1>7

\* Where in the form the parser is, state by state.
InBegin(i) == mp_state = "BEGIN" /\ IsNextAt(form, Pos, i)
InHeader(i) == mp_state = "HEADER" /\ i \in 1..Parted /\ Pos = HeadAt(form, i)
InType(i) ==
    /\ mp_state = "FILETYPE" /\ i \in 1..Parted
    /\ PartAt(i).kind = "file" /\ name = PartAt(i).name
    /\ HeadAt(form, i) <= Pos /\ Pos + 4 <= ValueAt(form, i)
InFile(i) ==
    /\ mp_state = "FILEDATA" /\ i \in 1..Parted /\ PartAt(i).kind = "file"
    /\ form.at[i] <= Pos /\ Pos <= form.at[i + 1]
    /\ fd_upload => ValueAt(form, i) <= Pos
InField(i) ==
    /\ mp_state = "FLDDATA" /\ i \in 1..Parted
    /\ PartAt(i).kind = "field" /\ name = PartAt(i).name
    /\ ValueAt(form, i) <= Pos /\ Pos <= form.at[i + 1]
    /\ flddata = SubSeq(PartAt(i).value, 1, Pos - ValueAt(form, i))
Full == mp_state = "FLDDATA" /\ Len(flddata) = REQ_MAX_FLDDATA
Where(i) == InBegin(i) \/ InHeader(i) \/ InType(i) \/ InFile(i) \/ InField(i)

\* There is more of a whole form to come.
Starves(f, r) == \E j \in 1..Len(f.parts) + 1 : r < f.at[j] + bound_len + 2

\* The caller reads on behind what was used up, or because more is to come.
Hungry == ctl = "read" => Pos = rd \/ Starves(form, rd)

Kept == UNCHANGED <<form, stored>>

(* Skipping to a boundary never skips the boundary that comes next. *)
LEMMA SkipToBoundaryMoves ==
    ASSUME ChunkInv, Synced, Laid(form), NEW i \in 1..Parted + 1, InBegin(i), SkipToBoundary
    PROVE  /\ Kept /\ slips' = slips /\ Waiting' /\ Synced' /\ InBegin(i)'
           /\ Starves(form, rd) /\ outcome' = outcome
<1> DEFINE n == IF dlen < bound_len THEN 0 ELSE Searched
<1>1. Consume(n, "BEGIN") /\ UNCHANGED <<name, flddata, stored, slips>> /\ BoundaryAt = {}
      /\ IsNextAt(form, Pos, i)
  BY DEF SkipToBoundary, InBegin
<1>2. PICK r \in Nat, d \in Nat, p \in Nat, m \in Nat :
         r = rd /\ d = dlen /\ p = Pos /\ r = p + d /\ m = mp
  BY SyncedData
<1>3. PICK a \in Nat, b \in Nat : a = form.at[i] /\ b = bound_len /\ b >= 5
  BY LayoutType, BoundLength DEF ChunkInv, Parted
<1>4. p <= a /\ a + b > r /\ (i > 1 => form.at[i - 1] < p)
  BY <1>1, <1>2, <1>3, NextBoundary DEF IsNextAt
<1>5. n \in Nat /\ n <= d /\ p + n <= a
  <2>1. n = IF d < b THEN 0 ELSE d - b + 1
    BY <1>2, <1>3 DEF Searched
  <2> HIDE DEF n
  <2> QED BY <1>2, <1>3, <1>4, <2>1
<1> HIDE DEF n
<1>6. PICK k \in Nat : k = n
  BY <1>5
<1>7. Waiting' /\ Synced' /\ mp_state' = "BEGIN" /\ Pos' = p + k /\ form' = form /\ outcome' = outcome
      /\ rd' = rd
  <2>1. k \in Int /\ "BEGIN" \in MpStates /\ Consume(k, "BEGIN") /\ 0 <= m + k /\ k <= d
    BY <1>1, <1>5, <1>6, StateNames
  <2> QED BY <1>2, <2>1, ConsumeMoves
<1>8. InBegin(i)'
  <2>1. Pos' <= form'.at[i] /\ (i > 1 => form'.at[i - 1] < Pos')
    <3>1. ASSUME i > 1 PROVE form.at[i - 1] < p + k
      <4>1. PICK e \in Nat : e = form.at[i - 1]
        <5>1. i - 1 \in 1..Parted + 1
          BY <3>1, LayoutType DEF ChunkInv, Parted
        <5> QED BY <5>1, LayoutType DEF ChunkInv, Parted
      <4> QED BY <1>2, <1>4, <3>1, <4>1
    <3> QED BY <1>3, <1>5, <1>6, <1>7, <3>1
  <2> QED BY <1>7, <2>1 DEF InBegin, IsNextAt
<1>9. Starves(form, rd)
  <2>1. r < a + b + 2
    BY <1>3, <1>4
  <2> QED BY <1>2, <1>3, <2>1 DEF Starves, Parted
<1> QED BY <1>1, <1>7, <1>8, <1>9 DEF Kept

(* What lies in the form is what the parser sees. *)
LEMMA SeesPiece ==
    ASSUME NEW f, NEW d \in Seq(STRING), NEW p \in Nat, Reads(d, f, p), Len(f.spool) \in Nat,
           NEW piece, NEW q \in Nat, LiesAt(piece, f.spool, q),
           NEW k \in DOMAIN piece, k \in Nat, NEW j \in 1..Len(d), p + j = q + k
    PROVE  d[j] = piece[k]
<1>1. d[j] = f.spool[p + j] /\ p + j <= Len(f.spool)
  <2>1. p + Len(d) <= Len(f.spool) /\ d[j] = f.spool[p + j]
    BY DEF Reads
  <2>2. Len(d) \in Nat
    BY LenProperties
  <2> QED BY <2>1, <2>2
<1>2. f.spool[q + k] = piece[k]
  BY <1>1 DEF LiesAt
<1> QED BY <1>1, <1>2

(* A sequence of two. *)
IsPair(T, a, b) == \E u \in Seq(T) : u = <<a, b>> /\ Len(u) = 2 /\ u[1] = a /\ u[2] = b
(* Two symbols make such a sequence. *)
LEMMA PairIs == ASSUME NEW T, NEW a \in T, NEW b \in T PROVE IsPair(T, a, b)
<1>1. <<a, b>> \in Seq(T)
  OBVIOUS
<1>2. Len(<<a, b>>) = 2 /\ <<a, b>>[1] = a /\ <<a, b>>[2] = b
  OBVIOUS
<1> QED BY <1>1, <1>2 DEF IsPair

(* The two symbols behind a place of the chunk. *)
LEMMA TwoOf ==
    ASSUME NEW d \in Seq(STRING), NEW junk \in Seq(STRING), NEW k \in Nat, k + 2 <= Len(d)
    PROVE  SubSeq(d \o junk, k + 1, k + 2) = <<d[k + 1], d[k + 2]>>
<1>0. Len(d) \in Nat /\ Len(junk) \in Nat
  BY LenProperties
<1>1. PICK s \in Seq(STRING) : s = d \o junk /\ Len(s) = Len(d) + Len(junk)
                                /\ \A i \in 1..Len(d) : s[i] = d[i]
  <2>1. /\ d \o junk \in Seq(STRING) /\ Len(d \o junk) = Len(d) + Len(junk)
        /\ \A i \in 1..Len(d) + Len(junk) :
             (d \o junk)[i] = IF i <= Len(d) THEN d[i] ELSE junk[i - Len(d)]
    BY ConcatProperties
  <2>2. \A i \in 1..Len(d) : i \in 1..Len(d) + Len(junk) /\ i <= Len(d)
    BY <1>0
  <2> QED BY <2>1, <2>2
<1>2. Len(d) \in Nat /\ Len(junk) \in Nat
  BY LenProperties
<1>3. k + 2 <= Len(s)
  BY <1>1, <1>2
<1>4. PICK t : t = SubSeq(s, k + 1, k + 2) /\ t \in Seq(STRING) /\ Len(t) = 2
               /\ \A i \in 1..2 : t[i] = s[k + i]
  <2>1. /\ SubSeq(s, k + 1, k + 2) \in Seq(STRING) /\ Len(SubSeq(s, k + 1, k + 2)) = 2
        /\ \A i \in 1..2 : SubSeq(s, k + 1, k + 2)[i] = s[k + i]
    <3>1. 2 \in Nat /\ IsSlice(Slice(s, k, 2), STRING, s, k, 2)
      BY <1>3, SliceOf
    <3> QED BY <3>1 DEF IsSlice, Slice
  <2> QED BY <2>1
<1>5. t[1] = d[k + 1] /\ t[2] = d[k + 2]
  BY <1>1, <1>2, <1>4
<1>6. PICK a \in STRING, b \in STRING : a = d[k + 1] /\ b = d[k + 2]
  <2>1. \A i \in 1..Len(d) : d[i] \in STRING
    BY <1>0, ElementOfSeq
  <2>2. k + 1 \in 1..Len(d) /\ k + 2 \in 1..Len(d)
    BY <1>0
  <2> QED BY <2>1, <2>2
<1>7. PICK u \in Seq(STRING) : u = <<a, b>> /\ Len(u) = 2 /\ u[1] = a /\ u[2] = b
  <2>1. IsPair(STRING, a, b)
    BY PairIs
  <2> QED BY <2>1 DEF IsPair
<1>8. t = u
  <2>1. Len(t) = Len(u)
    BY <1>4, <1>7
  <2>2. \A i \in 1..Len(t) : t[i] = u[i]
    BY <1>4, <1>5, <1>6, <1>7
  <2> QED BY <1>4, <1>7, <2>1, <2>2, SeqEqual
<1> QED BY <1>1, <1>4, <1>6, <1>7, <1>8

\* The reading ends behind the last part.
Ended(i) == i = Parted + 1 /\ ctl' = "done" /\ outcome' = "finished"

(* The boundary found is the next one of the form: a head is behind it, or the end. *)
LEMMA FindBoundaryMoves ==
    ASSUME ChunkInv, Synced, Laid(form), NEW i \in 1..Parted + 1, InBegin(i), FindBoundary
    PROVE  /\ Kept
           /\ Waiting' => Synced' /\ InHeader(i)' /\ outcome' = outcome /\ Hungry'
           /\ slips' = {} => Waiting' \/ Ended(i)
<1>1. BoundaryAt # {} /\ IsNextAt(form, Pos, i)
  BY DEF FindBoundary, InBegin
<1>2. PICK d \in Seq(STRING), p \in Nat, m \in Nat, r \in Nat :
        /\ d = data /\ p = Pos /\ m = mp /\ r = rd
        /\ Len(d) \in Nat /\ dlen = Len(d) /\ r = p + Len(d) /\ Reads(d, form, p)
  BY SyncedData
<1>3. PICK n \in Nat : n = bound_len /\ n >= 5
  BY BoundLength
<1>4. form \in Forms /\ Parted \in Nat /\ \A j \in 1..Parted + 1 : form.at[j] \in Nat
      /\ Len(form.spool) \in Nat
  BY LayoutType DEF ChunkInv, Parted
<1>5. PICK a \in Nat : a = form.at[i]
  BY <1>4
<1>6. memmem = a - p /\ a + n <= r /\ p <= a
  BY <1>1, <1>2, <1>3, <1>5, NextBoundary DEF IsNextAt
<1>7. PICK k \in Nat : k = memmem + bound_len /\ p + k = a + n /\ k <= Len(d)
  <2>1. a - p + n \in Nat /\ p + (a - p + n) = a + n /\ a - p + n <= Len(d)
    BY <1>2, <1>6
  <2> QED BY <1>3, <1>6, <2>1
<1>8. PICK junk, x, y :
        /\ junk \in Seq(STRING) /\ <<x, y>> = AfterBoundary(data \o junk)
        /\ k + 2 <= Len(d) => x = d[k + 1] /\ y = d[k + 2]
        /\ k + 2 > Len(d) => slips' = slips \cup {"beyond"}
        /\ \/ /\ <<x, y>> = <<dash, dash>>
              /\ Consume(k + 2, "FINISH") /\ UNCHANGED stored
           \/ /\ <<x, y>> # <<dash, dash>>
              /\ Consume(k + 2, "HEADER") /\ UNCHANGED stored
           \/ /\ <<x, y>> # <<dash, dash>> /\ x # cr
              /\ Throw
  <2>1. Slip("beyond", k + 2 > dlen)
    BY <1>7 DEF FindBoundary
  <2>2. PICK junk \in Junks : LET next == AfterBoundary(data \o junk) IN
            \/ /\ next = <<dash, dash>>
               /\ Consume(k + 2, "FINISH") /\ UNCHANGED <<name, flddata, stored>>
            \/ /\ next # <<dash, dash>> /\ (next[1] = cr \/ next[2] = lf)
               /\ Consume(k + 2, "HEADER") /\ UNCHANGED <<name, flddata, stored>>
            \/ /\ next # <<dash, dash>> /\ next[1] # cr /\ next[2] # lf
               /\ Throw
    BY <1>7 DEF FindBoundary
  <2>3. junk \in Seq(STRING) /\ Len(junk) \in Nat /\ Len(junk) >= n + 4
    BY <1>3, MultipartAssumption, LenProperties
  <2>4. PICK x, y : /\ <<x, y>> = AfterBoundary(data \o junk)
                    /\ k + 2 <= Len(d) => x = d[k + 1] /\ y = d[k + 2]
    <3>1. PICK s \in Seq(STRING) : s = d \o junk /\ Len(s) = Len(d) + Len(junk)
      BY <2>3, ConcatProperties
    <3>2. k + 2 <= Len(s)
      <4>1. PICK l \in Nat, g \in Nat : l = Len(d) /\ g = Len(junk) /\ Len(s) = l + g
        BY <1>2, <2>3, <3>1
      <4>2. l \in Nat /\ g \in Nat /\ k \in Nat /\ n \in Nat /\ k <= l /\ g >= n + 4
        BY <1>3, <1>7, <2>3, <4>1
      <4>3. k + 2 <= l + g
        BY <4>2
      <4> QED BY <4>1, <4>3
    <3>3. SubSeq(s \o <<>>, k + 1, k + 2) = <<s[k + 1], s[k + 2]>>
      BY <3>2, EmptySeq, TwoOf
    <3>4. AfterBoundary(data \o junk) = <<s[k + 1], s[k + 2]>>
      <4>1. s \o <<>> = s
        BY <3>1
      <4>2. memmem + bound_len + 1 = k + 1 /\ memmem + bound_len + 2 = k + 2
        BY <1>7
      <4> QED BY <1>2, <3>1, <3>3, <4>1, <4>2 DEF AfterBoundary
    <3>5. k + 2 <= Len(d) => s[k + 1] = d[k + 1] /\ s[k + 2] = d[k + 2]
      BY <1>2, <2>3, <3>1, ConcatProperties
    <3> QED BY <3>4, <3>5
  <2>5. k + 2 > Len(d) => slips' = slips \cup {"beyond"}
    BY <1>2, <2>1 DEF Slip
  <2> QED BY <2>2, <2>3, <2>4, <2>5
<1>9. ASSUME k + 2 <= Len(d)
      PROVE  IF i = Parted + 1 THEN x = dash /\ y = dash ELSE x = cr /\ y = lf
  <2>1. p + (k + 1) = (a + n) + 1 /\ p + (k + 2) = (a + n) + 2 /\ a + n \in Nat
        /\ k + 1 \in 1..Len(d) /\ k + 2 \in 1..Len(d)
    <3>1. PICK l \in Nat : l = Len(d) /\ k + 2 <= l
      BY <1>2, <1>9
    <3>2. p \in Nat /\ k \in Nat /\ a \in Nat /\ n \in Nat /\ p + k = a + n
      BY <1>2, <1>3, <1>5, <1>7
    <3>3. p + (k + 1) = (a + n) + 1 /\ p + (k + 2) = (a + n) + 2 /\ a + n \in Nat
      BY <3>2
    <3>4. k + 1 \in 1..l /\ k + 2 \in 1..l
      BY <3>1, <3>2
    <3> QED BY <3>1, <3>3, <3>4
  <2>2. PICK q \in Nat, j1 \in 1..Len(d), j2 \in 1..Len(d) :
          q = a + n /\ j1 = k + 1 /\ j2 = k + 2 /\ p + j1 = q + 1 /\ p + j2 = q + 2
    BY <2>1
  <2>3. ASSUME NEW piece, piece = <<dash, dash>> \/ piece = <<cr, lf>>, LiesAt(piece, form.spool, q)
        PROVE  d[j1] = piece[1] /\ d[j2] = piece[2]
    <3>1. 1 \in DOMAIN piece /\ 2 \in DOMAIN piece /\ 1 \in Nat /\ 2 \in Nat
      BY <2>3
    <3>2. ASSUME NEW k0 \in DOMAIN piece, k0 \in Nat, NEW j \in 1..Len(d), p + j = q + k0
          PROVE  d[j] = piece[k0]
      BY <1>2, <1>4, <2>2, <2>3, <3>2, SeesPiece
    <3> QED BY <2>2, <3>1, <3>2
  <2>4. CASE i = Parted + 1
    <3>1. LiesAt(<<dash, dash>>, form.spool, q)
      BY <1>3, <1>5, <2>2, <2>4 DEF Laid, LaidOut, Parted
    <3>2. d[j1] = <<dash, dash>>[1] /\ d[j2] = <<dash, dash>>[2]
      BY <2>3, <3>1
    <3> QED BY <1>8, <1>9, <2>2, <2>4, <3>2
  <2>5. CASE i # Parted + 1
    <3>1. i \in 1..Parted
      BY <1>4, <2>5
    <3>2. LiesAt(<<cr, lf>>, form.spool, q)
      BY <1>3, <1>5, <2>2, <3>1 DEF Laid, LaidOut, Parted
    <3>3. d[j1] = <<cr, lf>>[1] /\ d[j2] = <<cr, lf>>[2]
      BY <2>3, <3>2
    <3> QED BY <1>8, <1>9, <2>2, <2>5, <3>3
  <2> QED BY <2>4, <2>5
<1>10. dash # cr
  BY DEF dash, cr
<1>11. PICK w \in Nat : w = k + 2 /\ (w <= Len(d) <=> k + 2 <= Len(d))
  OBVIOUS
<1>12. CASE <<x, y>> = <<dash, dash>> /\ Consume(k + 2, "FINISH") /\ UNCHANGED stored
  <2>1. w \in Int /\ "FINISH" \in MpStates /\ Consume(w, "FINISH")
    BY <1>11, <1>12, StateNames
  <2>2. ~Waiting' /\ ctl' = "done" /\ outcome' = "finished" /\ form' = form
    BY <2>1, ConsumeMoves
  <2>3. slips' = {} => i = Parted + 1
    BY <1>8, <1>9, <1>10, <1>12
  <2> QED BY <1>12, <2>2, <2>3 DEF Ended, Kept
<1>13. CASE <<x, y>> # <<dash, dash>> /\ Consume(k + 2, "HEADER") /\ UNCHANGED stored
  <2>1. w \in Int /\ "HEADER" \in MpStates /\ Consume(w, "HEADER")
    BY <1>11, <1>13, StateNames
  <2>2. /\ form' = form /\ rd' = rd /\ mp_state' = "HEADER"
        /\ Waiting' => Synced' /\ outcome' = outcome /\ Pos' = p + w /\ w <= Len(d)
        /\ Waiting' => (ctl' = "read" => w = 0 \/ Pos' = rd)
        /\ ~Waiting' => ~(0 <= m + w /\ w <= Len(d))
    BY <1>2, <2>1, ConsumeMoves
  <2>3. ASSUME Waiting' PROVE InHeader(i)'
    <3>1. i \in 1..Parted
      BY <1>4, <1>9, <1>11, <1>13, <2>2, <2>3
    <3>2. p + w = a + n + 2
      <4>1. /\ p \in Nat /\ k \in Nat /\ a \in Nat /\ n \in Nat /\ w \in Nat
            /\ p + k = a + n /\ w = k + 2
        BY <1>2, <1>3, <1>5, <1>7, <1>11
      <4> QED BY <4>1
    <3>3. HeadAt(form, i) = a + n + 2
      BY <1>3, <1>5 DEF HeadAt
    <3> QED BY <2>2, <2>3, <3>1, <3>2, <3>3 DEF InHeader, Parted
  <2>4. slips' = {} => Waiting'
    BY <1>2, <1>8, <1>11, <2>2
  <2>5. Waiting' => Hungry'
    <3>1. w # 0
      BY <1>11
    <3> QED BY <2>2, <3>1 DEF Hungry
  <2> QED BY <1>13, <2>2, <2>3, <2>4, <2>5 DEF Kept
<1>14. CASE <<x, y>> # <<dash, dash>> /\ x # cr /\ Throw
  <2>1. ~Waiting'
    BY <1>14 DEF Throw, Waiting
  <2>2. ~(k + 2 <= Len(d))
    BY <1>8, <1>9, <1>14
  <2>3. "beyond" \in slips'
    BY <1>2, <1>7, <1>8, <2>2
  <2>4. Kept
    BY <1>14 DEF Throw, Kept
  <2> QED BY <2>1, <2>3, <2>4
<1> QED BY <1>8, <1>12, <1>13, <1>14
-----------------------------------------------------------------------------
(* One more symbol behind some. *)
IsBehind(d, e) == /\ (d \o <<e>>)[Len(d) + 1] = e
                  /\ \A k \in 1..Len(d) : (d \o <<e>>)[k] = d[k]
(* What stands where in it. *)
LEMMA BehindIs == ASSUME NEW T, NEW d \in Seq(T), NEW e PROVE IsBehind(d, e)
<1> DEFINE U == T \cup {e}
<1>1. Len(d) \in Nat /\ d \in [1..Len(d) -> T]
  BY LenProperties
<1>2. d \in [1..Len(d) -> U]
  BY <1>1
<1>3. d \in Seq(U) /\ e \in U
  <2> HIDE DEF U
  <2> QED BY <1>1, <1>2, FunctionIsSeq DEF U
<1> HIDE DEF U
<1>4. <<e>> \in Seq(U) /\ Len(<<e>>) = 1 /\ <<e>>[1] = e
  BY <1>3
<1>5. /\ \A k \in 1..Len(d) + Len(<<e>>) : (d \o <<e>>)[k] = IF k <= Len(d) THEN d[k] ELSE <<e>>[k - Len(d)]
  BY <1>3, <1>4, ConcatProperties
<1>6. PICK n \in Nat : n = Len(d) /\ n + 1 \in 1..n + 1 /\ ~(n + 1 <= n) /\ n + 1 - n = 1
                      /\ \A k \in 1..n : k \in 1..n + 1 /\ k <= n
  <2>1. PICK n \in Nat : n = Len(d)
    BY <1>1
  <2>2. n + 1 \in 1..n + 1 /\ ~(n + 1 <= n) /\ n + 1 - n = 1
    OBVIOUS
  <2>3. \A k \in 1..n : k \in 1..n + 1 /\ k <= n
    OBVIOUS
  <2> QED BY <2>1, <2>2, <2>3
<1>7. (d \o <<e>>)[n + 1] = e /\ \A k \in 1..n : (d \o <<e>>)[k] = d[k]
  BY <1>4, <1>5, <1>6
<1> QED BY <1>6, <1>7 DEF IsBehind

(* A header's line ends where the part's first line does. *)
LEMMA HeadSeen ==
    ASSUME ChunkInv, Synced, Laid(form), NEW i \in 1..Parted, InHeader(i),
           NEW ends \in 1..Len(PartAt(i).head) - 2, FirstLine(PartAt(i), ends)
    PROVE  /\ LineEnds(data \o <<dash>>) # {} => LineEnd = ends /\ ends < dlen
           /\ \A junk \in Junks : LineEnds(data \o junk) = {} => dlen <= ends
           /\ \A k \in 1..Len(PartAt(i).head) : k <= dlen => data[k] = PartAt(i).head[k]
<1>1. PICK d \in Seq(STRING), p \in Nat :
        d = data /\ p = Pos /\ Len(d) \in Nat /\ dlen = Len(d) /\ Reads(d, form, p)
  BY SyncedData
<1>2. IsPlaced(form, i) /\ form \in Forms /\ Len(form.spool) \in Nat
  BY LayoutType DEF ChunkInv, Parted
<1>3. PICK head \in Seq(STRING) : head = PartAt(i).head /\ Len(head) \in Nat
  BY <1>2 DEF IsPlaced, PartAt
<1>4. p = HeadAt(form, i)
  BY <1>1 DEF InHeader
<1>5. LiesAt(head, form.spool, p)
  BY <1>3, <1>4 DEF Laid, LaidOut, PartAt, Parted
<1>6. ASSUME NEW k \in 1..Len(head), k <= Len(d) PROVE d[k] = head[k]
  <2>1. k \in DOMAIN head /\ k \in Nat /\ k \in 1..Len(d)
    BY <1>1, <1>3, <1>6
  <2>2. d[k] = form.spool[p + k] /\ p + k <= Len(form.spool)
    BY <1>1, <1>2, <2>1 DEF Reads
  <2> QED BY <1>5, <2>1, <2>2 DEF LiesAt
<1>7. ends \in Nat /\ ends >= 1 /\ ends + 2 <= Len(head) /\ head[ends + 1] = cr
      /\ \A k \in 1..ends : head[k] # cr /\ head[k] # lf
  BY <1>3 DEF FirstLine
<1>8. cr # lf /\ dash # lf
  <2>1. cr # lf
    BY DEF cr, lf
  <2>2. dash # lf
    BY DEF dash, lf
  <2> QED BY <2>1, <2>2
<1>9. PICK s : /\ s = data \o <<dash>> /\ s[Len(d) + 1] = dash
               /\ \A k \in 1..Len(d) : s[k] = d[k]
  <2>1. IsBehind(d, dash)
    BY <1>1, BehindIs
  <2> QED BY <1>1, <2>1 DEF IsBehind
<1>10. ASSUME NEW k \in 0..Len(d) - 1, k < ends PROVE ~(s[k + 1] = cr \/ s[k + 2] = lf)
  <2>1. s[k + 1] = head[k + 1] /\ head[k + 1] # cr
    <3>1. PICK j \in Nat : /\ j = k + 1 /\ j \in 1..Len(head) /\ j \in 1..Len(d)
                            /\ j <= Len(d) /\ j \in 1..ends
      BY <1>1, <1>3, <1>7, <1>10
    <3> QED BY <1>6, <1>7, <1>9, <3>1
  <2>2. CASE k + 2 <= Len(d)
    <3>1. PICK j \in Nat : /\ j = k + 2 /\ j \in 1..Len(head) /\ j \in 1..Len(d)
                            /\ j <= Len(d) /\ (j \in 1..ends \/ j = ends + 1)
      BY <1>1, <1>3, <1>7, <1>10, <2>2
    <3>2. s[k + 2] = head[k + 2]
      BY <1>6, <1>9, <3>1
    <3> QED BY <1>7, <1>8, <2>1, <3>1, <3>2
  <2>3. CASE k + 2 > Len(d)
    <3>1. k + 2 = Len(d) + 1
      BY <1>1, <1>10, <2>3
    <3> QED BY <1>8, <1>9, <2>1, <3>1
  <2> QED BY <1>1, <2>2, <2>3
<1>11. LineEnds(s) = {k \in 0..Len(d) - 1 : s[k + 1] = cr \/ s[k + 2] = lf}
  BY <1>1 DEF LineEnds
<1>12. ASSUME LineEnds(s) # {} PROVE LineEnd = ends /\ ends < Len(d)
  <2>1. LineEnds(s) \in SUBSET Nat
    BY <1>1, <1>11
  <2>2. PICK e \in Nat : e = LineEnd /\ e \in LineEnds(s) /\ \A k \in LineEnds(s) : e <= k
    BY <1>9, <1>12, <2>1, LeastOf DEF LineEnd
  <2>3. e \in 0..Len(d) - 1 /\ ~(e < ends)
    BY <1>10, <1>11, <2>2
  <2>4. ends \in 0..Len(d) - 1 /\ ends + 1 \in 1..Len(head) /\ ends + 1 <= Len(d)
        /\ ends + 1 \in 1..Len(d)
    BY <1>1, <1>3, <1>7, <2>2, <2>3
  <2>5. s[ends + 1] = cr
    BY <1>6, <1>7, <1>9, <2>4
  <2>6. ends \in LineEnds(s)
    BY <1>11, <2>4, <2>5
  <2> QED BY <1>1, <1>7, <2>2, <2>3, <2>4, <2>6
<1>13. ASSUME NEW junk \in Junks, LineEnds(data \o junk) = {} PROVE Len(d) <= ends
  <2>1. SUFFICES ASSUME ends < Len(d) PROVE FALSE
    BY <1>1, <1>7
  <2>2. ends \in 0..Len(d) - 1 /\ ends + 1 \in 1..Len(head) /\ ends + 1 \in 1..Len(d) /\ ends + 1 <= Len(d)
    BY <1>1, <1>3, <1>7, <2>1
  <2>3. junk \in Seq(STRING) /\ Len(junk) \in Nat
    BY MultipartAssumption, LenProperties
  <2>4. (d \o junk)[ends + 1] = d[ends + 1]
    <3>1. ends + 1 \in 1..Len(d) + Len(junk) /\ ends + 1 <= Len(d)
      BY <1>1, <2>2, <2>3
    <3> QED BY <2>3, <3>1, ConcatProperties
  <2>5. (data \o junk)[ends + 1] = cr
    BY <1>1, <1>6, <1>7, <2>2, <2>4
  <2>6. ends \in LineEnds(data \o junk)
    BY <1>1, <2>2, <2>5 DEF LineEnds
  <2> QED BY <1>13, <2>6
<1>14. \A k \in 1..Len(PartAt(i).head) : k <= dlen => data[k] = PartAt(i).head[k]
  BY <1>1, <1>3, <1>6
<1>15. LineEnds(data \o <<dash>>) # {} => LineEnd = ends /\ ends < dlen
  BY <1>1, <1>9, <1>12
<1>16. \A junk \in Junks : LineEnds(data \o junk) = {} => dlen <= ends
  BY <1>1, <1>13
<1> QED BY <1>14, <1>15, <1>16

(* The line that the parser looks at. *)
LEMMA LineSeen ==
    ASSUME ChunkInv, Synced, Laid(form), NEW i \in 1..Parted, InHeader(i),
           NEW ends \in 1..Len(PartAt(i).head) - 2, FirstLine(PartAt(i), ends),
           LineEnds(data \o <<dash>>) # {}
    PROVE  /\ \A symbols : IndexOf(Line, symbols) = {k \in 1..ends : PartAt(i).head[k] \in symbols}
           /\ \A k \in 1..ends : Line[k] = PartAt(i).head[k]
<1>1. PICK d \in Seq(STRING) : d = data /\ Len(d) \in Nat /\ dlen = Len(d)
  BY SyncedData
<1>2. LineEnd = ends /\ ends < Len(d) /\ \A k \in 1..Len(PartAt(i).head) : k <= Len(d) => d[k] = PartAt(i).head[k]
  BY <1>1, HeadSeen
<1>3. PICK l \in Nat : l = Len(PartAt(i).head)
  BY LayoutType DEF ChunkInv, Parted, PartAt, IsPlaced
<1>4. ends \in Nat /\ \A k \in 1..ends : k \in 1..l /\ k <= Len(d)
  BY <1>1, <1>2, <1>3
<1>5. PICK line \in Seq(STRING) : line = Line /\ Len(line) = ends /\ \A k \in 1..ends : line[k] = d[k]
  <2>1. IsSlice(Slice(d, 0, ends), STRING, d, 0, ends)
    <3>1. 0 \in Nat /\ 0 + ends <= Len(d)
      BY <1>1, <1>2, <1>4
    <3> QED BY <1>4, <3>1, SliceOf
  <2>2. /\ SubSeq(d, 0 + 1, 0 + ends) \in Seq(STRING) /\ Len(SubSeq(d, 0 + 1, 0 + ends)) = ends
        /\ \A k \in 1..ends : SubSeq(d, 0 + 1, 0 + ends)[k] = d[0 + k]
    BY <2>1 DEF IsSlice, Slice
  <2>3. 0 + 1 = 1 /\ 0 + ends = ends /\ \A k \in 1..ends : 0 + k = k
    BY <1>4
  <2>4. SubSeq(d, 0 + 1, 0 + ends) = Line
    BY <1>1, <1>2, <2>3 DEF Line
  <2> QED BY <2>2, <2>3, <2>4
<1>6. \A k \in 1..ends : line[k] = PartAt(i).head[k]
  BY <1>2, <1>3, <1>4, <1>5
<1>7. DOMAIN line = 1..ends
  BY <1>5, LenProperties
<1> QED BY <1>5, <1>6, <1>7 DEF IndexOf

(* What it is for a boundary to lie somewhere. *)
LEMMA MatchesIs ==
    ASSUME NEW s \in Seq(STRING), NEW k \in Nat, k + bound_len <= Len(s)
    PROVE  Matches(s, k, Boundary) <=> \A j \in 1..bound_len : s[k + j] = Boundary[j]
<1>1. PICK n \in Nat : n = bound_len /\ n = Len(Boundary)
  BY BoundLength DEF bound_len
<1>2. PICK a : a = SubSeq(s, k + 1, k + n) /\ a \in Seq(STRING) /\ Len(a) = n
               /\ \A j \in 1..n : a[j] = s[k + j]
  <2>1. IsSlice(Slice(s, k, n), STRING, s, k, n)
    BY <1>1, SliceOf
  <2> QED BY <2>1 DEF IsSlice, Slice
<1>3. Matches(s, k, Boundary) <=> a = Boundary
  BY <1>1, <1>2 DEF Matches
<1>4. ASSUME \A j \in 1..n : a[j] = Boundary[j] PROVE a = Boundary
  <2>1. PICK b \in Seq(STRING) : b = Boundary /\ Len(b) = n
    BY <1>1, MultipartAssumption
  <2>2. \A j \in 1..Len(a) : a[j] = b[j]
    BY <1>2, <1>4, <2>1
  <2>3. a = b
    BY <1>2, <2>1, <2>2, SeqEqual
  <2> QED BY <2>1, <2>3
<1> QED BY <1>1, <1>2, <1>3, <1>4

(* All of a whole form is there. *)
LEMMA WholeIs ==
    ASSUME NEW f \in Forms, Laid(f), f.whole, NEW i \in 1..Len(f.parts) + 1
    PROVE  f.at[i] + bound_len + 2 <= Len(f.spool)
<1>1. PICK N \in Nat : N = Len(f.parts)
  BY LayoutType
<1>2. PICK a \in Nat, b \in Nat, n \in Nat, l \in Nat :
        a = f.at[i] /\ b = f.at[N + 1] /\ n = bound_len /\ l = Len(f.spool)
  <2>1. N + 1 \in 1..N + 1
    BY <1>1
  <2> QED BY <1>1, <2>1, LayoutType, BoundLength
<1>3. b + n + 2 <= l
  BY <1>1, <1>2 DEF Laid, LaidOut
<1>4. CASE i = N + 1
  <2>1. a = b
    BY <1>2, <1>4
  <2>2. a + n + 2 <= l
    BY <1>3, <2>1
  <2> QED BY <1>2, <2>2
<1>5. CASE i # N + 1
  <2>1. PICK e \in 1..Len(f.parts) + 1 : e = N + 1 /\ i < e
    BY <1>1, <1>5
  <2>2. f.at[i] + bound_len + 2 <= f.at[e]
    BY <2>1, AtRises
  <2>3. a + n + 2 <= b
    BY <1>2, <2>1, <2>2
  <2>4. a \in Int /\ b \in Int /\ n \in Nat /\ l \in Int
    BY <1>2
  <2>5. a + n + 2 <= l
    BY <1>3, <2>3, <2>4
  <2> QED BY <1>2, <2>5
<1> QED BY <1>4, <1>5

(* Whether a value is empty, if enough of what follows has been read. *)
LEMMA Decided ==
    ASSUME ChunkInv, Synced, Laid(form), form.whole, NEW i \in 1..Parted, NEW k \in Nat,
           Pos + k = ValueAt(form, i), k <= dlen, ~Undecided(k), NEW junk \in Seq(STRING)
    PROVE  Matches(data \o junk, k, Boundary) <=> PartAt(i).value = <<>>
<1>1. PICK d \in Seq(STRING), p \in Nat :
        d = data /\ p = Pos /\ Len(d) \in Nat /\ dlen = Len(d) /\ Reads(d, form, p)
  BY SyncedData
<1>2. /\ IsPlaced(form, i) /\ form \in Forms /\ Len(form.spool) \in Nat /\ form.spool \in Seq(STRING)
      /\ Parted \in Nat /\ \A j \in 1..Parted + 1 : form.at[j] \in Nat
  BY LayoutType DEF ChunkInv, Parted
<1>3. PICK n \in Nat : n = bound_len /\ n >= 5 /\ n = Len(Boundary)
  BY BoundLength DEF bound_len
<1>4. PICK q \in Nat, b \in Nat, w \in Nat : q = ValueAt(form, i) /\ q = p + k /\ b = form.at[i + 1]
                               /\ w = Len(PartAt(i).value) /\ b = q + w
  BY <1>1, <1>2 DEF IsPlaced, PartAt
<1>5. PICK a \in Nat : a = form.at[i] /\ a < q
  <2>1. PICK a \in Nat, h \in Nat, v \in Nat :
            a = form.at[i] /\ h = Len(PartAt(i).head) /\ v = HeadAt(form, i)
    <3>1. i \in 1..Parted + 1
      BY <1>2
    <3> QED BY <1>2, <3>1 DEF IsPlaced, PartAt
  <2>2. v = a + n + 2 /\ q = v + h
    BY <1>2, <1>3, <1>4, <2>1 DEF IsPlaced, PartAt
  <2>3. a \in Nat /\ h \in Nat /\ v \in Nat /\ n \in Nat
    BY <1>3, <2>1
  <2>4. a < q
    BY <2>2, <2>3
  <2> QED BY <2>1, <2>4
<1>6. PartAt(i).value = <<>> <=> w = 0
  BY <1>2, <1>4, EmptySeq, LenProperties DEF IsPlaced, PartAt
<1>7. PICK s \in Seq(STRING) : /\ s = data \o junk /\ Len(s) = Len(d) + Len(junk) /\ Len(junk) \in Nat
                               /\ \A j \in 1..Len(d) : s[j] = d[j]
  <2>1. /\ d \o junk \in Seq(STRING) /\ Len(d \o junk) = Len(d) + Len(junk)
        /\ \A j \in 1..Len(d) + Len(junk) : (d \o junk)[j] = IF j <= Len(d) THEN d[j] ELSE junk[j - Len(d)]
    BY ConcatProperties
  <2>2. Len(junk) \in Nat
    BY LenProperties
  <2>3. \A j \in 1..Len(d) : j \in 1..Len(d) + Len(junk) /\ j <= Len(d)
    BY <1>1, <2>2
  <2> QED BY <1>1, <2>1, <2>2, <2>3
<1>8. PICK l \in Nat : k + l = Len(d)
  <2>1. Len(d) - k \in Nat /\ k + (Len(d) - k) = Len(d)
    BY <1>1
  <2> QED BY <2>1
<1>9. ASSUME l < n PROVE ~ \A j \in 1..l : d[k + j] = Boundary[j]
  <2>1. SUFFICES ASSUME \A j \in 1..l : d[k + j] = Boundary[j] PROVE FALSE
    OBVIOUS
  <2>2. PICK x \in Seq(STRING) : x = SubSeq(d, k + 1, k + l) /\ Len(x) = l /\ \A j \in 1..l : x[j] = d[k + j]
    <3>1. k + l <= Len(d)
      BY <1>1, <1>8
    <3>2. IsSlice(Slice(d, k, l), STRING, d, k, l)
      BY <1>8, <3>1, SliceOf
    <3> QED BY <3>2 DEF IsSlice, Slice
  <2>3. PICK y \in Seq(STRING) : y = SubSeq(Boundary, 1, l) /\ Len(y) = l /\ \A j \in 1..l : y[j] = Boundary[j]
    <3>0. PICK b0 \in Seq(STRING) : b0 = Boundary /\ Len(b0) = n
      BY <1>3, MultipartAssumption
    <3>1. 0 \in Nat /\ 0 + l <= Len(b0) /\ 0 + 1 = 1 /\ 0 + l = l /\ \A j \in 1..l : 0 + j = j
      BY <1>3, <1>8, <1>9, <3>0
    <3>2. IsSlice(Slice(b0, 0, l), STRING, b0, 0, l)
      BY <1>8, <3>1, SliceOf
    <3>3. /\ SubSeq(b0, 0 + 1, 0 + l) \in Seq(STRING) /\ Len(SubSeq(b0, 0 + 1, 0 + l)) = l
          /\ \A j \in 1..l : SubSeq(b0, 0 + 1, 0 + l)[j] = b0[0 + j]
      BY <3>2 DEF IsSlice, Slice
    <3>4. SubSeq(b0, 0 + 1, 0 + l) = SubSeq(Boundary, 1, l) /\ \A j \in 1..l : b0[0 + j] = Boundary[j]
      BY <3>0, <3>1
    <3> HIDE <3>0, <3>1
    <3> QED BY <3>3, <3>4
  <2>4. \A j \in 1..l : x[j] = y[j]
    BY <2>1, <2>2, <2>3
  <2>5. x = y
    BY <1>8, <2>2, <2>3, <2>4, SeqEqual
  <2>6. l \in 0..bound_len - 1
    BY <1>3, <1>8, <1>9
  <2>7. SubSeq(data, k + 1, dlen) = SubSeq(Boundary, 1, l)
    BY <1>1, <1>8, <2>2, <2>3, <2>5
  <2> QED BY <2>6, <2>7 DEF Undecided
<1>10. CASE l < n
  <2>1. PICK j \in 1..l : d[k + j] # Boundary[j]
    BY <1>9, <1>10
  <2>2. j \in 1..n /\ k + j \in 1..Len(d) /\ p + (k + j) = q + j
    BY <1>1, <1>3, <1>4, <1>8, <1>10, <2>1
  <2>3. ~Matches(data \o junk, k, Boundary)
    <3>1. SUFFICES ASSUME Matches(s, k, Boundary) PROVE FALSE
      BY <1>7
    <3>2. k + bound_len <= Len(s)
      BY <1>3, <3>1 DEF Matches
    <3>3. s[k + j] = Boundary[j]
      <4>1. \A m \in 1..bound_len : s[k + m] = Boundary[m]
        BY <3>1, <3>2, MatchesIs
      <4>2. j \in 1..bound_len
        BY <1>3, <2>2
      <4> QED BY <4>1, <4>2
    <3> QED BY <1>7, <2>1, <2>2, <3>3
  <2>4. w # 0
    <3>1. SUFFICES ASSUME w = 0 PROVE FALSE
      OBVIOUS
    <3>2. i + 1 \in 1..Parted + 1
      BY <1>2
    <3>3. PICK e \in 1..Len(form.parts) + 1 : e = i + 1
      BY <3>2 DEF Parted
    <3>4. form.at[e] + bound_len + 2 <= Len(form.spool)
      BY <1>2, WholeIs
    <3>5. PICK sp \in Seq(STRING) : sp = form.spool /\ Len(sp) \in Nat
      BY <1>2
    <3>6. q = b
      <4>1. q \in Nat /\ w \in Nat /\ b = q + w
        BY <1>4
      <4> QED BY <3>1, <4>1
    <3>61. q = form.at[e]
      BY <1>4, <3>3, <3>6
    <3>62. q + n + 2 <= Len(sp)
      BY <1>3, <3>4, <3>5, <3>61
    <3>63. q \in 0..Len(sp) - n /\ q + n <= Len(sp)
      BY <1>3, <1>4, <3>5, <3>62
    <3>64. Matches(sp, q, Boundary)
      BY <1>3, <3>3, <3>5, <3>61, <3>63 DEF Laid, LaidOut
    <3>65. q \in Nat /\ q + bound_len <= Len(sp)
      BY <1>3, <1>4, <3>63
    <3>66. \A jj \in 1..bound_len : sp[q + jj] = Boundary[jj]
      BY <3>64, <3>65, MatchesIs
    <3>7. form.spool[q + j] = Boundary[j]
      BY <1>3, <2>2, <3>5, <3>66
    <3>8. d[k + j] = form.spool[q + j]
      BY <1>1, <2>2 DEF Reads
    <3> QED BY <2>1, <3>7, <3>8
  <2> QED BY <1>6, <2>3, <2>4
<1>11. CASE l >= n
  <2>1. k + bound_len <= Len(d) /\ k + bound_len <= Len(s)
    BY <1>1, <1>3, <1>7, <1>8, <1>11
  <2>2. \A j \in 1..bound_len : k + j \in 1..Len(d)
    BY <1>1, <1>3, <2>1
  <2>3. Matches(s, k, Boundary) <=> Matches(d, k, Boundary)
    <3>1. Matches(s, k, Boundary) <=> \A j \in 1..bound_len : s[k + j] = Boundary[j]
      BY <2>1, MatchesIs
    <3>2. Matches(d, k, Boundary) <=> \A j \in 1..bound_len : d[k + j] = Boundary[j]
      BY <2>1, MatchesIs
    <3> QED BY <1>7, <2>2, <3>1, <3>2
  <2>4. Matches(d, k, Boundary) <=> \E j \in 1..Len(form.parts) + 1 : form.at[j] = p + k
    BY <1>1, <1>2, <2>1, BoundaryIs
  <2>5. ASSUME NEW j \in 1..Parted + 1, form.at[j] = q PROVE w = 0
    <3>1. PICK e \in 1..Parted + 1 : e = i /\ form.at[e] = a
      BY <1>2, <1>5
    <3>2. PICK g \in 1..Parted + 1 : g = i + 1 /\ form.at[g] = b
      <4>1. i + 1 \in 1..Parted + 1
        BY <1>2
      <4> QED BY <1>4, <4>1
    <3>3. j > i
      <4>1. SUFFICES ASSUME j < e \/ j = e PROVE FALSE
        BY <1>2, <3>1
      <4>2. j < e => form.at[j] + bound_len + 2 <= form.at[e]
        BY <1>2, AtRises DEF Parted
      <4>3. j < e => q + n + 2 <= a
        BY <1>3, <2>5, <3>1, <4>2
      <4> QED BY <1>3, <1>4, <1>5, <2>5, <3>1, <4>1, <4>3
    <3>4. j = g \/ g < j
      BY <1>2, <3>2, <3>3
    <3>5. g < j => form.at[g] + bound_len + 2 <= form.at[j]
      BY <1>2, AtRises DEF Parted
    <3>6. g < j => b + n + 2 <= q
      BY <1>3, <2>5, <3>2, <3>5
    <3>7. CASE j = g
      <4>1. b = q
        BY <2>5, <3>2, <3>7
      <4>2. q \in Nat /\ w \in Nat /\ b = q + w
        BY <1>4
      <4> QED BY <4>1, <4>2
    <3>8. CASE g < j
      <4>1. q \in Nat /\ w \in Nat /\ b = q + w /\ n \in Nat
        BY <1>3, <1>4
      <4> QED BY <3>6, <3>8, <4>1
    <3> QED BY <3>4, <3>7, <3>8
  <2>6. w = 0 => \E j \in 1..Parted + 1 : form.at[j] = q
    <3>1. i + 1 \in 1..Parted + 1
      BY <1>2
    <3>2. w = 0 => form.at[i + 1] = q
      BY <1>4
    <3> QED BY <3>1, <3>2
  <2> QED BY <1>4, <1>6, <1>7, <2>3, <2>4, <2>5, <2>6 DEF Parted
<1> QED BY <1>3, <1>8, <1>10, <1>11

\* Nothing of the part is stored.
NothingOf(part) == Field(part) = <<>> /\ File(part) = <<>>

(* A call that used up n bytes and did not end the reading. *)
LEMMA GoesOn ==
    ASSUME ChunkInv, Synced, NEW n \in Nat, NEW to \in MpStates, to # "FINISH", Consume(n, to)
    PROVE  /\ form' = form /\ rd' = rd /\ mp_state' = to
           /\ n <= dlen => Waiting'
           /\ Waiting' => Synced' /\ outcome' = outcome /\ Pos' = Pos + n /\ n <= dlen
           /\ Waiting' => (n > 0 \/ Starves(form, rd) => Hungry')
<1>1. PICK d \in Nat, m \in Nat, p \in Nat : d = dlen /\ m = mp /\ p = Pos
  BY SyncedData
<1>2. /\ UNCHANGED <<form, rd, mem, brmax, fd_spool>> /\ mp_state' = to
      /\ Waiting' => /\ Synced' /\ outcome' = outcome
                     /\ Pos' = p + n /\ p + n <= rd /\ n <= d
                     /\ ctl' = "read" => n = 0 \/ p + n = rd
      /\ ~Waiting' => ~(0 <= m + n /\ n <= d)
  BY <1>1, ConsumeMoves
<1>3. n <= d => Waiting'
  BY <1>1, <1>2
<1>4. ASSUME Waiting', n > 0 \/ Starves(form, rd) PROVE Hungry'
  BY <1>2, <1>4 DEF Hungry
<1> QED BY <1>1, <1>2, <1>3, <1>4

(* Between two boundaries. *)
LEMMA NextAt ==
    ASSUME NEW f, NEW i \in Nat, NEW q, f.at[i] < q, q <= f.at[i + 1]
    PROVE  IsNextAt(f, q, i + 1)
<1>1. i + 1 - 1 = i
  OBVIOUS
<1> QED BY <1>1 DEF IsNextAt

(* What the first line of a part's head tells of it. *)
LEMMA LineTells ==
    ASSUME NEW part, NEW ends, FirstLine(part, ends)
    PROVE  /\ (\E k \in 1..ends : part.head[k] \in Names) <=> part.kind # "other"
           /\ \A k \in 1..ends : part.head[k] \in Names => part.head[k] = part.name
           /\ part.kind = "field" =>
                /\ \A k \in 1..ends : part.head[k] \notin {"file", "nofile"}
                /\ Len(part.head) = ends + 4 /\ part.head[ends + 3] = cr
           /\ part.kind \in {"file", "nofile"} =>
                /\ \E k \in 1..ends : part.head[k] \in {"file", "nofile"}
                /\ \A k \in 1..ends : part.head[k] \in {"file", "nofile"} => part.head[k] = part.kind
           /\ part.kind = "file" => \A k \in 1..ends : part.head[k] = "file" => k + 6 <= Len(part.head)
           /\ part.kind \in {"other", "field", "nofile", "file"}
<1> DEFINE symbols == {part.head[k] : k \in 1..ends}
           marks   == symbols \cap {"file", "nofile"}
<1>1. /\ symbols \cap Names = IF part.kind = "other" THEN {} ELSE {part.name}
      /\ \/ part.kind = "other"
         \/ part.kind = "nofile" /\ marks = {"nofile"}
         \/ /\ part.kind = "field" /\ marks = {}
            /\ Len(part.head) = ends + 4 /\ part.head[ends + 3] = cr
         \/ /\ part.kind = "file" /\ marks = {"file"}
            /\ \A k \in 1..ends : part.head[k] = "file" => k + 6 <= Len(part.head)
  BY DEF FirstLine
<1>2. part.kind \in {"other", "field", "nofile", "file"}
  BY <1>1
<1>3. (\E k \in 1..ends : part.head[k] \in Names) <=> part.kind # "other"
  BY <1>1
<1>4. \A k \in 1..ends : part.head[k] \in Names => part.head[k] = part.name
  BY <1>1
<1>5. part.kind = "field" =>
                /\ \A k \in 1..ends : part.head[k] \notin {"file", "nofile"}
                /\ Len(part.head) = ends + 4 /\ part.head[ends + 3] = cr
  BY <1>1
<1>6. part.kind \in {"file", "nofile"} => marks = {part.kind}
  BY <1>1
<1>7. part.kind \in {"file", "nofile"} =>
                /\ \E k \in 1..ends : part.head[k] \in {"file", "nofile"}
                /\ \A k \in 1..ends : part.head[k] \in {"file", "nofile"} => part.head[k] = part.kind
  BY <1>6
<1>8. part.kind = "file" => \A k \in 1..ends : part.head[k] = "file" => k + 6 <= Len(part.head)
  BY <1>1
<1> QED BY <1>2, <1>3, <1>4, <1>5, <1>7, <1>8

(* A line read is the first of a part's head, and tells of what kind the part is. *)
LEMMA HeaderMoves ==
    ASSUME ChunkInv, Synced, Laid(form), NEW i \in 1..Parted, InHeader(i), Header
    PROVE  /\ Waiting' => /\ Kept /\ Synced' /\ outcome' = outcome /\ Hungry'
                          /\ (InBegin(i + 1) \/ InType(i) \/ InField(i))'
           /\ slips' = {} /\ form.whole =>
                /\ Kept /\ Waiting'
                /\ mp_state' = "BEGIN" => NothingOf(PartAt(i))
                /\ mp_state' = "FLDDATA" => Pos' < form.at[i + 1]
<1>1. IsPlaced(form, i) /\ i \in Nat
  BY LayoutType DEF ChunkInv, Parted
<1>2. PICK ends \in 1..Len(PartAt(i).head) - 2 : FirstLine(PartAt(i), ends)
  BY <1>1 DEF IsPlaced, IsPart, PartAt
<1>3. PICK l \in Nat, a \in Nat, h \in Nat, v \in Nat, w \in Nat, b \in Nat :
        /\ l = Len(PartAt(i).head) /\ a = form.at[i] /\ h = HeadAt(form, i) /\ v = ValueAt(form, i)
        /\ w = Len(PartAt(i).value) /\ b = form.at[i + 1]
  <2>1. i \in 1..Parted + 1 /\ i + 1 \in 1..Parted + 1
    BY LayoutType DEF ChunkInv, Parted
  <2>2. form.at[i] \in Nat /\ form.at[i + 1] \in Nat
    BY <2>1, LayoutType DEF ChunkInv, Parted
  <2> QED BY <1>1, <2>2 DEF IsPlaced, PartAt
<1>4. PICK n \in Nat : n = bound_len
  BY BoundLength
<1>5. h = a + n + 2 /\ v = h + l /\ b = v + w
  BY <1>1, <1>3, <1>4 DEF IsPlaced, PartAt
<1>51. a \in Nat /\ h \in Nat /\ v \in Nat /\ w \in Nat /\ b \in Nat /\ l \in Nat /\ n \in Nat
  BY <1>3, <1>4
<1>6. PICK d \in Nat : d = dlen
  BY SyncedData
<1>7. Pos = h
  BY <1>3 DEF InHeader
<1>8. ends \in Nat /\ ends >= 1 /\ ends + 2 <= l
  BY <1>2, <1>3
<1>9. LineEnds(data \o <<dash>>) # {}
  BY DEF Header
<1>10. LineEnd = ends /\ ends < d
  BY <1>2, <1>6, <1>9, HeadSeen
<1>11. /\ \A symbols : IndexOf(Line, symbols) = {k \in 1..ends : PartAt(i).head[k] \in symbols}
       /\ \A k \in 1..ends : Line[k] = PartAt(i).head[k]
  BY <1>2, <1>9, LineSeen
<1>12. PICK named, files :
         /\ named = IndexOf(Line, Names) /\ files = IndexOf(Line, {"file", "nofile"})
         /\ named = {k \in 1..ends : PartAt(i).head[k] \in Names}
         /\ files = {k \in 1..ends : PartAt(i).head[k] \in {"file", "nofile"}}
  BY <1>11
<1>13. \/ /\ named = {}
          /\ Consume(ends + 2, "BEGIN") /\ Slip("beyond", ends + 2 > d)
          /\ UNCHANGED <<name, flddata, stored>>
       \/ /\ named # {} /\ files # {}
          /\ name' = Line[Least(named)]
          /\ Consume(Least(files) + 2, IF Line[Least(files)] = "file" THEN "FILETYPE" ELSE "BEGIN")
          /\ Slip("beyond", Least(files) + 2 > d)
          /\ UNCHANGED <<flddata, stored>>
       \/ /\ named # {} /\ files = {}
          /\ Slip("beyond", ends + 2 + 2 > d \/ Undecided(ends + 2 + 2))
          /\ \E junk \in Junks : LET bytes == data \o junk IN
               \/ /\ bytes[ends + 2 + 1] # cr /\ bytes[ends + 2 + 2] # lf
                  /\ Throw
               \/ /\ bytes[ends + 2 + 1] = cr \/ bytes[ends + 2 + 2] = lf
                  /\ name' = Line[Least(named)] /\ flddata' = <<>>
                  /\ Consume(ends + 2 + 2, IF Matches(bytes, ends + 2 + 2, Boundary) THEN "BEGIN" ELSE "FLDDATA")
                  /\ UNCHANGED stored
  BY <1>6, <1>10, <1>12 DEF Header, LineEnd, Line
<1>14. /\ named = {} <=> PartAt(i).kind = "other"
       /\ \A k \in named : Line[k] = PartAt(i).name
       /\ PartAt(i).kind \in {"file", "nofile"} => files # {}
       /\ PartAt(i).kind = "field" => files = {}
       /\ PartAt(i).kind \in {"file", "nofile"} => \A k \in files : Line[k] = PartAt(i).kind
       /\ PartAt(i).kind = "file" => \A k \in files : k + 6 <= l
       /\ PartAt(i).kind \in {"other", "field", "nofile", "file"}
  <2>1. PICK part : part = PartAt(i) /\ FirstLine(part, ends)
    BY <1>2
  <2>2. /\ (\E k \in 1..ends : part.head[k] \in Names) <=> part.kind # "other"
        /\ \A k \in 1..ends : part.head[k] \in Names => part.head[k] = part.name
        /\ part.kind = "field" => \A k \in 1..ends : part.head[k] \notin {"file", "nofile"}
        /\ part.kind \in {"file", "nofile"} =>
             /\ \E k \in 1..ends : part.head[k] \in {"file", "nofile"}
             /\ \A k \in 1..ends : part.head[k] \in {"file", "nofile"} => part.head[k] = part.kind
        /\ part.kind = "file" => \A k \in 1..ends : part.head[k] = "file" => k + 6 <= Len(part.head)
        /\ part.kind \in {"other", "field", "nofile", "file"}
    BY <2>1, LineTells
  <2>3. named = {} <=> part.kind = "other"
    BY <1>12, <2>1, <2>2
  <2>4. \A k \in named : Line[k] = part.name
    BY <1>11, <1>12, <2>1, <2>2
  <2>5. part.kind \in {"file", "nofile"} => files # {} /\ \A k \in files : Line[k] = part.kind
    BY <1>11, <1>12, <2>1, <2>2
  <2>6. part.kind = "field" => files = {}
    BY <1>12, <2>1, <2>2
  <2>7. part.kind = "file" => \A k \in files : k + 6 <= l
    BY <1>3, <1>11, <1>12, <2>1, <2>2, <2>5
  <2> QED BY <2>1, <2>2, <2>3, <2>4, <2>5, <2>6, <2>7
<1>15. named # {} => Least(named) \in named
  <2>1. named \in SUBSET Nat
    BY <1>8, <1>12
  <2> QED BY <2>1, LeastOf
<1>16. files # {} => Least(files) \in files /\ files \in SUBSET (1..ends)
  <2>1. files \in SUBSET Nat /\ files \in SUBSET (1..ends)
    BY <1>8, <1>12
  <2> QED BY <2>1, LeastOf
<1>17. ASSUME NEW q \in Nat, a < q, q <= b, Pos' = q, mp_state' = "BEGIN", form' = form
       PROVE  InBegin(i + 1)'
  <2>1. IsNextAt(form, q, i + 1)
    BY <1>1, <1>3, <1>17, NextAt
  <2> QED BY <1>17, <2>1 DEF InBegin
<1>18. CASE /\ named = {}
            /\ Consume(ends + 2, "BEGIN") /\ Slip("beyond", ends + 2 > d)
            /\ UNCHANGED <<name, flddata, stored>>
  <2>1. PICK e \in Nat : e = ends + 2
    BY <1>8
  <2>2. "BEGIN" \in MpStates /\ "BEGIN" # "FINISH" /\ Consume(e, "BEGIN")
    BY <1>18, <2>1, StateNames
  <2>3. /\ form' = form /\ rd' = rd /\ mp_state' = "BEGIN"
        /\ e <= dlen => Waiting'
        /\ Waiting' => Synced' /\ outcome' = outcome /\ Pos' = Pos + e /\ e <= dlen
        /\ Waiting' => (e > 0 \/ Starves(form, rd) => Hungry')
    BY <2>2, GoesOn
  <2>4. h + e \in Nat /\ a < h + e /\ h + e <= b /\ e > 0
    BY <1>5, <1>51, <1>8, <2>1
  <2>5. Waiting' => InBegin(i + 1)'
    BY <1>7, <1>17, <2>3, <2>4
  <2>6. slips' = {} => e <= d
    BY <1>6, <1>18, <2>1 DEF Slip
  <2>7. NothingOf(PartAt(i))
    <3>1. PartAt(i).kind = "other"
      BY <1>14, <1>18
    <3> QED BY <3>1 DEF NothingOf, Field, File
  <2> QED BY <1>6, <1>18, <2>3, <2>4, <2>5, <2>6, <2>7 DEF Kept
<1>19. CASE /\ named # {} /\ files # {}
            /\ name' = Line[Least(named)]
            /\ Consume(Least(files) + 2, IF Line[Least(files)] = "file" THEN "FILETYPE" ELSE "BEGIN")
            /\ Slip("beyond", Least(files) + 2 > d)
            /\ UNCHANGED <<flddata, stored>>
  <2>1. PartAt(i).kind \in {"file", "nofile"} /\ name' = PartAt(i).name
    BY <1>14, <1>15, <1>19
  <2>2. PICK f \in Nat : f = Least(files) /\ f \in files /\ f >= 1 /\ f <= ends
    BY <1>8, <1>16, <1>19
  <2>3. Line[f] = PartAt(i).kind
    BY <1>14, <2>1, <2>2
  <2>4. PICK e \in Nat : e = f + 2 /\ e > 0
    BY <2>2
  <2>5. PICK to \in MpStates : /\ to = (IF PartAt(i).kind = "file" THEN "FILETYPE" ELSE "BEGIN")
                               /\ Consume(e, to) /\ to # "FINISH"
    BY <1>19, <2>2, <2>3, <2>4, StateNames
  <2>6. /\ form' = form /\ rd' = rd /\ mp_state' = to
        /\ e <= dlen => Waiting'
        /\ Waiting' => Synced' /\ outcome' = outcome /\ Pos' = Pos + e /\ e <= dlen
        /\ Waiting' => (e > 0 \/ Starves(form, rd) => Hungry')
    BY <2>5, GoesOn
  <2>7. ASSUME Waiting' PROVE InBegin(i + 1)' \/ InType(i)'
    <3>1. Pos' = h + e
      BY <1>7, <2>6, <2>7
    <3>2. CASE PartAt(i).kind = "file"
      <4>1. h <= h + e /\ h + e + 4 <= v
        <5>1. f + 6 <= l
          BY <1>14, <2>2, <3>2
        <5>2. f \in Nat /\ e = f + 2
          BY <2>2, <2>4
        <5> QED BY <1>5, <1>51, <5>1, <5>2
      <4> QED BY <1>3, <2>1, <2>5, <2>6, <3>1, <3>2, <4>1 DEF InType, PartAt, Parted
    <3>3. CASE PartAt(i).kind = "nofile"
      <4>1. h + e \in Nat /\ a < h + e /\ h + e <= b
        <5>1. f \in Nat /\ e = f + 2 /\ f <= ends
          BY <2>2, <2>4
        <5> QED BY <1>5, <1>51, <1>8, <5>1
      <4> QED BY <1>17, <2>5, <2>6, <3>1, <3>3, <4>1
    <3> QED BY <2>1, <3>2, <3>3
  <2>8. slips' = {} => e <= d
    <3>1. Slip("beyond", e > d)
      BY <1>19, <2>2, <2>4
    <3>2. e > d => slips' # {}
      BY <3>1 DEF Slip
    <3>3. e \in Nat /\ d \in Nat
      BY <1>6, <2>4
    <3> QED BY <3>2, <3>3
  <2>9. mp_state' = "BEGIN" => NothingOf(PartAt(i))
    <3>1. mp_state' = "BEGIN" => PartAt(i).kind = "nofile"
      BY <2>1, <2>5, <2>6
    <3> QED BY <3>1 DEF NothingOf, Field, File
  <2>10. mp_state' # "FLDDATA"
    BY <2>5, <2>6
  <2> QED BY <1>6, <1>19, <2>4, <2>6, <2>7, <2>8, <2>9, <2>10 DEF Kept
<1>20. CASE /\ named # {} /\ files = {}
            /\ Slip("beyond", ends + 2 + 2 > d \/ Undecided(ends + 2 + 2))
            /\ \E junk \in Junks : LET bytes == data \o junk IN
               \/ /\ bytes[ends + 2 + 1] # cr /\ bytes[ends + 2 + 2] # lf
                  /\ Throw
               \/ /\ bytes[ends + 2 + 1] = cr \/ bytes[ends + 2 + 2] = lf
                  /\ name' = Line[Least(named)] /\ flddata' = <<>>
                  /\ Consume(ends + 2 + 2, IF Matches(bytes, ends + 2 + 2, Boundary) THEN "BEGIN" ELSE "FLDDATA")
                  /\ UNCHANGED stored
  <2>1. PartAt(i).kind = "field"
    BY <1>14, <1>20
  <2>2. PICK e \in Nat : e = ends + 2 + 2 /\ e > 0 /\ ends + 2 + 1 = e - 1
    BY <1>8
  <2>3. l = e /\ PartAt(i).head[e - 1] = cr
    <3>1. Len(PartAt(i).head) = ends + 4 /\ PartAt(i).head[ends + 3] = cr
      BY <1>2, <2>1, LineTells
    <3>2. ends + 4 = e /\ ends + 3 = e - 1
      BY <1>8, <2>2
    <3> QED BY <1>3, <3>1, <3>2
  <2>4. PICK junk \in Junks :
          \/ (data \o junk)[e - 1] # cr /\ Throw
          \/ /\ name' = Line[Least(named)] /\ flddata' = <<>> /\ UNCHANGED stored
             /\ Consume(e, IF Matches(data \o junk, e, Boundary) THEN "BEGIN" ELSE "FLDDATA")
    BY <1>20, <2>2
  <2>5. slips' = {} => e <= d /\ ~Undecided(e)
    <3>1. Slip("beyond", e > d \/ Undecided(e))
      BY <1>20, <2>2
    <3>2. e > d \/ Undecided(e) => slips' # {}
      BY <3>1 DEF Slip
    <3>3. e \in Nat /\ d \in Nat
      BY <1>6, <2>2
    <3> QED BY <3>2, <3>3
  <2>6. junk \in Seq(STRING)
    BY MultipartAssumption
  <2>7. ASSUME e <= d PROVE (data \o junk)[e - 1] = cr
    <3>1. data[e - 1] = cr
      <4>1. \A k \in 1..Len(PartAt(i).head) : k <= dlen => data[k] = PartAt(i).head[k]
        BY <1>2, HeadSeen
      <4>2. e - 1 \in 1..l /\ e - 1 <= d
        BY <1>6, <1>8, <2>2, <2>3, <2>7
      <4> QED BY <1>3, <1>6, <2>3, <4>1, <4>2
    <3>2. data \in Seq(STRING) /\ dlen = Len(data) /\ Len(junk) \in Nat
      BY <2>6, SyncedData, LenProperties
    <3>3. PICK k \in 1..Len(data) + Len(junk) : k = e - 1 /\ k <= Len(data)
      <4>1. e - 1 \in 1..d + Len(junk) /\ e - 1 <= d
        BY <1>6, <1>8, <2>2, <2>7, <3>2
      <4> QED BY <1>6, <3>2, <4>1
    <3>4. (data \o junk)[k] = data[k]
      BY <2>6, <3>2, <3>3, ConcatProperties
    <3> QED BY <3>1, <3>3, <3>4
  <2>8. CASE (data \o junk)[e - 1] # cr /\ Throw
    <3>1. ~Waiting'
      BY <2>8 DEF Throw, Waiting
    <3>2. slips' # {}
      BY <2>5, <2>7, <2>8
    <3> QED BY <3>1, <3>2
  <2>9. CASE /\ name' = Line[Least(named)] /\ flddata' = <<>> /\ UNCHANGED stored
             /\ Consume(e, IF Matches(data \o junk, e, Boundary) THEN "BEGIN" ELSE "FLDDATA")
    <3>1. PICK to \in MpStates :
             /\ to = (IF Matches(data \o junk, e, Boundary) THEN "BEGIN" ELSE "FLDDATA")
             /\ Consume(e, to) /\ to # "FINISH"
      BY <2>9, StateNames
    <3>2. /\ form' = form /\ rd' = rd /\ mp_state' = to
          /\ e <= dlen => Waiting'
          /\ Waiting' => Synced' /\ outcome' = outcome /\ Pos' = Pos + e /\ e <= dlen
          /\ Waiting' => (e > 0 \/ Starves(form, rd) => Hungry')
      BY <3>1, GoesOn
    <3>3. h + e = v
      BY <1>5, <2>3
    <3>4. ASSUME Waiting' PROVE InBegin(i + 1)' \/ InField(i)'
      <4>1. Pos' = v
        BY <1>7, <3>2, <3>3, <3>4
      <4>2. a < v /\ v <= b
        BY <1>5, <1>51
      <4>3. CASE to = "BEGIN"
        BY <1>3, <1>17, <3>2, <4>1, <4>2, <4>3
      <4>4. CASE to = "FLDDATA"
        <5>1. name' = PartAt(i).name
          BY <1>14, <1>15, <1>20, <2>9
        <5>2. flddata' = SubSeq(PartAt(i).value, 1, v - v)
          <6>1. PartAt(i).value \in Seq(STRING) /\ v - v = 0
            BY <1>1, <1>3 DEF IsPlaced, PartAt
          <6>2. SubSeq(PartAt(i).value, 1, 0) = <<>>
            BY <6>1
          <6> QED BY <2>9, <6>1, <6>2
        <5> QED BY <1>3, <2>1, <3>2, <4>1, <4>2, <4>4, <5>1, <5>2 DEF InField, PartAt, Parted
      <4> QED BY <3>1, <4>3, <4>4
    <3>5. ASSUME slips' = {}, form.whole
          PROVE  Matches(data \o junk, e, Boundary) <=> PartAt(i).value = <<>>
      <4>1. Pos + e = ValueAt(form, i) /\ e <= dlen /\ ~Undecided(e)
        BY <1>3, <1>6, <1>7, <2>5, <3>3, <3>5
      <4> QED BY <2>6, <3>5, <4>1, Decided
    <3>6. slips' = {} /\ form.whole =>
            /\ mp_state' = "BEGIN" => NothingOf(PartAt(i))
            /\ mp_state' = "FLDDATA" => Pos' < form.at[i + 1]
      <4>1. ASSUME slips' = {}, form.whole, mp_state' = "FLDDATA" PROVE Pos' < form.at[i + 1]
        <5>1. PartAt(i).value # <<>>
          BY <3>1, <3>2, <3>5, <4>1
        <5>2. w # 0
          BY <1>1, <1>3, <5>1, EmptySeq DEF IsPlaced, PartAt
        <5>3. Pos' = v
          BY <1>6, <1>7, <2>5, <3>2, <3>3, <4>1
        <5>4. v < b
          BY <1>5, <5>2
        <5> QED BY <1>3, <5>3, <5>4
      <4> QED BY <2>1, <3>1, <3>2, <3>5, <4>1 DEF NothingOf, Field, File
    <3> QED BY <1>6, <2>2, <2>5, <2>9, <3>2, <3>4, <3>6 DEF Kept
  <2> QED BY <2>4, <2>8, <2>9
<1> QED BY <1>13, <1>18, <1>19, <1>20

\* Nothing is used up before more has been read.
LEMMA HeaderCutMoves ==
    ASSUME ChunkInv, Synced, Laid(form), NEW i \in 1..Parted, InHeader(i), HeaderCut
    PROVE  /\ Kept /\ slips' = slips /\ Waiting' /\ Synced' /\ outcome' = outcome /\ Hungry'
           /\ InHeader(i)'
<1>1. IsPlaced(form, i) /\ i \in 1..Len(form.parts) + 1 /\ i + 1 \in 1..Len(form.parts) + 1
  BY LayoutType DEF ChunkInv, Parted
<1>2. PICK ends \in 1..Len(PartAt(i).head) - 2 : FirstLine(PartAt(i), ends)
  BY <1>1 DEF IsPlaced, IsPart, PartAt
<1>3. PICK l \in Nat, h \in Nat, v \in Nat, w \in Nat, b \in Nat :
        /\ l = Len(PartAt(i).head) /\ h = HeadAt(form, i) /\ v = ValueAt(form, i)
        /\ w = Len(PartAt(i).value) /\ b = form.at[i + 1]
  <2>1. form.at[i + 1] \in Nat
    BY <1>1, LayoutType DEF ChunkInv
  <2> QED BY <1>1, <2>1 DEF IsPlaced, PartAt
<1>4. PICK n \in Nat, d \in Nat, r \in Nat : n = bound_len /\ d = dlen /\ r = rd /\ r = h + d
  <2>1. Pos = h
    BY <1>3 DEF InHeader
  <2> QED BY <2>1, BoundLength, SyncedData
<1>5. v = h + l /\ b = v + w
  BY <1>1, <1>3 DEF IsPlaced, PartAt
<1>6. d <= ends /\ ends \in Nat /\ ends + 2 <= l
  <2>1. PICK junk \in Junks : LineEnds(data \o junk) = {}
    BY DEF HeaderCut
  <2>2. \A j \in Junks : LineEnds(data \o j) = {} => dlen <= ends
    BY <1>2, HeadSeen
  <2>3. ends \in Nat /\ ends + 2 <= l
    BY <1>2, <1>3
  <2> QED BY <1>4, <2>1, <2>2, <2>3
<1>7. Starves(form, rd)
  <2>1. r \in Nat /\ h \in Nat /\ d \in Nat /\ l \in Nat /\ w \in Nat /\ n \in Nat
    BY <1>3, <1>4
  <2>2. r = h + d
    BY <1>4
  <2>3. r < b + n + 2
    BY <1>5, <1>6, <2>1, <2>2
  <2> QED BY <1>1, <1>3, <1>4, <2>3 DEF Starves
<1>8. Consume(0, "HEADER") /\ UNCHANGED <<name, flddata, stored, slips>>
  BY DEF HeaderCut
<1>9. 0 \in Nat /\ "HEADER" \in MpStates /\ "HEADER" # "FINISH" /\ 0 <= dlen
  BY <1>4, StateNames
<1>10. /\ form' = form /\ rd' = rd /\ mp_state' = "HEADER"
       /\ 0 <= dlen => Waiting'
       /\ Waiting' => Synced' /\ outcome' = outcome /\ Pos' = Pos + 0 /\ 0 <= dlen
       /\ Waiting' => (0 > 0 \/ Starves(form, rd) => Hungry')
  BY <1>8, <1>9, GoesOn
<1>11. Pos' = Pos
  <2>1. Pos \in Nat
    BY SyncedData
  <2> QED BY <1>9, <1>10, <2>1
<1>12. InHeader(i)'
  BY <1>10, <1>11 DEF InHeader, Parted
<1> QED BY <1>7, <1>8, <1>9, <1>10, <1>12 DEF Kept
-----------------------------------------------------------------------------
(* The same bytes match the same pattern. *)
LEMMA SameMatch ==
    ASSUME NEW s \in Seq(STRING), NEW t \in Seq(STRING), NEW k \in Nat, NEW m \in Nat,
           NEW pattern, NEW n \in Nat, n = Len(pattern), k + n <= Len(s), m + n <= Len(t),
           \A j \in 1..n : s[k + j] = t[m + j]
    PROVE  Matches(s, k, pattern) <=> Matches(t, m, pattern)
<1>1. PICK x \in Seq(STRING) : x = SubSeq(s, k + 1, k + n) /\ Len(x) = n /\ \A j \in 1..n : x[j] = s[k + j]
  <2>1. IsSlice(Slice(s, k, n), STRING, s, k, n)
    BY SliceOf
  <2> QED BY <2>1 DEF IsSlice, Slice
<1>2. PICK y \in Seq(STRING) : y = SubSeq(t, m + 1, m + n) /\ Len(y) = n /\ \A j \in 1..n : y[j] = t[m + j]
  <2>1. IsSlice(Slice(t, m, n), STRING, t, m, n)
    BY SliceOf
  <2> QED BY <2>1 DEF IsSlice, Slice
<1>3. x = y
  <2>1. ASSUME NEW j \in 1..n PROVE x[j] = y[j]
    <3>1. x[j] = s[k + j]
      BY <1>1
    <3>2. y[j] = t[m + j]
      BY <1>2
    <3> QED BY <3>1, <3>2
  <2>2. Len(x) = n /\ Len(y) = n
    BY <1>1, <1>2
  <2>3. \A j \in 1..Len(x) : x[j] = y[j]
    BY <2>1, <2>2
  <2> QED BY <1>1, <1>2, <2>2, <2>3, SeqEqual
<1> QED BY <1>1, <1>2, <1>3 DEF Matches

(* The empty line behind a file's header is where the head ends. *)
LEMMA EmptySeen ==
    ASSUME ChunkInv, Synced, Laid(form), NEW i \in 1..Parted, InType(i)
    PROVE  /\ EmptyLines # {} => /\ Least(EmptyLines) \in Nat /\ Least(EmptyLines) + 4 <= dlen
                                 /\ Pos + (Least(EmptyLines) + 4) = ValueAt(form, i)
           /\ EmptyLines = {} => rd < ValueAt(form, i)
<1>1. PICK d \in Seq(STRING), p \in Nat, D \in Nat, r \in Nat :
        /\ d = data /\ p = Pos /\ D = Len(d) /\ dlen = D /\ Reads(d, form, p) /\ r = rd /\ r = p + D
  BY SyncedData
<1>2. IsPlaced(form, i) /\ Len(form.spool) \in Nat
  BY LayoutType DEF ChunkInv, Parted
<1>3. PICK head \in Seq(STRING), l \in Nat, h \in Nat, v \in Nat :
        head = PartAt(i).head /\ l = Len(head) /\ h = HeadAt(form, i) /\ v = ValueAt(form, i) /\ v = h + l
  BY <1>2 DEF IsPlaced, PartAt
<1>4. h <= p /\ p + 4 <= v
  BY <1>1, <1>3 DEF InType
<1>5. PICK e \in Nat : e + 4 = l /\ h + e >= p
  <2>1. l - 4 \in Nat /\ l - 4 + 4 = l /\ h + (l - 4) >= p
    <3>1. p \in Nat /\ l \in Nat /\ h \in Nat /\ v = h + l
      BY <1>1, <1>3
    <3> QED BY <1>4, <3>1
  <2> QED BY <2>1
<1>6. PICK pattern : pattern = <<cr, lf, cr, lf>> /\ Len(pattern) = 4
  <2>1. Len(<<cr, lf, cr, lf>>) = 4
    OBVIOUS
  <2> QED BY <2>1
<1>7. \A k \in 0..l - 4 : Matches(head, k, pattern) <=> k = l - 4
  <2>1. PICK ends \in 1..Len(PartAt(i).head) - 2 : FirstLine(PartAt(i), ends)
    BY <1>2 DEF IsPlaced, IsPart, PartAt
  <2>2. PartAt(i).kind = "file"
    BY DEF InType
  <2>3. \A k \in 0..Len(PartAt(i).head) - 4 :
          Matches(PartAt(i).head, k, <<cr, lf, cr, lf>>) <=> k = Len(PartAt(i).head) - 4
    BY <2>1, <2>2 DEF FirstLine
  <2> QED BY <1>3, <1>6, <2>3
<1>8. LiesAt(head, form.spool, h)
  BY <1>3 DEF Laid, LaidOut, PartAt, Parted
<1>9. ASSUME NEW k \in 1..D, NEW j \in 1..l, p + k = h + j PROVE d[k] = head[j]
  <2>1. j \in DOMAIN head /\ j \in Nat /\ k \in 1..Len(d)
    BY <1>1, <1>3
  <2>2. d[k] = form.spool[p + k] /\ p + k <= Len(form.spool)
    <3>1. p + Len(d) <= Len(form.spool) /\ d[k] = form.spool[p + k]
      BY <1>1, <2>1 DEF Reads
    <3>2. p \in Nat /\ Len(d) \in Nat /\ k \in 1..Len(d)
      BY <1>1, <2>1
    <3>3. PICK sp \in Nat : sp = Len(form.spool)
      BY <1>2
    <3>4. p + k <= sp
      BY <3>1, <3>2, <3>3
    <3> QED BY <3>1, <3>3, <3>4
  <2>3. form.spool[h + j] = head[j]
    BY <1>8, <1>9, <2>1, <2>2 DEF LiesAt
  <2> QED BY <1>9, <2>2, <2>3
<1>10. ASSUME NEW k \in Nat, NEW m \in Nat, k + 4 <= D, m + 4 <= l, p + k = h + m
       PROVE  Matches(d, k, pattern) <=> m = e
  <2>1. \A j \in 1..4 : d[k + j] = head[m + j]
    <3> TAKE j \in 1..4
    <3>1. k + j \in 1..D /\ m + j \in 1..l /\ p + (k + j) = h + (m + j)
      <4>1. p \in Nat /\ h \in Nat /\ D \in Nat /\ l \in Nat
        BY <1>1, <1>3
      <4> QED BY <1>10, <4>1
    <3>2. PICK x \in 1..D, y \in 1..l : x = k + j /\ y = m + j /\ p + x = h + y
      BY <3>1
    <3>3. d[x] = head[y]
      BY <1>9, <3>2
    <3> QED BY <3>2, <3>3
  <2>2. 4 \in Nat /\ 4 = Len(pattern) /\ k + 4 <= Len(d) /\ m + 4 <= Len(head)
    BY <1>1, <1>3, <1>6, <1>10
  <2>21. PICK n \in Nat : n = 4
    OBVIOUS
  <2>22. n = Len(pattern) /\ k + n <= Len(d) /\ m + n <= Len(head) /\ \A j \in 1..n : d[k + j] = head[m + j]
    BY <2>1, <2>2, <2>21
  <2>3. Matches(d, k, pattern) <=> Matches(head, m, pattern)
    BY <2>21, <2>22, SameMatch
  <2>4. m \in 0..l - 4 /\ l - 4 = e
    <3>1. l \in Nat
      BY <1>3
    <3> QED BY <1>5, <1>10, <3>1
  <2> QED BY <1>7, <2>3, <2>4
<1>11. EmptyLines = {k \in 0..D - 1 : Matches(d, k, pattern)}
  BY <1>1, <1>6 DEF EmptyLines
<1>12. PICK z \in Nat : p + z = h + e /\ p + (z + 4) = v
  <2>1. p \in Nat /\ h \in Nat /\ l \in Nat /\ v = h + l
    BY <1>1, <1>3
  <2>2. h + e - p \in Nat /\ p + (h + e - p) = h + e /\ p + (h + e - p + 4) = v
    BY <1>5, <2>1
  <2> QED BY <2>2
<1>13. z + 4 <= D => z \in EmptyLines
  <2>1. z + 4 <= D => z \in 0..D - 1
    BY <1>1
  <2>2. z + 4 <= D => Matches(d, z, pattern)
    BY <1>5, <1>10, <1>12
  <2> QED BY <1>11, <2>1, <2>2
<1>14. ASSUME NEW k \in EmptyLines PROVE k \in Nat /\ k >= z /\ k + 4 <= D
  <2>1. k \in Nat /\ Matches(d, k, pattern) /\ k + 4 <= D
    BY <1>1, <1>6, <1>11 DEF Matches
  <2>2. ASSUME k < z PROVE FALSE
    <3>1. p \in Nat /\ h \in Nat /\ e \in Nat /\ l \in Nat /\ z \in Nat
      BY <1>1, <1>3, <1>5, <1>12
    <3>2. PICK m \in Nat : p + k = h + m /\ m < e
      <4>1. p + k - h \in Nat /\ p + k = h + (p + k - h) /\ p + k - h < e
        BY <1>4, <1>12, <2>1, <2>2, <3>1
      <4> QED BY <4>1
    <3>3. m + 4 <= l
      BY <1>5, <3>1, <3>2
    <3>4. m = e
      BY <1>10, <2>1, <3>2, <3>3
    <3> QED BY <3>1, <3>2, <3>4
  <2> QED BY <1>12, <2>1, <2>2
<1>15. ASSUME EmptyLines # {} PROVE Least(EmptyLines) = z /\ z + 4 <= D
  <2>1. EmptyLines \in SUBSET Nat
    BY <1>14
  <2>2. Least(EmptyLines) \in EmptyLines /\ \A k \in EmptyLines : Least(EmptyLines) <= k
    BY <1>15, <2>1, LeastOf
  <2>3. PICK m \in Nat : m = Least(EmptyLines) /\ m >= z /\ m + 4 <= D
    BY <1>14, <2>2
  <2>4. z + 4 <= D
    BY <1>1, <1>12, <2>3
  <2>5. m <= z
    BY <1>13, <2>2, <2>3, <2>4
  <2> QED BY <1>12, <2>3, <2>4, <2>5
<1>16. ASSUME EmptyLines = {} PROVE r < v
  <2>1. ~(z + 4 <= D)
    BY <1>13, <1>16
  <2>2. p \in Nat /\ z \in Nat /\ D \in Nat /\ r = p + D /\ p + (z + 4) = v
    BY <1>1, <1>12
  <2> QED BY <2>1, <2>2
<1> QED BY <1>1, <1>3, <1>12, <1>15, <1>16

(* The places of a part in numbers. *)
AtPlaces(f, i, a, l, h, v, w, b) ==
    /\ a = f.at[i] /\ l = Len(f.parts[i].head) /\ h = HeadAt(f, i) /\ v = ValueAt(f, i)
    /\ w = Len(f.parts[i].value) /\ b = f.at[i + 1]
(* The places of a part as numbers, and how they lie. *)
LEMMA Places ==
    ASSUME NEW f \in Forms, Laid(f), NEW i \in 1..Len(f.parts)
    PROVE  \E a, l, h, v, w, b, n \in Nat :
             /\ AtPlaces(f, i, a, l, h, v, w, b) /\ n = bound_len
             /\ n >= 5 /\ h = a + n + 2 /\ v = h + l /\ b = v + w
<1>1. IsPlaced(f, i) /\ f.at[i] \in Nat /\ f.at[i + 1] \in Nat
  <2>1. i \in 1..Len(f.parts) + 1 /\ i + 1 \in 1..Len(f.parts) + 1
    BY LayoutType
  <2> QED BY <2>1, LayoutType
<1>2. PICK a \in Nat, l \in Nat, h \in Nat, v \in Nat, w \in Nat, b \in Nat : AtPlaces(f, i, a, l, h, v, w, b)
  BY <1>1 DEF IsPlaced, AtPlaces
<1>3. PICK n \in Nat : n = bound_len /\ n >= 5
  BY BoundLength
<1>4. h = a + n + 2 /\ v = h + l /\ b = v + w
  BY <1>1, <1>2, <1>3 DEF IsPlaced, AtPlaces
<1> QED BY <1>2, <1>3, <1>4

(* A call that used up nothing, because more is to come. *)
LEMMA Waits ==
    ASSUME ChunkInv, Synced, NEW to \in MpStates, to # "FINISH", Consume(0, to)
    PROVE  /\ form' = form /\ rd' = rd /\ mp_state' = to /\ Pos' = Pos
           /\ Waiting' /\ Synced' /\ outcome' = outcome
           /\ Starves(form, rd) => Hungry'
<1>1. 0 \in Nat /\ 0 <= dlen /\ Pos \in Nat
  BY SyncedData
<1>2. /\ form' = form /\ rd' = rd /\ mp_state' = to
      /\ 0 <= dlen => Waiting'
      /\ Waiting' => Synced' /\ outcome' = outcome /\ Pos' = Pos + 0 /\ 0 <= dlen
      /\ Waiting' => (0 > 0 \/ Starves(form, rd) => Hungry')
  BY <1>1, GoesOn
<1> QED BY <1>1, <1>2

(* A head that is cut off is read again with the next chunk. *)
LEMMA FileTypeCutMoves ==
    ASSUME ChunkInv, Synced, Laid(form), NEW i \in 1..Parted, InType(i), FileTypeCut
    PROVE  /\ Kept /\ slips' = slips /\ Waiting' /\ Synced' /\ outcome' = outcome /\ Hungry'
           /\ InType(i)'
<1>1. Consume(0, "FILETYPE") /\ UNCHANGED <<name, flddata, stored, slips>> /\ ~TypeRead
  BY DEF FileTypeCut
<1>2. form' = form /\ rd' = rd /\ mp_state' = "FILETYPE" /\ Pos' = Pos
      /\ Waiting' /\ Synced' /\ outcome' = outcome /\ (Starves(form, rd) => Hungry')
  BY <1>1, Waits, StateNames
<1>3. form \in Forms /\ i \in 1..Len(form.parts)
  BY DEF ChunkInv, Parted
<1>4. PICK a, l, h, v, w, b, n \in Nat :
         /\ AtPlaces(form, i, a, l, h, v, w, b) /\ n = bound_len
         /\ n >= 5 /\ h = a + n + 2 /\ v = h + l /\ b = v + w
  BY <1>3, Places
<1>5. PICK p \in Nat, d \in Nat, r \in Nat : p = Pos /\ d = dlen /\ r = rd /\ r = p + d
  BY SyncedData
<1>6. r < b + n + 2
  <2>1. CASE EmptyLines = {}
    <3>1. r < v
      BY <1>4, <1>5, <2>1, EmptySeen DEF AtPlaces
    <3> QED BY <1>4, <1>5, <3>1
  <2>2. CASE EmptyLines # {}
    <3>1. PICK e \in Nat : e = Least(EmptyLines) /\ p + (e + 4) = v
      BY <1>4, <1>5, <2>2, EmptySeen DEF AtPlaces
    <3>2. ~(d - e >= n)
      BY <1>1, <1>4, <1>5, <2>2, <3>1 DEF TypeRead, EnoughLeft
    <3>3. d \in Nat /\ e \in Nat /\ n \in Nat /\ v \in Nat /\ p \in Nat /\ w \in Nat /\ r = p + d /\ b = v + w
      BY <1>4, <1>5, <3>1
    <3> QED BY <3>1, <3>2, <3>3
  <2> QED BY <2>1, <2>2
<1>7. Starves(form, rd)
  <2>1. i + 1 \in 1..Len(form.parts) + 1
    BY <1>3, LayoutType
  <2> QED BY <1>4, <1>5, <1>6, <2>1 DEF Starves, AtPlaces
<1>8. InType(i)'
  BY <1>1, <1>2 DEF InType, PartAt, Parted
<1> QED BY <1>1, <1>2, <1>7, <1>8 DEF Kept

(* Behind the head of a file is its value, or at once the next boundary. *)
LEMMA FileTypeMoves ==
    ASSUME ChunkInv, Synced, Laid(form), NEW i \in 1..Parted, InType(i), FileType
    PROVE  /\ form' = form /\ Waiting' /\ Synced' /\ outcome' = outcome /\ Hungry' /\ params' = params
           /\ Pos' = ValueAt(form, i)
           /\ \/ /\ mp_state' = "BEGIN" /\ Kept /\ InBegin(i + 1)'
                 /\ slips' = {} /\ form.whole => NothingOf(PartAt(i))
              \/ /\ mp_state' = "FILEDATA" /\ createXferFile(name) /\ InFile(i)'
                 /\ form.at[i + 1] = Pos' => form.at[i + 1] + bound_len > rd
<1>1. form \in Forms /\ i \in 1..Len(form.parts) /\ i \in Nat
  BY LayoutType DEF ChunkInv, Parted
<1>2. PICK a, l, h, v, w, b, n \in Nat :
         /\ AtPlaces(form, i, a, l, h, v, w, b) /\ n = bound_len
         /\ n >= 5 /\ h = a + n + 2 /\ v = h + l /\ b = v + w
  BY <1>1, Places
<1>3. PICK d \in Seq(STRING), D \in Nat, p \in Nat, r \in Nat :
        /\ d = data /\ D = Len(d) /\ p = Pos /\ D = dlen /\ r = rd /\ r = p + D /\ Reads(d, form, p)
  BY SyncedData
<1>4. PICK e \in Nat : e = Least(EmptyLines) + 4 /\ p + e = v /\ e <= D
  <2>1. PICK z \in Nat : z = Least(EmptyLines) /\ z + 4 <= D /\ p + (z + 4) = v
    BY <1>2, <1>3, EmptySeen DEF FileType, TypeRead, AtPlaces
  <2> QED BY <2>1
<1>5. PICK junk \in Junks :
        \/ /\ Matches(data \o junk, e, Boundary)
           /\ Consume(e, "BEGIN") /\ Slip("beyond", Undecided(e))
           /\ UNCHANGED <<name, flddata, stored>>
        \/ /\ ~Matches(data \o junk, e, Boundary)
           /\ Consume(e, "FILEDATA")
           /\ createXferFile(name)
           /\ UNCHANGED <<name, flddata, params>>
  BY <1>4 DEF FileType
<1>6. junk \in Seq(STRING)
  BY MultipartAssumption
<1>7. ASSUME NEW to \in MpStates, to # "FINISH", Consume(e, to)
      PROVE  /\ form' = form /\ mp_state' = to /\ Waiting' /\ Synced' /\ outcome' = outcome /\ Hungry'
             /\ Pos' = v
  <2>1. /\ form' = form /\ rd' = rd /\ mp_state' = to
        /\ e <= dlen => Waiting'
        /\ Waiting' => Synced' /\ outcome' = outcome /\ Pos' = Pos + e /\ e <= dlen
        /\ Waiting' => (e > 0 \/ Starves(form, rd) => Hungry')
    BY <1>7, GoesOn
  <2>2. e > 0
    <3>1. p + 4 <= v
      BY <1>2, <1>3 DEF InType, AtPlaces
    <3> QED BY <1>2, <1>3, <1>4, <3>1
  <2> QED BY <1>3, <1>4, <2>1, <2>2
<1>8. a < v /\ v <= b
  <2>1. a \in Nat /\ n \in Nat /\ l \in Nat /\ w \in Nat /\ h = a + n + 2 /\ v = h + l /\ b = v + w
    BY <1>2
  <2> QED BY <2>1
<1>9. CASE /\ Matches(data \o junk, e, Boundary)
           /\ Consume(e, "BEGIN") /\ Slip("beyond", Undecided(e))
           /\ UNCHANGED <<name, flddata, stored>>
  <2>1. /\ form' = form /\ mp_state' = "BEGIN" /\ Waiting' /\ Synced' /\ outcome' = outcome /\ Hungry'
        /\ Pos' = v
    BY <1>7, <1>9, StateNames
  <2>2. IsNextAt(form, v, i + 1)
    BY <1>1, <1>2, <1>8, NextAt DEF AtPlaces
  <2>3. InBegin(i + 1)'
    BY <2>1, <2>2 DEF InBegin
  <2>4. ASSUME slips' = {}, form.whole PROVE NothingOf(PartAt(i))
    <3>1. ~Undecided(e)
      BY <1>9, <2>4 DEF Slip
    <3>2. Pos + e = ValueAt(form, i) /\ e <= dlen
      BY <1>2, <1>3, <1>4 DEF AtPlaces
    <3>3. PartAt(i).value = <<>>
      BY <1>6, <1>9, <2>4, <3>1, <3>2, Decided
    <3> QED BY <3>3 DEF NothingOf, Field, File
  <2> QED BY <1>2, <1>9, <2>1, <2>3, <2>4 DEF Kept, AtPlaces
<1>10. CASE /\ ~Matches(data \o junk, e, Boundary)
            /\ Consume(e, "FILEDATA")
            /\ createXferFile(name)
            /\ UNCHANGED <<name, flddata, params>>
  <2>1. /\ form' = form /\ mp_state' = "FILEDATA" /\ Waiting' /\ Synced' /\ outcome' = outcome /\ Hungry'
        /\ Pos' = v
    BY <1>7, <1>10, StateNames
  <2>2. InFile(i)'
    <3>1. a <= v /\ v <= b /\ v <= v
      BY <1>2, <1>8
    <3> QED BY <1>2, <2>1, <3>1 DEF InFile, InType, AtPlaces, PartAt, Parted
  <2>3. ASSUME b = v PROVE ~(b + n <= r)
    <3>1. SUFFICES ASSUME b + n <= r PROVE FALSE
      OBVIOUS
    <3>2. p \in Nat /\ e \in Nat /\ D \in Nat /\ n \in Nat /\ p + e = v /\ r = p + D
      BY <1>2, <1>3, <1>4
    <3>3. e + n <= D
      BY <2>3, <3>1, <3>2
    <3>4. Matches(d, e, Boundary)
      <4>1. PICK j \in 1..Len(form.parts) + 1 : j = i + 1
        BY <1>1, LayoutType
      <4>2. form.at[j] = p + e
        BY <1>2, <2>3, <3>2, <4>1 DEF AtPlaces
      <4>3. e + bound_len <= Len(d)
        BY <1>2, <1>3, <3>3
      <4>4. Matches(d, e, Boundary) <=> \E jj \in 1..Len(form.parts) + 1 : form.at[jj] = p + e
        <5>1. d \in Seq(STRING) /\ p \in Nat /\ e \in Nat /\ Reads(d, form, p) /\ form \in Forms /\ Laid(form)
          BY <1>1, <1>3, <1>4
        <5> QED BY <4>3, <5>1, BoundaryIs
      <4> QED BY <4>2, <4>4
    <3>5. PICK s \in Seq(STRING) : s = d \o junk /\ n <= Len(Boundary) /\ Len(s) = D + Len(junk) /\ Len(junk) \in Nat
                                   /\ \A j \in 1..D : s[j] = d[j]
      <4>1. /\ d \o junk \in Seq(STRING) /\ Len(d \o junk) = Len(d) + Len(junk)
            /\ \A j \in 1..Len(d) + Len(junk) : (d \o junk)[j] = IF j <= Len(d) THEN d[j] ELSE junk[j - Len(d)]
        BY <1>6, ConcatProperties
      <4>2. Len(junk) \in Nat
        BY <1>6, LenProperties
      <4>3. \A j \in 1..D : j \in 1..D + Len(junk) /\ j <= D
        BY <1>3, <4>2
      <4>4. n <= Len(Boundary)
        BY <1>2 DEF bound_len
      <4> QED BY <1>3, <4>1, <4>2, <4>3, <4>4
    <3>6. e + n <= Len(s) /\ \A j \in 1..n : e + j \in 1..D
      BY <1>3, <3>2, <3>3, <3>5
    <3>7. \A j \in 1..n : s[e + j] = d[e + j]
      BY <3>5, <3>6
    <3>8. Matches(s, e, Boundary)
      <4>1. n = Len(Boundary) /\ e + n <= Len(d)
        BY <1>2, <1>3, <3>3 DEF bound_len
      <4>2. Matches(s, e, Boundary) <=> Matches(d, e, Boundary)
        <5>1. d \in Seq(STRING) /\ s \in Seq(STRING) /\ e \in Nat /\ n \in Nat
          BY <1>2, <1>3, <1>4, <3>5
        <5> QED BY <3>6, <3>7, <4>1, <5>1, SameMatch
      <4> QED BY <3>4, <4>2
    <3> QED BY <1>3, <1>10, <3>5, <3>8
  <2>4. form.at[i + 1] = Pos' => form.at[i + 1] + bound_len > rd
    <3>1. b = v => b + n > r
      <4>1. b \in Nat /\ n \in Nat /\ r \in Nat
        BY <1>2, <1>3
      <4> QED BY <2>3, <4>1
    <3> QED BY <1>2, <1>3, <2>1, <3>1 DEF AtPlaces
  <2> QED BY <1>2, <1>10, <2>1, <2>2, <2>4 DEF AtPlaces
<1> QED BY <1>5, <1>9, <1>10
-----------------------------------------------------------------------------
(* File data too short to be told from a boundary is left for the next chunk. *)
LEMMA FileDataCutMoves ==
    ASSUME ChunkInv, Synced, Laid(form), NEW i \in 1..Parted, InFile(i), FileDataCut
    PROVE  /\ Kept /\ slips' = slips /\ Waiting' /\ Synced' /\ outcome' = outcome /\ Hungry'
           /\ InFile(i)' /\ mp' = mp /\ Pos' = Pos
<1>1. Consume(0, "FILEDATA") /\ UNCHANGED <<name, flddata, stored, slips>> /\ dlen < bound_len
  BY DEF FileDataCut
<1>2. form' = form /\ rd' = rd /\ mp_state' = "FILEDATA" /\ Pos' = Pos
      /\ Waiting' /\ Synced' /\ outcome' = outcome /\ (Starves(form, rd) => Hungry')
  BY <1>1, Waits, StateNames
<1>3. form \in Forms /\ i \in 1..Len(form.parts)
  BY DEF ChunkInv, Parted
<1>4. PICK a, l, h, v, w, b, n \in Nat :
         /\ AtPlaces(form, i, a, l, h, v, w, b) /\ n = bound_len
         /\ n >= 5 /\ h = a + n + 2 /\ v = h + l /\ b = v + w
  BY <1>3, Places
<1>5. PICK p \in Nat, d \in Nat, r \in Nat : p = Pos /\ d = dlen /\ r = rd /\ r = p + d
  BY SyncedData
<1>6. r < b + n + 2
  <2>1. p <= b /\ d < n
    BY <1>1, <1>4, <1>5 DEF InFile, AtPlaces
  <2>2. p \in Nat /\ d \in Nat /\ b \in Nat /\ n \in Nat /\ r = p + d
    BY <1>4, <1>5
  <2> QED BY <2>1, <2>2
<1>7. Starves(form, rd)
  <2>1. i + 1 \in 1..Len(form.parts) + 1
    BY <1>3, LayoutType
  <2> QED BY <1>4, <1>5, <1>6, <2>1 DEF Starves, AtPlaces
<1>8. InFile(i)'
  BY <1>1, <1>2 DEF InFile, PartAt, Parted
<1>9. mp' = mp
  <2>1. mp \in Nat /\ mp + 0 = mp
    BY SyncedData
  <2> QED BY <1>1, <1>2, <2>1 DEF Consume, Waiting
<1> QED BY <1>1, <1>2, <1>7, <1>8, <1>9 DEF Kept

\* Which boundary comes next while a file is read.
LEMMA FileNext ==
    ASSUME ChunkInv, Synced, Laid(form), NEW i \in 1..Parted, InFile(i)
    PROVE  /\ form.at[i] < Pos => IsNextAt(form, Pos, i + 1)
           /\ Pos <= form.at[i] => ~fd_upload /\ Pos = form.at[i] /\ IsNextAt(form, Pos, i)
           /\ fd_upload => form.at[i] < Pos
<1>1. form \in Forms /\ i \in 1..Len(form.parts) /\ i \in Nat /\ Parted \in Nat
  BY LayoutType DEF ChunkInv, Parted
<1>2. PICK a, l, h, v, w, b, n \in Nat :
         /\ AtPlaces(form, i, a, l, h, v, w, b) /\ n = bound_len
         /\ n >= 5 /\ h = a + n + 2 /\ v = h + l /\ b = v + w
  BY <1>1, Places
<1>3. PICK p \in Nat : p = Pos
  BY SyncedData
<1>4. a <= p /\ p <= b /\ (fd_upload => v <= p)
  BY <1>2, <1>3 DEF InFile, AtPlaces
<1>5. a < p => IsNextAt(form, p, i + 1)
  BY <1>1, <1>2, <1>4, NextAt DEF AtPlaces
<1>6. fd_upload => a < p
  <2>1. a \in Nat /\ n \in Nat /\ l \in Nat /\ p \in Nat /\ h = a + n + 2 /\ v = h + l
    BY <1>2, <1>3
  <2> QED BY <1>4, <2>1
<1>7. ASSUME p <= a PROVE ~fd_upload /\ p = a /\ IsNextAt(form, p, i)
  <2>1. p = a /\ ~(a < p)
    BY <1>2, <1>3, <1>4, <1>7
  <2>2. ASSUME i > 1 PROVE form.at[i - 1] < p
    <3>1. PICK e \in 1..Len(form.parts) + 1, g \in 1..Len(form.parts) + 1 : e = i - 1 /\ g = i /\ e < g
      BY <1>1, <2>2 DEF Parted
    <3>2. form.at[e] + bound_len + 2 <= form.at[g] /\ form.at[e] \in Nat
      BY <1>1, <3>1, AtRises, LayoutType
    <3>3. PICK x \in Nat : x = form.at[e] /\ x + n + 2 <= a
      BY <1>2, <3>1, <3>2 DEF AtPlaces
    <3>4. x < a
      <4>1. x \in Nat /\ n \in Nat /\ a \in Nat
        BY <1>2, <3>3
      <4> QED BY <3>3, <4>1
    <3> QED BY <2>1, <3>1, <3>3, <3>4
  <2> QED BY <1>2, <1>6, <2>1, <2>2 DEF IsNextAt, AtPlaces
<1> QED BY <1>2, <1>3, <1>5, <1>6, <1>7 DEF AtPlaces

\* What a write() of n bytes returns, unless one failed on an open file.
Result(n) == IF fd_upload THEN n ELSE -1

(* A write() that failed on an open file is noted. *)
LEMMA WriteDone ==
    ASSUME NEW n, NEW bw \in write(n), Unwritten(bw), "unwritten" \notin slips'
    PROVE  bw = Result(n) /\ slips' = slips
<1>1. ~(fd_upload /\ bw = -1) /\ slips' = slips
  BY DEF Unwritten, Slip
<1> QED BY <1>1 DEF write, Result

(* What is written to a file without a boundary in sight is its value, not more. *)
LEMMA FileDataMoreMoves ==
    ASSUME ChunkInv, FileInv, Synced, Laid(form), NEW i \in 1..Parted, InFile(i), FileDataMore,
           "unwritten" \notin slips'
    PROVE  /\ UNCHANGED <<form, name, params, upfile, fd_upload, slips>>
           /\ WriteUpload(Result(Searched))
           /\ Waiting' => Synced' /\ outcome' = outcome /\ InFile(i)'
           /\ fd_upload =>
                /\ Searched \in Nat /\ Searched <= dlen
                /\ Waiting' /\ Hungry' /\ Pos' = Pos + Searched
                /\ form.at[i + 1] + bound_len > rd
<1>1. form \in Forms /\ i \in 1..Len(form.parts) /\ i \in 1..Parted + 1 /\ i + 1 \in 1..Parted + 1
  BY LayoutType DEF ChunkInv, Parted
<1>2. PICK a, l, h, v, w, b, n \in Nat :
         /\ AtPlaces(form, i, a, l, h, v, w, b) /\ n = bound_len
         /\ n >= 5 /\ h = a + n + 2 /\ v = h + l /\ b = v + w
  BY <1>1, Places
<1>3. PICK p \in Nat, d \in Nat, r \in Nat : p = Pos /\ d = dlen /\ r = rd /\ r = p + d
  BY SyncedData
<1>4. /\ d >= n /\ BoundaryAt = {} /\ WriteUpload(Result(Searched)) /\ Consume(Result(Searched), "FILEDATA")
      /\ UNCHANGED <<name, flddata, params, upfile, fd_upload, slips>>
  <2>1. PICK bw \in write(Searched) : WriteUpload(bw) /\ Consume(bw, "FILEDATA") /\ Unwritten(bw)
    BY DEF FileDataMore
  <2>2. bw = Result(Searched) /\ slips' = slips
    BY <2>1, WriteDone
  <2> QED BY <1>2, <1>3, <2>1, <2>2 DEF FileDataMore
<1>5. a <= p /\ p <= b /\ (fd_upload => v <= p) /\ mp_state = "FILEDATA"
  BY <1>2, <1>3 DEF InFile, AtPlaces
<1>6. Searched = d - n + 1
  BY <1>2, <1>3 DEF Searched
<1>7. /\ a < p => IsNextAt(form, Pos, i + 1)
      /\ p <= a => p = a /\ IsNextAt(form, Pos, i)
      /\ fd_upload => a < p
  BY <1>2, <1>3, FileNext DEF AtPlaces
<1>8. a < p /\ b + n > r
  <2>1. a < p => b + n > r
    BY <1>1, <1>2, <1>3, <1>4, <1>7, NextBoundary DEF AtPlaces
  <2>2. p <= a => a + n > r
    BY <1>1, <1>2, <1>3, <1>4, <1>7, NextBoundary DEF AtPlaces
  <2>3. a \in Nat /\ p \in Nat /\ n \in Nat /\ d \in Nat /\ r = p + d
    BY <1>2, <1>3
  <2> QED BY <1>4, <1>7, <2>1, <2>2, <2>3
<1>9. CASE fd_upload
  <2>1. PICK m \in Nat : m = Searched /\ m > 0 /\ m <= d /\ p + m <= b
    <3>1. d \in Nat /\ n \in Nat /\ p \in Nat /\ r = p + d /\ b \in Nat /\ n >= 5
      BY <1>2, <1>3
    <3>2. d - n + 1 \in Nat /\ d - n + 1 > 0 /\ d - n + 1 <= d /\ p + (d - n + 1) <= b
      BY <1>4, <1>8, <3>1
    <3> QED BY <1>6, <3>2
  <2>2. Consume(m, "FILEDATA") /\ "FILEDATA" \in MpStates /\ "FILEDATA" # "FINISH"
    BY <1>4, <1>9, <2>1, StateNames DEF Result
  <2>3. /\ form' = form /\ rd' = rd /\ mp_state' = "FILEDATA"
        /\ m <= dlen => Waiting'
        /\ Waiting' => Synced' /\ outcome' = outcome /\ Pos' = Pos + m /\ m <= dlen
        /\ Waiting' => (m > 0 \/ Starves(form, rd) => Hungry')
    BY <2>2, GoesOn
  <2>4. Waiting' /\ Pos' = p + m
    BY <1>3, <2>1, <2>3
  <2>5. InFile(i)'
    <3>1. a <= p + m /\ p + m <= b /\ v <= p + m
      <4>1. a \in Nat /\ p \in Nat /\ m \in Nat /\ v \in Nat
        BY <1>2, <1>3, <2>1
      <4> QED BY <1>5, <1>9, <2>1, <4>1
    <3> QED BY <1>2, <2>3, <2>4, <3>1 DEF InFile, AtPlaces, PartAt, Parted
  <2> QED BY <1>2, <1>3, <1>4, <1>8, <2>1, <2>3, <2>4, <2>5 DEF AtPlaces
<1>10. CASE ~fd_upload
  <2>1. PICK m \in Int : m = -1
    OBVIOUS
  <2>2. Consume(m, "FILEDATA") /\ "FILEDATA" \in MpStates /\ "FILEDATA" # "FINISH"
    BY <1>4, <1>10, <2>1, StateNames DEF Result
  <2>3. /\ UNCHANGED <<form, rd, mem, brmax, fd_spool>> /\ mp_state' = "FILEDATA"
        /\ Waiting' => Synced' /\ outcome' = outcome /\ Pos' = p + m
    BY <1>3, <2>2, ConsumeMoves
  <2>4. ASSUME Waiting' PROVE InFile(i)'
    <3>1. a <= p + m /\ p + m <= b
      <4>1. a \in Nat /\ p \in Nat /\ b \in Nat
        BY <1>2, <1>3
      <4> QED BY <1>5, <1>8, <2>1, <4>1
    <3> QED BY <1>2, <1>4, <1>10, <2>3, <2>4, <3>1 DEF InFile, AtPlaces, PartAt, Parted
  <2> QED BY <1>4, <1>10, <2>3, <2>4
<1> QED BY <1>9, <1>10

(* A boundary ends the file where its value ends. *)
LEMMA FileDataEndMoves ==
    ASSUME ChunkInv, FileInv, Synced, Laid(form), NEW i \in 1..Parted, InFile(i), FileDataEnd,
           "unwritten" \notin slips'
    PROVE  /\ UNCHANGED <<form, params, upfile, slips>> /\ fd_upload' = FALSE
           /\ EndUpload(Result(memmem))
           /\ Waiting' => Synced' /\ outcome' = outcome
           /\ ~fd_upload /\ Waiting' => (InBegin(i) \/ InBegin(i + 1))'
           /\ fd_upload =>
                /\ Waiting' /\ InBegin(i + 1)'
                /\ memmem \in Nat /\ memmem <= dlen /\ Pos + memmem = form.at[i + 1]
                /\ form.at[i + 1] + bound_len <= rd
                /\ IF memmem > 0 THEN Hungry' ELSE ctl' = "read" /\ mp' = mp /\ dlen' = dlen /\ dlen > 0
<1>1. form \in Forms /\ i \in 1..Len(form.parts) /\ i \in 1..Parted + 1 /\ i + 1 \in 1..Parted + 1 /\ i \in Nat
  BY LayoutType DEF ChunkInv, Parted
<1>2. PICK a, l, h, v, w, b, n \in Nat :
         /\ AtPlaces(form, i, a, l, h, v, w, b) /\ n = bound_len
         /\ n >= 5 /\ h = a + n + 2 /\ v = h + l /\ b = v + w
  BY <1>1, Places
<1>3. PICK p \in Nat, d \in Nat, r \in Nat, c \in Nat : p = Pos /\ d = dlen /\ r = rd /\ r = p + d /\ c = mp
  BY SyncedData
<1>4. /\ BoundaryAt # {} /\ Consume(Result(memmem), "BEGIN") /\ fd_upload' = FALSE
      /\ EndUpload(Result(memmem))
      /\ UNCHANGED <<name, flddata, params, upfile, slips>>
  <2>1. PICK bw \in write(memmem) : EndUpload(bw) /\ Consume(bw, "BEGIN") /\ Unwritten(bw)
    BY DEF FileDataEnd, EndUpload
  <2>2. bw = Result(memmem) /\ slips' = slips
    BY <2>1, WriteDone
  <2> QED BY <2>1, <2>2 DEF FileDataEnd
<1>5. a <= p /\ p <= b /\ (fd_upload => v <= p) /\ mp_state = "FILEDATA"
  BY <1>2, <1>3 DEF InFile, AtPlaces
<1>6. /\ a < p => IsNextAt(form, Pos, i + 1)
      /\ p <= a => p = a /\ IsNextAt(form, Pos, i)
      /\ fd_upload => a < p
  BY <1>2, <1>3, FileNext DEF AtPlaces
<1>7. a < b
  <2>1. a \in Nat /\ n \in Nat /\ l \in Nat /\ w \in Nat /\ h = a + n + 2 /\ v = h + l /\ b = v + w
    BY <1>2
  <2> QED BY <2>1
<1>8. CASE fd_upload
  <2>1. memmem = b - p /\ b + n <= r
    BY <1>1, <1>2, <1>3, <1>4, <1>6, <1>8, NextBoundary DEF AtPlaces
  <2>2. PICK m \in Nat : m = memmem /\ p + m = b /\ m <= d /\ d > 0
    <3>1. b \in Nat /\ p \in Nat /\ d \in Nat /\ n \in Nat /\ n >= 5 /\ r = p + d
      BY <1>2, <1>3
    <3>2. b - p \in Nat /\ p + (b - p) = b /\ b - p <= d /\ d > 0
      BY <1>5, <2>1, <3>1
    <3> QED BY <2>1, <3>2
  <2>3. Consume(m, "BEGIN") /\ "BEGIN" \in MpStates /\ "BEGIN" # "FINISH"
    BY <1>4, <1>8, <2>2, StateNames DEF Result
  <2>4. /\ form' = form /\ rd' = rd /\ mp_state' = "BEGIN"
        /\ m <= dlen => Waiting'
        /\ Waiting' => Synced' /\ outcome' = outcome /\ Pos' = Pos + m /\ m <= dlen
        /\ Waiting' => (m > 0 \/ Starves(form, rd) => Hungry')
    BY <2>3, GoesOn
  <2>5. Waiting' /\ Pos' = b
    BY <1>3, <2>2, <2>4
  <2>6. InBegin(i + 1)'
    <3>1. IsNextAt(form, b, i + 1)
      <4>1. b <= b
        BY <1>2
      <4> QED BY <1>1, <1>2, <1>7, <4>1, NextAt DEF AtPlaces
    <3> QED BY <2>4, <2>5, <3>1 DEF InBegin
  <2>7. ASSUME ~(m > 0) PROVE ctl' = "read" /\ mp' = mp /\ dlen' = dlen
    <3>1. m = 0 /\ c + 0 = c
      BY <1>3, <2>2, <2>7
    <3>2. mp' = mp /\ ctl' = "read"
      BY <1>3, <2>3, <2>5, <3>1 DEF Consume, Waiting, Stalled
    <3>3. mem' = mem
      BY <2>3 DEF Consume
    <3>4. data' = data
      BY <3>2, <3>3 DEF data
    <3> QED BY <3>2, <3>4 DEF dlen
  <2>8. IF memmem > 0 THEN Hungry' ELSE ctl' = "read" /\ mp' = mp /\ dlen' = dlen /\ dlen > 0
    BY <1>3, <2>2, <2>4, <2>5, <2>7
  <2>9. /\ memmem \in Nat /\ memmem <= dlen /\ Pos + memmem = form.at[i + 1]
        /\ form.at[i + 1] + bound_len <= rd
    BY <1>2, <1>3, <2>1, <2>2 DEF AtPlaces
  <2> QED BY <1>4, <1>8, <2>4, <2>5, <2>6, <2>8, <2>9
<1>9. CASE ~fd_upload
  <2>1. PICK m \in Int : m = -1
    OBVIOUS
  <2>2. Consume(m, "BEGIN") /\ "BEGIN" \in MpStates /\ "BEGIN" # "FINISH"
    BY <1>4, <1>9, <2>1, StateNames DEF Result
  <2>3. /\ UNCHANGED <<form, rd, mem, brmax, fd_spool>> /\ mp_state' = "BEGIN"
        /\ Waiting' => Synced' /\ outcome' = outcome /\ Pos' = p + m
    BY <1>3, <2>2, ConsumeMoves
  <2>4. ASSUME Waiting' PROVE (InBegin(i) \/ InBegin(i + 1))'
    <3>1. PICK q \in Int : q = p + m /\ Pos' = q
      BY <1>3, <2>1, <2>3, <2>4
    <3>2. CASE a < q
      <4>1. q <= b
        BY <1>2, <1>3, <1>5, <2>1, <3>1
      <4>2. IsNextAt(form, q, i + 1)
        BY <1>1, <1>2, <3>2, <4>1, NextAt DEF AtPlaces
      <4> QED BY <2>3, <3>1, <4>2 DEF InBegin
    <3>3. CASE ~(a < q)
      <4>1. q <= a /\ a <= q + 1
        BY <1>2, <1>3, <1>5, <2>1, <3>1, <3>3
      <4>2. ASSUME i > 1 PROVE form.at[i - 1] < q
        <5>1. PICK e \in 1..Len(form.parts) + 1, g \in 1..Len(form.parts) + 1 : e = i - 1 /\ g = i /\ e < g
          BY <1>1, <4>2 DEF Parted
        <5>2. form.at[e] + bound_len + 2 <= form.at[g] /\ form.at[e] \in Nat
          BY <1>1, <5>1, AtRises, LayoutType
        <5>3. PICK x \in Nat : x = form.at[e] /\ x + n + 2 <= a
          BY <1>2, <5>1, <5>2 DEF AtPlaces
        <5>4. x < q
          <6>1. x \in Nat /\ n \in Nat /\ a \in Nat /\ q \in Int
            BY <1>2, <3>1, <5>3
          <6> QED BY <4>1, <5>3, <6>1
        <5> QED BY <5>1, <5>3, <5>4
      <4>3. IsNextAt(form, q, i)
        BY <1>2, <4>1, <4>2 DEF IsNextAt, AtPlaces
      <4> QED BY <2>3, <3>1, <4>3 DEF InBegin
    <3> QED BY <3>2, <3>3
  <2> QED BY <1>4, <1>9, <2>3, <2>4
<1> QED BY <1>8, <1>9
-----------------------------------------------------------------------------
\* The first k symbols of a value, and m symbols of some bytes, are as many symbols of the value.
Continues(value, k, bytes, m) == SubSeq(value, 1, k) \o SubSeq(bytes, 1, m) = SubSeq(value, 1, k + m)

(* What is taken of the chunk goes on with the part's value. *)
LEMMA TakesOn ==
    ASSUME ChunkInv, Synced, Laid(form), NEW i \in 1..Parted, NEW k \in Nat, Pos = ValueAt(form, i) + k,
           NEW m \in Nat, m <= dlen, Pos + m <= form.at[i + 1]
    PROVE  /\ Continues(PartAt(i).value, k, data, m)
           /\ k + m <= Len(PartAt(i).value) /\ PartAt(i).value \in Seq(STRING)
           /\ Len(SubSeq(PartAt(i).value, 1, k + m)) = k + m
<1>1. form \in Forms /\ i \in 1..Len(form.parts)
  BY DEF ChunkInv, Parted
<1>2. PICK a, l, h, v, w, b, n \in Nat :
         /\ AtPlaces(form, i, a, l, h, v, w, b) /\ n = bound_len
         /\ n >= 5 /\ h = a + n + 2 /\ v = h + l /\ b = v + w
  BY <1>1, Places
<1>3. PICK d \in Seq(STRING), D \in Nat, p \in Nat :
        /\ d = data /\ D = Len(d) /\ p = Pos /\ D = dlen /\ Reads(d, form, p)
  BY SyncedData
<1>4. PICK val \in Seq(STRING) : val = PartAt(i).value /\ Len(val) = w
  <2>1. IsPlaced(form, i)
    BY <1>1, LayoutType
  <2> QED BY <1>2, <2>1 DEF IsPlaced, PartAt, AtPlaces
<1>5. p = v + k /\ k + m <= w
  <2>1. p = v + k /\ p + m <= b
    BY <1>2, <1>3 DEF AtPlaces
  <2>2. v \in Nat /\ w \in Nat /\ p \in Nat /\ b = v + w
    BY <1>2, <1>3
  <2> QED BY <2>1, <2>2
<1>6. /\ SubSeq(val, 1, k) \o SubSeq(val, k + 1, k + m) = SubSeq(val, 1, k + m)
      /\ Len(SubSeq(val, 1, k + m)) = k + m
  BY <1>4, <1>5, PrefixGrows
<1>7. PICK x \in Seq(STRING) : x = SubSeq(val, k + 1, k + m) /\ Len(x) = m /\ \A j \in 1..m : x[j] = val[k + j]
  <2>1. IsSlice(Slice(val, k, m), STRING, val, k, m)
    BY <1>4, <1>5, SliceOf
  <2> QED BY <2>1 DEF IsSlice, Slice
<1>8. PICK y \in Seq(STRING) : y = SubSeq(d, 1, m) /\ Len(y) = m /\ \A j \in 1..m : y[j] = d[j]
  <2>1. 0 \in Nat /\ 0 + m <= Len(d) /\ 0 + 1 = 1 /\ 0 + m = m /\ \A j \in 1..m : 0 + j = j
    BY <1>3
  <2>2. IsSlice(Slice(d, 0, m), STRING, d, 0, m)
    BY <2>1, SliceOf
  <2>3. /\ SubSeq(d, 0 + 1, 0 + m) \in Seq(STRING) /\ Len(SubSeq(d, 0 + 1, 0 + m)) = m
        /\ \A j \in 1..m : SubSeq(d, 0 + 1, 0 + m)[j] = d[0 + j]
    BY <2>2 DEF IsSlice, Slice
  <2> QED BY <2>1, <2>3
<1>9. ASSUME NEW j \in 1..m PROVE x[j] = y[j]
  <2>1. d[j] = form.spool[p + j] /\ p + Len(d) <= Len(form.spool)
    <3>1. j \in 1..Len(d)
      BY <1>3, <1>9
    <3> QED BY <1>3, <3>1 DEF Reads
  <2>2. PICK g \in Nat, sp \in Nat : g = k + j /\ g \in DOMAIN val /\ sp = Len(form.spool) /\ v + g <= sp /\ v + g = p + j
    <3>1. PICK sp \in Nat : sp = Len(form.spool)
      BY <1>1, LayoutType
    <3>2. k + j \in Nat /\ k + j \in 1..w /\ v + (k + j) <= sp /\ v + (k + j) = p + j
      <4>1. v \in Nat /\ p \in Nat /\ D \in Nat /\ w \in Nat /\ p + D <= sp /\ m <= D /\ p = v + k /\ k + m <= w
        BY <1>2, <1>3, <1>5, <2>1, <3>1
      <4> QED BY <4>1
    <3>3. DOMAIN val = 1..w
      BY <1>4, LenProperties
    <3> QED BY <3>1, <3>2, <3>3
  <2>3. LiesAt(val, form.spool, v)
    BY <1>2, <1>4 DEF Laid, LaidOut, PartAt, Parted, AtPlaces
  <2>4. form.spool[v + g] = val[g]
    BY <2>2, <2>3 DEF LiesAt
  <2> QED BY <1>7, <1>8, <1>9, <2>1, <2>2, <2>4
<1>10. x = y
  <2>1. \A j \in 1..Len(x) : x[j] = y[j]
    BY <1>7, <1>9
  <2> QED BY <1>7, <1>8, <2>1, SeqEqual
<1>11. Continues(val, k, d, m)
  BY <1>6, <1>7, <1>8, <1>10 DEF Continues
<1> QED BY <1>3, <1>4, <1>5, <1>6, <1>11

(* Field data too short to be told from a boundary is left for the next chunk. *)
LEMMA FieldCutMoves ==
    ASSUME ChunkInv, Synced, Laid(form), NEW i \in 1..Parted, InField(i), FieldCut
    PROVE  /\ Kept /\ slips' = slips /\ Waiting' /\ Synced' /\ outcome' = outcome /\ Hungry'
           /\ InField(i)' /\ Pos' = Pos
<1>1. Consume(0, "FLDDATA") /\ UNCHANGED <<name, flddata, stored, slips>> /\ dlen < bound_len
  BY DEF FieldCut
<1>2. form' = form /\ rd' = rd /\ mp_state' = "FLDDATA" /\ Pos' = Pos
      /\ Waiting' /\ Synced' /\ outcome' = outcome /\ (Starves(form, rd) => Hungry')
  BY <1>1, Waits, StateNames
<1>3. form \in Forms /\ i \in 1..Len(form.parts)
  BY DEF ChunkInv, Parted
<1>4. PICK a, l, h, v, w, b, n \in Nat :
         /\ AtPlaces(form, i, a, l, h, v, w, b) /\ n = bound_len
         /\ n >= 5 /\ h = a + n + 2 /\ v = h + l /\ b = v + w
  BY <1>3, Places
<1>5. PICK p \in Nat, d \in Nat, r \in Nat : p = Pos /\ d = dlen /\ r = rd /\ r = p + d
  BY SyncedData
<1>6. r < b + n + 2
  <2>1. p <= b /\ d < n
    BY <1>1, <1>4, <1>5 DEF InField, AtPlaces
  <2>2. p \in Nat /\ d \in Nat /\ b \in Nat /\ n \in Nat /\ r = p + d
    BY <1>4, <1>5
  <2> QED BY <2>1, <2>2
<1>7. Starves(form, rd)
  <2>1. i + 1 \in 1..Len(form.parts) + 1
    BY <1>3, LayoutType
  <2> QED BY <1>4, <1>5, <1>6, <2>1 DEF Starves, AtPlaces
<1>8. InField(i)'
  BY <1>1, <1>2 DEF InField, PartAt, Parted
<1> QED BY <1>1, <1>2, <1>7, <1>8 DEF Kept

(* A value that is full stays so to the end of the form. *)
LEMMA FullMoves ==
    ASSUME ChunkInv, ValueInv, Synced, FieldFull \/ (Full /\ FieldCut)
    PROVE  Kept /\ Waiting' /\ Synced' /\ Full' /\ (slips' = {} => slips = {} /\ FieldCut)
<1>1. dlen \in Nat /\ dlen <= dlen /\ 0 \in Nat /\ 0 <= dlen
  BY SyncedData
<1>2. REQ_MAX_FLDDATA \in Nat /\ Len(flddata) \in Nat
  BY MultipartAssumption, LenProperties DEF ValueInv
<1>3. CASE FieldFull
  <2>1. /\ Room = 0 /\ Consume(dlen, "FLDDATA") /\ Slip("full", TRUE) /\ UNCHANGED <<name, flddata, stored>>
    BY <1>3 DEF FieldFull
  <2>2. PICK m \in Nat : m = dlen /\ m <= dlen /\ Consume(m, "FLDDATA")
    BY <1>1, <2>1
  <2>3. form' = form /\ Waiting' /\ Synced' /\ mp_state' = "FLDDATA"
    BY <2>2, GoesOn, StateNames
  <2>4. Len(flddata') = REQ_MAX_FLDDATA
    BY <1>2, <2>1 DEF Room
  <2>5. slips' # {}
    BY <2>1 DEF Slip
  <2> QED BY <2>1, <2>3, <2>4, <2>5 DEF Kept, Full
<1>4. CASE Full /\ FieldCut
  <2>1. Consume(0, "FLDDATA") /\ UNCHANGED <<name, flddata, stored, slips>>
    BY <1>4 DEF FieldCut
  <2>2. form' = form /\ Waiting' /\ Synced' /\ mp_state' = "FLDDATA"
    BY <2>1, Waits, StateNames
  <2> QED BY <1>4, <2>1, <2>2 DEF Kept, Full
<1> QED BY <1>3, <1>4

\* What is known of a field's value that is being read.
LEMMA FieldNext ==
    ASSUME ChunkInv, ValueInv, Synced, Laid(form), NEW i \in 1..Parted, InField(i)
    PROVE  /\ IsNextAt(form, Pos, i + 1)
           /\ \E k \in Nat : Pos = ValueAt(form, i) + k /\ flddata = SubSeq(PartAt(i).value, 1, k)
<1>1. form \in Forms /\ i \in 1..Len(form.parts) /\ i \in Nat
  BY LayoutType DEF ChunkInv, Parted
<1>2. PICK a, l, h, v, w, b, n \in Nat :
         /\ AtPlaces(form, i, a, l, h, v, w, b) /\ n = bound_len
         /\ n >= 5 /\ h = a + n + 2 /\ v = h + l /\ b = v + w
  BY <1>1, Places
<1>3. PICK p \in Nat : p = Pos
  BY SyncedData
<1>4. v <= p /\ p <= b /\ flddata = SubSeq(PartAt(i).value, 1, p - v)
  BY <1>2, <1>3 DEF InField, AtPlaces
<1>5. IsNextAt(form, p, i + 1)
  <2>1. a < p
    <3>1. a \in Nat /\ n \in Nat /\ l \in Nat /\ p \in Nat /\ h = a + n + 2 /\ v = h + l
      BY <1>2, <1>3
    <3> QED BY <1>4, <3>1
  <2> QED BY <1>1, <1>2, <1>4, <2>1, NextAt DEF AtPlaces
<1>6. PICK k \in Nat : k = p - v /\ p = v + k
  <2>1. p - v \in Nat /\ p = v + (p - v)
    BY <1>2, <1>3, <1>4
  <2> QED BY <2>1
<1> QED BY <1>2, <1>3, <1>4, <1>5, <1>6 DEF AtPlaces

(* What is added to a field without a boundary in sight is its value, not more. *)
LEMMA FieldMoreMoves ==
    ASSUME ChunkInv, ValueInv, Synced, Laid(form), NEW i \in 1..Parted, InField(i), FieldMore
    PROVE  /\ Kept /\ slips' = slips /\ Waiting' /\ Synced' /\ outcome' = outcome /\ Hungry'
           /\ InField(i)' /\ Pos' < form.at[i + 1]
<1>1. form \in Forms /\ i \in 1..Len(form.parts) /\ i + 1 \in 1..Len(form.parts) + 1
  BY LayoutType DEF ChunkInv, Parted
<1>2. PICK a, l, h, v, w, b, n \in Nat :
         /\ AtPlaces(form, i, a, l, h, v, w, b) /\ n = bound_len
         /\ n >= 5 /\ h = a + n + 2 /\ v = h + l /\ b = v + w
  BY <1>1, Places
<1>3. PICK d \in Nat, p \in Nat, r \in Nat : d = dlen /\ p = Pos /\ r = rd /\ r = p + d
  BY SyncedData
<1>4. PICK k \in Nat : p = v + k /\ flddata = SubSeq(PartAt(i).value, 1, k)
  BY <1>2, <1>3, FieldNext DEF AtPlaces
<1>5. /\ d >= n /\ Room > 0 /\ BoundaryAt = {}
      /\ flddata' = flddata \o SubSeq(data, 1, FieldMax)
      /\ Consume(FieldMax, "FLDDATA")
      /\ UNCHANGED <<name, stored, slips>>
  BY <1>2, <1>3 DEF FieldMore
<1>6. b + n > r
  <2>1. IsNextAt(form, Pos, i + 1) /\ i + 1 \in 1..Parted + 1
    BY <1>1, FieldNext DEF Parted
  <2> QED BY <1>2, <1>3, <1>5, <2>1, NextBoundary DEF AtPlaces
<1>7. PICK m \in Nat : m = FieldMax /\ m <= d /\ p + m < b
  <2>1. PICK room \in Nat, rest \in Nat : room = Room /\ rest = d - n /\ rest + n = d
    <3>1. REQ_MAX_FLDDATA \in Nat /\ Len(flddata) \in Nat /\ Len(flddata) <= REQ_MAX_FLDDATA
      BY MultipartAssumption, LenProperties DEF ValueInv, TerminatorBehind, InField
    <3>2. Room \in Nat
      BY <3>1 DEF Room
    <3>3. d - n \in Nat /\ d - n + n = d
      BY <1>2, <1>3, <1>5
    <3> QED BY <3>2, <3>3
  <2>2. FieldMax = Smaller(room, rest)
    BY <1>2, <1>3, <2>1 DEF FieldMax
  <2>3. PICK m \in Nat : m = FieldMax /\ m <= rest
    BY <2>2, SmallerType
  <2>4. p \in Nat /\ d \in Nat /\ n \in Nat /\ b \in Nat /\ rest \in Nat /\ m \in Nat /\ r = p + d
    BY <1>2, <1>3, <2>1, <2>3
  <2>5. m <= d /\ p + m < b
    BY <1>6, <2>1, <2>3, <2>4
  <2> QED BY <2>3, <2>5
<1>8. /\ form' = form /\ rd' = rd /\ mp_state' = "FLDDATA"
      /\ m <= dlen => Waiting'
      /\ Waiting' => Synced' /\ outcome' = outcome /\ Pos' = Pos + m /\ m <= dlen
      /\ Waiting' => (m > 0 \/ Starves(form, rd) => Hungry')
  <2>1. Consume(m, "FLDDATA") /\ "FLDDATA" \in MpStates /\ "FLDDATA" # "FINISH"
    BY <1>5, <1>7, StateNames
  <2> QED BY <2>1, GoesOn
<1>9. Starves(form, rd)
  <2>1. r < b + n + 2
    BY <1>2, <1>3, <1>6
  <2> QED BY <1>1, <1>2, <1>3, <2>1 DEF Starves, AtPlaces
<1>10. Waiting' /\ Pos' = p + m
  BY <1>3, <1>7, <1>8
<1>11. flddata' = SubSeq(PartAt(i).value, 1, p + m - v)
  <2>1. Pos = ValueAt(form, i) + k /\ m <= dlen /\ Pos + m <= form.at[i + 1]
    BY <1>2, <1>3, <1>4, <1>7 DEF AtPlaces
  <2>2. Continues(PartAt(i).value, k, data, m)
    BY <2>1, TakesOn
  <2>3. p + m - v = k + m
    <3>1. p \in Nat /\ m \in Nat /\ v \in Nat /\ k \in Nat /\ p = v + k
      BY <1>2, <1>3, <1>4, <1>7
    <3> QED BY <3>1
  <2> QED BY <1>4, <1>5, <1>7, <2>2, <2>3 DEF Continues
<1>12. InField(i)' /\ Pos' < form.at[i + 1]
  <2>1. v <= p + m /\ p + m <= b
    <3>1. p \in Nat /\ m \in Nat /\ v \in Nat /\ k \in Nat /\ p = v + k /\ b \in Nat
      BY <1>2, <1>3, <1>4, <1>7
    <3> QED BY <1>7, <3>1
  <2>2. /\ PartAt(i)' = PartAt(i) /\ Parted' = Parted /\ ValueAt(form, i)' = v /\ form'.at[i + 1] = b
        /\ name' = name /\ PartAt(i).kind = "field" /\ name = PartAt(i).name
    BY <1>2, <1>5, <1>8 DEF InField, PartAt, Parted, AtPlaces
  <2>3. Pos' < form.at[i + 1]
    BY <1>2, <1>7, <1>10 DEF AtPlaces
  <2>4. mp_state' = "FLDDATA" /\ i \in 1..Parted' /\ PartAt(i)'.kind = "field" /\ name' = PartAt(i)'.name
    BY <1>8, <2>2
  <2>5. ValueAt(form, i)' <= Pos' /\ Pos' <= form'.at[i + 1]
    BY <1>10, <2>1, <2>2
  <2>6. flddata' = SubSeq(PartAt(i)'.value, 1, Pos' - ValueAt(form, i)')
    BY <1>10, <1>11, <2>2
  <2> QED BY <2>3, <2>4, <2>5, <2>6 DEF InField
<1> QED BY <1>5, <1>8, <1>9, <1>10, <1>12 DEF Kept

(* A boundary ends the field where its value ends, but for want of room. *)
LEMMA FieldEndMoves ==
    ASSUME ChunkInv, ValueInv, Synced, Laid(form), NEW i \in 1..Parted, InField(i), FieldEnd
    PROVE  /\ form' = form
           /\ Waiting' =>
                /\ Synced' /\ outcome' = outcome /\ Hungry' /\ InBegin(i + 1)'
                /\ UNCHANGED <<uploads, upfile, fd_upload>>
                /\ PartAt(i).kind = "field"
                /\ \E m \in 1..Len(PartAt(i).value) :
                     /\ params' = Append(params, <<PartAt(i).name, SubSeq(PartAt(i).value, 1, m)>>)
                     /\ slips' = {} => m = Len(PartAt(i).value)
           /\ Pos < form.at[i + 1] => Waiting'
           /\ ~Waiting' => Kept
<1>1. form \in Forms /\ i \in 1..Len(form.parts) /\ i + 1 \in 1..Len(form.parts) + 1 /\ i \in Nat
  BY LayoutType DEF ChunkInv, Parted
<1>2. PICK a, l, h, v, w, b, n \in Nat :
         /\ AtPlaces(form, i, a, l, h, v, w, b) /\ n = bound_len
         /\ n >= 5 /\ h = a + n + 2 /\ v = h + l /\ b = v + w
  BY <1>1, Places
<1>3. PICK d \in Nat, p \in Nat, r \in Nat : d = dlen /\ p = Pos /\ r = rd /\ r = p + d
  BY SyncedData
<1>4. PICK k \in Nat : p = v + k /\ flddata = SubSeq(PartAt(i).value, 1, k)
  BY <1>2, <1>3, FieldNext DEF AtPlaces
<1>5. BoundaryAt # {} /\ Room > 0
  BY DEF FieldEnd
<1>6. b + n <= r /\ memmem = b - p /\ p <= b
  <2>1. IsNextAt(form, Pos, i + 1) /\ i + 1 \in 1..Parted + 1
    BY <1>1, FieldNext DEF Parted
  <2>2. p <= b
    BY <1>2, <1>3 DEF InField, AtPlaces
  <2> QED BY <1>2, <1>3, <1>5, <2>1, <2>2, NextBoundary DEF AtPlaces
<1>7. PICK m \in Nat : /\ m = Smaller(FieldMax, memmem) /\ m <= d /\ p + m <= b
                       /\ p < b => m > 0
                       /\ p + m = b \/ m < memmem
  <2>1. PICK room \in Nat, rest \in Nat : room = Room /\ room > 0 /\ rest = d - n /\ rest + n = d
    <3>1. REQ_MAX_FLDDATA \in Nat /\ Len(flddata) \in Nat /\ Len(flddata) <= REQ_MAX_FLDDATA
      BY MultipartAssumption, LenProperties DEF ValueInv, TerminatorBehind, InField
    <3>2. Room \in Nat
      BY <3>1 DEF Room
    <3>3. d - n \in Nat /\ d - n + n = d
      BY <1>2, <1>3, <1>6
    <3> QED BY <1>5, <3>2, <3>3
  <2>2. FieldMax = Smaller(room, rest)
    BY <1>2, <1>3, <2>1 DEF FieldMax
  <2>3. PICK f \in Nat : f = FieldMax /\ (f = room \/ f = rest) /\ f <= rest
    BY <2>1, <2>2 DEF Smaller
  <2>4. PICK mm \in Nat : mm = memmem /\ p + mm = b
    BY <1>2, <1>3, <1>6
  <2>5. PICK m \in Nat : m = Smaller(FieldMax, memmem) /\ m <= f /\ m <= mm /\ (m = f \/ m = mm)
    BY <2>3, <2>4 DEF Smaller
  <2>6. p \in Nat /\ d \in Nat /\ n \in Nat /\ b \in Nat /\ rest \in Nat /\ m \in Nat /\ f \in Nat
        /\ mm \in Nat /\ room \in Nat /\ r = p + d /\ n >= 5
    BY <1>2, <1>3, <2>1, <2>3, <2>4, <2>5
  <2>7. m <= d /\ p + m <= b /\ (p < b => m > 0) /\ (p + m = b \/ m < mm)
    BY <1>6, <2>1, <2>3, <2>4, <2>5, <2>6
  <2> QED BY <2>4, <2>5, <2>7
<1>8. \/ m = 0 /\ Throw
      \/ /\ m > 0
         /\ params' = Append(params, <<name, flddata \o SubSeq(data, 1, m)>>)
         /\ Consume(m, "BEGIN") /\ Slip("full", m < memmem)
         /\ UNCHANGED <<name, uploads, upfile, fd_upload>>
  BY <1>7 DEF FieldEnd
<1>9. CASE m = 0 /\ Throw
  <2>1. ~Waiting' /\ form' = form /\ Kept
    BY <1>9 DEF Throw, Waiting, Kept
  <2>2. ~(p < b)
    BY <1>7, <1>9
  <2> QED BY <1>2, <1>3, <2>1, <2>2 DEF AtPlaces
<1>10. CASE /\ m > 0
            /\ params' = Append(params, <<name, flddata \o SubSeq(data, 1, m)>>)
            /\ Consume(m, "BEGIN") /\ Slip("full", m < memmem)
            /\ UNCHANGED <<name, uploads, upfile, fd_upload>>
  <2>1. /\ form' = form /\ rd' = rd /\ mp_state' = "BEGIN"
        /\ m <= dlen => Waiting'
        /\ Waiting' => Synced' /\ outcome' = outcome /\ Pos' = Pos + m /\ m <= dlen
        /\ Waiting' => (m > 0 \/ Starves(form, rd) => Hungry')
    BY <1>7, <1>10, GoesOn, StateNames
  <2>2. Waiting' /\ Pos' = p + m /\ Hungry'
    BY <1>3, <1>7, <1>10, <2>1
  <2>3. InBegin(i + 1)'
    <3>1. a < p + m
      <4>1. a \in Nat /\ n \in Nat /\ l \in Nat /\ p \in Nat /\ h = a + n + 2 /\ v = h + l /\ p = v + k
            /\ k \in Nat /\ m \in Nat
        BY <1>2, <1>3, <1>4, <1>7
      <4> QED BY <4>1
    <3>2. PICK q \in Nat : q = p + m /\ a < q /\ q <= b
      BY <1>3, <1>7, <3>1
    <3>3. IsNextAt(form, q, i + 1)
      BY <1>1, <1>2, <3>2, NextAt DEF AtPlaces
    <3> QED BY <2>1, <2>2, <3>2, <3>3 DEF InBegin
  <2>4. PICK c \in Nat : c = k + m /\ c >= 1 /\ c <= w /\ (p + m = b => c = w)
    <3>1. p \in Nat /\ b \in Nat /\ v \in Nat /\ w \in Nat /\ k \in Nat /\ m \in Nat /\ m > 0
          /\ p = v + k /\ b = v + w /\ p + m <= b
      BY <1>2, <1>3, <1>4, <1>7, <1>10
    <3>2. k + m \in Nat /\ k + m >= 1 /\ k + m <= w /\ (p + m = b => k + m = w)
      BY <3>1
    <3> QED BY <3>2
  <2>5. flddata \o SubSeq(data, 1, m) = SubSeq(PartAt(i).value, 1, c)
    <3>1. Pos = ValueAt(form, i) + k /\ m <= dlen /\ Pos + m <= form.at[i + 1]
      BY <1>2, <1>3, <1>4, <1>7 DEF AtPlaces
    <3>2. Continues(PartAt(i).value, k, data, m)
      BY <3>1, TakesOn
    <3> QED BY <1>4, <2>4, <3>2 DEF Continues
  <2>6. slips' = {} => c = w
    <3>1. slips' = {} => ~(m < memmem)
      BY <1>10 DEF Slip
    <3> QED BY <1>7, <2>4, <3>1
  <2>7. c \in 1..Len(PartAt(i).value) /\ (slips' = {} => c = Len(PartAt(i).value))
    BY <1>2, <2>4, <2>6 DEF AtPlaces, PartAt
  <2>8. PartAt(i).kind = "field" /\ params' = Append(params, <<PartAt(i).name, SubSeq(PartAt(i).value, 1, c)>>)
    BY <1>10, <2>5 DEF InField
  <2> QED BY <1>10, <2>1, <2>2, <2>3, <2>7, <2>8
<1> QED BY <1>8, <1>9, <1>10
-----------------------------------------------------------------------------
(* The chunk goes on with the next bytes of the form. *)
IsLonger(c, f, d, p, n) == c \in Seq(STRING) /\ Len(c) = Len(d) + n /\ Reads(c, f, p)
(* What was carried over and what is read behind it lie side by side. *)
LEMMA ReadsOn ==
    ASSUME NEW f, NEW d \in Seq(STRING), NEW p \in Nat, NEW r \in Nat, NEW n \in Nat,
           Reads(d, f, p), f.spool \in Seq(STRING), r = p + Len(d), r + n <= Len(f.spool)
    PROVE  IsLonger(d \o Slice(f.spool, r, n), f, d, p, n)
<1>1. PICK s \in Seq(STRING), N \in Nat : s = f.spool /\ N = Len(s)
  BY LenProperties
<1>2. PICK l \in Nat : l = Len(d) /\ r = p + l /\ \A k \in 1..l : d[k] = s[p + k]
  BY <1>1, LenProperties DEF Reads
<1>3. PICK e : e = Slice(s, r, n) /\ IsSlice(e, STRING, s, r, n)
  BY <1>1, SliceOf
<1>4. e \in Seq(STRING) /\ Len(e) = n /\ \A k \in 1..n : e[k] = s[r + k]
  BY <1>3 DEF IsSlice
<1>5. PICK c \in Seq(STRING) : c = d \o e /\ Len(c) = l + n
  <2>1. d \o e \in Seq(STRING) /\ Len(d \o e) = Len(d) + Len(e)
    BY <1>4, ConcatLength
  <2> QED BY <1>2, <1>4, <2>1
<1>6. \A k \in 1..l + n : c[k] = IF k <= l THEN d[k] ELSE e[k - l]
  BY <1>2, <1>4, <1>5, ConcatProperties
<1>7. ASSUME NEW k \in 1..l + n PROVE c[k] = s[p + k]
  <2>1. CASE k <= l
    BY <1>2, <1>6, <2>1
  <2>2. CASE k > l
    <3>1. PICK j \in 1..n : j = k - l /\ p + k = r + j
      <4>1. k - l \in 1..n /\ p + k = r + (k - l)
        BY <1>2, <2>2
      <4> QED BY <4>1
    <3>2. c[k] = e[j]
      BY <1>6, <2>2, <3>1
    <3> QED BY <1>4, <3>1, <3>2
  <2> QED BY <2>1, <2>2
<1>8. p + (l + n) <= N
  BY <1>1, <1>2
<1> QED BY <1>1, <1>2, <1>3, <1>5, <1>7, <1>8 DEF Reads, IsLonger

(* More is read, and the parser is where it was, unless bytes are dropped. *)
LEMMA ReadMoreMoves ==
    ASSUME ChunkInv, Synced, ReadMore
    PROVE  /\ Kept /\ UNCHANGED <<mp_state, name, flddata>> /\ ctl' # "read"
           /\ Waiting' => ctl' = "parse" /\ outcome' = outcome
           /\ Waiting' /\ "dropped" \notin slips' => Synced' /\ Pos' = Pos /\ mp' = 0
           /\ "dropped" \notin slips' /\ Left > 0 /\ outcome' # "failed" /\ (Carries => mp > 0) => Waiting'
<1>1. Kept /\ UNCHANGED <<mp_state, name, flddata>> /\ ctl' # "read" /\ (Waiting' => ctl' = "parse" /\ outcome' = outcome)
  BY DEF ReadMore, Kept, Waiting
<1>2. PICK d \in Seq(STRING), p \in Nat, r \in Nat :
        /\ d = data /\ p = Pos /\ r = rd /\ dlen = Len(d) /\ r = p + Len(d) /\ Reads(d, form, p)
  BY SyncedData
<1>3. form \in Forms /\ form.spool \in Seq(STRING) /\ Left \in Nat /\ Left = Len(form.spool) - r /\ Len(form.spool) \in Nat
  BY <1>2, MultipartAssumption, LeftType DEF ChunkInv, Left
<1>4. PICK t \in Nat, n \in Nat :
        /\ t = (IF Carries THEN mp ELSE MAX_MP) /\ n = Smaller(t, Left) /\ n <= Left
        /\ \/ /\ n > 0
              /\ mem' = (IF Carries THEN data ELSE <<>>) \o Slice(form.spool, r, n)
              /\ mp' = 0 /\ rd' = rd + n
              /\ ctl' = "parse"
           \/ n = 0 /\ ctl' = "done"
           \/ ctl' = "over" /\ outcome' = "failed"
  <2>1. PICK t \in Nat : t = (IF Carries THEN mp ELSE MAX_MP)
    BY MultipartAssumption DEF ChunkInv
  <2>2. PICK n \in Nat : n = Smaller(t, Left) /\ n <= Left
    BY <1>3, SmallerType
  <2> QED BY <1>2, <2>1, <2>2 DEF ReadMore, Slice, Spool
<1>5. ASSUME Waiting', "dropped" \notin slips' PROVE Synced' /\ Pos' = Pos /\ mp' = 0
  <2>1. Carries \/ d = <<>>
    <3>1. ~(dlen > 0 /\ ~Carries)
      BY <1>5 DEF ReadMore, Slip
    <3> QED BY <1>2, <3>1, EmptySeq, LenProperties
  <2>2. /\ mem' = d \o Slice(form.spool, r, n)
        /\ mp' = 0 /\ rd' = r + n /\ form' = form
    BY <1>1, <1>2, <1>4, <1>5, <2>1 DEF Waiting, Kept
  <2>3. PICK c \in Seq(STRING), L \in Nat : c = mem' /\ L = Len(c) /\ L = Len(d) + n /\ Reads(c, form, p)
    <3>1. rd + n <= Len(form.spool) /\ rd = r
      BY <1>2, <1>3, <1>4
    <3>2. /\ d \o Slice(form.spool, r, n) \in Seq(STRING)
          /\ Len(d \o Slice(form.spool, r, n)) = Len(d) + n
          /\ Reads(d \o Slice(form.spool, r, n), form, p)
      <4>1. PICK f : f = form /\ Reads(d, f, p) /\ f.spool \in Seq(STRING) /\ r + n <= Len(f.spool)
        BY <1>2, <1>3, <3>1
      <4>2. IsLonger(d \o Slice(f.spool, r, n), f, d, p, n)
        <5>1. n \in Nat /\ r = p + Len(d) /\ d \in Seq(STRING) /\ p \in Nat /\ r \in Nat
          BY <1>2, <1>4
        <5> QED BY <4>1, <5>1, ReadsOn
      <4> QED BY <4>1, <4>2 DEF IsLonger
    <3>3. Len(mem') \in Nat
      BY <2>2, <3>2, LenProperties
    <3> QED BY <2>2, <3>2, <3>3
  <2>4. r + n = p + L /\ Len(d) \in Nat
    BY <1>2, <2>3, LenProperties
  <2>5. Synced'
    <3>1. Len(c) <= r + n /\ (r + n) - L = p
      BY <2>3, <2>4
    <3>2. \A k \in 1..L : c[k] = form.spool[p + k]
      BY <2>3 DEF Reads
    <3> QED BY <2>2, <2>3, <3>1, <3>2 DEF Synced
  <2>6. Pos' = p
    <3>0. c \in Seq(STRING) /\ L = Len(c)
      BY <2>3
    <3>1. SubSeq(c, 1, L) = c
      BY <3>0
    <3>2. dlen' = L
      BY <2>2, <2>3, <3>1 DEF dlen, data
    <3> QED BY <2>2, <2>4, <3>2 DEF Pos
  <2> QED BY <1>2, <2>2, <2>5, <2>6
<1>6. ASSUME Left > 0, outcome' # "failed", Carries => mp > 0 PROVE Waiting'
  <2>1. t > 0
    BY <1>4, <1>6, MultipartAssumption
  <2>2. n > 0
    BY <1>3, <1>4, <1>6, <2>1 DEF Smaller
  <2>3. n # 0
    BY <2>2
  <2>4. ctl' = "parse"
    BY <1>4, <1>6, <2>3
  <2> QED BY <2>4 DEF Waiting
<1> QED BY <1>1, <1>5, <1>6

(* A whole form goes on behind every place where the parser may be. *)
LEMMA MoreToCome ==
    ASSUME ChunkInv, Synced, Laid(form), form.whole, NEW i \in 1..Parted + 1, Where(i), Hungry, ctl = "read"
    PROVE  Left > 0
<1>1. form \in Forms /\ Parted = Len(form.parts) /\ Parted \in Nat /\ Len(form.spool) \in Nat
      /\ \A j \in 1..Parted + 1 : form.at[j] \in Nat
  BY LayoutType DEF ChunkInv, Parted
<1>2. PICK p \in Nat, r \in Nat : p = Pos /\ r = rd
  BY SyncedData
<1>3. \E j \in 1..Parted + 1 : p <= form.at[j]
  <2>1. CASE InBegin(i)
    BY <1>2, <2>1 DEF InBegin, IsNextAt
  <2>2. CASE InHeader(i) \/ InType(i) \/ InFile(i) \/ InField(i)
    <3>1. i \in 1..Len(form.parts) /\ i + 1 \in 1..Parted + 1
      BY <1>1, <2>2 DEF InHeader, InType, InFile, InField
    <3>2. PICK a, l, h, v, w, b, n \in Nat :
             /\ AtPlaces(form, i, a, l, h, v, w, b) /\ n = bound_len
             /\ n >= 5 /\ h = a + n + 2 /\ v = h + l /\ b = v + w
      <4>1. form \in Forms /\ Laid(form) /\ i \in 1..Len(form.parts)
        BY <1>1, <3>1
      <4> QED BY <4>1, Places
    <3>3. p = h \/ p + 4 <= v \/ p <= b
      BY <1>2, <2>2, <3>2 DEF InHeader, InType, InFile, InField, AtPlaces
    <3>4. p <= b
      <4>1. p \in Nat /\ h \in Nat /\ l \in Nat /\ v \in Nat /\ w \in Nat /\ b \in Nat /\ v = h + l /\ b = v + w
        BY <1>2, <3>2
      <4> QED BY <3>3, <4>1
    <3> QED BY <3>1, <3>2, <3>4 DEF AtPlaces
  <2> QED BY <2>1, <2>2 DEF Where
<1>4. PICK j \in 1..Parted + 1 : r < form.at[j] + bound_len + 2
  <2>1. CASE p = r
    <3>1. PICK j \in 1..Parted + 1 : p <= form.at[j]
      BY <1>3
    <3>2. PICK q \in Nat, n \in Nat : q = form.at[j] /\ n = bound_len
      BY <1>1, <3>1, BoundLength
    <3>3. r \in Nat /\ q \in Nat /\ n \in Nat /\ r <= q
      BY <1>2, <2>1, <3>1, <3>2
    <3>4. r < q + n + 2
      BY <3>3
    <3> QED BY <3>1, <3>2, <3>4
  <2>2. CASE Starves(form, rd)
    BY <1>1, <1>2, <2>2 DEF Starves
  <2> QED BY <1>2, <2>1, <2>2 DEF Hungry
<1>5. form.at[j] + bound_len + 2 <= Len(form.spool)
  BY <1>1, WholeIs
<1>6. PICK q \in Nat, n \in Nat : q = form.at[j] /\ n = bound_len
  BY <1>1, BoundLength
<1>7. PICK s \in Nat : s = Len(form.spool)
  BY <1>1
<1>8. r < q + n + 2 /\ q + n + 2 <= s
  BY <1>2, <1>4, <1>5, <1>6, <1>7
<1>9. s - r > 0
  <2>1. s \in Nat /\ r \in Nat /\ q \in Nat /\ n \in Nat
    BY <1>2, <1>6, <1>7
  <2> QED BY <1>8, <2>1
<1> QED BY <1>2, <1>7, <1>9 DEF Left
(* The first chunk of a form. *)
LEMMA StartMoves ==
    ASSUME ChunkInv, Laid(form), rd = 0, mp_state = "BEGIN", Start
    PROVE  /\ Kept /\ slips' = slips
           /\ Waiting' => ctl' = "parse" /\ outcome' = outcome /\ Synced' /\ InBegin(1)'
           /\ outcome' # "failed" => Waiting'
<1>1. Kept /\ slips' = slips /\ mp_state' = "BEGIN" /\ form' = form
  BY DEF Start, Kept
<1>2. form \in Forms /\ form.spool \in Seq(STRING) /\ Left \in Nat /\ Left = Len(form.spool)
      /\ Len(form.spool) \in Nat /\ form.at[1] \in Nat
  <2>1. form \in Forms /\ form.spool \in Seq(STRING) /\ Left \in Nat /\ Len(form.spool) \in Nat
    BY MultipartAssumption, LeftType DEF ChunkInv
  <2>2. 1 \in 1..Len(form.parts) + 1
    BY <2>1, LayoutType
  <2> QED BY <2>1, <2>2, LayoutType DEF Left
<1>3. CASE ctl' = "over" /\ outcome' = "failed"
  BY <1>1, <1>3 DEF Waiting
<1>4. CASE /\ rd' = Smaller(MAX_MP, Left) /\ mem' = Spool(0, Smaller(MAX_MP, Left))
           /\ ctl' = "parse" /\ UNCHANGED outcome
  <2>1. PICK n \in Nat : n = Smaller(MAX_MP, Left) /\ n <= Left
    BY <1>2, MultipartAssumption, SmallerType
  <2>2. PICK s \in Seq(STRING) : s = form.spool /\ 0 + n <= Len(s)
    BY <1>2, <2>1
  <2>3. PICK c : c = Slice(s, 0, n) /\ IsSlice(c, STRING, s, 0, n)
    BY <2>1, <2>2, SliceOf
  <2>4. c \in Seq(STRING) /\ Len(c) = n /\ \A k \in 1..n : c[k] = s[k]
    BY <2>3 DEF IsSlice
  <2>5. rd' = n /\ mem' = c /\ mp' = 0
    <3>1. mp' = mp /\ mp = 0
      BY DEF Start, ChunkInv
    <3> QED BY <1>4, <2>1, <2>2, <2>3, <3>1 DEF Spool, Slice
  <2>6. Synced'
    <3>1. \A k \in 1..n : n - n + k = k
      BY <2>1
    <3> QED BY <1>1, <2>2, <2>4, <2>5, <3>1 DEF Synced
  <2>7. Pos' = 0
    <3>1. SubSeq(c, 1, n) = c
      BY <2>4
    <3>2. dlen' = n
      BY <2>4, <2>5, <3>1 DEF dlen, data
    <3> QED BY <2>1, <2>5, <3>2 DEF Pos
  <2>8. InBegin(1)'
    BY <1>1, <1>2, <2>7 DEF InBegin, IsNextAt
  <2> QED BY <1>1, <1>4, <2>6, <2>8 DEF Waiting
<1> QED BY <1>3, <1>4 DEF Start
-----------------------------------------------------------------------------
(* What is stored of the form while it is read: nothing of a part that lies *)
(* behind the one the parser is at, and of that one only a file that is     *)
(* still growing.                                                           *)
Has(p, u, label) == \/ \E k \in DOMAIN p : p[k][1] = label
                    \/ \E k \in DOMAIN u : u[k].name = label
Unread(i) == \A j \in i..Parted : ~Has(params, uploads, PartAt(j).name)
Growing(i) ==
    /\ mp_state = "FILEDATA" /\ upfile = Len(uploads) /\ uploads # <<>>
    /\ uploads[upfile].name = PartAt(i).name
    /\ uploads[upfile].data = SubSeq(PartAt(i).value, 1, Pos - ValueAt(form, i))
Recording(i) == IF fd_upload THEN Growing(i) /\ Unread(i + 1) ELSE Unread(i)
Found == \E i \in 1..Parted + 1 : Where(i) /\ Recording(i)
PlaceInv == Tracked(slips) /\ Waiting => Synced /\ ((Full /\ ~fd_upload) \/ Found)

\* What a body that is no form gives.
Copying ==
    \/ /\ fd_upload /\ upfile = 1
       /\ uploads = <<[name |-> "[body]", data |-> SubSeq(form.spool, 1, rd), bytes |-> 0, linked |-> TRUE]>>
    \/ ~fd_upload /\ uploads = <<>>
Bodied(f) == f.parts \in Seq(Range(f.parts)) /\ IsBody(f)
CallInv ==
    /\ IF form.parts[1].kind = "body" THEN Bodied(form) /\ ctl \in {"body", "copy", "over"}
                                      ELSE Laid(form) /\ ctl \notin {"body", "copy"}
    /\ ctl \in {"start", "body"} =>
         rd = 0 /\ mp_state = "BEGIN" /\ params = <<>> /\ uploads = <<>> /\ ~fd_upload
    /\ ctl = "copy" => params = <<>> /\ (Tracked(slips) => Copying)
    /\ ctl \notin {"done", "over"} => outcome = "none"
    /\ Waiting => brmax <= Len(mem)

(* What FormParts calls a part that is recorded. *)
LEMMA RecordedIs == \A label : Parts!Recorded(label) <=> Has(params, uploads, label)
BY DEF Parts!Recorded, Has, Stored

(* A step that stores nothing records nothing, also of the next part. *)
LEMMA KeptRecording ==
    ASSUME Kept, ~fd_upload, NEW i \in Nat, Unread(i)
    PROVE  Recording(i)' /\ Recording(i + 1)' /\ UNCHANGED Parts!vars
<1>1. UNCHANGED Parts!vars
  BY DEF Kept, Parts!vars, Stored
<1>2. Unread(i)' /\ Unread(i + 1)'
  <2>1. Unread(i)'
    BY DEF Kept, Unread, Parted, PartAt
  <2>2. Unread(i + 1)'
    BY <2>1 DEF Unread, Kept, Parted
  <2> QED BY <2>1, <2>2
<1> QED BY <1>1, <1>2 DEF Recording, Kept
(* What a write() of n bytes into the upload changes. *)
Extended(n) ==
    /\ uploads' \in Seq(Uploads) /\ Len(uploads') = Len(uploads)
    /\ \A k \in 1..Len(uploads) : /\ uploads'[k].name = uploads[k].name
                                  /\ k # upfile \/ ~fd_upload => uploads'[k].data = uploads[k].data
                                  /\ k # upfile => uploads'[k] = uploads[k]
    /\ upfile \in 1..Len(uploads) =>
         /\ fd_upload => uploads'[upfile].data = uploads[upfile].data \o SubSeq(data, 1, n)
         /\ uploads'[upfile].bytes = Counted(Result(n))
         /\ uploads[upfile].linked /\ Counted(Result(n)) # 0 => uploads'[upfile].linked

(* Setting a part of one upload. *)
SetsOne(u, w, i) ==
    /\ Len(w) = Len(u)
    /\ \A k \in 1..Len(u) : w[k].name = u[k].name /\ (k # i => w[k] = u[k])
IsTwo(w, u, i, b, c) == w = [u EXCEPT ![i].data = b, ![i].bytes = c]
IsThree(w, u, i, b, c, l) == w = [u EXCEPT ![i].data = b, ![i].bytes = c, ![i].linked = l]
(* A write changes the data and the count of one upload. *)
LEMMA SetTwo ==
    ASSUME NEW u \in Seq(Uploads), NEW i \in 1..Len(u), NEW b, NEW c, NEW w, IsTwo(w, u, i, b, c)
    PROVE  SetsOne(u, w, i) /\ w[i].data = b /\ w[i].bytes = c /\ w[i].linked = u[i].linked
<1>1. u[i] \in [name : Names \cup {"", "[body]"}, data : Seq(STRING), bytes : Int, linked : BOOLEAN]
  BY ElementOfSeq DEF Uploads
<1>2. DOMAIN u = 1..Len(u) /\ Len(u) \in Nat
  BY LenProperties
<1>3. w[i].data = b /\ w[i].bytes = c /\ w[i].linked = u[i].linked /\ w[i].name = u[i].name
  BY <1>1, <1>2 DEF IsTwo
<1>4. \A k \in 1..Len(u) : k # i => w[k] = u[k]
  BY <1>2 DEF IsTwo
<1>5. Len(w) = Len(u)
  BY <1>2 DEF IsTwo
<1> QED BY <1>3, <1>4, <1>5 DEF SetsOne

(* The last write also whether it is linked. *)
LEMMA SetThree ==
    ASSUME NEW u \in Seq(Uploads), NEW i \in 1..Len(u), NEW b, NEW c, NEW l, NEW w,
           IsThree(w, u, i, b, c, l)
    PROVE  SetsOne(u, w, i) /\ w[i].data = b /\ w[i].bytes = c /\ w[i].linked = l
<1>1. u[i] \in [name : Names \cup {"", "[body]"}, data : Seq(STRING), bytes : Int, linked : BOOLEAN]
  BY ElementOfSeq DEF Uploads
<1>2. DOMAIN u = 1..Len(u) /\ Len(u) \in Nat
  BY LenProperties
<1>3. w[i].data = b /\ w[i].bytes = c /\ w[i].linked = l /\ w[i].name = u[i].name
  BY <1>1, <1>2 DEF IsThree
<1>4. \A k \in 1..Len(u) : k # i => w[k] = u[k]
  BY <1>2 DEF IsThree
<1>5. Len(w) = Len(u)
  BY <1>2 DEF IsThree
<1> QED BY <1>3, <1>4, <1>5 DEF SetsOne

(* What is in the file after that. *)
LEMMA ResultType ==
    ASSUME Inv, NEW n \in 0..dlen
    PROVE  /\ Result(n) \in -1..dlen
           /\ \A bytes : Appended(bytes, Result(n)) = IF fd_upload THEN bytes \o SubSeq(data, 1, n) ELSE bytes
<1>1. dlen \in Nat /\ n \in Nat /\ n <= dlen
  BY DataType DEF Inv
<1>2. CASE fd_upload
  BY <1>1, <1>2 DEF Result, Appended
<1>3. CASE ~fd_upload
  BY <1>1, <1>3 DEF Result, Appended
<1> QED BY <1>2, <1>3

(* A write extends the upload by what was written. *)
LEMMA WriteExtends ==
    ASSUME Inv, NEW n \in 0..dlen, WriteUpload(Result(n))
    PROVE  Extended(n)
<1>1. uploads \in Seq(Uploads) /\ DOMAIN uploads = 1..Len(uploads) /\ fd_upload \in BOOLEAN
  BY LenProperties DEF Inv, FileInv
<1>2. uploads' \in Seq(Uploads) /\ Len(uploads') = Len(uploads)
  BY ResultType, WriteUploadType
<1>3. CASE upfile \notin 1..Len(uploads)
  BY <1>1, <1>2, <1>3 DEF WriteUpload, Extended
<1>4. CASE upfile \in 1..Len(uploads)
  <2>1. PICK b, c : /\ b = (IF fd_upload THEN uploads[upfile].data \o SubSeq(data, 1, n) ELSE uploads[upfile].data)
                    /\ c = Counted(Result(n))
                    /\ uploads' = [uploads EXCEPT ![upfile].data = b, ![upfile].bytes = c]
    BY <1>1, <1>4, ResultType DEF WriteUpload
  <2>2. /\ SetsOne(uploads, uploads', upfile) /\ uploads'[upfile].data = b /\ uploads'[upfile].bytes = c
        /\ uploads'[upfile].linked = uploads[upfile].linked
    <3>1. PICK u, i : u \in Seq(Uploads) /\ i \in 1..Len(u) /\ u = uploads /\ i = upfile
      BY <1>1, <1>4
    <3>2. PICK w : w = uploads' /\ IsTwo(w, u, i, b, c)
      BY <2>1, <3>1 DEF IsTwo
    <3>3. SetsOne(u, w, i) /\ w[i].data = b /\ w[i].bytes = c /\ w[i].linked = u[i].linked
      BY <3>1, <3>2, SetTwo
    <3> QED BY <3>1, <3>2, <3>3
  <2> QED BY <1>2, <1>4, <2>1, <2>2 DEF Extended, SetsOne
<1> QED BY <1>3, <1>4

(* So does the write that ends the file. *)
LEMMA EndExtends ==
    ASSUME Inv, NEW n \in 0..dlen, EndUpload(Result(n))
    PROVE  Extended(n)
<1>1. uploads \in Seq(Uploads) /\ DOMAIN uploads = 1..Len(uploads) /\ fd_upload \in BOOLEAN
  BY LenProperties DEF Inv, FileInv
<1>2. uploads' \in Seq(Uploads) /\ Len(uploads') = Len(uploads)
  BY ResultType, FileEndType
<1>3. CASE upfile \notin 1..Len(uploads)
  BY <1>1, <1>2, <1>3 DEF EndUpload, Extended
<1>4. CASE upfile \in 1..Len(uploads)
  <2>1. PICK b, c, l :
          /\ b = (IF fd_upload THEN uploads[upfile].data \o SubSeq(data, 1, n) ELSE uploads[upfile].data)
          /\ c = Counted(Result(n)) /\ l = (uploads[upfile].linked /\ Counted(Result(n)) # 0)
          /\ uploads' = [uploads EXCEPT ![upfile].data = b, ![upfile].bytes = c, ![upfile].linked = l]
    BY <1>1, <1>4, ResultType DEF EndUpload
  <2>2. /\ SetsOne(uploads, uploads', upfile) /\ uploads'[upfile].data = b /\ uploads'[upfile].bytes = c
        /\ uploads'[upfile].linked = l
    <3>1. PICK u, i : u \in Seq(Uploads) /\ i \in 1..Len(u) /\ u = uploads /\ i = upfile
      BY <1>1, <1>4
    <3>2. PICK w : w = uploads' /\ IsThree(w, u, i, b, c, l)
      BY <2>1, <3>1 DEF IsThree
    <3>3. SetsOne(u, w, i) /\ w[i].data = b /\ w[i].bytes = c /\ w[i].linked = l
      BY <3>1, <3>2, SetThree
    <3> QED BY <3>1, <3>2, <3>3
  <2> QED BY <1>2, <1>4, <2>1, <2>2 DEF Extended, SetsOne
<1> QED BY <1>3, <1>4
(* Parts that are stored have names of their own. *)
LEMMA NamesDiffer ==
    ASSUME NEW f, Laid(f), NEW i \in 1..Len(f.parts), NEW j \in 1..Len(f.parts), i # j,
           f.parts[i].kind \in {"field", "file"}
    PROVE  f.parts[j].name # f.parts[i].name
BY DEF Laid, LaidOut

(* A write() gives no upload another name. *)
LEMMA SameUnread ==
    ASSUME FileInv, form' = form, params' = params, NEW n, Extended(n), NEW i \in Nat, Unread(i)
    PROVE  Unread(i)' /\ Unread(i + 1)'
<1>1. DOMAIN uploads = 1..Len(uploads) /\ DOMAIN uploads' = 1..Len(uploads)
  BY LenProperties DEF FileInv, Extended
<1>2. \A label : Has(params', uploads', label) => Has(params, uploads, label)
  BY <1>1 DEF Has, Extended
<1>3. Unread(i)'
  BY <1>2 DEF Unread, PartAt, Parted
<1>4. i + 1..Parted' \subseteq i..Parted'
  OBVIOUS
<1> QED BY <1>3, <1>4 DEF Unread

(* What the uploads are to FormParts. *)
Pairs(u) == [k \in DOMAIN u |-> [name |-> u[k].name, data |-> u[k].data]]
Stores == [name : Names \cup {"", "[body]"}, data : Seq(STRING)]
(* One for each upload, of its name and its data. *)
LEMMA PairsOf ==
    ASSUME NEW u \in Seq(Uploads)
    PROVE  /\ Pairs(u) \in Seq(Stores) /\ Len(Pairs(u)) = Len(u) /\ Len(u) \in Nat
           /\ \A k \in 1..Len(u) : Pairs(u)[k] = [name |-> u[k].name, data |-> u[k].data]
<1>1. DOMAIN u = 1..Len(u) /\ Len(u) \in Nat
  BY LenProperties
<1>2. \A k \in 1..Len(u) : u[k] \in [name : Names \cup {"", "[body]"}, data : Seq(STRING), bytes : Int, linked : BOOLEAN]
  BY ElementOfSeq DEF Uploads
<1>3. \A k \in 1..Len(u) : [name |-> u[k].name, data |-> u[k].data] \in Stores
  BY <1>2 DEF Stores
<1>4. Pairs(u) \in [1..Len(u) -> Stores]
  BY <1>1, <1>3 DEF Pairs
<1> QED BY <1>1, <1>4 DEF Pairs

(* A file that was added. *)
IsAppended(T, w, s, e) ==
    w \in Seq(T) /\ Len(w) = Len(s) + 1 /\ w[Len(s) + 1] = e /\ \A k \in 1..Len(s) : w[k] = s[k]
(* What stands where in the list then. *)
LEMMA AppendIs ==
    ASSUME NEW T, NEW s \in Seq(T), NEW e \in T PROVE IsAppended(T, Append(s, e), s, e)
BY AppendProperties DEF IsAppended

(* An upload added is one added for FormParts. *)
LEMMA PairsAppend ==
    ASSUME NEW u \in Seq(Uploads), NEW e \in Uploads
    PROVE  Pairs(Append(u, e)) = Append(Pairs(u), [name |-> e.name, data |-> e.data])
<1>1. PICK w : w = Append(u, e) /\ w \in Seq(Uploads) /\ Len(w) = Len(u) + 1 /\ w[Len(u) + 1] = e
               /\ \A k \in 1..Len(u) : w[k] = u[k]
  <2>1. IsAppended(Uploads, Append(u, e), u, e)
    BY AppendIs
  <2> QED BY <2>1 DEF IsAppended
<1>2. PICK x \in Stores : x = [name |-> e.name, data |-> e.data]
  BY DEF Uploads, Stores
<1>3. PICK p \in Seq(Stores), q \in Seq(Stores) :
         /\ p = Pairs(u) /\ q = Pairs(w) /\ Len(p) = Len(u) /\ Len(q) = Len(u) + 1 /\ Len(u) \in Nat
         /\ \A k \in 1..Len(u) : p[k] = [name |-> u[k].name, data |-> u[k].data]
         /\ \A k \in 1..Len(u) + 1 : q[k] = [name |-> w[k].name, data |-> w[k].data]
  <2>1. /\ Pairs(u) \in Seq(Stores) /\ Len(Pairs(u)) = Len(u) /\ Len(u) \in Nat
        /\ \A k \in 1..Len(u) : Pairs(u)[k] = [name |-> u[k].name, data |-> u[k].data]
    BY PairsOf
  <2>2. w \in Seq(Uploads)
    BY <1>1
  <2>3. /\ Pairs(w) \in Seq(Stores) /\ Len(Pairs(w)) = Len(w)
        /\ \A k \in 1..Len(w) : Pairs(w)[k] = [name |-> w[k].name, data |-> w[k].data]
    BY <2>2, PairsOf
  <2> QED BY <1>1, <2>1, <2>3
<1>4. PICK a \in Seq(Stores) : a = Append(p, x) /\ Len(a) = Len(u) + 1 /\ a[Len(u) + 1] = x
                               /\ \A k \in 1..Len(u) : a[k] = p[k]
  <2>1. IsAppended(Stores, Append(p, x), p, x)
    BY <1>2, AppendIs
  <2> QED BY <1>3, <2>1 DEF IsAppended
<1>5. \A k \in 1..Len(u) + 1 : q[k] = a[k]
  <2> TAKE k \in 1..Len(u) + 1
  <2>1. CASE k = Len(u) + 1
    BY <1>1, <1>2, <1>3, <1>4, <2>1
  <2>2. CASE k \in 1..Len(u)
    <3>1. q[k] = [name |-> w[k].name, data |-> w[k].data]
      BY <1>3
    <3>2. w[k] = u[k]
      BY <1>1, <2>2
    <3>3. p[k] = [name |-> u[k].name, data |-> u[k].data]
      BY <1>3, <2>2
    <3>4. a[k] = p[k]
      BY <1>4, <2>2
    <3> QED BY <3>1, <3>2, <3>3, <3>4
  <2> QED BY <1>3, <2>1, <2>2
<1>6. q = a
  BY <1>3, <1>4, <1>5, SeqEqual
<1> QED BY <1>1, <1>2, <1>3, <1>4, <1>6

(* A file that was made is empty. *)
LEMMA EmptyUpload ==
    ASSUME NEW label \in Names
    PROVE  [name |-> label, data |-> <<>>, bytes |-> 0, linked |-> TRUE] \in Uploads
<1>1. label \in Names \cup {"", "[body]"}
  OBVIOUS
<1>2. <<>> \in Seq(STRING)
  BY EmptySeq
<1>3. 0 \in Int /\ TRUE \in BOOLEAN
  OBVIOUS
<1> QED BY <1>1, <1>2, <1>3, UploadMade

(* A file that is made is one more part that is recorded. *)
LEMMA CreateRecords ==
    ASSUME Inv, Laid(form), NEW i \in 1..Parted, PartAt(i).kind = "file", name = PartAt(i).name,
           ~fd_upload, Unread(i), createXferFile(name), name \in Names,
           form' = form, params' = params, mp_state' = "FILEDATA", Pos' = ValueAt(form, i)
    PROVE  Recording(i)' /\ [Parts!Next]_(Parts!vars)
<1>1. /\ form \in Forms /\ Parted = Len(form.parts) /\ Parted \in Nat /\ i \in 1..Len(form.parts)
      /\ uploads \in Seq(Uploads) /\ Len(uploads) \in Nat /\ DOMAIN uploads = 1..Len(uploads)
  BY LayoutType, LenProperties DEF Inv, ChunkInv, FileInv, Parted
<1>2. CASE UNCHANGED <<uploads, fd_upload>>
  <2>1. UNCHANGED Parts!vars
    BY <1>2 DEF Parts!vars, Stored
  <2>2. Unread(i)'
    BY <1>2 DEF Unread, Parted, PartAt
  <2> QED BY <1>2, <2>1, <2>2 DEF Recording
<1>3. CASE /\ uploads' = Append(uploads, [name |-> name, data |-> <<>>, bytes |-> 0, linked |-> TRUE])
           /\ upfile' = Len(uploads) + 1 /\ fd_upload' = TRUE
  <2>1. PICK e \in Uploads : e = [name |-> name, data |-> <<>>, bytes |-> 0, linked |-> TRUE]
                             /\ e.name = name /\ e.data = <<>>
    <3>1. PICK label \in Names : label = name
      OBVIOUS
    <3>2. [name |-> label, data |-> <<>>, bytes |-> 0, linked |-> TRUE] \in Uploads
      BY EmptyUpload
    <3> QED BY <3>1, <3>2
  <2>2. uploads' = Append(uploads, e) /\ uploads' \in Seq(Uploads) /\ Len(uploads') = Len(uploads) + 1
        /\ uploads'[Len(uploads) + 1] = e /\ \A k \in 1..Len(uploads) : uploads'[k] = uploads[k]
    BY <1>1, <1>3, <2>1, AppendProperties
  <2>3. DOMAIN uploads' = 1..Len(uploads) + 1
    BY <2>2, LenProperties
  <2>4. Growing(i)'
    <3>1. upfile' = Len(uploads') /\ uploads' # <<>>
      BY <1>1, <1>3, <2>2, EmptySeq
    <3>2. uploads'[upfile'].name = PartAt(i)'.name /\ uploads'[upfile'].data = <<>>
      BY <1>3, <2>1, <2>2 DEF PartAt
    <3>3. Pos' - ValueAt(form, i)' = 0
      <4>1. ValueAt(form, i) \in Nat /\ ValueAt(form, i)' = ValueAt(form, i)
        BY <1>1, LayoutType DEF IsPlaced
      <4> QED BY <4>1
    <3>4. SubSeq(PartAt(i)'.value, 1, 0) = <<>>
      BY <1>1, LayoutType DEF IsPlaced, PartAt
    <3> QED BY <3>1, <3>2, <3>3, <3>4 DEF Growing
  <2>5. Unread(i + 1)'
    <3>1. ASSUME NEW j \in i + 1..Parted PROVE ~Has(params', uploads', PartAt(j).name)
      <4>1. j \in i..Parted /\ j # i /\ j \in 1..Len(form.parts)
        BY <1>1
      <4>2. ~Has(params, uploads, PartAt(j).name)
        BY <4>1 DEF Unread
      <4>3. PartAt(j).name # name
        BY <1>1, <4>1, NamesDiffer DEF PartAt
      <4> QED BY <1>1, <2>1, <2>2, <2>3, <4>2, <4>3 DEF Has
    <3> QED BY <3>1 DEF Unread, Parted, PartAt
  <2>6. Parts!AddFile
    <3>1. i \in DOMAIN form.parts /\ form.parts[i].kind \in {"file", "body"}
      BY <1>1, LenProperties DEF PartAt, Laid
    <3>2. Parts!IsNext(i)
      BY <1>1, RecordedIs DEF Parts!IsNext, Unread, Parted, PartAt
    <3>3. 0 \in 0..Len(form.parts[i].value) /\ SubSeq(form.parts[i].value, 1, 0) = <<>>
      BY <1>1, LayoutType DEF IsPlaced, PartAt
    <3>4. Stored' = Append(Stored, [name |-> form.parts[i].name, data |-> SubSeq(form.parts[i].value, 1, 0)])
      <4>1. Pairs(Append(uploads, e)) = Append(Pairs(uploads), [name |-> e.name, data |-> e.data])
        <5>1. PICK u : u = uploads /\ u \in Seq(Uploads)
          BY <1>1
        <5>2. Pairs(Append(u, e)) = Append(Pairs(u), [name |-> e.name, data |-> e.data])
          BY <5>1, PairsAppend
        <5> QED BY <5>1, <5>2
      <4>2. Stored = Pairs(uploads) /\ Stored' = Pairs(uploads')
        BY DEF Stored, Pairs
      <4> QED BY <2>1, <2>2, <3>3, <4>1, <4>2 DEF PartAt
    <3> QED BY <3>1, <3>2, <3>3, <3>4 DEF Parts!AddFile
  <2> QED BY <1>3, <2>4, <2>5, <2>6 DEF Recording, Parts!Next
<1> QED BY <1>2, <1>3 DEF createXferFile
(* A file of which more has been written. *)
SetsData(p, u, i, b) == p = [Pairs(u) EXCEPT ![i].data = b]
(* An upload of which the data changed is one changed for FormParts. *)
LEMMA PairsSet ==
    ASSUME NEW u \in Seq(Uploads), NEW w \in Seq(Uploads), Len(w) = Len(u), NEW i \in 1..Len(u), NEW b,
           \A k \in 1..Len(u) : w[k].name = u[k].name /\ (k # i => w[k].data = u[k].data),
           w[i].data = b
    PROVE  SetsData(Pairs(w), u, i, b)
<1>1. PICK p \in Seq(Stores), q \in Seq(Stores) :
         /\ p = Pairs(u) /\ q = Pairs(w) /\ Len(p) = Len(u) /\ Len(q) = Len(u) /\ Len(u) \in Nat
         /\ \A k \in 1..Len(u) : p[k] = [name |-> u[k].name, data |-> u[k].data]
         /\ \A k \in 1..Len(u) : q[k] = [name |-> w[k].name, data |-> w[k].data]
  <2>1. /\ Pairs(u) \in Seq(Stores) /\ Len(Pairs(u)) = Len(u) /\ Len(u) \in Nat
        /\ \A k \in 1..Len(u) : Pairs(u)[k] = [name |-> u[k].name, data |-> u[k].data]
    BY PairsOf
  <2>2. /\ Pairs(w) \in Seq(Stores) /\ Len(Pairs(w)) = Len(w)
        /\ \A k \in 1..Len(w) : Pairs(w)[k] = [name |-> w[k].name, data |-> w[k].data]
    BY PairsOf
  <2> QED BY <2>1, <2>2
<1>2. p \in [1..Len(u) -> Stores] /\ q \in [1..Len(u) -> Stores]
  BY <1>1, LenProperties
<1>3. \A k \in 1..Len(u) : k # i => q[k] = p[k]
  BY <1>1
<1>4. p[i] = [name |-> u[i].name, data |-> u[i].data] /\ q[i] = [name |-> u[i].name, data |-> b]
  BY <1>1
<1>5. q[i] = [p[i] EXCEPT !.data = b]
  BY <1>4
<1>6. q = [p EXCEPT ![i].data = b]
  BY <1>2, <1>3, <1>5
<1> QED BY <1>1, <1>6 DEF SetsData

(* A piece that is written to the file that grows. *)
LEMMA GrowRecords ==
    ASSUME Inv, Synced, Laid(form), NEW i \in 1..Parted, InFile(i), fd_upload, Growing(i),
           NEW m \in Nat, m <= dlen, Pos + m <= form.at[i + 1], Extended(m), form' = form, params' = params
    PROVE  /\ uploads'[upfile].data = SubSeq(PartAt(i).value, 1, Pos + m - ValueAt(form, i))
           /\ uploads'[upfile].name = PartAt(i).name
           /\ uploads' # <<>> /\ upfile = Len(uploads')
           /\ SetsData(Stored', uploads, upfile, SubSeq(PartAt(i).value, 1, Pos + m - ValueAt(form, i)))
           /\ Unread(i + 1) => Unread(i + 1)' /\ [Parts!Next]_(Parts!vars)
<1>1. /\ form \in Forms /\ Parted = Len(form.parts) /\ Parted \in Nat /\ i \in 1..Len(form.parts) /\ i \in Nat
      /\ ChunkInv /\ FileInv /\ i + 1 \in Nat
  BY LayoutType DEF Inv, ChunkInv, Parted
<1>2. PICK N, u, w : /\ N \in Nat /\ u \in Seq(Uploads) /\ w \in Seq(Uploads) /\ u = uploads /\ w = uploads'
                     /\ N = Len(u) /\ Len(w) = N /\ N > 0 /\ upfile = N
                     /\ DOMAIN u = 1..N
  <2>1. uploads \in Seq(Uploads) /\ uploads' \in Seq(Uploads) /\ Len(uploads') = Len(uploads)
    BY <1>1 DEF FileInv, Extended
  <2>2. Len(uploads) \in Nat /\ DOMAIN uploads = 1..Len(uploads) /\ Len(uploads) # 0
    BY <2>1, LenProperties, EmptySeq DEF Growing
  <2> QED BY <2>1, <2>2 DEF Growing
<1>3. PICK k \in Nat : Pos = ValueAt(form, i) + k
  <2>1. PICK p \in Nat, v \in Nat : p = Pos /\ v = ValueAt(form, i)
    BY <1>1, SyncedData, LayoutType DEF IsPlaced
  <2>2. v <= p
    BY <2>1 DEF InFile
  <2>3. p - v \in Nat /\ p = v + (p - v)
    BY <2>1, <2>2
  <2> QED BY <2>1, <2>3
<1>4. PICK v \in Seq(STRING) : /\ v = PartAt(i).value /\ Continues(v, k, data, m)
                               /\ k + m <= Len(v) /\ Len(SubSeq(v, 1, k + m)) = k + m /\ Len(v) \in Nat
  <2>1. /\ Continues(PartAt(i).value, k, data, m)
        /\ k + m <= Len(PartAt(i).value) /\ PartAt(i).value \in Seq(STRING)
        /\ Len(SubSeq(PartAt(i).value, 1, k + m)) = k + m
    BY <1>1, <1>3, TakesOn
  <2>2. Len(PartAt(i).value) \in Nat
    BY <2>1, LenProperties
  <2> QED BY <2>1, <2>2
<1>5. Pos - ValueAt(form, i) = k /\ Pos + m - ValueAt(form, i) = k + m
  <2>1. PICK p \in Nat, q \in Nat : p = Pos /\ q = ValueAt(form, i) /\ p = q + k
    BY <1>1, <1>3, SyncedData, LayoutType DEF IsPlaced
  <2>2. p - q = k /\ p + m - q = k + m
    BY <2>1
  <2> QED BY <2>1, <2>2
<1>6. u[N].data = SubSeq(v, 1, k) /\ u[N].name = PartAt(i).name /\ Len(SubSeq(v, 1, k)) = k
  <2>1. k <= Len(v)
    BY <1>4
  <2> QED BY <1>2, <1>4, <1>5, <2>1 DEF Growing
<1>7. w[N].data = SubSeq(v, 1, k + m) /\ w[N].name = PartAt(i).name
      /\ \A j \in 1..N : w[j].name = u[j].name /\ (j # N => w[j].data = u[j].data)
  <2>1. N \in 1..N
    BY <1>2
  <2> QED BY <1>2, <1>4, <1>6, <2>1 DEF Continues, Extended
<1>8. Unread(i + 1) => Unread(i + 1)'
  BY <1>1, SameUnread
<1>9. SetsData(Stored', u, N, SubSeq(v, 1, k + m)) /\ Stored = Pairs(u) /\ Len(Stored) = N /\ Stored \in Seq(Stores)
  <2>1. Stored = Pairs(u) /\ Stored' = Pairs(w)
    BY <1>2 DEF Stored, Pairs
  <2>2. N \in 1..Len(u)
    BY <1>2
  <2>3. SetsData(Pairs(w), u, N, SubSeq(v, 1, k + m))
    BY <1>2, <1>7, <2>2, PairsSet
  <2>4. Len(Pairs(u)) = N /\ Pairs(u) \in Seq(Stores)
    BY <1>2, PairsOf
  <2> QED BY <2>1, <2>3, <2>4
<1>10. Stored[N] = [name |-> u[N].name, data |-> u[N].data]
  BY <1>2 DEF Stored
<1>11. ASSUME m = 0 PROVE UNCHANGED Parts!vars
  <2>1. SubSeq(v, 1, k + m) = Stored[N].data
    BY <1>6, <1>10, <1>11
  <2>2. Stored' = Stored
    <3>1. Stored' = [Stored EXCEPT ![N].data = Stored[N].data]
      BY <1>9, <2>1 DEF SetsData
    <3>2. [Stored[N] EXCEPT !.data = Stored[N].data] = Stored[N]
      BY <1>10
    <3>3. Stored' = [Stored EXCEPT ![N] = Stored[N]]
      BY <3>1, <3>2
    <3>4. DOMAIN Stored = 1..N
      BY <1>2 DEF Stored
    <3> QED BY <1>2, <3>3, <3>4 DEF Stored
  <2> QED BY <2>2 DEF Parts!vars
<1>12. ASSUME m > 0, Unread(i + 1) PROVE Parts!Next
  <2>1. Parts!Grow
    <3>1. Stored # <<>>
      BY <1>2, <1>9, EmptySeq
    <3>2. Parts!IsLast(i)
      <4>1. Has(params, uploads, form.parts[i].name)
        BY <1>2, <1>6 DEF Has, PartAt
      <4>2. \A j \in i + 1..Len(form.parts) : ~Has(params, uploads, form.parts[j].name)
        BY <1>12 DEF Unread, PartAt, Parted
      <4> QED BY <4>1, <4>2, RecordedIs DEF Parts!IsLast
    <3>3. k + m \in Len(Stored[N].data) + 1..Len(form.parts[i].value)
      <4>1. Len(Stored[N].data) = k
        BY <1>6, <1>10
      <4> QED BY <1>4, <1>12, <4>1 DEF PartAt
    <3>4. i \in DOMAIN form.parts /\ form.parts[i].name = Stored[N].name
      BY <1>1, <1>6, <1>10, LenProperties DEF PartAt, Laid
    <3>5. Stored' = [Stored EXCEPT ![N].data = SubSeq(form.parts[i].value, 1, k + m)]
      BY <1>4, <1>9 DEF SetsData, PartAt
    <3>6. UNCHANGED <<form.parts, params>>
      OBVIOUS
    <3> QED BY <1>9, <3>1, <3>2, <3>3, <3>4, <3>5, <3>6 DEF Parts!Grow
  <2> QED BY <2>1 DEF Parts!Next
<1>13. Unread(i + 1) => [Parts!Next]_(Parts!vars)
  BY <1>11, <1>12
<1>14. uploads' # <<>> /\ upfile = Len(uploads')
  BY <1>2, EmptySeq
<1>15. SetsData(Stored', uploads, upfile, SubSeq(PartAt(i).value, 1, Pos + m - ValueAt(form, i)))
  BY <1>2, <1>4, <1>5, <1>9
<1> QED BY <1>2, <1>4, <1>5, <1>7, <1>8, <1>13, <1>14, <1>15
-----------------------------------------------------------------------------
(* What a step must do while a form is read.                                *)
Follows == /\ Waiting' => Synced' /\ ((Full /\ ~fd_upload)' \/ Found')
           /\ [Parts!Next]_(Parts!vars)

(* Nothing is stored, and the next place is in this part or the next one.   *)
LEMMA KeptFollows ==
    ASSUME Kept, ~fd_upload, NEW i \in 1..Parted + 1, Unread(i), Parted \in Nat,
           Waiting' => Synced' /\ (Where(i)' \/ (i \in 1..Parted /\ Where(i + 1)'))
    PROVE  Follows
<1>1. i \in Nat /\ Recording(i)' /\ Recording(i + 1)' /\ UNCHANGED Parts!vars
  BY KeptRecording
<1>2. Parted' = Parted
  BY DEF Kept, Parted
<1>3. Where(i)' => Found'
  BY <1>1, <1>2 DEF Found
<1>4. i \in 1..Parted /\ Where(i + 1)' => Found'
  <2>1. i \in 1..Parted => i + 1 \in 1..Parted' + 1
    BY <1>2
  <2> QED BY <1>1, <2>1 DEF Found
<1> QED BY <1>1, <1>3, <1>4 DEF Follows

(* A step between the parts. *)
LEMMA BeginFollows ==
    ASSUME Inv, Synced, Laid(form), NEW i \in 1..Parted + 1, InBegin(i), ~fd_upload, Unread(i),
           SkipToBoundary \/ FindBoundary
    PROVE  Follows
<1>1. ChunkInv /\ Parted \in Nat
  BY LayoutType DEF Inv, ChunkInv, Parted
<1>2. CASE SkipToBoundary
  BY <1>1, <1>2, SkipToBoundaryMoves, KeptFollows DEF Where
<1>3. CASE FindBoundary
  BY <1>1, <1>3, FindBoundaryMoves, KeptFollows DEF Where
<1> QED BY <1>2, <1>3

(* A step in the first line of a head. *)
LEMMA HeaderFollows ==
    ASSUME Inv, Synced, Laid(form), NEW i \in 1..Parted + 1, InHeader(i), ~fd_upload, Unread(i),
           HeaderCut \/ HeaderTorn \/ Header
    PROVE  Follows
<1>1. ChunkInv /\ Parted \in Nat /\ i \in 1..Parted
  BY LayoutType DEF Inv, ChunkInv, Parted, InHeader
<1>2. CASE HeaderCut
  BY <1>1, <1>2, HeaderCutMoves, KeptFollows DEF Where
<1>3. CASE HeaderTorn
  <2>1. Kept /\ ~Waiting'
    BY <1>3 DEF HeaderTorn, Kept, Waiting
  <2> QED BY <1>1, <2>1, KeptFollows
<1>4. CASE Header
  <2>1. Kept
    BY <1>4 DEF Header, Consume, Throw, Kept
  <2>2. Waiting' => Synced' /\ (InBegin(i + 1) \/ InType(i) \/ InField(i))'
    BY <1>1, <1>4, HeaderMoves
  <2> QED BY <1>1, <2>1, <2>2, KeptFollows DEF Where
<1> QED BY <1>2, <1>3, <1>4

(* A step behind that line: perhaps a file is made. *)
LEMMA FileTypeFollows ==
    ASSUME Inv, Synced, Laid(form), NEW i \in 1..Parted + 1, InType(i), ~fd_upload, Unread(i),
           FileTypeCut \/ FileType
    PROVE  Follows
<1>1. ChunkInv /\ Parted \in Nat /\ i \in 1..Parted
  BY LayoutType DEF Inv, ChunkInv, Parted, InType
<1>2. CASE FileTypeCut
  BY <1>1, <1>2, FileTypeCutMoves, KeptFollows DEF Where
<1>3. CASE FileType
  <2>1. /\ form' = form /\ Synced' /\ params' = params /\ Pos' = ValueAt(form, i)
        /\ \/ mp_state' = "BEGIN" /\ Kept /\ InBegin(i + 1)'
           \/ mp_state' = "FILEDATA" /\ createXferFile(name) /\ InFile(i)'
    BY <1>1, <1>3, FileTypeMoves
  <2>2. CASE Kept /\ InBegin(i + 1)'
    BY <1>1, <2>1, <2>2, KeptFollows DEF Where
  <2>3. CASE mp_state' = "FILEDATA" /\ createXferFile(name) /\ InFile(i)'
    <3>1. PartAt(i).kind = "file" /\ name = PartAt(i).name /\ name \in Names
      BY DEF InType, Inv, ValueInv
    <3>2. Recording(i)' /\ [Parts!Next]_(Parts!vars)
      BY <1>1, <2>1, <2>3, <3>1, CreateRecords
    <3>3. i \in 1..Parted' + 1
      BY <2>1 DEF Parted
    <3> QED BY <2>1, <2>3, <3>2, <3>3 DEF Follows, Found, Where
  <2> QED BY <2>1, <2>2, <2>3
<1> QED BY <1>2, <1>3

(* What is written where no file is open is lost.                           *)
LEMMA LostWrite ==
    ASSUME FileInv, ~fd_upload, NEW n, Extended(n), form' = form, params' = params
    PROVE  UNCHANGED Parts!vars
<1>1. PICK N, u, w : /\ N \in Nat /\ u \in Seq(Uploads) /\ w \in Seq(Uploads) /\ u = uploads /\ w = uploads'
                     /\ Len(u) = N /\ Len(w) = N /\ DOMAIN u = 1..N /\ DOMAIN w = 1..N
  <2>1. uploads \in Seq(Uploads) /\ uploads' \in Seq(Uploads) /\ Len(uploads') = Len(uploads)
    BY DEF FileInv, Extended
  <2> QED BY <2>1, LenProperties
<1>2. \A k \in 1..N : w[k].name = u[k].name /\ w[k].data = u[k].data
  BY <1>1 DEF Extended
<1>3. Stored' = Stored
  BY <1>1, <1>2 DEF Stored
<1> QED BY <1>3 DEF Parts!vars
(* A step in the data of a file. *)
LEMMA FileFollows ==
    ASSUME Inv, Synced, Laid(form), NEW i \in 1..Parted + 1, InFile(i), Recording(i),
           FileDataCut \/ FileDataMore \/ FileDataEnd, "unwritten" \notin slips'
    PROVE  Follows
<1>1. /\ ChunkInv /\ FileInv /\ Parted \in Nat /\ i \in 1..Parted /\ i \in Nat /\ i + 1 \in Nat
      /\ i \in 1..Parted + 1 /\ i + 1 \in 1..Parted + 1 /\ mp_state = "FILEDATA"
  BY LayoutType DEF Inv, ChunkInv, Parted, InFile
<1>2. CASE FileDataCut
  <2>1. Kept /\ Waiting' /\ Synced' /\ InFile(i)' /\ Pos' = Pos
    BY <1>1, <1>2, FileDataCutMoves
  <2>2. CASE ~fd_upload
    <3>1. Unread(i)
      BY <2>2 DEF Recording
    <3> QED BY <1>1, <2>1, <2>2, <3>1, KeptFollows DEF Where
  <2>3. CASE fd_upload
    <3>1. Growing(i)'
      BY <2>1, <2>3 DEF Recording, Growing, Kept, InFile, PartAt, ValueAt, HeadAt
    <3>2. Unread(i + 1)'
      BY <2>1, <2>3 DEF Recording, Unread, Kept, Parted, PartAt
    <3>3. UNCHANGED Parts!vars
      BY <2>1 DEF Kept, Parts!vars, Stored
    <3>4. i \in 1..Parted' + 1 /\ fd_upload'
      BY <1>1, <2>1, <2>3 DEF Kept, Parted
    <3> QED BY <2>1, <3>1, <3>2, <3>3, <3>4 DEF Follows, Found, Where, Recording
  <2> QED BY <2>2, <2>3
<1>3. CASE FileDataMore
  <2>1. /\ UNCHANGED <<form, name, params, upfile, fd_upload, slips>>
        /\ WriteUpload(Result(Searched))
        /\ Waiting' => Synced' /\ outcome' = outcome /\ InFile(i)'
        /\ fd_upload =>
             /\ Searched \in Nat /\ Searched <= dlen
             /\ Waiting' /\ Hungry' /\ Pos' = Pos + Searched
             /\ form.at[i + 1] + bound_len > rd
    BY <1>1, <1>3, FileDataMoreMoves
  <2>2. PICK m \in 0..dlen : m = Searched
    BY <1>3, SearchedType DEF FileDataMore
  <2>3. Extended(m)
    BY <2>1, <2>2, WriteExtends
  <2>4. i \in 1..Parted' + 1
    BY <1>1, <2>1 DEF Parted
  <2>5. CASE ~fd_upload
    <3>1. Unread(i)' /\ UNCHANGED Parts!vars
      BY <1>1, <2>1, <2>3, <2>5, SameUnread, LostWrite DEF Recording
    <3>2. Waiting' => Found'
      BY <2>1, <2>4, <2>5, <3>1 DEF Found, Where, Recording
    <3> QED BY <2>1, <3>1, <3>2 DEF Follows
  <2>6. CASE fd_upload
    <3>1. m \in Nat /\ m <= dlen /\ Pos' = Pos + m /\ Waiting' /\ Synced' /\ InFile(i)'
      BY <2>1, <2>2, <2>6
    <3>2. Pos + m <= form.at[i + 1] /\ mp_state' = "FILEDATA"
      BY <2>1, <3>1 DEF InFile
    <3>3. Growing(i) /\ Unread(i + 1)
      BY <2>6 DEF Recording
    <3>4. /\ uploads'[upfile].data = SubSeq(PartAt(i).value, 1, Pos + m - ValueAt(form, i))
          /\ uploads'[upfile].name = PartAt(i).name
          /\ uploads' # <<>> /\ upfile = Len(uploads')
          /\ Unread(i + 1)' /\ [Parts!Next]_(Parts!vars)
      <4>1. form' = form /\ params' = params
        BY <2>1
      <4> QED BY <1>1, <2>3, <2>6, <3>1, <3>2, <3>3, <4>1, GrowRecords
    <3>5. Growing(i)'
      <4>1. form' = form /\ upfile' = upfile /\ Pos' = Pos + m
        BY <2>1, <3>1
      <4>2. PartAt(i)' = PartAt(i) /\ ValueAt(form, i)' = ValueAt(form, i)
        BY <4>1 DEF PartAt, ValueAt, HeadAt
      <4>3. PICK p \in Nat, v \in Nat : p = Pos /\ v = ValueAt(form, i) /\ Pos' = p + m /\ ValueAt(form, i)' = v
        <5>1. Pos \in Nat
          BY <1>1, SyncedData
        <5>2. ValueAt(form, i) \in Nat
          BY <1>1, LayoutType DEF IsPlaced, Parted, ChunkInv
        <5> QED BY <4>1, <4>2, <5>1, <5>2
      <4>4. Pos + m - ValueAt(form, i) = p + m - v /\ Pos' - ValueAt(form, i)' = p + m - v
        BY <4>3
      <4> QED BY <3>2, <3>4, <4>1, <4>2, <4>4 DEF Growing
    <3> QED BY <2>1, <2>4, <2>6, <3>1, <3>4, <3>5 DEF Follows, Found, Where, Recording
  <2> QED BY <2>5, <2>6
<1>4. CASE FileDataEnd
  <2>1. /\ UNCHANGED <<form, params, upfile, slips>> /\ fd_upload' = FALSE
        /\ EndUpload(Result(memmem))
        /\ Waiting' => Synced' /\ outcome' = outcome
        /\ ~fd_upload /\ Waiting' => (InBegin(i) \/ InBegin(i + 1))'
        /\ fd_upload =>
             /\ Waiting' /\ InBegin(i + 1)'
             /\ memmem \in Nat /\ memmem <= dlen /\ Pos + memmem = form.at[i + 1]
    BY <1>1, <1>4, FileDataEndMoves
  <2>2. PICK m \in 0..dlen : m = memmem
    <3>1. BoundaryAt # {} /\ ChunkInv
      BY <1>1, <1>4 DEF FileDataEnd, Inv
    <3>2. memmem \in Nat /\ memmem + bound_len <= dlen /\ dlen \in Nat
      BY <3>1, BoundaryType, DataType
    <3> QED BY <3>2, BoundLength
  <2>3. Extended(m)
    BY <2>1, <2>2, EndExtends
  <2>4. i \in 1..Parted' + 1 /\ i + 1 \in 1..Parted' + 1
    BY <1>1, <2>1 DEF Parted
  <2>5. CASE ~fd_upload
    <3>1. Unread(i)' /\ Unread(i + 1)' /\ UNCHANGED Parts!vars
      BY <1>1, <2>1, <2>3, <2>5, SameUnread, LostWrite DEF Recording
    <3>2. Waiting' => Found'
      BY <2>1, <2>4, <2>5, <3>1 DEF Found, Where, Recording
    <3> QED BY <2>1, <3>1, <3>2 DEF Follows
  <2>6. CASE fd_upload
    <3>1. m \in Nat /\ m <= dlen /\ Pos + m = form.at[i + 1] /\ Waiting' /\ Synced' /\ InBegin(i + 1)'
      BY <2>1, <2>2, <2>6
    <3>2. Pos + m <= form.at[i + 1]
      <4>1. form.at[i + 1] \in Nat
        BY <1>1, LayoutType DEF ChunkInv, Parted
      <4> QED BY <3>1, <4>1
    <3>3. Growing(i) /\ Unread(i + 1)
      BY <2>6 DEF Recording
    <3>4. Unread(i + 1)' /\ [Parts!Next]_(Parts!vars)
      <4>1. form' = form /\ params' = params
        BY <2>1
      <4> QED BY <1>1, <2>3, <2>6, <3>1, <3>2, <3>3, <4>1, GrowRecords
    <3> QED BY <2>1, <2>4, <3>1, <3>4 DEF Follows, Found, Where, Recording
  <2> QED BY <2>5, <2>6
<1> QED BY <1>2, <1>3, <1>4

(* A step in the data of a field: perhaps it is complete. *)
LEMMA FieldFollows ==
    ASSUME Inv, Synced, Laid(form), NEW i \in 1..Parted + 1, InField(i), ~fd_upload, Unread(i),
           FieldCut \/ FieldFull \/ FieldMore \/ FieldEnd
    PROVE  Follows
<1>1. /\ ChunkInv /\ ValueInv /\ Parted \in Nat /\ i \in 1..Parted /\ i \in Nat /\ i \in 1..Len(form.parts)
      /\ form \in Forms /\ Parted = Len(form.parts) /\ i + 1 \in 1..Parted + 1
  BY LayoutType DEF Inv, ChunkInv, Parted, InField
<1>2. CASE FieldCut
  BY <1>1, <1>2, FieldCutMoves, KeptFollows DEF Where
<1>3. CASE FieldMore
  BY <1>1, <1>3, FieldMoreMoves, KeptFollows DEF Where
<1>4. CASE FieldFull
  <2>1. Kept /\ Waiting' /\ Synced' /\ Full'
    BY <1>1, <1>4, FullMoves
  <2>2. UNCHANGED Parts!vars /\ ~fd_upload'
    BY <2>1 DEF Kept, Parts!vars, Stored
  <2> QED BY <2>1, <2>2 DEF Follows
<1>5. CASE FieldEnd
  <2>1. /\ form' = form
        /\ Waiting' =>
             /\ Synced' /\ InBegin(i + 1)'
             /\ UNCHANGED <<uploads, upfile, fd_upload>>
             /\ PartAt(i).kind = "field"
             /\ \E m \in 1..Len(PartAt(i).value) :
                  params' = Append(params, <<PartAt(i).name, SubSeq(PartAt(i).value, 1, m)>>)
        /\ ~Waiting' => Kept
    BY <1>1, <1>5, FieldEndMoves
  <2>2. CASE ~Waiting'
    BY <1>1, <2>1, <2>2, KeptFollows
  <2>3. CASE Waiting'
    <3>1. PICK m \in 1..Len(PartAt(i).value) :
            params' = Append(params, <<PartAt(i).name, SubSeq(PartAt(i).value, 1, m)>>)
      BY <2>1, <2>3
    <3>2. Parts!AddField
      <4>1. i \in DOMAIN form.parts /\ form.parts[i].kind = "field"
        BY <1>1, <2>1, <2>3, LenProperties DEF PartAt, Laid
      <4>2. Parts!IsNext(i)
        BY <1>1, RecordedIs DEF Parts!IsNext, Unread, Parted, PartAt
      <4>3. UNCHANGED <<form.parts, Stored>>
        BY <2>1, <2>3 DEF Stored
      <4> QED BY <3>1, <4>1, <4>2, <4>3 DEF Parts!AddField, PartAt
    <3>3. Unread(i + 1)'
      <4>1. ASSUME NEW j \in i + 1..Parted PROVE ~Has(params', uploads, PartAt(j).name)
        <5>1. j \in i..Parted /\ j # i /\ j \in 1..Len(form.parts)
          BY <1>1
        <5>2. ~Has(params, uploads, PartAt(j).name)
          BY <5>1 DEF Unread
        <5>3. PartAt(j).name # PartAt(i).name
          BY <1>1, <2>1, <2>3, <5>1, NamesDiffer DEF PartAt
        <5>4. ASSUME NEW k \in DOMAIN params' PROVE params'[k][1] # PartAt(j).name
          <6>1. PICK x, y, z : /\ x = PartAt(i).name /\ y = SubSeq(PartAt(i).value, 1, m) /\ z = <<x, y>>
                               /\ params' = Append(params, z) /\ z[1] = x
            BY <3>1
          <6>2. PICK p, T : p = params /\ T = {params[l] : l \in DOMAIN params} \cup {z} /\ p \in Seq(T) /\ z \in T
            <7>1. params \in Seq({params[l] : l \in DOMAIN params} \cup {z})
              <8>1. params \in [1..Len(params) -> {params[l] : l \in DOMAIN params} \cup {z}] /\ Len(params) \in Nat
                BY <1>1, LenProperties DEF ValueInv
              <8> QED BY <8>1
            <7> QED BY <7>1
          <6>3. IsAppended(T, Append(p, z), p, z)
            BY <6>2, AppendIs
          <6>4. PICK q : q = params' /\ q \in Seq(T) /\ Len(q) = Len(p) + 1 /\ q[Len(p) + 1] = z
                         /\ \A l \in 1..Len(p) : q[l] = p[l]
            BY <6>1, <6>2, <6>3 DEF IsAppended
          <6>5. DOMAIN q = 1..Len(p) + 1 /\ DOMAIN p = 1..Len(p) /\ Len(p) \in Nat
            BY <6>2, <6>4, LenProperties
          <6>6. CASE k \in DOMAIN p
            BY <5>2, <6>2, <6>4, <6>5, <6>6 DEF Has
          <6>7. CASE k = Len(p) + 1
            BY <5>3, <6>1, <6>4, <6>7
          <6> QED BY <6>4, <6>5, <6>6, <6>7
        <5> QED BY <5>2, <5>4 DEF Has
      <4> QED BY <2>1, <2>3, <4>1 DEF Unread, Parted, PartAt
    <3>4. i + 1 \in 1..Parted' + 1 /\ ~fd_upload'
      BY <1>1, <2>1, <2>3 DEF Parted
    <3> QED BY <2>1, <2>3, <3>2, <3>3, <3>4 DEF Follows, Found, Where, Recording, Parts!Next
  <2> QED BY <2>2, <2>3
<1> QED BY <1>2, <1>3, <1>4, <1>5
(* A field that is full only skips, whatever comes. *)
LEMMA FullFollows ==
    ASSUME Inv, Synced, Full, ~fd_upload, parseMultipart
    PROVE  Follows
<1>1. ChunkInv /\ ValueInv /\ mp_state = "FLDDATA" /\ Len(flddata) = REQ_MAX_FLDDATA
  BY DEF Inv, Full
<1>2. ~(Room > 0)
  BY <1>1, MultipartAssumption DEF Room
<1>3. FieldFull \/ FieldCut
  BY <1>1, <1>2 DEF parseMultipart, Parsing, SkipToBoundary, FindBoundary, HeaderCut, HeaderTorn, Header,
                    FileTypeCut, FileType, FileDataCut, FileDataMore, FileDataEnd, FieldMore, FieldEnd
<1>4. Kept /\ Waiting' /\ Synced' /\ Full'
  BY <1>1, <1>3, FullMoves
<1>5. UNCHANGED Parts!vars /\ ~fd_upload'
  BY <1>4 DEF Kept, Parts!vars, Stored
<1> QED BY <1>4, <1>5 DEF Follows

(* Every call of the parser, from wherever it is in the form.               *)
LEMMA ParseFollows ==
    ASSUME Inv, Synced, Laid(form), (Full /\ ~fd_upload) \/ Found, parseMultipart,
           "unwritten" \notin slips'
    PROVE  Follows
<1>1. CASE Full /\ ~fd_upload
  BY <1>1, FullFollows
<1>2. CASE Found
  <2>1. PICK i \in 1..Parted + 1 : Where(i) /\ Recording(i)
    BY <1>2 DEF Found
  <2>2. mp_state # "FILEDATA" => ~fd_upload /\ Unread(i)
    BY <2>1 DEF Recording, Growing, Inv, FileInv
  <2>3. CASE InBegin(i)
    <3>1. SkipToBoundary \/ FindBoundary
      BY <2>3 DEF InBegin, parseMultipart, Parsing, HeaderCut, HeaderTorn, Header, FileTypeCut, FileType,
                  FileDataCut, FileDataMore, FileDataEnd, FieldCut, FieldFull, FieldMore, FieldEnd
    <3> QED BY <2>2, <2>3, <3>1, BeginFollows DEF InBegin
  <2>4. CASE InHeader(i)
    <3>1. HeaderCut \/ HeaderTorn \/ Header
      BY <2>4 DEF InHeader, parseMultipart, Parsing, SkipToBoundary, FindBoundary, FileTypeCut, FileType,
                  FileDataCut, FileDataMore, FileDataEnd, FieldCut, FieldFull, FieldMore, FieldEnd
    <3> QED BY <2>2, <2>4, <3>1, HeaderFollows DEF InHeader
  <2>5. CASE InType(i)
    <3>1. FileTypeCut \/ FileType
      BY <2>5 DEF InType, parseMultipart, Parsing, SkipToBoundary, FindBoundary, HeaderCut, HeaderTorn, Header,
                  FileDataCut, FileDataMore, FileDataEnd, FieldCut, FieldFull, FieldMore, FieldEnd
    <3> QED BY <2>2, <2>5, <3>1, FileTypeFollows DEF InType
  <2>6. CASE InFile(i)
    <3>1. FileDataCut \/ FileDataMore \/ FileDataEnd
      BY <2>6 DEF InFile, parseMultipart, Parsing, SkipToBoundary, FindBoundary, HeaderCut, HeaderTorn, Header,
                  FileTypeCut, FileType, FieldCut, FieldFull, FieldMore, FieldEnd
    <3> QED BY <2>1, <2>6, <3>1, FileFollows
  <2>7. CASE InField(i)
    <3>1. FieldCut \/ FieldFull \/ FieldMore \/ FieldEnd
      BY <2>7 DEF InField, parseMultipart, Parsing, SkipToBoundary, FindBoundary, HeaderCut, HeaderTorn, Header,
                  FileTypeCut, FileType, FileDataCut, FileDataMore, FileDataEnd
    <3> QED BY <2>2, <2>7, <3>1, FieldFollows DEF InField
  <2> QED BY <2>1, <2>3, <2>4, <2>5, <2>6, <2>7 DEF Where
<1> QED BY <1>1, <1>2

(* The first chunk. *)
LEMMA StartFollows ==
    ASSUME Inv, CallInv, Start
    PROVE  Follows
<1>1. /\ ctl = "start" /\ rd = 0 /\ mp_state = "BEGIN" /\ params = <<>> /\ uploads = <<>> /\ ~fd_upload
      /\ Laid(form) /\ ChunkInv
  BY DEF Start, CallInv, Inv
<1>2. Parted \in Nat /\ 1 \in 1..Parted + 1
  BY <1>1, LayoutType DEF ChunkInv, Parted
<1>3. Unread(1)
  BY <1>1 DEF Unread, Has
<1>4. Kept /\ (Waiting' => Synced' /\ InBegin(1)')
  BY <1>1, StartMoves
<1> QED BY <1>1, <1>2, <1>3, <1>4, KeptFollows DEF Where

(* A further one, if nothing is dropped. *)
LEMMA ReadMoreFollows ==
    ASSUME Inv, Synced, (Full /\ ~fd_upload) \/ Found, ReadMore, "dropped" \notin slips'
    PROVE  Follows
<1>1. /\ Kept /\ UNCHANGED <<mp_state, name, flddata>>
      /\ Waiting' => Synced' /\ Pos' = Pos /\ mp' = 0
  BY ReadMoreMoves DEF Inv
<1>2. UNCHANGED Parts!vars
  BY <1>1 DEF Kept, Parts!vars, Stored
<1>3. Full /\ ~fd_upload => (Full /\ ~fd_upload)'
  BY <1>1 DEF Full, Kept
<1>4. ASSUME Found, Waiting' PROVE Found'
  <2>1. PICK i \in 1..Parted + 1 : Where(i) /\ Recording(i)
    BY <1>4 DEF Found
  <2>2. Where(i)'
    BY <1>1, <1>4, <2>1 DEF Where, InBegin, InHeader, InType, InFile, InField, IsNextAt, Kept, Parted, PartAt,
                            HeadAt, ValueAt
  <2>3. Recording(i)'
    BY <1>1, <1>4, <2>1 DEF Recording, Growing, Unread, Kept, Parted, PartAt, HeadAt, ValueAt
  <2> QED BY <1>1, <2>2, <2>3 DEF Found, Kept, Parted
<1> QED BY <1>1, <1>2, <1>3, <1>4 DEF Follows
-----------------------------------------------------------------------------
(* A body that is no form is the only part there is.                        *)
BodyOf(b) == [name |-> "[body]", data |-> b, bytes |-> 0, linked |-> TRUE]
PairOf(b) == [name |-> "[body]", data |-> b]

RecordOf(a, b, n, l) == [name |-> a, data |-> b, bytes |-> n, linked |-> l]
(* An upload record with other data. *)
LEMMA RecordSets ==
    ASSUME NEW a, NEW b, NEW c, NEW n, NEW l
    PROVE  /\ RecordOf(a, b, n, l).name = a /\ RecordOf(a, b, n, l).data = b
           /\ [RecordOf(a, b, n, l) EXCEPT !.data = c] = RecordOf(a, c, n, l)
BY DEF RecordOf
(* The one upload of a body with other data. *)
LEMMA BodyIs ==
    ASSUME NEW b, NEW c
    PROVE  BodyOf(b).name = "[body]" /\ BodyOf(b).data = b /\ [BodyOf(b) EXCEPT !.data = c] = BodyOf(c)
<1>1. PICK a, n, l : a = "[body]" /\ n = 0 /\ l = TRUE
  OBVIOUS
<1>2. BodyOf(b) = RecordOf(a, b, n, l) /\ BodyOf(c) = RecordOf(a, c, n, l)
  BY <1>1 DEF BodyOf, RecordOf
<1>3. /\ RecordOf(a, b, n, l).name = a /\ RecordOf(a, b, n, l).data = b
      /\ [RecordOf(a, b, n, l) EXCEPT !.data = c] = RecordOf(a, c, n, l)
  BY RecordSets
<1>4. a = "[body]"
  BY <1>1
<1> QED BY <1>2, <1>3, <1>4

(* What it is to FormParts. *)
LEMMA BodyPairs == ASSUME NEW b PROVE Pairs(<<BodyOf(b)>>) = <<PairOf(b)>>
<1>1. PICK e : e = BodyOf(b) /\ e.name = "[body]" /\ e.data = b
  <2>1. BodyOf(b).name = "[body]" /\ BodyOf(b).data = b
    BY BodyIs
  <2> QED BY <2>1
<1>2. PICK u : u = <<e>> /\ DOMAIN u = 1..1 /\ u[1] = e
  <2>1. DOMAIN <<e>> = 1..1 /\ <<e>>[1] = e
    OBVIOUS
  <2> QED BY <2>1
<1>3. Pairs(u) = [k \in 1..1 |-> PairOf(b)]
  BY <1>1, <1>2 DEF Pairs, PairOf
<1>4. PICK p : p = PairOf(b)
  OBVIOUS
<1>5. <<p>> = [k \in 1..1 |-> p]
  OBVIOUS
<1> QED BY <1>1, <1>2, <1>3, <1>4, <1>5

(* What more data makes of the list of it. *)
LEMMA BodySets ==
    ASSUME NEW b, NEW c
    PROVE  /\ [<<BodyOf(b)>> EXCEPT ![1].data = c] = <<BodyOf(c)>>
           /\ [<<PairOf(b)>> EXCEPT ![1].data = c] = <<PairOf(c)>>
<1>1. [BodyOf(b) EXCEPT !.data = c] = BodyOf(c)
  BY BodyIs
<1>2. [PairOf(b) EXCEPT !.data = c] = PairOf(c)
  BY DEF PairOf
<1>3. /\ [<<BodyOf(b)>> EXCEPT ![1].data = c] = [<<BodyOf(b)>> EXCEPT ![1] = BodyOf(c)]
      /\ [<<PairOf(b)>> EXCEPT ![1].data = c] = [<<PairOf(b)>> EXCEPT ![1] = PairOf(c)]
  BY <1>1, <1>2
<1>4. /\ [<<BodyOf(b)>> EXCEPT ![1] = BodyOf(c)] = <<BodyOf(c)>>
      /\ [<<PairOf(b)>> EXCEPT ![1] = PairOf(c)] = <<PairOf(c)>>
  OBVIOUS
<1> QED BY <1>3, <1>4

(* Its upload is made before anything was read. *)
LEMMA BodyBeginFollows ==
    ASSUME Inv, CallInv, BodyBegin
    PROVE  Follows /\ Copying' /\ params' = <<>>
<1>1. /\ ctl = "body" /\ rd = 0 /\ params = <<>> /\ uploads = <<>> /\ ~fd_upload
      /\ Bodied(form) /\ form.parts[1].kind = "body"
  BY DEF BodyBegin, CallInv
<1>2. form' = form /\ rd' = rd /\ params' = <<>> /\ ~Waiting' /\ Len(uploads) = 0
      /\ createXferFile("[body]")
  BY <1>1, EmptySeq DEF BodyBegin, Waiting
<1>3. CASE UNCHANGED <<uploads, fd_upload>>
  BY <1>1, <1>2, <1>3 DEF Follows, Parts!vars, Stored, Copying
<1>4. CASE /\ uploads' = Append(uploads, [name |-> "[body]", data |-> <<>>, bytes |-> 0, linked |-> TRUE])
           /\ upfile' = Len(uploads) + 1 /\ fd_upload' = TRUE
  <2>1. PICK b : b = <<>> /\ b = SubSeq(form.spool, 1, 0)
    <3>1. PICK s \in Seq(STRING) : s = form.spool
      BY MultipartAssumption DEF Inv, ChunkInv
    <3>2. SubSeq(s, 1, 0) = <<>>
      OBVIOUS
    <3> QED BY <3>1, <3>2
  <2>2. uploads' = <<BodyOf(b)>> /\ upfile' = 1
    BY <1>1, <1>2, <1>4, <2>1 DEF BodyOf
  <2>3. Copying'
    BY <1>1, <1>2, <1>4, <2>1, <2>2 DEF Copying, BodyOf
  <2>4. Stored = <<>> /\ Stored' = <<PairOf(b)>>
    <3>1. Stored' = Pairs(uploads')
      BY DEF Stored, Pairs
    <3>2. Stored = <<>>
      BY <1>1 DEF Stored
    <3> QED BY <2>2, <3>1, <3>2, BodyPairs
  <2>5. Parts!AddFile
    <3>1. 1 \in DOMAIN form.parts /\ Len(form.parts) = 1 /\ form.parts[1].name = "[body]"
      <4>1. form.parts \in Seq(Range(form.parts)) /\ Len(form.parts) = 1
        BY <1>1 DEF Bodied, IsBody
      <4> QED BY <1>1, <4>1, LenProperties DEF Bodied, IsBody
    <3>2. Parts!IsNext(1)
      BY <1>1, <2>4 DEF Parts!IsNext, Parts!Recorded
    <3>3. 0 \in 0..Len(form.parts[1].value) /\ SubSeq(form.parts[1].value, 1, 0) = b
      <4>1. form.parts[1].value \in Seq(STRING) /\ form.parts[1].value = form.spool
        BY <1>1, MultipartAssumption DEF Inv, ChunkInv, Bodied, IsBody
      <4> QED BY <2>1, <4>1, LenProperties
    <3>4. Stored' = Append(Stored, [name |-> form.parts[1].name, data |-> SubSeq(form.parts[1].value, 1, 0)])
      BY <2>4, <3>1, <3>3 DEF PairOf
    <3>5. UNCHANGED <<form.parts, params>>
      BY <1>1, <1>2
    <3> QED BY <1>1, <3>1, <3>2, <3>3, <3>4, <3>5 DEF Parts!AddFile
  <2> QED BY <1>2, <2>3, <2>5 DEF Follows, Parts!Next
<1> QED BY <1>2, <1>3, <1>4 DEF createXferFile

(* The next bytes of it are copied. *)
LEMMA BodyCopies ==
    ASSUME Inv, CallInv, ctl = "copy", NEW n \in 0..Left, CopyBytes(n),
           form' = form, params' = params, Tracked(slips')
    PROVE  /\ [Parts!Next]_(Parts!vars)
           /\ fd_upload => uploads' = <<BodyOf(SubSeq(form.spool, 1, rd + n))>>
           /\ ~fd_upload => uploads' = <<>>
<1>0. uploads' = (IF fd_upload THEN Copied(n) ELSE uploads) /\ rd' = rd + n /\ slips' = slips
  <2>1. PICK bw \in write(n) : uploads' = (IF bw = -1 THEN uploads ELSE Copied(n)) /\ Unwritten(bw)
    BY DEF CopyBytes
  <2>2. bw = Result(n) /\ slips' = slips
    BY <2>1, WriteDone DEF Tracked
  <2>3. n # -1
    BY LeftType DEF Inv
  <2> QED BY <2>1, <2>2, <2>3 DEF CopyBytes, Result
<1>1. /\ params = <<>> /\ Copying /\ Bodied(form) /\ form.parts[1].kind = "body" /\ ChunkInv
  BY <1>0 DEF CallInv, Inv, Tracked
<1>2. CASE ~fd_upload
  BY <1>0, <1>1, <1>2 DEF Copying, Parts!vars, Stored
<1>3. CASE fd_upload
  <2>1. PICK s \in Seq(STRING), r \in Nat : s = form.spool /\ r = rd /\ r + n <= Len(s) /\ n \in Nat /\ Len(s) \in Nat
    <3>1. form.spool \in Seq(STRING) /\ rd \in Nat /\ Len(form.spool) \in Nat
      BY <1>1, MultipartAssumption, LenProperties DEF ChunkInv
    <3>2. n \in Nat /\ rd + n <= Len(form.spool)
      BY <1>1, <3>1, LeftType DEF Left
    <3> QED BY <3>1, <3>2
  <2>2. PICK b, c : /\ b = SubSeq(s, 1, r) /\ c = SubSeq(s, 1, r + n) /\ c = b \o SubSeq(s, r + 1, r + n)
                    /\ Len(b) = r /\ Len(c) = r + n
    <3>1. /\ SubSeq(s, 1, r) \o SubSeq(s, r + 1, r + n) = SubSeq(s, 1, r + n)
          /\ Len(SubSeq(s, 1, r)) = r /\ Len(SubSeq(s, 1, r + n)) = r + n
      BY <2>1, PrefixGrows
    <3> QED BY <3>1
  <2>3. uploads = <<BodyOf(b)>> /\ upfile = 1
    BY <1>1, <1>3, <2>1, <2>2 DEF Copying, BodyOf
  <2>4. uploads' = <<BodyOf(c)>>
    <3>1. uploads' = [uploads EXCEPT ![upfile].data = uploads[upfile].data \o Spool(rd, n)]
      BY <1>0, <1>3 DEF Copied
    <3>2. uploads[upfile].data = b
      BY <2>3 DEF BodyOf
    <3>3. uploads' = [uploads EXCEPT ![1].data = c]
      BY <2>1, <2>2, <2>3, <3>1, <3>2 DEF Spool
    <3> QED BY <2>3, <3>3, BodySets
  <2>5. Stored = <<PairOf(b)>> /\ Stored' = <<PairOf(c)>>
    <3>1. Stored = Pairs(uploads) /\ Stored' = Pairs(uploads')
      BY DEF Stored, Pairs
    <3> QED BY <2>3, <2>4, <3>1, BodyPairs
  <2>6. CASE n = 0
    <3>1. r + n = r
      BY <2>6
    <3>2. b = c
      BY <2>2, <3>1
    <3>3. UNCHANGED Parts!vars
      BY <2>5, <3>2 DEF Parts!vars
    <3> QED BY <1>3, <2>1, <2>2, <2>4, <3>3
  <2>7. CASE n # 0
    <3>1. Parts!Grow
      <4>1. 1 \in DOMAIN form.parts /\ Len(form.parts) = 1 /\ form.parts[1].name = "[body]" /\ form.parts[1].value = s
        <5>1. form.parts \in Seq(Range(form.parts)) /\ Len(form.parts) = 1
          BY <1>1 DEF Bodied, IsBody
        <5> QED BY <1>1, <2>1, <5>1, LenProperties DEF Bodied, IsBody
      <4>2. PICK p : p = Stored /\ p = <<PairOf(b)>> /\ Len(p) = 1 /\ p # <<>> /\ DOMAIN p = {1}
                     /\ p[1].name = "[body]" /\ p[1].data = b
        BY <2>5 DEF PairOf
      <4>3. Parts!IsLast(1)
        BY <4>1, <4>2 DEF Parts!IsLast, Parts!Recorded
      <4>4. r + n \in Len(b) + 1..Len(s)
        BY <2>1, <2>2, <2>7
      <4>5. Stored' = [p EXCEPT ![1].data = SubSeq(s, 1, r + n)]
        <5>1. [<<PairOf(b)>> EXCEPT ![1].data = c] = <<PairOf(c)>>
          BY BodySets
        <5>2. p = <<PairOf(b)>> /\ Stored' = <<PairOf(c)>> /\ SubSeq(s, 1, r + n) = c
          BY <2>2, <2>5, <4>2
        <5> QED BY <5>1, <5>2
      <4> QED BY <4>1, <4>2, <4>3, <4>4, <4>5 DEF Parts!Grow
    <3> QED BY <1>3, <2>1, <2>2, <2>4, <3>1 DEF Parts!Next
  <2> QED BY <2>6, <2>7
<1> QED BY <1>2, <1>3
-----------------------------------------------------------------------------
(* What every call of the parser leaves to the caller. *)
LEMMA ParseKeeps ==
    ASSUME parseMultipart
    PROVE  /\ ctl = "parse" /\ UNCHANGED <<form, rd, mem, brmax, fd_spool>>
           /\ \/ ctl' \in {"parse", "read"} /\ outcome' = outcome
              \/ ctl' \in {"done", "over"}
<1>1. ASSUME NEW n, NEW to, Consume(n, to)
      PROVE  /\ UNCHANGED <<form, rd, mem, brmax, fd_spool>>
             /\ \/ ctl' \in {"parse", "read"} /\ outcome' = outcome
                \/ ctl' \in {"done", "over"}
  BY <1>1 DEF Consume
<1>2. ASSUME Throw
      PROVE  UNCHANGED <<form, rd, mem, brmax, fd_spool>> /\ ctl' \in {"done", "over"}
  BY <1>2 DEF Throw
<1>3. ctl = "parse"
  BY DEF parseMultipart, Parsing, SkipToBoundary, FindBoundary, HeaderCut, HeaderTorn, Header, FileTypeCut,
         FileType, FileDataCut, FileDataMore, FileDataEnd, FieldCut, FieldFull, FieldMore, FieldEnd
<1>4. \/ \E n, to : Consume(n, to)
      \/ Throw
      \/ HeaderTorn
  BY DEF parseMultipart, SkipToBoundary, FindBoundary, HeaderCut, Header, FileTypeCut,
         FileType, FileDataCut, FileDataMore, FileDataEnd, FieldCut, FieldFull, FieldMore, FieldEnd
<1>5. CASE HeaderTorn
  BY <1>3, <1>5 DEF HeaderTorn
<1> QED BY <1>1, <1>2, <1>3, <1>4, <1>5

(* What slipped is not forgotten. *)
LEMMA SlipsGrow ==
    ASSUME Next
    PROVE  slips \subseteq slips'
<1>1. ASSUME NEW kind, NEW when, Slip(kind, when) PROVE slips \subseteq slips'
  BY <1>1 DEF Slip
<1>2. CASE UNCHANGED slips
  BY <1>2
<1>3. CASE Start \/ ReadMore \/ Done
  BY <1>1, <1>3 DEF Start, ReadMore, Done
<1>4. CASE processBodyData
  BY <1>1, <1>4 DEF processBodyData, BodyBegin, BodyInMemory, BodyFails, BodyCopy, BodyEnd, createXferFile,
         CopyBytes, Unwritten
<1>5. CASE parseMultipart
  BY <1>1, <1>5 DEF parseMultipart, SkipToBoundary, FindBoundary, HeaderCut, HeaderTorn, Header, FileTypeCut,
         FileType, FileDataCut, FileDataMore, FileDataEnd, FieldCut, FieldFull, FieldMore, FieldEnd,
         createXferFile, Unwritten
<1> QED BY <1>3, <1>4, <1>5 DEF Next

(* Where the caller is goes with what it reads. *)
LEMMA CallNext ==
    ASSUME Inv, Inv', CallInv, [Next]_vars
    PROVE  CallInv'
<1>1. CASE UNCHANGED vars
  BY <1>1 DEF CallInv, Waiting, Copying
<1>2. CASE parseMultipart
  <2>1. ctl = "parse" /\ form.parts[1].kind # "body" /\ Laid(form) /\ outcome = "none" /\ brmax <= Len(mem)
    BY <1>2, ParseKeeps DEF CallInv, Waiting
  <2> QED BY <1>2, <2>1, ParseKeeps DEF CallInv, Waiting
<1>3. CASE Start
  <2>1. ctl = "start" /\ form.parts[1].kind # "body" /\ Laid(form) /\ outcome = "none" /\ form' = form
    BY <1>3 DEF CallInv, Start
  <2>2. CASE ctl' = "over"
    BY <2>1, <2>2 DEF CallInv, Waiting
  <2>3. CASE /\ brmax' = Smaller(MAX_MP, Left) /\ mem' = Spool(0, Smaller(MAX_MP, Left))
             /\ ctl' = "parse" /\ UNCHANGED outcome
    <3>1. PICK n \in Nat : n = Smaller(MAX_MP, Left) /\ n <= Left
      BY LeftType, MultipartAssumption, SmallerType DEF Inv
    <3>2. Len(mem') = n
      <4>1. form.spool \in Seq(STRING) /\ rd = 0 /\ Left = Len(form.spool) - rd /\ Len(form.spool) \in Nat
        BY <1>3, <2>1, MultipartAssumption, LenProperties DEF Inv, ChunkInv, Left, CallInv
      <4>2. PICK s \in Seq(STRING) : s = form.spool /\ 0 + n <= Len(s)
        BY <3>1, <4>1
      <4>3. IsSlice(Slice(s, 0, n), STRING, s, 0, n)
        BY <3>1, <4>2, SliceOf
      <4> QED BY <2>3, <3>1, <4>2, <4>3 DEF IsSlice, Slice, Spool
    <3> QED BY <2>1, <2>3, <3>1, <3>2 DEF CallInv, Waiting
  <2> QED BY <1>3, <2>2, <2>3 DEF Start
<1>4. CASE ReadMore
  <2>1. ctl = "read" /\ form.parts[1].kind # "body" /\ Laid(form) /\ outcome = "none" /\ form' = form
    BY <1>4 DEF CallInv, ReadMore
  <2>2. CASE ctl' \in {"done", "over"}
    BY <2>1, <2>2 DEF CallInv, Waiting
  <2>3. ASSUME NEW read_max, read_max = (IF Carries THEN mp ELSE MAX_MP),
               NEW n, n = Smaller(read_max, Left), n > 0,
               mem' = (IF Carries THEN data ELSE <<>>) \o Spool(rd, n), brmax' = n,
               ctl' = "parse", UNCHANGED outcome
        PROVE  CallInv'
    <3>1. n \in Nat /\ n <= Left
      <4>1. read_max \in Nat
        BY <2>3, MultipartAssumption DEF Inv, ChunkInv
      <4> QED BY <2>3, <4>1, LeftType, SmallerType DEF Inv
    <3>2. PICK d \in Seq(STRING) : d = (IF Carries THEN data ELSE <<>>)
      BY DataType, EmptySeq DEF Inv
    <3>3. PICK s \in Seq(STRING), r \in Nat : s = form.spool /\ r = rd /\ r + n <= Len(s)
      <4>1. form.spool \in Seq(STRING) /\ Left = Len(form.spool) - rd /\ Len(form.spool) \in Nat /\ rd \in Nat
        BY MultipartAssumption, LenProperties DEF Inv, ChunkInv, Left
      <4>2. rd + n <= Len(form.spool)
        BY <3>1, <4>1
      <4> QED BY <4>1, <4>2
    <3>4. PICK e \in Seq(STRING) : e = Slice(s, r, n) /\ Len(e) = n
      <4>1. IsSlice(Slice(s, r, n), STRING, s, r, n)
        BY <3>1, <3>3, SliceOf
      <4> QED BY <4>1 DEF IsSlice
    <3>5. mem' = d \o e
      BY <2>3, <3>2, <3>3, <3>4 DEF Slice, Spool
    <3>6. Len(d \o e) = Len(d) + Len(e) /\ Len(d) \in Nat
      BY LenProperties
    <3>7. brmax' <= Len(mem')
      <4>1. Len(mem') = Len(d) + n
        BY <3>4, <3>5, <3>6
      <4>2. n <= Len(d) + n
        BY <3>1, <3>6
      <4> QED BY <2>3, <4>1, <4>2
    <3> QED BY <2>1, <2>3, <3>7 DEF CallInv, Waiting
  <2> QED BY <1>4, <2>2, <2>3 DEF ReadMore
<1>5. CASE Done
  <2>1. form.parts[1].kind # "body" /\ Laid(form) /\ form' = form /\ ctl' = "over"
    BY <1>5 DEF CallInv, Done
  <2> QED BY <2>1 DEF CallInv, Waiting
<1>6. CASE BodyBegin
  <2>1. Copying' /\ params' = <<>>
    BY <1>6, BodyBeginFollows
  <2>2. form.parts[1].kind = "body" /\ Bodied(form) /\ form' = form /\ ctl' = "copy" /\ outcome' = "none"
    BY <1>6 DEF CallInv, BodyBegin
  <2> QED BY <2>1, <2>2 DEF CallInv, Waiting
<1>7. CASE BodyInMemory \/ BodyFails \/ BodyEnd
  <2>1. form.parts[1].kind = "body" /\ Bodied(form) /\ form' = form /\ ctl' = "over"
    BY <1>7 DEF CallInv, BodyInMemory, BodyFails, BodyEnd
  <2> QED BY <2>1 DEF CallInv, Waiting
<1>8. CASE BodyCopy
  <2>1. /\ form.parts[1].kind = "body" /\ Bodied(form) /\ form' = form /\ ctl = "copy" /\ ctl' = "copy"
        /\ outcome' = "none" /\ params = <<>> /\ params' = <<>>
        /\ UNCHANGED <<upfile, fd_upload>>
    BY <1>8 DEF CallInv, BodyCopy
  <2>2. PICK n \in 0..Left : CopyBytes(n)
    <3>1. ChunkInv
      BY DEF Inv
    <3>2. Left \in Nat
      BY <3>1, LeftType
    <3>3. PICK n \in Nat : n = Smaller(BodyBuffer, Left) /\ n <= Left
      BY <3>2, MultipartAssumption, SmallerType
    <3> QED BY <1>8, <3>2, <3>3 DEF BodyCopy
  <2>3. ASSUME Tracked(slips') PROVE Copying'
    <3>1. /\ fd_upload => uploads' = <<BodyOf(SubSeq(form.spool, 1, rd + n))>>
          /\ ~fd_upload => uploads' = <<>>
      BY <2>1, <2>2, <2>3, BodyCopies
    <3>2. slips \subseteq slips' /\ rd' = rd + n
      BY <1>8, <2>2, SlipsGrow DEF CopyBytes, Next, processBodyData
    <3>3. Copying
      BY <2>1, <2>3, <3>2 DEF CallInv, Tracked
    <3> QED BY <2>1, <3>1, <3>2, <3>3 DEF Copying, BodyOf
  <2> QED BY <2>1, <2>3 DEF CallInv, Waiting
<1> QED BY <1>1, <1>2, <1>3, <1>4, <1>5, <1>6, <1>7, <1>8 DEF Next, processBodyData

(* Until bytes are dropped or a write fails, every step is one of FormParts or stores nothing. *)
LEMMA StepFollows ==
    ASSUME Inv, Inv', CallInv, PlaceInv, [Next]_vars, Tracked(slips')
    PROVE  Follows
<1>1. Tracked(slips) /\ "dropped" \notin slips' /\ "unwritten" \notin slips'
  BY SlipsGrow DEF Tracked
<1>2. CASE UNCHANGED vars
  <2>1. UNCHANGED Parts!vars
    BY <1>2 DEF Parts!vars, Stored
  <2>2. (Waiting' <=> Waiting) /\ (Synced' <=> Synced) /\ (Full' <=> Full) /\ fd_upload' = fd_upload
    BY <1>2 DEF Waiting, Synced, Full
  <2>3. Found' <=> Found
    <3>1. Pos' = Pos /\ Parted' = Parted /\ form' = form
      BY <1>2 DEF Pos, dlen, data, Parted
    <3>2. \A i : Where(i)' <=> Where(i)
      BY <1>2, <3>1 DEF Where, InBegin, InHeader, InType, InFile, InField, PartAt
    <3>3. \A i : Recording(i)' <=> Recording(i)
      BY <1>2, <3>1 DEF Recording, Growing, Unread, PartAt
    <3> QED BY <3>1, <3>2, <3>3 DEF Found
  <2> QED BY <1>1, <2>1, <2>2, <2>3 DEF Follows, PlaceInv
<1>3. CASE parseMultipart
  <2>1. Waiting /\ Laid(form)
    BY <1>3, ParseKeeps DEF CallInv, Waiting
  <2> QED BY <1>1, <1>3, <2>1, ParseFollows DEF PlaceInv
<1>4. CASE Start
  BY <1>4, StartFollows
<1>5. CASE ReadMore
  <2>1. Waiting
    BY <1>5 DEF ReadMore, Waiting
  <2> QED BY <1>1, <1>5, <2>1, ReadMoreFollows DEF PlaceInv
<1>6. CASE Done \/ BodyFails \/ BodyEnd
  <2>1. form' = form /\ params' = params /\ uploads' = uploads /\ ctl' = "over"
    BY <1>6 DEF Done, BodyFails, BodyEnd
  <2>2. UNCHANGED Parts!vars
    BY <2>1 DEF Parts!vars, Stored
  <2> QED BY <2>1, <2>2 DEF Follows, Waiting
<1>7. CASE BodyBegin
  BY <1>7, BodyBeginFollows
<1>8. CASE BodyInMemory \/ BodyCopy
  <2>1. Left \in Nat
    BY LeftType DEF Inv
  <2>2. PICK n \in 0..Left : CopyBytes(n)
    <3>1. CASE BodyInMemory
      <4>1. Left \in 0..Left
        BY <2>1
      <4> QED BY <3>1, <4>1 DEF BodyInMemory
    <3>2. CASE BodyCopy
      <4>1. PICK n \in Nat : n = Smaller(BodyBuffer, Left) /\ n <= Left
        BY <2>1, MultipartAssumption, SmallerType
      <4> QED BY <2>1, <3>2, <4>1 DEF BodyCopy
    <3> QED BY <1>8, <3>1, <3>2
  <2>3. form' = form /\ params' = params /\ ctl = "copy" /\ ~Waiting'
    BY <1>8 DEF BodyInMemory, BodyCopy, Waiting
  <2>4. [Parts!Next]_(Parts!vars)
    BY <2>2, <2>3, BodyCopies
  <2> QED BY <2>3, <2>4 DEF Follows
<1> QED BY <1>2, <1>3, <1>4, <1>5, <1>6, <1>7, <1>8 DEF Next, processBodyData

(* The forms are as browsers post them. *)
LEMMA InitCalls ==
    ASSUME FormsPosted, Init
    PROVE  CallInv /\ PlaceInv /\ Parts!Init
<1>1. Parts!Init
  <2>1. params = <<>> /\ uploads = <<>>
    BY DEF Init
  <2>2. Stored = <<>>
    BY <2>1 DEF Stored
  <2> QED BY <2>1, <2>2 DEF Parts!Init
<1>2. PlaceInv
  BY DEF Init, PlaceInv, Waiting
<1>3. CallInv
  <2>1. /\ form \in Forms /\ form.parts \in Seq(Range(form.parts))
        /\ IF form.parts[1].kind = "body" THEN IsBody(form) ELSE LaidOut(form)
    BY DEF FormsPosted, Init
  <2> QED BY <2>1 DEF Init, CallInv, Bodied, Laid, Waiting
<1> QED BY <1>1, <1>2, <1>3

(* Until the caller drops bytes or a write() fails, what is stored is part  *)
(* of the form: the steps of parseMultipart(), processMultipart() and       *)
(* processBodyData() add the next field, a beginning of the next file, more *)
(* of the last one, or nothing, wherever the chunks cut the form.           *)
THEOREM OnlyParts == FormsPosted => (Spec => ImplementsParts)
<1> SUFFICES ASSUME FormsPosted PROVE Spec => ImplementsParts
  OBVIOUS
<1> DEFINE I == Inv /\ CallInv /\ PlaceInv
<1>1. Init => I /\ Parts!Init
  BY InitInv, InitCalls
<1>2. I /\ [Next]_vars => I' /\ [Parts!Next \/ ~Tracked(slips')]_(Parts!vars)
  <2> SUFFICES ASSUME I, [Next]_vars
               PROVE  I' /\ [Parts!Next \/ ~Tracked(slips')]_(Parts!vars)
    OBVIOUS
  <2>1. Inv' /\ CallInv'
    BY NextInv, CallNext
  <2>2. CASE ~Tracked(slips')
    BY <2>1, <2>2 DEF PlaceInv
  <2>3. CASE Tracked(slips')
    BY <2>1, <2>3, StepFollows DEF PlaceInv, Follows
  <2> QED BY <2>2, <2>3
<1> HIDE DEF I
<1> QED BY <1>1, <1>2, PTL DEF Spec, ImplementsParts

-----------------------------------------------------------------------------
(* What the first parts of a form give, one behind the other. *)
PiecesTo(w, i) == FlattenSeq(SubSeq(w, 1, i - 1))
Single(a) == <<a>>

(* One piece more is put behind the ones before. *)
LEMMA PiecesNext ==
    ASSUME NEW T, NEW w \in Seq(Seq(T)), NEW i \in 1..Len(w)
    PROVE  /\ PiecesTo(w, i) \in Seq(T)
           /\ PiecesTo(w, i + 1) = PiecesTo(w, i) \o w[i]
           /\ w[i] = <<>> => PiecesTo(w, i + 1) = PiecesTo(w, i)
           /\ \A e \in T : w[i] = Single(e) => PiecesTo(w, i + 1) = Append(PiecesTo(w, i), e)
<1>1. PICK k \in Nat : i = k + 1 /\ i - 1 = k /\ (i + 1) - 1 = k + 1 /\ k \in 0..Len(w) - 1
  <2>1. Len(w) \in Nat
    BY LenProperties
  <2>2. i - 1 \in Nat /\ i = (i - 1) + 1 /\ (i + 1) - 1 = (i - 1) + 1 /\ i - 1 \in 0..Len(w) - 1
    BY <2>1
  <2> QED BY <2>2
<1>2. PICK S : S = Seq(T)
  OBVIOUS
<1>3. PICK u \in Seq(S) : u = SubSeq(w, 1, k) /\ w[k + 1] \in S /\ SubSeq(w, 1, k + 1) = Append(u, w[k + 1])
  BY <1>1, <1>2, FrontAppend
<1>4. PICK f \in Seq(T) : f = FlattenSeq(u)
  BY <1>2, <1>3, FlattenType
<1>5. PICK e \in Seq(T) : e = w[k + 1]
  BY <1>2, <1>3
<1>6. FlattenSeq(Append(u, e)) = f \o e
  BY <1>2, <1>3, <1>4, <1>5, FlattenAppend
<1>7. PiecesTo(w, i) = f /\ PiecesTo(w, i + 1) = f \o e /\ w[i] = e
  <2>1. PICK p, q : p = SubSeq(w, 1, i - 1) /\ q = SubSeq(w, 1, (i + 1) - 1)
    OBVIOUS
  <2>2. PiecesTo(w, i) = FlattenSeq(p) /\ PiecesTo(w, i + 1) = FlattenSeq(q)
    BY <2>1, Zenon DEF PiecesTo
  <2>3. p = u /\ q = Append(u, e) /\ w[i] = e
    BY <1>1, <1>3, <1>5, <2>1
  <2> QED BY <1>4, <1>6, <2>2, <2>3
<1>8. e = <<>> => f \o e = f
  OBVIOUS
<1>9. ASSUME NEW a \in T, e = Single(a) PROVE f \o e = Append(f, a)
  BY <1>9 DEF Single
<1> QED BY <1>7, <1>8, <1>9

(* Before the first piece there is nothing, behind the last one all of them. *)
LEMMA PiecesEnds ==
    ASSUME NEW T, NEW w \in Seq(Seq(T))
    PROVE  PiecesTo(w, 1) = <<>> /\ PiecesTo(w, Len(w) + 1) = FlattenSeq(w)
<1>1. Len(w) \in Nat /\ 1 - 1 = 0 /\ (Len(w) + 1) - 1 = Len(w)
  BY LenProperties
<1>2. PICK S : S = Seq(T) /\ w \in Seq(S)
  OBVIOUS
<1>3. SubSeq(w, 1, 0) = <<>> /\ Len(SubSeq(w, 1, 0)) = 0
  BY <1>2
<1>4. SubSeq(w, 1, Len(w)) = w
  BY <1>2
<1>5. FlattenSeq(<<>>) = <<>>
  BY <1>3, FlattenEmpty
<1>6. PICK p, q : p = SubSeq(w, 1, 1 - 1) /\ q = SubSeq(w, 1, (Len(w) + 1) - 1)
  OBVIOUS
<1>7. PiecesTo(w, 1) = FlattenSeq(p) /\ PiecesTo(w, Len(w) + 1) = FlattenSeq(q)
  BY <1>6, Zenon DEF PiecesTo
<1>8. p = <<>> /\ q = w
  BY <1>1, <1>3, <1>4, <1>6
<1> QED BY <1>5, <1>7, <1>8

\* What is stored of a form's first parts, as long as nothing slips.
FieldPieces == [k \in DOMAIN form.parts |-> Field(form.parts[k])]
FilePieces  == [k \in DOMAIN form.parts |-> File(form.parts[k])]
FieldsTo(i) == PiecesTo(FieldPieces, i)
FilesTo(i)  == PiecesTo(FilePieces, i)
FieldSet == {<<form.parts[k].name, form.parts[k].value>> : k \in DOMAIN form.parts}
FileSet  == {[name |-> form.parts[k].name, data |-> form.parts[k].value] : k \in DOMAIN form.parts}

(* Each part gives a piece of fields and one of files, empty or of one. *)
LEMMA PiecesAre ==
    ASSUME form.parts \in Seq(Range(form.parts))
    PROVE  /\ FieldPieces \in Seq(Seq(FieldSet)) /\ Len(FieldPieces) = Parted
           /\ FilePieces \in Seq(Seq(FileSet)) /\ Len(FilePieces) = Parted
           /\ \A i \in 1..Parted : FieldPieces[i] = Field(PartAt(i)) /\ FilePieces[i] = File(PartAt(i))
<1>1. Parted \in Nat /\ DOMAIN form.parts = 1..Parted
  BY LenProperties DEF Parted
<1>2. ASSUME NEW k \in DOMAIN form.parts
      PROVE  Field(form.parts[k]) \in Seq(FieldSet) /\ File(form.parts[k]) \in Seq(FileSet)
  <2>1. PICK a, b : /\ a = <<form.parts[k].name, form.parts[k].value>> /\ a \in FieldSet
                    /\ b = [name |-> form.parts[k].name, data |-> form.parts[k].value] /\ b \in FileSet
    BY DEF FieldSet, FileSet
  <2>2. PICK S, U : S = FieldSet /\ U = FileSet
    OBVIOUS
  <2>3. <<a>> \in Seq(S) /\ <<>> \in Seq(S) /\ <<b>> \in Seq(U) /\ <<>> \in Seq(U)
    BY <2>1, <2>2
  <2>4. Field(form.parts[k]) \in {<<>>, <<a>>} /\ File(form.parts[k]) \in {<<>>, <<b>>}
    BY <2>1 DEF Field, File
  <2> QED BY <2>2, <2>3, <2>4
<1>3. FieldPieces \in [1..Parted -> Seq(FieldSet)] /\ FilePieces \in [1..Parted -> Seq(FileSet)]
  BY <1>1, <1>2 DEF FieldPieces, FilePieces
<1>4. PICK S, U : S = Seq(FieldSet) /\ U = Seq(FileSet)
  OBVIOUS
<1>5. FieldPieces \in Seq(S) /\ Len(FieldPieces) = Parted /\ FilePieces \in Seq(U) /\ Len(FilePieces) = Parted
  <2>1. PICK n \in Nat : n = Parted
    BY <1>1
  <2>1a. PICK f \in [1..n -> S], g \in [1..n -> U] : f = FieldPieces /\ g = FilePieces
    BY <1>3, <1>4, <2>1
  <2>2. f \in Seq(S) /\ Len(f) = n
    BY FunctionIsSeq
  <2>3. g \in Seq(U) /\ Len(g) = n
    BY FunctionIsSeq
  <2> QED BY <2>1, <2>1a, <2>2, <2>3
<1>6. \A i \in 1..Parted : FieldPieces[i] = Field(PartAt(i)) /\ FilePieces[i] = File(PartAt(i))
  BY <1>1 DEF FieldPieces, FilePieces, PartAt
<1> QED BY <1>4, <1>5, <1>6

(* The next part adds its field or its file, or nothing. *)
LEMMA PartAdds ==
    ASSUME form.parts \in Seq(Range(form.parts)), NEW i \in 1..Parted
    PROVE  /\ Field(PartAt(i)) = <<>> => FieldsTo(i + 1) = FieldsTo(i)
           /\ File(PartAt(i)) = <<>> => FilesTo(i + 1) = FilesTo(i)
           /\ Field(PartAt(i)) # <<>> =>
                FieldsTo(i + 1) = Append(FieldsTo(i), <<PartAt(i).name, PartAt(i).value>>)
           /\ File(PartAt(i)) # <<>> =>
                FilesTo(i + 1) = Append(FilesTo(i), [name |-> PartAt(i).name, data |-> PartAt(i).value])
<1>1. PICK S, U, w, x :
         /\ w \in Seq(Seq(S)) /\ x \in Seq(Seq(U)) /\ S = FieldSet /\ U = FileSet /\ w = FieldPieces /\ x = FilePieces
         /\ i \in 1..Len(w) /\ i \in 1..Len(x)
         /\ w[i] = Field(PartAt(i)) /\ x[i] = File(PartAt(i))
  BY PiecesAre
<1>2. PICK a \in S, b \in U : /\ a = <<PartAt(i).name, PartAt(i).value>>
                              /\ b = [name |-> PartAt(i).name, data |-> PartAt(i).value]
  <2>1. i \in DOMAIN form.parts
    BY LenProperties DEF Parted
  <2> QED BY <1>1, <2>1 DEF FieldSet, FileSet, PartAt
<1>3. /\ w[i] = <<>> => PiecesTo(w, i + 1) = PiecesTo(w, i)
      /\ w[i] = Single(a) => PiecesTo(w, i + 1) = Append(PiecesTo(w, i), a)
  <2>1. w \in Seq(Seq(S)) /\ i \in 1..Len(w) /\ a \in S
    BY <1>1, <1>2
  <2>2. /\ w[i] = <<>> => PiecesTo(w, i + 1) = PiecesTo(w, i)
        /\ \A e \in S : w[i] = Single(e) => PiecesTo(w, i + 1) = Append(PiecesTo(w, i), e)
    BY <2>1, PiecesNext
  <2> QED BY <2>1, <2>2
<1>4. /\ x[i] = <<>> => PiecesTo(x, i + 1) = PiecesTo(x, i)
      /\ x[i] = Single(b) => PiecesTo(x, i + 1) = Append(PiecesTo(x, i), b)
  <2>1. x \in Seq(Seq(U)) /\ i \in 1..Len(x) /\ b \in U
    BY <1>1, <1>2
  <2>2. /\ x[i] = <<>> => PiecesTo(x, i + 1) = PiecesTo(x, i)
        /\ \A e \in U : x[i] = Single(e) => PiecesTo(x, i + 1) = Append(PiecesTo(x, i), e)
    BY <2>1, PiecesNext
  <2> QED BY <2>1, <2>2
<1>5. /\ Field(PartAt(i)) # <<>> => w[i] = Single(a)
      /\ File(PartAt(i)) # <<>> => x[i] = Single(b)
  BY <1>1, <1>2 DEF Field, File, Single
<1>6. /\ FieldsTo(i) = PiecesTo(w, i) /\ FieldsTo(i + 1) = PiecesTo(w, i + 1)
      /\ FilesTo(i) = PiecesTo(x, i) /\ FilesTo(i + 1) = PiecesTo(x, i + 1)
  BY <1>1 DEF FieldsTo, FilesTo
<1> QED BY <1>1, <1>2, <1>3, <1>4, <1>5, <1>6

(* Before the first part there is nothing, behind the last one everything. *)
LEMMA PiecesDone ==
    ASSUME form.parts \in Seq(Range(form.parts))
    PROVE  /\ FieldsTo(1) = <<>> /\ FilesTo(1) = <<>>
           /\ FieldsTo(Parted + 1) = Fields /\ FilesTo(Parted + 1) = Files
<1>1. PICK S, U, w, x :
         w \in Seq(Seq(S)) /\ x \in Seq(Seq(U)) /\ w = FieldPieces /\ x = FilePieces /\ Len(w) = Parted /\ Len(x) = Parted
  BY PiecesAre
<1>2. PiecesTo(w, 1) = <<>> /\ PiecesTo(w, Len(w) + 1) = FlattenSeq(w)
  BY <1>1, PiecesEnds
<1>3. PiecesTo(x, 1) = <<>> /\ PiecesTo(x, Len(x) + 1) = FlattenSeq(x)
  BY <1>1, PiecesEnds
<1>4. Fields = FlattenSeq(w) /\ Files = FlattenSeq(x)
  BY <1>1 DEF Fields, Files, FieldPieces, FilePieces
<1> QED BY <1>1, <1>2, <1>3, <1>4 DEF FieldsTo, FilesTo
-----------------------------------------------------------------------------
(* What is stored while a whole form is read and nothing slips: every part  *)
(* before the one the parser is at, and of that one the beginning of a file.*)
Sound == \A k \in DOMAIN uploads : uploads[k].linked /\ uploads[k].bytes = Len(uploads[k].data)
UpTo(i) == params = FieldsTo(i) /\ Sound /\ Stored = FilesTo(i) /\ ~fd_upload
Beginning(i) == [name |-> PartAt(i).name, data |-> SubSeq(PartAt(i).value, 1, Pos - ValueAt(form, i))]
InUpload(i) ==
    /\ params = FieldsTo(i) /\ Sound /\ Stored = Append(FilesTo(i), Beginning(i))
    /\ fd_upload /\ upfile = Len(uploads) /\ uploads # <<>>
    /\ mp > 0 /\ Pos = form.at[i + 1] => form.at[i + 1] + bound_len > rd
Keeping(i) == IF mp_state = "FILEDATA" THEN InUpload(i)
              ELSE UpTo(i) /\ (mp_state = "FLDDATA" => Pos < form.at[i + 1])
KeepingSome == \E i \in 1..Parted + 1 : Where(i) /\ Keeping(i)

\* The caller is going to drop what it could not use.
Doomed == ctl = "read" /\ mp = 0 /\ dlen > 0
AllStored == outcome = "finished" /\ params = Fields /\ Stored = Files /\ Sound
Whole == Synced /\ Hungry /\ KeepingSome

\* What a step must do while a whole form is read.
Completes == slips' = {} /\ outcome' # "failed" /\ ~Doomed' => IF Waiting' THEN Whole' ELSE AllStored'

(* A step that stores nothing keeps what was stored. *)
LEMMA KeptUpTo ==
    ASSUME Kept, NEW i, UpTo(i)
    PROVE  UpTo(i)'
BY DEF Kept, UpTo, FieldsTo, FilesTo, FieldPieces, FilePieces, Sound, Stored

(* Nothing is stored of a part that has nothing. *)
LEMMA NothingUpTo ==
    ASSUME Laid(form), NEW i \in 1..Parted, NothingOf(PartAt(i)), UpTo(i)
    PROVE  UpTo(i + 1)
BY PartAdds DEF Laid, NothingOf, UpTo

(* A step that stores nothing, and leaves the parser where it was. *)
LEMMA Stays ==
    ASSUME Kept, NEW i \in 1..Parted + 1, UpTo(i), mp_state' # "FILEDATA",
           mp_state' = "FLDDATA" => Pos' < form.at[i + 1],
           Waiting', Synced', Hungry', Where(i)'
    PROVE  Completes
<1>1. UpTo(i)'
  BY KeptUpTo
<1>2. Keeping(i)'
  BY <1>1 DEF Keeping, Kept
<1> QED BY <1>2 DEF Completes, Whole, KeepingSome, Parted, Kept

(* A step between the parts. *)
LEMMA BeginCompletes ==
    ASSUME Inv, Synced, Laid(form), form.whole, NEW i \in 1..Parted + 1, InBegin(i), UpTo(i),
           SkipToBoundary \/ FindBoundary
    PROVE  Completes
<1>1. ChunkInv
  BY DEF Inv
<1>2. CASE SkipToBoundary
  <2>1. /\ Kept /\ Waiting' /\ Synced' /\ InBegin(i)' /\ Starves(form, rd)
    BY <1>1, <1>2, SkipToBoundaryMoves
  <2>2. rd' = rd /\ form' = form
    BY <1>2 DEF SkipToBoundary, Consume
  <2>3. Hungry' /\ mp_state' = "BEGIN" /\ Where(i)'
    BY <2>1, <2>2 DEF Hungry, InBegin, Where
  <2> QED BY <2>1, <2>3, Stays
<1>3. CASE FindBoundary
  <2>1. /\ Kept
        /\ Waiting' => Synced' /\ InHeader(i)' /\ outcome' = outcome /\ Hungry'
        /\ slips' = {} => Waiting' \/ Ended(i)
    BY <1>1, <1>3, FindBoundaryMoves
  <2>2. CASE Waiting'
    <3>1. mp_state' = "HEADER" /\ Where(i)'
      BY <2>1, <2>2 DEF InHeader, Where
    <3> QED BY <2>1, <2>2, <3>1, Stays
  <2>3. CASE ~Waiting' /\ Ended(i)
    <3>1. UpTo(i)' /\ i = Parted + 1 /\ form' = form
      BY <2>1, <2>3, KeptUpTo DEF Ended, Kept
    <3>2. FieldsTo(Parted + 1) = Fields /\ FilesTo(Parted + 1) = Files
      BY PiecesDone DEF Laid
    <3>3. Fields' = Fields /\ Files' = Files /\ FieldsTo(i)' = FieldsTo(i) /\ FilesTo(i)' = FilesTo(i)
      BY <3>1 DEF Fields, Files, FieldsTo, FilesTo, FieldPieces, FilePieces
    <3>4. AllStored'
      BY <2>3, <3>1, <3>2, <3>3 DEF AllStored, UpTo, Ended
    <3> QED BY <2>3, <3>4 DEF Completes
  <2>4. CASE ~Waiting' /\ ~Ended(i)
    BY <2>1, <2>4 DEF Completes
  <2> QED BY <2>2, <2>3, <2>4
<1> QED BY <1>2, <1>3

(* A step to the next part behind one that has nothing. *)
LEMMA Passes ==
    ASSUME Kept, Laid(form), NEW i \in 1..Parted, UpTo(i), NothingOf(PartAt(i)),
           Waiting', Synced', Hungry', InBegin(i + 1)'
    PROVE  Completes
<1>1. Parted \in Nat /\ i + 1 \in 1..Parted + 1
  <2>1. Parted \in Nat
    BY LenProperties DEF Laid, Parted
  <2> QED BY <2>1
<1>2. UpTo(i + 1)
  BY NothingUpTo
<1>3. mp_state' = "BEGIN" /\ Where(i + 1)'
  BY DEF InBegin, Where
<1> QED BY <1>1, <1>2, <1>3, Stays

(* A step in the first line of a head. *)
LEMMA HeaderCompletes ==
    ASSUME Inv, Synced, Laid(form), form.whole, NEW i \in 1..Parted + 1, InHeader(i), UpTo(i),
           HeaderCut \/ HeaderTorn \/ Header
    PROVE  Completes
<1>1. ChunkInv /\ i \in 1..Parted
  BY DEF Inv, InHeader
<1>2. CASE HeaderCut
  <2>1. Kept /\ Waiting' /\ Synced' /\ Hungry' /\ InHeader(i)'
    BY <1>1, <1>2, HeaderCutMoves
  <2>2. mp_state' = "HEADER" /\ Where(i)'
    BY <2>1 DEF InHeader, Where
  <2> QED BY <2>1, <2>2, Stays
<1>3. CASE HeaderTorn
  BY <1>3 DEF HeaderTorn, Slip, Completes
<1>4. CASE Header
  <2>1. SUFFICES ASSUME slips' = {} PROVE Completes
    BY DEF Completes
  <2>2. /\ Kept /\ Waiting' /\ Synced' /\ Hungry' /\ (InBegin(i + 1) \/ InType(i) \/ InField(i))'
        /\ mp_state' = "BEGIN" => NothingOf(PartAt(i))
        /\ mp_state' = "FLDDATA" => Pos' < form.at[i + 1]
    BY <1>1, <1>4, <2>1, HeaderMoves
  <2>3. CASE InBegin(i + 1)'
    <3>1. NothingOf(PartAt(i))
      BY <2>2, <2>3 DEF InBegin
    <3> QED BY <1>1, <2>2, <2>3, <3>1, Passes
  <2>4. CASE InType(i)'
    <3>1. mp_state' = "FILETYPE" /\ Where(i)'
      BY <2>4 DEF InType, Where
    <3> QED BY <2>2, <3>1, Stays
  <2>5. CASE InField(i)'
    <3>1. mp_state' = "FLDDATA" /\ Where(i)'
      BY <2>5 DEF InField, Where
    <3> QED BY <2>2, <3>1, Stays
  <2> QED BY <2>2, <2>3, <2>4, <2>5
<1> QED BY <1>2, <1>3, <1>4

(* A step in the data of a field: it is stored when complete. *)
LEMMA FieldCompletes ==
    ASSUME Inv, Synced, Laid(form), form.whole, NEW i \in 1..Parted + 1, InField(i), UpTo(i),
           Pos < form.at[i + 1], FieldCut \/ FieldFull \/ FieldMore \/ FieldEnd
    PROVE  Completes
<1>1. ChunkInv /\ ValueInv /\ FileInv /\ i \in 1..Parted
  BY DEF Inv, InField
<1>2. CASE FieldCut
  <2>1. Kept /\ Waiting' /\ Synced' /\ Hungry' /\ InField(i)' /\ Pos' = Pos
    BY <1>1, <1>2, FieldCutMoves
  <2>2. mp_state' = "FLDDATA" /\ Where(i)' /\ Pos' < form.at[i + 1]
    BY <2>1 DEF InField, Where
  <2> QED BY <2>1, <2>2, Stays
<1>3. CASE FieldFull
  BY <1>3 DEF FieldFull, Slip, Completes
<1>4. CASE FieldMore
  <2>1. Kept /\ Waiting' /\ Synced' /\ Hungry' /\ InField(i)' /\ Pos' < form.at[i + 1]
    BY <1>1, <1>4, FieldMoreMoves
  <2>2. mp_state' = "FLDDATA" /\ Where(i)'
    BY <2>1 DEF InField, Where
  <2> QED BY <2>1, <2>2, Stays
<1>5. CASE FieldEnd
  <2>1. SUFFICES ASSUME slips' = {} PROVE Completes
    BY DEF Completes
  <2>2. /\ form' = form /\ Waiting' /\ Synced' /\ Hungry' /\ InBegin(i + 1)'
        /\ UNCHANGED <<uploads, upfile, fd_upload>> /\ PartAt(i).kind = "field"
        /\ \E m \in 1..Len(PartAt(i).value) :
             /\ params' = Append(params, <<PartAt(i).name, SubSeq(PartAt(i).value, 1, m)>>)
             /\ m = Len(PartAt(i).value)
    BY <1>1, <1>5, <2>1, FieldEndMoves
  <2>3. PICK v \in Seq(STRING) :
           v = PartAt(i).value /\ v # <<>> /\ params' = Append(params, <<PartAt(i).name, SubSeq(v, 1, Len(v))>>)
    <3>1. PartAt(i).value \in Seq(STRING)
      BY <1>1, LayoutType DEF ChunkInv, Parted, IsPlaced, PartAt
    <3>2. PartAt(i).value # <<>>
      BY <2>2, <3>1, EmptySeq
    <3> QED BY <2>2, <3>1, <3>2
  <2>4. params' = Append(params, <<PartAt(i).name, PartAt(i).value>>)
    <3>1. SubSeq(v, 1, Len(v)) = v
      OBVIOUS
    <3> QED BY <2>3, <3>1
  <2>5. Field(PartAt(i)) # <<>> /\ File(PartAt(i)) = <<>>
    BY <2>2, <2>3 DEF Field, File
  <2>6. /\ FieldsTo(i + 1) = Append(FieldsTo(i), <<PartAt(i).name, PartAt(i).value>>)
        /\ FilesTo(i + 1) = FilesTo(i)
    BY <1>1, <2>5, PartAdds DEF Laid
  <2>7. UpTo(i + 1)'
    <3>1. FieldsTo(i + 1)' = FieldsTo(i + 1) /\ FilesTo(i + 1)' = FilesTo(i + 1)
      BY <2>2 DEF FieldsTo, FilesTo, FieldPieces, FilePieces
    <3>2. Stored' = Stored /\ Sound'
      BY <2>2 DEF Stored, Sound, UpTo
    <3> QED BY <2>2, <2>4, <2>6, <3>1, <3>2 DEF UpTo
  <2>8. Keeping(i + 1)' /\ Where(i + 1)'
    BY <2>2, <2>7 DEF Keeping, InBegin, Where
  <2>9. i + 1 \in 1..Parted' + 1
    BY <1>1, <2>2, LenProperties DEF Parted, Laid
  <2> QED BY <2>2, <2>8, <2>9 DEF Completes, Whole, KeepingSome
<1> QED BY <1>2, <1>3, <1>4, <1>5

(* A new file is empty. *)
LEMMA NewUpload ==
    ASSUME Inv, NEW i \in 1..Parted, Laid(form), UpTo(i), name = PartAt(i).name, name \in Names,
           uploads' = Append(uploads, [name |-> name, data |-> <<>>, bytes |-> 0, linked |-> TRUE]),
           upfile' = Len(uploads) + 1, fd_upload' = TRUE, form' = form, params' = params,
           Pos' = ValueAt(form, i), mp' > 0 /\ Pos' = form.at[i + 1] => form.at[i + 1] + bound_len > rd'
    PROVE  InUpload(i)'
<1>1. PICK u, e, w : /\ u \in Seq(Uploads) /\ e \in Uploads /\ u = uploads /\ w = uploads'
                     /\ e = [name |-> name, data |-> <<>>, bytes |-> 0, linked |-> TRUE]
                     /\ w = Append(u, e) /\ e.name = name /\ e.data = <<>> /\ e.bytes = 0 /\ e.linked = TRUE
  <2>1. uploads \in Seq(Uploads)
    BY DEF Inv, FileInv
  <2>2. PICK label \in Names : label = name
    OBVIOUS
  <2>3. [name |-> label, data |-> <<>>, bytes |-> 0, linked |-> TRUE] \in Uploads
    BY EmptyUpload
  <2> QED BY <2>1, <2>2, <2>3
<1>2. Stored' = Append(Stored, [name |-> name, data |-> <<>>])
  <2>1. Pairs(w) = Append(Pairs(u), [name |-> e.name, data |-> e.data])
    BY <1>1, PairsAppend
  <2>2. Stored = Pairs(u) /\ Stored' = Pairs(w)
    BY <1>1 DEF Stored, Pairs
  <2> QED BY <1>1, <2>1, <2>2
<1>3. Beginning(i)' = [name |-> name, data |-> <<>>]
  <2>1. IsPlaced(form, i)
    BY LayoutType DEF Inv, ChunkInv, Parted
  <2>2. PICK s \in Seq(STRING), v \in Nat : s = PartAt(i).value /\ v = ValueAt(form, i)
    BY <2>1 DEF IsPlaced, PartAt
  <2>3. SubSeq(s, 1, v - v) = <<>>
    OBVIOUS
  <2>4. PartAt(i)' = PartAt(i) /\ ValueAt(form, i)' = ValueAt(form, i)
    BY DEF PartAt, ValueAt, HeadAt
  <2> QED BY <2>2, <2>3, <2>4 DEF Beginning
<1>4. Len(w) = Len(u) + 1 /\ w # <<>> /\ w[Len(u) + 1] = e /\ \A k \in 1..Len(u) : w[k] = u[k]
  <2>1. Len(w) = Len(u) + 1 /\ w[Len(u) + 1] = e /\ \A k \in 1..Len(u) : w[k] = u[k]
    BY <1>1
  <2>2. Len(u) + 1 # 0 /\ Len(<<>>) = 0
    BY <1>1, LenProperties
  <2> QED BY <2>1, <2>2
<1>5. Sound'
  <2>1. \A k \in DOMAIN w : k \in 1..Len(u) \/ k = Len(u) + 1
    BY <1>1, <1>4
  <2>2. \A k \in 1..Len(u) : u[k].linked /\ u[k].bytes = Len(u[k].data)
    BY <1>1 DEF UpTo, Sound
  <2>3. e.linked /\ e.bytes = Len(e.data)
    BY <1>1
  <2> QED BY <1>1, <1>4, <2>1, <2>2, <2>3 DEF Sound
<1>6. FieldsTo(i)' = FieldsTo(i) /\ FilesTo(i)' = FilesTo(i)
  BY DEF FieldsTo, FilesTo, FieldPieces, FilePieces
<1> QED BY <1>1, <1>2, <1>3, <1>4, <1>5, <1>6 DEF InUpload, UpTo

(* A step behind the first line of a file's head: its upload is made if it has data. *)
LEMMA FileTypeCompletes ==
    ASSUME Inv, Synced, Laid(form), form.whole, NEW i \in 1..Parted + 1, InType(i), UpTo(i),
           FileTypeCut \/ FileType
    PROVE  Completes
<1>1. ChunkInv /\ i \in 1..Parted /\ name = PartAt(i).name /\ name \in Names /\ PartAt(i).kind = "file"
  BY DEF Inv, ValueInv, InType
<1>2. CASE FileTypeCut
  <2>1. Kept /\ Waiting' /\ Synced' /\ Hungry' /\ InType(i)'
    BY <1>1, <1>2, FileTypeCutMoves
  <2>2. mp_state' = "FILETYPE" /\ Where(i)'
    BY <2>1 DEF InType, Where
  <2> QED BY <2>1, <2>2, Stays
<1>3. CASE FileType
  <2>1. SUFFICES ASSUME slips' = {} PROVE Completes
    BY DEF Completes
  <2>2. /\ form' = form /\ Waiting' /\ Synced' /\ Hungry' /\ params' = params /\ Pos' = ValueAt(form, i)
        /\ \/ mp_state' = "BEGIN" /\ Kept /\ InBegin(i + 1)' /\ NothingOf(PartAt(i))
           \/ /\ mp_state' = "FILEDATA" /\ createXferFile(name) /\ InFile(i)'
              /\ form.at[i + 1] = Pos' => form.at[i + 1] + bound_len > rd
    BY <1>1, <1>3, <2>1, FileTypeMoves
  <2>3. CASE mp_state' = "BEGIN" /\ Kept /\ InBegin(i + 1)' /\ NothingOf(PartAt(i))
    BY <1>1, <2>2, <2>3, Passes
  <2>4. CASE /\ mp_state' = "FILEDATA" /\ createXferFile(name) /\ InFile(i)'
             /\ form.at[i + 1] = Pos' => form.at[i + 1] + bound_len > rd
    <3>1. /\ uploads' = Append(uploads, [name |-> name, data |-> <<>>, bytes |-> 0, linked |-> TRUE])
          /\ upfile' = Len(uploads) + 1 /\ fd_upload' = TRUE
      BY <2>1, <2>4 DEF createXferFile, Slip
    <3>2. rd' = rd
      BY <1>3 DEF FileType, Consume
    <3>3. InUpload(i)'
      BY <1>1, <2>2, <2>4, <3>1, <3>2, NewUpload
    <3>4. Keeping(i)' /\ Where(i)' /\ i \in 1..Parted' + 1
      BY <2>2, <2>4, <3>3 DEF Keeping, Where, Parted
    <3> QED BY <2>2, <3>4 DEF Completes, Whole, KeepingSome
  <2> QED BY <2>2, <2>3, <2>4
<1> QED BY <1>2, <1>3

-----------------------------------------------------------------------------
(* The last of several files grows. *)
LEMMA LastSet ==
    ASSUME NEW T, NEW q \in Seq(T), NEW r, NEW s
    PROVE  /\ Append(q, r)[Len(q) + 1] = r /\ Len(Append(q, r)) = Len(q) + 1
           /\ [Append(q, r) EXCEPT ![Len(q) + 1] = s] = Append(q, s)
<1>1. PICK n \in Nat : n = Len(q) /\ DOMAIN q = 1..n
  BY LenProperties
<1>2. PICK U : q \in Seq(U) /\ r \in U /\ s \in U
  <2> DEFINE V == T \cup {r, s}
  <2>1. T \subseteq V /\ r \in V /\ s \in V
    OBVIOUS
  <2> HIDE DEF V
  <2>2. q \in Seq(V)
    BY <2>1, SeqMonotonic
  <2> QED BY <2>1, <2>2
<1>3. /\ Append(q, r) \in Seq(U) /\ Len(Append(q, r)) = n + 1 /\ Append(q, r)[n + 1] = r
      /\ \A k \in 1..n : Append(q, r)[k] = q[k]
  BY <1>1, <1>2, AppendProperties
<1>4. /\ Append(q, s) \in Seq(U) /\ Len(Append(q, s)) = n + 1 /\ Append(q, s)[n + 1] = s
      /\ \A k \in 1..n : Append(q, s)[k] = q[k]
  BY <1>1, <1>2, AppendProperties
<1>5. [Append(q, r) EXCEPT ![n + 1] = s] = Append(q, s)
  <2>1. PICK t \in Seq(U) : t = Append(q, r)
    BY <1>3
  <2>2. PICK i : i = n + 1 /\ i \in 1..Len(t) /\ Len(t) = i
    BY <1>1, <1>3, <2>1
  <2>3. PICK w \in Seq(U), x \in Seq(U) : /\ w = [t EXCEPT ![i] = s] /\ x = Append(q, s) /\ Len(w) = i /\ Len(x) = i
                                        /\ \A k \in 1..i : w[k] = IF k = i THEN s ELSE t[k]
    <3>1. s \in U /\ t \in Seq(U) /\ i \in 1..Len(t)
      BY <1>2, <2>1, <2>2
    <3>2. /\ [t EXCEPT ![i] = s] \in Seq(U) /\ Len([t EXCEPT ![i] = s]) = Len(t)
          /\ \A k \in 1..Len(t) : [t EXCEPT ![i] = s][k] = IF k = i THEN s ELSE t[k]
      BY <3>1, ExceptSeq
    <3>3. Len(t) = i /\ Append(q, s) \in Seq(U) /\ Len(Append(q, s)) = i
      BY <1>4, <2>2
    <3> QED BY <3>2, <3>3
  <2>4. \A k \in 1..i : k = i \/ k \in 1..n
    BY <1>1, <2>2
  <2>5. \A k \in 1..i : w[k] = x[k]
    BY <1>3, <1>4, <2>1, <2>2, <2>3, <2>4
  <2>6. w = x
    BY <2>3, <2>5, SeqEqual
  <2> QED BY <2>1, <2>2, <2>3, <2>6
<1> QED BY <1>1, <1>3, <1>5

EntryOf(a, b) == [name |-> a, data |-> b]
(* What FormParts knows of an upload, with other data. *)
LEMMA EntrySets ==
    ASSUME NEW a, NEW b, NEW c
    PROVE  EntryOf(a, b).name = a /\ EntryOf(a, b).data = b /\ [EntryOf(a, b) EXCEPT !.data = c] = EntryOf(a, c)
BY DEF EntryOf

(* The last of the files with more data. *)
LEMMA StoresGrow ==
    ASSUME NEW T, NEW q \in Seq(T), NEW u, NEW a, NEW b, NEW c, NEW p, NEW N, N = Len(q) + 1,
           Pairs(u) = Append(q, EntryOf(a, b)), SetsData(p, u, N, c)
    PROVE  p = Append(q, EntryOf(a, c))
<1>1. PICK r, s : r = EntryOf(a, b) /\ s = EntryOf(a, c) /\ [r EXCEPT !.data = c] = s
  BY EntrySets
<1>2. /\ Append(q, r)[Len(q) + 1] = r
      /\ [Append(q, r) EXCEPT ![Len(q) + 1] = s] = Append(q, s)
  BY LastSet
<1>3. PICK t : t = Append(q, r) /\ t[N] = r /\ [t EXCEPT ![N] = s] = Append(q, s)
  BY <1>2
<1>4. p = [t EXCEPT ![N].data = c]
  BY <1>1, <1>3 DEF SetsData
<1>5. [t EXCEPT ![N].data = c] = [t EXCEPT ![N] = [t[N] EXCEPT !.data = c]]
  OBVIOUS
<1> QED BY <1>1, <1>3, <1>4, <1>5

(* The files of the first parts are files of the form. *)
LEMMA FilesType ==
    ASSUME Laid(form), NEW i \in 1..Parted
    PROVE  FilesTo(i) \in Seq(FileSet)
<1>1. PICK U, x : x \in Seq(Seq(U)) /\ U = FileSet /\ x = FilePieces /\ i \in 1..Len(x)
  BY PiecesAre DEF Laid
<1>2. PiecesTo(x, i) \in Seq(U)
  BY <1>1, PiecesNext
<1> QED BY <1>1, <1>2 DEF FilesTo

(* What is in the upload is the beginning of the part's file. *)
LEMMA UploadIs ==
    ASSUME Inv, Laid(form), NEW i \in 1..Parted, InFile(i), InUpload(i)
    PROVE  Growing(i) /\ upfile = Len(FilesTo(i)) + 1 /\ upfile \in 1..Len(uploads)
<1>1. PICK q, T : q = FilesTo(i) /\ T = FileSet /\ q \in Seq(T)
  BY FilesType
<1>2. PICK u \in Seq(Uploads), N \in Nat : u = uploads /\ N = Len(u) /\ N # 0 /\ N = upfile
  BY EmptySeq, LenProperties DEF Inv, FileInv, InUpload
<1>3. PICK a, b : a = PartAt(i).name /\ b = SubSeq(PartAt(i).value, 1, Pos - ValueAt(form, i))
  OBVIOUS
<1>4. Pairs(u) = Append(q, EntryOf(a, b))
  BY <1>1, <1>2, <1>3 DEF InUpload, Beginning, EntryOf, Stored, Pairs
<1>5. Len(Pairs(u)) = N /\ Pairs(u)[N] = EntryOf(u[N].name, u[N].data)
  <2>1. N \in 1..Len(u)
    BY <1>2
  <2>2. Len(Pairs(u)) = Len(u) /\ Pairs(u)[N] = [name |-> u[N].name, data |-> u[N].data]
    BY <2>1, PairsOf
  <2> QED BY <1>2, <2>2 DEF EntryOf
<1>6. PICK r : r = EntryOf(a, b)
  OBVIOUS
<1>7. Append(q, r)[Len(q) + 1] = r /\ Len(Append(q, r)) = Len(q) + 1
  BY <1>1, LastSet
<1>8. N = Len(q) + 1 /\ EntryOf(u[N].name, u[N].data) = EntryOf(a, b)
  BY <1>4, <1>5, <1>6, <1>7
<1>9. u[N].name = a /\ u[N].data = b
  BY <1>8, EntrySets
<1>10. mp_state = "FILEDATA" /\ uploads # <<>>
  BY DEF InFile, InUpload
<1> QED BY <1>1, <1>2, <1>3, <1>8, <1>9, <1>10 DEF Growing

(* Its next bytes make it longer, and are counted. *)
LEMMA UploadGrows ==
    ASSUME Inv, Synced, Laid(form), NEW i \in 1..Parted, InFile(i), InUpload(i),
           NEW m \in Nat, m > 0, m <= dlen, Pos + m <= form.at[i + 1], Extended(m),
           form' = form, params' = params
    PROVE  /\ Sound' /\ uploads' # <<>> /\ upfile = Len(uploads')
           /\ Stored' = Append(FilesTo(i), [name |-> PartAt(i).name,
                                            data |-> SubSeq(PartAt(i).value, 1, Pos + m - ValueAt(form, i))])
<1>1. Growing(i) /\ upfile = Len(FilesTo(i)) + 1 /\ upfile \in 1..Len(uploads) /\ fd_upload
  BY UploadIs DEF InUpload
<1>2. /\ uploads'[upfile].data = SubSeq(PartAt(i).value, 1, Pos + m - ValueAt(form, i))
      /\ uploads' # <<>> /\ upfile = Len(uploads')
      /\ SetsData(Stored', uploads, upfile, SubSeq(PartAt(i).value, 1, Pos + m - ValueAt(form, i)))
  BY <1>1, GrowRecords
<1>3. PICK q, T, a, b, c, u, p, N :
         /\ q \in Seq(T) /\ q = FilesTo(i) /\ a = PartAt(i).name
         /\ b = SubSeq(PartAt(i).value, 1, Pos - ValueAt(form, i))
         /\ c = SubSeq(PartAt(i).value, 1, Pos + m - ValueAt(form, i))
         /\ u = uploads /\ p = Stored' /\ N = upfile
  BY FilesType
<1>4. p = Append(q, EntryOf(a, c))
  <2>1. q \in Seq(T) /\ N = Len(q) + 1 /\ SetsData(p, u, N, c)
    BY <1>1, <1>2, <1>3
  <2>2. Pairs(u) = Append(q, EntryOf(a, b))
    BY <1>3 DEF InUpload, Beginning, EntryOf, Stored, Pairs
  <2> QED BY <2>1, <2>2, StoresGrow
<1>5. PICK v \in Seq(STRING), k \in Nat :
        /\ v = PartAt(i).value /\ uploads[upfile].data = SubSeq(v, 1, k) /\ Len(SubSeq(v, 1, k)) = k
        /\ c = SubSeq(v, 1, k + m) /\ Len(c) = k + m /\ k + m < SizeLimit
  <2>1. IsPlaced(form, i) /\ i \in 1..Len(form.parts) /\ form \in Forms /\ ChunkInv
    BY LayoutType DEF Inv, ChunkInv, Parted
  <2>2. PICK x \in Nat, y \in Nat, d \in Nat : x = Pos /\ y = ValueAt(form, i) /\ y <= x /\ d = dlen /\ rd = x + d
    BY <1>1, <2>1, SyncedData DEF IsPlaced, InFile
  <2>3. PICK k \in Nat : x = y + k
    <3>1. x - y \in Nat /\ x = y + (x - y)
      BY <2>2
    <3> QED BY <3>1
  <2>4. /\ PartAt(i).value \in Seq(STRING) /\ k + m <= Len(PartAt(i).value)
        /\ Len(SubSeq(PartAt(i).value, 1, k + m)) = k + m
    <3>1. Pos = ValueAt(form, i) + k
      BY <2>2, <2>3
    <3>2. ChunkInv /\ Synced /\ Laid(form) /\ i \in 1..Parted
      BY <2>1
    <3>3. m \in Nat /\ m <= dlen /\ Pos + m <= form.at[i + 1]
      OBVIOUS
    <3> QED BY <3>1, <3>2, <3>3, TakesOn
  <2>5. PICK v \in Seq(STRING) : v = PartAt(i).value
    BY <2>4
  <2>6. Len(SubSeq(v, 1, k)) = k
    <3>1. Len(v) \in Nat /\ k <= Len(v)
      BY <2>4, <2>5, LenProperties
    <3> QED BY <3>1
  <2>7. x - y = k /\ x + m - y = k + m
    <3>1. x \in Nat /\ y \in Nat /\ k \in Nat /\ m \in Nat /\ x = y + k
      BY <2>2, <2>3
    <3> QED BY <3>1
  <2>8. k + m < SizeLimit
    <3>1. PICK s \in Nat : s = Len(form.spool) /\ s < SizeLimit /\ rd <= s
      BY <2>1, MultipartAssumption, LenProperties DEF ChunkInv
    <3>2. k + m <= s
      <4>1. x \in Nat /\ y \in Nat /\ k \in Nat /\ m \in Nat /\ d \in Nat /\ s \in Nat
            /\ x = y + k /\ m <= d /\ x + d <= s
        BY <2>2, <2>3, <3>1
      <4> QED BY <4>1
    <3> QED BY <3>1, <3>2, MultipartAssumption
  <2> QED BY <1>1, <1>3, <2>2, <2>4, <2>5, <2>6, <2>7, <2>8 DEF Growing
<1>6. uploads[upfile].linked /\ uploads[upfile].bytes = k
  <2>1. upfile \in DOMAIN uploads
    BY <1>1, LenProperties DEF Inv, FileInv
  <2> QED BY <1>5, <2>1 DEF InUpload, Sound
<1>7. Counted(Result(m)) = k + m /\ k + m # 0
  <2>1. Counted(Result(m)) = (k + m) % SizeLimit
    BY <1>1, <1>6 DEF Counted, Result
  <2>2. PICK l \in Nat \ {0} : l = SizeLimit
    BY MultipartAssumption
  <2>3. (k + m) % l = k + m /\ k + m # 0
    <3>1. PICK n \in Nat : n = k + m /\ n < l /\ n # 0
      BY <1>5, <2>2
    <3>2. n % l = n
      BY <2>2, <3>1
    <3> QED BY <3>1, <3>2
  <2> QED BY <2>1, <2>2, <2>3
<1>8. uploads'[upfile].linked /\ uploads'[upfile].bytes = Len(uploads'[upfile].data)
  BY <1>1, <1>2, <1>3, <1>5, <1>6, <1>7 DEF Extended
<1>9. Sound'
  <2>1. DOMAIN uploads' = 1..Len(uploads) /\ DOMAIN uploads = 1..Len(uploads)
    BY LenProperties DEF Extended, Inv, FileInv
  <2>2. \A k1 \in 1..Len(uploads) : k1 # upfile => uploads'[k1] = uploads[k1]
    BY DEF Extended
  <2> QED BY <1>8, <2>1, <2>2 DEF Sound, InUpload
<1> QED BY <1>2, <1>3, <1>4, <1>9 DEF EntryOf

(* A step in the data of a file: the upload grows until it has all of it. *)
LEMMA FileCompletes ==
    ASSUME Inv, Synced, Laid(form), form.whole, NEW i \in 1..Parted + 1, InFile(i), InUpload(i),
           FileDataCut \/ FileDataMore \/ FileDataEnd
    PROVE  Completes
<1>0. SUFFICES ASSUME "unwritten" \notin slips' PROVE Completes
  BY DEF Completes
<1>1. /\ ChunkInv /\ FileInv /\ Parted \in Nat /\ i \in 1..Parted /\ i \in 1..Parted + 1 /\ i + 1 \in 1..Parted + 1
      /\ mp_state = "FILEDATA" /\ fd_upload /\ PartAt(i).kind = "file" /\ params = FieldsTo(i)
  BY LayoutType DEF Inv, ChunkInv, Parted, InFile, InUpload
<1>2. CASE FileDataCut
  <2>1. Kept /\ Waiting' /\ Synced' /\ Hungry' /\ InFile(i)' /\ mp' = mp /\ Pos' = Pos
    BY <1>1, <1>2, FileDataCutMoves
  <2>2. rd' = rd
    BY <1>2 DEF FileDataCut, Consume
  <2>3. InUpload(i)'
    BY <2>1, <2>2 DEF InUpload, Kept, FieldsTo, FilesTo, FieldPieces, FilePieces, Sound, Stored, Beginning,
                      PartAt, ValueAt, HeadAt
  <2>4. Keeping(i)' /\ Where(i)' /\ i \in 1..Parted' + 1
    BY <1>1, <2>1, <2>3 DEF Keeping, InFile, Where, Kept, Parted
  <2> QED BY <2>1, <2>4 DEF Completes, Whole, KeepingSome
<1>3. CASE FileDataMore
  <2>1. /\ form' = form /\ params' = params /\ upfile' = upfile /\ fd_upload' = fd_upload
        /\ WriteUpload(Result(Searched)) /\ Synced' /\ InFile(i)' /\ Waiting' /\ Hungry'
        /\ Searched \in Nat /\ Searched <= dlen /\ Pos' = Pos + Searched
        /\ form.at[i + 1] + bound_len > rd
    BY <1>0, <1>1, <1>3, FileDataMoreMoves
  <2>2. PICK m \in 0..dlen : m = Searched /\ m \in Nat /\ m > 0
    <3>1. PICK d \in Nat, n \in Nat : d = dlen /\ n = bound_len /\ d >= n
      BY <1>1, <1>3, SyncedData, BoundLength DEF FileDataMore
    <3>2. Searched = d - n + 1
      BY <3>1 DEF Searched
    <3>3. d - n + 1 > 0
      BY <3>1
    <3> QED BY <2>1, <3>1, <3>2, <3>3
  <2>3. Extended(m)
    BY <2>1, <2>2, WriteExtends
  <2>4. m <= dlen /\ Pos + m <= form.at[i + 1] /\ mp_state' = "FILEDATA"
    <3>1. Pos' <= form.at[i + 1] /\ mp_state' = "FILEDATA"
      BY <2>1 DEF InFile
    <3> QED BY <2>1, <2>2, <3>1
  <2>5. /\ Sound' /\ uploads' # <<>> /\ upfile = Len(uploads')
        /\ Stored' = Append(FilesTo(i), [name |-> PartAt(i).name,
                                         data |-> SubSeq(PartAt(i).value, 1, Pos + m - ValueAt(form, i))])
    BY <1>1, <2>1, <2>2, <2>3, <2>4, UploadGrows
  <2>6. FieldsTo(i)' = FieldsTo(i) /\ FilesTo(i)' = FilesTo(i) /\ PartAt(i)' = PartAt(i)
        /\ ValueAt(form, i)' = ValueAt(form, i)
    BY <2>1 DEF FieldsTo, FilesTo, FieldPieces, FilePieces, PartAt, ValueAt, HeadAt
  <2>7. Pos + m - ValueAt(form, i) = Pos' - ValueAt(form, i)'
    <3>1. Pos \in Nat
      BY <1>1, SyncedData
    <3>2. ValueAt(form, i) \in Nat
      BY <1>1, LayoutType DEF IsPlaced, Parted, ChunkInv
    <3>3. PICK p \in Nat, v \in Nat : p = Pos /\ v = ValueAt(form, i) /\ Pos' = p + m /\ ValueAt(form, i)' = v
      BY <2>1, <2>2, <2>6, <3>1, <3>2
    <3>4. p + m - v = (p + m) - v
      BY <2>2, <3>3
    <3> QED BY <3>3, <3>4
  <2>8. Stored' = Append(FilesTo(i)', Beginning(i)')
    BY <2>5, <2>6, <2>7 DEF Beginning
  <2>9. rd' = rd
    BY <1>3 DEF FileDataMore, Consume
  <2>10. InUpload(i)'
    BY <1>1, <2>1, <2>5, <2>6, <2>8, <2>9 DEF InUpload
  <2>11. Keeping(i)' /\ Where(i)' /\ i \in 1..Parted' + 1
    BY <1>1, <2>1, <2>4, <2>10 DEF Keeping, Where, Parted
  <2> QED BY <2>1, <2>11 DEF Completes, Whole, KeepingSome
<1>4. CASE FileDataEnd
  <2>1. /\ form' = form /\ params' = params /\ fd_upload' = FALSE /\ Synced' /\ Waiting' /\ InBegin(i + 1)'
        /\ memmem \in Nat /\ memmem <= dlen /\ Pos + memmem = form.at[i + 1]
        /\ form.at[i + 1] + bound_len <= rd
        /\ IF memmem > 0 THEN Hungry' ELSE ctl' = "read" /\ mp' = mp /\ dlen' = dlen /\ dlen > 0
        /\ EndUpload(Result(memmem))
    BY <1>0, <1>1, <1>4, FileDataEndMoves
  <2>2. PICK m \in 0..dlen : m = memmem /\ m \in Nat
    <3>1. dlen \in Nat
      BY <1>1, SyncedData
    <3>2. memmem \in 0..dlen
      BY <2>1, <3>1
    <3> QED BY <2>1, <3>2
  <2>3. form.at[i + 1] \in Nat /\ Pos \in Nat /\ rd \in Nat /\ mp \in Nat /\ ValueAt(form, i) \in Nat
    BY <1>1, SyncedData, LayoutType DEF ChunkInv, Parted, IsPlaced
  <2>4. CASE m = 0
    <3>1. Pos = form.at[i + 1]
      BY <2>1, <2>2, <2>3, <2>4
    <3>2. PICK e \in Nat, n \in Nat, r \in Nat : e = form.at[i + 1] /\ n = bound_len /\ r = rd
      BY <2>3, BoundLength
    <3>3. ~(e + n > r)
      BY <2>1, <3>2
    <3>4. ~(mp > 0)
      BY <3>1, <3>2, <3>3 DEF InUpload
    <3>5. mp = 0
      BY <2>3, <3>4
    <3>6. Doomed'
      BY <2>1, <2>2, <2>4, <3>5 DEF Doomed
    <3> QED BY <3>6 DEF Completes
  <2>5. CASE m > 0
    <3>1. Extended(m)
      BY <2>1, <2>2, EndExtends
    <3>2. m <= dlen /\ Pos + m <= form.at[i + 1] /\ Hungry'
      BY <2>1, <2>2, <2>3, <2>5
    <3>3. /\ Sound'
          /\ Stored' = Append(FilesTo(i), [name |-> PartAt(i).name,
                                           data |-> SubSeq(PartAt(i).value, 1, Pos + m - ValueAt(form, i))])
      BY <1>1, <2>1, <2>5, <3>1, <3>2, UploadGrows
    <3>4. SubSeq(PartAt(i).value, 1, Pos + m - ValueAt(form, i)) = PartAt(i).value /\ PartAt(i).value # <<>>
      <4>1. IsPlaced(form, i)
        BY <1>1, LayoutType DEF ChunkInv, Parted
      <4>2. PICK s \in Seq(STRING), v \in Nat, w \in Nat :
               s = PartAt(i).value /\ v = ValueAt(form, i) /\ w = Len(s) /\ form.at[i + 1] = v + w
        BY <4>1 DEF IsPlaced, PartAt
      <4>3. PICK p \in Nat : p = Pos /\ p + m = v + w /\ v <= p
        BY <1>1, <2>1, <2>2, <2>3, <4>2 DEF InFile
      <4>4. p + m - v = w /\ w # 0
        <5>1. p \in Nat /\ m \in Nat /\ v \in Nat /\ w \in Nat /\ p + m = v + w /\ v <= p /\ m > 0
          BY <2>5, <4>2, <4>3
        <5> QED BY <5>1
      <4>5. SubSeq(s, 1, w) = s /\ s # <<>>
        BY <4>2, <4>4, EmptySeq
      <4> QED BY <4>2, <4>3, <4>4, <4>5
    <3>5. Field(PartAt(i)) = <<>> /\ File(PartAt(i)) # <<>>
      BY <1>1, <3>4 DEF Field, File
    <3>6. /\ FieldsTo(i + 1) = FieldsTo(i)
          /\ FilesTo(i + 1) = Append(FilesTo(i), [name |-> PartAt(i).name, data |-> PartAt(i).value])
      BY <1>1, <3>5, PartAdds DEF Laid
    <3>7. FieldsTo(i + 1)' = FieldsTo(i + 1) /\ FilesTo(i + 1)' = FilesTo(i + 1)
      BY <2>1 DEF FieldsTo, FilesTo, FieldPieces, FilePieces
    <3>8. UpTo(i + 1)'
      BY <1>1, <2>1, <3>3, <3>4, <3>6, <3>7 DEF UpTo
    <3>9. Keeping(i + 1)' /\ Where(i + 1)' /\ i + 1 \in 1..Parted' + 1
      BY <1>1, <2>1, <3>8 DEF Keeping, InBegin, Where, Parted
    <3> QED BY <2>1, <3>2, <3>9 DEF Completes, Whole, KeepingSome
  <2> QED BY <2>4, <2>5
<1> QED BY <1>2, <1>3, <1>4

(* Every call of the parser while a whole form is read. *)
LEMMA ParseCompletes ==
    ASSUME Inv, Laid(form), form.whole, Whole, parseMultipart
    PROVE  Completes
<1>1. PICK i \in 1..Parted + 1 : Where(i) /\ Keeping(i)
  BY DEF Whole, KeepingSome
<1>2. Synced
  BY DEF Whole
<1>3. CASE InBegin(i)
  <2>1. SkipToBoundary \/ FindBoundary
    BY <1>3 DEF InBegin, parseMultipart, Parsing, HeaderCut, HeaderTorn, Header, FileTypeCut, FileType,
                FileDataCut, FileDataMore, FileDataEnd, FieldCut, FieldFull, FieldMore, FieldEnd
  <2>2. UpTo(i)
    BY <1>1, <1>3 DEF Keeping, InBegin
  <2> QED BY <1>2, <1>3, <2>1, <2>2, BeginCompletes
<1>4. CASE InHeader(i)
  <2>1. HeaderCut \/ HeaderTorn \/ Header
    BY <1>4 DEF InHeader, parseMultipart, Parsing, SkipToBoundary, FindBoundary, FileTypeCut, FileType,
                FileDataCut, FileDataMore, FileDataEnd, FieldCut, FieldFull, FieldMore, FieldEnd
  <2>2. UpTo(i)
    BY <1>1, <1>4 DEF Keeping, InHeader
  <2> QED BY <1>2, <1>4, <2>1, <2>2, HeaderCompletes
<1>5. CASE InType(i)
  <2>1. FileTypeCut \/ FileType
    BY <1>5 DEF InType, parseMultipart, Parsing, SkipToBoundary, FindBoundary, HeaderCut, HeaderTorn, Header,
                FileDataCut, FileDataMore, FileDataEnd, FieldCut, FieldFull, FieldMore, FieldEnd
  <2>2. UpTo(i)
    BY <1>1, <1>5 DEF Keeping, InType
  <2> QED BY <1>2, <1>5, <2>1, <2>2, FileTypeCompletes
<1>6. CASE InFile(i)
  <2>1. FileDataCut \/ FileDataMore \/ FileDataEnd
    BY <1>6 DEF InFile, parseMultipart, Parsing, SkipToBoundary, FindBoundary, HeaderCut, HeaderTorn, Header,
                FileTypeCut, FileType, FieldCut, FieldFull, FieldMore, FieldEnd
  <2>2. InUpload(i)
    BY <1>1, <1>6 DEF Keeping, InFile
  <2> QED BY <1>2, <1>6, <2>1, <2>2, FileCompletes
<1>7. CASE InField(i)
  <2>1. FieldCut \/ FieldFull \/ FieldMore \/ FieldEnd
    BY <1>7 DEF InField, parseMultipart, Parsing, SkipToBoundary, FindBoundary, HeaderCut, HeaderTorn, Header,
                FileTypeCut, FileType, FileDataCut, FileDataMore, FileDataEnd
  <2>2. UpTo(i) /\ Pos < form.at[i + 1]
    BY <1>1, <1>7 DEF Keeping, InField
  <2> QED BY <1>2, <1>7, <2>1, <2>2, FieldCompletes
<1> QED BY <1>1, <1>3, <1>4, <1>5, <1>6, <1>7 DEF Where

(* The first chunk. *)
LEMMA StartCompletes ==
    ASSUME Inv, CallInv, Start
    PROVE  Completes
<1>1. /\ ctl = "start" /\ rd = 0 /\ mp_state = "BEGIN" /\ params = <<>> /\ uploads = <<>> /\ ~fd_upload
      /\ Laid(form) /\ ChunkInv
  BY DEF Start, CallInv, Inv
<1>2. Parted \in Nat /\ 1 \in 1..Parted + 1
  BY <1>1, LayoutType DEF ChunkInv, Parted
<1>3. UpTo(1)
  <2>1. FieldsTo(1) = <<>> /\ FilesTo(1) = <<>>
    BY <1>1, PiecesDone DEF Laid
  <2>2. Stored = <<>>
    BY <1>1 DEF Stored
  <2>3. Sound
    BY <1>1 DEF Sound
  <2> QED BY <1>1, <2>1, <2>2, <2>3 DEF UpTo
<1>4. /\ Kept /\ (Waiting' => ctl' = "parse" /\ Synced' /\ InBegin(1)')
      /\ outcome' # "failed" => Waiting'
  BY <1>1, StartMoves
<1>5. CASE Waiting'
  <2>1. Hungry' /\ Where(1)' /\ mp_state' = "BEGIN"
    BY <1>4, <1>5 DEF Hungry, Where, InBegin
  <2> QED BY <1>2, <1>3, <1>4, <1>5, <2>1, Stays
<1>6. CASE ~Waiting'
  BY <1>4, <1>6 DEF Completes
<1> QED BY <1>5, <1>6

(* What is left is carried over, or was used up, or it is dropped. *)
LEMMA ReadMoreCompletes ==
    ASSUME Inv, CallInv, form.whole, Whole, ReadMore
    PROVE  Completes
<1>1. SUFFICES ASSUME slips' = {}, outcome' # "failed" PROVE Completes
  BY DEF Completes
<1>2. PICK i \in 1..Parted + 1 : Where(i) /\ Keeping(i)
  BY DEF Whole, KeepingSome
<1>3. Synced /\ Hungry /\ ChunkInv /\ ctl = "read" /\ Laid(form) /\ brmax <= Len(mem)
  BY DEF Whole, Inv, CallInv, ReadMore, Waiting
<1>4. Left > 0
  BY <1>2, <1>3, MoreToCome
<1>5. Carries => mp > 0
  <2>1. PICK m \in Nat, l \in Nat, d \in Nat, b \in Nat :
           m = mp /\ l = Len(mem) /\ d = dlen /\ b = brmax /\ l = m + d /\ b <= l
    <3>1. brmax \in Nat
      BY <1>3, MultipartAssumption DEF ChunkInv
    <3> QED BY <1>3, <3>1, SyncedData
  <2>2. d < b => m > 0
    BY <2>1
  <2> QED BY <2>1, <2>2 DEF Carries
<1>6. "dropped" \notin slips'
  BY <1>1
<1>7. /\ Kept /\ UNCHANGED <<mp_state, name, flddata>> /\ ctl' # "read" /\ Waiting'
      /\ Synced' /\ Pos' = Pos /\ mp' = 0
  BY <1>1, <1>3, <1>4, <1>5, <1>6, ReadMoreMoves
<1>8. Where(i)'
  BY <1>2, <1>7 DEF Where, InBegin, InHeader, InType, InFile, InField, IsNextAt, Kept, Parted, PartAt, HeadAt, ValueAt
<1>9. Hungry'
  BY <1>7 DEF Hungry
<1>10. Keeping(i)'
  <2>1. CASE mp_state = "FILEDATA"
    <3>1. InUpload(i) /\ ~(mp' > 0)
      BY <1>2, <1>7, <2>1 DEF Keeping
    <3>2. InUpload(i)'
      BY <1>7, <3>1 DEF InUpload, Kept, FieldsTo, FilesTo, FieldPieces, FilePieces, Sound, Stored, Beginning,
                        PartAt, ValueAt, HeadAt
    <3> QED BY <1>7, <2>1, <3>2 DEF Keeping
  <2>2. CASE mp_state # "FILEDATA"
    <3>1. UpTo(i) /\ (mp_state = "FLDDATA" => Pos < form.at[i + 1])
      BY <1>2, <2>2 DEF Keeping
    <3>2. UpTo(i)'
      BY <1>7, <3>1, KeptUpTo
    <3> QED BY <1>7, <2>2, <3>1, <3>2 DEF Keeping, Kept
  <2> QED BY <2>1, <2>2
<1> QED BY <1>2, <1>7, <1>8, <1>9, <1>10 DEF Completes, Whole, KeepingSome, Parted, Kept

-----------------------------------------------------------------------------
(* The invariant of a reading in which nothing slipped: of a form, and of a *)
(* body that is none.                                                       *)
Clean == slips = {} /\ form.whole /\ outcome # "failed"
WholeForm ==
    Clean /\ form.parts[1].kind # "body" /\ ~Doomed =>
        /\ Waiting => Whole
        /\ ctl \in {"done", "over"} => AllStored
WholeBody ==
    Clean /\ form.parts[1].kind = "body" =>
        /\ ctl = "copy" => fd_upload
        /\ ctl = "over" => outcome = "finished" /\ params = <<>> /\ uploads = <<BodyOf(form.spool)>>
ReadSoFar == WholeForm /\ WholeBody

(* A step from a clean reading, or to none. *)
LEMMA CleanBefore ==
    ASSUME CallInv, Next, form' = form, Clean', ctl \notin {"done", "over"}
    PROVE  Clean
<1>1. slips = {}
  BY SlipsGrow DEF Clean
<1> QED BY <1>1 DEF Clean, CallInv

(* Bytes the caller cannot use are dropped with the next chunk. *)
LEMMA DoomedSlips ==
    ASSUME Inv, CallInv, Doomed, ReadMore
    PROVE  slips' # {}
<1>1. ctl = "read" /\ mp = 0 /\ dlen > 0 /\ brmax <= Len(mem)
  BY DEF Doomed, CallInv, Waiting
<1>2. PICK l \in Nat, d \in Nat, b \in Nat : l = Len(mem) /\ d = dlen /\ b = brmax /\ l = d /\ b <= l
  <2>1. brmax \in Nat /\ Len(mem) \in Nat
    BY MultipartAssumption, LenProperties DEF Inv, ChunkInv
  <2>2. dlen = Len(mem) - mp /\ dlen \in Nat
    BY DataType DEF Inv
  <2>3. Len(mem) = dlen
    BY <1>1, <2>1, <2>2
  <2> QED BY <1>1, <2>1, <2>2, <2>3
<1>3. ~(d < b)
  BY <1>2
<1>4. ~Carries
  BY <1>2, <1>3 DEF Carries
<1>5. Slip("dropped", dlen > 0 /\ ~Carries)
  BY DEF ReadMore
<1> QED BY <1>1, <1>4, <1>5 DEF Slip

(* Every step of a form's reading. *)
LEMMA WholeFormNext ==
    ASSUME Inv, CallInv, CallInv', WholeForm, [Next]_vars
    PROVE  WholeForm'
<1>1. CASE UNCHANGED vars
  <2>1. Pos' = Pos /\ Parted' = Parted /\ form' = form /\ Stored' = Stored
    BY <1>1 DEF Pos, dlen, data, Parted, Stored
  <2>2. (Clean' <=> Clean) /\ (Doomed' <=> Doomed) /\ (Waiting' <=> Waiting) /\ ctl' = ctl
    BY <1>1 DEF Clean, Doomed, Waiting, dlen, data
  <2>3. (AllStored' <=> AllStored) /\ (Sound' <=> Sound)
    BY <1>1, <2>1 DEF AllStored, Sound, Fields, Files
  <2>4. (Synced' <=> Synced) /\ (Hungry' <=> Hungry)
    BY <1>1, <2>1 DEF Synced, Hungry
  <2>5. \A i : Where(i)' <=> Where(i)
    BY <1>1, <2>1 DEF Where, InBegin, InHeader, InType, InFile, InField, PartAt
  <2>6. \A i : Keeping(i)' <=> Keeping(i)
    BY <1>1, <2>1, <2>3 DEF Keeping, UpTo, InUpload, Beginning, FieldsTo, FilesTo, FieldPieces, FilePieces, PartAt
  <2>7. Whole' <=> Whole
    BY <2>1, <2>4, <2>5, <2>6 DEF Whole, KeepingSome
  <2> QED BY <1>1, <2>2, <2>3, <2>7 DEF WholeForm
<1>2. SUFFICES ASSUME Next, Clean', form.parts[1].kind # "body", ~Doomed', form' = form
               PROVE  /\ Waiting' => Whole'
                      /\ ctl' \in {"done", "over"} => AllStored'
  <2>1. form' = form
    BY <1>1, ParseKeeps DEF Next, Start, ReadMore, Done, processBodyData, BodyBegin, BodyInMemory, BodyFails, BodyCopy,
       BodyEnd
  <2> QED BY <1>1, <2>1 DEF WholeForm
<1>3. slips' = {} /\ form.whole /\ outcome' # "failed"
  BY <1>2 DEF Clean
<1>4. ASSUME Completes PROVE /\ Waiting' => Whole'
                             /\ ctl' \in {"done", "over"} => AllStored'
  BY <1>2, <1>3, <1>4 DEF Completes, Waiting
<1>5. CASE Start
  BY <1>4, <1>5, StartCompletes
<1>6. CASE parseMultipart
  <2>1. ctl = "parse" /\ Laid(form)
    BY <1>2, <1>6, ParseKeeps DEF CallInv
  <2>2. Clean
    BY <1>2, <2>1, CleanBefore
  <2>3. Whole
    BY <1>2, <2>1, <2>2 DEF WholeForm, Doomed, Waiting
  <2> QED BY <1>3, <1>4, <1>6, <2>1, <2>3, ParseCompletes
<1>7. CASE ReadMore
  <2>1. ctl = "read"
    BY <1>7 DEF ReadMore
  <2>2. Clean
    BY <1>2, <2>1, CleanBefore
  <2>3. ~Doomed
    BY <1>3, <1>7, DoomedSlips
  <2>4. Whole
    BY <1>2, <2>1, <2>2, <2>3 DEF WholeForm, Waiting
  <2> QED BY <1>3, <1>4, <1>7, <2>4, ReadMoreCompletes
<1>8. CASE Done
  <2>1. ctl = "done" /\ ctl' = "over" /\ UNCHANGED <<form, params, uploads, outcome, slips>>
    BY <1>8 DEF Done
  <2>2. AllStored
    BY <1>2, <2>1 DEF WholeForm, Clean, Doomed
  <2>3. AllStored'
    BY <2>1, <2>2 DEF AllStored, Fields, Files, Stored, Sound
  <2> QED BY <2>1, <2>3 DEF Waiting
<1>9. CASE processBodyData
  <2>1. ctl \in {"body", "copy"}
    BY <1>9 DEF processBodyData, BodyBegin, BodyInMemory, BodyFails, BodyCopy, BodyEnd
  <2> QED BY <1>2, <2>1 DEF CallInv
<1> QED BY <1>2, <1>5, <1>6, <1>7, <1>8, <1>9 DEF Next

(* The bytes behind the last read are none when everything was read. *)
LEMMA AllRead ==
    ASSUME Inv
    PROVE  /\ rd + Left = Len(form.spool)
           /\ Left = 0 => rd = Len(form.spool)
           /\ SubSeq(form.spool, 1, Len(form.spool)) = form.spool
<1>1. PICK s \in Seq(STRING), n \in Nat, r \in Nat : s = form.spool /\ n = Len(s) /\ r = rd /\ Left = n - r
  BY MultipartAssumption, LenProperties DEF Inv, ChunkInv, Left
<1>2. SubSeq(s, 1, Len(s)) = s
  OBVIOUS
<1>3. r + (n - r) = n /\ (n - r = 0 => r = n)
  OBVIOUS
<1> QED BY <1>1, <1>2, <1>3

(* Every step of the reading of a body that is none. *)
LEMMA WholeBodyNext ==
    ASSUME Inv, CallInv, WholeBody, [Next]_vars
    PROVE  WholeBody'
<1>1. CASE UNCHANGED vars
  BY <1>1 DEF WholeBody, Clean
<1>2. SUFFICES ASSUME Next, Clean', form.parts[1].kind = "body", form' = form
               PROVE  /\ ctl' = "copy" => fd_upload'
                      /\ ctl' = "over" => /\ outcome' = "finished" /\ params' = <<>>
                                          /\ uploads' = <<BodyOf(form.spool)>>
  <2>1. form' = form
    BY <1>1, ParseKeeps DEF Next, Start, ReadMore, Done, processBodyData, BodyBegin, BodyInMemory, BodyFails, BodyCopy,
       BodyEnd
  <2> QED BY <1>1, <2>1 DEF WholeBody
<1>3. slips' = {} /\ form.whole /\ outcome' # "failed"
  BY <1>2 DEF Clean
<1>4. CASE Start \/ parseMultipart \/ ReadMore \/ Done
  <2>1. ctl \in {"start", "parse", "read", "done"}
    BY <1>4, ParseKeeps DEF Start, ReadMore, Done
  <2> QED BY <1>2, <2>1 DEF CallInv
<1>5. CASE BodyBegin
  <2>1. ctl' = "copy" /\ createXferFile("[body]")
    BY <1>5 DEF BodyBegin
  <2>2. ~Slip("nofile", TRUE)
    BY <1>3 DEF Slip
  <2>3. fd_upload'
    BY <2>1, <2>2 DEF createXferFile
  <2> QED BY <2>1, <2>3
<1>6. ASSUME ctl = "copy"
      PROVE  fd_upload /\ params = <<>> /\ Copying
  <2>1. Clean
    BY <1>2, <1>6, CleanBefore
  <2>2. Tracked(slips)
    BY <2>1 DEF Clean, Tracked
  <2> QED BY <1>2, <1>6, <2>1, <2>2 DEF WholeBody, CallInv
<1>7. CASE BodyInMemory
  <2>1. /\ ctl = "copy" /\ CopyBytes(Left) /\ params' = params
        /\ ctl' = "over" /\ outcome' = "finished"
    BY <1>7 DEF BodyInMemory
  <2>2. fd_upload /\ params = <<>>
    BY <1>6, <2>1
  <2>3. Left \in 0..Left /\ Tracked(slips')
    BY <1>3, LeftType DEF Inv, Tracked
  <2>4. PICK n \in 0..Left : n = Left
    BY <2>3
  <2>5. uploads' = <<BodyOf(SubSeq(form.spool, 1, rd + n))>>
    BY <1>2, <2>1, <2>2, <2>3, <2>4, BodyCopies
  <2> QED BY <2>1, <2>2, <2>4, <2>5, AllRead
<1>8. CASE BodyFails
  BY <1>3, <1>8 DEF BodyFails
<1>9. CASE BodyCopy
  <2>1. ctl = "copy" /\ ctl' = "copy" /\ fd_upload' = fd_upload
    BY <1>9 DEF BodyCopy
  <2> QED BY <1>6, <2>1
<1>10. CASE BodyEnd
  <2>1. ctl = "copy" /\ ctl' = "over" /\ outcome' = (IF Left = 0 THEN "finished" ELSE "failed")
        /\ UNCHANGED <<params, uploads>>
    BY <1>10 DEF BodyEnd
  <2>2. outcome' = "finished" /\ rd = Len(form.spool)
    BY <1>3, <2>1, AllRead
  <2>3. params = <<>> /\ uploads = <<BodyOf(SubSeq(form.spool, 1, rd))>>
    BY <1>6, <2>1 DEF Copying, BodyOf
  <2> QED BY <2>1, <2>2, <2>3, AllRead
<1> QED BY <1>2, <1>4, <1>5, <1>7, <1>8, <1>9, <1>10 DEF Next, processBodyData

(* What is stored at the end is what a reader of the whole would store. *)
LEMMA ReadIsOnePass ==
    ASSUME Inv, CallInv, ReadSoFar
    PROVE  AsOnePass
<1>1. SUFFICES ASSUME ctl = "over", Clean
               PROVE  /\ outcome = "finished" /\ params = Fields /\ Stored = Files
                      /\ \A k \in DOMAIN uploads : uploads[k].linked /\ uploads[k].bytes = SizeOf(uploads[k])
  BY DEF AsOnePass, Clean
<1>2. CASE form.parts[1].kind # "body"
  <2>1. AllStored
    BY <1>1, <1>2 DEF ReadSoFar, WholeForm, Doomed
  <2> QED BY <1>2, <2>1 DEF AllStored, Sound, SizeOf
<1>3. CASE form.parts[1].kind = "body"
  <2>1. outcome = "finished" /\ params = <<>> /\ uploads = <<BodyOf(form.spool)>>
    BY <1>1, <1>3 DEF ReadSoFar, WholeBody
  <2>2. /\ form.parts \in Seq(Range(form.parts)) /\ Parted = 1 /\ PartAt(1).name = "[body]"
        /\ PartAt(1).value = form.spool /\ form.spool # <<>> /\ PartAt(1).kind = "body"
    BY <1>3 DEF CallInv, Bodied, IsBody, Parted, PartAt
  <2>3. Fields = <<>>
    <3>1. Field(PartAt(1)) = <<>>
      BY <2>2 DEF Field
    <3>2. FieldsTo(1 + 1) = FieldsTo(1)
      BY <2>2, <3>1, PartAdds
    <3>3. FieldsTo(1) = <<>> /\ FieldsTo(Parted + 1) = Fields
      BY <2>2, PiecesDone
    <3> QED BY <2>2, <3>2, <3>3
  <2>4. Files = <<PairOf(form.spool)>>
    <3>1. File(PartAt(1)) # <<>>
      BY <2>2 DEF File
    <3>2. FilesTo(1 + 1) = Append(FilesTo(1), [name |-> PartAt(1).name, data |-> PartAt(1).value])
      BY <2>2, <3>1, PartAdds
    <3>3. FilesTo(1) = <<>> /\ FilesTo(Parted + 1) = Files
      BY <2>2, PiecesDone
    <3>4. PICK p : p = PairOf(form.spool) /\ p = [name |-> PartAt(1).name, data |-> PartAt(1).value]
      BY <2>2 DEF PairOf
    <3>5. Files = Append(<<>>, p)
      BY <2>2, <3>2, <3>3, <3>4
    <3> QED BY <3>4, <3>5
  <2>5. Stored = <<PairOf(form.spool)>>
    <3>1. Stored = Pairs(uploads)
      BY DEF Stored, Pairs
    <3> QED BY <2>1, <3>1, BodyPairs
  <2>6. DOMAIN uploads = {1} /\ uploads[1] = BodyOf(form.spool)
    <3>1. PICK e : e = BodyOf(form.spool)
      OBVIOUS
    <3>2. DOMAIN <<e>> = {1} /\ <<e>>[1] = e
      OBVIOUS
    <3> QED BY <2>1, <3>1, <3>2
  <2>7. BodyOf(form.spool).linked /\ BodyOf(form.spool).bytes = 0
    BY DEF BodyOf
  <2>8. \A k \in DOMAIN uploads : uploads[k].linked /\ uploads[k].bytes = SizeOf(uploads[k])
    BY <1>3, <2>6, <2>7 DEF SizeOf
  <2> QED BY <2>1, <2>3, <2>4, <2>5, <2>8
<1> QED BY <1>2, <1>3

(* A whole form of which nothing slipped is read as if it came in one       *)
(* piece: processMultipart() ends with every field and every file complete, *)
(* in order, the files counted right and none of them removed.              *)
THEOREM ReadWhole == FormsPosted => (Spec => []AsOnePass)
<1> SUFFICES ASSUME FormsPosted PROVE Spec => []AsOnePass
  OBVIOUS
<1> DEFINE I == Inv /\ CallInv /\ ReadSoFar
<1>1. Init => I
  <2> SUFFICES ASSUME Init PROVE I
    OBVIOUS
  <2>1. Inv /\ CallInv
    BY InitInv, InitCalls
  <2>2. ctl \in {"start", "body"}
    BY DEF Init
  <2>3. ReadSoFar
    BY <2>2 DEF ReadSoFar, WholeForm, WholeBody, Waiting
  <2> QED BY <2>1, <2>3
<1>2. I /\ [Next]_vars => I'
  <2> SUFFICES ASSUME I, [Next]_vars PROVE I'
    OBVIOUS
  <2>1. Inv' /\ CallInv'
    BY NextInv, CallNext
  <2>2. WholeForm' /\ WholeBody'
    BY <2>1, WholeFormNext, WholeBodyNext DEF ReadSoFar
  <2> QED BY <2>1, <2>2 DEF ReadSoFar
<1>3. I => AsOnePass
  BY ReadIsOnePass
<1> HIDE DEF I
<1> QED BY <1>1, <1>2, <1>3, PTL DEF Spec
=============================================================================
