------------------------------ MODULE Multipart ------------------------------
(***************************************************************************)
(* driver/Request.cpp: the body of a POST that is not an ordinary form,     *)
(* once it lies complete in the spool: processMultipart() with its parser,  *)
(* and processBodyData(). The spool is read MAX_MP bytes at a time; what    *)
(* the parser has not used of a chunk is carried over to the next one.      *)
(*                                                                         *)
(* Bytes are symbols. The boundary is spelled out, and so are line ends,    *)
(* because the parser looks at them one by one. What it finds by strstr()   *)
(* within a line is one symbol: a name (form-data; name="x"), "file"        *)
(* (filename="f"), "nofile" (filename=""), "type" (a content type).         *)
(***************************************************************************)
EXTENDS Integers, Sequences, FiniteSets, SequencesExt

CONSTANTS
    MAX_MP,             \* the size of mpdata
    Boundary,           \* \r\n--name, bound_len symbols
    Names,              \* the names of fields
    REQ_MAX_FLDDATA,    \* the longest value of a field
    REQ_MAX_UPLOADS,    \* the files of a request
    BodyBuffer,         \* the copy buffer of processBodyData()
    SizeLimit,          \* the numbers of a size_t, which counts the bytes of a file
    Forms,              \* what was sent, its bytes in the spool, whether these are all,
                        \* and at which offsets the boundaries are
    Junks               \* what may lie in memory behind the bytes that were read

cr == "cr"    lf == "lf"    dash == "-"    nul == "nul"
bound_len == Len(Boundary)

ASSUME MultipartAssumption ==
    /\ MAX_MP \in Nat \ {0} /\ BodyBuffer \in Nat \ {0} /\ SizeLimit \in Nat \ {0}
    /\ REQ_MAX_FLDDATA \in Nat \ {0} /\ REQ_MAX_UPLOADS \in Nat \ {0}
    /\ Boundary \in Seq(STRING) /\ bound_len >= 5
    /\ \A f \in Forms : /\ f.spool \in Seq(STRING) /\ Len(f.spool) < SizeLimit
                         /\ f.ondisk \in BOOLEAN
    /\ \A junk \in Junks : junk \in Seq(STRING) /\ Len(junk) >= bound_len + 4
ASSUME SymbolAssumption == nul \in STRING

VARIABLES
    form,       \* the form being read
    ctl,        \* where processMultipart() is: start, parse, read, done, over
    rd,         \* the bytes of the spool that were read
    mem,        \* mpdata, as far as it is filled
    mp,         \* mp_ptr, as an offset
    brmax,      \* the bytes the last read() delivered
    mp_state,   \* the parser's state
    name,       \* pd.fldname
    flddata,    \* pd.flddata up to fldptr, and the terminator behind a whole value
    params,     \* the parameters stored
    uploads,    \* uploads[]: [name, data in the file, bytes counted, linked]
    upfile,     \* pd.upfile: an index of uploads, NULL, or an UploadFile that is in none
    fd_upload,  \* pd.fd_upload is open
    fd_spool,   \* the spool file is open
    outcome,    \* how the reading ended
    slips       \* history: where the code went by something else than the form

window == <<ctl, rd, mem, mp, brmax, mp_state>>
stored == <<params, uploads, upfile, fd_upload>>
vars == <<form, window, name, flddata, stored, fd_spool, outcome, slips>>

NULL == 0
Orphan == -1
-----------------------------------------------------------------------------
(* The bytes the parser is given.                                           *)
data == SubSeq(mem, mp + 1, Len(mem))
dlen == Len(data)
Least(S) == CHOOSE i \in S : \A j \in S : i <= j
\* strncmp() at an offset of bytes.
Matches(bytes, i, pattern) ==
    i + Len(pattern) <= Len(bytes) /\ SubSeq(bytes, i + 1, i + Len(pattern)) = pattern
\* The bytes from i on are too few to tell whether they are the boundary.
Undecided(i) == \E n \in 0..bound_len - 1 : SubSeq(data, i + 1, dlen) = SubSeq(Boundary, 1, n)
BoundaryAt == {i \in 0..dlen - bound_len : Matches(data, i, Boundary)}
memmem == Least(BoundaryAt)
Slip(kind, when) == slips' = IF when THEN slips \cup {kind} ELSE slips

\* How many bytes cannot be the beginning of a boundary that is not there yet.
Searched_OffByOne == dlen - bound_len + 2
Searched == dlen - bound_len + 1

\* The caller stops calling the parser until it has read more.
Stalled_Ignored(n) == FALSE
Stalled(n) == n = 0

(* The caller's bookkeeping after a call that used n bytes: a counter that  *)
(* leaves the chunk runs away, and nothing is known from there on.          *)
Consume(n, to) ==
    /\ mp_state' = to
    /\ \/ /\ to = "FINISH"
          /\ ctl' = "done" /\ outcome' = "finished" /\ UNCHANGED mp
       \/ /\ to # "FINISH" /\ mp + n \in 0..Len(mem)
          /\ mp' = mp + n
          /\ ctl' = IF Stalled(n) \/ mp + n = Len(mem) THEN "read" ELSE "parse"
          /\ UNCHANGED outcome
       \/ /\ to # "FINISH" /\ mp + n \notin 0..Len(mem)
          /\ ctl' = "over" /\ outcome' = "lost" /\ UNCHANGED mp
    /\ UNCHANGED <<form, rd, mem, brmax, fd_spool>>

\* throw runtime_error: processMultipart() catches it and cleans up.
Throw == /\ ctl' = "done" /\ outcome' = "broken"
         /\ UNCHANGED <<form, rd, mem, mp, brmax, mp_state, name, flddata, stored, fd_spool>>

Parsing(st) == ctl = "parse" /\ mp_state = st
-----------------------------------------------------------------------------
(* MP_BEGIN: skip to the next boundary; the two bytes behind it decide.     *)
AfterBoundary(bytes) == SubSeq(bytes, memmem + bound_len + 1, memmem + bound_len + 2)

SkipToBoundary ==
    /\ Parsing("BEGIN") /\ BoundaryAt = {}
    /\ Consume(IF dlen < bound_len THEN 0 ELSE Searched, "BEGIN")
    /\ UNCHANGED <<name, flddata, stored, slips>>

FindBoundary ==
    /\ Parsing("BEGIN") /\ BoundaryAt # {}
    /\ LET i == memmem + bound_len
       IN  /\ Slip("beyond", i + 2 > dlen)
           /\ \E junk \in Junks : LET next == AfterBoundary(data \o junk) IN
                \/ /\ next = <<dash, dash>>
                   /\ Consume(i + 2, "FINISH") /\ UNCHANGED <<name, flddata, stored>>
                \/ /\ next # <<dash, dash>> /\ (next[1] = cr \/ next[2] = lf)
                   /\ Consume(i + 2, "HEADER") /\ UNCHANGED <<name, flddata, stored>>
                \/ /\ next # <<dash, dash>> /\ next[1] # cr /\ next[2] # lf
                   /\ Throw

(* MP_HEADER: one line of a part's header.                                  *)
LineEnds(bytes) == {i \in 0..dlen - 1 : bytes[i + 1] = cr \/ bytes[i + 2] = lf}
IndexOf(line, symbols) == {i \in DOMAIN line : line[i] \in symbols}

HeaderCut ==
    /\ Parsing("HEADER")
    /\ \E junk \in Junks : LineEnds(data \o junk) = {}
    /\ Consume(0, "HEADER") /\ UNCHANGED <<name, flddata, stored, slips>>

(* The line seems to end at the last byte because of what lies behind it.   *)
HeaderTorn ==
    /\ Parsing("HEADER") /\ LineEnds(data \o <<dash>>) = {}
    /\ \E junk \in Junks : LineEnds(data \o junk) # {}
    /\ ctl' = "over" /\ outcome' = "lost" /\ Slip("beyond", TRUE)
    /\ UNCHANGED <<form, rd, mem, mp, brmax, mp_state, name, flddata, stored, fd_spool>>

Header ==
    /\ Parsing("HEADER") /\ LineEnds(data \o <<dash>>) # {}
    /\ LET crlf  == Least(LineEnds(data \o <<dash>>))
           line  == SubSeq(data, 1, crlf)
           named == IndexOf(line, Names)
           files == IndexOf(line, {"file", "nofile"})
           sep   == crlf + 2
       IN  \/ \* Unknown part.
              /\ named = {}
              /\ Consume(crlf + 2, "BEGIN") /\ Slip("beyond", crlf + 2 > dlen)
              /\ UNCHANGED <<name, flddata, stored>>
           \/ \* A file: skipped if it has no name, else its type comes next.
              /\ named # {} /\ files # {}
              /\ name' = line[Least(named)]
              /\ Consume(Least(files) + 2, IF line[Least(files)] = "file" THEN "FILETYPE" ELSE "BEGIN")
              /\ Slip("beyond", Least(files) + 2 > dlen)
              /\ UNCHANGED <<flddata, stored>>
           \/ \* A field: an empty line, and the value unless it is empty.
              /\ named # {} /\ files = {}
              /\ Slip("beyond", sep + 2 > dlen \/ Undecided(sep + 2))
              /\ \E junk \in Junks : LET bytes == data \o junk IN
                   \/ /\ bytes[sep + 1] # cr /\ bytes[sep + 2] # lf
                      /\ Throw
                   \/ /\ bytes[sep + 1] = cr \/ bytes[sep + 2] = lf
                      /\ name' = line[Least(named)] /\ flddata' = <<>>
                      /\ Consume(sep + 2, IF Matches(bytes, sep + 2, Boundary) THEN "BEGIN" ELSE "FLDDATA")
                      /\ UNCHANGED stored

(* createXferFile(): a place in uploads and a new file, if there is room    *)
(* and the file can be created.                                             *)
createXferFile(label) ==
    \/ /\ Len(uploads) < REQ_MAX_UPLOADS
       /\ uploads' = Append(uploads, [name |-> label, data |-> <<>>, bytes |-> 0, linked |-> TRUE])
       /\ upfile' = Len(uploads) + 1 /\ fd_upload' = TRUE /\ UNCHANGED slips
    \/ /\ Len(uploads) < REQ_MAX_UPLOADS
       /\ upfile' = Orphan /\ UNCHANGED <<uploads, fd_upload>> /\ Slip("nofile", TRUE)
    \/ /\ Len(uploads) = REQ_MAX_UPLOADS
       /\ UNCHANGED <<uploads, upfile, fd_upload>> /\ Slip("nofile", TRUE)

(* MP_FILETYPE: the content type is skipped, with the empty line behind it. *)
EmptyLines == {i \in 0..dlen - 1 : Matches(data, i, <<cr, lf, cr, lf>>)}
EnoughLeft(i) == dlen - i >= bound_len
TypeRead == EmptyLines # {} /\ EnoughLeft(Least(EmptyLines))

FileTypeCut ==
    /\ Parsing("FILETYPE") /\ ~TypeRead
    /\ Consume(0, "FILETYPE") /\ UNCHANGED <<name, flddata, stored, slips>>

FileType ==
    /\ Parsing("FILETYPE") /\ TypeRead
    /\ LET i == Least(EmptyLines) + 4
       IN  \E junk \in Junks :
             \/ /\ Matches(data \o junk, i, Boundary)
                /\ Consume(i, "BEGIN") /\ Slip("beyond", Undecided(i))
                /\ UNCHANGED <<name, flddata, stored>>
             \/ /\ ~Matches(data \o junk, i, Boundary)
                /\ Consume(i, "FILEDATA")
                /\ createXferFile(name)
                /\ UNCHANGED <<name, flddata, params>>

(* MP_FILEDATA: write() of n bytes into the upload, which returns -1 when   *)
(* it fails or there is no descriptor; the result bw is added and used      *)
(* either way.                                                              *)
write(n) == IF fd_upload THEN {n, -1} ELSE {-1}
Unwritten(bw) == Slip("unwritten", fd_upload /\ bw = -1)
Counted(bw) == (uploads[upfile].bytes + bw) % SizeLimit
Appended(bytes, bw) == IF bw = -1 THEN bytes ELSE bytes \o SubSeq(data, 1, bw)
WriteUpload(bw) ==
    uploads' = IF upfile \in DOMAIN uploads
               THEN [uploads EXCEPT ![upfile].data = Appended(@, bw),
                                    ![upfile].bytes = Counted(bw)]
               ELSE uploads

FileDataCut ==
    /\ Parsing("FILEDATA") /\ dlen < bound_len
    /\ Consume(0, "FILEDATA") /\ UNCHANGED <<name, flddata, stored, slips>>

FileDataMore ==
    /\ Parsing("FILEDATA") /\ dlen >= bound_len /\ BoundaryAt = {}
    /\ \E bw \in write(Searched) :
         WriteUpload(bw) /\ Consume(bw, "FILEDATA") /\ Unwritten(bw)
    /\ UNCHANGED <<name, flddata, params, upfile, fd_upload>>

\* The file ends here; one that was left empty is removed.
FileDataEnd ==
    /\ Parsing("FILEDATA") /\ BoundaryAt # {}
    /\ \E bw \in write(memmem) :
         /\ uploads' = IF upfile \in DOMAIN uploads
                       THEN [uploads EXCEPT ![upfile].data = Appended(@, bw),
                                            ![upfile].bytes = Counted(bw),
                                            ![upfile].linked = @ /\ Counted(bw) # 0]
                       ELSE uploads
         /\ Consume(bw, "BEGIN") /\ Unwritten(bw)
    /\ fd_upload' = FALSE
    /\ UNCHANGED <<name, flddata, params, upfile>>

(* MP_FLDDATA: the value is collected as far as there is room for it.       *)
Smaller(a, b) == IF a < b THEN a ELSE b
Room_OffByOne == REQ_MAX_FLDDATA + 1 - Len(flddata)
Room == REQ_MAX_FLDDATA - Len(flddata)
FieldMax_NoTail == Smaller(Room, dlen)
FieldMax == Smaller(Room, dlen - bound_len)

FieldCut ==
    /\ Parsing("FLDDATA") /\ dlen < bound_len
    /\ Consume(0, "FLDDATA") /\ UNCHANGED <<name, flddata, stored, slips>>

\* No room: everything that was read is skipped, boundaries included.
FieldFull ==
    /\ Parsing("FLDDATA") /\ dlen >= bound_len /\ Room = 0
    /\ Consume(dlen, "FLDDATA") /\ Slip("full", TRUE)
    /\ UNCHANGED <<name, flddata, stored>>

FieldMore ==
    /\ Parsing("FLDDATA") /\ dlen >= bound_len /\ Room > 0 /\ BoundaryAt = {}
    /\ flddata' = flddata \o SubSeq(data, 1, FieldMax)
    /\ Consume(FieldMax, "FLDDATA")
    /\ UNCHANGED <<name, stored, slips>>

\* The value is terminated where fldptr points to, room or not.
FieldEnd ==
    /\ Parsing("FLDDATA") /\ Room > 0 /\ BoundaryAt # {}
    /\ LET max   == Smaller(FieldMax, memmem)
           value == flddata \o SubSeq(data, 1, max)
       IN  \/ /\ max = 0       \* unexpected empty field
              /\ Throw /\ UNCHANGED slips
           \/ /\ max > 0
              /\ flddata' = Append(value, nul)
              /\ params' = Append(params, <<name, value>>)
              /\ Consume(max, "BEGIN") /\ Slip("full", max < memmem)
              /\ UNCHANGED <<name, uploads, upfile, fd_upload>>
-----------------------------------------------------------------------------
(* processMultipart(): what the parser left is moved to the front and the   *)
(* rest of mpdata is filled, unless as much was left as the last read()     *)
(* delivered: then it is dropped.                                           *)
Carries == dlen > 0 /\ dlen < brmax
Spool(i, n) == SubSeq(form.spool, i + 1, i + n)
Left == Len(form.spool) - rd

Start ==
    /\ ctl = "start"
    /\ \/ \* The spool cannot be rewound or read: it stays open.
          /\ ctl' = "over" /\ outcome' = "failed"
          /\ UNCHANGED <<rd, mem, brmax>>
       \/ LET n == Smaller(MAX_MP, Left)
          IN  /\ rd' = n /\ brmax' = n /\ mem' = Spool(0, n)
              /\ ctl' = "parse" /\ UNCHANGED outcome
    /\ UNCHANGED <<form, mp, mp_state, name, flddata, stored, fd_spool, slips>>

ReadMore ==
    /\ ctl = "read"
    /\ LET read_max == IF Carries THEN mp ELSE MAX_MP
           n        == Smaller(read_max, Left)
       IN  \/ /\ n > 0
              /\ mem' = (IF Carries THEN data ELSE <<>>) \o Spool(rd, n)
              /\ mp' = 0 /\ rd' = rd + n /\ brmax' = n
              /\ ctl' = "parse" /\ UNCHANGED outcome
           \/ /\ n = 0
              /\ ctl' = "done" /\ outcome' = "exhausted"
              /\ UNCHANGED <<mem, mp, rd, brmax>>
           \/ \* read() fails, its -1 is taken for a length: nothing is known then.
              /\ ctl' = "over" /\ outcome' = "failed"
              /\ UNCHANGED <<mem, mp, rd, brmax>>
    /\ Slip("dropped", dlen > 0 /\ ~Carries)
    /\ UNCHANGED <<form, mp_state, name, flddata, stored, fd_spool>>

\* processMultipart_DONE
CleanUp_SpoolOnly == fd_spool' = FALSE /\ UNCHANGED fd_upload
CleanUp == fd_spool' = FALSE /\ fd_upload' = FALSE
Done ==
    /\ ctl = "done"
    /\ ctl' = "over" /\ CleanUp
    /\ UNCHANGED <<form, rd, mem, mp, brmax, mp_state, name, flddata, params, uploads, upfile,
                   outcome, slips>>
-----------------------------------------------------------------------------
(* processBodyData(): the whole body becomes an upload. It lies in memory   *)
(* (no spool file is open) or in the spool file.                            *)
BodyBegin ==
    /\ ctl = "body"
    /\ createXferFile("[body]")
    /\ ctl' = "copy"
    /\ UNCHANGED <<form, rd, mem, mp, brmax, mp_state, name, flddata, params, fd_spool, outcome>>

\* One write() to the upload, of n bytes of the body; nobody asks if it failed.
Copied(n) == [uploads EXCEPT ![upfile].data = @ \o Spool(rd, n)]
CopyBytes(n) ==
    /\ rd' = rd + n
    /\ \E bw \in write(n) :
         uploads' = (IF bw = -1 THEN uploads ELSE Copied(n)) /\ Unwritten(bw)

BodyInMemory ==
    /\ ctl = "copy" /\ ~fd_spool
    /\ CopyBytes(Left)
    /\ fd_upload' = FALSE /\ ctl' = "over" /\ outcome' = "finished"
    /\ UNCHANGED <<form, mem, mp, brmax, mp_state, name, flddata, params, upfile, fd_spool>>

\* lseek() fails: both files stay open.
BodyFails ==
    /\ ctl = "copy" /\ fd_spool /\ rd = 0
    /\ ctl' = "over" /\ outcome' = "failed"
    /\ UNCHANGED <<form, rd, mem, mp, brmax, mp_state, name, flddata, stored, fd_spool, slips>>

BodyCopy ==
    /\ ctl = "copy" /\ fd_spool /\ Left > 0
    /\ CopyBytes(Smaller(BodyBuffer, Left))
    /\ UNCHANGED <<form, ctl, mem, mp, brmax, mp_state, name, flddata, params, upfile, fd_upload,
                   fd_spool, outcome>>

\* Everything was copied, or read() fails.
BodyEnd ==
    /\ ctl = "copy" /\ fd_spool
    /\ ctl' = "over" /\ CleanUp
    /\ outcome' = IF Left = 0 THEN "finished" ELSE "failed"
    /\ UNCHANGED <<form, rd, mem, mp, brmax, mp_state, name, flddata, params, uploads, upfile, slips>>
-----------------------------------------------------------------------------
Init ==
    /\ form \in Forms
    /\ ctl = (IF form.parts[1].kind = "body" THEN "body" ELSE "start")
    /\ rd = 0 /\ mem = <<>> /\ mp = 0 /\ brmax = 0
    /\ mp_state = "BEGIN" /\ name = "" /\ flddata = <<>>
    /\ params = <<>> /\ uploads = <<>> /\ upfile = NULL /\ fd_upload = FALSE
    /\ fd_spool = form.ondisk
    /\ outcome = "none" /\ slips = {}

parseMultipart ==
    \/ SkipToBoundary \/ FindBoundary
    \/ HeaderCut \/ HeaderTorn \/ Header
    \/ FileTypeCut \/ FileType
    \/ FileDataCut \/ FileDataMore \/ FileDataEnd
    \/ FieldCut \/ FieldFull \/ FieldMore \/ FieldEnd
processBodyData == BodyBegin \/ BodyInMemory \/ BodyFails \/ BodyCopy \/ BodyEnd

Next == Start \/ parseMultipart \/ ReadMore \/ Done \/ processBodyData

Spec == Init /\ [][Next]_vars
FairSpec == Spec /\ WF_vars(Next)
-----------------------------------------------------------------------------
(* No read() fills more than mpdata, no value more than flddata, no file    *)
(* more than uploads[], and file data always has an UploadFile. Behind the  *)
(* end of flddata lies at most the terminator of a value that fills it, and *)
(* never while a value is collected.                                        *)
TerminatorBehind ==
    /\ Len(flddata) = REQ_MAX_FLDDATA + 1 /\ flddata[REQ_MAX_FLDDATA + 1] = nul
    /\ mp_state # "FLDDATA"
InBuffers ==
    /\ mp \in 0..Len(mem) /\ Len(mem) <= MAX_MP
    /\ Len(flddata) <= REQ_MAX_FLDDATA \/ TerminatorBehind
    /\ Len(uploads) <= REQ_MAX_UPLOADS
    /\ mp_state = "FILEDATA" => upfile # NULL

(* The types, with InBuffers.                                               *)
TypeOK ==
    /\ form \in Forms
    /\ ctl \in {"start", "parse", "read", "done", "body", "copy", "over"}
    /\ rd \in 0..Len(form.spool) /\ brmax \in 0..MAX_MP
    /\ mp_state \in {"BEGIN", "HEADER", "FILETYPE", "FILEDATA", "FLDDATA", "FINISH"}
    /\ name \in Names \cup {""}
    /\ \A k \in DOMAIN params : params[k][1] \in Names
    /\ upfile \in DOMAIN uploads \cup {NULL, Orphan}
    /\ fd_upload \in BOOLEAN /\ fd_spool \in BOOLEAN
    /\ outcome \in {"none", "finished", "broken", "exhausted", "lost", "failed"}
    /\ slips \subseteq {"beyond", "dropped", "full", "nofile", "unwritten"}
    /\ InBuffers

(* The array holds a value with its terminator ("we limit them to 65k"):    *)
(* the code does not keep to it (Request.cpp:678).                          *)
TerminatorFits == Len(flddata) <= REQ_MAX_FLDDATA

(* What a reader of the whole form would have stored.                       *)
Field(part) == IF part.kind = "field" /\ part.value # <<>> THEN <<<<part.name, part.value>>>> ELSE <<>>
File(part)  == IF part.kind \in {"file", "body"} /\ part.value # <<>>
               THEN <<[name |-> part.name, data |-> part.value]>> ELSE <<>>
Fields == FlattenSeq([k \in DOMAIN form.parts |-> Field(form.parts[k])])
Files  == FlattenSeq([k \in DOMAIN form.parts |-> File(form.parts[k])])
\* processBodyData() does not count.
SizeOf(file) == IF form.parts[1].kind = "body" THEN 0 ELSE Len(file.data)
Stored == [k \in DOMAIN uploads |-> [name |-> uploads[k].name, data |-> uploads[k].data]]

(* Wherever the chunks of the spool cut a form, it is read as if it came in *)
(* one piece, every field and every file complete, the files' sizes right   *)
(* and none of them removed, as long as the parser did not look behind the  *)
(* bytes it had, nothing overflowed, no file failed and the caller dropped  *)
(* nothing.                                                                 *)
AsOnePass ==
    (ctl = "over" /\ slips = {} /\ outcome # "failed" /\ form.whole) =>
        /\ outcome = "finished" /\ params = Fields /\ Stored = Files
        /\ \A k \in DOMAIN uploads :
             uploads[k].linked /\ uploads[k].bytes = SizeOf(uploads[k])

(* Whatever happened to it, nothing is stored that the form does not        *)
(* contain, until the caller drops bytes (a file goes on behind the gap) or *)
(* a write fails (the parser goes back by one byte, and the one in front is *)
(* written again; a body has a gap).                                        *)
Tracked(s) == s \cap {"dropped", "unwritten"} = {}
Parts == INSTANCE FormParts WITH parts <- form.parts, uploads <- Stored
ImplementsParts == Parts!Init /\ [][Parts!Next \/ ~Tracked(slips')]_(Parts!vars)

(* Reading a form closes every file it opened, also when the form is broken *)
(* off, but for a spool file that cannot be read, and but for a parser that *)
(* got lost: its counter left the chunk, and nothing is known from there on.*)
Closed == (ctl = "over" /\ outcome \notin {"failed", "lost"}) => ~fd_upload /\ ~fd_spool

(* Whatever the form is like, the reading of it ends, unless a file could   *)
(* not be made: the parser goes back by the -1 of each write() then, and    *)
(* where it meets the part's own boundary again, it reads the part again.   *)
(* Writes that fail on a file do the same, but each round takes a place in  *)
(* uploads[] until there is none.                                           *)
Ends == <>(ctl = "over" \/ "nofile" \in slips)
-----------------------------------------------------------------------------
(* What some theorems ask of the forms: they are laid out in the spool as a *)
(* browser posts them, as far as they got there. MCMultipart lets TLC       *)
(* evaluate it on the forms of the run.                                     *)
HeadAt(f, i)  == f.at[i] + bound_len + 2
ValueAt(f, i) == HeadAt(f, i) + Len(f.parts[i].head)

\* As much of a piece as there is of the bytes lies at an offset of them.
LiesAt(piece, bytes, i) == \A k \in DOMAIN piece : i + k <= Len(bytes) => bytes[i + k] = piece[k]

\* The first line of a head says what follows; an empty line is behind it.
FirstLine(part, ends) ==
    LET symbols == {part.head[k] : k \in 1..ends}
        marks   == symbols \cap {"file", "nofile"}
    IN  /\ part.head[ends + 1] = cr /\ cr \notin symbols /\ lf \notin symbols
        /\ symbols \cap Names = IF part.kind = "other" THEN {} ELSE {part.name}
        /\ \/ part.kind = "other"
           \/ part.kind = "nofile" /\ marks = {"nofile"}
           \/ /\ part.kind = "field" /\ marks = {}
              /\ Len(part.head) = ends + 4 /\ part.head[ends + 3] = cr
           \/ /\ part.kind = "file" /\ marks = {"file"}
              /\ \A k \in 1..ends : part.head[k] = "file" => k + 6 <= Len(part.head)
              /\ \A k \in 0..Len(part.head) - 4 :
                   Matches(part.head, k, <<cr, lf, cr, lf>>) <=> k = Len(part.head) - 4

IsPart(part) ==
    /\ part.head \in Seq(STRING) /\ part.value \in Seq(STRING)
    /\ \E ends \in 1..Len(part.head) - 2 : FirstLine(part, ends)

\* Every part behind its boundary, its name its own if it is stored, and
\* boundaries nowhere else.
LaidOut(f) ==
    LET N == Len(f.parts)
    IN  /\ f.at \in Seq(Nat) /\ Len(f.at) = N + 1
        /\ \A i \in 1..N :
             /\ IsPart(f.parts[i]) /\ f.at[i + 1] = ValueAt(f, i) + Len(f.parts[i].value)
             /\ LiesAt(<<cr, lf>>, f.spool, f.at[i] + bound_len)
             /\ LiesAt(f.parts[i].head, f.spool, HeadAt(f, i))
             /\ LiesAt(f.parts[i].value, f.spool, ValueAt(f, i))
        /\ LiesAt(<<dash, dash>>, f.spool, f.at[N + 1] + bound_len)
        /\ \A k \in 0..Len(f.spool) - bound_len :
             Matches(f.spool, k, Boundary) <=> \E i \in 1..N + 1 : f.at[i] = k
        /\ f.whole => f.at[N + 1] + bound_len + 2 <= Len(f.spool)
        /\ \A i, j \in 1..N : (i # j /\ f.parts[i].name = f.parts[j].name) =>
                                  f.parts[i].kind \notin {"field", "file"}

IsBody(f) == /\ Len(f.parts) = 1 /\ f.parts[1].name = "[body]"
             /\ f.parts[1].value = f.spool /\ f.spool # <<>>

FormsPosted ==
    \A f \in Forms : /\ f.parts \in Seq(Range(f.parts)) /\ f.parts # <<>>
                     /\ IF f.parts[1].kind = "body" THEN IsBody(f) ELSE LaidOut(f)
=============================================================================
