------------------------------ MODULE Response ------------------------------
(***************************************************************************)
(* The output half of one fcgi_driver::Request: what the application's      *)
(* handler does with write(), writeFd(), flush(), setStatus() and end(),    *)
(* and how send() turns rbout into FastCGI records on a non-blocking        *)
(* socket.  The web server at the other end reads, stalls or goes away      *)
(* between any two system calls.  The input half is in module Server; here  *)
(* a request starts in RQS_STDIN and exec() and done() are called once.     *)
(* A handler may build its page with frame/HtmlBuffer instead, a stream     *)
(* laid over rbout, and copy files into it with frame/Includer.             *)
(***************************************************************************)
EXTENDS Naturals, Sequences

CONSTANTS REQ_MAX_OUT,  \* size of rbout
          StatLen,      \* bytes of a "Status: nnn" line
          MaxRounds,    \* rounds flush() tries, 5 in the code
          Lengths,      \* lengths of the handler's single writes and files
          Statuses,     \* values of end() and setStatus(), 0 for none
          Setups        \* what handlers and sockets may be like

(* A setup bounds the bytes its handler produces and the units its socket   *)
(* takes before it answers EAGAIN, and names what may happen:               *)
(*   exec    the handler already produces output in exec(),                 *)
(*   late    it keeps the request after done() and goes on,                 *)
(*   flush   it calls flush() or writeFd(),                                 *)
(*   page    it writes through an HtmlBuffer, and not with write(),         *)
(*   file    reading the file given to writeFd() may fail,                  *)
(*   status  it uses a status other than 0,                                 *)
(*   again   it calls on after its end(),                                   *)
(*   leave   the web server may close the connection.                       *)
Habits == {"exec", "late", "flush", "page", "file", "status", "again", "leave"}

ASSUME SizesAssumption ==
    /\ REQ_MAX_OUT \in Nat /\ StatLen \in Nat \ {0} /\ MaxRounds \in Nat
    /\ REQ_MAX_OUT >= 2                \* room for the END records
    /\ Lengths \subseteq 1..REQ_MAX_OUT
    /\ Statuses \subseteq Nat
ASSUME SetupsAssumption ==
    \A s \in Setups : s.habits \subseteq Habits /\ s.sock \in Nat \ {0} /\ s.bytes \in Nat

VARIABLES state,         \* req_state_t without its RQS_ prefix
          rbout,         \* output buffer, as long as it was ever filled
          rbpos,         \* bytes in it
          rbsend,        \* bytes of it already sent
          stdout_count,  \* times it was sent, saturating at 1
          app_status,
          pollout,       \* pfd.events & POLLOUT
          ctl,           \* where the only thread is
          ready,         \* POLLOUT in the revents of this run()
          called,        \* the last handler entry: none, exec or done
          ended,         \* the handler has called end()
          made,          \* bytes the handler has produced
          caller,        \* the handler entry that flush(), writeFd() return to
          after,         \* what follows the current flush()
          todo,          \* bytes write() or writeFd() still have to copy
          rounds,        \* rounds of the current flush()
          wire,          \* everything written to the socket
          inflight,      \* written but not read by the web server
          peerOpen,
          html,          \* HtmlBuffer: html.tellp(), a position in rbout
          setup          \* the setup of this behaviour, never changed

reqVars  == <<state, rbout, rbpos, rbsend, stdout_count, app_status, pollout>>
sockVars == <<wire, inflight>>
callVars == <<ready, called, ended, made>>
flushVars == <<caller, after, todo, rounds>>
vars == <<reqVars, sockVars, callVars, flushVars, ctl, peerOpen, html, setup>>

States == {"WAIT", "STDIN", "OPEN", "FLUSH", "END", "EOF"}
Token(type, value) == [t |-> type, v |-> value]
\* Bytes of the response are numbered; a status line is StatLen equal tokens;
\* a record header is one token, written whole or not at all.
StatLine(code) == [i \in 1..StatLen |-> Token("stat", code)]
EndBlock(code) == <<Token("empty", 0), Token("end", code)>>
AtMost(a, b) == IF a < b THEN a ELSE b
Does(habit) == habit \in setup.habits
SockBuf == setup.sock
Writable == ~peerOpen \/ inflight < SockBuf

Init ==
    /\ state = "STDIN" /\ rbout = <<>> /\ rbpos = 0 /\ rbsend = 0
    /\ stdout_count = 0 /\ app_status = 0 /\ pollout = FALSE
    /\ ctl = "poll" /\ ready = FALSE /\ called = "none" /\ ended = FALSE /\ made = 0
    /\ caller = "poll" /\ after = "return" /\ todo = 0 /\ rounds = 0
    /\ wire = <<>> /\ inflight = 0 /\ peerOpen = TRUE /\ html = 0 /\ setup \in Setups
-----------------------------------------------------------------------------
(* Request::send() *)

SendSize_OffByOne == IF rbpos > rbsend + 1 THEN rbpos - rbsend ELSE 0
SendSize == IF rbpos > rbsend THEN rbpos - rbsend ELSE 0

clearRbOut == rbpos' = 0 /\ rbsend' = 0

\* The request is polled for POLLOUT, so that send() is called again.
Polled_Forgotten == UNCHANGED pollout
Polled == pollout' = TRUE

\* bw bytes after the first `from` bytes of rbout went out.
Sent_Again(from, bw) == rbsend' = from
Sent(from, bw) == rbsend' = from + bw

Counted == stdout_count' = 1

\* The second ::write of send(): n bytes of mem from `from` on, after the
\* tokens of head went out.  Partial writes and EAGAIN both leave a rest that
\* goes out without a header of its own.
SendData(mem, pos, from, n, head, st, status) ==
    LET bw == AtMost(n, SockBuf - inflight - Len(head))
    IN  /\ peerOpen
        /\ rbout' = mem
        /\ rbpos' = pos
        /\ Sent(from, bw)
        /\ Counted
        /\ state' = st
        /\ app_status' = status
        /\ pollout' = (pollout \/ bw = 0 \/ st = "END")
        /\ wire' = wire \o head \o SubSeq(mem, from + 1, from + bw)
        /\ inflight' = inflight + Len(head) + bw

\* A ::write failed for good: what was buffered is dropped.
SendFails ==
    /\ ~peerOpen
    /\ SendSize > 0 /\ state # "END"
    /\ clearRbOut
    /\ app_status' = 500
    /\ state' = "OPEN"
    /\ UNCHANGED <<rbout, stdout_count, pollout, sockVars>>

\* It failed for the closing records, composed now or in an earlier call.
SendEndFails ==
    /\ ~peerOpen
    /\ \/ /\ SendSize > 0 /\ state = "END"
          /\ UNCHANGED <<rbout, rbpos, rbsend, pollout>>
       \/ /\ SendSize = 0 /\ state = "OPEN"
          /\ rbout' = EndBlock(app_status) /\ rbpos' = 2 /\ rbsend' = 0
          /\ Polled
    /\ state' = "EOF"
    /\ UNCHANGED <<stdout_count, app_status, sockVars>>

\* Nothing left in OPEN: the response is over, compose the closing records.
SendEnd ==
    /\ SendSize = 0 /\ state = "OPEN"
    /\ SendData(EndBlock(app_status), 2, 0, 2, <<>>, "END", app_status)

\* The end of a flush() that could send everything.
FlushSent_StillPolled == state = "FLUSH" /\ state' = "OPEN" /\ UNCHANGED pollout
FlushSent == state = "FLUSH" /\ state' = "OPEN" /\ pollout' = FALSE

SendDone ==
    /\ SendSize = 0
    /\ \/ state = "END" /\ state' = "EOF" /\ pollout' = FALSE
       \/ FlushSent
       \/ state \notin {"OPEN", "END", "FLUSH"} /\ UNCHANGED <<state, pollout>>
    /\ UNCHANGED <<rbout, rbpos, rbsend, stdout_count, app_status, sockVars>>

\* memmove() and memcpy() of the status line.
WithStatus_NotMoved == SubSeq(rbout, 1, rbpos) \o StatLine(app_status)
WithStatus == StatLine(app_status) \o SubSeq(rbout, 1, rbpos)
\* send_size += stat_len
SizeWith(fits) == SendSize + (IF fits THEN StatLen ELSE 0)

\* The first transmission: a pending status is put in front of the data, but
\* rbpos is not moved; a status line that does not fit is forgotten.
SendFirst ==
    LET fits == app_status > 0 /\ rbpos + StatLen < REQ_MAX_OUT
        mem == IF fits THEN WithStatus ELSE rbout
        n == SizeWith(fits)
    IN  /\ SendSize > 0 /\ stdout_count = 0
        /\ peerOpen
        /\ \/ /\ inflight < SockBuf
              /\ SendData(mem, rbpos, rbsend, n, <<Token("head", n)>>, state, 0)
           \/ /\ inflight = SockBuf
              /\ rbout' = mem
              /\ app_status' = 0
              /\ Polled
              /\ UNCHANGED <<state, rbpos, rbsend, stdout_count, sockVars>>

SendMore ==
    /\ SendSize > 0 /\ stdout_count > 0
    /\ SendData(rbout, rbpos, rbsend, SendSize, <<>>, state, app_status)

send == SendFails \/ SendEndFails \/ SendEnd \/ SendDone \/ SendFirst \/ SendMore
-----------------------------------------------------------------------------
(* Request::flush(), run by the handler: the scheduler waits for it. *)

getOutPending == rbpos # rbsend

Flushing(ret, next, n) ==
    /\ state' = "FLUSH"
    /\ Polled
    /\ rounds' = 0
    /\ ctl' = "flush"
    /\ caller' = ret
    /\ after' = next
    /\ todo' = n
FlushBegins(ret, next, n) == getOutPending /\ Flushing(ret, next, n)

FlushRound ==
    /\ ctl = "flush" /\ pollout /\ rounds < MaxRounds
    /\ send
    /\ rounds' = rounds + 1
    /\ UNCHANGED <<callVars, ctl, caller, after, todo, peerOpen>>

\* The bytes made + 1 .. made + n, put at position pos of the buffer.
Copy(pos, n) ==
    /\ rbout' = SubSeq(rbout, 1, pos) \o [i \in 1..n |-> Token("data", made + i)]
    /\ rbpos' = pos + n
    /\ made' = made + n

\* clearRbOut() and stdout_count = 0; rbpos follows in FlushReturns.
Rewound_NotCounted == rbsend' = 0 /\ UNCHANGED stdout_count
Rewound == rbsend' = 0 /\ stdout_count' = 0

\* The buffer is rewound whether or not all of it went out.
FlushReturns ==
    /\ ctl = "flush" /\ ~(pollout /\ rounds < MaxRounds)
    /\ Rewound
    /\ rounds' = 0
    /\ IF after = "copy"
       THEN Copy(0, todo) /\ Polled /\ todo' = 0
       ELSE rbpos' = 0 /\ UNCHANGED <<rbout, made, pollout, todo>>
    /\ ctl' = IF after = "file" THEN "file" ELSE caller
    /\ UNCHANGED <<state, app_status, sockVars, ready, called, ended, caller, after, peerOpen>>
-----------------------------------------------------------------------------
(* The handler: exec() and done() run inside Driver::work(); a handler that *)
(* keeps the request goes on between two calls of Scheduler::run().         *)

InHandler ==
    /\ ctl \in {"exec", "done"} \/ (ctl = "poll" /\ called = "done" /\ Does("late"))
    /\ ended => Does("again")
Producing == InHandler /\ (ctl = "exec" => Does("exec"))
Accepting == state \in {"STDIN", "OPEN"}

\* max < length
NoRoom_OffByOne(n) == REQ_MAX_OUT - rbpos + 1 < n
NoRoom(n) == REQ_MAX_OUT - rbpos < n

\* Request::write()
HWrite(n) ==
    /\ Producing /\ Accepting
    /\ made + n <= setup.bytes
    /\ IF NoRoom(n) /\ getOutPending
       THEN FlushBegins(ctl, "copy", n) /\ UNCHANGED <<rbout, rbpos, made>>
       ELSE /\ Copy(rbpos, n) /\ Polled
            /\ UNCHANGED <<state, ctl, flushVars>>
    /\ UNCHANGED <<rbsend, stdout_count, app_status, sockVars, ready, called, ended, peerOpen>>

\* A write into a closed request is ignored; the bytes are lost.
HWriteIgnored(n) ==
    /\ Producing /\ ~Accepting
    /\ made + n <= setup.bytes
    /\ made' = made + n
    /\ UNCHANGED <<reqVars, sockVars, flushVars, ready, called, ended, ctl, peerOpen>>

HFlush ==
    /\ Producing /\ Does("flush")
    /\ FlushBegins(ctl, "return", 0)
    /\ UNCHANGED <<rbout, rbpos, rbsend, stdout_count, app_status, sockVars, callVars, peerOpen>>

\* Request::writeFd(): fill rbout from the file, flush when it is full, flush
\* at the end of the file.
HWriteFd(n) ==
    /\ Producing /\ Does("flush") /\ Accepting
    /\ made + n <= setup.bytes
    /\ ctl' = "file" /\ caller' = ctl /\ todo' = n
    /\ UNCHANGED <<reqVars, sockVars, callVars, after, rounds, peerOpen>>

FileFull == rbpos >= REQ_MAX_OUT /\ getOutPending

FileFlush ==
    /\ ctl = "file" /\ FileFull
    /\ FlushBegins(caller, "file", todo)
    /\ UNCHANGED <<rbout, rbpos, rbsend, stdout_count, app_status, sockVars, callVars, peerOpen>>

\* What ::read() returns for a request of max bytes.
br_Max(max) == max
br(max) == AtMost(max, todo)

\* A flush() with nothing to send leaves rbpos where it was; the read that
\* follows is for a whole buffer all the same.
FileRead ==
    /\ ctl = "file" /\ ~FileFull /\ todo > 0
    /\ LET max == IF rbpos < REQ_MAX_OUT THEN REQ_MAX_OUT - rbpos ELSE REQ_MAX_OUT
       IN  Copy(rbpos, br(max)) /\ todo' = todo - br(max)
    /\ UNCHANGED <<state, rbsend, stdout_count, app_status, pollout, sockVars,
                   ready, called, ended, ctl, caller, after, rounds, peerOpen>>

FileDone ==
    /\ ctl = "file" /\ ~FileFull /\ todo = 0
    /\ \/ FlushBegins(caller, "return", 0)
       \/ /\ ~getOutPending
          /\ Polled
          /\ ctl' = caller
          /\ UNCHANGED <<state, flushVars>>
    /\ UNCHANGED <<rbout, rbpos, rbsend, stdout_count, app_status, sockVars, callVars, peerOpen>>

FileFails ==
    /\ Does("file")
    /\ ctl = "file" /\ ~FileFull
    /\ clearRbOut
    /\ ctl' = caller
    /\ todo' = 0
    /\ UNCHANGED <<state, rbout, stdout_count, app_status, pollout, sockVars, callVars,
                   caller, after, rounds, peerOpen>>

\* Request::setStatus()
HStatus(code) ==
    /\ InHandler
    /\ app_status' = code
    /\ UNCHANGED <<state, rbout, rbpos, rbsend, stdout_count, pollout, sockVars, callVars,
                   flushVars, ctl, peerOpen>>

\* Request::end(), which only a request in RQS_OPEN obeys.
HEnd(code) ==
    /\ Producing
    /\ ended' = TRUE
    /\ IF state = "OPEN" THEN app_status' = code /\ Polled
                         ELSE UNCHANGED <<app_status, pollout>>
    /\ UNCHANGED <<state, rbout, rbpos, rbsend, stdout_count, sockVars, ready, called, made,
                   flushVars, ctl, peerOpen>>

(* frame/HtmlBuffer. Its bytes become output when setOutPos() moves rbpos   *)
(* behind them; Unreleased of them are not. Between two calls of            *)
(* optionalFlush() the handler writes no more than that leaves room for;    *)
(* it clears before it releases, and copies files after bufferFlush().      *)
InPage == Producing /\ Does("page")
Unreleased == html - rbpos
Piece == REQ_MAX_OUT - (4 * REQ_MAX_OUT) \div 5

HPage(n) ==
    /\ InPage /\ n <= Piece
    /\ made + Unreleased + n <= setup.bytes
    /\ rbout' = SubSeq(rbout, 1, html) \o [i \in 1..n |-> Token("data", made + Unreleased + i)]
                \o SubSeq(rbout, html + n + 1, Len(rbout))
    /\ html' = html + n
    /\ ctl' = "page" /\ caller' = ctl
    /\ UNCHANGED <<state, rbpos, rbsend, stdout_count, app_status, pollout, sockVars, callVars,
                   after, todo, rounds, peerOpen>>

setOutPos == rbpos' = html /\ made' = made + Unreleased

bufferFlush(ret) ==
    /\ setOutPos /\ html' = 0
    /\ \/ html # rbsend /\ Flushing(ret, "return", 0)
       \/ html = rbsend /\ ctl' = ret /\ UNCHANGED <<state, pollout, flushVars>>
    /\ UNCHANGED <<rbout, rbsend, stdout_count, app_status, sockVars, ready, called, ended, peerOpen>>

\* Over 80 % of the capacity.
Crowded == 4 * REQ_MAX_OUT < 5 * html
optionalFlush ==
    /\ ctl = "page"
    /\ \/ Crowded /\ bufferFlush(caller)
       \/ /\ ~Crowded /\ ctl' = caller
          /\ UNCHANGED <<reqVars, sockVars, callVars, flushVars, html, peerOpen>>

HBufferFlush == InPage /\ bufferFlush(ctl)

HBufferRelease ==
    /\ InPage /\ setOutPos
    /\ UNCHANGED <<state, rbout, rbsend, stdout_count, app_status, pollout, sockVars,
                   ready, called, ended, flushVars, ctl, html, peerOpen>>

HBufferClear ==
    /\ InPage /\ rbpos = 0
    /\ html' = 0
    /\ UNCHANGED <<reqVars, sockVars, callVars, flushVars, ctl, peerOpen>>

\* Includer::toRequest(), of a file that can be opened.
toRequest(n) == InPage /\ html = 0 /\ HWriteFd(n)

HReturn ==
    /\ ctl \in {"exec", "done"}
    /\ ctl = "done" => ended \/ Does("late")
    /\ ctl' = "write"
    /\ UNCHANGED <<reqVars, sockVars, callVars, flushVars, peerOpen, html, setup>>
-----------------------------------------------------------------------------
(* Scheduler::run() as far as this request is concerned. *)

\* Driver::fillPollFd() and ppoll(): a request that neither reads nor writes
\* is not polled, and alone it makes run() return at once.
Poll ==
    /\ ctl = "poll"
    /\ state = "STDIN" \/ pollout
    /\ ready' = (pollout /\ Writable)
    /\ ctl' = "work"
    /\ UNCHANGED <<reqVars, sockVars, called, ended, made, flushVars, peerOpen>>

\* Driver::work(): no message, the end of the parameters, the end of the input.
Work ==
    /\ ctl = "work"
    /\ \/ ctl' = "write" /\ UNCHANGED <<state, called>>
       \/ /\ called = "none" /\ state = "STDIN"
          /\ called' = "exec" /\ ctl' = "exec" /\ UNCHANGED state
       \/ /\ called = "exec" /\ state = "STDIN"
          /\ called' = "done" /\ ctl' = "done" /\ state' = "OPEN"
    /\ UNCHANGED <<rbout, rbpos, rbsend, stdout_count, app_status, pollout, sockVars,
                   ready, ended, made, flushVars, peerOpen>>

\* Driver::write()
Write ==
    /\ ctl = "write"
    /\ ctl' = "free"
    /\ IF ready THEN send ELSE UNCHANGED <<reqVars, sockVars>>
    /\ UNCHANGED <<callVars, flushVars, peerOpen>>

\* Driver::freeDormantRequests(): close the socket and clear the request.
Free ==
    /\ ctl = "free"
    /\ ctl' = "poll"
    /\ IF state = "EOF" /\ Writable
       THEN /\ state' = "WAIT" /\ clearRbOut
            /\ stdout_count' = 0 /\ app_status' = 0 /\ pollout' = FALSE
       ELSE UNCHANGED <<state, rbpos, rbsend, stdout_count, app_status, pollout>>
    /\ UNCHANGED <<rbout, sockVars, callVars, flushVars, peerOpen>>
-----------------------------------------------------------------------------
(* The web server *)

PeerReads ==
    /\ inflight > 0
    /\ inflight' \in 0..inflight - 1
    /\ UNCHANGED <<reqVars, wire, callVars, flushVars, ctl, peerOpen, html, setup>>

PeerCloses ==
    /\ Does("leave") /\ peerOpen
    /\ peerOpen' = FALSE
    /\ inflight' = 0
    /\ UNCHANGED <<reqVars, wire, callVars, flushVars, ctl, html, setup>>

Codes == IF Does("status") THEN Statuses ELSE {0}

Raw ==
    /\ ~Does("page")
    /\ \/ \E n \in Lengths : HWrite(n) \/ HWriteIgnored(n) \/ HWriteFd(n)
       \/ HFlush
    /\ UNCHANGED <<html, setup>>

Page ==
    /\ \/ \E n \in Lengths : HPage(n)
       \/ HBufferFlush \/ HBufferRelease \/ HBufferClear
       \/ \E n \in Lengths : toRequest(n) /\ UNCHANGED html
    /\ UNCHANGED setup

Handler ==
    \/ Raw
    \/ Page
    \/ \E code \in Codes : (HStatus(code) \/ HEnd(code)) /\ UNCHANGED <<html, setup>>
    \/ HReturn

Library ==
    /\ \/ optionalFlush
       \/ /\ \/ FlushRound \/ FlushReturns
             \/ FileFlush \/ FileRead \/ FileDone \/ FileFails
             \/ Poll \/ Work \/ Write \/ Free
          /\ UNCHANGED html
    /\ UNCHANGED setup

Next == Handler \/ Library \/ PeerReads \/ PeerCloses

Spec == Init /\ [][Next]_vars

(* The thread runs on, a handler that ended the response returns, and the   *)
(* web server reads what it is sent for as long as it keeps the connection. *)
Fairness ==
    /\ WF_vars(Library)
    /\ WF_vars(HReturn)
    /\ WF_vars(PeerReads)

FairSpec == Spec /\ Fairness
-----------------------------------------------------------------------------
(* Properties; those about the records on the wire are in ResponseProperties. *)

TokenType == [t : {"data"}, v : Nat \ {0}] \cup [t : {"stat", "head", "empty", "end"}, v : Nat]

TypeOK ==
    /\ state \in States
    /\ rbout \in Seq(TokenType) /\ rbpos \in Nat /\ rbsend \in Nat
    /\ stdout_count \in 0..1 /\ app_status \in Nat /\ pollout \in BOOLEAN
    /\ ctl \in {"poll", "work", "exec", "done", "page", "flush", "file", "write", "free"}
    /\ ready \in BOOLEAN /\ called \in {"none", "exec", "done"} /\ ended \in BOOLEAN
    /\ made \in Nat /\ todo \in Nat /\ rounds \in Nat /\ html \in 0..REQ_MAX_OUT
    /\ caller \in {"poll", "exec", "done"} /\ after \in {"return", "copy", "file"}
    /\ wire \in Seq(TokenType) /\ inflight \in 0..SockBuf /\ peerOpen \in BOOLEAN
    /\ setup \in Setups

(* rbout is a plain array behind write(), writeFd() and send(): the copies  *)
(* must end inside it, whatever was sent or flushed in between.             *)
OutBufferBounded == rbpos <= REQ_MAX_OUT

(* Only a request that is polled for POLLOUT gets another send().  One that *)
(* is flushing or sending its last items is polled, whatever the handler    *)
(* and the web server do; otherwise it would keep its slot forever.         *)
SendingIsPolled == state \in {"FLUSH", "END"} => pollout
=============================================================================
