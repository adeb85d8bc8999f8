--------------------------- MODULE ResponseProofs ---------------------------
(***************************************************************************)
(* Safety of module Response for every size of buffer and socket, every     *)
(* set of lengths and statuses and every set of setups that the theorems     *)
(* allow.                                                                   *)
(***************************************************************************)
EXTENDS ResponseProperties, SequenceLemmas

USE DEF reqVars, sockVars, callVars, flushVars

-----------------------------------------------------------------------------
(* A request that is sending is polled *)

LEMMA SendPolls == ASSUME SendingIsPolled, send PROVE SendingIsPolled'
<1>1. CASE SendFails
  BY <1>1 DEF SendFails, SendingIsPolled
<1>2. CASE SendEndFails
  BY <1>2 DEF SendEndFails, SendingIsPolled
<1>3. CASE SendEnd
  BY <1>3 DEF SendEnd, SendData, SendingIsPolled
<1>4. CASE SendDone
  BY <1>4 DEF SendDone, FlushSent, SendingIsPolled
<1>5. CASE SendFirst
  BY <1>5 DEF SendFirst, SendData, Polled, SendingIsPolled
<1>6. CASE SendMore
  BY <1>6 DEF SendMore, SendData, SendingIsPolled
<1>7. QED BY <1>1, <1>2, <1>3, <1>4, <1>5, <1>6 DEF send

(* Whoever leaves RQS_OPEN for RQS_FLUSH or RQS_END sets POLLOUT, and only  *)
(* send() clears it, together with the state: no request can be forgotten   *)
(* while it is sending, whatever the handler and the web server do.         *)
THEOREM SendingPolled == Spec => []SendingIsPolled
<1>1. Init => SendingIsPolled
  BY DEF Init, SendingIsPolled
<1>2. SendingIsPolled /\ [Next]_vars => SendingIsPolled'
  <2> SUFFICES ASSUME SendingIsPolled, [Next]_vars PROVE SendingIsPolled'
    OBVIOUS
  <2> USE DEF SendingIsPolled
  <2>1. CASE UNCHANGED vars
    BY <2>1 DEF vars
  <2>2. CASE Handler
    <3>1. ASSUME NEW n \in Lengths, HWrite(n) PROVE SendingIsPolled'
      BY <3>1 DEF HWrite, FlushBegins, Flushing, Polled
    <3>2. ASSUME NEW n \in Lengths, HWriteIgnored(n) \/ HWriteFd(n) PROVE SendingIsPolled'
      BY <3>2 DEF HWriteIgnored, HWriteFd
    <3>3. ASSUME NEW code \in Codes, HStatus(code) \/ HEnd(code) PROVE SendingIsPolled'
      BY <3>3 DEF HStatus, HEnd, Polled
    <3>4. ASSUME HFlush PROVE SendingIsPolled'
      BY <3>4 DEF HFlush, FlushBegins, Flushing, Polled
    <3>5. ASSUME HReturn PROVE SendingIsPolled'
      BY <3>5 DEF HReturn
    <3>6. ASSUME NEW n \in Lengths, HPage(n) PROVE SendingIsPolled'
      BY <3>6 DEF HPage
    <3>7. ASSUME HBufferFlush PROVE SendingIsPolled'
      BY <3>7 DEF HBufferFlush, bufferFlush, Flushing, Polled
    <3>8. ASSUME HBufferRelease \/ HBufferClear PROVE SendingIsPolled'
      BY <3>8 DEF HBufferRelease, HBufferClear
    <3>9. ASSUME NEW n \in Lengths, toRequest(n) PROVE SendingIsPolled'
      BY <3>2, <3>9 DEF toRequest
    <3>10. CASE Raw
      BY <3>1, <3>2, <3>4, <3>10 DEF Raw
    <3>11. CASE Page
      BY <3>6, <3>7, <3>8, <3>9, <3>11 DEF Page
    <3>12. QED BY <2>2, <3>3, <3>5, <3>10, <3>11 DEF Handler
  <2>3. CASE Library
    <3>1. ASSUME FlushRound PROVE SendingIsPolled'
      BY <3>1, SendPolls DEF FlushRound
    <3>2. ASSUME FlushReturns PROVE SendingIsPolled'
      BY <3>2 DEF FlushReturns, Polled
    <3>3. ASSUME FileFlush \/ FileDone PROVE SendingIsPolled'
      BY <3>3 DEF FileFlush, FileDone, FlushBegins, Flushing, Polled
    <3>4. ASSUME FileRead \/ FileFails PROVE SendingIsPolled'
      BY <3>4 DEF FileRead, FileFails
    <3>5. ASSUME Poll \/ Work PROVE SendingIsPolled'
      BY <3>5 DEF Poll, Work
    <3>6. ASSUME Write PROVE SendingIsPolled'
      BY <3>6, SendPolls DEF Write
    <3>7. ASSUME Free PROVE SendingIsPolled'
      BY <3>7 DEF Free
    <3>8. ASSUME optionalFlush PROVE SendingIsPolled'
      BY <3>8 DEF optionalFlush, bufferFlush, Flushing, Polled
    <3>9. QED BY <2>3, <3>1, <3>2, <3>3, <3>4, <3>5, <3>6, <3>7, <3>8 DEF Library
  <2>4. CASE PeerReads \/ PeerCloses
    BY <2>4 DEF PeerReads, PeerCloses
  <2>5. QED BY <2>1, <2>2, <2>3, <2>4 DEF Next
<1>3. QED BY <1>1, <1>2, PTL DEF Spec
-----------------------------------------------------------------------------
(* rbout is never overrun by a handler that produces its output in done()   *)

(* rbpos alone is not inductive: write() relies on flush() to rewind it,    *)
(* and flush() does nothing when everything was sent.  What saves a handler *)
(* that only writes in done() is that rbsend is 0 whenever it runs. The     *)
(* stream of an HtmlBuffer has no limit of its own: what keeps it in rbout  *)
(* is that it is never left more than 80 % full.                            *)
OutInv ==
    /\ setup \in Setups
    /\ rbpos \in 0..REQ_MAX_OUT
    /\ todo \in Nat
    /\ called # "done" => rbpos = 0 /\ rbsend = 0 /\ state = "STDIN"
    /\ ctl = "exec" => called = "exec"
    /\ ctl \in {"done", "page", "flush", "file"} => called = "done"
    /\ ctl \in {"page", "flush", "file"} => caller = "done"
    /\ ctl \in {"done", "page", "file"} => rbsend = 0
    /\ html \in 0..REQ_MAX_OUT
    /\ Crowded => ctl = "page"
    /\ (ctl = "flush" /\ after = "copy") => todo <= REQ_MAX_OUT

LEMMA SendInv ==
    ASSUME OutInv, send
    PROVE  /\ rbpos' \in 0..REQ_MAX_OUT
           /\ called # "done" => rbpos' = 0 /\ rbsend' = 0 /\ state' = "STDIN"
<1> USE SizesAssumption DEF OutInv
<1>1. CASE SendFails
  BY <1>1 DEF SendFails, clearRbOut, SendSize
<1>2. CASE SendEndFails
  BY <1>2 DEF SendEndFails, SendSize
<1>3. CASE SendEnd
  BY <1>3 DEF SendEnd, SendData
<1>4. CASE SendDone
  BY <1>4 DEF SendDone, FlushSent
<1>5. CASE SendFirst
  BY <1>5 DEF SendFirst, SendData, SendSize
<1>6. CASE SendMore
  BY <1>6 DEF SendMore, SendData, SendSize
<1>7. QED BY <1>1, <1>2, <1>3, <1>4, <1>5, <1>6 DEF send

(* A piece fits behind a stream that optionalFlush() left. *)
LEMMA PieceFits ==
    ASSUME NEW n \in Nat, n <= Piece, html \in Nat, ~Crowded
    PROVE  html + n \in 0..REQ_MAX_OUT
<1>1. html <= (4 * REQ_MAX_OUT) \div 5
  BY SizesAssumption DEF Crowded
<1>2. (4 * REQ_MAX_OUT) \div 5 \in Nat
  BY SizesAssumption
<1>3. QED BY <1>1, <1>2, SizesAssumption DEF Piece

(* setOutPos() and flush() with the bytes of the stream. *)
LEMMA BufferFlushInv ==
    ASSUME OutInv, ctl \in {"done", "page"}, bufferFlush("done"), UNCHANGED setup
    PROVE  OutInv'
<1> USE SizesAssumption DEF OutInv
<1>1. rbpos' = html /\ html' = 0 /\ UNCHANGED <<rbsend, called>>
  BY DEF bufferFlush, setOutPos
<1>2. ~Crowded'
  BY <1>1 DEF Crowded
<1>3. CASE Flushing("done", "return", 0)
  BY <1>1, <1>2, <1>3 DEF Flushing
<1>4. CASE ctl' = "done" /\ UNCHANGED <<state, pollout, flushVars>>
  BY <1>1, <1>2, <1>4
<1>5. QED BY <1>3, <1>4 DEF bufferFlush

LEMMA InitOut == Init => OutInv
BY SizesAssumption DEF Init, OutInv, Crowded

LEMMA NextOut == ASSUME OnlyInDone PROVE OutInv /\ [Next]_vars => OutInv'
<1> SUFFICES ASSUME OutInv, [Next]_vars PROVE OutInv'
  OBVIOUS
<1> USE SizesAssumption DEF OnlyInDone, OutInv, Crowded
<1>1. CASE UNCHANGED vars
  BY <1>1 DEF vars
<1>2. ASSUME NEW n \in Lengths, Producing PROVE ctl = "done" /\ rbsend = 0
  BY <1>2 DEF Producing, InHandler, Does
<1>3. CASE Handler
  <2>0. UNCHANGED setup
    BY <1>3 DEF Handler, Raw, Page, HReturn
  <2> USE <2>0
  <2>1. ASSUME NEW n \in Lengths, HWrite(n), UNCHANGED html PROVE OutInv'
    <3>1. n \in 1..REQ_MAX_OUT /\ ctl = "done" /\ rbsend = 0
      BY <1>2, <2>1 DEF HWrite
    <3>2. CASE NoRoom(n) /\ getOutPending
      BY <2>1, <3>1, <3>2 DEF HWrite, FlushBegins, Flushing
    <3>3. CASE ~(NoRoom(n) /\ getOutPending)
      <4>1. rbpos + n <= REQ_MAX_OUT
        BY <3>1, <3>3 DEF NoRoom, getOutPending
      <4>2. rbpos' = rbpos + n /\ UNCHANGED <<ctl, rbsend, called, caller, after, todo, html>>
        BY <2>1, <3>3 DEF HWrite, Copy
      <4>3. QED BY <3>1, <4>1, <4>2
    <3>4. QED BY <3>2, <3>3
  <2>2. ASSUME NEW n \in Lengths, HWriteIgnored(n), UNCHANGED html PROVE OutInv'
    BY <2>2 DEF HWriteIgnored
  <2>3. ASSUME NEW n \in Lengths, HWriteFd(n), UNCHANGED html PROVE OutInv'
    BY <1>2, <2>3 DEF HWriteFd
  <2>4. ASSUME NEW code \in Codes, HStatus(code) \/ HEnd(code), UNCHANGED html PROVE OutInv'
    BY <2>4 DEF HStatus, HEnd
  <2>5. ASSUME HFlush, UNCHANGED html PROVE OutInv'
    BY <2>5 DEF HFlush, FlushBegins, Flushing, Producing, InHandler, Does
  <2>6. ASSUME HReturn PROVE OutInv'
    BY <2>6 DEF HReturn
  <2>7. ASSUME NEW n \in Lengths, HPage(n) PROVE OutInv'
    <3>0. n \in Nat
      OBVIOUS
    <3>1. ctl = "done" /\ rbsend = 0 /\ n <= Piece
      BY <1>2, <2>7 DEF HPage, InPage
    <3>2. html' = html + n /\ ctl' = "page" /\ caller' = "done"
          /\ UNCHANGED <<state, rbpos, rbsend, called, after, todo>>
      BY <2>7, <3>1 DEF HPage
    <3>3. html' \in 0..REQ_MAX_OUT
      BY <3>0, <3>1, <3>2, PieceFits
    <3>4. QED BY <3>1, <3>2, <3>3
  <2>8. ASSUME HBufferFlush PROVE OutInv'
    BY <1>2, <2>8, BufferFlushInv DEF HBufferFlush, InPage, Producing, InHandler, Does
  <2>9. ASSUME HBufferRelease PROVE OutInv'
    BY <2>9 DEF HBufferRelease, setOutPos, InPage, Producing, InHandler, Does
  <2>10. ASSUME HBufferClear PROVE OutInv'
    BY <2>10 DEF HBufferClear
  <2>11. ASSUME NEW n \in Lengths, toRequest(n), UNCHANGED html PROVE OutInv'
    BY <2>3, <2>11 DEF toRequest
  <2>12. CASE Raw
    BY <2>1, <2>2, <2>3, <2>5, <2>12 DEF Raw
  <2>13. CASE Page
    BY <2>7, <2>8, <2>9, <2>10, <2>11, <2>13 DEF Page
  <2>14. QED BY <1>3, <2>4, <2>6, <2>12, <2>13 DEF Handler
<1>4. CASE Library
  <2>0. UNCHANGED setup
    BY <1>4 DEF Library
  <2> USE <2>0
  <2>1. ASSUME FlushRound, UNCHANGED html PROVE OutInv'
    BY <2>1, SendInv DEF FlushRound
  <2>2. ASSUME FlushReturns, UNCHANGED html PROVE OutInv'
    BY <2>2 DEF FlushReturns, Rewound, Copy
  <2>3. ASSUME FileFlush, UNCHANGED html PROVE OutInv'
    BY <2>3 DEF FileFlush, FlushBegins, Flushing
  <2>4. ASSUME FileRead, UNCHANGED html PROVE OutInv'
    <3> DEFINE k == br(REQ_MAX_OUT - rbpos)
    <3>1. ctl = "file" /\ rbpos < REQ_MAX_OUT /\ rbsend = 0
      BY <2>4 DEF FileRead, FileFull, getOutPending
    <3>2. k \in 0..REQ_MAX_OUT - rbpos /\ k <= todo
      BY <3>1 DEF br, AtMost
    <3>3. rbpos' = rbpos + k /\ todo' = todo - k
      BY <2>4, <3>1 DEF FileRead, Copy
    <3> HIDE DEF k
    <3>4. rbpos' \in 0..REQ_MAX_OUT /\ todo' \in Nat
      BY <3>1, <3>2, <3>3
    <3>5. UNCHANGED <<rbsend, called, ctl, caller, after, state, html>>
      BY <2>4 DEF FileRead
    <3>6. QED BY <3>1, <3>4, <3>5
  <2>5. ASSUME FileDone, UNCHANGED html PROVE OutInv'
    BY <2>5 DEF FileDone, FlushBegins, Flushing
  <2>6. ASSUME FileFails, UNCHANGED html PROVE OutInv'
    BY <2>6 DEF FileFails, clearRbOut
  <2>7. ASSUME Poll, UNCHANGED html PROVE OutInv'
    BY <2>7 DEF Poll
  <2>8. ASSUME Work, UNCHANGED html PROVE OutInv'
    BY <2>8 DEF Work
  <2>9. ASSUME Write, UNCHANGED html PROVE OutInv'
    BY <2>9, SendInv DEF Write
  <2>10. ASSUME Free, UNCHANGED html PROVE OutInv'
    BY <2>10 DEF Free, clearRbOut
  <2>11. ASSUME optionalFlush PROVE OutInv'
    <3>1. CASE Crowded /\ bufferFlush(caller)
      BY <2>11, <3>1, BufferFlushInv DEF optionalFlush
    <3>2. CASE ~Crowded /\ ctl' = caller /\ UNCHANGED <<reqVars, sockVars, callVars, flushVars, html>>
      BY <2>11, <3>2 DEF optionalFlush
    <3>3. QED BY <2>11, <3>1, <3>2 DEF optionalFlush
  <2>12. QED
    BY <1>4, <2>1, <2>2, <2>3, <2>4, <2>5, <2>6, <2>7, <2>8, <2>9, <2>10, <2>11 DEF Library
<1>5. CASE PeerReads \/ PeerCloses
  BY <1>5 DEF PeerReads, PeerCloses
<1>6. QED BY <1>1, <1>3, <1>4, <1>5 DEF Next

(* write(), writeFd() and send() stay inside rbout if the handler produces  *)
(* no output in exec() and none after done() has returned; and so does an   *)
(* HtmlBuffer that is asked for optionalFlush() after every short piece.    *)
THEOREM OutputFits == ASSUME OnlyInDone PROVE Spec => []OutBufferBounded
<1>1. OutInv => OutBufferBounded
  BY SizesAssumption DEF OutInv, OutBufferBounded
<1> QED BY <1>1, InitOut, NextOut, PTL DEF Spec
-----------------------------------------------------------------------------
(* Closing records follow end() *)

(* send() composes the closing records whenever nothing is left to send in  *)
(* RQS_OPEN, end() or not. That it does not do so too early rests on three  *)
(* things: done() returns after end(), a flush() waits in RQS_FLUSH, and    *)
(* only a request whose done() was called is in RQS_OPEN.                   *)
EndInv ==
    /\ OutInv
    /\ (called = "done" /\ ctl \notin {"done", "page", "flush", "file"}) => ended
    /\ (ctl = "flush" /\ pollout /\ peerOpen) => state = "FLUSH"
    /\ EndAfterHandlerEnd

LEMMA SendEnds ==
    ASSUME EndInv, send, ctl = "write" \/ (ctl = "flush" /\ pollout)
    PROVE  /\ peerOpen /\ state = "FLUSH" /\ pollout' => state' = "FLUSH"
           /\ state' \in {"END", "EOF"} => ended \/ ~peerOpen
<1> USE DEF EndInv, EndAfterHandlerEnd
<1>1. CASE SendFails
  BY <1>1 DEF SendFails
<1>2. CASE SendEndFails
  BY <1>2 DEF SendEndFails
<1>3. CASE SendEnd
  <2>1. called = "done"
    BY <1>3 DEF SendEnd, OutInv
  <2> QED BY <1>3, <2>1 DEF SendEnd, SendData
<1>4. CASE SendDone
  BY <1>4 DEF SendDone, FlushSent
<1>5. CASE SendFirst
  BY <1>5 DEF SendFirst, SendData
<1>6. CASE SendMore
  BY <1>6 DEF SendMore, SendData
<1> QED BY <1>1, <1>2, <1>3, <1>4, <1>5, <1>6 DEF send

LEMMA NextEnd == ASSUME OnlyInDone PROVE EndInv /\ [Next]_vars => EndInv'
<1> SUFFICES ASSUME EndInv, [Next]_vars PROVE EndInv'
  OBVIOUS
<1> USE DEF EndInv, EndAfterHandlerEnd
<1>0. OutInv'
  BY NextOut
<1>1. Producing => ctl = "done"
  BY DEF OnlyInDone, OutInv, Producing, InHandler, Does
<1>2. CASE UNCHANGED vars
  BY <1>0, <1>2 DEF vars
<1>3. CASE PeerReads \/ PeerCloses
  BY <1>0, <1>3 DEF PeerReads, PeerCloses
<1>4. CASE Raw
  <2>1. ASSUME NEW n \in Lengths, HWrite(n) PROVE EndInv'
    BY <1>0, <1>1, <2>1 DEF HWrite, FlushBegins, Flushing
  <2>2. ASSUME NEW n \in Lengths, HWriteIgnored(n) PROVE EndInv'
    BY <1>0, <1>1, <2>2 DEF HWriteIgnored
  <2>3. ASSUME NEW n \in Lengths, HWriteFd(n) PROVE EndInv'
    BY <1>0, <1>1, <2>3 DEF HWriteFd
  <2>4. ASSUME HFlush PROVE EndInv'
    BY <1>0, <1>1, <2>4 DEF HFlush, FlushBegins, Flushing
  <2> QED BY <1>4, <2>1, <2>2, <2>3, <2>4 DEF Raw
<1>5. ASSUME ctl \in {"done", "page"}, called = "done", UNCHANGED setup,
             bufferFlush("done") PROVE EndInv'
  BY <1>0, <1>5 DEF bufferFlush, Flushing
<1>6. CASE Page
  <2>1. ASSUME NEW n \in Lengths, HPage(n) PROVE EndInv'
    BY <1>0, <1>1, <2>1 DEF HPage, InPage
  <2>2. CASE HBufferFlush
    BY <1>1, <1>5, <1>6, <2>2 DEF HBufferFlush, InPage, Page, OutInv
  <2>3. CASE HBufferRelease \/ HBufferClear
    BY <1>0, <1>1, <2>3 DEF HBufferRelease, HBufferClear, InPage
  <2>4. ASSUME NEW n \in Lengths, toRequest(n) PROVE EndInv'
    BY <1>0, <1>1, <2>4 DEF toRequest, HWriteFd
  <2> QED BY <1>6, <2>1, <2>2, <2>3, <2>4 DEF Page
<1>7. CASE Handler
  <2>1. ASSUME NEW code \in Codes, HStatus(code) \/ HEnd(code) PROVE EndInv'
    BY <1>0, <1>1, <2>1 DEF HStatus, HEnd
  <2>2. CASE HReturn
    <3>1. Does("late") => FALSE
      BY DEF OnlyInDone, OutInv, Does
    <3> QED BY <1>0, <2>2, <3>1 DEF HReturn, OutInv
  <2> QED BY <1>4, <1>6, <1>7, <2>1, <2>2 DEF Handler
<1>8. CASE Library
  <2>1. CASE optionalFlush
    <3>1. CASE bufferFlush(caller)
      BY <1>5, <1>8, <2>1, <3>1 DEF optionalFlush, OutInv, Library
    <3>2. CASE ctl' = caller /\ UNCHANGED <<reqVars, callVars, peerOpen>>
      BY <1>0, <2>1, <3>2 DEF optionalFlush, OutInv
    <3> QED BY <2>1, <3>1, <3>2 DEF optionalFlush
  <2>2. CASE FlushRound
    BY <1>0, <2>2, SendEnds DEF FlushRound
  <2>3. CASE FlushReturns
    BY <1>0, <2>3 DEF FlushReturns, OutInv
  <2>4. CASE FileFlush \/ FileDone
    BY <1>0, <2>4 DEF FileFlush, FileDone, FlushBegins, Flushing, OutInv
  <2>5. CASE FileRead \/ FileFails
    BY <1>0, <2>5 DEF FileRead, FileFails, OutInv
  <2>6. CASE Poll
    BY <1>0, <2>6 DEF Poll
  <2>7. CASE Work
    BY <1>0, <2>7 DEF Work, OutInv
  <2>8. CASE Write
    BY <1>0, <2>8, SendEnds DEF Write, OutInv
  <2>9. CASE Free
    BY <1>0, <2>9 DEF Free
  <2> QED BY <1>8, <2>1, <2>2, <2>3, <2>4, <2>5, <2>6, <2>7, <2>8, <2>9 DEF Library
<1> QED BY <1>2, <1>3, <1>7, <1>8 DEF Next

(* The library never closes a response on its own: END_REQUEST is composed  *)
(* for a handler that has called end(), or after the web server has gone.   *)
(* A handler that keeps the request after done() has no such promise.       *)
THEOREM EndsAfterEnd == ASSUME OnlyInDone PROVE Spec => []EndAfterHandlerEnd
<1>1. Init => EndInv
  BY InitOut DEF Init, EndInv, EndAfterHandlerEnd
<1>2. EndInv => EndAfterHandlerEnd
  BY DEF EndInv
<1> QED BY <1>1, <1>2, NextEnd, PTL DEF Spec
-----------------------------------------------------------------------------
(* Every variable keeps its type, and what is sent was written *)

(* The bytes of a page lie in rbout behind those already counted.           *)
PageInv ==
    /\ called # "done" => rbpos = 0 /\ rbsend = 0 /\ state = "STDIN" /\ html = 0
    /\ ctl = "exec" => called = "exec"
    /\ ctl \in {"done", "page", "flush", "file"} => called = "done"
    /\ ctl \in {"page", "flush", "file"} => caller = "done"
    /\ ctl \in {"done", "page", "file"} => rbsend = 0
    /\ ctl \in {"flush", "file"} => html = 0
    /\ ctl = "flush" => after # "copy"
    /\ ctl \in {"done", "page"} => rbpos <= html /\ html <= Len(rbout)
    /\ Crowded => ctl = "page"

(* send() trusts rbpos: as much of rbout must have been written.            *)
TypeInv ==
    /\ TypeOK
    /\ rbpos <= Len(rbout)
    /\ stdout_count = 0 => rbsend = 0
    /\ ctl = "page" => Does("page")
    /\ Does("page") => PageInv
    /\ ~Does("page") => html = 0

LEMMA InitType == Init => TypeInv
<1> SUFFICES ASSUME Init PROVE TypeInv
  OBVIOUS
<1>1. 0 \in 0..REQ_MAX_OUT /\ SockBuf \in Nat /\ ~Crowded
  BY SizesAssumption, SetupsAssumption DEF Init, SockBuf, Crowded
<1>2. 0 \in 0..SockBuf
  BY <1>1
<1>3. TypeOK
  <2>1. setup \in Setups /\ inflight \in 0..SockBuf /\ html \in 0..REQ_MAX_OUT
    BY <1>1, <1>2 DEF Init
  <2>2. rbout \in Seq(TokenType) /\ wire \in Seq(TokenType)
    BY DEF Init
  <2>3. /\ state \in States /\ rbpos \in Nat /\ rbsend \in Nat
        /\ stdout_count \in 0..1 /\ app_status \in Nat /\ pollout \in BOOLEAN
    <3>1. state = "STDIN" /\ pollout = FALSE
      BY DEF Init
    <3>2. rbpos = 0 /\ rbsend = 0 /\ stdout_count = 0 /\ app_status = 0
      BY DEF Init
    <3>3. state \in States
      BY <3>1 DEF States
    <3>4. pollout \in BOOLEAN
      BY <3>1
    <3>5. rbpos \in Nat /\ rbsend \in Nat
      BY <3>2
    <3>6. stdout_count \in 0..1
      BY <3>2
    <3>7. app_status \in Nat
      BY <3>2
    <3> QED BY <3>3, <3>4, <3>5, <3>6, <3>7
  <2>4. /\ ctl \in {"poll", "work", "exec", "done", "page", "flush", "file", "write", "free"}
        /\ ready \in BOOLEAN /\ called \in {"none", "exec", "done"} /\ ended \in BOOLEAN
        /\ made \in Nat /\ todo \in Nat /\ rounds \in Nat
        /\ caller \in {"poll", "exec", "done"} /\ after \in {"return", "copy", "file"}
        /\ peerOpen \in BOOLEAN
    BY DEF Init
  <2> QED BY <2>1, <2>2, <2>3, <2>4 DEF TypeOK
<1>4. PageInv /\ rbpos <= Len(rbout)
  BY <1>1 DEF Init, PageInv
<1> QED BY <1>3, <1>4 DEF Init, TypeInv

LEMMA Fields ==
    ASSUME NEW type, NEW value PROVE Token(type, value).t = type /\ Token(type, value).v = value
BY DEF Token

(* What is to be sent and what was are tokens.                              *)
LEMMA Values ==
    ASSUME TypeInv
    PROVE  /\ \A i \in 1..rbpos : rbout[i].v \in Nat
           /\ \A i \in 1..Len(wire) : wire[i].v \in Nat
<1>1. rbout \in Seq(TokenType) /\ wire \in Seq(TokenType) /\ rbpos \in 0..Len(rbout)
  BY DEF TypeInv, TypeOK
<1>2. ASSUME NEW i \in 1..rbpos PROVE rbout[i].v \in Nat
  <2>1. i \in 1..Len(rbout)
    BY <1>1
  <2>2. rbout[i] \in TokenType
    BY <1>1, <2>1
  <2> QED BY <2>2 DEF TokenType
<1>3. ASSUME NEW i \in 1..Len(wire) PROVE wire[i].v \in Nat
  <2>1. wire[i] \in TokenType
    BY <1>1
  <2> QED BY <2>1 DEF TokenType
<1> QED BY <1>2, <1>3

(* Where the tokens of two sequences are after they were joined.            *)
LEMMA Joined ==
    ASSUME NEW s \in Seq(TokenType), NEW t \in Seq(TokenType)
    PROVE  /\ s \o t \in Seq(TokenType) /\ Len(s \o t) = Len(s) + Len(t)
           /\ \A i \in 1..Len(s) : (s \o t)[i] = s[i]
           /\ \A i \in 1..Len(t) : (s \o t)[Len(s) + i] = t[i]
<1>0. Len(s) \in Nat /\ Len(t) \in Nat
  OBVIOUS
<1>1. s \o t \in Seq(TokenType) /\ Len(s \o t) = Len(s) + Len(t)
  BY ConcatProperties
<1>2. \A i \in 1..Len(s) + Len(t) : (s \o t)[i] = IF i <= Len(s) THEN s[i] ELSE t[i - Len(s)]
  BY ConcatProperties
<1>3. \A i \in 1..Len(s) : (s \o t)[i] = s[i]
  BY <1>0, <1>2
<1>4. ASSUME NEW i \in 1..Len(t) PROVE (s \o t)[Len(s) + i] = t[i]
  <2>1. /\ Len(s) + i \in 1..Len(s) + Len(t) /\ ~(Len(s) + i <= Len(s))
        /\ (Len(s) + i) - Len(s) = i
    BY <1>0
  <2> QED BY <1>2, <2>1
<1> QED BY <1>1, <1>3, <1>4

(* What the copies put into rbout.                                          *)
LEMMA Copied ==
    ASSUME rbout \in Seq(TokenType), NEW pos \in 0..Len(rbout), NEW n \in Nat, made \in Nat,
           Copy(pos, n)
    PROVE  /\ rbout' \in Seq(TokenType) /\ Len(rbout') = pos + n
           /\ \A i \in 1..pos : rbout'[i] = rbout[i]
           /\ \A i \in 1..n : rbout'[pos + i] = Token("data", made + i)
           /\ rbpos' = pos + n /\ made' = made + n
<1> DEFINE kept == SubSeq(rbout, 1, pos)
           new == [i \in 1..n |-> Token("data", made + i)]
<1>1. kept \in Seq(TokenType) /\ Len(kept) = pos /\ \A i \in 1..pos : kept[i] = rbout[i]
  OBVIOUS
<1>2. \A i \in 1..n : Token("data", made + i) \in TokenType
  BY DEF Token, TokenType
<1>3. new \in Seq(TokenType) /\ Len(new) = n /\ \A i \in 1..n : new[i] = Token("data", made + i)
  BY <1>2
<1>4. rbout' = kept \o new /\ rbpos' = pos + n /\ made' = made + n
  BY DEF Copy
<1> HIDE DEF kept, new
<1> QED BY <1>1, <1>3, <1>4, Joined

(* The status line in front of what is in rbout.                            *)
LEMMA WithStatusType ==
    ASSUME TypeInv
    PROVE  /\ WithStatus \in Seq(TokenType) /\ Len(WithStatus) = StatLen + rbpos
           /\ \A i \in 1..StatLen : WithStatus[i] = Token("stat", app_status)
           /\ \A i \in 1..rbpos : WithStatus[StatLen + i] = rbout[i]
<1> DEFINE line == StatLine(app_status)
           kept == SubSeq(rbout, 1, rbpos)
<1>0. rbout \in Seq(TokenType) /\ rbpos \in 0..Len(rbout) /\ app_status \in Nat /\ StatLen \in Nat
  BY SizesAssumption DEF TypeInv, TypeOK
<1>1. Token("stat", app_status) \in TokenType
  BY <1>0 DEF Token, TokenType
<1>2. line \in Seq(TokenType) /\ Len(line) = StatLen
      /\ \A i \in 1..StatLen : line[i] = Token("stat", app_status)
  BY <1>0, <1>1 DEF StatLine
<1>3. kept \in Seq(TokenType) /\ Len(kept) = rbpos /\ \A i \in 1..rbpos : kept[i] = rbout[i]
  BY <1>0
<1> HIDE DEF line, kept
<1>4. /\ line \o kept \in Seq(TokenType) /\ Len(line \o kept) = StatLen + rbpos
      /\ \A i \in 1..StatLen : (line \o kept)[i] = Token("stat", app_status)
      /\ \A i \in 1..rbpos : (line \o kept)[StatLen + i] = rbout[i]
  BY <1>2, <1>3, Joined
<1> QED BY <1>4 DEF WithStatus, line, kept

(* The closing records hold no byte of the response.                        *)
LEMMA EndBlockType ==
    ASSUME NEW code \in Nat
    PROVE  /\ EndBlock(code) \in Seq(TokenType) /\ Len(EndBlock(code)) = 2
           /\ EndBlock(code)[1] = Token("empty", 0) /\ EndBlock(code)[2] = Token("end", code)
BY DEF EndBlock, Token, TokenType

(* One ::write: what goes out is a header, if any, and then bw bytes of     *)
(* mem, as many as the socket takes.                                        *)
WentOut(mem, from, n, head, bw) ==
    /\ rbsend' = from + bw
    /\ bw = AtMost(n, SockBuf - inflight - Len(head))
    /\ inflight' = inflight + Len(head) + bw /\ inflight' \in 0..SockBuf
    /\ wire' \in Seq(TokenType) /\ Len(wire') = Len(wire) + Len(head) + bw
    /\ \A i \in DOMAIN wire : wire'[i] = wire[i]
    /\ \A i \in 1..Len(head) : wire'[Len(wire) + i] = head[i]
    /\ \A i \in 1..bw : wire'[Len(wire) + Len(head) + i] = mem[from + i]

LEMMA Transmitted ==
    ASSUME TypeInv, NEW mem \in Seq(TokenType), NEW pos \in Nat, NEW from \in Nat,
           NEW n \in Nat, from + n <= Len(mem), NEW head \in Seq(TokenType),
           Len(head) <= SockBuf - inflight, NEW st, NEW status,
           SendData(mem, pos, from, n, head, st, status)
    PROVE  \E bw \in 0..n : WentOut(mem, from, n, head, bw)
<1> DEFINE bw == AtMost(n, SockBuf - inflight - Len(head))
           part == SubSeq(mem, from + 1, from + bw)
<1>0. /\ SockBuf \in Nat /\ inflight \in 0..SockBuf /\ wire \in Seq(TokenType)
      /\ Len(head) \in Nat /\ Len(wire) \in Nat
  BY SetupsAssumption DEF TypeInv, TypeOK, SockBuf
<1>1. bw \in 0..n /\ bw <= SockBuf - inflight - Len(head)
  BY <1>0 DEF AtMost
<1>2. /\ rbsend' = from + bw /\ inflight' = inflight + Len(head) + bw
      /\ wire' = wire \o head \o part
  BY DEF SendData, Sent
<1> HIDE DEF bw
<1>3. part \in Seq(TokenType) /\ Len(part) = bw /\ \A i \in 1..bw : part[i] = mem[from + i]
  <2>1. part \in Seq(TokenType)
    BY <1>1
  <2>2. Len(part) = bw
    BY <1>1
  <2>3. ASSUME NEW i \in 1..bw PROVE part[i] = mem[from + i]
    <3>1. part[i] = mem[(from + 1) + i - 1] /\ (from + 1) + i - 1 = from + i
      BY <1>1
    <3> QED BY <3>1
  <2> QED BY <2>1, <2>2, <2>3
<1> HIDE DEF part
<1> DEFINE a == wire \o head
<1>4. /\ a \in Seq(TokenType) /\ Len(a) = Len(wire) + Len(head)
      /\ \A i \in 1..Len(wire) : a[i] = wire[i]
      /\ \A i \in 1..Len(head) : a[Len(wire) + i] = head[i]
  BY <1>0, Joined
<1>5. wire' = a \o part
  BY <1>2
<1> HIDE DEF a
<1>6. wire' \in Seq(TokenType) /\ Len(wire') = Len(a) + Len(part)
  BY <1>3, <1>4, <1>5, Joined
<1>7. /\ \A i \in 1..Len(a) : wire'[i] = a[i]
      /\ \A i \in 1..Len(part) : wire'[Len(a) + i] = part[i]
  <2>1. a \in Seq(TokenType) /\ part \in Seq(TokenType)
    BY <1>3, <1>4
  <2>2. /\ \A i \in 1..Len(a) : (a \o part)[i] = a[i]
        /\ \A i \in 1..Len(part) : (a \o part)[Len(a) + i] = part[i]
    BY <2>1, Joined
  <2> QED BY <1>5, <2>2
<1>8. \A i \in 1..Len(wire) : i \in 1..Len(a)
  BY <1>0, <1>4
<1>9. \A i \in 1..Len(head) : Len(wire) + i \in 1..Len(a)
  BY <1>0, <1>4
<1>10. inflight' \in 0..SockBuf
  BY <1>0, <1>1, <1>2
<1>11. DOMAIN wire = 1..Len(wire)
  BY <1>0
<1>12. \A i \in DOMAIN wire : wire'[i] = wire[i]
  BY <1>4, <1>7, <1>8, <1>11
<1>13. \A i \in 1..Len(head) : wire'[Len(wire) + i] = head[i]
  BY <1>4, <1>7, <1>9
<1>14. \A i \in 1..bw : wire'[Len(wire) + Len(head) + i] = mem[from + i]
  BY <1>3, <1>4, <1>7
<1>15. Len(wire') = Len(wire) + Len(head) + bw
  BY <1>3, <1>4, <1>6
<1> QED BY <1>1, <1>2, <1>6, <1>10, <1>12, <1>13, <1>14, <1>15 DEF bw, WentOut

(* Whatever is on the wire now was there, or is of the header or of mem.    *)
Sources(mem, from, head, bw) ==
    \A i \in 1..Len(wire') :
        \/ i \in 1..Len(wire) /\ wire'[i] = wire[i]
        \/ \E k \in 1..Len(head) : i = Len(wire) + k /\ wire'[i] = head[k]
        \/ \E k \in 1..bw : i = Len(wire) + Len(head) + k /\ wire'[i] = mem[from + k]

LEMMA Placed ==
    ASSUME wire \in Seq(TokenType), NEW mem, NEW from \in Nat, NEW n, NEW head \in Seq(TokenType),
           NEW bw \in Nat, WentOut(mem, from, n, head, bw)
    PROVE  Sources(mem, from, head, bw)
<1> DEFINE L == Len(wire)
           h == Len(head)
<1>0. L \in Nat /\ h \in Nat /\ DOMAIN wire = 1..L
  OBVIOUS
<1>1. /\ Len(wire') = L + h + bw
      /\ \A i \in 1..L : wire'[i] = wire[i]
      /\ \A i \in 1..h : wire'[L + i] = head[i]
      /\ \A i \in 1..bw : wire'[L + h + i] = mem[from + i]
  BY <1>0 DEF WentOut
<1> SUFFICES ASSUME NEW i \in 1..L + h + bw
             PROVE  \/ i \in 1..L /\ wire'[i] = wire[i]
                    \/ \E k \in 1..h : i = L + k /\ wire'[i] = head[k]
                    \/ \E k \in 1..bw : i = L + h + k /\ wire'[i] = mem[from + k]
  BY <1>1 DEF Sources
<1> HIDE DEF L, h
<1>2. CASE i <= L
  BY <1>0, <1>1, <1>2
<1>3. CASE L < i /\ i <= L + h
  <2>1. i - L \in 1..h /\ i = L + (i - L)
    BY <1>0, <1>3
  <2>2. PICK k \in 1..h : i = L + k
    BY <2>1
  <2> QED BY <1>1, <2>2
<1>4. CASE L + h < i
  <2>1. i - (L + h) \in 1..bw /\ i = L + h + (i - (L + h))
    BY <1>0, <1>4
  <2>2. PICK k \in 1..bw : i = L + h + k
    BY <2>1
  <2> QED BY <1>1, <2>2
<1> QED BY <1>0, <1>2, <1>3, <1>4

(* What send() may do to the output of a request.                           *)
OutputType ==
    /\ state \in States
    /\ rbout \in Seq(TokenType) /\ rbpos \in 0..Len(rbout) /\ rbsend \in Nat
    /\ stdout_count \in 0..1 /\ app_status \in Nat /\ pollout \in BOOLEAN
    /\ wire \in Seq(TokenType) /\ inflight \in 0..setup.sock
    /\ stdout_count = 0 => rbsend = 0
    /\ (Does("page") /\ called # "done") => rbpos = 0 /\ rbsend = 0 /\ state = "STDIN"

LEMMA SendDataType ==
    ASSUME TypeInv, NEW mem \in Seq(TokenType), NEW pos \in 0..Len(mem), NEW from \in Nat,
           NEW n \in Nat, from + n <= Len(mem), NEW head \in Seq(TokenType),
           Len(head) <= SockBuf - inflight, NEW st \in States, NEW status \in Nat,
           SendData(mem, pos, from, n, head, st, status), UNCHANGED <<setup, called>>,
           Does("page") => called = "done"
    PROVE  OutputType'
<1>1. /\ rbout' = mem /\ rbpos' = pos /\ stdout_count' = 1 /\ state' = st
      /\ app_status' = status /\ pollout' \in BOOLEAN
  BY DEF SendData, Counted, TypeInv, TypeOK
<1>a. PICK bw \in 0..n : WentOut(mem, from, n, head, bw)
  BY Transmitted
<1>2. rbsend' = from + bw /\ inflight' \in 0..SockBuf /\ wire' \in Seq(TokenType)
  BY <1>a DEF WentOut
<1>3. rbsend' \in Nat
  BY <1>2
<1>4. rbpos' \in 0..Len(rbout') /\ rbout' \in Seq(TokenType)
  BY <1>1
<1>5. inflight' \in 0..setup'.sock
  BY <1>2 DEF SockBuf
<1>6. (Does("page") => called = "done")'
  BY DEF Does
<1> HIDE DEF OutputType
<1> QED BY <1>1, <1>2, <1>3, <1>4, <1>5, <1>6 DEF OutputType

LEMMA SendType ==
    ASSUME TypeInv, send, UNCHANGED <<setup, called>>
    PROVE  OutputType'
<1>0. /\ OutputType /\ Does("page")' = Does("page") /\ rbpos \in Nat /\ rbsend \in Nat
      /\ Len(rbout) \in Nat /\ inflight \in 0..SockBuf /\ SockBuf \in Nat /\ SockBuf > 0
  BY SetupsAssumption DEF TypeInv, TypeOK, PageInv, OutputType, SockBuf, Does
<1>1. CASE SendFails
  <2>1. rbpos' = 0 /\ rbsend' = 0 /\ app_status' = 500 /\ state' = "OPEN"
        /\ UNCHANGED <<rbout, stdout_count, pollout, wire, inflight>>
    BY <1>1 DEF SendFails, clearRbOut
  <2>2. Does("page") => called = "done"
    BY <1>0, <1>1 DEF SendFails, SendSize, OutputType
  <2>3. Does("page")' => called' = "done"
    BY <1>0, <2>2
  <2>4. rbpos' \in 0..Len(rbout') /\ inflight' \in 0..setup'.sock /\ app_status' \in Nat
    BY <1>0, <2>1 DEF OutputType
  <2> QED BY <1>0, <2>1, <2>3, <2>4 DEF OutputType, States
<1>2. CASE SendEndFails
  <2>1. /\ state' = "EOF" /\ UNCHANGED <<stdout_count, app_status, wire, inflight>>
        /\ \/ UNCHANGED <<rbout, rbpos, rbsend, pollout>>
           \/ rbout' = EndBlock(app_status) /\ rbpos' = 2 /\ rbsend' = 0 /\ pollout' = TRUE
    BY <1>2 DEF SendEndFails, Polled
  <2>2. Does("page")' => called' = "done"
    BY <1>0, <1>2 DEF SendEndFails, OutputType
  <2>3. rbout' \in Seq(TokenType) /\ rbpos' \in 0..Len(rbout') /\ rbsend' \in Nat
    BY <1>0, <2>1, EndBlockType DEF OutputType
  <2>4. inflight' \in 0..setup'.sock /\ pollout' \in BOOLEAN /\ (stdout_count' = 0 => rbsend' = 0)
    BY <1>0, <2>1 DEF OutputType
  <2> QED BY <1>0, <2>1, <2>2, <2>3, <2>4 DEF OutputType, States
<1>3. CASE SendEnd
  <2>1. app_status \in Nat /\ (Does("page") => called = "done")
    BY <1>0, <1>3 DEF SendEnd, OutputType
  <2> DEFINE mem == EndBlock(app_status)
  <2>2. mem \in Seq(TokenType) /\ Len(mem) = 2 /\ 2 \in 0..Len(mem) /\ 0 + 2 <= Len(mem)
    BY <2>1, EndBlockType
  <2>3. Len(<<>>) <= SockBuf - inflight /\ <<>> \in Seq(TokenType)
    BY <1>0
  <2>4. "END" \in States
    BY DEF States
  <2>5. SendData(mem, 2, 0, 2, <<>>, "END", app_status)
    BY <1>3 DEF SendEnd
  <2> HIDE DEF mem
  <2> QED BY <1>0, <2>1, <2>2, <2>3, <2>4, <2>5, SendDataType
<1>4. CASE SendDone
  <2>1. /\ UNCHANGED <<rbout, rbpos, rbsend, stdout_count, app_status, wire, inflight>>
        /\ pollout' \in BOOLEAN /\ state' \in States
        /\ state = "STDIN" => state' = "STDIN"
    BY <1>0, <1>4 DEF SendDone, FlushSent, States, OutputType
  <2>2. rbpos' \in 0..Len(rbout') /\ inflight' \in 0..setup'.sock
    BY <1>0, <2>1 DEF OutputType
  <2> QED BY <1>0, <2>1, <2>2 DEF OutputType
<1>5. CASE SendFirst
  <2> DEFINE fits == app_status > 0 /\ rbpos + StatLen < REQ_MAX_OUT
             mem == IF fits THEN WithStatus ELSE rbout
             n == SizeWith(fits)
  <2>1. StatLen \in Nat /\ rbsend = 0 /\ SendSize = rbpos
    BY <1>0, <1>5, SizesAssumption DEF SendFirst, OutputType, SendSize
  <2>2. mem \in Seq(TokenType) /\ rbpos \in 0..Len(mem)
    BY <1>0, <2>1, WithStatusType DEF OutputType
  <2>3. n \in Nat /\ rbsend + n <= Len(mem)
    BY <1>0, <2>1, WithStatusType DEF OutputType, SizeWith
  <2>4. Does("page") => called = "done"
    BY <1>0, <1>5 DEF SendFirst, SendSize, OutputType
  <2>5. \/ /\ inflight < SockBuf
           /\ SendData(mem, rbpos, rbsend, n, <<Token("head", n)>>, state, 0)
        \/ /\ rbout' = mem /\ app_status' = 0 /\ pollout' = TRUE
           /\ UNCHANGED <<state, rbpos, rbsend, stdout_count, wire, inflight>>
    BY <1>5 DEF SendFirst, Polled
  <2> HIDE DEF mem, n
  <2>6. Token("head", n) \in TokenType
    BY <2>3 DEF Token, TokenType
  <2>7. <<Token("head", n)>> \in Seq(TokenType) /\ Len(<<Token("head", n)>>) = 1
    BY <2>6
  <2>8. CASE inflight < SockBuf /\ SendData(mem, rbpos, rbsend, n, <<Token("head", n)>>, state, 0)
    <3>1. Len(<<Token("head", n)>>) <= SockBuf - inflight
      BY <1>0, <2>7, <2>8
    <3>2. state \in States /\ 0 \in Nat
      BY <1>0 DEF OutputType
    <3> QED BY <1>0, <2>2, <2>3, <2>4, <2>7, <2>8, <3>1, <3>2, SendDataType
  <2>9. CASE /\ rbout' = mem /\ app_status' = 0 /\ pollout' = TRUE
             /\ UNCHANGED <<state, rbpos, rbsend, stdout_count, wire, inflight>>
    <3>1. rbout' \in Seq(TokenType) /\ rbpos' \in 0..Len(rbout') /\ inflight' \in 0..setup'.sock
      BY <1>0, <2>2, <2>9 DEF OutputType
    <3> QED BY <1>0, <2>9, <3>1 DEF OutputType
  <2> QED BY <2>5, <2>8, <2>9
<1>6. CASE SendMore
  <2> DEFINE n == rbpos - rbsend
  <2>1. SendSize = n /\ rbsend < rbpos /\ (Does("page") => called = "done")
    BY <1>0, <1>6 DEF SendMore, SendSize, OutputType
  <2>2. n \in Nat /\ rbsend + n <= Len(rbout)
    BY <1>0, <2>1 DEF OutputType
  <2> HIDE DEF n
  <2>3. Len(<<>>) <= SockBuf - inflight /\ <<>> \in Seq(TokenType)
    BY <1>0
  <2>4. rbout \in Seq(TokenType) /\ rbpos \in 0..Len(rbout) /\ state \in States /\ app_status \in Nat
    BY <1>0 DEF OutputType
  <2>5. SendData(rbout, rbpos, rbsend, n, <<>>, state, app_status)
    BY <1>6, <2>1 DEF SendMore
  <2> QED BY <1>0, <2>1, <2>2, <2>3, <2>4, <2>5, SendDataType
<1> QED BY <1>1, <1>2, <1>3, <1>4, <1>5, <1>6 DEF send

(* A page handler produces its bytes while done() runs.                     *)
LEMMA PageProduces ==
    ASSUME PagesInDone, TypeInv, Producing, Does("page")
    PROVE  ctl = "done"
BY DEF PagesInDone, TypeInv, TypeOK, Producing, InHandler, Does

(* What a piece of a page puts into rbout.                                  *)
LEMMA PageWritten ==
    ASSUME rbout \in Seq(TokenType), html \in 0..Len(rbout), rbpos \in 0..html, made \in Nat,
           NEW n \in Nat, HPage(n)
    PROVE  /\ rbout' \in Seq(TokenType) /\ html + n <= Len(rbout')
           /\ \A i \in 1..html : rbout'[i] = rbout[i]
           /\ \A i \in 1..n : rbout'[html + i] = Token("data", made + (html - rbpos) + i)
           /\ \A i \in html + n + 1..Len(rbout') : i \in 1..Len(rbout) /\ rbout'[i] = rbout[i]
<1> DEFINE kept == SubSeq(rbout, 1, html)
           new == [i \in 1..n |-> Token("data", made + (html - rbpos) + i)]
           rest == SubSeq(rbout, html + n + 1, Len(rbout))
<1>1. kept \in Seq(TokenType) /\ Len(kept) = html /\ \A i \in 1..html : kept[i] = rbout[i]
  OBVIOUS
<1>2. \A i \in 1..n : Token("data", made + (html - rbpos) + i) \in TokenType
  BY DEF Token, TokenType
<1>3. /\ new \in Seq(TokenType) /\ Len(new) = n
      /\ \A i \in 1..n : new[i] = Token("data", made + (html - rbpos) + i)
  BY <1>2
<1>4. /\ rest \in Seq(TokenType) /\ Len(rest) \in Nat
      /\ \A i \in 1..Len(rest) : html + n + i \in 1..Len(rbout) /\ rest[i] = rbout[html + n + i]
  <2>1. rest \in Seq(TokenType) /\ Len(rest) \in Nat
    OBVIOUS
  <2>2. ASSUME NEW i \in 1..Len(rest)
        PROVE  html + n + i \in 1..Len(rbout) /\ rest[i] = rbout[html + n + i]
    <3>1. html + n + 1 <= Len(rbout) /\ Len(rest) = Len(rbout) - (html + n)
      BY <2>2
    <3>2. html + n + i \in 1..Len(rbout)
      BY <3>1
    <3>3. rest[i] = rbout[(html + n + 1) + i - 1] /\ (html + n + 1) + i - 1 = html + n + i
      BY <3>1
    <3> QED BY <3>2, <3>3
  <2> QED BY <2>1, <2>2
<1>5. rbout' = kept \o new \o rest
  BY DEF HPage, Unreleased
<1> HIDE DEF kept, new, rest
<1> DEFINE a == kept \o new
<1>6. /\ a \in Seq(TokenType) /\ Len(a) = html + n
      /\ \A i \in 1..html : a[i] = kept[i]
      /\ \A i \in 1..n : a[html + i] = new[i]
  BY <1>1, <1>3, Joined
<1>7. rbout' = a \o rest
  BY <1>5
<1> HIDE DEF a
<1>8. /\ rbout' \in Seq(TokenType) /\ Len(rbout') = Len(a) + Len(rest)
      /\ \A i \in 1..Len(a) : rbout'[i] = a[i]
      /\ \A i \in 1..Len(rest) : rbout'[Len(a) + i] = rest[i]
  BY <1>4, <1>6, <1>7, Joined
<1>9. \A i \in 1..html : i \in 1..Len(a)
  BY <1>6
<1>10. \A i \in 1..n : html + i \in 1..Len(a)
  BY <1>6
<1>11. html + n <= Len(rbout')
  BY <1>4, <1>6, <1>8
<1>12. ASSUME NEW i \in html + n + 1..Len(rbout')
       PROVE  i \in 1..Len(rbout) /\ rbout'[i] = rbout[i]
  <2>0. html + n \in Nat /\ Len(rest) \in Nat /\ i \in html + n + 1..html + n + Len(rest)
    BY <1>4, <1>6, <1>8
  <2> DEFINE b == html + n
             k == i - b
  <2>1. k \in 1..Len(rest) /\ i = b + k
    <3> HIDE DEF b
    <3> QED BY <2>0 DEF b
  <2>2. i = html + n + k
    BY <2>1
  <2> HIDE DEF k
  <2>3. rbout'[i] = rest[k]
    BY <1>6, <1>8, <2>1, <2>2
  <2>4. html + n + k \in 1..Len(rbout) /\ rest[k] = rbout[html + n + k]
    BY <1>4, <2>1
  <2> QED BY <2>2, <2>3, <2>4
<1>13. \A i \in 1..html : rbout'[i] = rbout[i]
  BY <1>1, <1>6, <1>8, <1>9
<1>14. \A i \in 1..n : rbout'[html + i] = Token("data", made + (html - rbpos) + i)
  BY <1>3, <1>6, <1>8, <1>10
<1> QED BY <1>8, <1>11, <1>12, <1>13, <1>14

(* Every step keeps the types, and rbpos and html inside what was written.  *)
LEMMA NextType == ASSUME PagesInDone PROVE TypeInv /\ [Next]_vars => TypeInv'
<1> SUFFICES ASSUME TypeInv, [Next]_vars PROVE TypeInv'
  OBVIOUS
<1> USE DEF TypeInv, TypeOK, PageInv, SockBuf, Does, Crowded, States
<1>0. REQ_MAX_OUT \in Nat /\ REQ_MAX_OUT >= 2 /\ (\A n \in Lengths : n \in 1..REQ_MAX_OUT)
      /\ setup.sock \in Nat \ {0} /\ (\A code \in Codes : code \in Nat)
  BY SizesAssumption, SetupsAssumption DEF Codes
<1>1. CASE UNCHANGED vars
  BY <1>1 DEF vars
<1>2. ASSUME PeerReads PROVE TypeInv'
  BY <1>0, <1>2 DEF PeerReads
<1>25. ASSUME PeerCloses PROVE TypeInv'
  <2>1. inflight' \in 0..setup.sock
    BY <1>0, <1>25 DEF PeerCloses
  <2>2. peerOpen' \in BOOLEAN
    BY <1>25 DEF PeerCloses
  <2> QED BY <1>0, <1>25, <2>1, <2>2 DEF PeerCloses
<1>3. ASSUME NEW n \in Lengths, HWrite(n), UNCHANGED <<html, setup>>, ~Does("page") PROVE TypeInv'
  <2>1. n \in Nat /\ ctl \in {"exec", "done", "poll"} /\ rbpos \in 0..Len(rbout)
    BY <1>0, <1>3 DEF HWrite, Producing, InHandler
  <2>2. CASE NoRoom(n) /\ getOutPending
    BY <1>0, <1>3, <2>1, <2>2 DEF HWrite, FlushBegins, Flushing, Polled
  <2>3. CASE ~(NoRoom(n) /\ getOutPending)
    <3>1. Copy(rbpos, n) /\ pollout' = TRUE /\ UNCHANGED <<state, ctl, caller, after, todo, rounds>>
          /\ UNCHANGED <<rbsend, stdout_count, app_status, wire, inflight, ready, called, ended, peerOpen>>
      BY <1>3, <2>3 DEF HWrite, Polled
    <3>2. rbout' \in Seq(TokenType) /\ Len(rbout') = rbpos + n /\ rbpos' = rbpos + n
          /\ made' = made + n
      BY <2>1, <3>1, Copied
    <3>3. rbpos' \in Nat /\ made' \in Nat /\ rbpos' <= Len(rbout')
      BY <2>1, <3>2
    <3> QED BY <1>0, <1>3, <2>1, <3>1, <3>2, <3>3
  <2> QED BY <2>2, <2>3
<1>4. ASSUME NEW n \in Lengths, HWriteIgnored(n), UNCHANGED <<html, setup>>, ~Does("page") PROVE TypeInv'
  BY <1>0, <1>4 DEF HWriteIgnored
<1>5. ASSUME NEW n \in Lengths, HWriteFd(n), UNCHANGED <<html, setup>>, Does("page") => html = 0
      PROVE  TypeInv'
  <2>1. Does("page") => ctl = "done"
    BY <1>5, PageProduces DEF HWriteFd
  <2> QED BY <1>0, <1>5, <2>1 DEF HWriteFd, Producing, InHandler
<1>6. ASSUME HFlush, UNCHANGED <<html, setup>>, ~Does("page") PROVE TypeInv'
  BY <1>0, <1>6 DEF HFlush, FlushBegins, Flushing, Polled, Producing, InHandler
<1>7. ASSUME NEW code \in Codes, HStatus(code), UNCHANGED <<html, setup>> PROVE TypeInv'
  BY <1>0, <1>7 DEF HStatus
<1>26. ASSUME NEW code \in Codes, HEnd(code), UNCHANGED <<html, setup>> PROVE TypeInv'
  <2>1. ended' \in BOOLEAN /\ pollout' \in BOOLEAN /\ app_status' \in Nat
    BY <1>0, <1>26 DEF HEnd, Polled
  <2> QED BY <1>0, <1>26, <2>1 DEF HEnd
<1>8. ASSUME HReturn PROVE TypeInv'
  BY <1>0, <1>8 DEF HReturn
<1>9. ASSUME NEW n \in Lengths, HPage(n), UNCHANGED setup PROVE TypeInv'
  <2>1. ctl = "done" /\ Does("page") /\ n <= Piece
    BY <1>9, PageProduces DEF HPage, InPage
  <2>2. html' = html + n /\ ctl' = "page" /\ caller' = "done"
        /\ UNCHANGED <<state, rbpos, rbsend, stdout_count, app_status, pollout, wire, inflight, ready, called, ended, made, after, todo, rounds, peerOpen>>
    BY <1>9, <2>1 DEF HPage
  <2>3. n \in Nat /\ html' \in 0..REQ_MAX_OUT
    BY <1>0, <2>1, <2>2, PieceFits
  <2>4. rbout' \in Seq(TokenType) /\ html' <= Len(rbout')
    BY <1>9, <2>1, <2>2, <2>3, PageWritten
  <2> QED BY <1>0, <1>9, <2>1, <2>2, <2>3, <2>4
<1>10. ASSUME HBufferFlush \/ optionalFlush, UNCHANGED setup PROVE TypeInv'
  <2>1. ctl \in {"done", "page"} /\ Does("page")
    BY <1>10, PageProduces DEF HBufferFlush, optionalFlush, InPage
  <2>2. CASE bufferFlush("done")
    <3>1. rbpos' = html /\ html' = 0 /\ made' = made + (html - rbpos) /\ UNCHANGED <<rbout, rbsend, stdout_count, app_status, wire, inflight, ready, called, ended, peerOpen>>
      BY <2>2 DEF bufferFlush, setOutPos, Unreleased
    <3>2. made' \in Nat
      BY <2>1, <3>1
    <3>3. CASE Flushing("done", "return", 0)
      BY <1>0, <1>10, <2>1, <3>1, <3>2, <3>3 DEF Flushing, Polled
    <3>4. CASE html = rbsend /\ ctl' = "done" /\ UNCHANGED <<state, pollout, flushVars>>
      BY <1>0, <1>10, <2>1, <3>1, <3>2, <3>4
    <3> QED BY <2>2, <3>3, <3>4 DEF bufferFlush
  <2>3. CASE ctl = "page" /\ ~Crowded /\ ctl' = "done" /\ UNCHANGED <<reqVars, sockVars, callVars, flushVars, html, peerOpen>>
    BY <1>0, <1>10, <2>1, <2>3
  <2>4. (ctl = "page" => caller = "done") /\ (HBufferFlush => ctl = "done")
    BY <2>1, PageProduces DEF HBufferFlush, InPage
  <2> HIDE DEF TypeInv
  <2> QED BY <1>10, <2>1, <2>2, <2>3, <2>4 DEF HBufferFlush, optionalFlush
<1>11. ASSUME HBufferRelease, UNCHANGED setup PROVE TypeInv'
  <2>1. ctl = "done" /\ Does("page")
    BY <1>11, PageProduces DEF HBufferRelease, InPage
  <2>2. made + (html - rbpos) \in Nat
    BY <2>1
  <2> QED BY <1>0, <1>11, <2>1, <2>2 DEF HBufferRelease, setOutPos, Unreleased
<1>12. ASSUME HBufferClear, UNCHANGED setup PROVE TypeInv'
  BY <1>0, <1>12 DEF HBufferClear
<1>13. ASSUME FlushRound, UNCHANGED <<html, setup>> PROVE TypeInv'
  <2>1. OutputType'
    BY <1>13, SendType DEF FlushRound
  <2>2. UNCHANGED <<ready, called, ended, made, ctl, caller, after, todo, peerOpen>> /\ rounds' = rounds + 1
        /\ ctl = "flush"
    BY <1>13 DEF FlushRound
  <2> QED BY <1>0, <1>13, <2>1, <2>2 DEF OutputType
<1>14. ASSUME FlushReturns, UNCHANGED <<html, setup>> PROVE TypeInv'
  <2>1. /\ ctl = "flush" /\ rbsend' = 0 /\ stdout_count' = 0 /\ rounds' = 0
        /\ ctl' = IF after = "file" THEN "file" ELSE caller
        /\ UNCHANGED <<state, app_status, wire, inflight, ready, called, ended, caller, after, peerOpen>>
    BY <1>14 DEF FlushReturns, Rewound
  <2>2. CASE after = "copy"
    <3>1. Copy(0, todo) /\ pollout' = TRUE /\ todo' = 0
      BY <1>14, <2>2 DEF FlushReturns, Polled
    <3>2. rbout' \in Seq(TokenType) /\ Len(rbout') = 0 + todo /\ rbpos' = 0 + todo
          /\ made' = made + todo
      BY <3>1, Copied
    <3> QED BY <1>0, <1>14, <2>1, <2>2, <3>1, <3>2
  <2>3. CASE after # "copy"
    <3>1. rbpos' = 0 /\ UNCHANGED <<rbout, made, pollout, todo>>
      BY <1>14, <2>3 DEF FlushReturns
    <3> QED BY <1>0, <1>14, <2>1, <2>3, <3>1
  <2> QED BY <2>2, <2>3
<1>15. ASSUME FileFlush, UNCHANGED <<html, setup>> PROVE TypeInv'
  BY <1>0, <1>15 DEF FileFlush, FlushBegins, Flushing, Polled
<1>27. ASSUME FileDone, UNCHANGED <<html, setup>> PROVE TypeInv'
  <2>1. CASE FlushBegins(caller, "return", 0)
    BY <1>0, <1>27, <2>1 DEF FileDone, FlushBegins, Flushing, Polled
  <2>2. CASE ~getOutPending /\ Polled /\ ctl' = caller /\ UNCHANGED <<state, flushVars>>
    BY <1>0, <1>27, <2>2 DEF FileDone, Polled, getOutPending
  <2> QED BY <1>27, <2>1, <2>2 DEF FileDone
<1>16. ASSUME FileRead, UNCHANGED <<html, setup>> PROVE TypeInv'
  <2> DEFINE max == IF rbpos < REQ_MAX_OUT THEN REQ_MAX_OUT - rbpos ELSE REQ_MAX_OUT
             k == br(max)
  <2>1. k \in Nat /\ k <= todo /\ rbpos \in 0..Len(rbout)
    BY <1>0 DEF br, AtMost
  <2>2. Copy(rbpos, k) /\ todo' = todo - k /\ ctl = "file"
        /\ UNCHANGED <<state, rbsend, stdout_count, app_status, pollout, wire, inflight, ready, called, ended, ctl, caller, after, rounds, peerOpen>>
    BY <1>16 DEF FileRead
  <2> HIDE DEF k
  <2>3. rbout' \in Seq(TokenType) /\ Len(rbout') = rbpos + k /\ rbpos' = rbpos + k
        /\ made' = made + k
    BY <2>1, <2>2, Copied
  <2>4. rbpos' \in Nat /\ made' \in Nat /\ rbpos' <= Len(rbout') /\ todo' \in Nat
    BY <2>1, <2>2, <2>3
  <2> QED BY <1>0, <1>16, <2>2, <2>3, <2>4
<1>17. ASSUME FileFails, UNCHANGED <<html, setup>> PROVE TypeInv'
  BY <1>0, <1>17 DEF FileFails, clearRbOut
<1>18. ASSUME Poll, UNCHANGED <<html, setup>> PROVE TypeInv'
  BY <1>0, <1>18 DEF Poll
<1>28. ASSUME Work, UNCHANGED <<html, setup>> PROVE TypeInv'
  BY <1>0, <1>28 DEF Work
<1>19. ASSUME Write, UNCHANGED <<html, setup>> PROVE TypeInv'
  <2>1. ctl = "write" /\ ctl' = "free"
        /\ UNCHANGED <<ready, called, ended, made, caller, after, todo, rounds, peerOpen>>
    BY <1>19 DEF Write
  <2>2. CASE send
    <3>1. OutputType'
      BY <1>19, <2>1, <2>2, SendType
    <3> QED BY <1>0, <1>19, <2>1, <3>1 DEF OutputType
  <2>3. CASE UNCHANGED <<reqVars, sockVars>>
    BY <1>0, <1>19, <2>1, <2>3
  <2> QED BY <1>19, <2>2, <2>3 DEF Write
<1>20. ASSUME Free, UNCHANGED <<html, setup>> PROVE TypeInv'
  <2>1. CASE state = "EOF" /\ Writable
    <3>1. pollout' \in BOOLEAN
      BY <1>20, <2>1 DEF Free
    <3> QED BY <1>0, <1>20, <2>1, <3>1 DEF Free, clearRbOut
  <2>2. CASE ~(state = "EOF" /\ Writable)
    <3>1. UNCHANGED <<state, rbpos, rbsend, stdout_count, app_status, pollout>>
      BY <1>20, <2>2 DEF Free
    <3> QED BY <1>0, <1>20, <3>1 DEF Free
  <2> QED BY <2>1, <2>2
<1> HIDE DEF TypeInv
<1>21. CASE Raw
  BY <1>3, <1>4, <1>5, <1>6, <1>21 DEF Raw
<1>22. CASE Page
  BY <1>5, <1>9, <1>10, <1>11, <1>12, <1>22 DEF Page, toRequest
<1>23. CASE Handler
  BY <1>7, <1>8, <1>26, <1>21, <1>22, <1>23 DEF Handler
<1>24. CASE Library
  BY <1>10, <1>27, <1>28, <1>13, <1>14, <1>15, <1>16, <1>17, <1>18, <1>19, <1>20, <1>24 DEF Library
<1> QED BY <1>1, <1>2, <1>23, <1>24, <1>25 DEF Next

(* Every variable keeps its type, and what send() and the handlers copy or  *)
(* send was written before, for every kind of handler but one that writes   *)
(* a page outside of done().                                                *)
THEOREM TypeCorrect == ASSUME PagesInDone PROVE Spec => []TypeOK
<1>1. TypeInv => TypeOK
  BY DEF TypeInv
<1> QED BY <1>1, InitType, NextType, PTL DEF Spec
-----------------------------------------------------------------------------
(* No byte overtakes another or goes out twice *)

Rising(tokens, to) ==
    \A i, j \in 1..to : i < j /\ IsData(tokens[i]) /\ IsData(tokens[j]) => tokens[i].v < tokens[j].v
DataAtMost(tokens, to, bound) == \A i \in 1..to : IsData(tokens[i]) => tokens[i].v <= bound
Behind(tokens, from, to) ==
    \A i \in 1..Len(wire), j \in from + 1..to :
        IsData(wire[i]) /\ IsData(tokens[j]) => wire[i].v < tokens[j].v

(* What still has to go out is behind what went out.                        *)
OutOrder ==
    /\ Rising(rbout, rbpos) /\ DataAtMost(rbout, rbpos, made)
    /\ Rising(wire, Len(wire)) /\ DataAtMost(wire, Len(wire), made)
    /\ Behind(rbout, rbsend, rbpos)

(* The bytes of a page that are not counted yet.                            *)
PageOrder ==
    (Does("page") /\ ctl \in {"done", "page"}) =>
        \A k \in 1..html - rbpos : rbout[rbpos + k] = Token("data", made + k)

OrderInv == OutOrder /\ PageOrder

\* Two facts of arithmetic: an index behind another part, and one inside a part.
LEMMA NotBelow ==
    ASSUME NEW a \in Nat, NEW b \in Nat, NEW k \in Nat, NEW j \in Nat, k >= 1, j <= a
    PROVE  ~(a + b + k < j)
OBVIOUS

LEMMA Ahead ==
    ASSUME NEW from \in Nat, NEW n \in Nat, NEW pos \in Nat, NEW bw \in 0..n,
           NEW k \in 1..bw, NEW j \in from + bw + 1..pos
    PROVE  from + k < j
OBVIOUS

LEMMA SendDataOrder ==
    ASSUME TypeInv, OutOrder, NEW mem \in Seq(TokenType), NEW from \in Nat,
           NEW n \in Nat, from + n <= Len(mem), NEW pos \in 0..from + n,
           NEW head \in Seq(TokenType), \A i \in 1..Len(head) : ~IsData(head[i]),
           Len(head) <= SockBuf - inflight, NEW st, NEW status,
           Rising(mem, from + n), DataAtMost(mem, from + n, made), Behind(mem, from, from + n),
           SendData(mem, pos, from, n, head, st, status), made' = made
    PROVE  OutOrder'
<1> DEFINE L == Len(wire)
           h == Len(head)
<1>0. L \in Nat /\ h \in Nat /\ made \in Nat /\ DOMAIN wire = 1..L
  BY DEF TypeInv, TypeOK
<1>1. rbout' = mem /\ rbpos' = pos
  BY DEF SendData
<1>p. pos \in Nat /\ \A i \in 1..pos : i \in 1..from + n
  OBVIOUS
<1>a. PICK bw \in 0..n : WentOut(mem, from, n, head, bw)
  BY <1>p, Transmitted
<1>2. /\ rbsend' = from + bw /\ Len(wire') = L + h + bw
      /\ \A i \in DOMAIN wire : wire'[i] = wire[i]
      /\ \A i \in 1..h : wire'[L + i] = head[i]
      /\ \A i \in 1..bw : wire'[L + h + i] = mem[from + i]
  BY <1>a DEF WentOut
<1> HIDE DEF L, h
<1>3. ASSUME NEW i \in 1..Len(wire'), IsData(wire'[i])
      PROVE  \/ i \in 1..L /\ wire'[i] = wire[i]
             \/ \E k \in 1..bw : i = L + h + k /\ wire'[i] = mem[from + k]
  <2>1. wire \in Seq(TokenType) /\ bw \in Nat
    BY DEF TypeInv, TypeOK
  <2>2. Sources(mem, from, head, bw)
    BY <1>a, <2>1, Placed
  <2> QED BY <1>3, <2>2 DEF L, h, Sources
<1>4. /\ \A i, j \in 1..L : i < j /\ IsData(wire[i]) /\ IsData(wire[j]) => wire[i].v < wire[j].v
      /\ \A i \in 1..L : IsData(wire[i]) => wire[i].v <= made
  BY DEF OutOrder, Rising, DataAtMost, L
<1>5. \A k \in 1..bw : from + k \in 1..from + n /\ from + k \in from + 1..from + n
  OBVIOUS
<1>6. Rising(mem, pos) /\ DataAtMost(mem, pos, made)
  BY <1>p DEF Rising, DataAtMost
<1>7. DataAtMost(wire', Len(wire'), made)
  BY <1>3, <1>4, <1>5 DEF DataAtMost
<1>8. Rising(wire', Len(wire'))
  <2> SUFFICES ASSUME NEW i \in 1..Len(wire'), NEW j \in 1..Len(wire'), i < j,
                      IsData(wire'[i]), IsData(wire'[j])
               PROVE  wire'[i].v < wire'[j].v
    BY DEF Rising
  <2>1. CASE i \in 1..L /\ wire'[i] = wire[i] /\ j \in 1..L /\ wire'[j] = wire[j]
    BY <1>4, <2>1
  <2>2. ASSUME i \in 1..L, wire'[i] = wire[i], NEW k \in 1..bw, wire'[j] = mem[from + k]
        PROVE  wire'[i].v < wire'[j].v
    BY <1>5, <2>2 DEF Behind, L
  <2>3. ASSUME NEW k \in 1..bw, j \in 1..L, i = L + h + k
        PROVE  FALSE
    <3>1. k \in Nat /\ k >= 1 /\ j \in Nat /\ j <= L
      BY <2>3
    <3>2. PICK a \in Nat, b \in Nat : a = L /\ b = h
      BY <1>0
    <3>3. ~(a + b + k < j)
      BY <3>1, <3>2, NotBelow
    <3> QED BY <2>3, <3>2, <3>3
  <2>4. ASSUME NEW k \in 1..bw, NEW m \in 1..bw, i = L + h + k, j = L + h + m,
               wire'[i] = mem[from + k], wire'[j] = mem[from + m]
        PROVE  wire'[i].v < wire'[j].v
    <3>1. from + k < from + m
      BY <1>0, <2>4
    <3> QED BY <1>5, <2>4, <3>1 DEF Rising
  <2>5. \/ i \in 1..L /\ wire'[i] = wire[i]
        \/ \E k \in 1..bw : i = L + h + k /\ wire'[i] = mem[from + k]
    BY <1>3
  <2>6. \/ j \in 1..L /\ wire'[j] = wire[j]
        \/ \E k \in 1..bw : j = L + h + k /\ wire'[j] = mem[from + k]
    BY <1>3
  <2> QED BY <2>1, <2>2, <2>3, <2>4, <2>5, <2>6
<1>9. Behind(rbout, rbsend, rbpos)'
  <2> SUFFICES ASSUME NEW i \in 1..Len(wire'), NEW j \in from + bw + 1..pos,
                      IsData(wire'[i]), IsData(mem[j])
               PROVE  wire'[i].v < mem[j].v
    BY <1>1, <1>2 DEF Behind
  <2>1. j \in from + 1..from + n /\ j \in 1..from + n
    BY <1>2
  <2>2. CASE i \in 1..L /\ wire'[i] = wire[i]
    BY <2>1, <2>2 DEF Behind, L
  <2>3. ASSUME NEW k \in 1..bw, wire'[i] = mem[from + k] PROVE wire'[i].v < mem[j].v
    <3>1. from + k < j
      BY <1>p, Ahead
    <3> QED BY <1>5, <2>1, <2>3, <3>1 DEF Rising
  <2> QED BY <1>3, <2>2, <2>3
<1> QED BY <1>1, <1>6, <1>7, <1>8, <1>9 DEF OutOrder

LEMMA LaterIndex == ASSUME NEW a \in Nat, NEW b \in Nat, NEW j \in a + 1..b PROVE j \in 1..b
OBVIOUS

(* Nothing is left to be sent, or nothing but closing records.              *)
LEMMA NothingWaits ==
    ASSUME OutOrder, made \in Nat, rbsend' \in Nat, rbpos' \in Nat, UNCHANGED <<wire, made>>,
           \A i \in 1..rbpos' : ~IsData(rbout'[i])
    PROVE  OutOrder'
<1>1. \A j \in rbsend' + 1..rbpos' : j \in 1..rbpos'
  BY LaterIndex
<1>2. Rising(rbout, rbpos)' /\ DataAtMost(rbout, rbpos, made)' /\ Behind(rbout, rbsend, rbpos)'
  BY <1>1 DEF Rising, DataAtMost, Behind
<1> QED BY <1>2 DEF OutOrder, Rising, DataAtMost

LEMMA SendOrder == ASSUME TypeInv, OutOrder, send, made' = made PROVE OutOrder'
<1>0. /\ rbout \in Seq(TokenType) /\ rbpos \in 0..Len(rbout) /\ rbsend \in Nat
      /\ app_status \in Nat /\ StatLen \in Nat /\ made \in Nat
      /\ stdout_count = 0 => rbsend = 0
      /\ inflight \in 0..SockBuf /\ SockBuf \in Nat
  BY SizesAssumption, SetupsAssumption DEF TypeInv, TypeOK, SockBuf
<1>o. /\ Rising(rbout, rbpos) /\ DataAtMost(rbout, rbpos, made)
      /\ Behind(rbout, rbsend, rbpos)
  BY DEF OutOrder
<1>1. ASSUME UNCHANGED <<rbout, rbpos, rbsend, wire>> PROVE OutOrder'
  BY <1>1 DEF OutOrder, Rising, DataAtMost, Behind
<1>e. \A i \in 1..2 : ~IsData(EndBlock(app_status)[i])
  <2>1. EndBlock(app_status)[1].t = "empty" /\ EndBlock(app_status)[2].t = "end"
    BY <1>0, EndBlockType, Fields
  <2> QED BY <2>1 DEF IsData
<1>2. CASE SendFails
  <2>1. rbpos' = 0 /\ rbsend' = 0 /\ wire' = wire
    BY <1>2 DEF SendFails, clearRbOut
  <2> QED BY <1>0, <2>1, NothingWaits
<1>3. CASE SendEndFails
  <2>1. CASE rbout' = EndBlock(app_status) /\ rbpos' = 2 /\ rbsend' = 0
    <3>1. wire' = wire
      BY <1>3 DEF SendEndFails
    <3> QED BY <1>0, <1>e, <2>1, <3>1, NothingWaits
  <2> QED BY <1>1, <1>3, <2>1 DEF SendEndFails
<1>4. CASE SendEnd
  <2> DEFINE mem == EndBlock(app_status)
  <2>1. mem \in Seq(TokenType) /\ Len(mem) = 2 /\ 0 + 2 <= Len(mem) /\ 2 \in 0..0 + 2
    BY <1>0, EndBlockType
  <2>2. SendData(mem, 2, 0, 2, <<>>, "END", app_status)
    BY <1>4 DEF SendEnd
  <2>3. \A i \in 1..0 + 2 : ~IsData(mem[i])
    BY <1>e
  <2> HIDE DEF mem
  <2>4. Rising(mem, 0 + 2) /\ DataAtMost(mem, 0 + 2, made) /\ Behind(mem, 0, 0 + 2)
    BY <2>3 DEF Rising, DataAtMost, Behind
  <2>5. <<>> \in Seq(TokenType) /\ Len(<<>>) <= SockBuf - inflight /\ \A i \in 1..Len(<<>>) : ~IsData(<<>>[i])
    BY <1>0
  <2> QED BY <1>0, <2>1, <2>2, <2>4, <2>5, SendDataOrder
<1>5. CASE SendDone
  BY <1>1, <1>5 DEF SendDone
<1>6. CASE SendFirst
  <2> DEFINE fits == app_status > 0 /\ rbpos + StatLen < REQ_MAX_OUT
             mem == IF fits THEN WithStatus ELSE rbout
             n == SizeWith(fits)
  <2>1. rbsend = 0 /\ SendSize = rbpos
    BY <1>0, <1>6 DEF SendFirst, SendSize
  <2>2. \/ /\ inflight < SockBuf
           /\ SendData(mem, rbpos, rbsend, n, <<Token("head", n)>>, state, 0)
        \/ rbout' = mem /\ UNCHANGED <<rbpos, rbsend, wire>>
    BY <1>6 DEF SendFirst
  <2>3. /\ mem \in Seq(TokenType) /\ n \in Nat /\ rbsend + n <= Len(mem) /\ rbpos \in 0..rbsend + n
        /\ Rising(mem, rbsend + n) /\ DataAtMost(mem, rbsend + n, made) /\ Behind(mem, rbsend, rbsend + n)
    <3>1. CASE ~fits
      <4>1. mem = rbout /\ n = rbpos /\ rbsend + n = rbpos
        BY <1>0, <2>1, <3>1 DEF SizeWith
      <4> QED BY <1>0, <1>o, <4>1
    <3>2. CASE fits
      <4> DEFINE t == StatLen + rbpos
      <4>1. mem = WithStatus /\ n = t /\ rbsend + n = t /\ t \in Nat /\ rbpos \in 0..t
        BY <1>0, <2>1, <3>2 DEF SizeWith
      <4>2. WithStatus \in Seq(TokenType) /\ Len(WithStatus) = t
        BY WithStatusType
      <4>3. ASSUME NEW i \in 1..t, IsData(WithStatus[i])
            PROVE  \E k \in 1..rbpos : i = StatLen + k /\ WithStatus[i] = rbout[k]
        <5>1. CASE i \in 1..StatLen
          BY <4>3, <5>1, WithStatusType DEF IsData, Token
        <5>2. CASE i \notin 1..StatLen
          <6>1. i - StatLen \in 1..rbpos /\ i = StatLen + (i - StatLen)
            BY <1>0, <5>2
          <6>2. PICK k \in 1..rbpos : i = StatLen + k
            BY <6>1
          <6> QED BY <6>2, WithStatusType
        <5> QED BY <5>1, <5>2
      <4> HIDE DEF t
      <4>4. DataAtMost(WithStatus, t, made)
        BY <1>o, <4>3 DEF DataAtMost
      <4>5. Rising(WithStatus, t)
        <5> SUFFICES ASSUME NEW i \in 1..t, NEW j \in 1..t, i < j, IsData(WithStatus[i]),
                            IsData(WithStatus[j])
                     PROVE  WithStatus[i].v < WithStatus[j].v
          BY DEF Rising
        <5>1. PICK k \in 1..rbpos : i = StatLen + k /\ WithStatus[i] = rbout[k]
          BY <4>3
        <5>2. PICK m \in 1..rbpos : j = StatLen + m /\ WithStatus[j] = rbout[m]
          BY <4>3
        <5>3. k < m
          BY <1>0, <5>1, <5>2
        <5> QED BY <1>o, <5>1, <5>2, <5>3 DEF Rising
      <4>6. Behind(WithStatus, rbsend, t)
        <5> SUFFICES ASSUME NEW i \in 1..Len(wire), NEW j \in 1..t, IsData(wire[i]),
                            IsData(WithStatus[j])
                     PROVE  wire[i].v < WithStatus[j].v
          BY <2>1 DEF Behind
        <5>1. PICK k \in 1..rbpos : j = StatLen + k /\ WithStatus[j] = rbout[k]
          BY <4>3
        <5>2. k \in rbsend + 1..rbpos
          BY <2>1
        <5> QED BY <1>o, <5>1, <5>2 DEF Behind
      <4> QED BY <4>1, <4>2, <4>4, <4>5, <4>6
    <3> QED BY <3>1, <3>2
  <2> HIDE DEF mem, n
  <2>4. Token("head", n) \in TokenType /\ ~IsData(Token("head", n))
    BY <2>3 DEF Token, TokenType, IsData
  <2>5. /\ <<Token("head", n)>> \in Seq(TokenType) /\ Len(<<Token("head", n)>>) = 1
        /\ \A i \in 1..Len(<<Token("head", n)>>) : ~IsData(<<Token("head", n)>>[i])
    BY <2>4
  <2>6. CASE inflight < SockBuf /\ SendData(mem, rbpos, rbsend, n, <<Token("head", n)>>, state, 0)
    <3>1. Len(<<Token("head", n)>>) <= SockBuf - inflight
      BY <1>0, <2>5, <2>6
    <3> QED BY <1>0, <2>3, <2>5, <2>6, <3>1, SendDataOrder
  <2>7. CASE rbout' = mem /\ UNCHANGED <<rbpos, rbsend, wire>>
    <3>1. \A i \in 1..rbpos : i \in 1..rbsend + n
      BY <1>0, <2>3
    <3>2. \A i \in rbsend + 1..rbpos : i \in rbsend + 1..rbsend + n
      BY <1>0, <2>3
    <3>3. Rising(mem, rbpos) /\ DataAtMost(mem, rbpos, made) /\ Behind(mem, rbsend, rbpos)
      BY <2>3, <3>1, <3>2 DEF Rising, DataAtMost, Behind
    <3> QED BY <2>7, <3>3 DEF OutOrder, Rising, DataAtMost, Behind
  <2> QED BY <2>2, <2>6, <2>7
<1>7. CASE SendMore
  <2> DEFINE n == rbpos - rbsend
  <2>1. SendSize = n /\ rbsend < rbpos
    BY <1>0, <1>7 DEF SendMore, SendSize
  <2>2. n \in Nat /\ rbsend + n = rbpos /\ rbpos \in 0..rbsend + n
    BY <1>0, <2>1
  <2>3. SendData(rbout, rbpos, rbsend, n, <<>>, state, app_status)
    BY <1>7, <2>1 DEF SendMore
  <2> HIDE DEF n
  <2>4. <<>> \in Seq(TokenType) /\ Len(<<>>) <= SockBuf - inflight /\ \A i \in 1..Len(<<>>) : ~IsData(<<>>[i])
    BY <1>0
  <2>5. Rising(rbout, rbsend + n) /\ DataAtMost(rbout, rbsend + n, made) /\ Behind(rbout, rbsend, rbsend + n)
        /\ rbsend + n <= Len(rbout)
    BY <1>0, <1>o, <2>2
  <2> QED BY <1>0, <2>2, <2>3, <2>4, <2>5, SendDataOrder
<1> QED BY <1>2, <1>3, <1>4, <1>5, <1>6, <1>7 DEF send

(* The handler's next bytes come behind all the others.                     *)
LEMMA CopyOrder ==
    ASSUME TypeInv, OutOrder, NEW pos \in 0..rbpos, NEW n \in Nat, Copy(pos, n), wire' = wire,
           rbsend' \in Nat, pos > 0 => rbsend' = rbsend
    PROVE  OutOrder'
<1>0. rbout \in Seq(TokenType) /\ pos \in 0..Len(rbout) /\ rbpos \in Nat /\ made \in Nat
  BY DEF TypeInv, TypeOK
<1>1. /\ \A i \in 1..pos : rbout'[i] = rbout[i]
      /\ \A i \in 1..n : rbout'[pos + i] = Token("data", made + i)
      /\ rbpos' = pos + n /\ made' = made + n
  BY <1>0, Copied
<1>2. ASSUME NEW j \in 1..pos + n
      PROVE  \/ j \in 1..pos /\ j \in 1..rbpos /\ rbout'[j] = rbout[j]
             \/ \E k \in 1..n : j = pos + k /\ rbout'[j].v = made + k
  <2>1. CASE j <= pos
    BY <1>0, <1>1, <2>1
  <2>2. CASE ~(j <= pos)
    <3>1. j - pos \in 1..n /\ j = pos + (j - pos)
      BY <1>0, <2>2
    <3>2. PICK k \in 1..n : j = pos + k
      BY <3>1
    <3>3. rbout'[j].v = made + k
      BY <1>1, <3>2, Fields
    <3> QED BY <3>2, <3>3
  <2> QED BY <2>1, <2>2
<1>3. /\ \A i, j \in 1..rbpos : i < j /\ IsData(rbout[i]) /\ IsData(rbout[j]) => rbout[i].v < rbout[j].v
      /\ \A i \in 1..rbpos : IsData(rbout[i]) => rbout[i].v <= made
      /\ \A i \in 1..Len(wire) : IsData(wire[i]) => wire[i].v <= made
  BY DEF OutOrder, Rising, DataAtMost
<1>t. /\ \A i \in 1..rbpos : rbout[i].v \in Nat
      /\ \A i \in 1..Len(wire) : wire[i].v \in Nat
  BY Values
<1>4. Rising(rbout, rbpos)'
  <2> SUFFICES ASSUME NEW i \in 1..pos + n, NEW j \in 1..pos + n, i < j, IsData(rbout'[i]),
                      IsData(rbout'[j])
               PROVE  rbout'[i].v < rbout'[j].v
    BY <1>1 DEF Rising
  <2>1. CASE j \in 1..pos /\ j \in 1..rbpos /\ rbout'[j] = rbout[j]
    <3>1. i \in 1..pos /\ i \in 1..rbpos
      BY <1>0, <2>1
    <3> QED BY <1>1, <1>3, <2>1, <3>1
  <2>2. ASSUME NEW k \in 1..n, j = pos + k, rbout'[j].v = made + k
        PROVE  rbout'[i].v < rbout'[j].v
    <3>1. CASE i \in 1..rbpos /\ rbout'[i] = rbout[i]
      BY <1>0, <1>3, <1>t, <2>2, <3>1
    <3>2. ASSUME NEW m \in 1..n, i = pos + m, rbout'[i].v = made + m
          PROVE  rbout'[i].v < rbout'[j].v
      BY <1>0, <2>2, <3>2
    <3> QED BY <1>2, <3>1, <3>2
  <2> QED BY <1>2, <2>1, <2>2
<1>5. DataAtMost(rbout, rbpos, made)'
  <2> SUFFICES ASSUME NEW j \in 1..pos + n, IsData(rbout'[j]) PROVE rbout'[j].v <= made + n
    BY <1>1 DEF DataAtMost
  <2>1. CASE j \in 1..rbpos /\ rbout'[j] = rbout[j]
    BY <1>0, <1>3, <1>t, <2>1
  <2>2. ASSUME NEW k \in 1..n, rbout'[j].v = made + k PROVE rbout'[j].v <= made + n
    BY <1>0, <2>2
  <2> QED BY <1>2, <2>1, <2>2
<1>6. Rising(wire, Len(wire))' /\ DataAtMost(wire, Len(wire), made)'
  <2>1. \A i \in 1..Len(wire) : IsData(wire[i]) => wire[i].v <= made + n
    BY <1>0, <1>3, <1>t
  <2> QED BY <1>1, <2>1 DEF OutOrder, Rising, DataAtMost
<1>7. Behind(rbout, rbsend, rbpos)'
  <2> SUFFICES ASSUME NEW i \in 1..Len(wire), NEW j \in rbsend' + 1..pos + n, IsData(wire[i]),
                      IsData(rbout'[j])
               PROVE  wire[i].v < rbout'[j].v
    BY <1>1 DEF Behind
  <2>1. j \in 1..pos + n
    <3> HIDE DEF IsData
    <3>1. rbsend' \in Nat /\ pos + n \in Nat
      BY <1>0
    <3> QED BY <3>1, LaterIndex
  <2>2. CASE j \in 1..pos /\ rbout'[j] = rbout[j]
    <3>1. rbsend' = rbsend
      BY <2>2
    <3>2. j \in rbsend + 1..rbpos
      BY <1>0, <2>2, <3>1
    <3> QED BY <2>2, <3>2 DEF OutOrder, Behind
  <2>3. ASSUME NEW k \in 1..n, rbout'[j].v = made + k PROVE wire[i].v < rbout'[j].v
    BY <1>0, <1>3, <1>t, <2>3
  <2> QED BY <1>2, <2>1, <2>2, <2>3
<1> QED BY <1>4, <1>5, <1>6, <1>7 DEF OutOrder

(* Counting the bytes of a page.                                            *)
LEMMA PageCounted ==
    ASSUME TypeInv, OrderInv, Does("page"), ctl \in {"done", "page"}, setOutPos,
           UNCHANGED <<rbout, rbsend, wire>>
    PROVE  OutOrder'
<1> DEFINE n == html - rbpos
<1>0. /\ rbpos \in Nat /\ made \in Nat /\ html \in Nat /\ rbpos <= html /\ rbsend = 0
      /\ \A i \in 1..rbpos : rbout[i].v \in Nat
      /\ \A i \in 1..Len(wire) : wire[i].v \in Nat
  BY Values DEF TypeInv, TypeOK, PageInv
<1>1. rbpos' = rbpos + n /\ made' = made + n /\ n \in Nat
  BY <1>0 DEF setOutPos, Unreleased
<1>2. \A k \in 1..n : rbout[rbpos + k] = Token("data", made + k)
  BY DEF OrderInv, PageOrder
<1> HIDE DEF n
<1>3. ASSUME NEW j \in 1..rbpos + n
      PROVE  j \in 1..rbpos \/ \E k \in 1..n : j = rbpos + k /\ rbout[j].v = made + k
  <2>1. CASE j <= rbpos
    BY <1>0, <2>1
  <2>2. CASE ~(j <= rbpos)
    <3>1. j - rbpos \in 1..n /\ j = rbpos + (j - rbpos)
      BY <1>0, <1>1, <2>2
    <3>2. PICK k \in 1..n : j = rbpos + k
      BY <3>1
    <3>3. rbout[j].v = made + k
      BY <1>2, <3>2, Fields
    <3> QED BY <3>2, <3>3
  <2> QED BY <2>1, <2>2
<1>4. /\ Rising(rbout, rbpos) /\ DataAtMost(rbout, rbpos, made) /\ Behind(rbout, rbsend, rbpos)
      /\ Rising(wire, Len(wire)) /\ DataAtMost(wire, Len(wire), made)
  BY DEF OrderInv, OutOrder
<1>5. Rising(rbout, rbpos + n)
  <2> SUFFICES ASSUME NEW i \in 1..rbpos + n, NEW j \in 1..rbpos + n, i < j, IsData(rbout[i]),
                      IsData(rbout[j])
               PROVE  rbout[i].v < rbout[j].v
    BY DEF Rising
  <2>1. CASE j \in 1..rbpos
    <3>1. i \in 1..rbpos
      BY <1>0, <2>1
    <3> QED BY <1>4, <2>1, <3>1 DEF Rising
  <2>2. ASSUME NEW k \in 1..n, j = rbpos + k, rbout[j].v = made + k
        PROVE  rbout[i].v < rbout[j].v
    <3>1. CASE i \in 1..rbpos
      <4>1. rbout[i].v <= made /\ rbout[i].v \in Nat
        BY <1>0, <1>4, <3>1 DEF DataAtMost
      <4> QED BY <1>0, <2>2, <4>1
    <3>2. ASSUME NEW m \in 1..n, i = rbpos + m, rbout[i].v = made + m
          PROVE  rbout[i].v < rbout[j].v
      BY <1>0, <2>2, <3>2
    <3> QED BY <1>3, <3>1, <3>2
  <2> QED BY <1>3, <2>1, <2>2
<1>6. DataAtMost(rbout, rbpos + n, made + n)
  <2> SUFFICES ASSUME NEW j \in 1..rbpos + n, IsData(rbout[j]) PROVE rbout[j].v <= made + n
    BY DEF DataAtMost
  <2>1. CASE j \in 1..rbpos
    <3>1. rbout[j].v <= made /\ rbout[j].v \in Nat
      BY <1>0, <1>4, <2>1 DEF DataAtMost
    <3> QED BY <1>0, <1>1, <3>1
  <2>2. ASSUME NEW k \in 1..n, rbout[j].v = made + k PROVE rbout[j].v <= made + n
    BY <1>0, <1>1, <2>2
  <2> QED BY <1>3, <2>1, <2>2
<1>7. Behind(rbout, rbsend, rbpos + n)
  <2> SUFFICES ASSUME NEW i \in 1..Len(wire), NEW j \in 1..rbpos + n, IsData(wire[i]),
                      IsData(rbout[j])
               PROVE  wire[i].v < rbout[j].v
    BY <1>0 DEF Behind
  <2>1. CASE j \in 1..rbpos
    <3>1. j \in rbsend + 1..rbpos
      BY <1>0, <2>1
    <3> QED BY <1>4, <3>1 DEF Behind
  <2>2. ASSUME NEW k \in 1..n, rbout[j].v = made + k PROVE wire[i].v < rbout[j].v
    <3>1. wire[i].v <= made /\ wire[i].v \in Nat
      BY <1>0, <1>4 DEF DataAtMost
    <3> QED BY <1>0, <2>2, <3>1
  <2> QED BY <1>3, <2>1, <2>2
<1>8. DataAtMost(wire, Len(wire), made + n)
  <2> SUFFICES ASSUME NEW i \in 1..Len(wire), IsData(wire[i]) PROVE wire[i].v <= made + n
    BY DEF DataAtMost
  <2>1. wire[i].v <= made /\ wire[i].v \in Nat
    BY <1>0, <1>4 DEF DataAtMost
  <2> QED BY <1>0, <1>1, <2>1
<1> QED BY <1>1, <1>4, <1>5, <1>6, <1>7, <1>8 DEF OutOrder, Rising, DataAtMost, Behind

LEMMA NoIndex == ASSUME NEW a \in Nat, NEW b \in Nat, a <= b PROVE 1..a - b = {}
OBVIOUS

LEMMA NextOrder ==
    ASSUME PagesInDone PROVE TypeInv /\ OrderInv /\ [Next]_vars => OrderInv'
<1> SUFFICES ASSUME TypeInv, OrderInv, [Next]_vars PROVE OrderInv'
  OBVIOUS
<1>0. /\ (\A n \in Lengths : n \in Nat) /\ made \in Nat /\ rbpos \in Nat /\ rbsend \in Nat
      /\ html \in Nat /\ rbout \in Seq(TokenType) /\ todo \in Nat
      /\ Does("page") /\ ctl \in {"done", "page"} => rbpos <= html /\ html <= Len(rbout)
      /\ Does("page") /\ ctl \in {"flush", "file"} => html = 0
      /\ Does("page") /\ called # "done" => html = 0 /\ ctl # "done"
      /\ OutOrder /\ PageOrder
  BY SizesAssumption DEF TypeInv, TypeOK, PageInv, OrderInv
<1>1. ASSUME UNCHANGED <<rbout, rbpos, rbsend, wire, made>> PROVE OutOrder'
  BY <1>0, <1>1 DEF OutOrder, Rising, DataAtMost, Behind
<1>2. ASSUME UNCHANGED <<rbout, rbpos, rbsend, wire, made, html, setup, ctl>> PROVE OrderInv'
  BY <1>0, <1>1, <1>2 DEF OrderInv, PageOrder, Does
<1>3. ASSUME UNCHANGED setup, ~Does("page") \/ ctl' \notin {"done", "page"} \/ html' <= rbpos',
             rbpos' \in Nat, html' \in Nat
      PROVE  PageOrder'
  <2>1. Does("page")' = Does("page")
    BY <1>3 DEF Does
  <2>2. CASE html' <= rbpos'
    <3>1. 1..html' - rbpos' = {}
      BY <1>3, <2>2, NoIndex
    <3> QED BY <3>1 DEF PageOrder
  <2>3. CASE ~Does("page") \/ ctl' \notin {"done", "page"}
    BY <2>1, <2>3 DEF PageOrder
  <2> QED BY <1>3, <2>2, <2>3
<1>4. ASSUME TypeInv' PROVE rbpos' \in Nat /\ html' \in Nat /\ rbsend' \in Nat
  BY <1>4, SizesAssumption DEF TypeInv, TypeOK
<1>5. TypeInv'
  BY NextType
<1>6. rbpos' \in Nat /\ html' \in Nat /\ rbsend' \in Nat
  BY <1>4, <1>5
<1>7. ASSUME UNCHANGED <<setup, html>>, OutOrder', Does("page") => html = 0 PROVE OrderInv'
  BY <1>3, <1>6, <1>7 DEF OrderInv
<1>8. ASSUME UNCHANGED <<rbout, rbpos, rbsend, wire, made, html, setup>>, Does("page") => html = 0
      PROVE  OrderInv'
  BY <1>1, <1>7, <1>8
<1>9. ASSUME UNCHANGED <<rbout, rbpos, rbsend, wire, made, html, setup>>, ctl' \notin {"done", "page"}
      PROVE  OrderInv'
  BY <1>1, <1>3, <1>6, <1>9 DEF OrderInv
<1>11. CASE UNCHANGED vars
  BY <1>2, <1>11 DEF vars
<1>12. CASE PeerReads \/ PeerCloses
  BY <1>2, <1>12 DEF PeerReads, PeerCloses
<1>13. ASSUME NEW n \in Lengths, HWrite(n), UNCHANGED <<html, setup>>, ~Does("page") PROVE OrderInv'
  <2>1. CASE UNCHANGED <<rbout, rbpos, made>>
    BY <1>8, <1>13, <2>1 DEF HWrite
  <2>2. CASE Copy(rbpos, n)
    <3>1. rbpos \in 0..rbpos /\ rbsend' = rbsend /\ wire' = wire
      BY <1>0, <1>13 DEF HWrite
    <3>2. OutOrder'
      BY <1>0, <1>6, <2>2, <3>1, CopyOrder
    <3> QED BY <1>7, <1>13, <3>2
  <2> QED BY <1>13, <2>1, <2>2 DEF HWrite
<1>14. ASSUME NEW n \in Lengths, HWriteIgnored(n), UNCHANGED <<html, setup>>, ~Does("page") PROVE OrderInv'
  <2>1. made' = made + n /\ UNCHANGED <<rbout, rbpos, rbsend, wire>>
    BY <1>14 DEF HWriteIgnored
  <2>2. ASSUME NEW k \in Nat, k <= made PROVE k <= made'
    BY <1>0, <2>1, <2>2
  <2>3. DataAtMost(rbout, rbpos, made') /\ DataAtMost(wire, Len(wire), made')
    BY <1>0, <2>2, Values DEF OutOrder, DataAtMost
  <2>4. OutOrder'
    BY <1>0, <2>1, <2>3 DEF OutOrder, Rising, DataAtMost, Behind
  <2> QED BY <1>7, <1>14, <2>4
<1>15. ASSUME NEW n \in Lengths, HWriteFd(n), UNCHANGED <<html, setup>> PROVE OrderInv'
  BY <1>9, <1>15 DEF HWriteFd
<1>16. ASSUME HFlush, UNCHANGED <<html, setup>> PROVE OrderInv'
  BY <1>9, <1>16 DEF HFlush, FlushBegins, Flushing
<1>17. ASSUME NEW code \in Codes, HStatus(code) \/ HEnd(code), UNCHANGED <<html, setup>> PROVE OrderInv'
  BY <1>2, <1>17 DEF HStatus, HEnd
<1>18. ASSUME HReturn PROVE OrderInv'
  BY <1>9, <1>18 DEF HReturn
<1>19. ASSUME NEW n \in Lengths, HPage(n), UNCHANGED setup PROVE OrderInv'
  <2>1. /\ Does("page") /\ ctl = "done"
        /\ html' = html + n /\ UNCHANGED <<rbpos, rbsend, wire, made>>
    BY <1>19, PageProduces DEF HPage, InPage
  <2>2. html \in 0..Len(rbout) /\ rbpos \in 0..html
    BY <1>0, <2>1
  <2>3. /\ \A i \in 1..html : rbout'[i] = rbout[i]
        /\ \A i \in 1..n : rbout'[html + i] = Token("data", made + (html - rbpos) + i)
    BY <1>0, <1>19, <2>2, PageWritten
  <2>4. \A i \in 1..rbpos : i \in 1..html
    BY <2>2
  <2>5. \A i \in rbsend + 1..rbpos : i \in 1..html
    BY <1>0, <2>2
  <2>6. OutOrder'
    BY <1>0, <2>1, <2>3, <2>4, <2>5 DEF OutOrder, Rising, DataAtMost, Behind
  <2>7. ASSUME NEW k \in 1..html + n - rbpos PROVE rbout'[rbpos + k] = Token("data", made + k)
    <3>1. CASE k <= html - rbpos
      <4>1. rbpos + k \in 1..html /\ k \in 1..html - rbpos
        BY <1>0, <2>2, <3>1
      <4> QED BY <1>0, <2>1, <2>3, <4>1 DEF PageOrder
    <3>2. CASE ~(k <= html - rbpos)
      <4>1. k - (html - rbpos) \in 1..n /\ k = (html - rbpos) + (k - (html - rbpos))
        BY <1>0, <2>2, <3>2
      <4>2. PICK m \in 1..n : k = (html - rbpos) + m
        BY <4>1
      <4>3. rbpos + k = html + m /\ made + (html - rbpos) + m = made + k
        BY <1>0, <2>2, <4>2
      <4> QED BY <2>3, <4>3
    <3> QED BY <3>1, <3>2
  <2>8. PageOrder'
    <3>1. html' - rbpos' = html + n - rbpos /\ rbpos' = rbpos /\ made' = made
      BY <1>0, <1>6, <2>1
    <3> QED BY <2>7, <3>1 DEF PageOrder
  <2> QED BY <2>6, <2>8 DEF OrderInv
<1>20. ASSUME HBufferFlush \/ HBufferRelease \/ (ctl = "page" /\ bufferFlush(caller)), UNCHANGED setup
       PROVE  OrderInv'
  <2>1. /\ Does("page") /\ ctl \in {"done", "page"}
        /\ setOutPos /\ html' \in {0, html} /\ UNCHANGED <<rbout, rbsend, wire>>
    BY <1>20, PageProduces DEF HBufferFlush, HBufferRelease, bufferFlush, InPage, TypeInv
  <2>2. html' <= rbpos'
    BY <1>0, <2>1 DEF setOutPos
  <2>3. OutOrder'
    BY <2>1, PageCounted
  <2> QED BY <1>3, <1>6, <1>20, <2>2, <2>3 DEF OrderInv
<1>21. ASSUME optionalFlush, UNCHANGED setup PROVE OrderInv'
  <2>1. CASE bufferFlush(caller)
    BY <1>20, <1>21, <2>1 DEF optionalFlush
  <2>2. CASE ctl = "page" /\ UNCHANGED <<rbout, rbpos, rbsend, wire, made, html, setup>>
    <3>1. Does("page") /\ Does("page")' = Does("page")
      BY <1>21, <2>2 DEF TypeInv, Does
    <3> QED BY <1>0, <1>1, <2>2, <3>1 DEF OrderInv, PageOrder
  <2> QED BY <1>21, <2>1, <2>2 DEF optionalFlush
<1>22. ASSUME HBufferClear, UNCHANGED setup PROVE OrderInv'
  <2>1. html' = 0 /\ UNCHANGED <<rbout, rbpos, rbsend, wire, made>>
    BY <1>22 DEF HBufferClear
  <2>2. html' <= rbpos'
    BY <1>0, <2>1
  <2> QED BY <1>1, <1>3, <1>6, <1>22, <2>1, <2>2 DEF OrderInv
<1>23. ASSUME FlushRound, UNCHANGED <<html, setup>> PROVE OrderInv'
  <2>1. made' = made /\ send /\ (Does("page") => html = 0)
    BY <1>0, <1>23 DEF FlushRound
  <2> QED BY <1>0, <1>7, <1>23, <2>1, SendOrder
<1>24. ASSUME FlushReturns, UNCHANGED <<html, setup>> PROVE OrderInv'
  <2>1. rbsend' = 0 /\ wire' = wire /\ (Does("page") => html = 0)
    BY <1>0, <1>24 DEF FlushReturns, Rewound
  <2>2. CASE Copy(0, todo)
    <3>1. OutOrder'
      BY <1>0, <2>1, <2>2, CopyOrder
    <3> QED BY <1>7, <1>24, <2>1, <3>1
  <2>3. CASE rbpos' = 0 /\ UNCHANGED <<rbout, made, pollout, todo>>
    <3>1. OutOrder'
      BY <1>0, <2>1, <2>3, NothingWaits
    <3> QED BY <1>7, <1>24, <2>1, <3>1
  <2> QED BY <1>24, <2>2, <2>3 DEF FlushReturns
<1>25. ASSUME FileFlush \/ FileDone, UNCHANGED <<html, setup>> PROVE OrderInv'
  BY <1>0, <1>8, <1>25 DEF FileFlush, FileDone
<1>26. ASSUME FileRead, UNCHANGED <<html, setup>> PROVE OrderInv'
  <2> DEFINE max == IF rbpos < REQ_MAX_OUT THEN REQ_MAX_OUT - rbpos ELSE REQ_MAX_OUT
             k == br(max)
  <2>1. k \in Nat
    BY <1>0, SizesAssumption DEF br, AtMost
  <2>2. Copy(rbpos, k) /\ rbsend' = rbsend /\ wire' = wire /\ (Does("page") => html = 0)
    BY <1>0, <1>26 DEF FileRead
  <2> HIDE DEF k
  <2>3. rbpos \in 0..rbpos
    BY <1>0
  <2>4. OutOrder'
    BY <1>0, <1>6, <2>1, <2>2, <2>3, CopyOrder
  <2> QED BY <1>7, <1>26, <2>2, <2>4
<1>27. ASSUME FileFails, UNCHANGED <<html, setup>> PROVE OrderInv'
  <2>1. rbpos' = 0 /\ rbsend' = 0 /\ UNCHANGED <<wire, made>> /\ (Does("page") => html = 0)
    BY <1>0, <1>27 DEF FileFails, clearRbOut
  <2>2. OutOrder'
    BY <1>0, <2>1, NothingWaits
  <2> QED BY <1>7, <1>27, <2>1, <2>2
<1>28. ASSUME Poll, UNCHANGED <<html, setup>> PROVE OrderInv'
  BY <1>9, <1>28 DEF Poll
<1>29. ASSUME Work, UNCHANGED <<html, setup>> PROVE OrderInv'
  <2>1. UNCHANGED <<rbout, rbpos, rbsend, wire, made>>
    BY <1>29 DEF Work
  <2>2. CASE ctl' = "done" /\ called = "exec"
    BY <1>0, <1>8, <1>29, <2>1, <2>2
  <2>3. CASE ctl' \in {"write", "exec"}
    BY <1>9, <1>29, <2>1, <2>3
  <2> QED BY <1>29, <2>2, <2>3 DEF Work
<1>30. ASSUME Write, UNCHANGED <<html, setup>> PROVE OrderInv'
  <2>1. ctl' = "free" /\ made' = made
    BY <1>30 DEF Write
  <2>2. CASE send
    BY <1>0, <1>3, <1>6, <1>30, <2>1, <2>2, SendOrder DEF OrderInv
  <2>3. CASE UNCHANGED <<reqVars, sockVars>>
    BY <1>9, <1>30, <2>1, <2>3
  <2> QED BY <1>30, <2>2, <2>3 DEF Write
<1>31. ASSUME Free, UNCHANGED <<html, setup>> PROVE OrderInv'
  <2>1. ctl' = "poll" /\ UNCHANGED <<rbout, wire, made>>
    BY <1>31 DEF Free
  <2>2. CASE rbpos' = 0
    <3>1. OutOrder'
      BY <1>0, <1>6, <2>1, <2>2, NothingWaits
    <3> QED BY <1>3, <1>6, <1>31, <2>1, <3>1 DEF OrderInv
  <2>3. CASE UNCHANGED <<rbpos, rbsend>>
    BY <1>9, <1>31, <2>1, <2>3
  <2> QED BY <1>31, <2>2, <2>3 DEF Free, clearRbOut
<1>32. CASE Raw
  BY <1>13, <1>14, <1>15, <1>16, <1>32 DEF Raw
<1>33. CASE Page
  BY <1>15, <1>19, <1>20, <1>22, <1>33 DEF Page, toRequest
<1>34. CASE Handler
  BY <1>17, <1>18, <1>32, <1>33, <1>34 DEF Handler
<1>35. CASE Library
  BY <1>21, <1>23, <1>24, <1>25, <1>26, <1>27, <1>28, <1>29, <1>30, <1>31, <1>35 DEF Library
<1> QED BY <1>11, <1>12, <1>34, <1>35 DEF Next

LEMMA InitOrder == Init => OrderInv
BY DEF Init, OrderInv, OutOrder, PageOrder, Rising, DataAtMost, Behind

(* Whatever the handler does, when it flushes, which writes the socket      *)
(* takes in parts and which files cannot be read: the bytes on the wire are *)
(* in the order they were made in, none of them twice.                      *)
THEOREM NothingOvertakes == ASSUME PagesInDone PROVE Spec => []Ordered
<1>1. OrderInv /\ TypeInv => Ordered
  <2> SUFFICES ASSUME OrderInv, TypeInv PROVE Ordered
    OBVIOUS
  <2>1. DOMAIN wire = 1..Len(wire)
    BY DEF TypeInv, TypeOK
  <2> QED BY <2>1 DEF OrderInv, OutOrder, Rising, Ordered
<1> QED BY <1>1, InitType, NextType, InitOrder, NextOrder, PTL DEF Spec
-----------------------------------------------------------------------------
(* A status line only in front of the response *)

StatFirst(tokens, to) == \A i, j \in 1..to : IsData(tokens[i]) /\ tokens[j].t = "stat" => j < i
NoStat(tokens, from, to) == \A j \in from + 1..to : tokens[j].t # "stat"
DataSent == \E i \in 1..Len(wire) : IsData(wire[i])

(* A handler with a status never waits in flush(), so that stdout_count     *)
(* stays 1 once data went out, until the request is cleared.                *)
StatedInv ==
    /\ ctl \notin {"flush", "file", "page"} /\ state # "FLUSH"
    /\ state \in {"STDIN", "OPEN"} => rbpos <= made
    /\ (stdout_count = 0 /\ state # "WAIT") => ~DataSent
    /\ state = "WAIT" => rbpos = 0
    /\ StatFirst(rbout, rbpos) /\ StatFirst(wire, Len(wire))
    /\ DataSent => NoStat(rbout, rbsend, rbpos)

(* Any other has no status line, but the 500 of a failed write.             *)
PlainInv ==
    /\ peerOpen => app_status = 0
    /\ NoStat(rbout, 0, Len(rbout)) /\ NoStat(wire, 0, Len(wire))

StatusInv == (Does("status") => StatedInv) /\ (~Does("status") => PlainInv)

(* After a ::write the status tokens are still in front.                    *)
LEMMA SendDataStated ==
    ASSUME TypeInv, NEW mem \in Seq(TokenType), NEW from \in Nat,
           NEW n \in Nat, from + n <= Len(mem), NEW pos \in 0..from + n,
           NEW head \in Seq(TokenType), \A i \in 1..Len(head) : ~IsBody(head[i]),
           Len(head) <= SockBuf - inflight, NEW st, NEW status,
           StatFirst(wire, Len(wire)), StatFirst(mem, from + n),
           DataSent => NoStat(mem, from, from + n),
           SendData(mem, pos, from, n, head, st, status)
    PROVE  /\ StatFirst(rbout, rbpos)' /\ StatFirst(wire, Len(wire))'
           /\ DataSent' => NoStat(rbout, rbsend, rbpos)'
<1> DEFINE L == Len(wire)
           h == Len(head)
<1>0. L \in Nat /\ h \in Nat /\ wire \in Seq(TokenType)
  BY DEF TypeInv, TypeOK
<1>1. rbout' = mem /\ rbpos' = pos
  BY DEF SendData
<1>p. pos \in Nat /\ \A i \in 1..pos : i \in 1..from + n
  OBVIOUS
<1>a. PICK bw \in 0..n : WentOut(mem, from, n, head, bw)
  BY <1>p, Transmitted
<1>b. bw \in Nat
  OBVIOUS
<1>2. rbsend' = from + bw
  BY <1>a DEF WentOut
<1>3. ASSUME NEW i \in 1..Len(wire'), IsBody(wire'[i])
      PROVE  \/ i \in 1..L /\ wire'[i] = wire[i]
             \/ \E k \in 1..bw : i = L + h + k /\ wire'[i] = mem[from + k]
  <2>1. Sources(mem, from, head, bw)
    BY <1>0, <1>a, <1>b, Placed
  <2>2. \A k \in 1..h : ~IsBody(head[k])
    OBVIOUS
  <2> QED BY <1>3, <2>1, <2>2 DEF Sources, L, h
<1> HIDE DEF L, h
<1>4. ASSUME NEW token PROVE (IsData(token) \/ token.t = "stat") <=> IsBody(token)
  BY DEF IsData, IsBody
<1>5. \A k \in 1..bw : from + k \in 1..from + n /\ from + k \in from + 1..from + n
  OBVIOUS
<1>6. StatFirst(rbout, rbpos)'
  BY <1>1, <1>p DEF StatFirst
<1>7. StatFirst(wire, Len(wire))'
  <2> SUFFICES ASSUME NEW i \in 1..Len(wire'), NEW j \in 1..Len(wire'), IsData(wire'[i]),
                      wire'[j].t = "stat"
               PROVE  j < i
    BY DEF StatFirst
  <2>1. CASE i \in 1..L /\ wire'[i] = wire[i] /\ j \in 1..L /\ wire'[j] = wire[j]
    BY <2>1 DEF StatFirst, L
  <2>2. ASSUME i \in 1..L, wire'[i] = wire[i], NEW k \in 1..bw, wire'[j] = mem[from + k]
        PROVE  FALSE
    <3>1. DataSent
      BY <2>2 DEF DataSent, L
    <3> QED BY <1>5, <2>2, <3>1 DEF NoStat
  <2>3. ASSUME NEW k \in 1..bw, i = L + h + k, j \in 1..L
        PROVE  j < i
    BY <1>0, <2>3
  <2>4. ASSUME NEW k \in 1..bw, NEW m \in 1..bw, i = L + h + k, j = L + h + m,
               wire'[i] = mem[from + k], wire'[j] = mem[from + m]
        PROVE  j < i
    <3>1. from + m < from + k
      BY <1>5, <2>4 DEF StatFirst
    <3> QED BY <1>0, <2>4, <3>1
  <2>5. /\ \/ i \in 1..L /\ wire'[i] = wire[i]
           \/ \E k \in 1..bw : i = L + h + k /\ wire'[i] = mem[from + k]
        /\ \/ j \in 1..L /\ wire'[j] = wire[j]
           \/ \E k \in 1..bw : j = L + h + k /\ wire'[j] = mem[from + k]
    BY <1>3, <1>4
  <2> QED BY <2>1, <2>2, <2>3, <2>4, <2>5
<1>8. ASSUME DataSent' PROVE NoStat(rbout, rbsend, rbpos)'
  <2> SUFFICES ASSUME NEW j \in from + bw + 1..pos, mem[j].t = "stat" PROVE FALSE
    BY <1>1, <1>2 DEF NoStat
  <2>1. j \in from + 1..from + n /\ j \in 1..from + n
    OBVIOUS
  <2>2. PICK i \in 1..Len(wire') : IsData(wire'[i])
    BY <1>8 DEF DataSent
  <2>3. CASE i \in 1..L /\ wire'[i] = wire[i]
    <3>1. DataSent
      BY <2>2, <2>3 DEF DataSent, L
    <3> QED BY <2>1, <3>1 DEF NoStat
  <2>4. ASSUME NEW k \in 1..bw, wire'[i] = mem[from + k] PROVE FALSE
    <3>1. j < from + k
      BY <1>5, <2>1, <2>2, <2>4 DEF StatFirst
    <3>2. from + k < j
      BY <1>p, Ahead
    <3> QED
      <4>1. from \in Nat /\ k \in Nat /\ j \in Nat
        BY <1>p
      <4> QED BY <3>1, <3>2, <4>1
  <2> QED BY <1>3, <1>4, <2>2, <2>3, <2>4
<1> QED BY <1>6, <1>7, <1>8

(* The same if there is no status line at all.                              *)
LEMMA SendDataPlain ==
    ASSUME TypeInv, NEW mem \in Seq(TokenType), NEW from \in Nat,
           NEW n \in Nat, from + n <= Len(mem), NEW pos \in Nat,
           NEW head \in Seq(TokenType), \A i \in 1..Len(head) : ~IsBody(head[i]),
           Len(head) <= SockBuf - inflight, NEW st, NEW status,
           NoStat(mem, 0, Len(mem)), NoStat(wire, 0, Len(wire)),
           SendData(mem, pos, from, n, head, st, status)
    PROVE  NoStat(rbout, 0, Len(rbout))' /\ NoStat(wire, 0, Len(wire))'
<1>0. wire \in Seq(TokenType)
  BY DEF TypeInv, TypeOK
<1>a. PICK bw \in 0..n : WentOut(mem, from, n, head, bw)
  BY Transmitted
<1>b. bw \in Nat
  OBVIOUS
<1>1. NoStat(rbout, 0, Len(rbout))'
  BY DEF SendData, NoStat
<1>2. ASSUME NEW i \in 1..Len(wire') PROVE wire'[i].t # "stat"
  <2>1. CASE i \in 1..Len(wire) /\ wire'[i] = wire[i]
    BY <2>1 DEF NoStat
  <2>2. ASSUME NEW k \in 1..Len(head), wire'[i] = head[k] PROVE wire'[i].t # "stat"
    BY <2>2 DEF IsBody
  <2>3. ASSUME NEW k \in 1..bw, wire'[i] = mem[from + k] PROVE wire'[i].t # "stat"
    <3>1. from + k \in 0 + 1..Len(mem)
      OBVIOUS
    <3> QED BY <2>3, <3>1 DEF NoStat
  <2>4. Sources(mem, from, head, bw)
    BY <1>0, <1>a, <1>b, Placed
  <2> QED BY <2>1, <2>2, <2>3, <2>4 DEF Sources
<1> QED BY <1>1, <1>2 DEF NoStat

LEMMA SendStated ==
    ASSUME TypeInv, StatedInv, send
    PROVE  /\ state' # "FLUSH"
           /\ state' \in {"STDIN", "OPEN"} => rbpos' = rbpos \/ rbpos' = 0
           /\ (stdout_count' = 0 /\ state' # "WAIT") => ~DataSent'
           /\ state' = "WAIT" => rbpos' = 0
           /\ StatFirst(rbout, rbpos)' /\ StatFirst(wire, Len(wire))'
           /\ DataSent' => NoStat(rbout, rbsend, rbpos)'
<1>0. /\ rbout \in Seq(TokenType) /\ rbpos \in 0..Len(rbout) /\ rbsend \in Nat
      /\ app_status \in Nat /\ StatLen \in Nat
      /\ stdout_count \in 0..1 /\ (stdout_count = 0 => rbsend = 0)
      /\ inflight \in 0..SockBuf /\ SockBuf \in Nat
  BY SizesAssumption, SetupsAssumption DEF TypeInv, TypeOK, SockBuf
<1>1. ASSUME wire' = wire, rbout' = rbout, rbpos' = rbpos, rbsend' = rbsend
      PROVE  /\ StatFirst(rbout, rbpos)' /\ StatFirst(wire, Len(wire))'
             /\ DataSent' => NoStat(rbout, rbsend, rbpos)'
  BY <1>1 DEF StatedInv, StatFirst, NoStat, DataSent
<1>2. ASSUME wire' = wire, rbsend' \in Nat, rbpos' \in Nat, \A i \in 1..rbpos' : rbout'[i].t # "stat"
      PROVE  /\ StatFirst(rbout, rbpos)' /\ StatFirst(wire, Len(wire))'
             /\ NoStat(rbout, rbsend, rbpos)'
  <2>1. \A j \in rbsend' + 1..rbpos' : j \in 1..rbpos'
    BY <1>2, LaterIndex
  <2> QED BY <1>2, <2>1 DEF StatedInv, StatFirst, NoStat
<1>3. ASSUME wire' = wire PROVE DataSent' = DataSent
  BY <1>3 DEF DataSent
<1>e. /\ EndBlock(app_status) \in Seq(TokenType) /\ Len(EndBlock(app_status)) = 2
      /\ \A i \in 1..2 : ~IsBody(EndBlock(app_status)[i])
  <2>1. EndBlock(app_status)[1].t = "empty" /\ EndBlock(app_status)[2].t = "end"
    BY <1>0, EndBlockType, Fields
  <2> QED BY <1>0, <2>1, EndBlockType DEF IsBody
<1>4. CASE SendFails
  <2>1. /\ rbpos' = 0 /\ rbsend' = 0 /\ wire' = wire /\ stdout_count' = stdout_count
        /\ state' = "OPEN" /\ rbpos > 0
    BY <1>0, <1>4 DEF SendFails, clearRbOut, SendSize
  <2>2. state # "WAIT"
    BY <2>1 DEF StatedInv
  <2>3. \A i \in 1..rbpos' : rbout'[i].t # "stat"
    BY <2>1
  <2>4. rbsend' \in Nat /\ rbpos' \in Nat
    BY <2>1
  <2>5. (stdout_count' = 0 /\ state' # "WAIT") => ~DataSent'
    BY <1>3, <2>1, <2>2 DEF StatedInv
  <2> QED BY <1>2, <2>1, <2>3, <2>4, <2>5
<1>5. CASE SendEndFails
  <2>1. state' = "EOF" /\ wire' = wire /\ stdout_count' = stdout_count /\ state # "WAIT"
    BY <1>5 DEF SendEndFails
  <2>2. (stdout_count' = 0 /\ state' # "WAIT") => ~DataSent'
    BY <1>3, <2>1 DEF StatedInv
  <2>3. CASE UNCHANGED <<rbout, rbpos, rbsend>>
    BY <1>1, <2>1, <2>2, <2>3
  <2>4. CASE rbout' = EndBlock(app_status) /\ rbpos' = 2 /\ rbsend' = 0
    <3>1. \A i \in 1..rbpos' : rbout'[i].t # "stat"
      BY <1>e, <2>4 DEF IsBody
    <3>2. rbsend' \in Nat /\ rbpos' \in Nat
      BY <2>4
    <3> QED BY <1>2, <2>1, <2>2, <3>1, <3>2
  <2> QED BY <1>5, <2>3, <2>4 DEF SendEndFails
<1>6. CASE SendEnd
  <2> DEFINE mem == EndBlock(app_status)
  <2>1. mem \in Seq(TokenType) /\ Len(mem) = 2 /\ 0 + 2 <= Len(mem) /\ 2 \in 0..0 + 2
    BY <1>e
  <2>2. SendData(mem, 2, 0, 2, <<>>, "END", app_status)
    BY <1>6 DEF SendEnd
  <2>3. \A i \in 1..0 + 2 : mem[i].t # "stat"
    BY <1>e DEF IsBody
  <2> HIDE DEF mem
  <2>4. StatFirst(mem, 0 + 2) /\ NoStat(mem, 0, 0 + 2)
    BY <2>3 DEF StatFirst, NoStat
  <2>5. <<>> \in Seq(TokenType) /\ Len(<<>>) <= SockBuf - inflight /\ \A i \in 1..Len(<<>>) : ~IsBody(<<>>[i])
    BY <1>0
  <2>6. /\ StatFirst(rbout, rbpos)' /\ StatFirst(wire, Len(wire))'
        /\ DataSent' => NoStat(rbout, rbsend, rbpos)'
    BY <2>1, <2>2, <2>4, <2>5, SendDataStated DEF StatedInv
  <2>7. state' = "END" /\ stdout_count' = 1
    BY <2>2 DEF SendData, Counted
  <2> QED BY <2>6, <2>7
<1>7. CASE SendDone
  <2>1. /\ UNCHANGED <<rbout, rbpos, rbsend, stdout_count, wire>>
        /\ \/ state = "END" /\ state' = "EOF"
           \/ state \notin {"OPEN", "END", "FLUSH"} /\ state' = state
    BY <1>7 DEF SendDone, FlushSent, StatedInv
  <2>2. (stdout_count' = 0 /\ state' # "WAIT") => ~DataSent'
    BY <1>3, <2>1 DEF StatedInv
  <2> QED BY <1>1, <2>1, <2>2 DEF StatedInv
<1>8. CASE SendFirst
  <2> DEFINE fits == app_status > 0 /\ rbpos + StatLen < REQ_MAX_OUT
             mem == IF fits THEN WithStatus ELSE rbout
             n == SizeWith(fits)
  <2>1. rbsend = 0 /\ SendSize = rbpos /\ rbpos > 0 /\ stdout_count = 0
    BY <1>0, <1>8 DEF SendFirst, SendSize
  <2>2. state # "WAIT" /\ ~DataSent /\ state # "FLUSH"
    BY <2>1 DEF StatedInv
  <2>3. \/ /\ inflight < SockBuf
           /\ SendData(mem, rbpos, rbsend, n, <<Token("head", n)>>, state, 0)
        \/ rbout' = mem /\ UNCHANGED <<rbpos, rbsend, wire, stdout_count, state>>
    BY <1>8 DEF SendFirst
  <2>4. /\ mem \in Seq(TokenType) /\ n \in Nat /\ rbsend + n <= Len(mem) /\ rbpos \in 0..rbsend + n
        /\ StatFirst(mem, rbsend + n)
    <3>1. CASE ~fits
      <4>1. mem = rbout /\ n = rbpos /\ rbsend + n = rbpos
        BY <1>0, <2>1, <3>1 DEF SizeWith
      <4>2. StatFirst(rbout, rbpos)
        BY DEF StatedInv
      <4> QED BY <1>0, <4>1, <4>2
    <3>2. CASE fits
      <4> DEFINE t == StatLen + rbpos
      <4>1. mem = WithStatus /\ n = t /\ rbsend + n = t /\ t \in Nat /\ rbpos \in 0..t
        BY <1>0, <2>1, <3>2 DEF SizeWith
      <4>2. WithStatus \in Seq(TokenType) /\ Len(WithStatus) = t
        BY WithStatusType
      <4>3. ASSUME NEW i \in 1..t
            PROVE  \/ i \in 1..StatLen /\ ~IsData(WithStatus[i])
                   \/ \E k \in 1..rbpos : i = StatLen + k /\ WithStatus[i] = rbout[k]
        <5>1. CASE i \in 1..StatLen
          BY <5>1, WithStatusType, Fields DEF IsData
        <5>2. CASE i \notin 1..StatLen
          <6>1. i - StatLen \in 1..rbpos /\ i = StatLen + (i - StatLen)
            BY <1>0, <5>2
          <6>2. PICK k \in 1..rbpos : i = StatLen + k
            BY <6>1
          <6> QED BY <6>2, WithStatusType
        <5> QED BY <5>1, <5>2
      <4> HIDE DEF t
      <4>4. StatFirst(WithStatus, t)
        <5> SUFFICES ASSUME NEW i \in 1..t, NEW j \in 1..t, IsData(WithStatus[i]),
                            WithStatus[j].t = "stat"
                     PROVE  j < i
          BY DEF StatFirst
        <5>1. PICK k \in 1..rbpos : i = StatLen + k /\ WithStatus[i] = rbout[k]
          BY <4>3
        <5>2. CASE j \in 1..StatLen
          BY <1>0, <5>1, <5>2
        <5>3. ASSUME NEW m \in 1..rbpos, j = StatLen + m, WithStatus[j] = rbout[m]
              PROVE  j < i
          <6>1. m < k
            BY <5>1, <5>3 DEF StatedInv, StatFirst
          <6> QED BY <1>0, <5>1, <5>3, <6>1
        <5> QED BY <4>3, <5>2, <5>3
      <4> QED BY <4>1, <4>2, <4>4
    <3> QED BY <3>1, <3>2
  <2> HIDE DEF mem, n
  <2>5. Token("head", n) \in TokenType /\ ~IsBody(Token("head", n))
    BY <2>4 DEF Token, TokenType, IsBody
  <2>6. /\ <<Token("head", n)>> \in Seq(TokenType) /\ Len(<<Token("head", n)>>) = 1
        /\ \A i \in 1..Len(<<Token("head", n)>>) : ~IsBody(<<Token("head", n)>>[i])
    BY <2>5
  <2>7. CASE inflight < SockBuf /\ SendData(mem, rbpos, rbsend, n, <<Token("head", n)>>, state, 0)
    <3>1. Len(<<Token("head", n)>>) <= SockBuf - inflight
      BY <1>0, <2>6, <2>7
    <3>2. /\ StatFirst(rbout, rbpos)' /\ StatFirst(wire, Len(wire))'
          /\ DataSent' => NoStat(rbout, rbsend, rbpos)'
      BY <1>0, <2>2, <2>4, <2>6, <2>7, <3>1, SendDataStated DEF StatedInv
    <3>3. state' = state /\ stdout_count' = 1 /\ rbpos' = rbpos
      BY <2>7 DEF SendData, Counted
    <3> QED BY <2>2, <3>2, <3>3
  <2>8. CASE rbout' = mem /\ UNCHANGED <<rbpos, rbsend, wire, stdout_count, state>>
    <3>1. \A i \in 1..rbpos : i \in 1..rbsend + n
      BY <1>0, <2>4
    <3>2. StatFirst(mem, rbpos)
      BY <2>4, <3>1 DEF StatFirst
    <3>3. StatFirst(rbout, rbpos)' /\ StatFirst(wire, Len(wire))'
      BY <2>8, <3>2 DEF StatedInv, StatFirst
    <3>4. ~DataSent'
      BY <1>3, <2>2, <2>8
    <3> QED BY <2>2, <2>8, <3>3, <3>4
  <2> QED BY <2>3, <2>7, <2>8
<1>9. CASE SendMore
  <2> DEFINE n == rbpos - rbsend
  <2>1. SendSize = n /\ rbsend < rbpos
    BY <1>0, <1>9 DEF SendMore, SendSize
  <2>2. n \in Nat /\ rbsend + n = rbpos /\ rbpos \in 0..rbsend + n
    BY <1>0, <2>1
  <2>3. SendData(rbout, rbpos, rbsend, n, <<>>, state, app_status)
    BY <1>9, <2>1 DEF SendMore
  <2> HIDE DEF n
  <2>4. <<>> \in Seq(TokenType) /\ Len(<<>>) <= SockBuf - inflight /\ \A i \in 1..Len(<<>>) : ~IsBody(<<>>[i])
    BY <1>0
  <2>5. /\ StatFirst(rbout, rbsend + n) /\ (DataSent => NoStat(rbout, rbsend, rbsend + n))
        /\ rbsend + n <= Len(rbout)
    BY <1>0, <2>2 DEF StatedInv
  <2>6. /\ StatFirst(rbout, rbpos)' /\ StatFirst(wire, Len(wire))'
        /\ DataSent' => NoStat(rbout, rbsend, rbpos)'
    BY <1>0, <2>2, <2>3, <2>4, <2>5, SendDataStated DEF StatedInv
  <2>7. state' = state /\ stdout_count' = 1 /\ rbpos' = rbpos /\ state # "FLUSH" /\ state # "WAIT"
    BY <1>0, <2>1, <2>3 DEF SendData, Counted, StatedInv
  <2> QED BY <2>6, <2>7
<1> QED BY <1>4, <1>5, <1>6, <1>7, <1>8, <1>9 DEF send

LEMMA SendPlain ==
    ASSUME TypeInv, PlainInv, send, peerOpen' = peerOpen
    PROVE  PlainInv'
<1>0. /\ rbout \in Seq(TokenType) /\ rbpos \in 0..Len(rbout) /\ rbsend \in Nat /\ rbpos \in Nat
      /\ app_status \in Nat
      /\ inflight \in 0..SockBuf /\ SockBuf \in Nat
  BY SetupsAssumption DEF TypeInv, TypeOK, SockBuf
<1>1. ASSUME wire' = wire, rbout' = rbout
      PROVE  NoStat(rbout, 0, Len(rbout))' /\ NoStat(wire, 0, Len(wire))'
  BY <1>1 DEF PlainInv, NoStat
<1>e. /\ EndBlock(app_status) \in Seq(TokenType) /\ Len(EndBlock(app_status)) = 2
      /\ NoStat(EndBlock(app_status), 0, Len(EndBlock(app_status)))
  <2>1. EndBlock(app_status)[1].t = "empty" /\ EndBlock(app_status)[2].t = "end"
    BY <1>0, EndBlockType, Fields
  <2> QED BY <1>0, <2>1, EndBlockType DEF NoStat
<1>2. CASE SendFails
  BY <1>1, <1>2 DEF SendFails, PlainInv
<1>3. CASE SendEndFails
  <2>1. CASE rbout' = EndBlock(app_status)
    <3>1. NoStat(rbout, 0, Len(rbout))'
      BY <1>e, <2>1
    <3>2. NoStat(wire, 0, Len(wire))'
      BY <1>3 DEF SendEndFails, PlainInv
    <3> QED BY <1>3, <3>1, <3>2 DEF SendEndFails, PlainInv
  <2>2. CASE rbout' = rbout
    BY <1>1, <1>3, <2>2 DEF SendEndFails, PlainInv
  <2> QED BY <1>3, <2>1, <2>2 DEF SendEndFails
<1>4. CASE SendEnd
  <2> DEFINE mem == EndBlock(app_status)
  <2>1. mem \in Seq(TokenType) /\ 0 + 2 <= Len(mem) /\ NoStat(mem, 0, Len(mem))
    BY <1>e
  <2>2. SendData(mem, 2, 0, 2, <<>>, "END", app_status)
    BY <1>4 DEF SendEnd
  <2> HIDE DEF mem
  <2>3. <<>> \in Seq(TokenType) /\ Len(<<>>) <= SockBuf - inflight /\ \A i \in 1..Len(<<>>) : ~IsBody(<<>>[i])
    BY <1>0
  <2>4. NoStat(rbout, 0, Len(rbout))' /\ NoStat(wire, 0, Len(wire))'
    BY <2>1, <2>2, <2>3, SendDataPlain DEF PlainInv
  <2> QED BY <2>2, <2>4 DEF SendData, PlainInv
<1>5. CASE SendDone
  BY <1>1, <1>5 DEF SendDone, PlainInv
<1>6. CASE SendFirst
  <2> DEFINE n == SizeWith(FALSE)
  <2>1. ~(app_status > 0 /\ rbpos + StatLen < REQ_MAX_OUT)
    BY <1>6 DEF SendFirst, PlainInv
  <2>2. \/ /\ inflight < SockBuf
           /\ SendData(rbout, rbpos, rbsend, n, <<Token("head", n)>>, state, 0)
        \/ rbout' = rbout /\ wire' = wire /\ app_status' = 0
    BY <1>6, <2>1 DEF SendFirst
  <2>3. n \in Nat /\ rbsend + n <= Len(rbout)
    BY <1>0, <1>6 DEF SizeWith, SendSize, SendFirst
  <2> HIDE DEF n
  <2>4. Token("head", n) \in TokenType /\ ~IsBody(Token("head", n))
    BY <2>3 DEF Token, TokenType, IsBody
  <2>5. /\ <<Token("head", n)>> \in Seq(TokenType) /\ Len(<<Token("head", n)>>) = 1
        /\ \A i \in 1..Len(<<Token("head", n)>>) : ~IsBody(<<Token("head", n)>>[i])
    BY <2>4
  <2>6. CASE inflight < SockBuf /\ SendData(rbout, rbpos, rbsend, n, <<Token("head", n)>>, state, 0)
    <3>1. Len(<<Token("head", n)>>) <= SockBuf - inflight
      BY <1>0, <2>5, <2>6
    <3>2. NoStat(rbout, 0, Len(rbout))' /\ NoStat(wire, 0, Len(wire))'
      BY <1>0, <2>3, <2>5, <2>6, <3>1, SendDataPlain DEF PlainInv
    <3> QED BY <2>6, <3>2 DEF SendData, PlainInv
  <2>7. CASE rbout' = rbout /\ wire' = wire /\ app_status' = 0
    BY <1>1, <2>7 DEF PlainInv
  <2> QED BY <2>2, <2>6, <2>7
<1>7. CASE SendMore
  <2> DEFINE n == SendSize
  <2>1. n \in Nat /\ rbsend + n <= Len(rbout)
    BY <1>0, <1>7 DEF SendSize, SendMore
  <2>2. SendData(rbout, rbpos, rbsend, n, <<>>, state, app_status)
    BY <1>7 DEF SendMore
  <2> HIDE DEF n
  <2>3. <<>> \in Seq(TokenType) /\ Len(<<>>) <= SockBuf - inflight /\ \A i \in 1..Len(<<>>) : ~IsBody(<<>>[i])
    BY <1>0
  <2>4. NoStat(rbout, 0, Len(rbout))' /\ NoStat(wire, 0, Len(wire))'
    BY <1>0, <2>1, <2>2, <2>3, SendDataPlain DEF PlainInv
  <2> QED BY <2>2, <2>4 DEF SendData, PlainInv
<1> QED BY <1>2, <1>3, <1>4, <1>5, <1>6, <1>7 DEF send

(* The bytes of the handler bring no status line with them.                 *)
LEMMA CopyStated ==
    ASSUME TypeInv, StatedInv, NEW n \in Nat, Copy(rbpos, n), wire' = wire, rbsend' = rbsend
    PROVE  /\ StatFirst(rbout, rbpos)' /\ StatFirst(wire, Len(wire))'
           /\ DataSent' => NoStat(rbout, rbsend, rbpos)'
<1>0. rbout \in Seq(TokenType) /\ rbpos \in 0..Len(rbout) /\ rbpos \in Nat /\ made \in Nat /\ rbsend \in Nat
  BY DEF TypeInv, TypeOK
<1>1. /\ \A i \in 1..rbpos : rbout'[i] = rbout[i]
      /\ \A i \in 1..n : rbout'[rbpos + i] = Token("data", made + i)
      /\ rbpos' = rbpos + n
  BY <1>0, Copied
<1>2. ASSUME NEW j \in 1..rbpos + n
      PROVE  \/ j \in 1..rbpos /\ rbout'[j] = rbout[j]
             \/ j > rbpos /\ rbout'[j].t = "data"
  <2>1. CASE j <= rbpos
    BY <1>0, <1>1, <2>1
  <2>2. CASE ~(j <= rbpos)
    <3>1. j - rbpos \in 1..n /\ j = rbpos + (j - rbpos)
      BY <1>0, <2>2
    <3>2. PICK k \in 1..n : j = rbpos + k
      BY <3>1
    <3>3. rbout'[j].t = "data"
      BY <1>1, <3>2, Fields
    <3>4. j > rbpos
      BY <1>0, <2>2
    <3> QED BY <3>3, <3>4
  <2> QED BY <2>1, <2>2
<1>3. StatFirst(rbout, rbpos)'
  <2> SUFFICES ASSUME NEW i \in 1..rbpos + n, NEW j \in 1..rbpos + n, IsData(rbout'[i]),
                      rbout'[j].t = "stat"
               PROVE  j < i
    BY <1>1 DEF StatFirst
  <2>1. j \in 1..rbpos /\ rbout'[j] = rbout[j]
    BY <1>2
  <2>2. CASE i \in 1..rbpos /\ rbout'[i] = rbout[i]
    BY <2>1, <2>2 DEF StatedInv, StatFirst
  <2>3. CASE i > rbpos
    BY <1>0, <2>1, <2>3
  <2> QED BY <1>2, <2>2, <2>3
<1>4. ASSUME DataSent' PROVE NoStat(rbout, rbsend, rbpos)'
  <2> SUFFICES ASSUME NEW j \in rbsend + 1..rbpos + n, rbout'[j].t = "stat" PROVE FALSE
    BY <1>1 DEF NoStat
  <2>1. j \in 1..rbpos + n
    BY <1>0
  <2>2. j \in 1..rbpos /\ rbout'[j] = rbout[j]
    BY <1>2, <2>1
  <2>3. j \in rbsend + 1..rbpos
    BY <1>0, <2>2
  <2>4. DataSent
    BY <1>4 DEF DataSent
  <2> QED BY <2>2, <2>3, <2>4 DEF StatedInv, NoStat
<1> QED BY <1>3, <1>4 DEF StatedInv, StatFirst

(* A handler with a status fits into rbout, so that write() never flushes.  *)
LEMMA NextStated ==
    ASSUME StatusesFit, TypeInv, Does("status"), StatedInv, [Next]_vars
    PROVE  StatedInv'
<1>0. /\ made \in Nat /\ rbpos \in Nat /\ rbsend \in Nat /\ ~Does("flush") /\ ~Does("page")
      /\ setup.bytes <= REQ_MAX_OUT /\ setup.bytes \in Nat /\ REQ_MAX_OUT \in Nat
      /\ \A n \in Lengths : n \in Nat
  BY SizesAssumption, SetupsAssumption DEF StatusesFit, TypeInv, TypeOK, Does
<1>1. ASSUME UNCHANGED <<state, rbout, rbpos, rbsend, stdout_count, wire>>, made' \in Nat,
             made' >= made, ctl' \notin {"flush", "file", "page"}
      PROVE  StatedInv'
  <2>1. state' \in {"STDIN", "OPEN"} => rbpos' <= made'
    BY <1>0, <1>1 DEF StatedInv
  <2>2. DataSent' = DataSent
    BY <1>1 DEF DataSent
  <2> QED BY <1>1, <2>1, <2>2 DEF StatedInv, StatFirst, NoStat
<1>2. ASSUME UNCHANGED <<state, rbout, rbpos, rbsend, stdout_count, wire, made>>,
             ctl' \notin {"flush", "file", "page"}
      PROVE  StatedInv'
  BY <1>0, <1>1, <1>2
<1>3. CASE UNCHANGED vars
  BY <1>2, <1>3 DEF vars, StatedInv
<1>4. CASE PeerReads \/ PeerCloses
  BY <1>2, <1>4 DEF PeerReads, PeerCloses, StatedInv
<1>5. ASSUME NEW n \in Lengths, HWrite(n) PROVE StatedInv'
  <2>1. rbpos <= made /\ rbpos + n <= REQ_MAX_OUT
    BY <1>0, <1>5 DEF HWrite, Accepting, StatedInv
  <2>2. ~NoRoom(n)
    BY <1>0, <2>1 DEF NoRoom
  <2>3. /\ Copy(rbpos, n) /\ UNCHANGED <<state, ctl, wire, rbsend, stdout_count>>
        /\ state \in {"STDIN", "OPEN"}
    BY <1>5, <2>2 DEF HWrite, Accepting
  <2>4. rbpos' <= made'
    BY <1>0, <2>1, <2>3 DEF Copy
  <2>5. DataSent' = DataSent
    BY <2>3 DEF DataSent
  <2>6. /\ StatFirst(rbout, rbpos)' /\ StatFirst(wire, Len(wire))'
        /\ DataSent' => NoStat(rbout, rbsend, rbpos)'
    BY <1>0, <2>3, CopyStated
  <2> QED BY <2>3, <2>4, <2>5, <2>6 DEF StatedInv
<1>6. ASSUME NEW n \in Lengths, HWriteIgnored(n) PROVE StatedInv'
  <2>1. made' = made + n /\ made' \in Nat /\ made' >= made
    BY <1>0, <1>6 DEF HWriteIgnored
  <2> QED BY <1>1, <1>6, <2>1 DEF HWriteIgnored, StatedInv
<1>7. CASE Raw
  BY <1>0, <1>5, <1>6, <1>7 DEF Raw, HWriteFd, HFlush
<1>8. ~Page
  BY <1>0 DEF Page, HPage, HBufferFlush, HBufferRelease, HBufferClear, toRequest, InPage
<1>9. CASE Handler
  <2>1. ASSUME NEW code \in Codes, HStatus(code) \/ HEnd(code) PROVE StatedInv'
    BY <1>2, <2>1 DEF HStatus, HEnd, StatedInv
  <2>2. CASE HReturn
    BY <1>2, <2>2 DEF HReturn
  <2> QED BY <1>7, <1>8, <1>9, <2>1, <2>2 DEF Handler
<1>10. CASE Library
  <2>1. ~FlushRound /\ ~FlushReturns /\ ~optionalFlush /\ ~FileFlush /\ ~FileRead /\ ~FileDone /\ ~FileFails
    BY DEF StatedInv, FlushRound, FlushReturns, optionalFlush, FileFlush, FileRead, FileDone, FileFails
  <2>2. CASE Poll
    BY <1>2, <2>2 DEF Poll
  <2>3. CASE Work
    <3>1. /\ UNCHANGED <<rbout, rbpos, rbsend, stdout_count, wire, made>>
          /\ ctl' \in {"write", "exec", "done"}
          /\ state' = state \/ (state = "STDIN" /\ state' = "OPEN")
      BY <2>3 DEF Work
    <3>2. DataSent' = DataSent
      BY <3>1 DEF DataSent
    <3> QED BY <3>1, <3>2 DEF StatedInv, StatFirst, NoStat
  <2>4. CASE Write
    <3>1. ctl' = "free" /\ made' = made
      BY <2>4 DEF Write
    <3>2. CASE send
      <4>1. /\ state' # "FLUSH"
            /\ state' \in {"STDIN", "OPEN"} => rbpos' = rbpos \/ rbpos' = 0
            /\ (stdout_count' = 0 /\ state' # "WAIT") => ~DataSent'
            /\ state' = "WAIT" => rbpos' = 0
            /\ StatFirst(rbout, rbpos)' /\ StatFirst(wire, Len(wire))'
            /\ DataSent' => NoStat(rbout, rbsend, rbpos)'
        BY <3>2, SendStated
      <4>2. state' \in {"STDIN", "OPEN"} => rbpos' <= made'
        <5>1. state' \in {"STDIN", "OPEN"} => state \in {"STDIN", "OPEN"} \/ rbpos' = 0
          BY <3>2 DEF send, SendFails, clearRbOut, SendEndFails, SendEnd, SendData, SendDone,
             FlushSent, SendFirst, SendMore, StatedInv
        <5> QED BY <1>0, <3>1, <4>1, <5>1 DEF StatedInv
      <4> QED BY <3>1, <4>1, <4>2 DEF StatedInv
    <3>3. CASE UNCHANGED <<reqVars, sockVars>>
      BY <1>2, <3>1, <3>3
    <3> QED BY <2>4, <3>2, <3>3 DEF Write
  <2>5. CASE Free
    <3>1. ctl' = "poll" /\ UNCHANGED <<rbout, wire, made>>
      BY <2>5 DEF Free
    <3>2. CASE state' = "WAIT" /\ rbpos' = 0 /\ rbsend' = 0
      <4>1. 1..rbpos' = {} /\ rbsend' + 1..rbpos' = {}
        BY <3>2
      <4>2. StatFirst(rbout, rbpos)' /\ NoStat(rbout, rbsend, rbpos)'
        BY <4>1 DEF StatFirst, NoStat
      <4>3. StatFirst(wire, Len(wire))'
        BY <3>1 DEF StatedInv, StatFirst
      <4> QED BY <3>1, <3>2, <4>2, <4>3 DEF StatedInv
    <3>3. CASE UNCHANGED <<state, rbpos, rbsend, stdout_count>>
      BY <1>2, <3>1, <3>3
    <3> QED BY <2>5, <3>2, <3>3 DEF Free, clearRbOut
  <2> QED BY <1>10, <2>1, <2>2, <2>3, <2>4, <2>5 DEF Library
<1> QED BY <1>3, <1>4, <1>9, <1>10 DEF Next

LEMMA NextPlain ==
    ASSUME PagesInDone, TypeInv, ~Does("status"), PlainInv, [Next]_vars
    PROVE  PlainInv'
<1>0. /\ made \in Nat /\ rbpos \in Nat /\ rbsend \in Nat /\ html \in Nat /\ todo \in Nat
      /\ rbout \in Seq(TokenType) /\ rbpos \in 0..Len(rbout) /\ REQ_MAX_OUT \in Nat
      /\ (\A n \in Lengths : n \in Nat) /\ Codes = {0}
  BY SizesAssumption DEF TypeInv, TypeOK, Codes
<1>1. ASSUME UNCHANGED <<rbout, wire, app_status, peerOpen>> PROVE PlainInv'
  BY <1>1 DEF PlainInv, NoStat
<1>2. ASSUME UNCHANGED <<rbout, wire, peerOpen>>, app_status' = 0 PROVE PlainInv'
  BY <1>2 DEF PlainInv, NoStat
<1>3. ASSUME NEW pos \in 0..rbpos, NEW n \in Nat, Copy(pos, n), UNCHANGED <<wire, app_status, peerOpen>>
      PROVE  PlainInv'
  <2>1. pos \in 0..Len(rbout)
    BY <1>0
  <2>2. /\ Len(rbout') = pos + n
        /\ \A i \in 1..pos : rbout'[i] = rbout[i]
        /\ \A i \in 1..n : rbout'[pos + i] = Token("data", made + i)
    BY <1>0, <1>3, <2>1, Copied
  <2>3. ASSUME NEW j \in 1..pos + n PROVE rbout'[j].t # "stat"
    <3>1. CASE j <= pos
      <4>1. j \in 0 + 1..Len(rbout) /\ j \in 1..pos
        BY <1>0, <3>1
      <4> QED BY <2>2, <4>1 DEF PlainInv, NoStat
    <3>2. CASE ~(j <= pos)
      <4>1. j - pos \in 1..n /\ j = pos + (j - pos)
        BY <1>0, <3>2
      <4>2. PICK k \in 1..n : j = pos + k
        BY <4>1
      <4>3. rbout'[j] = Token("data", made + k)
        BY <2>2, <4>2
      <4>4. rbout'[j].t = "data"
        BY <4>3, Fields
      <4> QED BY <4>4
    <3> QED BY <3>1, <3>2
  <2> QED BY <1>3, <2>2, <2>3 DEF PlainInv, NoStat
<1>4. CASE UNCHANGED vars
  BY <1>1, <1>4 DEF vars
<1>5. CASE PeerReads \/ PeerCloses
  BY <1>5 DEF PeerReads, PeerCloses, PlainInv, NoStat
<1>6. CASE Raw
  <2>1. ASSUME NEW n \in Lengths, HWrite(n) PROVE PlainInv'
    <3>1. CASE UNCHANGED rbout
      BY <1>1, <2>1, <3>1 DEF HWrite
    <3>2. CASE Copy(rbpos, n)
      <4>1. rbpos \in 0..rbpos
        BY <1>0
      <4> QED BY <1>0, <1>3, <2>1, <3>2, <4>1 DEF HWrite
    <3> QED BY <2>1, <3>1, <3>2 DEF HWrite
  <2>2. ASSUME NEW n \in Lengths, HWriteIgnored(n) \/ HWriteFd(n) PROVE PlainInv'
    BY <1>1, <2>2 DEF HWriteIgnored, HWriteFd
  <2>3. CASE HFlush
    BY <1>1, <2>3 DEF HFlush
  <2> QED BY <1>6, <2>1, <2>2, <2>3 DEF Raw
<1>7. CASE Page
  <2>1. ASSUME NEW n \in Lengths, HPage(n) PROVE PlainInv'
    <3>1. ctl = "done" /\ Does("page")
      BY <2>1, PageProduces DEF HPage, InPage
    <3>2. html \in 0..Len(rbout) /\ rbpos \in 0..html
      BY <1>0, <3>1 DEF TypeInv, PageInv
    <3>n. n \in Nat
      BY <1>0
    <3>3. /\ rbout' \in Seq(TokenType)
          /\ \A i \in 1..html : rbout'[i] = rbout[i]
          /\ \A i \in 1..n : rbout'[html + i] = Token("data", made + (html - rbpos) + i)
          /\ \A i \in html + n + 1..Len(rbout') : i \in 1..Len(rbout) /\ rbout'[i] = rbout[i]
      BY <1>0, <2>1, <3>2, <3>n, PageWritten
    <3>4. ASSUME NEW j \in 1..Len(rbout') PROVE rbout'[j].t # "stat"
      <4>1. CASE j <= html
        <5>1. j \in 1..html /\ j \in 0 + 1..Len(rbout)
          BY <1>0, <3>2, <4>1
        <5> QED BY <3>3, <5>1 DEF PlainInv, NoStat
      <4>2. CASE html < j /\ j <= html + n
        <5>1. j - html \in 1..n /\ j = html + (j - html)
          BY <1>0, <4>2
        <5>2. PICK k \in 1..n : j = html + k
          BY <5>1
        <5>3. rbout'[j].t = "data"
          BY <3>3, <5>2, Fields
        <5> QED BY <5>3
      <4>3. CASE html + n < j
        <5>1. j \in html + n + 1..Len(rbout')
          BY <1>0, <3>3, <3>n, <4>3
        <5>2. j \in 0 + 1..Len(rbout) /\ rbout'[j] = rbout[j]
          BY <3>3, <5>1
        <5> QED BY <5>2 DEF PlainInv, NoStat
      <4> QED BY <1>0, <4>1, <4>2, <4>3
    <3>5. UNCHANGED <<wire, app_status, peerOpen>>
      BY <2>1 DEF HPage
    <3> QED BY <3>4, <3>5 DEF PlainInv, NoStat
  <2>2. CASE HBufferFlush
    BY <1>1, <2>2 DEF HBufferFlush, bufferFlush
  <2>3. CASE HBufferRelease \/ HBufferClear
    BY <1>1, <2>3 DEF HBufferRelease, HBufferClear
  <2>4. ASSUME NEW n \in Lengths, toRequest(n) PROVE PlainInv'
    BY <1>1, <2>4 DEF toRequest, HWriteFd
  <2> QED BY <1>7, <2>1, <2>2, <2>3, <2>4 DEF Page
<1>8. CASE Handler
  <2>1. ASSUME NEW code \in Codes, HStatus(code) \/ HEnd(code) PROVE PlainInv'
    BY <1>0, <1>1, <1>2, <2>1 DEF HStatus, HEnd
  <2>2. CASE HReturn
    BY <1>1, <2>2 DEF HReturn
  <2> QED BY <1>6, <1>7, <1>8, <2>1, <2>2 DEF Handler
<1>9. CASE Library
  <2>1. CASE optionalFlush
    BY <1>1, <2>1 DEF optionalFlush, bufferFlush
  <2>2. CASE FlushRound
    BY <2>2, SendPlain DEF FlushRound
  <2>3. CASE FlushReturns
    <3>1. CASE Copy(0, todo)
      BY <1>0, <1>3, <2>3, <3>1 DEF FlushReturns
    <3>2. CASE UNCHANGED rbout
      BY <1>1, <2>3, <3>2 DEF FlushReturns
    <3> QED BY <2>3, <3>1, <3>2 DEF FlushReturns
  <2>4. CASE FileFlush \/ FileDone
    BY <1>1, <2>4 DEF FileFlush, FileDone
  <2>5. CASE FileRead
    <3> DEFINE max == IF rbpos < REQ_MAX_OUT THEN REQ_MAX_OUT - rbpos ELSE REQ_MAX_OUT
               k == br(max)
    <3>1. k \in Nat /\ rbpos \in 0..rbpos
      BY <1>0 DEF br, AtMost
    <3>2. Copy(rbpos, k) /\ UNCHANGED <<wire, app_status, peerOpen>>
      BY <2>5 DEF FileRead
    <3> HIDE DEF k
    <3> QED BY <1>3, <3>1, <3>2
  <2>6. CASE FileFails \/ Poll \/ Work
    BY <1>1, <2>6 DEF FileFails, Poll, Work
  <2>7. CASE Write
    <3>1. CASE send
      BY <2>7, <3>1, SendPlain DEF Write
    <3>2. CASE UNCHANGED <<reqVars, sockVars>>
      BY <1>1, <2>7, <3>2 DEF Write
    <3> QED BY <2>7, <3>1, <3>2 DEF Write
  <2>8. CASE Free
    BY <1>1, <1>2, <2>8 DEF Free
  <2> QED BY <1>9, <2>1, <2>2, <2>3, <2>4, <2>5, <2>6, <2>7, <2>8 DEF Library
<1> QED BY <1>4, <1>5, <1>8, <1>9 DEF Next

LEMMA InitStatus == Init => StatusInv
<1>1. Init => StatedInv /\ PlainInv
  BY DEF Init, StatedInv, PlainInv, StatFirst, NoStat, DataSent
<1> QED BY <1>1 DEF StatusInv

LEMMA NextStatus ==
    ASSUME PagesInDone, StatusesFit PROVE TypeInv /\ StatusInv /\ [Next]_vars => StatusInv'
<1> SUFFICES ASSUME TypeInv, StatusInv, [Next]_vars PROVE StatusInv'
  OBVIOUS
<1>1. setup' = setup
  BY DEF Next, vars, Handler, Raw, Page, HReturn, Library, PeerReads, PeerCloses
<1>2. Does("status")' <=> Does("status")
  BY <1>1 DEF Does
<1>3. CASE Does("status")
  BY <1>2, <1>3, NextStated DEF StatusInv
<1>4. CASE ~Does("status")
  BY <1>2, <1>4, NextPlain DEF StatusInv
<1> QED BY <1>3, <1>4

(* "Http status can be set only with headers": no status line goes out      *)
(* behind a byte of the response, when the socket takes the first           *)
(* transmission in parts too, if whoever sets a status sends no more than   *)
(* rbout holds and does not flush.                                          *)
THEOREM StatusLeads ==
    ASSUME PagesInDone, StatusesFit PROVE Spec => []StatusOnlyInFirstStdout
<1>1. TypeInv /\ StatusInv => StatusOnlyInFirstStdout
  <2> SUFFICES ASSUME TypeInv, StatusInv, NEW i \in DOMAIN wire, wire[i].t = "stat",
                      NEW j \in 1..i, wire[j].t = "data"
               PROVE  FALSE
    BY DEF StatusOnlyInFirstStdout
  <2>1. wire \in Seq(TokenType) /\ i \in 1..Len(wire) /\ j \in 1..Len(wire)
    BY DEF TypeInv, TypeOK
  <2>2. CASE Does("status")
    <3>1. i < j
      BY <2>1, <2>2 DEF StatusInv, StatedInv, StatFirst, IsData
    <3> QED BY <2>1, <3>1
  <2>3. CASE ~Does("status")
    <3>1. i \in 0 + 1..Len(wire)
      BY <2>1
    <3> QED BY <2>3, <3>1 DEF StatusInv, PlainInv, NoStat
  <2> QED BY <2>2, <2>3
<1> QED BY <1>1, InitType, NextType, InitStatus, NextStatus, PTL DEF Spec

-----------------------------------------------------------------------------
(***************************************************************************)
(* A response arrives whole: the records of module Response are well formed *)
(* and what was closed is complete, for every size of buffer, for every     *)
(* socket when the response fits into rbout, and for every way to flush     *)
(* when the socket takes what is sent at once.                              *)
(***************************************************************************)

(* The records on the wire are whole but for the last owed bytes.           *)
Records(owed) ==
    /\ \A j \in 1..Len(wire) : IsBody(wire[j]) <=> \E i \in 1..Len(wire) : Inside(i, j)
    /\ \A i \in 1..Len(wire) : wire[i].t = "head" => i + wire[i].v <= Len(wire) + owed
    /\ owed > 0 => \E i \in 1..Len(wire) : wire[i].t = "head" /\ i + wire[i].v = Len(wire) + owed
Bodies(mem, from, bw) == \A k \in 1..bw : IsBody(mem[from + k])
OnWire(k) == \E i \in 1..Len(wire) : wire[i] = Token("data", k)
Unended == \A i \in 1..Len(wire) : wire[i].t # "end"

-----------------------------------------------------------------------------
(* What one ::write does to the records *)

LEMMA Kinds ==
    ASSUME NEW token
    PROVE  /\ IsBody(token) => token.t # "head" /\ token.t # "end"
           /\ IsData(token) => IsBody(token)
BY DEF IsBody, IsData

LEMMA StaysOnWire ==
    ASSUME wire \in Seq(TokenType), NEW mem, NEW from \in Nat, NEW n, NEW head \in Seq(TokenType),
           NEW bw \in Nat, WentOut(mem, from, n, head, bw), NEW k
    PROVE  /\ OnWire(k) => OnWire(k)'
           /\ \A m \in 1..bw : mem[from + m] = Token("data", k) => OnWire(k)'
<1>0. Len(wire) \in Nat /\ Len(head) \in Nat /\ DOMAIN wire = 1..Len(wire)
  OBVIOUS
<1>g. /\ Len(wire') = Len(wire) + Len(head) + bw
      /\ \A i \in DOMAIN wire : wire'[i] = wire[i]
      /\ \A i \in 1..bw : wire'[Len(wire) + Len(head) + i] = mem[from + i]
  BY DEF WentOut
<1>1. ASSUME OnWire(k) PROVE OnWire(k)'
  <2>1. PICK i \in 1..Len(wire) : wire[i] = Token("data", k)
    BY <1>1 DEF OnWire
  <2>2. i \in 1..Len(wire') /\ wire'[i] = wire[i]
    BY <1>0, <1>g
  <2>3. \E j \in 1..Len(wire') : wire'[j] = Token("data", k)
    BY <2>1, <2>2
  <2> QED BY <2>3 DEF OnWire
<1>2. ASSUME NEW m \in 1..bw, mem[from + m] = Token("data", k) PROVE OnWire(k)'
  <2>1. Len(wire) + Len(head) + m \in 1..Len(wire')
    BY <1>0, <1>g
  <2>2. \E j \in 1..Len(wire') : wire'[j] = Token("data", k)
    BY <1>2, <1>g, <2>1
  <2> QED BY <2>2 DEF OnWire
<1> QED BY <1>1, <1>2

(* What was inside a record stays so, and no other token in front of L.     *)
LEMMA OldRecords ==
    ASSUME wire \in Seq(TokenType), wire' \in Seq(TokenType), Len(wire) <= Len(wire'),
           \A i \in 1..Len(wire) : wire'[i] = wire[i],
           NEW j \in 1..Len(wire)
    PROVE  (\E i \in 1..Len(wire') : Inside(i, j)') <=> (\E i \in 1..Len(wire) : Inside(i, j))
<1>0. Len(wire) \in Nat /\ Len(wire') \in Nat
  OBVIOUS
<1>1. ASSUME NEW i \in 1..Len(wire'), Inside(i, j)' PROVE i \in 1..Len(wire) /\ Inside(i, j)
  <2>1. i \in 1..Len(wire)
    BY <1>0, <1>1 DEF Inside
  <2> QED BY <1>1, <2>1 DEF Inside
<1>2. ASSUME NEW i \in 1..Len(wire), Inside(i, j) PROVE i \in 1..Len(wire') /\ Inside(i, j)'
  <2>1. i \in 1..Len(wire')
    BY <1>0
  <2> QED BY <1>2, <2>1 DEF Inside
<1> QED BY <1>1, <1>2

(* The rest of a record: it needs no header.                                *)
LEMMA SendsRest ==
    ASSUME wire \in Seq(TokenType), NEW mem, NEW from \in Nat, NEW n, NEW bw \in Nat,
           WentOut(mem, from, n, <<>>, bw), NEW owed \in Nat, bw <= owed,
           Records(owed), Bodies(mem, from, bw)
    PROVE  Records(owed - bw)'
<1> DEFINE L == Len(wire)
<1>0. /\ L \in Nat /\ <<>> \in Seq(TokenType) /\ Len(<<>>) = 0 /\ DOMAIN wire = 1..L
      /\ \A i \in 1..L : wire[i].t = "head" => wire[i].v \in Nat
  BY DEF TokenType
<1>1. /\ wire' \in Seq(TokenType) /\ Len(wire') = L + bw
      /\ \A i \in 1..L : wire'[i] = wire[i]
      /\ \A i \in 1..bw : wire'[L + i] = mem[from + i]
  <2>1. Len(wire) + Len(<<>>) = L
    BY <1>0
  <2>2. wire' \in Seq(TokenType) /\ Len(wire') = L + bw
    BY <2>1 DEF WentOut
  <2>3. \A i \in 1..L : wire'[i] = wire[i]
    BY <1>0 DEF WentOut
  <2>4. \A i \in 1..bw : wire'[L + i] = mem[from + i]
    BY <2>1 DEF WentOut
  <2>5. QED BY <2>2, <2>3, <2>4
<1>2. ASSUME NEW j \in 1..L + bw, ~(j \in 1..L) PROVE j > L /\ IsBody(wire'[j])
  <2>1. j - L \in 1..bw /\ j = L + (j - L) /\ j > L
    BY <1>0, <1>2
  <2>2. PICK k \in 1..bw : j = L + k
    BY <2>1
  <2>3. IsBody(wire'[j])
    BY <1>1, <2>2 DEF Bodies
  <2> QED BY <2>1, <2>3
<1>3. ASSUME NEW j \in 1..L + bw
      PROVE  IsBody(wire'[j]) <=> \E i \in 1..L + bw : Inside(i, j)'
  <2>1. CASE j \in 1..L
    <3>1. IsBody(wire[j]) <=> \E i \in 1..L : Inside(i, j)
      BY <2>1 DEF Records
    <3>2. (\E i \in 1..Len(wire') : Inside(i, j)') <=> (\E i \in 1..L : Inside(i, j))
      <4>1. j \in 1..Len(wire) /\ Len(wire') >= Len(wire)
        BY <1>0, <1>1, <2>1
      <4>2. \A i \in 1..Len(wire) : wire'[i] = wire[i]
        BY <1>0, <1>1
      <4> QED BY <1>1, <4>1, <4>2, OldRecords
    <3> QED BY <1>1, <2>1, <3>1, <3>2
  <2>2. CASE ~(j \in 1..L)
    <3>1. owed > 0
      BY <1>0, <2>2
    <3>2. PICK i \in 1..L : wire[i].t = "head" /\ i + wire[i].v = L + owed
      BY <3>1 DEF Records
    <3>3. i < j /\ j <= i + wire[i].v /\ i \in 1..L + bw
      BY <1>0, <1>2, <2>2, <3>2
    <3>4. Inside(i, j)'
      BY <1>1, <3>2, <3>3 DEF Inside
    <3> QED BY <1>2, <2>2, <3>3, <3>4
  <2> QED BY <2>1, <2>2
<1>4. ASSUME NEW i \in 1..L + bw, wire'[i].t = "head"
      PROVE  i + wire'[i].v <= L + bw + (owed - bw)
  <2>1. i \in 1..L
    BY <1>2, <1>4, Kinds
  <2>2. wire'[i] = wire[i]
    BY <1>1, <2>1
  <2>3. i + wire[i].v <= L + owed
    BY <1>4, <2>1, <2>2 DEF Records
  <2> QED BY <1>0, <1>4, <2>1, <2>2, <2>3
<1>5. ASSUME owed - bw > 0
      PROVE  \E i \in 1..L + bw : wire'[i].t = "head" /\ i + wire'[i].v = L + bw + (owed - bw)
  <2>1. PICK i \in 1..L : wire[i].t = "head" /\ i + wire[i].v = L + owed
    BY <1>5 DEF Records
  <2>2. i \in 1..L + bw /\ L + owed = L + bw + (owed - bw)
    BY <1>0
  <2> QED BY <1>1, <2>1, <2>2
<1> QED BY <1>1, <1>3, <1>4, <1>5 DEF Records

(* A header and what the socket takes of its record.                        *)
LEMMA SendsHead ==
    ASSUME wire \in Seq(TokenType), NEW mem, NEW from \in Nat, NEW n \in Nat, NEW bw \in 0..n,
           Token("head", n) \in TokenType, WentOut(mem, from, n, <<Token("head", n)>>, bw),
           Records(0), Bodies(mem, from, bw)
    PROVE  Records(n - bw)'
<1> DEFINE L == Len(wire)
           head == <<Token("head", n)>>
<1>0. /\ L \in Nat /\ Len(head) = 1 /\ head[1] = Token("head", n) /\ DOMAIN wire = 1..L
      /\ \A i \in 1..L : wire[i].t = "head" => wire[i].v \in Nat
  BY DEF TokenType
<1>1. /\ wire' \in Seq(TokenType) /\ Len(wire') = L + 1 + bw
      /\ \A i \in 1..L : wire'[i] = wire[i]
      /\ \A i \in 1..1 : wire'[L + i] = head[i]
      /\ \A i \in 1..bw : wire'[L + 1 + i] = mem[from + i]
  BY <1>0 DEF WentOut
<1>g. wire'[L + 1] = Token("head", n)
  BY <1>0, <1>1
<1>h. wire'[L + 1].t = "head" /\ wire'[L + 1].v = n
  BY <1>g, Fields
<1>2. ASSUME NEW j \in 1..L + 1 + bw, ~(j \in 1..L), j # L + 1
      PROVE  j > L + 1 /\ IsBody(wire'[j])
  <2>1. j - (L + 1) \in 1..bw /\ j = L + 1 + (j - (L + 1)) /\ j > L + 1
    BY <1>0, <1>2
  <2>2. PICK k \in 1..bw : j = L + 1 + k
    BY <2>1
  <2>3. IsBody(wire'[j])
    BY <1>1, <2>2 DEF Bodies
  <2> QED BY <2>1, <2>3
<1>3. ASSUME NEW j \in 1..L + 1 + bw
      PROVE  IsBody(wire'[j]) <=> \E i \in 1..L + 1 + bw : Inside(i, j)'
  <2>1. CASE j \in 1..L
    <3>1. IsBody(wire[j]) <=> \E i \in 1..L : Inside(i, j)
      BY <2>1 DEF Records
    <3>2. (\E i \in 1..Len(wire') : Inside(i, j)') <=> (\E i \in 1..L : Inside(i, j))
      <4>1. j \in 1..Len(wire) /\ Len(wire') >= Len(wire)
        BY <1>0, <1>1, <2>1
      <4>2. \A i \in 1..Len(wire) : wire'[i] = wire[i]
        BY <1>0, <1>1
      <4> QED BY <1>1, <4>1, <4>2, OldRecords
    <3> QED BY <1>1, <2>1, <3>1, <3>2
  <2>2. CASE j = L + 1
    <3>1. ~IsBody(wire'[j])
      BY <1>h, <2>2, Kinds
    <3>2. ASSUME NEW i \in 1..L + 1 + bw, Inside(i, j)' PROVE FALSE
      <4>1. i \in 1..L
        BY <1>0, <2>2, <3>2 DEF Inside
      <4>2. wire[i].t = "head" /\ j <= i + wire[i].v
        BY <1>1, <3>2, <4>1 DEF Inside
      <4>3. i + wire[i].v <= L + 0
        BY <4>1, <4>2 DEF Records
      <4> QED BY <1>0, <2>2, <4>1, <4>2, <4>3
    <3> QED BY <3>1, <3>2
  <2>3. CASE ~(j \in 1..L) /\ j # L + 1
    <3>1. L + 1 < j /\ j <= L + 1 + n /\ L + 1 \in 1..L + 1 + bw
      BY <1>0, <1>2, <2>3
    <3>2. PICK i \in 1..L + 1 + bw : i = L + 1
      BY <3>1
    <3>3. Inside(i, j)'
      BY <1>h, <3>1, <3>2 DEF Inside
    <3> QED BY <1>2, <2>3, <3>2, <3>3
  <2> QED BY <2>1, <2>2, <2>3
<1>4. ASSUME NEW i \in 1..L + 1 + bw, wire'[i].t = "head"
      PROVE  i + wire'[i].v <= L + 1 + bw + (n - bw)
  <2>1. CASE i \in 1..L
    <3>1. wire'[i] = wire[i]
      BY <1>1, <2>1
    <3>2. i + wire[i].v <= L + 0
      BY <1>4, <2>1, <3>1 DEF Records
    <3> QED BY <1>0, <1>4, <2>1, <3>1, <3>2
  <2>2. CASE i = L + 1
    BY <1>0, <1>h, <2>2
  <2> QED BY <1>2, <1>4, <2>1, <2>2, Kinds
<1>5. \E i \in 1..L + 1 + bw : wire'[i].t = "head" /\ i + wire'[i].v = L + 1 + bw + (n - bw)
  <2>1. L + 1 \in 1..L + 1 + bw /\ L + 1 + n = L + 1 + bw + (n - bw)
    BY <1>0
  <2> QED BY <1>h, <2>1
<1> QED BY <1>1, <1>3, <1>4, <1>5 DEF Records

(* A write that sends no header puts the bytes of rbout behind the wire.    *)
LEMMA SentBytes ==
    ASSUME wire \in Seq(TokenType), NEW mem, NEW from \in Nat, NEW n, NEW bw \in Nat,
           WentOut(mem, from, n, <<>>, bw)
    PROVE  /\ wire' \in Seq(TokenType) /\ Len(wire') = Len(wire) + bw
           /\ \A i \in 1..Len(wire) : wire'[i] = wire[i]
           /\ \A i \in 1..bw : wire'[Len(wire) + i] = mem[from + i]
<1> DEFINE L == Len(wire)
<1>1. L \in Nat /\ DOMAIN wire = 1..L /\ Len(<<>>) = 0
  OBVIOUS
<1>2. /\ wire' \in Seq(TokenType) /\ Len(wire') = L + Len(<<>>) + bw
      /\ \A i \in DOMAIN wire : wire'[i] = wire[i]
      /\ \A i \in 1..bw : wire'[L + Len(<<>>) + i] = mem[from + i]
  BY DEF WentOut
<1> HIDE DEF L
<1>3. Len(wire') = L + bw /\ \A i \in 1..L : wire'[i] = wire[i]
  BY <1>1, <1>2
<1>4. ASSUME NEW i \in 1..bw PROVE wire'[L + i] = mem[from + i]
  <2>1. L + Len(<<>>) + i = L + i
    BY <1>1
  <2> QED BY <1>2, <2>1
<1> QED BY <1>2, <1>3, <1>4 DEF L

(* Closing records come behind whole ones.                                  *)
LEMMA SendsClosing ==
    ASSUME wire \in Seq(TokenType), NEW mem, NEW from \in Nat, NEW n, NEW bw \in Nat,
           WentOut(mem, from, n, <<>>, bw), Records(0),
           \A k \in 1..bw : ~IsBody(mem[from + k]) /\ mem[from + k].t # "head"
    PROVE  Records(0)'
<1> DEFINE L == Len(wire)
<1>0. /\ L \in Nat /\ <<>> \in Seq(TokenType) /\ Len(<<>>) = 0 /\ DOMAIN wire = 1..L
      /\ \A i \in 1..L : wire[i].t = "head" => wire[i].v \in Nat
  BY DEF TokenType
<1>1. /\ wire' \in Seq(TokenType) /\ Len(wire') = L + bw
      /\ \A i \in 1..L : wire'[i] = wire[i]
      /\ \A i \in 1..bw : wire'[L + i] = mem[from + i]
  BY SentBytes, ZenonT(30)
<1>2. ASSUME NEW j \in 1..L + bw, ~(j \in 1..L)
      PROVE  j > L /\ ~IsBody(wire'[j]) /\ wire'[j].t # "head"
  <2>1. j - L \in 1..bw /\ j = L + (j - L) /\ j > L
    BY <1>0, <1>2
  <2>2. PICK k \in 1..bw : j = L + k
    BY <2>1
  <2>3. ~IsBody(wire'[j]) /\ wire'[j].t # "head"
    BY <1>1, <2>2
  <2> QED BY <2>1, <2>3
<1>4. ASSUME NEW i \in 1..L + bw, wire'[i].t = "head"
      PROVE  i \in 1..L /\ wire'[i] = wire[i] /\ i + wire[i].v <= L
  <2>1. i \in 1..L
    BY <1>2, <1>4
  <2>2. wire'[i] = wire[i]
    BY <1>1, <2>1
  <2>3. i + wire[i].v <= L + 0
    BY <1>4, <2>1, <2>2 DEF Records
  <2> QED BY <1>0, <2>1, <2>2, <2>3
<1>3. ASSUME NEW j \in 1..L + bw
      PROVE  IsBody(wire'[j]) <=> \E i \in 1..L + bw : Inside(i, j)'
  <2>1. CASE j \in 1..L
    <3>1. IsBody(wire[j]) <=> \E i \in 1..L : Inside(i, j)
      BY <2>1 DEF Records
    <3>2. (\E i \in 1..Len(wire') : Inside(i, j)') <=> (\E i \in 1..L : Inside(i, j))
      <4>1. j \in 1..Len(wire) /\ Len(wire') >= Len(wire)
        BY <1>0, <1>1, <2>1
      <4>2. \A i \in 1..Len(wire) : wire'[i] = wire[i]
        BY <1>0, <1>1
      <4> QED BY <1>1, <4>1, <4>2, OldRecords
    <3> QED BY <1>1, <2>1, <3>1, <3>2
  <2>2. CASE ~(j \in 1..L)
    <3>1. ASSUME NEW i \in 1..L + bw, Inside(i, j)' PROVE FALSE
      <4>1. wire'[i].t = "head" /\ j <= i + wire'[i].v
        BY <3>1 DEF Inside
      <4> QED BY <1>0, <1>2, <1>4, <2>2, <4>1
    <3> QED BY <1>2, <2>2, <3>1
  <2> QED BY <2>1, <2>2
<1>5. ASSUME NEW i \in 1..L + bw, wire'[i].t = "head"
      PROVE  i + wire'[i].v <= L + bw + 0
  BY <1>0, <1>4, <1>5
<1> QED BY <1>1, <1>3, <1>5 DEF Records

(* The end is the last there is, once all of it went out.                   *)
LEMMA ClosingSent ==
    ASSUME wire \in Seq(TokenType), NEW mem, NEW from \in 0..1, NEW n, NEW bw \in Nat,
           from + bw <= 2, WentOut(mem, from, n, <<>>, bw), Records(0), Unended,
           mem[1].t = "empty", mem[2].t = "end"
    PROVE  /\ Records(0)'
           /\ \A i \in 1..Len(wire') : wire'[i].t = "end" => i = Len(wire')
           /\ IF from + bw < 2 THEN Unended' ELSE Over'
<1> DEFINE L == Len(wire)
<1>0. L \in Nat /\ <<>> \in Seq(TokenType) /\ Len(<<>>) = 0 /\ DOMAIN wire = 1..L /\ from \in Nat
  OBVIOUS
<1>n. from \in Nat
  OBVIOUS
<1>1. /\ wire' \in Seq(TokenType) /\ Len(wire') = L + bw
      /\ \A i \in 1..L : wire'[i] = wire[i]
      /\ \A i \in 1..bw : wire'[L + i] = mem[from + i]
  BY <1>n, SentBytes, ZenonT(30)
<1>2. ASSUME NEW k \in 1..bw PROVE from + k = 1 \/ from + k = 2
  BY <1>0
<1>3. \A k \in 1..bw : ~IsBody(mem[from + k]) /\ mem[from + k].t # "head"
  BY <1>2 DEF IsBody
<1>4. Records(0)'
  BY <1>0, <1>3, SendsClosing
<1>5. ASSUME NEW j \in 1..L + bw, wire'[j].t = "end"
      PROVE  \E k \in 1..bw : j = L + k /\ from + k = 2
  <2>1. ~(j \in 1..L)
    BY <1>1, <1>5 DEF Unended
  <2>2. j - L \in 1..bw /\ j = L + (j - L)
    BY <1>0, <2>1
  <2>3. PICK k \in 1..bw : j = L + k
    BY <2>2
  <2>4. mem[from + k].t = "end"
    BY <1>1, <1>5, <2>3
  <2>5. from + k # 1
    BY <2>4
  <2> QED BY <1>2, <2>3, <2>5
<1>6. ASSUME NEW j \in 1..L + bw, wire'[j].t = "end" PROVE j = L + bw
  <2>1. PICK k \in 1..bw : j = L + k /\ from + k = 2
    BY <1>5, <1>6
  <2> QED BY <1>0, <2>1
<1>7. CASE from + bw < 2
  <2>1. ASSUME NEW j \in 1..L + bw, wire'[j].t = "end" PROVE FALSE
    <3>1. PICK k \in 1..bw : j = L + k /\ from + k = 2
      BY <1>5, <2>1
    <3> QED BY <1>0, <1>7, <3>1
  <2> QED BY <1>1, <1>4, <1>6, <1>7, <2>1 DEF Unended
<1>8. CASE ~(from + bw < 2)
  <2>1. from + bw = 2 /\ bw \in 1..bw /\ L + bw \in 1..L + bw
    BY <1>0, <1>8
  <2>2. wire'[L + bw].t = "end"
    BY <1>1, <2>1
  <2>3. DOMAIN wire' = 1..L + bw
    BY <1>1
  <2>4. Over'
    BY <2>1, <2>2, <2>3 DEF Over
  <2> QED BY <1>1, <1>4, <1>6, <1>8, <2>4
<1> QED BY <1>7, <1>8
-----------------------------------------------------------------------------
(* How a response gets there *)

Waiting(k) == \E j \in rbsend + 1..rbpos : rbout[j] = Token("data", k)
Owed == IF stdout_count = 0 THEN 0 ELSE SendSize
Open == state \in {"STDIN", "OPEN", "FLUSH"}
InDone == ctl \in {"done", "page", "file"}

(* A handler never produces more than its setup says.                       *)
Budget ==
    /\ made <= setup.bytes
    /\ ctl \in {"flush", "file"} => made + todo <= setup.bytes
    /\ (Does("page") /\ InDone) => made + (html - rbpos) <= setup.bytes

(* The first round of a flush() sends all there is, the second finds it so. *)
FlushInv ==
    \/ state = "FLUSH" /\ pollout /\ stdout_count = 0 /\ SendSize > 0 /\ rounds = 0
    \/ /\ SendSize = 0 /\ stdout_count = 1 /\ Len(wire) <= 2 * made
       /\ (state = "FLUSH" /\ rounds = 1) \/ (state = "OPEN" /\ ~pollout)

(* Nothing is sent while done() runs but by flush(), and flush() only by    *)
(* handlers whose socket takes it.                                          *)
Control ==
    /\ (called # "done" \/ InDone) => stdout_count = 0
    /\ InDone => state = "OPEN"
    /\ ctl \in {"flush", "page", "file"} => Roomy(setup)
    /\ ctl = "flush" => FlushInv
    /\ ctl \in {"poll", "work", "write", "free", "exec"} => state # "FLUSH"
    /\ (Open /\ stdout_count = 0) => rbpos <= made
    /\ (Open /\ stdout_count = 0 /\ Roomy(setup)) => Len(wire) <= 2 * (made - rbpos)
    /\ Roomy(setup) => inflight <= Len(wire)

(* Every byte is on the wire or waits in rbout.                             *)
Sending ==
    /\ Records(Owed) /\ Unended
    /\ \A k \in 1..made : OnWire(k) \/ Waiting(k)
    /\ \A j \in rbsend + 1..rbpos : IsData(rbout[j])

(* Every byte is on the wire, and so is END_REQUEST, or it waits.           *)
Closing ==
    /\ Records(0)
    /\ \A k \in 1..made : OnWire(k)
    /\ \A i \in 1..Len(wire) : wire[i].t = "end" => i = Len(wire)
    /\ state = "END" => /\ rbpos = 2 /\ rbsend <= 2 /\ stdout_count = 1
                        /\ rbout[1].t = "empty" /\ rbout[2].t = "end"
                        /\ IF rbsend < 2 THEN Unended ELSE Over
    /\ state # "END" => Over /\ SendSize = 0

Phase == IF Open THEN Sending ELSE Closing

DeliveryInv == Budget /\ (peerOpen => Control /\ Phase)

LEMMA InDoneFirst == OnlyInDone => PagesInDone
BY DEF OnlyInDone, PagesInDone

(* The sizes that the proofs below calculate with.                          *)
LEMMA Sizes ==
    ASSUME TypeInv
    PROVE  /\ rbout \in Seq(TokenType) /\ wire \in Seq(TokenType) /\ Len(wire) \in Nat
           /\ rbpos \in Nat /\ rbpos <= Len(rbout) /\ rbsend \in Nat /\ made \in Nat /\ todo \in Nat
           /\ html \in Nat /\ rounds \in Nat /\ stdout_count \in 0..1 /\ app_status \in Nat
           /\ inflight \in 0..SockBuf /\ SockBuf \in Nat /\ SockBuf = setup.sock
           /\ setup \in Setups /\ setup.bytes \in Nat /\ StatLen \in Nat /\ REQ_MAX_OUT \in Nat
           /\ (stdout_count = 0 => rbsend = 0)
           /\ \A n \in Lengths : n \in Nat /\ n >= 1
BY SizesAssumption, SetupsAssumption DEF TypeInv, TypeOK, SockBuf

(* Sending depends on the output alone.                                     *)
LEMMA StillSending ==
    ASSUME Sending, UNCHANGED <<rbout, rbpos, rbsend, stdout_count, wire, made>>
    PROVE  Sending'
BY DEF Sending, Records, Unended, OnWire, Waiting, Owed, SendSize, Inside

LEMMA StillClosing ==
    ASSUME Closing, UNCHANGED <<state, rbout, rbpos, rbsend, stdout_count, wire, made>>
    PROVE  Closing'
BY DEF Closing, Records, Unended, Over, OnWire, SendSize, Inside

(* The handler's bytes wait behind those of its buffer.                     *)
LEMMA CopyDelivers ==
    ASSUME TypeInv, NEW pos \in 0..rbpos, NEW n \in Nat, Copy(pos, n), wire' = wire,
           rbsend' = 0, stdout_count' = 0, Records(0), Unended,
           \A k \in 1..made : OnWire(k) \/ \E j \in 1..pos : rbout[j] = Token("data", k),
           \A j \in 1..pos : IsData(rbout[j])
    PROVE  Sending'
<1>0. pos \in 0..Len(rbout) /\ made \in Nat /\ pos \in Nat /\ rbout \in Seq(TokenType)
  <2>1. rbout \in Seq(TokenType) /\ made \in Nat /\ rbpos \in Nat /\ rbpos <= Len(rbout)
    BY Sizes
  <2>2. Len(rbout) \in Nat
    BY <2>1
  <2> QED
    <3> HIDE DEF TypeInv
    <3> QED BY <2>1, <2>2
<1>1. /\ \A i \in 1..pos : rbout'[i] = rbout[i]
      /\ \A i \in 1..n : rbout'[pos + i] = Token("data", made + i)
      /\ rbpos' = pos + n /\ made' = made + n
  BY <1>0, Copied
<1>2. Records(Owed)' /\ Unended'
  <2>1. Owed' = 0
    BY DEF Owed
  <2>2. Records(0)' /\ Unended'
    BY DEF Records, Inside, Unended
  <2> QED BY <2>1, <2>2 DEF Records
<1>3. ASSUME NEW k \in 1..made + n PROVE OnWire(k)' \/ Waiting(k)'
  <2>1. CASE k <= made
    <3>1. k \in 1..made
      BY <1>0, <2>1
    <3>2. CASE OnWire(k)
      BY <3>2 DEF OnWire
    <3>3. ASSUME NEW j \in 1..pos, rbout[j] = Token("data", k) PROVE Waiting(k)'
      <4>1. j \in rbsend' + 1..rbpos' /\ rbout'[j] = Token("data", k)
        BY <1>0, <1>1, <3>3
      <4> QED BY <4>1 DEF Waiting
    <3> QED BY <3>1, <3>2, <3>3
  <2>2. CASE ~(k <= made)
    <3>1. k - made \in 1..n /\ k = made + (k - made)
      BY <1>0, <2>2
    <3>2. PICK i \in 1..n : k = made + i
      BY <3>1
    <3>3. pos + i \in rbsend' + 1..rbpos'
      BY <1>0, <1>1
    <3>4. rbout'[pos + i] = Token("data", k)
      BY <1>1, <3>2
    <3>5. \E j \in rbsend' + 1..rbpos' : rbout'[j] = Token("data", k)
      BY <3>3, <3>4
    <3> QED BY <3>5 DEF Waiting
  <2> QED BY <2>1, <2>2
<1>4. ASSUME NEW j \in 1..pos + n PROVE IsData(rbout'[j])
  <2>1. CASE j <= pos
    BY <1>0, <1>1, <2>1
  <2>2. CASE ~(j <= pos)
    <3>1. j - pos \in 1..n /\ j = pos + (j - pos)
      BY <1>0, <2>2
    <3>2. PICK k \in 1..n : j = pos + k
      BY <3>1
    <3> QED BY <1>1, <3>2, Fields DEF IsData
  <2> QED BY <2>1, <2>2
<1>5. \A j \in rbsend' + 1..rbpos' : IsData(rbout'[j])
  BY <1>0, <1>1, <1>4
<1> QED BY <1>1, <1>2, <1>3, <1>5 DEF Sending

(* So do the bytes of a page once they are counted.                         *)
LEMMA PageDelivers ==
    ASSUME TypeInv, OrderInv, Does("page"), ctl \in {"done", "page"}, setOutPos,
           UNCHANGED <<rbout, rbsend, stdout_count, wire>>, Sending, stdout_count = 0
    PROVE  Sending'
<1> DEFINE n == html - rbpos
<1>0. /\ rbpos \in Nat /\ made \in Nat /\ html \in Nat /\ rbpos <= html /\ n \in Nat
      /\ rbsend = 0 /\ rbsend' = 0 /\ rbpos' = rbpos + n /\ made' = made + n
  <2>1. rbpos \in Nat /\ made \in Nat /\ html \in Nat /\ rbpos <= html /\ rbsend = 0
    BY Sizes DEF TypeInv, PageInv
  <2>2. n \in Nat
    BY <2>1
  <2>3. rbsend' = rbsend /\ rbpos' = rbpos + n /\ made' = made + n
    BY <2>1 DEF setOutPos, Unreleased
  <2> QED BY <2>1, <2>2, <2>3
<1>1. \A k \in 1..n : rbout[rbpos + k] = Token("data", made + k)
  BY DEF OrderInv, PageOrder
<1> HIDE DEF n
<1>2. Records(Owed)' /\ Unended'
  <2>1. Owed' = Owed
    BY DEF Owed
  <2>2. Records(Owed)' /\ Unended'
    BY <2>1 DEF Sending, Records, Inside, Unended
  <2> QED BY <2>2
<1>3. ASSUME NEW k \in 1..made + n PROVE OnWire(k)' \/ Waiting(k)'
  <2>1. CASE k <= made
    <3>1. OnWire(k) \/ Waiting(k)
      BY <1>0, <2>1 DEF Sending
    <3>2. CASE OnWire(k)
      BY <3>2 DEF OnWire
    <3>3. ASSUME NEW j \in rbsend + 1..rbpos, rbout[j] = Token("data", k) PROVE Waiting(k)'
      <4>1. j \in rbsend' + 1..rbpos' /\ rbout'[j] = Token("data", k)
        BY <1>0, <3>3
      <4> QED BY <4>1 DEF Waiting
    <3> QED BY <3>1, <3>2, <3>3 DEF Waiting
  <2>2. CASE ~(k <= made)
    <3>1. k - made \in 1..n /\ k = made + (k - made)
      BY <1>0, <2>2
    <3>2. PICK i \in 1..n : k = made + i
      BY <3>1
    <3>3. rbpos + i \in rbsend' + 1..rbpos'
      BY <1>0
    <3>4. rbout'[rbpos + i] = Token("data", k)
      BY <1>1, <3>2
    <3>5. \E j \in rbsend' + 1..rbpos' : rbout'[j] = Token("data", k)
      BY <3>3, <3>4
    <3> QED BY <3>5 DEF Waiting
  <2> QED BY <2>1, <2>2
<1>4. ASSUME NEW j \in 1..rbpos + n PROVE IsData(rbout[j])
  <2>1. CASE j <= rbpos
    BY <1>0, <2>1 DEF Sending
  <2>2. CASE ~(j <= rbpos)
    <3>1. j - rbpos \in 1..n /\ j = rbpos + (j - rbpos)
      BY <1>0, <2>2
    <3>2. PICK k \in 1..n : j = rbpos + k
      BY <3>1
    <3> QED BY <1>1, <3>2, Fields DEF IsData
  <2> QED BY <2>1, <2>2
<1>5. \A j \in rbsend' + 1..rbpos' : IsData(rbout'[j])
  BY <1>0, <1>4
<1> QED BY <1>0, <1>2, <1>3, <1>5 DEF Sending

-----------------------------------------------------------------------------
(* What send() does to a response on its way *)

(* Each waiting byte is among the n that are to go out; those that are not  *)
(* among the bw that did go out wait on.                                    *)
Carried(mem, from, n, bw) ==
    /\ \A j \in rbsend + 1..rbpos :
         \E m \in 1..n : mem[from + m] = rbout[j] /\ (m <= bw \/ from + m \in from + bw + 1..rbpos)
    /\ \A j \in from + bw + 1..rbpos : IsData(mem[j])
    /\ n - bw = (IF rbpos > from + bw THEN rbpos - (from + bw) ELSE 0)

(* A ::write of data: what it took is on the wire, the rest is owed.        *)
LEMMA DataSends ==
    ASSUME TypeInv, NEW mem \in Seq(TokenType), NEW from \in Nat, NEW n \in Nat,
           NEW head \in Seq(TokenType), NEW bw \in Nat, WentOut(mem, from, n, head, bw), Sending,
           Records(n - bw)', \A k \in 1..Len(head) : head[k].t # "end",
           Bodies(mem, from, bw), Carried(mem, from, n, bw),
           rbout' = mem, rbpos' = rbpos, made' = made, stdout_count' = 1
    PROVE  Sending'
<1>0. wire \in Seq(TokenType) /\ Len(wire) \in Nat
  BY Sizes
<1>1. rbsend' = from + bw
  BY DEF WentOut
<1>2. Records(Owed)'
  <2>1. Owed' = n - bw
    BY <1>1 DEF Owed, SendSize, Carried
  <2> QED BY <2>1 DEF Records
<1>3. Unended'
  <2> SUFFICES ASSUME NEW i \in 1..Len(wire') PROVE wire'[i].t # "end"
    BY DEF Unended
  <2>1. Sources(mem, from, head, bw)
    BY <1>0, Placed
  <2>2. CASE i \in 1..Len(wire) /\ wire'[i] = wire[i]
    BY <2>2 DEF Sending, Unended
  <2>3. ASSUME NEW k \in 1..Len(head), wire'[i] = head[k] PROVE wire'[i].t # "end"
    BY <2>3
  <2>4. ASSUME NEW k \in 1..bw, wire'[i] = mem[from + k] PROVE wire'[i].t # "end"
    BY <2>4, Kinds DEF Bodies
  <2> QED BY <2>1, <2>2, <2>3, <2>4 DEF Sources
<1>4. ASSUME NEW k \in 1..made PROVE OnWire(k)' \/ Waiting(k)'
  <2>1. CASE OnWire(k)
    BY <1>0, <2>1, StaysOnWire
  <2>2. CASE Waiting(k)
    <3>1. PICK j \in rbsend + 1..rbpos : rbout[j] = Token("data", k)
      BY <2>2 DEF Waiting
    <3>2. PICK m \in 1..n : /\ mem[from + m] = rbout[j]
                            /\ m <= bw \/ from + m \in from + bw + 1..rbpos
      BY <3>1 DEF Carried
    <3>3. CASE m <= bw
      <4>1. m \in 1..bw /\ mem[from + m] = Token("data", k)
        BY <1>0, <3>1, <3>2, <3>3
      <4> QED BY <1>0, <4>1, StaysOnWire
    <3>4. CASE from + m \in from + bw + 1..rbpos
      <4>1. from + m \in rbsend' + 1..rbpos' /\ rbout'[from + m] = Token("data", k)
        BY <1>1, <3>1, <3>2, <3>4
      <4>2. \E i \in rbsend' + 1..rbpos' : rbout'[i] = Token("data", k)
        BY <4>1
      <4> QED BY <4>2 DEF Waiting
    <3> QED BY <3>2, <3>3, <3>4
  <2> QED BY <2>1, <2>2 DEF Sending
<1>5. \A j \in rbsend' + 1..rbpos' : IsData(rbout'[j])
  BY <1>1 DEF Carried
<1> QED BY <1>2, <1>3, <1>4, <1>5 DEF Sending

(* The next parts of a record.                                              *)
LEMMA MoreSends ==
    ASSUME TypeInv, Sending, SendMore, made' = made
    PROVE  /\ Sending' /\ stdout_count' = 1 /\ state' = state /\ rbpos' = rbpos
           /\ inflight <= Len(wire) => inflight' <= Len(wire')
<1>0. rbpos \in Nat /\ rbsend \in Nat /\ rbout \in Seq(TokenType) /\ rbpos <= Len(rbout)
      /\ wire \in Seq(TokenType) /\ Len(wire) \in Nat /\ inflight \in Nat /\ SockBuf \in Nat
      /\ inflight \in 0..SockBuf
  BY Sizes
<1>a. rbsend < rbpos /\ stdout_count > 0
      /\ SendData(rbout, rbpos, rbsend, SendSize, <<>>, state, app_status)
  BY <1>0 DEF SendMore, SendSize
<1>b. rbpos - rbsend \in Nat
  BY <1>0, <1>a
<1>c. PICK n \in Nat, from \in Nat : n = rbpos - rbsend /\ from = rbsend
  BY <1>0, <1>b
<1>1. SendSize = n
  BY <1>0, <1>a, <1>c DEF SendSize
<1>2. from + n <= Len(rbout) /\ from + n = rbpos
  BY <1>0, <1>c
<1>3. <<>> \in Seq(TokenType) /\ Len(<<>>) = 0 /\ Len(<<>>) <= SockBuf - inflight
  BY <1>0
<1>d. SendData(rbout, rbpos, from, n, <<>>, state, app_status)
  BY <1>a, <1>c, <1>1
<1>4. PICK bw \in 0..n : WentOut(rbout, from, n, <<>>, bw)
  BY <1>0, <1>d, <1>2, <1>3, Transmitted
<1>5. /\ rbout' = rbout /\ rbpos' = rbpos /\ stdout_count' = 1 /\ state' = state
  BY <1>a DEF SendData, Counted
<1>6. bw \in Nat /\ bw <= n
  OBVIOUS
<1>7. \A k \in 1..bw : from + k \in rbsend + 1..rbpos
  BY <1>0, <1>2, <1>6, <1>c
<1>8. Bodies(rbout, from, bw)
  BY <1>7, Kinds DEF Sending, Bodies
<1>9. Records(n)
  <2>1. Owed = n
    BY <1>1, <1>a DEF Owed
  <2> QED BY <2>1 DEF Sending
<1>10. Records(n - bw)'
  <2>1. PICK mem : mem = rbout
    OBVIOUS
  <2>2. WentOut(mem, from, n, <<>>, bw) /\ Bodies(mem, from, bw)
    BY <1>4, <1>8, <2>1
  <2> QED BY <1>0, <1>6, <1>9, <2>2, SendsRest
<1>11. ASSUME NEW j \in rbsend + 1..rbpos
       PROVE  \E m \in 1..n : /\ rbout[from + m] = rbout[j]
                              /\ m <= bw \/ from + m \in from + bw + 1..rbpos
  <2>1. j - from \in 1..n /\ j = from + (j - from)
    BY <1>0, <1>c
  <2>2. PICK m \in 1..n : j = from + m
    BY <2>1
  <2>3. m <= bw \/ from + m \in from + bw + 1..rbpos
    BY <1>0, <1>2, <1>6, <2>2
  <2> QED BY <2>2, <2>3
<1>12. ASSUME NEW j \in from + bw + 1..rbpos PROVE IsData(rbout[j])
  <2>1. j \in rbsend + 1..rbpos
    BY <1>0, <1>6, <1>c
  <2> QED BY <2>1 DEF Sending
<1>13. n - bw = (IF rbpos > from + bw THEN rbpos - (from + bw) ELSE 0)
  BY <1>0, <1>2, <1>6
<1>e. Carried(rbout, from, n, bw)
  BY <1>11, <1>12, <1>13 DEF Carried
<1>14. inflight' = inflight + 0 + bw /\ Len(wire') = Len(wire) + 0 + bw
  BY <1>3, <1>4 DEF WentOut
<1>15. \A k \in 1..Len(<<>>) : <<>>[k].t # "end"
  BY <1>3
<1>16. Sending'
  <2>1. PICK mem \in Seq(TokenType) : mem = rbout
    BY <1>0
  <2>2. WentOut(mem, from, n, <<>>, bw) /\ Bodies(mem, from, bw) /\ Carried(mem, from, n, bw)
        /\ rbout' = mem
    BY <1>4, <1>5, <1>8, <1>e, <2>1
  <2> QED BY <1>3, <1>5, <1>6, <1>10, <1>15, <2>2, DataSends
<1> QED BY <1>0, <1>5, <1>6, <1>14, <1>16

(* What the first transmission sends: the data, behind a status if any.     *)
FirstPart(fits, mem, n) ==
    /\ \A k \in 1..n : IsBody(mem[k])
    /\ \A j \in 1..rbpos : \E m \in 1..n : mem[m] = rbout[j] /\ (~fits => m = j)
    /\ n = (IF fits THEN StatLen + rbpos ELSE rbpos) /\ n <= Len(mem)
    /\ ~fits => mem = rbout
    /\ \/ inflight < SockBuf /\ SendData(mem, rbpos, rbsend, n, <<Token("head", n)>>, state, 0)
       \/ /\ inflight = SockBuf
          /\ rbout' = mem /\ UNCHANGED <<state, rbpos, rbsend, stdout_count, wire, inflight>>

LEMMA FirstPrepared ==
    ASSUME TypeInv, StatusInv, Sending, SendFirst
    PROVE  \E fits \in BOOLEAN, mem \in Seq(TokenType), n \in Nat :
               FirstPart(fits, mem, n) /\ (fits => Does("status"))
<1>0. rbpos \in Nat /\ rbsend = 0 /\ rbout \in Seq(TokenType) /\ rbpos <= Len(rbout)
      /\ StatLen \in Nat /\ app_status \in Nat /\ peerOpen
  BY Sizes DEF SendFirst
<1>1. SendSize = rbpos /\ rbpos > 0
  BY <1>0 DEF SendFirst, SendSize
<1>d. \A j \in 1..rbpos : IsData(rbout[j])
  BY <1>0 DEF Sending
<1>2. CASE ~(app_status > 0 /\ rbpos + StatLen < REQ_MAX_OUT)
  <2>1. SizeWith(app_status > 0 /\ rbpos + StatLen < REQ_MAX_OUT) = rbpos
    BY <1>0, <1>1, <1>2 DEF SizeWith
  <2>2. \/ inflight < SockBuf /\ SendData(rbout, rbpos, rbsend, rbpos, <<Token("head", rbpos)>>, state, 0)
        \/ /\ inflight = SockBuf
           /\ rbout' = rbout /\ UNCHANGED <<state, rbpos, rbsend, stdout_count, wire, inflight>>
    BY <1>2, <2>1 DEF SendFirst, sockVars
  <2>3. \A k \in 1..rbpos : IsBody(rbout[k])
    BY <1>d, Kinds
  <2>4. FirstPart(FALSE, rbout, rbpos)
    BY <1>0, <2>2, <2>3 DEF FirstPart
  <2> QED BY <1>0, <2>4
<1>3. CASE app_status > 0 /\ rbpos + StatLen < REQ_MAX_OUT
  <2>1. SizeWith(app_status > 0 /\ rbpos + StatLen < REQ_MAX_OUT) = StatLen + rbpos
    BY <1>0, <1>1, <1>3 DEF SizeWith
  <2>2. \/ inflight < SockBuf /\ SendData(WithStatus, rbpos, rbsend, StatLen + rbpos, <<Token("head", StatLen + rbpos)>>, state, 0)
        \/ /\ inflight = SockBuf
           /\ rbout' = WithStatus /\ UNCHANGED <<state, rbpos, rbsend, stdout_count, wire, inflight>>
    BY <1>3, <2>1 DEF SendFirst, sockVars
  <2>3. /\ WithStatus \in Seq(TokenType) /\ Len(WithStatus) = StatLen + rbpos
        /\ \A i \in 1..StatLen : WithStatus[i] = Token("stat", app_status)
        /\ \A i \in 1..rbpos : WithStatus[StatLen + i] = rbout[i]
    BY WithStatusType
  <2>4. ASSUME NEW k \in 1..StatLen + rbpos PROVE IsBody(WithStatus[k])
    <3>1. CASE k <= StatLen
      <4>1. WithStatus[k].t = "stat"
        BY <1>0, <2>3, <3>1, Fields
      <4> QED BY <4>1 DEF IsBody
    <3>2. CASE ~(k <= StatLen)
      <4>1. k - StatLen \in 1..rbpos /\ k = StatLen + (k - StatLen)
        BY <1>0, <3>2
      <4>2. PICK i \in 1..rbpos : k = StatLen + i
        BY <4>1
      <4> QED BY <1>d, <2>3, <4>2, Kinds
    <3> QED BY <3>1, <3>2
  <2>5. ASSUME NEW j \in 1..rbpos PROVE \E m \in 1..StatLen + rbpos : WithStatus[m] = rbout[j]
    <3>1. StatLen + j \in 1..StatLen + rbpos
      BY <1>0
    <3> QED BY <2>3, <3>1
  <2>6. StatLen + rbpos \in Nat /\ StatLen + rbpos <= Len(WithStatus)
    BY <1>0, <2>3
  <2>7. FirstPart(TRUE, WithStatus, StatLen + rbpos)
    BY <2>2, <2>4, <2>5, <2>6 DEF FirstPart
  <2>8. Does("status")
    BY <1>0, <1>3 DEF StatusInv, PlainInv
  <2> QED BY <2>3, <2>6, <2>7, <2>8
<1> QED BY <1>2, <1>3

(* The first transmission, which a roomy socket takes at once.              *)
LEMMA FirstTaken ==
    ASSUME TypeInv, Sending, stdout_count = 0, rbpos > 0, made' = made,
           NEW fits \in BOOLEAN, NEW mem \in Seq(TokenType), NEW n \in Nat,
           FirstPart(fits, mem, n),
           Roomy(setup) => inflight + 1 + n <= SockBuf, fits => Roomy(setup)
    PROVE  \/ UNCHANGED <<stdout_count, wire, inflight, rbout, rbpos, rbsend, state>> /\ ~Roomy(setup)
           \/ /\ Sending' /\ state' = state /\ rbpos' = rbpos /\ stdout_count' = 1
              /\ inflight' + Len(wire) = inflight + Len(wire') /\ inflight' \in Nat
              /\ Roomy(setup) => SendSize' = 0 /\ Len(wire') = Len(wire) + 1 + n
<1>0. rbpos \in Nat /\ rbsend = 0 /\ rbout \in Seq(TokenType) /\ rbpos <= Len(rbout)
      /\ wire \in Seq(TokenType) /\ Len(wire) \in Nat /\ inflight \in Nat /\ SockBuf \in Nat
      /\ inflight <= SockBuf /\ StatLen \in Nat
  BY Sizes
<1>1. PICK head : head = <<Token("head", n)>>
  OBVIOUS
<1>2. /\ n = (IF fits THEN StatLen + rbpos ELSE rbpos) /\ n <= Len(mem) /\ rbpos <= n
      /\ \A k \in 1..n : IsBody(mem[k])
      /\ \A j \in 1..rbpos : \E m \in 1..n : mem[m] = rbout[j] /\ (~fits => m = j)
      /\ ~fits => mem = rbout
  BY <1>0 DEF FirstPart
<1>3. CASE inflight < SockBuf /\ SendData(mem, rbpos, rbsend, n, <<Token("head", n)>>, state, 0)
  <2>0. Token("head", n) \in TokenType
    BY DEF Token, TokenType
  <2>1. head \in Seq(TokenType) /\ Len(head) = 1 /\ Len(head) <= SockBuf - inflight
        /\ head[1].t # "end"
    BY <1>0, <1>1, <1>3, <2>0, Fields
  <2>2. 0 \in Nat /\ 0 + n <= Len(mem)
    BY <1>2
  <2>s. SendData(mem, rbpos, 0, n, head, state, 0)
    BY <1>0, <1>1, <1>3
  <2>3. PICK b \in 0..n : WentOut(mem, 0, n, head, b)
    BY <1>0, <2>s, <2>1, <2>2, Transmitted
  <2>4. /\ rbout' = mem /\ rbpos' = rbpos /\ stdout_count' = 1 /\ state' = state
    BY <2>s DEF SendData, Counted
  <2>5. /\ rbsend' = 0 + b /\ b = AtMost(n, SockBuf - inflight - 1)
        /\ inflight' = inflight + 1 + b /\ Len(wire') = Len(wire) + 1 + b
    BY <2>1, <2>3 DEF WentOut
  <2>6. b \in Nat /\ b <= n
    OBVIOUS
  <2>7. Roomy(setup) => b = n
    BY <1>0, <2>5 DEF AtMost
  <2>8. Bodies(mem, 0, b)
    <3>1. \A k \in 1..b : k \in 1..n /\ 0 + k = k
      BY <2>6
    <3> QED BY <1>2, <3>1 DEF Bodies
  <2>9. Records(0)
    <3>1. Owed = 0
      BY DEF Owed
    <3> QED BY <3>1 DEF Sending
  <2>10. Records(n - b)'
    <3>1. WentOut(mem, 0, n, <<Token("head", n)>>, b)
      BY <1>1, <2>3
    <3> QED BY <1>0, <2>0, <2>2, <2>8, <2>9, <3>1, SendsHead
  <2>11. ASSUME NEW j \in rbsend + 1..rbpos
         PROVE  \E m \in 1..n : mem[0 + m] = rbout[j] /\ (m <= b \/ 0 + m \in 0 + b + 1..rbpos)
    <3>1. j \in 1..rbpos
      BY <1>0
    <3>2. PICK m \in 1..n : mem[m] = rbout[j] /\ (~fits => m = j)
      BY <1>2, <3>1
    <3>3. m <= b \/ 0 + m \in 0 + b + 1..rbpos
      <4>1. CASE fits
        BY <2>7, <4>1
      <4>2. CASE ~fits
        <5>1. m = j
          BY <3>2, <4>2
        <5> QED BY <1>0, <2>6, <3>1, <5>1
      <4> QED BY <4>1, <4>2
    <3>4. 0 + m = m
      OBVIOUS
    <3> QED BY <3>2, <3>3, <3>4
  <2>12. ASSUME NEW j \in 0 + b + 1..rbpos PROVE IsData(mem[j])
    <3>1. CASE fits
      BY <1>0, <1>2, <2>7, <3>1
    <3>2. CASE ~fits
      <4>1. j \in rbsend + 1..rbpos
        BY <1>0, <2>6
      <4>2. IsData(rbout[j])
        BY <4>1 DEF Sending
      <4> QED BY <1>2, <3>2, <4>2
    <3> QED BY <3>1, <3>2
  <2>13. n - b = (IF rbpos > 0 + b THEN rbpos - (0 + b) ELSE 0)
    <3>1. CASE fits
      BY <1>0, <1>2, <2>7, <3>1
    <3>2. CASE ~fits
      <4>1. n = rbpos
        BY <1>2, <3>2
      <4> QED BY <1>0, <2>6, <4>1
    <3> QED BY <3>1, <3>2
  <2>c. Carried(mem, 0, n, b)
    BY <2>11, <2>12, <2>13 DEF Carried
  <2>14. \A k \in 1..Len(head) : head[k].t # "end"
    BY <2>1
  <2>15. Sending'
    BY <2>1, <2>2, <2>3, <2>4, <2>6, <2>8, <2>10, <2>c, <2>14, DataSends
  <2>16. ASSUME Roomy(setup) PROVE SendSize' = 0
    <3>1. rbsend' = n /\ rbpos' = rbpos
      BY <2>4, <2>5, <2>7, <2>16
    <3> QED BY <1>0, <1>2, <3>1 DEF SendSize
  <2>17. inflight' + Len(wire) = inflight + Len(wire') /\ inflight' \in Nat
    <3>1. inflight \in Nat /\ Len(wire) \in Nat /\ b \in Nat
      BY <1>0, <2>6
    <3>2. inflight' = inflight + 1 + b /\ Len(wire') = Len(wire) + 1 + b
      BY <2>5
    <3> QED BY <3>1, <3>2
  <2> QED BY <2>4, <2>5, <2>7, <2>15, <2>16, <2>17
<1>4. CASE /\ inflight = SockBuf
           /\ rbout' = mem /\ UNCHANGED <<state, rbpos, rbsend, stdout_count, wire, inflight>>
  <2>1. ~Roomy(setup)
    BY <1>0, <1>4
  <2>2. rbout' = rbout
    BY <1>2, <1>4, <2>1
  <2> QED BY <1>4, <2>1, <2>2
<1> QED BY <1>3, <1>4 DEF FirstPart

LEMMA FirstSends ==
    ASSUME Deliverable, TypeInv, StatusInv, Budget, Sending, SendFirst,
           UNCHANGED <<made, setup>>, rbpos <= made,
           Roomy(setup) => Len(wire) <= 2 * (made - rbpos) /\ inflight <= Len(wire)
    PROVE  /\ Sending' /\ state' = state /\ rbpos' = rbpos
           /\ stdout_count' = 1 \/ UNCHANGED <<stdout_count, wire, inflight>>
           /\ Roomy(setup) => /\ stdout_count' = 1 /\ SendSize' = 0 /\ inflight' <= Len(wire')
                              /\ ~Does("status") => Len(wire') <= 2 * made
<1>0. rbpos \in Nat /\ rbsend = 0 /\ rbout \in Seq(TokenType) /\ rbpos <= Len(rbout)
      /\ wire \in Seq(TokenType) /\ Len(wire) \in Nat /\ inflight \in Nat /\ SockBuf \in Nat
      /\ inflight <= SockBuf /\ made \in Nat /\ StatLen \in Nat
      /\ stdout_count = 0 /\ setup.bytes \in Nat /\ SockBuf = setup.sock /\ made <= setup.bytes
      /\ setup \in Setups
  BY Sizes DEF SendFirst, Budget
<1>1. rbpos > 0
  BY <1>0 DEF SendFirst, SendSize
<1>2. PICK fits \in BOOLEAN, mem \in Seq(TokenType), n \in Nat :
          FirstPart(fits, mem, n) /\ (fits => Does("status"))
  BY FirstPrepared
<1>3. Does("status") => Roomy(setup)
  <2>1. Does("status") => ~Small(setup)
    BY DEF Small, Does
  <2> QED BY <1>0, <2>1 DEF Deliverable
<1>4. n = (IF fits THEN StatLen + rbpos ELSE rbpos)
  BY <1>2 DEF FirstPart
<1>5. ASSUME Roomy(setup) PROVE inflight + 1 + n <= SockBuf
  <2>1. n <= StatLen + rbpos
    BY <1>0, <1>4
  <2>2. SockBuf >= 2 * setup.bytes + StatLen
    BY <1>0, <1>5 DEF Roomy
  <2>3. inflight <= 2 * (made - rbpos)
    BY <1>0, <1>5
  <2>4. \A i, m, q, t, w, x, y \in Nat :
            /\ q > 0 /\ q <= m /\ m <= w /\ i <= 2 * (m - q) /\ x <= t + q /\ y >= 2 * w + t
            => i + 1 + x <= y
    OBVIOUS
  <2> QED BY <1>0, <1>1, <2>1, <2>2, <2>3, <2>4
<1>6. \/ UNCHANGED <<stdout_count, wire, inflight, rbout, rbpos, rbsend, state>> /\ ~Roomy(setup)
      \/ /\ Sending' /\ state' = state /\ rbpos' = rbpos /\ stdout_count' = 1
         /\ inflight' + Len(wire) = inflight + Len(wire') /\ inflight' \in Nat
         /\ Roomy(setup) => SendSize' = 0 /\ Len(wire') = Len(wire) + 1 + n
  BY <1>0, <1>1, <1>2, <1>3, <1>5, FirstTaken
<1>7. CASE UNCHANGED <<stdout_count, wire, inflight, rbout, rbpos, rbsend, state>> /\ ~Roomy(setup)
  <2>1. Sending'
    BY <1>7, StillSending
  <2> QED BY <1>7, <2>1
<1>8. CASE /\ Sending' /\ state' = state /\ rbpos' = rbpos /\ stdout_count' = 1
           /\ inflight' + Len(wire) = inflight + Len(wire') /\ inflight' \in Nat
           /\ Roomy(setup) => SendSize' = 0 /\ Len(wire') = Len(wire) + 1 + n
  <2>1. ASSUME Roomy(setup) PROVE inflight' <= Len(wire')
    <3>1. Len(wire') \in Nat /\ Len(wire') = Len(wire) + 1 + n /\ inflight <= Len(wire)
      BY <1>0, <1>8, <2>1
    <3>2. inflight' + Len(wire) = inflight + Len(wire') /\ inflight' \in Int
      BY <1>8
    <3> QED BY <1>0, <3>1, <3>2
  <2>2. ASSUME Roomy(setup), ~Does("status") PROVE Len(wire') <= 2 * made
    <3>1. n = rbpos
      BY <1>2, <1>4, <2>2
    <3>2. Len(wire') = Len(wire) + 1 + n /\ Len(wire) <= 2 * (made - rbpos)
      BY <1>8, <2>2
    <3> QED BY <1>0, <1>1, <3>1, <3>2
  <2> QED BY <1>8, <2>1, <2>2
<1> QED BY <1>6, <1>7, <1>8

(* The closing records follow a response that is sent.                      *)
LEMMA EndSends ==
    ASSUME TypeInv, Sending, SendEnd, made' = made
    PROVE  Closing' /\ state' = "END" /\ (inflight <= Len(wire) => inflight' <= Len(wire'))
<1>0. rbpos \in Nat /\ rbsend \in Nat /\ wire \in Seq(TokenType) /\ Len(wire) \in Nat
      /\ inflight \in Nat /\ SockBuf \in Nat /\ inflight <= SockBuf /\ app_status \in Nat
  BY Sizes
<1>1. SendSize = 0 /\ rbpos <= rbsend
  BY <1>0 DEF SendEnd, SendSize
<1>2. Records(0)
  <2>1. Owed = 0
    BY <1>1 DEF Owed
  <2> QED BY <2>1 DEF Sending
<1>3. ASSUME NEW k \in 1..made PROVE OnWire(k)
  <2>1. ~Waiting(k)
    BY <1>0, <1>1 DEF Waiting
  <2> QED BY <2>1 DEF Sending
<1>4. PICK mem \in Seq(TokenType) : /\ mem = EndBlock(app_status) /\ Len(mem) = 2
                                    /\ mem[1] = Token("empty", 0) /\ mem[2] = Token("end", app_status)
  BY <1>0, EndBlockType
<1>5. mem[1].t = "empty" /\ mem[2].t = "end"
  BY <1>4, Fields
<1>6. <<>> \in Seq(TokenType) /\ Len(<<>>) = 0 /\ Len(<<>>) <= SockBuf - inflight
  BY <1>0
<1>7. SendData(mem, 2, 0, 2, <<>>, "END", app_status)
  BY <1>4 DEF SendEnd
<1>8. PICK bw \in 0..2 : WentOut(mem, 0, 2, <<>>, bw)
  <2>1. 0 \in Nat /\ 2 \in Nat /\ 0 + 2 <= Len(mem)
    BY <1>4
  <2> QED BY <1>6, <1>7, <2>1, Transmitted
<1>9. /\ rbout' = mem /\ rbpos' = 2 /\ stdout_count' = 1 /\ state' = "END" /\ rbsend' = 0 + bw
  BY <1>7, <1>8 DEF SendData, Counted, WentOut
<1>10. bw \in Nat /\ 0 \in 0..1 /\ 0 \in Nat /\ 0 + bw <= 2
  OBVIOUS
<1>11. /\ Records(0)' /\ \A i \in 1..Len(wire') : wire'[i].t = "end" => i = Len(wire')
       /\ IF 0 + bw < 2 THEN Unended' ELSE Over'
  <2>1. Unended
    BY DEF Sending
  <2> QED BY <1>0, <1>2, <1>5, <1>8, <1>10, <2>1, ClosingSent
<1>12. ASSUME NEW k \in 1..made PROVE OnWire(k)'
  BY <1>0, <1>3, <1>6, <1>8, <1>10, StaysOnWire
<1>13. inflight' = inflight + 0 + bw /\ Len(wire') = Len(wire) + 0 + bw
  BY <1>6, <1>8 DEF WentOut
<1>14. inflight <= Len(wire) => inflight' <= Len(wire')
  BY <1>0, <1>10, <1>13
<1>15. Closing'
  <2>1. /\ rbpos' = 2 /\ rbsend' <= 2 /\ stdout_count' = 1
        /\ rbout'[1].t = "empty" /\ rbout'[2].t = "end"
    BY <1>5, <1>9, <1>10
  <2>2. IF rbsend' < 2 THEN Unended' ELSE Over'
    BY <1>9, <1>11
  <2> QED BY <1>9, <1>11, <1>12, <2>1, <2>2 DEF Closing
<1> QED BY <1>9, <1>14, <1>15

LEMMA EndMore ==
    ASSUME TypeInv, Closing, state = "END", SendMore, made' = made
    PROVE  Closing' /\ state' = "END" /\ (inflight <= Len(wire) => inflight' <= Len(wire'))
<1>0. rbpos \in Nat /\ rbsend \in Nat /\ wire \in Seq(TokenType) /\ Len(wire) \in Nat
      /\ inflight \in Nat /\ SockBuf \in Nat /\ inflight <= SockBuf /\ rbout \in Seq(TokenType)
      /\ rbpos <= Len(rbout)
  BY Sizes
<1>1. rbsend < 2 /\ rbpos = 2 /\ SendSize = 2 - rbsend
  BY <1>0 DEF SendMore, SendSize, Closing
<1>2. PICK from \in 0..1, n \in Nat : from = rbsend /\ n = 2 - from
  BY <1>0, <1>1
<1>3. PICK mem \in Seq(TokenType) : mem = rbout
  BY <1>0
<1>4. from \in Nat /\ from + n <= Len(mem)
  BY <1>0, <1>1, <1>2, <1>3
<1>5. mem[1].t = "empty" /\ mem[2].t = "end"
  BY <1>3 DEF Closing
<1>6. <<>> \in Seq(TokenType) /\ Len(<<>>) = 0 /\ Len(<<>>) <= SockBuf - inflight
  BY <1>0
<1>7. SendData(mem, 2, from, n, <<>>, "END", app_status)
  BY <1>1, <1>2, <1>3 DEF SendMore
<1>8. PICK bw \in 0..n : WentOut(mem, from, n, <<>>, bw)
  BY <1>4, <1>6, <1>7, Transmitted
<1>9. /\ rbout' = mem /\ rbpos' = 2 /\ stdout_count' = 1 /\ state' = "END" /\ rbsend' = from + bw
  BY <1>7, <1>8 DEF SendData, Counted, WentOut
<1>10. bw \in Nat /\ from + bw <= 2
  BY <1>2
<1>11. /\ Records(0)' /\ \A i \in 1..Len(wire') : wire'[i].t = "end" => i = Len(wire')
       /\ IF from + bw < 2 THEN Unended' ELSE Over'
  <2>1. Unended /\ Records(0)
    BY <1>1 DEF Closing
  <2> QED BY <1>0, <1>5, <1>8, <1>10, <2>1, ClosingSent
<1>12. ASSUME NEW k \in 1..made PROVE OnWire(k)'
  <2>1. OnWire(k)
    BY DEF Closing
  <2> QED BY <1>0, <1>4, <1>6, <1>8, <1>10, <2>1, StaysOnWire
<1>13. inflight' = inflight + 0 + bw /\ Len(wire') = Len(wire) + 0 + bw
  BY <1>6, <1>8 DEF WentOut
<1>14. inflight <= Len(wire) => inflight' <= Len(wire')
  BY <1>0, <1>10, <1>13
<1>15. Closing'
  <2>1. /\ rbpos' = 2 /\ rbsend' <= 2 /\ stdout_count' = 1
        /\ rbout'[1].t = "empty" /\ rbout'[2].t = "end"
    BY <1>3, <1>5, <1>9, <1>10
  <2>2. IF rbsend' < 2 THEN Unended' ELSE Over'
    BY <1>9, <1>11
  <2> QED BY <1>9, <1>11, <1>12, <2>1, <2>2 DEF Closing
<1> QED BY <1>9, <1>14, <1>15

(* Either way the records are well formed.                                  *)
LEMMA WholeRecords == ASSUME TypeInv, Phase PROVE Framed
<1>0. wire \in Seq(TokenType) /\ DOMAIN wire = 1..Len(wire)
  BY Sizes
<1>1. \A j \in DOMAIN wire : IsBody(wire[j]) <=> \E i \in DOMAIN wire : Inside(i, j)
  BY <1>0 DEF Phase, Sending, Closing, Records
<1>2. \A i \in DOMAIN wire : wire[i].t = "end" => i = Len(wire)
  BY <1>0 DEF Phase, Sending, Closing, Unended
<1> QED BY <1>1, <1>2 DEF Framed

LEMMA NextBudget == ASSUME OnlyInDone, TypeInv, OutInv, Budget, [Next]_vars PROVE Budget'
<1>0. /\ made \in Nat /\ todo \in Nat /\ html \in Nat /\ rbpos \in Nat /\ setup.bytes \in Nat
      /\ \A n \in Lengths : n \in Nat
      /\ setup \in Setups
  BY Sizes
<1>k. setup' = setup /\ (Does("page")' <=> Does("page"))
  BY DEF Next, vars, Handler, Raw, Page, HReturn, Library, PeerReads, PeerCloses, Does
<1>p. ASSUME Producing PROVE ctl = "done" /\ made <= setup.bytes
  BY <1>0, <1>p DEF OnlyInDone, Producing, InHandler, Does, Budget
<1>q. ASSUME UNCHANGED <<made, todo, html, rbpos>>,
             ctl' = ctl \/ ctl' \notin {"flush", "file", "done", "page"}
      PROVE  Budget'
  BY <1>k, <1>q DEF Budget, InDone
<1>h. Does("page") => /\ ctl \in {"done", "page"} => rbpos <= html
                      /\ ctl \in {"flush", "file"} => html = 0
                      /\ called # "done" => rbpos = 0 /\ html = 0
  BY DEF TypeInv, PageInv
<1>n. \/ html = 0 /\ ~Does("page")
      \/ Does("page")
  BY DEF TypeInv
<1>1. CASE UNCHANGED vars
  BY <1>q, <1>1 DEF vars
<1>2. CASE PeerReads \/ PeerCloses
  BY <1>q, <1>2 DEF PeerReads, PeerCloses
<1>3. CASE Raw
  <2>0. ~Does("page") /\ ~Does("page")'
    BY <1>3, <1>k DEF Raw
  <2>1. ASSUME NEW n \in Lengths, HWrite(n) PROVE Budget'
    <3>1. made + n <= setup.bytes /\ n \in Nat /\ ctl = "done"
      BY <1>0, <1>p, <2>1 DEF HWrite
    <3>2. CASE FlushBegins(ctl, "copy", n) /\ UNCHANGED <<rbout, rbpos, made>>
      BY <1>0, <1>k, <2>0, <3>1, <3>2 DEF FlushBegins, Flushing, Budget
    <3>3. CASE Copy(rbpos, n) /\ UNCHANGED <<state, ctl, flushVars>>
      BY <1>0, <1>k, <2>0, <3>1, <3>3 DEF Copy, Budget
    <3> QED BY <2>1, <3>2, <3>3 DEF HWrite
  <2>2. ASSUME NEW n \in Lengths, HWriteIgnored(n) PROVE Budget'
    <3>1. made + n <= setup.bytes /\ n \in Nat /\ ctl = "done" /\ ctl' = ctl /\ made' = made + n
      BY <1>0, <1>p, <2>2 DEF HWriteIgnored
    <3> QED BY <1>0, <1>k, <2>0, <3>1 DEF Budget
  <2>3. ASSUME NEW n \in Lengths, HWriteFd(n) PROVE Budget'
    <3>1. made + n <= setup.bytes /\ made' = made /\ todo' = n /\ made <= setup.bytes
      BY <1>0, <1>p, <2>3 DEF HWriteFd
    <3> QED BY <1>0, <1>k, <2>0, <3>1 DEF Budget
  <2>4. CASE HFlush
    <3>1. made' = made /\ todo' = 0 /\ made <= setup.bytes
      BY <1>p, <2>4 DEF HFlush, FlushBegins, Flushing
    <3> QED BY <1>0, <1>k, <2>0, <3>1 DEF Budget
  <2> QED BY <1>3, <2>1, <2>2, <2>3, <2>4 DEF Raw
<1>b. ASSUME NEW ret, bufferFlush(ret), ret \in {"done"}, Does("page"), ctl \in {"done", "page"}
      PROVE  Budget'
  <2>1. rbpos' = html /\ made' = made + (html - rbpos) /\ html' = 0 /\ html - rbpos \in Nat
    BY <1>0, <1>b, <1>h DEF bufferFlush, setOutPos, Unreleased
  <2>2. made' <= setup.bytes /\ made' \in Nat
    BY <1>0, <1>b, <2>1 DEF Budget, InDone
  <2>3. made' + (html' - rbpos') <= setup.bytes
    BY <1>0, <2>1, <2>2
  <2>4. (ctl' = "flush" /\ todo' = 0) \/ ctl' = "done"
    BY <1>b DEF bufferFlush, Flushing
  <2>5. ctl' \in {"flush", "file"} => made' + todo' <= setup.bytes
    BY <1>0, <2>2, <2>4
  <2> QED BY <1>k, <2>2, <2>3, <2>5 DEF Budget
<1>4. CASE Page
  <2>1. ASSUME NEW n \in Lengths, HPage(n) PROVE Budget'
    <3>1. /\ made + (html - rbpos) + n <= setup.bytes /\ made' = made /\ html' = html + n
          /\ rbpos' = rbpos /\ ctl' = "page" /\ made <= setup.bytes /\ n \in Nat
      BY <1>0, <1>p, <2>1 DEF HPage, InPage, Unreleased
    <3>2. made' + (html' - rbpos') <= setup.bytes
      BY <1>0, <3>1
    <3> QED BY <1>k, <3>1, <3>2 DEF Budget
  <2>2. CASE HBufferFlush
    BY <1>b, <1>p, <2>2 DEF HBufferFlush, InPage
  <2>3. CASE HBufferRelease
    <3>1. ctl = "done" /\ Does("page") /\ ctl' = ctl
      BY <1>p, <2>3 DEF HBufferRelease, InPage
    <3>2. rbpos' = html /\ made' = made + (html - rbpos) /\ html' = html /\ html - rbpos \in Nat
      BY <1>0, <1>h, <2>3, <3>1 DEF HBufferRelease, setOutPos, Unreleased
    <3>3. made' <= setup.bytes /\ made' + (html' - rbpos') <= setup.bytes
      BY <1>0, <3>1, <3>2 DEF Budget, InDone
    <3> QED BY <1>k, <3>1, <3>3 DEF Budget
  <2>4. CASE HBufferClear
    <3>1. ctl = "done" /\ ctl' = ctl /\ rbpos = 0 /\ rbpos' = 0 /\ html' = 0 /\ made' = made
          /\ made <= setup.bytes
      BY <1>p, <2>4 DEF HBufferClear, InPage
    <3>2. made' + (html' - rbpos') <= setup.bytes
      BY <1>0, <3>1
    <3> QED BY <1>k, <3>1, <3>2 DEF Budget
  <2>5. ASSUME NEW n \in Lengths, toRequest(n), UNCHANGED html PROVE Budget'
    <3>1. /\ made + n <= setup.bytes /\ made' = made /\ todo' = n /\ made <= setup.bytes
          /\ html' = 0 /\ rbpos' = rbpos /\ ctl' = "file"
      BY <1>0, <1>p, <2>5 DEF HWriteFd, toRequest
    <3>2. made' + (html' - rbpos') <= setup.bytes
      BY <1>0, <3>1
    <3> QED BY <1>0, <1>k, <3>1, <3>2 DEF Budget
  <2> QED BY <1>4, <2>1, <2>2, <2>3, <2>4, <2>5 DEF Page
<1>5. CASE Handler
  <2>1. ASSUME NEW code \in Codes, HStatus(code) \/ HEnd(code), UNCHANGED <<html, setup>>
        PROVE  Budget'
    BY <1>q, <2>1 DEF HStatus, HEnd
  <2>2. CASE HReturn
    BY <1>q, <2>2 DEF HReturn
  <2> QED BY <1>3, <1>4, <1>5, <2>1, <2>2 DEF Handler
<1>6. CASE optionalFlush
  <2>1. caller = "done" /\ Does("page") /\ ctl = "page"
    BY <1>6 DEF optionalFlush, OutInv, TypeInv
  <2>2. CASE bufferFlush(caller)
    BY <1>b, <2>1, <2>2
  <2>3. CASE ctl' = caller /\ UNCHANGED <<reqVars, sockVars, callVars, flushVars, html, peerOpen>>
    BY <1>0, <1>k, <2>1, <2>3 DEF Budget, InDone
  <2> QED BY <1>6, <2>2, <2>3 DEF optionalFlush
<1>7. CASE FlushRound
  BY <1>k, <1>7 DEF FlushRound, Budget, InDone
<1>8. CASE FlushReturns /\ UNCHANGED html
  <2>1. ctl = "flush" /\ caller = "done" /\ ctl' \in {"file", "done"}
        /\ made + todo <= setup.bytes
    BY <1>8 DEF FlushReturns, OutInv, Budget
  <2>2. /\ made' + todo' <= setup.bytes /\ made' \in Nat /\ todo' \in Nat
        /\ Does("page") => made' = made /\ rbpos' = 0 /\ html' = 0
    <3>1. CASE after = "copy"
      <4>1. ~Does("page") /\ made' = made + todo /\ todo' = 0
        BY <1>8, <2>1, <3>1 DEF FlushReturns, Copy, TypeInv, PageInv
      <4> QED BY <1>0, <2>1, <4>1
    <3>2. CASE ~(after = "copy")
      BY <1>0, <1>8, <1>h, <2>1, <3>2 DEF FlushReturns
    <3> QED BY <3>1, <3>2
  <2>3. made' <= setup.bytes
    BY <1>0, <2>2
  <2>4. Does("page") => made' + (html' - rbpos') <= setup.bytes
    BY <1>0, <2>2, <2>3
  <2> QED BY <1>k, <2>2, <2>3, <2>4 DEF Budget
<1>9. CASE FileFlush
  BY <1>k, <1>9 DEF FileFlush, FlushBegins, Flushing, Budget, InDone
<1>10. CASE FileRead /\ UNCHANGED html
  <2>1. PICK max \in Nat : /\ rbpos' = rbpos + br(max) /\ made' = made + br(max)
                           /\ todo' = todo - br(max)
    <3>1. CASE rbpos < REQ_MAX_OUT
      <4>1. REQ_MAX_OUT - rbpos \in Nat
        BY <1>0, <3>1, Sizes
      <4> QED BY <1>10, <3>1, <4>1 DEF FileRead, Copy
    <3>2. CASE ~(rbpos < REQ_MAX_OUT)
      BY <1>10, <3>2, Sizes DEF FileRead, Copy
    <3> QED BY <3>1, <3>2
  <2>2. br(max) \in Nat /\ br(max) <= todo
    BY <1>0 DEF br, AtMost
  <2>3. made + todo <= setup.bytes /\ ctl' = "file" /\ html' = html
    BY <1>10 DEF FileRead, Budget
  <2>4. made' + todo' <= setup.bytes /\ made' <= setup.bytes
    BY <1>0, <2>1, <2>2, <2>3
  <2>5. Does("page") => made' + (html' - rbpos') <= setup.bytes
    <3>1. Does("page") => html' = 0
      BY <1>h, <1>10, <2>3 DEF FileRead
    <3> QED BY <1>0, <2>1, <2>2, <2>3, <2>4, <3>1
  <2> QED BY <1>k, <2>4, <2>5 DEF Budget
<1>11. CASE FileDone /\ UNCHANGED html
  <2>1. made <= setup.bytes /\ ctl = "file" /\ made' = made /\ rbpos' = rbpos /\ html' = html
        /\ caller = "done"
    BY <1>11 DEF FileDone, Budget, OutInv
  <2>2. (ctl' = "flush" /\ todo' = 0) \/ ctl' = "done"
    BY <1>11, <2>1 DEF FileDone, FlushBegins, Flushing
  <2>3. ctl' \in {"flush", "file"} => made' + todo' <= setup.bytes
    BY <1>0, <2>1, <2>2
  <2>4. Does("page") => made' + (html' - rbpos') <= setup.bytes
    BY <2>1 DEF Budget, InDone
  <2> QED BY <1>k, <2>1, <2>3, <2>4 DEF Budget
<1>12. CASE FileFails /\ UNCHANGED html
  <2>1. made <= setup.bytes /\ ctl = "file" /\ made' = made /\ rbpos' = 0 /\ html' = html
        /\ ctl' = "done" /\ (Does("page") => html = 0)
    BY <1>12, <1>h DEF FileFails, clearRbOut, Budget, OutInv
  <2>2. Does("page") => made' + (html' - rbpos') <= setup.bytes
    BY <1>0, <2>1
  <2> QED BY <1>k, <2>1, <2>2 DEF Budget
<1>13. CASE Poll \/ Write \/ Free
  BY <1>k, <1>13 DEF Poll, Write, Free, Budget, InDone
<1>14. CASE Work /\ UNCHANGED html
  <2>1. made' = made /\ todo' = todo /\ rbpos' = rbpos /\ html' = html
        /\ ((ctl' = "done" /\ called = "exec") \/ ctl' \in {"write", "exec"})
    BY <1>14 DEF Work
  <2>2. made <= setup.bytes
    BY DEF Budget
  <2>3. (Does("page") /\ ctl' = "done") => made' + (html' - rbpos') <= setup.bytes
    BY <1>0, <1>h, <2>1, <2>2
  <2> QED BY <1>k, <2>1, <2>2, <2>3 DEF Budget, InDone
<1>15. CASE Library
  BY <1>15, <1>6, <1>7, <1>8, <1>9, <1>10, <1>11, <1>12, <1>13, <1>14 DEF Library
<1> QED BY <1>1, <1>2, <1>5, <1>15 DEF Next

-----------------------------------------------------------------------------
(* Every step of the request and the web server *)

Known == TypeInv /\ OutInv /\ OrderInv /\ StatusInv /\ SendingIsPolled /\ Budget

(* What done() finds: nothing was sent since the last flush(), and that     *)
(* flush() sent it all.                                                     *)
Bounds ==
    /\ stdout_count = 0 /\ rbpos <= made
    /\ Roomy(setup) => Len(wire) <= 2 * (made - rbpos) /\ inflight <= Len(wire)
Buffered ==
    /\ Records(0) /\ Unended
    /\ \A k \in 1..made : OnWire(k) \/ \E j \in 1..rbpos : rbout[j] = Token("data", k)
    /\ \A j \in 1..rbpos : IsData(rbout[j])

LEMMA InDoneState ==
    ASSUME Known, Control, Phase, InDone
    PROVE  state = "OPEN" /\ Sending /\ rbsend = 0 /\ Bounds /\ Buffered
<1>1. state = "OPEN" /\ stdout_count = 0 /\ Open
  BY DEF Control, Open
<1>2. rbsend = 0 /\ rbpos \in Nat
  BY <1>1, Sizes DEF Known
<1>3. Sending /\ Bounds
  BY <1>1 DEF Phase, Control, Bounds
<1>4. Owed = 0
  BY <1>1 DEF Owed
<1>5. rbsend + 1..rbpos = 1..rbpos
  BY <1>2
<1>6. \A k : Waiting(k) => \E j \in 1..rbpos : rbout[j] = Token("data", k)
  BY <1>5 DEF Waiting
<1>7. Buffered
  BY <1>3, <1>4, <1>5, <1>6 DEF Sending, Buffered
<1> QED BY <1>1, <1>2, <1>3, <1>7

(* The two ways on from there.                                              *)
LEMMA FlushStarts ==
    ASSUME NEW ret, NEW next, NEW n, Flushing(ret, next, n), Bounds', Roomy(setup)', (SendSize > 0)'
    PROVE  Control'
BY DEF Flushing, Polled, Bounds, Control, InDone, FlushInv

LEMMA DoneContinues ==
    ASSUME Bounds', state' = "OPEN", ctl' \in {"done", "page", "file"},
           ctl' # "done" => Roomy(setup)'
    PROVE  Control'
BY DEF Bounds, Control, InDone

LEMMA StillPhase ==
    ASSUME Phase, UNCHANGED <<rbout, rbpos, rbsend, stdout_count, wire, made>>,
           state' = state \/ (Open /\ Open')
    PROVE  Phase'
<1>1. CASE Open
  <2>1. Open' /\ Sending
    BY <1>1 DEF Open, Phase
  <2> QED BY <2>1, StillSending DEF Phase
<1>2. CASE ~Open
  <2>1. state' = state /\ ~Open' /\ Closing
    BY <1>2 DEF Open, Phase
  <2> QED BY <2>1, StillClosing DEF Phase
<1> QED BY <1>1, <1>2

LEMMA StillBounds ==
    ASSUME Bounds, UNCHANGED <<rbpos, made, stdout_count, wire, setup>>,
           inflight' = inflight
    PROVE  Bounds'
BY DEF Bounds, Roomy

(* The handler's calls.                                                     *)
LEMMA WriteDelivers ==
    ASSUME Deliverable, Known, Control, Phase, NEW n \in Lengths, HWrite(n), UNCHANGED setup
    PROVE  Control' /\ Phase'
<1>0. /\ rbpos \in Nat /\ made \in Nat /\ n \in Nat /\ REQ_MAX_OUT \in Nat /\ Len(wire) \in Nat
      /\ setup.bytes \in Nat /\ setup \in Setups /\ TypeInv /\ rbpos \in 0..rbpos
  BY Sizes DEF Known
<1>1. ctl = "done" /\ InDone
  BY <1>0 DEF HWrite, Producing, InHandler, Does, Deliverable, OnlyInDone, InDone
<1>2. state = "OPEN" /\ Sending /\ rbsend = 0 /\ Bounds /\ Buffered
  BY <1>1, InDoneState
<1>3. CASE NoRoom(n) /\ getOutPending
  <2>1. FlushBegins(ctl, "copy", n) /\ UNCHANGED <<rbout, rbpos, made, rbsend, stdout_count, wire, inflight>>
    BY <1>3 DEF HWrite
  <2>2. ~Small(setup)
    <3>1. made + n <= setup.bytes /\ rbpos <= made
      BY <1>2 DEF HWrite, Bounds
    <3> QED BY <1>0, <1>3, <3>1 DEF NoRoom, Small
  <2>3. Roomy(setup)'
    BY <1>0, <2>2 DEF Deliverable, Roomy
  <2>4. (SendSize > 0)'
    BY <1>0, <1>2, <1>3, <2>1 DEF SendSize, getOutPending
  <2>5. Bounds'
    BY <1>2, <2>1, StillBounds
  <2>6. Control'
    BY <2>1, <2>3, <2>4, <2>5, FlushStarts DEF FlushBegins
  <2>7. Open /\ Open'
    BY <1>2, <2>1 DEF FlushBegins, Flushing, Open
  <2>8. Phase'
    BY <2>1, <2>7, StillPhase
  <2> QED BY <2>6, <2>8
<1>4. CASE ~(NoRoom(n) /\ getOutPending)
  <2>1. Copy(rbpos, n) /\ UNCHANGED <<state, ctl, rbsend, stdout_count, wire, inflight>>
    BY <1>4 DEF HWrite
  <2>2. rbpos' = rbpos + n /\ made' = made + n
    BY <2>1 DEF Copy
  <2>3. Bounds'
    BY <1>0, <1>2, <2>1, <2>2 DEF Bounds, Roomy
  <2>4. Sending'
    BY <1>0, <1>2, <2>1, CopyDelivers DEF Buffered, Bounds
  <2>5. Open'
    BY <1>2, <2>1 DEF Open
  <2>6. Control'
    BY <1>1, <1>2, <2>1, <2>3, DoneContinues
  <2> QED BY <2>4, <2>5, <2>6 DEF Phase
<1> QED BY <1>3, <1>4

LEMMA FileGiven ==
    ASSUME Deliverable, Known, Control, Phase, NEW n \in Lengths, HWriteFd(n), UNCHANGED setup
    PROVE  Control' /\ Phase'
<1>0. setup \in Setups
  BY Sizes DEF Known
<1>1. ctl = "done" /\ InDone
  BY <1>0 DEF HWriteFd, Producing, InHandler, Does, Deliverable, OnlyInDone, InDone
<1>2. state = "OPEN" /\ Bounds
  BY <1>1, InDoneState
<1>3. UNCHANGED <<state, rbout, rbpos, rbsend, stdout_count, wire, inflight, made>> /\ ctl' = "file"
  BY DEF HWriteFd
<1>4. Roomy(setup)'
  <2>1. ~Small(setup)
    BY DEF HWriteFd, Does, Small
  <2> QED BY <1>0, <2>1 DEF Deliverable, Roomy
<1>5. Bounds'
  BY <1>2, <1>3, StillBounds
<1>6. Control'
  BY <1>2, <1>3, <1>4, <1>5, DoneContinues
<1>7. Phase'
  BY <1>3, StillPhase
<1> QED BY <1>6, <1>7

(* flush() called while done() runs, for what waits.                        *)
LEMMA FlushDelivers ==
    ASSUME Known, Control, Phase, InDone, Roomy(setup), NEW ret, NEW next, NEW n,
           FlushBegins(ret, next, n),
           UNCHANGED <<rbout, rbpos, rbsend, stdout_count, wire, inflight, made, setup>>
    PROVE  Control' /\ Phase'
<1>0. rbpos \in Nat
  BY Sizes DEF Known
<1>1. state = "OPEN" /\ rbsend = 0 /\ Bounds
  BY InDoneState
<1>2. Roomy(setup)'
  BY DEF Roomy
<1>3. (SendSize > 0)'
  BY <1>0, <1>1 DEF FlushBegins, SendSize, getOutPending
<1>4. Bounds'
  BY <1>1, StillBounds
<1>5. Control'
  BY <1>2, <1>3, <1>4, FlushStarts DEF FlushBegins
<1>6. Open /\ Open'
  BY <1>1 DEF FlushBegins, Flushing, Open
<1>7. Phase'
  BY <1>6, StillPhase
<1> QED BY <1>5, <1>7

LEMMA PageCounts ==
    ASSUME Known, Control, Phase, Does("page"), ctl \in {"done", "page"}, setOutPos,
           UNCHANGED <<rbout, rbsend, stdout_count, wire, inflight, setup>>
    PROVE  Sending' /\ Bounds'
<1>0. rbpos \in Nat /\ made \in Nat /\ html \in Nat /\ Len(wire) \in Nat
  BY Sizes DEF Known
<1>1. InDone
  BY DEF InDone
<1>2. Sending /\ Bounds
  BY <1>1, InDoneState
<1>3. rbpos' = rbpos + (html - rbpos) /\ made' = made + (html - rbpos) /\ rbpos <= html
  BY <1>0 DEF setOutPos, Unreleased, Known, TypeInv, PageInv
<1>4. Sending'
  BY <1>2, PageDelivers DEF Known, Bounds
<1>5. made' - rbpos' = made - rbpos /\ rbpos' <= made'
  BY <1>0, <1>2, <1>3 DEF Bounds
<1>6. Bounds'
  BY <1>2, <1>5 DEF Bounds, Roomy
<1> QED BY <1>4, <1>6

LEMMA PageFlushed ==
    ASSUME Deliverable, Known, Control, Phase, Does("page"), ctl \in {"done", "page"},
           NEW ret, ret = "done", bufferFlush(ret), UNCHANGED setup
    PROVE  Control' /\ Phase'
<1>0. html \in Nat /\ setup \in Setups
  BY Sizes DEF Known
<1>1. setOutPos /\ UNCHANGED <<rbout, rbsend, stdout_count, wire, inflight, setup>>
  BY DEF bufferFlush
<1>2. Sending' /\ Bounds'
  BY <1>1, PageCounts
<1>3. state = "OPEN" /\ rbsend = 0
  BY InDoneState DEF InDone
<1>4. Roomy(setup)'
  <2>1. ~Small(setup)
    BY DEF Does, Small
  <2> QED BY <1>0, <2>1 DEF Deliverable, Roomy
<1>5. CASE html # rbsend /\ Flushing(ret, "return", 0)
  <2>1. (SendSize > 0)'
    BY <1>0, <1>1, <1>3, <1>5 DEF SendSize, setOutPos
  <2>2. Control'
    BY <1>2, <1>4, <1>5, <2>1, FlushStarts
  <2>3. Open'
    BY <1>5 DEF Flushing, Open
  <2> QED BY <1>2, <2>2, <2>3 DEF Phase
<1>6. CASE html = rbsend /\ ctl' = ret /\ UNCHANGED <<state, pollout, flushVars>>
  <2>1. state' = "OPEN" /\ ctl' = "done"
    BY <1>3, <1>6
  <2>2. Control'
    BY <1>2, <2>1, DoneContinues
  <2>3. Open'
    BY <2>1 DEF Open
  <2> QED BY <1>2, <2>2, <2>3 DEF Phase
<1> QED BY <1>5, <1>6 DEF bufferFlush

LEMMA PieceDelivers ==
    ASSUME Deliverable, Known, Control, Phase, NEW n \in Lengths, HPage(n), UNCHANGED setup
    PROVE  Control' /\ Phase'
<1>0. /\ rbpos \in Nat /\ rbout \in Seq(TokenType) /\ html \in Nat /\ made \in Nat /\ n \in Nat
      /\ setup \in Setups
  BY Sizes DEF Known
<1>1. ctl = "done" /\ InDone /\ Does("page")
  BY <1>0 DEF HPage, InPage, Producing, InHandler, Does, Deliverable, OnlyInDone, InDone
<1>2. state = "OPEN" /\ Sending /\ rbsend = 0 /\ Bounds /\ Buffered
  BY <1>1, InDoneState
<1>3. UNCHANGED <<state, rbpos, rbsend, stdout_count, wire, inflight, made>> /\ ctl' = "page"
  BY DEF HPage
<1>4. rbpos \in 0..html /\ html \in 0..Len(rbout)
  BY <1>0, <1>1 DEF Known, TypeInv, PageInv
<1>5. \A i \in 1..html : rbout'[i] = rbout[i]
  BY <1>0, <1>4, PageWritten
<1>6. \A j \in rbsend + 1..rbpos : rbout'[j] = rbout[j]
  BY <1>0, <1>2, <1>4, <1>5
<1>7. Sending'
  <2>1. (Records(Owed) /\ Unended)'
    <3>1. Owed' = Owed
      BY <1>3 DEF Owed, SendSize
    <3>2. Records(Owed)'
      BY <1>2, <1>3, <3>1 DEF Sending, Records, Inside
    <3> QED BY <1>2, <1>3, <3>2 DEF Sending, Unended
  <2>2. ASSUME NEW k \in 1..made PROVE OnWire(k)' \/ Waiting(k)'
    <3>1. CASE OnWire(k)
      BY <1>3, <3>1 DEF OnWire
    <3>2. CASE Waiting(k)
      BY <1>3, <1>6, <3>2 DEF Waiting
    <3> QED BY <1>2, <3>1, <3>2 DEF Sending
  <2>3. \A j \in rbsend' + 1..rbpos' : IsData(rbout'[j])
    BY <1>2, <1>3, <1>6 DEF Sending
  <2> QED BY <1>3, <2>1, <2>2, <2>3 DEF Sending
<1>8. Roomy(setup)'
  <2>1. ~Small(setup)
    BY <1>1 DEF Does, Small
  <2> QED BY <1>0, <2>1 DEF Deliverable, Roomy
<1>9. Bounds'
  BY <1>2, <1>3, StillBounds
<1>10. Control'
  BY <1>2, <1>3, <1>8, <1>9, DoneContinues
<1>11. Open'
  BY <1>2, <1>3 DEF Open
<1> QED BY <1>7, <1>10, <1>11 DEF Phase

(* The rounds of flush(), and what it comes back to.                        *)
LEMMA RoundDelivers ==
    ASSUME Deliverable, Known, Control, Phase, peerOpen, FlushRound, UNCHANGED setup
    PROVE  Control' /\ Phase'
<1>0. /\ rbpos \in Nat /\ rbsend \in Nat /\ made \in Nat /\ TypeInv /\ StatusInv /\ Budget
      /\ stdout_count \in 0..1
  BY Sizes DEF Known
<1>1. /\ ctl = "flush" /\ ctl' = "flush" /\ Roomy(setup) /\ Roomy(setup)' /\ FlushInv /\ send
      /\ called = "done" /\ called' = "done" /\ made' = made /\ rounds' = rounds + 1 /\ pollout
  BY DEF FlushRound, Control, Known, OutInv, Roomy
<1>2. CASE state = "FLUSH" /\ pollout /\ stdout_count = 0 /\ SendSize > 0 /\ rounds = 0
  <2>1. SendFirst
    BY <1>1, <1>2 DEF send, SendFails, SendEndFails, SendEnd, SendDone, SendMore
  <2>2. Sending /\ rbpos <= made /\ Len(wire) <= 2 * (made - rbpos) /\ inflight <= Len(wire)
    BY <1>1, <1>2 DEF Phase, Open, Control
  <2>3. ~Does("status")
    BY <1>1 DEF Known, StatusInv, StatedInv
  <2>4. /\ Sending' /\ state' = state /\ rbpos' = rbpos
        /\ stdout_count' = 1 /\ SendSize' = 0 /\ inflight' <= Len(wire')
        /\ Len(wire') <= 2 * made
    BY <1>0, <1>1, <2>1, <2>2, <2>3, FirstSends
  <2>5. pollout'
    <3>1. SendingIsPolled'
      BY <1>1, SendPolls DEF Known
    <3> QED BY <1>2, <2>4, <3>1 DEF SendingIsPolled
  <2>6. FlushInv'
    BY <1>1, <1>2, <2>4, <2>5 DEF FlushInv
  <2>7. Control'
    BY <1>1, <2>4, <2>6 DEF Control, InDone
  <2>8. Open'
    BY <1>2, <2>4 DEF Open
  <2> QED BY <2>4, <2>7, <2>8 DEF Phase
<1>3. CASE /\ SendSize = 0 /\ stdout_count = 1 /\ Len(wire) <= 2 * made
           /\ state = "FLUSH" /\ rounds = 1
  <2>1. /\ state' = "OPEN" /\ ~pollout'
        /\ UNCHANGED <<rbout, rbpos, rbsend, stdout_count, wire, inflight>>
    BY <1>1, <1>3 DEF send, SendFails, SendEndFails, SendEnd, SendDone, FlushSent, SendFirst, SendMore
  <2>2. SendSize' = 0
    BY <1>3, <2>1 DEF SendSize
  <2>3. FlushInv'
    BY <1>1, <1>3, <2>1, <2>2 DEF FlushInv
  <2>4. Control'
    BY <1>1, <1>3, <2>1, <2>3 DEF Control, InDone
  <2>5. Open /\ Open'
    BY <1>3, <2>1 DEF Open
  <2>6. Phase'
    BY <1>1, <2>1, <2>5, StillPhase
  <2> QED BY <2>4, <2>6
<1> QED BY <1>1, <1>2, <1>3 DEF FlushInv

LEMMA ReturnDelivers ==
    ASSUME Deliverable, Known, Control, Phase, FlushReturns, UNCHANGED setup
    PROVE  Control' /\ Phase'
<1>0. /\ rbpos \in Nat /\ rbsend \in Nat /\ made \in Nat /\ todo \in Nat /\ rounds \in Nat
      /\ Len(wire) \in Nat /\ 0 \in 0..rbpos /\ MaxRounds \in Nat /\ MaxRounds >= 2
  BY Sizes, SizesAssumption DEF Known, Deliverable
<1>1. /\ ctl = "flush" /\ Roomy(setup) /\ Roomy(setup)' /\ FlushInv /\ caller = "done"
      /\ state' = state /\ UNCHANGED <<wire, inflight>> /\ rbsend' = 0 /\ stdout_count' = 0
      /\ inflight <= Len(wire)
  BY DEF FlushReturns, Rewound, Control, Known, OutInv, Roomy
<1>2. SendSize = 0 /\ state = "OPEN" /\ Len(wire) <= 2 * made
  <2>1. CASE state = "FLUSH" /\ pollout /\ stdout_count = 0 /\ SendSize > 0 /\ rounds = 0
    BY <1>0, <2>1 DEF FlushReturns
  <2>2. CASE state = "FLUSH" /\ rounds = 1
    <3>1. pollout
      BY <2>2 DEF Known, SendingIsPolled
    <3> QED BY <1>0, <2>2, <3>1 DEF FlushReturns
  <2> QED BY <1>1, <2>1, <2>2 DEF FlushInv
<1>3. Sending /\ rbpos <= rbsend
  BY <1>0, <1>2 DEF Phase, Open, SendSize
<1>4. Records(0) /\ Unended /\ \A k \in 1..made : OnWire(k)
  <2>1. Owed = 0
    BY <1>2 DEF Owed
  <2>2. \A k : ~Waiting(k)
    BY <1>0, <1>3 DEF Waiting
  <2> QED BY <1>3, <2>1, <2>2 DEF Sending
<1>5. ctl' \in {"done", "file"}
  BY <1>1 DEF FlushReturns
<1>6. CASE after = "copy"
  <2>1. Copy(0, todo)
    BY <1>6 DEF FlushReturns
  <2>2. rbpos' = todo /\ made' = made + todo
    BY <1>0, <2>1 DEF Copy
  <2>3. Sending'
    <3>1. TypeInv
      BY DEF Known
    <3> QED BY <1>0, <1>1, <1>4, <2>1, <3>1, CopyDelivers
  <2>4. Bounds'
    BY <1>0, <1>1, <1>2, <2>2 DEF Bounds
  <2>5. Control'
    BY <1>1, <1>2, <1>5, <2>4, DoneContinues
  <2>6. Open'
    BY <1>1, <1>2 DEF Open
  <2> QED BY <2>3, <2>5, <2>6 DEF Phase
<1>7. CASE ~(after = "copy")
  <2>1. rbpos' = 0 /\ made' = made
    BY <1>7 DEF FlushReturns
  <2>2. Sending'
    <3>1. Owed' = 0
      BY <1>1 DEF Owed
    <3>2. Records(Owed)' /\ Unended'
      BY <1>1, <1>4, <3>1 DEF Records, Inside, Unended
    <3>3. \A k \in 1..made : OnWire(k)'
      BY <1>1, <1>4 DEF OnWire
    <3>4. rbsend' + 1..rbpos' = {}
      BY <1>1, <2>1
    <3> QED BY <2>1, <3>2, <3>3, <3>4 DEF Sending
  <2>3. Bounds'
    BY <1>0, <1>1, <1>2, <2>1 DEF Bounds
  <2>4. Control'
    BY <1>1, <1>2, <1>5, <2>3, DoneContinues
  <2>5. Open'
    BY <1>1, <1>2 DEF Open
  <2> QED BY <2>2, <2>4, <2>5 DEF Phase
<1> QED BY <1>6, <1>7

LEMMA FileReads ==
    ASSUME Known, Control, Phase, FileRead, UNCHANGED setup
    PROVE  Control' /\ Phase'
<1>0. /\ rbpos \in Nat /\ made \in Nat /\ todo \in Nat /\ REQ_MAX_OUT \in Nat /\ Len(wire) \in Nat
      /\ TypeInv /\ rbpos \in 0..rbpos
  BY Sizes DEF Known
<1>1. ctl = "file" /\ InDone /\ ctl' = "file"
      /\ UNCHANGED <<state, rbsend, stdout_count, wire, inflight>>
  BY DEF FileRead, InDone
<1>2. state = "OPEN" /\ rbsend = 0 /\ Bounds /\ Buffered
  BY <1>1, InDoneState
<1>3. PICK n \in Nat : Copy(rbpos, n)
  <2>1. ASSUME NEW max \in Nat PROVE br(max) \in Nat
    BY <1>0 DEF br, AtMost
  <2>2. CASE rbpos < REQ_MAX_OUT
    <3>1. REQ_MAX_OUT - rbpos \in Nat
      BY <1>0, <2>2
    <3> QED BY <2>1, <2>2, <3>1 DEF FileRead
  <2>3. CASE ~(rbpos < REQ_MAX_OUT)
    BY <1>0, <2>1, <2>3 DEF FileRead
  <2> QED BY <2>2, <2>3
<1>4. rbpos' = rbpos + n /\ made' = made + n
  BY <1>3 DEF Copy
<1>5. Sending'
  BY <1>0, <1>1, <1>2, <1>3, CopyDelivers DEF Buffered, Bounds
<1>6. Bounds'
  BY <1>0, <1>1, <1>2, <1>4 DEF Bounds, Roomy
<1>7. Roomy(setup)'
  BY <1>1 DEF Control, Roomy
<1>8. Control'
  BY <1>1, <1>2, <1>6, <1>7, DoneContinues
<1>9. Open'
  BY <1>1, <1>2 DEF Open
<1> QED BY <1>5, <1>8, <1>9 DEF Phase

(* The call of send() in Driver::write().                                   *)
LEMMA WriteSends ==
    ASSUME Deliverable, Known, Control, Phase, peerOpen, Write, UNCHANGED setup
    PROVE  Control' /\ Phase'
<1>0. /\ rbpos \in Nat /\ rbsend \in Nat /\ made \in Nat /\ TypeInv /\ StatusInv /\ Budget
      /\ stdout_count \in 0..1 /\ inflight \in Nat /\ Len(wire) \in Nat
  BY Sizes DEF Known
<1>1. /\ ctl = "write" /\ ctl' = "free" /\ state # "FLUSH" /\ made' = made /\ called' = called
      /\ Roomy(setup) => inflight <= Len(wire)
      /\ Roomy(setup)' <=> Roomy(setup)
      /\ called # "done" => stdout_count = 0 /\ rbpos = 0 /\ rbsend = 0 /\ state = "STDIN"
  BY DEF Write, Control, Known, OutInv, Roomy
<1>2. CASE UNCHANGED <<reqVars, sockVars>>
  <2>1. Control'
    BY <1>1, <1>2 DEF Control, InDone, Open
  <2>2. Phase'
    BY <1>1, <1>2, StillPhase
  <2> QED BY <2>1, <2>2
<1>3. CASE SendEnd
  <2>1. Sending /\ called = "done"
    BY <1>1, <1>3 DEF SendEnd, Phase, Open
  <2>2. Closing' /\ state' = "END" /\ (inflight <= Len(wire) => inflight' <= Len(wire'))
    BY <1>0, <1>1, <1>3, <2>1, EndSends
  <2>3. Control'
    BY <1>1, <2>1, <2>2 DEF Control, InDone, Open
  <2>4. ~Open'
    BY <2>2 DEF Open
  <2> QED BY <2>2, <2>3, <2>4 DEF Phase
<1>4. CASE SendDone
  <2>1. UNCHANGED <<rbout, rbpos, rbsend, stdout_count, wire, inflight>> /\ SendSize = 0
    BY <1>4 DEF SendDone
  <2>2. CASE state = "END" /\ state' = "EOF"
    <3>1. Closing /\ ~Open'
      BY <2>2 DEF Phase, Open
    <3>2. Over
      BY <1>0, <2>1, <2>2, <3>1 DEF Closing, SendSize
    <3>3. Over' /\ SendSize' = 0
      BY <2>1, <3>2 DEF Over, SendSize
    <3>4. Records(0)' /\ \A k \in 1..made : OnWire(k)'
      BY <2>1, <3>1 DEF Closing, Records, Inside, OnWire
    <3>5. \A i \in 1..Len(wire') : wire'[i].t = "end" => i = Len(wire')
      BY <2>1, <3>1 DEF Closing
    <3>6. Closing'
      BY <1>1, <2>2, <3>3, <3>4, <3>5 DEF Closing
    <3>7. Control'
      BY <1>1, <2>1, <2>2 DEF Control, InDone, Open
    <3> QED BY <3>1, <3>6, <3>7 DEF Phase
  <2>3. CASE UNCHANGED <<state, pollout>>
    <3>1. Control'
      BY <1>1, <2>1, <2>3 DEF Control, InDone, Open
    <3>2. Phase'
      BY <1>1, <2>1, <2>3, StillPhase
    <3> QED BY <3>1, <3>2
  <2> QED BY <1>1, <1>4, <2>2, <2>3 DEF SendDone, FlushSent
<1>5. CASE SendFirst
  <2>1. SendSize > 0 /\ stdout_count = 0
    BY <1>5 DEF SendFirst
  <2>2. Open
    BY <2>1 DEF Phase, Closing
  <2>3. called = "done"
    BY <1>1, <2>1 DEF SendSize
  <2>4. Sending /\ rbpos <= made
        /\ (Roomy(setup) => Len(wire) <= 2 * (made - rbpos) /\ inflight <= Len(wire))
    BY <1>1, <2>1, <2>2 DEF Phase, Control
  <2>5. /\ Sending' /\ state' = state /\ rbpos' = rbpos
        /\ stdout_count' = 1 \/ UNCHANGED <<stdout_count, wire, inflight>>
        /\ Roomy(setup) => stdout_count' = 1 /\ inflight' <= Len(wire')
    BY <1>0, <1>1, <1>5, <2>4, FirstSends
  <2>6. Open'
    BY <2>2, <2>5 DEF Open
  <2>7. Control'
    <3>1. (Open' /\ stdout_count' = 0) => rbpos' <= made'
      BY <1>1, <2>4, <2>5
    <3> QED BY <1>1, <2>3, <2>5, <3>1 DEF Control, InDone
  <2> QED BY <2>5, <2>6, <2>7 DEF Phase
<1>6. CASE SendMore
  <2>1. SendSize > 0 /\ stdout_count = 1
    BY <1>0, <1>6 DEF SendMore
  <2>2. called = "done"
    BY <1>1, <2>1
  <2>3. CASE Open
    <3>1. Sending
      BY <2>3 DEF Phase
    <3>2. /\ Sending' /\ stdout_count' = 1 /\ state' = state /\ rbpos' = rbpos
          /\ inflight <= Len(wire) => inflight' <= Len(wire')
      BY <1>0, <1>1, <1>6, <3>1, MoreSends
    <3>3. Control'
      BY <1>1, <2>2, <3>2 DEF Control, InDone
    <3>4. Open'
      BY <2>3, <3>2 DEF Open
    <3> QED BY <3>2, <3>3, <3>4 DEF Phase
  <2>4. CASE ~Open
    <3>1. Closing /\ state = "END"
      BY <2>1, <2>4 DEF Phase, Closing
    <3>2. Closing' /\ state' = "END" /\ (inflight <= Len(wire) => inflight' <= Len(wire'))
      BY <1>0, <1>1, <1>6, <3>1, EndMore
    <3>3. ~Open'
      BY <3>2 DEF Open
    <3>4. Control'
      BY <1>1, <2>2, <3>2, <3>3 DEF Control, InDone
    <3> QED BY <3>2, <3>3, <3>4 DEF Phase
  <2> QED BY <2>3, <2>4
<1> QED BY <1>2, <1>3, <1>4, <1>5, <1>6 DEF Write, send, SendFails, SendEndFails

LEMMA FreeKeeps ==
    ASSUME Known, Control, Phase, Free, UNCHANGED setup
    PROVE  Control' /\ Phase'
<1>1. /\ ctl = "free" /\ ctl' = "poll" /\ UNCHANGED <<rbout, wire, inflight, made, called>>
      /\ state # "FLUSH" /\ (Roomy(setup)' <=> Roomy(setup))
  BY DEF Free, Control, Roomy
<1>2. CASE /\ state = "EOF" /\ state' = "WAIT" /\ clearRbOut /\ stdout_count' = 0
  <2>1. Closing /\ ~Open'
    BY <1>2 DEF Phase, Open
  <2>2. Over' /\ SendSize' = 0
    BY <1>1, <1>2, <2>1 DEF Closing, Over, SendSize, clearRbOut
  <2>3. Records(0)' /\ \A k \in 1..made : OnWire(k)'
    BY <1>1, <2>1 DEF Closing, Records, Inside, OnWire
  <2>4. \A i \in 1..Len(wire') : wire'[i].t = "end" => i = Len(wire')
    BY <1>1, <2>1 DEF Closing
  <2>5. Closing'
    BY <1>1, <1>2, <2>2, <2>3, <2>4 DEF Closing
  <2>6. Control'
    BY <1>1, <1>2, <2>1 DEF Control, InDone
  <2> QED BY <2>1, <2>5, <2>6 DEF Phase
<1>3. CASE UNCHANGED <<state, rbpos, rbsend, stdout_count, app_status, pollout>>
  <2>1. Control'
    BY <1>1, <1>3 DEF Control, InDone, Open
  <2>2. Phase'
    BY <1>1, <1>3, StillPhase
  <2> QED BY <2>1, <2>2
<1> QED BY <1>2, <1>3 DEF Free

LEMMA NextPhase ==
    ASSUME Deliverable, Known, Control, Phase, peerOpen, peerOpen', [Next]_vars
    PROVE  Control' /\ Phase'
<1>0. inflight \in Nat /\ Len(wire) \in Nat /\ setup \in Setups
  BY Sizes DEF Known
<1>k. setup' = setup
  BY DEF Next, vars, Handler, Raw, Page, HReturn, Library, PeerReads, PeerCloses
<1>p. ASSUME Producing PROVE ctl = "done" /\ InDone /\ state = "OPEN"
  BY <1>0, <1>p DEF Producing, InHandler, Does, Deliverable, OnlyInDone, InDone, Control
<1>r. ctl \in {"flush", "page", "file"} => Roomy(setup)
  BY DEF Control
<1>q. ASSUME UNCHANGED <<state, rbout, rbpos, rbsend, stdout_count, wire, inflight, made, called>>,
             \/ ctl' = ctl /\ ctl # "flush"
             \/ ctl' \notin {"flush", "file", "page", "done"} /\ state # "FLUSH"
      PROVE  Control' /\ Phase'
  <2>1. Control'
    BY <1>k, <1>q DEF Control, InDone, Open, Roomy
  <2> QED BY <1>q, <2>1, StillPhase
<1>1. CASE UNCHANGED vars
  <2>1. Control'
    BY <1>1 DEF vars, Control, InDone, Open, Roomy, FlushInv, SendSize
  <2> QED BY <1>1, <2>1, StillPhase DEF vars
<1>2. CASE PeerReads
  <2>1. /\ UNCHANGED <<reqVars, wire, callVars, flushVars, ctl>>
        /\ inflight' \in Nat /\ inflight' <= inflight
    BY <1>0, <1>2 DEF PeerReads
  <2>2. Roomy(setup) => inflight' <= Len(wire')
    BY <1>0, <2>1 DEF Control
  <2>3. Control'
    BY <1>k, <2>1, <2>2 DEF Control, InDone, Open, Roomy, FlushInv, SendSize
  <2> QED BY <2>1, <2>3, StillPhase
<1>3. ~PeerCloses
  BY DEF PeerCloses
<1>4. CASE Raw
  <2>1. ASSUME NEW n \in Lengths, HWrite(n) PROVE Control' /\ Phase'
    BY <1>k, <2>1, WriteDelivers
  <2>2. ASSUME NEW n \in Lengths PROVE ~HWriteIgnored(n)
    BY <1>p DEF HWriteIgnored, Accepting
  <2>3. ASSUME NEW n \in Lengths, HWriteFd(n) PROVE Control' /\ Phase'
    BY <1>k, <2>3, FileGiven
  <2>4. CASE HFlush
    <3>1. InDone /\ Does("flush")
      BY <1>p, <2>4 DEF HFlush
    <3>2. Roomy(setup)
      BY <1>0, <3>1 DEF Does, Small, Deliverable
    <3>3. /\ FlushBegins(ctl, "return", 0)
          /\ UNCHANGED <<rbout, rbpos, rbsend, stdout_count, wire, inflight, made, setup>>
      BY <1>k, <2>4 DEF HFlush
    <3> QED BY <3>1, <3>2, <3>3, FlushDelivers
  <2> QED BY <1>4, <2>1, <2>2, <2>3, <2>4 DEF Raw
<1>5. CASE Page
  <2>1. ASSUME NEW n \in Lengths, HPage(n) PROVE Control' /\ Phase'
    BY <1>k, <2>1, PieceDelivers
  <2>2. CASE HBufferFlush
    <3>1. ctl = "done" /\ Does("page") /\ bufferFlush(ctl)
      BY <1>p, <2>2 DEF HBufferFlush, InPage
    <3> QED BY <1>k, <3>1, PageFlushed
  <2>3. CASE HBufferRelease
    <3>1. /\ ctl = "done" /\ Does("page") /\ setOutPos /\ state = "OPEN" /\ InDone
          /\ UNCHANGED <<rbout, rbsend, stdout_count, wire, inflight, setup, state, ctl>>
      BY <1>k, <1>p, <2>3 DEF HBufferRelease, InPage
    <3>2. Sending' /\ Bounds'
      BY <3>1, PageCounts
    <3>3. Control'
      BY <3>1, <3>2, DoneContinues
    <3>4. Open'
      BY <3>1 DEF Open
    <3> QED BY <3>2, <3>3, <3>4 DEF Phase
  <2>4. CASE HBufferClear
    <3>1. ctl = "done"
      BY <1>p, <2>4 DEF HBufferClear, InPage
    <3> QED BY <1>q, <2>4, <3>1 DEF HBufferClear
  <2>5. ASSUME NEW n \in Lengths, toRequest(n) PROVE Control' /\ Phase'
    BY <1>k, <2>5, FileGiven DEF toRequest
  <2> QED BY <1>5, <2>1, <2>2, <2>3, <2>4, <2>5 DEF Page
<1>6. CASE Handler
  <2>1. ASSUME NEW code \in Codes, HStatus(code) \/ HEnd(code) PROVE Control' /\ Phase'
    <3>1. ctl' = ctl /\ ctl # "flush"
      BY <2>1 DEF HStatus, HEnd, Producing, InHandler
    <3> QED BY <1>q, <2>1, <3>1 DEF HStatus, HEnd
  <2>2. CASE HReturn
    <3>1. state # "FLUSH"
      BY <2>2 DEF HReturn, Control, InDone
    <3> QED BY <1>q, <2>2, <3>1 DEF HReturn
  <2> QED BY <1>4, <1>5, <1>6, <2>1, <2>2 DEF Handler
<1>7. CASE optionalFlush
  <2>1. ctl = "page" /\ caller = "done" /\ Does("page") /\ InDone
    BY <1>7 DEF optionalFlush, Known, OutInv, TypeInv, InDone
  <2>2. CASE bufferFlush(caller)
    BY <1>k, <2>1, <2>2, PageFlushed
  <2>3. CASE ctl' = caller /\ UNCHANGED <<reqVars, sockVars, callVars, flushVars, html, peerOpen>>
    <3>1. state = "OPEN" /\ Bounds
      BY <2>1, InDoneState
    <3>2. Bounds'
      BY <1>k, <2>3, <3>1, StillBounds
    <3>3. Control'
      BY <2>1, <2>3, <3>1, <3>2, DoneContinues
    <3> QED BY <2>3, <3>3, StillPhase
  <2> QED BY <1>7, <2>2, <2>3 DEF optionalFlush
<1>8. CASE FlushRound
  BY <1>k, <1>8, RoundDelivers
<1>9. CASE FlushReturns
  BY <1>k, <1>9, ReturnDelivers
<1>10. CASE FileFlush
  <2>1. /\ InDone /\ Roomy(setup) /\ FlushBegins(caller, "file", todo)
        /\ UNCHANGED <<rbout, rbpos, rbsend, stdout_count, wire, inflight, made, setup>>
    BY <1>k, <1>r, <1>10 DEF FileFlush, InDone
  <2> QED BY <2>1, FlushDelivers
<1>11. CASE FileRead
  BY <1>k, <1>11, FileReads
<1>12. CASE FileDone
  <2>1. /\ InDone /\ Roomy(setup) /\ ctl = "file" /\ caller = "done"
        /\ UNCHANGED <<rbout, rbpos, rbsend, stdout_count, wire, inflight, made, setup>>
    BY <1>k, <1>r, <1>12 DEF FileDone, InDone, Known, OutInv
  <2>2. CASE FlushBegins(caller, "return", 0)
    BY <2>1, <2>2, FlushDelivers
  <2>3. CASE ctl' = caller /\ UNCHANGED <<state, flushVars>>
    <3>1. state = "OPEN" /\ Bounds
      BY <2>1, InDoneState
    <3>2. Bounds'
      BY <2>1, <3>1, StillBounds
    <3>3. Control'
      BY <2>1, <2>3, <3>1, <3>2, DoneContinues
    <3> QED BY <2>1, <2>3, <3>3, StillPhase
  <2> QED BY <1>12, <2>2, <2>3 DEF FileDone
<1>13. ~FileFails
  BY <1>0 DEF FileFails, Deliverable, Does
<1>14. CASE Poll
  BY <1>q, <1>14 DEF Poll, Control
<1>15. CASE Work
  <2>1. /\ ctl = "work" /\ UNCHANGED <<rbout, rbpos, rbsend, stdout_count, wire, inflight, made>>
        /\ state # "FLUSH"
    BY <1>15 DEF Work, Control
  <2>2. CASE ctl' = "write" /\ UNCHANGED <<state, called>>
    BY <1>q, <2>1, <2>2
  <2>3. CASE ctl' = "exec" /\ called' = "exec" /\ called = "none" /\ UNCHANGED state
    <3>1. Control'
      BY <1>k, <2>1, <2>3 DEF Control, InDone, Open, Roomy
    <3> QED BY <2>1, <2>3, <3>1, StillPhase
  <2>4. CASE /\ called = "exec" /\ state = "STDIN"
             /\ called' = "done" /\ ctl' = "done" /\ state' = "OPEN"
    <3>1. Bounds
      BY <2>4 DEF Control, Open, Bounds
    <3>2. Bounds'
      BY <1>k, <2>1, <3>1, StillBounds
    <3>3. Control'
      BY <2>4, <3>2, DoneContinues
    <3>4. Open /\ Open'
      BY <2>4 DEF Open
    <3> QED BY <2>1, <3>3, <3>4, StillPhase
  <2> QED BY <1>15, <2>2, <2>3, <2>4 DEF Work
<1>16. CASE Write
  BY <1>k, <1>16, WriteSends
<1>17. CASE Free
  BY <1>k, <1>17, FreeKeeps
<1>18. CASE Library
  BY <1>18, <1>7, <1>8, <1>9, <1>10, <1>11, <1>12, <1>13, <1>14, <1>15, <1>16, <1>17 DEF Library
<1> QED BY <1>1, <1>2, <1>3, <1>6, <1>18 DEF Next

-----------------------------------------------------------------------------
(* Only a connection that the web server keeps is written to.               *)
LEMMA GoneIsSilent == ASSUME [Next]_vars, ~peerOpen' PROVE wire' = wire
<1>s. ASSUME send, peerOpen' = peerOpen PROVE wire' = wire
  BY <1>s DEF send, SendFails, SendEndFails, SendEnd, SendDone, SendFirst, SendMore, SendData
<1>1. CASE UNCHANGED vars \/ PeerReads \/ PeerCloses
  BY <1>1 DEF vars, PeerReads, PeerCloses
<1>2. CASE Handler
  <2>1. CASE Raw
    BY <2>1 DEF Raw, HWrite, HWriteIgnored, HWriteFd, HFlush
  <2>2. CASE Page
    BY <2>2 DEF Page, HPage, HBufferFlush, bufferFlush, HBufferRelease, HBufferClear,
       toRequest, HWriteFd
  <2> QED BY <1>2, <2>1, <2>2 DEF Handler, HStatus, HEnd, HReturn
<1>3. CASE Library
  <2>1. CASE FlushRound \/ Write
    BY <1>s, <2>1 DEF FlushRound, Write
  <2>2. CASE ~(FlushRound \/ Write)
    BY <1>3, <2>2 DEF Library, optionalFlush, bufferFlush, FlushReturns, FileFlush, FileRead,
       FileDone, FileFails, Poll, Work, Free
  <2> QED BY <2>1, <2>2
<1> QED BY <1>1, <1>2, <1>3 DEF Next

LEMMA InitDelivery == Init => DeliveryInv
<1> SUFFICES ASSUME Init PROVE DeliveryInv
  OBVIOUS
<1>0. setup \in Setups /\ setup.bytes \in Nat /\ Len(wire) = 0 /\ wire = <<>>
  BY SetupsAssumption DEF Init
<1>1. Budget
  BY <1>0 DEF Init, Budget, InDone
<1>2. Sending
  BY <1>0 DEF Init, Sending, Records, Unended, Owed
<1>3. Control
  BY <1>0 DEF Init, Control, InDone, Open
<1>4. Phase
  BY <1>2 DEF Init, Phase, Open
<1> QED BY <1>1, <1>3, <1>4 DEF DeliveryInv

LEMMA NextDelivery ==
    ASSUME Deliverable
    PROVE  /\ TypeInv /\ OutInv /\ OrderInv /\ StatusInv /\ SendingIsPolled
           /\ DeliveryInv /\ [Next]_vars
           => DeliveryInv'
<1> SUFFICES ASSUME TypeInv, OutInv, OrderInv, StatusInv, SendingIsPolled, DeliveryInv, [Next]_vars
             PROVE  DeliveryInv'
  OBVIOUS
<1>1. Known
  BY DEF Known, DeliveryInv
<1>2. Budget'
  BY NextBudget DEF Deliverable, DeliveryInv
<1>3. ASSUME peerOpen' PROVE Control' /\ Phase'
  <2>1. peerOpen
    BY <1>3 DEF Next, vars, Handler, Raw, HWrite, HWriteIgnored, HWriteFd, HFlush, Page, HPage,
       HBufferFlush, bufferFlush, HBufferRelease, HBufferClear, toRequest, HStatus, HEnd, HReturn,
       Library, optionalFlush, FlushRound, FlushReturns, FileFlush, FileRead, FileDone, FileFails,
       Poll, Work, Write, Free, PeerReads, PeerCloses
  <2> QED BY <1>1, <1>3, <2>1, NextPhase DEF DeliveryInv
<1> QED BY <1>2, <1>3 DEF DeliveryInv

LEMMA GoneStaysFramed == Framed /\ [Next]_vars => peerOpen' \/ Framed'
BY GoneIsSilent DEF Framed, Inside

LEMMA DeliveryHolds == ASSUME Deliverable PROVE Spec => [](TypeInv /\ OrderInv /\ DeliveryInv)
<1>1. OnlyInDone /\ PagesInDone /\ StatusesFit
  BY InDoneFirst DEF Deliverable
<1> QED
  BY <1>1, InitType, NextType, InitOut, NextOut, InitOrder, NextOrder, InitStatus, NextStatus,
     InitDelivery, NextDelivery, SendingPolled, PTL DEF Spec

(* The records are well formed, also of a response that goes out in parts.  *)
(* Deliverable asks for output only in done(), and for a response that fits *)
(* into rbout or a socket that takes it all; without it the code drops      *)
(* bytes that a header announced.                                           *)
THEOREM RecordsWhole == ASSUME Deliverable PROVE Spec => []Framed
<1>1. TypeInv /\ DeliveryInv => (peerOpen => Framed)
  BY WholeRecords DEF DeliveryInv
<1>2. Init => Framed
  BY DEF Init, Framed
<1> QED BY <1>1, <1>2, GoneStaysFramed, DeliveryHolds, PTL DEF Spec

(* Under the same conditions a response that the library closed is          *)
(* complete: every byte that the handler produced is on the wire, in order, *)
(* and so is END_REQUEST.                                                   *)
THEOREM ResponsesComplete == ASSUME Deliverable PROVE Spec => []CompleteAtClose
<1>1. TypeInv /\ OrderInv /\ DeliveryInv => CompleteAtClose
  <2> SUFFICES ASSUME TypeInv, OrderInv, DeliveryInv, state = "WAIT", peerOpen
               PROVE  /\ Over /\ Ordered
                      /\ {wire[i].v : i \in {j \in DOMAIN wire : IsData(wire[j])}} = 1..made
    BY DEF CompleteAtClose
  <2>0. wire \in Seq(TokenType) /\ DOMAIN wire = 1..Len(wire) /\ made \in Nat
    BY Sizes
  <2>1. Closing
    BY DEF DeliveryInv, Phase, Open
  <2>2. Over
    BY <2>1 DEF Closing
  <2>3. Ordered
    BY <2>0 DEF OrderInv, OutOrder, Rising, Ordered
  <2>4. ASSUME NEW k \in 1..made
        PROVE  \E i \in DOMAIN wire : IsData(wire[i]) /\ wire[i].v = k
    <3>1. PICK i \in 1..Len(wire) : wire[i] = Token("data", k)
      BY <2>1 DEF Closing, OnWire
    <3> QED BY <2>0, <3>1, Fields DEF IsData
  <2>5. ASSUME NEW i \in DOMAIN wire, IsData(wire[i]) PROVE wire[i].v \in 1..made
    <3>1. wire[i] \in TokenType /\ wire[i].t = "data"
      BY <2>0, <2>5 DEF IsData
    <3>2. wire[i].v \in Nat \ {0}
      BY <3>1 DEF TokenType
    <3>3. wire[i].v <= made
      BY <2>0, <2>5 DEF OrderInv, OutOrder, DataAtMost
    <3> QED BY <2>0, <3>2, <3>3
  <2> QED BY <2>2, <2>3, <2>4, <2>5
<1> QED BY <1>1, DeliveryHolds, PTL

-----------------------------------------------------------------------------
(***************************************************************************)
(* A response is an OutputStream, whichever files cannot be read, however   *)
(* often it is flushed and wherever the socket cuts what it takes.          *)
(***************************************************************************)

(* The numbers of the data in a sequence of tokens *)

LEMMA NumberType == ASSUME NEW token \in TokenType PROVE Number(token) \in Seq(Nat)
<1>1. token.v \in Nat
  BY DEF TokenType
<1>2. CASE IsData(token)
  BY <1>1, <1>2 DEF Number
<1>3. CASE ~IsData(token)
  BY <1>3 DEF Number
<1> QED BY <1>2, <1>3

\* The sequences that Numbers flattens.
Lists(tokens) == [i \in DOMAIN tokens |-> Number(tokens[i])]

LEMMA ListsAre ==
    ASSUME NEW s \in Seq(TokenType)
    PROVE  /\ Lists(s) \in Seq(Seq(Nat)) /\ Len(Lists(s)) = Len(s)
           /\ \A i \in 1..Len(s) : Lists(s)[i] = Number(s[i])
           /\ Numbers(s) = FlattenSeq(Lists(s))
<1>1. PICK n, S : n = Len(s) /\ n \in Nat /\ S = Seq(Nat) /\ DOMAIN s = 1..n
  BY LenProperties
<1>2. PICK f : f = Lists(s)
  OBVIOUS
<1>3. \A i \in 1..n : Number(s[i]) \in S
  BY <1>1, NumberType, ElementOfSeq
<1>4. f \in [1..n -> S] /\ \A i \in 1..n : f[i] = Number(s[i])
  BY <1>1, <1>2, <1>3 DEF Lists
<1>5. f \in Seq(S) /\ Len(f) = n
  BY <1>1, <1>4, FunctionIsSeq
<1>6. Numbers(s) = FlattenSeq(Lists(s))
  BY DEF Numbers, Lists
<1> QED BY <1>1, <1>2, <1>4, <1>5, <1>6

LEMMA NumbersType == ASSUME NEW s \in Seq(TokenType) PROVE Numbers(s) \in Seq(Nat)
BY ListsAre, FlattenType

LEMMA NumbersConcat ==
    ASSUME NEW s \in Seq(TokenType), NEW t \in Seq(TokenType)
    PROVE  Numbers(s \o t) = Numbers(s) \o Numbers(t)
<1>1. PICK u \in Seq(TokenType) : /\ u = s \o t /\ Len(u) = Len(s) + Len(t)
                                  /\ \A i \in 1..Len(s) : u[i] = s[i]
                                  /\ \A i \in 1..Len(t) : u[Len(s) + i] = t[i]
  BY Joined
<1>2. PICK S : S = Seq(Nat)
  OBVIOUS
<1>3. PICK a, b, c : a = Lists(s) /\ b = Lists(t) /\ c = Lists(u)
  OBVIOUS
<1>4. /\ a \in Seq(S) /\ Len(a) = Len(s) /\ \A i \in 1..Len(s) : a[i] = Number(s[i])
      /\ Numbers(s) = FlattenSeq(a)
  BY <1>2, <1>3, ListsAre
<1>5. /\ b \in Seq(S) /\ Len(b) = Len(t) /\ \A i \in 1..Len(t) : b[i] = Number(t[i])
      /\ Numbers(t) = FlattenSeq(b)
  BY <1>2, <1>3, ListsAre
<1>6. /\ c \in Seq(S) /\ Len(c) = Len(u) /\ \A i \in 1..Len(u) : c[i] = Number(u[i])
      /\ Numbers(u) = FlattenSeq(c)
  BY <1>2, <1>3, ListsAre
<1>7. a \o b = c
  <2>1. Len(s) \in Nat /\ Len(t) \in Nat
    BY LenProperties
  <2>2. Len(c) = Len(a) + Len(b)
    BY <1>1, <1>4, <1>5, <1>6
  <2>3. ASSUME NEW i \in 1..Len(a) PROVE c[i] = a[i]
    <3>1. i \in 1..Len(s) /\ i \in 1..Len(u)
      BY <1>1, <1>4, <2>1
    <3> QED BY <1>1, <1>4, <1>6, <3>1
  <2>4. ASSUME NEW i \in 1..Len(b) PROVE c[Len(a) + i] = b[i]
    <3>1. i \in 1..Len(t) /\ Len(s) + i \in 1..Len(u) /\ Len(a) = Len(s)
      BY <1>1, <1>4, <1>5, <2>1
    <3>2. c[Len(s) + i] = Number(t[i])
      BY <1>1, <1>6, <3>1
    <3> QED BY <1>5, <3>1, <3>2
  <2> QED BY <1>4, <1>5, <1>6, <2>2, <2>3, <2>4, ConcatIs
<1>8. FlattenSeq(a \o b) = FlattenSeq(a) \o FlattenSeq(b)
  BY <1>2, <1>4, <1>5, FlattenConcat
<1> QED BY <1>1, <1>4, <1>5, <1>6, <1>7, <1>8

LEMMA NumbersNone ==
    ASSUME NEW s \in Seq(TokenType), \A i \in 1..Len(s) : ~IsData(s[i])
    PROVE  Numbers(s) = <<>>
<1>1. PICK a : a = Lists(s)
  OBVIOUS
<1>2. a \in Seq(Seq(Nat)) /\ Len(a) = Len(s) /\ Numbers(s) = FlattenSeq(a)
  BY <1>1, ListsAre
<1>3. \A i \in 1..Len(a) : a[i] = <<>>
  BY <1>1, <1>2, ListsAre DEF Number
<1> QED BY <1>2, <1>3, FlattenEmpties

LEMMA NumbersFresh ==
    ASSUME NEW m \in Nat, NEW s \in Seq(TokenType),
           \A i \in 1..Len(s) : s[i] = Token("data", m + i)
    PROVE  Numbers(s) = [i \in 1..Len(s) |-> m + i]
<1>1. PICK a, r : a = Lists(s) /\ r = [i \in 1..Len(s) |-> m + i]
  OBVIOUS
<1>2. a \in Seq(Seq(Nat)) /\ Len(a) = Len(s) /\ Numbers(s) = FlattenSeq(a) /\ Len(s) \in Nat
  BY <1>1, ListsAre, LenProperties
<1>3. r \in Seq(Nat) /\ Len(r) = Len(s) /\ \A i \in 1..Len(s) : r[i] = m + i
  <2>1. r \in [1..Len(s) -> Nat]
    BY <1>1
  <2>2. r \in Seq(Nat) /\ Len(r) = Len(s)
    BY <1>2, <2>1, FunctionIsSeq
  <2> QED BY <1>1, <2>2
<1>4. ASSUME NEW i \in 1..Len(r) PROVE a[i] = <<r[i]>>
  <2>1. i \in 1..Len(s) /\ a[i] = Number(s[i]) /\ s[i] = Token("data", m + i)
    BY <1>1, <1>3, <1>4, ListsAre
  <2>2. IsData(s[i]) /\ s[i].v = m + i
    BY <2>1 DEF Token, IsData
  <2> QED BY <1>3, <2>1, <2>2 DEF Number
<1>5. FlattenSeq(a) = r
  BY <1>2, <1>3, <1>4, FlattenSingles
<1> QED BY <1>1, <1>2, <1>5

(* What waits in n places of a buffer *)

Waits(mem, from, n) == Numbers(Slice(mem, from, n))
Splits(mem, from, m, k, n, w) == Waits(mem, from, w) = Waits(mem, from, m) \o Waits(mem, k, n)
Numbered(m, n) == [i \in 1..n |-> m + i]
\* The bytes m + 1 .. m + n, and the same tokens in two buffers.
Holds(mem, from, n, m) == \A i \in 1..n : mem[from + i] = Token("data", m + i)
Alike(s, from, t, j, n) == \A i \in 1..n : s[from + i] = t[j + i]

LEMMA WaitsIs ==
    ASSUME NEW mem \in Seq(TokenType), NEW from \in Nat, NEW n \in Nat, from + n <= Len(mem)
    PROVE  Slice(mem, from, n) \in Seq(TokenType) /\ Waits(mem, from, n) \in Seq(Nat)
<1>1. PICK a : a = Slice(mem, from, n)
  OBVIOUS
<1>2. IsSlice(a, TokenType, mem, from, n)
  BY <1>1, SliceOf
<1>3. a \in Seq(TokenType)
  BY <1>2 DEF IsSlice
<1> QED BY <1>1, <1>3, NumbersType DEF Waits

\* The two parts of what waits: what goes out and what does not.
LEMMA WaitsSplits ==
    ASSUME NEW mem \in Seq(TokenType), NEW from \in Nat, NEW m \in Nat, NEW n \in Nat,
           NEW k \in Nat, k = from + m, NEW w \in Nat, w = m + n, from + w <= Len(mem)
    PROVE  Splits(mem, from, m, k, n, w)
<1>1. PICK a, b, c : a = Slice(mem, from, m) /\ b = Slice(mem, k, n) /\ c = Slice(mem, from, w)
  OBVIOUS
<1>2. Len(mem) \in Nat /\ from + m <= Len(mem) /\ k + n <= Len(mem)
  BY LenProperties
<1>3. a \in Seq(TokenType) /\ b \in Seq(TokenType)
  BY <1>1, <1>2, WaitsIs
<1>4. a \o b = c
  <2>1. from + m + n <= Len(mem)
    BY <1>2
  <2>2. Slice(mem, from, m) \o Slice(mem, from + m, n) = Slice(mem, from, m + n)
    BY <2>1, SliceSplits
  <2> QED BY <1>1, <2>2
<1>5. Numbers(c) = Numbers(a) \o Numbers(b)
  BY <1>3, <1>4, NumbersConcat
<1> QED BY <1>1, <1>5 DEF Waits, Splits

LEMMA WaitsFresh ==
    ASSUME NEW m \in Nat, NEW mem \in Seq(TokenType), NEW from \in Nat, NEW n \in Nat,
           from + n <= Len(mem), Holds(mem, from, n, m)
    PROVE  Waits(mem, from, n) = Numbered(m, n)
<1>1. PICK a : a = Slice(mem, from, n)
  OBVIOUS
<1>2. IsSlice(a, TokenType, mem, from, n)
  BY <1>1, SliceOf
<1>3. a \in Seq(TokenType) /\ Len(a) = n /\ \A i \in 1..Len(a) : a[i] = Token("data", m + i)
  BY <1>2 DEF IsSlice, Holds
<1>4. Numbers(a) = [i \in 1..Len(a) |-> m + i]
  BY <1>3, NumbersFresh
<1> QED BY <1>1, <1>3, <1>4 DEF Waits, Numbered

LEMMA WaitsNone ==
    ASSUME NEW mem \in Seq(TokenType), NEW from \in Nat, NEW n \in Nat, from + n <= Len(mem),
           \A i \in 1..n : ~IsData(mem[from + i])
    PROVE  Waits(mem, from, n) = <<>>
<1>1. PICK a : a = Slice(mem, from, n)
  OBVIOUS
<1>2. IsSlice(a, TokenType, mem, from, n)
  BY <1>1, SliceOf
<1>3. a \in Seq(TokenType) /\ Len(a) = n /\ \A i \in 1..Len(a) : ~IsData(a[i])
  BY <1>2 DEF IsSlice
<1>4. Numbers(a) = <<>>
  BY <1>3, NumbersNone
<1> QED BY <1>1, <1>4 DEF Waits

\* Only what is in these places matters.
LEMMA WaitsSame ==
    ASSUME NEW s \in Seq(TokenType), NEW t \in Seq(TokenType), NEW from \in Nat, NEW n \in Nat,
           NEW j \in Nat, from + n <= Len(s), j + n <= Len(t), Alike(s, from, t, j, n)
    PROVE  Waits(s, from, n) = Waits(t, j, n)
<1>1. PICK a, b : a = Slice(s, from, n) /\ b = Slice(t, j, n)
  OBVIOUS
<1>2. IsSlice(a, TokenType, s, from, n) /\ IsSlice(b, TokenType, t, j, n)
  BY <1>1, SliceOf
<1>3. /\ a \in Seq(TokenType) /\ b \in Seq(TokenType) /\ Len(a) = Len(b)
      /\ \A i \in 1..Len(a) : a[i] = b[i]
  BY <1>2 DEF IsSlice, Alike
<1>4. a = b
  BY <1>3, SeqEqual
<1> QED BY <1>1, <1>4 DEF Waits

(* The steps of the stream *)

Queue == Numbers(SubSeq(rbout, rbsend + 1, rbpos))
Streams == Stream!Next \/ UNCHANGED Stream!streamVars

LEMMA QueueIs ==
    ASSUME NEW mem, NEW from \in Nat, NEW n \in Nat
    PROVE  /\ rbout = mem /\ rbsend = from /\ rbpos = from + n => Queue = Waits(mem, from, n)
           /\ rbout' = mem /\ rbsend' = from /\ rbpos' = from + n => Queue' = Waits(mem, from, n)
BY DEF Queue, Waits, Slice

LEMMA QueueNone ==
    ASSUME NEW mem \in Seq(TokenType), NEW from \in Nat, NEW to \in Nat, to <= from
    PROVE  /\ rbout = mem /\ rbsend = from /\ rbpos = to => Queue = <<>>
           /\ rbout' = mem /\ rbsend' = from /\ rbpos' = to => Queue' = <<>>
<1>1. SubSeq(mem, from + 1, to) = <<>>
  OBVIOUS
<1>2. <<>> \in Seq(TokenType) /\ \A i \in 1..Len(<<>>) : ~IsData(<<>>[i])
  OBVIOUS
<1>3. Numbers(<<>>) = <<>>
  BY <1>2, NumbersNone
<1> QED BY <1>1, <1>3 DEF Queue

LEMMA QueueType ==
    ASSUME TypeInv
    PROVE  /\ Queue \in Seq(Nat) /\ Numbers(wire) \in Seq(Nat) /\ Over \in BOOLEAN
           /\ rbpos <= rbsend => Queue = <<>>
<1>1. PICK mem \in Seq(TokenType), from \in Nat, to \in Nat :
          mem = rbout /\ from = rbsend /\ to = rbpos /\ to <= Len(mem)
  BY Sizes
<1>2. ASSUME rbpos <= rbsend PROVE Queue = <<>>
  BY <1>1, <1>2, QueueNone
<1>3. ASSUME ~(rbpos <= rbsend) PROVE Queue \in Seq(Nat)
  <2>1. PICK n \in Nat : n = to - from
    BY <1>1, <1>3
  <2>2. from + n <= Len(mem) /\ rbpos = from + n
    BY <1>1, <2>1
  <2>3. Waits(mem, from, n) \in Seq(Nat)
    BY <2>2, WaitsIs
  <2>4. Queue = Waits(mem, from, n)
    BY <1>1, <2>2, QueueIs
  <2> QED BY <2>3, <2>4
<1>4. Queue \in Seq(Nat)
  <2>1. CASE rbpos <= rbsend
    BY <1>2, <2>1
  <2> QED BY <1>3, <2>1
<1>5. wire \in Seq(TokenType) /\ Numbers(wire) \in Seq(Nat)
  BY Sizes, NumbersType
<1>6. Over \in BOOLEAN
  BY DEF Over
<1> QED BY <1>2, <1>4, <1>5, <1>6

LEMMA Rests == ASSUME Queue' = Queue, UNCHANGED <<wire, made>> PROVE Streams
<1>1. Numbers(wire)' = Numbers(wire) /\ Over' = Over
  BY DEF Over
<1> QED BY <1>1 DEF Streams, Stream!streamVars, Queue

LEMMA Still == ASSUME UNCHANGED <<rbout, rbpos, rbsend, wire, made>> PROVE Streams
BY Rests DEF Queue

LEMMA Drops == ASSUME Queue' = <<>>, UNCHANGED <<wire, made>> PROVE Streams
<1>1. Numbers(wire)' = Numbers(wire) /\ Over' = Over
  BY DEF Over
<1>2. Stream!Drop
  BY <1>1 DEF Stream!Drop, Queue
<1> QED BY <1>2 DEF Streams, Stream!Next

LEMMA Accepts ==
    ASSUME TypeInv, NEW kept, kept = Queue \/ kept = <<>>, NEW n \in Nat, made' = made + n,
           wire' = wire, Queue' = kept \o Numbered(made, n)
    PROVE  Streams
<1>0. made \in Nat /\ Queue \in Seq(Nat)
  BY Sizes, QueueType
<1>1. Numbers(wire)' = Numbers(wire) /\ Over' = Over
  BY DEF Over
<1>2. CASE n = 0
  <2>1. Numbered(made, n) = <<>> /\ made' = made
    BY <1>0, <1>2 DEF Numbered
  <2>2. Queue \o <<>> = Queue /\ <<>> \o <<>> = <<>>
    BY <1>0
  <2>3. Queue' = kept
    BY <2>1, <2>2
  <2>4. CASE kept = Queue
    BY <2>1, <2>3, <2>4, Rests
  <2>5. CASE kept = <<>>
    BY <2>1, <2>3, <2>5, Drops
  <2> QED BY <2>4, <2>5
<1>3. CASE n # 0
  <2>1. n \in 1..made' - made
    BY <1>0, <1>3
  <2>2. Stream!Fresh(n) = Numbered(made, n)
    BY DEF Stream!Fresh, Numbered
  <2>3. Stream!Accept(kept, n)
    BY <1>1, <2>2 DEF Stream!Accept, Queue
  <2>4. Stream!Accept(Queue, n) \/ Stream!Accept(<<>>, n)
    BY <2>3
  <2> QED BY <2>1, <2>4 DEF Streams, Stream!Next, Queue
<1> QED BY <1>2, <1>3

LEMMA Refuses ==
    ASSUME TypeInv, NEW n \in Nat, n >= 1, made' = made + n, UNCHANGED <<rbout, rbpos, rbsend, wire>>
    PROVE  Streams
<1>1. Queue' = Queue /\ Numbers(wire)' = Numbers(wire) /\ Over' = Over
  BY DEF Queue, Over
<1>2. made \in Nat /\ n \in 1..made' - made
  <2>1. made \in Nat
    BY Sizes
  <2> QED BY <2>1
<1>3. Stream!Refuse(n)
  BY <1>1 DEF Stream!Refuse, Queue
<1> QED BY <1>2, <1>3 DEF Streams, Stream!Next

(* n new bytes behind pos, which is where the waiting ones end, or 0.       *)
LEMMA Grows ==
    ASSUME TypeInv, rbout' \in Seq(TokenType), NEW pos \in Nat, NEW n \in Nat,
           pos = 0 \/ (pos = rbpos /\ rbsend = 0), rbsend' = 0, rbpos' = pos + n,
           pos + n <= Len(rbout'), made' = made + n, wire' = wire,
           \A i \in 1..pos : rbout'[i] = rbout[i],
           \A i \in 1..n : rbout'[pos + i] = Token("data", made + i)
    PROVE  Streams
<1>0. rbout \in Seq(TokenType) /\ rbpos \in Nat /\ rbpos <= Len(rbout) /\ made \in Nat
  BY Sizes
<1>1. PICK mem \in Seq(TokenType), old \in Seq(TokenType), z \in Nat, m \in Nat, w \in Nat :
          mem = rbout' /\ old = rbout /\ z = 0 /\ m = made /\ w = pos + n
  BY <1>0
<1>2. /\ Len(mem) \in Nat /\ z + pos = pos /\ z + w <= Len(mem) /\ pos + n <= Len(mem)
      /\ z + pos <= Len(mem) /\ z + pos <= Len(old)
  BY <1>0, <1>1, LenProperties
<1>3. Splits(mem, z, pos, pos, n, w)
  <2>1. /\ mem \in Seq(TokenType) /\ z \in Nat /\ w \in Nat
        /\ pos = z + pos /\ w = pos + n /\ z + w <= Len(mem)
    BY <1>1, <1>2
  <2> QED BY <2>1, WaitsSplits
<1>4. Waits(mem, pos, n) = Numbered(m, n)
  <2>1. Holds(mem, pos, n, m)
    BY <1>1 DEF Holds
  <2>2. mem \in Seq(TokenType) /\ m \in Nat /\ pos + n <= Len(mem)
    BY <1>1, <1>2
  <2> QED BY <2>1, <2>2, WaitsFresh
<1>5. Waits(mem, z, pos) = Waits(old, z, pos)
  <2>1. Alike(mem, z, old, z, pos)
    BY <1>1 DEF Alike
  <2> QED BY <1>2, <2>1, WaitsSame
<1>6. Queue' = Waits(mem, z, w)
  <2>1. rbout' = mem /\ rbsend' = z /\ rbpos' = z + w
    BY <1>1
  <2> QED BY <2>1, QueueIs
<1>7. Waits(old, z, pos) = Queue \/ Waits(old, z, pos) = <<>>
  <2>1. CASE pos = 0
    <3>1. \A i \in 1..pos : ~IsData(old[z + i])
      BY <2>1
    <3> QED BY <1>2, <3>1, WaitsNone
  <2>2. CASE pos = rbpos /\ rbsend = 0
    <3>1. rbout = old /\ rbsend = z /\ rbpos = z + pos
      BY <1>1, <2>2
    <3> QED BY <3>1, QueueIs
  <2> QED BY <2>1, <2>2
<1>8. PICK kept : kept = Waits(old, z, pos)
  OBVIOUS
<1>9. Queue' = kept \o Numbered(made, n)
  BY <1>1, <1>3, <1>4, <1>5, <1>6, <1>8 DEF Splits
<1> QED BY <1>7, <1>8, <1>9, Accepts

(* What goes out is the front of what waits.                                *)
LEMMA FrontGoes ==
    ASSUME NEW x \in Seq(Nat), NEW y \in Seq(Nat), Queue = x \o y, Queue' = y,
           Numbers(wire)' = Numbers(wire) \o x, ~Over, ~Over', made' = made
    PROVE  Streams
<1>1. PICK q, m : q = x \o y /\ m = Len(x)
  OBVIOUS
<1>2. /\ SubSeq(q, 1, m) = x /\ SubSeq(q, m + 1, Len(q)) = y /\ m \in 0..Len(q)
  <2>1. /\ SubSeq(x \o y, 1, Len(x)) = x /\ SubSeq(x \o y, Len(x) + 1, Len(x \o y)) = y
        /\ Len(x) \in 0..Len(x \o y)
    BY HalvesAre
  <2> QED BY <1>1, <2>1
<1>3. Over' = Over
  BY DEF Over
<1>4. Queue = q
  BY <1>1
<1>5. Stream!Deliver(m)
  BY <1>2, <1>3, <1>4 DEF Stream!Deliver, Queue
<1>6. m \in 0..Len(Queue)
  BY <1>2, <1>4
<1> QED BY <1>5, <1>6 DEF Streams, Stream!Next, Queue

\* A ::write adds the data among what it sent.
LEMMA WireNumbers ==
    ASSUME wire \in Seq(TokenType), NEW head \in Seq(TokenType), NEW part \in Seq(TokenType),
           wire' = wire \o head \o part, \A i \in 1..Len(head) : ~IsData(head[i])
    PROVE  Numbers(wire)' = Numbers(wire) \o Numbers(part)
<1>1. PICK w \in Seq(TokenType), a \in Seq(TokenType) : w = wire /\ a = w \o head
  <2>1. wire \o head \in Seq(TokenType)
    BY Joined
  <2> QED BY <2>1
<1>2. Numbers(a) = Numbers(w) \o Numbers(head)
  BY <1>1, NumbersConcat
<1>3. Numbers(head) = <<>>
  BY NumbersNone
<1>4. Numbers(w) \in Seq(Nat)
  BY NumbersType
<1>5. Numbers(w) \o <<>> = Numbers(w)
  BY <1>4
<1>6. Numbers(a \o part) = Numbers(a) \o Numbers(part)
  BY NumbersConcat
<1>7. wire' = a \o part
  BY <1>1
<1> QED BY <1>1, <1>2, <1>3, <1>5, <1>6, <1>7

\* No END_REQUEST comes with it.
LEMMA StillUnended ==
    ASSUME wire \in Seq(TokenType), NEW mem, NEW from \in Nat, NEW n, NEW head \in Seq(TokenType),
           NEW bw \in Nat, WentOut(mem, from, n, head, bw), ~Over,
           \A k \in 1..Len(head) : head[k].t # "end", \A k \in 1..bw : mem[from + k].t # "end"
    PROVE  ~Over'
<1>1. Sources(mem, from, head, bw)
  BY Placed
<1>2. wire' \in Seq(TokenType)
  BY DEF WentOut
<1> SUFFICES ASSUME NEW i \in 1..Len(wire') PROVE wire'[i].t # "end"
  BY <1>2 DEF Over
<1>3. CASE i \in 1..Len(wire) /\ wire'[i] = wire[i]
  BY <1>3 DEF Over
<1>4. ASSUME NEW k \in 1..Len(head), wire'[i] = head[k] PROVE wire'[i].t # "end"
  BY <1>4
<1>5. ASSUME NEW k \in 1..bw, wire'[i] = mem[from + k] PROVE wire'[i].t # "end"
  BY <1>5
<1> QED BY <1>1, <1>3, <1>4, <1>5 DEF Sources

(* A ::write of n tokens of mem, whose data are what waits.                 *)
LEMMA DataStreams ==
    ASSUME TypeInv, ~Over, made' = made, NEW mem \in Seq(TokenType), NEW pos \in Nat,
           NEW from \in Nat, NEW n \in Nat, from + n <= Len(mem), NEW head \in Seq(TokenType),
           Len(head) <= SockBuf - inflight, NEW st, NEW status,
           \A k \in 1..Len(head) : head[k].t # "end" /\ ~IsData(head[k]),
           \A k \in 1..n : mem[from + k].t # "end",
           Queue = Waits(mem, from, n),
           pos = from + n \/ (pos <= from + n /\ n <= SockBuf - inflight - Len(head)),
           SendData(mem, pos, from, n, head, st, status)
    PROVE  Streams /\ ~Over'
<1>0. /\ wire \in Seq(TokenType) /\ Len(head) \in Nat /\ SockBuf \in Nat /\ inflight \in Nat
      /\ Len(mem) \in Nat
  BY Sizes, LenProperties
<1>1. PICK bw \in 0..n : WentOut(mem, from, n, head, bw)
  BY Transmitted
<1>2. bw \in Nat /\ bw <= n /\ bw = AtMost(n, SockBuf - inflight - Len(head))
  BY <1>1 DEF WentOut
<1>3. \A k \in 1..bw : mem[from + k].t # "end"
  BY <1>2
<1>4. ~Over'
  BY <1>0, <1>1, <1>2, <1>3, StillUnended
<1>5. PICK rest \in Nat, k \in Nat : rest = n - bw /\ k = from + bw
  BY <1>2
<1>6. n = bw + rest /\ from + bw <= Len(mem) /\ k + rest <= Len(mem) /\ from + n = k + rest
  <2>1. PICK b \in Nat, l \in Nat : b = bw /\ l = Len(mem) /\ b <= n /\ rest = n - b /\ k = from + b
    BY <1>0, <1>2, <1>5
  <2>2. from + n <= l
    BY <2>1
  <2>3. n = b + rest /\ from + b <= l /\ k + rest <= l /\ from + n = k + rest
    BY <2>1, <2>2
  <2> QED BY <2>1, <2>3
<1>7. PICK x \in Seq(Nat), y \in Seq(Nat) : x = Waits(mem, from, bw) /\ y = Waits(mem, k, rest)
  <2>1. Waits(mem, from, bw) \in Seq(Nat)
    BY <1>2, <1>6, WaitsIs
  <2>2. Waits(mem, k, rest) \in Seq(Nat)
    BY <1>6, WaitsIs
  <2> QED BY <2>1, <2>2
<1>8. Queue = x \o y
  <2>1. Splits(mem, from, bw, k, rest, n)
    BY <1>2, <1>5, <1>6, WaitsSplits
  <2> QED BY <1>7, <2>1 DEF Splits
<1>9. rbout' = mem /\ rbsend' = k /\ rbpos' = pos
  BY <1>1, <1>5 DEF SendData, WentOut
<1>10. Queue' = y
  <2>1. CASE pos = from + n
    <3>1. rbpos' = k + rest
      BY <1>6, <1>9, <2>1
    <3> QED BY <1>7, <1>9, <3>1, QueueIs
  <2>2. CASE pos <= from + n /\ n <= SockBuf - inflight - Len(head)
    <3>0. bw = n
      BY <1>0, <1>2, <2>2 DEF AtMost
    <3>1. rest = 0 /\ pos <= k
      BY <1>5, <2>2, <3>0
    <3>2. Queue' = <<>>
      BY <1>9, <3>1, QueueNone
    <3>3. \A i \in 1..rest : ~IsData(mem[k + i])
      BY <3>1
    <3>4. Waits(mem, k, rest) = <<>>
      BY <1>6, <3>3, WaitsNone
    <3> QED BY <1>7, <3>2, <3>4
  <2> QED BY <2>1, <2>2
<1>11. Numbers(wire)' = Numbers(wire) \o x
  <2>1. PICK part : part = Slice(mem, from, bw)
    OBVIOUS
  <2>2. part \in Seq(TokenType) /\ Numbers(part) = x
    BY <1>2, <1>6, <1>7, <2>1, WaitsIs DEF Waits
  <2>3. wire' = wire \o head \o part
    BY <1>2, <2>1 DEF SendData, Slice
  <2> QED BY <1>0, <2>2, <2>3, WireNumbers
<1> QED BY <1>4, <1>8, <1>10, <1>11, FrontGoes

(* What the stream needs of the output and of the thread: END_REQUEST is    *)
(* composed for a response that is over, and sent when nothing waits; once  *)
(* it is, only the scheduler has the request. A flush() in its last round   *)
(* has sent everything, and must not start another. A status is set before  *)
(* anything is sent.                                                        *)
Ending ==
    /\ Over => ~Open /\ rbpos <= rbsend
    /\ state \in {"EOF", "WAIT"} => rbpos <= rbsend
    /\ state = "END" => /\ rbpos = 2 /\ stdout_count = 1
                        /\ rbout[1].t = "empty" /\ rbout[2].t = "end"
    /\ Open => \A i \in 1..rbpos : rbout[i].t # "end"
    /\ (Does("status") /\ Open /\ stdout_count = 0) => wire = <<>> /\ inflight = 0
Yielding ==
    /\ ~Open => ctl \in {"write", "free", "poll", "work"}
    /\ ctl = "flush" => state = "FLUSH" \/ (state = "OPEN" /\ ~pollout)
StreamInv == peerOpen => Ending /\ Yielding

(* What send() does to the stream *)

LEMMA Places ==
    ASSUME NEW k \in Nat, NEW n \in Nat, NEW to \in Nat, k + n <= to
    PROVE  \A i \in 1..n : k + i \in 1..to
OBVIOUS

LEMMA NoHead == \E head \in Seq(TokenType) : head = <<>> /\ Len(head) = 0
<1>1. <<>> \in Seq(TokenType) /\ Len(<<>>) = 0
  OBVIOUS
<1> QED BY <1>1

LEMMA ClosingStreams ==
    ASSUME TypeInv, ~Over, Queue = <<>>, made' = made, setup' = setup,
           NEW mem \in Seq(TokenType), Len(mem) >= 2, mem[1].t = "empty", mem[2].t = "end",
           NEW from \in Nat, NEW n \in Nat, from + n = 2, NEW status,
           SendData(mem, 2, from, n, <<>>, "END", status)
    PROVE  Streams /\ Ending'
<1>0. wire \in Seq(TokenType) /\ SockBuf \in Nat /\ inflight \in 0..SockBuf /\ from + n <= Len(mem)
  BY Sizes
<1>1. PICK head \in Seq(TokenType) : head = <<>> /\ Len(head) = 0
  BY NoHead
<1>2. Len(head) <= SockBuf - inflight /\ SendData(mem, 2, from, n, head, "END", status)
  BY <1>0, <1>1
<1>3. PICK bw \in 0..n : WentOut(mem, from, n, head, bw)
  <2>1. 2 \in Nat
    OBVIOUS
  <2> QED BY <1>0, <1>2, <2>1, Transmitted
<1>4. bw \in Nat /\ bw <= n /\ bw = AtMost(n, SockBuf - inflight - Len(head)) /\ rbsend' = from + bw
  BY <1>3 DEF WentOut
<1>5. /\ rbout' = mem /\ rbpos' = 2 /\ stdout_count' = 1 /\ state' = "END"
      /\ wire' = wire \o head \o SubSeq(mem, from + 1, from + bw)
  BY <1>2, <1>4 DEF SendData, Counted
<1>6. PICK rest \in Nat, k \in Nat : rest = n - bw /\ k = from + bw /\ k + rest = 2
  <2>1. bw \in Nat /\ bw <= n
    BY <1>4
  <2>2. n - bw \in Nat /\ from + bw \in Nat /\ (from + bw) + (n - bw) = 2
    BY <2>1
  <2> QED BY <2>2
<1>7. \A i \in 1..2 : ~IsData(mem[i])
  BY DEF IsData
<1>8. Waits(mem, from, bw) = <<>> /\ Slice(mem, from, bw) \in Seq(TokenType)
  <2>1. \A i \in 1..bw : from + i \in 1..2
    <3>1. 2 \in Nat /\ from + bw <= 2
      BY <1>4
    <3> QED BY <1>4, <3>1, Places
  <2>2. \A i \in 1..bw : ~IsData(mem[from + i])
    BY <1>7, <2>1
  <2>3. from + bw <= Len(mem)
    <3>1. from + bw <= 2
      BY <1>4
    <3> QED BY <1>0, <1>4, <3>1, LenProperties
  <2> QED BY <1>4, <2>2, <2>3, WaitsNone, WaitsIs
<1>9. Queue' = <<>>
  <2>1. \A i \in 1..rest : k + i \in 1..2
    <3>1. 2 \in Nat /\ k + rest <= 2
      BY <1>6
    <3> QED BY <3>1, Places
  <2>2. \A i \in 1..rest : ~IsData(mem[k + i])
    BY <1>7, <2>1
  <2>3. k + rest <= Len(mem)
    BY <1>6
  <2>4. Waits(mem, k, rest) = <<>>
    BY <2>2, <2>3, WaitsNone
  <2>5. rbout' = mem /\ rbsend' = k /\ rbpos' = k + rest
    BY <1>4, <1>5, <1>6
  <2> QED BY <2>4, <2>5, QueueIs
<1>10. Numbers(wire)' = Numbers(wire)
  <2>1. PICK part \in Seq(TokenType) : part = Slice(mem, from, bw) /\ Numbers(part) = <<>>
    BY <1>8 DEF Waits
  <2>2. wire' = wire \o head \o part
    BY <1>5, <2>1 DEF Slice
  <2>3. \A i \in 1..Len(head) : ~IsData(head[i])
    BY <1>1
  <2>4. Numbers(wire)' = Numbers(wire) \o Numbers(part)
    BY <1>0, <2>2, <2>3, WireNumbers
  <2>5. Numbers(wire) \in Seq(Nat)
    BY QueueType
  <2> QED BY <2>1, <2>4, <2>5
<1>11. Streams
  <2>1. CASE Over'
    <3>1. Stream!Close
      BY <1>9, <1>10, <2>1 DEF Stream!Close, Queue, Over
    <3> QED BY <3>1 DEF Streams, Stream!Next
  <2>2. CASE ~Over'
    <3>1. Over' = Over
      BY <2>2 DEF Over
    <3> QED BY <1>9, <1>10, <3>1 DEF Streams, Stream!streamVars, Queue
  <2> QED BY <2>1, <2>2
<1>12. Over' => rbpos' <= rbsend'
  <2>1. CASE bw = n
    BY <1>4, <1>5, <2>1
  <2>2. CASE bw # n
    <3>1. \A i \in 1..bw : from + i = 1
      BY <1>4, <2>2
    <3>2. \A i \in 1..bw : mem[from + i].t # "end"
      BY <3>1
    <3>3. \A i \in 1..Len(head) : head[i].t # "end"
      BY <1>1
    <3>4. ~Over'
      BY <1>0, <1>3, <1>4, <3>2, <3>3, StillUnended
    <3> QED BY <3>4
  <2> QED BY <2>1, <2>2
<1>13. ~Open'
  BY <1>5 DEF Open
<1>14. Ending'
  BY <1>5, <1>12, <1>13 DEF Ending
<1> QED BY <1>11, <1>14

\* A ::write of data leaves the response open.
LEMMA OpenAfterData ==
    ASSUME Open, ~Over', state' = state, stdout_count' = 1,
           \A i \in 1..rbpos' : rbout'[i].t # "end"
    PROVE  Ending'
BY DEF Open, Ending

LEMMA MoreStreams ==
    ASSUME TypeInv, Ending, SendMore, made' = made, setup' = setup
    PROVE  Streams /\ Ending'
<1>0. /\ rbout \in Seq(TokenType) /\ rbpos \in Nat /\ rbsend \in Nat /\ rbpos <= Len(rbout)
      /\ SockBuf \in Nat /\ inflight \in 0..SockBuf /\ state \in States
  BY Sizes DEF TypeInv, TypeOK
<1>1. rbsend < rbpos /\ SendData(rbout, rbpos, rbsend, SendSize, <<>>, state, app_status)
  BY <1>0 DEF SendMore, SendSize
<1>2. ~Over /\ (Open \/ state = "END")
  BY <1>0, <1>1 DEF Ending, Open, States
<1>3. PICK mem \in Seq(TokenType), from \in Nat, pos \in Nat, n \in Nat :
          mem = rbout /\ from = rbsend /\ pos = rbpos /\ n = pos - from /\ n = SendSize
  <2>1. rbpos - rbsend \in Nat /\ SendSize = rbpos - rbsend
    BY <1>0, <1>1 DEF SendSize
  <2> QED BY <1>0, <2>1
<1>4. from + n = pos /\ from + n <= Len(mem) /\ pos <= Len(mem)
  BY <1>0, <1>3
<1>5. SendData(mem, pos, from, n, <<>>, state, app_status)
  BY <1>1, <1>3
<1>6. CASE Open
  <2>1. PICK head \in Seq(TokenType) : head = <<>> /\ Len(head) = 0
    BY NoHead
  <2>2. Len(head) <= SockBuf - inflight /\ SendData(mem, pos, from, n, head, state, app_status)
    BY <1>0, <1>5, <2>1
  <2>3. \A k \in 1..Len(head) : head[k].t # "end" /\ ~IsData(head[k])
    BY <2>1
  <2>4. \A i \in 1..pos : mem[i].t # "end"
    BY <1>3, <1>6 DEF Ending
  <2>5. \A k \in 1..n : mem[from + k].t # "end"
    <3>1. \A k \in 1..n : from + k \in 1..pos
      <4>1. from + n <= pos
        BY <1>4
      <4> QED BY <4>1, Places
    <3> QED BY <2>4, <3>1
  <2>6. Queue = Waits(mem, from, n)
    <3>1. rbout = mem /\ rbsend = from /\ rbpos = from + n
      BY <1>3, <1>4
    <3> QED BY <3>1, QueueIs
  <2>7. Streams /\ ~Over'
    BY <1>2, <1>4, <2>2, <2>3, <2>5, <2>6, DataStreams
  <2>8. state' = state /\ stdout_count' = 1 /\ rbout' = mem /\ rbpos' = pos
    BY <1>5 DEF SendData, Counted
  <2>9. Ending'
    BY <1>6, <2>4, <2>7, <2>8, OpenAfterData
  <2> QED BY <2>7, <2>9
<1>7. CASE state = "END"
  <2>1. pos = 2 /\ mem[1].t = "empty" /\ mem[2].t = "end"
    BY <1>3, <1>7 DEF Ending
  <2>2. \A i \in 1..2 : ~IsData(mem[i])
    BY <2>1 DEF IsData
  <2>3. Queue = <<>>
    <3>1. \A i \in 1..n : from + i \in 1..2
      <4>1. 2 \in Nat /\ from + n <= 2
        BY <1>4, <2>1
      <4> QED BY <4>1, Places
    <3>2. \A i \in 1..n : ~IsData(mem[from + i])
      BY <2>2, <3>1
    <3>3. Waits(mem, from, n) = <<>>
      BY <1>4, <3>2, WaitsNone
    <3>4. rbout = mem /\ rbsend = from /\ rbpos = from + n
      BY <1>3, <1>4
    <3> QED BY <3>3, <3>4, QueueIs
  <2>4. Len(mem) >= 2 /\ from + n = 2 /\ SendData(mem, 2, from, n, <<>>, "END", app_status)
    <3>1. Len(mem) \in Nat
      BY LenProperties
    <3> QED BY <1>4, <1>5, <1>7, <2>1, <3>1
  <2> QED BY <1>2, <2>1, <2>3, <2>4, ClosingStreams
<1> QED BY <1>2, <1>6, <1>7

\* What the first transmission does without and with a status line.
FirstSent(mem, n) ==
    \/ inflight < SockBuf /\ SendData(mem, rbpos, rbsend, n, <<Token("head", n)>>, state, 0)
    \/ /\ inflight = SockBuf
       /\ rbout' = mem /\ UNCHANGED <<state, rbpos, rbsend, stdout_count, wire, inflight>>

LEMMA FirstIs ==
    ASSUME SendFirst, rbpos \in Nat, SendSize = rbpos
    PROVE  \/ FirstSent(rbout, rbpos)
           \/ app_status > 0 /\ FirstSent(WithStatus, rbpos + StatLen)
<1>1. CASE ~(app_status > 0 /\ rbpos + StatLen < REQ_MAX_OUT)
  <2>1. SizeWith(app_status > 0 /\ rbpos + StatLen < REQ_MAX_OUT) = rbpos
    BY <1>1 DEF SizeWith
  <2> QED BY <1>1, <2>1 DEF SendFirst, FirstSent, sockVars
<1>2. CASE app_status > 0 /\ rbpos + StatLen < REQ_MAX_OUT
  <2>1. SizeWith(app_status > 0 /\ rbpos + StatLen < REQ_MAX_OUT) = rbpos + StatLen
    BY <1>2 DEF SizeWith
  <2> QED BY <1>2, <2>1 DEF SendFirst, FirstSent, sockVars
<1> QED BY <1>1, <1>2

LEMMA FirstHead ==
    ASSUME NEW n \in Nat
    PROVE  \E head \in Seq(TokenType) :
               /\ head = <<Token("head", n)>> /\ Len(head) = 1
               /\ \A k \in 1..Len(head) : head[k].t # "end" /\ ~IsData(head[k])
<1>1. Token("head", n) \in TokenType
  BY DEF Token, TokenType
<1>2. <<Token("head", n)>> \in Seq(TokenType) /\ Len(<<Token("head", n)>>) = 1
      /\ <<Token("head", n)>>[1] = Token("head", n)
  BY <1>1
<1>3. Token("head", n).t = "head"
  BY Fields
<1>4. PICK head \in Seq(TokenType) : head = <<Token("head", n)>> /\ Len(head) = 1
                                   /\ head[1] = Token("head", n)
  BY <1>2
<1>5. \A k \in 1..Len(head) : k = 1
  BY <1>4
<1>6. \A k \in 1..Len(head) : head[k].t # "end" /\ ~IsData(head[k])
  BY <1>3, <1>4, <1>5 DEF IsData
<1> QED BY <1>4, <1>6

LEMMA FirstStreams ==
    ASSUME TypeInv, StatusInv, Budget, StatusesWhole, Ending, SendFirst, made' = made, setup' = setup
    PROVE  Streams /\ Ending'
<1>0. /\ rbout \in Seq(TokenType) /\ rbpos \in Nat /\ rbsend = 0 /\ rbpos <= Len(rbout)
      /\ SockBuf \in Nat /\ inflight \in 0..SockBuf /\ state \in States /\ StatLen \in Nat
      /\ stdout_count = 0 /\ peerOpen /\ made \in Nat /\ setup \in Setups /\ setup.bytes \in Nat
      /\ SockBuf = setup.sock /\ made <= setup.bytes
  BY Sizes DEF SendFirst, TypeInv, TypeOK, Budget
<1>1. SendSize = rbpos /\ rbpos > 0
  BY <1>0 DEF SendFirst, SendSize
<1>2. ~Over /\ Open
  BY <1>0, <1>1 DEF Ending, Open, States
<1>3. PICK z \in Nat, pos \in Nat, old \in Seq(TokenType) :
          z = 0 /\ pos = rbpos /\ old = rbout /\ z + pos = pos /\ pos <= Len(old)
  BY <1>0
<1>4. Queue = Waits(old, z, pos)
  <2>1. rbout = old /\ rbsend = z /\ rbpos = z + pos
    BY <1>0, <1>3
  <2> QED BY <2>1, QueueIs
<1>5. \A i \in 1..pos : old[i].t # "end"
  BY <1>2, <1>3 DEF Ending
<1>s. ASSUME NEW mem \in Seq(TokenType), NEW n \in Nat, z + n <= Len(mem), pos <= n, inflight < SockBuf,
             \A i \in 1..n : mem[i].t # "end", Queue = Waits(mem, z, n),
             n = pos \/ n + 1 <= SockBuf - inflight,
             SendData(mem, rbpos, rbsend, n, <<Token("head", n)>>, state, 0)
      PROVE  Streams /\ Ending'
  <2>1. PICK head \in Seq(TokenType) :
            /\ head = <<Token("head", n)>> /\ Len(head) = 1
            /\ \A k \in 1..Len(head) : head[k].t # "end" /\ ~IsData(head[k])
    BY FirstHead
  <2>2. Len(head) <= SockBuf - inflight /\ SendData(mem, pos, z, n, head, state, 0)
    BY <1>0, <1>3, <1>s, <2>1
  <2>3. \A k \in 1..n : mem[z + k].t # "end"
    BY <1>3, <1>s
  <2>4. pos = z + n \/ (pos <= z + n /\ n <= SockBuf - inflight - Len(head))
    BY <1>0, <1>3, <1>s, <2>1
  <2>5. Streams /\ ~Over'
    BY <1>2, <1>s, <2>1, <2>2, <2>3, <2>4, DataStreams
  <2>6. state' = state /\ stdout_count' = 1 /\ rbout' = mem /\ rbpos' = pos
    BY <2>2 DEF SendData, Counted
  <2>7. \A i \in 1..pos : mem[i].t # "end"
    BY <1>s
  <2>8. Ending'
    BY <1>2, <2>5, <2>6, <2>7, OpenAfterData
  <2> QED BY <2>5, <2>8
<1>6. CASE FirstSent(rbout, rbpos)
  <2>1. CASE inflight < SockBuf /\ SendData(rbout, rbpos, rbsend, rbpos, <<Token("head", rbpos)>>, state, 0)
    <3>1. z + pos <= Len(old) /\ pos <= pos
      BY <1>3
    <3>2. SendData(old, rbpos, rbsend, pos, <<Token("head", pos)>>, state, 0)
      BY <1>3, <2>1
    <3> QED BY <1>4, <1>5, <1>s, <2>1, <3>1, <3>2
  <2>2. CASE rbout' = rbout /\ UNCHANGED <<state, rbpos, rbsend, stdout_count, wire, inflight>>
    <3>1. Ending'
      BY <2>2 DEF Ending, Over, Open, Does
    <3> QED BY <2>2, <3>1, Still
  <2> QED BY <1>6, <2>1, <2>2 DEF FirstSent
<1>7. CASE app_status > 0 /\ FirstSent(WithStatus, rbpos + StatLen)
  <2>1. Does("status")
    BY <1>0, <1>7 DEF StatusInv, PlainInv
  <2>2. inflight = 0 /\ rbpos <= made
    BY <1>0, <1>2, <2>1 DEF Ending, StatusInv, StatedInv, Open
  <2>3. setup.sock >= 2 * setup.bytes + StatLen
    BY <1>0, <2>1 DEF StatusesWhole, Roomy, Does
  <2>4. PICK mem \in Seq(TokenType), n \in Nat, s \in Nat :
            /\ mem = WithStatus /\ n = pos + s /\ s = StatLen /\ Len(mem) = n
            /\ \A i \in 1..s : mem[i] = Token("stat", app_status)
            /\ \A i \in 1..pos : mem[s + i] = old[i]
    <3>1. pos + StatLen \in Nat /\ pos + StatLen = StatLen + rbpos
      BY <1>0, <1>3
    <3> QED BY <1>0, <1>3, <3>1, WithStatusType
  <2>5. n + 1 <= SockBuf - inflight /\ inflight < SockBuf
    <3>1. PICK b \in Nat, w \in Nat, p \in Nat, l \in Nat :
              /\ b = setup.bytes /\ w = SockBuf /\ p = rbpos /\ l = StatLen /\ n = p + l
              /\ p <= b /\ p > 0 /\ w >= 2 * b + l
      BY <1>0, <1>1, <1>3, <2>2, <2>3, <2>4
    <3>2. n + 1 <= w
      BY <3>1
    <3> QED BY <2>2, <3>1, <3>2
  <2>6. SendData(mem, rbpos, rbsend, n, <<Token("head", n)>>, state, 0)
    <3>1. rbpos + StatLen = n
      BY <1>3, <2>4
    <3>2. FirstSent(mem, n)
      BY <1>7, <2>4, <3>1
    <3>3. inflight # SockBuf
      BY <1>0, <2>5
    <3> QED BY <3>2, <3>3 DEF FirstSent
  <2>7. ASSUME NEW i \in 1..n PROVE mem[i].t # "end"
    <3>1. CASE i <= s
      <4>1. i \in 1..s
        BY <3>1
      <4> QED BY <2>4, <4>1, Fields
    <3>2. CASE ~(i <= s)
      <4>1. i - s \in 1..pos /\ i = s + (i - s)
        BY <2>4, <3>2
      <4>2. PICK k \in 1..pos : i = s + k
        BY <4>1
      <4> QED BY <1>5, <2>4, <4>2
    <3> QED BY <3>1, <3>2
  <2>8. z + n <= Len(mem) /\ pos <= n /\ z + s <= Len(mem) /\ s + pos <= Len(mem) /\ s = z + s
        /\ n = s + pos
    BY <1>3, <2>4
  <2>9. Waits(mem, z, s) = <<>>
    <3>1. \A i \in 1..s : ~IsData(mem[z + i])
      BY <1>3, <2>4, Fields DEF IsData
    <3> QED BY <2>8, <3>1, WaitsNone
  <2>10. Waits(mem, s, pos) = Waits(old, z, pos)
    <3>1. Alike(mem, s, old, z, pos)
      BY <1>3, <2>4 DEF Alike
    <3>2. z + pos <= Len(old)
      BY <1>3
    <3> QED BY <2>8, <3>1, <3>2, WaitsSame
  <2>11. Queue = Waits(mem, z, n)
    <3>1. Splits(mem, z, s, s, pos, n)
      BY <2>8, WaitsSplits
    <3>2. Waits(mem, z, n) = <<>> \o Queue
      BY <1>4, <2>9, <2>10, <3>1 DEF Splits
    <3>3. Queue \in Seq(Nat)
      BY QueueType
    <3> QED BY <3>2, <3>3
  <2> QED BY <1>s, <2>5, <2>6, <2>7, <2>8, <2>11
<1> QED BY <1>0, <1>1, <1>6, <1>7, FirstIs

LEMMA SendStreams ==
    ASSUME TypeInv, StatusInv, Budget, StatusesWhole, peerOpen => Ending, send,
           made' = made, setup' = setup, peerOpen' = peerOpen
    PROVE  Streams /\ (peerOpen' => Ending')
<1>0. /\ rbout \in Seq(TokenType) /\ rbpos \in Nat /\ rbsend \in Nat /\ app_status \in Nat
      /\ state \in States
  BY Sizes DEF TypeInv, TypeOK
<1>e. ASSUME SendSize = 0 PROVE Queue = <<>> /\ rbpos <= rbsend
  <2>1. rbpos <= rbsend
    BY <1>0, <1>e DEF SendSize
  <2> QED BY <2>1, QueueType
<1>1. CASE SendFails
  <2>1. PICK mem \in Seq(TokenType), z \in Nat : mem = rbout /\ z = 0 /\ z <= z
    BY <1>0
  <2>2. rbout' = mem /\ rbsend' = z /\ rbpos' = z /\ wire' = wire /\ ~peerOpen
    BY <1>1, <2>1 DEF SendFails, clearRbOut, sockVars
  <2>3. Queue' = <<>>
    BY <2>1, <2>2, QueueNone
  <2> QED BY <2>2, <2>3, Drops
<1>2. CASE SendEndFails
  <2>0. ~peerOpen /\ wire' = wire
    BY <1>2 DEF SendEndFails, sockVars
  <2>1. CASE UNCHANGED <<rbout, rbpos, rbsend>>
    BY <2>0, <2>1, Still
  <2>2. CASE rbout' = EndBlock(app_status) /\ rbpos' = 2 /\ rbsend' = 0
    <3>1. PICK mem \in Seq(TokenType), z \in Nat, w \in Nat :
              mem = rbout' /\ z = 0 /\ w = 2 /\ z + w <= Len(mem)
              /\ mem[1] = Token("empty", 0) /\ mem[2] = Token("end", app_status)
      BY <1>0, <2>2, EndBlockType
    <3>2. \A i \in 1..w : ~IsData(mem[z + i])
      <4>1. ~IsData(mem[1]) /\ ~IsData(mem[2])
        BY <3>1, Fields DEF IsData
      <4>2. \A i \in 1..w : z + i = 1 \/ z + i = 2
        BY <3>1
      <4> QED BY <4>1, <4>2
    <3>3. rbout' = mem /\ rbsend' = z /\ rbpos' = z + w
      BY <2>2, <3>1
    <3>4. Waits(mem, z, w) = <<>>
      BY <3>1, <3>2, WaitsNone
    <3>5. Queue' = <<>>
      BY <3>3, <3>4, QueueIs
    <3> QED BY <2>0, <3>5, Drops
  <2> QED BY <1>2, <2>0, <2>1, <2>2 DEF SendEndFails
<1>3. CASE SendEnd
  <2>1. Queue = <<>> /\ state = "OPEN" /\ peerOpen
        /\ SendData(EndBlock(app_status), 2, 0, 2, <<>>, "END", app_status)
    BY <1>3, <1>e DEF SendEnd, SendData
  <2>2. ~Over
    BY <2>1 DEF Ending, Open
  <2>3. PICK mem \in Seq(TokenType), z \in Nat, w \in Nat :
            mem = EndBlock(app_status) /\ z = 0 /\ w = 2 /\ z + w = 2 /\ Len(mem) >= 2
            /\ mem[1] = Token("empty", 0) /\ mem[2] = Token("end", app_status)
    BY <1>0, EndBlockType
  <2>4. SendData(mem, 2, z, w, <<>>, "END", app_status)
    BY <2>1, <2>3
  <2>5. mem[1].t = "empty" /\ mem[2].t = "end"
    BY <2>3, Fields
  <2> QED BY <2>1, <2>2, <2>3, <2>4, <2>5, ClosingStreams
<1>4. CASE SendDone
  <2>1. /\ UNCHANGED <<rbout, rbpos, rbsend, stdout_count, wire, inflight>> /\ rbpos <= rbsend
        /\ \/ state = "END" /\ state' = "EOF"
           \/ Open /\ Open' /\ state' # "END"
           \/ state' = state
    BY <1>4, <1>e DEF SendDone, FlushSent, sockVars, Open
  <2>2. Streams
    BY <2>1, Still
  <2>3. ASSUME peerOpen PROVE Ending'
    <3>1. Ending /\ Over' = Over /\ Does("status")' = Does("status")
      BY <2>1, <2>3 DEF Over, Does
    <3> QED BY <2>1, <3>1 DEF Ending, Open
  <2> QED BY <2>2, <2>3
<1>5. CASE SendFirst
  BY <1>5, FirstStreams DEF SendFirst
<1>6. CASE SendMore
  BY <1>6, MoreStreams DEF SendMore, SendData
<1> QED BY <1>1, <1>2, <1>3, <1>4, <1>5, <1>6 DEF send

(* What the other steps do to it *)

LEMMA EndingStill ==
    ASSUME Ending, UNCHANGED <<rbout, rbpos, rbsend, stdout_count, wire, inflight, setup>>,
           state' = state \/ (Open /\ Open')
    PROVE  Ending'
<1>1. Over' = Over /\ Does("status")' = Does("status")
  BY DEF Over, Does
<1> QED BY <1>1 DEF Ending, Open

LEMMA EndingGrown ==
    ASSUME Ending, Open, Open', UNCHANGED <<wire, inflight, setup>>,
           stdout_count' = stdout_count \/ ~Does("status"),
           \A i \in 1..rbpos' : rbout'[i].t # "end"
    PROVE  Ending'
<1>1. Over' = Over /\ Does("status")' = Does("status")
  BY DEF Over, Does
<1> QED BY <1>1 DEF Ending, Open

\* The bytes of the handler's write() or of the file.
LEMMA CopyStreams ==
    ASSUME TypeInv, NEW pos \in Nat, pos = 0 \/ (pos = rbpos /\ rbsend = 0), NEW n \in Nat,
           Copy(pos, n), rbsend' = 0, wire' = wire
    PROVE  /\ Streams
           /\ Ending /\ Open => \A i \in 1..rbpos' : rbout'[i].t # "end"
<1>0. /\ rbout \in Seq(TokenType) /\ rbpos \in Nat /\ rbpos <= Len(rbout) /\ made \in Nat
      /\ Len(rbout) \in Nat
  BY Sizes, LenProperties
<1>1. pos \in 0..Len(rbout) /\ pos <= rbpos
  BY <1>0
<1>2. /\ rbout' \in Seq(TokenType) /\ Len(rbout') = pos + n
      /\ \A i \in 1..pos : rbout'[i] = rbout[i]
      /\ \A i \in 1..n : rbout'[pos + i] = Token("data", made + i)
      /\ rbpos' = pos + n /\ made' = made + n
  BY <1>0, <1>1, Copied
<1>3. Streams
  <2>1. pos + n <= Len(rbout')
    BY <1>2
  <2> QED BY <1>2, <2>1, Grows
<1>4. ASSUME Ending, Open, NEW i \in 1..pos + n PROVE rbout'[i].t # "end"
  <2>1. CASE i <= pos
    <3>1. i \in 1..pos /\ i \in 1..rbpos
      BY <1>0, <1>1, <2>1
    <3> QED BY <1>2, <1>4, <3>1 DEF Ending
  <2>2. CASE ~(i <= pos)
    <3>1. i - pos \in 1..n /\ i = pos + (i - pos)
      BY <2>2
    <3>2. PICK k \in 1..n : i = pos + k
      BY <3>1
    <3>3. rbout'[i] = Token("data", made + k)
      BY <1>2, <3>2
    <3>4. rbout'[i].t = "data"
      BY <3>3, Fields
    <3> QED BY <3>4
  <2> QED BY <2>1, <2>2
<1> QED BY <1>2, <1>3, <1>4

\* Those of a page, which are in rbout already.
LEMMA PageStreams ==
    ASSUME TypeInv, OrderInv, Does("page"), ctl \in {"done", "page"}, setOutPos,
           UNCHANGED <<rbout, rbsend, wire>>
    PROVE  /\ Streams
           /\ Ending /\ Open => \A i \in 1..rbpos' : rbout'[i].t # "end"
<1>0. /\ rbpos \in Nat /\ made \in Nat /\ html \in Nat /\ rbpos <= html /\ html <= Len(rbout)
      /\ rbsend = 0 /\ rbout \in Seq(TokenType)
  BY Sizes DEF TypeInv, PageInv
<1>1. PICK n \in Nat, pos \in Nat : n = html - rbpos /\ pos = rbpos /\ pos + n = html
  <2>1. html - rbpos \in Nat /\ rbpos + (html - rbpos) = html
    BY <1>0
  <2> QED BY <1>0, <2>1
<1>2. rbpos' = pos + n /\ made' = made + n
  BY <1>1 DEF setOutPos, Unreleased
<1>3. \A k \in 1..n : rbout[pos + k] = Token("data", made + k)
  BY <1>1 DEF OrderInv, PageOrder
<1>4. Streams
  <2>1. rbout' \in Seq(TokenType) /\ pos + n <= Len(rbout') /\ rbsend' = 0 /\ rbout' = rbout
    BY <1>0, <1>1
  <2>2. \A i \in 1..pos : rbout'[i] = rbout[i]
    BY <2>1
  <2>3. \A i \in 1..n : rbout'[pos + i] = Token("data", made + i)
    BY <1>3, <2>1
  <2> QED BY <1>0, <1>1, <1>2, <2>1, <2>2, <2>3, Grows
<1>5. ASSUME Ending, Open, NEW i \in 1..pos + n PROVE rbout'[i].t # "end"
  <2>1. CASE i <= pos
    <3>1. i \in 1..rbpos
      BY <1>1, <2>1
    <3> QED BY <1>5, <3>1 DEF Ending
  <2>2. CASE ~(i <= pos)
    <3>1. i - pos \in 1..n /\ i = pos + (i - pos)
      BY <2>2
    <3>2. PICK k \in 1..n : i = pos + k
      BY <3>1
    <3>3. rbout'[i] = Token("data", made + k)
      BY <1>3, <3>2
    <3>4. rbout'[i].t = "data"
      BY <3>3, Fields
    <3> QED BY <3>4
  <2> QED BY <2>1, <2>2
<1> QED BY <1>2, <1>4, <1>5

\* A piece of a page changes nothing that waits.
LEMMA PieceStreams ==
    ASSUME TypeInv, Does("page"), ctl = "done", NEW n \in Lengths, HPage(n)
    PROVE  /\ Streams
           /\ Ending /\ Open => \A i \in 1..rbpos' : rbout'[i].t # "end"
<1>0. /\ rbpos \in Nat /\ made \in Nat /\ html \in Nat /\ rbpos <= html /\ html <= Len(rbout)
      /\ rbsend = 0 /\ rbout \in Seq(TokenType) /\ n \in Nat /\ Len(rbout) \in Nat
  BY Sizes, LenProperties DEF TypeInv, PageInv
<1>1. html \in 0..Len(rbout) /\ rbpos \in 0..html
  BY <1>0
<1>2. /\ rbout' \in Seq(TokenType) /\ html + n <= Len(rbout')
      /\ \A i \in 1..html : rbout'[i] = rbout[i]
  BY <1>0, <1>1, PageWritten
<1>3. /\ UNCHANGED <<rbpos, rbsend, wire, made>>
  BY DEF HPage, sockVars, callVars
<1>4. PICK z \in Nat, pos \in Nat, old \in Seq(TokenType), mem \in Seq(TokenType) :
          z = 0 /\ pos = rbpos /\ old = rbout /\ mem = rbout' /\ z + pos = pos
  <2>1. 0 \in Nat /\ 0 + rbpos = rbpos
    BY <1>0
  <2> QED BY <1>0, <1>2, <2>1
<1>5. Alike(mem, z, old, z, pos)
  <2>1. \A i \in 1..pos : i \in 1..html /\ z + i = i
    BY <1>0, <1>4
  <2> QED BY <1>2, <1>4, <2>1 DEF Alike
<1>6. Waits(mem, z, pos) = Waits(old, z, pos)
  <2>1. z + pos <= Len(mem) /\ z + pos <= Len(old)
    <3>1. Len(mem) \in Nat
      BY LenProperties
    <3> QED BY <1>0, <1>2, <1>4, <3>1
  <2> QED BY <1>5, <2>1, WaitsSame
<1>7. Queue = Waits(old, z, pos)
  <2>1. rbout = old /\ rbsend = z /\ rbpos = z + pos
    BY <1>0, <1>4
  <2> QED BY <2>1, QueueIs
<1>8. Queue' = Waits(mem, z, pos)
  <2>1. rbout' = mem /\ rbsend' = z /\ rbpos' = z + pos
    BY <1>0, <1>3, <1>4
  <2> QED BY <2>1, QueueIs
<1>9. Streams
  BY <1>3, <1>6, <1>7, <1>8, Rests
<1>10. ASSUME Ending, Open, NEW i \in 1..rbpos PROVE rbout'[i].t # "end"
  <2>1. i \in 1..html
    BY <1>0
  <2> QED BY <1>2, <1>10, <2>1 DEF Ending
<1> QED BY <1>3, <1>9, <1>10

\* clearRbOut()
LEMMA ClearStreams ==
    ASSUME TypeInv, UNCHANGED <<rbout, wire, made>>, rbpos' = 0, rbsend' = 0
    PROVE  Streams
<1>1. PICK mem \in Seq(TokenType), z \in Nat : mem = rbout /\ z = 0 /\ z <= z
  BY Sizes
<1>2. rbout' = mem /\ rbsend' = z /\ rbpos' = z
  BY <1>1
<1>3. Queue' = <<>>
  BY <1>1, <1>2, QueueNone
<1> QED BY <1>3, Drops

(* Every step of the request and the web server                             *)

LEMMA RoundStreams ==
    ASSUME TypeInv, StatusInv, Budget, StatusesWhole, StreamInv, FlushRound,
           UNCHANGED <<html, setup>>
    PROVE  Streams /\ StreamInv'
<1>1. send /\ made' = made /\ peerOpen' = peerOpen /\ ctl = "flush" /\ ctl' = ctl /\ pollout
  BY DEF FlushRound, callVars
<1>2. Streams /\ (peerOpen' => Ending')
  BY <1>1, SendStreams DEF StreamInv
<1>3. ASSUME peerOpen PROVE Yielding'
  <2>1. state = "FLUSH"
    BY <1>1, <1>3 DEF StreamInv, Yielding
  <2>2. state' = "FLUSH" \/ (state' = "OPEN" /\ pollout' = FALSE)
    BY <1>1, <1>3, <2>1
       DEF send, SendFails, SendEndFails, SendEnd, SendDone, FlushSent, SendFirst, SendMore, SendData
  <2> QED BY <1>1, <2>2 DEF Yielding, Open
<1> QED BY <1>1, <1>2, <1>3 DEF StreamInv

LEMMA NextStreams ==
    ASSUME OnlyInDone, StatusesWhole, TypeInv, OutInv, OrderInv, StatusInv, Budget, StreamInv,
           [Next]_vars
    PROVE  Streams /\ StreamInv'
<1>0. /\ rbpos \in Nat /\ rbsend \in Nat /\ todo \in Nat /\ REQ_MAX_OUT \in Nat
      /\ \A n \in Lengths : n \in Nat /\ n >= 1
  BY Sizes
<1>d. ASSUME InHandler PROVE ctl \in {"exec", "done"}
  BY <1>d DEF OnlyInDone, OutInv, InHandler, Does
<1>p. ASSUME Producing PROVE ctl = "done" /\ rbsend = 0
  <2>1. ctl = "done"
    BY <1>d, <1>p DEF OnlyInDone, OutInv, Producing, Does
  <2> QED BY <2>1 DEF OutInv
<1>o. ASSUME peerOpen, ctl \notin {"write", "free", "poll", "work"}
      PROVE  Ending /\ Open
  BY <1>o DEF StreamInv, Yielding
<1>k. setup' = setup
  BY DEF Next, vars, Handler, Raw, Page, HReturn, Library, PeerReads, PeerCloses
\* Nothing of the response changes, and the thread goes on.
<1>s. ASSUME UNCHANGED <<rbout, rbpos, rbsend, stdout_count, wire, inflight, made, peerOpen>>,
             peerOpen => state' = state \/ (Open /\ Open'),
             peerOpen => Yielding'
      PROVE  Streams /\ StreamInv'
  <2>1. Streams
    BY <1>s, Still
  <2>2. peerOpen => Ending'
    BY <1>k, <1>s, EndingStill DEF StreamInv
  <2> QED BY <1>s, <2>1, <2>2 DEF StreamInv
\* A flush() begins.
<1>f. ASSUME NEW ret, NEW next, NEW n, Flushing(ret, next, n), peerOpen' = peerOpen,
             ctl \notin {"write", "free", "poll", "work"}
      PROVE  (peerOpen => Open /\ Open') /\ Yielding'
  BY <1>f, <1>o DEF Flushing, Yielding, Open
<1>1. CASE UNCHANGED vars \/ HReturn
  <2>1. CASE UNCHANGED vars
    <3>1. peerOpen => Yielding'
      BY <2>1 DEF vars, reqVars, StreamInv, Yielding, Open
    <3> QED BY <1>s, <2>1, <3>1 DEF vars, reqVars, sockVars, callVars
  <2>2. CASE HReturn
    <3>1. peerOpen => Yielding'
      BY <2>2 DEF HReturn, Yielding
    <3> QED BY <1>s, <2>2, <3>1 DEF HReturn, reqVars, sockVars, callVars
  <2> QED BY <1>1, <2>1, <2>2
<1>2. CASE PeerReads \/ PeerCloses
  <2>1. UNCHANGED <<rbout, rbpos, rbsend, wire, made, state, stdout_count, pollout, ctl>>
    BY <1>2 DEF PeerReads, PeerCloses, reqVars, callVars
  <2>2. Streams
    BY <2>1, Still
  <2>3. ASSUME peerOpen' PROVE Ending' /\ Yielding'
    <3>1. peerOpen /\ inflight # 0
      <4>1. ~PeerCloses
        BY <2>3 DEF PeerCloses
      <4>2. PeerReads
        BY <1>2, <4>1
      <4>3. peerOpen
        BY <2>3, <4>2 DEF PeerReads
      <4>4. inflight > 0
        BY <4>2 DEF PeerReads
      <4> QED BY <4>3, <4>4
    <3>2. Over' = Over /\ Does("status")' = Does("status") /\ Open' = Open
      BY <1>k, <2>1 DEF Over, Does, Open
    <3>3. Ending /\ Yielding
      BY <3>1 DEF StreamInv
    <3>4. Ending'
      BY <2>1, <3>1, <3>2, <3>3 DEF Ending
    <3>5. Yielding'
      BY <2>1, <3>2, <3>3 DEF Yielding
    <3> QED BY <3>4, <3>5
  <2> QED BY <2>2, <2>3 DEF StreamInv
\* New bytes.
<1>g. ASSUME Streams, Ending /\ Open => \A i \in 1..rbpos' : rbout'[i].t # "end",
             ctl \notin {"write", "free", "poll", "work"}, UNCHANGED <<wire, inflight, peerOpen>>,
             stdout_count' = stdout_count \/ ~Does("status"),
             Open => Open' /\ Yielding'
      PROVE  Streams /\ StreamInv'
  <2>1. ASSUME peerOpen PROVE Ending' /\ Yielding'
    <3>1. Ending /\ Open
      BY <1>g, <1>o, <2>1
    <3> QED BY <1>g, <1>k, <3>1, EndingGrown
  <2> QED BY <1>g, <2>1 DEF StreamInv
<1>w. ASSUME NEW n \in Lengths, HWriteFd(n) PROVE Streams /\ StreamInv'
  <2>1. /\ ctl = "done" /\ ctl' = "file"
        /\ UNCHANGED <<state, rbout, rbpos, rbsend, stdout_count, wire, inflight, made, peerOpen>>
    BY <1>p, <1>w DEF HWriteFd, reqVars, sockVars, callVars
  <2>2. peerOpen => Yielding'
    BY <1>o, <2>1 DEF Yielding, Open
  <2> QED BY <1>s, <2>1, <2>2
<1>3. CASE Raw
  <2>1. ASSUME NEW n \in Lengths, HWrite(n) PROVE Streams /\ StreamInv'
    <3>1. ctl = "done" /\ rbsend = 0 /\ UNCHANGED <<rbsend, stdout_count, wire, inflight, peerOpen>>
      BY <1>p, <2>1 DEF HWrite, sockVars
    <3>2. CASE FlushBegins(ctl, "copy", n) /\ UNCHANGED <<rbout, rbpos, made>>
      <4>1. (peerOpen => Open /\ Open') /\ Yielding'
        BY <1>f, <3>1, <3>2 DEF FlushBegins
      <4> QED BY <1>s, <3>1, <3>2, <4>1
    <3>3. CASE Copy(rbpos, n) /\ UNCHANGED <<state, ctl, flushVars>>
      <4>1. rbsend' = 0 /\ wire' = wire /\ n \in Nat
        BY <1>0, <3>1
      <4>2. /\ Streams
            /\ Ending /\ Open => \A i \in 1..rbpos' : rbout'[i].t # "end"
        BY <1>0, <3>1, <3>3, <4>1, CopyStreams
      <4>3. Open => Open' /\ Yielding'
        BY <3>1, <3>3 DEF Open, Yielding
      <4> QED BY <1>g, <3>1, <4>2, <4>3
    <3> QED BY <2>1, <3>2, <3>3 DEF HWrite
  <2>2. ASSUME NEW n \in Lengths, HWriteIgnored(n) PROVE Streams /\ StreamInv'
    <3>1. /\ ctl = "done" /\ made' = made + n /\ n \in Nat /\ n >= 1
          /\ UNCHANGED <<state, rbout, rbpos, rbsend, stdout_count, pollout, wire, inflight,
                         setup, ctl, peerOpen>>
      BY <1>0, <1>k, <1>p, <2>2 DEF HWriteIgnored, reqVars, sockVars
    <3>2. Streams
      BY <3>1, Refuses
    <3>3. ASSUME peerOpen PROVE Ending' /\ Yielding'
      <4>1. Ending'
        BY <3>1, <3>3, EndingStill DEF StreamInv
      <4> QED BY <3>1, <3>3, <4>1 DEF StreamInv, Yielding, Open
    <3> QED BY <3>1, <3>2, <3>3 DEF StreamInv
  <2>3. CASE HFlush
    <3>1. /\ ctl = "done" /\ Flushing(ctl, "return", 0)
          /\ UNCHANGED <<rbout, rbpos, rbsend, stdout_count, wire, inflight, made, peerOpen>>
      BY <1>p, <2>3 DEF HFlush, FlushBegins, sockVars, callVars
    <3>2. (peerOpen => Open /\ Open') /\ Yielding'
      BY <1>f, <3>1
    <3> QED BY <1>s, <3>1, <3>2
  <2> QED BY <1>3, <1>w, <2>1, <2>2, <2>3 DEF Raw
\* flush() of a page
<1>b. ASSUME bufferFlush("done"), Does("page"), ctl \in {"done", "page"}
      PROVE  Streams /\ StreamInv'
  <2>1. setOutPos /\ UNCHANGED <<rbout, rbsend, stdout_count, wire, inflight, peerOpen>>
    BY <1>b DEF bufferFlush, sockVars
  <2>2. /\ Streams
        /\ Ending /\ Open => \A i \in 1..rbpos' : rbout'[i].t # "end"
    BY <1>b, <2>1, PageStreams
  <2>3. Open => Open' /\ Yielding'
    <3>1. CASE Flushing("done", "return", 0)
      BY <3>1 DEF Flushing, Open, Yielding
    <3>2. CASE ctl' = "done" /\ state' = state
      BY <3>2 DEF Open, Yielding
    <3> QED BY <1>b, <3>1, <3>2 DEF bufferFlush
  <2> QED BY <1>b, <1>g, <2>1, <2>2, <2>3
<1>4. CASE Page
  <2>p. ASSUME InPage PROVE ctl = "done" /\ Does("page")
    BY <1>p, <2>p DEF InPage
  <2>1. ASSUME NEW n \in Lengths, HPage(n) PROVE Streams /\ StreamInv'
    <3>1. /\ ctl = "done" /\ Does("page") /\ ctl' = "page"
          /\ UNCHANGED <<state, stdout_count, wire, inflight, peerOpen>>
      BY <2>1, <2>p DEF HPage, sockVars
    <3>2. /\ Streams
          /\ Ending /\ Open => \A i \in 1..rbpos' : rbout'[i].t # "end"
      BY <2>1, <3>1, PieceStreams
    <3>3. Open => Open' /\ Yielding'
      BY <3>1 DEF Open, Yielding
    <3> QED BY <1>g, <3>1, <3>2, <3>3
  <2>2. CASE HBufferFlush
    BY <1>b, <2>2, <2>p DEF HBufferFlush
  <2>3. CASE HBufferRelease
    <3>1. /\ ctl = "done" /\ Does("page") /\ setOutPos
          /\ UNCHANGED <<state, rbout, rbsend, stdout_count, wire, inflight, ctl, peerOpen>>
      BY <2>3, <2>p DEF HBufferRelease, sockVars
    <3>2. /\ Streams
          /\ Ending /\ Open => \A i \in 1..rbpos' : rbout'[i].t # "end"
      BY <3>1, PageStreams
    <3>3. Open => Open' /\ Yielding'
      BY <3>1 DEF Open, Yielding
    <3> QED BY <1>g, <3>1, <3>2, <3>3
  <2>4. CASE HBufferClear
    <3>1. /\ ctl = "done"
          /\ UNCHANGED <<state, rbout, rbpos, rbsend, stdout_count, wire, inflight, made, ctl, peerOpen>>
      BY <2>4, <2>p DEF HBufferClear, reqVars, sockVars, callVars
    <3>2. peerOpen => Yielding'
      BY <1>o, <3>1 DEF Yielding, Open
    <3> QED BY <1>s, <3>1, <3>2
  <2>5. ASSUME NEW n \in Lengths, toRequest(n) PROVE Streams /\ StreamInv'
    BY <1>w, <2>5 DEF toRequest
  <2> QED BY <1>4, <2>1, <2>2, <2>3, <2>4, <2>5 DEF Page
<1>5. CASE Handler
  <2>1. ASSUME NEW code \in Codes, HStatus(code) \/ HEnd(code) PROVE Streams /\ StreamInv'
    <3>1. /\ ctl \in {"exec", "done"}
          /\ UNCHANGED <<state, rbout, rbpos, rbsend, stdout_count, wire, inflight, made, ctl, peerOpen>>
      BY <1>d, <1>p, <2>1 DEF HStatus, HEnd, sockVars, callVars
    <3>2. peerOpen => Yielding'
      BY <1>o, <3>1 DEF Yielding, Open
    <3> QED BY <1>s, <3>1, <3>2
  <2> QED BY <1>1, <1>3, <1>4, <1>5, <2>1 DEF Handler
<1>6. CASE optionalFlush
  <2>1. caller = "done" /\ Does("page") /\ ctl = "page"
    BY <1>6 DEF optionalFlush, OutInv, TypeInv
  <2>2. CASE bufferFlush(caller)
    BY <1>b, <2>1, <2>2
  <2>3. CASE ctl' = caller /\ UNCHANGED <<reqVars, sockVars, callVars, flushVars, html, peerOpen>>
    <3>1. peerOpen => Yielding'
      BY <1>o, <2>1, <2>3 DEF reqVars, Yielding, Open
    <3> QED BY <1>s, <2>3, <3>1 DEF reqVars, sockVars, callVars
  <2> QED BY <1>6, <2>2, <2>3 DEF optionalFlush
<1>7. CASE FlushRound /\ UNCHANGED <<html, setup>>
  BY <1>7, RoundStreams
<1>8. CASE FlushReturns
  <2>1. /\ ctl = "flush" /\ rbsend' = 0 /\ stdout_count' = 0 /\ ctl' \in {"file", "done"}
        /\ UNCHANGED <<state, wire, inflight, peerOpen>>
    BY <1>8 DEF FlushReturns, Rewound, OutInv, sockVars
  <2>2. ~Does("status")
    BY <2>1 DEF StatusInv, StatedInv
  <2>3. Open => Open' /\ Yielding'
    BY <2>1 DEF Open, Yielding
  <2>4. CASE Copy(0, todo)
    <3>1. PICK pos \in Nat : pos = 0 /\ Copy(pos, todo)
      BY <2>4
    <3>2. /\ Streams
          /\ Ending /\ Open => \A i \in 1..rbpos' : rbout'[i].t # "end"
      BY <1>0, <2>1, <3>1, CopyStreams
    <3> QED BY <1>g, <2>1, <2>2, <2>3, <3>2
  <2>5. CASE rbpos' = 0 /\ UNCHANGED <<rbout, made>>
    <3>1. Streams
      BY <2>1, <2>5, ClearStreams
    <3>2. \A i \in 1..rbpos' : rbout'[i].t # "end"
      BY <2>5
    <3> QED BY <1>g, <2>1, <2>2, <2>3, <3>1, <3>2
  <2> QED BY <1>8, <2>4, <2>5 DEF FlushReturns
<1>9. CASE FileFlush
  <2>1. /\ ctl = "file" /\ Flushing(caller, "file", todo)
        /\ UNCHANGED <<rbout, rbpos, rbsend, stdout_count, wire, inflight, made, peerOpen>>
    BY <1>9 DEF FileFlush, FlushBegins, sockVars, callVars
  <2>2. (peerOpen => Open /\ Open') /\ Yielding'
    BY <1>f, <2>1
  <2> QED BY <1>s, <2>1, <2>2
<1>10. CASE FileRead
  <2> DEFINE max == IF rbpos < REQ_MAX_OUT THEN REQ_MAX_OUT - rbpos ELSE REQ_MAX_OUT
  <2>1. br(max) \in Nat
    BY <1>0 DEF br, AtMost
  <2>2. PICK n \in Nat : n = br(max)
    BY <2>1
  <2>3. /\ ctl = "file" /\ ctl' = "file" /\ Copy(rbpos, n) /\ rbsend = 0 /\ rbsend' = 0
        /\ UNCHANGED <<state, stdout_count, wire, inflight, peerOpen>>
    BY <1>10, <2>2 DEF FileRead, OutInv, sockVars
  <2>4. /\ Streams
        /\ Ending /\ Open => \A i \in 1..rbpos' : rbout'[i].t # "end"
    BY <1>0, <2>3, CopyStreams
  <2>5. Open => Open' /\ Yielding'
    BY <2>3 DEF Open, Yielding
  <2> QED BY <1>g, <2>3, <2>4, <2>5
<1>11. CASE FileDone
  <2>1. /\ ctl = "file" /\ caller = "done"
        /\ UNCHANGED <<rbout, rbpos, rbsend, stdout_count, wire, inflight, made, peerOpen>>
    BY <1>11 DEF FileDone, OutInv, sockVars, callVars
  <2>2. CASE FlushBegins(caller, "return", 0)
    <3>1. (peerOpen => Open /\ Open') /\ Yielding'
      BY <1>f, <2>1, <2>2 DEF FlushBegins
    <3> QED BY <1>s, <2>1, <3>1
  <2>3. CASE ctl' = caller /\ state' = state
    <3>1. peerOpen => Yielding'
      BY <1>o, <2>1, <2>3 DEF Yielding, Open
    <3> QED BY <1>s, <2>1, <2>3, <3>1
  <2> QED BY <1>11, <2>2, <2>3 DEF FileDone
<1>12. CASE FileFails
  <2>1. /\ ctl = "file" /\ ctl' = "done" /\ rbpos' = 0 /\ rbsend' = 0
        /\ UNCHANGED <<state, rbout, stdout_count, wire, inflight, made, peerOpen>>
    BY <1>12 DEF FileFails, clearRbOut, OutInv, sockVars, callVars
  <2>2. Streams
    BY <2>1, ClearStreams
  <2>3. \A i \in 1..rbpos' : rbout'[i].t # "end"
    BY <2>1
  <2>4. Open => Open' /\ Yielding'
    BY <2>1 DEF Open, Yielding
  <2> QED BY <1>g, <2>1, <2>2, <2>3, <2>4
<1>13. CASE Poll \/ Work
  <2>1. /\ ctl \in {"poll", "work"}
        /\ UNCHANGED <<rbout, rbpos, rbsend, stdout_count, wire, inflight, made, peerOpen>>
    BY <1>13 DEF Poll, Work, reqVars, sockVars
  <2>2. \/ state' = state /\ ctl' \in {"work", "write"}
        \/ Open /\ Open' /\ ctl' \in {"exec", "done"}
    BY <1>13 DEF Poll, Work, reqVars, Open
  <2>3. peerOpen => Yielding'
    BY <2>2 DEF Yielding, Open
  <2> QED BY <1>s, <2>1, <2>2, <2>3
<1>14. CASE Write
  <2>1. ctl' = "free" /\ made' = made /\ peerOpen' = peerOpen
    BY <1>14 DEF Write, callVars
  <2>2. Yielding'
    BY <2>1 DEF Yielding
  <2>3. CASE send
    <3>1. Streams /\ (peerOpen' => Ending')
      BY <1>k, <2>1, <2>3, SendStreams DEF StreamInv
    <3> QED BY <2>2, <3>1 DEF StreamInv
  <2>4. CASE UNCHANGED <<reqVars, sockVars>>
    BY <1>s, <2>1, <2>2, <2>4 DEF reqVars, sockVars
  <2> QED BY <1>14, <2>3, <2>4 DEF Write
<1>15. CASE Free
  <2>1. ctl' = "poll" /\ UNCHANGED <<rbout, wire, inflight, made, peerOpen>>
    BY <1>15 DEF Free, sockVars, callVars
  <2>2. Yielding'
    BY <2>1 DEF Yielding
  <2>3. CASE state = "EOF" /\ state' = "WAIT" /\ rbpos' = 0 /\ rbsend' = 0
    <3>1. Streams
      BY <2>1, <2>3, ClearStreams
    <3>2. ~Open' /\ rbpos' <= rbsend'
      BY <2>3 DEF Open
    <3>3. Ending'
      BY <2>3, <3>2 DEF Ending
    <3> QED BY <2>2, <3>1, <3>3 DEF StreamInv
  <2>4. CASE UNCHANGED <<state, rbpos, rbsend, stdout_count>>
    BY <1>s, <2>1, <2>2, <2>4
  <2> QED BY <1>15, <2>3, <2>4 DEF Free, clearRbOut
<1>16. CASE Library
  BY <1>16, <1>6, <1>7, <1>8, <1>9, <1>10, <1>11, <1>12, <1>13, <1>14, <1>15 DEF Library
<1> QED BY <1>1, <1>2, <1>5, <1>16 DEF Next

LEMMA InitStreams == Init => Stream!Init /\ StreamInv
<1> SUFFICES ASSUME Init PROVE Stream!Init /\ StreamInv
  OBVIOUS
<1>1. rbout = <<>> /\ rbpos = 0 /\ rbsend = 0 /\ wire = <<>> /\ made = 0 /\ state = "STDIN" /\ ctl = "poll"
      /\ inflight = 0
  BY DEF Init
<1>2. ~Over
  BY <1>1 DEF Over
<1>3. Numbers(<<>>) = <<>>
  <2>1. <<>> \in Seq(TokenType) /\ \A i \in 1..Len(<<>>) : ~IsData(<<>>[i])
    OBVIOUS
  <2> QED BY <2>1, NumbersNone
<1>4. SubSeq(rbout, rbsend + 1, rbpos) = <<>>
  BY <1>1
<1>5. Stream!Init
  BY <1>1, <1>2, <1>3, <1>4 DEF Stream!Init, Over
<1>6. StreamInv
  BY <1>1, <1>2 DEF StreamInv, Ending, Yielding, Open
<1> QED BY <1>5, <1>6

(* A response is an OutputStream: its bytes reach the web server in order   *)
(* and once, what is dropped is all that waits, and END_REQUEST goes out    *)
(* when nothing does. Files may be unreadable, flushes may be any number,   *)
(* and the socket may cut a response without a status line anywhere.        *)
THEOREM ResponseImplementsStream ==
    ASSUME OnlyInDone, StatusesFit, StatusesWhole PROVE Spec => ImplementsStream
<1>0. PagesInDone
  BY InDoneFirst
<1>1. Init => Budget
  <2> SUFFICES ASSUME Init PROVE Budget
    OBVIOUS
  <2>1. setup.bytes \in Nat
    BY SetupsAssumption DEF Init
  <2> QED BY <2>1 DEF Init, Budget, InDone
<1>2. TypeInv /\ OutInv /\ Budget /\ [Next]_vars => Budget'
  BY NextBudget
<1>3. Init => Stream!Init /\ StreamInv
  BY InitStreams
<1>4. TypeInv /\ OutInv /\ OrderInv /\ StatusInv /\ Budget /\ StreamInv /\ [Next]_vars
      => StreamInv' /\ [Stream!Next]_Stream!streamVars
  BY NextStreams DEF Streams
<1> QED
  BY <1>0, <1>1, <1>2, <1>3, <1>4, InitType, NextType, InitOut, NextOut, InitOrder, NextOrder,
     InitStatus, NextStatus, PTL DEF Spec, ImplementsStream, Stream!Spec
=============================================================================
