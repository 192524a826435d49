------------------------------- MODULE Socket -------------------------------
(***************************************************************************)
(* net::Socket with the streams it is made of (stream::Stream, Readable,   *)
(* Writable, Duplex), its IOEvent, the kernel's end of the connection and  *)
(* the peer.                                                               *)
(*                                                                         *)
(* The functions of the socket call user code in their middle, so the      *)
(* thread's call stack is a variable: each frame is what is left to do of  *)
(* a function.  User code makes any number of API calls before it returns; *)
(* an API call never calls back.  The event loop is what module EventLoop  *)
(* shows it to be: reports are dispatched bit by bit to an attached event, *)
(* NextTick callbacks run in order before the loop waits, and the record   *)
(* of a detached event is freed once they have run.                        *)
(***************************************************************************)
EXTENDS Integers, Sequences

CONSTANTS
  AllowHalfOpen,  \* m_bAllowHalfOpen
  InitMayFail,    \* whether _init may be given a negative descriptor, or one
                  \* that epoll_ctl refuses
  MayReset,       \* whether the peer may reset the connection
  RdHighWater,    \* m_nReadableHighWaterMark, also the size of rdBuf, in bytes
  SndBuf,         \* the size of the kernel's send buffer, in bytes
  MaxIn,          \* most bytes the peer sends (bound)
  MaxOut,         \* most bytes the program writes (bound)
  MaxTicks        \* user code posts no callback beyond this many (bound)

ASSUME SocketAssumption ==
  /\ {AllowHalfOpen, InitMayFail, MayReset} \subseteq BOOLEAN
  /\ RdHighWater \in Nat \ {0} /\ SndBuf \in Nat \ {0}
  /\ {MaxIn, MaxOut, MaxTicks} \subseteq Nat

VARIABLES
  destroyed,  \* m_bDestroyed
  rd,         \* the members of Readable, and whether "data" has a listener
  wr,         \* the members of Writable, and m_bWRShutdown
  hup,        \* m_bHUP
  io,         \* the IOEvent behind m_wpSocketEvent and its registration
  ticks,      \* the NextTick callbacks of this socket
  report,     \* what is left to dispatch of the last report of Poll
  stack,      \* the call stack, innermost frame first
  kernel,     \* the connection: bytes in its buffers, FIN and RST seen
  delivered,  \* history: the bytes given to the listeners of "data"
  sent,       \* history: the bytes given to write(2)
  accepted,   \* history: how many bytes write() accepted
  refused,    \* history: the last _push returned false, and no _read since
  closed      \* history: "close" has been emitted

streamVars == <<destroyed, rd, wr, hup>>
history == <<delivered, sent, accepted, refused, closed>>
vars == <<destroyed, rd, wr, hup, io, ticks, report, stack, kernel,
          delivered, sent, accepted, refused, closed>>

IOEvents == {"READ", "WRITE", "HUP", "ERROR"}
Tick == {"read", "emit", "write", "drain", "finish", "error", "close"}
UserFrames == {"user", "onData", "onEnd"}
Frames == UserFrames \cup {"doRead", "rdFlag", "pushed", "pushedEOF", "emit",
                           "doWrite", "wrFlag", "drained", "abort", "killed"}
Bytes(n) == [i \in 1..n |-> i]

RdType == [flowing : BOOLEAN, buf : Seq(1..MaxIn), ended : BOOLEAN,
           endEmitted : BOOLEAN, overrun : BOOLEAN, listening : BOOLEAN]
WrType == [buf : Seq(1..MaxOut), finish : BOOLEAN, notified : BOOLEAN,
           error : BOOLEAN, shutdown : BOOLEAN]
IOType == [alive : BOOLEAN, attached : BOOLEAN, open : BOOLEAN,
           mask : SUBSET {"READ", "WRITE"}, polled : SUBSET {"READ", "WRITE"},
           registered : SUBSET {"READ", "WRITE"}]
\* err is the error that the connection keeps for the next call that asks.
KernelType == [arrived : 0..MaxIn, read : 0..MaxIn, fin : BOOLEAN, reset : BOOLEAN,
               err : {"none", "ECONNRESET", "EPIPE"}, queued : 0..SndBuf]

TypeOK ==
  /\ destroyed \in BOOLEAN /\ hup \in BOOLEAN
  /\ rd \in RdType /\ wr \in WrType /\ io \in IOType
  /\ ticks \in Seq(Tick)
  /\ report \subseteq IOEvents
  /\ stack \in Seq(Frames)
  /\ kernel \in KernelType
  /\ delivered \in Seq(1..MaxIn) /\ sent \in Seq(1..MaxOut)
  /\ accepted \in 0..MaxOut /\ refused \in BOOLEAN /\ closed \in BOOLEAN

Registered(m) == [alive |-> TRUE, attached |-> TRUE, open |-> TRUE,
                  mask |-> m, polled |-> m, registered |-> m]
NoIOEvent(m) == [alive |-> FALSE, attached |-> FALSE, open |-> FALSE,
                 mask |-> m, polled |-> {}, registered |-> m]

\* _init, with startReading or without it: the socket is handed to its user,
\* who is called with it. If the registration fails the IOEvent is freed,
\* and its descriptor closed, when _init returns. A negative descriptor only
\* posts an error.
Init ==
  /\ destroyed = FALSE
  /\ hup = FALSE
  /\ \E startReading \in BOOLEAN :
       LET m == IF startReading THEN {"READ"} ELSE {}
       IN  /\ rd = [flowing |-> startReading, buf |-> <<>>, ended |-> FALSE,
                    endEmitted |-> FALSE, overrun |-> FALSE, listening |-> FALSE]
           /\ \/ /\ ticks = IF startReading THEN <<"read">> ELSE <<>>
                 /\ io \in {Registered(m)}
                          \cup (IF InitMayFail THEN {NoIOEvent(m)} ELSE {})
              \/ /\ InitMayFail /\ ~startReading
                 /\ ticks = <<"error">>
                 /\ io = NoIOEvent({})
  /\ wr = [buf |-> <<>>, finish |-> FALSE, notified |-> FALSE,
           error |-> FALSE, shutdown |-> FALSE]
  /\ report = {}
  /\ stack = <<"user">>
  /\ kernel = [arrived |-> 0, read |-> 0, fin |-> FALSE, reset |-> FALSE,
               err |-> "none", queued |-> 0]
  /\ delivered = <<>>
  /\ sent = <<>>
  /\ accepted = 0
  /\ refused = FALSE
  /\ closed = FALSE

-----------------------------------------------------------------------------
(* Helpers *)

At(frame) == stack # <<>> /\ Head(stack) = frame
InUserCode == stack # <<>> /\ Head(stack) \in UserFrames

\* What is left of the innermost function is now the given frames.
Continue(frames) == stack' = frames \o Tail(stack)
Return == stack' = Tail(stack)

\* IOEvent::SetIOEventMask and EventLoop::_updateIOFD: epoll learns of a mask
\* that differs from the one the descriptor was registered with.
WithMask(m) ==
  IF m = io.mask THEN io
  ELSE [io EXCEPT !.mask = m,
                  !.polled = IF io.attached /\ m # io.registered THEN m ELSE @]

\* Faulty variants: the stream may be destroyed again; no "close" follows an
\* error.
DestroyAgain(error) ==
  /\ destroyed' = TRUE
  /\ ticks' = ticks \o (IF error THEN <<"error">> ELSE <<>>) \o <<"close">>
  /\ io' = IF io.alive
           THEN [io EXCEPT !.attached = FALSE, !.open = FALSE, !.mask = {}, !.polled = {}]
           ELSE io
DestroyOnlyError(error) ==
  IF destroyed
  THEN UNCHANGED <<destroyed, io, ticks>>
  ELSE /\ destroyed' = TRUE
       /\ ticks' = Append(ticks, IF error THEN "error" ELSE "close")
       /\ io' = IF io.alive
                THEN [io EXCEPT !.attached = FALSE, !.open = FALSE, !.mask = {}, !.polled = {}]
                ELSE io

\* Stream::destroy and Socket::_destroy: Detach, then Close of an event that
\* is detached, which closes at once.
DestroyWith(error) ==
  IF destroyed
  THEN UNCHANGED <<destroyed, io, ticks>>
  ELSE /\ destroyed' = TRUE
       /\ ticks' = ticks \o (IF error THEN <<"error">> ELSE <<>>) \o <<"close">>
       /\ io' = IF io.alive
                THEN [io EXCEPT !.attached = FALSE, !.open = FALSE,
                                !.mask = {}, !.polled = {}]
                ELSE io

\* The callback that Writable::_notifyWrite posts, unless one is waiting.
WriteTick == IF wr.notified THEN <<>> ELSE <<"write">>

Available == kernel.arrived - kernel.read

\* A call on the connection has returned its error, if it is still open.
ErrorTaken == [kernel EXCEPT !.err = IF io.open THEN "none" ELSE @]

Least(a, b) == IF a < b THEN a ELSE b

-----------------------------------------------------------------------------
(* The API, called from user code *)

Pause ==
  /\ rd' = [rd EXCEPT !.flowing = FALSE]
  /\ UNCHANGED <<destroyed, wr, io, ticks, accepted>>

Resume ==
  /\ ~rd.flowing /\ ~destroyed
  /\ rd' = [rd EXCEPT !.flowing = TRUE]
  /\ ticks' = Append(ticks, "read")
  /\ UNCHANGED <<destroyed, wr, io, accepted>>

\* on_data and Readable::OnNewListener.
Listen ==
  /\ rd' = [rd EXCEPT !.listening = TRUE]
  /\ ticks' = IF rd.flowing /\ rd.buf # <<>> THEN Append(ticks, "emit") ELSE ticks
  /\ UNCHANGED <<destroyed, wr, io, accepted>>

\* write and end on a stream that takes no more only post an error.
WriteRefused ==
  /\ destroyed \/ wr.finish \/ wr.error
  /\ ticks' = Append(ticks, "error")
  /\ UNCHANGED <<destroyed, rd, wr, io, accepted>>

Write ==
  /\ ~destroyed /\ ~wr.finish /\ ~wr.error
  /\ accepted < MaxOut
  /\ accepted' = accepted + 1
  /\ wr' = [wr EXCEPT !.buf = Append(@, accepted'), !.notified = TRUE]
  /\ ticks' = ticks \o WriteTick
  /\ UNCHANGED <<destroyed, rd, io>>

\* Faulty variant: _write is not notified.
EndUnnotified ==
  /\ ~destroyed /\ ~wr.finish
  /\ wr' = [wr EXCEPT !.finish = TRUE]
  /\ UNCHANGED <<destroyed, rd, io, ticks, accepted>>

\* end, without a last byte: it is a write of nothing, which a write error
\* turns into an error of its own.
End ==
  /\ ~destroyed /\ ~wr.finish
  /\ wr' = [wr EXCEPT !.finish = TRUE, !.notified = @ \/ ~wr.error]
  /\ ticks' = ticks \o (IF wr.error THEN <<"error">> ELSE WriteTick)
  /\ UNCHANGED <<destroyed, rd, io, accepted>>

Destroy ==
  /\ ~destroyed
  /\ \E error \in BOOLEAN : DestroyWith(error)
  /\ UNCHANGED <<rd, wr, accepted>>

ApiCall ==
  /\ InUserCode
  /\ Len(ticks) < MaxTicks
  /\ Pause \/ Resume \/ Listen \/ WriteRefused \/ Write \/ End \/ Destroy
  /\ UNCHANGED <<hup, report, stack, kernel, delivered, sent, refused, closed>>

-----------------------------------------------------------------------------
(* Readable *)

\* Faulty variant: the end of the stream is looked at first.
EmitDataEndFirst ==
  /\ At("emit")
  /\ IF ~rd.flowing \/ destroyed \/ rd.endEmitted THEN Return
     ELSE IF rd.ended THEN Continue(<<"onEnd">>)
     ELSE IF rd.buf # <<>> /\ rd.listening THEN Continue(<<"onData">>)
     ELSE Return
  /\ UNCHANGED <<streamVars, io, ticks, report, kernel, history>>

\* _emitData.
EmitData ==
  /\ At("emit")
  /\ IF ~rd.flowing \/ destroyed \/ rd.endEmitted THEN Return
     ELSE IF rd.buf # <<>> /\ rd.listening THEN Continue(<<"onData">>)
     ELSE IF rd.ended THEN Continue(<<"onEnd">>)
     ELSE Return
  /\ UNCHANGED <<streamVars, io, ticks, report, kernel, history>>

\* Faulty variant: the buffer is not cleared.
DataReturnsKeepsBuffer ==
  /\ At("onData")
  /\ rd' = [rd EXCEPT !.overrun = FALSE]
  /\ delivered' = delivered \o rd.buf
  /\ ticks' = IF rd.overrun THEN Append(ticks, "read") ELSE ticks
  /\ IF rd.ended THEN Continue(<<"onEnd">>) ELSE Return
  /\ UNCHANGED <<destroyed, wr, hup, io, report, kernel, sent, accepted, refused, closed>>

\* The listeners of "data" have returned. What they did to the stream is not
\* looked at again before "end" is emitted.
DataReturns ==
  /\ At("onData")
  /\ rd' = [rd EXCEPT !.buf = <<>>, !.overrun = FALSE]
  /\ delivered' = delivered \o rd.buf
  /\ ticks' = IF rd.overrun THEN Append(ticks, "read") ELSE ticks
  /\ IF rd.ended THEN Continue(<<"onEnd">>) ELSE Return
  /\ UNCHANGED <<destroyed, wr, hup, io, report, kernel, sent, accepted, refused, closed>>

EndReturns ==
  /\ At("onEnd")
  /\ rd' = [rd EXCEPT !.endEmitted = TRUE]
  /\ Return
  /\ UNCHANGED <<destroyed, wr, hup, io, ticks, report, kernel, history>>

\* The rest of _push after _emitData, and what _doRead makes of its result.
\* An empty chunk was the end of the stream.
Pushed ==
  /\ At("pushed") \/ At("pushedEOF")
  /\ LET overrun == Len(rd.buf) > RdHighWater
         more == rd.flowing /\ ~overrun
     IN  /\ rd' = [rd EXCEPT !.overrun = overrun]
         /\ refused' = ~more
         /\ io' = IF more THEN io ELSE WithMask(io.mask \ {"READ"})
  /\ IF At("pushedEOF") THEN hup' = TRUE /\ Continue(<<"doWrite">>)
                        ELSE hup' = hup /\ Continue(<<"doRead">>)
  /\ UNCHANGED <<destroyed, wr, ticks, report, kernel, delivered, sent, accepted, closed>>

-----------------------------------------------------------------------------
(* Socket: one turn of the loop of _doRead *)

\* _push is called while the stream is neither destroyed nor ended: read(2)
\* fails once it is destroyed, and m_bHUP ends the loop.
ReadData ==
  /\ At("doRead") /\ io.alive /\ ~hup
  /\ io.open /\ Available > 0
  /\ LET n == Least(Available, RdHighWater)
     IN  /\ rd' = [rd EXCEPT !.buf = @ \o [i \in 1..n |-> kernel.read + i]]
         /\ kernel' = [kernel EXCEPT !.read = @ + n]
  /\ Continue(<<"emit", "pushed">>)
  /\ UNCHANGED <<destroyed, wr, hup, io, ticks, report, history>>

\* read(2) returns 0: after a FIN whatever came later, and after a reset once
\* its error has been taken.
ReadEOF ==
  /\ At("doRead") /\ io.alive /\ ~hup
  /\ io.open /\ Available = 0
  /\ kernel.fin \/ (kernel.reset /\ kernel.err = "none")
  /\ rd' = [rd EXCEPT !.ended = TRUE]
  /\ Continue(<<"emit", "pushedEOF">>)
  /\ UNCHANGED <<destroyed, wr, hup, io, ticks, report, kernel, history>>

\* EAGAIN.
ReadBlocks ==
  /\ At("doRead") /\ io.alive /\ ~hup
  /\ io.open /\ Available = 0 /\ ~kernel.fin /\ ~kernel.reset
  /\ Continue(<<"rdFlag">>)
  /\ UNCHANGED <<streamVars, io, ticks, report, kernel, history>>

\* ECONNRESET, or EBADF after a listener of "data" has destroyed the socket:
\* "error" is emitted here and now.
ReadFails ==
  /\ At("doRead") /\ io.alive /\ ~hup
  /\ ~io.open \/ (Available = 0 /\ ~kernel.fin /\ kernel.err # "none")
  /\ kernel' = ErrorTaken
  /\ Continue(<<"user", "rdFlag">>)
  /\ UNCHANGED <<streamVars, io, ticks, report, history>>

SetReadFlag ==
  /\ At("rdFlag")
  /\ io' = IF rd.flowing THEN WithMask(io.mask \cup {"READ"}) ELSE io
  /\ Return
  /\ UNCHANGED <<streamVars, ticks, report, kernel, history>>

\* After the end of the stream nothing is read.
ReadNothing ==
  /\ At("doRead") /\ io.alive /\ hup
  /\ Return
  /\ UNCHANGED <<streamVars, io, ticks, report, kernel, history>>

\* assert(spSocketEvent), in _doRead and _doWrite.
NoSocketEvent ==
  /\ At("doRead") \/ At("doWrite")
  /\ ~io.alive
  /\ stack' = <<"abort">>
  /\ UNCHANGED <<streamVars, io, ticks, report, kernel, history>>

-----------------------------------------------------------------------------
(* Socket: one turn of the loop of _doWrite *)

\* Faulty variant: write(2) is taken to have written everything.
WriteDataDropsRest ==
  /\ At("doWrite") /\ io.alive /\ wr.buf # <<>>
  /\ io.open /\ ~kernel.reset
  /\ \E n \in 1..Least(Len(wr.buf), SndBuf - kernel.queued) :
       /\ sent' = sent \o SubSeq(wr.buf, 1, n)
       /\ wr' = [wr EXCEPT !.buf = <<>>]
       /\ kernel' = [kernel EXCEPT !.queued = @ + n]
  /\ UNCHANGED <<destroyed, rd, hup, io, ticks, report, stack, delivered, accepted, refused, closed>>

WriteData ==
  /\ At("doWrite") /\ io.alive /\ wr.buf # <<>>
  /\ io.open /\ ~kernel.reset
  /\ \E n \in 1..Least(Len(wr.buf), SndBuf - kernel.queued) :
       /\ sent' = sent \o SubSeq(wr.buf, 1, n)
       /\ wr' = [wr EXCEPT !.buf = SubSeq(@, n + 1, Len(@))]
       /\ kernel' = [kernel EXCEPT !.queued = @ + n]
  /\ UNCHANGED <<destroyed, rd, hup, io, ticks, report, stack, delivered, accepted, refused, closed>>

\* Faulty variant: epoll is not asked for WRITE.
WriteBlocksUnasked ==
  /\ At("doWrite") /\ io.alive /\ wr.buf # <<>>
  /\ io.open /\ ~kernel.reset /\ kernel.queued = SndBuf
  /\ Return
  /\ UNCHANGED <<streamVars, io, ticks, report, kernel, history>>

\* EAGAIN.
WriteBlocks ==
  /\ At("doWrite") /\ io.alive /\ wr.buf # <<>>
  /\ io.open /\ ~kernel.reset /\ kernel.queued = SndBuf
  /\ Continue(<<"wrFlag">>)
  /\ UNCHANGED <<streamVars, io, ticks, report, kernel, history>>

\* ECONNRESET, which is given once, or EBADF.
WriteFails ==
  /\ At("doWrite") /\ io.alive /\ wr.buf # <<>>
  /\ ~io.open \/ (kernel.reset /\ kernel.err = "ECONNRESET")
  /\ wr' = [wr EXCEPT !.error = TRUE]
  /\ kernel' = ErrorTaken
  /\ Continue(<<"user", "wrFlag">>)
  /\ UNCHANGED <<destroyed, rd, hup, io, ticks, report, history>>

\* EPIPE: the connection was reset and its error taken, or reset after the
\* peer's FIN. Nothing ignores SIGPIPE, so the kernel kills the process.
WriteKills ==
  /\ At("doWrite") /\ io.alive /\ wr.buf # <<>>
  /\ io.open /\ kernel.reset /\ kernel.err # "ECONNRESET"
  /\ stack' = <<"killed">>
  /\ UNCHANGED <<streamVars, io, ticks, report, kernel, history>>

SetWriteFlag ==
  /\ At("wrFlag")
  /\ io' = WithMask(io.mask \cup {"WRITE"})
  /\ Return
  /\ UNCHANGED <<streamVars, ticks, report, kernel, history>>

\* The buffer is empty: _onDrained, unless that was done for the last time,
\* and shutdown(2) if the stream is finished.
Drained ==
  /\ At("doWrite") /\ io.alive /\ wr.buf = <<>>
  /\ IF wr.shutdown
     THEN /\ Continue(<<"drained">>)
          /\ UNCHANGED <<wr, ticks>>
     ELSE LET ok == ~wr.finish \/ (io.open /\ ~kernel.reset)
          IN  /\ ticks' = Append(ticks, IF wr.finish THEN "finish" ELSE "drain")
              /\ wr' = [wr EXCEPT !.shutdown = wr.finish, !.error = @ \/ ~ok]
              /\ Continue(IF ok THEN <<"drained">> ELSE <<"user", "drained">>)
  /\ UNCHANGED <<destroyed, rd, hup, io, report, kernel, history>>

AfterDrained ==
  /\ At("drained")
  /\ IF hup /\ ~AllowHalfOpen
     THEN DestroyWith(FALSE)
     ELSE io' = WithMask(io.mask \ {"WRITE"}) /\ UNCHANGED <<destroyed, ticks>>
  /\ Return
  /\ UNCHANGED <<rd, wr, hup, report, kernel, history>>

-----------------------------------------------------------------------------
(* The loop *)

Idle == stack = <<>> /\ report = {}

\* A NextTick callback of the socket. Those of EMIT_EVENT_ASYNC call the user.
RunTick ==
  /\ Idle
  /\ ticks # <<>>
  /\ ticks' = Tail(ticks)
  /\ stack' = CASE Head(ticks) = "read" -> <<"doRead", "emit">>
                [] Head(ticks) = "emit" -> <<"emit">>
                [] Head(ticks) = "write" -> <<"doWrite">>
                [] OTHER -> <<"user">>
  /\ wr' = [wr EXCEPT !.notified = @ /\ Head(ticks) # "write"]
  /\ refused' = (refused /\ Head(ticks) # "read")
  /\ closed' = (closed \/ Head(ticks) = "close")
  /\ UNCHANGED <<destroyed, rd, hup, io, report, kernel, delivered, sent, accepted>>

\* What epoll_wait reports of the descriptor.
Ready ==
  {b \in io.polled :
     \/ b = "READ" /\ (Available > 0 \/ kernel.fin \/ kernel.reset)
     \/ b = "WRITE" /\ (kernel.queued < SndBuf \/ kernel.reset)}
  \cup (IF kernel.fin \/ kernel.reset THEN {"HUP"} ELSE {})
  \cup (IF kernel.err # "none" THEN {"ERROR"} ELSE {})

Poll ==
  /\ Idle
  /\ ticks = <<>>
  /\ io.attached
  /\ Ready # {}
  /\ report' = Ready
  /\ UNCHANGED <<streamVars, io, ticks, stack, kernel, history>>

\* The next report is dispatched, or skipped if the event was detached.
Dispatch(bit) ==
  /\ stack = <<>>
  /\ bit \in report
  /\ bit = "HUP" => "ERROR" \notin report
  /\ bit = "READ" => report \cap {"ERROR", "HUP"} = {}
  /\ bit = "WRITE" => report = {"WRITE"}
  /\ report' = report \ {bit}
  /\ IF io.attached /\ bit = "ERROR"
     THEN DestroyWith(TRUE) /\ UNCHANGED stack
     ELSE /\ stack' = IF ~io.attached THEN <<>>
                      ELSE IF bit = "WRITE" THEN <<"doWrite">> ELSE <<"doRead">>
          /\ UNCHANGED <<destroyed, io, ticks>>
  /\ UNCHANGED <<rd, wr, hup, kernel, history>>

\* Faulty variant: the record is freed before the callbacks have run.
EraseBeforeTicks ==
  /\ Idle
  /\ io.alive /\ ~io.attached
  /\ io' = [io EXCEPT !.alive = FALSE]
  /\ UNCHANGED <<streamVars, ticks, report, stack, kernel, history>>

\* _processPendingRemovals frees the record, and with it the IOEvent.
Erase ==
  /\ Idle
  /\ ticks = <<>>
  /\ io.alive /\ ~io.attached
  /\ io' = [io EXCEPT !.alive = FALSE]
  /\ UNCHANGED <<streamVars, ticks, report, stack, kernel, history>>

\* A callback of the program that has nothing to do with this socket.
UserRuns ==
  /\ Idle
  /\ stack' = <<"user">>
  /\ UNCHANGED <<streamVars, io, ticks, report, kernel, history>>

UserReturns ==
  /\ At("user")
  /\ Return
  /\ UNCHANGED <<streamVars, io, ticks, report, kernel, history>>

-----------------------------------------------------------------------------
(* The peer and the kernel *)

PeerSends ==
  /\ kernel.arrived < MaxIn /\ ~kernel.fin /\ ~kernel.reset
  /\ kernel' = [kernel EXCEPT !.arrived = @ + 1]

PeerCloses ==
  /\ ~kernel.fin /\ ~kernel.reset
  /\ kernel' = [kernel EXCEPT !.fin = TRUE]

\* RST. In CLOSE_WAIT, the peer's FIN received and none sent, its error is
\* EPIPE.
PeerResets ==
  /\ MayReset /\ ~kernel.reset
  /\ kernel' = [kernel EXCEPT !.reset = TRUE, !.queued = 0,
                  !.err = IF kernel.fin /\ ~wr.shutdown THEN "EPIPE" ELSE "ECONNRESET"]

PeerTakes ==
  /\ kernel.queued > 0
  /\ kernel' = [kernel EXCEPT !.queued = @ - 1]

Peer ==
  /\ PeerSends \/ PeerCloses \/ PeerResets \/ PeerTakes
  /\ UNCHANGED <<streamVars, io, ticks, report, stack, history>>

CallbackReturns == UserReturns \/ DataReturns \/ EndReturns

LoopStep ==
  \/ EmitData \/ Pushed
  \/ ReadData \/ ReadEOF \/ ReadBlocks \/ ReadFails \/ SetReadFlag \/ ReadNothing
  \/ NoSocketEvent
  \/ WriteData \/ WriteBlocks \/ WriteFails \/ WriteKills \/ SetWriteFlag
  \/ Drained \/ AfterDrained
  \/ RunTick \/ Poll \/ Erase
  \/ \E bit \in IOEvents : Dispatch(bit)

Next == ApiCall \/ CallbackReturns \/ LoopStep \/ UserRuns \/ Peer

Spec == Init /\ [][Next]_vars

-----------------------------------------------------------------------------
(* Safety *)

\* Readable: the bytes of the connection reach the listeners of "data" in
\* order, each once, whatever pauses, resumes and refusals lie between.
ReceivedInOrder == delivered \o rd.buf = Bytes(kernel.read)

\* "end" is emitted when the peer has closed, or reset the connection and the
\* error was taken, and every byte that came from it has been given to the
\* listeners of "data", if there are any.
EndIsComplete ==
  [][stack' # <<>> /\ Head(stack') = "onEnd" /\ ~At("onEnd") =>
       (kernel.fin \/ kernel.reset) /\ (rd.listening => delivered' = Bytes(kernel.arrived))]_vars

\* Writable: what write() accepts is what write(2) is given, in order, and
\* the FIN follows the last byte of a stream that was ended.
SentInOrder ==
  /\ sent \o wr.buf = Bytes(accepted)
  /\ wr.shutdown => wr.finish /\ wr.buf = <<>>

\* When the socket is left to itself, nothing it still has to send waits for
\* an event that epoll was not asked for.
NothingLeftUnsent ==
  Idle /\ ticks = <<>> /\ io.attached =>
    /\ wr.buf # <<>> => "WRITE" \in io.polled
    /\ wr.finish /\ wr.buf = <<>> => wr.shutdown

\* Stream: a destroyed stream emits "close", once, and after that neither
\* "data" nor "end".
CloseOnce ==
  /\ LET waiting == {i \in DOMAIN ticks : ticks[i] = "close"}
     IN  /\ \A i, j \in waiting : i = j
         /\ destroyed <=> closed \/ waiting # {}
         /\ ~(closed /\ waiting # {})
  /\ closed => ~At("onData") /\ ~At("onEnd")

\* The assertion of _doRead and _doWrite: the IOEvent is there.
SocketEventAlive == ~At("abort")

\* A write to a connection that was reset ends the process.
Killed == At("killed")

\* No peer can end the process.
ProcessSurvives == ~Killed

\* The descriptor is closed exactly when the stream is destroyed, so a
\* number that is used again is never read or written by this socket.
OpenUntilDestroyed ==
  io.alive => (io.open <=> ~destroyed) /\ (io.attached <=> ~destroyed)

\* The life of a socket: the two above, over states of the right type.
LifeInv == TypeOK /\ CloseOnce /\ OpenUntilDestroyed

\* A stream that was resumed is polled for input when the loop waits, unless
\* its buffer is over the mark or the input has ended.
ResumedIsPolled ==
  Idle /\ ticks = <<>> /\ io.attached /\ rd.flowing /\ ~rd.overrun /\ ~hup =>
    "READ" \in io.polled

\* Once _push has returned false nothing is read until _read is called.
StopsWhenRefused == [][kernel'.read # kernel.read => ~refused]_vars

\* What was buffered for a paused reader is not thrown away by the socket
\* itself: it does not destroy the stream with bytes in the read buffer.
NothingDiscarded ==
  [][~destroyed /\ destroyed' /\ ~InUserCode /\ kernel.err = "none" /\ ~rd.flowing =>
       rd.buf = <<>>]_vars

-----------------------------------------------------------------------------
(* Liveness *)

\* The thread runs and callbacks return; in every pass of the loop the posted
\* callbacks run, in order, and then it polls, whatever other callbacks run
\* before; and the peer takes what was sent to it.
FairSpec ==
  /\ Spec
  /\ WF_vars(LoopStep)
  /\ WF_vars(CallbackReturns)
  /\ SF_vars(RunTick)
  /\ SF_vars(Poll)
  /\ WF_vars(PeerTakes /\ UNCHANGED <<streamVars, io, ticks, report, stack, history>>)

\* A destroyed stream emits "close".
CloseEmitted == destroyed ~> closed

\* A stream that was ended sends its last byte and its FIN, unless callbacks
\* go on posting callbacks for ever. Only destroy and a reset keep it from
\* that, and a reset is not passed over: it ends in an error or kills the
\* process.
EndCompletes ==
  ([]<>(Killed \/ (Idle /\ ticks = <<>>))) =>
    (wr.finish ~> \/ wr.shutdown /\ ~wr.error
                  \/ destroyed
                  \/ kernel.reset /\ (wr.error \/ Killed))
=============================================================================
