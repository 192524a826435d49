---------------------------- MODULE HttpExchange ----------------------------
(***************************************************************************)
(* One connection of http::Server: the handler that Server installs for    *)
(* it, IncomingMessage with the parser behind it, ServerResponse, and user *)
(* code in every callback.                                                 *)
(*                                                                         *)
(* The library is one record, and an operator maps the record before a     *)
(* call to the record after it; functions that call user code in their     *)
(* middle are frames of its stack, innermost first.                        *)
(*                                                                         *)
(* Simplifications.                                                        *)
(*   - The parser is its events, as HttpParser checks them: a head, a      *)
(*     piece of body, an end, or an error.  A unit of input is one of them *)
(*     and a read takes any number of units.                               *)
(*   - net::Socket is what module Socket says of it: when its IOEvent is   *)
(*     reported readable is left open, what READ was asked for included.   *)
(*   - Each request has one listener for "data"; writes have one item.     *)
(*   - User code may keep a request and its responses for as long as it    *)
(*     likes, but not the socket.                                          *)
(***************************************************************************)
EXTENDS Naturals, Sequences, FiniteSets

CONSTANTS
  Inputs,        \* sequences of units a client may send
  MayFin,        \* whether the client may close its side after them
  Mark,          \* the high-water marks, in units
  MaxCalls       \* most API calls of user code, by number of requests (bound)

Units == {"head", "data", "end", "bad"}
Count(u, units) == Cardinality({i \in DOMAIN units : units[i] = u})
Requests(units) == Count("head", units)

ASSUME HttpExchangeAssumption ==
  /\ \A units \in Inputs : units \in Seq(Units) /\ Requests(units) \in DOMAIN MaxCalls
  /\ MayFin \in BOOLEAN
  /\ Mark \in Nat \ {0} /\ MaxCalls \in Seq(Nat)

VARIABLES
  input,    \* the units the client sends
  got,      \* how many of them read(2) has returned
  lib,      \* the objects of the library
  phase,    \* the phase of the loop: "dispatch" or "drain"
  todo,     \* the callbacks of this phase that are still to come
  calls,    \* API calls that user code may still make
  heard     \* history: what the listeners of the request were given

vars == <<input, got, lib, phase, todo, calls, heard>>

-----------------------------------------------------------------------------
(* The objects. *)

Streams == {"sock", "req"}
ReadableType == [flowing : BOOLEAN, over : BOOLEAN, ended : BOOLEAN,
                 endEmitted : BOOLEAN, destroyed : BOOLEAN, buf : Seq(Nat)]
ResponseType == [state : {"STATUS", "HEADERS", "BODY"}, pending : Nat,
                 cached : Nat, valid : BOOLEAN, buf : Seq(Nat), finish : BOOLEAN,
                 notified : BOOLEAN, destroyed : BOOLEAN,
                 set : Nat, written : Nat, done : BOOLEAN]

\* What a response puts into the socket: its head with so many headers, and
\* its writes by their numbers.
Items == {"head", "body"} \X Nat \X Nat

\* A posted callback, and a function that waits for user code to return.
Posts == {<<"sockWrite">>, <<"sockDrain">>} \cup {"read"} \X Streams
         \cup {"write"} \X Nat
         \cup {"emit"} \X {"sockFinish", "sockClose", "sockError", "error",
                           "finish", "drain", "close"}
Frames == {<<"user">>, <<"doRead">>, <<"hup">>, <<"pushedEnd", "req">>}
          \cup {"emit", "clear", "end", "ended", "pushed"} \X Streams
          \cup {"feed"} \X Seq(Nat) \cup {"drain"} \X Nat

\* The asserts that a stream finds its socket, by the function that locks it:
\* the listener of the socket's "drain", those of the parser for an error, a
\* head and a piece of body, and _read, _write and _destroy.
Asserts == {"drain", "error", "head", "data", "read", "write", "destroy"}

Library ==
  [rd : [sock : ReadableType, req : ReadableType],
   hup : BOOLEAN, finish : BOOLEAN, shut : BOOLEAN, notified : BOOLEAN,
   writeError : BOOLEAN, wantWrite : BOOLEAN,
   record : {"attached", "removed", "gone"}, out : Seq(Items), sent : Nat,
   failed : BOOLEAN, res : Seq(ResponseType), ticks : Seq(Posts),
   stack : Seq(Frames), thrown : BOOLEAN, late : BOOLEAN,
   aborted : {"none"} \cup Asserts]

Readable == [flowing |-> TRUE, over |-> FALSE, ended |-> FALSE,
             endEmitted |-> FALSE, destroyed |-> FALSE, buf |-> <<>>]

\* A new response: m_state, the headers set and those in m_strHeadersCache,
\* the validity of statusCode, and the members of Writable.
NewResponse == [state |-> "STATUS", pending |-> 0, cached |-> 0, valid |-> TRUE,
                buf |-> <<>>, finish |-> FALSE, notified |-> FALSE,
                destroyed |-> FALSE,
                set |-> 0, written |-> 0, done |-> FALSE]  \* history

\* After on_connection: the socket and the request have each posted a _read.
NewConnection ==
  [rd |-> [sock |-> Readable, req |-> Readable],
   hup |-> FALSE, finish |-> FALSE, shut |-> FALSE, notified |-> FALSE,
   writeError |-> FALSE, wantWrite |-> FALSE,
   record |-> "attached",  \* the socket in the loop: attached, removed, gone
   out |-> <<>>,           \* all that was ever put into the socket's buffer
   sent |-> 0,             \* how much of it write(2) has taken
   failed |-> FALSE,       \* m_bParserError
   res |-> <<>>,           \* the responses
   ticks |-> <<<<"read", "sock">>, <<"read", "req">>>>,
   stack |-> <<>>,
   thrown |-> FALSE,       \* history: a _write ended in an exception
   late |-> FALSE,         \* history: user code used a stream without a socket
   aborted |-> "none"]     \* the assertion that has failed

Call(x, frame) == [x EXCEPT !.stack = <<frame>> \o @]
Pop(x) == [x EXCEPT !.stack = Tail(@)]
Top == IF lib.stack = <<>> THEN <<"none">> ELSE Head(lib.stack)
NextTick(x, t) == [x EXCEPT !.ticks = Append(@, t)]
Abort(x, where) == [x EXCEPT !.aborted = where]

\* A stream locks its weak pointer to the socket and asserts that it is there;
\* if it is, next is what the function does.
WithSocket(x, where, next) == IF x.record = "gone" THEN Abort(x, where) ELSE next

\* User code that has no calls left returns at once.
User(x) == IF calls > 0 THEN Call(x, <<"user">>) ELSE x

Init ==
  /\ input \in Inputs
  /\ got = 0
  /\ lib = NewConnection
  /\ phase = "drain" /\ todo = {}
  /\ calls = MaxCalls[Requests(input)]
  /\ heard = [body |-> <<>>, end |-> FALSE]

-----------------------------------------------------------------------------
(* The socket, as the http streams call it. *)

Pause(x, s) == [x EXCEPT !.rd[s].flowing = FALSE]

\* Faulty variant: resume does not post a _read.
ResumeUnnoticed(x, s) ==
  IF x.rd[s].destroyed THEN x ELSE [x EXCEPT !.rd[s].flowing = TRUE]

Resume(x, s) ==
  IF x.rd[s].flowing \/ x.rd[s].destroyed THEN x
  ELSE NextTick([x EXCEPT !.rd[s].flowing = TRUE], <<"read", s>>)

\* Faulty variant: the record goes while callbacks are still posted.
SockDestroyFrees(x) ==
  IF x.rd.sock.destroyed THEN x
  ELSE NextTick([x EXCEPT !.rd.sock.destroyed = TRUE, !.record = "gone"],
                <<"emit", "sockClose">>)

SockDestroy(x) ==
  IF x.rd.sock.destroyed THEN x
  ELSE NextTick([x EXCEPT !.rd.sock.destroyed = TRUE, !.record = "removed"],
                <<"emit", "sockClose">>)

Writes(x) == ~x.rd.sock.destroyed /\ ~x.finish /\ ~x.writeError

SockWrite(x, items) ==
  IF ~Writes(x) THEN NextTick(x, <<"emit", "sockError">>)
  ELSE LET y == [x EXCEPT !.out = @ \o items, !.notified = TRUE]
       IN  IF x.notified THEN y ELSE NextTick(y, <<"sockWrite">>)

SockEnd(x) ==
  IF x.rd.sock.destroyed \/ x.finish THEN NextTick(x, <<"emit", "sockError">>)
  ELSE [SockWrite(x, <<>>) EXCEPT !.finish = TRUE]

\* _doWrite when write(2) has taken all, and when it did not.  On a descriptor
\* that is closed, shutdown and write fail and "error" is emitted.
Drained(x) ==
  LET y == IF x.shut THEN x
           ELSE IF x.finish
           THEN NextTick([x EXCEPT !.shut = TRUE], <<"emit", "sockFinish">>)
           ELSE NextTick(x, <<"sockDrain">>)
      z == IF x.hup THEN SockDestroy(y) ELSE [y EXCEPT !.wantWrite = FALSE]
  IN  IF x.rd.sock.destroyed /\ x.finish /\ ~x.shut
      THEN User([z EXCEPT !.writeError = TRUE]) ELSE z

DoWrite(x, taken) ==
  LET y == [x EXCEPT !.sent = @ + taken]
  IN  IF y.sent = Len(y.out) THEN Drained(y)
      ELSE IF x.rd.sock.destroyed THEN User([x EXCEPT !.writeError = TRUE])
      ELSE [y EXCEPT !.wantWrite = TRUE]

\* Faulty variant: the buffer keeps what was written.
TakesAgain(x) == IF x.rd.sock.destroyed THEN {0} ELSE 0 .. Len(x.out)

\* What write(2) may take at once: nothing of a socket that is closed.
Takes(x) == IF x.rd.sock.destroyed THEN {0} ELSE 0 .. Len(x.out) - x.sent

-----------------------------------------------------------------------------
(* ServerResponse.                                                         *)

\* Faulty variant: headers set after a flush are forgotten.
FlushedOnce(r) ==
  IF r.state = "STATUS"
  THEN [r EXCEPT !.state = "HEADERS", !.cached = r.pending, !.pending = 0]
  ELSE [r EXCEPT !.pending = 0]

\* flushHeaders; it throws if the status has no message.
Throws(r) == r.state = "STATUS" /\ ~r.valid
Flushed(r) ==
  [r EXCEPT !.state = IF @ = "STATUS" THEN "HEADERS" ELSE @,
            !.cached = @ + r.pending, !.pending = 0]

\* Called with the sent flag down only.
NotifyWrite(x, n) ==
  IF x.res[n].notified THEN x
  ELSE NextTick([x EXCEPT !.res[n].notified = TRUE], <<"write", n>>)

\* _write: the head goes first.  An exception leaves everything as it was.
ResponseWrite(x0, n) ==
  LET x == [x0 EXCEPT !.res[n].notified = FALSE]
      r == Flushed(x.res[n])
      body == [i \in DOMAIN x.res[n].buf |-> <<"body", n, x.res[n].buf[i]>>]
      headed == IF x.res[n].state = "BODY" THEN x
                ELSE SockWrite([x EXCEPT !.res[n] = [r EXCEPT !.state = "BODY",
                                                              !.cached = 0]],
                               <<<<"head", n, r.cached>>>>)
  IN  WithSocket(x, "write",
        IF x.res[n].state # "BODY" /\ Throws(x.res[n])
        THEN [x EXCEPT !.thrown = TRUE]
        ELSE [SockWrite(headed, body) EXCEPT !.res[n].buf = <<>>])

\* Faulty variant: a finished response does not end the socket.
OnDrainLeavesOpen(x, n) ==
  IF x.res[n].buf # <<>> THEN NotifyWrite(x, n)
  ELSE NextTick(x, <<"emit", IF x.res[n].finish THEN "finish" ELSE "drain">>)

\* The listener of the socket's "drain".
OnDrain(x, n) ==
  WithSocket(x, "drain",
    IF x.res[n].buf # <<>> THEN NotifyWrite(x, n)
    ELSE IF x.res[n].finish
         THEN SockEnd(NextTick([x EXCEPT !.res[n].done = TRUE], <<"emit", "finish">>))
    ELSE NextTick(x, <<"emit", "drain">>))

\* The socket's "drain" is emitted to its listeners from the n-th on.
Listeners(x, n) == IF n \in DOMAIN x.res THEN Call(x, <<"drain", n>>) ELSE x

\* Writable::write and end with one item or none.
Write(x, n, items) ==
  IF x.res[n].destroyed \/ x.res[n].finish
  THEN NextTick(x, <<"emit", "error">>)
  ELSE NotifyWrite([x EXCEPT !.res[n].buf = @ \o items,
                             !.res[n].written = @ + Len(items)], n)

End(x, n, items) ==
  IF x.res[n].destroyed \/ x.res[n].finish
  THEN NextTick(x, <<"emit", "error">>)
  ELSE [Write(x, n, items) EXCEPT !.res[n].finish = TRUE]

ResponseDestroy(x, n) ==
  IF x.res[n].destroyed THEN x
  ELSE WithSocket(x, "destroy",
         NextTick([SockDestroy(x) EXCEPT !.res[n].destroyed = TRUE],
                  <<"emit", "close">>))

\* setHeader throws once the head is sent.
SetHeader(x, n) ==
  IF x.res[n].state = "BODY" THEN x
  ELSE [x EXCEPT !.res[n].pending = @ + 1, !.res[n].set = @ + 1]

\* writeHead, with another status and one header, never throws.
HeadWritten(r) ==
  [r EXCEPT !.valid = ~@, !.pending = @ + 1,
            !.set = IF r.state = "BODY" THEN @ ELSE @ + 1]
WriteHead(x, n) == [x EXCEPT !.res[n] = HeadWritten(@)]

FlushHeaders(x, n) ==
  IF x.res[n].state = "BODY" \/ Throws(x.res[n]) THEN x
  ELSE [x EXCEPT !.res[n] = Flushed(@)]

-----------------------------------------------------------------------------
(* Readable, for the socket ("sock") and for the request ("req"). *)

\* _push of bytes, or of the end, to a stream that takes them.
Push(x, s, items) ==
  Call([x EXCEPT !.rd[s].buf = @ \o items,
                 !.rd[s].ended = @ \/ items = <<>>], <<"emit", s>>)

\* A refused push pauses the socket.
PushRefused(x) == WithSocket(x, "data", Pause(x, "sock"))

\* IncomingMessage::on_data of the parser. The socket is paused before the
\* listeners of "error" are called, not after: none of them can tell.
PushData(x, i) ==
  IF x.rd.req.destroyed THEN PushRefused(NextTick(x, <<"emit", "error">>))
  ELSE IF x.rd.req.ended THEN User(PushRefused(x))
  ELSE Push(Call(x, <<"pushed", "req">>), "req", <<i>>)

PushEnd(x) ==
  IF x.rd.req.destroyed THEN NextTick(x, <<"emit", "error">>)
  ELSE IF x.rd.req.ended THEN User(x)
  ELSE Push(Call(x, <<"pushedEnd", "req">>), "req", <<>>)

\* The parser's "error": clientError is emitted and Feed returns.
ParserError(x) ==
  WithSocket(x, "error",
    User([Pause(Pause(x, "req"), "sock") EXCEPT !.failed = TRUE]))

\* on_headers_complete: the response is made and "request" is emitted.
Parsed(x) ==
  WithSocket(x, "head", User([x EXCEPT !.res = Append(@, NewResponse)]))

\* IncomingMessage::_read and _destroy.
RequestRead(x) == WithSocket(x, "read", Resume(x, "sock"))
RequestDestroy(x) ==
  IF x.rd.req.destroyed THEN x
  ELSE WithSocket(x, "destroy",
         NextTick([SockDestroy(x) EXCEPT !.rd.req.destroyed = TRUE],
                  <<"emit", "close">>))

\* The request and the socket are told what the parser finds in a unit.
ParseUnit(x, i, rest) ==
  LET y == IF rest = <<>> THEN x ELSE Call(x, <<"feed", rest>>)
  IN  CASE input[i] = "head" -> Parsed(y)
        [] input[i] = "data" -> PushData(y, i)
        [] input[i] = "end" -> PushEnd(y)
        [] input[i] = "bad" -> ParserError(x)

\* The connection ends while a message is incomplete.
Truncated ==
  LET read == SubSeq(input, 1, got)
  IN  Requests(read) > Count("end", read)

-----------------------------------------------------------------------------
(* The frames. *)

Keep == UNCHANGED <<input, got, phase, todo, calls, heard>>

\* on_data of the socket: Feed, unit by unit.
FeedStep ==
  /\ Top[1] = "feed"
  /\ lib' = ParseUnit(Pop(lib), Head(Top[2]), Tail(Top[2]))
  /\ Keep

Emits(r) == r.flowing /\ ~r.destroyed /\ ~r.endEmitted

\* _emitData: data first, then the end.
ToEnd(x, s) == IF x.rd[s].ended THEN Call(x, <<"end", s>>) ELSE x

EmitData ==
  /\ Top[1] = "emit"
  /\ LET s == Top[2]
         r == lib.rd[s]
         x == Pop(lib)
         cleared == Call(x, <<"clear", s>>)
     IN  /\ lib' = IF ~Emits(r) THEN x
                   ELSE IF r.buf = <<>> THEN ToEnd(x, s)
                   ELSE IF s = "req" THEN User(cleared)
                   ELSE IF x.failed THEN cleared
                   ELSE Call(cleared, <<"feed", r.buf>>)
         /\ heard' = IF s = "req" /\ Emits(r)
                     THEN [heard EXCEPT !.body = @ \o r.buf] ELSE heard
  /\ UNCHANGED <<input, got, phase, todo, calls>>

\* Faulty variant: what was emitted stays in the buffer.
DataReturnsKeepsBuffer ==
  /\ Top[1] = "clear"
  /\ lib' = ToEnd(Pop(lib), Top[2])
  /\ Keep

\* The listeners of "data" have returned.
DataReturns ==
  /\ Top[1] = "clear"
  /\ LET s == Top[2]
         x == [Pop(lib) EXCEPT !.rd[s].buf = <<>>]
     IN  lib' = ToEnd(IF x.rd[s].over
                      THEN NextTick([x EXCEPT !.rd[s].over = FALSE], <<"read", s>>)
                      ELSE x, s)
  /\ Keep

\* The parser is told of the end of the socket, the user of the request's.
EmitEnd ==
  /\ Top[1] = "end"
  /\ LET s == Top[2]
         x == Call(Pop(lib), <<"ended", s>>)
     IN  /\ lib' = IF s = "req" THEN User(x)
                   ELSE IF s = "sock" /\ ~x.failed /\ Truncated THEN ParserError(x)
                   ELSE x
         /\ heard' = IF s = "req" THEN [heard EXCEPT !.end = TRUE] ELSE heard
  /\ UNCHANGED <<input, got, phase, todo, calls>>

EndReturns ==
  /\ Top[1] = "ended"
  /\ lib' = [Pop(lib) EXCEPT !.rd[Top[2]].endEmitted = TRUE]
  /\ Keep

\* _push returns: only the pieces of a body are answered with a pause.
PushReturns ==
  /\ Top[1] \in {"pushed", "pushedEnd"}
  /\ LET s == Top[2]
         over == Len(lib.rd[s].buf) > Mark
         x == [Pop(lib) EXCEPT !.rd[s].over = over]
         refused == over \/ ~x.rd[s].flowing
     IN  lib' = IF Top = <<"pushed", "req">> /\ refused THEN PushRefused(x) ELSE x
  /\ Keep

DrainStep ==
  /\ Top[1] = "drain"
  /\ LET n == Top[2] IN lib' = OnDrain(Listeners(Pop(lib), n + 1), n)
  /\ Keep

-----------------------------------------------------------------------------
(* _doRead.  After a destroy the loop meets a descriptor that is closed.   *)

ReadData ==
  /\ Top = <<"doRead">> /\ ~lib.hup /\ ~lib.rd.sock.destroyed
  /\ \E k \in 1 .. Len(input) - got :
       /\ got' = got + k
       /\ lib' = Push(Call(lib, <<"pushed", "sock">>), "sock",
                      [i \in 1 .. k |-> got + i])
  /\ UNCHANGED <<input, phase, todo, calls, heard>>

ReadBlocks ==
  /\ Top = <<"doRead">> /\ ~lib.hup /\ ~lib.rd.sock.destroyed
  /\ lib' = Pop(lib)
  /\ Keep

ReadFails ==
  /\ Top = <<"doRead">> /\ ~lib.hup /\ lib.rd.sock.destroyed
  /\ lib' = User(Pop(lib))
  /\ Keep

ReadEnd ==
  /\ Top = <<"doRead">> /\ ~lib.hup /\ ~lib.rd.sock.destroyed
  /\ MayFin /\ got = Len(input)
  /\ lib' = Push(Call(Call(Pop(lib), <<"hup">>), <<"pushed", "sock">>), "sock", <<>>)
  /\ Keep

ReadOver ==
  /\ Top = <<"doRead">> /\ lib.hup
  /\ lib' = Pop(lib)
  /\ Keep

\* m_bHUP, then _doWrite.
HangUp ==
  /\ Top = <<"hup">>
  /\ \E taken \in Takes(lib) :
       lib' = DoWrite([Pop(lib) EXCEPT !.hup = TRUE], taken)
  /\ Keep

-----------------------------------------------------------------------------
(* User code. *)

Callable == Top = <<"user">> /\ calls > 0

\* User code is given the request with its first response, and every response.
Requested == lib.res # <<>>
Responses == DOMAIN lib.res

Api(next) ==
  /\ Callable
  /\ lib' = [next EXCEPT !.late = lib.record = "gone"]
  /\ calls' = calls - 1
  /\ UNCHANGED <<input, got, phase, todo, heard>>

WriteCall == \E n \in Responses :
  \/ Api(Write(lib, n, <<lib.res[n].written + 1>>))
  \/ Api(End(lib, n, <<lib.res[n].written + 1>>))
  \/ Api(End(lib, n, <<>>))

HeaderCall == \E n \in Responses :
  \/ Api(SetHeader(lib, n))
  \/ Api(FlushHeaders(lib, n))
  \/ Api(WriteHead(lib, n))

DestroyCall ==
  \/ \E n \in Responses : Api(ResponseDestroy(lib, n))
  \/ Requested /\ Api(RequestDestroy(lib))
  \/ /\ lib.record # "gone"
     /\ Api(SockDestroy(lib)) \/ Api(SockEnd(lib))

FlowCall ==
  /\ Requested
  /\ Api(Pause(lib, "req")) \/ Api(Resume(lib, "req"))

UserStep == WriteCall \/ HeaderCall \/ DestroyCall \/ FlowCall

Return ==
  /\ Top = <<"user">>
  /\ lib' = Pop(lib)
  /\ Keep

-----------------------------------------------------------------------------
(* The event loop. *)

Idle == lib.stack = <<>>
Next_(x) == [x EXCEPT !.ticks = Tail(@)]

Tick(x, t) ==
  CASE t = <<"read", "sock">> -> Call(Call(x, <<"emit", "sock">>), <<"doRead">>)
    [] t = <<"read", "req">> -> Call(RequestRead(x), <<"emit", "req">>)
    [] t = <<"sockDrain">> -> Listeners(x, 1)
    [] t[1] = "write" -> ResponseWrite(x, t[2])
    [] t \in {<<"emit", "sockFinish">>, <<"emit", "sockClose">>} -> x
    [] OTHER -> User(x)

RunTick ==
  /\ Idle /\ phase = "drain" /\ lib.ticks # <<>>
  /\ LET t == Head(lib.ticks)
         x == Next_(lib)
     IN  IF t = <<"sockWrite">>
         THEN \E taken \in Takes(x) :
                lib' = DoWrite([x EXCEPT !.notified = FALSE], taken)
         ELSE lib' = Tick(x, t)
  /\ Keep

\* The record of a destroyed socket is freed, and the socket with it; a socket
\* that waits to write is reported as soon as there is room.
DrainDone ==
  /\ Idle /\ phase = "drain" /\ lib.ticks = <<>>
  /\ lib' = [lib EXCEPT !.record = IF @ = "attached" THEN @ ELSE "gone"]
  /\ phase' = "dispatch"
  /\ \E some \in SUBSET {"other", "read"} :
       /\ "other" \in some => calls > 0
       /\ todo' = some \cup IF lib.wantWrite THEN {"write"} ELSE {}
  /\ UNCHANGED <<input, got, calls, heard>>

Reported == Idle /\ phase = "dispatch" /\ lib.record = "attached"

\* Another event or a timer calls user code, which has calls to make.
OtherCallback ==
  /\ Idle /\ phase = "dispatch" /\ "other" \in todo
  /\ todo' = todo \ {"other"}
  /\ lib' = User(lib)
  /\ UNCHANGED <<input, got, phase, calls, heard>>

DispatchRead ==
  /\ Reported /\ "read" \in todo
  /\ todo' = todo \ {"read"}
  /\ lib' = Call(lib, <<"doRead">>)
  /\ UNCHANGED <<input, got, phase, calls, heard>>

DispatchWrite ==
  /\ Reported /\ "write" \in todo /\ "read" \notin todo
  /\ todo' = todo \ {"write"}
  /\ \E taken \in Takes(lib) :
       /\ lib.sent < Len(lib.out) => taken > 0
       /\ lib' = DoWrite(lib, taken)
  /\ UNCHANGED <<input, got, phase, calls, heard>>

DispatchDone ==
  /\ Idle /\ phase = "dispatch"
  /\ lib.record # "attached" \/ todo \cap {"read", "write"} = {}
  /\ phase' = "drain" /\ todo' = {}
  /\ UNCHANGED <<input, got, lib, calls, heard>>

LibraryStep ==
  \/ FeedStep \/ EmitData \/ DataReturns \/ EmitEnd \/ EndReturns \/ PushReturns
  \/ DrainStep \/ ReadData \/ ReadBlocks \/ ReadFails \/ ReadEnd \/ ReadOver
  \/ HangUp \/ RunTick \/ DrainDone \/ DispatchRead \/ DispatchWrite \/ DispatchDone

Aborted == lib.aborted # "none"

Next ==
  /\ ~Aborted
  /\ UserStep \/ Return \/ OtherCallback \/ LibraryStep

Spec == Init /\ [][Next]_vars

\* The thread runs, and user code returns.
FairSpec ==
  /\ Spec
  /\ WF_vars(~Aborted /\ (Return \/ LibraryStep))

-----------------------------------------------------------------------------
(* Properties. *)

Responded == DOMAIN lib.res

\* The piece i of the input belongs to the body of the first request.
InBody(i) ==
  input[i] = "data" /\ \A j \in 1 .. i - 1 : input[j] \notin {"end", "bad"}

\* The objects are as declared, the streams hold what was read, and no more
\* responses are made than requests were sent.
TypeOK ==
  /\ input \in Inputs /\ got \in 0 .. Len(input)
  /\ lib \in Library
  /\ lib.sent <= Len(lib.out) /\ Len(lib.res) <= Requests(input)
  /\ phase \in {"drain", "dispatch"} /\ todo \subseteq {"other", "read", "write"}
  /\ calls \in 0 .. MaxCalls[Requests(input)]
  /\ heard \in [body : Seq(1 .. got), end : BOOLEAN]
  /\ \A s \in Streams : lib.rd[s].buf \in Seq(1 .. got)

\* Pieces of the first body in their order, and none left out before the last.
Pieces(s) ==
  /\ \A k \in DOMAIN s : s[k] \in DOMAIN input /\ InBody(s[k])
  /\ \A k, l \in DOMAIN s : k < l => s[k] < s[l]
  /\ \A i \in DOMAIN input : InBody(i) =>
       \A k \in DOMAIN s : i < s[k] => \E l \in DOMAIN s : s[l] = i

\* The listeners of a request hear its body, each piece once and in order,
\* however it pauses, and "end" means that they have heard all of it.
RequestInOrder ==
  /\ Pieces(heard.body)
  /\ heard.end => \A i \in DOMAIN input : InBody(i) =>
                    \E k \in DOMAIN heard.body : heard.body[k] = i

\* A response puts its head and then its writes into the socket, each once:
\* a write follows the one before it, the first follows the head.
Before(out, i) == {j \in 1 .. i - 1 : out[j][2] = out[i][2]}
HeadThenBody(out) ==
  \A i \in DOMAIN out :
    IF out[i][1] = "head" THEN Before(out, i) = {}
    ELSE /\ \E j \in Before(out, i) :
              IF out[i][3] = 1 THEN out[j][1] = "head"
              ELSE out[j][1] = "body" /\ out[j][3] + 1 = out[i][3]
         /\ \A j \in Before(out, i) : out[j][1] = "body" => out[j][3] < out[i][3]

\* Nothing written is dropped between the response and the socket, as long as
\* the socket takes it; an exception in _write leaves it for the next one.
PassedOn(x, n, k) == \E i \in DOMAIN x.out : x.out[i] = <<"body", n, k>>
NothingDropped(x) ==
  Writes(x) =>
    \A n \in DOMAIN x.res : \A k \in 1 .. x.res[n].written :
      LET left == Len(x.res[n].buf)
          passed == x.res[n].written - left
      IN  /\ PassedOn(x, n, k) <=> k <= passed
          /\ k <= left => x.res[n].buf[k] = passed + k

\* A head carries every header that was set before it was sent, flushed or not.
HeadersInHead(x) ==
  \A i \in DOMAIN x.out :
    x.out[i][1] = "head" => x.out[i][3] = x.res[x.out[i][2]].set

\* What a response puts into the socket: one head with all its headers, then
\* all its writes in order.
ResponseInOrder ==
  HeadThenBody(lib.out) /\ HeadersInHead(lib) /\ NothingDropped(lib)

\* When the first response emits "finish", its head and all that was written
\* to it have reached the socket.
FinishMeansPassedOn ==
  1 \in Responded /\ lib.res[1].done
    => /\ \E i \in DOMAIN lib.out : lib.out[i][1] = "head" /\ lib.out[i][2] = 1
       /\ \A k \in 1 .. lib.res[1].written : PassedOn(lib, 1, k)

\* When nothing is posted, as at every poll, a request that flows holds nothing
\* back and its socket flows too: what paused the socket has been undone.
FlowsTogether ==
  LET r == lib.rd.req
  IN  Idle /\ lib.ticks = <<>> /\ r.flowing /\ ~r.destroyed /\ ~r.ended
        => r.buf = <<>> /\ (lib.rd.sock.flowing \/ lib.rd.sock.destroyed)

\* The streams find their socket, whatever happens to it in the middle of their
\* functions: of the asserts that lock it, those in the listeners that they
\* install on the socket and on the parser (ServerResponse.cpp:30 and
\* IncomingMessage.cpp:48, 62, 72) never fail, and those in _read, _write and
\* _destroy (ServerResponse.cpp:84, 92, IncomingMessage.cpp:89, 97) fail only
\* after user code has called a stream that it kept when the socket was gone.
SocketOutlivesStreams ==
  Aborted => lib.late /\ lib.aborted \in {"read", "write", "destroy"}

\* It is safe to keep a response (main.cpp:132): no assertion fails at all.
KeepingIsSafe == ~Aborted

\* A response that has ended is sent, with the FIN after it, unless an
\* exception stopped it or the connection is destroyed.
ResponseCompletes ==
  1 \in Responded /\ lib.res[1].finish
    ~> \/ lib.shut /\ lib.sent = Len(lib.out)
       \/ lib.thrown \/ lib.rd.sock.destroyed
=============================================================================
