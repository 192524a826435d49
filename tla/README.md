# silentloop: TLA+ models, checks and proofs

silentloop is a single-threaded, event-driven network library in the manner of
Node.js: an event loop over `epoll`, streams, TCP sockets and servers, and an
HTTP server on top of them. This directory models its logic in TLA+, checks
the models on small instances with TLC, and proves with TLAPS, for every
instance, the invariants of the event loop, of sockets, servers, object
lifetimes, of the HTTP parser and of an HTTP connection, and that the loop
implements its contract.

`core/` and `modules/` below are the directories of `src/src/`.

Contents: 1 inventory, 2 modules, 3 runs and bounds, 4 fairness, 5 proofs,
6 findings, 7 what is not modelled, 8 plan.

## 1. Inventory

There is one thread and no persistent state. Everything that is hard in this
code comes from callbacks: user code runs in the middle of the loop's own
loops and of the socket's, and before it returns it may attach, detach, close,
destroy, set timers, post further callbacks and use descriptor numbers again.

| Component | State | Operations | Talks to | Correct when |
|---|---|---|---|---|
| `EventLoop`, `EventLoopBase` (`core`) | `m_lstEvents` (the `_eventInfo` records), `m_qTimers`, `m_vecRMPending`, `m_qNextTick`, `m_tNow` | `Add`, `Run`, `_tick`, `_removeEvent`, `_setTimer`, `_cancelTimer`, `_notifyIOStateChange`, `NextTick` | calls `OnTimer`, `OnRead`, `OnWrite`, `OnHUP`, `OnError` of events; called by events | no record is used after it is freed; nobody is called after `Detach`; timers and callbacks are neither lost nor run twice; it never waits while there is work |
| `Event`, `IOEvent` (`core`) | `m_pEL`, `m_handle`, `m_fd`, `m_IOEventMask` | `Attach`, `Detach`, `SetTimer`, `CancelTimer`, `SetFD`, `SetIOEventMask`, `Close` | loop, subclasses | event and record agree; a descriptor is closed once, while its event is detached |
| `IOMux_epoll` (`core/io_mux`) | the kernel's interest list, `m_vecReadyEvents` | `Register`, `Unregister`, `UpdateIOEventMask`, `Poll` | kernel, loop | the interest list is that of the attached events and their masks |
| `Timeout` (`core/Timer`) | an `Event` per timer | `SetTimeout`, `SetInterval`, `Refresh`, `Cancel` | `Event` | a timer lives until it ran or was cancelled |
| `Linkable` (`core`) | `m_vecLinks`, the objects an object owns | `LinkWith`, `_link`, `_lookup`, `NextTick`, destructor | everything that is shared | an object lives while an owner does; links form no circle |
| `EventEmitter`, `Error` (`core`) | vectors of listeners | `on_...`, `EMIT_EVENT`, `EMIT_EVENT_ASYNC` | all | every listener is called |
| `EventLoopFactory` (`core`) | a thread-local pointer to the loop | `RunThreadEventLoop`, `GetThreadEventLoop` | all | one loop per thread |
| `stream::Stream`, `Readable`, `Writable`, `Duplex` (`modules/stream`) | flowing, buffers, ended and destroyed flags | `pause`, `resume`, `write`, `end`, `destroy`, `_push`, `_emitData`, `_onDrained` | socket, HTTP objects | bytes are delivered in order, once; `end` comes after the last of them; `close` comes once |
| `net::Socket` (`modules/net`) | a `Duplex` over an `IOEvent`, `m_bHUP`, `m_bWRShutdown` | `_init`, `_doRead`, `_doWrite`, `_destroy`, the handlers of its `IOEvent` | stream, loop | the polled mask follows flowing and the write buffer; half-close and errors lead to `close` |
| `net::Server` (`modules/net`) | a weak pointer to a listening `IOEvent`, its descriptor | `Listen`, `Close`, the accept loop, the handlers of error and close | `IOEvent`, `Socket`, loop | no descriptor leaks; connections come only between `listening` and `close`; the accept loop stops when the server is closed; the server outlives its callbacks |
| `http_parser.c` (`modules/http/internal`) | state, header state, counters, marks | `http_parser_execute` | `HTTPRequestParser` | what is reported does not depend on how the bytes are split; lengths and sizes stay in bounds |
| `HTTPRequestParser` (`modules/http/internal`) | URL, header and trailer fields in pieces | `Feed`, seven parser callbacks | `http_parser`, `IncomingMessage` | names and values are put together from any split; a message is headers, data, end |
| `IncomingMessage` (`modules/http`) | a `Readable`, the parser, `m_bParserError` | `_init`, `_read`, `_destroy`, handlers of socket and parser | `Socket`, parser | the body arrives in order and completely before `end`; back-pressure reaches the socket and is undone |
| `ServerResponse` (`modules/http`) | a `Writable`, the state of its head, header fields | `writeHead`, `setHeader`, `flushHeaders`, `_write`, `_destroy`, drain | `Socket` | one head with all headers, then the writes in order; `finish` after them; the FIN follows |
| `http::Server` (`modules/http`) | a `net::Server` | the handler of connection | all of the above | every connection gets its streams and error handlers |
| `Log`, `Utils`, `StatusCodes`, `process::NextTick`, `main.cpp` | | wrappers, tables, a demonstration | | |

The hazards of the code, each at its line and with the properties that watch
it, are listed in `PROJECT.json`.

## 2. Modules

| Module | Models | Extends |
|---|---|---|
| `EventLoop` | `EventLoop`, `EventLoopBase`, `Event`, `IOEvent`, `IOMux_epoll` | |
| `LoopContract` | what the loop promises its users, without its data structures | |
| `EventLoopRefines` | the refinement mapping from `EventLoop` to `LoopContract` | `EventLoop` |
| `EventLoopProofs` | types, the inductive invariant, records, timers, waiting and the interest list, proved | `EventLoop` |
| `EventLoopImplements` | the refinement of `LoopContract`, proved | `EventLoopRefines`, `EventLoopProofs` |
| `Socket` | `net::Socket`, `stream::*`, the connection and its peer | |
| `SocketProofs` | the inductive invariant and the theorems of the socket | `Socket` |
| `Linkable` | owners and lifetimes | |
| `LinkableProofs` | lifetimes with and without circular links, proved | `Linkable` |
| `NetServer` | `net::Server`, its `IOEvent`, the backlog of the kernel, the program | |
| `NetServerProofs` | the inductive invariant and the theorems of the server | `NetServer` |
| `HttpParser` | `http_parser_execute` for requests, `HTTPRequestParser` | |
| `HttpParserProofs` | types, asserts, events and limits of the parser, proved | `HttpParser` |
| `HttpExchange` | `http::Server`'s handler, `IncomingMessage`, `ServerResponse` over a socket: one connection | |
| `HttpExchangeProofs` | types, responses and lifetimes of a connection, proved | `HttpExchange` |
| `HttpExchangeFlow` | what a request hears and how it flows, proved | `HttpExchangeProofs` |
| `MC*` | symmetry and the values of constants, for TLC | the module they check |

A definition called a *faulty variant* in a comment is not part of a model: it
is one of the mistakes the properties are tested against.

### EventLoop

*State.* Memory is explicit. A member of `Handles` is the address of an
`_eventInfo` record; `info[h]` is the record, `FreeInfo` if it is not
allocated, and an address is handed out again once its record is freed. So a
stale address is a wrong address and not only an old one, which is what
`NoDanglingHandles` and `EpollOwnership` are about. `handle`, `fd`, `mask` are
the members of the events; `m_pEL` is null exactly when `m_handle` is.
`qTimers` is the priority queue as a bag of handles: equal deadlines may come
out in any order. `due` is `tpNextTimeout - m_tNow`, so there is no clock that
grows; reading the clock (`_updateTimePoint`) moves the deadlines nearer.
`epoll` is the interest list, which `close(2)` also changes.

*Control.* `pc` is where the thread is. Each phase of `_tick` and each turn of
its loops is an action: `TickBegins`, `RunTimer`, `TimersDone`, `RunTick`,
`TicksDrained`, `ErasePending`, `Poll`, `Dispatch`, `ReportDone`,
`DispatchDone`. `_processPendingRemovals` is called from three places; `after`
says which. A callback hands the thread to user code (`pc \in UserCode`), and
`ApiCall` is any one call it makes. API calls never call back, so each is one
step with all it does: `Attach` is `Event::Attach`, `Add`, `_updateIOFD` and
`epoll_ctl`. The record that is being served is looked at again for each bit
of its report, as in the code. A signal makes `epoll_wait` start over with
all of its timeout (`TEMP_FAILURE_RETRY`, `IOMux_epoll.cpp:55`): `restarts`
counts how often, and `slept`, the time waited, is up to one timeout longer for
each. What `epoll_ctl` answers is derived from the
interest list (`EEXIST`, `ENOENT`) and, with `EpollMayFail`, may be a failure.

*Left out.* `CATCH_ALL` swallows exceptions, so an emission always returns.
Log lines. `EnableNonBlockingIO`. The programs modelled open a descriptor for
one event at a time (`SetFD` takes a number nobody has).

### LoopContract and EventLoopRefines

`LoopContract` has four variables: who is attached, which timers are armed,
what is posted, what is running. It says that one callback runs at a time;
that `OnTimer` comes only for an armed timer and uses it up unless it is
periodic; that I/O callbacks come only to attached events; that posted
callbacks run first in, first out, each once; that the loop waits only with
none left and ends only with nobody attached or when waiting fails.
`EventLoopRefines` maps the records to it: an event is attached when its
`m_handle` is set, armed as the flags of that record say.

### Socket

The functions of the socket call user code in their middle: `_doRead` calls
`_push`, which calls `_emitData`, which calls the listeners, which may destroy
the socket, and then `_doRead` goes on. So the call stack of the thread is a
variable, `stack`: a frame is what is left to do of a function. `EmitData`,
`DataReturns`, `EndReturns`, `Pushed` are `_emitData` and `_push` cut at the
callbacks; `ReadData`, `ReadEOF`, `ReadBlocks`, `ReadFails`, `WriteData`,
`WriteBlocks`, `WriteFails`, `Drained` are the turns of the two loops, one for
each answer of `read(2)`, `write(2)` and `shutdown(2)`.

`rd`, `wr`, `destroyed`, `hup` are the members of the streams and the socket.
`io` is the `IOEvent`: `mask` is its mask, `registered` the mask
`_updateIOFD` compares with and `polled` what `epoll` was told. The event loop
is used as `EventLoop` shows it to be: reports are dispatched bit by bit to an
attached event, posted callbacks run in order before the loop waits, and the
record of a detached event, with the `IOEvent` it holds, is freed when they
have run (`Erase`). `kernel` is the connection: bytes that arrived, were read
and are queued, FIN and RST. Bytes are numbered, which is enough to tell lost,
repeated and reordered ones. The connection keeps the error of a reset for the
next call that asks: `ECONNRESET`, or `EPIPE` if the peer's FIN came before it
and ours was not sent. A `write(2)` after that error was taken, or one that
meets `EPIPE`, raises `SIGPIPE`; nothing in the repository ignores the signal,
so `WriteKills` ends the process (frame `"killed"`). With `InitMayFail`, `_init`
may be given a negative descriptor, which posts an error and makes no `IOEvent`,
or one that `epoll` refuses. `delivered`, `sent`, `accepted`, `refused` and
`closed` are history: no action reads them, but `Write` numbers its byte with
`accepted`.

*Left out.* `setNoDelay`; the byte that `end(data)` may carry (it is a `write`
followed by `end`); addresses.

### Linkable

`links[o]` is `m_vecLinks`, `held` the objects something outside refers to (a
variable, a record of the loop, a posted callback). `Release` takes away the
last reference from outside and destroys, at once, everything `shared_ptr`
would. `Lookup` is `_lookup` as reachability; with circular links the
recursion of the code need not end.

### NetServer

`event` is the `IOEvent` behind `m_wpListenerEvent`, `removed` the record the
loop still has after a `Detach`, `open` the descriptors of listening sockets.
The functions that emit (the accept loop, the handler of error, the posted
close) are `running`, with `user` on top of them while a listener runs; `Listen`
and `Close` do not call back, so a call is one step. `_openTCPSocket` has one
outcome, a bound socket or none; `_listen` may fail at `epoll_ctl`. The program
may give up its reference (`Release`) at any time; what then keeps the server
alive is the link from its event, which the record of the loop holds.

### HttpParser

The parser is one record `p`, and every function is an operator from the record
before to the record after it. A call of `Feed` begins with `Feed` (the marks of
what the last call left open), takes one byte after the other (`TakeByte`: one
turn of the loop of `http_parser_execute`) and ends with `FeedReturns` (the
callbacks for what is open, the errors); `FeedEnd` is the empty buffer. `upto` is
the last byte of the call that runs; nothing else happens during it, as the
thread is in it. `Byte` counts the byte, takes the `Step` of the state and keeps
the byte if it belongs to an open mark. `Step` dispatches on the state to one
operator per state, named after it. Abstractions: a byte is a
name from a small alphabet that keeps every class the parser tells apart;
keywords are two or three bytes long, long enough to be split between reads, and
the states `h_matching_...` are the prefixes read so far; a run of bytes is
taken byte by byte. The marks, the calls at the end of a buffer and the order
of callbacks are those of the code. Responses, lenient headers and pausing are
left out, as nothing in the repository uses them.

### HttpExchange

One connection of `http::Server`, with the call stack as in `Socket`. The
objects are the record `lib`; a function of the library is an operator on it,
and the functions that call user code are frames of `lib.stack`. Two modules
below it are used by what they show: the parser is the sequence of its events
(`HttpParser`: `Framed`, `SplitIndependent`), and the socket is reported
readable at any time, so that what `READ` was asked for plays no part; reads,
`_push`, `_doWrite`, destruction and the order of posted callbacks are those of
the socket. A `Readable` is one set of operators for both streams, told apart
by `"sock"` and `"req"`. `res[n]` is the response to the n-th request; `out` is
all that was ever put into the socket's buffer, as pairs of a response and what
of it. `set`, `written`, `done`, `thrown`, `heard` and `late` are history. Each
function that locks its weak pointer to the socket and asserts that it is there
goes through `WithSocket`, which stops the process (`aborted`) when the record
of the socket is gone, and names the assert. User code may call a request and
its responses for as long as it likes, so also after their connection is gone
(`late`); the socket itself it does not keep. The drain of
the socket is emitted to one response after the other (`Listeners`,
`DrainStep`), the listener of the n-th being a frame `<<"drain", n>>`, and the
types of all this are `Library`.

*Left out.* Two listeners for one event; `statusMessage`; which header names
are equal.

## 3. Runs and bounds

| Run | Config | Instance | Shows |
|---|---|---|---|
| `loop` | `MCEventLoop.cfg` | 2 events, 3 addresses, 1 descriptor, timers of 0 and 3 ms, `INT_MAX` 2, 2 posted callbacks, 1 signal per wait, failing `epoll_ctl` | the structural invariants, and how late a timer can be: the time the loop runs and, per signal, its interval |
| `loop_io` | `MCEventLoop_io.cfg` | 2 events, 2 descriptors reported by one `Poll`, masks that change | no callback after `Detach` within one dispatch; the mask is stale in one case only |
| `loop_contract` | `MCEventLoopRefines.cfg` | 2 events, 2 addresses, 1 descriptor, 1 timer | the refinement, and liveness |
| `socket` | `MCSocket.cfg` | 3 bytes in against a buffer of 2, 2 bytes out through a buffer of 1, not half-open, an `_init` that may fail | the safety of the streams |
| `socket_live` | `MCSocket_live.cfg` | half-open, resets before and after a FIN, 2 bytes out | posted callbacks find the `IOEvent`; `close` and FIN come; a reset ends in an error or in `SIGPIPE` |
| `linkable` | `MCLinkable.cfg` | 4 objects | lifetimes |
| `server` | `MCNetServer.cfg` | 2 descriptors, 3 calls of `Listen`, 3 of `Close`, 3 clients, 2 failures | descriptors, lifetimes and order of events; connections are served, a closed server closes |
| `parser` | `MCHttpParser.cfg` | 7 pipelines of up to two requests, and each request of three kinds damaged at every byte; reads of 1, 2 and 5 bytes; a close after any of them | independence of the split, meaning, framing, limits |
| `http` | `MCHttpExchange.cfg` | 4 inputs of up to 5 parser events, FIN or none, high-water mark 1, 3 API calls (2 with two requests) | order, completeness and back-pressure of both directions; which asserts on the socket can fail, and when; an ended response is sent |
| `socket_resume`, `server_twice`, `http_lost` | `MCSocket_resume.cfg`, `MCNetServer_twice.cfg`, `MCHttpExchange_lost.cfg` | | violations: see 6 |

Why the bounds are enough to meet the interesting cases:

- Three addresses for two events: a record can wait for its removal while its
  event is already attached again at another address, and both events are.
  Fewer descriptors than events: a number is closed and used by another event
  while the first one's record still exists.
- `Timeouts = {0, 3}` with `INT_MAX = 2`: a deadline that is due when it is
  set and one beyond the longest wait, different and equal ones;
  `MaxElapsed = 1` makes timers late, so that due times below 0 are met.
  `MaxRestarts = 1`: a wait that is interrupted and one that is not; a second
  signal adds the same again, and the theorem is about any number. The run of
  two reports (`loop_io`) has no timers and needs no signals (0).
- Two posted callbacks: a callback posts another one from inside itself, and
  two closes of one event wait together. Four would add no new order: the
  queue is used at its two ends only.
- `MaxEvents = 2` with two descriptors: the second report of the vector is
  there while the first one's callbacks detach its event.
- `RdHighWater = 2` with three bytes: below, at and over the mark; a byte
  left in the kernel after a full buffer. `SndBuf = 1` with two bytes: partial
  writes and `EAGAIN`. `MaxTicks = 2`: user code posts nothing further with two callbacks waiting;
  the socket's own posts are not bounded.
- Three clients and three calls of each kind: a connection is accepted, one is
  in the backlog and one comes later; `Listen`, `Close`, `Listen`, `Close`
  with the first close still posted.
- `LengthMax = 63` stands for 2^64 - 1 and `MaxHeaderSize = 46` for 80 KiB:
  small enough that inputs reach both. Reads of one byte split everything
  everywhere; 2 and 5 put several states into one buffer. Each damaged input
  replaces, removes or adds one byte, ten kinds of byte in every place.
- Two pieces of body against a mark of 1: the request refuses one and takes the
  next after a resume. Three calls: set a header, write, end; or pause,
  resume, end; or write, flush, set. Two requests and two responses share the
  drain of one socket.
- Four objects: an owner with two, a chain of three, and one shared by two.

Events, addresses and descriptors are symmetric: nothing compares them. The
runs of liveness use no symmetry. Deadlock is not checked: the loop stops
when nobody is attached, and a socket that is closed has nothing left to do;
that the loop does not stop early is what `LoopContract` (`End`) and the
liveness properties say.

## 4. Fairness

`EventLoop`: the thread runs (`WF` of `LoopStep`), user code returns from its
callbacks (`WF` of `CallbackReturns`), `epoll_wait` comes back when its timeout
is over (`WF` of `WaitsForTimer`, only while a timer is set: without one
nothing makes it return, and signals that come more often than its timeout
would make it start over for ever), and the clock does not stand still for ever (`SF` of
`ClockMoves`: strong, because the model reads it at one place of each pass).
`RemovalsComplete` and `TimersRun` are under the premise `[]<>(qNextTick =
<<>>)`: a program whose callbacks post callbacks for ever keeps
`_drainNextTickQueue` in its loop, and the code promises nothing then.
`CloseCompletes` needs no such premise, because the queue is first in, first
out.

`Socket`: the same, with `SF` of `RunTick` and `Poll`: callbacks of others may
run between, but each pass of the loop drains the queue and then polls. `WF`
of `PeerTakes`: a peer that stops reading for ever stops the socket too.
`Erase` is part of `LoopStep`; user code is never forced to call anything.

`NetServer`: `WF` of `Return` (user code returns) and `SF` of `LoopStep`: other
callbacks run between the steps of the loop, but finitely many in each phase.

`HttpExchange`: `WF` of `Return` and `LibraryStep` together: user code returns,
and the thread does all that the library does without it (while user code runs
no other step of the library is enabled, and it has finitely many calls). `DispatchWrite` takes at least one item, so the
client is assumed to read what is sent; that it sends anything, or closes, is
not assumed.

## 5. Proofs

Proved with TLAPS, for every value of the constants that meets the named
assumptions of the modules: any number of events, addresses, descriptors,
bytes, clients, requests, calls and posted callbacks.

| Theorem | States | Under |
|---|---|---|
| `EventLoopProofs!TypeCorrect`, `Typed` | `TypeInv`, `TypeOK` | |
| `EventLoopProofs!Invariance` | `IInv`, the inductive invariant of the loop | |
| `EventLoopProofs!RecordsMatchEvents` | `OneRecordPerEvent` | |
| `EventLoopProofs!TimerQueueCorrect` | `TimerQueueExact` | |
| `EventLoopProofs!RemovalsCorrect` | `PendingOnce` | |
| `EventLoopProofs!InterestCorrect` | `EpollOwnership` | |
| `EventLoopProofs!MemorySafety` | `NoDanglingHandles` | |
| `EventLoopProofs!WaitsWithNothingPending` | `NothingPendingAtPoll` | |
| `EventLoopProofs!NoCallbackAfterDetach` | `CallbacksOnlyWhenAttached` | |
| `EventLoopProofs!NoTimerIsLate` | `TimersNotLate` | |
| `EventLoopProofs!OnlyTheRegisteredMaskIsStale` | `InterestStaleOnlyAtRegisteredMask` | |
| `EventLoopImplements!KeepsContract` | `ImplementsContract`: the refinement of `LoopContract` | |
| `SocketProofs!SocketInvariant` | `IInv`, the inductive invariant of the socket | |
| `SocketProofs!LifeOfASocket` | `LifeInv` | |
| `SocketProofs!BytesInOrder` | `ReceivedInOrder` | |
| `SocketProofs!BytesOutInOrder` | `SentInOrder` | |
| `SocketProofs!NothingIsLeftUnsent` | `NothingLeftUnsent` | |
| `SocketProofs!EndAfterEveryByte` | `EndIsComplete` | |
| `SocketProofs!EventIsAlive` | `SocketEventAlive` | `InitMayFail = FALSE` |
| `NetServerProofs!ServerInvariant` | `IInv`, the inductive invariant of the server | |
| `NetServerProofs!DescriptorsKept` | `DescriptorInv` | |
| `NetServerProofs!CallbacksKept` | `CallbacksInTime` | |
| `LinkableProofs!OwnersKeepAlive` | `OwnedStayAlive` | |
| `LinkableProofs!LifetimesAreRight` | `Lifetimes` | `FreshOnly = TRUE` |
| `LinkableProofs!NeverCircular` | no links are circular, no assertion fails | `FreshOnly = TRUE` |
| `HttpParserProofs!ParserInvariant` | `IInv`, the inductive invariant of the parser | |
| `HttpParserProofs!ParserTypesAndAsserts` | `ParserInv` | |
| `HttpParserProofs!EventsWellFormed` | `WellFormed` | |
| `HttpParserProofs!HeldIsBounded` | `HeldBounded` | |
| `HttpExchangeProofs!BaseInvariant` | `Base`: the types, and where every buffer, frame and posted `_write` points | |
| `HttpExchangeProofs!ResponsesInOrder` | `ResponseInOrder` | |
| `HttpExchangeProofs!SocketIsThere` | `SocketOutlivesStreams` | |
| `HttpExchangeFlow!RequestIsHeardInOrder` | `RequestInOrder` | |
| `HttpExchangeFlow!SocketFlowsWithRequest` | `FlowsTogether` | |
| `HttpExchangeFlow!TypeCorrect` | `TypeOK` | |

What the two hypotheses say of the program, and why they are there:

- `InitMayFail = FALSE`: a new socket is given a descriptor, and `epoll_ctl`
  accepts it. `Attach` ignores that `Add` failed; without the hypothesis the property is
  false, as section 6 says.
- `FreshOnly = TRUE`: of two objects that are linked one was just made and has
  no links yet. All callers of `LinkWith` do so (`Server.cpp:39`,
  `Socket.cpp:52`, `IncomingMessage.cpp:28`, `ServerResponse.cpp:26`).
  `OwnersKeepAlive` needs no such hypothesis.

*The loop.* None of the properties is inductive by itself. `NoDanglingHandles`
depends on which records are in the heap, listed for removal and polled, so it
needs `TimerQueueExact`, `PendingOnce` and `EpollOwnership`; these in turn need
each other and `OneRecordPerEvent` (`RecordInv`). `EpollOwnership` is kept by
`SetFD` only because no two events have one descriptor (`DescriptorsOwned`).
`ErasePending` frees records safely only because no report and no current
record is left at that point, which is `ControlInv`: what the thread may hold
at each `pc`. So `IInv == TypeInv /\ RecordInv /\ ControlInv`. `TypeInv`
carries `TicksInPlace`, since `Tail(qNextTick)` has a type only if the queue is
not empty when a callback returns.

The proof has one lemma for each API call and each step of the loop that
touches a record (`AttachKeeps`, `RemoveEventKeeps`, `SetTimerKeeps`,
`NotifyKeeps` and so on), which rest on lemmas about the helpers
(`UpdatedInfoFields`, `UpdatedInterestOwners`, ...); steps that change no
record go through `SameRecords`.

`TimersNotLate` needs `TimeInv`: between the end of the timer phase and the
wait (`BeforeWait`) no set timer is due in the past, because callbacks of that
interval set timers to now and later; the time waited, and the signals, count
only from the wait; and no timer has more than its interval left, so that a
wait that starts over costs it at most its interval (`RestartsCost`). `InterestStaleOnlyAtRegisteredMask` is kept record by record (`Polled`).

*The contract.* `EventLoopImplements` uses `IInv`: `RecordOf` and `OwnerOf` say
that `handle` and `info[h].ev` are inverse on live records, so that a change of
one record is a change of one event for the contract, and `TicksInPlace` says
whose callback runs. Each call and step is then a step of the contract or
changes nothing that it sees (`NothingSeen`).

*The socket.* `IInv` joins what each function on the stack returns into
(`StackInv`: user code is innermost, `_emitData` returns into `_push`), the
bytes on their way (`ReadInv`, `WriteInv`), who posts `close` (`CloseInv`),
what the mask is worth (`MaskInv`: `epoll` may be stale, but never when `WRITE`
is wanted), and that unsent bytes have a callback, a function or the mask to
see to them, as long as the process lives (`UnsentInv`). `GoneInv` says what may be left of a socket whose
`IOEvent` is freed.

*The server.* `DescriptorInv` and `CallbacksInTime` need to know that a posted
close finds its event (`CloseHasEvent`), that an attached event was announced
or will be before the loop polls (`Announced`), what the running function was
called for (`CallInv`) and what keeps the event alive (`EventInv`).

*Lifetimes.* `Lifetimes` is a statement about a greatest set of survivors. It
is kept because circles cannot arise: `OwnersFirst` says so without paths
(every set of living objects has one that none of the set owns), which makes it
inductive.

*The parser.* The assumptions are on the constants only: any inputs of any bytes,
split in any way, any header limit, and a `LengthMax` of at least 16 (the tests
for overflow compute `LengthMax - 16`). `ParserInv`, `WellFormed` and
`HeldBounded` are not inductive: whether an event may come next, or an assert
holds, depends on the state of the parser. `IInv` says what each region of states
(`Idle`, `InLine`, `InFields`, `InBody`) knows:

- `StageInv`: which event was the last, and that `trailing` of the class and
  `F_TRAILING` of the parser, two flags for one thing, agree while there are
  header lines to read. It gives `Framed`.
- `NamesInv`: names and values alternate. `hdrVal` and the parity of what is
  collected (`Turn`) belong together; before a value the name is there and is not
  empty, and after a line the value is (that is why an empty value must have its
  callback). `NameBegun`: a name that has been begun is not empty, so that the
  flush at the end of a buffer hands over no empty name. They give `HeadersPaired`.
- `LengthInv`: while a body or a chunk is read, 1 to `ULLONG_MAX - 1` of its bytes
  are missing; a chunk size stays below `ULLONG_MAX`, because the overflow test
  leaves room for the next digit (`LengthFits`). With `nread = 0` at the start of
  a chunk size it gives the asserts on lengths.
- `MarkInv`: in each state the one mark that may be set, hence never two.
- `HeldInv`: what is held, with the piece that is still in the buffer, is at most
  the bytes counted. A byte is counted before its state sees it and kept after,
  so in between one byte of room is left (`Live(x, 1)`).
- `WordInv`: a listed value that is whole is one of the words the header lists, so
  that the flag it sets when its line ends is never that of trailers.

Each handler has a lemma (`ChunkDataStep`, `HeaderValueLwsStep`, ...): it takes a
parser that is live to one that has failed or is live again (`After`). `StepGoes`
joins them by state, `ByteGoes` adds the count and the byte that is kept, and
`BegunGoes`, `FlushGoes` and `Reported` are the two ends of a call.

*A connection.* An operator of `HttpExchange` maps the library to the library,
so its proof is about operators: `Quiet`, `Leaves`, `Queues`, `SetsHeaders`,
`PassesOn` say what a call leaves alone and what it does to one response, a
lemma for each operator puts it in one of these classes, and `Steps` joins
them: every step either moves nothing a response holds (`Moves`), opens a
response, changes the headers or the queue of one, passes one on to the socket,
or ends the drain phase. An invariant about responses is then shown for these
six. `ResponseInOrder` is kept by `OutInv`: what a response has passed on are
its first writes, its buffer continues them, and before its head nothing of it
is in the socket. `SocketOutlivesStreams` is kept by `AliveInv`: the record of
the socket goes only when nothing is posted, and after that only the calls of
user code post or run anything that would look for it.

*A request.* What a request hears is decided by three things at once: where the
parser is in the input, what the buffers of the two streams hold, and which
functions are on the stack between them. `HttpExchangeFlow` adds them to `Base`
as `All`:

- `Ordered`: the stack as a nesting of calls. Each kind of frame has a rank
  (user code innermost, then the `_emitData` of the request, `_push`, `Feed`, the
  `_emitData` of the socket, `_doRead`), and every frame ranks lower than those
  below it. So no function is entered twice, with one exception that the code
  has: a posted `_read` of the socket calls `_emitData` after its `_doRead`, and
  that frame waits at the bottom.
- `FlowInv`: a request that flows and holds data back has its `_emitData` on the
  stack or its `_read` posted, and one whose socket is paused has its `_read`
  posted. It gives `FlowsTogether` when nothing is posted and the stack is empty.
- `ParseInv`, for a position `p` of the parser: the units between `p` and what
  was read are those of the `Feed` that runs or, if none runs, the socket's
  buffer (`ParserAt`); what was heard and what is kept (`Given`) are pieces of
  the body up to `p`, in order and without a gap, and all of them as long as the
  request is not destroyed. `_emitData` hands the buffer to its listeners before
  it clears it: between the two the buffer counts as heard, which is why `Given`
  looks at the stack. Responses are no more than heads up to `p`.
- `EndInv`, `HeardInv`: `end` is told to a request that has ended and emitted all.

Most steps change none of what these conjuncts look at (`Inert`: frames that are
not `Visible`, streams as they were) and one lemma covers them (`InertKeeps`);
each other step has its own lemma (`EmitRequestKeeps`, `ReadDataKeeps`,
`TakenKeeps`, `BadKeeps`, ...), and `AllNext` joins them.

Three proof attempts changed the models. `TimersNotLate` once said of every timer
that no wait had gone past its deadline. That held in the run because its
intervals were longer than a wait could be late, and is false for short ones: a
timer set after a wait counts from an `m_tNow` that was read before it. The
property excepts these timers, and the run has an interval of 0. In `HttpParser`
and `HttpExchange` some `CASE` expressions had guards that overlap, which leaves
the choice open; they are now alternatives in the order of the code.
`HeldBounded` counted the header being read (`curHdr`) to the head even in
trailers, which is false for a head at its limit that is followed by trailers: no
input of the run was long enough to show it. It is now counted where it will be
put. And a call of `Feed` was one action, a fold over its bytes, about which
nothing can be proved here: it is now a step per byte, and the run asks for
`ParserInv`, `WellFormed` and `HeldBounded` between any two bytes.

Only model-checked:

- liveness, and everything under fairness: out of the prover's reach;
- `HttpParser`: `SplitIndependent`, `HeardAsSent`, `CompleteInTime` and
  `BodyAsAnnounced`. They compare what was heard with a fold over all the bytes
  of a connection, and that is induction over data, which the installed provers
  cannot do.

## 6. Findings

Each is a run in which TLC finds what the repository says to be violated.

| Run | Says | Does |
|---|---|---|
| `socket_resume` | `_read` makes the implementation start producing data (`modules/stream/Readable.h:40`) | after a pause and a resume `_updateIOFD` takes the mask for the registered one and does not tell `epoll`: the socket is not readable again |
| `server_twice` | `on_read` asserts that its event has a descriptor (`modules/net/Server.cpp:55`) | a listener of `connection` that calls `Close` for two connections in one pass closes the descriptor at once the second time, and the loop calls `accept4(-1)` |
| `http_lost` | `_onDrained` says that all data is processed (`modules/stream/Writable.h:53`); all pending data is written before the connection is closed (`modules/net/Socket.cpp:179`) | a client that closes its side right after its request gets no response, and the response emits `finish` all the same |

Further disagreements are stated as properties of the modules but have no run
of their own; TLC shows each when the property is checked with the constants of
the last column in the place of a run's.

| Property | Says | Does | With |
|---|---|---|---|
| `EventLoop!ClosedOnlyDetached` | `IOEvent::_close` asserts that the event is detached (`core/IOEvent.cpp:102`) | `Close` of an attached event is deferred; `Attach` before the queue is drained makes the assertion fail | `MCEventLoop_io.cfg` |
| `Socket!StopsWhenRefused` | after `_push` returned false data should stop until `_read` (`Readable.h:46`) | `_doRead` goes on reading | `MCSocket_resume.cfg` |
| `Socket!NothingDiscarded` | data for a paused reader is buffered (`Readable.h:49`) | at the end of input a socket that is not half-open destroys itself with the buffer | `MCSocket_resume.cfg` |
| `Socket!SocketEventAlive` | `_doRead` asserts that there is an `IOEvent` (`modules/net/Socket.cpp:145`) | `Attach` ignores that `Add` failed, and the posted `_read` finds none | `MCSocket.cfg` (`InitMayFail = TRUE`) |
| `Socket!ProcessSurvives` | a failed `write(2)` is to be told to the listeners of `error` (`modules/net/Socket.cpp:131`) | after a reset whose error was taken, or that came after a FIN, `write(2)` (`Socket.cpp:127`) raises `SIGPIPE`, and nothing ignores it: the process ends | `MCSocket_live.cfg` |
| `Linkable!NotCircular` | "Circular linking dependency detected" (`core/Linkable.cpp:23`) | the test looks the wrong way: `a->LinkWith(b)`, `b->LinkWith(a)` is accepted | `FreshOnly = FALSE` |
| `HttpExchange!KeepingIsSafe` | "It is also safe to save std::shared_ptr of response object here" (`main.cpp:132`), read as a promise for whatever is then called | a response, or a request, that is called when its connection is gone aborts in `_write`, `_destroy` or `_read` | `MCHttpExchange.cfg` |

`ResumedIsPolled` and `InterestStaleOnlyAtRegisteredMask` are about one line,
`core/EventLoop.cpp:265`, and one hazard: the second says exactly when the
interest list is stale, and holds; the first is what a socket makes of it.

## 7. Not modelled

- `Timeout`: its calls (`Attach`, `SetTimer`, `Detach`) are `ApiCall` of
  `EventLoop`; the object around them is not modelled.
- `EventEmitter`'s listener vectors: an emission is one callback, and a
  listener that is added while its event is emitted is left out.
- Responses, URLs and pausing in `http_parser.c`: nothing here calls them.
- `Error`, `Log`, `Utils`, `StatusCodes`, `process::NextTick`,
  `EventLoopFactory`, the demonstration: no state of their own, or one pointer
  that is set once.
- In the loop, modelled but without a property: a periodic timer of 0 ms, with
  which the timer loop never ends (`EventLoop.cpp:158`), and timers that fire
  early because `m_tNow` is read once per phase. `SetTimer` of an event whose
  `Attach` failed, which aborts (`Event.cpp:50`), is a call that no program here
  makes.
- Signals other than as an interruption of `epoll_wait`, or as the end of the
  process by `SIGPIPE`.
- In the parser: an upgrade that comes with a body (`http_parser.c:1843`), whose
  error depends on the split; header bytes that are counted into the next
  pipelined request; a tab as white space in the list of a `Connection` value.
- In a connection of HTTP: a client that resets it (`Socket` has resets), and a
  pause of the socket by user code.
- In a response: a second drain that meets a finished stream and reports
  "Stream is finished" (`ServerResponse.cpp:33`), and `writeHead` after the head
  was sent, which has no effect (`ServerResponse.cpp:65`): both are in the
  model, no property is about them.

## 8. Plan

1. `Timer`: `Timeout` with `Refresh` and `Cancel` in its own callback;
   `EventEmitter`: listeners that are added during an emission.
