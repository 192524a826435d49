------------------------------ MODULE NetServer ------------------------------
(***************************************************************************)
(* net::Server with the IOEvent of its listening socket, the backlog of    *)
(* the kernel and a program that calls Listen and Close in any callback,   *)
(* uses the raw pointer its callbacks captured, and may give up its own    *)
(* reference at any time.                                                  *)
(*                                                                         *)
(* The event loop is what module EventLoop shows it to be.  Its turn is:   *)
(* timers, a drain, Poll, the dispatch of the report, another drain; a     *)
(* drain runs the NextTick callbacks until none is left and frees the      *)
(* records of detached events.  A report belongs to a record, so detaching *)
(* takes it back.  No function of the server that the program calls calls  *)
(* back, so the call stack is at most one function of the server and the   *)
(* program on top of it.                                                   *)
(***************************************************************************)
EXTENDS Naturals, Sequences, FiniteSets

CONSTANTS
  FDs,          \* descriptors the process may open
  NoFD,         \* -1
  AttachMayFail,\* whether epoll_ctl may refuse the descriptor
  MaxListens,   \* most calls of Listen (bound)
  MaxCloses,    \* most calls of Close (bound)
  MaxClients,   \* most clients that connect (bound)
  MaxFailures   \* most calls of accept4 and reports of epoll that fail (bound)

ASSUME NetServerAssumption ==
  /\ NoFD \notin FDs
  /\ AttachMayFail \in BOOLEAN
  /\ {MaxListens, MaxCloses, MaxClients, MaxFailures} \subseteq Nat

VARIABLES
  held,      \* the program has its std::shared_ptr to the server
  event,     \* the IOEvent behind m_wpListenerEvent
  removed,   \* the loop still has the record of the event after a Detach
  open,      \* the descriptors of listening sockets that are open
  backlog,   \* connections that wait to be accepted
  ticks,     \* the NextTick callbacks of the server and of its event
  phase,     \* the phase of the loop's turn
  report,    \* what the last Poll reports of the event and is not dispatched
  running,   \* the function on the stack: of the server, or other user code
  user,      \* user code is on top of it
  aborted,   \* an assertion has failed
  budget,    \* calls and failures still to come
  heard,     \* history: "listening", and not "close" after it, was emitted
  spurious   \* history: accept4 was called without a descriptor

kernelVars == <<open, backlog>>
loopVars == <<ticks, phase, report>>
callVars == <<running, user>>
vars == <<held, event, removed, open, backlog, ticks, phase, report, running,
          user, aborted, budget, heard, spurious>>

Functions == {"none",     \* the loop itself
              "other",    \* user code called by something else
              "accept",   \* the accept loop of on_read
              "break",    \* the same after its last emission
              "failed",   \* on_error of the event
              "closing",  \* the callback posted by IOEvent::Close
              "tick"}     \* an emission posted by the server

Posts == {"listening", "error", "close"}

Budgets == [listens : 0 .. MaxListens, closes : 0 .. MaxCloses,
            clients : 0 .. MaxClients, failures : 0 .. MaxFailures]

TypeOK ==
  /\ {held, removed, user, aborted, heard, spurious} \subseteq BOOLEAN
  /\ event \in [alive : BOOLEAN, linked : BOOLEAN, attached : BOOLEAN,
                fd : FDs \cup {NoFD}]
  /\ open \subseteq FDs
  /\ backlog \in 0 .. MaxClients
  /\ ticks \in Seq(Posts)
  /\ phase \in {"timers", "drain", "dispatch", "drainAgain"}
  /\ report \in {"none", "READ", "ERROR"}
  /\ running \in Functions
  /\ budget \in Budgets

-----------------------------------------------------------------------------
(* Lifetimes. *)

Dead == [alive |-> FALSE, linked |-> FALSE, attached |-> FALSE, fd |-> NoFD]
\* Faulty variant: the event does not own the server (no LinkWith).
CreatedUnlinked == [Dead EXCEPT !.alive = TRUE]

Created == [Dead EXCEPT !.alive = TRUE, !.linked = TRUE]

\* Who owns the server: the program, its event, or an emission to come.
Alive == held \/ event.linked \/ \E i \in DOMAIN ticks : ticks[i] # "close"

\* Whether the program has a pointer it may use.
Usable == IF running = "other" THEN held ELSE running # "none"

\* Faulty variant: ~IOEvent does not close.
DestroyedOpen == event' = Dead /\ UNCHANGED <<open, backlog>>

\* ~IOEvent closes its descriptor, and the kernel drops who waits there.
Destroyed ==
  /\ event' = Dead
  /\ open' = open \ {event.fd}
  /\ backlog' = IF event.fd \in open THEN 0 ELSE backlog

Init ==
  /\ held = TRUE
  /\ event = Dead
  /\ removed = FALSE
  /\ open = {} /\ backlog = 0
  /\ ticks = <<>> /\ phase = "timers" /\ report = "none"
  /\ running = "other" /\ user = TRUE
  /\ aborted = FALSE
  /\ budget = [listens |-> MaxListens, closes |-> MaxCloses,
               clients |-> MaxClients, failures |-> MaxFailures]
  /\ heard = FALSE /\ spurious = FALSE

-----------------------------------------------------------------------------
(* Listen. *)

MayListen == user /\ Usable /\ budget.listens > 0
UseListen == budget' = [budget EXCEPT !.listens = @ - 1]

AlreadyListening ==
  /\ MayListen /\ UseListen
  /\ event.fd # NoFD
  /\ ticks' = Append(ticks, "error")
  /\ UNCHANGED <<held, event, removed, kernelVars, phase, report, callVars,
                 aborted, heard, spurious>>

\* getaddrinfo, socket, bind or listen fails: the socket, if there is one, is
\* closed, and so is an event that was created for it.
ListenFails ==
  /\ MayListen /\ UseListen
  /\ event.fd = NoFD
  /\ ticks' = Append(ticks, "error")
  /\ UNCHANGED <<held, event, removed, kernelVars, phase, report, callVars,
                 aborted, heard, spurious>>

\* The event that is still alive is used again.
Listens(fd) ==
  /\ MayListen /\ UseListen
  /\ event.fd = NoFD
  /\ open' = open \cup {fd}
  /\ event' = [IF event.alive THEN event ELSE Created
                 EXCEPT !.fd = fd, !.attached = TRUE]
  /\ ticks' = Append(ticks, "listening")
  /\ UNCHANGED <<held, removed, backlog, phase, report, callVars, aborted,
                 heard, spurious>>

\* Attach fails and nobody looks: the event lives on only if the loop still
\* has its old record, and "listening" is emitted all the same.
ListensUnattached(fd) ==
  /\ AttachMayFail
  /\ MayListen /\ UseListen
  /\ event.fd = NoFD
  /\ IF removed
     THEN /\ open' = open \cup {fd}
          /\ event' = [event EXCEPT !.fd = fd]
     ELSE UNCHANGED <<open, event>>
  /\ ticks' = Append(ticks, "listening")
  /\ UNCHANGED <<held, removed, backlog, phase, report, callVars, aborted,
                 heard, spurious>>

-----------------------------------------------------------------------------
(* Close. *)

MayClose == user /\ Usable /\ budget.closes > 0
UseClose == budget' = [budget EXCEPT !.closes = @ - 1]

\* IOEvent::Close of an attached event: _close is posted, Detach is done now.
PostClose ==
  /\ ticks' = Append(ticks, "close")
  /\ event' = [event EXCEPT !.attached = FALSE]
  /\ removed' = TRUE
  /\ report' = "none"

\* Faulty variant: the descriptor is forgotten and not closed.
CloseFDForgets ==
  /\ event' = [event EXCEPT !.fd = NoFD]
  /\ UNCHANGED <<open, backlog, aborted>>

\* IOEvent::_close.
CloseFD ==
  IF event.fd # NoFD /\ event.attached
  THEN /\ aborted' = TRUE
       /\ UNCHANGED <<event, open, backlog>>
  ELSE /\ event' = [event EXCEPT !.fd = NoFD]
       /\ open' = open \ {event.fd}
       /\ backlog' = IF event.fd \in open THEN 0 ELSE backlog
       /\ UNCHANGED aborted

CloseAttached ==
  /\ MayClose /\ UseClose
  /\ event.attached
  /\ PostClose
  /\ UNCHANGED <<held, kernelVars, phase, callVars, aborted, heard, spurious>>

\* A second Close does at once what the first one has posted.
CloseDetached ==
  /\ MayClose /\ UseClose
  /\ event.alive /\ ~event.attached
  /\ CloseFD
  /\ UNCHANGED <<held, removed, loopVars, callVars, heard, spurious>>

\* The program gives up its reference.
Release ==
  /\ user /\ held
  /\ held' = FALSE
  /\ UNCHANGED <<event, removed, kernelVars, loopVars, callVars, aborted,
                 budget, heard, spurious>>

ListenCall ==
  \/ AlreadyListening
  \/ ListenFails
  \/ \E fd \in FDs \ open : Listens(fd) \/ ListensUnattached(fd)

UserStep == ListenCall \/ CloseAttached \/ CloseDetached \/ Release

-----------------------------------------------------------------------------
(* The accept loop.  It keeps the event, and uses its descriptor each time. *)

Accept ==
  /\ running = "accept" /\ ~user
  /\ event.fd # NoFD /\ backlog > 0
  /\ backlog' = backlog - 1
  /\ user' = TRUE
  /\ UNCHANGED <<held, event, removed, open, loopVars, running, aborted,
                 budget, heard, spurious>>

\* EWOULDBLOCK.
AcceptDone ==
  /\ running = "accept" /\ ~user
  /\ event.fd # NoFD /\ backlog = 0
  /\ running' = "none"
  /\ UNCHANGED <<held, event, removed, kernelVars, loopVars, user, aborted,
                 budget, heard, spurious>>

\* No descriptor is left (EMFILE): a connection stays in the backlog.
AcceptFails ==
  /\ running = "accept" /\ ~user
  /\ event.fd # NoFD /\ budget.failures > 0
  /\ budget' = [budget EXCEPT !.failures = @ - 1]
  /\ running' = "break" /\ user' = TRUE
  /\ UNCHANGED <<held, event, removed, kernelVars, loopVars, aborted, heard,
                 spurious>>

\* A listener has closed the descriptor: accept4 on -1 is EBADF.
AcceptClosed ==
  /\ running = "accept" /\ ~user
  /\ event.fd = NoFD
  /\ running' = "break" /\ user' = TRUE
  /\ spurious' = TRUE
  /\ UNCHANGED <<held, event, removed, kernelVars, loopVars, aborted, budget,
                 heard>>

-----------------------------------------------------------------------------
(* User code returns. *)

Return ==
  /\ user
  /\ user' = FALSE
  /\ running' = IF running \in {"accept", "failed", "closing"} THEN running
                                                               ELSE "none"
  /\ ticks' = IF running = "tick" THEN Tail(ticks) ELSE ticks
  /\ UNCHANGED <<held, event, removed, kernelVars, phase, report, aborted,
                 budget, heard, spurious>>

\* on_error of the event goes on with Close.
CloseAfterError ==
  /\ running = "failed" /\ ~user
  /\ running' = "none"
  /\ IF event.attached
     THEN PostClose /\ UNCHANGED <<kernelVars, aborted>>
     ELSE CloseFD /\ UNCHANGED <<removed, ticks, report>>
  /\ UNCHANGED <<held, phase, user, budget, heard, spurious>>

\* The callback posted by Close goes on with _close.
FinishClose ==
  /\ running = "closing" /\ ~user
  /\ running' = "none"
  /\ CloseFD
  /\ ticks' = Tail(ticks)
  /\ UNCHANGED <<held, removed, phase, report, user, budget, heard,
                 spurious>>

-----------------------------------------------------------------------------
(* The event loop. *)

Idle == running = "none" /\ ~user
Draining == Idle /\ phase \in {"drain", "drainAgain"}

\* A timer or another event calls the program.
OtherCallback ==
  /\ Idle /\ phase \in {"timers", "dispatch"} /\ held
  /\ running' = "other" /\ user' = TRUE
  /\ UNCHANGED <<held, event, removed, kernelVars, loopVars, aborted, budget,
                 heard, spurious>>

DispatchRead ==
  /\ Idle /\ phase = "dispatch" /\ report = "READ"
  /\ report' = "none"
  /\ running' = "accept"
  /\ UNCHANGED <<held, event, removed, kernelVars, ticks, phase, user, aborted,
                 budget, heard, spurious>>

\* on_error emits the error first.
DispatchError ==
  /\ Idle /\ phase = "dispatch" /\ report = "ERROR"
  /\ report' = "none"
  /\ running' = "failed" /\ user' = TRUE
  /\ UNCHANGED <<held, event, removed, kernelVars, ticks, phase, aborted,
                 budget, heard, spurious>>

CallbacksDone ==
  /\ Idle /\ phase \in {"timers", "dispatch"} /\ report = "none"
  /\ phase' = IF phase = "timers" THEN "drain" ELSE "drainAgain"
  /\ UNCHANGED <<held, event, removed, kernelVars, ticks, report, callVars,
                 aborted, budget, heard, spurious>>

\* An emission posted by the server.
RunEmission ==
  /\ Draining /\ ticks # <<>> /\ Head(ticks) # "close"
  /\ running' = "tick" /\ user' = TRUE
  /\ heard' = (heard \/ Head(ticks) = "listening")
  /\ UNCHANGED <<held, event, removed, kernelVars, loopVars, aborted, budget,
                 spurious>>

\* The callback posted by Close: "close" is emitted if there is a descriptor.
RunClose ==
  /\ Draining /\ ticks # <<>> /\ Head(ticks) = "close"
  /\ running' = "closing"
  /\ user' = (event.fd # NoFD)
  /\ heard' = (heard /\ event.fd = NoFD)
  /\ UNCHANGED <<held, event, removed, kernelVars, loopVars, aborted, budget,
                 spurious>>

\* Faulty variant: the descriptor is not polled for READ.
ReportableUnasked == {"none"}

\* What Poll may report of the event.
Reportable ==
  IF ~event.attached THEN {"none"}
  ELSE (IF backlog > 0 THEN {"READ"} ELSE {"none"})
       \cup (IF budget.failures > 0 THEN {"ERROR"} ELSE {})

\* The records of detached events are freed; after the timers the loop polls.
DrainDone ==
  /\ Draining /\ ticks = <<>>
  /\ phase' = IF phase = "drain" THEN "dispatch" ELSE "timers"
  /\ removed' = FALSE
  /\ IF event.attached THEN UNCHANGED <<event, kernelVars>> ELSE Destroyed
  /\ report' \in IF phase = "drain" THEN Reportable ELSE {"none"}
  /\ budget' = IF report' = "ERROR" THEN [budget EXCEPT !.failures = @ - 1]
                                    ELSE budget
  /\ UNCHANGED <<held, ticks, callVars, aborted, heard, spurious>>

\* A client connects while the loop waits.
Connect ==
  /\ open # {} /\ budget.clients > 0
  /\ backlog' = backlog + 1
  /\ budget' = [budget EXCEPT !.clients = @ - 1]
  /\ UNCHANGED <<held, event, removed, open, loopVars, callVars, aborted,
                 heard, spurious>>

LoopStep ==
  \/ Accept \/ AcceptDone \/ AcceptFails \/ AcceptClosed
  \/ CloseAfterError \/ FinishClose
  \/ DispatchRead \/ DispatchError \/ CallbacksDone
  \/ RunEmission \/ RunClose \/ DrainDone

Next ==
  /\ ~aborted
  /\ \/ UserStep \/ Return
     \/ LoopStep
     \/ OtherCallback
     \/ Connect

Spec == Init /\ [][Next]_vars

\* The thread runs: user code returns, and of the other callbacks a phase may
\* make there are finitely many, so that the loop's own steps come in turn.
FairSpec ==
  /\ Spec
  /\ WF_vars(~aborted /\ Return)
  /\ SF_vars(~aborted /\ LoopStep)

-----------------------------------------------------------------------------
(* Properties. *)

\* Every descriptor that Listen opened is closed or in the event, however
\* Listen, Close, failures and lifetimes interleave.
NoDescriptorLeak == open = {event.fd} \ {NoFD}

\* The server and its event live while one of their functions runs, although
\* the program may have released the server inside it.
ServerOutlivesCallbacks ==
  /\ running \notin {"none", "other"} => Alive
  /\ running \in {"accept", "failed", "closing"} => event.alive

\* An event the loop polls has its descriptor: what on_read asserts
\* (Server.cpp:55) and what Poll and Unregister rely on.
AttachedIsOpen == event.attached => event.fd \in open

\* The descriptors of the server, over states of the right type.
DescriptorInv == TypeOK /\ NoDescriptorLeak /\ AttachedIsOpen

\* "connection" comes after "listening" and never after "close".
ConnectionsWhileListening == running = "accept" => heard

\* The server emits while it lives, and connections while it listens.
CallbacksInTime == ServerOutlivesCallbacks /\ ConnectionsWhileListening

\* A waiting connection is accepted unless the server stops listening.
ConnectionsServed ==
  backlog > 0 /\ event.attached ~> backlog = 0 \/ ~event.attached \/ aborted

\* What Close (or an Attach that failed) has taken from the loop is closed.
DetachedIsClosed ==
  open # {} /\ ~event.attached ~> open = {} \/ event.attached \/ aborted

\* The accept loop works on a descriptor, as its assertion says once
\* (Server.cpp:55), so that the errors it emits are failures of the system.
AcceptsOnOpenDescriptor == ~spurious
=============================================================================
