----------------------------- MODULE EventLoop -----------------------------
(***************************************************************************)
(* The single-threaded event loop of src/core: EventLoop, EventLoopBase,   *)
(* Event, IOEvent and IOMux_epoll.                                         *)
(*                                                                         *)
(* The loop's own code runs in the steps of LoopStep.  A callback hands    *)
(* the thread to user code (pc \in UserCode), which makes any number of    *)
(* API calls (ApiCall) before it returns.  An API call never calls back,   *)
(* so each is one step.  EMIT_EVENT runs several listeners in a row and    *)
(* CATCH_ALL swallows what they throw: one callback here stands for all    *)
(* the listeners of one emission, however they end.                        *)
(*                                                                         *)
(* Memory is explicit: a handle is the address of an _eventInfo record,    *)
(* taken from a pool and used again once the record is freed.              *)
(***************************************************************************)
EXTENDS Integers, Sequences, FiniteSets

CONSTANTS
  Events,       \* the Event and IOEvent objects of the program
  Handles,      \* the addresses available to _eventInfo records (bound)
  FDs,          \* the file descriptor numbers of the process (bound)
  NoEvent,      \* null spEvent: the record is not allocated
  NoHandle,     \* null m_handle
  NoFD,         \* -1
  UserTick,     \* a NextTick callback of the program
  Timeouts,     \* the intervals SetTimer is called with, in ms
  Masks,        \* the I/O event masks the program asks for
  IntMax,       \* INT_MAX, the longest time Poll can be asked to wait
  MaxElapsed,   \* most ms of running between two readings of the clock, and
                \* of an unlimited wait (bounds)
  MaxRestarts,  \* most signals that interrupt one wait (bound)
  MaxTicks,     \* most callbacks waiting in m_qNextTick (bound)
  MaxEvents,    \* IOMux_epoll's maxEvents, the size of m_vecReadyEvents
  EpollMayFail  \* whether epoll_ctl may fail for lack of resources

ASSUME EventAssumption == NoEvent \notin Events /\ UserTick \notin Events
ASSUME HandleAssumption == NoHandle \notin Handles
ASSUME FDAssumption == NoFD \notin FDs
ASSUME TimeAssumption ==
  /\ Timeouts \subseteq Nat /\ IntMax \in Nat
  /\ MaxElapsed \in Nat /\ MaxRestarts \in Nat
ASSUME MaskAssumption == Masks \subseteq SUBSET {"READ", "WRITE"}
ASSUME BoundAssumption == MaxTicks \in Nat /\ MaxEvents \in Nat \ {0}
ASSUME EpollAssumption == EpollMayFail \in BOOLEAN

VARIABLES
  (* the Event objects *)
  handle,       \* m_handle; m_pEL is null exactly when it is NoHandle
  fd,           \* IOEvent::m_fd
  mask,         \* IOEvent::m_IOEventMask
  (* the EventLoop object *)
  info,         \* the _eventInfo records: m_lstEvents holds the allocated
  qTimers,      \* m_qTimers: how many times each handle is in the heap
  vecRMPending, \* m_vecRMPending
  qNextTick,    \* m_qNextTick
  (* the kernel *)
  epoll,        \* the interest list of m_fdEpoll
  (* the control state of Run and _tick *)
  pc,           \* where the thread is
  after,        \* where _processPendingRemovals returns to
  cur,          \* pEventInfo, the record whose callbacks are being run
  ready,        \* vecEvents: what is left to dispatch, per handle
  slept,        \* ms the last Poll waited
  restarts      \* how often a signal made that wait start over

eventVars == <<handle, fd, mask>>
memoryVars == <<info, qTimers, vecRMPending>>
controlVars == <<pc, after, cur, ready, slept, restarts>>
vars == <<handle, fd, mask, info, qTimers, vecRMPending, qNextTick, epoll,
          pc, after, cur, ready, slept, restarts>>

-----------------------------------------------------------------------------

\* What SetIOEventMask asks for, and what epoll reports whether asked or not.
Maskable == {"READ", "WRITE"}
AlwaysPolled == {"HUP", "ERROR"}
IOEvents == Maskable \cup AlwaysPolled

\* The order in which _tick looks at the bits of one report.
DispatchOrder == <<"ERROR", "HUP", "READ", "WRITE">>

Flags == {"TIMER_SET", "TIMER_PERIODIC", "DETACHED"}
TimerFlags == {"TIMER_SET", "TIMER_PERIODIC"}

\* tpNextTimeout is kept relative to m_tNow: due = tpNextTimeout - m_tNow.
\* interval is tpTimeout.
EventInfo == [ev : Events \cup {NoEvent}, flags : SUBSET Flags,
              due : Int, interval : Nat,
              fdRegistered : FDs \cup {NoFD},
              nIOEventMask : SUBSET Maskable]
FreeInfo == [ev |-> NoEvent, flags |-> {}, due |-> 0, interval |-> 0,
             fdRegistered |-> NoFD, nIOEventMask |-> {}]
NewInfo(e) == [FreeInfo EXCEPT !.ev = e]

Interest == [handle : Handles \cup {NoHandle}, mask : SUBSET Maskable]
NotPolled == [handle |-> NoHandle, mask |-> {}]

Ticks == Events \cup {UserTick}

UserCode == {"main", "onTimer", "onTick", "onClose", "onIO"}
LoopCode == {"tick", "timers", "drain", "erase", "poll", "dispatch",
             "done", "abort"}
NoReports == [h \in Handles |-> {}]

TypeOK ==
  /\ handle \in [Events -> Handles \cup {NoHandle}]
  /\ fd \in [Events -> FDs \cup {NoFD}]
  /\ mask \in [Events -> SUBSET Maskable]
  /\ info \in [Handles -> EventInfo]
  /\ qTimers \in [Handles -> Nat]
  /\ vecRMPending \in Seq(Handles)
  /\ qNextTick \in Seq(Ticks)
  /\ epoll \in [FDs -> Interest]
  /\ pc \in UserCode \cup LoopCode
  /\ after \in {"tick", "poll", "loop"}
  /\ cur \in Handles \cup {NoHandle}
  /\ ready \in [Handles -> SUBSET IOEvents]
  /\ slept \in Nat
  /\ restarts \in 0..MaxRestarts

Init ==
  /\ handle = [e \in Events |-> NoHandle]
  /\ fd = [e \in Events |-> NoFD]
  /\ mask = [e \in Events |-> {}]
  /\ info = [h \in Handles |-> FreeInfo]
  /\ qTimers = [h \in Handles |-> 0]
  /\ vecRMPending = <<>>
  /\ qNextTick = <<>>
  /\ epoll = [f \in FDs |-> NotPolled]
  /\ pc = "main"
  /\ after = "tick"
  /\ cur = NoHandle
  /\ ready = NoReports
  /\ slept = 0
  /\ restarts = 0

-----------------------------------------------------------------------------
(* EventLoop: helpers *)

Allocated(h) == info[h].ev # NoEvent
Live(h) == Allocated(h) /\ "DETACHED" \notin info[h].flags
Registered == {h \in Handles : Allocated(h)}

\* The members of the handle vector that is about to be erased.
Pending == {vecRMPending[i] : i \in DOMAIN vecRMPending}

\* m_qTimers.top(): a handle of the heap with the least tpNextTimeout.
Queued(h) == qTimers[h] > 0
IsTop(h) == Queued(h) /\ \A g \in Handles : Queued(g) => info[h].due <= info[g].due

\* Faulty variant: the handle stays in the heap.
RemovedNever(h) == qTimers

\* ELTimerQueue::Remove takes out one copy of the handle, if there is one.
Removed(h) == [qTimers EXCEPT ![h] = IF @ > 0 THEN @ - 1 ELSE 0]

\* A record without its timer: _clearTimerFlags. Nothing reads due and
\* interval once EVF_TIMER_SET is clear, so they are reset with it.
TimerCleared(r) ==
  [r EXCEPT !.flags = @ \ TimerFlags, !.due = 0, !.interval = 0]
TimerSet(r, timeout, periodic) ==
  [r EXCEPT !.flags = @ \cup {"TIMER_SET"}
                        \cup (IF periodic THEN {"TIMER_PERIODIC"} ELSE {}),
            !.due = timeout, !.interval = timeout]
DetachedInfo(r) ==
  [r EXCEPT !.flags = (@ \ TimerFlags) \cup {"DETACHED"}, !.due = 0, !.interval = 0]

\* _updateTimePoint with d ms gone by: every deadline in the heap is nearer.
Advanced(d) ==
  [h \in Handles |-> IF Queued(h) THEN [info[h] EXCEPT !.due = @ - d]
                                  ELSE info[h]]

(* IOMux_epoll: epoll_ctl, and what the kernel answers *)

\* ADD fails with EEXIST if the descriptor is on the list, MOD with ENOENT
\* if it is not; either may fail for lack of resources.
CtlResults(r, f) ==
  IF f = NoFD THEN {TRUE}
  ELSE IF (r.fdRegistered = f) # (epoll[f].handle # NoHandle) THEN {FALSE}
  ELSE {TRUE} \cup (IF EpollMayFail THEN {FALSE} ELSE {})

\* Faulty variant: the descriptor stays on the interest list.
UnregisteredNever(f) == epoll

\* EPOLL_CTL_DEL, and what close(2) does to the list: f is taken off it.
Unregistered(f) ==
  IF f = NoFD THEN epoll ELSE [epoll EXCEPT ![f] = NotPolled]

(* EventLoop::_updateIOFD for the record r at address h, when GetFD() is f *)
(* and GetIOEventMask() is m and the system call returns ok: the record    *)
(* and the interest list it leaves.  The mask handed to EPOLL_CTL_MOD is   *)
(* not written back to nIOEventMask.                                       *)
UpdatedInfo(r, f, m, ok) ==
  IF r.fdRegistered = f THEN r
  ELSE IF f = NoFD \/ ok
       THEN [r EXCEPT !.fdRegistered = f, !.nIOEventMask = m]
  ELSE IF r.fdRegistered # NoFD
       THEN [r EXCEPT !.fdRegistered = NoFD, !.nIOEventMask = {}]
  ELSE r

\* Faulty variant: EPOLL_CTL_MOD is never used.
UpdatedInterestAddOnly(h, r, f, m, ok) ==
  LET kept == IF r.fdRegistered = f THEN epoll ELSE Unregistered(r.fdRegistered)
  IN  IF f # NoFD /\ r.fdRegistered # f /\ ok
      THEN [kept EXCEPT ![f] = [handle |-> h, mask |-> m]] ELSE kept

UpdatedInterest(h, r, f, m, ok) ==
  LET kept == IF r.fdRegistered = f THEN epoll ELSE Unregistered(r.fdRegistered)
      asked == f # NoFD /\ (r.fdRegistered # f \/ r.nIOEventMask # m)
  IN  IF asked /\ ok THEN [kept EXCEPT ![f] = [handle |-> h, mask |-> m]]
                     ELSE kept

\* Event::_notifyIOStateChange of e, whose fd and mask are now f and m.
NotifyIOStateChange(e, f, m) ==
  IF handle[e] = NoHandle \/ ~Live(handle[e])
  THEN UNCHANGED <<info, epoll>>
  ELSE LET h == handle[e]
       IN  \E ok \in CtlResults(info[h], f) :
             /\ info' = [info EXCEPT ![h] = UpdatedInfo(@, f, m, ok)]
             /\ epoll' = UpdatedInterest(h, info[h], f, m, ok)

-----------------------------------------------------------------------------
(* The API, called from user code *)

\* Event::Attach, EventLoop::Add, Event::_onAttach. The event must not be
\* attached. If the registration fails, Add frees the record and Attach
\* ignores that it did: nothing has changed.
Attach(e) ==
  /\ handle[e] = NoHandle
  /\ TRUE \in CtlResults(NewInfo(e), fd[e])
  /\ \E h \in Handles :
       /\ ~Allocated(h)
       /\ info' = [info EXCEPT ![h] = UpdatedInfo(NewInfo(e), fd[e], mask[e], TRUE)]
       /\ epoll' = UpdatedInterest(h, NewInfo(e), fd[e], mask[e], TRUE)
       /\ handle' = [handle EXCEPT ![e] = h]
  /\ UNCHANGED <<fd, mask, qTimers, vecRMPending, qNextTick>>

\* Faulty variant: _onDetached is not called.
RemoveEventStaysAttached(e) ==
  LET h == handle[e]
  IN  /\ Live(h)
      /\ qTimers' = IF "TIMER_SET" \in info[h].flags THEN Removed(h) ELSE qTimers
      /\ info' = [info EXCEPT ![h] = DetachedInfo(@)]
      /\ vecRMPending' = Append(vecRMPending, h)
      /\ handle' = handle
      /\ epoll' = Unregistered(info[h].fdRegistered)

\* EventLoop::_removeEvent of an attached event, with _removeFromTimerQueue,
\* Event::_onDetached and IOMux_epoll::Unregister. The record stays
\* allocated until _processPendingRemovals.
RemoveEvent(e) ==
  LET h == handle[e]
  IN  /\ Live(h)
      /\ qTimers' = IF "TIMER_SET" \in info[h].flags THEN Removed(h) ELSE qTimers
      /\ info' = [info EXCEPT ![h] = DetachedInfo(@)]
      /\ vecRMPending' = Append(vecRMPending, h)
      /\ handle' = [handle EXCEPT ![e] = NoHandle]
      /\ epoll' = Unregistered(info[h].fdRegistered)

\* Event::Detach; on a detached event it does nothing.
Detach(e) ==
  /\ handle[e] # NoHandle
  /\ RemoveEvent(e)
  /\ UNCHANGED <<fd, mask, qNextTick>>

\* Event::SetTimer, EventLoop::_setTimer. The event must be attached; if its
\* timer is set already the call only logs an error.
SetTimer(e, timeout, periodic) ==
  LET h == handle[e]
  IN  /\ h # NoHandle
      /\ Live(h)
      /\ "TIMER_SET" \notin info[h].flags
      /\ info' = [info EXCEPT ![h] = TimerSet(@, timeout, periodic)]
      /\ qTimers' = [qTimers EXCEPT ![h] = @ + 1]
      /\ UNCHANGED <<eventVars, vecRMPending, qNextTick, epoll>>

\* Event::CancelTimer, EventLoop::_cancelTimer.
CancelTimer(e) ==
  LET h == handle[e]
  IN  /\ h # NoHandle
      /\ Live(h)
      /\ "TIMER_SET" \in info[h].flags
      /\ info' = [info EXCEPT ![h] = TimerCleared(@)]
      /\ qTimers' = Removed(h)
      /\ UNCHANGED <<eventVars, vecRMPending, qNextTick, epoll>>

\* IOEvent::SetFD with a descriptor the program has just opened.
SetFD(e, f, m) ==
  /\ fd[e] = NoFD
  /\ \A o \in Events : fd[o] # f
  /\ fd' = [fd EXCEPT ![e] = f]
  /\ mask' = [mask EXCEPT ![e] = m]
  /\ NotifyIOStateChange(e, f, m)
  /\ UNCHANGED <<handle, qTimers, vecRMPending, qNextTick>>

\* IOEvent::SetIOEventMask, and the two flag functions that call it.
SetIOEventMask(e, m) ==
  /\ m # mask[e]
  /\ mask' = [mask EXCEPT ![e] = m]
  /\ NotifyIOStateChange(e, fd[e], m)
  /\ UNCHANGED <<handle, fd, qTimers, vecRMPending, qNextTick>>

\* Faulty variant: m_fd keeps the closed descriptor.
CloseDescriptorKeepsFD(e) ==
  /\ fd' = fd
  /\ mask' = [mask EXCEPT ![e] = {}]
  /\ epoll' = Unregistered(fd[e])

\* IOEvent::_close past its assertion: close(2) also takes the descriptor
\* off every interest list.
CloseDescriptor(e) ==
  /\ fd' = [fd EXCEPT ![e] = NoFD]
  /\ mask' = [mask EXCEPT ![e] = {}]
  /\ epoll' = Unregistered(fd[e])

\* IOEvent::Close of an attached event: the descriptor is closed by a
\* NextTick callback, which holds a reference to the event.
CloseAttached(e) ==
  /\ handle[e] # NoHandle
  /\ Len(qNextTick) < MaxTicks
  /\ qNextTick' = Append(qNextTick, e)
  /\ RemoveEvent(e)
  /\ UNCHANGED <<fd, mask>>

\* IOEvent::Close of a detached event, and ~IOEvent.
CloseDetached(e) ==
  /\ handle[e] = NoHandle
  /\ fd[e] # NoFD \/ mask[e] # {}
  /\ CloseDescriptor(e)
  /\ UNCHANGED <<handle, memoryVars, qNextTick>>

\* Faulty variant: the callback jumps the queue.
NextTickFirst ==
  /\ Len(qNextTick) < MaxTicks
  /\ qNextTick' = <<UserTick>> \o qNextTick
  /\ UNCHANGED <<eventVars, memoryVars, epoll>>

\* EventLoopBase::NextTick with a callback of the program.
NextTick ==
  /\ Len(qNextTick) < MaxTicks
  /\ qNextTick' = Append(qNextTick, UserTick)
  /\ UNCHANGED <<eventVars, memoryVars, epoll>>

ApiCall ==
  /\ pc \in UserCode
  /\ UNCHANGED controlVars
  /\ \/ \E e \in Events :
          \/ Attach(e)
          \/ Detach(e)
          \/ \E t \in Timeouts, p \in BOOLEAN : SetTimer(e, t, p)
          \/ CancelTimer(e)
          \/ \E f \in FDs, m \in Masks : SetFD(e, f, m)
          \/ \E m \in Masks : SetIOEventMask(e, m)
          \/ CloseAttached(e)
          \/ CloseDetached(e)
     \/ NextTick

-----------------------------------------------------------------------------
(* The loop *)

\* Run: m_cbEvMain returns and the first removals are processed.
MainReturns ==
  /\ pc = "main"
  /\ pc' = "drain"
  /\ after' = "tick"
  /\ UNCHANGED <<eventVars, memoryVars, qNextTick, epoll, cur, ready, slept, restarts>>

\* _tick, phase 1: the clock is read. Since it was last read the loop has
\* waited slept ms in Poll and run for d ms.
TickBegins(d) ==
  /\ pc = "tick"
  /\ pc' = "timers"
  /\ info' = Advanced(slept + d)
  /\ slept' = 0
  /\ restarts' = 0
  /\ UNCHANGED <<eventVars, qTimers, vecRMPending, qNextTick, epoll, after, cur, ready>>

\* One turn of the timer loop: a due timer leaves the heap, goes back in if
\* it is periodic, and OnTimer is called.
RunTimer(h) ==
  /\ pc = "timers"
  /\ IsTop(h)
  /\ info[h].due <= 0
  /\ IF "TIMER_PERIODIC" \in info[h].flags
     THEN /\ info' = [info EXCEPT ![h].due = info[h].interval]
          /\ UNCHANGED qTimers
     ELSE /\ info' = [info EXCEPT ![h] = TimerCleared(@)]
          /\ qTimers' = Removed(h)
  /\ pc' = "onTimer"
  /\ cur' = h
  /\ UNCHANGED <<eventVars, vecRMPending, qNextTick, epoll, after, ready, slept, restarts>>

TimerReturns ==
  /\ pc = "onTimer"
  /\ pc' = "timers"
  /\ cur' = NoHandle
  /\ UNCHANGED <<eventVars, memoryVars, qNextTick, epoll, after, ready, slept, restarts>>

\* No timer is due: phase 1 ends with _processPendingRemovals.
TimersDone ==
  /\ pc = "timers"
  /\ \A h \in Handles : Queued(h) => info[h].due > 0
  /\ pc' = "drain"
  /\ after' = "poll"
  /\ UNCHANGED <<eventVars, memoryVars, qNextTick, epoll, cur, ready, slept, restarts>>

\* _drainNextTickQueue calls the front callback, which stays in the queue
\* until it returns. The callback of Close emits "close" if there is still
\* a descriptor to close.
RunTick ==
  /\ pc = "drain"
  /\ qNextTick # <<>>
  /\ \/ Head(qNextTick) = UserTick /\ pc' = "onTick"
     \/ Head(qNextTick) # UserTick /\ fd[Head(qNextTick)] # NoFD /\ pc' = "onClose"
  /\ UNCHANGED <<eventVars, memoryVars, qNextTick, epoll, after, cur, ready, slept, restarts>>

TickReturns ==
  /\ pc = "onTick"
  /\ qNextTick' = Tail(qNextTick)
  /\ pc' = "drain"
  /\ UNCHANGED <<eventVars, memoryVars, epoll, after, cur, ready, slept, restarts>>

\* The end of the callback of Close: _close, whose assertion fails if the
\* event has been attached again and still has a descriptor.
FinishClose(e) ==
  /\ IF fd[e] # NoFD /\ handle[e] # NoHandle
     THEN /\ pc' = "abort"
          /\ UNCHANGED <<fd, mask, epoll, qNextTick>>
     ELSE /\ CloseDescriptor(e)
          /\ qNextTick' = Tail(qNextTick)
          /\ pc' = "drain"
  /\ UNCHANGED <<handle, memoryVars, after, cur, ready, slept, restarts>>

CloseReturns ==
  /\ pc = "onClose"
  /\ FinishClose(Head(qNextTick))

CloseWithoutFD ==
  /\ pc = "drain"
  /\ qNextTick # <<>>
  /\ Head(qNextTick) \in Events
  /\ fd[Head(qNextTick)] = NoFD
  /\ FinishClose(Head(qNextTick))

\* Faulty variant: callbacks are left in the queue.
TicksDrainedEarly ==
  /\ pc = "drain"
  /\ pc' = "erase"
  /\ UNCHANGED <<eventVars, memoryVars, qNextTick, epoll, after, cur, ready, slept, restarts>>

TicksDrained ==
  /\ pc = "drain"
  /\ qNextTick = <<>>
  /\ pc' = "erase"
  /\ UNCHANGED <<eventVars, memoryVars, qNextTick, epoll, after, cur, ready, slept, restarts>>

\* Faulty variants: the result of _tick is lost; m_vecRMPending is not
\* cleared; only the first record is freed.
ErasePendingNoResult ==
  /\ pc = "erase"
  /\ info' = [h \in Handles |-> IF h \in Pending THEN FreeInfo ELSE info[h]]
  /\ vecRMPending' = <<>>
  /\ pc' = after
  /\ UNCHANGED <<eventVars, qTimers, qNextTick, epoll, after, cur, ready, slept, restarts>>
ErasePendingKeepsList ==
  /\ pc = "erase"
  /\ info' = [h \in Handles |-> IF h \in Pending THEN FreeInfo ELSE info[h]]
  /\ UNCHANGED vecRMPending
  /\ pc' = IF after # "loop" THEN after
           ELSE IF Registered \subseteq Pending THEN "done" ELSE "tick"
  /\ UNCHANGED <<eventVars, qTimers, qNextTick, epoll, after, cur, ready, slept, restarts>>
ErasePendingFirst ==
  /\ pc = "erase"
  /\ info' = [h \in Handles |-> IF h \in Pending /\ h = vecRMPending[1]
                                THEN FreeInfo ELSE info[h]]
  /\ vecRMPending' = <<>>
  /\ pc' = IF after # "loop" THEN after
           ELSE IF Registered \subseteq Pending THEN "done" ELSE "tick"
  /\ UNCHANGED <<eventVars, qTimers, qNextTick, epoll, after, cur, ready, slept, restarts>>

\* The rest of _processPendingRemovals: the records are freed. After phase 2
\* _tick returns !m_lstEvents.empty(), and Run goes on or ends.
ErasePending ==
  /\ pc = "erase"
  /\ info' = [h \in Handles |-> IF h \in Pending THEN FreeInfo ELSE info[h]]
  /\ vecRMPending' = <<>>
  /\ pc' = IF after # "loop" THEN after
           ELSE IF Registered \subseteq Pending THEN "done" ELSE "tick"
  /\ UNCHANGED <<eventVars, qTimers, qNextTick, epoll, after, cur, ready, slept, restarts>>

\* nTimeout when the records are r; -1 is "wait for ever". Any record with
\* the least deadline may be at the top of the heap.
Clamped(ms) == IF ms > IntMax THEN IntMax ELSE IF ms >= 0 THEN ms ELSE 0
\* Faulty variants: any timer of the heap counts, not the earliest; none does.
PollTimeoutsAnyTimer(r) ==
  IF \E h \in Handles : Queued(h)
  THEN {Clamped(r[h].due) : h \in {g \in Handles : Queued(g)}}
  ELSE {IF Registered = {} THEN 0 ELSE -1}
PollTimeoutsNoTimer(r) == {IF Registered = {} THEN 0 ELSE -1}
PollTimeouts(r) ==
  IF \E h \in Handles : Queued(h)
  THEN {Clamped(r[h].due) : h \in {g \in Handles : IsTop(g)}}
  ELSE {IF Registered = {} THEN 0 ELSE -1}

\* What epoll_wait may report of descriptor f: EPOLLIN and EPOLLOUT as far as
\* they were asked for, errors and hang-ups always.
Reportable(f) ==
  IF epoll[f].handle = NoHandle THEN {{}}
  ELSE SUBSET (epoll[f].mask \cup AlwaysPolled)

\* TEMP_FAILURE_RETRY calls epoll_wait again with the whole timeout when a
\* signal interrupts it: what the wait may take, restarts included. A call
\* that may not wait (timeout 0) is not interrupted, and how often one
\* without a timeout is makes no difference.
Restarts(timeout) == IF timeout > 0 THEN 0..MaxRestarts ELSE {0}
LongestWait(timeout, n) == IF timeout >= 0 THEN timeout + n * timeout ELSE MaxElapsed

\* Phase 2: read the clock, choose the timeout, wait. Poll returns what is
\* ready, at most MaxEvents reports, or nothing once the timeout is over.
Poll(d) ==
  /\ pc = "poll"
  /\ info' = Advanced(d)
  /\ \E rep \in [FDs -> SUBSET IOEvents], timeout \in PollTimeouts(Advanced(d)) :
       LET some == {f \in FDs : rep[f] # {}}
       IN  /\ \A f \in FDs : rep[f] \in Reportable(f)
           /\ Cardinality(some) <= MaxEvents
           /\ some = {} => timeout >= 0
           /\ restarts' \in Restarts(timeout)
           /\ slept' \in (IF some = {} THEN timeout ELSE 0)..LongestWait(timeout, restarts')
           /\ ready' = [h \in Handles |->
                          UNION {rep[f] : f \in {x \in FDs : epoll[x].handle = h}}]
  /\ pc' = "dispatch"
  /\ UNCHANGED <<eventVars, qTimers, vecRMPending, qNextTick, epoll, after, cur>>

\* epoll_wait fails other than by a signal: _tick returns false, Run returns.
PollFails ==
  /\ pc = "poll"
  /\ pc' = "done"
  /\ UNCHANGED <<eventVars, memoryVars, qNextTick, epoll, after, cur, ready, slept, restarts>>

\* The reports of one record are dispatched before those of the next.
InTurn(h) == cur = h \/ cur = NoHandle

\* Faulty variant: EVF_DETACHED is not looked at.
DispatchUnchecked(h, bit) ==
  /\ pc = "dispatch"
  /\ InTurn(h)
  /\ bit \in ready[h]
  /\ ready' = [ready EXCEPT ![h] = @ \ {bit}]
  /\ cur' = h
  /\ pc' = "onIO"
  /\ UNCHANGED <<eventVars, memoryVars, qNextTick, epoll, after, slept, restarts>>

\* One of the four tests of the dispatch loop, in their order. The record is
\* looked at again for each of them: a callback may have detached the event.
Dispatch(h, bit) ==
  /\ pc = "dispatch"
  /\ InTurn(h)
  /\ bit \in ready[h]
  /\ \A i, j \in DOMAIN DispatchOrder :
       DispatchOrder[i] = bit /\ DispatchOrder[j] \in ready[h] => i <= j
  /\ ready' = [ready EXCEPT ![h] = @ \ {bit}]
  /\ cur' = h
  /\ pc' = IF "DETACHED" \in info[h].flags THEN "dispatch" ELSE "onIO"
  /\ UNCHANGED <<eventVars, memoryVars, qNextTick, epoll, after, slept, restarts>>

IOReturns ==
  /\ pc = "onIO"
  /\ pc' = "dispatch"
  /\ UNCHANGED <<eventVars, memoryVars, qNextTick, epoll, after, cur, ready, slept, restarts>>

\* The record has no more reports: on to the next one.
ReportDone ==
  /\ pc = "dispatch"
  /\ cur # NoHandle
  /\ ready[cur] = {}
  /\ cur' = NoHandle
  /\ UNCHANGED <<eventVars, memoryVars, qNextTick, epoll, pc, after, ready, slept, restarts>>

DispatchDone ==
  /\ pc = "dispatch"
  /\ cur = NoHandle
  /\ \A h \in Handles : ready[h] = {}
  /\ pc' = "drain"
  /\ after' = "loop"
  /\ UNCHANGED <<eventVars, memoryVars, qNextTick, epoll, cur, ready, slept, restarts>>

CallbackReturns == MainReturns \/ TimerReturns \/ TickReturns \/ CloseReturns \/ IOReturns

LoopStep ==
  \/ \E d \in 0..MaxElapsed : TickBegins(d)
  \/ \E h \in Handles : RunTimer(h)
  \/ TimersDone
  \/ RunTick
  \/ CloseWithoutFD
  \/ TicksDrained
  \/ ErasePending
  \/ \E h \in Handles, bit \in IOEvents : Dispatch(h, bit)
  \/ ReportDone
  \/ DispatchDone

Next ==
  \/ ApiCall
  \/ CallbackReturns
  \/ LoopStep
  \/ \E d \in 0..MaxElapsed : Poll(d)
  \/ PollFails

Spec == Init /\ [][Next]_vars

-----------------------------------------------------------------------------
(* Safety *)

\* Memory safety. Every address the program holds on to is that of an
\* allocated record: the timer heap, the removals still to be done, what is
\* left of the reports of Poll, the pointers the kernel hands back, m_handle
\* of every event and the record whose callbacks are being run.
NoDanglingHandles ==
  /\ \A h \in Handles : Queued(h) \/ ready[h] # {} => Allocated(h)
  /\ \A h \in Pending : Allocated(h)
  /\ \A f \in FDs : epoll[f].handle # NoHandle => Allocated(epoll[f].handle)
  /\ \A e \in Events : handle[e] # NoHandle => Allocated(handle[e])
  /\ cur # NoHandle => Allocated(cur)

\* An event and its record agree about each other: m_handle points to h
\* exactly if h is a record of this event that is not detached, so no event
\* is served twice and none is served through a stale record.
OneRecordPerEvent ==
  \A e \in Events, h \in Handles : handle[e] = h <=> Live(h) /\ info[h].ev = e

\* The timer heap holds the records with EVF_TIMER_SET, each exactly once,
\* and none of a detached event; only a timer that is set is periodic.
TimerQueueExact ==
  \A h \in Handles :
    /\ qTimers[h] = IF "TIMER_SET" \in info[h].flags THEN 1 ELSE 0
    /\ info[h].flags \cap TimerFlags # {} => Live(h) /\ "TIMER_SET" \in info[h].flags

\* The removals to be done are the detached records, each listed once: none
\* is freed twice and none is left behind in m_lstEvents.
PendingOnce ==
  /\ \A i, j \in DOMAIN vecRMPending : vecRMPending[i] = vecRMPending[j] => i = j
  /\ Pending = {h \in Handles : Allocated(h) /\ "DETACHED" \in info[h].flags}

\* The kernel reports a descriptor to the record that is registered for it
\* and to no other, and that record is the one of an attached event which
\* has the descriptor open now, also when numbers are used again.
EpollOwnership ==
  /\ \A f \in FDs, h \in Handles :
       epoll[f].handle = h <=> Live(h) /\ info[h].fdRegistered = f
  /\ \A h \in Handles : Live(h) => info[h].fdRegistered \in {NoFD, fd[info[h].ev]}

\* The loop goes to wait with no callback, no removal and no report left over.
NothingPendingAtPoll ==
  pc \in {"tick", "poll"} =>
    qNextTick = <<>> /\ vecRMPending = <<>> /\ (\A h \in Handles : ready[h] = {})

\* How late a timer can be: what the loop spends running between two readings
\* of the clock and, for every signal that interrupts the wait, the timer's
\* interval once, as the wait starts over with all of its timeout. Without
\* signals no wait goes past the deadline of a timer that was set when it
\* began. A timer set after the wait has its whole interval left, counted
\* from before the wait: it may run early, not late.
TimersNotLate ==
  \A h \in Handles : Queued(h) /\ pc \notin {"timers", "onTimer"} =>
    \/ info[h].due - slept >= -MaxElapsed - restarts * info[h].interval
    \/ info[h].due = info[h].interval

\* While epoll_ctl does not fail, an attached descriptor is polled for what
\* its event's mask asks; the exception is the mask it was registered with,
\* which _updateIOFD takes for the one the kernel still has.
InterestStaleOnlyAtRegisteredMask ==
  ~EpollMayFail =>
    \A h \in Handles : Live(h) /\ info[h].fdRegistered # NoFD =>
      LET m == mask[info[h].ev]
      IN  \/ epoll[info[h].fdRegistered].mask = m
          \/ info[h].nIOEventMask = m

\* OnTimer, OnRead, ... are called for the event's present attachment only:
\* never after Detach, however the callbacks before it were arranged.
CallbacksOnlyWhenAttached ==
  [][pc' \in {"onTimer", "onIO"} /\ pc' # pc =>
       LET e == info[cur'].ev IN e # NoEvent /\ handle[e] = cur']_vars

\* The assertion of IOEvent::_close: a descriptor is closed only while its
\* event is detached.
ClosedOnlyDetached == pc # "abort"

-----------------------------------------------------------------------------
(* Liveness *)

\* The thread runs, user code returns from its callbacks, the clock moves,
\* and epoll_wait returns once its timeout is over: signals do not make it
\* start over for ever.
WaitsForTimer == (\E h \in Handles : Queued(h)) /\ \E d \in 0..MaxElapsed : Poll(d)
ClockMoves == \E d \in 1..MaxElapsed : TickBegins(d)

Fairness ==
  /\ WF_vars(LoopStep)
  /\ WF_vars(CallbackReturns)
  /\ WF_vars(WaitsForTimer)
  /\ SF_vars(ClockMoves)

FairSpec == Spec /\ Fairness

Stopped == pc \in {"done", "abort"}

\* Close of an attached event comes to an end: its descriptor is closed,
\* however many callbacks are posted before and after.
CloseCompletes ==
  \A e \in Events :
    (\E i \in DOMAIN qNextTick : qNextTick[i] = e) ~> (fd[e] = NoFD \/ Stopped)

\* Callbacks leave the queue in the end: a removed record is freed, unless
\* callbacks go on posting callbacks for ever.
RemovalsComplete ==
  ([]<>(qNextTick = <<>>)) =>
    \A h \in Handles : (h \in Pending) ~> (~Allocated(h) \/ Stopped)

\* A timer that is set runs or is cancelled, unless callbacks go on posting
\* callbacks for ever.
TimersRun ==
  ([]<>(qNextTick = <<>>)) =>
    \A h \in Handles : Queued(h) ~> (~Queued(h) \/ (pc = "onTimer" /\ cur = h) \/ Stopped)
=============================================================================
