-------------------------- MODULE EventLoopProofs --------------------------
(* Proofs about EventLoop, for every number of events, handles and         *)
(* descriptors and all values of the bounds: types, then the inductive     *)
(* invariant and the safety properties that follow from it, then what the  *)
(* loop waits for and what epoll is asked for.                             *)
EXTENDS EventLoop, TLAPS

-----------------------------------------------------------------------------
(* Typing *)

\* What the control state says about the queues: callbacks run from the
\* front of a queue that is not empty, and the queue is empty after it has
\* been drained.
TicksInPlace ==
  /\ pc = "onTick" => qNextTick # <<>> /\ Head(qNextTick) = UserTick
  /\ pc = "onClose" => qNextTick # <<>> /\ Head(qNextTick) \in Events
  /\ pc \in {"erase", "tick", "poll"} => qNextTick = <<>>

TypeInv == TypeOK /\ TicksInPlace

LEMMA FreeInfoType == FreeInfo \in EventInfo
  BY DEF FreeInfo, EventInfo

LEMMA NewInfoType == \A e \in Events : NewInfo(e) \in EventInfo
  BY DEF NewInfo, FreeInfo, EventInfo

\* Setting the timer fields of a record.
LEMMA TimerFieldsType ==
  ASSUME NEW r \in EventInfo, NEW s \in SUBSET Flags, NEW d \in Int, NEW i \in Nat
  PROVE  [r EXCEPT !.flags = s, !.due = d, !.interval = i] \in EventInfo
  BY DEF EventInfo

LEMMA TimerClearedType ==
  ASSUME NEW r \in EventInfo
  PROVE  TimerCleared(r) \in EventInfo
  <1>1. r.flags \ TimerFlags \in SUBSET Flags
    BY DEF EventInfo
  <1>2. 0 \in Int /\ 0 \in Nat
    OBVIOUS
  <1> QED  BY <1>1, <1>2, TimerFieldsType, Zenon DEF TimerCleared

LEMMA TimerSetType ==
  ASSUME NEW r \in EventInfo, NEW t \in Nat, NEW p \in BOOLEAN
  PROVE  TimerSet(r, t, p) \in EventInfo
  <1>1. r.flags \cup {"TIMER_SET"} \cup (IF p THEN {"TIMER_PERIODIC"} ELSE {}) \in SUBSET Flags
    BY DEF EventInfo, Flags
  <1>2. t \in Int
    OBVIOUS
  <1> QED  BY <1>1, <1>2, TimerFieldsType, Zenon DEF TimerSet

LEMMA DetachedInfoType ==
  ASSUME NEW r \in EventInfo
  PROVE  DetachedInfo(r) \in EventInfo
  <1>1. (r.flags \ TimerFlags) \cup {"DETACHED"} \in SUBSET Flags
    BY DEF EventInfo, Flags
  <1>2. 0 \in Int /\ 0 \in Nat
    OBVIOUS
  <1> QED  BY <1>1, <1>2, TimerFieldsType, Zenon DEF DetachedInfo

LEMMA AdvancedType ==
  ASSUME info \in [Handles -> EventInfo], NEW d \in Int
  PROVE  Advanced(d) \in [Handles -> EventInfo]
  BY DEF Advanced, EventInfo

LEMMA UpdatedInfoType ==
  ASSUME NEW r \in EventInfo, NEW f \in FDs \cup {NoFD},
         NEW m \in SUBSET Maskable, NEW ok
  PROVE  UpdatedInfo(r, f, m, ok) \in EventInfo
  BY DEF UpdatedInfo, EventInfo

LEMMA UnregisteredType ==
  ASSUME epoll \in [FDs -> Interest], NEW f
  PROVE  Unregistered(f) \in [FDs -> Interest]
  BY DEF Unregistered, NotPolled, Interest

LEMMA UpdatedInterestType ==
  ASSUME epoll \in [FDs -> Interest], NEW h \in Handles, NEW r \in EventInfo,
         NEW f \in FDs \cup {NoFD}, NEW m \in SUBSET Maskable, NEW ok
  PROVE  UpdatedInterest(h, r, f, m, ok) \in [FDs -> Interest]
  <1>1. Unregistered(r.fdRegistered) \in [FDs -> Interest]
    BY UnregisteredType
  <1>2. [handle |-> h, mask |-> m] \in Interest
    BY DEF Interest
  <1> QED  BY <1>1, <1>2 DEF UpdatedInterest

LEMMA RemovedType ==
  ASSUME qTimers \in [Handles -> Nat], NEW h \in Handles
  PROVE  Removed(h) \in [Handles -> Nat]
  BY DEF Removed

\* The queues and the records keep their types through every API call.
LEMMA ApiCallType ==
  ASSUME TypeOK, ApiCall
  PROVE  TypeOK'
  <1> USE DEF controlVars, eventVars, memoryVars
  <1>0. pc \in UserCode /\ UNCHANGED controlVars
    BY DEF ApiCall
  <1>1. ASSUME NEW e \in Events, Attach(e)
        PROVE  TypeOK'
    <2>1. PICK h \in Handles :
            /\ info' = [info EXCEPT ![h] = UpdatedInfo(NewInfo(e), fd[e], mask[e], TRUE)]
            /\ epoll' = UpdatedInterest(h, NewInfo(e), fd[e], mask[e], TRUE)
            /\ handle' = [handle EXCEPT ![e] = h]
      BY <1>1 DEF Attach
    <2>2. /\ fd[e] \in FDs \cup {NoFD}
          /\ mask[e] \in SUBSET Maskable
          /\ NewInfo(e) \in EventInfo
      BY NewInfoType DEF TypeOK
    <2>3. UpdatedInfo(NewInfo(e), fd[e], mask[e], TRUE) \in EventInfo
      BY <2>2, UpdatedInfoType
    <2>4. epoll' \in [FDs -> Interest]
      BY <2>1, <2>2, UpdatedInterestType DEF TypeOK
    <2> QED  BY <1>0, <1>1, <2>1, <2>3, <2>4 DEF TypeOK, Attach
  <1>2. ASSUME NEW e \in Events, handle[e] # NoHandle, RemoveEvent(e)
        PROVE  /\ handle' \in [Events -> Handles \cup {NoHandle}]
               /\ info' \in [Handles -> EventInfo]
               /\ qTimers' \in [Handles -> Nat]
               /\ vecRMPending' \in Seq(Handles)
               /\ epoll' \in [FDs -> Interest]
    <2> DEFINE h == handle[e]
    <2>1. h \in Handles
      BY <1>2 DEF TypeOK
    <2>2. info' \in [Handles -> EventInfo]
      BY <1>2, <2>1, DetachedInfoType DEF RemoveEvent, TypeOK
    <2>3. qTimers' \in [Handles -> Nat]
      BY <1>2, <2>1, RemovedType DEF RemoveEvent, TypeOK
    <2>4. epoll' \in [FDs -> Interest]
      BY <1>2, UnregisteredType DEF RemoveEvent, TypeOK
    <2> QED  BY <1>2, <2>1, <2>2, <2>3, <2>4 DEF RemoveEvent, TypeOK
  <1>3. ASSUME NEW e \in Events, Detach(e)
        PROVE  TypeOK'
    BY <1>0, <1>2, <1>3 DEF Detach, TypeOK
  <1>4. ASSUME NEW e \in Events, NEW t \in Timeouts, NEW p \in BOOLEAN, SetTimer(e, t, p)
        PROVE  TypeOK'
    <2> DEFINE h == handle[e]
    <2>1. h \in Handles /\ t \in Nat
      BY <1>4, TimeAssumption DEF SetTimer, TypeOK
    <2>2. TimerSet(info[h], t, p) \in EventInfo
      BY <2>1, TimerSetType DEF TypeOK
    <2>3. info' \in [Handles -> EventInfo]
      BY <1>4, <2>1, <2>2 DEF SetTimer, TypeOK
    <2>4. qTimers' \in [Handles -> Nat]
      BY <1>4, <2>1 DEF SetTimer, TypeOK
    <2> QED  BY <1>0, <1>4, <2>3, <2>4 DEF SetTimer, TypeOK
  <1>5. ASSUME NEW e \in Events, CancelTimer(e)
        PROVE  TypeOK'
    <2>1. handle[e] \in Handles
      BY <1>5 DEF CancelTimer, TypeOK
    <2>2. info' \in [Handles -> EventInfo] /\ qTimers' \in [Handles -> Nat]
      BY <1>5, <2>1, TimerClearedType, RemovedType DEF CancelTimer, TypeOK
    <2> QED  BY <1>0, <1>5, <2>2 DEF CancelTimer, TypeOK
  <1>6. ASSUME NEW e \in Events, NEW f \in FDs \cup {NoFD}, NEW m \in SUBSET Maskable,
               NotifyIOStateChange(e, f, m)
        PROVE  info' \in [Handles -> EventInfo] /\ epoll' \in [FDs -> Interest]
    <2>1. CASE handle[e] = NoHandle \/ ~Live(handle[e])
      BY <1>6, <2>1 DEF NotifyIOStateChange, TypeOK
    <2>2. CASE ~(handle[e] = NoHandle \/ ~Live(handle[e]))
      <3> DEFINE h == handle[e]
      <3>1. h \in Handles
        BY <2>2 DEF TypeOK
      <3>2. PICK ok \in CtlResults(info[h], f) :
              /\ info' = [info EXCEPT ![h] = UpdatedInfo(@, f, m, ok)]
              /\ epoll' = UpdatedInterest(h, info[h], f, m, ok)
        BY <1>6, <2>2 DEF NotifyIOStateChange
      <3>3. UpdatedInfo(info[h], f, m, ok) \in EventInfo
        BY <3>1, UpdatedInfoType DEF TypeOK
      <3>4. epoll' \in [FDs -> Interest]
        BY <3>1, <3>2, UpdatedInterestType DEF TypeOK
      <3> QED  BY <3>1, <3>2, <3>3, <3>4 DEF TypeOK
    <2> QED  BY <2>1, <2>2
  <1>7. ASSUME NEW e \in Events, NEW f \in FDs, NEW m \in Masks, SetFD(e, f, m)
        PROVE  TypeOK'
    <2>1. m \in SUBSET Maskable
      BY MaskAssumption DEF Maskable
    <2> QED  BY <1>0, <1>6, <1>7, <2>1 DEF SetFD, TypeOK
  <1>8. ASSUME NEW e \in Events, NEW m \in Masks, SetIOEventMask(e, m)
        PROVE  TypeOK'
    <2>1. m \in SUBSET Maskable
      BY MaskAssumption DEF Maskable
    <2>2. fd[e] \in FDs \cup {NoFD}
      BY DEF TypeOK
    <2> QED  BY <1>0, <1>6, <1>8, <2>1, <2>2 DEF SetIOEventMask, TypeOK
  <1>9. ASSUME NEW e \in Events, CloseAttached(e)
        PROVE  TypeOK'
    BY <1>0, <1>2, <1>9 DEF CloseAttached, Ticks, TypeOK
  <1>10. ASSUME NEW e \in Events, CloseDetached(e)
         PROVE  TypeOK'
    BY <1>0, <1>10, UnregisteredType DEF CloseDetached, CloseDescriptor, TypeOK
  <1>11. ASSUME NextTick
         PROVE  TypeOK'
    BY <1>0, <1>11 DEF NextTick, Ticks, TypeOK
  <1> QED  BY <1>1, <1>3, <1>4, <1>5, <1>7, <1>8, <1>9, <1>10, <1>11 DEF ApiCall

\* What the loop itself does keeps the types.
LEMMA LoopType ==
  ASSUME TypeInv, CallbackReturns \/ LoopStep \/ PollFails
  PROVE  TypeOK'
  <1> USE DEF controlVars, eventVars, memoryVars, UserCode, LoopCode
  <1>1. CASE MainReturns
    BY <1>1 DEF MainReturns, TypeInv, TypeOK
  <1>2. CASE TimerReturns
    BY <1>2 DEF TimerReturns, TypeInv, TypeOK
  <1>3. CASE TickReturns
    BY <1>3 DEF TickReturns, TypeInv, TicksInPlace, TypeOK
  <1>4. ASSUME NEW e, qNextTick # <<>>, FinishClose(e)
        PROVE  TypeOK'
    <2>1. CASE fd[e] # NoFD /\ handle[e] # NoHandle
      BY <1>4, <2>1 DEF FinishClose, TypeInv, TypeOK
    <2>2. CASE ~(fd[e] # NoFD /\ handle[e] # NoHandle)
      <3>1. Tail(qNextTick) \in Seq(Ticks)
        BY <1>4 DEF TypeInv, TypeOK
      <3> QED  BY ZenonT(30), <1>4, <2>2, <3>1, UnregisteredType
               DEF FinishClose, CloseDescriptor, TypeInv, TypeOK
    <2> QED  BY <2>1, <2>2
  <1>5. CASE CloseReturns
    BY <1>4, <1>5 DEF CloseReturns, TypeInv, TicksInPlace
  <1>6. CASE IOReturns
    BY <1>6 DEF IOReturns, TypeInv, TypeOK
  <1>7. ASSUME NEW d \in 0..MaxElapsed, TickBegins(d)
        PROVE  TypeOK'
    <2>1. slept + d \in Int
      BY TimeAssumption DEF TypeInv, TypeOK
    <2> QED  BY <1>7, <2>1, AdvancedType, TimeAssumption DEF TickBegins, TypeInv, TypeOK
  <1>8. ASSUME NEW h \in Handles, RunTimer(h)
        PROVE  TypeOK'
    <2>1. info[h] \in EventInfo
      BY DEF TypeInv, TypeOK
    <2>2. CASE "TIMER_PERIODIC" \in info[h].flags
      <3>1. info' \in [Handles -> EventInfo]
        <4> DEFINE i == info[h].interval
        <4>1. i \in Int
          BY <2>1 DEF EventInfo
        <4>2. info' = [info EXCEPT ![h] = [info[h] EXCEPT !.due = i]]
          BY <1>8, <2>2 DEF RunTimer
        <4>3. [info[h] EXCEPT !.due = i] \in EventInfo
          <5> HIDE DEF i
          <5> QED  BY <2>1, <4>1 DEF EventInfo
        <4> HIDE DEF i
        <4> QED  BY <4>2, <4>3 DEF TypeInv, TypeOK
      <3> QED  BY <1>8, <2>2, <3>1 DEF RunTimer, TypeInv, TypeOK
    <2>3. CASE "TIMER_PERIODIC" \notin info[h].flags
      <3>1. TimerCleared(info[h]) \in EventInfo
        BY <2>1, TimerClearedType
      <3>2. info' \in [Handles -> EventInfo]
        BY <1>8, <2>3, <3>1 DEF RunTimer, TypeInv, TypeOK
      <3> QED  BY <1>8, <2>3, <3>2, RemovedType DEF RunTimer, TypeInv, TypeOK
    <2> QED  BY <2>2, <2>3
  <1>9. CASE TimersDone
    BY <1>9 DEF TimersDone, TypeInv, TypeOK
  <1>10. CASE RunTick
    BY <1>10 DEF RunTick, TypeInv, TypeOK
  <1>11. CASE CloseWithoutFD
    BY <1>4, <1>11 DEF CloseWithoutFD
  <1>12. CASE TicksDrained
    BY <1>12 DEF TicksDrained, TypeInv, TypeOK
  <1>13. CASE ErasePending
    <2>1. info' \in [Handles -> EventInfo]
      BY <1>13, FreeInfoType DEF ErasePending, TypeInv, TypeOK
    <2> QED  BY <1>13, <2>1 DEF ErasePending, TypeInv, TypeOK
  <1>14. ASSUME NEW h \in Handles, NEW bit \in IOEvents, Dispatch(h, bit)
         PROVE  TypeOK'
    BY <1>14 DEF Dispatch, TypeInv, TypeOK
  <1>15. CASE ReportDone
    BY <1>15 DEF ReportDone, TypeInv, TypeOK
  <1>16. CASE DispatchDone
    BY <1>16 DEF DispatchDone, TypeInv, TypeOK
  <1>17. CASE PollFails
    BY <1>17 DEF PollFails, TypeInv, TypeOK
  <1> QED  BY <1>1, <1>2, <1>3, <1>5, <1>6, <1>7, <1>8, <1>9, <1>10, <1>11, <1>12,
              <1>13, <1>14, <1>15, <1>16, <1>17 DEF CallbackReturns, LoopStep

LEMMA PollType ==
  ASSUME TypeOK, NEW d \in 0..MaxElapsed, Poll(d)
  PROVE  TypeOK'
  <1> USE DEF controlVars, eventVars, memoryVars, UserCode, LoopCode
  <1> DEFINE r == Advanced(d)
  <1>1. r \in [Handles -> EventInfo]
    BY TimeAssumption, AdvancedType DEF TypeOK
  <1>2. PollTimeouts(r) \subseteq Int
    <2>1. \A h \in Handles : r[h].due \in Int
      BY <1>1 DEF EventInfo
    <2> HIDE DEF r
    <2>2. \A ms \in Int : Clamped(ms) \in Int
      BY TimeAssumption DEF Clamped
    <2> QED  BY <2>1, <2>2 DEF PollTimeouts
  <1>3. PICK rep \in [FDs -> SUBSET IOEvents], timeout \in PollTimeouts(r) :
          /\ {f \in FDs : rep[f] # {}} = {} => timeout >= 0
          /\ restarts' \in Restarts(timeout)
          /\ slept' \in (IF {f \in FDs : rep[f] # {}} = {} THEN timeout ELSE 0)
                        ..LongestWait(timeout, restarts')
          /\ ready' = [h \in Handles |->
                         UNION {rep[f] : f \in {x \in FDs : epoll[x].handle = h}}]
    BY DEF Poll
  <1>4. restarts' \in 0..MaxRestarts
    BY <1>3, TimeAssumption DEF Restarts
  <1>5. slept' \in Nat
    <2>1. timeout \in Int
      BY <1>2, <1>3
    <2>2. (IF {f \in FDs : rep[f] # {}} = {} THEN timeout ELSE 0) \in Nat
      BY <1>3, <2>1
    <2> QED  BY <1>3, <2>2
  <1>6. ready' \in [Handles -> SUBSET IOEvents]
    BY <1>3
  <1>7. info' = r /\ pc' = "dispatch"
    BY DEF Poll
  <1> QED  BY <1>1, <1>4, <1>5, <1>6, <1>7 DEF Poll, TypeOK

\* An API call leaves the queue alone or posts one callback at its end.
LEMMA ApiCallPosts ==
  ASSUME ApiCall
  PROVE  \/ qNextTick' = qNextTick
         \/ \E t \in Ticks : qNextTick' = Append(qNextTick, t)
  <1> USE DEF eventVars, memoryVars
  <1>1. ASSUME NEW e \in Events, CloseAttached(e)
        PROVE  \E t \in Ticks : qNextTick' = Append(qNextTick, t)
    BY <1>1 DEF CloseAttached, Ticks
  <1>2. ASSUME NextTick
        PROVE  \E t \in Ticks : qNextTick' = Append(qNextTick, t)
    BY <1>2 DEF NextTick, Ticks
  <1> QED  BY <1>1, <1>2 DEF ApiCall, Attach, Detach, SetTimer, CancelTimer, SetFD,
                             SetIOEventMask, CloseDetached

LEMMA TicksStayInPlace ==
  ASSUME TypeInv, Next
  PROVE  TicksInPlace'
  <1> USE DEF controlVars, eventVars, memoryVars, UserCode
  <1>1. qNextTick \in Seq(Ticks) /\ after \in {"tick", "poll", "loop"}
    BY DEF TypeInv, TypeOK
  <1>2. CASE ApiCall
    <2>1. pc \in UserCode /\ pc' = pc
      BY <1>2 DEF ApiCall
    <2>2. ASSUME qNextTick # <<>>
          PROVE  qNextTick' # <<>> /\ Head(qNextTick') = Head(qNextTick)
      BY <1>1, <1>2, <2>2, ApiCallPosts
    <2> QED  BY <2>1, <2>2 DEF TypeInv, TicksInPlace
  <1>3. CASE CallbackReturns
    BY <1>3 DEF CallbackReturns, MainReturns, TimerReturns, TickReturns, CloseReturns,
                FinishClose, IOReturns, TypeInv, TicksInPlace
  <1>4. CASE LoopStep
    <2>1. CASE RunTick
      BY <1>1, <2>1 DEF RunTick, Ticks, TicksInPlace
    <2>2. CASE ErasePending
      BY <1>1, <2>2 DEF ErasePending, TypeInv, TicksInPlace
    <2>3. CASE TicksDrained
      BY <2>3 DEF TicksDrained, TicksInPlace
    <2> QED  BY <1>4, <2>1, <2>2, <2>3
             DEF LoopStep, TickBegins, RunTimer, TimersDone, CloseWithoutFD, FinishClose,
                 Dispatch, ReportDone, DispatchDone, TypeInv, TicksInPlace
  <1>5. ASSUME NEW d \in 0..MaxElapsed, Poll(d)
        PROVE  TicksInPlace'
    BY <1>5 DEF Poll, TicksInPlace
  <1>6. CASE PollFails
    BY <1>6 DEF PollFails, TicksInPlace
  <1> QED  BY <1>2, <1>3, <1>4, <1>5, <1>6 DEF Next

\* Type correctness: every variable of the loop stays in its type, and the
\* front of m_qNextTick exists whenever a callback from it is running.
THEOREM TypeCorrect == Spec => []TypeInv
  <1>1. Init => TypeInv
    BY FreeInfoType, TimeAssumption
       DEF Init, TypeInv, TypeOK, TicksInPlace, NoReports, NotPolled,
           Interest, Ticks, UserCode, IOEvents
  <1>2. TypeInv /\ [Next]_vars => TypeInv'
    <2> SUFFICES ASSUME TypeInv, [Next]_vars PROVE TypeInv'
      OBVIOUS
    <2>1. TypeOK'
      <3>1. CASE UNCHANGED vars
        BY <3>1 DEF TypeInv, TypeOK, vars
      <3>2. CASE Next
        BY <3>2, ApiCallType, LoopType, PollType DEF Next, TypeInv
      <3> QED  BY <3>1, <3>2
    <2>2. TicksInPlace'
      <3>1. CASE UNCHANGED vars
        BY <3>1 DEF TypeInv, TicksInPlace, vars
      <3>2. CASE Next
        BY <3>2, TicksStayInPlace
      <3> QED  BY <3>1, <3>2
    <2> QED  BY <2>1, <2>2 DEF TypeInv
  <1> QED  BY <1>1, <1>2, PTL DEF Spec

\* Every variable of the loop stays in its type.
THEOREM Typed == Spec => []TypeOK
  <1>1. TypeInv => TypeOK
    BY DEF TypeInv
  <1> QED  BY <1>1, TypeCorrect, PTL

\* No two events have the same open descriptor.
DescriptorsOwned ==
  \A e, o \in Events : fd[e] = fd[o] /\ fd[e] # NoFD => e = o

\* What relates the records to the events, the queues and the kernel.
RecordInv ==
  /\ OneRecordPerEvent
  /\ TimerQueueExact
  /\ PendingOnce
  /\ EpollOwnership
  /\ DescriptorsOwned

\* What the thread may hold at each point: the record of a callback between
\* its call and its end, reports only while they are dispatched, and no
\* removals once they have been processed.
ControlInv ==
  /\ \A h \in Handles : ready[h] # {} => Allocated(h)
  /\ cur # NoHandle => Allocated(cur)
  /\ pc \in {"onTimer", "onIO"} => cur # NoHandle
  /\ pc \notin {"onTimer", "onIO", "dispatch"} => cur = NoHandle
  /\ pc \notin {"dispatch", "onIO"} => \A h \in Handles : ready[h] = {}
  /\ pc \in {"tick", "poll"} => vecRMPending = <<>>

IInv == TypeInv /\ RecordInv /\ ControlInv

-----------------------------------------------------------------------------
(* The fields of the records that the helpers leave *)

LEMMA TimerClearedFields ==
  ASSUME NEW r \in EventInfo
  PROVE  /\ TimerCleared(r).ev = r.ev
         /\ TimerCleared(r).flags = r.flags \ TimerFlags
         /\ TimerCleared(r).fdRegistered = r.fdRegistered
  BY DEF TimerCleared, EventInfo

LEMMA DetachedInfoFields ==
  ASSUME NEW r \in EventInfo
  PROVE  /\ DetachedInfo(r).ev = r.ev
         /\ DetachedInfo(r).flags = (r.flags \ TimerFlags) \cup {"DETACHED"}
         /\ DetachedInfo(r).fdRegistered = r.fdRegistered
  BY DEF DetachedInfo, EventInfo

LEMMA TimerSetFields ==
  ASSUME NEW r \in EventInfo, NEW t, NEW p
  PROVE  /\ TimerSet(r, t, p).ev = r.ev
         /\ TimerSet(r, t, p).flags =
              r.flags \cup {"TIMER_SET"} \cup (IF p THEN {"TIMER_PERIODIC"} ELSE {})
         /\ TimerSet(r, t, p).fdRegistered = r.fdRegistered
  BY DEF TimerSet, EventInfo

LEMMA AdvancedFields ==
  ASSUME info \in [Handles -> EventInfo], NEW d, NEW h \in Handles
  PROVE  /\ Advanced(d)[h].ev = info[h].ev
         /\ Advanced(d)[h].flags = info[h].flags
         /\ Advanced(d)[h].fdRegistered = info[h].fdRegistered
  BY DEF Advanced, EventInfo

LEMMA UpdatedInfoFields ==
  ASSUME NEW r \in EventInfo, NEW f, NEW m, NEW ok
  PROVE  /\ UpdatedInfo(r, f, m, ok).ev = r.ev
         /\ UpdatedInfo(r, f, m, ok).flags = r.flags
         /\ UpdatedInfo(r, f, m, ok).fdRegistered =
              IF r.fdRegistered = f \/ f = NoFD \/ ok THEN f ELSE NoFD
  <1>1. r.fdRegistered # NoFD \/ r.fdRegistered = NoFD
    OBVIOUS
  <1> QED  BY DEF UpdatedInfo, EventInfo

\* Who is polled: _updateIOFD puts the record on the list under f, or leaves
\* the list without the descriptor the record had.
LEMMA UpdatedInterestOwners ==
  ASSUME epoll \in [FDs -> Interest], NEW h \in Handles, NEW r \in EventInfo,
         NEW f \in FDs \cup {NoFD}, NEW m, NEW ok \in BOOLEAN,
         r.fdRegistered = NoFD \/ r.fdRegistered = f,
         r.fdRegistered # NoFD => epoll[r.fdRegistered].handle = h,
         NEW g \in FDs
  PROVE  UpdatedInterest(h, r, f, m, ok)[g].handle =
           IF g = f /\ ok THEN h ELSE epoll[g].handle
  BY FDAssumption DEF UpdatedInterest, Unregistered, Interest, NotPolled

LEMMA UnregisteredOwners ==
  ASSUME epoll \in [FDs -> Interest], NEW f, NEW g \in FDs
  PROVE  Unregistered(f)[g].handle = IF g = f THEN NoHandle ELSE epoll[g].handle
  BY FDAssumption DEF Unregistered, Interest, NotPolled

LEMMA PendingAppend ==
  ASSUME vecRMPending \in Seq(Handles), NEW h \in Handles,
         vecRMPending' = Append(vecRMPending, h)
  PROVE  /\ Pending' = Pending \cup {h}
         /\ DOMAIN vecRMPending' = DOMAIN vecRMPending \cup {Len(vecRMPending) + 1}
         /\ \A i \in DOMAIN vecRMPending : vecRMPending'[i] = vecRMPending[i]
         /\ vecRMPending'[Len(vecRMPending) + 1] = h
  BY DEF Pending

-----------------------------------------------------------------------------
(* RecordInv is kept when no record changes hands *)

LEMMA SameRecords ==
  ASSUME TypeOK, RecordInv,
         \A h \in Handles : /\ info'[h].ev = info[h].ev
                            /\ info'[h].flags = info[h].flags
                            /\ info'[h].fdRegistered = info[h].fdRegistered,
         UNCHANGED <<handle, fd, qTimers, vecRMPending, epoll>>
  PROVE  RecordInv'
  <1>0. \A h \in Handles : (Live(h)' <=> Live(h)) /\ (Allocated(h)' <=> Allocated(h))
    BY DEF Live, Allocated
  <1>1. OneRecordPerEvent'
    BY <1>0 DEF RecordInv, OneRecordPerEvent
  <1>2. TimerQueueExact'
    BY <1>0 DEF RecordInv, TimerQueueExact
  <1>3. PendingOnce'
    BY <1>0 DEF RecordInv, PendingOnce, Pending
  <1>4. EpollOwnership'
    BY <1>0 DEF RecordInv, EpollOwnership
  <1>5. DescriptorsOwned'
    BY DEF RecordInv, DescriptorsOwned
  <1> QED  BY <1>1, <1>2, <1>3, <1>4, <1>5 DEF RecordInv


-----------------------------------------------------------------------------
(* RecordInv is kept by each API call that touches a record *)

LEMMA AttachKeeps ==
  ASSUME TypeOK, RecordInv, NEW e \in Events, Attach(e)
  PROVE  RecordInv'
  <1> USE DEF RecordInv, memoryVars, eventVars
  <1>1. PICK h \in Handles :
          /\ ~Allocated(h)
          /\ info' = [info EXCEPT ![h] = UpdatedInfo(NewInfo(e), fd[e], mask[e], TRUE)]
          /\ epoll' = UpdatedInterest(h, NewInfo(e), fd[e], mask[e], TRUE)
          /\ handle' = [handle EXCEPT ![e] = h]
    BY DEF Attach
  <1>2. UNCHANGED <<fd, qTimers, vecRMPending>> /\ handle[e] = NoHandle
    BY DEF Attach
  <1>3. /\ info'[h].ev = e /\ info'[h].flags = {} /\ info'[h].fdRegistered = fd[e]
        /\ \A g \in Handles : g # h => info'[g] = info[g]
    <2> DEFINE n == UpdatedInfo(NewInfo(e), fd[e], mask[e], TRUE)
    <2>1. n.ev = e /\ n.flags = {} /\ n.fdRegistered = fd[e]
      BY DEF UpdatedInfo, NewInfo, FreeInfo
    <2>2. info' = [info EXCEPT ![h] = n]
      BY <1>1
    <2> HIDE DEF n
    <2> QED  BY <2>1, <2>2 DEF TypeOK
  <1>4. handle'[e] = h /\ \A o \in Events : o # e => handle'[o] = handle[o]
    BY <1>1 DEF TypeOK
  <1>5. fd[e] \in FDs \cup {NoFD} /\ e # NoEvent /\ h # NoHandle
    BY EventAssumption, HandleAssumption DEF TypeOK
  <1>6. \A f \in FDs : epoll'[f].handle = IF f = fd[e] THEN h ELSE epoll[f].handle
    <2>1. NewInfo(e) \in EventInfo /\ NewInfo(e).fdRegistered = NoFD
      BY NewInfoType DEF NewInfo, FreeInfo
    <2>2. ASSUME NEW f \in FDs
          PROVE  UpdatedInterest(h, NewInfo(e), fd[e], mask[e], TRUE)[f].handle =
                   IF f = fd[e] THEN h ELSE epoll[f].handle
      BY <1>5, <2>1, FDAssumption
         DEF UpdatedInterest, Unregistered, Interest, NotPolled, TypeOK
    <2> QED  BY <1>1, <2>2
  <1>7. Live(h)' /\ ~Live(h) /\ \A g \in Handles : g # h => (Live(g)' <=> Live(g))
    BY <1>1, <1>3, <1>5 DEF Live, Allocated
  <1>8. OneRecordPerEvent'
    <2>1. ASSUME NEW o \in Events, NEW g \in Handles
          PROVE  handle'[o] = g <=> Live(g)' /\ info'[g].ev = o
      <3>1. CASE g = h
        BY <1>3, <1>4, <1>7, <3>1 DEF OneRecordPerEvent
      <3>2. CASE g # h
        BY <1>2, <1>3, <1>4, <1>5, <1>7, <3>2, HandleAssumption DEF OneRecordPerEvent
      <3> QED  BY <3>1, <3>2
    <2> QED  BY <2>1 DEF OneRecordPerEvent
  <1>9. TimerQueueExact'
    BY <1>2, <1>3, <1>7 DEF TimerQueueExact, TimerFlags
  <1>10. PendingOnce'
    <2>1. Pending' = Pending
      BY <1>2 DEF Pending
    <2>2. ASSUME NEW g \in Handles
          PROVE  g \in Pending <=> Allocated(g)' /\ "DETACHED" \in info'[g].flags
      BY <1>1, <1>3 DEF PendingOnce, Allocated
    <2>3. Pending \subseteq Handles
      BY DEF PendingOnce
    <2> QED  BY <1>2, <2>1, <2>2, <2>3 DEF PendingOnce
  <1>11. EpollOwnership'
    <2>1. ASSUME NEW g \in Handles, Live(g)
          PROVE  info[g].ev \in Events /\ info[g].ev # e
      BY <1>2, <2>1, HandleAssumption DEF OneRecordPerEvent, Live, Allocated, TypeOK, EventInfo
    <2>2. ASSUME NEW g \in Handles, Live(g), fd[e] # NoFD
          PROVE  info[g].fdRegistered # fd[e]
      BY <2>1, <2>2 DEF EpollOwnership, DescriptorsOwned
    <2>3. ASSUME NEW f \in FDs, NEW g \in Handles
          PROVE  epoll'[f].handle = g <=> Live(g)' /\ info'[g].fdRegistered = f
      <3>1. CASE g = h
        <4>1. epoll[f].handle # h
          BY <1>7 DEF EpollOwnership
        <4> QED  BY <1>3, <1>6, <1>7, <3>1, <4>1
      <3>2. CASE g # h
        <4>1. CASE f = fd[e]
          BY <1>3, <1>6, <1>7, <2>2, <3>2, <4>1, FDAssumption
        <4>2. CASE f # fd[e]
          BY <1>3, <1>6, <1>7, <3>2, <4>2 DEF EpollOwnership
        <4> QED  BY <4>1, <4>2
      <3> QED  BY <3>1, <3>2
    <2>4. ASSUME NEW g \in Handles, Live(g)'
          PROVE  info'[g].fdRegistered \in {NoFD, fd'[info'[g].ev]}
      BY <1>2, <1>3, <1>7, <2>4 DEF EpollOwnership
    <2> QED  BY <2>3, <2>4 DEF EpollOwnership
  <1>12. DescriptorsOwned'
    BY <1>2 DEF DescriptorsOwned
  <1> QED  BY <1>8, <1>9, <1>10, <1>11, <1>12

LEMMA RemoveEventKeeps ==
  ASSUME TypeOK, RecordInv, NEW e \in Events, handle[e] # NoHandle, RemoveEvent(e),
         UNCHANGED fd
  PROVE  RecordInv'
  <1> USE DEF RecordInv
  <1>1. PICK h \in Handles : h = handle[e]
    BY DEF TypeOK
  <1>2. Live(h) /\ info[h].ev = e /\ info[h] \in EventInfo
    BY <1>1 DEF OneRecordPerEvent, TypeOK
  <1>3. /\ qTimers' = IF "TIMER_SET" \in info[h].flags THEN Removed(h) ELSE qTimers
        /\ info' = [info EXCEPT ![h] = DetachedInfo(info[h])]
        /\ vecRMPending' = Append(vecRMPending, h)
        /\ handle' = [handle EXCEPT ![e] = NoHandle]
        /\ epoll' = Unregistered(info[h].fdRegistered)
    BY <1>1 DEF RemoveEvent
  <1>4. /\ info'[h].ev = e
        /\ info'[h].flags = (info[h].flags \ TimerFlags) \cup {"DETACHED"}
        /\ info'[h].fdRegistered = info[h].fdRegistered
        /\ \A g \in Handles : g # h => info'[g] = info[g]
    BY <1>2, <1>3, DetachedInfoFields DEF TypeOK
  <1>5. handle'[e] = NoHandle /\ \A o \in Events : o # e => handle'[o] = handle[o]
    BY <1>3 DEF TypeOK
  <1>6. \A f \in FDs : epoll'[f].handle =
          IF f = info[h].fdRegistered THEN NoHandle ELSE epoll[f].handle
    BY <1>3, UnregisteredOwners DEF TypeOK
  <1>7. ~Live(h)' /\ \A g \in Handles : g # h => (Live(g)' <=> Live(g))
    BY <1>4 DEF Live, Allocated
  <1>8. OneRecordPerEvent'
    BY <1>1, <1>2, <1>4, <1>5, <1>7, HandleAssumption DEF OneRecordPerEvent
  <1>9. TimerQueueExact'
    <2>1. qTimers'[h] = 0 /\ \A g \in Handles : g # h => qTimers'[g] = qTimers[g]
      BY <1>3 DEF Removed, TimerQueueExact, TypeOK
    <2>2. info'[h].flags \cap TimerFlags = {} /\ "TIMER_SET" \notin info'[h].flags
      BY <1>4 DEF TimerFlags
    <2> QED  BY <1>4, <1>7, <2>1, <2>2 DEF TimerQueueExact
  <1>10. PendingOnce'
    <2>1. h \notin Pending
      BY <1>2 DEF PendingOnce, Live
    <2>2. \A i, j \in DOMAIN vecRMPending' : vecRMPending'[i] = vecRMPending'[j] => i = j
      BY <1>3, <2>1, PendingAppend DEF PendingOnce, Pending, TypeOK
    <2>3. Pending' = Pending \cup {h}
      BY <1>3, PendingAppend DEF TypeOK
    <2>4. ASSUME NEW g \in Handles
          PROVE  g \in Pending' <=> Allocated(g)' /\ "DETACHED" \in info'[g].flags
      BY <1>2, <1>4, <2>3 DEF PendingOnce, Allocated, Live
    <2>5. Pending' \subseteq Handles
      BY <2>3 DEF PendingOnce
    <2> QED  BY <2>2, <2>4, <2>5 DEF PendingOnce
  <1>11. EpollOwnership'
    <2>1. ASSUME NEW f \in FDs, NEW g \in Handles
          PROVE  epoll'[f].handle = g <=> Live(g)' /\ info'[g].fdRegistered = f
      BY <1>2, <1>4, <1>6, <1>7, HandleAssumption DEF EpollOwnership
    <2>2. ASSUME NEW g \in Handles, Live(g)'
          PROVE  info'[g].fdRegistered \in {NoFD, fd'[info'[g].ev]}
      BY <1>4, <1>7, <2>2 DEF EpollOwnership
    <2> QED  BY <2>1, <2>2 DEF EpollOwnership
  <1>12. DescriptorsOwned'
    BY DEF DescriptorsOwned
  <1> QED  BY <1>8, <1>9, <1>10, <1>11, <1>12

\* A step that touches only the timer of one live record.
LEMMA TimerStepKeeps ==
  ASSUME TypeOK, RecordInv, NEW h \in Handles, Live(h),
         UNCHANGED <<handle, fd, vecRMPending, epoll>>,
         \A g \in Handles : g # h => info'[g] = info[g] /\ qTimers'[g] = qTimers[g],
         info'[h].ev = info[h].ev,
         info'[h].fdRegistered = info[h].fdRegistered,
         "DETACHED" \notin info'[h].flags,
         qTimers'[h] = IF "TIMER_SET" \in info'[h].flags THEN 1 ELSE 0,
         info'[h].flags \cap TimerFlags # {} => "TIMER_SET" \in info'[h].flags
  PROVE  RecordInv'
  <1> USE DEF RecordInv
  <1>1. \A g \in Handles : Live(g)' <=> Live(g)
    BY DEF Live, Allocated
  <1>2. OneRecordPerEvent'
    BY <1>1 DEF OneRecordPerEvent
  <1>3. TimerQueueExact'
    BY <1>1 DEF TimerQueueExact
  <1>4. PendingOnce'
    <2>1. Pending' = Pending
      BY DEF Pending
    <2>2. ASSUME NEW g \in Handles
          PROVE  g \in Pending <=> Allocated(g)' /\ "DETACHED" \in info'[g].flags
      BY DEF PendingOnce, Allocated, Live
    <2>3. Pending \subseteq Handles
      BY DEF PendingOnce
    <2> QED  BY <2>1, <2>2, <2>3 DEF PendingOnce
  <1>5. EpollOwnership'
    BY <1>1 DEF EpollOwnership
  <1>6. DescriptorsOwned'
    BY DEF DescriptorsOwned
  <1> QED  BY <1>2, <1>3, <1>4, <1>5, <1>6

LEMMA SetTimerKeeps ==
  ASSUME TypeOK, RecordInv, NEW e \in Events, NEW t \in Timeouts, NEW p \in BOOLEAN,
         SetTimer(e, t, p)
  PROVE  RecordInv'
  <1> USE DEF eventVars
  <1>1. PICK h \in Handles : h = handle[e]
    BY DEF SetTimer, TypeOK
  <1>2. Live(h) /\ "TIMER_SET" \notin info[h].flags /\ info[h] \in EventInfo
    BY <1>1 DEF SetTimer, TypeOK
  <1>3. /\ info' = [info EXCEPT ![h] = TimerSet(info[h], t, p)]
        /\ qTimers' = [qTimers EXCEPT ![h] = @ + 1]
    BY <1>1 DEF SetTimer
  <1>4. \A g \in Handles : g # h => info'[g] = info[g] /\ qTimers'[g] = qTimers[g]
    BY <1>3 DEF TypeOK
  <1>5. /\ info'[h].ev = info[h].ev
        /\ info'[h].fdRegistered = info[h].fdRegistered
        /\ info'[h].flags = info[h].flags \cup {"TIMER_SET"}
                              \cup (IF p THEN {"TIMER_PERIODIC"} ELSE {})
    BY <1>2, <1>3, TimerSetFields DEF TypeOK
  <1>6. "TIMER_SET" \in info'[h].flags /\ "DETACHED" \notin info'[h].flags
    BY <1>2, <1>5 DEF Live
  <1>7. qTimers'[h] = 1
    BY <1>2, <1>3 DEF RecordInv, TimerQueueExact, TypeOK
  <1> QED  BY <1>2, <1>4, <1>5, <1>6, <1>7, TimerStepKeeps DEF SetTimer

LEMMA CancelTimerKeeps ==
  ASSUME TypeOK, RecordInv, NEW e \in Events, CancelTimer(e)
  PROVE  RecordInv'
  <1> USE DEF eventVars
  <1>1. PICK h \in Handles : h = handle[e]
    BY DEF CancelTimer, TypeOK
  <1>2. Live(h) /\ "TIMER_SET" \in info[h].flags /\ info[h] \in EventInfo
    BY <1>1 DEF CancelTimer, TypeOK
  <1>3. /\ info' = [info EXCEPT ![h] = TimerCleared(info[h])]
        /\ qTimers' = Removed(h)
    BY <1>1 DEF CancelTimer
  <1>4. \A g \in Handles : g # h => info'[g] = info[g] /\ qTimers'[g] = qTimers[g]
    BY <1>3 DEF TypeOK, Removed
  <1>5. /\ info'[h].ev = info[h].ev
        /\ info'[h].fdRegistered = info[h].fdRegistered
        /\ info'[h].flags = info[h].flags \ TimerFlags
    BY <1>2, <1>3, TimerClearedFields DEF TypeOK
  <1>6. info'[h].flags \cap TimerFlags = {} /\ "TIMER_SET" \notin info'[h].flags
        /\ "DETACHED" \notin info'[h].flags
    BY <1>2, <1>5 DEF Live, TimerFlags
  <1>7. qTimers'[h] = 0
    BY <1>2, <1>3 DEF RecordInv, TimerQueueExact, TypeOK, Removed
  <1> QED  BY <1>2, <1>4, <1>5, <1>6, <1>7, TimerStepKeeps DEF CancelTimer

\* SetFD and SetIOEventMask: after the step e has descriptor f, which no
\* other event has; f was that of e before, or e had none.
LEMMA NotifyKeeps ==
  ASSUME TypeOK, RecordInv, NEW e \in Events, NEW f \in FDs \cup {NoFD}, NEW m,
         fd[e] = NoFD \/ fd[e] = f,
         \A o \in Events : o # e => fd[o] # f \/ f = NoFD,
         NotifyIOStateChange(e, f, m),
         fd'[e] = f, \A o \in Events : o # e => fd'[o] = fd[o],
         handle' = handle, qTimers' = qTimers, vecRMPending' = vecRMPending
  PROVE  RecordInv'
  <1> USE DEF RecordInv
  <1>1. fd'[e] = f /\ \A o \in Events : o # e => fd'[o] = fd[o]
    OBVIOUS
  <1>2. DescriptorsOwned'
    BY <1>1 DEF DescriptorsOwned
  <1>3. ASSUME UNCHANGED <<info, epoll>>, \A h \in Handles : Live(h) => info[h].ev # e
        PROVE  RecordInv'
    <2>1. \A h \in Handles : (Live(h)' <=> Live(h)) /\ (Allocated(h)' <=> Allocated(h))
      BY <1>3 DEF Live, Allocated
    <2>2. OneRecordPerEvent' /\ TimerQueueExact'
      BY <1>3, <2>1 DEF OneRecordPerEvent, TimerQueueExact
    <2>3. PendingOnce'
      BY <1>3, <2>1 DEF PendingOnce, Pending
    <2>4. EpollOwnership'
      <3>1. \A h \in Handles : Live(h) => info[h].ev \in Events
        BY DEF Live, Allocated, TypeOK, EventInfo
      <3> QED  BY <1>1, <1>3, <2>1, <3>1 DEF EpollOwnership
    <2> QED  BY <1>2, <2>2, <2>3, <2>4
  <1>4. CASE handle[e] = NoHandle \/ ~Live(handle[e])
    <2>1. UNCHANGED <<info, epoll>>
      BY <1>4 DEF NotifyIOStateChange
    <2>2. ASSUME NEW h \in Handles, Live(h)
          PROVE  info[h].ev # e
      BY <1>4, <2>2, HandleAssumption DEF OneRecordPerEvent
    <2> QED  BY <1>3, <2>1, <2>2
  <1>5. CASE ~(handle[e] = NoHandle \/ ~Live(handle[e]))
    <2>1. PICK h \in Handles : h = handle[e]
      BY <1>5 DEF TypeOK
    <2>2. Live(h) /\ info[h].ev = e /\ info[h] \in EventInfo
      BY <2>1, <1>5 DEF OneRecordPerEvent, TypeOK
    <2>3. PICK ok \in BOOLEAN :
            /\ info' = [info EXCEPT ![h] = UpdatedInfo(info[h], f, m, ok)]
            /\ epoll' = UpdatedInterest(h, info[h], f, m, ok)
      BY <1>5, <2>1 DEF NotifyIOStateChange, CtlResults
    <2>4. info[h].fdRegistered = NoFD \/ info[h].fdRegistered = f
      BY <2>2 DEF EpollOwnership
    <2>5. info[h].fdRegistered # NoFD => epoll[info[h].fdRegistered].handle = h
      BY <2>2 DEF EpollOwnership, EventInfo
    <2>6. /\ info'[h].ev = e
          /\ info'[h].flags = info[h].flags
          /\ info'[h].fdRegistered =
               IF info[h].fdRegistered = f \/ f = NoFD \/ ok THEN f ELSE NoFD
          /\ \A g \in Handles : g # h => info'[g] = info[g]
      BY <2>2, <2>3, UpdatedInfoFields DEF TypeOK
    <2>7. ASSUME NEW x \in FDs
          PROVE  epoll'[x].handle = IF x = f /\ ok THEN h ELSE epoll[x].handle
      BY <2>2, <2>3, <2>4, <2>5, UpdatedInterestOwners DEF TypeOK
    <2>8. \A g \in Handles : (Live(g)' <=> Live(g)) /\ (Allocated(g)' <=> Allocated(g))
      BY <2>2, <2>6 DEF Live, Allocated
    <2>9. \A g \in Handles : info'[g].ev = info[g].ev /\ info'[g].flags = info[g].flags
      BY <2>2, <2>6
    <2>10. OneRecordPerEvent' /\ TimerQueueExact'
      BY <2>8, <2>9 DEF OneRecordPerEvent, TimerQueueExact
    <2>11. PendingOnce'
      BY <2>8, <2>9 DEF PendingOnce, Pending
    <2>12. EpollOwnership'
      <3>1. ASSUME NEW g \in Handles, Live(g), g # h
            PROVE  info[g].ev \in Events /\ info[g].ev # e
        BY <2>2, <3>1 DEF OneRecordPerEvent, Live, Allocated, TypeOK, EventInfo
      <3>2. ASSUME NEW g \in Handles, Live(g), g # h, f # NoFD
            PROVE  info[g].fdRegistered # f
        BY <3>1, <3>2 DEF EpollOwnership
      <3>3. ASSUME NEW x \in FDs, NEW g \in Handles
            PROVE  epoll'[x].handle = g <=> Live(g)' /\ info'[g].fdRegistered = x
        <4>1. CASE g = h
          BY <2>2, <2>4, <2>6, <2>7, <2>8, <4>1, FDAssumption DEF EpollOwnership
        <4>2. CASE g # h
          BY <2>6, <2>7, <2>8, <3>2, <4>2, FDAssumption DEF EpollOwnership
        <4> QED  BY <4>1, <4>2
      <3>4. ASSUME NEW g \in Handles, Live(g)'
            PROVE  info'[g].fdRegistered \in {NoFD, fd'[info'[g].ev]}
        <4>1. CASE g = h
          BY <1>1, <2>6, <4>1
        <4>2. CASE g # h
          BY <1>1, <2>6, <2>8, <3>1, <3>4, <4>2 DEF EpollOwnership
        <4> QED  BY <4>1, <4>2
      <3> QED  BY <3>3, <3>4 DEF EpollOwnership
    <2> QED  BY <1>2, <2>10, <2>11, <2>12
  <1> QED  BY <1>4, <1>5

\* Closing the descriptor of a detached event, or one that is not open.
LEMMA CloseDescriptorKeeps ==
  ASSUME TypeOK, RecordInv, NEW e \in Events, handle[e] = NoHandle \/ fd[e] = NoFD,
         CloseDescriptor(e), UNCHANGED <<handle, info, qTimers, vecRMPending>>
  PROVE  RecordInv'
  <1> USE DEF RecordInv
  <1>1. fd'[e] = NoFD /\ \A o \in Events : o # e => fd'[o] = fd[o]
    BY DEF CloseDescriptor, TypeOK
  <1>2. \A f \in FDs : epoll'[f].handle = IF f = fd[e] THEN NoHandle ELSE epoll[f].handle
    BY UnregisteredOwners DEF CloseDescriptor, TypeOK
  <1>3. \A h \in Handles : (Live(h)' <=> Live(h)) /\ (Allocated(h)' <=> Allocated(h))
    BY DEF Live, Allocated
  <1>4. OneRecordPerEvent' /\ TimerQueueExact'
    BY <1>3 DEF OneRecordPerEvent, TimerQueueExact
  <1>5. PendingOnce'
    BY <1>3 DEF PendingOnce, Pending
  <1>6. ASSUME NEW h \in Handles, Live(h), fd[e] # NoFD
        PROVE  info[h].ev \in Events /\ info[h].ev # e /\ info[h].fdRegistered # fd[e]
    <2>1. info[h].ev \in Events
      BY <1>6 DEF Live, Allocated, TypeOK, EventInfo
    <2>2. info[h].ev # e
      BY <1>6, HandleAssumption DEF OneRecordPerEvent
    <2> QED  BY <1>6, <2>1, <2>2 DEF EpollOwnership, DescriptorsOwned
  <1>7. EpollOwnership'
    <2>1. ASSUME NEW f \in FDs, NEW h \in Handles
          PROVE  epoll'[f].handle = h <=> Live(h)' /\ info'[h].fdRegistered = f
      BY <1>2, <1>3, <1>6, HandleAssumption, FDAssumption DEF EpollOwnership
    <2>2. ASSUME NEW h \in Handles, Live(h)'
          PROVE  info'[h].fdRegistered \in {NoFD, fd'[info'[h].ev]}
      <3>1. CASE fd[e] = NoFD
        <4>1. fd' = fd
          BY <1>1, <3>1 DEF CloseDescriptor, TypeOK
        <4> QED  BY <1>3, <2>2, <4>1 DEF EpollOwnership
      <3>2. CASE fd[e] # NoFD
        BY <1>1, <1>3, <1>6, <2>2, <3>2 DEF EpollOwnership
      <3> QED  BY <3>1, <3>2
    <2> QED  BY <2>1, <2>2 DEF EpollOwnership
  <1>8. DescriptorsOwned'
    BY <1>1 DEF DescriptorsOwned
  <1> QED  BY <1>4, <1>5, <1>7, <1>8

-----------------------------------------------------------------------------
(* RecordInv is kept by every step *)

LEMMA ApiCallKeepsRecords ==
  ASSUME TypeOK, RecordInv, ApiCall
  PROVE  RecordInv'
  <1> USE DEF eventVars, memoryVars
  <1>1. ASSUME NEW e \in Events, Detach(e)
        PROVE  RecordInv'
    BY <1>1, RemoveEventKeeps DEF Detach
  <1>2. ASSUME NEW e \in Events, NEW f \in FDs, NEW m \in Masks, SetFD(e, f, m)
        PROVE  RecordInv'
    <2>1. /\ f \in FDs \cup {NoFD}
          /\ fd[e] = NoFD \/ fd[e] = f
          /\ \A o \in Events : o # e => fd[o] # f \/ f = NoFD
          /\ NotifyIOStateChange(e, f, m)
          /\ fd'[e] = f /\ \A o \in Events : o # e => fd'[o] = fd[o]
          /\ handle' = handle /\ qTimers' = qTimers /\ vecRMPending' = vecRMPending
      BY <1>2 DEF SetFD, TypeOK
    <2> QED  BY <2>1, NotifyKeeps
  <1>3. ASSUME NEW e \in Events, NEW m \in Masks, SetIOEventMask(e, m)
        PROVE  RecordInv'
    <2>1. fd[e] \in FDs \cup {NoFD}
      BY DEF TypeOK
    <2>2. \A o \in Events : o # e => fd[o] # fd[e] \/ fd[e] = NoFD
      BY DEF RecordInv, DescriptorsOwned
    <2>3. /\ NotifyIOStateChange(e, fd[e], m)
          /\ fd' = fd /\ handle' = handle /\ qTimers' = qTimers /\ vecRMPending' = vecRMPending
      BY <1>3 DEF SetIOEventMask
    <2> QED  BY <2>1, <2>2, <2>3, NotifyKeeps
  <1>4. ASSUME NEW e \in Events, CloseAttached(e)
        PROVE  RecordInv'
    BY <1>4, RemoveEventKeeps DEF CloseAttached
  <1>5. ASSUME NEW e \in Events, CloseDetached(e)
        PROVE  RecordInv'
    BY <1>5, CloseDescriptorKeeps DEF CloseDetached
  <1>6. CASE NextTick
    BY <1>6, SameRecords DEF NextTick
  <1>7. ASSUME NEW e \in Events, Attach(e) \/ CancelTimer(e)
        PROVE  RecordInv'
    BY <1>7, AttachKeeps, CancelTimerKeeps
  <1>8. ASSUME NEW e \in Events, NEW t \in Timeouts, NEW p \in BOOLEAN, SetTimer(e, t, p)
        PROVE  RecordInv'
    BY <1>8, SetTimerKeeps
  <1> QED  BY <1>1, <1>2, <1>3, <1>4, <1>5, <1>6, <1>7, <1>8 DEF ApiCall

LEMMA RunTimerKeepsRecords ==
  ASSUME TypeOK, RecordInv, NEW h \in Handles, RunTimer(h)
  PROVE  RecordInv'
  <1> USE DEF eventVars
  <1>1. "TIMER_SET" \in info[h].flags /\ Live(h) /\ info[h] \in EventInfo
    BY DEF RunTimer, IsTop, Queued, RecordInv, TimerQueueExact, TypeOK, TimerFlags
  <1>2. CASE "TIMER_PERIODIC" \in info[h].flags
    <2>1. /\ info' = [info EXCEPT ![h] = [info[h] EXCEPT !.due = info[h].interval]]
          /\ qTimers' = qTimers
      BY <1>2 DEF RunTimer
    <2>2. \A g \in Handles : /\ info'[g].ev = info[g].ev
                             /\ info'[g].flags = info[g].flags
                             /\ info'[g].fdRegistered = info[g].fdRegistered
      BY <1>1, <2>1 DEF TypeOK, EventInfo
    <2> QED  BY <2>1, <2>2, SameRecords DEF RunTimer
  <1>3. CASE "TIMER_PERIODIC" \notin info[h].flags
    <2>1. /\ info' = [info EXCEPT ![h] = TimerCleared(info[h])]
          /\ qTimers' = Removed(h)
      BY <1>3 DEF RunTimer
    <2>2. \A g \in Handles : g # h => info'[g] = info[g] /\ qTimers'[g] = qTimers[g]
      BY <2>1 DEF TypeOK, Removed
    <2>3. /\ info'[h].ev = info[h].ev
          /\ info'[h].fdRegistered = info[h].fdRegistered
          /\ info'[h].flags = info[h].flags \ TimerFlags
      BY <1>1, <2>1, TimerClearedFields DEF TypeOK
    <2>4. /\ info'[h].flags \cap TimerFlags = {}
          /\ "TIMER_SET" \notin info'[h].flags
          /\ "DETACHED" \notin info'[h].flags
      BY <1>1, <2>3 DEF Live, TimerFlags
    <2>5. qTimers'[h] = 0
      BY <1>1, <2>1 DEF RecordInv, TimerQueueExact, TypeOK, Removed
    <2> QED  BY <1>1, <2>2, <2>3, <2>4, <2>5, TimerStepKeeps DEF RunTimer
  <1> QED  BY <1>2, <1>3

LEMMA ErasePendingKeepsRecords ==
  ASSUME TypeOK, RecordInv, ErasePending
  PROVE  RecordInv'
  <1> USE DEF RecordInv, eventVars
  <1>1. \A h \in Handles :
          IF h \in Pending THEN info'[h] = FreeInfo ELSE info'[h] = info[h]
    BY DEF ErasePending
  <1>2. vecRMPending' = <<>> /\ UNCHANGED <<handle, fd, qTimers, epoll>>
    BY DEF ErasePending
  <1>3. FreeInfo.ev = NoEvent /\ FreeInfo.flags = {}
    BY DEF FreeInfo
  <1>4. ASSUME NEW h \in Handles
        PROVE  /\ Live(h)' <=> Live(h)
               /\ Live(h) => info'[h] = info[h]
               /\ info'[h].flags = IF h \in Pending THEN {} ELSE info[h].flags
    BY <1>1, <1>3 DEF PendingOnce, Live, Allocated
  <1>5. OneRecordPerEvent'
    BY <1>2, <1>4 DEF OneRecordPerEvent
  <1>6. TimerQueueExact'
    <2>1. ASSUME NEW h \in Handles, h \in Pending
          PROVE  "TIMER_SET" \notin info[h].flags
      BY <2>1 DEF TimerQueueExact, PendingOnce, Live, TimerFlags
    <2> QED  BY <1>2, <1>4, <2>1 DEF TimerQueueExact
  <1>7. PendingOnce'
    <2>1. Pending' = {}
      BY <1>2 DEF Pending
    <2>2. ASSUME NEW h \in Handles
          PROVE  ~(Allocated(h)' /\ "DETACHED" \in info'[h].flags)
      BY <1>1, <1>3 DEF PendingOnce, Allocated
    <2> QED  BY <1>2, <2>1, <2>2 DEF PendingOnce
  <1>8. EpollOwnership'
    BY <1>2, <1>4 DEF EpollOwnership
  <1>9. DescriptorsOwned'
    BY <1>2 DEF DescriptorsOwned
  <1> QED  BY <1>5, <1>6, <1>7, <1>8, <1>9

LEMMA NextKeepsRecords ==
  ASSUME TypeInv, RecordInv, Next
  PROVE  RecordInv'
  <1> USE DEF eventVars, memoryVars
  <1>1. TypeOK
    BY DEF TypeInv
  <1>2. ASSUME UNCHANGED <<handle, fd, info, qTimers, vecRMPending, epoll>>
        PROVE  RecordInv'
    BY <1>1, <1>2, SameRecords
  <1>3. ASSUME NEW d, info' = Advanced(d), UNCHANGED <<handle, fd, qTimers, vecRMPending, epoll>>
        PROVE  RecordInv'
    BY <1>1, <1>3, AdvancedFields, SameRecords DEF TypeOK
  <1>4. ASSUME NEW e \in Events, FinishClose(e)
        PROVE  RecordInv'
    <2>1. CASE fd[e] # NoFD /\ handle[e] # NoHandle
      BY <1>2, <1>4, <2>1 DEF FinishClose
    <2>2. CASE ~(fd[e] # NoFD /\ handle[e] # NoHandle)
      BY <1>1, <1>4, <2>2, CloseDescriptorKeeps DEF FinishClose
    <2> QED  BY <2>1, <2>2
  <1>5. CASE CallbackReturns
    <2>1. CASE CloseReturns
      BY <1>4, <2>1 DEF CloseReturns, TypeInv, TicksInPlace
    <2> QED  BY <1>2, <1>5, <2>1
             DEF CallbackReturns, MainReturns, TimerReturns, TickReturns, IOReturns
  <1>6. CASE LoopStep
    <2>1. ASSUME NEW d \in 0..MaxElapsed, TickBegins(d)
          PROVE  RecordInv'
      BY <1>3, <2>1 DEF TickBegins
    <2>2. ASSUME NEW h \in Handles, RunTimer(h)
          PROVE  RecordInv'
      BY <1>1, <2>2, RunTimerKeepsRecords
    <2>3. CASE CloseWithoutFD
      BY <1>4, <2>3 DEF CloseWithoutFD
    <2>4. CASE ErasePending
      BY <1>1, <2>4, ErasePendingKeepsRecords
    <2> QED  BY <1>2, <1>6, <2>1, <2>2, <2>3, <2>4
             DEF LoopStep, TimersDone, RunTick, TicksDrained, Dispatch, ReportDone, DispatchDone
  <1>7. ASSUME NEW d \in 0..MaxElapsed, Poll(d)
        PROVE  RecordInv'
    BY <1>3, <1>7 DEF Poll
  <1>8. CASE PollFails
    BY <1>2, <1>8 DEF PollFails
  <1> QED  BY <1>1, <1>5, <1>6, <1>7, <1>8, ApiCallKeepsRecords DEF Next

-----------------------------------------------------------------------------
(* ControlInv is kept by every step *)

\* No API call frees a record.
LEMMA ApiCallFreesNothing ==
  ASSUME TypeOK, RecordInv, ApiCall, NEW h \in Handles, Allocated(h)
  PROVE  Allocated(h)'
  <1> USE DEF eventVars, memoryVars
  <1>1. info[h] \in EventInfo /\ info[h].ev # NoEvent
    BY DEF TypeOK, Allocated
  <1>2. ASSUME NEW e \in Events, Attach(e)
        PROVE  info'[h].ev # NoEvent
    BY <1>1, <1>2 DEF Attach, Allocated, TypeOK
  <1>3. ASSUME NEW e \in Events, handle[e] # NoHandle, RemoveEvent(e)
        PROVE  info'[h].ev # NoEvent
    BY <1>1, <1>3, DetachedInfoFields DEF RemoveEvent, TypeOK
  <1>4. ASSUME NEW e \in Events, NEW t \in Timeouts, NEW p \in BOOLEAN, SetTimer(e, t, p)
        PROVE  info'[h].ev # NoEvent
    BY <1>1, <1>4, TimerSetFields DEF SetTimer, TypeOK
  <1>5. ASSUME NEW e \in Events, CancelTimer(e)
        PROVE  info'[h].ev # NoEvent
    BY <1>1, <1>5, TimerClearedFields DEF CancelTimer, TypeOK
  <1>6. ASSUME NEW e \in Events, NEW f, NEW m, NotifyIOStateChange(e, f, m)
        PROVE  info'[h].ev # NoEvent
    BY <1>1, <1>6, UpdatedInfoFields DEF NotifyIOStateChange, TypeOK
  <1>7. info'[h].ev # NoEvent
    BY <1>1, <1>2, <1>3, <1>4, <1>5, <1>6
       DEF ApiCall, Detach, SetFD, SetIOEventMask, CloseAttached, CloseDetached, NextTick
  <1> QED  BY <1>7 DEF Allocated

LEMMA NextKeepsControl ==
  ASSUME IInv, Next
  PROVE  ControlInv'
  <1> USE DEF eventVars, memoryVars, controlVars, UserCode
  <1>1. TypeOK /\ RecordInv /\ ControlInv
    BY DEF IInv, TypeInv
  <1>2. cur \in Handles \cup {NoHandle}
    BY <1>1 DEF TypeOK
  <1>3. CASE ApiCall
    <2>1. pc \in UserCode /\ UNCHANGED <<pc, cur, ready>>
      BY <1>3 DEF ApiCall
    <2>2. \A h \in Handles : Allocated(h) => Allocated(h)'
      BY <1>1, <1>3, ApiCallFreesNothing
    <2>3. \A h \in Handles : ready'[h] # {} => Allocated(h)'
      BY <1>1, <2>1, <2>2 DEF ControlInv
    <2>4. cur' # NoHandle => Allocated(cur)'
      BY <1>1, <1>2, <2>1, <2>2 DEF ControlInv, Allocated
    <2> QED  BY <1>1, <2>1, <2>3, <2>4 DEF ControlInv
  <1>4. ASSUME info' = info, UNCHANGED <<cur, ready, vecRMPending>>,
               pc \notin {"onTimer", "onIO", "dispatch"},
               pc' \notin {"onTimer", "onIO", "tick", "poll"}
        PROVE  ControlInv'
    BY <1>1, <1>4 DEF ControlInv, Allocated
  <1>5. ASSUME NEW d, info' = Advanced(d)
        PROVE  \A h \in Handles : Allocated(h)' <=> Allocated(h)
    BY <1>1, <1>5, AdvancedFields DEF TypeOK, Allocated
  <1>6. CASE CallbackReturns
    <2>1. CASE TimerReturns
      BY <1>1, <2>1 DEF TimerReturns, ControlInv, Allocated
    <2>2. CASE IOReturns
      BY <1>1, <2>2 DEF IOReturns, ControlInv, Allocated
    <2>3. CASE CloseReturns
      BY <1>4, <2>3 DEF CloseReturns, FinishClose
    <2> QED  BY <1>4, <1>6, <2>1, <2>2, <2>3 DEF CallbackReturns, MainReturns, TickReturns
  <1>7. CASE LoopStep
    <2>1. ASSUME NEW d \in 0..MaxElapsed, TickBegins(d)
          PROVE  ControlInv'
      BY <1>1, <2>1 DEF TickBegins, ControlInv
    <2>2. ASSUME NEW h \in Handles, RunTimer(h)
          PROVE  ControlInv'
      <3>1. Allocated(h) /\ info[h] \in EventInfo
        BY <1>1, <2>2 DEF RunTimer, IsTop, Queued, RecordInv, TimerQueueExact, Live,
                          TypeOK, TimerFlags
      <3>2. info'[h].ev = info[h].ev
        <4>1. CASE "TIMER_PERIODIC" \in info[h].flags
          <5>1. info' = [info EXCEPT ![h] = [info[h] EXCEPT !.due = info[h].interval]]
            BY <2>2, <4>1 DEF RunTimer
          <5> QED  BY <1>1, <3>1, <5>1 DEF TypeOK, EventInfo
        <4>2. CASE "TIMER_PERIODIC" \notin info[h].flags
          <5>1. info' = [info EXCEPT ![h] = TimerCleared(info[h])]
            BY <2>2, <4>2 DEF RunTimer
          <5> QED  BY <1>1, <3>1, <5>1, TimerClearedFields DEF TypeOK
        <4> QED  BY <4>1, <4>2
      <3> QED  BY <1>1, <2>2, <3>1, <3>2, HandleAssumption DEF RunTimer, ControlInv, Allocated
    <2>3. CASE TimersDone
      BY <1>4, <2>3 DEF TimersDone
    <2>4. CASE RunTick
      BY <1>4, <2>4 DEF RunTick
    <2>5. CASE CloseWithoutFD
      BY <1>4, <2>5 DEF CloseWithoutFD, FinishClose
    <2>6. CASE TicksDrained
      BY <1>4, <2>6 DEF TicksDrained
    <2>7. CASE ErasePending
      BY <1>1, <2>7 DEF ErasePending, ControlInv, TypeOK
    <2>8. ASSUME NEW h \in Handles, NEW bit \in IOEvents, Dispatch(h, bit)
          PROVE  ControlInv'
      <3>1. Allocated(h) /\ h # NoHandle
        BY <1>1, <2>8, HandleAssumption DEF Dispatch, ControlInv
      <3>2. \A g \in Handles : ready'[g] # {} => ready[g] # {}
        BY <1>1, <2>8 DEF Dispatch, TypeOK
      <3> QED  BY <1>1, <2>8, <3>1, <3>2 DEF Dispatch, ControlInv, Allocated
    <2>9. CASE ReportDone
      BY <1>1, <2>9 DEF ReportDone, ControlInv, Allocated
    <2>10. CASE DispatchDone
      BY <1>1, <2>10 DEF DispatchDone, ControlInv, Allocated
    <2> QED  BY <1>7, <2>1, <2>2, <2>3, <2>4, <2>5, <2>6, <2>7, <2>8, <2>9, <2>10 DEF LoopStep
  <1>8. ASSUME NEW d \in 0..MaxElapsed, Poll(d)
        PROVE  ControlInv'
    <2>1. PICK rep \in [FDs -> SUBSET IOEvents] :
            ready' = [h \in Handles |->
                        UNION {rep[f] : f \in {x \in FDs : epoll[x].handle = h}}]
      BY <1>8 DEF Poll
    <2>2. ASSUME NEW h \in Handles, ready'[h] # {}
          PROVE  Allocated(h)'
      <3>1. PICK f \in FDs : epoll[f].handle = h
        BY <2>1, <2>2
      <3>2. Allocated(h)
        BY <1>1, <3>1 DEF RecordInv, EpollOwnership, Live
      <3> QED  BY <1>5, <1>8, <3>2 DEF Poll
    <2> QED  BY <1>1, <1>8, <2>2 DEF Poll, ControlInv
  <1>9. CASE PollFails
    BY <1>4, <1>9 DEF PollFails
  <1> QED  BY <1>3, <1>6, <1>7, <1>8, <1>9 DEF Next

-----------------------------------------------------------------------------
(* The theorems *)

\* The inductive invariant: records, events, queues and kernel agree, and
\* the thread holds only records that are allocated.
THEOREM Invariance == Spec => []IInv
  <1>1. Init => RecordInv /\ ControlInv
    <2> SUFFICES ASSUME Init PROVE RecordInv /\ ControlInv
      OBVIOUS
    <2>1. \A h \in Handles : ~Allocated(h) /\ ~Live(h) /\ info[h].flags = {}
      BY DEF Init, Allocated, Live, FreeInfo
    <2>2. RecordInv
      BY <2>1, HandleAssumption DEF Init, RecordInv, OneRecordPerEvent, TimerQueueExact,
           PendingOnce, Pending, EpollOwnership, DescriptorsOwned, NotPolled
    <2>3. ControlInv
      BY DEF Init, ControlInv, NoReports
    <2> QED  BY <2>2, <2>3
  <1>2. TypeInv /\ RecordInv /\ ControlInv /\ [Next]_vars => RecordInv' /\ ControlInv'
    <2> SUFFICES ASSUME TypeInv, RecordInv, ControlInv, [Next]_vars
                 PROVE  RecordInv' /\ ControlInv'
      OBVIOUS
    <2>1. CASE UNCHANGED vars
      <3>1. RecordInv'
        BY <2>1, SameRecords DEF vars, TypeInv
      <3>2. ControlInv'
        BY <2>1 DEF vars, ControlInv, Allocated
      <3> QED  BY <3>1, <3>2
    <2>2. CASE Next
      BY <2>2, NextKeepsRecords, NextKeepsControl DEF IInv
    <2> QED  BY <2>1, <2>2
  <1> QED  BY <1>1, <1>2, TypeCorrect, PTL DEF Spec, IInv

\* Memory safety: no component ever holds the address of a freed record.
THEOREM MemorySafety == Spec => []NoDanglingHandles
  <1>1. IInv => NoDanglingHandles
    <2> SUFFICES ASSUME IInv PROVE NoDanglingHandles
      OBVIOUS
    <2>1. TypeOK /\ RecordInv /\ ControlInv
      BY DEF IInv, TypeInv
    <2>2. \A h \in Handles : Queued(h) \/ ready[h] # {} => Allocated(h)
      BY <2>1 DEF RecordInv, TimerQueueExact, ControlInv, Queued, Live, TimerFlags
    <2>3. \A h \in Pending : Allocated(h)
      BY <2>1 DEF RecordInv, PendingOnce
    <2>4. \A f \in FDs : epoll[f].handle # NoHandle => Allocated(epoll[f].handle)
      BY <2>1 DEF RecordInv, EpollOwnership, Live, TypeOK, Interest
    <2>5. \A e \in Events : handle[e] # NoHandle => Allocated(handle[e])
      BY <2>1 DEF RecordInv, OneRecordPerEvent, Live, TypeOK
    <2>6. cur # NoHandle => Allocated(cur)
      BY <2>1 DEF ControlInv
    <2> QED  BY <2>2, <2>3, <2>4, <2>5, <2>6 DEF NoDanglingHandles
  <1> QED  BY <1>1, Invariance, PTL

\* m_handle and the records that are not detached point at each other.
THEOREM RecordsMatchEvents == Spec => []OneRecordPerEvent
  <1>1. IInv => OneRecordPerEvent
    BY DEF IInv, RecordInv
  <1> QED  BY <1>1, Invariance, PTL

\* The timer heap holds each set timer once, and no detached event.
THEOREM TimerQueueCorrect == Spec => []TimerQueueExact
  <1>1. IInv => TimerQueueExact
    BY DEF IInv, RecordInv
  <1> QED  BY <1>1, Invariance, PTL

\* Each detached record is freed once: m_vecRMPending has no duplicate and
\* misses none.
THEOREM RemovalsCorrect == Spec => []PendingOnce
  <1>1. IInv => PendingOnce
    BY DEF IInv, RecordInv
  <1> QED  BY <1>1, Invariance, PTL

\* The kernel's interest list belongs to the events that own the descriptors.
THEOREM InterestCorrect == Spec => []EpollOwnership
  <1>1. IInv => EpollOwnership
    BY DEF IInv, RecordInv
  <1> QED  BY <1>1, Invariance, PTL

\* The loop never waits with work left over.
THEOREM WaitsWithNothingPending == Spec => []NothingPendingAtPoll
  <1>1. IInv => NothingPendingAtPoll
    BY DEF IInv, TypeInv, TicksInPlace, ControlInv, NothingPendingAtPoll
  <1> QED  BY <1>1, Invariance, PTL

\* No callback reaches an event after it was detached.
THEOREM NoCallbackAfterDetach == Spec => CallbacksOnlyWhenAttached
  <1> DEFINE CallbackStep ==
        pc' \in {"onTimer", "onIO"} /\ pc' # pc =>
          LET e == info[cur'].ev IN e # NoEvent /\ handle[e] = cur'
  <1>1. IInv /\ [Next]_vars => [CallbackStep]_vars
    <2> SUFFICES ASSUME IInv, Next, pc' \in {"onTimer", "onIO"}, pc' # pc
                 PROVE  info[cur'].ev # NoEvent /\ handle[info[cur'].ev] = cur'
      BY DEF vars
    <2> USE DEF eventVars, memoryVars, controlVars
    <2>1. TypeOK /\ RecordInv /\ ControlInv
      BY DEF IInv, TypeInv
    <2>2. ASSUME NEW h \in Handles, Live(h)
          PROVE  info[h].ev # NoEvent /\ handle[info[h].ev] = h
      BY <2>1, <2>2 DEF RecordInv, OneRecordPerEvent, Live, Allocated, TypeOK, EventInfo
    <2>3. PICK h \in Handles : RunTimer(h) \/ \E bit \in IOEvents : Dispatch(h, bit)
      <3>1. ~ApiCall
        BY DEF ApiCall
      <3>2. ~CallbackReturns
        BY DEF CallbackReturns, MainReturns, TimerReturns, TickReturns, CloseReturns,
               FinishClose, IOReturns
      <3>3. ~PollFails /\ \A d \in 0..MaxElapsed : ~Poll(d)
        BY DEF PollFails, Poll
      <3>4. LoopStep
        BY <3>1, <3>2, <3>3 DEF Next
      <3>5. ~TimersDone /\ ~RunTick /\ ~CloseWithoutFD /\ ~TicksDrained /\ ~ReportDone
            /\ ~DispatchDone /\ \A d \in 0..MaxElapsed : ~TickBegins(d)
        BY DEF TimersDone, RunTick, CloseWithoutFD, FinishClose, TicksDrained, ReportDone,
               DispatchDone, TickBegins
      <3>6. ~ErasePending
        BY <2>1 DEF ErasePending, TypeOK
      <3> QED  BY <3>4, <3>5, <3>6 DEF LoopStep
    <2>4. CASE RunTimer(h)
      <3>1. Live(h)
        BY <2>1, <2>4 DEF RunTimer, IsTop, Queued, RecordInv, TimerQueueExact, TypeOK,
                          TimerFlags
      <3> QED  BY <2>2, <2>4, <3>1 DEF RunTimer
    <2>5. ASSUME NEW bit \in IOEvents, Dispatch(h, bit)
          PROVE  info[cur'].ev # NoEvent /\ handle[info[cur'].ev] = cur'
      <3>1. Live(h)
        BY <2>1, <2>5 DEF Dispatch, ControlInv, Live
      <3> QED  BY <2>2, <2>5, <3>1 DEF Dispatch
    <2> QED  BY <2>3, <2>4, <2>5
  <1> QED  BY <1>1, Invariance, PTL DEF Spec, CallbacksOnlyWhenAttached

-----------------------------------------------------------------------------
(* Timers *)

\* Between the end of phase 1 and the wait.
BeforeWait ==
  \/ pc = "poll"
  \/ pc \in {"drain", "onTick", "onClose", "erase"} /\ after = "poll"

InTimers == pc \in {"timers", "onTimer"}

\* No timer is due when phase 1 ends, and what is set after it is not in the
\* past; the time waited counts from the wait to the next reading of the
\* clock. No timer has more than its interval left.
TimeInv ==
  /\ TimersNotLate
  /\ BeforeWait \/ InTimers => slept = 0 /\ restarts = 0
  /\ BeforeWait => \A h \in Handles : Queued(h) => info[h].due >= 0
  /\ \A h \in Handles : Queued(h) => info[h].due <= info[h].interval

LEMMA UpdatedInfoTimer ==
  ASSUME NEW r \in EventInfo, NEW f, NEW m, NEW ok
  PROVE  /\ UpdatedInfo(r, f, m, ok).due = r.due
         /\ UpdatedInfo(r, f, m, ok).interval = r.interval
  BY DEF UpdatedInfo, EventInfo

\* A timer that is in the heap after an API call was there before, or has
\* just been set.
LEMMA ApiTimers ==
  ASSUME TypeOK, RecordInv, ApiCall, NEW h \in Handles, Queued(h)'
  PROVE  \/ /\ Queued(h)
            /\ info'[h].due = info[h].due /\ info'[h].interval = info[h].interval
         \/ info'[h].due = info'[h].interval
  <1> DEFINE Same == /\ Queued(h)
                     /\ info'[h].due = info[h].due
                     /\ info'[h].interval = info[h].interval
  <1> USE DEF eventVars, memoryVars
  <1>1. /\ info[h] \in EventInfo /\ qTimers[h] \in Nat /\ qTimers'[h] > 0
        /\ qTimers[h] = IF "TIMER_SET" \in info[h].flags THEN 1 ELSE 0
        /\ qTimers[h] > 0 => Allocated(h)
    BY DEF TypeOK, RecordInv, TimerQueueExact, Queued, Live, TimerFlags
  <1>2. ASSUME UNCHANGED <<info, qTimers>>
        PROVE  Same
    BY <1>2 DEF Queued
  <1>3. ASSUME NEW e \in Events, Attach(e)
        PROVE  Same
    <2>1. qTimers' = qTimers
      BY <1>3 DEF Attach
    <2>2. PICK g \in Handles :
            /\ ~Allocated(g)
            /\ info' = [info EXCEPT ![g] = UpdatedInfo(NewInfo(e), fd[e], mask[e], TRUE)]
      BY <1>3 DEF Attach
    <2>3. g # h
      BY <1>1, <2>1, <2>2
    <2>4. info'[h] = info[h]
      BY <2>2, <2>3 DEF TypeOK
    <2> QED  BY <1>1, <2>1, <2>4 DEF Queued
  <1>4. ASSUME NEW e \in Events, handle[e] # NoHandle, RemoveEvent(e)
        PROVE  Same
    <2>1. PICK g \in Handles : g = handle[e]
      BY <1>4 DEF TypeOK
    <2>2. /\ qTimers' = IF "TIMER_SET" \in info[g].flags THEN Removed(g) ELSE qTimers
          /\ info' = [info EXCEPT ![g] = DetachedInfo(info[g])]
      BY <1>4, <2>1 DEF RemoveEvent
    <2>3. g # h
      BY <1>1, <2>2 DEF Removed, TypeOK
    <2>4. info'[h] = info[h] /\ qTimers'[h] = qTimers[h]
      BY <2>2, <2>3 DEF Removed, TypeOK
    <2> QED  BY <1>1, <2>4 DEF Queued
  <1>5. ASSUME NEW e \in Events, NEW t \in Timeouts, NEW p \in BOOLEAN, SetTimer(e, t, p)
        PROVE  Same \/ info'[h].due = info'[h].interval
    <2>1. PICK g \in Handles : g = handle[e]
      BY <1>5 DEF SetTimer, TypeOK
    <2>2. /\ info' = [info EXCEPT ![g] = TimerSet(info[g], t, p)]
          /\ qTimers' = [qTimers EXCEPT ![g] = @ + 1]
      BY <1>5, <2>1 DEF SetTimer
    <2>3. CASE g = h
      BY <1>1, <2>2, <2>3 DEF TimerSet, EventInfo, TypeOK
    <2>4. CASE g # h
      <3>1. info'[h] = info[h] /\ qTimers'[h] = qTimers[h]
        BY <2>2, <2>4 DEF TypeOK
      <3> QED  BY <1>1, <3>1 DEF Queued
    <2> QED  BY <2>3, <2>4
  <1>6. ASSUME NEW e \in Events, CancelTimer(e)
        PROVE  Same
    <2>1. PICK g \in Handles : g = handle[e]
      BY <1>6 DEF CancelTimer, TypeOK
    <2>2. /\ info' = [info EXCEPT ![g] = TimerCleared(info[g])]
          /\ qTimers' = Removed(g)
      BY <1>6, <2>1 DEF CancelTimer
    <2>3. g # h
      BY <1>1, <2>2 DEF Removed, TypeOK
    <2>4. info'[h] = info[h] /\ qTimers'[h] = qTimers[h]
      BY <2>2, <2>3 DEF Removed, TypeOK
    <2> QED  BY <1>1, <2>4 DEF Queued
  <1>7. ASSUME NEW e \in Events, NEW f, NEW m, NotifyIOStateChange(e, f, m),
               qTimers' = qTimers
        PROVE  Same
    <2>1. CASE info' = info
      BY <1>1, <1>7, <2>1 DEF Queued
    <2>2. CASE info' # info
      <3>1. PICK g \in Handles : \E ok :
              info' = [info EXCEPT ![g] = UpdatedInfo(info[g], f, m, ok)]
        BY <1>7, <2>2 DEF NotifyIOStateChange, TypeOK
      <3>2. info'[h].due = info[h].due /\ info'[h].interval = info[h].interval
        BY <1>1, <3>1, UpdatedInfoTimer DEF TypeOK
      <3> QED  BY <1>1, <1>7, <3>2 DEF Queued
    <2> QED  BY <2>1, <2>2
  <1> QED  BY <1>2, <1>3, <1>4, <1>5, <1>6, <1>7
              DEF ApiCall, Detach, SetFD, SetIOEventMask, CloseAttached,
                  CloseDetached, NextTick

\* A step that neither reads the clock nor waits.
LEMMA TimersStay ==
  ASSUME TypeOK, TypeOK', TimeInv, slept' = slept, restarts' = restarts,
         BeforeWait' => BeforeWait, InTimers' <=> InTimers,
         \A h \in Handles :
           Queued(h)' =>
             \/ /\ Queued(h)
                /\ info'[h].due = info[h].due /\ info'[h].interval = info[h].interval
             \/ info'[h].due = info'[h].interval
  PROVE  TimeInv'
  <1>1. \A h \in Handles : info'[h].due \in Int /\ info'[h].interval \in Nat
    BY DEF TypeOK, EventInfo
  <1>2. TimersNotLate'
    BY <1>1 DEF TimeInv, TimersNotLate, InTimers
  <1>3. BeforeWait' => \A h \in Handles : Queued(h)' => info'[h].due >= 0
    BY <1>1 DEF TimeInv
  <1>4. \A h \in Handles : Queued(h)' => info'[h].due <= info'[h].interval
    BY <1>1 DEF TimeInv
  <1> QED  BY <1>2, <1>3, <1>4 DEF TimeInv

\* What a wait that starts over n times costs beyond one that does not.
LEMMA RestartsCost ==
  ASSUME NEW n \in Nat, NEW t \in Nat, NEW i \in Nat, t <= i
  PROVE  n * t <= n * i
  <1>1. i = t + (i - t) /\ i - t \in Nat
    OBVIOUS
  <1>2. n * (t + (i - t)) = n * t + n * (i - t)
    OBVIOUS
  <1>3. n * t \in Nat /\ n * (i - t) \in Nat
    OBVIOUS
  <1>4. n * i = n * t + n * (i - t)
    BY <1>1, <1>2
  <1> QED  BY <1>3, <1>4

LEMMA PollKeepsTime ==
  ASSUME TypeOK, TimeInv, NEW d \in 0..MaxElapsed, Poll(d)
  PROVE  TimeInv'
  <1>1. /\ pc = "poll" /\ pc' = "dispatch" /\ info' = Advanced(d)
        /\ qTimers' = qTimers
    BY DEF Poll, memoryVars
  <1>2. \A h \in Handles :
          Queued(h) => /\ info[h].due \in Int /\ info[h].interval \in Nat
                       /\ info[h].due >= 0 /\ info[h].due <= info[h].interval
    BY <1>1 DEF TimeInv, BeforeWait, TypeOK, EventInfo
  <1>3. \A h \in Handles : Queued(h) =>
          info'[h].due = info[h].due - d /\ info'[h].interval = info[h].interval
    BY <1>1 DEF Advanced, TypeOK, EventInfo
  <1>4. d \in Nat /\ d <= MaxElapsed /\ MaxElapsed \in Nat /\ IntMax \in Nat
    BY TimeAssumption
  <1>5. PICK timeout \in PollTimeouts(Advanced(d)) :
          /\ restarts' \in Restarts(timeout)
          /\ \/ slept' \in timeout..LongestWait(timeout, restarts')
             \/ slept' \in 0..LongestWait(timeout, restarts')
    BY DEF Poll
  <1>6. ASSUME NEW h \in Handles, Queued(h)
        PROVE  info'[h].due - slept' >= -MaxElapsed - restarts' * info'[h].interval
    <2>1. PICK g \in Handles : IsTop(g) /\ timeout = Clamped(info'[g].due)
      BY <1>1, <1>5, <1>6 DEF PollTimeouts
    <2>2. /\ info'[g].due = info[g].due - d /\ info[g].due \in Int
          /\ info[g].due >= 0 /\ info[g].due <= info[h].due
      BY <1>2, <1>3, <1>6, <2>1 DEF IsTop
    <2>3. /\ info'[h].due = info[h].due - d /\ info[h].due \in Int
          /\ info'[h].interval \in Nat /\ info[h].due <= info'[h].interval
      BY <1>2, <1>3, <1>6
    <2>4. timeout \in Nat /\ (timeout = 0 \/ timeout <= info[g].due - d)
      BY <1>4, <2>1, <2>2 DEF Clamped
    <2>5. restarts' \in Nat
      BY <1>5, TimeAssumption DEF Restarts
    <2>6. timeout <= info'[h].interval
      BY <1>4, <2>2, <2>3, <2>4
    <2>7. restarts' * timeout <= restarts' * info'[h].interval
      BY <2>3, <2>4, <2>5, <2>6, RestartsCost
    <2>8. slept' \in Nat /\ slept' <= timeout + restarts' * timeout
      <3>1. LongestWait(timeout, restarts') = timeout + restarts' * timeout
        BY <2>4 DEF LongestWait
      <3> QED  BY <1>5, <2>4, <3>1
    <2>9. info'[h].due - timeout >= -MaxElapsed
      BY <1>4, <2>2, <2>3, <2>4
    <2>10. restarts' * timeout \in Nat /\ restarts' * info'[h].interval \in Nat
      BY <2>3, <2>4, <2>5
    <2>11. info'[h].due \in Int
      BY <1>4, <2>3
    <2> DEFINE cost == restarts' * timeout
               allowed == restarts' * info'[h].interval
    <2> HIDE DEF cost, allowed
    <2>12. cost \in Nat /\ allowed \in Nat /\ cost <= allowed /\ slept' <= timeout + cost
      BY <2>7, <2>8, <2>10 DEF cost, allowed
    <2>13. info'[h].due - slept' >= -MaxElapsed - allowed
      BY <1>4, <2>4, <2>8, <2>9, <2>11, <2>12
    <2> QED  BY <2>13 DEF allowed
  <1>7. TimersNotLate'
    BY <1>1, <1>6 DEF TimersNotLate, Queued
  <1>8. \A h \in Handles : Queued(h)' => info'[h].due <= info'[h].interval
    BY <1>1, <1>2, <1>3, <1>4 DEF Queued
  <1> QED  BY <1>1, <1>7, <1>8 DEF TimeInv, BeforeWait, InTimers

LEMMA NextKeepsTime ==
  ASSUME IInv, TypeOK', TimeInv, Next
  PROVE  TimeInv'
  <1> USE DEF eventVars, memoryVars, controlVars, BeforeWait, InTimers
  <1>1. TypeOK /\ RecordInv
    BY DEF IInv, TypeInv
  <1>2. ASSUME UNCHANGED <<info, qTimers, slept, restarts>>,
               BeforeWait' => BeforeWait, InTimers' <=> InTimers
        PROVE  TimeInv'
    BY <1>1, <1>2, TimersStay DEF Queued
  <1>3. CASE ApiCall
    <2>1. UNCHANGED <<pc, after, slept, restarts>>
      BY <1>3 DEF ApiCall
    <2> QED  BY <1>1, <1>3, <2>1, ApiTimers, TimersStay
  <1>4. CASE CallbackReturns
    BY <1>2, <1>4 DEF CallbackReturns, MainReturns, TimerReturns, TickReturns,
                      CloseReturns, FinishClose, IOReturns
  <1>5. ASSUME NEW d \in 0..MaxElapsed, TickBegins(d)
        PROVE  TimeInv'
    <2>1. /\ pc = "tick" /\ pc' = "timers" /\ slept' = 0 /\ restarts' = 0
          /\ info' = Advanced(slept + d) /\ qTimers' = qTimers
      BY <1>5 DEF TickBegins
    <2>2. slept + d \in Nat
      BY <1>1, <1>5, TimeAssumption DEF TypeOK
    <2>3. ASSUME NEW h \in Handles, Queued(h)'
          PROVE  info'[h].due <= info'[h].interval
      <3>1. info[h].due \in Int /\ info[h].interval \in Nat /\ Queued(h)
            /\ info[h].due <= info[h].interval
        BY <1>1, <2>1, <2>3 DEF TypeOK, EventInfo, TimeInv, Queued
      <3>2. info'[h].due = info[h].due - (slept + d) /\ info'[h].interval = info[h].interval
        BY <1>1, <2>1, <3>1 DEF Advanced, TypeOK, EventInfo
      <3> QED  BY <2>2, <3>1, <3>2
    <2> QED  BY <2>1, <2>3 DEF TimeInv, TimersNotLate
  <1>6. ASSUME NEW h \in Handles, RunTimer(h)
        PROVE  TimeInv'
    <2>1. /\ pc = "timers" /\ pc' = "onTimer" /\ UNCHANGED <<slept, restarts>>
      BY <1>6 DEF RunTimer
    <2>2. ASSUME NEW g \in Handles, Queued(g)'
          PROVE  info'[g].due <= info'[g].interval
      <3>1. /\ info[g] \in EventInfo /\ qTimers[g] \in Nat /\ info[h] \in EventInfo
            /\ qTimers[h] = IF "TIMER_SET" \in info[h].flags THEN 1 ELSE 0
        BY <1>1 DEF TypeOK, RecordInv, TimerQueueExact
      <3>2. CASE "TIMER_PERIODIC" \in info[h].flags
        <4>1. /\ info' = [info EXCEPT ![h].due = info[h].interval]
              /\ qTimers' = qTimers
          BY <1>6, <3>2 DEF RunTimer
        <4>2. CASE g = h
          BY <1>1, <3>1, <4>1, <4>2 DEF EventInfo, TypeOK
        <4>3. CASE g # h
          BY <1>1, <2>2, <4>1, <4>3 DEF TimeInv, TypeOK, Queued
        <4> QED  BY <4>2, <4>3
      <3>3. CASE "TIMER_PERIODIC" \notin info[h].flags
        <4>1. /\ info' = [info EXCEPT ![h] = TimerCleared(@)]
              /\ qTimers' = Removed(h)
          BY <1>6, <3>3 DEF RunTimer
        <4>2. g # h
          BY <1>1, <2>2, <3>1, <4>1 DEF Removed, Queued, TypeOK
        <4> QED  BY <1>1, <2>2, <4>1, <4>2 DEF TimeInv, TypeOK, Queued, Removed
      <3> QED  BY <3>2, <3>3
    <2> QED  BY <2>1, <2>2 DEF TimeInv, TimersNotLate
  <1>7. CASE TimersDone
    <2>1. /\ pc = "timers" /\ pc' = "drain"
          /\ UNCHANGED <<info, qTimers, slept, restarts>>
          /\ \A h \in Handles : Queued(h) => info[h].due > 0
      BY <1>7 DEF TimersDone
    <2>2. slept' = 0 /\ restarts' = 0
      BY <2>1 DEF TimeInv
    <2>3. \A h \in Handles : info[h].due \in Int /\ info[h].interval \in Nat
      BY <1>1 DEF TypeOK, EventInfo
    <2>4. \A h \in Handles :
            Queued(h)' => /\ info'[h].due >= 0 /\ info'[h].due \in Int
                          /\ info'[h].interval \in Nat
                          /\ info'[h].due <= info'[h].interval
      BY <2>1, <2>3 DEF Queued, TimeInv
    <2>5. TimersNotLate'
      BY <2>2, <2>4, TimeAssumption DEF TimersNotLate
    <2> QED  BY <2>2, <2>4, <2>5 DEF TimeInv
  <1>8. CASE RunTick \/ CloseWithoutFD \/ TicksDrained \/ ReportDone \/ DispatchDone
    BY <1>2, <1>8 DEF RunTick, CloseWithoutFD, FinishClose, TicksDrained,
                      ReportDone, DispatchDone
  <1>9. CASE ErasePending
    <2>1. /\ pc = "erase" /\ UNCHANGED <<slept, restarts, qTimers>>
          /\ pc' \in {after, "done", "tick"}
          /\ \A h \in Handles : h \notin Pending => info'[h] = info[h]
      BY <1>9 DEF ErasePending
    <2>2. ASSUME NEW h \in Handles, Queued(h)'
          PROVE  Queued(h) /\ info'[h] = info[h]
      <3>1. Queued(h)
        BY <2>1, <2>2 DEF Queued
      <3>2. h \notin Pending
        BY <1>1, <3>1 DEF Queued, RecordInv, TimerQueueExact, PendingOnce, Live, TimerFlags
      <3> QED  BY <2>1, <3>1, <3>2
    <2>3. after \in {"tick", "poll", "loop"}
      BY <1>1 DEF TypeOK
    <2>4. (BeforeWait' => BeforeWait) /\ (InTimers' <=> InTimers)
      BY <1>9, <2>1, <2>3
    <2> QED  BY <1>1, <2>1, <2>2, <2>4, TimersStay
  <1>10. ASSUME NEW h \in Handles, NEW bit \in IOEvents, Dispatch(h, bit)
         PROVE  TimeInv'
    BY <1>2, <1>10 DEF Dispatch
  <1>11. ASSUME NEW d \in 0..MaxElapsed, Poll(d)
         PROVE  TimeInv'
    BY <1>1, <1>11, PollKeepsTime
  <1>12. CASE PollFails
    BY <1>2, <1>12 DEF PollFails
  <1> QED  BY <1>3, <1>4, <1>5, <1>6, <1>7, <1>8, <1>9, <1>10, <1>11, <1>12
              DEF Next, LoopStep

\* EventLoop::_tick with IOMux_epoll::Poll: a timer in m_qTimers is late by no
\* more than the running time and once its interval for every signal that
\* makes the wait start over, whatever was set, cancelled or detached before.
THEOREM NoTimerIsLate == Spec => []TimersNotLate
  <1>1. Init => TimeInv
    BY DEF Init, TimeInv, TimersNotLate, BeforeWait, InTimers, Queued
  <1>2. IInv /\ IInv' /\ TimeInv /\ [Next]_vars => TimeInv'
    <2> SUFFICES ASSUME IInv, IInv', TimeInv, [Next]_vars PROVE TimeInv'
      OBVIOUS
    <2>1. CASE Next
      BY <2>1, NextKeepsTime DEF IInv, TypeInv
    <2>2. CASE UNCHANGED vars
      BY <2>2 DEF vars, TimeInv, TimersNotLate, BeforeWait, InTimers, Queued
    <2> QED  BY <2>1, <2>2
  <1>3. TimeInv => TimersNotLate
    BY DEF TimeInv
  <1> QED  BY <1>1, <1>2, <1>3, Invariance, PTL DEF Spec

-----------------------------------------------------------------------------
(* The interest list *)

\* What the record of h says of the mask it is polled for.
Polled(h) ==
  Live(h) /\ info[h].fdRegistered # NoFD =>
    LET m == mask[info[h].ev]
    IN  \/ epoll[info[h].fdRegistered].mask = m
        \/ info[h].nIOEventMask = m

InterestInv == \A h \in Handles : Polled(h)

\* A record that is live after the step was live before it and is polled as
\* before for a mask that has not changed.
LEMMA PolledStays ==
  ASSUME TypeOK, RecordInv, NEW h \in Handles, Polled(h),
         Live(h)' /\ info'[h].fdRegistered # NoFD =>
           /\ Live(h) /\ info'[h].ev = info[h].ev
           /\ info'[h].fdRegistered = info[h].fdRegistered
           /\ info'[h].nIOEventMask = info[h].nIOEventMask
           /\ epoll'[info[h].fdRegistered] = epoll[info[h].fdRegistered]
           /\ mask'[info[h].ev] = mask[info[h].ev]
  PROVE  Polled(h)'
  BY DEF Polled

\* A live record is that of an attached event, and its descriptor is its own.
LEMMA OwnDescriptor ==
  ASSUME TypeOK, RecordInv, NEW h \in Handles, Live(h)
  PROVE  /\ info[h].ev \in Events /\ handle[info[h].ev] = h
         /\ info[h].fdRegistered # NoFD =>
              /\ info[h].fdRegistered = fd[info[h].ev]
              /\ info[h].fdRegistered \in FDs
              /\ epoll[info[h].fdRegistered].handle = h
  BY DEF TypeOK, EventInfo, RecordInv, OneRecordPerEvent, EpollOwnership, Live, Allocated

LEMMA NotifyPolls ==
  ASSUME ~EpollMayFail, TypeOK, RecordInv, InterestInv,
         NEW e \in Events, NEW f \in FDs \cup {NoFD}, NEW m \in SUBSET Maskable,
         NotifyIOStateChange(e, f, m),
         mask' = [mask EXCEPT ![e] = m],
         f = fd[e] \/ (fd[e] = NoFD /\ \A o \in Events : fd[o] # f)
  PROVE  InterestInv'
  <1> SUFFICES ASSUME NEW g \in Handles PROVE Polled(g)'
    BY DEF InterestInv
  <1>1. Polled(g)
    BY DEF InterestInv
  <1>2. CASE handle[e] = NoHandle \/ ~Live(handle[e])
    <2>1. UNCHANGED <<info, epoll>>
      BY <1>2 DEF NotifyIOStateChange
    <2>2. ASSUME Live(g)
          PROVE  info[g].ev # e
      BY <1>2, <2>2, OwnDescriptor, HandleAssumption
    <2>3. \A o \in Events : o # e => mask'[o] = mask[o]
      BY DEF TypeOK
    <2> QED  BY <1>1, <2>1, <2>2, <2>3, OwnDescriptor, PolledStays DEF Live, Allocated
  <1>3. CASE handle[e] # NoHandle /\ Live(handle[e])
    <2>1. PICK h \in Handles : h = handle[e] /\ Live(h)
      BY <1>3 DEF TypeOK
    <2>2. PICK ok \in CtlResults(info[h], f) :
            /\ info' = [info EXCEPT ![h] = UpdatedInfo(info[h], f, m, ok)]
            /\ epoll' = UpdatedInterest(h, info[h], f, m, ok)
      BY <1>3, <2>1 DEF NotifyIOStateChange
    <2>3. /\ info[h] \in EventInfo /\ info[h].ev = e
          /\ info[h].fdRegistered \in {NoFD, fd[e]}
          /\ info[h].fdRegistered # NoFD => epoll[info[h].fdRegistered].handle = h
      BY <2>1, OwnDescriptor DEF TypeOK, RecordInv, OneRecordPerEvent, EpollOwnership
    <2>4. info[h].fdRegistered = NoFD \/ info[h].fdRegistered = f
      BY <2>3
    <2>5. CASE g = h
      <3>1. /\ info'[h] = UpdatedInfo(info[h], f, m, ok)
            /\ info'[h].ev = e /\ mask'[e] = m
            /\ info'[h].fdRegistered =
                 IF info[h].fdRegistered = f \/ f = NoFD \/ ok THEN f ELSE NoFD
        BY <2>2, <2>3, UpdatedInfoFields DEF TypeOK
      <3>2. SUFFICES ASSUME f # NoFD, info[h].fdRegistered = f \/ ok
                     PROVE  \/ epoll'[f].mask = m
                            \/ info'[h].nIOEventMask = m
        BY <2>5, <3>1 DEF Polled
      <3>3. ok = TRUE
        BY <2>2, <2>3, <3>2, FDAssumption, HandleAssumption DEF CtlResults
      <3>4. CASE info[h].fdRegistered = f
        <4>1. CASE info[h].nIOEventMask = m
          BY <3>1, <3>4, <4>1 DEF UpdatedInfo
        <4>2. CASE info[h].nIOEventMask # m
          <5>1. epoll' = [epoll EXCEPT ![f] = [handle |-> h, mask |-> m]]
            BY <2>2, <3>2, <3>3, <3>4, <4>2 DEF UpdatedInterest
          <5> QED  BY <3>2, <5>1 DEF TypeOK
        <4> QED  BY <4>1, <4>2
      <3>5. CASE info[h].fdRegistered # f
        <4>1. UpdatedInfo(info[h], f, m, ok).nIOEventMask = m
          BY <2>3, <3>3, <3>5 DEF UpdatedInfo, EventInfo
        <4> QED  BY <3>1, <4>1
      <3> QED  BY <3>4, <3>5
    <2>6. CASE g # h
      <3>1. info'[g] = info[g]
        BY <2>2, <2>6 DEF TypeOK
      <3>2. ASSUME Live(g), info[g].fdRegistered # NoFD
            PROVE  /\ epoll'[info[g].fdRegistered] = epoll[info[g].fdRegistered]
                   /\ mask'[info[g].ev] = mask[info[g].ev]
        <4>1. /\ info[g].ev \in Events /\ info[g].ev # e
              /\ info[g].fdRegistered = fd[info[g].ev] /\ info[g].fdRegistered \in FDs
          BY <2>1, <2>6, <3>2, OwnDescriptor
        <4>2. info[g].fdRegistered # f
          BY <4>1, <3>2 DEF RecordInv, DescriptorsOwned
        <4>3. info[g].fdRegistered # info[h].fdRegistered
          BY <2>4, <3>2, <4>2
        <4>4. epoll'[info[g].fdRegistered] = epoll[info[g].fdRegistered]
          BY <2>2, <4>1, <4>2, <4>3 DEF UpdatedInterest, Unregistered, TypeOK
        <4> QED  BY <4>1, <4>4 DEF TypeOK
      <3> QED  BY <1>1, <3>1, <3>2, PolledStays DEF Live, Allocated
    <2> QED  BY <2>5, <2>6
  <1> QED  BY <1>2, <1>3

\* Closing the descriptor of a detached event touches no live record.
LEMMA ClosePolls ==
  ASSUME TypeOK, RecordInv, InterestInv, NEW e \in Events, CloseDescriptor(e),
         handle[e] = NoHandle \/ fd[e] = NoFD, info' = info
  PROVE  InterestInv'
  <1> SUFFICES ASSUME NEW g \in Handles PROVE Polled(g)'
    BY DEF InterestInv
  <1>1. Polled(g)
    BY DEF InterestInv
  <1>2. epoll' = Unregistered(fd[e]) /\ mask' = [mask EXCEPT ![e] = {}]
    BY DEF CloseDescriptor
  <1>3. ASSUME Live(g), info[g].fdRegistered # NoFD
        PROVE  /\ epoll'[info[g].fdRegistered] = epoll[info[g].fdRegistered]
               /\ mask'[info[g].ev] = mask[info[g].ev]
    <2>1. /\ info[g].ev \in Events /\ handle[info[g].ev] = g
          /\ info[g].fdRegistered = fd[info[g].ev] /\ info[g].fdRegistered \in FDs
      BY <1>3, OwnDescriptor
    <2>2. info[g].ev # e
      BY <1>3, <2>1, HandleAssumption
    <2>3. fd[e] # info[g].fdRegistered
      BY <1>3, <2>1, <2>2 DEF RecordInv, DescriptorsOwned
    <2> QED  BY <1>2, <2>1, <2>2, <2>3 DEF Unregistered, TypeOK
  <1> QED  BY <1>1, <1>3, PolledStays DEF Live, Allocated

LEMMA ApiPolls ==
  ASSUME ~EpollMayFail, TypeOK, RecordInv, InterestInv, ApiCall
  PROVE  InterestInv'
  <1> USE DEF eventVars, memoryVars
  <1>1. ASSUME NEW e \in Events, Attach(e)
        PROVE  InterestInv'
    <2>1. PICK h \in Handles :
            /\ ~Allocated(h)
            /\ info' = [info EXCEPT ![h] = UpdatedInfo(NewInfo(e), fd[e], mask[e], TRUE)]
            /\ epoll' = UpdatedInterest(h, NewInfo(e), fd[e], mask[e], TRUE)
      BY <1>1 DEF Attach
    <2>2. handle[e] = NoHandle /\ mask' = mask
      BY <1>1 DEF Attach
    <2>3. /\ NewInfo(e) \in EventInfo /\ NewInfo(e).fdRegistered = NoFD
          /\ NewInfo(e).ev = e /\ fd[e] \in FDs \cup {NoFD}
      BY NewInfoType DEF NewInfo, FreeInfo, TypeOK
    <2> SUFFICES ASSUME NEW g \in Handles PROVE Polled(g)'
      BY DEF InterestInv
    <2>4. CASE g = h
      <3>1. /\ info'[h].ev = e
            /\ info'[h].fdRegistered # NoFD => info'[h].nIOEventMask = mask[e]
        BY <2>1, <2>3 DEF TypeOK, UpdatedInfo, EventInfo
      <3> QED  BY <2>2, <2>4, <3>1 DEF Polled
    <2>5. CASE g # h
      <3>1. info'[g] = info[g]
        BY <2>1, <2>5 DEF TypeOK
      <3>2. ASSUME Live(g), info[g].fdRegistered # NoFD
            PROVE  epoll'[info[g].fdRegistered] = epoll[info[g].fdRegistered]
        <4>1. /\ info[g].ev \in Events /\ info[g].ev # e
              /\ info[g].fdRegistered = fd[info[g].ev] /\ info[g].fdRegistered \in FDs
          BY <2>2, <3>2, OwnDescriptor, HandleAssumption
        <4>2. info[g].fdRegistered # fd[e]
          BY <3>2, <4>1 DEF RecordInv, DescriptorsOwned
        <4> QED  BY <2>1, <2>3, <3>2, <4>1, <4>2 DEF UpdatedInterest, Unregistered, TypeOK
      <3> QED  BY <2>2, <3>1, <3>2, PolledStays DEF Live, Allocated, InterestInv
    <2> QED  BY <2>4, <2>5
  <1>2. ASSUME NEW e \in Events, handle[e] # NoHandle, RemoveEvent(e), mask' = mask
        PROVE  InterestInv'
    <2>1. PICK h \in Handles : h = handle[e] /\ Live(h)
      BY <1>2 DEF RemoveEvent, TypeOK
    <2>2. /\ info' = [info EXCEPT ![h] = DetachedInfo(info[h])]
          /\ epoll' = Unregistered(info[h].fdRegistered)
      BY <1>2, <2>1 DEF RemoveEvent
    <2> SUFFICES ASSUME NEW g \in Handles PROVE Polled(g)'
      BY DEF InterestInv
    <2>3. CASE g = h
      <3>1. "DETACHED" \in info'[h].flags
        BY <2>2, DetachedInfoFields DEF TypeOK
      <3> QED  BY <2>3, <3>1 DEF Polled, Live
    <2>4. CASE g # h
      <3>1. info'[g] = info[g]
        BY <2>2, <2>4 DEF TypeOK
      <3>2. ASSUME Live(g), info[g].fdRegistered # NoFD
            PROVE  epoll'[info[g].fdRegistered] = epoll[info[g].fdRegistered]
        <4>1. info[g].fdRegistered \in FDs /\ info[g].fdRegistered # info[h].fdRegistered
          BY <2>1, <2>4, <3>2, OwnDescriptor
        <4> QED  BY <2>2, <4>1 DEF Unregistered, TypeOK
      <3> QED  BY <1>2, <3>1, <3>2, PolledStays DEF Live, Allocated, InterestInv
    <2> QED  BY <2>3, <2>4
  <1>3. ASSUME NEW h \in Handles, NEW r, info' = [info EXCEPT ![h] = r],
               r.ev = info[h].ev, r.fdRegistered = info[h].fdRegistered,
               r.nIOEventMask = info[h].nIOEventMask,
               "DETACHED" \in info[h].flags => "DETACHED" \in r.flags,
               UNCHANGED <<mask, epoll>>
        PROVE  InterestInv'
    <2> SUFFICES ASSUME NEW g \in Handles PROVE Polled(g)'
      BY DEF InterestInv
    <2>1. CASE g = h
      <3>1. info'[g] = r
        BY <1>3, <2>1 DEF TypeOK
      <3> QED  BY <1>3, <2>1, <3>1, PolledStays DEF Live, Allocated, InterestInv
    <2>2. CASE g # h
      <3>1. info'[g] = info[g]
        BY <1>3, <2>2 DEF TypeOK
      <3> QED  BY <1>3, <3>1, PolledStays DEF Live, Allocated, InterestInv
    <2> QED  BY <2>1, <2>2
  <1>4. ASSUME NEW e \in Events, NEW t \in Timeouts, NEW p \in BOOLEAN, SetTimer(e, t, p)
        PROVE  InterestInv'
    <2>1. PICK h \in Handles : h = handle[e] /\ info[h] \in EventInfo
      BY <1>4 DEF SetTimer, TypeOK
    <2> DEFINE r == TimerSet(info[h], t, p)
    <2>2. info' = [info EXCEPT ![h] = r] /\ UNCHANGED <<mask, epoll>>
      BY <1>4, <2>1 DEF SetTimer
    <2>3. /\ r.ev = info[h].ev /\ r.fdRegistered = info[h].fdRegistered
          /\ r.nIOEventMask = info[h].nIOEventMask
          /\ info[h].flags \subseteq r.flags
      BY <2>1 DEF TimerSet, EventInfo
    <2> HIDE DEF r
    <2> QED  BY <1>3, <2>2, <2>3
  <1>5. ASSUME NEW e \in Events, CancelTimer(e)
        PROVE  InterestInv'
    <2>1. PICK h \in Handles : h = handle[e] /\ info[h] \in EventInfo
      BY <1>5 DEF CancelTimer, TypeOK
    <2> DEFINE r == TimerCleared(info[h])
    <2>2. info' = [info EXCEPT ![h] = r] /\ UNCHANGED <<mask, epoll>>
      BY <1>5, <2>1 DEF CancelTimer
    <2>3. /\ r.ev = info[h].ev /\ r.fdRegistered = info[h].fdRegistered
          /\ r.nIOEventMask = info[h].nIOEventMask
          /\ r.flags = info[h].flags \ TimerFlags
      BY <2>1 DEF TimerCleared, EventInfo
    <2>4. "DETACHED" \in info[h].flags => "DETACHED" \in r.flags
      BY <2>3 DEF TimerFlags
    <2> HIDE DEF r
    <2> QED  BY <1>3, <2>2, <2>3, <2>4
  <1>6. ASSUME NEW e \in Events, NEW f \in FDs, NEW m \in Masks, SetFD(e, f, m)
        PROVE  InterestInv'
    BY <1>6, NotifyPolls, MaskAssumption DEF SetFD, Maskable
  <1>7. ASSUME NEW e \in Events, NEW m \in Masks, SetIOEventMask(e, m)
        PROVE  InterestInv'
    <2>1. fd[e] \in FDs \cup {NoFD} /\ m \in SUBSET Maskable
      BY MaskAssumption DEF TypeOK, Maskable
    <2> QED  BY <1>7, <2>1, NotifyPolls DEF SetIOEventMask
  <1>8. ASSUME NEW e \in Events, Detach(e) \/ CloseAttached(e)
        PROVE  InterestInv'
    BY <1>2, <1>8 DEF Detach, CloseAttached
  <1>9. ASSUME NEW e \in Events, CloseDetached(e)
        PROVE  InterestInv'
    BY <1>9, ClosePolls DEF CloseDetached
  <1>10. CASE NextTick
    BY <1>10 DEF NextTick, InterestInv, Polled, Live, Allocated
  <1> QED  BY <1>1, <1>4, <1>5, <1>6, <1>7, <1>8, <1>9, <1>10 DEF ApiCall

LEMMA NextKeepsInterest ==
  ASSUME ~EpollMayFail, IInv, InterestInv, Next
  PROVE  InterestInv'
  <1> USE DEF eventVars, memoryVars
  <1>1. TypeOK /\ RecordInv
    BY DEF IInv, TypeInv
  <1>2. ASSUME UNCHANGED <<mask, epoll>>,
               \A h \in Handles :
                 Live(h)' => /\ Live(h) /\ info'[h].ev = info[h].ev
                             /\ info'[h].fdRegistered = info[h].fdRegistered
                             /\ info'[h].nIOEventMask = info[h].nIOEventMask
        PROVE  InterestInv'
    <2> SUFFICES ASSUME NEW h \in Handles PROVE Polled(h)'
      BY DEF InterestInv
    <2> QED  BY <1>1, <1>2, PolledStays DEF InterestInv
  <1>3. ASSUME UNCHANGED <<info, mask, epoll>>
        PROVE  InterestInv'
    BY <1>2, <1>3 DEF Live, Allocated
  <1>4. ASSUME NEW d \in Int, info' = Advanced(d), UNCHANGED <<mask, epoll>>
        PROVE  InterestInv'
    <2>1. ASSUME NEW h \in Handles
          PROVE  /\ info'[h].ev = info[h].ev /\ info'[h].flags = info[h].flags
                 /\ info'[h].fdRegistered = info[h].fdRegistered
                 /\ info'[h].nIOEventMask = info[h].nIOEventMask
      BY <1>1, <1>4 DEF Advanced, TypeOK, EventInfo
    <2> QED  BY <1>2, <1>4, <2>1 DEF Live, Allocated
  <1>5. ASSUME NEW e \in Events, FinishClose(e)
        PROVE  InterestInv'
    <2>1. CASE fd[e] # NoFD /\ handle[e] # NoHandle
      BY <1>3, <1>5, <2>1 DEF FinishClose
    <2>2. CASE ~(fd[e] # NoFD /\ handle[e] # NoHandle)
      BY <1>1, <1>5, <2>2, ClosePolls DEF FinishClose
    <2> QED  BY <2>1, <2>2
  <1>6. CASE CallbackReturns
    <2>1. CASE CloseReturns
      BY <1>5, <2>1 DEF CloseReturns, IInv, TypeInv, TicksInPlace
    <2> QED  BY <1>3, <1>6, <2>1
             DEF CallbackReturns, MainReturns, TimerReturns, TickReturns, IOReturns
  <1>7. ASSUME NEW d \in 0..MaxElapsed, TickBegins(d)
        PROVE  InterestInv'
    <2>1. slept + d \in Int
      BY <1>1, TimeAssumption DEF TypeOK
    <2> QED  BY <1>4, <1>7, <2>1 DEF TickBegins
  <1>8. ASSUME NEW h \in Handles, RunTimer(h)
        PROVE  InterestInv'
    <2>1. info[h] \in EventInfo /\ UNCHANGED <<mask, epoll>>
      BY <1>1, <1>8 DEF TypeOK, RunTimer
    <2>2. PICK r \in {[info[h] EXCEPT !.due = info[h].interval], TimerCleared(info[h])} :
            info' = [info EXCEPT ![h] = r]
      BY <1>8 DEF RunTimer
    <2>3. /\ r.ev = info[h].ev /\ r.fdRegistered = info[h].fdRegistered
          /\ r.nIOEventMask = info[h].nIOEventMask
          /\ "DETACHED" \in info[h].flags => "DETACHED" \in r.flags
      BY <2>1, <2>2 DEF TimerCleared, TimerFlags, EventInfo
    <2>4. info'[h] = r /\ \A g \in Handles : g # h => info'[g] = info[g]
      BY <1>1, <2>2 DEF TypeOK
    <2> QED  BY <1>2, <2>1, <2>3, <2>4 DEF Live, Allocated
  <1>9. CASE CloseWithoutFD
    BY <1>5, <1>9 DEF CloseWithoutFD
  <1>10. CASE ErasePending
    <2>1. UNCHANGED <<mask, epoll>>
      BY <1>10 DEF ErasePending
    <2>2. \A h \in Handles : info'[h] = FreeInfo \/ info'[h] = info[h]
      BY <1>10 DEF ErasePending
    <2>3. FreeInfo.ev = NoEvent
      BY DEF FreeInfo
    <2> QED  BY <1>2, <2>1, <2>2, <2>3 DEF Live, Allocated
  <1>11. CASE TimersDone \/ RunTick \/ TicksDrained \/ ReportDone \/ DispatchDone
              \/ PollFails
    BY <1>3, <1>11 DEF TimersDone, RunTick, TicksDrained, ReportDone, DispatchDone,
                       PollFails
  <1>12. ASSUME NEW h \in Handles, NEW bit \in IOEvents, Dispatch(h, bit)
         PROVE  InterestInv'
    BY <1>3, <1>12 DEF Dispatch
  <1>13. ASSUME NEW d \in 0..MaxElapsed, Poll(d)
         PROVE  InterestInv'
    BY <1>4, <1>13, TimeAssumption DEF Poll
  <1>14. CASE ApiCall
    BY <1>1, <1>14, ApiPolls
  <1> QED  BY <1>6, <1>7, <1>8, <1>9, <1>10, <1>11, <1>12, <1>13, <1>14
              DEF Next, LoopStep

\* EventLoop::_updateIOFD: while epoll_ctl does not fail, an attached
\* descriptor is polled for what its event asks, or the event asks for the
\* mask the descriptor was registered with.
THEOREM OnlyTheRegisteredMaskIsStale == Spec => []InterestStaleOnlyAtRegisteredMask
  <1> DEFINE Inv == ~EpollMayFail => InterestInv
  <1>1. Init => Inv
    BY DEF Init, InterestInv, Polled, Live, Allocated, FreeInfo
  <1>2. IInv /\ Inv /\ [Next]_vars => Inv'
    <2> SUFFICES ASSUME IInv, ~EpollMayFail, InterestInv, [Next]_vars
                 PROVE  InterestInv'
      OBVIOUS
    <2>1. CASE Next
      BY <2>1, NextKeepsInterest
    <2>2. CASE UNCHANGED vars
      BY <2>2 DEF vars, InterestInv, Polled, Live, Allocated
    <2> QED  BY <2>1, <2>2
  <1>3. Inv => InterestStaleOnlyAtRegisteredMask
    BY DEF InterestInv, Polled, InterestStaleOnlyAtRegisteredMask
  <1> HIDE DEF Inv
  <1> QED  BY <1>1, <1>2, <1>3, Invariance, PTL DEF Spec

=============================================================================
