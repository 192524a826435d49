------------------------ MODULE EventLoopImplements ------------------------
(* EventLoop implements LoopContract, for all values of the constants: the *)
(* initial state is the contract's, and every step of the loop is a step   *)
(* of the contract or changes nothing its users see.                       *)
EXTENDS EventLoopRefines, EventLoopProofs

-----------------------------------------------------------------------------
(* The mapping *)

LEMMA Now ==
  /\ pc = "main" => RunningNow = Contract!Main
  /\ pc = "onTimer" => RunningNow = Contract!Running("timer", info[cur].ev)
  /\ pc = "onIO" => RunningNow = Contract!Running("io", info[cur].ev)
  /\ pc \in {"onTick", "onClose"} =>
       RunningNow = Contract!Running("tick", Head(qNextTick))
  /\ pc = "poll" => RunningNow = Contract!Waiting
  /\ pc = "done" => RunningNow = Contract!Ended
  /\ pc = "abort" => RunningNow = Contract!Aborted
  /\ pc \in {"tick", "timers", "drain", "erase", "dispatch"} =>
       RunningNow = Contract!Loop
  BY DEF RunningNow, Phase, Contract!Main, Contract!Running, Contract!Waiting,
         Contract!Ended, Contract!Aborted, Contract!Loop

LEMMA Then ==
  /\ pc' = "onTimer" => RunningNow' = Contract!Running("timer", info'[cur'].ev)
  /\ pc' = "onIO" => RunningNow' = Contract!Running("io", info'[cur'].ev)
  /\ pc' \in {"onTick", "onClose"} =>
       RunningNow' = Contract!Running("tick", Head(qNextTick'))
  /\ pc' = "poll" => RunningNow' = Contract!Waiting
  /\ pc' = "done" => RunningNow' = Contract!Ended
  /\ pc' = "abort" => RunningNow' = Contract!Aborted
  /\ pc' \in {"tick", "timers", "drain", "erase", "dispatch"} =>
       RunningNow' = Contract!Loop
  BY DEF RunningNow, Phase, Contract!Running, Contract!Waiting,
         Contract!Ended, Contract!Aborted, Contract!Loop

\* The user sees nothing of a step that leaves the attached events their
\* records and the records their timers.
LEMMA NothingSeen ==
  ASSUME handle' = handle,
         \A e \in Events : handle[e] # NoHandle =>
           info'[handle[e]].flags = info[handle[e]].flags
  PROVE  UNCHANGED <<AttachedEvents, ArmedTimers>>
  BY DEF AttachedEvents, ArmedTimers, TimerOf

\* The record of an attached event.
LEMMA RecordOf ==
  ASSUME TypeOK, RecordInv, NEW e \in Events, handle[e] # NoHandle
  PROVE  /\ handle[e] \in Handles /\ info[handle[e]] \in EventInfo
         /\ Live(handle[e]) /\ info[handle[e]].ev = e
         /\ \A o \in Events : handle[o] = handle[e] => o = e
  BY DEF TypeOK, RecordInv, OneRecordPerEvent

\* The event of a live record.
LEMMA OwnerOf ==
  ASSUME TypeOK, RecordInv, NEW h \in Handles, Live(h)
  PROVE  info[h].ev \in Events /\ handle[info[h].ev] = h
  <1>1. info[h] \in EventInfo
    BY DEF TypeOK
  <1>2. info[h].ev \in Events
    BY <1>1 DEF Live, Allocated, EventInfo
  <1> QED  BY <1>2 DEF RecordInv, OneRecordPerEvent

\* During a callback what is running stays what it is, if its record and its
\* place in the queue do.
LEMMA StillRunning ==
  ASSUME IInv, pc' = pc, cur' = cur,
         cur # NoHandle => info'[cur].ev = info[cur].ev,
         qNextTick # <<>> => Head(qNextTick') = Head(qNextTick)
  PROVE  RunningNow' = RunningNow
  <1>1. pc \in {"onTimer", "onIO"} => cur # NoHandle
    BY DEF IInv, ControlInv
  <1>2. pc \in {"onTick", "onClose"} => qNextTick # <<>>
    BY DEF IInv, TypeInv, TicksInPlace
  <1> QED  BY <1>1, <1>2 DEF RunningNow

LEMMA Calling ==
  ASSUME pc \in UserCode
  PROVE  Contract!InCallback
  BY Now DEF UserCode, Contract!InCallback, Contract!Main, Contract!Running

-----------------------------------------------------------------------------
(* The API *)

\* A request changes what one event has asked for.
LEMMA OneArmed ==
  ASSUME NEW e \in Events, NEW k, ArmedTimers'[e] = k,
         \A o \in Events : o # e => ArmedTimers'[o] = ArmedTimers[o]
  PROVE  ArmedTimers' = [ArmedTimers EXCEPT ![e] = k]
  BY DEF ArmedTimers

LEMMA AttachIsAttach ==
  ASSUME IInv, NEW e \in Events, Attach(e), UNCHANGED controlVars
  PROVE  Contract!Attach(e) /\ UNCHANGED RunningNow
  <1> USE DEF controlVars
  <1>1. TypeOK /\ RecordInv /\ ControlInv
    BY DEF IInv, TypeInv
  <1>2. PICK h \in Handles :
          /\ ~Allocated(h)
          /\ info' = [info EXCEPT ![h] = UpdatedInfo(NewInfo(e), fd[e], mask[e], TRUE)]
          /\ handle' = [handle EXCEPT ![e] = h]
    BY DEF Attach
  <1>3. handle[e] = NoHandle /\ UNCHANGED qNextTick
    BY DEF Attach
  <1>4. info'[h].flags = {}
    BY <1>1, <1>2 DEF TypeOK, UpdatedInfo, NewInfo, FreeInfo
  <1>5. handle'[e] = h /\ \A o \in Events : o # e => handle'[o] = handle[o]
    BY <1>1, <1>2 DEF TypeOK
  <1>6. \A g \in Handles : Allocated(g) => info'[g] = info[g]
    BY <1>1, <1>2 DEF TypeOK
  <1>7. AttachedEvents' = AttachedEvents \cup {e}
    BY <1>2, <1>5, HandleAssumption DEF AttachedEvents
  <1>8. ArmedTimers' = ArmedTimers
    <2>1. ASSUME NEW o \in Events, o # e, handle[o] # NoHandle
          PROVE  info'[handle[o]] = info[handle[o]]
      BY <1>1, <1>6, <2>1, RecordOf DEF Live
    <2> QED  BY <1>3, <1>4, <1>5, <2>1 DEF ArmedTimers, TimerOf
  <1>9. e \notin AttachedEvents
    BY <1>3 DEF AttachedEvents
  <1>10. RunningNow' = RunningNow
    <2>1. cur # NoHandle => cur \in Handles /\ Allocated(cur)
      BY <1>1 DEF TypeOK, ControlInv
    <2> QED  BY <1>3, <1>6, <2>1, StillRunning
  <1> QED  BY <1>3, <1>7, <1>8, <1>9, <1>10 DEF Contract!Attach

LEMMA RemoveIsDetach ==
  ASSUME IInv, NEW e \in Events, handle[e] # NoHandle, RemoveEvent(e),
         UNCHANGED controlVars, qNextTick # <<>> => Head(qNextTick') = Head(qNextTick)
  PROVE  /\ e \in AttachedEvents
         /\ AttachedEvents' = AttachedEvents \ {e}
         /\ ArmedTimers' = [ArmedTimers EXCEPT ![e] = "no"]
         /\ RunningNow' = RunningNow
  <1> USE DEF controlVars
  <1>1. TypeOK /\ RecordInv /\ ControlInv
    BY DEF IInv, TypeInv
  <1>2. PICK h \in Handles : h = handle[e] /\ info[h] \in EventInfo
    BY <1>1, RecordOf
  <1>3. /\ info' = [info EXCEPT ![h] = DetachedInfo(info[h])]
        /\ handle' = [handle EXCEPT ![e] = NoHandle]
    BY <1>2 DEF RemoveEvent
  <1>4. handle'[e] = NoHandle /\ \A o \in Events : o # e => handle'[o] = handle[o]
    BY <1>1, <1>3 DEF TypeOK
  <1>5. /\ info'[h].ev = info[h].ev
        /\ \A g \in Handles : g # h => info'[g] = info[g]
    BY <1>1, <1>2, <1>3, DetachedInfoFields DEF TypeOK
  <1>6. ArmedTimers' = [ArmedTimers EXCEPT ![e] = "no"]
    <2>1. ASSUME NEW o \in Events, o # e
          PROVE  ArmedTimers'[o] = ArmedTimers[o]
      <3>1. handle[o] # NoHandle => info'[handle[o]] = info[handle[o]]
        BY <1>1, <1>2, <1>5, <2>1, RecordOf
      <3> QED  BY <1>4, <2>1, <3>1 DEF ArmedTimers
    <2>2. ArmedTimers'[e] = "no"
      BY <1>4 DEF ArmedTimers
    <2> QED  BY <2>1, <2>2, OneArmed
  <1>7. RunningNow' = RunningNow
    <2>1. cur # NoHandle => info'[cur].ev = info[cur].ev
      BY <1>1, <1>5 DEF TypeOK
    <2> QED  BY <2>1, StillRunning
  <1> QED  BY <1>4, <1>6, <1>7 DEF AttachedEvents

LEMMA SetTimerIsSetTimer ==
  ASSUME IInv, NEW e \in Events, NEW t \in Timeouts, NEW p \in BOOLEAN,
         SetTimer(e, t, p), UNCHANGED controlVars
  PROVE  /\ Contract!SetTimer(e, IF p THEN "periodic" ELSE "once")
         /\ UNCHANGED RunningNow
  <1> USE DEF controlVars, eventVars
  <1>1. TypeOK /\ RecordInv /\ ControlInv
    BY DEF IInv, TypeInv
  <1>2. PICK h \in Handles :
          /\ h = handle[e] /\ info[h] \in EventInfo
          /\ "TIMER_SET" \notin info[h].flags /\ handle[e] # NoHandle
          /\ "TIMER_PERIODIC" \notin info[h].flags
    BY <1>1, RecordOf DEF SetTimer, RecordInv, TimerQueueExact, TimerFlags
  <1>3. info' = [info EXCEPT ![h] = TimerSet(info[h], t, p)]
    BY <1>2 DEF SetTimer
  <1>4. /\ info'[h].ev = info[h].ev
        /\ info'[h].flags = info[h].flags \cup {"TIMER_SET"}
                              \cup (IF p THEN {"TIMER_PERIODIC"} ELSE {})
        /\ \A g \in Handles : g # h => info'[g] = info[g]
    BY <1>1, <1>2, <1>3, TimerSetFields DEF TypeOK
  <1>5. UNCHANGED <<handle, qNextTick>>
    BY DEF SetTimer
  <1>6. ArmedTimers[e] = "no" /\ e \in AttachedEvents
    BY <1>2 DEF ArmedTimers, TimerOf, AttachedEvents
  <1>7. ArmedTimers' = [ArmedTimers EXCEPT ![e] = IF p THEN "periodic" ELSE "once"]
    <2>1. ASSUME NEW o \in Events, o # e
          PROVE  ArmedTimers'[o] = ArmedTimers[o]
      <3>1. handle[o] # NoHandle => info'[handle[o]] = info[handle[o]]
        BY <1>1, <1>2, <1>4, <2>1, RecordOf
      <3> QED  BY <1>5, <2>1, <3>1 DEF ArmedTimers
    <2>2. ArmedTimers'[e] = IF p THEN "periodic" ELSE "once"
      BY <1>2, <1>4, <1>5 DEF ArmedTimers, TimerOf
    <2> QED  BY <2>1, <2>2, OneArmed
  <1>8. RunningNow' = RunningNow
    <2>1. cur # NoHandle => info'[cur].ev = info[cur].ev
      BY <1>1, <1>4 DEF TypeOK
    <2> QED  BY <1>5, <2>1, StillRunning
  <1> QED  BY <1>5, <1>6, <1>7, <1>8 DEF Contract!SetTimer, AttachedEvents

LEMMA CancelTimerIsCancelTimer ==
  ASSUME IInv, NEW e \in Events, CancelTimer(e), UNCHANGED controlVars
  PROVE  Contract!CancelTimer(e) /\ UNCHANGED RunningNow
  <1> USE DEF controlVars, eventVars
  <1>1. TypeOK /\ RecordInv /\ ControlInv
    BY DEF IInv, TypeInv
  <1>2. PICK h \in Handles :
          /\ h = handle[e] /\ info[h] \in EventInfo
          /\ "TIMER_SET" \in info[h].flags /\ handle[e] # NoHandle
    BY <1>1, RecordOf DEF CancelTimer
  <1>3. info' = [info EXCEPT ![h] = TimerCleared(info[h])]
    BY <1>2 DEF CancelTimer
  <1>4. /\ info'[h].ev = info[h].ev
        /\ info'[h].flags = info[h].flags \ TimerFlags
        /\ \A g \in Handles : g # h => info'[g] = info[g]
    BY <1>1, <1>2, <1>3, TimerClearedFields DEF TypeOK
  <1>5. UNCHANGED <<handle, qNextTick>>
    BY DEF CancelTimer
  <1>6. ArmedTimers[e] # "no"
    BY <1>2 DEF ArmedTimers, TimerOf
  <1>7. ArmedTimers' = [ArmedTimers EXCEPT ![e] = "no"]
    <2>1. ASSUME NEW o \in Events, o # e
          PROVE  ArmedTimers'[o] = ArmedTimers[o]
      <3>1. handle[o] # NoHandle => info'[handle[o]] = info[handle[o]]
        BY <1>1, <1>2, <1>4, <2>1, RecordOf
      <3> QED  BY <1>5, <2>1, <3>1 DEF ArmedTimers
    <2>2. ArmedTimers'[e] = "no"
      BY <1>2, <1>4, <1>5 DEF ArmedTimers, TimerOf, TimerFlags
    <2> QED  BY <2>1, <2>2, OneArmed
  <1>8. RunningNow' = RunningNow
    <2>1. cur # NoHandle => info'[cur].ev = info[cur].ev
      BY <1>1, <1>4 DEF TypeOK
    <2> QED  BY <1>5, <2>1, StillRunning
  <1> QED  BY <1>5, <1>6, <1>7, <1>8 DEF Contract!CancelTimer, AttachedEvents

\* Masks and descriptors are not the user's business with the loop.
LEMMA NotifyIsSilent ==
  ASSUME IInv, NEW e \in Events, NEW f, NEW m, NotifyIOStateChange(e, f, m),
         UNCHANGED <<handle, qNextTick, pc, cur>>
  PROVE  UNCHANGED Contract!vars
  <1>1. TypeOK /\ RecordInv
    BY DEF IInv, TypeInv
  <1>2. \A g \in Handles : info'[g].flags = info[g].flags /\ info'[g].ev = info[g].ev
    <2>1. CASE info' = info
      BY <2>1
    <2>2. CASE info' # info
      <3>1. PICK h \in Handles : \E ok :
              info' = [info EXCEPT ![h] = UpdatedInfo(info[h], f, m, ok)]
        BY <1>1, <2>2 DEF NotifyIOStateChange, TypeOK
      <3> QED  BY <1>1, <3>1, UpdatedInfoFields DEF TypeOK
    <2> QED  BY <2>1, <2>2
  <1>3. UNCHANGED <<AttachedEvents, ArmedTimers>>
    BY <1>1, <1>2, NothingSeen, RecordOf
  <1>4. RunningNow' = RunningNow
    BY <1>1, <1>2, StillRunning DEF TypeOK
  <1> QED  BY <1>3, <1>4 DEF Contract!vars

LEMMA ApiIsRequest ==
  ASSUME IInv, ApiCall
  PROVE  Contract!Next \/ UNCHANGED Contract!vars
  <1> USE DEF controlVars, eventVars, memoryVars
  <1>1. pc \in UserCode /\ UNCHANGED controlVars
    BY DEF ApiCall
  <1>2. qNextTick \in Seq(Ticks)
    BY DEF IInv, TypeInv, TypeOK
  <1>3. \A x : qNextTick # <<>> => Head(Append(qNextTick, x)) = Head(qNextTick)
    BY <1>2
  <1>4. ASSUME Contract!Request
        PROVE  Contract!Next
    BY <1>4 DEF Contract!Next
  <1>5. ASSUME NEW e \in Events, Attach(e)
        PROVE  Contract!Request
    BY <1>1, <1>5, AttachIsAttach, Calling DEF Contract!Request
  <1>6. ASSUME NEW e \in Events, Detach(e)
        PROVE  Contract!Request
    <2>1. handle[e] # NoHandle /\ RemoveEvent(e) /\ UNCHANGED qNextTick
      BY <1>6 DEF Detach
    <2>2. Contract!Detach(e) /\ UNCHANGED RunningNow
      BY <1>1, <2>1, RemoveIsDetach DEF Contract!Detach
    <2> QED  BY <1>1, <2>2, Calling DEF Contract!Request
  <1>7. ASSUME NEW e \in Events, CloseAttached(e)
        PROVE  Contract!Request
    <2>1. handle[e] # NoHandle /\ RemoveEvent(e) /\ qNextTick' = Append(qNextTick, e)
      BY <1>7 DEF CloseAttached
    <2>2. Contract!Close(e) /\ UNCHANGED RunningNow
      BY <1>1, <1>3, <2>1, RemoveIsDetach DEF Contract!Close
    <2> QED  BY <1>1, <2>2, Calling DEF Contract!Request
  <1>8. ASSUME NEW e \in Events, NEW t \in Timeouts, NEW p \in BOOLEAN, SetTimer(e, t, p)
        PROVE  Contract!Request
    <2>1. PICK k \in {"once", "periodic"} :
            Contract!SetTimer(e, k) /\ UNCHANGED RunningNow
      BY <1>1, <1>8, SetTimerIsSetTimer
    <2> QED  BY <1>1, <2>1, Calling DEF Contract!Request
  <1>9. ASSUME NEW e \in Events, CancelTimer(e)
        PROVE  Contract!Request
    BY <1>1, <1>9, CancelTimerIsCancelTimer, Calling DEF Contract!Request
  <1>10. CASE NextTick
    <2>1. /\ qNextTick' = Append(qNextTick, UserTick) /\ UNCHANGED <<handle, info>>
      BY <1>10 DEF NextTick
    <2>2. UNCHANGED <<AttachedEvents, ArmedTimers, RunningNow>>
      BY <1>1, <1>3, <2>1, NothingSeen, StillRunning
    <2>3. Contract!NextTick
      BY <2>1, <2>2 DEF Contract!NextTick
    <2> QED  BY <1>1, <1>4, <2>2, <2>3, Calling DEF Contract!Request
  <1>11. ASSUME NEW e \in Events, NEW f \in FDs, NEW m \in Masks, SetFD(e, f, m)
         PROVE  UNCHANGED Contract!vars
    BY <1>1, <1>11, NotifyIsSilent DEF SetFD
  <1>12. ASSUME NEW e \in Events, NEW m \in Masks, SetIOEventMask(e, m)
         PROVE  UNCHANGED Contract!vars
    BY <1>1, <1>12, NotifyIsSilent DEF SetIOEventMask
  <1>13. ASSUME NEW e \in Events, CloseDetached(e)
         PROVE  UNCHANGED Contract!vars
    BY <1>1, <1>13, NothingSeen, StillRunning DEF CloseDetached, Contract!vars
  <1> QED  BY <1>4, <1>5, <1>6, <1>7, <1>8, <1>9, <1>10, <1>11, <1>12, <1>13 DEF ApiCall

-----------------------------------------------------------------------------
(* The loop *)

\* A step of the loop's own that calls nobody.
LEMMA SilentStep ==
  ASSUME pc \in {"tick", "timers", "drain", "erase", "dispatch"},
         pc' \in {"tick", "timers", "drain", "erase", "dispatch"},
         UNCHANGED <<AttachedEvents, ArmedTimers, qNextTick>>
  PROVE  UNCHANGED Contract!vars
  BY Now, Then DEF Contract!vars

\* A callback returns; one that was posted leaves the queue.
LEMMA ReturnStep ==
  ASSUME pc \in UserCode,
         pc' \in {"tick", "timers", "drain", "erase", "dispatch"},
         UNCHANGED <<AttachedEvents, ArmedTimers>>,
         qNextTick' = IF pc \in {"onTick", "onClose"} THEN Tail(qNextTick) ELSE qNextTick
  PROVE  Contract!Next
  <1>1. Contract!InCallback /\ RunningNow' = Contract!Loop
    BY Calling, Then
  <1>2. RunningNow.what = "tick" <=> pc \in {"onTick", "onClose"}
    BY Now DEF UserCode, Contract!Main, Contract!Running
  <1>3. Contract!Return
    BY <1>1, <1>2 DEF Contract!Return
  <1> QED  BY <1>3 DEF Contract!Next

LEMMA CloseStep ==
  ASSUME IInv, NEW e \in Events, FinishClose(e), e = Head(qNextTick),
         pc \in {"drain", "onClose"}, qNextTick # <<>>, pc = "drain" => fd[e] = NoFD
  PROVE  Contract!Next
  <1>1. UNCHANGED <<AttachedEvents, ArmedTimers>>
    BY NothingSeen DEF FinishClose, memoryVars
  <1>2. CASE fd[e] # NoFD /\ handle[e] # NoHandle
    <2>1. pc = "onClose" /\ pc' = "abort" /\ qNextTick' = qNextTick
      BY <1>2 DEF FinishClose
    <2>2. RunningNow = Contract!Running("tick", e) /\ RunningNow' = Contract!Aborted
      BY <2>1, Now, Then
    <2>3. e \in AttachedEvents
      BY <1>2 DEF AttachedEvents
    <2>4. Contract!Abort
      BY <1>1, <2>1, <2>2, <2>3 DEF Contract!Abort, Contract!Running
    <2> QED  BY <2>4 DEF Contract!Next
  <1>3. CASE ~(fd[e] # NoFD /\ handle[e] # NoHandle)
    <2>1. pc' = "drain" /\ qNextTick' = Tail(qNextTick)
      BY <1>3 DEF FinishClose
    <2>2. CASE pc = "onClose"
      BY <1>1, <2>1, <2>2, ReturnStep DEF UserCode
    <2>3. CASE pc = "drain"
      <3>1. RunningNow = Contract!Loop /\ RunningNow' = Contract!Loop
        BY <2>1, <2>3, Now, Then
      <3>2. Contract!SkipTick
        BY <1>1, <2>1, <3>1 DEF Contract!SkipTick
      <3> QED  BY <3>2 DEF Contract!Next
    <2> QED  BY <2>2, <2>3
  <1> QED  BY <1>2, <1>3

LEMMA RunTimerIsCallOnTimer ==
  ASSUME IInv, NEW h \in Handles, RunTimer(h)
  PROVE  Contract!Next
  <1> USE DEF eventVars
  <1>1. TypeOK /\ RecordInv
    BY DEF IInv, TypeInv
  <1>2. /\ "TIMER_SET" \in info[h].flags /\ Live(h) /\ info[h] \in EventInfo
        /\ h # NoHandle
    BY <1>1, HandleAssumption
       DEF RunTimer, IsTop, Queued, RecordInv, TimerQueueExact, TypeOK, TimerFlags
  <1>3. PICK e \in Events : e = info[h].ev /\ handle[e] = h
    BY <1>1, <1>2, OwnerOf
  <1>4. /\ UNCHANGED <<handle, qNextTick>> /\ pc = "timers" /\ pc' = "onTimer"
        /\ cur' = h
    BY DEF RunTimer
  <1>5. /\ \A g \in Handles : g # h => info'[g] = info[g]
        /\ info'[h].ev = e
        /\ info'[h].flags = IF "TIMER_PERIODIC" \in info[h].flags
                            THEN info[h].flags ELSE info[h].flags \ TimerFlags
    <2>1. CASE "TIMER_PERIODIC" \in info[h].flags
      <3>1. info' = [info EXCEPT ![h] = [info[h] EXCEPT !.due = info[h].interval]]
        BY <2>1 DEF RunTimer
      <3> QED  BY <1>1, <1>2, <1>3, <2>1, <3>1 DEF TypeOK, EventInfo
    <2>2. CASE "TIMER_PERIODIC" \notin info[h].flags
      <3>1. info' = [info EXCEPT ![h] = TimerCleared(info[h])]
        BY <2>2 DEF RunTimer
      <3> QED  BY <1>1, <1>2, <1>3, <2>2, <3>1, TimerClearedFields DEF TypeOK
    <2> QED  BY <2>1, <2>2
  <1>6. ArmedTimers[e] = IF "TIMER_PERIODIC" \in info[h].flags THEN "periodic" ELSE "once"
    BY <1>2, <1>3 DEF ArmedTimers, TimerOf
  <1>7. ArmedTimers' = IF ArmedTimers[e] = "once"
                       THEN [ArmedTimers EXCEPT ![e] = "no"] ELSE ArmedTimers
    <2>1. \A o \in Events : o # e => ArmedTimers'[o] = ArmedTimers[o]
      <3> SUFFICES ASSUME NEW o \in Events, o # e
                   PROVE  ArmedTimers'[o] = ArmedTimers[o]
        OBVIOUS
      <3>1. handle[o] # NoHandle => info'[handle[o]] = info[handle[o]]
        BY <1>1, <1>3, <1>5, RecordOf
      <3> QED  BY <1>4, <3>1 DEF ArmedTimers
    <2>2. CASE "TIMER_PERIODIC" \in info[h].flags
      <3>1. info'[h].flags = info[h].flags
        BY <1>5, <2>2
      <3>2. ArmedTimers'[e] = ArmedTimers[e]
        BY <1>3, <1>4, <3>1 DEF ArmedTimers, TimerOf
      <3> QED  BY <1>6, <2>1, <2>2, <3>2 DEF ArmedTimers
    <2>3. CASE "TIMER_PERIODIC" \notin info[h].flags
      <3>1. "TIMER_SET" \notin info'[h].flags
        BY <1>5, <2>3 DEF TimerFlags
      <3>2. ArmedTimers'[e] = "no"
        BY <1>3, <1>4, <3>1 DEF ArmedTimers, TimerOf
      <3> QED  BY <1>6, <2>1, <2>3, <3>2, OneArmed
    <2> QED  BY <2>2, <2>3
  <1>8. RunningNow = Contract!Loop /\ RunningNow' = Contract!Running("timer", e)
    BY <1>4, <1>5, Now, Then
  <1>9. Contract!CallOnTimer(e)
    BY <1>4, <1>6, <1>7, <1>8 DEF Contract!CallOnTimer, AttachedEvents
  <1> QED  BY <1>9 DEF Contract!Next

LEMMA EraseStep ==
  ASSUME IInv, ErasePending
  PROVE  Contract!Next \/ UNCHANGED Contract!vars
  <1> USE DEF eventVars
  <1>1. TypeOK /\ RecordInv
    BY DEF IInv, TypeInv
  <1>2. /\ pc = "erase" /\ qNextTick = <<>> /\ UNCHANGED <<handle, qNextTick>>
        /\ \A h \in Handles : h \notin Pending => info'[h] = info[h]
        /\ pc' = IF after # "loop" THEN after
                 ELSE IF Registered \subseteq Pending THEN "done" ELSE "tick"
    BY DEF ErasePending, IInv, TypeInv, TicksInPlace
  <1>3. ASSUME NEW e \in Events, handle[e] # NoHandle
        PROVE  handle[e] \in Registered /\ handle[e] \notin Pending
    BY <1>1, <1>3, RecordOf DEF RecordInv, PendingOnce, Live, Registered
  <1>4. UNCHANGED <<AttachedEvents, ArmedTimers>>
    <2>1. ASSUME NEW e \in Events, handle[e] # NoHandle
          PROVE  info'[handle[e]].flags = info[handle[e]].flags
      BY <1>1, <1>2, <1>3, <2>1, RecordOf
    <2> QED  BY <1>2, <2>1, NothingSeen
  <1>5. RunningNow = Contract!Loop
    BY <1>2, Now
  <1>6. after \in {"tick", "poll", "loop"}
    BY <1>1 DEF TypeOK
  <1>7. CASE pc' = "tick"
    BY <1>2, <1>4, <1>7, SilentStep
  <1>8. CASE pc' = "poll"
    <2>1. Contract!Wait
      BY <1>2, <1>4, <1>5, <1>8, Then DEF Contract!Wait
    <2> QED  BY <2>1 DEF Contract!Next
  <1>9. CASE pc' = "done"
    <2>1. Registered \subseteq Pending
      BY <1>2, <1>6, <1>9
    <2>2. AttachedEvents = {}
      BY <1>3, <2>1 DEF AttachedEvents
    <2>3. Contract!End
      BY <1>2, <1>4, <1>5, <1>9, <2>2, Then DEF Contract!End
    <2> QED  BY <2>3 DEF Contract!Next
  <1> QED  BY <1>2, <1>6, <1>7, <1>8, <1>9

LEMMA DispatchStep ==
  ASSUME IInv, NEW h \in Handles, NEW bit \in IOEvents, Dispatch(h, bit)
  PROVE  Contract!Next \/ UNCHANGED Contract!vars
  <1> USE DEF eventVars, memoryVars
  <1>1. TypeOK /\ RecordInv
    BY DEF IInv, TypeInv
  <1>2. /\ UNCHANGED <<handle, info, qNextTick>> /\ cur' = h /\ pc = "dispatch"
        /\ pc' = IF "DETACHED" \in info[h].flags THEN "dispatch" ELSE "onIO"
        /\ ready[h] # {}
    BY DEF Dispatch
  <1>3. UNCHANGED <<AttachedEvents, ArmedTimers>>
    BY <1>2, NothingSeen
  <1>4. CASE pc' = "dispatch"
    BY <1>2, <1>3, <1>4, SilentStep
  <1>5. CASE pc' = "onIO"
    <2>1. Live(h) /\ h # NoHandle
      BY <1>2, <1>5, HandleAssumption DEF IInv, ControlInv, Live
    <2>2. PICK e \in Events : e = info[h].ev /\ handle[e] = h
      BY <1>1, <2>1, OwnerOf
    <2>3. RunningNow = Contract!Loop /\ RunningNow' = Contract!Running("io", e)
      BY <1>2, <1>5, <2>2, Now, Then
    <2>4. e \in AttachedEvents
      BY <2>1, <2>2 DEF AttachedEvents
    <2>5. Contract!CallOnIO(e)
      BY <1>2, <1>3, <2>3, <2>4 DEF Contract!CallOnIO
    <2> QED  BY <2>5 DEF Contract!Next
  <1> QED  BY <1>2, <1>4, <1>5

LEMMA StepImplements ==
  ASSUME IInv, Next
  PROVE  Contract!Next \/ UNCHANGED Contract!vars
  <1> USE DEF eventVars, memoryVars, controlVars
  <1>1. TypeOK /\ RecordInv
    BY DEF IInv, TypeInv
  <1>2. ASSUME UNCHANGED <<handle, info>>
        PROVE  UNCHANGED <<AttachedEvents, ArmedTimers>>
    BY <1>2, NothingSeen
  <1>3. ASSUME NEW d, info' = Advanced(d), UNCHANGED handle
        PROVE  UNCHANGED <<AttachedEvents, ArmedTimers>>
    BY <1>1, <1>3, AdvancedFields, NothingSeen, RecordOf DEF TypeOK
  <1>4. CASE ApiCall
    BY <1>4, ApiIsRequest
  <1>5. CASE MainReturns \/ TimerReturns \/ TickReturns \/ IOReturns
    <2>1. /\ pc \in UserCode \ {"onClose"} /\ UNCHANGED <<handle, info>>
          /\ pc' \in {"drain", "timers", "dispatch"}
          /\ qNextTick' = IF pc = "onTick" THEN Tail(qNextTick) ELSE qNextTick
      BY <1>5 DEF MainReturns, TimerReturns, TickReturns, IOReturns, UserCode
    <2> QED  BY <1>2, <2>1, ReturnStep
  <1>6. CASE CloseReturns
    BY <1>6, CloseStep DEF CloseReturns, IInv, TypeInv, TicksInPlace
  <1>7. ASSUME NEW d \in 0..MaxElapsed, TickBegins(d)
        PROVE  UNCHANGED Contract!vars
    BY <1>3, <1>7, SilentStep DEF TickBegins
  <1>8. ASSUME NEW h \in Handles, RunTimer(h)
        PROVE  Contract!Next
    BY <1>8, RunTimerIsCallOnTimer
  <1>9. CASE TimersDone \/ TicksDrained \/ ReportDone \/ DispatchDone
    <2>1. /\ UNCHANGED <<handle, info, qNextTick>>
          /\ pc \in {"timers", "drain", "dispatch"}
          /\ pc' \in {"drain", "erase", "dispatch"}
      BY <1>9 DEF TimersDone, TicksDrained, ReportDone, DispatchDone
    <2> QED  BY <1>2, <2>1, SilentStep
  <1>10. CASE RunTick
    <2>1. /\ UNCHANGED <<handle, info, qNextTick>> /\ qNextTick # <<>>
          /\ pc = "drain" /\ pc' \in {"onTick", "onClose"}
      BY <1>10 DEF RunTick
    <2>2. RunningNow = Contract!Loop /\ RunningNow' = Contract!Running("tick", Head(qNextTick))
      BY <2>1, Now, Then
    <2>3. Contract!CallTick
      BY <1>2, <2>1, <2>2 DEF Contract!CallTick
    <2> QED  BY <2>3 DEF Contract!Next
  <1>11. CASE CloseWithoutFD
    BY <1>11, CloseStep DEF CloseWithoutFD
  <1>12. CASE ErasePending
    BY <1>12, EraseStep
  <1>13. ASSUME NEW h \in Handles, NEW bit \in IOEvents, Dispatch(h, bit)
         PROVE  Contract!Next \/ UNCHANGED Contract!vars
    BY <1>13, DispatchStep
  <1>14. ASSUME NEW d \in 0..MaxElapsed, Poll(d)
         PROVE  Contract!Next
    <2>1. /\ info' = Advanced(d) /\ UNCHANGED <<handle, qNextTick>>
          /\ pc = "poll" /\ pc' = "dispatch"
      BY <1>14 DEF Poll
    <2>2. Contract!WakeUp
      BY <1>3, <2>1, Now, Then DEF Contract!WakeUp
    <2> QED  BY <2>2 DEF Contract!Next
  <1>15. CASE PollFails
    <2>1. UNCHANGED <<handle, info, qNextTick>> /\ pc = "poll" /\ pc' = "done"
      BY <1>15 DEF PollFails
    <2>2. Contract!End
      BY <1>2, <2>1, Now, Then DEF Contract!End
    <2> QED  BY <2>2 DEF Contract!Next
  <1> QED  BY <1>4, <1>5, <1>6, <1>7, <1>8, <1>9, <1>10, <1>11, <1>12, <1>13, <1>14,
              <1>15 DEF Next, CallbackReturns, LoopStep

\* The event loop keeps its contract: callbacks run one at a time and only
\* for events that are attached, a timer that is not periodic runs once each
\* time it is set, NextTick callbacks run in the order they were posted, and
\* the loop waits only when none is left.
THEOREM KeepsContract == Spec => ImplementsContract
  <1>1. Init => Contract!Init
    <2> SUFFICES ASSUME Init PROVE Contract!Init
      OBVIOUS
    <2>1. RunningNow = Contract!Main
      BY Now DEF Init
    <2> QED  BY <2>1 DEF Init, Contract!Init, AttachedEvents, ArmedTimers
  <1>2. IInv /\ [Next]_vars => [Contract!Next]_(Contract!vars)
    <2>1. ASSUME IInv, UNCHANGED vars
          PROVE  UNCHANGED Contract!vars
      BY <2>1 DEF vars, Contract!vars, AttachedEvents, ArmedTimers, RunningNow
    <2> QED  BY <2>1, StepImplements
  <1> QED  BY <1>1, <1>2, Invariance, PTL DEF Spec, ImplementsContract, Contract!Spec
=============================================================================
