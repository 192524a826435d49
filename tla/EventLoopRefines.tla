-------------------------- MODULE EventLoopRefines --------------------------
(* EventLoop implements LoopContract: what the records, the heap and the   *)
(* control state of the loop mean to its users.                            *)
EXTENDS EventLoop

AttachedEvents == {e \in Events : handle[e] # NoHandle}

TimerOf(r) ==
  IF "TIMER_SET" \notin r.flags THEN "no"
  ELSE IF "TIMER_PERIODIC" \in r.flags THEN "periodic" ELSE "once"

ArmedTimers ==
  [e \in Events |-> IF handle[e] = NoHandle THEN "no" ELSE TimerOf(info[handle[e]])]

Phase(what, e) == [what |-> what, of |-> e]

RunningNow ==
  CASE pc = "main" -> Phase("main", UserTick)
    [] pc = "onTimer" -> Phase("timer", info[cur].ev)
    [] pc = "onIO" -> Phase("io", info[cur].ev)
    [] pc \in {"onTick", "onClose"} -> Phase("tick", Head(qNextTick))
    [] pc = "poll" -> Phase("waiting", UserTick)
    [] pc = "done" -> Phase("ended", UserTick)
    [] pc = "abort" -> Phase("aborted", UserTick)
    [] OTHER -> Phase("loop", UserTick)

Contract ==
  INSTANCE LoopContract WITH attached <- AttachedEvents, armed <- ArmedTimers,
                             posted <- qNextTick, running <- RunningNow

\* Every behaviour of the loop is one that LoopContract allows: in
\* particular no callback reaches an event that is detached or whose timer
\* is not set, a timer that is not periodic runs once each time it is set,
\* NextTick callbacks run in order, and the loop never waits on them.
ImplementsContract == Contract!Spec
=============================================================================
