---------------------------- MODULE LoopContract ----------------------------
(***************************************************************************)
(* What the event loop promises its users, without records, heaps, removal *)
(* lists or descriptors.                                                   *)
(*                                                                         *)
(* One callback runs at a time.  OnTimer is called for events whose timer  *)
(* is set, and uses up a timer that is not periodic; OnRead and the others *)
(* are called for attached events; NextTick callbacks run in the order     *)
(* they were posted, each once, and the loop waits only when none is left. *)
(***************************************************************************)
EXTENDS Sequences

CONSTANTS Events, UserTick

VARIABLES
  attached,  \* the attached events
  armed,     \* the timer of each event: "no", "once" or "periodic"
  posted,    \* the NextTick callbacks still to finish; an event is its close
  running    \* what the thread is doing

vars == <<attached, armed, posted, running>>

Running(what, e) == [what |-> what, of |-> e]
Main == Running("main", UserTick)
Loop == Running("loop", UserTick)
Waiting == Running("waiting", UserTick)
Ended == Running("ended", UserTick)
Aborted == Running("aborted", UserTick)

InCallback == running.what \in {"main", "timer", "io", "tick"}

TypeOK ==
  /\ attached \subseteq Events
  /\ armed \in [Events -> {"no", "once", "periodic"}]
  /\ posted \in Seq(Events \cup {UserTick})
  /\ running \in [what : {"main", "timer", "io", "tick", "loop", "waiting",
                          "ended", "aborted"},
                  of : Events \cup {UserTick}]

Init ==
  /\ attached = {}
  /\ armed = [e \in Events |-> "no"]
  /\ posted = <<>>
  /\ running = Main

-----------------------------------------------------------------------------
(* What a callback may ask for *)

Attach(e) ==
  /\ e \notin attached
  /\ attached' = attached \cup {e}
  /\ UNCHANGED <<armed, posted>>

Detach(e) ==
  /\ e \in attached
  /\ attached' = attached \ {e}
  /\ armed' = [armed EXCEPT ![e] = "no"]
  /\ UNCHANGED posted

SetTimer(e, kind) ==
  /\ e \in attached
  /\ armed[e] = "no"
  /\ armed' = [armed EXCEPT ![e] = kind]
  /\ UNCHANGED <<attached, posted>>

CancelTimer(e) ==
  /\ armed[e] # "no"
  /\ armed' = [armed EXCEPT ![e] = "no"]
  /\ UNCHANGED <<attached, posted>>

Close(e) ==
  /\ e \in attached
  /\ attached' = attached \ {e}
  /\ armed' = [armed EXCEPT ![e] = "no"]
  /\ posted' = Append(posted, e)

NextTick ==
  /\ posted' = Append(posted, UserTick)
  /\ UNCHANGED <<attached, armed>>

Request ==
  /\ InCallback
  /\ UNCHANGED running
  /\ \/ \E e \in Events : \/ Attach(e)
                          \/ Detach(e)
                          \/ SetTimer(e, "once")
                          \/ SetTimer(e, "periodic")
                          \/ CancelTimer(e)
                          \/ Close(e)
     \/ NextTick

-----------------------------------------------------------------------------
(* What the loop does of itself *)

CallOnTimer(e) ==
  /\ running = Loop
  /\ armed[e] # "no"
  /\ running' = Running("timer", e)
  /\ armed' = IF armed[e] = "once" THEN [armed EXCEPT ![e] = "no"] ELSE armed
  /\ UNCHANGED <<attached, posted>>

CallOnIO(e) ==
  /\ running = Loop
  /\ e \in attached
  /\ running' = Running("io", e)
  /\ UNCHANGED <<attached, armed, posted>>

CallTick ==
  /\ running = Loop
  /\ posted # <<>>
  /\ running' = Running("tick", Head(posted))
  /\ UNCHANGED <<attached, armed, posted>>

\* A second Close finds nothing to close.
SkipTick ==
  /\ running = Loop
  /\ posted # <<>>
  /\ Head(posted) \in Events
  /\ posted' = Tail(posted)
  /\ UNCHANGED <<attached, armed, running>>

Return ==
  /\ InCallback
  /\ running' = Loop
  /\ posted' = IF running.what = "tick" THEN Tail(posted) ELSE posted
  /\ UNCHANGED <<attached, armed>>

\* An event attached again while it is being closed is a misuse the loop
\* does not survive.
Abort ==
  /\ running.what = "tick"
  /\ running.of \in attached
  /\ running' = Aborted
  /\ UNCHANGED <<attached, armed, posted>>

Wait ==
  /\ running = Loop
  /\ posted = <<>>
  /\ running' = Waiting
  /\ UNCHANGED <<attached, armed, posted>>

WakeUp ==
  /\ running = Waiting
  /\ running' = Loop
  /\ UNCHANGED <<attached, armed, posted>>

\* The loop ends when no event is attached, or when waiting fails.
End ==
  /\ \/ running = Loop /\ attached = {} /\ posted = <<>>
     \/ running = Waiting
  /\ running' = Ended
  /\ UNCHANGED <<attached, armed, posted>>

Next ==
  \/ Request
  \/ \E e \in Events : CallOnTimer(e) \/ CallOnIO(e)
  \/ CallTick
  \/ SkipTick
  \/ Return
  \/ Abort
  \/ Wait
  \/ WakeUp
  \/ End

Spec == Init /\ [][Next]_vars
=============================================================================
