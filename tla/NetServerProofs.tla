--------------------------- MODULE NetServerProofs ---------------------------
(* Proofs about NetServer, for all values of the constants: descriptors,   *)
(* lifetimes and the order of what the server emits.                       *)
EXTENDS NetServer, TLAPS

\* No Close is in the queue s.
NoClose(s) == \A i \in DOMAIN s : s[i] # "close"

\* A "listening" that no close comes after is in the queue s.
ToBeHeard(s) ==
  \E i \in DOMAIN s :
    /\ s[i] = "listening"
    /\ \A j \in DOMAIN s : j > i => s[j] # "close"

\* The clients that wait and those still to come are not more than all.
ClientsCounted == backlog + budget.clients <= MaxClients

\* The IOEvent: one that does not exist has no descriptor, one that exists
\* owns the server, and what keeps it is the loop, which has its record.
EventInv ==
  /\ ~event.alive => event = Dead
  /\ event.alive => event.linked /\ (event.attached \/ removed)
  /\ removed => event.alive

\* What the function on the stack was called for.
CallInv ==
  /\ running \in {"accept", "break", "failed", "closing"} => event.alive
  /\ running \in {"tick", "closing"} => ticks # <<>>
  /\ running = "closing" => Head(ticks) = "close"
  /\ running = "tick" => Head(ticks) # "close"
  /\ running = "tick" /\ Head(ticks) = "listening" => heard
  /\ running = "accept" => heard

\* A Close that is still posted has its event.
CloseHasEvent == NoClose(ticks) \/ event.alive

\* An event in the loop has been announced, or will be before the loop polls,
\* and what the loop reports was announced.
Announced ==
  /\ event.attached => (heard /\ NoClose(ticks)) \/ ToBeHeard(ticks)
  /\ report # "none" => heard /\ event.attached /\ phase = "dispatch"

IInv ==
  /\ TypeOK
  /\ ClientsCounted
  /\ NoDescriptorLeak
  /\ AttachedIsOpen
  /\ EventInv
  /\ CallInv
  /\ CloseHasEvent
  /\ Announced

-----------------------------------------------------------------------------
(* The queue of callbacks *)

LEMMA AppendPlaces ==
  ASSUME NEW s \in Seq(Posts), NEW x \in Posts
  PROVE  /\ Append(s, x) \in Seq(Posts)
         /\ DOMAIN s = 1 .. Len(s) /\ Len(s) \in Nat
         /\ DOMAIN Append(s, x) = 1 .. (Len(s) + 1)
         /\ \A i \in 1 .. Len(s) : Append(s, x)[i] = s[i]
         /\ Append(s, x)[Len(s) + 1] = x
  OBVIOUS

LEMMA TailPlaces ==
  ASSUME NEW s \in Seq(Posts), s # <<>>
  PROVE  /\ Tail(s) \in Seq(Posts)
         /\ DOMAIN s = 1 .. Len(s) /\ Len(s) \in Nat \ {0}
         /\ DOMAIN Tail(s) = 1 .. (Len(s) - 1)
         /\ \A i \in 1 .. (Len(s) - 1) : Tail(s)[i] = s[i + 1]
         /\ Head(s) = s[1]
  OBVIOUS

LEMMA HeardAt ==
  ASSUME NEW s, NEW k \in DOMAIN s, s[k] = "listening",
         \A j \in DOMAIN s : j > k => s[j] # "close"
  PROVE  ToBeHeard(s)
  BY Zenon DEF ToBeHeard

\* Posting a callback.
LEMMA Posted ==
  ASSUME NEW s \in Seq(Posts), NEW x \in Posts
  PROVE  /\ Append(s, x) \in Seq(Posts) /\ Append(s, x) # <<>>
         /\ s # <<>> => Head(Append(s, x)) = Head(s)
         /\ NoClose(Append(s, x)) <=> NoClose(s) /\ x # "close"
         /\ x = "listening" => ToBeHeard(Append(s, x))
         /\ x # "close" /\ ToBeHeard(s) => ToBeHeard(Append(s, x))
  <1>1. Append(s, x) \in Seq(Posts) /\ Append(s, x) # <<>>
    <2>1. Len(Append(s, x)) # Len(<<>>)
      OBVIOUS
    <2> QED  BY AppendPlaces
  <1>5. s # <<>> => Head(Append(s, x)) = Head(s)
    <2>1. s # <<>> => Len(s) >= 1
      OBVIOUS
    <2> QED  OBVIOUS
  <1>2. NoClose(Append(s, x)) <=> NoClose(s) /\ x # "close"
    BY AppendPlaces DEF NoClose
  <1>3. x = "listening" => ToBeHeard(Append(s, x))
    BY AppendPlaces DEF ToBeHeard
  <1>4. x # "close" /\ ToBeHeard(s) => ToBeHeard(Append(s, x))
    BY DEF ToBeHeard
  <1> QED  BY <1>2, <1>3, <1>4, <1>5

\* A callback leaves the front.
LEMMA Taken ==
  ASSUME NEW s \in Seq(Posts), s # <<>>
  PROVE  /\ Tail(s) \in Seq(Posts) /\ Head(s) \in Posts
         /\ NoClose(s) <=> NoClose(Tail(s)) /\ Head(s) # "close"
         /\ ToBeHeard(s) => \/ ToBeHeard(Tail(s))
                            \/ Head(s) = "listening" /\ NoClose(Tail(s))
  <1>1. Tail(s) \in Seq(Posts) /\ Head(s) \in Posts
    OBVIOUS
  <1>2. NoClose(s) => NoClose(Tail(s)) /\ Head(s) # "close"
    BY DEF NoClose
  <1>3. ASSUME NoClose(Tail(s)), Head(s) # "close"
        PROVE  NoClose(s)
    <2> SUFFICES ASSUME NEW i \in DOMAIN s PROVE s[i] # "close"
      BY DEF NoClose
    <2>1. CASE i = 1
      BY <1>3, <2>1
    <2>2. CASE i # 1
      <3>1. i - 1 \in DOMAIN Tail(s) /\ Tail(s)[i - 1] = s[i]
        BY <2>2
      <3> QED  BY <1>3, <3>1 DEF NoClose
    <2> QED  BY <2>1, <2>2
  <1>4. ASSUME ToBeHeard(s)
        PROVE  ToBeHeard(Tail(s)) \/ (Head(s) = "listening" /\ NoClose(Tail(s)))
    <2>1. PICK i \in DOMAIN s : /\ s[i] = "listening"
                               /\ \A j \in DOMAIN s : j > i => s[j] # "close"
      BY <1>4 DEF ToBeHeard
    <2>2. \A j \in DOMAIN Tail(s) : j > i - 1 => Tail(s)[j] # "close"
      BY <2>1
    <2>3. CASE i = 1
      BY <2>1, <2>3 DEF NoClose
    <2>4. CASE i # 1
      <3>1. i - 1 \in DOMAIN Tail(s) /\ Tail(s)[i - 1] = "listening"
        BY <2>1, <2>4
      <3>2. ToBeHeard(Tail(s))
        BY <2>2, <3>1, HeardAt
      <3> QED  BY <3>2
    <2> QED  BY <2>3, <2>4
  <1> QED  BY <1>2, <1>3, <1>4

\* Every call and failure is taken from the budget.
LEMMA Spent ==
  ASSUME budget \in Budgets
  PROVE  /\ budget.listens > 0 => [budget EXCEPT !.listens = @ - 1] \in Budgets
         /\ budget.closes > 0 => [budget EXCEPT !.closes = @ - 1] \in Budgets
         /\ budget.clients > 0 => [budget EXCEPT !.clients = @ - 1] \in Budgets
         /\ budget.failures > 0 => [budget EXCEPT !.failures = @ - 1] \in Budgets
         /\ budget.clients \in Nat
  <1> USE NetServerAssumption DEF Budgets
  <1>1. budget.listens > 0 => [budget EXCEPT !.listens = @ - 1] \in Budgets
    OBVIOUS
  <1>2. budget.closes > 0 => [budget EXCEPT !.closes = @ - 1] \in Budgets
    OBVIOUS
  <1>3. budget.clients > 0 => [budget EXCEPT !.clients = @ - 1] \in Budgets
    OBVIOUS
  <1>4. budget.failures > 0 => [budget EXCEPT !.failures = @ - 1] \in Budgets
    OBVIOUS
  <1>5. budget.clients \in Nat
    OBVIOUS
  <1> QED  OBVIOUS

-----------------------------------------------------------------------------
(* The steps *)

LEMMA InitIInv == Init => IInv
  <1> SUFFICES ASSUME Init PROVE IInv
    OBVIOUS
  <1>1. budget \in Budgets
    BY NetServerAssumption DEF Init, Budgets
  <1>2. event \in [alive : BOOLEAN, linked : BOOLEAN, attached : BOOLEAN,
                   fd : FDs \cup {NoFD}]
    BY DEF Init, Dead
  <1>3. TypeOK
    <2>1. ticks \in Seq(Posts)
      BY DEF Init
    <2>2. /\ open \subseteq FDs
          /\ backlog \in 0 .. MaxClients
          /\ phase \in {"timers", "drain", "dispatch", "drainAgain"}
          /\ report \in {"none", "READ", "ERROR"}
          /\ running \in Functions
      BY NetServerAssumption DEF Init, Functions
    <2>3. {held, removed, user, aborted, heard, spurious} \subseteq BOOLEAN
      BY DEF Init
    <2> QED  BY <1>1, <1>2, <2>1, <2>2, <2>3 DEF TypeOK
  <1>4. ClientsCounted
    BY NetServerAssumption DEF Init, ClientsCounted
  <1> QED  BY <1>3, <1>4
              DEF Init, IInv, NoDescriptorLeak, AttachedIsOpen, EventInv,
                  CallInv, CloseHasEvent, NoClose, Announced, Dead

LEMMA AlreadyListeningInv ==
  ASSUME IInv, AlreadyListening
  PROVE  IInv'
  <1> USE NetServerAssumption
      DEF IInv, AlreadyListening, MayListen, UseListen, kernelVars, callVars, loopVars
  <1>0. ticks \in Seq(Posts) /\ {"listening", "error", "close"} \subseteq Posts
    BY DEF TypeOK, Posts
  <1>1. TypeOK'
    <2>1. ticks' \in Seq(Posts)
      BY <1>0
    <2>2. budget' \in Budgets
      BY Spent DEF TypeOK
    <2> QED  BY <2>1, <2>2 DEF TypeOK
  <1>2. ClientsCounted' /\ NoDescriptorLeak' /\ AttachedIsOpen'
    BY DEF ClientsCounted, NoDescriptorLeak, AttachedIsOpen
  <1>3. EventInv'
    BY DEF EventInv
  <1>4. CallInv'
    BY Posted DEF CallInv
  <1>5. CloseHasEvent' /\ Announced'
    BY <1>0, Posted DEF CloseHasEvent, Announced
  <1> QED  BY <1>1, <1>2, <1>3, <1>4, <1>5

LEMMA ListenFailsInv ==
  ASSUME IInv, ListenFails
  PROVE  IInv'
  <1> USE NetServerAssumption
      DEF IInv, ListenFails, MayListen, UseListen, kernelVars, callVars, loopVars
  <1>0. ticks \in Seq(Posts) /\ {"listening", "error", "close"} \subseteq Posts
    BY DEF TypeOK, Posts
  <1>1. TypeOK'
    <2>1. ticks' \in Seq(Posts)
      BY <1>0
    <2>2. budget' \in Budgets
      BY Spent DEF TypeOK
    <2> QED  BY <2>1, <2>2 DEF TypeOK
  <1>2. ClientsCounted' /\ NoDescriptorLeak' /\ AttachedIsOpen'
    BY DEF ClientsCounted, NoDescriptorLeak, AttachedIsOpen
  <1>3. EventInv'
    BY DEF EventInv
  <1>4. CallInv'
    BY Posted DEF CallInv
  <1>5. CloseHasEvent' /\ Announced'
    BY <1>0, Posted DEF CloseHasEvent, Announced
  <1> QED  BY <1>1, <1>2, <1>3, <1>4, <1>5

LEMMA ListensInv ==
  ASSUME IInv, NEW fd \in FDs \ open, Listens(fd)
  PROVE  IInv'
  <1> USE NetServerAssumption
      DEF IInv, Listens, MayListen, UseListen, Created, Dead, kernelVars, callVars, loopVars
  <1>0. ticks \in Seq(Posts) /\ {"listening", "error", "close"} \subseteq Posts
    BY DEF TypeOK, Posts
  <1>1. TypeOK'
    <2>1. ticks' \in Seq(Posts)
      BY <1>0
    <2>2. budget' \in Budgets
      BY Spent DEF TypeOK
    <2> QED  BY <2>1, <2>2 DEF TypeOK
  <1>2. ClientsCounted' /\ NoDescriptorLeak' /\ AttachedIsOpen'
    BY DEF ClientsCounted, NoDescriptorLeak, AttachedIsOpen
  <1>3. EventInv'
    BY DEF EventInv
  <1>4. CallInv'
    BY DEF CallInv
  <1>5. CloseHasEvent' /\ Announced'
    BY <1>0, Posted DEF CloseHasEvent, Announced
  <1> QED  BY <1>1, <1>2, <1>3, <1>4, <1>5

LEMMA ListensUnattachedInv ==
  ASSUME IInv, NEW fd \in FDs \ open, ListensUnattached(fd)
  PROVE  IInv'
  <1> USE NetServerAssumption
      DEF IInv, ListensUnattached, MayListen, UseListen, kernelVars, callVars, loopVars
  <1>0. ticks \in Seq(Posts) /\ {"listening", "error", "close"} \subseteq Posts
    BY DEF TypeOK, Posts
  <1>1. TypeOK'
    <2>1. ticks' \in Seq(Posts)
      BY <1>0
    <2>2. budget' \in Budgets
      BY Spent DEF TypeOK
    <2> QED  BY <2>1, <2>2 DEF TypeOK
  <1>2. ClientsCounted' /\ NoDescriptorLeak' /\ AttachedIsOpen'
    BY DEF ClientsCounted, NoDescriptorLeak, AttachedIsOpen, TypeOK
  <1>3. EventInv'
    BY DEF EventInv, TypeOK
  <1>4. CallInv'
    BY Posted DEF CallInv, EventInv, Dead, Announced, TypeOK
  <1>5. CloseHasEvent' /\ Announced'
    <2>1. ~event.attached /\ report = "none"
      BY DEF AttachedIsOpen, NoDescriptorLeak, Announced
    <2>2. event'.alive = event.alive /\ event'.attached = event.attached
      BY DEF TypeOK
    <2> QED  BY <1>0, <2>2, Posted DEF CloseHasEvent, Announced
  <1> QED  BY <1>1, <1>2, <1>3, <1>4, <1>5

LEMMA CloseAttachedInv ==
  ASSUME IInv, CloseAttached
  PROVE  IInv'
  <1> USE NetServerAssumption
      DEF IInv, CloseAttached, MayClose, UseClose, PostClose, kernelVars, callVars, loopVars
  <1>0. ticks \in Seq(Posts) /\ {"listening", "error", "close"} \subseteq Posts
    BY DEF TypeOK, Posts
  <1>1. TypeOK'
    <2>1. ticks' \in Seq(Posts)
      BY <1>0
    <2>2. budget' \in Budgets
      BY Spent DEF TypeOK
    <2> QED  BY <2>1, <2>2 DEF TypeOK
  <1>2. ClientsCounted' /\ NoDescriptorLeak' /\ AttachedIsOpen'
    BY DEF ClientsCounted, NoDescriptorLeak, AttachedIsOpen
  <1>3. EventInv'
    BY DEF EventInv, Dead
  <1>4. CallInv'
    BY DEF CallInv
  <1>5. CloseHasEvent' /\ Announced'
    BY DEF CloseHasEvent, Announced, EventInv, Dead
  <1> QED  BY <1>1, <1>2, <1>3, <1>4, <1>5

LEMMA CloseDetachedInv ==
  ASSUME IInv, CloseDetached
  PROVE  IInv'
  <1> USE NetServerAssumption
      DEF IInv, CloseDetached, MayClose, UseClose, CloseFD, kernelVars, callVars, loopVars
  <1>1. TypeOK'
    <2>1. ticks' \in Seq(Posts)
      BY DEF TypeOK
    <2>2. budget' \in Budgets
      BY Spent DEF TypeOK
    <2> QED  BY <2>2 DEF TypeOK
  <1>2. ClientsCounted' /\ NoDescriptorLeak' /\ AttachedIsOpen'
    BY Spent DEF ClientsCounted, NoDescriptorLeak, AttachedIsOpen, EventInv, CallInv, TypeOK
  <1>3. EventInv'
    BY DEF EventInv, TypeOK
  <1>4. CallInv'
    BY DEF CallInv, TypeOK
  <1>5. CloseHasEvent' /\ Announced'
    BY DEF CloseHasEvent, Announced, TypeOK
  <1> QED  BY <1>1, <1>2, <1>3, <1>4, <1>5

LEMMA ReleaseInv ==
  ASSUME IInv, Release
  PROVE  IInv'
  <1> USE NetServerAssumption
      DEF IInv, Release, kernelVars, callVars, loopVars
  <1>1. TypeOK'
    <2>1. ticks' \in Seq(Posts)
      BY DEF TypeOK
    <2>2. budget' \in Budgets
      BY DEF TypeOK
    <2> QED  BY DEF TypeOK
  <1>2. ClientsCounted' /\ NoDescriptorLeak' /\ AttachedIsOpen'
    BY DEF ClientsCounted, NoDescriptorLeak, AttachedIsOpen
  <1>3. EventInv'
    BY DEF EventInv
  <1>4. CallInv'
    BY DEF CallInv
  <1>5. CloseHasEvent' /\ Announced'
    BY DEF CloseHasEvent, Announced
  <1> QED  BY <1>1, <1>2, <1>3, <1>4, <1>5

LEMMA AcceptInv ==
  ASSUME IInv, Accept
  PROVE  IInv'
  <1> USE NetServerAssumption
      DEF IInv, Accept, kernelVars, callVars, loopVars
  <1>1. TypeOK'
    <2>1. ticks' \in Seq(Posts)
      BY DEF TypeOK
    <2>2. budget' \in Budgets
      BY DEF TypeOK
    <2> QED  BY DEF TypeOK
  <1>2. ClientsCounted' /\ NoDescriptorLeak' /\ AttachedIsOpen'
    BY Spent DEF ClientsCounted, NoDescriptorLeak, AttachedIsOpen, EventInv, CallInv, TypeOK
  <1>3. EventInv'
    BY DEF EventInv
  <1>4. CallInv'
    BY DEF CallInv
  <1>5. CloseHasEvent' /\ Announced'
    BY DEF CloseHasEvent, Announced
  <1> QED  BY <1>1, <1>2, <1>3, <1>4, <1>5

LEMMA AcceptDoneInv ==
  ASSUME IInv, AcceptDone
  PROVE  IInv'
  <1> USE NetServerAssumption
      DEF IInv, AcceptDone, kernelVars, callVars, loopVars
  <1>1. TypeOK'
    <2>1. ticks' \in Seq(Posts)
      BY DEF TypeOK
    <2>2. budget' \in Budgets
      BY DEF TypeOK
    <2> QED  BY DEF TypeOK, Functions
  <1>2. ClientsCounted' /\ NoDescriptorLeak' /\ AttachedIsOpen'
    BY DEF ClientsCounted, NoDescriptorLeak, AttachedIsOpen
  <1>3. EventInv'
    BY DEF EventInv
  <1>4. CallInv'
    BY DEF CallInv
  <1>5. CloseHasEvent' /\ Announced'
    BY DEF CloseHasEvent, Announced
  <1> QED  BY <1>1, <1>2, <1>3, <1>4, <1>5

LEMMA AcceptFailsInv ==
  ASSUME IInv, AcceptFails
  PROVE  IInv'
  <1> USE NetServerAssumption
      DEF IInv, AcceptFails, kernelVars, callVars, loopVars
  <1>1. TypeOK'
    <2>1. ticks' \in Seq(Posts)
      BY DEF TypeOK
    <2>2. budget' \in Budgets
      BY Spent DEF TypeOK
    <2> QED  BY <2>2 DEF TypeOK, Functions
  <1>2. ClientsCounted' /\ NoDescriptorLeak' /\ AttachedIsOpen'
    BY DEF ClientsCounted, NoDescriptorLeak, AttachedIsOpen
  <1>3. EventInv'
    BY DEF EventInv
  <1>4. CallInv'
    BY DEF CallInv
  <1>5. CloseHasEvent' /\ Announced'
    BY DEF CloseHasEvent, Announced
  <1> QED  BY <1>1, <1>2, <1>3, <1>4, <1>5

LEMMA AcceptClosedInv ==
  ASSUME IInv, AcceptClosed
  PROVE  IInv'
  <1> USE NetServerAssumption
      DEF IInv, AcceptClosed, kernelVars, callVars, loopVars
  <1>1. TypeOK'
    <2>1. ticks' \in Seq(Posts)
      BY DEF TypeOK
    <2>2. budget' \in Budgets
      BY DEF TypeOK
    <2> QED  BY DEF TypeOK, Functions
  <1>2. ClientsCounted' /\ NoDescriptorLeak' /\ AttachedIsOpen'
    BY DEF ClientsCounted, NoDescriptorLeak, AttachedIsOpen
  <1>3. EventInv'
    BY DEF EventInv
  <1>4. CallInv'
    BY DEF CallInv
  <1>5. CloseHasEvent' /\ Announced'
    BY DEF CloseHasEvent, Announced
  <1> QED  BY <1>1, <1>2, <1>3, <1>4, <1>5

LEMMA ReturnInv ==
  ASSUME IInv, Return
  PROVE  IInv'
  <1> USE NetServerAssumption
      DEF IInv, Return, kernelVars, callVars, loopVars
  <1>0. ticks \in Seq(Posts) /\ {"listening", "error", "close"} \subseteq Posts
    BY DEF TypeOK, Posts
  <1>1. TypeOK'
    <2>1. ticks' \in Seq(Posts)
      <3>1. running = "tick" => ticks # <<>>
        BY DEF CallInv
      <3> QED  BY <1>0, <3>1
    <2>2. budget' \in Budgets
      BY DEF TypeOK
    <2> QED  BY <2>1 DEF TypeOK, Functions
  <1>2. ClientsCounted' /\ NoDescriptorLeak' /\ AttachedIsOpen'
    BY DEF ClientsCounted, NoDescriptorLeak, AttachedIsOpen
  <1>3. EventInv'
    BY DEF EventInv
  <1>4. CallInv'
    BY DEF CallInv
  <1>5. CloseHasEvent' /\ Announced'
    BY <1>0, Taken DEF CloseHasEvent, Announced, CallInv
  <1> QED  BY <1>1, <1>2, <1>3, <1>4, <1>5

LEMMA CloseAfterErrorInv ==
  ASSUME IInv, CloseAfterError
  PROVE  IInv'
  <1> USE NetServerAssumption
      DEF IInv, CloseAfterError, PostClose, CloseFD, kernelVars, callVars, loopVars
  <1>0. ticks \in Seq(Posts) /\ {"listening", "error", "close"} \subseteq Posts
    BY DEF TypeOK, Posts
  <1>1. TypeOK'
    <2>1. ticks' \in Seq(Posts)
      BY <1>0, Posted
    <2>2. budget' \in Budgets
      BY DEF TypeOK
    <2>3. event' \in [alive : BOOLEAN, linked : BOOLEAN, attached : BOOLEAN,
                      fd : FDs \cup {NoFD}]
      BY DEF TypeOK
    <2>4. /\ open' \subseteq FDs
          /\ backlog' \in 0 .. MaxClients
          /\ report' \in {"none", "READ", "ERROR"}
      BY DEF TypeOK
    <2>5. {aborted', removed'} \subseteq BOOLEAN
      BY DEF TypeOK
    <2> QED  BY <2>1, <2>4, <2>5 DEF TypeOK, Functions
  <1>2. ClientsCounted' /\ NoDescriptorLeak' /\ AttachedIsOpen'
    BY Spent DEF ClientsCounted, NoDescriptorLeak, AttachedIsOpen, EventInv, CallInv, TypeOK
  <1>3. EventInv'
    BY DEF EventInv, Dead, TypeOK
  <1>4. CallInv'
    BY DEF CallInv
  <1>5. CloseHasEvent' /\ Announced'
    BY DEF CloseHasEvent, Announced, EventInv, CallInv, Dead, TypeOK
  <1> QED  BY <1>1, <1>2, <1>3, <1>4, <1>5

LEMMA FinishCloseInv ==
  ASSUME IInv, FinishClose
  PROVE  IInv'
  <1> USE NetServerAssumption
      DEF IInv, FinishClose, CloseFD, kernelVars, callVars, loopVars
  <1>0. ticks \in Seq(Posts) /\ {"listening", "error", "close"} \subseteq Posts
    BY DEF TypeOK, Posts
  <1>1. TypeOK'
    <2>1. ticks' \in Seq(Posts)
      <3>1. ticks # <<>>
        BY DEF CallInv
      <3> QED  BY <1>0, <3>1
    <2>2. budget' \in Budgets
      BY DEF TypeOK
    <2>3. event' \in [alive : BOOLEAN, linked : BOOLEAN, attached : BOOLEAN,
                      fd : FDs \cup {NoFD}]
      BY DEF TypeOK
    <2>4. /\ open' \subseteq FDs
          /\ backlog' \in 0 .. MaxClients
          /\ report' \in {"none", "READ", "ERROR"}
      BY DEF TypeOK
    <2>5. {aborted', removed'} \subseteq BOOLEAN
      BY DEF TypeOK
    <2> QED  BY <2>1, <2>4 DEF TypeOK, Functions
  <1>2. ClientsCounted' /\ NoDescriptorLeak' /\ AttachedIsOpen'
    <2>1. CASE event.fd # NoFD /\ event.attached
      BY <2>1 DEF ClientsCounted, NoDescriptorLeak, AttachedIsOpen
    <2>2. CASE ~(event.fd # NoFD /\ event.attached)
      BY <2>2, Spent DEF ClientsCounted, NoDescriptorLeak, AttachedIsOpen, TypeOK
    <2> QED  BY <2>1, <2>2
  <1>3. EventInv'
    BY DEF EventInv, Dead, TypeOK
  <1>4. CallInv'
    BY DEF CallInv
  <1>5. CloseHasEvent' /\ Announced'
    <2>1. event.alive /\ ticks # <<>> /\ Head(ticks) = "close"
      BY DEF CallInv
    <2>2. ToBeHeard(ticks) => ToBeHeard(ticks')
      BY <1>0, <2>1, Taken
    <2>3. event'.alive = event.alive /\ event'.attached = event.attached
      BY DEF TypeOK
    <2> QED  BY <1>0, <2>1, <2>3, Taken DEF CloseHasEvent, Announced
  <1> QED  BY <1>1, <1>2, <1>3, <1>4, <1>5

LEMMA OtherCallbackInv ==
  ASSUME IInv, OtherCallback
  PROVE  IInv'
  <1> USE NetServerAssumption
      DEF IInv, OtherCallback, Idle, kernelVars, callVars, loopVars
  <1>1. TypeOK'
    <2>1. ticks' \in Seq(Posts)
      BY DEF TypeOK
    <2>2. budget' \in Budgets
      BY DEF TypeOK
    <2> QED  BY DEF TypeOK, Functions
  <1>2. ClientsCounted' /\ NoDescriptorLeak' /\ AttachedIsOpen'
    BY DEF ClientsCounted, NoDescriptorLeak, AttachedIsOpen
  <1>3. EventInv'
    BY DEF EventInv
  <1>4. CallInv'
    BY DEF CallInv
  <1>5. CloseHasEvent' /\ Announced'
    BY DEF CloseHasEvent, Announced
  <1> QED  BY <1>1, <1>2, <1>3, <1>4, <1>5

LEMMA DispatchReadInv ==
  ASSUME IInv, DispatchRead
  PROVE  IInv'
  <1> USE NetServerAssumption
      DEF IInv, DispatchRead, Idle, kernelVars, callVars, loopVars
  <1>1. TypeOK'
    <2>1. ticks' \in Seq(Posts)
      BY DEF TypeOK
    <2>2. budget' \in Budgets
      BY DEF TypeOK
    <2> QED  BY DEF TypeOK, Functions
  <1>2. ClientsCounted' /\ NoDescriptorLeak' /\ AttachedIsOpen'
    BY DEF ClientsCounted, NoDescriptorLeak, AttachedIsOpen
  <1>3. EventInv'
    BY DEF EventInv
  <1>4. CallInv'
    BY DEF CallInv, EventInv, Dead, Announced
  <1>5. CloseHasEvent' /\ Announced'
    BY DEF CloseHasEvent, Announced
  <1> QED  BY <1>1, <1>2, <1>3, <1>4, <1>5

LEMMA DispatchErrorInv ==
  ASSUME IInv, DispatchError
  PROVE  IInv'
  <1> USE NetServerAssumption
      DEF IInv, DispatchError, Idle, kernelVars, callVars, loopVars
  <1>1. TypeOK'
    <2>1. ticks' \in Seq(Posts)
      BY DEF TypeOK
    <2>2. budget' \in Budgets
      BY DEF TypeOK
    <2> QED  BY DEF TypeOK, Functions
  <1>2. ClientsCounted' /\ NoDescriptorLeak' /\ AttachedIsOpen'
    BY DEF ClientsCounted, NoDescriptorLeak, AttachedIsOpen
  <1>3. EventInv'
    BY DEF EventInv
  <1>4. CallInv'
    BY DEF CallInv, EventInv, Dead, Announced
  <1>5. CloseHasEvent' /\ Announced'
    BY DEF CloseHasEvent, Announced
  <1> QED  BY <1>1, <1>2, <1>3, <1>4, <1>5

LEMMA CallbacksDoneInv ==
  ASSUME IInv, CallbacksDone
  PROVE  IInv'
  <1> USE NetServerAssumption
      DEF IInv, CallbacksDone, Idle, kernelVars, callVars, loopVars
  <1>1. TypeOK'
    <2>1. ticks' \in Seq(Posts)
      BY DEF TypeOK
    <2>2. budget' \in Budgets
      BY DEF TypeOK
    <2> QED  BY DEF TypeOK
  <1>2. ClientsCounted' /\ NoDescriptorLeak' /\ AttachedIsOpen'
    BY DEF ClientsCounted, NoDescriptorLeak, AttachedIsOpen
  <1>3. EventInv'
    BY DEF EventInv
  <1>4. CallInv'
    BY DEF CallInv
  <1>5. CloseHasEvent' /\ Announced'
    BY DEF CloseHasEvent, Announced
  <1> QED  BY <1>1, <1>2, <1>3, <1>4, <1>5

LEMMA RunEmissionInv ==
  ASSUME IInv, RunEmission
  PROVE  IInv'
  <1> USE NetServerAssumption
      DEF IInv, RunEmission, Idle, Draining, kernelVars, callVars, loopVars
  <1>0. ticks \in Seq(Posts) /\ {"listening", "error", "close"} \subseteq Posts
    BY DEF TypeOK, Posts
  <1>1. TypeOK'
    <2>1. ticks' \in Seq(Posts)
      BY <1>0
    <2>2. budget' \in Budgets
      BY DEF TypeOK
    <2> QED  BY DEF TypeOK, Functions
  <1>2. ClientsCounted' /\ NoDescriptorLeak' /\ AttachedIsOpen'
    BY DEF ClientsCounted, NoDescriptorLeak, AttachedIsOpen
  <1>3. EventInv'
    BY DEF EventInv
  <1>4. CallInv'
    BY DEF CallInv
  <1>5. CloseHasEvent' /\ Announced'
    BY DEF CloseHasEvent, Announced
  <1> QED  BY <1>1, <1>2, <1>3, <1>4, <1>5

LEMMA RunCloseInv ==
  ASSUME IInv, RunClose
  PROVE  IInv'
  <1> USE NetServerAssumption
      DEF IInv, RunClose, Idle, Draining, kernelVars, callVars, loopVars
  <1>0. ticks \in Seq(Posts) /\ {"listening", "error", "close"} \subseteq Posts
    BY DEF TypeOK, Posts
  <1>1. TypeOK'
    <2>1. ticks' \in Seq(Posts)
      BY <1>0
    <2>2. budget' \in Budgets
      BY DEF TypeOK
    <2> QED  BY DEF TypeOK, Functions
  <1>2. ClientsCounted' /\ NoDescriptorLeak' /\ AttachedIsOpen'
    BY DEF ClientsCounted, NoDescriptorLeak, AttachedIsOpen
  <1>3. EventInv'
    BY DEF EventInv
  <1>4. CallInv'
    BY <1>0, Taken DEF CallInv, CloseHasEvent
  <1>5. CloseHasEvent' /\ Announced'
    BY <1>0, Taken DEF CloseHasEvent, Announced
  <1> QED  BY <1>1, <1>2, <1>3, <1>4, <1>5

LEMMA DrainDoneInv ==
  ASSUME IInv, DrainDone
  PROVE  IInv'
  <1> USE NetServerAssumption
      DEF IInv, DrainDone, Idle, Draining, Destroyed, Reportable, Dead, kernelVars, callVars, loopVars
  <1>1. TypeOK'
    <2>1. ticks' \in Seq(Posts)
      OBVIOUS
    <2>2. budget' \in Budgets
      BY Spent DEF TypeOK
    <2>3. event' \in [alive : BOOLEAN, linked : BOOLEAN, attached : BOOLEAN,
                      fd : FDs \cup {NoFD}]
      <3>1. event' = event \/ event' = Dead
        OBVIOUS
      <3>2. {event, Dead} \subseteq [alive : BOOLEAN, linked : BOOLEAN,
                              attached : BOOLEAN, fd : FDs \cup {NoFD}]
        BY DEF TypeOK
      <3> QED  BY ONLY <3>1, <3>2
    <2>4. /\ open' \subseteq FDs
          /\ backlog' \in 0 .. MaxClients
          /\ report' \in {"none", "READ", "ERROR"}
      BY DEF TypeOK
    <2>5. {aborted', removed'} \subseteq BOOLEAN
      BY DEF TypeOK
    <2> QED  BY <2>2, <2>3, <2>5 DEF TypeOK
  <1>2. ClientsCounted' /\ NoDescriptorLeak' /\ AttachedIsOpen'
    BY Spent DEF ClientsCounted, NoDescriptorLeak, AttachedIsOpen, TypeOK
  <1>3. EventInv'
    BY DEF EventInv
  <1>4. CallInv'
    BY DEF CallInv
  <1>5. CloseHasEvent' /\ Announced'
    <2>1. NoClose(ticks) /\ ~ToBeHeard(ticks) /\ ticks' = ticks
      BY DEF NoClose, ToBeHeard
    <2>2. report' # "none" => event.attached /\ phase = "drain"
      OBVIOUS
    <2>3. event'.attached => event' = event
      OBVIOUS
    <2> QED  BY <2>1 DEF CloseHasEvent, Announced
  <1> QED  BY <1>1, <1>2, <1>3, <1>4, <1>5

LEMMA ConnectInv ==
  ASSUME IInv, Connect
  PROVE  IInv'
  <1> USE NetServerAssumption
      DEF IInv, Connect, kernelVars, callVars, loopVars
  <1>1. TypeOK'
    <2>1. ticks' \in Seq(Posts)
      BY DEF TypeOK
    <2>2. budget' \in Budgets
      BY Spent DEF TypeOK
    <2>3. backlog' \in 0 .. MaxClients
      BY Spent DEF TypeOK, ClientsCounted
    <2> QED  BY <2>2, <2>3 DEF TypeOK
  <1>2. ClientsCounted' /\ NoDescriptorLeak' /\ AttachedIsOpen'
    BY Spent DEF ClientsCounted, NoDescriptorLeak, AttachedIsOpen, EventInv, CallInv, TypeOK
  <1>3. EventInv'
    BY DEF EventInv
  <1>4. CallInv'
    BY DEF CallInv
  <1>5. CloseHasEvent' /\ Announced'
    BY DEF CloseHasEvent, Announced
  <1> QED  BY <1>1, <1>2, <1>3, <1>4, <1>5

LEMMA StutterInv ==
  ASSUME IInv, UNCHANGED vars
  PROVE  IInv'
  <1> USE NetServerAssumption
      DEF IInv, vars, kernelVars, callVars, loopVars
  <1>1. TypeOK'
    <2>1. ticks' \in Seq(Posts)
      BY DEF TypeOK
    <2>2. budget' \in Budgets
      BY DEF TypeOK
    <2> QED  BY DEF TypeOK
  <1>2. ClientsCounted' /\ NoDescriptorLeak' /\ AttachedIsOpen'
    BY DEF ClientsCounted, NoDescriptorLeak, AttachedIsOpen
  <1>3. EventInv'
    BY DEF EventInv
  <1>4. CallInv'
    BY DEF CallInv
  <1>5. CloseHasEvent' /\ Announced'
    BY DEF CloseHasEvent, Announced
  <1> QED  BY <1>1, <1>2, <1>3, <1>4, <1>5

-----------------------------------------------------------------------------
(* The theorems *)

\* Every step of the server, the program and the loop preserves the invariant.
LEMMA StepIInv ==
  ASSUME IInv, [Next]_vars
  PROVE  IInv'
  <1>1. CASE ListenCall
    BY <1>1, AlreadyListeningInv, ListenFailsInv, ListensInv,
       ListensUnattachedInv DEF ListenCall
  <1>2. CASE CloseAttached \/ CloseDetached \/ Release \/ Return
    BY <1>2, CloseAttachedInv, CloseDetachedInv, ReleaseInv, ReturnInv
  <1>3. CASE Accept \/ AcceptDone \/ AcceptFails \/ AcceptClosed
    BY <1>3, AcceptInv, AcceptDoneInv, AcceptFailsInv, AcceptClosedInv
  <1>4. CASE CloseAfterError \/ FinishClose \/ DispatchRead \/ DispatchError
    BY <1>4, CloseAfterErrorInv, FinishCloseInv, DispatchReadInv,
       DispatchErrorInv
  <1>5. CASE CallbacksDone \/ RunEmission \/ RunClose \/ DrainDone
    BY <1>5, CallbacksDoneInv, RunEmissionInv, RunCloseInv, DrainDoneInv
  <1>6. CASE OtherCallback \/ Connect \/ UNCHANGED vars
    BY <1>6, OtherCallbackInv, ConnectInv, StutterInv
  <1> QED  BY <1>1, <1>2, <1>3, <1>4, <1>5, <1>6 DEF Next, UserStep, LoopStep

\* net::Server: descriptors, the life of the event, what runs and what is
\* posted, as IInv says, in every state.
THEOREM ServerInvariant == Spec => []IInv
  <1>1. Init => IInv
    BY InitIInv
  <1>2. IInv /\ [Next]_vars => IInv'
    BY StepIInv
  <1> QED  BY <1>1, <1>2, PTL DEF Spec

\* Every descriptor that Listen opened is closed or in the event, and what the
\* loop polls is open (Server.cpp:36-112, IOEvent.cpp:22-60).
THEOREM DescriptorsKept == Spec => []DescriptorInv
  <1>1. IInv => DescriptorInv
    BY DEF IInv, DescriptorInv
  <1> QED  BY <1>1, ServerInvariant, PTL

\* The server and its event outlive the functions that run for them, and a
\* connection is emitted only while the server listens (Server.cpp:51-73).
THEOREM CallbacksKept == Spec => []CallbacksInTime
  <1>1. IInv => CallbacksInTime
    <2>1. ASSUME IInv, running \notin {"none", "other"} PROVE Alive
      <3>1. CASE running = "tick"
        <4>1. ticks \in Seq(Posts) /\ ticks # <<>> /\ Head(ticks) # "close"
          BY <2>1, <3>1 DEF IInv, TypeOK, CallInv
        <4>2. 1 \in DOMAIN ticks /\ ticks[1] # "close"
          BY <4>1
        <4> QED  BY <4>2 DEF Alive
      <3>2. CASE running # "tick"
        <4>1. event.alive
          BY <2>1, <3>2 DEF IInv, TypeOK, CallInv, Functions
        <4> QED  BY <2>1, <4>1 DEF IInv, EventInv, Alive
      <3> QED  BY <3>1, <3>2
    <2>2. ASSUME IInv, running \in {"accept", "failed", "closing"}
          PROVE  event.alive
      BY <2>2 DEF IInv, CallInv
    <2>3. ASSUME IInv, running = "accept" PROVE heard
      BY <2>3 DEF IInv, CallInv
    <2> QED  BY <2>1, <2>2, <2>3
             DEF CallbacksInTime, ServerOutlivesCallbacks, ConnectionsWhileListening
  <1> QED  BY <1>1, ServerInvariant, PTL
=============================================================================
