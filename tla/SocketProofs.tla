---------------------------- MODULE SocketProofs ----------------------------
(* Proofs about Socket, for all sizes of its buffers and of the kernel's,  *)
(* all bounds, half-open or not, with or without resets and failures of    *)
(* epoll.                                                                  *)
EXTENDS Socket, SequenceTheorems, TLAPS

\* Whether x is an element of the sequence s.
Has(s, x) == \E i \in DOMAIN s : s[i] = x

\* "close" is at most once in s.
OneClose(s) ==
  \A i, j \in DOMAIN s : s[i] = "close" /\ s[j] = "close" => i = j

-----------------------------------------------------------------------------
(* The inductive invariant *)

\* What a frame may return to: user code is innermost, _emitData returns into
\* _push, and after a "read" callback _doRead returns into _emitData.
StackInv ==
  /\ Len(stack) >= 2 =>
       \/ stack[2] = "emit"
       \/ stack[1] \in {"emit", "onData", "onEnd"}
            /\ stack[2] \in {"pushed", "pushedEOF"}
       \/ stack[1] = "user" /\ stack[2] \in {"rdFlag", "wrFlag", "drained"}
  /\ \A i \in DOMAIN stack : i >= 3 => stack[i] = "emit"

\* The frame f is on the stack, under user code if not on top.
Pending(f) ==
  \/ stack # <<>> /\ stack[1] = f
  \/ Len(stack) >= 2 /\ stack[2] = f

\* Readable: the end is the end of what the peer sent, or of what came
\* before its reset.
ReadInv ==
  /\ kernel.read <= kernel.arrived
  /\ rd.ended => (kernel.fin \/ kernel.reset) /\ kernel.read = kernel.arrived
  /\ ReceivedInOrder

\* Writable: after an error the descriptor takes no more, and either bytes
\* are left or the FIN was tried.
WriteInv ==
  /\ SentInOrder
  /\ wr.error => (kernel.reset \/ ~io.open)
  /\ wr.error => (wr.buf # <<>> \/ wr.shutdown)
  /\ wr.notified => Has(ticks, "write")

\* A destroyed stream emits "close" once, and nothing after it.
CloseInv ==
  /\ OneClose(ticks)
  /\ destroyed <=> (closed \/ Has(ticks, "close"))
  /\ ~(closed /\ Has(ticks, "close"))
  /\ closed => ~At("onData") /\ ~At("onEnd")

\* What epoll knows of the mask, at least when it asks for WRITE.
MaskInv ==
  /\ io.attached => io.alive
  /\ io.registered \subseteq {"READ"}
  /\ io.attached /\ io.mask # io.registered => io.polled = io.mask

\* Whatever is to be sent has a function or a callback that will try, or
\* waits for WRITE.
Waiting ==
  io.attached =>
    /\ wr.buf # <<>> =>
         \/ Has(ticks, "write") \/ Pending("doWrite") \/ Pending("wrFlag")
         \/ "WRITE" \in io.mask /\ ~Pending("drained")
    /\ wr.finish /\ wr.buf = <<>> =>
         wr.shutdown \/ Has(ticks, "write") \/ Pending("doWrite")

UnsentInv == ~Killed => Waiting

\* Without its IOEvent the stream is destroyed and no callback or function
\* that uses the event is to come.
GoneInv ==
  ~InitMayFail =>
    /\ ~io.alive =>
         /\ destroyed
         /\ ~Has(ticks, "read") /\ ~Has(ticks, "write")
         /\ \A i \in DOMAIN stack : stack[i] \in {"user", "emit"}
    /\ ~At("abort")

IInv ==
  /\ TypeOK
  /\ StackInv
  /\ ReadInv
  /\ WriteInv
  /\ CloseInv
  /\ OpenUntilDestroyed
  /\ MaskInv
  /\ UnsentInv
  /\ GoneInv

-----------------------------------------------------------------------------
(* Sequences: the posted callbacks and the call stack *)

LEMMA JoinTicks ==
  ASSUME NEW s \in Seq(Tick), NEW t \in Seq(Tick)
  PROVE  /\ s \o t \in Seq(Tick)
         /\ \A x : Has(s \o t, x) <=> Has(s, x) \/ Has(t, x)
         /\ OneClose(s) /\ OneClose(t) /\ ~(Has(s, "close") /\ Has(t, "close"))
              => OneClose(s \o t)
  <1>1. /\ s \o t \in Seq(Tick)
        /\ Len(s \o t) = Len(s) + Len(t)
        /\ \A i \in 1 .. Len(s) + Len(t) :
             (s \o t)[i] = IF i <= Len(s) THEN s[i] ELSE t[i - Len(s)]
    BY ConcatProperties
  <1>2. /\ DOMAIN s = 1 .. Len(s) /\ DOMAIN t = 1 .. Len(t)
        /\ DOMAIN (s \o t) = 1 .. Len(s) + Len(t)
        /\ Len(s) \in Nat /\ Len(t) \in Nat
    BY <1>1, LenProperties
  <1>3. ASSUME NEW x, Has(s \o t, x)
        PROVE  Has(s, x) \/ Has(t, x)
    BY <1>1, <1>2, <1>3 DEF Has
  <1>4. ASSUME NEW x, Has(s, x)
        PROVE  Has(s \o t, x)
    BY <1>1, <1>2, <1>4 DEF Has
  <1>5. ASSUME NEW x, Has(t, x)
        PROVE  Has(s \o t, x)
    <2>1. PICK i \in 1 .. Len(t) : t[i] = x
      BY <1>2, <1>5 DEF Has
    <2>2. Len(s) + i \in DOMAIN (s \o t) /\ (s \o t)[Len(s) + i] = x
      BY <1>1, <1>2, <2>1
    <2> QED  BY <2>2 DEF Has
  <1>6. ASSUME OneClose(s), OneClose(t), ~(Has(s, "close") /\ Has(t, "close"))
        PROVE  OneClose(s \o t)
    BY <1>1, <1>2, <1>6 DEF OneClose, Has
  <1> QED  BY <1>1, <1>3, <1>4, <1>5, <1>6

LEMMA AppendTick ==
  ASSUME NEW s \in Seq(Tick), NEW y \in Tick
  PROVE  /\ Append(s, y) \in Seq(Tick)
         /\ \A x : Has(Append(s, y), x) <=> Has(s, x) \/ x = y
         /\ OneClose(s) /\ ~(Has(s, "close") /\ y = "close")
              => OneClose(Append(s, y))
  <1>1. /\ Append(s, y) \in Seq(Tick)
        /\ DOMAIN s = 1 .. Len(s) /\ Len(s) \in Nat
        /\ DOMAIN Append(s, y) = 1 .. Len(s) + 1
        /\ \A i \in 1 .. Len(s) : Append(s, y)[i] = s[i]
        /\ Append(s, y)[Len(s) + 1] = y
    OBVIOUS
  <1>2. \A x : Has(Append(s, y), x) <=> Has(s, x) \/ x = y
    BY <1>1 DEF Has
  <1>3. OneClose(s) /\ ~(Has(s, "close") /\ y = "close") => OneClose(Append(s, y))
    BY <1>1 DEF OneClose, Has
  <1> QED  BY <1>1, <1>2, <1>3

LEMMA ShortTicks ==
  /\ <<>> \in Seq(Tick) /\ OneClose(<<>>) /\ \A x : ~Has(<<>>, x)
  /\ \A y \in Tick : /\ <<y>> \in Seq(Tick) /\ OneClose(<<y>>)
                     /\ \A x : Has(<<y>>, x) <=> x = y
  BY DEF OneClose, Has

LEMMA TakeTick ==
  ASSUME NEW s \in Seq(Tick), s # <<>>
  PROVE  /\ Head(s) \in Tick /\ Tail(s) \in Seq(Tick)
         /\ \A x : Has(s, x) <=> Has(Tail(s), x) \/ x = Head(s)
         /\ OneClose(s) =>
              OneClose(Tail(s)) /\ ~(Head(s) = "close" /\ Has(Tail(s), "close"))
  <1>1. /\ Head(s) \in Tick /\ Tail(s) \in Seq(Tick)
        /\ DOMAIN s = 1 .. Len(s) /\ Len(s) \in Nat \ {0}
        /\ DOMAIN Tail(s) = 1 .. Len(s) - 1
        /\ \A i \in 1 .. Len(s) - 1 : Tail(s)[i] = s[i + 1]
        /\ Head(s) = s[1]
    OBVIOUS
  <1>2. ASSUME NEW x, Has(s, x)
        PROVE  Has(Tail(s), x) \/ x = Head(s)
    <2>1. PICK i \in 1 .. Len(s) : s[i] = x
      BY <1>1, <1>2 DEF Has
    <2>2. CASE i # 1
      <3>1. i - 1 \in DOMAIN Tail(s) /\ Tail(s)[i - 1] = x
        BY <1>1, <2>1, <2>2
      <3> QED  BY <3>1 DEF Has
    <2> QED  BY <1>1, <2>1, <2>2
  <1>3. \A x : Has(Tail(s), x) \/ x = Head(s) => Has(s, x)
    BY <1>1 DEF Has
  <1>4. ASSUME OneClose(s)
        PROVE  OneClose(Tail(s)) /\ ~(Head(s) = "close" /\ Has(Tail(s), "close"))
    BY <1>1, <1>4 DEF OneClose, Has
  <1> QED  BY <1>1, <1>2, <1>3, <1>4

\* The innermost function goes on as the frame a.
LEMMA ContinueOne ==
  ASSUME stack \in Seq(Frames), stack # <<>>, NEW a \in Frames,
         Continue(<<a>>)
  PROVE  /\ stack' \in Seq(Frames) /\ Len(stack') = Len(stack)
         /\ DOMAIN stack' = 1 .. Len(stack) /\ Len(stack) \in Nat \ {0}
         /\ stack'[1] = a /\ Head(stack') = a /\ stack' # <<>>
         /\ \A i \in 2 .. Len(stack) : stack'[i] = stack[i]
  <1>1. /\ Tail(stack) \in Seq(Frames) /\ Len(stack) \in Nat \ {0}
        /\ Len(Tail(stack)) = Len(stack) - 1
        /\ \A i \in 1 .. Len(stack) - 1 : Tail(stack)[i] = stack[i + 1]
    OBVIOUS
  <1>2. <<a>> \in Seq(Frames) /\ Len(<<a>>) = 1 /\ <<a>>[1] = a
    OBVIOUS
  <1>3. /\ stack' \in Seq(Frames) /\ Len(stack') = Len(stack)
        /\ \A i \in 1 .. Len(stack) :
             stack'[i] = IF i <= 1 THEN <<a>>[i] ELSE Tail(stack)[i - 1]
    BY <1>1, <1>2, ConcatProperties DEF Continue
  <1>4. stack'[1] = a /\ \A i \in 2 .. Len(stack) : stack'[i] = stack[i]
    BY <1>1, <1>2, <1>3
  <1>5. DOMAIN stack' = 1 .. Len(stack) /\ stack' # <<>>
    BY <1>1, <1>3, LenProperties
  <1>6. Head(stack') = stack'[1]
    BY <1>3, <1>5
  <1> QED  BY <1>1, <1>3, <1>4, <1>5, <1>6

\* The innermost function calls the frame a and will go on as b.
LEMMA ContinueTwo ==
  ASSUME stack \in Seq(Frames), stack # <<>>, NEW a \in Frames, NEW b \in Frames,
         Continue(<<a, b>>)
  PROVE  /\ stack' \in Seq(Frames) /\ Len(stack') = Len(stack) + 1
         /\ DOMAIN stack' = 1 .. Len(stack) + 1 /\ Len(stack) \in Nat \ {0}
         /\ stack'[1] = a /\ Head(stack') = a /\ stack' # <<>> /\ stack'[2] = b
         /\ \A i \in 3 .. Len(stack) + 1 : stack'[i] = stack[i - 1]
  <1>1. /\ Tail(stack) \in Seq(Frames) /\ Len(stack) \in Nat \ {0}
        /\ Len(Tail(stack)) = Len(stack) - 1
        /\ \A i \in 1 .. Len(stack) - 1 : Tail(stack)[i] = stack[i + 1]
    OBVIOUS
  <1>2. <<a, b>> \in Seq(Frames) /\ Len(<<a, b>>) = 2 /\ <<a, b>>[1] = a /\ <<a, b>>[2] = b
    OBVIOUS
  <1>3. /\ stack' \in Seq(Frames) /\ Len(stack') = Len(stack) + 1
        /\ \A i \in 1 .. Len(stack) + 1 :
             stack'[i] = IF i <= 2 THEN <<a, b>>[i] ELSE Tail(stack)[i - 2]
    BY <1>1, <1>2, ConcatProperties DEF Continue
  <1>4. /\ stack'[1] = a /\ stack'[2] = b
        /\ \A i \in 3 .. Len(stack) + 1 : stack'[i] = stack[i - 1]
    BY <1>1, <1>2, <1>3
  <1>5. DOMAIN stack' = 1 .. Len(stack) + 1 /\ stack' # <<>>
    BY <1>1, <1>3, LenProperties
  <1>6. Head(stack') = stack'[1]
    BY <1>3, <1>5
  <1> QED  BY <1>1, <1>3, <1>4, <1>5, <1>6

\* The innermost function returns.
LEMMA Returns ==
  ASSUME stack \in Seq(Frames), stack # <<>>, Return
  PROVE  /\ stack' \in Seq(Frames) /\ Len(stack') = Len(stack) - 1
         /\ DOMAIN stack' = 1 .. Len(stack) - 1 /\ Len(stack) \in Nat \ {0}
         /\ stack' # <<>> => Len(stack) >= 2 /\ Head(stack') = stack'[1]
         /\ \A i \in 1 .. Len(stack) - 1 : stack'[i] = stack[i + 1]
  BY DEF Return

LEMMA TopFrame ==
  ASSUME stack \in Seq(Frames)
  PROVE  /\ Len(stack) \in Nat /\ DOMAIN stack = 1 .. Len(stack)
         /\ stack # <<>> <=> Len(stack) >= 1
         /\ stack # <<>> => Head(stack) = stack[1]
  OBVIOUS

-----------------------------------------------------------------------------
(* Typing *)

\* The event after its mask was set: epoll asks for WRITE if the mask does.
LEMMA MaskSet ==
  ASSUME io \in IOType, MaskInv, NEW m \in SUBSET {"READ", "WRITE"},
         io' = WithMask(m)
  PROVE  /\ io' \in IOType /\ MaskInv'
         /\ io'.mask = m
         /\ io'.alive = io.alive /\ io'.attached = io.attached
         /\ io'.open = io.open
  <1>1. CASE m = io.mask
    BY <1>1 DEF WithMask, MaskInv
  <1>2. CASE m # io.mask
    BY <1>2 DEF WithMask, MaskInv, IOType
  <1> QED  BY <1>1, <1>2

\* What destroy does, whether it is the first time or not.
LEMMA Destroying ==
  ASSUME TypeOK, CloseInv, OpenUntilDestroyed, MaskInv,
         NEW e \in BOOLEAN, DestroyWith(e)
  PROVE  /\ destroyed' /\ destroyed' \in BOOLEAN
         /\ io' \in IOType /\ MaskInv'
         /\ io'.alive = io.alive /\ ~io'.attached /\ (io'.open => io.open)
         /\ io'.alive => ~io'.open
         /\ ticks' \in Seq(Tick)
         /\ \A x : Has(ticks, x) => Has(ticks', x)
         /\ \A x \in {"read", "write"} : Has(ticks', x) => Has(ticks, x)
         /\ OneClose(ticks')
         /\ closed \/ Has(ticks', "close")
         /\ ~(closed /\ Has(ticks', "close"))
  <1> USE DEF TypeOK
  <1>1. CASE destroyed
    BY <1>1 DEF DestroyWith, CloseInv, OpenUntilDestroyed, MaskInv
  <1>2. CASE ~destroyed
    <2> DEFINE first == IF e THEN <<"error">> ELSE <<>>
    <2>1. /\ first \in Seq(Tick) /\ OneClose(first)
          /\ \A x : Has(first, x) => x = "error"
      BY ShortTicks DEF Tick
    <2>2. /\ <<"close">> \in Seq(Tick) /\ OneClose(<<"close">>)
          /\ \A x : Has(<<"close">>, x) <=> x = "close"
      BY ShortTicks DEF Tick
    <2>3. ticks' = ticks \o first \o <<"close">>
      BY <1>2 DEF DestroyWith
    <2>4. ~closed /\ ~Has(ticks, "close") /\ OneClose(ticks)
      BY <1>2 DEF CloseInv
    <2> HIDE DEF first
    <2>5. /\ ticks \o first \in Seq(Tick) /\ OneClose(ticks \o first)
          /\ \A x : Has(ticks \o first, x) <=> Has(ticks, x) \/ Has(first, x)
      BY <2>1, <2>4, JoinTicks
    <2>6. /\ ticks' \in Seq(Tick) /\ OneClose(ticks')
          /\ \A x : Has(ticks', x) <=> Has(ticks \o first, x) \/ x = "close"
      <3>1. ~Has(ticks \o first, "close")
        BY <2>1, <2>4, <2>5
      <3> QED  BY <2>2, <2>3, <2>5, <3>1, JoinTicks
    <2>7. /\ io' \in IOType /\ MaskInv'
          /\ io'.alive = io.alive /\ ~io'.attached /\ (io'.open => io.open)
          /\ io'.alive => ~io'.open
      BY ZenonT(30), <1>2 DEF DestroyWith, IOType, MaskInv
    <2>8. destroyed' = TRUE
      BY <1>2 DEF DestroyWith
    <2>9. Has(ticks', "close")
      BY <2>6
    <2> QED  BY <2>1, <2>4, <2>5, <2>6, <2>7, <2>8, <2>9
  <1> QED  BY <1>1, <1>2

LEMMA Bounds ==
  /\ MaxIn \in Nat /\ MaxOut \in Nat
  /\ SndBuf \in Nat \ {0} /\ RdHighWater \in Nat \ {0}
  BY SocketAssumption

LEMMA UpToLeast ==
  ASSUME NEW a \in Int, NEW b \in Int, NEW n \in 1..Least(a, b)
  PROVE  n \in Nat /\ n <= a /\ n <= b
  BY DEF Least

LEMMA InitEvent ==
  ASSUME Init
  PROVE  \E m \in {{}, {"READ"}} :
           io = Registered(m) \/ (InitMayFail /\ io = NoIOEvent(m))
  <1>1. PICK startReading \in BOOLEAN :
          LET m == IF startReading THEN {"READ"} ELSE {}
          IN  \/ io \in {Registered(m)} \cup (IF InitMayFail THEN {NoIOEvent(m)} ELSE {})
              \/ InitMayFail /\ io = NoIOEvent({})
    BY DEF Init
  <1>2. CASE startReading
    BY <1>1, <1>2
  <1>3. CASE ~startReading
    BY <1>1, <1>3
  <1> QED  BY <1>2, <1>3

LEMMA InitType == Init => TypeOK
  <1> SUFFICES ASSUME Init PROVE TypeOK
    OBVIOUS
  <1> USE Bounds
  <1>1. rd \in RdType /\ io \in IOType
    <2>1. PICK b \in BOOLEAN :
            rd = [flowing |-> b, buf |-> <<>>, ended |-> FALSE,
                  endEmitted |-> FALSE, overrun |-> FALSE, listening |-> FALSE]
      BY DEF Init
    <2>2. rd \in RdType
      BY <2>1 DEF RdType
    <2>3. PICK m \in {{}, {"READ"}} : io = Registered(m) \/ io = NoIOEvent(m)
      BY InitEvent
    <2>4. Registered(m) \in IOType /\ NoIOEvent(m) \in IOType
      BY DEF IOType, Registered, NoIOEvent
    <2> QED  BY <2>2, <2>3, <2>4
  <1>2. wr \in WrType /\ kernel \in KernelType
    BY DEF Init, WrType, KernelType
  <1>3. ticks \in Seq(Tick)
    <2>1. /\ <<>> \in Seq(Tick) /\ <<"read">> \in Seq(Tick)
          /\ <<"error">> \in Seq(Tick)
      BY ShortTicks DEF Tick
    <2> QED  BY <2>1 DEF Init
  <1>4. stack \in Seq(Frames)
    BY DEF Init, Frames, UserFrames
  <1>5. /\ delivered \in Seq(1..MaxIn) /\ sent \in Seq(1..MaxOut)
        /\ accepted \in 0..MaxOut
    BY DEF Init
  <1> QED  BY <1>1, <1>2, <1>3, <1>4, <1>5 DEF Init, TypeOK

LEMMA ApiType ==
  ASSUME IInv, ApiCall
  PROVE  TypeOK'
  <1> USE Bounds DEF IInv, TypeOK
  <1>1. UNCHANGED <<hup, report, stack, kernel, delivered, sent, refused, closed>>
    BY DEF ApiCall
  <1>2. {"read", "emit", "write", "error"} \subseteq Tick
    BY DEF Tick
  <1>3. WriteTick \in Seq(Tick)
    BY <1>2, ShortTicks DEF WriteTick
  <1>4. CASE Pause
    BY <1>1, <1>4 DEF Pause, RdType
  <1>5. CASE Resume
    BY <1>1, <1>2, <1>5, AppendTick DEF Resume, RdType
  <1>6. CASE Listen
    BY <1>1, <1>2, <1>6, AppendTick DEF Listen, RdType
  <1>7. CASE WriteRefused
    BY <1>1, <1>2, <1>7, AppendTick DEF WriteRefused
  <1>8. CASE Write
    <2>1. accepted' \in 1..MaxOut /\ accepted' \in 0..MaxOut
      BY <1>8 DEF Write
    <2>2. wr' \in WrType
      <3>1. Append(wr.buf, accepted') \in Seq(1..MaxOut)
        BY <2>1 DEF WrType
      <3> QED  BY <1>8, <3>1 DEF Write, WrType
    <2>3. ticks' \in Seq(Tick)
      BY <1>3, <1>8, JoinTicks DEF Write
    <2> QED  BY <1>1, <1>8, <2>1, <2>2, <2>3 DEF Write
  <1>9. CASE End
    <2>1. wr' \in WrType
      BY <1>9 DEF End, WrType
    <2>2. <<"error">> \in Seq(Tick)
      BY <1>2, ShortTicks
    <2>3. ticks' \in Seq(Tick)
      BY <1>3, <1>9, <2>2, JoinTicks DEF End
    <2> QED  BY <1>1, <1>9, <2>1, <2>3 DEF End
  <1>10. CASE Destroy
    BY <1>1, <1>10, Destroying DEF Destroy
  <1> QED  BY <1>4, <1>5, <1>6, <1>7, <1>8, <1>9, <1>10 DEF ApiCall

LEMMA ReadableType ==
  ASSUME IInv, EmitData \/ DataReturns \/ EndReturns \/ Pushed
  PROVE  TypeOK'
  <1> USE Bounds DEF IInv, TypeOK, streamVars, history, At
  <1>1. {"onData", "onEnd", "doRead", "doWrite"} \subseteq Frames
    BY DEF Frames, UserFrames
  <1>2. CASE EmitData
    BY <1>1, <1>2, ContinueOne, Returns DEF EmitData
  <1>3. CASE DataReturns
    <2>1. rd' \in RdType /\ rd.buf \in Seq(1..MaxIn)
      <3>1. <<>> \in Seq(1..MaxIn) /\ rd.buf \in Seq(1..MaxIn)
        BY DEF RdType
      <3> QED  BY <1>3, <3>1 DEF DataReturns, RdType
    <2>2. delivered' \in Seq(1..MaxIn)
      BY <1>3, <2>1, ConcatProperties DEF DataReturns
    <2>3. ticks' \in Seq(Tick)
      BY <1>3, AppendTick DEF DataReturns, Tick
    <2>4. stack' \in Seq(Frames)
      BY <1>1, <1>3, ContinueOne, Returns DEF DataReturns
    <2> QED  BY <1>3, <2>1, <2>2, <2>3, <2>4 DEF DataReturns
  <1>4. CASE EndReturns
    BY <1>4, Returns DEF EndReturns, RdType
  <1>5. CASE Pushed
    <2>1. rd' \in RdType
      <3>1. \A o \in BOOLEAN : [rd EXCEPT !.overrun = o] \in RdType
        BY DEF RdType
      <3>2. (Len(rd.buf) > RdHighWater) \in BOOLEAN
        OBVIOUS
      <3>3. [rd EXCEPT !.overrun = (Len(rd.buf) > RdHighWater)] \in RdType
        BY ONLY <3>1, <3>2, Zenon
      <3> QED  BY <1>5, <3>3, Zenon DEF Pushed
    <2>5. refused' \in BOOLEAN
      BY <1>5 DEF Pushed
    <2>2. io.mask \ {"READ"} \in SUBSET {"READ", "WRITE"}
      BY DEF IOType
    <2>3. io' \in IOType
      BY <1>5, <2>2, MaskSet DEF Pushed
    <2>4. stack' \in Seq(Frames) /\ hup' \in BOOLEAN
      BY <1>1, <1>5, ContinueOne DEF Pushed
    <2> QED  BY <1>5, <2>1, <2>3, <2>4, <2>5 DEF Pushed
  <1> QED  BY <1>2, <1>3, <1>4, <1>5

LEMMA ReadingType ==
  ASSUME IInv, \/ ReadData \/ ReadEOF \/ ReadBlocks \/ ReadFails
               \/ SetReadFlag \/ ReadNothing \/ NoSocketEvent
  PROVE  TypeOK'
  <1> USE Bounds DEF IInv, TypeOK, streamVars, history, At
  <1>1. {"emit", "pushed", "pushedEOF", "rdFlag", "user"} \subseteq Frames
    BY DEF Frames, UserFrames
  <1>2. CASE ReadData
    <2> DEFINE n == Least(Available, RdHighWater)
               chunk == [i \in 1..n |-> kernel.read + i]
    <2>1. /\ n \in Nat /\ kernel.read \in Nat /\ kernel.arrived \in Nat
          /\ kernel.read + n <= kernel.arrived /\ kernel.arrived <= MaxIn
      BY SMTT(30), <1>2 DEF ReadData, Available, Least, KernelType
    <2> HIDE DEF n
    <2>2. kernel' \in KernelType
      <3>1. kernel.read + n \in 0..MaxIn
        BY <2>1
      <3>2. kernel' = [kernel EXCEPT !.read = kernel.read + n]
        BY <1>2 DEF ReadData, n
      <3> QED  BY <3>1, <3>2 DEF KernelType
    <2>3. chunk \in Seq(1..MaxIn)
      <3>1. chunk \in [1..n -> 1..MaxIn]
        BY SMTT(30), <2>1
      <3> QED  BY <2>1, <3>1, SeqDef
    <2>4. rd.buf \o chunk \in Seq(1..MaxIn)
      BY <2>3, ConcatProperties DEF RdType
    <2>5. rd' \in RdType
      BY <1>2, <2>4 DEF ReadData, RdType, n
    <2>6. stack' \in Seq(Frames)
      BY <1>1, <1>2, ContinueTwo DEF ReadData
    <2> QED  BY <1>2, <2>2, <2>5, <2>6 DEF ReadData
  <1>3. CASE ReadEOF
    BY <1>1, <1>3, ContinueTwo DEF ReadEOF, RdType
  <1>4. CASE ReadBlocks
    BY <1>1, <1>4, ContinueOne DEF ReadBlocks
  <1>5. CASE ReadFails
    <2>1. kernel' \in KernelType
      BY <1>5 DEF ReadFails, ErrorTaken, KernelType
    <2> QED  BY <1>1, <1>5, <2>1, ContinueTwo DEF ReadFails
  <1>6. CASE SetReadFlag
    <2>1. io.mask \cup {"READ"} \in SUBSET {"READ", "WRITE"}
      BY DEF IOType
    <2> QED  BY <1>6, <2>1, MaskSet, Returns DEF SetReadFlag
  <1>7. CASE ReadNothing
    BY <1>7, Returns DEF ReadNothing
  <1>8. CASE NoSocketEvent
    BY <1>8 DEF NoSocketEvent, Frames
  <1> QED  BY <1>2, <1>3, <1>4, <1>5, <1>6, <1>7, <1>8

LEMMA WritingType ==
  ASSUME IInv, \/ WriteData \/ WriteBlocks \/ WriteFails \/ WriteKills
               \/ SetWriteFlag \/ Drained \/ AfterDrained
  PROVE  TypeOK'
  <1> USE Bounds DEF IInv, TypeOK, streamVars, history, At
  <1>1. {"wrFlag", "drained", "user"} \subseteq Frames
    BY DEF Frames, UserFrames
  <1>2. CASE WriteData
    <2>1. PICK n \in 1..Least(Len(wr.buf), SndBuf - kernel.queued) :
            /\ sent' = sent \o SubSeq(wr.buf, 1, n)
            /\ wr' = [wr EXCEPT !.buf = SubSeq(@, n + 1, Len(@))]
            /\ kernel' = [kernel EXCEPT !.queued = @ + n]
      BY <1>2 DEF WriteData
    <2>2. /\ wr.buf \in Seq(1..MaxOut) /\ Len(wr.buf) \in Nat
          /\ kernel.queued \in Nat
      BY DEF WrType, KernelType
    <2>3. n \in Nat /\ n <= Len(wr.buf) /\ kernel.queued + n <= SndBuf
      <3> DEFINE a == Len(wr.buf)
                 b == SndBuf - kernel.queued
      <3>1. a \in Int /\ b \in Int
        BY <2>2
      <3>4. n \in 1..Least(a, b)
        BY <2>1
      <3>5. n \in Nat /\ n <= a /\ n <= b
        BY ONLY <3>1, <3>4, UpToLeast
      <3> QED  BY <2>2, <3>5
    <2>4. kernel' \in KernelType
      <3>1. kernel.queued + n \in 0..SndBuf
        BY SMTT(30), <2>2, <2>3
      <3> QED  BY <2>1, <3>1 DEF KernelType
    <2>5. /\ SubSeq(wr.buf, 1, n) \in Seq(1..MaxOut)
          /\ SubSeq(wr.buf, n + 1, Len(wr.buf)) \in Seq(1..MaxOut)
      <3>1. \A i \in 1..Len(wr.buf) : wr.buf[i] \in 1..MaxOut
        BY <2>2, ElementOfSeq
      <3>2. \A i \in 1..n : wr.buf[i] \in 1..MaxOut
        BY <2>2, <2>3, <3>1
      <3>3. \A i \in n + 1..Len(wr.buf) : wr.buf[i] \in 1..MaxOut
        BY <2>2, <2>3, <3>1
      <3>4. n + 1 \in Int /\ Len(wr.buf) \in Int /\ n \in Int /\ 1 \in Int
        BY <2>2, <2>3
      <3> QED  BY <3>2, <3>3, <3>4, SubSeqProperties
    <2>6. sent' \in Seq(1..MaxOut)
      BY <2>1, <2>5, ConcatProperties
    <2>7. wr' \in WrType
      BY <2>1, <2>5 DEF WrType
    <2> QED  BY <1>2, <2>4, <2>6, <2>7 DEF WriteData
  <1>3. CASE WriteBlocks
    BY <1>1, <1>3, ContinueOne DEF WriteBlocks
  <1>4. CASE WriteFails
    <2>1. kernel' \in KernelType /\ wr' \in WrType
      BY <1>4 DEF WriteFails, ErrorTaken, KernelType, WrType
    <2> QED  BY <1>1, <1>4, <2>1, ContinueTwo DEF WriteFails
  <1>5. CASE SetWriteFlag
    <2>1. io.mask \cup {"WRITE"} \in SUBSET {"READ", "WRITE"}
      BY DEF IOType
    <2> QED  BY <1>5, <2>1, MaskSet, Returns DEF SetWriteFlag
  <1>6. CASE Drained
    <2>1. stack' \in Seq(Frames)
      BY <1>1, <1>6, ContinueOne, ContinueTwo DEF Drained
    <2>2. ticks' \in Seq(Tick)
      BY <1>6, AppendTick DEF Drained, Tick
    <2>3. wr' \in WrType
      BY <1>6 DEF Drained, WrType
    <2> QED  BY <1>6, <2>1, <2>2, <2>3 DEF Drained
  <1>7. CASE AfterDrained
    <2>1. io.mask \ {"WRITE"} \in SUBSET {"READ", "WRITE"}
      BY DEF IOType
    <2>2. stack' \in Seq(Frames)
      BY <1>7, Returns DEF AfterDrained
    <2>3. io' \in IOType /\ ticks' \in Seq(Tick) /\ destroyed' \in BOOLEAN
      BY <1>7, <2>1, MaskSet, Destroying DEF AfterDrained
    <2> QED  BY <1>7, <2>2, <2>3 DEF AfterDrained
  <1>8. CASE WriteKills
    BY <1>8 DEF WriteKills, Frames
  <1> QED  BY <1>2, <1>3, <1>4, <1>5, <1>6, <1>7, <1>8

LEMMA LoopType ==
  ASSUME IInv, \/ RunTick \/ Poll \/ Erase \/ UserRuns \/ UserReturns
               \/ \E bit \in IOEvents : Dispatch(bit)
  PROVE  TypeOK'
  <1> USE Bounds DEF IInv, TypeOK, streamVars, history, At
  <1>1. CASE RunTick
    <2>1. Head(ticks) \in Tick /\ ticks' \in Seq(Tick)
      BY <1>1, TakeTick DEF RunTick
    <2>2. /\ <<"doRead", "emit">> \in Seq(Frames) /\ <<"emit">> \in Seq(Frames)
          /\ <<"doWrite">> \in Seq(Frames) /\ <<"user">> \in Seq(Frames)
      BY DEF Frames, UserFrames
    <2>3. stack' \in Seq(Frames)
      BY <1>1, <2>2 DEF RunTick
    <2>4. wr' \in WrType
      BY <1>1 DEF RunTick, WrType
    <2>5. refused' \in BOOLEAN /\ closed' \in BOOLEAN
      BY <1>1 DEF RunTick
    <2> QED  BY <1>1, <2>1, <2>3, <2>4, <2>5 DEF RunTick
  <1>2. CASE Poll
    BY <1>2 DEF Poll, Ready, IOEvents, IOType
  <1>3. CASE Erase
    BY <1>3 DEF Erase, IOType
  <1>4. CASE UserRuns
    BY <1>4 DEF UserRuns, Frames, UserFrames
  <1>5. CASE UserReturns
    BY <1>5, Returns DEF UserReturns
  <1>6. ASSUME NEW bit \in IOEvents, Dispatch(bit)
        PROVE  TypeOK'
    <2>1. stack' \in Seq(Frames)
      <3>1. /\ <<>> \in Seq(Frames) /\ <<"doRead">> \in Seq(Frames)
            /\ <<"doWrite">> \in Seq(Frames)
        BY DEF Frames
      <3>2. \/ stack' = stack \/ stack' = <<>>
            \/ stack' = <<"doRead">> \/ stack' = <<"doWrite">>
        BY <1>6 DEF Dispatch
      <3> QED  BY <3>1, <3>2
    <2>2. io' \in IOType /\ ticks' \in Seq(Tick) /\ destroyed' \in BOOLEAN
      BY <1>6, Destroying DEF Dispatch
    <2> QED  BY <1>6, <2>1, <2>2 DEF Dispatch
  <1> QED  BY <1>1, <1>2, <1>3, <1>4, <1>5, <1>6

LEMMA PeerType ==
  ASSUME IInv, Peer
  PROVE  TypeOK'
  <1> USE Bounds DEF IInv, TypeOK, streamVars, history
  <1>1. kernel' \in KernelType
    <2>1. /\ kernel.arrived \in 0..MaxIn /\ kernel.queued \in 0..SndBuf
          /\ 0 \in 0..SndBuf
      BY DEF KernelType
    <2>2. CASE PeerSends
      <3>1. kernel.arrived + 1 \in 0..MaxIn
        BY <2>1, <2>2 DEF PeerSends
      <3> QED  BY <2>2, <3>1 DEF PeerSends, KernelType
    <2>3. CASE PeerCloses \/ PeerResets
      BY <2>1, <2>3 DEF PeerCloses, PeerResets, KernelType
    <2>4. CASE PeerTakes
      <3>1. kernel.queued - 1 \in 0..SndBuf
        BY SMTT(30), <2>1, <2>4 DEF PeerTakes
      <3> QED  BY <2>4, <3>1 DEF PeerTakes, KernelType
    <2> QED  BY <2>2, <2>3, <2>4 DEF Peer
  <1> QED  BY <1>1 DEF Peer

-----------------------------------------------------------------------------
(* The call stack *)

LEMMA ShapeOne ==
  ASSUME stack \in Seq(Frames), StackInv, stack # <<>>, NEW a \in Frames,
         Continue(<<a>>),
         Len(stack) >= 2 =>
           \/ stack[2] = "emit"
           \/ a \in {"emit", "onData", "onEnd"} /\ stack[2] \in {"pushed", "pushedEOF"}
  PROVE  StackInv'
  <1>1. /\ Len(stack') = Len(stack) /\ Len(stack) \in Nat
        /\ DOMAIN stack' = 1 .. Len(stack) /\ DOMAIN stack = 1 .. Len(stack)
        /\ stack'[1] = a
        /\ \A i \in 2 .. Len(stack) : stack'[i] = stack[i]
    BY ContinueOne, TopFrame
  <1>2. Len(stack) >= 2 => stack'[2] = stack[2]
    BY <1>1
  <1>3. \A i \in DOMAIN stack' : i >= 3 => stack'[i] = "emit"
    BY <1>1 DEF StackInv
  <1> QED  BY <1>1, <1>2, <1>3 DEF StackInv

LEMMA ShapeTwo ==
  ASSUME stack \in Seq(Frames), StackInv, stack # <<>>,
         stack[1] \in {"doRead", "doWrite"},
         NEW a \in Frames, NEW b \in Frames, Continue(<<a, b>>),
         \/ a = "emit" /\ b \in {"pushed", "pushedEOF"}
         \/ a = "user" /\ b \in {"rdFlag", "wrFlag", "drained"}
  PROVE  StackInv'
  <1>1. /\ Len(stack') = Len(stack) + 1 /\ Len(stack) \in Nat
        /\ DOMAIN stack' = 1 .. Len(stack) + 1 /\ DOMAIN stack = 1 .. Len(stack)
        /\ stack'[1] = a /\ stack'[2] = b
        /\ \A i \in 3 .. Len(stack) + 1 : stack'[i] = stack[i - 1]
    BY ContinueTwo, TopFrame
  <1>2. Len(stack) >= 2 => stack[2] = "emit"
    BY DEF StackInv
  <1>3. ASSUME NEW i \in DOMAIN stack', i >= 3 PROVE stack'[i] = "emit"
    <2>1. stack'[i] = stack[i - 1] /\ i - 1 \in DOMAIN stack /\ i - 1 >= 2
      BY <1>1, <1>3
    <2> QED  BY <1>1, <1>2, <2>1 DEF StackInv
  <1> QED  BY <1>1, <1>3 DEF StackInv

LEMMA ShapeReturn ==
  ASSUME stack \in Seq(Frames), StackInv, stack # <<>>, Return
  PROVE  StackInv'
  <1>1. /\ Len(stack') = Len(stack) - 1 /\ Len(stack) \in Nat
        /\ DOMAIN stack' = 1 .. Len(stack) - 1 /\ DOMAIN stack = 1 .. Len(stack)
        /\ \A i \in 1 .. Len(stack) - 1 : stack'[i] = stack[i + 1]
    BY Returns, TopFrame
  <1>2. Len(stack') >= 2 => stack'[2] = "emit"
    BY <1>1 DEF StackInv
  <1>3. ASSUME NEW i \in DOMAIN stack', i >= 3 PROVE stack'[i] = "emit"
    <2>1. stack'[i] = stack[i + 1] /\ i + 1 \in DOMAIN stack /\ i + 1 >= 3
      BY <1>1, <1>3
    <2> QED  BY <2>1 DEF StackInv
  <1> QED  BY <1>2, <1>3 DEF StackInv

\* A stack of one frame.
LEMMA ShapeNew ==
  ASSUME NEW f, stack' = <<f>> \/ stack' = <<f, "emit">> \/ stack' = <<>>
  PROVE  StackInv'
  BY DEF StackInv

LEMMA StackStep ==
  ASSUME IInv, Next
  PROVE  StackInv'
  <1> USE DEF IInv, TypeOK, At, streamVars, history
  <1>1. {"onData", "onEnd", "doRead", "doWrite", "emit", "pushed", "pushedEOF",
         "rdFlag", "wrFlag", "drained", "user"} \subseteq Frames
    BY DEF Frames, UserFrames
  <1>2. CASE ApiCall \/ Peer \/ Poll \/ Erase \/ WriteData
    BY <1>2 DEF ApiCall, Peer, Poll, Erase, WriteData, StackInv
  <1>3. CASE EmitData
    <2>3. stack[1] = "emit"
      BY <1>3, TopFrame DEF EmitData
    <2>1. CASE Return
      BY <1>3, <2>1, ShapeReturn DEF EmitData
    <2>2. ASSUME NEW a \in {"onData", "onEnd"}, Continue(<<a>>)
          PROVE  StackInv'
      BY <1>1, <1>3, <2>2, <2>3, ShapeOne DEF EmitData, StackInv
    <2> QED  BY <1>3, <2>1, <2>2 DEF EmitData
  <1>4. CASE DataReturns
    <2>1. stack # <<>> /\ stack[1] = "onData"
      BY <1>4, TopFrame DEF DataReturns
    <2>2. CASE Return
      BY <2>1, <2>2, ShapeReturn
    <2>3. CASE Continue(<<"onEnd">>)
      BY <1>1, <2>1, <2>3, ShapeOne DEF StackInv
    <2> QED  BY <1>4, <2>2, <2>3 DEF DataReturns
  <1>5. CASE EndReturns \/ SetReadFlag \/ ReadNothing \/ SetWriteFlag
             \/ AfterDrained \/ UserReturns
    <2>1. Return /\ stack # <<>>
      BY <1>5 DEF EndReturns, SetReadFlag, ReadNothing, SetWriteFlag,
                  AfterDrained, UserReturns
    <2> QED  BY <2>1, ShapeReturn
  <1>6. CASE Pushed
    <2>1. stack # <<>> /\ stack[1] \in {"pushed", "pushedEOF"}
      BY <1>6, TopFrame DEF Pushed
    <2>2. PICK a \in {"doRead", "doWrite"} : Continue(<<a>>)
      BY <1>6 DEF Pushed
    <2> QED  BY <1>1, <2>1, <2>2, ShapeOne DEF StackInv
  <1>7. CASE ReadData \/ ReadEOF
    <2>1. PICK b \in {"pushed", "pushedEOF"} : Continue(<<"emit", b>>)
      BY <1>7 DEF ReadData, ReadEOF
    <2>2. stack # <<>> /\ stack[1] = "doRead"
      BY <1>7, TopFrame DEF ReadData, ReadEOF
    <2> QED  BY <1>1, <2>1, <2>2, ShapeTwo
  <1>8. CASE ReadBlocks \/ WriteBlocks
    <2>1. PICK a \in {"rdFlag", "wrFlag"} : Continue(<<a>>)
      BY <1>8 DEF ReadBlocks, WriteBlocks
    <2>2. stack # <<>> /\ stack[1] \in {"doRead", "doWrite"}
      BY <1>8, TopFrame DEF ReadBlocks, WriteBlocks
    <2> QED  BY <1>1, <2>1, <2>2, ShapeOne DEF StackInv
  <1>9. CASE ReadFails \/ WriteFails
    <2>1. PICK b \in {"rdFlag", "wrFlag"} : Continue(<<"user", b>>)
      BY <1>9 DEF ReadFails, WriteFails
    <2>2. stack # <<>> /\ stack[1] \in {"doRead", "doWrite"}
      BY <1>9, TopFrame DEF ReadFails, WriteFails
    <2> QED  BY <1>1, <2>1, <2>2, ShapeTwo
  <1>10. CASE Drained
    <2>1. stack # <<>> /\ stack[1] = "doWrite"
      BY <1>10, TopFrame DEF Drained
    <2>2. CASE Continue(<<"drained">>)
      BY <1>1, <2>1, <2>2, ShapeOne DEF StackInv
    <2>3. CASE Continue(<<"user", "drained">>)
      BY <1>1, <2>1, <2>3, ShapeTwo
    <2> QED  BY <1>10, <2>2, <2>3 DEF Drained
  <1>11. CASE NoSocketEvent \/ WriteKills \/ RunTick \/ UserRuns
    <2>1. \/ \E f \in {"abort", "killed", "emit", "doWrite", "user"} : stack' = <<f>>
          \/ stack' = <<"doRead", "emit">>
      BY <1>11 DEF NoSocketEvent, WriteKills, RunTick, UserRuns
    <2> QED  BY <2>1, ShapeNew
  <1>12. ASSUME NEW bit \in IOEvents, Dispatch(bit)
         PROVE  StackInv'
    <2>1. \/ stack' = <<>>
          \/ \E f \in {"doRead", "doWrite"} : stack' = <<f>>
      BY <1>12 DEF Dispatch
    <2> QED  BY <2>1, ShapeNew
  <1> QED  BY <1>2, <1>3, <1>4, <1>5, <1>6, <1>7, <1>8, <1>9, <1>10, <1>11,
              <1>12 DEF Next, CallbackReturns, LoopStep

-----------------------------------------------------------------------------
(* Bytes in *)

LEMMA Regroup ==
  \A a, b, c \in Seq(Nat) : (a \o b) \o c = a \o (b \o c)
  <1> SUFFICES ASSUME NEW a \in Seq(Nat), NEW b \in Seq(Nat), NEW c \in Seq(Nat)
               PROVE  (a \o b) \o c = a \o (b \o c)
    OBVIOUS
  <1> QED  BY SMTT(30), ConcatAssociative

LEMMA BytesType == \A n \in Nat : Bytes(n) \in Seq(Nat) /\ Len(Bytes(n)) = n
  <1> SUFFICES ASSUME NEW n \in Nat
               PROVE  Bytes(n) \in Seq(Nat) /\ Len(Bytes(n)) = n
    OBVIOUS
  <1>1. Bytes(n) \in [1..n -> Nat]
    BY DEF Bytes
  <1> QED  BY <1>1, SeqDef, LenProperties DEF Bytes

\* The next n bytes after the first m.
LEMMA BytesGrow ==
  ASSUME NEW m \in Nat, NEW n \in Nat
  PROVE  /\ [i \in 1..n |-> m + i] \in Seq(Nat)
         /\ Bytes(m) \o [i \in 1..n |-> m + i] = Bytes(m + n)
  <1> DEFINE t == [i \in 1..n |-> m + i]
  <1>1. t \in [1..n -> Nat]
    OBVIOUS
  <1>2. t \in Seq(Nat) /\ Len(t) = n
    BY <1>1, SeqDef, LenProperties
  <1>3. Bytes(m) \in Seq(Nat) /\ Len(Bytes(m)) = m
    BY BytesType
  <1>4. Bytes(m + n) \in Seq(Nat) /\ Len(Bytes(m + n)) = m + n
    BY BytesType
  <1>5. /\ Bytes(m) \o t \in Seq(Nat)
        /\ Len(Bytes(m) \o t) = m + n
        /\ \A i \in 1 .. m + n :
             (Bytes(m) \o t)[i] = IF i <= m THEN Bytes(m)[i] ELSE t[i - m]
    <2> HIDE DEF t
    <2>1. /\ Bytes(m) \o t \in Seq(Nat)
          /\ Len(Bytes(m) \o t) = Len(Bytes(m)) + Len(t)
          /\ \A i \in 1 .. Len(Bytes(m)) + Len(t) :
               (Bytes(m) \o t)[i] = IF i <= Len(Bytes(m)) THEN Bytes(m)[i]
                                                         ELSE t[i - Len(Bytes(m))]
      BY <1>2, <1>3, ConcatProperties
    <2> QED  BY <1>2, <1>3, <2>1
  <1>6. \A i \in 1 .. m + n : (Bytes(m) \o t)[i] = Bytes(m + n)[i]
    <2> SUFFICES ASSUME NEW i \in 1 .. m + n
                 PROVE  (Bytes(m) \o t)[i] = Bytes(m + n)[i]
      OBVIOUS
    <2>1. Bytes(m + n)[i] = i
      BY DEF Bytes
    <2>2. CASE i <= m
      BY <1>5, <2>1, <2>2 DEF Bytes
    <2>3. CASE ~(i <= m)
      <3>1. i - m \in 1..n /\ t[i - m] = i
        BY <2>3
      <3> QED  BY <1>5, <2>1, <2>3, <3>1
    <2> QED  BY <2>2, <2>3
  <1>7. Bytes(m) \o t = Bytes(m + n)
    <2> HIDE DEF t
    <2> QED  BY <1>4, <1>5, <1>6, SeqEqual
  <1> QED  BY <1>2, <1>7

LEMMA ReadStep ==
  ASSUME IInv, Next
  PROVE  ReadInv'
  <1> USE Bounds DEF IInv, TypeOK, streamVars, history
  <1>1. /\ kernel.read \in Nat /\ kernel.arrived \in Nat
        /\ rd.buf \in Seq(1..MaxIn) /\ rd.buf \in Seq(Nat)
        /\ delivered \in Seq(1..MaxIn) /\ delivered \in Seq(Nat)
    <2>1. 1..MaxIn \subseteq Nat
      OBVIOUS
    <2> QED  BY <2>1, SeqMonotonic DEF KernelType, RdType
  <1>2. CASE ReadData
    <2> DEFINE n == Least(Available, RdHighWater)
               chunk == [i \in 1..n |-> kernel.read + i]
    <2>1. /\ rd' = [rd EXCEPT !.buf = @ \o chunk]
          /\ kernel' = [kernel EXCEPT !.read = @ + n]
          /\ delivered' = delivered /\ Available > 0
      BY <1>2 DEF ReadData
    <2>2. n \in Nat /\ n > 0 /\ kernel.read + n <= kernel.arrived
      BY SMTT(30), <1>1, <2>1 DEF Available, Least
    <2> HIDE DEF n
    <2>3. /\ kernel'.read = kernel.read + n /\ kernel'.arrived = kernel.arrived
          /\ kernel'.fin = kernel.fin
          /\ rd'.buf = rd.buf \o chunk /\ rd'.ended = rd.ended
      BY <2>1 DEF RdType, KernelType
    <2>4. /\ chunk \in Seq(Nat)
          /\ Bytes(kernel.read) \o chunk = Bytes(kernel.read + n)
      BY <1>1, <2>2, BytesGrow
    <2>5. delivered \o rd.buf = Bytes(kernel.read)
      BY DEF ReadInv, ReceivedInOrder
    <2> HIDE DEF chunk
    <2>6. (delivered \o rd.buf) \o chunk = delivered \o (rd.buf \o chunk)
      BY ONLY <1>1, <2>4, Regroup, Zenon
    <2>7. delivered' \o rd'.buf = Bytes(kernel'.read)
      BY <2>1, <2>3, <2>4, <2>5, <2>6
    <2>8. ~rd.ended
      BY <1>1, <2>2 DEF ReadInv
    <2> QED  BY <2>2, <2>3, <2>7, <2>8 DEF ReadInv, ReceivedInOrder
  <1>3. CASE DataReturns
    <2>1. /\ rd'.buf = <<>> /\ rd'.ended = rd.ended /\ kernel' = kernel
          /\ delivered' = delivered \o rd.buf
      BY <1>3 DEF DataReturns, RdType
    <2>2. delivered \o rd.buf \in Seq(Nat)
      BY <1>1, ConcatProperties
    <2>3. delivered' \o rd'.buf = delivered \o rd.buf
      BY <2>1, <2>2, ConcatEmptySeq
    <2> QED  BY <2>1, <2>3 DEF ReadInv, ReceivedInOrder
  <1>4. CASE ReadEOF
    <2>1. /\ rd'.buf = rd.buf /\ rd'.ended /\ kernel' = kernel
          /\ delivered' = delivered /\ (kernel.fin \/ kernel.reset)
          /\ Available = 0
      BY <1>4 DEF ReadEOF, RdType
    <2>2. kernel.read = kernel.arrived
      BY <1>1, <2>1 DEF Available
    <2> QED  BY <2>1, <2>2 DEF ReadInv, ReceivedInOrder
  <1>5. CASE Peer
    <2>1. rd' = rd /\ delivered' = delivered
      BY <1>5 DEF Peer
    <2>2. /\ kernel'.read = kernel.read /\ kernel'.arrived >= kernel.arrived
          /\ kernel'.arrived \in Nat
          /\ kernel.fin \/ kernel.reset =>
               (kernel'.fin \/ kernel'.reset) /\ kernel'.arrived = kernel.arrived
      <3>1. CASE PeerSends
        BY <1>1, <3>1 DEF PeerSends, KernelType
      <3>2. CASE PeerCloses \/ PeerResets \/ PeerTakes
        <4>1. /\ kernel'.read = kernel.read /\ kernel'.arrived = kernel.arrived
              /\ kernel.fin \/ kernel.reset => kernel'.fin \/ kernel'.reset
          BY <3>2 DEF PeerCloses, PeerResets, PeerTakes, KernelType
        <4> QED  BY <1>1, <4>1
      <3> QED  BY <1>5, <3>1, <3>2 DEF Peer
    <2> QED  BY SMTT(30), <1>1, <2>1, <2>2 DEF ReadInv, ReceivedInOrder
  <1>6. CASE ApiCall \/ EmitData \/ EndReturns \/ Pushed \/ SetReadFlag
             \/ ReadBlocks \/ ReadNothing \/ NoSocketEvent \/ ReadFails
    <2>1. UNCHANGED <<delivered, rd.buf, rd.ended, kernel.read, kernel.arrived,
                      kernel.fin, kernel.reset>>
      BY <1>6 DEF ApiCall, Pause, Resume, Listen, WriteRefused, Write, End,
                  Destroy, EmitData, EndReturns, Pushed, SetReadFlag, ReadBlocks,
                  ReadNothing, NoSocketEvent, ReadFails, ErrorTaken, RdType, KernelType
    <2> QED  BY <2>1 DEF ReadInv, ReceivedInOrder
  <1>7. CASE WriteData \/ WriteBlocks \/ WriteFails \/ WriteKills \/ SetWriteFlag
             \/ Drained \/ AfterDrained \/ RunTick \/ Poll \/ Erase \/ UserRuns \/ UserReturns
             \/ \E bit \in IOEvents : Dispatch(bit)
    <2>1. UNCHANGED <<delivered, rd.buf, rd.ended, kernel.read, kernel.arrived,
                      kernel.fin, kernel.reset>>
      BY <1>7 DEF WriteData, WriteBlocks, WriteFails, WriteKills, SetWriteFlag,
                  Drained, ErrorTaken, AfterDrained, RunTick, Poll, Erase, UserRuns, UserReturns,
                  Dispatch, KernelType
    <2> QED  BY <2>1 DEF ReadInv, ReceivedInOrder
  <1> QED  BY <1>2, <1>3, <1>4, <1>5, <1>6, <1>7
              DEF Next, CallbackReturns, LoopStep

-----------------------------------------------------------------------------
(* What is posted, and what is called *)

\* Only the loop takes a callback away, and only destroy posts "close".
OnlyPosts ==
  /\ \A x : Has(ticks, x) => Has(ticks', x)
  /\ closed' = closed /\ (destroyed => destroyed')
  /\ OneClose(ticks')
  /\ destroyed' <=> (closed' \/ Has(ticks', "close"))
  /\ ~(closed' /\ Has(ticks', "close"))

LEMMA Posting ==
  ASSUME IInv, Next, ~RunTick
  PROVE  OnlyPosts
  <1> USE DEF IInv, TypeOK, streamVars, history
  <1>1. ASSUME UNCHANGED <<ticks, destroyed, closed>>
        PROVE  OnlyPosts
    BY <1>1 DEF CloseInv, OnlyPosts
  <1>2. ASSUME NEW y \in Tick \ {"close"}, ticks' = Append(ticks, y),
               UNCHANGED <<destroyed, closed>>
        PROVE  OnlyPosts
    BY <1>2, AppendTick DEF CloseInv, OnlyPosts
  <1>3. ASSUME NEW t \in {<<>>, <<"write">>, <<"error">>}, ticks' = ticks \o t,
               UNCHANGED <<destroyed, closed>>
        PROVE  OnlyPosts
    <2>1. t \in Seq(Tick) /\ OneClose(t) /\ ~Has(t, "close")
      BY ShortTicks DEF Tick
    <2>2. /\ \A x : Has(ticks', x) <=> Has(ticks, x) \/ Has(t, x)
          /\ OneClose(ticks')
      BY <1>3, <2>1, JoinTicks DEF CloseInv
    <2> QED  BY <1>3, <2>1, <2>2 DEF CloseInv, OnlyPosts
  <1>4. ASSUME NEW e \in BOOLEAN, DestroyWith(e), UNCHANGED closed
        PROVE  OnlyPosts
    BY <1>4, Destroying DEF OnlyPosts
  <1>5. CASE ApiCall
    <2>1. closed' = closed
      BY <1>5 DEF ApiCall
    <2>2. CASE Destroy
      BY <1>4, <2>1, <2>2 DEF Destroy
    <2>3. CASE Write \/ End
      <3>1. UNCHANGED <<destroyed, closed>>
        BY <2>1, <2>3 DEF Write, End
      <3>2. PICK t \in {<<>>, <<"write">>, <<"error">>} : ticks' = ticks \o t
        BY <2>3 DEF Write, End, WriteTick
      <3> QED  BY <1>3, <3>1, <3>2
    <2>4. CASE Pause \/ Resume \/ Listen \/ WriteRefused
      <3>1. UNCHANGED <<destroyed, closed>>
        BY <2>1, <2>4 DEF Pause, Resume, Listen, WriteRefused
      <3>2. \/ ticks' = ticks
            \/ \E y \in {"read", "emit", "error"} : ticks' = Append(ticks, y)
        BY <2>4 DEF Pause, Resume, Listen, WriteRefused
      <3> QED  BY <1>1, <1>2, <3>1, <3>2 DEF Tick
    <2> QED  BY <1>5, <2>2, <2>3, <2>4 DEF ApiCall
  <1>6. CASE DataReturns \/ Drained
    <2>1. UNCHANGED <<destroyed, closed>>
      BY <1>6 DEF DataReturns, Drained
    <2>2. \/ ticks' = ticks
          \/ \E y \in {"read", "finish", "drain"} : ticks' = Append(ticks, y)
      BY <1>6 DEF DataReturns, Drained
    <2> QED  BY <1>1, <1>2, <2>1, <2>2 DEF Tick
  <1>7. CASE AfterDrained
    <2>1. CASE DestroyWith(FALSE)
      BY <1>4, <1>7, <2>1 DEF AfterDrained
    <2>2. CASE UNCHANGED <<destroyed, ticks>>
      BY <1>1, <1>7, <2>2 DEF AfterDrained
    <2> QED  BY <1>7, <2>1, <2>2 DEF AfterDrained
  <1>8. ASSUME NEW bit \in IOEvents, Dispatch(bit)
        PROVE  OnlyPosts
    <2>1. CASE DestroyWith(TRUE)
      BY <1>4, <1>8, <2>1 DEF Dispatch
    <2>2. CASE UNCHANGED <<destroyed, ticks>>
      BY <1>1, <1>8, <2>2 DEF Dispatch
    <2> QED  BY <1>8, <2>1, <2>2 DEF Dispatch
  <1>9. CASE EmitData \/ EndReturns \/ Pushed \/ ReadData \/ ReadEOF \/ ReadBlocks
             \/ ReadFails \/ SetReadFlag \/ ReadNothing \/ NoSocketEvent
    BY <1>1, <1>9 DEF EmitData, EndReturns, Pushed, ReadData, ReadEOF, ReadBlocks,
                      ReadFails, SetReadFlag, ReadNothing, NoSocketEvent
  <1>10. CASE WriteData \/ WriteBlocks \/ WriteFails \/ WriteKills \/ SetWriteFlag
              \/ Poll \/ Erase \/ UserRuns \/ UserReturns \/ Peer
    BY <1>1, <1>10 DEF WriteData, WriteBlocks, WriteFails, WriteKills, SetWriteFlag,
                       Poll, Erase, UserRuns, UserReturns, Peer
  <1> QED  BY <1>5, <1>6, <1>7, <1>8, <1>9, <1>10 DEF Next, CallbackReturns, LoopStep

\* Only _emitData calls the listeners of "data" and "end", and a frame that
\* is returned to is neither.
LEMMA Tops ==
  ASSUME IInv, Next, stack' # <<>>, Head(stack') \in {"onData", "onEnd", "abort"}
  PROVE  \/ stack' = stack
         \/ EmitData /\ ~destroyed /\ Head(stack') # "abort"
         \/ DataReturns /\ Head(stack') # "abort"
         \/ NoSocketEvent
  <1> USE DEF IInv, TypeOK, At, streamVars, history
  <1>1. {"onData", "onEnd", "doRead", "doWrite", "emit", "pushed", "pushedEOF",
         "rdFlag", "wrFlag", "drained", "user"} \subseteq Frames
    BY DEF Frames, UserFrames
  <1>2. ASSUME Return, stack # <<>>
        PROVE  FALSE
    <2>1. Len(stack) >= 2 /\ Head(stack') = stack[2]
      BY <1>2, Returns
    <2> QED  BY <2>1 DEF StackInv
  <1>3. CASE ApiCall \/ Peer \/ Poll \/ Erase \/ WriteData
    BY <1>3 DEF ApiCall, Peer, Poll, Erase, WriteData
  <1>4. CASE EmitData
    <2>1. ~destroyed
      BY <1>2, <1>4 DEF EmitData
    <2>2. PICK a \in {"onData", "onEnd"} : Continue(<<a>>)
      BY <1>2, <1>4 DEF EmitData
    <2> QED  BY <1>1, <1>4, <2>1, <2>2, ContinueOne DEF EmitData
  <1>5. CASE DataReturns
    <2>1. Continue(<<"onEnd">>)
      BY <1>2, <1>5 DEF DataReturns
    <2> QED  BY <1>1, <1>5, <2>1, ContinueOne DEF DataReturns
  <1>6. CASE EndReturns \/ SetReadFlag \/ ReadNothing \/ SetWriteFlag
             \/ AfterDrained \/ UserReturns
    BY <1>2, <1>6 DEF EndReturns, SetReadFlag, ReadNothing, SetWriteFlag,
                      AfterDrained, UserReturns
  <1>7. CASE Pushed \/ ReadBlocks \/ WriteBlocks
    <2>1. PICK a \in {"doRead", "doWrite", "rdFlag", "wrFlag"} : Continue(<<a>>)
      BY <1>7 DEF Pushed, ReadBlocks, WriteBlocks
    <2>2. stack # <<>>
      BY <1>7 DEF Pushed, ReadBlocks, WriteBlocks
    <2> QED  BY <1>1, <2>1, <2>2, ContinueOne
  <1>8. CASE ReadData \/ ReadEOF \/ ReadFails \/ WriteFails \/ Drained
    <2>1. \/ Continue(<<"drained">>)
          \/ \E a \in {"emit", "user"} :
             \E b \in {"pushed", "pushedEOF", "rdFlag", "wrFlag", "drained"} :
               Continue(<<a, b>>)
      BY <1>8 DEF ReadData, ReadEOF, ReadFails, WriteFails, Drained
    <2>2. stack # <<>>
      BY <1>8 DEF ReadData, ReadEOF, ReadFails, WriteFails, Drained
    <2> QED  BY <1>1, <2>1, <2>2, ContinueOne, ContinueTwo
  <1>9. CASE RunTick \/ UserRuns \/ WriteKills
    BY <1>9 DEF RunTick, UserRuns, WriteKills
  <1>10. ASSUME NEW bit \in IOEvents, Dispatch(bit)
         PROVE  stack' = stack
    <2>1. stack' = stack \/ stack' = <<>> \/ stack' = <<"doRead">> \/ stack' = <<"doWrite">>
      BY <1>10 DEF Dispatch
    <2>2. Head(<<"doRead">>) = "doRead" /\ Head(<<"doWrite">>) = "doWrite"
      OBVIOUS
    <2> QED  BY <2>1, <2>2
  <1> QED  BY <1>3, <1>4, <1>5, <1>6, <1>7, <1>8, <1>9, <1>10
              DEF Next, CallbackReturns, LoopStep

-----------------------------------------------------------------------------
(* Bytes out *)

\* One more byte.
LEMMA BytesAppend ==
  ASSUME NEW a \in Seq(Nat), NEW b \in Seq(Nat), NEW n \in Nat, a \o b = Bytes(n)
  PROVE  a \o Append(b, n + 1) = Bytes(n + 1)
  <1>1. /\ <<n + 1>> = [i \in 1..1 |-> n + i] /\ <<n + 1>> \in Seq(Nat)
        /\ Append(b, n + 1) = b \o <<n + 1>>
    BY AppendIsConcat
  <1>2. (a \o b) \o <<n + 1>> = Bytes(n + 1)
    BY <1>1, BytesGrow
  <1>3. (a \o b) \o <<n + 1>> = a \o (b \o <<n + 1>>)
    BY <1>1, Regroup, Zenon
  <1> QED  BY ONLY <1>1, <1>2, <1>3, Zenon

\* Some bytes move from the front of a buffer to the end of what was sent.
LEMMA BytesMove ==
  ASSUME NEW a \in Seq(Nat), NEW b \in Seq(Nat), NEW n \in 1..Len(b)
  PROVE  (a \o SubSeq(b, 1, n)) \o SubSeq(b, n + 1, Len(b)) = a \o b
  <1>1. Len(b) \in Nat
    OBVIOUS
  <1>2. SubSeq(b, 1, n) \o SubSeq(b, n + 1, Len(b)) = SubSeq(b, 1, Len(b))
    BY <1>1, ConcatAdjacentSubSeq
  <1>3. SubSeq(b, 1, Len(b)) = b
    BY SubSeqFull
  <1>4. SubSeq(b, 1, n) \in Seq(Nat) /\ SubSeq(b, n + 1, Len(b)) \in Seq(Nat)
    <2>1. \A i \in 1..Len(b) : b[i] \in Nat
      BY ElementOfSeq
    <2>2. (\A i \in 1..n : b[i] \in Nat) /\ (\A i \in n + 1..Len(b) : b[i] \in Nat)
      BY <1>1, <2>1
    <2> QED  BY <1>1, <2>2, SubSeqProperties
  <1>5. (a \o SubSeq(b, 1, n)) \o SubSeq(b, n + 1, Len(b))
          = a \o (SubSeq(b, 1, n) \o SubSeq(b, n + 1, Len(b)))
    BY <1>4, Regroup, Zenon
  <1> QED  BY <1>2, <1>3, <1>5, Zenon

LEMMA WriteStep ==
  ASSUME IInv, Next, ~RunTick
  PROVE  WriteInv'
  <1> USE DEF IInv, TypeOK, streamVars, history
  <1>1. /\ wr.buf \in Seq(1..MaxOut) /\ wr.buf \in Seq(Nat)
        /\ sent \in Seq(1..MaxOut) /\ sent \in Seq(Nat) /\ accepted \in Nat
        /\ sent \o wr.buf = Bytes(accepted)
    <2>1. 1..MaxOut \subseteq Nat
      BY Bounds
    <2> QED  BY <2>1, SeqMonotonic, Bounds DEF WrType, WriteInv, SentInOrder
  <1>2. wr.notified => Has(ticks', "write")
    BY Posting DEF WriteInv, OnlyPosts
  <1>3. ASSUME UNCHANGED <<wr, sent, accepted>>,
               kernel.reset => kernel'.reset, io'.open => io.open
        PROVE  WriteInv'
    BY <1>2, <1>3 DEF WriteInv, SentInOrder
  <1>4. CASE ApiCall
    <2>1. UNCHANGED <<sent, kernel>>
      BY <1>4 DEF ApiCall
    <2>2. CASE Pause \/ Resume \/ Listen \/ WriteRefused
      BY <1>3, <2>1, <2>2 DEF Pause, Resume, Listen, WriteRefused
    <2>3. CASE Write
      <3>1. /\ wr' = [wr EXCEPT !.buf = Append(@, accepted + 1), !.notified = TRUE]
            /\ accepted' = accepted + 1 /\ io' = io
            /\ ticks' = ticks \o WriteTick /\ ~wr.error /\ ~wr.finish
        BY <2>3 DEF Write
      <3>2. /\ wr'.buf = Append(wr.buf, accepted + 1)
            /\ wr'.error = wr.error /\ wr'.shutdown = wr.shutdown
        BY <3>1 DEF WrType
      <3>3. sent' \o wr'.buf = Bytes(accepted')
        <4>1. sent \o Append(wr.buf, accepted + 1) = Bytes(accepted + 1)
          BY ONLY <1>1, BytesAppend
        <4> QED  BY <2>1, <3>1, <3>2, <4>1
      <3>4. Has(ticks', "write")
        <4>1. CASE wr.notified
          BY <1>2, <4>1
        <4>2. CASE ~wr.notified
          <5>1. ticks' = ticks \o <<"write">>
            BY <3>1, <4>2 DEF WriteTick
          <5>2. <<"write">> \in Seq(Tick) /\ Has(<<"write">>, "write")
            BY ShortTicks DEF Tick
          <5> QED  BY <5>1, <5>2, JoinTicks
        <4> QED  BY <4>1, <4>2
      <3>5. ~wr.shutdown
        BY <3>1 DEF WriteInv, SentInOrder
      <3> QED  BY <3>1, <3>2, <3>3, <3>4, <3>5 DEF WriteInv, SentInOrder
    <2>4. CASE End
      <3>1. /\ wr' = [wr EXCEPT !.finish = TRUE, !.notified = @ \/ ~wr.error]
            /\ UNCHANGED <<accepted, io>> /\ ~wr.finish
            /\ ticks' = ticks \o (IF wr.error THEN <<"error">> ELSE WriteTick)
        BY <2>4 DEF End
      <3>2. /\ wr'.buf = wr.buf /\ wr'.error = wr.error
            /\ wr'.shutdown = wr.shutdown /\ wr'.finish
            /\ wr'.notified => wr.notified \/ ~wr.error
        BY <3>1 DEF WrType
      <3>3. ASSUME ~wr.notified, ~wr.error
            PROVE  Has(ticks', "write")
        <4>1. ticks' = ticks \o <<"write">>
          BY <3>1, <3>3 DEF WriteTick
        <4>2. <<"write">> \in Seq(Tick) /\ Has(<<"write">>, "write")
          BY ShortTicks DEF Tick
        <4> QED  BY <4>1, <4>2, JoinTicks
      <3> QED  BY <1>2, <2>1, <3>1, <3>2, <3>3 DEF WriteInv, SentInOrder
    <2>5. CASE Destroy
      <3>1. UNCHANGED <<wr, accepted>> /\ (io'.open => io.open)
        BY <2>5, Destroying DEF Destroy
      <3> QED  BY <1>3, <2>1, <3>1
    <2> QED  BY <1>4, <2>2, <2>3, <2>4, <2>5 DEF ApiCall
  <1>5. CASE EmitData \/ DataReturns \/ EndReturns \/ ReadEOF \/ ReadBlocks
             \/ ReadNothing \/ NoSocketEvent \/ WriteBlocks \/ WriteKills \/ Poll
             \/ UserRuns \/ UserReturns
    BY <1>3, <1>5 DEF EmitData, DataReturns, EndReturns, ReadEOF, ReadBlocks,
                      ReadNothing, NoSocketEvent, WriteBlocks, WriteKills, Poll,
                      UserRuns, UserReturns
  <1>6. CASE ReadData \/ ReadFails \/ Peer
    <2>1. UNCHANGED <<wr, sent, accepted, io>>
      BY <1>6 DEF ReadData, ReadFails, Peer
    <2>2. kernel.reset => kernel'.reset
      BY <1>6 DEF ReadData, ReadFails, ErrorTaken, Peer, PeerSends, PeerCloses, PeerResets,
                  PeerTakes, KernelType
    <2> QED  BY <1>3, <2>1, <2>2
  <1>7. CASE Pushed \/ SetReadFlag \/ SetWriteFlag
    <2>1. UNCHANGED <<wr, sent, accepted, kernel>>
      BY <1>7 DEF Pushed, SetReadFlag, SetWriteFlag
    <2>2. io' = io \/ \E m \in SUBSET {"READ", "WRITE"} : io' = WithMask(m)
      <3>1. /\ io.mask \ {"READ"} \in SUBSET {"READ", "WRITE"}
            /\ io.mask \cup {"READ"} \in SUBSET {"READ", "WRITE"}
            /\ io.mask \cup {"WRITE"} \in SUBSET {"READ", "WRITE"}
        BY DEF IOType
      <3> QED  BY <1>7, <3>1 DEF Pushed, SetReadFlag, SetWriteFlag
    <2> QED  BY <1>3, <2>1, <2>2, MaskSet
  <1>8. CASE WriteData
    <2>1. PICK n \in 1..Least(Len(wr.buf), SndBuf - kernel.queued) :
            /\ sent' = sent \o SubSeq(wr.buf, 1, n)
            /\ wr' = [wr EXCEPT !.buf = SubSeq(@, n + 1, Len(@))]
            /\ kernel' = [kernel EXCEPT !.queued = @ + n]
      BY <1>8 DEF WriteData
    <2>2. /\ wr.buf # <<>> /\ io.open /\ ~kernel.reset
          /\ UNCHANGED <<accepted, io>>
      BY <1>8 DEF WriteData
    <2>3. Len(wr.buf) \in Int /\ SndBuf - kernel.queued \in Int
      BY <1>1, Bounds DEF KernelType
    <2>4. n \in 1..Len(wr.buf)
      <3>1. n \in Nat /\ n <= Len(wr.buf)
        BY ONLY <2>1, <2>3, UpToLeast
      <3> QED  BY <2>1, <2>3, <3>1
    <2>5. (sent \o SubSeq(wr.buf, 1, n)) \o SubSeq(wr.buf, n + 1, Len(wr.buf))
            = sent \o wr.buf
      BY ONLY <1>1, <2>4, BytesMove
    <2>6. /\ wr'.buf = SubSeq(wr.buf, n + 1, Len(wr.buf))
          /\ wr'.error = wr.error /\ wr'.shutdown = wr.shutdown
          /\ wr'.notified = wr.notified
      BY <2>1 DEF WrType
    <2>7. ~wr.error /\ ~wr.shutdown
      BY <2>2 DEF WriteInv, SentInOrder
    <2>8. sent' \o wr'.buf = Bytes(accepted')
      BY <1>1, <2>1, <2>2, <2>5, <2>6
    <2> QED  BY <1>2, <2>6, <2>7, <2>8 DEF WriteInv, SentInOrder
  <1>9. CASE WriteFails
    <2>1. /\ wr'.buf = wr.buf /\ wr'.error /\ wr'.shutdown = wr.shutdown
          /\ wr'.finish = wr.finish /\ wr'.notified = wr.notified
      BY <1>9 DEF WriteFails, WrType
    <2>2. /\ UNCHANGED <<sent, accepted, io>> /\ kernel'.reset = kernel.reset
          /\ (kernel.reset \/ ~io.open) /\ wr.buf # <<>>
      BY <1>9 DEF WriteFails, ErrorTaken, KernelType
    <2> QED  BY <1>2, <2>1, <2>2 DEF WriteInv, SentInOrder
  <1>10. CASE Drained
    <2>1. UNCHANGED <<sent, accepted, io, kernel>> /\ wr.buf = <<>>
      BY <1>10 DEF Drained
    <2>2. CASE wr.shutdown
      BY <1>3, <1>10, <2>1, <2>2 DEF Drained
    <2>3. CASE ~wr.shutdown
      <3> DEFINE ok == ~wr.finish \/ (io.open /\ ~kernel.reset)
      <3>1. wr' = [wr EXCEPT !.shutdown = wr.finish, !.error = @ \/ ~ok]
        BY <1>10, <2>3 DEF Drained
      <3>2. /\ wr'.buf = wr.buf /\ wr'.shutdown = wr.finish
            /\ wr'.finish = wr.finish /\ wr'.notified = wr.notified
            /\ wr'.error => wr.error \/ ~ok
        BY <3>1 DEF WrType
      <3>3. ~wr.error
        BY <2>1, <2>3 DEF WriteInv
      <3> QED  BY <1>2, <2>1, <3>2, <3>3 DEF WriteInv, SentInOrder
    <2> QED  BY <2>2, <2>3
  <1>11. CASE AfterDrained
    <2>1. UNCHANGED <<wr, sent, accepted, kernel>>
      BY <1>11 DEF AfterDrained
    <2>2. io.mask \ {"WRITE"} \in SUBSET {"READ", "WRITE"}
      BY DEF IOType
    <2>3. io'.open => io.open
      BY <1>11, <2>2, MaskSet, Destroying DEF AfterDrained
    <2> QED  BY <1>3, <2>1, <2>3
  <1>12. CASE Erase
    <2>1. UNCHANGED <<wr, sent, accepted, kernel>> /\ io'.open = io.open
      BY <1>12 DEF Erase, IOType
    <2> QED  BY <1>3, <2>1
  <1>13. ASSUME NEW bit \in IOEvents, Dispatch(bit)
         PROVE  WriteInv'
    <2>1. UNCHANGED <<wr, sent, accepted, kernel>>
      BY <1>13 DEF Dispatch
    <2>2. io'.open => io.open
      BY <1>13, Destroying DEF Dispatch
    <2> QED  BY <1>3, <2>1, <2>2
  <1> QED  BY <1>4, <1>5, <1>6, <1>7, <1>8, <1>9, <1>10, <1>11, <1>12, <1>13
              DEF Next, CallbackReturns, LoopStep

-----------------------------------------------------------------------------
(* "close" *)

LEMMA CloseStep ==
  ASSUME IInv, Next, ~RunTick
  PROVE  CloseInv'
  <1>1. OnlyPosts
    BY Posting
  <1>2. ASSUME closed', stack' # <<>>, Head(stack') \in {"onData", "onEnd"}
        PROVE  FALSE
    <2>1. closed /\ destroyed
      BY <1>1, <1>2 DEF OnlyPosts, IInv, CloseInv
    <2>2. CASE stack' = stack
      BY <1>2, <2>1, <2>2 DEF IInv, CloseInv, At
    <2>3. CASE DataReturns
      BY <2>1, <2>3 DEF DataReturns, IInv, CloseInv
    <2>4. CASE NoSocketEvent
      BY <1>2, <2>4 DEF NoSocketEvent
    <2> QED  BY <1>2, <2>1, <2>2, <2>3, <2>4, Tops
  <1> QED  BY <1>1, <1>2 DEF OnlyPosts, CloseInv, At

\* The callback of the loop takes the first of the posted ones.
LEMMA TickStep ==
  ASSUME IInv, RunTick
  PROVE  WriteInv' /\ CloseInv'
  <1> USE DEF IInv, TypeOK, streamVars
  <1>1. /\ Head(ticks) \in Tick /\ ticks' \in Seq(Tick)
        /\ \A x : Has(ticks, x) <=> Has(ticks', x) \/ x = Head(ticks)
        /\ OneClose(ticks) =>
             OneClose(ticks') /\ ~(Head(ticks) = "close" /\ Has(ticks', "close"))
    BY TakeTick DEF RunTick
  <1>2. WriteInv'
    <2>1. /\ wr'.buf = wr.buf /\ wr'.finish = wr.finish /\ wr'.error = wr.error
          /\ wr'.shutdown = wr.shutdown
          /\ wr'.notified => wr.notified /\ Head(ticks) # "write"
          /\ UNCHANGED <<sent, accepted, io, kernel>>
      BY DEF RunTick, WrType
    <2>2. wr'.notified => Has(ticks', "write")
      BY <1>1, <2>1 DEF WriteInv
    <2> QED  BY <2>1, <2>2 DEF WriteInv, SentInOrder
  <1>3. CloseInv'
    <2>1. stack' # <<>> => Head(stack') \notin {"onData", "onEnd"}
      BY Tops DEF RunTick, Idle, Next, LoopStep, EmitData, DataReturns,
                  NoSocketEvent, At
    <2>2. destroyed' = destroyed /\ closed' = (closed \/ Head(ticks) = "close")
      BY DEF RunTick
    <2> QED  BY <1>1, <2>1, <2>2 DEF CloseInv, At
  <1> QED  BY <1>2, <1>3

-----------------------------------------------------------------------------
(* The event *)

LEMMA MaskStep ==
  ASSUME IInv, Next
  PROVE  /\ MaskInv' /\ OpenUntilDestroyed'
         /\ io'.alive = io.alive \/ Erase
         /\ io'.attached => io.attached
  <1> USE DEF IInv, TypeOK, streamVars, history
  <1> DEFINE Kept == /\ MaskInv' /\ OpenUntilDestroyed'
                     /\ io'.alive = io.alive \/ Erase
                     /\ io'.attached => io.attached
  <1>1. ASSUME UNCHANGED <<io, destroyed>>
        PROVE  Kept
    BY <1>1 DEF MaskInv, OpenUntilDestroyed
  <1>2. ASSUME NEW m \in SUBSET {"READ", "WRITE"}, io' = WithMask(m),
               UNCHANGED destroyed
        PROVE  Kept
    BY <1>2, MaskSet DEF OpenUntilDestroyed
  <1>3. ASSUME NEW e \in BOOLEAN, DestroyWith(e)
        PROVE  Kept
    BY <1>3, Destroying DEF OpenUntilDestroyed
  <1>4. CASE ApiCall
    <2>1. CASE Destroy
      BY <1>3, <2>1 DEF Destroy
    <2>2. CASE Pause \/ Resume \/ Listen \/ WriteRefused \/ Write \/ End
      BY <1>1, <2>2 DEF Pause, Resume, Listen, WriteRefused, Write, End
    <2> QED  BY <1>4, <2>1, <2>2 DEF ApiCall
  <1>5. CASE Pushed \/ SetReadFlag \/ SetWriteFlag
    <2>1. UNCHANGED destroyed
      BY <1>5 DEF Pushed, SetReadFlag, SetWriteFlag
    <2>2. io' = io \/ \E m \in SUBSET {"READ", "WRITE"} : io' = WithMask(m)
      <3>1. /\ io.mask \ {"READ"} \in SUBSET {"READ", "WRITE"}
            /\ io.mask \cup {"READ"} \in SUBSET {"READ", "WRITE"}
            /\ io.mask \cup {"WRITE"} \in SUBSET {"READ", "WRITE"}
        BY DEF IOType
      <3> QED  BY <1>5, <3>1 DEF Pushed, SetReadFlag, SetWriteFlag
    <2> QED  BY <1>1, <1>2, <2>1, <2>2
  <1>6. CASE AfterDrained
    <2>1. io.mask \ {"WRITE"} \in SUBSET {"READ", "WRITE"}
      BY DEF IOType
    <2> QED  BY <1>2, <1>3, <1>6, <2>1 DEF AfterDrained
  <1>7. CASE Erase
    BY <1>7 DEF Erase, MaskInv, OpenUntilDestroyed, IOType
  <1>8. ASSUME NEW bit \in IOEvents, Dispatch(bit)
        PROVE  Kept
    BY <1>1, <1>3, <1>8 DEF Dispatch
  <1>9. CASE EmitData \/ DataReturns \/ EndReturns \/ ReadData \/ ReadEOF
             \/ ReadBlocks \/ ReadFails \/ ReadNothing \/ NoSocketEvent
    BY <1>1, <1>9 DEF EmitData, DataReturns, EndReturns, ReadData, ReadEOF,
                      ReadBlocks, ReadFails, ReadNothing, NoSocketEvent
  <1>10. CASE WriteData \/ WriteBlocks \/ WriteFails \/ WriteKills \/ Drained
              \/ RunTick \/ Poll \/ UserRuns \/ UserReturns \/ Peer
    BY <1>1, <1>10 DEF WriteData, WriteBlocks, WriteFails, WriteKills, Drained,
                       RunTick, Poll, UserRuns, UserReturns, Peer
  <1> QED  BY <1>4, <1>5, <1>6, <1>7, <1>8, <1>9, <1>10
              DEF Next, CallbackReturns, LoopStep

LEMMA GoneStep ==
  ASSUME IInv, Next
  PROVE  GoneInv'
  <1> SUFFICES ASSUME ~InitMayFail PROVE GoneInv'
    BY DEF GoneInv
  <1> USE DEF IInv, TypeOK, streamVars, history
  <1>1. ~At("abort")'
    <2> SUFFICES ASSUME stack' # <<>>, Head(stack') = "abort" PROVE FALSE
      BY DEF At
    <2>1. stack' = stack \/ NoSocketEvent
      BY Tops
    <2>2. CASE NoSocketEvent
      BY <2>2, TopFrame DEF NoSocketEvent, At, GoneInv
    <2> QED  BY <2>1, <2>2 DEF GoneInv, At
  <1>2. CASE Erase
    BY <1>1, <1>2 DEF Erase, Idle, MaskInv, OpenUntilDestroyed, GoneInv, Has
  <1>3. CASE io'.alive
    BY <1>1, <1>3 DEF GoneInv
  <1>4. CASE ~io'.alive /\ ~Erase
    <2>1. /\ ~io.alive /\ ~io.attached /\ destroyed
          /\ ~Has(ticks, "read") /\ ~Has(ticks, "write")
          /\ \A i \in DOMAIN stack : stack[i] \in {"user", "emit"}
      BY <1>4, MaskStep DEF MaskInv, GoneInv
    <2>2. stack # <<>> => Head(stack) \in {"user", "emit"}
      <3> SUFFICES ASSUME stack # <<>> PROVE Head(stack) \in {"user", "emit"}
        OBVIOUS
      <3>1. 1 \in DOMAIN stack /\ Head(stack) = stack[1]
        BY TopFrame
      <3> QED  BY <2>1, <3>1
    <2>3. ASSUME UNCHANGED ticks
          PROVE  ~Has(ticks', "read") /\ ~Has(ticks', "write")
      BY <2>1, <2>3
    <2>4. ASSUME Return, stack # <<>>
          PROVE  \A i \in DOMAIN stack' : stack'[i] \in {"user", "emit"}
      <3> SUFFICES ASSUME NEW i \in DOMAIN stack'
                   PROVE  stack'[i] \in {"user", "emit"}
        OBVIOUS
      <3>1. i + 1 \in DOMAIN stack /\ stack'[i] = stack[i + 1]
        BY <2>4, Returns, TopFrame
      <3> QED  BY <2>1, <3>1
    <2>5. CASE ApiCall
      <3>1. Pause \/ Listen \/ WriteRefused
        BY <2>1, <2>5 DEF ApiCall, Resume, Write, End, Destroy
      <3>2. ~Has(ticks', "read") /\ ~Has(ticks', "write")
        <4>1. ticks' = ticks \/ \E y \in {"emit", "error"} : ticks' = Append(ticks, y)
          BY <3>1 DEF Pause, Listen, WriteRefused
        <4>2. ASSUME NEW y \in {"emit", "error"}, ticks' = Append(ticks, y)
              PROVE  ~Has(ticks', "read") /\ ~Has(ticks', "write")
          <5>1. \A x : Has(ticks', x) <=> Has(ticks, x) \/ x = y
            BY <4>2, AppendTick DEF Tick
          <5> QED  BY <2>1, <5>1
        <4> QED  BY <2>1, <4>1, <4>2
      <3>3. destroyed' /\ UNCHANGED stack
        BY <2>1, <2>5, <3>1 DEF ApiCall, Pause, Listen, WriteRefused
      <3> QED  BY <1>1, <2>1, <3>2, <3>3 DEF GoneInv
    <2>6. CASE EmitData \/ UserReturns
      <3>1. Return /\ stack # <<>> /\ UNCHANGED <<ticks, destroyed>>
        BY <2>1, <2>6 DEF EmitData, UserReturns, At
      <3> QED  BY <1>1, <2>1, <2>3, <2>4, <3>1 DEF GoneInv
    <2>7. CASE RunTick
      <3>1. /\ Head(ticks) \notin {"read", "write"}
            /\ ~Has(ticks', "read") /\ ~Has(ticks', "write")
        BY <2>1, <2>7, TakeTick DEF RunTick
      <3>2. stack' = <<"emit">> \/ stack' = <<"user">>
        BY <2>7, <3>1 DEF RunTick
      <3> QED  BY <1>1, <2>1, <2>7, <3>1, <3>2 DEF RunTick, GoneInv
    <2>8. CASE UserRuns \/ Peer
      <3>1. UNCHANGED <<ticks, destroyed>> /\ (stack' = <<"user">> \/ stack' = stack)
        BY <2>8 DEF UserRuns, Peer
      <3> QED  BY <1>1, <2>1, <2>3, <3>1 DEF GoneInv
    <2>9. ASSUME NEW bit \in IOEvents, Dispatch(bit)
          PROVE  GoneInv'
      <3>1. UNCHANGED <<ticks, destroyed>> /\ stack' = <<>>
        BY <2>1, <2>9 DEF Dispatch
      <3> QED  BY <1>1, <2>1, <2>3, <3>1 DEF GoneInv
    <2>10. ~Poll /\ ~Erase
      BY <1>4, <2>1 DEF Poll
    <2>11. /\ ~DataReturns /\ ~EndReturns /\ ~Pushed /\ ~ReadData /\ ~ReadEOF
           /\ ~ReadBlocks /\ ~ReadFails /\ ~SetReadFlag /\ ~ReadNothing
           /\ ~NoSocketEvent
      BY <2>2 DEF At, DataReturns, EndReturns, Pushed, ReadData, ReadEOF,
                  ReadBlocks, ReadFails, SetReadFlag, ReadNothing, NoSocketEvent
    <2>12. /\ ~WriteData /\ ~WriteBlocks /\ ~WriteFails /\ ~WriteKills
           /\ ~SetWriteFlag /\ ~Drained /\ ~AfterDrained
      BY <2>2 DEF At, WriteData, WriteBlocks, WriteFails, WriteKills, SetWriteFlag,
                  Drained, AfterDrained
    <2> QED  BY <2>5, <2>6, <2>7, <2>8, <2>9, <2>10, <2>11, <2>12
                DEF Next, CallbackReturns, LoopStep
  <1> QED  BY <1>2, <1>3, <1>4

-----------------------------------------------------------------------------
(* What is still to be sent *)

\* Whether a frame of _doWrite is on the stack.
LEMMA NoWriting ==
  ASSUME TypeOK, StackInv,
         stack # <<>> => Head(stack) \notin {"doWrite", "wrFlag", "drained", "user"}
  PROVE  ~Pending("doWrite") /\ ~Pending("wrFlag") /\ ~Pending("drained")
  BY TopFrame DEF TypeOK, StackInv, Pending

LEMMA TypeStep ==
  ASSUME IInv, Next
  PROVE  TypeOK'
  BY ApiType, ReadableType, ReadingType, WritingType, LoopType, PeerType
     DEF Next, CallbackReturns, LoopStep

LEMMA PendingOne ==
  ASSUME TypeOK, stack # <<>>, NEW a \in Frames, Continue(<<a>>), NEW f
  PROVE  Pending(f)' <=> f = a \/ (Len(stack) >= 2 /\ stack[2] = f)
  <1>1. /\ Len(stack') = Len(stack) /\ Len(stack) \in Nat \ {0}
        /\ stack'[1] = a /\ stack' # <<>>
        /\ \A i \in 2 .. Len(stack) : stack'[i] = stack[i]
    BY ContinueOne DEF TypeOK
  <1>2. Len(stack) >= 2 => stack'[2] = stack[2]
    BY <1>1
  <1> QED  BY <1>1, <1>2 DEF Pending

LEMMA PendingTwo ==
  ASSUME TypeOK, stack # <<>>, NEW a \in Frames, NEW b \in Frames,
         Continue(<<a, b>>), NEW f
  PROVE  Pending(f)' <=> f = a \/ f = b
  <1>1. /\ Len(stack') = Len(stack) + 1 /\ Len(stack) \in Nat \ {0}
        /\ stack'[1] = a /\ stack' # <<>> /\ stack'[2] = b
    BY ContinueTwo DEF TypeOK
  <1> QED  BY <1>1 DEF Pending

LEMMA PendingReturn ==
  ASSUME TypeOK, StackInv, stack # <<>>, Return, NEW f, f # "emit"
  PROVE  Pending(f)' <=> Len(stack) >= 2 /\ stack[2] = f
  <1>1. /\ Len(stack') = Len(stack) - 1
        /\ stack' # <<>> <=> Len(stack) >= 2
        /\ Len(stack) \in Nat \ {0} /\ DOMAIN stack = 1 .. Len(stack)
        /\ \A i \in 1 .. Len(stack) - 1 : stack'[i] = stack[i + 1]
    BY Returns, TopFrame DEF TypeOK
  <1>2. Len(stack) >= 2 => stack'[1] = stack[2]
    BY <1>1
  <1>3. Len(stack') >= 2 => stack'[2] = "emit"
    BY <1>1 DEF StackInv
  <1> QED  BY <1>1, <1>2, <1>3 DEF Pending

\* What remains to be sent and who will send it, when neither gets less.
LEMMA StillUnsent ==
  ASSUME Waiting, io'.attached => io.attached,
         UNCHANGED <<wr.buf, wr.finish, wr.shutdown>>,
         Has(ticks, "write") => Has(ticks', "write"),
         Pending("doWrite") => Pending("doWrite")',
         Pending("wrFlag") => Pending("wrFlag")',
         Pending("drained")' => Pending("drained"),
         "WRITE" \in io.mask => "WRITE" \in io'.mask
  PROVE  Waiting'
  BY DEF Waiting

LEMMA UnsentApi ==
  ASSUME IInv, Waiting, ApiCall, io'.attached
  PROVE  Waiting'
  <1> USE DEF IInv, TypeOK
  <1>1. ~RunTick
    BY DEF ApiCall, RunTick, Idle, InUserCode
  <1>2. /\ io.attached /\ WriteInv' /\ stack' = stack
        /\ Has(ticks, "write") => Has(ticks', "write")
    BY <1>1, MaskStep, WriteStep, Posting DEF ApiCall, Next, OnlyPosts
  <1>3. \A f : Pending(f)' <=> Pending(f)
    BY <1>2 DEF Pending
  <1>4. CASE Pause \/ Resume \/ Listen \/ WriteRefused
    BY <1>2, <1>3, <1>4, StillUnsent DEF Pause, Resume, Listen, WriteRefused
  <1>5. CASE Write
    <2>1. wr'.notified /\ wr'.finish = wr.finish /\ ~wr.finish
      BY <1>5 DEF Write, WrType
    <2> QED  BY <1>2, <2>1 DEF WriteInv, Waiting
  <1>6. CASE End
    <2>1. /\ wr'.buf = wr.buf /\ wr'.shutdown = wr.shutdown /\ io' = io
          /\ ~wr.error => wr'.notified
      BY <1>6 DEF End, WrType
    <2>2. CASE wr.error
      BY <1>2, <1>3, <2>1, <2>2 DEF WriteInv, Waiting
    <2>3. CASE ~wr.error
      BY <1>2, <2>1, <2>3 DEF WriteInv, Waiting
    <2> QED  BY <2>2, <2>3
  <1>7. ~Destroy
    BY Destroying DEF Destroy
  <1> QED  BY <1>4, <1>5, <1>6, <1>7 DEF ApiCall

LEMMA UnsentReading ==
  ASSUME IInv, Waiting, Next,
         \/ EmitData \/ DataReturns \/ EndReturns \/ Pushed \/ ReadData
         \/ ReadEOF \/ ReadBlocks \/ ReadFails \/ SetReadFlag \/ ReadNothing
  PROVE  Waiting'
  <1> USE DEF IInv, TypeOK, At, streamVars, history
  <1>1. stack # <<>> /\ Head(stack) \in {"emit", "onData", "onEnd", "pushed",
                                       "pushedEOF", "doRead", "rdFlag"}
    BY DEF EmitData, DataReturns, EndReturns, Pushed, ReadData, ReadEOF,
           ReadBlocks, ReadFails, SetReadFlag, ReadNothing
  <1>2. ~Pending("doWrite") /\ ~Pending("wrFlag") /\ ~Pending("drained")
    BY <1>1, NoWriting
  <1>3. /\ io'.attached => io.attached
        /\ Has(ticks, "write") => Has(ticks', "write")
    <2>1. ~RunTick
      BY <1>1 DEF RunTick, Idle
    <2> QED  BY <2>1, MaskStep, Posting DEF OnlyPosts
  <1>4. UNCHANGED wr
    BY DEF EmitData, DataReturns, EndReturns, Pushed, ReadData, ReadEOF,
           ReadBlocks, ReadFails, SetReadFlag, ReadNothing
  <1>5. "WRITE" \in io.mask => "WRITE" \in io'.mask
    <2>1. CASE Pushed \/ SetReadFlag
      <3>1. \/ io' = io \/ io' = WithMask(io.mask \ {"READ"})
            \/ io' = WithMask(io.mask \cup {"READ"})
        BY <2>1 DEF Pushed, SetReadFlag
      <3>2. /\ io.mask \ {"READ"} \in SUBSET {"READ", "WRITE"}
            /\ io.mask \cup {"READ"} \in SUBSET {"READ", "WRITE"}
        BY DEF IOType
      <3>3. \/ io' = io \/ io'.mask = io.mask \ {"READ"}
            \/ io'.mask = io.mask \cup {"READ"}
        BY <3>1, <3>2, MaskSet
      <3> QED  BY <3>3
    <2>2. CASE ~(Pushed \/ SetReadFlag)
      BY <2>2 DEF EmitData, DataReturns, EndReturns, ReadData, ReadEOF,
                  ReadBlocks, ReadFails, ReadNothing
    <2> QED  BY <2>1, <2>2
  <1>6. ~Pending("drained")'
    <2> DEFINE One == {"onData", "onEnd", "doRead", "doWrite", "rdFlag"}
               Two == {"emit", "user", "pushed", "pushedEOF", "rdFlag"}
    <2>1. \/ Return
          \/ \E a \in One : Continue(<<a>>)
          \/ \E a, b \in Two : Continue(<<a, b>>)
      BY DEF EmitData, DataReturns, EndReturns, Pushed, ReadData, ReadEOF,
             ReadBlocks, ReadFails, SetReadFlag, ReadNothing
    <2>2. One \subseteq Frames \ {"drained"} /\ Two \subseteq Frames \ {"drained"}
      BY DEF Frames, UserFrames
    <2>3. ~(Len(stack) >= 2 /\ stack[2] = "drained")
      BY <1>2 DEF Pending
    <2> HIDE DEF One, Two
    <2>4. CASE Return
      BY <1>1, <2>3, <2>4, PendingReturn
    <2>5. ASSUME NEW a \in One, Continue(<<a>>)
          PROVE  ~Pending("drained")'
      BY <1>1, <2>2, <2>3, <2>5, PendingOne
    <2>6. ASSUME NEW a \in Two, NEW b \in Two, Continue(<<a, b>>)
          PROVE  ~Pending("drained")'
      BY <1>1, <2>2, <2>6, PendingTwo
    <2> QED  BY <2>1, <2>4, <2>5, <2>6
  <1> QED  BY <1>2, <1>3, <1>4, <1>5, <1>6, StillUnsent

LEMMA UnsentWriting ==
  ASSUME IInv, Waiting, Next, io'.attached,
         \/ WriteData \/ WriteBlocks \/ WriteFails \/ SetWriteFlag \/ Drained
         \/ AfterDrained
  PROVE  Waiting'
  <1> USE DEF IInv, TypeOK, At, streamVars, history
  <1>1. /\ stack # <<>> /\ Head(stack) = stack[1]
        /\ stack[1] \in {"doWrite", "wrFlag", "drained"}
    BY TopFrame DEF WriteData, WriteBlocks, WriteFails, SetWriteFlag, Drained,
                    AfterDrained
  <1>2. Len(stack) >= 2 => stack[2] = "emit"
    BY <1>1 DEF StackInv
  <1>3. io.attached /\ (Has(ticks, "write") => Has(ticks', "write"))
    <2>1. ~RunTick
      BY <1>1 DEF RunTick, Idle
    <2> QED  BY <2>1, MaskStep, Posting DEF OnlyPosts
  <1>4. CASE WriteData
    BY <1>1, <1>4 DEF WriteData, Waiting, Pending
  <1>5. CASE WriteBlocks
    <2>1. Pending("wrFlag")'
      BY <1>5, PendingOne DEF WriteBlocks, Frames
    <2> QED  BY <1>5, <2>1 DEF WriteBlocks, Waiting
  <1>6. CASE WriteFails
    <2>1. Pending("wrFlag")'
      BY <1>6, PendingTwo DEF WriteFails, Frames, UserFrames
    <2>2. wr'.buf # <<>>
      BY <1>6 DEF WriteFails, WrType
    <2> QED  BY <2>1, <2>2 DEF Waiting
  <1>7. CASE SetWriteFlag
    <2>1. io.mask \cup {"WRITE"} \in SUBSET {"READ", "WRITE"}
      BY DEF IOType
    <2>2. "WRITE" \in io'.mask
      BY <1>7, <2>1, MaskSet DEF SetWriteFlag
    <2>3. ~Pending("drained")' /\ ~Pending("doWrite")
      BY <1>1, <1>2, <1>7, PendingReturn DEF SetWriteFlag, Pending
    <2> QED  BY <1>3, <1>7, <2>2, <2>3 DEF SetWriteFlag, Waiting
  <1>8. CASE Drained
    <2>1. wr'.buf = <<>> /\ (wr'.shutdown \/ ~wr'.finish)
      BY <1>8 DEF Drained, WrType, WriteInv, SentInOrder
    <2> QED  BY <2>1 DEF Waiting
  <1>9. CASE AfterDrained
    <2>1. ~DestroyWith(FALSE)
      BY Destroying
    <2>2. Pending("drained") /\ ~Pending("doWrite") /\ ~Pending("wrFlag")
      BY <1>1, <1>2, <1>9 DEF AfterDrained, Pending
    <2> QED  BY <1>3, <1>9, <2>1, <2>2 DEF AfterDrained, Waiting
  <1> QED  BY <1>4, <1>5, <1>6, <1>7, <1>8, <1>9

LEMMA UnsentLoop ==
  ASSUME IInv, Waiting, Next, io'.attached,
         \/ RunTick \/ Poll \/ Erase \/ UserRuns \/ UserReturns \/ Peer
         \/ NoSocketEvent \/ \E bit \in IOEvents : Dispatch(bit)
  PROVE  Waiting'
  <1> USE DEF IInv, TypeOK, streamVars, history
  <1>1. io.attached /\ io.alive
    BY MaskStep DEF MaskInv
  <1>2. ~Erase /\ ~NoSocketEvent
    BY <1>1 DEF Erase, NoSocketEvent
  <1>3. ASSUME stack = <<>>, NEW f
        PROVE  ~Pending(f)
    BY <1>3 DEF Pending
  <1>4. ASSUME NEW x, stack' = <<x>>, NEW f
        PROVE  Pending(f)' <=> f = x
    BY <1>4 DEF Pending
  <1>5. CASE Poll \/ Peer
    BY <1>5, StillUnsent DEF Poll, Peer, Pending
  <1>6. CASE UserRuns
    <2>1. stack = <<>> /\ UNCHANGED <<io, wr, ticks>> /\ stack' = <<"user">>
      BY <1>6 DEF UserRuns, Idle
    <2> QED  BY <1>3, <1>4, <2>1, StillUnsent
  <1>7. CASE UserReturns
    <2>1. stack # <<>> /\ stack[1] = "user" /\ Return /\ UNCHANGED <<io, wr, ticks>>
      BY <1>7, TopFrame DEF UserReturns, At
    <2>2. ASSUME NEW f \in {"doWrite", "wrFlag", "drained"}
          PROVE  Pending(f)' <=> Pending(f)
      <3>1. Pending(f)' <=> Len(stack) >= 2 /\ stack[2] = f
        BY <2>1, PendingReturn
      <3> QED  BY <2>1, <3>1 DEF Pending
    <2> QED  BY <2>1, <2>2, StillUnsent
  <1>8. CASE RunTick
    <2>1. /\ stack = <<>> /\ io' = io /\ ticks # <<>>
          /\ wr'.buf = wr.buf /\ wr'.finish = wr.finish /\ wr'.shutdown = wr.shutdown
      BY <1>8 DEF RunTick, Idle, WrType
    <2>2. \A x : Has(ticks, x) <=> Has(ticks', x) \/ x = Head(ticks)
      BY <1>8, TakeTick DEF RunTick
    <2>3. CASE Head(ticks) = "write"
      <3>1. stack' = <<"doWrite">>
        BY <1>8, <2>3 DEF RunTick
      <3>2. Pending("doWrite")'
        BY <1>4, <3>1
      <3> QED  BY <3>2 DEF Waiting
    <2>4. CASE Head(ticks) # "write"
      <3>1. \/ stack' = <<"doRead", "emit">> \/ stack' = <<"emit">>
            \/ stack' = <<"user">>
        BY <1>8, <2>4 DEF RunTick
      <3>2. ~Pending("drained")'
        BY <3>1 DEF Pending
      <3> QED  BY <1>1, <1>3, <2>1, <2>2, <2>4, <3>2, StillUnsent
    <2> QED  BY <2>3, <2>4
  <1>9. ASSUME NEW bit \in IOEvents, Dispatch(bit)
        PROVE  Waiting'
    <2>1. ~DestroyWith(TRUE)
      BY Destroying
    <2>2. /\ stack = <<>> /\ UNCHANGED <<io, wr, ticks>>
          /\ stack' = <<"doWrite">> \/ stack' = <<"doRead">>
      BY <1>1, <1>9, <2>1 DEF Dispatch
    <2> QED  BY <1>3, <1>4, <2>2, StillUnsent
  <1> QED  BY <1>2, <1>5, <1>6, <1>7, <1>8, <1>9

\* A process that was killed stays so.
LEMMA KilledStays ==
  ASSUME IInv, Next, Killed
  PROVE  stack' = stack
  <1> USE DEF Killed, At, Idle
  <1>1. ~ApiCall
    BY DEF ApiCall, InUserCode, UserFrames
  <1>2. ~CallbackReturns /\ ~UserRuns
    BY DEF CallbackReturns, UserReturns, DataReturns, EndReturns, UserRuns
  <1>3. ~RunTick /\ ~Poll /\ ~Erase /\ \A bit \in IOEvents : ~Dispatch(bit)
    BY DEF RunTick, Poll, Erase, Dispatch
  <1>4. /\ ~EmitData /\ ~Pushed /\ ~ReadData /\ ~ReadEOF /\ ~ReadBlocks
        /\ ~ReadFails /\ ~SetReadFlag /\ ~ReadNothing /\ ~NoSocketEvent
    BY DEF EmitData, Pushed, ReadData, ReadEOF, ReadBlocks, ReadFails,
           SetReadFlag, ReadNothing, NoSocketEvent
  <1>5. /\ ~WriteData /\ ~WriteBlocks /\ ~WriteFails /\ ~WriteKills
        /\ ~SetWriteFlag /\ ~Drained /\ ~AfterDrained
    BY DEF WriteData, WriteBlocks, WriteFails, WriteKills, SetWriteFlag,
           Drained, AfterDrained
  <1> QED  BY <1>1, <1>2, <1>3, <1>4, <1>5 DEF Next, LoopStep, Peer

LEMMA UnsentStep ==
  ASSUME IInv, Next
  PROVE  UnsentInv'
  <1>1. CASE Killed'
    BY <1>1 DEF UnsentInv
  <1>2. CASE ~io'.attached
    BY <1>2 DEF UnsentInv, Waiting
  <1>3. CASE ~Killed' /\ io'.attached
    <2>1. Waiting
      BY <1>3, KilledStays DEF IInv, UnsentInv, Killed, At
    <2>2. ~WriteKills
      BY <1>3 DEF WriteKills, Killed, At
    <2>3. Waiting'
      BY <1>3, <2>1, <2>2, UnsentApi, UnsentReading, UnsentWriting, UnsentLoop
         DEF Next, CallbackReturns, LoopStep
    <2> QED  BY <2>3 DEF UnsentInv
  <1> QED  BY <1>1, <1>2, <1>3

-----------------------------------------------------------------------------
(* The invariant *)

LEMMA InitIInv == Init => IInv
  <1> SUFFICES ASSUME Init PROVE IInv
    OBVIOUS
  <1>1. TypeOK
    BY InitType
  <1>2. stack = <<"user">> /\ Head(stack) = "user" /\ Len(stack) = 1
    BY DEF Init
  <1>3. StackInv
    BY <1>2 DEF StackInv
  <1>4. /\ rd.buf = <<>> /\ ~rd.ended /\ delivered = <<>>
        /\ kernel.read = 0 /\ kernel.arrived = 0
    BY DEF Init
  <1>5. Bytes(0) = <<>>
    BY DEF Bytes
  <1>6. ReadInv
    BY <1>4, <1>5 DEF ReadInv, ReceivedInOrder
  <1>7. WriteInv
    BY <1>5 DEF Init, WriteInv, SentInOrder
  <1>8. OneClose(ticks) /\ ~Has(ticks, "close") /\ ~destroyed /\ ~closed
    <2>1. ticks = <<>> \/ ticks = <<"read">> \/ ticks = <<"error">>
      BY DEF Init
    <2> QED  BY <2>1, ShortTicks DEF Init, Tick
  <1>9. CloseInv
    BY <1>2, <1>8 DEF CloseInv, At
  <1>10. /\ io.alive = io.attached /\ io.open = io.attached
         /\ io.mask = io.registered /\ io.registered \subseteq {"READ"}
         /\ ~InitMayFail => io.alive
    <2>1. PICK m \in {{}, {"READ"}} :
            io = Registered(m) \/ (InitMayFail /\ io = NoIOEvent(m))
      BY InitEvent
    <2>2. CASE io = Registered(m)
      BY <2>2 DEF Registered
    <2>3. CASE InitMayFail /\ io = NoIOEvent(m)
      BY <2>3 DEF NoIOEvent
    <2> QED  BY <2>1, <2>2, <2>3
  <1>11. MaskInv /\ OpenUntilDestroyed
    BY <1>1, <1>8, <1>10 DEF MaskInv, OpenUntilDestroyed, TypeOK, IOType
  <1>12. UnsentInv
    BY DEF Init, UnsentInv, Waiting
  <1>13. GoneInv
    BY <1>2, <1>10 DEF GoneInv, At
  <1> QED  BY <1>1, <1>3, <1>6, <1>7, <1>9, <1>11, <1>12, <1>13 DEF IInv

LEMMA StepIInv ==
  ASSUME IInv, [Next]_vars
  PROVE  IInv'
  <1>1. CASE Next
    <2>1. WriteInv' /\ CloseInv'
      BY <1>1, WriteStep, CloseStep, TickStep
    <2> QED  BY <1>1, <2>1, TypeStep, StackStep, ReadStep, MaskStep, UnsentStep,
                GoneStep DEF IInv
  <1>2. CASE UNCHANGED vars
    <2>1. ReadInv' /\ WriteInv' /\ CloseInv' /\ UnsentInv' /\ GoneInv'
      BY <1>2 DEF IInv, vars, ReadInv, ReceivedInOrder, WriteInv, SentInOrder,
                  CloseInv, UnsentInv, Waiting, Killed, GoneInv, Pending, At
    <2>2. TypeOK' /\ StackInv' /\ OpenUntilDestroyed' /\ MaskInv'
      BY <1>2 DEF IInv, vars, TypeOK, StackInv, OpenUntilDestroyed, MaskInv
    <2> QED  BY <2>1, <2>2 DEF IInv
  <1> QED  BY <1>1, <1>2

\* The inductive invariant: the call stack has the shape of the code's
\* functions, the bytes are where they should be, "close" is posted once by
\* whoever destroys the stream, and what has to be sent has a function, a
\* callback or the mask to see to it.
THEOREM SocketInvariant == Spec => []IInv
  BY InitIInv, StepIInv, PTL DEF Spec

-----------------------------------------------------------------------------
(* What the socket promises *)

\* Stream::destroy and Socket::_destroy: a destroyed stream emits "close"
\* once, no "data" or "end" is emitted after it, and the descriptor is open
\* and attached exactly as long as the stream is not destroyed.
THEOREM LifeOfASocket == Spec => []LifeInv
  <1>1. IInv => LifeInv
    <2> SUFFICES ASSUME IInv PROVE CloseOnce
      BY DEF IInv, LifeInv
    <2> DEFINE waiting == {i \in DOMAIN ticks : ticks[i] = "close"}
    <2>1. waiting # {} <=> Has(ticks, "close")
      BY DEF Has
    <2>2. \A i, j \in waiting : i = j
      BY DEF IInv, CloseInv, OneClose
    <2> QED  BY <2>1, <2>2 DEF IInv, CloseInv, CloseOnce
  <1> QED  BY <1>1, SocketInvariant, PTL

\* Readable::_push and _emitData: the bytes given to the listeners of "data"
\* and those in the buffer are the bytes read, in order, each once.
THEOREM BytesInOrder == Spec => []ReceivedInOrder
  <1>1. IInv => ReceivedInOrder
    BY DEF IInv, ReadInv
  <1> QED  BY <1>1, SocketInvariant, PTL

\* Writable::write and Socket::_doWrite: the bytes given to write(2) and those
\* in the buffer are the bytes accepted, in order, each once, and the FIN
\* comes after the last.
THEOREM BytesOutInOrder == Spec => []SentInOrder
  <1>1. IInv => SentInOrder
    BY DEF IInv, WriteInv
  <1> QED  BY <1>1, SocketInvariant, PTL

\* Socket::_doWrite and Writable::_notifyWrite: when the loop waits, a socket
\* with bytes in its buffer is polled for WRITE, and one that was ended and
\* has none has sent its FIN.
THEOREM NothingIsLeftUnsent == Spec => []NothingLeftUnsent
  <1>1. IInv => NothingLeftUnsent
    <2> SUFFICES ASSUME IInv, stack = <<>>, ticks = <<>>, io.attached
                 PROVE  /\ wr.buf # <<>> => "WRITE" \in io.polled
                        /\ wr.finish /\ wr.buf = <<>> => wr.shutdown
      BY DEF NothingLeftUnsent, Idle
    <2>1. \A f : ~Pending(f)
      BY DEF Pending
    <2>2. ~Has(ticks, "write")
      BY ShortTicks
    <2>3. "WRITE" \in io.mask => io.mask # io.registered
      BY DEF IInv, MaskInv
    <2>4. ~Killed
      BY DEF Killed, At
    <2> QED  BY <2>1, <2>2, <2>3, <2>4 DEF IInv, UnsentInv, Waiting, MaskInv
  <1> QED  BY <1>1, SocketInvariant, PTL

\* The assertion of _doRead and _doWrite: their IOEvent is there, if the
\* socket was made of a descriptor that epoll accepted.
THEOREM EventIsAlive ==
  ASSUME InitMayFail = FALSE
  PROVE  Spec => []SocketEventAlive
  <1>1. IInv => SocketEventAlive
    BY DEF IInv, GoneInv, SocketEventAlive
  <1> QED  BY <1>1, SocketInvariant, PTL

\* Readable::_emitData: when "end" is emitted the peer has closed or reset the
\* connection, and the listeners of "data", if there are any, have had every
\* byte that came from it.
THEOREM EndAfterEveryByte == Spec => EndIsComplete
  <1> DEFINE Step == stack' # <<>> /\ Head(stack') = "onEnd" /\ ~At("onEnd") =>
                       (kernel.fin \/ kernel.reset) /\ (rd.listening => delivered' = Bytes(kernel.arrived))
  <1>1. ASSUME IInv, [Next]_vars
        PROVE  [Step]_vars
    <2> SUFFICES ASSUME Next, stack' # <<>>, Head(stack') = "onEnd", ~At("onEnd")
                 PROVE  (kernel.fin \/ kernel.reset) /\ (rd.listening => delivered' = Bytes(kernel.arrived))
      BY <1>1
    <2>1. rd.ended => (kernel.fin \/ kernel.reset) /\ delivered \o rd.buf = Bytes(kernel.arrived)
      BY <1>1 DEF IInv, ReadInv, ReceivedInOrder
    <2>2. CASE EmitData
      <3>1. stack # <<>> /\ stack \in Seq(Frames) /\ delivered' = delivered
        BY <1>1, <2>2 DEF EmitData, At, IInv, TypeOK, history
      <3>2. ~Return
        <4> SUFFICES ASSUME Return PROVE FALSE
          OBVIOUS
        <4>1. Len(stack) >= 2 /\ stack[2] = "onEnd"
          BY <3>1, Returns
        <4> QED  BY <1>1, <4>1 DEF IInv, StackInv
      <3>3. ~Continue(<<"onData">>)
        BY <3>1, ContinueOne DEF Frames, UserFrames
      <3>4. rd.ended /\ (rd.listening => rd.buf = <<>>)
        BY <2>2, <3>2, <3>3 DEF EmitData
      <3>5. delivered \o <<>> = delivered
        BY <1>1, ConcatEmptySeq DEF IInv, TypeOK
      <3> QED  BY <2>1, <3>1, <3>4, <3>5
    <2>3. CASE DataReturns
      <3>1. stack # <<>> /\ stack \in Seq(Frames) /\ delivered' = delivered \o rd.buf
        BY <1>1, <2>3 DEF DataReturns, At, IInv, TypeOK
      <3>2. ~Return
        <4> SUFFICES ASSUME Return PROVE FALSE
          OBVIOUS
        <4>1. Len(stack) >= 2 /\ stack[2] = "onEnd"
          BY <3>1, Returns
        <4> QED  BY <1>1, <4>1 DEF IInv, StackInv
      <3> QED  BY <2>1, <2>3, <3>1, <3>2 DEF DataReturns
    <2>4. CASE NoSocketEvent
      BY <2>4 DEF NoSocketEvent
    <2>5. stack' # stack
      BY DEF At
    <2> QED  BY <1>1, <2>2, <2>3, <2>4, <2>5, Tops
  <1> QED  BY <1>1, SocketInvariant, PTL DEF Spec, EndIsComplete

=============================================================================
