------------------------- MODULE HttpExchangeProofs -------------------------
(***************************************************************************)
(* Proofs about HttpExchange, for any inputs, marks and numbers of calls.  *)
(***************************************************************************)
EXTENDS HttpExchange, SequenceTheorems, FiniteSetTheorems, TLAPS

\* The fields of the record lib, and that two such records agree on all but F.
Members == {"rd", "hup", "finish", "shut", "notified", "writeError", "wantWrite",
            "record", "out", "sent", "failed", "res", "ticks", "stack", "thrown",
            "late", "aborted"}
Only(x, y, F) == \A f \in Members \ F : y[f] = x[f]

\* Whether e is an element of the sequence s.
Has(s, e) == \E i \in DOMAIN s : s[i] = e

\* The queue of y is that of x with some of the posts of T behind it.
Posted(x, y, T) ==
  /\ \A t : Has(x.ticks, t) => Has(y.ticks, t)
  /\ \A t : Has(y.ticks, t) => Has(x.ticks, t) \/ t \in T

\* The record of the socket goes only when the socket is destroyed.
Destroyed(x) == x.record # "attached" => x.rd.sock.destroyed

-----------------------------------------------------------------------------
(* What the operators change, and that they keep the types *)

LEMMA SetStack ==
  ASSUME NEW x \in Library, NEW v \in Seq(Frames)
  PROVE  LET y == [x EXCEPT !.stack = v]
         IN  y \in Library /\ Only(x, y, {"stack"}) /\ y.stack = v
  BY DEF Library, Only, Members

LEMMA SetTicks ==
  ASSUME NEW x \in Library, NEW v \in Seq(Posts)
  PROVE  LET y == [x EXCEPT !.ticks = v]
         IN  y \in Library /\ Only(x, y, {"ticks"}) /\ y.ticks = v
  BY DEF Library, Only, Members

LEMMA SetReadable ==
  ASSUME NEW x \in Library, NEW s \in Streams, NEW r \in ReadableType
  PROVE  LET y == [x EXCEPT !.rd[s] = r]
         IN  /\ y \in Library /\ Only(x, y, {"rd"}) /\ y.rd[s] = r
             /\ \A t \in Streams : t # s => y.rd[t] = x.rd[t]
  BY DEF Library, Only, Members, Streams

LEMMA SetResponse ==
  ASSUME NEW x \in Library, NEW n \in DOMAIN x.res, NEW r \in ResponseType
  PROVE  LET y == [x EXCEPT !.res[n] = r]
         IN  /\ y \in Library /\ Only(x, y, {"res"})
             /\ DOMAIN y.res = DOMAIN x.res /\ y.res[n] = r
             /\ \A m \in DOMAIN x.res : m # n => y.res[m] = x.res[m]
  <1>1. x.res \in Seq(ResponseType) /\ DOMAIN x.res = 1 .. Len(x.res)
    BY DEF Library
  <1> DEFINE v == [x.res EXCEPT ![n] = r]
  <1>2. /\ v \in Seq(ResponseType) /\ DOMAIN v = DOMAIN x.res /\ v[n] = r
        /\ \A m \in DOMAIN x.res : m # n => v[m] = x.res[m]
    BY <1>1, ExceptSeq
  <1> HIDE DEF v
  <1>3. [x EXCEPT !.res[n] = r] = [x EXCEPT !.res = v]
    BY DEF Library, v
  <1> QED  BY <1>2, <1>3 DEF Library, Only, Members

LEMMA SomeFrames ==
  /\ {<<"user">>, <<"doRead">>, <<"hup">>, <<"pushedEnd", "req">>} \subseteq Frames
  /\ \A s \in Streams : {<<"emit", s>>, <<"clear", s>>, <<"end", s>>,
                         <<"ended", s>>, <<"pushed", s>>} \subseteq Frames
  /\ \A r \in Seq(Nat) : <<"feed", r>> \in Frames
  /\ \A n \in Nat : <<"drain", n>> \in Frames
  <1>1. {<<"user">>, <<"doRead">>, <<"hup">>, <<"pushedEnd", "req">>} \subseteq Frames
    BY DEF Frames
  <1>2. \A s \in Streams : {<<"emit", s>>, <<"clear", s>>, <<"end", s>>,
                            <<"ended", s>>, <<"pushed", s>>} \subseteq Frames
    BY DEF Frames
  <1>3. \A r \in Seq(Nat) : <<"feed", r>> \in Frames
    BY DEF Frames
  <1>4. \A n \in Nat : <<"drain", n>> \in Frames
    BY DEF Frames
  <1> QED  BY <1>1, <1>2, <1>3, <1>4

LEMMA SomePosts ==
  /\ {<<"sockWrite">>, <<"sockDrain">>} \subseteq Posts
  /\ \A s \in Streams : <<"read", s>> \in Posts
  /\ \A n \in Nat : <<"write", n>> \in Posts
  /\ \A e \in {"sockFinish", "sockClose", "sockError", "error", "finish", "drain",
               "close"} : <<"emit", e>> \in Posts
  <1>1. {<<"sockWrite">>, <<"sockDrain">>} \subseteq Posts
    BY DEF Posts
  <1>2. \A s \in Streams : <<"read", s>> \in Posts
    BY DEF Posts
  <1>3. \A n \in Nat : <<"write", n>> \in Posts
    BY DEF Posts
  <1>4. \A e \in {"sockFinish", "sockClose", "sockError", "error", "finish", "drain",
                  "close"} : <<"emit", e>> \in Posts
    BY DEF Posts
  <1> QED  BY <1>1, <1>2, <1>3, <1>4

LEMMA HasAppend ==
  ASSUME NEW S, NEW s \in Seq(S), NEW e \in S
  PROVE  /\ Append(s, e) \in Seq(S)
         /\ \A f : Has(Append(s, e), f) <=> Has(s, f) \/ f = e
  <1>1. /\ Append(s, e) \in Seq(S) /\ Len(s) \in Nat /\ DOMAIN s = 1 .. Len(s)
        /\ DOMAIN Append(s, e) = 1 .. Len(s) + 1 /\ Append(s, e)[Len(s) + 1] = e
        /\ \A i \in 1 .. Len(s) : Append(s, e)[i] = s[i]
    OBVIOUS
  <1>2. Len(s) + 1 \in DOMAIN Append(s, e)
    BY <1>1
  <1>3. \A i \in DOMAIN Append(s, e) : i \in DOMAIN s \/ i = Len(s) + 1
    BY <1>1
  <1>4. DOMAIN s \subseteq DOMAIN Append(s, e)
    BY <1>1
  <1> QED  BY <1>1, <1>2, <1>3, <1>4, Zenon DEF Has

LEMMA HasTail ==
  ASSUME NEW S, NEW s \in Seq(S), s # <<>>
  PROVE  /\ Tail(s) \in Seq(S) /\ Head(s) \in S
         /\ \A f : Has(s, f) <=> Has(Tail(s), f) \/ f = Head(s)
  <1>1. /\ Tail(s) \in Seq(S) /\ Head(s) \in S /\ Len(s) \in Nat \ {0}
        /\ DOMAIN s = 1 .. Len(s) /\ DOMAIN Tail(s) = 1 .. Len(s) - 1
        /\ Head(s) = s[1] /\ \A i \in 1 .. Len(s) - 1 : Tail(s)[i] = s[i + 1]
    OBVIOUS
  <1>2. ASSUME NEW f, Has(s, f) PROVE Has(Tail(s), f) \/ f = Head(s)
    <2>1. PICK i \in 1 .. Len(s) : s[i] = f
      BY <1>1, <1>2 DEF Has
    <2>2. CASE i = 1
      BY <1>1, <2>1, <2>2
    <2>3. CASE i # 1
      <3>1. i - 1 \in DOMAIN Tail(s) /\ Tail(s)[i - 1] = f
        BY <1>1, <2>1, <2>3
      <3> QED  BY <3>1 DEF Has
    <2> QED  BY <2>2, <2>3
  <1>3. ASSUME NEW f, Has(Tail(s), f) \/ f = Head(s) PROVE Has(s, f)
    <2>1. CASE f = Head(s)
      BY <1>1, <2>1 DEF Has
    <2>2. CASE Has(Tail(s), f)
      <3>1. PICK i \in 1 .. Len(s) - 1 : Tail(s)[i] = f
        BY <1>1, <2>2 DEF Has
      <3>2. i + 1 \in DOMAIN s /\ s[i + 1] = f
        BY <1>1, <3>1
      <3> QED  BY <3>2 DEF Has
    <2> QED  BY <1>3, <2>1, <2>2
  <1> QED  BY <1>1, <1>2, <1>3

LEMMA CallIs ==
  ASSUME NEW x \in Library, NEW f \in Frames
  PROVE  /\ Call(x, f) \in Library /\ Only(x, Call(x, f), {"stack"})
         /\ Call(x, f).stack = <<f>> \o x.stack
  <1>1. x.stack \in Seq(Frames)
    BY DEF Library
  <1>2. <<f>> \o x.stack \in Seq(Frames)
    BY <1>1
  <1>3. Call(x, f) = [x EXCEPT !.stack = <<f>> \o x.stack]
    BY DEF Call, Library
  <1> QED  BY <1>2, <1>3, SetStack

LEMMA PopIs ==
  ASSUME NEW x \in Library, x.stack # <<>>
  PROVE  /\ Pop(x) \in Library /\ Only(x, Pop(x), {"stack"})
         /\ Pop(x).stack = Tail(x.stack)
  <1>1. x.stack \in Seq(Frames)
    BY DEF Library
  <1>2. Tail(x.stack) \in Seq(Frames)
    BY <1>1
  <1>3. Pop(x) = [x EXCEPT !.stack = Tail(x.stack)]
    BY DEF Pop, Library
  <1> QED  BY <1>2, <1>3, SetStack

LEMMA NextTickIs ==
  ASSUME NEW x \in Library, NEW t \in Posts
  PROVE  /\ NextTick(x, t) \in Library /\ Only(x, NextTick(x, t), {"ticks"})
         /\ NextTick(x, t).ticks = Append(x.ticks, t)
         /\ Posted(x, NextTick(x, t), {t}) /\ Has(NextTick(x, t).ticks, t)
  <1>1. x.ticks \in Seq(Posts)
    BY DEF Library
  <1>2. /\ Append(x.ticks, t) \in Seq(Posts)
        /\ \A e : Has(Append(x.ticks, t), e) <=> Has(x.ticks, e) \/ e = t
    BY <1>1, HasAppend
  <1>3. NextTick(x, t) = [x EXCEPT !.ticks = Append(x.ticks, t)]
    BY DEF NextTick, Library
  <1> QED  BY <1>2, <1>3, SetTicks DEF Posted

LEMMA TickTakenIs ==
  ASSUME NEW x \in Library, x.ticks # <<>>
  PROVE  /\ Next_(x) \in Library /\ Only(x, Next_(x), {"ticks"})
         /\ Next_(x).ticks = Tail(x.ticks) /\ Head(x.ticks) \in Posts
         /\ \A t : Has(x.ticks, t) <=> Has(Next_(x).ticks, t) \/ t = Head(x.ticks)
  <1>1. x.ticks \in Seq(Posts)
    BY DEF Library
  <1>2. /\ Tail(x.ticks) \in Seq(Posts) /\ Head(x.ticks) \in Posts
        /\ \A t : Has(x.ticks, t) <=> Has(Tail(x.ticks), t) \/ t = Head(x.ticks)
    BY <1>1, HasTail
  <1>3. Next_(x) = [x EXCEPT !.ticks = Tail(x.ticks)]
    BY DEF Next_, Library
  <1> QED  BY <1>2, <1>3, SetTicks, ZenonT(30)

LEMMA UserIs ==
  ASSUME NEW x \in Library
  PROVE  /\ User(x) \in Library /\ Only(x, User(x), {"stack"})
         /\ \/ User(x).stack = x.stack
            \/ User(x).stack = <<<<"user">>>> \o x.stack /\ calls > 0
  BY CallIs, SomeFrames DEF User, Only

LEMMA PauseIs ==
  ASSUME NEW x \in Library, NEW s \in Streams
  PROVE  /\ Pause(x, s) \in Library /\ Only(x, Pause(x, s), {"rd"})
         /\ Pause(x, s).rd[s] = [x.rd[s] EXCEPT !.flowing = FALSE]
         /\ \A t \in Streams : t # s => Pause(x, s).rd[t] = x.rd[t]
  BY ZenonT(30) DEF Pause, Library, Streams, ReadableType, Only, Members

LEMMA ResumeIs ==
  ASSUME NEW x \in Library, NEW s \in Streams
  PROVE  /\ Resume(x, s) \in Library /\ Only(x, Resume(x, s), {"rd", "ticks"})
         /\ Resume(x, s).rd[s] = [x.rd[s] EXCEPT !.flowing = @ \/ ~x.rd[s].destroyed]
         /\ \A t \in Streams : t # s => Resume(x, s).rd[t] = x.rd[t]
         /\ Posted(x, Resume(x, s), {<<"read", s>>})
         /\ \/ x.rd[s].flowing \/ x.rd[s].destroyed
            \/ Has(Resume(x, s).ticks, <<"read", s>>)
  <1>1. x.rd[s] \in ReadableType
    BY DEF Library, Streams
  <1>2. CASE x.rd[s].flowing \/ x.rd[s].destroyed
    <2>1. Resume(x, s) = x
      BY <1>2 DEF Resume
    <2>2. x.rd[s] = [x.rd[s] EXCEPT !.flowing = @ \/ ~x.rd[s].destroyed]
      BY <1>1, <1>2 DEF ReadableType
    <2> QED  BY <1>2, <2>1, <2>2 DEF Only, Posted
  <1>3. CASE ~(x.rd[s].flowing \/ x.rd[s].destroyed)
    <2> DEFINE y == [x EXCEPT !.rd[s].flowing = TRUE]
    <2>1. /\ y \in Library /\ Only(x, y, {"rd"})
          /\ y.rd[s] = [x.rd[s] EXCEPT !.flowing = TRUE]
          /\ \A t \in Streams : t # s => y.rd[t] = x.rd[t]
      BY DEF Library, Streams, ReadableType, Only, Members
    <2>2. y.ticks = x.ticks
      BY <2>1 DEF Only, Members
    <2> HIDE DEF y
    <2>3. Resume(x, s) = NextTick(y, <<"read", s>>)
      BY <1>3 DEF Resume, y
    <2>4. /\ Resume(x, s) \in Library /\ Only(y, Resume(x, s), {"ticks"})
          /\ Posted(y, Resume(x, s), {<<"read", s>>})
          /\ Has(Resume(x, s).ticks, <<"read", s>>)
      BY <2>1, <2>3, NextTickIs, SomePosts
    <2>5. [x.rd[s] EXCEPT !.flowing = @ \/ ~x.rd[s].destroyed] = y.rd[s]
      BY <1>1, <1>3, <2>1 DEF ReadableType
    <2>6. Resume(x, s).rd = y.rd
      BY <2>4 DEF Only, Members
    <2>7. Only(x, Resume(x, s), {"rd", "ticks"})
      BY <2>1, <2>4 DEF Only, Members
    <2> QED  BY <1>3, <2>1, <2>2, <2>4, <2>5, <2>6, <2>7 DEF Posted
  <1> QED  BY <1>2, <1>3

-----------------------------------------------------------------------------
(* What the operators of the socket and of a response leave alone *)

\* Posted callbacks that are not the _write of a response.
Plain == Posts \ ({"write"} \X Nat)

\* A call that leaves the request as it is and the socket, but that it may
\* destroy it; what it posts knows its response.
Quiet(x, y) ==
  /\ y \in Library /\ DOMAIN y.res = DOMAIN x.res
  /\ y.rd.req = x.rd.req
  /\ \/ y.rd.sock = x.rd.sock
     \/ y.rd.sock = [x.rd.sock EXCEPT !.destroyed = TRUE]
  /\ Writes(y) => Writes(x)
  /\ Destroyed(x) => Destroyed(y)
  /\ y.record = "gone" => x.record = "gone"
  /\ y.late => x.late \/ x.record = "gone"
  /\ y.aborted # x.aborted => x.record = "gone"
  /\ y.hup = x.hup /\ y.failed = x.failed /\ y.stack = x.stack
  /\ Posted(x, y, Plain \cup {<<"write", n>> : n \in DOMAIN x.res})

LEMMA SomePlain ==
  /\ {<<"sockWrite">>, <<"sockDrain">>} \subseteq Plain
  /\ \A s \in Streams : <<"read", s>> \in Plain
  /\ \A e \in {"sockFinish", "sockClose", "sockError", "error", "finish", "drain",
               "close"} : <<"emit", e>> \in Plain
  <1>1. \A t \in Posts : t[1] # "write" => t \in Plain
    BY DEF Plain
  <1>2. <<"sockWrite">>[1] # "write" /\ <<"sockDrain">>[1] # "write"
    OBVIOUS
  <1>3. \A e : <<"read", e>>[1] # "write" /\ <<"emit", e>>[1] # "write"
    OBVIOUS
  <1> QED  BY <1>1, <1>2, <1>3, SomePosts

LEMMA QuietSelf ==
  ASSUME NEW x \in Library
  PROVE  Quiet(x, x)
  BY DEF Quiet, Posted

LEMMA QuietTwice ==
  ASSUME NEW x \in Library, NEW y, NEW z, Quiet(x, y), Quiet(y, z)
  PROVE  Quiet(x, z)
  <1>1. Posted(x, z, Plain \cup {<<"write", n>> : n \in DOMAIN x.res})
    BY DEF Quiet, Posted
  <1>2. \/ z.rd.sock = x.rd.sock
        \/ z.rd.sock = [x.rd.sock EXCEPT !.destroyed = TRUE]
    <2>1. x.rd.sock \in ReadableType
      BY DEF Library
    <2>2. \A r \in ReadableType :
            [[r EXCEPT !.destroyed = TRUE] EXCEPT !.destroyed = TRUE]
              = [r EXCEPT !.destroyed = TRUE]
      BY DEF ReadableType
    <2> QED  BY <2>1, <2>2 DEF Quiet
  <1> QED  BY <1>1, <1>2 DEF Quiet

\* A call that changes none of the fields that Quiet speaks of.
LEMMA QuietOnly ==
  ASSUME NEW x \in Library, NEW y \in Library,
         Only(x, y, {"out", "sent", "shut", "notified", "finish", "writeError",
                     "wantWrite", "thrown", "res"}),
         DOMAIN y.res = DOMAIN x.res,
         x.finish => y.finish, x.writeError => y.writeError
  PROVE  Quiet(x, y)
  BY DEF Quiet, Only, Members, Posted, Writes, Destroyed

LEMMA QuietPost ==
  ASSUME NEW x \in Library,
         NEW t \in Plain \cup {<<"write", n>> : n \in DOMAIN x.res}
  PROVE  Quiet(x, NextTick(x, t))
  <1>1. t \in Posts
    BY SomePosts DEF Plain, Library
  <1> DEFINE y == NextTick(x, t)
  <1>2. y \in Library /\ Only(x, y, {"ticks"}) /\ Posted(x, y, {t})
    BY <1>1, NextTickIs
  <1> HIDE DEF y
  <1>3. Posted(x, y, Plain \cup {<<"write", n>> : n \in DOMAIN x.res})
    BY <1>2 DEF Posted
  <1> QED  BY <1>2, <1>3 DEF Quiet, Only, Members, Writes, Destroyed, y

LEMMA SockDestroyIs ==
  ASSUME NEW x \in Library
  PROVE  /\ Quiet(x, SockDestroy(x))
         /\ SockDestroy(x).out = x.out /\ SockDestroy(x).res = x.res
         /\ SockDestroy(x).sent = x.sent
         /\ SockDestroy(x).rd.sock.destroyed
  <1>1. CASE x.rd.sock.destroyed
    BY <1>1, QuietSelf DEF SockDestroy
  <1>2. CASE ~x.rd.sock.destroyed
    <2> DEFINE y == [x EXCEPT !.rd.sock.destroyed = TRUE, !.record = "removed"]
    <2>1. /\ y \in Library /\ Only(x, y, {"rd", "record"})
          /\ y.rd.req = x.rd.req /\ y.record = "removed"
          /\ y.rd.sock = [x.rd.sock EXCEPT !.destroyed = TRUE]
          /\ y.rd.sock.destroyed
      BY DEF Library, ReadableType, Only, Members
    <2> HIDE DEF y
    <2>2. Quiet(x, y) /\ y.out = x.out /\ y.res = x.res /\ y.sent = x.sent
      BY <2>1 DEF Quiet, Only, Members, Posted, Writes, Destroyed
    <2>3. SockDestroy(x) = NextTick(y, <<"emit", "sockClose">>)
      BY <1>2 DEF SockDestroy, y
    <2>4. Quiet(y, SockDestroy(x))
      BY <2>1, <2>3, QuietPost, SomePlain
    <2>5. /\ SockDestroy(x).out = y.out /\ SockDestroy(x).res = y.res
          /\ SockDestroy(x).rd = y.rd /\ SockDestroy(x).sent = y.sent
      <3>1. Only(y, SockDestroy(x), {"ticks"})
        BY <2>1, <2>3, NextTickIs, SomePosts
      <3> QED  BY <3>1 DEF Only, Members
    <2> QED  BY <2>1, <2>2, <2>4, <2>5, QuietTwice
  <1> QED  BY <1>1, <1>2

LEMMA SockWriteIs ==
  ASSUME NEW x \in Library, NEW items \in Seq(Items)
  PROVE  /\ Quiet(x, SockWrite(x, items))
         /\ SockWrite(x, items).res = x.res /\ SockWrite(x, items).sent = x.sent
         /\ SockWrite(x, items).out = IF Writes(x) THEN x.out \o items ELSE x.out
         /\ Writes(SockWrite(x, items)) = Writes(x)
  <1>1. CASE ~Writes(x)
    <2>1. SockWrite(x, items) = NextTick(x, <<"emit", "sockError">>)
      BY <1>1 DEF SockWrite
    <2>2. Only(x, SockWrite(x, items), {"ticks"})
      BY <2>1, NextTickIs, SomePosts
    <2> QED  BY <1>1, <2>1, <2>2, QuietPost, SomePlain DEF Only, Members, Writes
  <1>2. CASE Writes(x)
    <2> DEFINE y == [x EXCEPT !.out = @ \o items, !.notified = TRUE]
    <2>1. x.out \o items \in Seq(Items)
      BY ConcatProperties DEF Library
    <2>2. /\ y \in Library /\ Only(x, y, {"out", "notified"})
          /\ y.out = x.out \o items
      BY <2>1 DEF Library, Only, Members
    <2> HIDE DEF y
    <2>3. y.res = x.res /\ y.sent = x.sent /\ Writes(y) = Writes(x)
      BY <2>2 DEF Only, Members, Writes
    <2>4. Quiet(x, y)
      BY <2>2, <2>3, QuietOnly DEF Only, Members
    <2>5. SockWrite(x, items) = IF x.notified THEN y ELSE NextTick(y, <<"sockWrite">>)
      BY <1>2 DEF SockWrite, y
    <2>6. CASE x.notified
      BY <1>2, <2>2, <2>3, <2>4, <2>5, <2>6
    <2>7. CASE ~x.notified
      <3>1. SockWrite(x, items) = NextTick(y, <<"sockWrite">>)
        BY <2>5, <2>7
      <3>2. Quiet(y, SockWrite(x, items)) /\ Only(y, SockWrite(x, items), {"ticks"})
        BY <2>2, <3>1, QuietPost, SomePlain, NextTickIs, SomePosts
      <3>3. Quiet(x, SockWrite(x, items))
        BY <2>4, <3>2, QuietTwice
      <3> QED  BY <1>2, <2>2, <2>3, <3>2, <3>3 DEF Only, Members, Writes
    <2> QED  BY <2>6, <2>7
  <1> QED  BY <1>1, <1>2

LEMMA SockEndIs ==
  ASSUME NEW x \in Library
  PROVE  /\ Quiet(x, SockEnd(x)) /\ SockEnd(x).out = x.out
         /\ SockEnd(x).res = x.res /\ SockEnd(x).sent = x.sent
  <1>1. CASE x.rd.sock.destroyed \/ x.finish
    <2>1. SockEnd(x) = NextTick(x, <<"emit", "sockError">>)
      BY <1>1 DEF SockEnd
    <2>2. Only(x, SockEnd(x), {"ticks"})
      BY <2>1, NextTickIs, SomePosts
    <2> QED  BY <2>1, <2>2, QuietPost, SomePlain DEF Only, Members
  <1>2. CASE ~(x.rd.sock.destroyed \/ x.finish)
    <2> DEFINE y == SockWrite(x, <<>>)
               z == [y EXCEPT !.finish = TRUE]
    <2>1. /\ Quiet(x, y) /\ y.res = x.res /\ y.sent = x.sent
          /\ y.out = IF Writes(x) THEN x.out \o <<>> ELSE x.out
      BY SockWriteIs, EmptySeq
    <2>2. y.out = x.out
      BY <2>1, ConcatEmptySeq DEF Library
    <2>3. y \in Library
      BY <2>1 DEF Quiet
    <2> HIDE DEF y
    <2>4. z \in Library /\ Only(y, z, {"finish"}) /\ z.finish
      BY <2>3 DEF Library, Only, Members
    <2>5. SockEnd(x) = z
      BY <1>2 DEF SockEnd, y
    <2> HIDE DEF z
    <2>6. z.out = y.out /\ z.res = y.res /\ z.sent = y.sent
      BY <2>4 DEF Only, Members
    <2>7. Quiet(y, z)
      BY <2>3, <2>4, <2>6, QuietOnly DEF Only, Members
    <2> QED  BY <2>1, <2>2, <2>5, <2>6, <2>7, QuietTwice
  <1> QED  BY <1>1, <1>2

LEMMA QuietAbort ==
  ASSUME NEW x \in Library, x.record = "gone", NEW where \in Asserts
  PROVE  /\ Quiet(x, Abort(x, where)) /\ Only(x, Abort(x, where), {"aborted"})
  <1> DEFINE y == Abort(x, where)
  <1>1. y \in Library /\ Only(x, y, {"aborted"})
    BY DEF Abort, Library, Only, Members
  <1> HIDE DEF y
  <1> QED  BY <1>1 DEF y, Quiet, Only, Members, Posted, Writes, Destroyed

\* A call of user code is noted if it comes after the socket.
LEMMA QuietLate ==
  ASSUME NEW x \in Library, NEW y, Quiet(x, y)
  PROVE  LET z == [y EXCEPT !.late = x.record = "gone"]
         IN  z \in Library /\ Only(y, z, {"late"}) /\ Quiet(x, z)
  <1> DEFINE z == [y EXCEPT !.late = x.record = "gone"]
  <1>1. y \in Library
    BY DEF Quiet
  <1>2. z \in Library /\ Only(y, z, {"late"}) /\ z.late = (x.record = "gone")
    BY <1>1 DEF Library, Only, Members
  <1> HIDE DEF z
  <1>4. /\ z.res = y.res /\ z.rd = y.rd /\ z.record = y.record /\ z.aborted = y.aborted
        /\ z.hup = y.hup /\ z.failed = y.failed /\ z.stack = y.stack
        /\ z.ticks = y.ticks /\ Writes(z) = Writes(y)
    BY <1>2 DEF Only, Members, Writes
  <1>3. Quiet(x, z)
    BY <1>2, <1>4 DEF Quiet, Posted, Destroyed
  <1> QED  BY <1>2, <1>3 DEF z

\* One step of a call on a record that has become y.
LEMMA QuietThenOnly ==
  ASSUME NEW x \in Library, NEW y, NEW z \in Library, Quiet(x, y),
         Only(y, z, {"sent", "shut", "wantWrite", "writeError"}),
         y.writeError => z.writeError
  PROVE  Quiet(x, z) /\ z.out = y.out /\ z.res = y.res
  <1>1. y \in Library
    BY DEF Quiet
  <1>2. z.out = y.out /\ z.res = y.res /\ z.finish = y.finish
    BY DEF Only, Members
  <1>3. Quiet(y, z)
    BY <1>1, <1>2, QuietOnly DEF Only, Members
  <1> QED  BY <1>2, <1>3, QuietTwice

LEMMA DrainedIs ==
  ASSUME NEW x \in Library
  PROVE  \E z \in Library :
           /\ Quiet(x, z) /\ z.out = x.out /\ z.res = x.res /\ z.sent = x.sent
           /\ Drained(x) = z \/ Drained(x) = User(z)
  <1> DEFINE y == IF x.shut THEN x
                  ELSE IF x.finish
                  THEN NextTick([x EXCEPT !.shut = TRUE], <<"emit", "sockFinish">>)
                  ELSE NextTick(x, <<"sockDrain">>)
             z == IF x.hup THEN SockDestroy(y) ELSE [y EXCEPT !.wantWrite = FALSE]
             w == [z EXCEPT !.writeError = TRUE]
  <1>1. Quiet(x, y) /\ y.out = x.out /\ y.res = x.res /\ y.sent = x.sent
    <2>1. CASE x.shut
      BY <2>1, QuietSelf
    <2>2. CASE ~x.shut /\ x.finish
      <3> DEFINE v == [x EXCEPT !.shut = TRUE]
      <3>1. v \in Library /\ Only(x, v, {"shut"})
        BY DEF Library, Only, Members
      <3> HIDE DEF v
      <3>2. Quiet(x, v) /\ v.out = x.out /\ v.res = x.res /\ v.sent = x.sent
        <4>1. Only(x, v, {"sent", "shut", "wantWrite", "writeError"})
                /\ v.writeError = x.writeError /\ v.sent = x.sent
          BY <3>1 DEF Only, Members
        <4> QED  BY <3>1, <4>1, QuietSelf, QuietThenOnly
      <3>3. y = NextTick(v, <<"emit", "sockFinish">>)
        BY <2>2 DEF v
      <3>4. /\ <<"emit", "sockFinish">> \in Plain
            /\ <<"emit", "sockFinish">> \in Posts
        BY SomePlain DEF Plain
      <3>5. Quiet(v, y)
        BY <3>1, <3>3, <3>4, QuietPost
      <3>6. Only(v, y, {"ticks"})
        BY <3>1, <3>3, <3>4, NextTickIs
      <3>7. y.out = v.out /\ y.res = v.res /\ y.sent = v.sent
        BY <3>6 DEF Only, Members
      <3>8. Quiet(x, y)
        BY <3>2, <3>5, QuietTwice
      <3> QED  BY <3>2, <3>7, <3>8
    <2>3. CASE ~x.shut /\ ~x.finish
      <3>1. y = NextTick(x, <<"sockDrain">>)
        BY <2>3
      <3>2. Quiet(x, y) /\ Only(x, y, {"ticks"})
        BY <3>1, QuietPost, SomePlain, NextTickIs, SomePosts, ZenonT(30)
      <3> QED  BY <3>2 DEF Only, Members
    <2> QED  BY <2>1, <2>2, <2>3
  <1>2. y \in Library
    BY <1>1 DEF Quiet
  <1> HIDE DEF y
  <1>3. Quiet(x, z) /\ z.out = x.out /\ z.res = x.res /\ z.sent = x.sent
    <2>1. CASE x.hup
      BY <1>1, <1>2, <2>1, SockDestroyIs, QuietTwice
    <2>2. CASE ~x.hup
      <3>1. z \in Library /\ Only(y, z, {"wantWrite"})
        BY <1>2, <2>2 DEF Library, Only, Members
      <3>2. /\ Only(y, z, {"sent", "shut", "wantWrite", "writeError"})
            /\ z.writeError = y.writeError /\ z.sent = y.sent
        BY <3>1 DEF Only, Members
      <3> HIDE DEF z
      <3>3. Quiet(x, z) /\ z.out = y.out /\ z.res = y.res
        BY <1>1, <3>1, <3>2, QuietThenOnly
      <3> QED  BY <1>1, <3>2, <3>3
    <2> QED  BY <2>1, <2>2
  <1>4. z \in Library
    BY <1>3 DEF Quiet
  <1>5. Drained(x) = IF x.rd.sock.destroyed /\ x.finish /\ ~x.shut THEN User(w) ELSE z
    BY DEF Drained, y
  <1> HIDE DEF z
  <1>6. w \in Library /\ Only(z, w, {"writeError"}) /\ w.writeError
    BY <1>4 DEF Library, Only, Members
  <1> HIDE DEF w
  <1>7. Quiet(x, w) /\ w.out = x.out /\ w.res = x.res /\ w.sent = x.sent
    <2>1. Only(z, w, {"sent", "shut", "wantWrite", "writeError"}) /\ w.sent = z.sent
      BY <1>6 DEF Only, Members
    <2> QED  BY <1>3, <1>6, <2>1, QuietThenOnly
  <1> QED  BY <1>3, <1>4, <1>5, <1>6, <1>7

LEMMA DoWriteIs ==
  ASSUME NEW x \in Library, NEW taken \in Nat, x.sent + taken <= Len(x.out)
  PROVE  \E z \in Library :
           /\ Quiet(x, z) /\ z.out = x.out /\ z.res = x.res /\ z.sent <= Len(z.out)
           /\ DoWrite(x, taken) = z \/ DoWrite(x, taken) = User(z)
  <1> DEFINE y == [x EXCEPT !.sent = @ + taken]
             v == [x EXCEPT !.writeError = TRUE]
             w == [y EXCEPT !.wantWrite = TRUE]
             Outcome(z) == /\ Quiet(x, z) /\ z.out = x.out /\ z.res = x.res
                           /\ z.sent <= Len(z.out)
  <1>1. y \in Library /\ Only(x, y, {"sent"}) /\ y.sent = x.sent + taken
    <2>1. x.sent + taken \in Nat
      BY DEF Library
    <2> QED  BY <2>1 DEF Library, Only, Members
  <1>2. v \in Library /\ Only(x, v, {"writeError"}) /\ v.writeError
    BY DEF Library, Only, Members
  <1>3. w \in Library /\ Only(y, w, {"wantWrite"})
    BY <1>1 DEF Library, Only, Members
  <1>4. DoWrite(x, taken) = CASE y.sent = Len(y.out) -> Drained(y)
                              [] y.sent # Len(y.out) /\ x.rd.sock.destroyed -> User(v)
                              [] OTHER -> w
    BY DEF DoWrite
  <1>5. x.sent \in Nat /\ x.out \in Seq(Items) /\ Len(x.out) \in Nat
    BY DEF Library
  <1> HIDE DEF y, v, w
  <1>6. Outcome(y)
    <2>1. /\ Only(x, y, {"sent", "shut", "wantWrite", "writeError"})
          /\ y.writeError = x.writeError
      BY <1>1 DEF Only, Members
    <2> QED  BY <1>1, <2>1, QuietSelf, QuietThenOnly
  <1>7. Outcome(v)
    <2>1. Only(x, v, {"sent", "shut", "wantWrite", "writeError"}) /\ v.sent = x.sent
      BY <1>2 DEF Only, Members
    <2> QED  BY <1>2, <1>5, <2>1, QuietSelf, QuietThenOnly
  <1>8. Outcome(w)
    <2>1. /\ Only(y, w, {"sent", "shut", "wantWrite", "writeError"})
          /\ w.writeError = y.writeError /\ w.sent = y.sent
      BY <1>3 DEF Only, Members
    <2> QED  BY <1>3, <1>6, <2>1, QuietThenOnly
  <1>9. CASE y.sent = Len(y.out)
    <2>1. PICK z \in Library :
            /\ Quiet(y, z) /\ z.out = y.out /\ z.res = y.res /\ z.sent = y.sent
            /\ Drained(y) = z \/ Drained(y) = User(z)
      BY <1>1, DrainedIs
    <2>2. Outcome(z)
      BY <1>6, <2>1, QuietTwice
    <2>3. DoWrite(x, taken) = z \/ DoWrite(x, taken) = User(z)
      BY <1>4, <1>9, <2>1
    <2> QED  BY <2>2, <2>3
  <1>10. CASE y.sent # Len(y.out) /\ x.rd.sock.destroyed
    BY <1>2, <1>4, <1>7, <1>10
  <1>11. CASE y.sent # Len(y.out) /\ ~x.rd.sock.destroyed
    BY <1>3, <1>4, <1>8, <1>11
  <1> QED  BY <1>9, <1>10, <1>11

-----------------------------------------------------------------------------
(* What the operators of a response change *)

\* A quiet call that changes no response but n; and one that leaves of it what
\* it still has to put into the socket.
Responds(x, y, n) ==
  /\ Quiet(x, y) /\ y.sent = x.sent
  /\ \A m \in DOMAIN x.res : m # n => y.res[m] = x.res[m]

Content == {"state", "pending", "cached", "set", "buf", "written"}
Alike(r, q) == \A f \in Content : q[f] = r[f]
Leaves(x, y, n) ==
  /\ Responds(x, y, n) /\ y.out = x.out
  /\ n \in DOMAIN x.res => Alike(x.res[n], y.res[n])

LEMMA SetResponseResponds ==
  ASSUME NEW x \in Library, NEW n \in DOMAIN x.res, NEW r \in ResponseType
  PROVE  LET y == [x EXCEPT !.res[n] = r]
         IN  /\ y \in Library /\ Responds(x, y, n) /\ y.res[n] = r /\ y.out = x.out
             /\ Only(x, y, {"res"})
  <1> DEFINE y == [x EXCEPT !.res[n] = r]
  <1>1. /\ y \in Library /\ Only(x, y, {"res"})
        /\ DOMAIN y.res = DOMAIN x.res /\ y.res[n] = r
        /\ \A m \in DOMAIN x.res : m # n => y.res[m] = x.res[m]
    BY SetResponse
  <1> HIDE DEF y
  <1>2. /\ Only(x, y, {"out", "sent", "shut", "notified", "finish", "writeError",
                       "wantWrite", "thrown", "res"})
        /\ y.finish = x.finish /\ y.writeError = x.writeError
        /\ y.out = x.out /\ y.sent = x.sent
    BY <1>1 DEF Only, Members
  <1>3. Quiet(x, y)
    BY <1>1, <1>2, QuietOnly
  <1> QED  BY <1>1, <1>2, <1>3 DEF Responds, y

LEMMA NotifyWriteIs ==
  ASSUME NEW x \in Library, NEW n \in DOMAIN x.res
  PROVE  Leaves(x, NotifyWrite(x, n), n) /\ NotifyWrite(x, n).rd = x.rd
  <1>1. CASE x.res[n].notified
    <2>1. NotifyWrite(x, n) = x
      BY <1>1 DEF NotifyWrite
    <2> QED  BY <2>1, QuietSelf DEF Leaves, Responds, Alike
  <1>2. CASE ~x.res[n].notified
    <2> DEFINE r == [x.res[n] EXCEPT !.notified = TRUE]
               y == [x EXCEPT !.res[n] = r]
    <2>1. x.res[n] \in ResponseType
      BY DEF Library
    <2>2. r \in ResponseType /\ Alike(x.res[n], r)
      BY <2>1 DEF ResponseType, Alike, Content
    <2>3. NotifyWrite(x, n) = NextTick(y, <<"write", n>>)
      BY <1>2, <2>1 DEF NotifyWrite, Library
    <2> HIDE DEF r
    <2>4. /\ y \in Library /\ Responds(x, y, n) /\ y.res[n] = r /\ y.out = x.out
          /\ Only(x, y, {"res"})
      BY <2>2, SetResponseResponds
    <2> HIDE DEF y
    <2>5. /\ <<"write", n>> \in Plain \cup {<<"write", m>> : m \in DOMAIN y.res}
          /\ <<"write", n>> \in Posts
      <3>1. n \in Nat /\ n \in DOMAIN y.res
        BY <2>4 DEF Library, Responds, Quiet
      <3> QED  BY <3>1, SomePosts
    <2>6. /\ Quiet(y, NotifyWrite(x, n)) /\ Only(y, NotifyWrite(x, n), {"ticks"})
      BY <2>3, <2>4, <2>5, QuietPost, NextTickIs
    <2>7. /\ NotifyWrite(x, n).res = y.res /\ NotifyWrite(x, n).out = y.out
          /\ NotifyWrite(x, n).sent = y.sent /\ NotifyWrite(x, n).rd = x.rd
      BY <2>4, <2>6 DEF Only, Members
    <2>8. Quiet(x, NotifyWrite(x, n))
      BY <2>4, <2>6, QuietTwice DEF Responds
    <2> QED  BY <2>2, <2>4, <2>7, <2>8 DEF Leaves, Responds
  <1> QED  BY <1>1, <1>2

LEMMA PostLeaves ==
  ASSUME NEW x \in Library, NEW t \in Plain, NEW n
  PROVE  Leaves(x, NextTick(x, t), n)
  <1>1. t \in Posts
    BY DEF Plain
  <1>2. Quiet(x, NextTick(x, t)) /\ Only(x, NextTick(x, t), {"ticks"})
    BY <1>1, QuietPost, NextTickIs
  <1>3. /\ NextTick(x, t).res = x.res /\ NextTick(x, t).out = x.out
        /\ NextTick(x, t).sent = x.sent
    BY <1>2 DEF Only, Members
  <1> QED  BY <1>2, <1>3 DEF Leaves, Responds, Alike

LEMMA LeavesTwice ==
  ASSUME NEW x \in Library, NEW y, NEW z, NEW n,
         Leaves(x, y, n), Leaves(y, z, n)
  PROVE  Leaves(x, z, n)
  <1>1. Quiet(x, z) /\ DOMAIN y.res = DOMAIN x.res
    BY QuietTwice DEF Leaves, Responds, Quiet
  <1> HIDE DEF Quiet
  <1> QED  BY <1>1 DEF Leaves, Responds, Alike

LEMMA OnDrainIs ==
  ASSUME NEW x \in Library, NEW n \in DOMAIN x.res
  PROVE  Leaves(x, OnDrain(x, n), n)
  <1>4. CASE x.record = "gone"
    <2>1. /\ Quiet(x, Abort(x, "drain")) /\ Only(x, Abort(x, "drain"), {"aborted"})
      BY <1>4, QuietAbort DEF Asserts
    <2>2. OnDrain(x, n) = Abort(x, "drain")
      BY <1>4 DEF OnDrain, WithSocket
    <2> QED  BY <2>1, <2>2 DEF Leaves, Responds, Alike, Only, Members
  <1>1. CASE x.record # "gone" /\ x.res[n].buf # <<>>
    BY <1>1, NotifyWriteIs DEF OnDrain, WithSocket
  <1>2. CASE x.record # "gone" /\ x.res[n].buf = <<>> /\ x.res[n].finish
    <2> DEFINE r == [x.res[n] EXCEPT !.done = TRUE]
               y == [x EXCEPT !.res[n] = r]
               z == NextTick(y, <<"emit", "finish">>)
    <2>1. x.res[n] \in ResponseType
      BY DEF Library
    <2>2. r \in ResponseType /\ Alike(x.res[n], r)
      BY <2>1 DEF ResponseType, Alike, Content
    <2>3. OnDrain(x, n) = SockEnd(z)
      BY <1>2, <2>1 DEF OnDrain, WithSocket, Library
    <2> HIDE DEF r
    <2>4. y \in Library /\ Leaves(x, y, n)
      BY <2>2, SetResponseResponds DEF Leaves
    <2> HIDE DEF y
    <2>5. Leaves(y, z, n)
      BY <2>4, PostLeaves, SomePlain
    <2>6. z \in Library
      BY <2>5 DEF Leaves, Responds, Quiet
    <2> HIDE DEF z
    <2>7. Leaves(z, SockEnd(z), n)
      BY <2>6, SockEndIs DEF Leaves, Responds, Alike
    <2> QED  BY <2>3, <2>4, <2>5, <2>6, <2>7, LeavesTwice
  <1>3. CASE x.record # "gone" /\ x.res[n].buf = <<>> /\ ~x.res[n].finish
    <2>1. OnDrain(x, n) = NextTick(x, <<"emit", "drain">>)
      BY <1>3 DEF OnDrain, WithSocket
    <2> QED  BY <2>1, PostLeaves, SomePlain
  <1> QED  BY <1>1, <1>2, <1>3, <1>4

\* A call that sets or flushes headers of the response n; one that may queue
\* items for it.
HeadersChange(r, q) ==
  /\ q.buf = r.buf /\ q.written = r.written
  /\ q.state = "BODY" <=> r.state = "BODY"
  /\ r.state = "BODY" => q.set = r.set
  /\ r.state # "BODY" /\ r.cached + r.pending = r.set
       => q.cached + q.pending = q.set
SetsHeaders(x, y, n) ==
  /\ Responds(x, y, n) /\ y.out = x.out
  /\ n \in DOMAIN x.res => HeadersChange(x.res[n], y.res[n])

ItemsChange(r, q, items) ==
  /\ \A f \in {"state", "pending", "cached", "set"} : q[f] = r[f]
  /\ \/ q.buf = r.buf /\ q.written = r.written
     \/ q.buf = r.buf \o items /\ q.written = r.written + Len(items)
Queues(x, y, n, items) ==
  /\ Responds(x, y, n) /\ y.out = x.out
  /\ n \in DOMAIN x.res => ItemsChange(x.res[n], y.res[n], items)

LEMMA HeadersAreSet ==
  ASSUME NEW x \in Library, NEW n \in DOMAIN x.res
  PROVE  /\ SetsHeaders(x, SetHeader(x, n), n)
         /\ SetsHeaders(x, WriteHead(x, n), n)
         /\ SetsHeaders(x, FlushHeaders(x, n), n)
  <1> DEFINE r == x.res[n]
  <1>1. r \in ResponseType
    BY DEF Library
  <1>2. SetsHeaders(x, x, n)
    BY <1>1, QuietSelf DEF SetsHeaders, Responds, HeadersChange
  <1>3. ASSUME NEW q \in ResponseType, HeadersChange(r, q)
        PROVE  SetsHeaders(x, [x EXCEPT !.res[n] = q], n)
    <2> DEFINE y == [x EXCEPT !.res[n] = q]
    <2>1. Responds(x, y, n) /\ y.res[n] = q /\ y.out = x.out
      BY SetResponseResponds
    <2> HIDE DEF y
    <2>2. SetsHeaders(x, y, n)
      BY <1>3, <2>1 DEF SetsHeaders
    <2> QED  BY <2>2 DEF y
  <1>4. SetsHeaders(x, SetHeader(x, n), n)
    <2> DEFINE q == [r EXCEPT !.pending = @ + 1, !.set = @ + 1]
    <2>1. CASE r.state = "BODY"
      BY <1>2, <2>1 DEF SetHeader
    <2>2. CASE r.state # "BODY"
      <3>1. SetHeader(x, n) = [x EXCEPT !.res[n] = q]
        BY <1>1, <2>2 DEF SetHeader, Library
      <3> HIDE DEF r
      <3>2. r.pending + 1 \in Nat /\ r.set + 1 \in Nat
        BY <1>1 DEF ResponseType
      <3>3. /\ q \in ResponseType /\ q.buf = r.buf /\ q.written = r.written
            /\ q.state = r.state /\ q.cached = r.cached
            /\ q.pending = r.pending + 1 /\ q.set = r.set + 1
        BY <1>1, <3>2 DEF ResponseType
      <3> HIDE DEF q
      <3>4. r.cached + r.pending = r.set => q.cached + q.pending = q.set
        BY <1>1, <3>3 DEF ResponseType
      <3>5. HeadersChange(r, q)
        BY <2>2, <3>3, <3>4 DEF HeadersChange, r
      <3> QED  BY <1>3, <3>1, <3>3, <3>5 DEF r
    <2> QED  BY <2>1, <2>2
  <1>5. SetsHeaders(x, WriteHead(x, n), n)
    <2> DEFINE q == HeadWritten(r)
    <2> HIDE DEF r
    <2>1. /\ r.pending + 1 \in Nat /\ r.set + 1 \in Nat
          /\ (IF r.state = "BODY" THEN r.set ELSE r.set + 1) \in Nat
      BY <1>1 DEF ResponseType
    <2>2. /\ q \in ResponseType /\ q.buf = r.buf /\ q.written = r.written
          /\ q.state = r.state /\ q.cached = r.cached /\ q.pending = r.pending + 1
          /\ q.set = IF r.state = "BODY" THEN r.set ELSE r.set + 1
      BY <1>1, <2>1 DEF ResponseType, HeadWritten
    <2>3. WriteHead(x, n) = [x EXCEPT !.res[n] = q]
      BY DEF WriteHead, Library, r
    <2> HIDE DEF q
    <2>4. r.state # "BODY" /\ r.cached + r.pending = r.set
            => q.cached + q.pending = q.set
      BY <1>1, <2>2 DEF ResponseType
    <2>5. HeadersChange(r, q)
      BY <2>2, <2>4 DEF HeadersChange
    <2> QED  BY <1>3, <2>2, <2>3, <2>5 DEF r
  <1>6. SetsHeaders(x, FlushHeaders(x, n), n)
    <2> DEFINE q == Flushed(r)
    <2>1. CASE r.state = "BODY" \/ Throws(r)
      BY <1>2, <2>1 DEF FlushHeaders
    <2>2. CASE ~(r.state = "BODY" \/ Throws(r))
      <3>1. FlushHeaders(x, n) = [x EXCEPT !.res[n] = q]
        BY <1>1, <2>2 DEF FlushHeaders, Library
      <3> HIDE DEF r
      <3>2. r.cached + r.pending \in Nat /\ r.state # "BODY"
        BY <1>1, <2>2 DEF ResponseType, r
      <3>3. /\ q \in ResponseType /\ q.buf = r.buf /\ q.written = r.written
            /\ q.state # "BODY" /\ q.cached = r.cached + r.pending
            /\ q.pending = 0 /\ q.set = r.set
        BY <1>1, <3>2 DEF ResponseType, Flushed
      <3> HIDE DEF q
      <3>4. r.cached + r.pending = r.set => q.cached + q.pending = q.set
        BY <3>2, <3>3
      <3>5. HeadersChange(r, q)
        BY <3>2, <3>3, <3>4 DEF HeadersChange
      <3> QED  BY <1>3, <3>1, <3>3, <3>5 DEF r
    <2> QED  BY <2>1, <2>2
  <1> QED  BY <1>4, <1>5, <1>6

LEMMA ItemsAreQueued ==
  ASSUME NEW x \in Library, NEW n \in DOMAIN x.res, NEW items \in Seq(Nat)
  PROVE  /\ Queues(x, Write(x, n, items), n, items)
         /\ Queues(x, End(x, n, items), n, items)
  <1> DEFINE r == x.res[n]
             q == [r EXCEPT !.buf = @ \o items, !.written = @ + Len(items)]
             y == [x EXCEPT !.res[n] = q]
             v == NotifyWrite(y, n)
             p == [v.res[n] EXCEPT !.finish = TRUE]
  <1>1. r \in ResponseType
    BY DEF Library
  <1>2. CASE r.destroyed \/ r.finish
    <2>1. Leaves(x, NextTick(x, <<"emit", "error">>), n)
      BY PostLeaves, SomePlain
    <2>2. Queues(x, NextTick(x, <<"emit", "error">>), n, items)
      BY <2>1 DEF Leaves, Queues, ItemsChange, Alike, Content
    <2> QED  BY <1>2, <2>2 DEF Write, End
  <1>3. CASE ~(r.destroyed \/ r.finish)
    <2>1. Len(items) \in Nat /\ r.buf \o items \in Seq(Nat)
      <3>1. r.buf \in Seq(Nat)
        BY <1>1 DEF ResponseType
      <3> QED  BY <3>1, ConcatProperties, LenProperties
    <2>2. q \in ResponseType
      <3>1. r.written + Len(items) \in Nat
        BY <1>1, <2>1 DEF ResponseType
      <3> QED  BY <1>1, <2>1, <3>1 DEF ResponseType
    <2>3. /\ \A f \in {"state", "pending", "cached", "set"} : q[f] = r[f]
          /\ q.buf = r.buf \o items /\ q.written = r.written + Len(items)
      BY <1>1 DEF ResponseType
    <2>4. Write(x, n, items) = v
      BY <1>1, <1>3 DEF Write, Library
    <2>5. End(x, n, items) = [v EXCEPT !.res[n].finish = TRUE]
      BY <1>3, <2>4 DEF End
    <2> HIDE DEF q
    <2>6. y \in Library /\ Responds(x, y, n) /\ y.res[n] = q /\ y.out = x.out
      BY <2>2, SetResponseResponds
    <2>7. n \in DOMAIN y.res
      BY <2>6 DEF Responds, Quiet
    <2> HIDE DEF y
    <2>8. Leaves(y, v, n)
      BY <2>6, <2>7, NotifyWriteIs
    <2>9. v \in Library /\ n \in DOMAIN v.res /\ v.out = x.out
      BY <2>6, <2>7, <2>8 DEF Leaves, Responds, Quiet
    <2> HIDE DEF v
    <2>10. v.res[n] \in ResponseType
      BY <2>9 DEF Library
    <2>11. p \in ResponseType /\ Alike(v.res[n], p)
      BY <2>10 DEF ResponseType, Alike, Content
    <2>12. End(x, n, items) = [v EXCEPT !.res[n] = p]
      BY <2>5, <2>9, <2>10 DEF Library
    <2> HIDE DEF p
    <2>13. Leaves(v, End(x, n, items), n)
      BY <2>9, <2>11, <2>12, SetResponseResponds DEF Leaves
    <2>14. ASSUME NEW z, Leaves(y, z, n) PROVE Queues(x, z, n, items)
      <3>1. Responds(x, z, n)
        <4>1. Quiet(x, z)
          BY <2>6, <2>14, QuietTwice DEF Leaves, Responds
        <4> QED  BY <2>6, <2>14, <4>1 DEF Leaves, Responds, Quiet
      <3>2. z.out = x.out /\ Alike(q, z.res[n])
        BY <2>6, <2>7, <2>14 DEF Leaves
      <3>3. /\ \A f \in {"state", "pending", "cached", "set"} : z.res[n][f] = q[f]
            /\ z.res[n].buf = q.buf /\ z.res[n].written = q.written
        BY <3>2 DEF Alike, Content
      <3> QED  BY <2>3, <3>1, <3>2, <3>3 DEF Queues, ItemsChange
    <2> QED  BY <2>4, <2>6, <2>8, <2>13, <2>14, LeavesTwice
  <1> QED  BY <1>2, <1>3

\* The _write of the response n, unless it throws.
HeadItem(r, n) == IF r.state = "BODY" THEN <<>>
                  ELSE <<<<"head", n, r.cached + r.pending>>>>
BodyItems(r, n) == [i \in DOMAIN r.buf |-> <<"body", n, r.buf[i]>>]
PassesOn(x, y, n) ==
  LET r == x.res[n]
      q == y.res[n]
  IN  /\ Responds(x, y, n)
      /\ q.state = "BODY" /\ q.buf = <<>> /\ q.written = r.written /\ q.set = r.set
      /\ y.out = IF Writes(x) THEN (x.out \o HeadItem(r, n)) \o BodyItems(r, n)
                 ELSE x.out

LEMMA BodyItemsAre ==
  ASSUME NEW r \in ResponseType, NEW n \in Nat
  PROVE  /\ BodyItems(r, n) \in Seq(Items) /\ Len(BodyItems(r, n)) = Len(r.buf)
         /\ DOMAIN BodyItems(r, n) = DOMAIN r.buf
         /\ HeadItem(r, n) \in Seq(Items)
  <1>1. r.buf \in Seq(Nat) /\ Len(r.buf) \in Nat /\ DOMAIN r.buf = 1 .. Len(r.buf)
    BY DEF ResponseType
  <1>2. \A i \in DOMAIN r.buf : <<"body", n, r.buf[i]>> \in Items
    <2>1. \A i \in DOMAIN r.buf : r.buf[i] \in Nat
      BY <1>1
    <2> QED  BY <2>1 DEF Items
  <1>3. BodyItems(r, n) \in [1 .. Len(r.buf) -> Items]
    BY <1>1, <1>2 DEF BodyItems
  <1>4. HeadItem(r, n) \in Seq(Items)
    <2>1. CASE r.state = "BODY"
      BY <2>1, EmptySeq DEF HeadItem
    <2>2. CASE r.state # "BODY"
      <3>1. r.cached + r.pending \in Nat
        BY DEF ResponseType
      <3>2. <<"head", n, r.cached + r.pending>> \in Items
        BY <3>1 DEF Items
      <3> QED  BY <2>2, <3>2 DEF HeadItem
    <2> QED  BY <2>1, <2>2
  <1>5. BodyItems(r, n) \in Seq(Items) /\ Len(BodyItems(r, n)) = Len(r.buf)
    BY <1>1, <1>3, IsASeq, LenProperties
  <1> QED  BY <1>1, <1>3, <1>4, <1>5

LEMMA ResponseWriteIs ==
  ASSUME NEW x0 \in Library, NEW n \in DOMAIN x0.res
  PROVE  LET y == ResponseWrite(x0, n)
         IN  \/ Leaves(x0, y, n)
             \/ PassesOn(x0, y, n)
  <1> DEFINE r0 == [x0.res[n] EXCEPT !.notified = FALSE]
             x == [x0 EXCEPT !.res[n] = r0]
             r == Flushed(x.res[n])
             q == [r EXCEPT !.state = "BODY", !.cached = 0]
             v == [x EXCEPT !.res[n] = q]
             head == <<<<"head", n, r.cached>>>>
             body == [i \in DOMAIN x.res[n].buf |-> <<"body", n, x.res[n].buf[i]>>]
             headed == IF x.res[n].state = "BODY" THEN x ELSE SockWrite(v, head)
             w == SockWrite(headed, body)
  <1>1. x0.res[n] \in ResponseType /\ n \in Nat
    BY DEF Library
  <1>2. r0 \in ResponseType /\ Alike(x0.res[n], r0)
    BY <1>1 DEF ResponseType, Alike, Content
  <1>3. [x0 EXCEPT !.res[n].notified = FALSE] = x
    BY <1>1 DEF Library
  <1>4. ResponseWrite(x0, n) =
          IF x.record = "gone" THEN Abort(x, "write")
          ELSE IF x.res[n].state # "BODY" /\ Throws(x.res[n])
               THEN [x EXCEPT !.thrown = TRUE]
          ELSE [w EXCEPT !.res[n].buf = <<>>]
    BY <1>3 DEF ResponseWrite, WithSocket
  <1> HIDE DEF r0
  <1>5. /\ x \in Library /\ Responds(x0, x, n) /\ x.res[n] = r0 /\ x.out = x0.out
        /\ Only(x0, x, {"res"})
    BY <1>2, SetResponseResponds
  <1> HIDE DEF x
  <1>6. n \in DOMAIN x.res /\ Writes(x) = Writes(x0)
    BY <1>5 DEF Only, Members, Responds, Quiet, Writes
  <1>7. Leaves(x0, x, n)
    BY <1>2, <1>5 DEF Leaves
  <1>10. CASE x.record = "gone"
    <2>1. Quiet(x, Abort(x, "write")) /\ Only(x, Abort(x, "write"), {"aborted"})
      BY <1>5, <1>10, QuietAbort DEF Asserts
    <2>2. Leaves(x, Abort(x, "write"), n)
      BY <2>1 DEF Leaves, Responds, Alike, Only, Members
    <2> QED  BY <1>4, <1>7, <1>10, <2>2, LeavesTwice
  <1>8. CASE x.record # "gone" /\ x.res[n].state # "BODY" /\ Throws(x.res[n])
    <2> DEFINE y == [x EXCEPT !.thrown = TRUE]
    <2>1. y \in Library /\ Only(x, y, {"thrown"})
      BY <1>5 DEF Library, Only, Members
    <2> HIDE DEF y
    <2>2. /\ y.res = x.res /\ y.out = x.out /\ y.sent = x.sent
          /\ y.finish = x.finish /\ y.writeError = x.writeError
          /\ Only(x, y, {"out", "sent", "shut", "notified", "finish", "writeError",
                         "wantWrite", "thrown", "res"})
      BY <2>1 DEF Only, Members
    <2>3. Quiet(x, y)
      BY <1>5, <2>1, <2>2, QuietOnly
    <2>4. Leaves(x, y, n)
      BY <2>2, <2>3 DEF Leaves, Responds, Alike
    <2> QED  BY <1>4, <1>6, <1>7, <1>8, <2>4, LeavesTwice DEF y
  <1>9. CASE x.record # "gone" /\ ~(x.res[n].state # "BODY" /\ Throws(x.res[n]))
    <2>1. ResponseWrite(x0, n) = [w EXCEPT !.res[n].buf = <<>>]
      BY <1>4, <1>6, <1>9
    <2>2. r0.buf = x0.res[n].buf /\ r0.written = x0.res[n].written
            /\ r0.set = x0.res[n].set /\ r0.state = x0.res[n].state
            /\ r0.cached = x0.res[n].cached /\ r0.pending = x0.res[n].pending
      BY <1>2 DEF Alike, Content
    <2>3. body = BodyItems(x0.res[n], n)
      BY <1>5, <2>2 DEF BodyItems
    <2>4. body \in Seq(Items)
      BY <1>1, <2>3, BodyItemsAre
    <2> HIDE DEF body
    <2>5. /\ headed \in Library /\ Responds(x, headed, n)
          /\ headed.out = IF Writes(x) THEN x.out \o HeadItem(x0.res[n], n) ELSE x.out
          /\ Writes(headed) = Writes(x)
          /\ headed.res[n].state = "BODY"
          /\ headed.res[n].written = r0.written /\ headed.res[n].set = r0.set
      <3>1. CASE r0.state = "BODY"
        <4>1. headed = x
          BY <1>5, <3>1
        <4>2. x.out \o HeadItem(x0.res[n], n) = x.out
          BY <1>5, <2>2, <3>1, ConcatEmptySeq DEF HeadItem, Library
        <4>3. Responds(x, x, n)
          BY <1>5, QuietSelf DEF Responds
        <4> QED  BY <1>5, <3>1, <4>1, <4>2, <4>3
      <3>2. CASE r0.state # "BODY"
        <4>1. headed = SockWrite(v, head)
          BY <1>5, <3>2
        <4>2. r0.cached + r0.pending \in Nat
          BY <1>2 DEF ResponseType
        <4>3. /\ q \in ResponseType /\ r.cached = r0.cached + r0.pending
              /\ q.state = "BODY" /\ q.written = r0.written /\ q.set = r0.set
          BY <1>2, <1>5, <4>2 DEF Flushed, ResponseType
        <4>4. head = HeadItem(x0.res[n], n)
          BY <2>2, <3>2, <4>3 DEF HeadItem
        <4>5. head \in Seq(Items)
          BY <1>1, <4>4, BodyItemsAre
        <4> HIDE DEF r, q, head
        <4>6. /\ v \in Library /\ Responds(x, v, n) /\ v.res[n] = q /\ v.out = x.out
              /\ Only(x, v, {"res"})
          BY <1>5, <1>6, <4>3, SetResponseResponds
        <4> HIDE DEF v
        <4>7. Writes(v) = Writes(x)
          BY <4>6 DEF Only, Members, Writes
        <4>8. /\ Quiet(v, headed) /\ headed.res = v.res /\ headed.sent = v.sent
              /\ headed.out = IF Writes(v) THEN v.out \o head ELSE v.out
              /\ Writes(headed) = Writes(v)
          BY <4>1, <4>5, <4>6, SockWriteIs
        <4>9. Responds(x, headed, n)
          <5>1. Quiet(x, headed)
            BY <1>5, <4>6, <4>8, QuietTwice DEF Responds
          <5> QED  BY <4>6, <4>8, <5>1 DEF Responds
        <4>10. headed \in Library
          BY <4>8 DEF Quiet
        <4> QED  BY <4>3, <4>4, <4>6, <4>7, <4>8, <4>9, <4>10
      <3> QED  BY <3>1, <3>2
    <2> HIDE DEF headed
    <2>6. /\ Quiet(headed, w) /\ w.res = headed.res /\ w.sent = headed.sent
          /\ w.out = IF Writes(headed) THEN headed.out \o body ELSE headed.out
      BY <2>4, <2>5, SockWriteIs
    <2>7. w \in Library /\ n \in DOMAIN w.res
      BY <1>6, <2>5, <2>6 DEF Quiet, Responds
    <2> HIDE DEF w
    <2> DEFINE p == [w.res[n] EXCEPT !.buf = <<>>]
               z == [w EXCEPT !.res[n] = p]
    <2>8. w.res[n] \in ResponseType
      BY <2>7 DEF Library
    <2>9. /\ p \in ResponseType /\ p.buf = <<>> /\ p.state = w.res[n].state
          /\ p.written = w.res[n].written /\ p.set = w.res[n].set
      BY <2>8, EmptySeq DEF ResponseType
    <2>10. ResponseWrite(x0, n) = z
      BY <2>1, <2>7, <2>8 DEF Library
    <2> HIDE DEF p
    <2>11. z \in Library /\ Responds(w, z, n) /\ z.res[n] = p /\ z.out = w.out
      BY <2>7, <2>9, SetResponseResponds
    <2> HIDE DEF z
    <2>12. Quiet(x0, z)
      <3>1. Quiet(x0, headed)
        BY <1>5, <2>5, QuietTwice DEF Responds
      <3>2. Quiet(x0, w)
        BY <2>6, <3>1, QuietTwice
      <3> QED  BY <2>11, <3>2, QuietTwice DEF Responds
    <2>13. Responds(x0, z, n)
      <3>1. z.sent = x0.sent
        BY <1>5, <2>5, <2>6, <2>11 DEF Responds
      <3>2. ASSUME NEW m \in DOMAIN x0.res, m # n PROVE z.res[m] = x0.res[m]
        <4>1. m \in DOMAIN x.res /\ m \in DOMAIN headed.res /\ m \in DOMAIN w.res
          BY <1>5, <2>5, <2>6 DEF Responds, Quiet
        <4> QED  BY <1>5, <2>5, <2>6, <2>11, <3>2, <4>1 DEF Responds
      <3> QED  BY <2>12, <3>1, <3>2 DEF Responds
    <2>14. z.out = IF Writes(x0)
                   THEN (x0.out \o HeadItem(x0.res[n], n)) \o BodyItems(x0.res[n], n)
                   ELSE x0.out
      BY <1>5, <1>6, <2>3, <2>5, <2>6, <2>11
    <2>15. PassesOn(x0, z, n)
      BY <2>2, <2>5, <2>6, <2>9, <2>11, <2>13, <2>14 DEF PassesOn
    <2> QED  BY <2>10, <2>15
  <1> QED  BY <1>8, <1>9, <1>10

LEMMA ResponseDestroyIs ==
  ASSUME NEW x \in Library, NEW n \in DOMAIN x.res
  PROVE  Leaves(x, ResponseDestroy(x, n), n)
  <1>1. CASE x.res[n].destroyed
    BY <1>1, QuietSelf DEF ResponseDestroy, Leaves, Responds, Alike
  <1>3. CASE ~x.res[n].destroyed /\ x.record = "gone"
    <2>1. Quiet(x, Abort(x, "destroy")) /\ Only(x, Abort(x, "destroy"), {"aborted"})
      BY <1>3, QuietAbort DEF Asserts
    <2>2. ResponseDestroy(x, n) = Abort(x, "destroy")
      BY <1>3 DEF ResponseDestroy, WithSocket
    <2> QED  BY <2>1, <2>2 DEF Leaves, Responds, Alike, Only, Members
  <1>2. CASE ~x.res[n].destroyed /\ x.record # "gone"
    <2> DEFINE v == SockDestroy(x)
               r == [v.res[n] EXCEPT !.destroyed = TRUE]
               y == [v EXCEPT !.res[n] = r]
    <2>1. /\ Quiet(x, v) /\ v.out = x.out /\ v.res = x.res /\ v.sent = x.sent
      BY SockDestroyIs
    <2>2. v \in Library /\ n \in DOMAIN v.res /\ Leaves(x, v, n)
      BY <2>1 DEF Quiet, Leaves, Responds, Alike
    <2>3. ResponseDestroy(x, n) = NextTick([v EXCEPT !.res[n].destroyed = TRUE],
                                           <<"emit", "close">>)
      BY <1>2 DEF ResponseDestroy, WithSocket
    <2> HIDE DEF v
    <2>4. v.res[n] \in ResponseType
      BY <2>2 DEF Library
    <2>5. r \in ResponseType /\ Alike(v.res[n], r)
      BY <2>4 DEF ResponseType, Alike, Content
    <2>6. [v EXCEPT !.res[n].destroyed = TRUE] = y
      BY <2>2, <2>4 DEF Library
    <2> HIDE DEF r
    <2>7. y \in Library /\ Leaves(v, y, n)
      BY <2>2, <2>5, SetResponseResponds DEF Leaves
    <2> HIDE DEF y
    <2>8. Leaves(y, ResponseDestroy(x, n), n)
      BY <2>3, <2>6, <2>7, PostLeaves, SomePlain
    <2>9. Leaves(x, y, n)
      BY <2>2, <2>7, LeavesTwice
    <2> QED  BY <2>8, <2>9, LeavesTwice
  <1> QED  BY <1>1, <1>2, <1>3

-----------------------------------------------------------------------------
(* Types, of which TypeOK is a part *)

\* What a frame may be when k pieces have been read and the responses are D.
FrameOK(f, k, D) ==
  /\ f \in Frames
  /\ f[1] = "feed" => f[2] \in Seq(1 .. k) /\ f[2] # <<>>
  /\ f[1] = "drain" => f[2] \in D
Typed(x, k) ==
  /\ x \in Library
  /\ x.sent <= Len(x.out)
  /\ \A s \in Streams : x.rd[s].buf \in Seq(1 .. k)
  /\ \A f : Has(x.stack, f) => FrameOK(f, k, DOMAIN x.res)
  /\ \A n : Has(x.ticks, <<"write", n>>) => n \in DOMAIN x.res

LEMMA PlainIsNoWrite ==
  ASSUME NEW n PROVE <<"write", n>> \notin Plain
  <1>1. ASSUME <<"write", n>> \in Posts PROVE n \in Nat
    <2>1. \A t \in Posts : t[1] = "write" => t[2] \in Nat
      BY DEF Posts
    <2> QED  BY <1>1, <2>1
  <1> QED  BY <1>1 DEF Plain

LEMMA TypedQuiet ==
  ASSUME NEW k, NEW x, NEW y, Typed(x, k), Quiet(x, y), y.sent <= Len(y.out)
  PROVE  Typed(y, k)
  <1>1. y \in Library /\ DOMAIN y.res = DOMAIN x.res /\ y.stack = x.stack
    BY DEF Quiet
  <1>2. \A s \in Streams : y.rd[s].buf = x.rd[s].buf
    <2>1. y.rd.req.buf = x.rd.req.buf
      BY DEF Quiet
    <2>2. x.rd.sock \in ReadableType
      BY DEF Typed, Library
    <2>3. y.rd.sock.buf = x.rd.sock.buf
      BY <2>2 DEF Quiet, ReadableType
    <2> QED  BY <2>1, <2>3 DEF Streams
  <1>3. ASSUME NEW n, Has(y.ticks, <<"write", n>>) PROVE n \in DOMAIN y.res
    <2>1. Has(x.ticks, <<"write", n>>) \/ \E m \in DOMAIN x.res : <<"write", n>> = <<"write", m>>
      BY <1>3, PlainIsNoWrite DEF Quiet, Posted
    <2> QED  BY <1>1, <2>1 DEF Typed
  <1> QED  BY <1>1, <1>2, <1>3 DEF Typed

LEMMA TypedResponds ==
  ASSUME NEW k, NEW x, NEW y, NEW n, Typed(x, k)
  PROVE  /\ Leaves(x, y, n) => Typed(y, k)
         /\ SetsHeaders(x, y, n) => Typed(y, k)
         /\ \A items : Queues(x, y, n, items) => Typed(y, k)
         /\ n \in DOMAIN x.res /\ PassesOn(x, y, n) => Typed(y, k)
  <1>1. ASSUME Responds(x, y, n), y.out = x.out PROVE Typed(y, k)
    BY <1>1, TypedQuiet DEF Responds, Typed
  <1>2. ASSUME n \in DOMAIN x.res, PassesOn(x, y, n) PROVE Typed(y, k)
    <2>1. x.sent <= Len(x.out) /\ x.out \in Seq(Items) /\ x.sent \in Nat
      BY DEF Typed, Library
    <2>2. x.res[n] \in ResponseType /\ n \in Nat
      BY <1>2 DEF Typed, Library
    <2> DEFINE h == HeadItem(x.res[n], n)
               b == BodyItems(x.res[n], n)
    <2>3. h \in Seq(Items) /\ b \in Seq(Items)
      BY <2>2, BodyItemsAre
    <2> HIDE DEF h, b
    <2>4. x.sent <= Len((x.out \o h) \o b)
      <3>1. x.out \o h \in Seq(Items) /\ Len(x.out \o h) = Len(x.out) + Len(h)
        BY <2>1, <2>3, ConcatProperties
      <3>2. Len((x.out \o h) \o b) = Len(x.out \o h) + Len(b)
        BY <2>3, <3>1, ConcatProperties
      <3>3. Len(x.out) \in Nat /\ Len(h) \in Nat /\ Len(b) \in Nat
        BY <2>1, <2>3, LenProperties
      <3> QED  BY <2>1, <3>1, <3>2, <3>3
    <2>5. y.sent = x.sent /\ Quiet(x, y)
            /\ y.out \in {x.out, (x.out \o h) \o b}
      BY <1>2 DEF PassesOn, Responds, h, b
    <2> QED  BY <2>1, <2>4, <2>5, TypedQuiet
  <1> QED  BY <1>1, <1>2 DEF Leaves, SetsHeaders, Queues

LEMMA TypedStack ==
  ASSUME NEW k, NEW x, NEW y, Typed(x, k), y \in Library, Only(x, y, {"stack"}),
         \A f : Has(y.stack, f) => Has(x.stack, f) \/ FrameOK(f, k, DOMAIN x.res)
  PROVE  Typed(y, k)
  <1>1. y.sent = x.sent /\ y.out = x.out /\ y.rd = x.rd /\ y.res = x.res
          /\ y.ticks = x.ticks
    BY DEF Only, Members
  <1> QED  BY <1>1 DEF Typed

LEMMA HasPush ==
  ASSUME NEW S, NEW s \in Seq(S), NEW e \in S
  PROVE  \A f : Has(<<e>> \o s, f) <=> Has(s, f) \/ f = e
  <1>1. /\ <<e>> \o s \in Seq(S) /\ Len(<<e>> \o s) = Len(s) + 1 /\ Len(s) \in Nat
        /\ DOMAIN s = 1 .. Len(s) /\ DOMAIN (<<e>> \o s) = 1 .. Len(s) + 1
        /\ (<<e>> \o s)[1] = e /\ \A i \in 1 .. Len(s) : (<<e>> \o s)[i + 1] = s[i]
    OBVIOUS
  <1>2. ASSUME NEW f, Has(<<e>> \o s, f) PROVE Has(s, f) \/ f = e
    <2>1. PICK i \in 1 .. Len(s) + 1 : (<<e>> \o s)[i] = f
      BY <1>1, <1>2 DEF Has
    <2>2. CASE i = 1
      BY <1>1, <2>1, <2>2
    <2>3. CASE i # 1
      <3>1. i - 1 \in 1 .. Len(s) /\ (i - 1) + 1 = i
        BY <1>1, <2>3
      <3>2. s[i - 1] = f
        BY <1>1, <2>1, <3>1
      <3> QED  BY <1>1, <3>1, <3>2 DEF Has
    <2> QED  BY <2>2, <2>3
  <1>3. ASSUME NEW f, Has(s, f) PROVE Has(<<e>> \o s, f)
    <2>1. PICK i \in 1 .. Len(s) : s[i] = f
      BY <1>1, <1>3 DEF Has
    <2>2. i + 1 \in 1 .. Len(s) + 1 /\ (<<e>> \o s)[i + 1] = f
      BY <1>1, <2>1
    <2> QED  BY <1>1, <2>2 DEF Has
  <1>4. Has(<<e>> \o s, e)
    <2>1. 1 \in DOMAIN (<<e>> \o s)
      BY <1>1
    <2> QED  BY <1>1, <2>1 DEF Has
  <1> QED  BY <1>2, <1>3, <1>4

LEMMA TypedCall ==
  ASSUME NEW k, NEW x, Typed(x, k), NEW f, FrameOK(f, k, DOMAIN x.res)
  PROVE  Typed(Call(x, f), k) /\ Only(x, Call(x, f), {"stack"})
  <1>1. x \in Library /\ x.stack \in Seq(Frames) /\ f \in Frames
    BY DEF Typed, Library, FrameOK
  <1>2. /\ Call(x, f) \in Library /\ Only(x, Call(x, f), {"stack"})
        /\ Call(x, f).stack = <<f>> \o x.stack
    BY <1>1, CallIs
  <1>3. \A g : Has(Call(x, f).stack, g) => Has(x.stack, g) \/ g = f
    BY <1>1, <1>2, HasPush
  <1> QED  BY <1>2, <1>3, TypedStack

LEMMA TypedPop ==
  ASSUME NEW k, NEW x, Typed(x, k), x.stack # <<>>
  PROVE  /\ Typed(Pop(x), k) /\ Only(x, Pop(x), {"stack"})
         /\ FrameOK(Head(x.stack), k, DOMAIN x.res)
  <1>1. x \in Library /\ x.stack \in Seq(Frames)
    BY DEF Typed, Library
  <1>2. /\ Pop(x) \in Library /\ Only(x, Pop(x), {"stack"})
        /\ Pop(x).stack = Tail(x.stack)
    BY <1>1, PopIs
  <1>3. \A g : Has(x.stack, g) <=> Has(Pop(x).stack, g) \/ g = Head(x.stack)
    BY <1>1, <1>2, HasTail
  <1>4. Typed(Pop(x), k)
    BY <1>2, <1>3, TypedStack
  <1> QED  BY <1>2, <1>3, <1>4 DEF Typed

\* The frames that hold no data.
LEMMA FramesAreOK ==
  ASSUME NEW k, NEW D
  PROVE  /\ \A f \in {<<"user">>, <<"doRead">>, <<"hup">>, <<"pushedEnd", "req">>} :
              FrameOK(f, k, D)
         /\ \A s \in Streams : \A f \in {<<"emit", s>>, <<"clear", s>>, <<"end", s>>,
                                         <<"ended", s>>, <<"pushed", s>>} : FrameOK(f, k, D)
  <1>1. \A f \in {<<"user">>, <<"doRead">>, <<"hup">>, <<"pushedEnd", "req">>} :
          f[1] # "feed" /\ f[1] # "drain"
    OBVIOUS
  <1>2. \A s \in Streams : \A f \in {<<"emit", s>>, <<"clear", s>>, <<"end", s>>,
                                     <<"ended", s>>, <<"pushed", s>>} :
          f[1] # "feed" /\ f[1] # "drain"
    OBVIOUS
  <1> QED  BY <1>1, <1>2, SomeFrames DEF FrameOK

LEMMA TypedUser ==
  ASSUME NEW k, NEW x, Typed(x, k)
  PROVE  Typed(User(x), k) /\ Only(x, User(x), {"stack"})
  BY TypedCall, FramesAreOK DEF User, Only

LEMMA TypedReadable ==
  ASSUME NEW k, NEW x, NEW y, Typed(x, k), y \in Library, Only(x, y, {"rd"}),
         \A s \in Streams : y.rd[s].buf \in Seq(1 .. k)
  PROVE  Typed(y, k)
  <1>1. /\ y.sent = x.sent /\ y.out = x.out /\ y.res = x.res
        /\ y.ticks = x.ticks /\ y.stack = x.stack
    BY DEF Only, Members
  <1> QED  BY <1>1 DEF Typed

LEMMA TypedPause ==
  ASSUME NEW k, NEW x, Typed(x, k), NEW s \in Streams
  PROVE  Typed(Pause(x, s), k)
  <1>1. x \in Library /\ x.rd[s] \in ReadableType
    BY DEF Typed, Library, Streams
  <1>2. /\ Pause(x, s) \in Library /\ Only(x, Pause(x, s), {"rd"})
        /\ Pause(x, s).rd[s].buf = x.rd[s].buf
        /\ \A t \in Streams : t # s => Pause(x, s).rd[t] = x.rd[t]
    BY <1>1, PauseIs DEF ReadableType
  <1>3. \A t \in Streams : Pause(x, s).rd[t].buf = x.rd[t].buf
    BY <1>2
  <1> QED  BY <1>2, <1>3, TypedReadable DEF Typed

LEMMA TypedPost ==
  ASSUME NEW k, NEW x, Typed(x, k), NEW t \in Plain
  PROVE  Typed(NextTick(x, t), k) /\ Only(x, NextTick(x, t), {"ticks"})
  <1>1. x \in Library /\ t \in Posts /\ x.sent <= Len(x.out)
    BY DEF Typed, Plain
  <1>2. Quiet(x, NextTick(x, t)) /\ Only(x, NextTick(x, t), {"ticks"})
    BY <1>1, QuietPost, NextTickIs
  <1>3. NextTick(x, t).sent <= Len(NextTick(x, t).out)
    BY <1>1, <1>2 DEF Only, Members
  <1> QED  BY <1>2, <1>3, TypedQuiet

LEMMA TypedResume ==
  ASSUME NEW k, NEW x, Typed(x, k), NEW s \in Streams
  PROVE  Typed(Resume(x, s), k)
  <1> DEFINE y == Resume(x, s)
  <1>1. x \in Library /\ x.rd[s] \in ReadableType
    BY DEF Typed, Library, Streams
  <1>2. /\ y \in Library /\ Only(x, y, {"rd", "ticks"})
        /\ y.rd[s].buf = x.rd[s].buf
        /\ \A t \in Streams : t # s => y.rd[t] = x.rd[t]
        /\ Posted(x, y, {<<"read", s>>})
    BY <1>1, ResumeIs DEF ReadableType
  <1> HIDE DEF y
  <1>3. \A t \in Streams : y.rd[t].buf = x.rd[t].buf
    BY <1>2
  <1>4. /\ y.sent = x.sent /\ y.out = x.out /\ y.res = x.res /\ y.stack = x.stack
    BY <1>2 DEF Only, Members
  <1>5. \A n : Has(y.ticks, <<"write", n>>) => Has(x.ticks, <<"write", n>>)
    BY <1>2, SomePlain, PlainIsNoWrite DEF Posted
  <1> QED  BY <1>2, <1>3, <1>4, <1>5 DEF Typed, y

\* A call that keeps the types, and neither frees the record, fails an
\* assertion while there is one, nor touches what the responses hold.
Moves(x, y, k) ==
  /\ Typed(y, k)
  /\ Destroyed(x) => Destroyed(y)
  /\ y.record = "gone" => x.record = "gone"
  /\ y.late => x.late \/ x.record = "gone"
  /\ y.aborted # x.aborted => x.record = "gone"
  /\ y.out = x.out /\ DOMAIN y.res = DOMAIN x.res
  /\ \A n \in DOMAIN x.res : Alike(x.res[n], y.res[n])
  /\ Writes(y) => Writes(x)

LEMMA MovesTwice ==
  ASSUME NEW k, NEW x, NEW y, NEW z, Moves(x, y, k), Moves(y, z, k)
  PROVE  Moves(x, z, k)
  BY DEF Moves, Alike

LEMMA MovesOnly ==
  ASSUME NEW k, NEW x, NEW y, Typed(x, k), Typed(y, k),
         Only(x, y, {"rd", "hup", "failed", "ticks", "stack"}),
         y.rd.sock.destroyed \/ ~x.rd.sock.destroyed
  PROVE  Moves(x, y, k)
  <1>1. /\ y.out = x.out /\ y.res = x.res /\ y.record = x.record
        /\ y.aborted = x.aborted /\ y.late = x.late /\ y.finish = x.finish /\ y.writeError = x.writeError
    BY DEF Only, Members
  <1> QED  BY <1>1 DEF Moves, Alike, Writes, Destroyed

LEMMA MovesCall ==
  ASSUME NEW k, NEW x, Typed(x, k)
  PROVE  /\ Moves(x, x, k) /\ Moves(x, User(x), k)
         /\ \A f : FrameOK(f, k, DOMAIN x.res) => Moves(x, Call(x, f), k)
         /\ x.stack # <<>> => Moves(x, Pop(x), k)
         /\ \A t \in Plain : Moves(x, NextTick(x, t), k)
  <1>1. ASSUME NEW y, Typed(y, k),
               Only(x, y, {"stack"}) \/ Only(x, y, {"ticks"})
        PROVE  Moves(x, y, k)
    <2>1. Only(x, y, {"rd", "hup", "failed", "ticks", "stack"}) /\ y.rd = x.rd
      BY <1>1 DEF Only, Members
    <2> QED  BY <1>1, <2>1, MovesOnly
  <1>2. Moves(x, x, k)
    BY <1>1 DEF Only
  <1>3. Moves(x, User(x), k)
    BY <1>1, TypedUser
  <1>4. ASSUME NEW f, FrameOK(f, k, DOMAIN x.res) PROVE Moves(x, Call(x, f), k)
    BY <1>1, <1>4, TypedCall
  <1>5. ASSUME x.stack # <<>> PROVE Moves(x, Pop(x), k)
    BY <1>1, <1>5, TypedPop
  <1>6. ASSUME NEW t \in Plain PROVE Moves(x, NextTick(x, t), k)
    BY <1>1, <1>6, TypedPost
  <1> QED  BY <1>2, <1>3, <1>4, <1>5, <1>6

LEMMA MovesReadable ==
  ASSUME NEW k, NEW x, Typed(x, k), NEW s \in Streams, NEW r \in ReadableType,
         r.buf \in Seq(1 .. k), r.destroyed \/ ~x.rd[s].destroyed
  PROVE  /\ Moves(x, [x EXCEPT !.rd[s] = r], k)
         /\ Only(x, [x EXCEPT !.rd[s] = r], {"rd"})
  <1> DEFINE y == [x EXCEPT !.rd[s] = r]
  <1>1. /\ y \in Library /\ Only(x, y, {"rd"}) /\ y.rd[s] = r
        /\ \A t \in Streams : t # s => y.rd[t] = x.rd[t]
    BY SetReadable DEF Typed
  <1> HIDE DEF y
  <1>2. \A t \in Streams : y.rd[t].buf \in Seq(1 .. k)
    BY <1>1 DEF Typed
  <1>3. Typed(y, k)
    BY <1>1, <1>2, TypedReadable
  <1>4. y.rd["sock"].destroyed \/ ~x.rd["sock"].destroyed
    BY <1>1 DEF Streams
  <1>5. Only(x, y, {"rd", "hup", "failed", "ticks", "stack"})
    BY <1>1 DEF Only
  <1> QED  BY <1>1, <1>3, <1>4, <1>5, MovesOnly DEF y

LEMMA MovesFlow ==
  ASSUME NEW k, NEW x, Typed(x, k), NEW s \in Streams
  PROVE  Moves(x, Pause(x, s), k) /\ Moves(x, Resume(x, s), k)
  <1>1. x \in Library /\ x.rd[s] \in ReadableType
    BY DEF Typed, Library, Streams
  <1>2. Moves(x, Pause(x, s), k)
    <2> DEFINE y == Pause(x, s)
    <2>1. /\ Only(x, y, {"rd"}) /\ y.rd[s].destroyed = x.rd[s].destroyed
          /\ \A t \in Streams : t # s => y.rd[t] = x.rd[t]
      BY <1>1, PauseIs DEF ReadableType
    <2>2. Typed(y, k)
      BY TypedPause
    <2> HIDE DEF y
    <2>3. /\ y.rd["sock"].destroyed = x.rd["sock"].destroyed
          /\ Only(x, y, {"rd", "hup", "failed", "ticks", "stack"})
      BY <2>1 DEF Streams, Only
    <2> QED  BY <2>2, <2>3, MovesOnly DEF y
  <1>3. Moves(x, Resume(x, s), k)
    <2> DEFINE y == Resume(x, s)
    <2>1. /\ Only(x, y, {"rd", "ticks"}) /\ y.rd[s].destroyed = x.rd[s].destroyed
          /\ \A t \in Streams : t # s => y.rd[t] = x.rd[t]
      <3>1. /\ Only(x, y, {"rd", "ticks"})
            /\ y.rd[s] = [x.rd[s] EXCEPT !.flowing = @ \/ ~x.rd[s].destroyed]
            /\ \A t \in Streams : t # s => y.rd[t] = x.rd[t]
        BY <1>1, ResumeIs
      <3> QED  BY <1>1, <3>1 DEF ReadableType
    <2>2. Typed(y, k)
      BY TypedResume
    <2> HIDE DEF y
    <2>3. /\ y.rd["sock"].destroyed = x.rd["sock"].destroyed
          /\ Only(x, y, {"rd", "hup", "failed", "ticks", "stack"})
      BY <2>1 DEF Streams, Only
    <2> QED  BY <2>2, <2>3, MovesOnly DEF y
  <1> QED  BY <1>2, <1>3

LEMMA MovesQuiet ==
  ASSUME NEW k, NEW x, NEW y, Typed(x, k), Quiet(x, y), y.sent <= Len(y.out),
         y.out = x.out, \A n \in DOMAIN x.res : Alike(x.res[n], y.res[n])
  PROVE  Moves(x, y, k)
  BY TypedQuiet DEF Moves, Quiet

LEMMA MovesLeaves ==
  ASSUME NEW k, NEW x, NEW y, NEW n, Typed(x, k), Leaves(x, y, n)
  PROVE  Moves(x, y, k)
  <1>1. \A m \in DOMAIN x.res : Alike(x.res[m], y.res[m])
    BY DEF Leaves, Responds, Alike
  <1> QED  BY <1>1, MovesQuiet DEF Leaves, Responds, Typed

\* An assertion fails when there is no socket; if there is one, it is next that
\* counts.
LEMMA MovesAbort ==
  ASSUME NEW k, NEW x, Typed(x, k), NEW where \in Asserts, NEW next,
         x.record # "gone" => Moves(x, next, k)
  PROVE  /\ Moves(x, WithSocket(x, where, next), k)
         /\ x.record = "gone" => WithSocket(x, where, next) = Abort(x, where)
         /\ x.record # "gone" => WithSocket(x, where, next) = next
  <1>1. CASE x.record = "gone"
    <2>1. /\ Quiet(x, Abort(x, where)) /\ Only(x, Abort(x, where), {"aborted"})
      BY <1>1, QuietAbort DEF Typed
    <2>2. /\ Abort(x, where).sent = x.sent /\ Abort(x, where).out = x.out
          /\ Abort(x, where).res = x.res
      BY <2>1 DEF Only, Members
    <2>3. Moves(x, Abort(x, where), k)
      BY <2>1, <2>2, MovesQuiet DEF Typed, Alike
    <2> QED  BY <1>1, <2>3 DEF WithSocket
  <1>2. CASE x.record # "gone"
    BY <1>2 DEF WithSocket
  <1> QED  BY <1>1, <1>2

\* A call that moves may also be noted.
LEMMA MovesLate ==
  ASSUME NEW k, NEW x, NEW y, Moves(x, y, k)
  PROVE  Moves(x, [y EXCEPT !.late = x.record = "gone"], k)
  <1> DEFINE z == [y EXCEPT !.late = x.record = "gone"]
  <1>1. y \in Library
    BY DEF Moves, Typed
  <1>2. z \in Library /\ Only(y, z, {"late"}) /\ z.late = (x.record = "gone")
    BY <1>1 DEF Library, Only, Members
  <1> HIDE DEF z
  <1>3. /\ z.record = y.record /\ z.aborted = y.aborted /\ z.out = y.out /\ z.res = y.res
        /\ z.sent = y.sent /\ z.rd = y.rd /\ z.ticks = y.ticks /\ z.stack = y.stack
        /\ Writes(z) = Writes(y)
    BY <1>2 DEF Only, Members, Writes
  <1>4. Typed(z, k)
    BY <1>2, <1>3 DEF Moves, Typed
  <1> QED  BY <1>2, <1>3, <1>4 DEF Moves, Destroyed, z

LEMMA MovesPush ==
  ASSUME NEW k, NEW x, Typed(x, k), NEW s \in Streams, NEW items \in Seq(1 .. k),
         k \in Nat
  PROVE  /\ Moves(x, Push(x, s, items), k)
         /\ Only(x, Push(x, s, items), {"rd", "stack"})
         /\ Push(x, s, items).stack = <<<<"emit", s>>>> \o x.stack
         /\ Push(x, s, items).rd[s] =
              [x.rd[s] EXCEPT !.buf = @ \o items, !.ended = @ \/ items = <<>>]
         /\ \A t \in Streams : t # s => Push(x, s, items).rd[t] = x.rd[t]
  <1> DEFINE r == [x.rd[s] EXCEPT !.buf = @ \o items, !.ended = @ \/ items = <<>>]
             y == [x EXCEPT !.rd[s] = r]
  <1>1. x \in Library /\ x.rd[s] \in ReadableType /\ x.rd[s].buf \in Seq(1 .. k)
    BY DEF Typed, Library, Streams
  <1>2. x.rd[s].buf \o items \in Seq(1 .. k)
    BY <1>1, ConcatProperties
  <1>3. x.rd[s].buf \o items \in Seq(Nat)
    <2>1. \A q \in Seq(1 .. k) : q \in Seq(Nat)
      <3>1. 1 .. k \subseteq Nat
        OBVIOUS
      <3> QED  BY <3>1
    <2> QED  BY <1>2, <2>1
  <1>4. /\ r \in ReadableType /\ r.buf = x.rd[s].buf \o items
        /\ r.destroyed = x.rd[s].destroyed
    BY <1>1, <1>3 DEF ReadableType
  <1>5. Push(x, s, items) = Call(y, <<"emit", s>>)
    BY <1>1, ZenonT(30) DEF Push, Library, Streams
  <1> HIDE DEF r
  <1>6. Moves(x, y, k) /\ Only(x, y, {"rd"})
    BY <1>2, <1>4, MovesReadable
  <1>7. /\ y.rd[s] = r /\ \A t \in Streams : t # s => y.rd[t] = x.rd[t]
    BY <1>1, <1>4, SetReadable, ZenonT(30)
  <1> HIDE DEF y
  <1>8. Typed(y, k) /\ FrameOK(<<"emit", s>>, k, DOMAIN y.res)
    BY <1>6, FramesAreOK DEF Moves
  <1>9. /\ Moves(y, Call(y, <<"emit", s>>), k)
        /\ Only(y, Call(y, <<"emit", s>>), {"stack"})
        /\ Call(y, <<"emit", s>>).stack = <<<<"emit", s>>>> \o y.stack
    BY <1>8, MovesCall, TypedCall, CallIs DEF Typed, FrameOK
  <1> QED  BY <1>5, <1>6, <1>7, <1>9, MovesTwice, ZenonT(30) DEF Only, Members, r

\* A new response.
Opens(x, y, k) ==
  /\ Typed(y, k)
  /\ y.record = x.record /\ y.aborted = x.aborted /\ y.late = x.late
  /\ y.rd.sock = x.rd.sock /\ y.out = x.out
  /\ y.res = Append(x.res, NewResponse)
  /\ Writes(y) => Writes(x)

LEMMA MovesParserError ==
  ASSUME NEW k, NEW x, Typed(x, k)
  PROVE  Moves(x, ParserError(x), k)
  <1> DEFINE v == Pause(x, "req")
             w == Pause(v, "sock")
             y == [w EXCEPT !.failed = TRUE]
  <1>1. Moves(x, w, k)
    <2>1. Moves(x, v, k)
      BY MovesFlow DEF Streams
    <2>2. Typed(v, k)
      BY <2>1 DEF Moves
    <2> HIDE DEF v
    <2>3. Moves(v, w, k)
      BY <2>2, MovesFlow DEF Streams
    <2> QED  BY <2>1, <2>3, MovesTwice
  <1>2. Typed(w, k)
    BY <1>1 DEF Moves
  <1> HIDE DEF w
  <1>3. y \in Library /\ Only(w, y, {"failed"})
    BY <1>2 DEF Typed, Library, Only, Members
  <1>4. ParserError(x) = WithSocket(x, "error", User(y))
    BY DEF ParserError, w, v
  <1> HIDE DEF y
  <1>5. /\ y.sent = w.sent /\ y.out = w.out /\ y.rd = w.rd /\ y.res = w.res
        /\ y.ticks = w.ticks /\ y.stack = w.stack
        /\ Only(w, y, {"rd", "hup", "failed", "ticks", "stack"})
    BY <1>3 DEF Only, Members
  <1>6. Typed(y, k)
    BY <1>2, <1>3, <1>5 DEF Typed
  <1>7. Moves(w, y, k)
    BY <1>2, <1>5, <1>6, MovesOnly
  <1>8. Moves(y, User(y), k)
    BY <1>6, MovesCall
  <1>9. Moves(x, User(y), k)
    BY <1>1, <1>7, <1>8, MovesTwice
  <1> QED  BY <1>4, <1>9, MovesAbort DEF Asserts

LEMMA MovesPushRefused ==
  ASSUME NEW k, NEW x, Typed(x, k)
  PROVE  Moves(x, PushRefused(x), k)
  <1>1. Moves(x, Pause(x, "sock"), k)
    BY MovesFlow DEF Streams
  <1> QED  BY <1>1, MovesAbort DEF PushRefused, Asserts

LEMMA MovesPushData ==
  ASSUME NEW k \in Nat, NEW x, Typed(x, k), NEW i \in 1 .. k
  PROVE  Moves(x, PushData(x, i), k)
  <1>1. CASE x.rd.req.destroyed
    <2>1. Moves(x, NextTick(x, <<"emit", "error">>), k)
      BY MovesCall, SomePlain
    <2>2. Typed(NextTick(x, <<"emit", "error">>), k)
      BY <2>1 DEF Moves
    <2>3. Moves(NextTick(x, <<"emit", "error">>),
                PushRefused(NextTick(x, <<"emit", "error">>)), k)
      BY <2>2, MovesPushRefused
    <2> QED  BY <1>1, <2>1, <2>3, MovesTwice DEF PushData
  <1>2. CASE ~x.rd.req.destroyed /\ x.rd.req.ended
    <2>1. Moves(x, PushRefused(x), k)
      BY MovesPushRefused
    <2>2. Typed(PushRefused(x), k)
      BY <2>1 DEF Moves
    <2>3. Moves(PushRefused(x), User(PushRefused(x)), k)
      BY <2>2, MovesCall
    <2> QED  BY <1>2, <2>1, <2>3, MovesTwice DEF PushData
  <1>3. CASE ~x.rd.req.destroyed /\ ~x.rd.req.ended
    <2>1. Moves(x, Call(x, <<"pushed", "req">>), k)
      BY MovesCall, FramesAreOK DEF Streams
    <2>2. Typed(Call(x, <<"pushed", "req">>), k)
      BY <2>1 DEF Moves
    <2>3. <<i>> \in Seq(1 .. k)
      OBVIOUS
    <2>4. Moves(Call(x, <<"pushed", "req">>),
                Push(Call(x, <<"pushed", "req">>), "req", <<i>>), k)
      BY <2>2, <2>3, MovesPush DEF Streams
    <2> QED  BY <1>3, <2>1, <2>4, MovesTwice DEF PushData
  <1> QED  BY <1>1, <1>2, <1>3

LEMMA MovesPushEnd ==
  ASSUME NEW k \in Nat, NEW x, Typed(x, k)
  PROVE  Moves(x, PushEnd(x), k)
  <1>1. CASE x.rd.req.destroyed
    BY <1>1, MovesCall, SomePlain DEF PushEnd
  <1>2. CASE ~x.rd.req.destroyed /\ x.rd.req.ended
    BY <1>2, MovesCall DEF PushEnd
  <1>3. CASE ~x.rd.req.destroyed /\ ~x.rd.req.ended
    <2> DEFINE v == Call(x, <<"pushedEnd", "req">>)
    <2>1. Moves(x, v, k)
      BY MovesCall, FramesAreOK
    <2>2. Typed(v, k)
      BY <2>1 DEF Moves
    <2>3. PushEnd(x) = Push(v, "req", <<>>)
      BY <1>3 DEF PushEnd
    <2> HIDE DEF v
    <2>4. Moves(v, Push(v, "req", <<>>), k)
      BY <2>2, MovesPush, EmptySeq DEF Streams
    <2> QED  BY <2>1, <2>3, <2>4, MovesTwice
  <1> QED  BY <1>1, <1>2, <1>3

LEMMA OpensResponse ==
  ASSUME NEW k, NEW x, Typed(x, k)
  PROVE  LET y == [x EXCEPT !.res = Append(@, NewResponse)]
         IN  Opens(x, y, k) /\ Only(x, y, {"res"})
  <1> DEFINE y == [x EXCEPT !.res = Append(@, NewResponse)]
  <1>1. x \in Library /\ x.res \in Seq(ResponseType)
    BY DEF Typed, Library
  <1>2. NewResponse \in ResponseType
    BY DEF NewResponse, ResponseType
  <1>3. Append(x.res, NewResponse) \in Seq(ResponseType)
    BY <1>1, <1>2
  <1>4. y \in Library /\ Only(x, y, {"res"}) /\ y.res = Append(x.res, NewResponse)
    BY <1>1, <1>3 DEF Library, Only, Members
  <1>5. DOMAIN x.res \subseteq DOMAIN Append(x.res, NewResponse)
    BY <1>1, <1>2
  <1> HIDE DEF y
  <1>6. /\ y.record = x.record /\ y.aborted = x.aborted /\ y.late = x.late
        /\ y.out = x.out /\ y.rd = x.rd
        /\ y.sent = x.sent /\ y.stack = x.stack /\ y.ticks = x.ticks
        /\ Writes(y) = Writes(x)
    BY <1>4 DEF Only, Members, Writes
  <1>7. \A f : FrameOK(f, k, DOMAIN x.res) => FrameOK(f, k, DOMAIN y.res)
    BY <1>4, <1>5 DEF FrameOK
  <1>8. Typed(y, k)
    BY <1>4, <1>5, <1>6, <1>7 DEF Typed
  <1> QED  BY <1>4, <1>6, <1>8 DEF Opens, y

LEMMA OpensThenMoves ==
  ASSUME NEW k, NEW x, NEW y, NEW z, Opens(x, y, k), Typed(z, k), Only(y, z, {"stack"})
  PROVE  Opens(x, z, k)
  <1>1. /\ z.record = y.record /\ z.aborted = y.aborted /\ z.late = y.late
        /\ z.out = y.out /\ z.res = y.res /\ z.rd = y.rd /\ Writes(z) = Writes(y)
    BY DEF Only, Members, Writes
  <1> QED  BY <1>1 DEF Opens

LEMMA MovesParseUnit ==
  ASSUME NEW k \in Nat, NEW x, Typed(x, k), NEW i \in 1 .. k, NEW rest \in Seq(1 .. k),
         input[i] \in Units
  PROVE  IF input[i] = "head" /\ x.record # "gone"
         THEN Opens(x, ParseUnit(x, i, rest), k)
         ELSE Moves(x, ParseUnit(x, i, rest), k)
  <1> DEFINE y == IF rest = <<>> THEN x ELSE Call(x, <<"feed", rest>>)
  <1>1. Moves(x, y, k) /\ Only(x, y, {"stack"})
    <2>1. CASE rest = <<>>
      BY <2>1, MovesCall DEF Only
    <2>2. CASE rest # <<>>
      <3>1. \A q \in Seq(1 .. k) : q \in Seq(Nat)
        <4>1. 1 .. k \subseteq Nat
          OBVIOUS
        <4> QED  BY <4>1
      <3>2. <<"feed", rest>> \in Frames
        BY <3>1, SomeFrames
      <3>3. FrameOK(<<"feed", rest>>, k, DOMAIN x.res)
        BY <2>2, <3>2 DEF FrameOK
      <3> QED  BY <2>2, <3>3, MovesCall, TypedCall
    <2> QED  BY <2>1, <2>2
  <1>2. Typed(y, k)
    BY <1>1 DEF Moves
  <1>3. ParseUnit(x, i, rest) =
          CASE input[i] = "head" -> Parsed(y)
            [] input[i] = "data" -> PushData(y, i)
            [] input[i] = "end" -> PushEnd(y)
            [] input[i] = "bad" -> ParserError(x)
    BY DEF ParseUnit
  <1> HIDE DEF y
  <1>8. y.record = x.record
    BY <1>1 DEF Only, Members
  <1>9. CASE input[i] = "head" /\ x.record = "gone"
    <2>1. ParseUnit(x, i, rest) = Parsed(y)
      BY <1>3, <1>9
    <2>2. Moves(y, Parsed(y), k)
      BY <1>2, <1>8, <1>9, MovesAbort DEF Parsed, Asserts
    <2> QED  BY <1>1, <1>9, <2>1, <2>2, MovesTwice
  <1>4. CASE input[i] = "head" /\ x.record # "gone"
    <2> DEFINE v == [y EXCEPT !.res = Append(@, NewResponse)]
    <2>1. Opens(y, v, k) /\ Only(y, v, {"res"})
      BY <1>2, OpensResponse
    <2>2. Opens(x, v, k)
      <3>1. /\ y.record = x.record /\ y.aborted = x.aborted /\ y.late = x.late
            /\ y.out = x.out /\ y.res = x.res /\ y.rd = x.rd /\ Writes(y) = Writes(x)
        BY <1>1 DEF Only, Members, Writes
      <3> QED  BY <2>1, <3>1 DEF Opens
    <2>3. ParseUnit(x, i, rest) = User(v)
      BY <1>3, <1>4, <1>8 DEF Parsed, WithSocket
    <2> HIDE DEF v
    <2>4. Typed(User(v), k) /\ Only(v, User(v), {"stack"})
      BY <2>2, TypedUser DEF Opens
    <2> QED  BY <1>4, <2>2, <2>3, <2>4, OpensThenMoves
  <1>5. CASE input[i] = "data"
    <2>1. ParseUnit(x, i, rest) = PushData(y, i)
      BY <1>3, <1>5
    <2> QED  BY <1>1, <1>2, <1>5, <2>1, MovesPushData, MovesTwice
  <1>6. CASE input[i] = "end"
    <2>1. ParseUnit(x, i, rest) = PushEnd(y)
      BY <1>3, <1>6
    <2> QED  BY <1>1, <1>2, <1>6, <2>1, MovesPushEnd, MovesTwice
  <1>7. CASE input[i] = "bad"
    <2>1. ParseUnit(x, i, rest) = ParserError(x)
      BY <1>3, <1>7
    <2> QED  BY <1>7, <2>1, MovesParserError
  <1> QED  BY <1>4, <1>5, <1>6, <1>7, <1>9 DEF Units

LEMMA MovesToEnd ==
  ASSUME NEW k, NEW x, Typed(x, k), NEW s \in Streams
  PROVE  Moves(x, ToEnd(x, s), k)
  <1>1. FrameOK(<<"end", s>>, k, DOMAIN x.res)
    BY FramesAreOK
  <1> QED  BY <1>1, MovesCall DEF ToEnd

LEMMA MovesListeners ==
  ASSUME NEW k, NEW x, Typed(x, k), NEW n \in Nat
  PROVE  Moves(x, Listeners(x, n), k) /\ Listeners(x, n).res = x.res
  <1>1. CASE n \in DOMAIN x.res
    <2>1. FrameOK(<<"drain", n>>, k, DOMAIN x.res)
      BY <1>1, SomeFrames DEF FrameOK
    <2>2. Only(x, Call(x, <<"drain", n>>), {"stack"})
      BY <2>1, TypedCall
    <2> QED  BY <1>1, <2>1, <2>2, MovesCall DEF Listeners, Only, Members
  <1>2. CASE n \notin DOMAIN x.res
    BY <1>2, MovesCall DEF Listeners
  <1> QED  BY <1>1, <1>2

LEMMA MovesDoWrite ==
  ASSUME NEW k, NEW x, Typed(x, k), NEW taken \in Takes(x)
  PROVE  Moves(x, DoWrite(x, taken), k)
  <1>1. x \in Library /\ x.sent \in Nat /\ Len(x.out) \in Nat /\ x.sent <= Len(x.out)
    BY LenProperties DEF Typed, Library
  <1>2. taken \in Nat /\ x.sent + taken <= Len(x.out)
    BY <1>1 DEF Takes
  <1>3. PICK z \in Library :
          /\ Quiet(x, z) /\ z.out = x.out /\ z.res = x.res /\ z.sent <= Len(z.out)
          /\ DoWrite(x, taken) = z \/ DoWrite(x, taken) = User(z)
    BY <1>1, <1>2, DoWriteIs
  <1>4. Moves(x, z, k)
    BY <1>3, MovesQuiet DEF Alike
  <1>5. Moves(z, User(z), k)
    BY <1>4, MovesCall DEF Moves
  <1> QED  BY <1>3, <1>4, <1>5, MovesTwice

-----------------------------------------------------------------------------
(* The steps *)

Base ==
  /\ input \in Inputs /\ got \in 0 .. Len(input)
  /\ Typed(lib, got)
  /\ phase \in {"drain", "dispatch"} /\ todo \subseteq {"other", "read", "write"}
  /\ calls \in 0 .. MaxCalls[Requests(input)]
  /\ heard \in [body : Seq(1 .. got), end : BOOLEAN]

LEMMA InputIs ==
  ASSUME Base
  PROVE  /\ input \in Seq(Units) /\ Len(input) \in Nat /\ got \in Nat
         /\ \A i \in 1 .. got : i \in DOMAIN input /\ input[i] \in Units
  BY HttpExchangeAssumption DEF Base

LEMMA TopIs ==
  ASSUME Typed(lib, got), Top[1] # "none"
  PROVE  /\ lib.stack # <<>> /\ Top = Head(lib.stack)
         /\ FrameOK(Top, got, DOMAIN lib.res)
         /\ Moves(lib, Pop(lib), got) /\ Typed(Pop(lib), got)
         /\ Only(lib, Pop(lib), {"stack"}) /\ Pop(lib).stack = Tail(lib.stack)
  <1>1. lib.stack # <<>> /\ Top = Head(lib.stack)
    BY DEF Top
  <1> QED  BY <1>1, TypedPop, MovesCall, PopIs DEF Typed

LEMMA FrameIs ==
  ASSUME NEW f \in Frames
  PROVE  /\ f[1] \in {"emit", "clear", "end", "ended", "pushed"}
              => f[2] \in Streams /\ f = <<f[1], f[2]>>
         /\ f[1] = "pushedEnd" => f = <<"pushedEnd", "req">>
         /\ f[1] = "user" => f = <<"user">>
         /\ f[1] = "doRead" => f = <<"doRead">>
         /\ f[1] = "hup" => f = <<"hup">>
         /\ f[1] = "drain" => f = <<"drain", f[2]>>
         /\ f[1] = "feed" => f = <<"feed", f[2]>>
         /\ f[1] \in {"emit", "clear", "end", "ended", "pushed", "pushedEnd", "user",
                      "doRead", "hup", "drain", "feed"}
  BY DEF Frames

\* What a step does to the responses.
Step ==
  \/ Moves(lib, lib', got')
  \/ Opens(lib, lib', got')
  \/ \E n \in DOMAIN lib.res :
       \/ SetsHeaders(lib, lib', n)
       \/ \E items \in {<<>>, <<lib.res[n].written + 1>>} : Queues(lib, lib', n, items)
       \/ \E x : Moves(lib, x, got') /\ x.res = lib.res /\ PassesOn(x, lib', n)

LEMMA WiderSeq ==
  ASSUME NEW k \in Nat, NEW j \in Nat, k <= j
  PROVE  \A q \in Seq(1 .. k) : q \in Seq(1 .. j)
  <1>1. 1 .. k \subseteq 1 .. j
    OBVIOUS
  <1> QED  BY <1>1

LEMMA TypedMore ==
  ASSUME NEW k \in Nat, NEW j \in Nat, k <= j, NEW x, Typed(x, k)
  PROVE  Typed(x, j)
  <1>1. 1 .. k \subseteq 1 .. j
    OBVIOUS
  <1>2. \A q \in Seq(1 .. k) : q \in Seq(1 .. j)
    BY <1>1
  <1> QED  BY <1>2 DEF Typed, FrameOK

\* The call is noted without a change of what it does to a response.
LEMMA RespondsLate ==
  ASSUME NEW x \in Library, NEW y, NEW n
  PROVE  LET z == [y EXCEPT !.late = x.record = "gone"]
         IN  /\ Leaves(x, y, n) => Leaves(x, z, n)
             /\ SetsHeaders(x, y, n) => SetsHeaders(x, z, n)
             /\ \A items : Queues(x, y, n, items) => Queues(x, z, n, items)
  <1> DEFINE z == [y EXCEPT !.late = x.record = "gone"]
  <1>1. ASSUME Responds(x, y, n)
        PROVE  /\ Responds(x, z, n) /\ z.out = y.out /\ z.res = y.res
    <2>1. Only(y, z, {"late"}) /\ Quiet(x, z)
      BY <1>1, QuietLate DEF Responds
    <2> HIDE DEF z
    <2>2. z.out = y.out /\ z.res = y.res /\ z.sent = y.sent
      BY <2>1 DEF Only, Members
    <2> QED  BY <1>1, <2>1, <2>2 DEF Responds
  <1> HIDE DEF z
  <1>2. Leaves(x, y, n) => Leaves(x, z, n)
    BY <1>1 DEF Leaves
  <1>3. SetsHeaders(x, y, n) => SetsHeaders(x, z, n)
    BY <1>1 DEF SetsHeaders
  <1>4. \A items : Queues(x, y, n, items) => Queues(x, z, n, items)
    BY <1>1 DEF Queues
  <1> QED  BY <1>2, <1>3, <1>4 DEF z

LEMMA UserSteps ==
  ASSUME Base, UserStep
  PROVE  Step /\ got' = got
  <1> DEFINE Noted(y) == [y EXCEPT !.late = lib.record = "gone"]
  <1>1. /\ lib \in Library /\ Typed(lib, got)
        /\ \A n \in Responses : n \in DOMAIN lib.res
    BY DEF Base, Typed, Responses
  <1>6. \A next : Api(next) => lib' = Noted(next) /\ got' = got
    BY DEF Api
  <1>7. \A next : Api(next) /\ Moves(lib, next, got) => Step /\ got' = got
    BY <1>6, MovesLate DEF Step
  <1> HIDE DEF Noted
  <1>2. CASE WriteCall
    <2>1. PICK n \in Responses :
            \/ Api(Write(lib, n, <<lib.res[n].written + 1>>))
            \/ Api(End(lib, n, <<lib.res[n].written + 1>>))
            \/ Api(End(lib, n, <<>>))
      BY <1>2 DEF WriteCall
    <2>2. n \in DOMAIN lib.res /\ lib.res[n].written + 1 \in Nat
      <3>1. n \in DOMAIN lib.res /\ lib.res[n] \in ResponseType
        BY <1>1 DEF Library
      <3>2. lib.res[n].written \in Nat
        BY <3>1 DEF ResponseType
      <3> QED  BY <3>1, <3>2
    <2>3. <<lib.res[n].written + 1>> \in Seq(Nat) /\ <<>> \in Seq(Nat)
      BY <2>2
    <2>4. \E items \in {<<>>, <<lib.res[n].written + 1>>} :
            /\ lib' \in {Noted(Write(lib, n, items)), Noted(End(lib, n, items))}
            /\ got' = got
      BY <1>6, <2>1
    <2>5. \E items \in {<<>>, <<lib.res[n].written + 1>>} :
            Queues(lib, lib', n, items) /\ got' = got
      <3>1. PICK items \in {<<>>, <<lib.res[n].written + 1>>} :
              /\ lib' \in {Noted(Write(lib, n, items)), Noted(End(lib, n, items))}
              /\ got' = got
        BY <2>4
      <3>2. items \in Seq(Nat)
        BY <2>3, <3>1
      <3>3. /\ Queues(lib, Write(lib, n, items), n, items)
            /\ Queues(lib, End(lib, n, items), n, items)
        BY <1>1, <2>2, <3>2, ItemsAreQueued
      <3>4. /\ Queues(lib, Noted(Write(lib, n, items)), n, items)
            /\ Queues(lib, Noted(End(lib, n, items)), n, items)
        BY <1>1, <3>3, RespondsLate DEF Noted
      <3> QED  BY <3>1, <3>4
    <2> QED  BY <2>2, <2>5 DEF Step
  <1>3. CASE HeaderCall
    <2>1. PICK n \in Responses :
            \/ Api(SetHeader(lib, n)) \/ Api(FlushHeaders(lib, n)) \/ Api(WriteHead(lib, n))
      BY <1>3 DEF HeaderCall
    <2>2. SetsHeaders(lib, lib', n) /\ got' = got
      BY <1>1, <1>6, <2>1, HeadersAreSet, RespondsLate DEF Noted
    <2> QED  BY <1>1, <2>2 DEF Step
  <1>4. CASE DestroyCall
    <2>1. CASE \E n \in Responses : Api(ResponseDestroy(lib, n))
      <3>1. PICK n \in DOMAIN lib.res : Api(ResponseDestroy(lib, n))
        BY <1>1, <2>1
      <3>2. Moves(lib, ResponseDestroy(lib, n), got)
        BY <1>1, <3>1, ResponseDestroyIs, MovesLeaves
      <3> QED  BY <1>7, <3>1, <3>2
    <2>2. CASE Api(RequestDestroy(lib))
      <3>2. Moves(lib, RequestDestroy(lib), got)
        <4>1. CASE lib.rd.req.destroyed
          BY <1>1, <4>1, MovesCall DEF RequestDestroy
        <4>3. CASE ~lib.rd.req.destroyed /\ lib.record = "gone"
          BY <1>1, <4>3, MovesAbort DEF RequestDestroy, Asserts
        <4>2. CASE ~lib.rd.req.destroyed /\ lib.record # "gone"
          <5> DEFINE v == SockDestroy(lib)
                     r == [v.rd["req"] EXCEPT !.destroyed = TRUE]
                     y == [v EXCEPT !.rd["req"] = r]
          <5>1. Quiet(lib, v) /\ v.out = lib.out /\ v.res = lib.res /\ v.sent = lib.sent
            BY <1>1, SockDestroyIs
          <5>2. Moves(lib, v, got)
            BY <1>1, <5>1, MovesQuiet DEF Typed, Alike
          <5>3. Typed(v, got)
            BY <5>2 DEF Moves
          <5> HIDE DEF v
          <5>4. v.rd["req"] \in ReadableType /\ v.rd["req"].buf \in Seq(1 .. got)
            BY <5>3 DEF Typed, Library, Streams
          <5>5. r \in ReadableType /\ r.buf = v.rd["req"].buf /\ r.destroyed
            BY <5>4 DEF ReadableType
          <5>6. [v EXCEPT !.rd.req.destroyed = TRUE] = y
            BY <5>3, <5>4 DEF Typed, Library
          <5> HIDE DEF r
          <5>7. Moves(v, y, got)
            BY <5>3, <5>4, <5>5, MovesReadable DEF Streams
          <5> HIDE DEF y
          <5>8. Moves(y, NextTick(y, <<"emit", "close">>), got)
            BY <5>7, MovesCall, SomePlain DEF Moves
          <5>9. RequestDestroy(lib) = NextTick(y, <<"emit", "close">>)
            BY <4>2, <5>6 DEF RequestDestroy, WithSocket, v
          <5>10. Moves(lib, y, got)
            BY <5>2, <5>7, MovesTwice
          <5> QED  BY <5>8, <5>9, <5>10, MovesTwice
        <4> QED  BY <4>1, <4>2, <4>3
      <3> QED  BY <1>7, <2>2, <3>2
    <2>3. CASE Api(SockDestroy(lib))
      <3>1. Moves(lib, SockDestroy(lib), got)
        BY <1>1, SockDestroyIs, MovesQuiet DEF Typed, Alike
      <3> QED  BY <1>7, <2>3, <3>1
    <2>4. CASE Api(SockEnd(lib))
      <3>1. Moves(lib, SockEnd(lib), got)
        BY <1>1, SockEndIs, MovesQuiet DEF Typed, Alike
      <3> QED  BY <1>7, <2>4, <3>1
    <2> QED  BY <1>4, <2>1, <2>2, <2>3, <2>4 DEF DestroyCall
  <1>5. CASE FlowCall
    <2>1. Moves(lib, Pause(lib, "req"), got) /\ Moves(lib, Resume(lib, "req"), got)
      BY <1>1, MovesFlow DEF Streams
    <2> QED  BY <1>5, <1>7, <2>1 DEF FlowCall
  <1> QED  BY <1>2, <1>3, <1>4, <1>5 DEF UserStep

LEMMA FeedMoves ==
  ASSUME Base, FeedStep
  PROVE  /\ got' = got /\ lib' = ParseUnit(Pop(lib), Head(Top[2]), Tail(Top[2]))
         /\ Head(Top[2]) \in 1 .. got /\ Tail(Top[2]) \in Seq(1 .. got)
         /\ IF input[Head(Top[2])] = "head" /\ lib.record # "gone"
            THEN Opens(lib, lib', got) ELSE Moves(lib, lib', got)
  <1>1. Typed(lib, got) /\ Top[1] # "none" /\ Top[1] = "feed"
    BY DEF Base, FeedStep
  <1>2. /\ FrameOK(Top, got, DOMAIN lib.res) /\ Typed(Pop(lib), got)
        /\ Moves(lib, Pop(lib), got) /\ Only(lib, Pop(lib), {"stack"})
    BY <1>1, TopIs
  <1> DEFINE i == Head(Top[2])
             rest == Tail(Top[2])
             y == ParseUnit(Pop(lib), i, rest)
  <1>3. i \in 1 .. got /\ rest \in Seq(1 .. got)
    <2>1. Top[2] \in Seq(1 .. got) /\ Top[2] # <<>>
      BY <1>1, <1>2 DEF FrameOK
    <2> HIDE DEF Top
    <2> QED  BY <2>1, HasTail
  <1>4. lib' = y /\ got' = got
    BY DEF FeedStep, Keep
  <1>5. input[i] \in Units /\ got \in Nat
    BY <1>3, InputIs
  <1> HIDE DEF i, rest
  <1>9. Pop(lib).record = lib.record
    BY <1>2 DEF Only, Members
  <1>6. IF input[i] = "head" /\ lib.record # "gone"
        THEN Opens(Pop(lib), y, got) ELSE Moves(Pop(lib), y, got)
    BY <1>2, <1>3, <1>5, <1>9, MovesParseUnit
  <1> HIDE DEF y
  <1>7. ASSUME Opens(Pop(lib), y, got) PROVE Opens(lib, y, got)
    <2>1. /\ Pop(lib).record = lib.record /\ Pop(lib).aborted = lib.aborted
          /\ Pop(lib).late = lib.late /\ Pop(lib).rd = lib.rd
          /\ Pop(lib).out = lib.out /\ Pop(lib).res = lib.res
          /\ Writes(Pop(lib)) = Writes(lib)
      BY <1>2 DEF Only, Members, Writes
    <2> QED  BY <1>7, <2>1 DEF Opens
  <1>8. IF input[i] = "head" /\ lib.record # "gone"
        THEN Opens(lib, y, got) ELSE Moves(lib, y, got)
    BY <1>2, <1>6, <1>7, MovesTwice
  <1> QED  BY <1>3, <1>4, <1>8 DEF i, rest, y

LEMMA EmitMoves ==
  ASSUME Base, EmitData \/ DataReturns \/ EmitEnd \/ EndReturns \/ PushReturns
  PROVE  got' = got /\ Moves(lib, lib', got)
  <1> DEFINE s == Top[2]
             x == Pop(lib)
  <1>1. Typed(lib, got) /\ got \in Nat
    BY InputIs DEF Base
  <1>2. Top[1] \in {"emit", "clear", "end", "ended", "pushed", "pushedEnd"}
    BY DEF EmitData, DataReturns, EmitEnd, EndReturns, PushReturns
  <1>3. /\ FrameOK(Top, got, DOMAIN lib.res) /\ Typed(x, got)
        /\ Moves(lib, x, got) /\ Only(lib, x, {"stack"})
    BY <1>1, <1>2, TopIs
  <1>4. s \in Streams
    <2>1. Top \in Frames
      BY <1>3 DEF FrameOK
    <2> HIDE DEF Top
    <2> QED  BY <1>2, <2>1, FrameIs DEF Streams
  <1>5. x.rd = lib.rd /\ x.res = lib.res /\ x.failed = lib.failed
    BY <1>3 DEF Only, Members
  <1>6. x.rd[s] \in ReadableType /\ x.rd[s].buf \in Seq(1 .. got) /\ x \in Library
    BY <1>3, <1>4 DEF Typed, Library, Streams
  <1> HIDE DEF x, s
  <1>7. ASSUME NEW r \in ReadableType, r.buf \in Seq(1 .. got),
               r.destroyed = x.rd[s].destroyed
        PROVE  Moves(lib, [x EXCEPT !.rd[s] = r], got)
    BY <1>3, <1>4, <1>7, MovesReadable, MovesTwice
  <1>8. CASE EmitData
    <2> DEFINE r == lib.rd[s]
               cleared == Call(x, <<"clear", s>>)
    <2>1. /\ lib' = IF ~Emits(r) THEN x
                    ELSE IF r.buf = <<>> THEN ToEnd(x, s)
                    ELSE IF s = "req" THEN User(cleared)
                    ELSE IF x.failed THEN cleared
                    ELSE Call(cleared, <<"feed", r.buf>>)
          /\ got' = got
      BY <1>8 DEF EmitData, s, x
    <2>2. Moves(lib, ToEnd(x, s), got)
      BY <1>3, <1>4, MovesToEnd, MovesTwice
    <2>3. Moves(lib, cleared, got) /\ Only(x, cleared, {"stack"})
      <3>1. FrameOK(<<"clear", s>>, got, DOMAIN x.res)
        BY <1>4, FramesAreOK
      <3> QED  BY <1>3, <3>1, MovesCall, TypedCall, MovesTwice
    <2>4. Typed(cleared, got)
      BY <2>3 DEF Moves
    <2> HIDE DEF cleared
    <2>5. Moves(lib, User(cleared), got)
      BY <2>3, <2>4, MovesCall, MovesTwice
    <2>6. r.buf # <<>> => Moves(lib, Call(cleared, <<"feed", r.buf>>), got)
      <3>1. r.buf \in Seq(1 .. got) /\ r.buf \in Seq(Nat)
        BY <1>5, <1>6 DEF ReadableType
      <3>2. <<"feed", r.buf>> \in Frames
        BY <3>1, SomeFrames
      <3>3. r.buf # <<>> => FrameOK(<<"feed", r.buf>>, got, DOMAIN cleared.res)
        BY <3>1, <3>2 DEF FrameOK
      <3> QED  BY <2>3, <2>4, <3>3, MovesCall, MovesTwice
    <2> QED  BY <1>3, <2>1, <2>2, <2>3, <2>5, <2>6
  <1>9. CASE DataReturns
    <2> DEFINE r == [x.rd[s] EXCEPT !.buf = <<>>]
               y == [x EXCEPT !.rd[s] = r]
               q == [y.rd[s] EXCEPT !.over = FALSE]
               v == [y EXCEPT !.rd[s] = q]
               w == IF y.rd[s].over THEN NextTick(v, <<"read", s>>) ELSE y
    <2>1. r \in ReadableType /\ r.buf = <<>> /\ r.destroyed = x.rd[s].destroyed
      BY <1>6, EmptySeq DEF ReadableType
    <2>2. [x EXCEPT !.rd[s].buf = <<>>] = y
      BY <1>4, <1>6 DEF Library, Streams
    <2> HIDE DEF r
    <2>3. Moves(lib, y, got) /\ y.rd[s] = r
      <3>1. r.buf \in Seq(1 .. got)
        BY <2>1, EmptySeq
      <3>2. Moves(lib, y, got)
        BY <1>7, <2>1, <3>1
      <3>3. y.rd[s] = r
        BY <1>4, <1>6, <2>1, SetReadable, ZenonT(30)
      <3> QED  BY <3>2, <3>3
    <2>4. Typed(y, got) /\ y \in Library
      BY <2>3 DEF Moves, Typed
    <2> HIDE DEF y
    <2>5. q \in ReadableType /\ q.buf = <<>> /\ q.destroyed = y.rd[s].destroyed
      BY <2>1, <2>3 DEF ReadableType
    <2>6. [y EXCEPT !.rd[s].over = FALSE] = v
      BY <1>4, <2>4 DEF Library, Streams
    <2> HIDE DEF q
    <2>7. Moves(y, v, got)
      BY <1>4, <2>4, <2>5, EmptySeq, MovesReadable
    <2>8. Typed(v, got)
      BY <2>7 DEF Moves
    <2> HIDE DEF v
    <2>9. Moves(v, NextTick(v, <<"read", s>>), got)
      BY <1>4, <2>8, MovesCall, SomePlain
    <2>10. Moves(lib, w, got)
      BY <2>3, <2>7, <2>9, MovesTwice
    <2>11. lib' = ToEnd(w, s) /\ got' = got
      <3> DEFINE z == [x EXCEPT !.rd[s].buf = <<>>]
      <3>1. /\ lib' = ToEnd(IF z.rd[s].over
                            THEN NextTick([z EXCEPT !.rd[s].over = FALSE], <<"read", s>>)
                            ELSE z, s)
            /\ got' = got
        BY <1>9 DEF DataReturns, Keep, s, x
      <3> HIDE DEF z
      <3>2. z = y
        BY <2>2 DEF z
      <3> QED  BY <2>6, <3>1, <3>2
    <2> HIDE DEF w
    <2>12. Moves(w, ToEnd(w, s), got)
      BY <1>4, <2>10, MovesToEnd DEF Moves
    <2> QED  BY <2>10, <2>11, <2>12, MovesTwice
  <1>10. CASE EmitEnd
    <2> DEFINE y == Call(x, <<"ended", s>>)
    <2>1. /\ lib' \in {y, User(y), ParserError(y)} /\ got' = got
      BY <1>10 DEF EmitEnd, s, x
    <2>2. Moves(lib, y, got)
      <3>1. FrameOK(<<"ended", s>>, got, DOMAIN x.res)
        BY <1>4, FramesAreOK
      <3> QED  BY <1>3, <3>1, MovesCall, MovesTwice
    <2>3. Typed(y, got)
      BY <2>2 DEF Moves
    <2> HIDE DEF y
    <2>4. Moves(y, User(y), got) /\ Moves(y, ParserError(y), got)
      BY <2>3, MovesCall, MovesParserError
    <2> QED  BY <2>1, <2>2, <2>4, MovesTwice
  <1>11. CASE EndReturns
    <2> DEFINE r == [x.rd[s] EXCEPT !.endEmitted = TRUE]
    <2>1. /\ r \in ReadableType /\ r.buf = x.rd[s].buf
          /\ r.destroyed = x.rd[s].destroyed
      BY <1>6 DEF ReadableType
    <2>2. lib' = [x EXCEPT !.rd[s] = r] /\ got' = got
      BY <1>4, <1>6, <1>11 DEF EndReturns, Keep, s, x, Library, Streams
    <2> HIDE DEF r
    <2> QED  BY <1>6, <1>7, <2>1, <2>2
  <1>12. CASE PushReturns
    <2> DEFINE over == Len(lib.rd[s].buf) > Mark
               r == [x.rd[s] EXCEPT !.over = over]
               y == [x EXCEPT !.rd[s] = r]
    <2>3. lib' \in {[x EXCEPT !.rd[s].over = over],
                    PushRefused([x EXCEPT !.rd[s].over = over])} /\ got' = got
      BY <1>12 DEF PushReturns, Keep, s, x
    <2>6. over \in BOOLEAN
      OBVIOUS
    <2> HIDE DEF over
    <2>1. /\ r \in ReadableType /\ r.buf = x.rd[s].buf
          /\ r.destroyed = x.rd[s].destroyed
      BY <1>6, <2>6 DEF ReadableType
    <2>2. [x EXCEPT !.rd[s].over = over] = y
      BY <1>4, <1>6 DEF Library, Streams
    <2> HIDE DEF r
    <2>4. Moves(lib, y, got)
      BY <1>6, <1>7, <2>1
    <2> HIDE DEF y
    <2>5. Moves(y, PushRefused(y), got)
      BY <2>4, MovesPushRefused DEF Moves
    <2> QED  BY <2>2, <2>3, <2>4, <2>5, MovesTwice
  <1> QED  BY <1>8, <1>9, <1>10, <1>11, <1>12

LEMMA ReadMoves ==
  ASSUME Base, ReadData \/ ReadBlocks \/ ReadFails \/ ReadEnd \/ ReadOver
  PROVE  got' \in got .. Len(input) /\ Moves(lib, lib', got')
  <1> DEFINE x == Pop(lib)
  <1>1. Typed(lib, got) /\ got \in Nat /\ Len(input) \in Nat /\ got <= Len(input)
    BY InputIs DEF Base
  <1>2. Top = <<"doRead">> /\ Top[1] # "none"
    BY DEF ReadData, ReadBlocks, ReadFails, ReadEnd, ReadOver
  <1>3. Moves(lib, x, got) /\ Typed(x, got)
    BY <1>1, <1>2, TopIs
  <1> HIDE DEF x
  <1>4. CASE ReadData
    <2>1. PICK k \in 1 .. Len(input) - got :
            /\ got' = got + k
            /\ lib' = Push(Call(lib, <<"pushed", "sock">>), "sock",
                           [i \in 1 .. k |-> got + i])
      BY <1>4 DEF ReadData
    <2> DEFINE items == [i \in 1 .. k |-> got + i]
               y == Call(lib, <<"pushed", "sock">>)
    <2>2. got' \in got .. Len(input) /\ got' \in Nat /\ k \in Nat
      BY <1>1, <2>1
    <2>3. items \in Seq(1 .. got')
      <3>1. \A i \in 1 .. k : got + i \in 1 .. got'
        BY <1>1, <2>1
      <3> QED  BY <2>2, <3>1, IsASeq
    <2> HIDE DEF items
    <2>4. Typed(lib, got')
      BY <1>1, <2>2, TypedMore
    <2>5. Moves(lib, y, got')
      BY <2>4, MovesCall, FramesAreOK DEF Streams
    <2>6. Typed(y, got')
      BY <2>5 DEF Moves
    <2> HIDE DEF y
    <2>7. Moves(y, Push(y, "sock", items), got')
      BY <2>2, <2>3, <2>6, MovesPush DEF Streams
    <2> QED  BY <2>1, <2>2, <2>5, <2>7, MovesTwice DEF items, y
  <1>5. CASE ReadBlocks \/ ReadOver
    BY <1>1, <1>3, <1>5 DEF ReadBlocks, ReadOver, Keep, x
  <1>6. CASE ReadFails
    <2>1. Moves(x, User(x), got)
      BY <1>3, MovesCall
    <2> QED  BY <1>1, <1>3, <1>6, <2>1, MovesTwice DEF ReadFails, Keep, x
  <1>7. CASE ReadEnd
    <2> DEFINE y == Call(x, <<"hup">>)
               z == Call(y, <<"pushed", "sock">>)
    <2>1. lib' = Push(z, "sock", <<>>) /\ got' = got
      BY <1>7 DEF ReadEnd, Keep, x
    <2>2. Moves(x, y, got)
      BY <1>3, MovesCall, FramesAreOK
    <2>3. Typed(y, got)
      BY <2>2 DEF Moves
    <2> HIDE DEF y
    <2>4. Moves(y, z, got)
      BY <2>3, MovesCall, FramesAreOK DEF Streams
    <2>5. Typed(z, got)
      BY <2>4 DEF Moves
    <2> HIDE DEF z
    <2>6. Moves(z, Push(z, "sock", <<>>), got)
      BY <1>1, <2>5, EmptySeq, MovesPush DEF Streams
    <2>7. Moves(lib, z, got)
      BY <1>3, <2>2, <2>4, MovesTwice
    <2> QED  BY <1>1, <2>1, <2>6, <2>7, MovesTwice
  <1> QED  BY <1>4, <1>5, <1>6, <1>7

LEMMA WriteMoves ==
  ASSUME Base, HangUp \/ DispatchWrite
  PROVE  got' = got /\ Moves(lib, lib', got)
  <1>1. Typed(lib, got)
    BY DEF Base
  <1>2. CASE HangUp
    <2> DEFINE x == Pop(lib)
               y == [x EXCEPT !.hup = TRUE]
    <2>1. Top = <<"hup">> /\ Top[1] # "none" /\ got' = got
      BY <1>2 DEF HangUp, Keep
    <2>2. PICK taken \in Takes(lib) : lib' = DoWrite(y, taken)
      BY <1>2 DEF HangUp
    <2>3. Moves(lib, x, got) /\ Typed(x, got) /\ Only(lib, x, {"stack"})
      BY <1>1, <2>1, TopIs
    <2> HIDE DEF x
    <2>4. y \in Library /\ Only(x, y, {"hup"})
      BY <2>3 DEF Typed, Library, Only, Members
    <2> HIDE DEF y
    <2>5. /\ y.sent = x.sent /\ y.out = x.out /\ y.rd = x.rd /\ y.res = x.res
          /\ y.ticks = x.ticks /\ y.stack = x.stack
          /\ Only(x, y, {"rd", "hup", "failed", "ticks", "stack"})
          /\ y.rd = lib.rd /\ y.out = lib.out /\ y.sent = lib.sent
      BY <2>3, <2>4 DEF Only, Members
    <2>6. Typed(y, got)
      BY <2>3, <2>4, <2>5 DEF Typed
    <2>7. Moves(x, y, got)
      BY <2>3, <2>5, <2>6, MovesOnly
    <2>8. taken \in Takes(y)
      BY <2>5 DEF Takes
    <2>9. Moves(y, DoWrite(y, taken), got)
      BY <2>6, <2>8, MovesDoWrite
    <2> QED  BY <2>1, <2>2, <2>3, <2>7, <2>9, MovesTwice
  <1>3. CASE DispatchWrite
    <2>1. \E taken \in Takes(lib) : lib' = DoWrite(lib, taken)
      BY <1>3 DEF DispatchWrite
    <2> QED  BY <1>1, <1>3, <2>1, MovesDoWrite DEF DispatchWrite
  <1> QED  BY <1>2, <1>3

LEMMA DrainMoves ==
  ASSUME Base, DrainStep
  PROVE  got' = got /\ Moves(lib, lib', got)
  <1> DEFINE n == Top[2]
             x == Pop(lib)
             y == Listeners(x, n + 1)
  <1>1. Typed(lib, got) /\ Top[1] = "drain" /\ Top[1] # "none"
    BY DEF Base, DrainStep
  <1>2. /\ FrameOK(Top, got, DOMAIN lib.res) /\ Typed(x, got)
        /\ Moves(lib, x, got) /\ Only(lib, x, {"stack"})
    BY <1>1, TopIs
  <1>3. n \in DOMAIN lib.res /\ n + 1 \in Nat /\ x.res = lib.res
    BY <1>1, <1>2 DEF FrameOK, Typed, Library, Only, Members
  <1>4. lib' = OnDrain(y, n) /\ got' = got
    BY DEF DrainStep, Keep
  <1> HIDE DEF n, x
  <1>5. Moves(x, y, got) /\ y.res = x.res
    BY <1>2, <1>3, MovesListeners
  <1>6. Typed(y, got) /\ y \in Library /\ n \in DOMAIN y.res
    BY <1>3, <1>5 DEF Moves, Typed
  <1> HIDE DEF y
  <1>7. Moves(y, OnDrain(y, n), got)
    BY <1>6, OnDrainIs, MovesLeaves
  <1> QED  BY <1>2, <1>4, <1>5, <1>7, MovesTwice

LEMMA TickMoves ==
  ASSUME Base, RunTick
  PROVE  got' = got /\ Step
  <1> DEFINE t == Head(lib.ticks)
             x == Next_(lib)
  <1>1. Typed(lib, got) /\ lib \in Library /\ lib.ticks # <<>> /\ got' = got
    BY DEF Base, Typed, RunTick, Keep
  <1>2. /\ x \in Library /\ Only(lib, x, {"ticks"}) /\ t \in Posts
        /\ \A e : Has(lib.ticks, e) <=> Has(x.ticks, e) \/ e = t
    BY <1>1, TickTakenIs
  <1>3. IF t = <<"sockWrite">>
        THEN \E taken \in Takes(x) : lib' = DoWrite([x EXCEPT !.notified = FALSE], taken)
        ELSE lib' = Tick(x, t)
    BY DEF RunTick
  <1> HIDE DEF x, t
  <1>4. /\ x.sent = lib.sent /\ x.out = lib.out /\ x.rd = lib.rd /\ x.res = lib.res
        /\ x.stack = lib.stack /\ Only(lib, x, {"rd", "hup", "failed", "ticks", "stack"})
        /\ x.record = lib.record /\ x.aborted = lib.aborted /\ x.late = lib.late
        /\ Writes(x) = Writes(lib)
    BY <1>2 DEF Only, Members, Writes
  <1>5. Typed(x, got)
    BY <1>1, <1>2, <1>4 DEF Typed
  <1>6. Moves(lib, x, got)
    BY <1>1, <1>4, <1>5, MovesOnly
  <1>7. CASE t = <<"sockWrite">>
    <2> DEFINE y == [x EXCEPT !.notified = FALSE]
    <2>1. y \in Library /\ Only(x, y, {"notified"})
      BY <1>2 DEF Library, Only, Members
    <2>2. PICK taken \in Takes(x) : lib' = DoWrite(y, taken)
      BY <1>3, <1>7
    <2> HIDE DEF y
    <2>3. /\ y.sent = x.sent /\ y.out = x.out /\ y.rd = x.rd /\ y.res = x.res
          /\ y.ticks = x.ticks /\ y.stack = x.stack /\ y.record = x.record
          /\ y.aborted = x.aborted /\ y.late = x.late /\ Writes(y) = Writes(x)
      BY <2>1 DEF Only, Members, Writes
    <2>4. Typed(y, got) /\ taken \in Takes(y)
      BY <1>5, <2>1, <2>3 DEF Typed, Takes
    <2>5. Moves(x, y, got)
      BY <2>3, <2>4 DEF Moves, Alike, Destroyed
    <2>6. Moves(y, DoWrite(y, taken), got)
      BY <2>4, MovesDoWrite
    <2> QED  BY <1>1, <1>6, <2>2, <2>5, <2>6, MovesTwice DEF Step
  <1>8. CASE t = <<"read", "sock">>
    <2> DEFINE y == Call(x, <<"emit", "sock">>)
    <2>1. lib' = Call(y, <<"doRead">>)
      BY <1>3, <1>8 DEF Tick
    <2>2. Moves(x, y, got)
      BY <1>5, MovesCall, FramesAreOK DEF Streams
    <2>3. Typed(y, got)
      BY <2>2 DEF Moves
    <2> HIDE DEF y
    <2>4. Moves(y, Call(y, <<"doRead">>), got)
      BY <2>3, MovesCall, FramesAreOK
    <2> QED  BY <1>1, <1>6, <2>1, <2>2, <2>4, MovesTwice DEF Step
  <1>9. CASE t = <<"read", "req">>
    <2> DEFINE y == RequestRead(x)
    <2>1. lib' = Call(y, <<"emit", "req">>)
      BY <1>3, <1>9 DEF Tick
    <2>2. Moves(x, y, got)
      <3>1. Moves(x, Resume(x, "sock"), got)
        BY <1>5, MovesFlow DEF Streams
      <3> QED  BY <1>5, <3>1, MovesAbort DEF RequestRead, Asserts
    <2>3. Typed(y, got)
      BY <2>2 DEF Moves
    <2> HIDE DEF y
    <2>4. Moves(y, Call(y, <<"emit", "req">>), got)
      BY <2>3, MovesCall, FramesAreOK DEF Streams
    <2> QED  BY <1>1, <1>6, <2>1, <2>2, <2>4, MovesTwice DEF Step
  <1>10. CASE t = <<"sockDrain">>
    <2>1. lib' = Listeners(x, 1)
      BY <1>3, <1>10 DEF Tick
    <2> QED  BY <1>1, <1>5, <1>6, <2>1, MovesListeners, MovesTwice DEF Step
  <1>11. CASE t[1] = "write"
    <2> DEFINE n == t[2]
    <2>1. lib' = ResponseWrite(x, n) /\ t = <<"write", n>>
      BY <1>2, <1>3, <1>11 DEF Tick, Posts
    <2>2. n \in DOMAIN lib.res
      BY <1>1, <1>2, <2>1 DEF Typed
    <2>3. Leaves(x, lib', n) \/ PassesOn(x, lib', n)
      BY <1>2, <1>4, <2>1, <2>2, ResponseWriteIs
    <2>4. CASE Leaves(x, lib', n)
      BY <1>1, <1>5, <1>6, <2>4, MovesLeaves, MovesTwice DEF Step
    <2>5. CASE PassesOn(x, lib', n)
      BY <1>1, <1>4, <1>6, <2>2, <2>5 DEF Step
    <2> QED  BY <2>3, <2>4, <2>5
  <1>12. CASE t[1] = "emit"
    <2>1. lib' = x \/ lib' = User(x)
      BY <1>2, <1>3, <1>12 DEF Tick
    <2> QED  BY <1>1, <1>5, <1>6, <2>1, MovesCall, MovesTwice DEF Step
  <1>13. \/ t = <<"sockWrite">> \/ t = <<"sockDrain">> \/ t = <<"read", "sock">>
         \/ t = <<"read", "req">> \/ t[1] = "write" \/ t[1] = "emit"
    BY <1>2 DEF Posts, Streams
  <1> QED  BY <1>7, <1>8, <1>9, <1>10, <1>11, <1>12, <1>13

LEMMA Steps ==
  ASSUME Base, UserStep \/ Return \/ OtherCallback \/ LibraryStep
  PROVE  (Step \/ DrainDone) /\ got' \in got .. Len(input)
  <1>1. Typed(lib, got) /\ got \in got .. Len(input)
    BY InputIs DEF Base
  <1>2. CASE UserStep
    BY <1>1, <1>2, UserSteps
  <1>3. CASE Return
    <2>1. Top[1] # "none" /\ lib' = Pop(lib) /\ got' = got
      BY <1>3 DEF Return, Keep
    <2> QED  BY <1>1, <2>1, TopIs DEF Step
  <1>4. CASE OtherCallback
    BY <1>1, <1>4, MovesCall DEF OtherCallback, Step
  <1>5. CASE FeedStep
    BY <1>1, <1>5, FeedMoves DEF Step
  <1>6. CASE EmitData \/ DataReturns \/ EmitEnd \/ EndReturns \/ PushReturns
    BY <1>1, <1>6, EmitMoves DEF Step
  <1>7. CASE DrainStep
    BY <1>1, <1>7, DrainMoves DEF Step
  <1>8. CASE ReadData \/ ReadBlocks \/ ReadFails \/ ReadEnd \/ ReadOver
    BY <1>8, ReadMoves DEF Step
  <1>9. CASE HangUp \/ DispatchWrite
    BY <1>1, <1>9, WriteMoves DEF Step
  <1>10. CASE RunTick
    BY <1>1, <1>10, TickMoves
  <1>11. CASE DrainDone
    BY <1>1, <1>11 DEF DrainDone
  <1>12. CASE DispatchRead
    <2>1. Moves(lib, Call(lib, <<"doRead">>), got)
      BY <1>1, MovesCall, FramesAreOK
    <2> QED  BY <1>1, <1>12, <2>1 DEF DispatchRead, Step
  <1>13. CASE DispatchDone
    BY <1>1, <1>13, MovesCall DEF DispatchDone, Step
  <1> QED  BY <1>2, <1>3, <1>4, <1>5, <1>6, <1>7, <1>8, <1>9, <1>10, <1>11, <1>12, <1>13
           DEF LibraryStep

LEMMA DrainDoneIs ==
  ASSUME Typed(lib, got), DrainDone
  PROVE  /\ Typed(lib', got) /\ Only(lib, lib', {"record"})
         /\ lib'.record = IF lib.record = "attached" THEN "attached" ELSE "gone"
  <1>1. lib \in Library
    BY DEF Typed
  <1>2. /\ lib' \in Library /\ Only(lib, lib', {"record"})
        /\ lib'.record = IF lib.record = "attached" THEN "attached" ELSE "gone"
    BY <1>1 DEF DrainDone, Library, Only, Members
  <1>3. /\ lib'.sent = lib.sent /\ lib'.out = lib.out /\ lib'.rd = lib.rd
        /\ lib'.res = lib.res /\ lib'.ticks = lib.ticks /\ lib'.stack = lib.stack
    BY <1>2 DEF Only, Members
  <1> QED  BY <1>2, <1>3 DEF Typed

LEMMA StepTyped ==
  ASSUME Base, Step, got' \in got .. Len(input)
  PROVE  Typed(lib', got')
  <1>1. Typed(lib, got')
    BY InputIs, TypedMore DEF Base
  <1>2. CASE Moves(lib, lib', got') \/ Opens(lib, lib', got')
    BY <1>2 DEF Moves, Opens
  <1>3. ASSUME NEW n \in DOMAIN lib.res,
               \/ SetsHeaders(lib, lib', n)
               \/ \E items \in {<<>>, <<lib.res[n].written + 1>>} :
                    Queues(lib, lib', n, items)
        PROVE  Typed(lib', got')
    BY <1>1, <1>3, TypedResponds
  <1>4. ASSUME NEW n \in DOMAIN lib.res, NEW x,
               Moves(lib, x, got'), x.res = lib.res, PassesOn(x, lib', n)
        PROVE  Typed(lib', got')
    <2>1. Typed(x, got')
      BY <1>4 DEF Moves
    <2> QED  BY <1>4, <2>1, TypedResponds
  <1> QED  BY <1>2, <1>3, <1>4 DEF Step

LEMMA SetBody ==
  ASSUME NEW S, NEW h \in [body : S, end : BOOLEAN], NEW b \in S
  PROVE  [h EXCEPT !.body = b] \in [body : S, end : BOOLEAN]
  OBVIOUS

\* The listeners hear pieces that were read.
LEMMA HeardTyped ==
  ASSUME Base, UserStep \/ Return \/ OtherCallback \/ LibraryStep,
         got' \in got .. Len(input)
  PROVE  heard' \in [body : Seq(1 .. got'), end : BOOLEAN]
  <1>1. got \in Nat /\ got' \in Nat /\ got <= got'
    BY InputIs
  <1>2. \A q \in Seq(1 .. got) : q \in Seq(1 .. got')
    BY <1>1, WiderSeq
  <1>3. heard.body \in Seq(1 .. got) /\ heard.end \in BOOLEAN
          /\ heard = [body |-> heard.body, end |-> heard.end]
    BY DEF Base
  <1>4. CASE heard' = heard
    BY <1>2, <1>3, <1>4
  <1>5. CASE EmitData
    <2>1. got' = got
      BY <1>5 DEF EmitData
    <2>2. Typed(lib, got) /\ Top[1] = "emit" /\ Top[1] # "none"
      BY <1>5 DEF Base, EmitData
    <2>3. Top[2] \in Streams
      <3>1. Top \in Frames
        BY <2>2, TopIs DEF FrameOK
      <3> HIDE DEF Top
      <3> QED  BY <2>2, <3>1, FrameIs
    <2>4. lib.rd[Top[2]].buf \in Seq(1 .. got)
      BY <2>2, <2>3 DEF Typed
    <2>5. heard.body \o lib.rd[Top[2]].buf \in Seq(1 .. got)
      BY <1>3, <2>4, ConcatProperties
    <2>6. heard' \in {heard, [heard EXCEPT !.body = @ \o lib.rd[Top[2]].buf]}
      BY <1>5 DEF EmitData
    <2>7. heard \in [body : Seq(1 .. got), end : BOOLEAN]
      BY DEF Base
    <2>8. [heard EXCEPT !.body = heard.body \o lib.rd[Top[2]].buf]
            \in [body : Seq(1 .. got), end : BOOLEAN]
      BY <2>5, <2>7, SetBody
    <2> QED  BY <2>1, <2>6, <2>7, <2>8
  <1>6. CASE EmitEnd
    BY <1>2, <1>3, <1>6 DEF EmitEnd
  <1>7. heard' = heard \/ EmitData \/ EmitEnd
    BY DEF UserStep, WriteCall, HeaderCall, DestroyCall, FlowCall, Api, Return,
           OtherCallback, LibraryStep, FeedStep, DataReturns, EndReturns, PushReturns,
           DrainStep, ReadData, ReadBlocks, ReadFails, ReadEnd, ReadOver, HangUp,
           RunTick, DrainDone, DispatchRead, DispatchWrite, DispatchDone, Keep
  <1> QED  BY <1>4, <1>5, <1>6, <1>7

LEMMA BaseInit == Init => Base
  <1> SUFFICES ASSUME Init PROVE Base
    OBVIOUS
  <1>1. /\ input \in Inputs /\ got = 0 /\ lib = NewConnection /\ phase = "drain"
        /\ todo = {} /\ calls = MaxCalls[Requests(input)]
        /\ heard = [body |-> <<>>, end |-> FALSE]
    BY DEF Init
  <1>2. Len(input) \in Nat /\ MaxCalls[Requests(input)] \in Nat
    BY <1>1, HttpExchangeAssumption
  <1>3. Typed(lib, 0)
    <2>1. /\ <<"read", "sock">> \in Posts /\ <<"read", "req">> \in Posts
          /\ \A n : <<"read", "sock">> # <<"write", n>> /\ <<"read", "req">> # <<"write", n>>
      <3>1. <<"read", "sock">> \in Posts /\ <<"read", "req">> \in Posts
        BY SomePosts DEF Streams
      <3>2. \A n : <<"read", "sock">>[1] # <<"write", n>>[1]
                   /\ <<"read", "req">>[1] # <<"write", n>>[1]
        OBVIOUS
      <3> QED  BY <3>1, <3>2, Zenon
    <2>2. <<<<"read", "sock">>, <<"read", "req">>>> \in Seq(Posts)
      BY <2>1
    <2>3. Readable \in ReadableType /\ Readable.buf = <<>>
      BY EmptySeq DEF Readable, ReadableType
    <2>4. NewConnection \in Library
      BY <2>2, <2>3, EmptySeq DEF NewConnection, Library
    <2>5. /\ NewConnection.sent = 0 /\ NewConnection.out = <<>>
          /\ NewConnection.stack = <<>>
          /\ NewConnection.ticks = <<<<"read", "sock">>, <<"read", "req">>>>
          /\ NewConnection.rd.sock = Readable /\ NewConnection.rd.req = Readable
      BY DEF NewConnection
    <2>6. \A f : ~Has(NewConnection.stack, f)
      BY <2>5, EmptySeq DEF Has
    <2>7. \A n : ~Has(NewConnection.ticks, <<"write", n>>)
      <3>1. \A i \in DOMAIN <<<<"read", "sock">>, <<"read", "req">>>> :
              <<<<"read", "sock">>, <<"read", "req">>>>[i]
                \in {<<"read", "sock">>, <<"read", "req">>}
        OBVIOUS
      <3> QED  BY <2>1, <2>5, <3>1 DEF Has
    <2>8. \A s \in Streams : NewConnection.rd[s].buf \in Seq(1 .. 0)
      BY <2>3, <2>5, EmptySeq DEF Streams
    <2>9. NewConnection.sent <= Len(NewConnection.out)
      BY <2>5, EmptySeq
    <2> QED  BY <1>1, <2>4, <2>6, <2>7, <2>8, <2>9 DEF Typed
  <1> QED  BY <1>1, <1>2, <1>3, EmptySeq DEF Base

LEMMA BaseNext == Base /\ [Next]_vars => Base'
  <1> SUFFICES ASSUME Base, [Next]_vars PROVE Base'
    OBVIOUS
  <1>1. CASE UNCHANGED vars
    BY <1>1 DEF Base, Typed, vars
  <1>2. CASE Next
    <2>1. UserStep \/ Return \/ OtherCallback \/ LibraryStep
      BY <1>2 DEF Next
    <2>2. (Step \/ DrainDone) /\ got' \in got .. Len(input)
      BY <2>1, Steps
    <2>3. got' \in 0 .. Len(input)
      BY <2>2, InputIs
    <2>4. Typed(lib', got')
      <3>1. CASE Step
        BY <2>2, <3>1, StepTyped
      <3>2. CASE DrainDone
        BY <3>2, DrainDoneIs DEF DrainDone, Base
      <3> QED  BY <2>2, <3>1, <3>2
    <2>5. heard' \in [body : Seq(1 .. got'), end : BOOLEAN]
      BY <2>1, <2>2, HeardTyped
    <2>6. input' = input
      BY <2>1 DEF UserStep, WriteCall, HeaderCall, DestroyCall, FlowCall, Api, Return,
           OtherCallback, LibraryStep, FeedStep, EmitData, EmitEnd, DataReturns,
           EndReturns, PushReturns,
           DrainStep, ReadData, ReadBlocks, ReadFails, ReadEnd, ReadOver, HangUp,
           RunTick, DrainDone, DispatchRead, DispatchWrite, DispatchDone, Keep
    <2>7. /\ phase' \in {"drain", "dispatch"} /\ todo' \subseteq {"other", "read", "write"}
          /\ calls' \in 0 .. MaxCalls[Requests(input)]
      <3>1. CASE UserStep
        <4>1. calls > 0 /\ calls' = calls - 1 /\ phase' = phase /\ todo' = todo
          BY <3>1 DEF UserStep, WriteCall, HeaderCall, DestroyCall, FlowCall, Api, Callable
        <4>2. MaxCalls[Requests(input)] \in Nat
          BY HttpExchangeAssumption DEF Base
        <4> QED  BY <4>1, <4>2 DEF Base
      <3>2. CASE ~UserStep
        <4>1. calls' = calls
          BY <2>1, <3>2 DEF Return,
             OtherCallback, LibraryStep, FeedStep, EmitData, EmitEnd, DataReturns,
             EndReturns, PushReturns,
             DrainStep, ReadData, ReadBlocks, ReadFails, ReadEnd, ReadOver, HangUp,
             RunTick, DrainDone, DispatchRead, DispatchWrite, DispatchDone, Keep
        <4>2. phase' \in {phase, "drain", "dispatch"}
          BY <2>1, <3>2 DEF Return,
             OtherCallback, LibraryStep, FeedStep, EmitData, EmitEnd, DataReturns,
             EndReturns, PushReturns,
             DrainStep, ReadData, ReadBlocks, ReadFails, ReadEnd, ReadOver, HangUp,
             RunTick, DrainDone, DispatchRead, DispatchWrite, DispatchDone, Keep
        <4>3. todo' \subseteq {"other", "read", "write"}
          <5>1. CASE DrainDone
            BY <5>1 DEF DrainDone
          <5>2. CASE ~DrainDone
            <6>1. todo' \subseteq todo
              BY <2>1, <3>2, <5>2 DEF Return,
                 OtherCallback, LibraryStep, FeedStep, EmitData, EmitEnd, DataReturns,
                 EndReturns, PushReturns,
                 DrainStep, ReadData, ReadBlocks, ReadFails, ReadEnd, ReadOver, HangUp,
                 RunTick, DispatchRead, DispatchWrite, DispatchDone, Keep
            <6> QED  BY <6>1 DEF Base
          <5> QED  BY <5>1, <5>2
        <4> QED  BY <4>1, <4>2, <4>3 DEF Base
      <3> QED  BY <3>1, <3>2
    <2> QED  BY <2>3, <2>4, <2>5, <2>6, <2>7 DEF Base, Typed
  <1> QED  BY <1>1, <1>2

\* The types of everything, for every step.
THEOREM BaseInvariant == Spec => []Base
  <1>1. Init => Base
    BY BaseInit
  <1>2. Base /\ [Next]_vars => Base'
    BY BaseNext
  <1> QED  BY <1>1, <1>2, PTL DEF Spec

-----------------------------------------------------------------------------
(* The socket outlives its streams *)

\* What may still be posted when the record of the socket is gone: callbacks of
\* streams that user code has kept.
Kept == {<<"read", "req">>} \cup {"write"} \X Nat \cup
        {"emit"} \X {"sockFinish", "sockClose", "sockError", "error", "finish",
                     "drain", "close"}

\* As long as there is a record no assertion fails.  When it is gone nothing that
\* would look for it is posted or on the stack, until user code calls a stream.
AliveInv ==
  /\ Destroyed(lib)
  /\ lib.record # "gone" => ~lib.late /\ ~Aborted
  /\ lib.record = "gone" /\ ~lib.late => lib.ticks = <<>> /\ ~Aborted
  /\ Aborted => lib.aborted \in {"read", "write", "destroy"}
  /\ lib.record = "gone" /\ ~Aborted
       => lib.stack \in {<<>>, <<<<"user">>>>} /\ \A t : Has(lib.ticks, t) => t \in Kept

LEMMA StepAlive ==
  ASSUME Base, Step, lib.record # "gone", ~lib.late, ~Aborted, Destroyed(lib)
  PROVE  lib'.record # "gone" /\ ~lib'.late /\ ~Aborted' /\ Destroyed(lib')
  <1>1. CASE Moves(lib, lib', got') \/ Opens(lib, lib', got')
    BY <1>1 DEF Moves, Opens, Aborted, Destroyed
  <1>2. ASSUME NEW n, SetsHeaders(lib, lib', n) \/ \E items : Queues(lib, lib', n, items)
        PROVE  lib'.record # "gone" /\ ~lib'.late /\ ~Aborted' /\ Destroyed(lib')
    BY <1>2 DEF SetsHeaders, Queues, Responds, Quiet, Aborted
  <1>3. ASSUME NEW n, NEW x, Moves(lib, x, got'), PassesOn(x, lib', n)
        PROVE  lib'.record # "gone" /\ ~lib'.late /\ ~Aborted' /\ Destroyed(lib')
    BY <1>3 DEF Moves, PassesOn, Responds, Quiet, Aborted
  <1> QED  BY <1>1, <1>2, <1>3 DEF Step

\* A call on a stream whose socket is gone fails an assertion of _destroy, or it
\* may post a callback of the stream.
Keeps(x, y) ==
  /\ y \in Library /\ Only(x, y, {"rd", "res", "ticks", "aborted"})
  /\ DOMAIN y.res = DOMAIN x.res /\ y.rd.sock = x.rd.sock
  /\ y.aborted \in {x.aborted, "destroy"}
  /\ \A t : Has(y.ticks, t) => Has(x.ticks, t) \/ t \in Kept

LEMMA KeepsTwice ==
  ASSUME NEW x, NEW y, NEW z, Keeps(x, y), Keeps(y, z)
  PROVE  Keeps(x, z)
  BY DEF Keeps, Only

LEMMA KeepsParts ==
  ASSUME NEW x \in Library
  PROVE  /\ Keeps(x, x)
         /\ \A t \in Kept : Keeps(x, NextTick(x, t))
         /\ \A n \in DOMAIN x.res : \A r \in ResponseType :
              Keeps(x, [x EXCEPT !.res[n] = r])
         /\ Keeps(x, Pause(x, "req")) /\ Keeps(x, Resume(x, "req"))
         /\ x.record = "gone" => Keeps(x, Abort(x, "destroy"))
  <1>1. Keeps(x, x)
    BY DEF Keeps, Only
  <1>2. ASSUME NEW t \in Kept PROVE Keeps(x, NextTick(x, t))
    <2>1. t \in Posts
      BY DEF Kept, Posts, Streams
    <2> DEFINE y == NextTick(x, t)
    <2>2. y \in Library /\ Only(x, y, {"ticks"}) /\ Posted(x, y, {t})
      BY <2>1, NextTickIs
    <2> HIDE DEF y
    <2>3. y.res = x.res /\ y.aborted = x.aborted /\ y.rd = x.rd
      BY <2>2 DEF Only, Members
    <2> QED  BY <2>2, <2>3 DEF Keeps, Only, Posted, y
  <1>3. ASSUME NEW n \in DOMAIN x.res, NEW r \in ResponseType
        PROVE  Keeps(x, [x EXCEPT !.res[n] = r])
    <2> DEFINE y == [x EXCEPT !.res[n] = r]
    <2>1. y \in Library /\ Only(x, y, {"res"}) /\ DOMAIN y.res = DOMAIN x.res
      BY SetResponse
    <2> HIDE DEF y
    <2>2. y.ticks = x.ticks /\ y.aborted = x.aborted /\ y.rd = x.rd
      BY <2>1 DEF Only, Members
    <2> QED  BY <2>1, <2>2 DEF Keeps, Only, y
  <1>4. Keeps(x, Pause(x, "req"))
    <2> DEFINE y == Pause(x, "req")
    <2>1. y \in Library /\ Only(x, y, {"rd"}) /\ y.rd.sock = x.rd.sock
      BY PauseIs DEF Streams
    <2> HIDE DEF y
    <2>2. y.ticks = x.ticks /\ y.aborted = x.aborted /\ y.res = x.res
      BY <2>1 DEF Only, Members
    <2> QED  BY <2>1, <2>2 DEF Keeps, Only, y
  <1>5. Keeps(x, Resume(x, "req"))
    <2> DEFINE y == Resume(x, "req")
    <2>1. /\ y \in Library /\ Only(x, y, {"rd", "ticks"}) /\ Posted(x, y, {<<"read", "req">>})
          /\ y.rd.sock = x.rd.sock
      BY ResumeIs DEF Streams
    <2> HIDE DEF y
    <2>2. y.aborted = x.aborted /\ y.res = x.res
      BY <2>1 DEF Only, Members
    <2> QED  BY <2>1, <2>2 DEF Keeps, Only, Posted, Kept, y
  <1>6. ASSUME x.record = "gone" PROVE Keeps(x, Abort(x, "destroy"))
    <2> DEFINE y == Abort(x, "destroy")
    <2>1. y \in Library /\ Only(x, y, {"aborted"}) /\ y.aborted = "destroy"
      BY DEF Abort, Library, Asserts, Only, Members
    <2> HIDE DEF y
    <2>2. y.ticks = x.ticks /\ y.res = x.res /\ y.rd = x.rd
      BY <2>1 DEF Only, Members
    <2> QED  BY <2>1, <2>2 DEF Keeps, Only, y
  <1> QED  BY <1>1, <1>2, <1>3, <1>4, <1>5, <1>6

LEMMA KeepsItems ==
  ASSUME NEW x \in Library, NEW n \in DOMAIN x.res, NEW items \in Seq(Nat)
  PROVE  Keeps(x, Write(x, n, items)) /\ Keeps(x, End(x, n, items))
  <1> DEFINE r == x.res[n]
             q == [r EXCEPT !.buf = @ \o items, !.written = @ + Len(items)]
             y == [x EXCEPT !.res[n] = q]
             v == NotifyWrite(y, n)
             p == [v.res[n] EXCEPT !.finish = TRUE]
  <1>1. r \in ResponseType /\ n \in Nat
    BY DEF Library
  <1>2. CASE r.destroyed \/ r.finish
    <2>1. <<"emit", "error">> \in Kept
      BY DEF Kept
    <2> QED  BY <1>2, <2>1, KeepsParts DEF Write, End
  <1>3. CASE ~(r.destroyed \/ r.finish)
    <2>1. r.buf \o items \in Seq(Nat) /\ r.written + Len(items) \in Nat
      <3>1. r.buf \in Seq(Nat) /\ r.written \in Nat
        BY <1>1 DEF ResponseType
      <3> QED  BY <3>1, ConcatProperties, LenProperties
    <2>2. q \in ResponseType
      BY <1>1, <2>1 DEF ResponseType
    <2>3. Write(x, n, items) = v
      BY <1>1, <1>3 DEF Write, Library
    <2>4. End(x, n, items) = [v EXCEPT !.res[n].finish = TRUE]
      BY <1>3, <2>3 DEF End
    <2> HIDE DEF q
    <2>5. Keeps(x, y)
      BY <2>2, KeepsParts
    <2> HIDE DEF y
    <2>6. Keeps(y, v)
      <3>1. y \in Library /\ n \in DOMAIN y.res
        BY <2>5 DEF Keeps
      <3>2. CASE y.res[n].notified
        BY <3>1, <3>2, KeepsParts DEF NotifyWrite
      <3>3. CASE ~y.res[n].notified
        <4> DEFINE o == [y.res[n] EXCEPT !.notified = TRUE]
                   z == [y EXCEPT !.res[n] = o]
        <4>1. y.res[n] \in ResponseType
          BY <3>1 DEF Library
        <4>2. o \in ResponseType
          BY <4>1 DEF ResponseType
        <4>3. v = NextTick(z, <<"write", n>>)
          BY <3>1, <3>3, <4>1 DEF NotifyWrite, Library
        <4> HIDE DEF o
        <4>4. Keeps(y, z)
          BY <3>1, <4>2, KeepsParts
        <4> HIDE DEF z
        <4>5. <<"write", n>> \in Kept
          BY <1>1 DEF Kept
        <4>6. Keeps(z, v)
          <5>1. z \in Library
            BY <4>4 DEF Keeps
          <5> QED  BY <4>3, <4>5, <5>1, KeepsParts
        <4> QED  BY <4>4, <4>6, KeepsTwice
      <3> QED  BY <3>2, <3>3
    <2>7. Keeps(x, v)
      BY <2>5, <2>6, KeepsTwice
    <2> HIDE DEF v
    <2>8. v \in Library /\ n \in DOMAIN v.res /\ v.res[n] \in ResponseType
      BY <2>7 DEF Keeps, Library
    <2>9. p \in ResponseType /\ [v EXCEPT !.res[n].finish = TRUE] = [v EXCEPT !.res[n] = p]
      BY <2>8 DEF ResponseType, Library
    <2> HIDE DEF p
    <2>10. Keeps(v, [v EXCEPT !.res[n] = p])
      BY <2>8, <2>9, KeepsParts
    <2> QED  BY <2>3, <2>4, <2>7, <2>9, <2>10, KeepsTwice
  <1> QED  BY <1>2, <1>3

LEMMA KeepsHeaders ==
  ASSUME NEW x \in Library, NEW n \in DOMAIN x.res
  PROVE  /\ Keeps(x, SetHeader(x, n)) /\ Keeps(x, FlushHeaders(x, n))
         /\ Keeps(x, WriteHead(x, n))
  <1> DEFINE r == x.res[n]
  <1>1. r \in ResponseType
    BY DEF Library
  <1>2. r.pending + 1 \in Nat /\ r.set + 1 \in Nat /\ r.cached + r.pending \in Nat
    BY <1>1 DEF ResponseType
  <1>3. /\ [r EXCEPT !.pending = @ + 1, !.set = @ + 1] \in ResponseType
        /\ Flushed(r) \in ResponseType /\ HeadWritten(r) \in ResponseType
    BY <1>1, <1>2 DEF ResponseType, Flushed, HeadWritten
  <1>4. /\ SetHeader(x, n) \in {x, [x EXCEPT !.res[n] =
                                      [r EXCEPT !.pending = @ + 1, !.set = @ + 1]]}
        /\ FlushHeaders(x, n) \in {x, [x EXCEPT !.res[n] = Flushed(r)]}
        /\ WriteHead(x, n) = [x EXCEPT !.res[n] = HeadWritten(r)]
    BY <1>1 DEF SetHeader, FlushHeaders, WriteHead, Library
  <1> HIDE DEF r
  <1> QED  BY <1>3, <1>4, KeepsParts

LEMMA KeepsCalls ==
  ASSUME Base, UserStep, lib.record = "gone"
  PROVE  \E y : Keeps(lib, y) /\ lib' = [y EXCEPT !.late = TRUE]
  <1>1. lib \in Library /\ Responses = DOMAIN lib.res
    BY DEF Base, Typed, Responses
  <1>2. ASSUME NEW next, Api(next), Keeps(lib, next)
        PROVE  Keeps(lib, next) /\ lib' = [next EXCEPT !.late = TRUE]
    <2>1. (lib.record = "gone") = TRUE
      OBVIOUS
    <2> QED  BY <1>2, <2>1 DEF Api
  <1>3. CASE WriteCall
    <2>3. PICK n \in DOMAIN lib.res : \E items \in {<<>>, <<lib.res[n].written + 1>>} :
            Api(Write(lib, n, items)) \/ Api(End(lib, n, items))
      BY <1>1, <1>3 DEF WriteCall
    <2>1. PICK items \in {<<>>, <<lib.res[n].written + 1>>} :
            Api(Write(lib, n, items)) \/ Api(End(lib, n, items))
      BY <2>3
    <2>2. items \in Seq(Nat)
      <3>1. lib.res[n] \in ResponseType
        BY <1>1 DEF Library
      <3>2. lib.res[n].written + 1 \in Nat
        BY <3>1 DEF ResponseType
      <3>3. <<>> \in Seq(Nat) /\ <<lib.res[n].written + 1>> \in Seq(Nat)
        BY <3>2, EmptySeq
      <3> QED  BY <2>1, <3>3
    <2> QED  BY <1>1, <1>2, <2>1, <2>2, KeepsItems
  <1>4. CASE HeaderCall
    BY <1>1, <1>2, <1>4, KeepsHeaders DEF HeaderCall
  <1>5. CASE DestroyCall
    <2>1. \A n \in DOMAIN lib.res :
            ResponseDestroy(lib, n) \in {lib, Abort(lib, "destroy")}
      BY DEF ResponseDestroy, WithSocket
    <2>2. RequestDestroy(lib) \in {lib, Abort(lib, "destroy")}
      BY DEF RequestDestroy, WithSocket
    <2>3. Keeps(lib, lib) /\ Keeps(lib, Abort(lib, "destroy"))
      BY <1>1, KeepsParts
    <2> QED  BY <1>1, <1>2, <1>5, <2>1, <2>2, <2>3 DEF DestroyCall
  <1>6. CASE FlowCall
    BY <1>1, <1>2, <1>6, KeepsParts DEF FlowCall
  <1> QED  BY <1>3, <1>4, <1>5, <1>6 DEF UserStep

\* A posted callback of a stream that was kept.
LEMMA KeptTick ==
  ASSUME Base, RunTick, lib.record = "gone", ~Aborted,
         \A t : Has(lib.ticks, t) => t \in Kept
  PROVE  /\ lib'.record = "gone" /\ lib'.late = lib.late /\ lib'.rd = lib.rd
         /\ lib'.aborted \in {"none", "read", "write"}
         /\ lib'.aborted = "none" =>
              /\ lib'.stack \in {lib.stack, <<<<"user">>>> \o lib.stack}
              /\ \A t : Has(lib'.ticks, t) => t \in Kept
  <1> DEFINE t == Head(lib.ticks)
             x == Next_(lib)
  <1>1. lib \in Library /\ lib.ticks # <<>>
    BY DEF Base, Typed, RunTick
  <1>2. /\ x \in Library /\ Only(lib, x, {"ticks"}) /\ t \in Kept
        /\ \A e : Has(x.ticks, e) => e \in Kept
    BY <1>1, TickTakenIs
  <1>3. IF t = <<"sockWrite">>
        THEN \E taken \in Takes(x) : lib' = DoWrite([x EXCEPT !.notified = FALSE], taken)
        ELSE lib' = Tick(x, t)
    BY DEF RunTick
  <1> HIDE DEF x, t
  <1>4. /\ x.record = "gone" /\ x.late = lib.late /\ x.aborted = lib.aborted
        /\ x.stack = lib.stack /\ x.rd = lib.rd /\ lib.aborted = "none"
    BY <1>2 DEF Only, Members, Aborted
  <1>5. CASE t = <<"read", "req">>
    <2> DEFINE y == Abort(x, "read")
    <2>1. lib' = Call(y, <<"emit", "req">>)
      BY <1>3, <1>4, <1>5 DEF Tick, RequestRead, WithSocket
    <2>2. y \in Library /\ Only(x, y, {"aborted"}) /\ y.aborted = "read"
      BY <1>2 DEF Abort, Library, Asserts, Only, Members
    <2> HIDE DEF y
    <2>3. Only(y, lib', {"stack"})
      BY <2>1, <2>2, CallIs, SomeFrames DEF Streams
    <2>4. /\ lib'.record = "gone" /\ lib'.late = lib.late /\ lib'.aborted = "read"
          /\ lib'.rd = lib.rd
      BY <1>4, <2>2, <2>3 DEF Only, Members
    <2> QED  BY <2>4
  <1>6. CASE t[1] = "write"
    <2> DEFINE n == t[2]
               y == [x EXCEPT !.res[n].notified = FALSE]
               z == Abort(y, "write")
    <2>1. lib' = ResponseWrite(x, n) /\ t = <<"write", n>>
      BY <1>2, <1>3, <1>6 DEF Tick, Kept
    <2>2. n \in DOMAIN x.res
      <3>1. Has(lib.ticks, t) /\ x.res = lib.res
        BY <1>1, <1>2, TickTakenIs DEF Only, Members, t
      <3> QED  BY <2>1, <3>1 DEF Base, Typed
    <2>3. y \in Library /\ Only(x, y, {"res"})
      <3>1. x.res[n] \in ResponseType
        BY <1>2, <2>2 DEF Library
      <3>2. [x.res[n] EXCEPT !.notified = FALSE] \in ResponseType
        BY <3>1 DEF ResponseType
      <3>3. y = [x EXCEPT !.res[n] = [x.res[n] EXCEPT !.notified = FALSE]]
        BY <1>2, <2>2, <3>1 DEF Library
      <3> QED  BY <1>2, <2>2, <3>2, <3>3, SetResponse
    <2>4. y.record = "gone"
      BY <1>4, <2>3 DEF Only, Members
    <2>5. lib' = z
      BY <2>1, <2>4 DEF ResponseWrite, WithSocket
    <2> HIDE DEF y
    <2>6. Only(y, z, {"aborted"}) /\ z.aborted = "write"
      BY <2>3 DEF Abort, Library, Asserts, Only, Members
    <2> HIDE DEF z
    <2>7. /\ lib'.record = "gone" /\ lib'.late = lib.late /\ lib'.aborted = "write"
          /\ lib'.rd = lib.rd
      BY <1>4, <2>3, <2>5, <2>6 DEF Only, Members
    <2> QED  BY <2>7
  <1>7. CASE t[1] = "emit"
    <2>1. lib' = x \/ lib' = User(x)
      BY <1>2, <1>3, <1>7 DEF Tick, Kept
    <2>2. /\ Only(x, User(x), {"stack"})
          /\ User(x).stack \in {x.stack, <<<<"user">>>> \o x.stack}
      BY <1>2, UserIs
    <2>3. Only(x, lib', {"stack"}) /\ lib'.stack \in {x.stack, <<<<"user">>>> \o x.stack}
      BY <2>1, <2>2 DEF Only
    <2>4. /\ lib'.record = "gone" /\ lib'.late = lib.late /\ lib'.aborted = "none"
          /\ lib'.ticks = x.ticks /\ lib'.rd = lib.rd
      BY <1>4, <2>3 DEF Only, Members
    <2> QED  BY <1>2, <1>4, <2>3, <2>4
  <1> QED  BY <1>2, <1>5, <1>6, <1>7 DEF Kept

LEMMA AliveNext ==
  ASSUME Base, AliveInv, [Next]_vars
  PROVE  AliveInv'
  <1>1. CASE UNCHANGED vars
    BY <1>1 DEF AliveInv, Aborted, vars
  <1>2. CASE Next /\ lib.record # "gone"
    <2>1. /\ Step \/ DrainDone
          /\ ~lib.late /\ ~Aborted /\ Destroyed(lib)
      BY <1>2, Steps DEF Next, AliveInv
    <2>2. CASE Step
      <3>1. lib'.record # "gone" /\ ~lib'.late /\ ~Aborted' /\ Destroyed(lib)'
        BY <1>2, <2>1, <2>2, StepAlive
      <3> QED  BY <3>1 DEF AliveInv
    <2>3. CASE DrainDone
      <3>1. Only(lib, lib', {"record"}) /\ lib.stack = <<>> /\ lib.ticks = <<>>
        BY <2>3, DrainDoneIs DEF Base, DrainDone, Idle
      <3>2. /\ lib'.aborted = lib.aborted /\ lib'.late = lib.late
            /\ lib'.stack = <<>> /\ lib'.ticks = <<>> /\ lib'.rd = lib.rd
        BY <3>1 DEF Only, Members
      <3>3. ~Aborted' /\ ~lib'.late /\ \A t : ~Has(lib'.ticks, t)
        BY <2>1, <3>2 DEF Aborted, Has
      <3>4. Destroyed(lib)'
        BY <2>1, <2>3, <3>2 DEF Destroyed, DrainDone
      <3> QED  BY <3>2, <3>3, <3>4 DEF AliveInv
    <2> QED  BY <2>1, <2>2, <2>3
  <1>3. CASE Next /\ lib.record = "gone"
    <2>1. /\ ~Aborted /\ Typed(lib, got) /\ lib \in Library /\ lib.aborted = "none"
          /\ lib.stack \in {<<>>, <<<<"user">>>>}
          /\ \A t : Has(lib.ticks, t) => t \in Kept
          /\ ~lib.late => lib.ticks = <<>>
          /\ lib.rd.sock.destroyed
      BY <1>3 DEF AliveInv, Base, Typed, Next, Aborted, Destroyed
    <2>2. Top \in {<<"none">>, <<"user">>}
      BY <2>1 DEF Top
    <2>3. Top[1] \in {"none", "user"} /\ Top # <<"doRead">> /\ Top # <<"hup">>
      BY <2>2
    <2>4. /\ ~FeedStep /\ ~EmitData /\ ~DataReturns /\ ~EmitEnd /\ ~EndReturns
          /\ ~PushReturns /\ ~DrainStep
      BY <2>3 DEF FeedStep, EmitData, DataReturns, EmitEnd, EndReturns, PushReturns,
                  DrainStep
    <2>5. /\ ~ReadData /\ ~ReadBlocks /\ ~ReadFails /\ ~ReadEnd /\ ~ReadOver /\ ~HangUp
          /\ ~DispatchRead /\ ~DispatchWrite
      BY <1>3, <2>3 DEF ReadData, ReadBlocks, ReadFails, ReadEnd, ReadOver, HangUp,
                        DispatchRead, DispatchWrite, Reported
    <2>6. UserStep \/ Return \/ OtherCallback \/ RunTick \/ DrainDone \/ DispatchDone
      BY <1>3, <2>4, <2>5 DEF Next, LibraryStep
    \* A step that leaves the posted callbacks and the history alone.
    <2>7. ASSUME Only(lib, lib', {"stack"}) \/ Only(lib, lib', {"record"}),
                 lib'.record = "gone", lib'.stack \in {<<>>, <<<<"user">>>>}
          PROVE  AliveInv'
      <3>1. /\ lib'.aborted = "none" /\ lib'.late = lib.late /\ lib'.ticks = lib.ticks
            /\ lib'.rd = lib.rd
        BY <2>1, <2>7 DEF Only, Members
      <3> QED  BY <2>1, <2>7, <3>1 DEF AliveInv, Aborted, Destroyed
    <2>8. CASE UserStep
      <3>1. PICK y : Keeps(lib, y) /\ lib' = [y EXCEPT !.late = TRUE]
        BY <1>3, <2>8, KeepsCalls
      <3>2. Only(y, lib', {"late"}) /\ lib'.late = TRUE
        BY <3>1 DEF Keeps, Library, Only, Members
      <3>3. /\ lib'.record = "gone" /\ lib'.stack = lib.stack /\ lib'.ticks = y.ticks
            /\ lib'.aborted = y.aborted /\ lib'.rd.sock = lib.rd.sock
        BY <1>3, <3>1, <3>2 DEF Keeps, Only, Members
      <3>4. lib'.aborted \in {"none", "destroy"} /\ \A t : Has(lib'.ticks, t) => t \in Kept
        BY <2>1, <3>1, <3>3 DEF Keeps
      <3> QED  BY <2>1, <3>2, <3>3, <3>4 DEF AliveInv, Aborted, Destroyed
    <2>9. CASE RunTick
      <3>1. lib.stack = <<>> /\ lib.ticks # <<>>
        BY <2>9 DEF RunTick, Idle
      <3>2. /\ lib'.record = "gone" /\ lib'.late = lib.late /\ lib'.rd = lib.rd
            /\ lib'.aborted \in {"none", "read", "write"}
            /\ lib'.aborted = "none" =>
                 /\ lib'.stack \in {lib.stack, <<<<"user">>>> \o lib.stack}
                 /\ \A t : Has(lib'.ticks, t) => t \in Kept
        BY <1>3, <2>1, <2>9, KeptTick
      <3>3. <<<<"user">>>> \o <<>> = <<<<"user">>>> /\ lib.late
        BY <2>1, <3>1
      <3> QED  BY <2>1, <3>1, <3>2, <3>3 DEF AliveInv, Aborted, Destroyed, Library
    <2>10. CASE Return
      <3>1. Top[1] # "none" /\ lib' = Pop(lib)
        BY <2>10 DEF Return
      <3>2. Only(lib, lib', {"stack"}) /\ lib'.stack = Tail(lib.stack) /\ lib.stack # <<>>
        BY <2>1, <3>1, TopIs
      <3>3. lib'.record = "gone"
        BY <1>3, <3>2 DEF Only, Members
      <3>4. lib'.stack = <<>>
        <4>1. Tail(<<<<"user">>>>) = <<>>
          OBVIOUS
        <4> QED  BY <2>1, <3>2, <4>1
      <3> QED  BY <2>7, <3>2, <3>3, <3>4
    <2>11. CASE OtherCallback
      <3>1. lib' = User(lib) /\ lib.stack = <<>>
        BY <2>11 DEF OtherCallback, Idle
      <3>2. /\ Only(lib, lib', {"stack"})
            /\ lib'.stack = <<>> \/ lib'.stack = <<<<"user">>>> \o <<>>
        BY <2>1, <3>1, UserIs DEF Typed
      <3>3. lib'.record = "gone" /\ lib'.stack \in {<<>>, <<<<"user">>>>}
        BY <1>3, <3>2 DEF Only, Members
      <3> QED  BY <2>7, <3>2, <3>3
    <2>12. CASE DrainDone
      <3>1. Only(lib, lib', {"record"}) /\ lib'.record = "gone"
        BY <1>3, <2>1, <2>12, DrainDoneIs
      <3>2. lib'.stack = lib.stack
        BY <3>1 DEF Only, Members
      <3> QED  BY <2>1, <2>7, <3>1, <3>2
    <2>13. CASE DispatchDone
      BY <1>3, <2>1, <2>7, <2>13 DEF DispatchDone, Only
    <2> QED  BY <2>6, <2>8, <2>9, <2>10, <2>11, <2>12, <2>13
  <1> QED  BY <1>1, <1>2, <1>3

LEMMA AliveInit == Init => AliveInv
  BY DEF Init, AliveInv, Aborted, Destroyed, NewConnection, Has

\* The streams of a connection find its socket whenever they lock it, whatever
\* user code calls: the record goes when nothing is posted, no callback of the
\* connection comes after that, and so the asserts in the listeners of the socket
\* and of the parser never fail.  Those of _read, _write and _destroy fail only
\* after a call on a stream that was kept for longer than its connection.
THEOREM SocketIsThere == Spec => []SocketOutlivesStreams
  <1>1. Init => AliveInv
    BY AliveInit
  <1>2. Base /\ AliveInv /\ [Next]_vars => AliveInv'
    BY AliveNext
  <1>3. AliveInv => SocketOutlivesStreams
    BY DEF AliveInv, SocketOutlivesStreams
  <1> QED  BY <1>1, <1>2, <1>3, BaseInvariant, PTL DEF Spec

-----------------------------------------------------------------------------
(* What a response puts into the socket *)

\* Where the response r, with the number n, stands when the socket was given out
\* and takes more if w holds: what was passed on are its first writes, behind a
\* head, and its buffer holds the writes that follow.
ResponseOK(r, n, out, w) ==
  LET passed == r.written - Len(r.buf)
  IN  /\ Len(r.buf) <= r.written
      /\ \A k \in DOMAIN r.buf : r.buf[k] = passed + k
      /\ r.state # "BODY" => r.cached + r.pending = r.set /\ passed = 0
      /\ \A i \in DOMAIN out : out[i][2] = n =>
           /\ r.state = "BODY"
           /\ IF out[i][1] = "head" THEN out[i][3] = r.set ELSE out[i][3] \in 1 .. passed
      /\ w => /\ r.state = "BODY" =>
                   \E i \in DOMAIN out : out[i][1] = "head" /\ out[i][2] = n
              /\ \A k \in 1 .. passed : \E i \in DOMAIN out : out[i] = <<"body", n, k>>

OutInv(x) ==
  /\ HeadThenBody(x.out)
  /\ \A i \in DOMAIN x.out : x.out[i][2] \in DOMAIN x.res
  /\ \A n \in DOMAIN x.res : ResponseOK(x.res[n], n, x.out, Writes(x))

LEMMA ItemIs ==
  ASSUME NEW out \in Seq(Items), NEW i \in DOMAIN out
  PROVE  /\ out[i] \in Items
         /\ out[i][1] \in {"head", "body"} /\ out[i][2] \in Nat /\ out[i][3] \in Nat
         /\ out[i] = <<out[i][1], out[i][2], out[i][3]>>
  <1>1. out[i] \in Items
    OBVIOUS
  <1>2. \A e \in Items : /\ e[1] \in {"head", "body"} /\ e[2] \in Nat /\ e[3] \in Nat
                         /\ e = <<e[1], e[2], e[3]>>
    BY DEF Items
  <1> QED  BY <1>1, <1>2

\* Where the items of two sequences are in their concatenation.
LEMMA ConcatIs ==
  ASSUME NEW S, NEW s \in Seq(S), NEW t \in Seq(S)
  PROVE  /\ s \o t \in Seq(S) /\ Len(s) \in Nat /\ Len(t) \in Nat
         /\ DOMAIN s = 1 .. Len(s) /\ DOMAIN t = 1 .. Len(t)
         /\ DOMAIN (s \o t) = 1 .. Len(s) + Len(t)
         /\ \A i \in 1 .. Len(s) : (s \o t)[i] = s[i]
         /\ \A i \in 1 .. Len(t) : (s \o t)[Len(s) + i] = t[i]
         /\ \A i \in DOMAIN (s \o t) :
              \/ i \in 1 .. Len(s) /\ (s \o t)[i] = s[i]
              \/ \E j \in 1 .. Len(t) : i = Len(s) + j /\ (s \o t)[i] = t[j]
  <1>1. /\ s \o t \in Seq(S) /\ Len(s) \in Nat /\ Len(t) \in Nat
        /\ DOMAIN s = 1 .. Len(s) /\ DOMAIN t = 1 .. Len(t)
        /\ DOMAIN (s \o t) = 1 .. Len(s) + Len(t)
        /\ \A i \in 1 .. Len(s) : (s \o t)[i] = s[i]
        /\ \A i \in 1 .. Len(t) : (s \o t)[Len(s) + i] = t[i]
    OBVIOUS
  <1>2. \A i \in 1 .. Len(s) + Len(t) :
          i \in 1 .. Len(s) \/ (i - Len(s) \in 1 .. Len(t) /\ i = Len(s) + (i - Len(s)))
    BY <1>1
  <1> QED  BY <1>1, <1>2

LEMMA OneLess ==
  ASSUME NEW m \in Nat, NEW k \in 1 .. m, k # 1, NEW p \in Nat
  PROVE  k - 1 \in 1 .. k - 1 /\ k - 1 \in 1 .. m /\ (p + (k - 1)) + 1 = p + k
  OBVIOUS

\* A head in front of everything else of its response keeps the order.
LEMMA HeadAdded ==
  ASSUME NEW out \in Seq(Items), NEW n \in Nat, NEW c \in Nat, HeadThenBody(out),
         \A i \in DOMAIN out : out[i][2] # n
  PROVE  HeadThenBody(out \o <<<<"head", n, c>>>>)
  <1> DEFINE h == <<<<"head", n, c>>>>
             all == out \o h
  <1>1. h \in Seq(Items) /\ Len(h) = 1 /\ h[1] = <<"head", n, c>>
    BY DEF Items
  <1>2. <<"head", n, c>>[1] = "head" /\ <<"head", n, c>>[2] = n
    OBVIOUS
  <1> HIDE DEF h
  <1>3. /\ DOMAIN out = 1 .. Len(out) /\ Len(out) \in Nat
        /\ DOMAIN all = 1 .. Len(out) + 1
        /\ \A i \in 1 .. Len(out) : all[i] = out[i]
        /\ all[Len(out) + 1] = <<"head", n, c>>
    <2>1. 1 \in 1 .. 1
      OBVIOUS
    <2> QED  BY <1>1, <2>1, ConcatIs, SMTT(30)
  <1> HIDE DEF all
  <1>4. \A i \in DOMAIN out : Before(all, i) = Before(out, i)
    BY <1>3 DEF Before
  <1>5. \A i \in DOMAIN out : Before(out, i) \subseteq DOMAIN out
    BY <1>3 DEF Before
  <1>6. Before(all, Len(out) + 1) = {}
    <2>1. \A j \in 1 .. Len(out) : all[j][2] # n
      BY <1>3
    <2>2. all[Len(out) + 1][2] = n
      BY <1>2, <1>3
    <2> QED  BY <1>3, <2>1, <2>2 DEF Before
  <1>7. ASSUME NEW i \in DOMAIN all
        PROVE  IF all[i][1] = "head" THEN Before(all, i) = {}
               ELSE /\ \E j \in Before(all, i) :
                         IF all[i][3] = 1 THEN all[j][1] = "head"
                         ELSE all[j][1] = "body" /\ all[j][3] + 1 = all[i][3]
                    /\ \A j \in Before(all, i) :
                         all[j][1] = "body" => all[j][3] < all[i][3]
    <2>1. CASE i \in DOMAIN out
      BY <1>3, <1>4, <1>5, <2>1 DEF HeadThenBody
    <2>2. CASE i = Len(out) + 1
      BY <1>2, <1>3, <1>6, <2>2
    <2> QED  BY <1>3, <2>1, <2>2
  <1> QED  BY <1>7 DEF HeadThenBody, all, h

\* So do its next writes, behind that head.
LEMMA BodyAdded ==
  ASSUME NEW out \in Seq(Items), NEW n \in Nat, NEW r \in ResponseType, NEW p \in Nat,
         HeadThenBody(out),
         \A k \in DOMAIN r.buf : r.buf[k] = p + k,
         \E i \in DOMAIN out : out[i][1] = "head" /\ out[i][2] = n,
         p > 0 => \E i \in DOMAIN out : out[i] = <<"body", n, p>>,
         \A i \in DOMAIN out : out[i][2] = n /\ out[i][1] # "head" => out[i][3] <= p
  PROVE  HeadThenBody(out \o BodyItems(r, n))
  <1> DEFINE b == BodyItems(r, n)
             all == out \o b
  <1>1. b \in Seq(Items) /\ \A k \in DOMAIN b : b[k] = <<"body", n, p + k>>
    BY BodyItemsAre DEF BodyItems
  <1>2. \A k \in Nat : /\ <<"body", n, k>>[1] = "body" /\ <<"body", n, k>>[2] = n
                       /\ <<"body", n, k>>[3] = k
    OBVIOUS
  <1> HIDE DEF b
  <1>3. /\ DOMAIN out = 1 .. Len(out) /\ Len(out) \in Nat /\ Len(b) \in Nat
        /\ DOMAIN b = 1 .. Len(b) /\ DOMAIN all = 1 .. Len(out) + Len(b)
        /\ \A i \in 1 .. Len(out) : all[i] = out[i]
        /\ \A k \in 1 .. Len(b) : all[Len(out) + k] = b[k]
        /\ \A i \in DOMAIN all : \/ i \in DOMAIN out
                                 \/ \E k \in 1 .. Len(b) : i = Len(out) + k
    BY <1>1, ConcatIs
  <1> HIDE DEF all
  <1>4. \A k \in 1 .. Len(b) : /\ all[Len(out) + k][1] = "body"
                               /\ all[Len(out) + k][2] = n
                               /\ all[Len(out) + k][3] = p + k
    BY <1>1, <1>2, <1>3, SMTT(30)
  <1>5. \A i \in DOMAIN out : /\ Before(all, i) = Before(out, i)
                              /\ Before(out, i) \subseteq DOMAIN out
    BY <1>3 DEF Before
  <1>6. ASSUME NEW i \in DOMAIN out
        PROVE  IF all[i][1] = "head" THEN Before(all, i) = {}
               ELSE /\ \E j \in Before(all, i) :
                         IF all[i][3] = 1 THEN all[j][1] = "head"
                         ELSE all[j][1] = "body" /\ all[j][3] + 1 = all[i][3]
                    /\ \A j \in Before(all, i) :
                         all[j][1] = "body" => all[j][3] < all[i][3]
    BY <1>3, <1>5, <1>6, SMTT(30) DEF HeadThenBody
  <1>7. ASSUME NEW k \in 1 .. Len(b), NEW i, i = Len(out) + k
        PROVE  /\ all[i][1] # "head"
               /\ \E j \in Before(all, i) :
                    IF all[i][3] = 1 THEN all[j][1] = "head"
                    ELSE all[j][1] = "body" /\ all[j][3] + 1 = all[i][3]
               /\ \A j \in Before(all, i) : all[j][1] = "body" => all[j][3] < all[i][3]
    <2>1. all[i][1] = "body" /\ all[i][2] = n /\ all[i][3] = p + k
      BY <1>4, <1>7
    <2>2. /\ \A j \in DOMAIN out : all[j][2] = n => j \in Before(all, i)
          /\ \A l \in 1 .. k - 1 : Len(out) + l \in Before(all, i)
      BY <1>3, <1>4, <1>7, <2>1, SMTT(30) DEF Before
    <2>3. ASSUME NEW j \in Before(all, i), all[j][1] = "body"
          PROVE  all[j][3] < all[i][3]
      <3>1. j \in 1 .. (Len(out) + k) - 1 /\ all[j][2] = n
        BY <1>7, <2>1, <2>3 DEF Before
      <3>2. CASE j \in DOMAIN out
        <4>1. all[j] = out[j] /\ out[j][3] \in Nat
          BY <1>3, <3>2, ItemIs
        <4>2. out[j][3] <= p
          BY <2>3, <3>1, <3>2, <4>1
        <4> QED  BY <2>1, <4>1, <4>2
      <3>3. CASE j \notin DOMAIN out
        <4>1. j - Len(out) \in 1 .. k - 1 /\ j = Len(out) + (j - Len(out))
          BY <1>3, <3>1, <3>3
        <4>2. j - Len(out) \in 1 .. Len(b)
          BY <1>3, <4>1
        <4>3. all[Len(out) + (j - Len(out))][3] = p + (j - Len(out))
          BY <1>4, <4>2
        <4>4. all[j][3] = p + (j - Len(out))
          BY <4>1, <4>3
        <4> QED  BY <1>3, <2>1, <4>1, <4>4
      <3> QED  BY <3>2, <3>3
    <2>4. CASE p + k = 1
      <3>1. PICK j \in DOMAIN out : out[j][1] = "head" /\ out[j][2] = n
        OBVIOUS
      <3>2. j \in Before(all, i) /\ all[j][1] = "head" /\ all[i][3] = 1
        BY <1>3, <2>1, <2>2, <2>4, <3>1
      <3> QED  BY <2>1, <2>3, <3>2, Zenon
    <2>5. CASE p + k # 1 /\ k = 1
      <3>1. p > 0
        BY <2>5
      <3>2. PICK j \in DOMAIN out : out[j] = <<"body", n, p>>
        BY <3>1
      <3>3. all[j][1] = "body" /\ all[j][2] = n /\ all[j][3] = p
        BY <1>2, <1>3, <3>2
      <3>4. /\ j \in Before(all, i) /\ all[j][1] = "body"
            /\ all[j][3] + 1 = all[i][3] /\ all[i][3] # 1
        BY <1>3, <2>1, <2>2, <2>5, <3>2, <3>3
      <3> QED  BY <2>1, <2>3, <3>4, Zenon
    <2>6. CASE p + k # 1 /\ k # 1
      <3>1. k - 1 \in 1 .. k - 1 /\ k - 1 \in 1 .. Len(b) /\ (p + (k - 1)) + 1 = p + k
        BY <1>3, <2>6, OneLess
      <3>2. /\ Len(out) + (k - 1) \in Before(all, i)
            /\ all[Len(out) + (k - 1)][1] = "body"
            /\ all[Len(out) + (k - 1)][3] + 1 = p + k
        BY <1>4, <2>2, <3>1
      <3>3. all[Len(out) + (k - 1)][3] + 1 = all[i][3] /\ all[i][3] # 1
        BY <2>1, <2>6, <3>2
      <3> QED  BY <2>1, <2>3, <3>2, <3>3, Zenon
    <2> QED  BY <2>1, <2>4, <2>5, <2>6, <2>3
  <1>8. ASSUME NEW i \in DOMAIN all
        PROVE  IF all[i][1] = "head" THEN Before(all, i) = {}
               ELSE /\ \E j \in Before(all, i) :
                         IF all[i][3] = 1 THEN all[j][1] = "head"
                         ELSE all[j][1] = "body" /\ all[j][3] + 1 = all[i][3]
                    /\ \A j \in Before(all, i) :
                         all[j][1] = "body" => all[j][3] < all[i][3]
    <2>1. CASE i \in DOMAIN out
      BY <1>6, <2>1
    <2>2. CASE \E k \in 1 .. Len(b) : i = Len(out) + k
      BY <1>7, <2>2
    <2> QED  BY <1>3, <2>1, <2>2
  <1> QED  BY <1>8 DEF HeadThenBody, all, b

LEMMA PassedIs ==
  ASSUME NEW r \in ResponseType, Len(r.buf) <= r.written
  PROVE  /\ r.buf \in Seq(Nat) /\ Len(r.buf) \in Nat /\ DOMAIN r.buf = 1 .. Len(r.buf)
         /\ r.written \in Nat /\ r.written - Len(r.buf) \in Nat /\ r.set \in Nat
         /\ r.cached \in Nat /\ r.pending \in Nat
  BY DEF ResponseType

\* The calls that leave the socket's buffer as it is.
LEMMA AlikeOK ==
  ASSUME NEW r, NEW q, NEW n, NEW out, NEW w \in BOOLEAN, NEW v \in BOOLEAN,
         ResponseOK(r, n, out, w), Alike(r, q), v => w
  PROVE  ResponseOK(q, n, out, v)
  <1>1. /\ q.state = r.state /\ q.pending = r.pending /\ q.cached = r.cached
        /\ q.set = r.set /\ q.buf = r.buf /\ q.written = r.written
    BY DEF Alike, Content
  <1> QED  BY <1>1 DEF ResponseOK

LEMMA HeadersOK ==
  ASSUME NEW r, NEW q, NEW n, NEW out, NEW w \in BOOLEAN, NEW v \in BOOLEAN,
         ResponseOK(r, n, out, w), HeadersChange(r, q), v => w
  PROVE  ResponseOK(q, n, out, v)
  <1>1. /\ q.buf = r.buf /\ q.written = r.written
        /\ q.state = "BODY" <=> r.state = "BODY"
        /\ r.state = "BODY" => q.set = r.set
        /\ r.state # "BODY" => q.cached + q.pending = q.set
    BY DEF HeadersChange, ResponseOK
  <1> QED  BY <1>1 DEF ResponseOK

LEMMA QueuedOK ==
  ASSUME NEW r \in ResponseType, NEW q \in ResponseType, NEW n, NEW out,
         NEW w \in BOOLEAN, NEW v \in BOOLEAN,
         NEW items \in {<<>>, <<r.written + 1>>},
         ResponseOK(r, n, out, w), ItemsChange(r, q, items), v => w
  PROVE  ResponseOK(q, n, out, v)
  <1>1. /\ q.state = r.state /\ q.pending = r.pending /\ q.cached = r.cached
        /\ q.set = r.set
    BY DEF ItemsChange
  <1>2. /\ r.buf \in Seq(Nat) /\ Len(r.buf) \in Nat /\ DOMAIN r.buf = 1 .. Len(r.buf)
        /\ r.written \in Nat /\ Len(r.buf) <= r.written
    BY PassedIs DEF ResponseOK
  <1>3. /\ Len(q.buf) <= q.written
        /\ q.written - Len(q.buf) = r.written - Len(r.buf)
        /\ \A k \in DOMAIN q.buf : q.buf[k] = (r.written - Len(r.buf)) + k
    <2>1. CASE q.buf = r.buf /\ q.written = r.written
      BY <1>2, <2>1 DEF ResponseOK
    <2>2. CASE q.buf = r.buf \o items /\ q.written = r.written + Len(items) /\ items = <<>>
      <3>1. q.buf = r.buf /\ q.written = r.written
        BY <1>2, <2>2, ConcatEmptySeq
      <3> QED  BY <2>1, <3>1
    <2>3. CASE /\ q.buf = r.buf \o items /\ q.written = r.written + Len(items)
               /\ items = <<r.written + 1>>
      <3>1. items \in Seq(Nat) /\ Len(items) = 1 /\ items[1] = r.written + 1
        BY <1>2, <2>3
      <3>2. /\ DOMAIN q.buf = 1 .. Len(r.buf) + 1 /\ Len(q.buf) = Len(r.buf) + 1
            /\ \A k \in 1 .. Len(r.buf) : q.buf[k] = r.buf[k]
            /\ q.buf[Len(r.buf) + 1] = r.written + 1
        <4>1. 1 \in 1 .. 1
          OBVIOUS
        <4>2. /\ DOMAIN q.buf = 1 .. Len(r.buf) + 1
              /\ \A k \in 1 .. Len(r.buf) : q.buf[k] = r.buf[k]
              /\ q.buf[Len(r.buf) + 1] = r.written + 1
          BY <1>2, <2>3, <3>1, <4>1, ConcatIs
        <4>3. Len(q.buf) = Len(r.buf) + 1
          BY <1>2, <2>3, <3>1, ConcatProperties
        <4> QED  BY <4>2, <4>3
      <3>3. \A k \in 1 .. Len(r.buf) : q.buf[k] = (r.written - Len(r.buf)) + k
        BY <1>2, <3>2 DEF ResponseOK
      <3>4. q.written = r.written + 1
        BY <2>3, <3>1
      <3>5. r.written + 1 = (r.written - Len(r.buf)) + (Len(r.buf) + 1)
        BY <1>2
      <3>6. \A k \in DOMAIN q.buf : k \in 1 .. Len(r.buf) \/ k = Len(r.buf) + 1
        BY <1>2, <3>2
      <3>7. \A k \in DOMAIN q.buf : q.buf[k] = (r.written - Len(r.buf)) + k
        BY <3>2, <3>3, <3>5, <3>6
      <3>8. Len(q.buf) <= q.written /\ q.written - Len(q.buf) = r.written - Len(r.buf)
        BY <1>2, <3>2, <3>4, SMTT(30)
      <3> QED  BY <3>7, <3>8
    <2> QED  BY <2>1, <2>2, <2>3 DEF ItemsChange
  <1> QED  BY <1>1, <1>3 DEF ResponseOK

\* What other responses put there does not concern it.
LEMMA OthersOK ==
  ASSUME NEW out \in Seq(Items), NEW s \in Seq(Items), NEW r, NEW n,
         NEW w \in BOOLEAN, NEW v \in BOOLEAN,
         ResponseOK(r, n, out, w), v => w,
         \A i \in DOMAIN s : s[i][2] # n
  PROVE  ResponseOK(r, n, out \o s, v)
  <1> DEFINE all == out \o s
  <1>1. /\ DOMAIN out = 1 .. Len(out) /\ DOMAIN s = 1 .. Len(s)
        /\ \A i \in DOMAIN out : i \in DOMAIN all /\ all[i] = out[i]
        /\ \A i \in DOMAIN all : \/ i \in DOMAIN out /\ all[i] = out[i]
                                 \/ \E j \in DOMAIN s : all[i] = s[j]
    BY ConcatIs
  <1> HIDE DEF all
  <1>2. \A i \in DOMAIN all : all[i][2] = n => i \in DOMAIN out /\ all[i] = out[i]
    BY <1>1
  <1> DEFINE passed == r.written - Len(r.buf)
  <1>3. \A i \in DOMAIN all : all[i][2] = n =>
          /\ r.state = "BODY"
          /\ IF all[i][1] = "head" THEN all[i][3] = r.set ELSE all[i][3] \in 1 .. passed
    BY <1>2 DEF ResponseOK
  <1>4. w /\ r.state = "BODY" => \E i \in DOMAIN all : all[i][1] = "head" /\ all[i][2] = n
    BY <1>1 DEF ResponseOK
  <1>5. w => \A k \in 1 .. passed : \E i \in DOMAIN all : all[i] = <<"body", n, k>>
    BY <1>1, ZenonT(30) DEF ResponseOK
  <1>6. /\ Len(r.buf) <= r.written /\ \A k \in DOMAIN r.buf : r.buf[k] = passed + k
        /\ r.state # "BODY" => r.cached + r.pending = r.set /\ passed = 0
    BY DEF ResponseOK
  <1> QED  BY <1>3, <1>4, <1>5, <1>6 DEF ResponseOK, all

\* The _write of a response that reaches the socket.
LEMMA WrittenOK ==
  ASSUME NEW out \in Seq(Items), NEW r \in ResponseType, NEW q, NEW n \in Nat,
         ResponseOK(r, n, out, TRUE), HeadThenBody(out),
         q.state = "BODY", q.buf = <<>>, q.written = r.written, q.set = r.set,
         NEW w \in BOOLEAN
  PROVE  LET all == (out \o HeadItem(r, n)) \o BodyItems(r, n)
         IN  /\ HeadThenBody(all) /\ ResponseOK(q, n, all, w)
  <1> DEFINE p == r.written - Len(r.buf)
             head == <<"head", n, r.cached + r.pending>>
             h == HeadItem(r, n)
             b == BodyItems(r, n)
             mid == out \o h
             all == mid \o b
  <1>1. /\ r.buf \in Seq(Nat) /\ Len(r.buf) \in Nat /\ DOMAIN r.buf = 1 .. Len(r.buf)
        /\ r.written \in Nat /\ p \in Nat /\ r.set \in Nat
        /\ r.cached + r.pending \in Nat
    BY PassedIs DEF ResponseOK
  <1>2. /\ \A k \in DOMAIN r.buf : r.buf[k] = p + k
        /\ r.state # "BODY" => r.cached + r.pending = r.set /\ p = 0
        /\ \A i \in DOMAIN out : out[i][2] = n =>
             /\ r.state = "BODY"
             /\ IF out[i][1] = "head" THEN out[i][3] = r.set ELSE out[i][3] \in 1 .. p
        /\ r.state = "BODY" => \E i \in DOMAIN out : out[i][1] = "head" /\ out[i][2] = n
        /\ \A k \in 1 .. p : \E i \in DOMAIN out : out[i] = <<"body", n, k>>
    BY DEF ResponseOK
  <1>3. /\ b \in Seq(Items) /\ DOMAIN b = 1 .. Len(r.buf)
        /\ h \in Seq(Items) /\ \A k \in DOMAIN b : b[k] = <<"body", n, p + k>>
    BY <1>1, <1>2, BodyItemsAre DEF BodyItems
  <1>4. /\ r.state = "BODY" => h = <<>>
        /\ r.state # "BODY" => h = <<head>>
    BY DEF HeadItem
  <1>5. /\ head[1] = "head" /\ head[2] = n /\ head[3] = r.cached + r.pending
        /\ \A k \in Nat : /\ <<"body", n, k>>[1] = "body" /\ <<"body", n, k>>[2] = n
                          /\ <<"body", n, k>>[3] = k
    OBVIOUS
  <1> HIDE DEF p, head, h, b
  <1>6. /\ mid \in Seq(Items)
        /\ \A i \in DOMAIN out : i \in DOMAIN mid /\ mid[i] = out[i]
        /\ \A i \in DOMAIN mid : \/ i \in DOMAIN out /\ mid[i] = out[i]
                                 \/ r.state # "BODY" /\ mid[i] = head
        /\ r.state # "BODY" => \E i \in DOMAIN mid : mid[i] = head
    <2>1. CASE r.state = "BODY"
      <3>1. mid = out
        BY <1>4, <2>1, ConcatEmptySeq
      <3> QED  BY <2>1, <3>1
    <2>2. CASE r.state # "BODY"
      <3>1. h = <<head>> /\ DOMAIN h = 1 .. 1 /\ h[1] = head /\ Len(h) = 1
        BY <1>4, <2>2
      <3>2. 1 \in 1 .. Len(h) /\ \A j \in 1 .. Len(h) : j = 1
        BY <3>1
      <3>3. /\ mid \in Seq(Items) /\ DOMAIN out = 1 .. Len(out) /\ Len(out) \in Nat
            /\ DOMAIN mid = 1 .. Len(out) + Len(h)
            /\ \A i \in 1 .. Len(out) : mid[i] = out[i]
            /\ mid[Len(out) + 1] = h[1]
            /\ \A i \in DOMAIN mid :
                 \/ i \in 1 .. Len(out) /\ mid[i] = out[i]
                 \/ \E j \in 1 .. Len(h) : i = Len(out) + j /\ mid[i] = h[j]
        BY <1>3, <3>2, ConcatIs
      <3>4. \A i \in DOMAIN out : i \in DOMAIN mid /\ mid[i] = out[i]
        BY <3>1, <3>3
      <3>5. Len(out) + 1 \in DOMAIN mid /\ mid[Len(out) + 1] = head
        BY <3>1, <3>3
      <3> QED  BY <2>2, <3>1, <3>2, <3>3, <3>4, <3>5
    <2> QED  BY <2>1, <2>2
  <1>7. HeadThenBody(mid)
    <2>1. CASE r.state = "BODY"
      BY <1>4, <2>1, ConcatEmptySeq
    <2>2. CASE r.state # "BODY"
      BY <1>1, <1>2, <1>4, <2>2, HeadAdded DEF head
    <2> QED  BY <2>1, <2>2
  <1>8. \E i \in DOMAIN mid : mid[i][1] = "head" /\ mid[i][2] = n
    BY <1>2, <1>5, <1>6
  <1>9. p > 0 => \E i \in DOMAIN mid : mid[i] = <<"body", n, p>>
    <2>1. p > 0 => p \in 1 .. p
      BY <1>1
    <2> QED  BY <1>2, <1>6, <2>1, SMTT(30)
  <1>10. \A i \in DOMAIN mid : mid[i][2] = n /\ mid[i][1] # "head" => mid[i][3] <= p
    <2>1. \A i \in DOMAIN out : out[i][2] = n /\ out[i][1] # "head" => out[i][3] <= p
      BY <1>1, <1>2
    <2> QED  BY <1>5, <1>6, <2>1
  <1> HIDE DEF mid
  <1>11. HeadThenBody(all)
    BY <1>1, <1>2, <1>6, <1>7, <1>8, <1>9, <1>10, BodyAdded DEF b
  <1>12. /\ \A i \in DOMAIN mid : i \in DOMAIN all /\ all[i] = mid[i]
         /\ \A i \in DOMAIN all : \/ i \in DOMAIN mid /\ all[i] = mid[i]
                                  \/ \E k \in DOMAIN b : all[i] = b[k]
         /\ \A k \in DOMAIN b : \E i \in DOMAIN all : all[i] = b[k]
    <2>1. /\ DOMAIN mid = 1 .. Len(mid) /\ DOMAIN b = 1 .. Len(b)
          /\ Len(mid) \in Nat /\ Len(b) \in Nat
          /\ DOMAIN all = 1 .. Len(mid) + Len(b)
          /\ \A i \in 1 .. Len(mid) : all[i] = mid[i]
          /\ \A k \in 1 .. Len(b) : all[Len(mid) + k] = b[k]
          /\ \A i \in DOMAIN all :
               \/ i \in 1 .. Len(mid) /\ all[i] = mid[i]
               \/ \E k \in 1 .. Len(b) : i = Len(mid) + k /\ all[i] = b[k]
      BY <1>3, <1>6, ConcatIs
    <2> HIDE DEF all
    <2>2. \A i \in DOMAIN mid : i \in DOMAIN all /\ all[i] = mid[i]
      BY <2>1
    <2>3. \A k \in DOMAIN b : Len(mid) + k \in DOMAIN all /\ all[Len(mid) + k] = b[k]
      BY <2>1
    <2> QED  BY <2>1, <2>2, <2>3
  <1> HIDE DEF all
  <1>13. q.written - Len(q.buf) = r.written /\ DOMAIN q.buf = {} /\ Len(q.buf) = 0
    BY <1>1
  <1>14. ASSUME NEW i \in DOMAIN all, all[i][2] = n
         PROVE  IF all[i][1] = "head" THEN all[i][3] = r.set
                ELSE all[i][3] \in 1 .. r.written
    <2>1. CASE i \in DOMAIN mid /\ mid[i] = out[i] /\ i \in DOMAIN out
      <3>1. all[i] = out[i]
        BY <1>12, <2>1
      <3>2. \A e \in 1 .. p : e \in 1 .. r.written
        BY <1>1 DEF p
      <3> QED  BY <1>2, <1>14, <2>1, <3>1, <3>2
    <2>2. CASE r.state # "BODY" /\ all[i] = head
      BY <1>2, <1>5, <2>2
    <2>3. CASE \E k \in DOMAIN b : all[i] = b[k]
      <3>1. PICK k \in 1 .. Len(r.buf) : all[i] = <<"body", n, p + k>>
        BY <1>3, <2>3
      <3>2. p + k \in Nat /\ p + k \in 1 .. r.written
        BY <1>1 DEF p
      <3>3. all[i][1] = "body" /\ all[i][3] = p + k
        BY <1>5, <3>1, <3>2
      <3> QED  BY <3>2, <3>3
    <2> QED  BY <1>6, <1>12, <2>1, <2>2, <2>3
  <1>15. \E i \in DOMAIN all : all[i][1] = "head" /\ all[i][2] = n
    BY <1>8, <1>12
  <1>16. ASSUME NEW k \in 1 .. r.written
         PROVE  \E i \in DOMAIN all : all[i] = <<"body", n, k>>
    <2>1. CASE k \in 1 .. p
      BY <1>2, <1>6, <1>12, <2>1
    <2>2. CASE k \notin 1 .. p
      <3>1. k - p \in 1 .. Len(r.buf) /\ p + (k - p) = k
        <4>1. k \in Nat /\ k <= r.written /\ p < k
          BY <1>1, <2>2
        <4>2. r.written = p + Len(r.buf)
          BY <1>1 DEF p
        <4> QED  BY <1>1, <4>1, <4>2
      <3>2. b[k - p] = <<"body", n, k>>
        BY <1>3, <3>1
      <3> QED  BY <1>3, <1>12, <3>1, <3>2, ZenonT(30)
    <2> QED  BY <2>1, <2>2
  <1>17. ResponseOK(q, n, all, w)
    BY <1>1, <1>13, <1>14, <1>15, <1>16 DEF ResponseOK
  <1> QED  BY <1>11, <1>17 DEF all, mid, h, b

LEMMA OutMoves ==
  ASSUME NEW k, NEW x, NEW y, OutInv(x), Moves(x, y, k)
  PROVE  OutInv(y)
  <1>1. /\ y.out = x.out /\ DOMAIN y.res = DOMAIN x.res
        /\ \A n \in DOMAIN x.res : Alike(x.res[n], y.res[n])
        /\ Writes(y) => Writes(x)
        /\ Writes(x) \in BOOLEAN /\ Writes(y) \in BOOLEAN
    BY DEF Moves, Writes
  <1>2. \A n \in DOMAIN y.res : ResponseOK(y.res[n], n, y.out, Writes(y))
    BY <1>1, AlikeOK DEF OutInv
  <1> QED  BY <1>1, <1>2 DEF OutInv

LEMMA OutOpens ==
  ASSUME NEW k, NEW x \in Library, NEW y, OutInv(x), Opens(x, y, k)
  PROVE  OutInv(y)
  <1>1. /\ y.out = x.out /\ y.res = Append(x.res, NewResponse)
        /\ Writes(y) => Writes(x)
        /\ Writes(x) \in BOOLEAN /\ Writes(y) \in BOOLEAN
    BY DEF Opens, Writes
  <1>2. x.res \in Seq(ResponseType) /\ NewResponse \in ResponseType
    BY DEF Library, ResponseType, NewResponse
  <1>3. /\ DOMAIN x.res = 1 .. Len(x.res) /\ Len(x.res) \in Nat
        /\ DOMAIN y.res = 1 .. Len(x.res) + 1
        /\ \A n \in DOMAIN x.res : y.res[n] = x.res[n]
        /\ y.res[Len(x.res) + 1] = NewResponse
    BY <1>1, <1>2, AppendProperties, LenProperties
  <1>4. \A i \in DOMAIN x.out : x.out[i][2] \in 1 .. Len(x.res)
    BY <1>3 DEF OutInv
  <1>5. ASSUME NEW n \in DOMAIN x.res
        PROVE  ResponseOK(y.res[n], n, y.out, Writes(y))
    <2>1. Alike(x.res[n], y.res[n])
      BY <1>3 DEF Alike
    <2> QED  BY <1>1, <2>1, AlikeOK DEF OutInv
  <1>6. ResponseOK(NewResponse, Len(x.res) + 1, y.out, Writes(y))
    <2>1. /\ NewResponse.buf = <<>> /\ NewResponse.written = 0 /\ NewResponse.set = 0
          /\ NewResponse.cached = 0 /\ NewResponse.pending = 0
          /\ NewResponse.state = "STATUS"
      BY DEF NewResponse
    <2>2. NewResponse.written - Len(NewResponse.buf) = 0 /\ DOMAIN NewResponse.buf = {}
          /\ Len(NewResponse.buf) = 0
      <3>1. Len(<<>>) = 0 /\ DOMAIN <<>> = {} /\ 0 - 0 = 0
        OBVIOUS
      <3> QED  BY <2>1, <3>1, Zenon
    <2>3. \A i \in DOMAIN y.out : y.out[i][2] # Len(x.res) + 1
      BY <1>1, <1>3, <1>4
    <2> QED  BY <2>1, <2>2, <2>3 DEF ResponseOK
  <1>7. \A n \in DOMAIN y.res : n \in DOMAIN x.res \/ n = Len(x.res) + 1
    BY <1>3
  <1>8. \A n \in DOMAIN y.res : ResponseOK(y.res[n], n, y.out, Writes(y))
    BY <1>3, <1>5, <1>6, <1>7
  <1>9. \A i \in DOMAIN y.out : y.out[i][2] \in DOMAIN y.res
    BY <1>1, <1>3, <1>4
  <1> QED  BY <1>1, <1>8, <1>9 DEF OutInv

LEMMA OutResponds ==
  ASSUME NEW x \in Library, NEW y, NEW n \in DOMAIN x.res, OutInv(x),
         \/ SetsHeaders(x, y, n)
         \/ \E items \in {<<>>, <<x.res[n].written + 1>>} : Queues(x, y, n, items)
  PROVE  OutInv(y)
  <1>1. /\ Responds(x, y, n) /\ y.out = x.out
        /\ \/ HeadersChange(x.res[n], y.res[n])
           \/ \E items \in {<<>>, <<x.res[n].written + 1>>} :
                ItemsChange(x.res[n], y.res[n], items)
    BY DEF SetsHeaders, Queues
  <1>2. /\ y \in Library /\ DOMAIN y.res = DOMAIN x.res
        /\ \A m \in DOMAIN x.res : m # n => y.res[m] = x.res[m]
        /\ Writes(y) => Writes(x)
        /\ Writes(x) \in BOOLEAN /\ Writes(y) \in BOOLEAN
    BY <1>1 DEF Responds, Quiet, Writes
  <1>3. x.res[n] \in ResponseType /\ y.res[n] \in ResponseType
    BY <1>2 DEF Library
  <1>4. ResponseOK(x.res[n], n, x.out, Writes(x))
    BY DEF OutInv
  <1>5. ResponseOK(y.res[n], n, y.out, Writes(y))
    BY <1>1, <1>2, <1>3, <1>4, HeadersOK, QueuedOK
  <1>6. ASSUME NEW m \in DOMAIN x.res, m # n
        PROVE  ResponseOK(y.res[m], m, y.out, Writes(y))
    <2>1. Alike(x.res[m], y.res[m])
      BY <1>2, <1>6 DEF Alike
    <2> QED  BY <1>1, <1>2, <2>1, AlikeOK DEF OutInv
  <1> QED  BY <1>1, <1>2, <1>5, <1>6 DEF OutInv

LEMMA OutPassesOn ==
  ASSUME NEW x \in Library, NEW y, NEW n \in DOMAIN x.res, OutInv(x), PassesOn(x, y, n)
  PROVE  OutInv(y)
  <1> DEFINE r == x.res[n]
             q == y.res[n]
             h == HeadItem(r, n)
             b == BodyItems(r, n)
  <1>1. /\ Responds(x, y, n)
        /\ q.state = "BODY" /\ q.buf = <<>> /\ q.written = r.written /\ q.set = r.set
        /\ y.out = IF Writes(x) THEN (x.out \o h) \o b ELSE x.out
    BY DEF PassesOn
  <1>2. /\ y \in Library /\ DOMAIN y.res = DOMAIN x.res
        /\ \A m \in DOMAIN x.res : m # n => y.res[m] = x.res[m]
        /\ Writes(y) => Writes(x)
        /\ Writes(x) \in BOOLEAN /\ Writes(y) \in BOOLEAN
    BY <1>1 DEF Responds, Quiet, Writes
  <1>3. r \in ResponseType /\ x.out \in Seq(Items) /\ n \in Nat
    BY DEF Library
  <1>4. h \in Seq(Items) /\ b \in Seq(Items)
    BY <1>3, BodyItemsAre
  <1>5. /\ HeadThenBody(x.out) /\ ResponseOK(r, n, x.out, Writes(x))
        /\ \A i \in DOMAIN x.out : x.out[i][2] \in DOMAIN x.res
    BY DEF OutInv
  <1>6. ASSUME NEW m \in DOMAIN x.res, m # n
        PROVE  y.res[m] = x.res[m] /\ ResponseOK(x.res[m], m, x.out, Writes(x))
    BY <1>2, <1>6 DEF OutInv
  <1> HIDE DEF r, q
  <1>7. CASE ~Writes(x)
    <2>1. y.out = x.out
      BY <1>1, <1>7
    <2>2. ResponseOK(q, n, y.out, Writes(y))
      <3>1. /\ Len(r.buf) \in Nat /\ r.written \in Nat /\ r.written - Len(r.buf) \in Nat
        BY <1>3, <1>5, PassedIs DEF ResponseOK
      <3>2. /\ q.written - Len(q.buf) = r.written /\ DOMAIN q.buf = {} /\ Len(q.buf) = 0
        BY <1>1, <3>1
      <3>3. \A k \in 1 .. r.written - Len(r.buf) : k \in 1 .. r.written
        BY <3>1
      <3>4. \A i \in DOMAIN y.out : y.out[i][2] = n =>
              IF y.out[i][1] = "head" THEN y.out[i][3] = r.set
              ELSE y.out[i][3] \in 1 .. r.written
        BY <1>5, <2>1, <3>3 DEF ResponseOK
      <3> QED  BY <1>1, <1>2, <1>7, <3>1, <3>2, <3>4 DEF ResponseOK
    <2>3. \A m \in DOMAIN x.res : m # n => ResponseOK(y.res[m], m, y.out, Writes(y))
      <3>1. \A m \in DOMAIN x.res : Alike(x.res[m], x.res[m])
        BY DEF Alike
      <3> QED  BY <1>2, <1>6, <2>1, <3>1, AlikeOK
    <2> QED  BY <1>2, <1>5, <2>1, <2>2, <2>3 DEF OutInv, q
  <1>8. CASE Writes(x)
    <2>1. y.out = (x.out \o h) \o b
      BY <1>1, <1>8
    <2>2. HeadThenBody(y.out) /\ ResponseOK(q, n, y.out, Writes(y))
      <3>1. ResponseOK(r, n, x.out, TRUE)
        BY <1>5, <1>8 DEF ResponseOK
      <3> QED  BY <1>1, <1>2, <1>3, <1>5, <2>1, <3>1, WrittenOK
    <2>3. /\ \A i \in DOMAIN h : h[i][2] = n
          /\ \A i \in DOMAIN b : b[i][2] = n
      <3>1. \A c : <<"head", n, c>>[2] = n /\ <<"body", n, c>>[2] = n
        OBVIOUS
      <3>2. \A i \in DOMAIN b : b[i] = <<"body", n, r.buf[i]>>
        BY <1>3, BodyItemsAre DEF BodyItems
      <3>3. \A i \in DOMAIN h : h[i] = <<"head", n, r.cached + r.pending>>
        BY DEF HeadItem
      <3> QED  BY <3>1, <3>2, <3>3
    <2> HIDE DEF h, b
    <2>4. ASSUME NEW m \in DOMAIN x.res, m # n
          PROVE  ResponseOK(y.res[m], m, y.out, Writes(y))
      <3>1. x.out \o h \in Seq(Items)
        BY <1>3, <1>4, ConcatProperties
      <3>2. ResponseOK(x.res[m], m, x.out \o h, Writes(x))
        BY <1>2, <1>3, <1>4, <1>6, <2>3, <2>4, OthersOK
      <3>3. \A i \in DOMAIN b : b[i][2] # m
        BY <2>3, <2>4
      <3>4. ResponseOK(x.res[m], m, (x.out \o h) \o b, Writes(y))
        BY <1>2, <1>4, <3>1, <3>2, <3>3, OthersOK
      <3> QED  BY <1>6, <2>1, <2>4, <3>4
    <2>5. ASSUME NEW i \in DOMAIN y.out PROVE y.out[i][2] \in DOMAIN x.res
      <3>1. x.out \o h \in Seq(Items)
        BY <1>3, <1>4, ConcatProperties
      <3>2. \/ i \in DOMAIN (x.out \o h) /\ y.out[i] = (x.out \o h)[i]
            \/ \E j \in DOMAIN b : y.out[i] = b[j]
        <4> DEFINE mid == x.out \o h
        <4>1. mid \in Seq(Items) /\ y.out = mid \o b
          BY <2>1, <3>1
        <4> HIDE DEF mid
        <4>2. /\ DOMAIN mid = 1 .. Len(mid) /\ DOMAIN b = 1 .. Len(b)
              /\ \A j \in DOMAIN (mid \o b) :
                   \/ j \in 1 .. Len(mid) /\ (mid \o b)[j] = mid[j]
                   \/ \E l \in 1 .. Len(b) : j = Len(mid) + l /\ (mid \o b)[j] = b[l]
          BY <1>4, <4>1, ConcatIs
        <4>3. i \in DOMAIN (mid \o b)
          BY <4>1
        <4>4. \/ i \in DOMAIN mid /\ y.out[i] = mid[i]
              \/ \E j \in DOMAIN b : y.out[i] = b[j]
          BY <4>1, <4>2, <4>3, Zenon
        <4> QED  BY <4>4 DEF mid
      <3>3. \A j \in DOMAIN (x.out \o h) :
              \/ j \in DOMAIN x.out /\ (x.out \o h)[j] = x.out[j]
              \/ \E l \in DOMAIN h : (x.out \o h)[j] = h[l]
        BY <1>3, <1>4, ConcatIs, SMTT(30)
      <3>4. y.out[i][2] = n \/ \E j \in DOMAIN x.out : y.out[i] = x.out[j]
        BY <2>3, <3>2, <3>3
      <3> QED  BY <1>5, <3>4
    <2> QED  BY <1>2, <2>2, <2>4, <2>5 DEF OutInv, q
  <1> QED  BY <1>7, <1>8

LEMMA OutNext ==
  ASSUME Base, OutInv(lib), [Next]_vars
  PROVE  OutInv(lib')
  <1>1. CASE UNCHANGED vars
    BY <1>1 DEF vars
  <1>2. CASE Next
    <2>1. Step \/ DrainDone
      BY <1>2, Steps DEF Next
    <2>2. lib \in Library
      BY DEF Base, Typed
    <2>3. CASE Moves(lib, lib', got')
      BY <2>3, OutMoves
    <2>4. CASE Opens(lib, lib', got')
      BY <2>2, <2>4, OutOpens
    <2>5. ASSUME NEW n \in DOMAIN lib.res,
                 \/ SetsHeaders(lib, lib', n)
                 \/ \E items \in {<<>>, <<lib.res[n].written + 1>>} :
                      Queues(lib, lib', n, items)
          PROVE  OutInv(lib')
      BY <2>2, <2>5, OutResponds
    <2>6. ASSUME NEW n \in DOMAIN lib.res, NEW x,
                 Moves(lib, x, got'), x.res = lib.res, PassesOn(x, lib', n)
          PROVE  OutInv(lib')
      <3>1. OutInv(x) /\ x \in Library /\ n \in DOMAIN x.res
        BY <2>6, OutMoves DEF Moves, Typed
      <3> QED  BY <2>6, <3>1, OutPassesOn
    <2>7. CASE DrainDone
      <3>1. Only(lib, lib', {"record"})
        BY <2>7, DrainDoneIs DEF Base
      <3>2. /\ lib'.out = lib.out /\ lib'.res = lib.res /\ lib'.rd = lib.rd
            /\ lib'.finish = lib.finish /\ lib'.writeError = lib.writeError
        BY <3>1 DEF Only, Members
      <3> QED  BY <3>2 DEF OutInv, Writes
    <2> QED  BY <2>1, <2>3, <2>4, <2>5, <2>6, <2>7 DEF Step
  <1> QED  BY <1>1, <1>2

LEMMA OutIsInOrder ==
  ASSUME Base, OutInv(lib)
  PROVE  ResponseInOrder
  <1>1. HeadThenBody(lib.out)
    BY DEF OutInv
  <1>2. HeadersInHead(lib)
    <2>1. ASSUME NEW i \in DOMAIN lib.out, lib.out[i][1] = "head"
          PROVE  lib.out[i][3] = lib.res[lib.out[i][2]].set
      <3>1. ResponseOK(lib.res[lib.out[i][2]], lib.out[i][2], lib.out, Writes(lib))
        BY DEF OutInv
      <3> QED  BY <2>1, <3>1 DEF ResponseOK
    <2> QED  BY <2>1 DEF HeadersInHead
  <1>3. NothingDropped(lib)
    <2>1. ASSUME Writes(lib), NEW n \in DOMAIN lib.res, NEW k \in 1 .. lib.res[n].written
          PROVE  LET left == Len(lib.res[n].buf)
                     passed == lib.res[n].written - left
                 IN  /\ PassedOn(lib, n, k) <=> k <= passed
                     /\ k <= left => lib.res[n].buf[k] = passed + k
      <3> DEFINE r == lib.res[n]
                 passed == r.written - Len(r.buf)
      <3>1. /\ r \in ResponseType /\ Len(r.buf) <= r.written
            /\ \A l \in DOMAIN r.buf : r.buf[l] = passed + l
            /\ \A i \in DOMAIN lib.out :
                 lib.out[i][2] = n /\ lib.out[i][1] # "head" => lib.out[i][3] \in 1 .. passed
            /\ \A l \in 1 .. passed :
                 \E i \in DOMAIN lib.out : lib.out[i] = <<"body", n, l>>
        <4>1. lib.res \in Seq(ResponseType)
          BY DEF Base, Typed, Library
        <4>2. r \in ResponseType
          BY <2>1, <4>1
        <4>3. ResponseOK(r, n, lib.out, Writes(lib))
          BY <2>1 DEF OutInv
        <4> HIDE DEF r
        <4> QED  BY <2>1, <4>2, <4>3 DEF ResponseOK
      <3> HIDE DEF r
      <3>2. /\ Len(r.buf) \in Nat /\ DOMAIN r.buf = 1 .. Len(r.buf) /\ passed \in Nat
            /\ r.written \in Nat
        BY <3>1, PassedIs
      <3>3. k \in 1 .. r.written
        BY DEF r
      <3>4. k <= passed => PassedOn(lib, n, k)
        <4>1. k <= passed => k \in 1 .. passed
          BY <3>2, <3>3
        <4> QED  BY <3>1, <4>1 DEF PassedOn
      <3>5. PassedOn(lib, n, k) => k <= passed
        <4>1. SUFFICES ASSUME NEW i \in DOMAIN lib.out, lib.out[i] = <<"body", n, k>>
                       PROVE  k <= passed
          BY DEF PassedOn
        <4>2. lib.out[i][1] = "body" /\ lib.out[i][2] = n /\ lib.out[i][3] = k
          BY <4>1
        <4>3. k \in 1 .. passed
          BY <3>1, <4>2
        <4> QED  BY <3>2, <4>3
      <3>6. k <= Len(r.buf) => r.buf[k] = passed + k
        <4>1. k <= Len(r.buf) => k \in DOMAIN r.buf
          BY <3>2, <3>3
        <4> QED  BY <3>1, <4>1
      <3> QED  BY <3>4, <3>5, <3>6 DEF r
    <2> QED  BY <2>1 DEF NothingDropped
  <1> QED  BY <1>1, <1>2, <1>3 DEF ResponseInOrder

\* What the responses of a connection put into its socket, for any requests and
\* any calls: of each, one head that carries every header set before it, then
\* its writes in order, each once and none left out.
THEOREM ResponsesInOrder == Spec => []ResponseInOrder
  <1>1. Init => OutInv(lib)
    <2>1. NewConnection.out = <<>> /\ NewConnection.res = <<>>
      BY DEF NewConnection
    <2>2. DOMAIN NewConnection.out = {} /\ DOMAIN NewConnection.res = {}
      BY <2>1
    <2> QED  BY <2>2 DEF Init, OutInv, HeadThenBody
  <1>2. Base /\ OutInv(lib) /\ [Next]_vars => OutInv(lib)'
    BY OutNext DEF OutInv, Writes, ResponseOK, HeadThenBody, Before
  <1>3. Base /\ OutInv(lib) => ResponseInOrder
    BY OutIsInOrder
  <1> QED  BY <1>1, <1>2, <1>3, BaseInvariant, PTL DEF Spec
=============================================================================
