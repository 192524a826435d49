-------------------------- MODULE HttpExchangeFlow --------------------------
(***************************************************************************)
(* Proofs about HttpExchange: what a request hears, and that it flows with *)
(* its socket.                                                             *)
(***************************************************************************)
EXTENDS HttpExchangeProofs

\* How far inside a frame lies: functions call only those of a lower rank.
Rank(f) ==
  CASE f[1] = "user" -> 0
    [] f[1] = "pushedEnd" -> 2
    [] f[1] = "feed" -> 3
    [] f[1] = "pushed" -> IF f[2] = "req" THEN 2 ELSE 5
    [] f[1] \in {"emit", "clear", "end", "ended"} -> IF f[2] = "req" THEN 1 ELSE 4
    [] OTHER -> 6

\* A frame may lie on a stack: each frame of it ranks higher, but for the one of
\* a posted _read, which calls _emitData when its _doRead has returned.
Above(f, s) ==
  \A i \in DOMAIN s :
    Rank(f) < Rank(s[i]) \/ (i = Len(s) /\ s[i] = <<"emit", "sock">>)
Ordered(s) ==
  \A i, j \in DOMAIN s :
    i < j => Rank(s[i]) < Rank(s[j]) \/ (j = Len(s) /\ s[j] = <<"emit", "sock">>)

\* A stream that tells of its end has ended, and a request has then been heard.
EndInv(x) ==
  /\ Has(x.stack, <<"end", "req">>) => x.rd.req.ended /\ x.rd.req.buf = <<>>
  /\ Has(x.stack, <<"ended", "req">>) \/ x.rd.req.endEmitted => x.rd.req.ended

Runs(r) == r.flowing /\ ~r.destroyed /\ ~r.ended
Resumes(x) == Has(x.ticks, <<"read", "req">>)
Emitting(x) == Has(x.stack, <<"emit", "req">>) \/ Has(x.stack, <<"clear", "req">>)

\* A request that flows and holds something back is about to emit it, and if its
\* socket is paused it is about to resume it.
FlowInv(x) ==
  Runs(x.rd.req) =>
    /\ x.rd.req.buf # <<>> => Resumes(x) \/ Emitting(x)
    /\ ~x.rd.sock.flowing /\ ~x.rd.sock.destroyed => Resumes(x)

Feeding(x) == \E f : Has(x.stack, f) /\ f[1] = "feed"
\* The last units of n.
LastOf(q, n) == \A i \in DOMAIN q : q[i] = n - Len(q) + i

\* The parser has p units of the n that were read behind it: the others are those
\* it is being fed, or, when it is not being fed, those the socket holds.
ParserAt(x, n, p) ==
  /\ \A f : Has(x.stack, f) /\ f[1] = "feed" => LastOf(f[2], n) /\ p + Len(f[2]) = n
  /\ ~Feeding(x) =>
       IF Has(x.stack, <<"clear", "sock">>) THEN p = n
       ELSE LastOf(x.rd.sock.buf, n) /\ p + Len(x.rd.sock.buf) = n
FeedInv(x) == Feeding(x) => ~x.failed /\ Has(x.stack, <<"clear", "sock">>)

\* What the listeners have heard and what is kept for them.
Given(x, h) ==
  h.body \o IF Has(x.stack, <<"clear", "req">>) THEN <<>> ELSE x.rd.req.buf

Heads(p) == {i \in 1 .. p : input[i] = "head"}

GivenOK(q, p) ==
  /\ \A k \in DOMAIN q : q[k] \in 1 .. p /\ InBody(q[k])
  /\ \A k, l \in DOMAIN q : k < l => q[k] < q[l]
  /\ \A i \in 1 .. p : InBody(i) =>
       \A k \in DOMAIN q : i < q[k] => Has(q, i)

ParseInv(x, h, n, p) ==
  /\ ~x.failed => ParserAt(x, n, p)
  /\ \A j \in 1 .. p : input[j] # "bad"
  /\ ~x.rd.req.destroyed /\ (\E j \in 1 .. p : input[j] = "end") => x.rd.req.ended
  /\ GivenOK(Given(x, h), p)
  /\ ~x.rd.req.destroyed => \A i \in 1 .. p : InBody(i) => Has(Given(x, h), i)
  /\ x.rd.req.ended => \A i \in DOMAIN input : InBody(i) => Has(Given(x, h), i)
  /\ Len(x.res) <= Cardinality(Heads(p))
HeardInv(x, h) == h.end => x.rd.req.ended /\ x.rd.req.buf = <<>>

\* The frames that the invariants speak of.
Visible(f) ==
  \/ f[1] = "feed"
  \/ f[1] \in {"emit", "clear", "end", "ended"} /\ f[2] = "req"
  \/ f[1] = "clear" /\ f[2] = "sock"
Sees(x, y) == \A f : Visible(f) => (Has(x.stack, f) <=> Has(y.stack, f))

\* A step that leaves the flow and the data of the streams as they are.
Calm(x, y) ==
  /\ y.failed = x.failed /\ Len(y.res) = Len(x.res)
  /\ \A f \in {"flowing", "ended", "endEmitted", "buf"} : y.rd.req[f] = x.rd.req[f]
  /\ \A f \in {"flowing", "buf"} : y.rd.sock[f] = x.rd.sock[f]
  /\ x.rd.req.destroyed => y.rd.req.destroyed
  /\ x.rd.sock.destroyed => y.rd.sock.destroyed
  /\ Resumes(x) => Resumes(y)

-----------------------------------------------------------------------------
(* The order of the frames *)

LEMMA RankIs ==
  ASSUME NEW f
  PROVE  Rank(f) \in 0 .. 6
  BY DEF Rank

LEMMA RanksAre ==
  /\ Rank(<<"user">>) = 0 /\ Rank(<<"doRead">>) = 6 /\ Rank(<<"hup">>) = 6
  /\ Rank(<<"pushedEnd", "req">>) = 2 /\ Rank(<<"pushed", "req">>) = 2
  /\ Rank(<<"pushed", "sock">>) = 5
  /\ \A r : Rank(<<"feed", r>>) = 3 /\ Rank(<<"drain", r>>) = 6
  /\ \A e \in {"emit", "clear", "end", "ended"} :
       Rank(<<e, "req">>) = 1 /\ Rank(<<e, "sock">>) = 4
  BY DEF Rank

LEMMA OrderedPush ==
  ASSUME NEW S, NEW s \in Seq(S), NEW f \in S, Ordered(s), Above(f, s)
  PROVE  Ordered(<<f>> \o s)
  <1> DEFINE t == <<f>> \o s
  <1>1. /\ Len(s) \in Nat /\ DOMAIN s = 1 .. Len(s) /\ Len(t) = Len(s) + 1
        /\ DOMAIN t = 1 .. Len(s) + 1 /\ t[1] = f
        /\ \A i \in 1 .. Len(s) : t[i + 1] = s[i]
    OBVIOUS
  <1> HIDE DEF t
  <1>2. \A i \in DOMAIN t : i # 1 => i - 1 \in DOMAIN s /\ t[i] = s[i - 1]
    <2> TAKE i \in DOMAIN t
    <2> HAVE i # 1
    <2>1. i - 1 \in 1 .. Len(s) /\ (i - 1) + 1 = i
      BY <1>1
    <2> QED  BY <1>1, <2>1
  <1>3. ASSUME NEW i \in DOMAIN t, NEW j \in DOMAIN t, i < j
        PROVE  Rank(t[i]) < Rank(t[j]) \/ (j = Len(t) /\ t[j] = <<"emit", "sock">>)
    <2>1. j # 1 /\ j - 1 \in DOMAIN s /\ t[j] = s[j - 1]
      BY <1>1, <1>2, <1>3
    <2>2. j - 1 = Len(s) => j = Len(t)
      BY <1>1
    <2>3. CASE i = 1
      BY <1>1, <2>1, <2>2, <2>3 DEF Above
    <2>4. CASE i # 1
      <3>1. i - 1 \in DOMAIN s /\ t[i] = s[i - 1] /\ i - 1 < j - 1
        BY <1>1, <1>2, <1>3, <2>4
      <3> QED  BY <2>1, <2>2, <3>1 DEF Ordered
    <2> QED  BY <2>3, <2>4
  <1> QED  BY <1>3 DEF Ordered, t

LEMMA OrderedTail ==
  ASSUME NEW S, NEW s \in Seq(S), s # <<>>, Ordered(s)
  PROVE  Ordered(Tail(s)) /\ Above(Head(s), Tail(s))
  <1> DEFINE t == Tail(s)
  <1>1. /\ Len(s) \in Nat /\ DOMAIN s = 1 .. Len(s) /\ Len(t) = Len(s) - 1
        /\ DOMAIN t = 1 .. Len(s) - 1 /\ Head(s) = s[1] /\ 1 \in DOMAIN s
        /\ \A i \in 1 .. Len(s) - 1 : t[i] = s[i + 1]
    OBVIOUS
  <1> HIDE DEF t
  <1>2. \A i \in DOMAIN t : /\ i + 1 \in DOMAIN s /\ t[i] = s[i + 1] /\ 1 < i + 1
                            /\ (i + 1 = Len(s) => i = Len(t))
    BY <1>1
  <1>3. \A i, j \in DOMAIN t : i < j => i + 1 < j + 1
    BY <1>1
  <1>4. Ordered(t)
    BY <1>2, <1>3 DEF Ordered
  <1>5. Above(Head(s), t)
    BY <1>1, <1>2 DEF Ordered, Above
  <1> QED  BY <1>4, <1>5 DEF t

LEMMA AboveHas ==
  ASSUME NEW s, NEW f, NEW g, Above(f, s), Has(s, g), g # <<"emit", "sock">>
  PROVE  Rank(f) < Rank(g)
  BY DEF Above, Has

LEMMA AboveLower ==
  ASSUME NEW s, NEW f, NEW g, Above(f, s), Rank(g) <= Rank(f)
  PROVE  Above(g, s)
  <1>1. \A h : Rank(f) < Rank(h) => Rank(g) < Rank(h)
    BY RankIs
  <1> QED  BY <1>1 DEF Above

LEMMA AboveEmpty ==
  ASSUME NEW f
  PROVE  Above(f, <<>>) /\ Ordered(<<>>)
  BY DEF Above, Ordered

\* A frame of a higher rank may be called in between.
LEMMA AbovePush ==
  ASSUME NEW S, NEW s \in Seq(S), NEW g \in S, NEW f, Above(f, s), Rank(f) < Rank(g)
  PROVE  Above(f, <<g>> \o s)
  <1> DEFINE t == <<g>> \o s
  <1>1. /\ Len(s) \in Nat /\ DOMAIN s = 1 .. Len(s) /\ Len(t) = Len(s) + 1
        /\ DOMAIN t = 1 .. Len(s) + 1 /\ t[1] = g
        /\ \A i \in 1 .. Len(s) : t[i + 1] = s[i]
    OBVIOUS
  <1> HIDE DEF t
  <1>2. ASSUME NEW i \in DOMAIN t
        PROVE  Rank(f) < Rank(t[i]) \/ (i = Len(t) /\ t[i] = <<"emit", "sock">>)
    <2>1. CASE i = 1
      BY <1>1, <2>1
    <2>2. CASE i # 1
      <3>1. i - 1 \in DOMAIN s /\ (i - 1) + 1 = i
        BY <1>1, <2>2
      <3>2. t[i] = s[i - 1] /\ (i - 1 = Len(s) => i = Len(t))
        BY <1>1, <3>1
      <3> QED  BY <3>1, <3>2 DEF Above
    <2> QED  BY <2>1, <2>2
  <1> QED  BY <1>2 DEF Above, t

-----------------------------------------------------------------------------
(* Steps that leave the flow and the data alone *)

LEMMA HiddenFrames ==
  /\ ~Visible(<<"user">>) /\ ~Visible(<<"doRead">>) /\ ~Visible(<<"hup">>)
  /\ ~Visible(<<"pushedEnd", "req">>) /\ ~Visible(<<"pushed", "req">>)
  /\ ~Visible(<<"pushed", "sock">>) /\ ~Visible(<<"emit", "sock">>)
  /\ ~Visible(<<"end", "sock">>) /\ ~Visible(<<"ended", "sock">>)
  /\ \A n : ~Visible(<<"drain", n>>)
  BY DEF Visible

LEMMA VisibleFrames ==
  /\ \A e \in {"emit", "clear", "end", "ended"} : Visible(<<e, "req">>)
  /\ Visible(<<"clear", "sock">>)
  /\ \A f : f[1] = "feed" => Visible(f)
  BY DEF Visible

LEMMA SeesTwice ==
  ASSUME NEW x, NEW y, NEW z, Sees(x, y), Sees(y, z)
  PROVE  Sees(x, z)
  BY DEF Sees

LEMMA CalmTwice ==
  ASSUME NEW x, NEW y, NEW z, Calm(x, y), Calm(y, z)
  PROVE  Calm(x, z)
  BY DEF Calm

LEMMA SeesCall ==
  ASSUME NEW x \in Library, NEW f \in Frames, ~Visible(f)
  PROVE  Sees(x, Call(x, f))
  <1>1. x.stack \in Seq(Frames) /\ Call(x, f).stack = <<f>> \o x.stack
    BY CallIs DEF Library
  <1>2. \A g : Has(<<f>> \o x.stack, g) <=> Has(x.stack, g) \/ g = f
    BY <1>1, HasPush
  <1> QED  BY <1>1, <1>2 DEF Sees

LEMMA SeesPop ==
  ASSUME NEW x \in Library, x.stack # <<>>, ~Visible(Head(x.stack))
  PROVE  Sees(x, Pop(x))
  <1>1. x.stack \in Seq(Frames) /\ Pop(x).stack = Tail(x.stack)
    BY PopIs DEF Library
  <1>2. \A g : Has(x.stack, g) <=> Has(Tail(x.stack), g) \/ g = Head(x.stack)
    BY <1>1, HasTail
  <1> QED  BY <1>1, <1>2 DEF Sees

LEMMA CalmOnly ==
  ASSUME NEW x \in Library, NEW y,
         Only(x, y, {"hup", "finish", "shut", "notified", "writeError", "wantWrite",
                     "record", "out", "sent", "ticks", "stack", "thrown", "late",
                     "aborted"}),
         Resumes(x) => Resumes(y)
  PROVE  Calm(x, y)
  <1>1. y.rd = x.rd /\ y.failed = x.failed /\ y.res = x.res
    BY DEF Only, Members
  <1> QED  BY <1>1 DEF Calm

LEMMA CalmStack ==
  ASSUME NEW x \in Library, NEW y, Only(x, y, {"stack"})
  PROVE  Calm(x, y)
  <1>1. y.ticks = x.ticks
    BY DEF Only, Members
  <1>2. Only(x, y, {"hup", "finish", "shut", "notified", "writeError", "wantWrite",
                    "record", "out", "sent", "ticks", "stack", "thrown", "late",
                    "aborted"})
    BY DEF Only
  <1> QED  BY <1>1, <1>2, CalmOnly DEF Resumes

LEMMA SameLen ==
  ASSUME NEW S, NEW T, NEW s \in Seq(S), NEW t \in Seq(T), DOMAIN s = DOMAIN t
  PROVE  Len(s) = Len(t)
  <1>1. /\ Len(s) \in Nat /\ Len(t) \in Nat
        /\ DOMAIN s = 1 .. Len(s) /\ DOMAIN t = 1 .. Len(t)
    OBVIOUS
  <1>2. \A m, n \in Nat : 1 .. m = 1 .. n => m = n
    <2> TAKE m, n \in Nat
    <2> HAVE 1 .. m = 1 .. n
    <2>1. \A i \in Nat : 1 <= i /\ i <= m <=> 1 <= i /\ i <= n
      OBVIOUS
    <2>2. (m = 0 \/ m <= n) /\ (n = 0 \/ n <= m)
      BY <2>1
    <2>3. m = 0 => n = 0
      <3>1. n # 0 => 1 <= 1 /\ 1 <= n
        OBVIOUS
      <3> QED  BY <2>1, <3>1
    <2> QED  BY <2>1, <2>2, <2>3
  <1> QED  BY <1>1, <1>2

LEMMA CalmQuiet ==
  ASSUME NEW x \in Library, NEW y, Quiet(x, y)
  PROVE  Calm(x, y) /\ y.stack = x.stack /\ y \in Library
  <1>1. /\ y \in Library /\ DOMAIN y.res = DOMAIN x.res /\ y.rd.req = x.rd.req
        /\ y.failed = x.failed /\ y.stack = x.stack
        /\ \A t : Has(x.ticks, t) => Has(y.ticks, t)
    BY DEF Quiet, Posted
  <1>2. Len(y.res) = Len(x.res)
    <2>1. y.res \in Seq(ResponseType) /\ x.res \in Seq(ResponseType)
      BY <1>1 DEF Library
    <2> QED  BY <1>1, <2>1, SameLen
  <1>3. x.rd.sock \in ReadableType
    BY DEF Library
  <1>4. /\ \A f \in {"flowing", "buf"} : y.rd.sock[f] = x.rd.sock[f]
        /\ x.rd.sock.destroyed => y.rd.sock.destroyed
    BY <1>3 DEF Quiet, ReadableType
  <1> QED  BY <1>1, <1>2, <1>4 DEF Calm, Resumes

\* A calm step whose frames are in their order.
Inert(x, y) == Calm(x, y) /\ Sees(x, y) /\ Ordered(y.stack) /\ y \in Library

LEMMA InertQuiet ==
  ASSUME NEW x \in Library, NEW y, Ordered(x.stack), Quiet(x, y)
  PROVE  Inert(x, y) /\ y.stack = x.stack
  BY CalmQuiet DEF Inert, Sees

LEMMA InertTwice ==
  ASSUME NEW x, NEW y, NEW z, Inert(x, y), Inert(y, z)
  PROVE  Inert(x, z)
  BY SeesTwice, CalmTwice DEF Inert

LEMMA InertCall ==
  ASSUME NEW x \in Library, Ordered(x.stack), NEW f \in Frames, Above(f, x.stack),
         ~Visible(f)
  PROVE  Inert(x, Call(x, f))
  <1>1. /\ x.stack \in Seq(Frames) /\ Call(x, f).stack = <<f>> \o x.stack
        /\ Only(x, Call(x, f), {"stack"}) /\ Call(x, f) \in Library
    BY CallIs DEF Library
  <1>2. Ordered(<<f>> \o x.stack)
    BY <1>1, OrderedPush
  <1> QED  BY <1>1, <1>2, SeesCall, CalmStack DEF Inert

LEMMA InertUser ==
  ASSUME NEW x \in Library, Ordered(x.stack), Above(<<"user">>, x.stack)
  PROVE  Inert(x, User(x))
  <1>1. Inert(x, x)
    BY DEF Inert, Calm, Sees
  <1>2. Inert(x, Call(x, <<"user">>))
    BY InertCall, HiddenFrames, SomeFrames
  <1> QED  BY <1>1, <1>2 DEF User

\* The innermost function returns.
LEMMA PopOrder ==
  ASSUME NEW x \in Library, x.stack # <<>>, Ordered(x.stack)
  PROVE  /\ Pop(x) \in Library /\ Only(x, Pop(x), {"stack"})
         /\ Pop(x).stack = Tail(x.stack)
         /\ Ordered(Pop(x).stack) /\ Above(Head(x.stack), Pop(x).stack)
         /\ Calm(x, Pop(x))
         /\ ~Visible(Head(x.stack)) => Inert(x, Pop(x))
  <1>1. /\ Pop(x) \in Library /\ Only(x, Pop(x), {"stack"})
        /\ Pop(x).stack = Tail(x.stack) /\ x.stack \in Seq(Frames)
    BY PopIs DEF Library
  <1>2. Ordered(Tail(x.stack)) /\ Above(Head(x.stack), Tail(x.stack))
    BY <1>1, OrderedTail
  <1>3. Calm(x, Pop(x))
    BY <1>1, CalmStack
  <1> QED  BY <1>1, <1>2, <1>3, SeesPop DEF Inert

LEMMA InertDoWrite ==
  ASSUME NEW x \in Library, x.sent <= Len(x.out), NEW taken \in Takes(x),
         Ordered(x.stack), Above(<<"user">>, x.stack)
  PROVE  Inert(x, DoWrite(x, taken))
  <1>1. x.sent \in Nat /\ Len(x.out) \in Nat
    BY LenProperties DEF Library
  <1>2. taken \in Nat /\ x.sent + taken <= Len(x.out)
    BY <1>1 DEF Takes
  <1>3. PICK z \in Library :
          Quiet(x, z) /\ (DoWrite(x, taken) = z \/ DoWrite(x, taken) = User(z))
    BY <1>1, <1>2, DoWriteIs
  <1>4. Inert(x, z) /\ z.stack = x.stack
    BY <1>3, InertQuiet
  <1>5. Inert(z, User(z))
    BY <1>4, InertUser
  <1> QED  BY <1>3, <1>4, <1>5, InertTwice

LEMMA InertListeners ==
  ASSUME NEW x \in Library, Ordered(x.stack), NEW n, Above(<<"drain", n>>, x.stack)
  PROVE  Inert(x, Listeners(x, n))
  <1>1. Inert(x, x)
    BY DEF Inert, Calm, Sees
  <1>2. ASSUME n \in DOMAIN x.res PROVE Inert(x, Call(x, <<"drain", n>>))
    <2>1. n \in Nat
      BY <1>2 DEF Library
    <2> QED  BY <2>1, InertCall, HiddenFrames, SomeFrames
  <1> QED  BY <1>1, <1>2 DEF Listeners

LEMMA IdleOrder ==
  ASSUME Idle
  PROVE  Ordered(lib.stack) /\ \A f : Above(f, lib.stack)
  BY AboveEmpty DEF Idle

LEMMA InertTick ==
  ASSUME NEW x \in Library, Ordered(x.stack), NEW t \in Posts
  PROVE  Inert(x, NextTick(x, t))
  <1>1. /\ NextTick(x, t) \in Library /\ Only(x, NextTick(x, t), {"ticks"})
        /\ Posted(x, NextTick(x, t), {t})
    BY NextTickIs
  <1>2. NextTick(x, t).stack = x.stack
    BY <1>1 DEF Only, Members
  <1>3. Only(x, NextTick(x, t),
             {"hup", "finish", "shut", "notified", "writeError", "wantWrite",
              "record", "out", "sent", "ticks", "stack", "thrown", "late",
              "aborted"})
    BY <1>1 DEF Only
  <1>4. Calm(x, NextTick(x, t))
    BY <1>1, <1>3, CalmOnly DEF Posted, Resumes
  <1> QED  BY <1>1, <1>2, <1>4 DEF Inert, Sees

\* The call is noted.
LEMMA InertLate ==
  ASSUME NEW x, NEW y, Inert(x, y), NEW b \in BOOLEAN
  PROVE  Inert(x, [y EXCEPT !.late = b])
  <1> DEFINE z == [y EXCEPT !.late = b]
  <1>1. z \in Library /\ Only(y, z, {"late"})
    BY DEF Inert, Library, Only, Members
  <1> HIDE DEF z
  <1>2. /\ z.rd = y.rd /\ z.failed = y.failed /\ z.res = y.res /\ z.ticks = y.ticks
        /\ z.stack = y.stack
    BY <1>1 DEF Only, Members
  <1>3. Inert(y, z)
    BY <1>1, <1>2 DEF Inert, Calm, Sees, Resumes
  <1> QED  BY <1>3, InertTwice DEF z

LEMMA CallsAreInert ==
  ASSUME Base, Ordered(lib.stack), WriteCall \/ HeaderCall \/ DestroyCall
  PROVE  Inert(lib, lib')
  <1>1. /\ lib \in Library
        /\ \A n \in Responses : n \in DOMAIN lib.res
    BY DEF Base, Typed, Responses
  <1>7. ASSUME NEW next, Api(next), Inert(lib, next) PROVE Inert(lib, lib')
    <2>1. lib' = [next EXCEPT !.late = lib.record = "gone"]
      BY <1>7 DEF Api
    <2> QED  BY <1>7, <2>1, InertLate
  <1>2. CASE WriteCall
    <2>1. PICK n \in Responses :
            \/ Api(Write(lib, n, <<lib.res[n].written + 1>>))
            \/ Api(End(lib, n, <<lib.res[n].written + 1>>))
            \/ Api(End(lib, n, <<>>))
      BY <1>2 DEF WriteCall
    <2>2. n \in DOMAIN lib.res /\ lib.res[n].written + 1 \in Nat
      <3>1. n \in DOMAIN lib.res /\ lib.res[n] \in ResponseType
        BY <1>1 DEF Library
      <3> QED  BY <3>1 DEF ResponseType
    <2>3. <<lib.res[n].written + 1>> \in Seq(Nat) /\ <<>> \in Seq(Nat)
      BY <2>2
    <2>4. PICK items \in Seq(Nat) : Api(Write(lib, n, items)) \/ Api(End(lib, n, items))
      BY <2>1, <2>3
    <2>5. Queues(lib, Write(lib, n, items), n, items) /\ Queues(lib, End(lib, n, items), n, items)
      BY <1>1, <2>2, <2>4, ItemsAreQueued
    <2>6. Inert(lib, Write(lib, n, items)) /\ Inert(lib, End(lib, n, items))
      BY <1>1, <2>5, InertQuiet DEF Queues, Responds
    <2> QED  BY <1>7, <2>4, <2>6
  <1>3. CASE HeaderCall
    <2>1. PICK n \in Responses :
            Api(SetHeader(lib, n)) \/ Api(FlushHeaders(lib, n)) \/ Api(WriteHead(lib, n))
      BY <1>3 DEF HeaderCall
    <2>2. /\ SetsHeaders(lib, SetHeader(lib, n), n) /\ SetsHeaders(lib, FlushHeaders(lib, n), n)
          /\ SetsHeaders(lib, WriteHead(lib, n), n)
      BY <1>1, HeadersAreSet
    <2>3. /\ Inert(lib, SetHeader(lib, n)) /\ Inert(lib, FlushHeaders(lib, n))
          /\ Inert(lib, WriteHead(lib, n))
      BY <1>1, <2>2, InertQuiet DEF SetsHeaders, Responds
    <2> QED  BY <1>7, <2>1, <2>3
  <1>4. CASE \E n \in Responses : Api(ResponseDestroy(lib, n))
    <2>1. PICK n \in DOMAIN lib.res : Api(ResponseDestroy(lib, n))
      BY <1>1, <1>4
    <2>2. Leaves(lib, ResponseDestroy(lib, n), n)
      BY <1>1, ResponseDestroyIs
    <2>3. Inert(lib, ResponseDestroy(lib, n))
      BY <1>1, <2>2, InertQuiet DEF Leaves, Responds
    <2> QED  BY <1>7, <2>1, <2>3
  <1>5. CASE Api(SockDestroy(lib)) \/ Api(SockEnd(lib))
    BY <1>1, <1>5, <1>7, SockDestroyIs, SockEndIs, InertQuiet
  <1>6. CASE Api(RequestDestroy(lib))
    <2> DEFINE w == RequestDestroy(lib)
    <2>2. CASE lib.rd.req.destroyed
      <3>1. w = lib
        BY <2>2 DEF RequestDestroy
      <3> QED  BY <1>1, <1>6, <1>7, <3>1, InertQuiet, QuietSelf
    <2>4. CASE ~lib.rd.req.destroyed /\ lib.record = "gone"
      <3>1. w = Abort(lib, "destroy")
        BY <2>4 DEF RequestDestroy, WithSocket
      <3>2. Quiet(lib, w)
        BY <1>1, <2>4, <3>1, QuietAbort DEF Asserts
      <3> QED  BY <1>1, <1>6, <1>7, <3>2, InertQuiet
    <2>3. CASE ~lib.rd.req.destroyed /\ lib.record # "gone"
      <3> DEFINE v == SockDestroy(lib)
                 y == [v EXCEPT !.rd.req.destroyed = TRUE]
      <3>1. Inert(lib, v) /\ v.stack = lib.stack
        BY <1>1, SockDestroyIs, InertQuiet
      <3>2. v \in Library
        BY <3>1 DEF Inert
      <3> HIDE DEF v
      <3>3. /\ y \in Library /\ Only(v, y, {"rd"}) /\ y.rd.sock = v.rd.sock
            /\ y.rd.req = [v.rd.req EXCEPT !.destroyed = TRUE]
        BY <3>2 DEF Library, ReadableType, Only, Members
      <3>4. v.rd.req \in ReadableType
        BY <3>2 DEF Library
      <3>5. w = NextTick(y, <<"emit", "close">>)
        BY <2>3 DEF RequestDestroy, WithSocket, v
      <3> HIDE DEF y
      <3>6. /\ y.failed = v.failed /\ y.res = v.res /\ y.ticks = v.ticks
            /\ y.stack = v.stack
        BY <3>3 DEF Only, Members
      <3>7. Calm(v, y)
        BY <3>3, <3>4, <3>6 DEF Calm, Resumes, ReadableType
      <3>8. Inert(v, y)
        BY <3>1, <3>3, <3>6, <3>7 DEF Inert, Sees
      <3> HIDE DEF w
      <3>9. Inert(y, w)
        BY <3>3, <3>5, <3>8, InertTick, SomePosts DEF Inert
      <3>10. Inert(lib, w)
        BY <3>1, <3>8, <3>9, InertTwice
      <3> QED  BY <1>6, <1>7, <3>10 DEF w
    <2> QED  BY <2>2, <2>3, <2>4
  <1> QED  BY <1>2, <1>3, <1>4, <1>5, <1>6 DEF DestroyCall

\* What a posted callback starts with.
LEMMA TickIs ==
  ASSUME NEW x \in Library, x.ticks # <<>>, Ordered(x.stack)
  PROVE  /\ Next_(x) \in Library /\ Only(x, Next_(x), {"ticks"})
         /\ Head(x.ticks) \in Posts
         /\ Head(x.ticks) # <<"read", "req">> => Inert(x, Next_(x))
  <1>1. /\ Next_(x) \in Library /\ Only(x, Next_(x), {"ticks"})
        /\ Head(x.ticks) \in Posts
        /\ \A t : Has(x.ticks, t) <=> Has(Next_(x).ticks, t) \/ t = Head(x.ticks)
    BY TickTakenIs
  <1>2. Next_(x).stack = x.stack
    BY <1>1 DEF Only, Members
  <1>3. Only(x, Next_(x),
             {"hup", "finish", "shut", "notified", "writeError", "wantWrite",
              "record", "out", "sent", "ticks", "stack", "thrown", "late",
              "aborted"})
    BY <1>1 DEF Only
  <1>4. ASSUME Head(x.ticks) # <<"read", "req">> PROVE Calm(x, Next_(x))
    BY <1>1, <1>3, <1>4, CalmOnly DEF Resumes
  <1> QED  BY <1>1, <1>2, <1>4 DEF Inert, Sees

LEMMA TicksAreInert ==
  ASSUME Base, RunTick, Head(lib.ticks) # <<"read", "req">>
  PROVE  Inert(lib, lib')
  <1> DEFINE t == Head(lib.ticks)
             x == Next_(lib)
  <1>1. /\ lib \in Library /\ lib.ticks # <<>> /\ lib.sent <= Len(lib.out)
        /\ lib.stack = <<>> /\ Ordered(lib.stack)
    BY IdleOrder DEF Base, Typed, RunTick, Idle
  <1>2. /\ x \in Library /\ Only(lib, x, {"ticks"}) /\ t \in Posts /\ Inert(lib, x)
    BY <1>1, TickIs
  <1>3. IF t = <<"sockWrite">>
        THEN \E taken \in Takes(x) : lib' = DoWrite([x EXCEPT !.notified = FALSE], taken)
        ELSE lib' = Tick(x, t)
    BY DEF RunTick
  <1>4. t # <<"read", "req">>
    OBVIOUS
  <1> HIDE DEF x, t
  <1>5. /\ x.stack = <<>> /\ x.sent = lib.sent /\ x.out = lib.out /\ x.rd = lib.rd
        /\ x.res = lib.res
        /\ Ordered(x.stack) /\ \A f : Above(f, x.stack)
    BY <1>1, <1>2, AboveEmpty DEF Only, Members
  <1>6. CASE t = <<"sockWrite">>
    <2> DEFINE y == [x EXCEPT !.notified = FALSE]
    <2>1. y \in Library /\ Only(x, y, {"notified"})
      BY <1>2 DEF Library, Only, Members
    <2>2. PICK taken \in Takes(x) : lib' = DoWrite(y, taken)
      BY <1>3, <1>6
    <2> HIDE DEF y
    <2>3. /\ y.sent = x.sent /\ y.out = x.out /\ y.stack = x.stack /\ y.rd = x.rd
          /\ y.ticks = x.ticks /\ y.failed = x.failed /\ y.res = x.res
      BY <2>1 DEF Only, Members
    <2>4. Inert(x, y)
      BY <1>5, <2>1, <2>3 DEF Inert, Calm, Sees, Resumes
    <2>5. taken \in Takes(y) /\ y.sent <= Len(y.out)
      BY <1>1, <1>5, <2>2, <2>3 DEF Takes
    <2>6. Inert(y, lib')
      BY <1>5, <2>1, <2>2, <2>3, <2>5, InertDoWrite
    <2> QED  BY <1>2, <2>4, <2>6, InertTwice
  <1>7. CASE t = <<"read", "sock">>
    <2> DEFINE y == Call(x, <<"emit", "sock">>)
    <2>1. lib' = Call(y, <<"doRead">>)
      BY <1>3, <1>7 DEF Tick
    <2>2. <<"emit", "sock">> \in Frames /\ <<"doRead">> \in Frames
      BY SomeFrames DEF Streams
    <2>3. Inert(x, y) /\ y.stack = <<<<"emit", "sock">>>> \o <<>>
      BY <1>2, <1>5, <2>2, InertCall, CallIs, HiddenFrames
    <2>4. y.stack = <<<<"emit", "sock">>>> /\ y \in Library
      BY <2>3 DEF Inert
    <2> HIDE DEF y
    <2>5. Above(<<"doRead">>, y.stack)
      BY <2>4 DEF Above
    <2>6. Inert(y, lib')
      BY <2>1, <2>2, <2>3, <2>4, <2>5, InertCall, HiddenFrames DEF Inert
    <2> QED  BY <1>2, <2>3, <2>6, InertTwice
  <1>8. CASE t = <<"sockDrain">>
    <2>1. lib' = Listeners(x, 1)
      BY <1>3, <1>8 DEF Tick
    <2> QED  BY <1>2, <1>5, <2>1, InertListeners, InertTwice
  <1>9. CASE t[1] = "write"
    <2> DEFINE n == t[2]
    <2>1. lib' = ResponseWrite(x, n) /\ t = <<"write", n>>
      BY <1>2, <1>3, <1>9 DEF Tick, Posts
    <2>2. n \in DOMAIN x.res
      <3>1. Has(lib.ticks, t)
        BY <1>1, HasTail DEF Library, t
      <3> QED  BY <1>5, <2>1, <3>1 DEF Base, Typed
    <2>3. Leaves(x, lib', n) \/ PassesOn(x, lib', n)
      BY <1>2, <2>1, <2>2, ResponseWriteIs
    <2>4. Quiet(x, lib')
      BY <2>3 DEF Leaves, PassesOn, Responds
    <2> QED  BY <1>2, <1>5, <2>4, InertQuiet, InertTwice
  <1>10. CASE t[1] = "emit"
    <2>1. lib' = x \/ lib' = User(x)
      BY <1>2, <1>3, <1>10 DEF Tick
    <2> QED  BY <1>2, <1>5, <2>1, InertUser, InertTwice
  <1>11. \/ t = <<"sockWrite">> \/ t = <<"sockDrain">> \/ t = <<"read", "sock">>
         \/ t[1] = "write" \/ t[1] = "emit"
    BY <1>2, <1>4 DEF Posts, Streams
  <1> QED  BY <1>6, <1>7, <1>8, <1>9, <1>10, <1>11

LEMMA ReturnsAreInert ==
  ASSUME Base, Ordered(lib.stack),
         Return \/ DrainStep \/ ReadBlocks \/ ReadFails \/ ReadOver \/ HangUp \/ ReadEnd
  PROVE  Inert(lib, lib')
  <1> DEFINE x == Pop(lib)
  <1>1. Typed(lib, got) /\ lib \in Library /\ lib.sent <= Len(lib.out)
    BY DEF Base, Typed
  <1>2. Top[1] \in {"user", "drain", "doRead", "hup"}
    BY DEF Return, DrainStep, ReadBlocks, ReadFails, ReadOver, HangUp, ReadEnd
  <1>3. lib.stack # <<>> /\ Top = Head(lib.stack) /\ Top \in Frames
    BY <1>1, <1>2, TopIs DEF FrameOK
  <1>4. Top \in {<<"user">>, <<"doRead">>, <<"hup">>} \/ Top = <<"drain", Top[2]>>
    BY <1>2, <1>3, FrameIs
  <1>5. ~Visible(Top)
    BY <1>4, HiddenFrames
  <1>6. /\ x \in Library /\ Inert(lib, x) /\ Ordered(x.stack) /\ Above(Top, x.stack)
        /\ Only(lib, x, {"stack"})
    BY <1>1, <1>3, <1>5, PopOrder
  <1>7. Above(<<"user">>, x.stack)
    <2>1. Rank(<<"user">>) <= Rank(Top)
      BY RanksAre, RankIs
    <2> QED  BY <1>6, <2>1, AboveLower
  <1>8. x.sent = lib.sent /\ x.out = lib.out /\ x.rd = lib.rd /\ x.res = lib.res
    BY <1>6 DEF Only, Members
  <1> HIDE DEF x
  <1>9. CASE Return \/ ReadBlocks \/ ReadOver
    BY <1>6, <1>9 DEF Return, ReadBlocks, ReadOver, x
  <1>10. CASE ReadFails
    <2>1. Inert(x, User(x))
      BY <1>6, <1>7, InertUser
    <2> QED  BY <1>6, <1>10, <2>1, InertTwice DEF ReadFails, x
  <1>11. CASE DrainStep
    <2> DEFINE n == Top[2]
               y == Listeners(x, n + 1)
    <2>1. Top[1] = "drain" /\ lib' = OnDrain(y, n)
      BY <1>11 DEF DrainStep, x
    <2>2. n \in DOMAIN lib.res
      BY <1>1, <2>1, TopIs DEF FrameOK
    <2>3. Top = <<"drain", n>>
      BY <1>3, <2>1, FrameIs
    <2> HIDE DEF n
    <2>4. Above(<<"drain", n + 1>>, x.stack)
      <3>1. Rank(<<"drain", n + 1>>) <= Rank(Top)
        BY <2>3, RanksAre
      <3> QED  BY <1>6, <3>1, AboveLower
    <2>5. Inert(x, y)
      BY <1>6, <2>4, InertListeners
    <2>6. y \in Library /\ Ordered(y.stack)
      BY <2>5 DEF Inert
    <2>7. n \in DOMAIN y.res
      <3>1. y.res = x.res
        <4>1. n \in Nat /\ n + 1 \in Nat
          BY <1>1, <2>2 DEF Library
        <4>2. Typed(x, got)
          BY <1>1, <2>1, TopIs DEF x
        <4> QED  BY <4>1, <4>2, MovesListeners
      <3> QED  BY <1>8, <2>2, <3>1
    <2> HIDE DEF y
    <2>8. Quiet(y, OnDrain(y, n))
      BY <2>6, <2>7, OnDrainIs DEF Leaves, Responds
    <2>9. Inert(y, lib')
      BY <2>1, <2>6, <2>8, InertQuiet
    <2> QED  BY <1>6, <2>5, <2>9, InertTwice
  <1>12. CASE HangUp
    <2> DEFINE y == [x EXCEPT !.hup = TRUE]
    <2>1. PICK taken \in Takes(lib) : lib' = DoWrite(y, taken)
      BY <1>12 DEF HangUp, x
    <2>2. y \in Library /\ Only(x, y, {"hup"})
      BY <1>6 DEF Library, Only, Members
    <2> HIDE DEF y
    <2>3. /\ y.sent = x.sent /\ y.out = x.out /\ y.stack = x.stack /\ y.rd = x.rd
          /\ y.ticks = x.ticks /\ y.failed = x.failed /\ y.res = x.res
      BY <2>2 DEF Only, Members
    <2>4. Inert(x, y)
      BY <1>6, <2>2, <2>3 DEF Inert, Calm, Sees, Resumes
    <2>5. taken \in Takes(y) /\ y.sent <= Len(y.out)
      BY <1>1, <1>8, <2>1, <2>3 DEF Takes
    <2>6. Inert(y, lib')
      BY <1>6, <1>7, <2>1, <2>2, <2>3, <2>5, InertDoWrite
    <2> QED  BY <1>6, <2>4, <2>6, InertTwice
  <1>13. CASE ReadEnd
    <2> DEFINE y == Call(x, <<"hup">>)
               z == Call(y, <<"pushed", "sock">>)
    <2>1. lib' = Push(z, "sock", <<>>) /\ Top = <<"doRead">>
      BY <1>13 DEF ReadEnd, x
    <2>2. /\ <<"hup">> \in Frames /\ <<"pushed", "sock">> \in Frames
          /\ <<"emit", "sock">> \in Frames
      BY SomeFrames DEF Streams
    <2>3. /\ Above(<<"hup">>, x.stack) /\ Above(<<"pushed", "sock">>, x.stack)
          /\ Above(<<"emit", "sock">>, x.stack)
      <3>1. /\ Rank(<<"hup">>) <= Rank(Top) /\ Rank(<<"pushed", "sock">>) <= Rank(Top)
            /\ Rank(<<"emit", "sock">>) <= Rank(Top)
        BY <2>1, RanksAre
      <3> QED  BY <1>6, <3>1, AboveLower
    <2>4. x.stack \in Seq(Frames)
      BY <1>6 DEF Library
    <2>5. /\ y \in Library /\ Inert(x, y) /\ y.stack = <<<<"hup">>>> \o x.stack
          /\ Above(<<"pushed", "sock">>, y.stack) /\ Above(<<"emit", "sock">>, y.stack)
          /\ y.stack \in Seq(Frames) /\ Ordered(y.stack) /\ Only(x, y, {"stack"})
      <3>1. y \in Library /\ Inert(x, y) /\ y.stack = <<<<"hup">>>> \o x.stack
              /\ Only(x, y, {"stack"})
        BY <1>6, <2>2, <2>3, CallIs, InertCall, HiddenFrames
      <3>2. /\ Rank(<<"pushed", "sock">>) < Rank(<<"hup">>)
            /\ Rank(<<"emit", "sock">>) < Rank(<<"hup">>)
        BY RanksAre
      <3>3. /\ Above(<<"pushed", "sock">>, <<<<"hup">>>> \o x.stack)
            /\ Above(<<"emit", "sock">>, <<<<"hup">>>> \o x.stack)
        BY <2>2, <2>3, <2>4, <3>2, AbovePush
      <3>4. y.stack \in Seq(Frames) /\ Ordered(y.stack)
        BY <3>1 DEF Inert, Library
      <3> QED  BY <3>1, <3>3, <3>4
    <2> HIDE DEF y
    <2>6. /\ z \in Library /\ Inert(y, z) /\ z.stack = <<<<"pushed", "sock">>>> \o y.stack
          /\ Above(<<"emit", "sock">>, z.stack) /\ Ordered(z.stack) /\ Only(y, z, {"stack"})
      <3>1. z \in Library /\ Inert(y, z) /\ z.stack = <<<<"pushed", "sock">>>> \o y.stack
              /\ Only(y, z, {"stack"})
        BY <2>2, <2>5, CallIs, InertCall, HiddenFrames
      <3>2. Rank(<<"emit", "sock">>) < Rank(<<"pushed", "sock">>)
        BY RanksAre
      <3>3. Above(<<"emit", "sock">>, <<<<"pushed", "sock">>>> \o y.stack)
        BY <2>2, <2>5, <3>2, AbovePush
      <3> QED  BY <3>1, <3>3 DEF Inert
    <2> HIDE DEF z
    <2>7. z.rd.sock \in ReadableType /\ z.rd.sock.buf \in Seq(Nat)
      BY <2>6 DEF Library, ReadableType
    <2> DEFINE w == [z EXCEPT !.rd.sock.buf = @ \o <<>>,
                              !.rd.sock.ended = @ \/ <<>> = <<>>]
    <2>8. /\ w \in Library /\ Only(z, w, {"rd"}) /\ w.rd.req = z.rd.req
          /\ \A f \in {"flowing", "buf", "destroyed"} : w.rd.sock[f] = z.rd.sock[f]
      <3>1. z.rd.sock.buf \o <<>> = z.rd.sock.buf
        BY <2>7
      <3> QED  BY <2>6, <2>7, <3>1 DEF Library, ReadableType, Only, Members
    <2>9. lib' = Call(w, <<"emit", "sock">>)
      BY <2>1, ZenonT(30) DEF Push
    <2> HIDE DEF w
    <2>10. /\ w.stack = z.stack /\ w.ticks = z.ticks /\ w.failed = z.failed
           /\ w.res = z.res
      BY <2>8 DEF Only, Members
    <2>11. Inert(z, w)
      BY <2>6, <2>8, <2>10 DEF Inert, Calm, Sees, Resumes
    <2>12. Inert(w, lib')
      BY <2>2, <2>6, <2>8, <2>9, <2>10, InertCall, HiddenFrames
    <2>13. Inert(lib, y) /\ Inert(y, w)
      BY <1>6, <2>5, <2>6, <2>11, InertTwice
    <2> QED  BY <2>12, <2>13, InertTwice
  <1> QED  BY <1>9, <1>10, <1>11, <1>12, <1>13

LEMMA LoopIsInert ==
  ASSUME Base, Ordered(lib.stack),
         OtherCallback \/ DrainDone \/ DispatchRead \/ DispatchWrite \/ DispatchDone
  PROVE  Inert(lib, lib')
  <1>1. Typed(lib, got) /\ lib \in Library /\ lib.sent <= Len(lib.out)
    BY DEF Base, Typed
  <1>2. /\ Idle /\ \A f : Above(f, lib.stack)
    BY IdleOrder DEF OtherCallback, DrainDone, DispatchRead, DispatchWrite,
                     DispatchDone, Reported
  <1>3. CASE OtherCallback
    BY <1>1, <1>2, <1>3, InertUser DEF OtherCallback
  <1>4. CASE DrainDone
    <2>1. Only(lib, lib', {"record"}) /\ lib' \in Library
      BY <1>1, <1>4, DrainDoneIs DEF Typed
    <2>2. /\ lib'.stack = lib.stack /\ lib'.ticks = lib.ticks /\ lib'.failed = lib.failed
          /\ lib'.res = lib.res /\ lib'.rd = lib.rd
      BY <2>1 DEF Only, Members
    <2> QED  BY <2>1, <2>2 DEF Inert, Calm, Sees, Resumes
  <1>5. CASE DispatchRead
    BY <1>1, <1>2, <1>5, InertCall, SomeFrames, HiddenFrames DEF DispatchRead
  <1>6. CASE DispatchWrite
    BY <1>1, <1>2, <1>6, InertDoWrite DEF DispatchWrite
  <1>7. CASE DispatchDone
    BY <1>1, <1>7 DEF DispatchDone, Inert, Calm, Sees
  <1> QED  BY <1>3, <1>4, <1>5, <1>6, <1>7

-----------------------------------------------------------------------------
(* The invariant, and the steps that keep all of it at once *)

All(x, h, n) ==
  /\ Ordered(x.stack) /\ EndInv(x) /\ FlowInv(x) /\ FeedInv(x) /\ HeardInv(x, h)
  /\ \E p \in 0 .. n : ParseInv(x, h, n, p)

\* The parser stays where it is.
LEMMA SameParser ==
  ASSUME NEW x, NEW y, NEW n, NEW p, ParserAt(x, n, p),
         \A f : f[1] = "feed" => (Has(x.stack, f) <=> Has(y.stack, f)),
         Has(x.stack, <<"clear", "sock">>) <=> Has(y.stack, <<"clear", "sock">>),
         y.rd.sock.buf = x.rd.sock.buf
  PROVE  ParserAt(y, n, p)
  <1>1. Feeding(x) <=> Feeding(y)
    BY DEF Feeding
  <1> QED  BY <1>1 DEF ParserAt

\* Nothing is found by the parser, and what the request is given is the same.
LEMMA ParseKeeps ==
  ASSUME NEW x, NEW y, NEW h, NEW g, NEW n, NEW m, NEW p, ParseInv(x, h, n, p),
         Len(y.res) = Len(x.res), y.rd.req.ended = x.rd.req.ended,
         x.rd.req.destroyed => y.rd.req.destroyed,
         Given(y, g) = Given(x, h),
         x.failed => y.failed,
         ~y.failed /\ ParserAt(x, n, p) => ParserAt(y, m, p)
  PROVE  ParseInv(y, g, m, p)
  <1>1. ~y.failed => ParserAt(y, m, p)
    BY DEF ParseInv
  <1> HIDE DEF Given, ParserAt, GivenOK, InBody
  <1> QED  BY <1>1 DEF ParseInv

LEMMA InertKeeps ==
  ASSUME NEW x, NEW y, NEW h, NEW n, All(x, h, n), Inert(x, y)
  PROVE  All(y, h, n)
  <1>1. /\ Calm(x, y) /\ Ordered(y.stack)
        /\ \A f : Visible(f) => (Has(x.stack, f) <=> Has(y.stack, f))
    BY DEF Inert, Sees
  <1>2. /\ \A e \in {"emit", "clear", "end", "ended"} :
             Has(x.stack, <<e, "req">>) <=> Has(y.stack, <<e, "req">>)
        /\ Has(x.stack, <<"clear", "sock">>) <=> Has(y.stack, <<"clear", "sock">>)
        /\ \A f : f[1] = "feed" => (Has(x.stack, f) <=> Has(y.stack, f))
    BY <1>1, VisibleFrames
  <1>3. /\ y.failed = x.failed /\ Len(y.res) = Len(x.res)
        /\ y.rd.req.flowing = x.rd.req.flowing /\ y.rd.req.ended = x.rd.req.ended
        /\ y.rd.req.endEmitted = x.rd.req.endEmitted /\ y.rd.req.buf = x.rd.req.buf
        /\ y.rd.sock.flowing = x.rd.sock.flowing /\ y.rd.sock.buf = x.rd.sock.buf
        /\ x.rd.req.destroyed => y.rd.req.destroyed
        /\ x.rd.sock.destroyed => y.rd.sock.destroyed
        /\ Resumes(x) => Resumes(y)
    BY <1>1 DEF Calm
  <1>4. EndInv(y)
    BY <1>2, <1>3 DEF All, EndInv
  <1>5. FlowInv(y)
    <2>1. Emitting(x) <=> Emitting(y)
      BY <1>2 DEF Emitting
    <2> HIDE DEF Resumes, Emitting
    <2> QED  BY <1>3, <2>1 DEF All, FlowInv, Runs
  <1>6. FeedInv(y)
    <2>1. Feeding(x) <=> Feeding(y)
      BY <1>2 DEF Feeding
    <2> QED  BY <1>2, <1>3, <2>1 DEF All, FeedInv
  <1>7. HeardInv(y, h)
    BY <1>3 DEF All, HeardInv
  <1>8. Given(y, h) = Given(x, h)
    BY <1>2, <1>3 DEF Given
  <1>9. \A p : ParserAt(x, n, p) => ParserAt(y, n, p)
    BY <1>2, <1>3, SameParser
  <1>10. \A p : ParseInv(x, h, n, p) => ParseInv(y, h, n, p)
    BY <1>3, <1>8, <1>9, ParseKeeps
  <1> QED  BY <1>1, <1>4, <1>5, <1>6, <1>7, <1>10 DEF All

-----------------------------------------------------------------------------
(* Calls and returns *)

LEMMA Called ==
  ASSUME NEW x \in Library, Ordered(x.stack), NEW f \in Frames, Above(f, x.stack)
  PROVE  /\ Call(x, f) \in Library /\ Only(x, Call(x, f), {"stack"})
         /\ Ordered(Call(x, f).stack)
         /\ \A g : Has(Call(x, f).stack, g) <=> Has(x.stack, g) \/ g = f
         /\ \A g : Rank(g) < Rank(f) => Above(g, Call(x, f).stack)
  <1>1. /\ x.stack \in Seq(Frames) /\ Call(x, f).stack = <<f>> \o x.stack
        /\ Only(x, Call(x, f), {"stack"}) /\ Call(x, f) \in Library
    BY CallIs DEF Library
  <1>2. Ordered(<<f>> \o x.stack)
    BY <1>1, OrderedPush
  <1>3. ASSUME NEW g, Rank(g) < Rank(f) PROVE Above(g, <<f>> \o x.stack)
    <2>1. Above(g, x.stack)
      <3>1. Rank(g) <= Rank(f)
        BY <1>3, RankIs
      <3> QED  BY <3>1, AboveLower
    <2> QED  BY <1>1, <1>3, <2>1, AbovePush
  <1> QED  BY <1>1, <1>2, <1>3, HasPush

LEMMA CalledUser ==
  ASSUME NEW x \in Library, Ordered(x.stack), Above(<<"user">>, x.stack)
  PROVE  /\ User(x) \in Library /\ Only(x, User(x), {"stack"})
         /\ Ordered(User(x).stack)
         /\ \A g : Visible(g) => (Has(User(x).stack, g) <=> Has(x.stack, g))
  <1>1. Inert(x, User(x))
    BY InertUser
  <1> QED  BY <1>1, UserIs DEF Inert, Sees

LEMMA Returned ==
  ASSUME Base, Ordered(lib.stack), Top[1] # "none"
  PROVE  /\ Pop(lib) \in Library /\ Only(lib, Pop(lib), {"stack"})
         /\ Ordered(Pop(lib).stack) /\ Top \in Frames /\ FrameOK(Top, got, DOMAIN lib.res)
         /\ Has(lib.stack, Top)
         /\ \A g : Has(lib.stack, g) <=> Has(Pop(lib).stack, g) \/ g = Top
         /\ \A g : Rank(g) <= Rank(Top) =>
              Above(g, Pop(lib).stack) /\ (g # <<"emit", "sock">> => ~Has(Pop(lib).stack, g))
  <1>1. Typed(lib, got) /\ lib \in Library /\ lib.stack \in Seq(Frames)
    BY DEF Base, Typed, Library
  <1>2. lib.stack # <<>> /\ Top = Head(lib.stack) /\ FrameOK(Top, got, DOMAIN lib.res)
    BY <1>1, TopIs
  <1> HIDE DEF Top
  <1>3. /\ Pop(lib) \in Library /\ Only(lib, Pop(lib), {"stack"})
        /\ Pop(lib).stack = Tail(lib.stack) /\ Ordered(Pop(lib).stack)
        /\ Above(Top, Pop(lib).stack)
    BY <1>1, <1>2, PopOrder
  <1>4. \A g : Has(lib.stack, g) <=> Has(Pop(lib).stack, g) \/ g = Top
    BY <1>1, <1>2, <1>3, HasTail
  <1>5. ASSUME NEW g, Rank(g) <= Rank(Top)
        PROVE  Above(g, Pop(lib).stack) /\ (g # <<"emit", "sock">> => ~Has(Pop(lib).stack, g))
    <2>1. Above(g, Pop(lib).stack)
      BY <1>3, <1>5, AboveLower
    <2>2. ~(Rank(g) < Rank(g))
      BY RankIs
    <2> QED  BY <2>1, <2>2, AboveHas
  <1> QED  BY <1>2, <1>3, <1>4, <1>5 DEF FrameOK

LEMMA OnlyStack ==
  ASSUME NEW x, NEW y, Only(x, y, {"stack"})
  PROVE  y.rd = x.rd /\ y.ticks = x.ticks /\ y.failed = x.failed /\ y.res = x.res
  BY DEF Only, Members

-----------------------------------------------------------------------------
(* The other steps.  In most of them the parser finds nothing new.         *)

LEMMA StepKeeps ==
  ASSUME NEW x, NEW y, NEW h, NEW g, NEW n \in Nat, NEW m \in Nat, n <= m,
         All(x, h, n),
         Ordered(y.stack), EndInv(y), FlowInv(y), FeedInv(y), HeardInv(y, g),
         Len(y.res) = Len(x.res), y.rd.req.ended = x.rd.req.ended,
         x.rd.req.destroyed => y.rd.req.destroyed,
         Given(y, g) = Given(x, h), x.failed => y.failed,
         \A p \in 0 .. n : ~y.failed /\ ParserAt(x, n, p) => ParserAt(y, m, p)
  PROVE  All(y, g, m)
  <1>1. PICK p \in 0 .. n : ParseInv(x, h, n, p)
    BY DEF All
  <1>2. ParseInv(y, g, m, p)
    BY <1>1, ParseKeeps
  <1>3. p \in 0 .. m
    OBVIOUS
  <1> QED  BY <1>2, <1>3 DEF All

LEMMA FlowCallKeeps ==
  ASSUME Base, All(lib, heard, got), FlowCall
  PROVE  All(lib', heard, got)
  <1> DEFINE y == lib'
  <1>1. lib \in Library /\ lib.rd.req \in ReadableType /\ got \in Nat
    BY InputIs DEF Base, Typed, Library
  <1>2. PICK w \in {Pause(lib, "req"), Resume(lib, "req")} :
          y = [w EXCEPT !.late = lib.record = "gone"]
    BY DEF FlowCall, Api
  <1> HIDE DEF y
  <1>9. /\ w \in Library /\ Only(lib, w, {"rd", "ticks"}) /\ w.rd.sock = lib.rd.sock
        /\ \A f \in {"over", "ended", "endEmitted", "destroyed", "buf"} :
             w.rd.req[f] = lib.rd.req[f]
        /\ Resumes(lib) => Resumes(w)
        /\ w.rd.req.flowing => lib.rd.req.flowing \/ Resumes(w)
    <2>1. CASE w = Pause(lib, "req")
      <3>1. /\ w \in Library /\ Only(lib, w, {"rd"}) /\ w.rd.sock = lib.rd.sock
            /\ w.rd.req = [lib.rd.req EXCEPT !.flowing = FALSE]
        BY <1>1, <2>1, PauseIs DEF Streams
      <3>2. w.ticks = lib.ticks
        BY <3>1 DEF Only, Members
      <3> QED  BY <1>1, <3>1, <3>2 DEF Only, ReadableType, Resumes
    <2>2. CASE w = Resume(lib, "req")
      <3>1. /\ w \in Library /\ Only(lib, w, {"rd", "ticks"}) /\ w.rd.sock = lib.rd.sock
            /\ w.rd.req = [lib.rd.req EXCEPT !.flowing = @ \/ ~lib.rd.req.destroyed]
            /\ Posted(lib, w, {<<"read", "req">>})
            /\ lib.rd.req.flowing \/ lib.rd.req.destroyed
               \/ Has(w.ticks, <<"read", "req">>)
        BY <1>1, <2>2, ResumeIs DEF Streams
      <3> QED  BY <1>1, <3>1 DEF ReadableType, Resumes, Posted
    <2> QED  BY <1>2, <2>1, <2>2
  <1>10. Only(w, y, {"late"})
    BY <1>2, <1>9 DEF Library, Only, Members
  <1>3. /\ Only(lib, y, {"rd", "ticks", "late"}) /\ y.rd.sock = lib.rd.sock
        /\ \A f \in {"over", "ended", "endEmitted", "destroyed", "buf"} :
             y.rd.req[f] = lib.rd.req[f]
        /\ Resumes(lib) => Resumes(y)
        /\ y.rd.req.flowing => lib.rd.req.flowing \/ Resumes(y)
    <2>1. y.rd = w.rd /\ y.ticks = w.ticks
      BY <1>10 DEF Only, Members
    <2> QED  BY <1>9, <1>10, <2>1 DEF Only, Resumes
  <1>4. y.stack = lib.stack /\ y.failed = lib.failed /\ y.res = lib.res
    BY <1>3 DEF Only, Members
  <1>5. Ordered(y.stack) /\ EndInv(y) /\ HeardInv(y, heard) /\ FeedInv(y)
    BY <1>3, <1>4 DEF All, EndInv, HeardInv, FeedInv, Feeding
  <1>6. FlowInv(y)
    <2>1. Emitting(y) <=> Emitting(lib)
      BY <1>4 DEF Emitting
    <2> HIDE DEF Resumes, Emitting
    <2> QED  BY <1>3, <2>1 DEF All, FlowInv, Runs
  <1>7. Given(y, heard) = Given(lib, heard)
    BY <1>3, <1>4 DEF Given
  <1>8. \A p : ParserAt(lib, got, p) => ParserAt(y, got, p)
    BY <1>3, <1>4, SameParser
  <1> QED  BY <1>1, <1>3, <1>4, <1>5, <1>6, <1>7, <1>8, StepKeeps DEF y

\* The _read of the request resumes the socket and emits what there is.
LEMMA RequestReadKeeps ==
  ASSUME Base, All(lib, heard, got), Destroyed(lib), RunTick, Head(lib.ticks) = <<"read", "req">>
  PROVE  All(lib', heard, got)
  <1> DEFINE x == Next_(lib)
             v == RequestRead(x)
             y == Call(v, <<"emit", "req">>)
  <1>1. /\ lib \in Library /\ lib.ticks # <<>> /\ lib.stack = <<>> /\ got \in Nat
        /\ Ordered(lib.stack)
    BY InputIs, IdleOrder DEF Base, Typed, RunTick, Idle
  <1>2. lib' = y
    <2>1. <<"read", "req">> # <<"sockWrite">> /\ <<"read", "req">> # <<"read", "sock">>
      OBVIOUS
    <2>2. lib' = Tick(x, <<"read", "req">>)
      BY <2>1 DEF RunTick
    <2> QED  BY <2>1, <2>2 DEF Tick
  <1>3. x \in Library /\ Only(lib, x, {"ticks"})
    BY <1>1, TickIs
  <1> HIDE DEF x
  <1>4. /\ v \in Library /\ Only(x, v, {"rd", "ticks", "aborted"}) /\ v.rd.req = x.rd.req
        /\ v.rd.sock.buf = x.rd.sock.buf
        /\ v.rd.sock.flowing \/ v.rd.sock.destroyed
    <2>1. CASE x.record = "gone"
      <3>1. v = Abort(x, "read")
        BY <2>1 DEF RequestRead, WithSocket
      <3>2. /\ v \in Library /\ Only(x, v, {"aborted"})
        BY <1>3, <3>1 DEF Abort, Library, Asserts, Only, Members
      <3> HIDE DEF v
      <3>3. v.rd = x.rd /\ x.rd = lib.rd /\ x.record = lib.record
        BY <1>3, <3>2 DEF Only, Members
      <3> QED  BY <2>1, <3>2, <3>3 DEF Only, Destroyed
    <2>2. CASE x.record # "gone"
      <3>1. v = Resume(x, "sock")
        BY <2>2 DEF RequestRead, WithSocket
      <3>2. /\ v \in Library /\ Only(x, v, {"rd", "ticks"}) /\ v.rd.req = x.rd.req
            /\ v.rd.sock = [x.rd.sock EXCEPT !.flowing = @ \/ ~x.rd.sock.destroyed]
        BY <1>3, <3>1, ResumeIs DEF Streams
      <3>3. x.rd.sock \in ReadableType
        BY <1>3 DEF Library
      <3> HIDE DEF v
      <3> QED  BY <3>2, <3>3 DEF ReadableType, Only
    <2> QED  BY <2>1, <2>2
  <1> HIDE DEF v
  <1>5. /\ v.stack = <<>> /\ v.failed = lib.failed /\ v.res = lib.res
        /\ v.rd.req = lib.rd.req /\ v.rd.sock.buf = lib.rd.sock.buf
    BY <1>1, <1>3, <1>4 DEF Only, Members
  <1>6. \A f : ~Has(v.stack, f) /\ ~Has(lib.stack, f)
    BY <1>1, <1>5, EmptySeq DEF Has
  <1>7. /\ Only(v, y, {"stack"}) /\ Ordered(y.stack)
        /\ \A g : Has(y.stack, g) <=> g = <<"emit", "req">>
    <2>1. <<"emit", "req">> \in Frames
      BY SomeFrames DEF Streams
    <2>2. Ordered(v.stack) /\ Above(<<"emit", "req">>, v.stack)
      BY <1>5, AboveEmpty
    <2>3. /\ Only(v, y, {"stack"}) /\ Ordered(y.stack)
          /\ \A g : Has(y.stack, g) <=> Has(v.stack, g) \/ g = <<"emit", "req">>
      BY <1>4, <2>1, <2>2, Called
    <2> QED  BY <1>6, <2>3
  <1>8. /\ y.failed = lib.failed /\ y.res = lib.res /\ y.rd = v.rd
    BY <1>5, <1>7, OnlyStack
  <1> HIDE DEF y
  <1>9. /\ Has(y.stack, <<"emit", "req">>)
        /\ ~Has(y.stack, <<"clear", "sock">>) /\ ~Has(y.stack, <<"clear", "req">>)
        /\ ~Has(y.stack, <<"end", "req">>) /\ ~Has(y.stack, <<"ended", "req">>)
        /\ \A f : f[1] = "feed" => ~Has(y.stack, f)
    BY <1>7
  <1>10. EndInv(y) /\ HeardInv(y, heard) /\ FeedInv(y)
    BY <1>5, <1>8, <1>9 DEF All, EndInv, HeardInv, FeedInv, Feeding
  <1>11. FlowInv(y)
    BY <1>4, <1>8, <1>9 DEF FlowInv, Emitting
  <1>12. Given(y, heard) = Given(lib, heard)
    BY <1>5, <1>6, <1>8, <1>9 DEF Given
  <1>13. \A p : ParserAt(lib, got, p) => ParserAt(y, got, p)
    BY <1>5, <1>6, <1>8, <1>9, SameParser
  <1> QED  BY <1>1, <1>2, <1>5, <1>7, <1>8, <1>10, <1>11, <1>12, <1>13, StepKeeps

\* _emitData of the request: what is in its buffer is heard.
LEMMA EmitRequestKeeps ==
  ASSUME Base, All(lib, heard, got), EmitData, Top[2] = "req"
  PROVE  All(lib', heard', got)
  <1> DEFINE x == Pop(lib)
             r == lib.rd.req
             c == Call(x, <<"clear", "req">>)
             y == lib'
  <1>1. Top[1] = "emit" /\ got \in Nat /\ Ordered(lib.stack)
    BY InputIs DEF EmitData, All
  <1>2. Top = <<"emit", "req">>
    <2>1. Top \in Frames
      BY <1>1, Returned
    <2> QED  BY <1>1, <2>1, FrameIs
  <1>3. /\ y = IF ~Emits(r) THEN x
               ELSE IF r.buf = <<>> THEN ToEnd(x, "req")
               ELSE User(c)
        /\ heard' = IF Emits(r) THEN [heard EXCEPT !.body = @ \o r.buf] ELSE heard
    BY <1>2 DEF EmitData
  <1>4. /\ x \in Library /\ Only(lib, x, {"stack"}) /\ Ordered(x.stack)
        /\ Has(lib.stack, Top)
        /\ \A g : Has(lib.stack, g) <=> Has(x.stack, g) \/ g = Top
        /\ \A g : Rank(g) <= Rank(Top) =>
             Above(g, x.stack) /\ (g # <<"emit", "sock">> => ~Has(x.stack, g))
    BY <1>1, Returned
  <1>5. x.rd = lib.rd /\ x.ticks = lib.ticks /\ x.failed = lib.failed /\ x.res = lib.res
    BY <1>4, OnlyStack
  <1>6. r.buf \in Seq(Nat) /\ heard.body \in Seq(Nat) /\ heard \in [body : Seq(Nat), end : BOOLEAN]
    <2>1. 1 .. got \subseteq Nat
      OBVIOUS
    <2> QED  BY <2>1 DEF Base, Typed, Library, ReadableType
  <1> HIDE DEF x, y
  <1>7. /\ Rank(<<"user">>) <= Rank(Top) /\ Rank(<<"user">>) < Rank(<<"clear", "req">>)
        /\ \A e \in {"emit", "clear", "end", "ended"} : Rank(<<e, "req">>) <= Rank(Top)
    BY <1>2, RanksAre
  <1>8. /\ \A e \in {"emit", "clear", "end", "ended"} :
             <<e, "req">> # <<"emit", "sock">> /\ ~Has(x.stack, <<e, "req">>)
        /\ ~Has(lib.stack, <<"clear", "req">>) /\ ~Has(lib.stack, <<"ended", "req">>)
        /\ Has(x.stack, <<"clear", "sock">>) <=> Has(lib.stack, <<"clear", "sock">>)
        /\ \A f : f[1] = "feed" => (Has(x.stack, f) <=> Has(lib.stack, f))
    BY <1>2, <1>4, <1>7
  <1>9. <<"clear", "req">> \in Frames /\ <<"end", "req">> \in Frames
    BY SomeFrames DEF Streams
  \* What the step leaves alone, with the frame k that it may call.
  <1>10. ASSUME NEW k \in {"none", "clear", "end"}, Only(x, y, {"stack"}), Ordered(y.stack),
                \A g : Visible(g) =>
                  (Has(y.stack, g) <=> Has(x.stack, g) \/ (k # "none" /\ g = <<k, "req">>)),
                k = "end" => r.ended /\ r.buf = <<>>,
                k = "none" => (Runs(r) => r.buf = <<>>),
                Given(y, heard') = Given(lib, heard),
                HeardInv(y, heard')
         PROVE  All(y, heard', got)
    <2>1. y.rd = lib.rd /\ y.ticks = lib.ticks /\ y.failed = lib.failed /\ y.res = lib.res
      BY <1>5, <1>10, OnlyStack
    <2>2. /\ Has(y.stack, <<"clear", "sock">>) <=> Has(lib.stack, <<"clear", "sock">>)
          /\ \A f : f[1] = "feed" => (Has(y.stack, f) <=> Has(lib.stack, f))
          /\ Has(y.stack, <<"end", "req">>) => k = "end"
          /\ ~Has(y.stack, <<"ended", "req">>)
          /\ k = "clear" => Has(y.stack, <<"clear", "req">>)
      BY <1>8, <1>10, VisibleFrames
    <2>3. EndInv(y)
      BY <1>10, <2>1, <2>2 DEF All, EndInv
    <2>4. FeedInv(y)
      BY <2>1, <2>2 DEF All, FeedInv, Feeding
    <2>5. FlowInv(y)
      <3>1. Resumes(y) <=> Resumes(lib)
        BY <2>1 DEF Resumes
      <3>2. k = "clear" => Emitting(y)
        BY <2>2 DEF Emitting
      <3>3. k = "end" => ~Runs(r)
        BY <1>10 DEF Runs
      <3> HIDE DEF Resumes, Emitting, Runs
      <3> QED  BY <1>10, <2>1, <3>1, <3>2, <3>3 DEF All, FlowInv
    <2>6. \A p : ParserAt(lib, got, p) => ParserAt(y, got, p)
      BY <2>1, <2>2, SameParser
    <2> QED  BY <1>1, <1>10, <2>1, <2>3, <2>4, <2>5, <2>6, StepKeeps
  <1>11. CASE ~Emits(r)
    <2>1. y = x /\ heard' = heard
      BY <1>3, <1>11
    <2>2. ~Runs(r)
      BY <1>11 DEF Runs, Emits, All, EndInv
    <2>3. Given(y, heard') = Given(lib, heard) /\ HeardInv(y, heard')
      BY <1>5, <1>8, <2>1 DEF Given, HeardInv, All
    <2> QED  BY <1>4, <1>10, <2>1, <2>2, <2>3 DEF Only, y
  <1>12. CASE Emits(r) /\ r.buf = <<>>
    <2>1. heard' = heard
      <3>1. heard.body \o <<>> = heard.body
        BY <1>6
      <3> QED  BY <1>3, <1>6, <1>12, <3>1
    <2>2. CASE r.ended
      <3>1. y = Call(x, <<"end", "req">>)
        BY <1>3, <1>5, <1>12, <2>2 DEF ToEnd
      <3>2. /\ Only(x, y, {"stack"}) /\ Ordered(y.stack)
            /\ \A g : Has(y.stack, g) <=> Has(x.stack, g) \/ g = <<"end", "req">>
        BY <1>4, <1>7, <1>9, <3>1, Called
      <3>3. y.rd = lib.rd /\ ~Has(y.stack, <<"clear", "req">>)
        BY <1>5, <1>8, <3>2, OnlyStack
      <3>4. Given(y, heard') = Given(lib, heard) /\ HeardInv(y, heard')
        BY <1>8, <2>1, <3>3 DEF Given, HeardInv, All
      <3> QED  BY <1>10, <1>12, <2>2, <3>2, <3>4 DEF y
    <2>3. CASE ~r.ended
      <3>1. y = x
        BY <1>3, <1>5, <1>12, <2>3 DEF ToEnd
      <3>2. Given(y, heard') = Given(lib, heard) /\ HeardInv(y, heard')
        BY <1>5, <1>8, <2>1, <3>1 DEF Given, HeardInv, All
      <3> QED  BY <1>4, <1>10, <1>12, <3>1, <3>2 DEF Only, y
    <2> QED  BY <2>2, <2>3
  <1>13. CASE Emits(r) /\ r.buf # <<>>
    <2>1. y = User(c) /\ heard' = [heard EXCEPT !.body = heard.body \o r.buf]
      BY <1>3, <1>13
    <2>2. /\ c \in Library /\ Only(x, c, {"stack"}) /\ Ordered(c.stack)
          /\ \A g : Has(c.stack, g) <=> Has(x.stack, g) \/ g = <<"clear", "req">>
          /\ Above(<<"user">>, c.stack)
      BY <1>4, <1>7, <1>9, Called
    <2> HIDE DEF c
    <2>3. /\ Only(c, y, {"stack"}) /\ Ordered(y.stack)
          /\ \A g : Visible(g) => (Has(y.stack, g) <=> Has(c.stack, g))
      BY <2>1, <2>2, CalledUser
    <2>4. Only(x, y, {"stack"}) /\ y.rd = lib.rd
      BY <1>5, <2>2, <2>3 DEF Only, Members
    <2>5. heard'.body = heard.body \o r.buf /\ heard'.end = heard.end
      BY <1>6, <2>1
    <2>6. Has(y.stack, <<"clear", "req">>)
      BY <2>2, <2>3, VisibleFrames
    <2>7. Given(y, heard') = Given(lib, heard)
      <3>1. (heard.body \o r.buf) \o <<>> = heard.body \o r.buf
        BY <1>6
      <3> QED  BY <1>8, <2>5, <2>6, <3>1 DEF Given
    <2>8. HeardInv(y, heard')
      BY <1>13, <2>5 DEF HeardInv, All
    <2> QED  BY <1>10, <2>2, <2>3, <2>4, <2>7, <2>8 DEF y
  <1> QED  BY <1>11, <1>12, <1>13 DEF y

\* _emitData of the socket: the parser is fed what is in its buffer.
LEMMA EmitSocketKeeps ==
  ASSUME Base, All(lib, heard, got), EmitData, Top[2] = "sock"
  PROVE  All(lib', heard', got)
  <1> DEFINE x == Pop(lib)
             r == lib.rd.sock
             c == Call(x, <<"clear", "sock">>)
             y == lib'
  <1>1. Top[1] = "emit" /\ got \in Nat /\ Ordered(lib.stack)
    BY InputIs DEF EmitData, All
  <1>2. Top = <<"emit", "sock">>
    <2>1. Top \in Frames
      BY <1>1, Returned
    <2> QED  BY <1>1, <2>1, FrameIs
  <1>3. /\ y = IF ~Emits(r) THEN x
               ELSE IF r.buf = <<>> THEN ToEnd(x, "sock")
               ELSE IF x.failed THEN c
               ELSE Call(c, <<"feed", r.buf>>)
        /\ heard' = heard
    BY <1>2 DEF EmitData
  <1>4. /\ x \in Library /\ Only(lib, x, {"stack"}) /\ Ordered(x.stack)
        /\ \A g : Has(lib.stack, g) <=> Has(x.stack, g) \/ g = Top
        /\ \A g : Rank(g) <= Rank(Top) =>
             Above(g, x.stack) /\ (g # <<"emit", "sock">> => ~Has(x.stack, g))
    BY <1>1, Returned
  <1>5. x.rd = lib.rd /\ x.ticks = lib.ticks /\ x.failed = lib.failed /\ x.res = lib.res
    BY <1>4, OnlyStack
  <1>6. Inert(lib, x)
    <2>1. lib.stack # <<>> /\ Top = Head(lib.stack)
      BY <1>1 DEF Top
    <2>2. ~Visible(Top)
      BY <1>2, HiddenFrames
    <2> QED  BY <1>1, <2>1, <2>2, PopOrder DEF Base, Typed
  <1>7. All(x, heard, got)
    BY <1>6, InertKeeps
  <1>8. /\ \A f : f[1] = "feed" => ~Has(x.stack, f)
        /\ ~Has(x.stack, <<"clear", "sock">>)
        /\ Above(<<"clear", "sock">>, x.stack) /\ Above(<<"end", "sock">>, x.stack)
    <2>1. /\ Rank(<<"clear", "sock">>) <= Rank(Top) /\ Rank(<<"end", "sock">>) <= Rank(Top)
          /\ <<"clear", "sock">> # <<"emit", "sock">>
      BY <1>2, RanksAre
    <2>2. ~Has(x.stack, <<"clear", "sock">>)
      BY <1>4, <2>1
    <2> QED  BY <1>4, <1>7, <2>1, <2>2 DEF All, FeedInv, Feeding
  <1>9. <<"clear", "sock">> \in Frames /\ <<"end", "sock">> \in Frames
    BY SomeFrames DEF Streams
  <1> HIDE DEF x, y
  <1>10. CASE ~Emits(r)
    BY <1>3, <1>7, <1>10 DEF y
  <1>11. CASE Emits(r) /\ r.buf = <<>>
    <2>1. Inert(x, Call(x, <<"end", "sock">>))
      BY <1>4, <1>8, <1>9, InertCall, HiddenFrames
    <2> QED  BY <1>3, <1>7, <1>11, <2>1, InertKeeps DEF ToEnd, y
  <1>12. CASE Emits(r) /\ r.buf # <<>>
    <2>1. /\ c \in Library /\ Only(x, c, {"stack"}) /\ Ordered(c.stack)
          /\ \A g : Has(c.stack, g) <=> Has(x.stack, g) \/ g = <<"clear", "sock">>
          /\ \A g : Rank(g) < Rank(<<"clear", "sock">>) => Above(g, c.stack)
      BY <1>4, <1>8, <1>9, Called
    <2> HIDE DEF c
    <2>2. /\ Only(x, y, {"stack"}) /\ Ordered(y.stack)
          /\ Has(y.stack, <<"clear", "sock">>)
          /\ \A g : g[1] # "feed" /\ g # <<"clear", "sock">> =>
               (Has(y.stack, g) <=> Has(x.stack, g))
          /\ \A f : f[1] = "feed" /\ Has(y.stack, f) => ~x.failed /\ f = <<"feed", r.buf>>
          /\ ~x.failed => Has(y.stack, <<"feed", r.buf>>)
      <3>1. CASE x.failed
        <4>1. y = c
          BY <1>3, <1>12, <3>1
        <4>2. \A f : f[1] = "feed" => f # <<"clear", "sock">>
          OBVIOUS
        <4> QED  BY <1>8, <2>1, <3>1, <4>1, <4>2
      <3>2. CASE ~x.failed
        <4>1. y = Call(c, <<"feed", r.buf>>)
          BY <1>3, <1>12, <3>2
        <4>2. Rank(<<"feed", r.buf>>) < Rank(<<"clear", "sock">>)
          BY RanksAre
        <4>3. <<"feed", r.buf>> \in Frames
          <5>1. r.buf \in Seq(Nat)
            BY DEF Base, Typed, Library, ReadableType
          <5> QED  BY <5>1, SomeFrames
        <4>4. /\ Only(c, y, {"stack"}) /\ Ordered(y.stack)
              /\ \A g : Has(y.stack, g) <=> Has(c.stack, g) \/ g = <<"feed", r.buf>>
          BY <2>1, <4>1, <4>2, <4>3, Called
        <4>5. Only(x, y, {"stack"})
          BY <2>1, <4>4 DEF Only
        <4>6. \A f : f[1] = "feed" => f # <<"clear", "sock">>
          OBVIOUS
        <4> QED  BY <1>8, <2>1, <3>2, <4>4, <4>5, <4>6
      <3> QED  BY <3>1, <3>2
    <2>3. y.rd = lib.rd /\ y.ticks = lib.ticks /\ y.failed = x.failed /\ y.res = lib.res
          /\ x.rd = y.rd
      BY <1>5, <2>2, OnlyStack
    <2>4. \A e \in {"emit", "clear", "end", "ended"} :
            Has(y.stack, <<e, "req">>) <=> Has(x.stack, <<e, "req">>)
      <3>1. \A e \in {"emit", "clear", "end", "ended"} :
              <<e, "req">>[1] # "feed" /\ <<e, "req">> # <<"clear", "sock">>
        OBVIOUS
      <3> QED  BY <2>2, <3>1
    <2>5. EndInv(y) /\ HeardInv(y, heard)
      BY <1>7, <2>3, <2>4 DEF All, EndInv, HeardInv
    <2>6. FeedInv(y)
      BY <2>2, <2>3 DEF FeedInv, Feeding
    <2>7. FlowInv(y)
      <3>1. (Resumes(y) <=> Resumes(x)) /\ (Emitting(y) <=> Emitting(x))
        BY <1>5, <2>3, <2>4 DEF Resumes, Emitting
      <3> HIDE DEF Resumes, Emitting
      <3> QED  BY <1>7, <2>3, <3>1 DEF All, FlowInv
    <2>8. Given(y, heard) = Given(x, heard)
      BY <2>3, <2>4 DEF Given
    <2>9. ASSUME NEW p, ~y.failed, ParserAt(x, got, p) PROVE ParserAt(y, got, p)
      <3>1. LastOf(r.buf, got) /\ p + Len(r.buf) = got
        BY <1>5, <1>8, <2>9 DEF ParserAt, Feeding
      <3>2. \A f : f[1] = "feed" /\ Has(y.stack, f) => f[2] = r.buf
        BY <2>2
      <3>3. Feeding(y)
        BY <2>2, <2>3, <2>9 DEF Feeding
      <3> QED  BY <3>1, <3>2, <3>3 DEF ParserAt
    <2> QED  BY <1>1, <1>3, <1>5, <1>7, <2>2, <2>3, <2>5, <2>6, <2>7, <2>8, <2>9, StepKeeps
             DEF y
  <1> QED  BY <1>10, <1>11, <1>12

\* The buffer of a stream is emptied, and _read posted if it was over the mark.
Emptied(x, s) ==
  LET z == [x EXCEPT !.rd[s].buf = <<>>]
  IN  IF z.rd[s].over THEN NextTick([z EXCEPT !.rd[s].over = FALSE], <<"read", s>>)
      ELSE z

LEMMA EmptiedIs ==
  ASSUME NEW x \in Library, NEW s \in Streams
  PROVE  /\ Emptied(x, s) \in Library /\ Only(x, Emptied(x, s), {"rd", "ticks"})
         /\ \A t \in Streams : t # s => Emptied(x, s).rd[t] = x.rd[t]
         /\ \A f \in {"flowing", "ended", "endEmitted", "destroyed"} :
              Emptied(x, s).rd[s][f] = x.rd[s][f]
         /\ Emptied(x, s).rd[s].buf = <<>>
         /\ Resumes(x) => Resumes(Emptied(x, s))
  <1> DEFINE r == [x.rd[s] EXCEPT !.buf = <<>>]
             y == [x EXCEPT !.rd[s] = r]
             q == [r EXCEPT !.over = FALSE]
             v == [y EXCEPT !.rd[s] = q]
  <1>1. x.rd[s] \in ReadableType
    BY DEF Library, Streams
  <1>2. /\ r \in ReadableType /\ r.buf = <<>>
        /\ \A f \in {"flowing", "ended", "endEmitted", "destroyed"} : r[f] = x.rd[s][f]
    BY <1>1, EmptySeq DEF ReadableType
  <1>3. [x EXCEPT !.rd[s].buf = <<>>] = y
    BY <1>1 DEF Library, Streams
  <1>4. /\ q \in ReadableType /\ q.buf = r.buf
        /\ \A f \in {"flowing", "ended", "endEmitted", "destroyed"} : q[f] = r[f]
    BY <1>2 DEF ReadableType
  <1> HIDE DEF r
  <1>5. /\ y \in Library /\ Only(x, y, {"rd"}) /\ y.rd[s] = r
        /\ \A t \in Streams : t # s => y.rd[t] = x.rd[t]
    BY <1>2, SetReadable
  <1>6. y.ticks = x.ticks
    BY <1>5 DEF Only, Members
  <1> HIDE DEF y
  <1>7. [y EXCEPT !.rd[s].over = FALSE] = v
    BY <1>5 DEF Library, Streams
  <1>8. Emptied(x, s) = IF y.rd[s].over THEN NextTick(v, <<"read", s>>) ELSE y
    <2> DEFINE z == [x EXCEPT !.rd[s].buf = <<>>]
    <2>1. Emptied(x, s) = IF z.rd[s].over
                          THEN NextTick([z EXCEPT !.rd[s].over = FALSE], <<"read", s>>)
                          ELSE z
      BY DEF Emptied
    <2>2. z = y
      BY <1>3
    <2> HIDE DEF z
    <2> QED  BY <1>7, <2>1, <2>2
  <1> HIDE DEF q
  <1>9. /\ v \in Library /\ Only(y, v, {"rd"}) /\ v.rd[s] = q
        /\ \A t \in Streams : t # s => v.rd[t] = y.rd[t]
    BY <1>4, <1>5, SetReadable
  <1>10. v.ticks = y.ticks
    BY <1>9 DEF Only, Members
  <1> HIDE DEF v
  <1> DEFINE w == NextTick(v, <<"read", s>>)
  <1>11. w \in Library /\ Only(v, w, {"ticks"}) /\ Posted(v, w, {<<"read", s>>})
    BY <1>9, NextTickIs, SomePosts
  <1> HIDE DEF w
  <1>12. w.rd = v.rd /\ Only(x, v, {"rd", "ticks"}) /\ Only(x, w, {"rd", "ticks"})
         /\ Only(x, y, {"rd", "ticks"})
    BY <1>5, <1>9, <1>11 DEF Only, Members
  <1>13. /\ Resumes(x) => Resumes(y)
         /\ Resumes(x) => Resumes(w)
    BY <1>6, <1>10, <1>11 DEF Resumes, Posted
  <1>14. /\ \A t \in Streams : t # s => w.rd[t] = x.rd[t]
         /\ w.rd[s] = q
    BY <1>5, <1>9, <1>12
  <1>15. CASE y.rd[s].over
    <2>1. Emptied(x, s) = w
      BY <1>8, <1>15 DEF w
    <2> QED  BY <1>2, <1>4, <1>11, <1>12, <1>13, <1>14, <2>1
  <1>16. CASE ~y.rd[s].over
    <2>1. Emptied(x, s) = y
      BY <1>8, <1>16
    <2> QED  BY <1>2, <1>5, <1>12, <1>13, <2>1
  <1> QED  BY <1>15, <1>16

\* The listeners of "data" have returned.
LEMMA DataReturnsKeeps ==
  ASSUME Base, All(lib, heard, got), DataReturns
  PROVE  All(lib', heard, got)
  <1> DEFINE s == Top[2]
             x == Pop(lib)
             w == Emptied(x, s)
             y == lib'
  <1>1. Top[1] = "clear" /\ got \in Nat /\ Ordered(lib.stack)
    BY InputIs DEF DataReturns, All
  <1>2. s \in Streams /\ Top = <<"clear", s>>
    <2>1. Top \in Frames
      BY <1>1, Returned
    <2> QED  BY <1>1, <2>1, FrameIs
  <1>3. y = ToEnd(w, s)
    BY DEF DataReturns, Emptied
  <1>4. /\ x \in Library /\ Only(lib, x, {"stack"}) /\ Ordered(x.stack)
        /\ Has(lib.stack, Top)
        /\ \A g : Has(lib.stack, g) <=> Has(x.stack, g) \/ g = Top
        /\ \A g : Rank(g) <= Rank(Top) =>
             Above(g, x.stack) /\ (g # <<"emit", "sock">> => ~Has(x.stack, g))
    BY <1>1, Returned
  <1>5. x.rd = lib.rd /\ x.ticks = lib.ticks /\ x.failed = lib.failed /\ x.res = lib.res
    BY <1>4, OnlyStack
  <1> HIDE DEF x, y, s
  <1>6. /\ w \in Library /\ Only(x, w, {"rd", "ticks"})
        /\ \A t \in Streams : t # s => w.rd[t] = x.rd[t]
        /\ \A f \in {"flowing", "ended", "endEmitted", "destroyed"} :
             w.rd[s][f] = x.rd[s][f]
        /\ w.rd[s].buf = <<>>
        /\ Resumes(x) => Resumes(w)
    BY <1>2, <1>4, EmptiedIs
  <1> HIDE DEF w
  <1>7. w.stack = x.stack /\ w.failed = lib.failed /\ w.res = lib.res
    BY <1>5, <1>6 DEF Only, Members
  <1>8. /\ Only(w, y, {"stack"}) /\ Ordered(y.stack)
        /\ \A g : Has(y.stack, g) <=>
             Has(x.stack, g) \/ (w.rd[s].ended /\ g = <<"end", s>>)
    <2>1. CASE w.rd[s].ended
      <3>1. y = Call(w, <<"end", s>>)
        BY <1>3, <2>1 DEF ToEnd
      <3>2. <<"end", s>> \in Frames
        BY <1>2, SomeFrames
      <3>3. Above(<<"end", s>>, w.stack)
        <4>1. Rank(<<"end", s>>) <= Rank(Top)
          BY <1>2, RanksAre DEF Streams
        <4> QED  BY <1>4, <1>7, <4>1
      <3>4. Ordered(w.stack)
        BY <1>4, <1>7
      <3> QED  BY <1>6, <1>7, <2>1, <3>1, <3>2, <3>3, <3>4, Called
    <2>2. CASE ~w.rd[s].ended
      <3>1. y = w
        BY <1>3, <2>2 DEF ToEnd
      <3> QED  BY <1>4, <1>7, <2>2, <3>1 DEF Only
    <2> QED  BY <2>1, <2>2
  <1>9. y.rd = w.rd /\ y.ticks = w.ticks /\ y.failed = lib.failed /\ y.res = lib.res
    BY <1>7, <1>8, OnlyStack
  <1>10. Resumes(lib) => Resumes(y)
    BY <1>5, <1>6, <1>9 DEF Resumes
  <1>11. CASE s = "req"
    <2>1. /\ y.rd.sock = lib.rd.sock /\ y.rd.req.buf = <<>>
          /\ y.rd.req.flowing = lib.rd.req.flowing /\ y.rd.req.ended = lib.rd.req.ended
          /\ y.rd.req.endEmitted = lib.rd.req.endEmitted
          /\ y.rd.req.destroyed = lib.rd.req.destroyed
      BY <1>5, <1>6, <1>9, <1>11 DEF Streams
    <2>2. /\ ~Has(y.stack, <<"clear", "req">>) /\ ~Has(y.stack, <<"ended", "req">>)
          /\ Has(y.stack, <<"end", "req">>) => lib.rd.req.ended
          /\ Has(y.stack, <<"clear", "sock">>) <=> Has(lib.stack, <<"clear", "sock">>)
          /\ \A f : f[1] = "feed" => (Has(y.stack, f) <=> Has(lib.stack, f))
      <3>1. \A e \in {"emit", "clear", "end", "ended"} :
              Rank(<<e, "req">>) <= Rank(Top) /\ <<e, "req">> # <<"emit", "sock">>
        BY <1>2, <1>11, RanksAre
      <3>2. \A e \in {"emit", "clear", "end", "ended"} : ~Has(x.stack, <<e, "req">>)
        BY <1>4, <3>1
      <3>3. w.rd.req.ended = lib.rd.req.ended
        BY <1>9, <2>1
      <3> QED  BY <1>2, <1>4, <1>8, <1>11, <3>2, <3>3
    <2>3. EndInv(y) /\ HeardInv(y, heard)
      BY <2>1, <2>2 DEF All, EndInv, HeardInv
    <2>4. FeedInv(y)
      BY <1>9, <2>2 DEF All, FeedInv, Feeding
    <2>5. FlowInv(y)
      BY <1>10, <2>1 DEF All, FlowInv, Runs
    <2>6. Given(y, heard) = Given(lib, heard)
      BY <1>2, <1>4, <1>11, <2>1, <2>2 DEF Given
    <2>7. \A p : ParserAt(lib, got, p) => ParserAt(y, got, p)
      BY <2>1, <2>2, SameParser
    <2> QED  BY <1>1, <1>8, <1>9, <2>1, <2>3, <2>4, <2>5, <2>6, <2>7, StepKeeps DEF y
  <1>12. CASE s = "sock"
    <2>1. /\ y.rd.req = lib.rd.req /\ y.rd.sock.buf = <<>>
          /\ y.rd.sock.flowing = lib.rd.sock.flowing
          /\ y.rd.sock.destroyed = lib.rd.sock.destroyed
      BY <1>5, <1>6, <1>9, <1>12 DEF Streams
    <2>2. /\ \A e \in {"emit", "clear", "end", "ended"} :
               Has(y.stack, <<e, "req">>) <=> Has(lib.stack, <<e, "req">>)
          /\ ~Has(y.stack, <<"clear", "sock">>)
          /\ \A f : f[1] = "feed" => ~Has(y.stack, f) /\ ~Has(lib.stack, f)
      <3>1. \A f : f[1] = "feed" => Rank(f) <= Rank(Top) /\ f # <<"emit", "sock">>
                                    /\ f # Top /\ f # <<"end", "sock">>
        <4>1. \A f : f[1] = "feed" => Rank(f) = 3
          BY DEF Rank
        <4> QED  BY <1>2, <1>12, <4>1, RanksAre
      <3>2. \A f : f[1] = "feed" => ~Has(x.stack, f)
        BY <1>4, <3>1
      <3>3. ~Has(x.stack, <<"clear", "sock">>)
        <4>1. Rank(Top) <= Rank(Top) /\ <<"clear", "sock">> # <<"emit", "sock">>
          BY RankIs
        <4> QED  BY <1>2, <1>4, <1>12, <4>1
      <3> QED  BY <1>2, <1>4, <1>8, <1>12, <3>1, <3>2, <3>3
    <2>3. EndInv(y) /\ HeardInv(y, heard)
      BY <2>1, <2>2 DEF All, EndInv, HeardInv
    <2>4. FeedInv(y)
      BY <2>2 DEF FeedInv, Feeding
    <2>5. FlowInv(y)
      <3>1. Emitting(y) <=> Emitting(lib)
        BY <2>2 DEF Emitting
      <3> HIDE DEF Resumes, Emitting
      <3> QED  BY <1>10, <2>1, <3>1 DEF All, FlowInv, Runs
    <2>6. Given(y, heard) = Given(lib, heard)
      BY <2>1, <2>2 DEF Given
    <2>7. ASSUME NEW p \in 0 .. got, ParserAt(lib, got, p) PROVE ParserAt(y, got, p)
      <3>1. p = got
        BY <1>2, <1>4, <1>12, <2>2, <2>7 DEF ParserAt, Feeding
      <3>2. LastOf(y.rd.sock.buf, got) /\ p + Len(y.rd.sock.buf) = got
        BY <1>1, <2>1, <3>1 DEF LastOf
      <3> QED  BY <2>2, <3>2 DEF ParserAt, Feeding
    <2> QED  BY <1>1, <1>8, <1>9, <2>1, <2>3, <2>4, <2>5, <2>6, <2>7, StepKeeps DEF y
  <1> QED  BY <1>2, <1>11, <1>12 DEF Streams

LEMMA ParserErrorIs ==
  ASSUME NEW x \in Library, x.record # "gone", Ordered(x.stack),
         Above(<<"user">>, x.stack)
  PROVE  /\ ParserError(x).failed /\ Ordered(ParserError(x).stack)
         /\ \A f : Visible(f) => (Has(ParserError(x).stack, f) <=> Has(x.stack, f))
         /\ ParserError(x).res = x.res /\ ~ParserError(x).rd.req.flowing
         /\ \A f \in {"ended", "endEmitted", "destroyed", "buf"} :
              ParserError(x).rd.req[f] = x.rd.req[f]
  <1> DEFINE v == Pause(x, "req")
             w == Pause(v, "sock")
             y == [w EXCEPT !.failed = TRUE]
  <1>1. /\ v \in Library /\ Only(x, v, {"rd"})
        /\ v.rd.req = [x.rd.req EXCEPT !.flowing = FALSE]
    BY PauseIs DEF Streams
  <1>2. x.rd.req \in ReadableType
    BY DEF Library
  <1>3. /\ ~v.rd.req.flowing
        /\ \A f \in {"ended", "endEmitted", "destroyed", "buf"} : v.rd.req[f] = x.rd.req[f]
    BY <1>1, <1>2 DEF ReadableType
  <1> HIDE DEF v
  <1>4. w \in Library /\ Only(v, w, {"rd"}) /\ w.rd.req = v.rd.req
    BY <1>1, PauseIs DEF Streams
  <1> HIDE DEF w
  <1>5. y \in Library /\ Only(w, y, {"failed"}) /\ y.failed
    BY <1>4 DEF Library, Only, Members
  <1>6. ParserError(x) = User(y)
    BY DEF ParserError, WithSocket, w, v
  <1> HIDE DEF y
  <1>7. y.stack = x.stack /\ y.res = x.res /\ y.rd.req = v.rd.req
    BY <1>1, <1>4, <1>5 DEF Only, Members
  <1>8. /\ Only(y, User(y), {"stack"}) /\ Ordered(User(y).stack)
        /\ \A g : Visible(g) => (Has(User(y).stack, g) <=> Has(y.stack, g))
    BY <1>5, <1>7, CalledUser
  <1>9. User(y).rd = y.rd /\ User(y).failed = y.failed /\ User(y).res = y.res
    BY <1>8, OnlyStack
  <1> QED  BY <1>3, <1>5, <1>6, <1>7, <1>8, <1>9

\* The parser fails: nothing flows any more.
LEMMA ErrorKeeps ==
  ASSUME NEW x \in Library, x.record # "gone", NEW h, NEW n \in Nat, All(x, h, n),
         Above(<<"user">>, x.stack), ~Feeding(x)
  PROVE  All(ParserError(x), h, n)
  <1> DEFINE y == ParserError(x)
  <1>1. /\ y.failed /\ Ordered(y.stack)
        /\ \A f : Visible(f) => (Has(y.stack, f) <=> Has(x.stack, f))
        /\ y.res = x.res /\ ~y.rd.req.flowing
        /\ y.rd.req.ended = x.rd.req.ended /\ y.rd.req.endEmitted = x.rd.req.endEmitted
        /\ y.rd.req.destroyed = x.rd.req.destroyed /\ y.rd.req.buf = x.rd.req.buf
    BY ParserErrorIs DEF All
  <1> HIDE DEF y
  <1>2. /\ \A e \in {"emit", "clear", "end", "ended"} :
             Has(y.stack, <<e, "req">>) <=> Has(x.stack, <<e, "req">>)
        /\ \A f : f[1] = "feed" => (Has(y.stack, f) <=> Has(x.stack, f))
    BY <1>1, VisibleFrames
  <1>3. EndInv(y) /\ HeardInv(y, h)
    BY <1>1, <1>2 DEF All, EndInv, HeardInv
  <1>4. FeedInv(y) /\ FlowInv(y)
    BY <1>1, <1>2 DEF FeedInv, Feeding, FlowInv, Runs
  <1>5. Given(y, h) = Given(x, h)
    BY <1>1, <1>2 DEF Given
  <1> QED  BY <1>1, <1>3, <1>4, <1>5, StepKeeps DEF y

\* The listeners of "end" of the request are called when it has been heard; the
\* parser, when the socket ends.
LEMMA EmitEndKeeps ==
  ASSUME Base, All(lib, heard, got), lib.record # "gone", EmitEnd
  PROVE  All(lib', heard', got)
  <1> DEFINE s == Top[2]
             x == Pop(lib)
             c == Call(x, <<"ended", s>>)
             y == lib'
  <1>1. Top[1] = "end" /\ got \in Nat /\ Ordered(lib.stack)
    BY InputIs DEF EmitEnd, All
  <1>2. s \in Streams /\ Top = <<"end", s>>
    <2>1. Top \in Frames
      BY <1>1, Returned
    <2> QED  BY <1>1, <2>1, FrameIs
  <1>3. /\ y = IF s = "req" THEN User(c)
               ELSE IF s = "sock" /\ ~c.failed /\ Truncated THEN ParserError(c)
               ELSE c
        /\ heard' = IF s = "req" THEN [heard EXCEPT !.end = TRUE] ELSE heard
    BY DEF EmitEnd
  <1>4. /\ x \in Library /\ Only(lib, x, {"stack"}) /\ Ordered(x.stack)
        /\ Has(lib.stack, Top)
        /\ \A g : Has(lib.stack, g) <=> Has(x.stack, g) \/ g = Top
        /\ \A g : Rank(g) <= Rank(Top) =>
             Above(g, x.stack) /\ (g # <<"emit", "sock">> => ~Has(x.stack, g))
    BY <1>1, Returned
  <1>5. x.rd = lib.rd /\ x.ticks = lib.ticks /\ x.failed = lib.failed /\ x.res = lib.res
    BY <1>4, OnlyStack
  <1> HIDE DEF x, y, s
  <1>6. <<"ended", s>> \in Frames /\ Above(<<"ended", s>>, x.stack)
        /\ Rank(<<"user">>) < Rank(<<"ended", s>>)
    <2>1. Rank(<<"ended", s>>) <= Rank(Top) /\ Rank(<<"user">>) < Rank(<<"ended", s>>)
      BY <1>2, RanksAre DEF Streams
    <2> QED  BY <1>2, <1>4, <2>1, SomeFrames
  <1>7. /\ c \in Library /\ Only(x, c, {"stack"}) /\ Ordered(c.stack)
        /\ \A g : Has(c.stack, g) <=> Has(x.stack, g) \/ g = <<"ended", s>>
        /\ Above(<<"user">>, c.stack)
    BY <1>4, <1>6, Called
  <1>8. c.rd = lib.rd /\ c.ticks = lib.ticks /\ c.failed = lib.failed /\ c.res = lib.res
    BY <1>5, <1>7, OnlyStack
  <1>9. CASE s = "req"
    <2> HIDE DEF c
    <2>1. y = User(c) /\ heard' = [heard EXCEPT !.end = TRUE]
      BY <1>3, <1>9
    <2>2. /\ Only(c, y, {"stack"}) /\ Ordered(y.stack)
          /\ \A g : Visible(g) => (Has(y.stack, g) <=> Has(c.stack, g))
      BY <1>7, <2>1, CalledUser
    <2>3. y.rd = lib.rd /\ y.ticks = lib.ticks /\ y.failed = lib.failed /\ y.res = lib.res
      BY <1>8, <2>2, OnlyStack
    <2>4. /\ \A e \in {"emit", "clear"} :
               Has(y.stack, <<e, "req">>) <=> Has(lib.stack, <<e, "req">>)
          /\ ~Has(y.stack, <<"end", "req">>)
          /\ Has(y.stack, <<"clear", "sock">>) <=> Has(lib.stack, <<"clear", "sock">>)
          /\ \A f : f[1] = "feed" => (Has(y.stack, f) <=> Has(lib.stack, f))
      <3>1. ~Has(x.stack, <<"end", "req">>)
        <4>1. Rank(Top) <= Rank(Top) /\ <<"end", "req">> # <<"emit", "sock">>
          BY RankIs
        <4> QED  BY <1>2, <1>4, <1>9, <4>1
      <3> QED  BY <1>2, <1>4, <1>7, <1>9, <2>2, <3>1, VisibleFrames
    <2>5. lib.rd.req.ended /\ lib.rd.req.buf = <<>>
      BY <1>2, <1>4, <1>9 DEF All, EndInv
    <2>6. heard'.body = heard.body
      BY <2>1 DEF Base
    <2>7. EndInv(y) /\ HeardInv(y, heard')
      BY <2>3, <2>4, <2>5 DEF EndInv, HeardInv
    <2>8. FeedInv(y)
      BY <2>3, <2>4 DEF All, FeedInv, Feeding
    <2>9. FlowInv(y)
      BY <2>3, <2>5 DEF FlowInv, Runs
    <2>10. Given(y, heard') = Given(lib, heard)
      BY <2>3, <2>4, <2>6 DEF Given
    <2>11. \A p : ParserAt(lib, got, p) => ParserAt(y, got, p)
      BY <2>3, <2>4, SameParser
    <2> QED  BY <1>1, <2>2, <2>3, <2>7, <2>8, <2>9, <2>10, <2>11, StepKeeps DEF y
  <1>10. CASE s = "sock"
    <2>1. heard' = heard /\ (y = c \/ y = ParserError(c))
      BY <1>3, <1>10
    <2>2. Inert(lib, x)
      <3>1. lib.stack # <<>> /\ Top = Head(lib.stack)
        BY <1>1 DEF Top
      <3>2. ~Visible(Top)
        BY <1>2, <1>10, HiddenFrames
      <3> QED  BY <1>1, <3>1, <3>2, PopOrder DEF Base, Typed, x
    <2>3. Inert(x, c)
      BY <1>4, <1>6, <1>10, InertCall, HiddenFrames
    <2>4. All(c, heard, got)
      BY <2>2, <2>3, InertTwice, InertKeeps
    <2>5. ~Feeding(c)
      <3>1. \A f : f[1] = "feed" => Rank(f) <= Rank(Top) /\ f # <<"emit", "sock">>
                                    /\ f # <<"ended", "sock">>
        <4>1. \A f : f[1] = "feed" => Rank(f) = 3
          BY DEF Rank
        <4> QED  BY <1>2, <1>10, <4>1, RanksAre
      <3> QED  BY <1>4, <1>7, <1>10, <3>1 DEF Feeding
    <2>7. c.record # "gone"
      BY <1>4, <1>7 DEF Only, Members
    <2> HIDE DEF c
    <2>6. All(ParserError(c), heard, got)
      BY <1>1, <1>7, <2>4, <2>5, <2>7, ErrorKeeps
    <2> QED  BY <2>1, <2>4, <2>6 DEF y
  <1> QED  BY <1>2, <1>9, <1>10 DEF Streams

\* A member of a Readable that the invariant does not speak of.
LEMMA EndReturnsKeeps ==
  ASSUME Base, All(lib, heard, got), EndReturns
  PROVE  All(lib', heard, got)
  <1> DEFINE s == Top[2]
             x == Pop(lib)
             r == [x.rd[s] EXCEPT !.endEmitted = TRUE]
             y == lib'
  <1>1. Top[1] = "ended" /\ got \in Nat /\ Ordered(lib.stack)
    BY InputIs DEF EndReturns, All
  <1>2. s \in Streams /\ Top = <<"ended", s>>
    <2>1. Top \in Frames
      BY <1>1, Returned
    <2> QED  BY <1>1, <2>1, FrameIs
  <1>3. /\ x \in Library /\ Only(lib, x, {"stack"}) /\ Ordered(x.stack)
        /\ Has(lib.stack, Top)
        /\ \A g : Has(lib.stack, g) <=> Has(x.stack, g) \/ g = Top
    BY <1>1, Returned
  <1>4. x.rd = lib.rd /\ x.ticks = lib.ticks /\ x.failed = lib.failed /\ x.res = lib.res
    BY <1>3, OnlyStack
  <1>5. x.rd[s] \in ReadableType
    BY <1>2, <1>3 DEF Library, Streams
  <1>6. y = [x EXCEPT !.rd[s] = r]
    <2>1. y = [x EXCEPT !.rd[s].endEmitted = TRUE]
      BY DEF EndReturns
    <2> QED  BY <1>2, <1>3, <2>1 DEF Library, Streams
  <1>7. /\ r \in ReadableType
        /\ \A f \in {"flowing", "ended", "destroyed", "buf"} : r[f] = x.rd[s][f]
    BY <1>5 DEF ReadableType
  <1> HIDE DEF x, y, s, r
  <1>8. /\ Only(x, y, {"rd"}) /\ y.rd[s] = r
        /\ \A t \in Streams : t # s => y.rd[t] = x.rd[t]
    BY <1>2, <1>3, <1>6, <1>7, SetReadable
  <1>9. /\ y.stack = x.stack /\ y.ticks = lib.ticks /\ y.failed = lib.failed
        /\ y.res = lib.res
    BY <1>4, <1>8 DEF Only, Members
  <1>10. \A t \in Streams : \A f \in {"flowing", "ended", "destroyed", "buf"} :
           y.rd[t][f] = lib.rd[t][f]
    <2> TAKE t \in Streams
    <2>1. CASE t = s
      BY <1>4, <1>7, <1>8, <2>1
    <2>2. CASE t # s
      BY <1>4, <1>8, <2>2
    <2> QED  BY <2>1, <2>2
  <1>11. /\ y.rd.req.flowing = lib.rd.req.flowing /\ y.rd.req.ended = lib.rd.req.ended
         /\ y.rd.req.destroyed = lib.rd.req.destroyed /\ y.rd.req.buf = lib.rd.req.buf
         /\ y.rd.sock.flowing = lib.rd.sock.flowing
         /\ y.rd.sock.destroyed = lib.rd.sock.destroyed
         /\ y.rd.sock.buf = lib.rd.sock.buf
         /\ y.rd.req.endEmitted => lib.rd.req.endEmitted \/ s = "req"
    BY <1>2, <1>4, <1>8, <1>10 DEF Streams
  <1>12. /\ \A e \in {"emit", "clear", "end"} :
              Has(y.stack, <<e, "req">>) <=> Has(lib.stack, <<e, "req">>)
         /\ Has(y.stack, <<"ended", "req">>) => Has(lib.stack, <<"ended", "req">>)
         /\ Has(y.stack, <<"clear", "sock">>) <=> Has(lib.stack, <<"clear", "sock">>)
         /\ \A f : f[1] = "feed" => (Has(y.stack, f) <=> Has(lib.stack, f))
         /\ s = "req" => Has(lib.stack, <<"ended", "req">>)
    BY <1>2, <1>3, <1>9
  <1>13. EndInv(y) /\ HeardInv(y, heard)
    BY <1>11, <1>12 DEF All, EndInv, HeardInv
  <1>14. FeedInv(y)
    BY <1>9, <1>12 DEF All, FeedInv, Feeding
  <1>15. FlowInv(y)
    <2>1. (Emitting(y) <=> Emitting(lib)) /\ (Resumes(y) <=> Resumes(lib))
      BY <1>9, <1>12 DEF Emitting, Resumes
    <2> HIDE DEF Resumes, Emitting
    <2> QED  BY <1>11, <2>1 DEF All, FlowInv, Runs
  <1>16. Given(y, heard) = Given(lib, heard)
    BY <1>11, <1>12 DEF Given
  <1>17. \A p : ParserAt(lib, got, p) => ParserAt(y, got, p)
    BY <1>11, <1>12, SameParser
  <1> QED  BY <1>1, <1>3, <1>9, <1>11, <1>13, <1>14, <1>15, <1>16, <1>17, StepKeeps DEF y

\* _push of the request returns, and on_data pauses the socket if it was refused: a
\* request that flows will then emit what is over the mark, and resume the socket.
LEMMA PushReturnsKeeps ==
  ASSUME Base, All(lib, heard, got), lib.record # "gone", PushReturns
  PROVE  All(lib', heard, got)
  <1> DEFINE s == Top[2]
             over == Len(lib.rd[s].buf) > Mark
             x == Pop(lib)
             r == [x.rd[s] EXCEPT !.over = over]
             v == [x EXCEPT !.rd[s] = r]
             y == lib'
  <1>1. Top[1] \in {"pushed", "pushedEnd"} /\ got \in Nat /\ Ordered(lib.stack)
        /\ Top[1] # "none"
    BY InputIs DEF PushReturns, All
  <1>2. /\ s \in Streams /\ Top \in {<<"pushed", "req">>, <<"pushed", "sock">>,
                                     <<"pushedEnd", "req">>}
        /\ Top = <<"pushed", "req">> => s = "req"
    <2>1. Top \in Frames
      BY <1>1, Returned
    <2>2. Top = <<"pushedEnd", "req">> \/ (Top[2] \in Streams /\ Top = <<"pushed", Top[2]>>)
      BY <1>1, <2>1, FrameIs
    <2> QED  BY <2>2 DEF Streams
  <1>3. /\ x \in Library /\ Only(lib, x, {"stack"}) /\ Ordered(x.stack)
        /\ \A g : Has(lib.stack, g) <=> Has(x.stack, g) \/ g = Top
        /\ \A g : Rank(g) <= Rank(Top) =>
             Above(g, x.stack) /\ (g # <<"emit", "sock">> => ~Has(x.stack, g))
    BY <1>1, Returned
  <1>4. x.rd = lib.rd /\ x.ticks = lib.ticks /\ x.failed = lib.failed /\ x.res = lib.res
    BY <1>3, OnlyStack
  <1>5. x.rd[s] \in ReadableType /\ over \in BOOLEAN
    BY <1>2, <1>3 DEF Library, Streams
  <1>6. [x EXCEPT !.rd[s].over = over] = v
    BY <1>2, <1>3 DEF Library, Streams
  <1>7. y = IF Top = <<"pushed", "req">> /\ (over \/ ~v.rd[s].flowing)
            THEN Pause(v, "sock") ELSE v
    <2>3. v.record # "gone"
      BY <1>3 DEF Only, Members
    <2> DEFINE z == [x EXCEPT !.rd[s].over = over]
    <2>1. y = IF Top = <<"pushed", "req">> /\ (over \/ ~z.rd[s].flowing)
              THEN PushRefused(z) ELSE z
      BY DEF PushReturns
    <2>2. z = v
      BY <1>6
    <2> HIDE DEF z, v
    <2> QED  BY <2>1, <2>2, <2>3 DEF PushRefused, WithSocket
  <1>8. over => lib.rd[s].buf # <<>>
    <2>1. Mark \in Nat \ {0} /\ Len(<<>>) = 0
      BY HttpExchangeAssumption
    <2> QED  BY <2>1
  <1> HIDE DEF over
  <1>9. /\ r \in ReadableType
        /\ \A f \in {"flowing", "ended", "endEmitted", "destroyed", "buf"} :
             r[f] = x.rd[s][f]
    BY <1>5 DEF ReadableType
  <1> HIDE DEF x, y, s, r
  <1>10. /\ v \in Library /\ Only(x, v, {"rd"}) /\ v.rd[s] = r
         /\ \A t \in Streams : t # s => v.rd[t] = x.rd[t]
    BY <1>2, <1>3, <1>9, SetReadable
  <1> HIDE DEF v
  <1>11. \A t \in Streams : \A f \in {"flowing", "ended", "endEmitted", "destroyed", "buf"} :
           v.rd[t][f] = lib.rd[t][f]
    <2> TAKE t \in Streams
    <2>1. CASE t = s
      BY <1>4, <1>9, <1>10, <2>1
    <2>2. CASE t # s
      BY <1>4, <1>10, <2>2
    <2> QED  BY <2>1, <2>2
  <1>12. /\ y \in Library /\ Only(v, y, {"rd"}) /\ y.rd.req = v.rd.req
         /\ y.rd.sock.destroyed = v.rd.sock.destroyed /\ y.rd.sock.buf = v.rd.sock.buf
         /\ \/ y.rd.sock.flowing = v.rd.sock.flowing
            \/ Top = <<"pushed", "req">> /\ (over \/ ~v.rd[s].flowing)
    <2>1. v.rd.sock \in ReadableType
      BY <1>10 DEF Library
    <2>2. /\ Pause(v, "sock") \in Library /\ Only(v, Pause(v, "sock"), {"rd"})
          /\ Pause(v, "sock").rd.sock = [v.rd.sock EXCEPT !.flowing = FALSE]
          /\ Pause(v, "sock").rd.req = v.rd.req
      BY <1>10, PauseIs DEF Streams
    <2> QED  BY <1>7, <1>10, <2>1, <2>2 DEF Only, ReadableType
  <1>13. /\ y.stack = x.stack /\ y.ticks = lib.ticks /\ y.failed = lib.failed
         /\ y.res = lib.res
    BY <1>4, <1>10, <1>12 DEF Only, Members
  <1>14. /\ y.rd.req.flowing = lib.rd.req.flowing /\ y.rd.req.ended = lib.rd.req.ended
         /\ y.rd.req.endEmitted = lib.rd.req.endEmitted
         /\ y.rd.req.destroyed = lib.rd.req.destroyed /\ y.rd.req.buf = lib.rd.req.buf
         /\ y.rd.sock.destroyed = lib.rd.sock.destroyed
         /\ y.rd.sock.buf = lib.rd.sock.buf
    BY <1>11, <1>12 DEF Streams
  <1>15. \A g : Visible(g) => (Has(y.stack, g) <=> Has(lib.stack, g))
    BY <1>2, <1>3, <1>13, HiddenFrames
  <1>16. /\ \A e \in {"emit", "clear", "end", "ended"} :
              Has(y.stack, <<e, "req">>) <=> Has(lib.stack, <<e, "req">>)
         /\ Has(y.stack, <<"clear", "sock">>) <=> Has(lib.stack, <<"clear", "sock">>)
         /\ \A f : f[1] = "feed" => (Has(y.stack, f) <=> Has(lib.stack, f))
    BY <1>15, VisibleFrames
  <1>17. EndInv(y) /\ HeardInv(y, heard)
    BY <1>14, <1>16 DEF All, EndInv, HeardInv
  <1>18. FeedInv(y)
    BY <1>13, <1>16 DEF All, FeedInv, Feeding
  <1>19. FlowInv(y)
    <2>1. (Emitting(y) <=> Emitting(lib)) /\ (Resumes(y) <=> Resumes(lib))
      BY <1>13, <1>16 DEF Emitting, Resumes
    <2>2. Top = <<"pushed", "req">> => ~Emitting(lib)
      <3>1. ASSUME Top = <<"pushed", "req">>
            PROVE  \A e \in {"emit", "clear"} : ~Has(lib.stack, <<e, "req">>)
        <4>1. \A e \in {"emit", "clear"} :
                /\ Rank(<<e, "req">>) <= Rank(Top) /\ <<e, "req">> # <<"emit", "sock">>
                /\ <<e, "req">> # Top
          BY <3>1, RanksAre
        <4> QED  BY <1>3, <4>1
      <3> QED  BY <3>1 DEF Emitting
    <2>3. \/ y.rd.sock.flowing = lib.rd.sock.flowing
          \/ /\ Top = <<"pushed", "req">>
             /\ lib.rd.req.buf # <<>> \/ ~lib.rd.req.flowing
      <3>1. CASE y.rd.sock.flowing = v.rd.sock.flowing
        BY <1>11, <3>1 DEF Streams
      <3>2. CASE Top = <<"pushed", "req">> /\ (over \/ ~v.rd[s].flowing)
        BY <1>2, <1>8, <1>11, <3>2 DEF Streams
      <3> QED  BY <1>12, <3>1, <3>2
    <2> HIDE DEF Resumes, Emitting
    <2> QED  BY <1>14, <2>1, <2>2, <2>3 DEF All, FlowInv, Runs
  <1>20. Given(y, heard) = Given(lib, heard)
    BY <1>14, <1>16 DEF Given
  <1>21. \A p : ParserAt(lib, got, p) => ParserAt(y, got, p)
    BY <1>14, <1>16, SameParser
  <1> QED  BY <1>1, <1>3, <1>13, <1>14, <1>17, <1>18, <1>19, <1>20, <1>21, StepKeeps DEF y

\* A buffer with more pushed to it.
Pushed(buf, items) == buf \o items

\* _push of bytes or of the end calls _emitData.
LEMMA PushIs ==
  ASSUME NEW x \in Library, Ordered(x.stack), NEW s \in Streams, NEW items \in Seq(Nat),
         Above(<<"emit", s>>, x.stack), NEW y, y = Push(x, s, items)
  PROVE  /\ Only(x, y, {"rd", "stack"}) /\ Ordered(y.stack)
         /\ \A g : Has(y.stack, g) <=> Has(x.stack, g) \/ g = <<"emit", s>>
         /\ \A t \in Streams : t # s => y.rd[t] = x.rd[t]
         /\ y.rd[s].buf = Pushed(x.rd[s].buf, items)
         /\ y.rd[s].ended <=> x.rd[s].ended \/ items = <<>>
         /\ \A f \in {"flowing", "endEmitted", "destroyed"} : y.rd[s][f] = x.rd[s][f]
  <1> DEFINE r == [x.rd[s] EXCEPT !.buf = @ \o items, !.ended = @ \/ items = <<>>]
             v == [x EXCEPT !.rd[s] = r]
  <1>1. x.rd[s] \in ReadableType /\ x.rd[s].buf \in Seq(Nat)
    BY DEF Library, Streams, ReadableType
  <1>2. /\ r \in ReadableType /\ r.buf = x.rd[s].buf \o items
        /\ r.ended <=> (x.rd[s].ended \/ items = <<>>)
        /\ \A f \in {"flowing", "endEmitted", "destroyed"} : r[f] = x.rd[s][f]
    BY <1>1, ConcatProperties DEF ReadableType
  <1>3. y = Call(v, <<"emit", s>>)
    BY ZenonT(30) DEF Push, Library, Streams
  <1> HIDE DEF r
  <1>4. /\ v \in Library /\ Only(x, v, {"rd"}) /\ v.rd[s] = r
        /\ \A t \in Streams : t # s => v.rd[t] = x.rd[t]
    BY <1>2, SetReadable
  <1>5. v.stack = x.stack
    BY <1>4 DEF Only, Members
  <1> HIDE DEF v
  <1>6. /\ Only(v, y, {"stack"}) /\ Ordered(y.stack)
        /\ \A g : Has(y.stack, g) <=> Has(v.stack, g) \/ g = <<"emit", s>>
    <2>1. <<"emit", s>> \in Frames /\ Ordered(v.stack) /\ Above(<<"emit", s>>, v.stack)
      BY <1>5, SomeFrames
    <2>2. /\ Only(v, Call(v, <<"emit", s>>), {"stack"})
          /\ Ordered(Call(v, <<"emit", s>>).stack)
          /\ \A g : Has(Call(v, <<"emit", s>>).stack, g) <=>
                  Has(v.stack, g) \/ g = <<"emit", s>>
      BY <1>4, <2>1, Called
    <2> QED  BY <1>3, <2>2
  <1>7. y.rd = v.rd /\ Only(x, y, {"rd", "stack"})
    BY <1>4, <1>6 DEF Only, Members
  <1> QED  BY <1>2, <1>4, <1>5, <1>6, <1>7 DEF Pushed

LEMMA LastOfMore ==
  ASSUME NEW n \in Nat, NEW k \in Nat, NEW q \in Seq(Nat), LastOf(q, n)
  PROVE  LET t == q \o [i \in 1 .. k |-> n + i]
         IN  LastOf(t, n + k) /\ Len(t) = Len(q) + k
  <1> DEFINE b == [i \in 1 .. k |-> n + i]
             t == q \o b
  <1>1. b \in Seq(Nat) /\ Len(b) = k
    <2>1. \A i \in 1 .. k : n + i \in Nat
      OBVIOUS
    <2> QED  BY <2>1, IsASeq
  <1>2. \A i \in 1 .. k : b[i] = n + i
    OBVIOUS
  <1> HIDE DEF b
  <1>3. /\ Len(q) \in Nat /\ Len(t) = Len(q) + k /\ DOMAIN t = 1 .. Len(q) + k
        /\ DOMAIN q = 1 .. Len(q)
        /\ \A i \in 1 .. Len(q) : t[i] = q[i]
        /\ \A i \in 1 .. Len(q) + k : i > Len(q) => t[i] = b[i - Len(q)]
    BY <1>1
  <1> HIDE DEF t
  <1>4. ASSUME NEW i \in DOMAIN t PROVE t[i] = (n + k) - Len(t) + i
    <2>1. CASE i <= Len(q)
      <3>1. i \in DOMAIN q /\ t[i] = q[i] /\ q[i] = n - Len(q) + i
        BY <1>3, <2>1 DEF LastOf
      <3> QED  BY <1>3, <3>1
    <2>2. CASE i > Len(q)
      <3>1. i - Len(q) \in 1 .. k /\ t[i] = b[i - Len(q)]
        BY <1>3, <2>2
      <3>2. t[i] = n + (i - Len(q))
        BY <1>2, <3>1
      <3> QED  BY <1>3, <3>2
    <2> QED  BY <1>3, <2>1, <2>2
  <1> QED  BY <1>3, <1>4 DEF LastOf, t, b

\* What is read goes to the socket's buffer, behind what it holds.
LEMMA ReadDataKeeps ==
  ASSUME Base, All(lib, heard, got), ReadData
  PROVE  All(lib', heard, got')
  <1> DEFINE x == Pop(lib)
             c == Call(lib, <<"pushed", "sock">>)
             y == lib'
  <1>1. Top = <<"doRead">> /\ Top[1] # "none" /\ got \in Nat /\ Ordered(lib.stack)
        /\ lib \in Library /\ Typed(lib, got) /\ Len(input) \in Nat
    BY InputIs DEF ReadData, All, Base, Typed
  <1>2. PICK k \in 1 .. Len(input) - got :
          got' = got + k /\ y = Push(c, "sock", [i \in 1 .. k |-> got + i])
    BY DEF ReadData
  <1> DEFINE items == [i \in 1 .. k |-> got + i]
  <1>3. /\ k \in Nat /\ got' \in Nat /\ got <= got' /\ items \in Seq(1 .. got')
    <2>1. \A i \in 1 .. k : got + i \in 1 .. got'
      BY <1>1, <1>2
    <2>2. k \in Nat /\ got' \in Nat /\ got <= got'
      BY <1>1, <1>2
    <2> QED  BY <2>1, <2>2, IsASeq
  <1>4. /\ lib.stack \in Seq(Frames) /\ lib.stack # <<>> /\ Top = Head(lib.stack)
        /\ \A g : Rank(g) <= Rank(Top) =>
             Above(g, x.stack) /\ (g # <<"emit", "sock">> => ~Has(x.stack, g))
        /\ \A g : Has(lib.stack, g) <=> Has(x.stack, g) \/ g = Top
        /\ x \in Library /\ x.stack = Tail(lib.stack)
    BY <1>1, Returned, PopIs DEF Library, Top
  <1>5. <<"pushed", "sock">> \in Frames /\ <<"emit", "sock">> \in Frames
        /\ <<"doRead">> \in Frames
    BY SomeFrames DEF Streams
  <1>6. Above(<<"pushed", "sock">>, lib.stack)
    <2>1. Rank(<<"pushed", "sock">>) < Rank(<<"doRead">>)
          /\ Rank(<<"pushed", "sock">>) <= Rank(Top)
      BY <1>1, RanksAre
    <2>2. Above(<<"pushed", "sock">>, x.stack) /\ x.stack \in Seq(Frames)
      BY <1>4, <2>1 DEF Library
    <2>3. lib.stack = <<<<"doRead">>>> \o x.stack
      BY <1>1, <1>4, HeadTailProperties
    <2> HIDE DEF x
    <2> QED  BY <1>5, <2>1, <2>2, <2>3, AbovePush
  <1>7. /\ ~Feeding(lib) /\ ~Has(lib.stack, <<"clear", "sock">>)
    <2>1. Rank(<<"clear", "sock">>) <= Rank(Top) /\ <<"clear", "sock">> # <<"emit", "sock">>
          /\ <<"clear", "sock">> # Top
      BY <1>1, RanksAre
    <2> QED  BY <1>4, <2>1 DEF All, FeedInv
  <1> HIDE DEF x
  <1>8. /\ Typed(lib, got') /\ Typed(c, got') /\ Only(lib, c, {"stack"})
    BY <1>1, <1>3, TypedMore, TypedCall, FramesAreOK DEF Streams
  <1>9. /\ Ordered(c.stack) /\ Above(<<"emit", "sock">>, c.stack) /\ c \in Library
        /\ \A g : Has(c.stack, g) <=> Has(lib.stack, g) \/ g = <<"pushed", "sock">>
    <2>1. Rank(<<"emit", "sock">>) < Rank(<<"pushed", "sock">>)
      BY RanksAre
    <2> QED  BY <1>1, <1>5, <1>6, <2>1, Called
  <1> HIDE DEF c, items, y
  <1>10. /\ Only(c, y, {"rd", "stack"}) /\ Ordered(y.stack)
         /\ \A g : Has(y.stack, g) <=> Has(c.stack, g) \/ g = <<"emit", "sock">>
         /\ y.rd.req = c.rd.req /\ y.rd.sock.buf = c.rd.sock.buf \o items
         /\ y.rd.sock.flowing = c.rd.sock.flowing
         /\ y.rd.sock.destroyed = c.rd.sock.destroyed
    <2>1. y = Push(c, "sock", items)
      BY <1>2 DEF items
    <2>2. "sock" \in Streams /\ "req" \in Streams /\ "req" # "sock"
      BY DEF Streams
    <2>3. items \in Seq(Nat)
      <3>1. 1 .. got' \subseteq Nat
        OBVIOUS
      <3> QED  BY <1>3, <3>1
    <2> HIDE DEF y
    <2>5. /\ Only(c, y, {"rd", "stack"}) /\ Ordered(y.stack)
          /\ \A g : Has(y.stack, g) <=> Has(c.stack, g) \/ g = <<"emit", "sock">>
          /\ \A t \in Streams : t # "sock" => y.rd[t] = c.rd[t]
          /\ y.rd["sock"].buf = c.rd["sock"].buf \o items
          /\ y.rd["sock"].flowing = c.rd["sock"].flowing
          /\ y.rd["sock"].destroyed = c.rd["sock"].destroyed
      <3>1. Only(c, y, {"rd", "stack"})
        BY <1>9, <2>1, <2>2, <2>3, PushIs
      <3>2. Ordered(y.stack)
        BY <1>9, <2>1, <2>2, <2>3, PushIs
      <3>3. \A g : Has(y.stack, g) <=> Has(c.stack, g) \/ g = <<"emit", "sock">>
        BY <1>9, <2>1, <2>2, <2>3, PushIs
      <3>4. \A t \in Streams : t # "sock" => y.rd[t] = c.rd[t]
        BY <1>9, <2>1, <2>2, <2>3, PushIs
      <3>5. y.rd["sock"].buf = c.rd["sock"].buf \o items
        <4>1. y.rd["sock"].buf = Pushed(c.rd["sock"].buf, items)
          BY <1>9, <2>1, <2>2, <2>3, PushIs
        <4> QED  BY <4>1 DEF Pushed
      <3>6. /\ y.rd["sock"].flowing = c.rd["sock"].flowing
           /\ y.rd["sock"].destroyed = c.rd["sock"].destroyed
        BY <1>9, <2>1, <2>2, <2>3, PushIs
      <3> QED  BY <3>1, <3>2, <3>3, <3>4, <3>5, <3>6
    <2> QED  BY <2>2, <2>5
  <1>11. /\ y.ticks = lib.ticks /\ y.failed = lib.failed /\ y.res = lib.res
         /\ y.rd.req = lib.rd.req /\ c.rd = lib.rd
    BY <1>8, <1>10 DEF Only, Members
  <1>12. lib.rd.sock.buf \in Seq(Nat)
    BY <1>1 DEF Library, ReadableType
  <1>13. /\ y.rd.sock.buf = lib.rd.sock.buf \o items
         /\ y.rd.sock.flowing = lib.rd.sock.flowing
         /\ y.rd.sock.destroyed = lib.rd.sock.destroyed
    BY <1>10, <1>11
  <1>14. \A g : Has(y.stack, g) <=>
                Has(lib.stack, g) \/ g \in {<<"pushed", "sock">>, <<"emit", "sock">>}
    BY <1>9, <1>10
  <1>15. /\ \A e \in {"emit", "clear", "end", "ended"} :
              Has(y.stack, <<e, "req">>) <=> Has(lib.stack, <<e, "req">>)
         /\ Has(y.stack, <<"clear", "sock">>) <=> Has(lib.stack, <<"clear", "sock">>)
         /\ \A f : f[1] = "feed" => (Has(y.stack, f) <=> Has(lib.stack, f))
    BY <1>14
  <1>16. EndInv(y) /\ HeardInv(y, heard)
    BY <1>11, <1>15 DEF All, EndInv, HeardInv
  <1>17. FeedInv(y)
    BY <1>7, <1>15 DEF FeedInv, Feeding
  <1>18. FlowInv(y)
    <2>1. (Emitting(y) <=> Emitting(lib)) /\ (Resumes(y) <=> Resumes(lib))
      BY <1>11, <1>15 DEF Emitting, Resumes
    <2> HIDE DEF Resumes, Emitting
    <2> QED  BY <1>11, <1>13, <2>1 DEF All, FlowInv, Runs
  <1>19. Given(y, heard) = Given(lib, heard)
    BY <1>11, <1>15 DEF Given
  <1>20. ASSUME NEW p \in 0 .. got, ParserAt(lib, got, p) PROVE ParserAt(y, got', p)
    <2>1. LastOf(lib.rd.sock.buf, got) /\ p + Len(lib.rd.sock.buf) = got
      BY <1>7, <1>20 DEF ParserAt
    <2>2. LastOf(y.rd.sock.buf, got') /\ Len(y.rd.sock.buf) = Len(lib.rd.sock.buf) + k
      <3>1. LastOf(lib.rd.sock.buf \o items, got + k)
            /\ Len(lib.rd.sock.buf \o items) = Len(lib.rd.sock.buf) + k
        BY <1>1, <1>3, <1>12, <2>1, LastOfMore DEF items
      <3> QED  BY <1>2, <1>13, <3>1
    <2>3. p + Len(y.rd.sock.buf) = got'
      <3>1. Len(lib.rd.sock.buf) \in Nat
        BY <1>12, LenProperties
      <3>2. p \in Nat /\ k \in Nat /\ got \in Nat /\ got' = got + k
        BY <1>1, <1>2, <1>3, <1>20
      <3>3. Len(y.rd.sock.buf) = Len(lib.rd.sock.buf) + k /\ p + Len(lib.rd.sock.buf) = got
        BY <2>1, <2>2
      <3> HIDE DEF y
      <3> QED  BY <3>1, <3>2, <3>3
    <2> QED  BY <1>7, <1>15, <2>2, <2>3 DEF ParserAt, Feeding
  <1> QED  BY <1>1, <1>3, <1>10, <1>11, <1>16, <1>17, <1>18, <1>19, <1>20, StepKeeps DEF y

-----------------------------------------------------------------------------
(* What the parser finds *)

LEMMA SeqOfNat ==
  ASSUME NEW k \in Nat
  PROVE  \A q \in Seq(1 .. k) : q \in Seq(Nat)
  <1>1. 1 .. k \subseteq Nat
    OBVIOUS
  <1> QED  BY <1>1

LEMMA LastOfTail ==
  ASSUME NEW S, NEW n \in Nat, NEW q \in Seq(S), q # <<>>, LastOf(q, n)
  PROVE  /\ LastOf(Tail(q), n) /\ Len(Tail(q)) = Len(q) - 1 /\ Len(q) \in Nat
         /\ Head(q) = n - Len(q) + 1
  <1> DEFINE t == Tail(q)
  <1>1. /\ Len(q) \in Nat \ {0} /\ DOMAIN q = 1 .. Len(q) /\ Len(t) = Len(q) - 1
        /\ DOMAIN t = 1 .. Len(q) - 1 /\ Head(q) = q[1]
        /\ \A i \in 1 .. Len(q) - 1 : t[i] = q[i + 1]
    OBVIOUS
  <1> HIDE DEF t
  <1>2. ASSUME NEW i \in DOMAIN t PROVE t[i] = n - Len(t) + i
    <2>1. i + 1 \in DOMAIN q /\ t[i] = q[i + 1]
      BY <1>1
    <2>2. q[i + 1] = n - Len(q) + (i + 1)
      BY <2>1 DEF LastOf
    <2> QED  BY <1>1, <2>1, <2>2
  <1>3. q[1] = n - Len(q) + 1
    <2>1. 1 \in DOMAIN q
      BY <1>1
    <2> QED  BY <2>1 DEF LastOf
  <1> QED  BY <1>1, <1>2, <1>3 DEF LastOf, t

LEMMA HeadsMore ==
  ASSUME NEW p \in Nat
  PROVE  /\ Cardinality(Heads(p)) \in Nat
         /\ Cardinality(Heads(p)) <= Cardinality(Heads(p + 1))
         /\ input[p + 1] = "head" =>
              Cardinality(Heads(p + 1)) = Cardinality(Heads(p)) + 1
  <1>1. IsFiniteSet(Heads(p)) /\ Cardinality(Heads(p)) \in Nat
    <2>1. IsFiniteSet(1 .. p)
      BY FS_Interval
    <2>2. Heads(p) \subseteq 1 .. p
      BY DEF Heads
    <2>3. IsFiniteSet(Heads(p))
      BY <2>1, <2>2, FS_Subset
    <2> QED  BY <2>3, FS_CardinalityType
  <1>2. p + 1 \notin Heads(p)
    BY DEF Heads
  <1>3. CASE input[p + 1] = "head"
    <2>1. Heads(p + 1) = Heads(p) \cup {p + 1}
      BY <1>3 DEF Heads
    <2>2. Cardinality(Heads(p) \cup {p + 1}) = Cardinality(Heads(p)) + 1
      BY <1>1, <1>2, FS_AddElement
    <2>3. Cardinality(Heads(p + 1)) = Cardinality(Heads(p)) + 1
      BY <2>1, <2>2, Zenon
    <2> QED  BY <1>1, <2>3
  <1>4. CASE input[p + 1] # "head"
    <2>1. Heads(p + 1) = Heads(p)
      BY <1>4 DEF Heads
    <2> QED  BY <1>1, <1>4, <2>1
  <1> QED  BY <1>3, <1>4

\* A piece that is given to nobody leaves what was given in order.
LEMMA GivenStays ==
  ASSUME NEW p \in Nat, NEW q, GivenOK(q, p)
  PROVE  GivenOK(q, p + 1)
  <1>1. \A k \in DOMAIN q : q[k] \in 1 .. p + 1 /\ ~(p + 1 < q[k])
    BY DEF GivenOK
  <1>2. \A i \in 1 .. p + 1 : i \in 1 .. p \/ i = p + 1
    OBVIOUS
  <1> HIDE DEF InBody
  <1> QED  BY <1>1, <1>2 DEF GivenOK

\* The next piece of the body is given after all those before it.
LEMMA GivenMore ==
  ASSUME NEW p \in Nat, NEW q \in Seq(Nat), GivenOK(q, p), InBody(p + 1),
         \A i \in 1 .. p : InBody(i) => Has(q, i)
  PROVE  /\ GivenOK(q \o <<p + 1>>, p + 1)
         /\ \A i \in 1 .. p + 1 : InBody(i) => Has(q \o <<p + 1>>, i)
  <1> DEFINE t == q \o <<p + 1>>
  <1>1. /\ Len(q) \in Nat /\ DOMAIN q = 1 .. Len(q) /\ DOMAIN t = 1 .. Len(q) + 1
        /\ \A i \in 1 .. Len(q) : t[i] = q[i]
        /\ t[Len(q) + 1] = p + 1
    OBVIOUS
  <1> HIDE DEF t, InBody
  <1>2. \A i \in 1 .. p + 1 : i \in 1 .. p \/ i = p + 1
    OBVIOUS
  <1>3. \A k \in DOMAIN t : (k \in DOMAIN q /\ t[k] = q[k]) \/ (k = Len(q) + 1 /\ t[k] = p + 1)
    BY <1>1
  <1>4. \A k \in DOMAIN q : q[k] \in 1 .. p /\ InBody(q[k])
    BY DEF GivenOK
  <1>5. \A i \in 1 .. p + 1 : InBody(i) => Has(t, i)
    <2> TAKE i \in 1 .. p + 1
    <2> HAVE InBody(i)
    <2>1. CASE i \in 1 .. p
      <3>1. PICK k \in DOMAIN q : q[k] = i
        BY <2>1 DEF Has
      <3>2. k \in DOMAIN t /\ t[k] = i
        BY <1>1, <3>1
      <3> QED  BY <3>2 DEF Has
    <2>2. CASE i = p + 1
      <3>1. Len(q) + 1 \in DOMAIN t /\ t[Len(q) + 1] = i
        BY <1>1, <2>2
      <3> QED  BY <3>1 DEF Has
    <2> QED  BY <1>2, <2>1, <2>2
  <1>6. \A k \in DOMAIN t : t[k] \in 1 .. p + 1 /\ InBody(t[k])
    BY <1>3, <1>4
  <1>7. ASSUME NEW k \in DOMAIN t, NEW l \in DOMAIN t, k < l PROVE t[k] < t[l]
    <2>1. k \in DOMAIN q /\ t[k] = q[k]
      BY <1>1, <1>7
    <2>2. CASE l \in DOMAIN q
      <3>1. t[l] = q[l]
        BY <1>1, <2>2
      <3> QED  BY <1>7, <2>1, <2>2, <3>1 DEF GivenOK
    <2>3. CASE l = Len(q) + 1
      <3>1. t[l] = p + 1 /\ q[k] \in 1 .. p
        BY <1>1, <1>4, <2>1, <2>3
      <3> QED  BY <2>1, <3>1
    <2> QED  BY <1>3, <2>2, <2>3
  <1> QED  BY <1>5, <1>6, <1>7 DEF GivenOK, t

\* The frames when the parser finds a unit: it is fed the rest.
Fed(x, rest) == IF rest = <<>> THEN x ELSE Call(x, <<"feed", rest>>)

LEMMA FedIs ==
  ASSUME Base, All(lib, heard, got), FeedStep,
         NEW p \in 0 .. got, ParseInv(lib, heard, got, p),
         NEW x, x = Pop(lib), NEW y, y = Fed(x, Tail(Top[2]))
  PROVE  /\ p + 1 \in 1 .. got /\ lib' = ParseUnit(x, p + 1, Tail(Top[2]))
         /\ x \in Library /\ Only(lib, x, {"stack"}) /\ Ordered(x.stack)
         /\ y \in Library /\ Only(lib, y, {"stack"}) /\ Ordered(y.stack)
         /\ ~lib.failed
         /\ Has(y.stack, <<"clear", "sock">>)
         /\ \A f : f[1] = "feed" => ~Has(x.stack, f)
         /\ \A f : f[1] # "feed" => /\ Has(x.stack, f) <=> Has(lib.stack, f)
                                    /\ Has(y.stack, f) <=> Has(lib.stack, f)
         /\ \A e \in {"emit", "clear", "end", "ended"} : ~Has(lib.stack, <<e, "req">>)
         /\ \A g : Rank(g) <= 2 => Above(g, x.stack) /\ Above(g, y.stack)
         /\ \A z : /\ \A f : f[1] = "feed" => (Has(z.stack, f) <=> Has(y.stack, f))
                   /\ Has(z.stack, <<"clear", "sock">>)
                   => ParserAt(z, got, p + 1)
  <1> DEFINE q == Top[2]
             rest == Tail(q)
  <1>1. Top[1] = "feed" /\ got \in Nat /\ Ordered(lib.stack)
    BY InputIs DEF FeedStep, All
  <1>2. /\ x \in Library /\ Only(lib, x, {"stack"}) /\ Ordered(x.stack)
        /\ Top \in Frames /\ FrameOK(Top, got, DOMAIN lib.res) /\ Has(lib.stack, Top)
        /\ \A g : Has(lib.stack, g) <=> Has(x.stack, g) \/ g = Top
        /\ \A g : Rank(g) <= Rank(Top) =>
             Above(g, x.stack) /\ (g # <<"emit", "sock">> => ~Has(x.stack, g))
    BY <1>1, Returned
  <1>3. Top = <<"feed", q>> /\ q \in Seq(1 .. got) /\ q # <<>>
    BY <1>1, <1>2, FrameIs DEF FrameOK
  <1>4. lib' = ParseUnit(x, Head(q), rest)
    BY DEF FeedStep
  <1>5. ~lib.failed /\ Has(lib.stack, <<"clear", "sock">>)
    <2>1. Feeding(lib)
      BY <1>1, <1>2 DEF Feeding
    <2> QED  BY <2>1 DEF All, FeedInv
  <1>6. LastOf(q, got) /\ p + Len(q) = got
    <2>1. Top[1] = "feed" /\ Has(lib.stack, Top)
      BY <1>1, <1>2
    <2>2. ParserAt(lib, got, p)
      BY <1>5 DEF ParseInv
    <2> HIDE DEF Top
    <2> QED  BY <2>1, <2>2 DEF ParserAt
  <1>7. \A f : f[1] = "feed" => Rank(f) = 3
    BY DEF Rank
  <1>8. /\ \A f : f[1] = "feed" => ~Has(x.stack, f)
        /\ \A e \in {"emit", "clear", "end", "ended"} : ~Has(lib.stack, <<e, "req">>)
    <2>1. \A f : f[1] = "feed" => Rank(f) <= Rank(Top) /\ f # <<"emit", "sock">>
      BY <1>1, <1>7
    <2>2. \A e \in {"emit", "clear", "end", "ended"} :
            /\ Rank(<<e, "req">>) <= Rank(Top) /\ <<e, "req">> # <<"emit", "sock">>
            /\ <<e, "req">> # Top
      BY <1>1, <1>7, RanksAre
    <2> QED  BY <1>2, <2>1, <2>2
  <1> HIDE DEF q
  <1>9. /\ LastOf(rest, got) /\ Len(rest) = Len(q) - 1 /\ Len(q) \in Nat
        /\ Head(q) = got - Len(q) + 1 /\ rest \in Seq(1 .. got)
    <2>1. /\ LastOf(rest, got) /\ Len(rest) = Len(q) - 1 /\ Len(q) \in Nat
          /\ Head(q) = got - Len(q) + 1
      BY <1>1, <1>3, <1>6, LastOfTail
    <2> QED  BY <1>3, <2>1, HasTail
  <1>10. /\ Head(q) = p + 1 /\ (p + 1) + Len(rest) = got /\ p + 1 \in 1 .. got
    <2>1. Len(q) > 0
      BY <1>3
    <2> QED  BY <1>1, <1>6, <1>9, <2>1
  <1> HIDE DEF rest
  <1>11. /\ y \in Library /\ Only(lib, y, {"stack"}) /\ Ordered(y.stack)
         /\ \A g : Has(y.stack, g) <=>
                   Has(x.stack, g) \/ (rest # <<>> /\ g = <<"feed", rest>>)
         /\ \A g : Rank(g) <= 2 => Above(g, y.stack) /\ Above(g, x.stack)
    <2>1. y = IF rest = <<>> THEN x ELSE Call(x, <<"feed", rest>>)
      BY DEF Fed, q, rest
    <2>2. Rank(<<"feed", rest>>) = 3 /\ Rank(Top) = 3
      BY <1>1, <1>7
    <2>3. \A g : Rank(g) <= 2 => Rank(g) < Rank(<<"feed", rest>>) /\ Rank(g) <= Rank(Top)
      BY <2>2, RankIs
    <2>4. CASE rest = <<>>
      BY <1>2, <2>1, <2>3, <2>4
    <2>5. CASE rest # <<>>
      <3>1. <<"feed", rest>> \in Frames
        <4>1. rest \in Seq(Nat)
          BY <1>1, <1>9, SeqOfNat
        <4> QED  BY <4>1, SomeFrames
      <3>2. Above(<<"feed", rest>>, x.stack)
        BY <1>2, <2>2
      <3>3. /\ Call(x, <<"feed", rest>>) \in Library
            /\ Only(x, Call(x, <<"feed", rest>>), {"stack"})
            /\ Ordered(Call(x, <<"feed", rest>>).stack)
            /\ \A g : Has(Call(x, <<"feed", rest>>).stack, g) <=>
                      Has(x.stack, g) \/ g = <<"feed", rest>>
            /\ \A g : Rank(g) < Rank(<<"feed", rest>>) =>
                 Above(g, Call(x, <<"feed", rest>>).stack)
        BY <1>2, <3>1, <3>2, Called
      <3>4. y = Call(x, <<"feed", rest>>)
        BY <2>1, <2>5
      <3>5. Only(lib, y, {"stack"})
        BY <1>2, <3>3, <3>4 DEF Only
      <3> QED  BY <1>2, <2>3, <2>5, <3>3, <3>4, <3>5
    <2> QED  BY <2>4, <2>5
  <1>12. \A f : f[1] # "feed" => /\ Has(x.stack, f) <=> Has(lib.stack, f)
                                 /\ Has(y.stack, f) <=> Has(lib.stack, f)
    BY <1>1, <1>2, <1>11
  <1>13. ASSUME NEW z, \A f : f[1] = "feed" => (Has(z.stack, f) <=> Has(y.stack, f)),
                Has(z.stack, <<"clear", "sock">>)
         PROVE  ParserAt(z, got, p + 1)
    <2>1. \A f : f[1] = "feed" /\ Has(z.stack, f) => f = <<"feed", rest>>
      BY <1>8, <1>11, <1>13
    <2>2. ~Feeding(z) => p + 1 = got
      <3>1. rest # <<>> => Has(z.stack, <<"feed", rest>>)
        BY <1>11, <1>13
      <3>2. rest = <<>> => p + 1 = got
        <4>1. Len(<<>>) = 0
          OBVIOUS
        <4> QED  BY <1>1, <1>10, <4>1
      <3> QED  BY <3>1, <3>2 DEF Feeding
    <2> QED  BY <1>9, <1>10, <1>13, <2>1, <2>2 DEF ParserAt
  <1>14. Has(y.stack, <<"clear", "sock">>)
    BY <1>5, <1>12
  <1>15. lib' = ParseUnit(x, p + 1, Tail(Top[2]))
    BY <1>4, <1>10 DEF rest, q
  <1> QED  BY <1>2, <1>5, <1>8, <1>10, <1>11, <1>12, <1>13, <1>14, <1>15

\* The parser finds a unit that the request is not given: a head, or what comes
\* after its end or its destruction.
LEMMA FedQuietly ==
  ASSUME Base, All(lib, heard, got), FeedStep,
         NEW p \in 0 .. got, ParseInv(lib, heard, got, p),
         NEW x, x = Pop(lib), NEW y, y = Fed(x, Tail(Top[2])),
         NEW z, Ordered(z.stack), ~z.failed,
         \A f : Visible(f) => (Has(z.stack, f) <=> Has(y.stack, f)),
         \A f \in {"flowing", "ended", "endEmitted", "destroyed", "buf"} :
           z.rd.req[f] = lib.rd.req[f],
         z.rd.sock.flowing = lib.rd.sock.flowing \/ ~Runs(lib.rd.req),
         lib.rd.sock.destroyed => z.rd.sock.destroyed, Resumes(lib) => Resumes(z),
         input[p + 1] # "bad",
         input[p + 1] = "end" \/ InBody(p + 1) => lib.rd.req.destroyed \/ lib.rd.req.ended,
         Len(z.res) = Len(lib.res)
           \/ (Len(z.res) = Len(lib.res) + 1 /\ input[p + 1] = "head")
  PROVE  All(z, heard, got)
  <1>1. /\ p + 1 \in 1 .. got /\ ~lib.failed
        /\ Has(y.stack, <<"clear", "sock">>)
        /\ \A f : f[1] # "feed" => (Has(y.stack, f) <=> Has(lib.stack, f))
        /\ /\ \A f : f[1] = "feed" => (Has(z.stack, f) <=> Has(y.stack, f))
           /\ Has(z.stack, <<"clear", "sock">>)
           => ParserAt(z, got, p + 1)
    BY FedIs
  <1>2. got \in Nat /\ Len(input) \in Nat /\ got <= Len(input) /\ Len(lib.res) \in Nat
        /\ DOMAIN input = 1 .. Len(input)
    BY InputIs, LenProperties DEF Base, Typed, Library
  <1>3. /\ \A e \in {"emit", "clear", "end", "ended"} :
             Has(z.stack, <<e, "req">>) <=> Has(lib.stack, <<e, "req">>)
        /\ Has(z.stack, <<"clear", "sock">>)
        /\ \A f : f[1] = "feed" => (Has(z.stack, f) <=> Has(y.stack, f))
    BY <1>1, VisibleFrames
  <1>4. /\ z.rd.req.flowing = lib.rd.req.flowing /\ z.rd.req.ended = lib.rd.req.ended
        /\ z.rd.req.endEmitted = lib.rd.req.endEmitted
        /\ z.rd.req.destroyed = lib.rd.req.destroyed /\ z.rd.req.buf = lib.rd.req.buf
    OBVIOUS
  <1>5. ParserAt(z, got, p + 1)
    BY <1>1, <1>3
  <1>6. EndInv(z) /\ HeardInv(z, heard)
    BY <1>3, <1>4 DEF All, EndInv, HeardInv
  <1>7. FeedInv(z)
    BY <1>3 DEF FeedInv
  <1>8. FlowInv(z)
    <2>1. Emitting(z) <=> Emitting(lib)
      BY <1>3 DEF Emitting
    <2>2. Runs(z.rd.req) <=> Runs(lib.rd.req)
      BY <1>4 DEF Runs
    <2> HIDE DEF Resumes, Emitting, Runs
    <2> QED  BY <1>4, <2>1, <2>2 DEF All, FlowInv
  <1>9. Given(z, heard) = Given(lib, heard)
    BY <1>3, <1>4 DEF Given
  <1>10. ParseInv(z, heard, got, p + 1)
    <2> DEFINE q == Given(lib, heard)
    <2>1. \A j \in 1 .. p + 1 : j \in 1 .. p \/ j = p + 1
      OBVIOUS
    <2>2. \A j \in 1 .. p + 1 : input[j] # "bad"
      BY <2>1 DEF ParseInv
    <2>3. ~z.rd.req.destroyed /\ (\E j \in 1 .. p + 1 : input[j] = "end") => z.rd.req.ended
      BY <1>4, <2>1 DEF ParseInv
    <2>4. GivenOK(q, p + 1)
      BY GivenStays DEF ParseInv
    <2>5. z.rd.req.ended => \A i \in DOMAIN input : InBody(i) => Has(q, i)
      BY <1>4 DEF ParseInv
    <2>6. ~z.rd.req.destroyed => \A i \in 1 .. p + 1 : InBody(i) => Has(q, i)
      <3> SUFFICES ASSUME ~z.rd.req.destroyed, NEW i \in 1 .. p + 1, InBody(i)
                   PROVE  Has(q, i)
        OBVIOUS
      <3>1. CASE i \in 1 .. p
        BY <1>4, <3>1 DEF ParseInv
      <3>2. CASE i = p + 1
        <4>1. z.rd.req.ended /\ i \in DOMAIN input
          BY <1>1, <1>2, <1>4, <3>2
        <4> QED  BY <2>5, <4>1
      <3> QED  BY <2>1, <3>1, <3>2
    <2>7. Len(z.res) <= Cardinality(Heads(p + 1))
      <3>1. /\ Cardinality(Heads(p)) \in Nat
            /\ Cardinality(Heads(p)) <= Cardinality(Heads(p + 1))
            /\ input[p + 1] = "head" =>
                 Cardinality(Heads(p + 1)) = Cardinality(Heads(p)) + 1
        BY HeadsMore
      <3>2. Len(lib.res) <= Cardinality(Heads(p)) /\ Cardinality(Heads(p + 1)) \in Nat
        BY HeadsMore DEF ParseInv
      <3> HIDE DEF Heads
      <3> QED  BY <1>2, <3>1, <3>2
    <2> QED  BY <1>5, <1>9, <2>2, <2>3, <2>4, <2>5, <2>6, <2>7 DEF ParseInv
  <1> QED  BY <1>1, <1>2, <1>6, <1>7, <1>8, <1>10 DEF All

LEMMA HeadKeeps ==
  ASSUME Base, All(lib, heard, got), lib.record # "gone", FeedStep,
         NEW p \in 0 .. got, ParseInv(lib, heard, got, p), input[p + 1] = "head"
  PROVE  All(lib', heard, got)
  <1> DEFINE x == Pop(lib)
             y == Fed(x, Tail(Top[2]))
             v == [y EXCEPT !.res = Append(@, NewResponse)]
             z == lib'
  <1>1. /\ z = ParseUnit(x, p + 1, Tail(Top[2])) /\ ~lib.failed
        /\ y \in Library /\ Only(lib, y, {"stack"}) /\ Ordered(y.stack)
        /\ \A g : Rank(g) <= 2 => Above(g, y.stack)
    BY FedIs
  <1>2. z = User(v)
    <2>1. z = Parsed(y)
      BY <1>1 DEF ParseUnit, Fed
    <2>2. y.record # "gone"
      BY <1>1 DEF Only, Members
    <2> QED  BY <2>1, <2>2 DEF Parsed, WithSocket
  <1> HIDE DEF x, y
  <1>3. /\ v \in Library /\ Only(y, v, {"res"}) /\ v.res = Append(y.res, NewResponse)
    <2>1. y.res \in Seq(ResponseType) /\ NewResponse \in ResponseType
      BY <1>1 DEF Library, NewResponse, ResponseType
    <2>2. Append(y.res, NewResponse) \in Seq(ResponseType)
      BY <2>1
    <2> QED  BY <1>1, <2>2 DEF Library, Only, Members
  <1>4. Len(v.res) = Len(y.res) + 1
    <2>1. y.res \in Seq(ResponseType)
      BY <1>1 DEF Library
    <2> QED  BY <1>3, <2>1
  <1> HIDE DEF v
  <1>5. v.stack = y.stack /\ v.rd = y.rd /\ v.ticks = y.ticks /\ v.failed = y.failed
    BY <1>3 DEF Only, Members
  <1>6. Ordered(v.stack) /\ Above(<<"user">>, v.stack)
    <2>1. Rank(<<"user">>) <= 2
      BY RanksAre
    <2> QED  BY <1>1, <1>5, <2>1
  <1>7. /\ Only(v, z, {"stack"}) /\ Ordered(z.stack)
        /\ \A g : Visible(g) => (Has(z.stack, g) <=> Has(v.stack, g))
    BY <1>2, <1>3, <1>6, CalledUser
  <1>8. /\ z.rd = v.rd /\ z.ticks = v.ticks /\ z.failed = v.failed /\ z.res = v.res
        /\ y.rd = lib.rd /\ y.ticks = lib.ticks /\ y.failed = lib.failed /\ y.res = lib.res
    BY <1>1, <1>7, OnlyStack
  <1>9. /\ ~z.failed /\ z.rd = lib.rd /\ (Resumes(lib) => Resumes(z))
        /\ Len(z.res) = Len(lib.res) + 1
        /\ \A f : Visible(f) => (Has(z.stack, f) <=> Has(y.stack, f))
    BY <1>1, <1>4, <1>5, <1>7, <1>8 DEF Resumes
  <1>10. ~InBody(p + 1) /\ input[p + 1] # "end" /\ input[p + 1] # "bad"
    BY DEF InBody
  <1> HIDE DEF z
  <1>11. x = Pop(lib) /\ y = Fed(x, Tail(Top[2]))
    BY DEF x, y
  <1>12. /\ \A f \in {"flowing", "ended", "endEmitted", "destroyed", "buf"} :
              z.rd.req[f] = lib.rd.req[f]
         /\ z.rd.sock.flowing = lib.rd.sock.flowing
         /\ lib.rd.sock.destroyed => z.rd.sock.destroyed
    BY <1>9
  <1> HIDE DEF Runs, Resumes, InBody
  <1>13. All(z, heard, got)
    BY <1>7, <1>9, <1>10, <1>11, <1>12, FedQuietly
  <1> QED  BY <1>13 DEF z

\* What the request does not take any more pauses the socket.
LEMMA RefusedKeeps ==
  ASSUME Base, All(lib, heard, got), lib.record # "gone", FeedStep,
         NEW p \in 0 .. got, ParseInv(lib, heard, got, p),
         input[p + 1] \in {"data", "end"}, lib.rd.req.destroyed \/ lib.rd.req.ended
  PROVE  All(lib', heard, got)
  <1> DEFINE x == Pop(lib)
             y == Fed(x, Tail(Top[2]))
             t == NextTick(y, <<"emit", "error">>)
             z == lib'
  <1>1. /\ z = ParseUnit(x, p + 1, Tail(Top[2])) /\ ~lib.failed
        /\ y \in Library /\ Only(lib, y, {"stack"}) /\ Ordered(y.stack)
        /\ \A g : Rank(g) <= 2 => Above(g, y.stack)
    BY FedIs
  <1>2. z = IF input[p + 1] = "data" THEN PushData(y, p + 1) ELSE PushEnd(y)
    BY <1>1 DEF ParseUnit, Fed
  <1>3. x = Pop(lib) /\ y = Fed(x, Tail(Top[2]))
    OBVIOUS
  <1> HIDE DEF x, y
  <1>4. y.rd = lib.rd /\ y.ticks = lib.ticks /\ y.failed = lib.failed /\ y.res = lib.res
    BY <1>1, OnlyStack
  <1>5. \E v, w : /\ v = y \/ v = t
                  /\ w = v \/ (w = Pause(v, "sock"))
                  /\ z = w \/ (z = User(w))
    <2>1. y.record # "gone" /\ t.record # "gone"
      BY <1>1 DEF Only, Members, NextTick
    <2> QED  BY <1>2, <1>4, <2>1 DEF PushData, PushEnd, PushRefused, WithSocket
  <1>6. PICK v, w : /\ v = y \/ v = t
                    /\ w = v \/ (w = Pause(v, "sock"))
                    /\ z = w \/ (z = User(w))
    BY <1>5
  <1>7. /\ v \in Library /\ v.stack = y.stack /\ v.rd = lib.rd /\ v.failed = lib.failed
        /\ v.res = lib.res /\ (Resumes(lib) => Resumes(v))
    <2>1. t \in Library /\ Only(y, t, {"ticks"}) /\ Posted(y, t, {<<"emit", "error">>})
      BY <1>1, NextTickIs, SomePosts
    <2>2. /\ t.stack = y.stack /\ t.rd = y.rd /\ t.failed = y.failed /\ t.res = y.res
          /\ Resumes(y) => Resumes(t)
      BY <2>1 DEF Only, Members, Posted, Resumes
    <2> HIDE DEF t
    <2> QED  BY <1>1, <1>4, <1>6, <2>1, <2>2 DEF Resumes
  <1>8. /\ w \in Library /\ w.stack = y.stack /\ w.rd.req = lib.rd.req
        /\ w.failed = lib.failed /\ w.res = lib.res /\ (Resumes(lib) => Resumes(w))
        /\ w.rd.sock.destroyed = lib.rd.sock.destroyed
    <2>1. /\ Pause(v, "sock") \in Library /\ Only(v, Pause(v, "sock"), {"rd"})
          /\ Pause(v, "sock").rd.sock = [v.rd.sock EXCEPT !.flowing = FALSE]
          /\ Pause(v, "sock").rd.req = v.rd.req
      BY <1>7, PauseIs DEF Streams
    <2>2. Pause(v, "sock").rd.sock.destroyed = v.rd.sock.destroyed
      <3>1. v.rd.sock \in ReadableType
        BY <1>7 DEF Library
      <3> QED  BY <2>1, <3>1 DEF ReadableType
    <2>3. /\ Pause(v, "sock").stack = v.stack /\ Pause(v, "sock").failed = v.failed
          /\ Pause(v, "sock").res = v.res /\ Pause(v, "sock").ticks = v.ticks
      BY <2>1 DEF Only, Members
    <2>4. CASE w = v
      BY <1>7, <2>4
    <2>5. CASE w = Pause(v, "sock")
      BY <1>7, <2>1, <2>2, <2>3, <2>5 DEF Resumes
    <2> QED  BY <1>6, <2>4, <2>5
  <1>9. Ordered(w.stack) /\ Above(<<"user">>, w.stack)
    <2>1. Rank(<<"user">>) <= 2
      BY RanksAre
    <2> QED  BY <1>1, <1>8, <2>1
  <1>10. /\ Only(w, z, {"stack"}) /\ Ordered(z.stack)
         /\ \A g : Visible(g) => (Has(z.stack, g) <=> Has(w.stack, g))
    <2>1. CASE z = w
      BY <1>9, <2>1 DEF Only
    <2>2. CASE z = User(w)
      BY <1>8, <1>9, <2>2, CalledUser
    <2> QED  BY <1>6, <2>1, <2>2
  <1>11. z.rd = w.rd /\ z.ticks = w.ticks /\ z.failed = w.failed /\ z.res = w.res
    BY <1>10, OnlyStack
  <1>12. /\ ~z.failed /\ z.rd.req = lib.rd.req /\ (Resumes(lib) => Resumes(z))
         /\ Len(z.res) = Len(lib.res)
         /\ lib.rd.sock.destroyed => z.rd.sock.destroyed
         /\ \A f : Visible(f) => (Has(z.stack, f) <=> Has(y.stack, f))
    BY <1>1, <1>8, <1>10, <1>11 DEF Resumes
  <1>13. ~Runs(lib.rd.req) /\ input[p + 1] # "bad"
    BY DEF Runs
  <1> HIDE DEF z, t
  <1>14. \A f \in {"flowing", "ended", "endEmitted", "destroyed", "buf"} :
           z.rd.req[f] = lib.rd.req[f]
    BY <1>12
  <1> HIDE DEF Runs, Resumes, InBody
  <1>15. All(z, heard, got)
    BY <1>3, <1>10, <1>12, <1>13, <1>14, FedQuietly
  <1> QED  BY <1>15 DEF z

\* The parser fails on what was read.
LEMMA BadKeeps ==
  ASSUME Base, All(lib, heard, got), lib.record # "gone", FeedStep,
         NEW p \in 0 .. got, ParseInv(lib, heard, got, p), input[p + 1] = "bad"
  PROVE  All(lib', heard, got)
  <1> DEFINE x == Pop(lib)
             y == Fed(x, Tail(Top[2]))
             z == lib'
  <1>1. /\ z = ParseUnit(x, p + 1, Tail(Top[2]))
        /\ x \in Library /\ Only(lib, x, {"stack"}) /\ Ordered(x.stack)
        /\ \A f : f[1] = "feed" => ~Has(x.stack, f)
        /\ \A f : f[1] # "feed" => (Has(x.stack, f) <=> Has(lib.stack, f))
        /\ \A g : Rank(g) <= 2 => Above(g, x.stack)
    BY FedIs
  <1>2. z = ParserError(x) /\ got \in Nat
    BY <1>1, InputIs DEF ParseUnit
  <1> HIDE DEF x, z
  <1>3. Above(<<"user">>, x.stack)
    <2>1. Rank(<<"user">>) <= 2
      BY RanksAre
    <2> QED  BY <1>1, <2>1
  <1>11. x.record # "gone"
    BY <1>1 DEF Only, Members
  <1>4. /\ z.failed /\ Ordered(z.stack)
        /\ \A f : Visible(f) => (Has(z.stack, f) <=> Has(x.stack, f))
        /\ z.res = x.res /\ ~z.rd.req.flowing
        /\ \A f \in {"ended", "endEmitted", "destroyed", "buf"} : z.rd.req[f] = x.rd.req[f]
    BY <1>1, <1>2, <1>3, <1>11, ParserErrorIs
  <1>5. x.rd = lib.rd /\ x.res = lib.res
    BY <1>1, OnlyStack
  <1>6. /\ z.rd.req.ended = lib.rd.req.ended /\ z.rd.req.buf = lib.rd.req.buf
        /\ z.rd.req.endEmitted = lib.rd.req.endEmitted
        /\ z.rd.req.destroyed = lib.rd.req.destroyed
    BY <1>4, <1>5
  <1>7. /\ \A e \in {"emit", "clear", "end", "ended"} :
             Has(z.stack, <<e, "req">>) <=> Has(lib.stack, <<e, "req">>)
        /\ \A f : f[1] = "feed" => ~Has(z.stack, f)
    <2>1. \A e \in {"emit", "clear", "end", "ended"} : <<e, "req">>[1] # "feed"
      OBVIOUS
    <2> QED  BY <1>1, <1>4, <2>1, VisibleFrames
  <1>8. EndInv(z) /\ HeardInv(z, heard)
    BY <1>6, <1>7 DEF All, EndInv, HeardInv
  <1>9. FeedInv(z) /\ FlowInv(z)
    BY <1>4, <1>7 DEF FeedInv, Feeding, FlowInv, Runs
  <1>10. Given(z, heard) = Given(lib, heard)
    BY <1>6, <1>7 DEF Given
  <1> QED  BY <1>2, <1>4, <1>5, <1>6, <1>8, <1>9, <1>10, StepKeeps DEF z

(* Three byte strings: the parenthesis does not matter.                    *)
LEMMA ThreeStrings ==
  ASSUME NEW a \in Seq(Nat), NEW b \in Seq(Nat), NEW c \in Seq(Nat)
  PROVE  a \o (b \o c) = (a \o b) \o c
  OBVIOUS

\* The request takes a piece of its body, or its end.
LEMMA TakenKeeps ==
  ASSUME Base, All(lib, heard, got), FeedStep,
         NEW p \in 0 .. got, ParseInv(lib, heard, got, p),
         input[p + 1] \in {"data", "end"}, ~lib.rd.req.destroyed, ~lib.rd.req.ended
  PROVE  All(lib', heard, got)
  <1> DEFINE x == Pop(lib)
             y == Fed(x, Tail(Top[2]))
             f0 == IF input[p + 1] = "data" THEN <<"pushed", "req">>
                   ELSE <<"pushedEnd", "req">>
             c == Call(y, f0)
             items == IF input[p + 1] = "data" THEN <<p + 1>> ELSE <<>>
             z == lib'
             q == Given(lib, heard)
  <1>1. /\ z = ParseUnit(x, p + 1, Tail(Top[2])) /\ ~lib.failed /\ p + 1 \in 1 .. got
        /\ y \in Library /\ Only(lib, y, {"stack"}) /\ Ordered(y.stack)
        /\ Has(y.stack, <<"clear", "sock">>)
        /\ \A f : f[1] # "feed" => (Has(y.stack, f) <=> Has(lib.stack, f))
        /\ \A e \in {"emit", "clear", "end", "ended"} : ~Has(lib.stack, <<e, "req">>)
        /\ \A g : Rank(g) <= 2 => Above(g, y.stack)
        /\ \A w : /\ \A f : f[1] = "feed" => (Has(w.stack, f) <=> Has(y.stack, f))
                  /\ Has(w.stack, <<"clear", "sock">>)
                  => ParserAt(w, got, p + 1)
    BY FedIs
  <1>2. got \in Nat /\ Len(input) \in Nat /\ got <= Len(input) /\ Len(lib.res) \in Nat
        /\ DOMAIN input = 1 .. Len(input) /\ p \in Nat /\ lib \in Library
    BY InputIs, LenProperties DEF Base, Typed, Library
  <1>3. z = IF input[p + 1] = "data" THEN PushData(y, p + 1) ELSE PushEnd(y)
    BY <1>1 DEF ParseUnit, Fed
  <1> HIDE DEF x, y
  <1>4. y.rd = lib.rd /\ y.ticks = lib.ticks /\ y.failed = lib.failed /\ y.res = lib.res
    BY <1>1, OnlyStack
  <1>5. z = Push(c, "req", items)
    BY <1>3, <1>4 DEF PushData, PushEnd
  <1>6. /\ f0 \in Frames /\ ~Visible(f0) /\ Above(f0, y.stack) /\ Rank(f0) = 2
        /\ <<"emit", "req">> \in Frames /\ Rank(<<"emit", "req">>) = 1
    <2>1. /\ f0 \in Frames /\ ~Visible(f0) /\ Rank(f0) = 2
          /\ <<"emit", "req">> \in Frames /\ Rank(<<"emit", "req">>) = 1
      BY SomeFrames, HiddenFrames, RanksAre DEF Streams
    <2>2. Rank(f0) <= 2
      BY <2>1
    <2> QED  BY <1>1, <2>1, <2>2
  <1>7. items \in Seq(Nat) /\ (items = <<>> <=> input[p + 1] = "end")
    BY <1>2
  <1> HIDE DEF f0, items, z
  <1>8. /\ c \in Library /\ Only(y, c, {"stack"}) /\ Ordered(c.stack)
        /\ \A g : Has(c.stack, g) <=> Has(y.stack, g) \/ g = f0
        /\ Above(<<"emit", "req">>, c.stack)
    <2>1. Rank(<<"emit", "req">>) < Rank(f0)
      BY <1>6
    <2> QED  BY <1>1, <1>6, <2>1, Called
  <1> HIDE DEF c
  <1>9. c.rd = lib.rd /\ c.ticks = lib.ticks /\ c.failed = lib.failed /\ c.res = lib.res
    BY <1>4, <1>8, OnlyStack
  <1>10. /\ Only(c, z, {"rd", "stack"}) /\ Ordered(z.stack)
         /\ \A g : Has(z.stack, g) <=> Has(c.stack, g) \/ g = <<"emit", "req">>
         /\ z.rd["sock"] = c.rd["sock"]
         /\ z.rd["req"].buf = Pushed(c.rd["req"].buf, items)
         /\ z.rd["req"].ended <=> c.rd["req"].ended \/ items = <<>>
         /\ z.rd["req"].flowing = c.rd["req"].flowing
         /\ z.rd["req"].endEmitted = c.rd["req"].endEmitted
         /\ z.rd["req"].destroyed = c.rd["req"].destroyed
    <2>1. "sock" \in Streams /\ "req" \in Streams /\ "req" # "sock"
      BY DEF Streams
    <2>2. /\ Only(c, z, {"rd", "stack"}) /\ Ordered(z.stack)
      BY <1>5, <1>7, <1>8, <2>1, PushIs
    <2>3. \A g : Has(z.stack, g) <=> Has(c.stack, g) \/ g = <<"emit", "req">>
      BY <1>5, <1>7, <1>8, <2>1, PushIs
    <2>4. z.rd["sock"] = c.rd["sock"]
      BY <1>5, <1>7, <1>8, <2>1, PushIs
    <2>5. z.rd["req"].buf = Pushed(c.rd["req"].buf, items)
      BY <1>5, <1>7, <1>8, <2>1, PushIs
    <2>6. z.rd["req"].ended <=> c.rd["req"].ended \/ items = <<>>
      BY <1>5, <1>7, <1>8, <2>1, PushIs
    <2>7. /\ z.rd["req"].flowing = c.rd["req"].flowing
          /\ z.rd["req"].endEmitted = c.rd["req"].endEmitted
          /\ z.rd["req"].destroyed = c.rd["req"].destroyed
      BY <1>5, <1>7, <1>8, <2>1, PushIs
    <2> QED  BY <2>2, <2>3, <2>4, <2>5, <2>6, <2>7
  <1>11. /\ z.ticks = lib.ticks /\ z.failed = lib.failed /\ z.res = lib.res
         /\ z.rd.sock = lib.rd.sock /\ z.rd.req.buf = Pushed(lib.rd.req.buf, items)
         /\ z.rd.req.ended <=> items = <<>>
         /\ z.rd.req.flowing = lib.rd.req.flowing
         /\ ~z.rd.req.destroyed /\ ~z.rd.req.endEmitted
    <2>1. z.ticks = c.ticks /\ z.failed = c.failed /\ z.res = c.res
      BY <1>10 DEF Only, Members
    <2>2. ~lib.rd.req.endEmitted
      BY DEF All, EndInv
    <2> QED  BY <1>9, <1>10, <2>1, <2>2
  <1>12. /\ ~Has(lib.stack, <<"clear", "req">>) /\ ~Has(z.stack, <<"clear", "req">>)
         /\ ~Has(z.stack, <<"end", "req">>) /\ ~Has(z.stack, <<"ended", "req">>)
         /\ Has(z.stack, <<"emit", "req">>) /\ Has(z.stack, <<"clear", "sock">>)
         /\ \A f : f[1] = "feed" => (Has(z.stack, f) <=> Has(y.stack, f))
    <2>1. \A e \in {"emit", "clear", "end", "ended"} : ~Has(y.stack, <<e, "req">>)
      <3>1. \A e \in {"emit", "clear", "end", "ended"} : <<e, "req">>[1] # "feed"
        OBVIOUS
      <3> QED  BY <1>1, <3>1
    <2>2. /\ \A e \in {"clear", "end", "ended"} : <<e, "req">> # f0 /\ <<e, "req">> # <<"emit", "req">>
          /\ \A f : f[1] = "feed" => f # f0 /\ f # <<"emit", "req">>
      BY <1>6, VisibleFrames
    <2> QED  BY <1>1, <1>8, <1>10, <2>1, <2>2
  <1>13. ParserAt(z, got, p + 1)
    BY <1>1, <1>12
  <1>14. ~heard.end
    BY DEF All, HeardInv
  <1>15. EndInv(z) /\ HeardInv(z, heard) /\ FeedInv(z)
    BY <1>1, <1>11, <1>12, <1>14 DEF EndInv, HeardInv, FeedInv
  <1>16. FlowInv(z)
    <2>1. Emitting(z)
      BY <1>12 DEF Emitting
    <2>2. Resumes(z) <=> Resumes(lib)
      BY <1>11 DEF Resumes
    <2>3. Runs(z.rd.req) => Runs(lib.rd.req)
      BY <1>11 DEF Runs
    <2> HIDE DEF Resumes, Emitting, Runs
    <2> QED  BY <1>11, <2>1, <2>2, <2>3 DEF All, FlowInv
  <1>17. q \in Seq(Nat) /\ Given(z, heard) = q \o items
    <2>1. heard.body \in Seq(Nat) /\ lib.rd.req.buf \in Seq(Nat)
      BY <1>2, SeqOfNat DEF Base, Library, ReadableType
    <2>2. q = heard.body \o lib.rd.req.buf
      BY <1>12 DEF Given
    <2>3. Given(z, heard) = heard.body \o (lib.rd.req.buf \o items)
      BY <1>11, <1>12 DEF Given, Pushed
    <2>4. heard.body \o (lib.rd.req.buf \o items) = (heard.body \o lib.rd.req.buf) \o items
      BY <1>7, <2>1, ThreeStrings, Zenon
    <2>5. q \in Seq(Nat)
      BY <2>1, <2>2, ConcatProperties
    <2> QED  BY <2>2, <2>3, <2>4, <2>5
  <1> HIDE DEF q
  <1>18. /\ \A j \in 1 .. p : input[j] # "bad" /\ input[j] # "end"
         /\ GivenOK(q, p)
         /\ \A i \in 1 .. p : InBody(i) => Has(q, i)
         /\ Len(lib.res) <= Cardinality(Heads(p))
    BY DEF ParseInv, q
  <1>19. \A j \in 1 .. p + 1 : j \in 1 .. p \/ j = p + 1
    BY <1>2
  <1>20. Len(z.res) <= Cardinality(Heads(p + 1))
    <2>1. /\ Cardinality(Heads(p)) \in Nat /\ Cardinality(Heads(p + 1)) \in Nat
          /\ Cardinality(Heads(p)) <= Cardinality(Heads(p + 1))
      BY <1>2, HeadsMore
    <2>2. Len(z.res) = Len(lib.res)
      BY <1>11
    <2> HIDE DEF Heads
    <2> QED  BY <1>2, <1>18, <2>1, <2>2
  <1>21. \A j \in 1 .. p + 1 : input[j] # "bad"
    BY <1>18, <1>19
  <1>22. CASE input[p + 1] = "data"
    <2>1. items = <<p + 1>> /\ ~z.rd.req.ended
      BY <1>7, <1>11, <1>22 DEF items
    <2>2. InBody(p + 1)
      <3>1. \A j \in 1 .. (p + 1) - 1 : j \in 1 .. p
        BY <1>2
      <3> QED  BY <1>18, <1>22, <3>1 DEF InBody
    <2>3. /\ GivenOK(Given(z, heard), p + 1)
          /\ \A i \in 1 .. p + 1 : InBody(i) => Has(Given(z, heard), i)
      BY <1>2, <1>17, <1>18, <2>1, <2>2, GivenMore
    <2>4. \A j \in 1 .. p + 1 : input[j] # "end"
      BY <1>18, <1>19, <1>22
    <2>5. ParseInv(z, heard, got, p + 1)
      BY <1>13, <1>20, <1>21, <2>1, <2>3, <2>4 DEF ParseInv
    <2>6. All(z, heard, got)
      BY <1>1, <1>2, <1>10, <1>15, <1>16, <2>5 DEF All
    <2> QED  BY <2>6 DEF z
  <1>23. CASE input[p + 1] = "end"
    <2>1. items = <<>> /\ z.rd.req.ended /\ Given(z, heard) = q
      <3>1. items = <<>> /\ z.rd.req.ended
        BY <1>7, <1>11, <1>23
      <3>2. q \o <<>> = q
        BY <1>17
      <3> QED  BY <1>17, <3>1, <3>2
    <2>2. GivenOK(q, p + 1)
      BY <1>2, <1>18, GivenStays
    <2>3. \A i \in DOMAIN input : InBody(i) => i \in 1 .. p
      <3> SUFFICES ASSUME NEW i \in DOMAIN input, InBody(i), i \notin 1 .. p PROVE FALSE
        OBVIOUS
      <3>1. i \in Nat /\ i > p
        BY <1>2
      <3>2. i # p + 1
        BY <1>23 DEF InBody
      <3>3. p + 1 \in 1 .. i - 1
        BY <1>2, <3>1, <3>2
      <3> QED  BY <1>23, <3>3 DEF InBody
    <2>4. \A i \in DOMAIN input : InBody(i) => Has(q, i)
      BY <1>18, <2>3
    <2>5. \A i \in 1 .. p + 1 : i \in DOMAIN input
      BY <1>1, <1>2
    <2>6. ParseInv(z, heard, got, p + 1)
      BY <1>13, <1>20, <1>21, <2>1, <2>2, <2>4, <2>5 DEF ParseInv
    <2>7. All(z, heard, got)
      BY <1>1, <1>2, <1>10, <1>15, <1>16, <2>6 DEF All
    <2> QED  BY <2>7 DEF z
  <1> QED  BY <1>22, <1>23

LEMMA FeedKeeps ==
  ASSUME Base, All(lib, heard, got), lib.record # "gone", FeedStep
  PROVE  All(lib', heard, got)
  <1>1. PICK p \in 0 .. got : ParseInv(lib, heard, got, p)
    BY DEF All
  <1>2. input[p + 1] \in Units
    <2>1. p + 1 \in 1 .. got
      BY <1>1, FedIs
    <2> QED  BY <2>1, InputIs
  <1> QED  BY <1>1, <1>2, HeadKeeps, RefusedKeeps, TakenKeeps, BadKeeps DEF Units

\* A connection begins with both streams flowing and empty and the parser at 0.
LEMMA AllInit == Init => All(lib, heard, got)
  <1> SUFFICES ASSUME Init PROVE All(lib, heard, got)
    OBVIOUS
  <1>1. /\ lib.stack = <<>> /\ lib.rd.sock = Readable /\ lib.rd.req = Readable
        /\ lib.ticks = <<<<"read", "sock">>, <<"read", "req">>>>
        /\ ~lib.failed /\ lib.res = <<>> /\ got = 0
        /\ heard = [body |-> <<>>, end |-> FALSE]
    BY DEF Init, NewConnection
  <1>2. \A f : ~Has(lib.stack, f)
    BY <1>1, EmptySeq DEF Has
  <1>3. Ordered(lib.stack)
    BY <1>1, AboveEmpty
  <1>4. /\ ~lib.rd.req.ended /\ ~lib.rd.req.endEmitted /\ lib.rd.req.buf = <<>>
        /\ lib.rd.sock.flowing /\ lib.rd.sock.buf = <<>>
    BY <1>1 DEF Readable
  <1>5. EndInv(lib) /\ FlowInv(lib) /\ FeedInv(lib) /\ HeardInv(lib, heard)
    BY <1>1, <1>2, <1>4 DEF EndInv, FlowInv, FeedInv, Feeding, HeardInv
  <1>6. ParserAt(lib, 0, 0)
    BY <1>2, <1>4, EmptySeq DEF ParserAt, LastOf, Feeding
  <1>7. Given(lib, heard) = <<>> /\ DOMAIN <<>> = {} /\ Len(<<>>) = 0
    BY <1>1, <1>2, <1>4, EmptySeq DEF Given
  <1>8. GivenOK(<<>>, 0)
    BY <1>7 DEF GivenOK
  <1>9. Cardinality(Heads(0)) = 0
    <2>1. Heads(0) = {}
      BY DEF Heads
    <2> QED  BY <2>1, FS_EmptySet
  <1>10. ParseInv(lib, heard, 0, 0)
    BY <1>1, <1>4, <1>6, <1>7, <1>8, <1>9 DEF ParseInv
  <1> QED  BY <1>1, <1>3, <1>5, <1>10 DEF All

\* The invariants of the state after a step.
LEMMA AllOfNext ==
  ASSUME input' = input, All(lib', heard', got')
  PROVE  All(lib, heard, got)'
  <1>1. PICK p \in 0 .. got' : ParseInv(lib', heard', got', p)
    BY DEF All
  <1>2. \A i : InBody(i)' <=> InBody(i)
    BY DEF InBody
  <1>3. \A q : Heads(q)' = Heads(q)
    BY DEF Heads
  <1>4. \A q, r : GivenOK(q, r)' <=> GivenOK(q, r)
    BY <1>2 DEF GivenOK
  <1>5. ParseInv(lib, heard, got, p)'
    BY <1>1, <1>2, <1>3, <1>4 DEF ParseInv, Given, ParserAt, Feeding, LastOf, Has
  <1> QED  BY <1>5 DEF All, EndInv, FlowInv, FeedInv, HeardInv, Ordered, Rank,
              Runs, Resumes, Emitting, Feeding, Has

\* The functions of the streams and of the parser run while the socket is there.
LEMMA StreamHasSocket ==
  ASSUME AliveInv, ~Aborted, Top[1] \notin {"none", "user"}
  PROVE  lib.record # "gone"
  <1>1. Top = <<"none">> \/ Top = <<"user">> => FALSE
    OBVIOUS
  <1> QED  BY <1>1 DEF AliveInv, Top

\* Every step keeps the invariants.
LEMMA AllNext ==
  Base /\ AliveInv /\ All(lib, heard, got) /\ [Next]_vars => All(lib, heard, got)'
  <1> SUFFICES ASSUME Base, AliveInv, All(lib, heard, got), [Next]_vars
               PROVE  All(lib, heard, got)'
    OBVIOUS
  <1>1. CASE UNCHANGED vars
    BY <1>1, AllOfNext DEF vars
  <1>2. CASE Next
    <2>1. UserStep \/ Return \/ OtherCallback \/ LibraryStep
      BY <1>2 DEF Next
    <2>15. Destroyed(lib) /\ (Top[1] \notin {"none", "user"} => lib.record # "gone")
      BY <1>2, StreamHasSocket DEF AliveInv, Next
    <2>2. input' = input
      BY <2>1 DEF UserStep, WriteCall, HeaderCall, DestroyCall, FlowCall, Api, Return,
         OtherCallback, LibraryStep, FeedStep, EmitData, EmitEnd, DataReturns,
         EndReturns, PushReturns,
         DrainStep, ReadData, ReadBlocks, ReadFails, ReadEnd, ReadOver, HangUp,
         RunTick, DrainDone, DispatchRead, DispatchWrite, DispatchDone, Keep
    <2>3. Ordered(lib.stack)
      BY DEF All
    <2>4. heard' = heard \/ EmitData \/ EmitEnd
      BY <2>1 DEF UserStep, WriteCall, HeaderCall, DestroyCall, FlowCall, Api, Return,
         OtherCallback, LibraryStep, FeedStep, DataReturns, EndReturns, PushReturns,
         DrainStep, ReadData, ReadBlocks, ReadFails, ReadEnd, ReadOver, HangUp,
         RunTick, DrainDone, DispatchRead, DispatchWrite, DispatchDone, Keep
    <2>5. got' = got \/ ReadData
      BY <2>1 DEF UserStep, WriteCall, HeaderCall, DestroyCall, FlowCall, Api, Return,
         OtherCallback, LibraryStep, FeedStep, EmitData, EmitEnd, DataReturns,
         EndReturns, PushReturns,
         DrainStep, ReadBlocks, ReadFails, ReadEnd, ReadOver, HangUp,
         RunTick, DrainDone, DispatchRead, DispatchWrite, DispatchDone, Keep
    <2>6. CASE WriteCall \/ HeaderCall \/ DestroyCall
      <3>1. heard' = heard /\ got' = got
        BY <2>6 DEF WriteCall, HeaderCall, DestroyCall, Api
      <3>2. All(lib', heard, got)
        BY <2>3, <2>6, CallsAreInert, InertKeeps
      <3> QED  BY <2>2, <3>1, <3>2, AllOfNext
    <2>7. CASE FlowCall
      <3>1. heard' = heard /\ got' = got
        BY <2>7 DEF FlowCall, Api
      <3> QED  BY <2>2, <2>7, <3>1, FlowCallKeeps, AllOfNext
    <2>8. CASE RunTick
      <3>1. heard' = heard /\ got' = got
        BY <2>8 DEF RunTick, Keep
      <3>2. CASE Head(lib.ticks) = <<"read", "req">>
        BY <2>2, <2>8, <2>15, <3>1, <3>2, RequestReadKeeps, AllOfNext
      <3>3. CASE Head(lib.ticks) # <<"read", "req">>
        <4>1. All(lib', heard, got)
          BY <2>8, <3>3, TicksAreInert, InertKeeps
        <4> QED  BY <2>2, <3>1, <4>1, AllOfNext
      <3> QED  BY <3>2, <3>3
    <2>9. CASE Return \/ DrainStep \/ ReadBlocks \/ ReadFails \/ ReadOver \/ HangUp
               \/ ReadEnd
      <3>1. heard' = heard /\ got' = got
        BY <2>9 DEF Return, DrainStep, ReadBlocks, ReadFails, ReadOver, HangUp,
           ReadEnd, Keep
      <3>2. All(lib', heard, got)
        BY <2>3, <2>9, ReturnsAreInert, InertKeeps
      <3> QED  BY <2>2, <3>1, <3>2, AllOfNext
    <2>10. CASE OtherCallback \/ DrainDone \/ DispatchRead \/ DispatchWrite
                \/ DispatchDone
      <3>1. heard' = heard /\ got' = got
        BY <2>10 DEF OtherCallback, DrainDone, DispatchRead, DispatchWrite, DispatchDone
      <3>2. All(lib', heard, got)
        BY <2>3, <2>10, LoopIsInert, InertKeeps
      <3> QED  BY <2>2, <3>1, <3>2, AllOfNext
    <2>11. CASE EmitData
      <3>1. got' = got /\ Top[1] = "emit"
        BY <2>11 DEF EmitData
      <3>2. Top \in Frames
        BY <2>3, <3>1, Returned
      <3>3. Top[2] \in Streams
        BY <3>1, <3>2, FrameIs
      <3>4. All(lib', heard', got)
        BY <2>11, <3>3, EmitRequestKeeps, EmitSocketKeeps DEF Streams
      <3> QED  BY <2>2, <3>1, <3>4, AllOfNext
    <2>12. CASE FeedStep \/ DataReturns \/ EndReturns \/ PushReturns
      <3>1. heard' = heard /\ got' = got
        BY <2>12 DEF FeedStep, DataReturns, EndReturns, PushReturns, Keep
      <3>3. lib.record # "gone"
        BY <2>12, <2>15 DEF FeedStep, DataReturns, EndReturns, PushReturns
      <3>2. All(lib', heard, got)
        BY <2>12, <3>3, FeedKeeps, DataReturnsKeeps, EndReturnsKeeps, PushReturnsKeeps
      <3> QED  BY <2>2, <3>1, <3>2, AllOfNext
    <2>13. CASE EmitEnd
      <3>1. got' = got /\ lib.record # "gone"
        BY <2>13, <2>15 DEF EmitEnd
      <3> QED  BY <2>2, <2>13, <3>1, EmitEndKeeps, AllOfNext
    <2>14. CASE ReadData
      <3>1. heard' = heard
        BY <2>14 DEF ReadData
      <3> QED  BY <2>2, <2>14, <3>1, ReadDataKeeps, AllOfNext
    <2> QED  BY <2>1, <2>6, <2>7, <2>8, <2>9, <2>10, <2>11, <2>12, <2>13, <2>14
             DEF UserStep, LibraryStep
  <1> QED  BY <1>1, <1>2

LEMMA AllInvariant == Spec => [](Base /\ All(lib, heard, got))
  <1>1. Init => Base /\ AliveInv /\ All(lib, heard, got)
    BY BaseInit, AliveInit, AllInit
  <1>2. Base /\ AliveInv /\ All(lib, heard, got) /\ [Next]_vars
          => (Base /\ AliveInv /\ All(lib, heard, got))'
    BY BaseNext, AliveNext, AllNext
  <1> QED  BY <1>1, <1>2, PTL DEF Spec

-----------------------------------------------------------------------------
(* What a request hears *)

\* The bytes the listeners have heard come before those that are kept, so an
\* order of all is one of them.
LEMMA HeardIsGiven ==
  ASSUME Base, All(lib, heard, got)
  PROVE  RequestInOrder
  <1> DEFINE b == heard.body
             q == Given(lib, heard)
  <1>1. PICK p \in 0 .. got : ParseInv(lib, heard, got, p)
    BY DEF All
  <1>2. got \in Nat /\ Len(input) \in Nat /\ got <= Len(input) /\ p \in Nat
        /\ DOMAIN input = 1 .. Len(input)
    BY InputIs DEF Base
  <1>3. b \in Seq(Nat) /\ lib.rd.req.buf \in Seq(Nat)
    BY <1>2, SeqOfNat DEF Base, Typed, Library, ReadableType
  <1>4. PICK r \in Seq(Nat) : q = b \o r /\ (lib.rd.req.buf = <<>> => r = <<>>)
    BY <1>3, EmptySeq DEF Given
  <1>5. \A k \in DOMAIN b : k \in DOMAIN q /\ q[k] = b[k]
    BY <1>3, <1>4
  <1>6. \A k \in DOMAIN b : \A l \in DOMAIN q : l < k => l \in DOMAIN b
    BY <1>3, <1>4
  <1>7. DOMAIN q \subseteq Int /\ DOMAIN b \subseteq Int
    BY <1>3, <1>4
  <1>8. /\ \A k \in DOMAIN q : q[k] \in 1 .. p /\ InBody(q[k])
        /\ \A k, l \in DOMAIN q : k < l => q[k] < q[l]
        /\ \A i \in 1 .. p : InBody(i) => \A k \in DOMAIN q : i < q[k] => Has(q, i)
    BY <1>1 DEF ParseInv, GivenOK
  <1>9. heard.end => \A i \in DOMAIN input : InBody(i) => Has(b, i)
    <2> SUFFICES ASSUME heard.end PROVE \A i \in DOMAIN input : InBody(i) => Has(b, i)
      OBVIOUS
    <2>1. lib.rd.req.ended /\ lib.rd.req.buf = <<>>
      BY DEF All, HeardInv
    <2>2. q = b
      BY <1>3, <1>4, <2>1
    <2>3. \A i \in DOMAIN input : InBody(i) => Has(q, i)
      BY <1>1, <2>1 DEF ParseInv
    <2> QED  BY <2>2, <2>3
  <1> HIDE DEF b, q
  <1>10. ASSUME NEW i \in DOMAIN input, InBody(i), NEW k \in DOMAIN b, i < b[k]
         PROVE  \E l \in DOMAIN b : b[l] = i
    <2>1. k \in DOMAIN q /\ q[k] = b[k] /\ q[k] \in 1 .. p
      BY <1>5, <1>8, <1>10
    <2>2. i \in 1 .. p
      BY <1>2, <1>10, <2>1
    <2>3. PICK l \in DOMAIN q : q[l] = i
      BY <1>8, <1>10, <2>1, <2>2 DEF Has
    <2>4. ~(k < l) /\ k # l
      BY <1>2, <1>8, <1>10, <2>1, <2>2, <2>3
    <2>5. l < k
      BY <1>7, <2>1, <2>4
    <2>6. l \in DOMAIN b
      BY <1>6, <2>5
    <2> QED  BY <1>5, <2>3, <2>6
  <1>11. \A k \in DOMAIN b : b[k] \in DOMAIN input /\ InBody(b[k])
    BY <1>2, <1>5, <1>8
  <1>12. \A k, l \in DOMAIN b : k < l => b[k] < b[l]
    BY <1>5, <1>8
  <1>13. Pieces(b)
    BY <1>10, <1>11, <1>12 DEF Pieces
  <1> QED  BY <1>9, <1>13 DEF RequestInOrder, b, Has

\* The listeners of a request hear the pieces of its body, each once and in the
\* order they were sent, none left out, whatever user code does with the request
\* and its socket in any callback, and "end" only when they have heard all of it
\* (IncomingMessage::on_data and Readable::_emitData).
THEOREM RequestIsHeardInOrder == Spec => []RequestInOrder
  <1>1. Base /\ All(lib, heard, got) => RequestInOrder
    BY HeardIsGiven
  <1> QED  BY <1>1, AllInvariant, PTL

\* When the loop polls, a request that flows has emitted all it was given, and its
\* socket flows: whatever paused it was undone by a _read that was posted
\* (IncomingMessage::_doRead).
THEOREM SocketFlowsWithRequest == Spec => []FlowsTogether
  <1>1. Base /\ All(lib, heard, got) => FlowsTogether
    <2> SUFFICES ASSUME Base, All(lib, heard, got), Idle, lib.ticks = <<>>,
                        Runs(lib.rd.req)
                 PROVE  /\ lib.rd.req.buf = <<>>
                        /\ lib.rd.sock.flowing \/ lib.rd.sock.destroyed
      BY DEF FlowsTogether, Runs
    <2>1. ~Resumes(lib) /\ ~Emitting(lib)
      BY EmptySeq DEF Resumes, Emitting, Idle, Has
    <2> QED  BY <2>1 DEF All, FlowInv
  <1> QED  BY <1>1, AllInvariant, PTL

\* No more responses are made than requests were sent.
LEMMA ResponsesAreFew ==
  ASSUME Base, All(lib, heard, got)
  PROVE  Len(lib.res) <= Requests(input)
  <1> DEFINE H == {i \in DOMAIN input : input[i] = "head"}
  <1>1. PICK p \in 0 .. got : ParseInv(lib, heard, got, p)
    BY DEF All
  <1>2. got \in Nat /\ Len(input) \in Nat /\ got <= Len(input) /\ p \in Nat
        /\ DOMAIN input = 1 .. Len(input) /\ Len(lib.res) \in Nat
    BY InputIs, LenProperties DEF Base, Typed, Library
  <1>3. IsFiniteSet(H)
    <2>1. IsFiniteSet(1 .. Len(input))
      BY <1>2, FS_Interval
    <2>2. H \subseteq 1 .. Len(input)
      BY <1>2
    <2> QED  BY <2>1, <2>2, FS_Subset
  <1>4. Heads(p) \subseteq H
    BY <1>2 DEF Heads
  <1>5. Cardinality(Heads(p)) \in Nat /\ Cardinality(H) \in Nat
        /\ Cardinality(Heads(p)) <= Cardinality(H)
    BY <1>3, <1>4, FS_Subset, FS_CardinalityType
  <1>6. Len(lib.res) <= Cardinality(Heads(p))
    BY <1>1 DEF ParseInv
  <1>7. Requests(input) = Cardinality(H)
    BY DEF Requests, Count
  <1> HIDE DEF H, Heads
  <1> QED  BY <1>2, <1>5, <1>6, <1>7

\* The objects have their types, the streams hold only what was read, and the
\* server makes no more responses than there are requests.
THEOREM TypeCorrect == Spec => []TypeOK
  <1>1. Base /\ All(lib, heard, got) => TypeOK
    <2> SUFFICES ASSUME Base, All(lib, heard, got) PROVE TypeOK
      OBVIOUS
    <2>1. Len(lib.res) <= Requests(input)
      BY ResponsesAreFew
    <2> QED  BY <2>1 DEF Base, Typed, TypeOK
  <1> QED  BY <1>1, AllInvariant, PTL

=============================================================================
