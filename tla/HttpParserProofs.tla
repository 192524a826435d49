-------------------------- MODULE HttpParserProofs --------------------------
(***************************************************************************)
(* Proofs about HttpParser, for every input, however it is split: its      *)
(* types and asserts, the events, and what it holds.                       *)
(*                                                                         *)
(* A byte is counted, handled by the step of the parser's state and kept.  *)
(* Live says what holds of a parser in the course of that, with c bytes    *)
(* counted but not kept yet; each handler takes a live parser to one that  *)
(* has failed or is live again (After), and the lemmas follow the handlers *)
(* of HttpParser in their order.                                           *)
(***************************************************************************)
EXTENDS HttpParser, SequenceTheorems, FiniteSetTheorems, TLAPS

-----------------------------------------------------------------------------
(* The invariants *)

Idle == {"start_req", "dead"}
ChunkStates == {"chunk_size_start", "chunk_size", "chunk_parameters",
                "chunk_size_almost_done", "chunk_data", "chunk_data_almost_done",
                "chunk_data_done"}
InBody == ChunkStates \cup {"body_identity"}
BeforeValue == {"header_value_discard_ws", "header_value_discard_ws_almost_done",
                "header_value_discard_lws"}
AfterValue == {"header_almost_done", "header_value_lws"}
InFields == BeforeValue \cup AfterValue
            \cup {"header_field_start", "header_field", "header_value", "headers_almost_done"}
InLine == States \ (Idle \cup InBody \cup InFields)

\* The marks that may be set in a state while a call runs.
MarksAt(s) ==
  IF s \in UrlStates THEN {"url"}
  ELSE IF s \in {"header_field", "header_value"} THEN {s}
  ELSE IF s \in {"body_identity", "chunk_data", "chunk_data_almost_done"} THEN {None, "body"}
  ELSE {None}
MarkInv(x) == x.mark \in MarksAt(x.state)

\* What a length counts: the bytes that are still missing of a body or a chunk.
LengthInv(x) ==
  /\ x.state \in {"body_identity", "chunk_data"} => x.length \in 1 .. LengthMax - 1
  /\ x.state = "chunk_data_almost_done" => x.length = 0
  /\ x.state \in {"chunk_size", "chunk_parameters", "chunk_size_almost_done"}
       => x.length < LengthMax
  /\ x.state \in ChunkStates => "chunked" \in x.flags

\* The last event, and what it may be in a state.
Kind(h) == IF h = <<>> THEN "end" ELSE h[Len(h)][1]
StageInv(x) ==
  /\ x.state \in Idle => Kind(x.heard) = "end"
  /\ x.state \in InLine =>
       Kind(x.heard) = "end" /\ "trailing" \notin x.flags /\ ~x.trailing
  /\ x.state \in InFields =>
       /\ x.trailing <=> "trailing" \in x.flags
       /\ Kind(x.heard) \in IF x.trailing THEN {"headers", "data"} ELSE {"end"}
  /\ x.state \in InBody => Kind(x.heard) \in {"headers", "data"} /\ x.trailing

\* Names and values are collected in turn: hdrVal says which is in curHdr.
Lines(x) == IF x.trailing THEN x.trailers ELSE x.headers
Turn(x) ==
  IF ~x.hdrVal THEN x.curHdr # <<>> /\ Len(Lines(x)) % 2 = 0
  ELSE IF Lines(x) = <<>> THEN x.curHdr = <<>>
  ELSE Len(Lines(x)) % 2 = 1
NamesInv(x) ==
  /\ NamesKept(x.headers) /\ NamesKept(x.trailers)
  /\ ~x.trailing => x.trailers = <<>>
  /\ x.state \in InLine => x.headers = <<>> /\ x.curHdr = <<>> /\ x.hdrVal
  /\ x.state \in InBody => x.trailers = <<>> /\ x.curHdr = <<>> /\ x.hdrVal
  /\ x.state \in InFields => Turn(x)
  /\ x.state \in BeforeValue => ~x.hdrVal
  /\ x.state \in {"header_field_start", "headers_almost_done"} => x.hdrVal
  /\ x.state \in AfterValue => x.hdrVal
  /\ x.state \in AfterValue \cup {"header_value"} /\ x.hdrVal => Lines(x) # <<>>

\* A name that has been begun in this call is in its piece.
NameBegun(x) == x.state = "header_field" /\ x.hdrVal => x.piece # <<>>

\* A value that is whole is one of those the header lists.
WordInv(x) ==
  x.state \in {"header_value"} \cup AfterValue /\ x.hdr \in DOMAIN ListWords
    /\ x.phase = "whole" => x.word \in ListWords[x.hdr]

\* What is held of a head, or of trailers, was counted.
Pending(x) == IF x.mark \in {"url", "header_field", "header_value"} THEN Len(x.piece) ELSE 0
HeldInv(x, n) ==
  IF x.trailing
  THEN /\ Len(x.url) + Size(x.headers) <= MaxHeaderSize
       /\ Size(x.trailers) + Len(x.curHdr) + Pending(x) <= n
  ELSE Len(x.url) + Size(x.headers) + Len(x.curHdr) + Pending(x) <= n

ParserSafe(x) ==
  /\ x \in Parser /\ x.sound
  /\ Framed(x.heard) /\ HeadersPaired(x.heard)
  /\ x.nread <= MaxHeaderSize + 1
  /\ x.stopped => x.upgrade
  /\ x.mark = None => x.piece = <<>>
\* While it has not failed.
ParserGoes(x) ==
  /\ LengthInv(x) /\ StageInv(x) /\ NamesInv(x) /\ NameBegun(x) /\ WordInv(x)
  /\ x.state = "chunk_size_start" => x.nread = 0

\* The inductive invariant: a parser that may go on is safe, holds no more than it
\* counted, and has heard what its state allows; one that has failed is only safe.
IInv ==
  /\ input \in Inputs /\ fed \in 0 .. Len(input)
  /\ upto \in {0} \cup fed .. Len(input) /\ closed \in BOOLEAN
  /\ ParserSafe(p)
  /\ ~p.failed => /\ p.nread <= MaxHeaderSize /\ HeldInv(p, p.nread)
                  /\ ~p.trailing => p.trailers = <<>>
  /\ ~p.failed /\ ~Errored(p) => ParserGoes(p)
  /\ IF Running THEN ~Errored(p) /\ (~p.failed => MarkInv(p))
     ELSE p.mark = None /\ (~Errored(p) => ~p.failed)

-----------------------------------------------------------------------------
(* The sets of states, letters and numbers *)

TextMarks == {"url", "header_field", "header_value"}

LEMMA Regions ==
  /\ BeforeValue \cup AfterValue
       \cup {"header_field_start", "header_field", "header_value", "headers_almost_done"}
     = InFields
  /\ BeforeValue \cap AfterValue = {}
  /\ Idle \cap InFields = {} /\ Idle \cap InBody = {} /\ InFields \cap InBody = {}
  /\ Idle \cap InLine = {} /\ InLine \cap InFields = {} /\ InLine \cap InBody = {}
  /\ ChunkStates \subseteq InBody /\ "body_identity" \in InBody
  /\ "body_identity" \notin ChunkStates
  /\ {"header_field_start", "header_field", "header_value", "headers_almost_done"}
       \cap (BeforeValue \cup AfterValue) = {}
  <1>1. Idle \cap InFields = {} /\ BeforeValue \cap AfterValue = {}
    BY DEF Idle, InFields, BeforeValue, AfterValue
  <1>2. Idle \cap InBody = {} /\ "body_identity" \notin ChunkStates
    BY DEF Idle, InBody, ChunkStates
  <1>3. InFields \cap InBody = {}
    BY DEF InFields, BeforeValue, AfterValue, InBody, ChunkStates
  <1>4. {"header_field_start", "header_field", "header_value", "headers_almost_done"}
          \cap (BeforeValue \cup AfterValue) = {}
    BY DEF BeforeValue, AfterValue
  <1>5. InFields = BeforeValue \cup AfterValue
       \cup {"header_field_start", "header_field", "header_value", "headers_almost_done"}
    BY DEF InFields
  <1>6. ChunkStates \subseteq InBody /\ "body_identity" \in InBody
    BY DEF InBody
  <1>7. Idle \cap InLine = {} /\ InLine \cap InFields = {} /\ InLine \cap InBody = {}
    BY DEF InLine
  <1> QED  BY <1>1, <1>2, <1>3, <1>4, <1>5, <1>6, <1>7

LEMMA UrlRegion ==
  /\ UrlStates \subseteq InLine
  /\ UrlStates \cap DOMAIN Literal = {} /\ "dead" \notin UrlStates
  <1>1. UrlStates \subseteq States
    BY DEF States
  <1>2. UrlStates \cap (Idle \cup InBody) = {}
    BY DEF UrlStates, SchemaStates, ServerStates, QueryStates, FragmentStates, Idle, InBody,
           ChunkStates
  <1>3. UrlStates \cap InFields = {}
    BY DEF UrlStates, SchemaStates, ServerStates, QueryStates, FragmentStates, InFields,
           BeforeValue, AfterValue
  <1>4. UrlStates \cap DOMAIN Literal = {} /\ "dead" \notin UrlStates
    BY DEF UrlStates, SchemaStates, ServerStates, QueryStates, FragmentStates, Literal
  <1> QED  BY <1>1, <1>2, <1>3, <1>4 DEF InLine

LEMMA Numbers ==
  /\ \A b \in Digits : DigitValue[b] \in 0 .. 9
  /\ DOMAIN unhex \subseteq Bytes
  /\ \A b \in DOMAIN unhex : unhex[b] \in 0 .. 15
  <1>1. \A b \in Digits : DigitValue[b] \in 0 .. 9
    BY DEF Digits, DigitValue
  <1>2. DOMAIN unhex = Digits \cup {"a", "c", "e", "C", "E"}
    BY DEF unhex
  <1>3. DOMAIN unhex \subseteq Bytes
    BY <1>2 DEF Bytes, Alpha, Upper, LowerCase
  <1>4. ASSUME NEW b \in DOMAIN unhex PROVE unhex[b] \in 0 .. 15
    <2>1. CASE b \in Digits
      <3>1. b \notin {"a", "c", "e", "C", "E"}
        BY <2>1 DEF Digits
      <3>2. unhex[b] = DigitValue[b]
        BY <1>2, <2>1, <3>1, Zenon DEF unhex
      <3> QED  BY <3>2, <1>1, <2>1
    <2>2. CASE b \notin Digits
      BY <1>2, <2>2 DEF unhex
    <2> QED  BY <2>1, <2>2
  <1> QED  BY <1>1, <1>3, <1>4

LEMMA LowerIsLetter ==
  ASSUME NEW b \in Bytes
  PROVE  Lower(b) \in Letters
  <1> DEFINE moved == {"G", "E", "P", "O", "C", "N", "S", "H", "T", "I", "HT", "NUL", "@", "[", "_"}
  <1>1. CASE b \in moved
    BY <1>1 DEF Lower, Letters, Bytes, Alpha, LowerCase, Blanks, Separators
  <1>2. CASE b \notin moved
    <2>1. Lower(b) = b
      BY <1>2 DEF Lower
    <2> QED  BY <2>1 DEF Letters
  <1> QED  BY <1>1, <1>2

LEMMA NamesMean ==
  \A w \in DOMAIN NameHdr : NameHdr[w] \in Meanings
  BY DEF NameHdr, Meanings

\* A length that passes its test stays below the one that means "none".
LEMMA LengthFits ==
  ASSUME NEW k \in 0 .. LengthMax, NEW f \in {10, 16}, NEW d \in 0 .. f - 1,
         ~((LengthMax - f) \div f < k)
  PROVE  (k * f + d) % (LengthMax + 1) \in 0 .. LengthMax - 1
  <1> USE ParserConstants
  <1>1. CASE f = 10
    <2>1. k * 10 + d \in 0 .. LengthMax - 1
      BY <1>1
    <2> QED  BY <1>1, <2>1
  <1>2. CASE f = 16
    <2>1. k * 16 + d \in 0 .. LengthMax - 1
      BY <1>2
    <2> QED  BY <1>2, <2>1
  <1> QED  BY <1>1, <1>2

-----------------------------------------------------------------------------
(* Sequences of events and of names and values *)

LEMMA FramedMore ==
  ASSUME NEW h \in Seq(Events), NEW e \in Events, Framed(h),
         e[1] = "headers" => Kind(h) = "end",
         e[1] \in {"data", "end"} => Kind(h) \in {"headers", "data"},
         Kind(h) = "error" => e[1] = "error"
  PROVE  Framed(Append(h, e)) /\ Kind(Append(h, e)) = e[1]
  <1> DEFINE g == Append(h, e)
  <1>1. /\ g \in Seq(Events) /\ Len(h) \in Nat /\ Len(g) = Len(h) + 1
        /\ DOMAIN h = 1 .. Len(h) /\ DOMAIN g = 1 .. Len(h) + 1
        /\ g[Len(h) + 1] = e /\ \A i \in 1 .. Len(h) : g[i] = h[i]
        /\ h = <<>> <=> Len(h) = 0
    OBVIOUS
  <1>2. g # <<>>
    BY <1>1
  <1> HIDE DEF g
  <1>3. Kind(g) = e[1]
    BY <1>1, <1>2 DEF Kind
  <1>4. ASSUME NEW i \in 1 .. Len(h) + 1
        PROVE  LET before == IF i = 1 THEN "end" ELSE g[i - 1][1]
               IN  /\ g[i][1] = "headers" => before = "end"
                   /\ g[i][1] \in {"data", "end"} => before \in {"headers", "data"}
                   /\ before = "error" => g[i][1] = "error"
    <2>1. CASE i \in 1 .. Len(h)
      <3>1. g[i] = h[i] /\ (i # 1 => g[i - 1] = h[i - 1]) /\ i \in DOMAIN h
        BY <1>1, <2>1
      <3> QED  BY <3>1 DEF Framed
    <2>2. CASE i = Len(h) + 1
      <3>1. g[i] = e /\ (i # 1 => g[i - 1] = h[Len(h)] /\ h # <<>>) /\ (i = 1 => h = <<>>)
        BY <1>1, <2>2
      <3> QED  BY <3>1 DEF Kind
    <2> QED  BY <2>1, <2>2, <1>1
  <1>5. Framed(g)
    BY <1>1, <1>4 DEF Framed
  <1> QED  BY <1>3, <1>5 DEF g

LEMMA HeardMore ==
  ASSUME NEW h \in Seq(Events), NEW e \in Events, HeadersPaired(h),
         e[1] = "headers" => Paired(e[5]), e[1] = "end" => Paired(e[2])
  PROVE  /\ Append(h, e) \in Seq(Events) /\ HeadersPaired(Append(h, e))
         /\ (\E i \in DOMAIN Append(h, e) : Append(h, e)[i][1] = "error")
              <=> (\E i \in DOMAIN h : h[i][1] = "error") \/ e[1] = "error"
  <1> DEFINE g == Append(h, e)
  <1>1. /\ g \in Seq(Events) /\ Len(h) \in Nat
        /\ DOMAIN h = 1 .. Len(h) /\ DOMAIN g = 1 .. Len(h) + 1
        /\ g[Len(h) + 1] = e /\ \A i \in 1 .. Len(h) : g[i] = h[i]
    OBVIOUS
  <1> HIDE DEF g
  <1>2. \A i \in DOMAIN g : i \in DOMAIN h \/ i = Len(h) + 1
    BY <1>1
  <1>3. DOMAIN h \subseteq DOMAIN g /\ Len(h) + 1 \in DOMAIN g
    BY <1>1
  <1>4. HeadersPaired(g)
    BY <1>1, <1>2 DEF HeadersPaired
  <1>5. (\E i \in DOMAIN g : g[i][1] = "error")
          <=> (\E i \in DOMAIN h : h[i][1] = "error") \/ e[1] = "error"
    BY <1>1, <1>2, <1>3
  <1> QED  BY <1>1, <1>4, <1>5 DEF g

LEMMA NamesMore ==
  ASSUME NEW hs \in Seq(Text), NEW t \in Text, NamesKept(hs), Len(hs) % 2 = 0 => t # <<>>
  PROVE  /\ Append(hs, t) \in Seq(Text) /\ NamesKept(Append(hs, t)) /\ Append(hs, t) # <<>>
         /\ Len(Append(hs, t)) % 2 = 1 - (Len(hs) % 2)
  <1> DEFINE g == Append(hs, t)
  <1>1. /\ g \in Seq(Text) /\ Len(hs) \in Nat /\ Len(g) = Len(hs) + 1 /\ g # <<>>
        /\ DOMAIN hs = 1 .. Len(hs) /\ DOMAIN g = 1 .. Len(hs) + 1
        /\ g[Len(hs) + 1] = t /\ \A i \in 1 .. Len(hs) : g[i] = hs[i]
    OBVIOUS
  <1> HIDE DEF g
  <1>2. NamesKept(g)
    BY <1>1 DEF NamesKept
  <1>3. Len(g) % 2 = 1 - (Len(hs) % 2)
    BY <1>1
  <1> QED  BY <1>1, <1>2, <1>3 DEF g

LEMMA NoNames ==
  NamesKept(<<>>) /\ Paired(<<>>) /\ Size(<<>>) = 0
  <1>1. NamesKept(<<>>) /\ Paired(<<>>)
    BY DEF NamesKept, Paired
  <1>2. Places(<<>>) = {}
    BY DEF Places
  <1> QED  BY <1>1, <1>2, FS_EmptySet DEF Size

\* The text held is the sum of the lengths of the strings.
LEMMA PlacesFinite ==
  ASSUME NEW ss \in Seq(Text)
  PROVE  IsFiniteSet(Places(ss)) /\ Size(ss) \in Nat
  <1>1. \A i \in DOMAIN ss : IsFiniteSet({i} \X DOMAIN ss[i])
    <2> TAKE i \in DOMAIN ss
    <2>1. ss[i] \in Text /\ DOMAIN ss[i] = 1 .. Len(ss[i]) /\ Len(ss[i]) \in Nat
      BY DEF Text
    <2>2. IsFiniteSet(1 .. Len(ss[i]))
      BY <2>1, FS_Interval
    <2>3. IsFiniteSet(DOMAIN ss[i]) /\ IsFiniteSet({i})
      BY <2>1, <2>2, FS_Singleton
    <2> QED  BY <2>3, FS_Product
  <1>2. IsFiniteSet(DOMAIN ss)
    <2>1. DOMAIN ss = 1 .. Len(ss) /\ Len(ss) \in Nat
      OBVIOUS
    <2> QED  BY <2>1, FS_Interval
  <1> DEFINE f == [i \in DOMAIN ss |-> {i} \X DOMAIN ss[i]]
             places == {{i} \X DOMAIN ss[i] : i \in DOMAIN ss}
  <1>3. IsFiniteSet(places)
    <2>1. f \in Surjection(DOMAIN ss, places)
      BY DEF Surjection
    <2> HIDE DEF f, places
    <2> QED  BY <1>2, <2>1, FS_Surjection
  <1>4. IsFiniteSet(Places(ss))
    BY <1>1, <1>3, FS_UNION DEF Places
  <1> QED  BY <1>4, FS_CardinalityType DEF Size

LEMMA SizeMore ==
  ASSUME NEW ss \in Seq(Text), NEW t \in Text
  PROVE  Size(ss) \in Nat /\ Size(Append(ss, t)) = Size(ss) + Len(t)
  <1> DEFINE n == Len(ss) + 1
             g == Append(ss, t)
  <1>1. /\ g \in Seq(Text) /\ n \in Nat /\ DOMAIN ss = 1 .. Len(ss) /\ DOMAIN g = 1 .. n
        /\ Len(ss) \in Nat /\ g[n] = t /\ \A i \in 1 .. Len(ss) : g[i] = ss[i]
    OBVIOUS
  <1>2. DOMAIN t = 1 .. Len(t) /\ Len(t) \in Nat
    BY DEF Text
  <1> DEFINE last == {n} \X DOMAIN t
  <1> HIDE DEF g
  <1>3. Places(g) = Places(ss) \cup last
    <2>1. \A q \in Places(g) : q \in Places(ss) \cup last
      BY <1>1 DEF Places
    <2>2. \A q \in Places(ss) : q \in Places(g)
      BY <1>1 DEF Places
    <2>3. \A q \in last : q \in Places(g)
      BY <1>1 DEF Places
    <2> QED  BY <2>1, <2>2, <2>3
  <1>4. Places(ss) \cap last = {}
    BY <1>1 DEF Places
  <1>5. IsFiniteSet(last) /\ Cardinality(last) = Len(t)
    <2> DEFINE m == Len(t)
    <2> HIDE DEF m
    <2>a. m \in Nat
      BY <1>2 DEF m
    <2>b. 1 \in Int /\ m \in Int
      BY <2>a
    <2>c. IsFiniteSet(1 .. m) /\ Cardinality(1 .. m) = IF 1 > m THEN 0 ELSE m - 1 + 1
      BY <2>b, FS_Interval
    <2>0. IsFiniteSet(1 .. m) /\ Cardinality(1 .. m) = m
      BY <2>a, <2>c
    <2>1. IsFiniteSet(DOMAIN t) /\ Cardinality(DOMAIN t) = Len(t)
      BY <1>2, <2>0 DEF m
    <2>2. IsFiniteSet({n}) /\ Cardinality({n}) = 1
      BY FS_Singleton
    <2> DEFINE one == {n}
               dom == DOMAIN t
    <2> HIDE DEF one, dom
    <2>3. IsFiniteSet(one \X dom) /\ Cardinality(one \X dom) = Cardinality(one) * Cardinality(dom)
      BY <2>1, <2>2, FS_Product DEF one, dom
    <2> QED  BY <2>1, <2>2, <2>3, <1>2 DEF one, dom
  <1>6. IsFiniteSet(Places(ss)) /\ Size(ss) \in Nat
    BY PlacesFinite
  <1>7. Cardinality(Places(ss) \cap last) = 0
    BY <1>4, FS_EmptySet
  <1>8. Cardinality(Places(g)) = Cardinality(Places(ss)) + Cardinality(last) - 0
    BY <1>3, <1>5, <1>6, <1>7, FS_Union
  <1> QED  BY <1>2, <1>5, <1>6, <1>8 DEF Size, g

-----------------------------------------------------------------------------
(* A parser that goes on, and one that has failed *)

Live(x, c) ==
  /\ ParserSafe(x) /\ ~Errored(x) /\ ~x.failed /\ x.nread <= MaxHeaderSize
  /\ StageInv(x) /\ NamesInv(x) /\ HeldInv(x, x.nread - c)
Lost(x) == ParserSafe(x) /\ ~Errored(x) /\ x.failed

\* After a byte: the byte is still to be put into a piece that is open.
Slack(x) == IF x.mark \in TextMarks THEN 1 ELSE 0
Fits(x) ==
  /\ MarkInv(x) /\ LengthInv(x) /\ WordInv(x)
  /\ x.state = "chunk_size_start" => x.nread = 0
SameWord(x, y) == y.word = x.word /\ y.hdr = x.hdr /\ y.phase = x.phase
After(x) == Lost(x) \/ (Live(x, Slack(x)) /\ Fits(x))

\* What the parser has collected is the same.
Quiet(x, y) ==
  /\ y.nread = x.nread /\ y.upgrade = x.upgrade /\ y.failed = x.failed
  /\ y.stopped = x.stopped /\ y.sound = x.sound /\ y.heard = x.heard
  /\ y.url = x.url /\ y.headers = x.headers /\ y.trailers = x.trailers
  /\ y.curHdr = x.curHdr /\ y.hdrVal = x.hdrVal /\ y.trailing = x.trailing
Opened(x, y) ==
  \/ y.mark = x.mark /\ y.piece = x.piece
  \/ x.mark = None /\ y.mark # None /\ y.piece = <<>>

\* The moves that collect nothing.
Onward(x, t) ==
  LET s == x.state IN
  \/ s = t
  \/ s \in InLine /\ t \in InLine \cup {"header_field_start"}
  \/ s \in BeforeValue \cup AfterValue /\ t = "header_value"
  \/ s \in BeforeValue /\ t \in BeforeValue
  \/ s = "header_value" /\ x.hdrVal /\ Lines(x) # <<>> /\ t \in AfterValue
  \/ s \in AfterValue /\ t \in AfterValue \cup {"header_field_start"}
  \/ s = "header_field_start" /\ t \in {"header_field", "headers_almost_done"}
  \/ s \in InBody /\ t \in InBody

LEMMA Lengths ==
  ASSUME NEW x \in Parser
  PROVE  /\ Len(x.url) \in Nat /\ Len(x.curHdr) \in Nat /\ Len(x.piece) \in Nat
         /\ Size(x.headers) \in Nat /\ Size(x.trailers) \in Nat /\ x.nread \in Nat
         /\ Pending(x) \in Nat /\ Len(x.headers) \in Nat /\ Len(x.trailers) \in Nat
         /\ Lines(x) \in Seq(Text) /\ Len(Lines(x)) \in Nat /\ Size(Lines(x)) \in Nat
  <1>1. /\ x.headers \in Seq(Text) /\ x.trailers \in Seq(Text) /\ x.nread \in Nat
        /\ x.url \in Text /\ x.curHdr \in Text /\ x.piece \in Text
    BY DEF Parser
  <1>2. /\ Len(x.url) \in Nat /\ Len(x.curHdr) \in Nat /\ Len(x.piece) \in Nat
        /\ Len(x.headers) \in Nat /\ Len(x.trailers) \in Nat
    BY <1>1 DEF Text
  <1>3. Size(x.headers) \in Nat /\ Size(x.trailers) \in Nat
    BY <1>1, PlacesFinite
  <1> QED  BY <1>1, <1>2, <1>3 DEF Pending, Lines

LEMMA QuietNames ==
  ASSUME NEW x, NEW y, NamesInv(x), StageInv(x), Quiet(x, y), Onward(x, y.state)
  PROVE  NamesInv(y)
  <1> USE DEF Quiet
  <1>1. Lines(y) = Lines(x)
    BY DEF Lines
  <1>2. NamesKept(y.headers) /\ NamesKept(y.trailers) /\ (~y.trailing => y.trailers = <<>>)
    BY DEF NamesInv, Turn
  <1>3. CASE x.state = y.state
    BY <1>1, <1>2, <1>3 DEF NamesInv, Turn
  <1>4. CASE x.state \in InLine /\ y.state \in InLine
    <2>1. y.state \notin InBody \cup InFields
      BY <1>4, Regions
    <2>2. y.state \notin BeforeValue \cup AfterValue
                          \cup {"header_field_start", "headers_almost_done", "header_value"}
      BY <2>1, Regions
    <2> QED  BY <1>2, <1>4, <2>1, <2>2 DEF NamesInv, Turn
  <1>5. CASE x.state \in InBody /\ y.state \in InBody
    <2>1. y.state \notin InLine \cup InFields
      BY <1>5, Regions
    <2>2. y.state \notin BeforeValue \cup AfterValue
                          \cup {"header_field_start", "headers_almost_done", "header_value"}
      BY <2>1, Regions
    <2> QED  BY <1>2, <1>5, <2>1, <2>2 DEF NamesInv, Turn
  <1>6. CASE x.state \in InLine /\ y.state = "header_field_start"
    <2>1. /\ Lines(y) = <<>> /\ y.curHdr = <<>> /\ y.hdrVal
      BY <1>1, <1>6 DEF NamesInv, StageInv, Lines
    <2>2. /\ y.state \in InFields /\ y.state \notin InLine \cup InBody
          /\ y.state \notin BeforeValue \cup AfterValue \cup {"header_value"}
      BY <1>6, Regions
    <2> QED  BY <1>2, <2>1, <2>2 DEF NamesInv, Turn
  <1>7. CASE x.state \in BeforeValue \cup AfterValue /\ y.state = "header_value"
    BY <1>1, <1>2, <1>7, Regions DEF NamesInv, Turn
  <1>8. CASE x.state \in BeforeValue /\ y.state \in BeforeValue
    BY <1>1, <1>2, <1>8, Regions DEF NamesInv, Turn
  <1>9. CASE x.state \in AfterValue /\ y.state \in AfterValue \cup {"header_field_start"}
    BY <1>1, <1>2, <1>9, Regions DEF NamesInv, Turn
  <1>10. CASE x.state = "header_field_start"
              /\ y.state \in {"header_field", "headers_almost_done"}
    BY <1>1, <1>2, <1>10, Regions DEF NamesInv, Turn
  <1>11. CASE x.state = "header_value" /\ x.hdrVal /\ Lines(x) # <<>> /\ y.state \in AfterValue
    BY <1>1, <1>2, <1>11, Regions DEF NamesInv, Turn
  <1> QED  BY <1>3, <1>4, <1>5, <1>6, <1>7, <1>8, <1>9, <1>10, <1>11 DEF Onward

LEMMA QuietStage ==
  ASSUME NEW x, NEW y, StageInv(x), Quiet(x, y), Onward(x, y.state),
         "trailing" \in y.flags <=> "trailing" \in x.flags
  PROVE  StageInv(y)
  <1> USE DEF Quiet
  <1>1. CASE x.state = y.state
    BY <1>1 DEF StageInv
  <1>2. CASE x.state \in InLine /\ y.state \in InLine
    BY <1>2, Regions DEF StageInv
  <1>3. CASE x.state \in InBody /\ y.state \in InBody
    BY <1>3, Regions DEF StageInv
  <1>4. CASE x.state \in InFields /\ y.state \in InFields
    BY <1>4, Regions DEF StageInv
  <1>5. CASE x.state \in InLine /\ y.state = "header_field_start"
    <2>1. y.state \in InFields
      BY <1>5, Regions
    <2> QED  BY <1>5, <2>1, Regions DEF StageInv
  <1> QED  BY <1>1, <1>2, <1>3, <1>4, <1>5, Regions DEF Onward

LEMMA HeldLess ==
  ASSUME NEW x \in Parser, NEW y \in Parser, NEW k \in Int, NEW n \in Int, k <= n,
         HeldInv(x, k), Pending(y) <= Pending(x), y.url = x.url, y.headers = x.headers,
         y.trailers = x.trailers, y.curHdr = x.curHdr, y.trailing = x.trailing
  PROVE  HeldInv(y, n)
  <1> DEFINE u == Len(x.url)
             h == Size(x.headers)
             t == Size(x.trailers)
             l == Len(x.curHdr)
             a == Pending(x)
             b == Pending(y)
  <1>1. u \in Nat /\ h \in Nat /\ t \in Nat /\ l \in Nat /\ a \in Nat /\ b \in Nat /\ b <= a
    BY Lengths
  <1>2. IF x.trailing THEN u + h <= MaxHeaderSize /\ t + l + a <= k ELSE u + h + l + a <= k
    BY DEF HeldInv
  <1>3. u = Len(y.url) /\ h = Size(y.headers) /\ t = Size(y.trailers) /\ l = Len(y.curHdr)
    OBVIOUS
  <1> HIDE DEF u, h, t, l, a
  <1>4. IF x.trailing THEN u + h <= MaxHeaderSize /\ t + l + b <= n ELSE u + h + l + b <= n
    BY <1>1, <1>2
  <1> QED  BY <1>3, <1>4 DEF HeldInv

LEMMA QuietMove ==
  ASSUME NEW x, NEW y \in Parser, NEW c \in {0, 1}, Live(x, c),
         Quiet(x, y), Opened(x, y), Onward(x, y.state),
         "trailing" \in y.flags <=> "trailing" \in x.flags,
         y.mark = None => y.piece = <<>>
  PROVE  Live(y, c)
  <1>1. NamesInv(y) /\ StageInv(y)
    BY QuietNames, QuietStage DEF Live
  <1>2. ParserSafe(y) /\ ~Errored(y) /\ ~y.failed /\ y.nread <= MaxHeaderSize
    BY DEF Live, ParserSafe, Quiet, Errored
  <1>3. HeldInv(y, y.nread - c)
    <2>1. x \in Parser /\ HeldInv(x, x.nread - c)
      BY DEF Live, ParserSafe
    <2>2. Pending(y) <= Pending(x)
      <3>1. CASE y.mark = x.mark /\ y.piece = x.piece
        BY <3>1, <2>1, Lengths DEF Pending
      <3>2. CASE y.piece = <<>>
        <4>1. Len(y.piece) = 0
          BY <3>2
        <4> QED  BY <4>1, <2>1, Lengths DEF Pending
      <3> QED  BY <3>1, <3>2 DEF Opened
    <2>3. x.nread - c \in Int
      BY <2>1, Lengths
    <2>4. /\ y.url = x.url /\ y.headers = x.headers /\ y.trailers = x.trailers
          /\ y.curHdr = x.curHdr /\ y.trailing = x.trailing /\ y.nread = x.nread
      BY DEF Quiet
    <2> QED  BY <2>1, <2>2, <2>3, <2>4, HeldLess
  <1> QED  BY <1>1, <1>2, <1>3 DEF Live

LEMMA LiveEnds ==
  ASSUME NEW y, Live(y, 1) \/ (Live(y, 0) /\ y.mark \notin TextMarks),
         Fits(y)
  PROVE  After(y)
  <1>1. CASE Live(y, 1)
    <2>1. y \in Parser /\ HeldInv(y, y.nread - 1)
      BY <1>1 DEF Live, ParserSafe
    <2>2. Pending(y) \in Nat /\ y.nread \in Nat /\ Slack(y) \in {0, 1}
      BY <2>1, Lengths DEF Slack
    <2>3. /\ Pending(y) <= Pending(y) /\ y.nread - 1 <= y.nread - Slack(y)
          /\ y.nread - 1 \in Int /\ y.nread - Slack(y) \in Int
      BY <2>2
    <2>4. HeldInv(y, y.nread - Slack(y))
      BY <2>1, <2>3, HeldLess
    <2> QED  BY <1>1, <2>4 DEF Live, After
  <1>2. CASE Live(y, 0) /\ y.mark \notin TextMarks
    BY <1>2 DEF After, Slack
  <1> QED  BY <1>1, <1>2

LEMMA FailIsLost ==
  ASSUME NEW x, ParserSafe(x), ~Errored(x)
  PROVE  Lost(Fail(x)) /\ After(Fail(x))
  <1>1. Fail(x) \in Parser
    BY DEF Fail, ParserSafe, Parser
  <1>2. ParserSafe(Fail(x)) /\ ~Errored(Fail(x)) /\ Fail(x).failed
    BY <1>1 DEF Fail, ParserSafe, Parser, Errored
  <1> QED  BY <1>2 DEF Lost, After

LEMMA LiveFails ==
  ASSUME NEW x, NEW c, Live(x, c)
  PROVE  After(Fail(x))
  BY FailIsLost DEF Live

\* The fields the scanner changes on its way.
LEMMA Scanned ==
  ASSUME NEW x \in Parser
  PROVE  /\ \A s \in States : Go(x, s) \in Parser /\ Quiet(x, Go(x, s))
              /\ Go(x, s).mark = x.mark /\ Go(x, s).piece = x.piece /\ Go(x, s).state = s
              /\ Go(x, s).flags = x.flags /\ Go(x, s).length = x.length
              /\ Go(x, s).method = x.method /\ Go(x, s).hdr = x.hdr /\ Go(x, s).phase = x.phase
  BY DEF Go, Parser, Quiet

-----------------------------------------------------------------------------
(* The callbacks *)

\* What the callbacks for names and values leave alone.
Elsewhere(x, y) ==
  /\ y.state = x.state /\ y.word = x.word /\ y.hdr = x.hdr /\ y.phase = x.phase
  /\ y.flags = x.flags /\ y.length = x.length /\ y.nread = x.nread
  /\ y.method = x.method /\ y.major = x.major /\ y.minor = x.minor
  /\ y.upgrade = x.upgrade /\ y.failed = x.failed /\ y.stopped = x.stopped
  /\ y.sound = x.sound /\ y.mark = x.mark /\ y.piece = x.piece /\ y.url = x.url
  /\ y.heard = x.heard
NamesFine(x) == NamesKept(x.headers) /\ NamesKept(x.trailers) /\ Turn(x)
Collected(x) == Size(Lines(x)) + Len(x.curHdr)
OthersSame(x, y) == IF x.trailing THEN y.headers = x.headers ELSE y.trailers = x.trailers

LEMMA Flushed ==
  ASSUME NEW x \in Parser, NEW v \in BOOLEAN, x.hdrVal # v, NamesFine(x)
  PROVE  LET y == FlushHdr(x, v)
         IN  /\ y \in Parser /\ Elsewhere(x, y) /\ y.trailing = x.trailing
             /\ y.hdrVal = v /\ y.curHdr = <<>> /\ OthersSame(x, y)
             /\ NamesKept(y.headers) /\ NamesKept(y.trailers)
             /\ Size(Lines(y)) = Collected(x)
             /\ IF v THEN Lines(y) # <<>> /\ Len(Lines(y)) % 2 = 1 ELSE Len(Lines(y)) % 2 = 0
  <1> DEFINE y == FlushHdr(x, v)
  <1>0. /\ x.headers \in Seq(Text) /\ x.trailers \in Seq(Text) /\ x.curHdr \in Text
        /\ x.trailing \in BOOLEAN /\ x.hdrVal \in BOOLEAN /\ <<>> \in Text
    BY DEF Parser, Text
  <1>1. Lines(x) \in Seq(Text) /\ NamesKept(Lines(x)) /\ Len(Lines(x)) \in Nat
    BY <1>0 DEF Lines, NamesFine
  <1>2. CASE Lines(x) = <<>> /\ x.curHdr = <<>>
    <2>1. y = [x EXCEPT !.hdrVal = v]
      BY <1>2 DEF FlushHdr, Lines
    <2> HIDE DEF y
    <2>a. y \in Parser
      BY <2>1 DEF Parser
    <2>b. y.trailing = x.trailing /\ y.hdrVal = v
      BY <2>1 DEF Parser
    <2>2. Elsewhere(x, y) /\ y.headers = x.headers /\ y.trailers = x.trailers
          /\ y.curHdr = x.curHdr
      BY <2>1 DEF Parser, Elsewhere
    <2>3. Lines(y) = <<>>
      BY <1>2, <2>b, <2>2 DEF Lines
    <2>4. ~v
      BY <1>0, <1>2 DEF NamesFine, Turn
    <2>5. Size(Lines(y)) = Collected(x) /\ Len(Lines(y)) % 2 = 0
      BY <1>2, <2>3, NoNames DEF Collected
    <2> QED  BY <1>2, <2>a, <2>b, <2>2, <2>4, <2>5 DEF NamesFine, OthersSame, y
  <1>3. CASE ~(Lines(x) = <<>> /\ x.curHdr = <<>>)
    <2> DEFINE ss == Append(Lines(x), x.curHdr)
    <2>1. Len(Lines(x)) % 2 = 0 => x.curHdr # <<>>
      BY <1>0, <1>1, <1>3 DEF NamesFine, Turn
    <2>2. /\ ss \in Seq(Text) /\ NamesKept(ss) /\ ss # <<>>
          /\ Len(ss) % 2 = 1 - (Len(Lines(x)) % 2)
      BY <1>0, <1>1, <2>1, NamesMore
    <2>c. IF v THEN Len(Lines(x)) % 2 = 0 ELSE Len(Lines(x)) % 2 = 1
      BY <1>0, <1>3 DEF NamesFine, Turn
    <2>3. Size(ss) = Collected(x)
      BY <1>0, <1>1, SizeMore DEF Collected
    <2> HIDE DEF ss
    <2>4. CASE x.trailing
      <3>1. y = [x EXCEPT !.trailers = ss, !.curHdr = <<>>, !.hdrVal = v]
        BY <1>0, <1>3, <2>4 DEF FlushHdr, Lines, ss, Parser
      <3> HIDE DEF y
      <3>a. y \in Parser
        BY <3>1, <2>2, <1>0 DEF Parser
      <3>b. y.trailing = x.trailing /\ y.hdrVal = v
        BY <3>1 DEF Parser
      <3>2. Elsewhere(x, y) /\ y.headers = x.headers /\ y.trailers = ss /\ y.curHdr = <<>>
        BY <3>1 DEF Parser, Elsewhere
      <3>3. Lines(y) = ss
        BY <2>4, <3>b, <3>2 DEF Lines
      <3>4. IF v THEN Len(ss) % 2 = 1 ELSE Len(ss) % 2 = 0
        BY <2>2, <2>c
      <3> QED  BY <2>2, <2>3, <2>4, <3>a, <3>b, <3>2, <3>3, <3>4 DEF NamesFine, OthersSame, y
    <2>5. CASE ~x.trailing
      <3>1. y = [x EXCEPT !.headers = ss, !.curHdr = <<>>, !.hdrVal = v]
        BY <1>0, <1>3, <2>5 DEF FlushHdr, Lines, ss, Parser
      <3> HIDE DEF y
      <3>a. y \in Parser
        BY <3>1, <2>2, <1>0 DEF Parser
      <3>b. y.trailing = x.trailing /\ y.hdrVal = v
        BY <3>1 DEF Parser
      <3>2. Elsewhere(x, y) /\ y.trailers = x.trailers /\ y.headers = ss /\ y.curHdr = <<>>
        BY <3>1 DEF Parser, Elsewhere
      <3>3. Lines(y) = ss
        BY <2>5, <3>b, <3>2 DEF Lines
      <3>4. IF v THEN Len(ss) % 2 = 1 ELSE Len(ss) % 2 = 0
        BY <2>2, <2>c
      <3> QED  BY <2>2, <2>3, <2>5, <3>a, <3>b, <3>2, <3>3, <3>4 DEF NamesFine, OthersSame, y
    <2> QED  BY <2>4, <2>5
  <1> QED  BY <1>2, <1>3

\* A piece of a name, and a piece of a value.
LEMMA Processed ==
  ASSUME NEW x \in Parser, NEW v \in BOOLEAN, NEW t \in Text, NamesFine(x),
         IF v THEN x.hdrVal => Lines(x) # <<>> ELSE x.hdrVal => t # <<>>
  PROVE  LET y == ProcessHdr(x, v, t)
         IN  /\ y \in Parser /\ Elsewhere(x, y) /\ y.trailing = x.trailing
             /\ y.hdrVal = v /\ OthersSame(x, y) /\ NamesFine(y)
             /\ Collected(y) = Collected(x) + Len(t) /\ (v => Lines(y) # <<>>)
  <1> DEFINE f == FlushHdr(x, v)
             y == ProcessHdr(x, v, t)
  <1>0. x.hdrVal \in BOOLEAN /\ Len(t) \in Nat
    BY DEF Parser, Text
  <1>1. /\ f \in Parser /\ Elsewhere(x, f) /\ f.trailing = x.trailing /\ f.hdrVal = v
        /\ OthersSame(x, f) /\ NamesKept(f.headers) /\ NamesKept(f.trailers)
        /\ Collected(f) = Collected(x)
        /\ IF v THEN Lines(f) # <<>> /\ Len(Lines(f)) % 2 = 1 ELSE Len(Lines(f)) % 2 = 0
        /\ ~v => t # <<>> \/ f.curHdr # <<>>
    <2>1. CASE x.hdrVal # v
      <3>1. Len(f.curHdr) = 0 /\ Size(Lines(f)) \in Nat
        BY <2>1, Flushed, Lengths
      <3> QED  BY <1>0, <2>1, <3>1, Flushed DEF Collected
    <2>2. CASE x.hdrVal = v
      <3>1. f = x
        BY <2>2 DEF FlushHdr
      <3> QED  BY <2>2, <3>1 DEF NamesFine, Turn, Elsewhere, OthersSame
    <2> QED  BY <2>1, <2>2
  <1>2. y = [f EXCEPT !.curHdr = f.curHdr \o t]
    BY DEF ProcessHdr
  <1> HIDE DEF f
  <1>3. /\ f.curHdr \in Text /\ f.curHdr \o t \in Text
        /\ Len(f.curHdr \o t) = Len(f.curHdr) + Len(t) /\ Len(f.curHdr) \in Nat
    BY <1>1 DEF Parser, Text
  <1>4. t # <<>> \/ f.curHdr # <<>> => f.curHdr \o t # <<>>
    BY <1>1 DEF Parser, Text
  <1> DEFINE l == f.curHdr \o t
  <1> HIDE DEF l, y
  <1>a. l \in Text /\ f \in Parser /\ y = [f EXCEPT !.curHdr = l]
    BY <1>1, <1>2, <1>3 DEF l
  <1>b. y \in Parser
    BY <1>a DEF Parser
  <1>c. /\ y.trailing = f.trailing /\ y.hdrVal = f.hdrVal
        /\ y.headers = f.headers /\ y.trailers = f.trailers /\ y.curHdr = l
    BY <1>a DEF Parser
  <1>d. Elsewhere(f, y)
    BY <1>a DEF Parser, Elsewhere
  <1>5. /\ y \in Parser /\ Elsewhere(f, y) /\ y.trailing = f.trailing /\ y.hdrVal = f.hdrVal
        /\ y.headers = f.headers /\ y.trailers = f.trailers /\ y.curHdr = f.curHdr \o t
    BY <1>b, <1>c, <1>d DEF l
  <1>6. Lines(y) = Lines(f)
    BY <1>5 DEF Lines
  <1>7. Collected(y) = Collected(x) + Len(t)
    <2>1. Collected(y) = Size(Lines(f)) + (Len(f.curHdr) + Len(t))
      BY <1>3, <1>5, <1>6 DEF Collected
    <2>2. Size(Lines(f)) \in Nat /\ Collected(x) = Size(Lines(f)) + Len(f.curHdr)
      BY <1>1, Lengths DEF Collected
    <2> QED  BY <1>0, <1>3, <2>1, <2>2
  <1>8. NamesFine(y)
    BY <1>1, <1>4, <1>5, <1>6 DEF NamesFine, Turn
  <1>9. Elsewhere(x, y) /\ OthersSame(x, y)
    BY <1>1, <1>5 DEF Elsewhere, OthersSame
  <1> QED  BY <1>1, <1>5, <1>6, <1>7, <1>8, <1>9 DEF y

LEMMA HeadersEnd ==
  ASSUME NEW x \in Parser, NamesFine(x), x.hdrVal
  PROVE  LET y == EndHdrs(x)
         IN  /\ y \in Parser /\ Elsewhere(x, y) /\ y.trailing /\ y.hdrVal /\ y.curHdr = <<>>
             /\ OthersSame(x, y) /\ NamesKept(y.headers) /\ NamesKept(y.trailers)
             /\ LET ss == IF x.trailing THEN y.trailers ELSE y.headers
                IN  Paired(ss) /\ Size(ss) = Collected(x)
  <1> DEFINE f == FlushHdr(x, FALSE)
             y == EndHdrs(x)
  <1>1. /\ f \in Parser /\ Elsewhere(x, f) /\ f.trailing = x.trailing
        /\ ~f.hdrVal /\ f.curHdr = <<>> /\ OthersSame(x, f)
        /\ NamesKept(f.headers) /\ NamesKept(f.trailers)
        /\ Size(Lines(f)) = Collected(x) /\ Len(Lines(f)) % 2 = 0
    BY Flushed
  <1>2. y = [f EXCEPT !.hdrVal = TRUE, !.trailing = TRUE]
    BY DEF EndHdrs
  <1> HIDE DEF f, y
  <1>a. y \in Parser
    BY <1>1, <1>2 DEF Parser
  <1>b. y.trailing /\ y.hdrVal
    BY <1>1, <1>2 DEF Parser
  <1>3. /\ Elsewhere(f, y)
        /\ y.headers = f.headers /\ y.trailers = f.trailers /\ y.curHdr = f.curHdr
    BY <1>1, <1>2 DEF Parser, Elsewhere
  <1>4. Elsewhere(x, y) /\ OthersSame(x, y)
    BY <1>1, <1>3 DEF Elsewhere, OthersSame
  <1>5. Lines(f) = IF x.trailing THEN y.trailers ELSE y.headers
    BY <1>1, <1>3 DEF Lines
  <1>6. Paired(Lines(f))
    BY <1>1 DEF Paired, Lines
  <1> QED  BY <1>1, <1>a, <1>b, <1>3, <1>4, <1>5, <1>6 DEF y

\* A piece of the URL.
LEMMA UrlHanded ==
  ASSUME NEW x, NEW c \in {0, 1}, Live(x, c), x.mark = "url", ~x.trailing
  PROVE  LET y == CallbackData(x, "url")
         IN  /\ Live(y, c) /\ y.mark = None /\ y.piece = <<>> /\ y.state = x.state
             /\ y.flags = x.flags /\ y.length = x.length /\ y.stopped = x.stopped
             /\ y.upgrade = x.upgrade
  <1> DEFINE y == CallbackData(x, "url")
  <1>1. y = [x EXCEPT !.url = x.url \o x.piece, !.mark = None, !.piece = <<>>]
    BY DEF CallbackData, DataCallback, None, Live, ParserSafe, Parser
  <1> HIDE DEF y
  <1>2. x \in Parser /\ x.url \in Text /\ x.piece \in Text
    BY DEF Live, ParserSafe, Parser
  <1>3. /\ x.url \o x.piece \in Text /\ <<>> \in Text /\ Len(<<>>) = 0
        /\ Len(x.url \o x.piece) = Len(x.url) + Len(x.piece)
    BY <1>2 DEF Text
  <1>4. y \in Parser
    BY <1>1, <1>2, <1>3 DEF Parser
  <1>5. /\ y.url = x.url \o x.piece /\ y.mark = None /\ y.piece = <<>>
        /\ y.state = x.state /\ y.flags = x.flags /\ y.length = x.length
        /\ y.heard = x.heard /\ y.nread = x.nread /\ y.headers = x.headers
        /\ y.trailers = x.trailers /\ y.curHdr = x.curHdr
    BY <1>1, <1>2 DEF Parser
  <1>6. /\ y.hdrVal = x.hdrVal /\ y.trailing = x.trailing /\ y.stopped = x.stopped
        /\ y.upgrade = x.upgrade /\ y.failed = x.failed /\ y.sound = x.sound
    BY <1>1, <1>2 DEF Parser
  <1>7. ParserSafe(y) /\ ~Errored(y) /\ ~y.failed /\ y.nread <= MaxHeaderSize
    BY <1>4, <1>5, <1>6 DEF Live, ParserSafe, Errored
  <1>8. StageInv(y) /\ NamesInv(y)
    BY <1>5, <1>6 DEF Live, StageInv, NamesInv, Turn, Lines
  <1>9. HeldInv(y, y.nread - c)
    <2>1. Pending(x) = Len(x.piece) /\ Pending(y) = 0
      BY <1>5, <1>3 DEF Pending, None
    <2>2. Len(x.url) + Size(x.headers) + Len(x.curHdr) + Len(x.piece) <= x.nread - c
      BY <2>1 DEF Live, HeldInv
    <2>3. /\ Len(x.url) \in Nat /\ Size(x.headers) \in Nat /\ Len(x.curHdr) \in Nat
          /\ Len(x.piece) \in Nat /\ x.nread \in Nat
      BY <1>2, Lengths
    <2> DEFINE u == Len(x.url)
               h == Size(x.headers)
               l == Len(x.curHdr)
               q == Len(x.piece)
               k == x.nread - c
    <2>4. Len(y.url) = u + q /\ Size(y.headers) = h /\ Len(y.curHdr) = l /\ y.nread - c = k
      BY <1>3, <1>5
    <2>5. u + h + l + q <= k /\ u \in Nat /\ h \in Nat /\ l \in Nat /\ q \in Nat /\ k \in Int
      BY <2>2, <2>3
    <2> HIDE DEF u, h, l, q, k
    <2>6. Len(y.url) + Size(y.headers) + Len(y.curHdr) + 0 <= y.nread - c
      BY <2>4, <2>5
    <2> QED  BY <1>6, <2>1, <2>6 DEF HeldInv
  <1> QED  BY <1>5, <1>6, <1>7, <1>8, <1>9 DEF Live, y

\* A piece of a name or of a value: what is held is the same.
LEMMA HeaderHanded ==
  ASSUME NEW x \in Parser, NEW m \in {"header_field", "header_value"}, x.mark = m,
         NamesFine(x),
         IF m = "header_value" THEN x.hdrVal => Lines(x) # <<>>
                               ELSE x.hdrVal => x.piece # <<>>
  PROVE  LET y == CallbackData(x, m)
         IN  /\ y \in Parser /\ y.mark = None /\ y.piece = <<>> /\ NamesFine(y)
             /\ y.hdrVal = (m = "header_value") /\ (y.hdrVal => Lines(y) # <<>>)
             /\ OthersSame(x, y) /\ Collected(y) = Collected(x) + Len(x.piece)
             /\ y.state = x.state /\ y.flags = x.flags /\ y.length = x.length
             /\ y.heard = x.heard /\ y.nread = x.nread /\ y.url = x.url
             /\ y.trailing = x.trailing /\ y.stopped = x.stopped /\ SameWord(x, y)
             /\ y.upgrade = x.upgrade /\ y.failed = x.failed /\ y.sound = x.sound
  <1> DEFINE v == m = "header_value"
             f == ProcessHdr(x, v, x.piece)
             y == CallbackData(x, m)
  <1>1. y = [f EXCEPT !.mark = None, !.piece = <<>>]
    <2>1. DataCallback(x, m, x.piece) = f
      <3>1. CASE m = "header_value"
        BY <3>1 DEF DataCallback
      <3>2. CASE m = "header_field"
        BY <3>2 DEF DataCallback
      <3> QED  BY <3>1, <3>2
    <2> QED  BY <2>1 DEF CallbackData, None
  <1>2. x.piece \in Text /\ v \in BOOLEAN
    BY DEF Parser
  <1>3. /\ f \in Parser /\ Elsewhere(x, f) /\ f.trailing = x.trailing
        /\ f.hdrVal = v /\ OthersSame(x, f) /\ NamesFine(f)
        /\ Collected(f) = Collected(x) + Len(x.piece) /\ (v => Lines(f) # <<>>)
    BY <1>2, Processed
  <1> HIDE DEF f, y
  <1>4. y \in Parser
    <2>1. <<>> \in Text
      BY DEF Text
    <2> QED  BY <1>1, <1>3, <2>1 DEF Parser
  <1>5. /\ y.mark = None /\ y.piece = <<>> /\ y.headers = f.headers
        /\ y.trailers = f.trailers /\ y.curHdr = f.curHdr /\ y.url = f.url
        /\ y.state = f.state /\ y.flags = f.flags /\ y.length = f.length
        /\ y.heard = f.heard /\ y.nread = f.nread /\ SameWord(f, y)
    BY <1>1, <1>3 DEF Parser, SameWord
  <1>6. /\ y.hdrVal = f.hdrVal /\ y.trailing = f.trailing /\ y.stopped = f.stopped
        /\ y.upgrade = f.upgrade /\ y.failed = f.failed /\ y.sound = f.sound
    BY <1>1, <1>3 DEF Parser
  <1>7. Lines(y) = Lines(f)
    BY <1>5, <1>6 DEF Lines
  <1>8. NamesFine(y) /\ Collected(y) = Collected(f) /\ OthersSame(x, y)
    BY <1>3, <1>5, <1>6, <1>7 DEF NamesFine, Turn, Collected, OthersSame
  <1>9. /\ y.state = x.state /\ y.flags = x.flags /\ y.length = x.length
        /\ y.heard = x.heard /\ y.nread = x.nread /\ y.url = x.url
        /\ y.trailing = x.trailing /\ y.stopped = x.stopped /\ SameWord(x, y)
        /\ y.upgrade = x.upgrade /\ y.failed = x.failed /\ y.sound = x.sound
    BY <1>3, <1>5, <1>6 DEF Elsewhere, SameWord
  <1>10. y.hdrVal = v
    BY <1>3, <1>6
  <1> QED  BY <1>3, <1>4, <1>5, <1>7, <1>8, <1>9, <1>10 DEF y

LEMMA HeldMoves ==
  ASSUME NEW x \in Parser, NEW y \in Parser, NEW k \in Int, HeldInv(x, k),
         x.mark \in TextMarks, y.mark = None, y.url = x.url, y.trailing = x.trailing,
         OthersSame(x, y), Collected(y) = Collected(x) + Len(x.piece)
  PROVE  HeldInv(y, k)
  <1>1. Pending(x) = Len(x.piece) /\ Pending(y) = 0
    BY DEF Pending, TextMarks, None
  <1>2. /\ Len(x.url) \in Nat /\ Size(x.headers) \in Nat /\ Len(x.curHdr) \in Nat
        /\ Len(x.piece) \in Nat /\ Size(x.trailers) \in Nat
        /\ Size(y.headers) \in Nat /\ Len(y.curHdr) \in Nat /\ Size(y.trailers) \in Nat
    BY Lengths
  <1>3. CASE x.trailing
    <2>1. /\ Size(y.trailers) + Len(y.curHdr) = Size(x.trailers) + Len(x.curHdr) + Len(x.piece)
          /\ y.headers = x.headers
      BY <1>3 DEF OthersSame, Collected, Lines
    <2>2. /\ Len(x.url) + Size(x.headers) <= MaxHeaderSize
          /\ Size(x.trailers) + Len(x.curHdr) + Len(x.piece) <= k
      BY <1>1, <1>3 DEF HeldInv
    <2>3. Size(y.trailers) + Len(y.curHdr) + 0 <= k
      BY <1>2, <2>1, <2>2
    <2> QED  BY <1>1, <1>3, <2>1, <2>2, <2>3 DEF HeldInv
  <1>4. CASE ~x.trailing
    <2>1. Size(y.headers) + Len(y.curHdr) = Size(x.headers) + Len(x.curHdr) + Len(x.piece)
      BY <1>4 DEF OthersSame, Collected, Lines
    <2>2. Len(x.url) + Size(x.headers) + Len(x.curHdr) + Len(x.piece) <= k
      BY <1>1, <1>4 DEF HeldInv
    <2> DEFINE u == Len(x.url)
               a == Size(x.headers)
               b == Len(x.curHdr)
               q == Len(x.piece)
               d == Size(y.headers)
               e == Len(y.curHdr)
    <2>4. /\ u \in Nat /\ a \in Nat /\ b \in Nat /\ q \in Nat /\ d \in Nat /\ e \in Nat
          /\ d + e = a + b + q /\ u + a + b + q <= k
      BY <1>2, <2>1, <2>2
    <2> HIDE DEF u, a, b, q, d, e
    <2>5. u + d + e + 0 <= k
      BY <2>4
    <2>3. Len(x.url) + Size(y.headers) + Len(y.curHdr) + 0 <= k
      BY <2>5 DEF u, d, e
    <2> QED  BY <1>1, <1>4, <2>3 DEF HeldInv
  <1> QED  BY <1>3, <1>4

\* A name ends at its colon, or at the end of a buffer; a value at its line's end.
LEMMA NameDone ==
  ASSUME NEW x, NEW c \in {0, 1}, Live(x, c), NameBegun(x), x.state = "header_field",
         NEW w \in Parser, Quiet(x, w), w.flags = x.flags, w.length = x.length,
         x.mark = "header_field", w.mark = x.mark, w.piece = x.piece,
         w.state \in BeforeValue \cup {"header_field"}
  PROVE  LET y == CallbackData(w, "header_field")
         IN  /\ Live(y, c) /\ y.mark = None /\ y.piece = <<>> /\ ~y.hdrVal
             /\ y.state = w.state /\ y.flags = w.flags /\ y.length = w.length
             /\ y.stopped = w.stopped /\ y.upgrade = w.upgrade
  <1> DEFINE y == CallbackData(w, "header_field")
  <1>1. x \in Parser /\ NamesInv(x) /\ StageInv(x) /\ HeldInv(x, x.nread - c)
    BY DEF Live, ParserSafe
  <1>2. /\ w.state \in InFields /\ w.state \notin AfterValue /\ w.state # "header_field_start"
        /\ w.state \notin {"headers_almost_done", "header_value"}
        /\ w.state \notin Idle \cup InLine \cup InBody
        /\ x.state \in InFields
    BY Regions
  <1>3. NamesFine(w) /\ Lines(w) = Lines(x) /\ (w.hdrVal => w.piece # <<>>)
    BY <1>1, <1>2 DEF NamesInv, NamesFine, Turn, Quiet, Lines, NameBegun
  <1>a. w.mark = "header_field" /\ "header_field" # "header_value"
    OBVIOUS
  <1>4. /\ y \in Parser /\ y.mark = None /\ y.piece = <<>> /\ NamesFine(y)
        /\ y.hdrVal = ("header_field" = "header_value") /\ OthersSame(w, y) /\ Collected(y) = Collected(w) + Len(w.piece)
        /\ y.state = w.state /\ y.flags = w.flags /\ y.length = w.length
        /\ y.heard = w.heard /\ y.nread = w.nread /\ y.url = w.url
        /\ y.trailing = w.trailing /\ y.stopped = w.stopped
        /\ y.upgrade = w.upgrade /\ y.failed = w.failed /\ y.sound = w.sound
    BY <1>3, <1>a, HeaderHanded
  <1> HIDE DEF y
  <1>b. ~y.hdrVal
    BY <1>4
  <1>5. ParserSafe(y) /\ ~Errored(y) /\ ~y.failed /\ y.nread <= MaxHeaderSize
    BY <1>4 DEF Live, ParserSafe, Quiet, Errored
  <1>6. StageInv(y)
    BY <1>1, <1>2, <1>4 DEF StageInv, Quiet
  <1>7. NamesInv(y)
    <2>1. ~y.trailing => y.trailers = <<>>
      BY <1>1, <1>4 DEF NamesInv, OthersSame, Quiet
    <2>2. /\ y.state \notin InLine \cup InBody \cup AfterValue
          /\ y.state \notin {"header_field_start", "headers_almost_done"}
      BY <1>2, <1>4
    <2>3. NamesKept(y.headers) /\ NamesKept(y.trailers) /\ Turn(y)
      BY <1>4 DEF NamesFine
    <2> QED  BY <1>b, <2>1, <2>2, <2>3 DEF NamesInv
  <1>8. HeldInv(y, y.nread - c)
    <2>a. x.nread \in Nat
      BY <1>1, Lengths
    <2>b. y.nread = x.nread
      BY <1>4 DEF Quiet
    <2>1. y.nread - c \in Int /\ y.nread = x.nread
      BY <2>a, <2>b
    <2>2. HeldInv(w, y.nread - c)
      BY <1>1, <2>1 DEF HeldInv, Quiet, Pending
    <2> QED  BY <1>4, <2>1, <2>2, HeldMoves DEF TextMarks
  <1> QED  BY <1>4, <1>b, <1>5, <1>6, <1>7, <1>8 DEF Live, y

LEMMA ValueDone ==
  ASSUME NEW x, NEW c \in {0, 1}, Live(x, c), x.state \in BeforeValue \cup {"header_value"},
         NEW w \in Parser, Quiet(x, w), w.flags = x.flags, w.length = x.length,
         Opened(x, w), w.mark = "header_value",
         w.state \in AfterValue \cup {"header_field_start", "header_value"}
  PROVE  LET y == CallbackData(w, "header_value")
         IN  /\ Live(y, c) /\ y.mark = None /\ y.piece = <<>> /\ y.hdrVal /\ Lines(y) # <<>>
             /\ y.state = w.state /\ y.flags = w.flags /\ y.length = w.length
             /\ y.stopped = w.stopped /\ y.upgrade = w.upgrade /\ y.nread = w.nread
             /\ SameWord(w, y)
  <1> DEFINE y == CallbackData(w, "header_value")
  <1>1. x \in Parser /\ NamesInv(x) /\ StageInv(x) /\ HeldInv(x, x.nread - c)
    BY DEF Live, ParserSafe
  <1>2. /\ w.state \in InFields /\ w.state \notin BeforeValue
        /\ w.state \notin Idle \cup InLine \cup InBody
        /\ x.state \in InFields
    BY Regions
  <1>3. NamesFine(w) /\ Lines(w) = Lines(x) /\ (w.hdrVal => Lines(w) # <<>>)
    BY <1>1, <1>2 DEF NamesInv, NamesFine, Turn, Quiet, Lines
  <1>4. /\ y \in Parser /\ y.mark = None /\ y.piece = <<>> /\ NamesFine(y)
        /\ y.hdrVal /\ Lines(y) # <<>>
        /\ OthersSame(w, y) /\ Collected(y) = Collected(w) + Len(w.piece)
        /\ y.state = w.state /\ y.flags = w.flags /\ y.length = w.length
        /\ y.heard = w.heard /\ y.nread = w.nread /\ y.url = w.url
        /\ y.trailing = w.trailing /\ y.stopped = w.stopped /\ SameWord(w, y)
        /\ y.upgrade = w.upgrade /\ y.failed = w.failed /\ y.sound = w.sound
    BY <1>3, HeaderHanded
  <1> HIDE DEF y
  <1>5. ParserSafe(y) /\ ~Errored(y) /\ ~y.failed /\ y.nread <= MaxHeaderSize
    BY <1>4 DEF Live, ParserSafe, Quiet, Errored
  <1>6. StageInv(y)
    BY <1>1, <1>2, <1>4 DEF StageInv, Quiet
  <1>7. NamesInv(y)
    <2>1. ~y.trailing => y.trailers = <<>>
      BY <1>1, <1>4 DEF NamesInv, OthersSame, Quiet
    <2>2. y.state \notin InLine \cup InBody \cup BeforeValue
      BY <1>2, <1>4
    <2>3. /\ NamesKept(y.headers) /\ NamesKept(y.trailers) /\ Turn(y)
          /\ y.hdrVal /\ Lines(y) # <<>>
      BY <1>4 DEF NamesFine
    <2> QED  BY <2>1, <2>2, <2>3 DEF NamesInv
  <1>8. HeldInv(y, y.nread - c)
    <2>a. x.nread \in Nat
      BY <1>1, Lengths
    <2>b. y.nread = x.nread
      BY <1>4 DEF Quiet
    <2>1. y.nread - c \in Int /\ y.nread = x.nread
      BY <2>a, <2>b
    <2>2. Pending(w) <= Pending(x)
      <3>1. CASE w.mark = x.mark /\ w.piece = x.piece
        BY <3>1, <1>1, Lengths DEF Pending
      <3>2. CASE w.piece = <<>>
        <4>1. Len(w.piece) = 0
          BY <3>2
        <4> QED  BY <4>1, <1>1, Lengths DEF Pending
      <3> QED  BY <3>1, <3>2 DEF Opened
    <2>3. HeldInv(w, y.nread - c)
      <3>1. /\ w.url = x.url /\ w.headers = x.headers /\ w.trailers = x.trailers
            /\ w.curHdr = x.curHdr /\ w.trailing = x.trailing
        BY DEF Quiet
      <3>2. y.nread - c <= y.nread - c /\ HeldInv(x, y.nread - c)
        BY <1>1, <2>1
      <3> QED  BY <1>1, <2>1, <2>2, <3>1, <3>2, HeldLess
    <2> QED  BY <1>4, <2>1, <2>3, HeldMoves DEF TextMarks
  <1> QED  BY <1>4, <1>5, <1>6, <1>7, <1>8 DEF Live, y

-----------------------------------------------------------------------------
(* The events *)

SameButHeard(x, y) ==
  /\ y.state = x.state /\ y.flags = x.flags /\ y.length = x.length /\ y.nread = x.nread
  /\ y.method = x.method /\ y.url = x.url /\ y.headers = x.headers
  /\ y.trailers = x.trailers /\ y.curHdr = x.curHdr /\ y.mark = x.mark /\ y.piece = x.piece
  /\ y.hdrVal = x.hdrVal /\ y.trailing = x.trailing /\ y.upgrade = x.upgrade
  /\ y.failed = x.failed /\ y.stopped = x.stopped /\ y.sound = x.sound

LEMMA Emitted ==
  ASSUME NEW x, ParserSafe(x), NEW e \in Events,
         e[1] = "headers" => Kind(x.heard) = "end" /\ Paired(e[5]),
         e[1] = "end" => Paired(e[2]),
         e[1] \in {"data", "end"} => Kind(x.heard) \in {"headers", "data"},
         Kind(x.heard) = "error" => e[1] = "error"
  PROVE  LET y == Emit(x, e)
         IN  /\ ParserSafe(y) /\ Kind(y.heard) = e[1] /\ SameButHeard(x, y)
             /\ Errored(y) <=> Errored(x) \/ e[1] = "error"
  <1> DEFINE y == Emit(x, e)
             h == Append(x.heard, e)
  <1>1. x \in Parser /\ x.heard \in Seq(Events) /\ Framed(x.heard) /\ HeadersPaired(x.heard)
    BY DEF ParserSafe, Parser
  <1>2. Framed(h) /\ Kind(h) = e[1]
    BY <1>1, FramedMore
  <1>3. /\ h \in Seq(Events) /\ HeadersPaired(h)
        /\ (\E i \in DOMAIN h : h[i][1] = "error")
              <=> (\E i \in DOMAIN x.heard : x.heard[i][1] = "error") \/ e[1] = "error"
    BY <1>1, HeardMore
  <1>4. y = [x EXCEPT !.heard = h]
    BY DEF Emit
  <1> HIDE DEF y, h
  <1>5. y \in Parser /\ y.heard = h
    BY <1>1, <1>3, <1>4 DEF Parser
  <1>6. SameButHeard(x, y)
    BY <1>1, <1>4 DEF Parser, SameButHeard
  <1>7. ParserSafe(y)
    BY <1>2, <1>3, <1>5, <1>6 DEF ParserSafe, SameButHeard
  <1>8. Errored(y) <=> Errored(x) \/ e[1] = "error"
    BY <1>3, <1>5 DEF Errored
  <1> QED  BY <1>2, <1>5, <1>6, <1>7, <1>8 DEF y

\* A piece of the body.
LEMMA BodyHanded ==
  ASSUME NEW x, ParserSafe(x), ~Errored(x), x.mark \in {None, "body"},
         Kind(x.heard) \in {"headers", "data"}
  PROVE  LET y == CallbackData(x, "body")
         IN  /\ ParserSafe(y) /\ ~Errored(y) /\ y.mark = None /\ y.piece = <<>>
             /\ Kind(y.heard) \in {"headers", "data"}
             /\ y.state = x.state /\ y.flags = x.flags /\ y.length = x.length
             /\ y.nread = x.nread /\ y.url = x.url /\ y.headers = x.headers
             /\ y.trailers = x.trailers /\ y.curHdr = x.curHdr
             /\ y.hdrVal = x.hdrVal /\ y.trailing = x.trailing /\ y.upgrade = x.upgrade
             /\ y.failed = x.failed /\ y.stopped = x.stopped
  <1> DEFINE y == CallbackData(x, "body")
  <1>1. CASE x.mark = None
    <2>1. y = x
      BY <1>1 DEF CallbackData, None
    <2> QED  BY <1>1, <2>1 DEF ParserSafe
  <1>2. CASE x.mark = "body"
    <2> DEFINE e == <<"data", x.piece>>
               f == Emit(x, e)
    <2>1. x.piece \in Text /\ <<>> \in Text
      BY DEF ParserSafe, Parser, Text
    <2>2. e \in Events /\ e[1] = "data"
      BY <2>1 DEF Events
    <2>3. e[1] # "headers" /\ e[1] # "end" /\ e[1] # "error" /\ Kind(x.heard) # "error"
      BY <2>2
    <2> HIDE DEF e
    <2>4. ParserSafe(f) /\ Kind(f.heard) = "data" /\ SameButHeard(x, f) /\ ~Errored(f)
      BY <2>2, <2>3, Emitted
    <2>5. y = [f EXCEPT !.mark = None, !.piece = <<>>]
      BY <1>2 DEF CallbackData, DataCallback, None, e
    <2> HIDE DEF f, y
    <2>6. f \in Parser
      BY <2>4 DEF ParserSafe
    <2>7. y \in Parser
      BY <2>1, <2>5, <2>6 DEF Parser
    <2>8. /\ y.mark = None /\ y.piece = <<>> /\ y.heard = f.heard
          /\ y.state = f.state /\ y.flags = f.flags /\ y.length = f.length
          /\ y.nread = f.nread /\ y.url = f.url /\ y.headers = f.headers
          /\ y.trailers = f.trailers /\ y.curHdr = f.curHdr
      BY <2>5, <2>6 DEF Parser
    <2>9. /\ y.hdrVal = f.hdrVal /\ y.trailing = f.trailing /\ y.upgrade = f.upgrade
          /\ y.failed = f.failed /\ y.stopped = f.stopped /\ y.sound = f.sound
      BY <2>5, <2>6 DEF Parser
    <2>10. ParserSafe(y) /\ ~Errored(y)
      BY <2>4, <2>7, <2>8, <2>9 DEF ParserSafe, Errored
    <2> QED  BY <2>4, <2>8, <2>9, <2>10 DEF SameButHeard, y
  <1> QED  BY <1>1, <1>2

LEMMA BodyGoesOn ==
  ASSUME NEW x, NEW c \in {0, 1}, Live(x, c), x.state \in InBody, x.mark \in {None, "body"}
  PROVE  LET y == CallbackData(x, "body")
         IN  /\ Live(y, c) /\ y.mark = None /\ y.piece = <<>>
             /\ y.state = x.state /\ y.flags = x.flags /\ y.length = x.length
             /\ y.stopped = x.stopped /\ y.upgrade = x.upgrade /\ y.nread = x.nread
  <1> DEFINE y == CallbackData(x, "body")
  <1>1. ParserSafe(x) /\ ~Errored(x) /\ Kind(x.heard) \in {"headers", "data"} /\ x.trailing
    BY DEF Live, StageInv
  <1>2. /\ ParserSafe(y) /\ ~Errored(y) /\ y.mark = None /\ y.piece = <<>>
        /\ Kind(y.heard) \in {"headers", "data"}
        /\ y.state = x.state /\ y.flags = x.flags /\ y.length = x.length
        /\ y.nread = x.nread /\ y.url = x.url /\ y.headers = x.headers
        /\ y.trailers = x.trailers /\ y.curHdr = x.curHdr
        /\ y.hdrVal = x.hdrVal /\ y.trailing = x.trailing /\ y.upgrade = x.upgrade
        /\ y.failed = x.failed /\ y.stopped = x.stopped
    BY <1>1, BodyHanded
  <1> HIDE DEF y
  <1>3. StageInv(y)
    BY <1>1, <1>2, Regions DEF StageInv
  <1>4. NamesInv(y)
    BY <1>2 DEF Live, NamesInv, Turn, Lines
  <1>5. HeldInv(y, y.nread - c)
    BY <1>2 DEF Live, HeldInv, Pending, None
  <1> QED  BY <1>2, <1>3, <1>4, <1>5 DEF Live, y

LEMMA HeadersHeard ==
  ASSUME NEW x, ParserSafe(x), ~Errored(x), Kind(x.heard) = "end", x.hdrVal, NamesFine(x),
         ~x.trailing, x.trailers = <<>>, x.mark = None, HeldInv(x, MaxHeaderSize)
  PROVE  LET y == OnHeadersComplete(x)
         IN  /\ ParserSafe(y) /\ ~Errored(y) /\ Kind(y.heard) = "headers"
             /\ y.trailing /\ y.trailers = <<>> /\ y.curHdr = <<>> /\ y.hdrVal
             /\ NamesKept(y.headers) /\ Len(y.url) + Size(y.headers) <= MaxHeaderSize
             /\ y.state = x.state /\ y.flags = x.flags /\ y.length = x.length
             /\ y.method = x.method /\ y.nread = x.nread /\ y.mark = x.mark
             /\ y.upgrade = x.upgrade /\ y.failed = x.failed /\ y.stopped = x.stopped
  <1> DEFINE f == EndHdrs(x)
             e == <<"headers", f.method, <<f.major, f.minor>>, f.url, f.headers>>
             y == OnHeadersComplete(x)
  <1>1. x \in Parser
    BY DEF ParserSafe
  <1>2. /\ f \in Parser /\ Elsewhere(x, f) /\ f.trailing /\ f.hdrVal /\ f.curHdr = <<>>
        /\ f.trailers = <<>> /\ NamesKept(f.headers) /\ NamesKept(f.trailers)
        /\ Paired(f.headers) /\ Size(f.headers) = Collected(x)
    BY <1>1, HeadersEnd DEF OthersSame
  <1>3. y = Emit(f, e)
    BY DEF OnHeadersComplete
  <1> HIDE DEF f
  <1>4. ParserSafe(f) /\ ~Errored(f) /\ Kind(f.heard) = "end"
    BY <1>2 DEF ParserSafe, Elsewhere, Errored
  <1>5. e \in Events /\ e[1] = "headers" /\ e[5] = f.headers
    <2>1. /\ f.method \in Text /\ f.major \in Nat /\ f.minor \in Nat /\ f.url \in Text
          /\ f.headers \in Seq(Text)
      BY <1>2 DEF Parser
    <2> QED  BY <2>1 DEF Events
  <1> HIDE DEF e
  <1>6. e[1] # "end" /\ e[1] # "data" /\ e[1] # "error" /\ Kind(f.heard) # "error"
    BY <1>4, <1>5
  <1>7. ParserSafe(y) /\ Kind(y.heard) = "headers" /\ SameButHeard(f, y) /\ ~Errored(y)
    BY <1>2, <1>3, <1>4, <1>5, <1>6, Emitted
  <1>8. Len(f.url) + Size(f.headers) <= MaxHeaderSize
    <2>1. f.url = x.url /\ Lines(x) = x.headers
      BY <1>2 DEF Elsewhere, Lines
    <2>2. Pending(x) = 0
      BY DEF Pending, None
    <2> DEFINE u == Len(x.url)
               h == Size(x.headers)
               l == Len(x.curHdr)
               g == Size(f.headers)
    <2>3. /\ u + h + l + 0 <= MaxHeaderSize /\ u \in Nat /\ h \in Nat /\ l \in Nat
          /\ g = h + l
      BY <1>1, <1>2, <2>1, <2>2, Lengths DEF HeldInv, Collected
    <2> HIDE DEF u, h, l, g
    <2>4. u + g <= MaxHeaderSize
      BY <2>3, ParserConstants
    <2> QED  BY <2>1, <2>4 DEF u, g
  <1> QED  BY <1>2, <1>7, <1>8 DEF SameButHeard, Elsewhere, y

LEMMA Ended ==
  ASSUME NEW w, ParserSafe(w), ~Errored(w), ~w.failed, w.trailing, w.hdrVal, NamesFine(w),
         Kind(w.heard) \in {"headers", "data"}, w.mark = None, w.nread <= MaxHeaderSize,
         NEW k \in Int, HeldInv(w, k), NEW s \in Idle
  PROVE  LET y == OnMessageComplete(Go(w, s))
         IN  /\ ParserSafe(y) /\ ~Errored(y) /\ ~y.failed /\ y.nread <= MaxHeaderSize
             /\ StageInv(y) /\ NamesInv(y) /\ HeldInv(y, k)
             /\ y.state = s /\ y.mark = None /\ y.nread = w.nread /\ y.length = w.length
             /\ y.flags = w.flags /\ y.stopped = w.stopped /\ y.upgrade = w.upgrade
  <1> DEFINE x == Go(w, s)
             f == EndHdrs(x)
             e == <<"end", f.trailers>>
             y == OnMessageComplete(x)
  <1>1. w \in Parser /\ s \in States
    BY DEF ParserSafe, Idle, States
  <1>2. /\ x \in Parser /\ Quiet(w, x) /\ x.mark = None /\ x.piece = w.piece /\ x.state = s
        /\ x.flags = w.flags /\ x.length = w.length
    BY <1>1, Scanned
  <1> HIDE DEF x
  <1>3. NamesFine(x) /\ Collected(x) = Collected(w) /\ x.hdrVal /\ x.trailing
    BY <1>2 DEF NamesFine, Quiet, Turn, Lines, Collected
  <1>4. /\ f \in Parser /\ Elsewhere(x, f) /\ f.trailing /\ f.hdrVal /\ f.curHdr = <<>>
        /\ f.headers = x.headers /\ NamesKept(f.headers) /\ NamesKept(f.trailers)
        /\ Paired(f.trailers) /\ Size(f.trailers) = Collected(x)
    BY <1>2, <1>3, HeadersEnd DEF OthersSame
  <1>5. y = Emit(f, e)
    BY DEF OnMessageComplete
  <1> HIDE DEF f
  <1>6. ParserSafe(f) /\ ~Errored(f) /\ Kind(f.heard) \in {"headers", "data"}
    BY <1>2, <1>4 DEF ParserSafe, Elsewhere, Errored, Quiet
  <1>7. e \in Events /\ e[1] = "end" /\ e[2] = f.trailers
    <2>1. f.trailers \in Seq(Text)
      BY <1>4 DEF Parser
    <2> QED  BY <2>1 DEF Events
  <1> HIDE DEF e
  <1>8. e[1] # "headers" /\ e[1] # "error" /\ Kind(f.heard) # "error"
    BY <1>6, <1>7
  <1>9. ParserSafe(y) /\ Kind(y.heard) = "end" /\ SameButHeard(f, y) /\ ~Errored(y)
    BY <1>4, <1>5, <1>6, <1>7, <1>8, Emitted
  <1> HIDE DEF y
  <1>10. /\ y.state = s /\ y.mark = None /\ y.nread = w.nread /\ y.length = w.length
         /\ y.flags = w.flags /\ y.url = w.url /\ y.headers = w.headers
         /\ y.trailers = f.trailers /\ y.curHdr = <<>> /\ y.trailing /\ y.hdrVal
         /\ y.stopped = w.stopped /\ y.upgrade = w.upgrade /\ y.failed = w.failed
    BY <1>2, <1>4, <1>9 DEF SameButHeard, Elsewhere, Quiet
  <1>11. s \notin InLine \cup InFields \cup InBody \cup BeforeValue \cup AfterValue
         /\ s \notin {"header_field_start", "headers_almost_done", "header_value"}
    BY Regions
  <1>12. StageInv(y)
    BY <1>9, <1>10, <1>11 DEF StageInv
  <1>13. NamesInv(y)
    BY <1>2, <1>4, <1>10, <1>11 DEF NamesInv, Quiet
  <1>14. HeldInv(y, k)
    <2>1. Pending(w) = 0 /\ Pending(y) = 0
      BY <1>10 DEF Pending, None
    <2>2. /\ Len(w.url) + Size(w.headers) <= MaxHeaderSize
          /\ Size(w.trailers) + Len(w.curHdr) + 0 <= k
      BY <2>1 DEF HeldInv
    <2>3. Size(y.trailers) = Size(w.trailers) + Len(w.curHdr)
      BY <1>3, <1>4, <1>10 DEF Collected, Lines
    <2>4. Len(y.curHdr) = 0 /\ Size(w.trailers) \in Nat /\ Len(w.curHdr) \in Nat
      BY <1>1, <1>10, Lengths
    <2>5. Size(y.trailers) + Len(y.curHdr) + 0 <= k
      BY <2>2, <2>3, <2>4
    <2> QED  BY <1>10, <2>1, <2>2, <2>5 DEF HeldInv
  <1> QED  BY <1>9, <1>10, <1>12, <1>13, <1>14 DEF y, x

LEMMA NothingOpen ==
  ASSUME NEW x, x.mark = None, x.state \notin UrlStates \cup InBody, WordInv(x),
         x.state \notin {"header_field", "header_value"}
  PROVE  Fits(x)
  <1>1. MarkInv(x)
    BY DEF MarkInv, MarksAt
  <1>2. LengthInv(x) /\ x.state # "chunk_size_start"
    BY Regions DEF LengthInv, ChunkStates
  <1> QED  BY <1>1, <1>2 DEF Fits

\* The parser after the end of a message, in a call that may stop there.
LEMMA Completed ==
  ASSUME NEW w, ParserSafe(w), ~Errored(w), ~w.failed, w.trailing, w.hdrVal, NamesFine(w),
         Kind(w.heard) \in {"headers", "data"}, w.mark = None, w.nread <= MaxHeaderSize,
         HeldInv(w, w.nread), NEW v \in BOOLEAN, v => w.upgrade
  PROVE  After(Complete(w)) /\ After([Complete(w) EXCEPT !.stopped = v])
  <1> DEFINE s == NEW_MESSAGE(w)
             y == Complete(w)
             z == [y EXCEPT !.stopped = v]
  <1>1. s \in Idle
    BY DEF NEW_MESSAGE, Idle
  <1>2. w.nread \in Int
    BY DEF ParserSafe, Parser
  <1>3. y = OnMessageComplete(Go(w, s))
    BY DEF Complete
  <1> HIDE DEF s
  <1>4. /\ ParserSafe(y) /\ ~Errored(y) /\ ~y.failed /\ y.nread <= MaxHeaderSize
        /\ StageInv(y) /\ NamesInv(y) /\ HeldInv(y, w.nread)
        /\ y.state = s /\ y.mark = None /\ y.nread = w.nread /\ y.upgrade = w.upgrade
    BY <1>1, <1>2, <1>3, Ended
  <1> HIDE DEF y
  <1>5. Live(y, 0)
    BY <1>2, <1>4 DEF Live
  <1>6. y.state \notin UrlStates \cup InBody \cup {"header_field", "header_value"}
    BY <1>1, <1>4, Regions, UrlRegion
  <1>a. y.state \notin {"header_value"} \cup AfterValue
    BY <1>1, <1>4, Regions
  <1>7. After(y)
    BY <1>4, <1>5, <1>6, <1>a, NothingOpen DEF After, Slack, TextMarks, None, WordInv
  <1>8. z \in Parser
    BY <1>4 DEF ParserSafe, Parser
  <1> HIDE DEF z
  <1>9. /\ z.state = y.state /\ z.flags = y.flags /\ z.length = y.length /\ z.nread = y.nread
        /\ z.url = y.url /\ z.headers = y.headers /\ z.trailers = y.trailers
        /\ z.curHdr = y.curHdr /\ z.mark = y.mark /\ z.piece = y.piece /\ z.heard = y.heard
    BY <1>4 DEF ParserSafe, Parser, z
  <1>10. /\ z.hdrVal = y.hdrVal /\ z.trailing = y.trailing /\ z.upgrade = y.upgrade
         /\ z.failed = y.failed /\ z.sound = y.sound /\ z.stopped = v
    BY <1>4 DEF ParserSafe, Parser, z
  <1>11. ParserSafe(z) /\ ~Errored(z) /\ ~z.failed /\ z.nread <= MaxHeaderSize
    BY <1>4, <1>8, <1>9, <1>10 DEF ParserSafe, Errored
  <1>12. StageInv(z) /\ NamesInv(z)
    BY <1>4, <1>9, <1>10 DEF StageInv, NamesInv, Turn, Lines
  <1>13. HeldInv(z, z.nread - 0)
    <2>1. z.nread - 0 = w.nread
      BY <1>2, <1>4, <1>9
    <2>2. HeldInv(z, w.nread)
      BY <1>4, <1>9, <1>10 DEF HeldInv, Pending
    <2> QED  BY <2>1, <2>2
  <1>14. After(z)
    BY <1>4, <1>6, <1>9, <1>11, <1>12, <1>13, <1>a, NothingOpen
       DEF After, Live, Slack, TextMarks, None, WordInv
  <1> QED  BY <1>7, <1>14 DEF y, z

LEMMA BodyBegins ==
  ASSUME NEW x, ParserSafe(x), ~Errored(x), ~x.failed, x.trailing, x.hdrVal,
         x.trailers = <<>>, x.curHdr = <<>>, NamesKept(x.headers), x.mark = None,
         Kind(x.heard) \in {"headers", "data"}, x.nread = 0,
         Len(x.url) + Size(x.headers) <= MaxHeaderSize,
         NEW s \in InBody, s # "chunk_data_almost_done",
         s \in {"body_identity", "chunk_data"} => x.length \notin {0, LengthMax},
         s \in ChunkStates => "chunked" \in x.flags,
         s \notin {"chunk_size", "chunk_parameters", "chunk_size_almost_done"}
  PROVE  After(Go(x, s))
  <1> DEFINE y == Go(x, s)
  <1>1. x \in Parser /\ s \in States
    BY DEF ParserSafe, InBody, ChunkStates, States, BodyStates
  <1>2. /\ y \in Parser /\ Quiet(x, y) /\ y.mark = None /\ y.piece = x.piece /\ y.state = s
        /\ y.flags = x.flags /\ y.length = x.length
    BY <1>1, Scanned
  <1> HIDE DEF y
  <1>3. ParserSafe(y) /\ ~Errored(y) /\ ~y.failed
    BY <1>2 DEF ParserSafe, Errored, Quiet
  <1>4. s \notin Idle \cup InLine \cup InFields
    BY Regions
  <1>5. s \notin BeforeValue \cup AfterValue
              \cup {"header_field_start", "headers_almost_done", "header_field", "header_value"}
    BY <1>4, Regions
  <1>6. StageInv(y) /\ NamesInv(y)
    BY <1>2, <1>4, <1>5, NoNames DEF StageInv, NamesInv, Quiet
  <1>7. HeldInv(y, y.nread - 0) /\ y.nread <= MaxHeaderSize
    <2>a. y.curHdr = <<>> /\ y.trailers = <<>>
      BY <1>2 DEF Quiet
    <2>b. Len(y.curHdr) = 0
      BY <2>a
    <2>1. Len(y.curHdr) = 0 /\ Size(y.trailers) = 0 /\ Pending(y) = 0
      BY <1>2, <2>a, <2>b, NoNames DEF Pending, None
    <2> QED  BY <1>2, <2>1, ParserConstants DEF HeldInv, Quiet
  <1>8. Fits(y)
    <2>1. s \notin UrlStates
      BY <1>4, UrlRegion
    <2>2. MarkInv(y)
      BY <1>2, <1>5, <2>1 DEF MarkInv, MarksAt
    <2>3. x.length \in 0 .. LengthMax /\ LengthMax \in Nat
      BY <1>1, ParserConstants DEF Parser
    <2>4. LengthInv(y)
      BY <1>2, <2>3 DEF LengthInv
    <2>5. WordInv(y)
      BY <1>2, <1>5 DEF WordInv
    <2> QED  BY <1>2, <2>2, <2>4, <2>5 DEF Fits, Quiet
  <1> QED  BY <1>2, <1>3, <1>6, <1>7, <1>8 DEF After, Live, Slack, TextMarks, None, y

LEMMA HeadersAreDone ==
  ASSUME NEW w, ParserSafe(w), ~Errored(w), ~w.failed, ~w.stopped, w.trailing, w.hdrVal,
         w.trailers = <<>>, w.curHdr = <<>>, NamesKept(w.headers), w.mark = None,
         Kind(w.heard) = "headers", Len(w.url) + Size(w.headers) <= MaxHeaderSize
  PROVE  After(HeadersDone(w))
  <1> DEFINE x == [w EXCEPT !.nread = 0]
  <1>1. w \in Parser
    BY DEF ParserSafe
  <1>2. x \in Parser
    BY <1>1 DEF Parser
  <1> HIDE DEF x
  <1>3. /\ x.nread = 0 /\ x.flags = w.flags /\ x.length = w.length /\ x.method = w.method
        /\ x.url = w.url /\ x.headers = w.headers /\ x.trailers = w.trailers
        /\ x.curHdr = w.curHdr /\ x.mark = w.mark /\ x.piece = w.piece /\ x.heard = w.heard
    BY <1>1 DEF Parser, x
  <1>4. /\ x.hdrVal = w.hdrVal /\ x.trailing = w.trailing /\ x.upgrade = w.upgrade
        /\ x.failed = w.failed /\ x.sound = w.sound /\ x.stopped = w.stopped
    BY <1>1 DEF Parser, x
  <1>5. ParserSafe(x) /\ ~Errored(x)
    BY <1>2, <1>3, <1>4, ParserConstants DEF ParserSafe, Errored
  <1>6. NamesFine(x)
    BY <1>3, <1>4, NoNames DEF NamesFine, Turn, Lines
  <1>7. HeldInv(x, x.nread) /\ x.nread <= MaxHeaderSize
    <2>a. x.curHdr = <<>> /\ x.trailers = <<>>
      BY <1>3
    <2>b. Len(x.curHdr) = 0
      BY <2>a
    <2>1. Len(x.curHdr) = 0 /\ Size(x.trailers) = 0 /\ Pending(x) = 0
      BY <1>3, <2>a, <2>b, NoNames DEF Pending, None
    <2> QED  BY <1>3, <1>4, <2>1, ParserConstants DEF HeldInv
  <1>8. \A v \in BOOLEAN : (v => x.upgrade) =>
          After(Complete(x)) /\ After([Complete(x) EXCEPT !.stopped = v])
    BY <1>3, <1>4, <1>5, <1>6, <1>7, Completed
  <1>9. After(Complete(x)) /\ (x.upgrade => After([Complete(x) EXCEPT !.stopped = TRUE]))
    BY <1>8
  <1>10. After(Fail(x))
    BY <1>5, FailIsLost
  <1>11. "chunked" \in x.flags => After(Go(x, "chunk_size_start"))
    <2>1. "chunk_size_start" \in ChunkStates
      BY DEF ChunkStates
    <2> QED  BY <1>3, <1>4, <1>5, <2>1, Regions, BodyBegins
  <1>12. x.length \notin {0, LengthMax} => After(Go(x, "body_identity"))
    BY <1>3, <1>4, <1>5, Regions, BodyBegins
  <1> DEFINE hasBody == "chunked" \in x.flags \/ x.length \notin {0, LengthMax}
  <1>13. HeadersDone(w) =
           IF x.upgrade /\ (x.method = CONNECT \/ ~hasBody)
           THEN [Complete(x) EXCEPT !.stopped = TRUE]
           ELSE IF "chunked" \in x.flags THEN Go(x, "chunk_size_start")
           ELSE IF "transfer_encoding" \in x.flags THEN Fail(x)
           ELSE IF x.length \in {0, LengthMax} THEN Complete(x)
           ELSE Go(x, "body_identity")
    BY DEF HeadersDone, x
  <1> QED  BY <1>9, <1>10, <1>11, <1>12, <1>13

LEMMA HeadersAlmostEnd ==
  ASSUME NEW x, Live(x, 1), x.state = "headers_almost_done", x.mark = None, ~x.stopped, NEW b
  PROVE  After(HeadersAlmostDone(x, b))
  <1>1. x \in Parser /\ ParserSafe(x) /\ ~Errored(x) /\ ~x.failed /\ x.nread <= MaxHeaderSize
    BY DEF Live, ParserSafe
  <1>2. x.state \in InFields
    BY Regions
  <1>3. /\ NamesFine(x) /\ x.hdrVal /\ (x.trailing <=> "trailing" \in x.flags)
        /\ Kind(x.heard) \in (IF x.trailing THEN {"headers", "data"} ELSE {"end"})
        /\ ~x.trailing => x.trailers = <<>>
    BY <1>2 DEF Live, StageInv, NamesInv, NamesFine
  <1>4. /\ HeldInv(x, x.nread) /\ HeldInv(x, MaxHeaderSize)
    <2>1. /\ x.nread - 1 \in Int /\ x.nread \in Int /\ MaxHeaderSize \in Int
          /\ x.nread - 1 <= x.nread /\ x.nread - 1 <= MaxHeaderSize /\ Pending(x) <= Pending(x)
      BY <1>1, Lengths, ParserConstants
    <2>2. HeldInv(x, x.nread - 1)
      BY DEF Live
    <2> QED  BY <1>1, <2>1, <2>2, HeldLess
  <1>5. After(Fail(x))
    BY <1>1, FailIsLost
  <1>6. CASE "trailing" \in x.flags
    <2>1. x.upgrade \in BOOLEAN /\ (x.upgrade => x.upgrade)
      BY <1>1 DEF Parser
    <2>2. After([Complete(x) EXCEPT !.stopped = x.upgrade])
      BY <1>1, <1>3, <1>4, <1>6, <2>1, Completed
    <2> QED  BY <1>5, <1>6, <2>2 DEF HeadersAlmostDone, MessageDone
  <1>7. CASE "trailing" \notin x.flags
    <2> DEFINE upgrades == \/ {"upgrade", "connection_upgrade"} \subseteq x.flags
                           \/ x.method = CONNECT
               w == [x EXCEPT !.upgrade = upgrades]
               y == OnHeadersComplete(w)
    <2>0. upgrades \in BOOLEAN
      OBVIOUS
    <2> HIDE DEF upgrades, w
    <2>1. w \in Parser
      BY <1>1, <2>0 DEF Parser, w
    <2>2. /\ w.nread = x.nread /\ w.url = x.url /\ w.headers = x.headers
          /\ w.trailers = x.trailers /\ w.curHdr = x.curHdr /\ w.mark = x.mark
          /\ w.piece = x.piece /\ w.heard = x.heard
      BY <1>1 DEF Parser, w
    <2>3. /\ w.hdrVal = x.hdrVal /\ w.trailing = x.trailing /\ w.failed = x.failed
          /\ w.sound = x.sound /\ w.stopped = x.stopped
      BY <1>1 DEF Parser, w
    <2>4. ParserSafe(w) /\ ~Errored(w)
      BY <1>1, <2>1, <2>2, <2>3 DEF ParserSafe, Errored
    <2>5. NamesFine(w) /\ HeldInv(w, MaxHeaderSize)
      BY <1>3, <1>4, <2>2, <2>3 DEF NamesFine, Turn, Lines, HeldInv, Pending
    <2>6. /\ ParserSafe(y) /\ ~Errored(y) /\ Kind(y.heard) = "headers"
          /\ y.trailing /\ y.trailers = <<>> /\ y.curHdr = <<>> /\ y.hdrVal
          /\ NamesKept(y.headers) /\ Len(y.url) + Size(y.headers) <= MaxHeaderSize
          /\ y.mark = w.mark /\ y.failed = w.failed /\ y.stopped = w.stopped
      BY <1>3, <1>7, <2>2, <2>3, <2>4, <2>5, HeadersHeard
    <2> HIDE DEF y
    <2>7. After(HeadersDone(y))
      BY <1>1, <2>2, <2>3, <2>6, HeadersAreDone
    <2>8. HeadersAlmostDone(x, b) = Fail(x) \/ HeadersAlmostDone(x, b) = HeadersDone(y)
      BY <1>7 DEF HeadersAlmostDone, y, w, upgrades
    <2> QED  BY <1>5, <2>7, <2>8
  <1> QED  BY <1>6, <1>7

-----------------------------------------------------------------------------
(* The steps that collect nothing *)

LEMMA NoMarkAt ==
  ASSUME NEW s, s \in States \ (UrlStates \cup InBody \cup {"header_field", "header_value"})
  PROVE  MarksAt(s) = {None}
  BY Regions DEF MarksAt, InBody, ChunkStates

LEMMA HeaderMarks ==
  /\ MarksAt("header_field") = {"header_field"} /\ MarksAt("header_value") = {"header_value"}
  /\ \A s \in InFields : s \in States /\ s \notin UrlStates /\ s \notin InBody
  <1>1. \A s \in InFields : s \notin UrlStates /\ s \notin InBody
    BY Regions, UrlRegion
  <1>2. \A s \in InFields : s \in States
    BY DEF InFields, BeforeValue, AfterValue, States, Literal
  <1> QED  BY <1>1, <1>2, Regions DEF MarksAt

LEMMA Moved ==
  ASSUME NEW x, Live(x, 1), NEW y \in Parser, Quiet(x, y), Opened(x, y),
         Onward(x, y.state), "trailing" \in y.flags <=> "trailing" \in x.flags,
         MarkInv(y), WordInv(y), y.state \notin InBody
  PROVE  After(y) /\ Live(y, 1)
  <1>1. y.mark = None => y.piece = <<>>
    BY DEF Live, ParserSafe, Opened
  <1>2. Live(y, 1)
    BY <1>1, QuietMove
  <1>3. Fits(y)
    BY Regions DEF Fits, LengthInv, ChunkStates
  <1> QED  BY <1>2, <1>3, LiveEnds

\* MARK where nothing else is open.
LEMMA Marked ==
  ASSUME NEW x \in Parser, x.sound, NEW m \in TextMarks \cup {"body"}, x.mark \in {None, m}
  PROVE  LET y == Mark(x, m)
         IN  /\ y \in Parser /\ Quiet(x, y) /\ Opened(x, y) /\ y.mark = m
             /\ y.state = x.state /\ y.flags = x.flags /\ y.length = x.length
             /\ y.hdr = x.hdr /\ y.phase = x.phase /\ y.word = x.word /\ y.method = x.method
             /\ x.mark = None => y.piece = <<>>
  <1> DEFINE y == Mark(x, m)
  <1>1. CASE x.mark = m
    <2>1. y = x
      BY <1>1 DEF Mark
    <2> QED  BY <1>1, <2>1 DEF Quiet, Opened, TextMarks, None
  <1>2. CASE x.mark # m
    <2> DEFINE f == [x EXCEPT !.sound = TRUE]
    <2>1. x.mark = None /\ None # m
      BY <1>2
    <2>2. Checked(x, x.mark = None) = f
      BY <2>1 DEF Checked, Parser
    <2>3. y = [f EXCEPT !.mark = m, !.piece = <<>>]
      BY <1>2, <2>2 DEF Mark
    <2> HIDE DEF f, y
    <2>4. f \in Parser
      BY DEF Parser, f
    <2>5. <<>> \in Text /\ m \in {None, "url", "header_field", "header_value", "body"}
      BY DEF Text, TextMarks
    <2>6. y \in Parser
      BY <2>3, <2>4, <2>5 DEF Parser
    <2>7. /\ y.state = f.state /\ y.flags = f.flags /\ y.length = f.length
          /\ y.hdr = f.hdr /\ y.phase = f.phase /\ y.word = f.word /\ y.method = f.method
          /\ y.mark = m /\ y.piece = <<>>
      BY <2>3, <2>4 DEF Parser
    <2>8. /\ f.state = x.state /\ f.flags = x.flags /\ f.length = x.length
          /\ f.hdr = x.hdr /\ f.phase = x.phase /\ f.word = x.word /\ f.method = x.method
      BY DEF f, Parser
    <2>9. Quiet(f, y)
      BY <2>3, <2>4 DEF Parser, Quiet
    <2>10. Quiet(x, f)
      BY DEF f, Parser, Quiet
    <2> QED  BY <2>1, <2>6, <2>7, <2>8, <2>9, <2>10 DEF Quiet, Opened, y
  <1> QED  BY <1>1, <1>2

-----------------------------------------------------------------------------
(* Headers and trailers *)

LEMMA HeaderFieldStartStep ==
  ASSUME NEW x, Live(x, 1), x.state = "header_field_start", x.mark = None, ~x.stopped,
         NEW b \in Bytes
  PROVE  After(HeaderFieldStart(x, b))
  <1>1. x \in Parser /\ x.sound /\ ~x.failed
    BY DEF Live, ParserSafe
  <1>2. {"headers_almost_done", "header_field"} \subseteq States
        /\ {"headers_almost_done", "header_field", "header_field_start"} \subseteq InFields
    BY Regions, HeaderMarks
  <1> DEFINE w == Go(x, "headers_almost_done")
  <1>3. /\ w \in Parser /\ Quiet(x, w) /\ w.mark = None /\ w.piece = x.piece
        /\ w.state = "headers_almost_done" /\ w.flags = x.flags
    BY <1>1, <1>2, Scanned
  <1> HIDE DEF w
  <1>4. After(w) /\ Live(w, 1)
    <2>1. MarkInv(w)
      BY <1>2, <1>3, HeaderMarks, NoMarkAt DEF MarkInv
    <2>2. Onward(x, w.state) /\ Opened(x, w) /\ WordInv(w) /\ w.state \notin InBody
      BY <1>2, <1>3, HeaderMarks, Regions DEF Onward, Opened, WordInv
    <2> QED  BY <1>3, <2>1, <2>2, Moved
  <1>5. After(HeadersAlmostDone(w, b))
    BY <1>3, <1>4, HeadersAlmostEnd DEF Quiet
  <1>6. After(Fail(x))
    BY LiveFails
  <1>7. CASE b \in Ends \/ b \notin Tokens
    BY <1>4, <1>5, <1>6, <1>7 DEF HeaderFieldStart, Ends, w
  <1>8. CASE b \notin Ends /\ b \in Tokens
    <2> DEFINE named == Begins(<<Lower(b)>>, DOMAIN NameHdr)
               m == Mark(x, "header_field")
               h == IF named THEN "name" ELSE "general"
               w1 == <<Lower(b)>>
               y == [m EXCEPT !.state = "header_field", !.word = w1,
                       !.phase = "named", !.hdr = h]
    <2>1. HeaderFieldStart(x, b) = y
      BY <1>8 DEF HeaderFieldStart, Ends
    <2>2. /\ m \in Parser /\ Quiet(x, m) /\ Opened(x, m) /\ m.mark = "header_field"
          /\ m.flags = x.flags /\ m.piece = <<>>
      BY <1>1, Marked DEF TextMarks
    <2>3. w1 \in Seq(Letters)
      BY LowerIsLetter
    <2>4. h \in {"general", "name"} \cup Meanings
      OBVIOUS
    <2> HIDE DEF m, h, w1, y
    <2>5. y \in Parser
      BY <1>2, <2>2, <2>3, <2>4 DEF Parser, y
    <2>6. Quiet(m, y) /\ y.mark = m.mark /\ y.piece = m.piece /\ y.flags = m.flags
          /\ y.state = "header_field"
      BY <2>2 DEF Parser, Quiet, y
    <2>7. Quiet(x, y)
      BY <2>2, <2>6 DEF Quiet
    <2>8. /\ Opened(x, y) /\ Onward(x, y.state) /\ MarkInv(y) /\ WordInv(y)
          /\ y.state \notin InBody
      BY <1>2, <2>2, <2>6, HeaderMarks, Regions DEF Opened, Onward, MarkInv, None, WordInv
    <2> QED  BY <2>1, <2>2, <2>5, <2>6, <2>7, <2>8, Moved
  <1> QED  BY <1>7, <1>8

LEMMA HeaderFieldStep ==
  ASSUME NEW x, Live(x, 1), MarkInv(x), NameBegun(x), x.state = "header_field",
         NEW b \in Bytes
  PROVE  After(HeaderField(x, b))
  <1>1. x \in Parser /\ x.mark = "header_field" /\ x.state \in InFields
        /\ x.state \notin InBody
    BY HeaderMarks, Regions DEF Live, ParserSafe, MarkInv
  <1>2. After(Fail(x))
    BY LiveFails
  <1>3. After(MatchName(x, b))
    <2>0. {"general"} \subseteq {"general", "name"} \cup Meanings
      OBVIOUS
    <2> DEFINE y == MatchName(x, b)
               w == Append(x.word, Lower(b))
    <2>1. w \in Seq(Letters)
      BY <1>1, LowerIsLetter DEF Parser
    <2> HIDE DEF w
    <2>2. \/ y = [x EXCEPT !.hdr = NameHdr[w],
                    !.flags = x.flags \cup ({NameHdr[w]} \cap {"transfer_encoding"})]
             /\ w \in DOMAIN NameHdr
          \/ y = [x EXCEPT !.word = w]
          \/ y = [x EXCEPT !.hdr = "general"]
      BY DEF MatchName, w
    <2>3. w \in DOMAIN NameHdr =>
            /\ NameHdr[w] \in Meanings
            /\ x.flags \cup ({NameHdr[w]} \cap {"transfer_encoding"}) \subseteq Flags
            /\ "trailing" \notin {NameHdr[w]} \cap {"transfer_encoding"}
      BY <1>1, NamesMean DEF Parser, Flags
    <2> HIDE DEF y
    <2>a. SUFFICES /\ y \in Parser /\ Quiet(x, y) /\ y.mark = x.mark /\ y.piece = x.piece
                   /\ y.state = x.state /\ ("trailing" \in y.flags <=> "trailing" \in x.flags)
      <3>1. Opened(x, y) /\ Onward(x, y.state) /\ MarkInv(y) /\ WordInv(y)
        BY <2>a, Regions DEF Opened, Onward, MarkInv, WordInv
      <3> QED  BY <1>1, <2>a, <3>1, Moved DEF y
    <2>4. CASE y = [x EXCEPT !.hdr = NameHdr[w],
                      !.flags = x.flags \cup ({NameHdr[w]} \cap {"transfer_encoding"})]
               /\ w \in DOMAIN NameHdr
      <3> DEFINE h == NameHdr[w]
                 fl == x.flags \cup ({NameHdr[w]} \cap {"transfer_encoding"})
      <3>1. /\ h \in {"general", "name"} \cup Meanings /\ fl \subseteq Flags
            /\ ("trailing" \in fl <=> "trailing" \in x.flags)
            /\ y = [x EXCEPT !.hdr = h, !.flags = fl]
        BY <2>3, <2>4
      <3> HIDE DEF h, fl
      <3>2. y \in Parser
        BY <1>1, <3>1 DEF Parser
      <3>3. /\ Quiet(x, y) /\ y.mark = x.mark /\ y.piece = x.piece /\ y.state = x.state
            /\ y.flags = fl
        BY <1>1, <3>1 DEF Parser, Quiet
      <3> QED  BY <3>1, <3>2, <3>3
    <2>5. CASE y = [x EXCEPT !.word = w]
      <3>1. y \in Parser
        BY <1>1, <2>1, <2>5 DEF Parser
      <3>2. /\ Quiet(x, y) /\ y.mark = x.mark /\ y.piece = x.piece /\ y.state = x.state
            /\ y.flags = x.flags
        BY <1>1, <2>5 DEF Parser, Quiet
      <3> QED  BY <3>1, <3>2
    <2>6. CASE y = [x EXCEPT !.hdr = "general"]
      <3>1. y \in Parser
        BY <1>1, <2>6 DEF Parser
      <3>2. /\ Quiet(x, y) /\ y.mark = x.mark /\ y.piece = x.piece /\ y.state = x.state
            /\ y.flags = x.flags
        BY <1>1, <2>6 DEF Parser, Quiet
      <3> QED  BY <3>1, <3>2
    <2> QED  BY <2>2, <2>4, <2>5, <2>6
  <1>4. After(CallbackData(Go(x, "header_value_discard_ws"), "header_field"))
    <2> DEFINE w == Go(x, "header_value_discard_ws")
               y == CallbackData(w, "header_field")
    <2>1. "header_value_discard_ws" \in BeforeValue
      BY DEF BeforeValue
    <2>2. "header_value_discard_ws" \in InFields
      BY <2>1, Regions
    <2>3. /\ w \in Parser /\ Quiet(x, w) /\ w.mark = x.mark /\ w.piece = x.piece
          /\ w.state = "header_value_discard_ws" /\ w.flags = x.flags /\ w.length = x.length
      BY <1>1, <2>2, Scanned, HeaderMarks
    <2> HIDE DEF w
    <2>4. Live(y, 1) /\ y.mark = None /\ y.state = "header_value_discard_ws"
      BY <1>1, <2>1, <2>3, NameDone
    <2>5. Fits(y)
      BY <2>1, <2>2, <2>4, HeaderMarks, Regions, NothingOpen DEF WordInv
    <2> QED  BY <2>4, <2>5, LiveEnds DEF w
  <1> QED  BY <1>2, <1>3, <1>4 DEF HeaderField

\* The fields a value changes: what the flags gain is not the trailing one.
LEMMA ValueSteps ==
  ASSUME NEW x, Live(x, 1), NEW y \in Parser, Quiet(x, y), Opened(x, y),
         y.mark = "header_value", y.state = "header_value",
         x.state \in BeforeValue \cup AfterValue \cup {"header_value"}, WordInv(y),
         "trailing" \in y.flags <=> "trailing" \in x.flags
  PROVE  After(y)
  <1>1. MarkInv(y) /\ y.state \notin InBody
    BY HeaderMarks, Regions DEF MarkInv
  <1>2. Onward(x, y.state)
    BY DEF Onward
  <1> QED  BY <1>1, <1>2, Moved

LEMMA HeaderValueStartStep ==
  ASSUME NEW x0, Live(x0, 1), x0.state \in BeforeValue \cup AfterValue, x0.mark = None,
         NEW b \in Bytes
  PROVE  After(HeaderValueStart(x0, b))
  <1> DEFINE m == Mark(x0, "header_value")
             x == [m EXCEPT !.state = "header_value", !.word = <<>>]
             y == HeaderValueStart(x0, b)
  <1>1. x0 \in Parser /\ x0.sound
    BY DEF Live, ParserSafe
  <1>2. /\ m \in Parser /\ Quiet(x0, m) /\ m.mark = "header_value"
        /\ m.flags = x0.flags /\ m.piece = <<>>
    BY <1>1, Marked DEF TextMarks
  <1> HIDE DEF m
  <1>3. "header_value" \in States /\ <<>> \in Seq(Letters)
    BY HeaderMarks, Regions
  <1> HIDE DEF x
  <1>4. x \in Parser
    BY <1>2, <1>3 DEF Parser, x
  <1>5. /\ Quiet(m, x) /\ x.mark = m.mark /\ x.piece = m.piece /\ x.flags = m.flags
        /\ x.state = "header_value"
    BY <1>2 DEF Parser, Quiet, x
  <1>6. /\ Quiet(x0, x) /\ x.mark = "header_value" /\ x.piece = <<>> /\ x.flags = x0.flags
    BY <1>2, <1>5 DEF Quiet
  <1>7. ASSUME NEW z \in Parser, Quiet(x, z), z.mark = x.mark, z.piece = x.piece,
               z.state = x.state, "trailing" \in z.flags <=> "trailing" \in x.flags,
               z.phase = "whole" => z.hdr \notin DOMAIN ListWords
        PROVE  After(z)
    <2>1. Quiet(x0, z)
      BY <1>6, <1>7 DEF Quiet
    <2>2. Opened(x0, z)
      BY <1>6, <1>7 DEF Opened, None
    <2>3. WordInv(z)
      BY <1>7 DEF WordInv
    <2> QED  BY <1>5, <1>6, <1>7, <2>1, <2>2, <2>3, ValueSteps
  <1>8. After(Fail(x))
    <2>1. Opened(x0, x) /\ Onward(x0, x.state) /\ x.mark # None
      BY <1>5, <1>6 DEF Opened, Onward, None
    <2>2. Live(x, 1)
      BY <1>4, <1>6, <2>1, QuietMove
    <2> QED  BY <2>2, LiveFails
  <1>9. After(FirstDigit(x, b))
    <2> DEFINE z == FirstDigit(x, b)
    <2>1. CASE b \notin Digits \/ "content_length" \in x.flags
      BY <1>8, <2>1 DEF FirstDigit
    <2>2. CASE ~(b \notin Digits \/ "content_length" \in x.flags)
      <3>1. z = [x EXCEPT !.flags = x.flags \cup {"content_length"},
                          !.length = DigitValue[b], !.phase = "num"]
        BY <2>2 DEF FirstDigit
      <3> HIDE DEF z
      <3>2. DigitValue[b] \in 0 .. LengthMax
        <4>1. DigitValue[b] \in 0 .. 9
          BY <2>2, Numbers
        <4> QED  BY <4>1, ParserConstants
      <3>3. x.flags \cup {"content_length"} \subseteq Flags
        BY <1>4 DEF Parser, Flags
      <3>4. z \in Parser
        BY <1>4, <3>1, <3>2, <3>3 DEF Parser
      <3>5. /\ Quiet(x, z) /\ z.mark = x.mark /\ z.piece = x.piece /\ z.state = x.state
            /\ z.flags = x.flags \cup {"content_length"} /\ z.phase = "num"
        BY <1>4, <3>1 DEF Parser, Quiet
      <3> QED  BY <1>7, <3>4, <3>5 DEF z
    <2> QED  BY <2>1, <2>2
  <1>10. \/ y = FirstDigit(x, b)
         \/ y = x /\ x.phase # "whole"
         \/ y = [x EXCEPT !.flags = x.flags \cup {"upgrade"}, !.hdr = "general"]
         \/ y = [x EXCEPT !.phase = "word", !.word = <<Lower(b)>>]
         \/ y = [x EXCEPT !.phase = "token"]
         \/ y = [x EXCEPT !.hdr = "general"]
    BY DEF HeaderValueStart, x, m
  <1> HIDE DEF y
  <1>a. "general" \notin DOMAIN ListWords
    BY DEF ListWords
  <1>11. CASE y = x /\ x.phase # "whole"
    BY <1>4, <1>7, <1>11 DEF Quiet, y
  <1>12. CASE y = [x EXCEPT !.flags = x.flags \cup {"upgrade"}, !.hdr = "general"]
    <2> DEFINE fl == x.flags \cup {"upgrade"}
    <2>1. fl \subseteq Flags /\ ("trailing" \in fl <=> "trailing" \in x.flags)
      BY <1>4 DEF Parser, Flags
    <2> HIDE DEF fl
    <2>2. y = [x EXCEPT !.flags = fl, !.hdr = "general"]
      BY <1>12 DEF fl
    <2>3. y \in Parser
      BY <1>4, <2>1, <2>2 DEF Parser
    <2>4. /\ Quiet(x, y) /\ y.mark = x.mark /\ y.piece = x.piece /\ y.state = x.state
          /\ y.flags = fl /\ y.hdr = "general"
      BY <1>4, <2>2 DEF Parser, Quiet
    <2> QED  BY <1>7, <1>a, <2>1, <2>3, <2>4 DEF y
  <1>13. CASE y = [x EXCEPT !.phase = "word", !.word = <<Lower(b)>>]
    <2>0. <<Lower(b)>> \in Seq(Letters)
      BY LowerIsLetter
    <2>1. y \in Parser
      BY <1>4, <1>13, <2>0 DEF Parser
    <2>2. /\ Quiet(x, y) /\ y.mark = x.mark /\ y.piece = x.piece /\ y.state = x.state
          /\ y.flags = x.flags /\ y.phase = "word"
      BY <1>4, <1>13 DEF Parser, Quiet
    <2> QED  BY <1>7, <2>1, <2>2 DEF y
  <1>14. CASE y = [x EXCEPT !.phase = "token"]
    <2>1. y \in Parser
      BY <1>4, <1>14 DEF Parser
    <2>2. /\ Quiet(x, y) /\ y.mark = x.mark /\ y.piece = x.piece /\ y.state = x.state
          /\ y.flags = x.flags /\ y.phase = "token"
      BY <1>4, <1>14 DEF Parser, Quiet
    <2> QED  BY <1>7, <2>1, <2>2 DEF y
  <1>15. CASE y = [x EXCEPT !.hdr = "general"]
    <2>1. y \in Parser
      BY <1>4, <1>15 DEF Parser
    <2>2. /\ Quiet(x, y) /\ y.mark = x.mark /\ y.piece = x.piece /\ y.state = x.state
          /\ y.flags = x.flags /\ y.hdr = "general"
      BY <1>4, <1>15 DEF Parser, Quiet
    <2> QED  BY <1>7, <1>a, <2>1, <2>2 DEF y
  <1> QED  BY <1>9, <1>10, <1>11, <1>12, <1>13, <1>14, <1>15 DEF y

LEMMA WordsMean ==
  /\ DOMAIN ListWords = {"connection", "transfer_encoding"}
  /\ \A h \in DOMAIN ListWords : \A w \in ListWords[h] : WordFlag[w] \in Flags \ {"trailing"}
  <1>1. DOMAIN ListWords = {"connection", "transfer_encoding"}
    BY DEF ListWords
  <1>2. DOMAIN WordFlag = {<<"k", "a">>, <<"c", "l">>, <<"u", "p">>, <<"c", "h">>}
    BY DEF WordFlag
  <1>3. \A h \in DOMAIN ListWords : ListWords[h] \subseteq DOMAIN WordFlag
    BY <1>1, <1>2 DEF ListWords
  <1>4. \A w \in DOMAIN WordFlag : WordFlag[w] \in Flags \ {"trailing"}
    BY <1>2 DEF WordFlag, Flags
  <1> QED  BY <1>1, <1>3, <1>4

LEMMA StaysInValue ==
  ASSUME NEW x, Live(x, 1), MarkInv(x), x.state = "header_value",
         NEW y \in Parser, Quiet(x, y), y.mark = x.mark, y.piece = x.piece,
         y.state = x.state, WordInv(y), "trailing" \in y.flags <=> "trailing" \in x.flags
  PROVE  After(y)
  <1>1. x.mark = "header_value" /\ Opened(x, y)
    BY HeaderMarks DEF MarkInv, Opened
  <1> QED  BY <1>1, ValueSteps

LEMMA MatchListStep ==
  ASSUME NEW x, Live(x, 1), MarkInv(x), WordInv(x), x.state = "header_value",
         x.hdr \in DOMAIN ListWords, NEW b \in Bytes
  PROVE  After(MatchListValue(x, b))
  <1> DEFINE c == Lower(b)
             w == Append(x.word, c)
             words == ListWords[x.hdr]
             y == MatchListValue(x, b)
  <1>1. x \in Parser
    BY DEF Live, ParserSafe
  <1>2. c \in Letters /\ w \in Seq(Letters) /\ <<c>> \in Seq(Letters)
    BY <1>1, LowerIsLetter DEF Parser
  <1>3. \/ y = [x EXCEPT !.phase = "word", !.word = <<c>>]
        \/ y = [x EXCEPT !.phase = "token"]
        \/ y = x
        \/ y = [x EXCEPT !.hdr = "general"]
        \/ y = [x EXCEPT !.phase = "whole", !.word = w] /\ w \in words
        \/ y = [x EXCEPT !.word = w] /\ x.phase = "word"
        \/ y = [x EXCEPT !.phase = "start"]
        \/ /\ y = [x EXCEPT !.phase = "start", !.flags = x.flags \cup {WordFlag[x.word]}]
           /\ x.phase = "whole"
    BY DEF MatchListValue
  <1> HIDE DEF c, w, y
  <1>a. SUFFICES /\ y \in Parser /\ Quiet(x, y) /\ y.mark = x.mark /\ y.piece = x.piece
                 /\ y.state = x.state /\ WordInv(y)
                 /\ ("trailing" \in y.flags <=> "trailing" \in x.flags)
    BY StaysInValue DEF y
  <1>4. CASE y = [x EXCEPT !.phase = "word", !.word = <<c>>]
    <2>1. y \in Parser
      BY <1>1, <1>2, <1>4 DEF Parser
    <2>2. /\ Quiet(x, y) /\ y.mark = x.mark /\ y.piece = x.piece /\ y.state = x.state
          /\ y.flags = x.flags /\ y.phase = "word"
      BY <1>1, <1>4 DEF Parser, Quiet
    <2> QED  BY <2>1, <2>2 DEF WordInv
  <1>5. CASE y = [x EXCEPT !.phase = "token"]
    <2>1. y \in Parser
      BY <1>1, <1>5 DEF Parser
    <2>2. /\ Quiet(x, y) /\ y.mark = x.mark /\ y.piece = x.piece /\ y.state = x.state
          /\ y.flags = x.flags /\ y.phase = "token"
      BY <1>1, <1>5 DEF Parser, Quiet
    <2> QED  BY <2>1, <2>2 DEF WordInv
  <1>6. CASE y = x
    BY <1>1, <1>6 DEF Quiet
  <1>7. CASE y = [x EXCEPT !.hdr = "general"]
    <2>1. y \in Parser
      BY <1>1, <1>7 DEF Parser
    <2>2. /\ Quiet(x, y) /\ y.mark = x.mark /\ y.piece = x.piece /\ y.state = x.state
          /\ y.flags = x.flags /\ y.hdr = "general"
      BY <1>1, <1>7 DEF Parser, Quiet
    <2> QED  BY <2>1, <2>2, WordsMean DEF WordInv
  <1>8. CASE y = [x EXCEPT !.phase = "whole", !.word = w] /\ w \in words
    <2>1. y \in Parser
      BY <1>1, <1>2, <1>8 DEF Parser
    <2>2. /\ Quiet(x, y) /\ y.mark = x.mark /\ y.piece = x.piece /\ y.state = x.state
          /\ y.flags = x.flags /\ y.word = w /\ y.hdr = x.hdr
      BY <1>1, <1>8 DEF Parser, Quiet
    <2> QED  BY <1>8, <2>1, <2>2 DEF WordInv
  <1>9. CASE y = [x EXCEPT !.word = w] /\ x.phase = "word"
    <2>1. y \in Parser
      BY <1>1, <1>2, <1>9 DEF Parser
    <2>2. /\ Quiet(x, y) /\ y.mark = x.mark /\ y.piece = x.piece /\ y.state = x.state
          /\ y.flags = x.flags /\ y.phase = x.phase
      BY <1>1, <1>9 DEF Parser, Quiet
    <2> QED  BY <1>9, <2>1, <2>2 DEF WordInv
  <1>10. CASE y = [x EXCEPT !.phase = "start"]
    <2>1. y \in Parser
      BY <1>1, <1>10 DEF Parser
    <2>2. /\ Quiet(x, y) /\ y.mark = x.mark /\ y.piece = x.piece /\ y.state = x.state
          /\ y.flags = x.flags /\ y.phase = "start"
      BY <1>1, <1>10 DEF Parser, Quiet
    <2> QED  BY <2>1, <2>2 DEF WordInv
  <1>11. CASE /\ y = [x EXCEPT !.phase = "start", !.flags = x.flags \cup {WordFlag[x.word]}]
              /\ x.phase = "whole"
    <2> DEFINE fl == x.flags \cup {WordFlag[x.word]}
    <2>1. x.word \in ListWords[x.hdr]
      BY <1>11 DEF WordInv
    <2>2. fl \subseteq Flags /\ ("trailing" \in fl <=> "trailing" \in x.flags)
      BY <1>1, <2>1, WordsMean DEF Parser
    <2> HIDE DEF fl
    <2>3. y = [x EXCEPT !.phase = "start", !.flags = fl]
      BY <1>11 DEF fl
    <2>4. y \in Parser
      BY <1>1, <2>2, <2>3 DEF Parser
    <2>5. /\ Quiet(x, y) /\ y.mark = x.mark /\ y.piece = x.piece /\ y.state = x.state
          /\ y.flags = fl /\ y.phase = "start"
      BY <1>1, <2>3 DEF Parser, Quiet
    <2> QED  BY <2>2, <2>4, <2>5 DEF WordInv
  <1> QED  BY <1>3, <1>4, <1>5, <1>6, <1>7, <1>8, <1>9, <1>10, <1>11

LEMMA MatchLengthStep ==
  ASSUME NEW x, Live(x, 1), MarkInv(x), x.state = "header_value",
         x.hdr = "content_length", NEW b \in Bytes
  PROVE  After(MatchLength(x, b))
  <1> DEFINE y == MatchLength(x, b)
             n == (x.length * 10 + DigitValue[b]) % (LengthMax + 1)
  <1>1. x \in Parser /\ "content_length" \notin DOMAIN ListWords
    BY WordsMean DEF Live, ParserSafe
  <1>2. CASE y = Fail(x)
    BY <1>2, LiveFails
  <1>3. CASE y # Fail(x)
    <2>1. \/ y = [x EXCEPT !.phase = "ws"]
          \/ y = [x EXCEPT !.length = n] /\ b \in Digits
             /\ ~((LengthMax - 10) \div 10 < x.length)
      BY <1>3 DEF MatchLength
    <2> HIDE DEF n, y
    <2>2. CASE y = [x EXCEPT !.phase = "ws"]
      <3>1. y \in Parser
        BY <1>1, <2>2 DEF Parser
      <3>2. /\ Quiet(x, y) /\ y.mark = x.mark /\ y.piece = x.piece /\ y.state = x.state
            /\ y.flags = x.flags /\ y.hdr = x.hdr
        BY <1>1, <2>2 DEF Parser, Quiet
      <3> QED  BY <1>1, <3>1, <3>2, StaysInValue DEF WordInv, y
    <2>3. CASE /\ y = [x EXCEPT !.length = n] /\ b \in Digits
               /\ ~((LengthMax - 10) \div 10 < x.length)
      <3>1. x.length \in 0 .. LengthMax /\ DigitValue[b] \in 0 .. 9
        BY <1>1, <2>3, Numbers DEF Parser
      <3>2. n \in 0 .. LengthMax - 1
        BY <2>3, <3>1, LengthFits DEF n
      <3>3. n \in 0 .. LengthMax
        BY <3>2, ParserConstants
      <3>4. y \in Parser
        BY <1>1, <2>3, <3>3 DEF Parser
      <3>5. /\ Quiet(x, y) /\ y.mark = x.mark /\ y.piece = x.piece /\ y.state = x.state
            /\ y.flags = x.flags /\ y.hdr = x.hdr
        BY <1>1, <2>3 DEF Parser, Quiet
      <3> QED  BY <1>1, <3>4, <3>5, StaysInValue DEF WordInv, y
    <2> QED  BY <2>1, <2>2, <2>3
  <1> QED  BY <1>2, <1>3

LEMMA Went ==
  ASSUME NEW x, Live(x, 1), NEW s \in States, Onward(x, s), x.mark \in MarksAt(s),
         s \notin InBody,
         s \notin {"header_value"} \cup AfterValue
           \/ (x.state \in {"header_value"} \cup AfterValue /\ WordInv(x))
  PROVE  LET y == Go(x, s)
         IN  /\ After(y) /\ Live(y, 1) /\ y.state = s /\ y.mark = x.mark /\ WordInv(y)
             /\ y.stopped = x.stopped
  <1> DEFINE y == Go(x, s)
  <1>1. x \in Parser
    BY DEF Live, ParserSafe
  <1>2. /\ y \in Parser /\ Quiet(x, y) /\ y.mark = x.mark /\ y.piece = x.piece
        /\ y.state = s /\ y.flags = x.flags /\ y.hdr = x.hdr /\ y.phase = x.phase
    BY <1>1, Scanned
  <1>3. y.word = x.word
    BY <1>1 DEF Go, Parser
  <1> HIDE DEF y
  <1>4. WordInv(y) /\ MarkInv(y) /\ Opened(x, y)
    BY <1>2, <1>3 DEF WordInv, MarkInv, Opened
  <1>5. After(y) /\ Live(y, 1)
    BY <1>2, <1>4, Moved
  <1> QED  BY <1>2, <1>4, <1>5 DEF Quiet, y

LEMMA FieldStates ==
  /\ {"header_value_discard_ws", "header_value_discard_ws_almost_done",
      "header_value_discard_lws"} = BeforeValue
  /\ {"header_almost_done", "header_value_lws"} = AfterValue
  /\ BeforeValue \cup AfterValue \cup {"header_field_start"} \subseteq States
  /\ \A s \in BeforeValue \cup AfterValue \cup {"header_field_start", "headers_almost_done"} :
       MarksAt(s) = {None} /\ s \notin InBody
  <1>1. BeforeValue \cup AfterValue \cup {"header_field_start", "headers_almost_done"}
          \subseteq InFields \ {"header_field", "header_value"}
    BY Regions
  <1>2. \A s \in InFields \ {"header_field", "header_value"} : MarksAt(s) = {None}
    BY HeaderMarks, NoMarkAt
  <1> QED  BY <1>1, <1>2, HeaderMarks DEF BeforeValue, AfterValue

LEMMA DiscardWsStep ==
  ASSUME NEW x, Live(x, 1), x.state = "header_value_discard_ws", x.mark = None, ~x.stopped,
         NEW b \in Bytes
  PROVE  After(HeaderValueDiscardWs(x, b))
  <1>1. x.state \in BeforeValue
    BY FieldStates
  <1>2. After(HeaderValueStart(x, b))
    BY <1>1, HeaderValueStartStep
  <1>3. \A s \in BeforeValue : After(Go(x, s))
    BY <1>1, FieldStates, Regions, Went DEF Onward
  <1>4. {"header_value_discard_ws_almost_done", "header_value_discard_lws"} \subseteq BeforeValue
    BY FieldStates
  <1>5. After(x)
    <2>1. x \in Parser /\ Quiet(x, x) /\ Opened(x, x) /\ Onward(x, x.state)
      BY DEF Live, ParserSafe, Quiet, Opened, Onward
    <2>2. MarkInv(x) /\ WordInv(x) /\ x.state \notin InBody
      BY <1>1, FieldStates, Regions DEF MarkInv, WordInv
    <2> QED  BY <2>1, <2>2, Moved
  <1> QED  BY <1>2, <1>3, <1>4, <1>5 DEF HeaderValueDiscardWs

LEMMA DiscardLwsStep ==
  ASSUME NEW x, Live(x, 1), x.state = "header_value_discard_lws", x.mark = None, ~x.stopped,
         NEW b \in Bytes
  PROVE  After(HeaderValueDiscardLws(x, b))
  <1>1. x.state \in BeforeValue /\ x \in Parser /\ x.sound
    BY FieldStates DEF Live, ParserSafe
  <1>2. After(Fail(x))
    BY LiveFails
  <1>3. After(Go(x, "header_value_discard_ws"))
    BY <1>1, FieldStates, Regions, Went DEF Onward
  <1> DEFINE g == Go(x, "header_field_start")
             m == Mark(g, "header_value")
             y == CallbackData(m, "header_value")
  <1>4. /\ g \in Parser /\ Quiet(x, g) /\ g.mark = x.mark /\ g.piece = x.piece
        /\ g.state = "header_field_start" /\ g.flags = x.flags /\ g.length = x.length
    BY <1>1, FieldStates, Scanned
  <1> HIDE DEF g
  <1>5. g.sound
    BY <1>1, <1>4 DEF Quiet
  <1>6. /\ m \in Parser /\ Quiet(g, m) /\ m.mark = "header_value" /\ m.piece = <<>>
        /\ m.state = g.state /\ m.flags = g.flags /\ m.length = g.length
    BY <1>4, <1>5, Marked DEF TextMarks
  <1> HIDE DEF m
  <1>7. Quiet(x, m) /\ Opened(x, m)
    BY <1>4, <1>6 DEF Quiet, Opened, None
  <1>8. Live(y, 1) /\ y.mark = None /\ y.state = "header_field_start" /\ y.stopped = x.stopped
    <2>1. m.flags = x.flags /\ m.length = x.length /\ m.state = "header_field_start"
      BY <1>4, <1>6
    <2>2. /\ Live(y, 1) /\ y.mark = None /\ y.state = m.state /\ y.stopped = m.stopped
      BY <1>1, <1>6, <1>7, <2>1, ValueDone
    <2> QED  BY <1>7, <2>1, <2>2 DEF Quiet
  <1>9. After(HeaderFieldStart(y, b))
    BY <1>8, HeaderFieldStartStep
  <1> QED  BY <1>2, <1>3, <1>9 DEF HeaderValueDiscardLws, y, m, g

LEMMA HeaderAlmostDoneStep ==
  ASSUME NEW x, Live(x, 1), x.mark = None, WordInv(x),
         \/ x.state = "header_almost_done"
         \/ x.state = "header_value" /\ x.hdrVal /\ Lines(x) # <<>>,
         NEW b
  PROVE  After(HeaderAlmostDone(x, b))
  <1>1. After(Fail(x))
    BY LiveFails
  <1>2. Onward(x, "header_value_lws") /\ x.state \in {"header_value"} \cup AfterValue
    BY FieldStates DEF Onward
  <1>3. After(Go(x, "header_value_lws"))
    BY <1>2, FieldStates, Went
  <1> QED  BY <1>1, <1>3 DEF HeaderAlmostDone

LEMMA HeaderValueStep ==
  ASSUME NEW x, Live(x, 1), MarkInv(x), WordInv(x), x.state = "header_value",
         NEW b \in Bytes
  PROVE  After(HeaderValue(x, b))
  <1>1. x \in Parser /\ x.mark = "header_value"
    BY HeaderMarks DEF Live, ParserSafe, MarkInv
  <1>2. After(Fail(x))
    BY LiveFails
  <1>3. ASSUME NEW w \in Parser, Quiet(x, w), SameWord(x, w), w.mark = x.mark,
               w.piece = x.piece, w.flags = x.flags, w.length = x.length,
               w.state \in {"header_value", "header_almost_done"}
        PROVE  LET y == CallbackData(w, "header_value")
               IN  /\ Live(y, 1) /\ y.mark = None /\ WordInv(y) /\ y.state = w.state
                   /\ y.hdrVal /\ Lines(y) # <<>>
    <2> DEFINE y == CallbackData(w, "header_value")
    <2>1. Opened(x, w) /\ w.state \in AfterValue \cup {"header_field_start", "header_value"}
      BY <1>3, FieldStates DEF Opened
    <2>2. /\ Live(y, 1) /\ y.mark = None /\ y.hdrVal /\ Lines(y) # <<>>
          /\ y.state = w.state /\ SameWord(w, y)
      BY <1>1, <1>3, <2>1, ValueDone
    <2>3. WordInv(y)
      BY <1>3, <2>2, FieldStates DEF WordInv, SameWord
    <2> QED  BY <2>2, <2>3
  <1>4. After(CallbackData(Go(x, "header_almost_done"), "header_value"))
    <2> DEFINE w == Go(x, "header_almost_done")
               y == CallbackData(w, "header_value")
    <2>1. /\ w \in Parser /\ Quiet(x, w) /\ w.mark = x.mark /\ w.piece = x.piece
          /\ w.state = "header_almost_done" /\ w.flags = x.flags /\ w.length = x.length
      BY <1>1, FieldStates, Scanned
    <2>2. SameWord(x, w)
      BY <1>1 DEF SameWord, Go, Parser
    <2> HIDE DEF w
    <2>3. Live(y, 1) /\ y.mark = None /\ WordInv(y) /\ y.state = "header_almost_done"
      BY <1>3, <2>1, <2>2
    <2>4. Fits(y)
      BY <2>3, FieldStates, HeaderMarks, Regions, NothingOpen
    <2> QED  BY <2>3, <2>4, LiveEnds DEF w
  <1>5. After(HeaderAlmostDone(CallbackData(x, "header_value"), b))
    <2> DEFINE y == CallbackData(x, "header_value")
    <2>1. Quiet(x, x) /\ SameWord(x, x)
      BY DEF Quiet, SameWord
    <2>2. /\ Live(y, 1) /\ y.mark = None /\ WordInv(y) /\ y.state = "header_value"
          /\ y.hdrVal /\ Lines(y) # <<>>
      BY <1>1, <1>3, <2>1
    <2> QED  BY <2>2, HeaderAlmostDoneStep
  <1>6. x.hdr \in DOMAIN ListWords => After(MatchListValue(x, b))
    BY MatchListStep
  <1>7. x.hdr = "content_length" => After(MatchLength(x, b))
    BY MatchLengthStep
  <1>8. After(x)
    BY <1>1, StaysInValue DEF Quiet
  <1> QED  BY <1>2, <1>4, <1>5, <1>6, <1>7, <1>8 DEF HeaderValue

LEMMA HeaderValueLwsStep ==
  ASSUME NEW x, Live(x, 1), WordInv(x), x.state = "header_value_lws", x.mark = None,
         ~x.stopped, NEW b \in Bytes
  PROVE  After(HeaderValueLws(x, b))
  <1>1. x \in Parser /\ x.state \in AfterValue
    BY FieldStates DEF Live, ParserSafe
  <1>2. ASSUME NEW w \in {x, [x EXCEPT !.phase = "ws"]}
        PROVE  After(HeaderValueStart(w, b))
    <2>a. [x EXCEPT !.phase = "ws"] \in Parser
      BY <1>1 DEF Parser
    <2>1. w \in Parser
      BY <1>1, <2>a
    <2>2. /\ Quiet(x, w) /\ w.mark = x.mark /\ w.piece = x.piece /\ w.state = x.state
          /\ w.flags = x.flags
      BY <1>1 DEF Quiet, Parser
    <2>3. Live(w, 1)
      BY <2>1, <2>2, QuietMove DEF Opened, Onward, Live, ParserSafe
    <2> QED  BY <1>1, <2>2, <2>3, HeaderValueStartStep
  <1> DEFINE fl == IF x.hdr \in DOMAIN ListWords /\ x.phase = "whole"
                   THEN x.flags \cup {WordFlag[x.word]} ELSE x.flags
             w == [x EXCEPT !.state = "header_field_start", !.flags = fl]
  <1>3. fl \subseteq Flags /\ ("trailing" \in fl <=> "trailing" \in x.flags)
    <2>1. CASE x.hdr \in DOMAIN ListWords /\ x.phase = "whole"
      <3>1. WordFlag[x.word] \in Flags \ {"trailing"}
        BY <1>1, <2>1, WordsMean DEF WordInv
      <3> QED  BY <1>1, <2>1, <3>1 DEF Parser
    <2>2. CASE ~(x.hdr \in DOMAIN ListWords /\ x.phase = "whole")
      BY <1>1, <2>2 DEF Parser
    <2> QED  BY <2>1, <2>2
  <1>4. After(HeaderFieldStart(w, b))
    <2> HIDE DEF fl
    <2>1. w \in Parser
      BY <1>1, <1>3, FieldStates DEF Parser
    <2>2. /\ Quiet(x, w) /\ w.mark = x.mark /\ w.piece = x.piece
          /\ w.state = "header_field_start" /\ w.flags = fl
      BY <1>1 DEF Quiet, Parser
    <2> HIDE DEF w
    <2>3. Opened(x, w) /\ Onward(x, w.state) /\ (w.mark = None => w.piece = <<>>)
      BY <1>1, <2>2 DEF Opened, Onward, Live, ParserSafe
    <2>4. Live(w, 1)
      BY <1>3, <2>1, <2>2, <2>3, QuietMove
    <2> QED  BY <2>2, <2>4, HeaderFieldStartStep DEF Quiet
  <1>5. b \in Blanks => After(HeaderValueLws(x, b))
    BY <1>2 DEF HeaderValueLws
  <1>6. b \notin Blanks => HeaderValueLws(x, b) = HeaderFieldStart(w, b)
    BY DEF HeaderValueLws
  <1> QED  BY <1>4, <1>5, <1>6

-----------------------------------------------------------------------------
(* The request line *)

LineStates == {"req_method", "req_spaces_before_url", "req_http_start", "req_http_major",
               "req_http_minor", "req_http_end", "req_line_almost_done"}

LEMMA LineRegion ==
  /\ \A s \in LineStates : s \in InLine /\ s \in States /\ MarksAt(s) = {None} /\ s \notin InBody
  /\ \A s \in UrlStates : s \in InLine /\ s \in States /\ MarksAt(s) = {"url"} /\ s \notin InBody
  <1>1. LineStates \subseteq States \ (Idle \cup InBody)
    BY DEF LineStates, States, Idle, InBody, ChunkStates, Literal
  <1>2. LineStates \cap InFields = {}
    BY DEF LineStates, InFields, BeforeValue, AfterValue
  <1>3. LineStates \subseteq InLine
    BY <1>1, <1>2 DEF InLine
  <1>4. LineStates \cap (UrlStates \cup {"header_field", "header_value"}) = {}
    BY DEF LineStates, UrlStates, SchemaStates, ServerStates, QueryStates, FragmentStates
  <1>5. \A s \in LineStates : MarksAt(s) = {None}
    BY <1>1, <1>4, NoMarkAt
  <1>6. \A s \in UrlStates : s \in InLine /\ s \in States /\ s \notin InBody
    BY UrlRegion, Regions DEF States
  <1> QED  BY <1>1, <1>3, <1>5, <1>6 DEF MarksAt

LEMMA LiteralMoves ==
  ASSUME NEW s \in DOMAIN Literal
  PROVE  LET t == Literal[s][2]
         IN  /\ t \in States /\ MarksAt(t) = {None} /\ t \notin InBody
             /\ MarksAt(s) = {None} /\ t \notin {"header_value"} \cup AfterValue
             /\ \/ s \in BeforeValue /\ t \in BeforeValue
                \/ s \in InLine /\ t \in InLine \cup {"header_field_start"}
  <1> DEFINE line == {"req_http_H", "req_http_HT", "req_http_HTT", "req_http_I", "req_http_IC",
                      "req_http_HTTP", "req_http_dot"}
  <1>1. line \subseteq InLine /\ \A u \in line : u \in States /\ MarksAt(u) = {None}
    <2>1. line \subseteq States \ (Idle \cup InBody)
      BY DEF States, Idle, InBody, ChunkStates, Literal
    <2>2. line \cap InFields = {}
      BY DEF InFields, BeforeValue, AfterValue
    <2>3. line \cap (UrlStates \cup {"header_field", "header_value"}) = {}
      BY DEF UrlStates, SchemaStates, ServerStates, QueryStates, FragmentStates
    <2> QED  BY <2>1, <2>2, <2>3, NoMarkAt DEF InLine
  <1> DEFINE t == Literal[s][2]
  <1>2. \/ s = "header_value_discard_ws_almost_done" /\ t = "header_value_discard_lws"
        \/ s \in line /\ t \in line \cup {"req_http_major", "req_http_minor"}
        \/ s = "req_line_almost_done" /\ t = "header_field_start"
    BY DEF Literal
  <1> HIDE DEF line, t
  <1>3. CASE s = "header_value_discard_ws_almost_done" /\ t = "header_value_discard_lws"
    <2>1. s \in BeforeValue /\ t \in BeforeValue
      BY <1>3, FieldStates
    <2> QED  BY <2>1, FieldStates, Regions DEF t
  <1>4. CASE s \in line /\ t \in line \cup {"req_http_major", "req_http_minor"}
    <2>1. t \in InLine /\ t \in States /\ MarksAt(t) = {None}
      BY <1>1, <1>4, LineRegion DEF LineStates
    <2> QED  BY <1>1, <1>4, <2>1, Regions DEF t
  <1>5. CASE s = "req_line_almost_done" /\ t = "header_field_start"
    <2>1. s \in InLine /\ MarksAt(s) = {None}
      BY <1>5, LineRegion DEF LineStates
    <2> QED  BY <1>5, <2>1, FieldStates, Regions DEF t
  <1> QED  BY <1>2, <1>3, <1>4, <1>5

LEMMA UrlGoes ==
  ASSUME NEW s, NEW b
  PROVE  parse_url_char(s, b) \in UrlStates \cup {"dead"}
  <1>1. \A m \in UrlMoves : m[3] \in UrlStates
    BY DEF UrlMoves, UrlStates, SchemaStates, ServerStates, QueryStates, FragmentStates
  <1> DEFINE moves == {m \in UrlMoves : s \in m[1] /\ b \in m[2]}
  <1>2. CASE moves = {}
    BY <1>2 DEF parse_url_char
  <1>3. CASE moves # {}
    <2>1. (CHOOSE m \in moves : TRUE) \in moves
      BY <1>3
    <2>2. parse_url_char(s, b) = (CHOOSE m \in moves : TRUE)[3]
      BY <1>3 DEF parse_url_char
    <2> QED  BY <1>1, <2>1, <2>2
  <1> QED  BY <1>2, <1>3

LEMMA LineGoes ==
  ASSUME NEW x, Live(x, 1), x.state \in LineStates, x.mark = None, NEW s \in LineStates
  PROVE  After(Go(x, s)) /\ After(x)
  <1>1. Onward(x, s) /\ Onward(x, x.state) /\ MarksAt(s) = {None} /\ s \in States
        /\ s \notin InBody /\ s \notin {"header_value"} \cup AfterValue
    BY LineRegion, Regions DEF Onward
  <1>2. After(Go(x, s))
    BY <1>1, Went
  <1>3. MarkInv(x) /\ WordInv(x) /\ x.state \notin InBody
    BY LineRegion, Regions DEF MarkInv, WordInv
  <1>4. x \in Parser /\ Quiet(x, x) /\ Opened(x, x)
    BY DEF Live, ParserSafe, Quiet, Opened
  <1>5. After(x)
    BY <1>1, <1>3, <1>4, Moved
  <1> QED  BY <1>2, <1>5

LEMMA ExpectLiteralStep ==
  ASSUME NEW x, Live(x, 1), x.state \in DOMAIN Literal, x.mark = None, NEW b
  PROVE  After(ExpectLiteral(x, b))
  <1>1. After(Fail(x))
    BY LiveFails
  <1> DEFINE t == Literal[x.state][2]
  <1>2. /\ t \in States /\ MarksAt(t) = {None} /\ t \notin InBody
        /\ t \notin {"header_value"} \cup AfterValue /\ Onward(x, t)
    BY LiteralMoves DEF Onward
  <1>3. After(Go(x, t))
    BY <1>2, Went
  <1> QED  BY <1>1, <1>3 DEF ExpectLiteral

\* Between two lines of a request nothing but what the scanner knows changes.
LEMMA LineStep ==
  ASSUME NEW x, Live(x, 1), x.state \in LineStates, x.mark = None, NEW b \in Bytes
  PROVE  /\ x.state = "req_method" => After(ReqMethod(x, b))
         /\ x.state = "req_http_start" => After(ReqHttpStart(x, b))
         /\ x.state = "req_http_major" => After(ReqHttpMajor(x, b))
         /\ x.state = "req_http_minor" => After(ReqHttpMinor(x, b))
         /\ x.state = "req_http_end" => After(ReqHttpEnd(x, b))
  <1>1. After(Fail(x)) /\ x \in Parser
    BY LiveFails DEF Live, ParserSafe
  <1>2. ASSUME NEW y \in Parser, Quiet(x, y), y.mark = x.mark, y.piece = x.piece,
               y.flags = x.flags, y.state \in States, y.state \in InLine,
               MarksAt(y.state) = {None}
        PROVE  After(y)
    <2>1. Opened(x, y) /\ Onward(x, y.state) /\ MarkInv(y) /\ WordInv(y) /\ y.state \notin InBody
      BY <1>2, LineRegion, Regions DEF Opened, Onward, MarkInv, WordInv
    <2> QED  BY <1>2, <2>1, Moved
  <1>3. ASSUME x.state = "req_method" PROVE After(ReqMethod(x, b))
    <2>1. After(Go(x, "req_spaces_before_url"))
      BY LineGoes DEF LineStates
    <2> DEFINE w == Append(x.method, b)
               y == [x EXCEPT !.method = w]
    <2>2. w \in Text
      BY <1>1 DEF Parser, Text
    <2>3. ReqMethod(x, b) \in {Go(x, "req_spaces_before_url"), y, Fail(x)}
      BY DEF ReqMethod
    <2> HIDE DEF w, y
    <2>4. y \in Parser
      BY <1>1, <2>2 DEF Parser, y
    <2>5. /\ Quiet(x, y) /\ y.mark = x.mark /\ y.piece = x.piece /\ y.flags = x.flags
          /\ y.state = x.state
      BY <1>1 DEF Quiet, Parser, y
    <2>6. After(y)
      BY <1>2, <2>4, <2>5, LineRegion
    <2> QED  BY <1>1, <2>1, <2>3, <2>6
  <1>4. ASSUME x.state = "req_http_start" PROVE After(ReqHttpStart(x, b))
    <2>1. After(x)
      BY LineGoes
    <2>2. "req_http_H" \in DOMAIN Literal /\ "req_http_I" \in DOMAIN Literal
      BY DEF Literal
    <2>3. "req_http_H" \notin BeforeValue /\ "req_http_I" \notin BeforeValue
      BY FieldStates
    <2>4. \A s \in {"req_http_H", "req_http_I"} :
            /\ s \in States /\ s \in InLine /\ MarksAt(s) = {None} /\ s \notin InBody
            /\ s \notin {"header_value"} \cup AfterValue
      BY <2>2, <2>3, LiteralMoves, Regions DEF States
    <2>5. \A s \in {"req_http_H", "req_http_I"} : Onward(x, s)
      BY <2>4, LineRegion DEF Onward
    <2>6. \A s \in {"req_http_H", "req_http_I"} : After(Go(x, s))
      BY <2>4, <2>5, Went
    <2> QED  BY <1>1, <2>1, <2>6 DEF ReqHttpStart
  <1>5. "req_http_dot" \in States /\ "req_http_dot" \in InLine
        /\ MarksAt("req_http_dot") = {None} /\ "req_http_end" \in LineStates
    <2>1. "req_http_dot" \in DOMAIN Literal /\ "req_http_dot" \notin BeforeValue
      BY FieldStates DEF Literal
    <2> QED  BY <2>1, LiteralMoves DEF States, LineStates
  <1>6. ASSUME x.state = "req_http_major" PROVE After(ReqHttpMajor(x, b))
    <2> DEFINE n == DigitValue[b]
               y == [x EXCEPT !.major = n, !.state = "req_http_dot"]
    <2>1. ReqHttpMajor(x, b) = Fail(x) \/ (b \in Digits /\ ReqHttpMajor(x, b) = y)
      BY DEF ReqHttpMajor
    <2>2. b \in Digits => n \in Nat
      BY Numbers
    <2> HIDE DEF n, y
    <2>3. b \in Digits => y \in Parser
      BY <1>1, <1>5, <2>2 DEF Parser, y
    <2>4. /\ Quiet(x, y) /\ y.mark = x.mark /\ y.piece = x.piece /\ y.flags = x.flags
          /\ y.state = "req_http_dot"
      BY <1>1 DEF Quiet, Parser, y
    <2> QED  BY <1>1, <1>2, <1>5, <2>1, <2>3, <2>4
  <1>7. ASSUME x.state = "req_http_minor" PROVE After(ReqHttpMinor(x, b))
    <2> DEFINE n == DigitValue[b]
               y == [x EXCEPT !.minor = n, !.state = "req_http_end"]
    <2>1. ReqHttpMinor(x, b) = Fail(x) \/ (b \in Digits /\ ReqHttpMinor(x, b) = y)
      BY DEF ReqHttpMinor
    <2>2. b \in Digits => n \in Nat
      BY Numbers
    <2> HIDE DEF n, y
    <2>3. b \in Digits => y \in Parser
      BY <1>1, <1>5, <2>2, LineRegion DEF Parser, y
    <2>4. /\ Quiet(x, y) /\ y.mark = x.mark /\ y.piece = x.piece /\ y.flags = x.flags
          /\ y.state = "req_http_end"
      BY <1>1 DEF Quiet, Parser, y
    <2> QED  BY <1>1, <1>2, <1>5, <2>1, <2>3, <2>4, LineRegion
  <1>8. ASSUME x.state = "req_http_end" PROVE After(ReqHttpEnd(x, b))
    <2>1. After(Go(x, "req_line_almost_done"))
      BY LineGoes DEF LineStates
    <2>2. After(Go(x, "header_field_start"))
      <3>1. Onward(x, "header_field_start")
        BY LineRegion DEF Onward
      <3> QED  BY <3>1, FieldStates, Regions, Went
    <2> QED  BY <1>1, <2>1, <2>2 DEF ReqHttpEnd
  <1> QED  BY <1>3, <1>4, <1>6, <1>7, <1>8

LEMMA IdleStays ==
  ASSUME NEW x, Live(x, 1), x.state \in Idle, x.mark = None
  PROVE  After(x)
  <1>1. /\ x.state \notin UrlStates \cup InBody \cup {"header_field", "header_value"}
        /\ x.state \notin AfterValue /\ x.state # "chunk_size_start"
    BY Regions, UrlRegion DEF ChunkStates
  <1>2. Fits(x)
    BY <1>1, NothingOpen DEF WordInv
  <1> QED  BY <1>2, LiveEnds

LEMMA StartReqStep ==
  ASSUME NEW x, Live(x, 1), x.state = "start_req", x.mark = None, NEW b \in Bytes
  PROVE  After(StartReq(x, b))
  <1>1. After(Fail(x)) /\ x \in Parser /\ x.state \in Idle
    BY LiveFails DEF Live, ParserSafe, Idle
  <1>2. After(x)
    BY <1>1, IdleStays
  <1> DEFINE w == [x EXCEPT !.state = "req_method", !.method = <<b>>,
                            !.flags = {}, !.length = LengthMax]
             y == Reset(w)
  <1>3. w \in Parser
    <2>1. <<b>> \in Text /\ {} \subseteq Flags /\ LengthMax \in 0 .. LengthMax
      BY ParserConstants DEF Text
    <2>2. "req_method" \in States
      BY LineRegion DEF LineStates
    <2> QED  BY <1>1, <2>1, <2>2 DEF Parser
  <1>4. /\ w.state = "req_method" /\ w.flags = {} /\ w.mark = x.mark /\ w.piece = x.piece
        /\ w.heard = x.heard /\ w.nread = x.nread
        /\ w.stopped = x.stopped /\ w.upgrade = x.upgrade /\ w.failed = x.failed
        /\ w.sound = x.sound
    BY <1>1 DEF Parser
  <1> HIDE DEF w
  <1>5. y = [w EXCEPT !.url = <<>>, !.headers = <<>>, !.trailers = <<>>,
                      !.curHdr = <<>>, !.hdrVal = TRUE, !.trailing = FALSE]
    BY DEF Reset
  <1> HIDE DEF y
  <1>6. y \in Parser
    <2>1. <<>> \in Text /\ <<>> \in Seq(Text)
      BY DEF Text
    <2> QED  BY <1>3, <1>5, <2>1 DEF Parser
  <1>7. /\ y.state = w.state /\ y.flags = w.flags /\ y.mark = w.mark /\ y.piece = w.piece
        /\ y.heard = w.heard /\ y.nread = w.nread /\ y.url = <<>> /\ y.headers = <<>>
        /\ y.trailers = <<>> /\ y.curHdr = <<>>
    BY <1>3, <1>5 DEF Parser
  <1>8. /\ y.hdrVal /\ ~y.trailing
        /\ y.stopped = w.stopped /\ y.upgrade = w.upgrade /\ y.failed = w.failed
        /\ y.sound = w.sound
    BY <1>3, <1>5 DEF Parser
  <1>9. ParserSafe(y) /\ ~Errored(y) /\ ~y.failed /\ y.nread <= MaxHeaderSize
    BY <1>4, <1>6, <1>7, <1>8 DEF Live, ParserSafe, Errored
  <1>10. /\ y.state \in LineStates /\ y.state \in InLine /\ y.state \notin Idle \cup InFields \cup InBody
         /\ y.state \notin BeforeValue \cup AfterValue
                     \cup {"header_field_start", "headers_almost_done", "header_value"}
    BY <1>4, <1>7, LineRegion, Regions DEF LineStates
  <1>11. StageInv(y)
    BY <1>1, <1>4, <1>7, <1>8, <1>10 DEF Live, StageInv
  <1>12. NamesInv(y)
    BY <1>7, <1>8, <1>10, NoNames DEF NamesInv
  <1>13. HeldInv(y, y.nread - 0) /\ y.mark = None
    <2>1. Len(y.url) = 0 /\ Len(y.curHdr) = 0
      BY <1>7
    <2>2. Size(y.headers) = 0 /\ Pending(y) = 0 /\ y.mark = None
      BY <1>4, <1>7, NoNames DEF Pending, None
    <2>3. y.nread \in Nat
      BY <1>6, Lengths
    <2> QED  BY <1>8, <2>1, <2>2, <2>3 DEF HeldInv
  <1>14. MarkInv(y) /\ WordInv(y)
    BY <1>10, <1>13, LineRegion DEF MarkInv, WordInv
  <1>15. LengthInv(y) /\ y.state # "chunk_size_start"
    BY <1>10, Regions DEF LengthInv, ChunkStates
  <1>16. After(y)
    BY <1>9, <1>11, <1>12, <1>13, <1>14, <1>15 DEF After, Live, Fits, Slack, TextMarks, None
  <1> QED  BY <1>1, <1>2, <1>16 DEF StartReq, y, w

\* A byte of the URL, whose mark has just been set or was set before.
LEMMA UrlByteStep ==
  ASSUME NEW x, Live(x, 1), x.state \in InLine, NEW y \in Parser, Quiet(x, y), Opened(x, y),
         y.mark = "url", y.flags = x.flags, y.state \in InLine, NEW b
  PROVE  After(UrlByte(y, b))
  <1>1. Live(y, 1)
    <2>1. Onward(x, y.state) /\ (y.mark = None => y.piece = <<>>)
      BY DEF Onward, None
    <2> QED  BY <2>1, QuietMove
  <1>2. After(Fail(y))
    BY <1>1, LiveFails
  <1> DEFINE s == parse_url_char(y.state, b)
  <1>3. ASSUME s # "dead" PROVE After(Go(y, s))
    <2>1. s \in UrlStates
      BY <1>3, UrlGoes
    <2>2. /\ s \in InLine /\ s \in States /\ MarksAt(s) = {"url"} /\ s \notin InBody
          /\ s \notin {"header_value"} \cup AfterValue
      BY <2>1, LineRegion, Regions
    <2>3. Onward(y, s)
      BY <2>2 DEF Onward
    <2> HIDE DEF s
    <2> QED  BY <1>1, <2>2, <2>3, Went
  <1> QED  BY <1>2, <1>3 DEF UrlByte

LEMMA ReqSpacesStep ==
  ASSUME NEW x, Live(x, 1), x.state = "req_spaces_before_url", x.mark = None, NEW b
  PROVE  After(ReqSpacesBeforeUrl(x, b))
  <1>1. x \in Parser /\ x.sound /\ x.state \in InLine /\ x.state \in LineStates
    BY LineRegion DEF Live, ParserSafe, LineStates
  <1>2. After(x)
    BY <1>1, LineGoes
  <1> DEFINE y == Mark(x, "url")
             z == Go(y, "req_server_start")
  <1>3. /\ y \in Parser /\ Quiet(x, y) /\ Opened(x, y) /\ y.mark = "url" /\ y.state = x.state
        /\ y.flags = x.flags
    BY <1>1, Marked DEF TextMarks
  <1> HIDE DEF y
  <1>4. After(UrlByte(y, b))
    BY <1>1, <1>3, UrlByteStep
  <1>5. After(UrlByte(z, b))
    <2>1. "req_server_start" \in UrlStates
      BY DEF UrlStates, ServerStates
    <2>2. "req_server_start" \in InLine /\ "req_server_start" \in States
      BY <2>1, LineRegion
    <2>3. /\ z \in Parser /\ Quiet(y, z) /\ z.mark = y.mark /\ z.piece = y.piece
          /\ z.state = "req_server_start" /\ z.flags = y.flags
      BY <1>3, <2>2, Scanned
    <2> HIDE DEF z
    <2>4. Quiet(x, z) /\ Opened(x, z)
      BY <1>3, <2>3 DEF Quiet, Opened
    <2> QED  BY <1>1, <1>3, <2>2, <2>3, <2>4, UrlByteStep
  <1> QED  BY <1>2, <1>4, <1>5 DEF ReqSpacesBeforeUrl, y, z

LEMMA ReqUrlStep ==
  ASSUME NEW x, Live(x, 1), MarkInv(x), x.state \in UrlStates, NEW b
  PROVE  After(ReqUrl(x, b))
  <1>1. x \in Parser /\ x.mark = "url" /\ x.state \in InLine /\ ~x.trailing
    BY LineRegion DEF Live, ParserSafe, MarkInv, StageInv
  <1>2. After(Fail(x))
    BY LiveFails
  <1>3. After(UrlByte(x, b))
    BY <1>1, UrlByteStep DEF Quiet, Opened
  <1>4. ASSUME NEW w \in Parser, Quiet(x, w), w.mark = x.mark, w.piece = x.piece,
               w.flags = x.flags,
               w.state \in {"req_http_start", "req_line_almost_done", "header_field_start"}
        PROVE  After(CallbackData(w, "url"))
    <2> DEFINE y == CallbackData(w, "url")
    <2>1. /\ w.state \in InLine \cup {"header_field_start"}
          /\ w.state \notin UrlStates \cup InBody \cup AfterValue
                            \cup {"header_field", "header_value"}
      <3>1. CASE w.state = "header_field_start"
        BY <3>1, Regions, HeaderMarks
      <3>2. CASE w.state \in {"req_http_start", "req_line_almost_done"}
        <4>1. w.state \in LineStates
          BY <3>2 DEF LineStates
        <4>2. MarksAt(w.state) = {None} /\ w.state \in InLine
          BY <4>1, LineRegion
        <4> QED  BY <3>2, <4>2, LineRegion, Regions DEF None
      <3> QED  BY <1>4, <3>1, <3>2
    <2>2. Opened(x, w) /\ Onward(x, w.state) /\ (w.mark = None => w.piece = <<>>)
      BY <1>1, <1>4, <2>1 DEF Opened, Onward, None
    <2>3. Live(w, 1)
      BY <1>4, <2>2, QuietMove
    <2>4. w.mark = "url" /\ ~w.trailing
      BY <1>1, <1>4 DEF Quiet
    <2>5. Live(y, 1) /\ y.mark = None /\ y.state = w.state
      BY <2>3, <2>4, UrlHanded
    <2>6. Fits(y)
      BY <2>1, <2>5, NothingOpen DEF WordInv
    <2> QED  BY <2>5, <2>6, LiveEnds
  <1>5. After(CallbackData(Go(x, "req_http_start"), "url"))
    <2>1. "req_http_start" \in States
      BY LineRegion DEF LineStates
    <2> QED  BY <1>1, <1>4, <2>1, Scanned
  <1>6. After(CallbackData([x EXCEPT !.major = 0, !.minor = 9,
                              !.state = IF b = "CR" THEN "req_line_almost_done"
                                        ELSE "header_field_start"], "url"))
    <2> DEFINE s == IF b = "CR" THEN "req_line_almost_done" ELSE "header_field_start"
               w == [x EXCEPT !.major = 0, !.minor = 9, !.state = s]
    <2>1. s \in {"req_line_almost_done", "header_field_start"} /\ s \in States
      BY LineRegion, FieldStates DEF LineStates
    <2> HIDE DEF s, w
    <2>2. w \in Parser
      BY <1>1, <2>1 DEF Parser, w
    <2>3. /\ Quiet(x, w) /\ w.mark = x.mark /\ w.piece = x.piece /\ w.flags = x.flags
          /\ w.state = s
      BY <1>1 DEF Quiet, Parser, w
    <2>4. After(CallbackData(w, "url"))
      BY <1>4, <2>1, <2>2, <2>3
    <2> QED  BY <2>4 DEF w, s
  <1> QED  BY <1>2, <1>3, <1>5, <1>6 DEF ReqUrl

-----------------------------------------------------------------------------
(* The body *)

LEMMA DeadStep ==
  ASSUME NEW x, Live(x, 1), x.state = "dead", x.mark = None, NEW b
  PROVE  After(IF b \in Ends THEN x ELSE Fail(x))
  BY IdleStays, LiveFails DEF Idle

LEMMA CheckedHolds ==
  ASSUME NEW x \in Parser, x.sound, NEW h \in BOOLEAN, h
  PROVE  Checked(x, h) = x
  BY DEF Checked, Parser

\* What the user of the parser has is the same.
Carried(x, y) ==
  /\ y.upgrade = x.upgrade /\ y.failed = x.failed /\ y.stopped = x.stopped
  /\ y.sound = x.sound /\ y.heard = x.heard
  /\ y.url = x.url /\ y.headers = x.headers /\ y.trailers = x.trailers
  /\ y.curHdr = x.curHdr /\ y.hdrVal = x.hdrVal /\ y.trailing = x.trailing

\* The moves between the states of a body, and from its last chunk to the trailers.
LEMMA BodyMoves ==
  ASSUME NEW x, NEW c, Live(x, c), x.state \in InBody,
         NEW y \in Parser, Carried(x, y), y.nread \in {0, x.nread},
         \/ y.state \in InBody
         \/ y.state = "header_field_start" /\ "trailing" \in y.flags,
         y.mark \in {None, "body"}, y.mark = None => y.piece = <<>>,
         MarkInv(y), LengthInv(y), y.state = "chunk_size_start" => y.nread = 0
  PROVE  After(y)
  <1>1. /\ x \in Parser /\ x.trailing /\ x.hdrVal /\ x.trailers = <<>> /\ x.curHdr = <<>>
        /\ NamesKept(x.headers) /\ Kind(x.heard) \in {"headers", "data"} /\ x.sound
        /\ Len(x.url) + Size(x.headers) <= MaxHeaderSize
    BY DEF Live, ParserSafe, StageInv, NamesInv, HeldInv
  <1>2. y.nread \in Nat /\ y.nread <= MaxHeaderSize /\ ~y.failed
    BY <1>1, Lengths, ParserConstants DEF Live, Carried
  <1>3. ParserSafe(y) /\ ~Errored(y)
    BY <1>2, ParserConstants DEF Live, ParserSafe, Errored, Carried
  <1>4. StageInv(y) /\ NamesInv(y) /\ WordInv(y)
    <2>1. CASE y.state \in InBody
      <3>1. /\ y.state \notin Idle \cup InLine \cup InFields
            /\ y.state \notin BeforeValue \cup AfterValue
                 \cup {"header_field_start", "headers_almost_done", "header_field", "header_value"}
        BY <2>1, Regions
      <3> QED  BY <1>1, <2>1, <3>1, NoNames DEF StageInv, NamesInv, WordInv, Carried
    <2>2. CASE y.state = "header_field_start" /\ "trailing" \in y.flags
      <3>1. /\ y.state \notin Idle \cup InLine \cup InBody /\ y.state \in InFields
            /\ y.state \notin BeforeValue \cup AfterValue \cup {"header_value"}
        BY <2>2, Regions
      <3> QED  BY <1>1, <2>2, <3>1, NoNames DEF StageInv, NamesInv, WordInv, Turn, Lines, Carried
    <2> QED  BY <2>1, <2>2
  <1>5. HeldInv(y, y.nread - 0)
    <2>1. y.curHdr = <<>> /\ y.trailers = <<>> /\ y.url = x.url /\ y.headers = x.headers
          /\ y.trailing
      BY <1>1 DEF Carried
    <2>2. Len(y.curHdr) = 0
      BY <2>1
    <2>3. Size(y.trailers) = 0 /\ Pending(y) = 0
      BY <2>1, NoNames DEF Pending, None
    <2> QED  BY <1>1, <1>2, <2>1, <2>2, <2>3 DEF HeldInv
  <1>6. y.mark \notin TextMarks
    BY DEF TextMarks, None
  <1> QED  BY <1>2, <1>3, <1>4, <1>5, <1>6 DEF After, Live, Slack, Fits

LEMMA BodyMarks ==
  /\ \A s \in InBody : s \in States /\ MarksAt(s) \subseteq {None, "body"}
       /\ (s \in {"body_identity", "chunk_data", "chunk_data_almost_done"}
             => MarksAt(s) = {None, "body"})
       /\ (s \notin {"body_identity", "chunk_data", "chunk_data_almost_done"}
             => MarksAt(s) = {None})
  <1>1. ASSUME NEW s \in InBody
        PROVE  s \in States /\ s \notin UrlStates /\ s \notin {"header_field", "header_value"}
    BY Regions, UrlRegion DEF InBody, ChunkStates, States, BodyStates
  <1> QED  BY <1>1 DEF MarksAt

\* A byte of the body, taken into the piece.
LEMMA BodyByte ==
  ASSUME NEW x, Live(x, 0), MarkInv(x), LengthInv(x), x.state \in {"body_identity", "chunk_data"}
  PROVE  LET y == [Mark(Checked(x, x.length \notin {0, LengthMax}), "body") EXCEPT !.length = @ - 1]
         IN  /\ y \in Parser /\ Quiet(x, y) /\ y.mark = "body" /\ y.state = x.state
             /\ y.flags = x.flags /\ y.length = x.length - 1 /\ y.length \in 0 .. LengthMax - 2
  <1>1. x \in Parser /\ x.sound /\ x.length \in 1 .. LengthMax - 1 /\ x.state \in InBody
    BY DEF Live, ParserSafe, LengthInv, InBody, ChunkStates
  <1>2. x.mark \in {None, "body"}
    BY <1>1, BodyMarks DEF MarkInv
  <1>3. x.length \notin {0, LengthMax}
    BY <1>1, ParserConstants
  <1>4. Checked(x, x.length \notin {0, LengthMax}) = x
    BY <1>1, <1>3, CheckedHolds
  <1> DEFINE m == Mark(x, "body")
             y == [m EXCEPT !.length = @ - 1]
  <1>5. /\ m \in Parser /\ Quiet(x, m) /\ m.mark = "body" /\ m.state = x.state
        /\ m.flags = x.flags /\ m.length = x.length
    BY <1>1, <1>2, Marked
  <1> HIDE DEF m
  <1>6. m.length - 1 \in 0 .. LengthMax /\ m.length - 1 \in 0 .. LengthMax - 2
    BY <1>1, <1>5, ParserConstants
  <1> HIDE DEF y
  <1>7. y \in Parser
    BY <1>5, <1>6 DEF Parser, y
  <1>8. Quiet(m, y) /\ y.mark = m.mark /\ y.state = m.state /\ y.flags = m.flags
        /\ y.length = m.length - 1
    BY <1>5 DEF Parser, Quiet, y
  <1>9. Quiet(x, y)
    BY <1>5, <1>8 DEF Quiet
  <1> QED  BY <1>4, <1>5, <1>6, <1>7, <1>8, <1>9 DEF y, m

LEMMA BodyIdentityStep ==
  ASSUME NEW x, Live(x, 0), MarkInv(x), LengthInv(x), x.state = "body_identity", ~x.stopped,
         NEW b \in Bytes
  PROVE  After(BodyIdentity(x, b))
  <1> DEFINE y == [Mark(Checked(x, x.length \notin {0, LengthMax}), "body") EXCEPT !.length = @ - 1]
             z == [y EXCEPT !.piece = Append(@, b)]
             w == CallbackData(z, "body")
  <1>1. /\ y \in Parser /\ Quiet(x, y) /\ y.mark = "body" /\ y.state = x.state
        /\ y.flags = x.flags /\ y.length \in 0 .. LengthMax - 2
    BY BodyByte
  <1>2. BodyIdentity(x, b) = IF y.length > 0 THEN y ELSE [Complete(w) EXCEPT !.stopped = w.upgrade]
    BY DEF BodyIdentity, MessageDone
  <1> HIDE DEF y
  <1>3. ASSUME y.length > 0 PROVE After(y)
    <2>1. x.state \in InBody /\ y.state \notin ChunkStates
      BY <1>1, Regions
    <2>2. MarkInv(y)
      BY <1>1, <2>1, BodyMarks DEF MarkInv
    <2>3. LengthInv(y)
      BY <1>1, <1>3, <2>1, ParserConstants DEF LengthInv, ChunkStates
    <2>4. Carried(x, y) /\ y.nread = x.nread
      BY <1>1 DEF Quiet, Carried
    <2> QED  BY <1>1, <2>1, <2>2, <2>3, <2>4, BodyMoves DEF None
  <1>4. After([Complete(w) EXCEPT !.stopped = w.upgrade])
    <2>1. /\ x \in Parser /\ x.trailing /\ x.hdrVal /\ x.trailers = <<>> /\ x.curHdr = <<>>
          /\ NamesKept(x.headers) /\ Kind(x.heard) \in {"headers", "data"}
          /\ Len(x.url) + Size(x.headers) <= MaxHeaderSize /\ x.nread <= MaxHeaderSize
          /\ ~x.failed
      BY Regions DEF Live, ParserSafe, StageInv, NamesInv, HeldInv
    <2>2. z \in Parser
      <3>1. Append(y.piece, b) \in Text
        BY <1>1 DEF Parser, Text
      <3> QED  BY <1>1, <3>1 DEF Parser
    <2>3. Quiet(y, z) /\ z.mark = y.mark
      BY <1>1 DEF Parser, Quiet
    <2> HIDE DEF z
    <2>4. ParserSafe(z) /\ ~Errored(z) /\ Quiet(x, z) /\ z.mark = "body"
      BY <1>1, <2>2, <2>3 DEF Live, ParserSafe, Errored, Quiet, None
    <2>5. /\ ParserSafe(w) /\ ~Errored(w) /\ w.mark = None
          /\ Kind(w.heard) \in {"headers", "data"}
          /\ w.nread = z.nread /\ w.url = z.url /\ w.headers = z.headers
          /\ w.trailers = z.trailers /\ w.curHdr = z.curHdr
          /\ w.hdrVal = z.hdrVal /\ w.trailing = z.trailing /\ w.upgrade = z.upgrade
          /\ w.failed = z.failed
      BY <2>1, <2>4, BodyHanded DEF Quiet
    <2> HIDE DEF w
    <2>6. /\ w.trailing /\ w.hdrVal /\ w.trailers = <<>> /\ w.curHdr = <<>> /\ ~w.failed
          /\ w.headers = x.headers /\ w.url = x.url /\ w.nread = x.nread
      BY <2>1, <2>4, <2>5 DEF Quiet
    <2>7. NamesFine(w)
      BY <2>1, <2>6, NoNames DEF NamesFine, Turn, Lines
    <2>8. HeldInv(w, w.nread)
      <3>1. Len(w.curHdr) = 0
        BY <2>6
      <3>2. Size(w.trailers) = 0 /\ Pending(w) = 0 /\ w.nread \in Nat
        BY <2>1, <2>5, <2>6, NoNames, Lengths DEF Pending, None
      <3> QED  BY <2>1, <2>6, <3>1, <3>2 DEF HeldInv
    <2>9. w.upgrade \in BOOLEAN
      BY <2>5 DEF ParserSafe, Parser
    <2> QED  BY <2>1, <2>5, <2>6, <2>7, <2>8, <2>9, Completed
  <1> QED  BY <1>2, <1>3, <1>4

\* A move inside a body that changes only what the scanner knows.
LEMMA BodyGo ==
  ASSUME NEW x, NEW c, Live(x, c), x.state \in InBody, x.mark = None,
         NEW y \in Parser, Carried(x, y), y.nread \in {0, x.nread}, y.mark = x.mark,
         y.piece = x.piece,
         \/ y.state \in InBody
         \/ y.state = "header_field_start" /\ "trailing" \in y.flags,
         LengthInv(y), y.state = "chunk_size_start" => y.nread = 0
  PROVE  After(y)
  <1>1. MarkInv(y)
    BY BodyMarks, FieldStates DEF MarkInv
  <1>2. x.mark = None => x.piece = <<>>
    BY DEF Live, ParserSafe
  <1> QED  BY <1>1, <1>2, BodyMoves

LEMMA ChunkSizeStartStep ==
  ASSUME NEW x, Live(x, 1), LengthInv(x), x.state = "chunk_size_start", x.mark = None,
         x.nread = 1, NEW b \in Bytes
  PROVE  After(ChunkSizeStart(x, b))
  <1>1. x \in Parser /\ x.sound /\ x.state \in InBody /\ "chunked" \in x.flags
    BY DEF Live, ParserSafe, LengthInv, InBody, ChunkStates
  <1>2. Checked(x, x.nread = 1 /\ "chunked" \in x.flags) = x
    BY <1>1, CheckedHolds
  <1>3. After(Fail(x))
    BY LiveFails
  <1> DEFINE n == unhex[b]
             y == [x EXCEPT !.length = n, !.state = "chunk_size"]
  <1>4. ChunkSizeStart(x, b) = IF b \in DOMAIN unhex THEN y ELSE Fail(x)
    BY <1>2 DEF ChunkSizeStart
  <1>5. ASSUME b \in DOMAIN unhex PROVE After(y)
    <2>1. n \in 0 .. LengthMax /\ n < LengthMax
      BY <1>5, Numbers, ParserConstants
    <2>2. "chunk_size" \in InBody /\ "chunk_size" \in States
      BY BodyMarks DEF InBody, ChunkStates
    <2> HIDE DEF n, y
    <2>3. y \in Parser
      BY <1>1, <2>1, <2>2 DEF Parser, y
    <2>4. /\ Carried(x, y) /\ y.nread = x.nread /\ y.mark = x.mark /\ y.piece = x.piece
          /\ y.state = "chunk_size" /\ y.flags = x.flags /\ y.length = n
      BY <1>1 DEF Parser, Carried, y
    <2>5. LengthInv(y)
      BY <1>1, <2>1, <2>4 DEF LengthInv
    <2> QED  BY <1>1, <2>2, <2>3, <2>4, <2>5, BodyGo
  <1> QED  BY <1>3, <1>4, <1>5

LEMMA ChunkSizeGoes ==
  ASSUME NEW x, Live(x, 1), LengthInv(x), x.state \in {"chunk_size", "chunk_parameters"},
         x.mark = None,
         NEW s \in {"chunk_size", "chunk_parameters", "chunk_size_almost_done"}
  PROVE  After(Go(x, s))
  <1>1. x \in Parser /\ x.state \in InBody /\ "chunked" \in x.flags /\ x.length < LengthMax
    BY DEF Live, ParserSafe, LengthInv, InBody, ChunkStates
  <1>2. s \in InBody /\ s \in States
    BY BodyMarks DEF InBody, ChunkStates
  <1> DEFINE y == Go(x, s)
  <1>3. /\ y \in Parser /\ Quiet(x, y) /\ y.mark = x.mark /\ y.piece = x.piece /\ y.state = s
        /\ y.flags = x.flags /\ y.length = x.length
    BY <1>1, <1>2, Scanned
  <1> HIDE DEF y
  <1>4. Carried(x, y) /\ y.nread = x.nread
    BY <1>3 DEF Carried, Quiet
  <1>5. LengthInv(y)
    BY <1>1, <1>3 DEF LengthInv
  <1>6. y.state \in InBody /\ y.state # "chunk_size_start"
    BY <1>2, <1>3
  <1>7. After(y)
    BY <1>1, <1>3, <1>4, <1>5, <1>6, BodyGo
  <1> QED  BY <1>7 DEF y

LEMMA ChunkSizeStep ==
  ASSUME NEW x, Live(x, 1), LengthInv(x), x.state = "chunk_size", x.mark = None, NEW b \in Bytes
  PROVE  After(ChunkSize(x, b))
  <1>1. /\ After(Fail(x)) /\ After(Go(x, "chunk_size_almost_done"))
        /\ After(Go(x, "chunk_parameters"))
    BY LiveFails, ChunkSizeGoes
  <1> DEFINE n == (x.length * 16 + unhex[b]) % (LengthMax + 1)
             y == [x EXCEPT !.length = n]
  <1>2. ASSUME b \in DOMAIN unhex, ~((LengthMax - 16) \div 16 < x.length) PROVE After(y)
    <2>1. x \in Parser /\ x.state \in InBody /\ "chunked" \in x.flags /\ x.length \in 0 .. LengthMax
      BY DEF Live, ParserSafe, LengthInv, InBody, ChunkStates, Parser
    <2>2. unhex[b] \in 0 .. 16 - 1
      BY <1>2, Numbers
    <2>3. n \in 0 .. LengthMax - 1
      BY <1>2, <2>1, <2>2, LengthFits
    <2>4. n \in 0 .. LengthMax /\ n < LengthMax
      BY <2>3, ParserConstants
    <2> HIDE DEF n, y
    <2>5. y \in Parser
      BY <2>1, <2>4 DEF Parser, y
    <2>6. /\ Carried(x, y) /\ y.nread = x.nread /\ y.mark = x.mark /\ y.piece = x.piece
          /\ y.state = x.state /\ y.flags = x.flags /\ y.length = n
      BY <2>1 DEF Parser, Carried, y
    <2>7. LengthInv(y)
      BY <2>1, <2>4, <2>6 DEF LengthInv
    <2>8. y.state \in InBody /\ y.state # "chunk_size_start"
      BY <2>1, <2>6
    <2> QED  BY <2>1, <2>5, <2>6, <2>7, <2>8, BodyGo
  <1> QED  BY <1>1, <1>2 DEF ChunkSize

LEMMA ChunkParametersStep ==
  ASSUME NEW x, Live(x, 1), LengthInv(x), x.state = "chunk_parameters", x.mark = None, NEW b
  PROVE  After(ChunkParameters(x, b))
  <1>1. After(Go(x, "chunk_size_almost_done")) /\ After(Go(x, "chunk_parameters"))
    BY ChunkSizeGoes
  <1>2. Go(x, "chunk_parameters") = x
    BY DEF Go, Live, ParserSafe, Parser
  <1> QED  BY <1>1, <1>2 DEF ChunkParameters

LEMMA ChunkSizeAlmostDoneStep ==
  ASSUME NEW x, Live(x, 1), LengthInv(x), x.state = "chunk_size_almost_done", x.mark = None, NEW b
  PROVE  After(ChunkSizeAlmostDone(x, b))
  <1>1. x \in Parser /\ x.state \in InBody /\ "chunked" \in x.flags /\ x.length < LengthMax
        /\ x.length \in 0 .. LengthMax
    BY DEF Live, ParserSafe, LengthInv, InBody, ChunkStates, Parser
  <1>2. After(Fail(x))
    BY LiveFails
  <1> DEFINE y == [x EXCEPT !.nread = 0, !.flags = @ \cup {"trailing"},
                            !.state = "header_field_start"]
             z == [x EXCEPT !.nread = 0, !.state = "chunk_data"]
  <1>3. After(y)
    <2>1. y \in Parser
      <3>1. x.flags \cup {"trailing"} \in SUBSET Flags /\ "header_field_start" \in States
        BY <1>1, FieldStates DEF Parser, Flags
      <3> QED  BY <1>1, <3>1 DEF Parser
    <2>2. /\ Carried(x, y) /\ y.nread = 0 /\ y.mark = x.mark /\ y.piece = x.piece
          /\ y.state = "header_field_start" /\ y.flags = x.flags \cup {"trailing"}
      BY <1>1 DEF Parser, Carried
    <2> HIDE DEF y
    <2>3. LengthInv(y) /\ y.state # "chunk_size_start"
      BY <2>2 DEF LengthInv, ChunkStates
    <2> QED  BY <1>1, <2>1, <2>2, <2>3, BodyGo
  <1>4. ASSUME x.length # 0 PROVE After(z)
    <2>1. "chunk_data" \in InBody /\ "chunk_data" \in States
      BY BodyMarks DEF InBody, ChunkStates
    <2>2. z \in Parser
      BY <1>1, <2>1 DEF Parser
    <2>3. /\ Carried(x, z) /\ z.nread = 0 /\ z.mark = x.mark /\ z.piece = x.piece
          /\ z.state = "chunk_data" /\ z.flags = x.flags /\ z.length = x.length
      BY <1>1 DEF Parser, Carried
    <2> HIDE DEF z
    <2>4. z.length \in 1 .. LengthMax - 1
      BY <1>1, <1>4, <2>3, ParserConstants
    <2>5. LengthInv(z) /\ z.state # "chunk_size_start"
      BY <1>1, <2>3, <2>4 DEF LengthInv
    <2> QED  BY <1>1, <2>1, <2>2, <2>3, <2>5, BodyGo
  <1> QED  BY <1>2, <1>3, <1>4 DEF ChunkSizeAlmostDone

LEMMA ChunkDataStep ==
  ASSUME NEW x, Live(x, 0), MarkInv(x), LengthInv(x), x.state = "chunk_data", NEW b
  PROVE  After(ChunkData(x, b))
  <1> DEFINE y == [Mark(Checked(x, x.length \notin {0, LengthMax}), "body") EXCEPT !.length = @ - 1]
             z == Go(y, "chunk_data_almost_done")
  <1>1. /\ y \in Parser /\ Quiet(x, y) /\ y.mark = "body" /\ y.state = x.state
        /\ y.flags = x.flags /\ y.length \in 0 .. LengthMax - 2
    BY BodyByte
  <1>2. ChunkData(x, b) = IF y.length = 0 THEN z ELSE y
    BY DEF ChunkData
  <1> HIDE DEF y
  <1>3. /\ x.state \in InBody /\ "chunked" \in x.flags
        /\ "chunk_data_almost_done" \in InBody /\ "chunk_data_almost_done" \in States
    BY BodyMarks DEF LengthInv, InBody, ChunkStates
  <1>4. ASSUME y.length # 0 PROVE After(y)
    <2>1. MarkInv(y)
      BY <1>1, <1>3, BodyMarks DEF MarkInv
    <2>2. LengthInv(y)
      BY <1>1, <1>3, <1>4, ParserConstants DEF LengthInv
    <2>3. Carried(x, y) /\ y.nread = x.nread
      BY <1>1 DEF Quiet, Carried
    <2> QED  BY <1>1, <1>3, <2>1, <2>2, <2>3, BodyMoves DEF None
  <1>5. ASSUME y.length = 0 PROVE After(z)
    <2>1. /\ z \in Parser /\ Quiet(y, z) /\ z.mark = y.mark /\ z.state = "chunk_data_almost_done"
          /\ z.flags = y.flags /\ z.length = y.length
      BY <1>1, <1>3, Scanned
    <2> HIDE DEF z
    <2>2. MarkInv(z)
      BY <1>1, <1>3, <2>1, BodyMarks DEF MarkInv
    <2>3. LengthInv(z)
      BY <1>1, <1>3, <1>5, <2>1 DEF LengthInv
    <2>4. Carried(x, z) /\ z.nread = x.nread
      BY <1>1, <2>1 DEF Quiet, Carried
    <2> QED  BY <1>1, <1>3, <2>1, <2>2, <2>3, <2>4, BodyMoves DEF None
  <1> QED  BY <1>2, <1>4, <1>5

LEMMA ChunkDataAlmostDoneStep ==
  ASSUME NEW x, Live(x, 0), MarkInv(x), LengthInv(x), x.state = "chunk_data_almost_done", NEW b
  PROVE  After(ChunkDataAlmostDone(x, b))
  <1>1. /\ x \in Parser /\ x.sound /\ x.state \in InBody /\ "chunked" \in x.flags /\ x.length = 0
        /\ "chunk_data_done" \in InBody /\ "chunk_data_done" \in States
    BY BodyMarks DEF Live, ParserSafe, LengthInv, InBody, ChunkStates
  <1>2. After(Fail(x))
    BY LiveFails
  <1>3. Checked(x, x.length = 0) = x
    BY <1>1, CheckedHolds
  <1> DEFINE w == Go(x, "chunk_data_done")
             y == CallbackData(w, "body")
  <1>4. /\ w \in Parser /\ Quiet(x, w) /\ w.mark = x.mark /\ w.piece = x.piece
        /\ w.state = "chunk_data_done" /\ w.flags = x.flags
    BY <1>1, Scanned
  <1> HIDE DEF w
  <1>5. Live(w, 0) /\ w.mark \in {None, "body"}
    <2>1. Onward(x, w.state) /\ Opened(x, w) /\ (w.mark = None => w.piece = <<>>)
      BY <1>1, <1>4 DEF Onward, Opened, Live, ParserSafe
    <2> QED  BY <1>1, <1>4, <2>1, QuietMove, BodyMarks DEF MarkInv
  <1>6. /\ Live(y, 0) /\ y.mark = None /\ y.state = w.state /\ y.flags = w.flags
    BY <1>1, <1>4, <1>5, BodyGoesOn
  <1> HIDE DEF y
  <1>7. Fits(y)
    <2>1. MarkInv(y) /\ LengthInv(y)
      BY <1>1, <1>4, <1>6, BodyMarks DEF MarkInv, LengthInv
    <2>2. WordInv(y)
      BY <1>1, <1>4, <1>6, Regions DEF WordInv
    <2> QED  BY <1>4, <1>6, <2>1, <2>2 DEF Fits
  <1>8. After(y)
    BY <1>6, <1>7 DEF After, Slack, TextMarks, None
  <1> QED  BY <1>2, <1>3, <1>8 DEF ChunkDataAlmostDone, y, w

LEMMA ChunkDataDoneStep ==
  ASSUME NEW x, Live(x, 0), LengthInv(x), x.state = "chunk_data_done", x.mark = None, NEW b
  PROVE  After(ChunkDataDone(x, b))
  <1>1. /\ x \in Parser /\ x.state \in InBody /\ "chunked" \in x.flags
        /\ "chunk_size_start" \in InBody /\ "chunk_size_start" \in States
    BY BodyMarks DEF Live, ParserSafe, LengthInv, InBody, ChunkStates
  <1>2. After(Fail(x))
    BY LiveFails
  <1> DEFINE y == [x EXCEPT !.nread = 0, !.state = "chunk_size_start"]
  <1>3. y \in Parser
    BY <1>1 DEF Parser
  <1>4. /\ Carried(x, y) /\ y.nread = 0 /\ y.mark = x.mark /\ y.piece = x.piece
        /\ y.state = "chunk_size_start" /\ y.flags = x.flags
    BY <1>1 DEF Parser, Carried
  <1> HIDE DEF y
  <1>5. LengthInv(y)
    BY <1>1, <1>4 DEF LengthInv
  <1>6. After(y)
    BY <1>1, <1>3, <1>4, <1>5, BodyGo
  <1> QED  BY <1>2, <1>6 DEF ChunkDataDone, y

-----------------------------------------------------------------------------
(* One byte *)

\* The states with a step of their own.
Named == {"dead", "start_req", "req_method", "req_spaces_before_url", "req_http_start",
          "req_http_major", "req_http_minor", "req_http_end", "header_field_start",
          "header_field", "header_value_discard_ws", "header_value_discard_lws",
          "header_value", "header_value_lws", "header_almost_done", "headers_almost_done",
          "body_identity", "chunk_size_start", "chunk_size", "chunk_parameters",
          "chunk_size_almost_done", "chunk_data", "chunk_data_almost_done",
          "chunk_data_done"}

LEMMA StateCover ==
  /\ States = Named \cup UrlStates \cup DOMAIN Literal
  /\ Named \cap UrlStates = {} /\ Named \cap DOMAIN Literal = {}
  /\ UrlStates \cap DOMAIN Literal = {}
  <1>1. Named \cap UrlStates = {}
    BY DEF Named, UrlStates, SchemaStates, ServerStates, QueryStates, FragmentStates
  <1>2. Named \cap DOMAIN Literal = {}
    BY DEF Named, Literal
  <1>3. BodyStates \ {"message_done"}
          = {"body_identity", "chunk_data", "chunk_data_almost_done", "chunk_data_done"}
    BY DEF BodyStates
  <1>4. States = Named \cup UrlStates \cup DOMAIN Literal
    <2> DEFINE u == UrlStates
               l == DOMAIN Literal
    <2> HIDE DEF u, l
    <2>1. States = {"body_identity", "chunk_data", "chunk_data_almost_done", "chunk_data_done"}
                   \cup u \cup l \cup
      {"dead", "start_req", "req_method", "req_spaces_before_url", "req_http_start",
       "req_http_major", "req_http_minor", "req_http_end", "header_field_start",
       "header_field", "header_value_discard_ws", "header_value_discard_lws",
       "header_value", "header_value_lws", "header_almost_done", "headers_almost_done",
       "chunk_size_start", "chunk_size", "chunk_parameters", "chunk_size_almost_done"}
      BY <1>3 DEF States, u, l
    <2>2. States = Named \cup u \cup l
      BY <2>1 DEF Named
    <2> QED  BY <2>2 DEF u, l
  <1> QED  BY <1>1, <1>2, <1>4, UrlRegion

\* The step of http_parser_execute in each state.
LEMMA StepIs ==
  ASSUME NEW x, NEW b
  PROVE  /\ x.state \in UrlStates => Step(x, b) = ReqUrl(x, b)
         /\ x.state \in DOMAIN Literal => Step(x, b) = ExpectLiteral(x, b)
         /\ x.state \in Named =>
              /\ x.state = "dead" => Step(x, b) = IF b \in Ends THEN x ELSE Fail(x)
              /\ x.state = "start_req" => Step(x, b) = StartReq(x, b)
              /\ x.state = "req_method" => Step(x, b) = ReqMethod(x, b)
              /\ x.state = "req_spaces_before_url" => Step(x, b) = ReqSpacesBeforeUrl(x, b)
              /\ x.state = "req_http_start" => Step(x, b) = ReqHttpStart(x, b)
              /\ x.state = "req_http_major" => Step(x, b) = ReqHttpMajor(x, b)
              /\ x.state = "req_http_minor" => Step(x, b) = ReqHttpMinor(x, b)
              /\ x.state = "req_http_end" => Step(x, b) = ReqHttpEnd(x, b)
              /\ x.state = "header_field_start" => Step(x, b) = HeaderFieldStart(x, b)
              /\ x.state = "header_field" => Step(x, b) = HeaderField(x, b)
              /\ x.state = "header_value_discard_ws" => Step(x, b) = HeaderValueDiscardWs(x, b)
              /\ x.state = "header_value_discard_lws" => Step(x, b) = HeaderValueDiscardLws(x, b)
              /\ x.state = "header_value" => Step(x, b) = HeaderValue(x, b)
              /\ x.state = "header_value_lws" => Step(x, b) = HeaderValueLws(x, b)
              /\ x.state = "header_almost_done" => Step(x, b) = HeaderAlmostDone(x, b)
              /\ x.state = "headers_almost_done" => Step(x, b) = HeadersAlmostDone(x, b)
              /\ x.state = "body_identity" => Step(x, b) = BodyIdentity(x, b)
              /\ x.state = "chunk_size_start" => Step(x, b) = ChunkSizeStart(x, b)
              /\ x.state = "chunk_size" => Step(x, b) = ChunkSize(x, b)
              /\ x.state = "chunk_parameters" => Step(x, b) = ChunkParameters(x, b)
              /\ x.state = "chunk_size_almost_done" => Step(x, b) = ChunkSizeAlmostDone(x, b)
              /\ x.state = "chunk_data" => Step(x, b) = ChunkData(x, b)
              /\ x.state = "chunk_data_almost_done" => Step(x, b) = ChunkDataAlmostDone(x, b)
              /\ x.state = "chunk_data_done" => Step(x, b) = ChunkDataDone(x, b)
  <1>1. ASSUME x.state \in UrlStates PROVE Step(x, b) = ReqUrl(x, b)
    <2>1. x.state \notin DOMAIN Literal /\ x.state \notin Named
      BY <1>1, StateCover
    <2> QED  BY <1>1, <2>1 DEF Step, Named
  <1>2. ASSUME x.state \in DOMAIN Literal PROVE Step(x, b) = ExpectLiteral(x, b)
    <2>1. x.state \notin UrlStates /\ x.state \notin Named
      BY <1>2, StateCover
    <2> QED  BY <1>2, <2>1 DEF Step, Named
  <1>3. x.state \in Named => x.state \notin UrlStates /\ x.state \notin DOMAIN Literal
    BY StateCover
  <1> QED  BY <1>1, <1>2, <1>3 DEF Step

\* A parser that a byte has just been counted for.
Before(x) ==
  /\ Live(x, IF x.state \in BodyStates THEN 0 ELSE 1)
  /\ MarkInv(x) /\ LengthInv(x) /\ WordInv(x) /\ NameBegun(x) /\ ~x.stopped
  /\ x.state = "chunk_size_start" => x.nread = 1

LEMMA StepGoes ==
  ASSUME NEW x, Before(x), NEW b \in Bytes
  PROVE  After(Step(x, b))
  <1>1. /\ x \in Parser /\ x.state \in States /\ ~x.stopped
        /\ MarkInv(x) /\ LengthInv(x) /\ WordInv(x) /\ NameBegun(x)
    BY DEF Before, Live, ParserSafe, Parser
  <1>2. CASE x.state \in UrlStates
    <2>1. x.state \notin BodyStates
      BY <1>2 DEF UrlStates, SchemaStates, ServerStates, QueryStates, FragmentStates, BodyStates
    <2>2. After(ReqUrl(x, b))
      BY <1>1, <1>2, <2>1, ReqUrlStep DEF Before
    <2> QED  BY <1>2, <2>2, StepIs
  <1>3. CASE x.state \in DOMAIN Literal
    <2>1. x.state \notin BodyStates
      BY <1>3 DEF Literal, BodyStates
    <2>2. x.mark = None
      BY <1>1, <1>3, LiteralMoves DEF MarkInv
    <2>3. After(ExpectLiteral(x, b))
      BY <1>3, <2>1, <2>2, ExpectLiteralStep DEF Before
    <2> QED  BY <1>3, <2>3, StepIs
  <1>4. CASE x.state \in Named
    <2>1. Live(x, IF x.state \in BodyStates THEN 0 ELSE 1)
      BY DEF Before
    <2>2. x.state \notin {"header_field", "header_value", "body_identity", "chunk_data",
                          "chunk_data_almost_done"} => x.mark = None
      BY <1>1, <1>4, StateCover DEF MarkInv, MarksAt
    <2>3. CASE x.state \in {"dead", "start_req"}
      <3>1. Live(x, 1) /\ x.mark = None
        BY <2>1, <2>2, <2>3 DEF BodyStates
      <3>2. x.state = "dead" => After(IF b \in Ends THEN x ELSE Fail(x))
        BY <3>1, DeadStep
      <3>3. x.state = "start_req" => After(StartReq(x, b))
        BY <3>1, StartReqStep
      <3> QED  BY <1>4, <2>3, <3>2, <3>3, StepIs
    <2>4. CASE x.state \in {"req_method", "req_http_start", "req_http_major", "req_http_minor",
                            "req_http_end", "req_spaces_before_url"}
      <3>1. Live(x, 1) /\ x.mark = None
        BY <2>1, <2>2, <2>4 DEF BodyStates
      <3>2. x.state = "req_spaces_before_url" => After(ReqSpacesBeforeUrl(x, b))
        BY <3>1, ReqSpacesStep
      <3>3. x.state \in LineStates
        BY <2>4 DEF LineStates
      <3> QED  BY <1>4, <2>4, <3>1, <3>2, <3>3, LineStep, StepIs
    <2>5. CASE x.state \in {"header_field_start", "header_field", "header_value",
                            "headers_almost_done"}
      <3>1. Live(x, 1)
        BY <2>1, <2>5 DEF BodyStates
      <3>2. x.state = "header_field_start" => After(HeaderFieldStart(x, b))
        BY <1>1, <2>2, <3>1, HeaderFieldStartStep
      <3>3. x.state = "header_field" => After(HeaderField(x, b))
        BY <1>1, <3>1, HeaderFieldStep
      <3>4. x.state = "header_value" => After(HeaderValue(x, b))
        BY <1>1, <3>1, HeaderValueStep
      <3>5. x.state = "headers_almost_done" => After(HeadersAlmostDone(x, b))
        BY <1>1, <2>2, <3>1, HeadersAlmostEnd
      <3> QED  BY <1>4, <2>5, <3>2, <3>3, <3>4, <3>5, StepIs
    <2>6. CASE x.state \in {"header_value_discard_ws", "header_value_discard_lws",
                            "header_almost_done", "header_value_lws"}
      <3>1. Live(x, 1) /\ x.mark = None
        BY <2>1, <2>2, <2>6 DEF BodyStates
      <3>2. x.state = "header_value_discard_ws" => After(HeaderValueDiscardWs(x, b))
        BY <1>1, <3>1, DiscardWsStep
      <3>3. x.state = "header_value_discard_lws" => After(HeaderValueDiscardLws(x, b))
        BY <1>1, <3>1, DiscardLwsStep
      <3>4. x.state = "header_almost_done" => After(HeaderAlmostDone(x, b))
        BY <1>1, <3>1, HeaderAlmostDoneStep
      <3>5. x.state = "header_value_lws" => After(HeaderValueLws(x, b))
        BY <1>1, <3>1, HeaderValueLwsStep
      <3> QED  BY <1>4, <2>6, <3>2, <3>3, <3>4, <3>5, StepIs
    <2>7. CASE x.state \in {"body_identity", "chunk_data", "chunk_data_almost_done",
                            "chunk_data_done"}
      <3>1. Live(x, 0)
        BY <2>1, <2>7 DEF BodyStates
      <3>2. x.state = "body_identity" => After(BodyIdentity(x, b))
        BY <1>1, <3>1, BodyIdentityStep
      <3>3. x.state = "chunk_data" => After(ChunkData(x, b))
        BY <1>1, <3>1, ChunkDataStep
      <3>4. x.state = "chunk_data_almost_done" => After(ChunkDataAlmostDone(x, b))
        BY <1>1, <3>1, ChunkDataAlmostDoneStep
      <3>5. x.state = "chunk_data_done" => After(ChunkDataDone(x, b))
        BY <1>1, <2>2, <3>1, ChunkDataDoneStep
      <3> QED  BY <1>4, <2>7, <3>2, <3>3, <3>4, <3>5, StepIs
    <2>8. CASE x.state \in {"chunk_size_start", "chunk_size", "chunk_parameters",
                            "chunk_size_almost_done"}
      <3>1. Live(x, 1) /\ x.mark = None
        BY <2>1, <2>2, <2>8 DEF BodyStates
      <3>2. x.state = "chunk_size_start" => After(ChunkSizeStart(x, b))
        BY <1>1, <3>1, ChunkSizeStartStep DEF Before
      <3>3. x.state = "chunk_size" => After(ChunkSize(x, b))
        BY <1>1, <3>1, ChunkSizeStep
      <3>4. x.state = "chunk_parameters" => After(ChunkParameters(x, b))
        BY <1>1, <3>1, ChunkParametersStep
      <3>5. x.state = "chunk_size_almost_done" => After(ChunkSizeAlmostDone(x, b))
        BY <1>1, <3>1, ChunkSizeAlmostDoneStep
      <3> QED  BY <1>4, <2>8, <3>2, <3>3, <3>4, <3>5, StepIs
    <2> QED  BY <1>4, <2>3, <2>4, <2>5, <2>6, <2>7, <2>8 DEF Named
  <1> QED  BY <1>1, <1>2, <1>3, <1>4, StateCover

\* A parser between two bytes of a call.
Between(x) == Live(x, 0) /\ ParserGoes(x) /\ MarkInv(x)

LEMMA CountGoes ==
  ASSUME NEW x, Between(x), ~x.stopped
  PROVE  LET y == CountHeaderSize(x)
         IN  Lost(y) \/ (Before(y) /\ ~y.failed)
  <1>1. /\ x \in Parser /\ x.nread \in Nat /\ ~x.failed /\ x.nread <= MaxHeaderSize
        /\ Live(x, 0) /\ HeldInv(x, x.nread - 0)
    BY Lengths DEF Between, Live, ParserSafe
  <1>2. CASE x.state \in BodyStates
    <2>1. x.state # "chunk_size_start"
      BY <1>2 DEF BodyStates
    <2> QED  BY <1>1, <1>2, <2>1 DEF CountHeaderSize, Before, Between, ParserGoes
  <1>3. CASE x.state \notin BodyStates
    <2> DEFINE y == [x EXCEPT !.nread = @ + 1]
    <2>1. CountHeaderSize(x) = IF y.nread > MaxHeaderSize THEN Fail(y) ELSE y
      BY <1>3 DEF CountHeaderSize
    <2>2. y \in Parser
      <3>1. x.nread + 1 \in Nat
        BY <1>1
      <3> QED  BY <1>1, <3>1 DEF Parser
    <2>3. /\ y.state = x.state /\ y.flags = x.flags /\ y.length = x.length /\ SameWord(x, y)
          /\ y.nread = x.nread + 1 /\ y.mark = x.mark /\ y.piece = x.piece /\ y.url = x.url
          /\ y.headers = x.headers /\ y.trailers = x.trailers /\ y.curHdr = x.curHdr
          /\ y.heard = x.heard
      BY <1>1 DEF Parser, SameWord
    <2>4. /\ y.hdrVal = x.hdrVal /\ y.trailing = x.trailing /\ y.upgrade = x.upgrade
          /\ y.failed = x.failed /\ y.stopped = x.stopped /\ y.sound = x.sound
      BY <1>1 DEF Parser
    <2> HIDE DEF y
    <2>5. ParserSafe(y) /\ ~Errored(y)
      BY <1>1, <2>2, <2>3, <2>4, ParserConstants DEF Live, ParserSafe, Errored
    <2>6. Lost(Fail(y))
      BY <2>5, FailIsLost
    <2>7. ASSUME ~(y.nread > MaxHeaderSize) PROVE Before(y) /\ ~y.failed
      <3>1. y.nread - 1 = x.nread /\ x.nread - 0 = x.nread /\ y.nread <= MaxHeaderSize
        BY <1>1, <2>3, <2>7, ParserConstants
      <3>2. HeldInv(y, y.nread - 1)
        BY <1>1, <2>3, <2>4, <3>1 DEF HeldInv, Pending
      <3>3. StageInv(y) /\ NamesInv(y)
        BY <1>1, <2>3, <2>4 DEF Live, StageInv, NamesInv, Turn, Lines
      <3>4. MarkInv(y) /\ LengthInv(y) /\ WordInv(y) /\ NameBegun(y)
        BY <2>3, <2>4 DEF Between, ParserGoes, MarkInv, LengthInv, WordInv, NameBegun, SameWord
      <3>5. y.state = "chunk_size_start" => y.nread = 1
        BY <2>3 DEF Between, ParserGoes
      <3> QED  BY <1>1, <1>3, <2>3, <2>4, <2>5, <3>1, <3>2, <3>3, <3>4, <3>5 DEF Before, Live
    <2> QED  BY <2>1, <2>6, <2>7
  <1> QED  BY <1>2, <1>3

LEMMA KeepGoes ==
  ASSUME NEW x, After(x), NEW b \in Bytes
  PROVE  LET y == Keep(x, b) IN Lost(y) \/ Between(y)
  <1>1. CASE Lost(x)
    BY <1>1 DEF Lost, Keep
  <1>2. CASE Live(x, Slack(x)) /\ Fits(x)
    <2>1. /\ x \in Parser /\ ~x.failed /\ x.nread \in Nat /\ Len(x.piece) \in Nat
          /\ MarkInv(x) /\ LengthInv(x) /\ WordInv(x) /\ NamesInv(x) /\ StageInv(x)
          /\ (x.state = "chunk_size_start" => x.nread = 0)
      BY <1>2, Lengths DEF Live, ParserSafe, Fits
    <2>2. CASE x.mark = None
      <3>1. NameBegun(x)
        BY <2>1, <2>2, HeaderMarks DEF NameBegun, MarkInv, None
      <3>2. Slack(x) = 0
        BY <2>2 DEF Slack, TextMarks, None
      <3> QED  BY <1>2, <2>1, <2>2, <3>1, <3>2 DEF Between, ParserGoes, Keep
    <2>3. CASE x.mark # None
      <3> DEFINE y == [x EXCEPT !.piece = Append(@, b)]
      <3>1. Keep(x, b) = y
        BY <2>1, <2>3 DEF Keep
      <3>2. Append(x.piece, b) \in Text /\ Append(x.piece, b) # <<>>
            /\ Len(Append(x.piece, b)) = Len(x.piece) + 1
        <4>1. x.piece \in Seq(Bytes)
          BY <2>1 DEF Parser, Text
        <4> HIDE DEF y
        <4> QED  BY <4>1 DEF Text
      <3>3. y \in Parser
        BY <2>1, <3>2 DEF Parser
      <3>4. /\ y.state = x.state /\ y.flags = x.flags /\ y.length = x.length /\ SameWord(x, y)
            /\ y.nread = x.nread /\ y.mark = x.mark /\ y.piece = Append(x.piece, b)
            /\ y.url = x.url /\ y.headers = x.headers /\ y.trailers = x.trailers
            /\ y.curHdr = x.curHdr /\ y.heard = x.heard
        BY <2>1 DEF Parser, SameWord
      <3>5. /\ y.hdrVal = x.hdrVal /\ y.trailing = x.trailing /\ y.upgrade = x.upgrade
            /\ y.failed = x.failed /\ y.stopped = x.stopped /\ y.sound = x.sound
        BY <2>1 DEF Parser
      <3> HIDE DEF y
      <3>6. ParserSafe(y) /\ ~Errored(y) /\ ~y.failed /\ y.nread <= MaxHeaderSize
        BY <1>2, <2>3, <3>3, <3>4, <3>5 DEF Live, ParserSafe, Errored
      <3>7. StageInv(y) /\ NamesInv(y)
        BY <2>1, <3>4, <3>5 DEF StageInv, NamesInv, Turn, Lines
      <3>8. MarkInv(y) /\ LengthInv(y) /\ WordInv(y) /\ NameBegun(y)
        BY <2>1, <3>2, <3>4 DEF MarkInv, LengthInv, WordInv, NameBegun, SameWord
      <3>9. HeldInv(y, y.nread - 0)
        <4> DEFINE u == Len(x.url)
                   h == Size(x.headers)
                   t == Size(x.trailers)
                   l == Len(x.curHdr)
                   a == Pending(x)
                   s == Slack(x)
        <4>1. Pending(y) = a + s
          BY <2>1, <3>2, <3>4 DEF Pending, Slack, TextMarks
        <4>2. /\ u \in Nat /\ h \in Nat /\ t \in Nat /\ l \in Nat /\ a \in Nat /\ s \in {0, 1}
              /\ x.nread \in Nat
          BY <2>1, Lengths DEF Slack
        <4>3. HeldInv(x, x.nread - s)
          BY <1>2 DEF Live
        <4>4. IF x.trailing THEN u + h <= MaxHeaderSize /\ t + l + a <= x.nread - s
              ELSE u + h + l + a <= x.nread - s
          BY <4>3 DEF HeldInv
        <4> HIDE DEF u, h, t, l, a, s
        <4>5. IF x.trailing THEN u + h <= MaxHeaderSize /\ t + l + (a + s) <= x.nread - 0
              ELSE u + h + l + (a + s) <= x.nread - 0
          BY <4>2, <4>4
        <4> QED  BY <3>4, <3>5, <4>1, <4>5 DEF HeldInv, u, h, t, l
      <3> QED  BY <2>1, <3>1, <3>4, <3>6, <3>7, <3>8, <3>9 DEF Between, Live, ParserGoes
    <2> QED  BY <2>2, <2>3
  <1> QED  BY <1>1, <1>2 DEF After

LEMMA ByteGoes ==
  ASSUME NEW x, Between(x), ~x.stopped, NEW b \in Bytes
  PROVE  LET y == Byte(x, b) IN Lost(y) \/ Between(y)
  <1> DEFINE c == CountHeaderSize(x)
  <1>1. Lost(c) \/ (Before(c) /\ ~c.failed)
    BY CountGoes
  <1> HIDE DEF c
  <1>2. After(Counted(c, b))
    BY <1>1, StepGoes DEF Counted, Lost, After
  <1> QED  BY <1>2, KeepGoes DEF Byte, c

-----------------------------------------------------------------------------
(* A call, from its beginning to its return *)

\* A parser between two calls.
Waiting(x) == Live(x, 0) /\ ParserGoes(x) /\ x.mark = None

LEMMA BegunGoes ==
  ASSUME NEW p0, Waiting(p0)
  PROVE  Between(Begun(p0))
  <1> DEFINE x == [p0 EXCEPT !.stopped = FALSE]
  <1>1. p0 \in Parser /\ p0.mark = None /\ p0.piece = <<>> /\ ParserGoes(p0) /\ Live(p0, 0)
    BY DEF Waiting, Live, ParserSafe
  <1>2. x \in Parser
    BY <1>1 DEF Parser
  <1>3. /\ x.state = p0.state /\ x.flags = p0.flags /\ x.length = p0.length /\ SameWord(p0, x)
        /\ x.nread = p0.nread /\ x.mark = p0.mark /\ x.piece = p0.piece
        /\ x.url = p0.url /\ x.headers = p0.headers /\ x.trailers = p0.trailers
        /\ x.curHdr = p0.curHdr /\ x.heard = p0.heard
    BY <1>1 DEF Parser, SameWord
  <1>4. /\ x.hdrVal = p0.hdrVal /\ x.trailing = p0.trailing /\ x.upgrade = p0.upgrade
        /\ x.failed = p0.failed /\ ~x.stopped /\ x.sound = p0.sound
    BY <1>1 DEF Parser
  <1> HIDE DEF x
  <1>5. Live(x, 0)
    <2>1. ParserSafe(x) /\ ~Errored(x) /\ ~x.failed /\ x.nread <= MaxHeaderSize
      BY <1>1, <1>2, <1>3, <1>4 DEF Live, ParserSafe, Errored
    <2>2. StageInv(x) /\ NamesInv(x)
      BY <1>1, <1>3, <1>4 DEF Live, StageInv, NamesInv, Turn, Lines
    <2>3. HeldInv(x, x.nread - 0)
      BY <1>1, <1>3, <1>4 DEF Live, HeldInv, Pending
    <2> QED  BY <2>1, <2>2, <2>3 DEF Live
  <1>6. LengthInv(x) /\ WordInv(x) /\ NameBegun(x) /\ (x.state = "chunk_size_start" => x.nread = 0)
    BY <1>1, <1>3, <1>4 DEF ParserGoes, LengthInv, WordInv, NameBegun, SameWord
  <1>7. ASSUME NEW m \in TextMarks, MarksAt(x.state) = {m} PROVE Between(Mark(x, m))
    <2> DEFINE y == Mark(x, m)
    <2>1. /\ y \in Parser /\ Quiet(x, y) /\ Opened(x, y) /\ y.mark = m
          /\ y.state = x.state /\ y.flags = x.flags /\ y.length = x.length
          /\ y.hdr = x.hdr /\ y.phase = x.phase /\ y.word = x.word
          /\ y.piece = <<>>
      BY <1>1, <1>2, <1>3, <1>5, Marked DEF Live, ParserSafe
    <2> HIDE DEF y
    <2>2. Onward(x, y.state) /\ (y.mark = None => y.piece = <<>>)
      BY <2>1 DEF Onward
    <2>3. Live(y, 0)
      BY <1>5, <2>1, <2>2, QuietMove
    <2>4. LengthInv(y) /\ WordInv(y) /\ (y.state = "chunk_size_start" => y.nread = 0)
      BY <1>6, <2>1 DEF LengthInv, WordInv, Quiet
    <2>5. NameBegun(y)
      BY <1>1, <1>3, <1>6, <2>1 DEF NameBegun, Quiet
    <2>6. MarkInv(y)
      BY <1>7, <2>1 DEF MarkInv
    <2> QED  BY <2>3, <2>4, <2>5, <2>6 DEF Between, ParserGoes, Live, y
  <1>8. CASE x.state \in UrlStates
    <2>1. MarksAt(x.state) = {"url"} /\ x.state \notin {"header_field", "header_value"}
      BY <1>8, LineRegion, Regions
    <2>2. MarkAtStart(x) = Mark(x, "url")
      BY <1>8, <2>1 DEF MarkAtStart
    <2> QED  BY <1>7, <2>1, <2>2 DEF Begun, TextMarks, x
  <1>9. CASE x.state \in {"header_field", "header_value"}
    <2>1. MarksAt(x.state) = {x.state} /\ x.state \notin UrlStates /\ x.state \in TextMarks
      BY <1>9, HeaderMarks, Regions DEF TextMarks
    <2>2. MarkAtStart(x) = Mark(x, x.state)
      BY <1>9, <2>1 DEF MarkAtStart
    <2>3. Between(Mark(x, x.state))
      BY <1>7, <2>1
    <2> QED  BY <2>2, <2>3 DEF Begun, x
  <1>10. CASE x.state \notin UrlStates \cup {"header_field", "header_value"}
    <2>1. MarkAtStart(x) = x
      BY <1>10 DEF MarkAtStart
    <2>2. MarkInv(x)
      BY <1>1, <1>3, <1>10 DEF MarkInv, MarksAt
    <2> QED  BY <1>5, <1>6, <2>1, <2>2 DEF Between, ParserGoes, Live, Begun, x
  <1> QED  BY <1>8, <1>9, <1>10

LEMMA FlushGoes ==
  ASSUME NEW x, Between(x)
  PROVE  LET y == CallbackData(x, x.mark) IN Waiting(y)
  <1>1. /\ x \in Parser /\ Live(x, 0) /\ MarkInv(x) /\ LengthInv(x) /\ WordInv(x) /\ NameBegun(x)
        /\ (x.state = "chunk_size_start" => x.nread = 0)
    BY DEF Between, ParserGoes, Live, ParserSafe
  <1> DEFINE y == CallbackData(x, x.mark)
  <1>2. ASSUME Live(y, 0), y.mark = None, y.state = x.state, y.flags = x.flags,
               y.length = x.length, WordInv(y), NameBegun(y), y.state # "chunk_size_start"
        PROVE  Waiting(y)
    <2>1. LengthInv(y)
      BY <1>1, <1>2 DEF LengthInv
    <2> QED  BY <1>2, <2>1 DEF Waiting, ParserGoes, Live
  <1>3. CASE x.mark = None
    BY <1>1, <1>3 DEF CallbackData, Waiting, Between
  <1>4. CASE x.mark = "url"
    <2>1. x.state \in UrlStates
      <3>1. "url" \notin {None, "body"} /\ "url" \notin {None}
        BY DEF None
      <3> QED  BY <1>1, <1>4, <3>1 DEF MarkInv, MarksAt
    <2>2. /\ ~x.trailing /\ x.state \in InLine /\ x.state \notin InFields \cup InBody
      BY <1>1, <2>1, LineRegion, Regions DEF Live, StageInv
    <2>3. /\ x.state \notin {"header_value", "header_field"} \cup AfterValue
          /\ x.state # "chunk_size_start"
      BY <2>2, Regions DEF ChunkStates
    <2>4. /\ Live(y, 0) /\ y.mark = None /\ y.state = x.state
          /\ y.flags = x.flags /\ y.length = x.length
      BY <1>1, <1>4, <2>2, UrlHanded
    <2> HIDE DEF y
    <2>5. WordInv(y) /\ NameBegun(y)
      BY <2>3, <2>4 DEF WordInv, NameBegun
    <2> QED  BY <1>2, <2>3, <2>4, <2>5 DEF y
  <1>5. CASE x.mark = "header_field"
    <2>1. x.state = "header_field"
      <3>1. "header_field" \notin {None, "body"} /\ "header_field" \notin {None}
        BY DEF None
      <3> QED  BY <1>1, <1>5, <3>1 DEF MarkInv, MarksAt
    <2>2. Quiet(x, x) /\ x.state \in BeforeValue \cup {"header_field"}
      BY <2>1 DEF Quiet
    <2>3. /\ Live(y, 0) /\ y.mark = None /\ y.state = x.state /\ ~y.hdrVal
          /\ y.flags = x.flags /\ y.length = x.length
      BY <1>1, <1>5, <2>1, <2>2, NameDone
    <2> HIDE DEF y
    <2>4. WordInv(y) /\ NameBegun(y)
      BY <2>1, <2>3, Regions DEF WordInv, NameBegun
    <2> QED  BY <1>2, <2>1, <2>3, <2>4 DEF y
  <1>6. CASE x.mark = "header_value"
    <2>1. x.state = "header_value"
      <3>1. "header_value" \notin {None, "body"} /\ "header_value" \notin {None}
        BY DEF None
      <3> QED  BY <1>1, <1>6, <3>1 DEF MarkInv, MarksAt
    <2>2. Quiet(x, x) /\ Opened(x, x) /\ x.state \in BeforeValue \cup {"header_value"}
          /\ x.state \in AfterValue \cup {"header_field_start", "header_value"}
      BY <2>1 DEF Quiet, Opened
    <2>3. /\ Live(y, 0) /\ y.mark = None /\ y.state = x.state
          /\ y.flags = x.flags /\ y.length = x.length /\ SameWord(x, y)
      BY <1>1, <1>6, <2>2, ValueDone
    <2> HIDE DEF y
    <2>4. WordInv(y) /\ NameBegun(y)
      BY <1>1, <2>1, <2>3 DEF WordInv, NameBegun, SameWord
    <2> QED  BY <1>2, <2>1, <2>3, <2>4 DEF y
  <1>7. CASE x.mark = "body"
    <2>1. x.state \in {"body_identity", "chunk_data", "chunk_data_almost_done"}
      <3>1. "body" # None
        BY DEF None
      <3> QED  BY <1>1, <1>7, <3>1 DEF MarkInv, MarksAt
    <2>2. x.state \in InBody
      BY <2>1 DEF InBody, ChunkStates
    <2>3. /\ Live(y, 0) /\ y.mark = None /\ y.state = x.state
          /\ y.flags = x.flags /\ y.length = x.length
      BY <1>1, <1>7, <2>2, BodyGoesOn
    <2> HIDE DEF y
    <2>4. WordInv(y) /\ NameBegun(y)
      BY <2>1, <2>2, <2>3, Regions DEF WordInv, NameBegun
    <2> QED  BY <1>2, <2>1, <2>3, <2>4 DEF y
  <1>8. x.mark \in {None, "url", "header_field", "header_value", "body"}
    BY <1>1 DEF Parser
  <1> QED  BY <1>3, <1>4, <1>5, <1>6, <1>7, <1>8

LEMMA MarkDropped ==
  ASSUME NEW x, ParserSafe(x)
  PROVE  LET y == [x EXCEPT !.mark = None, !.piece = <<>>]
         IN  /\ ParserSafe(y) /\ y.mark = None /\ y.failed = x.failed /\ y.upgrade = x.upgrade
             /\ y.nread = x.nread /\ (Errored(y) <=> Errored(x))
             /\ y.trailing = x.trailing /\ y.trailers = x.trailers
             /\ \A n \in Int : HeldInv(x, n) => HeldInv(y, n)
  <1> DEFINE y == [x EXCEPT !.mark = None, !.piece = <<>>]
  <1>1. x \in Parser /\ <<>> \in Text
    BY DEF ParserSafe, Text
  <1>2. y \in Parser
    BY <1>1 DEF Parser
  <1>3. /\ y.nread = x.nread /\ y.mark = None /\ y.piece = <<>>
        /\ y.url = x.url /\ y.headers = x.headers /\ y.trailers = x.trailers
        /\ y.curHdr = x.curHdr /\ y.heard = x.heard
    BY <1>1 DEF Parser
  <1>4. /\ y.trailing = x.trailing /\ y.upgrade = x.upgrade
        /\ y.failed = x.failed /\ y.stopped = x.stopped /\ y.sound = x.sound
    BY <1>1 DEF Parser
  <1> HIDE DEF y
  <1>5. ParserSafe(y) /\ (Errored(y) <=> Errored(x))
    BY <1>2, <1>3, <1>4 DEF ParserSafe, Errored
  <1>6. ASSUME NEW n \in Int, HeldInv(x, n) PROVE HeldInv(y, n)
    <2>1. Pending(y) = 0 /\ Pending(x) \in Nat
      BY <1>1, <1>3, Lengths DEF Pending, None
    <2>2. Pending(y) <= Pending(x) /\ n <= n
      BY <2>1
    <2> QED  BY <1>1, <1>2, <1>3, <1>4, <1>6, <2>2, HeldLess
  <1> QED  BY <1>3, <1>4, <1>5, <1>6 DEF y

\* Errors are the last thing that is heard.
LEMMA Reported ==
  ASSUME NEW x, ParserSafe(x)
  PROVE  LET y == ReportErrors(x)
         IN  /\ ParserSafe(y) /\ SameButHeard(x, y)
             /\ Errored(y) <=> Errored(x) \/ x.failed \/ x.upgrade
             /\ ~x.failed /\ ~x.upgrade => y = x
  <1>1. ASSUME NEW z, ParserSafe(z)
        PROVE  LET w == Emit(z, <<"error">>)
               IN  ParserSafe(w) /\ SameButHeard(z, w) /\ Errored(w)
    <2> DEFINE e == <<"error">>
    <2>1. e \in Events /\ e[1] = "error"
      BY DEF Events
    <2> HIDE DEF e
    <2>2. ParserSafe(Emit(z, e)) /\ SameButHeard(z, Emit(z, e)) /\ Errored(Emit(z, e))
      BY <1>1, <2>1, Emitted
    <2> QED  BY <2>2 DEF e
  <1>2. ASSUME NEW z, ParserSafe(z), NEW v \in BOOLEAN
        PROVE  LET w == Report(z, v)
               IN  ParserSafe(w) /\ SameButHeard(z, w) /\ (Errored(w) <=> Errored(z) \/ v)
    <2>1. CASE v
      BY <1>1, <1>2, <2>1 DEF Report
    <2>2. CASE ~v
      BY <1>2, <2>2 DEF Report, SameButHeard
    <2> QED  BY <2>1, <2>2
  <1>3. x.failed \in BOOLEAN /\ x.upgrade \in BOOLEAN
    BY DEF ParserSafe, Parser
  <1> DEFINE z == Report(x, x.failed)
             y == Report(z, x.upgrade)
  <1>4. ParserSafe(z) /\ SameButHeard(x, z) /\ (Errored(z) <=> Errored(x) \/ x.failed)
    BY <1>2, <1>3
  <1> HIDE DEF z
  <1>5. ParserSafe(y) /\ SameButHeard(z, y) /\ (Errored(y) <=> Errored(z) \/ x.upgrade)
    BY <1>2, <1>3, <1>4
  <1>6. ~x.failed /\ ~x.upgrade => y = x
    BY DEF y, z, Report
  <1> HIDE DEF y
  <1>7. SameButHeard(x, y)
    BY <1>4, <1>5 DEF SameButHeard
  <1> QED  BY <1>4, <1>5, <1>6, <1>7 DEF ReportErrors, y, z

-----------------------------------------------------------------------------
(* The connection *)

LEMMA GoesOn ==
  ASSUME IInv, ~p.failed, ~Errored(p)
  PROVE  /\ Live(p, 0) /\ ParserGoes(p)
         /\ Running => Between(p)
         /\ ~Running => Waiting(p)
  <1>1. p \in Parser /\ p.nread \in Nat
    BY Lengths DEF IInv, ParserSafe
  <1>2. p.nread - 0 = p.nread
    BY <1>1
  <1>3. Live(p, 0) /\ ParserGoes(p)
    BY <1>2 DEF IInv, Live, ParserGoes
  <1> QED  BY <1>3 DEF IInv, Between, Waiting

\* What the invariant says of the parser in a call, and between two calls.
InCall(x) == Lost(x) \/ Between(x)
LEMMA InCallHolds ==
  ASSUME InCall(p'), input' \in Inputs, fed' \in 0 .. Len(input'), upto' \in fed' .. Len(input'),
         upto' # 0, closed' \in BOOLEAN
  PROVE  IInv'
  <1>1. p' \in Parser /\ p'.nread \in Nat /\ ParserSafe(p') /\ ~Errored(p')
    BY Lengths DEF InCall, Lost, Between, Live, ParserSafe
  <1>2. p'.nread - 0 = p'.nread
    BY <1>1
  <1>3. ~p'.failed => Between(p')
    BY DEF InCall, Lost
  <1>4. ~p'.failed => /\ p'.nread <= MaxHeaderSize /\ HeldInv(p', p'.nread)
                      /\ ~p'.trailing => p'.trailers = <<>>
    BY <1>2, <1>3 DEF Between, Live, NamesInv
  <1>5. ~p'.failed => ParserGoes(p') /\ MarkInv(p')
    BY <1>3 DEF Between
  <1>6. Running'
    BY DEF Running
  <1> QED  BY <1>1, <1>4, <1>5, <1>6 DEF IInv

LEMMA InitHolds ==
  ASSUME Init
  PROVE  IInv
  <1> DEFINE x == http_parser_init
  <1>1. x \in Parser
    <2>1. <<>> \in Text /\ <<>> \in Seq(Text) /\ <<>> \in Seq(Letters) /\ <<>> \in Seq(Events)
      BY DEF Text
    <2>2. "start_req" \in States /\ {} \in SUBSET Flags /\ LengthMax \in 0 .. LengthMax
      BY ParserConstants DEF States
    <2>3. x \in Parser
      BY <2>1, <2>2 DEF Parser, http_parser_init
    <2> QED  BY <2>3
  <1>2. /\ x.state = "start_req" /\ x.nread = 0 /\ x.mark = None /\ x.piece = <<>>
        /\ x.url = <<>> /\ x.headers = <<>> /\ x.trailers = <<>> /\ x.curHdr = <<>>
        /\ x.heard = <<>>
    BY DEF http_parser_init
  <1>3. /\ x.hdrVal /\ ~x.trailing /\ ~x.upgrade /\ ~x.failed /\ ~x.stopped /\ x.sound
    BY DEF http_parser_init
  <1> HIDE DEF x
  <1>4. ParserSafe(x) /\ ~Errored(x)
    <2>1. Framed(x.heard) /\ HeadersPaired(x.heard)
      BY <1>2 DEF Framed, HeadersPaired
    <2>2. x.nread <= MaxHeaderSize + 1
      BY <1>2, ParserConstants
    <2>3. ~Errored(x)
      BY <1>2 DEF Errored
    <2> QED  BY <1>1, <1>2, <1>3, <2>1, <2>2, <2>3 DEF ParserSafe
  <1>5. x.nread <= MaxHeaderSize /\ HeldInv(x, x.nread)
    <2>1. Len(x.url) = 0 /\ Len(x.curHdr) = 0
      BY <1>2
    <2>2. Size(x.headers) = 0 /\ Pending(x) = 0
      BY <1>2, NoNames DEF Pending, None
    <2> QED  BY <1>2, <1>3, <2>1, <2>2, ParserConstants DEF HeldInv
  <1>6. ParserGoes(x)
    <2>1. /\ x.state \in Idle /\ x.state \notin InLine \cup InFields \cup InBody
          /\ x.state \notin BeforeValue \cup AfterValue \cup {"header_field_start",
               "headers_almost_done", "header_value", "header_field"} \cup ChunkStates
      BY <1>2, Regions DEF Idle
    <2>2. StageInv(x)
      BY <1>2, <2>1 DEF StageInv, Kind
    <2>3. NamesInv(x)
      BY <1>2, <2>1, NoNames DEF NamesInv
    <2>4. LengthInv(x) /\ NameBegun(x) /\ WordInv(x)
      BY <1>2, <2>1 DEF LengthInv, NameBegun, WordInv
    <2> QED  BY <1>2, <2>2, <2>3, <2>4 DEF ParserGoes
  <1>7. input \in Inputs /\ fed \in 0 .. Len(input) /\ upto = 0 /\ closed \in BOOLEAN /\ p = x
    <2>1. input \in Seq(Bytes)
      BY ParserConstants DEF Init
    <2>2. Len(input) \in Nat
      BY <2>1
    <2>3. 0 \in 0 .. Len(input) /\ FALSE \in BOOLEAN
      BY <2>2
    <2>4. p = x
      BY DEF Init, x
    <2> QED  BY <2>3, <2>4 DEF Init
  <1> QED  BY <1>2, <1>3, <1>4, <1>5, <1>6, <1>7 DEF IInv, Running

LEMMA FeedHolds ==
  ASSUME IInv, Feed
  PROVE  IInv'
  <1>1. ~p.failed /\ ~Errored(p) /\ ~Running
    BY DEF IInv, Feed, Ready
  <1>2. Between(p')
    BY <1>1, GoesOn, BegunGoes DEF Feed
  <1>3. PICK n \in FeedSizes : fed + n <= Len(input) /\ upto' = fed + n
    BY DEF Feed
  <1>4. /\ input' \in Inputs /\ fed' \in 0 .. Len(input') /\ closed' \in BOOLEAN
        /\ fed' = fed /\ input' = input
    BY DEF Feed, IInv
  <1>5. upto' \in fed' .. Len(input') /\ upto' # 0
    <2>1. n \in Nat \ {0} /\ input \in Seq(Bytes)
      BY ParserConstants DEF IInv
    <2>2. Len(input) \in Nat
      BY <2>1
    <2> QED  BY <1>3, <1>4, <2>1, <2>2 DEF IInv
  <1> QED  BY <1>2, <1>4, <1>5, InCallHolds DEF InCall

LEMMA TakeByteHolds ==
  ASSUME IInv, TakeByte
  PROVE  IInv'
  <1>1. ~p.failed /\ ~p.stopped /\ Running /\ fed < upto /\ ~Errored(p)
    BY DEF IInv, TakeByte
  <1>2. input \in Seq(Bytes) /\ Len(input) \in Nat /\ fed \in Nat /\ upto \in fed .. Len(input)
    <2>1. input \in Seq(Bytes)
      BY ParserConstants DEF IInv
    <2>2. Len(input) \in Nat
      BY <2>1
    <2> QED  BY <1>1, <2>1, <2>2 DEF IInv, Running
  <1>3. input[fed + 1] \in Bytes
    <2>1. fed + 1 \in 1 .. Len(input)
      BY <1>1, <1>2
    <2> QED  BY <1>2, <2>1
  <1>4. InCall(p')
    BY <1>1, <1>3, GoesOn, ByteGoes DEF TakeByte, InCall
  <1>5. /\ input' = input /\ upto' = upto /\ closed' = closed /\ fed' = fed + 1
    BY DEF TakeByte
  <1>6. /\ input' \in Inputs /\ fed' \in 0 .. Len(input') /\ upto' \in fed' .. Len(input')
        /\ upto' # 0 /\ closed' \in BOOLEAN
    BY <1>1, <1>2, <1>5 DEF IInv
  <1> QED  BY <1>4, <1>6, InCallHolds

LEMMA FeedReturnsHolds ==
  ASSUME IInv, FeedReturns
  PROVE  IInv'
  <1> DEFINE w == FlushMark(p)
             y == ReportErrors(w)
  <1>1. Running /\ ParserSafe(p) /\ ~Errored(p) /\ p \in Parser /\ p.nread \in Int
    BY DEF FeedReturns, IInv, ParserSafe, Parser
  <1>2. /\ input' \in Inputs /\ fed' \in 0 .. Len(input') /\ upto' = 0 /\ closed' \in BOOLEAN
        /\ p' = y
    <2>1. input \in Seq(Bytes)
      BY ParserConstants DEF IInv
    <2>2. Len(input) \in Nat
      BY <2>1
    <2> QED  BY <2>2 DEF FeedReturns, IInv
  <1>3. CASE p.failed \/ p.stopped
    <2>1. /\ ParserSafe(w) /\ w.mark = None /\ w.failed = p.failed /\ w.upgrade = p.upgrade
          /\ w.nread = p.nread /\ w.trailing = p.trailing /\ w.trailers = p.trailers
          /\ \A n \in Int : HeldInv(p, n) => HeldInv(w, n)
      BY <1>1, <1>3, MarkDropped DEF FlushMark
    <2> HIDE DEF w
    <2>2. ParserSafe(y) /\ SameButHeard(w, y) /\ (Errored(y) <=> Errored(w) \/ w.failed \/ w.upgrade)
      BY <2>1, Reported
    <2> HIDE DEF y
    <2>3. Errored(y)
      BY <1>1, <1>3, <2>1, <2>2 DEF ParserSafe
    <2>4. ~y.failed => /\ y.nread <= MaxHeaderSize /\ HeldInv(y, y.nread)
                       /\ ~y.trailing => y.trailers = <<>>
      <3>1. ~p.failed => /\ p.nread <= MaxHeaderSize /\ HeldInv(w, p.nread)
                         /\ ~p.trailing => p.trailers = <<>>
        BY <1>1, <2>1 DEF IInv
      <3> QED  BY <2>1, <2>2, <3>1 DEF SameButHeard, HeldInv, Pending
    <2>5. y.mark = None
      BY <2>1, <2>2 DEF SameButHeard
    <2> QED  BY <1>2, <2>2, <2>3, <2>4, <2>5 DEF IInv, Running
  <1>4. CASE ~p.failed /\ ~p.stopped
    <2>1. Waiting(w)
      BY <1>1, <1>4, GoesOn, FlushGoes DEF FlushMark
    <2> HIDE DEF w
    <2>2. /\ ParserSafe(w) /\ ~Errored(w) /\ ~w.failed /\ w.nread <= MaxHeaderSize
          /\ HeldInv(w, w.nread - 0) /\ ParserGoes(w) /\ w.mark = None /\ w.nread \in Nat
          /\ (~w.trailing => w.trailers = <<>>)
      BY <2>1 DEF Waiting, Live, ParserSafe, Parser, NamesInv
    <2>3. HeldInv(w, w.nread)
      <3>1. w.nread - 0 = w.nread
        BY <2>2
      <3> QED  BY <2>2, <3>1
    <2>4. /\ ParserSafe(y) /\ SameButHeard(w, y) /\ (Errored(y) <=> w.upgrade)
          /\ (~w.upgrade => y = w)
      BY <2>2, Reported
    <2> HIDE DEF y
    <2>5. ~y.failed /\ y.nread <= MaxHeaderSize /\ HeldInv(y, y.nread) /\ y.mark = None
          /\ (~y.trailing => y.trailers = <<>>)
      BY <2>2, <2>3, <2>4 DEF SameButHeard, HeldInv, Pending
    <2>6. ~Errored(y) => ParserGoes(y)
      BY <2>2, <2>4
    <2> QED  BY <1>2, <2>4, <2>5, <2>6 DEF IInv, Running
  <1> QED  BY <1>3, <1>4

LEMMA FeedEndHolds ==
  ASSUME IInv, FeedEnd
  PROVE  IInv'
  <1> DEFINE w == AtEnd(p)
             y == ReportErrors(w)
  <1>1. /\ ~p.failed /\ ~Errored(p) /\ ~Running /\ p' = y /\ p \in Parser
    BY DEF IInv, FeedEnd, Ready, ParserSafe
  <1>2. Waiting(p)
    BY <1>1, GoesOn
  <1>3. /\ input' \in Inputs /\ fed' \in 0 .. Len(input') /\ upto' = 0 /\ closed' \in BOOLEAN
    BY <1>1 DEF FeedEnd, IInv, Running
  <1>4. CASE w = p
    <2>1. /\ ParserSafe(p) /\ HeldInv(p, p.nread) /\ p.nread <= MaxHeaderSize /\ ParserGoes(p)
          /\ p.mark = None /\ (~p.trailing => p.trailers = <<>>)
      BY <1>1, <1>2 DEF IInv, Waiting
    <2>2. /\ ParserSafe(y) /\ SameButHeard(p, y) /\ (Errored(y) <=> p.upgrade)
          /\ (~p.upgrade => y = p)
      BY <1>1, <1>4, <2>1, Reported
    <2> HIDE DEF y
    <2>3. ~y.failed /\ y.nread <= MaxHeaderSize /\ HeldInv(y, y.nread) /\ y.mark = None
          /\ (~y.trailing => y.trailers = <<>>)
      BY <1>1, <2>1, <2>2 DEF SameButHeard, HeldInv, Pending
    <2>4. ~Errored(y) => ParserGoes(y)
      BY <2>1, <2>2
    <2> QED  BY <1>1, <1>3, <2>2, <2>3, <2>4 DEF IInv, Running
  <1>5. CASE w = Fail(p)
    <2>1. ParserSafe(w) /\ w.failed
      BY <1>1, <1>5, FailIsLost DEF IInv, Lost
    <2>2. w.mark = None
      BY <1>1, <1>2, <1>5 DEF Waiting, Fail, Parser
    <2> HIDE DEF w
    <2>3. ParserSafe(y) /\ SameButHeard(w, y) /\ Errored(y)
      BY <2>1, Reported
    <2>4. y.failed /\ y.mark = None
      BY <2>1, <2>2, <2>3 DEF SameButHeard
    <2> QED  BY <1>1, <1>3, <2>3, <2>4 DEF IInv, Running
  <1> QED  BY <1>4, <1>5 DEF AtEnd

\* The inductive invariant, for every input and every way to split it.
THEOREM ParserInvariant == Spec => []IInv
  <1>1. IInv /\ UNCHANGED vars => IInv'
    BY DEF vars, IInv, Running
  <1>2. IInv /\ [Next]_vars => IInv'
    BY <1>1, FeedHolds, TakeByteHolds, FeedReturnsHolds, FeedEndHolds DEF Next
  <1>3. Init => IInv
    BY InitHolds
  <1> QED  BY <1>2, <1>3, PTL DEF Spec

-----------------------------------------------------------------------------
(* The theorems *)

\* Whatever bytes a connection carries and however they are split, the numbers of
\* http_parser stay in their types, no mark is left set between two calls, and no
\* assert of http_parser_execute fails.
THEOREM ParserTypesAndAsserts == Spec => []ParserInv
  <1>1. IInv => ParserInv
    BY DEF IInv, ParserInv, TypeOK, AssertsHold, ParserSafe
  <1> QED  BY <1>1, ParserInvariant, PTL

\* Whatever bytes a connection carries and however they are split, the events of
\* HTTPRequestParser are framed messages, and raw headers and trailers are pairs.
THEOREM EventsWellFormed == Spec => []WellFormed
  <1>1. IInv => WellFormed
    BY DEF IInv, WellFormed, ParserSafe
  <1> QED  BY <1>1, ParserInvariant, PTL

\* What a parser that goes on holds of the request line and the headers is at most
\* HTTP_MAX_HEADER_SIZE bytes, and so is what it holds of the trailers.
THEOREM HeldIsBounded == Spec => []HeldBounded
  <1>1. ASSUME IInv, ~p.failed
        PROVE  /\ Len(p.url) + Size(p.headers) + (IF p.trailing THEN 0 ELSE Len(p.curHdr))
                    <= MaxHeaderSize
               /\ Size(p.trailers) + (IF p.trailing THEN Len(p.curHdr) ELSE 0) <= MaxHeaderSize
    <2> DEFINE u == Len(p.url)
               h == Size(p.headers)
               t == Size(p.trailers)
               l == Len(p.curHdr)
               a == Pending(p)
               n == p.nread
    <2>1. p \in Parser /\ HeldInv(p, n) /\ n <= MaxHeaderSize /\ (~p.trailing => p.trailers = <<>>)
      BY <1>1 DEF IInv, ParserSafe
    <2>2. u \in Nat /\ h \in Nat /\ t \in Nat /\ l \in Nat /\ a \in Nat /\ n \in Nat
      BY <2>1, Lengths
    <2>3. IF p.trailing THEN u + h <= MaxHeaderSize /\ t + l + a <= n ELSE u + h + l + a <= n
      BY <2>1 DEF HeldInv
    <2>4. ~p.trailing => t = 0
      BY <2>1, NoNames
    <2> HIDE DEF u, h, t, l, a, n
    <2>5. /\ u + h + (IF p.trailing THEN 0 ELSE l) <= MaxHeaderSize
          /\ t + (IF p.trailing THEN l ELSE 0) <= MaxHeaderSize
      BY <2>1, <2>2, <2>3, <2>4, ParserConstants DEF n
    <2> QED  BY <2>5 DEF u, h, t, l
  <1>2. IInv => HeldBounded
    BY <1>1 DEF HeldBounded
  <1> QED  BY <1>2, ParserInvariant, PTL
=============================================================================
