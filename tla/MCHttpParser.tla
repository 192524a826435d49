----------------------------- MODULE MCHttpParser -----------------------------
(* Inputs for HttpParser: well-formed requests, alone and pipelined, and the *)
(* same bytes with one of them replaced, removed or added.                   *)
EXTENDS HttpParser

MCFeedSizes == {1, 2, 5}
MCLengthMax == 63
\* Large enough for each request below after the trailers of the one before it.
MCMaxHeaderSize == 46

CRLF == <<"CR", "LF">>
SP == <<"SP">>

\* A header is its name, the bytes sent after the colon and what they mean.
Plain == <<<<"x">>, <<"a">>, <<"a">>>>
Empty == <<<<"x">>, <<"SP">>, <<>>>>
Folded == <<<<"e">>, <<"HT", "a", "CR", "LF", "SP", "x">>, <<"a", "SP", "x">>>>
Length(n) == <<<<"C", "o", "t">>, <<"SP", n>>, <<n>>>>
Chunked == <<<<"t", "e">>, <<"x", ",", "c", "h">>, <<"x", ",", "c", "h">>>>
KeepAlive == <<<<"p", "n">>, <<"k", "a">>, <<"k", "a">>>>
Close == <<<<"c", "o", "n">>, <<"x", ",", "SP", "c", "l">>,
           <<"x", ",", "SP", "c", "l">>>>

Request(method, target, version, headers, chunks, trailers, eol) ==
  [method |-> method, target |-> target, version |-> version, eol |-> eol,
   headers |-> headers, chunks |-> chunks, trailers |-> trailers]

Digit(n) == <<CHOOSE d \in Digits : DigitValue[d] = n>>
Lines(hs, eol) ==
  FlattenSeq([i \in DOMAIN hs |-> hs[i][1] \o <<":">> \o hs[i][2] \o eol])
Strings(hs) ==
  FlattenSeq([i \in DOMAIN hs |-> <<hs[i][1], hs[i][3]>>])
IsChunked(r) == \E i \in DOMAIN r.headers : r.headers[i] = Chunked

Wire(r) ==
  r.method \o SP \o r.target \o SP \o <<"H", "T", "T", "P", "/">>
  \o Digit(r.version[1]) \o <<".">> \o Digit(r.version[2]) \o r.eol
  \o Lines(r.headers, r.eol) \o r.eol
  \o IF IsChunked(r)
     THEN FlattenSeq([i \in DOMAIN r.chunks |->
                        Digit(Len(r.chunks[i])) \o CRLF \o r.chunks[i] \o CRLF])
          \o <<"0">> \o CRLF \o Lines(r.trailers, r.eol) \o r.eol
     ELSE FlattenSeq(r.chunks)

Meaning(r) ==
  <<<<"headers", r.method, r.version, r.target, Strings(r.headers)>>>>
  \o (IF FlattenSeq(r.chunks) = <<>> THEN <<>>
      ELSE <<<<"data", FlattenSeq(r.chunks)>>>>)
  \o <<<<"end", Strings(r.trailers)>>>>

GE == <<"G", "E">>
PO == <<"P", "O">>
Path == <<"/", "x", "?", "a", "#">>
Absolute == <<"h", ":", "/", "/", "x", "@", "a", "/">>

Get == Request(GE, Path, <<1, 1>>, <<Empty, Folded, Plain>>, <<>>, <<>>, CRLF)
Old == Request(GE, <<"/">>, <<1, 0>>, <<KeepAlive>>, <<>>, <<>>, <<"LF">>)
Bare == Request(<<"S", "O">>, Absolute, <<1, 1>>, <<>>, <<>>, <<>>, CRLF)
Post == Request(PO, <<"*">>, <<1, 1>>, <<Length("3")>>,
                <<<<"CR", "LF", "0">>>>, <<>>, CRLF)
Stream == Request(PO, <<"/">>, <<1, 1>>, <<Chunked, Plain>>,
                  <<<<"a", "CR">>, <<"0">>>>, <<Plain, Empty>>, CRLF)
Final == Request(GE, <<"/">>, <<1, 1>>, <<Plain, Close>>, <<>>, <<>>, CRLF)

Pipelines == {<<Get>>, <<Final>>, <<Bare, Old>>, <<Old, Post>>, <<Post, Bare>>,
              <<Stream, Post>>, <<Stream, Final>>}

WireOf(rs) == FlattenSeq([i \in DOMAIN rs |-> Wire(rs[i])])

MCExpected ==
  [w \in {WireOf(rs) : rs \in Pipelines} |->
     LET rs == CHOOSE q \in Pipelines : WireOf(q) = w
     IN  [events |-> FlattenSeq([i \in DOMAIN rs |-> Meaning(rs[i])]),
          ends |-> {Len(WireOf(SubSeq(rs, 1, i))) : i \in DOMAIN rs}]]

\* One byte of a request is replaced, removed or added.
Noise == {"CR", "LF", "SP", "HT", "NUL", ":", ",", "9", "c", "/"}
Damaged(w) ==
  {ReplaceAt(w, i, b) : i \in DOMAIN w, b \in Noise}
    \cup {RemoveAt(w, i) : i \in DOMAIN w}
    \cup {InsertAt(w, i, b) : i \in DOMAIN w, b \in Noise}

\* The smallest requests, to be damaged: a length, chunks with a trailer, a
\* list of connection values, and two ways to upgrade.
Small(headers, chunks, trailers) ==
  Wire(Request(PO, <<"/">>, <<1, 1>>, headers, chunks, trailers, <<"LF">>))
Up == <<<<"u", "p">>, <<"x">>, <<"x">>>>
ConnectionUp == <<<<"c", "o", "n">>, <<"u", "p">>, <<"u", "p">>>>
Tunnel == Wire(Request(CONNECT, <<"x", ":", "9">>, <<1, 1>>, <<>>, <<>>, <<>>, CRLF))
              \o <<"a", "0">>
LongValue == [i \in 1 .. MCMaxHeaderSize + 1 |-> "a"]
Long == Wire([Old EXCEPT !.headers = <<<<<<"x">>, LongValue, LongValue>>>>])
\* 130 is 2 in a counter of LengthMax + 1 values.
Overflow == <<<<"C", "o", "t">>, <<"1", "3", "0">>, <<"1", "3", "0">>>>
Upgraded == Small(<<Up, ConnectionUp>>, <<>>, <<>>) \o <<"a">>

MCInputs ==
  DOMAIN MCExpected \cup {Tunnel, Upgraded, Long, Small(<<Overflow>>, <<<<"a", "x">>>>, <<>>)}
    \cup Damaged(Small(<<Length("2")>>, <<<<"a", "x">>>>, <<>>))
    \cup Damaged(Small(<<Chunked>>, <<<<"a">>>>, <<Plain>>))
    \cup Damaged(Small(<<Empty, KeepAlive>>, <<>>, <<>>))
=============================================================================
