------------------------------ MODULE HttpParser ------------------------------
(***************************************************************************)
(* The request parser of the http module: http_parser_execute of           *)
(* src/src/modules/http/internal/http_parser.c, compiled strict and        *)
(* initialised for HTTP_REQUEST, and HTTPRequestParser, the class that     *)
(* owns it, registers seven callbacks with it (all of them return 0) and   *)
(* turns them into the events headers_complete, data, end and error.       *)
(*                                                                         *)
(* The parser is one record; every operator below maps the record before a *)
(* byte, a callback or a call to the record after it.                      *)
(*                                                                         *)
(* Simplifications.                                                        *)
(*   - A byte is a one-character name of a small alphabet, and a keyword   *)
(*     is a short word (CONNECT is "CN", content-length is "cot"), so that *)
(*     it can still be split between two buffers.                          *)
(*   - The tables that match a method or a header name letter by letter    *)
(*     are the prefixes of the words they accept.                          *)
(*   - The error number is left out: the parser has failed or it has not.  *)
(*   - Loops that take a run of bytes at once take them one by one.  The   *)
(*     header size is then checked at each byte of a run and not at its    *)
(*     end: what differs is only the text held by a parser that fails.     *)
(***************************************************************************)
EXTENDS Naturals, Sequences, FiniteSets, SequencesExt

CONSTANTS
  Inputs,         \* byte sequences a connection may carry
  FeedSizes,      \* numbers of bytes one read may deliver
  MaxHeaderSize,  \* HTTP_MAX_HEADER_SIZE
  LengthMax,      \* ULLONG_MAX, also "no content length"
  Expected        \* what well-formed inputs mean: a function from such inputs
                  \* to the events of HTTPRequestParser, data in one piece

VARIABLES
  input,   \* the bytes the client sends
  fed,     \* how many of them the parser is done with
  upto,    \* the last byte of the call of Feed that runs, 0 if none runs
  closed,  \* the empty buffer that stands for the end has been given
  p        \* the parser

vars == <<input, fed, upto, closed, p>>

-----------------------------------------------------------------------------
(* The alphabet and its classes. *)

Upper == {"G", "E", "P", "O", "C", "N", "S", "H", "T", "I"}
LowerCase == {"a", "c", "e", "h", "k", "l", "n", "o", "p", "t", "u", "x"}
Alpha == Upper \cup LowerCase
Ends == {"CR", "LF"}
Blanks == {"SP", "HT"}

Digits == {"0", "1", "2", "3", "9"}
DigitValue == [b \in Digits |-> CASE b = "0" -> 0 [] b = "1" -> 1 [] b = "2" -> 2
                                  [] b = "3" -> 3 [] b = "9" -> 9]
unhex == [b \in Digits \cup {"a", "c", "e", "C", "E"} |->
            CASE b \in Digits -> DigitValue[b] [] b = "a" -> 10
              [] b \in {"c", "C"} -> 12 [] b \in {"e", "E"} -> 14]

Marks == {"*", "-", ".", "_"}
Separators == {"(", ")", ",", "/", ":", ";", "?", "@", "[", "{"}
Bytes == Alpha \cup Digits \cup Ends \cup Blanks \cup Marks \cup Separators
         \cup {"#", "BT", "NUL", "DEL"}

\* LOWER is c | 0x20: right for letters, and it changes other bytes as well.
Lower(b) ==
  CASE b = "G" -> "g" [] b = "E" -> "e" [] b = "P" -> "p" [] b = "O" -> "o"
    [] b = "C" -> "c" [] b = "N" -> "n" [] b = "S" -> "s" [] b = "H" -> "h"
    [] b = "T" -> "t" [] b = "I" -> "i" [] b = "HT" -> ")" [] b = "NUL" -> "SP"
    [] b = "@" -> "BT" [] b = "[" -> "{" [] b = "_" -> "DEL" [] OTHER -> b
Letters == Bytes \cup {"g", "i", "s"}

Tokens == Alpha \cup Digits \cup Marks \cup {"#", "BT", "g", "i", "s"}
HeaderBytes == Bytes \ {"NUL", "DEL"}
UrlBytes == Bytes \ ({"NUL", "DEL", "?", "#"} \cup Ends \cup Blanks)
UserinfoBytes == Alpha \cup Digits \cup Marks \cup {"(", ")", ";", ":", ","}

ASSUME ParserConstants ==
  /\ \A bytes \in Inputs : bytes \in Seq(Bytes)
  /\ FeedSizes \subseteq Nat \ {0}
  /\ MaxHeaderSize \in Nat
  /\ LengthMax \in Nat /\ LengthMax >= 16

-----------------------------------------------------------------------------
(* The words the parser knows. *)

CONNECT == <<"C", "N">>
SOURCE == <<"S", "O">>
Methods == {<<"G", "E">>, <<"P", "O">>, CONNECT, SOURCE}

\* Header names with a meaning: connection, proxy-connection, content-length,
\* transfer-encoding, upgrade.
NameHdr ==
  [w \in {<<"c", "o", "n">>, <<"p", "n">>, <<"c", "o", "t">>, <<"t", "e">>, <<"u", "p">>} |->
     CASE w \in {<<"c", "o", "n">>, <<"p", "n">>} -> "connection"
       [] w = <<"c", "o", "t">> -> "content_length"
       [] w = <<"t", "e">> -> "transfer_encoding"
       [] w = <<"u", "p">> -> "upgrade"]

\* The listed values: keep-alive, close, upgrade and chunked, with their flags.
WordFlag ==
  [w \in {<<"k", "a">>, <<"c", "l">>, <<"u", "p">>, <<"c", "h">>} |->
     CASE w = <<"k", "a">> -> "keep_alive" [] w = <<"c", "l">> -> "close"
       [] w = <<"u", "p">> -> "connection_upgrade" [] w = <<"c", "h">> -> "chunked"]
ListWords == [connection |-> DOMAIN WordFlag \ {<<"c", "h">>},
              transfer_encoding |-> {<<"c", "h">>}]

Begins(w, words) == \E v \in words : IsPrefix(w, v)

-----------------------------------------------------------------------------
(* States.  The names are those of enum state without s_. *)

BodyStates == {"chunk_data", "chunk_data_almost_done", "chunk_data_done",
               "body_identity", "message_done"}

ServerStates == {"req_server_start", "req_server", "req_server_with_at"}
QueryStates == {"req_query_string_start", "req_query_string"}
FragmentStates == {"req_fragment_start", "req_fragment"}
SchemaStates == {"req_schema", "req_schema_slash", "req_schema_slash_slash"}
UrlStates == SchemaStates \cup ServerStates \cup {"req_path"}
             \cup QueryStates \cup FragmentStates

\* parse_url_char as a set of moves <<from, on, to>>; no move is s_dead.
UrlMoves == {
  <<{"req_spaces_before_url"}, {"/", "*"}, "req_path">>,
  <<{"req_spaces_before_url", "req_schema"}, Alpha, "req_schema">>,
  <<{"req_schema"}, {":"}, "req_schema_slash">>,
  <<{"req_schema_slash"}, {"/"}, "req_schema_slash_slash">>,
  <<{"req_schema_slash_slash"}, {"/"}, "req_server_start">>,
  <<ServerStates, {"/"}, "req_path">>,
  <<ServerStates, {"?"}, "req_query_string_start">>,
  <<ServerStates \ {"req_server_with_at"}, {"@"}, "req_server_with_at">>,
  <<ServerStates, UserinfoBytes \cup {"["}, "req_server">>,
  <<{"req_path"}, UrlBytes, "req_path">>,
  <<{"req_path"}, {"?"}, "req_query_string_start">>,
  <<QueryStates, UrlBytes \cup {"?"}, "req_query_string">>,
  <<{"req_path"} \cup QueryStates, {"#"}, "req_fragment_start">>,
  <<{"req_fragment_start"}, {"#"}, "req_fragment_start">>,
  <<FragmentStates, UrlBytes \cup {"?"}, "req_fragment">>,
  <<{"req_fragment"}, {"#"}, "req_fragment">>}

parse_url_char(s, b) ==
  LET moves == {m \in UrlMoves : s \in m[1] /\ b \in m[2]}
  IN  IF moves = {} THEN "dead" ELSE (CHOOSE m \in moves : TRUE)[3]

\* The letters of the version, each with the state that expects it.
Literal == [req_http_H |-> <<"T", "req_http_HT">>,
            req_http_HT |-> <<"T", "req_http_HTT">>,
            req_http_HTT |-> <<"P", "req_http_HTTP">>,
            req_http_I |-> <<"C", "req_http_IC">>,
            req_http_IC |-> <<"E", "req_http_HTTP">>,
            req_http_HTTP |-> <<"/", "req_http_major">>,
            req_http_dot |-> <<".", "req_http_minor">>,
            req_line_almost_done |-> <<"LF", "header_field_start">>,
            header_value_discard_ws_almost_done |->
              <<"LF", "header_value_discard_lws">>]

-----------------------------------------------------------------------------
(* The parser record. *)

None == ""

States == (BodyStates \ {"message_done"}) \cup UrlStates \cup DOMAIN Literal \cup
  {"dead", "start_req", "req_method", "req_spaces_before_url", "req_http_start",
   "req_http_major", "req_http_minor", "req_http_end", "header_field_start",
   "header_field", "header_value_discard_ws", "header_value_discard_lws",
   "header_value", "header_value_lws", "header_almost_done", "headers_almost_done",
   "chunk_size_start", "chunk_size", "chunk_parameters", "chunk_size_almost_done"}
Meanings == {"connection", "content_length", "transfer_encoding", "upgrade"}
Flags == {"keep_alive", "close", "connection_upgrade", "chunked", "upgrade",
          "content_length", "transfer_encoding", "trailing"}
Text == Seq(Bytes)
Events == {<<"error">>} \cup {"data"} \X Text \cup {"end"} \X Seq(Text)
          \cup {"headers"} \X Text \X (Nat \X Nat) \X Text \X Seq(Text)

Parser ==
  [state : States, word : Seq(Letters), hdr : {"general", "name"} \cup Meanings,
   phase : {"named", "start", "word", "token", "whole", "num", "ws"},
   flags : SUBSET Flags, length : 0 .. LengthMax, nread : Nat,
   method : Text, major : Nat, minor : Nat, upgrade : BOOLEAN, failed : BOOLEAN,
   stopped : BOOLEAN, sound : BOOLEAN,
   mark : {None, "url", "header_field", "header_value", "body"}, piece : Text,
   url : Text, headers : Seq(Text), trailers : Seq(Text), curHdr : Text,
   hdrVal : BOOLEAN, trailing : BOOLEAN, heard : Seq(Events)]

http_parser_init ==
  [state |-> "start_req",
   word |-> <<>>,         \* the part of a keyword matched (index)
   hdr |-> "general",     \* which header of NameHdr this is, or "name" while
                          \* it may still become one (header_state)
   phase |-> "named",     \* how far its value is understood (header_state)
   flags |-> {},          \* flags and extra_flags
   length |-> LengthMax,  \* content_length
   nread |-> 0,
   method |-> <<>>, major |-> 0, minor |-> 0,
   upgrade |-> FALSE,
   failed |-> FALSE,      \* http_errno is not HPE_OK
   stopped |-> FALSE,     \* this call has returned before its last byte
   sound |-> TRUE,        \* every assert reached so far held
   mark |-> None,         \* the one mark that is set and
   piece |-> <<>>,        \* the bytes from it to the current one
   \* the members of HTTPRequestParser
   url |-> <<>>, headers |-> <<>>, trailers |-> <<>>,
   curHdr |-> <<>>, hdrVal |-> TRUE, trailing |-> FALSE,
   heard |-> <<>>]        \* the events emitted so far

Go(x, s) == [x EXCEPT !.state = s]
Fail(x) == [x EXCEPT !.failed = TRUE]
Checked(x, holds) == [x EXCEPT !.sound = @ /\ holds]
Emit(x, e) == [x EXCEPT !.heard = Append(@, e)]

-----------------------------------------------------------------------------
(* The callbacks of HTTPRequestParser. *)

\* Faulty variant: the trailers of the last message stay.
ResetKeepsTrailers(x) ==
  [x EXCEPT !.url = <<>>, !.headers = <<>>,
            !.curHdr = <<>>, !.hdrVal = TRUE, !.trailing = FALSE]

\* _reset, at message_begin.
Reset(x) ==
  [x EXCEPT !.url = <<>>, !.headers = <<>>, !.trailers = <<>>,
            !.curHdr = <<>>, !.hdrVal = TRUE, !.trailing = FALSE]

\* The first half of _processHdr: when names and values alternate, what has
\* been collected is one whole string.
FlushHdr(x, isVal) ==
  LET strings == IF x.trailing THEN x.trailers ELSE x.headers
      flushed == IF strings = <<>> /\ x.curHdr = <<>> THEN x
                 ELSE IF x.trailing
                 THEN [x EXCEPT !.trailers = Append(@, x.curHdr), !.curHdr = <<>>]
                 ELSE [x EXCEPT !.headers = Append(@, x.curHdr), !.curHdr = <<>>]
  IN  IF x.hdrVal = isVal THEN x ELSE [flushed EXCEPT !.hdrVal = isVal]

ProcessHdr(x, isVal, at) ==
  LET y == FlushHdr(x, isVal) IN [y EXCEPT !.curHdr = @ \o at]

\* _processHdr with a null pointer: no more headers.
EndHdrs(x) ==
  LET y == FlushHdr(x, FALSE) IN [y EXCEPT !.hdrVal = TRUE, !.trailing = TRUE]

OnHeadersComplete(x) ==
  LET y == EndHdrs(x)
  IN  Emit(y, <<"headers", y.method, <<y.major, y.minor>>, y.url, y.headers>>)

OnMessageComplete(x) ==
  LET y == EndHdrs(x) IN Emit(y, <<"end", y.trailers>>)

DataCallback(x, mark, bytes) ==
  CASE mark = "url" -> [x EXCEPT !.url = @ \o bytes]
    [] mark = "header_field" -> ProcessHdr(x, FALSE, bytes)
    [] mark = "header_value" -> ProcessHdr(x, TRUE, bytes)
    [] mark = "body" -> Emit(x, <<"data", bytes>>)

\* MARK: setting a mark that is set changes nothing; at most one is ever set.
Mark(x, mark) ==
  IF x.mark = mark THEN x
  ELSE [Checked(x, x.mark = None) EXCEPT !.mark = mark, !.piece = <<>>]

\* CALLBACK_DATA: hands over what lies between the mark and the current byte.
CallbackData(x, mark) ==
  IF x.mark # mark \/ mark = None THEN x
  ELSE [DataCallback(x, mark, x.piece) EXCEPT !.mark = None, !.piece = <<>>]

-----------------------------------------------------------------------------
(* The end of a message. *)

http_should_keep_alive(x) ==
  IF x.major > 0 /\ x.minor > 0 THEN "close" \notin x.flags
                                ELSE "keep_alive" \in x.flags

NEW_MESSAGE(x) == IF http_should_keep_alive(x) THEN "start_req" ELSE "dead"

Complete(x) == OnMessageComplete(Go(x, NEW_MESSAGE(x)))

MessageDone(x) == [Complete(x) EXCEPT !.stopped = x.upgrade]

\* Faulty variant: the first chunk size is counted with the headers.
HeadersDoneCounted(x) ==
  IF "chunked" \in x.flags THEN Go(x, "chunk_size_start")
  ELSE IF "transfer_encoding" \in x.flags THEN Fail(x)
  ELSE IF x.length \in {0, LengthMax} THEN Complete(x)
  ELSE Go(x, "body_identity")

HeadersDone(x0) ==
  LET x == [x0 EXCEPT !.nread = 0]
      hasBody == "chunked" \in x.flags \/ x.length \notin {0, LengthMax}
  IN  IF x.upgrade /\ (x.method = CONNECT \/ ~hasBody)
      THEN [Complete(x) EXCEPT !.stopped = TRUE]
      ELSE IF "chunked" \in x.flags THEN Go(x, "chunk_size_start")
      ELSE IF "transfer_encoding" \in x.flags THEN Fail(x)
      ELSE IF x.length \in {0, LengthMax} THEN Complete(x)
      ELSE Go(x, "body_identity")

HeadersAlmostDone(x, b) ==
  IF b # "LF" THEN Fail(x)
  ELSE IF "trailing" \in x.flags THEN MessageDone(x)
  ELSE IF {"transfer_encoding", "content_length"} \subseteq x.flags THEN Fail(x)
  ELSE LET upgrades == \/ {"upgrade", "connection_upgrade"} \subseteq x.flags
                       \/ x.method = CONNECT
       IN  HeadersDone(OnHeadersComplete([x EXCEPT !.upgrade = upgrades]))

-----------------------------------------------------------------------------
(* The request line. *)

StartReq(x, b) ==
  IF b \in Ends THEN x
  ELSE IF ~Begins(<<b>>, Methods) THEN Fail(x)
  ELSE Reset([x EXCEPT !.state = "req_method", !.method = <<b>>,
                                !.flags = {}, !.length = LengthMax])

ReqMethod(x, b) ==
  IF b = "SP" /\ x.method \in Methods THEN Go(x, "req_spaces_before_url")
  ELSE IF Begins(Append(x.method, b), Methods) THEN [x EXCEPT !.method = Append(@, b)]
  ELSE Fail(x)

UrlByte(x, b) ==
  LET s == parse_url_char(x.state, b) IN IF s = "dead" THEN Fail(x) ELSE Go(x, s)

ReqSpacesBeforeUrl(x, b) ==
  LET y == Mark(x, "url")
  IN  IF b = "SP" THEN x
      ELSE IF x.method = CONNECT THEN UrlByte(Go(y, "req_server_start"), b)
      ELSE UrlByte(y, b)

\* Until the path or the server has begun, the URL may not end.
ReqUrl(x, b) ==
  IF b \notin Ends \cup {"SP"} THEN UrlByte(x, b)
  ELSE IF x.state \in SchemaStates \cup {"req_server_start"} THEN Fail(x)
  ELSE IF b = "SP" THEN CallbackData(Go(x, "req_http_start"), "url")
  ELSE CallbackData([x EXCEPT !.major = 0, !.minor = 9,
                              !.state = IF b = "CR" THEN "req_line_almost_done"
                                        ELSE "header_field_start"], "url")

ReqHttpStart(x, b) ==
  CASE b = "SP" -> x
    [] b = "H" -> Go(x, "req_http_H")
    [] b = "I" /\ x.method = SOURCE -> Go(x, "req_http_I")
    [] OTHER -> Fail(x)

ExpectLiteral(x, b) ==
  IF b = Literal[x.state][1] THEN Go(x, Literal[x.state][2]) ELSE Fail(x)

ReqHttpMajor(x, b) ==
  IF b \in Digits THEN [x EXCEPT !.major = DigitValue[b], !.state = "req_http_dot"]
  ELSE Fail(x)

ReqHttpMinor(x, b) ==
  IF b \in Digits THEN [x EXCEPT !.minor = DigitValue[b], !.state = "req_http_end"]
  ELSE Fail(x)

ReqHttpEnd(x, b) ==
  CASE b = "CR" -> Go(x, "req_line_almost_done")
    [] b = "LF" -> Go(x, "header_field_start")
    [] OTHER -> Fail(x)

-----------------------------------------------------------------------------
(* Headers and trailers. *)

HeaderFieldStart(x, b) ==
  LET named == Begins(<<Lower(b)>>, DOMAIN NameHdr)
  IN  IF b = "CR" THEN Go(x, "headers_almost_done")
      ELSE IF b = "LF" THEN HeadersAlmostDone(Go(x, "headers_almost_done"), b)
      ELSE IF b \notin Tokens THEN Fail(x)
      ELSE [Mark(x, "header_field") EXCEPT
                       !.state = "header_field", !.word = <<Lower(b)>>,
                       !.phase = "named", !.hdr = IF named THEN "name" ELSE "general"]

\* One more letter of a name; a name with a meaning loses it when it goes on,
\* but transfer-encoding has left its flag behind by then.
MatchName(x, b) ==
  LET w == Append(x.word, Lower(b))
  IN  IF x.hdr = "name" /\ w \in DOMAIN NameHdr
      THEN [x EXCEPT !.hdr = NameHdr[w],
                       !.flags = @ \cup ({NameHdr[w]} \cap {"transfer_encoding"})]
      ELSE IF x.hdr = "name" /\ Begins(w, DOMAIN NameHdr) THEN [x EXCEPT !.word = w]
      ELSE [x EXCEPT !.hdr = "general"]

HeaderField(x, b) ==
  CASE b \in Tokens -> MatchName(x, b)
    [] b = ":" -> CallbackData(Go(x, "header_value_discard_ws"), "header_field")
    [] OTHER -> Fail(x)

FirstDigit(x, b) ==
  IF b \notin Digits \/ "content_length" \in x.flags THEN Fail(x)
  ELSE [x EXCEPT !.flags = @ \cup {"content_length"},
                 !.length = DigitValue[b], !.phase = "num"]

\* A folded line comes here too: it keeps its meaning only between two listed
\* values or after the digits of a length.
HeaderValueStart(x0, b) ==
  LET x == [Mark(x0, "header_value") EXCEPT !.state = "header_value", !.word = <<>>]
  IN  IF x.hdr = "upgrade"
      THEN [x EXCEPT !.flags = @ \cup {"upgrade"}, !.hdr = "general"]
      ELSE IF x.hdr \in DOMAIN ListWords /\ x.phase = "named"
           THEN IF Begins(<<Lower(b)>>, ListWords[x.hdr])
             THEN [x EXCEPT !.phase = "word", !.word = <<Lower(b)>>]
             ELSE [x EXCEPT !.phase = "token"]
      ELSE IF x.hdr \in DOMAIN ListWords /\ x.phase = "start" THEN x
      ELSE IF x.hdr = "content_length" /\ x.phase = "named" THEN FirstDigit(x, b)
      ELSE IF x.hdr = "content_length" /\ x.phase = "ws" THEN x
      ELSE [x EXCEPT !.hdr = "general"]

HeaderValueDiscardWs(x, b) ==
  CASE b \in Blanks -> x
    [] b = "CR" -> Go(x, "header_value_discard_ws_almost_done")
    [] b = "LF" -> Go(x, "header_value_discard_lws")
    [] OTHER -> HeaderValueStart(x, b)

\* Faulty variant: no callback for an empty value.
HeaderValueDiscardLwsSilent(x, b) ==
  IF b \in Blanks THEN Go(x, "header_value_discard_ws")
  ELSE IF x.hdr = "content_length" THEN Fail(x)
  ELSE HeaderFieldStart(Go(x, "header_field_start"), b)

\* An empty value still gets its mark and its (empty) callback.
HeaderValueDiscardLws(x, b) ==
  IF b \in Blanks THEN Go(x, "header_value_discard_ws")
  ELSE IF x.hdr = "content_length" THEN Fail(x)
  ELSE HeaderFieldStart(CallbackData(Mark(Go(x, "header_field_start"),
                                                   "header_value"),
                                              "header_value"), b)

\* A byte of a list of values (connection, transfer-encoding).
MatchListValue(x, b) ==
  LET c == Lower(b)
      w == Append(x.word, c)
      words == ListWords[x.hdr]
  IN  IF x.phase = "start" /\ Begins(<<c>>, words)
      THEN [x EXCEPT !.phase = "word", !.word = <<c>>]
      ELSE IF x.phase = "start" /\ c \in Tokens THEN [x EXCEPT !.phase = "token"]
      ELSE IF x.phase = "start" /\ c = "SP" THEN x
      ELSE IF x.phase = "start" THEN [x EXCEPT !.hdr = "general"]
      ELSE IF x.phase = "word" /\ w \in words
           THEN [x EXCEPT !.phase = "whole", !.word = w]
      ELSE IF x.phase = "word" /\ Begins(w, words) THEN [x EXCEPT !.word = w]
      ELSE IF x.phase = "token" /\ b = "," THEN [x EXCEPT !.phase = "start"]
      ELSE IF x.phase = "whole" /\ b = "SP" THEN x
      ELSE IF x.phase = "whole" /\ b = "," /\ x.hdr = "connection"
           THEN [x EXCEPT !.phase = "start", !.flags = @ \cup {WordFlag[x.word]}]
      ELSE [x EXCEPT !.phase = "token"]

\* Faulty variant: the length may overflow.
MatchLengthWraps(x, b) ==
  IF b = "SP" THEN [x EXCEPT !.phase = "ws"]
  ELSE IF b \notin Digits \/ x.phase = "ws" THEN Fail(x)
  ELSE [x EXCEPT !.length = (@ * 10 + DigitValue[b]) % (LengthMax + 1)]

\* A byte of a content length.
MatchLength(x, b) ==
  IF b = "SP" THEN [x EXCEPT !.phase = "ws"]
  ELSE IF b \notin Digits \/ x.phase = "ws" THEN Fail(x)
  ELSE IF (LengthMax - 10) \div 10 < x.length THEN Fail(x)
  ELSE [x EXCEPT !.length = (@ * 10 + DigitValue[b]) % (LengthMax + 1)]

HeaderAlmostDone(x, b) ==
  IF b = "LF" THEN Go(x, "header_value_lws") ELSE Fail(x)

HeaderValue(x, b) ==
  IF b = "CR" THEN CallbackData(Go(x, "header_almost_done"), "header_value")
  ELSE IF b = "LF" THEN HeaderAlmostDone(CallbackData(x, "header_value"), b)
  ELSE IF b \notin HeaderBytes THEN Fail(x)
  ELSE IF x.hdr \in DOMAIN ListWords THEN MatchListValue(x, b)
  ELSE IF x.hdr = "content_length" THEN MatchLength(x, b)
  ELSE x

\* After the line: a blank folds the next line into the value, anything else
\* ends the header, and a listed value that ends it counts.
HeaderValueLws(x, b) ==
  IF b \in Blanks
  THEN HeaderValueStart(
         IF x.hdr = "content_length" THEN [x EXCEPT !.phase = "ws"] ELSE x, b)
  ELSE HeaderFieldStart(
         [x EXCEPT !.state = "header_field_start",
                   !.flags = IF x.hdr \in DOMAIN ListWords /\ x.phase = "whole"
                             THEN @ \cup {WordFlag[x.word]} ELSE @], b)

-----------------------------------------------------------------------------
(* The body. *)

\* Faulty variant: one byte too early.
BodyIdentityEarly(x0, b) ==
  LET x == [Mark(Checked(x0, x0.length \notin {0, LengthMax}), "body")
              EXCEPT !.length = @ - 1]
  IN  IF x.length > 1 THEN x
      ELSE MessageDone(CallbackData([x EXCEPT !.piece = Append(@, b)], "body"))

\* The last byte of the body is delivered and, in the same step, the message
\* is completed.
BodyIdentity(x0, b) ==
  LET x == [Mark(Checked(x0, x0.length \notin {0, LengthMax}), "body")
              EXCEPT !.length = @ - 1]
  IN  IF x.length > 0 THEN x
      ELSE MessageDone(CallbackData([x EXCEPT !.piece = Append(@, b)], "body"))

ChunkSizeStart(x0, b) ==
  LET x == Checked(x0, x0.nread = 1 /\ "chunked" \in x0.flags)
  IN  IF b \in DOMAIN unhex
      THEN [x EXCEPT !.length = unhex[b], !.state = "chunk_size"]
      ELSE Fail(x)

ChunkSize(x, b) ==
  IF b = "CR" THEN Go(x, "chunk_size_almost_done")
  ELSE IF b \in {";", "SP"} THEN Go(x, "chunk_parameters")
  ELSE IF b \notin DOMAIN unhex THEN Fail(x)
  ELSE IF (LengthMax - 16) \div 16 < x.length THEN Fail(x)
  ELSE [x EXCEPT !.length = (@ * 16 + unhex[b]) % (LengthMax + 1)]

ChunkParameters(x, b) == IF b = "CR" THEN Go(x, "chunk_size_almost_done") ELSE x

\* The chunk of size 0 is the last; what follows are trailers.
ChunkSizeAlmostDone(x, b) ==
  IF b # "LF" THEN Fail(x)
  ELSE IF x.length = 0 THEN [x EXCEPT !.nread = 0, !.flags = @ \cup {"trailing"},
                                 !.state = "header_field_start"]
  ELSE [x EXCEPT !.nread = 0, !.state = "chunk_data"]

ChunkData(x0, b) ==
  LET x == [Mark(Checked(x0, x0.length \notin {0, LengthMax}), "body")
              EXCEPT !.length = @ - 1]
  IN  IF x.length = 0 THEN Go(x, "chunk_data_almost_done") ELSE x

ChunkDataAlmostDone(x, b) ==
  IF b = "CR" THEN CallbackData(Go(Checked(x, x.length = 0), "chunk_data_done"), "body")
  ELSE Fail(x)

ChunkDataDone(x, b) ==
  IF b = "LF" THEN [x EXCEPT !.nread = 0, !.state = "chunk_size_start"] ELSE Fail(x)

-----------------------------------------------------------------------------
(* http_parser_execute and Feed. *)

Step(x, b) ==
  CASE x.state = "dead" -> IF b \in Ends THEN x ELSE Fail(x)
    [] x.state = "start_req" -> StartReq(x, b)
    [] x.state = "req_method" -> ReqMethod(x, b)
    [] x.state = "req_spaces_before_url" -> ReqSpacesBeforeUrl(x, b)
    [] x.state \in UrlStates -> ReqUrl(x, b)
    [] x.state = "req_http_start" -> ReqHttpStart(x, b)
    [] x.state = "req_http_major" -> ReqHttpMajor(x, b)
    [] x.state = "req_http_minor" -> ReqHttpMinor(x, b)
    [] x.state = "req_http_end" -> ReqHttpEnd(x, b)
    [] x.state \in DOMAIN Literal -> ExpectLiteral(x, b)
    [] x.state = "header_field_start" -> HeaderFieldStart(x, b)
    [] x.state = "header_field" -> HeaderField(x, b)
    [] x.state = "header_value_discard_ws" -> HeaderValueDiscardWs(x, b)
    [] x.state = "header_value_discard_lws" -> HeaderValueDiscardLws(x, b)
    [] x.state = "header_value" -> HeaderValue(x, b)
    [] x.state = "header_value_lws" -> HeaderValueLws(x, b)
    [] x.state = "header_almost_done" -> HeaderAlmostDone(x, b)
    [] x.state = "headers_almost_done" -> HeadersAlmostDone(x, b)
    [] x.state = "body_identity" -> BodyIdentity(x, b)
    [] x.state = "chunk_size_start" -> ChunkSizeStart(x, b)
    [] x.state = "chunk_size" -> ChunkSize(x, b)
    [] x.state = "chunk_parameters" -> ChunkParameters(x, b)
    [] x.state = "chunk_size_almost_done" -> ChunkSizeAlmostDone(x, b)
    [] x.state = "chunk_data" -> ChunkData(x, b)
    [] x.state = "chunk_data_almost_done" -> ChunkDataAlmostDone(x, b)
    [] x.state = "chunk_data_done" -> ChunkDataDone(x, b)

\* Faulty variant: the bytes of a value are not counted.
CountHeaderSizeNoValues(x) ==
  IF x.state \in BodyStates \cup {"header_value"} THEN x
  ELSE LET y == [x EXCEPT !.nread = @ + 1]
       IN  IF y.nread > MaxHeaderSize THEN Fail(y) ELSE y

\* COUNT_HEADER_SIZE(1), in every state up to headers_done.
CountHeaderSize(x) ==
  IF x.state \in BodyStates THEN x
  ELSE LET y == [x EXCEPT !.nread = @ + 1]
       IN  IF y.nread > MaxHeaderSize THEN Fail(y) ELSE y

Counted(x, b) == IF x.failed THEN x ELSE Step(x, b)

\* The byte is part of the piece that is still open after it.
Keep(x, b) ==
  IF x.mark = None \/ x.failed THEN x ELSE [x EXCEPT !.piece = Append(@, b)]

\* One turn of the loop of http_parser_execute.
Byte(x, b) == Keep(Counted(CountHeaderSize(x), b), b)

\* Faulty variant: a target split between two calls is not resumed.
MarkAtStartNoUrl(x) ==
  IF x.state \in {"header_field", "header_value"} THEN Mark(x, x.state) ELSE x

\* A call begins in the middle of what the last one left open.
MarkAtStart(x) ==
  CASE x.state \in UrlStates -> Mark(x, "url")
    [] x.state \in {"header_field", "header_value"} -> Mark(x, x.state)
    [] OTHER -> x

\* The callbacks for the mark left over at the end of the buffer.
FlushMark(x) ==
  IF x.failed \/ x.stopped THEN [x EXCEPT !.mark = None, !.piece = <<>>]
  ELSE CallbackData(x, x.mark)

Begun(x) == MarkAtStart([x EXCEPT !.stopped = FALSE])

\* An empty buffer is the end of the connection.
AtEnd(x) == IF x.state \in {"dead", "start_req"} THEN x ELSE Fail(x)

\* HTTPRequestParser::Feed.  A failed call returns less than it was given, and
\* an upgrade is an error of its own.
Report(x, wrong) == IF wrong THEN Emit(x, <<"error">>) ELSE x
ReportErrors(x) == Report(Report(x, x.failed), x.upgrade)

Errored(x) == \E i \in DOMAIN x.heard : x.heard[i][1] = "error"

-----------------------------------------------------------------------------
(* The connection: the reads of IncomingMessage, which stops feeding its   *)
(* parser at the first error.                                              *)

Init ==
  /\ input \in Inputs
  /\ fed = 0 /\ upto = 0
  /\ closed = FALSE
  /\ p = http_parser_init

Running == upto # 0
Ready == ~Running /\ ~closed /\ ~Errored(p)

\* on_data: one read delivers the next n bytes.
Feed ==
  /\ Ready
  /\ \E n \in FeedSizes :
       /\ fed + n <= Len(input)
       /\ upto' = fed + n
  /\ p' = Begun(p)
  /\ UNCHANGED <<input, fed, closed>>

\* One turn of the loop over the bytes of the call.
TakeByte ==
  /\ Running /\ fed < upto /\ ~p.failed /\ ~p.stopped
  /\ p' = Byte(p, input[fed + 1])
  /\ fed' = fed + 1
  /\ UNCHANGED <<input, upto, closed>>

\* Feed returns, and drops what a failed or upgraded parser has not taken.
FeedReturns ==
  /\ Running /\ (fed = upto \/ p.failed \/ p.stopped)
  /\ p' = ReportErrors(FlushMark(p))
  /\ fed' = upto /\ upto' = 0
  /\ UNCHANGED <<input, closed>>

\* on_end: the client has closed, wherever it was.
FeedEnd ==
  /\ Ready
  /\ p' = ReportErrors(AtEnd(p))
  /\ closed' = TRUE
  /\ UNCHANGED <<input, fed, upto>>

Next == Feed \/ TakeByte \/ FeedReturns \/ FeedEnd

Spec == Init /\ [][Next]_vars

-----------------------------------------------------------------------------
(* What the events say. *)

\* Data in as few pieces as possible.
Join(h, e) ==
  IF e[1] = "data" /\ h # <<>> /\ Last(h)[1] = "data"
  THEN [h EXCEPT ![Len(h)] = <<"data", @[2] \o e[2]>>]
  ELSE Append(h, e)
Joined(h) == FoldLeft(Join, <<>>, h)
WithoutData(h) == SelectSeq(h, LAMBDA e : e[1] # "data")
CountOf(h, what) == Len(SelectSeq(h, LAMBDA e : e[1] = what))

\* The same bytes given in one call, byte after byte.
TakeIn(x, b) == IF x.failed \/ x.stopped THEN x ELSE Byte(x, b)
InOneCall(bytes) ==
  IF bytes = <<>> THEN http_parser_init
  ELSE ReportErrors(FlushMark(FoldLeft(TakeIn, Begun(http_parser_init), bytes)))
EndOf(w) == IF closed /\ ~Errored(w) THEN ReportErrors(AtEnd(w)) ELSE w
Whole == EndOf(InOneCall(SubSeq(input, 1, fed)))

Decimal(digits) == FoldLeft(LAMBDA n, d : n * 10 + DigitValue[d], 0, digits)
LeadingDigits(v) ==
  LET n == CHOOSE k \in 0 .. Len(v) :
             /\ \A i \in 1 .. k : v[i] \in Digits
             /\ k < Len(v) => v[k + 1] \notin Digits
  IN  SubSeq(v, 1, n)

\* The lengths a list of names and values announces.
Announced(hs) ==
  {Decimal(LeadingDigits(hs[2 * i])) :
     i \in {j \in 1 .. Len(hs) \div 2 :
              [k \in DOMAIN hs[2 * j - 1] |-> Lower(hs[2 * j - 1][k])]
                = <<"c", "o", "t">>}}

Places(strings) == UNION {{i} \X DOMAIN strings[i] : i \in DOMAIN strings}
Size(strings) == Cardinality(Places(strings))

-----------------------------------------------------------------------------
(* Properties. *)

\* The parser is in a state of enum state, its marks are unset between calls
\* and its numbers stay inside their types.
TypeOK ==
  /\ fed \in 0 .. Len(input) /\ upto \in {0} \cup fed .. Len(input)
  /\ closed \in BOOLEAN
  /\ p \in Parser /\ p.nread <= MaxHeaderSize + 1
  /\ ~Running => p.mark = None /\ p.piece = <<>>

\* Every assert of http_parser_execute that is reached holds: a chunk size
\* begins a count of its own, a body is read only while something of it is
\* missing, and no two marks are ever set together.
AssertsHold == p.sound
ParserInv == TypeOK /\ AssertsHold

AgreesWith(w) ==
  /\ WithoutData(p.heard) = WithoutData(w.heard)
  /\ ~Errored(p) => /\ Joined(p.heard) = Joined(w.heard)
                    /\ [p EXCEPT !.heard = <<>>] = [w EXCEPT !.heard = <<>>]

\* How the bytes were split between reads makes no difference: not to the
\* events (data may come in more pieces, and what a failing read had not yet
\* handed over is lost) and not to the parser that reads on.  Upgrades are
\* left out: the error for them ends the read they occur in.
SplitIndependent == ~Running /\ ~p.upgrade => AgreesWith(Whole)

\* Well-formed requests, one after the other, are heard as what they say:
\* every name and value (also an empty one), the body, the trailers.
HeardAsSent ==
  fed = Len(input) /\ ~Running /\ ~closed /\ input \in DOMAIN Expected =>
    Joined(p.heard) = Expected[input].events

\* Every message is complete with its last byte and none before; the end of
\* the connection is an error exactly when it cuts a message in two.
CompleteInTime ==
  ~Running /\ input \in DOMAIN Expected =>
    /\ CountOf(p.heard, "end") = Cardinality({n \in Expected[input].ends : n <= fed})
    /\ closed /\ ~Errored(p) => fed \in {0} \cup Expected[input].ends
    /\ closed /\ fed \in {0} \cup Expected[input].ends => ~Errored(p)

\* A message is headers, data and an end in this order, one after the other, and
\* nothing follows an error.
Framed(h) ==
  \A i \in DOMAIN h :
    LET before == IF i = 1 THEN "end" ELSE h[i - 1][1]
    IN  /\ h[i][1] = "headers" => before = "end"
        /\ h[i][1] \in {"data", "end"} => before \in {"headers", "data"}
        /\ before = "error" => h[i][1] = "error"

\* Names and values alternate, and no name is empty ("header should always have a
\* name", HTTPRequestParser.cpp:115).
NamesKept(hs) == \A i \in DOMAIN hs : i % 2 = 1 => hs[i] # <<>>
Paired(hs) == Len(hs) % 2 = 0 /\ NamesKept(hs)
HeadersPaired(h) ==
  \A i \in DOMAIN h : /\ h[i][1] = "headers" => Paired(h[i][5])
                      /\ h[i][1] = "end" => Paired(h[i][2])

\* Whatever is sent, the events of a connection are framed messages, and the raw
\* headers and trailers in them are pairs.
WellFormed == Framed(p.heard) /\ HeadersPaired(p.heard)

\* A complete message with a content length has a body of that length: a
\* length too large for its type is an error and never a short body.
BodyAsAnnounced ==
  LET h == Joined(p.heard)
      Body(i) == IF h[i + 1][1] = "data" THEN Len(h[i + 1][2]) ELSE 0
  IN  \A i \in DOMAIN h :
        h[i][1] = "headers" /\ CountOf(SubSeq(h, i, Len(h)), "end") > 0 =>
          \A n \in Announced(h[i][5]) : Body(i) = n

\* What a client can make the parser hold is bounded: the request line and the
\* headers by HTTP_MAX_HEADER_SIZE, and so are the trailers.
HeldBounded ==
  LET current == Len(p.curHdr)
  IN  ~p.failed =>
        /\ Len(p.url) + Size(p.headers) + (IF p.trailing THEN 0 ELSE current)
             <= MaxHeaderSize
        /\ Size(p.trailers) + (IF p.trailing THEN current ELSE 0) <= MaxHeaderSize
=============================================================================
