--------------------------- MODULE MCHttpExchange ---------------------------
(* Instances of HttpExchange for TLC. *)
EXTENDS HttpExchange

\* A request with a body, one that is cut off, one that turns out damaged, and
\* two in a row.
MCInputs ==
  {<<"head", "data", "data", "end">>,
   <<"head", "data">>,
   <<"head", "bad">>,
   <<"head", "end", "head", "data", "end">>}
MCCalls == <<3, 2>>

\* One request, answered with one call.
OneRequest == {<<"head", "end">>}
OneCall == <<1>>
=============================================================================
