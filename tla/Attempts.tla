------------------------------ MODULE Attempts ------------------------------
(***************************************************************************)
(* How an attempt to forward a request may end (forwardError, tryForward,  *)
(* tryForwardPassthrough, forwardSSE): what it sends, whether the channel  *)
(* is to blame, whether it may be repeated elsewhere, and whether a stream *)
(* that has begun still needs an error frame.                              *)
(***************************************************************************)
EXTENDS Sequences

Outcome(sends, blame, again, frame) ==
  [sends |-> sends, blame |-> blame, again |-> again, frame |-> frame]

(* No usable answer: transport error, timeout, 401, 403, 408, 429 or 5xx,   *)
(* or a stream was asked for and something else came.                      *)
Unreached == Outcome(<<>>, TRUE, TRUE, TRUE)

(* The request cannot be converted, the client or the URL cannot be built. *)
Unusable == Outcome(<<>>, FALSE, FALSE, TRUE)

(* Another upstream status is passed on, unless a preface was sent.        *)
Rejected(sent) ==
  IF sent = <<>> THEN Outcome(<<"body">>, FALSE, FALSE, FALSE) ELSE Unusable

PlainOutcomes ==
  {Outcome(<<>>, TRUE, FALSE, TRUE),           \* 200 with an error, converted
   Outcome(<<"body">>, TRUE, FALSE, FALSE),    \* 200 with an error, native
   Outcome(<<"body">>, FALSE, FALSE, FALSE)}   \* incomplete, or write failed

(* Any part of a stream before its error frame is "frames".                *)
StreamOutcomes ==
  {Outcome(<<>>, TRUE, TRUE, TRUE),                       \* truncated or idle, nothing sent
   Outcome(<<"frames">>, TRUE, TRUE, TRUE),               \* truncated or idle later
   Outcome(<<>>, FALSE, FALSE, TRUE),                     \* conversion failed at once
   Outcome(<<"frames">>, FALSE, FALSE, TRUE),             \* ... later, or a slow client
   Outcome(<<"frames", "error">>, TRUE, FALSE, FALSE),    \* upstream reported failure
   Outcome(<<"frames", "error">>, FALSE, FALSE, FALSE),   \* ... of the request
   Outcome(<<"frames">>, FALSE, FALSE, FALSE)}            \* incomplete, or write failed

Failures(kind, sent) ==
  {Unreached, Unusable, Rejected(sent)} \cup
    CASE kind = "plain"       -> PlainOutcomes
      [] kind = "stream"      -> StreamOutcomes
      [] kind = "passthrough" -> {Outcome(<<"body">>, FALSE, FALSE, FALSE)}
=============================================================================
