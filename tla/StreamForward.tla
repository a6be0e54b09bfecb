---------------------------- MODULE StreamForward ----------------------------
(***************************************************************************)
(* One stream through forwardSSE: the events of the upstream, the two      *)
(* converters between it and the client, the writes, the watcher that      *)
(* closes an idle stream, and what the relay is told at the end.           *)
(*                                                                         *)
(* The chunks that an event is turned into are converted one at a time,    *)
(* and the frames of one are written before the next is converted; "next"  *)
(* is what the loop does when all of them are done.                        *)
(*                                                                         *)
(* Bounds: an answer has at most MaxEvents events before its last two, and *)
(* MaxTools tool calls.                                                    *)
(***************************************************************************)
EXTENDS StreamConverters, Attempts

CONSTANTS MaxEvents, Pairs

Protocols == {"openai", "anthropic", "gemini", "responses"}

(* Which protocol is spoken upstream and downstream, and whether a native  *)
(* passthrough was selected, which converts nothing.                       *)
ASSUME StreamAssumption ==
  /\ MaxEvents \in Nat
  /\ Pairs \subseteq [up : Protocols, down : Protocols \ {"gemini"}, native : BOOLEAN]
  /\ \A p \in Pairs : p.native => p.up = p.down

VARIABLES pair,
          answer,    \* what the upstream has said so far
          conv,      \* upstreamConverter
          down,      \* downstreamConverter
          terminal,  \* streamTerminal of the upstream
          chunks,    \* canonical chunks that are still to be converted
          writing,   \* frames of the write that is due
          next,      \* where the loop goes after them
          sent,      \* frames the client was given
          started,   \* c.Writer.Written()
          gone,      \* c.Request.Context() is done
          expired,   \* idleExpired
          result     \* category of the returned error, "ok" for none

vars == <<pair, answer, conv, down, terminal, chunks, writing, next, sent, started, gone, expired,
          result>>

Parts == Tools \cup {TheText}

Frames ==
  {Start, Error, [kind |-> "raw"]}
    \cup [kind : {"open"}, at : Int, of : Parts]
    \cup [kind : {"delta"}, at : Int, of : Parts, size : Nat]
    \cup [kind : {"close"}, at : Nat]
    \cup [kind : {"finish", "end"}, reason : Reasons \cup {"none"}]

Chunks ==
  {Role, Text, Done, Failure}
    \cup [kind : {"call"}, index : Tools, tool : Tools, named : BOOLEAN, size : Nat]
    \cup [kind : {"finish"}, reason : Reasons]

Failing == {"failed", "request", "conversion"}
Categories ==
  Failing \cup {"ok", "incomplete", "unconverted", "truncated", "idle", "write", "slow", "cancelled"}

Said == [left : 0 .. MaxEvents, begun : BOOLEAN, finished : BOOLEAN,
         calls : 0 .. MaxTools, latest : Parts, total : [Parts -> Nat]]

Up == [started : BOOLEAN, finished : BOOLEAN, terminal : BOOLEAN, failed : BOOLEAN,
       reason : Reasons, count : 0 .. MaxTools,
       index : [Tools -> Tools \cup {-1}], got : [Tools -> Nat]]

Down == [started : BOOLEAN, finished : BOOLEAN, terminal : BOOLEAN, failed : BOOLEAN,
         reason : Reasons,
         items : Seq([key : Parts, of : Parts, named : BOOLEAN, size : Nat])]

TypeOK ==
  /\ pair \in Pairs
  /\ answer \in Said
  /\ conv \in Up
  /\ down \in Down
  /\ terminal \in [{"complete", "incomplete", "failed", "stopNow", "length"} -> BOOLEAN]
  /\ chunks \in Seq(Chunks) /\ writing \in Seq(Frames)
  /\ next \in {"read", "broken", "finish", "close", "settle", "returned"} \cup Failing
  /\ sent \in Seq(Frames)
  /\ started \in BOOLEAN /\ gone \in BOOLEAN /\ expired \in BOOLEAN
  /\ result \in Categories \cup {"none"}

Nothing == [left |-> MaxEvents, begun |-> FALSE, finished |-> FALSE, calls |-> 0,
            latest |-> TheText, total |-> [p \in Parts |-> 0]]

Init ==
  /\ pair \in Pairs
  /\ answer = Nothing
  /\ conv = NoUp /\ down = NoDown /\ terminal = NoTerminal
  /\ chunks = <<>> /\ writing = <<>> /\ next = "read" /\ sent = <<>> /\ started = FALSE
  /\ gone = FALSE /\ expired = FALSE /\ result = "none"

-----------------------------------------------------------------------------
(* What the upstream may say.  A provider may leave out the identity of a  *)
(* call, and end, fail or fall silent at any point.                        *)

CallEvent(tool, named, size) == [kind |-> "call", tool |-> tool, named |-> named, size |-> size]
FinishEvent(reason, text) == [kind |-> "finish", reason |-> reason, text |-> text]

Known(a) == 0 .. a.calls - 1
NewTool(a) == IF a.calls < MaxTools THEN {a.calls} ELSE {}

(* Calls may be told in turns.                                             *)
OpenAIEvents(a) ==
  {[kind |-> "text"]}
    \cup {CallEvent(t, named, 1) : t \in NewTool(a), named \in BOOLEAN}
    \cup {CallEvent(t, TRUE, 0) : t \in NewTool(a)}
    \cup {CallEvent(t, FALSE, 1) : t \in Known(a)}

(* One block at a time.                                                    *)
AnthropicEvents(a) ==
  {[kind |-> "text"]}
    \cup {CallEvent(t, TRUE, 0) : t \in NewTool(a)}
    \cup {[kind |-> "args", tool |-> t] : t \in {a.latest} \ {TheText}}

(* output_item.added and .done, arguments.delta and .done, in any order.   *)
ResponsesEvents(a) ==
  {[kind |-> "text"]}
    \cup {CallEvent(t, named, 0) : t \in NewTool(a), named \in BOOLEAN}
    \cup {CallEvent(t, FALSE, a.total[t]) : t \in Known(a)}
    \cup {[kind |-> "args", tool |-> t] : t \in Known(a)}
    \cup {[kind |-> "full", tool |-> t, size |-> a.total[t] + more] : t \in Known(a), more \in 0 .. 1}

Middle(protocol, a) ==
  IF a.left = 0 \/ a.finished THEN {}
  ELSE IF ~a.begun /\ protocol # "gemini" THEN {[kind |-> "begin"]}
  ELSE CASE protocol = "openai"    -> OpenAIEvents(a)
         [] protocol = "anthropic" -> AnthropicEvents(a)
         [] protocol = "gemini"    -> {[kind |-> "text"]}
         [] protocol = "responses" -> ResponsesEvents(a)

(* response.completed repeats no call, all of them, or names a new one.    *)
Output(a, n) == [i \in 1 .. n |-> CallEvent(i - 1, TRUE, a.total[i - 1] + (IF i > a.calls THEN 1 ELSE 0))]

Endings(protocol, a) ==
  {[kind |-> "error"]} \cup
  CASE protocol \in {"openai", "anthropic"} ->
         {[kind |-> "end"]} \cup
         (IF a.finished THEN {}
          ELSE {FinishEvent(r, FALSE) : r \in IF protocol = "openai" THEN Reasons
                                                                     ELSE Reasons \ {"error"}})
    [] protocol = "gemini" -> {FinishEvent(r, text) : r \in Reasons, text \in BOOLEAN}
    [] protocol = "responses" ->
         {[kind |-> "end", reason |-> r, output |-> Output(a, n)] :
            r \in {"stop", "length", "error"}, n \in {0, a.calls} \cup {t + 1 : t \in NewTool(a)}}

Told(a, part, size) == [a EXCEPT !.total[part] = @ + size, !.latest = part]

Saying(protocol, a, e) ==
  LET b == [a EXCEPT !.left = IF e \in Endings(protocol, a) THEN @ ELSE @ - 1]
  IN CASE e.kind = "begin" -> [b EXCEPT !.begun = TRUE]
       [] e.kind = "text"  -> Told(b, TheText, 1)
       [] e.kind = "call"  ->
            LET c == [b EXCEPT !.calls = IF e.tool = @ THEN @ + 1 ELSE @]
            IN Told(c, e.tool, IF protocol = "responses" THEN 0 ELSE e.size)
       [] e.kind = "args"  -> Told(b, e.tool, 1)
       [] e.kind = "full"  -> Told(b, e.tool, e.size - a.total[e.tool])
       [] e.kind = "finish" -> [b EXCEPT !.finished = TRUE, !.total[TheText] = @ + IF e.text THEN 1 ELSE 0]
       [] e.kind = "end" /\ protocol = "responses" ->
            [b EXCEPT !.total = [p \in Parts |->
               IF p + 1 \in 1 .. Len(e.output) THEN e.output[p + 1].size ELSE a.total[p]]]
       [] OTHER -> b

-----------------------------------------------------------------------------
(* What the loop writes.                                                   *)

(* convertCanonical begins: if the chunks fail but none of their frames    *)
(* shows it, the client is told when all of them were converted.           *)
Convert(up, new, then) ==
  /\ conv' = up
  /\ chunks' = new
  /\ next' = IF Fails(new) THEN "broken" ELSE then
  /\ UNCHANGED <<down, writing>>

(* A provider's frame as it is.                                            *)
Raw(e) ==
  CASE e.kind = "error"  -> Error
    [] e.kind = "finish" -> FinishFrame(e.reason)
    [] e.kind = "end"    -> End("none")
    [] OTHER -> [kind |-> "raw"]

(* Which error the channel is not blamed for (context_length_exceeded and  *)
(* the like) is the upstream's choice.                                     *)
PassesOn(e, t) ==
  \/ /\ t.failed
     /\ writing' = <<IF pair.native THEN Raw(e) ELSE Error>>
     /\ next' \in {"failed", "request"}
     /\ UNCHANGED <<conv, down, chunks>>
  \/ /\ ~t.failed /\ pair.native
     /\ writing' = <<Raw(e)>>
     /\ next' = IF t.stopNow THEN "finish" ELSE "read"
     /\ UNCHANGED <<conv, down, chunks>>
  \/ /\ ~t.failed /\ ~pair.native
     /\ LET s == FromUpstream(pair.up, conv, e)
        IN Convert(s.state, s.out, IF t.stopNow THEN "finish" ELSE "read")

Idle == chunks = <<>> /\ writing = <<>>

Reading == Idle /\ next = "read"

(* An event is read, perhaps from the buffer when the body was closed.     *)
Receive ==
  /\ Reading
  /\ \E e \in Middle(pair.up, answer) \cup Endings(pair.up, answer) :
       LET t == Observe(pair.up, terminal, e)
       IN /\ answer' = Saying(pair.up, answer, e)
          /\ terminal' = t
          /\ PassesOn(e, t)
  /\ UNCHANGED <<pair, sent, started, gone, expired, result>>

(* convertCanonical: the client's frames for one chunk.  The chunks after  *)
(* one that fails are not converted.                                       *)
ConvertChunk ==
  /\ chunks # <<>> /\ writing = <<>>
  /\ LET s == ToDownstream(pair.down, down, Head(chunks))
     IN /\ down' = s.state
        /\ writing' = s.out
        /\ IF Fails(s.out) THEN chunks' = <<>> /\ next' = "conversion"
                           ELSE chunks' = Tail(chunks) /\ UNCHANGED next
  /\ UNCHANGED <<pair, answer, conv, terminal, sent, started, gone, expired, result>>

TellBroken ==
  /\ Idle /\ next = "broken"
  /\ writing' = <<Error>> /\ next' = "conversion"
  /\ UNCHANGED <<pair, answer, conv, down, terminal, chunks, sent, started, gone, expired, result>>

-----------------------------------------------------------------------------
(* The end *)

(* Mutant: the channel is blamed for a client that does not read.          *)
Blamed_Slow == {"failed", "truncated", "idle", "slow"}

(* breakerFailure and retryable of the error that is returned.             *)
Blamed == {"failed", "truncated", "idle"}

Repeatable == {"truncated", "idle"}

(* The deferred function: an error frame unless there was one already, or  *)
(* it would not help.                                                      *)
NeedsFrame(category) == category \in {"truncated", "idle", "slow", "unconverted"}

Return(category, wrote) ==
  /\ next' = "returned" /\ chunks' = <<>> /\ writing' = <<>> /\ result' = category
  /\ started' = wrote
  /\ sent' \in {sent} \cup
       (IF NeedsFrame(category) /\ wrote /\ ~gone THEN {Append(sent, Error)} ELSE {})
  /\ UNCHANGED <<pair, answer, conv, down, terminal, gone, expired>>

(* write: a client that does not read lets the deadline of the write pass, *)
(* either in Write or in Flush, which does not look at idleExpired.        *)
Write ==
  /\ writing # <<>> /\ ~gone
  /\ \/ /\ started' = TRUE
        /\ sent' = sent \o writing
        /\ writing' = <<>>
        /\ UNCHANGED <<pair, answer, conv, down, terminal, chunks, next, gone, expired, result>>
     \/ Return("write", TRUE)
     \/ expired /\ Return("slow", TRUE)

(* write: the client is gone.                                              *)
WriteCancelled ==
  /\ writing # <<>> /\ gone
  /\ Return("cancelled", started)

(* readSSELine returns an error: the end of the body, or its closing.      *)
ReadFails ==
  /\ Reading
  /\ IF ~gone /\ terminal.complete
       THEN /\ next' = "finish"
            /\ UNCHANGED <<pair, answer, conv, down, terminal, chunks, writing, sent, started, gone,
                           expired, result>>
       ELSE Return(IF gone THEN "cancelled" ELSE IF expired THEN "idle" ELSE "truncated", started)

(* sseFrame.add refuses a frame that is too large.                         *)
Oversized ==
  /\ Reading
  /\ Return("truncated", started)

Finish ==
  /\ Idle /\ next = "finish"
  /\ IF pair.native
       THEN next' = "settle" /\ UNCHANGED <<conv, down, chunks, writing>>
       ELSE LET s == UpFinish(pair.up, conv) IN Convert(s.state, s.out, "close")
  /\ UNCHANGED <<pair, answer, terminal, sent, started, gone, expired, result>>

CloseDown ==
  /\ Idle /\ next = "close"
  /\ LET s == DownFinish(pair.down, down)
     IN /\ down' = s.state
        /\ writing' = s.out
        /\ next' = IF Fails(s.out) THEN "conversion" ELSE "settle"
  /\ UNCHANGED <<pair, answer, conv, terminal, chunks, sent, started, gone, expired, result>>

Settled ==
  IF ~pair.native /\ ~Concludes(pair.down, sent) THEN "unconverted"
  ELSE IF terminal.incomplete THEN "incomplete" ELSE "ok"

Settle ==
  /\ Idle /\ next = "settle"
  /\ Return(Settled, started)

Report ==
  /\ Idle /\ next \in Failing
  /\ Return(next, started)

(* Mutant: the watcher waits for the first byte only.                      *)
WatcherFires_Disarmed ==
  /\ next # "returned" /\ ~expired /\ ~gone /\ ~started
  /\ expired' = TRUE
  /\ UNCHANGED <<pair, answer, conv, down, terminal, chunks, writing, next, sent, started, gone,
                 result>>

(* The watcher's timer, which counts from the last byte that was read: it  *)
(* may fire while a write takes long, too.                                 *)
WatcherFires ==
  /\ next # "returned" /\ ~expired /\ ~gone
  /\ expired' = TRUE
  /\ UNCHANGED <<pair, answer, conv, down, terminal, chunks, writing, next, sent, started, gone,
                 result>>

Leave ==
  /\ next # "returned" /\ ~gone
  /\ gone' = TRUE
  /\ UNCHANGED <<pair, answer, conv, down, terminal, chunks, writing, next, sent, started, expired,
                 result>>

Next ==
  \/ Receive \/ ConvertChunk \/ TellBroken \/ Write \/ WriteCancelled \/ ReadFails \/ Oversized
  \/ Finish \/ CloseDown \/ Settle \/ Report \/ WatcherFires \/ Leave

Spec == Init /\ [][Next]_vars

(* The loop runs, a write has a deadline, and an upstream that has fallen  *)
(* silent makes the watcher fire, which closes the body; nobody is obliged *)
(* to send, to fail or to leave.                                           *)
FairSpec ==
  /\ Spec
  /\ WF_vars(ConvertChunk) /\ WF_vars(TellBroken) /\ WF_vars(Write) /\ WF_vars(WriteCancelled)
  /\ WF_vars(ReadFails /\ (gone \/ expired))
  /\ WF_vars(Finish) /\ WF_vars(CloseDown) /\ WF_vars(Settle) /\ WF_vars(Report)
  /\ WF_vars(WatcherFires)
-----------------------------------------------------------------------------
Converting == ~pair.native /\ pair.down \in {"anthropic", "responses"}

Positions == 1 .. Len(sent)
All(kind) == {i \in Positions : sent[i].kind = kind}

(* A converted stream of Anthropic or Responses is well formed: it starts  *)
(* once and first, every piece is in a block that is open, no two blocks   *)
(* share a place, the end comes after all of them were closed, and nothing *)
(* comes after the end.                                                    *)
WellFormed ==
  Converting =>
    /\ \A i \in All("start") : i = 1
    /\ \A i, j \in All("open") : sent[i].at = sent[j].at => i = j
    /\ \A i \in All("delta") \cup All("close") :
         /\ \E j \in All("open") : j < i /\ sent[j].at = sent[i].at
         /\ ~\E j \in All("close") : j < i /\ sent[j].at = sent[i].at
    /\ \A i \in All("end") :
         /\ i = Len(sent)
         /\ \A j \in All("open") : \E k \in All("close") : sent[k].at = sent[j].at

(* A client is told of an end only if the upstream came to one that was no *)
(* failure (a provider of the OpenAI protocol may fail after its finish    *)
(* reason), and an answer that was cut short is told as one: a truncated   *)
(* stream never passes for a complete one.                                 *)
TruthfulEnd ==
  ~pair.native =>
    \A i \in All("end") \cup All("finish") :
      /\ terminal.complete /\ sent[i].reason # "error"
      /\ terminal.failed => sent[i].kind = "finish"
      /\ terminal.incomplete => sent[i].reason \in Cut \cup {"none"}

Pieces(frame, part) ==
  IF frame.kind = "delta" /\ frame.of = part THEN frame.size ELSE 0

Total(sizes) ==
  LET sum[n \in 0 .. Len(sizes)] == IF n = 0 THEN 0 ELSE sum[n - 1] + sizes[n]
  IN sum[Len(sizes)]

Arrived(frames, part) == Total([i \in 1 .. Len(frames) |-> Pieces(frames[i], part)])

(* What the upstream said of each call, and its text, has all arrived when *)
(* the stream is reported as a success, none of it twice, although the     *)
(* Responses protocol repeats the arguments up to three times.             *)
AllArrives ==
  ~pair.native /\ result \in {"ok", "incomplete"} =>
    \A p \in Parts : Arrived(sent, p) = answer.total[p]

(* A piece of a call reaches the block of that call                        *)
(* (docs/relay-reliability-and-request-logs.md:8).                         *)
RightBlock ==
  Converting =>
    \A i \in All("delta"), j \in All("open") : sent[j].at = sent[i].at => sent[j].of = sent[i].of

(* What the relay is told is an outcome it expects (Relay), and a stream   *)
(* that came to its terminal event is never reported as one that fell      *)
(* silent, although the watcher may fire while its last events are         *)
(* written.  A write that fails or is late is not the channel's fault; but *)
(* a slow client can still cost the channel a failure: writes that take    *)
(* long let the watcher's timer run out, and what the next read then       *)
(* reports is a channel that was idle.                                     *)
RelayKnows ==
  /\ result \in Categories \ {"ok", "cancelled"} =>
       Outcome(IF ~started THEN <<>>
               ELSE IF result \in Failing THEN <<"frames", "error">> ELSE <<"frames">>,
               result \in Blamed, result \in Repeatable, NeedsFrame(result))
         \in StreamOutcomes
  /\ result = "idle" => expired /\ ~terminal.complete

(* A stream is over once its client has left or its upstream is silent,    *)
(* whatever the client reads: the bound on the events makes the upstream   *)
(* fall silent in the end.                                                 *)
Returns == <>(next = "returned")
=============================================================================
