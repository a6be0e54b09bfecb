-------------------------- MODULE StreamConverters --------------------------
(***************************************************************************)
(* How a stream of one protocol becomes a stream of another: the stream    *)
(* converters of internal/adapter and streamTerminal of handler.           *)
(*                                                                         *)
(* An upstream event is turned into chunks of the canonical protocol (the  *)
(* one of OpenAI), and each of those into frames for the client.  The four *)
(* protocols share one vocabulary here, because they say the same things   *)
(* in different words:                                                     *)
(*   event  begin, text, call, args, item, finish, end, error              *)
(*   chunk  role, text, call, finish, done, error                          *)
(*   frame  start, open, delta, close, finish, end, error                  *)
(* A chunk with several parts is several chunks.  Text is a piece of a     *)
(* fixed size, and the arguments of a tool call are the number of pieces   *)
(* they consist of.                                                        *)
(***************************************************************************)
EXTENDS Integers, Sequences, SequencesExt

CONSTANT MaxTools  \* tool calls in an answer

ASSUME ToolsAssumption == MaxTools \in Nat

(* What a part of the answer belongs to: its text, or one of its calls.    *)
TheText == -1
Tools == 0 .. MaxTools - 1

(* "filter" stands for content_filter, refusal, SAFETY and their like.     *)
Cut == {"length", "filter"}
Reasons == {"stop", "error"} \cup Cut

(* Chunks.  "tool" is what the chunk says, "index" what it is filed under. *)
Role == [kind |-> "role"]
Text == [kind |-> "text"]
CallChunk(index, tool, named, size) ==
  [kind |-> "call", index |-> index, tool |-> tool, named |-> named, size |-> size]
FinishChunk(reason) == [kind |-> "finish", reason |-> reason]
Done == [kind |-> "done"]
Failure == [kind |-> "error"]

(* Frames.  "at" is the place of a block in the answer, from 0.            *)
Start == [kind |-> "start"]
Open(at, of) == [kind |-> "open", at |-> at, of |-> of]
Delta(at, of, size) == [kind |-> "delta", at |-> at, of |-> of, size |-> size]
Close(at) == [kind |-> "close", at |-> at]
FinishFrame(reason) == [kind |-> "finish", reason |-> reason]
End(reason) == [kind |-> "end", reason |-> reason]
Error == [kind |-> "error"]

Few(condition, frame) == IF condition THEN <<frame>> ELSE <<>>

Has(seq, kind) == \E i \in 1 .. Len(seq) : seq[i].kind = kind

-----------------------------------------------------------------------------
(* streamTerminal *)

NoTerminal ==
  [complete |-> FALSE, incomplete |-> FALSE, failed |-> FALSE, stopNow |-> FALSE, length |-> FALSE]

Complete(t, incomplete, failed) ==
  [t EXCEPT !.complete = TRUE, !.stopNow = TRUE, !.incomplete = incomplete, !.failed = failed]

Ends(protocol, t, e) ==
  CASE protocol = "openai" \/ protocol = "anthropic" -> Complete(t, t.length, t.failed)
    [] protocol = "responses" -> Complete(t, e.reason \in Cut, e.reason = "error")

Finishes(protocol, t, e) ==
  CASE protocol = "openai" /\ e.reason = "error" -> Complete(t, t.length, TRUE)
    [] protocol = "openai" /\ e.reason # "error" ->
         LET length == t.length \/ e.reason \in Cut
         IN [t EXCEPT !.complete = TRUE, !.length = length, !.incomplete = length]
    [] protocol = "anthropic" -> [t EXCEPT !.length = @ \/ e.reason = "length"]
    [] protocol = "gemini" -> Complete(t, e.reason \in Cut, e.reason = "error")

Observe(protocol, terminal, e) ==
  LET t == [terminal EXCEPT !.stopNow = FALSE]
  IN CASE e.kind = "error"  -> Complete(t, t.incomplete, TRUE)
       [] e.kind = "end"    -> Ends(protocol, t, e)
       [] e.kind = "finish" -> Finishes(protocol, t, e)
       [] OTHER -> t

-----------------------------------------------------------------------------
(* Upstream converters.  Each returns its next state and the chunks.       *)

(* Mutant: no finish reason until the upstream gives one.                  *)
NoUp_Silent ==
  [started |-> FALSE, finished |-> FALSE, terminal |-> FALSE, failed |-> FALSE,
   reason |-> "none", count |-> 0,
   index |-> [t \in Tools |-> -1], got |-> [t \in Tools |-> 0]]

NoUp ==
  [started |-> FALSE, finished |-> FALSE, terminal |-> FALSE, failed |-> FALSE,
   reason |-> "stop", count |-> 0,
   index |-> [t \in Tools |-> -1], got |-> [t \in Tools |-> 0]]

Step(state, out) == [state |-> state, out |-> out]

Started(s) == [s EXCEPT !.started = TRUE]

(* anthropicUpstreamStreamConverter: arguments go to the latest call.      *)
FromAnthropic(s, e) ==
  CASE e.kind = "begin"  -> Step(Started(s), <<Role>>)
    [] e.kind = "text"   -> Step(s, <<Text>>)
    [] e.kind = "call"   -> Step([s EXCEPT !.count = @ + 1], <<CallChunk(s.count, e.tool, TRUE, 0)>>)
    [] e.kind = "args"   -> Step(s, <<CallChunk(s.count - 1, e.tool, FALSE, 1)>>)
    [] e.kind = "finish" -> Step([s EXCEPT !.reason = e.reason], <<>>)
    [] e.kind = "end"    -> Step(s, <<>>)

(* geminiUpstreamStreamConverter: the last event may carry text, too.      *)
FromGemini(s, e) ==
  LET known == IF e.kind = "finish" THEN [s EXCEPT !.reason = e.reason] ELSE s
  IN IF e.kind = "text" \/ (e.kind = "finish" /\ e.text)
       THEN Step(Started(known), Few(~s.started, Role) \o <<Text>>)
       ELSE Step(known, <<>>)

(* Mutant: arguments that are repeated in full are passed on in full.      *)
AddTool_Repeats(s, tool, named, size) ==
  LET new == s.index[tool] = -1
      n == [s EXCEPT !.started = TRUE, !.index[tool] = s.count, !.count = @ + 1]
      k == IF new THEN n ELSE s
  IN IF new /\ ~named
       THEN Step([s EXCEPT !.failed = TRUE], <<Failure>>)
       ELSE Step([k EXCEPT !.got[tool] = size],
              (IF new THEN Few(~s.started, Role) \o <<CallChunk(k.index[tool], tool, TRUE, 0)>>
                      ELSE <<>>)
              \o Few(size > 0, CallChunk(k.index[tool], tool, FALSE, size)))

(* addTool: a new call needs its identity, and only the suffix of its      *)
(* arguments that was not seen yet is passed on.                           *)
AddTool(s, tool, named, size) ==
  LET new == s.index[tool] = -1
      n == [s EXCEPT !.started = TRUE, !.index[tool] = s.count, !.count = @ + 1]
      k == IF new THEN n ELSE s
      more == size - s.got[tool]
  IN IF new /\ ~named
       THEN Step([s EXCEPT !.failed = TRUE], <<Failure>>)
       ELSE Step(IF more > 0 THEN [k EXCEPT !.got[tool] = size] ELSE k,
              (IF new THEN Few(~s.started, Role) \o <<CallChunk(k.index[tool], tool, TRUE, 0)>>
                      ELSE <<>>)
              \o Few(more > 0, CallChunk(k.index[tool], tool, FALSE, more)))

(* function_call_arguments.delta and .done                                 *)
AddArguments(s, tool, more) ==
  IF s.index[tool] = -1
    THEN Step([s EXCEPT !.failed = TRUE], <<Failure>>)
    ELSE Step([s EXCEPT !.got[tool] = @ + more],
              Few(more > 0, CallChunk(s.index[tool], tool, FALSE, more)))

(* The calls that response.completed repeats, one after the other.         *)
AddOutput(s, output) ==
  LET after[n \in 0 .. Len(output)] ==
        IF n = 0 THEN Step(s, <<>>)
        ELSE LET last == after[n - 1]
                 item == output[n]
                 more == AddTool(last.state, item.tool, item.named, item.size)
             IN IF last.state.failed THEN last ELSE Step(more.state, last.out \o more.out)
  IN after[Len(output)]

(* Mutant: response.incomplete is taken for response.completed.            *)
Terminated_Whole(s, reason) == [s EXCEPT !.terminal = TRUE, !.reason = "stop"]

Terminated(s, reason) ==
  [s EXCEPT !.terminal = TRUE, !.reason = IF reason \in Cut THEN "length" ELSE "stop"]

(* responsesUpstreamStreamConverter: when the output of the last event     *)
(* cannot be converted, only the failure is passed on.                     *)
FromResponses(s, e) ==
  CASE s.failed \/ s.terminal -> Step(s, <<>>)
    [] OTHER ->
       CASE e.kind = "begin" -> Step(s, <<>>)
         [] e.kind = "text"  -> Step(Started(s), Few(~s.started, Role) \o <<Text>>)
         [] e.kind = "call"  -> AddTool(s, e.tool, e.named, e.size)
         [] e.kind = "args"  -> AddArguments(s, e.tool, 1)
         [] e.kind = "full"  -> AddArguments(s, e.tool, e.size - s.got[e.tool])
         [] e.kind = "end"   ->
              LET all == AddOutput(s, e.output)
              IN IF all.state.failed THEN Step(all.state, <<Failure>>)
                 ELSE Step(Terminated(all.state, e.reason), all.out)

(* An OpenAI stream is canonical as it is: there is no converter.          *)
FromOpenAI(s, e) ==
  Step(s, CASE e.kind = "begin"  -> <<Role>>
            [] e.kind = "text"   -> <<Text>>
            [] e.kind = "call"   -> <<CallChunk(e.tool, e.tool, e.named, e.size)>>
            [] e.kind = "finish" -> <<FinishChunk(e.reason)>>
            [] e.kind = "end"    -> <<Done>>)

FromUpstream(protocol, s, e) ==
  CASE protocol = "openai"    -> FromOpenAI(s, e)
    [] protocol = "anthropic" -> FromAnthropic(s, e)
    [] protocol = "gemini"    -> FromGemini(s, e)
    [] protocol = "responses" -> FromResponses(s, e)

(* Finish of the three upstream converters.                                *)
UpFinish(protocol, s) ==
  IF protocol = "openai" \/ s.finished \/ s.failed \/ (protocol = "responses" /\ ~s.terminal)
    THEN Step(s, <<>>)
    ELSE Step([Started(s) EXCEPT !.finished = TRUE],
              Few(~s.started, Role) \o <<FinishChunk(s.reason), Done>>)
-----------------------------------------------------------------------------
(* Downstream converters.  "items" are the blocks of the answer, each with *)
(* what it is filed under, what it is, and for a call whether its identity *)
(* is known (it is announced then) and how much of its arguments was seen. *)

NoDown ==
  [started |-> FALSE, finished |-> FALSE, terminal |-> FALSE, failed |-> FALSE,
   reason |-> "stop", items |-> <<>>]

Item(key, of) == [key |-> key, of |-> of, named |-> key = TheText, size |-> 0]

Place(items, key) == SelectInSeq(items, LAMBDA i : i.key = key)

(* The items with one for the key, which may have been there before.       *)
Including(items, key, of) ==
  IF Place(items, key) = 0 THEN Append(items, Item(key, of)) ELSE items

Key(c) == IF c.kind = "text" THEN TheText ELSE c.index
Of(c) == IF c.kind = "text" THEN TheText ELSE c.tool
Size(c) == IF c.kind = "text" THEN 1 ELSE c.size

Hello(d) == Few(~d.started, Start)

(* anthropicStreamConverter.Convert: a piece goes to the latest block.     *)
ToAnthropic(d, c) ==
  CASE c.kind = "done" -> Step(d, <<>>)
    [] c.kind = "text" \/ c.kind = "call" ->
         LET items == Including(d.items, Key(c), Of(c))
             new == items # d.items
         IN Step([Started(d) EXCEPT !.items = items],
                 Hello(d) \o Few(new, Open(Len(d.items), Of(c)))
                          \o Few(Size(c) > 0, Delta(Len(items) - 1, Of(c), Size(c))))
    [] c.kind = "finish" -> Step([Started(d) EXCEPT !.reason = c.reason], Hello(d))
    [] OTHER -> Step(Started(d), Hello(d))

(* responsesDownStreamConverter.Convert, the part about one call: it is    *)
(* announced as soon as its identity is known, with what came before that. *)
CallToResponses(d, c) ==
  LET items == Including(d.items, c.index, c.tool)
      at == Place(items, c.index)
      old == items[at]
      item == [old EXCEPT !.named = @ \/ c.named, !.size = @ + c.size]
      news == IF old.named THEN c.size ELSE item.size
  IN Step([d EXCEPT !.items = [items EXCEPT ![at] = item]],
          Few(item.named /\ ~old.named, Open(at - 1, c.tool))
          \o Few(item.named /\ news > 0, Delta(at - 1, c.tool, news)))

TextToResponses(d) ==
  LET items == Including(d.items, TheText, TheText)
      at == Place(items, TheText)
  IN Step([d EXCEPT !.items = items],
          Few(items # d.items, Open(at - 1, TheText)) \o <<Delta(at - 1, TheText, 1)>>)

After(hello, step) == Step(step.state, hello \o step.out)

Failed(d) == [d EXCEPT !.failed = TRUE]

ToResponses(d, c) ==
  LET s == Started(d)
  IN CASE d.finished \/ d.failed -> Step(d, <<>>)
       [] OTHER ->
          CASE c.kind = "done"  -> Step([d EXCEPT !.terminal = TRUE], <<>>)
            [] c.kind = "error" -> Step(Failed(d), <<Error>>)
            [] c.kind = "role"  -> Step(s, Hello(d))
            [] c.kind = "text"  -> After(Hello(d), TextToResponses(s))
            [] c.kind = "call"  -> After(Hello(d), CallToResponses(s, c))
            [] c.kind = "finish" /\ c.reason = "error" -> Step(Failed(s), Hello(d) \o <<Error>>)
            [] c.kind = "finish" /\ c.reason # "error" ->
                 Step([s EXCEPT !.terminal = TRUE, !.reason = c.reason], Hello(d))

(* openaiStreamConverter passes everything on.                             *)
ToOpenAI(d, c) ==
  Step(d, CASE c.kind = "role"   -> <<Start>>
            [] c.kind = "text"   -> <<Delta(TheText, TheText, 1)>>
            [] c.kind = "call"   -> Few(c.named, Open(c.index, c.tool))
                                    \o Few(c.size > 0, Delta(c.index, c.tool, c.size))
            [] c.kind = "finish" -> <<FinishFrame(c.reason)>>
            [] c.kind = "done"   -> <<End("none")>>
            [] c.kind = "error"  -> <<Error>>)

ToDownstream(protocol, d, c) ==
  CASE protocol = "openai"    -> ToOpenAI(d, c)
    [] protocol = "anthropic" -> ToAnthropic(d, c)
    [] protocol = "responses" -> ToResponses(d, c)

Closes(items) == [i \in 1 .. Len(items) |-> Close(i - 1)]

(* Mutant: a call whose identity never came is completed all the same.     *)
DownFinish_Trusts(protocol, d) ==
  IF protocol = "openai" \/ d.finished \/ (protocol = "responses" /\ (d.failed \/ ~d.terminal))
    THEN Step(d, <<>>)
    ELSE Step([Started(d) EXCEPT !.finished = TRUE],
              Hello(d) \o Closes(d.items) \o <<End(d.reason)>>)

(* Finish of the downstream converters; one of Responses has to have seen  *)
(* the end, and the identity of every call.                                *)
DownFinish(protocol, d) ==
  LET done == [Started(d) EXCEPT !.finished = TRUE]
  IN CASE protocol = "openai" \/ d.finished \/ (protocol = "responses" /\ (d.failed \/ ~d.terminal)) ->
            Step(d, <<>>)
       [] OTHER ->
          IF protocol = "responses" /\ \E i \in 1 .. Len(d.items) : ~d.items[i].named
            THEN Step(Failed(done), Hello(d) \o <<Error>>)
            ELSE Step(done, Hello(d) \o Closes(d.items) \o <<End(d.reason)>>)

(* convertedTerminal: what the client takes for the end.                   *)
Concludes(protocol, frames) ==
  Has(frames, "end") \/ (protocol = "openai" /\ Has(frames, "finish"))

(* convertedStreamFailed *)
Fails(seq) == \E i \in 1 .. Len(seq) :
  seq[i].kind = "error" \/ (seq[i].kind = "finish" /\ seq[i].reason = "error")
=============================================================================
