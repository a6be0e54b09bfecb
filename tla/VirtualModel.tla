---------------------------- MODULE VirtualModel ----------------------------
(***************************************************************************)
(* A request for a virtual model: it goes to the main model, and its       *)
(* images are replaced by what a vision model says of them                 *)
(* (internal/router/virtual_model.go, images.go, router.go,                *)
(* internal/store/virtual_model.go, internal/handler/virtual_model.go).    *)
(*                                                                         *)
(* A message is its kind and its blocks.  "image" is an image the router   *)
(* can show to the vision model, "blank" one without data, "opaque" one    *)
(* that it cannot read (a file id, an unknown source).  "nested" is an     *)
(* image inside a tool's result, where no function of images.go looks.     *)
(* The administrator edits the virtual model and the main model while a    *)
(* request is served.                                                      *)
(***************************************************************************)
EXTENDS Naturals, Sequences, FiniteSets, FiniteSetsExt

CONSTANTS Protocols,     \* of the client: openai, anthropic, responses
          MaxMessages,   \* bound: messages of a request
          MaxCandidates  \* bound: rows of the vision model

Kinds == {"user", "assistant", "tool"}
\* Bound: the contents a message may have; <<>> is a plain string.
Contents == {<<>>, <<"text", "image">>, <<"image", "image">>, <<"nested", "image">>,
             <<"opaque">>, <<"blank">>, <<"nested">>}
Messages == [kind : Kinds, blocks : Contents]
NoRow    == [status |-> "none"]
VMs      == [status : {"active", "inactive"}, vision : BOOLEAN]

VARIABLES row,       \* the virtual model in the table
          sight,     \* SupportsVisionByModelID of the main model
          request,   \* protocol, messages and stream, as they came
          vm,        \* the row that Transform has read
          phase,     \* of Transform
          left,      \* candidates of the vision model not yet tried
          answer,    \* descriptions: none, a failure, or the vision model's
          calls,     \* upstreams asked, and how many of them are recorded
          preface,   \* was the client told that images are being analysed
          result

vars == <<row, sight, request, vm, phase, left, answer, calls, preface, result>>

-----------------------------------------------------------------------------
(* Images of a request                                                      *)

Indexes(m, types) == {k \in DOMAIN m.blocks : m.blocks[k] \in types}

\* What the clients of a protocol send: images as data, which may be empty, only in
\* that of Anthropic, whose tool results are blocks of a user's message; those of
\* Responses are items without content, their images are part of the output.
Sendable(p, m) ==
    /\ Indexes(m, {"blank"}) # {} => p = "anthropic"
    /\ Indexes(m, {"nested"}) # {} => <<p, m.kind>> \in {<<"anthropic", "user">>, <<"responses", "tool">>}
    /\ p = "anthropic" => m.kind # "tool"
    /\ p = "responses" /\ m.kind = "tool" => m.blocks \in {<<>>, <<"nested">>}

\* What an extraction counts, and what a replacement replaces.
Extracted(p) == IF p = "anthropic" THEN {"image", "blank"} ELSE {"image"}

\* Mutant: an image that cannot be shown stays where it is.
Replaceable_Readable(p) == {"image"}

Replaceable(p) == IF p = "openai" THEN {"image"} ELSE {"image", "blank", "opaque"}

\* A message that has been answered: by an assistant; among the items of a
\* Responses request, also by any other message.
Covers(p, m) == m.kind = "assistant" \/ (p = "responses" /\ m.kind = "user")

\* ExtractLatestUserImages: the last message of a user that has images,
\* unless another one covers it; 0 when there is none.
Latest(p, ms) ==
    LET shown == {i \in DOMAIN ms : ms[i].kind = "user" /\ Indexes(ms[i], Extracted(p)) # {}}
        last  == Max(shown)
    IN IF shown = {} \/ \E j \in DOMAIN ms : j > last /\ Covers(p, ms[j]) THEN 0 ELSE last

\* ReplaceImages: the last message of any kind that has images gets the
\* descriptions, an image without one and every earlier image a placeholder.
\* Other blocks are kept, with the images inside them.
LastWith(p, ms) == Max({i \in DOMAIN ms : Indexes(ms[i], Replaceable(p)) # {}})
ReplaceImages(p, ms, descriptions) ==
    LET rank(i, k) == Cardinality({h \in Indexes(ms[i], Replaceable(p)) : h <= k})
        block(i, k) ==
           IF ms[i].blocks[k] \notin Replaceable(p) THEN ms[i].blocks[k]
           ELSE IF i = LastWith(p, ms) /\ rank(i, k) <= Len(descriptions)
                THEN descriptions[rank(i, k)] ELSE "placeholder"
    IN [i \in DOMAIN ms |-> [ms[i] EXCEPT !.blocks =
                               [k \in DOMAIN ms[i].blocks |-> block(i, k)]]]

-----------------------------------------------------------------------------
(* The administrator                                                        *)

EditRow ==  \* Create, Update, Toggle and Delete
    /\ row' \in VMs \cup {NoRow}
    /\ UNCHANGED <<sight, request, vm, phase, left, answer, calls, preface, result>>
EditModel ==
    /\ sight' = ~sight
    /\ UNCHANGED <<row, request, vm, phase, left, answer, calls, preface, result>>

-----------------------------------------------------------------------------
(* Transform                                                                *)

Request == UNCHANGED <<row, sight, request>>
End(r)  == phase' = "done" /\ result' = r /\ UNCHANGED <<vm, left, answer, calls, preface>>
Error   == [kind |-> "error"]
Body(model, ms) == [kind |-> "body", model |-> model, messages |-> ms]

\* Match: a row of that name; otherwise the request goes on as it came.
Match ==
    /\ phase = "match"
    /\ IF row = NoRow THEN End(Body("own", request.messages))
       ELSE phase' = "transform" /\ UNCHANGED <<vm, left, answer, calls, preface, result>>
    /\ Request

\* Transform reads the row again.  Without a vision model, a main model that
\* sees gets the request with only the model replaced.
Transform ==
    /\ phase = "transform"
    /\ \/ row = NoRow /\ End(Body("own", request.messages))
       \/ row.status = "inactive" /\ End(Error)
       \/ /\ row.status = "active"
          /\ IF ~row.vision /\ sight THEN End(Body("main", request.messages))
             ELSE /\ vm' = row /\ phase' = "images"
                  /\ UNCHANGED <<left, answer, calls, preface, result>>
    /\ Request

\* No image is new: the model is replaced, images of earlier turns stay.  The
\* sight of the main model is asked for again when there is no vision model.
Usable == \E k \in DOMAIN request.messages[Latest(request.protocol, request.messages)].blocks :
             request.messages[Latest(request.protocol, request.messages)].blocks[k] = "image"
Images ==
    /\ phase = "images"
    /\ LET p == request.protocol
           ms == request.messages
       IN CASE Latest(p, ms) = 0 -> End(Body("main", ms))
            [] Latest(p, ms) # 0 /\ ~vm.vision ->
                 IF sight THEN End(Body("main", ms)) ELSE End(Error)
            [] Latest(p, ms) # 0 /\ vm.vision /\ ~Usable ->
                 End(Body("main", ReplaceImages(p, ms, <<>>)))
            [] OTHER ->
                 \/ request.stream /\ End(Error)   \* the client is gone
                 \/ /\ phase' = "describe" /\ preface' = request.stream
                    /\ left' \in 0..MaxCandidates
                    /\ UNCHANGED <<vm, answer, calls, result>>
    /\ Request

\* A response without text is no description; of the requests that were made a
\* failed one, an error status and a description are recorded.
Outcomes == {"skipped", "failed", "empty", "text"}
Recorded(outcome) == outcome \in {"failed", "text"}

\* describeImages tries the candidates in turn; one whose channel is not an
\* active OpenAI one is passed over.
Ask ==
    /\ phase = "describe" /\ answer = "none" /\ left > 0
    /\ left' = left - 1
    /\ \E outcome \in Outcomes :
          /\ calls' = [made     |-> calls.made + (IF outcome = "skipped" THEN 0 ELSE 1),
                       recorded |-> calls.recorded + (IF Recorded(outcome) THEN 1 ELSE 0)]
          /\ answer' = IF outcome = "text" THEN "description" ELSE "none"
    /\ Request /\ UNCHANGED <<vm, phase, preface, result>>

\* The one description, or the instruction to say that it failed, replaces
\* the images.
Describe ==
    /\ phase = "describe"
    /\ answer = "description" \/ left = 0
    /\ LET text == IF answer = "description" THEN answer ELSE "failure"
       IN End(Body("main", ReplaceImages(request.protocol, request.messages, <<text>>)))
    /\ Request

-----------------------------------------------------------------------------
Init ==
    /\ row \in VMs /\ sight \in BOOLEAN
    /\ \E n \in 1..MaxMessages : request \in
          [protocol : Protocols, stream : BOOLEAN,
           messages : [1..n -> Messages]]
    /\ \A i \in DOMAIN request.messages : Sendable(request.protocol, request.messages[i])
    /\ request.protocol # "openai" => ~request.stream  \* no preface for the others
    /\ vm = NoRow /\ phase = "match" /\ left = 0 /\ answer = "none"
    /\ calls = [made |-> 0, recorded |-> 0]
    /\ preface = FALSE /\ result = NoRow

Serve == Match \/ Transform \/ Images \/ Ask \/ Describe
Next  == phase # "done" /\ (EditRow \/ EditModel \/ Serve)
Spec  == Init /\ [][Next]_vars

-----------------------------------------------------------------------------
TypeOK ==
    /\ row \in VMs \cup {NoRow} /\ vm \in VMs \cup {NoRow} /\ sight \in BOOLEAN
    /\ phase \in {"match", "transform", "images", "describe", "done"}
    /\ left \in 0..MaxCandidates
    /\ answer \in {"none", "description"}
    /\ calls.recorded \in 0..calls.made /\ calls.made \in 0..MaxCandidates
    /\ preface \in BOOLEAN

Sent == phase = "done" /\ result.kind = "body"
ImagesIn(ms) == {i \in DOMAIN ms : Indexes(ms[i], {"image", "blank"}) # {}}

\* When a new image met a virtual model with a vision model, whether that was asked
\* or could not be, the main model gets none of the images of the messages' own
\* content, those of earlier turns included, and everything else in its place,
\* images inside tool results too; it gets one description, or one instruction that
\* it failed, where the last images were; and what was described was paid for.
ImagesDescribed ==
    Sent /\ vm # NoRow /\ vm.vision /\ Latest(request.protocol, request.messages) # 0 =>
      LET ms == result.messages
          put(t) == {x \in (DOMAIN ms) \X (1..2) :
                       x[2] \in DOMAIN ms[x[1]].blocks /\ ms[x[1]].blocks[x[2]] = t}
          told == put("description") \cup put("failure")
      IN /\ result.model = "main" /\ ImagesIn(ms) = {}
         /\ \A i \in DOMAIN ms, k \in 1..2 :
               k \in DOMAIN ms[i].blocks /\ request.messages[i].blocks[k] \in {"text", "nested"} =>
                  ms[i].blocks[k] = request.messages[i].blocks[k]
         /\ Cardinality(told) = IF Usable THEN 1 ELSE 0
         /\ \A x \in told : x[1] >= Latest(request.protocol, request.messages)
         /\ (put("description") # {}) = (answer = "description")
         /\ answer = "description" => calls.recorded > 0
=============================================================================
