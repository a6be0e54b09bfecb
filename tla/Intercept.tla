------------------------------ MODULE Intercept ------------------------------
(***************************************************************************)
(* One client connection of the intercepting proxy                         *)
(* (internal/proxy/server.go, adapter.go, router.go): a CONNECT is         *)
(* tunnelled or decrypted; a decrypted connection is a loop over requests  *)
(* written to a raw socket; a request with an absolute URL goes through    *)
(* the HTTP server.  The answer to the current request is kept as the      *)
(* sources of its response heads and of the bytes that follow them: the    *)
(* proxy itself, a remote host, or a channel.                              *)
(*                                                                         *)
(* What the API key allows, which rows the model table holds, what an      *)
(* upstream says and when a timer fires are choices; the administrator     *)
(* disables and deletes channels while a request tries them.  A vision     *)
(* model that the rules of the router call for a plain request has a usage *)
(* record and a charge of its own (router/virtual_model.go), not kept here.*)
(***************************************************************************)
EXTENDS Naturals, Sequences, FiniteSets, SequencesExt

CONSTANTS Channels,
          MaxRows,      \* bound: rows that a request's model resolves to
          MaxRequests   \* bound: requests on the connection

Kinds == {"models", "ping", "get", "post", "plain", "stream"}
Proxy == "proxy"
Host  == "host"

VARIABLES via,      \* "mitm" or "http", chosen by the first request
          phase,
          kind,     \* of the current request; wantClose: it says Connection: close
          wantClose,
          open,     \* is the client still there
          healthy,  \* does the host of other requests answer
          flows,    \* directions of a tunnel that are still copied
          channel,  \* status of each channel in the table
          todo,     \* channels of the candidates not yet tried
          wrote,    \* dataWritten
          heads,    \* who wrote a response head to this request
          pieces,   \* who wrote bytes of a body
          billed,   \* channels whose usage was recorded
          served    \* requests read so far

vars == <<via, phase, kind, wantClose, open, healthy, flows, channel, todo, wrote, heads,
          pieces, billed, served>>
request == <<kind, wantClose, served, healthy>>
answer  == <<heads, pieces, billed>>

-----------------------------------------------------------------------------
(* Writing to the client.  A write to a client that left is lost.           *)

\* writeHTTPResponse, writeHTTPResponseWithHeaders, writeJSONError, and the
\* ResponseWriter of the HTTP server: a head and a body in one.
Respond(who) ==
    /\ heads'  = IF open THEN Append(heads, who) ELSE heads
    /\ pieces' = IF open THEN pieces \cup {who} ELSE pieces

\* A decrypted connection is closed after a stream and after a request that
\* was passed on; after the others the loop reads the next request.
Closes(k) == wantClose \/ (via = "mitm" /\ k \in {"get", "post", "stream"})
Finish == phase' = IF Closes(kind) THEN "closed" ELSE "idle"

-----------------------------------------------------------------------------
(* The connection                                                           *)

\* handleConnect up to the loop: 407, a tunnel (whose dial may fail), or the
\* certificate and handshake.  handleHTTP checks every request, see RefuseUnread.
Connect ==
    /\ phase = "connect"
    /\ UNCHANGED <<request, open, channel, todo, wrote, billed>>
    /\ \/ via' = "http" /\ phase' = "idle" /\ UNCHANGED <<flows, heads, pieces>>
       \/ via' = "mitm" /\ phase' = "closed" /\ Respond(Proxy) /\ UNCHANGED flows
       \/ /\ via' = "mitm" /\ phase' = "tunnel" /\ flows' = {"up", "down"}
          /\ UNCHANGED <<heads, pieces>>
       \/ /\ via' = "mitm" /\ phase' \in {"idle", "closed"}
          /\ UNCHANGED <<flows, heads, pieces>>

\* A direction ends with its source; the other one is not told.
FlowEnds == \E f \in flows :
    /\ phase = "tunnel" /\ flows' = flows \ {f}
    /\ phase' = IF flows' = {} THEN "closed" ELSE "tunnel"
    /\ UNCHANGED <<via, request, open, channel, todo, wrote, answer>>

\* Mutant: the tunnel is closed when both directions have ended only.
TunnelTimer_None ==
    /\ phase = "tunnel" /\ flows' = {} /\ phase' = "closed" /\ flows = {}
    /\ UNCHANGED <<via, request, open, channel, todo, wrote, answer>>

\* The timer of 120 s closes both connections, whatever they still carry.
TunnelTimer ==
    /\ phase = "tunnel" /\ flows' = {} /\ phase' = "closed"
    /\ UNCHANGED <<via, request, open, channel, todo, wrote, answer>>

\* No request within 120 s (60 s of the HTTP server), or the end of the connection.
IdleEnds ==
    /\ phase = "idle" /\ phase' = "closed"
    /\ UNCHANGED <<via, request, open, flows, channel, todo, wrote, answer>>

ClientLeaves ==
    /\ phase # "closed" /\ open /\ open' = FALSE
    /\ UNCHANGED <<via, phase, request, flows, channel, todo, wrote, answer>>

\* The administrator, between two reads of a channel by GetByID.
EditChannel == \E c \in Channels : \E s \in {"active", "inactive", "gone"} :
    /\ phase = "try" /\ channel[c] # "gone" /\ s # channel[c]
    /\ channel' = [channel EXCEPT ![c] = s]
    /\ UNCHANGED <<via, phase, request, open, flows, todo, wrote, answer>>

-----------------------------------------------------------------------------
(* Requests                                                                 *)

\* The head of a request; the read deadline of a decrypted connection is cleared.
ReadHead ==
    /\ phase = "idle" /\ open /\ served < MaxRequests
    /\ phase' = "body"
    /\ UNCHANGED <<via, request, open, flows, channel, todo, wrote, answer>>

\* A body that the client breaks off, or that is malformed, ends a decrypted
\* connection without an answer.
BodyBreaks ==
    /\ phase = "body" /\ (via = "mitm" \/ ~open)
    /\ phase' = "closed"
    /\ UNCHANGED <<via, request, open, flows, channel, todo, wrote, answer>>

Begin == \E k \in Kinds : \E close \in BOOLEAN :
    /\ phase = "body" /\ served' = served + 1 /\ kind' = k /\ wantClose' = close
    /\ wrote' = FALSE /\ billed' = {}

\* handleHTTP: 407 for a request without credentials, before its body is read,
\* and 400 for a body that is broken or takes longer than the 60 s of the server.
RefuseUnread ==
    /\ via = "http" /\ Begin /\ phase' \in {"idle", "closed"}
    /\ heads' = (IF open THEN <<Proxy>> ELSE <<>>) /\ pieces' = (IF open THEN {Proxy} ELSE {})
    /\ UNCHANGED <<via, open, healthy, flows, channel, todo>>

\* The whole body has come, and the request is sorted: model list and ping only
\* on a decrypted connection, IsLLMRequest on both.
Route(k) == IF k \in {"plain", "stream"} THEN "resolve"
            ELSE IF via = "mitm" /\ k = "models" THEN "models"
            ELSE IF via = "mitm" /\ k = "ping" THEN "ping" ELSE "direct"
Read ==
    /\ Begin /\ phase' = Route(kind') /\ heads' = <<>> /\ pieces' = {}
    /\ UNCHANGED <<via, open, healthy, flows, channel, todo>>

\* The ping is answered by the proxy; so is the model list, or the refusal of
\* its key, or 502 when the table cannot be read.
AnswerAlone ==
    /\ phase \in {"ping", "models"}
    /\ Respond(Proxy) /\ Finish
    /\ UNCHANGED <<via, request, open, flows, channel, todo, wrote, billed>>

\* forwardDirect hands on the request whose body the loop has read and closed:
\* writing it fails when it had a body.  forwardHTTP hands on the bytes.
Sendable == via = "http" \/ kind # "post"
Forward ==
    /\ phase = "direct"
    /\ IF healthy /\ Sendable THEN Respond(Host)  \* the host's response, read whole
       ELSE Respond(Proxy)             \* dial, handshake, write or read fails: 502
    /\ Finish
    /\ UNCHANGED <<via, request, open, flows, channel, todo, wrote, billed>>

\* HandleLLMRequest and HandleLLMStreamRequest up to the candidates.  The key
\* is wrong, disabled, used up or not for this model, or the model is missing,
\* its virtual model fails (not for streams) or no row has it.
Streams  == kind = "stream" /\ via = "mitm"
Rejected == Respond(Proxy) /\ Finish /\ UNCHANGED todo

\* The active rows of the model, or of any model when there is none, ordered.
Candidates ==
    /\ \E rows \in BoundedSeq(Channels, MaxRows) : rows # <<>> /\ todo' = rows
    /\ phase' = "try" /\ UNCHANGED <<heads, pieces>>

Resolve ==
    /\ phase = "resolve" /\ (Rejected \/ Candidates)
    /\ UNCHANGED <<via, request, open, flows, channel, wrote, billed>>

\* A candidate whose channel is disabled or gone is passed over.
Usable(c) == channel[c] = "active"
Skip ==
    /\ phase = "try" /\ todo # <<>> /\ ~Usable(Head(todo))
    /\ todo' = Tail(todo)
    /\ UNCHANGED <<via, phase, request, open, flows, channel, wrote, answer>>

\* After output no other channel is tried.
Stop ==
    /\ phase = "try" /\ todo # <<>> /\ Usable(Head(todo)) /\ wrote
    /\ todo' = <<>>
    /\ UNCHANGED <<via, phase, request, open, flows, channel, wrote, answer>>

MaySend == phase = "try" /\ todo # <<>> /\ Usable(Head(todo)) /\ ~wrote

\* Mutant: the usage of a refused try is recorded.
SendFails_Billed ==
    /\ MaySend /\ todo' = Tail(todo) /\ billed' = billed \cup {Head(todo)}
    /\ UNCHANGED <<via, phase, request, open, flows, channel, wrote, heads, pieces>>

\* Conversion, connection or status of a try fail: the next channel.
SendFails ==
    /\ MaySend /\ todo' = Tail(todo)
    /\ UNCHANGED <<via, phase, request, open, flows, channel, wrote, answer>>

\* recordUsage: the record of a channel, and the charge of the key.
Bill(c) == billed' = billed \cup {c}

\* The response of one channel, read whole, recorded and written.
SendPlain ==
    /\ MaySend /\ ~Streams
    /\ Respond(Head(todo)) /\ Bill(Head(todo))
    /\ Finish /\ todo' = <<>>
    /\ UNCHANGED <<via, request, open, flows, channel, wrote>>

\* The head of a stream; a client that left may fail the write.
BeginStream ==
    /\ MaySend /\ Streams
    /\ \/ /\ phase' = "stream" /\ heads' = IF open THEN Append(heads, Head(todo)) ELSE heads
          /\ UNCHANGED <<todo, wrote>>
       \/ ~open /\ wrote' = TRUE /\ todo' = Tail(todo) /\ UNCHANGED <<phase, heads>>
    /\ UNCHANGED <<via, request, open, flows, channel, pieces, billed>>

\* One line is read and written.
StreamLine ==
    /\ phase = "stream"
    /\ pieces' = IF open THEN pieces \cup {Head(todo)} ELSE pieces
    /\ UNCHANGED <<via, phase, request, open, flows, channel, todo, wrote, heads, billed>>

\* End of the upstream: recorded, unless not a byte came.
StreamEnds ==
    /\ phase = "stream"
    /\ Bill(Head(todo)) \/ (~(open /\ Head(todo) \in pieces) /\ UNCHANGED billed)
    /\ Finish /\ todo' = <<>>
    /\ UNCHANGED <<via, request, open, flows, channel, wrote, heads, pieces>>

\* Mutant: a broken stream reports that nothing was written.
StreamBreaks_Unwritten ==
    /\ phase = "stream"
    /\ wrote' = FALSE /\ todo' = Tail(todo) /\ phase' = "try"
    /\ UNCHANGED <<via, request, open, flows, channel, answer>>

\* The upstream breaks or its idle timer closes the body: the loop over the
\* candidates goes on, with wroteData.  A client that left ends the request
\* without an error and without a record.
StreamBreaks ==
    /\ phase = "stream"
    /\ wrote' = TRUE /\ todo' = Tail(todo) /\ phase' = "try"
    /\ UNCHANGED <<via, request, open, flows, channel, answer>>

StreamAbandoned ==
    /\ phase = "stream" /\ ~open
    /\ Finish /\ todo' = <<>>
    /\ UNCHANGED <<via, request, open, flows, channel, wrote, answer>>

\* No candidate is left: 502, unless a stream has begun.
Exhausted ==
    /\ phase = "try" /\ todo = <<>>
    /\ IF wrote THEN UNCHANGED <<heads, pieces>> ELSE Respond(Proxy)
    /\ Finish
    /\ UNCHANGED <<via, request, open, flows, channel, todo, wrote, billed>>

-----------------------------------------------------------------------------
Init ==
    /\ via = "none" /\ phase = "connect" /\ kind = "ping" /\ wantClose = FALSE
    /\ open = TRUE /\ healthy \in BOOLEAN /\ flows = {} /\ channel \in [Channels -> {"active", "inactive"}]
    /\ todo = <<>> /\ wrote = FALSE
    /\ heads = <<>> /\ pieces = {} /\ billed = {} /\ served = 0

Serve == \/ Connect \/ AnswerAlone \/ Forward \/ Resolve \/ Skip \/ Stop
         \/ SendFails \/ SendPlain \/ BeginStream \/ Exhausted
Timers == TunnelTimer \/ IdleEnds \/ RefuseUnread \/ StreamBreaks
Next == \/ Serve \/ Timers \/ ReadHead \/ BodyBreaks \/ Read \/ StreamLine \/ StreamEnds \/ StreamAbandoned
        \/ FlowEnds \/ ClientLeaves \/ EditChannel

\* The goroutine of the connection runs, and its waits have timers: 120 s for a
\* tunnel and for a next request, the 60 s of the HTTP server, and the idle timer
\* for a silent stream; a read from a client that has left fails.  The body of a
\* request on a decrypted connection has no timer.  Writes to the client have none
\* either; they are taken to end, with or without an error.
Fairness == WF_vars(Serve) /\ WF_vars(Timers) /\ WF_vars(BodyBreaks /\ ~open)
Spec == Init /\ [][Next]_vars

-----------------------------------------------------------------------------
TypeOK ==
    /\ via \in {"none", "mitm", "http"}
    /\ phase \in {"connect", "tunnel", "idle", "body", "models", "ping", "direct", "resolve",
                  "try", "stream", "closed"}
    /\ kind \in Kinds /\ wantClose \in BOOLEAN /\ {open, healthy} \subseteq BOOLEAN /\ wrote \in BOOLEAN
    /\ flows \subseteq {"up", "down"} /\ channel \in [Channels -> {"active", "inactive", "gone"}]
    /\ todo \in Seq(Channels) /\ heads \in Seq(Channels \cup {Proxy, Host})
    /\ pieces \subseteq Channels \cup {Proxy, Host} /\ billed \subseteq Channels
    /\ served \in 0 .. MaxRequests

\* A request whose client stayed gets exactly one response head, and nothing
\* but what the one who wrote the head says follows it, however many channels
\* were tried, disabled or broken ("后续任何失败都不能再切换到下一渠道，否则会污染
\* 已发送的响应", adapter.go).
OneAnswer ==
    /\ Len(heads) <= 1
    /\ \A p \in pieces : Contains(heads, p)
    /\ served > 0 /\ phase \in {"idle", "closed"} /\ open => Len(heads) = 1

\* Usage is recorded, and the quota charged, at most once for a request, and
\* for the channel whose response the client got.
BilledIsDelivered ==
    /\ Cardinality(billed) <= 1
    /\ open => \A c \in billed : Contains(heads, c)

\* A request that is not for a model gets the response of its host when the
\* host answers ("直接转发解密后的请求到上游", server.go, forwardDirect).
PassedWhole ==
    /\ via = "mitm" /\ kind \in {"get", "post"} /\ served > 0
    /\ phase \in {"idle", "closed"} /\ open /\ healthy
    => heads = <<Host>>

\* Every connection ends: no silent upstream or tunnel holds it, nor a client
\* that sends no request.  One client can: the deadline that is to keep the
\* goroutine from blocking for ever (server.go:172) is cleared before the body is
\* read (185, 187), so a head without the rest of its body holds a decrypted
\* connection as long as the client stays.  (A stream without end is not silent;
\* here a stream is finite.)
ConnectionEnds == \/ <>(phase = "closed")
                  \/ <>[](phase = "body" /\ via = "mitm" /\ open)
=============================================================================
