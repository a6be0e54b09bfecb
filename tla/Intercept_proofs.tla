--------------------------- MODULE Intercept_proofs ---------------------------
(***************************************************************************)
(* Proofs about Intercept, for any number of channels, candidates and      *)
(* requests.  The invariant says what a request may already have been      *)
(* answered in each phase: nothing before its candidates are tried, and    *)
(* nothing that another channel could add to after output has begun.       *)
(***************************************************************************)
EXTENDS MCHost, Sequences, SequencesExt, FiniteSetTheorems, TLAPS

Types == todo \in Seq(Channels) /\ served \in Nat

\* Nothing was written or recorded for the current request.
Fresh == heads = <<>> /\ pieces = {} /\ billed = {}

\* One head at most, and a body of the same source.
HeadInv == \/ heads = <<>> /\ pieces = {}
           \/ \E w : heads = <<w>> /\ pieces \subseteq {w}

\* One channel at most is recorded, when the request is over.
BillInv == \/ billed = {}
           \/ \E c : billed = {c} /\ phase \in {"idle", "body", "closed"} /\ (open => heads = <<c>>)

PhaseInv ==
    /\ phase \in {"connect", "tunnel"} => served = 0 /\ Fresh
    /\ phase \in {"models", "ping", "direct", "resolve"} => Fresh /\ ~wrote
    /\ phase = "body" => served < MaxOnConnection
    /\ phase = "try" => (wrote \/ Fresh) /\ (wrote /\ open => heads # <<>>)
    /\ phase = "stream" => /\ todo # <<>>
                           /\ heads = <<Head(todo)>> \/ (heads = <<>> /\ ~open)
    /\ phase \in {"idle", "body", "closed"} /\ served > 0 /\ open => heads # <<>>

ConnectionInv == Types /\ HeadInv /\ BillInv /\ PhaseInv

\* The invariant holds when a connection is accepted.
LEMMA ConnectionInit == P!Init => ConnectionInv
<1> SUFFICES ASSUME P!Init PROVE ConnectionInv
  OBVIOUS
<1>1. todo = <<>> /\ served = 0 /\ phase = "connect" /\ Fresh
  BY DEF P!Init, Fresh
<1> QED
  BY <1>1 DEF ConnectionInv, Types, Fresh, HeadInv, BillInv, PhaseInv

\* A request to which nothing was written is answered as a whole.
LEMMA AnswerInv ==
  ASSUME ConnectionInv, Fresh, NEW w, P!Respond(w), P!Finish, UNCHANGED <<served, open, wrote>>,
         todo' \in Seq(Channels), billed' = {} \/ billed' = {w}
  PROVE  ConnectionInv'
<1>1. phase' \in {"idle", "closed"}
  BY DEF P!Finish
<1>2. Types'
  BY DEF ConnectionInv, Types
<1>3. CASE open
  <2>1. heads' = <<w>>
    BY <1>3 DEF P!Respond, Fresh
  <2>2. pieces' = {w}
    BY <1>3 DEF P!Respond, Fresh
  <2> QED
    BY <1>1, <1>2, <2>1, <2>2 DEF ConnectionInv, HeadInv, BillInv, PhaseInv
<1>4. CASE ~open
  BY <1>1, <1>2, <1>4 DEF ConnectionInv, HeadInv, BillInv, PhaseInv, P!Respond, Fresh
<1> QED
  BY <1>3, <1>4

\* Before the first request nothing is owed to the client.
LEMMA ConnectInv == ConnectionInv /\ P!Connect => ConnectionInv'
<1> SUFFICES ASSUME ConnectionInv, P!Connect PROVE ConnectionInv'
  OBVIOUS
<1>1. /\ served = 0 /\ Fresh
      /\ UNCHANGED <<served, open, todo, wrote, billed>>
  BY DEF P!Connect, ConnectionInv, PhaseInv, P!request
<1>2. CASE UNCHANGED <<heads, pieces>> /\ phase' \in {"idle", "closed", "tunnel"}
  BY <1>1, <1>2 DEF ConnectionInv, Types, Fresh, HeadInv, BillInv, PhaseInv
<1>3. CASE phase' = "closed" /\ P!Respond(P!Proxy)
  <2>1. CASE open
    <3>1. heads' = <<P!Proxy>> /\ pieces' = {P!Proxy}
      BY <1>1, <1>3, <2>1 DEF P!Respond, Fresh
    <3> QED
      BY <1>1, <1>3, <3>1 DEF ConnectionInv, Types, Fresh, HeadInv, BillInv, PhaseInv
  <2>2. CASE ~open
    BY <1>1, <1>3, <2>2 DEF ConnectionInv, Types, Fresh, HeadInv, BillInv, PhaseInv, P!Respond
  <2> QED
    BY <2>1, <2>2
<1> QED
  BY <1>2, <1>3 DEF P!Connect

\* Neither a tunnel nor the end of an idle connection is an answer; a client
\* that leaves is owed nothing any more.
LEMMA QuietInv ==
  ConnectionInv /\ (\/ P!FlowEnds \/ P!TunnelTimer \/ P!IdleEnds \/ P!ReadHead \/ P!BodyBreaks
                    \/ P!ClientLeaves \/ P!EditChannel) => ConnectionInv'
<1> SUFFICES ASSUME ConnectionInv,
                    \/ P!FlowEnds \/ P!TunnelTimer \/ P!IdleEnds \/ P!ReadHead \/ P!BodyBreaks
                    \/ P!ClientLeaves \/ P!EditChannel
             PROVE  ConnectionInv'
  OBVIOUS
<1>1. UNCHANGED <<served, todo, wrote, heads, pieces, billed>>
  BY DEF P!FlowEnds, P!TunnelTimer, P!IdleEnds, P!ReadHead, P!BodyBreaks, P!ClientLeaves,
         P!EditChannel, P!request, P!answer
<1>2. CASE P!FlowEnds \/ P!TunnelTimer
  BY <1>1, <1>2 DEF P!FlowEnds, P!TunnelTimer, ConnectionInv, Types, Fresh, HeadInv, BillInv, PhaseInv
<1>3. CASE P!IdleEnds \/ P!ReadHead \/ P!BodyBreaks
  BY <1>1, <1>3 DEF P!IdleEnds, P!ReadHead, P!BodyBreaks, ConnectionInv, Types, Fresh, HeadInv, BillInv, PhaseInv
<1>4. CASE P!ClientLeaves
  <2>1. open /\ ~open' /\ phase' = phase
    BY <1>4 DEF P!ClientLeaves
  <2> QED
    BY <1>1, <2>1 DEF ConnectionInv, Types, Fresh, HeadInv, BillInv, PhaseInv
<1>5. CASE P!EditChannel
  BY <1>1, <1>5 DEF P!EditChannel, ConnectionInv, Types, Fresh, HeadInv, BillInv, PhaseInv
<1> QED
  BY <1>2, <1>3, <1>4, <1>5

\* A request begins with nothing written.
LEMMA ReadInv == ConnectionInv /\ P!Read => ConnectionInv'
<1> SUFFICES ASSUME ConnectionInv, P!Read PROVE ConnectionInv'
  OBVIOUS
<1>1. /\ served' = served + 1 /\ UNCHANGED <<open, todo>> /\ wrote' = FALSE
      /\ heads' = <<>> /\ pieces' = {} /\ billed' = {}
  BY DEF P!Read, P!Begin
<1>2. phase' \in {"models", "ping", "direct", "resolve"}
  BY DEF P!Read, P!Route
<1> QED
  BY <1>1, <1>2 DEF ConnectionInv, Types, Fresh, HeadInv, BillInv, PhaseInv

\* A request that is refused unread has its answer.
LEMMA RefuseInv == ConnectionInv /\ P!RefuseUnread => ConnectionInv'
<1> SUFFICES ASSUME ConnectionInv, P!RefuseUnread PROVE ConnectionInv'
  OBVIOUS
<1>1. /\ served' = served + 1 /\ UNCHANGED <<open, todo>> /\ wrote' = FALSE
      /\ heads' = (IF open THEN <<P!Proxy>> ELSE <<>>)
      /\ pieces' = (IF open THEN {P!Proxy} ELSE {}) /\ billed' = {}
      /\ phase' \in {"idle", "closed"}
  BY DEF P!RefuseUnread, P!Begin
<1> QED
  BY <1>1 DEF ConnectionInv, Types, Fresh, HeadInv, BillInv, PhaseInv

\* The answers that are written whole before a channel is tried.
LEMMA AloneInv == ConnectionInv /\ (P!AnswerAlone \/ P!Forward) => ConnectionInv'
<1> SUFFICES ASSUME ConnectionInv, P!AnswerAlone \/ P!Forward PROVE ConnectionInv'
  OBVIOUS
<1>1. /\ Fresh /\ P!Finish /\ UNCHANGED <<served, open, todo, wrote, billed>>
      /\ P!Respond(P!Proxy) \/ P!Respond(P!Host)
  BY DEF P!AnswerAlone, P!Forward, ConnectionInv, PhaseInv, P!request
<1>2. todo' \in Seq(Channels) /\ billed' = {}
  BY <1>1 DEF ConnectionInv, Types, Fresh
<1> QED
  BY <1>1, <1>2, AnswerInv

\* A request that is rejected is answered; one with candidates is not yet.
LEMMA ResolveInv == ConnectionInv /\ P!Resolve => ConnectionInv'
<1> SUFFICES ASSUME ConnectionInv, P!Resolve PROVE ConnectionInv'
  OBVIOUS
<1>1. Fresh /\ ~wrote /\ UNCHANGED <<served, open, wrote, billed>>
  BY DEF P!Resolve, ConnectionInv, PhaseInv, P!request
<1>2. CASE P!Rejected
  <2>1. todo' \in Seq(Channels) /\ billed' = {}
    BY <1>1, <1>2 DEF P!Rejected, ConnectionInv, Types, Fresh
  <2> QED
    BY <1>1, <1>2, <2>1, AnswerInv DEF P!Rejected
<1>3. CASE P!Candidates
  <2>1. PICK rows \in P!BoundedSeq(Channels, MaxRows) : todo' = rows
    BY <1>3 DEF P!Candidates
  <2>2. todo' \in Seq(Channels)
    BY <2>1 DEF P!BoundedSeq, P!SeqOf
  <2>3. phase' = "try" /\ UNCHANGED <<heads, pieces>>
    BY <1>3 DEF P!Candidates
  <2> QED
    BY <1>1, <2>2, <2>3 DEF ConnectionInv, Types, Fresh, HeadInv, BillInv, PhaseInv
<1> QED
  BY <1>2, <1>3 DEF P!Resolve

\* A candidate that is passed over or fails before output changes no answer.
LEMMA PassedOverInv == ConnectionInv /\ (P!Skip \/ P!Stop \/ P!SendFails) => ConnectionInv'
<1> SUFFICES ASSUME ConnectionInv, P!Skip \/ P!Stop \/ P!SendFails PROVE ConnectionInv'
  OBVIOUS
<1>1. /\ phase = "try" /\ todo # <<>> /\ todo' \in {Tail(todo), <<>>}
      /\ UNCHANGED <<phase, served, open, wrote, heads, pieces, billed>>
  BY DEF P!Skip, P!Stop, P!SendFails, P!MaySend, P!request, P!answer
<1>2. Tail(todo) \in Seq(Channels) /\ <<>> \in Seq(Channels)
  BY <1>1 DEF ConnectionInv, Types
<1>3. todo' \in Seq(Channels)
  BY <1>1, <1>2
<1> QED
  BY <1>1, <1>3 DEF ConnectionInv, Types, Fresh, HeadInv, BillInv, PhaseInv

\* The response of a channel that was read whole is its only answer.
LEMMA SendPlainInv == ConnectionInv /\ P!SendPlain => ConnectionInv'
<1> SUFFICES ASSUME ConnectionInv, P!SendPlain PROVE ConnectionInv'
  OBVIOUS
<1>1. Fresh
  BY DEF P!SendPlain, P!MaySend, ConnectionInv, Types, PhaseInv
<1>2. /\ P!Respond(Head(todo)) /\ P!Finish /\ UNCHANGED <<served, open, wrote>>
      /\ todo' \in Seq(Channels) /\ billed' = {Head(todo)}
  BY <1>1 DEF P!SendPlain, P!Bill, Fresh, P!request
<1> QED
  BY <1>1, <1>2, AnswerInv

\* A stream has one head, of the channel that is tried.
LEMMA BeginStreamInv == ConnectionInv /\ P!BeginStream => ConnectionInv'
<1> SUFFICES ASSUME ConnectionInv, P!BeginStream PROVE ConnectionInv'
  OBVIOUS
<1>1. /\ Fresh /\ phase = "try" /\ todo # <<>> /\ todo \in Seq(Channels)
      /\ UNCHANGED <<served, open, pieces, billed>>
  BY DEF P!BeginStream, P!MaySend, ConnectionInv, Types, PhaseInv, P!request
<1>2. CASE /\ phase' = "stream" /\ UNCHANGED <<todo, wrote>>
           /\ heads' = IF open THEN Append(heads, Head(todo)) ELSE heads
  <2>1. CASE open
    <3>1. heads' = <<Head(todo)>>
      BY <1>1, <1>2, <2>1 DEF Fresh
    <3> QED
      BY <1>1, <1>2, <3>1 DEF ConnectionInv, Types, Fresh, HeadInv, BillInv, PhaseInv
  <2>2. CASE ~open
    BY <1>1, <1>2, <2>2 DEF ConnectionInv, Types, Fresh, HeadInv, BillInv, PhaseInv
  <2> QED
    BY <2>1, <2>2
<1>3. CASE ~open /\ wrote' = TRUE /\ todo' = Tail(todo) /\ UNCHANGED <<phase, heads>>
  <2>1. todo' \in Seq(Channels)
    BY <1>1, <1>3
  <2> QED
    BY <1>1, <1>3, <2>1 DEF ConnectionInv, Types, Fresh, HeadInv, BillInv, PhaseInv
<1> QED
  BY <1>2, <1>3 DEF P!BeginStream

\* Every line of a stream follows the head of its channel.
LEMMA StreamLineInv == ConnectionInv /\ P!StreamLine => ConnectionInv'
<1> SUFFICES ASSUME ConnectionInv, P!StreamLine PROVE ConnectionInv'
  OBVIOUS
<1>1. /\ phase = "stream" /\ UNCHANGED <<phase, served, open, todo, wrote, heads, billed>>
      /\ pieces' = IF open THEN pieces \cup {Head(todo)} ELSE pieces
  BY DEF P!StreamLine, P!request
<1>2. HeadInv'
  <2>1. CASE open
    <3>1. heads = <<Head(todo)>>
      BY <1>1, <2>1 DEF ConnectionInv, PhaseInv
    <3>2. pieces \subseteq {Head(todo)}
      BY <3>1 DEF ConnectionInv, HeadInv
    <3> QED
      BY <1>1, <2>1, <3>1, <3>2 DEF HeadInv
  <2>2. CASE ~open
    BY <1>1, <2>2 DEF ConnectionInv, HeadInv
  <2> QED
    BY <2>1, <2>2
<1> QED
  BY <1>1, <1>2 DEF ConnectionInv, Types, Fresh, BillInv, PhaseInv

\* A stream that is over is recorded for the channel whose head was written.
LEMMA StreamEndsInv == ConnectionInv /\ (P!StreamEnds \/ P!StreamAbandoned) => ConnectionInv'
<1> SUFFICES ASSUME ConnectionInv, P!StreamEnds \/ P!StreamAbandoned PROVE ConnectionInv'
  OBVIOUS
<1>1. /\ phase = "stream" /\ phase' \in {"idle", "closed"} /\ todo' = <<>>
      /\ UNCHANGED <<served, open, wrote, heads, pieces>>
  BY DEF P!StreamEnds, P!StreamAbandoned, P!Finish, P!request, P!answer
<1>2. billed = {}
  BY <1>1 DEF ConnectionInv, BillInv
<1>3. billed' = {} \/ billed' = {Head(todo)}
  BY <1>2 DEF P!StreamEnds, P!StreamAbandoned, P!Bill, P!answer
<1>4. open => heads = <<Head(todo)>>
  BY <1>1 DEF ConnectionInv, PhaseInv
<1>5. BillInv'
  BY <1>1, <1>3, <1>4 DEF BillInv
<1>6. Types' /\ HeadInv'
  BY <1>1 DEF ConnectionInv, Types, HeadInv
<1>7. PhaseInv'
  BY <1>1, <1>4 DEF PhaseInv
<1> QED
  BY <1>5, <1>6, <1>7 DEF ConnectionInv

\* A stream that broke leaves its head behind, and the loop over the
\* candidates knows of it.
LEMMA StreamBreaksInv == ConnectionInv /\ P!StreamBreaks => ConnectionInv'
<1> SUFFICES ASSUME ConnectionInv, P!StreamBreaks PROVE ConnectionInv'
  OBVIOUS
<1>1. /\ phase = "stream" /\ phase' = "try" /\ wrote' = TRUE /\ todo' = Tail(todo)
      /\ UNCHANGED <<served, open, heads, pieces, billed>>
  BY DEF P!StreamBreaks, P!request, P!answer
<1>2. open => heads # <<>>
  BY <1>1 DEF ConnectionInv, PhaseInv
<1>3. todo' \in Seq(Channels)
  BY <1>1 DEF ConnectionInv, Types, PhaseInv
<1> QED
  BY <1>1, <1>2, <1>3 DEF ConnectionInv, Types, HeadInv, BillInv, PhaseInv

\* When no candidate is left the proxy answers, unless output has begun.
LEMMA ExhaustedInv == ConnectionInv /\ P!Exhausted => ConnectionInv'
<1> SUFFICES ASSUME ConnectionInv, P!Exhausted PROVE ConnectionInv'
  OBVIOUS
<1>1. phase = "try" /\ P!Finish /\ UNCHANGED <<served, open, todo, wrote, billed>>
  BY DEF P!Exhausted, P!request
<1>2. todo' \in Seq(Channels) /\ billed' = {}
  BY <1>1 DEF ConnectionInv, Types, BillInv
<1>3. CASE wrote
  <2>1. phase' \in {"idle", "closed"} /\ UNCHANGED <<heads, pieces>>
    BY <1>1, <1>3 DEF P!Finish, P!Exhausted
  <2> QED
    BY <1>1, <1>2, <1>3, <2>1 DEF ConnectionInv, Types, Fresh, HeadInv, BillInv, PhaseInv
<1>4. CASE ~wrote
  <2>1. Fresh /\ P!Respond(P!Proxy)
    BY <1>1, <1>4 DEF ConnectionInv, PhaseInv, P!Exhausted
  <2> QED
    BY <1>1, <1>2, <2>1, AnswerInv
<1> QED
  BY <1>3, <1>4

\* The invariant is inductive.
LEMMA NextInv == ConnectionInv /\ (P!Next \/ UNCHANGED connection) => ConnectionInv'
<1> SUFFICES ASSUME ConnectionInv, P!Next \/ UNCHANGED connection PROVE ConnectionInv'
  OBVIOUS
<1>1. CASE UNCHANGED connection
  BY <1>1 DEF ConnectionInv, Types, Fresh, HeadInv, BillInv, PhaseInv, connection
<1>2. CASE P!Serve
  BY <1>2, ConnectInv, AloneInv, ResolveInv, PassedOverInv, SendPlainInv, BeginStreamInv,
     ExhaustedInv DEF P!Serve
<1>3. CASE P!Timers
  BY <1>3, QuietInv, RefuseInv, StreamBreaksInv DEF P!Timers
<1> QED
  BY <1>1, <1>2, <1>3, ReadInv, StreamLineInv, StreamEndsInv, QuietInv DEF P!Next

\* One head, and the bytes that follow it, are one answer.
LEMMA HeadImpliesAnswer == ConnectionInv => P!OneAnswer
<1> SUFFICES ASSUME ConnectionInv PROVE P!OneAnswer
  OBVIOUS
<1>0. Len(<<>>) <= 1 /\ \A w : Len(<<w>>) <= 1
  OBVIOUS
<1>1. Len(heads) <= 1
  BY Zenon, <1>0 DEF ConnectionInv, HeadInv
<1>2. \A p \in pieces : P!Contains(heads, p)
  <2>1. ASSUME NEW w, heads = <<w>>, NEW p \in pieces, pieces \subseteq {w}
        PROVE  P!Contains(heads, p)
    BY <2>1 DEF P!Contains
  <2> QED
    BY <2>1 DEF ConnectionInv, HeadInv
<1>3. served > 0 /\ phase \in {"idle", "closed"} /\ open => Len(heads) = 1
  BY DEF ConnectionInv, HeadInv, PhaseInv
<1> QED
  BY <1>1, <1>2, <1>3 DEF P!OneAnswer

\* The instance counts as FiniteSets does.
LEMMA SameCardinality == \A S : P!Cardinality(S) = Cardinality(S)
  BY DEF P!Cardinality, Cardinality

\* The one channel that is recorded wrote the head.
LEMMA BillImpliesDelivered == ConnectionInv => P!BilledIsDelivered
<1> SUFFICES ASSUME ConnectionInv PROVE P!BilledIsDelivered
  OBVIOUS
<1>1. CASE billed = {}
  BY <1>1, FS_EmptySet, SameCardinality DEF P!BilledIsDelivered
<1>2. ASSUME NEW c, billed = {c}, open => heads = <<c>> PROVE P!BilledIsDelivered
  <2>1. P!Cardinality(billed) = 1
    BY <1>2, FS_Singleton, SameCardinality
  <2>2. open => P!Contains(heads, c)
    BY <1>2 DEF P!Contains
  <2> QED
    BY <1>2, <2>1, <2>2 DEF P!BilledIsDelivered
<1> QED
  BY <1>1, <1>2 DEF ConnectionInv, BillInv

\* In every behaviour of the host the connection keeps the invariant; while
\* another component moves, it is closed and was never used.
LEMMA HostInv == HostSpec => []ConnectionInv
<1>1. HostInit => ConnectionInv
  <2>1. CASE part = "proxy"
    BY <2>1, ConnectionInit DEF HostInit
  <2>2. CASE part # "proxy"
    <3> SUFFICES ASSUME HostInit PROVE ConnectionInv
      OBVIOUS
    <3>1. phase = "closed" /\ todo = <<>> /\ served = 0 /\ Fresh
      BY <2>2 DEF HostInit, Fresh
    <3> QED
      BY <3>1 DEF ConnectionInv, Types, Fresh, HeadInv, BillInv, PhaseInv
  <2> QED
    BY <2>1, <2>2
<1>2. ConnectionInv /\ [HostNext]_<<part, vars, connection, log, config, binary, login, socket>>
        => ConnectionInv'
  BY NextInv DEF HostNext
<1> QED
  BY <1>1, <1>2, PTL DEF HostSpec

\* A request whose client stayed gets one response head and the bytes of its
\* source, for any number of channels, candidates and requests (the switch of
\* channels that stops after output, adapter.go, HandleLLMStreamRequest).
THEOREM OneAnswerAlways == HostSpec => []OneAnswer
<1>1. ConnectionInv => OneAnswer
  BY HeadImpliesAnswer DEF OneAnswer
<1> QED
  BY HostInv, <1>1, PTL

\* A request is recorded, and its key charged, for one channel at most, the one
\* whose response the client got (adapter.go, recordUsage and its callers).
THEOREM BilledOnce == HostSpec => []BilledIsDelivered
<1>1. ConnectionInv => BilledIsDelivered
  BY BillImpliesDelivered DEF BilledIsDelivered
<1> QED
  BY HostInv, <1>1, PTL
-----------------------------------------------------------------------------
(***************************************************************************)
(* Types.  Only what is written to a raw socket needs more than the types  *)
(* before the step: the head of an empty list of candidates is nobody, and *)
(* a stream is read only from the first of them.                           *)
(***************************************************************************)
Sides == Channels \cup {P!Proxy, P!Host}

\* An answer by one of the sides.
LEMMA AnswerTyped ==
  ASSUME P!TypeOK, NEW who \in Sides, P!Respond(who)
  PROVE  heads' \in Seq(Sides) /\ pieces' \subseteq Sides
BY DEF P!TypeOK, P!Respond, Sides

\* What a step leaves of the types when it only answers and finishes.
LEMMA FinishTyped ==
  ASSUME P!TypeOK, P!Finish, heads' \in Seq(Sides), pieces' \subseteq Sides,
         todo' \in Seq(Channels), billed' \subseteq Channels,
         UNCHANGED <<via, kind, wantClose, open, healthy, flows, channel, wrote, served>>
  PROVE  P!TypeOK'
<1>1. phase' \in {"idle", "closed"}
  BY DEF P!Finish
<1> QED
  BY <1>1 DEF P!TypeOK, Sides

LEMMA ConnectTyped == ASSUME P!TypeOK, ConnectionInv, P!Connect PROVE P!TypeOK'
<1>1. /\ via' \in {"http", "mitm"} /\ phase' \in {"idle", "closed", "tunnel"}
      /\ flows' = flows \/ flows' = {"up", "down"}
      /\ UNCHANGED <<kind, wantClose, served, healthy, open, channel, todo, wrote, billed>>
  BY DEF P!Connect, P!request
<1>2. heads' \in Seq(Sides) /\ pieces' \subseteq Sides
  <2>1. CASE P!Respond(P!Proxy)
    BY <2>1, AnswerTyped DEF Sides
  <2>2. CASE UNCHANGED <<heads, pieces>>
    BY <2>2 DEF P!TypeOK, Sides
  <2> QED
    BY <2>1, <2>2 DEF P!Connect
<1> QED
  BY <1>1, <1>2 DEF P!TypeOK, Sides

LEMMA AloneTyped ==
  ASSUME P!TypeOK, P!AnswerAlone \/ P!Forward PROVE P!TypeOK'
<1>1. /\ P!Finish /\ UNCHANGED <<via, kind, wantClose, served, healthy, open, flows, channel,
                                 todo, wrote, billed>>
      /\ P!Respond(P!Proxy) \/ P!Respond(P!Host)
  BY DEF P!AnswerAlone, P!Forward, P!request
<1>2. heads' \in Seq(Sides) /\ pieces' \subseteq Sides
  BY <1>1, AnswerTyped DEF Sides
<1>3. todo' \in Seq(Channels) /\ billed' \subseteq Channels
  BY <1>1 DEF P!TypeOK
<1> QED
  BY <1>1, <1>2, <1>3, FinishTyped

LEMMA ResolveTyped == ASSUME P!TypeOK, P!Resolve PROVE P!TypeOK'
<1>1. UNCHANGED <<via, kind, wantClose, served, healthy, open, flows, channel, wrote, billed>>
  BY DEF P!Resolve, P!request
<1>2. CASE P!Rejected
  <2>1. heads' \in Seq(Sides) /\ pieces' \subseteq Sides
    BY <1>2, AnswerTyped DEF P!Rejected, Sides
  <2>2. P!Finish /\ todo' \in Seq(Channels) /\ billed' \subseteq Channels
    BY <1>1, <1>2 DEF P!Rejected, P!TypeOK
  <2> QED
    BY <1>1, <2>1, <2>2, FinishTyped
<1>3. CASE P!Candidates
  <2>1. PICK rows \in P!BoundedSeq(Channels, MaxRows) : todo' = rows
    BY <1>3 DEF P!Candidates
  <2>2. todo' \in Seq(Channels)
    BY <2>1 DEF P!BoundedSeq, P!SeqOf
  <2>3. phase' = "try" /\ UNCHANGED <<heads, pieces>>
    BY <1>3 DEF P!Candidates
  <2> QED
    BY <1>1, <2>2, <2>3 DEF P!TypeOK
<1> QED
  BY <1>2, <1>3 DEF P!Resolve

LEMMA PassedOverTyped ==
  ASSUME P!TypeOK, P!Skip \/ P!Stop \/ P!SendFails PROVE P!TypeOK'
<1>1. /\ todo # <<>> /\ todo' \in {Tail(todo), <<>>}
      /\ UNCHANGED <<via, phase, kind, wantClose, served, healthy, open, flows, channel, wrote,
                     heads, pieces, billed>>
  BY DEF P!Skip, P!Stop, P!SendFails, P!MaySend, P!request, P!answer
<1>2. Tail(todo) \in Seq(Channels) /\ <<>> \in Seq(Channels)
  BY <1>1 DEF P!TypeOK
<1>3. todo' \in Seq(Channels)
  BY <1>1, <1>2
<1> QED
  BY <1>1, <1>3 DEF P!TypeOK

LEMMA SendPlainTyped == ASSUME P!TypeOK, P!SendPlain PROVE P!TypeOK'
<1>1. /\ todo # <<>> /\ todo' = <<>> /\ P!Respond(Head(todo)) /\ P!Finish
      /\ billed' = billed \cup {Head(todo)}
      /\ UNCHANGED <<via, kind, wantClose, served, healthy, open, flows, channel, wrote>>
  BY DEF P!SendPlain, P!MaySend, P!Bill, P!request
<1>2. Head(todo) \in Channels
  BY <1>1 DEF P!TypeOK
<1>3. heads' \in Seq(Sides) /\ pieces' \subseteq Sides
  BY <1>1, <1>2, AnswerTyped DEF Sides
<1>4. <<>> \in Seq(Channels)
  OBVIOUS
<1>5. todo' \in Seq(Channels) /\ billed' \subseteq Channels
  BY <1>1, <1>2, <1>4 DEF P!TypeOK
<1> QED
  BY <1>1, <1>3, <1>5, FinishTyped

LEMMA BeginStreamTyped == ASSUME P!TypeOK, P!BeginStream PROVE P!TypeOK'
<1>1. /\ todo # <<>> /\ todo' \in {todo, Tail(todo)} /\ phase' \in {phase, "stream"}
      /\ wrote' \in {wrote, TRUE} /\ heads' \in {heads, Append(heads, Head(todo))}
      /\ UNCHANGED <<via, kind, wantClose, served, healthy, open, flows, channel, pieces, billed>>
  BY DEF P!BeginStream, P!MaySend, P!request
<1>2. Head(todo) \in Sides /\ Tail(todo) \in Seq(Channels)
  BY <1>1 DEF P!TypeOK, Sides
<1>3. heads \in Seq(Sides) /\ Append(heads, Head(todo)) \in Seq(Sides)
  BY <1>2 DEF P!TypeOK, Sides
<1> QED
  BY <1>1, <1>2, <1>3 DEF P!TypeOK, Sides

LEMMA StreamTyped ==
  ASSUME P!TypeOK, ConnectionInv,
         P!StreamLine \/ P!StreamEnds \/ P!StreamAbandoned \/ P!StreamBreaks
  PROVE  P!TypeOK'
<1>1. phase = "stream"
  BY DEF P!StreamLine, P!StreamEnds, P!StreamAbandoned, P!StreamBreaks
<1>2. todo # <<>>
  BY <1>1 DEF ConnectionInv, PhaseInv
<1>3. Head(todo) \in Channels /\ Tail(todo) \in Seq(Channels)
  BY <1>2 DEF P!TypeOK
<1>4. CASE P!StreamLine
  BY <1>3, <1>4 DEF P!StreamLine, P!TypeOK, P!request
<1>5. CASE P!StreamEnds \/ P!StreamAbandoned
  <2>1. <<>> \in Seq(Channels)
    OBVIOUS
  <2>2. /\ P!Finish /\ todo' = <<>> /\ billed' \subseteq billed \cup {Head(todo)}
        /\ UNCHANGED <<via, kind, wantClose, served, healthy, open, flows, channel, wrote, heads,
                       pieces>>
    BY <1>5 DEF P!StreamEnds, P!StreamAbandoned, P!Bill, P!request, P!answer
  <2>3. /\ heads' \in Seq(Sides) /\ pieces' \subseteq Sides
        /\ todo' \in Seq(Channels) /\ billed' \subseteq Channels
    BY <1>3, <2>1, <2>2 DEF P!TypeOK, Sides
  <2> QED
    BY <2>2, <2>3, FinishTyped
<1>6. CASE P!StreamBreaks
  BY <1>3, <1>6 DEF P!StreamBreaks, P!TypeOK, P!request, P!answer
<1> QED
  BY <1>4, <1>5, <1>6

LEMMA ExhaustedTyped == ASSUME P!TypeOK, P!Exhausted PROVE P!TypeOK'
<1>1. /\ P!Finish /\ UNCHANGED <<via, kind, wantClose, served, healthy, open, flows, channel,
                                 todo, wrote, billed>>
      /\ P!Respond(P!Proxy) \/ UNCHANGED <<heads, pieces>>
  BY DEF P!Exhausted, P!request
<1>2. heads' \in Seq(Sides) /\ pieces' \subseteq Sides
  <2>1. CASE P!Respond(P!Proxy)
    BY <2>1, AnswerTyped DEF Sides
  <2>2. CASE UNCHANGED <<heads, pieces>>
    BY <2>2 DEF P!TypeOK, Sides
  <2> QED
    BY <1>1, <2>1, <2>2
<1>3. todo' \in Seq(Channels) /\ billed' \subseteq Channels
  BY <1>1 DEF P!TypeOK
<1> QED
  BY <1>1, <1>2, <1>3, FinishTyped

LEMMA OtherTyped ==
  ASSUME P!TypeOK,
         \/ P!FlowEnds \/ P!TunnelTimer \/ P!IdleEnds \/ P!ReadHead \/ P!BodyBreaks
         \/ P!ClientLeaves \/ P!EditChannel
  PROVE  P!TypeOK'
<1>1. CASE P!FlowEnds
  BY <1>1 DEF P!FlowEnds, P!TypeOK, P!request, P!answer
<1>2. CASE P!TunnelTimer \/ P!IdleEnds \/ P!ReadHead \/ P!BodyBreaks \/ P!ClientLeaves
  BY <1>2 DEF P!TunnelTimer, P!IdleEnds, P!ReadHead, P!BodyBreaks, P!ClientLeaves, P!TypeOK,
              P!request, P!answer
<1>3. CASE P!EditChannel
  BY <1>3 DEF P!EditChannel, P!TypeOK, P!request, P!answer
<1> QED
  BY <1>1, <1>2, <1>3

LEMMA ReadTyped == ASSUME P!TypeOK, ConnectionInv, P!Read \/ P!RefuseUnread PROVE P!TypeOK'
<1>1. <<>> \in Seq(Sides) /\ <<P!Proxy>> \in Seq(Sides) /\ P!Proxy \in Sides
  BY DEF Sides
<1>2. phase' \in {"models", "ping", "direct", "resolve", "idle", "closed"}
  BY DEF P!Read, P!Route, P!RefuseUnread
<1>3. /\ served' = served + 1
      /\ kind' \in P!Kinds /\ wantClose' \in BOOLEAN /\ wrote' = FALSE /\ billed' = {}
      /\ UNCHANGED <<via, open, healthy, flows, channel, todo>>
  BY DEF P!Read, P!RefuseUnread, P!Begin
<1>4. heads' \in {<<>>, <<P!Proxy>>} /\ pieces' \in {{}, {P!Proxy}}
  BY DEF P!Read, P!RefuseUnread
<1>5. served' \in 0 .. MaxOnConnection
  <2>1. phase = "body" /\ served < MaxOnConnection
    BY DEF P!Read, P!RefuseUnread, P!Begin, ConnectionInv, PhaseInv
  <2> QED
    BY <1>3, <2>1, BoundsAssumption DEF P!TypeOK
<1> QED
  BY <1>1, <1>2, <1>3, <1>4, <1>5 DEF P!TypeOK, Sides

\* The types are inductive together with the invariant above.
LEMMA ConnectionTyped ==
  ASSUME P!TypeOK, ConnectionInv, P!Next \/ UNCHANGED connection PROVE P!TypeOK'
<1>1. CASE UNCHANGED connection
  BY <1>1 DEF P!TypeOK, connection
<1>2. CASE P!Serve
  BY <1>2, ConnectTyped, AloneTyped, ResolveTyped, PassedOverTyped, SendPlainTyped,
     BeginStreamTyped, ExhaustedTyped DEF P!Serve
<1>3. CASE P!Timers
  BY <1>3, OtherTyped, ReadTyped, StreamTyped DEF P!Timers
<1> QED
  BY <1>1, <1>2, <1>3, ReadTyped, StreamTyped, OtherTyped DEF P!Next

\* A connection that is accepted, and one at rest.
LEMMA ConnectionTypedFirst == HostInit => P!TypeOK
<1> SUFFICES ASSUME HostInit PROVE P!TypeOK
  OBVIOUS
<1>1. <<>> \in Seq(Channels) /\ <<>> \in Seq(Sides) /\ 0 \in 0 .. MaxOnConnection
  BY BoundsAssumption
<1>2. CASE part = "proxy"
  <2>1. P!Init
    BY <1>2 DEF HostInit
  <2> QED
    BY <1>1, <2>1 DEF P!Init, P!TypeOK, P!Kinds, Sides
<1>3. CASE part # "proxy"
  <2>1. /\ via = "none" /\ phase = "closed" /\ kind = "ping" /\ wantClose = FALSE
        /\ open = FALSE /\ healthy = TRUE /\ flows = {}
        /\ channel = [c \in Channels |-> "active"] /\ todo = <<>> /\ wrote = FALSE
        /\ heads = <<>> /\ pieces = {} /\ billed = {} /\ served = 0
    BY <1>3 DEF HostInit
  <2> QED
    BY <1>1, <2>1 DEF P!TypeOK, P!Kinds, Sides
<1> QED
  BY <1>2, <1>3

\* A connection is well typed, for any number of channels, candidates and
\* requests.
THEOREM ConnectionTypes == HostSpec => []P!TypeOK
<1>1. HostInit => P!TypeOK
  BY ConnectionTypedFirst
<1>2. P!TypeOK /\ ConnectionInv
      /\ [HostNext]_<<part, vars, connection, log, config, binary, login, socket>> => P!TypeOK'
  BY ConnectionTyped DEF HostNext
<1> QED
  BY <1>1, <1>2, HostInv, PTL DEF HostSpec
=============================================================================
