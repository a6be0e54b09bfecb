--------------------------- MODULE ResponsesSocket ---------------------------
(***************************************************************************)
(* A Responses connection over WebSocket                                   *)
(* (internal/handler/responses_websocket.go): the first frame of the       *)
(* client chooses the upstream, and two goroutines then copy frames, one   *)
(* in each direction, with one write lock for both.  When either of them   *)
(* is done the handler returns and closes both connections.                *)
(*                                                                         *)
(* A peer may leave, break off, or stop reading; a write to a peer that    *)
(* does not read may block for ever, since no deadline is set.  Frames are *)
(* numbered in the order in which their sender sends them; Rewritten is    *)
(* the client's first frame after a rule has changed its model or          *)
(* described its images, and ErrorFrame is the proxy's own.                *)
(***************************************************************************)
EXTENDS Naturals, Sequences

CONSTANT MaxFrames   \* bound: frames that each peer sends

Peers == {"client", "upstream"}
Other(p) == IF p = "client" THEN "upstream" ELSE "client"
ErrorFrame == 0
Rewritten  == MaxFrames + 1
Frames     == ErrorFrame .. Rewritten

VARIABLES phase,     \* of the handler
          open,      \* connections that the handler has and has not closed
          copier,    \* source -> what the goroutine that reads it does
          hand,      \* source -> the frame read from it and not yet written
          writeMu,   \* the goroutine that holds it, or "free"
          sent,      \* peer -> frames it has sent
          unread,    \* peer -> how many of them were not read
          written,   \* peer -> frames written to its connection
          left,      \* peers that closed their connection, or whose connection broke
          stalled,   \* peers that read no more
          lossy      \* peers whose last frames may be lost, see Break and Write

vars == <<phase, open, copier, hand, writeMu, sent, unread, written, left, stalled, lossy>>
peers == <<sent, left, stalled>>

-----------------------------------------------------------------------------
(* The handler up to the copying *)

Returns == phase' = "closing"

\* ReadMessage: a frame that is not text ends the connection, and so does a
\* client that leaves.
ReadFirst ==
    /\ phase = "await"
    /\ \/ /\ unread["client"] > 0 /\ phase' \in {"choose", "closing"}
          /\ unread' = [unread EXCEPT !["client"] = @ - 1]
          /\ hand' = [hand EXCEPT !["client"] = 1]
       \/ unread["client"] = 0 /\ "client" \in left /\ Returns /\ UNCHANGED <<unread, hand>>
    /\ UNCHANGED <<open, copier, writeMu, peers, written, lossy>>

\* No model, a wrong key, a model that is not allowed or not served, a wrong
\* URL, or an upstream that does not answer: an error frame.
Refuse ==
    /\ phase = "choose" /\ Returns
    /\ written' = IF "client" \in left THEN written ELSE [written EXCEPT !["client"] = <<ErrorFrame>>]
    /\ UNCHANGED <<open, copier, hand, writeMu, peers, unread, lossy>>

\* The rules of the router are applied to the frame before that.
Dial ==
    /\ phase = "choose" /\ phase' = "dialed" /\ open' = Peers
    /\ hand' \in {hand, [hand EXCEPT !["client"] = Rewritten]}
    /\ UNCHANGED <<copier, writeMu, peers, unread, written, lossy>>

\* The first frame is written before the goroutines start.
WriteFirst ==
    /\ phase = "dialed"
    /\ \/ /\ phase' = "copy" /\ copier' = [p \in Peers |-> "read"]
          /\ written' = IF "upstream" \in left THEN written
                        ELSE [written EXCEPT !["upstream"] = <<hand["client"]>>]
       \/ "upstream" \in left /\ Returns /\ UNCHANGED <<copier, written>>
    /\ lossy' = lossy \cup ({"upstream"} \cap left)
    /\ hand' = [hand EXCEPT !["client"] = 0]
    /\ UNCHANGED <<open, writeMu, peers, unread>>

-----------------------------------------------------------------------------
(* copyFrames, for the source p *)

Receive(p) ==
    /\ copier[p] = "read" /\ unread[p] > 0
    /\ hand' = [hand EXCEPT ![p] = sent[p] - unread[p] + 1]
    /\ unread' = [unread EXCEPT ![p] = @ - 1]
    /\ copier' = [copier EXCEPT ![p] = "lock"]
    /\ UNCHANGED <<phase, open, writeMu, peers, written, lossy>>

\* Mutant: the end of a source is noticed before its last frames.
ReceiveFails_Early(p) ==
    /\ copier[p] = "read" /\ (p \notin open \/ p \in left)
    /\ copier' = [copier EXCEPT ![p] = "done"]
    /\ UNCHANGED <<phase, open, hand, writeMu, peers, unread, written, lossy>>

\* The source is closed on this side, or has left and everything was read.
ReceiveFails(p) ==
    /\ copier[p] = "read" /\ (p \notin open \/ (p \in left /\ unread[p] = 0))
    /\ copier' = [copier EXCEPT ![p] = "done"]
    /\ UNCHANGED <<phase, open, hand, writeMu, peers, unread, written, lossy>>

Lock(p) ==
    /\ copier[p] = "lock" /\ writeMu = "free"
    /\ writeMu' = p /\ copier' = [copier EXCEPT ![p] = "write"]
    /\ UNCHANGED <<phase, open, hand, peers, unread, written, lossy>>

\* Mutant: the goroutine returns with the lock when its write has failed.
Unlock_OnSuccess(p) == writeMu' = IF copier'[p] = "done" THEN writeMu ELSE "free"

Unlock(p) == writeMu' = "free"

\* WriteMessage and Unlock.  A frame for a peer that has left is lost, with or
\* without an error, and may take with it what that peer sent last.
Write(p) ==
    /\ copier[p] = "write"
    /\ LET q == Other(p) IN
       /\ \/ /\ q \in open /\ copier' = [copier EXCEPT ![p] = "read"]
             /\ written' = IF q \in left THEN written
                           ELSE [written EXCEPT ![q] = Append(@, hand[p])]
          \/ /\ q \notin open \/ q \in left
             /\ copier' = [copier EXCEPT ![p] = "done"] /\ UNCHANGED written
       /\ lossy' = lossy \cup ({q} \cap left)
       /\ unread' \in {unread} \cup (IF q \in left THEN {[unread EXCEPT ![q] = 0]} ELSE {})
    /\ Unlock(p) /\ hand' = [hand EXCEPT ![p] = 0]
    /\ UNCHANGED <<phase, open, peers>>

\* The select of proxyResponsesWebSocketFrames.
CopyEnds ==
    /\ phase = "copy" /\ \E p \in Peers : copier[p] = "done"
    /\ Returns
    /\ UNCHANGED <<open, copier, hand, writeMu, peers, unread, written, lossy>>

\* The deferred Close calls, the last one first.
Close ==
    /\ phase = "closing" /\ open # {}
    /\ open' = IF "upstream" \in open THEN open \ {"upstream"} ELSE {}
    /\ UNCHANGED <<phase, copier, hand, writeMu, peers, unread, written, lossy>>

-----------------------------------------------------------------------------
(* The peers *)

Present(p) == p \in open /\ p \notin left

Send(p) ==
    /\ Present(p) /\ sent[p] < MaxFrames
    /\ sent' = [sent EXCEPT ![p] = @ + 1] /\ unread' = [unread EXCEPT ![p] = @ + 1]
    /\ UNCHANGED <<phase, open, copier, hand, writeMu, written, left, stalled, lossy>>

Leave(p) ==
    /\ Present(p) /\ left' = left \cup {p}
    /\ UNCHANGED <<phase, open, copier, hand, writeMu, sent, unread, written, stalled, lossy>>

\* What has not been read may be lost.
Break(p) ==
    /\ Present(p) /\ left' = left \cup {p} /\ lossy' = lossy \cup {p}
    /\ unread' = [unread EXCEPT ![p] = 0]
    /\ UNCHANGED <<phase, open, copier, hand, writeMu, sent, written, stalled>>

Stall(p) ==
    /\ Present(p) /\ p \notin stalled /\ stalled' = stalled \cup {p}
    /\ UNCHANGED <<phase, open, copier, hand, writeMu, sent, unread, written, left, lossy>>

-----------------------------------------------------------------------------
Init ==
    /\ phase = "await" /\ open = {"client"} /\ writeMu = "free"
    /\ copier = [p \in Peers |-> "none"] /\ hand = [p \in Peers |-> 0]
    /\ sent = [p \in Peers |-> 0] /\ unread = [p \in Peers |-> 0]
    /\ written = [p \in Peers |-> <<>>]
    /\ left = {} /\ stalled = {} /\ lossy = {}

Handle  == ReadFirst \/ Refuse \/ Dial \/ WriteFirst \/ CopyEnds \/ Close
Copy(p) == Receive(p) \/ ReceiveFails(p) \/ Lock(p) \/ Write(p)
Next == \/ Handle
        \/ \E p \in Peers : Copy(p) \/ Send(p) \/ Leave(p) \/ Break(p) \/ Stall(p)

\* The goroutines run, and the dialer has a timeout.  A write to a peer that
\* is there and does not read need not end.
Blocked(q) == q \in stalled /\ Present(q)
Fairness ==
    /\ WF_vars(Handle /\ ~(phase = "dialed" /\ Blocked("upstream")))
    /\ \A p \in Peers : WF_vars(Copy(p) /\ ~(copier[p] = "write" /\ Blocked(Other(p))))
Spec == Init /\ [][Next]_vars /\ Fairness

-----------------------------------------------------------------------------
TypeOK ==
    /\ phase \in {"await", "choose", "dialed", "copy", "closing"}
    /\ open \subseteq Peers /\ left \subseteq Peers /\ stalled \subseteq Peers /\ lossy \subseteq Peers
    /\ copier \in [Peers -> {"none", "read", "lock", "write", "done"}]
    /\ hand \in [Peers -> Frames]
    /\ writeMu \in Peers \cup {"free"}
    /\ sent \in [Peers -> 0 .. MaxFrames] /\ unread \in [Peers -> 0 .. MaxFrames]
    /\ written \in [Peers -> Seq(Frames)]

\* The i-th frame that p gets is the i-th one of the other peer.
InOrder(p, frames) ==
    \A i \in 1 .. Len(frames) :
        frames[i] = i \/ (frames[i] = Rewritten /\ i = 1 /\ p = "upstream")

FramesInOrder ==
    \/ /\ written["client"] = <<ErrorFrame>> /\ written["upstream"] = <<>>
    \/ \A p \in Peers : Len(written[p]) <= sent[Other(p)] /\ InOrder(p, written[p])

LastFramesArrive ==
    \A p \in left \ lossy :
        copier[p] = "done" /\ Present(Other(p)) => Len(written[Other(p)]) = sent[p]

\* Either peer gets the other's frames in order and without a gap, each as it
\* was sent, but for the one that chose the upstream, which the rules of the
\* router may have rewritten (responses_websocket.go:45-53, 91, 151-157); or the
\* client gets an error frame, and then nobody gets anything else.  When one peer
\* closes and the other stays, the handler returns after the last frame of the
\* one that closed was written, unless something was written to it after that.
FramesArrive == FramesInOrder /\ LastFramesArrive

Finished == phase = "closing" /\ open = {} /\ \A p \in Peers : copier[p] \in {"none", "done"}

\* When a peer leaves, the handler and both goroutines end, although each of
\* them may be waiting for the write lock or in a read; only the other peer can
\* hinder it, by not reading, and then the lock keeps both directions.
SocketEnds == []<>(\A p \in left : Finished \/ Other(p) \in stalled)
=============================================================================
