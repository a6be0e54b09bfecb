-------------------------------- MODULE Relay --------------------------------
(***************************************************************************)
(* The relay of handler/proxy.go and handler/forwarding*.go: what happens  *)
(* to each client request from the candidate list to the last byte, with   *)
(* every request sharing one circuit breaker.                              *)
(*                                                                         *)
(* A request is a completion (plain or streamed, handleCompletion) or a    *)
(* passthrough (PassthroughEndpoint).  It walks its candidate channels in  *)
(* priority order; each attempt may send something to the client, and once *)
(* anything was sent another channel may no longer be tried.               *)
(*                                                                         *)
(* What was sent is a sequence of pieces: "preface" is the chunk written   *)
(* while images are described, "frames" any part of a converted or native  *)
(* stream, "error" an error frame on a stream, "body" an upstream body and *)
(* "json" an error object of the relay itself.                             *)
(*                                                                         *)
(* Bounds: each member of Requests is served once; the clock stops at      *)
(* Horizon.                                                                *)
(***************************************************************************)
EXTENDS Breaker, Attempts

CONSTANTS Channels,
          Requests,
          CandidateLists,  \* what modelRepo.List may leave as candidates
          MaxCandidates,
          ProbeTimeout,
          Horizon

(* models is UNIQUE(channel_id, model_id), so a channel is a candidate for *)
(* one model name at most once.                                            *)
ASSUME CandidateAssumption ==
  /\ MaxCandidates \in Nat
  /\ CandidateLists \subseteq
       UNION {[1 .. n -> Channels] : n \in 1 .. MaxCandidates}
  /\ \A l \in CandidateLists : \A i, j \in 1 .. Len(l) : l[i] = l[j] => i = j

(* As in CircuitBreaker.                                                   *)
ASSUME TimesAssumption == ProbeTimeout \in Nat \ {0} /\ Horizon \in Nat

VARIABLES entries,  \* h.breaker.entries, as in CircuitBreaker
          now,
          req       \* what the handler of each request knows

vars == <<entries, now, req>>

Kinds == {"plain", "stream", "passthrough"}
Pieces == {"preface", "frames", "error", "body", "json"}

Request ==
  [pc       : {"arrived", "next", "denied", "probing", "unproven", "forwarding",
               "ended", "done"},
   kind     : Kinds,
   list     : CandidateLists \cup {<<>>},
   at       : 0 .. MaxCandidates,          \* the candidate being worked on
   deadline : Nat,                         \* of the probe
   gone     : BOOLEAN,                     \* c.Request.Context() is done
   sent     : Seq(Pieces),                 \* what c.Writer was given
   attempts : 0 .. MaxCandidates,          \* calls of tryForward
   skipped  : BOOLEAN,                     \* breakerSkipped
   failed   : BOOLEAN,                     \* lastErr != nil
   wait     : Nat,                         \* retryAfter
   verdict  : {"none", "ok", "again", "quit", "refuse"},
   blame    : BOOLEAN,                     \* breakerFailure of the outcome
   status   : {"none", "relayed", "error", "unavailable"}]

TypeOK ==
  /\ entries \in [Channels -> Entry]
  /\ now \in Nat
  /\ req \in [Requests -> Request]

Arrived ==
  [pc |-> "arrived", kind |-> "plain", list |-> <<>>, at |-> 0, deadline |-> 0,
   gone |-> FALSE, sent |-> <<>>, attempts |-> 0,
   skipped |-> FALSE, failed |-> FALSE, wait |-> 0, verdict |-> "none",
   blame |-> FALSE, status |-> "none"]

Init ==
  /\ entries = [c \in Channels |-> Healthy]
  /\ now = 0
  /\ req = [r \in Requests |-> Arrived]

-----------------------------------------------------------------------------
(* c.JSON with an error status, and the handler returns.                   *)
Answered(q, status) ==
  [q EXCEPT !.pc = "done",
            !.sent = Append(@, "json"),
            !.status = status]

Becomes(r, q) == req' = [req EXCEPT ![r] = q]

Current(r) == req[r].list[req[r].at]

(* writeStreamPreface: only a streamed chat completion is told to wait.    *)
Prefaced(q) == [q EXCEPT !.kind = "stream", !.sent = <<"preface">>]

(* 400, 401, 403, 404, 500, or a routing rule that answers by itself.      *)
Refuse(r) ==
  /\ req[r].pc = "arrived"
  /\ \E q \in {req[r], Prefaced(req[r])} : Becomes(r, Answered(q, "error"))
  /\ UNCHANGED <<entries, now>>

Admit(r) ==
  /\ req[r].pc = "arrived"
  /\ \E q \in {[req[r] EXCEPT !.kind = k] : k \in Kinds} \cup {Prefaced(req[r])},
        l \in CandidateLists :
       Becomes(r, [q EXCEPT !.pc = "next", !.list = l])
  /\ UNCHANGED <<entries, now>>

(* The client goes away: the context of the request is cancelled.          *)
Leave(r) ==
  /\ req[r].pc # "done"
  /\ ~req[r].gone
  /\ Becomes(r, [req[r] EXCEPT !.gone = TRUE])
  /\ UNCHANGED <<entries, now>>

-----------------------------------------------------------------------------
(* The candidate loop *)

MoreCandidates(r) == req[r].pc = "next" /\ req[r].at < Len(req[r].list)

(* The loop looks at the context before each candidate.                    *)
GiveUp(r) ==
  /\ MoreCandidates(r)
  /\ req[r].gone
  /\ Becomes(r, [req[r] EXCEPT !.pc = "done"])
  /\ UNCHANGED <<entries, now>>

NextCandidate(r) == MoreCandidates(r) /\ ~req[r].gone

(* The channel cannot be read (an error) or is not active (not an error).  *)
Skip(r) ==
  /\ NextCandidate(r)
  /\ \E broken \in BOOLEAN :
       Becomes(r, [req[r] EXCEPT !.at = @ + 1, !.failed = @ \/ broken])
  /\ UNCHANGED <<entries, now>>

Forwarding(q) == [q EXCEPT !.pc = "forwarding", !.attempts = @ + 1, !.deadline = 0]

(* A passthrough, or failover switched off globally or for the channel.    *)
Bypass(r) ==
  /\ NextCandidate(r)
  /\ Becomes(r, Forwarding([req[r] EXCEPT !.at = @ + 1]))
  /\ UNCHANGED <<entries, now>>

(* Mutant: whoever is offered the probe forwards without probing.          *)
Ask_NoProbe(r) ==
  /\ NextCandidate(r)
  /\ req[r].kind # "passthrough"
  /\ LET q == [req[r] EXCEPT !.at = @ + 1]
         c == q.list[q.at]
     IN /\ entries' = [entries EXCEPT ![c] = AfterAsking(@, now)]
        /\ Becomes(r, IF Verdict(entries[c], now) = "deny" THEN [q EXCEPT !.pc = "denied"]
                                                           ELSE Forwarding(q))
  /\ UNCHANGED now

(* MayProceed and its three answers.                                       *)
Ask(r) ==
  /\ NextCandidate(r)
  /\ req[r].kind # "passthrough"
  /\ LET q == [req[r] EXCEPT !.at = @ + 1]
         c == q.list[q.at]
     IN /\ entries' = [entries EXCEPT ![c] = AfterAsking(@, now)]
        /\ Becomes(r, CASE Verdict(entries[c], now) = "allow" -> Forwarding(q)
                        [] Verdict(entries[c], now) = "probe" ->
                             [q EXCEPT !.pc = "probing", !.deadline = now + ProbeTimeout]
                        [] OTHER -> [q EXCEPT !.pc = "denied"])
  /\ UNCHANGED now

AtLeastOne(n) == IF n = 0 THEN 1 ELSE n

(* Mutant: a channel in cooldown is asked again until it recovers.         *)
NoteCooldown_Waits(r) ==
  /\ \/ req[r].pc = "denied"
     \/ req[r].pc = "unproven" /\ ~req[r].gone
  /\ LET delay == AtLeastOne(RetryAfter(entries[Current(r)], now))
     IN Becomes(r, [req[r] EXCEPT !.pc = "next", !.skipped = TRUE, !.at = @ - 1,
                                  !.wait = IF @ = 0 \/ delay < @ THEN delay ELSE @])
  /\ UNCHANGED <<entries, now>>

(* The delay is read under a second lock, after MayProceed or the probe:   *)
(* by then the entry may be another one.                                   *)
NoteCooldown(r) ==
  /\ \/ req[r].pc = "denied"
     \/ req[r].pc = "unproven" /\ ~req[r].gone
  /\ LET delay == AtLeastOne(RetryAfter(entries[Current(r)], now))
     IN Becomes(r, [req[r] EXCEPT !.pc = "next", !.skipped = TRUE,
                                  !.wait = IF @ = 0 \/ delay < @ THEN delay ELSE @])
  /\ UNCHANGED <<entries, now>>

(* After a failed probe, the client turns out to be gone.                  *)
AbandonProbe(r) ==
  /\ req[r].pc = "unproven" /\ req[r].gone
  /\ Becomes(r, [req[r] EXCEPT !.pc = "done"])
  /\ UNCHANGED <<entries, now>>

(* finishProbe *)
ProbeEnds(r) ==
  /\ req[r].pc = "probing"
  /\ \/ /\ entries' = [entries EXCEPT ![Current(r)] = AfterSuccess(@)]
        /\ Becomes(r, Forwarding(req[r]))
     \/ /\ entries' = [entries EXCEPT ![Current(r)] =
                         IF req[r].gone THEN AfterCancel(@, now) ELSE AfterFailure(@, now)]
        /\ Becomes(r, [req[r] EXCEPT !.pc = "unproven", !.deadline = 0])
  /\ UNCHANGED now

-----------------------------------------------------------------------------
(* The end of an attempt *)

SentAfter(q, o) ==
  LET sent == q.sent \o o.sends
  IN IF q.kind = "stream" /\ sent # <<>> /\ o.frame THEN Append(sent, "error") ELSE sent

(* Mutant: a stream that broke off may be repeated although it has begun.  *)
VerdictAfter_Replays(q, o) ==
  IF o.again THEN "again" ELSE IF q.sent \o o.sends # <<>> THEN "quit" ELSE "refuse"

(* forwardOutcome and the returns of finishForwardFailure.                 *)
VerdictAfter(q, o) ==
  IF q.sent \o o.sends # <<>> THEN "quit" ELSE IF o.again THEN "again" ELSE "refuse"

AttemptFails(r) ==
  /\ req[r].pc = "forwarding" /\ ~req[r].gone
  /\ \E o \in Failures(req[r].kind, req[r].sent) :
       Becomes(r, [req[r] EXCEPT !.pc = "ended", !.sent = SentAfter(req[r], o),
                                 !.blame = o.blame, !.verdict = VerdictAfter(req[r], o)])
  /\ UNCHANGED <<entries, now>>

AttemptCancelled(r) ==
  /\ req[r].pc = "forwarding" /\ req[r].gone
  /\ \E sends \in {<<>>} \cup (IF req[r].kind = "stream" THEN {<<"frames">>} ELSE {}) :
       Becomes(r, [req[r] EXCEPT !.pc = "ended", !.sent = @ \o sends, !.verdict = "quit"])
  /\ UNCHANGED <<entries, now>>

AttemptSucceeds(r) ==
  /\ req[r].pc = "forwarding" /\ ~req[r].gone
  /\ Becomes(r, [req[r] EXCEPT !.pc = "ended", !.verdict = "ok",
                   !.sent = Append(@, IF req[r].kind = "stream" THEN "frames" ELSE "body")])
  /\ UNCHANGED <<entries, now>>

Settled(q) == [q EXCEPT !.verdict = "none", !.blame = FALSE]

(* Mutant: a request that was already being answered is refused as well.   *)
Reported_RefusesLate(q) ==
  LET s == Settled(q)
  IN CASE q.verdict = "ok"    -> [s EXCEPT !.pc = "done", !.status = "relayed"]
       [] q.verdict = "again" -> [s EXCEPT !.pc = "next", !.failed = TRUE]
       [] OTHER -> Answered(s, "error")

(* Where the request goes: to the next channel, or the handler returns.    *)
Reported(q) ==
  LET s == Settled(q)
  IN CASE q.verdict = "ok"     -> [s EXCEPT !.pc = "done", !.status = "relayed"]
       [] q.verdict = "again"  -> [s EXCEPT !.pc = "next", !.failed = TRUE]
       [] q.verdict = "refuse" -> Answered(s, "error")
       [] q.verdict = "quit"   -> [s EXCEPT !.pc = "done"]

(* What the breaker is told of the attempt.                                *)
Judged(e, q, t) ==
  CASE q.verdict = "ok" -> AfterSuccess(e)
    [] q.blame          -> AfterFailure(e, t)
    [] OTHER            -> e

(* RecordSuccess or finishForwardFailure.                                  *)
Report(r) ==
  /\ req[r].pc = "ended"
  /\ entries' = [entries EXCEPT ![Current(r)] = Judged(@, req[r], now)]
  /\ Becomes(r, Reported(req[r]))
  /\ UNCHANGED now

(* Mutant: 503 whenever the breaker skipped a channel.                     *)
FinalStatus_Hasty(q) == IF q.skipped THEN "unavailable" ELSE "error"

(* 503 with Retry-After if cooldowns are the only reason, 502 otherwise;   *)
(* a passthrough never skips a channel for its cooldown.                   *)
FinalStatus(q) == IF q.skipped /\ ~q.failed THEN "unavailable" ELSE "error"

Exhausted(r) ==
  /\ req[r].pc = "next" /\ req[r].at = Len(req[r].list)
  /\ Becomes(r, Answered(req[r], FinalStatus(req[r])))
  /\ UNCHANGED <<entries, now>>

Tick ==
  /\ now < Horizon
  /\ \A r \in Requests : req[r].pc = "probing" => now < req[r].deadline
  /\ now' = now + 1
  /\ UNCHANGED <<entries, req>>

AttemptEnds(r) == AttemptFails(r) \/ AttemptCancelled(r) \/ AttemptSucceeds(r)

Step(r) ==
  \/ Refuse(r) \/ Admit(r) \/ GiveUp(r) \/ Skip(r) \/ Bypass(r) \/ Ask(r)
  \/ NoteCooldown(r) \/ AbandonProbe(r) \/ ProbeEnds(r) \/ AttemptEnds(r)
  \/ Report(r) \/ Exhausted(r)

Next == Tick \/ \E r \in Requests : Leave(r) \/ Step(r)

Spec == Init /\ [][Next]_vars

(* A handler goroutine runs, probes have a timeout, and so have plain and  *)
(* passthrough attempts; only a stream that keeps sending may go on for    *)
(* ever, unless its client leaves: the watcher then closes it.             *)
Endless(r) == req[r].pc = "forwarding" /\ req[r].kind = "stream" /\ ~req[r].gone

FairSpec == Spec /\ \A r \in Requests : WF_vars(Step(r) /\ ~Endless(r))

-----------------------------------------------------------------------------
(* No channel is tried after the client was sent anything by an earlier    *)
(* attempt (docs/relay-reliability-and-request-logs.md:10 and :91).        *)
NoReplay ==
  [][\A r \in Requests :
       req[r].attempts > 0 /\ req'[r].attempts > req[r].attempts => req[r].sent = <<>>]_vars

(* A request gets exactly one response: finishForwardFailure never appends *)
(* a second one, so that an error object follows nothing at all or, when   *)
(* no attempt was made, a preface, and nothing follows it; and a client    *)
(* that waits gets an answer, an error frame or an error object.           *)
OneResponse ==
  \A r \in Requests :
    /\ \A i \in 1 .. Len(req[r].sent) :
         req[r].sent[i] = "json" =>
           /\ i = Len(req[r].sent)
           /\ \/ i = 1
              \/ i = 2 /\ req[r].sent[1] = "preface" /\ req[r].attempts = 0
    /\ req[r].pc = "done" /\ ~req[r].gone => req[r].sent \notin {<<>>, <<"preface">>}

(* 503 is said only if no channel was tried and none failed to load, and   *)
(* its Retry-After is positive and no longer than the longest cooldown,    *)
(* although it is read when the cooldown may already have changed.         *)
UnavailableIsHonest ==
  \A r \in Requests :
    req[r].status = "unavailable" =>
      /\ req[r].skipped /\ req[r].attempts = 0 /\ ~req[r].failed
      /\ req[r].wait \in 1 .. MaxWait

(* Every request is over once its client has left, and every plain or      *)
(* passthrough request is over in any case.                                *)
RequestEnds ==
  \A r \in Requests :
    req[r].gone \/ (req[r].pc # "arrived" /\ req[r].kind # "stream") ~> req[r].pc = "done"

(* The relay uses the breaker as CircuitBreaker describes: the i-th        *)
(* candidate of request r is the call <<r, i>>.                            *)
Calls == Requests \X (1 .. MaxCandidates)

CallPC(k) ==
  LET q == req[k[1]]
  IN CASE k[2] > q.at -> "idle"
       [] k[2] = q.at /\ q.pc = "probing" -> "probing"
       [] k[2] = q.at /\ q.pc \in {"forwarding", "ended"} -> "forwarding"
       [] OTHER -> "done"

CallChan(k) == IF CallPC(k) \in {"probing", "forwarding"} THEN {Current(k[1])} ELSE {}

CallDeadline(k) == IF CallPC(k) = "probing" THEN req[k[1]].deadline ELSE 0

Calling == INSTANCE CircuitBreaker
             WITH pc <- [k \in Calls |-> CallPC(k)],
                  chan <- [k \in Calls |-> CallChan(k)],
                  deadline <- [k \in Calls |-> CallDeadline(k)]

CallingSpec == Calling!Spec
=============================================================================
