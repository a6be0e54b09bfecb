----------------------------- MODULE Relay_proofs -----------------------------
(***************************************************************************)
(* Proofs about Relay, for any channels, requests and candidate lists, any *)
(* clock and any waits that satisfy the assumptions of Breaker and Relay.  *)
(*                                                                         *)
(* None of the properties is inductive: what may still be sent depends on  *)
(* where the request is and on what its last attempt came to.  Sound says  *)
(* that of one request, as a predicate of its record alone, so that each   *)
(* operator that makes the next record has a lemma of its own.             *)
(***************************************************************************)
EXTENDS Relay, SequenceTheorems, TLAPS

(* Where a request stands in its list.                                     *)
OnCandidate(q) == q.pc \in {"denied", "probing", "unproven", "forwarding", "ended"}
Choosing(q) == q.pc \in {"next", "denied", "probing", "unproven"}

Placed(q) ==
  /\ q.at <= Len(q.list)
  /\ q.attempts <= q.at
  /\ q.pc = "arrived" => q.at = 0
  /\ q.pc = "next" => q.list # <<>>
  /\ OnCandidate(q) => q.at >= 1
  /\ q.pc \in {"denied", "probing", "unproven"} => q.attempts < q.at

(* What its client has been sent.                                          *)
Nothing(s) == s \in {<<>>, <<"preface">>}

NoObject(s) == \A i \in 1 .. Len(s) : s[i] # "json"

Replied(q) ==
  /\ q.pc = "arrived" => q.sent = <<>>
  /\ Choosing(q) => q.sent = <<>> \/ (q.sent = <<"preface">> /\ q.attempts = 0)
  /\ q.pc = "forwarding" => Nothing(q.sent)
  /\ q.sent = <<"preface">> => q.kind = "stream"
  /\ q.pc = "ended" =>
       /\ q.verdict \in {"again", "refuse"} => q.sent = <<>>
       /\ q.verdict \in {"ok", "quit"} => NoObject(q.sent) /\ (q.gone \/ ~Nothing(q.sent))
       /\ q.verdict # "none"
  /\ q.pc = "done" =>
       /\ \A i \in 1 .. Len(q.sent) :
            q.sent[i] = "json" =>
              /\ i = Len(q.sent)
              /\ \/ i = 1
                 \/ i = 2 /\ q.sent[1] = "preface" /\ q.attempts = 0
       /\ q.gone \/ ~Nothing(q.sent)

(* What it may say of the breaker.                                         *)
Honest(q) ==
  /\ q.wait <= MaxWait
  /\ q.skipped => q.wait >= 1
  /\ Choosing(q) /\ ~q.failed => q.attempts = 0
  /\ q.pc # "done" => q.status = "none"
  /\ q.status = "unavailable" => q.skipped /\ ~q.failed /\ q.attempts = 0

Sound(q) == q \in Request /\ Placed(q) /\ Replied(q) /\ Honest(q)

(* No cooldown is longer than the longest one.                             *)
Bounded(e, t) == e \in Entry /\ (e.state # "normal" => e.expiry <= t + MaxWait)

IInv ==
  /\ TypeOK
  /\ \A c \in Channels : Bounded(entries[c], now)
  /\ \A r \in Requests : Sound(req[r])
-----------------------------------------------------------------------------
(* The backoff never leaves 0 .. maxWait, and so no method of the breaker  *)
(* leaves a cooldown that ends later than maxWait from now.                *)
LEMMA WaitCapped == ASSUME NEW n \in Nat \ {0} PROVE CooldownWait(n) \in 0 .. MaxWait
<1>1. \A w \in Nat : Doubled(w) \in Nat /\ Capped(w) \in 0 .. MaxWait
  BY WaitAssumption DEF Doubled, Capped
<1>2. BaseWait \in Nat
  BY WaitAssumption
<1>3. CASE n = 1
  BY <1>1, <1>2, <1>3 DEF CooldownWait
<1>4. CASE n = 2
  BY <1>1, <1>2, <1>4 DEF CooldownWait
<1>5. CASE n = 3
  BY <1>1, <1>2, <1>5 DEF CooldownWait
<1>6. CASE n > 3
  BY <1>1, <1>2, <1>6 DEF CooldownWait
<1>7. QED
  BY <1>3, <1>4, <1>5, <1>6

LEMMA StaysBounded ==
  ASSUME NEW t \in Nat, NEW e, Bounded(e, t)
  PROVE  /\ Bounded(AfterFailure(e, t), t)
         /\ Bounded(AfterSuccess(e), t)
         /\ Bounded(AfterCancel(e, t), t)
         /\ Bounded(AfterAsking(e, t), t)
         /\ Bounded(e, t + 1)
<1>1. /\ e \in Entry /\ e.expiry \in Nat /\ e.retries \in Nat
      /\ e.state # "normal" => e.expiry <= t + MaxWait
  BY DEF Bounded, Entry
<1>2. MaxWait \in Nat
  BY WaitAssumption
<1>3. Bounded(AfterFailure(e, t), t)
  <2>1. CooldownWait(e.retries + 1) \in 0 .. MaxWait
    BY <1>1, WaitCapped
  <2>2. QED
    BY <1>1, <1>2, <2>1 DEF Bounded, AfterFailure, Entry
<1>4. Bounded(AfterSuccess(e), t)
  BY DEF Bounded, AfterSuccess, Healthy, Entry
<1>5. Bounded(AfterCancel(e, t), t)
  <2>1. CASE e.state = "probing"
    <3>1. AfterCancel(e, t) \in Entry /\ AfterCancel(e, t).expiry = t
      BY <1>1, <2>1 DEF AfterCancel, Entry
    <3>2. QED
      BY <1>2, <3>1 DEF Bounded
  <2>2. CASE e.state # "probing"
    BY <2>2 DEF AfterCancel
  <2>3. QED
    BY <2>1, <2>2
<1>6. Bounded(AfterAsking(e, t), t)
  <2>1. CASE Verdict(e, t) = "probe"
    <3>1. e.state # "normal"
      BY <2>1 DEF Verdict
    <3>2. QED
      BY <1>1, <2>1, <3>1 DEF Bounded, AfterAsking, Entry
  <2>2. CASE Verdict(e, t) # "probe"
    BY <2>2 DEF AfterAsking
  <2>3. QED
    BY <2>1, <2>2
<1>7. Bounded(e, t + 1)
  BY <1>1, <1>2 DEF Bounded
<1>8. QED
  BY <1>3, <1>4, <1>5, <1>6, <1>7

(* What the client is told to wait is positive and within maxWait.         *)
LEMMA WaitTold ==
  ASSUME NEW t \in Nat, NEW e, Bounded(e, t)
  PROVE  AtLeastOne(RetryAfter(e, t)) \in 1 .. MaxWait
<1>1. MaxWait \in Nat /\ MaxWait >= 1
  BY WaitAssumption
<1>2. e.expiry \in Nat /\ (e.state # "normal" => e.expiry <= t + MaxWait)
  BY DEF Bounded, Entry
<1>3. RetryAfter(e, t) \in 0 .. MaxWait
  BY <1>1, <1>2 DEF RetryAfter
<1>4. QED
  BY <1>1, <1>3 DEF AtLeastOne

-----------------------------------------------------------------------------
LEMMA Lists ==
  ASSUME NEW l \in CandidateLists
  PROVE  l \in Seq(Channels) /\ Len(l) \in 1 .. MaxCandidates /\ l # <<>>
<1>1. PICK n \in 1 .. MaxCandidates : l \in [1 .. n -> Channels]
  BY CandidateAssumption
<1>2. n \in Nat /\ l \in Seq(Channels) /\ Len(l) = n
  BY <1>1, CandidateAssumption
<1>3. QED
  BY <1>1, <1>2, EmptySeq

(* The relay answers by itself: nothing was sent before, or a preface only *)
(* and no attempt was made.                                                *)
LEMMA SoundAnswered ==
  ASSUME NEW q \in Request, Placed(q), Honest(q),
         q.sent = <<>> \/ (q.sent = <<"preface">> /\ q.attempts = 0 /\ q.kind = "stream"),
         NEW status \in {"error", "unavailable"},
         status = "unavailable" => q.skipped /\ ~q.failed /\ q.attempts = 0
  PROVE  Sound(Answered(q, status))
<1> DEFINE a == Answered(q, status)
<1>1. Append(q.sent, "json") \in Seq(Pieces)
  BY DEF Request, Pieces
<1>2. a \in Request
  BY <1>1 DEF Answered, Request
<1>3. /\ a.pc = "done" /\ a.sent = Append(q.sent, "json") /\ a.status = status
      /\ a.at = q.at /\ a.list = q.list /\ a.attempts = q.attempts
      /\ a.wait = q.wait /\ a.skipped = q.skipped /\ a.failed = q.failed
  BY DEF Answered, Request
<1>4. Placed(a)
  BY <1>3 DEF Placed, OnCandidate
<1>5. Honest(a)
  BY <1>3 DEF Honest, Choosing
<1>6. Replied(a)
  <2>1. CASE q.sent = <<>>
    BY <1>3, <2>1 DEF Replied, Choosing, Nothing
  <2>2. CASE q.sent = <<"preface">> /\ q.attempts = 0
    BY <1>3, <2>2 DEF Replied, Choosing, Nothing
  <2>3. QED
    BY <2>1, <2>2
<1>7. QED
  BY <1>2, <1>4, <1>5, <1>6 DEF Sound

(* A request that has not been looked at, with or without the preface.     *)
Fresh(q) ==
  /\ q \in Request /\ q.pc = "arrived" /\ q.at = 0 /\ q.attempts = 0
  /\ q.sent = <<>> \/ (q.sent = <<"preface">> /\ q.kind = "stream")
  /\ Honest(q)

LEMMA SoundIsFresh ==
  ASSUME NEW q, Sound(q), q.pc = "arrived"
  PROVE  /\ Fresh(q) /\ Fresh(Prefaced(q))
         /\ \A k \in Kinds : Fresh([q EXCEPT !.kind = k])
<1>1. q \in Request /\ q.sent = <<>> /\ q.at = 0 /\ q.attempts = 0 /\ Honest(q)
  BY DEF Sound, Replied, Placed, Request
<1>2. Fresh(q)
  BY <1>1 DEF Fresh
<1>3. Fresh(Prefaced(q))
  <2> DEFINE p == Prefaced(q)
  <2>1. <<"preface">> \in Seq(Pieces)
    BY DEF Pieces
  <2>2. p \in Request
    BY <1>1, <2>1 DEF Prefaced, Request, Kinds
  <2>3. /\ p.pc = "arrived" /\ p.at = 0 /\ p.attempts = 0 /\ p.sent = <<"preface">>
        /\ p.kind = "stream" /\ p.wait = q.wait /\ p.skipped = q.skipped
        /\ p.failed = q.failed /\ p.status = q.status
    BY <1>1 DEF Prefaced, Request
  <2>4. QED
    BY <1>1, <2>2, <2>3 DEF Fresh, Honest, Choosing
<1>4. ASSUME NEW k \in Kinds PROVE Fresh([q EXCEPT !.kind = k])
  BY <1>1, <1>4 DEF Fresh, Request, Honest, Choosing
<1>5. QED
  BY <1>2, <1>3, <1>4

LEMMA SoundRefused ==
  ASSUME NEW q, Fresh(q)
  PROVE  Sound(Answered(q, "error"))
<1>1. Placed(q)
  BY DEF Fresh, Placed, OnCandidate, Request
<1>2. QED
  BY <1>1, SoundAnswered DEF Fresh

LEMMA SoundAdmitted ==
  ASSUME NEW q, Fresh(q), NEW l \in CandidateLists
  PROVE  Sound([q EXCEPT !.pc = "next", !.list = l])
<1> DEFINE p == [q EXCEPT !.pc = "next", !.list = l]
<1>1. p \in Request
  BY DEF Fresh, Request
<1>2. /\ p.pc = "next" /\ p.list = l /\ p.at = 0 /\ p.attempts = 0 /\ p.sent = q.sent
      /\ p.kind = q.kind /\ p.wait = q.wait /\ p.skipped = q.skipped
      /\ p.failed = q.failed /\ p.status = q.status
  BY DEF Fresh, Request
<1>3. Placed(p)
  BY <1>2, Lists DEF Placed, OnCandidate
<1>4. Replied(p)
  BY <1>2 DEF Fresh, Replied, Choosing
<1>5. Honest(p)
  BY <1>2 DEF Fresh, Honest, Choosing
<1>6. QED
  BY <1>1, <1>3, <1>4, <1>5 DEF Sound

-----------------------------------------------------------------------------
(* The client leaves.                                                      *)
LEMMA SoundGone ==
  ASSUME NEW q, Sound(q), q.pc # "done"
  PROVE  Sound([q EXCEPT !.gone = TRUE])
<1> DEFINE p == [q EXCEPT !.gone = TRUE]
<1>1. q \in Request /\ p \in Request
  BY DEF Sound, Request
<1>2. /\ p.pc = q.pc /\ p.list = q.list /\ p.at = q.at /\ p.attempts = q.attempts
      /\ p.sent = q.sent /\ p.kind = q.kind /\ p.wait = q.wait /\ p.skipped = q.skipped
      /\ p.failed = q.failed /\ p.status = q.status /\ p.verdict = q.verdict /\ p.gone
  BY <1>1 DEF Request
<1>3. Placed(p)
  BY <1>2 DEF Sound, Placed, OnCandidate
<1>4. Replied(p)
  BY <1>2 DEF Sound, Replied, Choosing
<1>5. Honest(p)
  BY <1>2 DEF Sound, Honest, Choosing
<1>6. QED
  BY <1>1, <1>3, <1>4, <1>5 DEF Sound

(* The handler sees that and returns without a word.                       *)
LEMMA SoundAbandoned ==
  ASSUME NEW q, Sound(q), Choosing(q), q.gone
  PROVE  Sound([q EXCEPT !.pc = "done"])
<1> DEFINE p == [q EXCEPT !.pc = "done"]
<1>1. q \in Request /\ p \in Request
  BY DEF Sound, Request
<1>2. /\ p.pc = "done" /\ p.list = q.list /\ p.at = q.at /\ p.attempts = q.attempts
      /\ p.sent = q.sent /\ p.kind = q.kind /\ p.wait = q.wait /\ p.skipped = q.skipped
      /\ p.failed = q.failed /\ p.status = q.status /\ p.gone = q.gone
  BY <1>1 DEF Request
<1>3. Placed(p)
  BY <1>2 DEF Sound, Placed, OnCandidate
<1>4. q.status = "none"
  BY DEF Sound, Honest, Choosing
<1>5. q.sent = <<>> \/ q.sent = <<"preface">>
  BY DEF Sound, Replied
<1>6. \A i \in 1 .. Len(q.sent) : q.sent[i] # "json"
  <2>1. CASE q.sent = <<>>
    BY <2>1
  <2>2. CASE q.sent = <<"preface">>
    BY <2>2
  <2>3. QED
    BY <1>5, <2>1, <2>2
<1>7. Replied(p)
  BY <1>2, <1>6 DEF Sound, Replied, Choosing
<1>8. Honest(p)
  BY <1>2, <1>4 DEF Sound, Honest, Choosing
<1>9. QED
  BY <1>1, <1>3, <1>7, <1>8 DEF Sound

-----------------------------------------------------------------------------
(* A request that has taken up a candidate it has not yet tried.           *)
Taken(q) ==
  /\ q \in Request
  /\ q.at >= 1 /\ q.at <= Len(q.list) /\ q.attempts < q.at
  /\ q.sent = <<>> \/ (q.sent = <<"preface">> /\ q.attempts = 0 /\ q.kind = "stream")
  /\ ~q.failed => q.attempts = 0
  /\ q.wait <= MaxWait /\ (q.skipped => q.wait >= 1) /\ q.status = "none"

LEMMA NextIsTaken ==
  ASSUME NEW q, Sound(q), q.pc = "next", q.at < Len(q.list)
  PROVE  Taken([q EXCEPT !.at = @ + 1])
<1> DEFINE p == [q EXCEPT !.at = @ + 1]
<1>1. q \in Request /\ q.list \in CandidateLists
  BY DEF Sound, Request, Placed
<1>2. q.at \in Nat /\ q.attempts \in Nat /\ q.at + 1 \in 0 .. MaxCandidates
  BY <1>1, Lists, CandidateAssumption DEF Request
<1>3. p \in Request
  BY <1>1, <1>2 DEF Request
<1>4. /\ p.list = q.list /\ p.at = q.at + 1 /\ p.attempts = q.attempts
      /\ p.sent = q.sent /\ p.kind = q.kind /\ p.wait = q.wait /\ p.skipped = q.skipped
      /\ p.failed = q.failed /\ p.status = q.status
  BY <1>1 DEF Request
<1>5. Len(q.list) \in Nat
  BY <1>1, Lists
<1>6. QED
  BY <1>2, <1>3, <1>4, <1>5 DEF Taken, Sound, Placed, Replied, Honest, Choosing

LEMMA ChoosingIsTaken ==
  ASSUME NEW q, Sound(q), q.pc \in {"denied", "probing", "unproven"}
  PROVE  Taken(q)
  BY DEF Taken, Sound, Placed, Replied, Honest, Choosing, OnCandidate

(* Where it goes from there.                                               *)
LEMMA SoundChoosing ==
  ASSUME NEW q, Taken(q), NEW pc \in {"denied", "probing", "unproven"}, NEW d \in Nat
  PROVE  /\ Sound([q EXCEPT !.pc = pc, !.deadline = d])
         /\ Sound([q EXCEPT !.pc = pc])
<1>1. ASSUME NEW p \in Request,
             p.pc = pc, p.list = q.list, p.at = q.at, p.attempts = q.attempts,
             p.sent = q.sent, p.kind = q.kind, p.wait = q.wait, p.skipped = q.skipped,
             p.failed = q.failed, p.status = q.status
      PROVE  Sound(p)
  <2>1. q.at \in Nat /\ q.attempts \in Nat
    BY DEF Taken, Request
  <2>2. Placed(p)
    BY <1>1, <2>1 DEF Taken, Placed, OnCandidate
  <2>3. Replied(p)
    <3>1. p.sent = <<"preface">> => p.kind = "stream"
      BY <1>1 DEF Taken
    <3>2. p.pc \notin {"arrived", "forwarding", "ended", "done"}
      BY <1>1
    <3>3. p.sent = <<>> \/ (p.sent = <<"preface">> /\ p.attempts = 0)
      BY <1>1 DEF Taken
    <3>4. QED
      BY <3>1, <3>2, <3>3 DEF Replied
  <2>4. Honest(p)
    BY <1>1 DEF Taken, Honest, Choosing
  <2>5. QED
    BY <2>2, <2>3, <2>4 DEF Sound
<1>2. Sound([q EXCEPT !.pc = pc, !.deadline = d])
  <2> DEFINE p == [q EXCEPT !.pc = pc, !.deadline = d]
  <2>1. p \in Request
    BY DEF Taken, Request
  <2>2. /\ p.pc = pc /\ p.list = q.list /\ p.at = q.at /\ p.attempts = q.attempts
        /\ p.sent = q.sent /\ p.kind = q.kind /\ p.wait = q.wait /\ p.skipped = q.skipped
        /\ p.failed = q.failed /\ p.status = q.status
    BY DEF Taken, Request
  <2>3. QED
    BY <1>1, <2>1, <2>2
<1>3. Sound([q EXCEPT !.pc = pc])
  <2> DEFINE p == [q EXCEPT !.pc = pc]
  <2>1. p \in Request
    BY DEF Taken, Request
  <2>2. /\ p.pc = pc /\ p.list = q.list /\ p.at = q.at /\ p.attempts = q.attempts
        /\ p.sent = q.sent /\ p.kind = q.kind /\ p.wait = q.wait /\ p.skipped = q.skipped
        /\ p.failed = q.failed /\ p.status = q.status
    BY DEF Taken, Request
  <2>3. QED
    BY <1>1, <2>1, <2>2
<1>4. QED
  BY <1>2, <1>3

LEMMA SoundForwarding ==
  ASSUME NEW q, Taken(q)
  PROVE  Sound(Forwarding(q))
<1> DEFINE p == Forwarding(q)
<1>1. q \in Request /\ q.at \in 0 .. MaxCandidates /\ q.attempts \in Nat /\ MaxCandidates \in Nat
  BY CandidateAssumption DEF Taken, Request
<1>2. q.attempts + 1 \in 0 .. MaxCandidates
  BY <1>1 DEF Taken
<1>3. p \in Request
  BY <1>1, <1>2 DEF Forwarding, Request
<1>4. /\ p.pc = "forwarding" /\ p.list = q.list /\ p.at = q.at /\ p.attempts = q.attempts + 1
      /\ p.sent = q.sent /\ p.kind = q.kind /\ p.wait = q.wait /\ p.skipped = q.skipped
      /\ p.failed = q.failed /\ p.status = q.status
  BY <1>1 DEF Forwarding, Request
<1>5. Placed(p)
  BY <1>1, <1>4 DEF Taken, Placed, OnCandidate
<1>6. Replied(p)
  <2>1. p.sent = <<"preface">> => p.kind = "stream"
    BY <1>4 DEF Taken
  <2>2. Nothing(p.sent)
    BY <1>4 DEF Taken, Nothing
  <2>3. QED
    BY <1>4, <2>1, <2>2 DEF Replied, Choosing
<1>7. Honest(p)
  BY <1>4 DEF Taken, Honest, Choosing
<1>8. QED
  BY <1>3, <1>5, <1>6, <1>7 DEF Sound

LEMMA SoundSkipped ==
  ASSUME NEW q, Sound(q), q.pc = "next", q.at < Len(q.list), NEW broken \in BOOLEAN
  PROVE  Sound([q EXCEPT !.at = @ + 1, !.failed = @ \/ broken])
<1> DEFINE p == [q EXCEPT !.at = @ + 1, !.failed = @ \/ broken]
<1>1. q \in Request /\ q.list \in CandidateLists /\ q.failed \in BOOLEAN
  BY DEF Sound, Request, Placed
<1>2. q.at \in Nat /\ q.attempts \in Nat /\ q.at + 1 \in 0 .. MaxCandidates
  BY <1>1, Lists, CandidateAssumption DEF Request
<1>3. (q.failed \/ broken) \in BOOLEAN
  OBVIOUS
<1>4. p \in Request
  BY <1>1, <1>2, <1>3 DEF Request
<1>5. /\ p.pc = "next" /\ p.list = q.list /\ p.at = q.at + 1 /\ p.attempts = q.attempts
      /\ p.sent = q.sent /\ p.kind = q.kind /\ p.wait = q.wait /\ p.skipped = q.skipped
      /\ p.status = q.status
  BY <1>1 DEF Request
<1>6. q.failed => p.failed
  BY <1>1 DEF Request
<1>7. Len(q.list) \in Nat
  BY <1>1, Lists
<1>8. Placed(p)
  BY <1>2, <1>5, <1>7 DEF Sound, Placed, OnCandidate
<1>9. Replied(p)
  BY <1>5 DEF Sound, Replied, Choosing
<1>10. Honest(p)
  BY <1>5, <1>6 DEF Sound, Honest, Choosing
<1>11. QED
  BY <1>4, <1>8, <1>9, <1>10 DEF Sound

LEMMA SoundNoted ==
  ASSUME NEW q, Sound(q), q.pc \in {"denied", "unproven"}, NEW delay \in 1 .. MaxWait
  PROVE  Sound([q EXCEPT !.pc = "next", !.skipped = TRUE,
                         !.wait = IF @ = 0 \/ delay < @ THEN delay ELSE @])
<1> DEFINE w == IF q.wait = 0 \/ delay < q.wait THEN delay ELSE q.wait
           p == [q EXCEPT !.pc = "next", !.skipped = TRUE, !.wait = w]
<1>1. q \in Request /\ Taken(q) /\ q.wait \in Nat /\ MaxWait \in Nat
  BY ChoosingIsTaken, WaitAssumption DEF Sound, Request
<1>2. w \in Nat /\ w >= 1 /\ w <= MaxWait
  BY <1>1 DEF Taken
<1> HIDE DEF w
<1>3. p \in Request
  BY <1>1, <1>2 DEF Request
<1>4. /\ p.pc = "next" /\ p.list = q.list /\ p.at = q.at /\ p.attempts = q.attempts
      /\ p.sent = q.sent /\ p.kind = q.kind /\ p.wait = w /\ p.skipped
      /\ p.failed = q.failed /\ p.status = q.status
  BY <1>1 DEF Request
<1>5. q.list # <<>>
  BY <1>1 DEF Taken, Request
<1>6. Placed(p)
  BY <1>1, <1>4, <1>5 DEF Sound, Placed, OnCandidate
<1>7. Replied(p)
  BY <1>1, <1>4 DEF Taken, Replied, Choosing
<1>8. Honest(p)
  BY <1>1, <1>2, <1>4 DEF Taken, Honest, Choosing
<1>9. Sound(p)
  BY <1>3, <1>6, <1>7, <1>8 DEF Sound
<1>10. QED
  BY <1>9 DEF w

-----------------------------------------------------------------------------
(* The end of an attempt: what a failure sends is nothing, or a body, or   *)
(* frames; a stream that was sent nothing is due an error frame.           *)
Sends == {<<>>, <<"body">>, <<"frames">>, <<"frames", "error">>}

LEMMA FailureSends ==
  ASSUME NEW kind \in Kinds, NEW sent, NEW o \in Failures(kind, sent)
  PROVE  /\ o.sends \in Sends
         /\ o.blame \in BOOLEAN /\ o.again \in BOOLEAN /\ o.frame \in BOOLEAN
         /\ o.sends = <<>> => o.frame
<1> DEFINE Good(x) == /\ x.sends \in Sends
                      /\ x.blame \in BOOLEAN /\ x.again \in BOOLEAN /\ x.frame \in BOOLEAN
                      /\ x.sends = <<>> => x.frame
<1>0. ASSUME NEW sends \in Sends, NEW b \in BOOLEAN, NEW a \in BOOLEAN, NEW f \in BOOLEAN,
             sends = <<>> => f
      PROVE  Good(Outcome(sends, b, a, f))
  BY <1>0 DEF Outcome
<1>00. /\ <<>> \in Sends /\ <<"body">> \in Sends /\ <<"frames">> \in Sends
       /\ <<"frames", "error">> \in Sends
       /\ <<"body">> # <<>> /\ <<"frames">> # <<>> /\ <<"frames", "error">> # <<>>
  BY DEF Sends
<1> HIDE DEF Good
<1>1. Good(Unreached) /\ Good(Unusable)
  BY <1>0, <1>00 DEF Unreached, Unusable
<1>2. Good(Rejected(sent))
  <2>1. CASE sent = <<>>
    BY <1>0, <1>00, <2>1 DEF Rejected
  <2>2. CASE sent # <<>>
    BY <1>1, <2>2 DEF Rejected
  <2>3. QED
    BY <2>1, <2>2
<1>3. ASSUME NEW x \in PlainOutcomes PROVE Good(x)
  <2>1. \/ x = Outcome(<<>>, TRUE, FALSE, TRUE)
        \/ x = Outcome(<<"body">>, TRUE, FALSE, FALSE)
        \/ x = Outcome(<<"body">>, FALSE, FALSE, FALSE)
    BY <1>3 DEF PlainOutcomes
  <2>2. QED
    BY <1>0, <1>00, <2>1
<1>4. ASSUME NEW x \in StreamOutcomes PROVE Good(x)
  <2>1. \/ x = Outcome(<<>>, TRUE, TRUE, TRUE)
        \/ x = Outcome(<<"frames">>, TRUE, TRUE, TRUE)
        \/ x = Outcome(<<>>, FALSE, FALSE, TRUE)
        \/ x = Outcome(<<"frames">>, FALSE, FALSE, TRUE)
        \/ x = Outcome(<<"frames", "error">>, TRUE, FALSE, FALSE)
        \/ x = Outcome(<<"frames", "error">>, FALSE, FALSE, FALSE)
        \/ x = Outcome(<<"frames">>, FALSE, FALSE, FALSE)
    BY <1>4 DEF StreamOutcomes
  <2>2. QED
    BY <1>0, <1>00, <2>1
<1>5. ASSUME NEW x \in {Outcome(<<"body">>, FALSE, FALSE, FALSE)} PROVE Good(x)
  BY <1>0, <1>00, <1>5
<1>6. o \in {Unreached, Unusable, Rejected(sent)} \/ o \in PlainOutcomes
        \/ o \in StreamOutcomes \/ o \in {Outcome(<<"body">>, FALSE, FALSE, FALSE)}
  <2>1. CASE kind = "plain"
    BY <2>1 DEF Failures
  <2>2. CASE kind = "stream"
    BY <2>2 DEF Failures
  <2>3. CASE kind = "passthrough"
    BY <2>3 DEF Failures
  <2>4. QED
    BY <2>1, <2>2, <2>3 DEF Kinds
<1>7. Good(o)
  BY <1>1, <1>2, <1>3, <1>4, <1>5, <1>6
<1>8. QED
  BY <1>7 DEF Good

LEMMA SentOn ==
  ASSUME NEW pre, Nothing(pre), NEW s \in Sends
  PROVE  /\ pre \o s \in Seq(Pieces) /\ NoObject(pre \o s)
         /\ s # <<>> => ~Nothing(pre \o s)
         /\ s = <<>> => pre \o s = pre
         /\ Append(pre \o s, "error") \in Seq(Pieces) /\ NoObject(Append(pre \o s, "error"))
         /\ pre \o s # <<>> => ~Nothing(Append(pre \o s, "error"))
<1>1. pre = <<>> \/ pre = <<"preface">>
  BY DEF Nothing
<1>2. s = <<>> \/ s = <<"body">> \/ s = <<"frames">> \/ s = <<"frames", "error">>
  BY DEF Sends
<1>3. pre \in Seq(Pieces) /\ s \in Seq(Pieces)
  <2>1. <<>> \in Seq(Pieces) /\ <<"preface">> \in Seq(Pieces) /\ <<"body">> \in Seq(Pieces)
    BY DEF Pieces
  <2>2. <<"frames">> \in Seq(Pieces) /\ <<"frames", "error">> \in Seq(Pieces)
    BY DEF Pieces
  <2>3. QED
    BY <1>1, <1>2, <2>1, <2>2
<1>4. pre \o s \in Seq(Pieces) /\ "error" \in Pieces
  BY <1>3 DEF Pieces
<1>5. Len(pre \o s) = Len(pre) + Len(s)
  BY <1>3
<1>6. Len(pre) \in Nat /\ Len(s) \in Nat
  BY <1>3
<1>7. NoObject(pre \o s)
  <2>1. NoObject(pre) /\ NoObject(s)
    BY <1>1, <1>2 DEF NoObject
  <2>2. ASSUME NEW i \in 1 .. Len(pre \o s) PROVE (pre \o s)[i] # "json"
    BY <1>3, <1>5, <1>6, <2>1 DEF NoObject
  <2>3. QED
    BY <2>2 DEF NoObject
<1>8. s # <<>> => ~Nothing(pre \o s)
  <2>1. ASSUME s # <<>> PROVE (pre \o s)[Len(pre) + 1] \in {"body", "frames"} /\ Len(s) >= 1
    BY <1>1, <1>2, <1>3, <1>6, <2>1
  <2>2. ASSUME s # <<>>, pre = <<>> PROVE (pre \o s)[1] # "preface" /\ Len(pre \o s) >= 1
    BY <1>5, <1>6, <2>1, <2>2
  <2>3. ASSUME s # <<>>, pre = <<"preface">> PROVE Len(pre \o s) >= 2
    BY <1>5, <1>6, <2>1, <2>3
  <2>4. Len(<<>>) = 0 /\ Len(<<"preface">>) = 1 /\ <<"preface">>[1] = "preface"
    OBVIOUS
  <2>5. ASSUME s # <<>>, Nothing(pre \o s) PROVE FALSE
    <3>1. CASE pre \o s = <<>>
      BY <1>1, <2>2, <2>3, <2>4, <2>5, <3>1
    <3>2. CASE pre \o s = <<"preface">>
      BY <1>1, <2>2, <2>3, <2>4, <2>5, <3>2
    <3>3. QED
      BY <2>5, <3>1, <3>2 DEF Nothing
  <2>6. QED
    BY <2>5
<1>9. s = <<>> => pre \o s = pre
  BY <1>3
<1>10. Append(pre \o s, "error") \in Seq(Pieces)
  BY <1>4
<1>11. NoObject(Append(pre \o s, "error"))
  BY <1>4, <1>7 DEF NoObject
<1>12. pre \o s # <<>> => ~Nothing(Append(pre \o s, "error"))
  <2>1. Len(Append(pre \o s, "error")) = Len(pre \o s) + 1 /\ Len(pre \o s) \in Nat
    BY <1>4
  <2>2. pre \o s # <<>> => Len(pre \o s) >= 1
    BY <1>4
  <2>3. QED
    BY <2>1, <2>2 DEF Nothing
<1>13. QED
  BY <1>4, <1>7, <1>8, <1>9, <1>10, <1>11, <1>12

LEMMA SoundEnded ==
  ASSUME NEW q, Sound(q), q.pc = "forwarding",
         NEW sent \in Seq(Pieces), NoObject(sent),
         NEW verdict \in {"ok", "again", "quit", "refuse"},
         IF verdict \in {"again", "refuse"} THEN sent = <<>> ELSE q.gone \/ ~Nothing(sent),
         sent = <<"preface">> => q.kind = "stream",
         NEW p \in Request, p.pc = "ended", p.sent = sent, p.verdict = verdict,
         p.list = q.list, p.at = q.at, p.attempts = q.attempts,
         p.kind = q.kind, p.wait = q.wait, p.skipped = q.skipped,
         p.failed = q.failed, p.status = q.status, p.gone = q.gone
  PROVE  Sound(p)
<1>1. Placed(p)
  BY DEF Sound, Placed, OnCandidate
<1>2. Replied(p)
  BY DEF Sound, Replied, Choosing
<1>3. Honest(p)
  BY DEF Sound, Honest, Choosing
<1>4. QED
  BY <1>1, <1>2, <1>3 DEF Sound

LEMMA SoundFailed ==
  ASSUME NEW q, Sound(q), q.pc = "forwarding", NEW o \in Failures(q.kind, q.sent)
  PROVE  Sound([q EXCEPT !.pc = "ended", !.sent = SentAfter(q, o),
                         !.blame = o.blame, !.verdict = VerdictAfter(q, o)])
<1> DEFINE sent == SentAfter(q, o)
           verdict == VerdictAfter(q, o)
           p == [q EXCEPT !.pc = "ended", !.sent = sent, !.blame = o.blame, !.verdict = verdict]
<1>1. /\ q \in Request /\ q.kind \in Kinds /\ Nothing(q.sent)
      /\ q.sent = <<"preface">> => q.kind = "stream"
  BY DEF Sound, Request, Replied
<1>2. /\ o.sends \in Sends /\ o.blame \in BOOLEAN
      /\ o.sends = <<>> => o.frame
  BY <1>1, FailureSends
<1>3. /\ q.sent \o o.sends \in Seq(Pieces) /\ NoObject(q.sent \o o.sends)
      /\ o.sends # <<>> => ~Nothing(q.sent \o o.sends)
      /\ o.sends = <<>> => q.sent \o o.sends = q.sent
      /\ Append(q.sent \o o.sends, "error") \in Seq(Pieces)
      /\ NoObject(Append(q.sent \o o.sends, "error"))
      /\ q.sent \o o.sends # <<>> => ~Nothing(Append(q.sent \o o.sends, "error"))
  BY <1>1, <1>2, SentOn
<1> DEFINE t == q.sent \o o.sends
<1>4. /\ sent = IF q.kind = "stream" /\ t # <<>> /\ o.frame THEN Append(t, "error") ELSE t
      /\ verdict = IF t # <<>> THEN "quit" ELSE IF o.again THEN "again" ELSE "refuse"
  BY DEF SentAfter, VerdictAfter
<1> HIDE DEF t, sent, verdict
<1>5. sent \in Seq(Pieces) /\ NoObject(sent)
  BY <1>3, <1>4 DEF t
<1>6. t = <<>> => sent = <<>> /\ verdict \in {"again", "refuse"}
  BY <1>4
<1>7. t # <<>> => verdict = "quit" /\ ~Nothing(sent)
  <2>1. CASE o.sends # <<>>
    BY <1>3, <1>4, <2>1 DEF t
  <2>2. CASE o.sends = <<>>
    <3>1. t = q.sent
      BY <1>3, <2>2 DEF t
    <3>2. t # <<>> => q.kind = "stream" /\ o.frame
      BY <1>1, <1>2, <2>2, <3>1 DEF Nothing
    <3>3. QED
      BY <1>3, <1>4, <3>2 DEF t
  <2>3. QED
    BY <2>1, <2>2
<1>8. sent = <<"preface">> => q.kind = "stream"
  BY <1>6, <1>7 DEF Nothing
<1>9. verdict \in {"ok", "again", "quit", "refuse"}
  BY <1>4
<1>10. IF verdict \in {"again", "refuse"} THEN sent = <<>> ELSE q.gone \/ ~Nothing(sent)
  BY <1>6, <1>7
<1>11. p \in Request
  BY <1>1, <1>2, <1>5, <1>9 DEF Request
<1>12. /\ p.pc = "ended" /\ p.sent = sent /\ p.verdict = verdict /\ p.list = q.list
       /\ p.at = q.at /\ p.attempts = q.attempts /\ p.kind = q.kind /\ p.wait = q.wait
       /\ p.skipped = q.skipped /\ p.failed = q.failed /\ p.status = q.status
       /\ p.gone = q.gone
  BY <1>1 DEF Request
<1>13. Sound(p)
  BY <1>5, <1>8, <1>9, <1>10, <1>11, <1>12, SoundEnded
<1>14. QED
  BY <1>13 DEF sent, verdict

LEMMA SoundCancelled ==
  ASSUME NEW q, Sound(q), q.pc = "forwarding", q.gone,
         NEW sends \in {<<>>} \cup (IF q.kind = "stream" THEN {<<"frames">>} ELSE {})
  PROVE  Sound([q EXCEPT !.pc = "ended", !.sent = @ \o sends, !.verdict = "quit"])
<1> DEFINE sent == q.sent \o sends
           verdict == "quit"
           p == [q EXCEPT !.pc = "ended", !.sent = sent, !.verdict = verdict]
<1>1. /\ q \in Request /\ q.kind \in Kinds /\ Nothing(q.sent)
      /\ q.sent = <<"preface">> => q.kind = "stream"
  BY DEF Sound, Request, Replied
<1>2. sends \in Sends
  BY DEF Sends
<1>3. /\ sent \in Seq(Pieces) /\ NoObject(sent)
      /\ sends # <<>> => ~Nothing(sent)
      /\ sends = <<>> => sent = q.sent
  BY <1>1, <1>2, SentOn
<1>4. /\ verdict \in {"ok", "again", "quit", "refuse"}
      /\ IF verdict \in {"again", "refuse"} THEN sent = <<>> ELSE q.gone \/ ~Nothing(sent)
  OBVIOUS
<1> HIDE DEF sent, verdict
<1>5. sent = <<"preface">> => q.kind = "stream"
  BY <1>1, <1>3 DEF Nothing
<1>6. p \in Request
  BY <1>1, <1>3, <1>4 DEF Request
<1>7. /\ p.pc = "ended" /\ p.sent = sent /\ p.verdict = verdict /\ p.list = q.list
      /\ p.at = q.at /\ p.attempts = q.attempts /\ p.kind = q.kind /\ p.wait = q.wait
      /\ p.skipped = q.skipped /\ p.failed = q.failed /\ p.status = q.status
      /\ p.gone = q.gone
  BY <1>1 DEF Request
<1>8. Sound(p)
  BY <1>3, <1>4, <1>5, <1>6, <1>7, SoundEnded, ZenonT(60)
<1>9. QED
  BY <1>8 DEF sent, verdict

LEMMA SoundSucceeded ==
  ASSUME NEW q, Sound(q), q.pc = "forwarding", NEW piece \in {"frames", "body"}
  PROVE  Sound([q EXCEPT !.pc = "ended", !.verdict = "ok", !.sent = Append(@, piece)])
<1> DEFINE sent == Append(q.sent, piece)
           p == [q EXCEPT !.pc = "ended", !.verdict = "ok", !.sent = sent]
<1>1. q \in Request /\ Nothing(q.sent) /\ q.sent \in Seq(Pieces)
  BY DEF Sound, Request, Replied
<1>2. sent \in Seq(Pieces)
  BY <1>1 DEF Pieces
<1>3. NoObject(sent)
  <2>1. NoObject(q.sent)
    BY <1>1 DEF NoObject, Nothing
  <2>2. QED
    BY <1>1, <2>1 DEF NoObject
<1>4. sent # <<>> /\ sent[Len(sent)] = piece
  BY <1>1
<1>5. ~Nothing(sent)
  <2>1. Len(<<"preface">>) = 1 /\ <<"preface">>[1] = "preface"
    OBVIOUS
  <2>2. QED
    BY <1>4, <2>1 DEF Nothing
<1> HIDE DEF sent
<1>6. sent # <<"preface">>
  BY <1>5 DEF Nothing
<1>7. p \in Request
  BY <1>1, <1>2 DEF Request
<1>8. /\ p.pc = "ended" /\ p.sent = sent /\ p.verdict = "ok" /\ p.list = q.list
      /\ p.at = q.at /\ p.attempts = q.attempts /\ p.kind = q.kind /\ p.wait = q.wait
      /\ p.skipped = q.skipped /\ p.failed = q.failed /\ p.status = q.status
      /\ p.gone = q.gone
  BY <1>1 DEF Request
<1>9. Sound(p)
  BY <1>2, <1>3, <1>5, <1>6, <1>7, <1>8, SoundEnded
<1>10. QED
  BY <1>9 DEF sent

LEMMA SoundReported ==
  ASSUME NEW q, Sound(q), q.pc = "ended"
  PROVE  Sound(Reported(q))
<1> DEFINE s == Settled(q)
<1>1. /\ q \in Request /\ q.verdict \in {"ok", "again", "refuse", "quit"}
      /\ q.at >= 1 /\ q.at <= Len(q.list) /\ q.attempts <= q.at
      /\ q.status = "none" /\ q.wait <= MaxWait /\ (q.skipped => q.wait >= 1)
  BY DEF Sound, Placed, Replied, Honest, OnCandidate, Request
<1>2. s \in Request
  BY <1>1 DEF Settled, Request
<1>3. /\ s.pc = "ended" /\ s.sent = q.sent /\ s.list = q.list /\ s.at = q.at
      /\ s.attempts = q.attempts /\ s.kind = q.kind /\ s.wait = q.wait
      /\ s.skipped = q.skipped /\ s.failed = q.failed /\ s.status = q.status
      /\ s.gone = q.gone
  BY <1>1 DEF Settled, Request
<1>4. q.list # <<>>
  BY <1>1 DEF Request
<1> HIDE DEF s
<1>5. ASSUME NEW p \in Request, p.pc = "done", NoObject(q.sent), q.gone \/ ~Nothing(q.sent),
             p.sent = q.sent, p.list = q.list, p.at = q.at, p.attempts = q.attempts,
             p.kind = q.kind, p.wait = q.wait, p.skipped = q.skipped,
             p.gone = q.gone, p.status \in {"none", "relayed"}
      PROVE  Sound(p)
  <2>1. Placed(p)
    BY <1>1, <1>5 DEF Placed, OnCandidate
  <2>2. Replied(p)
    BY <1>5 DEF Replied, Choosing, NoObject, Nothing, Sound
  <2>3. Honest(p)
    BY <1>1, <1>5 DEF Honest, Choosing
  <2>4. QED
    BY <1>5, <2>1, <2>2, <2>3 DEF Sound
<1>6. CASE q.verdict = "ok"
  <2> DEFINE p == [s EXCEPT !.pc = "done", !.status = "relayed"]
  <2>1. p \in Request
    BY <1>2 DEF Request
  <2>2. /\ p.pc = "done" /\ p.sent = q.sent /\ p.list = q.list /\ p.at = q.at
        /\ p.attempts = q.attempts /\ p.kind = q.kind /\ p.wait = q.wait
        /\ p.skipped = q.skipped /\ p.gone = q.gone /\ p.status = "relayed"
    BY <1>2, <1>3 DEF Request
  <2>3. NoObject(q.sent) /\ (q.gone \/ ~Nothing(q.sent))
    BY <1>6 DEF Sound, Replied
  <2>4. Sound(p)
    BY <1>5, <2>1, <2>2, <2>3
  <2>5. QED
    BY <1>6, <2>4 DEF Reported, s
<1>7. CASE q.verdict = "quit"
  <2> DEFINE p == [s EXCEPT !.pc = "done"]
  <2>1. p \in Request
    BY <1>2 DEF Request
  <2>2. /\ p.pc = "done" /\ p.sent = q.sent /\ p.list = q.list /\ p.at = q.at
        /\ p.attempts = q.attempts /\ p.kind = q.kind /\ p.wait = q.wait
        /\ p.skipped = q.skipped /\ p.gone = q.gone /\ p.status = "none"
    BY <1>1, <1>2, <1>3 DEF Request
  <2>3. NoObject(q.sent) /\ (q.gone \/ ~Nothing(q.sent))
    BY <1>7 DEF Sound, Replied
  <2>4. Sound(p)
    BY <1>5, <2>1, <2>2, <2>3
  <2>5. QED
    BY <1>7, <2>4 DEF Reported, s
<1>8. CASE q.verdict = "again"
  <2> DEFINE p == [s EXCEPT !.pc = "next", !.failed = TRUE]
  <2>1. p \in Request
    BY <1>2 DEF Request
  <2>2. /\ p.pc = "next" /\ p.sent = q.sent /\ p.list = q.list /\ p.at = q.at
        /\ p.attempts = q.attempts /\ p.kind = q.kind /\ p.wait = q.wait
        /\ p.skipped = q.skipped /\ p.gone = q.gone /\ p.status = "none" /\ p.failed
    BY <1>1, <1>2, <1>3 DEF Request
  <2>3. q.sent = <<>>
    BY <1>8 DEF Sound, Replied
  <2>4. Placed(p)
    BY <1>1, <1>4, <2>2 DEF Placed, OnCandidate
  <2>5. Replied(p)
    <3>1. <<>> # <<"preface">>
      OBVIOUS
    <3>2. p.sent = <<>> /\ p.sent # <<"preface">>
      BY <2>2, <2>3, <3>1
    <3>3. QED
      BY <2>2, <3>2 DEF Replied, Choosing
  <2>6. Honest(p)
    BY <1>1, <2>2 DEF Honest, Choosing
  <2>7. Sound(p)
    BY <2>1, <2>4, <2>5, <2>6 DEF Sound
  <2>8. QED
    BY <1>8, <2>7 DEF Reported, s
<1>9. CASE q.verdict = "refuse"
  <2>1. q.sent = <<>>
    BY <1>9 DEF Sound, Replied
  <2>2. Placed(s)
    BY <1>1, <1>3 DEF Placed, OnCandidate
  <2>3. Honest(s)
    BY <1>1, <1>3 DEF Honest, Choosing
  <2>4. Sound(Answered(s, "error"))
    BY <1>2, <1>3, <2>1, <2>2, <2>3, SoundAnswered
  <2>5. QED
    BY <1>9, <2>4 DEF Reported, s
<1>10. QED
  BY <1>1, <1>6, <1>7, <1>8, <1>9

-----------------------------------------------------------------------------
(* A step of one request, which leaves it sound, preserves the invariant   *)
(* if the breaker changes by at most one of its methods.                   *)
LEMMA OneRequest ==
  ASSUME IInv, NEW r \in Requests, NEW q, Sound(q), Becomes(r, q), now' = now,
         entries' \in [Channels -> Entry],
         \A c \in Channels : Bounded(entries'[c], now)
  PROVE  IInv'
<1>1. q \in Request /\ req \in [Requests -> Request] /\ now \in Nat
  BY DEF Sound, IInv, TypeOK
<1>2. req' \in [Requests -> Request]
  BY <1>1 DEF Becomes
<1>3. \A s \in Requests : Sound(req'[s])
  BY <1>1 DEF Becomes, IInv
<1>4. QED
  BY <1>1, <1>2, <1>3 DEF IInv, TypeOK

LEMMA SameEntries ==
  ASSUME IInv, NEW r \in Requests, NEW q, Sound(q), Becomes(r, q), UNCHANGED <<entries, now>>
  PROVE  IInv'
<1>1. entries' \in [Channels -> Entry] /\ \A c \in Channels : Bounded(entries'[c], now)
  BY DEF IInv, TypeOK
<1>2. QED
  BY <1>1, OneRequest

(* The candidate a request is on is a channel.                             *)
LEMMA CurrentIsChannel ==
  ASSUME IInv, NEW r \in Requests, req[r].at >= 1
  PROVE  Current(r) \in Channels
<1>1. Sound(req[r])
  BY DEF IInv
<1>2. /\ req[r].at \in 1 .. Len(req[r].list)
      /\ req[r].list \in CandidateLists
  BY <1>1 DEF Sound, Placed, Request
<1>3. QED
  BY <1>2, Lists DEF Current

LEMMA OneEntry ==
  ASSUME IInv, NEW r \in Requests, NEW q, Sound(q), Becomes(r, q), now' = now,
         NEW c \in Channels, NEW e, Bounded(e, now), entries' = [entries EXCEPT ![c] = e]
  PROVE  IInv'
<1>1. e \in Entry
  BY DEF Bounded
<1>2. entries' \in [Channels -> Entry] /\ \A d \in Channels : Bounded(entries'[d], now)
  BY <1>1 DEF IInv, TypeOK
<1>3. QED
  BY <1>2, OneRequest

LEMMA Inductive ==
  ASSUME IInv, [Next]_vars
  PROVE  IInv'
<1>0. /\ now \in Nat /\ entries \in [Channels -> Entry]
      /\ \A c \in Channels : Bounded(entries[c], now)
      /\ \A r \in Requests : Sound(req[r])
  BY DEF IInv, TypeOK
<1>1. ASSUME NEW r \in Requests, Refuse(r) PROVE IInv'
  <2>1. \A q \in {req[r], Prefaced(req[r])} : Sound(Answered(q, "error"))
    BY <1>0, <1>1, SoundIsFresh, SoundRefused DEF Refuse
  <2>2. QED
    BY <1>1, <2>1, SameEntries DEF Refuse
<1>2. ASSUME NEW r \in Requests, Admit(r) PROVE IInv'
  <2>1. \A q \in {[req[r] EXCEPT !.kind = k] : k \in Kinds} \cup {Prefaced(req[r])} : Fresh(q)
    BY <1>0, <1>2, SoundIsFresh DEF Admit
  <2>2. PICK q \in {[req[r] EXCEPT !.kind = k] : k \in Kinds} \cup {Prefaced(req[r])},
             l \in CandidateLists : Becomes(r, [q EXCEPT !.pc = "next", !.list = l])
    BY <1>2 DEF Admit
  <2>3. Sound([q EXCEPT !.pc = "next", !.list = l])
    BY <2>1, SoundAdmitted
  <2>4. QED
    BY <1>2, <2>2, <2>3, SameEntries DEF Admit
<1>3. ASSUME NEW r \in Requests, Leave(r) PROVE IInv'
  BY <1>0, <1>3, SoundGone, SameEntries DEF Leave
<1>4. ASSUME NEW r \in Requests, GiveUp(r) PROVE IInv'
  BY <1>0, <1>4, SoundAbandoned, SameEntries DEF GiveUp, MoreCandidates, Choosing
<1>5. ASSUME NEW r \in Requests, Skip(r) PROVE IInv'
  BY <1>0, <1>5, SoundSkipped, SameEntries DEF Skip, NextCandidate, MoreCandidates
<1>6. ASSUME NEW r \in Requests, NextCandidate(r) PROVE Taken([req[r] EXCEPT !.at = @ + 1])
  BY <1>0, <1>6, NextIsTaken DEF NextCandidate, MoreCandidates
<1>7. ASSUME NEW r \in Requests, Bypass(r) PROVE IInv'
  BY <1>6, <1>7, SoundForwarding, SameEntries DEF Bypass
<1>8. ASSUME NEW r \in Requests, Ask(r) PROVE IInv'
  <2> DEFINE q == [req[r] EXCEPT !.at = @ + 1]
             c == q.list[q.at]
             p == CASE Verdict(entries[c], now) = "allow" -> Forwarding(q)
                    [] Verdict(entries[c], now) = "probe" ->
                         [q EXCEPT !.pc = "probing", !.deadline = now + ProbeTimeout]
                    [] OTHER -> [q EXCEPT !.pc = "denied"]
  <2>1. Taken(q)
    BY <1>6, <1>8 DEF Ask
  <2>2. c \in Channels
    <3>1. q.list \in CandidateLists /\ q.at \in 1 .. Len(q.list)
      BY <2>1 DEF Taken, Request
    <3>2. QED
      BY <3>1, Lists
  <2>3. now + ProbeTimeout \in Nat
    BY <1>0, TimesAssumption
  <2>4. Sound(p)
    <3>1. Sound(Forwarding(q)) /\ Sound([q EXCEPT !.pc = "denied"])
      BY <2>1, SoundForwarding, SoundChoosing
    <3>2. Sound([q EXCEPT !.pc = "probing", !.deadline = now + ProbeTimeout])
      BY <2>1, <2>3, SoundChoosing
    <3>3. QED
      BY <3>1, <3>2
  <2>5. Becomes(r, p) /\ entries' = [entries EXCEPT ![c] = AfterAsking(entries[c], now)] /\ now' = now
    BY <1>8 DEF Ask
  <2>6. Bounded(AfterAsking(entries[c], now), now)
    BY <1>0, <2>2, StaysBounded
  <2> HIDE DEF q, c, p
  <2>7. QED
    BY <2>2, <2>4, <2>5, <2>6, OneEntry
<1>9. ASSUME NEW r \in Requests, NoteCooldown(r) PROVE IInv'
  <2>1. Current(r) \in Channels
    BY <1>0, <1>9, CurrentIsChannel DEF NoteCooldown, Sound, Placed, OnCandidate
  <2>2. AtLeastOne(RetryAfter(entries[Current(r)], now)) \in 1 .. MaxWait
    BY <1>0, <2>1, WaitTold
  <2>3. QED
    BY <1>0, <1>9, <2>2, SoundNoted, SameEntries DEF NoteCooldown
<1>10. ASSUME NEW r \in Requests, AbandonProbe(r) PROVE IInv'
  BY <1>0, <1>10, SoundAbandoned, SameEntries DEF AbandonProbe, Choosing
<1>11. ASSUME NEW r \in Requests, ProbeEnds(r) PROVE IInv'
  <2> DEFINE c == Current(r)
  <2>1. Taken(req[r])
    BY <1>0, <1>11, ChoosingIsTaken DEF ProbeEnds
  <2>2. c \in Channels
    BY <2>1, CurrentIsChannel DEF Taken
  <2>3. /\ Bounded(AfterSuccess(entries[c]), now) /\ Bounded(AfterCancel(entries[c], now), now)
        /\ Bounded(AfterFailure(entries[c], now), now)
    BY <1>0, <2>2, StaysBounded
  <2>4. Sound(Forwarding(req[r])) /\ Sound([req[r] EXCEPT !.pc = "unproven", !.deadline = 0])
    BY <2>1, SoundForwarding, SoundChoosing
  <2> HIDE DEF c
  <2>5. CASE /\ entries' = [entries EXCEPT ![c] = AfterSuccess(entries[c])]
             /\ Becomes(r, Forwarding(req[r]))
    BY <1>11, <2>2, <2>3, <2>4, <2>5, OneEntry DEF ProbeEnds
  <2>6. CASE /\ entries' = [entries EXCEPT ![c] = IF req[r].gone THEN AfterCancel(entries[c], now)
                                                   ELSE AfterFailure(entries[c], now)]
             /\ Becomes(r, [req[r] EXCEPT !.pc = "unproven", !.deadline = 0])
    <3>1. Bounded(IF req[r].gone THEN AfterCancel(entries[c], now)
                                 ELSE AfterFailure(entries[c], now), now)
      BY <2>3
    <3>2. QED
      BY <1>11, <2>2, <2>4, <2>6, <3>1, OneEntry DEF ProbeEnds
  <2>7. QED
    BY <1>11, <2>5, <2>6 DEF ProbeEnds, c
<1>12. ASSUME NEW r \in Requests, AttemptFails(r) PROVE IInv'
  BY <1>0, <1>12, SoundFailed, SameEntries DEF AttemptFails
<1>13. ASSUME NEW r \in Requests, AttemptCancelled(r) PROVE IInv'
  BY <1>0, <1>13, SoundCancelled, SameEntries DEF AttemptCancelled
<1>14. ASSUME NEW r \in Requests, AttemptSucceeds(r) PROVE IInv'
  BY <1>0, <1>14, SoundSucceeded, SameEntries DEF AttemptSucceeds
<1>15. ASSUME NEW r \in Requests, Report(r) PROVE IInv'
  <2> DEFINE c == Current(r)
  <2>1. c \in Channels
    BY <1>0, <1>15, CurrentIsChannel DEF Report, Sound, Placed, OnCandidate
  <2>2. Bounded(Judged(entries[c], req[r], now), now)
    <3>1. Bounded(entries[c], now)
      BY <1>0, <2>1
    <3>2. Bounded(AfterSuccess(entries[c]), now) /\ Bounded(AfterFailure(entries[c], now), now)
      BY <1>0, <2>1, StaysBounded
    <3>3. QED
      BY <3>1, <3>2 DEF Judged
  <2>3. Sound(Reported(req[r]))
    BY <1>0, <1>15, SoundReported DEF Report
  <2>4. /\ entries' = [entries EXCEPT ![c] = Judged(entries[c], req[r], now)]
        /\ Becomes(r, Reported(req[r])) /\ now' = now
    BY <1>15 DEF Report
  <2> HIDE DEF c
  <2>5. QED
    BY <2>1, <2>2, <2>3, <2>4, OneEntry
<1>16. ASSUME NEW r \in Requests, Exhausted(r) PROVE IInv'
  <2> DEFINE q == req[r]
  <2>1. /\ q \in Request /\ Placed(q) /\ Honest(q) /\ q.pc = "next"
        /\ q.sent = <<>> \/ (q.sent = <<"preface">> /\ q.attempts = 0 /\ q.kind = "stream")
    BY <1>0, <1>16 DEF Exhausted, Sound, Replied, Choosing
  <2>2. /\ FinalStatus(q) \in {"error", "unavailable"}
        /\ FinalStatus(q) = "unavailable" => q.skipped /\ ~q.failed /\ q.attempts = 0
    BY <2>1 DEF FinalStatus, Honest, Choosing
  <2>3. Sound(Answered(q, FinalStatus(q)))
    BY <2>1, <2>2, SoundAnswered
  <2>4. QED
    BY <1>16, <2>3, SameEntries DEF Exhausted
<1>17. CASE Tick
  <2>1. now' \in Nat /\ entries' = entries /\ req' = req /\ now' = now + 1
    BY <1>0, <1>17 DEF Tick
  <2>2. \A c \in Channels : Bounded(entries[c], now + 1)
    BY <1>0, StaysBounded
  <2>3. QED
    BY <2>1, <2>2 DEF IInv, TypeOK
<1>18. CASE UNCHANGED vars
  BY <1>18 DEF vars, IInv, TypeOK
<1>19. QED
  BY <1>1, <1>2, <1>3, <1>4, <1>5, <1>7, <1>8, <1>9, <1>10, <1>11, <1>12, <1>13, <1>14,
     <1>15, <1>16, <1>17, <1>18
  DEF Next, Step, AttemptEnds

(* The inductive invariant of the relay.                                   *)
THEOREM Invariant == Spec => []IInv
<1>1. Init => IInv
  <2> SUFFICES ASSUME Init PROVE IInv
    OBVIOUS
  <2>1. Arrived \in Request
    <3>1. <<>> \in Seq(Pieces)
      OBVIOUS
    <3>2. QED
      BY <3>1, CandidateAssumption DEF Arrived, Request, Kinds
  <2>2. Sound(Arrived)
    <3>1. Placed(Arrived)
      BY DEF Placed, Arrived, OnCandidate
    <3>2. <<>> # <<"preface">>
      OBVIOUS
    <3>3. Replied(Arrived)
      BY <3>2 DEF Replied, Arrived, Choosing
    <3>4. Honest(Arrived)
      BY WaitAssumption DEF Honest, Arrived, Choosing
    <3>5. QED
      BY <2>1, <3>1, <3>3, <3>4 DEF Sound
  <2>3. Bounded(Healthy, 0)
    BY DEF Bounded, Healthy, Entry
  <2>4. Healthy \in Entry
    BY DEF Healthy, Entry
  <2>5. QED
    BY <2>1, <2>2, <2>3, <2>4 DEF Init, IInv, TypeOK
<1>2. IInv /\ [Next]_vars => IInv'
  BY Inductive
<1>3. QED
  BY <1>1, <1>2, PTL DEF Spec

(* Type correctness of Relay: among other things no request is ever past   *)
(* the end of its list, or makes more attempts than it has candidates.     *)
THEOREM TypeCorrect == Spec => []TypeOK
<1>1. IInv => TypeOK
  BY DEF IInv
<1>2. QED
  BY <1>1, Invariant, PTL

(* Whatever the candidates do, a client gets exactly one response, and one *)
(* that is waiting gets one (finishForwardFailure, handleCompletion).      *)
THEOREM ExactlyOneResponse == Spec => []OneResponse
<1>1. ASSUME NEW q, Sound(q), q.pc # "done" PROVE NoObject(q.sent)
  <2>1. NoObject(<<>>) /\ NoObject(<<"preface">>)
    BY DEF NoObject
  <2>2. q.pc \in {"arrived", "next", "denied", "probing", "unproven", "forwarding", "ended"}
    BY <1>1 DEF Sound, Request
  <2>3. CASE q.pc = "ended"
    <3>1. q.verdict \in {"ok", "again", "quit", "refuse"}
      BY <1>1, <2>3 DEF Sound, Replied, Request
    <3>2. QED
      BY <1>1, <2>1, <2>3, <3>1 DEF Sound, Replied
  <2>4. CASE q.pc # "ended"
    <3>1. q.sent = <<>> \/ q.sent = <<"preface">>
      BY <1>1, <2>2, <2>4 DEF Sound, Replied, Choosing, Nothing
    <3>2. QED
      BY <2>1, <3>1
  <2>5. QED
    BY <2>3, <2>4
<1>2. IInv => OneResponse
  <2> SUFFICES ASSUME IInv, NEW r \in Requests
               PROVE  /\ \A i \in 1 .. Len(req[r].sent) :
                           req[r].sent[i] = "json" =>
                             /\ i = Len(req[r].sent)
                             /\ \/ i = 1
                                \/ i = 2 /\ req[r].sent[1] = "preface" /\ req[r].attempts = 0
                      /\ req[r].pc = "done" /\ ~req[r].gone => req[r].sent \notin {<<>>, <<"preface">>}
    BY DEF OneResponse
  <2>1. Sound(req[r])
    BY DEF IInv
  <2>2. CASE req[r].pc = "done"
    BY <2>1, <2>2 DEF Sound, Replied, Nothing
  <2>3. CASE req[r].pc # "done"
    BY <1>1, <2>1, <2>3 DEF NoObject
  <2>4. QED
    BY <2>2, <2>3
<1>3. QED
  BY <1>2, Invariant, PTL

(* A 503 with Retry-After is said only where no channel was tried, and its *)
(* delay is positive and no longer than the longest cooldown.              *)
THEOREM HonestUnavailable == Spec => []UnavailableIsHonest
<1>1. IInv => UnavailableIsHonest
  BY DEF IInv, Sound, Honest, UnavailableIsHonest, Request
<1>2. QED
  BY <1>1, Invariant, PTL

-----------------------------------------------------------------------------
(* Only a request that is choosing a channel makes another attempt.        *)
LEMMA AttemptsFromChoosing ==
  ASSUME IInv, [Next]_vars, NEW r \in Requests, ~Choosing(req[r])
  PROVE  req'[r].attempts = req[r].attempts
<1>1. req \in [Requests -> Request] /\ req[r] \in Request
  BY DEF IInv, TypeOK
<1>2. ASSUME NEW s \in Requests, s # r, NEW q, Becomes(s, q) PROVE req'[r] = req[r]
  BY <1>1, <1>2 DEF Becomes
<1>3. ASSUME NEW q, Becomes(r, q) PROVE req'[r] = q
  BY <1>1, <1>3 DEF Becomes
<1>4. ASSUME NEW s \in Requests, Leave(s) \/ Step(s), s # r PROVE req'[r] = req[r]
  BY <1>2, <1>4 DEF Leave, Step, Refuse, Admit, GiveUp, Skip, Bypass, Ask, NoteCooldown,
     AbandonProbe, ProbeEnds, AttemptEnds, AttemptFails, AttemptCancelled, AttemptSucceeds,
     Report, Exhausted
<1>5. ASSUME Leave(r) PROVE req'[r].attempts = req[r].attempts
  BY <1>1, <1>3, <1>5 DEF Leave, Request
<1>6. ASSUME Refuse(r) PROVE req'[r].attempts = req[r].attempts
  <2>1. PICK q \in {req[r], Prefaced(req[r])} : Becomes(r, Answered(q, "error"))
    BY <1>6 DEF Refuse
  <2>2. q.attempts = req[r].attempts /\ Answered(q, "error").attempts = q.attempts
    BY <1>1, <2>1 DEF Prefaced, Answered, Request
  <2>3. QED
    BY <1>3, <2>1, <2>2
<1>7. ASSUME Admit(r) PROVE req'[r].attempts = req[r].attempts
  <2>1. PICK q \in {[req[r] EXCEPT !.kind = k] : k \in Kinds} \cup {Prefaced(req[r])},
             l \in CandidateLists : Becomes(r, [q EXCEPT !.pc = "next", !.list = l])
    BY <1>7 DEF Admit
  <2>2. q \in Request /\ q.attempts = req[r].attempts
    <3>1. Sound(req[r]) /\ req[r].pc = "arrived"
      BY <1>7 DEF Admit, IInv
    <3>2. Fresh(req[r]) /\ Fresh(q)
      BY <2>1, <3>1, SoundIsFresh
    <3>3. QED
      BY <3>2 DEF Fresh
  <2>3. [q EXCEPT !.pc = "next", !.list = l].attempts = q.attempts
    BY <2>2 DEF Request
  <2>4. QED
    BY <1>3, <2>1, <2>2, <2>3
<1>8. ASSUME AttemptEnds(r) PROVE req'[r].attempts = req[r].attempts
  <2>1. CASE AttemptFails(r)
    <3>1. PICK o \in Failures(req[r].kind, req[r].sent) :
            Becomes(r, [req[r] EXCEPT !.pc = "ended", !.sent = SentAfter(req[r], o),
                                      !.blame = o.blame, !.verdict = VerdictAfter(req[r], o)])
      BY <2>1 DEF AttemptFails
    <3>2. req'[r] = [req[r] EXCEPT !.pc = "ended", !.sent = SentAfter(req[r], o),
                                   !.blame = o.blame, !.verdict = VerdictAfter(req[r], o)]
      BY <1>3, <3>1
    <3>3. QED
      BY <1>1, <3>2 DEF Request
  <2>2. CASE AttemptCancelled(r)
    <3>1. PICK sends \in {<<>>} \cup (IF req[r].kind = "stream" THEN {<<"frames">>} ELSE {}) :
            Becomes(r, [req[r] EXCEPT !.pc = "ended", !.sent = req[r].sent \o sends,
                                      !.verdict = "quit"])
      BY <2>2 DEF AttemptCancelled
    <3>2. req'[r] = [req[r] EXCEPT !.pc = "ended", !.sent = req[r].sent \o sends, !.verdict = "quit"]
      BY <1>3, <3>1
    <3>3. QED
      BY <1>1, <3>2 DEF Request
  <2>3. CASE AttemptSucceeds(r)
    <3>1. Becomes(r, [req[r] EXCEPT !.pc = "ended", !.verdict = "ok",
                        !.sent = Append(req[r].sent, IF req[r].kind = "stream" THEN "frames" ELSE "body")])
      BY <2>3 DEF AttemptSucceeds
    <3>2. req'[r] = [req[r] EXCEPT !.pc = "ended", !.verdict = "ok",
                     !.sent = Append(req[r].sent, IF req[r].kind = "stream" THEN "frames" ELSE "body")]
      BY <1>3, <3>1
    <3>3. QED
      BY <1>1, <3>2 DEF Request
  <2>4. QED
    BY <1>8, <2>1, <2>2, <2>3 DEF AttemptEnds
<1>9. ASSUME Report(r) PROVE req'[r].attempts = req[r].attempts
  <2> DEFINE s == Settled(req[r])
  <2>1. s \in Request /\ s.attempts = req[r].attempts
    BY <1>1 DEF Settled, Request
  <2>2. req[r].verdict \in {"ok", "again", "refuse", "quit"}
    BY <1>1, <1>9 DEF Report, IInv, Sound, Replied, Request
  <2> HIDE DEF s
  <2>3. /\ [s EXCEPT !.pc = "done", !.status = "relayed"].attempts = s.attempts
        /\ [s EXCEPT !.pc = "next", !.failed = TRUE].attempts = s.attempts
        /\ Answered(s, "error").attempts = s.attempts
        /\ [s EXCEPT !.pc = "done"].attempts = s.attempts
    BY <2>1 DEF Answered, Request
  <2>4. Reported(req[r]).attempts = s.attempts
    BY <2>2, <2>3 DEF Reported, s
  <2>5. QED
    BY <1>3, <1>9, <2>1, <2>4 DEF Report
<1>10. CASE Tick \/ UNCHANGED vars
  BY <1>10 DEF Tick, vars
<1>11. QED
  BY <1>4, <1>5, <1>6, <1>7, <1>8, <1>9, <1>10
  DEF Next, Step, Choosing, GiveUp, Skip, Bypass, Ask, NextCandidate, MoreCandidates,
      NoteCooldown, AbandonProbe, ProbeEnds, Exhausted

(* No channel is tried after an earlier attempt sent the client anything,  *)
(* whatever the candidates and the breaker do (forwardOutcome).            *)
THEOREM NeverReplayed == Spec => NoReplay
<1>1. ASSUME IInv, [Next]_vars, NEW r \in Requests,
             req[r].attempts > 0, req'[r].attempts > req[r].attempts
      PROVE  req[r].sent = <<>>
  <2>1. req[r] \in Request /\ Replied(req[r])
    BY <1>1 DEF IInv, Sound
  <2>2. req[r].attempts \in Nat
    BY <2>1 DEF Request
  <2>3. Choosing(req[r])
    BY <1>1, <2>2, AttemptsFromChoosing
  <2>4. QED
    BY <1>1, <2>1, <2>2, <2>3 DEF Replied
<1>2. IInv /\ [Next]_vars =>
        [\A r \in Requests :
           req[r].attempts > 0 /\ req'[r].attempts > req[r].attempts => req[r].sent = <<>>]_vars
  BY <1>1
<1>3. QED
  BY <1>2, Invariant, PTL DEF Spec, NoReplay

-----------------------------------------------------------------------------
(* The refinement: what CircuitBreaker sees of the i-th candidate of a     *)
(* request, as a function of the request's record.                         *)
PCOf(q, i) ==
  IF i > q.at THEN "idle"
  ELSE IF i = q.at /\ q.pc = "probing" THEN "probing"
  ELSE IF i = q.at /\ q.pc \in {"forwarding", "ended"} THEN "forwarding"
  ELSE "done"

ChanOf(q, i) == IF PCOf(q, i) \in {"probing", "forwarding"} THEN {q.list[q.at]} ELSE {}

DeadlineOf(q, i) == IF PCOf(q, i) = "probing" THEN q.deadline ELSE 0

SameCall(q, p, i) ==
  PCOf(p, i) = PCOf(q, i) /\ ChanOf(p, i) = ChanOf(q, i) /\ DeadlineOf(p, i) = DeadlineOf(q, i)

Indices == 1 .. MaxCandidates

PCs == [k \in Calls |-> CallPC(k)]
Chans == [k \in Calls |-> CallChan(k)]
Deadlines == [k \in Calls |-> CallDeadline(k)]

LEMMA CallSeen ==
  ASSUME TypeOK, NEW r \in Requests, NEW i \in Indices
  PROVE  /\ <<r, i>> \in Calls
         /\ PCs[<<r, i>>] = PCOf(req[r], i)
         /\ Chans[<<r, i>>] = ChanOf(req[r], i)
         /\ Deadlines[<<r, i>>] = DeadlineOf(req[r], i)
<1> DEFINE k == <<r, i>>
<1>1. k \in Calls /\ k[1] = r /\ k[2] = i
  BY DEF Calls, Indices
<1>2. req[r].at \in Nat /\ i \in Nat
  BY DEF TypeOK, Request, Indices
<1>3. CallPC(k) = PCOf(req[r], i)
  BY <1>1, <1>2 DEF CallPC, PCOf
<1>4. CallChan(k) = ChanOf(req[r], i)
  BY <1>1, <1>3 DEF CallChan, ChanOf, Current
<1>5. CallDeadline(k) = DeadlineOf(req[r], i)
  BY <1>1, <1>3 DEF CallDeadline, DeadlineOf
<1>6. QED
  BY <1>1, <1>3, <1>4, <1>5 DEF PCs, Chans, Deadlines

LEMMA CallSeenNext ==
  ASSUME TypeOK', NEW r \in Requests, NEW i \in Indices
  PROVE  /\ (PCs')[<<r, i>>] = PCOf(req'[r], i)
         /\ (Chans')[<<r, i>>] = ChanOf(req'[r], i)
         /\ (Deadlines')[<<r, i>>] = DeadlineOf(req'[r], i)
<1> DEFINE k == <<r, i>>
<1>1. k \in Calls /\ k[1] = r /\ k[2] = i
  BY DEF Calls, Indices
<1>2. req'[r].at \in Nat /\ i \in Nat
  BY DEF TypeOK, Request, Indices
<1>3. CallPC(k)' = PCOf(req'[r], i)
  BY <1>1, <1>2 DEF CallPC, PCOf
<1>4. CallChan(k)' = ChanOf(req'[r], i)
  BY <1>1, <1>3 DEF CallChan, ChanOf, Current
<1>5. CallDeadline(k)' = DeadlineOf(req'[r], i)
  BY <1>1, <1>3 DEF CallDeadline, DeadlineOf
<1>6. QED
  BY <1>1, <1>3, <1>4, <1>5 DEF PCs, Chans, Deadlines

(* A step of a request that shows the same calls is a stuttering step.     *)
LEMMA CallsStay ==
  ASSUME TypeOK, TypeOK', NEW r \in Requests, NEW p, Becomes(r, p),
         \A i \in Indices : SameCall(req[r], p, i)
  PROVE  PCs' = PCs /\ Chans' = Chans /\ Deadlines' = Deadlines
<1>1. \A s \in Requests : req'[s] = IF s = r THEN p ELSE req[s]
  BY DEF TypeOK, Becomes
<1>2. ASSUME NEW k \in Calls
      PROVE  (PCs')[k] = PCs[k] /\ (Chans')[k] = Chans[k] /\ (Deadlines')[k] = Deadlines[k]
  <2>1. PICK s \in Requests, i \in Indices : k = <<s, i>>
    BY DEF Calls, Indices
  <2>2. QED
    BY <1>1, <2>1, CallSeen, CallSeenNext DEF SameCall
<1>3. QED
  BY <1>2 DEF PCs, Chans, Deadlines

(* One that shows one call elsewhere moves that call.                      *)
LEMMA CallMoves ==
  ASSUME TypeOK, TypeOK', NEW r \in Requests, NEW p, Becomes(r, p), NEW j \in Indices,
         \A i \in Indices \ {j} : SameCall(req[r], p, i)
  PROVE  Calling!Moves(<<r, j>>, PCOf(p, j), ChanOf(p, j), DeadlineOf(p, j))
<1>1. \A s \in Requests : req'[s] = IF s = r THEN p ELSE req[s]
  BY DEF TypeOK, Becomes
<1>2. ASSUME NEW k \in Calls, k # <<r, j>>
      PROVE  (PCs')[k] = PCs[k] /\ (Chans')[k] = Chans[k] /\ (Deadlines')[k] = Deadlines[k]
  <2>1. PICK s \in Requests, i \in Indices : k = <<s, i>>
    BY DEF Calls, Indices
  <2>2. QED
    BY <1>1, <1>2, <2>1, CallSeen, CallSeenNext DEF SameCall
<1>3. /\ <<r, j>> \in Calls /\ (PCs')[<<r, j>>] = PCOf(p, j)
      /\ (Chans')[<<r, j>>] = ChanOf(p, j) /\ (Deadlines')[<<r, j>>] = DeadlineOf(p, j)
  BY <1>1, CallSeen, CallSeenNext
<1>4. /\ PCs' = [PCs EXCEPT ![<<r, j>>] = PCOf(p, j)]
      /\ Chans' = [Chans EXCEPT ![<<r, j>>] = ChanOf(p, j)]
      /\ Deadlines' = [Deadlines EXCEPT ![<<r, j>>] = DeadlineOf(p, j)]
  BY <1>2, <1>3 DEF PCs, Chans, Deadlines
<1>5. QED
  BY <1>4 DEF Calling!Moves, PCs, Chans, Deadlines

LEMMA SameBreaker ==
  ASSUME NEW e \in Entry, NEW t \in Nat
  PROVE  /\ Calling!Verdict(e, t) = Verdict(e, t)
         /\ Calling!AfterAsking(e, t) = AfterAsking(e, t)
         /\ Calling!AfterSuccess(e) = AfterSuccess(e)
         /\ Calling!AfterFailure(e, t) = AfterFailure(e, t)
         /\ Calling!AfterCancel(e, t) = AfterCancel(e, t)
<1>1. \A n \in Nat : Calling!CooldownWait(n) = CooldownWait(n)
  BY DEF CooldownWait, Capped, Doubled, Calling!CooldownWait, Calling!Capped, Calling!Doubled
<1>2. e.retries + 1 \in Nat
  BY DEF Entry
<1>3. Calling!AfterFailure(e, t) = AfterFailure(e, t)
  BY <1>1, <1>2 DEF AfterFailure, Calling!AfterFailure
<1>4. Calling!Verdict(e, t) = Verdict(e, t)
  BY DEF Verdict, Calling!Verdict
<1>5. QED
  BY <1>3, <1>4 DEF AfterAsking, AfterSuccess, AfterCancel, Healthy,
     Calling!AfterAsking, Calling!AfterSuccess, Calling!AfterCancel, Calling!Healthy

(* Which calls a new record shows elsewhere.                               *)
LEMMA TakesUp ==
  ASSUME NEW q \in Request, NEW p \in Request, q.pc = "next", p.at = q.at + 1
  PROVE  \A i \in Indices \ {p.at} : SameCall(q, p, i)
<1>1. q.at \in Nat /\ Indices \subseteq Nat
  BY DEF Request, Indices
<1>2. ASSUME NEW i \in Indices \ {p.at}
      PROVE  PCOf(q, i) = PCOf(p, i) /\ PCOf(q, i) \in {"idle", "done"}
  BY <1>1 DEF PCOf
<1>3. QED
  BY <1>2 DEF SameCall, ChanOf, DeadlineOf

LEMMA StaysOn ==
  ASSUME NEW q \in Request, NEW p \in Request, p.at = q.at
  PROVE  \A i \in Indices \ {q.at} : SameCall(q, p, i)
<1>1. q.at \in Nat /\ Indices \subseteq Nat
  BY DEF Request, Indices
<1>2. ASSUME NEW i \in Indices \ {q.at}
      PROVE  PCOf(q, i) = PCOf(p, i) /\ PCOf(q, i) \in {"idle", "done"}
  BY <1>1 DEF PCOf
<1>3. QED
  BY <1>2 DEF SameCall, ChanOf, DeadlineOf

LEMMA ShowsCurrent ==
  ASSUME NEW q \in Request
  PROVE  /\ q.pc = "probing" => /\ PCOf(q, q.at) = "probing"
                                /\ ChanOf(q, q.at) = {q.list[q.at]}
                                /\ DeadlineOf(q, q.at) = q.deadline
         /\ q.pc \in {"forwarding", "ended"} => /\ PCOf(q, q.at) = "forwarding"
                                                /\ ChanOf(q, q.at) = {q.list[q.at]}
                                                /\ DeadlineOf(q, q.at) = 0
         /\ q.pc \notin {"probing", "forwarding", "ended"} => /\ PCOf(q, q.at) = "done"
                                                            /\ ChanOf(q, q.at) = {}
                                                            /\ DeadlineOf(q, q.at) = 0
<1>1. q.at \in Nat /\ ~(q.at > q.at)
  BY DEF Request
<1>2. /\ q.pc = "probing" => PCOf(q, q.at) = "probing"
      /\ q.pc \in {"forwarding", "ended"} => PCOf(q, q.at) = "forwarding"
      /\ q.pc \notin {"probing", "forwarding", "ended"} => PCOf(q, q.at) = "done"
  BY <1>1 DEF PCOf
<1>3. QED
  BY <1>2 DEF ChanOf, DeadlineOf

(* A step within the candidate that keeps what it shows.                   *)
LEMMA ShowsSame ==
  ASSUME NEW q \in Request, NEW p \in Request, p.at = q.at,
         p.list = q.list \/ q.at = 0,
         \/ p.pc = q.pc /\ p.deadline = q.deadline
         \/ q.pc \in {"forwarding", "ended"} /\ p.pc \in {"forwarding", "ended"}
         \/ /\ q.pc \notin {"probing", "forwarding", "ended"}
            /\ p.pc \notin {"probing", "forwarding", "ended"}
  PROVE  \A i \in Indices : SameCall(q, p, i)
<1>1. \A i \in Indices \ {q.at} : SameCall(q, p, i)
  BY StaysOn
<1>2. q.at # 0 => SameCall(q, p, q.at)
  <2>1. q.pc \in {"probing", "forwarding", "ended"} \/ q.pc \notin {"probing", "forwarding", "ended"}
    OBVIOUS
  <2>2. QED
    BY <2>1, ShowsCurrent DEF SameCall
<1>3. 0 \notin Indices
  BY DEF Indices
<1>4. QED
  BY <1>1, <1>2, <1>3

(* A step that shows no call elsewhere and leaves the breaker alone.       *)
LEMMA Stutters ==
  ASSUME TypeOK, TypeOK', NEW r \in Requests, NEW p \in Request, Becomes(r, p),
         p.at = req[r].at, p.list = req[r].list \/ req[r].at = 0,
         \/ p.pc = req[r].pc /\ p.deadline = req[r].deadline
         \/ req[r].pc \in {"forwarding", "ended"} /\ p.pc \in {"forwarding", "ended"}
         \/ /\ req[r].pc \notin {"probing", "forwarding", "ended"}
            /\ p.pc \notin {"probing", "forwarding", "ended"},
         UNCHANGED <<entries, now>>
  PROVE  UNCHANGED Calling!vars
<1>1. \A i \in Indices : SameCall(req[r], p, i)
  BY ShowsSame DEF TypeOK
<1>2. PCs' = PCs /\ Chans' = Chans /\ Deadlines' = Deadlines
  BY <1>1, CallsStay
<1>3. QED
  BY <1>2 DEF PCs, Chans, Deadlines, Calling!vars

(* A request that takes up its next candidate moves that call, which was   *)
(* idle.                                                                   *)
LEMMA MovesNext ==
  ASSUME TypeOK, TypeOK', NEW r \in Requests, NEW p \in Request, Becomes(r, p),
         req[r].pc = "next", req[r].at < Len(req[r].list),
         p.at = req[r].at + 1, p.list = req[r].list
  PROVE  /\ <<r, p.at>> \in Calls /\ PCs[<<r, p.at>>] = "idle"
         /\ p.list[p.at] \in Channels
         /\ Calling!Moves(<<r, p.at>>, PCOf(p, p.at), ChanOf(p, p.at), DeadlineOf(p, p.at))
<1>1. req[r] \in Request /\ req[r].at \in Nat
  BY DEF TypeOK, Request
<1>2. req[r].list \in CandidateLists
  BY <1>1 DEF Request
<1>3. p.at \in Indices /\ p.at \in 1 .. Len(p.list)
  BY <1>1, <1>2, Lists, CandidateAssumption DEF Indices
<1>4. PCOf(req[r], p.at) = "idle"
  BY <1>1 DEF PCOf
<1>5. p.list[p.at] \in Channels
  BY <1>2, <1>3, Lists
<1>6. QED
  BY <1>1, <1>3, <1>4, <1>5, TakesUp, CallMoves, CallSeen

(* One that stays on its candidate moves the call of that candidate.       *)
LEMMA MovesCurrent ==
  ASSUME TypeOK, TypeOK', NEW r \in Requests, NEW p \in Request, Becomes(r, p),
         req[r].at >= 1, p.at = req[r].at
  PROVE  /\ <<r, p.at>> \in Calls
         /\ PCs[<<r, p.at>>] = PCOf(req[r], p.at) /\ Chans[<<r, p.at>>] = ChanOf(req[r], p.at)
         /\ Calling!Moves(<<r, p.at>>, PCOf(p, p.at), ChanOf(p, p.at), DeadlineOf(p, p.at))
<1>1. req[r] \in Request /\ req[r].at \in Indices
  BY DEF TypeOK, Request, Indices
<1>2. QED
  BY <1>1, StaysOn, CallMoves, CallSeen

LEMMA AskRefines ==
  ASSUME IInv, IInv', NEW r \in Requests, Ask(r)
  PROVE  \E k \in Calls, c \in Channels : Calling!Ask(k, c)
<1> DEFINE q == [req[r] EXCEPT !.at = @ + 1]
           c == q.list[q.at]
           p == CASE Verdict(entries[c], now) = "allow" -> Forwarding(q)
                  [] Verdict(entries[c], now) = "probe" ->
                       [q EXCEPT !.pc = "probing", !.deadline = now + ProbeTimeout]
                  [] OTHER -> [q EXCEPT !.pc = "denied"]
           k == <<r, q.at>>
<1>1. /\ TypeOK /\ TypeOK' /\ Sound(req[r]) /\ req[r] \in Request
      /\ req[r].pc = "next" /\ req[r].at < Len(req[r].list) /\ now \in Nat
  BY DEF IInv, TypeOK, Ask, NextCandidate, MoreCandidates
<1>2. Taken(q)
  BY <1>1, NextIsTaken
<1>3. q \in Request /\ q.at = req[r].at + 1 /\ q.list = req[r].list /\ q.pc = "next"
  BY <1>1, <1>2 DEF Taken, Request
<1>4. Becomes(r, p) /\ entries' = [entries EXCEPT ![c] = AfterAsking(entries[c], now)] /\ now' = now
  BY DEF Ask
<1> HIDE DEF q
<1>5. p = req'[r]
  BY <1>1, <1>4 DEF Becomes, TypeOK
<1> HIDE DEF p
<1>6. p \in Request
  BY <1>1, <1>5 DEF TypeOK
<1>7. p.at = q.at /\ p.list = q.list
  BY <1>3 DEF p, Forwarding, Request
<1>8. /\ k \in Calls /\ PCs[k] = "idle" /\ c \in Channels
      /\ Calling!Moves(k, PCOf(p, p.at), ChanOf(p, p.at), DeadlineOf(p, p.at))
  BY <1>1, <1>3, <1>4, <1>6, <1>7, MovesNext
<1>9. entries[c] \in Entry
  BY <1>1, <1>8 DEF TypeOK
<1>10. /\ Calling!Verdict(entries[c], now) = Verdict(entries[c], now)
       /\ Calling!AfterAsking(entries[c], now) = AfterAsking(entries[c], now)
  BY <1>1, <1>9, SameBreaker
<1>11. ASSUME Verdict(entries[c], now) = "allow" PROVE Calling!Moves(k, "forwarding", {c}, 0)
  <2>1. p.pc = "forwarding"
    BY <1>3, <1>11 DEF p, Forwarding, Request
  <2>2. QED
    BY <1>6, <1>7, <1>8, <2>1, ShowsCurrent
<1>12. ASSUME Verdict(entries[c], now) = "probe"
       PROVE Calling!Moves(k, "probing", {c}, now + ProbeTimeout)
  <2>1. p.pc = "probing" /\ p.deadline = now + ProbeTimeout
    BY <1>3, <1>12 DEF p, Request
  <2>2. QED
    BY <1>6, <1>7, <1>8, <2>1, ShowsCurrent
<1>13. ASSUME Verdict(entries[c], now) \notin {"allow", "probe"}
       PROVE Calling!Moves(k, "done", {}, 0)
  <2>1. p.pc = "denied"
    BY <1>3, <1>13 DEF p, Request
  <2>2. QED
    BY <1>6, <1>7, <1>8, <2>1, ShowsCurrent
<1> HIDE DEF c, k
<1>14. Calling!Ask(k, c)
  BY <1>4, <1>8, <1>10, <1>11, <1>12, <1>13 DEF Calling!Ask, Calling!Finishes, PCs
<1>15. QED
  BY <1>8, <1>14

LEMMA ProbeEndsRefines ==
  ASSUME IInv, IInv', NEW r \in Requests, ProbeEnds(r)
  PROVE  \E k \in Calls, c \in Channels : Calling!ProbeEnds(k, c)
<1> DEFINE q == req[r]
           c == Current(r)
           p == req'[r]
           k == <<r, q.at>>
<1>1. /\ TypeOK /\ TypeOK' /\ Taken(q) /\ q \in Request /\ p \in Request /\ now \in Nat
      /\ q.pc = "probing" /\ now' = now
  BY ChoosingIsTaken DEF IInv, TypeOK, ProbeEnds
<1>2. c \in Channels /\ c = q.list[q.at] /\ q.at >= 1
  BY <1>1, CurrentIsChannel DEF Taken, Current
<1>3. entries[c] \in Entry
  BY <1>1, <1>2 DEF TypeOK
<1>4. \/ /\ entries' = [entries EXCEPT ![c] = AfterSuccess(@)]
         /\ p = Forwarding(q)
      \/ /\ entries' = [entries EXCEPT ![c] =
                          IF q.gone THEN AfterCancel(@, now) ELSE AfterFailure(@, now)]
         /\ p = [q EXCEPT !.pc = "unproven", !.deadline = 0]
  BY <1>1 DEF ProbeEnds, Becomes, TypeOK
<1>5. p.at = q.at /\ p.list = q.list
  BY <1>1, <1>4 DEF Forwarding, Request
<1>6. Becomes(r, p)
  BY <1>1 DEF ProbeEnds, Becomes, TypeOK
<1>7. /\ k \in Calls /\ PCs[k] = "probing" /\ Chans[k] = {c}
      /\ Calling!Moves(k, PCOf(p, p.at), ChanOf(p, p.at), DeadlineOf(p, p.at))
  BY <1>1, <1>2, <1>5, <1>6, MovesCurrent, ShowsCurrent
<1>8. Calling!Probing(k, c)
  BY <1>7 DEF Calling!Probing, PCs, Chans
<1>9. /\ Calling!AfterSuccess(entries[c]) = AfterSuccess(entries[c])
      /\ Calling!AfterFailure(entries[c], now) = AfterFailure(entries[c], now)
      /\ Calling!AfterCancel(entries[c], now) = AfterCancel(entries[c], now)
  BY <1>1, <1>3, SameBreaker
<1>10. CASE /\ entries' = [entries EXCEPT ![c] = AfterSuccess(@)]
            /\ p = Forwarding(q)
  <2>1. p.pc = "forwarding"
    BY <1>1, <1>10 DEF Forwarding, Request
  <2>2. Calling!Moves(k, "forwarding", {c}, 0)
    BY <1>1, <1>2, <1>5, <1>7, <2>1, ShowsCurrent
  <2>3. Calling!ProbeSucceeds(k, c)
    BY <1>1, <1>8, <1>9, <1>10, <2>2 DEF Calling!ProbeSucceeds, Calling!RecordSuccess
  <2>4. QED
    BY <1>2, <1>7, <2>3 DEF Calling!ProbeEnds
<1>11. CASE /\ entries' = [entries EXCEPT ![c] =
                             IF q.gone THEN AfterCancel(@, now) ELSE AfterFailure(@, now)]
            /\ p = [q EXCEPT !.pc = "unproven", !.deadline = 0]
  <2>1. p.pc = "unproven"
    BY <1>1, <1>11 DEF Request
  <2>2. Calling!Moves(k, "done", {}, 0)
    BY <1>1, <1>7, <2>1, ShowsCurrent
  <2>3. Calling!ProbeFails(k, c) \/ Calling!ProbeCancelled(k, c)
    BY <1>1, <1>8, <1>9, <1>11, <2>2
    DEF Calling!ProbeFails, Calling!ProbeCancelled, Calling!RecordFailure, Calling!CancelProbe,
        Calling!Finishes
  <2>4. QED
    BY <1>2, <1>7, <2>3 DEF Calling!ProbeEnds
<1>12. QED
  BY <1>4, <1>10, <1>11

LEMMA ReportRefines ==
  ASSUME IInv, IInv', NEW r \in Requests, Report(r)
  PROVE  \E k \in Calls, c \in Channels :
           \/ Calling!ForwardSucceeds(k, c)
           \/ Calling!ForwardFails(k, c)
           \/ Calling!ForwardSaysNothing(k, c)
<1> DEFINE q == req[r]
           c == Current(r)
           p == req'[r]
           k == <<r, q.at>>
<1>1. /\ TypeOK /\ TypeOK' /\ Sound(q) /\ q \in Request /\ p \in Request /\ now \in Nat
      /\ q.pc = "ended" /\ now' = now /\ q.at >= 1
  BY DEF IInv, TypeOK, Report, Sound, Placed, OnCandidate
<1>2. c \in Channels /\ c = q.list[q.at]
  BY <1>1, CurrentIsChannel DEF Current
<1>3. entries[c] \in Entry
  BY <1>1, <1>2 DEF TypeOK
<1>4. entries' = [entries EXCEPT ![c] = Judged(@, q, now)] /\ p = Reported(q) /\ Becomes(r, p)
  BY <1>1 DEF Report, Becomes, TypeOK
<1>5. p.at = q.at /\ p.pc \in {"next", "done"}
  <2> DEFINE s == Settled(q)
  <2>1. s \in Request /\ s.at = q.at
    BY <1>1 DEF Settled, Request
  <2>2. q.verdict \in {"ok", "again", "refuse", "quit"}
    BY <1>1 DEF Sound, Replied, Request
  <2> HIDE DEF s
  <2>3. \/ p = [s EXCEPT !.pc = "done", !.status = "relayed"]
        \/ p = [s EXCEPT !.pc = "next", !.failed = TRUE]
        \/ p = Answered(s, "error")
        \/ p = [s EXCEPT !.pc = "done"]
    BY <1>4, <2>2 DEF Reported, s
  <2>4. /\ p = [s EXCEPT !.pc = "done", !.status = "relayed"] => p.at = s.at /\ p.pc = "done"
        /\ p = [s EXCEPT !.pc = "next", !.failed = TRUE] => p.at = s.at /\ p.pc = "next"
        /\ p = Answered(s, "error") => p.at = s.at /\ p.pc = "done"
        /\ p = [s EXCEPT !.pc = "done"] => p.at = s.at /\ p.pc = "done"
    BY <2>1 DEF Answered, Request
  <2>5. QED
    BY <2>1, <2>3, <2>4
<1>6. /\ k \in Calls /\ PCs[k] = "forwarding" /\ Chans[k] = {c}
      /\ Calling!Moves(k, PCOf(p, p.at), ChanOf(p, p.at), DeadlineOf(p, p.at))
  BY <1>1, <1>2, <1>4, <1>5, MovesCurrent, ShowsCurrent
<1>7. Calling!Forwarding(k, c) /\ Calling!Finishes(k)
  BY <1>1, <1>5, <1>6, ShowsCurrent DEF Calling!Forwarding, Calling!Finishes, PCs, Chans
<1>8. /\ Calling!AfterSuccess(entries[c]) = AfterSuccess(entries[c])
      /\ Calling!AfterFailure(entries[c], now) = AfterFailure(entries[c], now)
  BY <1>1, <1>3, SameBreaker
<1>9. \/ entries' = [entries EXCEPT ![c] = AfterSuccess(@)]
      \/ entries' = [entries EXCEPT ![c] = AfterFailure(@, now)]
      \/ entries' = entries
  <2>1. Judged(entries[c], q, now) \in {AfterSuccess(entries[c]), AfterFailure(entries[c], now), entries[c]}
    BY DEF Judged
  <2>2. QED
    BY <1>1, <1>4, <2>1 DEF TypeOK
<1>10. \/ Calling!ForwardSucceeds(k, c)
       \/ Calling!ForwardFails(k, c)
       \/ Calling!ForwardSaysNothing(k, c)
  BY <1>1, <1>7, <1>8, <1>9
  DEF Calling!ForwardSucceeds, Calling!ForwardFails, Calling!ForwardSaysNothing,
      Calling!RecordSuccess, Calling!RecordFailure
<1>11. QED
  BY <1>2, <1>6, <1>10

LEMMA BypassRefines ==
  ASSUME IInv, IInv', NEW r \in Requests, Bypass(r)
  PROVE  \E k \in Calls, c \in Channels : Calling!Bypass(k, c)
<1> DEFINE q == [req[r] EXCEPT !.at = @ + 1]
           p == req'[r]
           k == <<r, p.at>>
           c == p.list[p.at]
<1>1. /\ TypeOK /\ TypeOK' /\ req[r] \in Request /\ p \in Request
      /\ req[r].pc = "next" /\ req[r].at < Len(req[r].list)
  BY DEF IInv, TypeOK, Bypass, NextCandidate, MoreCandidates
<1>2. p = Forwarding(q) /\ Becomes(r, p) /\ UNCHANGED <<entries, now>>
  BY <1>1 DEF Bypass, Becomes, TypeOK
<1>3. p.pc = "forwarding" /\ p.at = req[r].at + 1 /\ p.list = req[r].list
  BY <1>1, <1>2 DEF Forwarding, Request
<1>4. /\ k \in Calls /\ PCs[k] = "idle" /\ c \in Channels
      /\ Calling!Moves(k, "forwarding", {c}, 0)
  BY <1>1, <1>2, <1>3, MovesNext, ShowsCurrent
<1> HIDE DEF p, k, c
<1>5. Calling!Bypass(k, c)
  BY <1>2, <1>4 DEF Calling!Bypass, PCs
<1>6. QED
  BY <1>4, <1>5

LEMMA SkipRefines ==
  ASSUME IInv, IInv', NEW r \in Requests, Skip(r)
  PROVE  \E k \in Calls : Calling!Skip(k)
<1> DEFINE p == req'[r]
           k == <<r, p.at>>
<1>1. /\ TypeOK /\ TypeOK' /\ req[r] \in Request /\ p \in Request
      /\ req[r].pc = "next" /\ req[r].at < Len(req[r].list)
  BY DEF IInv, TypeOK, Skip, NextCandidate, MoreCandidates
<1>2. /\ \E broken \in BOOLEAN : p = [req[r] EXCEPT !.at = @ + 1, !.failed = @ \/ broken]
      /\ Becomes(r, p) /\ UNCHANGED <<entries, now>>
  BY <1>1 DEF Skip, Becomes, TypeOK
<1>3. p.pc = "next" /\ p.at = req[r].at + 1 /\ p.list = req[r].list
  BY <1>1, <1>2 DEF Request
<1>4. k \in Calls /\ PCs[k] = "idle" /\ Calling!Moves(k, "done", {}, 0)
  <2>1. PCOf(p, p.at) = "done" /\ ChanOf(p, p.at) = {} /\ DeadlineOf(p, p.at) = 0
    BY <1>1, <1>3, ShowsCurrent
  <2>2. /\ k \in Calls /\ PCs[k] = "idle"
        /\ Calling!Moves(k, PCOf(p, p.at), ChanOf(p, p.at), DeadlineOf(p, p.at))
    BY <1>1, <1>2, <1>3, MovesNext
  <2>3. QED
    BY <2>1, <2>2
<1> HIDE DEF p, k
<1>5. Calling!Skip(k)
  BY <1>2, <1>4 DEF Calling!Skip, Calling!Finishes, PCs
<1>6. QED
  BY <1>4, <1>5

(* What every other step of a request leaves of its record.                *)
LEMMA OthersStutter ==
  ASSUME IInv, IInv', NEW r \in Requests,
         \/ Refuse(r) \/ Admit(r) \/ Leave(r) \/ GiveUp(r) \/ NoteCooldown(r)
         \/ AbandonProbe(r) \/ AttemptEnds(r) \/ Exhausted(r)
  PROVE  UNCHANGED Calling!vars
<1> DEFINE q == req[r]
           p == req'[r]
<1>1. TypeOK /\ TypeOK' /\ q \in Request /\ p \in Request /\ Sound(q)
  BY DEF IInv, TypeOK
<1>2. Becomes(r, p) /\ UNCHANGED <<entries, now>>
  BY <1>1 DEF Refuse, Admit, Leave, GiveUp, NoteCooldown, AbandonProbe, AttemptEnds,
     AttemptFails, AttemptCancelled, AttemptSucceeds, Exhausted, Becomes, TypeOK
<1>3. ASSUME NEW x, Becomes(r, x) PROVE p = x
  BY <1>1, <1>3 DEF Becomes, TypeOK
<1>4. CASE Refuse(r)
  <2>1. PICK x \in {q, Prefaced(q)} : Becomes(r, Answered(x, "error"))
    BY <1>4 DEF Refuse
  <2>2. Fresh(q) /\ Fresh(x) /\ q.pc = "arrived"
    BY <1>1, <1>4, <2>1, SoundIsFresh DEF Refuse
  <2>3. p = Answered(x, "error")
    BY <1>3, <2>1
  <2>4. p.at = q.at /\ q.at = 0 /\ p.pc = "done"
    BY <2>2, <2>3 DEF Fresh, Answered, Request
  <2>5. QED
    BY <1>1, <1>2, <2>2, <2>4, Stutters
<1>5. CASE Admit(r)
  <2>1. PICK x \in {[q EXCEPT !.kind = k] : k \in Kinds} \cup {Prefaced(q)},
             l \in CandidateLists : Becomes(r, [x EXCEPT !.pc = "next", !.list = l])
    BY <1>5 DEF Admit
  <2>2. Fresh(q) /\ Fresh(x) /\ q.pc = "arrived"
    <3>1. q.pc = "arrived"
      BY <1>5 DEF Admit
    <3>2. Fresh(q) /\ Fresh(Prefaced(q)) /\ \A k \in Kinds : Fresh([q EXCEPT !.kind = k])
      BY <1>1, <3>1, SoundIsFresh
    <3>3. QED
      BY <2>1, <3>1, <3>2
  <2>3. p = [x EXCEPT !.pc = "next", !.list = l]
    BY <1>3, <2>1
  <2>4. p.at = q.at /\ q.at = 0 /\ p.pc = "next"
    BY <2>2, <2>3 DEF Fresh, Request
  <2>5. QED
    BY <1>1, <1>2, <2>2, <2>4, Stutters
<1>6. CASE Leave(r)
  <2>1. p = [q EXCEPT !.gone = TRUE]
    BY <1>3, <1>6 DEF Leave
  <2>2. p.at = q.at /\ p.list = q.list /\ p.pc = q.pc /\ p.deadline = q.deadline
    BY <1>1, <2>1 DEF Request
  <2>3. QED
    BY <1>1, <1>2, <2>2, Stutters
<1>7. CASE GiveUp(r) \/ AbandonProbe(r)
  <2>1. p = [q EXCEPT !.pc = "done"] /\ q.pc \in {"next", "unproven"}
    BY <1>3, <1>7 DEF GiveUp, MoreCandidates, AbandonProbe
  <2>2. p.at = q.at /\ p.list = q.list /\ p.pc = "done"
    BY <1>1, <2>1 DEF Request
  <2>3. QED
    BY <1>1, <1>2, <2>1, <2>2, Stutters
<1>8. CASE NoteCooldown(r)
  <2>1. PICK w : p = [q EXCEPT !.pc = "next", !.skipped = TRUE, !.wait = w]
    BY <1>3, <1>8 DEF NoteCooldown
  <2>2. p.at = q.at /\ p.list = q.list /\ p.pc = "next" /\ q.pc \in {"denied", "unproven"}
    BY <1>1, <1>8, <2>1 DEF NoteCooldown, Request
  <2>3. QED
    BY <1>1, <1>2, <2>2, Stutters
<1>9. CASE AttemptEnds(r)
  <2>1. PICK s, b, v : p = [q EXCEPT !.pc = "ended", !.sent = s, !.blame = b, !.verdict = v]
    <3>1. CASE AttemptFails(r)
      BY <1>3, <3>1 DEF AttemptFails
    <3>2. CASE AttemptCancelled(r)
      <4>1. PICK s : p = [q EXCEPT !.pc = "ended", !.sent = s, !.verdict = "quit"]
        BY <1>3, <3>2 DEF AttemptCancelled
      <4>2. p = [q EXCEPT !.pc = "ended", !.sent = s, !.blame = q.blame, !.verdict = "quit"]
        BY <1>1, <4>1 DEF Request
      <4>3. QED
        BY <4>2
    <3>3. CASE AttemptSucceeds(r)
      <4>1. PICK s : p = [q EXCEPT !.pc = "ended", !.verdict = "ok", !.sent = s]
        BY <1>3, <3>3 DEF AttemptSucceeds
      <4>2. p = [q EXCEPT !.pc = "ended", !.sent = s, !.blame = q.blame, !.verdict = "ok"]
        BY <1>1, <4>1 DEF Request
      <4>3. QED
        BY <4>2
    <3>4. QED
      BY <1>9, <3>1, <3>2, <3>3 DEF AttemptEnds
  <2>2. p.at = q.at /\ p.list = q.list /\ p.pc = "ended"
    BY <1>1, <2>1 DEF Request
  <2>3. q.pc = "forwarding"
    BY <1>9 DEF AttemptEnds, AttemptFails, AttemptCancelled, AttemptSucceeds
  <2>4. QED
    BY <1>1, <1>2, <2>2, <2>3, Stutters
<1>10. CASE Exhausted(r)
  <2>1. p = Answered(q, FinalStatus(q)) /\ q.pc = "next"
    BY <1>3, <1>10 DEF Exhausted
  <2>2. p.at = q.at /\ p.list = q.list /\ p.pc = "done"
    BY <1>1, <2>1 DEF Answered, Request
  <2>3. QED
    BY <1>1, <1>2, <2>1, <2>2, Stutters
<1>11. QED
  BY <1>4, <1>5, <1>6, <1>7, <1>8, <1>9, <1>10

LEMMA TickRefines ==
  ASSUME IInv, Tick
  PROVE  Calling!Tick
<1>1. TypeOK /\ req' = req /\ entries' = entries /\ now < Horizon /\ now' = now + 1
  BY DEF IInv, Tick
<1>2. PCs' = PCs /\ Chans' = Chans /\ Deadlines' = Deadlines
  BY <1>1 DEF PCs, Chans, Deadlines, CallPC, CallChan, CallDeadline, Current
<1>3. ASSUME NEW k \in Calls, PCs[k] = "probing" PROVE now < Deadlines[k]
  <2>1. PICK r \in Requests, i \in Indices : k = <<r, i>>
    BY DEF Calls, Indices
  <2>2. PCOf(req[r], i) = "probing" /\ Deadlines[k] = DeadlineOf(req[r], i)
    BY <1>1, <1>3, <2>1, CallSeen
  <2>3. req[r].pc = "probing" /\ Deadlines[k] = req[r].deadline
    BY <2>2 DEF PCOf, DeadlineOf
  <2>4. QED
    BY <2>3 DEF Tick
<1>4. QED
  BY <1>1, <1>2, <1>3 DEF Calling!Tick, Calling!callVars, PCs, Chans, Deadlines

(* The relay uses the breaker as CircuitBreaker describes, for any number  *)
(* of requests and candidates: every step of a request is a step of one of *)
(* its calls, or none of the breaker's business (handleCompletion).        *)
THEOREM ImplementsCalls == Spec => CallingSpec
<1>1. Init => Calling!Init
  <2> SUFFICES ASSUME Init PROVE Calling!Init
    OBVIOUS
  <2>1. ASSUME NEW k \in Calls
        PROVE  CallPC(k) = "idle" /\ CallChan(k) = {} /\ CallDeadline(k) = 0
    <3>1. k[1] \in Requests /\ k[2] \in Nat /\ k[2] > 0
      BY CandidateAssumption DEF Calls
    <3>2. req[k[1]].at = 0
      BY <3>1 DEF Init, Arrived
    <3>3. CallPC(k) = "idle"
      BY <3>1, <3>2 DEF CallPC
    <3>4. QED
      BY <3>3 DEF CallChan, CallDeadline
  <2>2. entries = [c \in Channels |-> Calling!Healthy] /\ now = 0
    BY DEF Init, Healthy, Calling!Healthy
  <2>3. QED
    BY <2>1, <2>2 DEF Calling!Init
<1>2. ASSUME IInv, IInv', [Next]_vars PROVE [Calling!Next]_(Calling!vars)
  <2>1. ASSUME NEW r \in Requests, Leave(r) \/ Step(r) PROVE Calling!Next \/ UNCHANGED Calling!vars
    <3>1. CASE Ask(r)
      BY <1>2, <3>1, AskRefines DEF Calling!Next
    <3>2. CASE Bypass(r)
      BY <1>2, <3>2, BypassRefines DEF Calling!Next
    <3>3. CASE ProbeEnds(r)
      BY <1>2, <3>3, ProbeEndsRefines DEF Calling!Next
    <3>4. CASE Report(r)
      BY <1>2, <3>4, ReportRefines DEF Calling!Next
    <3>5. CASE Skip(r)
      BY <1>2, <3>5, SkipRefines DEF Calling!Next
    <3>6. QED
      BY <1>2, <2>1, <3>1, <3>2, <3>3, <3>4, <3>5, OthersStutter DEF Step
  <2>2. CASE Tick
    BY <1>2, <2>2, TickRefines DEF Calling!Next
  <2>3. CASE UNCHANGED vars
    BY <2>3 DEF vars, Calling!vars, CallPC, CallChan, CallDeadline, Current
  <2>4. QED
    BY <1>2, <2>1, <2>2, <2>3 DEF Next
<1>3. IInv /\ IInv' /\ [Next]_vars => [Calling!Next]_(Calling!vars)
  BY <1>2
<1>4. QED
  BY <1>1, <1>3, Invariant, PTL DEF Spec, CallingSpec, Calling!Spec
-----------------------------------------------------------------------------
(* What CircuitBreaker_proofs shows of the calls, said of the requests.    *)
BreakerProofs == INSTANCE CircuitBreaker_proofs
                   WITH pc <- [k \in Calls |-> CallPC(k)],
                        chan <- [k \in Calls |-> CallChan(k)],
                        deadline <- [k \in Calls |-> CallDeadline(k)]

Probes(r, c) == req[r].pc = "probing" /\ Current(r) = c

(* At most one request probes a channel (breakerProbing, MayProceed).      *)
ProbesAlone ==
  \A c \in Channels, q, r \in Requests : Probes(q, c) /\ Probes(r, c) => q = r

(* A reservation belongs to a request that is inside probeChannel.         *)
ReservationHasRequest ==
  \A c \in Channels : entries[c].state = "probing" => \E r \in Requests : Probes(r, c)

(* No request's failure cuts a running cooldown short (RecordFailure).     *)
CooldownOutlasts ==
  [][\A c \in Channels :
       entries[c].state = "cooldown" /\ entries'[c].state = "cooldown"
         => entries'[c].expiry >= entries[c].expiry]_vars

(* The two instances of CircuitBreaker are one specification.              *)
LEMMA SameCalls == CallingSpec <=> BreakerProofs!Spec
<1>1. /\ Calling!Init <=> BreakerProofs!Init
      /\ Calling!Next <=> BreakerProofs!Next
  BY DEF Calling!Init, BreakerProofs!Init, Calling!Healthy, BreakerProofs!Healthy,
    Calling!Next, BreakerProofs!Next, Calling!callVars, BreakerProofs!callVars,
    Calling!Ask, BreakerProofs!Ask, Calling!Bypass, BreakerProofs!Bypass,
    Calling!ForwardSucceeds, BreakerProofs!ForwardSucceeds,
    Calling!ForwardFails, BreakerProofs!ForwardFails,
    Calling!ForwardSaysNothing, BreakerProofs!ForwardSaysNothing,
    Calling!ProbeEnds, BreakerProofs!ProbeEnds,
    Calling!ProbeSucceeds, BreakerProofs!ProbeSucceeds,
    Calling!ProbeFails, BreakerProofs!ProbeFails,
    Calling!ProbeCancelled, BreakerProofs!ProbeCancelled,
    Calling!Skip, BreakerProofs!Skip, Calling!Tick, BreakerProofs!Tick,
    Calling!RecordSuccess, BreakerProofs!RecordSuccess,
    Calling!RecordFailure, BreakerProofs!RecordFailure,
    Calling!CancelProbe, BreakerProofs!CancelProbe,
    Calling!AfterAsking, BreakerProofs!AfterAsking,
    Calling!AfterSuccess, BreakerProofs!AfterSuccess,
    Calling!AfterFailure, BreakerProofs!AfterFailure,
    Calling!AfterCancel, BreakerProofs!AfterCancel,
    Calling!CooldownWait, BreakerProofs!CooldownWait,
    Calling!Capped, BreakerProofs!Capped, Calling!Doubled, BreakerProofs!Doubled,
    Calling!Verdict, BreakerProofs!Verdict, Calling!Moves, BreakerProofs!Moves,
    Calling!Finishes, BreakerProofs!Finishes,
    Calling!Forwarding, BreakerProofs!Forwarding, Calling!Probing, BreakerProofs!Probing
<1>2. [Calling!Next]_(Calling!vars) <=> [BreakerProofs!Next]_(BreakerProofs!vars)
  BY <1>1 DEF Calling!vars, BreakerProofs!vars
<1>3. QED
  BY <1>1, <1>2, PTL DEF CallingSpec, Calling!Spec, BreakerProofs!Spec

(* A request probes what the call of its present candidate probes.         *)
LEMMA ProbesSeen ==
  ASSUME IInv, NEW r \in Requests, NEW c \in Channels
  PROVE  Probes(r, c) => <<r, req[r].at>> \in Calls /\ BreakerProofs!Probing(<<r, req[r].at>>, c)
<1> SUFFICES ASSUME Probes(r, c)
             PROVE  <<r, req[r].at>> \in Calls /\ BreakerProofs!Probing(<<r, req[r].at>>, c)
  OBVIOUS
<1>1. TypeOK /\ Sound(req[r]) /\ req[r].pc = "probing" /\ req[r].list[req[r].at] = c
  BY DEF IInv, Probes, Current
<1>2. req[r].at \in Indices
  BY <1>1, CandidateAssumption DEF Sound, Placed, OnCandidate, Request, Indices
<1>3. PCOf(req[r], req[r].at) = "probing" /\ ChanOf(req[r], req[r].at) = {c}
  BY <1>1, <1>2 DEF PCOf, ChanOf, Indices
<1>4. QED
  BY <1>1, <1>2, <1>3, CallSeen DEF BreakerProofs!Probing, PCs, Chans

LEMMA ProbingSeen ==
  ASSUME TypeOK, NEW k \in Calls, NEW c \in Channels, BreakerProofs!Probing(k, c)
  PROVE  \E r \in Requests : Probes(r, c)
<1>1. PICK r \in Requests, i \in Indices : k = <<r, i>>
  BY DEF Calls, Indices
<1>2. PCOf(req[r], i) = "probing" /\ ChanOf(req[r], i) = {c}
  BY <1>1, CallSeen DEF BreakerProofs!Probing, PCs, Chans
<1>3. req[r].pc = "probing" /\ i = req[r].at /\ {req[r].list[i]} = {c}
  BY <1>2 DEF PCOf, ChanOf
<1>4. QED
  BY <1>3 DEF Probes, Current

(* Of any number of requests at most one probes a channel at any time, if  *)
(* the probe's timeout is shorter than the first cooldown: the reservation *)
(* of MayProceed keeps this through every failure that a forwarded request *)
(* reports late (handleCompletion, finishProbe).                           *)
THEOREM OneProbePerChannel ==
  ASSUME ProbeTimeout < BaseWait PROVE Spec => []ProbesAlone
<1>1. BreakerProofs!ShortProbes
  BY DEF BreakerProofs!ShortProbes
<1>2. BreakerProofs!Spec => []BreakerProofs!OneProbe
  BY <1>1, BreakerProofs!HalfOpenSafety, WaitAssumption, TimesAssumption, PTL
<1>3. IInv /\ BreakerProofs!OneProbe => ProbesAlone
  <2> SUFFICES ASSUME IInv, BreakerProofs!OneProbe, NEW c \in Channels,
                      NEW q \in Requests, NEW r \in Requests, Probes(q, c), Probes(r, c)
               PROVE  q = r
    BY DEF ProbesAlone
  <2>1. /\ <<q, req[q].at>> \in Calls /\ BreakerProofs!Probing(<<q, req[q].at>>, c)
        /\ <<r, req[r].at>> \in Calls /\ BreakerProofs!Probing(<<r, req[r].at>>, c)
    BY ProbesSeen
  <2>2. <<q, req[q].at>> = <<r, req[r].at>>
    BY <2>1, Zenon DEF BreakerProofs!OneProbe
  <2>3. QED
    BY <2>2
<1>4. QED
  BY <1>2, <1>3, SameCalls, ImplementsCalls, Invariant, PTL

(* A channel whose entry is in breakerProbing has a request that is inside *)
(* probeChannel and will call finishProbe, whatever its timeout.           *)
THEOREM ReservationsAreHeld == Spec => []ReservationHasRequest
<1>1. BreakerProofs!Spec => []BreakerProofs!ReservationHasOwner
  BY BreakerProofs!NoOrphanedReservation, WaitAssumption, TimesAssumption, PTL
<1>2. IInv /\ BreakerProofs!ReservationHasOwner => ReservationHasRequest
  BY ProbingSeen DEF IInv, BreakerProofs!ReservationHasOwner, ReservationHasRequest
<1>3. QED
  BY <1>1, <1>2, SameCalls, ImplementsCalls, Invariant, PTL

(* Whatever requests report, in whatever order, a cooldown that runs is    *)
(* never cut short by another failure.                                     *)
THEOREM CooldownsOutlast == Spec => CooldownOutlasts
<1> DEFINE Outlasts ==
      \A c \in Channels :
        entries[c].state = "cooldown" /\ entries'[c].state = "cooldown"
          => entries'[c].expiry >= entries[c].expiry
<1>1. BreakerProofs!Spec => BreakerProofs!CooldownNeverShrinks
  BY BreakerProofs!CooldownMonotone, WaitAssumption, TimesAssumption, PTL
<1>2. ASSUME IInv, [Outlasts]_(BreakerProofs!vars) PROVE [Outlasts]_vars
  <2>1. CASE Outlasts
    BY <2>1
  <2>2. CASE UNCHANGED BreakerProofs!vars
    <3>1. entries' = entries
      BY <2>2 DEF BreakerProofs!vars
    <3>2. \A c \in Channels : entries[c].expiry \in Nat
      BY <1>2 DEF IInv, TypeOK, Entry
    <3>3. QED
      BY <3>1, <3>2
  <2>3. QED
    BY <1>2, <2>1, <2>2
<1>3. IInv /\ [Outlasts]_(BreakerProofs!vars) => [Outlasts]_vars
  BY <1>2
<1>4. QED
  BY <1>1, <1>3, SameCalls, ImplementsCalls, Invariant, PTL
  DEF CooldownOutlasts, BreakerProofs!CooldownNeverShrinks
=============================================================================
