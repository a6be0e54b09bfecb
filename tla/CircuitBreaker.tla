---------------------------- MODULE CircuitBreaker ----------------------------
(***************************************************************************)
(* CircuitBreaker (handler/circuit_breaker.go) together with everything    *)
(* that calls it, for any number of channels and of concurrent calls.  A   *)
(* call is one iteration of a candidate loop in handler/proxy.go: it asks  *)
(* the breaker, or goes past it, and later reports how the attempt went.   *)
(*                                                                         *)
(* A call of handleCompletion asks when both failover switches are on.     *)
(* PassthroughEndpoint, and a channel whose switch is off, never ask, yet  *)
(* they report; and a call that was let through may report long after the  *)
(* channel's entry has changed under it.                                   *)
(*                                                                         *)
(* Bounds: each member of Calls is used once; the clock stops at Horizon.  *)
(***************************************************************************)
EXTENDS Breaker

CONSTANTS Channels,
          Calls,
          ProbeTimeout,  \* the timeout probeChannel gives its context
          Horizon

ASSUME ProbeTimeoutAssumption == ProbeTimeout \in Nat \ {0}
ASSUME HorizonAssumption == Horizon \in Nat

VARIABLES entries,   \* cb.entries, Healthy where the map has no entry
          now,       \* time.Now()
          pc,        \* where each call is
          chan,      \* the channels a call is working on: none or one
          deadline   \* when the context of a call's probe expires

vars == <<entries, now, pc, chan, deadline>>
callVars == <<pc, chan, deadline>>

TypeOK ==
  /\ entries \in [Channels -> Entry]
  /\ now \in Nat
  /\ pc \in [Calls -> {"idle", "forwarding", "probing", "done"}]
  /\ chan \in [Calls -> SUBSET Channels]
  /\ deadline \in [Calls -> Nat]

Init ==
  /\ entries = [c \in Channels |-> Healthy]
  /\ now = 0
  /\ pc = [k \in Calls |-> "idle"]
  /\ chan = [k \in Calls |-> {}]
  /\ deadline = [k \in Calls |-> 0]

Probing(k, c) == pc[k] = "probing" /\ chan[k] = {c}
Forwarding(k, c) == pc[k] = "forwarding" /\ chan[k] = {c}

(* Call k moves on to state s of its work on the channels in cs.           *)
Moves(k, s, cs, d) ==
  /\ pc' = [pc EXCEPT ![k] = s]
  /\ chan' = [chan EXCEPT ![k] = cs]
  /\ deadline' = [deadline EXCEPT ![k] = d]

Finishes(k) == Moves(k, "done", {}, 0)

-----------------------------------------------------------------------------
(* The methods of the breaker, as steps on its map. *)

RecordFailure(c) == entries' = [entries EXCEPT ![c] = AfterFailure(@, now)]

RecordSuccess(c) == entries' = [entries EXCEPT ![c] = AfterSuccess(@)]

CancelProbe(c) == entries' = [entries EXCEPT ![c] = AfterCancel(@, now)]

(* MayProceed and what handleCompletion does with its answer.              *)
Ask(k, c) ==
  /\ pc[k] = "idle"
  /\ entries' = [entries EXCEPT ![c] = AfterAsking(@, now)]
  /\ CASE Verdict(entries[c], now) = "allow" -> Moves(k, "forwarding", {c}, 0)
       [] Verdict(entries[c], now) = "probe" -> Moves(k, "probing", {c}, now + ProbeTimeout)
       [] OTHER -> Finishes(k)
  /\ UNCHANGED now

(* PassthroughEndpoint, or failover switched off: no question is asked.    *)
Bypass(k, c) ==
  /\ pc[k] = "idle"
  /\ Moves(k, "forwarding", {c}, 0)
  /\ UNCHANGED <<entries, now>>

(* The channel of this iteration cannot be read or is not active.          *)
Skip(k) ==
  /\ pc[k] = "idle"
  /\ Finishes(k)
  /\ UNCHANGED <<entries, now>>

ForwardSucceeds(k, c) ==
  /\ Forwarding(k, c)
  /\ RecordSuccess(c)
  /\ Finishes(k)
  /\ UNCHANGED now

ForwardFails(k, c) ==
  /\ Forwarding(k, c)
  /\ RecordFailure(c)
  /\ Finishes(k)
  /\ UNCHANGED now

(* A cancelled client, a rejected request or an incomplete answer says     *)
(* nothing about the channel.                                              *)
ForwardSaysNothing(k, c) ==
  /\ Forwarding(k, c)
  /\ Finishes(k)
  /\ UNCHANGED <<entries, now>>

(* finishProbe: a probe that passed goes on to forward the request.        *)
ProbeSucceeds(k, c) ==
  /\ Probing(k, c)
  /\ RecordSuccess(c)
  /\ Moves(k, "forwarding", {c}, 0)
  /\ UNCHANGED now

ProbeFails(k, c) ==
  /\ Probing(k, c)
  /\ RecordFailure(c)
  /\ Finishes(k)
  /\ UNCHANGED now

ProbeCancelled(k, c) ==
  /\ Probing(k, c)
  /\ CancelProbe(c)
  /\ Finishes(k)
  /\ UNCHANGED now

(* Time passes, but a probe does not outlive the timeout of its context.   *)
Tick ==
  /\ now < Horizon
  /\ \A k \in Calls : pc[k] = "probing" => now < deadline[k]
  /\ now' = now + 1
  /\ UNCHANGED <<entries, callVars>>

ProbeEnds(k, c) == ProbeSucceeds(k, c) \/ ProbeFails(k, c) \/ ProbeCancelled(k, c)

Next ==
  \/ \E k \in Calls, c \in Channels :
       \/ Ask(k, c)
       \/ Bypass(k, c)
       \/ ForwardSucceeds(k, c)
       \/ ForwardFails(k, c)
       \/ ForwardSaysNothing(k, c)
       \/ ProbeEnds(k, c)
  \/ \E k \in Calls : Skip(k)
  \/ Tick

Spec == Init /\ [][Next]_vars

(* probeChannel runs under context.WithTimeout and finishProbe follows it  *)
(* on every path, so a probe that began ends.  Nothing is assumed of the   *)
(* clock, of clients or of forwarded requests.                             *)
FairSpec == Spec /\ \A k \in Calls : WF_vars(\E c \in Channels : ProbeEnds(k, c))

-----------------------------------------------------------------------------
(* At most one call probes a channel at any time: MayProceed's reservation *)
(* survives every interleaving of late failures, late successes and        *)
(* cancellations, as long as a probe is shorter than the first cooldown.   *)
OneProbe ==
  \A c \in Channels, j, k \in Calls : Probing(j, c) /\ Probing(k, c) => j = k

(* A reservation always has an owner that will end it: an entry left in    *)
(* breakerProbing with nobody probing would block the channel for good.    *)
ReservationHasOwner ==
  \A c \in Channels :
    entries[c].state = "probing" => \E k \in Calls : Probing(k, c)

(* A cooldown that is running is never cut short by another failure; only  *)
(* a success or the end of a probe changes that (RecordFailure's backoff). *)
CooldownNeverShrinks ==
  [][\A c \in Channels :
       entries[c].state = "cooldown" /\ entries'[c].state = "cooldown"
         => entries'[c].expiry >= entries[c].expiry]_vars

(* Every reservation made by MayProceed is released (finishProbe).         *)
ReservationReleased ==
  \A c \in Channels :
    entries[c].state = "probing" ~> entries[c].state # "probing"

(* The breaker implements the half-open gate.                              *)
Gate == INSTANCE HalfOpenGate
          WITH holders <- [c \in Channels |-> {k \in Calls : Probing(k, c)}]

GateSpec == Gate!Spec
=============================================================================
