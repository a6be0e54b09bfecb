------------------------------- MODULE Breaker -------------------------------
(***************************************************************************)
(* The pure part of handler/circuit_breaker.go: what one channel's entry   *)
(* looks like and what each method of CircuitBreaker does to it.  Every    *)
(* method runs under cb.mu, so each is one step of the modules that use    *)
(* these operators (CircuitBreaker and Relay).                             *)
(*                                                                         *)
(* Times and durations are in one unit, a tick.  Only the order of the     *)
(* instants and the ratio maxWait : baseWait matter; the code has          *)
(* baseWait = 5 min and maxWait = 40 min.                                  *)
(***************************************************************************)
EXTENDS Naturals

CONSTANTS BaseWait,  \* cooldown after the first failure
          MaxWait    \* longest cooldown

(* NewCircuitBreaker fixes maxWait = 8 * baseWait, so the doubling loop of *)
(* RecordFailure stops after at most three rounds.                         *)
ASSUME WaitAssumption ==
  /\ BaseWait \in Nat \ {0}
  /\ MaxWait \in BaseWait .. 8 * BaseWait

(* A channel without an entry in cb.entries is Healthy.  breakerNormal,    *)
(* the zero value, is never left in a stored entry: every method that      *)
(* stores one sets breakerCooldown or breakerProbing.                      *)
Healthy == [state |-> "normal", expiry |-> 0, retries |-> 0]

Entry == [state : {"normal", "cooldown", "probing"}, expiry : Nat, retries : Nat]

-----------------------------------------------------------------------------
(* RecordFailure *)

Doubled(w) == IF w < MaxWait THEN 2 * w ELSE w

(* Mutant: an overflowing wait starts again at the base.                   *)
Capped_Wraps(w) == IF w > MaxWait THEN BaseWait ELSE w

Capped(w) == IF w > MaxWait THEN MaxWait ELSE w

CooldownWait(retries) ==
  Capped(CASE retries = 1 -> BaseWait
           [] retries = 2 -> Doubled(BaseWait)
           [] retries = 3 -> Doubled(Doubled(BaseWait))
           [] OTHER       -> Doubled(Doubled(Doubled(BaseWait))))

(* Mutant: the entry is built without its counter.                         *)
AfterFailure_NoCounter(e, t) ==
  [state |-> "cooldown", expiry |-> t + CooldownWait(e.retries + 1)]

AfterFailure(e, t) ==
  [state   |-> "cooldown",
   expiry  |-> t + CooldownWait(e.retries + 1),
   retries |-> e.retries + 1]

(* RecordSuccess deletes the entry, whatever its state. *)
AfterSuccess(e) == Healthy

-----------------------------------------------------------------------------
(* MayProceed: "allow" is (true, false), "probe" is (false, true) and       *)
(* "deny" is (false, false).                                               *)

(* Mutant: a channel that is being probed hands out the probe again.       *)
Verdict_Reprobes(e, t) ==
  CASE e.state = "normal" -> "allow"
    [] e.state = "cooldown" /\ t < e.expiry -> "deny"
    [] OTHER -> "probe"

Verdict(e, t) ==
  CASE e.state = "normal" -> "allow"
    [] e.state = "cooldown" /\ t >= e.expiry -> "probe"
    [] OTHER -> "deny"

(* Mutant: the answer is given but the reservation is not written down.    *)
AfterAsking_Unreserved(e, t) == e

AfterAsking(e, t) ==
  IF Verdict(e, t) = "probe" THEN [e EXCEPT !.state = "probing"] ELSE e

(* Mutant: CancelProbe forgets to release the reservation.                 *)
AfterCancel_Kept(e, t) == e

(* CancelProbe: the reservation is released, the cooldown is over at once  *)
(* and the number of consecutive failures is kept.                         *)
AfterCancel(e, t) ==
  IF e.state = "probing" THEN [e EXCEPT !.state = "cooldown", !.expiry = t] ELSE e

(* Mutant: the rest of the cooldown, whether or not it is over.            *)
RetryAfter_Raw(e, t) == e.expiry - t

(* RetryAfter; a second is one tick.                                       *)
RetryAfter(e, t) ==
  CASE e.state = "normal" -> 0
    [] e.state # "normal" /\ e.expiry > t -> e.expiry - t
    [] OTHER -> 1
=============================================================================
