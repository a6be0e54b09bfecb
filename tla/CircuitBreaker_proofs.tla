------------------------- MODULE CircuitBreaker_proofs -------------------------
(***************************************************************************)
(* Proofs about CircuitBreaker, for any channels, any calls, any clock and *)
(* any waits that satisfy the assumptions of Breaker and CircuitBreaker.   *)
(*                                                                         *)
(* OneProbe is not inductive: a late failure may turn a reservation back   *)
(* into a cooldown while its probe still runs.  What keeps the second      *)
(* probe away is time, so the invariant compares deadlines and expiries.   *)
(***************************************************************************)
EXTENDS CircuitBreaker, TLAPS

(* The probes of this configuration are shorter than the first cooldown.   *)
ShortProbes == ProbeTimeout < BaseWait

(* Clocks: a probe is within its deadline, which is within one timeout.    *)
DeadlineInv ==
  \A k \in Calls : pc[k] = "probing" => /\ now <= deadline[k]
                                        /\ deadline[k] <= now + ProbeTimeout

(* A cooldown that overlaps a running probe outlasts it.                   *)
OutlastInv ==
  \A c \in Channels, k \in Calls :
    Probing(k, c) /\ entries[c].state = "cooldown" => deadline[k] < entries[c].expiry

(* Where an entry's expiry and counter come from.                          *)
EntryInv ==
  \A c \in Channels :
    /\ entries[c].state # "normal" => entries[c].retries >= 1
    /\ entries[c].state = "cooldown"
         => entries[c].expiry <= now + CooldownWait(entries[c].retries)

IInv == /\ TypeOK
        /\ DeadlineInv
        /\ ReservationHasOwner
        /\ EntryInv
        /\ ShortProbes => OutlastInv /\ OneProbe

-----------------------------------------------------------------------------
(* The backoff of RecordFailure: it never leaves baseWait .. maxWait and   *)
(* never falls as failures accumulate.                                     *)
LEMMA WaitBounds ==
  ASSUME NEW r \in Nat, r >= 1
  PROVE  /\ CooldownWait(r) \in Nat
         /\ BaseWait <= CooldownWait(r)
         /\ CooldownWait(r) <= MaxWait
         /\ CooldownWait(r) <= CooldownWait(r + 1)
<1>1. CASE r = 1
  BY <1>1, WaitAssumption DEF CooldownWait, Capped, Doubled
<1>2. CASE r = 2
  BY <1>2, WaitAssumption DEF CooldownWait, Capped, Doubled
<1>3. CASE r = 3
  BY <1>3, WaitAssumption DEF CooldownWait, Capped, Doubled
<1>4. CASE r > 3
  BY <1>4, WaitAssumption DEF CooldownWait, Capped, Doubled
<1>5. QED
  BY <1>1, <1>2, <1>3, <1>4

(* Every method of the breaker turns an entry into an entry.               *)
LEMMA EntryTyped ==
  ASSUME NEW e \in Entry, NEW t \in Nat
  PROVE  /\ AfterFailure(e, t) \in Entry
         /\ AfterSuccess(e) \in Entry
         /\ AfterCancel(e, t) \in Entry
         /\ AfterAsking(e, t) \in Entry
<1>1. e.retries \in Nat /\ e.expiry \in Nat /\ e.state \in {"normal", "cooldown", "probing"}
  BY DEF Entry
<1>2. CooldownWait(e.retries + 1) \in Nat
  BY <1>1, WaitBounds
<1>3. AfterFailure(e, t) \in Entry
  BY <1>1, <1>2 DEF AfterFailure, Entry
<1>4. AfterSuccess(e) \in Entry
  BY DEF AfterSuccess, Healthy, Entry
<1>5. AfterCancel(e, t) \in Entry
  BY DEF AfterCancel, Entry
<1>6. AfterAsking(e, t) \in Entry
  BY DEF AfterAsking, Entry
<1>7. QED
  BY <1>3, <1>4, <1>5, <1>6

(* The state a call is left in by Moves.                                   *)
LEMMA MovesTyped ==
  ASSUME TypeOK, NEW k \in Calls, NEW s \in {"idle", "forwarding", "probing", "done"},
         NEW cs \in SUBSET Channels, NEW d \in Nat, Moves(k, s, cs, d)
  PROVE  /\ pc' \in [Calls -> {"idle", "forwarding", "probing", "done"}]
         /\ chan' \in [Calls -> SUBSET Channels]
         /\ deadline' \in [Calls -> Nat]
         /\ pc'[k] = s /\ chan'[k] = cs /\ deadline'[k] = d
         /\ \A j \in Calls \ {k} : pc'[j] = pc[j] /\ chan'[j] = chan[j] /\ deadline'[j] = deadline[j]
  BY DEF TypeOK, Moves

(* Type correctness of CircuitBreaker.                                     *)
THEOREM TypeCorrect == Spec => []TypeOK
<1>1. Init => TypeOK
  BY DEF Init, TypeOK, Healthy, Entry
<1>2. TypeOK /\ [Next]_vars => TypeOK'
  <2> SUFFICES ASSUME TypeOK, [Next]_vars PROVE TypeOK'
    OBVIOUS
  <2>1. ASSUME NEW k \in Calls, NEW c \in Channels, Ask(k, c) PROVE TypeOK'
    <3>1. entries' \in [Channels -> Entry] /\ now' \in Nat
      BY <2>1, EntryTyped DEF Ask, TypeOK
    <3>2. now + ProbeTimeout \in Nat
      BY ProbeTimeoutAssumption DEF TypeOK
    <3>3. \E s \in {"idle", "forwarding", "probing", "done"}, cs \in SUBSET Channels, d \in Nat :
             Moves(k, s, cs, d)
      <4>1. CASE Verdict(entries[c], now) = "allow"
        BY <2>1, <4>1 DEF Ask
      <4>2. CASE Verdict(entries[c], now) = "probe"
        BY <2>1, <3>2, <4>2 DEF Ask
      <4>3. CASE Verdict(entries[c], now) \notin {"allow", "probe"}
        BY <2>1, <4>3 DEF Ask, Finishes
      <4>4. QED
        BY <4>1, <4>2, <4>3
    <3>4. QED
      BY <3>1, <3>3, MovesTyped DEF TypeOK
  <2>2. ASSUME NEW k \in Calls, NEW c \in Channels, Bypass(k, c) PROVE TypeOK'
    BY <2>2, MovesTyped DEF Bypass, TypeOK
  <2>3. ASSUME NEW k \in Calls, NEW c \in Channels, ForwardSucceeds(k, c) PROVE TypeOK'
    BY <2>3, MovesTyped, EntryTyped DEF ForwardSucceeds, RecordSuccess, Finishes, TypeOK
  <2>4. ASSUME NEW k \in Calls, NEW c \in Channels, ForwardFails(k, c) PROVE TypeOK'
    BY <2>4, MovesTyped, EntryTyped DEF ForwardFails, RecordFailure, Finishes, TypeOK
  <2>5. ASSUME NEW k \in Calls, NEW c \in Channels, ForwardSaysNothing(k, c) PROVE TypeOK'
    BY <2>5, MovesTyped DEF ForwardSaysNothing, Finishes, TypeOK
  <2>6. ASSUME NEW k \in Calls, NEW c \in Channels, ProbeSucceeds(k, c) PROVE TypeOK'
    BY <2>6, MovesTyped, EntryTyped DEF ProbeSucceeds, RecordSuccess, TypeOK
  <2>7. ASSUME NEW k \in Calls, NEW c \in Channels, ProbeFails(k, c) PROVE TypeOK'
    BY <2>7, MovesTyped, EntryTyped DEF ProbeFails, RecordFailure, Finishes, TypeOK
  <2>8. ASSUME NEW k \in Calls, NEW c \in Channels, ProbeCancelled(k, c) PROVE TypeOK'
    BY <2>8, MovesTyped, EntryTyped DEF ProbeCancelled, CancelProbe, Finishes, TypeOK
  <2>9. ASSUME NEW k \in Calls, Skip(k) PROVE TypeOK'
    BY <2>9, MovesTyped DEF Skip, Finishes, TypeOK
  <2>10. CASE Tick
    BY <2>10 DEF Tick, callVars, TypeOK
  <2>11. CASE UNCHANGED vars
    BY <2>11 DEF vars, TypeOK
  <2>12. QED
    BY <2>1, <2>2, <2>3, <2>4, <2>5, <2>6, <2>7, <2>8, <2>9, <2>10, <2>11
    DEF Next, ProbeEnds
<1>3. QED
  BY <1>1, <1>2, PTL DEF Spec

-----------------------------------------------------------------------------
(* A step that grants no probe and changes each entry by at most one       *)
(* method of the breaker preserves the invariant.                          *)
LEMMA NoGrant ==
  ASSUME IInv, TypeOK', now' = now,
         \A j \in Calls : pc'[j] = "probing" =>
            pc[j] = "probing" /\ chan'[j] = chan[j] /\ deadline'[j] = deadline[j],
         \A d \in Channels :
            \/ entries'[d] = entries[d] /\ \A j \in Calls : Probing(j, d) => Probing(j, d)'
            \/ entries'[d] = Healthy
            \/ entries'[d] = AfterFailure(entries[d], now)
            \/ /\ entries'[d] = AfterCancel(entries[d], now)
               /\ ShortProbes => \A j \in Calls : ~Probing(j, d)'
  PROVE  IInv'
<1>1. \A j \in Calls, d \in Channels : Probing(j, d)' => Probing(j, d) /\ deadline'[j] = deadline[j]
  BY DEF Probing
<1>2. DeadlineInv'
  BY DEF IInv, DeadlineInv, TypeOK
<1>3. ShortProbes => OneProbe'
  BY <1>1 DEF IInv, OneProbe
<1>4. ASSUME NEW d \in Channels, entries'[d] = entries[d],
             \A j \in Calls : Probing(j, d) => Probing(j, d)'
      PROVE  /\ \A k \in Calls : ShortProbes /\ Probing(k, d)' /\ entries'[d].state = "cooldown"
                                   => deadline'[k] < entries'[d].expiry
             /\ entries'[d].state = "probing" => \E k \in Calls : Probing(k, d)'
             /\ entries'[d].state # "normal" => entries'[d].retries >= 1
             /\ entries'[d].state = "cooldown"
                  => entries'[d].expiry <= now' + CooldownWait(entries'[d].retries)
  BY <1>1, <1>4 DEF IInv, OutlastInv, ReservationHasOwner, EntryInv
<1>5. ASSUME NEW d \in Channels, entries'[d] = Healthy
      PROVE  entries'[d].state = "normal"
  BY <1>5 DEF Healthy
<1>6. ASSUME NEW d \in Channels, entries'[d] = AfterFailure(entries[d], now)
      PROVE  /\ \A k \in Calls : ShortProbes /\ Probing(k, d)' => deadline'[k] < entries'[d].expiry
             /\ entries'[d].state = "cooldown"
             /\ entries'[d].retries >= 1
             /\ entries'[d].expiry <= now' + CooldownWait(entries'[d].retries)
  <2>1. entries[d].retries \in Nat /\ now \in Nat
    BY DEF IInv, TypeOK, Entry
  <2>2. CooldownWait(entries[d].retries + 1) \in Nat /\ BaseWait <= CooldownWait(entries[d].retries + 1)
    BY <2>1, WaitBounds
  <2>3. \A k \in Calls : Probing(k, d)' => /\ deadline'[k] \in Nat
                                           /\ deadline'[k] <= now + ProbeTimeout
    BY <1>1 DEF IInv, DeadlineInv, Probing, TypeOK
  <2>4. /\ entries'[d].state = "cooldown"
        /\ entries'[d].retries = entries[d].retries + 1
        /\ entries'[d].expiry = now + CooldownWait(entries[d].retries + 1)
    BY <1>6 DEF AfterFailure
  <2>5. BaseWait \in Nat /\ ProbeTimeout \in Nat
    BY WaitAssumption, ProbeTimeoutAssumption
  <2>6. QED
    BY <2>1, <2>2, <2>3, <2>4, <2>5 DEF ShortProbes
<1>7. ASSUME NEW d \in Channels, entries'[d] = AfterCancel(entries[d], now),
             ShortProbes => \A j \in Calls : ~Probing(j, d)'
      PROVE  /\ entries'[d].state # "probing"
             /\ entries'[d].state # "normal" => entries'[d].retries >= 1
             /\ entries'[d].state = "cooldown"
                  => entries'[d].expiry <= now' + CooldownWait(entries'[d].retries)
  <2>1. entries[d] \in Entry /\ entries[d].retries \in Nat /\ now \in Nat
    BY DEF IInv, TypeOK, Entry
  <2>2. CASE entries[d].state = "probing"
    <3>1. entries[d].retries >= 1
      BY <2>2 DEF IInv, EntryInv
    <3>2. CooldownWait(entries[d].retries) \in Nat
      BY <2>1, <3>1, WaitBounds
    <3>3. /\ entries'[d].state = "cooldown"
          /\ entries'[d].retries = entries[d].retries
          /\ entries'[d].expiry = now
      BY <1>7, <2>1, <2>2 DEF AfterCancel, Entry
    <3>4. QED
      BY <2>1, <3>1, <3>2, <3>3
  <2>3. CASE entries[d].state # "probing"
    BY <1>7, <2>3 DEF AfterCancel, IInv, EntryInv
  <2>4. QED
    BY <2>2, <2>3
<1>8. ShortProbes => OutlastInv'
  BY <1>4, <1>5, <1>6, <1>7 DEF OutlastInv
<1>9. ReservationHasOwner'
  BY <1>4, <1>5, <1>6, <1>7 DEF ReservationHasOwner
<1>10. EntryInv'
  BY <1>4, <1>5, <1>6, <1>7 DEF EntryInv
<1>11. QED
  BY <1>2, <1>3, <1>8, <1>9, <1>10 DEF IInv

(* What MayProceed does when it grants the probe: the cooldown is over, so *)
(* with short probes no earlier probe can still be running.                *)
LEMMA GrantStep ==
  ASSUME IInv, TypeOK', NEW k \in Calls, NEW c \in Channels, Ask(k, c),
         Verdict(entries[c], now) = "probe"
  PROVE  IInv'
<1>1. /\ pc[k] = "idle"
      /\ now' = now
      /\ Moves(k, "probing", {c}, now + ProbeTimeout)
      /\ entries' = [entries EXCEPT ![c] = AfterAsking(@, now)]
  BY DEF Ask
<1>2. now \in Nat /\ ProbeTimeout \in Nat /\ now + ProbeTimeout \in Nat
  BY ProbeTimeoutAssumption DEF IInv, TypeOK
<1>3. /\ pc'[k] = "probing" /\ chan'[k] = {c} /\ deadline'[k] = now + ProbeTimeout
      /\ \A j \in Calls \ {k} : pc'[j] = pc[j] /\ chan'[j] = chan[j] /\ deadline'[j] = deadline[j]
  BY <1>1, <1>2, MovesTyped DEF IInv
<1>4. entries[c] \in Entry /\ entries[c].state = "cooldown" /\ entries[c].expiry <= now
  BY <1>2 DEF Verdict, IInv, TypeOK, Entry
<1>5. /\ entries'[c].state = "probing"
      /\ entries'[c].retries = entries[c].retries
      /\ \A d \in Channels \ {c} : entries'[d] = entries[d]
  <2>1. entries'[c] = [entries[c] EXCEPT !.state = "probing"]
    BY <1>1 DEF AfterAsking, IInv, TypeOK
  <2>2. QED
    BY <1>1, <1>4, <2>1 DEF Entry, IInv, TypeOK
<1>6. ShortProbes => \A j \in Calls : ~Probing(j, c)
  BY <1>2, <1>4 DEF IInv, OutlastInv, DeadlineInv, TypeOK, Entry, Probing
<1>7. \A j \in Calls, d \in Channels :
         Probing(j, d)' => \/ j = k /\ d = c
                           \/ j # k /\ Probing(j, d) /\ deadline'[j] = deadline[j]
  BY <1>3 DEF Probing
<1>8. \A j \in Calls, d \in Channels : Probing(j, d) => Probing(j, d)'
  BY <1>1, <1>3 DEF Probing
<1>9. DeadlineInv'
  BY <1>1, <1>2, <1>3 DEF IInv, DeadlineInv, TypeOK
<1>10. ReservationHasOwner'
  <2>1. Probing(k, c)'
    BY <1>3 DEF Probing
  <2>2. QED
    BY <1>5, <1>8, <2>1 DEF IInv, ReservationHasOwner
<1>11. EntryInv'
  BY <1>1, <1>4, <1>5 DEF IInv, EntryInv
<1>12. ASSUME ShortProbes PROVE OutlastInv' /\ OneProbe'
  <2>1. OneProbe'
    BY <1>6, <1>7, <1>12 DEF IInv, OneProbe
  <2>2. OutlastInv'
    BY <1>5, <1>7, <1>12 DEF IInv, OutlastInv
  <2>3. QED
    BY <2>1, <2>2
<1>13. QED
  BY <1>9, <1>10, <1>11, <1>12 DEF IInv

(* Time only moves a probe towards its deadline.                           *)
LEMMA TickStep ==
  ASSUME IInv, TypeOK', Tick
  PROVE  IInv'
<1>1. now \in Nat /\ now' = now + 1 /\ UNCHANGED callVars /\ entries' = entries
  BY DEF Tick, IInv, TypeOK
<1>2. \A j \in Calls, d \in Channels : Probing(j, d)' <=> Probing(j, d)
  BY <1>1 DEF Probing, callVars
<1>3. DeadlineInv'
  BY <1>1, ProbeTimeoutAssumption DEF IInv, DeadlineInv, Tick, TypeOK, callVars
<1>4. ReservationHasOwner'
  BY <1>1, <1>2 DEF IInv, ReservationHasOwner
<1>5. EntryInv'
  <2> SUFFICES ASSUME NEW d \in Channels, entries[d].state # "normal"
               PROVE  /\ entries[d].retries >= 1
                      /\ entries[d].state = "cooldown"
                           => entries[d].expiry <= now + 1 + CooldownWait(entries[d].retries)
    BY <1>1 DEF EntryInv
  <2>1. entries[d].retries \in Nat /\ entries[d].retries >= 1 /\ entries[d].expiry \in Nat
    BY DEF IInv, EntryInv, TypeOK, Entry
  <2>2. CooldownWait(entries[d].retries) \in Nat
    BY <2>1, WaitBounds
  <2>3. QED
    BY <1>1, <2>1, <2>2 DEF IInv, EntryInv
<1>6. ShortProbes => OutlastInv' /\ OneProbe'
  BY <1>1, <1>2 DEF IInv, OutlastInv, OneProbe, callVars
<1>7. QED
  BY <1>3, <1>4, <1>5, <1>6 DEF IInv

(* Every step preserves the invariant.                                     *)
LEMMA Inductive ==
  ASSUME IInv, TypeOK', [Next]_vars
  PROVE  IInv'
<1>0. TypeOK
  BY DEF IInv
<1>1. ASSUME NEW k \in Calls, NEW c \in Channels, Ask(k, c) PROVE IInv'
  <2>1. CASE Verdict(entries[c], now) = "probe"
    BY <1>1, <2>1, GrantStep
  <2>2. CASE Verdict(entries[c], now) # "probe"
    <3>1. entries' = entries /\ now' = now /\ pc[k] = "idle"
      BY <1>0, <1>1, <2>2 DEF Ask, AfterAsking, TypeOK
    <3>2. /\ pc'[k] # "probing"
          /\ \A j \in Calls \ {k} : pc'[j] = pc[j] /\ chan'[j] = chan[j] /\ deadline'[j] = deadline[j]
      <4>1. CASE Verdict(entries[c], now) = "allow"
        BY <1>0, <1>1, <4>1, MovesTyped DEF Ask
      <4>2. CASE Verdict(entries[c], now) # "allow"
        BY <1>0, <1>1, <2>2, <4>2, MovesTyped DEF Ask, Finishes
      <4>3. QED
        BY <4>1, <4>2
    <3>3. \A j \in Calls, d \in Channels : Probing(j, d) => Probing(j, d)'
      BY <3>1, <3>2 DEF Probing
    <3>4. QED
      BY <3>1, <3>2, <3>3, NoGrant
  <2>3. QED
    BY <2>1, <2>2
<1>2. ASSUME NEW k \in Calls, NEW s \in {"forwarding", "done"}, NEW cs \in SUBSET Channels,
             Moves(k, s, cs, 0), pc[k] # "probing", UNCHANGED <<entries, now>>
      PROVE  IInv'
  <2>0. s \in {"idle", "forwarding", "probing", "done"} /\ 0 \in Nat /\ s # "probing"
    OBVIOUS
  <2>1. /\ pc'[k] # "probing"
        /\ \A j \in Calls \ {k} : pc'[j] = pc[j] /\ chan'[j] = chan[j] /\ deadline'[j] = deadline[j]
    BY <1>0, <1>2, <2>0, MovesTyped
  <2>2. \A j \in Calls, d \in Channels : Probing(j, d) => Probing(j, d)'
    BY <1>2, <2>1 DEF Probing
  <2>3. QED
    BY <1>2, <2>1, <2>2, NoGrant
<1>3. ASSUME NEW k \in Calls, NEW c \in Channels, Bypass(k, c) PROVE IInv'
  BY <1>2, <1>3 DEF Bypass
<1>4. ASSUME NEW k \in Calls, NEW c \in Channels, ForwardSaysNothing(k, c) PROVE IInv'
  BY <1>2, <1>4 DEF ForwardSaysNothing, Forwarding, Finishes
<1>5. ASSUME NEW k \in Calls, Skip(k) PROVE IInv'
  BY <1>2, <1>5 DEF Skip, Finishes
<1>6. ASSUME NEW k \in Calls, NEW c \in Channels, NEW s \in {"forwarding", "done"},
             NEW cs \in SUBSET Channels, Moves(k, s, cs, 0), now' = now,
             chan[k] = {c},
             \/ RecordSuccess(c)
             \/ RecordFailure(c)
             \/ CancelProbe(c) /\ pc[k] = "probing"
      PROVE  IInv'
  <2>0. s \in {"idle", "forwarding", "probing", "done"} /\ 0 \in Nat /\ s # "probing"
    OBVIOUS
  <2>1. /\ pc'[k] # "probing"
        /\ \A j \in Calls \ {k} : pc'[j] = pc[j] /\ chan'[j] = chan[j] /\ deadline'[j] = deadline[j]
    BY <1>0, <1>6, <2>0, MovesTyped
  <2>2. \A j \in Calls, d \in Channels \ {c} : Probing(j, d) => Probing(j, d)'
    BY <1>6, <2>1 DEF Probing
  <2>3. \A d \in Channels \ {c} : entries'[d] = entries[d]
    BY <1>0, <1>6 DEF RecordSuccess, RecordFailure, CancelProbe, TypeOK
  <2>4. \/ entries'[c] = Healthy
        \/ entries'[c] = AfterFailure(entries[c], now)
        \/ entries'[c] = AfterCancel(entries[c], now) /\ Probing(k, c)
    BY <1>0, <1>6 DEF RecordSuccess, RecordFailure, CancelProbe, TypeOK, AfterSuccess, Probing
  <2>5. ShortProbes /\ Probing(k, c) => \A j \in Calls : ~Probing(j, c)'
    BY <2>1 DEF IInv, OneProbe, Probing
  <2>6. QED
    BY <1>6, <2>1, <2>2, <2>3, <2>4, <2>5, NoGrant
<1>7. ASSUME NEW k \in Calls, NEW c \in Channels, ForwardSucceeds(k, c) PROVE IInv'
  BY <1>6, <1>7 DEF ForwardSucceeds, Forwarding, Finishes
<1>8. ASSUME NEW k \in Calls, NEW c \in Channels, ForwardFails(k, c) PROVE IInv'
  BY <1>6, <1>8 DEF ForwardFails, Forwarding, Finishes
<1>9. ASSUME NEW k \in Calls, NEW c \in Channels, ProbeEnds(k, c) PROVE IInv'
  BY <1>6, <1>9 DEF ProbeEnds, ProbeSucceeds, ProbeFails, ProbeCancelled, Probing, Finishes
<1>10. CASE Tick
  BY <1>10, TickStep
<1>11. CASE UNCHANGED vars
  <2>1. \A j \in Calls, d \in Channels : Probing(j, d) => Probing(j, d)'
    BY <1>11 DEF vars, Probing
  <2>2. QED
    BY <1>11, <2>1, NoGrant DEF vars
<1>12. QED
  BY <1>1, <1>3, <1>4, <1>5, <1>7, <1>8, <1>9, <1>10, <1>11 DEF Next

THEOREM Invariant == Spec => []IInv
<1>1. Init => IInv
  <2> SUFFICES ASSUME Init PROVE IInv
    OBVIOUS
  <2>1. TypeOK
    BY DEF Init, TypeOK, Healthy, Entry
  <2>2. \A k \in Calls, c \in Channels : pc[k] = "idle" /\ ~Probing(k, c)
    BY DEF Init, Probing
  <2>3. \A c \in Channels : entries[c].state = "normal"
    BY DEF Init, Healthy
  <2>4. QED
    BY <2>1, <2>2, <2>3
    DEF IInv, DeadlineInv, ReservationHasOwner, EntryInv, OutlastInv, OneProbe, Init
<1>2. IInv /\ TypeOK' /\ [Next]_vars => IInv'
  BY Inductive
<1>3. QED
  BY <1>1, <1>2, TypeCorrect, PTL DEF Spec

(* At most one call probes a channel, whatever the interleaving of late    *)
(* reports, cancellations and expiries, if probes are shorter than the     *)
(* first cooldown (circuit_breaker.go:36).                                 *)
THEOREM HalfOpenSafety == ASSUME ShortProbes PROVE Spec => []OneProbe
<1>1. IInv => OneProbe
  BY DEF IInv
<1>2. QED
  BY <1>1, Invariant, PTL

(* No reservation of MayProceed is ever orphaned, however long probes are. *)
THEOREM NoOrphanedReservation == Spec => []ReservationHasOwner
<1>1. IInv => ReservationHasOwner
  BY DEF IInv
<1>2. QED
  BY <1>1, Invariant, PTL

-----------------------------------------------------------------------------
(* Every step changes an entry by at most one method of the breaker.       *)
LEMMA OneMethod ==
  ASSUME TypeOK, [Next]_vars, NEW d \in Channels
  PROVE  \/ entries'[d] = entries[d]
         \/ entries'[d] = AfterAsking(entries[d], now)
         \/ entries'[d] = AfterSuccess(entries[d])
         \/ entries'[d] = AfterFailure(entries[d], now)
         \/ entries'[d] = AfterCancel(entries[d], now)
<1>1. CASE \E k \in Calls, c \in Channels : Ask(k, c)
  BY <1>1 DEF Ask, TypeOK
<1>2. CASE \E k \in Calls, c \in Channels : ForwardSucceeds(k, c) \/ ProbeSucceeds(k, c)
  BY <1>2 DEF ForwardSucceeds, ProbeSucceeds, RecordSuccess, TypeOK
<1>3. CASE \E k \in Calls, c \in Channels : ForwardFails(k, c) \/ ProbeFails(k, c)
  BY <1>3 DEF ForwardFails, ProbeFails, RecordFailure, TypeOK
<1>4. CASE \E k \in Calls, c \in Channels : ProbeCancelled(k, c)
  BY <1>4 DEF ProbeCancelled, CancelProbe, TypeOK
<1>5. CASE \/ \E k \in Calls, c \in Channels : Bypass(k, c) \/ ForwardSaysNothing(k, c)
           \/ \E k \in Calls : Skip(k)
           \/ Tick
           \/ UNCHANGED vars
  BY <1>5 DEF Bypass, ForwardSaysNothing, Skip, Tick, vars
<1>6. QED
  BY <1>1, <1>2, <1>3, <1>4, <1>5 DEF Next, ProbeEnds

(* A late failure never shortens the cooldown that is running: the backoff *)
(* grows with every failure and the clock does not go back.                *)
THEOREM CooldownMonotone == Spec => CooldownNeverShrinks
<1>1. ASSUME IInv, [Next]_vars, NEW d \in Channels,
             entries[d].state = "cooldown", entries'[d].state = "cooldown"
      PROVE  entries'[d].expiry >= entries[d].expiry
  <2>0. TypeOK
    BY <1>1 DEF IInv
  <2>1. entries[d] \in Entry /\ now \in Nat
    BY <1>1, <2>0 DEF TypeOK
  <2>2. entries[d].expiry \in Nat /\ entries[d].retries \in Nat /\ entries[d].retries >= 1
    BY <1>1, <2>1 DEF IInv, EntryInv, Entry
  <2>3. CASE entries'[d] = entries[d]
    BY <2>2, <2>3
  <2>4. CASE entries'[d] = AfterAsking(entries[d], now)
    BY <1>1, <2>1, <2>2, <2>4 DEF AfterAsking, Entry
  <2>5. CASE entries'[d] = AfterSuccess(entries[d])
    BY <1>1, <2>5 DEF AfterSuccess, Healthy
  <2>6. CASE entries'[d] = AfterFailure(entries[d], now)
    <3>1. entries[d].expiry <= now + CooldownWait(entries[d].retries)
      BY <1>1 DEF IInv, EntryInv
    <3>2. /\ CooldownWait(entries[d].retries) \in Nat
          /\ CooldownWait(entries[d].retries) <= CooldownWait(entries[d].retries + 1)
          /\ CooldownWait(entries[d].retries + 1) \in Nat
      BY <2>2, WaitBounds
    <3>3. entries'[d].expiry = now + CooldownWait(entries[d].retries + 1)
      BY <2>6 DEF AfterFailure
    <3>4. QED
      BY <2>1, <2>2, <3>1, <3>2, <3>3
  <2>7. CASE entries'[d] = AfterCancel(entries[d], now)
    BY <1>1, <2>2, <2>7 DEF AfterCancel
  <2>8. QED
    BY <1>1, <2>0, <2>3, <2>4, <2>5, <2>6, <2>7, OneMethod
<1>2. IInv /\ [Next]_vars =>
        [\A c \in Channels :
           entries[c].state = "cooldown" /\ entries'[c].state = "cooldown"
             => entries'[c].expiry >= entries[c].expiry]_vars
  BY <1>1
<1>3. QED
  BY <1>2, Invariant, PTL DEF Spec, CooldownNeverShrinks

-----------------------------------------------------------------------------
(* Which calls hold the gate of a channel. *)
Held == [c \in Channels |-> {k \in Calls : Probing(k, c)}]

LEMMA HeldAt ==
  ASSUME NEW c \in Channels, NEW k \in Calls
  PROVE  /\ k \in Held[c] <=> Probing(k, c)
         /\ k \in (Held')[c] <=> Probing(k, c)'
  BY DEF Held

(* Only the call that moves can come to hold a gate, or stop holding one.  *)
LEMMA HeldMoves ==
  ASSUME TypeOK, NEW k \in Calls, NEW s \in {"idle", "forwarding", "probing", "done"},
         NEW cs \in SUBSET Channels, NEW d \in Nat, Moves(k, s, cs, d),
         NEW c \in Channels
  PROVE  (Held')[c] = IF s = "probing" /\ cs = {c} THEN Held[c] \cup {k} ELSE Held[c] \ {k}
<1>1. /\ pc'[k] = s /\ chan'[k] = cs
      /\ \A j \in Calls \ {k} : pc'[j] = pc[j] /\ chan'[j] = chan[j]
  BY MovesTyped
<1>2. \A j \in Calls : Probing(j, c)' <=> IF j = k THEN s = "probing" /\ cs = {c} ELSE Probing(j, c)
  BY <1>1 DEF Probing
<1>3. QED
  BY <1>2 DEF Held

(* A call that moves to anything but a probe holds no gate any more.       *)
LEMMA HeldLeaves ==
  ASSUME TypeOK, NEW k \in Calls, NEW s \in {"forwarding", "done"},
         NEW cs \in SUBSET Channels, Moves(k, s, cs, 0)
  PROVE  \A c \in Channels : (Held')[c] = Held[c] \ {k}
<1>1. s \in {"idle", "forwarding", "probing", "done"} /\ 0 \in Nat /\ s # "probing"
  OBVIOUS
<1>2. /\ pc'[k] = s /\ chan'[k] = cs
      /\ \A j \in Calls \ {k} : pc'[j] = pc[j] /\ chan'[j] = chan[j]
  BY <1>1, MovesTyped
<1>3. ASSUME NEW c \in Channels, NEW j \in Calls
      PROVE  Probing(j, c)' <=> j # k /\ Probing(j, c)
  BY <1>1, <1>2 DEF Probing
<1>4. QED
  BY <1>3 DEF Held

(* The breaker implements the half-open gate: every step grants a free     *)
(* gate, returns a held one, or leaves the gates alone.                    *)
THEOREM ImplementsGate == ASSUME ShortProbes PROVE Spec => GateSpec
<1>1. Init => Gate!Init
  BY DEF Init, Gate!Init, Probing
<1>2. ASSUME IInv, [Next]_vars PROVE [Gate!Next]_Held
  <2>0. TypeOK
    BY <1>2 DEF IInv
  <2>1. ASSUME NEW k \in Calls, NEW c \in Channels, Ask(k, c), Verdict(entries[c], now) = "probe"
        PROVE  Gate!Grant(c, k)
    <3>1. Moves(k, "probing", {c}, now + ProbeTimeout) /\ pc[k] = "idle" /\ now + ProbeTimeout \in Nat
      BY <2>0, <2>1, ProbeTimeoutAssumption DEF Ask, TypeOK
    <3>2. entries[c].state = "cooldown" /\ entries[c].expiry <= now /\ entries[c].expiry \in Nat /\ now \in Nat
      BY <2>0, <2>1 DEF Verdict, TypeOK, Entry
    <3>3. \A j \in Calls : ~Probing(j, c)
      <4>1. OutlastInv /\ DeadlineInv
        BY <1>2, ShortProbes DEF IInv
      <4>2. QED
        BY <2>0, <3>2, <4>1 DEF OutlastInv, DeadlineInv, TypeOK, Probing
    <3>4. Held[c] = {}
      BY <3>3 DEF Held
    <3>5. \A d \in Channels : (Held')[d] = IF d = c THEN {k} ELSE Held[d]
      <4>1. \A d \in Channels : k \notin Held[d]
        BY <3>1 DEF Held, Probing
      <4>2. ASSUME NEW d \in Channels
            PROVE  (Held')[d] = IF d = c THEN Held[d] \cup {k} ELSE Held[d] \ {k}
        <5>1. {c} \in SUBSET Channels /\ ({c} = {d} <=> d = c)
          OBVIOUS
        <5>2. (Held')[d] = IF "probing" = "probing" /\ {c} = {d} THEN Held[d] \cup {k} ELSE Held[d] \ {k}
          BY <2>0, <3>1, <5>1, HeldMoves
        <5>3. QED
          BY <5>1, <5>2
      <4>3. QED
        BY <3>4, <4>1, <4>2
    <3>6. Held' = [Held EXCEPT ![c] = {k}]
      BY <3>5 DEF Held
    <3>7. QED
      BY <3>4, <3>6 DEF Gate!Grant, Held
  <2>2. ASSUME NEW k \in Calls, NEW c \in Channels, Probing(k, c),
               NEW s \in {"forwarding", "done"}, NEW cs \in SUBSET Channels, Moves(k, s, cs, 0)
        PROVE  Gate!Return(c, k)
    <3>2. \A d \in Channels : (Held')[d] = Held[d] \ {k}
      BY <2>0, <2>2, HeldLeaves
    <3>3. \A d \in Channels \ {c} : k \notin Held[d]
      BY <2>2 DEF Held, Probing
    <3>4. Held' = [Held EXCEPT ![c] = @ \ {k}]
      <4>1. \A d \in Channels : (Held')[d] = IF d = c THEN Held[c] \ {k} ELSE Held[d]
        BY <3>2, <3>3
      <4>2. QED
        BY <4>1 DEF Held
    <3>5. k \in Held[c]
      BY <2>2 DEF Held
    <3>6. QED
      BY <3>4, <3>5 DEF Gate!Return, Held
  <2>3. ASSUME NEW k \in Calls, pc[k] # "probing",
               NEW s \in {"forwarding", "done"}, NEW cs \in SUBSET Channels, Moves(k, s, cs, 0)
        PROVE  Held' = Held
    <3>2. \A d \in Channels : (Held')[d] = Held[d] \ {k}
      BY <2>0, <2>3, HeldLeaves
    <3>3. \A d \in Channels : k \notin Held[d]
      BY <2>3 DEF Held, Probing
    <3>4. QED
      BY <3>2, <3>3 DEF Held
  <2>4. ASSUME NEW k \in Calls, NEW c \in Channels, Ask(k, c), Verdict(entries[c], now) # "probe"
        PROVE  Held' = Held
    <3>1. pc[k] # "probing" /\ {c} \in SUBSET Channels /\ {} \in SUBSET Channels
      BY <2>4 DEF Ask
    <3>2. CASE Verdict(entries[c], now) = "allow"
      BY <2>3, <2>4, <3>1, <3>2 DEF Ask
    <3>3. CASE Verdict(entries[c], now) # "allow"
      BY <2>3, <2>4, <3>1, <3>3 DEF Ask, Finishes
    <3>4. QED
      BY <3>2, <3>3
  <2>5. ASSUME NEW k \in Calls, NEW c \in Channels, ProbeEnds(k, c)
        PROVE  Gate!Return(c, k)
    BY <2>2, <2>5 DEF ProbeEnds, ProbeSucceeds, ProbeFails, ProbeCancelled, Finishes
  <2>6. ASSUME NEW k \in Calls, NEW c \in Channels,
               Bypass(k, c) \/ ForwardSucceeds(k, c) \/ ForwardFails(k, c) \/ ForwardSaysNothing(k, c)
        PROVE  Held' = Held
    BY <2>3, <2>6 DEF Bypass, ForwardSucceeds, ForwardFails, ForwardSaysNothing, Forwarding, Finishes
  <2>7. ASSUME NEW k \in Calls, Skip(k) PROVE Held' = Held
    BY <2>3, <2>7 DEF Skip, Finishes
  <2>8. ASSUME Tick \/ UNCHANGED vars PROVE Held' = Held
    BY <2>8 DEF Tick, vars, callVars, Held, Probing
  <2>9. QED
    BY <1>2, <2>1, <2>4, <2>5, <2>6, <2>7, <2>8 DEF Next, Gate!Next
<1>3. IInv /\ [Next]_vars => [Gate!Next]_Held
  BY <1>2
<1>4. QED
  BY <1>1, <1>3, Invariant, PTL DEF Spec, GateSpec, Gate!Spec, Held
=============================================================================
