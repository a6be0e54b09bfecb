----------------------------- MODULE Admin_proofs -----------------------------
(***************************************************************************)
(* Proofs about what administrators edit while requests and jobs use it,   *)
(* for any keys, skills, models, jobs and messages.  The four parts keep   *)
(* tables of their own (MCAdmin), so each has an invariant of its own:     *)
(*   keys     every charge is counted once, and a cached copy disagrees    *)
(*            with the table in one way only                               *)
(*   catalog  what an administrator edited stays (EditsSurvive)            *)
(*   skills   a new skill inherits nothing (NeverInherits)                 *)
(*   virtual  images are described, once, in their place (ImagesDescribed) *)
(***************************************************************************)
EXTENDS MCAdmin, Sequences, FiniteSetTheorems, TLAPS

-----------------------------------------------------------------------------
(***************************************************************************)
(* API keys (ApiKeys).                                                     *)
(***************************************************************************)
(* A row that was never created has not been charged.                      *)
UnbornInv == \A k \in Keys : row[k].state = "unborn" => row[k].used = 0

(* What a request has read and not yet stored may be out of date for the   *)
(* same reasons as what it has stored.                                     *)
ReaderInv ==
  \A r \in Requests :
    req[r].pc = "read" /\ Stale(req[r].copy, req[r].key) => Excused(r, req[r].key)

IInv == TypeOK /\ UnbornInv /\ UsedIsCharged /\ StaleOnlyIfOvertaken /\ ReaderInv

-----------------------------------------------------------------------------
(* What a step may do to a request without disturbing the charges.         *)
LEMMA ChargedSame ==
  ASSUME TypeOK,
         \A r \in Requests : /\ req'[r].key = req[r].key
                             /\ req'[r].pc = "charged" <=> req[r].pc = "charged"
  PROVE  \A k \in Keys : Charged(k)' = Charged(k)
BY DEF Charged

(* Request r goes on to pc with the copy w; the others stay.               *)
Moves(r, pc, w) ==
  /\ req' \in [Requests -> Request]
  /\ req'[r].pc = pc /\ req'[r].copy = w
  /\ req'[r].key = req[r].key /\ req'[r].overtaken = req[r].overtaken
  /\ \A q \in Requests \ {r} : req'[q] = req[q]

Places == {"missed", "read", "refused", "admitted", "answered", "charged", "over"}

LEMMA Moved ==
  ASSUME TypeOK, NEW r \in Requests, NEW pc \in Places, req' = [req EXCEPT ![r].pc = pc]
  PROVE  Moves(r, pc, req[r].copy)
BY DEF TypeOK, Request, Moves, Places

LEMMA Loaded ==
  ASSUME TypeOK, NEW r \in Requests, NEW pc \in Places, NEW w \in Row,
         req' = [req EXCEPT ![r].pc = pc, ![r].copy = w]
  PROVE  Moves(r, pc, w)
BY DEF TypeOK, Request, Moves, Places

LEMMA VerdictType == \A w : Verdict(w) \in {"refused", "admitted"}
BY DEF Verdict

(* A step of a request that leaves the table and the cache alone and does  *)
(* not end in the "read" state or in a charge.                             *)
LEMMA QuietStep ==
  ASSUME IInv, NEW r \in Requests, req[r].pc # "charged",
         NEW pc \in Places \ {"read", "charged"}, NEW w \in Row, Moves(r, pc, w),
         UNCHANGED <<row, cache, admin>>
  PROVE  IInv'
<1> USE DEF IInv
<1>1. /\ req' \in [Requests -> Request]
      /\ req'[r].pc = pc /\ req'[r].copy = w
      /\ req'[r].key = req[r].key /\ req'[r].overtaken = req[r].overtaken
      /\ \A q \in Requests \ {r} : req'[q] = req[q]
  BY DEF Moves, Places
<1>2. TypeOK'
  BY <1>1 DEF TypeOK
<1>3. \A k \in Keys : Charged(k)' = Charged(k)
  BY <1>1, ChargedSame
<1>4. UnbornInv' /\ UsedIsCharged'
  BY <1>3 DEF UnbornInv, UsedIsCharged
<1>5. StaleOnlyIfOvertaken'
  <2> SUFFICES ASSUME NEW k \in Keys, NEW e \in cache[k], Stale(e.copy, k)
               PROVE  Excused(e.by, k)'
    BY DEF StaleOnlyIfOvertaken, Stale
  <2>1. Excused(e.by, k) /\ e.by \in Requests
    BY DEF StaleOnlyIfOvertaken, TypeOK, Entry
  <2>2. req'[e.by].overtaken = req[e.by].overtaken
    BY <1>1, <2>1
  <2> QED BY <2>1, <2>2 DEF Excused
<1>6. ReaderInv'
  BY <1>1 DEF ReaderInv, Stale, Excused
<1> QED BY <1>2, <1>4, <1>5, <1>6

-----------------------------------------------------------------------------
LEMMA InitInv == ASSUME Init PROVE IInv
<1>1. TypeOK
  <2>0. Unborn \in Row
    BY DEF Unborn, Row
  <2>1. row \in [Keys -> Row]
    <3>1. [state : {"on", "off"}, limited : BOOLEAN, balance : Balances, used : {0}] \subseteq Row
      <4> SUFFICES ASSUME NEW w \in [state : {"on", "off"}, limited : BOOLEAN,
                                     balance : Balances, used : {0}]
                   PROVE  w \in Row
        OBVIOUS
      <4>1. w = [state |-> w.state, limited |-> w.limited, balance |-> w.balance, used |-> w.used]
        OBVIOUS
      <4>2. w.state \in {"unborn", "on", "off", "deleted"} /\ w.limited \in BOOLEAN
        OBVIOUS
      <4>3. w.balance \in Nat
        BY BalancesAssumption
      <4>4. w.used \in Nat
        OBVIOUS
      <4> QED BY <4>1, <4>2, <4>3, <4>4 DEF Row
    <3> QED BY <2>0, <3>1 DEF Init
  <2>2. req \in [Requests -> Request]
    <3>1. [pc : {"arrived"}, key : Keys, copy : {Unborn}, overtaken : {FALSE}] \subseteq Request
      BY <2>0 DEF Request
    <3> QED BY <3>1 DEF Init
  <2>3. admin \in [Admins -> [pc : {"idle", "written", "done"}, key : Keys]]
    BY DEF Init
  <2>4. cache = [k \in Keys |-> {}]
    BY DEF Init
  <2> QED BY <2>1, <2>2, <2>3, <2>4 DEF TypeOK
<1>2. \A k \in Keys : row[k].used = 0
  BY DEF Init, Unborn
<1>3. UnbornInv
  BY <1>2 DEF UnbornInv
<1>4. UsedIsCharged
  <2>1. \A k \in Keys : Charged(k) = {}
    BY DEF Charged, Init
  <2> QED BY <1>2, <2>1, FS_EmptySet DEF UsedIsCharged
<1>5. StaleOnlyIfOvertaken /\ ReaderInv
  BY DEF Init, StaleOnlyIfOvertaken, ReaderInv
<1> QED BY <1>1, <1>3, <1>4, <1>5 DEF IInv

LEMMA FillInv == ASSUME IInv, NEW r \in Requests, Fill(r) PROVE IInv'
<1> USE DEF IInv
<1> DEFINE k == req[r].key
           e == [copy |-> req[r].copy, by |-> r]
<1>1. /\ req[r].pc = "read" /\ cache' = [cache EXCEPT ![k] = {e}]
      /\ req' = [req EXCEPT ![r].pc = Verdict(req[r].copy)] /\ UNCHANGED <<row, admin>>
  BY DEF Fill, To
<1>2. k \in Keys /\ req[r].copy \in Row /\ e \in Entry
  BY DEF TypeOK, Request, Entry
<1>3. /\ req' \in [Requests -> Request]
      /\ req'[r].pc # "read" /\ req'[r].pc # "charged"
      /\ req'[r].key = req[r].key /\ req'[r].overtaken = req[r].overtaken
      /\ \A q \in Requests \ {r} : req'[q] = req[q]
  BY <1>1, <1>2, Moved, VerdictType DEF Moves, Places
<1>4. \A j \in Keys : cache'[j] = IF j = k THEN {e} ELSE cache[j]
  BY <1>1 DEF TypeOK
<1>5. TypeOK'
  BY <1>1, <1>2, <1>3, <1>4 DEF TypeOK
<1>6. UnbornInv' /\ UsedIsCharged'
  <2>1. \A j \in Keys : Charged(j)' = Charged(j)
    BY <1>1, <1>3, ChargedSame
  <2> QED BY <1>1, <2>1 DEF UnbornInv, UsedIsCharged
<1>7. StaleOnlyIfOvertaken'
  <2> SUFFICES ASSUME NEW j \in Keys, NEW f \in cache'[j], Stale(f.copy, j)
               PROVE  Excused(f.by, j)'
    BY <1>1 DEF StaleOnlyIfOvertaken, Stale
  <2>1. f.by \in Requests /\ Excused(f.by, j)
    <3>1. CASE j = k
      BY <3>1, <1>1, <1>4 DEF ReaderInv
    <3>2. CASE j # k
      BY <3>2, <1>4 DEF StaleOnlyIfOvertaken, TypeOK, Entry
    <3> QED BY <3>1, <3>2
  <2>2. req'[f.by].overtaken = req[f.by].overtaken
    BY <1>3, <2>1
  <2> QED BY <1>1, <2>1, <2>2 DEF Excused
<1>8. ReaderInv'
  BY <1>1, <1>3 DEF ReaderInv, Stale, Excused
<1> QED BY <1>5, <1>6, <1>7, <1>8

LEMMA ReadInv == ASSUME IInv, NEW r \in Requests, Read(r) PROVE IInv'
<1> USE DEF IInv
<1>1. CASE req' = [req EXCEPT ![r].pc = "refused"]
  <2>1. req[r].copy \in Row /\ req[r].pc # "charged" /\ UNCHANGED <<row, cache, admin>>
    BY DEF Read, TypeOK, Request
  <2> QED BY <1>1, <2>1, Moved, QuietStep DEF Places
<1>2. CASE /\ row[req[r].key].state = "on"
           /\ req' = [req EXCEPT ![r].pc = "read", ![r].copy = row[req[r].key]]
  <2>1. /\ req[r].pc = "missed" /\ row[req[r].key] \in Row
        /\ UNCHANGED <<row, cache, admin>>
    BY DEF Read, TypeOK, Request
  <2>2. /\ req' \in [Requests -> Request]
        /\ req'[r].pc = "read" /\ req'[r].copy = row[req[r].key]
        /\ req'[r].key = req[r].key /\ req'[r].overtaken = req[r].overtaken
        /\ \A q \in Requests \ {r} : req'[q] = req[q]
    BY <1>2, <2>1, Loaded DEF Moves, Places
  <2>3. TypeOK'
    BY <2>1, <2>2 DEF TypeOK
  <2>4. UnbornInv' /\ UsedIsCharged'
    <3>1. \A k \in Keys : Charged(k)' = Charged(k)
      BY <2>1, <2>2, ChargedSame
    <3> QED BY <2>1, <3>1 DEF UnbornInv, UsedIsCharged
  <2>5. StaleOnlyIfOvertaken'
    <3> SUFFICES ASSUME NEW k \in Keys, NEW e \in cache[k], Stale(e.copy, k)
                 PROVE  Excused(e.by, k)'
      BY <2>1 DEF StaleOnlyIfOvertaken, Stale
    <3>1. Excused(e.by, k) /\ e.by \in Requests
      BY DEF StaleOnlyIfOvertaken, TypeOK, Entry
    <3>2. req'[e.by].overtaken = req[e.by].overtaken
      BY <2>2, <3>1
    <3> QED BY <2>1, <3>1, <3>2 DEF Excused
  <2>6. ReaderInv'
    BY <1>2, <2>1, <2>2 DEF ReaderInv, Stale, Excused
  <2> QED BY <2>3, <2>4, <2>5, <2>6
<1> QED BY <1>1, <1>2 DEF Read, To

LEMMA ChargeInv == ASSUME IInv, NEW r \in Requests, Charge(r) PROVE IInv'
<1> USE DEF IInv
<1> DEFINE k == req[r].key
<1>0. /\ req[r].pc = "answered" /\ UNCHANGED <<cache, admin>> /\ k \in Keys
      /\ req[r].copy \in Row /\ row[k] \in Row
  BY DEF Charge, TypeOK, Request
<1>1. CASE UNCHANGED row /\ req' = [req EXCEPT ![r].pc = "over"]
  BY <1>0, <1>1, Moved, QuietStep DEF Places
<1>2. CASE /\ row[k].state \in {"on", "off"}
           /\ row' = [row EXCEPT ![k] = Deducted(@)]
           /\ req' = [req EXCEPT ![r].pc = "charged"]
  <2>1. /\ Deducted(row[k]) \in Row
        /\ Deducted(row[k]).used = row[k].used + 1
        /\ Deducted(row[k]).state = row[k].state
        /\ Deducted(row[k]).limited = row[k].limited
    BY <1>0 DEF Deducted, Row
  <2>2. /\ row' \in [Keys -> Row]
        /\ \A j \in Keys : /\ row'[j].state = row[j].state
                           /\ row'[j].limited = row[j].limited
                           /\ row'[j].used = IF j = k THEN row[j].used + 1 ELSE row[j].used
    BY <1>0, <1>2, <2>1 DEF TypeOK
  <2>3. /\ req' \in [Requests -> Request]
        /\ req'[r].pc = "charged"
        /\ req'[r].key = req[r].key /\ req'[r].overtaken = req[r].overtaken
        /\ \A q \in Requests \ {r} : req'[q] = req[q]
    BY <1>0, <1>2, Moved DEF Moves, Places
  <2>4. TypeOK'
    BY <1>0, <2>2, <2>3 DEF TypeOK
  <2>5. UnbornInv'
    BY <1>2, <2>2 DEF UnbornInv
  <2>6. UsedIsCharged'
    <3> SUFFICES ASSUME NEW j \in Keys, row'[j].state # "deleted"
                 PROVE  row'[j].used = Cardinality(Charged(j)')
      BY DEF UsedIsCharged
    <3>1. row[j].used = Cardinality(Charged(j))
      BY <2>2 DEF UsedIsCharged
    <3>2. CASE j # k
      <4>1. Charged(j)' = Charged(j)
        BY <1>0, <2>3, <3>2 DEF Charged
      <4> QED BY <2>2, <3>1, <3>2, <4>1
    <3>3. CASE j = k
      <4>1. Charged(j)' = Charged(j) \cup {r} /\ r \notin Charged(j)
        BY <1>0, <2>3, <3>3 DEF Charged
      <4>2. IsFiniteSet(Charged(j))
        BY RequestsAssumption, FS_Subset DEF Charged
      <4>3. Cardinality(Charged(j) \cup {r}) = Cardinality(Charged(j)) + 1
        BY <4>1, <4>2, FS_AddElement
      <4> QED BY <2>2, <3>1, <3>3, <4>1, <4>3
    <3> QED BY <3>2, <3>3
  <2>7. StaleOnlyIfOvertaken'
    <3> SUFFICES ASSUME NEW j \in Keys, NEW e \in cache[j], Stale(e.copy, j)'
                 PROVE  Excused(e.by, j)'
      BY <1>0 DEF StaleOnlyIfOvertaken
    <3>1. Stale(e.copy, j)
      BY <2>2 DEF Stale
    <3>2. Excused(e.by, j) /\ e.by \in Requests
      BY <3>1 DEF StaleOnlyIfOvertaken, TypeOK, Entry
    <3>3. req'[e.by].overtaken = req[e.by].overtaken
      BY <2>3, <3>2
    <3> QED BY <1>0, <3>2, <3>3 DEF Excused
  <2>8. ReaderInv'
    <3> SUFFICES ASSUME NEW q \in Requests, req'[q].pc = "read",
                        Stale(req[q].copy, req[q].key)', req'[q] = req[q]
                 PROVE  Excused(q, req[q].key)'
      BY <2>3 DEF ReaderInv, Stale, Excused
    <3>1. req[q].key \in Keys
      BY DEF TypeOK, Request
    <3> QED BY <1>0, <2>2, <2>3, <3>1 DEF ReaderInv, Stale, Excused
  <2> QED BY <2>4, <2>5, <2>6, <2>7, <2>8
<1> QED BY <1>0, <1>1, <1>2 DEF Charge, To

LEMMA ExpireInv == ASSUME IInv, NEW k \in Keys, Expire(k) PROVE IInv'
<1> USE DEF IInv
<1>1. UNCHANGED <<row, req, admin>> /\ cache' = [cache EXCEPT ![k] = {}]
  BY DEF Expire
<1>2. \A j \in Keys : cache'[j] = IF j = k THEN {} ELSE cache[j]
  BY <1>1 DEF TypeOK
<1>3. TypeOK'
  BY <1>1, <1>2 DEF TypeOK
<1>4. UnbornInv' /\ UsedIsCharged' /\ ReaderInv'
  BY <1>1 DEF UnbornInv, UsedIsCharged, Charged, ReaderInv, Stale, Excused
<1>5. StaleOnlyIfOvertaken'
  BY <1>1, <1>2 DEF StaleOnlyIfOvertaken, Stale, Excused
<1> QED BY <1>3, <1>4, <1>5

(* What a statement of an administrator keeps.                             *)
LEMMA ChangedRow ==
  ASSUME NEW v \in Row, NEW w \in Changed(v), v.state = "unborn" => v.used = 0
  PROVE  /\ w \in Row
         /\ w.state # "unborn"
         /\ w.state # "deleted" => v.state # "deleted" /\ w.used = v.used
<1>0. v = [state |-> v.state, limited |-> v.limited, balance |-> v.balance, used |-> v.used]
  BY DEF Row
<1>1. CASE v.state = "unborn"
  <2>1. w = [state |-> "on", limited |-> FALSE, balance |-> 0, used |-> 0]
    BY <1>1 DEF Changed, Unborn
  <2> QED BY <1>1, <2>1 DEF Row
<1>2. CASE v.state = "deleted"
  BY <1>2 DEF Changed
<1>3. CASE v.state \in {"on", "off"}
  <2>1. w \in {Toggled(v), Removed(v)} \cup {Configured(v, l, b) : l \in BOOLEAN, b \in Balances}
    BY <1>3 DEF Changed
  <2>2. CASE w = Toggled(v)
    BY <1>3, <2>2 DEF Row, Toggled
  <2>3. CASE w = Removed(v)
    BY <1>3, <2>3 DEF Row, Removed
  <2>4. CASE \E l \in BOOLEAN, b \in Balances : w = Configured(v, l, b)
    <3>1. PICK l \in BOOLEAN, b \in Balances : w = Configured(v, l, b)
      BY <2>4
    <3>2. b \in Nat
      BY BalancesAssumption
    <3> QED BY <1>3, <3>1, <3>2 DEF Row, Configured
  <2> QED BY <2>1, <2>2, <2>3, <2>4
<1> QED BY <1>1, <1>2, <1>3 DEF Row

LEMMA ChangeInv == ASSUME IInv, NEW a \in Admins, Change(a) PROVE IInv'
<1> USE DEF IInv
<1> DEFINE k == admin[a].key
<1>1. k \in Keys /\ row[k] \in Row /\ admin[a].pc = "idle" /\ UNCHANGED <<cache, req>>
  BY DEF Change, TypeOK
<1>2. PICK pc \in {"written", "done"} : admin' = [admin EXCEPT ![a].pc = pc]
  BY DEF Change
<1>3. /\ admin' \in [Admins -> [pc : {"idle", "written", "done"}, key : Keys]]
      /\ admin'[a].pc = pc /\ admin'[a].key = k
      /\ \A b \in Admins \ {a} : admin'[b] = admin[b]
  BY <1>2 DEF TypeOK
<1>5. CASE UNCHANGED row
  <2>1. TypeOK'
    BY <1>1, <1>3, <1>5 DEF TypeOK
  <2>2. UnbornInv' /\ UsedIsCharged'
    BY <1>1, <1>5 DEF UnbornInv, UsedIsCharged, Charged
  <2>3. StaleOnlyIfOvertaken' /\ ReaderInv'
    BY <1>1, <1>3, <1>5 DEF StaleOnlyIfOvertaken, ReaderInv, Stale, Excused
  <2> QED BY <2>1, <2>2, <2>3
<1>6. CASE /\ \E w \in Changed(row[k]) : row' = [row EXCEPT ![k] = w]
           /\ admin' = [admin EXCEPT ![a].pc = "written"]
  <2>1. PICK w \in Changed(row[k]) : row' = [row EXCEPT ![k] = w]
    BY <1>6
  <2>2. /\ w \in Row /\ w.state # "unborn"
        /\ w.state # "deleted" => row[k].state # "deleted" /\ w.used = row[k].used
    BY <1>1, ChangedRow DEF UnbornInv
  <2>3. /\ row' \in [Keys -> Row]
        /\ \A j \in Keys : row'[j] = IF j = k THEN w ELSE row[j]
    BY <1>1, <2>1, <2>2 DEF TypeOK
  <2>4. admin'[a].pc = "written"
    BY <1>6 DEF TypeOK
  <2>5. TypeOK'
    BY <1>1, <1>3, <2>3 DEF TypeOK
  <2>6. UnbornInv' /\ UsedIsCharged'
    BY <1>1, <2>2, <2>3 DEF UnbornInv, UsedIsCharged, Charged
  <2>7. StaleOnlyIfOvertaken'
    <3> SUFFICES ASSUME NEW j \in Keys, NEW e \in cache[j], Stale(e.copy, j)'
                 PROVE  Excused(e.by, j)'
      BY <1>1 DEF StaleOnlyIfOvertaken, Stale
    <3>1. CASE j = k
      BY <1>1, <1>3, <2>4, <3>1 DEF Excused
    <3>2. CASE j # k
      <4>1. Stale(e.copy, j)
        BY <2>3, <3>2 DEF Stale
      <4>2. Excused(e.by, j)
        BY <4>1 DEF StaleOnlyIfOvertaken
      <4> QED BY <1>1, <1>3, <4>2 DEF Excused
    <3> QED BY <3>1, <3>2
  <2>8. ReaderInv'
    <3> SUFFICES ASSUME NEW r \in Requests, req[r].pc = "read",
                        Stale(req[r].copy, req[r].key)'
                 PROVE  Excused(r, req[r].key)'
      BY <1>1 DEF ReaderInv, Stale, Excused
    <3>1. req[r].key \in Keys
      BY DEF TypeOK, Request
    <3>2. CASE req[r].key = k
      BY <1>1, <1>3, <2>4, <3>2 DEF Excused
    <3>3. CASE req[r].key # k
      <4>1. Stale(req[r].copy, req[r].key)
        BY <2>3, <3>1, <3>3, <1>1 DEF Stale
      <4>2. Excused(r, req[r].key)
        BY <4>1 DEF ReaderInv
      <4> QED BY <1>1, <1>3, <4>2 DEF Excused
    <3> QED BY <3>2, <3>3
  <2> QED BY <2>5, <2>6, <2>7, <2>8
<1> QED BY <1>5, <1>6 DEF Change

-----------------------------------------------------------------------------
(* Clearing the cache leaves nothing in it, and nothing that was read      *)
(* before and is not marked.                                               *)
LEMMA InvalidateInv == ASSUME IInv, NEW a \in Admins, Invalidate(a) PROVE IInv'
<1> USE DEF IInv
<1>1. /\ admin[a].pc = "written" /\ UNCHANGED row
      /\ cache' = [k \in Keys |-> {}]
      /\ admin' = [admin EXCEPT ![a].pc = "done"]
      /\ req' = [r \in Requests |->
                  IF req[r].pc = "read" THEN [req[r] EXCEPT !.overtaken = TRUE] ELSE req[r]]
  BY DEF Invalidate
<1>2. \A r \in Requests : /\ req'[r] \in Request
                          /\ req'[r].pc = req[r].pc /\ req'[r].key = req[r].key
                          /\ req'[r].pc = "read" => req'[r].overtaken
  BY <1>1 DEF TypeOK, Request
<1>3. admin' \in [Admins -> [pc : {"idle", "written", "done"}, key : Keys]]
  BY <1>1 DEF TypeOK
<1>4. TypeOK'
  BY <1>1, <1>2, <1>3 DEF TypeOK
<1>5. UnbornInv' /\ UsedIsCharged'
  <2>1. \A k \in Keys : Charged(k)' = Charged(k)
    BY <1>2, ChargedSame
  <2> QED BY <1>1, <2>1 DEF UnbornInv, UsedIsCharged
<1>6. StaleOnlyIfOvertaken' /\ ReaderInv'
  BY <1>1, <1>2 DEF StaleOnlyIfOvertaken, ReaderInv, Excused
<1> QED BY <1>4, <1>5, <1>6

LEMMA RestartInv == ASSUME IInv, Restart PROVE IInv'
<1> USE DEF IInv
<1>1. /\ UNCHANGED row /\ cache' = [k \in Keys |-> {}]
      /\ req' = [r \in Requests |-> IF req[r].pc = "arrived" THEN req[r] ELSE Ended(req[r])]
      /\ admin' = [a \in Admins |->
                    IF admin[a].pc = "written" THEN [admin[a] EXCEPT !.pc = "done"] ELSE admin[a]]
  BY DEF Restart
<1>2. \A r \in Requests : /\ req'[r] \in Request
                          /\ req'[r].key = req[r].key
                          /\ (req'[r].pc = "charged") = (req[r].pc = "charged")
                          /\ req'[r].pc # "read"
  BY <1>1 DEF TypeOK, Request, Ended
<1>3. admin' \in [Admins -> [pc : {"idle", "written", "done"}, key : Keys]]
  BY <1>1 DEF TypeOK
<1>4. TypeOK'
  BY <1>1, <1>2, <1>3 DEF TypeOK
<1>5. UnbornInv' /\ UsedIsCharged'
  <2>1. \A k \in Keys : Charged(k)' = Charged(k)
    BY <1>2, ChargedSame
  <2> QED BY <1>1, <2>1 DEF UnbornInv, UsedIsCharged
<1>6. StaleOnlyIfOvertaken' /\ ReaderInv'
  BY <1>1, <1>2 DEF StaleOnlyIfOvertaken, ReaderInv
<1> QED BY <1>4, <1>5, <1>6

LEMMA OtherInv ==
  ASSUME IInv, NEW r \in Requests, Hit(r) \/ Miss(r) \/ Answer(r)
  PROVE  IInv'
<1>1. TypeOK /\ req[r].copy \in Row
  BY DEF IInv, TypeOK, Request
<1>2. CASE Hit(r)
  <2>1. PICK e \in cache[req[r].key] :
          req' = [req EXCEPT ![r].pc = Verdict(e.copy), ![r].copy = e.copy]
    BY <1>2 DEF Hit
  <2>2. e.copy \in Row
    BY <1>1 DEF TypeOK, Request, Entry
  <2>3. Verdict(e.copy) \in Places \ {"read", "charged"} /\ Verdict(e.copy) \in Places
    BY VerdictType DEF Places
  <2>4. Moves(r, Verdict(e.copy), e.copy)
    BY <1>1, <2>1, <2>2, <2>3, Loaded
  <2> QED BY <1>2, <2>2, <2>3, <2>4, QuietStep DEF Hit
<1>3. CASE Miss(r)
  BY <1>1, <1>3, Moved, QuietStep DEF Miss, To, Places
<1>4. CASE Answer(r)
  BY <1>1, <1>4, Moved, QuietStep DEF Answer, To, Places
<1> QED BY <1>2, <1>3, <1>4

LEMMA StepInv == ASSUME IInv, [Next]_vars PROVE IInv'
<1>1. CASE UNCHANGED vars
  BY <1>1 DEF IInv, vars, TypeOK, UnbornInv, UsedIsCharged, Charged, StaleOnlyIfOvertaken,
              ReaderInv, Stale, Excused
<1>2. CASE Next
  BY <1>2, OtherInv, ReadInv, FillInv, ChargeInv, ExpireInv, ChangeInv, InvalidateInv, RestartInv
     DEF Next
<1> QED BY <1>1, <1>2

THEOREM ApiKeysInvariant == Spec => []IInv
BY InitInv, StepInv, PTL DEF Spec

(* The tables, the cache, the requests and the handlers are well typed: no *)
(* balance falls below zero, and a key has one cached copy at most         *)
(* (store/api_key.go:148-164, 89-98).                                      *)
THEOREM ApiKeysTypes == Spec => []TypeOK
BY ApiKeysInvariant, PTL DEF IInv

(* While another part runs the keys are at rest.                           *)
AtRest ==
  /\ row = [k \in Keys |-> Unborn] /\ cache = [k \in Keys |-> {}]
  /\ \A r \in Requests : req[r].pc = "over"

KeysInv == IF part = "keys" THEN IInv ELSE AtRest

LEMMA KeysInit == ASSUME AdminInit PROVE KeysInv
<1>1. CASE part = "keys"
  BY <1>1, InitInv DEF AdminInit, KeysInv
<1>2. CASE part # "keys"
  BY <1>2 DEF AdminInit, KeysInv, AtRest
<1>. QED
  BY <1>1, <1>2

LEMMA KeysStep ==
  ASSUME KeysInv, [AdminNext]_<<part, vars, library, catalog, virtual>>
  PROVE  KeysInv'
<1>1. part' = part /\ (part = "keys" => [Next]_vars) /\ (part # "keys" => UNCHANGED vars)
  BY DEF AdminNext
<1>2. CASE part = "keys"
  BY <1>1, <1>2, StepInv DEF KeysInv
<1>3. CASE part # "keys"
  BY <1>1, <1>3 DEF KeysInv, AtRest, vars
<1>. QED
  BY <1>2, <1>3

LEMMA KeysRest == ASSUME KeysInv PROVE UsedIsCharged /\ StaleOnlyIfOvertaken
<1>1. CASE part = "keys"
  BY <1>1 DEF KeysInv, IInv
<1>2. CASE part # "keys"
  <2>1. \A k \in Keys : row[k].used = 0 /\ Charged(k) = {} /\ cache[k] = {}
    BY <1>2 DEF KeysInv, AtRest, Unborn, Charged
  <2>. QED
    BY <2>1, FS_EmptySet DEF UsedIsCharged, StaleOnlyIfOvertaken
<1>. QED
  BY <1>1, <1>2

(* Every key was charged exactly for the requests whose charge succeeded,  *)
(* for any number of requests, administrators and restarts                 *)
(* (store/api_key.go:148-176).                                             *)
THEOREM EveryChargeCounts == AdminSpec => []UsedIsCharged
BY KeysInit, KeysStep, KeysRest, PTL DEF AdminSpec

(* A cached copy that disagrees with the table is about to be cleared, or  *)
(* was stored by a request that the clearing overtook                      *)
(* (store/api_key.go:81-98).                                               *)
THEOREM CacheStaleness == AdminSpec => []StaleOnlyIfOvertaken
BY KeysInit, KeysStep, KeysRest, PTL DEF AdminSpec

-----------------------------------------------------------------------------
(***************************************************************************)
(* The catalog (Catalog).  An import, or a synchronisation with OpenRouter *)
(* that looks at every row once, never writes a row that it has seen       *)
(* edited unless it was told to; and a row that is created has a new id.   *)
(***************************************************************************)
SyncJobs   == [op : {"sync"}, channel : Channels, found : SUBSET (Models \X {"id", "given"})]
ImportJobs == [op : {"import"}, todo : SUBSET Models, overwrite : BOOLEAN,
               updates : SUBSET Nat, seen : SUBSET Nat]
RouterJobs == [op : {"router"}, todo : SUBSET Nat, overwrite : BOOLEAN,
               updates : SUBSET Nat, seen : SUBSET Nat]

\* What is still to be read, will be written and was seen edited are apart.
LooksOnce(r) ==
  r.overwrite \/ (r.updates \cap r.seen = {} /\ r.todo \cap (r.updates \cup r.seen) = {})

\* A request in progress.
CatalogJob(r) ==
  /\ r.op = "sync" => r \in SyncJobs
  /\ r.op = "import" => r \in ImportJobs /\ (r.overwrite \/ r.updates \cap r.seen = {})
  /\ r.op = "router" => r \in RouterJobs /\ LooksOnce(r)

RowsHaveIds ==
  /\ modelId \in Nat \ {0} /\ DOMAIN models \subseteq 1 .. modelId - 1
  /\ \A id \in DOMAIN models : {"info", "name"} \subseteq DOMAIN models[id]

\* No row is created, and none gets another field.
RowsRemain ==
  \A id \in DOMAIN models' : id \in DOMAIN models /\ DOMAIN models'[id] = DOMAIN models[id]

CatalogInv ==
  /\ RowsHaveIds /\ modelRequests \in Nat
  /\ DOMAIN modelJob = Jobs /\ modelJob = [j \in Jobs |-> modelJob[j]]
  /\ \A j \in Jobs : CatalogJob(modelJob[j])

LEMMA ChangeOfJob ==
  ASSUME CatalogInv, RowsHaveIds', modelRequests' \in Nat, NEW j \in Jobs, NEW r, CatalogJob(r),
         modelJob' = [modelJob EXCEPT ![j] = r]
  PROVE  CatalogInv'
BY DEF CatalogInv

LEMMA NoChangeOfJob ==
  ASSUME CatalogInv, RowsHaveIds', modelRequests' \in Nat, UNCHANGED modelJob
  PROVE  CatalogInv'
BY DEF CatalogInv

LEMMA IdleJob == CatalogJob(C!Idle)
BY DEF CatalogJob, C!Idle

\* A statement that changes rows, or removes some, leaves their ids.
LEMMA SameIds ==
  ASSUME RowsHaveIds, UNCHANGED modelId, RowsRemain \/ UNCHANGED models
  PROVE  RowsHaveIds'
BY DEF RowsHaveIds, RowsRemain

(***************************************************************************)
(* Requests.                                                               *)
(***************************************************************************)
LEMMA RequestKeepsCatalog ==
  ASSUME CatalogInv, modelRequests' = modelRequests + 1, C!Request
  PROVE  CatalogInv'
<1>1. modelRequests' \in Nat /\ RowsHaveIds
  BY DEF CatalogInv
<1>2. ASSUME NEW id, NEW name, NEW status, C!UpdateModel(id, name, status) PROVE CatalogInv'
  <2>1. RowsRemain /\ UNCHANGED <<modelId, modelJob>>
    BY <1>2 DEF C!UpdateModel, C!Changed, RowsRemain
  <2>. QED
    BY <1>1, <2>1, SameIds, NoChangeOfJob
<1>3. ASSUME NEW id, C!ToggleModel(id) PROVE CatalogInv'
  <2>1. RowsRemain /\ UNCHANGED <<modelId, modelJob>>
    BY <1>3 DEF C!ToggleModel, C!Changed, RowsRemain
  <2>. QED
    BY <1>1, <2>1, SameIds, NoChangeOfJob
<1>4. ASSUME NEW ids, NEW action, C!Batch(ids, action) PROVE CatalogInv'
  <2>1. RowsRemain /\ UNCHANGED <<modelId, modelJob>>
    BY <1>4 DEF C!Batch, C!Changed, C!Restrict, C!Edited, RowsRemain
  <2>. QED
    BY <1>1, <2>1, SameIds, NoChangeOfJob
<1>5. ASSUME NEW j \in Jobs, NEW ids \in SUBSET DOMAIN models, NEW overwrite \in BOOLEAN,
             C!BeginRouter(j, ids, overwrite)
      PROVE  CatalogInv'
  <2>. DEFINE r == [op |-> "router", todo |-> ids, overwrite |-> overwrite,
                    updates |-> {}, seen |-> {}]
  <2>1. modelJob' = [modelJob EXCEPT ![j] = r] /\ UNCHANGED <<models, modelId>>
    BY <1>5 DEF C!BeginRouter, C!BeginWriter, C!Begin, C!Tables
  <2>2. ids \subseteq Nat
    BY <1>1 DEF RowsHaveIds
  <2>3. CatalogJob(r)
    BY <2>2 DEF CatalogJob, RouterJobs, LooksOnce
  <2>. HIDE DEF r
  <2>. QED
    BY <1>1, <2>1, <2>3, SameIds, ChangeOfJob
<1>6. ASSUME NEW j \in Jobs, NEW ms \in SUBSET Models, NEW overwrite \in BOOLEAN,
             C!BeginImport(j, ms, overwrite)
      PROVE  CatalogInv'
  <2>. DEFINE r == [op |-> "import", todo |-> ms, overwrite |-> overwrite,
                    updates |-> {}, seen |-> {}]
  <2>1. modelJob' = [modelJob EXCEPT ![j] = r] /\ UNCHANGED <<models, modelId>>
    BY <1>6 DEF C!BeginImport, C!BeginWriter, C!Begin, C!Tables
  <2>2. CatalogJob(r)
    BY DEF CatalogJob, ImportJobs
  <2>. HIDE DEF r
  <2>. QED
    BY <1>1, <2>1, <2>2, SameIds, ChangeOfJob
<1>7. CASE C!ReloadPresets
  <2>1. UNCHANGED <<models, modelId, modelJob>>
    BY <1>7 DEF C!ReloadPresets
  <2>. QED
    BY <1>1, <2>1, SameIds, NoChangeOfJob
<1>8. ASSUME NEW c, NEW status, C!SaveChannel(c, status) PROVE CatalogInv'
  <2>1. UNCHANGED <<models, modelId, modelJob>>
    BY <1>8 DEF C!SaveChannel
  <2>. QED
    BY <1>1, <2>1, SameIds, NoChangeOfJob
<1>9. ASSUME NEW c, C!ToggleChannel(c) PROVE CatalogInv'
  <2>1. UNCHANGED <<models, modelId, modelJob>>
    BY <1>9 DEF C!ToggleChannel
  <2>. QED
    BY <1>1, <2>1, SameIds, NoChangeOfJob
<1>10. ASSUME NEW c, C!DeleteChannel(c) PROVE CatalogInv'
  <2>1. RowsRemain /\ UNCHANGED <<modelId, modelJob>>
    BY <1>10 DEF C!DeleteChannel, C!Restrict, C!Edited, RowsRemain
  <2>. QED
    BY <1>1, <2>1, SameIds, NoChangeOfJob
<1>11. ASSUME NEW j \in Jobs, NEW c \in Channels, C!BeginSync(j, c) PROVE CatalogInv'
  <2>1. PICK found \in SUBSET (Models \X {"id", "given"}) :
          modelJob' = [modelJob EXCEPT ![j] = [op |-> "sync", channel |-> c, found |-> found]]
    BY <1>11 DEF C!BeginSync, C!Begin
  <2>2. UNCHANGED <<models, modelId>>
    BY <1>11 DEF C!BeginSync, C!Tables
  <2>3. CatalogJob([op |-> "sync", channel |-> c, found |-> found])
    BY DEF CatalogJob, SyncJobs
  <2>. QED
    BY <1>1, <2>1, <2>2, <2>3, SameIds, ChangeOfJob
<1>12. ASSUME NEW j \in Jobs, NEW c \in Channels, C!BeginGetChannel(j, c) PROVE CatalogInv'
  <2>. DEFINE r == [op |-> "channel", channel |-> c, status |-> channels[c]]
  <2>1. modelJob' = [modelJob EXCEPT ![j] = r] /\ UNCHANGED <<models, modelId>>
    BY <1>12 DEF C!BeginGetChannel, C!Begin, C!Tables
  <2>2. CatalogJob(r)
    BY DEF CatalogJob
  <2>. HIDE DEF r
  <2>. QED
    BY <1>1, <2>1, <2>2, SameIds, ChangeOfJob
<1>13. ASSUME NEW j \in Jobs, C!BeginList(j) PROVE CatalogInv'
  <2>. DEFINE r == [op |-> "list", rows |-> C!Joined]
  <2>1. modelJob' = [modelJob EXCEPT ![j] = r] /\ UNCHANGED <<models, modelId>>
    BY <1>13 DEF C!BeginList, C!Begin, C!Tables
  <2>2. CatalogJob(r)
    BY DEF CatalogJob
  <2>. HIDE DEF r
  <2>. QED
    BY <1>1, <2>1, <2>2, SameIds, ChangeOfJob
<1>. QED
  BY <1>2, <1>3, <1>4, <1>5, <1>6, <1>7, <1>8, <1>9, <1>10, <1>11, <1>12, <1>13 DEF C!Request

(***************************************************************************)
(* Steps of what is in progress.                                           *)
(***************************************************************************)
\* Of an edited row the metadata stay, and a name that is not the id.
Kept(id) ==
  /\ models'[id].info = models[id].info
  /\ models[id].name = "given" => models'[id].name = "given"

LEMMA UpsertKeepsEdits ==
  ASSUME RowsHaveIds, NEW c, NEW m, NEW name, C!Upsert(c, m, name)
  PROVE  /\ RowsHaveIds'
         /\ \A id \in DOMAIN models \cap DOMAIN models' : models[id].edited => Kept(id)
<1>. DEFINE same == {id \in DOMAIN models : models[id].channel = c /\ models[id].model = m}
<1>1. CASE same # {}
  <2>1. models' = [id \in DOMAIN models |->
                     IF id \in same THEN C!Merged(models[id], name) ELSE models[id]]
        /\ UNCHANGED modelId
    BY <1>1 DEF C!Upsert, C!Changed
  <2>2. ASSUME NEW id \in DOMAIN models, models[id].edited
        PROVE  Kept(id)
    BY <2>1, <2>2 DEF C!Merged, RowsHaveIds, Kept
  <2>3. RowsRemain
    BY <2>1 DEF C!Merged, RowsRemain
  <2>. QED
    BY <2>1, <2>2, <2>3, SameIds
<1>2. CASE same = {}
  <2>1. PICK r : /\ models' = C!With(models, modelId, r) /\ modelId' = modelId + 1
                 /\ {"info", "name"} \subseteq DOMAIN r
    BY <1>2 DEF C!Upsert
  <2>2. /\ DOMAIN models' = DOMAIN models \cup {modelId}
        /\ \A id \in DOMAIN models : id # modelId => models'[id] = models[id]
        /\ models'[modelId] = r
    BY <2>1 DEF C!With
  <2>. QED
    BY <2>1, <2>2 DEF RowsHaveIds, Kept
<1>. QED
  BY <1>1, <1>2

EditKept(id) == models[id].edited => Kept(id) \/ \E j \in Jobs : C!Overtakes(j, id)

EditsKept == \A id \in DOMAIN models \cap DOMAIN models' : EditKept(id)

LEMMA FillKeeps ==
  ASSUME CatalogInv, UNCHANGED modelRequests, NEW j \in Jobs, C!Fill(j)
  PROVE  CatalogInv' /\ EditsKept
<1>1. modelJob' = [modelJob EXCEPT ![j] = C!Idle] /\ UNCHANGED <<models, modelId>>
  BY DEF C!Fill, C!Tables
<1>2. RowsHaveIds /\ modelRequests' \in Nat
  BY DEF CatalogInv
<1>3. CatalogInv'
  BY <1>1, <1>2, IdleJob, SameIds, ChangeOfJob
<1>. QED
  BY <1>1, <1>3 DEF EditsKept, EditKept, Kept

LEMMA SyncOneKeeps ==
  ASSUME CatalogInv, UNCHANGED modelRequests, NEW j \in Jobs, C!SyncOne(j)
  PROVE  CatalogInv' /\ EditsKept
<1>1. PICK x \in modelJob[j].found :
        /\ C!Upsert(modelJob[j].channel, x[1], x[2]) \/ UNCHANGED <<models, modelId>>
        /\ modelJob' = [modelJob EXCEPT ![j].found = @ \ {x}]
  BY DEF C!SyncOne
<1>2. modelJob[j].op = "sync"
  BY DEF C!SyncOne
<1>3. RowsHaveIds /\ modelRequests' \in Nat /\ modelJob[j] \in SyncJobs
  BY <1>2 DEF CatalogInv, CatalogJob
<1>4. RowsHaveIds' /\ \A id \in DOMAIN models \cap DOMAIN models' :
                         models[id].edited => Kept(id)
  BY <1>1, <1>3, UpsertKeepsEdits, SameIds DEF Kept
<1>. DEFINE r == [modelJob[j] EXCEPT !.found = modelJob[j].found \ {x}]
<1>5. r \in SyncJobs
  BY <1>3 DEF SyncJobs
<1>6. CatalogJob(r)
  BY <1>5 DEF CatalogJob, SyncJobs
<1>7. modelJob' = [modelJob EXCEPT ![j] = r]
  BY <1>1
<1>. HIDE DEF r
<1>8. CatalogInv'
  BY <1>3, <1>4, <1>6, <1>7, ChangeOfJob
<1>. QED
  BY <1>4, <1>8 DEF EditsKept, EditKept, Kept

LEMMA EndSyncKeeps ==
  ASSUME CatalogInv, UNCHANGED modelRequests, NEW j \in Jobs, C!EndSync(j)
  PROVE  CatalogInv' /\ EditsKept
<1>1. modelJob' = [modelJob EXCEPT ![j] = C!Idle] /\ UNCHANGED <<models, modelId>>
  BY DEF C!EndSync, C!Tables
<1>2. RowsHaveIds /\ modelRequests' \in Nat
  BY DEF CatalogInv
<1>3. CatalogInv'
  BY <1>1, <1>2, IdleJob, SameIds, ChangeOfJob
<1>. QED
  BY <1>1, <1>3 DEF EditsKept, EditKept, Kept

LEMMA EndImportKeeps ==
  ASSUME CatalogInv, UNCHANGED modelRequests, NEW j \in Jobs, C!EndImport(j)
  PROVE  CatalogInv' /\ EditsKept
<1>1. modelJob' = [modelJob EXCEPT ![j] = C!Idle] /\ UNCHANGED <<models, modelId>>
  BY DEF C!EndImport, C!Tables
<1>2. RowsHaveIds /\ modelRequests' \in Nat
  BY DEF CatalogInv
<1>3. CatalogInv'
  BY <1>1, <1>2, IdleJob, SameIds, ChangeOfJob
<1>. QED
  BY <1>1, <1>3 DEF EditsKept, EditKept, Kept

LEMMA ImportReadsKeeps ==
  ASSUME CatalogInv, UNCHANGED modelRequests, NEW j \in Jobs, C!ImportReads(j)
  PROVE  CatalogInv' /\ EditsKept
<1>1. UNCHANGED <<models, modelId>> /\ modelJob[j].op = "import" /\ modelJob[j].updates = {}
  BY DEF C!ImportReads, C!Tables
<1>2. /\ RowsHaveIds /\ modelRequests' \in Nat /\ modelJob[j] \in ImportJobs
  BY <1>1 DEF CatalogInv, CatalogJob
<1>. DEFINE o       == modelJob[j]
            passed(m) == [o EXCEPT !.todo = o.todo \ {m}]
            looked(m, id) == [o EXCEPT !.todo = o.todo \ {m}, !.seen = C!Modified(id),
                                       !.updates = C!Chosen(j, id)]
<1>3. PICK m \in o.todo :
        \/ modelJob' = [modelJob EXCEPT ![j] = passed(m)]
        \/ \E id \in DOMAIN models : modelJob' = [modelJob EXCEPT ![j] = looked(m, id)]
  BY DEF C!ImportReads
<1>4. CatalogJob(passed(m))
  <2>1. passed(m) \in ImportJobs /\ passed(m).updates = {}
    BY <1>1, <1>2 DEF ImportJobs
  <2>. HIDE DEF passed
  <2>. QED
    BY <2>1 DEF CatalogJob, ImportJobs
<1>5. ASSUME NEW id \in DOMAIN models PROVE CatalogJob(looked(m, id))
  <2>1. id \in Nat
    BY <1>2 DEF RowsHaveIds
  <2>2. C!Modified(id) \in SUBSET Nat /\ C!Chosen(j, id) \in SUBSET Nat
    BY <2>1 DEF C!Modified, C!Chosen
  <2>3. /\ looked(m, id) \in ImportJobs /\ looked(m, id).seen = C!Modified(id)
        /\ looked(m, id).updates = C!Chosen(j, id) /\ looked(m, id).overwrite = o.overwrite
    BY <1>2, <2>2 DEF ImportJobs
  <2>4. o.overwrite \/ C!Chosen(j, id) \cap C!Modified(id) = {}
    BY DEF C!Modified, C!Chosen, C!Skips
  <2>. HIDE DEF looked
  <2>. QED
    BY <2>3, <2>4 DEF CatalogJob, ImportJobs
<1>. HIDE DEF passed, looked
<1>6. RowsHaveIds'
  BY <1>1, <1>2, SameIds
<1>7. CatalogInv'
  BY <1>2, <1>3, <1>4, <1>5, <1>6, ChangeOfJob
<1>. QED
  BY <1>1, <1>7 DEF EditsKept, EditKept, Kept

LEMMA ImportWritesKeeps ==
  ASSUME CatalogInv, UNCHANGED modelRequests, NEW j \in Jobs, C!ImportWrites(j)
  PROVE  CatalogInv' /\ EditsKept
<1>1. UNCHANGED modelId /\ modelJob[j].op = "import"
  BY DEF C!ImportWrites
<1>2. /\ RowsHaveIds /\ modelRequests' \in Nat /\ DOMAIN modelJob = Jobs
      /\ modelJob[j] \in ImportJobs
      /\ modelJob[j].overwrite \/ modelJob[j].updates \cap modelJob[j].seen = {}
  BY <1>1 DEF CatalogInv, CatalogJob
<1>. DEFINE written == [modelJob[j] EXCEPT !.updates = {}]
<1>3. PICK one \in modelJob[j].updates, name \in {"id", "given"}, status \in C!Status :
        \/ /\ models' = [id \in DOMAIN models |->
                           IF id \in {one}
                           THEN [models[id] EXCEPT !.name = name, !.info = "user",
                                                   !.status = status, !.edited = TRUE]
                           ELSE models[id]]
           /\ modelJob' = [modelJob EXCEPT ![j] = written]
        \/ UNCHANGED models /\ modelJob' = [modelJob EXCEPT ![j] = C!Idle]
  BY DEF C!ImportWrites, C!Changed
<1>4. CASE UNCHANGED models /\ modelJob' = [modelJob EXCEPT ![j] = C!Idle]
  <2>1. CatalogInv'
    BY <1>1, <1>2, <1>4, IdleJob, SameIds, ChangeOfJob
  <2>. QED
    BY <1>4, <2>1 DEF EditsKept, EditKept, Kept
<1>5. CASE /\ models' = [id \in DOMAIN models |->
                           IF id \in {one}
                           THEN [models[id] EXCEPT !.name = name, !.info = "user",
                                                   !.status = status, !.edited = TRUE]
                           ELSE models[id]]
           /\ modelJob' = [modelJob EXCEPT ![j] = written]
  <2>1. written \in ImportJobs /\ written.updates = {}
    BY <1>2 DEF ImportJobs
  <2>2. CatalogJob(written)
    <3>. HIDE DEF written
    <3>. QED
      BY <2>1 DEF CatalogJob, ImportJobs
  <2>3. DOMAIN models' = DOMAIN models /\ RowsRemain
    BY <1>5 DEF RowsRemain
  <2>4. modelJob'[j] # modelJob[j]
    <3>1. modelJob'[j] = written
      BY <1>2, <1>5
    <3>. HIDE DEF written
    <3>. QED
      BY <2>1, <3>1
  <2>5. C!Overtakes(j, one)
    BY <1>1, <1>2, <2>4 DEF C!Overtakes
  <2>6. \A id \in DOMAIN models : id # one => models'[id] = models[id]
    BY <1>5
  <2>. HIDE DEF written
  <2>7. CatalogInv'
    BY <1>1, <1>2, <1>5, <2>2, <2>3, SameIds, ChangeOfJob
  <2>8. ASSUME NEW id \in DOMAIN models PROVE EditKept(id)
    <3>1. CASE id = one
      BY <2>5, <3>1 DEF EditKept
    <3>2. CASE id # one
      BY <2>6, <3>2 DEF EditKept, Kept
    <3>. QED
      BY <3>1, <3>2
  <2>. QED
    BY <2>3, <2>7, <2>8 DEF EditsKept
<1>. QED
  BY <1>3, <1>4, <1>5

LEMMA RouterReadsKeeps ==
  ASSUME CatalogInv, UNCHANGED modelRequests, NEW j \in Jobs, C!RouterReads(j)
  PROVE  CatalogInv' /\ EditsKept
<1>1. UNCHANGED <<models, modelId>> /\ modelJob[j].op = "router"
  BY DEF C!RouterReads, C!Tables
<1>2. /\ RowsHaveIds /\ modelRequests' \in Nat
      /\ modelJob[j] \in RouterJobs /\ LooksOnce(modelJob[j])
  BY <1>1 DEF CatalogInv, CatalogJob
<1>3. PICK id \in modelJob[j].todo :
        modelJob' = [modelJob EXCEPT ![j] =
           IF id \notin DOMAIN models THEN C!Idle
           ELSE [modelJob[j] EXCEPT
                   !.todo = modelJob[j].todo \ {id},
                   !.seen = modelJob[j].seen \cup (IF models[id].edited THEN {id} ELSE {}),
                   !.updates = modelJob[j].updates \cup (IF C!Skips(j, id) THEN {} ELSE {id})]]
  BY DEF C!RouterReads, C!Modified, C!Chosen
<1>. DEFINE o    == modelJob[j]
            seen == o.seen \cup (IF models[id].edited THEN {id} ELSE {})
            upd  == o.updates \cup (IF C!Skips(j, id) THEN {} ELSE {id})
            r    == [o EXCEPT !.todo = o.todo \ {id}, !.seen = seen, !.updates = upd]
<1>4. modelJob' = [modelJob EXCEPT ![j] = IF id \notin DOMAIN models THEN C!Idle ELSE r]
  BY <1>3
<1>5. CatalogJob(r)
  <2>1. id \in Nat /\ o.seen \subseteq Nat /\ o.updates \subseteq Nat /\ o.todo \subseteq Nat
    BY <1>2 DEF RouterJobs
  <2>2. seen \subseteq Nat /\ upd \subseteq Nat
    BY <2>1
  <2>3. r \in RouterJobs
    <3>. HIDE DEF seen, upd, o
    <3>. QED
      BY <1>2, <2>1, <2>2 DEF RouterJobs, o
  <2>4. /\ r.todo = o.todo \ {id} /\ r.seen = seen /\ r.updates = upd
        /\ r.overwrite = o.overwrite /\ r.op = "router"
    BY <1>2 DEF RouterJobs
  <2>5. o.overwrite \in BOOLEAN
    BY <1>2 DEF RouterJobs
  <2>6. CASE o.overwrite
    BY <2>3, <2>4, <2>6 DEF CatalogJob, LooksOnce
  <2>7. CASE ~o.overwrite
    <3>1. C!Skips(j, id) <=> models[id].edited
      BY <2>7 DEF C!Skips
    <3>2. o.updates \cap o.seen = {} /\ o.todo \cap (o.updates \cup o.seen) = {}
      BY <1>2, <2>7 DEF LooksOnce
    <3>3. upd \cap seen = {} /\ (o.todo \ {id}) \cap (upd \cup seen) = {}
      BY <3>1, <3>2
    <3>4. LooksOnce(r)
      BY <2>4, <3>3 DEF LooksOnce
    <3>. QED
      BY <2>3, <2>4, <3>4 DEF CatalogJob
  <2>. QED
    BY <2>5, <2>6, <2>7
<1>. HIDE DEF r
<1>6. CatalogJob(IF id \notin DOMAIN models THEN C!Idle ELSE r)
  BY <1>5, IdleJob
<1>7. RowsHaveIds'
  BY <1>1, <1>2, SameIds
<1>8. CatalogInv'
  BY <1>2, <1>4, <1>6, <1>7, ChangeOfJob
<1>. QED
  BY <1>1, <1>8 DEF EditsKept, EditKept, Kept

LEMMA RouterWritesKeeps ==
  ASSUME CatalogInv, UNCHANGED modelRequests, NEW j \in Jobs, C!RouterWrites(j)
  PROVE  CatalogInv' /\ EditsKept
<1>1. modelJob' = [modelJob EXCEPT ![j] = C!Idle] /\ UNCHANGED modelId /\ modelJob[j].op = "router"
  BY DEF C!RouterWrites
<1>2. /\ RowsHaveIds /\ modelRequests' \in Nat /\ DOMAIN modelJob = Jobs
      /\ modelJob[j] \in RouterJobs /\ LooksOnce(modelJob[j])
  BY <1>1 DEF CatalogInv, CatalogJob
<1>3. PICK new :
        \/ UNCHANGED models
        \/ /\ models' = [id \in DOMAIN models |->
                           IF id \in modelJob[j].updates THEN new[id] ELSE models[id]]
           /\ \A id \in DOMAIN models : DOMAIN new[id] = DOMAIN models[id]
  <2>1. CASE UNCHANGED models
    BY <2>1
  <2>2. CASE \E fields : models' = [id \in DOMAIN models |->
               IF id \in modelJob[j].updates
               THEN [models[id] EXCEPT !.name = IF "name" \in fields THEN "given" ELSE @,
                                       !.info = IF "info" \in fields THEN "router" ELSE @,
                                       !.edited = @ \/ fields # {}]
               ELSE models[id]]
    <3>1. PICK fields : models' = [id \in DOMAIN models |->
               IF id \in modelJob[j].updates
               THEN [models[id] EXCEPT !.name = IF "name" \in fields THEN "given" ELSE @,
                                       !.info = IF "info" \in fields THEN "router" ELSE @,
                                       !.edited = @ \/ fields # {}]
               ELSE models[id]]
      BY <2>2
    <3>2. \A id \in DOMAIN models : DOMAIN models'[id] = DOMAIN models[id]
      BY <3>1
    <3>3. models' = [id \in DOMAIN models |->
                       IF id \in modelJob[j].updates THEN models'[id] ELSE models[id]]
      BY <3>1
    <3>. QED
      BY <3>2, <3>3
  <2>. QED
    BY <2>1, <2>2 DEF C!RouterWrites, C!Changed
<1>4. DOMAIN models' = DOMAIN models /\ RowsRemain
  BY <1>3 DEF RowsRemain
<1>5. CatalogInv'
  BY <1>1, <1>2, <1>4, IdleJob, SameIds, ChangeOfJob
<1>6. modelJob'[j] # modelJob[j]
  BY <1>1, <1>2 DEF C!Idle
<1>7. ASSUME NEW id \in DOMAIN models PROVE EditKept(id)
  <2>1. CASE id \in modelJob[j].updates
    BY <1>1, <1>2, <1>6, <2>1 DEF LooksOnce, C!Overtakes, EditKept
  <2>2. CASE id \notin modelJob[j].updates
    BY <1>3, <2>2 DEF EditKept, Kept
  <2>. QED
    BY <2>1, <2>2
<1>. QED
  BY <1>4, <1>5, <1>7 DEF EditsKept

LEMMA RestartKeepsCatalog ==
  ASSUME CatalogInv, UNCHANGED modelRequests, C!Restart
  PROVE  CatalogInv' /\ EditsKept
<1>1. /\ models' = [id \in DOMAIN models |->
                      IF id \in DOMAIN models
                      THEN IF models[id].model \in presets /\ ~models[id].edited
                           THEN [models[id] EXCEPT !.info = "preset"] ELSE models[id]
                      ELSE models[id]]
      /\ modelJob' = [j \in Jobs |-> C!Idle] /\ UNCHANGED modelId
  BY DEF C!Restart, C!Changed
<1>2. RowsHaveIds /\ modelRequests' \in Nat
  BY DEF CatalogInv
<1>3. RowsHaveIds'
  BY <1>1, <1>2, SameIds DEF RowsRemain
<1>4. CatalogInv'
  BY <1>1, <1>2, <1>3, IdleJob DEF CatalogInv
<1>5. \A id \in DOMAIN models : models[id].edited => models'[id] = models[id]
  BY <1>1
<1>. QED
  BY <1>4, <1>5 DEF EditsKept, EditKept, Kept

LEMMA CatalogStep ==
  ASSUME CatalogInv, C!Next
  PROVE  CatalogInv' /\ (modelRequests' = modelRequests => EditsKept)
<1>1. CASE modelRequests' = modelRequests + 1 /\ C!Request
  <2>1. modelRequests' # modelRequests
    BY <1>1 DEF CatalogInv
  <2>. QED
    BY <1>1, <2>1, RequestKeepsCatalog
<1>2. CASE UNCHANGED modelRequests /\ C!Expire
  <2>1. UNCHANGED <<models, modelId, modelJob>>
    BY <1>2 DEF C!Expire, C!Tables
  <2>2. RowsHaveIds /\ modelRequests' \in Nat
    BY <1>2 DEF CatalogInv
  <2>3. CatalogInv'
    BY <2>1, <2>2, SameIds, NoChangeOfJob
  <2>. QED
    BY <2>1, <2>3 DEF EditsKept, EditKept, Kept
<1>3. CASE UNCHANGED modelRequests /\ C!Restart
  BY <1>3, RestartKeepsCatalog
<1>4. ASSUME UNCHANGED modelRequests, NEW j \in Jobs, C!Progress(j)
      PROVE  CatalogInv' /\ EditsKept
  BY <1>4, FillKeeps, SyncOneKeeps, EndSyncKeeps, ImportReadsKeeps, ImportWritesKeeps,
     EndImportKeeps, RouterReadsKeeps, RouterWritesKeeps DEF C!Progress
<1>. QED
  BY <1>1, <1>2, <1>3, <1>4 DEF C!Next

LEMMA CatalogFirst == ASSUME AdminInit PROVE CatalogInv
<1>1. models = <<>> /\ modelId = 1 /\ modelRequests = 0 /\ modelJob = [j \in Jobs |-> C!Idle]
  BY DEF AdminInit, C!Init
<1>2. DOMAIN models = {}
  BY <1>1
<1>3. RowsHaveIds
  BY <1>1, <1>2 DEF RowsHaveIds
<1>. QED
  BY <1>1, <1>3, IdleJob DEF CatalogInv

\* The other parts leave the catalog alone.
LEMMA CatalogAlways ==
  ASSUME CatalogInv, [AdminNext]_<<part, vars, library, catalog, virtual>>
  PROVE  CatalogInv' /\ [modelRequests' = modelRequests => EditsKept]_(C!vars)
<1>1. CASE C!Next
  BY <1>1, CatalogStep
<1>2. CASE UNCHANGED catalog
  <2>1. UNCHANGED <<models, modelId, modelJob, modelRequests>> /\ UNCHANGED C!vars
    BY <1>2 DEF catalog, C!vars, C!caches
  <2>2. CatalogInv'
    BY <2>1 DEF CatalogInv, RowsHaveIds
  <2>. QED
    BY <2>1, <2>2
<1>. QED
  BY <1>1, <1>2 DEF AdminNext

(***************************************************************************)
(* The metadata, the prices and the name that an administrator gave stay   *)
(* until another request replaces them, for any channels, models and jobs: *)
(* neither a synchronisation, nor the presets, nor a restart writes over   *)
(* them, but an import or a synchronisation with OpenRouter that was told  *)
(* to, or that looked at the row before it was edited.  A name that is the *)
(* id counts as none (Upsert, model.go:327-371; ImportJSON, 513-556;       *)
(* ApplyPresets; Sync, openrouter.go:114-173).                             *)
(***************************************************************************)
THEOREM EditsStay == AdminSpec => EditsSurvive
<1>1. [modelRequests' = modelRequests => EditsKept]_(C!vars)
        => [modelRequests' = modelRequests =>
              \A id \in DOMAIN models \cap DOMAIN models' :
                 models[id].edited =>
                    \/ /\ models'[id].info = models[id].info
                       /\ models[id].name = "given" => models'[id].name = "given"
                    \/ \E j \in Jobs : C!Overtakes(j, id)]_(C!vars)
  BY DEF EditsKept, EditKept, Kept
<1>. QED
  BY <1>1, CatalogFirst, CatalogAlways, PTL DEF AdminSpec, EditsSurvive, C!EditsSurvive

-----------------------------------------------------------------------------
(***************************************************************************)
(* The skill library (Skills).  Whatever holds an id, the table, the       *)
(* directories, the index, a combination, a cache or a request in          *)
(* progress, holds one that was given out before, but for combinations,    *)
(* which any id can be put into.                                           *)
(***************************************************************************)
Given == 1 .. skillId - 1

\* The ids that the stores of the library hold.
StoresHoldGiven ==
  /\ skillId \in Nat \ {0}
  /\ DOMAIN skills \subseteq Given
  /\ \A f \in disk : f.id \in Given
  /\ \A x \in index : x[1] \in Given
  /\ DOMAIN skillCache \subseteq Given /\ DOMAIN skillList.rows \subseteq Given

\* The ids that a request in progress has read.
SkillJob(r) ==
  r.op # "idle" => /\ {"op", "listed"} \subseteq DOMAIN r
                   /\ DOMAIN r.listed \subseteq Given

ItemsKnown == items \subseteq Given \cup named

SkillsInv ==
  /\ StoresHoldGiven /\ ItemsKnown
  /\ DOMAIN skillJob = Jobs /\ skillJob = [j \in Jobs |-> skillJob[j]]
  /\ \A j \in Jobs : SkillJob(skillJob[j])

\* A row that a step creates has the next id, and no id is given back.
NewIsNext == skillId' \in {skillId, skillId + 1} /\ DOMAIN skills' \subseteq DOMAIN skills \cup {skillId}

LEMMA GivenGrows ==
  ASSUME SkillsInv, NewIsNext
  PROVE  Given \subseteq Given'
BY DEF SkillsInv, StoresHoldGiven, NewIsNext, Given

LEMMA SkillJobsKept ==
  ASSUME SkillsInv, NewIsNext, StoresHoldGiven', ItemsKnown', UNCHANGED skillJob
  PROVE  SkillsInv'
BY GivenGrows DEF SkillsInv, SkillJob

LEMMA SkillJobChanged ==
  ASSUME SkillsInv, NewIsNext, StoresHoldGiven', ItemsKnown',
         NEW j \in Jobs, NEW r, SkillJob(r), skillJob' = [skillJob EXCEPT ![j] = r]
  PROVE  SkillsInv'
<1>1. Given \subseteq Given'
  BY GivenGrows
<1>2. \A i \in Jobs : SkillJob(skillJob'[i])
  BY DEF SkillsInv
<1>3. \A i \in Jobs : SkillJob(skillJob[i])'
  BY <1>1, <1>2 DEF SkillJob
<1>. QED
  BY <1>3 DEF SkillsInv

LEMMA IdleSkillJob == SkillJob(S!Idle)
BY DEF SkillJob, S!Idle

\* A job that begins with what it has listed.
LEMMA ListedSkills ==
  ASSUME SkillsInv, NEW r, "op" \in DOMAIN r, "listed" \in DOMAIN r,
         DOMAIN r.listed \subseteq DOMAIN skills \/ DOMAIN r.listed \subseteq DOMAIN skillList.rows
  PROVE  SkillJob(r)
BY DEF SkillJob, SkillsInv, StoresHoldGiven

\* Steps that leave the table, the directories and the index alone.
LEMMA StoresKept ==
  ASSUME SkillsInv, UNCHANGED <<skills, skillId, disk, index>>,
         DOMAIN skillCache' \subseteq Given, DOMAIN skillList'.rows \subseteq Given
  PROVE  NewIsNext /\ StoresHoldGiven' /\ Given' = Given
BY DEF SkillsInv, StoresHoldGiven, NewIsNext, Given

LEMMA CachesCleared ==
  ASSUME S!InvalidateSkillCache
  PROVE  DOMAIN skillCache' = {} /\ DOMAIN skillList'.rows = {}
BY DEF S!InvalidateSkillCache, S!NoRows

(***************************************************************************)
(* Writing a skill.                                                        *)
(***************************************************************************)
LEMMA FilesWritten ==
  ASSUME NEW files, NEW id, NEW name, NEW paths, NEW ver
  PROVE  \A f \in S!Written(files, id, name, paths, ver) : f \in files \/ f.id = id
BY DEF S!Written

LEMMA FilesRemoved ==
  ASSUME NEW files, NEW id, NEW name
  PROVE  S!Without(files, id, name) \subseteq files
BY DEF S!Without

LEMMA IndexWritten ==
  ASSUME NEW id, NEW paths, NEW new \in S!Indexes(id, paths)
  PROVE  \A x \in new : x \in index \/ x[1] = id
BY DEF S!Indexes, S!Unindexed

LEMMA ReplaceKeepsStores ==
  ASSUME SkillsInv, NEW id \in Given, NEW old, NEW row1, NEW paths, NEW ver,
         S!Replace(id, old, row1, paths, ver)
  PROVE  NewIsNext /\ StoresHoldGiven' /\ Given' = Given
<1>1. /\ skills' = S!Updated(id, row1) /\ skillId' = skillId
      /\ disk' = S!Written(S!Without(disk, id, old), id, row1.name, paths, ver)
      /\ index' \in S!Indexes(id, paths)
      /\ DOMAIN skillCache' = {} /\ DOMAIN skillList'.rows = {}
  BY CachesCleared DEF S!Replace
<1>2. DOMAIN skills' = DOMAIN skills
  BY <1>1 DEF S!Updated
<1>3. \A f \in disk' : f \in disk \/ f.id = id
  BY <1>1, FilesWritten, FilesRemoved
<1>4. \A x \in index' : x \in index \/ x[1] = id
  BY <1>1, IndexWritten
<1>. QED
  BY <1>1, <1>2, <1>3, <1>4 DEF SkillsInv, StoresHoldGiven, NewIsNext, Given

LEMMA ReplaceFailsKeepsStores ==
  ASSUME SkillsInv, NEW id \in Given, NEW old, NEW name, NEW some,
         S!ReplaceFails(id, old, name, some)
  PROVE  NewIsNext /\ StoresHoldGiven' /\ Given' = Given
<1>1. /\ disk' = S!Written(S!Without(disk, id, old), id, name, some, 0)
      /\ index' = S!Unindexed(id) /\ UNCHANGED <<skills, skillId, skillCache, skillList>>
  BY DEF S!ReplaceFails, S!caches
<1>2. \A f \in disk' : f \in disk \/ f.id = id
  BY <1>1, FilesWritten, FilesRemoved
<1>3. \A x \in index' : x \in index
  BY <1>1 DEF S!Unindexed
<1>. QED
  BY <1>1, <1>2, <1>3 DEF SkillsInv, StoresHoldGiven, NewIsNext, Given

LEMMA InsertKeepsStores ==
  ASSUME SkillsInv, NEW row1, NEW paths, NEW ver, S!Insert(row1, paths, ver)
  PROVE  NewIsNext /\ StoresHoldGiven' /\ Given' = Given \cup {skillId}
<1>1. /\ skills' = S!With(skills, skillId, row1) /\ skillId' = skillId + 1
      /\ disk' = S!Written(disk, skillId, row1.name, paths, ver)
      /\ index' \in S!Indexes(skillId, paths)
      /\ DOMAIN skillCache' = {} /\ DOMAIN skillList'.rows = {}
  BY CachesCleared DEF S!Insert, S!NewId
<1>2. DOMAIN skills' = DOMAIN skills \cup {skillId}
  BY <1>1 DEF S!With
<1>3. \A f \in disk' : f \in disk \/ f.id = skillId
  BY <1>1, FilesWritten
<1>4. \A x \in index' : x \in index \/ x[1] = skillId
  BY <1>1, IndexWritten
<1>5. Given' = Given \cup {skillId}
  BY <1>1 DEF Given, SkillsInv, StoresHoldGiven
<1>. QED
  BY <1>1, <1>2, <1>3, <1>4, <1>5 DEF SkillsInv, StoresHoldGiven, NewIsNext

LEMMA InsertFailsKeepsStores ==
  ASSUME SkillsInv, NEW name, NEW some, S!InsertFails(name, some)
  PROVE  NewIsNext /\ StoresHoldGiven' /\ Given' = Given \cup {skillId}
<1>1. /\ skillId' = skillId + 1 /\ UNCHANGED <<skills, index>>
      /\ disk' = S!Written(disk, skillId, name, some, 0)
      /\ DOMAIN skillCache' = {} /\ DOMAIN skillList'.rows = {}
  BY CachesCleared DEF S!InsertFails, S!NewId
<1>2. \A f \in disk' : f \in disk \/ f.id = skillId
  BY <1>1, FilesWritten
<1>3. Given' = Given \cup {skillId}
  BY <1>1 DEF Given, SkillsInv, StoresHoldGiven
<1>. QED
  BY <1>1, <1>2, <1>3 DEF SkillsInv, StoresHoldGiven, NewIsNext

\* After such a step an unchanged combination still holds ids that are known.
LEMMA ItemsKept ==
  ASSUME SkillsInv, NewIsNext, UNCHANGED <<items, named>>
  PROVE  ItemsKnown'
BY GivenGrows DEF SkillsInv, ItemsKnown

(***************************************************************************)
(* Requests that do not wait.                                              *)
(***************************************************************************)
LEMMA CreateKeepsSkills ==
  ASSUME SkillsInv, NEW name, NEW src, NEW paths, S!CreateSkill(name, src, paths)
  PROVE  SkillsInv' /\ NewIsNext
<1>1. UNCHANGED <<items, named, skillJob>>
  BY DEF S!CreateSkill, S!combination
<1>2. NewIsNext /\ StoresHoldGiven'
  BY InsertKeepsStores, InsertFailsKeepsStores DEF S!CreateSkill
<1>. QED
  BY <1>1, <1>2, ItemsKept, SkillJobsKept

LEMMA UpdateKeepsSkills ==
  ASSUME SkillsInv, NEW id, NEW row1, NEW sent \in BOOLEAN, NEW paths,
         S!UpdateSkill(id, row1, sent, paths)
  PROVE  SkillsInv' /\ NewIsNext
<1>1. UNCHANGED <<skillId, items, named, skillJob>>
  BY DEF S!UpdateSkill, S!combination
<1>2. id \in Given
  BY DEF S!UpdateSkill, S!Known, SkillsInv, StoresHoldGiven
<1>3. PICK moved : /\ moved \subseteq disk
                   /\ \/ /\ skills' = S!Updated(id, row1)
                         /\ \/ /\ disk' = S!Written(S!Without(moved, id, row1.name), id, row1.name, paths, 0)
                               /\ index' \in S!Indexes(id, paths)
                            \/ disk' = moved /\ UNCHANGED index
                         /\ S!InvalidateSkillCache
                      \/ /\ disk' = moved
                         /\ skillCache' = S!With(skillCache, id, S!ById(id))
                         /\ UNCHANGED <<skills, index, skillList>>
  <2>. DEFINE moved == IF row1.name # S!ById(id).name THEN S!Without(disk, id, S!ById(id).name) ELSE disk
  <2>1. moved \subseteq disk
    BY FilesRemoved
  <2>2. \/ /\ skills' = S!Updated(id, row1)
           /\ \/ /\ disk' = S!Written(S!Without(moved, id, row1.name), id, row1.name, paths, 0)
                 /\ index' \in S!Indexes(id, paths)
              \/ disk' = moved /\ UNCHANGED index
           /\ S!InvalidateSkillCache
        \/ /\ disk' = moved
           /\ skillCache' = S!With(skillCache, id, S!ById(id))
           /\ UNCHANGED <<skills, index, skillList>>
    BY DEF S!UpdateSkill
  <2>. HIDE DEF moved
  <2>. QED
    BY <2>1, <2>2
<1>4. \A f \in disk' : f \in disk \/ f.id = id
  BY <1>3, FilesWritten, FilesRemoved
<1>5. \A x \in index' : x \in index \/ x[1] = id
  BY <1>3, IndexWritten
<1>6. DOMAIN skills' = DOMAIN skills
  BY <1>3 DEF S!Updated
<1>7. DOMAIN skillCache' \subseteq DOMAIN skillCache \cup {id}
      /\ DOMAIN skillList'.rows \subseteq DOMAIN skillList.rows
  BY <1>3, CachesCleared DEF S!With
<1>8. NewIsNext /\ StoresHoldGiven'
  BY <1>1, <1>2, <1>4, <1>5, <1>6, <1>7 DEF SkillsInv, StoresHoldGiven, NewIsNext, Given
<1>. QED
  BY <1>1, <1>8, ItemsKept, SkillJobsKept

LEMMA DeleteKeepsSkills ==
  ASSUME SkillsInv, NEW id, S!DeleteSkill(id)
  PROVE  SkillsInv' /\ NewIsNext
<1>1. /\ UNCHANGED <<skillId, named, skillJob>> /\ disk' \subseteq disk
      /\ DOMAIN skills' \subseteq DOMAIN skills /\ index' \subseteq index /\ items' \subseteq items
  BY FilesRemoved DEF S!DeleteSkill, S!Restrict, S!Unindexed
<1>2. DOMAIN skillCache' = {} /\ DOMAIN skillList'.rows = {}
  BY CachesCleared DEF S!DeleteSkill
<1>3. NewIsNext /\ StoresHoldGiven' /\ ItemsKnown'
  BY <1>1, <1>2 DEF SkillsInv, StoresHoldGiven, NewIsNext, Given, ItemsKnown
<1>. QED
  BY <1>1, <1>3, SkillJobsKept

LEMMA UploadKeepsSkills ==
  ASSUME SkillsInv, NEW name, NEW paths, NEW broken, S!Upload(name, paths, broken)
  PROVE  SkillsInv' /\ NewIsNext
<1>1. UNCHANGED <<items, named, skillJob>>
  BY DEF S!Upload, S!combination
<1>. DEFINE r == [name |-> name, source |-> S!NoSource, tagged |-> FALSE, sha |-> 0]
<1>2. ASSUME NEW id \in DOMAIN S!Listed,
             \/ S!Replace(id, name, r, paths, 0)
             \/ \E some \in broken : S!ReplaceFails(id, name, name, some)
      PROVE  NewIsNext /\ StoresHoldGiven'
  <2>1. id \in Given
    BY DEF S!Listed, SkillsInv, StoresHoldGiven
  <2>. HIDE DEF r
  <2>. QED
    BY <1>2, <2>1, ReplaceKeepsStores, ReplaceFailsKeepsStores
<1>3. ASSUME S!Insert(r, paths, 0) \/ \E some \in broken : S!InsertFails(name, some)
      PROVE  NewIsNext /\ StoresHoldGiven'
  <2>. HIDE DEF r
  <2>. QED
    BY <1>3, InsertKeepsStores, InsertFailsKeepsStores
<1>4. NewIsNext /\ StoresHoldGiven'
  <2>1. \/ \E id \in DOMAIN S!Listed : \/ S!Replace(id, name, r, paths, 0)
                                       \/ \E some \in broken : S!ReplaceFails(id, name, name, some)
        \/ S!Insert(r, paths, 0)
        \/ \E some \in broken : S!InsertFails(name, some)
    BY DEF S!Upload
  <2>. HIDE DEF r
  <2>. QED
    BY <1>2, <1>3, <2>1
<1>. QED
  BY <1>1, <1>4, ItemsKept, SkillJobsKept

LEMMA CombineKeepsSkills ==
  ASSUME SkillsInv, S!EditCombination
  PROVE  SkillsInv' /\ NewIsNext
<1>1. UNCHANGED <<skills, skillId, disk, index, skillCache, skillList, skillJob>>
  BY DEF S!EditCombination, S!caches
<1>2. NewIsNext /\ StoresHoldGiven' /\ Given' = Given
  BY <1>1, StoresKept DEF SkillsInv, StoresHoldGiven
<1>3. ItemsKnown'
  <2>1. ItemsKnown /\ skillId \in Nat
    BY DEF SkillsInv, StoresHoldGiven
  <2>2. \A id \in S!Ids : id < skillId => id \in Given
    BY <2>1 DEF S!Ids, Given
  <2>3. CASE items' \in SUBSET items /\ UNCHANGED named
    BY <1>2, <2>1, <2>3 DEF ItemsKnown
  <2>4. ASSUME NEW id \in S!Ids, items' = items \cup {id},
               named' = IF id < skillId THEN named ELSE named \cup {id}
        PROVE  ItemsKnown'
    BY <1>2, <2>1, <2>2, <2>4 DEF ItemsKnown
  <2>. QED
    BY <2>3, <2>4 DEF S!EditCombination
<1>. QED
  BY <1>1, <1>2, <1>3, SkillJobsKept

(***************************************************************************)
(* Requests in progress.                                                   *)
(***************************************************************************)
LEMMA BeginReadKeepsSkills ==
  ASSUME SkillsInv, NEW j \in Jobs, S!BeginRead(j)
  PROVE  SkillsInv' /\ NewIsNext
<1>. DEFINE r == [op |-> "read", listed |-> skills]
<1>1. /\ skillJob' = [skillJob EXCEPT ![j] = r]
      /\ UNCHANGED <<skills, skillId, disk, index, skillCache, skillList, items, named>>
  BY DEF S!BeginRead, S!Begin, S!Unchanged, S!caches, S!combination
<1>2. SkillJob(r)
  BY ListedSkills
<1>3. NewIsNext /\ StoresHoldGiven'
  BY <1>1, StoresKept DEF SkillsInv, StoresHoldGiven
<1>. HIDE DEF r
<1>. QED
  BY <1>1, <1>2, <1>3, ItemsKept, SkillJobChanged

LEMMA EndReadKeepsSkills ==
  ASSUME SkillsInv, NEW j \in Jobs, S!EndRead(j)
  PROVE  SkillsInv' /\ NewIsNext
<1>1. /\ skillJob[j].op = "read" /\ skillJob' = [skillJob EXCEPT ![j] = S!Idle]
      /\ UNCHANGED <<skills, skillId, disk, index, items, named>>
  BY DEF S!EndRead, S!End, S!Unchanged, S!combination
<1>2. DOMAIN skillJob[j].listed \subseteq Given
  BY <1>1 DEF SkillsInv, SkillJob
<1>3. \/ skillList' = [cached |-> TRUE, rows |-> skillJob[j].listed] /\ UNCHANGED skillCache
      \/ /\ \E id \in DOMAIN skillJob[j].listed :
               skillCache' = S!With(skillCache, id, skillJob[j].listed[id])
         /\ UNCHANGED skillList
  BY DEF S!EndRead
<1>4. DOMAIN skillCache' \subseteq Given /\ DOMAIN skillList'.rows \subseteq Given
  <2>1. DOMAIN skillCache \subseteq Given /\ DOMAIN skillList.rows \subseteq Given
    BY DEF SkillsInv, StoresHoldGiven
  <2>2. CASE skillList' = [cached |-> TRUE, rows |-> skillJob[j].listed] /\ UNCHANGED skillCache
    BY <1>2, <2>1, <2>2
  <2>3. ASSUME NEW id \in DOMAIN skillJob[j].listed, UNCHANGED skillList,
               skillCache' = S!With(skillCache, id, skillJob[j].listed[id])
        PROVE  DOMAIN skillCache' \subseteq Given /\ DOMAIN skillList'.rows \subseteq Given
    BY <1>2, <2>1, <2>3 DEF S!With
  <2>. QED
    BY <1>3, <2>2, <2>3
<1>5. NewIsNext /\ StoresHoldGiven'
  BY <1>1, <1>4, StoresKept
<1>. QED
  BY <1>1, <1>5, IdleSkillJob, ItemsKept, SkillJobChanged

LEMMA ExpiryKeepsSkills ==
  ASSUME SkillsInv, S!CacheExpires
  PROVE  SkillsInv' /\ NewIsNext
<1>1. UNCHANGED <<skills, skillId, disk, index, items, named, skillJob>>
  BY DEF S!CacheExpires, S!Unchanged, S!combination
<1>2. DOMAIN skillCache' = {} /\ DOMAIN skillList'.rows = {}
  BY CachesCleared DEF S!CacheExpires
<1>3. NewIsNext /\ StoresHoldGiven'
  BY <1>1, <1>2, StoresKept
<1>. QED
  BY <1>1, <1>3, ItemsKept, SkillJobsKept

LEMMA BeginImportKeepsSkills ==
  ASSUME SkillsInv, NEW j \in Jobs, NEW s, S!BeginImport(j, s)
  PROVE  SkillsInv' /\ NewIsNext
<1>. DEFINE old == S!Restrict(S!Listed, {id \in DOMAIN S!Listed : S!Listed[id].source = s})
            r   == [op |-> "import", listed |-> old, source |-> s]
<1>1. /\ skillJob' = [skillJob EXCEPT ![j] = r]
      /\ UNCHANGED <<skills, skillId, disk, index, skillCache, skillList, items, named>>
  BY DEF S!BeginImport, S!Begin, S!Unchanged, S!caches, S!combination
<1>2. DOMAIN old \subseteq DOMAIN S!Listed
  BY DEF S!Restrict
<1>3. DOMAIN old \subseteq DOMAIN skills \/ DOMAIN old \subseteq DOMAIN skillList.rows
  <2>. HIDE DEF old
  <2>. QED
    BY <1>2 DEF S!Listed
<1>. HIDE DEF old
<1>4. SkillJob(r)
  BY <1>3, ListedSkills
<1>5. NewIsNext /\ StoresHoldGiven'
  BY <1>1, StoresKept DEF SkillsInv, StoresHoldGiven
<1>. HIDE DEF r
<1>. QED
  BY <1>1, <1>4, <1>5, ItemsKept, SkillJobChanged

LEMMA FetchKeepsSkills ==
  ASSUME SkillsInv, NEW j \in Jobs, S!FetchSkill(j)
  PROVE  SkillsInv' /\ NewIsNext
<1>1. skillJob[j].op = "import"
  BY DEF S!FetchSkill
<1>2. PICK f : skillJob' = [skillJob EXCEPT ![j] =
                              [op |-> "write", listed |-> skillJob[j].listed, found |-> f]]
  BY DEF S!FetchSkill
<1>3. UNCHANGED <<skills, skillId, disk, index, skillCache, skillList, items, named>>
  BY DEF S!FetchSkill, S!Unchanged, S!caches, S!combination
<1>. DEFINE r == [op |-> "write", listed |-> skillJob[j].listed, found |-> f]
<1>4. SkillJob(r)
  BY <1>1 DEF SkillsInv, SkillJob
<1>5. NewIsNext /\ StoresHoldGiven'
  BY <1>3, StoresKept DEF SkillsInv, StoresHoldGiven
<1>. HIDE DEF r
<1>6. skillJob' = [skillJob EXCEPT ![j] = r]
  BY <1>2 DEF r
<1>. QED
  BY <1>3, <1>4, <1>5, <1>6, ItemsKept, SkillJobChanged

LEMMA FinishImportKeepsSkills ==
  ASSUME SkillsInv, NEW j \in Jobs, S!FinishImport(j)
  PROVE  SkillsInv' /\ NewIsNext
<1>1. /\ skillJob[j].op = "write" /\ skillJob' = [skillJob EXCEPT ![j] = S!Idle]
      /\ UNCHANGED <<items, named>>
  BY DEF S!FinishImport, S!End, S!combination
<1>2. DOMAIN skillJob[j].listed \subseteq Given
  BY <1>1 DEF SkillsInv, SkillJob
<1>3. \E row1, f :
         \/ \E id \in DOMAIN skillJob[j].listed :
               \/ S!Replace(id, skillJob[j].listed[id].name, row1, f.paths, f.ver)
               \/ S!ReplaceFails(id, skillJob[j].listed[id].name, f.name, {})
         \/ S!Insert(row1, f.paths, f.ver) \/ S!InsertFails(f.name, {})
  BY DEF S!FinishImport
<1>4. NewIsNext /\ StoresHoldGiven'
  BY <1>2, <1>3, ReplaceKeepsStores, ReplaceFailsKeepsStores, InsertKeepsStores,
     InsertFailsKeepsStores
<1>. QED
  BY <1>1, <1>4, IdleSkillJob, ItemsKept, SkillJobChanged

LEMMA BeginImportRepoKeepsSkills ==
  ASSUME SkillsInv, NEW j \in Jobs, S!BeginImportRepo(j)
  PROVE  SkillsInv' /\ NewIsNext
<1>1. PICK found, sha, join : skillJob' = [skillJob EXCEPT ![j] =
          [op |-> "repo", listed |-> S!Tagged, found |-> found, sha |-> sha, join |-> join]]
  BY DEF S!BeginImportRepo, S!Begin
<1>2. UNCHANGED <<skills, skillId, disk, index, skillCache, skillList, items, named>>
  BY DEF S!BeginImportRepo, S!caches
<1>. DEFINE r == [op |-> "repo", listed |-> S!Tagged, found |-> found, sha |-> sha, join |-> join]
<1>3. DOMAIN S!Tagged \subseteq DOMAIN skills
  BY DEF S!Tagged, S!Restrict
<1>4. SkillJob(r)
  BY <1>3, ListedSkills
<1>5. NewIsNext /\ StoresHoldGiven'
  BY <1>2, StoresKept DEF SkillsInv, StoresHoldGiven
<1>6. skillJob' = [skillJob EXCEPT ![j] = r]
  BY <1>1
<1>. HIDE DEF r
<1>. QED
  BY <1>2, <1>4, <1>5, <1>6, ItemsKept, SkillJobChanged

LEMMA ImportOneKeepsSkills ==
  ASSUME SkillsInv, NEW j \in Jobs, S!ImportOne(j)
  PROVE  SkillsInv' /\ NewIsNext
<1>. DEFINE old == skillJob[j].listed
<1>1. skillJob[j].op = "repo"
  BY DEF S!ImportOne
<1>2. /\ {"op", "listed"} \subseteq DOMAIN skillJob[j] /\ DOMAIN old \subseteq Given
  BY <1>1 DEF SkillsInv, SkillJob
<1>3. PICK f \in skillJob[j].found :
        /\ \E row1 :
             \/ \E id \in DOMAIN old :
                  \/ /\ S!Replace(id, old[id].name, row1, f.paths, f.ver)
                     /\ items' \in {items, items \cup {id}}
                  \/ S!ReplaceFails(id, old[id].name, f.name, {}) /\ UNCHANGED items
             \/ /\ S!Insert(row1, f.paths, f.ver)
                /\ items' \in {items, items \cup {skillId}}
             \/ S!InsertFails(f.name, {}) /\ UNCHANGED items
        /\ skillJob' = [skillJob EXCEPT ![j] = IF skillJob[j].found = {f} THEN S!Idle
                           ELSE [skillJob[j] EXCEPT !.found = skillJob[j].found \ {f}]]
  BY DEF S!ImportOne, S!NewId
<1>. HIDE DEF old
<1>4. PICK row1 :
        \/ \E id \in DOMAIN old :
             \/ /\ S!Replace(id, old[id].name, row1, f.paths, f.ver)
                /\ items' \in {items, items \cup {id}}
             \/ S!ReplaceFails(id, old[id].name, f.name, {}) /\ UNCHANGED items
        \/ /\ S!Insert(row1, f.paths, f.ver)
           /\ items' \in {items, items \cup {skillId}}
        \/ S!InsertFails(f.name, {}) /\ UNCHANGED items
  BY <1>3
<1>5. ItemsKnown /\ UNCHANGED named
  BY DEF SkillsInv, S!ImportOne
<1>6. NewIsNext /\ StoresHoldGiven' /\ ItemsKnown'
  <2>1. ASSUME NEW id \in DOMAIN old, S!Replace(id, old[id].name, row1, f.paths, f.ver),
               items' \in {items, items \cup {id}}
        PROVE  NewIsNext /\ StoresHoldGiven' /\ ItemsKnown'
    <3>1. id \in Given
      BY <1>2 DEF old
    <3>2. NewIsNext /\ StoresHoldGiven' /\ Given' = Given
      BY <2>1, <3>1, ReplaceKeepsStores
    <3>. QED
      BY <1>5, <2>1, <3>1, <3>2 DEF ItemsKnown
  <2>2. ASSUME NEW id \in DOMAIN old, S!ReplaceFails(id, old[id].name, f.name, {}), UNCHANGED items
        PROVE  NewIsNext /\ StoresHoldGiven' /\ ItemsKnown'
    <3>1. id \in Given
      BY <1>2 DEF old
    <3>. QED
      BY <1>5, <2>2, <3>1, ReplaceFailsKeepsStores DEF ItemsKnown
  <2>3. ASSUME S!Insert(row1, f.paths, f.ver), items' \in {items, items \cup {skillId}}
        PROVE  NewIsNext /\ StoresHoldGiven' /\ ItemsKnown'
    <3>1. NewIsNext /\ StoresHoldGiven' /\ Given' = Given \cup {skillId}
      BY <2>3, InsertKeepsStores
    <3>. QED
      BY <1>5, <2>3, <3>1 DEF ItemsKnown
  <2>4. ASSUME S!InsertFails(f.name, {}), UNCHANGED items
        PROVE  NewIsNext /\ StoresHoldGiven' /\ ItemsKnown'
    <3>1. NewIsNext /\ StoresHoldGiven' /\ Given' = Given \cup {skillId}
      BY <2>4, InsertFailsKeepsStores
    <3>. QED
      BY <1>5, <2>4, <3>1 DEF ItemsKnown
  <2>. QED
    BY <1>4, <2>1, <2>2, <2>3, <2>4
<1>. DEFINE r == [skillJob[j] EXCEPT !.found = skillJob[j].found \ {f}]
<1>7. SkillJob(r)
  BY <1>2 DEF SkillJob, old
<1>. HIDE DEF r
<1>8. SkillJob(IF skillJob[j].found = {f} THEN S!Idle ELSE r)
  BY <1>7, IdleSkillJob
<1>9. skillJob' = [skillJob EXCEPT ![j] = IF skillJob[j].found = {f} THEN S!Idle ELSE r]
  BY <1>3 DEF r
<1>. QED
  BY <1>6, <1>8, <1>9, SkillJobChanged

LEMMA BeginSyncKeepsSkills ==
  ASSUME SkillsInv, NEW j \in Jobs, S!BeginSync(j)
  PROVE  SkillsInv' /\ NewIsNext
<1>1. PICK found : skillJob' = [skillJob EXCEPT ![j] =
                                 [op |-> "sync", listed |-> S!Tagged, found |-> found]]
  BY DEF S!BeginSync, S!Begin
<1>2. UNCHANGED <<skills, skillId, disk, index, skillCache, skillList, items, named>>
  BY DEF S!BeginSync, S!Unchanged, S!caches, S!combination
<1>. DEFINE r == [op |-> "sync", listed |-> S!Tagged, found |-> found]
<1>3. DOMAIN S!Tagged \subseteq DOMAIN skills
  BY DEF S!Tagged, S!Restrict
<1>4. SkillJob(r)
  BY <1>3, ListedSkills
<1>5. NewIsNext /\ StoresHoldGiven'
  BY <1>2, StoresKept DEF SkillsInv, StoresHoldGiven
<1>6. skillJob' = [skillJob EXCEPT ![j] = r]
  BY <1>1
<1>. HIDE DEF r
<1>. QED
  BY <1>2, <1>4, <1>5, <1>6, ItemsKept, SkillJobChanged

LEMMA SyncSkillKeepsSkills ==
  ASSUME SkillsInv, NEW j \in Jobs, S!SyncOne(j)
  PROVE  SkillsInv' /\ NewIsNext
<1>1. skillJob[j].op = "sync" /\ UNCHANGED <<skillId, items, named>>
  BY DEF S!SyncOne, S!combination
<1>2. /\ {"op", "listed"} \subseteq DOMAIN skillJob[j] /\ DOMAIN skillJob[j].listed \subseteq Given
  BY <1>1 DEF SkillsInv, SkillJob
<1>3. PICK f \in skillJob[j].found, id \in DOMAIN skillJob[j].listed :
        /\ \E row1 : skills' = S!Updated(id, row1)
        /\ \E old : disk' = S!Written(S!Without(disk, id, old), id, f.name, f.paths, f.ver)
        /\ index' \in S!Indexes(id, f.paths)
        /\ skillJob' = [skillJob EXCEPT ![j].found = @ \ {f}]
  BY DEF S!SyncOne
<1>4. DOMAIN skillCache' = {} /\ DOMAIN skillList'.rows = {}
  BY CachesCleared DEF S!SyncOne
<1>5. id \in Given
  BY <1>2
<1>6. DOMAIN skills' = DOMAIN skills
  BY <1>3 DEF S!Updated
<1>7. \A x \in disk' : x \in disk \/ x.id = id
  BY <1>3, FilesWritten, FilesRemoved
<1>8. \A x \in index' : x \in index \/ x[1] = id
  BY <1>3, IndexWritten
<1>9. NewIsNext /\ StoresHoldGiven'
  BY <1>1, <1>4, <1>5, <1>6, <1>7, <1>8 DEF SkillsInv, StoresHoldGiven, NewIsNext, Given
<1>. DEFINE r == [skillJob[j] EXCEPT !.found = skillJob[j].found \ {f}]
<1>10. SkillJob(r)
  BY <1>2 DEF SkillJob
<1>11. skillJob' = [skillJob EXCEPT ![j] = r]
  BY <1>3
<1>. HIDE DEF r
<1>. QED
  BY <1>1, <1>9, <1>10, <1>11, ItemsKept, SkillJobChanged

LEMMA FinishSyncKeepsSkills ==
  ASSUME SkillsInv, NEW j \in Jobs, S!FinishSync(j)
  PROVE  SkillsInv' /\ NewIsNext
<1>1. /\ skillJob' = [skillJob EXCEPT ![j] = S!Idle]
      /\ UNCHANGED <<skillId, disk, index, items, named>>
  BY DEF S!FinishSync, S!End, S!combination
<1>2. \/ DOMAIN skills' = DOMAIN skills /\ S!InvalidateSkillCache
      \/ UNCHANGED <<skills, skillCache, skillList>>
  BY DEF S!FinishSync, S!caches
<1>3. NewIsNext /\ StoresHoldGiven'
  BY <1>1, <1>2, CachesCleared DEF SkillsInv, StoresHoldGiven, NewIsNext, Given
<1>. QED
  BY <1>1, <1>3, IdleSkillJob, ItemsKept, SkillJobChanged

LEMMA GiveUpKeepsSkills ==
  ASSUME SkillsInv, NEW j \in Jobs, S!End(j), UNCHANGED S!caches, S!Unchanged
  PROVE  SkillsInv' /\ NewIsNext
<1>1. /\ skillJob' = [skillJob EXCEPT ![j] = S!Idle]
      /\ UNCHANGED <<skills, skillId, disk, index, skillCache, skillList, items, named>>
  BY DEF S!End, S!Unchanged, S!caches, S!combination
<1>2. NewIsNext /\ StoresHoldGiven'
  BY <1>1, StoresKept DEF SkillsInv, StoresHoldGiven
<1>. QED
  BY <1>1, <1>2, IdleSkillJob, ItemsKept, SkillJobChanged

LEMMA CommitKeepsSkills ==
  ASSUME SkillsInv, S!Commit
  PROVE  SkillsInv' /\ NewIsNext
<1>1. UNCHANGED <<skills, skillId, disk, index, skillCache, skillList, items, named, skillJob>>
  BY DEF S!Commit, S!caches, S!combination
<1>2. NewIsNext /\ StoresHoldGiven'
  BY <1>1, StoresKept DEF SkillsInv, StoresHoldGiven
<1>. QED
  BY <1>1, <1>2, ItemsKept, SkillJobsKept

LEMMA SkillsStep ==
  ASSUME SkillsInv, S!Next
  PROVE  SkillsInv' /\ NewIsNext
<1>1. CASE S!Edit
  <2>1. ASSUME NEW name, NEW paths, S!UploadSkill(name, paths) \/ S!UploadFolder(name, paths)
        PROVE  SkillsInv' /\ NewIsNext
    BY <2>1, UploadKeepsSkills DEF S!UploadSkill, S!UploadFolder
  <2>2. \/ \E name, src, paths : S!CreateSkill(name, src, paths)
        \/ \E id, row1, paths : \E sent \in BOOLEAN : S!UpdateSkill(id, row1, sent, paths)
        \/ \E name, paths : S!UploadSkill(name, paths) \/ S!UploadFolder(name, paths)
    <3>1. PICK n \in Names, ps \in SUBSET S!Paths :
            \/ \E s \in Sources \cup {S!NoSource} :
                  \/ S!CreateSkill(n, s, ps)
                  \/ \E id \in S!Ids, tagged, sent \in BOOLEAN :
                        S!UpdateSkill(id, [name |-> n, source |-> s, tagged |-> tagged,
                                           sha |-> 0], sent, ps)
            \/ ps # {} /\ (S!UploadSkill(n, ps) \/ S!UploadFolder(n, ps))
      BY <1>1 DEF S!Edit
    <3>. QED
      BY <3>1
  <2>. QED
    BY <2>1, <2>2, CreateKeepsSkills, UpdateKeepsSkills
<1>2. CASE S!Request
  BY <1>1, <1>2, DeleteKeepsSkills, CombineKeepsSkills, BeginReadKeepsSkills,
     BeginImportKeepsSkills, BeginImportRepoKeepsSkills, BeginSyncKeepsSkills DEF S!Request
<1>3. ASSUME NEW j \in Jobs, S!Progress(j) PROVE SkillsInv' /\ NewIsNext
  BY <1>3, EndReadKeepsSkills, FetchKeepsSkills, FinishImportKeepsSkills, ImportOneKeepsSkills,
     SyncSkillKeepsSkills, FinishSyncKeepsSkills, GiveUpKeepsSkills DEF S!Progress
<1>. QED
  BY <1>2, <1>3, ExpiryKeepsSkills, CommitKeepsSkills DEF S!Next

\* The ids that nothing holds yet include that of the next row.
LEMMA NextIdIsClean ==
  ASSUME SkillsInv, NewIsNext, NEW id \in DOMAIN skills' \ DOMAIN skills
  PROVE  /\ \A f \in disk : f.id # id
         /\ index = S!Unindexed(id)
         /\ id \in items => id \in named
         /\ id \notin DOMAIN skillCache
<1>1. id = skillId
  BY DEF NewIsNext
<1>2. id \notin Given
  BY <1>1 DEF Given, SkillsInv, StoresHoldGiven
<1>3. index = S!Unindexed(id)
  BY <1>2 DEF S!Unindexed, SkillsInv, StoresHoldGiven
<1>. QED
  BY <1>2, <1>3 DEF SkillsInv, StoresHoldGiven, ItemsKnown

LEMMA SkillsFirst == ASSUME AdminInit PROVE SkillsInv
<1>1. /\ skills = <<>> /\ skillId = 1 /\ disk = {} /\ index = {} /\ items = {}
      /\ skillCache = <<>> /\ skillList = S!NoRows /\ skillJob = [j \in Jobs |-> S!Idle]
  BY DEF AdminInit, S!Init
<1>2. DOMAIN skills = {} /\ DOMAIN skillCache = {} /\ DOMAIN skillList.rows = {}
  BY <1>1 DEF S!NoRows
<1>3. StoresHoldGiven
  BY <1>1, <1>2 DEF StoresHoldGiven
<1>. QED
  BY <1>1, <1>3, IdleSkillJob DEF SkillsInv, ItemsKnown

\* The other parts leave the library alone.
LEMMA SkillsAlways ==
  ASSUME SkillsInv, [AdminNext]_<<part, vars, library, catalog, virtual>>
  PROVE  SkillsInv' /\ NewIsNext
<1>1. CASE S!Next
  BY <1>1, SkillsStep
<1>2. CASE UNCHANGED library
  <2>1. UNCHANGED <<skills, skillId, disk, index, skillCache, skillList, items, named, skillJob>>
    BY <1>2 DEF library
  <2>2. NewIsNext /\ StoresHoldGiven'
    BY <2>1, StoresKept DEF SkillsInv, StoresHoldGiven
  <2>. QED
    BY <2>1, <2>2, ItemsKept, SkillJobsKept
<1>. QED
  BY <1>1, <1>2 DEF AdminNext

(***************************************************************************)
(* A skill that is created starts with no file, index entry or cached row  *)
(* of another one, and with no membership but one that was entered for its *)
(* id before, for any names, sources, files and jobs, although deletions,  *)
(* failures and crossing requests leave such things behind (skill.go,      *)
(* skill_fs.go, handler/skill.go, handler/skill_combination.go).           *)
(***************************************************************************)
THEOREM NothingInherited == AdminSpec => NeverInherits
<1>1. SkillsInv /\ NewIsNext
        => [\A id \in DOMAIN skills' \ DOMAIN skills :
              /\ \A f \in disk : f.id # id
              /\ index = S!Unindexed(id)
              /\ id \in items => id \in named
              /\ id \notin DOMAIN skillCache]_(S!vars)
  BY NextIdIsClean
<1>. QED
  BY <1>1, SkillsFirst, SkillsAlways, PTL DEF AdminSpec, NeverInherits, S!NeverInherits

-----------------------------------------------------------------------------
(***************************************************************************)
(* Virtual models (VirtualModel).  What ReplaceImages makes of the         *)
(* messages, and where the latest images of the user are.                  *)
(***************************************************************************)
Words == {"text", "image", "nested", "opaque", "blank"}

\* Messages as they come from a client.
IsMessages(ms) ==
  \E n \in Nat : /\ DOMAIN ms = 1 .. n
                 /\ \A i \in 1 .. n : /\ ms[i] \in [kind : V!Kinds, blocks : V!Contents]
                                      /\ DOMAIN ms[i].blocks \subseteq 1 .. 2
                                      /\ \A k \in DOMAIN ms[i].blocks : ms[i].blocks[k] \in Words

\* A set of natural numbers with a bound has a greatest element.
LEMMA GreatestOf ==
  ASSUME NEW n \in Nat, NEW T \in SUBSET (1 .. n), T # {}
  PROVE  V!Max(T) \in T /\ \A y \in T : y <= V!Max(T)
<1>. DEFINE D == {n - x : x \in T}
            R == {p \in Nat \X Nat : p[1] < p[2]}
<1>1. IsWellFoundedOn(R, Nat)
  <2>1. R = OpToRel(<, Nat)
    BY DEF OpToRel
  <2>. QED
    BY <2>1, NatLessThanWellFounded
<1>2. D \subseteq Nat /\ D # {}
  <2>1. \A x \in T : n - x \in Nat /\ n - x \in D
    OBVIOUS
  <2>2. D \subseteq Nat
    BY <2>1
  <2>3. PICK x \in T : TRUE
    OBVIOUS
  <2>. QED
    BY <2>1, <2>2, <2>3
<1>3. PICK d \in D : \A e \in D : ~ (<<e, d>> \in R)
  <2>. HIDE DEF D, R
  <2>. QED
    BY <1>1, <1>2, WFMin
<1>4. PICK x \in T : d = n - x
  OBVIOUS
<1>5. \A y \in T : x >= y
  <2>. SUFFICES ASSUME NEW y \in T PROVE x >= y
    OBVIOUS
  <2>1. n - y \in D /\ n - y \in Nat /\ d \in Nat
    BY <1>2
  <2>2. ~ (n - y < d)
    BY <1>3, <2>1
  <2>. QED
    BY <1>4, <2>1, <2>2
<1>6. V!Max(T) \in T /\ \A y \in T : V!Max(T) >= y
  BY <1>4, <1>5 DEF V!Max
<1>. QED
  BY <1>6

LEMMA CountOf ==
  /\ V!Cardinality({}) = 0
  /\ \A x : V!Cardinality({x}) = 1
  /\ V!Cardinality({1, 2}) = 2
<1>1. \A T : V!Cardinality(T) = Cardinality(T)
  BY DEF V!Cardinality, Cardinality
<1>2. Cardinality({}) = 0
  BY FS_EmptySet
<1>3. \A x : Cardinality({x}) = 1 /\ IsFiniteSet({x})
  BY FS_Singleton
<1>4. Cardinality({1} \cup {2}) = Cardinality({1}) + 1
  <2>1. Cardinality({1} \cup {2}) = IF 2 \in {1} THEN Cardinality({1}) ELSE Cardinality({1}) + 1
    BY <1>3, FS_AddElement
  <2>. QED
    BY <2>1
<1>5. {1} \cup {2} = {1, 2}
  OBVIOUS
<1>6. Cardinality({1, 2}) = 2
  <2>1. Cardinality({1}) = 1
    BY <1>3
  <2>2. Cardinality({1} \cup {2}) = 2
    BY <2>1, <1>4
  <2>. QED
    BY <2>2, <1>5
<1>. QED
  BY <1>1, <1>2, <1>3, <1>6

\* Which one a block is among those that are replaced; the first has rank 1.
Rank(K, k) == V!Cardinality({h \in K : h <= k})

LEMMA RankOf ==
  ASSUME NEW K \in SUBSET (1 .. 2), NEW first \in K, \A h \in K : first <= h
  PROVE  /\ Rank(K, first) = 1
         /\ \A k \in K : k # first => Rank(K, k) = 2
<1>1. {h \in K : h <= first} = {first}
  <2>1. \A h \in K : h <= first <=> h = first
    OBVIOUS
  <2>. QED
    BY <2>1
<1>2. ASSUME NEW k \in K, k # first PROVE {h \in K : h <= k} = {1, 2}
  <2>1. first = 1 /\ k = 2
    BY <1>2
  <2>2. \A h : h \in K => h = 1 \/ h = 2
    OBVIOUS
  <2>3. \A h : (h \in K /\ h <= k) <=> (h = 1 \/ h = 2)
    BY <2>1, <2>2
  <2>. QED
    BY <2>3
<1>. QED
  BY <1>1, <1>2, CountOf DEF Rank

LEMMA Readable ==
  ASSUME NEW p
  PROVE  /\ V!Extracted(p) \subseteq V!Replaceable(p) /\ "text" \notin V!Replaceable(p)
         /\ "nested" \notin V!Replaceable(p)
         /\ "image" \in V!Replaceable(p) /\ (p # "openai" => "blank" \in V!Replaceable(p))
BY DEF V!Extracted, V!Replaceable

\* The latest images of a user are no later than the last ones of all.
LEMMA LatestBeforeLast ==
  ASSUME NEW p, NEW ms, IsMessages(ms), V!Latest(p, ms) # 0
  PROVE  LET w == V!LastWith(p, ms)
         IN /\ w \in DOMAIN ms /\ V!Latest(p, ms) <= w
            /\ V!Indexes(ms[w], V!Replaceable(p)) # {}
            /\ V!Latest(p, ms) \in DOMAIN ms
<1>1. PICK n \in Nat : DOMAIN ms = 1 .. n
  BY DEF IsMessages
<1>. DEFINE shown == {i \in DOMAIN ms : ms[i].kind = "user" /\ V!Indexes(ms[i], V!Extracted(p)) # {}}
            found == {i \in DOMAIN ms : V!Indexes(ms[i], V!Replaceable(p)) # {}}
<1>2. shown # {} /\ V!Latest(p, ms) = V!Max(shown)
  BY DEF V!Latest
<1>3. shown \subseteq found
  BY Readable DEF V!Indexes
<1>4. shown \in SUBSET (1 .. n) /\ found \in SUBSET (1 .. n) /\ found # {}
  BY <1>1, <1>2, <1>3
<1>5. V!Max(shown) \in shown
  <2>. HIDE DEF shown
  <2>. QED
    BY <1>2, <1>4, GreatestOf
<1>6. V!Max(found) \in found /\ \A y \in found : y <= V!Max(found)
  <2>. HIDE DEF found
  <2>. QED
    BY <1>4, GreatestOf
<1>. QED
  BY <1>2, <1>3, <1>5, <1>6 DEF V!LastWith

\* Each block, after the images were replaced by the descriptions.
BlockAfter(p, ms, ds, i, k) ==
  IF ms[i].blocks[k] \notin V!Replaceable(p) THEN ms[i].blocks[k]
  ELSE LET rank == Rank(V!Indexes(ms[i], V!Replaceable(p)), k)
       IN IF i = V!LastWith(p, ms) /\ rank <= Len(ds) THEN ds[rank] ELSE "placeholder"
BlocksAfter(p, ms, ds, i) == [k \in DOMAIN ms[i].blocks |-> BlockAfter(p, ms, ds, i, k)]

LEMMA Replaced ==
  ASSUME NEW p, NEW ms, IsMessages(ms), NEW ds, NEW i \in DOMAIN ms
  PROVE  V!ReplaceImages(p, ms, ds)[i].blocks = BlocksAfter(p, ms, ds, i)
<1>1. ms[i] \in [kind : V!Kinds, blocks : V!Contents]
  BY DEF IsMessages
<1>2. V!ReplaceImages(p, ms, ds)[i] = [ms[i] EXCEPT !.blocks = BlocksAfter(p, ms, ds, i)]
  BY DEF V!ReplaceImages, BlockAfter, BlocksAfter, Rank
<1>. QED
  BY <1>1, <1>2

LEMMA FewImages ==
  ASSUME NEW ms, IsMessages(ms), NEW i \in DOMAIN ms, NEW types
  PROVE  V!Indexes(ms[i], types) \in SUBSET (1 .. 2)
BY DEF IsMessages, V!Indexes

\* Without descriptions every image becomes a placeholder.
LEMMA NoAnswer ==
  ASSUME NEW p, NEW ms, IsMessages(ms), NEW ds, ds = <<>>,
         NEW after, after = V!ReplaceImages(p, ms, ds)
  PROVE  /\ DOMAIN after = DOMAIN ms
         /\ \A i \in DOMAIN ms : DOMAIN after[i].blocks = DOMAIN ms[i].blocks
         /\ \A i \in DOMAIN ms : \A k \in DOMAIN ms[i].blocks :
              after[i].blocks[k] = IF ms[i].blocks[k] \notin V!Replaceable(p)
                                   THEN ms[i].blocks[k] ELSE "placeholder"
<1>1. ASSUME NEW i \in DOMAIN ms
      PROVE  /\ DOMAIN after[i].blocks = DOMAIN ms[i].blocks
             /\ \A k \in DOMAIN ms[i].blocks :
                  after[i].blocks[k] = IF ms[i].blocks[k] \notin V!Replaceable(p)
                                       THEN ms[i].blocks[k] ELSE "placeholder"
  <2>. DEFINE K == V!Indexes(ms[i], V!Replaceable(p))
  <2>1. /\ DOMAIN after[i].blocks = DOMAIN ms[i].blocks
        /\ K \in SUBSET (1 .. 2)
        /\ \A k \in DOMAIN ms[i].blocks :
             after[i].blocks[k] = IF ms[i].blocks[k] \notin V!Replaceable(p) THEN ms[i].blocks[k]
                                  ELSE IF i = V!LastWith(p, ms) /\ Rank(K, k) <= Len(ds)
                                       THEN ds[Rank(K, k)] ELSE "placeholder"
    <3>1. V!ReplaceImages(p, ms, ds)[i].blocks = BlocksAfter(p, ms, ds, i)
      BY Replaced
    <3>2. V!Indexes(ms[i], V!Replaceable(p)) \in SUBSET (1 .. 2)
      BY FewImages
    <3>. QED
      BY <3>1, <3>2 DEF BlockAfter, BlocksAfter
  <2>2. \A k \in DOMAIN ms[i].blocks : ms[i].blocks[k] \in V!Replaceable(p) => k \in K
    BY DEF V!Indexes
  <2>. HIDE DEF K
  <2>3. \A k \in K : Rank(K, k) \in {1, 2}
    <3>. SUFFICES ASSUME NEW k \in K PROVE Rank(K, k) \in {1, 2}
      OBVIOUS
    <3>1. PICK first \in K : \A h \in K : first <= h
      BY <2>1
    <3>. QED
      BY <2>1, <3>1, RankOf
  <2>4. Len(ds) = 0
    OBVIOUS
  <2>5. \A k \in K : ~(Rank(K, k) <= Len(ds))
    BY <2>3, <2>4
  <2>. QED
    BY <2>1, <2>2, <2>5
<1>2. DOMAIN after = DOMAIN ms
  BY DEF V!ReplaceImages
<1>. QED
  BY <1>1, <1>2

\* A single answer takes the place of the first of the last images.
LEMMA OneAnswerTold ==
  ASSUME NEW p, NEW ms, IsMessages(ms), V!Latest(p, ms) # 0, NEW t,
         NEW ds, ds = <<t>>, NEW after, after = V!ReplaceImages(p, ms, ds), NEW w, w = V!LastWith(p, ms)
  PROVE  /\ DOMAIN after = DOMAIN ms /\ w \in DOMAIN ms
         /\ \A i \in DOMAIN ms : DOMAIN after[i].blocks = DOMAIN ms[i].blocks
         /\ \E first \in DOMAIN ms[w].blocks :
              /\ first \in 1 .. 2 /\ ms[w].blocks[first] \in V!Replaceable(p)
              /\ after[w].blocks[first] = t
              /\ \A i \in DOMAIN ms : \A k \in DOMAIN ms[i].blocks : <<i, k>> # <<w, first>> =>
                   after[i].blocks[k] = IF ms[i].blocks[k] \notin V!Replaceable(p)
                                        THEN ms[i].blocks[k] ELSE "placeholder"
<1>. DEFINE K(i)  == V!Indexes(ms[i], V!Replaceable(p))
<1>1. ASSUME NEW i \in DOMAIN ms
      PROVE  /\ K(i) \in SUBSET (1 .. 2) /\ DOMAIN after[i].blocks = DOMAIN ms[i].blocks
             /\ \A k \in DOMAIN ms[i].blocks :
                  after[i].blocks[k] = IF ms[i].blocks[k] \notin V!Replaceable(p) THEN ms[i].blocks[k]
                                       ELSE IF i = w /\ Rank(K(i), k) <= Len(ds)
                                            THEN ds[Rank(K(i), k)] ELSE "placeholder"
  <2>1. V!ReplaceImages(p, ms, ds)[i].blocks = BlocksAfter(p, ms, ds, i)
    BY Replaced
  <2>2. V!Indexes(ms[i], V!Replaceable(p)) \in SUBSET (1 .. 2)
    BY FewImages
  <2>. QED
    BY <2>1, <2>2 DEF BlockAfter, BlocksAfter
<1>2. DOMAIN after = DOMAIN ms
  BY DEF V!ReplaceImages
<1>3. w \in DOMAIN ms /\ K(w) # {} /\ K(w) \in SUBSET (1 .. 2)
  BY <1>1, LatestBeforeLast
<1>4. PICK first \in K(w) : \A h \in K(w) : first <= h
  <2>. HIDE DEF K
  <2>1. CASE 1 \in K(w)
    BY <1>3, <2>1
  <2>2. CASE 1 \notin K(w)
    <3>1. PICK f \in K(w) : TRUE
      BY <1>3
    <3>2. \A h \in K(w) : h = 2
      BY <1>3, <2>2
    <3>. QED
      BY <3>1, <3>2
  <2>. QED
    BY <2>1, <2>2
<1>5. Rank(K(w), first) = 1 /\ \A k \in K(w) : k # first => Rank(K(w), k) = 2
  <2>. DEFINE T == K(w)
  <2>1. T \in SUBSET (1 .. 2) /\ first \in T /\ \A h \in T : first <= h
    BY <1>3, <1>4
  <2>2. /\ Rank(T, first) = 1
        /\ \A k \in T : k # first => Rank(T, k) = 2
    <3>. HIDE DEF T
    <3>. QED
      BY <2>1, RankOf
  <2>. QED
    BY <2>2
<1>6. \A i \in DOMAIN ms : \A k : k \in K(i) <=> /\ k \in DOMAIN ms[i].blocks
                                                 /\ ms[i].blocks[k] \in V!Replaceable(p)
  BY DEF V!Indexes
<1>7. Len(ds) = 1 /\ ds[1] = t
  OBVIOUS
<1>. HIDE DEF K
<1>8. after[w].blocks[first] = t
  BY <1>1, <1>3, <1>4, <1>5, <1>6, <1>7
<1>9. ASSUME NEW i \in DOMAIN ms, NEW k \in DOMAIN ms[i].blocks, <<i, k>> # <<w, first>>
      PROVE  after[i].blocks[k] = IF ms[i].blocks[k] \notin V!Replaceable(p)
                                  THEN ms[i].blocks[k] ELSE "placeholder"
  <2>1. CASE ms[i].blocks[k] \in V!Replaceable(p) /\ i = w
    <3>1. k \in K(w) /\ k # first
      BY <1>6, <1>9, <2>1
    <3>2. Rank(K(w), k) = 2
      BY <1>5, <3>1
    <3>. QED
      BY <1>1, <1>7, <2>1, <3>2
  <2>2. CASE ms[i].blocks[k] \notin V!Replaceable(p) \/ i # w
    BY <1>1, <2>2
  <2>. QED
    BY <2>1, <2>2
<1>10. first \in DOMAIN ms[w].blocks /\ first \in 1 .. 2 /\ ms[w].blocks[first] \in V!Replaceable(p)
  BY <1>3, <1>4, <1>6
<1>. QED
  BY <1>1, <1>2, <1>3, <1>8, <1>9, <1>10

(***************************************************************************)
(* Transform.  Nothing of the request changes while it is served, and what *)
(* the main model gets is one of two replacements of its images.           *)
(***************************************************************************)
TheLatest == V!Latest(request.protocol, request.messages)
Told      == IF answer = "description" THEN answer ELSE "failure"
Replacing(ds) == result = V!Body("main", V!ReplaceImages(request.protocol, request.messages, ds))

RequestOK ==
  /\ IsMessages(request.messages)
  /\ request.protocol # "anthropic" =>
       \A i \in DOMAIN request.messages : \A k \in DOMAIN request.messages[i].blocks :
         request.messages[i].blocks[k] # "blank"

\* What was sent to the main model when there were new images and a vision model.
SentOK ==
  V!Sent /\ vm # V!NoRow /\ vm.vision /\ TheLatest # 0 =>
    \/ ~V!Usable /\ answer = "none" /\ Replacing(<<>>)
    \/ V!Usable /\ Replacing(<<Told>>)

VirtualInv ==
  /\ RequestOK
  /\ answer \in {"none", "description"}
  /\ calls = [made |-> calls.made, recorded |-> calls.recorded] /\ calls.recorded \in Nat
  /\ answer = "description" => calls.recorded > 0
  /\ phase \in {"match", "transform"} => vm = V!NoRow
  /\ phase \in {"match", "transform", "images"} => answer = "none"
  /\ phase = "describe" => TheLatest # 0 /\ V!Usable
  /\ phase = "done" => SentOK

\* The request is served, or only the tables change.
LEMMA SameRequest ==
  ASSUME UNCHANGED request
  PROVE  (RequestOK => RequestOK') /\ TheLatest' = TheLatest /\ V!Usable' = V!Usable
BY DEF RequestOK, TheLatest, V!Usable

\* A step that ends Transform without having asked a vision model.
LEMMA EndedEarly ==
  ASSUME VirtualInv, phase \in {"match", "transform", "images"}, V!Request, NEW r, V!End(r),
         \/ vm = V!NoRow \/ TheLatest = 0 \/ ~vm.vision \/ r = V!Error
         \/ ~V!Usable /\ r = V!Body("main", V!ReplaceImages(request.protocol, request.messages, <<>>))
  PROVE  VirtualInv'
<1>1. /\ UNCHANGED <<request, vm, answer, calls>> /\ phase' = "done" /\ result' = r
      /\ answer = "none"
  BY DEF VirtualInv, V!Request, V!End
<1>2. RequestOK' /\ TheLatest' = TheLatest /\ V!Usable' = V!Usable
  BY <1>1, SameRequest DEF VirtualInv
<1>3. SentOK'
  <2>1. CASE vm = V!NoRow \/ TheLatest = 0 \/ ~vm.vision
    BY <1>1, <1>2, <2>1 DEF SentOK
  <2>2. CASE r = V!Error
    BY <1>1, <2>2 DEF SentOK, V!Sent, V!Error
  <2>3. CASE ~V!Usable /\ r = V!Body("main", V!ReplaceImages(request.protocol, request.messages, <<>>))
    BY <1>1, <1>2, <2>3 DEF SentOK, Replacing
  <2>. QED
    BY <2>1, <2>2, <2>3
<1>. QED
  BY <1>1, <1>2, <1>3 DEF VirtualInv

LEMMA MatchKeeps == ASSUME VirtualInv, V!Match PROVE VirtualInv'
<1>1. CASE vmRow = V!NoRow
  BY <1>1, EndedEarly DEF V!Match, VirtualInv
<1>2. CASE vmRow # V!NoRow
  <2>1. UNCHANGED <<request, vm, answer, calls>> /\ phase = "match" /\ phase' = "transform"
    BY <1>2 DEF V!Match, V!Request
  <2>2. RequestOK'
    BY <2>1, SameRequest DEF VirtualInv
  <2>. QED
    BY <2>1, <2>2 DEF VirtualInv
<1>. QED
  BY <1>1, <1>2

LEMMA TransformKeeps == ASSUME VirtualInv, V!Transform PROVE VirtualInv'
<1>1. V!Request /\ phase = "transform" /\ vm = V!NoRow /\ answer = "none"
  BY DEF V!Transform, VirtualInv
<1>2. CASE \E r : V!End(r)
  BY <1>1, <1>2, EndedEarly
<1>3. CASE phase' = "images" /\ UNCHANGED <<left, answer, calls, preface, result>>
  <2>1. RequestOK'
    BY <1>1, SameRequest DEF VirtualInv, V!Request
  <2>. QED
    BY <1>1, <1>3, <2>1 DEF VirtualInv
<1>. QED
  BY <1>2, <1>3 DEF V!Transform

LEMMA ImagesKeeps == ASSUME VirtualInv, V!Images PROVE VirtualInv'
<1>. DEFINE p  == request.protocol
            ms == request.messages
            described == V!Body("main", V!ReplaceImages(p, ms, <<>>))
<1>1. V!Request /\ phase = "images" /\ answer = "none"
  BY DEF V!Images, VirtualInv
<1>2. \/ TheLatest = 0 /\ V!End(V!Body("main", ms))
      \/ TheLatest # 0 /\ ~vm.vision /\ (V!End(V!Body("main", ms)) \/ V!End(V!Error))
      \/ ~V!Usable /\ V!End(described)
      \/ V!End(V!Error)
      \/ /\ TheLatest # 0 /\ V!Usable
         /\ phase' = "describe" /\ UNCHANGED <<vm, answer, calls, result>>
  BY DEF V!Images, TheLatest
<1>3. CASE TheLatest = 0 /\ V!End(V!Body("main", ms))
  BY <1>1, <1>3, EndedEarly
<1>4. CASE TheLatest # 0 /\ ~vm.vision /\ (V!End(V!Body("main", ms)) \/ V!End(V!Error))
  BY <1>1, <1>4, EndedEarly
<1>5. CASE ~V!Usable /\ V!End(described)
  BY <1>1, <1>5, EndedEarly
<1>6. CASE V!End(V!Error)
  BY <1>1, <1>6, EndedEarly
<1>7. CASE /\ TheLatest # 0 /\ V!Usable
           /\ phase' = "describe" /\ UNCHANGED <<vm, answer, calls, result>>
  <2>1. RequestOK' /\ TheLatest' = TheLatest /\ V!Usable' = V!Usable
    BY <1>1, SameRequest DEF VirtualInv, V!Request
  <2>. QED
    BY <1>1, <1>7, <2>1 DEF VirtualInv
<1>. QED
  BY <1>2, <1>3, <1>4, <1>5, <1>6, <1>7

LEMMA AskKeeps == ASSUME VirtualInv, V!Ask PROVE VirtualInv'
<1>1. /\ phase = "describe" /\ answer = "none" /\ UNCHANGED <<request, vm, phase>>
      /\ calls.recorded \in Nat
  BY DEF V!Ask, V!Request, VirtualInv
<1>2. PICK outcome \in V!Outcomes :
        /\ calls' = [made     |-> calls.made + (IF outcome = "skipped" THEN 0 ELSE 1),
                     recorded |-> calls.recorded + (IF V!Recorded(outcome) THEN 1 ELSE 0)]
        /\ answer' = IF outcome = "text" THEN "description" ELSE "none"
  BY DEF V!Ask
<1>3. /\ calls' = [made |-> calls'.made, recorded |-> calls'.recorded]
      /\ calls'.recorded = calls.recorded + (IF V!Recorded(outcome) THEN 1 ELSE 0)
  BY <1>2
<1>4. calls'.recorded \in Nat /\ (answer' = "description" => calls'.recorded > 0)
  BY <1>1, <1>2, <1>3 DEF V!Recorded
<1>5. RequestOK' /\ TheLatest' = TheLatest /\ V!Usable' = V!Usable
  BY <1>1, SameRequest DEF VirtualInv
<1>. QED
  BY <1>1, <1>2, <1>3, <1>4, <1>5 DEF VirtualInv

LEMMA DescribeKeeps == ASSUME VirtualInv, V!Describe PROVE VirtualInv'
<1>1. /\ phase = "describe" /\ UNCHANGED <<request, vm, answer, calls>> /\ phase' = "done"
      /\ result' = V!Body("main", V!ReplaceImages(request.protocol, request.messages, <<Told>>))
  BY DEF V!Describe, V!Request, V!End, Told
<1>2. RequestOK' /\ TheLatest' = TheLatest /\ V!Usable' = V!Usable
  BY <1>1, SameRequest DEF VirtualInv
<1>3. SentOK'
  <2>1. Told' = Told /\ V!Usable'
    BY <1>1, <1>2 DEF Told, VirtualInv
  <2>. QED
    BY <1>1, <2>1 DEF SentOK, Replacing
<1>. QED
  BY <1>1, <1>2, <1>3 DEF VirtualInv

LEMMA VirtualUnchanged ==
  ASSUME VirtualInv, UNCHANGED <<request, vm, phase, answer, calls, result>>
  PROVE  VirtualInv'
<1>1. RequestOK' /\ TheLatest' = TheLatest /\ V!Usable' = V!Usable
  BY SameRequest DEF VirtualInv
<1>2. SentOK' = SentOK
  BY <1>1 DEF SentOK, V!Sent, Replacing, Told
<1>. QED
  BY <1>1, <1>2 DEF VirtualInv

LEMMA VirtualStep == ASSUME VirtualInv, [AdminNext]_<<part, vars, library, catalog, virtual>> PROVE VirtualInv'
<1>1. CASE V!Next
  <2>1. CASE V!EditRow \/ V!EditModel
    BY <2>1, VirtualUnchanged DEF V!EditRow, V!EditModel
  <2>2. CASE V!Serve
    BY <2>2, MatchKeeps, TransformKeeps, ImagesKeeps, AskKeeps, DescribeKeeps DEF V!Serve
  <2>. QED
    BY <1>1, <2>1, <2>2 DEF V!Next
<1>2. CASE UNCHANGED virtual
  BY <1>2, VirtualUnchanged DEF virtual
<1>. QED
  BY <1>1, <1>2 DEF AdminNext

LEMMA VirtualInit == ASSUME AdminInit PROVE VirtualInv
<1>1. CASE part = "virtual"
  <2>1. V!Init
    BY <1>1 DEF AdminInit
  <2>2. /\ vm = V!NoRow /\ phase = "match" /\ answer = "none"
        /\ calls = [made |-> 0, recorded |-> 0]
    BY <2>1 DEF V!Init
  <2>3. PICK n \in 1 .. MaxMessages :
          request \in [protocol : Protocols, stream : BOOLEAN, messages : [1 .. n -> V!Messages]]
    BY <2>1 DEF V!Init
  <2>4. IsMessages(request.messages)
    <3>1. DOMAIN request.messages = 1 .. n /\ n \in Nat
      BY <2>3
    <3>2. ASSUME NEW i \in 1 .. n
          PROVE  /\ request.messages[i] \in [kind : V!Kinds, blocks : V!Contents]
                 /\ request.messages[i].blocks \in V!Contents
      BY <2>3 DEF V!Messages
    <3>3. ASSUME NEW c \in V!Contents
          PROVE  DOMAIN c \subseteq 1 .. 2 /\ \A k \in DOMAIN c : c[k] \in Words
      BY DEF V!Contents, Words
    <3>. QED
      BY <3>1, <3>2, <3>3 DEF IsMessages
  <2>5. ASSUME request.protocol # "anthropic", NEW i \in DOMAIN request.messages,
               NEW k \in DOMAIN request.messages[i].blocks
        PROVE  request.messages[i].blocks[k] # "blank"
    BY <2>1, <2>5 DEF V!Init, V!Sendable, V!Indexes
  <2>6. RequestOK
    BY <2>4, <2>5 DEF RequestOK
  <2>. QED
    BY <2>2, <2>6 DEF VirtualInv
<1>2. CASE part # "virtual"
  <2>1. /\ vm = V!NoRow /\ request = [protocol |-> "openai", stream |-> FALSE, messages |-> <<>>]
        /\ phase = "done" /\ answer = "none" /\ calls = [made |-> 0, recorded |-> 0]
        /\ result = V!Error
    BY <1>2 DEF AdminInit
  <2>2. DOMAIN request.messages = {} /\ {} = 1 .. 0
    BY <2>1
  <2>3. RequestOK
    BY <2>2 DEF RequestOK, IsMessages
  <2>. QED
    BY <2>1, <2>3 DEF VirtualInv, SentOK
<1>. QED
  BY <1>1, <1>2

(***************************************************************************)
(* What the main model gets then.                                          *)
(***************************************************************************)
LEMMA NothingShown ==
  ASSUME RequestOK, NEW i \in DOMAIN request.messages,
         NEW k \in DOMAIN request.messages[i].blocks,
         request.messages[i].blocks[k] \notin V!Replaceable(request.protocol)
  PROVE  request.messages[i].blocks[k] \in {"text", "nested", "opaque"}
<1>1. request.messages[i].blocks[k] \in Words
  BY DEF RequestOK, IsMessages
<1>2. request.protocol = "anthropic" \/ request.messages[i].blocks[k] # "blank"
  BY DEF RequestOK
<1>. QED
  BY <1>1, <1>2, Readable DEF Words

\* The messages ms are those of the request, the text t stands in the places
\* "at", and a placeholder wherever else an image was.
Placed(ms, at, t) ==
  LET rm == request.messages
  IN /\ DOMAIN ms = DOMAIN rm
     /\ \A i \in DOMAIN rm : DOMAIN ms[i].blocks = DOMAIN rm[i].blocks
     /\ at \subseteq (DOMAIN rm) \X (1 .. 2)
     /\ \A x \in at : /\ x[2] \in DOMAIN rm[x[1]].blocks /\ ms[x[1]].blocks[x[2]] = t
                      /\ rm[x[1]].blocks[x[2]] \in V!Replaceable(request.protocol)
     /\ \A i \in DOMAIN rm : \A k \in DOMAIN rm[i].blocks : <<i, k>> \notin at =>
          ms[i].blocks[k] = IF rm[i].blocks[k] \notin V!Replaceable(request.protocol)
                            THEN rm[i].blocks[k] ELSE "placeholder"

PutIn(ms, t) == {x \in (DOMAIN ms) \X (1 .. 2) :
                   x[2] \in DOMAIN ms[x[1]].blocks /\ ms[x[1]].blocks[x[2]] = t}

LEMMA WhatIsPlaced ==
  ASSUME RequestOK, NEW ms, NEW at, NEW t \in {"description", "failure"}, Placed(ms, at, t)
  PROVE  /\ \A i \in DOMAIN ms : \A k \in DOMAIN ms[i].blocks :
              ms[i].blocks[k] \in {"text", "nested", "opaque", "placeholder", t}
         /\ \A i \in DOMAIN ms : \A k \in DOMAIN ms[i].blocks :
              request.messages[i].blocks[k] \in {"text", "nested"} =>
                ms[i].blocks[k] = request.messages[i].blocks[k]
         /\ PutIn(ms, t) = at
         /\ \A u \in {"description", "failure"} : u # t => PutIn(ms, u) = {}
<1>. DEFINE rm == request.messages
<1>1. /\ DOMAIN ms = DOMAIN rm
      /\ \A i \in DOMAIN rm : DOMAIN ms[i].blocks = DOMAIN rm[i].blocks
      /\ at \subseteq (DOMAIN rm) \X (1 .. 2)
  BY DEF Placed
<1>2. ASSUME NEW i \in DOMAIN rm, NEW k \in DOMAIN rm[i].blocks, <<i, k>> \in at
      PROVE  ms[i].blocks[k] = t /\ rm[i].blocks[k] \in V!Replaceable(request.protocol)
  BY <1>2 DEF Placed
<1>3. ASSUME NEW i \in DOMAIN rm, NEW k \in DOMAIN rm[i].blocks, <<i, k>> \notin at
      PROVE  ms[i].blocks[k] \in {"text", "nested", "opaque", "placeholder"}
             /\ (rm[i].blocks[k] \in {"text", "nested"} => ms[i].blocks[k] = rm[i].blocks[k])
  <2>1. ms[i].blocks[k] = IF rm[i].blocks[k] \notin V!Replaceable(request.protocol)
                          THEN rm[i].blocks[k] ELSE "placeholder"
    BY <1>3 DEF Placed
  <2>. QED
    BY <2>1, NothingShown, Readable
<1>4. \A i \in DOMAIN rm : \A k \in DOMAIN rm[i].blocks :
        /\ ms[i].blocks[k] \in {"text", "nested", "opaque", "placeholder", t}
        /\ rm[i].blocks[k] \in {"text", "nested"} => ms[i].blocks[k] = rm[i].blocks[k]
        /\ (ms[i].blocks[k] = t) <=> (<<i, k>> \in at)
        /\ ms[i].blocks[k] \in {"description", "failure"} => ms[i].blocks[k] = t
  <2>. SUFFICES ASSUME NEW i \in DOMAIN rm, NEW k \in DOMAIN rm[i].blocks
                PROVE  /\ ms[i].blocks[k] \in {"text", "nested", "opaque", "placeholder", t}
                       /\ rm[i].blocks[k] \in {"text", "nested"} => ms[i].blocks[k] = rm[i].blocks[k]
                       /\ (ms[i].blocks[k] = t) <=> (<<i, k>> \in at)
                       /\ ms[i].blocks[k] \in {"description", "failure"} => ms[i].blocks[k] = t
    OBVIOUS
  <2>. HIDE DEF rm
  <2>1. CASE <<i, k>> \in at
    BY <1>2, <2>1, Readable
  <2>2. CASE <<i, k>> \notin at
    BY <1>3, <2>2
  <2>. QED
    BY <2>1, <2>2
<1>5. PutIn(ms, t) = at
  <2>1. ASSUME NEW x \in PutIn(ms, t) PROVE x \in at
    <3>1. /\ x = <<x[1], x[2]>> /\ x[1] \in DOMAIN rm /\ x[2] \in DOMAIN rm[x[1]].blocks
          /\ ms[x[1]].blocks[x[2]] = t
      BY <1>1 DEF PutIn
    <3>. HIDE DEF rm
    <3>. QED
      BY <1>4, <3>1
  <2>2. ASSUME NEW x \in at PROVE x \in PutIn(ms, t)
    <3>1. x[2] \in DOMAIN rm[x[1]].blocks /\ ms[x[1]].blocks[x[2]] = t
      BY DEF Placed
    <3>2. x \in (DOMAIN rm) \X (1 .. 2) /\ x[1] \in DOMAIN rm
      BY <1>1
    <3>3. x[2] \in DOMAIN ms[x[1]].blocks
      BY <1>1, <3>1, <3>2
    <3>. HIDE DEF rm
    <3>. QED
      BY <1>1, <3>1, <3>2, <3>3 DEF PutIn
  <2>. QED
    BY <2>1, <2>2
<1>6. ASSUME NEW u \in {"description", "failure"}, u # t PROVE PutIn(ms, u) = {}
  <2>1. ASSUME NEW x \in PutIn(ms, u) PROVE FALSE
    <3>1. /\ x[1] \in DOMAIN rm /\ x[2] \in DOMAIN rm[x[1]].blocks
          /\ ms[x[1]].blocks[x[2]] = u
      BY <1>1 DEF PutIn
    <3>. HIDE DEF rm
    <3>. QED
      BY <1>4, <1>6, <3>1
  <2>. QED
    BY <2>1
<1>. QED
  BY <1>1, <1>4, <1>5, <1>6

LEMMA Described ==
  ASSUME VirtualInv, phase = "done"
  PROVE  ImagesDescribed
<1>. SUFFICES ASSUME V!Sent, vm # V!NoRow, vm.vision, TheLatest # 0
              PROVE  V!ImagesDescribed
  BY DEF ImagesDescribed, V!ImagesDescribed, TheLatest
<1>. DEFINE p  == request.protocol
            rm == request.messages
            ms == result.messages
            told == PutIn(ms, "description") \cup PutIn(ms, "failure")
<1>1. PICK ds : /\ Replacing(ds)
                /\ \/ ~V!Usable /\ answer = "none" /\ ds = <<>>
                   \/ V!Usable /\ ds = <<Told>>
  BY DEF VirtualInv, SentOK
<1>2. result.model = "main" /\ ms = V!ReplaceImages(p, rm, ds) /\ IsMessages(rm)
  BY <1>1 DEF Replacing, V!Body, VirtualInv, RequestOK
<1>3. Told \in {"description", "failure"} /\ V!Latest(p, rm) # 0
  BY DEF Told, TheLatest, VirtualInv
<1>4. PICK at : /\ Placed(ms, at, Told)
                /\ \/ ~V!Usable /\ answer = "none" /\ at = {}
                   \/ /\ V!Usable
                      /\ \E x : at = {x} /\ x[1] >= TheLatest
  <2>1. CASE ~V!Usable /\ answer = "none" /\ ds = <<>>
    <3>. HIDE DEF p, rm, ms
    <3>1. /\ DOMAIN ms = DOMAIN rm
          /\ \A i \in DOMAIN rm : DOMAIN ms[i].blocks = DOMAIN rm[i].blocks
          /\ \A i \in DOMAIN rm : \A k \in DOMAIN rm[i].blocks :
               ms[i].blocks[k] = IF rm[i].blocks[k] \notin V!Replaceable(p)
                                 THEN rm[i].blocks[k] ELSE "placeholder"
      BY <1>2, <2>1, NoAnswer
    <3>2. Placed(ms, {}, Told)
      BY <3>1 DEF Placed, p, rm
    <3>. QED
      BY <2>1, <3>2
  <2>2. CASE V!Usable /\ ds = <<Told>>
    <3>. DEFINE w == V!LastWith(p, rm)
    <3>1. w \in DOMAIN rm /\ w >= TheLatest
      <4>1. PICK n \in Nat : DOMAIN rm = 1 .. n
        BY <1>2 DEF IsMessages
      <4>2. /\ w \in DOMAIN rm /\ V!Latest(p, rm) <= w /\ V!Latest(p, rm) \in DOMAIN rm
        BY <1>2, <1>3, LatestBeforeLast
      <4>. QED
        BY <4>1, <4>2 DEF TheLatest
    <3>. HIDE DEF p, rm, ms, w
    <3>2. /\ DOMAIN ms = DOMAIN rm
          /\ \A i \in DOMAIN rm : DOMAIN ms[i].blocks = DOMAIN rm[i].blocks
          /\ \E first \in DOMAIN rm[w].blocks :
              /\ first \in 1 .. 2 /\ rm[w].blocks[first] \in V!Replaceable(p)
              /\ ms[w].blocks[first] = Told
              /\ \A i \in DOMAIN rm : \A k \in DOMAIN rm[i].blocks : <<i, k>> # <<w, first>> =>
                   ms[i].blocks[k] = IF rm[i].blocks[k] \notin V!Replaceable(p)
                                     THEN rm[i].blocks[k] ELSE "placeholder"
      BY <1>2, <1>3, <2>2, OneAnswerTold DEF w
    <3>3. PICK first \in DOMAIN rm[w].blocks :
              /\ first \in 1 .. 2 /\ rm[w].blocks[first] \in V!Replaceable(p)
              /\ ms[w].blocks[first] = Told
              /\ \A i \in DOMAIN rm : \A k \in DOMAIN rm[i].blocks : <<i, k>> # <<w, first>> =>
                   ms[i].blocks[k] = IF rm[i].blocks[k] \notin V!Replaceable(p)
                                     THEN rm[i].blocks[k] ELSE "placeholder"
      BY <3>2
    <3>4. Placed(ms, {<<w, first>>}, Told)
      <4>. DEFINE at == {<<w, first>>}
      <4>1. at \subseteq (DOMAIN rm) \X (1 .. 2)
        BY <3>1, <3>3
      <4>2. \A x \in at : /\ x[2] \in DOMAIN rm[x[1]].blocks /\ ms[x[1]].blocks[x[2]] = Told
                          /\ rm[x[1]].blocks[x[2]] \in V!Replaceable(p)
        BY <3>3
      <4>3. \A i \in DOMAIN rm : \A k \in DOMAIN rm[i].blocks : <<i, k>> \notin at =>
              ms[i].blocks[k] = IF rm[i].blocks[k] \notin V!Replaceable(p)
                                THEN rm[i].blocks[k] ELSE "placeholder"
        BY <3>3
      <4>. HIDE DEF at
      <4>4. Placed(ms, at, Told)
        BY <3>2, <4>1, <4>2, <4>3 DEF Placed, p, rm
      <4>. QED
        BY <4>4 DEF at
    <3>5. <<w, first>>[1] >= TheLatest
      BY <3>1
    <3>6. \E x : {<<w, first>>} = {x} /\ x[1] >= TheLatest
      BY <3>5
    <3>. QED
      BY <2>2, <3>4, <3>6
  <2>. QED
    BY <1>1, <2>1, <2>2
<1>5. /\ \A i \in DOMAIN ms : \A k \in DOMAIN ms[i].blocks :
           ms[i].blocks[k] \in {"text", "nested", "opaque", "placeholder", Told}
      /\ \A i \in DOMAIN ms : \A k \in DOMAIN ms[i].blocks :
           rm[i].blocks[k] \in {"text", "nested"} => ms[i].blocks[k] = rm[i].blocks[k]
      /\ PutIn(ms, Told) = at
      /\ \A u \in {"description", "failure"} : u # Told => PutIn(ms, u) = {}
  <2>. HIDE DEF ms
  <2>. QED
    BY <1>3, <1>4, WhatIsPlaced DEF VirtualInv
<1>6. V!ImagesIn(ms) = {}
  <2>1. ASSUME NEW i \in DOMAIN ms PROVE V!Indexes(ms[i], {"image", "blank"}) = {}
    BY <1>3, <1>5 DEF V!Indexes
  <2>. QED
    BY <2>1 DEF V!ImagesIn
<1>7. told = at
  BY <1>3, <1>5
<1>8. /\ V!Cardinality(told) = IF V!Usable THEN 1 ELSE 0
      /\ \A x \in told : x[1] >= TheLatest
  BY <1>4, <1>7, CountOf
<1>9. (PutIn(ms, "description") # {}) = (answer = "description")
  <2>1. CASE answer = "description"
    BY <1>4, <1>5, <2>1 DEF Told
  <2>2. CASE answer # "description"
    BY <1>5, <2>2 DEF Told
  <2>. QED
    BY <2>1, <2>2
<1>10. answer = "description" => calls.recorded > 0
  BY DEF VirtualInv
<1>. QED
  BY <1>2, <1>5, <1>6, <1>8, <1>9, <1>10 DEF V!ImagesDescribed, TheLatest, PutIn

(***************************************************************************)
(* When a new image met a vision model, whether it was asked or could not  *)
(* be, the main model gets none of the images of the messages' own         *)
(* content, all of the text and of the images inside tool results, which   *)
(* no function looks into, and one description or one notice of its        *)
(* failure where the last images were; a description was paid for.         *)
(* For any messages, candidates and edits of the administrator             *)
(* (virtual_model.go:102-352, images.go:165-326, 418-639).                 *)
(***************************************************************************)
THEOREM ImagesAreDescribed == AdminSpec => []ImagesDescribed
<1>1. VirtualInv => ImagesDescribed
  <2>1. phase # "done" => ImagesDescribed
    BY DEF ImagesDescribed, V!ImagesDescribed, V!Sent
  <2>. QED
    BY <2>1, Described
<1>. QED
  BY <1>1, VirtualInit, VirtualStep, PTL DEF AdminSpec

-----------------------------------------------------------------------------
(***************************************************************************)
(* The types of all four parts, within the bounds of the instance.         *)
(***************************************************************************)
\* Keys at rest are typed as well.
LEMMA KeysTyped == ASSUME AdminInit PROVE TypeOK
<1>1. CASE part = "keys"
  BY <1>1, InitInv DEF AdminInit, IInv
<1>2. CASE part # "keys"
  <2> DEFINE k0 == CHOOSE k \in Keys : TRUE
  <2>1. /\ row = [k \in Keys |-> Unborn] /\ cache = [k \in Keys |-> {}]
        /\ req = [r \in Requests |-> [pc |-> "over", key |-> k0,
                                      copy |-> Unborn, overtaken |-> FALSE]]
        /\ admin = [a \in Admins |-> [pc |-> "idle", key |-> k0]]
    BY <1>2 DEF AdminInit
  <2>2. k0 \in Keys
    BY AdminAssumption
  <2>3. Unborn \in Row
    BY DEF Unborn, Row
  <2> HIDE DEF k0
  <2>4. [pc |-> "over", key |-> k0, copy |-> Unborn, overtaken |-> FALSE] \in Request
    BY <2>2, <2>3 DEF Request
  <2>5. cache \in [Keys -> SUBSET Entry] /\ \A k \in Keys : cache[k] = {}
    BY <2>1
  <2>6. row \in [Keys -> Row] /\ req \in [Requests -> Request]
        /\ admin \in [Admins -> [pc : {"idle", "written", "done"}, key : Keys]]
    BY <2>1, <2>2, <2>3, <2>4
  <2> QED
    BY <2>5, <2>6 DEF TypeOK
<1> QED
  BY <1>1, <1>2

\* A request for a virtual model has not asked before it describes, and asks no
\* more upstreams than there are candidates.
VirtualTyped ==
  /\ V!TypeOK /\ request.stream \in BOOLEAN
  /\ calls.made + left <= MaxCandidates
  /\ phase \in {"match", "transform", "images"} => calls.made = 0

LEMMA VirtualTypedFirst == ASSUME AdminInit PROVE VirtualTyped
<1>1. 0 \in 0 .. MaxCandidates /\ 0 \in 0 .. 0 /\ 0 + 0 <= MaxCandidates
  BY AdminAssumption
<1>2. CASE part = "virtual"
  <2>1. V!Init
    BY <1>2 DEF AdminInit
  <2>2. request.stream \in BOOLEAN
    BY <2>1 DEF V!Init
  <2>3. /\ vmRow \in V!VMs /\ sight \in BOOLEAN /\ vm = V!NoRow /\ phase = "match" /\ left = 0
        /\ answer = "none" /\ calls = [made |-> 0, recorded |-> 0] /\ preface = FALSE
    BY <2>1 DEF V!Init
  <2> QED
    BY <1>1, <2>2, <2>3 DEF VirtualTyped, V!TypeOK
<1>3. CASE part # "virtual"
  <2>1. /\ vmRow = V!NoRow /\ vm = V!NoRow /\ sight = FALSE
        /\ request = [protocol |-> "openai", stream |-> FALSE, messages |-> <<>>]
        /\ phase = "done" /\ left = 0 /\ answer = "none" /\ preface = FALSE
        /\ calls = [made |-> 0, recorded |-> 0]
    BY <1>3 DEF AdminInit
  <2> QED
    BY <1>1, <2>1 DEF VirtualTyped, V!TypeOK
<1> QED
  BY <1>2, <1>3

LEMMA VirtualEnds ==
  ASSUME VirtualTyped, V!Request, NEW r, V!End(r) PROVE VirtualTyped'
<1>1. /\ UNCHANGED <<vmRow, sight, request, vm, left, answer, calls, preface>> /\ phase' = "done"
  BY DEF V!Request, V!End
<1> QED
  BY <1>1 DEF VirtualTyped, V!TypeOK

LEMMA AskTyped == ASSUME VirtualTyped, V!Ask PROVE VirtualTyped'
<1>1. /\ phase = "describe" /\ left > 0 /\ left' = left - 1
      /\ UNCHANGED <<vmRow, sight, request, vm, phase, preface>>
  BY DEF V!Ask, V!Request
<1>2. PICK outcome \in V!Outcomes :
        /\ calls' = [made     |-> calls.made + (IF outcome = "skipped" THEN 0 ELSE 1),
                     recorded |-> calls.recorded + (IF V!Recorded(outcome) THEN 1 ELSE 0)]
        /\ answer' = IF outcome = "text" THEN "description" ELSE "none"
  BY DEF V!Ask
<1>3. /\ calls.made \in Nat /\ calls.recorded \in Nat /\ calls.recorded <= calls.made
      /\ left \in Nat /\ left <= MaxCandidates /\ calls.made + left <= MaxCandidates
  BY AdminAssumption DEF VirtualTyped, V!TypeOK
<1> DEFINE more == IF outcome = "skipped" THEN 0 ELSE 1
           noted == IF V!Recorded(outcome) THEN 1 ELSE 0
<1>4. more \in 0 .. 1 /\ noted \in 0 .. more
  BY DEF V!Recorded
<1>5. calls'.made = calls.made + more /\ calls'.recorded = calls.recorded + noted
  BY <1>2
<1> HIDE DEF more, noted
<1>6. /\ left' \in 0 .. MaxCandidates /\ calls'.made + left' <= MaxCandidates
      /\ calls'.made \in 0 .. MaxCandidates /\ calls'.recorded \in 0 .. calls'.made
  BY <1>1, <1>3, <1>4, <1>5, AdminAssumption
<1>7. answer' \in {"none", "description"}
  BY <1>2
<1> QED
  BY <1>1, <1>6, <1>7 DEF VirtualTyped, V!TypeOK

LEMMA VirtualTypedNext ==
  ASSUME VirtualTyped, V!Next \/ UNCHANGED virtual PROVE VirtualTyped'
<1>1. CASE UNCHANGED virtual
  BY <1>1 DEF virtual, VirtualTyped, V!TypeOK
<1>2. CASE V!EditRow \/ V!EditModel
  <2>1. /\ UNCHANGED <<request, vm, phase, left, answer, calls, preface>>
        /\ vmRow' \in V!VMs \cup {V!NoRow} /\ sight' \in BOOLEAN
    BY <1>2 DEF V!EditRow, V!EditModel, VirtualTyped, V!TypeOK
  <2> QED
    BY <2>1 DEF VirtualTyped, V!TypeOK
<1>3. CASE V!Match
  <2>1. CASE \E r : V!End(r)
    BY <1>3, <2>1, VirtualEnds DEF V!Match
  <2>2. CASE phase' = "transform" /\ UNCHANGED <<vm, left, answer, calls, preface, result>>
    BY <1>3, <2>2 DEF V!Match, V!Request, VirtualTyped, V!TypeOK
  <2> QED
    BY <1>3, <2>1, <2>2 DEF V!Match
<1>4. CASE V!Transform
  <2>1. CASE \E r : V!End(r)
    BY <1>4, <2>1, VirtualEnds DEF V!Transform
  <2>2. CASE vm' = vmRow /\ phase' = "images" /\ UNCHANGED <<left, answer, calls, preface, result>>
    BY <1>4, <2>2 DEF V!Transform, V!Request, VirtualTyped, V!TypeOK
  <2> QED
    BY <1>4, <2>1, <2>2 DEF V!Transform
<1>5. CASE V!Images
  <2>1. /\ V!Request /\ phase = "images"
        /\ \/ \E r : V!End(r)
           \/ /\ phase' = "describe" /\ preface' = request.stream
              /\ left' \in 0 .. MaxCandidates /\ UNCHANGED <<vm, answer, calls, result>>
    BY <1>5 DEF V!Images
  <2>2. CASE \E r : V!End(r)
    BY <2>1, <2>2, VirtualEnds
  <2>3. CASE /\ phase' = "describe" /\ preface' = request.stream
             /\ left' \in 0 .. MaxCandidates /\ UNCHANGED <<vm, answer, calls, result>>
    <3>1. calls.made = 0 /\ calls' = calls /\ calls'.made + left' <= MaxCandidates
      BY <2>1, <2>3, AdminAssumption DEF VirtualTyped
    <3> QED
      BY <2>1, <2>3, <3>1 DEF V!Request, VirtualTyped, V!TypeOK
  <2> QED
    BY <2>1, <2>2, <2>3
<1>6. CASE V!Describe
  BY <1>6, VirtualEnds DEF V!Describe
<1> QED
  BY <1>1, <1>2, <1>3, <1>4, <1>5, <1>6, AskTyped DEF V!Next, V!Serve

-----------------------------------------------------------------------------
(* The catalog: rows, statuses and what requests in progress have read.     *)
ModelsTyped(f)  == \A id \in DOMAIN f : f[id] \in C!Row
StatusTyped(f)  == \A c \in DOMAIN f : f[c] \in C!Status
ListTyped(f)    == \A id \in DOMAIN f : f[id].row \in C!Row /\ f[id].channel \in C!Status
CatalogRead(r) ==
  /\ r.op = "list" => ListTyped(r.rows)
  /\ r.op = "channel" => r.status \in C!Status

TablesTyped ==
  /\ ModelsTyped(models) /\ modelId \in 1 .. MaxId + 1
  /\ DOMAIN channels \subseteq Channels /\ StatusTyped(channels) /\ presets \subseteq Models
CachesTyped == ListTyped(modelList.rows) /\ StatusTyped(chanCache)

CatalogTyped == TablesTyped /\ CachesTyped /\ \A j \in Jobs : CatalogRead(modelJob[j])

\* What a statement makes of a row.
LEMMA RowsChanged ==
  ASSUME NEW r \in C!Row, NEW n \in {"id", "given"}, NEW s \in C!Status,
         NEW i \in {"plain", "preset", "user", "router"}, NEW b \in BOOLEAN
  PROVE  /\ [r EXCEPT !.name = n, !.info = i, !.status = s, !.edited = b] \in C!Row
         /\ [r EXCEPT !.info = i, !.edited = b] \in C!Row
         /\ [r EXCEPT !.name = n, !.info = i] \in C!Row
         /\ [r EXCEPT !.status = s] \in C!Row /\ [r EXCEPT !.edited = b] \in C!Row
         /\ [r EXCEPT !.info = i] \in C!Row
         /\ r.name \in {"id", "given"} /\ r.info \in {"plain", "preset", "user", "router"}
         /\ r.status \in C!Status /\ r.edited \in BOOLEAN
BY DEF C!Row

LEMMA MergedTyped ==
  ASSUME NEW r \in C!Row, NEW n \in {"id", "given"}
  PROVE  C!Merged(r, n) \in C!Row
<1> DEFINE nn == IF r.name = "id" THEN n ELSE r.name
           ii == IF r.edited THEN r.info ELSE C!PresetInfo(r.model)
<1>1. \A m : C!PresetInfo(m) \in {"plain", "preset", "user", "router"}
  BY DEF C!PresetInfo
<1>2. nn \in {"id", "given"} /\ ii \in {"plain", "preset", "user", "router"}
  BY <1>1 DEF C!Row
<1>3. C!Merged(r, n) = [r EXCEPT !.name = nn, !.info = ii]
  BY DEF C!Merged
<1> HIDE DEF nn, ii
<1> QED
  BY <1>2, <1>3 DEF C!Row

LEMMA FlipTyped == \A s : C!Flip(s) \in C!Status
BY DEF C!Flip, C!Status

\* Steps that change models only, and what is in progress not at all.
LEMMA ModelsStep ==
  ASSUME CatalogTyped, ModelsTyped(models'), ListTyped(modelList'.rows),
         UNCHANGED <<modelId, channels, presets, chanCache>>,
         \A j \in Jobs : CatalogRead(modelJob'[j])
  PROVE  CatalogTyped'
BY DEF CatalogTyped, TablesTyped, CachesTyped, ModelsTyped, ListTyped, StatusTyped, CatalogRead

LEMMA CatalogReads ==
  ASSUME CatalogInv, CatalogTyped
  PROVE  /\ UNCHANGED modelJob => \A j \in Jobs : CatalogRead(modelJob'[j])
         /\ \A j \in Jobs : \A r : CatalogRead(r) /\ modelJob' = [modelJob EXCEPT ![j] = r]
              => \A i \in Jobs : CatalogRead(modelJob'[i])
<1>1. \A i \in Jobs : CatalogRead(modelJob[i])
  BY DEF CatalogTyped
<1>2. ASSUME NEW j \in Jobs, NEW r, CatalogRead(r), modelJob' = [modelJob EXCEPT ![j] = r],
             NEW i \in Jobs
      PROVE  CatalogRead(modelJob'[i])
  <2>1. modelJob'[i] = r \/ modelJob'[i] = modelJob[i]
    BY <1>2 DEF CatalogInv
  <2> QED
    BY <1>1, <1>2, <2>1
<1> QED
  BY <1>1, <1>2

LEMMA EmptyList == ListTyped(C!NoRows.rows) /\ StatusTyped(<<>>) /\ CatalogRead(C!Idle)
BY DEF ListTyped, StatusTyped, CatalogRead, C!NoRows, C!Idle

\* The list of models, or what is left of it.
LEMMA ListStays ==
  ASSUME CatalogTyped, C!InvalidateModelCache \/ UNCHANGED modelList
  PROVE  ListTyped(modelList'.rows)
BY EmptyList DEF CatalogTyped, CachesTyped, C!InvalidateModelCache

LEMMA ModelRequestsTyped ==
  ASSUME CatalogInv, CatalogTyped, UNCHANGED <<modelId, channels, presets, chanCache, modelJob>>,
         C!InvalidateModelCache \/ UNCHANGED modelList, ModelsTyped(models')
  PROVE  CatalogTyped'
BY CatalogReads, ListStays, ModelsStep

LEMMA CatalogRequestTyped ==
  ASSUME CatalogInv, CatalogTyped, C!Request
  PROVE  CatalogTyped'
<1>1. /\ ModelsTyped(models) /\ modelId \in 1 .. MaxId + 1 /\ DOMAIN channels \subseteq Channels
      /\ StatusTyped(channels) /\ presets \subseteq Models
      /\ ListTyped(modelList.rows) /\ StatusTyped(chanCache)
  BY DEF CatalogTyped, TablesTyped, CachesTyped
<1>2. ASSUME NEW id, NEW status \in C!Status, NEW name \in {"id", "given"},
             C!UpdateModel(id, name, status)
      PROVE  CatalogTyped'
  <2>1. ModelsTyped(models')
    BY <1>1, <1>2, RowsChanged DEF C!UpdateModel, C!Changed, ModelsTyped
  <2> QED
    BY <1>2, <2>1, ModelRequestsTyped DEF C!UpdateModel
<1>3. ASSUME NEW id, C!ToggleModel(id) PROVE CatalogTyped'
  <2>1. ModelsTyped(models')
    <3>1. \A r \in C!Row : [r EXCEPT !.status = C!Flip(@)] \in C!Row
      BY FlipTyped DEF C!Row
    <3> QED
      BY <1>1, <1>3, <3>1 DEF C!ToggleModel, C!Changed, ModelsTyped
  <2> QED
    BY <1>3, <2>1, ModelRequestsTyped DEF C!ToggleModel
<1>4. ASSUME NEW ids, NEW action, C!Batch(ids, action) PROVE CatalogTyped'
  <2>1. PICK done \in SUBSET ids :
          /\ \/ models' = [id \in DOMAIN models \ done |-> models[id]]
             \/ models' = [id \in DOMAIN models |->
                   IF id \in done
                   THEN CASE action = "enable"  -> [models[id] EXCEPT !.status = "active"]
                          [] action = "disable" -> [models[id] EXCEPT !.status = "inactive"]
                          [] action = "reset"   -> [models[id] EXCEPT !.edited = FALSE]
                          [] OTHER -> C!Edited(models[id])
                   ELSE models[id]]
          /\ C!InvalidateModelCache \/ UNCHANGED modelList
    BY <1>4 DEF C!Batch, C!Changed, C!Restrict
  <2>2. \A r \in C!Row : /\ [r EXCEPT !.status = "active"] \in C!Row
                         /\ [r EXCEPT !.status = "inactive"] \in C!Row
                         /\ [r EXCEPT !.edited = FALSE] \in C!Row /\ C!Edited(r) \in C!Row
    BY DEF C!Row, C!Status, C!Edited
  <2>3. ModelsTyped(models')
    BY <1>1, <2>1, <2>2 DEF ModelsTyped
  <2> QED
    BY <1>4, <2>1, <2>3, ModelRequestsTyped DEF C!Batch
<1>6. CASE C!ReloadPresets
  <2>1. presets' \subseteq Models /\ UNCHANGED <<models, modelId, channels, modelList, chanCache, modelJob>>
    BY <1>6 DEF C!ReloadPresets, C!caches
  <2> QED
    BY <1>1, <2>1 DEF CatalogTyped, TablesTyped, CachesTyped, ModelsTyped, StatusTyped, ListTyped,
                      CatalogRead
<1>7. ASSUME NEW c \in Channels, NEW status \in C!Status,
             C!SaveChannel(c, status) \/ C!ToggleChannel(c) \/ C!DeleteChannel(c)
      PROVE  CatalogTyped'
  <2>1. /\ UNCHANGED <<modelId, presets, modelList, modelJob>> /\ chanCache' = <<>>
        /\ UNCHANGED models \/ models' = [id \in {i \in DOMAIN models : models[i].channel # c} |-> models[id]]
    BY <1>7 DEF C!SaveChannel, C!ToggleChannel, C!DeleteChannel, C!InvalidateChannelCache, C!Restrict
  <2>2. ModelsTyped(models')
    BY <1>1, <2>1 DEF ModelsTyped
  <2>3. DOMAIN channels' \subseteq Channels /\ StatusTyped(channels')
    <3>1. CASE C!SaveChannel(c, status)
      BY <1>1, <3>1 DEF C!SaveChannel, C!With, StatusTyped
    <3>2. CASE C!ToggleChannel(c)
      BY <1>1, <3>2, FlipTyped DEF C!ToggleChannel, StatusTyped
    <3>3. CASE C!DeleteChannel(c)
      BY <1>1, <3>3 DEF C!DeleteChannel, C!Restrict, StatusTyped
    <3> QED
      BY <1>7, <3>1, <3>2, <3>3
  <2>4. StatusTyped(chanCache')
    BY <2>1, EmptyList
  <2> QED
    BY <1>1, <2>1, <2>2, <2>3, <2>4
    DEF CatalogTyped, TablesTyped, CachesTyped, ModelsTyped, StatusTyped, ListTyped, CatalogRead
<1>8. ASSUME NEW j \in Jobs, NEW r, modelJob' = [modelJob EXCEPT ![j] = r], CatalogRead(r),
             UNCHANGED <<C!Tables, C!caches>>
      PROVE  CatalogTyped'
  <2>1. UNCHANGED <<models, modelId, channels, presets, modelList, chanCache>>
    BY <1>8 DEF C!Tables, C!caches
  <2>2. \A i \in Jobs : CatalogRead(modelJob'[i])
    BY <1>8, CatalogReads
  <2> QED
    BY <1>1, <2>1, <2>2, ModelsStep DEF ModelsTyped, ListTyped
<1>9. ASSUME NEW j \in Jobs, C!BeginList(j) PROVE CatalogTyped'
  <2> DEFINE r == [op |-> "list", rows |-> C!Joined]
  <2>1. ListTyped(C!Joined)
    BY <1>1 DEF C!Joined, ListTyped, ModelsTyped, StatusTyped, C!Status
  <2>2. CatalogRead(r)
    BY <2>1 DEF CatalogRead
  <2>3. modelJob' = [modelJob EXCEPT ![j] = r] /\ UNCHANGED <<C!Tables, C!caches>>
    BY <1>9 DEF C!BeginList, C!Begin
  <2> HIDE DEF r
  <2> QED
    BY <1>8, <2>2, <2>3
<1>10. ASSUME NEW j \in Jobs, NEW c, C!BeginGetChannel(j, c) PROVE CatalogTyped'
  <2> DEFINE r == [op |-> "channel", channel |-> c, status |-> channels[c]]
  <2>1. c \in DOMAIN channels
    BY <1>10 DEF C!BeginGetChannel
  <2>2. CatalogRead(r)
    BY <1>1, <2>1 DEF CatalogRead, StatusTyped
  <2>3. modelJob' = [modelJob EXCEPT ![j] = r] /\ UNCHANGED <<C!Tables, C!caches>>
    BY <1>10 DEF C!BeginGetChannel, C!Begin
  <2> HIDE DEF r
  <2> QED
    BY <1>8, <2>2, <2>3
<1>11. ASSUME NEW j \in Jobs, NEW c, C!BeginSync(j, c) PROVE CatalogTyped'
  <2>1. PICK found : /\ modelJob' = [modelJob EXCEPT ![j] =
                                       [op |-> "sync", channel |-> c, found |-> found]]
                     /\ UNCHANGED <<C!Tables, C!caches>>
    BY <1>11 DEF C!BeginSync, C!Begin
  <2> DEFINE r == [op |-> "sync", channel |-> c, found |-> found]
  <2>2. CatalogRead(r)
    BY DEF CatalogRead
  <2>3. modelJob' = [modelJob EXCEPT ![j] = r]
    BY <2>1
  <2> HIDE DEF r
  <2> QED
    BY <1>8, <2>1, <2>2, <2>3
<1>12. ASSUME NEW j \in Jobs, NEW op \in {"import", "router"}, NEW todo, NEW overwrite,
              C!BeginWriter(j, op, todo, overwrite)
       PROVE  CatalogTyped'
  <2> DEFINE r == [op |-> op, todo |-> todo, overwrite |-> overwrite,
                   updates |-> {}, seen |-> {}]
  <2>1. modelJob' = [modelJob EXCEPT ![j] = r] /\ UNCHANGED <<C!Tables, C!caches>>
    BY <1>12 DEF C!BeginWriter, C!Begin
  <2>2. CatalogRead(r)
    BY DEF CatalogRead
  <2> HIDE DEF r
  <2> QED
    BY <1>8, <2>1, <2>2
<1>13. "active" \in C!Status
  BY DEF C!Status
<1> QED
  BY <1>2, <1>3, <1>4, <1>6, <1>7, <1>9, <1>10, <1>11, <1>12, <1>13
  DEF C!Request, C!BeginImport, C!BeginRouter

\* A synchronisation with an upstream, an import and one with OpenRouter hold no rows.
LEMMA UpsertTyped ==
  ASSUME CatalogInv, CatalogTyped, NEW c \in Channels, NEW m \in Models,
         NEW n \in {"id", "given"}, C!Upsert(c, m, n)
  PROVE  ModelsTyped(models') /\ modelId' \in 1 .. MaxId + 1
<1>1. ModelsTyped(models) /\ modelId \in 1 .. MaxId + 1
  BY DEF CatalogTyped, TablesTyped
<1> DEFINE same == {id \in DOMAIN models : models[id].channel = c /\ models[id].model = m}
           new == [channel |-> c, model |-> m, name |-> n, info |-> C!PresetInfo(m),
                   status |-> "active", edited |-> FALSE]
<1>2. \/ /\ models' = [id \in DOMAIN models |->
                         IF id \in same THEN C!Merged(models[id], n) ELSE models[id]]
         /\ modelId' = modelId
      \/ /\ modelId <= MaxId /\ models' = C!With(models, modelId, new) /\ modelId' = modelId + 1
  BY DEF C!Upsert, C!Changed
<1>3. new \in C!Row
  BY DEF C!Row, C!PresetInfo, C!Status
<1> HIDE DEF same, new
<1>4. CASE /\ models' = [id \in DOMAIN models |->
                           IF id \in same THEN C!Merged(models[id], n) ELSE models[id]]
           /\ modelId' = modelId
  BY <1>1, <1>4, MergedTyped DEF ModelsTyped
<1>5. CASE modelId <= MaxId /\ models' = C!With(models, modelId, new) /\ modelId' = modelId + 1
  <2>1. ModelsTyped(models')
    BY <1>1, <1>3, <1>5 DEF ModelsTyped, C!With
  <2>2. modelId' \in 1 .. MaxId + 1
    BY <1>1, <1>5, AdminAssumption
  <2> QED
    BY <2>1, <2>2
<1> QED
  BY <1>2, <1>4, <1>5

LEMMA CatalogProgressTyped ==
  ASSUME CatalogInv, CatalogTyped, NEW j \in Jobs, C!Progress(j)
  PROVE  CatalogTyped'
<1>1. /\ ModelsTyped(models) /\ modelId \in 1 .. MaxId + 1 /\ DOMAIN channels \subseteq Channels
      /\ StatusTyped(channels) /\ presets \subseteq Models
      /\ ListTyped(modelList.rows) /\ StatusTyped(chanCache) /\ CatalogRead(modelJob[j])
  BY DEF CatalogTyped, TablesTyped, CachesTyped
<1>2. CASE C!Fill(j)
  <2>1. modelJob' = [modelJob EXCEPT ![j] = C!Idle] /\ UNCHANGED <<models, modelId, channels, presets>>
    BY <1>2 DEF C!Fill, C!Tables
  <2>2. \A i \in Jobs : CatalogRead(modelJob'[i])
    BY <2>1, CatalogReads, EmptyList
  <2>3. ListTyped(modelList'.rows)
    <3>1. CASE /\ modelJob[j].op = "list"
               /\ modelList' = [cached |-> TRUE, rows |-> modelJob[j].rows]
      BY <1>1, <3>1 DEF CatalogRead
    <3> QED
      BY <1>1, <1>2, <3>1 DEF C!Fill
  <2>4. StatusTyped(chanCache')
    <3>1. CASE /\ modelJob[j].op = "channel"
               /\ chanCache' = C!With(chanCache, modelJob[j].channel, modelJob[j].status)
      BY <1>1, <3>1 DEF CatalogRead, StatusTyped, C!With
    <3> QED
      BY <1>1, <1>2, <3>1 DEF C!Fill
  <2> QED
    BY <1>1, <2>1, <2>2, <2>3, <2>4
    DEF CatalogTyped, TablesTyped, CachesTyped, ModelsTyped, StatusTyped
<1>3. CASE C!SyncOne(j)
  <2>1. modelJob[j] \in SyncJobs
    BY <1>3 DEF C!SyncOne, CatalogInv, CatalogJob
  <2>2. PICK x \in modelJob[j].found :
          /\ C!Upsert(modelJob[j].channel, x[1], x[2]) \/ UNCHANGED <<models, modelId>>
          /\ modelJob' = [modelJob EXCEPT ![j] = [modelJob[j] EXCEPT !.found = @ \ {x}]]
    BY <1>3 DEF C!SyncOne
  <2>3. /\ modelJob[j].channel \in Channels /\ x[1] \in Models /\ x[2] \in {"id", "given"}
    BY <2>1 DEF SyncJobs
  <2>4. ModelsTyped(models') /\ modelId' \in 1 .. MaxId + 1
    <3>1. CASE UNCHANGED <<models, modelId>>
      BY <1>1, <3>1
    <3> QED
      BY <2>2, <2>3, <3>1, UpsertTyped
  <2> DEFINE r == [modelJob[j] EXCEPT !.found = @ \ {x}]
  <2>5. CatalogRead(r)
    BY <2>1 DEF CatalogRead, SyncJobs
  <2>6. modelJob' = [modelJob EXCEPT ![j] = r]
    BY <2>2
  <2> HIDE DEF r
  <2>7. \A i \in Jobs : CatalogRead(modelJob'[i])
    BY <2>5, <2>6, CatalogReads
  <2>8. UNCHANGED <<channels, presets, modelList, chanCache>>
    BY <1>3 DEF C!SyncOne, C!caches
  <2> QED
    BY <1>1, <2>4, <2>7, <2>8
    DEF CatalogTyped, TablesTyped, CachesTyped, ModelsTyped, StatusTyped, ListTyped
<1>4. CASE C!EndSync(j)
  <2>1. /\ modelJob' = [modelJob EXCEPT ![j] = C!Idle]
        /\ UNCHANGED <<models, modelId, channels, presets, chanCache>> /\ C!InvalidateModelCache
    BY <1>4 DEF C!EndSync, C!Tables
  <2>2. \A i \in Jobs : CatalogRead(modelJob'[i])
    BY <2>1, CatalogReads, EmptyList
  <2> QED
    BY <1>1, <2>1, <2>2, ListStays, ModelsStep DEF ModelsTyped
<1>5. CASE C!RouterReads(j)
  <2>1. UNCHANGED <<models, modelId, channels, presets, modelList, chanCache>>
        /\ modelJob[j] \in RouterJobs
    BY <1>5 DEF C!RouterReads, C!Tables, C!caches, CatalogInv, CatalogJob
  <2>2. PICK r : /\ modelJob' = [modelJob EXCEPT ![j] = r]
                 /\ r = C!Idle \/ \E a, b, d : r = [modelJob[j] EXCEPT !.todo = a, !.seen = b, !.updates = d]
    <3>1. PICK id \in modelJob[j].todo :
            modelJob' = [modelJob EXCEPT ![j] =
              IF id \notin DOMAIN models THEN C!Idle
              ELSE [modelJob[j] EXCEPT
                      !.todo = modelJob[j].todo \ {id},
                      !.seen = modelJob[j].seen \cup (IF models[id].edited THEN {id} ELSE {}),
                      !.updates = modelJob[j].updates \cup (IF C!Skips(j, id) THEN {} ELSE {id})]]
      BY <1>5 DEF C!RouterReads, C!Modified, C!Chosen
    <3> DEFINE a == modelJob[j].todo \ {id}
               b == modelJob[j].seen \cup (IF models[id].edited THEN {id} ELSE {})
               d == modelJob[j].updates \cup (IF C!Skips(j, id) THEN {} ELSE {id})
               s == [modelJob[j] EXCEPT !.todo = a, !.seen = b, !.updates = d]
    <3>2. modelJob' = [modelJob EXCEPT ![j] = IF id \notin DOMAIN models THEN C!Idle ELSE s]
      BY <3>1
    <3>3. \E x, y, z : s = [modelJob[j] EXCEPT !.todo = x, !.seen = y, !.updates = z]
      OBVIOUS
    <3> HIDE DEF s
    <3> QED
      BY <3>2, <3>3
  <2>3. CatalogRead(r)
    <3>1. CASE r = C!Idle
      BY <3>1, EmptyList
    <3>2. ASSUME NEW a, NEW b, NEW d, r = [modelJob[j] EXCEPT !.todo = a, !.seen = b, !.updates = d]
          PROVE  r.op = "router"
      BY <2>1, <3>2 DEF RouterJobs
    <3> QED
      BY <2>2, <3>1, <3>2 DEF CatalogRead
  <2>4. \A i \in Jobs : CatalogRead(modelJob'[i])
    BY <2>2, <2>3, CatalogReads
  <2> QED
    BY <1>1, <2>1, <2>4, ModelsStep DEF ModelsTyped, ListTyped
<1>6. CASE C!RouterWrites(j)
  <2> DEFINE ids == modelJob[j].updates
             set(fields, row1) == [row1 EXCEPT !.name = IF "name" \in fields THEN "given" ELSE @,
                                               !.info = IF "info" \in fields THEN "router" ELSE @,
                                               !.edited = @ \/ fields # {}]
  <2>1. /\ modelJob' = [modelJob EXCEPT ![j] = C!Idle]
        /\ UNCHANGED <<modelId, channels, presets, chanCache>>
        /\ C!InvalidateModelCache \/ UNCHANGED modelList
        /\ \/ UNCHANGED models
           \/ \E fields : models' = [id \in DOMAIN models |->
                 IF id \in ids THEN set(fields, models[id]) ELSE models[id]]
    BY <1>6 DEF C!RouterWrites, C!Changed
  <2>2. \A fields : \A r \in C!Row : set(fields, r) \in C!Row
    BY DEF C!Row
  <2> HIDE DEF ids, set
  <2>3. ModelsTyped(models')
    BY <1>1, <2>1, <2>2 DEF ModelsTyped
  <2>4. \A i \in Jobs : CatalogRead(modelJob'[i])
    BY <2>1, CatalogReads, EmptyList
  <2> QED
    BY <2>1, <2>3, <2>4, ListStays, ModelsStep
<1>7. CASE C!ImportReads(j)
  <2>1. UNCHANGED <<models, modelId, channels, presets, modelList, chanCache>>
        /\ modelJob[j] \in ImportJobs
    BY <1>7 DEF C!ImportReads, C!Tables, C!caches, CatalogInv, CatalogJob
  <2> DEFINE looked(a, b, d) == [modelJob[j] EXCEPT !.todo = a, !.seen = b, !.updates = d]
             passed(a) == [modelJob[j] EXCEPT !.todo = a]
  <2>2. \/ \E a, b, d : modelJob' = [modelJob EXCEPT ![j] = looked(a, b, d)]
        \/ \E a : modelJob' = [modelJob EXCEPT ![j] = passed(a)]
    <3>1. PICK m \in modelJob[j].todo :
            \/ modelJob' = [modelJob EXCEPT ![j] = passed(modelJob[j].todo \ {m})]
            \/ \E id \in DOMAIN models : modelJob' = [modelJob EXCEPT ![j] =
                  looked(modelJob[j].todo \ {m}, C!Modified(id), C!Chosen(j, id))]
      BY <1>7 DEF C!ImportReads
    <3> HIDE DEF looked, passed
    <3> QED
      BY <3>1
  <2>3. /\ \A a, b, d : CatalogRead(looked(a, b, d))
        /\ \A a : CatalogRead(passed(a))
    BY <2>1 DEF ImportJobs, CatalogRead
  <2> HIDE DEF looked, passed
  <2>4. \A i \in Jobs : CatalogRead(modelJob'[i])
    BY <2>2, <2>3, CatalogReads
  <2> QED
    BY <1>1, <2>1, <2>4, ModelsStep DEF ModelsTyped, ListTyped
<1>8. CASE C!ImportWrites(j)
  <2>1. UNCHANGED <<modelId, channels, presets, modelList, chanCache>> /\ modelJob[j] \in ImportJobs
    BY <1>8 DEF C!ImportWrites, C!caches, CatalogInv, CatalogJob
  <2> DEFINE set(name, status, row1) == [row1 EXCEPT !.name = name, !.info = "user",
                                                     !.status = status, !.edited = TRUE]
             written == [modelJob[j] EXCEPT !.updates = {}]
  <2>2. PICK one \in modelJob[j].updates, name \in {"id", "given"}, status \in C!Status :
          /\ \/ UNCHANGED models
             \/ models' = [id \in DOMAIN models |->
                   IF id \in {one} THEN set(name, status, models[id]) ELSE models[id]]
          /\ \/ modelJob' = [modelJob EXCEPT ![j] = written]
             \/ modelJob' = [modelJob EXCEPT ![j] = C!Idle]
    BY <1>8 DEF C!ImportWrites, C!Changed
  <2>3. \A row1 \in C!Row : set(name, status, row1) \in C!Row
    BY DEF C!Row
  <2>4. CatalogRead(written)
    BY <2>1 DEF ImportJobs, CatalogRead
  <2> HIDE DEF set, written
  <2>5. ModelsTyped(models')
    BY <1>1, <2>2, <2>3 DEF ModelsTyped
  <2>6. \A i \in Jobs : CatalogRead(modelJob'[i])
    BY <2>2, <2>4, CatalogReads, EmptyList
  <2> QED
    BY <1>1, <2>1, <2>5, <2>6, ModelsStep DEF ListTyped
<1>9. CASE C!EndImport(j)
  <2>1. /\ modelJob' = [modelJob EXCEPT ![j] = C!Idle]
        /\ UNCHANGED <<models, modelId, channels, presets, chanCache>> /\ C!InvalidateModelCache
    BY <1>9 DEF C!EndImport, C!Tables
  <2>2. \A i \in Jobs : CatalogRead(modelJob'[i])
    BY <2>1, CatalogReads, EmptyList
  <2> QED
    BY <1>1, <2>1, <2>2, ListStays, ModelsStep DEF ModelsTyped
<1> QED
  BY <1>2, <1>3, <1>4, <1>5, <1>6, <1>7, <1>8, <1>9 DEF C!Progress

\* A statement that applies the presets, and a request that gives up what it holds.
LEMMA CatalogTypedNext ==
  ASSUME CatalogInv, CatalogTyped, C!Next \/ UNCHANGED catalog
  PROVE  CatalogTyped'
<1>1. /\ ModelsTyped(models) /\ modelId \in 1 .. MaxId + 1 /\ DOMAIN channels \subseteq Channels
      /\ StatusTyped(channels) /\ presets \subseteq Models
      /\ ListTyped(modelList.rows) /\ StatusTyped(chanCache) /\ \A j \in Jobs : CatalogRead(modelJob[j])
  BY DEF CatalogTyped, TablesTyped, CachesTyped
<1>2. CASE UNCHANGED catalog
  <2>1. UNCHANGED <<models, modelId, channels, presets, modelList, chanCache, modelJob>>
    BY <1>2 DEF catalog
  <2> QED
    BY <1>1, <2>1 DEF CatalogTyped, TablesTyped, CachesTyped, ModelsTyped, StatusTyped, ListTyped,
                      CatalogRead
<1>3. CASE C!Expire
  <2>1. /\ UNCHANGED <<models, modelId, channels, presets, modelJob>>
        /\ modelList' \in {modelList, C!NoRows} /\ chanCache' \in {chanCache, <<>>}
    BY <1>3 DEF C!Expire, C!Tables
  <2>2. ListTyped(modelList'.rows) /\ StatusTyped(chanCache')
    BY <1>1, <2>1, EmptyList
  <2> QED
    BY <1>1, <2>1, <2>2 DEF CatalogTyped, TablesTyped, CachesTyped, ModelsTyped, StatusTyped,
                            CatalogRead, ListTyped
<1>4. CASE C!Restart
  <2>1. /\ UNCHANGED <<modelId, channels, presets>> /\ modelList' = C!NoRows /\ chanCache' = <<>>
        /\ modelJob' = [j \in Jobs |-> C!Idle]
        /\ models' = [id \in DOMAIN models |->
              IF models[id].model \in presets /\ ~models[id].edited
              THEN [models[id] EXCEPT !.info = "preset"] ELSE models[id]]
    BY <1>4 DEF C!Restart, C!Changed, C!InvalidateModelCache, C!InvalidateChannelCache
  <2>2. \A r \in C!Row : [r EXCEPT !.info = "preset"] \in C!Row
    BY DEF C!Row
  <2>3. ModelsTyped(models')
    BY <1>1, <2>1, <2>2 DEF ModelsTyped
  <2>4. ListTyped(modelList'.rows) /\ StatusTyped(chanCache') /\ \A j \in Jobs : CatalogRead(modelJob'[j])
    BY <2>1, EmptyList
  <2> QED
    BY <1>1, <2>1, <2>3, <2>4 DEF CatalogTyped, TablesTyped, CachesTyped, ModelsTyped, StatusTyped,
                            CatalogRead, ListTyped
<1> QED
  BY <1>2, <1>3, <1>4, CatalogRequestTyped, CatalogProgressTyped DEF C!Next

LEMMA CatalogTypedFirst == ASSUME AdminInit PROVE CatalogTyped
<1>1. /\ models = <<>> /\ modelId = 1 /\ channels = [c \in Channels |-> "active"]
      /\ presets \in SUBSET Models /\ modelList = C!NoRows /\ chanCache = <<>>
      /\ modelJob = [j \in Jobs |-> C!Idle]
  BY DEF AdminInit, C!Init
<1>2. DOMAIN models = {} /\ modelId \in 1 .. MaxId + 1
  BY <1>1, AdminAssumption
<1>3. StatusTyped(channels) /\ DOMAIN channels \subseteq Channels
  BY <1>1 DEF StatusTyped, C!Status
<1> QED
  BY <1>1, <1>2, <1>3, EmptyList DEF CatalogTyped, TablesTyped, CachesTyped, ModelsTyped

\* What the module Catalog calls its types.
LEMMA CatalogTypes == ASSUME CatalogInv, CatalogTyped PROVE C!TypeOK
<1>1. /\ DOMAIN models \subseteq 1 .. modelId - 1
      /\ \A id \in DOMAIN models : models[id] \in C!Row
  BY DEF CatalogInv, RowsHaveIds, CatalogTyped, TablesTyped, ModelsTyped
<1>2. /\ modelId \in 1 .. MaxId + 1 /\ DOMAIN channels \subseteq Channels
      /\ \A c \in DOMAIN channels : channels[c] \in C!Status
      /\ presets \subseteq Models /\ \A c \in DOMAIN chanCache : chanCache[c] \in C!Status
  BY DEF CatalogTyped, TablesTyped, CachesTyped, StatusTyped
<1>3. \A id \in DOMAIN modelList.rows :
        modelList.rows[id].row \in C!Row /\ modelList.rows[id].channel \in C!Status
  BY DEF CatalogTyped, CachesTyped, ListTyped
<1> QED
  BY <1>1, <1>2, <1>3 DEF C!TypeOK, C!Range

-----------------------------------------------------------------------------
(* The skill library: rows, files, index and what GitHub is asked for.      *)
RowsTyped(f) == \A id \in DOMAIN f : f[id] \in S!Row

StoresTyped ==
  /\ RowsTyped(skills) /\ skillId \in 1 .. MaxId + 1
  /\ disk \subseteq S!File /\ index \subseteq S!Ids \X S!Paths
  /\ RowsTyped(skillList.rows) /\ RowsTyped(skillCache)

CombinationTyped == combo \in BOOLEAN /\ items \subseteq S!Ids /\ named \subseteq S!Ids

GithubTyped ==
  head \in 1 .. MaxCommit /\ tree \in [Sources -> [name : Names, files : SUBSET S!Paths]]

\* What a request in progress has read of the table and of GitHub.
SkillRead(r) ==
  /\ r.op # "idle" => RowsTyped(r.listed)
  /\ r.op = "import" => r.source \in Sources
  /\ r.op = "write" => r.found \in S!Found
  /\ r.op \in {"repo", "sync"} => r.found \subseteq S!Found
  /\ r.op = "repo" => r.sha \in 0 .. MaxCommit

SkillsTyped == StoresTyped /\ CombinationTyped /\ GithubTyped /\ \A j \in Jobs : SkillRead(skillJob[j])

LEMMA CommitNumbers == 0 \in 0 .. MaxCommit /\ 1 \in 1 .. MaxCommit /\ 1 .. MaxCommit \subseteq 0 .. MaxCommit
BY AdminAssumption

\* The ids that were given out are those of rows.
LEMMA GivenAreIds ==
  ASSUME StoresTyped PROVE Given \subseteq S!Ids
<1>1. skillId \in Int /\ skillId - 1 <= MaxId
  BY AdminAssumption DEF StoresTyped
<1> QED
  BY <1>1, AdminAssumption DEF Given, S!Ids

LEMMA EmptyRows ==
  ASSUME S!InvalidateSkillCache PROVE RowsTyped(skillList'.rows) /\ RowsTyped(skillCache')
BY DEF S!InvalidateSkillCache, S!NoRows, RowsTyped

LEMMA WrittenTyped ==
  ASSUME NEW files \in SUBSET S!File, NEW id \in S!Ids, NEW name \in Names,
         NEW paths \in SUBSET S!Paths, NEW ver \in 0 .. MaxCommit
  PROVE  S!Written(files, id, name, paths, ver) \subseteq S!File
<1>1. \A q \in paths : [id |-> id, name |-> name, path |-> q, ver |-> ver] \in S!File
  BY DEF S!File
<1> QED
  BY <1>1 DEF S!Written

LEMMA IndexedTyped ==
  ASSUME index \subseteq S!Ids \X S!Paths, NEW id \in S!Ids, NEW paths \in SUBSET S!Paths
  PROVE  /\ \A new \in S!Indexes(id, paths) : new \subseteq S!Ids \X S!Paths
         /\ S!Unindexed(id) \subseteq S!Ids \X S!Paths
BY DEF S!Indexes, S!Unindexed

LEMMA RowsWritten ==
  ASSUME NEW f, RowsTyped(f), NEW k, NEW r \in S!Row
  PROVE  RowsTyped(S!With(f, k, r)) /\ RowsTyped([f EXCEPT ![k] = r])
BY DEF RowsTyped, S!With

LEMMA RowsUpdated ==
  ASSUME RowsTyped(skills), NEW id, NEW r \in S!Row PROVE RowsTyped(S!Updated(id, r))
BY RowsWritten DEF S!Updated

LEMMA RowsRestricted ==
  ASSUME NEW f, RowsTyped(f), NEW D, D \subseteq DOMAIN f PROVE RowsTyped(S!Restrict(f, D))
BY DEF RowsTyped, S!Restrict

\* The rows that a request sees.
LEMMA ListedTyped ==
  ASSUME StoresTyped
  PROVE  /\ RowsTyped(S!Listed) /\ RowsTyped(S!Tagged)
         /\ \A id : S!Known(id) => S!ById(id) \in S!Row
<1>1. RowsTyped(skills) /\ RowsTyped(skillList.rows) /\ RowsTyped(skillCache)
  BY DEF StoresTyped
<1>2. RowsTyped(S!Tagged)
  BY <1>1, RowsRestricted DEF S!Tagged
<1>3. RowsTyped(S!Listed)
  BY <1>1 DEF S!Listed
<1>4. ASSUME NEW id, S!Known(id) PROVE S!ById(id) \in S!Row
  BY <1>1, <1>4 DEF S!Known, S!ById, RowsTyped
<1> QED
  BY <1>2, <1>3, <1>4

LEMMA ReplaceTyped ==
  ASSUME StoresTyped, NEW id \in S!Ids, NEW old, NEW row1 \in S!Row,
         NEW paths \in SUBSET S!Paths, NEW ver \in 0 .. MaxCommit, S!Replace(id, old, row1, paths, ver)
  PROVE  StoresTyped'
<1>1. /\ skills' = S!Updated(id, row1) /\ skillId' = skillId
      /\ disk' = S!Written(S!Without(disk, id, old), id, row1.name, paths, ver)
      /\ index' \in S!Indexes(id, paths) /\ S!InvalidateSkillCache
  BY DEF S!Replace
<1>2. S!Without(disk, id, old) \in SUBSET S!File /\ row1.name \in Names
  BY FilesRemoved DEF StoresTyped, S!Row
<1>3. disk' \subseteq S!File
  BY <1>1, <1>2, WrittenTyped
<1>4. RowsTyped(skills') /\ index' \subseteq S!Ids \X S!Paths
  BY <1>1, RowsUpdated, IndexedTyped DEF StoresTyped
<1> QED
  BY <1>1, <1>3, <1>4, EmptyRows DEF StoresTyped

LEMMA ReplaceFailsTyped ==
  ASSUME StoresTyped, NEW id \in S!Ids, NEW old, NEW name \in Names, NEW some \in SUBSET S!Paths,
         S!ReplaceFails(id, old, name, some)
  PROVE  StoresTyped'
<1>1. /\ disk' = S!Written(S!Without(disk, id, old), id, name, some, 0)
      /\ index' = S!Unindexed(id) /\ UNCHANGED <<skills, skillId, skillCache, skillList>>
  BY DEF S!ReplaceFails, S!caches
<1>2. S!Without(disk, id, old) \in SUBSET S!File
  BY FilesRemoved DEF StoresTyped
<1>3. disk' \subseteq S!File
  BY <1>1, <1>2, WrittenTyped, CommitNumbers
<1>4. index' \subseteq S!Ids \X S!Paths
  BY <1>1, IndexedTyped DEF StoresTyped
<1> QED
  BY <1>1, <1>3, <1>4 DEF StoresTyped, RowsTyped

\* A new row takes the next id, within the bound.
LEMMA NextIdTyped ==
  ASSUME StoresTyped, S!CanCreate
  PROVE  skillId \in S!Ids /\ skillId + 1 \in 1 .. MaxId + 1
BY AdminAssumption DEF StoresTyped, S!CanCreate, S!Ids

LEMMA InsertTyped ==
  ASSUME StoresTyped, NEW row1 \in S!Row, NEW paths \in SUBSET S!Paths, NEW ver \in 0 .. MaxCommit,
         S!Insert(row1, paths, ver)
  PROVE  StoresTyped'
<1>1. /\ skills' = S!With(skills, skillId, row1) /\ skillId' = skillId + 1
      /\ disk' = S!Written(disk, skillId, row1.name, paths, ver)
      /\ index' \in S!Indexes(skillId, paths) /\ S!InvalidateSkillCache /\ S!CanCreate
  BY DEF S!Insert, S!NewId
<1>2. skillId \in S!Ids /\ skillId' \in 1 .. MaxId + 1
  BY <1>1, NextIdTyped
<1>3. disk \in SUBSET S!File /\ row1.name \in Names
  BY DEF StoresTyped, S!Row
<1>4. disk' \subseteq S!File
  BY <1>1, <1>2, <1>3, WrittenTyped
<1>5. RowsTyped(skills') /\ index' \subseteq S!Ids \X S!Paths
  BY <1>1, <1>2, RowsWritten, IndexedTyped DEF StoresTyped
<1> QED
  BY <1>1, <1>2, <1>4, <1>5, EmptyRows DEF StoresTyped

LEMMA InsertFailsTyped ==
  ASSUME StoresTyped, NEW name \in Names, NEW some \in SUBSET S!Paths, S!InsertFails(name, some)
  PROVE  StoresTyped'
<1>1. /\ skillId' = skillId + 1 /\ UNCHANGED <<skills, index>> /\ S!CanCreate
      /\ disk' = S!Written(disk, skillId, name, some, 0) /\ S!InvalidateSkillCache
  BY DEF S!InsertFails, S!NewId
<1>2. skillId \in S!Ids /\ skillId' \in 1 .. MaxId + 1
  BY <1>1, NextIdTyped
<1>3. disk \in SUBSET S!File
  BY DEF StoresTyped
<1>4. disk' \subseteq S!File
  BY <1>1, <1>2, <1>3, WrittenTyped, CommitNumbers
<1> QED
  BY <1>1, <1>2, <1>4, EmptyRows DEF StoresTyped, RowsTyped

LEMMA FetchedTyped ==
  ASSUME GithubTyped, NEW s \in Sources PROVE S!Fetched(s) \subseteq S!Found
<1> DEFINE skill(ps) == [source |-> s, paths |-> ps, ver |-> head,
                         name |-> IF Readme \in ps THEN tree[s].name
                                  ELSE [t \in Sources |-> DefaultName][s]]
<1>1. tree[s].name \in Names /\ tree[s].files \in SUBSET S!Paths /\ head \in 1 .. MaxCommit
  BY DEF GithubTyped
<1>2. \A ps \in SUBSET tree[s].files : skill(ps) \in S!Found
  BY <1>1, AdminAssumption DEF S!Found
<1>3. \A f \in S!Fetched(s) : \E ps \in SUBSET tree[s].files : f = skill(ps)
  BY DEF S!Fetched
<1> QED
  BY <1>2, <1>3

LEMMA DiscoveredTyped ==
  ASSUME GithubTyped, NEW found \in S!Discovered PROVE found \subseteq S!Found
BY FetchedTyped DEF S!Discovered

(* One lemma for each operation.                                            *)
LEMMA SkillReads ==
  ASSUME SkillsInv, SkillsTyped
  PROVE  /\ UNCHANGED skillJob => \A j \in Jobs : SkillRead(skillJob'[j])
         /\ \A j \in Jobs : \A r : SkillRead(r) /\ skillJob' = [skillJob EXCEPT ![j] = r]
              => \A i \in Jobs : SkillRead(skillJob'[i])
         /\ \A j \in Jobs : skillJob' = [skillJob EXCEPT ![j] = S!Idle]
              => \A i \in Jobs : SkillRead(skillJob'[i])
<1>1. \A i \in Jobs : SkillRead(skillJob[i])
  BY DEF SkillsTyped
<1>2. ASSUME NEW j \in Jobs, NEW r, SkillRead(r), skillJob' = [skillJob EXCEPT ![j] = r],
             NEW i \in Jobs
      PROVE  SkillRead(skillJob'[i])
  <2>1. skillJob'[i] = r \/ skillJob'[i] = skillJob[i]
    BY <1>2 DEF SkillsInv
  <2> QED
    BY <1>1, <1>2, <2>1
<1>3. SkillRead(S!Idle)
  BY DEF SkillRead, S!Idle
<1> QED
  BY <1>1, <1>2, <1>3

\* A request that changes the stores, or only the combination, or only itself.
LEMMA StoresStep ==
  ASSUME SkillsTyped, StoresTyped', CombinationTyped', UNCHANGED <<head, tree>>,
         \A j \in Jobs : SkillRead(skillJob'[j])
  PROVE  SkillsTyped'
BY DEF SkillsTyped, GithubTyped, SkillRead

LEMMA StoresSame ==
  ASSUME SkillsTyped, UNCHANGED <<skills, skillId, disk, index, skillList, skillCache>>
  PROVE  StoresTyped'
BY DEF SkillsTyped, StoresTyped, RowsTyped

LEMMA CombinationSame ==
  ASSUME SkillsTyped, UNCHANGED <<combo, items, named>> PROVE CombinationTyped'
BY DEF SkillsTyped, CombinationTyped

LEMMA CreateTyped ==
  ASSUME SkillsInv, SkillsTyped, NEW n \in Names, NEW s \in Sources \cup {S!NoSource},
         NEW ps \in SUBSET S!Paths, S!CreateSkill(n, s, ps)
  PROVE  SkillsTyped'
<1> DEFINE r == [name |-> n, source |-> s, tagged |-> FALSE, sha |-> 0]
<1>1. /\ UNCHANGED <<combo, items, named, head, tree, skillJob>>
      /\ S!Insert(r, ps, 0) \/ S!InsertFails(n, {})
  BY DEF S!CreateSkill, S!combination, S!github
<1>2. r \in S!Row
  BY CommitNumbers DEF S!Row
<1> HIDE DEF r
<1>3. StoresTyped
  BY DEF SkillsTyped
<1>4. StoresTyped'
  BY <1>1, <1>2, <1>3, CommitNumbers, InsertTyped, InsertFailsTyped
<1> QED
  BY <1>1, <1>4, CombinationSame, SkillReads, StoresStep

LEMMA UpdateTyped ==
  ASSUME SkillsInv, SkillsTyped, NEW id \in S!Ids, NEW row1 \in S!Row, NEW sent \in BOOLEAN,
         NEW ps \in SUBSET S!Paths, S!UpdateSkill(id, row1, sent, ps)
  PROVE  SkillsTyped'
<1>1. UNCHANGED <<skillId, combo, items, named, head, tree, skillJob>>
  BY DEF S!UpdateSkill, S!combination, S!github
<1>2. StoresTyped /\ S!ById(id) \in S!Row
  BY ListedTyped DEF S!UpdateSkill, SkillsTyped
<1>3. PICK moved : /\ moved \subseteq disk
                   /\ \/ /\ skills' = S!Updated(id, row1)
                         /\ \/ /\ disk' = S!Written(S!Without(moved, id, row1.name), id, row1.name, ps, 0)
                               /\ index' \in S!Indexes(id, ps)
                            \/ disk' = moved /\ UNCHANGED index
                         /\ S!InvalidateSkillCache
                      \/ /\ disk' = moved
                         /\ skillCache' = S!With(skillCache, id, S!ById(id))
                         /\ UNCHANGED <<skills, index, skillList>>
  <2> DEFINE moved == IF row1.name # S!ById(id).name THEN S!Without(disk, id, S!ById(id).name) ELSE disk
  <2>1. moved \subseteq disk
    BY FilesRemoved
  <2>2. \/ /\ skills' = S!Updated(id, row1)
           /\ \/ /\ disk' = S!Written(S!Without(moved, id, row1.name), id, row1.name, ps, 0)
                 /\ index' \in S!Indexes(id, ps)
              \/ disk' = moved /\ UNCHANGED index
           /\ S!InvalidateSkillCache
        \/ /\ disk' = moved
           /\ skillCache' = S!With(skillCache, id, S!ById(id))
           /\ UNCHANGED <<skills, index, skillList>>
    BY DEF S!UpdateSkill
  <2> HIDE DEF moved
  <2> QED
    BY <2>1, <2>2
<1>4. /\ moved \subseteq S!File /\ S!Without(moved, id, row1.name) \in SUBSET S!File
      /\ row1.name \in Names
  BY <1>2, <1>3, FilesRemoved DEF StoresTyped, S!Row
<1>5. disk' \subseteq S!File
  BY <1>3, <1>4, WrittenTyped, CommitNumbers
<1>6. index' \subseteq S!Ids \X S!Paths
  BY <1>2, <1>3, IndexedTyped DEF StoresTyped
<1>7. RowsTyped(skills')
  BY <1>2, <1>3, RowsUpdated DEF StoresTyped
<1>8. RowsTyped(skillList'.rows) /\ RowsTyped(skillCache')
  BY <1>2, <1>3, EmptyRows, RowsWritten DEF StoresTyped
<1>9. StoresTyped'
  BY <1>1, <1>2, <1>5, <1>6, <1>7, <1>8 DEF StoresTyped
<1> QED
  BY <1>1, <1>9, CombinationSame, SkillReads, StoresStep

LEMMA DeleteTyped ==
  ASSUME SkillsInv, SkillsTyped, NEW id, S!DeleteSkill(id) PROVE SkillsTyped'
<1>1. /\ UNCHANGED <<skillId, combo, named, head, tree, skillJob>> /\ disk' \subseteq disk
      /\ skills' = S!Restrict(skills, DOMAIN skills \ {id})
      /\ index' \subseteq index /\ items' \subseteq items /\ S!InvalidateSkillCache
  BY FilesRemoved DEF S!DeleteSkill, S!Unindexed, S!github
<1>2. StoresTyped /\ CombinationTyped
  BY DEF SkillsTyped
<1>3. RowsTyped(skills')
  BY <1>1, <1>2, RowsRestricted DEF StoresTyped
<1>4. disk' \subseteq S!File /\ index' \subseteq S!Ids \X S!Paths
  BY <1>1, <1>2 DEF StoresTyped
<1>5. StoresTyped' /\ CombinationTyped'
  BY <1>1, <1>2, <1>3, <1>4, EmptyRows DEF StoresTyped, CombinationTyped
<1> QED
  BY <1>1, <1>5, SkillReads, StoresStep

LEMMA UploadTyped ==
  ASSUME SkillsInv, SkillsTyped, NEW n \in Names, NEW ps \in SUBSET S!Paths,
         NEW broken \in SUBSET SUBSET S!Paths, S!Upload(n, ps, broken)
  PROVE  SkillsTyped'
<1> DEFINE r == [name |-> n, source |-> S!NoSource, tagged |-> FALSE, sha |-> 0]
<1>1. UNCHANGED <<combo, items, named, head, tree, skillJob>>
  BY DEF S!Upload, S!combination, S!github
<1>2. StoresTyped /\ r \in S!Row
  BY CommitNumbers DEF SkillsTyped, S!Row
<1>3. \/ \E id \in DOMAIN S!Listed : \/ S!Replace(id, n, r, ps, 0)
                                     \/ \E some \in broken : S!ReplaceFails(id, n, n, some)
      \/ S!Insert(r, ps, 0)
      \/ \E some \in broken : S!InsertFails(n, some)
  BY DEF S!Upload
<1>4. DOMAIN S!Listed \subseteq S!Ids
  BY <1>2, GivenAreIds DEF S!Listed, SkillsInv, StoresHoldGiven
<1> HIDE DEF r
<1>5. ASSUME NEW id \in DOMAIN S!Listed,
             \/ S!Replace(id, n, r, ps, 0)
             \/ \E some \in broken : S!ReplaceFails(id, n, n, some)
      PROVE  StoresTyped'
  BY <1>2, <1>4, <1>5, CommitNumbers, ReplaceTyped, ReplaceFailsTyped
<1>6. ASSUME S!Insert(r, ps, 0) \/ \E some \in broken : S!InsertFails(n, some)
      PROVE  StoresTyped'
  BY <1>2, <1>6, CommitNumbers, InsertTyped, InsertFailsTyped
<1>7. StoresTyped'
  BY <1>3, <1>5, <1>6
<1> QED
  BY <1>1, <1>7, CombinationSame, SkillReads, StoresStep

LEMMA CombineTyped ==
  ASSUME SkillsInv, SkillsTyped, S!EditCombination PROVE SkillsTyped'
<1>1. UNCHANGED <<skills, skillId, disk, index, skillCache, skillList, head, tree, skillJob>>
  BY DEF S!EditCombination, S!caches, S!github
<1>2. CombinationTyped'
  BY DEF S!EditCombination, SkillsTyped, CombinationTyped
<1> QED
  BY <1>1, <1>2, StoresSame, SkillReads, StoresStep

LEMMA BeginReadTyped ==
  ASSUME SkillsInv, SkillsTyped, NEW j \in Jobs, S!BeginRead(j) PROVE SkillsTyped'
<1> DEFINE r == [op |-> "read", listed |-> skills]
<1>1. /\ skillJob' = [skillJob EXCEPT ![j] = r]
      /\ UNCHANGED <<skills, skillId, disk, index, skillCache, skillList, combo, items, named, head, tree>>
  BY DEF S!BeginRead, S!Begin, S!Unchanged, S!caches, S!combination, S!github
<1>2. SkillRead(r)
  BY DEF SkillsTyped, StoresTyped, SkillRead
<1> HIDE DEF r
<1> QED
  BY <1>1, <1>2, StoresSame, CombinationSame, SkillReads, StoresStep

LEMMA EndReadTyped ==
  ASSUME SkillsInv, SkillsTyped, NEW j \in Jobs, S!EndRead(j) PROVE SkillsTyped'
<1>1. /\ skillJob[j].op = "read" /\ skillJob' = [skillJob EXCEPT ![j] = S!Idle]
      /\ UNCHANGED <<skills, skillId, disk, index, combo, items, named, head, tree>>
  BY DEF S!EndRead, S!End, S!Unchanged, S!combination, S!github
<1>2. RowsTyped(skillJob[j].listed) /\ StoresTyped
  BY <1>1 DEF SkillsTyped, SkillRead
<1>3. \/ skillList' = [cached |-> TRUE, rows |-> skillJob[j].listed] /\ UNCHANGED skillCache
      \/ /\ \E id \in DOMAIN skillJob[j].listed :
               skillCache' = S!With(skillCache, id, skillJob[j].listed[id])
         /\ UNCHANGED skillList
  BY DEF S!EndRead
<1>4. RowsTyped(skillList'.rows) /\ RowsTyped(skillCache')
  <2>1. CASE skillList' = [cached |-> TRUE, rows |-> skillJob[j].listed] /\ UNCHANGED skillCache
    BY <1>2, <2>1 DEF StoresTyped
  <2>2. ASSUME NEW id \in DOMAIN skillJob[j].listed, UNCHANGED skillList,
               skillCache' = S!With(skillCache, id, skillJob[j].listed[id])
        PROVE  RowsTyped(skillList'.rows) /\ RowsTyped(skillCache')
    <3>1. skillJob[j].listed[id] \in S!Row
      BY <1>2 DEF RowsTyped
    <3> QED
      BY <1>2, <2>2, <3>1, RowsWritten DEF StoresTyped
  <2> QED
    BY <1>3, <2>1, <2>2
<1>5. StoresTyped'
  BY <1>1, <1>2, <1>4 DEF StoresTyped, RowsTyped
<1> QED
  BY <1>1, <1>5, CombinationSame, SkillReads, StoresStep

LEMMA ExpiryTyped ==
  ASSUME SkillsInv, SkillsTyped, S!CacheExpires PROVE SkillsTyped'
<1>1. /\ UNCHANGED <<skills, skillId, disk, index, combo, items, named, head, tree, skillJob>>
      /\ S!InvalidateSkillCache
  BY DEF S!CacheExpires, S!Unchanged, S!combination, S!github
<1>2. StoresTyped'
  BY <1>1, EmptyRows DEF SkillsTyped, StoresTyped, RowsTyped
<1> QED
  BY <1>1, <1>2, CombinationSame, SkillReads, StoresStep

LEMMA BeginImportTyped ==
  ASSUME SkillsInv, SkillsTyped, NEW j \in Jobs, NEW s \in Sources, S!BeginImport(j, s)
  PROVE  SkillsTyped'
<1> DEFINE D   == {id \in DOMAIN S!Listed : S!Listed[id].source = s}
           old == S!Restrict(S!Listed, D)
           r   == [op |-> "import", listed |-> old, source |-> s]
<1>1. /\ skillJob' = [skillJob EXCEPT ![j] = r]
      /\ UNCHANGED <<skills, skillId, disk, index, skillCache, skillList, combo, items, named, head, tree>>
  BY DEF S!BeginImport, S!Begin, S!Unchanged, S!caches, S!combination, S!github
<1>2. D \subseteq DOMAIN S!Listed /\ RowsTyped(S!Listed)
  BY ListedTyped DEF SkillsTyped
<1> HIDE DEF D
<1>3. RowsTyped(old)
  BY <1>2, RowsRestricted
<1> HIDE DEF old
<1>4. SkillRead(r)
  BY <1>3 DEF SkillRead
<1> HIDE DEF r
<1> QED
  BY <1>1, <1>4, StoresSame, CombinationSame, SkillReads, StoresStep

LEMMA FetchTyped ==
  ASSUME SkillsInv, SkillsTyped, NEW j \in Jobs, S!FetchSkill(j) PROVE SkillsTyped'
<1>1. /\ skillJob[j].op = "import"
      /\ UNCHANGED <<skills, skillId, disk, index, skillCache, skillList, combo, items, named, head, tree>>
  BY DEF S!FetchSkill, S!Unchanged, S!caches, S!combination, S!github
<1>2. PICK f \in S!Fetched(skillJob[j].source) : skillJob' = [skillJob EXCEPT ![j] =
                              [op |-> "write", listed |-> skillJob[j].listed, found |-> f]]
  BY DEF S!FetchSkill
<1>3. RowsTyped(skillJob[j].listed) /\ skillJob[j].source \in Sources
  BY <1>1 DEF SkillsTyped, SkillRead
<1>4. f \in S!Found
  BY <1>2, <1>3, FetchedTyped DEF SkillsTyped
<1> DEFINE r == [op |-> "write", listed |-> skillJob[j].listed, found |-> f]
<1>5. SkillRead(r)
  BY <1>3, <1>4 DEF SkillRead
<1>6. skillJob' = [skillJob EXCEPT ![j] = r]
  BY <1>2
<1> HIDE DEF r
<1> QED
  BY <1>1, <1>5, <1>6, StoresSame, CombinationSame, SkillReads, StoresStep

\* The row and the files of a skill that was fetched.
LEMMA FoundTyped ==
  ASSUME NEW f \in S!Found, NEW tagged \in BOOLEAN, NEW sha \in 0 .. MaxCommit
  PROVE  /\ [name |-> f.name, source |-> f.source, tagged |-> tagged, sha |-> sha] \in S!Row
         /\ f.paths \in SUBSET S!Paths /\ f.ver \in 0 .. MaxCommit /\ f.name \in Names
BY CommitNumbers DEF S!Found, S!Row

LEMMA ShasTyped == ASSUME GithubTyped, NEW sha \in S!Shas PROVE sha \in 0 .. MaxCommit
BY CommitNumbers DEF GithubTyped, S!Shas

LEMMA FinishImportTyped ==
  ASSUME SkillsInv, SkillsTyped, NEW j \in Jobs, S!FinishImport(j) PROVE SkillsTyped'
<1> DEFINE f == skillJob[j].found
           row1(sha) == [name |-> f.name, source |-> f.source, tagged |-> FALSE, sha |-> sha]
<1>1. /\ skillJob[j].op = "write" /\ skillJob' = [skillJob EXCEPT ![j] = S!Idle]
      /\ UNCHANGED <<combo, items, named, head, tree>>
  BY DEF S!FinishImport, S!End, S!combination, S!github
<1>2. PICK sha \in S!Shas :
         \/ \E id \in DOMAIN skillJob[j].listed :
               \/ S!Replace(id, skillJob[j].listed[id].name, row1(sha), f.paths, f.ver)
               \/ S!ReplaceFails(id, skillJob[j].listed[id].name, f.name, {})
         \/ S!Insert(row1(sha), f.paths, f.ver) \/ S!InsertFails(f.name, {})
  BY DEF S!FinishImport
<1>3. StoresTyped /\ GithubTyped /\ f \in S!Found
  BY <1>1 DEF SkillsTyped, SkillRead
<1>4. DOMAIN skillJob[j].listed \subseteq S!Ids
  BY <1>1, <1>3, GivenAreIds DEF SkillsInv, SkillJob
<1>5. row1(sha) \in S!Row /\ f.paths \in SUBSET S!Paths /\ f.ver \in 0 .. MaxCommit /\ f.name \in Names
  BY <1>2, <1>3, FoundTyped, ShasTyped
<1> DEFINE new == row1(sha)
<1>6. /\ new \in S!Row
      /\ \/ \E id \in DOMAIN skillJob[j].listed :
               \/ S!Replace(id, skillJob[j].listed[id].name, new, f.paths, f.ver)
               \/ S!ReplaceFails(id, skillJob[j].listed[id].name, f.name, {})
         \/ S!Insert(new, f.paths, f.ver) \/ S!InsertFails(f.name, {})
  BY <1>2, <1>5
<1> HIDE DEF new, f
<1>7. StoresTyped'
  BY <1>3, <1>4, <1>5, <1>6, ReplaceTyped, ReplaceFailsTyped, InsertTyped, InsertFailsTyped
<1> QED
  BY <1>1, <1>7, CombinationSame, SkillReads, StoresStep

LEMMA BeginImportRepoTyped ==
  ASSUME SkillsInv, SkillsTyped, NEW j \in Jobs, S!BeginImportRepo(j) PROVE SkillsTyped'
<1>1. PICK found \in S!Discovered, sha \in S!Shas :
        /\ combo' = (combo \/ S!Cardinality(found) > 1)
        /\ skillJob' = [skillJob EXCEPT ![j] =
             [op |-> "repo", listed |-> S!Tagged, found |-> found, sha |-> sha, join |-> combo']]
  BY DEF S!BeginImportRepo, S!Begin
<1>2. UNCHANGED <<skills, skillId, disk, index, skillCache, skillList, items, named, head, tree>>
  BY DEF S!BeginImportRepo, S!caches, S!github
<1> DEFINE r == [op |-> "repo", listed |-> S!Tagged, found |-> found, sha |-> sha, join |-> combo']
<1>3. /\ found \subseteq S!Found /\ sha \in 0 .. MaxCommit /\ RowsTyped(S!Tagged)
  BY ListedTyped, DiscoveredTyped, ShasTyped DEF SkillsTyped
<1>4. SkillRead(r)
  BY <1>3 DEF SkillRead
<1>5. skillJob' = [skillJob EXCEPT ![j] = r]
  BY <1>1
<1>6. CombinationTyped'
  BY <1>1, <1>2 DEF SkillsTyped, CombinationTyped
<1> HIDE DEF r
<1> QED
  BY <1>2, <1>4, <1>5, <1>6, StoresSame, SkillReads, StoresStep

LEMMA ImportOneTyped ==
  ASSUME SkillsInv, SkillsTyped, NEW j \in Jobs, S!ImportOne(j) PROVE SkillsTyped'
<1> DEFINE old == skillJob[j].listed
           row1(f) == [name |-> f.name, source |-> f.source, tagged |-> TRUE,
                       sha |-> skillJob[j].sha]
<1>1. skillJob[j].op = "repo" /\ UNCHANGED <<combo, named, head, tree>>
  BY DEF S!ImportOne, S!github
<1>2. /\ StoresTyped /\ CombinationTyped /\ SkillRead(skillJob[j])
      /\ skillJob[j].found \subseteq S!Found /\ skillJob[j].sha \in 0 .. MaxCommit
      /\ {"op", "listed"} \subseteq DOMAIN skillJob[j] /\ DOMAIN old \subseteq Given
  BY <1>1 DEF SkillsTyped, SkillRead, SkillsInv, SkillJob
<1>3. PICK f \in skillJob[j].found :
        /\ \/ \E id \in DOMAIN old : /\ \/ S!Replace(id, old[id].name, row1(f), f.paths, f.ver)
                                        \/ S!ReplaceFails(id, old[id].name, f.name, {})
                                     /\ items' \in {items, items \cup {id}}
           \/ /\ S!Insert(row1(f), f.paths, f.ver)
              /\ items' \in {items, items \cup {S!NewId}}
           \/ S!InsertFails(f.name, {}) /\ UNCHANGED items
        /\ skillJob' = [skillJob EXCEPT ![j] = IF skillJob[j].found = {f} THEN S!Idle
                           ELSE [skillJob[j] EXCEPT !.found = skillJob[j].found \ {f}]]
  BY DEF S!ImportOne
<1> DEFINE new == row1(f)
<1>4. new \in S!Row /\ f.paths \in SUBSET S!Paths /\ f.ver \in 0 .. MaxCommit /\ f.name \in Names
  BY <1>2, FoundTyped
<1>5. /\ \/ \E id \in DOMAIN old : \/ S!Replace(id, old[id].name, new, f.paths, f.ver)
                                   \/ S!ReplaceFails(id, old[id].name, f.name, {})
         \/ S!Insert(new, f.paths, f.ver)
         \/ S!InsertFails(f.name, {})
      /\ \/ \E id \in DOMAIN old : items' \in {items, items \cup {id}}
         \/ S!CanCreate /\ items' \in {items, items \cup {skillId}}
         \/ UNCHANGED items
  BY <1>3 DEF S!Insert, S!NewId
<1> HIDE DEF new
<1>6. StoresTyped'
  <2>1. DOMAIN old \subseteq S!Ids
    BY <1>2, GivenAreIds
  <2> HIDE DEF old
  <2> QED
    BY <1>2, <1>4, <1>5, <2>1, ReplaceTyped, ReplaceFailsTyped, InsertTyped, InsertFailsTyped
<1>7. CombinationTyped'
  <2>1. DOMAIN old \subseteq S!Ids
    BY <1>2, GivenAreIds
  <2>2. S!CanCreate => skillId \in S!Ids
    BY <1>2, NextIdTyped
  <2> HIDE DEF old
  <2> QED
    BY <1>1, <1>2, <1>5, <2>1, <2>2 DEF CombinationTyped
<1> DEFINE r == [skillJob[j] EXCEPT !.found = skillJob[j].found \ {f}]
<1>8. SkillRead(r)
  BY <1>1, <1>2 DEF SkillRead
<1>9. skillJob' = [skillJob EXCEPT ![j] = IF skillJob[j].found = {f} THEN S!Idle ELSE r]
  BY <1>3
<1> HIDE DEF r
<1>10. \A i \in Jobs : SkillRead(skillJob'[i])
  BY <1>8, <1>9, SkillReads
<1> QED
  BY <1>1, <1>6, <1>7, <1>10, StoresStep

LEMMA BeginSyncTyped ==
  ASSUME SkillsInv, SkillsTyped, NEW j \in Jobs, S!BeginSync(j) PROVE SkillsTyped'
<1>1. PICK found \in S!Discovered : skillJob' = [skillJob EXCEPT ![j] =
                                 [op |-> "sync", listed |-> S!Tagged, found |-> found]]
  BY DEF S!BeginSync, S!Begin
<1>2. UNCHANGED <<skills, skillId, disk, index, skillCache, skillList, combo, items, named, head, tree>>
  BY DEF S!BeginSync, S!Unchanged, S!caches, S!combination, S!github
<1> DEFINE r == [op |-> "sync", listed |-> S!Tagged, found |-> found]
<1>3. found \subseteq S!Found /\ RowsTyped(S!Tagged)
  BY ListedTyped, DiscoveredTyped DEF SkillsTyped
<1>4. SkillRead(r)
  BY <1>3 DEF SkillRead
<1>5. skillJob' = [skillJob EXCEPT ![j] = r]
  BY <1>1
<1> HIDE DEF r
<1> QED
  BY <1>2, <1>4, <1>5, StoresSame, CombinationSame, SkillReads, StoresStep

LEMMA SyncSkillTyped ==
  ASSUME SkillsInv, SkillsTyped, NEW j \in Jobs, S!SyncOne(j) PROVE SkillsTyped'
<1>1. /\ skillJob[j].op = "sync" /\ UNCHANGED <<skillId, combo, items, named, head, tree>>
      /\ S!InvalidateSkillCache
  BY DEF S!SyncOne, S!combination, S!github
<1>2. /\ StoresTyped /\ SkillRead(skillJob[j])
      /\ skillJob[j].found \subseteq S!Found /\ RowsTyped(skillJob[j].listed)
      /\ {"op", "listed"} \subseteq DOMAIN skillJob[j] /\ DOMAIN skillJob[j].listed \subseteq Given
  BY <1>1 DEF SkillsTyped, SkillRead, SkillsInv, SkillJob
<1>3. PICK f \in skillJob[j].found, id \in DOMAIN skillJob[j].listed :
        /\ skills' = S!Updated(id, [skillJob[j].listed[id] EXCEPT !.name = f.name])
        /\ \E old : disk' = S!Written(S!Without(disk, id, old), id, f.name, f.paths, f.ver)
        /\ index' \in S!Indexes(id, f.paths)
        /\ skillJob' = [skillJob EXCEPT ![j].found = @ \ {f}]
  BY DEF S!SyncOne
<1>4. f.paths \in SUBSET S!Paths /\ f.ver \in 0 .. MaxCommit /\ f.name \in Names
  BY <1>2, FoundTyped, CommitNumbers
<1>5. id \in S!Ids
  BY <1>2, GivenAreIds
<1>6. RowsTyped(skills')
  <2>1. [skillJob[j].listed[id] EXCEPT !.name = f.name] \in S!Row
    BY <1>2, <1>4 DEF RowsTyped, S!Row
  <2> QED
    BY <1>2, <1>3, <2>1, RowsUpdated DEF StoresTyped
<1>7. disk' \subseteq S!File
  <2>1. PICK old : disk' = S!Written(S!Without(disk, id, old), id, f.name, f.paths, f.ver)
    BY <1>3
  <2>2. S!Without(disk, id, old) \in SUBSET S!File
    BY <1>2, FilesRemoved DEF StoresTyped
  <2> QED
    BY <1>4, <1>5, <2>1, <2>2, WrittenTyped
<1>8. index' \subseteq S!Ids \X S!Paths
  BY <1>2, <1>3, <1>4, <1>5, IndexedTyped DEF StoresTyped
<1>9. StoresTyped'
  BY <1>1, <1>2, <1>6, <1>7, <1>8, EmptyRows DEF StoresTyped
<1> DEFINE r == [skillJob[j] EXCEPT !.found = skillJob[j].found \ {f}]
<1>10. SkillRead(r)
  BY <1>1, <1>2 DEF SkillRead
<1>11. skillJob' = [skillJob EXCEPT ![j] = r]
  BY <1>3
<1> HIDE DEF r
<1> QED
  BY <1>1, <1>9, <1>10, <1>11, CombinationSame, SkillReads, StoresStep

LEMMA FinishSyncTyped ==
  ASSUME SkillsInv, SkillsTyped, NEW j \in Jobs, S!FinishSync(j) PROVE SkillsTyped'
<1>1. /\ skillJob[j].op = "sync" /\ skillJob' = [skillJob EXCEPT ![j] = S!Idle]
      /\ UNCHANGED <<skillId, disk, index, combo, items, named, head, tree>>
  BY DEF S!FinishSync, S!End, S!combination, S!github
<1>2. StoresTyped /\ RowsTyped(skillJob[j].listed) /\ head \in 0 .. MaxCommit
  BY <1>1, CommitNumbers DEF SkillsTyped, SkillRead, GithubTyped
<1>3. \/ /\ skills' = [id \in DOMAIN skills |->
                         IF id \in DOMAIN skillJob[j].listed
                         THEN [skillJob[j].listed[id] EXCEPT !.sha = head] ELSE skills[id]]
         /\ S!InvalidateSkillCache
      \/ UNCHANGED <<skills, skillCache, skillList>>
  BY DEF S!FinishSync, S!caches
<1>4. \A r \in S!Row : [r EXCEPT !.sha = head] \in S!Row
  BY <1>2 DEF S!Row
<1>5. RowsTyped(skills')
  BY <1>2, <1>3, <1>4 DEF StoresTyped, RowsTyped
<1>6. StoresTyped'
  BY <1>1, <1>2, <1>3, <1>5, EmptyRows DEF StoresTyped, RowsTyped
<1> QED
  BY <1>1, <1>6, CombinationSame, SkillReads, StoresStep

LEMMA GiveUpTyped ==
  ASSUME SkillsInv, SkillsTyped, NEW j \in Jobs, S!End(j), UNCHANGED S!caches, S!Unchanged
  PROVE  SkillsTyped'
<1>1. /\ skillJob' = [skillJob EXCEPT ![j] = S!Idle]
      /\ UNCHANGED <<skills, skillId, disk, index, skillCache, skillList, combo, items, named, head, tree>>
  BY DEF S!End, S!Unchanged, S!caches, S!combination, S!github
<1> QED
  BY <1>1, StoresSame, CombinationSame, SkillReads, StoresStep

LEMMA CommitTyped ==
  ASSUME SkillsInv, SkillsTyped, S!Commit PROVE SkillsTyped'
<1>1. /\ head < MaxCommit /\ head' = head + 1
      /\ UNCHANGED <<skills, skillId, disk, index, skillCache, skillList, combo, items, named, skillJob>>
  BY DEF S!Commit, S!caches, S!combination
<1>2. PICK s \in Sources, n \in Names, ps \in SUBSET S!Paths :
        tree' = [tree EXCEPT ![s] = [name |-> n, files |-> ps]]
  BY DEF S!Commit
<1>3. head \in 1 .. MaxCommit /\ tree \in [Sources -> [name : Names, files : SUBSET S!Paths]]
  BY DEF SkillsTyped, GithubTyped
<1>4. head' \in 1 .. MaxCommit
  BY <1>1, <1>3, AdminAssumption
<1>5. tree' \in [Sources -> [name : Names, files : SUBSET S!Paths]]
  BY <1>2, <1>3
<1>6. StoresTyped' /\ CombinationTyped' /\ \A j \in Jobs : SkillRead(skillJob'[j])
  BY <1>1, StoresSame, CombinationSame, SkillReads
<1> QED
  BY <1>4, <1>5, <1>6 DEF SkillsTyped, GithubTyped, SkillRead

LEMMA EditTyped ==
  ASSUME SkillsInv, SkillsTyped, S!Edit PROVE SkillsTyped'
<1>1. PICK n \in Names, ps \in SUBSET S!Paths :
        \/ \E s \in Sources \cup {S!NoSource} :
              \/ S!CreateSkill(n, s, ps)
              \/ \E id \in S!Ids, tagged, sent \in BOOLEAN :
                    S!UpdateSkill(id, [name |-> n, source |-> s, tagged |-> tagged,
                                       sha |-> 0], sent, ps)
        \/ ps # {} /\ (S!UploadSkill(n, ps) \/ S!UploadFolder(n, ps))
  BY DEF S!Edit
<1>2. ASSUME NEW s \in Sources \cup {S!NoSource}, NEW id \in S!Ids, NEW tagged \in BOOLEAN,
             NEW sent \in BOOLEAN,
             S!UpdateSkill(id, [name |-> n, source |-> s, tagged |-> tagged, sha |-> 0], sent, ps)
      PROVE  SkillsTyped'
  <2> DEFINE r == [name |-> n, source |-> s, tagged |-> tagged, sha |-> 0]
  <2>1. r \in S!Row /\ S!UpdateSkill(id, r, sent, ps)
    BY <1>2, CommitNumbers DEF S!Row
  <2> HIDE DEF r
  <2> QED
    BY <2>1, UpdateTyped
<1>3. ASSUME S!UploadSkill(n, ps) PROVE SkillsTyped'
  BY <1>3, UploadTyped DEF S!UploadSkill, S!Unzipped
<1>4. ASSUME S!UploadFolder(n, ps) PROVE SkillsTyped'
  <2>1. PICK written \in SUBSET ps : S!Upload(n, written, {{}})
    BY <1>4 DEF S!UploadFolder
  <2>2. written \in SUBSET S!Paths /\ {{}} \in SUBSET SUBSET S!Paths
    OBVIOUS
  <2> QED
    BY <2>1, <2>2, UploadTyped
<1> QED
  BY <1>1, <1>2, <1>3, <1>4, CreateTyped

LEMMA SkillsTypedNext ==
  ASSUME SkillsInv, SkillsTyped, S!Next \/ UNCHANGED library PROVE SkillsTyped'
<1>1. CASE UNCHANGED library
  <2>1. UNCHANGED <<skills, skillId, disk, index, combo, items, named, skillList, skillCache, tree, head,
                    skillJob>>
    BY <1>1 DEF library
  <2> QED
    BY <2>1, StoresSame, CombinationSame, SkillReads, StoresStep
<1>2. CASE S!Request
  BY <1>2, EditTyped, DeleteTyped, CombineTyped, BeginReadTyped, BeginImportTyped,
     BeginImportRepoTyped, BeginSyncTyped DEF S!Request
<1>3. ASSUME NEW j \in Jobs, S!Progress(j) PROVE SkillsTyped'
  BY <1>3, EndReadTyped, FetchTyped, FinishImportTyped, ImportOneTyped,
     SyncSkillTyped, FinishSyncTyped, GiveUpTyped DEF S!Progress
<1> QED
  BY <1>1, <1>2, <1>3, ExpiryTyped, CommitTyped DEF S!Next

LEMMA SkillsTypedFirst == ASSUME AdminInit PROVE SkillsTyped
<1>1. /\ skills = <<>> /\ skillId = 1 /\ disk = {} /\ index = {}
      /\ combo = FALSE /\ items = {} /\ named = {}
      /\ skillList = S!NoRows /\ skillCache = <<>> /\ head = 1
      /\ tree = [s \in Sources |-> [name |-> [t \in Sources |-> DefaultName][s], files |-> S!Paths]]
      /\ skillJob = [j \in Jobs |-> S!Idle]
  BY DEF AdminInit, S!Init
<1>2. StoresTyped
  <2>1. RowsTyped(<<>>) /\ RowsTyped(S!NoRows.rows) /\ 1 \in 1 .. MaxId + 1
    BY AdminAssumption DEF RowsTyped, S!NoRows
  <2> QED
    BY <1>1, <2>1 DEF StoresTyped
<1>3. GithubTyped
  BY <1>1, CommitNumbers, AdminAssumption DEF GithubTyped
<1>4. \A j \in Jobs : SkillRead(skillJob[j])
  BY <1>1 DEF SkillRead, S!Idle
<1> QED
  BY <1>1, <1>2, <1>3, <1>4 DEF SkillsTyped, CombinationTyped

\* What the module Skills calls its types.
LEMMA SkillTypes == ASSUME SkillsInv, SkillsTyped PROVE S!TypeOK
<1>1. /\ DOMAIN skills \subseteq 1 .. skillId - 1 /\ Given \subseteq S!Ids
      /\ DOMAIN skillCache \subseteq Given
  BY GivenAreIds DEF SkillsInv, StoresHoldGiven, SkillsTyped, Given
<1>2. /\ \A id \in DOMAIN skills : skills[id] \in S!Row
      /\ \A id \in DOMAIN skillCache : skillCache[id] \in S!Row
      /\ \A id \in DOMAIN skillList.rows : skillList.rows[id] \in S!Row
  BY DEF SkillsTyped, StoresTyped, RowsTyped
<1>3. /\ skillId \in 1 .. MaxId + 1 /\ disk \subseteq S!File /\ index \subseteq S!Ids \X S!Paths
      /\ combo \in BOOLEAN /\ items \subseteq S!Ids /\ named \subseteq S!Ids
      /\ head \in 1 .. MaxCommit
  BY DEF SkillsTyped, StoresTyped, CombinationTyped, GithubTyped
<1> QED
  BY <1>1, <1>2, <1>3 DEF S!TypeOK, S!Range

(***************************************************************************)
(* The types hold at every time: the tables and caches of the keys, of the *)
(* skills, of the catalog and of the virtual models hold rows of the       *)
(* declared kinds under ids that AUTOINCREMENT has given out, and a row    *)
(* that a request took with it, or wrote back later, is one as well        *)
(* (store/api_key.go, skill.go, model.go, channel.go, virtual_model.go).   *)
(***************************************************************************)
THEOREM AdminTypes == AdminSpec => []TypesOK
<1> DEFINE I == /\ KeysInv /\ TypeOK /\ SkillsInv /\ SkillsTyped
                /\ CatalogInv /\ CatalogTyped /\ VirtualTyped
<1>1. ASSUME AdminInit PROVE I
  BY <1>1, KeysInit, KeysTyped, SkillsFirst, SkillsTypedFirst, CatalogFirst, CatalogTypedFirst,
     VirtualTypedFirst
<1>2. ASSUME I, [AdminNext]_<<part, vars, library, catalog, virtual>> PROVE I'
  <2>1. KeysInv' /\ SkillsInv' /\ CatalogInv'
    BY <1>2, KeysStep, SkillsAlways, CatalogAlways
  <2>2. TypeOK'
    <3>1. CASE part' = "keys"
      BY <2>1, <3>1 DEF KeysInv, IInv
    <3>2. CASE part' # "keys"
      <4>1. UNCHANGED vars
        BY <1>2, <3>2 DEF AdminNext
      <4> QED
        BY <1>2, <4>1 DEF vars, TypeOK
    <3> QED
      BY <3>1, <3>2
  <2>3. SkillsTyped'
    BY <1>2, SkillsTypedNext DEF AdminNext
  <2>4. CatalogTyped'
    BY <1>2, CatalogTypedNext DEF AdminNext
  <2>5. VirtualTyped'
    BY <1>2, VirtualTypedNext DEF AdminNext
  <2> QED
    BY <2>1, <2>2, <2>3, <2>4, <2>5
<1>3. ASSUME I PROVE TypesOK
  BY <1>3, SkillTypes, CatalogTypes DEF TypesOK, VirtualTyped
<1> HIDE DEF I
<1> QED
  BY <1>1, <1>2, <1>3, PTL DEF AdminSpec
=============================================================================
