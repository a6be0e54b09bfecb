------------------------------- MODULE ApiKeys -------------------------------
(***************************************************************************)
(* API keys: the table api_keys, the process-wide cache in front of it     *)
(* (store/api_key.go), the requests that are admitted by it and charged    *)
(* after their answer (handler/proxy.go), and the administrators who       *)
(* change keys meanwhile (handler/api_key.go).                             *)
(*                                                                         *)
(* GetByKey looks into the cache under the read lock, reads the table      *)
(* without a lock, and stores what it read under the write lock; an        *)
(* administrator's handler writes the table and then clears the cache.     *)
(*                                                                         *)
(* A charge is one unit; balances are counted in units.  The list of       *)
(* allowed models is left out.                                             *)
(*                                                                         *)
(* Bounds: each member of Requests is one request and each member of       *)
(* Admins makes one change; a change sets a balance from Balances.         *)
(***************************************************************************)
EXTENDS Integers, FiniteSets

CONSTANTS Keys, Requests, Admins, Balances

ASSUME RequestsAssumption == IsFiniteSet(Requests)
ASSUME BalancesAssumption == Balances \subseteq Nat

VARIABLES row,    \* the table api_keys
          cache,  \* apiKeyCache: none or one entry for each key
          req,    \* each request and the goroutine that records its usage
          admin   \* each administrator's handler

vars == <<row, cache, req, admin>>

Row == [state : {"unborn", "on", "off", "deleted"}, limited : BOOLEAN,
        balance : Nat, used : Nat]

(* overtaken: the cache was cleared between the request's read of the      *)
(* table and its write of the cache.                                       *)
Request == [pc : {"arrived", "missed", "read", "refused", "admitted", "answered",
                  "charged", "over"},
            key : Keys, copy : Row, overtaken : BOOLEAN]

Entry == [copy : Row, by : Requests]

TypeOK ==
  /\ row \in [Keys -> Row]
  /\ cache \in [Keys -> SUBSET Entry]
  /\ \A k \in Keys : \A e, f \in cache[k] : e = f
  /\ req \in [Requests -> Request]
  /\ admin \in [Admins -> [pc : {"idle", "written", "done"}, key : Keys]]

Unborn == [state |-> "unborn", limited |-> FALSE, balance |-> 0, used |-> 0]

Init ==
  /\ row \in [Keys -> {Unborn} \cup [state : {"on", "off"}, limited : BOOLEAN,
                                     balance : Balances, used : {0}]]
  /\ cache = [k \in Keys |-> {}]
  /\ req \in [Requests -> [pc : {"arrived"}, key : Keys, copy : {Unborn}, overtaken : {FALSE}]]
  /\ admin \in [Admins -> [pc : {"idle"}, key : Keys]]

-----------------------------------------------------------------------------
(* A request: resolveAndValidateAPIKey and GetByKey *)

(* The row is read with enabled = 1; a limited key needs a balance.        *)
Verdict(copy) == IF copy.limited /\ copy.balance = 0 THEN "refused" ELSE "admitted"

To(r, pc) == req' = [req EXCEPT ![r].pc = pc]

Hit(r) ==
  /\ req[r].pc = "arrived"
  /\ \E e \in cache[req[r].key] :
       req' = [req EXCEPT ![r].pc = Verdict(e.copy), ![r].copy = e.copy]
  /\ UNCHANGED <<row, cache, admin>>

Miss(r) ==
  /\ req[r].pc = "arrived"
  /\ cache[req[r].key] = {}
  /\ To(r, "missed")
  /\ UNCHANGED <<row, cache, admin>>

(* The query finds an enabled key, or it finds none or fails.              *)
Read(r) ==
  /\ req[r].pc = "missed"
  /\ \/ /\ row[req[r].key].state = "on"
        /\ req' = [req EXCEPT ![r].pc = "read", ![r].copy = row[req[r].key]]
     \/ To(r, "refused")
  /\ UNCHANGED <<row, cache, admin>>

Fill(r) ==
  /\ req[r].pc = "read"
  /\ cache' = [cache EXCEPT ![req[r].key] = {[copy |-> req[r].copy, by |-> r]}]
  /\ To(r, Verdict(req[r].copy))
  /\ UNCHANGED <<row, admin>>

(* The request is answered and has a cost, or is over without one.         *)
Answer(r) ==
  /\ req[r].pc = "admitted"
  /\ \E pc \in {"answered", "over"} : To(r, pc)
  /\ UNCHANGED <<row, cache, admin>>

(* Mutant: the balance may fall below zero.                                *)
Deducted_BelowZero(w) ==
  [w EXCEPT !.used = @ + 1, !.balance = IF w.limited THEN @ - 1 ELSE @]

Deducted(w) ==
  [state |-> w.state, limited |-> w.limited, used |-> w.used + 1,
   balance |-> IF w.limited /\ w.balance > 0 THEN w.balance - 1 ELSE w.balance]

(* Mutant: the counters are computed from what the request read.           *)
Charge_FromCopy(r) ==
  /\ req[r].pc = "answered"
  /\ LET k == req[r].key
     IN \/ /\ row[k].state \in {"on", "off"}
           /\ row' = [row EXCEPT ![k].used = req[r].copy.used + 1]
           /\ To(r, "charged")
        \/ UNCHANGED row /\ To(r, "over")
  /\ UNCHANGED <<cache, admin>>

(* DeductQuota is one UPDATE of the row; it fails, or there is no row.     *)
(* The cache is left as it is.                                             *)
Charge(r) ==
  /\ req[r].pc = "answered"
  /\ LET k == req[r].key
     IN \/ /\ row[k].state \in {"on", "off"}
           /\ row' = [row EXCEPT ![k] = Deducted(@)]
           /\ To(r, "charged")
        \/ UNCHANGED row /\ To(r, "over")
  /\ UNCHANGED <<cache, admin>>

(* Five minutes after it was stored an entry is no longer used.            *)
Expire(k) ==
  /\ cache[k] # {}
  /\ cache' = [cache EXCEPT ![k] = {}]
  /\ UNCHANGED <<row, req, admin>>

-----------------------------------------------------------------------------
(* An administrator: Create, Toggle, Delete and UpdateConfig *)

Toggled(w) == [w EXCEPT !.state = IF w.state = "on" THEN "off" ELSE "on"]

Removed(w) == [w EXCEPT !.state = "deleted"]

Configured(w, l, b) == [w EXCEPT !.limited = l, !.balance = b]

(* What one statement may make of a row; none finds a deleted one.         *)
Changed(w) ==
  CASE w.state = "unborn"  -> {[Unborn EXCEPT !.state = "on"]}
    [] w.state = "deleted" -> {w}
    [] OTHER -> {Toggled(w), Removed(w)} \cup {Configured(w, l, b) : l \in BOOLEAN, b \in Balances}

(* The statement succeeds, or the handler returns an error.                *)
Change(a) ==
  /\ admin[a].pc = "idle"
  /\ \/ /\ \E w \in Changed(row[admin[a].key]) : row' = [row EXCEPT ![admin[a].key] = w]
        /\ admin' = [admin EXCEPT ![a].pc = "written"]
     \/ /\ admin' = [admin EXCEPT ![a].pc = "done"]
        /\ UNCHANGED row
  /\ UNCHANGED <<cache, req>>

(* Mutant: the handler does not clear the cache.                           *)
Invalidate_Forgotten(a) ==
  /\ admin[a].pc = "written"
  /\ admin' = [admin EXCEPT ![a].pc = "done"]
  /\ UNCHANGED <<row, cache, req>>

(* InvalidateAPIKeyCache replaces the whole map.                           *)
Invalidate(a) ==
  /\ admin[a].pc = "written"
  /\ cache' = [k \in Keys |-> {}]
  /\ req' = [r \in Requests |->
              IF req[r].pc = "read" THEN [req[r] EXCEPT !.overtaken = TRUE] ELSE req[r]]
  /\ admin' = [admin EXCEPT ![a].pc = "done"]
  /\ UNCHANGED row

(* The program stops and is started again: the table is what is left.      *)
Ended(q) == IF q.pc = "charged" THEN q ELSE [q EXCEPT !.pc = "over"]

Restart ==
  /\ cache' = [k \in Keys |-> {}]
  /\ req' = [r \in Requests |-> IF req[r].pc = "arrived" THEN req[r] ELSE Ended(req[r])]
  /\ admin' = [a \in Admins |->
                IF admin[a].pc = "written" THEN [admin[a] EXCEPT !.pc = "done"] ELSE admin[a]]
  /\ UNCHANGED row

Next ==
  \/ \E r \in Requests : Hit(r) \/ Miss(r) \/ Read(r) \/ Fill(r) \/ Answer(r) \/ Charge(r)
  \/ \E k \in Keys : Expire(k)
  \/ \E a \in Admins : Change(a) \/ Invalidate(a)
  \/ Restart

Spec == Init /\ [][Next]_vars

-----------------------------------------------------------------------------
(* However requests and administrators overlap, and across restarts, a key *)
(* has been charged for exactly the requests whose DeductQuota succeeded:  *)
(* no charge is lost to a concurrent one and none is made twice.           *)
Charged(k) == {r \in Requests : req[r].key = k /\ req[r].pc = "charged"}

UsedIsCharged ==
  \A k \in Keys : row[k].state # "deleted" => row[k].used = Cardinality(Charged(k))

(* A cached entry that disagrees with the table about whether the key is   *)
(* enabled or limited is about to be cleared, or it was stored by a        *)
(* request that the clearing overtook: there is no other way to keep one.  *)
Stale(w, k) == row[k].state # "on" \/ row[k].limited # w.limited

Excused(r, k) == req[r].overtaken \/ \E a \in Admins : admin[a].pc = "written" /\ admin[a].key = k

StaleOnlyIfOvertaken ==
  \A k \in Keys : \A e \in cache[k] : Stale(e.copy, k) => Excused(e.by, k)

Admitted(r) == req[r].pc = "arrived" /\ req'[r].pc = "admitted"

(* An admitted key that is limited has a balance left                      *)
(* (handler/proxy.go:777).                                                 *)
ExhaustedIsRefused ==
  [][\A r \in Requests :
       Admitted(r) /\ (\A a \in Admins : admin[a].pc # "written")
         => ~row[req[r].key].limited \/ row[req[r].key].balance > 0]_vars
=============================================================================
