----------------------------- MODULE UsageBuffer -----------------------------
(***************************************************************************)
(* Usage records (store/usage.go): the buffered channel that recordUsage   *)
(* fills, the goroutine that writes batches, the direct path taken when    *)
(* the channel is full, and the two tables usage_records and usage_daily,  *)
(* with what a start of the program does to them (store/db.go).            *)
(*                                                                         *)
(* usage_daily has one row for each day, API key and model; KeyOf[r] is    *)
(* the key and model of r.  A record without an API key has NULL there,    *)
(* which never conflicts with another NULL: such records get a row each,   *)
(* and daily counts the requests of all of them.                           *)
(*                                                                         *)
(* Bounds: every record is handed over once; the program starts MaxStarts  *)
(* times; the last midnight is the one before LastDay.                     *)
(***************************************************************************)
EXTENDS Naturals, Sequences, FiniteSets

CONSTANTS Records, Keys, NoKey, KeyOf,
          Capacity,   \* of the channel: 2000
          BatchSize,  \* 100
          MaxStarts, LastDay

Groups == Keys \cup {NoKey}
Days == 1 .. LastDay

ASSUME GroupsAssumption == NoKey \notin Keys /\ KeyOf \in [Records -> Groups]
ASSUME SizesAssumption == Capacity \in Nat \ {0} /\ BatchSize \in Nat \ {0}
ASSUME BoundsAssumption == MaxStarts \in Nat /\ LastDay \in Nat \ {0} /\ IsFiniteSet(Records)

VARIABLES starts, day,
          loop,      \* where flushUsageLoop is
          due,       \* records whose recordUsage has not called Insert
          buffer,    \* usageBuffer
          batch,     \* the loop's batch
          tx,        \* statements tried, and the rows the open transaction adds
          direct,    \* records on the direct path, and what they wait for
          rows,      \* usage_records, in the order of their ids
          daily,     \* usage_daily: requests of each day and group
          backfill,  \* where BackfillDailyAgg is
          dropped,   \* records given up, with a line in the log or by a stop
          blemished  \* whether usage_daily may differ from usage_records

queue == <<due, buffer, batch>>
tables == <<rows, daily>>
vars == <<starts, day, loop, queue, tx, direct, tables, backfill, dropped, blemished>>

Row == [rec : Records, day : Days]

NoTx == [at |-> 0, rows |-> <<>>, aggs |-> <<>>]

Items(s) == {s[i] : i \in DOMAIN s}

TypeOK ==
  /\ starts \in 0 .. MaxStarts /\ day \in Days
  /\ loop \in {"down", "wait", "writing", "aggregating"}
  /\ due \subseteq Records /\ dropped \subseteq Records
  /\ buffer \in Seq(Records) /\ Len(buffer) <= Capacity
  /\ batch \in Seq(Records) /\ Len(batch) <= BatchSize
  /\ loop = "wait" => Len(batch) < BatchSize
  /\ tx.at \in 0 .. Len(batch) /\ tx.rows \in Seq(Row) /\ tx.aggs \in Seq(Row)
  /\ direct \in [Records -> {"no", "row", "agg"}]
  /\ rows \in Seq(Row)
  /\ daily \in [Groups \X Days -> Nat]
  /\ backfill \in {"delete", "insert", "done"}
  /\ blemished \in BOOLEAN

Init ==
  /\ starts = 0 /\ day = 1 /\ loop = "down"
  /\ due = Records /\ buffer = <<>> /\ batch = <<>>
  /\ tx = NoTx
  /\ direct = [r \in Records |-> "no"]
  /\ rows = <<>> /\ daily = [g \in Groups \X Days |-> 0]
  /\ backfill = "done" /\ dropped = {} /\ blemished = FALSE

(* The requests of group g on day d among the rows s.                      *)
Count(s, g, d) == Cardinality({i \in DOMAIN s : KeyOf[s[i].rec] = g /\ s[i].day = d})

Agrees == \A g \in Groups, d \in Days : daily[<<g, d>>] = Count(rows, g, d)

(* SQLite has one writer; the others wait, or fail after ten seconds.      *)
Unlocked == tx.rows = <<>> /\ tx.aggs = <<>>

Blemish(when) == blemished' = (blemished \/ when)

-----------------------------------------------------------------------------
(* A start: migrate, InitUsageBuffer and BackfillDailyAgg *)

(* The upsert of backfillUsageDaily.                                       *)
Migrated ==
  [g \in Groups \X Days |->
    LET n == Count(rows, g[1], g[2])
    IN  CASE n = 0        -> daily[g]
          [] g[1] = NoKey -> daily[g] + n
          [] OTHER        -> n]

Start ==
  /\ loop = "down" /\ starts < MaxStarts
  /\ starts' = starts + 1
  /\ loop' = "wait" /\ backfill' = "delete"
  /\ \/ /\ daily' = Migrated
        /\ Blemish(\E g \in Groups, d \in Days : Migrated[<<g, d>>] # Count(rows, g, d))
     \/ UNCHANGED <<daily, blemished>>
  /\ UNCHANGED <<day, queue, tx, direct, rows, dropped>>

(* The DELETE succeeds or fails; the INSERT follows in any case.           *)
BackfillDelete ==
  /\ loop # "down" /\ backfill = "delete"
  /\ backfill' = "insert"
  /\ \/ Unlocked /\ daily' = [g \in Groups \X Days |-> 0]
     \/ UNCHANGED daily
  /\ Blemish(TRUE)
  /\ UNCHANGED <<starts, day, loop, queue, tx, direct, rows, dropped>>

(* A row that is there already makes the whole INSERT fail.                *)
Conflict == \E k \in Keys, d \in Days : daily[<<k, d>>] > 0 /\ Count(rows, k, d) > 0

Backfilled == [g \in Groups \X Days |-> daily[g] + Count(rows, g[1], g[2])]

BackfillInsert ==
  /\ loop # "down" /\ backfill = "insert"
  /\ backfill' = "done"
  /\ \/ /\ Unlocked /\ ~Conflict
        /\ daily' = Backfilled
        /\ blemished' = ~( /\ \A g \in Groups \X Days : daily[g] = 0
                           /\ \A r \in Records : direct[r] # "agg")
     \/ UNCHANGED <<daily, blemished>>
  /\ UNCHANGED <<starts, day, loop, queue, tx, direct, rows, dropped>>

(* The program stops or is killed; nothing flushes the buffer, and the     *)
(* goroutines of some answered requests (cut) have not called Insert.      *)
Stop ==
  /\ loop # "down"
  /\ loop' = "down"
  /\ \E cut \in SUBSET due :
       /\ due' = due \ cut
       /\ dropped' = dropped \cup cut \cup Items(buffer) \cup Items(batch)
                      \cup {r \in Records : direct[r] = "row"}
  /\ buffer' = <<>> /\ batch' = <<>> /\ tx' = NoTx
  /\ direct' = [r \in Records |-> "no"]
  /\ backfill' = "done"
  /\ Blemish(\E r \in Records : direct[r] = "agg")
  /\ UNCHANGED <<starts, day, tables>>

Midnight ==
  /\ day < LastDay
  /\ day' = day + 1
  /\ UNCHANGED <<starts, loop, queue, tx, direct, tables, backfill, dropped, blemished>>

-----------------------------------------------------------------------------
(* Insert and insertDirect *)

Insert(r) ==
  /\ loop # "down" /\ r \in due
  /\ due' = due \ {r}
  /\ IF Len(buffer) < Capacity
     THEN buffer' = Append(buffer, r) /\ UNCHANGED direct
     ELSE direct' = [direct EXCEPT ![r] = "row"] /\ UNCHANGED buffer
  /\ UNCHANGED <<starts, day, loop, batch, tx, tables, backfill, dropped, blemished>>

(* The row is written and counted next, or it fails and is given up.       *)
DirectRow(r) ==
  /\ direct[r] = "row"
  /\ \/ /\ Unlocked
        /\ rows' = Append(rows, [rec |-> r, day |-> day])
        /\ direct' = [direct EXCEPT ![r] = "agg"]
        /\ UNCHANGED dropped
     \/ /\ direct' = [direct EXCEPT ![r] = "no"]
        /\ dropped' = dropped \cup {r}
        /\ UNCHANGED rows
  /\ UNCHANGED <<starts, day, loop, queue, tx, daily, backfill, blemished>>

(* Mutant: the direct path does not count what it wrote.                   *)
DirectAgg_Skipped(r) ==
  /\ direct[r] = "agg"
  /\ direct' = [direct EXCEPT ![r] = "no"]
  /\ UNCHANGED <<starts, day, loop, queue, tx, tables, backfill, dropped, blemished>>

DirectAgg(r) ==
  /\ direct[r] = "agg"
  /\ direct' = [direct EXCEPT ![r] = "no"]
  /\ \/ /\ Unlocked
        /\ daily' = [daily EXCEPT ![<<KeyOf[r], day>>] = @ + 1]
        /\ Blemish(\A i \in DOMAIN rows : rows[i].rec = r => rows[i].day # day)
     \/ Blemish(TRUE) /\ UNCHANGED daily
  /\ UNCHANGED <<starts, day, loop, queue, tx, rows, backfill, dropped>>

-----------------------------------------------------------------------------
(* flushUsageLoop and flushUsageBatch *)

(* Mutant: the batch is written when it is longer than BatchSize.          *)
Receive_Late ==
  /\ loop = "wait" /\ buffer # <<>>
  /\ batch' = Append(batch, Head(buffer))
  /\ buffer' = Tail(buffer)
  /\ loop' = IF Len(batch') > BatchSize THEN "writing" ELSE "wait"
  /\ UNCHANGED <<starts, day, due, tx, direct, tables, backfill, dropped, blemished>>

Receive ==
  /\ loop = "wait" /\ buffer # <<>>
  /\ batch' = Append(batch, Head(buffer))
  /\ buffer' = Tail(buffer)
  /\ loop' = IF Len(batch') >= BatchSize THEN "writing" ELSE "wait"
  /\ UNCHANGED <<starts, day, due, tx, direct, tables, backfill, dropped, blemished>>

(* Mutant: the ticker writes a full batch only.                            *)
Ticks_WhenFull ==
  /\ loop = "wait" /\ Len(batch) >= BatchSize
  /\ loop' = "writing"
  /\ UNCHANGED <<starts, day, queue, tx, direct, tables, backfill, dropped, blemished>>

Ticks ==
  /\ loop = "wait" /\ batch # <<>>
  /\ loop' = "writing"
  /\ UNCHANGED <<starts, day, queue, tx, direct, tables, backfill, dropped, blemished>>

(* The loop is done with its batch: s of it was stored.                    *)
Emptied(stored) ==
  /\ loop' = "wait" /\ batch' = <<>> /\ tx' = NoTx
  /\ dropped' = dropped \cup {r \in Items(batch) : \A i \in DOMAIN stored : stored[i].rec # r}

(* The transaction cannot begin, a statement cannot be prepared, or the    *)
(* commit fails: the batch is given up.                                    *)
Abandon ==
  /\ \/ loop \in {"writing", "aggregating"} /\ tx.at = 0
     \/ loop = "aggregating" /\ tx.at = Len(batch)
  /\ Emptied(<<>>)
  /\ UNCHANGED <<starts, day, due, buffer, direct, tables, backfill, blemished>>

(* One statement for the next record of the batch; when it fails the loop  *)
(* goes on with the next one.                                              *)
Statement ==
  /\ loop \in {"writing", "aggregating"} /\ tx.at < Len(batch)
  /\ LET n    == tx.at + 1
         item == [rec |-> batch[n], day |-> day]
     IN  \/ tx' = [tx EXCEPT !.at = n]
         \/ loop = "writing" /\ tx' = [tx EXCEPT !.at = n, !.rows = Append(@, item)]
         \/ loop = "aggregating" /\ tx' = [tx EXCEPT !.at = n, !.aggs = Append(@, item)]
  /\ UNCHANGED <<starts, day, loop, queue, direct, tables, backfill, dropped, blemished>>

Aggregates ==
  /\ loop = "writing" /\ tx.at = Len(batch)
  /\ loop' = "aggregating" /\ tx' = [tx EXCEPT !.at = 0]
  /\ UNCHANGED <<starts, day, queue, direct, tables, backfill, dropped, blemished>>

(* Mutant: the loop goes on with the batch that it has written.            *)
Commit_KeepsBatch ==
  /\ loop = "aggregating" /\ tx.at = Len(batch)
  /\ rows' = rows \o tx.rows
  /\ daily' = [g \in Groups \X Days |-> daily[g] + Count(tx.aggs, g[1], g[2])]
  /\ loop' = "wait" /\ batch' = Tail(batch) /\ tx' = NoTx
  /\ UNCHANGED <<starts, day, due, buffer, direct, backfill, dropped, blemished>>

(* usage_daily misses what failed, and counts a record on another day than *)
(* usage_records when midnight fell between the two statements.            *)
Commit ==
  /\ loop = "aggregating" /\ tx.at = Len(batch)
  /\ rows' = rows \o tx.rows
  /\ daily' = [g \in Groups \X Days |-> daily[g] + Count(tx.aggs, g[1], g[2])]
  /\ Blemish(\E g \in Groups, d \in Days : Count(tx.rows, g, d) # Count(tx.aggs, g, d))
  /\ Emptied(tx.rows)
  /\ UNCHANGED <<starts, day, due, buffer, direct, backfill>>

Loop == Receive \/ Ticks \/ Abandon \/ Statement \/ Aggregates \/ Commit

Next ==
  \/ Start \/ BackfillDelete \/ BackfillInsert \/ Stop \/ Midnight \/ Loop
  \/ \E r \in Records : Insert(r) \/ DirectRow(r) \/ DirectAgg(r)

Spec == Init /\ [][Next]_vars

(* The goroutine of flushUsageLoop runs, its ticker ticks, and a statement *)
(* of the database returns; that it succeeds is not assumed.               *)
FairSpec == Spec /\ WF_vars(Loop)

-----------------------------------------------------------------------------
(* A record is in one place at a time, from recordUsage to the table: none *)
(* is written twice, and none disappears unless a failure that is logged   *)
(* or a stop of the program took it (store/usage.go:53-136, 212-238).      *)
Stored(r) == {i \in DOMAIN rows : rows[i].rec = r}

Places(r) ==
  {p \in {"due", "buffer", "batch", "direct", "stored", "dropped"} :
    CASE p = "due"    -> r \in due
      [] p = "buffer" -> r \in Items(buffer)
      [] p = "batch"  -> r \in Items(batch)
      [] p = "direct" -> direct[r] = "row"
      [] p = "stored" -> Stored(r) # {}
      [] OTHER        -> r \in dropped}

AccountedFor == \A r \in Records : Cardinality(Places(r)) = 1 /\ Cardinality(Stored(r)) <= 1

(* usage_daily agrees with usage_records but for the rows that the direct  *)
(* path is about to count, unless a statement failed, midnight or a stop   *)
(* fell between the two, or a start counted records without a key again    *)
(* (store/db.go:393-411, store/usage.go:104-136, 219-262, 631-650).        *)
DailyAgrees ==
  ~blemished =>
    \A g \in Groups, d \in Days :
      Count(rows, g, d) =
        daily[<<g, d>>] + Cardinality({i \in DOMAIN rows : /\ KeyOf[rows[i].rec] = g
                                                           /\ rows[i].day = d
                                                           /\ direct[rows[i].rec] = "agg"})

(* A record in the buffer leaves it and the batch, also when nothing more  *)
(* comes (store/usage.go:60-75).                                           *)
Waiting(r) == r \in Items(buffer) \cup Items(batch)

BufferDrains == \A r \in Records : Waiting(r) ~> ~Waiting(r)

(* The migration may be repeated: where the tables agree it changes        *)
(* nothing (store/db.go:358).                                              *)
MigrationIsIdempotent == [][loop = "down" /\ Agrees => UNCHANGED daily]_vars
=============================================================================
