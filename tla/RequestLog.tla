----------------------------- MODULE RequestLog -----------------------------
(***************************************************************************)
(* The log of failed requests (internal/diagnostics/logger.go): one active *)
(* file, number 0, and numbered backups.  A rotation moves every backup up *)
(* by one, the highest first, and then the active file to number 1; each   *)
(* move may fail and the program may stop after each.  Files that are too  *)
(* old are removed.  A mutex makes every operation of the logger one       *)
(* sequence; the steps below are what a stop can separate.                 *)
(***************************************************************************)
EXTENDS Integers, Sequences, SequencesExt

CONSTANTS MaxBackups,
          MaxSize,    \* events that fit in a file
          MaxAge,     \* MaxAgeDays
          MaxEvents,  \* bound: events recorded
          MaxDay      \* bound: days that pass

Files  == 0 .. MaxBackups
Absent == [exists |-> FALSE, events |-> <<>>, mtime |-> 0]
Nobody == [n |-> 0, day |-> 0]

VARIABLES now,      \* the day
          disk,     \* file -> its events and modification day
          running,  \* is there a logger
          open,     \* l.file # nil, and whether it still is file 0
          oldest,   \* the logger's idea of the age of the active file
          phase,    \* "free", or how far a rotation has come
          k,        \* the backup a rotation moves next
          pending,  \* the event that waits for the rotation
          starting, \* is it the rotation of New
          kept,     \* events that were appended and not removed from outside
          count     \* events recorded so far

vars == <<now, disk, running, open, oldest, phase, k, pending, starting, kept, count>>

-----------------------------------------------------------------------------
Aged(f) == f.exists /\ now - f.mtime > MaxAge

\* cleanup: the aged backups are removed; it may fail having removed some.
Cleanups(d) == {[f \in Files |-> IF f \in gone THEN Absent ELSE d[f]] :
                   gone \in SUBSET {f \in Files \ {0} : Aged(d[f])}}
Clean(d) == \A f \in Files \ {0} : ~Aged(d[f])

\* Mutant: the active file is truncated when it is opened.
Opened_Truncates(d) == [d EXCEPT ![0] = [exists |-> TRUE, events |-> <<>>, mtime |-> now]]

\* open: the active file is created when it is missing; its age is that of its
\* first event.
Opened(d) == IF d[0].exists THEN d
             ELSE [d EXCEPT ![0] = [exists |-> TRUE, events |-> <<>>, mtime |-> now]]

AgeOf(d) == IF d[0].events = <<>> THEN now ELSE d[0].events[1].day
Expired(age) == now - age >= MaxAge

\* Write: the event is appended and kept.
Write(d, e) ==
    /\ disk' = IF e = Nobody THEN d
               ELSE [d EXCEPT ![0].events = Append(@, e), ![0].mtime = now]
    /\ kept' = IF e = Nobody THEN kept ELSE kept \cup {e}

Idle == phase = "free" /\ running
Free == phase' = "free" /\ k' = 0 /\ pending' = Nobody /\ starting' = FALSE

\* rotate begins after a cleanup: the highest backup is first.
Rotate(e, start) == phase' = "move" /\ k' = MaxBackups /\ pending' = e /\ starting' = start

-----------------------------------------------------------------------------
\* Record: the active file is reopened when it was closed or replaced, aged
\* backups are removed, and a full or expired file is rotated first.  A check
\* that fails drops the event.
Record ==
    /\ Idle /\ count < MaxEvents /\ count' = count + 1
    /\ UNCHANGED <<now, running>>
    /\ LET e   == [n |-> count + 1, day |-> now]
           age == IF open THEN oldest ELSE AgeOf(Opened(disk))
       IN \/ /\ disk' \in Cleanups(Opened(disk)) /\ oldest' = age /\ open' = TRUE
             /\ Free /\ UNCHANGED kept
          \/ \E d \in Cleanups(Opened(disk)) :
                /\ Clean(d) /\ oldest' = age
                /\ IF Len(d[0].events) >= MaxSize \/ (d[0].events # <<>> /\ Expired(age))
                   THEN disk' = d /\ open' = FALSE /\ Rotate(e, FALSE) /\ UNCHANGED kept
                   ELSE Write(d, e) /\ open' = TRUE /\ Free

\* maintain, every hour: an expired file is rotated, also without an event.
Maintain ==
    /\ Idle /\ UNCHANGED <<now, running, oldest, kept, count>>
    /\ disk' \in Cleanups(disk)
    /\ IF Expired(oldest) /\ Clean(disk') THEN Rotate(Nobody, FALSE) /\ open' = FALSE
       ELSE Free /\ UNCHANGED open

\* One step of a rotation failed: the event is dropped, the next operation
\* opens the file again.  A logger whose New failed does not exist.
RotationFails ==
    /\ phase # "free" /\ Free /\ running' = ~starting
    /\ UNCHANGED <<now, disk, open, oldest, kept, count>>

\* The highest backup is removed, the others are renamed one up, and last the
\* active file, when it exists.
Move ==
    /\ phase = "move"
    /\ disk' = [f \in Files |->
                  IF k > 0 /\ disk[k].exists /\ f = k THEN Absent
                  ELSE IF k = 0 /\ disk[0].exists /\ f = 0 THEN Absent
                  ELSE IF f = k + 1 /\ disk[k].exists THEN disk[k] ELSE disk[f]]
    /\ IF k > 0 THEN k' = k - 1 /\ UNCHANGED phase
       ELSE k' = 0 /\ phase' = IF disk[0].exists THEN "stamp" ELSE "reopen"
    /\ UNCHANGED <<now, running, open, oldest, pending, starting, kept, count>>

\* Chtimes: the age of a backup is that of its oldest event.
Stamp ==
    /\ phase = "stamp" /\ phase' = "reopen"
    /\ disk' = [disk EXCEPT ![1].mtime = oldest]
    /\ UNCHANGED <<now, running, open, oldest, k, pending, starting, kept, count>>

\* A second cleanup, a new active file, and the event that waited.
Reopen ==
    /\ phase = "reopen" /\ Free
    /\ \E d \in Cleanups(Opened(disk)) : Clean(d) /\ Write(d, pending)
    /\ open' = TRUE /\ oldest' = AgeOf(Opened(disk))
    /\ UNCHANGED <<now, running, count>>

\* New: cleanup, open, and a rotation when the file is full or expired.
Start ==
    /\ ~running /\ running' = TRUE /\ UNCHANGED <<now, kept, count>>
    /\ \E d \in Cleanups(Opened(disk)) :
          /\ Clean(d) /\ disk' = d /\ oldest' = AgeOf(d)
          /\ IF Len(d[0].events) > MaxSize \/ Expired(oldest')
             THEN Rotate(Nobody, TRUE) /\ open' = FALSE
             ELSE Free /\ open' = TRUE

\* Close, or the program stops anywhere.
Stops ==
    /\ running /\ running' = FALSE /\ open' = FALSE /\ Free
    /\ UNCHANGED <<now, disk, oldest, kept, count>>

\* Something else takes the active file away; Record notices it.
Removed ==
    /\ Idle /\ disk[0].exists /\ disk' = [disk EXCEPT ![0] = Absent]
    /\ kept' = kept \ ToSet(disk[0].events) /\ open' = FALSE
    /\ UNCHANGED <<now, running, oldest, phase, k, pending, starting, count>>

Day ==
    /\ now < MaxDay /\ now' = now + 1
    /\ UNCHANGED <<disk, running, open, oldest, phase, k, pending, starting, kept, count>>

-----------------------------------------------------------------------------
Init ==
    /\ now = 0 /\ disk = [f \in Files |-> Absent] /\ running = FALSE /\ open = FALSE
    /\ oldest = 0 /\ phase = "free" /\ k = 0 /\ pending = Nobody /\ starting = FALSE
    /\ kept = {} /\ count = 0

Next == \/ Record \/ Maintain \/ RotationFails \/ Move \/ Stamp \/ Reopen
        \/ Start \/ Stops \/ Removed \/ Day
Spec == Init /\ [][Next]_vars

-----------------------------------------------------------------------------
Events == [n : 0 .. MaxEvents, day : 0 .. MaxDay]
TypeOK ==
    /\ now \in 0 .. MaxDay /\ oldest \in 0 .. MaxDay /\ count \in 0 .. MaxEvents
    /\ \A f \in Files : /\ disk[f].exists \in BOOLEAN /\ disk[f].mtime \in 0 .. MaxDay
                        /\ disk[f].events \in Seq(Events) /\ Len(disk[f].events) <= MaxSize
    /\ running \in BOOLEAN /\ open \in BOOLEAN /\ starting \in BOOLEAN
    /\ phase \in {"free", "move", "stamp", "reopen"} /\ k \in Files
    /\ pending \in Events /\ kept \subseteq Events

OnDisk(e) == \E f \in Files : Contains(disk[f].events, e)

\* Wherever a rotation fails or the program stops, the log has no hole: an
\* event is gone only together with everything before it, or because its file
\* is older than MaxAge; and a higher number holds older events.
LogHasNoHole ==
    \A f \in Files : \A e \in ToSet(disk[f].events) :
       /\ \A g \in Files : g > f => \A b \in ToSet(disk[g].events) : b.n < e.n
       /\ ~Aged(disk[f]) => \A later \in kept : later.n > e.n => OnDisk(later)
=============================================================================
