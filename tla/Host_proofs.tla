------------------------------ MODULE Host_proofs ------------------------------
(***************************************************************************)
(* Proofs about components that MCHost instantiates, for any bounds.  In   *)
(* every behaviour of HostSpec one component moves and the others are at   *)
(* rest, so an invariant of one is proved from its own Init and Next.      *)
(***************************************************************************)
EXTENDS Sidecar_proofs, Intercept_proofs, Sequences, SequenceTheorems, FiniteSetTheorems, TLAPS

(***************************************************************************)
(* The configuration file (SidecarConfig).  What a writer is about to      *)
(* rename was read before the last edits of the panel, but not before the  *)
(* last edit of another writer: the lock is held from the reading on.      *)
(***************************************************************************)
ConfigJobs == [pc : {"none", "overlay", "ensure", "write", "check", "recheck", "rename",
                     "reread", "save"},
               id : C!Values, named : SUBSET C!Fields, cfg : C!Configs, original : C!FileStates]

Writing(s) == job[s].pc \in {"write", "check", "recheck", "rename"}

\* What the slot will put in the place of the file keeps what others have put.
UpToDate(s) ==
  job[s].pc = "rename" =>
    \A f \in Shared : landed[f].by = "put" => landed[f].value = job[s].original.values[f]

ConfigTyped ==
  /\ row \in C!Configs /\ file \in C!FileStates /\ backup \in C!FileStates
  /\ lock \in Slots \cup {"free"} /\ edits \in 0 .. MaxRequests
  /\ job \in [Slots -> ConfigJobs]
  /\ landed \in [Shared -> [by : {"nobody", "put", "panel"}, value : C!Values]]

ConfigInv ==
  /\ ConfigTyped
  /\ \A s \in Slots : Writing(s) => lock = s
  /\ \A s \in Slots : UpToDate(s)
  /\ C!SharedEditsSurvive

LEMMA EmptyJob ==
  /\ C!NoJob \in ConfigJobs /\ C!NoJob.pc = "none"
  /\ C!NoFile \in C!FileStates /\ C!NoFile.state = "missing"
  /\ C!Torn \in C!FileStates /\ C!Torn.state = "torn"
<1>1. 0 \in C!Values
  BY SlotsAssumption DEF C!Values
<1>2. C!NoFile \in C!FileStates /\ C!NoFile.state = "missing"
  BY <1>1 DEF C!NoFile, C!FileStates
<1>3. C!Torn \in C!FileStates /\ C!Torn.state = "torn"
  BY <1>2 DEF C!Torn, C!FileStates
<1>4. C!NoJob \in ConfigJobs /\ C!NoJob.pc = "none"
  BY <1>1, <1>2 DEF C!NoJob, ConfigJobs, C!Configs
<1>5. QED
  BY <1>2, <1>3, <1>4

\* A whole file with well typed values.
LEMMA WholeFile ==
  ASSUME NEW v \in [Shared -> C!Values]
  PROVE  /\ C!File(v) \in C!FileStates
         /\ C!File(v).state = "whole" /\ C!File(v).values = v
BY DEF C!File, C!FileStates

LEMMA ConfigInit == ASSUME C!Init PROVE ConfigInv
<1>1. 0 \in C!Values /\ 0 \in 0 .. MaxRequests
  BY SlotsAssumption DEF C!Values
<1>2. [f \in Shared |-> 0] \in [Shared -> C!Values]
  BY <1>1
<1>3. file \in C!FileStates
  BY <1>2, EmptyJob, WholeFile DEF C!Init
<1>4. ConfigTyped
  BY <1>1, <1>3, EmptyJob DEF C!Init, ConfigTyped, C!Configs
<1>5. \A s \in Slots : ~Writing(s) /\ UpToDate(s)
  BY EmptyJob DEF C!Init, Writing, UpToDate
<1>6. C!SharedEditsSurvive
  BY DEF C!Init, C!SharedEditsSurvive
<1>7. QED
  BY <1>4, <1>5, <1>6 DEF ConfigInv

\* A slot that only goes on, with the file and the edits as they were.
LEMMA SlotMoves ==
  ASSUME ConfigInv, NEW s \in Slots, NEW j \in ConfigJobs,
         job' = [job EXCEPT ![s] = j],
         row' \in C!Configs, backup' \in C!FileStates, edits' \in 0 .. MaxRequests,
         file' = file, landed' = landed,
         \/ lock' = lock /\ ~(j.pc \in {"write", "check", "recheck", "rename"})
         \/ lock' = lock /\ lock = s
         \/ lock \in {"free", s} /\ lock' = s
         \/ lock \in {"free", s} /\ lock' = "free"
              /\ ~(j.pc \in {"write", "check", "recheck", "rename"}),
         j.pc = "rename" =>
           \A f \in Shared : landed[f].by = "put" => landed[f].value = j.original.values[f]
  PROVE  ConfigInv'
<1>1. job \in [Slots -> ConfigJobs] /\ lock \in Slots \cup {"free"}
  BY DEF ConfigInv, ConfigTyped
<1>2. job'[s] = j /\ \A t \in Slots \ {s} : job'[t] = job[t]
  BY <1>1
<1>3. ConfigTyped'
  BY <1>1 DEF ConfigInv, ConfigTyped
<1>4. ASSUME NEW t \in Slots, Writing(t)' PROVE lock' = t
  BY <1>2, <1>4, SlotsAssumption DEF ConfigInv, Writing
<1>5. ASSUME NEW t \in Slots PROVE UpToDate(t)'
  BY <1>2 DEF ConfigInv, UpToDate
<1>6. C!SharedEditsSurvive'
  BY DEF ConfigInv, C!SharedEditsSurvive
<1>7. QED
  BY <1>3, <1>4, <1>5, <1>6 DEF ConfigInv

LEMMA ConfigStep ==
  ASSUME ConfigInv, NEW s \in Slots, NEW pc,
         pc \in {"none", "overlay", "ensure", "write", "check", "recheck", "rename", "reread", "save"},
         C!Step(s, pc)
  PROVE  \E j \in ConfigJobs :
            /\ job' = [job EXCEPT ![s] = j] /\ j.pc = pc
            /\ j.original = job[s].original
<1> DEFINE j == [job[s] EXCEPT !.pc = pc]
<1>1. job[s] \in ConfigJobs
  BY DEF ConfigInv, ConfigTyped
<1>2. j \in ConfigJobs /\ j.pc = pc /\ j.original = job[s].original
  BY <1>1 DEF ConfigJobs
<1>3. job' = [job EXCEPT ![s] = j]
  BY DEF C!Step
<1>4. QED
  BY <1>2, <1>3

\* A slot that goes on under the lock, or without needing it.
LEMMA SlotSteps ==
  ASSUME ConfigInv, NEW s \in Slots, NEW pc,
         pc \in {"ensure", "recheck", "reread"},
         C!Step(s, pc), UNCHANGED <<row, file, landed, edits>>, backup' \in C!FileStates,
         \/ lock' = lock /\ (lock = s \/ pc \in {"ensure", "reread"})
         \/ lock \in {"free", s} /\ lock' = "free" /\ pc \in {"ensure", "reread"}
  PROVE  ConfigInv'
<1>1. PICK j \in ConfigJobs : job' = [job EXCEPT ![s] = j] /\ j.pc = pc
  BY ConfigStep
<1>2. row' \in C!Configs /\ edits' \in 0 .. MaxRequests
  BY DEF ConfigInv, ConfigTyped
<1>3. j.pc # "rename" /\ file' = file /\ landed' = landed
  BY <1>1
<1>4. \/ lock' = lock /\ ~(j.pc \in {"write", "check", "recheck", "rename"})
      \/ lock' = lock /\ lock = s
      \/ lock \in {"free", s} /\ lock' = "free"
           /\ ~(j.pc \in {"write", "check", "recheck", "rename"})
  BY <1>1
<1>5. QED
  BY <1>1, <1>2, <1>3, <1>4, SlotMoves

\* A request that ends leaves the file as it is.
LEMMA SlotEnds ==
  ASSUME ConfigInv, NEW s \in Slots, C!End(s), row' \in C!Configs,
         UNCHANGED <<file, backup, landed, edits>>,
         lock' = lock \/ (lock \in {"free", s} /\ lock' = "free")
  PROVE  ConfigInv'
<1>1. job' = [job EXCEPT ![s] = C!NoJob]
  BY DEF C!End
<1>2. backup' \in C!FileStates /\ edits' \in 0 .. MaxRequests
  BY DEF ConfigInv, ConfigTyped
<1>3. file' = file /\ landed' = landed
  OBVIOUS
<1>4. ~(C!NoJob.pc \in {"write", "check", "recheck", "rename"}) /\ C!NoJob \in ConfigJobs
  BY EmptyJob
<1>5. \/ lock' = lock /\ ~(C!NoJob.pc \in {"write", "check", "recheck", "rename"})
      \/ lock \in {"free", s} /\ lock' = "free"
           /\ ~(C!NoJob.pc \in {"write", "check", "recheck", "rename"})
  BY <1>4
<1>6. C!NoJob.pc # "rename"
  BY <1>4
<1> DEFINE j == C!NoJob
<1>7. j \in ConfigJobs /\ j.pc # "rename" /\ job' = [job EXCEPT ![s] = j]
      /\ ~(j.pc \in {"write", "check", "recheck", "rename"})
  BY <1>1, <1>4, <1>6
<1> HIDE DEF j
<1>8. QED
  BY <1>2, <1>3, <1>7, SlotMoves

LEMMA BeginConfig == ASSUME ConfigInv, NEW s \in Slots, C!Begin(s) PROVE ConfigInv'
<1>1. PICK names \in SUBSET C!Fields :
        /\ edits < MaxRequests /\ edits' = edits + 1
        /\ job' = [job EXCEPT ![s] =
                     [pc |-> IF names = {} THEN "ensure" ELSE "overlay",
                      id |-> edits + 1, named |-> names, cfg |-> row, original |-> C!NoFile]]
        /\ UNCHANGED <<row, file, backup, lock, landed>>
  BY DEF C!Begin
<1> DEFINE j == [pc |-> IF names = {} THEN "ensure" ELSE "overlay",
                 id |-> edits + 1, named |-> names, cfg |-> row, original |-> C!NoFile]
<1>2. edits \in 0 .. MaxRequests /\ row \in C!Configs /\ backup \in C!FileStates
  BY DEF ConfigInv, ConfigTyped
<1>3. edits + 1 \in 0 .. MaxRequests /\ edits + 1 \in C!Values
  BY <1>1, <1>2, SlotsAssumption DEF C!Values
<1>4. j \in ConfigJobs /\ j.pc \in {"ensure", "overlay"}
  BY <1>2, <1>3, EmptyJob DEF ConfigJobs
<1>5. job' = [job EXCEPT ![s] = j]
  BY <1>1
<1> HIDE DEF j
<1>6. QED
  BY <1>1, <1>2, <1>3, <1>4, <1>5, SlotMoves

\* The overlaid configuration is one.
LEMMA OverlaidType == ASSUME ConfigInv, NEW cfg \in C!Configs PROVE C!Overlaid(cfg) \in C!Configs
<1>1. file.values \in [Shared -> C!Values]
  BY DEF ConfigInv, ConfigTyped, C!FileStates
<1>2. QED
  BY <1>1 DEF C!Overlaid, C!Configs, C!Fields

LEMMA OverlayConfig == ASSUME ConfigInv, NEW s \in Slots, C!Overlay(s) PROVE ConfigInv'
<1>1. lock = "free" /\ UNCHANGED <<row, file, backup, lock, landed, edits>>
  BY DEF C!Overlay
<1>2. job[s] \in ConfigJobs /\ row \in C!Configs /\ backup \in C!FileStates
      /\ edits \in 0 .. MaxRequests
  BY DEF ConfigInv, ConfigTyped
<1>3. CASE file.state = "torn"
  <2>1. C!End(s)
    BY <1>3 DEF C!Overlay
  <2>2. QED
    BY <1>1, <1>2, <2>1, SlotEnds
<1>4. CASE file.state # "torn"
  <2> DEFINE c == [f \in C!Fields |-> IF f \in job[s].named THEN job[s].id
                                      ELSE C!Overlaid(job[s].cfg)[f]]
             pc == IF job[s].named \cap Shared = {} THEN "save" ELSE "ensure"
             j == [job[s] EXCEPT !.pc = pc, !.cfg = c]
  <2>1. job' = [job EXCEPT ![s] = j]
    BY <1>4 DEF C!Overlay
  <2>2. C!Overlaid(job[s].cfg) \in C!Configs /\ job[s].id \in C!Values
    BY <1>2, OverlaidType DEF ConfigJobs
  <2>3. c \in C!Configs
    BY <2>2 DEF C!Configs
  <2>4. pc \in {"save", "ensure"}
    OBVIOUS
  <2> HIDE DEF c, pc
  <2>5. j \in ConfigJobs /\ j.pc = pc
    BY <1>2, <2>3, <2>4 DEF ConfigJobs
  <2> HIDE DEF j
  <2>6. QED
    BY <1>1, <1>2, <2>1, <2>4, <2>5, SlotMoves
<1>5. QED
  BY <1>3, <1>4

\* The file is missing, so nothing has been put into it yet.
LEMMA CreateConfig == ASSUME ConfigInv, NEW s \in Slots, C!Create(s) PROVE ConfigInv'
<1>1. /\ lock \in {"free", s} /\ file.state = "missing" /\ lock' = s /\ file' = C!Torn
      /\ C!Step(s, "write") /\ UNCHANGED <<row, backup, landed, edits>>
  BY DEF C!Create, C!Excludes
<1>2. PICK j \in ConfigJobs : job' = [job EXCEPT ![s] = j] /\ j.pc = "write"
  BY <1>1, ConfigStep
<1>3. job \in [Slots -> ConfigJobs]
  BY DEF ConfigInv, ConfigTyped
<1>4. job'[s] = j /\ \A t \in Slots \ {s} : job'[t] = job[t]
  BY <1>2, <1>3
<1>5. ConfigTyped'
  BY <1>1, <1>2, <1>3, EmptyJob DEF ConfigInv, ConfigTyped
<1>6. \A f \in Shared : landed[f].by # "put"
  BY <1>1 DEF ConfigInv, C!SharedEditsSurvive
<1>7. C!SharedEditsSurvive' /\ \A t \in Slots : UpToDate(t)'
  BY <1>1, <1>6 DEF C!SharedEditsSurvive, UpToDate
<1>8. ASSUME NEW t \in Slots, Writing(t)' PROVE lock' = t
  BY <1>1, <1>4, <1>8, SlotsAssumption DEF ConfigInv, Writing
<1>9. QED
  BY <1>5, <1>7, <1>8 DEF ConfigInv

LEMMA WriteNewConfig == ASSUME ConfigInv, NEW s \in Slots, C!WriteNew(s) PROVE ConfigInv'
<1> DEFINE v == C!SharedPart(job[s].cfg)
<1>1. /\ job[s].pc = "write" /\ file' = C!File(v) /\ lock' = lock /\ C!Step(s, "ensure")
      /\ landed' = [f \in Shared |-> [by |-> "put", value |-> job[s].cfg[f]]]
      /\ UNCHANGED <<row, backup, edits>>
  BY DEF C!WriteNew
<1>2. lock = s
  BY <1>1 DEF ConfigInv, Writing
<1>3. PICK j \in ConfigJobs : job' = [job EXCEPT ![s] = j] /\ j.pc = "ensure"
  BY <1>1, ConfigStep
<1>4. job \in [Slots -> ConfigJobs] /\ job[s].cfg \in C!Configs
  BY DEF ConfigInv, ConfigTyped, ConfigJobs
<1>5. \A f \in Shared : job[s].cfg[f] \in C!Values /\ v[f] = job[s].cfg[f]
  BY <1>4 DEF C!Configs, C!Fields, C!SharedPart
<1>6. v \in [Shared -> C!Values]
  BY <1>5 DEF C!SharedPart
<1> HIDE DEF v
<1>7. file' \in C!FileStates /\ file'.state = "whole" /\ file'.values = v
  BY <1>1, <1>6, WholeFile
<1>8. landed' \in [Shared -> [by : {"nobody", "put", "panel"}, value : C!Values]]
  BY <1>1, <1>5
<1>9. ConfigTyped'
  BY <1>1, <1>3, <1>4, <1>7, <1>8 DEF ConfigInv, ConfigTyped
<1>10. job'[s] = j /\ \A t \in Slots \ {s} : job'[t] = job[t] /\ ~Writing(t)
  BY <1>2, <1>3, <1>4 DEF ConfigInv
<1>11. \A t \in Slots : ~Writing(t)'
  BY <1>3, <1>10 DEF Writing
<1>12. C!SharedEditsSurvive'
  BY <1>1, <1>5, <1>7 DEF C!SharedEditsSurvive
<1>13. \A t \in Slots : UpToDate(t)'
  BY <1>11 DEF UpToDate, Writing
<1>14. QED
  BY <1>9, <1>11, <1>12, <1>13 DEF ConfigInv

LEMMA ReadConfig == ASSUME ConfigInv, NEW s \in Slots, C!ReadOriginal(s) PROVE ConfigInv'
<1>1. lock \in {"free", s} /\ UNCHANGED <<row, file, backup, landed, edits>>
  BY DEF C!ReadOriginal, C!Excludes
<1>2. /\ job[s] \in ConfigJobs /\ row \in C!Configs /\ backup \in C!FileStates
      /\ edits \in 0 .. MaxRequests /\ file \in C!FileStates
  BY DEF ConfigInv, ConfigTyped
<1> DEFINE j == [job[s] EXCEPT !.original = file]
           i == [j EXCEPT !.pc = "check"]
<1>3. \/ C!End(s) /\ lock' = "free"
      \/ C!Step(s, "reread") /\ lock' = "free"
      \/ job' = [job EXCEPT ![s] = i] /\ lock' = s
  BY DEF C!ReadOriginal
<1>4. i \in ConfigJobs /\ i.pc = "check"
  BY <1>2 DEF ConfigJobs
<1> HIDE DEF j, i
<1>5. CASE C!End(s) /\ lock' = "free"
  BY <1>1, <1>2, <1>5, SlotEnds
<1>6. CASE C!Step(s, "reread") /\ lock' = "free"
  BY <1>1, <1>2, <1>6, SlotSteps
<1>7. CASE job' = [job EXCEPT ![s] = i] /\ lock' = s
  BY <1>1, <1>2, <1>4, <1>7, SlotMoves
<1>8. QED
  BY <1>3, <1>5, <1>6, <1>7

LEMMA CheckConfig ==
  ASSUME ConfigInv, NEW s \in Slots, C!Changed(s) \/ C!BackUp(s) \/ C!WriteFails(s)
  PROVE  ConfigInv'
<1>1. job[s].pc \in {"check", "recheck", "rename"}
  BY DEF C!Changed, C!BackUp, C!WriteFails
<1>2. lock = s /\ job[s].original \in C!FileStates /\ row \in C!Configs
  BY <1>1 DEF ConfigInv, ConfigTyped, ConfigJobs, Writing
<1>3. CASE C!Changed(s) \/ C!WriteFails(s)
  <2>1. C!End(s) /\ lock' = "free" /\ UNCHANGED <<row, file, backup, landed, edits>>
    BY <1>3 DEF C!Changed, C!WriteFails
  <2>2. QED
    BY <2>1, <1>2, SlotEnds
<1>4. CASE C!BackUp(s)
  <2>1. /\ backup' = job[s].original /\ C!Step(s, "recheck")
        /\ UNCHANGED <<row, file, lock, landed, edits>>
    BY <1>4 DEF C!BackUp
  <2>2. QED
    BY <2>1, <1>2, SlotSteps
<1>5. QED
  BY <1>3, <1>4

\* The file is still what was read, so what was put is in what was read.
LEMMA RecheckConfig == ASSUME ConfigInv, NEW s \in Slots, C!Recheck(s) PROVE ConfigInv'
<1>1. /\ job[s].pc = "recheck" /\ file = job[s].original /\ C!Step(s, "rename")
      /\ UNCHANGED <<row, file, backup, lock, landed, edits>>
  BY DEF C!Recheck
<1>2. PICK j \in ConfigJobs : /\ job' = [job EXCEPT ![s] = j] /\ j.pc = "rename"
                              /\ j.original = job[s].original
  BY <1>1, ConfigStep
<1>3. \A f \in Shared : landed[f].by = "put" => landed[f].value = j.original.values[f]
  BY <1>1, <1>2 DEF ConfigInv, C!SharedEditsSurvive
<1>4. lock = s /\ row' \in C!Configs /\ backup' \in C!FileStates /\ edits' \in 0 .. MaxRequests
  BY <1>1 DEF ConfigInv, ConfigTyped, Writing
<1>5. file' = file /\ landed' = landed /\ lock' = lock
  BY <1>1
<1>6. QED
  BY <1>2, <1>3, <1>4, <1>5, SlotMoves

LEMMA RenameConfig == ASSUME ConfigInv, NEW s \in Slots, C!Rename(s) PROVE ConfigInv'
<1> DEFINE v == C!Patched(job[s])
<1>1. /\ job[s].pc = "rename" /\ file' = C!File(v) /\ lock' = "free" /\ C!Step(s, "reread")
      /\ landed' = [f \in Shared |-> IF f \in job[s].named
                                     THEN [by |-> "put", value |-> job[s].cfg[f]] ELSE landed[f]]
      /\ UNCHANGED <<row, backup, edits>>
  BY DEF C!Rename
<1>2. lock = s
  BY <1>1 DEF ConfigInv, Writing
<1>3. PICK j \in ConfigJobs : job' = [job EXCEPT ![s] = j] /\ j.pc = "reread"
  BY <1>1, ConfigStep
<1>4. /\ job \in [Slots -> ConfigJobs] /\ job[s].cfg \in C!Configs
      /\ job[s].original \in C!FileStates
      /\ landed \in [Shared -> [by : {"nobody", "put", "panel"}, value : C!Values]]
  BY DEF ConfigInv, ConfigTyped, ConfigJobs
<1>5. /\ \A f \in Shared : job[s].cfg[f] \in C!Values
      /\ job[s].original.values \in [Shared -> C!Values]
  BY <1>4 DEF C!Configs, C!Fields, C!FileStates
<1>6. v = [f \in Shared |-> IF f \in job[s].named THEN job[s].cfg[f]
                            ELSE job[s].original.values[f]]
  BY DEF C!Patched
<1> HIDE DEF v
<1>7. v \in [Shared -> C!Values]
  BY <1>5, <1>6
<1>8. file' \in C!FileStates /\ file'.state = "whole" /\ file'.values = v
  BY <1>1, <1>7, WholeFile
<1>9. landed' \in [Shared -> [by : {"nobody", "put", "panel"}, value : C!Values]]
  BY <1>1, <1>4, <1>5
<1>10. ConfigTyped'
  BY <1>1, <1>3, <1>4, <1>8, <1>9 DEF ConfigInv, ConfigTyped
<1>11. job'[s] = j /\ \A t \in Slots \ {s} : job'[t] = job[t] /\ ~Writing(t)
  BY <1>2, <1>3, <1>4 DEF ConfigInv
<1>12. \A t \in Slots : ~Writing(t)'
  BY <1>3, <1>11 DEF Writing
<1>13. \A t \in Slots : UpToDate(t)'
  BY <1>12 DEF UpToDate, Writing
<1>14. ASSUME NEW f \in Shared, landed'[f].by = "put" PROVE v[f] = landed'[f].value
  <2>1. CASE f \in job[s].named
    BY <1>1, <1>6, <2>1
  <2>2. CASE f \notin job[s].named
    <3>1. landed'[f] = landed[f] /\ v[f] = job[s].original.values[f]
      BY <1>1, <1>6, <2>2
    <3>2. QED
      BY <3>1, <1>1, <1>14 DEF ConfigInv, UpToDate
  <2>3. QED
    BY <2>1, <2>2
<1>15. C!SharedEditsSurvive'
  BY <1>8, <1>14 DEF C!SharedEditsSurvive
<1>16. QED
  BY <1>10, <1>12, <1>13, <1>15 DEF ConfigInv

LEMMA SaveConfig == ASSUME ConfigInv, NEW s \in Slots, C!Reread(s) \/ C!Save(s) PROVE ConfigInv'
<1>1. /\ job[s] \in ConfigJobs /\ row \in C!Configs /\ backup \in C!FileStates
      /\ edits \in 0 .. MaxRequests /\ job[s].cfg \in C!Configs
  BY DEF ConfigInv, ConfigTyped, ConfigJobs
<1>2. CASE C!Save(s)
  <2>1. row' = job[s].cfg /\ C!End(s) /\ UNCHANGED <<file, backup, lock, landed, edits>>
    BY <1>2 DEF C!Save
  <2>2. QED
    BY <2>1, <1>1, SlotEnds
<1>3. CASE C!Reread(s)
  <2>1. UNCHANGED <<row, file, backup, lock, landed, edits>>
    BY <1>3 DEF C!Reread
  <2>2. CASE C!End(s)
    BY <2>1, <2>2, <1>1, SlotEnds
  <2>3. CASE ~C!End(s)
    <3> DEFINE c == C!Overlaid(job[s].cfg)
               j == [job[s] EXCEPT !.pc = "save", !.cfg = c]
    <3>1. job' = [job EXCEPT ![s] = j]
      BY <1>3, <2>3 DEF C!Reread
    <3>2. c \in C!Configs
      BY <1>1, OverlaidType
    <3> HIDE DEF c
    <3>3. j \in ConfigJobs /\ j.pc = "save"
      BY <1>1, <3>2 DEF ConfigJobs
    <3> HIDE DEF j
    <3>4. QED
      BY <2>1, <1>1, <3>1, <3>3, SlotMoves
  <2>4. QED
    BY <2>2, <2>3
<1>4. QED
  BY <1>2, <1>3

\* The panel may overtake a writer; then the field is the panel's.
LEMMA PanelConfig == ASSUME ConfigInv, C!NativeEdit PROVE ConfigInv'
<1>1. PICK f \in Shared :
        /\ file.state = "whole" /\ edits < MaxRequests /\ edits' = edits + 1
        /\ file' = [file EXCEPT !.values[f] = edits + 1]
        /\ landed' = [landed EXCEPT ![f] = [by |-> "panel", value |-> edits + 1]]
        /\ UNCHANGED <<row, backup, lock, job>>
  BY DEF C!NativeEdit
<1>2. /\ edits \in 0 .. MaxRequests /\ file \in C!FileStates
      /\ landed \in [Shared -> [by : {"nobody", "put", "panel"}, value : C!Values]]
  BY DEF ConfigInv, ConfigTyped
<1>3. edits' \in 0 .. MaxRequests /\ edits + 1 \in C!Values
  BY <1>1, <1>2, SlotsAssumption DEF C!Values
<1>4. /\ file' \in C!FileStates /\ file'.state = "whole"
      /\ \A g \in Shared \ {f} : file'.values[g] = file.values[g]
  BY <1>1, <1>2, <1>3 DEF C!FileStates
<1>5. /\ landed' \in [Shared -> [by : {"nobody", "put", "panel"}, value : C!Values]]
      /\ landed'[f].by = "panel" /\ \A g \in Shared \ {f} : landed'[g] = landed[g]
  BY <1>1, <1>2, <1>3
<1>6. ConfigTyped'
  BY <1>1, <1>3, <1>4, <1>5 DEF ConfigInv, ConfigTyped
<1>7. \A s \in Slots : (Writing(s)' => lock' = s) /\ UpToDate(s)'
  BY <1>1, <1>5 DEF ConfigInv, Writing, UpToDate
<1>8. C!SharedEditsSurvive'
  BY <1>4, <1>5 DEF ConfigInv, C!SharedEditsSurvive
<1>9. QED
  BY <1>6, <1>7, <1>8 DEF ConfigInv

LEMMA CrashConfig == ASSUME ConfigInv, C!Crash PROVE ConfigInv'
<1>1. /\ job' = [s \in Slots |-> C!NoJob] /\ lock' = "free"
      /\ UNCHANGED <<row, file, backup, landed, edits>>
  BY DEF C!Crash
<1>2. ConfigTyped'
  BY <1>1, EmptyJob DEF ConfigInv, ConfigTyped
<1>3. \A s \in Slots : ~Writing(s)' /\ UpToDate(s)'
  BY <1>1, EmptyJob DEF Writing, UpToDate
<1>4. C!SharedEditsSurvive'
  BY <1>1 DEF ConfigInv, C!SharedEditsSurvive
<1>5. QED
  BY <1>2, <1>3, <1>4 DEF ConfigInv

LEMMA ConfigNext == ASSUME ConfigInv, C!Next \/ UNCHANGED config PROVE ConfigInv'
<1>1. CASE C!Next
  BY <1>1, BeginConfig, OverlayConfig, CreateConfig, WriteNewConfig, ReadConfig, CheckConfig,
     RecheckConfig, RenameConfig, SaveConfig, PanelConfig, CrashConfig DEF C!Next
<1>2. CASE UNCHANGED config
  <2>1. UNCHANGED <<row, file, backup, lock, job, landed, edits>>
    BY <1>2 DEF config
  <2>2. QED
    BY <2>1 DEF ConfigInv, ConfigTyped, Writing, UpToDate, C!SharedEditsSurvive
<1>3. QED
  BY <1>1, <1>2

\* A shared field keeps what a request has put there until another request or
\* the panel sets the same field, for any number of concurrent requests
\* (config_file.go:219-426).
THEOREM ConfigEditsSurvive == HostSpec => []SharedEditsSurvive
<1>1. HostInit => ConfigInv
  BY ConfigInit DEF HostInit
<1>2. ConfigInv /\ [HostNext]_<<part, vars, connection, log, config, binary, login, socket>>
        => ConfigInv'
  BY ConfigNext DEF HostNext
<1>3. ConfigInv => SharedEditsSurvive
  BY DEF ConfigInv, SharedEditsSurvive
<1>4. QED
  BY <1>1, <1>2, <1>3, PTL DEF HostSpec
-----------------------------------------------------------------------------
(***************************************************************************)
(* The frames of a WebSocket (ResponsesSocket).  For each source p, what   *)
(* was read of it is what was written to the other peer and what is in     *)
(* hand, unless the other peer has left or frames were lost (Exact).       *)
(***************************************************************************)
Exact(p) == unread[p] > 0 \/ p \notin lossy

\* The goroutine of p is done: nothing of p is missing where it could arrive.
Settled(p) ==
  LET q == W!Other(p) IN
  \/ q \in left \/ q \notin conns \/ p \in lossy
  \/ p \notin conns /\ p \notin left
  \/ p \in left /\ unread[p] = 0 /\ Len(written[q]) = sent[p]

\* Why the goroutine of p is done: its write failed, or its source ended.
Why(p) ==
  LET q == W!Other(p) IN
  q \in lossy \/ (q \notin conns /\ q \notin left) \/ p \in left \/ p \notin conns

Flow(p) ==
  LET q == W!Other(p) IN
  /\ unread[p] <= sent[p]
  /\ copier[p] # "none" => Len(written[q]) <= sent[p] /\ W!InOrder(q, written[q])
  /\ copier[p] = "read" /\ q \notin left /\ Exact(p) => Len(written[q]) = sent[p] - unread[p]
  /\ copier[p] \in {"lock", "write"} =>
       /\ hand[p] \in 1 .. sent[p]
       /\ q \notin left => /\ hand[p] = Len(written[q]) + 1
                           /\ Exact(p) => hand[p] = sent[p] - unread[p]
  /\ copier[p] = "done" => Settled(p) /\ Why(p)

Quiet == copier["client"] = "none"

BeforeCopy ==
  Quiet =>
    /\ written["upstream"] = <<>> /\ written["client"] \in {<<>>, <<W!ErrorFrame>>}
    /\ handler # "closing" => /\ written["client"] = <<>>
                              /\ Exact("upstream") => unread["upstream"] = sent["upstream"]
    /\ handler = "await" /\ Exact("client") => unread["client"] = sent["client"]
    /\ handler \in {"choose", "dialed"} =>
         /\ hand["client"] \in {1, W!Rewritten} /\ sent["client"] >= 1
         /\ Exact("client") => unread["client"] = sent["client"] - 1

Phases ==
  /\ copier["upstream"] = "none" <=> Quiet
  /\ handler \in {"await", "choose", "dialed"} => Quiet
  /\ handler \in {"await", "choose"} => conns = {"client"}
  /\ handler \in {"dialed", "copy"} => conns = W!Peers
  /\ handler = "copy" => ~Quiet
  /\ "client" \notin conns => conns = {}
  /\ handler = "closing" /\ ~Quiet => copier["client"] = "done" \/ copier["upstream"] = "done"

SocketInv ==
  /\ W!TypeOK /\ lossy \subseteq left /\ Phases /\ BeforeCopy
  /\ \A p \in W!Peers : Flow(p)

LEMMA TwoPeers ==
  /\ W!Peers = {"client", "upstream"}
  /\ W!Other("client") = "upstream" /\ W!Other("upstream") = "client"
  /\ \A p \in W!Peers : W!Other(p) \in W!Peers /\ W!Other(p) # p /\ W!Other(W!Other(p)) = p
BY DEF W!Peers, W!Other

LEMMA FrameNumbers ==
  /\ 0 \in W!Frames /\ 1 \in W!Frames /\ W!Rewritten \in W!Frames
  /\ 0 .. MaxFrames \subseteq W!Frames /\ W!Frames \subseteq Nat
BY FramesAssumption DEF W!Frames, W!Rewritten, W!ErrorFrame

\* Nothing was written, or the first frame.
LEMMA ShortInOrder ==
  /\ \A p : Len(<<>>) = 0 /\ W!InOrder(p, <<>>)
  /\ \A f \in {1, W!Rewritten} : Len(<<f>>) = 1 /\ W!InOrder("upstream", <<f>>)
BY EmptySeq DEF W!InOrder

LEMMA SocketInit == ASSUME W!Init PROVE SocketInv
<1>1. /\ handler = "await" /\ conns = {"client"} /\ writeMu = "free"
      /\ copier = [p \in W!Peers |-> "none"] /\ hand = [p \in W!Peers |-> 0]
      /\ sent = [p \in W!Peers |-> 0] /\ unread = [p \in W!Peers |-> 0]
      /\ written = [p \in W!Peers |-> <<>>]
      /\ left = {} /\ stalled = {} /\ lossy = {}
  BY DEF W!Init
<1>2. 0 \in 0 .. MaxFrames /\ 0 \in W!Frames /\ <<>> \in Seq(W!Frames)
  BY FramesAssumption, FrameNumbers, EmptySeq
<1>3. W!TypeOK
  BY <1>1, <1>2, TwoPeers DEF W!TypeOK
<1>4. \A p \in W!Peers : Flow(p)
  BY <1>1 DEF Flow
<1>5. Phases /\ BeforeCopy
  BY <1>1, TwoPeers DEF Phases, BeforeCopy, Quiet
<1>6. QED
  BY <1>1, <1>3, <1>4, <1>5 DEF SocketInv

\* What is written is not changed while p's goroutine stays where it is.
LEMMA FlowKept ==
  ASSUME SocketInv, NEW p \in W!Peers,
         copier'[p] = copier[p], hand'[p] = hand[p],
         copier[p] # "none" => written'[W!Other(p)] = written[W!Other(p)],
         left \subseteq left', lossy \subseteq lossy', left' \ left \subseteq conns,
         \A q \in W!Peers : q \notin conns /\ copier[p] # "none" => q \notin conns',
         \/ sent'[p] = sent[p] /\ unread'[p] = unread[p]
         \/ /\ p \in conns /\ p \notin left
            /\ sent'[p] = sent[p] + 1 /\ unread'[p] = unread[p] + 1
         \/ sent'[p] = sent[p] /\ unread'[p] = 0 /\ p \in lossy'
  PROVE  Flow(p)'
<1> DEFINE q == W!Other(p)
<1>1. q \in W!Peers /\ q # p
  BY TwoPeers
<1>2. Flow(p) /\ lossy \subseteq left
  BY DEF SocketInv
<1>3. sent[p] \in Nat /\ unread[p] \in Nat /\ hand[p] \in Nat /\ Len(written[q]) \in Nat
  BY <1>1, FrameNumbers, LenProperties DEF SocketInv, W!TypeOK
<1> HIDE DEF q
<1>4. unread[p] <= sent[p] /\ unread'[p] <= sent'[p] /\ sent[p] <= sent'[p]
  BY <1>2, <1>3 DEF Flow
<1>5. \/ sent'[p] - unread'[p] = sent[p] - unread[p] /\ (Exact(p)' => Exact(p))
      \/ ~Exact(p)'
  BY <1>2, <1>3 DEF Exact
<1>6. ASSUME copier'[p] # "none"
      PROVE  Len(written'[q]) <= sent'[p] /\ W!InOrder(q, written'[q])
  <2>1. written'[q] = written[q] /\ Len(written[q]) <= sent[p] /\ W!InOrder(q, written[q])
    BY <1>2, <1>6 DEF Flow, q
  <2>2. QED
    BY <2>1, <1>3, <1>4
<1>7. ASSUME copier'[p] = "read", q \notin left', Exact(p)'
      PROVE  Len(written'[q]) = sent'[p] - unread'[p]
  <2>1. written'[q] = written[q] /\ q \notin left /\ Exact(p)
    BY <1>5, <1>7 DEF q
  <2>2. Len(written[q]) = sent[p] - unread[p]
    BY <1>2, <1>7, <2>1 DEF Flow, q
  <2>3. QED
    BY <1>5, <1>7, <2>1, <2>2
<1>8. ASSUME copier'[p] \in {"lock", "write"}
      PROVE  /\ hand'[p] \in 1 .. sent'[p]
             /\ q \notin left' => /\ hand'[p] = Len(written'[q]) + 1
                                  /\ Exact(p)' => hand'[p] = sent'[p] - unread'[p]
  <2>1. /\ hand[p] \in 1 .. sent[p] /\ written'[q] = written[q]
        /\ q \notin left => /\ hand[p] = Len(written[q]) + 1
                            /\ Exact(p) => hand[p] = sent[p] - unread[p]
    BY <1>2, <1>8 DEF Flow, q
  <2>2. hand'[p] \in 1 .. sent'[p]
    BY <2>1, <1>3, <1>4
  <2>3. QED
    BY <2>1, <2>2, <1>5
<1>9. ASSUME copier'[p] = "done" PROVE Settled(p)' /\ Why(p)'
  <2>1. Settled(p) /\ Why(p) /\ written'[q] = written[q]
    BY <1>2, <1>9 DEF Flow, q
  <2>2. Why(p)'
    BY <2>1, <1>1, <1>9 DEF Why, q
  <2>3. Settled(p)'
    BY <2>1, <1>1, <1>2, <1>9 DEF Settled, q
  <2>4. QED
    BY <2>2, <2>3
<1>10. QED
  BY <1>4, <1>6, <1>7, <1>8, <1>9 DEF Flow, q

\* The state of the peers alone changes.
LEMMA SocketPeers ==
  ASSUME SocketInv, NEW p \in W!Peers, W!Send(p) \/ W!Leave(p) \/ W!Break(p) \/ W!Stall(p)
  PROVE  SocketInv'
<1>1. /\ UNCHANGED <<handler, conns, copier, hand, writeMu, written>>
      /\ p \in conns /\ p \notin left
      /\ left' \in {left, left \cup {p}} /\ lossy' \in {lossy, lossy \cup {p}}
      /\ stalled' \in {stalled, stalled \cup {p}}
      /\ lossy' # lossy => left' = left \cup {p}
      /\ \/ sent' = sent /\ unread' = unread
         \/ /\ sent[p] < MaxFrames /\ lossy' = lossy /\ left' = left
            /\ sent' = [sent EXCEPT ![p] = @ + 1] /\ unread' = [unread EXCEPT ![p] = @ + 1]
         \/ sent' = sent /\ unread' = [unread EXCEPT ![p] = 0] /\ lossy' = lossy \cup {p}
  BY DEF W!Send, W!Leave, W!Break, W!Stall, W!Present
<1>2. /\ W!TypeOK /\ lossy \subseteq left /\ Phases /\ BeforeCopy
      /\ sent \in [W!Peers -> 0 .. MaxFrames] /\ unread \in [W!Peers -> 0 .. MaxFrames]
      /\ \A x \in W!Peers : unread[x] <= sent[x]
  BY DEF SocketInv, W!TypeOK, Flow
<1>3. /\ sent' \in [W!Peers -> 0 .. MaxFrames] /\ unread' \in [W!Peers -> 0 .. MaxFrames]
  <2>1. sent[p] \in 0 .. MaxFrames /\ unread[p] \in 0 .. MaxFrames /\ unread[p] <= sent[p]
    BY <1>2
  <2>2. 0 \in 0 .. MaxFrames /\ (sent[p] < MaxFrames =>
          sent[p] + 1 \in 0 .. MaxFrames /\ unread[p] + 1 \in 0 .. MaxFrames)
    BY <2>1, FramesAssumption
  <2>3. QED
    BY <1>1, <1>2, <2>2
<1>4. W!TypeOK'
  BY <1>1, <1>2, <1>3 DEF W!TypeOK
<1>5. lossy' \subseteq left' /\ Phases'
  BY <1>1, <1>2 DEF Phases, Quiet
<1>6. ASSUME NEW x \in W!Peers PROVE Flow(x)'
  <2>1. /\ copier'[x] = copier[x] /\ hand'[x] = hand[x]
        /\ written'[W!Other(x)] = written[W!Other(x)]
        /\ left \subseteq left' /\ lossy \subseteq lossy' /\ left' \ left \subseteq conns
        /\ \A q \in W!Peers : q \notin conns /\ copier[x] # "none" => q \notin conns'
    BY <1>1
  <2>2. \/ sent'[x] = sent[x] /\ unread'[x] = unread[x]
        \/ /\ x \in conns /\ x \notin left
           /\ sent'[x] = sent[x] + 1 /\ unread'[x] = unread[x] + 1
        \/ sent'[x] = sent[x] /\ unread'[x] = 0 /\ x \in lossy'
    BY <1>1, <1>2
  <2>3. QED
    BY <2>1, <2>2, FlowKept
<1>7. BeforeCopy'
  <2>1. SUFFICES ASSUME Quiet PROVE BeforeCopy'
    BY <1>1 DEF BeforeCopy, Quiet
  <2>2. \A x \in W!Peers :
          /\ sent[x] \in Nat /\ unread[x] \in Nat /\ sent'[x] \in Nat /\ unread'[x] \in Nat
          /\ sent'[x] >= sent[x]
          /\ Exact(x)' => Exact(x) /\ (sent'[x] - unread'[x] = sent[x] - unread[x])
    BY <1>1, <1>2, FramesAssumption DEF Exact
  <2>3. \A x \in W!Peers : Exact(x)' => Exact(x)
    BY <2>2
  <2>4. "client" \in W!Peers /\ "upstream" \in W!Peers
    BY TwoPeers
  <2>5. Quiet' /\ handler' = handler /\ hand' = hand /\ written' = written
    BY <1>1, <2>1 DEF Quiet
  <2>6. handler # "closing" /\ Exact("upstream")' => unread'["upstream"] = sent'["upstream"]
    BY <1>2, <2>1, <2>2, <2>4 DEF BeforeCopy
  <2>7. handler = "await" /\ Exact("client")' => unread'["client"] = sent'["client"]
    BY <1>2, <2>1, <2>2, <2>4 DEF BeforeCopy
  <2>8. handler \in {"choose", "dialed"} =>
          /\ sent'["client"] >= 1
          /\ Exact("client")' => unread'["client"] = sent'["client"] - 1
    BY <1>2, <2>1, <2>2, <2>4 DEF BeforeCopy
  <2>9. QED
    BY <1>2, <2>1, <2>5, <2>6, <2>7, <2>8 DEF BeforeCopy
<1>8. QED
  BY <1>4, <1>5, <1>6, <1>7 DEF SocketInv

\* Before the copying no goroutine runs, and Flow says little.
LEMMA QuietFlow ==
  ASSUME SocketInv, Quiet', copier' = copier, UNCHANGED <<sent, left>>,
         \A p \in W!Peers : unread'[p] <= sent[p]
  PROVE  \A p \in W!Peers : Flow(p)'
<1>1. \A p \in W!Peers : copier'[p] = "none"
  BY TwoPeers DEF SocketInv, Phases, Quiet
<1>2. QED
  BY <1>1 DEF Flow

LEMMA SocketFirst == ASSUME SocketInv, W!ReadFirst \/ W!Refuse \/ W!Dial PROVE SocketInv'
<1>1. /\ UNCHANGED <<copier, writeMu, sent, left, stalled, lossy>>
      /\ handler \in {"await", "choose"} /\ Quiet /\ Quiet'
  BY DEF W!ReadFirst, W!Refuse, W!Dial, W!peers, SocketInv, Phases, Quiet
<1>2. /\ W!TypeOK /\ lossy \subseteq left /\ Phases /\ BeforeCopy
      /\ \A x \in W!Peers : unread[x] \in 0 .. MaxFrames /\ sent[x] \in 0 .. MaxFrames /\ unread[x] <= sent[x]
  BY DEF SocketInv, W!TypeOK, Flow
<1>3. "client" \in W!Peers /\ "upstream" \in W!Peers
  BY TwoPeers
<1>4. CASE W!ReadFirst
  <2>1. handler = "await" /\ conns' = conns /\ written' = written
    BY <1>4 DEF W!ReadFirst
  <2>2. CASE unread["client"] = 0
    <3>1. handler' = "closing" /\ unread' = unread /\ hand' = hand
      BY <1>4, <2>2 DEF W!ReadFirst, W!Returns
    <3>2. W!TypeOK' /\ Phases' /\ BeforeCopy'
      BY <1>1, <1>2, <2>1, <3>1 DEF W!TypeOK, Phases, BeforeCopy, Quiet
    <3>3. \A p \in W!Peers : Flow(p)'
      BY <1>1, <1>2, <3>1, QuietFlow
    <3>4. QED
      BY <1>1, <1>2, <3>2, <3>3 DEF SocketInv
  <2>3. CASE unread["client"] > 0
    <3>1. /\ handler' \in {"choose", "closing"}
          /\ unread' = [unread EXCEPT !["client"] = @ - 1] /\ hand' = [hand EXCEPT !["client"] = 1]
      BY <1>4, <2>3 DEF W!ReadFirst
    <3>2. /\ unread \in [W!Peers -> 0 .. MaxFrames] /\ hand \in [W!Peers -> W!Frames]
          /\ 1 \in W!Frames /\ unread["client"] - 1 \in 0 .. MaxFrames
      BY <1>2, <1>3, <2>3, FramesAssumption, FrameNumbers DEF W!TypeOK
    <3>3. /\ unread' \in [W!Peers -> 0 .. MaxFrames] /\ hand' \in [W!Peers -> W!Frames]
          /\ unread'["client"] = unread["client"] - 1 /\ hand'["client"] = 1
          /\ unread'["upstream"] = unread["upstream"]
      BY <1>3, <3>1, <3>2, TwoPeers
    <3>4. W!TypeOK'
      BY <1>1, <1>2, <2>1, <3>1, <3>3 DEF W!TypeOK
    <3>5. Phases'
      BY <1>1, <1>2, <2>1, <3>1 DEF Phases, Quiet
    <3>6. \A p \in W!Peers : unread'[p] <= sent[p]
      BY <1>2, <1>3, <3>3, TwoPeers
    <3>7. \A p \in W!Peers : Flow(p)'
      BY <1>1, <3>6, QuietFlow
    <3>8. unread["client"] = sent["client"]
      BY <1>1, <1>2, <2>1, <2>3 DEF BeforeCopy, Exact
    <3>9. sent["client"] >= 1 /\ unread'["client"] = sent'["client"] - 1
      BY <1>1, <1>2, <1>3, <2>3, <3>3, <3>8
    <3>10. BeforeCopy'
      <4>1. handler' # "closing" /\ Exact("upstream")' => unread'["upstream"] = sent'["upstream"]
        BY <1>1, <1>2, <2>1, <3>3 DEF BeforeCopy, Exact
      <4>2. written'["upstream"] = <<>> /\ written'["client"] = <<>>
        BY <1>1, <1>2, <2>1 DEF BeforeCopy
      <4>3. QED
        BY <1>1, <3>1, <3>3, <3>9, <4>1, <4>2 DEF BeforeCopy
    <3>11. QED
      BY <1>1, <1>2, <3>4, <3>5, <3>7, <3>10 DEF SocketInv
  <2>4. QED
    BY <1>2, <1>3, <2>2, <2>3
<1>5. CASE W!Refuse
  <2>1. /\ handler' = "closing" /\ conns' = conns /\ hand' = hand /\ unread' = unread
        /\ \/ written' = written
           \/ written' = [written EXCEPT !["client"] = <<W!ErrorFrame>>]
    BY <1>5 DEF W!Refuse, W!Returns
  <2>2. written \in [W!Peers -> Seq(W!Frames)] /\ <<W!ErrorFrame>> \in Seq(W!Frames)
    <3>1. 0 \in W!Frames
      BY FrameNumbers
    <3>2. QED
      BY <1>2, <3>1 DEF W!TypeOK, W!ErrorFrame
  <2>3. written' \in [W!Peers -> Seq(W!Frames)]
    BY <2>1, <2>2
  <2>4. /\ written'["upstream"] = written["upstream"]
        /\ written'["client"] \in {written["client"], <<W!ErrorFrame>>}
    BY <1>3, <2>1, <2>2, TwoPeers
  <2>5. W!TypeOK' /\ Phases'
    BY <1>1, <1>2, <2>1, <2>3 DEF W!TypeOK, Phases, Quiet
  <2>6. BeforeCopy'
    BY <1>1, <1>2, <2>1, <2>4 DEF BeforeCopy
  <2>7. \A p \in W!Peers : Flow(p)'
    BY <1>1, <1>2, <2>1, QuietFlow
  <2>8. QED
    BY <1>1, <1>2, <2>5, <2>6, <2>7 DEF SocketInv
<1>6. CASE W!Dial
  <2>1. /\ handler = "choose" /\ handler' = "dialed" /\ conns' = W!Peers
        /\ hand' \in {hand, [hand EXCEPT !["client"] = W!Rewritten]}
        /\ unread' = unread /\ written' = written
    BY <1>6 DEF W!Dial
  <2>2. /\ hand' \in [W!Peers -> W!Frames]
        /\ hand'["client"] \in {hand["client"], W!Rewritten}
    BY <1>2, <1>3, <2>1, FrameNumbers DEF W!TypeOK
  <2>3. W!TypeOK' /\ Phases'
    BY <1>1, <1>2, <1>3, <2>1, <2>2 DEF W!TypeOK, Phases, Quiet
  <2>4. BeforeCopy'
    BY <1>1, <1>2, <2>1, <2>2 DEF BeforeCopy, Exact
  <2>5. \A p \in W!Peers : Flow(p)'
    BY <1>1, <1>2, <2>1, QuietFlow
  <2>6. QED
    BY <1>1, <1>2, <2>3, <2>4, <2>5 DEF SocketInv
<1>7. QED
  BY <1>4, <1>5, <1>6

\* The first frame is the client's first, and nothing of the upstream is read.
LEMMA SocketWriteFirst == ASSUME SocketInv, W!WriteFirst PROVE SocketInv'
<1>1. /\ handler = "dialed" /\ Quiet /\ conns = W!Peers
      /\ UNCHANGED <<conns, writeMu, sent, left, stalled, unread>>
      /\ lossy' = lossy \cup ({"upstream"} \cap left)
      /\ hand' = [hand EXCEPT !["client"] = 0]
  BY DEF W!WriteFirst, W!peers, SocketInv, Phases, Quiet
<1>2. /\ W!TypeOK /\ lossy \subseteq left /\ Phases /\ BeforeCopy
      /\ sent \in [W!Peers -> 0 .. MaxFrames] /\ unread \in [W!Peers -> 0 .. MaxFrames]
      /\ hand \in [W!Peers -> W!Frames] /\ written \in [W!Peers -> Seq(W!Frames)]
      /\ copier \in [W!Peers -> {"none", "read", "lock", "write", "done"}]
      /\ \A x \in W!Peers : unread[x] <= sent[x]
  BY DEF SocketInv, W!TypeOK, Flow
<1>3. "client" \in W!Peers /\ "upstream" \in W!Peers
  BY TwoPeers
<1>4. hand' \in [W!Peers -> W!Frames]
  <2>1. 0 \in W!Frames
    BY FrameNumbers
  <2>2. QED
    BY <1>1, <1>2, <2>1
<1>5. lossy' \subseteq left' /\ lossy' \subseteq W!Peers
  BY <1>1, <1>2 DEF W!TypeOK
<1>6. /\ written["upstream"] = <<>> /\ written["client"] = <<>>
      /\ Exact("upstream") => unread["upstream"] = sent["upstream"]
      /\ hand["client"] \in {1, W!Rewritten} /\ sent["client"] >= 1
      /\ Exact("client") => unread["client"] = sent["client"] - 1
  BY <1>1, <1>2 DEF BeforeCopy
<1>7. CASE handler' = "closing" /\ copier' = copier /\ written' = written
  <2>1. W!TypeOK' /\ Phases' /\ BeforeCopy'
    BY <1>1, <1>2, <1>4, <1>5, <1>7 DEF W!TypeOK, Phases, BeforeCopy, Quiet
  <2>2. Quiet'
    BY <1>1, <1>7 DEF Quiet
  <2>3. \A p \in W!Peers : Flow(p)'
    BY <1>1, <1>2, <1>7, <2>2, QuietFlow
  <2>4. QED
    BY <1>5, <2>1, <2>3 DEF SocketInv
<1>8. CASE /\ handler' = "copy" /\ copier' = [p \in W!Peers |-> "read"]
           /\ written' = IF "upstream" \in left THEN written
                         ELSE [written EXCEPT !["upstream"] = <<hand["client"]>>]
  <2>1. copier'["client"] = "read" /\ copier'["upstream"] = "read" /\ ~Quiet'
    BY <1>3, <1>8 DEF Quiet
  <2>2. /\ <<hand["client"]>> \in Seq(W!Frames) /\ Len(<<hand["client"]>>) = 1
        /\ W!InOrder("upstream", <<hand["client"]>>)
    <3>1. hand["client"] \in W!Frames
      BY <1>2, <1>3
    <3>2. QED
      BY <1>6, <3>1, ShortInOrder
  <2>3. written' \in [W!Peers -> Seq(W!Frames)]
    BY <1>2, <1>8, <2>2
  <2>4. W!TypeOK' /\ Phases' /\ BeforeCopy'
    BY <1>1, <1>2, <1>4, <1>5, <1>8, <2>1, <2>3 DEF W!TypeOK, Phases, BeforeCopy
  <2>5. written'["client"] = <<>>
    BY <1>2, <1>3, <1>6, <1>8, TwoPeers
  <2>6. "upstream" \in left =>
          Len(written'["upstream"]) = 0 /\ W!InOrder("upstream", written'["upstream"])
    <3>1. Len(<<>>) = 0 /\ W!InOrder("upstream", <<>>)
      BY ShortInOrder
    <3>2. "upstream" \in left => written'["upstream"] = <<>>
      BY <1>6, <1>8
    <3>3. QED
      BY <3>1, <3>2
  <2>7. "upstream" \notin left =>
          Len(written'["upstream"]) = 1 /\ W!InOrder("upstream", written'["upstream"])
    <3>1. "upstream" \notin left => written'["upstream"] = <<hand["client"]>>
      BY <1>2, <1>3, <1>8
    <3>2. QED
      BY <2>2, <3>1
  <2>8. Len(<<>>) = 0 /\ W!InOrder("client", <<>>)
    BY ShortInOrder
  <2>9. sent["client"] \in Nat /\ sent["upstream"] \in Nat /\ unread["client"] \in Nat
        /\ unread["upstream"] \in Nat
    BY <1>2, <1>3
  <2>10. Flow("client")'
    <3>1. Len(written'["upstream"]) <= sent["client"] /\ W!InOrder("upstream", written'["upstream"])
      <4>1. sent["client"] >= 1 /\ sent["client"] >= 0
        BY <1>6, <2>9
      <4>2. QED
        BY <2>6, <2>7, <4>1
    <3>2. ASSUME "upstream" \notin left, Exact("client")'
          PROVE  Len(written'["upstream"]) = sent["client"] - unread["client"]
      <4>1. Exact("client")
        BY <1>1, <3>2 DEF Exact
      <4>2. unread["client"] = sent["client"] - 1 /\ Len(written'["upstream"]) = 1
        BY <4>1, <1>6, <2>7, <3>2
      <4>3. QED
        BY <4>2, <2>9
    <3>3. QED
      BY <1>1, <1>2, <1>3, <2>1, <3>1, <3>2, TwoPeers DEF Flow
  <2>11. Flow("upstream")'
    <3>1. Len(written'["client"]) <= sent["upstream"] /\ W!InOrder("client", written'["client"])
      BY <2>5, <2>8, <2>9
    <3>2. ASSUME Exact("upstream")'
          PROVE  Len(written'["client"]) = sent["upstream"] - unread["upstream"]
      <4>1. Exact("upstream")
        BY <1>1, <3>2 DEF Exact
      <4>2. QED
        BY <4>1, <1>6, <2>5, <2>8, <2>9
    <3>3. QED
      BY <1>1, <1>2, <1>3, <2>1, <3>1, <3>2, TwoPeers DEF Flow
  <2>12. QED
    BY <1>5, <2>4, <2>10, <2>11, TwoPeers DEF SocketInv
<1>9. QED
  BY <1>7, <1>8 DEF W!WriteFirst, W!Returns

\* The handler returns, or closes a connection.
LEMMA SocketCloses == ASSUME SocketInv, W!CopyEnds \/ W!Close PROVE SocketInv'
<1>1. /\ UNCHANGED <<copier, hand, writeMu, sent, left, stalled, unread, written, lossy>>
      /\ handler' = "closing"
  BY DEF W!CopyEnds, W!Close, W!Returns, W!peers
<1>2. /\ W!TypeOK /\ lossy \subseteq left /\ Phases /\ BeforeCopy
  BY DEF SocketInv
<1>3. /\ conns' \subseteq conns /\ conns' \subseteq W!Peers
      /\ "client" \notin conns' => conns' = {}
      /\ ~Quiet => copier["client"] = "done" \/ copier["upstream"] = "done"
  <2>1. CASE W!CopyEnds
    BY <1>2, <2>1, TwoPeers DEF W!CopyEnds, W!TypeOK, Phases
  <2>2. CASE W!Close
    BY <1>2, <2>2 DEF W!Close, W!TypeOK, Phases
  <2>3. QED
    BY <2>1, <2>2
<1>4. W!TypeOK' /\ Phases' /\ BeforeCopy'
  BY <1>1, <1>2, <1>3 DEF W!TypeOK, Phases, BeforeCopy, Quiet
<1>5. \A x \in W!Peers : Flow(x)'
  <2>1. ASSUME NEW x \in W!Peers PROVE Flow(x)'
    <3>1. left' \ left \subseteq conns /\ left \subseteq left' /\ lossy \subseteq lossy'
      BY <1>1
    <3>2. QED
      BY <1>1, <1>3, <3>1, FlowKept
  <2>2. QED
    BY <2>1
<1>6. QED
  BY <1>1, <1>2, <1>4, <1>5 DEF SocketInv

\* What the goroutine of p changes, and what it leaves to the other one.
LEMMA SocketCopier ==
  ASSUME SocketInv, NEW p \in W!Peers,
         UNCHANGED <<handler, conns, sent, left, stalled>>,
         copier[p] \notin {"none", "done"},
         copier' \in [W!Peers -> {"none", "read", "lock", "write", "done"}],
         copier'[p] # "none", \A x \in W!Peers \ {p} : copier'[x] = copier[x],
         hand' \in [W!Peers -> W!Frames],
         \A x \in W!Peers \ {p} : hand'[x] = hand[x],
         writeMu' \in W!Peers \cup {"free"},
         unread' \in [W!Peers -> 0 .. MaxFrames],
         written' \in [W!Peers -> Seq(W!Frames)], written'[p] = written[p],
         lossy \subseteq lossy', lossy' \subseteq left,
         \A x \in W!Peers \ {p} : unread'[x] = unread[x] \/ (unread'[x] = 0 /\ x \in lossy'),
         Flow(p)'
  PROVE  SocketInv'
<1>1. W!TypeOK /\ Phases /\ ~Quiet /\ ~Quiet'
  BY TwoPeers DEF SocketInv, Phases, Quiet
<1>2. W!TypeOK'
  BY <1>1 DEF W!TypeOK
<1>3. Phases'
  <2>1. /\ copier'["upstream"] # "none"
        /\ \A x \in W!Peers : copier[x] = "done" => copier'[x] = "done"
    BY <1>1, TwoPeers DEF Phases, Quiet
  <2>2. QED
    BY <1>1, <2>1, TwoPeers DEF Phases, Quiet
<1>4. BeforeCopy'
  BY <1>1 DEF BeforeCopy
<1>5. ASSUME NEW x \in W!Peers \ {p} PROVE Flow(x)'
  <2>1. W!Other(x) = p /\ x \in W!Peers
    BY <1>5, TwoPeers
  <2>2. /\ copier'[x] = copier[x] /\ hand'[x] = hand[x]
        /\ written'[W!Other(x)] = written[W!Other(x)]
        /\ left \subseteq left' /\ left' \ left \subseteq conns
        /\ sent'[x] = sent[x] /\ conns' = conns
    BY <1>5, <2>1
  <2>3. \/ sent'[x] = sent[x] /\ unread'[x] = unread[x]
        \/ sent'[x] = sent[x] /\ unread'[x] = 0 /\ x \in lossy'
    BY <1>5, <2>2
  <2>4. QED
    BY <2>1, <2>2, <2>3, FlowKept
<1>6. lossy' \subseteq left'
  OBVIOUS
<1>7. QED
  BY <1>2, <1>3, <1>4, <1>5, <1>6 DEF SocketInv

LEMMA SocketReceive == ASSUME SocketInv, NEW p \in W!Peers, W!Receive(p) PROVE SocketInv'
<1> DEFINE q == W!Other(p)
<1>1. /\ copier[p] = "read" /\ unread[p] > 0
      /\ hand' = [hand EXCEPT ![p] = sent[p] - unread[p] + 1]
      /\ unread' = [unread EXCEPT ![p] = @ - 1]
      /\ copier' = [copier EXCEPT ![p] = "lock"]
      /\ UNCHANGED <<handler, conns, writeMu, sent, left, stalled, written, lossy>>
  BY DEF W!Receive, W!peers
<1>2. /\ W!TypeOK /\ Flow(p) /\ lossy \subseteq left /\ q \in W!Peers
      /\ sent[p] \in 0 .. MaxFrames /\ unread[p] \in 0 .. MaxFrames
  BY TwoPeers DEF SocketInv, W!TypeOK
<1> HIDE DEF q
<1>3. /\ unread[p] <= sent[p] /\ Len(written[q]) <= sent[p] /\ W!InOrder(q, written[q])
      /\ q \notin left => Len(written[q]) = sent[p] - unread[p]
  BY <1>1, <1>2 DEF Flow, Exact, q
<1>4. /\ sent[p] - unread[p] + 1 \in 0 .. MaxFrames /\ unread[p] - 1 \in 0 .. MaxFrames
      /\ sent[p] - unread[p] + 1 \in 1 .. sent[p] /\ unread[p] - 1 <= sent[p]
      /\ sent[p] - (unread[p] - 1) = sent[p] - unread[p] + 1
  BY <1>1, <1>2, <1>3, FramesAssumption
<1>5. sent[p] - unread[p] + 1 \in W!Frames
  BY <1>4, FrameNumbers
<1>6. /\ hand' \in [W!Peers -> W!Frames] /\ unread' \in [W!Peers -> 0 .. MaxFrames]
      /\ copier' \in [W!Peers -> {"none", "read", "lock", "write", "done"}]
      /\ hand'[p] = sent[p] - unread[p] + 1 /\ unread'[p] = unread[p] - 1 /\ copier'[p] = "lock"
      /\ \A x \in W!Peers \ {p} : /\ hand'[x] = hand[x] /\ unread'[x] = unread[x]
                                  /\ copier'[x] = copier[x]
  BY <1>1, <1>2, <1>4, <1>5 DEF W!TypeOK
<1>7. Flow(p)'
  <2>1. /\ unread'[p] <= sent'[p] /\ Len(written'[q]) <= sent'[p] /\ W!InOrder(q, written'[q])
        /\ hand'[p] \in 1 .. sent'[p] /\ hand'[p] = sent'[p] - unread'[p]
    BY <1>1, <1>3, <1>4, <1>6
  <2>2. q \notin left' => hand'[p] = Len(written'[q]) + 1
    BY <1>1, <1>3, <1>6
  <2>3. QED
    BY <1>6, <2>1, <2>2 DEF Flow, q
<1>8. /\ writeMu' \in W!Peers \cup {"free"} /\ written' \in [W!Peers -> Seq(W!Frames)]
  BY <1>1, <1>2 DEF W!TypeOK
<1>9. /\ lossy \subseteq lossy' /\ lossy' \subseteq left
      /\ copier[p] \notin {"none", "done"} /\ copier'[p] # "none" /\ written'[p] = written[p]
      /\ UNCHANGED <<handler, conns, sent, left, stalled>>
  BY <1>1, <1>2, <1>6
<1>10. QED
  BY <1>6, <1>7, <1>8, <1>9, SocketCopier

\* The source has ended: what it sent has been written, if it could be.
LEMMA SocketReceiveFails ==
  ASSUME SocketInv, NEW p \in W!Peers, W!ReceiveFails(p) PROVE SocketInv'
<1> DEFINE q == W!Other(p)
<1>1. /\ copier[p] = "read" /\ (p \notin conns \/ (p \in left /\ unread[p] = 0))
      /\ copier' = [copier EXCEPT ![p] = "done"]
      /\ UNCHANGED <<handler, conns, hand, writeMu, sent, left, stalled, unread, written, lossy>>
  BY DEF W!ReceiveFails, W!peers
<1>2. /\ W!TypeOK /\ Flow(p) /\ Flow(q) /\ lossy \subseteq left /\ q \in W!Peers /\ q # p
      /\ Phases /\ sent[p] \in 0 .. MaxFrames /\ unread[p] \in 0 .. MaxFrames
  BY TwoPeers DEF SocketInv, W!TypeOK
<1>3. W!Other(q) = p
  BY TwoPeers
<1> HIDE DEF q
<1>4. /\ copier' \in [W!Peers -> {"none", "read", "lock", "write", "done"}]
      /\ copier'[p] = "done" /\ \A x \in W!Peers \ {p} : copier'[x] = copier[x]
  BY <1>1, <1>2 DEF W!TypeOK
<1>5. Why(p)
  BY <1>1 DEF Why
<1>6. Settled(p)
  <2>1. CASE p \in left /\ unread[p] = 0
    <3>1. CASE q \in left \/ p \in lossy
      BY <3>1 DEF Settled, q
    <3>2. CASE q \notin left /\ p \notin lossy
      <4>1. Len(written[q]) = sent[p] - unread[p]
        BY <1>1, <1>2, <3>2 DEF Flow, Exact, q
      <4>2. Len(written[q]) = sent[p]
        BY <4>1, <2>1, <1>2
      <4>3. QED
        BY <4>2, <2>1 DEF Settled, q
    <3>3. QED
      BY <3>1, <3>2
  <2>2. CASE p \notin conns
    <3>1. CASE q \notin conns
      BY <3>1 DEF Settled, q
    <3>2. CASE q \in conns
      <4>1. p = "upstream" /\ q = "client"
        BY <1>2, <2>2, <3>2, TwoPeers DEF Phases
      <4>2. handler = "closing" /\ ~Quiet
        BY <1>1, <1>2, <2>2, <4>1, TwoPeers DEF Phases, W!TypeOK
      <4>3. copier[q] = "done"
        BY <1>1, <1>2, <4>1, <4>2 DEF Phases
      <4>4. Why(q)
        BY <1>2, <4>3 DEF Flow
      <4>5. p \in lossy \/ p \notin left \/ q \in left
        BY <1>3, <3>2, <4>4 DEF Why
      <4>6. QED
        BY <2>2, <4>5 DEF Settled, q
    <3>3. QED
      BY <3>1, <3>2
  <2>3. QED
    BY <1>1, <2>1, <2>2
<1>7. Flow(p)'
  <2>1. Settled(p)' /\ Why(p)'
    BY <1>1, <1>5, <1>6 DEF Settled, Why
  <2>2. unread'[p] <= sent'[p] /\ Len(written'[q]) <= sent'[p] /\ W!InOrder(q, written'[q])
    BY <1>1, <1>2 DEF Flow, q
  <2>3. QED
    BY <1>4, <2>1, <2>2 DEF Flow, q
<1>8. /\ writeMu' \in W!Peers \cup {"free"} /\ written' \in [W!Peers -> Seq(W!Frames)]
      /\ hand' \in [W!Peers -> W!Frames] /\ unread' \in [W!Peers -> 0 .. MaxFrames]
  BY <1>1, <1>2 DEF W!TypeOK
<1>9. /\ lossy \subseteq lossy' /\ lossy' \subseteq left /\ hand' = hand /\ unread' = unread
      /\ copier[p] \notin {"none", "done"} /\ copier'[p] # "none" /\ written'[p] = written[p]
      /\ UNCHANGED <<handler, conns, sent, left, stalled>>
  BY <1>1, <1>2, <1>4
<1>10. QED
  BY <1>4, <1>7, <1>8, <1>9, SocketCopier

LEMMA SocketLock == ASSUME SocketInv, NEW p \in W!Peers, W!Lock(p) PROVE SocketInv'
<1>1. /\ copier[p] = "lock" /\ writeMu' = p
      /\ copier' = [copier EXCEPT ![p] = "write"]
      /\ UNCHANGED <<handler, conns, hand, sent, left, stalled, unread, written, lossy>>
  BY DEF W!Lock, W!peers
<1>2. W!TypeOK /\ Flow(p) /\ lossy \subseteq left
  BY DEF SocketInv
<1>3. /\ copier' \in [W!Peers -> {"none", "read", "lock", "write", "done"}]
      /\ copier'[p] = "write" /\ \A x \in W!Peers \ {p} : copier'[x] = copier[x]
  BY <1>1, <1>2 DEF W!TypeOK
<1>4. Flow(p)'
  BY <1>1, <1>2, <1>3 DEF Flow, Exact
<1>5. /\ writeMu' \in W!Peers \cup {"free"} /\ written' \in [W!Peers -> Seq(W!Frames)]
      /\ hand' \in [W!Peers -> W!Frames] /\ unread' \in [W!Peers -> 0 .. MaxFrames]
  BY <1>1, <1>2 DEF W!TypeOK
<1>6. /\ lossy \subseteq lossy' /\ lossy' \subseteq left /\ hand' = hand /\ unread' = unread
      /\ copier[p] \notin {"none", "done"} /\ copier'[p] # "none" /\ written'[p] = written[p]
      /\ UNCHANGED <<handler, conns, sent, left, stalled>>
  BY <1>1, <1>2, <1>3
<1>7. QED
  BY <1>3, <1>4, <1>5, <1>6, SocketCopier

\* The frame in hand is the next one, and goes to a peer that can take it.
LEMMA SocketWrite == ASSUME SocketInv, NEW p \in W!Peers, W!Write(p) PROVE SocketInv'
<1> DEFINE q == W!Other(p)
<1>1. /\ copier[p] = "write" /\ writeMu' = "free" /\ hand' = [hand EXCEPT ![p] = 0]
      /\ UNCHANGED <<handler, conns, sent, left, stalled>>
      /\ lossy' = lossy \cup ({q} \cap left)
      /\ unread' = unread \/ (q \in left /\ unread' = [unread EXCEPT ![q] = 0])
  BY DEF W!Write, W!Unlock, W!peers
<1>2. \/ /\ q \in conns /\ copier' = [copier EXCEPT ![p] = "read"]
         /\ written' = IF q \in left THEN written
                       ELSE [written EXCEPT ![q] = Append(@, hand[p])]
      \/ /\ q \notin conns \/ q \in left
         /\ copier' = [copier EXCEPT ![p] = "done"] /\ written' = written
  BY DEF W!Write
<1>3. /\ W!TypeOK /\ Flow(p) /\ lossy \subseteq left /\ q \in W!Peers /\ q # p
      /\ sent[p] \in 0 .. MaxFrames /\ unread[p] \in 0 .. MaxFrames
      /\ hand[p] \in W!Frames /\ written[q] \in Seq(W!Frames)
  BY TwoPeers DEF SocketInv, W!TypeOK
<1> HIDE DEF q
<1>4. /\ unread[p] <= sent[p] /\ Len(written[q]) <= sent[p] /\ W!InOrder(q, written[q])
      /\ hand[p] \in 1 .. sent[p]
      /\ q \notin left => /\ hand[p] = Len(written[q]) + 1
                          /\ Exact(p) => hand[p] = sent[p] - unread[p]
  BY <1>1, <1>3 DEF Flow, q
<1>5. /\ hand' \in [W!Peers -> W!Frames]
      /\ \A x \in W!Peers \ {p} : hand'[x] = hand[x]
      /\ unread' \in [W!Peers -> 0 .. MaxFrames] /\ unread'[p] = unread[p]
      /\ \A x \in W!Peers \ {p} : unread'[x] = unread[x] \/ (unread'[x] = 0 /\ x \in lossy')
  <2>1. 0 \in W!Frames /\ 0 \in 0 .. MaxFrames
    BY FrameNumbers, FramesAssumption
  <2>2. hand' \in [W!Peers -> W!Frames] /\ \A x \in W!Peers \ {p} : hand'[x] = hand[x]
    BY <1>1, <1>3, <2>1 DEF W!TypeOK
  <2>3. CASE unread' = unread
    BY <1>3, <2>2, <2>3 DEF W!TypeOK
  <2>4. CASE q \in left /\ unread' = [unread EXCEPT ![q] = 0]
    <3>1. unread' \in [W!Peers -> 0 .. MaxFrames] /\ unread'[p] = unread[p]
      BY <1>3, <2>1, <2>4 DEF W!TypeOK
    <3>2. \A x \in W!Peers \ {p} : x = q
      BY <1>3, TwoPeers
    <3>3. q \in lossy' /\ unread'[q] = 0
      BY <1>1, <1>3, <2>4 DEF W!TypeOK
    <3>4. QED
      BY <2>2, <3>1, <3>2, <3>3
  <2>5. QED
    BY <1>1, <2>3, <2>4
<1>6. /\ lossy \subseteq lossy' /\ lossy' \subseteq left /\ (p \in lossy' <=> p \in lossy)
  BY <1>1, <1>3
<1>7. /\ copier' \in [W!Peers -> {"none", "read", "lock", "write", "done"}]
      /\ copier'[p] \in {"read", "done"} /\ \A x \in W!Peers \ {p} : copier'[x] = copier[x]
  BY <1>2, <1>3 DEF W!TypeOK
<1>8. /\ written' \in [W!Peers -> Seq(W!Frames)] /\ written'[p] = written[p]
  <2>1. Append(written[q], hand[p]) \in Seq(W!Frames)
    BY <1>3, AppendProperties
  <2>2. QED
    BY <1>2, <1>3, <2>1 DEF W!TypeOK
<1>9. Flow(p)'
  <2>1. CASE copier' = [copier EXCEPT ![p] = "done"] /\ (q \notin conns \/ q \in left)
    <3>1. copier'[p] = "done"
      BY <1>3, <2>1 DEF W!TypeOK
    <3>2. written' = written
      <4>1. copier'[p] # "read"
        BY <3>1
      <4>2. [copier EXCEPT ![p] = "read"][p] = "read"
        BY <1>3 DEF W!TypeOK
      <4>3. QED
        BY <4>1, <4>2, <1>2
    <3>3. Settled(p)' /\ Why(p)'
      <4>1. q \in left => q \in lossy'
        BY <1>1
      <4>2. q \in lossy' \/ (q \notin conns' /\ q \notin left')
        BY <1>1, <2>1, <4>1
      <4>3. Settled(p)'
        BY <1>1, <2>1 DEF Settled, q
      <4>4. QED
        BY <4>2, <4>3 DEF Why, q
    <3>4. unread'[p] <= sent'[p] /\ Len(written'[q]) <= sent'[p] /\ W!InOrder(q, written'[q])
      BY <1>1, <1>4, <1>5, <3>2
    <3>5. QED
      BY <3>1, <3>3, <3>4 DEF Flow, q
  <2>2. CASE /\ copier' = [copier EXCEPT ![p] = "read"] /\ q \in left /\ written' = written
    <3>1. copier'[p] = "read"
      BY <1>3, <2>2 DEF W!TypeOK
    <3>2. unread'[p] <= sent'[p] /\ Len(written'[q]) <= sent'[p] /\ W!InOrder(q, written'[q])
          /\ q \in left'
      BY <1>1, <1>4, <1>5, <2>2
    <3>3. QED
      BY <3>1, <3>2 DEF Flow, q
  <2>3. CASE /\ copier' = [copier EXCEPT ![p] = "read"] /\ q \notin left
             /\ written' = [written EXCEPT ![q] = Append(@, hand[p])]
    <3> DEFINE u == Append(written[q], hand[p])
    <3>1. copier'[p] = "read" /\ written'[q] = u
      BY <1>3, <2>3 DEF W!TypeOK
    <3>2. /\ Len(u) = Len(written[q]) + 1 /\ u[Len(written[q]) + 1] = hand[p]
          /\ \A i \in 1 .. Len(written[q]) : u[i] = written[q][i]
      BY <1>3, AppendProperties
    <3>3. Len(written[q]) \in Nat /\ sent[p] \in Nat /\ unread[p] \in Nat /\ hand[p] \in Nat
      BY <1>3, FrameNumbers, LenProperties
    <3> HIDE DEF u
    <3>4. Len(u) = hand[p] /\ Len(u) <= sent[p]
      BY <1>4, <2>3, <3>2, <3>3
    <3>5. W!InOrder(q, u)
      BY <1>4, <2>3, <3>2, <3>3 DEF W!InOrder
    <3>6. Exact(p)' => Len(u) = sent[p] - unread[p]
      <4>1. Exact(p)' => Exact(p)
        BY <1>5, <1>6 DEF Exact
      <4>2. QED
        BY <4>1, <1>4, <2>3, <3>4
    <3>7. QED
      BY <1>1, <1>4, <1>5, <3>1, <3>4, <3>5, <3>6 DEF Flow, q
  <2>4. QED
    BY <1>2, <2>1, <2>2, <2>3
<1>10. /\ writeMu' \in W!Peers \cup {"free"}
       /\ copier[p] \notin {"none", "done"} /\ copier'[p] # "none"
       /\ UNCHANGED <<handler, conns, sent, left, stalled>>
  BY <1>1, <1>7
<1>11. QED
  BY <1>5, <1>6, <1>7, <1>8, <1>9, <1>10, SocketCopier

LEMMA SocketNext == ASSUME SocketInv, W!Next \/ UNCHANGED socket PROVE SocketInv'
<1>1. CASE W!Handle
  BY <1>1, SocketFirst, SocketWriteFirst, SocketCloses DEF W!Handle
<1>2. CASE \E p \in W!Peers : W!Copy(p)
  BY <1>2, SocketReceive, SocketReceiveFails, SocketLock, SocketWrite DEF W!Copy
<1>3. CASE \E p \in W!Peers : W!Send(p) \/ W!Leave(p) \/ W!Break(p) \/ W!Stall(p)
  BY <1>3, SocketPeers
<1>4. CASE UNCHANGED socket
  <2>1. UNCHANGED <<handler, conns, copier, hand, writeMu, sent, unread, written, left,
                    stalled, lossy>>
    BY <1>4 DEF socket
  <2>2. W!TypeOK' /\ lossy' \subseteq left' /\ Phases' /\ BeforeCopy'
    BY <2>1 DEF SocketInv, W!TypeOK, Phases, BeforeCopy, Quiet, Exact
  <2>3. \A p \in W!Peers : Flow(p)'
    BY <2>1 DEF SocketInv, Flow, Exact, Settled, Why
  <2>4. QED
    BY <2>2, <2>3 DEF SocketInv
<1>5. QED
  BY <1>1, <1>2, <1>3, <1>4 DEF W!Next

LEMMA SocketArrives == ASSUME SocketInv PROVE W!FramesArrive
<1>1. /\ W!TypeOK /\ lossy \subseteq left /\ BeforeCopy /\ Phases
      /\ \A p \in W!Peers : Flow(p) /\ W!Other(p) \in W!Peers /\ W!Other(W!Other(p)) = p
  BY TwoPeers DEF SocketInv
<1>2. W!LastFramesArrive
  <2>1. ASSUME NEW p \in left \ lossy, copier[p] = "done", W!Present(W!Other(p))
        PROVE  Len(written[W!Other(p)]) = sent[p]
    <3>1. p \in W!Peers /\ Settled(p)
      BY <1>1, <2>1 DEF Flow, W!TypeOK
    <3>2. QED
      BY <2>1, <3>1 DEF Settled, W!Present
  <2>2. QED
    BY <2>1 DEF W!LastFramesArrive
<1>3. W!FramesInOrder
  <2>1. CASE Quiet /\ written["client"] = <<W!ErrorFrame>>
    BY <1>1, <2>1 DEF W!FramesInOrder, BeforeCopy
  <2>2. CASE Quiet /\ written["client"] = <<>>
    <3>1. \A p \in W!Peers : written[p] = <<>>
      BY <1>1, <2>2, TwoPeers DEF BeforeCopy
    <3>2. \A p \in W!Peers : 0 <= sent[W!Other(p)]
      BY <1>1, FramesAssumption DEF W!TypeOK
    <3>3. \A p \in W!Peers : Len(written[p]) = 0 /\ W!InOrder(p, written[p])
      BY <3>1, ShortInOrder
    <3>4. QED
      BY <3>2, <3>3 DEF W!FramesInOrder
  <2>3. CASE ~Quiet
    <3>1. ASSUME NEW p \in W!Peers
          PROVE  /\ Len(written[p]) <= sent[W!Other(p)]
                 /\ W!InOrder(p, written[p])
      <4>1. copier[W!Other(p)] # "none"
        BY <1>1, <2>3, TwoPeers DEF Phases, Quiet
      <4>2. QED
        BY <1>1, <4>1 DEF Flow
    <3>2. QED
      BY <3>1 DEF W!FramesInOrder
  <2>4. QED
    BY <1>1, <2>1, <2>2, <2>3 DEF BeforeCopy
<1>4. QED
  BY <1>2, <1>3 DEF W!FramesArrive

\* Each peer of a WebSocket gets the other's frames in order and without a gap,
\* each as it was sent but for the first one, which the rules of the router may
\* have rewritten, and the last ones of a peer that closed when the other
\* stays, for any number of frames (responses_websocket.go:22-173).
THEOREM SocketFramesArrive == HostSpec => []FramesArrive
<1>1. HostInit => SocketInv
  BY SocketInit DEF HostInit
<1>2. SocketInv /\ [HostNext]_<<part, vars, connection, log, config, binary, login, socket>>
        => SocketInv'
  BY SocketNext DEF HostNext
<1>3. SocketInv => FramesArrive
  BY SocketArrives DEF FramesArrive
<1>4. QED
  BY <1>1, <1>2, <1>3, PTL DEF HostSpec
-----------------------------------------------------------------------------
(***************************************************************************)
(* The request log (RequestLog).  Higher numbers hold older events and     *)
(* were modified earlier, so what a cleanup or the end of a rotation       *)
(* removes is older than everything that stays.                            *)
(***************************************************************************)
LogEvents == [n : Nat, day : Nat]
LogFiles  == [exists : BOOLEAN, events : Seq(LogEvents), mtime : Nat]

InFile(d, f) == R!ToSet(d[f].events)

\* File g was finished before file f was begun.
Older(d, g, f) ==
  /\ \A a \in InFile(d, f), b \in InFile(d, g) : b.n < a.n
  /\ d[g].exists => /\ d[f].exists => d[g].mtime <= d[f].mtime
                    /\ \A a \in InFile(d, f) : d[g].mtime <= a.day

\* Nothing is missing that is younger than e.
NothingAfter(d, K, e) ==
  \A later \in K : later.n > e.n => \E g \in R!Files : later \in InFile(d, g)

Disk(d) ==
  /\ d \in [R!Files -> LogFiles]
  /\ \A f \in R!Files : /\ ~d[f].exists => d[f].events = <<>>
                        /\ d[f].mtime <= now
  /\ \A a \in InFile(d, 0) : a.day <= d[0].mtime
  /\ \A f, g \in R!Files : f < g => Older(d, g, f)

Complete(d, K) ==
  \A f \in R!Files : f = 0 \/ ~R!Aged(d[f]) => \A e \in InFile(d, f) : NothingAfter(d, K, e)

\* Every event on the disk is younger than bound.
Below(d, bound) == \A f \in R!Files : \A e \in InFile(d, f) : e.n <= bound

Contents(d, K, bound) ==
  /\ Disk(d) /\ Complete(d, K) /\ Below(d, bound)
  /\ K \subseteq LogEvents /\ \A e \in K : e.n <= bound

\* The age of the file that a rotation stamps: not less than that of the
\* backups, not more than that of the file.
AgeFits(d, front, age) ==
  d[front].exists =>
    /\ \A g \in R!Files : g > front /\ d[g].exists => d[g].mtime <= age
    /\ d[front].events # <<>> => age <= d[front].mtime

\* The event that waits for a rotation is younger than everything.
Pending ==
  pending # R!Nobody =>
    /\ pending.n = events /\ pending.day <= now /\ oldest <= pending.day
    /\ \A f \in R!Files : disk[f].exists => disk[f].mtime <= pending.day
    /\ Contents(disk, kept, events - 1)

Rotation ==
  /\ rotation = "free" => pending = R!Nobody
  /\ rotation # "free" => logging /\ ~attached
  /\ rotation = "move" /\ backupNo < MaxBackups => ~disk[backupNo + 1].exists
  /\ rotation \in {"stamp", "reopen"} => ~disk[0].exists

LogTyped ==
  /\ now \in Nat /\ events \in Nat /\ oldest \in Nat /\ oldest <= now
  /\ logging \in BOOLEAN /\ attached \in BOOLEAN /\ starting \in BOOLEAN
  /\ rotation \in {"free", "move", "stamp", "reopen"} /\ backupNo \in R!Files
  /\ pending \in LogEvents

LogInv ==
  /\ LogTyped /\ Contents(disk, kept, events) /\ Pending /\ Rotation
  /\ attached => disk[0].exists
  /\ logging => AgeFits(disk, IF rotation = "stamp" THEN 1 ELSE 0, oldest)

\* What a sequence of events contains.
LEMMA EventsIn ==
  ASSUME NEW S, NEW s \in Seq(S), NEW e \in S
  PROVE  /\ R!ToSet(<<>>) = {} /\ R!ToSet(s) \subseteq S
         /\ R!ToSet(Append(s, e)) = R!ToSet(s) \cup {e}
         /\ s # <<>> => s[1] \in R!ToSet(s)
         /\ \A x : R!Contains(s, x) <=> x \in R!ToSet(s)
<1>1. R!ToSet(<<>>) = {} /\ R!ToSet(s) \subseteq S
  BY DEF R!ToSet
<1>2. R!ToSet(Append(s, e)) = R!ToSet(s) \cup {e}
  <2>1. /\ DOMAIN Append(s, e) = DOMAIN s \cup {Len(s) + 1}
        /\ Append(s, e)[Len(s) + 1] = e
        /\ \A i \in DOMAIN s : Append(s, e)[i] = s[i]
    OBVIOUS
  <2>2. QED
    BY <2>1 DEF R!ToSet
<1>3. s # <<>> => s[1] \in R!ToSet(s)
  BY DEF R!ToSet
<1>4. \A x : R!Contains(s, x) <=> x \in R!ToSet(s)
  BY DEF R!ToSet, R!Contains
<1>5. QED
  BY <1>1, <1>2, <1>3, <1>4

\* The files are numbered from 0, and there is a first backup.
LEMMA FileNumbers ==
  /\ 0 \in R!Files /\ 1 \in R!Files /\ MaxBackups \in R!Files
  /\ R!Files \subseteq Nat /\ \A f \in R!Files : f <= MaxBackups
  /\ \A f \in Nat : f <= MaxBackups => f \in R!Files
BY LogAssumption DEF R!Files

\* What is on a file of the disk, in a form that hides the sequences.
LEMMA FileFacts ==
  ASSUME NEW d, Disk(d), NEW f \in R!Files
  PROVE  /\ d[f] \in LogFiles /\ d[f].exists \in BOOLEAN /\ d[f].mtime \in Nat
         /\ d[f].events \in Seq(LogEvents)
         /\ InFile(d, f) \subseteq LogEvents
         /\ \A e \in InFile(d, f) : e.n \in Nat /\ e.day \in Nat
         /\ d[f].events = <<>> => InFile(d, f) = {}
         /\ ~d[f].exists => InFile(d, f) = {}
         /\ d[f].mtime <= now
<1>1. d[f] \in LogFiles /\ (~d[f].exists => d[f].events = <<>>) /\ d[f].mtime <= now
  BY DEF Disk
<1>2. d[f].exists \in BOOLEAN /\ d[f].mtime \in Nat /\ d[f].events \in Seq(LogEvents)
  BY <1>1 DEF LogFiles
<1>3. [n |-> 0, day |-> 0] \in LogEvents
  BY DEF LogEvents
<1>4. InFile(d, f) \subseteq LogEvents /\ R!ToSet(<<>>) = {}
  BY <1>2, <1>3, EventsIn DEF InFile
<1>5. \A e \in InFile(d, f) : e.n \in Nat /\ e.day \in Nat
  BY <1>4 DEF LogEvents
<1>6. d[f].events = <<>> => InFile(d, f) = {}
  BY <1>4 DEF InFile
<1>7. QED
  BY <1>1, <1>2, <1>4, <1>5, <1>6

\* A file that is absent holds nothing.
LEMMA AbsentFile ==
  /\ R!Absent \in LogFiles /\ ~R!Absent.exists /\ R!Absent.events = <<>>
  /\ R!Absent.mtime = 0 /\ R!ToSet(R!Absent.events) = {}
<1>1. <<>> \in Seq(LogEvents) /\ [n |-> 0, day |-> 0] \in LogEvents
  BY DEF LogEvents
<1>2. R!ToSet(<<>>) = {}
  BY <1>1, EventsIn
<1>3. QED
  BY <1>1, <1>2 DEF R!Absent, LogFiles

\* A disk some files of which are gone is ordered as before.
LEMMA FewerFiles ==
  ASSUME now \in Nat, NEW d, Disk(d), NEW c,
         c = [f \in R!Files |-> c[f]],
         \A f \in R!Files : c[f] = d[f] \/ c[f] = R!Absent
  PROVE  /\ Disk(c)
         /\ \A f \in R!Files : InFile(c, f) \subseteq InFile(d, f)
<1>1. \A f \in R!Files : c[f] \in LogFiles
  BY AbsentFile, FileFacts
<1>2. \A f \in R!Files : InFile(c, f) = InFile(d, f) \/ InFile(c, f) = {}
  BY AbsentFile DEF InFile
<1>3. \A f \in R!Files : (~c[f].exists => c[f].events = <<>>) /\ c[f].mtime <= now
  BY AbsentFile DEF Disk
<1>4. \A a \in InFile(c, 0) : a.day <= c[0].mtime
  BY FileNumbers, AbsentFile DEF Disk, InFile
<1>5. ASSUME NEW f \in R!Files, NEW g \in R!Files, f < g PROVE Older(c, g, f)
  <2>1. Older(d, g, f)
    BY <1>5 DEF Disk
  <2>2. CASE c[f] = d[f] /\ c[g] = d[g]
    BY <2>1, <2>2 DEF Older, InFile
  <2>3. CASE c[g] = R!Absent
    BY <2>3, AbsentFile DEF Older, InFile
  <2>4. CASE c[f] = R!Absent
    BY <2>4, AbsentFile DEF Older, InFile
  <2>5. QED
    BY <1>5, <2>2, <2>3, <2>4
<1>6. c \in [R!Files -> LogFiles]
  BY <1>1
<1>7. QED
  BY <1>2, <1>3, <1>4, <1>5, <1>6 DEF Disk

\* Opening creates an empty active file when there is none.
LEMMA OpenedFile ==
  ASSUME now \in Nat, NEW d, Disk(d)
  PROVE  /\ Disk(R!Opened(d)) /\ R!Opened(d)[0].exists
         /\ \A f \in R!Files : InFile(R!Opened(d), f) = InFile(d, f)
         /\ \A f \in R!Files : f # 0 => R!Opened(d)[f] = d[f]
         /\ d[0].exists => R!Opened(d) = d
         /\ ~d[0].exists => R!Opened(d)[0].events = <<>> /\ R!Opened(d)[0].mtime = now
<1>1. CASE d[0].exists
  BY <1>1 DEF R!Opened
<1>2. CASE ~d[0].exists
  <2> DEFINE new == [exists |-> TRUE, events |-> <<>>, mtime |-> now]
  <2>1. R!Opened(d) = [d EXCEPT ![0] = new]
    BY <1>2 DEF R!Opened
  <2>2. d \in [R!Files -> LogFiles]
    BY DEF Disk
  <2>3. new \in LogFiles /\ new.exists /\ new.events = <<>> /\ new.mtime = now
    BY DEF LogFiles
  <2> HIDE DEF new
  <2>4. /\ R!Opened(d) \in [R!Files -> LogFiles] /\ R!Opened(d)[0] = new
        /\ \A f \in R!Files : f # 0 => R!Opened(d)[f] = d[f]
    BY <2>1, <2>2, <2>3, FileNumbers
  <2>5. R!ToSet(<<>>) = {}
    BY AbsentFile
  <2>6. InFile(R!Opened(d), 0) = {} /\ InFile(d, 0) = {}
    BY <1>2, <2>3, <2>4, <2>5, FileFacts, FileNumbers DEF InFile
  <2>7. \A f \in R!Files : InFile(R!Opened(d), f) = InFile(d, f)
    BY <2>4, <2>6 DEF InFile
  <2>8. \A f \in R!Files : /\ ~R!Opened(d)[f].exists => R!Opened(d)[f].events = <<>>
                           /\ R!Opened(d)[f].mtime <= now
    BY <2>3, <2>4 DEF Disk
  <2>9. ASSUME NEW f \in R!Files, NEW g \in R!Files, f < g
        PROVE  Older(R!Opened(d), g, f)
    <3>1. Older(d, g, f) /\ g # 0 /\ d[g].mtime <= now
      BY <2>9, FileNumbers DEF Disk
    <3>2. CASE f = 0
      BY <3>1, <3>2, <2>3, <2>4, <2>6 DEF Older
    <3>3. CASE f # 0
      BY <3>1, <3>3, <2>4, <2>7 DEF Older
    <3>4. QED
      BY <3>2, <3>3
  <2>10. Disk(R!Opened(d))
    BY <2>4, <2>6, <2>8, <2>9 DEF Disk
  <2>11. QED
    BY <1>2, <2>3, <2>4, <2>7, <2>10
<1>3. QED
  BY <1>1, <1>2

\* A cleanup removes backups that are too old, and with them no event that is
\* younger than one that stays.
LEMMA CleanedFiles ==
  ASSUME now \in Nat, NEW d, Disk(d), NEW K, NEW c \in R!Cleanups(d)
  PROVE  /\ Disk(c) /\ c[0] = d[0]
         /\ \A f \in R!Files : c[f] = d[f] \/ (f # 0 /\ c[f] = R!Absent /\ R!Aged(d[f]))
         /\ \A f \in R!Files : InFile(c, f) \subseteq InFile(d, f)
         /\ Complete(d, K) => Complete(c, K)
<1>1. PICK gone \in SUBSET {f \in R!Files \ {0} : R!Aged(d[f])} :
        c = [f \in R!Files |-> IF f \in gone THEN R!Absent ELSE d[f]]
  BY DEF R!Cleanups
<1>2. c = [f \in R!Files |-> c[f]]
  BY <1>1
<1>3. \A f \in R!Files : c[f] = d[f] \/ (f # 0 /\ c[f] = R!Absent /\ R!Aged(d[f]))
  BY <1>1
<1>4. Disk(c) /\ \A f \in R!Files : InFile(c, f) \subseteq InFile(d, f)
  BY <1>2, <1>3, FewerFiles
<1>5. c[0] = d[0]
  BY <1>3, FileNumbers
<1>6. ASSUME Complete(d, K), NEW f \in R!Files, f = 0 \/ ~R!Aged(c[f]), NEW e \in InFile(c, f),
             NEW later \in K, later.n > e.n
      PROVE  \E g \in R!Files : later \in InFile(c, g)
  <2>1. c[f] = d[f] /\ e \in InFile(d, f)
    BY <1>3, <1>6, AbsentFile DEF InFile
  <2>2. PICK g \in R!Files : later \in InFile(d, g)
    BY <1>6, <2>1 DEF Complete, NothingAfter
  <2>3. CASE c[g] = d[g]
    BY <2>2, <2>3 DEF InFile
  <2>4. CASE g # 0 /\ R!Aged(d[g]) /\ g <= f
    <3>1. g # f
      BY <1>6, <2>1, <2>4
    <3>2. g < f /\ f # 0 /\ Older(d, f, g) /\ d[f].exists
      BY <1>6, <2>1, <2>4, <3>1, FileFacts, FileNumbers DEF Disk
    <3>3. d[f].mtime <= d[g].mtime /\ d[g].exists
      BY <2>4, <3>2 DEF Older, R!Aged
    <3>4. R!Aged(d[f])
      BY <2>4, <3>2, <3>3, FileFacts, LogAssumption DEF R!Aged
    <3>5. QED
      BY <1>6, <2>1, <3>2, <3>4
  <2>5. CASE f < g
    <3>1. later.n < e.n
      BY <2>1, <2>2, <2>5 DEF Disk, Older
    <3>2. later.n \in Nat /\ e.n \in Nat
      BY <2>1, <2>2, FileFacts
    <3>3. QED
      BY <1>6, <3>1, <3>2
  <2>6. f \in Nat /\ g \in Nat
    BY FileNumbers
  <2>7. QED
    BY <1>3, <2>3, <2>4, <2>5, <2>6
<1>7. Complete(d, K) => Complete(c, K)
  BY <1>6 DEF Complete, NothingAfter
<1>8. QED
  BY <1>3, <1>4, <1>5, <1>7

\* The active file after an event was written to it.
LEMMA WrittenFile ==
  ASSUME now \in Nat, NEW d, Disk(d), d[0].exists, NEW e \in LogEvents,
         disk' = [d EXCEPT ![0].events = Append(@, e), ![0].mtime = now]
  PROVE  /\ disk' \in [R!Files -> LogFiles]
         /\ disk'[0].exists /\ disk'[0].events = Append(d[0].events, e) /\ disk'[0].mtime = now
         /\ \A f \in R!Files : f # 0 => disk'[f] = d[f]
<1>1. d \in [R!Files -> LogFiles] /\ 0 \in R!Files
  BY FileNumbers DEF Disk
<1>2. Append(d[0].events, e) \in Seq(LogEvents)
  BY FileFacts, FileNumbers
<1>3. QED
  BY <1>1, <1>2 DEF LogFiles

\* The youngest event is appended to the active file.
LEMMA AppendedEvent ==
  ASSUME now \in Nat, NEW d, Disk(d), d[0].exists, NEW K, Complete(d, K),
         NEW m \in Nat, Below(d, m - 1), K \subseteq LogEvents, \A x \in K : x.n <= m - 1,
         NEW e \in LogEvents, e.n = m, e.day <= now,
         \A g \in R!Files : g # 0 /\ d[g].exists => d[g].mtime <= e.day,
         NEW w \in [R!Files -> LogFiles],
         w[0].exists, w[0].events = Append(d[0].events, e), w[0].mtime = now,
         \A f \in R!Files : f # 0 => w[f] = d[f]
  PROVE  Disk(w) /\ Complete(w, K \cup {e}) /\ Below(w, m)
<1>1. d[0] \in LogFiles /\ 0 \in R!Files /\ d \in [R!Files -> LogFiles]
  BY FileNumbers DEF Disk
<1>2. /\ w \in [R!Files -> LogFiles] /\ w[0].exists /\ w[0].mtime = now
      /\ w[0].events = Append(d[0].events, e)
  OBVIOUS
<1>3. \A f \in R!Files : f # 0 => w[f] = d[f]
  OBVIOUS
<1>4. InFile(w, 0) = InFile(d, 0) \cup {e}
  <2>1. d[0].events \in Seq(LogEvents)
    BY <1>1, FileFacts
  <2>2. QED
    BY <1>2, <2>1, EventsIn DEF InFile
<1>5. \A f \in R!Files : f # 0 => InFile(w, f) = InFile(d, f)
  BY <1>3 DEF InFile
<1>6. \A f \in R!Files : \A a \in InFile(d, f) : a.n \in Nat /\ a.day \in Nat /\ a.n <= m - 1
  BY FileFacts DEF Below
<1>7. \A a \in InFile(w, 0) : a.day <= w[0].mtime
  <2>1. \A a \in InFile(d, 0) : a.day <= d[0].mtime /\ d[0].mtime <= now /\ d[0].mtime \in Nat
    BY <1>1, FileFacts DEF Disk
  <2>2. QED
    BY <1>1, <1>2, <1>4, <1>6, <2>1
<1>8. ASSUME NEW f \in R!Files, NEW g \in R!Files, f < g PROVE Older(w, g, f)
  <2>1. Older(d, g, f) /\ g # 0 /\ g \in Nat /\ f \in Nat /\ w[g] = d[g]
    BY <1>3, <1>8, FileNumbers DEF Disk
  <2>2. CASE f = 0
    <3>1. \A a \in InFile(w, f), b \in InFile(w, g) : b.n < a.n
      <4>1. InFile(w, g) = InFile(d, g)
        BY <1>5, <2>1
      <4>2. \A b \in InFile(d, g) : b.n < e.n
        BY <1>6
      <4>3. \A a \in InFile(d, 0), b \in InFile(d, g) : b.n < a.n
        BY <2>1, <2>2 DEF Older
      <4>4. QED
        BY <1>4, <2>2, <4>1, <4>2, <4>3
    <3>2. d[g].exists => d[g].mtime <= now /\ d[g].mtime <= e.day
      BY <2>1, FileFacts
    <3>3. QED
      BY <1>2, <1>4, <2>1, <2>2, <3>1, <3>2 DEF Older
  <2>3. CASE f # 0
    BY <1>3, <1>5, <2>1, <2>3 DEF Older
  <2>4. QED
    BY <2>2, <2>3
<1>9. Disk(w)
  <2>1. \A f \in R!Files : /\ ~w[f].exists => w[f].events = <<>>
                           /\ w[f].mtime <= now
    BY <1>2, <1>3, <1>1 DEF Disk
  <2>2. QED
    BY <1>2, <1>7, <1>8, <2>1 DEF Disk
<1>10. ASSUME NEW f \in R!Files, f = 0 \/ ~R!Aged(w[f]), NEW x \in InFile(w, f),
              NEW later \in K \cup {e}, later.n > x.n
       PROVE  \E g \in R!Files : later \in InFile(w, g)
  <2>1. CASE later = e
    BY <1>1, <1>4, <2>1
  <2>2. CASE later # e /\ x \in InFile(d, f)
    <3>1. f = 0 \/ ~R!Aged(d[f])
      BY <1>3, <1>10
    <3>2. PICK g \in R!Files : later \in InFile(d, g)
      BY <1>10, <2>2, <3>1 DEF Complete, NothingAfter
    <3>3. QED
      BY <1>4, <1>5, <3>2
  <2>3. CASE later # e /\ x = e
    <3>1. later \in K /\ later.n > m /\ later.n <= m - 1
      BY <1>10, <2>3
    <3>2. later.n \in Nat
      BY <3>1 DEF LogEvents
    <3>3. QED
      BY <3>1, <3>2
  <2>4. QED
    BY <1>4, <1>5, <1>10, <2>1, <2>2, <2>3
<1>11. Complete(w, K \cup {e})
  BY <1>10 DEF Complete, NothingAfter
<1>12. Below(w, m)
  <2>1. \A f \in R!Files : \A a \in InFile(w, f) : a = e \/ a \in InFile(d, f)
    BY <1>4, <1>5
  <2>2. \A f \in R!Files : \A a \in InFile(w, f) : a.n <= m
    BY <1>6, <2>1
  <2>3. QED
    BY <2>2 DEF Below
<1>13. QED
  BY <1>2, <1>3, <1>9, <1>11, <1>12

\* One move of a rotation: file k goes to a number that is free, or is removed
\* when it is the last.
Moved(d, k) ==
  [f \in R!Files |->
     IF k > 0 /\ d[k].exists /\ f = k THEN R!Absent
     ELSE IF k = 0 /\ d[0].exists /\ f = 0 THEN R!Absent
     ELSE IF f = k + 1 /\ d[k].exists THEN d[k] ELSE d[f]]

LEMMA MovedPlaces ==
  ASSUME NEW d, Disk(d), NEW k \in R!Files
  PROVE  /\ ~d[k].exists => Moved(d, k) = d
         /\ d[k].exists =>
              /\ Moved(d, k)[k] = R!Absent
              /\ k + 1 \in R!Files => Moved(d, k)[k + 1] = d[k]
              /\ \A f \in R!Files : f # k /\ f # k + 1 => Moved(d, k)[f] = d[f]
         /\ Moved(d, k) \in [R!Files -> LogFiles]
<1>1. d \in [R!Files -> LogFiles] /\ k \in Nat
  BY FileNumbers DEF Disk
<1>2. ~d[k].exists => Moved(d, k) = d
  BY <1>1 DEF Moved
<1>3. d[k].exists =>
        /\ Moved(d, k)[k] = R!Absent
        /\ k + 1 \in R!Files => Moved(d, k)[k + 1] = d[k]
        /\ \A f \in R!Files : f # k /\ f # k + 1 => Moved(d, k)[f] = d[f]
  BY <1>1, FileNumbers DEF Moved
<1>4. Moved(d, k) \in [R!Files -> LogFiles]
  BY <1>1, AbsentFile DEF Moved
<1>5. QED
  BY <1>2, <1>3, <1>4

LEMMA MovedFile ==
  ASSUME now \in Nat, NEW d, Disk(d), NEW K, Complete(d, K),
         NEW k \in R!Files, k < MaxBackups => ~d[k + 1].exists,
         NEW m, Below(d, m), NEW w, w = Moved(d, k)
  PROVE  /\ Disk(w) /\ Complete(w, K) /\ Below(w, m)
         /\ \A f \in R!Files : w[f].exists =>
              \E g \in R!Files : w[f] = d[g] /\ d[g].exists /\ (f = g \/ (g = k /\ f = k + 1))
         /\ ~w[k].exists
<1>1. CASE ~d[k].exists
  BY <1>1, MovedPlaces
<1>2. CASE d[k].exists
  <2>1. /\ w[k] = R!Absent
        /\ k + 1 \in R!Files => w[k + 1] = d[k] /\ InFile(w, k + 1) = InFile(d, k)
        /\ \A f \in R!Files : f # k /\ f # k + 1 => w[f] = d[f] /\ InFile(w, f) = InFile(d, f)
        /\ w \in [R!Files -> LogFiles]
        /\ InFile(w, k) = {}
    BY <1>2, MovedPlaces, AbsentFile DEF InFile
  <2>2. k \in Nat /\ MaxBackups \in Nat /\ (k + 1 \in R!Files <=> k < MaxBackups)
    BY FileNumbers, LogAssumption
  <2>3. \A f \in R!Files : (~w[f].exists => w[f].events = <<>>) /\ w[f].mtime <= now
    BY <2>1, AbsentFile DEF Disk
  <2>4. \A a \in InFile(w, 0) : a.day <= w[0].mtime
    BY <2>1, <2>2, FileNumbers DEF Disk
  <2>5. ASSUME NEW f \in R!Files, NEW g \in R!Files, f < g PROVE Older(w, g, f)
    <3>1. f \in Nat /\ g \in Nat /\ Older(d, g, f)
      BY <2>5, FileNumbers DEF Disk
    <3>2. CASE f = k
      BY <2>1, <3>2, AbsentFile DEF Older
    <3>3. CASE g = k
      BY <2>1, <3>3, AbsentFile DEF Older
    <3>4. CASE f = k + 1
      <4>1. Older(d, g, k) /\ g # k /\ g # k + 1
        BY <2>5, <2>2, <3>1, <3>4 DEF Disk
      <4>2. QED
        BY <2>1, <3>4, <4>1 DEF Older
    <3>5. CASE g = k + 1 /\ f # k
      <4>1. Older(d, k, f) /\ f # k + 1
        BY <2>5, <2>2, <3>1, <3>5 DEF Disk
      <4>2. QED
        BY <2>1, <3>5, <4>1 DEF Older
    <3>6. CASE f \notin {k, k + 1} /\ g \notin {k, k + 1}
      BY <2>1, <3>1, <3>6 DEF Older
    <3>7. QED
      BY <3>2, <3>3, <3>4, <3>5, <3>6
  <2>6. Disk(w)
    BY <2>1, <2>3, <2>4, <2>5 DEF Disk
  <2>7. ASSUME NEW f \in R!Files, f = 0 \/ ~R!Aged(w[f]), NEW e \in InFile(w, f),
               NEW later \in K, later.n > e.n
        PROVE  \E g \in R!Files : later \in InFile(w, g)
    <3>1. PICK j \in R!Files : /\ w[f] = d[j] /\ e \in InFile(d, j) /\ (f = 0 => j = 0)
                               /\ j < k \/ k < MaxBackups \/ k < j
      BY <2>1, <2>2, <2>7, FileNumbers
    <3>2. PICK g \in R!Files : later \in InFile(d, g)
      BY <2>7, <3>1 DEF Complete, NothingAfter
    <3>3. CASE g # k
      <4>1. g # k + 1
        BY <2>2, <3>2, FileFacts, FileNumbers
      <4>2. QED
        BY <2>1, <3>2, <3>3, <4>1
    <3>4. CASE g = k /\ k < MaxBackups
      BY <2>1, <2>2, <3>2, <3>4
    <3>5. CASE g = k /\ ~(k < MaxBackups)
      <4>1. j < k
        BY <2>2, <3>1, <3>5, FileNumbers
      <4>2. later.n < e.n
        BY <3>1, <3>2, <3>5, <4>1 DEF Disk, Older
      <4>3. later.n \in Nat /\ e.n \in Nat
        BY <3>1, <3>2, FileFacts
      <4>4. QED
        BY <2>7, <4>2, <4>3
    <3>6. QED
      BY <3>3, <3>4, <3>5
  <2>8. Complete(w, K)
    BY <2>7 DEF Complete, NothingAfter
  <2>9. Below(w, m)
    BY <2>1 DEF Below
  <2>10. \A f \in R!Files : w[f].exists =>
           \E g \in R!Files : w[f] = d[g] /\ d[g].exists /\ (f = g \/ (g = k /\ f = k + 1))
    BY <2>1, AbsentFile
  <2>11. QED
    BY <2>1, <2>6, <2>8, <2>9, <2>10, AbsentFile
<1>3. QED
  BY <1>1, <1>2

\* On the same day the disk is judged as before.
LEMMA SameDay ==
  ASSUME now' = now
  PROVE  /\ Contents(disk', kept', events') => Contents(disk, kept, events)'
         /\ Contents(disk', kept', events' - 1) => Contents(disk, kept, events - 1)'
<1>1. /\ Disk(disk') => Disk(disk)'
      /\ Complete(disk', kept') => Complete(disk, kept)'
  BY DEF Disk, Complete, Older, NothingAfter, InFile, R!Aged
<1>2. /\ Below(disk', events') => Below(disk, events)'
      /\ Below(disk', events' - 1) => Below(disk, events - 1)'
  BY DEF Below, InFile
<1>3. QED
  BY <1>1, <1>2 DEF Contents

\* Fewer events are required than there are.
LEMMA WiderBound ==
  ASSUME now \in Nat, NEW d, NEW K, NEW m \in Nat, NEW n \in Nat, m <= n + 1,
         Contents(d, K, m - 1)
  PROVE  Contents(d, K, n)
<1>1. \A x \in Nat : x <= m - 1 => x <= n
  OBVIOUS
<1>2. Below(d, n)
  BY <1>1, FileFacts DEF Contents, Below
<1>3. \A e \in K : e.n <= n
  BY <1>1 DEF Contents, LogEvents
<1>4. QED
  BY <1>2, <1>3 DEF Contents

\* An operation is over.
LEMMA LogEnds ==
  ASSUME LogInv, now' = now, Contents(disk', kept', events'), events' \in Nat, R!Free,
         oldest' \in Nat, oldest' <= now, logging' \in BOOLEAN, attached' \in BOOLEAN,
         attached' => disk'[0].exists, logging' => AgeFits(disk', 0, oldest')
  PROVE  LogInv'
<1>1. rotation' = "free" /\ backupNo' = 0 /\ pending' = R!Nobody /\ starting' = FALSE
  BY DEF R!Free
<1>2. Contents(disk, kept, events)'
  BY SameDay
<1>3. LogTyped'
  BY <1>1, FileNumbers DEF LogInv, LogTyped, R!Nobody, LogEvents
<1>4. Pending' /\ Rotation'
  BY <1>1 DEF Pending, Rotation
<1>5. (logging => AgeFits(disk, IF rotation = "stamp" THEN 1 ELSE 0, oldest))'
  BY <1>1 DEF AgeFits
<1>6. QED
  BY <1>2, <1>3, <1>4, <1>5 DEF LogInv

\* A rotation begins, with an event that waits or without.
LEMMA LogRotates ==
  ASSUME LogInv, now' = now, Contents(disk', kept', events'), events' \in Nat,
         NEW e \in LogEvents, NEW start \in BOOLEAN, R!Rotate(e, start),
         oldest' \in Nat, oldest' <= now, logging' = TRUE, attached' = FALSE,
         AgeFits(disk', 0, oldest'),
         e # R!Nobody => /\ e.n = events' /\ e.day = now
                         /\ Contents(disk', kept', events' - 1)
  PROVE  LogInv'
<1>1. /\ rotation' = "move" /\ backupNo' = MaxBackups /\ pending' = e
      /\ starting' = start
  BY DEF R!Rotate
<1>2. Contents(disk, kept, events)'
  BY SameDay
<1>3. LogTyped'
  BY <1>1, FileNumbers DEF LogInv, LogTyped
<1>4. Pending'
  <2>1. CASE e = R!Nobody
    BY <1>1, <2>1 DEF Pending, R!Nobody
  <2>2. CASE e # R!Nobody
    <3>1. Contents(disk, kept, events - 1)'
      BY <2>2, SameDay
    <3>2. (\A f \in R!Files : disk[f].mtime <= now)'
      BY <1>2 DEF Contents, Disk
    <3>3. now \in Nat /\ pending'.n = events' /\ pending'.day = now
      BY <1>1, <2>2 DEF LogInv, LogTyped
    <3>4. QED
      BY <3>1, <3>2, <3>3 DEF Pending
  <2>3. QED
    BY <2>1, <2>2
<1>5. Rotation'
  BY <1>1, FileNumbers DEF Rotation
<1>6. (logging => AgeFits(disk, IF rotation = "stamp" THEN 1 ELSE 0, oldest))'
  BY <1>1 DEF AgeFits
<1>7. QED
  BY <1>1, <1>2, <1>3, <1>4, <1>5, <1>6 DEF LogInv

\* After open and cleanup the log is complete, and the age that open takes from
\* the active file fits.
LEMMA ContentsKept ==
  ASSUME now \in Nat, NEW K, NEW m, Contents(disk, K, m),
         NEW c \in R!Cleanups(R!Opened(disk))
  PROVE  Contents(c, K, m)
<1> DEFINE o == R!Opened(disk)
<1>1. /\ Disk(o) /\ \A f \in R!Files : InFile(o, f) = InFile(disk, f)
      /\ \A f \in R!Files : f # 0 => o[f] = disk[f]
  BY OpenedFile DEF Contents
<1>2. Complete(o, K)
  BY <1>1 DEF Contents, Complete, NothingAfter
<1> HIDE DEF o
<1>3. c \in R!Cleanups(o)
  BY DEF o
<1>4. Disk(c) /\ Complete(c, K) /\ \A f \in R!Files : InFile(c, f) \subseteq InFile(o, f)
  BY <1>1, <1>2, <1>3, CleanedFiles
<1>5. Below(c, m)
  BY <1>1, <1>4 DEF Contents, Below
<1>6. QED
  BY <1>4, <1>5 DEF Contents

LEMMA OpenedClean ==
  ASSUME LogInv, NEW c \in R!Cleanups(R!Opened(disk)), NEW age, age = R!AgeOf(R!Opened(disk))
  PROVE  /\ Contents(c, kept, events)
         /\ c[0].exists /\ c[0] = R!Opened(disk)[0]
         /\ \A f \in R!Files : f # 0 /\ c[f].exists => disk[f].exists /\ c[f] = disk[f]
         /\ ~disk[0].exists => c[0].events = <<>> /\ age = now
         /\ disk[0].exists => R!Opened(disk) = disk /\ c[0] = disk[0]
         /\ age \in Nat /\ age <= now /\ AgeFits(c, 0, age)
<1> DEFINE o == R!Opened(disk)
<1>1. now \in Nat /\ Disk(disk) /\ Contents(disk, kept, events)
  BY DEF LogInv, LogTyped, Contents
<1>2. /\ Disk(o) /\ o[0].exists /\ \A f \in R!Files : f # 0 => o[f] = disk[f]
      /\ disk[0].exists => o = disk
      /\ ~disk[0].exists => o[0].events = <<>>
  BY <1>1, OpenedFile
<1>3. Contents(c, kept, events)
  BY <1>1, ContentsKept
<1>4. c \in R!Cleanups(o) /\ age = R!AgeOf(o)
  OBVIOUS
<1> HIDE DEF o
<1>5. c[0] = o[0] /\ \A f \in R!Files : c[f] = o[f] \/ c[f] = R!Absent
  BY <1>1, <1>2, <1>4, CleanedFiles
<1>6. \A f \in R!Files : f # 0 /\ c[f].exists => disk[f].exists /\ c[f] = disk[f]
  BY <1>2, <1>5, AbsentFile
<1>7. /\ o[0].events = <<>> => age = now
      /\ o[0].events # <<>> =>
            \E a \in InFile(o, 0) : age = a.day /\ a.day \in Nat /\ a.day <= o[0].mtime
  <2>1. o[0].events = <<>> => age = now
    BY <1>4 DEF R!AgeOf
  <2>2. ASSUME o[0].events # <<>>
        PROVE  \E a \in InFile(o, 0) : age = a.day /\ a.day \in Nat /\ a.day <= o[0].mtime
    <3>1. o[0].events \in Seq(LogEvents) /\ InFile(o, 0) \subseteq LogEvents
      BY <1>2, FileFacts, FileNumbers
    <3>2. o[0].events[1] \in InFile(o, 0)
      BY <2>2, <3>1, EventsIn DEF InFile
    <3>3. age = o[0].events[1].day
      BY <1>4, <2>2 DEF R!AgeOf
    <3>4. QED
      BY <1>2, <3>1, <3>2, <3>3 DEF Disk, LogEvents
  <2>3. QED
    BY <2>1, <2>2
<1>8. o[0].mtime \in Nat /\ o[0].mtime <= now /\ \A g \in R!Files : o[g].mtime <= now
  BY <1>2, FileFacts, FileNumbers
<1>9. age \in Nat /\ age <= now
  BY <1>1, <1>7, <1>8
<1>10. AgeFits(c, 0, age)
  <2>1. ASSUME NEW g \in R!Files, g > 0, c[g].exists PROVE c[g].mtime <= age
    <3>1. c[g] = o[g] /\ g # 0
      BY <1>5, <2>1, AbsentFile, FileNumbers
    <3>2. CASE o[0].events = <<>>
      BY <1>7, <1>8, <3>1, <3>2
    <3>3. CASE o[0].events # <<>>
      <4>1. Older(o, g, 0)
        BY <1>2, <2>1, FileNumbers DEF Disk
      <4>2. QED
        BY <1>7, <2>1, <3>1, <3>3, <4>1 DEF Older
    <3>4. QED
      BY <3>2, <3>3
  <2>2. c[0].events # <<>> => age <= c[0].mtime
    BY <1>5, <1>7
  <2>3. QED
    BY <2>1, <2>2 DEF AgeFits
<1>11. QED
  BY <1>2, <1>3, <1>5, <1>6, <1>7, <1>9, <1>10 DEF o

\* Record drops the event, writes it, or begins a rotation for it.
LEMMA LogRecords == ASSUME LogInv, R!Record PROVE LogInv'
<1> DEFINE fresh == R!AgeOf(R!Opened(disk))
           age == IF attached THEN oldest ELSE fresh
           e == [n |-> events + 1, day |-> now]
           Full(d) == Len(d[0].events) >= MaxSize \/ (d[0].events # <<>> /\ R!Expired(age))
<1>1. /\ rotation = "free" /\ logging = TRUE /\ events' = events + 1
      /\ now' = now /\ logging' = logging
      /\ now \in Nat /\ oldest \in Nat /\ events \in Nat /\ oldest <= now
  BY DEF R!Record, R!Idle, LogInv, LogTyped
<1>2. \/ /\ disk' \in R!Cleanups(R!Opened(disk)) /\ oldest' = age /\ attached' = TRUE
         /\ R!Free /\ UNCHANGED kept
      \/ \E d \in R!Cleanups(R!Opened(disk)) :
            /\ oldest' = age
            /\ \/ /\ disk' = d /\ attached' = FALSE /\ R!Rotate(e, FALSE) /\ UNCHANGED kept
               \/ R!Write(d, e) /\ attached' = TRUE /\ R!Free
  BY DEF R!Record
<1>3. ASSUME NEW d \in R!Cleanups(R!Opened(disk))
      PROVE  /\ Contents(d, kept, events) /\ d[0].exists /\ AgeFits(d, 0, age)
             /\ age \in Nat /\ age <= now
  <2>1. /\ Contents(d, kept, events) /\ d[0].exists
        /\ fresh \in Nat /\ fresh <= now /\ AgeFits(d, 0, fresh)
        /\ disk[0].exists => d[0] = disk[0]
        /\ \A f \in R!Files : f # 0 /\ d[f].exists => disk[f].exists /\ d[f] = disk[f]
    BY OpenedClean
  <2> HIDE DEF fresh
  <2>2. CASE attached
    <3>1. disk[0].exists /\ AgeFits(disk, 0, oldest)
      BY <1>1, <2>2 DEF LogInv
    <3>2. AgeFits(d, 0, oldest)
      BY <2>1, <3>1 DEF AgeFits
    <3>3. QED
      BY <1>1, <2>1, <2>2, <3>2
  <2>3. CASE ~attached
    BY <2>1, <2>3
  <2>4. QED
    BY <2>2, <2>3
<1> HIDE DEF fresh, age
<1>4. /\ e \in LogEvents /\ e # R!Nobody /\ e.n = events + 1 /\ e.day = now
  BY <1>1 DEF LogEvents, R!Nobody
<1> HIDE DEF e
<1>5. CASE /\ disk' \in R!Cleanups(R!Opened(disk)) /\ oldest' = age /\ attached' = TRUE
           /\ R!Free /\ UNCHANGED kept
  <2>1. Contents(disk', kept', events) /\ disk'[0].exists /\ AgeFits(disk', 0, age)
    BY <1>3, <1>5
  <2>2. Contents(disk', kept', events')
    BY <1>1, <2>1, WiderBound DEF Contents
  <2>3. QED
    BY <1>1, <1>3, <1>5, <2>1, <2>2, LogEnds
<1>6. ASSUME NEW d \in R!Cleanups(R!Opened(disk)), oldest' = age, disk' = d,
             attached' = FALSE, R!Rotate(e, FALSE), UNCHANGED kept
      PROVE  LogInv'
  <2>1. Contents(disk', kept', events' - 1)
    BY <1>1, <1>3, <1>6
  <2>2. Contents(disk', kept', events')
    BY <1>1, <2>1, WiderBound
  <2>3. /\ now' = now /\ events' \in Nat /\ logging' = TRUE /\ attached' = FALSE
        /\ oldest' \in Nat /\ oldest' <= now /\ AgeFits(disk', 0, oldest')
        /\ e \in LogEvents /\ e.n = events' /\ e.day = now /\ FALSE \in BOOLEAN
    BY <1>1, <1>3, <1>4, <1>6
  <2>4. QED
    BY <1>6, <2>1, <2>2, <2>3, LogRotates
<1>7. ASSUME NEW d \in R!Cleanups(R!Opened(disk)), oldest' = age, R!Write(d, e),
             attached' = TRUE, R!Free
      PROVE  LogInv'
  <2> DEFINE m == events + 1
  <2>1. /\ Disk(d) /\ Complete(d, kept) /\ Below(d, m - 1)
        /\ kept \subseteq LogEvents /\ \A x \in kept : x.n <= m - 1
        /\ d[0].exists /\ AgeFits(d, 0, age) /\ m \in Nat /\ e.n = m /\ e.day <= now
    <3>1. (events + 1) - 1 = events
      BY <1>1
    <3>2. QED
      BY <1>1, <1>3, <1>4, <3>1 DEF Contents
  <2>2. /\ disk' = [d EXCEPT ![0].events = Append(@, e), ![0].mtime = now]
        /\ kept' = kept \cup {e}
    BY <1>4, <1>7 DEF R!Write
  <2>3. \A g \in R!Files : g # 0 /\ d[g].exists => d[g].mtime <= e.day
    BY <1>4, <2>1, FileFacts
  <2>4. /\ Disk(disk') /\ Complete(disk', kept') /\ Below(disk', events + 1)
        /\ disk'[0].exists /\ disk'[0].mtime = now
        /\ \A f \in R!Files : f # 0 => disk'[f] = d[f]
    <3> HIDE DEF m
    <3>1. /\ Disk(disk') /\ Complete(disk', kept \cup {e}) /\ Below(disk', m)
          /\ disk'[0].exists /\ disk'[0].mtime = now
          /\ \A f \in R!Files : f # 0 => disk'[f] = d[f]
      <4>1. /\ disk' \in [R!Files -> LogFiles] /\ disk'[0].exists /\ disk'[0].mtime = now
            /\ disk'[0].events = Append(d[0].events, e)
            /\ \A f \in R!Files : f # 0 => disk'[f] = d[f]
        BY <1>1, <1>4, <2>1, <2>2, WrittenFile
      <4>2. QED
        BY <1>1, <1>4, <2>1, <2>3, <4>1, AppendedEvent
    <3>2. QED
      BY <2>2, <3>1 DEF m
  <2>5. \A x \in kept' : x.n <= events + 1
    <3>1. \A x \in kept : x.n \in Nat /\ x.n <= events
      BY <1>1, <2>1 DEF LogEvents
    <3>2. QED
      BY <1>1, <1>4, <2>2, <3>1
  <2>6. Contents(disk', kept', events')
    BY <1>1, <1>4, <2>1, <2>2, <2>4, <2>5 DEF Contents
  <2>7. AgeFits(disk', 0, age)
    BY <1>3, <2>1, <2>4, FileNumbers DEF AgeFits
  <2>8. QED
    BY <1>1, <1>3, <1>7, <2>4, <2>6, <2>7, LogEnds
<1>8. QED
  BY <1>2, <1>5, <1>6, <1>7

\* maintain: a cleanup of the disk as it is.
LEMMA LogMaintains == ASSUME LogInv, R!Maintain PROVE LogInv'
<1>1. /\ rotation = "free" /\ logging = TRUE /\ UNCHANGED <<now, logging, oldest, kept, events>>
      /\ disk' \in R!Cleanups(disk)
      /\ \/ R!Rotate(R!Nobody, FALSE) /\ attached' = FALSE
         \/ R!Free /\ UNCHANGED attached
      /\ now \in Nat /\ oldest \in Nat /\ events \in Nat /\ oldest <= now
      /\ attached \in BOOLEAN
      /\ attached => disk[0].exists
      /\ Contents(disk, kept, events) /\ AgeFits(disk, 0, oldest)
  BY DEF R!Maintain, R!Idle, LogInv, LogTyped
<1>2. /\ Disk(disk') /\ disk'[0] = disk[0] /\ Complete(disk', kept)
      /\ \A f \in R!Files : disk'[f] = disk[f] \/ disk'[f] = R!Absent
      /\ \A f \in R!Files : InFile(disk', f) \subseteq InFile(disk, f)
  BY <1>1, CleanedFiles DEF Contents
<1>3. Contents(disk', kept', events')
  BY <1>1, <1>2 DEF Contents, Below
<1>4. AgeFits(disk', 0, oldest')
  BY <1>1, <1>2, AbsentFile DEF AgeFits
<1>5. CASE R!Rotate(R!Nobody, FALSE) /\ attached' = FALSE
  <2>1. R!Nobody \in LogEvents
    BY DEF R!Nobody, LogEvents
  <2>2. QED
    BY <1>1, <1>3, <1>4, <1>5, <2>1, LogRotates
<1>6. CASE R!Free /\ UNCHANGED attached
  <2>1. /\ events' \in Nat /\ oldest' \in Nat /\ oldest' <= now /\ logging' \in BOOLEAN
        /\ attached' \in BOOLEAN /\ (attached' => disk'[0].exists) /\ now' = now
    BY <1>1, <1>2, <1>6
  <2>2. QED
    BY <1>3, <1>4, <1>6, <2>1, LogEnds
<1>7. QED
  BY <1>1, <1>5, <1>6

\* A rotation that fails, the end of the program, and the next day leave the
\* disk alone.
LEMMA LogInterrupted == ASSUME LogInv, R!RotationFails \/ R!Stops PROVE LogInv'
<1>1. /\ UNCHANGED <<now, disk, oldest, kept, events>> /\ R!Free
      /\ attached' = FALSE /\ logging' \in BOOLEAN
      /\ logging' => rotation # "free"
  BY DEF R!RotationFails, R!Stops, LogInv, LogTyped, Rotation
<1>2. Contents(disk', kept', events') /\ events' \in Nat /\ oldest' \in Nat /\ oldest' <= now
  BY <1>1 DEF LogInv, LogTyped
<1>3. logging' => AgeFits(disk', 0, oldest')
  BY <1>1 DEF LogInv, LogTyped, Rotation, AgeFits
<1>4. QED
  BY <1>1, <1>2, <1>3, LogEnds

LEMMA LogDay == ASSUME LogInv, R!Day PROVE LogInv'
<1>1. /\ now' = now + 1 /\ now \in Nat
      /\ UNCHANGED <<disk, logging, attached, oldest, rotation, backupNo, pending, starting,
                     kept, events>>
  BY DEF R!Day, LogInv, LogTyped
<1>2. Disk(disk) => Disk(disk)'
  <2>1. ASSUME Disk(disk) PROVE \A f \in R!Files : disk[f].mtime <= now + 1
    BY <1>1, <2>1, FileFacts
  <2>2. QED
    BY <1>1, <2>1 DEF Disk, Older, InFile
<1>3. Disk(disk) /\ Complete(disk, kept) => Complete(disk, kept)'
  <2>1. ASSUME Disk(disk) PROVE \A f \in R!Files : R!Aged(disk[f]) => R!Aged(disk[f])'
    BY <1>1, <2>1, FileFacts, LogAssumption DEF R!Aged
  <2>2. QED
    BY <1>1, <2>1 DEF Complete, NothingAfter, InFile
<1>5. Contents(disk, kept, events)' /\ (pending # R!Nobody => Contents(disk, kept, events - 1)')
  BY <1>1, <1>2, <1>3 DEF LogInv, Pending, Contents, Below, InFile
<1>6. Pending'
  BY <1>1, <1>5 DEF LogInv, LogTyped, LogEvents, Pending
<1>7. LogTyped' /\ Rotation'
  BY <1>1 DEF LogInv, LogTyped, Rotation
<1>8. (logging => AgeFits(disk, IF rotation = "stamp" THEN 1 ELSE 0, oldest))'
  BY <1>1 DEF LogInv, AgeFits
<1>9. QED
  BY <1>1, <1>5, <1>6, <1>7, <1>8 DEF LogInv

\* One file is moved up, or the last one is removed.
LEMMA LogMoves == ASSUME LogInv, R!Move PROVE LogInv'
<1>1. /\ rotation = "move" /\ disk' = Moved(disk, backupNo) /\ backupNo \in R!Files
      /\ IF backupNo > 0 THEN backupNo' = backupNo - 1 /\ rotation' = rotation
         ELSE backupNo' = 0 /\ rotation' = IF disk[0].exists THEN "stamp" ELSE "reopen"
      /\ UNCHANGED <<now, logging, attached, oldest, pending, starting, kept, events>>
      /\ now \in Nat /\ logging /\ ~attached
      /\ backupNo < MaxBackups => ~disk[backupNo + 1].exists
  BY DEF R!Move, Moved, LogInv, LogTyped, Rotation
<1>2. ASSUME NEW m, Contents(disk, kept, m) PROVE Contents(disk', kept, m)
  BY <1>1, <1>2, MovedFile DEF Contents
<1>3. /\ \A f \in R!Files : disk'[f].exists =>
           \E g \in R!Files : /\ disk'[f] = disk[g] /\ disk[g].exists
                              /\ f = g \/ (g = backupNo /\ f = backupNo + 1)
      /\ ~disk'[backupNo].exists
  <2>1. Disk(disk) /\ Complete(disk, kept) /\ Below(disk, events)
    BY DEF LogInv, Contents
  <2>2. QED
    BY <1>1, <2>1, MovedFile
<1>4. /\ Contents(disk, kept, events)'
      /\ pending # R!Nobody => Contents(disk, kept, events - 1)'
  <2>1. Contents(disk', kept, events) /\ (pending # R!Nobody => Contents(disk', kept, events - 1))
    BY <1>2 DEF LogInv, Pending
  <2>2. QED
    BY <1>1, <2>1, SameDay
<1>5. Pending'
  BY <1>1, <1>3, <1>4 DEF LogInv, Pending
<1>6. LogTyped'
  BY <1>1, FileNumbers DEF LogInv, LogTyped
<1>7. backupNo \in Nat /\ MaxBackups \in Nat
  BY <1>1, FileNumbers
<1>8. Rotation'
  BY <1>1, <1>3, <1>7 DEF LogInv, Rotation
<1>9. (logging => AgeFits(disk, IF rotation = "stamp" THEN 1 ELSE 0, oldest))'
  <2>1. AgeFits(disk, 0, oldest)
    BY <1>1 DEF LogInv
  <2>2. CASE backupNo > 0
    <3>1. AgeFits(disk', 0, oldest)
      BY <1>3, <1>7, <2>1, <2>2, FileNumbers DEF AgeFits
    <3>2. QED
      BY <1>1, <2>2, <3>1 DEF AgeFits
  <2>3. CASE backupNo = 0 /\ disk[0].exists
    <3>1. AgeFits(disk', 1, oldest)
      <4>1. disk'[1] = disk[0]
        BY <1>1, <2>3, FileNumbers DEF Moved
      <4>2. \A g \in R!Files : g > 1 /\ disk'[g].exists => disk[g].exists /\ disk'[g] = disk[g]
        BY <1>3, <2>3, FileNumbers
      <4>3. QED
        BY <2>1, <2>3, <4>1, <4>2, FileNumbers DEF AgeFits
    <3>2. QED
      BY <1>1, <2>3, <3>1 DEF AgeFits
  <2>4. CASE backupNo = 0 /\ ~disk[0].exists
    BY <1>1, <1>3, <2>4 DEF AgeFits
  <2>5. QED
    BY <1>7, <2>2, <2>3, <2>4
<1>10. QED
  BY <1>1, <1>4, <1>5, <1>6, <1>8, <1>9 DEF LogInv

\* The first backup gets the age of its oldest event.
LEMMA LogStamps == ASSUME LogInv, R!Stamp PROVE LogInv'
<1>1. /\ rotation = "stamp" /\ rotation' = "reopen"
      /\ disk' = [disk EXCEPT ![1].mtime = oldest]
      /\ UNCHANGED <<now, logging, attached, oldest, backupNo, pending, starting, kept, events>>
      /\ now \in Nat /\ oldest \in Nat /\ oldest <= now /\ logging /\ ~attached
      /\ ~disk[0].exists /\ AgeFits(disk, 1, oldest) /\ Disk(disk)
  BY DEF R!Stamp, LogInv, LogTyped, Rotation, Contents
<1>2. /\ disk' \in [R!Files -> LogFiles] /\ disk'[1].mtime = oldest
      /\ disk'[1].exists = disk[1].exists /\ disk'[1].events = disk[1].events
      /\ \A f \in R!Files : f # 1 => disk'[f] = disk[f]
  <2>1. disk \in [R!Files -> [exists : BOOLEAN, events : Seq(LogEvents), mtime : Nat]]
    BY <1>1 DEF Disk, LogFiles
  <2>2. 1 \in R!Files
    BY FileNumbers
  <2>3. QED
    BY <1>1, <2>1, <2>2 DEF LogFiles
<1>3. /\ \A f \in R!Files : InFile(disk', f) = InFile(disk, f)
      /\ InFile(disk, 0) = {} /\ ~disk'[0].exists
      /\ \A f \in R!Files : disk'[f].exists = disk[f].exists
  BY <1>1, <1>2, FileFacts, FileNumbers DEF InFile
<1>4. Disk(disk')
  <2>1. \A f \in R!Files : (~disk'[f].exists => disk'[f].events = <<>>) /\ disk'[f].mtime <= now
    BY <1>1, <1>2 DEF Disk
  <2>2. ASSUME NEW f \in R!Files, NEW g \in R!Files, f < g PROVE Older(disk', g, f)
    <3>1. Older(disk, g, f) /\ f \in Nat /\ g \in Nat
      BY <1>1, <2>2, FileNumbers DEF Disk
    <3>2. CASE f = 0
      BY <1>3, <3>2 DEF Older
    <3>3. CASE f = 1
      <4>1. g # 1 /\ disk'[g] = disk[g]
        BY <1>2, <2>2, <3>1, <3>3
      <4>2. disk[1].exists /\ disk[g].exists => disk[g].mtime <= oldest
        BY <1>1, <2>2, <3>3 DEF AgeFits
      <4>3. QED
        BY <1>2, <1>3, <3>1, <3>3, <4>1, <4>2 DEF Older
    <3>4. CASE f # 0 /\ f # 1
      <4>1. g # 1
        BY <2>2, <3>1, <3>4
      <4>2. QED
        BY <1>2, <1>3, <3>1, <3>4, <4>1 DEF Older
    <3>5. QED
      BY <3>2, <3>3, <3>4
  <2>3. QED
    BY <1>2, <1>3, <2>1, <2>2, FileNumbers DEF Disk
<1>5. Complete(disk', kept)
  <2>1. ASSUME NEW f \in R!Files, f = 0 \/ ~R!Aged(disk'[f]), NEW e \in InFile(disk', f)
        PROVE  f = 0 \/ ~R!Aged(disk[f])
    <3>1. CASE f = 1
      <4>1. disk[1].exists /\ disk[1].events # <<>>
        BY <1>1, <1>3, <2>1, <3>1, FileFacts
      <4>2. oldest <= disk[1].mtime /\ disk[1].mtime \in Nat
        BY <1>1, <4>1, FileFacts, FileNumbers DEF AgeFits
      <4>3. QED
        BY <1>1, <1>2, <2>1, <3>1, <4>1, <4>2, LogAssumption DEF R!Aged
    <3>2. CASE f # 1
      BY <1>2, <2>1, <3>2
    <3>3. QED
      BY <3>1, <3>2
  <2>2. Complete(disk, kept)
    BY DEF LogInv, Contents
  <2>3. QED
    BY <1>3, <2>1, <2>2 DEF Complete, NothingAfter
<1>6. /\ Contents(disk, kept, events)'
      /\ pending # R!Nobody => Contents(disk, kept, events - 1)'
  <2>1. /\ Contents(disk', kept, events)
        /\ pending # R!Nobody => Contents(disk', kept, events - 1)
    BY <1>3, <1>4, <1>5 DEF LogInv, Pending, Contents, Below
  <2>2. QED
    BY <1>1, <2>1, SameDay
<1>7. Pending'
  BY <1>1, <1>2, <1>3, <1>6 DEF LogInv, Pending
<1>8. LogTyped' /\ Rotation'
  BY <1>1, <1>3 DEF LogInv, LogTyped, Rotation
<1>9. (logging => AgeFits(disk, IF rotation = "stamp" THEN 1 ELSE 0, oldest))'
  BY <1>1, <1>3 DEF AgeFits
<1>10. QED
  BY <1>1, <1>6, <1>7, <1>8, <1>9 DEF LogInv

\* The new active file gets the event that waited.
LEMMA LogReopens == ASSUME LogInv, R!Reopen PROVE LogInv'
<1>1. /\ rotation = "reopen" /\ logging = TRUE /\ ~disk[0].exists
      /\ UNCHANGED <<now, logging, events>> /\ attached' = TRUE /\ R!Free
      /\ oldest' = R!AgeOf(R!Opened(disk))
      /\ now \in Nat /\ events \in Nat
  BY DEF R!Reopen, LogInv, LogTyped, Rotation
<1>2. PICK d \in R!Cleanups(R!Opened(disk)) : R!Write(d, pending)
  BY DEF R!Reopen
<1>3. /\ Contents(d, kept, events) /\ d[0].exists /\ d[0].events = <<>> /\ oldest' = now
      /\ \A f \in R!Files : f # 0 /\ d[f].exists => disk[f].exists /\ d[f] = disk[f]
  BY <1>1, OpenedClean
<1>4. CASE pending = R!Nobody
  <2>1. disk' = d /\ kept' = kept
    BY <1>2, <1>4 DEF R!Write
  <2>2. AgeFits(disk', 0, oldest')
    BY <1>3, <2>1 DEF AgeFits, Contents, Disk
  <2>3. now <= now
    BY <1>1
  <2>4. QED
    BY <1>1, <1>3, <2>1, <2>2, <2>3, LogEnds
<1>5. CASE pending # R!Nobody
  <2>1. /\ disk' = [d EXCEPT ![0].events = Append(@, pending), ![0].mtime = now]
        /\ kept' = kept \cup {pending}
    BY <1>2, <1>5 DEF R!Write
  <2>2. /\ pending \in LogEvents /\ pending.n = events /\ pending.day <= now
        /\ \A f \in R!Files : disk[f].exists => disk[f].mtime <= pending.day
        /\ Contents(disk, kept, events - 1)
    BY <1>5 DEF LogInv, LogTyped, Pending
  <2>3. Contents(d, kept, events - 1)
    BY <1>1, <2>2, ContentsKept
  <2>4. \A g \in R!Files : g # 0 /\ d[g].exists => d[g].mtime <= pending.day
    BY <1>3, <2>2
  <2>5. /\ Disk(d) /\ Complete(d, kept) /\ Below(d, events - 1)
        /\ kept \subseteq LogEvents /\ \A x \in kept : x.n <= events - 1
    BY <2>3 DEF Contents
  <2>6. /\ disk' \in [R!Files -> LogFiles] /\ disk'[0].exists /\ disk'[0].mtime = now
        /\ disk'[0].events = Append(d[0].events, pending)
        /\ \A f \in R!Files : f # 0 => disk'[f] = d[f]
    BY <1>1, <1>3, <2>1, <2>2, <2>5, WrittenFile
  <2>7. Disk(disk') /\ Complete(disk', kept \cup {pending}) /\ Below(disk', events)
    BY <1>1, <1>3, <2>2, <2>4, <2>5, <2>6, AppendedEvent
  <2>8. \A x \in kept' : x.n <= events
    BY <1>1, <1>3, <2>1, <2>2 DEF Contents
  <2>9. Contents(disk', kept', events')
    BY <1>1, <2>1, <2>2, <2>5, <2>7, <2>8 DEF Contents
  <2>10. AgeFits(disk', 0, oldest')
    BY <1>1, <1>3, <2>6, <2>7 DEF AgeFits, Disk
  <2>11. now <= now
    BY <1>1
  <2>12. QED
    BY <1>1, <1>3, <2>6, <2>9, <2>10, <2>11, LogEnds
<1>6. QED
  BY <1>4, <1>5

\* New: cleanup and open, and a rotation without an event.
LEMMA LogStarts == ASSUME LogInv, R!Start PROVE LogInv'
<1>1. /\ logging' = TRUE /\ UNCHANGED <<now, kept, events>> /\ now \in Nat /\ events \in Nat
  BY DEF R!Start, LogInv, LogTyped
<1>2. PICK d \in R!Cleanups(R!Opened(disk)) :
        /\ disk' = d /\ oldest' = R!AgeOf(d)
        /\ \/ R!Rotate(R!Nobody, TRUE) /\ attached' = FALSE
           \/ R!Free /\ attached' = TRUE
  BY DEF R!Start
<1>3. /\ Contents(d, kept, events) /\ d[0].exists /\ d[0] = R!Opened(disk)[0]
      /\ R!AgeOf(R!Opened(disk)) \in Nat /\ R!AgeOf(R!Opened(disk)) <= now
      /\ AgeFits(d, 0, R!AgeOf(R!Opened(disk)))
  BY OpenedClean
<1>4. R!AgeOf(d) = R!AgeOf(R!Opened(disk))
  BY <1>3 DEF R!AgeOf
<1>5. /\ Contents(disk', kept', events') /\ disk'[0].exists
      /\ oldest' \in Nat /\ oldest' <= now /\ AgeFits(disk', 0, oldest')
  BY <1>1, <1>2, <1>3, <1>4
<1>6. R!Nobody \in LogEvents
  BY DEF R!Nobody, LogEvents
<1>7. CASE R!Rotate(R!Nobody, TRUE) /\ attached' = FALSE
  BY <1>1, <1>5, <1>6, <1>7, LogRotates
<1>8. CASE R!Free /\ attached' = TRUE
  BY <1>1, <1>5, <1>8, LogEnds
<1>9. QED
  BY <1>2, <1>7, <1>8

\* Whoever takes the active file away takes its events with it.
LEMMA LogRemoved == ASSUME LogInv, R!Removed PROVE LogInv'
<1>1. /\ rotation = "free" /\ disk' = [disk EXCEPT ![0] = R!Absent]
      /\ kept' = kept \ InFile(disk, 0) /\ attached' = FALSE
      /\ UNCHANGED <<now, logging, oldest, rotation, backupNo, pending, starting, events>>
      /\ now \in Nat /\ Disk(disk) /\ Complete(disk, kept) /\ Below(disk, events)
      /\ kept \subseteq LogEvents /\ \A e \in kept : e.n <= events
      /\ pending = R!Nobody
  BY DEF R!Removed, R!Idle, LogInv, LogTyped, Contents, Rotation, InFile
<1>2. /\ disk' = [f \in R!Files |-> disk'[f]] /\ disk'[0] = R!Absent
      /\ \A f \in R!Files : f # 0 => disk'[f] = disk[f] /\ InFile(disk', f) = InFile(disk, f)
      /\ InFile(disk', 0) = {}
  BY <1>1, FileNumbers, AbsentFile DEF Disk, InFile
<1>3. Disk(disk') /\ \A f \in R!Files : InFile(disk', f) \subseteq InFile(disk, f)
  BY <1>1, <1>2, FewerFiles
<1>4. Complete(disk', kept')
  <2>1. ASSUME NEW f \in R!Files, f = 0 \/ ~R!Aged(disk'[f]), NEW e \in InFile(disk', f),
               NEW later \in kept', later.n > e.n
        PROVE  \E g \in R!Files : later \in InFile(disk', g)
    <3>1. f # 0 /\ ~R!Aged(disk[f]) /\ e \in InFile(disk, f)
      BY <1>2, <2>1
    <3>2. PICK g \in R!Files : later \in InFile(disk, g)
      BY <1>1, <2>1, <3>1 DEF Complete, NothingAfter
    <3>3. g # 0
      BY <1>1, <2>1, <3>2
    <3>4. QED
      BY <1>2, <3>2, <3>3
  <2>2. QED
    BY <2>1 DEF Complete, NothingAfter
<1>5. Contents(disk, kept, events)'
  <2>1. Contents(disk', kept', events')
    BY <1>1, <1>3, <1>4 DEF Contents, Below
  <2>2. QED
    BY <1>1, <2>1, SameDay
<1>6. LogTyped' /\ Pending' /\ Rotation'
  BY <1>1 DEF LogInv, LogTyped, Pending, Rotation
<1>7. (logging => AgeFits(disk, IF rotation = "stamp" THEN 1 ELSE 0, oldest))'
  BY <1>1, <1>2, AbsentFile DEF AgeFits
<1>8. QED
  BY <1>1, <1>5, <1>6, <1>7 DEF LogInv

LEMMA LogInit == ASSUME R!Init PROVE LogInv
<1>1. /\ now = 0 /\ disk = [f \in R!Files |-> R!Absent] /\ logging = FALSE /\ attached = FALSE
      /\ oldest = 0 /\ rotation = "free" /\ backupNo = 0 /\ pending = R!Nobody
      /\ starting = FALSE /\ kept = {} /\ events = 0
  BY DEF R!Init
<1>2. /\ disk \in [R!Files -> LogFiles]
      /\ \A f \in R!Files : disk[f] = R!Absent /\ InFile(disk, f) = {}
  BY <1>1, AbsentFile DEF InFile
<1>3. Disk(disk) /\ Complete(disk, kept) /\ Below(disk, events)
  BY <1>1, <1>2, AbsentFile, FileNumbers DEF Disk, Older, Complete, Below
<1>4. Contents(disk, kept, events)
  BY <1>1, <1>3 DEF Contents
<1>5. LogTyped /\ Pending /\ Rotation
  <2>1. R!Nobody \in LogEvents
    BY DEF R!Nobody, LogEvents
  <2>2. LogTyped
    <3>1. now \in Nat /\ events \in Nat /\ oldest \in Nat /\ oldest <= now
      BY <1>1
    <3>2. logging \in BOOLEAN /\ attached \in BOOLEAN /\ starting \in BOOLEAN
      BY <1>1
    <3>3. QED
      BY <1>1, <2>1, <3>1, <3>2, FileNumbers DEF LogTyped
  <2>3. Pending /\ Rotation
    BY <1>1 DEF Pending, Rotation
  <2>4. QED
    BY <2>2, <2>3
<1>6. QED
  BY <1>1, <1>4, <1>5 DEF LogInv

LEMMA LogNext == ASSUME LogInv, R!Next \/ UNCHANGED log PROVE LogInv'
<1>1. CASE UNCHANGED log
  <2>1. /\ UNCHANGED <<now, disk, logging, attached, oldest, rotation, backupNo, pending,
                       starting, kept, events>>
    BY <1>1 DEF log
  <2>2. Contents(disk, kept, events)' /\ (pending # R!Nobody => Contents(disk, kept, events - 1)')
    BY <2>1, SameDay DEF LogInv, Pending
  <2>3. QED
    BY <2>1, <2>2 DEF LogInv, LogTyped, Pending, Rotation, AgeFits
<1>2. CASE R!Next
  BY <1>2, LogRecords, LogMaintains, LogInterrupted, LogMoves, LogStamps, LogReopens, LogStarts,
     LogRemoved, LogDay DEF R!Next
<1>3. QED
  BY <1>1, <1>2

LEMMA LogImplies == ASSUME LogInv PROVE R!LogHasNoHole
<1>1. Disk(disk) /\ Complete(disk, kept)
  BY DEF LogInv, Contents
<1>2. \A f \in R!Files : \A x : R!Contains(disk[f].events, x) <=> x \in InFile(disk, f)
  <2>1. [n |-> 0, day |-> 0] \in LogEvents
    BY DEF LogEvents
  <2>2. QED
    BY <1>1, <2>1, FileFacts, EventsIn DEF InFile
<1>3. ASSUME NEW f \in R!Files, NEW e \in InFile(disk, f)
      PROVE  /\ \A g \in R!Files : g > f => \A b \in InFile(disk, g) : b.n < e.n
             /\ ~R!Aged(disk[f]) => \A later \in kept : later.n > e.n => R!OnDisk(later)
  <2>1. \A g \in R!Files : g > f => \A b \in InFile(disk, g) : b.n < e.n
    BY <1>1, <1>3, FileNumbers DEF Disk, Older
  <2>2. ~R!Aged(disk[f]) => \A later \in kept : later.n > e.n => R!OnDisk(later)
    BY <1>1, <1>2, <1>3 DEF Complete, NothingAfter, R!OnDisk
  <2>3. QED
    BY <2>1, <2>2
<1>4. QED
  BY <1>3 DEF R!LogHasNoHole, InFile

\* Wherever a rotation fails or the program stops, the log has no hole: an
\* event is gone only together with everything before it, or because its file
\* has aged, for any number of backups, sizes and ages (logger.go:230-274).
THEOREM LogStaysWhole == HostSpec => []LogHasNoHole
<1>1. HostInit => LogInv
  BY LogInit DEF HostInit
<1>2. LogInv /\ [HostNext]_<<part, vars, connection, log, config, binary, login, socket>>
        => LogInv'
  BY LogNext DEF HostNext
<1>3. LogInv => LogHasNoHole
  BY LogImplies DEF LogHasNoHole
<1>4. QED
  BY <1>1, <1>2, <1>3, PTL DEF HostSpec

-----------------------------------------------------------------------------
(***************************************************************************)
(* The binary of the sidecar (Install), for any number of installations.   *)
(* The names of the files are of different inodes.  An installation that   *)
(* has been alone has the partial file, the archive or the file that it    *)
(* extracts to in its hands, whole as far as it has come; and the inode of *)
(* a binary that such an installation put in place is open to nobody, for  *)
(* whoever could have it open would have run at the same time.             *)
(***************************************************************************)
Handles == {0} \cup B!Inodes

BinaryJobs ==
  [pc : {"none", "request", "copy", "downloaded", "open", "extract", "stop", "replace", "start"},
   version : Nat, attempt : Nat, fd : Handles, offset : Nat, source : Handles,
   wasRunning : BOOLEAN, alone : BOOLEAN, pure : BOOLEAN]

FilesTyped ==
  /\ latest \in B!Versions /\ installer \in [Installers -> BinaryJobs]
  /\ path \in [B!Paths -> Handles] /\ data \in [B!Inodes -> Seq(Nat)]
  /\ origin \in B!Origins

\* No two names of one file.
Separate(names) == \A p, q \in B!Paths : p # q /\ names[p] # 0 => names[p] # names[q]

\* The blocks of a file that has only been written from one release.
OnlyOf(blocks, v) == blocks = [n \in 1 .. Len(blocks) |-> v]

\* A file of full size, and of one version when its archive was not resumed.
Got(i, p) ==
  /\ path[p] # 0 /\ Len(data[path[p]]) = 2
  /\ installer[i].pure => B!IsWhole(data[path[p]])

\* What every installation has open.
Holding(i) ==
  /\ installer[i].pc \notin {"copy", "extract"} => installer[i].fd = 0
  /\ installer[i].pc # "extract" => installer[i].source = 0
  /\ installer[i].pc \in {"copy", "extract"} => installer[i].fd # 0
  /\ installer[i].pc = "extract" => installer[i].source # 0
  /\ installer[i].pc \in {"request", "copy", "downloaded"} => installer[i].version \in B!Versions

\* What one that has been alone knows of its files.
Knowing(i) ==
  /\ installer[i].pc = "request" /\ installer[i].pure /\ path["part"] # 0 =>
       OnlyOf(data[path["part"]], installer[i].version)
  /\ installer[i].pc = "copy" =>
       /\ path["part"] # 0 /\ installer[i].fd = path["part"]
       /\ Len(data[path["part"]]) = installer[i].offset
       /\ installer[i].pure => OnlyOf(data[path["part"]], installer[i].version)
  /\ installer[i].pc = "downloaded" =>
       /\ path["part"] # 0 /\ Len(data[path["part"]]) = 2
       /\ installer[i].pure => OnlyOf(data[path["part"]], installer[i].version)
  /\ installer[i].pc \in {"open", "extract"} => Got(i, "tmp")
  /\ installer[i].pc = "extract" =>
       /\ path["install"] # 0 /\ installer[i].fd = path["install"]
       /\ installer[i].source = path["tmp"] /\ installer[i].offset <= 2
       /\ data[path["install"]] = [n \in 1 .. installer[i].offset |-> data[path["tmp"]][n]]
  /\ installer[i].pc \in {"stop", "replace"} => Got(i, "install")

Alone(i) == installer[i].alone => \A j \in Installers : j # i => installer[j].pc = "none"

Installing(i) == Holding(i) /\ Alone(i) /\ (installer[i].alone => Knowing(i))

\* The binary in place.
InPlace ==
  path["bin"] # 0 /\ origin # "overlap" =>
    /\ Len(data[path["bin"]]) = 2 /\ (origin = "clean" => B!IsWhole(data[path["bin"]]))
    /\ \A i \in Installers : installer[i].fd # path["bin"]

BinaryInv ==
  /\ FilesTyped /\ Separate(path) /\ InPlace
  /\ \A i \in Installers : Installing(i)

LEMMA InodesAreNumbers ==
  /\ Cardinality(Installers) \in Nat /\ B!Inodes = 1 .. 4 + 2 * Cardinality(Installers)
  /\ \A n \in B!Inodes : n \in Nat /\ n # 0
<1>1. Cardinality(Installers) \in Nat
  BY BoundsAssumption, FS_CardinalityType
<1>2. B!Cardinality(Installers) = Cardinality(Installers)
  BY DEF B!Cardinality, Cardinality
<1>. QED
  BY <1>1, <1>2 DEF B!Inodes

LEMMA BinaryJobsFields ==
  ASSUME FilesTyped, NEW i \in Installers
  PROVE  /\ installer[i] \in BinaryJobs /\ installer[i].version \in Nat
         /\ installer[i].attempt \in Nat /\ installer[i].fd \in Handles
         /\ installer[i].offset \in Nat /\ installer[i].source \in Handles
         /\ installer[i].wasRunning \in BOOLEAN /\ installer[i].alone \in BOOLEAN
         /\ installer[i].pure \in BOOLEAN
<1>1. installer[i] \in BinaryJobs
  BY DEF FilesTyped
<1>. QED
  BY <1>1 DEF BinaryJobs

\* The values of a function are as many as its arguments at most.
LEMMA ValuesOf ==
  ASSUME NEW S, IsFiniteSet(S), NEW f, f = [x \in S |-> f[x]]
  PROVE  /\ IsFiniteSet({f[x] : x \in S})
         /\ Cardinality({f[x] : x \in S}) <= Cardinality(S)
         /\ Cardinality({f[x] : x \in S}) \in Nat /\ Cardinality(S) \in Nat
<1>. DEFINE T == {f[x] : x \in S}
<1>1. f \in [S -> T]
  OBVIOUS
<1>2. f \in Surjection(S, T)
  BY <1>1 DEF Surjection
<1>. HIDE DEF T
<1>3. IsFiniteSet(T) /\ Cardinality(T) <= Cardinality(S)
  BY <1>2, FS_Surjection
<1>4. Cardinality(T) \in Nat /\ Cardinality(S) \in Nat
  BY <1>3, FS_CardinalityType
<1>. QED
  BY <1>3, <1>4 DEF T

LEMMA UnionIsBounded ==
  ASSUME NEW S, IsFiniteSet(S), NEW T, IsFiniteSet(T), NEW a \in Nat, NEW b \in Nat,
         Cardinality(S) <= a, Cardinality(T) <= b
  PROVE  IsFiniteSet(S \cup T) /\ Cardinality(S \cup T) <= a + b
<1>1. IsFiniteSet(S \cap T)
  BY FS_Intersection
<1>2. /\ Cardinality(S) \in Nat /\ Cardinality(T) \in Nat /\ Cardinality(S \cap T) \in Nat
  BY <1>1, FS_CardinalityType
<1>3. /\ IsFiniteSet(S \cup T)
      /\ Cardinality(S \cup T) = Cardinality(S) + Cardinality(T) - Cardinality(S \cap T)
  BY FS_Union
<1>. QED
  BY <1>2, <1>3

LEMMA OneMore ==
  ASSUME NEW S, IsFiniteSet(S), NEW x, NEW n \in Nat, Cardinality(S) <= n
  PROVE  \A m : m = n + 1 => IsFiniteSet(S \cup {x}) /\ Cardinality(S \cup {x}) <= m
<1>1. IsFiniteSet({x}) /\ Cardinality({x}) = 1
  BY FS_Singleton
<1>2. IsFiniteSet({x}) /\ Cardinality({x}) <= 1
  BY <1>1
<1>. QED
  BY <1>2, UnionIsBounded

\* An installation that has nothing open finds an inode that is free: the names
\* and the open files of the others are fewer than the inodes.
LEMMA FreshInode ==
  ASSUME FilesTyped, NEW i \in Installers, installer[i].fd = 0
  PROVE  B!Fresh \in B!Inodes /\ B!Fresh \notin B!Used
<1>. DEFINE K       == Cardinality(Installers)
            fds     == [j \in Installers |-> installer[j].fd]
            sources == [j \in Installers |-> installer[j].source]
            F       == {fds[j] : j \in Installers}
            S       == {sources[j] : j \in Installers}
            N       == {path[p] : p \in B!Paths}
<1>1. K \in Nat /\ IsFiniteSet(Installers) /\ B!Inodes = 1 .. 4 + 2 * K
  BY InodesAreNumbers, BoundsAssumption
<1>2. IsFiniteSet(B!Paths) /\ Cardinality(B!Paths) <= 4
  <2>1. /\ IsFiniteSet({})
        /\ Cardinality({}) <= 0
    BY FS_EmptySet
  <2>2. /\ IsFiniteSet({} \cup {"part"})
        /\ Cardinality({} \cup {"part"}) <= 1
    BY ONLY <2>1, 0 \in Nat, 1 = 0 + 1, OneMore, Zenon
  <2>3. /\ IsFiniteSet(({} \cup {"part"}) \cup {"tmp"})
        /\ Cardinality(({} \cup {"part"}) \cup {"tmp"}) <= 2
    <3>. DEFINE T == {} \cup {"part"}
    <3>1. IsFiniteSet(T) /\ Cardinality(T) <= 1
      BY <2>2
    <3>. HIDE DEF T
    <3>2. IsFiniteSet(T \cup {"tmp"}) /\ Cardinality(T \cup {"tmp"}) <= 2
      BY ONLY <3>1, 1 \in Nat, 2 = 1 + 1, OneMore, Zenon
    <3>. QED
      BY <3>2 DEF T
  <2>4. /\ IsFiniteSet({"part", "tmp", "install"} \cup {"bin"})
        /\ Cardinality({"part", "tmp", "install"} \cup {"bin"}) <= 4
    <3>. DEFINE T == {"part", "tmp"}
                U == T \cup {"install"}
    <3>1. T = ({} \cup {"part"}) \cup {"tmp"}
      OBVIOUS
    <3>2. IsFiniteSet(T) /\ Cardinality(T) <= 2
      BY ONLY <2>3, <3>1
    <3>3. U = {"part", "tmp", "install"}
      OBVIOUS
    <3>. HIDE DEF T
    <3>4. IsFiniteSet(U) /\ Cardinality(U) <= 3
      BY ONLY <3>2, 2 \in Nat, 3 = 2 + 1, OneMore, Zenon
    <3>. HIDE DEF U
    <3>5. IsFiniteSet(U \cup {"bin"}) /\ Cardinality(U \cup {"bin"}) <= 4
      BY ONLY <3>4, 3 \in Nat, 4 = 3 + 1, OneMore, Zenon
    <3>. QED
      BY ONLY <3>3, <3>5
  <2>5. B!Paths = {"part", "tmp", "install"} \cup {"bin"}
    BY DEF B!Paths
  <2>. QED
    BY <2>4, <2>5
<1>3. IsFiniteSet(N) /\ Cardinality(N) <= 4
  <2>1. path = [p \in B!Paths |-> path[p]]
    BY DEF FilesTyped
  <2>2. /\ IsFiniteSet(N) /\ Cardinality(N) <= Cardinality(B!Paths)
        /\ Cardinality(N) \in Nat /\ Cardinality(B!Paths) \in Nat
    BY <1>2, <2>1, ValuesOf
  <2>. QED
    BY <1>2, <2>2
<1>4. IsFiniteSet(F) /\ Cardinality(F) <= K
  <2>1. fds = [j \in Installers |-> fds[j]]
    OBVIOUS
  <2>. HIDE DEF fds
  <2>. QED
    BY <1>1, <2>1, ValuesOf
<1>5. IsFiniteSet(S) /\ Cardinality(S) <= K
  <2>1. sources = [j \in Installers |-> sources[j]]
    OBVIOUS
  <2>. HIDE DEF sources
  <2>. QED
    BY <1>1, <2>1, ValuesOf
<1>6. B!Used = (N \cup F) \cup S
  BY DEF B!Used
<1>7. 0 \in F
  OBVIOUS
<1>. HIDE DEF N, F, S, K, fds, sources
<1>8. IsFiniteSet(N \cup F) /\ Cardinality(N \cup F) <= 4 + K
  BY <1>1, <1>3, <1>4, UnionIsBounded
<1>9. IsFiniteSet(B!Used) /\ Cardinality(B!Used) <= (4 + K) + K
  <2>1. 4 + K \in Nat
    BY <1>1
  <2>. DEFINE M == 4 + K
              O == N \cup F
  <2>. HIDE DEF M, O
  <2>2. IsFiniteSet(O \cup S) /\ Cardinality(O \cup S) <= M + K
    BY <1>1, <1>5, <1>8, <2>1, UnionIsBounded DEF M, O
  <2>. QED
    BY <1>6, <2>2 DEF M, O
<1>10. \E n \in B!Inodes : n \notin B!Used
  <2>1. SUFFICES ASSUME B!Inodes \subseteq B!Used PROVE FALSE
    OBVIOUS
  <2>2. 0 .. 4 + 2 * K \subseteq B!Used
    <3>1. \A n \in 0 .. 4 + 2 * K : n = 0 \/ n \in 1 .. 4 + 2 * K
      BY <1>1
    <3>. QED
      BY <1>1, <1>6, <1>7, <2>1, <3>1
  <2>3. Cardinality(0 .. 4 + 2 * K) = 4 + 2 * K + 1
    <3>1. 0 \in Int /\ 4 + 2 * K \in Int /\ ~(0 > 4 + 2 * K)
      BY <1>1
    <3>2. Cardinality(0 .. 4 + 2 * K) = (4 + 2 * K) - 0 + 1
      BY <3>1, FS_Interval
    <3>. QED
      BY <1>1, <3>2
  <2>4. Cardinality(0 .. 4 + 2 * K) <= Cardinality(B!Used)
    BY <1>9, <2>2, FS_Subset
  <2>5. Cardinality(B!Used) \in Nat
    BY <1>9, FS_CardinalityType
  <2>. QED
    BY <1>1, <1>9, <2>3, <2>4, <2>5
<1>. QED
  BY <1>10 DEF B!Fresh

LEMMA OpenedName ==
  ASSUME FilesTyped, Separate(path), NEW i \in Installers, installer[i].fd = 0,
         NEW p \in B!Paths, NEW n, n = B!Opened(p),
         NEW names, names = [path EXCEPT ![p] = n]
  PROVE  /\ n \in B!Inodes /\ n # 0
         /\ \A q \in B!Paths : q # p => path[q] # n
         /\ names \in [B!Paths -> Handles] /\ Separate(names)
<1>1. \A m \in B!Inodes : m # 0
  BY InodesAreNumbers
<1>2. B!Fresh \in B!Inodes /\ \A q \in B!Paths : path[q] # B!Fresh
  BY FreshInode DEF B!Used
<1>3. path \in [B!Paths -> Handles]
  BY DEF FilesTyped
<1>4. n \in B!Inodes /\ n # 0
  BY <1>1, <1>2, <1>3 DEF B!Opened, Handles
<1>5. \A q \in B!Paths : q # p => path[q] # n
  BY <1>2 DEF B!Opened, Separate
<1>6. names \in [B!Paths -> Handles]
  BY <1>3, <1>4 DEF Handles
<1>7. names[p] = n /\ \A q \in B!Paths : q # p => names[q] = path[q]
  BY <1>3
<1>8. Separate(names)
  BY <1>5, <1>7 DEF Separate
<1>. QED
  BY <1>4, <1>5, <1>6, <1>8

\* Names that are removed leave the others what they are.
LEMMA NamesRemoved ==
  ASSUME FilesTyped, Separate(path), NEW ps
  PROVE  /\ B!Removed(ps) \in [B!Paths -> Handles]
         /\ Separate(B!Removed(ps))
         /\ \A p \in B!Paths : p \notin ps => B!Removed(ps)[p] = path[p]
BY DEF FilesTyped, Separate, B!Removed, Handles

LEMMA NameMoved ==
  ASSUME FilesTyped, Separate(path), NEW p \in B!Paths, NEW q \in B!Paths, p # q
  PROVE  /\ [path EXCEPT ![q] = path[p], ![p] = 0] \in [B!Paths -> Handles]
         /\ Separate([path EXCEPT ![q] = path[p], ![p] = 0])
<1>1. path \in [B!Paths -> Handles] /\ 0 \in Handles
  BY DEF FilesTyped, Handles
<1>. QED
  BY <1>1 DEF Separate

\* A write leaves numbers, and behind the first blocks of a file one block more.
LEMMA LargerOf ==
  ASSUME NEW a \in Nat, NEW b \in Nat
  PROVE  B!Max({a, b}) = IF a < b THEN b ELSE a
BY DEF B!Max

LEMMA WrittenTyped ==
  ASSUME NEW blocks \in Seq(Nat), NEW at \in Nat \ {0}, NEW v \in Nat
  PROVE  B!WrittenAt(blocks, at, v) \in Seq(Nat)
<1>. DEFINE k == IF Len(blocks) < at THEN at ELSE Len(blocks)
            g == [n \in 1 .. k |-> IF n = at THEN v ELSE IF n <= Len(blocks) THEN blocks[n] ELSE 0]
<1>1. Len(blocks) \in Nat
  OBVIOUS
<1>2. B!Max({Len(blocks), at}) = k
  BY <1>1, LargerOf
<1>3. \A n \in 1 .. Len(blocks) : blocks[n] \in Nat
  OBVIOUS
<1>4. k \in Nat
  BY <1>1
<1>5. g \in [1 .. k -> Nat]
  BY <1>1, <1>3
<1>6. g \in Seq(Nat)
  <2>. HIDE DEF g, k
  <2>. QED
    BY <1>4, <1>5
<1>. QED
  BY <1>2, <1>6 DEF B!WrittenAt

LEMMA OneBlockMore ==
  ASSUME NEW o \in Nat, NEW s
  PROVE  B!WrittenAt([n \in 1 .. o |-> s[n]], o + 1, s[o + 1]) = [n \in 1 .. o + 1 |-> s[n]]
<1>. DEFINE f == [n \in 1 .. o |-> s[n]]
<1>1. Len(f) = o
  OBVIOUS
<1>2. B!Max({Len(f), o + 1}) = o + 1
  BY <1>1, LargerOf
<1>. QED
  BY <1>1, <1>2 DEF B!WrittenAt

LEMMA OneBlockLonger ==
  ASSUME NEW blocks \in Seq(Nat), NEW v \in Nat
  PROVE  /\ Append(blocks, v) \in Seq(Nat) /\ Len(Append(blocks, v)) = Len(blocks) + 1
         /\ OnlyOf(blocks, v) => OnlyOf(Append(blocks, v), v)
<1>1. Append(blocks, v) \in Seq(Nat) /\ Len(Append(blocks, v)) = Len(blocks) + 1
  OBVIOUS
<1>2. ASSUME OnlyOf(blocks, v) PROVE OnlyOf(Append(blocks, v), v)
  <2>1. ASSUME NEW n \in 1 .. Len(blocks) + 1 PROVE Append(blocks, v)[n] = v
    <3>1. n \in 1 .. Len(blocks) => blocks[n] = v
      BY <1>2 DEF OnlyOf
    <3>. QED
      BY <3>1
  <2>2. \A s \in Seq(Nat) : s = [n \in 1 .. Len(s) |-> s[n]]
    OBVIOUS
  <2>. QED
    BY <1>1, <2>1, <2>2 DEF OnlyOf
<1>. QED
  BY <1>1, <1>2

\* Two blocks of one release are a whole file, and a copy of one is one.
LEMMA OnlyIsWhole ==
  ASSUME NEW blocks, Len(blocks) = 2, NEW v \in B!Versions, OnlyOf(blocks, v)
  PROVE  B!IsWhole(blocks)
BY DEF OnlyOf, B!IsWhole, B!Whole

LEMMA CopyOfTwo ==
  ASSUME NEW blocks \in Seq(Nat), Len(blocks) = 2
  PROVE  [n \in 1 .. 2 |-> blocks[n]] = blocks
OBVIOUS

LEMMA EmptyFile ==
  /\ <<>> \in Seq(Nat) /\ Len(<<>>) = 0
  /\ \A v : OnlyOf(<<>>, v)
  /\ \A s : <<>> = [m \in 1 .. 0 |-> s[m]]
BY DEF OnlyOf

(***************************************************************************)
(* The steps of an installation.                                           *)
(***************************************************************************)
\* A step of one that runs: no other one knows anything, for none was alone.
LEMMA BinaryInvNext ==
  ASSUME BinaryInv, NEW i \in Installers, installer[i].pc # "none",
         \A j \in Installers : j # i => installer'[j] = installer[j],
         installer'[i].alone => installer[i].alone /\ Knowing(i)',
         FilesTyped', Separate(path)', InPlace', Holding(i)'
  PROVE  BinaryInv'
<1>1. \A j \in Installers : Holding(j) /\ Alone(j)
  BY DEF BinaryInv, Installing
<1>2. ASSUME NEW j \in Installers PROVE Installing(j)'
  <2>1. CASE j = i
    BY <1>1, <2>1 DEF Installing, Alone
  <2>2. CASE j # i
    <3>1. installer'[j] = installer[j] /\ ~installer[j].alone
      BY <1>1, <2>2 DEF Alone
    <3>. QED
      BY <1>1, <3>1 DEF Installing, Alone, Holding
  <2>. QED
    BY <2>1, <2>2
<1>. QED
  BY <1>2 DEF BinaryInv

\* What changes the job of one installation, to a record of jobs.
LEMMA OneJob ==
  ASSUME FilesTyped, NEW i \in Installers, NEW r \in BinaryJobs,
         installer' = [installer EXCEPT ![i] = r]
  PROVE  /\ installer' \in [Installers -> BinaryJobs] /\ installer'[i] = r
         /\ \A j \in Installers : j # i => installer'[j] = installer[j]
BY DEF FilesTyped

\* The binary stays when its name does, and nobody opens it or had it open.
LEMMA BinaryUntouched ==
  ASSUME FilesTyped, InPlace, NEW i \in Installers, path'["bin"] = path["bin"], origin' = origin,
         \A j \in Installers : j # i => installer'[j] = installer[j],
         path["bin"] # 0 => \/ data'[path["bin"]] = data[path["bin"]]
                            \/ installer[i].fd = path["bin"],
         installer'[i].fd \in {0, installer[i].fd} \/ installer'[i].fd # path["bin"]
  PROVE  InPlace'
BY DEF InPlace

LEMMA BinaryParts ==
  ASSUME BinaryInv, NEW i \in Installers
  PROVE  /\ FilesTyped /\ Separate(path) /\ InPlace /\ Holding(i)
         /\ installer[i].alone => Knowing(i)
         /\ \A m \in B!Inodes : m # 0 /\ m \in Handles
         /\ 0 \in Handles
BY InodesAreNumbers DEF BinaryInv, Installing, Handles

LEMMA NoJobIsJob ==
  /\ B!NoJob \in BinaryJobs /\ B!NoJob.pc = "none" /\ B!NoJob.fd = 0 /\ B!NoJob.source = 0
  /\ B!NoJob.alone = FALSE /\ B!NoJob.pure = FALSE
BY DEF B!NoJob, BinaryJobs, Handles

LEMMA BeginKeepsBinary ==
  ASSUME BinaryInv, NEW i \in Installers, B!Begin(i)
  PROVE  BinaryInv'
<1>. DEFINE free == \A j \in Installers : installer[j].pc = "none"
            mine == [B!NoJob EXCEPT !.pc = "request", !.version = latest, !.attempt = 1,
                                    !.alone = free]
<1>0. FilesTyped /\ Separate(path) /\ InPlace /\ Holding(i)
  BY BinaryParts
<1>. USE <1>0
<1>1. /\ installer' = [k \in Installers |-> IF k = i THEN mine
                                            ELSE [installer[k] EXCEPT !.alone = FALSE]]
      /\ installer[i].pc = "none" /\ UNCHANGED <<latest, data, origin>>
  BY DEF B!Begin
<1>2. path' = path \/ path' = B!Removed({"tmp"})
        \/ path' = [path EXCEPT !["part"] = path["tmp"], !["tmp"] = 0]
  BY DEF B!Begin
<1>3. /\ path' \in [B!Paths -> Handles] /\ Separate(path') /\ path'["bin"] = path["bin"]
  <2>1. CASE path' = path
    BY <2>1 DEF FilesTyped
  <2>2. CASE path' = B!Removed({"tmp"})
    BY <2>2, NamesRemoved DEF B!Paths
  <2>3. CASE path' = [path EXCEPT !["part"] = path["tmp"], !["tmp"] = 0]
    BY <2>3, NameMoved DEF B!Paths, FilesTyped
  <2>. QED
    BY <1>2, <2>1, <2>2, <2>3
<1>4. latest \in Nat /\ free \in BOOLEAN /\ 0 \in Handles
  BY DEF FilesTyped, B!Versions, Handles
<1>5. /\ mine \in BinaryJobs /\ mine.pc = "request" /\ mine.fd = 0 /\ mine.source = 0
      /\ mine.version = latest /\ mine.alone = free /\ mine.pure = FALSE
  <2>. HIDE DEF free
  <2>. QED
    BY <1>4 DEF BinaryJobs, B!NoJob
<1>6. ASSUME NEW k \in Installers, k # i
      PROVE  /\ installer'[k] \in BinaryJobs /\ installer'[k].alone = FALSE
             /\ installer'[k].pc = installer[k].pc /\ installer'[k].fd = installer[k].fd
             /\ installer'[k].source = installer[k].source
             /\ installer'[k].version = installer[k].version
  <2>1. installer'[k] = [installer[k] EXCEPT !.alone = FALSE] /\ installer[k] \in BinaryJobs
    BY <1>1, <1>6 DEF FilesTyped
  <2>. QED
    BY <2>1 DEF BinaryJobs
<1>7. installer'[i] = mine
  BY <1>1
<1>. HIDE DEF mine, free
<1>8. FilesTyped'
  <2>1. installer' \in [Installers -> BinaryJobs]
    BY <1>1, <1>5, <1>6, <1>7
  <2>. QED
    BY <1>1, <1>3, <2>1 DEF FilesTyped
<1>9. InPlace'
  BY <1>1, <1>3, <1>5, <1>6, <1>7 DEF InPlace
<1>10. ASSUME NEW k \in Installers PROVE Installing(k)'
  <2>1. CASE k = i
    <3>1. Holding(i)'
      BY <1>5, <1>7 DEF Holding, FilesTyped
    <3>2. Knowing(i)'
      BY <1>5, <1>7 DEF Knowing
    <3>3. Alone(i)'
      BY <1>5, <1>6, <1>7 DEF Alone, free
    <3>. QED
      BY <2>1, <3>1, <3>2, <3>3 DEF Installing
  <2>2. CASE k # i
    <3>1. Holding(k)
      BY BinaryParts
    <3>. QED
      BY <1>6, <2>2, <3>1 DEF Installing, Holding, Alone
  <2>. QED
    BY <2>1, <2>2
<1>. QED
  BY <1>3, <1>8, <1>9, <1>10 DEF BinaryInv

LEMMA RequestKeepsBinary ==
  ASSUME BinaryInv, NEW i \in Installers, B!Request(i)
  PROVE  BinaryInv'
<1>. DEFINE size == IF path["part"] = 0 THEN 0 ELSE Len(data[path["part"]])
            n    == B!Opened("part")
            v    == installer[i].version
<1>0. /\ FilesTyped /\ Separate(path) /\ InPlace /\ Holding(i)
      /\ installer[i].alone => Knowing(i)
  BY BinaryParts
<1>. USE <1>0
<1>1. /\ installer[i].pc = "request" /\ installer[i].fd = 0 /\ installer[i].source = 0
      /\ UNCHANGED <<latest, origin>> /\ v \in B!Versions /\ path["bin"] \in Handles
      /\ installer[i].alone /\ installer[i].pure /\ path["part"] # 0 => OnlyOf(data[path["part"]], v)
  BY DEF B!Request, Holding, Knowing, FilesTyped, B!Paths
<1>2. size \in Nat
  BY DEF FilesTyped, B!Paths, Handles
<1>3. CASE size = 2
  <2>1. installer' = [installer EXCEPT ![i].pc = "downloaded"] /\ UNCHANGED <<path, data>>
    BY <1>3 DEF B!Request, B!Goto, B!Whole
  <2>. DEFINE r == [installer[i] EXCEPT !.pc = "downloaded"]
  <2>2. /\ r \in BinaryJobs /\ r.pc = "downloaded" /\ r.fd = 0 /\ r.source = 0
        /\ r.alone = installer[i].alone /\ r.pure = installer[i].pure /\ r.version = v
    BY <1>1, BinaryJobsFields DEF BinaryJobs
  <2>3. installer' = [installer EXCEPT ![i] = r]
    BY <2>1
  <2>. HIDE DEF r
  <2>4. /\ installer' \in [Installers -> BinaryJobs] /\ installer'[i] = r
        /\ \A j \in Installers : j # i => installer'[j] = installer[j]
    BY <2>2, <2>3, OneJob
  <2>5. FilesTyped' /\ Separate(path)'
    BY <1>1, <2>1, <2>4 DEF FilesTyped
  <2>6. InPlace'
    BY <1>1, <2>1, <2>2, <2>4, BinaryUntouched
  <2>7. path["part"] # 0 /\ Len(data[path["part"]]) = 2
    BY <1>3
  <2>8. installer[i].alone => Knowing(i)'
    BY <1>1, <2>1, <2>2, <2>4, <2>7 DEF Knowing
  <2>9. Holding(i)'
    BY <1>1, <2>2, <2>4 DEF Holding
  <2>. QED
    BY <1>1, <2>2, <2>4, <2>5, <2>6, <2>8, <2>9, BinaryInvNext
<1>4. ASSUME NEW resumes \in BOOLEAN, NEW f, f = n, path' = [path EXCEPT !["part"] = f],
             data' = IF resumes /\ size > 0 THEN data ELSE [data EXCEPT ![f] = <<>>],
             installer' = [installer EXCEPT ![i].pc = "copy", ![i].fd = f,
                            ![i].offset = IF resumes /\ size > 0 THEN size ELSE 0,
                            ![i].pure = IF resumes /\ size > 0 THEN @ ELSE TRUE]
      PROVE  BinaryInv'
  <2>. DEFINE o == IF resumes /\ size > 0 THEN size ELSE 0
              u == IF resumes /\ size > 0 THEN installer[i].pure ELSE TRUE
              r == [installer[i] EXCEPT !.pc = "copy", !.fd = f, !.offset = o, !.pure = u]
  <2>1. /\ f \in B!Inodes /\ f # 0
        /\ \A q \in B!Paths : q # "part" => path[q] # f
        /\ path' \in [B!Paths -> Handles]
        /\ Separate(path')
    BY <1>1, <1>4, OpenedName DEF B!Paths
  <2>2. f \in Handles /\ o \in Nat /\ u \in BOOLEAN
    BY <2>1, <1>2, BinaryJobsFields DEF Handles
  <2>3. installer' = [installer EXCEPT ![i] = r]
    BY <1>4
  <2>4. /\ r \in BinaryJobs /\ r.pc = "copy" /\ r.fd = f /\ r.source = 0 /\ r.offset = o
        /\ r.alone = installer[i].alone /\ r.pure = u /\ r.version = v
    <3>. HIDE DEF o, u
    <3>. QED
      BY <1>1, <2>2, BinaryJobsFields DEF BinaryJobs
  <2>. HIDE DEF r
  <2>5. /\ installer' \in [Installers -> BinaryJobs] /\ installer'[i] = r
        /\ \A j \in Installers : j # i => installer'[j] = installer[j]
    BY <2>3, <2>4, OneJob
  <2>6. /\ data' \in [B!Inodes -> Seq(Nat)] /\ \A m \in B!Inodes : m # f => data'[m] = data[m]
        /\ data'[f] = IF resumes /\ size > 0 THEN data[f] ELSE <<>>
    BY <1>4, <2>1, EmptyFile DEF FilesTyped
  <2>7. /\ path'["part"] = f /\ path'["bin"] = path["bin"] /\ path["bin"] # f
        /\ path["bin"] \in {0} \cup B!Inodes
    BY <1>1, <1>4, <2>1 DEF FilesTyped, B!Paths, Handles
  <2>8. FilesTyped'
    BY <1>1, <2>1, <2>5, <2>6 DEF FilesTyped
  <2>9. path["bin"] # 0 => data'[path["bin"]] = data[path["bin"]]
    BY <2>6, <2>7
  <2>10. InPlace'
    BY <1>1, <2>4, <2>5, <2>7, <2>9, BinaryUntouched
  <2>11. resumes /\ size > 0 => f = path["part"] /\ path["part"] # 0 /\ size = Len(data[f])
    BY <1>4 DEF B!Opened
  <2>12. Len(data'[f]) = o /\ (installer[i].alone /\ u => OnlyOf(data'[f], v))
    <3>1. CASE resumes /\ size > 0
      BY <1>1, <2>6, <2>11, <3>1
    <3>2. CASE ~(resumes /\ size > 0)
      BY <2>6, <3>2, EmptyFile
    <3>. QED
      BY <3>1, <3>2
  <2>. HIDE DEF o, u, v
  <2>13. installer[i].alone => Knowing(i)'
    BY <2>1, <2>4, <2>5, <2>7, <2>12 DEF Knowing
  <2>14. Holding(i)'
    BY <1>1, <2>1, <2>4, <2>5 DEF Holding
  <2>. QED
    BY <1>1, <2>1, <2>4, <2>5, <2>8, <2>10, <2>13, <2>14, BinaryInvNext
<1>5. CASE size # 2
  <2>1. PICK resumes \in BOOLEAN :
          /\ path' = [path EXCEPT !["part"] = n]
          /\ data' = IF resumes /\ size > 0 THEN data ELSE [data EXCEPT ![n] = <<>>]
          /\ installer' = [installer EXCEPT ![i].pc = "copy", ![i].fd = n,
                               ![i].offset = IF resumes /\ size > 0 THEN size ELSE 0,
                               ![i].pure = IF resumes /\ size > 0 THEN @ ELSE TRUE]
    BY <1>5 DEF B!Request, B!Whole
  <2>. QED
    BY <2>1, <1>4
<1>. QED
  BY <1>3, <1>5

LEMMA CopyKeepsBinary ==
  ASSUME BinaryInv, NEW i \in Installers, B!Copy(i)
  PROVE  BinaryInv'
<1>. DEFINE n == installer[i].fd
            blocks == data[n]
            o == installer[i].offset
            v == installer[i].version
            r == [installer[i] EXCEPT !.offset = o + 1]
            w == IF Len(blocks) >= o THEN Append(blocks, v) ELSE B!WrittenAt(blocks, o + 1, v)
<1>0. /\ FilesTyped /\ Separate(path) /\ InPlace /\ Holding(i)
      /\ installer[i].alone => Knowing(i)
  BY BinaryParts
<1>. USE <1>0
<1>1. /\ installer[i].pc = "copy" /\ installer[i].source = 0 /\ n # 0 /\ v \in B!Versions
      /\ installer' = [installer EXCEPT ![i] = r] /\ UNCHANGED <<latest, path, origin>>
      /\ data' = [data EXCEPT ![n] = w]
  BY DEF B!Copy, Holding
<1>2. n \in B!Inodes /\ blocks \in Seq(Nat) /\ o \in Nat /\ v \in Nat
  BY <1>1, BinaryJobsFields DEF FilesTyped, Handles
<1>3. w \in Seq(Nat)
  <2>1. B!WrittenAt(blocks, o + 1, v) \in Seq(Nat)
    <3>1. o + 1 \in Nat \ {0}
      BY <1>2
    <3>. HIDE DEF blocks, o, v
    <3>. QED
      BY <1>2, <3>1, WrittenTyped
  <2>2. Append(blocks, v) \in Seq(Nat)
    BY <1>2
  <2>. QED
    BY <2>1, <2>2
<1>4. /\ r \in BinaryJobs /\ r.pc = "copy" /\ r.fd = n /\ r.source = 0 /\ r.offset = o + 1
      /\ r.alone = installer[i].alone /\ r.pure = installer[i].pure /\ r.version = v
  BY <1>1, <1>2, BinaryJobsFields DEF BinaryJobs
<1>. HIDE DEF r
<1>5. /\ installer' \in [Installers -> BinaryJobs] /\ installer'[i] = r
      /\ \A j \in Installers : j # i => installer'[j] = installer[j]
  BY <1>1, <1>4, OneJob
<1>6. /\ data' \in [B!Inodes -> Seq(Nat)] /\ data'[n] = w
      /\ \A m \in B!Inodes : m # n => data'[m] = data[m]
  <2>. HIDE DEF w, n
  <2>. QED
    BY <1>1, <1>2, <1>3 DEF FilesTyped
<1>7. FilesTyped' /\ Separate(path)'
  BY <1>1, <1>5, <1>6 DEF FilesTyped
<1>8. InPlace'
  <2>1. path["bin"] # 0 => path["bin"] \in B!Inodes
    BY DEF FilesTyped, B!Paths, Handles
  <2>2. path["bin"] # 0 => data'[path["bin"]] = data[path["bin"]] \/ n = path["bin"]
    BY <1>6, <2>1
  <2>. QED
    BY <1>1, <1>4, <1>5, <2>2, BinaryUntouched
<1>9. ASSUME installer[i].alone PROVE Knowing(i)'
  <2>1. /\ path["part"] # 0 /\ n = path["part"] /\ Len(blocks) = o
        /\ installer[i].pure => OnlyOf(blocks, v)
    BY <1>1, <1>9 DEF Knowing
  <2>2. w = Append(blocks, v)
    BY <1>2, <2>1
  <2>3. Len(w) = o + 1 /\ (installer[i].pure => OnlyOf(w, v))
    BY <1>2, <2>1, <2>2, OneBlockLonger
  <2>. HIDE DEF w, n, o, v
  <2>. QED
    BY <1>1, <1>4, <1>5, <1>6, <2>1, <2>3 DEF Knowing
<1>10. Holding(i)'
  BY <1>1, <1>4, <1>5 DEF Holding
<1>. QED
  BY <1>1, <1>4, <1>5, <1>7, <1>8, <1>9, <1>10, BinaryInvNext

\* What changes neither a file nor a name.
LEMMA JobKeepsBinary ==
  ASSUME BinaryInv, NEW i \in Installers, installer[i].pc # "none", NEW r \in BinaryJobs,
         installer' = [installer EXCEPT ![i] = r], UNCHANGED <<latest, path, data, origin>>,
         r.fd \in {0, installer[i].fd}, r.alone = installer[i].alone,
         Holding(i)', installer[i].alone => Knowing(i)'
  PROVE  BinaryInv'
<1>0. FilesTyped /\ Separate(path) /\ InPlace
  BY BinaryParts
<1>1. /\ installer' \in [Installers -> BinaryJobs] /\ installer'[i] = r
      /\ \A j \in Installers : j # i => installer'[j] = installer[j]
  BY <1>0, OneJob
<1>2. FilesTyped' /\ Separate(path)'
  BY <1>0, <1>1 DEF FilesTyped
<1>3. InPlace'
  BY <1>0, <1>1, BinaryUntouched
<1>. QED
  BY <1>1, <1>2, <1>3, BinaryInvNext

LEMMA CopiedKeepsBinary ==
  ASSUME BinaryInv, NEW i \in Installers, B!Copied(i)
  PROVE  BinaryInv'
<1>. DEFINE r == [installer[i] EXCEPT !.pc = "downloaded", !.fd = 0]
<1>0. /\ FilesTyped /\ Holding(i) /\ (installer[i].alone => Knowing(i)) /\ 0 \in Handles
  BY BinaryParts
<1>1. /\ installer[i].pc = "copy" /\ installer[i].offset = 2 /\ installer[i].source = 0
      /\ installer[i].version \in B!Versions
      /\ UNCHANGED <<latest, path, data, origin>> /\ installer' = [installer EXCEPT ![i] = r]
  BY <1>0 DEF B!Copied, B!Whole, Holding
<1>2. /\ r \in BinaryJobs /\ r.pc = "downloaded" /\ r.fd = 0 /\ r.source = 0
      /\ r.alone = installer[i].alone /\ r.pure = installer[i].pure
      /\ r.version = installer[i].version
  BY <1>0, <1>1, BinaryJobsFields DEF BinaryJobs
<1>. HIDE DEF r
<1>3. installer'[i] = r
  BY <1>0, <1>1, <1>2, OneJob
<1>4. Holding(i)'
  BY <1>1, <1>2, <1>3 DEF Holding
<1>5. installer[i].alone => Knowing(i)'
  BY <1>0, <1>1, <1>2, <1>3 DEF Knowing
<1>. QED
  BY <1>1, <1>2, <1>4, <1>5, JobKeepsBinary

\* A job that ends, and names that are removed.
LEMMA EndKeepsBinary ==
  ASSUME BinaryInv, NEW i \in Installers, installer[i].pc # "none", B!End(i),
         UNCHANGED <<latest, data, origin>>, NEW ps, "bin" \notin ps, path' = B!Removed(ps)
  PROVE  BinaryInv'
<1>0. FilesTyped /\ Separate(path) /\ InPlace
  BY BinaryParts
<1>1. path' \in [B!Paths -> Handles] /\ Separate(path') /\ path'["bin"] = path["bin"]
  BY <1>0, NamesRemoved DEF B!Paths
<1>2. installer' = [installer EXCEPT ![i] = B!NoJob]
  BY DEF B!End
<1>3. /\ installer' \in [Installers -> BinaryJobs] /\ installer'[i] = B!NoJob
      /\ \A j \in Installers : j # i => installer'[j] = installer[j]
  BY <1>0, <1>2, NoJobIsJob, OneJob
<1>4. FilesTyped' /\ Separate(path)'
  BY <1>0, <1>1, <1>3 DEF FilesTyped
<1>5. InPlace'
  BY <1>0, <1>1, <1>3, NoJobIsJob, BinaryUntouched
<1>6. Holding(i)' /\ ~installer'[i].alone
  BY <1>3, NoJobIsJob DEF Holding
<1>. QED
  BY <1>3, <1>4, <1>5, <1>6, BinaryInvNext

LEMMA AttemptFailsKeepsBinary ==
  ASSUME BinaryInv, NEW i \in Installers, B!AttemptFails(i)
  PROVE  BinaryInv'
<1>. DEFINE a == installer[i].attempt + 1
            r == [installer[i] EXCEPT !.pc = "request", !.attempt = a, !.fd = 0, !.offset = 0]
<1>0. /\ FilesTyped /\ Holding(i) /\ (installer[i].alone => Knowing(i)) /\ 0 \in Handles
  BY BinaryParts
<1>1. /\ installer[i].pc \in {"request", "copy"} /\ installer[i].source = 0
      /\ installer[i].version \in B!Versions /\ UNCHANGED <<latest, data, origin>>
  BY <1>0 DEF B!AttemptFails, Holding
<1>2. CASE installer' = [installer EXCEPT ![i] = r] /\ path' = path
  <2>1. a \in Nat
    BY <1>0, BinaryJobsFields
  <2>2. /\ r \in BinaryJobs /\ r.pc = "request" /\ r.fd = 0 /\ r.source = 0
        /\ r.alone = installer[i].alone /\ r.pure = installer[i].pure
        /\ r.version = installer[i].version
    <3>. HIDE DEF a
    <3>. QED
      BY <1>0, <1>1, <2>1, BinaryJobsFields DEF BinaryJobs
  <2>. HIDE DEF r
  <2>3. installer'[i] = r
    BY <1>0, <1>2, <2>2, OneJob
  <2>4. Holding(i)'
    BY <1>1, <2>2, <2>3 DEF Holding
  <2>5. installer[i].alone => Knowing(i)'
    BY <1>0, <1>1, <1>2, <2>2, <2>3 DEF Knowing
  <2>. QED
    BY <1>1, <1>2, <2>2, <2>4, <2>5, JobKeepsBinary
<1>3. CASE B!End(i) /\ path' = B!Removed({"tmp", "part"})
  BY <1>1, <1>3, EndKeepsBinary
<1>. QED
  BY <1>2, <1>3 DEF B!AttemptFails

LEMMA DownloadedKeepsBinary ==
  ASSUME BinaryInv, NEW i \in Installers, B!Downloaded(i)
  PROVE  BinaryInv'
<1>. DEFINE r == [installer[i] EXCEPT !.pc = "open", !.version = 0, !.attempt = 0]
<1>0. /\ FilesTyped /\ Separate(path) /\ InPlace /\ Holding(i)
      /\ installer[i].alone => Knowing(i)
  BY BinaryParts
<1>. USE <1>0
<1>1. /\ installer[i].pc = "downloaded" /\ installer[i].fd = 0 /\ installer[i].source = 0
      /\ installer[i].version \in B!Versions /\ UNCHANGED <<latest, data, origin>>
  BY DEF B!Downloaded, Holding
<1>2. CASE path["part"] # 0
  <2>1. /\ path' = [path EXCEPT !["tmp"] = path["part"], !["part"] = 0]
        /\ installer' = [installer EXCEPT ![i] = r]
    BY <1>2 DEF B!Downloaded, B!Rename
  <2>2. /\ r \in BinaryJobs /\ r.pc = "open" /\ r.fd = 0 /\ r.source = 0
        /\ r.alone = installer[i].alone /\ r.pure = installer[i].pure
    BY <1>1, BinaryJobsFields DEF BinaryJobs
  <2>. HIDE DEF r
  <2>3. /\ installer' \in [Installers -> BinaryJobs] /\ installer'[i] = r
        /\ \A j \in Installers : j # i => installer'[j] = installer[j]
    BY <2>1, <2>2, OneJob
  <2>4. path' \in [B!Paths -> Handles] /\ Separate(path')
    BY <2>1, NameMoved DEF B!Paths
  <2>5. path'["bin"] = path["bin"] /\ path'["tmp"] = path["part"]
    BY <2>1 DEF FilesTyped, B!Paths
  <2>6. FilesTyped'
    BY <1>1, <2>3, <2>4 DEF FilesTyped
  <2>7. InPlace'
    BY <1>1, <2>2, <2>3, <2>5, BinaryUntouched
  <2>8. Holding(i)'
    BY <2>2, <2>3 DEF Holding
  <2>9. ASSUME installer[i].alone PROVE Knowing(i)'
    <3>1. /\ Len(data[path["part"]]) = 2
          /\ installer[i].pure => OnlyOf(data[path["part"]], installer[i].version)
      BY <1>1, <2>9 DEF Knowing
    <3>2. installer[i].pure => B!IsWhole(data[path["part"]])
      BY <1>1, <3>1, OnlyIsWhole
    <3>3. Got(i, "tmp")'
      BY <1>1, <1>2, <2>2, <2>3, <2>5, <3>1, <3>2 DEF Got
    <3>. QED
      BY <2>2, <2>3, <3>3 DEF Knowing
  <2>. QED
    BY <1>1, <2>2, <2>3, <2>4, <2>6, <2>7, <2>8, <2>9, BinaryInvNext
<1>3. CASE path["part"] = 0
  BY <1>1, <1>3, EndKeepsBinary DEF B!Downloaded
<1>. QED
  BY <1>2, <1>3

LEMMA ExtractKeepsBinary ==
  ASSUME BinaryInv, NEW i \in Installers, B!Extract(i)
  PROVE  BinaryInv'
<1>0. /\ FilesTyped /\ Separate(path) /\ InPlace /\ Holding(i)
      /\ installer[i].alone => Knowing(i)
  BY BinaryParts
<1>. USE <1>0
<1>1. installer[i].pc = "open" /\ installer[i].fd = 0 /\ UNCHANGED <<latest, origin>>
  BY DEF B!Extract, Holding
<1>2. CASE path["tmp"] = 0
  BY <1>1, <1>2, EndKeepsBinary DEF B!Extract
<1>3. CASE path["tmp"] # 0
  <2>1. PICK f :
          /\ f = B!Opened("install")
          /\ path' = [path EXCEPT !["install"] = f]
          /\ data' = [data EXCEPT ![f] = <<>>]
          /\ installer' = [installer EXCEPT ![i].pc = "extract", ![i].fd = f, ![i].offset = 0,
                               ![i].source = path["tmp"]]
    BY <1>3 DEF B!Extract, B!Target
  <2>. DEFINE r == [installer[i] EXCEPT !.pc = "extract", !.fd = f, !.offset = 0,
                                        !.source = path["tmp"]]
  <2>2. /\ f \in B!Inodes /\ f # 0
        /\ \A q \in B!Paths : q # "install" => path[q] # f
        /\ path' \in [B!Paths -> Handles]
        /\ Separate(path')
    BY <1>1, <2>1, OpenedName DEF B!Paths
  <2>3. f \in Handles /\ path["tmp"] \in Handles /\ path["bin"] \in Handles
    BY <2>2 DEF FilesTyped, B!Paths, Handles
  <2>4. /\ r \in BinaryJobs /\ r.pc = "extract" /\ r.fd = f /\ r.source = path["tmp"]
        /\ r.offset = 0 /\ r.alone = installer[i].alone /\ r.pure = installer[i].pure
    BY <2>3, BinaryJobsFields DEF BinaryJobs
  <2>5. installer' = [installer EXCEPT ![i] = r]
    BY <2>1
  <2>. HIDE DEF r
  <2>6. /\ installer' \in [Installers -> BinaryJobs] /\ installer'[i] = r
        /\ \A j \in Installers : j # i => installer'[j] = installer[j]
    BY <2>4, <2>5, OneJob
  <2>7. /\ data' \in [B!Inodes -> Seq(Nat)] /\ data'[f] = <<>>
        /\ \A m \in B!Inodes : m # f => data'[m] = data[m]
    BY <2>1, <2>2, EmptyFile DEF FilesTyped
  <2>8. FilesTyped'
    BY <1>1, <2>2, <2>6, <2>7 DEF FilesTyped
  <2>9. /\ path'["install"] = f /\ path'["bin"] = path["bin"] /\ path'["tmp"] = path["tmp"]
        /\ path["bin"] # f /\ path["tmp"] # f
    BY <2>1, <2>2 DEF FilesTyped, B!Paths
  <2>10. /\ path["bin"] # 0 => data'[path["bin"]] = data[path["bin"]]
         /\ data'[path["tmp"]] = data[path["tmp"]]
    BY <1>3, <2>3, <2>7, <2>9 DEF Handles
  <2>11. InPlace'
    BY <1>1, <2>4, <2>6, <2>9, <2>10, BinaryUntouched
  <2>12. Holding(i)'
    BY <1>3, <2>2, <2>4, <2>6 DEF Holding
  <2>13. ASSUME installer[i].alone PROVE Knowing(i)'
    <3>1. Got(i, "tmp")
      BY <1>1, <2>13 DEF Knowing
    <3>2. Got(i, "tmp")'
      BY <2>4, <2>6, <2>9, <2>10, <3>1 DEF Got
    <3>. QED
      BY <2>2, <2>4, <2>6, <2>7, <2>9, <3>2, EmptyFile DEF Knowing
  <2>. QED
    BY <1>1, <2>2, <2>4, <2>6, <2>8, <2>11, <2>12, <2>13, BinaryInvNext
<1>. QED
  BY <1>2, <1>3

\* A block of the source as it is, whatever it is.
LEMMA ExtractBlockKeepsBinary ==
  ASSUME BinaryInv, NEW i \in Installers, B!ExtractBlock(i)
  PROVE  BinaryInv'
<1>. DEFINE n == installer[i].fd
            s == data[installer[i].source]
            o == installer[i].offset
            r == [installer[i] EXCEPT !.offset = o + 1]
            w == B!WrittenAt(data[n], o + 1, s[o + 1])
<1>0. /\ FilesTyped /\ Separate(path) /\ InPlace /\ Holding(i)
      /\ installer[i].alone => Knowing(i)
  BY BinaryParts
<1>. USE <1>0
<1>1. /\ installer[i].pc = "extract" /\ n # 0 /\ installer[i].source # 0 /\ o < Len(s)
      /\ installer' = [installer EXCEPT ![i] = r] /\ UNCHANGED <<latest, path, origin>>
      /\ data' = [data EXCEPT ![n] = w]
  BY DEF B!ExtractBlock, Holding
<1>2. /\ n \in B!Inodes /\ installer[i].source \in B!Inodes /\ data[n] \in Seq(Nat)
      /\ s \in Seq(Nat) /\ o \in Nat
  BY <1>1, BinaryJobsFields DEF FilesTyped, Handles
<1>3. w \in Seq(Nat)
  <2>1. s[o + 1] \in Nat /\ o + 1 \in Nat \ {0}
    BY <1>1, <1>2
  <2>. HIDE DEF s, o, n
  <2>. QED
    BY <1>2, <2>1, WrittenTyped
<1>4. /\ r \in BinaryJobs /\ r.pc = "extract" /\ r.fd = n /\ r.source = installer[i].source
      /\ r.offset = o + 1 /\ r.alone = installer[i].alone /\ r.pure = installer[i].pure
  <2>. DEFINE k == o + 1
  <2>1. k \in Nat
    BY <1>2
  <2>. HIDE DEF k
  <2>2. r = [installer[i] EXCEPT !.offset = k]
    BY DEF k
  <2>3. r \in BinaryJobs
    BY <2>1, <2>2, BinaryJobsFields DEF BinaryJobs
  <2>4. /\ r.pc = installer[i].pc /\ r.fd = n /\ r.source = installer[i].source /\ r.offset = k
        /\ r.alone = installer[i].alone /\ r.pure = installer[i].pure
    BY <2>2, BinaryJobsFields DEF BinaryJobs
  <2>. QED
    BY <1>1, <2>3, <2>4 DEF k
<1>. HIDE DEF r
<1>5. /\ installer' \in [Installers -> BinaryJobs] /\ installer'[i] = r
      /\ \A j \in Installers : j # i => installer'[j] = installer[j]
  BY <1>1, <1>4, OneJob
<1>6. /\ data' \in [B!Inodes -> Seq(Nat)] /\ data'[n] = w
      /\ \A m \in B!Inodes : m # n => data'[m] = data[m]
  <2>. HIDE DEF w, n
  <2>. QED
    BY <1>1, <1>2, <1>3 DEF FilesTyped
<1>7. FilesTyped' /\ Separate(path)'
  BY <1>1, <1>5, <1>6 DEF FilesTyped
<1>8. InPlace'
  <2>1. path["bin"] # 0 => path["bin"] \in B!Inodes
    BY DEF FilesTyped, B!Paths, Handles
  <2>2. path["bin"] # 0 => data'[path["bin"]] = data[path["bin"]] \/ n = path["bin"]
    BY <1>6, <2>1
  <2>. QED
    BY <1>1, <1>4, <1>5, <2>2, BinaryUntouched
<1>9. ASSUME installer[i].alone PROVE Knowing(i)'
  <2>1. /\ path["install"] # 0 /\ n = path["install"] /\ installer[i].source = path["tmp"]
        /\ data[n] = [m \in 1 .. o |-> s[m]] /\ Got(i, "tmp")
    BY <1>1, <1>9 DEF Knowing
  <2>2. path["tmp"] # 0 /\ Len(s) = 2 /\ path["tmp"] \in B!Inodes /\ path["tmp"] # n
    BY <1>2, <2>1 DEF Got, Separate, B!Paths
  <2>3. w = [m \in 1 .. o + 1 |-> s[m]]
    <3>. HIDE DEF s, o
    <3>1. B!WrittenAt([m \in 1 .. o |-> s[m]], o + 1, s[o + 1]) = [m \in 1 .. o + 1 |-> s[m]]
      BY <1>2, OneBlockMore
    <3>. QED
      BY <2>1, <3>1
  <2>4. o + 1 <= 2
    BY <1>1, <1>2, <2>2
  <2>5. data'[path["tmp"]] = s /\ data[path["tmp"]] = s
    BY <1>6, <2>1, <2>2
  <2>6. Got(i, "tmp")'
    BY <1>1, <1>4, <1>5, <2>1, <2>5 DEF Got
  <2>7. /\ installer'[i].pc = "extract" /\ installer'[i].fd = n /\ installer'[i].offset = o + 1
        /\ installer'[i].source = path["tmp"] /\ path' = path
    BY <1>1, <1>4, <1>5, <2>1
  <2>8. data'[path["install"]] = [m \in 1 .. o + 1 |-> data'[path["tmp"]][m]]
    <3>. HIDE DEF w, n, o, s
    <3>. QED
      BY <1>6, <2>1, <2>3, <2>5
  <2>. HIDE DEF w, n, o, s
  <2>. QED
    BY <2>1, <2>4, <2>6, <2>7, <2>8 DEF Knowing
<1>10. Holding(i)'
  BY <1>1, <1>4, <1>5 DEF Holding
<1>. QED
  BY <1>1, <1>4, <1>5, <1>7, <1>8, <1>9, <1>10, BinaryInvNext

LEMMA ExtractedKeepsBinary ==
  ASSUME BinaryInv, version \in BOOLEAN, NEW i \in Installers, B!Extracted(i)
  PROVE  BinaryInv'
<1>. DEFINE b == version
            r == [installer[i] EXCEPT !.pc = "stop", !.fd = 0, !.source = 0, !.wasRunning = b]
<1>0. /\ FilesTyped /\ Separate(path) /\ InPlace /\ Holding(i) /\ 0 \in Handles
      /\ installer[i].alone => Knowing(i)
  BY BinaryParts
<1>. USE <1>0
<1>1. /\ installer[i].pc = "extract" /\ UNCHANGED <<latest, data, origin>>
      /\ installer[i].offset \in {2, Len(data[installer[i].source])}
      /\ path' = B!Removed({"tmp"}) /\ installer' = [installer EXCEPT ![i] = r]
  BY DEF B!Extracted, B!Whole
<1>2. b \in BOOLEAN
  OBVIOUS
<1>3. /\ r \in BinaryJobs /\ r.pc = "stop" /\ r.fd = 0 /\ r.source = 0
      /\ r.alone = installer[i].alone /\ r.pure = installer[i].pure
  <2>. HIDE DEF b
  <2>. QED
    BY <1>2, BinaryJobsFields DEF BinaryJobs
<1>. HIDE DEF r, b
<1>4. /\ installer' \in [Installers -> BinaryJobs] /\ installer'[i] = r
      /\ \A j \in Installers : j # i => installer'[j] = installer[j]
  BY <1>1, <1>3, OneJob
<1>5. /\ path' \in [B!Paths -> Handles] /\ Separate(path')
      /\ path'["bin"] = path["bin"] /\ path'["install"] = path["install"]
  BY <1>1, NamesRemoved DEF B!Paths
<1>6. FilesTyped'
  BY <1>1, <1>4, <1>5 DEF FilesTyped
<1>7. InPlace'
  BY <1>1, <1>3, <1>4, <1>5, BinaryUntouched
<1>8. Holding(i)'
  BY <1>3, <1>4 DEF Holding
<1>9. ASSUME installer[i].alone PROVE Knowing(i)'
  <2>. DEFINE s == data[path["tmp"]]
  <2>1. /\ path["install"] # 0 /\ installer[i].source = path["tmp"] /\ Got(i, "tmp")
        /\ data[path["install"]] = [m \in 1 .. installer[i].offset |-> s[m]]
    BY <1>1, <1>9 DEF Knowing
  <2>2. Len(s) = 2 /\ s \in Seq(Nat) /\ installer[i].offset = 2
    BY <1>1, <2>1 DEF Got, FilesTyped, B!Paths, Handles
  <2>3. data[path["install"]] = s
    BY <2>1, <2>2, CopyOfTwo
  <2>4. Got(i, "install")'
    BY <1>1, <1>3, <1>4, <1>5, <2>1, <2>3 DEF Got
  <2>. QED
    BY <1>3, <1>4, <2>4 DEF Knowing
<1>. QED
  BY <1>1, <1>3, <1>4, <1>5, <1>6, <1>7, <1>8, <1>9, BinaryInvNext

LEMMA StopOldKeepsBinary ==
  ASSUME BinaryInv, NEW i \in Installers, B!StopOld(i)
  PROVE  BinaryInv'
<1>. DEFINE r == [installer[i] EXCEPT !.pc = "replace"]
<1>0. /\ FilesTyped /\ Holding(i) /\ (installer[i].alone => Knowing(i))
  BY BinaryParts
<1>1. /\ installer[i].pc = "stop" /\ installer[i].fd = 0 /\ installer[i].source = 0
      /\ UNCHANGED <<latest, data, origin>>
  BY <1>0 DEF B!StopOld, Holding
<1>2. CASE B!Goto(i, "replace") /\ path' = path
  <2>1. installer' = [installer EXCEPT ![i] = r]
    BY <1>2 DEF B!Goto
  <2>2. /\ r \in BinaryJobs /\ r.pc = "replace" /\ r.fd = 0 /\ r.source = 0
        /\ r.alone = installer[i].alone /\ r.pure = installer[i].pure
    BY <1>0, <1>1, BinaryJobsFields DEF BinaryJobs
  <2>. HIDE DEF r
  <2>3. installer'[i] = r
    BY <1>0, <2>1, <2>2, OneJob
  <2>4. Holding(i)'
    BY <2>2, <2>3 DEF Holding
  <2>5. installer[i].alone => Knowing(i)'
    BY <1>0, <1>1, <1>2, <2>2, <2>3 DEF Knowing, Got
  <2>. QED
    BY <1>1, <1>2, <2>1, <2>2, <2>4, <2>5, JobKeepsBinary
<1>3. CASE B!End(i) /\ path' = B!Removed({"install"})
  BY <1>1, <1>3, EndKeepsBinary
<1>. QED
  BY <1>2, <1>3 DEF B!StopOld

\* The rename puts in place what an installation knows to be complete, or marks
\* the binary as one that two installations may have written.
LEMMA ReplaceKeepsBinary ==
  ASSUME BinaryInv, NEW i \in Installers, B!Replace(i)
  PROVE  BinaryInv'
<1>. DEFINE r == [installer[i] EXCEPT !.pc = "start"]
<1>0. /\ FilesTyped /\ Separate(path) /\ InPlace /\ Holding(i)
      /\ installer[i].alone => Knowing(i)
  BY BinaryParts
<1>. USE <1>0
<1>1. /\ installer[i].pc = "replace" /\ installer[i].fd = 0 /\ installer[i].source = 0
      /\ UNCHANGED <<latest, data>> /\ installer' = [installer EXCEPT ![i] = r]
  BY DEF B!Replace, B!Goto, Holding
<1>2. /\ r \in BinaryJobs /\ r.pc = "start" /\ r.fd = 0 /\ r.source = 0
      /\ r.alone = installer[i].alone
  BY <1>1, BinaryJobsFields DEF BinaryJobs
<1>. HIDE DEF r
<1>3. /\ installer' \in [Installers -> BinaryJobs] /\ installer'[i] = r
      /\ \A j \in Installers : j # i => installer'[j] = installer[j]
  BY <1>1, <1>2, OneJob
<1>4. Holding(i)' /\ Knowing(i)'
  BY <1>2, <1>3 DEF Holding, Knowing
<1>5. CASE path["install"] = 0
  <2>1. UNCHANGED <<path, origin>>
    BY <1>5 DEF B!Replace, B!Target
  <2>. QED
    BY <1>1, <1>2, <1>4, <2>1, JobKeepsBinary
<1>6. CASE path["install"] # 0
  <2>1. /\ path' = [path EXCEPT !["bin"] = path["install"], !["install"] = 0]
        /\ origin' = B!OriginOf(installer[i])
    BY <1>6 DEF B!Replace, B!Target
  <2>2. path' \in [B!Paths -> Handles] /\ Separate(path')
    BY <2>1, NameMoved DEF B!Paths
  <2>3. path'["bin"] = path["install"]
    BY <2>1 DEF FilesTyped, B!Paths
  <2>4. FilesTyped'
    BY <1>1, <1>3, <2>1, <2>2 DEF FilesTyped, B!OriginOf, B!Origins
  <2>5. InPlace'
    <3>1. CASE ~installer[i].alone
      BY <2>1, <3>1 DEF InPlace, B!OriginOf
    <3>2. CASE installer[i].alone
      <4>1. Got(i, "install")
        BY <1>1, <3>2 DEF Knowing
      <4>2. \A j \in Installers : j # i => installer[j].pc = "none"
        BY <3>2 DEF BinaryInv, Installing, Alone
      <4>3. \A j \in Installers : installer'[j].fd = 0
        BY <1>2, <1>3, <4>2, BinaryParts DEF Holding
      <4>4. origin' = "clean" => B!IsWhole(data[path["install"]])
        BY <2>1, <3>2, <4>1 DEF Got, B!OriginOf
      <4>. QED
        BY <1>1, <2>3, <4>1, <4>3, <4>4 DEF InPlace, Got
    <3>. QED
      BY <3>1, <3>2
  <2>. QED
    BY <1>1, <1>2, <1>3, <1>4, <2>2, <2>4, <2>5, BinaryInvNext
<1>. QED
  BY <1>5, <1>6

LEMMA CrashKeepsBinary ==
  ASSUME BinaryInv, B!Crash
  PROVE  BinaryInv'
<1>1. installer' = [i \in Installers |-> B!NoJob] /\ UNCHANGED <<latest, path, data, origin>>
  BY DEF B!Crash
<1>2. FilesTyped' /\ Separate(path)'
  BY <1>1, NoJobIsJob DEF BinaryInv, FilesTyped
<1>3. InPlace'
  BY <1>1, NoJobIsJob DEF BinaryInv, InPlace
<1>4. \A i \in Installers : Installing(i)'
  BY <1>1, NoJobIsJob DEF Installing, Holding, Alone
<1>. QED
  BY <1>2, <1>3, <1>4 DEF BinaryInv

\* What leaves the names, the files and the installations as they are.
LEMMA FilesKept ==
  ASSUME BinaryInv, latest' \in B!Versions, UNCHANGED <<path, data, installer, origin>>
  PROVE  BinaryInv'
BY DEF BinaryInv, FilesTyped, InPlace, Installing, Holding, Alone, Knowing, Got

LEMMA BinaryStep ==
  ASSUME BinaryInv, version \in BOOLEAN, B!Next
  PROVE  BinaryInv'
<1>1. latest \in B!Versions
  BY DEF BinaryInv, FilesTyped
<1>2. ASSUME NEW i \in Installers, B!ExtractFails(i) PROVE BinaryInv'
  BY <1>2, EndKeepsBinary DEF B!ExtractFails
<1>3. ASSUME NEW i \in Installers, B!StartNew(i) PROVE BinaryInv'
  BY <1>3, EndKeepsBinary DEF B!StartNew
<1>4. CASE B!StartStop
  BY <1>1, <1>4, FilesKept DEF B!StartStop
<1>5. CASE B!Release
  <2>1. latest' \in B!Versions
    BY <1>1, <1>5, BoundsAssumption DEF B!Release, B!Versions
  <2>. QED
    BY <1>5, <2>1, FilesKept DEF B!Release
<1>. QED
  BY <1>2, <1>3, <1>4, <1>5, BeginKeepsBinary, RequestKeepsBinary, CopyKeepsBinary,
     CopiedKeepsBinary, AttemptFailsKeepsBinary, DownloadedKeepsBinary, ExtractKeepsBinary,
     ExtractBlockKeepsBinary, ExtractedKeepsBinary, StopOldKeepsBinary, ReplaceKeepsBinary,
     CrashKeepsBinary DEF B!Next

\* The sidecar runs or does not.
LEMMA SidecarRuns ==
  ASSUME version \in BOOLEAN, B!Next
  PROVE  version' \in BOOLEAN
BY DEF B!Next, B!Begin, B!Request, B!Copy, B!Copied, B!AttemptFails, B!Downloaded, B!Extract,
       B!ExtractBlock, B!ExtractFails, B!Extracted, B!StopOld, B!Replace, B!StartNew,
       B!StartStop, B!Release, B!Crash

BinarySafe == BinaryInv /\ version \in BOOLEAN

LEMMA BinaryFirst == ASSUME B!Init PROVE BinarySafe
<1>1. /\ latest = 1 /\ path = [p \in B!Paths |-> 0] /\ data = [n \in B!Inodes |-> <<>>]
      /\ installer = [i \in Installers |-> B!NoJob] /\ origin = "clean" /\ version = FALSE
  BY DEF B!Init
<1>2. <<>> \in Seq(Nat) /\ 1 \in B!Versions /\ 0 \in Handles
  BY BoundsAssumption DEF B!Versions, Handles
<1>3. FilesTyped
  BY <1>1, <1>2, NoJobIsJob DEF FilesTyped, B!Origins
<1>4. Separate(path) /\ InPlace
  BY <1>1 DEF Separate, InPlace, B!Paths
<1>5. \A i \in Installers : Installing(i)
  BY <1>1, NoJobIsJob DEF Installing, Holding, Alone
<1>. QED
  BY <1>1, <1>3, <1>4, <1>5 DEF BinaryInv, BinarySafe

LEMMA BinaryKept ==
  ASSUME BinarySafe, B!Next \/ UNCHANGED binary
  PROVE  BinarySafe'
<1>1. CASE B!Next
  BY <1>1, BinaryStep, SidecarRuns DEF BinarySafe
<1>2. CASE UNCHANGED binary
  <2>1. UNCHANGED <<latest, path, data, version, installer, origin>>
    BY <1>2 DEF binary
  <2>2. latest \in B!Versions
    BY DEF BinarySafe, BinaryInv, FilesTyped
  <2>. QED
    BY <2>1, <2>2, FilesKept DEF BinarySafe
<1>. QED
  BY <1>1, <1>2

(***************************************************************************)
(* However many installations are asked for, and wherever one fails or the *)
(* program stops: a binary that was put in place by an installation that   *)
(* ran alone is complete, and of one version when that installation began  *)
(* its download itself (InstallBinary and its callees, binary.go:100-446). *)
(***************************************************************************)
THEOREM BinaryStaysWhole == HostSpec => []BinaryIsWhole
<1>1. HostInit => BinarySafe
  BY BinaryFirst DEF HostInit
<1>2. BinarySafe /\ [HostNext]_<<part, vars, connection, log, config, binary, login, socket>>
        => BinarySafe'
  BY BinaryKept DEF HostNext
<1>3. BinarySafe => BinaryIsWhole
  BY DEF BinarySafe, BinaryInv, InPlace, BinaryIsWhole, B!BinaryIsWhole, B!Whole
<1>. QED
  BY <1>1, <1>2, <1>3, PTL DEF HostSpec
-----------------------------------------------------------------------------
(***************************************************************************)
(* The login process (Login), for any number of logins and of stops.  The  *)
(* invariant says who may be alive: the login that the manager remembers   *)
(* is the only one that has not been waited for, and the only one whose    *)
(* output is still read.                                                   *)
(***************************************************************************)
\* A login that has not been waited for, or is still read, is remembered, and
\* it is the one whose provider is shown.
LoginOwned ==
    /\ \A l \in A!Logins : process[l] \in {"alive", "dead"} => authCmd = l
    /\ \A l \in reading : process[l] \in {"alive", "dead"}
    /\ authCmd # A!None => shown = authCmd
    /\ output \subseteq {shown}

LoginInv == A!TypeOK /\ LoginOwned

\* None is no login.
LEMMA NoneIsNoLogin == A!None \notin A!Logins
  BY DEF A!None, A!Logins

\* The invariant holds when the program starts.
LEMMA LoginInit == A!Init => LoginInv
  BY NoneIsNoLogin DEF A!Init, LoginInv, A!TypeOK, LoginOwned

\* A login starts only when no other is remembered.
LEMMA LoginStarts == LoginInv /\ A!StartLogin => LoginInv'
<1> SUFFICES ASSUME LoginInv, A!StartLogin PROVE LoginInv'
  OBVIOUS
<1>1. PICK l \in A!Logins :
        /\ authCmd = A!None /\ process[l] = "unborn"
        /\ authCmd' = l /\ shown' = l /\ output' = {}
        /\ process' = [process EXCEPT ![l] = "alive"] /\ reading' = reading \cup {l}
        /\ UNCHANGED target
  BY DEF A!StartLogin
<1>3. \A m \in A!Logins : process[m] \notin {"alive", "dead"}
  BY <1>1, NoneIsNoLogin DEF LoginInv, LoginOwned
<1>4. reading = {}
  BY <1>3 DEF LoginInv, LoginOwned, A!TypeOK
<1>5. A!TypeOK'
  BY <1>1 DEF LoginInv, A!TypeOK
<1>6. LoginOwned'
  <2>1. \A m \in A!Logins : process'[m] \in {"alive", "dead"} => m = l
    BY <1>1, <1>3 DEF LoginInv, A!TypeOK
  <2>2. process'[l] = "alive"
    BY <1>1 DEF LoginInv, A!TypeOK
  <2> QED
    BY <2>1, <2>2, <1>1, <1>4 DEF LoginOwned
<1> QED
  BY <1>5, <1>6 DEF LoginInv

\* What is read comes from the remembered login.
LEMMA LoginCollects == LoginInv /\ A!Collect => LoginInv'
  BY NoneIsNoLogin DEF LoginInv, A!TypeOK, LoginOwned, A!Collect

\* A process that ends stays remembered until it was waited for.
LEMMA LoginEnds == LoginInv /\ (A!ProcessEnds \/ A!PipeEnds) => LoginInv'
<1>1. ASSUME LoginInv, NEW l \in A!Logins, process[l] = "alive",
             process' = [process EXCEPT ![l] = "dead"],
             UNCHANGED <<authCmd, shown, output, reading, target>>
      PROVE  LoginInv'
  BY <1>1 DEF LoginInv, A!TypeOK, LoginOwned
<1>2. ASSUME LoginInv, NEW l \in reading, process[l] = "dead",
             reading' = reading \ {l}, process' = [process EXCEPT ![l] = "waited"],
             UNCHANGED <<authCmd, shown, output, target>>
      PROVE  LoginInv'
  <2>1. l \in A!Logins
    BY <1>2 DEF LoginInv, A!TypeOK
  <2> QED
    BY <1>2, <2>1 DEF LoginInv, A!TypeOK, LoginOwned
<1> QED
  BY <1>1, <1>2 DEF A!ProcessEnds, A!PipeEnds

\* Only a login that was waited for is forgotten.
LEMMA LoginForgets == LoginInv /\ A!Forget => LoginInv'
<1> SUFFICES ASSUME LoginInv, NEW l \in A!Logins, process[l] = "waited", authCmd = l,
                    authCmd' = A!None, UNCHANGED <<shown, output, process, reading, target>>
             PROVE  LoginInv'
  BY DEF A!Forget
<1>1. \A m \in A!Logins : process[m] \notin {"alive", "dead"}
  BY DEF LoginInv, LoginOwned
<1> QED
  BY <1>1 DEF LoginInv, A!TypeOK, LoginOwned

\* A stop kills the login it found, or nobody when that one was waited for.
LEMMA LoginStops == ASSUME NEW s \in Stoppers, LoginInv, A!BeginStop(s) \/ A!Kill(s) PROVE LoginInv'
<1>1. CASE A!BeginStop(s)
  BY <1>1 DEF LoginInv, A!TypeOK, LoginOwned, A!BeginStop
<1>2. CASE A!Kill(s)
  <2>1. target[s] \in A!Logins
    BY <1>2 DEF LoginInv, A!TypeOK, A!Kill
  <2>2. A!TypeOK'
    BY <1>2, <2>1 DEF LoginInv, A!TypeOK, A!Kill
  <2>3. \A l \in A!Logins : /\ process'[l] \in {"alive", "dead"} => process[l] \in {"alive", "dead"}
                          /\ process[l] \in {"alive", "dead"} => process'[l] \in {"alive", "dead"}
    BY <1>2, <2>1 DEF LoginInv, A!TypeOK, A!Kill
  <2>4. LoginOwned'
    BY <1>2, <2>3 DEF LoginInv, A!TypeOK, LoginOwned, A!Kill
  <2> QED
    BY <2>2, <2>4 DEF LoginInv
<1> QED
  BY <1>1, <1>2

\* The invariant is inductive.
LEMMA LoginNext == LoginInv /\ (A!Next \/ UNCHANGED login) => LoginInv'
<1> SUFFICES ASSUME LoginInv, A!Next \/ UNCHANGED login PROVE LoginInv'
  OBVIOUS
<1>1. CASE UNCHANGED login
  BY <1>1 DEF LoginInv, A!TypeOK, LoginOwned, login
<1>2. CASE A!Next
  BY <1>2, LoginStarts, LoginCollects, LoginEnds, LoginForgets, LoginStops DEF A!Next
<1> QED
  BY <1>1, <1>2

\* The instance counts as FiniteSets does.
LEMMA LoginCardinality == \A S : A!Cardinality(S) = Cardinality(S)
  BY DEF A!Cardinality, Cardinality

\* At most the remembered login is alive, and the output is that of the
\* provider that is shown.
LEMMA LoginImplies == LoginInv => A!OutputIsOwn
<1> SUFFICES ASSUME LoginInv PROVE A!OutputIsOwn
  OBVIOUS
<1> DEFINE living == {l \in A!Logins : process[l] = "alive"}
<1>1. living \subseteq {authCmd}
  BY DEF LoginInv, LoginOwned
<1>2. IsFiniteSet({authCmd}) /\ Cardinality({authCmd}) = 1
  BY FS_Singleton
<1>3. Cardinality(living) <= 1
  BY <1>1, <1>2, FS_Subset
<1> QED
  BY <1>3, LoginCardinality DEF LoginInv, LoginOwned, A!OutputIsOwn

\* In every behaviour of the host the logins keep the invariant.
LEMMA HostLogin == HostSpec => []LoginInv
<1>1. HostInit => LoginInv
  BY LoginInit DEF HostInit
<1>2. LoginInv /\ [HostNext]_<<part, vars, connection, log, config, binary, login, socket>>
        => LoginInv'
  BY LoginNext DEF HostNext
<1> QED
  BY <1>1, <1>2, PTL DEF HostSpec

\* Manager and processes are well typed for any number of logins and stops.
THEOREM LoginTypes == HostSpec => []A!TypeOK
<1>1. LoginInv => A!TypeOK
  BY DEF LoginInv
<1> QED
  BY HostLogin, <1>1, PTL

\* There is one login process at most, and AuthStatus shows what its provider's
\* login wrote, for any number of logins and stops (StartLogin's refusal while
\* authCmd is set, and the goroutine that clears it after Wait).
THEOREM OneLogin == HostSpec => []OutputIsOwn
<1>1. LoginInv => OutputIsOwn
  BY LoginImplies DEF OutputIsOwn
<1> QED
  BY HostLogin, <1>1, PTL
-----------------------------------------------------------------------------
(***************************************************************************)
(* The types of all seven components, within the bounds of the instance.   *)
(* A file of the log never holds more than MaxSize events, an archive and  *)
(* a binary never more than twice their size.                              *)
(***************************************************************************)
\* What the files of a disk hold.
Fits(d) ==
  \A f \in R!Files : Len(d[f].events) <= MaxSize /\ InFile(d, f) \subseteq R!Events

LogBounds ==
  /\ now <= MaxDay /\ events <= MaxEvents
  /\ kept \subseteq R!Events /\ pending \in R!Events /\ Fits(disk)

\* Cleaning up and opening leave the files within their size.
LEMMA FitsAbsent ==
  ASSUME NEW d, NEW f, d[f].events = <<>>
  PROVE  Len(d[f].events) = 0 /\ InFile(d, f) = {}
<1>1. R!ToSet(<<>>) = {}
  BY AbsentFile
<1>2. QED
  BY <1>1 DEF InFile

LEMMA FitsOpened ==
  ASSUME now \in Nat, NEW d, Disk(d), Fits(d)
  PROVE  Fits(R!Opened(d))
<1> DEFINE o == R!Opened(d)
<1>1. /\ \A f \in R!Files : InFile(o, f) = InFile(d, f)
      /\ \A f \in R!Files : f # 0 => o[f] = d[f]
      /\ d[0].exists => o = d
      /\ ~d[0].exists => o[0].events = <<>>
  BY OpenedFile
<1> HIDE DEF o
<1>2. MaxSize \in Nat
  BY BoundsAssumption
<1>3. \A f \in R!Files : Len(o[f].events) <= MaxSize
  <2>1. o[0].events = <<>> => Len(o[0].events) <= MaxSize
    BY <1>2, FitsAbsent
  <2>2. QED
    BY <1>1, <2>1 DEF Fits
<1>4. Fits(o)
  BY <1>1, <1>3 DEF Fits
<1>5. QED
  BY <1>4 DEF o

LEMMA FitsCleaned ==
  ASSUME now \in Nat, NEW d, Disk(d), Fits(d), NEW c \in R!Cleanups(d)
  PROVE  Fits(c)
<1>1. /\ \A f \in R!Files : c[f] = d[f] \/ c[f] = R!Absent
      /\ \A f \in R!Files : InFile(c, f) \subseteq InFile(d, f)
  BY CleanedFiles
<1>2. Len(R!Absent.events) <= MaxSize
  BY BoundsAssumption, AbsentFile
<1>3. QED
  BY <1>1, <1>2 DEF Fits

\* An event of today is written to a file that has room.
LEMMA FitsWritten ==
  ASSUME now \in Nat, NEW d, Disk(d), Fits(d), d[0].exists, Len(d[0].events) < MaxSize,
         NEW e \in R!Events, R!Write(d, e), kept \subseteq R!Events
  PROVE  Fits(disk') /\ kept' \subseteq R!Events
<1>1. kept' \subseteq R!Events
  BY DEF R!Write
<1>2. CASE e = R!Nobody
  BY <1>1, <1>2 DEF R!Write
<1>3. CASE e # R!Nobody
  <2>1. disk' = [d EXCEPT ![0].events = Append(@, e), ![0].mtime = now]
    BY <1>3 DEF R!Write
  <2>2. e \in LogEvents
    BY BoundsAssumption DEF R!Events, LogEvents
  <2>3. /\ disk'[0].events = Append(d[0].events, e)
        /\ \A f \in R!Files : f # 0 => disk'[f] = d[f]
    BY <2>1, <2>2, WrittenFile
  <2>4. d[0].events \in Seq(LogEvents)
    BY FileFacts, FileNumbers
  <2>5. Len(disk'[0].events) = Len(d[0].events) + 1 /\ Len(d[0].events) \in Nat
    BY <2>2, <2>3, <2>4
  <2>6. Len(disk'[0].events) <= MaxSize
    BY <2>5, BoundsAssumption
  <2>7. InFile(disk', 0) = InFile(d, 0) \cup {e}
    BY <2>2, <2>3, <2>4, EventsIn DEF InFile
  <2>8. InFile(disk', 0) \subseteq R!Events
    BY <2>7, FileNumbers DEF Fits
  <2>9. \A f \in R!Files : f # 0 => InFile(disk', f) = InFile(d, f)
    BY <2>3 DEF InFile
  <2>10. Fits(disk')
    BY <2>3, <2>6, <2>8, <2>9 DEF Fits
  <2>11. QED
    BY <1>1, <2>10
<1>4. QED
  BY <1>2, <1>3

LEMMA TodaysEvent ==
  ASSUME LogInv, LogBounds, events < MaxEvents
  PROVE  [n |-> events + 1, day |-> now] \in R!Events
<1>1. events \in Nat /\ now \in Nat /\ now <= MaxDay
  BY DEF LogInv, LogTyped, LogBounds
<1>2. events + 1 \in 0 .. MaxEvents /\ now \in 0 .. MaxDay
  BY <1>1, BoundsAssumption
<1>3. QED
  BY <1>2 DEF R!Events

LEMMA NobodyFits == R!Nobody \in R!Events
<1>1. 0 \in 0 .. MaxEvents /\ 0 \in 0 .. MaxDay
  BY BoundsAssumption
<1>2. QED
  BY <1>1 DEF R!Nobody, R!Events

LEMMA LogBoundsNext ==
  ASSUME LogInv, LogBounds, R!Next \/ UNCHANGED log
  PROVE  LogBounds'
<1>1. /\ now \in Nat /\ events \in Nat /\ Disk(disk) /\ Fits(disk)
      /\ now <= MaxDay /\ events <= MaxEvents
      /\ kept \subseteq R!Events /\ pending \in R!Events
  BY DEF LogInv, LogTyped, LogBounds, Contents
<1>2. Disk(R!Opened(disk)) /\ Fits(R!Opened(disk)) /\ R!Opened(disk)[0].exists
  BY <1>1, OpenedFile, FitsOpened
<1>3. ASSUME NEW d \in R!Cleanups(R!Opened(disk))
      PROVE  Disk(d) /\ Fits(d) /\ d[0].exists /\ d[0] = R!Opened(disk)[0]
  BY <1>1, <1>2, CleanedFiles, FitsCleaned
<1>4. CASE UNCHANGED log
  BY <1>1, <1>4 DEF LogBounds, log, Fits, InFile
<1>5. CASE R!Record
  <2> DEFINE e == [n |-> events + 1, day |-> now]
             age == IF attached THEN oldest ELSE R!AgeOf(R!Opened(disk))
  <2>1. events < MaxEvents /\ events' = events + 1 /\ now' = now
    BY <1>5 DEF R!Record
  <2>2. events' <= MaxEvents /\ now' <= MaxDay
    BY <1>1, <2>1, BoundsAssumption
  <2>3. e \in R!Events
    BY <2>1, TodaysEvent
  <2>4. \/ disk' \in R!Cleanups(R!Opened(disk)) /\ R!Free /\ UNCHANGED kept
        \/ \E d \in R!Cleanups(R!Opened(disk)) :
              \/ disk' = d /\ R!Rotate(e, FALSE) /\ UNCHANGED kept
              \/ ~(Len(d[0].events) >= MaxSize) /\ R!Write(d, e) /\ R!Free
    BY <1>5 DEF R!Record
  <2> HIDE DEF e
  <2>5. CASE disk' \in R!Cleanups(R!Opened(disk)) /\ R!Free /\ UNCHANGED kept
    <3>1. Fits(disk') /\ kept' \subseteq R!Events /\ pending' \in R!Events
      BY <1>1, <1>3, <2>5, NobodyFits DEF R!Free
    <3>2. QED
      BY <2>2, <3>1 DEF LogBounds, Fits, InFile
  <2>6. ASSUME NEW d \in R!Cleanups(R!Opened(disk)), disk' = d, R!Rotate(e, FALSE), UNCHANGED kept
        PROVE  LogBounds'
    <3>1. Fits(disk') /\ kept' \subseteq R!Events /\ pending' \in R!Events
      BY <1>1, <1>3, <2>3, <2>6 DEF R!Rotate
    <3>2. QED
      BY <2>2, <3>1 DEF LogBounds, Fits, InFile
  <2>7. ASSUME NEW d \in R!Cleanups(R!Opened(disk)), ~(Len(d[0].events) >= MaxSize),
               R!Write(d, e), R!Free
        PROVE  LogBounds'
    <3>1. d[0].events \in Seq(LogEvents)
      BY <1>3, FileFacts, FileNumbers
    <3>2. Len(d[0].events) \in Nat
      BY <3>1
    <3>3. Len(d[0].events) < MaxSize
      BY <2>7, <3>2, BoundsAssumption
    <3>4. Fits(disk') /\ kept' \subseteq R!Events
      BY <1>1, <1>3, <2>3, <2>7, <3>3, FitsWritten
    <3>5. pending' \in R!Events
      BY <2>7, NobodyFits DEF R!Free
    <3>6. QED
      BY <2>2, <3>4, <3>5 DEF LogBounds, Fits, InFile
  <2>8. QED
    BY <2>4, <2>5, <2>6, <2>7
<1>6. CASE R!Maintain
  <2>1. Fits(disk')
    BY <1>1, <1>6, FitsCleaned DEF R!Maintain
  <2>2. now' = now /\ events' = events /\ kept' = kept /\ pending' \in R!Events
    BY <1>6, NobodyFits DEF R!Maintain, R!Rotate, R!Free
  <2>3. QED
    BY <1>1, <2>1, <2>2 DEF LogBounds, Fits, InFile
<1>7. CASE R!RotationFails \/ R!Stops
  <2>1. UNCHANGED <<now, events, kept, disk>> /\ pending' \in R!Events
    BY <1>7, NobodyFits DEF R!RotationFails, R!Stops, R!Free
  <2>2. QED
    BY <1>1, <2>1 DEF LogBounds, Fits, InFile
<1>8. CASE R!Day
  <2>1. UNCHANGED <<events, kept, disk, pending>> /\ now' <= MaxDay
    BY <1>1, <1>8, BoundsAssumption DEF R!Day
  <2>2. QED
    BY <1>1, <2>1 DEF LogBounds, Fits, InFile
<1>9. CASE R!Move
  <2>1. UNCHANGED <<now, events, kept, pending>>
    BY <1>9 DEF R!Move
  <2>2. backupNo \in R!Files
    BY DEF LogInv, LogTyped
  <2>3. \A f \in R!Files : disk'[f] \in {R!Absent, disk[backupNo], disk[f]}
    BY <1>9 DEF R!Move
  <2>4. Len(R!Absent.events) <= MaxSize /\ R!ToSet(R!Absent.events) = {}
    BY BoundsAssumption, AbsentFile
  <2>5. Fits(disk')
    BY <1>1, <2>2, <2>3, <2>4 DEF Fits, InFile
  <2>6. QED
    BY <1>1, <2>1, <2>5 DEF LogBounds, Fits, InFile
<1>10. CASE R!Stamp
  <2>1. UNCHANGED <<now, events, kept, pending>> /\ disk' = [disk EXCEPT ![1].mtime = oldest]
    BY <1>10 DEF R!Stamp
  <2>2. \A f \in R!Files : disk'[f].events = disk[f].events
    BY <1>1, <2>1 DEF Disk, LogFiles
  <2>3. Fits(disk')
    BY <1>1, <2>2 DEF Fits, InFile
  <2>4. QED
    BY <1>1, <2>1, <2>3 DEF LogBounds, Fits, InFile
<1>11. CASE R!Reopen
  <2>1. ~disk[0].exists /\ UNCHANGED <<now, events>> /\ R!Free
    BY <1>11 DEF R!Reopen, LogInv, Rotation
  <2>2. PICK d \in R!Cleanups(R!Opened(disk)) : R!Write(d, pending)
    BY <1>11 DEF R!Reopen
  <2>3. d[0].events = <<>>
    BY <1>1, <1>3, <2>1, OpenedFile
  <2>4. Len(d[0].events) < MaxSize
    BY <2>3, FitsAbsent, BoundsAssumption
  <2>5. Fits(disk') /\ kept' \subseteq R!Events
    BY <1>1, <1>3, <2>2, <2>4, FitsWritten
  <2>6. pending' \in R!Events
    BY <2>1, NobodyFits DEF R!Free
  <2>7. QED
    BY <1>1, <2>1, <2>5, <2>6 DEF LogBounds, Fits, InFile
<1>12. CASE R!Start
  <2>1. /\ UNCHANGED <<now, events, kept>> /\ pending' \in R!Events
        /\ disk' \in R!Cleanups(R!Opened(disk))
    BY <1>12, NobodyFits DEF R!Start, R!Rotate, R!Free
  <2>2. QED
    BY <1>1, <1>3, <2>1 DEF LogBounds, Fits, InFile
<1>13. CASE R!Removed
  <2>1. /\ UNCHANGED <<now, events, pending>> /\ kept' \subseteq kept
        /\ disk' = [disk EXCEPT ![0] = R!Absent]
    BY <1>13 DEF R!Removed
  <2>2. \A f \in R!Files : disk'[f] \in {R!Absent, disk[f]}
    BY <1>1, <2>1 DEF Disk
  <2>3. Len(R!Absent.events) <= MaxSize /\ R!ToSet(R!Absent.events) = {}
    BY BoundsAssumption, AbsentFile
  <2>4. Fits(disk')
    BY <1>1, <2>2, <2>3 DEF Fits, InFile
  <2>5. QED
    BY <1>1, <2>1, <2>4 DEF LogBounds, Fits, InFile
<1>14. QED
  BY <1>4, <1>5, <1>6, <1>7, <1>8, <1>9, <1>10, <1>11, <1>12, <1>13 DEF R!Next

LEMMA LogBoundsInit == ASSUME R!Init PROVE LogBounds
<1>1. now = 0 /\ events = 0 /\ kept = {} /\ pending = R!Nobody /\ disk = [f \in R!Files |-> R!Absent]
  BY DEF R!Init
<1>2. Len(R!Absent.events) <= MaxSize /\ R!ToSet(R!Absent.events) = {}
  BY BoundsAssumption, AbsentFile
<1>3. Fits(disk)
  BY <1>1, <1>2 DEF Fits, InFile
<1>4. QED
  BY <1>1, <1>3, NobodyFits, BoundsAssumption DEF LogBounds

\* A sequence is one of the things that are in it.
LEMMA SequenceOfItsItems ==
  ASSUME NEW S, NEW T, NEW s \in Seq(S), R!ToSet(s) \subseteq T
  PROVE  s \in Seq(T)
<1>1. Len(s) \in Nat /\ s = [n \in 1 .. Len(s) |-> s[n]]
  OBVIOUS
<1>2. \A n \in 1 .. Len(s) : s[n] \in T
  BY DEF R!ToSet
<1>3. s \in [1 .. Len(s) -> T]
  BY <1>1, <1>2
<1>4. QED
  BY <1>1, <1>3

LEMMA LogWellTyped == ASSUME LogInv, LogBounds PROVE R!TypeOK
<1>1. /\ now \in 0 .. MaxDay /\ oldest \in 0 .. MaxDay /\ events \in 0 .. MaxEvents
      /\ logging \in BOOLEAN /\ attached \in BOOLEAN /\ starting \in BOOLEAN
      /\ rotation \in {"free", "move", "stamp", "reopen"} /\ backupNo \in R!Files
      /\ pending \in R!Events /\ kept \subseteq R!Events
  BY BoundsAssumption DEF LogInv, LogTyped, LogBounds
<1>2. ASSUME NEW f \in R!Files
      PROVE  /\ disk[f].exists \in BOOLEAN /\ disk[f].mtime \in 0 .. MaxDay
             /\ disk[f].events \in Seq(R!Events) /\ Len(disk[f].events) <= MaxSize
  <2>1. /\ Disk(disk) /\ now \in Nat /\ now <= MaxDay
        /\ Len(disk[f].events) <= MaxSize /\ InFile(disk, f) \subseteq R!Events
    BY DEF LogInv, LogTyped, LogBounds, Contents, Fits
  <2>2. /\ disk[f].exists \in BOOLEAN /\ disk[f].mtime \in Nat
        /\ disk[f].events \in Seq(LogEvents) /\ disk[f].mtime <= now
    BY <2>1, FileFacts
  <2>3. disk[f].mtime \in 0 .. MaxDay
    BY <2>1, <2>2, BoundsAssumption
  <2>4. disk[f].events \in Seq(R!Events)
    BY <2>1, <2>2, SequenceOfItsItems DEF InFile
  <2>5. QED
    BY <2>1, <2>2, <2>3, <2>4
<1>3. QED
  BY <1>1, <1>2 DEF R!TypeOK

\* What the blocks of a file are, and how many.
Numbers == 0 .. MaxVersion
Blocks  == {b \in Seq(Numbers) : Len(b) <= 3}

\* Sequences over a set, as functions.
LEMMA SequenceItems ==
  ASSUME NEW S, NEW s \in Seq(S)
  PROVE  /\ Len(s) \in Nat /\ \A n \in 1 .. Len(s) : s[n] \in S
         /\ R!ToSet(s) \subseteq S /\ B!ToSet(s) \subseteq S
         /\ \A v \in S : Append(s, v) \in Seq(S)
BY DEF R!ToSet, B!ToSet

LEMMA SequenceOfFunction ==
  ASSUME NEW S, NEW k \in Nat, NEW f \in [1 .. k -> S]
  PROVE  f \in Seq(S) /\ Len(f) = k
<1>1. f \in Seq(S)
  OBVIOUS
<1>2. QED
  BY <1>1

BinaryBounds ==
  /\ installs \in 0 .. MaxInstalls /\ \A n \in B!Inodes : data[n] \in Blocks
  /\ \A i \in Installers : installer[i].attempt \in 0 .. Retries /\ installer[i].offset \in 0 .. 3

\* A block that is written among the first three.
LEMMA BlockWritten ==
  ASSUME NEW b \in Blocks, NEW at \in 1 .. 3, NEW v \in Numbers
  PROVE  B!WrittenAt(b, at, v) \in Blocks
<1> DEFINE k == IF Len(b) < at THEN at ELSE Len(b)
           g == [n \in 1 .. k |-> IF n = at THEN v ELSE IF n <= Len(b) THEN b[n] ELSE 0]
<1>1. b \in Seq(Numbers) /\ Len(b) <= 3
  BY DEF Blocks
<1>2. Len(b) \in Nat /\ \A n \in 1 .. Len(b) : b[n] \in Numbers
  BY <1>1, SequenceItems
<1>3. B!Max({Len(b), at}) = k
  BY <1>2, LargerOf
<1>4. k \in Nat /\ k <= 3 /\ 0 \in Numbers
  BY <1>1, <1>2, BoundsAssumption DEF Numbers
<1>5. g \in [1 .. k -> Numbers]
  BY <1>2, <1>4
<1>6. g \in Seq(Numbers) /\ Len(g) = k
  <2> HIDE DEF g, k
  <2>1. QED
    BY <1>4, <1>5, SequenceOfFunction
<1>7. B!WrittenAt(b, at, v) = g
  BY <1>3 DEF B!WrittenAt
<1> HIDE DEF g, k
<1>8. QED
  BY <1>4, <1>6, <1>7 DEF Blocks

LEMMA ShortIsBlocks ==
  ASSUME NEW b
  PROVE  /\ b \in Seq(Numbers) /\ Len(b) <= 3 => b \in Blocks
         /\ b \in Blocks => b \in Seq(Numbers) /\ Len(b) \in 0 .. 3
<1>1. ASSUME b \in Blocks PROVE b \in Seq(Numbers) /\ Len(b) \in 0 .. 3
  <2>1. b \in Seq(Numbers) /\ Len(b) <= 3
    BY <1>1 DEF Blocks
  <2>2. Len(b) \in Nat
    BY <2>1, SequenceItems
  <2>3. \A l \in Nat : l <= 3 => l \in 0 .. 3
    OBVIOUS
  <2>4. Len(b) \in 0 .. 3
    BY <2>1, <2>2, <2>3, Zenon
  <2>5. QED
    BY <2>1, <2>4, Zenon
<1>2. QED
  BY <1>1 DEF Blocks

LEMMA EmptyIsBlocks == <<>> \in Blocks
<1>1. <<>> \in Seq(Numbers) /\ Len(<<>>) <= 3
  OBVIOUS
<1>2. QED
  BY <1>1 DEF Blocks

\* The job of an installation after one of its steps.
JobFits(i) == installer[i].attempt \in 0 .. Retries /\ installer[i].offset \in 0 .. 3

LEMMA BinaryBoundsNext ==
  ASSUME BinaryBounds, NEW i \in Installers, JobFits(i)',
         \A j \in Installers : j # i => JobFits(j)',
         installs' \in 0 .. MaxInstalls,
         \A n \in B!Inodes : data'[n] \in Blocks
  PROVE  BinaryBounds'
BY DEF BinaryBounds, JobFits

LEMMA EmptyJobFits == B!NoJob.attempt = 0 /\ B!NoJob.offset = 0
BY DEF B!NoJob

LEMMA InstallationBounds ==
  ASSUME BinaryInv, BinaryBounds, NEW i \in Installers,
         \/ B!Begin(i) \/ B!Request(i) \/ B!Copy(i) \/ B!Copied(i) \/ B!AttemptFails(i)
         \/ B!Downloaded(i) \/ B!Extract(i) \/ B!ExtractBlock(i) \/ B!ExtractFails(i)
         \/ B!Extracted(i) \/ B!StopOld(i) \/ B!Replace(i) \/ B!StartNew(i)
  PROVE  BinaryBounds'
<1> DEFINE j == installer[i]
<1>1. /\ installs \in 0 .. MaxInstalls /\ \A n \in B!Inodes : data[n] \in Blocks
      /\ data \in [B!Inodes -> Seq(Nat)] /\ j \in BinaryJobs
      /\ installer \in [Installers -> BinaryJobs]
      /\ path \in [B!Paths -> Handles]
      /\ j.attempt \in 0 .. Retries /\ j.offset \in 0 .. 3
      /\ \A k \in Installers : JobFits(k)
  BY DEF BinaryInv, FilesTyped, BinaryBounds, JobFits
<1>2. Retries \in Nat /\ Retries > 0
  BY BoundsAssumption
<1>3. Holding(i)
  BY DEF BinaryInv, Installing
<1>4. /\ 0 \in 0 .. Retries /\ 1 \in 0 .. Retries /\ 0 \in 0 .. 3
      /\ \A k \in Installers : installer[k] \in BinaryJobs
  BY <1>1, <1>2
<1>5. ASSUME NEW r, installer' = [installer EXCEPT ![i] = r], r.attempt \in 0 .. Retries,
             r.offset \in 0 .. 3, UNCHANGED installs, \A n \in B!Inodes : data'[n] \in Blocks
      PROVE  BinaryBounds'
  <2>1. JobFits(i)' /\ \A k \in Installers : k # i => JobFits(k)'
    BY <1>1, <1>5 DEF JobFits
  <2>. QED
    BY <1>1, <1>5, <2>1, BinaryBoundsNext
<1>6. ASSUME installer' = [installer EXCEPT ![i] = B!NoJob], UNCHANGED <<data, installs>>
      PROVE  BinaryBounds'
  BY <1>1, <1>4, <1>5, <1>6, EmptyJobFits
<1>7. CASE B!Begin(i)
  <2> DEFINE free == \A k \in Installers : installer[k].pc = "none"
             mine == [B!NoJob EXCEPT !.pc = "request", !.version = latest, !.attempt = 1,
                                     !.alone = free]
  <2>1. /\ UNCHANGED data /\ installs < MaxInstalls /\ installs' = installs + 1
        /\ installer' = [k \in Installers |-> IF k = i THEN mine
                                              ELSE [installer[k] EXCEPT !.alone = FALSE]]
    BY <1>7 DEF B!Begin
  <2>2. installs' \in 0 .. MaxInstalls
    <3>1. MaxInstalls \in Nat
      BY BoundsAssumption
    <3>2. installs \in 0 .. MaxInstalls /\ installs < MaxInstalls /\ installs' = installs + 1
      BY <1>1, <2>1
    <3> QED
      BY <3>1, <3>2
  <2>3. mine.attempt = 1 /\ mine.offset = 0
    BY DEF B!NoJob
  <2> HIDE DEF mine
  <2>4. JobFits(i)'
    BY <1>4, <2>1, <2>3 DEF JobFits
  <2>5. ASSUME NEW k \in Installers, k # i PROVE JobFits(k)'
    <3>1. installer'[k] = [installer[k] EXCEPT !.alone = FALSE] /\ installer[k] \in BinaryJobs
      BY <1>4, <2>1, <2>5
    <3>2. installer'[k].attempt = installer[k].attempt /\ installer'[k].offset = installer[k].offset
      BY <3>1 DEF BinaryJobs
    <3> QED
      BY <1>1, <3>2 DEF JobFits
  <2> QED
    BY <1>1, <2>1, <2>2, <2>4, <2>5, BinaryBoundsNext
<1>8. CASE B!Request(i)
  <2> DEFINE n == B!Opened("part")
             size == IF path["part"] = 0 THEN 0 ELSE Len(data[path["part"]])
  <2>1. /\ UNCHANGED installs
        /\ \/ installer' = [installer EXCEPT ![i].pc = "downloaded"] /\ UNCHANGED data
           \/ \E resumes \in BOOLEAN :
                /\ data' = IF resumes /\ size > 0 THEN data ELSE [data EXCEPT ![n] = <<>>]
                /\ installer' = [installer EXCEPT ![i].pc = "copy", ![i].fd = n,
                                   ![i].offset = IF resumes /\ size > 0 THEN size ELSE 0,
                                   ![i].pure = IF resumes /\ size > 0 THEN @ ELSE TRUE]
    BY <1>8 DEF B!Request, B!Goto
  <2>2. CASE installer' = [installer EXCEPT ![i].pc = "downloaded"] /\ UNCHANGED data
    <3> DEFINE r == [j EXCEPT !.pc = "downloaded"]
    <3>1. r.attempt = j.attempt /\ r.offset = j.offset
      BY <1>1 DEF BinaryJobs
    <3>2. installer' = [installer EXCEPT ![i] = r]
      BY <2>2
    <3> HIDE DEF r
    <3> QED
      BY <1>1, <1>5, <2>1, <2>2, <3>1, <3>2
  <2>3. ASSUME NEW resumes \in BOOLEAN,
               data' = IF resumes /\ size > 0 THEN data ELSE [data EXCEPT ![n] = <<>>],
               installer' = [installer EXCEPT ![i].pc = "copy", ![i].fd = n,
                               ![i].offset = IF resumes /\ size > 0 THEN size ELSE 0,
                               ![i].pure = IF resumes /\ size > 0 THEN @ ELSE TRUE]
        PROVE  BinaryBounds'
    <3> DEFINE o == IF resumes /\ size > 0 THEN size ELSE 0
               r == [j EXCEPT !.pc = "copy", !.fd = n, !.offset = o,
                              !.pure = IF resumes /\ size > 0 THEN @ ELSE TRUE]
    <3>1. size \in 0 .. 3
      <4>1. path["part"] # 0 => data[path["part"]] \in Blocks
        BY <1>1 DEF B!Paths, Handles
      <4>2. path["part"] # 0 => Len(data[path["part"]]) \in 0 .. 3
        BY <4>1, ShortIsBlocks
      <4> QED
        BY <4>2
    <3>2. o \in 0 .. 3
      BY <3>1
    <3>3. installer' = [installer EXCEPT ![i] = r]
      BY <2>3
    <3> HIDE DEF size, n, o
    <3>4. \A m \in B!Inodes : data'[m] \in Blocks
      BY <1>1, <2>3, EmptyIsBlocks
    <3>5. r.attempt = j.attempt /\ r.offset = o
      BY <1>1 DEF BinaryJobs
    <3> HIDE DEF r
    <3> QED
      BY <1>1, <1>5, <2>1, <3>2, <3>3, <3>4, <3>5
  <2> QED
    BY <2>1, <2>2, <2>3
<1>9. CASE B!Copy(i)
  <2> DEFINE n == j.fd
             w == IF Len(data[n]) >= j.offset THEN Append(data[n], j.version)
                  ELSE B!WrittenAt(data[n], j.offset + 1, j.version)
             r == [j EXCEPT !.offset = j.offset + 1]
  <2>1. /\ j.pc = "copy" /\ j.offset < 2 /\ data' = [data EXCEPT ![n] = w]
        /\ Len(data'[n]) <= 3 /\ UNCHANGED installs
        /\ installer' = [installer EXCEPT ![i] = r]
    BY <1>9 DEF B!Copy, B!Whole, B!Longest
  <2>2. n \in B!Inodes /\ j.version \in Numbers
    BY <1>1, <1>3, <2>1, BoundsAssumption
       DEF Holding, BinaryJobs, Handles, Numbers, B!Versions
  <2>3. data[n] \in Blocks /\ data'[n] = w
    BY <1>1, <2>1, <2>2
  <2>4. data[n] \in Seq(Numbers)
    BY <2>3 DEF Blocks
  <2>5. j.offset + 1 \in 1 .. 3 /\ j.offset + 1 \in 0 .. 3
    BY <1>1, <2>1
  <2> DEFINE behind == Len(data[n]) >= j.offset
  <2>6. ASSUME behind PROVE data'[n] \in Blocks
    <3>1. w = Append(data[n], j.version)
      BY <2>6
    <3>2. w \in Seq(Numbers)
      BY <2>2, <2>4, <3>1, SequenceItems
    <3>3. data'[n] \in Seq(Numbers) /\ Len(data'[n]) <= 3
      BY <2>1, <2>3, <3>2
    <3> QED
      BY <3>3, ShortIsBlocks
  <2>7. ASSUME ~behind PROVE data'[n] \in Blocks
    <3>1. w = B!WrittenAt(data[n], j.offset + 1, j.version)
      BY <2>7
    <3>2. w \in Blocks
      BY <2>2, <2>3, <2>5, <3>1, BlockWritten
    <3> HIDE DEF w, n
    <3> QED
      BY <2>3, <3>2
  <2>8. data'[n] \in Blocks
    <3> HIDE DEF w, n, behind
    <3> QED
      BY <2>6, <2>7
  <2> HIDE DEF w, n
  <2>9. \A m \in B!Inodes : data'[m] \in Blocks
    BY <1>1, <2>1, <2>8
  <2>10. r.attempt = j.attempt /\ r.offset = j.offset + 1
    BY <1>1 DEF BinaryJobs
  <2> HIDE DEF r
  <2> QED
    BY <1>1, <1>5, <2>1, <2>5, <2>9, <2>10
<1>10. CASE B!Copied(i)
  <2> DEFINE r == [j EXCEPT !.pc = "downloaded", !.fd = 0]
  <2>1. installer' = [installer EXCEPT ![i] = r] /\ UNCHANGED <<data, installs>>
    BY <1>10 DEF B!Copied
  <2>2. r.attempt = j.attempt /\ r.offset = j.offset
    BY <1>1 DEF BinaryJobs
  <2> HIDE DEF r
  <2> QED
    BY <1>1, <1>5, <2>1, <2>2
<1>11. CASE B!AttemptFails(i)
  <2> DEFINE r == [j EXCEPT !.pc = "request", !.attempt = j.attempt + 1, !.fd = 0, !.offset = 0]
  <2>1. /\ UNCHANGED <<data, installs>>
        /\ \/ j.attempt < Retries /\ installer' = [installer EXCEPT ![i] = r]
           \/ installer' = [installer EXCEPT ![i] = B!NoJob]
    BY <1>11 DEF B!AttemptFails, B!End
  <2>2. r.attempt = j.attempt + 1 /\ r.offset = 0
    BY <1>1 DEF BinaryJobs
  <2> HIDE DEF r
  <2>3. j.attempt < Retries => j.attempt + 1 \in 0 .. Retries
    BY <1>1, <1>2
  <2> QED
    BY <1>1, <1>4, <1>5, <1>6, <2>1, <2>2, <2>3
<1>12. CASE B!Downloaded(i)
  <2> DEFINE r == [j EXCEPT !.pc = "open", !.version = 0, !.attempt = 0]
  <2>1. /\ UNCHANGED <<data, installs>>
        /\ \/ installer' = [installer EXCEPT ![i] = r]
           \/ installer' = [installer EXCEPT ![i] = B!NoJob]
    BY <1>12 DEF B!Downloaded, B!End
  <2>2. r.attempt = 0 /\ r.offset = j.offset
    BY <1>1 DEF BinaryJobs
  <2> HIDE DEF r
  <2> QED
    BY <1>1, <1>4, <1>5, <1>6, <2>1, <2>2
<1>13. CASE B!Extract(i)
  <2> DEFINE n == B!Opened(B!Target)
             r == [j EXCEPT !.pc = "extract", !.fd = n, !.offset = 0, !.source = path["tmp"]]
  <2>1. /\ UNCHANGED installs
        /\ \/ installer' = [installer EXCEPT ![i] = B!NoJob] /\ UNCHANGED data
           \/ /\ data' = [data EXCEPT ![n] = <<>>]
              /\ installer' = [installer EXCEPT ![i] = r]
    BY <1>13 DEF B!Extract, B!End
  <2> HIDE DEF n
  <2>2. CASE installer' = [installer EXCEPT ![i] = B!NoJob] /\ UNCHANGED data
    BY <1>6, <2>1, <2>2
  <2>3. CASE data' = [data EXCEPT ![n] = <<>>] /\ installer' = [installer EXCEPT ![i] = r]
    <3>1. \A m \in B!Inodes : data'[m] \in Blocks
      BY <1>1, <2>3, EmptyIsBlocks
    <3>2. r.attempt = j.attempt /\ r.offset = 0
      BY <1>1 DEF BinaryJobs
    <3> HIDE DEF r
    <3> QED
      BY <1>1, <1>4, <1>5, <2>1, <2>3, <3>1, <3>2
  <2> QED
    BY <2>1, <2>2, <2>3
<1>14. CASE B!ExtractBlock(i)
  <2> DEFINE n == j.fd
             s == data[j.source]
             o == j.offset + 1
             r == [j EXCEPT !.offset = o]
  <2>1. /\ j.pc = "extract" /\ j.offset < Len(s)
        /\ data' = [data EXCEPT ![n] = B!WrittenAt(data[n], o, s[o])]
        /\ installer' = [installer EXCEPT ![i] = r] /\ UNCHANGED installs
    BY <1>14 DEF B!ExtractBlock
  <2>2. n \in B!Inodes /\ j.source \in B!Inodes
    BY <1>1, <1>3, <2>1 DEF Holding, BinaryJobs, Handles
  <2>3. s \in Seq(Numbers) /\ Len(s) \in 0 .. 3
    BY <1>1, <2>2, ShortIsBlocks
  <2>4. o \in 1 .. 3 /\ o \in 0 .. 3 /\ o \in 1 .. Len(s)
    <3>1. \A k \in 0 .. 3, l \in 0 .. 3 :
            k < l => k + 1 \in 1 .. 3 /\ k + 1 \in 0 .. 3 /\ k + 1 \in 1 .. l
      OBVIOUS
    <3>2. j.offset \in 0 .. 3 /\ j.offset < Len(s)
      BY <1>1, <2>1
    <3> HIDE DEF s, j
    <3> QED
      BY <2>3, <3>1, <3>2
  <2>5. s[o] \in Numbers
    BY <2>3, <2>4, SequenceItems
  <2>6. r.attempt = j.attempt /\ r.offset = o
    BY <1>1 DEF BinaryJobs
  <2> HIDE DEF s, n, o, r
  <2>7. B!WrittenAt(data[n], o, s[o]) \in Blocks
    BY <1>1, <2>2, <2>4, <2>5, BlockWritten
  <2>8. \A m \in B!Inodes : data'[m] \in Blocks
    BY <1>1, <2>1, <2>7
  <2> QED
    BY <1>1, <1>5, <2>1, <2>4, <2>6, <2>8
<1>15. CASE B!ExtractFails(i)
  BY <1>6, <1>15 DEF B!ExtractFails, B!End
<1>16. CASE B!Extracted(i)
  <2> DEFINE r == [j EXCEPT !.pc = "stop", !.fd = 0, !.source = 0, !.wasRunning = version]
  <2>1. installer' = [installer EXCEPT ![i] = r] /\ UNCHANGED <<data, installs>>
    BY <1>16 DEF B!Extracted
  <2>2. r.attempt = j.attempt /\ r.offset = j.offset
    BY <1>1 DEF BinaryJobs
  <2> HIDE DEF r
  <2> QED
    BY <1>1, <1>5, <2>1, <2>2
<1>17. CASE B!StopOld(i)
  <2> DEFINE r == [j EXCEPT !.pc = "replace"]
  <2>1. /\ UNCHANGED <<data, installs>>
        /\ \/ installer' = [installer EXCEPT ![i] = r]
           \/ installer' = [installer EXCEPT ![i] = B!NoJob]
    BY <1>17 DEF B!StopOld, B!Goto, B!End
  <2>2. r.attempt = j.attempt /\ r.offset = j.offset
    BY <1>1 DEF BinaryJobs
  <2> HIDE DEF r
  <2> QED
    BY <1>1, <1>5, <1>6, <2>1, <2>2
<1>18. CASE B!Replace(i)
  <2> DEFINE r == [j EXCEPT !.pc = "start"]
  <2>1. installer' = [installer EXCEPT ![i] = r] /\ UNCHANGED <<data, installs>>
    BY <1>18 DEF B!Replace, B!Goto
  <2>2. r.attempt = j.attempt /\ r.offset = j.offset
    BY <1>1 DEF BinaryJobs
  <2> HIDE DEF r
  <2> QED
    BY <1>1, <1>5, <2>1, <2>2
<1>19. CASE B!StartNew(i)
  BY <1>6, <1>19 DEF B!StartNew, B!End
<1>20. QED
  BY <1>7, <1>8, <1>9, <1>10, <1>11, <1>12, <1>13, <1>14, <1>15, <1>16, <1>17, <1>18, <1>19

LEMMA BinaryBoundsStep ==
  ASSUME BinaryInv, BinaryBounds, B!Next \/ UNCHANGED binary
  PROVE  BinaryBounds'
<1>1. CASE UNCHANGED binary
  BY <1>1 DEF BinaryBounds, binary
<1>2. CASE B!Crash
  <2>1. 0 \in 0 .. Retries /\ 0 \in 0 .. 3
    BY BoundsAssumption
  <2> QED
    BY <1>2, <2>1, EmptyJobFits DEF B!Crash, BinaryBounds
<1>3. CASE B!Release
  BY <1>3 DEF B!Release, BinaryBounds
<1>4. CASE B!StartStop
  BY <1>4 DEF B!StartStop, BinaryBounds
<1>5. QED
  BY <1>1, <1>2, <1>3, <1>4, InstallationBounds DEF B!Next

LEMMA BinaryWellTyped ==
  ASSUME BinarySafe, BinaryBounds
  PROVE  B!TypeOK
<1>1. /\ latest \in B!Versions /\ origin \in B!Origins /\ version \in BOOLEAN
      /\ installs \in 0 .. MaxInstalls /\ path \in [B!Paths -> {0} \cup B!Inodes]
  BY DEF BinarySafe, BinaryInv, FilesTyped, BinaryBounds, Handles
<1>2. ASSUME NEW n \in B!Inodes
      PROVE  Len(data[n]) <= 3 /\ B!ToSet(data[n]) \subseteq 0 .. MaxVersion
  <2>1. data[n] \in Seq(Numbers) /\ Len(data[n]) <= 3
    BY DEF BinaryBounds, Blocks
  <2>2. QED
    BY <2>1, SequenceItems DEF Numbers
<1>3. ASSUME NEW i \in Installers
      PROVE  installer[i].attempt \in 0 .. Retries /\ installer[i].fd \in {0} \cup B!Inodes
  BY BinaryJobsFields DEF BinarySafe, BinaryInv, BinaryBounds, Handles
<1>4. QED
  BY <1>1, <1>2, <1>3 DEF B!TypeOK, B!Whole, B!Longest

\* The seven components are well typed, for any bounds.
THEOREM HostTypes == HostSpec => []TypesOK
<1> DEFINE HInv == IInv /\ LogInv /\ LogBounds /\ ConfigInv /\ BinarySafe /\ BinaryBounds /\ SocketInv
<1>1. HostInit => HInv
  <2> SUFFICES ASSUME HostInit PROVE HInv
    OBVIOUS
  <2>1. Init /\ R!Init /\ C!Init /\ B!Init /\ W!Init
    BY DEF HostInit
  <2>2. BinarySafe
    BY <2>1, BinaryFirst
  <2>3. BinaryBounds
    BY <2>1, EmptyIsBlocks, EmptyJobFits, BoundsAssumption DEF B!Init, BinaryBounds
  <2>4. QED
    BY <2>1, <2>2, <2>3, InitInv, LogInit, LogBoundsInit, ConfigInit, SocketInit
<1>2. HInv /\ [HostNext]_<<part, vars, connection, log, config, binary, login, socket>> => HInv'
  <2> SUFFICES ASSUME HInv,
                      [HostNext]_<<part, vars, connection, log, config, binary, login, socket>>
               PROVE  HInv'
    OBVIOUS
  <2>1. /\ [Next]_vars /\ (R!Next \/ UNCHANGED log) /\ (C!Next \/ UNCHANGED config)
        /\ (B!Next \/ UNCHANGED binary) /\ (W!Next \/ UNCHANGED socket)
    BY DEF HostNext
  <2>2. BinarySafe' /\ BinaryInv
    BY <2>1, BinaryKept DEF BinarySafe
  <2>3. QED
    BY <2>1, <2>2, StepInv, LogNext, LogBoundsNext, ConfigNext, BinaryBoundsStep, SocketNext
<1>3. HInv /\ P!TypeOK /\ A!TypeOK => TypesOK
  <2> SUFFICES ASSUME HInv, P!TypeOK, A!TypeOK PROVE TypesOK
    OBVIOUS
  <2>1. TypeOK
    BY DEF IInv
  <2>2. R!TypeOK
    BY LogWellTyped
  <2>3. C!TypeOK
    BY DEF ConfigInv, ConfigTyped, ConfigJobs, C!TypeOK
  <2>4. B!TypeOK
    BY BinaryWellTyped
  <2>5. W!TypeOK
    BY DEF SocketInv
  <2>6. QED
    BY <2>1, <2>2, <2>3, <2>4, <2>5 DEF TypesOK
<1> HIDE DEF HInv
<1> QED
  BY <1>1, <1>2, <1>3, ConnectionTypes, LoginTypes, PTL DEF HostSpec
=============================================================================
