---------------------------- MODULE SidecarConfig ----------------------------
(***************************************************************************)
(* The configuration of the sidecar: a YAML file that the sidecar's own    *)
(* panel also edits, and a row of the database with the same shared fields *)
(* and the lifecycle switches (internal/handler/cpa.go,                    *)
(* internal/cpa/config_file.go, internal/store/cpa_config.go).  The file   *)
(* is the authority for the shared fields, the row for the switches.       *)
(*                                                                         *)
(* A request reads the row, overlays the file, changes what it names,      *)
(* patches the file and saves the whole row.  Every request writes a value *)
(* of its own, its number.                                                 *)
(***************************************************************************)
EXTENDS Naturals, FiniteSets

CONSTANTS Slots,        \* requests that may run at a time
          Shared,       \* fields of the file: host, port, api_keys, ...
          Switches,     \* fields of the row only: enabled, auto_start
          MaxRequests   \* bound: requests and edits of the panel

Fields  == Shared \cup Switches
Values  == 0 .. MaxRequests      \* 0 is the default
Configs == [Fields -> Values]
File(v) == [state |-> "whole", values |-> v]
NoFile  == [state |-> "missing", values |-> [f \in Shared |-> 0]]
Torn    == [NoFile EXCEPT !.state = "torn"]
NoJob   == [pc |-> "none", id |-> 0, named |-> {}, cfg |-> [f \in Fields |-> 0],
            original |-> NoFile]

VARIABLES row,     \* cpa_config in the database
          file,    \* config.yaml
          backup,  \* config.yaml.zero-api.bak
          lock,    \* configFileMu: the slot that holds it, or "free"
          job,     \* what each slot does
          landed,  \* field -> last edit that reached the file, and by whom
          count

vars == <<row, file, backup, lock, job, landed, count>>

-----------------------------------------------------------------------------
Step(s, pc) == job' = [job EXCEPT ![s].pc = pc]
End(s)      == job' = [job EXCEPT ![s] = NoJob]

\* readCPAFileConfig: what the file says of the shared fields goes over cfg.
Overlaid(cfg) == IF file.state = "missing" THEN cfg
                 ELSE [f \in Fields |-> IF f \in Shared THEN file.values[f] ELSE cfg[f]]
SharedPart(cfg) == [f \in Shared |-> cfg[f]]

\* patchConfigNode: only the named fields change.
Patched(j) == [f \in Shared |-> IF f \in j.named THEN j.cfg[f] ELSE j.original.values[f]]

\* GetConfig, SaveConfig and PrepareConfig begin with cfgRepo.Get.  An empty
\* set of names is PrepareConfig (start, restart, login, program start).
Begin(s) == \E names \in SUBSET Fields :
    /\ job[s].pc = "none" /\ count < MaxRequests /\ count' = count + 1
    /\ job' = [job EXCEPT ![s] = [pc |-> IF names = {} THEN "ensure" ELSE "overlay",
                 id |-> count + 1, named |-> names, cfg |-> row, original |-> NoFile]]
    /\ UNCHANGED <<row, file, backup, lock, landed>>

\* Under the read lock.  Then the request's values are set; a file that cannot
\* be parsed ends the request before anything is written.
Overlay(s) ==
    /\ job[s].pc = "overlay" /\ lock = "free"
    /\ IF file.state = "torn" THEN End(s)
       ELSE job' = [job EXCEPT ![s].pc = IF job[s].named \cap Shared = {} THEN "save" ELSE "ensure",
                      ![s].cfg = [f \in Fields |-> IF f \in job[s].named THEN job[s].id
                                                   ELSE Overlaid(job[s].cfg)[f]]]
    /\ UNCHANGED <<row, file, backup, lock, landed, count>>

\* Mutant: nothing excludes two writers.
Excludes_Nothing(s) == lock \in Slots \cup {"free"}

\* configFileMu.Lock, held since the creation of the file if that was needed.
Excludes(s) == lock \in {"free", s}

\* ensureConfig: a missing file is created, O_EXCL, and then written.
Create(s) ==
    /\ job[s].pc = "ensure" /\ Excludes(s) /\ file.state = "missing"
    /\ lock' = s /\ file' = Torn /\ Step(s, "write")
    /\ UNCHANGED <<row, backup, landed, count>>
WriteNew(s) ==
    /\ job[s].pc = "write" /\ file' = File(SharedPart(job[s].cfg))
    /\ UNCHANGED lock /\ Step(s, "ensure")
    /\ landed' = [f \in Shared |-> [by |-> "put", value |-> job[s].cfg[f]]]
    /\ UNCHANGED <<row, backup, count>>

\* PatchConfig has the file: it is parsed, patched and, when something
\* changes, written to a temporary file.  PrepareConfig only parses it.
ReadOriginal(s) ==
    /\ job[s].pc = "ensure" /\ Excludes(s) /\ file.state # "missing"
    /\ UNCHANGED <<row, file, backup, landed, count>>
    /\ LET j == [job[s] EXCEPT !.original = file]
       IN IF file.state = "torn" THEN End(s) /\ lock' = "free"
          ELSE IF j.named = {} \/ Patched(j) = file.values
               THEN Step(s, "reread") /\ lock' = "free"
               ELSE /\ job' = [job EXCEPT ![s] = [j EXCEPT !.pc = "check"]]
                    /\ lock' = s

\* A native edit since then is noticed: ErrConfigChanged.
Changed(s) ==
    /\ job[s].pc \in {"check", "recheck"} /\ file # job[s].original
    /\ End(s) /\ lock' = "free"
    /\ UNCHANGED <<row, file, backup, landed, count>>
BackUp(s) ==
    /\ job[s].pc = "check" /\ file = job[s].original
    /\ backup' = job[s].original /\ Step(s, "recheck")
    /\ UNCHANGED <<row, file, lock, landed, count>>
Recheck(s) ==
    /\ job[s].pc = "recheck" /\ file = job[s].original /\ Step(s, "rename")
    /\ UNCHANGED <<row, file, backup, lock, landed, count>>

\* The rename replaces what the file says by now.
Rename(s) ==
    /\ job[s].pc = "rename"
    /\ file' = File(Patched(job[s])) /\ lock' = "free" /\ Step(s, "reread")
    /\ landed' = [f \in Shared |-> IF f \in job[s].named THEN [by |-> "put", value |-> job[s].cfg[f]]
                                   ELSE landed[f]]
    /\ UNCHANGED <<row, backup, count>>

\* A temporary file or a rename that cannot be written.
WriteFails(s) ==
    /\ job[s].pc \in {"check", "recheck", "rename"}
    /\ End(s) /\ lock' = "free"
    /\ UNCHANGED <<row, file, backup, landed, count>>

\* The file is read again, and the whole row is saved.
Reread(s) ==
    /\ job[s].pc = "reread" /\ lock = "free"
    /\ IF file.state = "torn" THEN End(s)
       ELSE job' = [job EXCEPT ![s].pc = "save", ![s].cfg = Overlaid(@)]
    /\ UNCHANGED <<row, file, backup, lock, landed, count>>
Save(s) ==
    /\ job[s].pc = "save" /\ row' = job[s].cfg /\ End(s)
    /\ UNCHANGED <<file, backup, lock, landed, count>>

\* The sidecar's panel sets one shared field, or only a setting of its own
\* (then the file is as it was).  How it writes is outside the repository:
\* here in one piece.
NativeEdit == \E f \in Shared :
    /\ file.state = "whole" /\ count < MaxRequests /\ count' = count + 1
    /\ file' = [file EXCEPT !.values[f] = count + 1]
    /\ landed' = [landed EXCEPT ![f] = [by |-> "panel", value |-> count + 1]]
    /\ UNCHANGED <<row, backup, lock, job>>

\* The program stops and is started again; a file being created stays torn.
Crash ==
    /\ \E s \in Slots : job[s].pc # "none"
    /\ job' = [s \in Slots |-> NoJob] /\ lock' = "free"
    /\ UNCHANGED <<row, file, backup, landed, count>>

-----------------------------------------------------------------------------
Init ==
    /\ row = [f \in Fields |-> 0] /\ backup = NoFile
    /\ file \in {NoFile, File([f \in Shared |-> 0])}
    /\ lock = "free" /\ job = [s \in Slots |-> NoJob]
    /\ landed = [f \in Shared |-> [by |-> "nobody", value |-> 0]] /\ count = 0

Next == \/ \E s \in Slots :
             \/ Begin(s) \/ Overlay(s) \/ Create(s) \/ WriteNew(s) \/ ReadOriginal(s)
             \/ Changed(s) \/ BackUp(s) \/ Recheck(s) \/ Rename(s) \/ WriteFails(s)
             \/ Reread(s) \/ Save(s)
        \/ NativeEdit \/ Crash
Spec == Init /\ [][Next]_vars

-----------------------------------------------------------------------------
FileStates == [state : {"missing", "torn", "whole"}, values : [Shared -> Values]]
TypeOK ==
    /\ row \in Configs /\ file \in FileStates /\ backup \in FileStates
    /\ lock \in Slots \cup {"free"} /\ count \in 0 .. MaxRequests
    /\ \A s \in Slots : /\ job[s].named \subseteq Fields /\ job[s].cfg \in Configs
                        /\ job[s].original \in FileStates
    /\ landed \in [Shared -> [by : {"nobody", "put", "panel"}, value : Values]]

\* A shared field that a request has set keeps that value until another request
\* or the panel sets the same field, whatever other requests do to other
\* fields at the same time; and a file that was whole is never torn again
\* ("PatchConfig only changes explicit shared fields", config_file.go).
SharedEditsSurvive ==
    \A f \in Shared : landed[f].by = "put" =>
        file.state = "whole" /\ file.values[f] = landed[f].value
=============================================================================
