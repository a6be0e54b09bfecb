------------------------------- MODULE Install -------------------------------
(***************************************************************************)
(* Installing and upgrading the sidecar's binary                           *)
(* (internal/cpa/binary.go): the archive of the latest release is          *)
(* downloaded to <bin>.tmp.part with retries that resume, renamed to       *)
(* <bin>.tmp, extracted to <bin>.install, and renamed to <bin> while the   *)
(* sidecar is stopped.  Nothing excludes two installations.                *)
(*                                                                         *)
(* The file system: a path names an inode, an inode holds blocks, each of  *)
(* the version it came from (0 is a hole).  An archive and a binary are    *)
(* Whole blocks of one version, and nothing in the code looks at more than *)
(* the length of one and the signature it begins with.                     *)
(***************************************************************************)
EXTENDS Naturals, Sequences, FiniteSets, FiniteSetsExt, SequencesExt

CONSTANTS Installers,    \* requests to install that may run at a time
          Retries,       \* attempts to download (3 in the code)
          MaxVersion,    \* bound: releases
          MaxInstalls    \* bound: installations

Whole    == 2            \* blocks of an archive and of a binary
Longest  == Whole + 1    \* bound: blocks of a file that two installations write
Paths    == {"part", "tmp", "install", "bin"}
Inodes   == 1 .. 4 + 2 * Cardinality(Installers)
Versions == 1 .. MaxVersion
NoJob    == [pc |-> "none", version |-> 0, attempt |-> 0, fd |-> 0, offset |-> 0,
             source |-> 0, wasRunning |-> FALSE, alone |-> FALSE, pure |-> FALSE]

VARIABLES latest,   \* version of the latest release
          path,     \* path -> inode, 0 when there is no such file
          data,     \* inode -> blocks
          running,  \* whether the sidecar runs
          job,
          origin,   \* how the binary in place came about
          count

vars == <<latest, path, data, running, job, origin, count>>

\* History, which no guard reads: job.alone, no other installation ran since it
\* began; job.pure, it began the partial file itself; and what origin says of
\* the installation that put the binary in place.
Origins == {"clean", "resumed", "overlap"}
OriginOf(j) == IF ~j.alone THEN "overlap" ELSE IF j.pure THEN "clean" ELSE "resumed"

-----------------------------------------------------------------------------
(* Files                                                                    *)

Used == {path[p] : p \in Paths} \cup {job[i].fd : i \in Installers}
            \cup {job[i].source : i \in Installers}
Fresh == CHOOSE n \in Inodes : n \notin Used

\* Open for writing: an existing file keeps its inode.
Opened(p) == IF path[p] = 0 THEN Fresh ELSE path[p]
Rename(from, to) == path' = [path EXCEPT ![to] = path[from], ![from] = 0]
Removed(ps) == [p \in Paths |-> IF p \in ps THEN 0 ELSE path[p]]

\* A write at an offset, behind a hole when the file was truncated meanwhile.
WrittenAt(blocks, at, v) ==
    [n \in 1 .. Max({Len(blocks), at}) |->
        IF n = at THEN v ELSE IF n <= Len(blocks) THEN blocks[n] ELSE 0]
IsWhole(blocks) == \E v \in Versions : blocks = [n \in 1 .. Whole |-> v]

Goto(i, pc) == job' = [job EXCEPT ![i].pc = pc]
End(i)      == job' = [job EXCEPT ![i] = NoJob]

-----------------------------------------------------------------------------
(* Download                                                                 *)

\* The latest release; without force an existing binary is kept.  What an
\* earlier run left as <bin>.tmp becomes the partial file.
Begin(i) ==
    /\ job[i].pc = "none" /\ count < MaxInstalls /\ count' = count + 1
    /\ job' = [k \in Installers |->
                  IF k = i THEN [NoJob EXCEPT !.pc = "request", !.version = latest, !.attempt = 1,
                                              !.alone = \A j \in Installers : job[j].pc = "none"]
                  ELSE [job[k] EXCEPT !.alone = FALSE]]
    /\ path' = IF path["tmp"] = 0 THEN path
               ELSE IF path["part"] # 0 THEN Removed({"tmp"})
               ELSE [path EXCEPT !["part"] = path["tmp"], !["tmp"] = 0]
    /\ UNCHANGED <<latest, data, running, origin>>

\* downloadOnce: a partial file of the expected size is taken as it is; any
\* other one is asked for from its end, and truncated when the server does not
\* answer with a part.
Request(i) ==
    /\ job[i].pc = "request" /\ UNCHANGED <<latest, running, origin, count>>
    /\ LET size == IF path["part"] = 0 THEN 0 ELSE Len(data[path["part"]])
           n    == Opened("part")
       IN IF size = Whole THEN Goto(i, "downloaded") /\ UNCHANGED <<path, data>>
          ELSE \E resumes \in BOOLEAN :
             /\ path' = [path EXCEPT !["part"] = n]
             /\ data' = IF resumes /\ size > 0 THEN data ELSE [data EXCEPT ![n] = <<>>]
             /\ job' = [job EXCEPT ![i].pc = "copy", ![i].fd = n,
                            ![i].offset = IF resumes /\ size > 0 THEN size ELSE 0,
                            ![i].pure = IF resumes /\ size > 0 THEN @ ELSE TRUE]

\* One block arrives.  With a part the file is open for appending.
Copy(i) ==
    /\ job[i].pc = "copy" /\ job[i].offset < Whole
    /\ data' = [data EXCEPT ![job[i].fd] = IF Len(@) >= job[i].offset
                   THEN Append(@, job[i].version)
                   ELSE WrittenAt(@, job[i].offset + 1, job[i].version)]
    /\ Len(data'[job[i].fd]) <= Longest
    /\ job' = [job EXCEPT ![i].offset = @ + 1]
    /\ UNCHANGED <<latest, path, running, origin, count>>
Copied(i) ==
    /\ job[i].pc = "copy" /\ job[i].offset = Whole
    /\ job' = [job EXCEPT ![i].pc = "downloaded", ![i].fd = 0]
    /\ UNCHANGED <<latest, path, data, running, origin, count>>

\* The request fails, the connection breaks or the size is wrong: again, and
\* after the last attempt nothing stays behind.
AttemptFails(i) ==
    /\ job[i].pc \in {"request", "copy"} /\ UNCHANGED <<latest, data, running, origin, count>>
    /\ IF job[i].attempt < Retries
       THEN /\ job' = [job EXCEPT ![i].pc = "request", ![i].attempt = @ + 1, ![i].fd = 0,
                           ![i].offset = 0]
            /\ UNCHANGED path
       ELSE End(i) /\ path' = Removed({"tmp", "part"})

\* The partial file gets its name; another installation may have taken it.
Downloaded(i) ==
    /\ job[i].pc = "downloaded" /\ UNCHANGED <<latest, data, running, origin, count>>
    /\ IF path["part"] # 0 THEN /\ Rename("part", "tmp")
            /\ job' = [job EXCEPT ![i].pc = "open", ![i].version = 0, ![i].attempt = 0]
       ELSE path' = Removed({"tmp", "part"}) /\ End(i)

-----------------------------------------------------------------------------
(* Extraction and replacement                                               *)

\* Mutant: the binary is extracted to its final place.
Target_InPlace == "bin"

\* The archive is extracted to a file that is not yet the binary.
Target == "install"

\* extractBinary copies what it finds, up to the size in the archive's header
\* (io.CopyN, which returns before a checksum is read) or, for a bare binary, to
\* its end.  It may find damage on its way, or none.
Extract(i) ==
    /\ job[i].pc = "open" /\ UNCHANGED <<latest, running, origin, count>>
    /\ IF path["tmp"] = 0 THEN End(i) /\ path' = Removed({"install"}) /\ UNCHANGED data
       ELSE LET n == Opened(Target)
            IN /\ path' = [path EXCEPT ![Target] = n] /\ data' = [data EXCEPT ![n] = <<>>]
               /\ job' = [job EXCEPT ![i].pc = "extract", ![i].fd = n, ![i].offset = 0,
                              ![i].source = path["tmp"]]
ExtractBlock(i) ==
    /\ job[i].pc = "extract" /\ job[i].offset < Len(data[job[i].source])
    /\ data' = [data EXCEPT ![job[i].fd] =
                    WrittenAt(@, job[i].offset + 1, data[job[i].source][job[i].offset + 1])]
    /\ job' = [job EXCEPT ![i].offset = @ + 1]
    /\ UNCHANGED <<latest, path, running, origin, count>>
ExtractFails(i) ==
    /\ job[i].pc = "extract" /\ End(i) /\ path' = Removed({"tmp", "install"})
    /\ UNCHANGED <<latest, data, running, origin, count>>
Extracted(i) ==
    /\ job[i].pc = "extract" /\ job[i].offset \in {Whole, Len(data[job[i].source])}
    /\ path' = Removed({"tmp"})
    /\ job' = [job EXCEPT ![i].pc = "stop", ![i].fd = 0, ![i].source = 0,
                   ![i].wasRunning = running]
    /\ UNCHANGED <<latest, data, running, origin, count>>

\* A running sidecar is stopped first; when that fails nothing is replaced.
StopOld(i) ==
    /\ job[i].pc = "stop" /\ UNCHANGED <<latest, data, origin, count>>
    /\ \/ ~job[i].wasRunning /\ Goto(i, "replace") /\ UNCHANGED <<path, running>>
       \/ job[i].wasRunning /\ Goto(i, "replace") /\ running' = FALSE /\ UNCHANGED path
       \/ job[i].wasRunning /\ End(i) /\ path' = Removed({"install"}) /\ UNCHANGED running

\* What is no executable at all is refused (validateBinary).
Startable == path["bin"] # 0 /\ data[path["bin"]] # <<>>

\* The rename is the replacement; it fails when the file is gone.  In both
\* cases a sidecar that was running is started.
Replace(i) ==
    /\ job[i].pc = "replace" /\ UNCHANGED <<latest, data, running, count>>
    /\ IF path[Target] # 0
       THEN /\ path' = [path EXCEPT !["bin"] = path[Target], !["install"] = 0]
            /\ origin' = OriginOf(job[i])
       ELSE UNCHANGED <<path, origin>>
    /\ Goto(i, "start")
StartNew(i) ==
    /\ job[i].pc = "start" /\ End(i) /\ path' = Removed({"install"})
    /\ running' \in IF job[i].wasRunning /\ Startable
                    THEN {running, TRUE} ELSE {running}
    /\ UNCHANGED <<latest, data, origin, count>>

-----------------------------------------------------------------------------
\* The administrator starts and stops the sidecar (Sidecar has the inside).
StartStop ==
    /\ Startable /\ running' = ~running
    /\ UNCHANGED <<latest, path, data, job, origin, count>>
Release == latest < MaxVersion /\ latest' = latest + 1 /\ UNCHANGED <<path, data, running, job, origin, count>>

\* The program stops, and its sidecar with it; the files stay.
Crash ==
    /\ \E i \in Installers : job[i].pc # "none"
    /\ job' = [i \in Installers |-> NoJob] /\ running' = FALSE
    /\ UNCHANGED <<latest, path, data, origin, count>>

Init ==
    /\ latest = 1 /\ path = [p \in Paths |-> 0] /\ data = [n \in Inodes |-> <<>>]
    /\ running = FALSE /\ job = [i \in Installers |-> NoJob] /\ origin = "clean" /\ count = 0

Next == \/ \E i \in Installers :
             \/ Begin(i) \/ Request(i) \/ Copy(i) \/ Copied(i) \/ AttemptFails(i) \/ Downloaded(i)
             \/ Extract(i) \/ ExtractBlock(i) \/ ExtractFails(i) \/ Extracted(i)
             \/ StopOld(i) \/ Replace(i) \/ StartNew(i)
        \/ StartStop \/ Release \/ Crash
Spec == Init /\ [][Next]_vars

-----------------------------------------------------------------------------
TypeOK ==
    /\ latest \in Versions /\ origin \in Origins /\ running \in BOOLEAN /\ count \in 0 .. MaxInstalls
    /\ path \in [Paths -> {0} \cup Inodes]
    /\ \A n \in Inodes : Len(data[n]) <= Longest /\ ToSet(data[n]) \subseteq 0 .. MaxVersion
    /\ \A i \in Installers : job[i].attempt \in 0 .. Retries /\ job[i].fd \in {0} \cup Inodes

\* No half binary is put in place, wherever an installation fails or the program
\* stops ("先写入临时安装文件，成功后再替换线上二进制，避免留下半截文件", binary.go), unless
\* two installations ran at a time; and it is of one version when the
\* installation has not resumed what an earlier one left.
BinaryIsWhole ==
    path["bin"] # 0 =>
        /\ origin # "overlap" => Len(data[path["bin"]]) = Whole
        /\ origin = "clean" => IsWhole(data[path["bin"]])
=============================================================================
