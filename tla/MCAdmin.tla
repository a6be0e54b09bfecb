------------------------------- MODULE MCAdmin -------------------------------
(***************************************************************************)
(* Instances for TLC of what administrators edit while requests and jobs   *)
(* use it: API keys, skills, the catalog of models and channels, and       *)
(* virtual models.  Each has tables and caches of its own, so a behaviour  *)
(* runs one of them, "part", while the others stay at rest; every          *)
(* behaviour of each of them is one of these.                              *)
(***************************************************************************)
EXTENDS ApiKeys, TLC

CONSTANTS Sources, Names, DefaultName, Readme, Others, MaxCommit,  \* Skills
          Channels, Models,                                        \* Catalog
          Jobs, MaxId, MaxRequests,                                \* both
          Protocols, MaxMessages, MaxCandidates                    \* VirtualModel

\* There is a key, and the name that a directory gives to a skill is a name; the
\* bounds are numbers, and the repository begins with a commit.
ASSUME AdminAssumption ==
  /\ Keys # {} /\ DefaultName \in Names
  /\ MaxCommit \in Nat \ {0} /\ MaxId \in Nat /\ MaxCandidates \in Nat

VARIABLES part,
  skills, skillId, disk, index, combo, items, named, skillList, skillCache, tree, head, skillJob, skillRequests,
  models, modelId, channels, presets, modelList, chanCache, modelJob, modelRequests,
  vmRow, sight, request, vm, phase, left, answer, calls, preface, result

library == <<skills, skillId, disk, index, combo, items, named, skillList, skillCache, tree, head,
             skillJob, skillRequests>>
catalog == <<models, modelId, channels, presets, modelList, chanCache, modelJob, modelRequests>>
virtual == <<vmRow, sight, request, vm, phase, left, answer, calls, preface, result>>

S == INSTANCE Skills WITH DirName <- [s \in Sources |-> DefaultName], rows <- skills,
        nextId <- skillId, listCache <- skillList, idCache <- skillCache, job <- skillJob,
        requests <- skillRequests
C == INSTANCE Catalog WITH rows <- models, nextId <- modelId, listCache <- modelList,
        job <- modelJob, requests <- modelRequests
V == INSTANCE VirtualModel WITH row <- vmRow

\* At rest: keys that were never created, no preset, no request.
AdminInit ==
  /\ part \in {"keys", "skills", "catalog", "virtual"}
  /\ S!Init
  /\ IF part = "keys" THEN Init
     ELSE /\ row = [k \in Keys |-> Unborn] /\ cache = [k \in Keys |-> {}]
          /\ req = [r \in Requests |-> [pc |-> "over", key |-> CHOOSE k \in Keys : TRUE,
                                        copy |-> Unborn, overtaken |-> FALSE]]
          /\ admin = [a \in Admins |-> [pc |-> "idle", key |-> CHOOSE k \in Keys : TRUE]]
  /\ C!Init /\ (presets # {} => part = "catalog")
  /\ IF part = "virtual" THEN V!Init
     ELSE /\ vmRow = V!NoRow /\ vm = V!NoRow /\ sight = FALSE
          /\ request = [protocol |-> "openai", stream |-> FALSE, messages |-> <<>>]
          /\ phase = "done" /\ left = 0 /\ answer = "none" /\ preface = FALSE
          /\ calls = [made |-> 0, recorded |-> 0] /\ result = V!Error

AdminNext ==
  /\ UNCHANGED part
  /\ \/ part = "keys" /\ Next /\ UNCHANGED <<library, catalog, virtual>>
     \/ part = "skills" /\ S!Next /\ UNCHANGED <<vars, catalog, virtual>>
     \/ part = "catalog" /\ C!Next /\ UNCHANGED <<vars, library, virtual>>
     \/ part = "virtual" /\ V!Next /\ UNCHANGED <<vars, library, catalog>>

AdminSpec == AdminInit /\ [][AdminNext]_<<part, vars, library, catalog, virtual>>

Interchangeable == Permutations(Requests) \cup Permutations(Admins)

-----------------------------------------------------------------------------
(* The type invariants of the four modules.                                 *)
TypesOK == TypeOK /\ S!TypeOK /\ C!TypeOK /\ V!TypeOK

(* Properties of the instances; their modules state them.                   *)
NeverInherits   == S!NeverInherits
EditsSurvive    == C!EditsSurvive
ImagesDescribed == V!ImagesDescribed
=============================================================================
