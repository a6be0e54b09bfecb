------------------------------- MODULE Skills -------------------------------
(***************************************************************************)
(* The skill library: rows of the tables skills, skill_files and           *)
(* skill_combination_items, the directories <id>-<name> on disk that hold  *)
(* the files, the two caches in front of the table, and the imports that   *)
(* fill all of them from a GitHub repository                               *)
(* (internal/handler/skill.go, skill_combination.go, internal/store/       *)
(* skill.go, skill_fs.go, internal/upstream/github.go, internal/mcp).      *)
(*                                                                         *)
(* One request of an administrator is one step, except those that hold     *)
(* something they read while others run: an import waits for GitHub        *)
(* between reading the table and writing to it, and a read fills a cache   *)
(* after its query.  They are jobs whose stages interleave with every      *)
(* other request.  A file's content is the commit it was fetched at, 0     *)
(* when it was typed or uploaded.  Statements of SQLite do not fail.       *)
(***************************************************************************)
EXTENDS Naturals, FiniteSets, Functions

CONSTANTS Sources,    \* skill directories of the repository
          Names,      \* skill names
          DirName,    \* the last component of a source's path, its default name
          Readme,     \* the file SKILL.md
          Others,     \* other files of a skill
          Jobs,       \* requests in progress at a time
          MaxId,      \* bound: rows ever created
          MaxRequests,\* bound: requests made
          MaxCommit   \* bound: commits of the repository

Ids      == 1..MaxId
Paths    == {Readme} \cup Others
NoSource == "manual"
NoRows   == [cached |-> FALSE, rows |-> <<>>]
Idle     == [op |-> "idle"]

VARIABLES rows,       \* table skills, a function from ids
          nextId,     \* its AUTOINCREMENT counter
          disk,       \* files below the data directory
          index,      \* table skill_files
          combo,      \* does the repository's combination exist
          items,      \* ids in skill_combination_items, of any combination
          named,      \* of them, those that were named before they were given out
          listCache,  \* skillListCache
          idCache,    \* skillCache
          tree, head, \* the repository's skills, and its latest commit
          job,        \* the requests in progress
          requests    \* how many were made

combination == <<combo, items, named>>
caches      == <<listCache, idCache>>
github      == <<tree, head>>
vars        == <<rows, nextId, disk, index, combination, caches, github, job,
                 requests>>

Row   == [name : Names, source : Sources \cup {NoSource}, tagged : BOOLEAN,
          sha : 0..MaxCommit]
File  == [id : Ids, name : Names, path : Paths, ver : 0..MaxCommit]
Found == [source : Sources, name : Names, paths : SUBSET Paths, ver : 1..MaxCommit]

-----------------------------------------------------------------------------
(* The table, the directories and the index                                 *)

\* A table or cache in which key k has the value v.
With(f, k, v) == [x \in DOMAIN f \cup {k} |-> IF x = k THEN v ELSE f[x]]

\* SkillRepo.List without a filter, and GetByID, through their caches.
Listed    == IF listCache.cached THEN listCache.rows ELSE rows
Known(id) == id \in DOMAIN idCache \cup DOMAIN rows
ById(id)  == IF id \in DOMAIN idCache THEN idCache[id] ELSE rows[id]

\* SkillRepo.List with the repository's tag, which is not cached.
Tagged == Restrict(rows, {id \in DOMAIN rows : rows[id].tagged})

InvalidateSkillCache == listCache' = NoRows /\ idCache' = <<>>

\* Mutant: the table is declared without AUTOINCREMENT.
NewId_Reuses == CHOOSE id \in Ids : id \notin DOMAIN rows /\ \A n \in Ids : n < id => n \in DOMAIN rows

\* The id that AUTOINCREMENT gives to the next row.
NewId == nextId

CanCreate == nextId <= MaxId

\* UPDATE ... WHERE id: no row changes when the id is gone.
Updated(id, row) == IF id \in DOMAIN rows THEN [rows EXCEPT ![id] = row] ELSE rows

\* DeleteSkillDir and WriteFile on the directory <id>-<name>.
FilesIn(id, name) == {f \in disk : f.id = id /\ f.name = name}
Without(files, id, name) == files \ FilesIn(id, name)
Written(files, id, name, paths, ver) ==
    {f \in files : ~(f.id = id /\ f.name = name /\ f.path \in paths)}
        \cup {[id |-> id, name |-> name, path |-> p, ver |-> ver] : p \in paths}

\* DeleteAllFileIndexes, then SaveFileIndex for each path: for a row that is
\* gone it succeeds only on a connection that does not check foreign keys.
Unindexed(id) == {x \in index : x[1] # id}
Indexes(id, paths) ==
    {Unindexed(id) \cup ({id} \X paths)}
        \cup (IF id \in DOMAIN rows \/ id = NewId THEN {} ELSE {Unindexed(id)})

\* The shape that uploads and imports share.  A known skill keeps its id: the
\* directory of its old name and its index are cleared, its row is rewritten.
\* Otherwise a row is created first.
Replace(id, old, row, paths, ver) ==
    /\ rows' = Updated(id, row)
    /\ disk' = Written(Without(disk, id, old), id, row.name, paths, ver)
    /\ index' \in Indexes(id, paths)
    /\ InvalidateSkillCache
    /\ UNCHANGED nextId
Insert(row, paths, ver) ==
    /\ CanCreate
    /\ rows' = With(rows, NewId, row)
    /\ disk' = Written(disk, NewId, row.name, paths, ver)
    /\ index' \in Indexes(NewId, paths)
    /\ nextId' = nextId + 1
    /\ InvalidateSkillCache

\* The directory cannot be made, or a zip not be extracted after the first
\* files: a known skill has lost its old files and keeps its row, a new row
\* is deleted again, its id is used up.
ReplaceFails(id, old, name, some) ==
    /\ disk' = Written(Without(disk, id, old), id, name, some, 0)
    /\ index' = Unindexed(id)
    /\ UNCHANGED <<rows, nextId, caches>>
InsertFails(name, some) ==
    /\ CanCreate
    /\ disk' = Written(disk, NewId, name, some, 0)
    /\ nextId' = nextId + 1
    /\ InvalidateSkillCache
    /\ UNCHANGED <<rows, index>>

-----------------------------------------------------------------------------
(* Requests that do not wait                                                *)

CreateSkill(name, src, paths) ==
    /\ \/ Insert([name |-> name, source |-> src, tagged |-> FALSE, sha |-> 0], paths, 0)
       \/ InsertFails(name, {})
    /\ UNCHANGED <<combination, github, job>>

\* UpdateSkill.  Source and tags of the request replace the row's, the commit
\* is forgotten; a new name deletes the old directory; files that are sent
\* replace those of the directory.
UpdateSkill(id, row, sent, paths) ==
    /\ Known(id)
    /\ LET old   == ById(id).name
           moved == IF row.name # old THEN Without(disk, id, old) ELSE disk
       IN \/ /\ rows' = Updated(id, row)
             /\ IF sent
                THEN /\ disk' = Written(Without(moved, id, row.name), id, row.name, paths, 0)
                     /\ index' \in Indexes(id, paths)
                ELSE disk' = moved /\ UNCHANGED index
             /\ InvalidateSkillCache
          \/ \* EnsureDir failed
             /\ disk' = moved
             /\ idCache' = With(idCache, id, ById(id))
             /\ UNCHANGED <<rows, index, listCache>>
    /\ UNCHANGED <<nextId, combination, github, job>>

\* DeleteSkill: the directory of the name the cache knows, then the row.  The
\* DELETE cascades to index and combinations only on a connection that
\* checks foreign keys: of the four of the pool, the one that executed PRAGMA
\* foreign_keys.
DeleteSkill(id) ==
    /\ Known(id)
    /\ disk' = Without(disk, id, ById(id).name)
    /\ rows' = Restrict(rows, DOMAIN rows \ {id})
    /\ \/ id \in DOMAIN rows /\ index' = Unindexed(id) /\ items' = items \ {id}
       \/ UNCHANGED <<index, items>>
    /\ InvalidateSkillCache
    /\ UNCHANGED <<nextId, combo, named, github, job>>

\* UploadSkill and UploadFolder reuse the first skill of the same name; "broken"
\* is what a failure may leave of the files.
Upload(name, paths, broken) ==
    LET row  == [name |-> name, source |-> NoSource, tagged |-> FALSE, sha |-> 0]
        same == {id \in DOMAIN Listed : Listed[id].name = name}
    IN /\ \/ \E id \in same :
                /\ \A other \in same : id <= other
                /\ \/ Replace(id, name, row, paths, 0)
                   \/ \E some \in broken : ReplaceFails(id, name, name, some)
          \/ /\ same = {}
             /\ \/ Insert(row, paths, 0)
                \/ \E some \in broken : InsertFails(name, some)
       /\ UNCHANGED <<combination, github, job>>

\* ExtractZip stops at the first file that fails.
Unzipped(paths) == SUBSET paths
UploadSkill(name, paths) == Upload(name, paths, Unzipped(paths))

\* Only the directory can fail as a whole; a file that fails is left out.
UploadFolder(name, paths) == \E written \in SUBSET paths : Upload(name, written, {{}})

\* CreateCombination, DeleteCombination, AddSkillToCombination and
\* RemoveSkillFromCombination, of the repository's combination or of another one.
\* A combination may be deleted without its items, and any id may be added to any
\* combination, unless the connection checks foreign keys.
EditCombination ==
    /\ \/ combo' = TRUE /\ UNCHANGED <<items, named>>
       \/ combo' \in {combo, FALSE} /\ items' \in SUBSET items /\ UNCHANGED named
       \/ /\ \E id \in Ids :
                \/ /\ items' = items \cup {id}
                   /\ named' = IF id < nextId THEN named ELSE named \cup {id}
                \/ items' = items \ {id} /\ UNCHANGED named
          /\ UNCHANGED combo
    /\ UNCHANGED <<rows, nextId, disk, index, caches, github, job>>

-----------------------------------------------------------------------------
(* Requests in progress                                                     *)

Unchanged == UNCHANGED <<rows, nextId, disk, index, combination, github>>
Begin(j, r) == job[j] = Idle /\ job' = [job EXCEPT ![j] = r]
End(j)      == job' = [job EXCEPT ![j] = Idle]

\* ListSkills, GetSkill and the tools of the MCP server: the rows are read,
\* and put into a cache afterwards; five minutes later they are dropped.
BeginRead(j) ==
    /\ Begin(j, [op |-> "read", listed |-> rows])
    /\ UNCHANGED caches /\ Unchanged
EndRead(j) ==
    /\ job[j].op = "read"
    /\ \/ /\ listCache' = [cached |-> TRUE, rows |-> job[j].listed]
          /\ UNCHANGED idCache
       \/ /\ \E id \in DOMAIN job[j].listed :
                idCache' = With(idCache, id, job[j].listed[id])
          /\ UNCHANGED listCache
    /\ End(j) /\ Unchanged
CacheExpires == InvalidateSkillCache /\ UNCHANGED job /\ Unchanged

\* What one download of a skill yields: a file that cannot be fetched is left
\* out, and without SKILL.md the name is taken from the path.
Fetched(s) ==
    {[source |-> s, paths |-> ps, ver |-> head,
      name |-> IF Readme \in ps THEN tree[s].name ELSE DirName[s]] :
        ps \in SUBSET tree[s].files \ {{}}}

\* DiscoverSkills: the directories that hold a SKILL.md, except those nothing
\* can be downloaded of.
Discovered ==
    {found \in SUBSET UNION {Fetched(s) : s \in {t \in Sources : Readme \in tree[t].files}} :
        /\ found # {}
        /\ \A f, g \in found : f.source = g.source => f = g}

\* GetLatestCommitSHA, 0 when it fails.
Shas == {0, head}

\* ImportFromGitHub looks its row up by source before it downloads.
BeginImport(j, s) ==
    /\ Begin(j, [op |-> "import", listed |-> Restrict(Listed,
                    {id \in DOMAIN Listed : Listed[id].source = s}), source |-> s])
    /\ UNCHANGED caches /\ Unchanged
FetchSkill(j) ==
    /\ job[j].op = "import"
    /\ \E f \in Fetched(job[j].source) :
          job' = [job EXCEPT ![j] = [op |-> "write", listed |-> job[j].listed, found |-> f]]
    /\ UNCHANGED caches /\ Unchanged
FinishImport(j) ==
    /\ job[j].op = "write"
    /\ LET old == job[j].listed
           f   == job[j].found
       IN \E sha \in Shas :
          LET row == [name |-> f.name, source |-> f.source, tagged |-> FALSE, sha |-> sha]
          IN \/ \E id \in DOMAIN old :
                   /\ \A other \in DOMAIN old : id <= other
                   /\ \/ Replace(id, old[id].name, row, f.paths, f.ver)
                      \/ ReplaceFails(id, old[id].name, f.name, {})
             \/ /\ old = <<>>
                /\ Insert(row, f.paths, f.ver) \/ InsertFails(f.name, {})
    /\ End(j)
    /\ UNCHANGED <<combination, github>>

\* ImportRepo, after it has scanned the repository: the rows with its tag,
\* the combination, which several skills create, and the latest commit.
BeginImportRepo(j) ==
    /\ \E found \in Discovered, sha \in Shas :
          /\ combo' = (combo \/ Cardinality(found) > 1)
          /\ Begin(j, [op |-> "repo", listed |-> Tagged, found |-> found, sha |-> sha,
                       join |-> combo'])
    /\ UNCHANGED <<rows, nextId, disk, index, items, named, caches, github>>

\* Each skill joins the combination that was found or created then; the item is
\* refused where foreign keys are checked and the combination or the row is gone.
ImportOne(j) ==
    /\ job[j].op = "repo"
    /\ \E f \in job[j].found :
          LET old == job[j].listed
              row == [name |-> f.name, source |-> f.source, tagged |-> TRUE,
                      sha |-> job[j].sha]
              same == {id \in DOMAIN old : old[id].source = f.source}
              join(id) == items' \in {items} \cup (IF job[j].join THEN {items \cup {id}} ELSE {})
          IN /\ \/ \E id \in same :
                      \* the map keeps the last row of a source
                      /\ \A other \in same : other <= id
                      /\ \/ Replace(id, old[id].name, row, f.paths, f.ver) /\ join(id)
                         \/ ReplaceFails(id, old[id].name, f.name, {}) /\ UNCHANGED items
                \/ /\ same = {}
                   /\ \/ Insert(row, f.paths, f.ver) /\ join(NewId)
                      \/ InsertFails(f.name, {}) /\ UNCHANGED items
             /\ job' = [job EXCEPT ![j] = IF job[j].found = {f} THEN Idle
                                    ELSE [job[j] EXCEPT !.found = job[j].found \ {f}]]
    /\ UNCHANGED <<combo, named, github>>

\* SyncRepo: the tagged rows that are discovered again are rewritten one by
\* one.  The old directory is emptied, the files go to that of the new name.
BeginSync(j) ==
    /\ DOMAIN Tagged # {}
    /\ \E found \in Discovered :
          Begin(j, [op |-> "sync", listed |-> Tagged, found |-> found])
    /\ UNCHANGED caches /\ Unchanged
SyncOne(j) ==
    /\ job[j].op = "sync"
    /\ \E f \in job[j].found, id \in DOMAIN job[j].listed :
          LET old == job[j].listed[id] IN
          /\ f.source = old.source
          /\ rows' = Updated(id, [old EXCEPT !.name = f.name])
          /\ disk' = Written(Without(disk, id, old.name), id, f.name, f.paths, f.ver)
          /\ index' \in Indexes(id, f.paths)
          /\ job' = [job EXCEPT ![j].found = @ \ {f}]
    /\ InvalidateSkillCache
    /\ UNCHANGED <<nextId, combination, github>>

\* At last every row that was listed is written back with the latest commit:
\* the copies that were listed, whose names the loop before did not change.
FinishSync(j) ==
    /\ job[j].op = "sync"
    /\ \A f \in job[j].found, id \in DOMAIN job[j].listed :
          f.source # job[j].listed[id].source
    /\ \/ /\ rows' = [id \in DOMAIN rows |->
                        IF id \in DOMAIN job[j].listed
                        THEN [job[j].listed[id] EXCEPT !.sha = head] ELSE rows[id]]
          /\ InvalidateSkillCache
       \/ UNCHANGED <<rows, caches>>
    /\ End(j)
    /\ UNCHANGED <<nextId, disk, index, combination, github>>

-----------------------------------------------------------------------------
Commit ==
    /\ head < MaxCommit
    /\ head' = head + 1
    /\ \E s \in Sources, n \in Names, ps \in SUBSET Paths :
          tree' = [tree EXCEPT ![s] = [name |-> n, files |-> ps]]
    /\ UNCHANGED <<rows, nextId, disk, index, combination, caches, job>>

Init ==
    /\ rows = <<>> /\ nextId = 1 /\ disk = {} /\ index = {}
    /\ combo = FALSE /\ items = {} /\ named = {}
    /\ listCache = NoRows /\ idCache = <<>>
    /\ head = 1
    /\ tree = [s \in Sources |-> [name |-> DirName[s], files |-> Paths]]
    /\ job = [j \in Jobs |-> Idle]
    /\ requests = 0

Edit ==
    \E n \in Names, ps \in SUBSET Paths :
       \/ \E s \in Sources \cup {NoSource} :
             \/ CreateSkill(n, s, ps)
             \/ \E id \in Ids, tagged, sent \in BOOLEAN :
                   UpdateSkill(id, [name |-> n, source |-> s, tagged |-> tagged,
                                    sha |-> 0], sent, ps)
       \/ ps # {} /\ (UploadSkill(n, ps) \/ UploadFolder(n, ps))

Request ==
    \/ Edit
    \/ \E id \in Ids : DeleteSkill(id)
    \/ EditCombination
    \/ \E j \in Jobs :
          \/ BeginRead(j)
          \/ \E s \in Sources : BeginImport(j, s)
          \/ BeginImportRepo(j)
          \/ BeginSync(j)

Progress(j) ==
    \/ EndRead(j)
    \/ FetchSkill(j) \/ FinishImport(j)
    \/ ImportOne(j)
    \/ SyncOne(j) \/ FinishSync(j)
    \/ job[j].op = "import" /\ End(j) /\ UNCHANGED caches /\ Unchanged

Next ==
    \/ requests < MaxRequests /\ requests' = requests + 1 /\ Request
    \/ UNCHANGED requests /\ (CacheExpires \/ Commit \/ \E j \in Jobs : Progress(j))

Spec == Init /\ [][Next]_vars

-----------------------------------------------------------------------------
TypeOK ==
    /\ DOMAIN rows \subseteq 1..(nextId - 1) /\ Range(rows) \subseteq Row
    /\ nextId \in 1..(MaxId + 1)
    /\ disk \subseteq File
    /\ index \subseteq Ids \X Paths
    /\ combo \in BOOLEAN /\ items \subseteq Ids /\ named \subseteq Ids
    /\ Range(listCache.rows) \subseteq Row
    /\ DOMAIN idCache \subseteq Ids /\ Range(idCache) \subseteq Row
    /\ head \in 1..MaxCommit

\* A new skill starts with nothing of another one: whatever requests that
\* crossed, failed or did not cascade have left behind under some id on disk,
\* in the index, in a combination or in a cache is never taken for a file or
\* a membership of a skill that is created later.  Only an id that was put into a
\* combination before any skill had it (handler/skill_combination.go:147-155
\* looks for no skill) makes the one that gets it a member.
NeverInherits ==
    [][\A id \in DOMAIN rows' \ DOMAIN rows :
          /\ \A f \in disk : f.id # id
          /\ index = Unindexed(id)
          /\ id \in items => id \in named
          /\ id \notin DOMAIN idCache]_vars
=============================================================================
