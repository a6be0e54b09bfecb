------------------------------ MODULE Catalog ------------------------------
(***************************************************************************)
(* The catalog of models and channels: the tables, the caches in front of  *)
(* them, the requests of an administrator, and the three things that write *)
(* models on their own: the synchronisation of a channel, that with        *)
(* OpenRouter, and the presets (internal/store/model.go, channel.go,       *)
(* model_presets.go, model_openrouter.go, internal/upstream/syncer.go,     *)
(* internal/handler/model.go, channel.go, sync.go, openrouter.go).         *)
(*                                                                         *)
(* Of a row the model keeps who wrote its metadata and prices last, and    *)
(* whether its display name is still its id.  A synchronisation waits for  *)
(* the network and then goes row by row, an import looks at each row       *)
(* before it writes it: they are jobs, whose steps interleave with every   *)
(* other request.                                                          *)
(***************************************************************************)
EXTENDS Naturals, FiniteSets, Functions

CONSTANTS Channels,   \* ids of channels
          Models,     \* model ids of the upstreams
          Jobs,       \* requests in progress at a time
          MaxId,      \* bound: rows ever created
          MaxRequests \* bound: requests made

Ids     == 1..MaxId
Status  == {"active", "inactive"}
NoRows  == [cached |-> FALSE, rows |-> <<>>]
Idle    == [op |-> "idle"]

VARIABLES rows,      \* table models, a function from ids
          nextId,    \* its AUTOINCREMENT counter
          channels,  \* table channels, a function from ids to status
          presets,   \* models that ModelPresets has defaults for
          listCache, \* modelCache: models joined with the status of the channel
          chanCache, \* channelCache
          job, requests

caches == <<listCache, chanCache>>
vars   == <<rows, nextId, channels, presets, caches, job, requests>>

\* "plain" is what an upstream lists without a preset, so without a price.
Row == [channel : Channels, model : Models, name : {"id", "given"},
        info : {"plain", "preset", "user", "router"}, status : Status,
        edited : BOOLEAN]

-----------------------------------------------------------------------------
(* Statements on the tables                                                 *)

\* A table or cache in which key k has the value v.
With(f, k, v) == [x \in DOMAIN f \cup {k} |-> IF x = k THEN v ELSE f[x]]

InvalidateModelCache   == listCache' = NoRows
InvalidateChannelCache == chanCache' = <<>>

\* SELECT ... LEFT JOIN channels: a row without its channel counts as active.
Joined == [id \in DOMAIN rows |->
             [row |-> rows[id],
              channel |-> IF rows[id].channel \in DOMAIN channels
                          THEN channels[rows[id].channel] ELSE "active"]]

KnownChannel(c) == c \in DOMAIN chanCache \cup DOMAIN channels
ChannelStatus(c) == IF c \in DOMAIN chanCache THEN chanCache[c] ELSE channels[c]

\* UPDATE ... WHERE id IN ids.
Changed(ids, Set(_)) ==
    [id \in DOMAIN rows |-> IF id \in ids THEN Set(rows[id]) ELSE rows[id]]

PresetInfo(m) == IF m \in presets THEN "preset" ELSE "plain"

\* Mutant: metadata and prices are always those of the upstream.
Merged_Overwrites(r, name) ==
    [r EXCEPT !.name = IF @ = "id" THEN name ELSE @, !.info = PresetInfo(r.model)]

\* Upsert: of a known model the name is replaced while it is the id, metadata
\* and prices unless the user has modified the row, and the status never.
Merged(r, name) ==
    [r EXCEPT !.name = IF @ = "id" THEN name ELSE @,
              !.info = IF r.edited THEN @ ELSE PresetInfo(r.model)]

Upsert(c, m, name) ==
    LET same == {id \in DOMAIN rows : rows[id].channel = c /\ rows[id].model = m}
        merged(r) == Merged(r, name)
    IN IF same # {}
       THEN rows' = Changed(same, merged) /\ UNCHANGED nextId
       ELSE /\ nextId <= MaxId
            /\ rows' = With(rows, nextId, [channel |-> c, model |-> m, name |-> name,
                          info |-> PresetInfo(m), status |-> "active", edited |-> FALSE])
            /\ nextId' = nextId + 1

-----------------------------------------------------------------------------
(* Requests on models                                                       *)

UpdateModel(id, name, status) ==
    LET set(row) == [row EXCEPT !.name = name, !.info = "user", !.status = status,
                                !.edited = TRUE]
    IN /\ rows' = Changed({id}, set)
       /\ InvalidateModelCache
       /\ UNCHANGED <<nextId, channels, presets, chanCache, job>>

Flip(status) == IF status = "active" THEN "inactive" ELSE "active"
ToggleModel(id) ==
    LET set(row) == [row EXCEPT !.status = Flip(@)]
    IN /\ rows' = Changed({id}, set)
       /\ InvalidateModelCache
       /\ UNCHANGED <<nextId, channels, presets, chanCache, job>>

\* BatchEdit sets the fields that are sent.
Edited(row) == [row EXCEPT !.info = "user", !.edited = TRUE]

\* DeleteModel, and the actions of BatchAction, one statement for each id.  An
\* error stops after some of them and does not invalidate the cache.
Batch(ids, action) ==
    LET set(row) == CASE action = "enable"  -> [row EXCEPT !.status = "active"]
                      [] action = "disable" -> [row EXCEPT !.status = "inactive"]
                      [] action = "reset"   -> [row EXCEPT !.edited = FALSE]
                      [] OTHER -> Edited(row)
    IN /\ \E done \in SUBSET ids :
             /\ rows' = IF action = "delete"
                        THEN Restrict(rows, DOMAIN rows \ done) ELSE Changed(done, set)
             /\ \/ done = ids /\ InvalidateModelCache
                \/ done # ids /\ UNCHANGED listCache
       /\ UNCHANGED <<nextId, channels, presets, chanCache, job>>

\* Reload of the presets file: an error in the file leaves some of them.
ReloadPresets ==
    /\ presets' \in SUBSET Models
    /\ UNCHANGED <<rows, nextId, channels, caches, job>>

-----------------------------------------------------------------------------
(* Requests on channels.  None of them drops the list of models, which      *)
(* holds the status of the channel.                                         *)

SaveChannel(c, status) ==  \* CreateChannel, UpdateChannel
    /\ channels' = With(channels, c, status)
    /\ InvalidateChannelCache
    /\ UNCHANGED <<rows, nextId, presets, listCache, job>>

\* ToggleStatus negates the status that the cache knows; the row may be gone.
ToggleChannel(c) ==
    /\ KnownChannel(c)
    /\ channels' = IF c \in DOMAIN channels
                   THEN [channels EXCEPT ![c] = Flip(ChannelStatus(c))] ELSE channels
    /\ InvalidateChannelCache
    /\ UNCHANGED <<rows, nextId, presets, listCache, job>>

\* The models go with it on the connection that checks foreign keys.
DeleteChannel(c) ==
    /\ channels' = Restrict(channels, DOMAIN channels \ {c})
    /\ \/ rows' = Restrict(rows, {id \in DOMAIN rows : rows[id].channel # c})
       \/ UNCHANGED rows
    /\ InvalidateChannelCache
    /\ UNCHANGED <<nextId, presets, listCache, job>>

-----------------------------------------------------------------------------
(* Requests in progress                                                     *)

Begin(j, r) == job[j] = Idle /\ job' = [job EXCEPT ![j] = r]
Tables      == <<rows, nextId, channels, presets>>

\* ModelRepo.List and ChannelRepo.GetByID: the cache is filled after the query.
BeginList(j) ==
    /\ ~listCache.cached
    /\ Begin(j, [op |-> "list", rows |-> Joined])
    /\ UNCHANGED <<Tables, caches>>
BeginGetChannel(j, c) ==
    /\ c \in DOMAIN channels \ DOMAIN chanCache
    /\ Begin(j, [op |-> "channel", channel |-> c, status |-> channels[c]])
    /\ UNCHANGED <<Tables, caches>>
Fill(j) ==
    /\ \/ /\ job[j].op = "list"
          /\ listCache' = [cached |-> TRUE, rows |-> job[j].rows]
          /\ UNCHANGED chanCache
       \/ /\ job[j].op = "channel"
          /\ chanCache' = With(chanCache, job[j].channel, job[j].status)
          /\ UNCHANGED listCache
    /\ job' = [job EXCEPT ![j] = Idle]
    /\ UNCHANGED Tables
Expire ==
    /\ listCache' \in {listCache, NoRows} /\ chanCache' \in {chanCache, <<>>}
    /\ UNCHANGED <<Tables, job>>

\* SyncModels: the upstream lists models, some with a name of their own.  A
\* row of a channel that is gone is refused where foreign keys are checked; a
\* row that fails is left out.
BeginSync(j, c) ==
    /\ KnownChannel(c)
    /\ \E found \in SUBSET (Models \X {"id", "given"}) :
          /\ \A x, y \in found : x[1] = y[1] => x = y
          /\ Begin(j, [op |-> "sync", channel |-> c, found |-> found])
    /\ UNCHANGED <<Tables, caches>>
SyncOne(j) ==
    /\ job[j].op = "sync"
    /\ \E x \in job[j].found :
          /\ \/ Upsert(job[j].channel, x[1], x[2])
             \/ UNCHANGED <<rows, nextId>>
          /\ job' = [job EXCEPT ![j].found = @ \ {x}]
    /\ UNCHANGED <<channels, presets, caches>>
EndSync(j) ==
    /\ job[j].op = "sync" /\ job[j].found = {}
    /\ job' = [job EXCEPT ![j] = Idle]
    /\ InvalidateModelCache
    /\ UNCHANGED <<Tables, chanCache>>

\* An import and the synchronisation with OpenRouter look at rows, and write those
\* that the user has not modified, or all, in a later statement.  "seen"
\* remembers, for the property below, which were modified when they were looked at.
BeginWriter(j, op, todo, overwrite) ==
    /\ Begin(j, [op |-> op, todo |-> todo, overwrite |-> overwrite,
                 updates |-> {}, seen |-> {}])
    /\ UNCHANGED <<Tables, caches>>
Skips(j, id)   == rows[id].edited /\ ~job[j].overwrite
Modified(id)   == IF rows[id].edited THEN {id} ELSE {}
Chosen(j, id)  == IF Skips(j, id) THEN {} ELSE {id}

\* ImportModels goes from item to item: ImportJSON finds one row by model id, on
\* any channel, and Update writes all of it by its id; an error ends the import.
BeginImport(j, ms, overwrite) == BeginWriter(j, "import", ms, overwrite)
ImportReads(j) ==
    /\ job[j].op = "import" /\ job[j].updates = {}
    /\ \E m \in job[j].todo :
          LET r == job[j]
              same == {id \in DOMAIN rows : rows[id].model = m}
          IN \/ /\ same = {}
                /\ job' = [job EXCEPT ![j].todo = @ \ {m}]
             \/ \E id \in same :
                   job' = [job EXCEPT ![j] =
                       [r EXCEPT !.todo = r.todo \ {m}, !.seen = Modified(id),
                                 !.updates = Chosen(j, id)]]
    /\ UNCHANGED <<Tables, caches>>
ImportWrites(j) ==
    /\ job[j].op = "import"
    /\ \E id \in job[j].updates, name \in {"id", "given"}, status \in Status :
          LET set(row) == [row EXCEPT !.name = name, !.info = "user",
                                      !.status = status, !.edited = TRUE]
          IN \/ /\ rows' = Changed({id}, set)
                /\ job' = [job EXCEPT ![j].updates = {}]
             \/ UNCHANGED rows /\ job' = [job EXCEPT ![j] = Idle]
    /\ UNCHANGED <<nextId, channels, presets, caches>>
EndImport(j) ==
    /\ job[j].op = "import" /\ job[j].todo = {} /\ job[j].updates = {}
    /\ job' = [job EXCEPT ![j] = Idle]
    /\ InvalidateModelCache
    /\ UNCHANGED <<Tables, chanCache>>

\* OpenRouterHandler.Sync looks at the rows one by one after it has fetched the
\* catalog, and writes the fields it was asked for in one transaction.
BeginRouter(j, ids, overwrite) == BeginWriter(j, "router", ids, overwrite)
RouterReads(j) ==
    /\ job[j].op = "router"
    /\ \E id \in job[j].todo :
          LET r == job[j]
          IN job' = [job EXCEPT ![j] =
                IF id \notin DOMAIN rows THEN Idle
                ELSE [r EXCEPT !.todo = r.todo \ {id},
                               !.seen = r.seen \cup Modified(id),
                               !.updates = r.updates \cup Chosen(j, id)]]
    /\ UNCHANGED <<Tables, caches>>
RouterWrites(j) ==
    /\ job[j].op = "router" /\ job[j].todo = {}
    /\ \/ /\ job[j].updates \subseteq DOMAIN rows
          /\ \E fields \in SUBSET {"name", "info"} :
                LET set(row) == [row EXCEPT !.name = IF "name" \in fields THEN "given" ELSE @,
                                            !.info = IF "info" \in fields THEN "router" ELSE @,
                                            !.edited = @ \/ fields # {}]
                IN rows' = Changed(job[j].updates, set)
          /\ InvalidateModelCache
       \/ UNCHANGED <<rows, listCache>>
    /\ job' = [job EXCEPT ![j] = Idle]
    /\ UNCHANGED <<nextId, channels, presets, chanCache>>

\* The server starts again: caches and jobs are gone, the presets are applied.
Restart ==
    LET set(row) == IF row.model \in presets /\ ~row.edited
                    THEN [row EXCEPT !.info = "preset"] ELSE row
    IN /\ rows' = Changed(DOMAIN rows, set)
       /\ InvalidateModelCache /\ InvalidateChannelCache
       /\ job' = [j \in Jobs |-> Idle]
       /\ UNCHANGED <<nextId, channels, presets>>

-----------------------------------------------------------------------------
Init ==
    /\ rows = <<>> /\ nextId = 1
    /\ channels = [c \in Channels |-> "active"]
    /\ presets \in SUBSET Models
    /\ listCache = NoRows /\ chanCache = <<>>
    /\ job = [j \in Jobs |-> Idle]
    /\ requests = 0

Request ==
    \/ \E id \in DOMAIN rows, status \in Status, name \in {"id", "given"} :
          UpdateModel(id, name, status)
    \/ \E id \in DOMAIN rows : ToggleModel(id)
    \/ \E ids \in SUBSET DOMAIN rows \ {{}} :
          \/ \E action \in {"enable", "disable", "delete", "reset", "edit"} :
                Batch(ids, action)
          \/ \E j \in Jobs, overwrite \in BOOLEAN : BeginRouter(j, ids, overwrite)
    \/ \E ms \in SUBSET Models \ {{}}, j \in Jobs, overwrite \in BOOLEAN :
          BeginImport(j, ms, overwrite)
    \/ ReloadPresets
    \/ \E c \in Channels :
          \/ \E status \in Status : SaveChannel(c, status)
          \/ ToggleChannel(c)
          \/ DeleteChannel(c)
          \/ \E j \in Jobs : BeginSync(j, c) \/ BeginGetChannel(j, c)
    \/ \E j \in Jobs : BeginList(j)

Progress(j) ==
    \/ Fill(j)
    \/ SyncOne(j) \/ EndSync(j)
    \/ ImportReads(j) \/ ImportWrites(j) \/ EndImport(j)
    \/ RouterReads(j) \/ RouterWrites(j)

Next ==
    \/ requests < MaxRequests /\ requests' = requests + 1 /\ Request
    \/ UNCHANGED requests /\ (Expire \/ Restart \/ \E j \in Jobs : Progress(j))

Spec == Init /\ [][Next]_vars

-----------------------------------------------------------------------------
TypeOK ==
    /\ DOMAIN rows \subseteq 1..(nextId - 1) /\ Range(rows) \subseteq Row
    /\ nextId \in 1..(MaxId + 1)
    /\ DOMAIN channels \subseteq Channels /\ Range(channels) \subseteq Status
    /\ presets \subseteq Models
    /\ \A x \in Range(listCache.rows) : x.row \in Row /\ x.channel \in Status
    /\ Range(chanCache) \subseteq Status

\* Job j writes row id, though it is edited: it was told to, or it had looked at
\* the row before that was edited.
Overtakes(j, id) ==
    /\ job[j].op \in {"import", "router"} /\ job'[j] # job[j]
    /\ id \in job[j].updates
    /\ job[j].overwrite \/ id \notin job[j].seen

\* The metadata, the prices and the name that an administrator gave are there until
\* a request replaces them, however synchronisations, imports, presets, restarts
\* and other requests cross.  Only an import or a synchronisation with OpenRouter
\* may write over them, that was told to or that looked at the row before it was
\* edited.  A name that is the id is not taken for one that was given: Upsert
\* (store/model.go:340) replaces it though the row is marked as modified,
\* whatever syncer.go:31 and 105 say of edited rows.
EditsSurvive ==
    [][requests' = requests =>
         \A id \in DOMAIN rows \cap DOMAIN rows' :
            rows[id].edited =>
               \/ /\ rows'[id].info = rows[id].info
                  /\ rows[id].name = "given" => rows'[id].name = "given"
               \/ \E j \in Jobs : Overtakes(j, id)]_vars
=============================================================================
