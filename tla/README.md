# zero-api: specifications, model checking and proofs

zero-api is a relay for language-model APIs: clients speak the OpenAI chat, the
Responses or the Anthropic protocol, and the relay forwards each request to one of
several upstream channels, fails over between them, records usage and cost, and
manages a CLIProxyAPI sidecar process. This directory holds TLA+ modules written
from its Go source, the TLC configurations that check them, and proofs that TLAPS
checks. `PROJECT.json` lists the runs, the lines each definition stands for, the
mutants that show each property has teeth, the hazards and the findings.

## 1. The system

| Component | State it keeps | Operations | What is hard |
|---|---|---|---|
| Circuit breaker (`handler/circuit_breaker.go`) | map channel -> (state, expiry, retries) under one mutex | MayProceed, RecordSuccess, RecordFailure, CancelProbe, RetryAfter, probe | reports of old requests meet new states; a reservation spans an HTTP exchange outside the lock |
| Relay (`handler/proxy.go`, `forwarding.go`, `forwarding_stream.go`) | per request: candidates, position, what was sent, headers, skipped/failed flags | handleCompletion, PassthroughEndpoint, tryForward, forwardSSE, finishForwardFailure | once a byte was sent nothing may be replayed; client cancellation at any point; several attempts share one response |
| Stream protocol (`forwarding_stream.go`, `adapter/*stream*.go`) | SSE frame, terminal state, converters | observe, Convert, Finish, idle watcher | three protocols' ways of ending; truncation must not look like success; a watcher races the reader |
| API keys and quota (`store/api_key.go`, `handler/api_key.go`) | table api_keys; process-wide cache with a 5-minute TTL | GetByKey, Toggle, Delete, UpdateConfig, DeductQuota | cache refill races invalidation; the balance is checked before and charged after a request |
| Usage recording (`store/usage.go`, `handler/proxy.go` recordUsage) | channel of 2000 records, the flusher's batch, usage_records, usage_daily | Insert, insertDirect, flush by size or time, restart after panic | two tables must agree; full buffer; failed transaction; shutdown |
| Sidecar manager (`cpa/manager.go`) | cmd, running, closing, stopCh, doneCh | Start, Stop, Restart, watch | Start, Stop and crash restart overlap; channels replaced while somebody waits on them |
| Sidecar login (`cpa/manager.go`) | authCmd, provider, output buffer | StartLogin, its collecting goroutine, StopLogin, AuthStatus | the process is killed outside the mutex, when it may be another's turn |
| Sidecar binary (`cpa/binary.go`) | archive, partial and temporary files, the binary | InstallBinary: download with resume and retries, extraction, replacement | what an earlier version or a stop left behind is taken up again |
| Sidecar configuration (`cpa/config_file.go`, `handler/cpa.go`, `store/cpa_config.go`) | a YAML file, a row | PrepareConfig, GetConfig, SaveConfig, PatchConfig | two stores of one setting; the sidecar's own panel writes the file, too |
| Request log (`diagnostics/logger.go`) | active file and numbered backups | New, Record, rotate, cleanup, maintain, Close | a rotation is several renames, each of which may fail or be the last |
| Responses over WebSocket (`handler/responses_websocket.go`) | two connections, one write lock | first frame, dial, a copying goroutine for each direction | each goroutine may wait for a read, a write or the lock when a peer leaves |
| Caches (`handler/proxy.go`, `store/model.go`) | proxy configuration, model list, rendered /v1/models | read, refill, invalidate | refill after invalidation stores old data |
| Virtual models (`router/*.go`) | table virtual_models | match, describe images, rewrite | two passes over messages in three protocols must agree; two model calls for one request; the row changes in between |
| Catalog of models and channels (`store/model.go`, `channel.go`, `upstream/syncer.go`, `handler/openrouter.go`) | tables, two caches, presets | edit, toggle, batch, import, synchronise with a channel or OpenRouter, apply presets | synchronisations wait for the network and write rows that users edit |
| Balance (`balance/*.go`) | balances per channel | refresh, query | read-modify-write without a transaction |
| Skills and MCP (`handler/skill*.go`, `store/skill*.go`, `upstream/github.go`, `mcp/server.go`) | tables of skills, files and combinations, directories, two caches | create, update, upload, import, synchronise, combine, delete | two stores of the same data without a transaction; deletion cascades on some connections only |
| Intercepting proxy (`proxy/*.go`) | connections, one request at a time on each | CONNECT, tunnel, decrypted loop, forward, relay to channels | answers are written to a raw socket; a failed try must not add a second one; peers fall silent |
| Protocol adapters (`adapter/*.go`) | none or per stream | request and response conversion | pure but large |
| Pricing, TPS metrics (`pricing/*.go`, `metrics/tps.go`) | rules; sample window | resolve price, record, average | boundaries of rules and windows |
| Administration (`middleware`, `handler/database.go`, `handler/channel.go`, ...; `web/`) | tables | CRUD, backup, restore, UI | little beyond the database's own atomicity |

How they interact. A request passes authentication by API key (cache), the routing
rules (virtual models, which may call another model and may send a preface), the
list of candidate models (cache), and then the candidate loop, which asks the breaker,
probes, forwards, and reports to the breaker. Successful or incomplete answers start a
goroutine that records usage and charges the key. Failed attempts are written to the
request log. The sidecar is one more upstream channel whose process the manager
starts and restarts; an installation stops and starts it. The intercepting proxy has a
candidate loop of its own over the same tables, without the breaker. Administrators edit
all tables while requests use them, and clear the caches that stand before them.


## 2. Plan

In the order of how much of the system depends on the behaviour:

1. `Breaker`, `HalfOpenGate`, `CircuitBreaker` with proofs: the breaker under every
   interleaving of its callers, and the abstract gate it implements. Done.
2. `Relay` with proofs: the candidate loop with the response that several attempts
   share; it implements `CircuitBreaker`. Done.
3. `Sidecar`, `Login`, `Install`, `SidecarConfig` with proofs: the process, its login, its
   binary and its configuration. Done.
4. `ApiKeys` with proofs: cache, quota, concurrent charging, administration. Done but
   for the list of allowed models.
5. `UsageBuffer` with proofs: what a usage record goes through until both tables have
   it. Done.
6. `StreamConverters`, `StreamForward` with proofs: the events of four protocols, the
   converters, the writes and the idle watcher; its outcomes are those `Relay` takes as
   given. Done but for the assembly of frames from lines.
7. `RequestLog`, `Intercept`, `ResponsesSocket` with proofs: the log, the intercepting
   proxy and the relay of WebSocket frames. Done but for certificates and the rewriting
   of bodies.
8. `Skills`, `Catalog`, `VirtualModel` with proofs: what administrators edit. Done but for
   the tools of MCP and for prices.
9. Left: operators for pricing rules and TPS samples.

Every module keeps pure operators apart from actions, has one action per critical
section or per stretch of a goroutine between two points where others can act, and
declares no RECURSIVE operator, so that it can be proved about.

## 3. The modules

### Breaker, CircuitBreaker, HalfOpenGate

`Breaker` holds the methods of `CircuitBreaker` (circuit_breaker.go) as operators on one
entry: `AfterFailure`, `AfterSuccess`, `Verdict` and `AfterAsking` (MayProceed, which
reserves a channel whose cooldown is over), `AfterCancel`, `RetryAfter`, and the backoff
`CooldownWait`. A missing map entry is the record `Healthy`.

`CircuitBreaker` gives them to concurrent calls. A call asks (`Ask`), or does not ask
because it is a passthrough request (`Bypass`), then probes or forwards, and reports
at any later time. `ProbeSucceeds`, `ProbeFails` and `ProbeCancelled` are the ends of
`ProbeModelAndRecoverContext` with `finishProbe`; `ForwardSucceeds`, `ForwardFails` and
`ForwardSaysNothing` are what handleCompletion and finishForwardFailure report. `Tick`
is the clock; it does not pass the deadline of a running probe, whose context has that
deadline. The HTTP exchange of a probe is its outcome.

`HalfOpenGate` is the abstract promise, for each channel: nobody or one call holds it.
`CircuitBreaker` implements it (`GateSpec`): the holder is the call that is probing.

### Relay

One record for each client request. `Refuse` and `Admit` stand for everything before the
candidate loop; `NextCandidate`, `Skip`, `Bypass`, `Ask`, `NoteCooldown`, `AbandonProbe`
and `ProbeEnds` for the loop in handleCompletion and PassthroughEndpoint;
`AttemptSucceeds`, `AttemptFails` and `AttemptCancelled` for tryForward,
tryForwardPassthrough and forwardSSE, whose outcomes (module `Attempts`:
`PlainOutcomes`, `StreamOutcomes`, `Failures`) say what was sent, whether the channel is
to blame and whether another may be tried; `Report` for forwardOutcome and
finishForwardFailure; `Exhausted` for what is answered after the last candidate.
`Leave` is the client's departure. Bodies and frames are pieces of five kinds; model
names, keys and headers are left out.

Composition: `Relay` uses the operators of `Breaker` on its own entries, and the formula
`CallingSpec` says that it implements `CircuitBreaker`, the i-th candidate of a request
being one call. What is shown of `CircuitBreaker` therefore holds of the relay.

### StreamConverters, StreamForward

`StreamConverters` has the converters as operators on their state and one event or
chunk. An upstream's event becomes chunks of the canonical protocol, the one of OpenAI
(`FromAnthropic`, `FromGemini`, `FromResponses`, `FromOpenAI`, and `UpFinish` for
Finish), and each chunk becomes frames of the client's protocol (`ToAnthropic`,
`ToResponses`, `ToOpenAI`, `DownFinish`). The protocols share one vocabulary: a text is
pieces of one size, the arguments of a call are the number of their pieces, a finish
reason is stop, length, filter or error. `Observe` is streamTerminal. A chunk with
several parts, as Gemini sends them, is several chunks: what a converter might lose inside
one chunk is outside the model.

`StreamForward` is the loop of forwardSSE for one stream. `Receive` reads an event
(`PassesOn`) and either has one write due or puts the chunks of the event into `chunks`
(`Convert`, the beginning of convertCanonical). `ConvertChunk` converts the first of them
into the frames of one write (`writing`), which is made before the next chunk is looked
at; a chunk that fails drops the rest, and `TellBroken` writes the error frame of an event
that failed where no chunk says so. `next` is where the loop goes when all of that is done.
`Write` and `WriteCancelled` are the closure write, `ReadFails` and `Oversized` the ends of
reading, `Finish`, `CloseDown` and `Settle` what follows the loop, `Report` the failures
that are returned after their frame was written. `Return` includes the deferred function, which adds an
error frame. `WatcherFires` and `Leave` come from other goroutines. What the upstream
may say is `Middle` and `Endings`, which depend on what it has said (`answer`); it may
leave out the identity of a call, and fail or stop at any point. `pair` is the pair of
protocols; a native one passes frames on as they are.

Composition: `RelayKnows` says that whatever the loop returns is a member of
`StreamOutcomes`, from which `Relay` takes the outcomes of its streams, and that a stream
which came to its terminal event is never reported as idle. A write that fails or is late is
never itself blamed on the channel; but a slow client can cost the channel a failure, since
the watcher counts from the last read and slow writes let it run out, whereupon the next read
reports an idle channel (forwarding_stream.go:404, :579). The model has it, and the property
does not rule it out, as nothing in the code does.

### Sidecar

`running`, `closing` and `gen` are the fields of `Manager`; `gen` counts successful
starts and names the process, its stopCh and its doneCh. `watch[g]` is the goroutine
watch of generation g, `call[k]` one call of Start, Stop, Restart or InstallBinary. One
action is one critical section of `m.mu`, or one wait: `StopBegins` closes stopCh,
`StopLooks` reads doneCh again, `StopEnds` and `StopKills` are the ends of the waits,
`WatchLocks`, `WatchCloses`, `WatchDecides` and `WatchRestarts` follow the exit.
`ProcessExits` may happen at any time, and need not. A panic while `m.mu` is held is the
value "locked" of `panic` (gin recovers, the mutex stays locked), one in watch is "exit".

### ApiKeys

`row` is the table, `cache` the process-wide map with one entry for each key or none,
`req` the requests and `admin` the handlers of administrators. `Hit`, `Miss`, `Read` and
`Fill` are the steps of GetByKey between its locks, `Charge` the single UPDATE of
DeductQuota, `Change` and `Invalidate` the two steps of a handler, `Expire` the five
minutes, `Restart` the loss of everything but the table. A charge is one unit. The
copy in a cache entry remembers which request stored it (`by`), and a request whether
the cache was cleared after it read (`overtaken`); neither is in the code, and no
guard reads them.

### UsageBuffer

`due`, `buffer` and `batch` are where a record is before it is written; `Insert`,
`Receive` and `Ticks` move it. `Statement`, `Aggregates`, `Commit` and `Abandon` are
flushUsageBatch with a transaction `tx` that others see at its commit only; every
statement may fail. `DirectRow` and `DirectAgg` are insertDirect. `Start` is the
migration with its upsert, `BackfillDelete` and `BackfillInsert` the goroutine of
BackfillDailyAgg, `Stop` the end of the program, `Midnight` the change of date.
`dropped` and `blemished` record what was given up and why the tables may differ; no
guard reads them.

### Intercept

One client connection. `Connect` is handleConnect up to its loop; `FlowEnds` and
`TunnelTimer` are tunnelDirect; `ReadHead`, `BodyBreaks`, `Read` and `Route` read and sort a
request, `RefuseUnread`, `AnswerAlone`, `Forward`, `Resolve` answer it or find its candidates
(`Rejected`, `Candidates`). `Skip`, `Stop`, `SendFails`, `SendPlain`, `BeginStream` and
`Exhausted` are the loop over the candidates, `StreamLine`, `StreamEnds`, `StreamBreaks` and
`StreamAbandoned` the inside of tryForwardModelStream, `IdleEnds` the read deadline,
`EditChannel` the administrator. An answer is who wrote its heads and its bodies. On a
decrypted connection the read deadline is cleared between the head and the body
(server.go:185), so a body that does not come has no timer: `ConnectionEnds` excepts exactly
that state. A vision model that the rules call for a plain request has a usage record and a
charge of its own, which is not among `billed`.

### ResponsesSocket

`ReadFirst`, `Refuse`, `Dial`, `WriteFirst`, `CopyEnds` and `Close` are the handler;
`Receive`, `ReceiveFails`, `Lock` and `Write` (with `Unlock`) one round of copyFrames for
the source `p`. A frame is its number; `Rewritten` is the client's first frame after the
rules of the router have replaced its model, or with a vision model its images
(responses_websocket.go:45-53; the comments at :23 and :36 promise less). `unread` counts
those the handler has not yet read.
The peers `Send`, `Leave`, `Break` off, or `Stall`: after that a write to them may block for
ever, as the code sets no deadline. `lossy` remembers peers whose last frames TCP may have
discarded, because the connection broke or something was written after they had closed.

### RequestLog

`disk` maps the number of a file to its events and its date. `Record`, `Maintain` and
`Start` (New) may begin a rotation, whose steps `Move`, `Stamp` and `Reopen` can each be
followed by `RotationFails` or `Stops`. `Removed` is somebody else who takes the active file
away. `kept` remembers what was appended; no guard reads it.

### SidecarConfig, Install, Login

`SidecarConfig`: `Begin`, `Overlay`, `Reread` and `Save` are the steps of a request on the
row, `Create` to `Rename` those of ensureConfig and PatchConfig under `lock`; `NativeEdit`
is the sidecar's panel, `Crash` a stop of the program. Every request writes its own number,
so that lost edits show; `landed` remembers who wrote a field of the file last.

`Install`: files are inodes with blocks of the version they came from. `Begin` to
`Downloaded` are the download with its retries, `Extract` to `Extracted` the extraction,
`StopOld`, `Replace` and `StartNew` the replacement, whose other half is in `Sidecar`. An
extraction copies whatever blocks it finds, and may find damage or none: a bare binary is
copied unread, and io.CopyN returns before a checksum is looked at. `origin` and two fields of
a job remember whether the installation that put the binary in place resumed another one's
download or overlapped with another one; no guard reads them, and `BinaryIsWhole` says what
holds in each case.

`Login`: `StartLogin`, `Collect`, `PipeEnds`, `Forget` are StartLogin and its goroutine,
`BeginStop` and `Kill` the two halves of StopLogin.

### Skills

`rows`, `index`, `items` are tables, `disk` the files, `listCache` and `idCache` the caches.
A request that does not wait is one action; an import, a synchronisation and a read that
fills a cache are jobs with several. A file's content is the commit it was fetched at. A
deletion cascades or does not, as the connection it gets from the pool has foreign keys
checked or not (db.go:28): that of a skill may leave its files' index and its memberships
behind, that of a combination its items. Any id may be put into a combination, also one that no
skill has had yet (store/skill.go:431); `named` remembers those, and no guard reads it.

### Catalog

Of a row the model keeps who wrote its metadata last (`info`), whether a user did
(`edited`), its name and status. `SyncOne` is one Upsert of SyncModels; `ImportReads` and
`ImportWrites` are the look and the later UPDATE of one item of ImportJSON, `RouterReads` and
`RouterWrites` the two halves of the synchronisation with OpenRouter; a job remembers in
`seen` which rows were edited when it looked. `Restart` applies the presets; the others are the requests of an administrator and the refills of the caches.

### VirtualModel

One request. `Match`, `Transform` and `Images` are the stages at which the row, or the main
model's sight, is read again; `Ask` is one candidate of describeImages, `Describe` the
replacement. `Extracted`, `Covers` and `Latest` say what extraction counts in each protocol,
`Replaceable`, `LastWith` and `ReplaceImages` what replacement replaces. Images inside the
result of a tool ("nested": blocks of an Anthropic tool_result, the output of a
function_call_output) are neither extracted nor replaced. `Sendable` says which blocks the
messages of a protocol can have.

### MCHost, MCAdmin

The modules above share no state with one another, so one run checks several of them: a
variable `part` says which of them moves while the others rest, and every behaviour of
each is a behaviour of the sum. `MCHost` has `Sidecar`, `Intercept`, `RequestLog`,
`SidecarConfig`, `Install`, `Login` and `ResponsesSocket`; `MCAdmin` has `ApiKeys`, `Skills`, `Catalog` and
`VirtualModel`.

## 4. The runs

| Run | Bounds | What it shows |
|---|---|---|
| `breaker` | 1 channel, 5 calls, waits 2, 4, 8, 13, clock to 14 | types; at most one probe; reservations have an owner and are released; a running cooldown is never shortened; the gate is implemented |
| `relay_safety` | 2 requests of any kind, 2 channels, clock to 3 | exactly one response, no replay, an honest 503 |
| `relay_calls` | 2 requests, 1 channel, clock to 2 | `Relay` implements `CircuitBreaker`; requests end |
| `streams` | 13 pairs of protocols, 5 events and 2 calls in an answer | well-formed and complete output; no truncation passes for an end; the relay is told an outcome it expects, and no complete stream is idle; the loop returns |
| `stream_tools` | same | finding: pieces in the wrong block |
| `host` | below | one sidecar process; stopped is not crashed; deaths are noticed; one answer and one bill for an intercepted request; frames of a WebSocket arrive in order, the first (rewritten or not) and the last included; connections end unless they wait for a body; a log without holes; edits of the configuration and the login's output survive; no half binary but after an overlap, one of one version but after a resumed download |
| `sidecar_stop` | 2 calls, 3 generations | finding: two overlapping Stops |
| `mitm` | 1 request, 1 channel | finding: a request with a body is not passed on |
| `admin` | below | exact charging; the one way to a stale copy; no skill inherits but a membership asked for in advance; no job overwrites an edit that it could have seen; a new image is described, and no image in a message's content goes with it |
| `apikeys_exhausted` | 1 key, no administrator | finding: an exhausted key is admitted |
| `usage` | 3 records, channel of 1, batch of 2, 2 starts, 2 days | no record twice or lost unexplained; the two tables; the buffer drains |
| `usage_backfill` | same | finding: the migration is not idempotent |

Why the bounds are enough. Channels share nothing in the breaker, so one channel shows
what many do; five calls allow a probe, a late success, a late failure and two
askers at once, and the clock is long enough for every length of cooldown to run out.
In the relay, two requests on two channels are the least at which one request changes
the breaker under another and at which failover happens; with three the state space
is out of reach. For the sidecar, three generations let a delayed watcher meet the
channels of a younger process, and two calls overlap in every pair of kinds. In a
stream, two calls with text between them and arguments that come in turns need five
events, and a third call adds nothing the second has not. For the
keys, one key suffices because the cache is cleared as a whole. For the usage buffer,
three records fill a channel of one while a batch of two is written.

`host` has two calls of the manager and three generations; two requests over two rows of
two channels on a connection, so that a second request follows every kind of first one
and a second candidate every kind of failure; four events in three files of one event, so
that the oldest is dropped, and three days, so that files age; two requests or edits on
two shared fields and one switch (three requests hold as well, at ten times the states);
two installations of two versions, at a time or in turn, of two attempts each, the least at
which one resumes what another left, and at which two overlap (three installers and three
attempts are out of reach beside the rest); three logins and two stops; two frames
from each peer of a WebSocket, the first one and one that is copied (three hold as well).
`admin` has
one key, three requests and two administrators; one skill of a repository with two
commits, three requests and one job, which suffices for a job to overlap any two requests;
two models of one channel, three requests and one job; requests of two messages with two
blocks each in three protocols, and two vision channels. Parts at rest are in one state.

No invariant, action property or refinement of a passing run rests on these bounds alone:
each is proved for all values (section 5), `OneProbe` and the refinement of the gate for
short probes.

Deadlock is not checked in these models because each of them stops: clocks, starts and
requests are bounded. That waits end is stated by the liveness properties instead.

Fairness. `CircuitBreaker`: a probe ends, because probeChannel runs under a context with
a timeout and finishProbe follows it on every path. `Relay`: a handler's goroutine runs
on, and every wait in it has a timeout or ends with the client, except a stream that
keeps sending (`Endless`), which may last. `StreamForward`: the loop runs, a write has a
deadline, the watcher's timer fires and a body that was closed ends the reading; the
bound on events makes the upstream fall silent, so the run says nothing of one that
sends heartbeats for ever. `Sidecar`: goroutines run and timers fire; of
the process nothing is assumed. `UsageBuffer`: the loop's goroutine runs, its ticker
ticks and statements return, successfully or not. `Intercept`: the goroutine of a connection
runs, and a tunnel, an idle connection, a silent stream and a body that is sent to the HTTP
server have timers, while the body of a decrypted request has none, and its reading ends only
when the client has left; writes to the client have none and are
taken to end, so a client that stops reading is outside the run. `ResponsesSocket`: the
handler and the goroutines run and the dialer has a timeout; a write to a peer that is there
and does not read (`Blocked`) need not end, and `SocketEnds` excepts it. No fairness is assumed of
clients, administrators, processes, the clock or the success of anything. The other
modules have no liveness property.

Every property has a mutant: a change of one definition, of the kind a slip in the
code would make, under which TLC refutes the property.

## 5. The proofs

`CircuitBreaker_proofs`. `OneProbe` is not inductive: a failure reported late turns a
reservation into a cooldown while the probe still runs, and only time keeps a second
probe away. The invariant `IInv` therefore has the clocks: a probe is within its
deadline (`DeadlineInv`), a cooldown that overlaps a probe outlasts it (`OutlastInv`), a
cooldown ends no later than its counter says (`EntryInv`), and a reservation has an
owner. `OneProbe` and the refinement of `HalfOpenGate` need `ShortProbes`: the probe's
timeout is shorter than the first cooldown. The code does not enforce that: the probe
takes `request_timeout_seconds`, and the first cooldown is five minutes; with the
default of 60 seconds it holds, and without it the property fails. The other theorems
(`TypeCorrect`, `NoOrphanedReservation`, `CooldownMonotone`) need no such assumption.

`Sidecar_proofs`. `ProcessIsOwned` is not inductive either, because it does not say what
keeps Start from launching while the watcher of a dead process has not yet run.
`WatcherInv` says that `running` is true exactly while the newest watcher has not taken
the lock, and that no other watcher is in that state. For any number of callers and of
starts: `OneSidecar`, `NoRestartOfStopped`, `SidecarTypes`.

`Relay_proofs`. What may still be sent to a client depends on where its request is and on
what its last attempt came to. `Sound` says so of one record: where it stands in its list
(`Placed`), what its client has been sent (`Replied`: nothing but a preface while another
candidate may be chosen, a JSON object only as the last thing, and something unless the
client left), and what it may say of the breaker (`Honest`: a wait was noted only from a
cooldown, and no attempt was made while nothing failed). Each operator that makes the next
record has a lemma. With the bound on every cooldown (`Bounded`) that gives
`ExactlyOneResponse`, `HonestUnavailable` and `TypeCorrect`, and `NeverReplayed`, an action
property, from the same invariant. `ImplementsCalls` maps each step of a request to a step
of one of its calls of the breaker, or to none: requests are the callers that
`CircuitBreaker` leaves open. For any channels, lists of candidates, requests, waits and
timeouts; `TimesAssumption` says that timeouts and the bound of the clock are numbers.
What is proved of `CircuitBreaker` therefore holds of the relay: `Relay_proofs`
instantiates `CircuitBreaker_proofs` with the calls that requests stand for and concludes
`OneProbePerChannel` (under the same condition on the probe's timeout as `OneProbe`),
`ReservationsAreHeld` and `CooldownsOutlast`, which are said of requests and of the entries
of the breaker. No run checks these three; what they rest on is checked on `MCCircuitBreaker`
and, as `CallingSpec`, on `MCRelay`.

`UsageBuffer_proofs`. `AccountedFor` counts places. What is inductive is that the six places
partition the records (`PlacesApart`), that no sequence repeats one (`NoRepeats`), and that
the rows of an open transaction come from the part of the batch that has been tried
(`TxInv`), so that a commit moves exactly those. `DailyAgrees` is inductive once it is put
as a balance of two counts and of what the direct path owes (`Balanced`); the lemmas say
how appending rows and adding aggregates change each. For any records, keys, days and
sizes: `EveryRecordOnce`, `TablesAgree`, `TypeCorrect`.

`StreamForward_proofs`. None of the five invariants of a stream is inductive: they speak of
what was sent, and what may be sent next depends on both converters, on the chunks that
wait and on where the loop is. The invariant `IInv` has these parts:

- `ControlInv`: where the loop is and what it must have written by then; after a failure of
  the upstream nothing more is read, and the stream is finished only after an end was seen.
- `ConvInv`: the upstream converter follows what the upstream has said, call by call; while
  events are read it has not ended, and its finish reason is no error, and one of an answer
  cut short when that was.
- `ItemsInv`, `NamedInv`: the items of the downstream converter have different keys, and a
  call is named before a piece of it comes, but for OpenAI, where the pieces are held back.
- `ChunkInv`, `TruthInv`: no finish is among the chunks before there is one, and an answer
  that was cut short is known as such to the converter, or a chunk will tell it, or the
  upstream converter has yet to. `EndIsTrue` follows.
- `FramesInv`: the open blocks are those of the items that were announced (`Blocks`), from
  which `FramesInOrder` follows.
- `PiecesInv`: of every part, what arrived, what is held back until a call is named and what
  is still to be converted add up to what the upstream has said. At the end the last two
  are nothing, which is `EverythingArrives`.

`OutcomeIsKnown` and `TypeCorrect` follow from the same invariant. Every converter has
lemmas of its own that say what one event or one chunk does to each part. A sum over a
sequence (`Total`) and the calls that a last event repeats are recursive functions; that
they are what they are taken for at every length is not an induction of the library's but
follows from the least number at which it would fail (`LeastNumber`, `NaturalsBySteps`,
`TotalIs`). For any length of an answer, any number of calls and any pairs of protocols.

`Intercept_proofs` and `Host_proofs` are about `HostSpec`, in which one component moves and
the others are at rest.

- `OneLogin`: `OutputIsOwn` needs to know who is alive: the login the manager remembers is
  the only one that is not finished (`OwnerInv`). For any number of logins and stops;
  `LoginTypes` likewise.
- `OneAnswerAlways`, `BilledOnce`: `OneAnswer` speaks of what was written; whether the next
  step may write depends on the phase. `PhaseInv` says what may have been written in each:
  nothing before the candidates are tried (`Fresh`), the head of the channel being tried
  during a stream, and after a broken stream `wrote` is set, which keeps every other channel
  and the 502 away. `BillInv` ties the record to that head. For any channels, candidates and
  requests.
- `ConfigEditsSurvive`: a writer that is about to rename holds the lock (`Writing`) and has
  read every edit of another writer (`UpToDate`); what it may miss are edits of the panel,
  which the property leaves out. For any writers, fields and requests.
- `SocketFramesArrive`: what a copying goroutine holds is the frame after those it wrote,
  and what it wrote, holds and has not read add up to what was sent (`Flow`); before
  copying begins the first frame, rewritten or not, is in the handler's hands (`BeforeCopy`); a goroutine that
  ended had a reason (`Why`) and has left nothing behind that could still arrive (`Settled`).
  For any number of frames.
- `LogStaysWhole`: files are ordered by number, age and content (`Older`); an event is
  missing only if all before it are or its file has aged (`Complete`); and the time a
  rotation stamps lies between its neighbours' (`AgeFits`). For any number of backups,
  sizes, ages and events.
- `BinaryStaysWhole`, for any number of installers: the names are of different inodes
  (`Separate`); an installation that has been alone knows its files (`Knowing`: as long as it
  has come, of one version when it has begun the partial file itself), whatever earlier ones
  left; and the inode of a binary that such an installation put in place is open to nobody
  (`InPlace`), since whoever had it open would have run at the same time.
- `HostTypes`, the types of all seven components (`Intercept`'s alone: `ConnectionTypes`).
  Most of them are in the invariants above; the rest are bounds that need an invariant of
  their own: no file of the log grows beyond `MaxSize` (`LogBounds`), which opening,
  rotating and cleaning must keep, and the blocks of an archive, a partial download or a
  binary are holes or blocks of releases, within the bound `Longest`, wherever an attempt
  resumes.

Their assumptions on constants are those of `MCHost` (`BoundsAssumption` and the modules'
own): bounds are numbers, no writer is called "free", and there is at least one backup,
which New ensures.

`Admin_proofs` is about `AdminSpec` in the same way.

- `EveryChargeCounts`, `CacheStaleness`: `UsedIsCharged` needs that a row never created has no
  charges (`UnbornInv`) and that the set of requests is finite; `StaleOnlyIfOvertaken` needs
  the same statement about what a request has read and not yet stored (`ReaderInv`).
  `ApiKeysTypes` is about `ApiKeys` alone.
- `EditsStay`, an action property: a job that was not told to overwrite looks at each row once,
  so what it will write it has not seen edited (`LooksOnce`), and rows never reuse an id
  (`RowsHaveIds`).
- `NothingInherited`, an action property: whatever holds an id of a skill, on disk, in the
  index, in a cache or in a request in progress, holds one that was given out
  (`StoresHoldGiven`); what a combination holds was given out or is in `named` (`ItemsKnown`);
  and a new row has the next id.
- `ImagesAreDescribed`: `Latest` looks for the last images of a user among those that can be
  extracted, `LastWith` for the last that can be replaced, and a replacement goes to the
  second; the lemmas say that it is not before the first, that one answer stands in one
  block (`OneAnswerTold`) and that with none every image becomes a placeholder (`NoAnswer`).
  The invariant (`VirtualInv`) says that the request never changes while it is served, and
  which of the two replacements was sent. For any number of messages and candidates, of
  two blocks each.
- `AdminTypes`, the types of all four parts. A row is written from what a request in
  progress has read, so it is typed only because what every request holds is
  (`CatalogRead`, `SkillRead`: listed rows, what was fetched, the commit), and an id is
  within the bound because it was given out (`CatalogInv`, `SkillsInv`). `AdminAssumption`
  says that there is a key, that a directory's name is a name of a skill, and that the
  bounds are numbers.

Model-checked only: the liveness properties (`ReservationReleased`, `RequestEnds`,
`DeathNoticed`, `BufferDrains`, `Returns`, `ConnectionEnds` with `SocketEnds`), which need
fairness and are out of the prover's reach, and the five findings below, each a
counterexample. What a recursive function computes is proved where it is needed, for sums;
an induction over data that is cited from the library is out of reach as well.

## 6. Where code and words disagree

1. `stream_tools`: docs/relay-reliability-and-request-logs.md:8 says that parallel calls are
   associated by their index. The converter to Anthropic sends every piece to the block
   opened last: text after a call, or the arguments of calls told in turns, end up in the
   wrong block.
2. `sidecar_stop`: manager.go:225 says that Stop waits ten seconds at most. A second Stop
   in that time closes stopCh again, panics with `m.mu` held, and the first never returns.
3. `apikeys_exhausted`: proxy.go:777 says that a limited key needs a positive balance. The
   balance is a copy up to five minutes old that charging does not clear.
4. `usage_backfill`: db.go:358 calls the upsert of the migration idempotent. For records
   without an API key it inserts their rows again.
5. `mitm`: server.go:262 says that requests which are not for a model are passed through. The
   loop has read and closed the body by then, so that writing a request with a body fails
   and 502 is answered.

Without a run of its own: line 12 of the same document says that an ordinary success no
longer clears a cooldown, but RecordSuccess (proxy.go:442, :745) deletes the entry in any
state, for requests that were in flight and for passthrough requests; `CircuitBreaker` has
it. images.go:107 says that images of earlier turns get a placeholder and are not passed
on, but a request without a new image only gets its model replaced; `ImagesDescribed`
therefore speaks of requests with a new one. syncer.go:31 and :105 say that a row the user has
edited keeps what he edited, but Upsert (store/model.go:340) replaces a display name that
equals the model's id on such rows, too. server.go:172 sets a deadline so that no goroutine
blocks for ever, but line 185 clears it before the body is read. binary.go:141 speaks of a
verification of the download; there is none but of its size. responses_websocket.go:23 and
:36 say that the first frame is not converted, or at most its model replaced; a vision model
replaces its images, too. skill.go:249 says that an update moves the
directory to the new name, but it deletes the old one; `Skills` has it.

## 7. What is not modelled

The conversions of requests and of whole answers are large and pure, and the
repository's tests cover them example by example. Of streams, the assembly of frames
from lines, comments, events that are no JSON, usage and TPS are left out. A header
that a failed attempt left behind (forwarding_stream.go:382) is not modelled, nor the body
that `io.ReadAll` truncates (adapter.go:593). Certificates, the choice of domains, the
rewriting of intercepted bodies, the providers of balances, quota and management requests to
the sidecar, and the user interface are input and output. The tools of MCP only read. Prices,
pricing rules and TPS are functions of numbers.

Some behaviour is in the modules although no property rules it out, because the code
promises nothing of it: a switch that a concurrent save of the configuration loses, names
that SyncRepo writes back, a binary that two installations at once have truncated or that was
put together from two releases, a slow client whose channel is blamed as idle, images in the
results of tools that reach the main model, a membership that was given before its skill
existed, a JSON error after a preface, and the last frames of a WebSocket upstream that closed,
which are lost when the client sends another frame before they were copied.
`PROJECT.json` lists them among the hazards, with the lines where they bite.
