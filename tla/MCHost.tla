-------------------------------- MODULE MCHost --------------------------------
(***************************************************************************)
(* Instances for TLC of what the server keeps outside the database: the    *)
(* sidecar's process, its binary, configuration and login, connections of  *)
(* the intercepting proxy and of WebSockets, and the request log.  They    *)
(* share no variable, so a behaviour runs one of them, "part", while the   *)
(* others stay at rest; every behaviour of each of them is one of these.    *)
(***************************************************************************)
EXTENDS Sidecar, FiniteSets

CONSTANTS Channels, MaxRows, MaxOnConnection,             \* Intercept
          MaxBackups, MaxSize, MaxAge, MaxEvents, MaxDay, \* RequestLog
          Slots, Shared, Switches, MaxRequests,           \* SidecarConfig
          Installers, Retries, MaxVersion, MaxInstalls,   \* Install
          Stoppers, MaxLogins,                            \* Login
          MaxFrames                                       \* ResponsesSocket

\* "free" is no writer of the configuration; the bounds are numbers; New replaces
\* a number of backups that is 0 (logger.go:53).
ASSUME SlotsAssumption == "free" \notin Slots /\ MaxRequests \in Nat
ASSUME FramesAssumption == MaxFrames \in Nat
ASSUME LogAssumption == MaxBackups \in Nat \ {0} /\ MaxAge \in Nat

\* The other bounds are numbers too, a file holds an event at least (New replaces
\* a size that is 0), there is a release, and finitely many requests to install it.
ASSUME BoundsAssumption ==
  /\ MaxOnConnection \in Nat
  /\ MaxSize \in Nat \ {0} /\ MaxEvents \in Nat /\ MaxDay \in Nat
  /\ Retries \in Nat \ {0} /\ MaxVersion \in Nat \ {0} /\ MaxInstalls \in Nat /\ IsFiniteSet(Installers)

VARIABLES part,
  via, phase, kind, wantClose, open, healthy, flows, channel, todo, wrote, heads,
  pieces, billed, served,
  now, disk, logging, attached, oldest, rotation, backupNo, pending, starting, kept, events,
  row, file, backup, lock, job, landed, edits,
  latest, path, data, version, installer, origin, installs,
  authCmd, shown, output, process, reading, target,
  handler, conns, copier, hand, writeMu, sent, unread, written, left, stalled, lossy

connection == <<via, phase, kind, wantClose, open, healthy, flows, channel, todo, wrote,
                heads, pieces, billed, served>>
log        == <<now, disk, logging, attached, oldest, rotation, backupNo, pending,
                starting, kept, events>>
config     == <<row, file, backup, lock, job, landed, edits>>
binary     == <<latest, path, data, version, installer, origin, installs>>
login      == <<authCmd, shown, output, process, reading, target>>
socket     == <<handler, conns, copier, hand, writeMu, sent, unread, written, left, stalled, lossy>>

P == INSTANCE Intercept WITH MaxRequests <- MaxOnConnection
R == INSTANCE RequestLog WITH running <- logging, open <- attached, phase <- rotation,
                              k <- backupNo, count <- events
C == INSTANCE SidecarConfig WITH count <- edits
B == INSTANCE Install WITH running <- version, job <- installer, count <- installs
A == INSTANCE Login
W == INSTANCE ResponsesSocket WITH phase <- handler, open <- conns

\* The manager at rest has no process; a connection at rest is closed.
HostInit ==
  /\ part \in {"sidecar", "proxy", "log", "config", "binary", "login", "socket"}
  /\ Init /\ (running => part = "sidecar")
  /\ R!Init /\ C!Init /\ B!Init /\ A!Init /\ W!Init
  /\ file.state = "whole" => part = "config"
  /\ IF part = "proxy" THEN P!Init
     ELSE /\ via = "none" /\ phase = "closed" /\ kind = "ping" /\ wantClose = FALSE
          /\ open = FALSE /\ healthy = TRUE /\ flows = {}
          /\ channel = [c \in Channels |-> "active"] /\ todo = <<>> /\ wrote = FALSE
          /\ heads = <<>> /\ pieces = {} /\ billed = {} /\ served = 0

HostNext ==
  /\ UNCHANGED part
  /\ \/ part = "sidecar" /\ Next /\ UNCHANGED <<connection, log, config, binary, login, socket>>
     \/ part = "proxy" /\ P!Next /\ UNCHANGED <<vars, log, config, binary, login, socket>>
     \/ part = "log" /\ R!Next /\ UNCHANGED <<vars, connection, config, binary, login, socket>>
     \/ part = "config" /\ C!Next /\ UNCHANGED <<vars, connection, log, binary, login, socket>>
     \/ part = "binary" /\ B!Next /\ UNCHANGED <<vars, connection, log, config, login, socket>>
     \/ part = "login" /\ A!Next /\ UNCHANGED <<vars, connection, log, config, binary, socket>>
     \/ part = "socket" /\ W!Next /\ UNCHANGED <<vars, connection, log, config, binary, login>>

HostSpec ==
  /\ HostInit
  /\ [][HostNext]_<<part, vars, connection, log, config, binary, login, socket>>
  /\ Fairness /\ P!Fairness /\ W!Fairness

-----------------------------------------------------------------------------
(* The type invariants of the seven modules.                                *)
TypesOK ==
  TypeOK /\ P!TypeOK /\ R!TypeOK /\ C!TypeOK /\ B!TypeOK /\ A!TypeOK /\ W!TypeOK

(* Properties of the instances; their modules state them.                   *)
OneAnswer          == P!OneAnswer
BilledIsDelivered  == P!BilledIsDelivered
ConnectionEnds     == P!ConnectionEnds /\ W!SocketEnds
LogHasNoHole       == R!LogHasNoHole
SharedEditsSurvive == C!SharedEditsSurvive
BinaryIsWhole      == B!BinaryIsWhole
OutputIsOwn        == A!OutputIsOwn
FramesArrive       == W!FramesArrive
=============================================================================
