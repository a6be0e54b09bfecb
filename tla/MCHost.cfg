\* Two calls of the manager and three generations; two requests over two rows
\* on a connection; four events in three files; two edits of a
\* configuration; two installations, at a time or in turn, of two attempts each; three logins;
\* two frames from each peer of a WebSocket.
CONSTANTS
  Callers = {k1, k2}
  MaxStarts = 3
  Channels = {c1, c2}
  MaxRows = 2
  MaxOnConnection = 2
  MaxBackups = 2
  MaxSize = 1
  MaxAge = 1
  MaxEvents = 4
  MaxDay = 3
  Slots = {s1, s2}
  Shared = {port, keys}
  Switches = {autostart}
  MaxRequests = 2
  Installers = {i1, i2}
  Retries = 2
  MaxVersion = 2
  MaxInstalls = 2
  Stoppers = {l1, l2}
  MaxLogins = 3
  MaxFrames = 2
SPECIFICATION HostSpec
INVARIANTS TypesOK ProcessIsOwned StoppedIsNoCrash OneAnswer BilledIsDelivered LogHasNoHole SharedEditsSurvive BinaryIsWhole OutputIsOwn FramesArrive
PROPERTIES DeathNoticed ConnectionEnds
CHECK_DEADLOCK FALSE
