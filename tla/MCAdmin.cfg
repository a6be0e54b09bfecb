\* Three requests and two administrators on one key; a skill of a repository
\* with two commits, three requests and one job; two models of one channel;
\* requests of two messages to a virtual model with two vision channels.
CONSTANTS
  Keys = {k1}
  Requests = {r1, r2, r3}
  Admins = {a1, a2}
  Balances = {0, 2}
  Sources = {s1}
  Names = {foo, bar}
  DefaultName = foo
  Readme = md
  Others = {}
  MaxCommit = 2
  Channels = {c1}
  Models = {m1, m2}
  Jobs = {j1}
  MaxId = 2
  MaxRequests = 3
  Protocols = {"openai", "anthropic", "responses"}
  MaxMessages = 2
  MaxCandidates = 2
SPECIFICATION AdminSpec
SYMMETRY Interchangeable
INVARIANTS TypesOK UsedIsCharged StaleOnlyIfOvertaken ImagesDescribed
PROPERTIES NeverInherits EditsSurvive
CHECK_DEADLOCK FALSE
