------------------------- MODULE StreamForward_proofs -------------------------
(***************************************************************************)
(* Proofs about StreamForward, for any length of an answer, any number of  *)
(* calls in it and any pairs of protocols.                                 *)
(***************************************************************************)
EXTENDS StreamForward, SequenceTheorems, WellFoundedInduction, TLAPS

-----------------------------------------------------------------------------
(* Numbers and sums *)

\* Every set of natural numbers has a least element.
LEMMA LeastNumber ==
  ASSUME NEW T, T \subseteq Nat, T # {}
  PROVE  \E x \in T : \A y \in T : x <= y
<1> DEFINE Less == OpToRel(<, Nat)
<1>1. IsWellFoundedOn(Less, Nat)
  BY NatLessThanWellFounded
<1>2. PICK x \in T : \A y \in T : ~ (<<y, x>> \in Less)
  <2> HIDE DEF Less
  <2> QED BY <1>1, WFMin
<1>3. ASSUME NEW y \in T PROVE ~ (y < x)
  BY <1>2 DEF Less, OpToRel
<1> HIDE DEF Less
<1>4. \A y \in T : x <= y
  BY <1>3
<1> QED BY <1>4

\* Induction over the natural numbers, about a set of them.
LEMMA NaturalsBySteps ==
  ASSUME NEW S, 0 \in S, \A n \in Nat : n \in S => n + 1 \in S
  PROVE  Nat \subseteq S
<1> SUFFICES ASSUME Nat \ S # {} PROVE FALSE
  OBVIOUS
<1>1. PICK x \in Nat \ S : \A y \in Nat \ S : x <= y
  BY LeastNumber
<1>2. x # 0 /\ x - 1 \in Nat
  BY <1>1
<1>3. x - 1 \in S => x \in S
  BY <1>2
<1> QED BY <1>1, <1>2, <1>3

\* The sums of the first elements of a sequence, one by one.
Sums(s, m) == {f \in [0 .. m -> Nat] : f[0] = 0 /\ \A n \in 1 .. m : f[n] = f[n - 1] + s[n]}

\* A sum is what its recursive definition says.
LEMMA SumsExist ==
  ASSUME NEW s \in Seq(Nat)
  PROVE  Sums(s, Len(s)) # {}
<1> DEFINE S == {m \in Nat : m <= Len(s) => Sums(s, m) # {}}
<1>0. Len(s) \in Nat /\ \A n \in 1 .. Len(s) : s[n] \in Nat
  BY ElementOfSeq
<1>1. 0 \in S
  <2>1. [i \in 0 .. 0 |-> 0] \in Sums(s, 0)
    BY DEF Sums
  <2> QED BY <2>1
<1>2. ASSUME NEW m \in Nat, m \in S PROVE m + 1 \in S
  <2> SUFFICES ASSUME m + 1 <= Len(s) PROVE Sums(s, m + 1) # {}
    BY <1>0
  <2>1. PICK f : f \in Sums(s, m)
    BY <1>0, <1>2
  <2>5. f \in [0 .. m -> Nat] /\ f[0] = 0 /\ \A n \in 1 .. m : f[n] = f[n - 1] + s[n]
    BY <2>1 DEF Sums
  <2> DEFINE g == [i \in 0 .. m + 1 |-> IF i = m + 1 THEN f[m] + s[m + 1] ELSE f[i]]
  <2>2. f[m] \in Nat /\ s[m + 1] \in Nat
    BY <1>0, <2>5
  <2>3. g \in [0 .. m + 1 -> Nat]
    BY <2>5, <2>2
  <2>4. g[0] = 0 /\ \A n \in 1 .. m + 1 : g[n] = g[n - 1] + s[n]
    BY <2>5
  <2>6. g \in Sums(s, m + 1)
    BY <2>3, <2>4 DEF Sums
  <2> QED BY <2>6
<1>3. Nat \subseteq S
  <2> HIDE DEF S
  <2> QED BY <1>1, <1>2, NaturalsBySteps
<1> QED BY <1>0, <1>3

\* Total is what any function adds up to that sums the elements one by one: two
\* such functions differ nowhere, because the first place where they do would
\* follow one where they agree.
LEMMA TotalIs ==
  ASSUME NEW s \in Seq(Nat),
         NEW f \in Sums(s, Len(s))
  PROVE  Total(s) = f[Len(s)]
<1> DEFINE D(g) == [n \in 0 .. Len(s) |-> IF n = 0 THEN 0 ELSE g[n - 1] + s[n]]
           h == CHOOSE g : g = D(g)
           S == {m \in Nat : m <= Len(s) => h[m] = f[m]}
<1>0. Len(s) \in Nat
  OBVIOUS
<1>7. f \in [0 .. Len(s) -> Nat] /\ f[0] = 0 /\ \A n \in 1 .. Len(s) : f[n] = f[n - 1] + s[n]
  BY DEF Sums
<1>1. f = D(f)
  <2>1. \A n \in 0 .. Len(s) : f[n] = D(f)[n]
    BY <1>7
  <2> QED BY <1>7, <2>1
<1>2. h = D(h)
  BY <1>1
<1>3. Total(s) = h[Len(s)]
  BY DEF Total
<1>4. 0 \in S
  <2>1. h[0] = 0
    <3> HIDE DEF h
    <3> QED BY <1>0, <1>2
  <2> HIDE DEF h
  <2> QED BY <2>1, <1>7
<1>5. ASSUME NEW m \in Nat, m \in S PROVE m + 1 \in S
  <2> SUFFICES ASSUME m + 1 <= Len(s) PROVE h[m + 1] = f[m + 1]
    OBVIOUS
  <2>1. h[m + 1] = h[m] + s[m + 1]
    <3> HIDE DEF h
    <3> QED BY <1>0, <1>2
  <2>2. f[m + 1] = f[m] + s[m + 1]
    BY <1>0, <1>7
  <2> QED BY <1>0, <1>5, <2>1, <2>2
<1>6. Nat \subseteq S
  <2> HIDE DEF S
  <2> QED BY <1>4, <1>5, NaturalsBySteps
<1> QED
  <2> HIDE DEF h
  <2> QED BY <1>0, <1>3, <1>6

\* A sum is a number, nothing sums to 0, and one number to itself.
LEMMA TotalOfFew ==
  /\ \A s \in Seq(Nat) : Total(s) \in Nat
  /\ Total(<<>>) = 0
  /\ \A n \in Nat : Total(<<n>>) = n
<1>1. ASSUME NEW s \in Seq(Nat) PROVE Total(s) \in Nat
  <2>1. PICK f : f \in Sums(s, Len(s))
    BY SumsExist
  <2>2. f \in [0 .. Len(s) -> Nat] /\ Len(s) \in Nat
    BY <2>1 DEF Sums
  <2> QED BY <2>1, <2>2, TotalIs
<1>2. Total(<<>>) = 0
  <2>1. [i \in 0 .. 0 |-> 0] \in Sums(<<>>, 0)
    BY DEF Sums
  <2>2. <<>> \in Seq(Nat) /\ Len(<<>>) = 0
    OBVIOUS
  <2> QED BY <2>1, <2>2, TotalIs
<1>3. ASSUME NEW n \in Nat PROVE Total(<<n>>) = n
  <2> DEFINE f == [i \in 0 .. 1 |-> IF i = 0 THEN 0 ELSE n]
  <2>1. f \in Sums(<<n>>, 1)
    BY DEF Sums
  <2>2. <<n>> \in Seq(Nat) /\ Len(<<n>>) = 1 /\ f[1] = n
    OBVIOUS
  <2> HIDE DEF f
  <2> QED BY <2>1, <2>2, TotalIs
<1> QED BY <1>1, <1>2, <1>3

\* Sums add up.
LEMMA TotalOfConcat ==
  ASSUME NEW s \in Seq(Nat), NEW t \in Seq(Nat)
  PROVE  Total(s \o t) = Total(s) + Total(t)
<1>1. PICK f : f \in Sums(s, Len(s))
  BY SumsExist
<1>2. PICK g : g \in Sums(t, Len(t))
  BY SumsExist
<1>3. /\ f \in [0 .. Len(s) -> Nat] /\ f[0] = 0
      /\ \A n \in 1 .. Len(s) : f[n] = f[n - 1] + s[n]
  BY <1>1 DEF Sums
<1>4. /\ g \in [0 .. Len(t) -> Nat] /\ g[0] = 0
      /\ \A n \in 1 .. Len(t) : g[n] = g[n - 1] + t[n]
  BY <1>2 DEF Sums
<1>13. /\ \A n \in 0 .. Len(s) : f[n] \in Nat
       /\ \A n \in 0 .. Len(t) : g[n] \in Nat
  <2>1. f \in [0 .. Len(s) -> Nat] /\ g \in [0 .. Len(t) -> Nat]
    BY <1>1, <1>2 DEF Sums
  <2> QED BY <2>1
<1> DEFINE m == Len(s)
           k == Len(t)
           h == [n \in 0 .. m + k |-> IF n <= m THEN f[n] ELSE f[m] + g[n - m]]
<1>5. m \in Nat /\ k \in Nat /\ f[m] \in Nat /\ g[k] \in Nat
  <2>1. Len(s) \in Nat /\ Len(t) \in Nat
    OBVIOUS
  <2>2. f[Len(s)] \in Nat
    BY <1>13, <2>1
  <2>3. g[Len(t)] \in Nat
    BY <1>13, <2>1
  <2> QED BY <2>1, <2>2, <2>3
<1>6. s \o t \in Seq(Nat) /\ Len(s \o t) = m + k
  OBVIOUS
<1>7. h \in [0 .. m + k -> Nat]
  BY <1>3, <1>4, <1>5
<1>8. h[0] = 0
  BY <1>3, <1>5
<1>9. ASSUME NEW n \in 1 .. m + k PROVE h[n] = h[n - 1] + (s \o t)[n]
  <2>1. CASE n <= m
    <3>1. (s \o t)[n] = s[n]
      BY <2>1, <1>5
    <3> QED BY <3>1, <2>1, <1>3, <1>5
  <2>2. CASE n > m
    <3>1. (s \o t)[n] = t[n - m] /\ n - m \in 1 .. k
      BY <2>2, <1>5
    <3>2. h[n] = f[m] + g[n - m]
      BY <2>2, <1>5
    <3>3. g[n - m] = g[n - m - 1] + t[n - m]
      BY <3>1, <1>4
    <3>4. h[n - 1] = f[m] + g[n - m - 1]
      <4>1. CASE n - 1 = m
        BY <4>1, <1>4, <1>5
      <4>2. CASE n - 1 > m
        BY <4>2, <1>5
      <4> QED BY <4>1, <4>2, <2>2, <1>5
    <3>5. g[n - m - 1] \in Nat
      <4>1. n - m - 1 \in 0 .. k
        BY <3>1, <1>5
      <4> QED BY <4>1, <1>13
    <3>6. t[n - m] \in Nat
      BY <3>1, ElementOfSeq
    <3> QED BY <3>1, <3>2, <3>3, <3>4, <3>5, <3>6, <1>5
  <2> QED BY <2>1, <2>2, <1>5
<1>10. h \in Sums(s \o t, Len(s \o t))
  BY <1>6, <1>7, <1>8, <1>9 DEF Sums
<1>11. h[m + k] = f[m] + g[k]
  BY <1>4, <1>5
<1>12. Total(s \o t) = h[m + k]
  <2> HIDE DEF h
  <2> QED BY <1>6, <1>10, TotalIs
<1> QED BY <1>1, <1>2, <1>11, <1>12, TotalIs
-----------------------------------------------------------------------------
(* The invariant *)

\* The loop has not failed, and not gone into a failure.
Fine == next \in {"read", "finish", "close", "settle"}
Going == Fine \/ next = "broken"

\* What the client has, and what it is about to get.
Written == sent \o writing

\* Where the loop is, and what it must have written by then.
ControlInv ==
  /\ result = "none" <=> next # "returned"
  /\ next = "returned" \/ next \in Failing \/ next = "settle" => chunks = <<>>
  /\ next = "returned" => writing = <<>>
  /\ pair.native => chunks = <<>> /\ next \notin {"broken", "conversion", "close"}
  /\ sent # <<>> => started
  /\ next \in Failing => started \/ writing # <<>>
  /\ pair.native /\ next # "returned" /\ terminal.complete => started \/ writing # <<>>
  /\ result \in Failing \cup {"incomplete", "write", "slow"} => started
  /\ Fine => ~terminal.failed
  /\ next \in {"finish", "close", "settle"} => terminal.complete
  /\ next = "read" /\ terminal.complete => pair.up = "openai" /\ answer.finished
  /\ next = "read" /\ terminal.incomplete => terminal.complete
  /\ next = "read" /\ terminal.length => pair.up \in {"openai", "anthropic"} /\ answer.finished

\* The upstream converter follows what the upstream has said.
CallsInv ==
  /\ pair.up = "anthropic" => conv.count = answer.calls
  /\ pair.up = "responses" => 
       /\ conv.count = answer.calls
       /\ \A t \in Tools :
            IF t < answer.calls THEN conv.index[t] \in 0 .. answer.calls - 1 /\ conv.got[t] = answer.total[t]
                                ELSE conv.index[t] = -1 /\ conv.got[t] = 0

\* While events are read the upstream converter has not ended and nothing was
\* said of a call that was not begun; the reason it will finish with is no
\* error, and one of an answer that was cut short when it was.
ConvInv ==
  ~pair.native =>
  /\ next = "read" => CallsInv /\ ~conv.terminal
  /\ next \in {"read", "finish"} => ~conv.finished /\ ~conv.failed
  /\ next = "finish" /\ pair.up = "responses" => conv.terminal
  /\ next = "read" => \A t \in Tools : t >= answer.calls => answer.total[t] = 0
  /\ next = "read" /\ answer.latest # TheText => answer.latest < answer.calls
  /\ conv.reason # "error"
  /\ Fine /\ pair.up # "openai" /\ (terminal.incomplete \/ terminal.length) => conv.reason \in Cut

\* The items of the downstream converter are filed under different keys; for
\* OpenAI the key is the call, and the others name a call before they say more.
ItemsOk(up, protocol, items) ==
  /\ \A i, j \in 1 .. Len(items) : items[i].key = items[j].key => i = j
  /\ \A i \in 1 .. Len(items) :
       /\ up = "openai" => items[i].of = items[i].key
       /\ up # "openai" /\ protocol = "responses" => items[i].named
       /\ items[i].key = TheText => items[i].named
       /\ protocol = "anthropic" => items[i].size = 0
  /\ protocol = "openai" => items = <<>>

\* The downstream converter.
ItemsInv ==
  /\ Going => ~down.failed
  /\ Going /\ down.finished => next = "settle"
  /\ down.reason # "error"
  /\ ItemsOk(pair.up, pair.down, down.items)

\* A chunk that names the call with the index k.
Names(c, k) == c.kind = "call" /\ c.named /\ c.index = k
\* There is an item under the key k.
Filed(items, k) == \E i \in 1 .. Len(items) : items[i].key = k

\* A call is named before a piece of it comes, but for OpenAI.
NamedInv ==
  Fine /\ pair.down = "responses" /\ pair.up # "openai" =>
    /\ \A k \in 0 .. conv.count - 1 : Filed(down.items, k) \/ \E j \in 1 .. Len(chunks) : Names(chunks[j], k)
    /\ \A i \in 1 .. Len(chunks) : chunks[i].kind = "call" /\ ~chunks[i].named =>
         Filed(down.items, chunks[i].index) \/ \E j \in 1 .. i - 1 : Names(chunks[j], chunks[i].index)

\* The answer was cut short, or will be said to have been.
Short == terminal.incomplete \/ (pair.up = "openai" /\ terminal.length)

\* No finish is told before there is one.
ChunkInv ==
  \A i \in 1 .. Len(chunks) :
    /\ chunks[i].kind = "call" /\ pair.up = "openai" => chunks[i].index = chunks[i].tool
    /\ chunks[i].kind = "finish" =>
         /\ chunks[i].reason # "error" /\ terminal.complete
         /\ Short => chunks[i].reason \in Cut
         /\ next = "close" \/ (next = "read" /\ pair.up = "openai")
    /\ chunks[i].kind = "done" => next \in {"finish", "close"}
    /\ chunks[i].kind = "error" <=> next = "broken"

\* An end that was written, or is about to be, is a true one; and when the
\* answer was cut short, the downstream converter knows it, a chunk will tell
\* it, or the upstream converter has yet to.
TruthInv ==
  ~pair.native =>
    /\ \A i \in 1 .. Len(Written) : Written[i].kind \in {"finish", "end"} =>
         /\ terminal.complete /\ Written[i].reason # "error"
         /\ Short => Written[i].reason \in Cut \cup {"none"}
         /\ Written[i].kind = "end" => ~terminal.failed /\ next # "read"
    /\ Fine /\ pair.down # "openai" /\ Short =>
         \/ down.reason \in Cut
         \/ \E i \in 1 .. Len(chunks) : chunks[i].kind = "finish"
         \/ pair.up # "openai" /\ next = "finish"

-----------------------------------------------------------------------------
(* Blocks *)

OfKind(s, kind) == {i \in 1 .. Len(s) : s[i].kind = kind}

\* WellFormed of a sequence of frames.
Orderly(s) ==
  /\ \A i \in OfKind(s, "start") : i = 1
  /\ \A i, j \in OfKind(s, "open") : s[i].at = s[j].at => i = j
  /\ \A i \in OfKind(s, "delta") \cup OfKind(s, "close") :
       /\ \E j \in OfKind(s, "open") : j < i /\ s[j].at = s[i].at
       /\ ~\E j \in OfKind(s, "close") : j < i /\ s[j].at = s[i].at
  /\ \A i \in OfKind(s, "end") :
       /\ i = Len(s)
       /\ \A j \in OfKind(s, "open") : \E k \in OfKind(s, "close") : s[k].at = s[j].at

\* Its block was opened: the Responses protocol waits for the name of a call.
Announced(protocol, items, k) == protocol = "anthropic" \/ items[k].named

\* The blocks that are open are those of the items that were announced.
Blocks(s, protocol, items) ==
  /\ OfKind(s, "close") = {} /\ OfKind(s, "end") = {}
  /\ \A i \in OfKind(s, "open") :
       \E k \in 1 .. Len(items) : s[i].at = k - 1 /\ Announced(protocol, items, k)
  /\ \A k \in 1 .. Len(items) :
       Announced(protocol, items, k) => \E i \in OfKind(s, "open") : s[i].at = k - 1

\* What was written is in order, begins with the first frame and has the blocks
\* of the items.
Shown(s, protocol, begun, items) ==
  Orderly(s) /\ (~begun => s = <<>>) /\ Blocks(s, protocol, items)

\* What was written is in order while the stream goes on, and however it ended.
FramesInv ==
  Converting =>
    /\ Orderly(Written)
    /\ Going /\ ~down.finished => Shown(Written, pair.down, down.started, down.items)
    /\ pair.down = "responses" /\ OfKind(Written, "end") # {} =>
         \A k \in 1 .. Len(down.items) : down.items[k].named

-----------------------------------------------------------------------------
(* Pieces *)

DuePieces(c, part) == IF c.kind \in {"text", "call"} /\ Of(c) = part THEN Size(c) ELSE 0

\* What all of them will add.
Due(cs, part) == Total([i \in 1 .. Len(cs) |-> DuePieces(cs[i], part)])

\* What was said of a call before its identity was known.
HeldBack(items, part) ==
  IF \E i \in 1 .. Len(items) : items[i].key = part /\ ~items[i].named
    THEN items[Place(items, part)].size ELSE 0

\* Nothing is lost or repeated: what was written, what is held back until a
\* call is named and what is still to be converted is what was said.
PiecesInv ==
  ~pair.native /\ (Fine \/ result \in {"ok", "incomplete"}) =>
    /\ \A p \in Parts : Arrived(Written, p) + HeldBack(down.items, p) + Due(chunks, p) = answer.total[p]
    /\ result # "none" => Concludes(pair.down, sent)

\* The inductive invariant.
IInv ==
  /\ TypeOK /\ ControlInv /\ ConvInv /\ ItemsInv /\ NamedInv /\ ChunkInv
  /\ TruthInv /\ FramesInv /\ PiecesInv
-----------------------------------------------------------------------------
(* Sequences of frames, chunks and items *)

Items == [key : Parts, of : Parts, named : BOOLEAN, size : Nat]

\* What arrives in two sequences of frames adds up.
LEMMA ArrivedAddsUp ==
  ASSUME NEW p \in Parts
  PROVE  /\ \A s \in Seq(Frames) : Arrived(s, p) \in Nat
         /\ Arrived(<<>>, p) = 0
         /\ \A f \in Frames : Arrived(<<f>>, p) = Pieces(f, p)
         /\ \A s, t \in Seq(Frames) : Arrived(s \o t, p) = Arrived(s, p) + Arrived(t, p)
<1> DEFINE Of_(s) == [i \in 1 .. Len(s) |-> Pieces(s[i], p)]
<1>1. \A f \in Frames : Pieces(f, p) \in Nat
  BY DEF Pieces, Frames, Start, Error
<1>2. ASSUME NEW s \in Seq(Frames) PROVE Of_(s) \in Seq(Nat)
  <2>1. \A i \in 1 .. Len(s) : Pieces(s[i], p) \in Nat
    BY <1>1, ElementOfSeq
  <2> QED BY <2>1, IsASeq, LenProperties
<1>3. ASSUME NEW s \in Seq(Frames), NEW t \in Seq(Frames) PROVE Of_(s \o t) = Of_(s) \o Of_(t)
  <2> QED OBVIOUS
<1>4. Of_(<<>>) = <<>>
  OBVIOUS
<1>5. ASSUME NEW f \in Frames PROVE Of_(<<f>>) = <<Pieces(f, p)>>
  OBVIOUS
<1>6. \A s : Arrived(s, p) = Total(Of_(s))
  BY DEF Arrived
<1> HIDE DEF Of_
<1>7. \A s \in Seq(Frames) : Arrived(s, p) \in Nat
  BY <1>2, <1>6, TotalOfFew
<1>8. Arrived(<<>>, p) = 0
  BY <1>4, <1>6, TotalOfFew
<1>9. \A f \in Frames : Arrived(<<f>>, p) = Pieces(f, p)
  BY <1>1, <1>5, <1>6, TotalOfFew
<1>10. ASSUME NEW s \in Seq(Frames), NEW t \in Seq(Frames)
       PROVE  Arrived(s \o t, p) = Arrived(s, p) + Arrived(t, p)
  <2>1. Total(Of_(s) \o Of_(t)) = Total(Of_(s)) + Total(Of_(t))
    BY <1>2, TotalOfConcat
  <2>2. Arrived(s \o t, p) = Total(Of_(s \o t))
    BY <1>6
  <2> QED BY <2>1, <2>2, <1>3, <1>6
<1> QED BY <1>7, <1>8, <1>9, <1>10

\* So does what is due in two sequences of chunks.
LEMMA DueAddsUp ==
  ASSUME NEW p \in Parts
  PROVE  /\ \A s \in Seq(Chunks) : Due(s, p) \in Nat
         /\ Due(<<>>, p) = 0
         /\ \A c \in Chunks : DuePieces(c, p) \in Nat /\ Due(<<c>>, p) = DuePieces(c, p)
         /\ \A s, t \in Seq(Chunks) : Due(s \o t, p) = Due(s, p) + Due(t, p)
<1> DEFINE Of_(s) == [i \in 1 .. Len(s) |-> DuePieces(s[i], p)]
<1>1. \A c \in Chunks : DuePieces(c, p) \in Nat
  BY DEF DuePieces, Chunks, Role, Text, Done, Failure, Size
<1>2. ASSUME NEW s \in Seq(Chunks) PROVE Of_(s) \in Seq(Nat)
  <2>1. \A i \in 1 .. Len(s) : DuePieces(s[i], p) \in Nat
    BY <1>1, ElementOfSeq
  <2> QED BY <2>1, IsASeq, LenProperties
<1>3. ASSUME NEW s \in Seq(Chunks), NEW t \in Seq(Chunks) PROVE Of_(s \o t) = Of_(s) \o Of_(t)
  <2> QED OBVIOUS
<1>4. Of_(<<>>) = <<>>
  OBVIOUS
<1>5. ASSUME NEW c \in Chunks PROVE Of_(<<c>>) = <<DuePieces(c, p)>>
  OBVIOUS
<1>6. \A s : Due(s, p) = Total(Of_(s))
  BY DEF Due
<1> HIDE DEF Of_
<1>7. \A s \in Seq(Chunks) : Due(s, p) \in Nat
  BY <1>2, <1>6, TotalOfFew
<1>8. Due(<<>>, p) = 0
  BY <1>4, <1>6, TotalOfFew
<1>9. \A c \in Chunks : DuePieces(c, p) \in Nat /\ Due(<<c>>, p) = DuePieces(c, p)
  BY <1>1, <1>5, <1>6, TotalOfFew
<1>10. ASSUME NEW s \in Seq(Chunks), NEW t \in Seq(Chunks)
       PROVE  Due(s \o t, p) = Due(s, p) + Due(t, p)
  <2>1. Total(Of_(s) \o Of_(t)) = Total(Of_(s)) + Total(Of_(t))
    BY <1>2, TotalOfConcat
  <2>2. Due(s \o t, p) = Total(Of_(s \o t))
    BY <1>6
  <2> QED BY <2>1, <2>2, <1>3, <1>6
<1> QED BY <1>7, <1>8, <1>9, <1>10

\* A key is in one place, or in none.
LEMMA PlaceIs ==
  ASSUME NEW items \in Seq(Items), NEW k
  PROVE  /\ Place(items, k) \in 0 .. Len(items)
         /\ Filed(items, k) => /\ Place(items, k) # 0
                               /\ items[Place(items, k)].key = k
         /\ ~Filed(items, k) => Place(items, k) = 0
<1> DEFINE I == {i \in 1 .. Len(items) : items[i].key = k}
<1>1. Place(items, k) = IF I # {} THEN CHOOSE x \in I : \A y \in I : x <= y ELSE 0
  BY DEF Place, SelectInSeq, Min
<1>2. I # {} => \E x \in I : \A y \in I : x <= y
  <2>1. I \subseteq Nat
    OBVIOUS
  <2> HIDE DEF I
  <2> QED BY <2>1, LeastNumber
<1>3. I # {} => Place(items, k) \in I
  <2> HIDE DEF I
  <2> QED BY <1>1, <1>2
<1>4. I # {} <=> Filed(items, k)
  BY DEF Filed
<1>5. I = {} => Place(items, k) = 0
  <2> HIDE DEF I
  <2> QED BY <1>1
<1> QED BY <1>3, <1>4, <1>5

\* An item is appended for a key that is not there.
LEMMA IncludingIs ==
  ASSUME NEW items \in Seq(Items), NEW k \in Parts, NEW of \in Parts
  PROVE  /\ Including(items, k, of) \in Seq(Items)
         /\ Filed(items, k) => Including(items, k, of) = items
         /\ ~Filed(items, k) => /\ Including(items, k, of) = Append(items, Item(k, of))
                                /\ Including(items, k, of) # items
<1>1. Item(k, of) \in Items
  BY DEF Item, Items
<1>2. Append(items, Item(k, of)) \in Seq(Items) /\ Append(items, Item(k, of)) # items
  BY <1>1, AppendProperties
<1> QED BY <1>2, PlaceIs DEF Including
-----------------------------------------------------------------------------
(* Frames that are added *)

\* One after the other is all of them at once.
LEMMA TwoMore ==
  ASSUME NEW w \in Seq(Frames), NEW r \in Seq(Frames), NEW s \in Seq(Frames)
  PROVE  w \o (r \o s) = (w \o r) \o s
BY ConcatAssociative

\* Three sequences are appended one after the other.
LEMMA ThreeMore ==
  ASSUME NEW w \in Seq(Frames), NEW r \in Seq(Frames), NEW s \in Seq(Frames), NEW t \in Seq(Frames)
  PROVE  w \o (r \o s \o t) = ((w \o r) \o s) \o t
<1>1. w \o (r \o s) = (w \o r) \o s
  BY TwoMore
<1> DEFINE q == r \o s
<1>2. q \in Seq(Frames)
  OBVIOUS
<1> HIDE DEF q
<1>3. w \o (q \o t) = (w \o q) \o t
  BY <1>2, TwoMore
<1> QED BY <1>1, <1>3 DEF q

\* What a frame at the end adds to each kind.
LEMMA OneMore ==
  ASSUME NEW s \in Seq(Frames), NEW f \in Frames
  PROVE  /\ s \o <<f>> \in Seq(Frames) /\ Len(s \o <<f>>) = Len(s) + 1 /\ Len(s) \in Nat
         /\ \A i \in 1 .. Len(s) : (s \o <<f>>)[i] = s[i]
         /\ (s \o <<f>>)[Len(s) + 1] = f
         /\ OfKind(s \o <<f>>, f.kind) = OfKind(s, f.kind) \cup {Len(s) + 1}
         /\ \A kind : kind # f.kind => OfKind(s \o <<f>>, kind) = OfKind(s, kind)
<1>1. /\ s \o <<f>> \in Seq(Frames) /\ Len(s \o <<f>>) = Len(s) + 1 /\ Len(s) \in Nat
      /\ \A i \in 1 .. Len(s) : (s \o <<f>>)[i] = s[i]
      /\ (s \o <<f>>)[Len(s) + 1] = f
  OBVIOUS
<1>2. 1 .. Len(s \o <<f>>) = (1 .. Len(s)) \cup {Len(s) + 1}
  BY <1>1
<1>3. OfKind(s \o <<f>>, f.kind) = OfKind(s, f.kind) \cup {Len(s) + 1}
  BY <1>1, <1>2 DEF OfKind
<1>4. ASSUME NEW kind, kind # f.kind PROVE OfKind(s \o <<f>>, kind) = OfKind(s, kind)
  BY <1>1, <1>2, <1>4 DEF OfKind
<1> QED BY <1>1, <1>3, <1>4

\* Another frame does no harm if it is a piece or the closing of an open block, or
\* the first block at its place, and nothing had ended.
LEMMA OrderlyMore ==
  ASSUME NEW s \in Seq(Frames), NEW f \in Frames, Orderly(s), OfKind(s, "end") = {},
         f.kind = "start" => s = <<>>,
         f.kind = "open" => \A i \in OfKind(s, "open") : s[i].at # f.at,
         f.kind \in {"delta", "close"} =>
           /\ \E j \in OfKind(s, "open") : s[j].at = f.at
           /\ ~\E j \in OfKind(s, "close") : s[j].at = f.at,
         f.kind = "end" =>
           \A j \in OfKind(s, "open") : \E k \in OfKind(s, "close") : s[k].at = s[j].at
  PROVE  Orderly(s \o <<f>>)
<1> DEFINE t == s \o <<f>>
           n == Len(s) + 1
<1>1. /\ t \in Seq(Frames) /\ Len(t) = n /\ n \in Nat
      /\ \A i \in 1 .. Len(s) : t[i] = s[i]
      /\ t[n] = f
      /\ OfKind(t, f.kind) = OfKind(s, f.kind) \cup {n}
      /\ \A kind : kind # f.kind => OfKind(t, kind) = OfKind(s, kind)
  BY OneMore
<1>2. \A kind : \A i \in OfKind(s, kind) : i \in 1 .. Len(s) /\ t[i] = s[i] /\ i < n
  BY <1>1 DEF OfKind
<1> HIDE DEF t
<1>3. \A i \in OfKind(t, "start") : i = 1
  <2>1. s = <<>> => n = 1
    OBVIOUS
  <2> QED BY <1>1, <2>1 DEF Orderly
<1> HIDE DEF n
<1>4. \A i, j \in OfKind(t, "open") : t[i].at = t[j].at => i = j
  <2>1. CASE f.kind # "open"
    <3>1. OfKind(t, "open") = OfKind(s, "open")
      BY <1>1, <2>1
    <3> QED BY <3>1, <1>2 DEF Orderly
  <2>2. CASE f.kind = "open"
    <3>1. OfKind(t, "open") = OfKind(s, "open") \cup {n}
      BY <1>1, <2>2
    <3>2. \A i, j \in OfKind(s, "open") : s[i].at = s[j].at => i = j
      BY DEF Orderly
    <3>3. \A i \in OfKind(s, "open") : t[i] = s[i] /\ t[i].at # t[n].at
      BY <1>1, <1>2, <2>2
    <3> QED BY <3>1, <3>2, <3>3
  <2> QED BY <2>1, <2>2
<1>5. ASSUME NEW i \in OfKind(t, "delta") \cup OfKind(t, "close")
      PROVE  /\ \E j \in OfKind(t, "open") : j < i /\ t[j].at = t[i].at
             /\ ~\E j \in OfKind(t, "close") : j < i /\ t[j].at = t[i].at
  <2>1. CASE i \in OfKind(s, "delta") \cup OfKind(s, "close")
    <3>1. i \in 1 .. Len(s) /\ t[i] = s[i] /\ i < n
      BY <2>1, <1>2
    <3>2. \E j \in OfKind(s, "open") : j < i /\ s[j].at = s[i].at
      BY <2>1 DEF Orderly
    <3>3. ~\E j \in OfKind(s, "close") : j < i /\ s[j].at = s[i].at
      BY <2>1 DEF Orderly
    <3>4. ~ n < i
      BY <3>1, <1>1
    <3> QED BY <3>1, <3>2, <3>3, <3>4, <1>1, <1>2
  <2>2. CASE i = n /\ f.kind \in {"delta", "close"}
    <3>1. ~ n < n
      BY <1>1
    <3> QED BY <2>2, <1>1, <1>2, <3>1
  <2> QED BY <2>1, <2>2, <1>1
<1>6. ASSUME NEW i \in OfKind(t, "end")
      PROVE  /\ i = Len(t)
             /\ \A j \in OfKind(t, "open") : \E k \in OfKind(t, "close") : t[k].at = t[j].at
  <2>1. i = n /\ f.kind = "end"
    BY <1>1
  <2>2. OfKind(t, "open") = OfKind(s, "open") /\ OfKind(t, "close") = OfKind(s, "close")
    BY <1>1, <2>1
  <2> QED BY <2>1, <2>2, <1>1, <1>2
<1> QED BY <1>3, <1>4, <1>5, <1>6 DEF Orderly, t

\* The items that are announced are all that matters.
LEMMA ShownSame ==
  ASSUME NEW s, NEW protocol, NEW begun, NEW items \in Seq(Items), NEW items2 \in Seq(Items),
         Shown(s, protocol, begun, items),
         Len(items) <= Len(items2),
         \A k \in 1 .. Len(items2) :
           Announced(protocol, items2, k) <=> k <= Len(items) /\ Announced(protocol, items, k)
  PROVE  Shown(s, protocol, begun, items2)
<1>1. Len(items) \in Nat /\ Len(items2) \in Nat /\ 1 .. Len(items) \subseteq 1 .. Len(items2)
  OBVIOUS
<1>2. Blocks(s, protocol, items2)
  BY <1>1 DEF Shown, Blocks
<1> QED BY <1>2 DEF Shown

\* The first frame.
LEMMA ShownStart ==
  ASSUME NEW protocol, NEW items, Shown(<<>>, protocol, FALSE, items)
  PROVE  Shown(<<Start>>, protocol, TRUE, items)
<1>1. <<>> \in Seq(Frames) /\ <<>> \o <<Start>> = <<Start>> /\ Start \in Frames /\ Start.kind = "start"
  BY DEF Frames, Start
<1>3. \A kind : OfKind(<<>>, kind) = {}
  BY DEF OfKind
<1>2. ASSUME NEW kind, kind # "start" PROVE OfKind(<<Start>>, kind) = OfKind(<<>>, kind)
  <2>1. Len(<<Start>>) = 1 /\ <<Start>>[1] = Start
    OBVIOUS
  <2>2. OfKind(<<Start>>, kind) = {}
    BY <2>1, <1>1, <1>2 DEF OfKind
  <2> QED BY <2>2, <1>3
<1>4. Orderly(<<Start>>)
  BY <1>1, <1>3, OrderlyMore DEF Shown
<1>5. Blocks(<<Start>>, protocol, items)
  BY <1>2, <1>3 DEF Shown, Blocks
<1> QED BY <1>4, <1>5 DEF Shown

\* An item is announced.
LEMMA ShownOpen ==
  ASSUME NEW s \in Seq(Frames), NEW protocol, NEW items \in Seq(Items), NEW items2 \in Seq(Items),
         Shown(s, protocol, TRUE, items), NEW of \in Parts, NEW k \in 1 .. Len(items2),
         Len(items) <= Len(items2),
         ~ (k <= Len(items) /\ Announced(protocol, items, k)),
         \A j \in 1 .. Len(items2) : Announced(protocol, items2, j) <=>
           j = k \/ (j <= Len(items) /\ Announced(protocol, items, j))
  PROVE  Shown(s \o <<Open(k - 1, of)>>, protocol, TRUE, items2)
<1> DEFINE f == Open(k - 1, of)
           t == s \o <<f>>
<1>1. f \in Frames /\ f.kind = "open" /\ f.at = k - 1
  BY DEF Open, Frames
<1>2. Len(items) \in Nat /\ Len(items2) \in Nat /\ 1 .. Len(items) \subseteq 1 .. Len(items2)
  OBVIOUS
<1> HIDE DEF f
<1>3. \A i \in OfKind(s, "open") : s[i].at # f.at
  <2> SUFFICES ASSUME NEW i \in OfKind(s, "open"), s[i].at = f.at PROVE FALSE
    OBVIOUS
  <2>1. PICK j \in 1 .. Len(items) : s[i].at = j - 1 /\ Announced(protocol, items, j)
    BY DEF Shown, Blocks
  <2>4. j - 1 = k - 1
    BY <2>1, <1>1
  <2>3. j \in Nat /\ k \in Nat /\ j - 1 = k - 1
    BY <2>4, <1>2
  <2>2. j = k
    BY <2>3
  <2> QED BY <2>1, <2>2, <1>2
<1>4. Orderly(t)
  BY <1>1, <1>3, OrderlyMore DEF Shown, Blocks
<1>5. /\ \A i \in 1 .. Len(s) : t[i] = s[i]
      /\ t[Len(s) + 1] = f
      /\ OfKind(t, f.kind) = OfKind(s, f.kind) \cup {Len(s) + 1}
      /\ \A kind : kind # f.kind => OfKind(t, kind) = OfKind(s, kind)
  BY <1>1, OneMore
<1>6. \A i \in OfKind(s, "open") : t[i] = s[i]
  BY <1>5 DEF OfKind
<1> HIDE DEF t
<1>7. OfKind(t, "open") = OfKind(s, "open") \cup {Len(s) + 1}
  BY <1>1, <1>5
<1>8. ASSUME NEW i \in OfKind(t, "open")
      PROVE  \E j \in 1 .. Len(items2) : t[i].at = j - 1 /\ Announced(protocol, items2, j)
  <2>1. CASE i \in OfKind(s, "open")
    <3>1. PICK j \in 1 .. Len(items) : s[i].at = j - 1 /\ Announced(protocol, items, j)
      BY <2>1 DEF Shown, Blocks
    <3> QED BY <3>1, <2>1, <1>2, <1>6
  <2>2. CASE i = Len(s) + 1
    BY <2>2, <1>1, <1>5
  <2> QED BY <2>1, <2>2, <1>7
<1>9. ASSUME NEW j \in 1 .. Len(items2), Announced(protocol, items2, j)
      PROVE  \E i \in OfKind(t, "open") : t[i].at = j - 1
  <2>1. CASE j = k
    BY <2>1, <1>1, <1>5, <1>7
  <2>2. CASE j # k
    <3>1. j \in 1 .. Len(items) /\ Announced(protocol, items, j)
      BY <2>2, <1>9, <1>2
    <3>2. PICK i \in OfKind(s, "open") : s[i].at = j - 1
      BY <3>1 DEF Shown, Blocks
    <3> QED BY <3>2, <1>6, <1>7
  <2> QED BY <2>1, <2>2
<1>10. OfKind(t, "close") = {} /\ OfKind(t, "end") = {}
  BY <1>1, <1>5 DEF Shown, Blocks
<1>11. Blocks(t, protocol, items2)
  BY <1>8, <1>9, <1>10 DEF Blocks
<1> QED BY <1>4, <1>11 DEF Shown, t, f

\* A piece of an item that was announced.
LEMMA ShownDelta ==
  ASSUME NEW s \in Seq(Frames), NEW protocol, NEW items \in Seq(Items),
         Shown(s, protocol, TRUE, items), NEW of \in Parts, NEW size \in Nat,
         NEW k \in 1 .. Len(items), Announced(protocol, items, k)
  PROVE  Shown(s \o <<Delta(k - 1, of, size)>>, protocol, TRUE, items)
<1> DEFINE f == Delta(k - 1, of, size)
           t == s \o <<f>>
<1>1. f \in Frames /\ f.kind = "delta" /\ f.at = k - 1
  BY DEF Delta, Frames
<1> HIDE DEF f
<1>2. /\ \E i \in OfKind(s, "open") : s[i].at = f.at
      /\ OfKind(s, "close") = {} /\ OfKind(s, "end") = {}
  BY <1>1 DEF Shown, Blocks
<1>3. Orderly(t)
  BY <1>1, <1>2, OrderlyMore DEF Shown
<1>4. /\ \A i \in 1 .. Len(s) : t[i] = s[i]
      /\ OfKind(t, f.kind) = OfKind(s, f.kind) \cup {Len(s) + 1}
      /\ \A kind : kind # f.kind => OfKind(t, kind) = OfKind(s, kind)
  BY <1>1, OneMore
<1>5. /\ OfKind(t, "open") = OfKind(s, "open")
      /\ OfKind(t, "close") = {} /\ OfKind(t, "end") = {}
  BY <1>1, <1>2, <1>4
<1>6. \A i \in OfKind(s, "open") : t[i] = s[i]
  BY <1>4 DEF OfKind
<1> HIDE DEF t
<1>7. Blocks(t, protocol, items)
  BY <1>5, <1>6 DEF Shown, Blocks
<1> QED BY <1>3, <1>7 DEF Shown, t, f
-----------------------------------------------------------------------------
(* The downstream converters, chunk by chunk *)

LEMMA PartsAre == Parts = Tools \cup {TheText} /\ TheText \notin Tools /\ TheText \in Parts
  BY ToolsAssumption DEF Parts, Tools, TheText

\* What a chunk is made of.
LEMMA ChunksAre ==
  ASSUME NEW c \in Chunks
  PROVE  /\ c.kind \in {"role", "text", "call", "finish", "done", "error"}
         /\ c.kind = "call" => /\ c.index \in Tools /\ c.tool \in Tools
                               /\ c.named \in BOOLEAN /\ c.size \in Nat
         /\ c.kind = "finish" => c.reason \in Reasons
         /\ c.kind \in {"text", "call"} => Key(c) \in Parts /\ Of(c) \in Parts /\ Size(c) \in Nat
<1>1. /\ c.kind \in {"role", "text", "call", "finish", "done", "error"}
      /\ c.kind = "call" => /\ c.index \in Tools /\ c.tool \in Tools
                            /\ c.named \in BOOLEAN /\ c.size \in Nat
      /\ c.kind = "finish" => c.reason \in Reasons
  BY DEF Chunks, Role, Text, Done, Failure
<1> QED BY <1>1, PartsAre DEF Key, Of, Size

\* The frame that opens a block carries no piece.
LEMMA OpenIs ==
  ASSUME NEW at \in Int, NEW of \in Parts
  PROVE  /\ Open(at, of) \in Frames /\ Open(at, of).kind = "open" /\ Open(at, of).at = at
         /\ \A p : Pieces(Open(at, of), p) = 0
BY DEF Frames, Open, Pieces

\* The frame of a piece carries as much as it says.
LEMMA DeltaIs ==
  ASSUME NEW at \in Int, NEW of \in Parts, NEW size \in Nat
  PROVE  /\ Delta(at, of, size) \in Frames
         /\ Delta(at, of, size).kind = "delta" /\ Delta(at, of, size).at = at
         /\ \A p : Pieces(Delta(at, of, size), p) = IF of = p THEN size ELSE 0
BY DEF Frames, Delta, Pieces

\* The first frame and an error carry no piece.
LEMMA PlainFrames ==
  /\ Start \in Frames /\ Start.kind = "start" /\ \A p : Pieces(Start, p) = 0
  /\ Error \in Frames /\ Error.kind = "error" /\ \A p : Pieces(Error, p) = 0
BY DEF Frames, Start, Error, Pieces

\* A frame, or none.
LEMMA FewIs ==
  ASSUME NEW condition, NEW f \in Frames
  PROVE  /\ Few(condition, f) \in Seq(Frames)
         /\ condition => Few(condition, f) = <<f>>
         /\ ~condition => Few(condition, f) = <<>>
         /\ \A p \in Parts : Arrived(Few(condition, f), p) = IF condition THEN Pieces(f, p) ELSE 0
<1>1. /\ condition => Few(condition, f) = <<f>>
      /\ ~condition => Few(condition, f) = <<>>
  BY DEF Few
<1>2. <<f>> \in Seq(Frames) /\ <<>> \in Seq(Frames)
  OBVIOUS
<1>3. \A p \in Parts : Arrived(<<f>>, p) = Pieces(f, p) /\ Arrived(<<>>, p) = 0
  BY ArrivedAddsUp
<1>4. CASE condition
  <2>1. Few(condition, f) = <<f>>
    BY <1>1, <1>4
  <2> QED BY <1>4, <2>1, <1>2, <1>3
<1>5. CASE ~condition
  <2>1. Few(condition, f) = <<>>
    BY <1>1, <1>5
  <2> QED BY <1>5, <2>1, <1>2, <1>3
<1> QED BY <1>4, <1>5

\* The first frame, or none.
LEMMA HelloIs ==
  ASSUME NEW d \in Down
  PROVE  /\ Hello(d) \in Seq(Frames)
         /\ \A p \in Parts : Arrived(Hello(d), p) = 0
         /\ Hello(d) = <<>> \/ Hello(d) = <<Start>>
<1>1. Hello(d) = <<>> \/ Hello(d) = <<Start>>
  BY DEF Hello, Few
<1>2. /\ Few(~d.started, Start) \in Seq(Frames)
      /\ \A p \in Parts : Arrived(Few(~d.started, Start), p)
                            = IF ~d.started THEN Pieces(Start, p) ELSE 0
  BY PlainFrames, FewIs
<1>3. \A p \in Parts : Pieces(Start, p) = 0
  BY PlainFrames
<1> QED BY <1>1, <1>2, <1>3 DEF Hello

\* What a downstream converter is made of; the first frame changes nothing else
\* of it.
LEMMA DownsAre ==
  ASSUME NEW d \in Down
  PROVE  /\ d.items \in Seq(Items)
         /\ Started(d) \in Down /\ Started(d).started = TRUE
         /\ Started(d).items = d.items /\ Started(d).finished = d.finished
         /\ Started(d).failed = d.failed /\ Started(d).reason = d.reason
BY DEF Down, Items, Started

\* A converter that has begun, with other items.
With(d, items) == [Started(d) EXCEPT !.items = items]

\* Other items change nothing else.
LEMMA WithIs ==
  ASSUME NEW d \in Down, NEW items \in Seq(Items)
  PROVE  /\ With(d, items) \in Down
         /\ With(d, items).items = items /\ With(d, items).started = TRUE
         /\ With(d, items).finished = d.finished /\ With(d, items).failed = d.failed
         /\ With(d, items).reason = d.reason
BY DEF Down, Items, Started, With

\* Text, or a piece of a call, for Anthropic.
LEMMA ToAnthropicPiece ==
  ASSUME NEW d \in Down, NEW c \in Chunks, c.kind \in {"text", "call"}
  PROVE  LET s == ToAnthropic(d, c)
             items == Including(d.items, Key(c), Of(c))
             new == items # d.items
         IN /\ s.state = With(d, items)
            /\ s.out = Hello(d) \o Few(new, Open(Len(d.items), Of(c)))
                         \o Few(Size(c) > 0, Delta(Len(items) - 1, Of(c), Size(c)))
BY DEF ToAnthropic, Step, With

\* The converter to Anthropic files the calls and the text under keys of their
\* own, and remembers how the answer finished.
LEMMA AnthropicItems ==
  ASSUME NEW d \in Down, NEW c \in Chunks, NEW up,
         ItemsOk(up, "anthropic", d.items),
         up = "openai" /\ c.kind = "call" => c.index = c.tool
  PROVE  /\ ToAnthropic(d, c).state \in Down
         /\ ItemsOk(up, "anthropic", ToAnthropic(d, c).state.items)
         /\ ToAnthropic(d, c).state.finished = d.finished
         /\ ToAnthropic(d, c).state.failed = d.failed
         /\ ToAnthropic(d, c).state.reason = IF c.kind = "finish" THEN c.reason ELSE d.reason
<1>1. CASE c.kind \in {"text", "call"}
  <2> DEFINE items == Including(d.items, Key(c), Of(c))
  <2>1. Key(c) \in Parts /\ Of(c) \in Parts /\ Size(c) \in Nat
    BY <1>1, ChunksAre
  <2>2. /\ items \in Seq(Items)
        /\ Filed(d.items, Key(c)) => items = d.items
        /\ ~Filed(d.items, Key(c)) => items = Append(d.items, Item(Key(c), Of(c)))
    <3>1. d.items \in Seq(Items)
      BY DownsAre
    <3> QED BY <2>1, <3>1, IncludingIs
  <2> HIDE DEF items
  <2>3. ItemsOk(up, "anthropic", items)
    <3>1. CASE Filed(d.items, Key(c))
      BY <3>1, <2>2
    <3>2. CASE ~Filed(d.items, Key(c))
      <4> DEFINE n == Len(d.items)
      <4>1. /\ n \in Nat /\ Len(items) = n + 1
            /\ \A i \in 1 .. n : items[i] = d.items[i]
            /\ items[n + 1] = Item(Key(c), Of(c))
        BY <3>2, <2>2, DownsAre
      <4>2. /\ items[n + 1].key = Key(c) /\ items[n + 1].of = Of(c) /\ items[n + 1].size = 0
            /\ items[n + 1].named = (Key(c) = TheText)
        BY <4>1 DEF Item
      <4>3. up = "openai" => Of(c) = Key(c)
        BY <1>1 DEF Of, Key
      <4>4. \A i \in 1 .. n : d.items[i].key # Key(c)
        BY <3>2 DEF Filed
      <4> HIDE DEF n
      <4>5. \A i \in 1 .. Len(items) : i \in 1 .. n \/ i = n + 1
        BY <4>1
      <4>6. \A i, j \in 1 .. Len(items) : items[i].key = items[j].key => i = j
        <5>1. \A i, j \in 1 .. n : items[i].key = items[j].key => i = j
          BY <4>1 DEF ItemsOk, n
        <5>2. \A i \in 1 .. n : items[i].key # items[n + 1].key
          BY <4>1, <4>2, <4>4
        <5> QED BY <5>1, <5>2, <4>5
      <4>7. \A i \in 1 .. Len(items) :
              /\ up = "openai" => items[i].of = items[i].key
              /\ items[i].key = TheText => items[i].named
              /\ items[i].size = 0
        <5>1. \A i \in 1 .. n :
                /\ up = "openai" => d.items[i].of = d.items[i].key
                /\ d.items[i].key = TheText => d.items[i].named
                /\ d.items[i].size = 0
          BY DEF ItemsOk, n
        <5>2. \A i \in 1 .. n :
                /\ up = "openai" => items[i].of = items[i].key
                /\ items[i].key = TheText => items[i].named
                /\ items[i].size = 0
          BY <5>1, <4>1
        <5>3. /\ up = "openai" => items[n + 1].of = items[n + 1].key
              /\ items[n + 1].key = TheText => items[n + 1].named
              /\ items[n + 1].size = 0
          BY <4>2, <4>3
        <5> QED BY <5>2, <5>3, <4>5
      <4> QED BY <4>6, <4>7 DEF ItemsOk
    <3> QED BY <3>1, <3>2
  <2>4. ToAnthropic(d, c).state = With(d, items)
    BY <1>1, ToAnthropicPiece DEF items
  <2>5. c.kind # "finish"
    BY <1>1
  <2>6. /\ With(d, items) \in Down /\ With(d, items).items = items
        /\ With(d, items).finished = d.finished /\ With(d, items).failed = d.failed
        /\ With(d, items).reason = d.reason
    BY <2>2, WithIs
  <2> QED BY <2>3, <2>4, <2>5, <2>6
<1>2. CASE c.kind = "finish"
  <2>1. ToAnthropic(d, c).state = [Started(d) EXCEPT !.reason = c.reason]
    BY <1>2 DEF ToAnthropic, Step
  <2>2. [Started(d) EXCEPT !.reason = c.reason] \in Down
    BY <1>2, ChunksAre DEF Started, Down
  <2>3. /\ [Started(d) EXCEPT !.reason = c.reason].items = d.items
        /\ [Started(d) EXCEPT !.reason = c.reason].finished = d.finished
        /\ [Started(d) EXCEPT !.reason = c.reason].failed = d.failed
        /\ [Started(d) EXCEPT !.reason = c.reason].reason = c.reason
    BY DEF Started, Down
  <2> QED BY <1>2, <2>1, <2>2, <2>3
<1>3. CASE c.kind = "done"
  <2>1. ToAnthropic(d, c).state = d
    BY <1>3 DEF ToAnthropic, Step
  <2> QED BY <1>3, <2>1
<1>4. CASE c.kind \in {"role", "error"}
  <2>1. ToAnthropic(d, c).state = Started(d)
    BY <1>4 DEF ToAnthropic, Step
  <2> QED BY <1>4, <2>1, DownsAre
<1> QED BY <1>1, <1>2, <1>3, <1>4, ChunksAre

\* Nothing is held back for Anthropic.
LEMMA AnthropicHolds ==
  ASSUME NEW items \in Seq(Items), NEW up, ItemsOk(up, "anthropic", items), NEW p \in Parts
  PROVE  HeldBack(items, p) = 0
<1>1. CASE \E i \in 1 .. Len(items) : items[i].key = p /\ ~items[i].named
  <2>1. Place(items, p) \in 1 .. Len(items)
    BY <1>1, PlaceIs DEF Filed
  <2>2. items[Place(items, p)].size = 0
    BY <2>1 DEF ItemsOk
  <2> QED BY <2>2 DEF HeldBack
<1> QED BY <1>1 DEF HeldBack

\* The converter to Anthropic passes on exactly the pieces of a chunk.
LEMMA AnthropicPieces ==
  ASSUME NEW d \in Down, NEW c \in Chunks, NEW p \in Parts
  PROVE  Arrived(ToAnthropic(d, c).out, p) = DuePieces(c, p)
<1>1. CASE c.kind \in {"text", "call"}
  <2> DEFINE items == Including(d.items, Key(c), Of(c))
             new == items # d.items
             first == Few(new, Open(Len(d.items), Of(c)))
             piece == Few(Size(c) > 0, Delta(Len(items) - 1, Of(c), Size(c)))
  <2>1. Key(c) \in Parts /\ Of(c) \in Parts /\ Size(c) \in Nat
    BY <1>1, ChunksAre
  <2>2. d.items \in Seq(Items) /\ items \in Seq(Items)
    BY <2>1, IncludingIs, DownsAre
  <2>3. ToAnthropic(d, c).out = Hello(d) \o first \o piece
    BY <1>1, ToAnthropicPiece
  <2>4. first = <<>> \/ first = <<Open(Len(d.items), Of(c))>>
    BY DEF Few
  <2>5. IF Size(c) > 0 THEN piece = <<Delta(Len(items) - 1, Of(c), Size(c))>> ELSE piece = <<>>
    BY DEF Few
  <2> HIDE DEF first, piece
  <2>6. first \in Seq(Frames) /\ Arrived(first, p) = 0
    <3> DEFINE f == Open(Len(d.items), Of(c))
    <3>1. f \in Frames /\ Pieces(f, p) = 0
      BY <2>1, <2>2, OpenIs
    <3> HIDE DEF f, new
    <3> QED BY <3>1, FewIs DEF first, f
  <2>7. piece \in Seq(Frames) /\ Arrived(piece, p) = IF Of(c) = p THEN Size(c) ELSE 0
    <3> DEFINE f == Delta(Len(items) - 1, Of(c), Size(c))
    <3>1. f \in Frames /\ Pieces(f, p) = IF Of(c) = p THEN Size(c) ELSE 0
      BY <2>1, <2>2, DeltaIs
    <3> HIDE DEF f
    <3>2. /\ Few(Size(c) > 0, f) \in Seq(Frames)
          /\ Arrived(Few(Size(c) > 0, f), p) = IF Size(c) > 0 THEN Pieces(f, p) ELSE 0
      BY <3>1, FewIs
    <3>3. piece = Few(Size(c) > 0, f)
      BY DEF piece, f
    <3> QED BY <2>1, <3>1, <3>2, <3>3
  <2>8. Hello(d) \in Seq(Frames) /\ Arrived(Hello(d), p) = 0
    BY HelloIs
  <2>9. Hello(d) \o first \in Seq(Frames)
    BY <2>6, <2>8
  <2>10. Arrived(Hello(d) \o first, p) = 0
    BY <2>6, <2>8, ArrivedAddsUp
  <2>11. Arrived((Hello(d) \o first) \o piece, p) = IF Of(c) = p THEN Size(c) ELSE 0
    <3>1. Arrived((Hello(d) \o first) \o piece, p) = Arrived(Hello(d) \o first, p) + Arrived(piece, p)
      BY <2>7, <2>9, ArrivedAddsUp
    <3> QED BY <2>1, <2>7, <2>10, <3>1
  <2>12. c.kind \in {"text", "call"}
    BY <1>1
  <2> QED BY <2>3, <2>11, <2>12 DEF DuePieces
<1>2. CASE c.kind \in {"role", "finish", "error"}
  <2>1. ToAnthropic(d, c).out = Hello(d)
    BY <1>2 DEF ToAnthropic, Step
  <2> QED BY <1>2, <2>1, HelloIs DEF DuePieces
<1>3. CASE c.kind = "done"
  <2>1. ToAnthropic(d, c).out = <<>>
    BY <1>3 DEF ToAnthropic, Step
  <2> QED BY <1>3, <2>1, ArrivedAddsUp DEF DuePieces
<1> QED BY <1>1, <1>2, <1>3, ChunksAre

\* The first frame is sent first, once.
LEMMA ShownHello ==
  ASSUME NEW w \in Seq(Frames), NEW protocol, NEW d \in Down, NEW items,
         Shown(w, protocol, d.started, items)
  PROVE  Shown(w \o Hello(d), protocol, TRUE, items)
<1>1. CASE d.started
  <2>1. w \o Hello(d) = w
    BY <1>1 DEF Hello, Few
  <2> QED BY <1>1, <2>1 DEF Shown
<1>2. CASE ~d.started
  <2>1. w = <<>>
    BY <1>2 DEF Shown
  <2>2. Shown(<<>>, protocol, FALSE, items)
    BY <1>2, <2>1 DEF Shown
  <2>3. w \o Hello(d) = <<Start>>
    BY <1>2, <2>1 DEF Hello, Few
  <2> QED BY <2>2, <2>3, ShownStart
<1> QED BY <1>1, <1>2

\* The converter to Anthropic opens a block for every new item and sends pieces
\* to open ones only.
LEMMA AnthropicShown ==
  ASSUME NEW d \in Down, NEW c \in Chunks, NEW w \in Seq(Frames),
         Shown(w, "anthropic", d.started, d.items)
  PROVE  Shown(w \o ToAnthropic(d, c).out, "anthropic",
               ToAnthropic(d, c).state.started, ToAnthropic(d, c).state.items)
<1>1. CASE c.kind \in {"text", "call"}
  <2> DEFINE items == Including(d.items, Key(c), Of(c))
             new == items # d.items
             first == Few(new, Open(Len(d.items), Of(c)))
             piece == Few(Size(c) > 0, Delta(Len(items) - 1, Of(c), Size(c)))
             w1 == w \o Hello(d)
             w2 == w1 \o first
             w3 == w2 \o piece
             n == Len(d.items)
  <2>1. Key(c) \in Parts /\ Of(c) \in Parts /\ Size(c) \in Nat
    BY <1>1, ChunksAre
  <2>2. d.items \in Seq(Items)
    BY DownsAre
  <2>3. /\ items \in Seq(Items)
        /\ Filed(d.items, Key(c)) => items = d.items
        /\ ~Filed(d.items, Key(c)) => /\ items = Append(d.items, Item(Key(c), Of(c)))
                                      /\ items # d.items
    BY <2>1, <2>2, IncludingIs
  <2>4. ToAnthropic(d, c).out = Hello(d) \o first \o piece /\ ToAnthropic(d, c).state = With(d, items)
    BY <1>1, ToAnthropicPiece
  <2>5. first = <<>> \/ first = <<Open(Len(d.items), Of(c))>>
    BY DEF Few
  <2>6. piece = <<>> \/ (piece = <<Delta(Len(items) - 1, Of(c), Size(c))>> /\ Size(c) > 0)
    BY DEF Few
  <2>14. Hello(d) \in Seq(Frames)
    BY HelloIs
  <2>15. first \in Seq(Frames)
    <3>1. Open(Len(d.items), Of(c)) \in Frames
      BY <2>1, <2>2, OpenIs
    <3> QED BY <3>1, FewIs
  <2>16. piece \in Seq(Frames)
    <3>1. Delta(Len(items) - 1, Of(c), Size(c)) \in Frames
      BY <2>1, <2>3, DeltaIs
    <3> QED BY <3>1, FewIs
  <2>7. w1 \in Seq(Frames) /\ w2 \in Seq(Frames)
    <3> HIDE DEF first
    <3> QED BY <2>14, <2>15
  <2>8. w \o (Hello(d) \o first \o piece) = w3
    <3>1. ASSUME NEW x \in Seq(Frames), NEW y \in Seq(Frames), NEW z \in Seq(Frames)
          PROVE  w \o (x \o y \o z) = ((w \o x) \o y) \o z
      BY ThreeMore, SMTT(60)
    <3> HIDE DEF first, piece
    <3>2. w \o (Hello(d) \o first \o piece) = ((w \o Hello(d)) \o first) \o piece
      BY <2>14, <2>15, <2>16, <3>1
    <3> QED BY <3>2
  <2>9. Shown(w1, "anthropic", TRUE, d.items)
    BY ShownHello
  <2> HIDE DEF items, w1
  <2>10. Len(items) >= 1 /\ Len(items) \in Nat /\ n \in Nat
    <3>1. CASE Filed(d.items, Key(c))
      BY <3>1, <2>2, <2>3 DEF Filed
    <3>2. CASE ~Filed(d.items, Key(c))
      BY <3>2, <2>2, <2>3
    <3> QED BY <3>1, <3>2
  <2>11. Shown(w2, "anthropic", TRUE, items)
    <3>1. CASE Filed(d.items, Key(c))
      <4>1. first = <<>> /\ items = d.items
        BY <3>1, <2>3 DEF Few
      <4> HIDE DEF first
      <4>2. w2 = w1
        BY <4>1, <2>7
      <4> QED BY <4>1, <4>2, <2>9
    <3>2. CASE ~Filed(d.items, Key(c))
      <4>1. first = <<Open(n, Of(c))>> /\ Len(items) = n + 1
        BY <3>2, <2>2, <2>3 DEF Few
      <4> DEFINE k == n + 1
      <4>2. k \in 1 .. Len(items) /\ k - 1 = n /\ n <= Len(items) /\ ~ (k <= n)
        BY <4>1, <2>10
      <4>3. \A j \in 1 .. Len(items) : j = k \/ j <= n
        BY <4>1, <2>10
      <4> HIDE DEF first, k
      <4>4. Shown(w1 \o <<Open(k - 1, Of(c))>>, "anthropic", TRUE, items)
        BY <2>1, <2>2, <2>3, <2>7, <2>9, <4>2, <4>3, ShownOpen DEF Announced
      <4> QED BY <4>1, <4>2, <4>4
    <3> QED BY <3>1, <3>2
  <2> HIDE DEF w2, first
  <2>12. Shown(w3, "anthropic", TRUE, items)
    <3>1. CASE Size(c) > 0
      <4>1. Len(items) \in 1 .. Len(items)
        BY <2>10
      <4>2. piece = <<Delta(Len(items) - 1, Of(c), Size(c))>>
        BY <3>1 DEF Few
      <4> HIDE DEF piece
      <4>3. Shown(w2 \o <<Delta(Len(items) - 1, Of(c), Size(c))>>, "anthropic", TRUE, items)
        BY <2>1, <2>3, <2>7, <2>11, <4>1, ShownDelta DEF Announced
      <4> QED BY <4>2, <4>3
    <3>2. CASE ~ (Size(c) > 0)
      <4>1. w3 = w2
        BY <3>2, <2>7 DEF Few
      <4> QED BY <4>1, <2>11
    <3> QED BY <3>1, <3>2
  <2> HIDE DEF w3, piece
  <2>13. With(d, items).items = items /\ With(d, items).started = TRUE
    BY <2>3, WithIs
  <2> QED BY <2>4, <2>8, <2>12, <2>13
<1>2. CASE c.kind \in {"role", "finish", "error"}
  <2>1. /\ ToAnthropic(d, c).out = Hello(d)
        /\ ToAnthropic(d, c).state.items = d.items /\ ToAnthropic(d, c).state.started = TRUE
    BY <1>2 DEF ToAnthropic, Step, Started, Down
  <2> QED BY <2>1, ShownHello
<1>3. CASE c.kind = "done"
  <2>1. ToAnthropic(d, c).out = <<>> /\ ToAnthropic(d, c).state = d /\ w \o <<>> = w
    BY <1>3 DEF ToAnthropic, Step
  <2> QED BY <2>1
<1> QED BY <1>1, <1>2, <1>3, ChunksAre

\* One item was changed, the one with the key, which may be new.
Touched(items, items2, at, k) ==
  /\ Len(items) <= Len(items2)
  /\ at \in 1 .. Len(items2)
  /\ \A i \in 1 .. Len(items2) : i # at => i \in 1 .. Len(items) /\ items2[i] = items[i]
  /\ items2[at].key = k
  /\ at \in 1 .. Len(items) => items[at].key = k
  /\ ~ (at \in 1 .. Len(items)) => ~Filed(items, k)

\* There is an item for the key, with what it was before.
Placed(items, items1, at, k, of) ==
  /\ items1 \in Seq(Items) /\ Touched(items, items1, at, k)
  /\ at \in 1 .. Len(items) => items1[at] = items[at] /\ items1 = items
  /\ ~ (at \in 1 .. Len(items)) => items1[at] = Item(k, of) /\ items1 # items

\* Including an item places one.
LEMMA IncludingPlaces ==
  ASSUME NEW items \in Seq(Items), NEW k \in Parts, NEW of \in Parts
  PROVE  Placed(items, Including(items, k, of), Place(Including(items, k, of), k), k, of)
<1> DEFINE items1 == Including(items, k, of)
           at == Place(items1, k)
<1> SUFFICES Placed(items, items1, at, k, of)
  OBVIOUS
<1> HIDE DEF at
<1>1. CASE Filed(items, k)
  <2>1. items1 = items
    BY <1>1, IncludingIs
  <2> HIDE DEF items1
  <2>2. at \in 1 .. Len(items) /\ items[at].key = k
    BY <1>1, <2>1, PlaceIs DEF at
  <2> QED BY <2>1, <2>2 DEF Touched, Placed
<1>2. CASE ~Filed(items, k)
  <2>1. items1 = Append(items, Item(k, of)) /\ items1 \in Seq(Items) /\ items1 # items
    BY <1>2, IncludingIs
  <2> HIDE DEF items1
  <2> DEFINE n == Len(items)
  <2>2. /\ n \in Nat /\ Len(items1) = n + 1
        /\ \A i \in 1 .. n : items1[i] = items[i]
        /\ items1[n + 1] = Item(k, of)
    BY <2>1
  <2>3. items1[n + 1].key = k
    BY <2>2 DEF Item
  <2>4. n + 1 \in 1 .. Len(items1)
    BY <2>2
  <2>5. Filed(items1, k)
    BY <2>3, <2>4 DEF Filed
  <2>6. at \in 1 .. Len(items1) /\ items1[at].key = k
    <3>1. items1 \in Seq(Items) /\ Len(items1) \in Nat
      BY <2>1
    <3>2. at \in 0 .. Len(items1) /\ at # 0 /\ items1[at].key = k
      BY <3>1, <2>5, PlaceIs DEF at
    <3> QED BY <3>1, <3>2
  <2>7. \A i \in 1 .. n : items1[i].key # k
    BY <1>2, <2>2 DEF Filed
  <2>8. at = n + 1
    BY <2>2, <2>6, <2>7
  <2>9. ~ (at \in 1 .. Len(items))
    BY <2>2, <2>8
  <2>10. Touched(items, items1, at, k)
    BY <1>2, <2>2, <2>6, <2>8, <2>9 DEF Touched
  <2> QED BY <2>1, <2>2, <2>8, <2>9, <2>10 DEF Placed
<1> QED BY <1>1, <1>2

\* It may be changed further.
Replaced(items1, at, item) == [items1 EXCEPT ![at] = item]

\* The same item is replaced once more.
LEMMA TouchedMore ==
  ASSUME NEW items \in Seq(Items), NEW items1 \in Seq(Items), NEW at, NEW k,
         Touched(items, items1, at, k), NEW item \in Items, item.key = k
  PROVE  /\ Replaced(items1, at, item) \in Seq(Items)
         /\ Touched(items, Replaced(items1, at, item), at, k)
         /\ Replaced(items1, at, item)[at] = item
<1> DEFINE items2 == Replaced(items1, at, item)
<1>1. at \in 1 .. Len(items1) /\ items2 = [items1 EXCEPT ![at] = item]
  BY DEF Touched, Replaced
<1> HIDE DEF items2
<1>2. /\ items2 \in Seq(Items) /\ Len(items2) = Len(items1) /\ items2[at] = item
      /\ \A i \in 1 .. Len(items1) : i # at => items2[i] = items1[i]
  BY <1>1
<1>3. items2 \in Seq(Items) /\ Touched(items, items2, at, k) /\ items2[at] = item
  BY <1>2 DEF Touched
<1> QED BY <1>3 DEF items2

\* What is held back of a part.
LEMMA HeldBackIs ==
  ASSUME NEW items \in Seq(Items), NEW p,
         \A i, j \in 1 .. Len(items) : items[i].key = items[j].key => i = j
  PROVE  /\ ~Filed(items, p) => HeldBack(items, p) = 0
         /\ \A i \in 1 .. Len(items) : items[i].key = p =>
              HeldBack(items, p) = IF items[i].named THEN 0 ELSE items[i].size
         /\ HeldBack(items, p) \in Nat
<1>1. ~Filed(items, p) => HeldBack(items, p) = 0
  BY DEF Filed, HeldBack
<1>2. ASSUME NEW i \in 1 .. Len(items), items[i].key = p
      PROVE  HeldBack(items, p) = IF items[i].named THEN 0 ELSE items[i].size
  <2>1. Filed(items, p)
    BY <1>2 DEF Filed
  <2>2. Place(items, p) = i
    <3>1. Place(items, p) \in 1 .. Len(items) /\ items[Place(items, p)].key = p
      BY <2>1, PlaceIs
    <3> QED BY <3>1, <1>2
  <2>3. (\E j \in 1 .. Len(items) : items[j].key = p /\ ~items[j].named) <=> ~items[i].named
    BY <1>2
  <2> QED BY <2>2, <2>3 DEF HeldBack
<1>3. \A i \in 1 .. Len(items) : items[i].size \in Nat
  <2>1. \A i \in 1 .. Len(items) : items[i] \in Items
    BY ElementOfSeq
  <2> QED BY <2>1 DEF Items
<1> QED BY <1>1, <1>2, <1>3 DEF Filed

\* What is held back of a part changes only with its item.
LEMMA TouchedHolds ==
  ASSUME NEW items \in Seq(Items), NEW items2 \in Seq(Items), NEW at, NEW k,
         Touched(items, items2, at, k),
         \A i, j \in 1 .. Len(items) : items[i].key = items[j].key => i = j
  PROVE  /\ \A i, j \in 1 .. Len(items2) : items2[i].key = items2[j].key => i = j
         /\ \A p : p # k => HeldBack(items2, p) = HeldBack(items, p)
         /\ HeldBack(items2, k) = IF items2[at].named THEN 0 ELSE items2[at].size
         /\ \A x : Filed(items2, x) <=> Filed(items, x) \/ x = k
<1>0. 1 .. Len(items) \subseteq 1 .. Len(items2)
  BY DEF Touched
<1>1. \A i \in 1 .. Len(items2) : i # at => items2[i].key # k
  BY DEF Touched, Filed
<1>2. ASSUME NEW i \in 1 .. Len(items2), NEW j \in 1 .. Len(items2), items2[i].key = items2[j].key
      PROVE  i = j
  BY <1>1, <1>2 DEF Touched
<1>3. ASSUME NEW x PROVE Filed(items2, x) <=> Filed(items, x) \/ x = k
  BY <1>0 DEF Touched, Filed
<1>4. ASSUME NEW p, p # k PROVE HeldBack(items2, p) = HeldBack(items, p)
  <2>1. CASE Filed(items, p)
    <3>1. PICK i \in 1 .. Len(items) : items[i].key = p
      BY <2>1 DEF Filed
    <3>2. i \in 1 .. Len(items2) /\ items2[i] = items[i]
      BY <3>1, <1>0, <1>4 DEF Touched
    <3>3. HeldBack(items, p) = IF items[i].named THEN 0 ELSE items[i].size
      BY <3>1, HeldBackIs
    <3>4. HeldBack(items2, p) = IF items2[i].named THEN 0 ELSE items2[i].size
      BY <3>1, <3>2, <1>2, HeldBackIs
    <3> QED BY <3>2, <3>3, <3>4
  <2>2. CASE ~Filed(items, p)
    BY <2>2, <1>2, <1>3, <1>4, HeldBackIs
  <2> QED BY <2>1, <2>2
<1>5. HeldBack(items2, k) = IF items2[at].named THEN 0 ELSE items2[at].size
  BY <1>2, HeldBackIs DEF Touched
<1> QED BY <1>2, <1>3, <1>4, <1>5

\* An item that is touched keeps the items as they should be, if it does.
LEMMA TouchedOk ==
  ASSUME NEW items \in Seq(Items), NEW items2 \in Seq(Items), NEW at, NEW k, NEW up,
         ItemsOk(up, "responses", items), Touched(items, items2, at, k),
         up = "openai" => items2[at].of = k,
         up # "openai" => items2[at].named,
         k = TheText => items2[at].named
  PROVE  ItemsOk(up, "responses", items2)
<1>1. \A i, j \in 1 .. Len(items2) : items2[i].key = items2[j].key => i = j
  BY TouchedHolds DEF ItemsOk
<1>2. ASSUME NEW i \in 1 .. Len(items2)
      PROVE  /\ up = "openai" => items2[i].of = items2[i].key
             /\ up # "openai" => items2[i].named
             /\ items2[i].key = TheText => items2[i].named
  <2>1. CASE i = at
    BY <2>1 DEF Touched
  <2>2. CASE i # at
    <3>1. i \in 1 .. Len(items) /\ items2[i] = items[i]
      BY <2>2 DEF Touched
    <3> QED BY <3>1 DEF ItemsOk
  <2> QED BY <2>1, <2>2
<1> QED BY <1>1, <1>2 DEF ItemsOk

\* The converter of Responses after a piece of text or of a call, and its frames.
LEMMA ToResponsesPiece ==
  ASSUME NEW d \in Down, NEW c \in Chunks, ~d.finished, ~d.failed
  PROVE  /\ c.kind = "text" =>
              /\ ToResponses(d, c).state = With(d, TextToResponses(Started(d)).state.items)
              /\ ToResponses(d, c).out = Hello(d) \o TextToResponses(Started(d)).out
         /\ c.kind = "call" =>
              /\ ToResponses(d, c).state = With(d, CallToResponses(Started(d), c).state.items)
              /\ ToResponses(d, c).out = Hello(d) \o CallToResponses(Started(d), c).out
<1>1. \A x : [Started(d) EXCEPT !.items = x].items = x
  BY DEF Started, Down
<1>2. ASSUME c.kind = "text"
      PROVE  /\ ToResponses(d, c).state = With(d, TextToResponses(Started(d)).state.items)
             /\ ToResponses(d, c).out = Hello(d) \o TextToResponses(Started(d)).out
  <2>1. ToResponses(d, c) = After(Hello(d), TextToResponses(Started(d)))
    BY <1>2 DEF ToResponses
  <2> DEFINE s == TextToResponses(Started(d))
  <2>2. /\ After(Hello(d), s).state = s.state
        /\ After(Hello(d), s).out = Hello(d) \o s.out
    BY DEF After, Step
  <2>3. s.state = [Started(d) EXCEPT !.items = Including(Started(d).items, TheText, TheText)]
    BY DEF TextToResponses, Step
  <2>4. s.state = With(d, s.state.items)
    <3> HIDE DEF s
    <3> QED BY <2>3, <1>1 DEF With
  <2> HIDE DEF s
  <2>5. ToResponses(d, c) = After(Hello(d), s)
    BY <2>1 DEF s
  <2>6. ToResponses(d, c).state = With(d, s.state.items) /\ ToResponses(d, c).out = Hello(d) \o s.out
    BY <2>2, <2>4, <2>5
  <2> QED BY <2>6 DEF s
<1>3. ASSUME c.kind = "call"
      PROVE  /\ ToResponses(d, c).state = With(d, CallToResponses(Started(d), c).state.items)
             /\ ToResponses(d, c).out = Hello(d) \o CallToResponses(Started(d), c).out
  <2>1. ToResponses(d, c) = After(Hello(d), CallToResponses(Started(d), c))
    BY <1>3 DEF ToResponses
  <2> DEFINE s == CallToResponses(Started(d), c)
  <2>2. /\ After(Hello(d), s).state = s.state
        /\ After(Hello(d), s).out = Hello(d) \o s.out
    BY DEF After, Step
  <2>3. \E x : s.state = [Started(d) EXCEPT !.items = x]
    BY DEF CallToResponses, Step
  <2>4. s.state = With(d, s.state.items)
    <3> HIDE DEF s
    <3> QED BY <2>3, <1>1 DEF With
  <2> HIDE DEF s
  <2>5. ToResponses(d, c) = After(Hello(d), s)
    BY <2>1 DEF s
  <2>6. ToResponses(d, c).state = With(d, s.state.items) /\ ToResponses(d, c).out = Hello(d) \o s.out
    BY <2>2, <2>4, <2>5
  <2> QED BY <2>6 DEF s
<1> QED BY <1>2, <1>3

\* What a piece of a call makes of an item, and the frames that tell of it.
Grown(old, c) == [old EXCEPT !.named = @ \/ c.named, !.size = @ + c.size]
News(old, c) == IF old.named THEN c.size ELSE old.size + c.size
FirstOf(old, c, at) == Few(Grown(old, c).named /\ ~old.named, Open(at - 1, c.tool))
PieceOf(old, c, at) == Few(Grown(old, c).named /\ News(old, c) > 0, Delta(at - 1, c.tool, News(old, c)))

\* The item of a call after a piece of it.
LEMMA CallItems ==
  ASSUME NEW d \in Down, NEW c \in Chunks, c.kind = "call"
  PROVE  \E at \in Nat, old \in Items :
           LET s == CallToResponses(Started(d), c)
           IN /\ s.state.items \in Seq(Items) /\ Touched(d.items, s.state.items, at, c.index)
              /\ s.state.items[at] = Grown(old, c) /\ Grown(old, c) \in Items
              /\ at \in 1 .. Len(d.items) => old = d.items[at]
              /\ ~ (at \in 1 .. Len(d.items)) => old = Item(c.index, c.tool)
              /\ s.out = FirstOf(old, c, at) \o PieceOf(old, c, at)
<1> DEFINE k == c.index
           of == c.tool
           items == d.items
           items1 == Including(items, k, of)
           at == Place(items1, k)
           old == items1[at]
           item == Grown(old, c)
           s == CallToResponses(Started(d), c)
           items2 == s.state.items
<1>1. /\ k \in Parts /\ of \in Parts /\ c.size \in Nat /\ c.named \in BOOLEAN
      /\ items \in Seq(Items)
  BY ChunksAre, DownsAre, PartsAre
<1>2. items1 = Including(items, k, of) /\ at = Place(items1, k) /\ old = items1[at]
  OBVIOUS
<1> HIDE DEF k, of, items, items1, at, old, item, s, items2
<1>3. /\ items1 \in Seq(Items) /\ Touched(items, items1, at, k)
      /\ at \in 1 .. Len(items) => items1[at] = items[at] /\ items1 = items
      /\ ~ (at \in 1 .. Len(items)) => items1[at] = Item(k, of)
  <2>1. Placed(items, Including(items, k, of), Place(Including(items, k, of), k), k, of)
    BY <1>1, IncludingPlaces
  <2>2. Placed(items, items1, at, k, of)
    BY <1>2, <2>1
  <2> QED BY <2>2 DEF Placed
<1>4. at \in Nat /\ at \in 1 .. Len(items1) /\ items1[at].key = k
  BY <1>3 DEF Touched
<1>5. old \in Items /\ old.key = k
  BY <1>2, <1>3, <1>4, ElementOfSeq
<1>6. item \in Items /\ item.key = k /\ item.size = old.size + c.size
  <2>1. (old.named \/ c.named) \in BOOLEAN
    BY <1>1, <1>5 DEF Items
  <2>2. old.size + c.size \in Nat
    BY <1>1, <1>5 DEF Items
  <2> DEFINE named == old.named \/ c.named
  <2>3. named \in BOOLEAN
    BY <2>1
  <2>4. item = [old EXCEPT !.named = named, !.size = old.size + c.size]
    BY DEF Grown, item
  <2> HIDE DEF named
  <2> QED BY <2>2, <2>3, <2>4, <1>5 DEF Items
<1>7. items2 = [items1 EXCEPT ![at] = item] /\ s.out = FirstOf(old, c, at) \o PieceOf(old, c, at)
  <2>1. Started(d).items = items
    BY DownsAre DEF items
  <2>2. \A x : [Started(d) EXCEPT !.items = x].items = x
    BY DEF Started, Down
  <2>4. s.state = [Started(d) EXCEPT !.items = [items1 EXCEPT ![at] = item]]
    BY <2>1 DEF CallToResponses, Step, Grown, s, items1, at, old, k, of, item
  <2>5. s.out = Few(item.named /\ ~old.named, Open(at - 1, of))
                  \o Few(item.named /\ (IF old.named THEN c.size ELSE item.size) > 0,
                         Delta(at - 1, of, IF old.named THEN c.size ELSE item.size))
    BY <2>1 DEF CallToResponses, Step, Grown, s, items1, at, old, k, of, item
  <2>6. (IF old.named THEN c.size ELSE item.size) = News(old, c)
    BY <1>6 DEF News
  <2>7. items2 = [items1 EXCEPT ![at] = item]
    BY <2>2, <2>4 DEF items2
  <2>8. s.out = FirstOf(old, c, at) \o PieceOf(old, c, at)
    BY <2>5, <2>6 DEF FirstOf, PieceOf, item, of
  <2> QED BY <2>7, <2>8
<1>8. items2 \in Seq(Items) /\ Touched(items, items2, at, k) /\ items2[at] = item
  <2>1. items2 = Replaced(items1, at, item)
    BY <1>7 DEF Replaced
  <2>2. /\ Replaced(items1, at, item) \in Seq(Items)
        /\ Touched(items, Replaced(items1, at, item), at, k)
        /\ Replaced(items1, at, item)[at] = item
    BY <1>1, <1>3, <1>6, TouchedMore
  <2> QED BY <2>1, <2>2
<1>9. /\ at \in 1 .. Len(items) => old = items[at]
      /\ ~ (at \in 1 .. Len(items)) => old = Item(k, of)
  BY <1>2, <1>3
<1>10. at \in Nat /\ old \in Items
  BY <1>4, <1>5
<1> QED BY <1>6, <1>7, <1>8, <1>9, <1>10, Zenon DEF s, k, of, items, items2, item

\* One call more, or a piece of it, for Responses.
LEMMA CallResponds ==
  ASSUME NEW d \in Down, NEW c \in Chunks, c.kind = "call", NEW up,
         ItemsOk(up, "responses", d.items),
         up = "openai" => c.index = c.tool,
         up # "openai" => c.named \/ Filed(d.items, c.index),
         NEW s, s = CallToResponses(Started(d), c)
  PROVE  /\ s.state.items \in Seq(Items) /\ s.out \in Seq(Frames)
         /\ ItemsOk(up, "responses", s.state.items)
         /\ \A x : Filed(s.state.items, x) <=> Filed(d.items, x) \/ x = c.index
         /\ \A i \in 1 .. Len(s.out) : s.out[i].kind \in {"open", "delta"}
         /\ \A p \in Parts : Arrived(s.out, p) + HeldBack(s.state.items, p)
                              = HeldBack(d.items, p) + DuePieces(c, p)
         /\ \A w \in Seq(Frames) : Shown(w, "responses", TRUE, d.items) =>
              Shown(w \o s.out, "responses", TRUE, s.state.items)
<1> DEFINE items == d.items
           items2 == s.state.items
           k == c.index
<1>1. PICK at \in Nat, old \in Items :
         /\ items2 \in Seq(Items) /\ Touched(items, items2, at, k)
         /\ items2[at] = Grown(old, c) /\ Grown(old, c) \in Items
         /\ at \in 1 .. Len(items) => old = items[at]
         /\ ~ (at \in 1 .. Len(items)) => old = Item(k, c.tool)
         /\ s.out = FirstOf(old, c, at) \o PieceOf(old, c, at)
  BY CallItems
<1>2. /\ c.tool \in Parts /\ c.tool \in Tools /\ k \in Tools /\ k \in Parts /\ k # TheText
      /\ c.size \in Nat /\ c.named \in BOOLEAN /\ items \in Seq(Items)
  BY ChunksAre, DownsAre, PartsAre
<1> DEFINE item == Grown(old, c)
           news == News(old, c)
           first == FirstOf(old, c, at)
           piece == PieceOf(old, c, at)
<1>3. /\ item.key = old.key /\ item.of = old.of /\ item.named = (old.named \/ c.named)
      /\ item.size = old.size + c.size /\ old.size \in Nat /\ old.named \in BOOLEAN /\ news \in Nat
  BY <1>2 DEF Grown, Items, News
<1> HIDE DEF items2, k, item, news, first, piece
<1>4. at \in 1 .. Len(items2) /\ items2[at] = item /\ Len(items2) \in Nat
  BY <1>1 DEF Touched, item
<1>5. up # "openai" => item.named
  <2> SUFFICES ASSUME up # "openai", ~c.named PROVE old.named
    BY <1>3
  <2>1. Filed(items, k)
    BY <1>2 DEF k
  <2>2. at \in 1 .. Len(items)
    BY <1>1, <2>1 DEF Touched
  <2> QED BY <2>2, <1>1 DEF ItemsOk
<1>6. up = "openai" => item.of = k /\ c.tool = k
  <2>1. up = "openai" => c.tool = k
    BY DEF k
  <2>2. CASE at \in 1 .. Len(items)
    <3>1. old = items[at] /\ items[at].key = k
      BY <2>2, <1>1 DEF Touched
    <3>2. up = "openai" => items[at].of = items[at].key
      BY <2>2 DEF ItemsOk
    <3> QED BY <2>1, <3>1, <3>2, <1>3
  <2>3. CASE ~ (at \in 1 .. Len(items))
    <3>1. old = Item(k, c.tool)
      BY <2>3, <1>1
    <3>2. old.of = c.tool
      BY <3>1 DEF Item
    <3> QED BY <2>1, <3>2, <1>3
  <2> QED BY <2>2, <2>3
<1>7. ItemsOk(up, "responses", items2)
  BY <1>1, <1>2, <1>4, <1>5, <1>6, TouchedOk
<1>8. /\ \A p : p # k => HeldBack(items2, p) = HeldBack(items, p)
      /\ HeldBack(items2, k) = IF item.named THEN 0 ELSE item.size
      /\ \A x : Filed(items2, x) <=> Filed(items, x) \/ x = k
  BY <1>1, <1>2, <1>4, TouchedHolds DEF ItemsOk
<1>9. HeldBack(items, k) = IF old.named THEN 0 ELSE old.size
  <2>1. CASE at \in 1 .. Len(items)
    <3>1. items[at].key = k /\ old = items[at]
      BY <2>1, <1>1 DEF Touched
    <3> QED BY <2>1, <3>1, <1>2, HeldBackIs DEF ItemsOk
  <2>2. CASE ~ (at \in 1 .. Len(items))
    <3>1. ~Filed(items, k) /\ old.size = 0
      BY <2>2, <1>1 DEF Touched, Item
    <3> QED BY <3>1, <1>2, HeldBackIs DEF ItemsOk
  <2> QED BY <2>1, <2>2
<1>10. /\ Open(at - 1, c.tool) \in Frames /\ Open(at - 1, c.tool).kind = "open"
       /\ \A p : Pieces(Open(at - 1, c.tool), p) = 0
       /\ Delta(at - 1, c.tool, news) \in Frames /\ Delta(at - 1, c.tool, news).kind = "delta"
       /\ \A p : Pieces(Delta(at - 1, c.tool, news), p) = IF c.tool = p THEN news ELSE 0
  BY <1>2, <1>3, OpenIs, DeltaIs
<1>11. /\ first \in Seq(Frames)
       /\ item.named /\ ~old.named => first = <<Open(at - 1, c.tool)>>
       /\ ~ (item.named /\ ~old.named) => first = <<>>
       /\ \A p \in Parts : Arrived(first, p) = 0
  <2>1. first = Few(item.named /\ ~old.named, Open(at - 1, c.tool))
    BY DEF first, FirstOf, item
  <2>2. \A p \in Parts : Arrived(first, p) =
          IF item.named /\ ~old.named THEN Pieces(Open(at - 1, c.tool), p) ELSE 0
    BY <2>1, <1>10, FewIs
  <2> QED BY <2>1, <2>2, <1>10, FewIs
<1>12. /\ piece \in Seq(Frames)
       /\ item.named /\ news > 0 => piece = <<Delta(at - 1, c.tool, news)>>
       /\ ~ (item.named /\ news > 0) => piece = <<>>
       /\ \A p \in Parts : Arrived(piece, p) = IF item.named /\ c.tool = p THEN news ELSE 0
  <2>1. piece = Few(item.named /\ news > 0, Delta(at - 1, c.tool, news))
    BY DEF piece, PieceOf, item, news
  <2>2. /\ piece \in Seq(Frames)
        /\ item.named /\ news > 0 => piece = <<Delta(at - 1, c.tool, news)>>
        /\ ~ (item.named /\ news > 0) => piece = <<>>
        /\ \A p \in Parts : Arrived(piece, p) =
             IF item.named /\ news > 0 THEN Pieces(Delta(at - 1, c.tool, news), p) ELSE 0
    BY <2>1, <1>10, FewIs
  <2>3. \A p \in Parts : Arrived(piece, p) = IF item.named /\ c.tool = p THEN news ELSE 0
    BY <2>2, <1>3, <1>10
  <2> QED BY <2>2, <2>3
<1>13. s.out = first \o piece /\ s.out \in Seq(Frames)
  BY <1>1, <1>11, <1>12 DEF first, piece
<1>14. ASSUME NEW p \in Parts
       PROVE  Arrived(s.out, p) + HeldBack(items2, p) = HeldBack(items, p) + DuePieces(c, p)
  <2>1. Arrived(s.out, p) = IF item.named /\ c.tool = p THEN news ELSE 0
    <3>1. Arrived(first \o piece, p) = Arrived(first, p) + Arrived(piece, p)
      BY <1>11, <1>12, ArrivedAddsUp
    <3> QED BY <3>1, <1>3, <1>11, <1>12, <1>13
  <2>2. DuePieces(c, p) = IF c.tool = p THEN c.size ELSE 0
    BY DEF DuePieces, Of, Size
  <2>3. news = IF old.named THEN c.size ELSE old.size + c.size
    BY DEF news, News
  <2>4. HeldBack(items, p) \in Nat
    BY <1>2, HeldBackIs DEF ItemsOk
  <2>5. CASE up = "openai"
    <3>1. CASE p = k
      BY <3>1, <2>1, <2>2, <2>3, <2>5, <1>2, <1>3, <1>6, <1>8, <1>9
    <3>2. CASE p # k
      BY <3>2, <2>1, <2>2, <2>4, <2>5, <1>6, <1>8
    <3> QED BY <3>1, <3>2
  <2>6. CASE up # "openai"
    <3>1. ~old.named => old.size = 0
      <4>1. CASE at \in 1 .. Len(items)
        BY <4>1, <2>6, <1>1 DEF ItemsOk
      <4>2. CASE ~ (at \in 1 .. Len(items))
        BY <4>2, <1>1 DEF Item
      <4> QED BY <4>1, <4>2
    <3>2. news = c.size /\ HeldBack(items, k) = 0
      BY <3>1, <2>3, <1>2, <1>9
    <3>3. item.named
      BY <2>6, <1>5
    <3>4. HeldBack(items2, p) = HeldBack(items, p)
      BY <3>2, <3>3, <1>8
    <3> QED BY <3>2, <3>3, <3>4, <2>1, <2>2, <2>4, <1>2
  <2> QED BY <2>5, <2>6
<1>15. ASSUME NEW i \in 1 .. Len(s.out) PROVE s.out[i].kind \in {"open", "delta"}
  <2>1. \A j \in 1 .. Len(first) : first[j].kind = "open"
    BY <1>10, <1>11
  <2>2. \A j \in 1 .. Len(piece) : piece[j].kind = "delta"
    BY <1>10, <1>12
  <2>3. CASE i <= Len(first)
    <3>1. i \in 1 .. Len(first) /\ s.out[i] = first[i]
      BY <2>3, <1>11, <1>12, <1>13
    <3> QED BY <3>1, <2>1
  <2>4. CASE i > Len(first)
    <3>1. i - Len(first) \in 1 .. Len(piece) /\ s.out[i] = piece[i - Len(first)]
      BY <2>4, <1>11, <1>12, <1>13
    <3> QED BY <3>1, <2>2
  <2> QED BY <2>3, <2>4, <1>11, <1>13
<1>16. ASSUME NEW w \in Seq(Frames), Shown(w, "responses", TRUE, items)
       PROVE  Shown(w \o s.out, "responses", TRUE, items2)
  <2>1. /\ Len(items) <= Len(items2) /\ Len(items) \in Nat
        /\ \A j \in 1 .. Len(items2) : j # at => j <= Len(items) /\ items2[j].named = items[j].named
    <3>1. /\ Len(items) <= Len(items2)
          /\ \A j \in 1 .. Len(items2) : j # at => j \in 1 .. Len(items) /\ items2[j] = items[j]
      BY <1>1 DEF Touched
    <3>2. Len(items) \in Nat
      BY <1>2
    <3> HIDE DEF items
    <3> QED BY <3>1, <3>2
  <2>2. at <= Len(items) => items[at].named = old.named
    BY <1>1, <1>4, <2>1
  <2>3. ~ (at <= Len(items)) => ~old.named
    <3>1. ~ (at <= Len(items)) => old = Item(k, c.tool)
      BY <1>1
    <3>2. Item(k, c.tool).named = (k = TheText)
      BY DEF Item
    <3> QED BY <3>1, <3>2, <1>2
  <2> DEFINE w1 == w \o first
  <2>4. w1 \in Seq(Frames)
    BY <1>11
  <2>5. Shown(w1, "responses", TRUE, items2)
    <3>1. CASE item.named /\ ~old.named
      <4>1. ~ (at <= Len(items) /\ Announced("responses", items, at))
        BY <3>1, <2>2 DEF Announced
      <4>2. \A j \in 1 .. Len(items2) : Announced("responses", items2, j) <=>
              j = at \/ (j <= Len(items) /\ Announced("responses", items, j))
        BY <3>1, <2>1, <1>4 DEF Announced
      <4>3. w1 = w \o <<Open(at - 1, c.tool)>>
        BY <3>1, <1>11
      <4> HIDE DEF w1
      <4> QED BY <4>1, <4>2, <4>3, <1>1, <1>2, <1>4, <1>16, <2>1, ShownOpen DEF items2
    <3>2. CASE ~ (item.named /\ ~old.named)
      <4>1. w1 = w
        BY <3>2, <1>11
      <4>2. item.named = old.named
        BY <3>2, <1>2, <1>3
      <4>3. \A j \in 1 .. Len(items2) : Announced("responses", items2, j) <=>
              j <= Len(items) /\ Announced("responses", items, j)
        BY <4>2, <2>1, <2>2, <2>3, <1>4 DEF Announced
      <4> HIDE DEF w1
      <4>4. Shown(w, "responses", TRUE, items2)
        BY <4>3, <1>1, <1>2, <1>16, <2>1, ShownSame DEF items2
      <4> QED BY <4>1, <4>4
    <3> QED BY <3>1, <3>2
  <2>6. w \o s.out = w1 \o piece
    BY <1>11, <1>12, <1>13, TwoMore
  <2> HIDE DEF w1
  <2>7. CASE item.named /\ news > 0
    <3>1. Announced("responses", items2, at)
      BY <2>7, <1>4 DEF Announced
    <3>2. items2 \in Seq(Items)
      BY <1>1
    <3>3. Shown(w1 \o <<Delta(at - 1, c.tool, news)>>, "responses", TRUE, items2)
      BY <3>1, <3>2, <1>2, <1>3, <1>4, <2>4, <2>5, ShownDelta
    <3> QED BY <3>3, <2>6, <2>7, <1>12
  <2>8. CASE ~ (item.named /\ news > 0)
    <3>1. w1 \o piece = w1
      BY <2>4, <2>8, <1>12
    <3> QED BY <3>1, <2>5, <2>6
  <2> QED BY <2>7, <2>8
<1> QED BY <1>1, <1>7, <1>8, <1>13, <1>14, <1>15, <1>16 DEF items2, k

\* A piece of text for Responses.
LEMMA TextResponds ==
  ASSUME NEW d \in Down, NEW up, ItemsOk(up, "responses", d.items),
         NEW s, s = TextToResponses(Started(d))
  PROVE  /\ s.state.items \in Seq(Items) /\ s.out \in Seq(Frames)
         /\ ItemsOk(up, "responses", s.state.items)
         /\ \A x : Filed(s.state.items, x) <=> Filed(d.items, x) \/ x = TheText
         /\ \A i \in 1 .. Len(s.out) : s.out[i].kind \in {"open", "delta"}
         /\ \A p \in Parts : Arrived(s.out, p) + HeldBack(s.state.items, p)
                              = HeldBack(d.items, p) + DuePieces(Text, p)
         /\ \A w \in Seq(Frames) : Shown(w, "responses", TRUE, d.items) =>
              Shown(w \o s.out, "responses", TRUE, s.state.items)
<1> DEFINE items == d.items
           items2 == Including(items, TheText, TheText)
           at == Place(items2, TheText)
           first == Few(items2 # items, Open(at - 1, TheText))
           piece == <<Delta(at - 1, TheText, 1)>>
<1>1. s.state.items = items2 /\ s.out = first \o piece
  <2>1. Started(d).items = items
    BY DownsAre
  <2>2. \A x : [Started(d) EXCEPT !.items = x].items = x
    BY DEF Started, Down
  <2>3. /\ s.state = [Started(d) EXCEPT !.items = items2]
        /\ s.out = first \o piece
    BY <2>1 DEF TextToResponses, Step
  <2> QED BY <2>2, <2>3
<1>2. items \in Seq(Items) /\ TheText \in Parts
  BY DownsAre, PartsAre
<1>3. Placed(items, items2, at, TheText, TheText)
  BY <1>2, IncludingPlaces
<1>4. first = Few(items2 # items, Open(at - 1, TheText)) /\ piece = <<Delta(at - 1, TheText, 1)>>
  OBVIOUS
<1> HIDE DEF items, items2, at, first, piece
<1>5. items2 \in Seq(Items) /\ Touched(items, items2, at, TheText)
  BY <1>3 DEF Placed
<1>6. at \in 1 .. Len(items2) /\ Len(items2) \in Nat /\ at \in Nat /\ Len(items) \in Nat
  <2>1. at \in 1 .. Len(items2)
    BY <1>5 DEF Touched
  <2>2. Len(items2) \in Nat /\ Len(items) \in Nat
    BY <1>2, <1>5
  <2> QED BY <2>1, <2>2
<1>7. /\ at \in 1 .. Len(items) => items2[at] = items[at] /\ items[at].key = TheText /\ items2 = items
      /\ ~ (at \in 1 .. Len(items)) => items2[at] = Item(TheText, TheText) /\ items2 # items
  BY <1>3 DEF Placed, Touched
<1>8. Item(TheText, TheText).named = TRUE /\ Item(TheText, TheText).of = TheText
  BY DEF Item
<1>15. /\ \A i, j \in 1 .. Len(items) : items[i].key = items[j].key => i = j
       /\ \A i \in 1 .. Len(items) : /\ up = "openai" => items[i].of = items[i].key
                                     /\ items[i].key = TheText => items[i].named
  BY DEF ItemsOk, items
<1>9. items2[at].named = TRUE /\ (up = "openai" => items2[at].of = TheText)
  <2>1. items2[at].named
    BY <1>7, <1>8, <1>15
  <2>2. items2[at].named \in BOOLEAN
    <3>1. items2[at] \in Items
      BY <1>5, <1>6, ElementOfSeq
    <3> QED BY <3>1 DEF Items
  <2> QED BY <2>1, <2>2, <1>7, <1>8, <1>15
<1>10. ItemsOk(up, "responses", items2)
  <2>1. ItemsOk(up, "responses", items)
    BY DEF items
  <2> QED BY <2>1, <1>2, <1>5, <1>9, TouchedOk
<1>11. /\ \A p : p # TheText => HeldBack(items2, p) = HeldBack(items, p)
       /\ HeldBack(items2, TheText) = 0
       /\ \A x : Filed(items2, x) <=> Filed(items, x) \/ x = TheText
  <2>1. /\ \A p : p # TheText => HeldBack(items2, p) = HeldBack(items, p)
        /\ HeldBack(items2, TheText) = IF items2[at].named THEN 0 ELSE items2[at].size
        /\ \A x : Filed(items2, x) <=> Filed(items, x) \/ x = TheText
    BY <1>2, <1>5, <1>15, TouchedHolds
  <2> QED BY <2>1, <1>9
<1>12. HeldBack(items, TheText) = 0 /\ \A p : HeldBack(items, p) \in Nat
  BY <1>2, <1>15, HeldBackIs DEF Filed
<1>13. /\ Open(at - 1, TheText) \in Frames /\ Open(at - 1, TheText).kind = "open"
       /\ \A p : Pieces(Open(at - 1, TheText), p) = 0
       /\ Delta(at - 1, TheText, 1) \in Frames /\ Delta(at - 1, TheText, 1).kind = "delta"
       /\ \A p : Pieces(Delta(at - 1, TheText, 1), p) = IF TheText = p THEN 1 ELSE 0
  BY <1>2, <1>6, OpenIs, DeltaIs
<1>14. /\ first \in Seq(Frames) /\ piece \in Seq(Frames)
       /\ items2 # items => first = <<Open(at - 1, TheText)>>
       /\ items2 = items => first = <<>>
       /\ \A p \in Parts : Arrived(first, p) = 0
       /\ \A p \in Parts : Arrived(piece, p) = IF TheText = p THEN 1 ELSE 0
  <2>1. \A p \in Parts : Arrived(first, p) =
          IF items2 # items THEN Pieces(Open(at - 1, TheText), p) ELSE 0
    BY <1>4, <1>13, FewIs
  <2>2. piece \in Seq(Frames)
    BY <1>4, <1>13
  <2>3. \A p \in Parts : Arrived(piece, p) = Pieces(Delta(at - 1, TheText, 1), p)
    BY <1>4, <1>13, ArrivedAddsUp
  <2> QED BY <2>1, <2>2, <2>3, <1>4, <1>13, FewIs
<1>16. ASSUME NEW p \in Parts
       PROVE  Arrived(s.out, p) + HeldBack(items2, p) = HeldBack(items, p) + DuePieces(Text, p)
  <2>1. Arrived(first \o piece, p) = Arrived(first, p) + Arrived(piece, p)
    BY <1>14, ArrivedAddsUp
  <2>2. DuePieces(Text, p) = IF TheText = p THEN 1 ELSE 0
    BY DEF DuePieces, Text, Of, Size
  <2>3. Arrived(s.out, p) = DuePieces(Text, p) /\ DuePieces(Text, p) \in Nat
    BY <2>1, <2>2, <1>1, <1>14
  <2>4. HeldBack(items2, p) = HeldBack(items, p)
    BY <1>11, <1>12
  <2> QED BY <2>3, <2>4, <1>12
<1>17. ASSUME NEW i \in 1 .. Len(first \o piece) PROVE (first \o piece)[i].kind \in {"open", "delta"}
  <2>1. \A j \in 1 .. Len(first) : first[j].kind = "open"
    BY <1>13, <1>14
  <2>2. \A j \in 1 .. Len(piece) : piece[j].kind = "delta"
    BY <1>4, <1>13
  <2>3. CASE i <= Len(first)
    <3>1. i \in 1 .. Len(first) /\ (first \o piece)[i] = first[i]
      BY <2>3, <1>14
    <3> QED BY <3>1, <2>1
  <2>4. CASE i > Len(first)
    <3>1. i - Len(first) \in 1 .. Len(piece) /\ (first \o piece)[i] = piece[i - Len(first)]
      BY <2>4, <1>14
    <3> QED BY <3>1, <2>2
  <2> QED BY <2>3, <2>4, <1>14
<1>18. ASSUME NEW w \in Seq(Frames), Shown(w, "responses", TRUE, items)
       PROVE  Shown(w \o s.out, "responses", TRUE, items2)
  <2> DEFINE w1 == w \o first
  <2>4. w1 \in Seq(Frames)
    BY <1>14
  <2>5. Shown(w1, "responses", TRUE, items2)
    <3>1. CASE items2 = items
      <4>1. w1 = w
        BY <3>1, <1>14
      <4> QED BY <3>1, <4>1, <1>18
    <3>2. CASE items2 # items
      <4>1. at \notin 1 .. Len(items)
        BY <3>2, <1>7
      <4>2. ~ (at <= Len(items))
        BY <4>1, <1>6
      <4>3. /\ Len(items) <= Len(items2)
            /\ \A j \in 1 .. Len(items2) : j # at => j <= Len(items) /\ items2[j] = items[j]
        BY <1>5, <1>6 DEF Touched
      <4>4. \A j \in 1 .. Len(items2) : Announced("responses", items2, j) <=>
              j = at \/ (j <= Len(items) /\ Announced("responses", items, j))
        BY <4>2, <4>3, <1>6, <1>9 DEF Announced
      <4>5. w1 = w \o <<Open(at - 1, TheText)>>
        BY <3>2, <1>14
      <4> HIDE DEF w1
      <4> QED BY <4>2, <4>3, <4>4, <4>5, <1>2, <1>5, <1>6, <1>18, ShownOpen
    <3> QED BY <3>1, <3>2
  <2>6. w \o s.out = w1 \o piece
    BY <1>1, <1>14, TwoMore
  <2> HIDE DEF w1
  <2>7. Announced("responses", items2, at)
    BY <1>9 DEF Announced
  <2>8. Shown(w1 \o <<Delta(at - 1, TheText, 1)>>, "responses", TRUE, items2)
    BY <2>4, <2>5, <2>7, <1>2, <1>5, <1>6, ShownDelta
  <2> QED BY <2>6, <2>8, <1>4
<1>19. s.out \in Seq(Frames)
  BY <1>1, <1>14
<1>20. \A i \in 1 .. Len(s.out) : s.out[i].kind \in {"open", "delta"}
  BY <1>1, <1>17
<1>21. s.state.items = items2 /\ items = d.items
  BY <1>1 DEF items
<1> HIDE DEF items
<1> QED BY <1>5, <1>10, <1>11, <1>16, <1>18, <1>19, <1>20, <1>21

\* What the downstream converter does with one chunk.
Conversion(up, protocol, d, c, s) ==
  /\ s.state \in Down /\ s.out \in Seq(Frames)
  /\ ItemsOk(up, protocol, s.state.items)
  /\ s.state.finished = d.finished /\ (~Fails(s.out) => s.state.failed = d.failed)
  /\ s.state.reason = IF c.kind = "finish" /\ protocol # "openai" /\ ~Fails(s.out) THEN c.reason ELSE d.reason
  /\ \A x : Filed(d.items, x) \/ (protocol = "responses" /\ c.kind = "call" /\ x = c.index) =>
       Filed(s.state.items, x)
  /\ ~Fails(s.out) => \A p \in Parts :
       Arrived(s.out, p) + HeldBack(s.state.items, p) = HeldBack(d.items, p) + DuePieces(c, p)
  /\ \A i \in 1 .. Len(s.out) :
       /\ s.out[i].kind = "finish" => protocol = "openai" /\ c.kind = "finish" /\ s.out[i].reason = c.reason
       /\ s.out[i].kind = "end" => protocol = "openai" /\ c.kind = "done" /\ s.out[i].reason = "none"
  /\ protocol # "openai" => \A w \in Seq(Frames) : Shown(w, protocol, d.started, d.items) =>
       /\ Orderly(w \o s.out)
       /\ OfKind(w \o s.out, "end") = {}
       /\ ~Fails(s.out) => Shown(w \o s.out, protocol, s.state.started, s.state.items)

\* The first frame, if it is due, and others after it.
LEMMA HelloThen ==
  ASSUME NEW d \in Down, NEW out \in Seq(Frames)
  PROVE  /\ Hello(d) \o out \in Seq(Frames)
         /\ \A p \in Parts : Arrived(Hello(d) \o out, p) = Arrived(out, p)
         /\ \A i \in 1 .. Len(Hello(d) \o out) : \/ (Hello(d) \o out)[i] = Start
                                                 \/ \E j \in 1 .. Len(out) : (Hello(d) \o out)[i] = out[j]
         /\ \A w \in Seq(Frames) : w \o (Hello(d) \o out) = (w \o Hello(d)) \o out
                                   /\ w \o Hello(d) \in Seq(Frames)
<1>1. Hello(d) \in Seq(Frames) /\ (Hello(d) = <<>> \/ Hello(d) = <<Start>>)
      /\ \A p \in Parts : Arrived(Hello(d), p) = 0
  BY HelloIs
<1> DEFINE h == Hello(d)
<1> HIDE DEF h
<1>2. h \o out \in Seq(Frames)
  BY <1>1 DEF h
<1>3. ASSUME NEW p \in Parts PROVE Arrived(h \o out, p) = Arrived(out, p)
  <2>1. Arrived(h \o out, p) = Arrived(h, p) + Arrived(out, p) /\ Arrived(out, p) \in Nat
    BY <1>1, ArrivedAddsUp DEF h
  <2> QED BY <2>1, <1>1 DEF h
<1>4. ASSUME NEW i \in 1 .. Len(h \o out)
      PROVE  (h \o out)[i] = Start \/ \E j \in 1 .. Len(out) : (h \o out)[i] = out[j]
  <2>1. CASE h = <<>>
    <3>1. h \o out = out
      BY <2>1
    <3> QED BY <3>1
  <2>2. CASE h = <<Start>>
    <3>1. Len(h \o out) = 1 + Len(out) /\ (h \o out)[1] = Start
      BY <2>2
    <3>2. i # 1 => i - 1 \in 1 .. Len(out) /\ (h \o out)[i] = out[i - 1]
      BY <2>2
    <3> QED BY <3>1, <3>2
  <2> QED BY <2>1, <2>2, <1>1 DEF h
<1>5. ASSUME NEW w \in Seq(Frames)
      PROVE  w \o (h \o out) = (w \o h) \o out /\ w \o h \in Seq(Frames)
  <2>1. h \in Seq(Frames)
    BY <1>1 DEF h
  <2> QED BY <2>1, TwoMore
<1> QED BY <1>2, <1>3, <1>4, <1>5 DEF h

\* No failure shows in frames that are none.
LEMMA NoFailure ==
  ASSUME NEW out \in Seq(Frames), \A i \in 1 .. Len(out) : out[i].kind \in {"start", "open", "delta"}
  PROVE  ~Fails(out) /\ \A i \in 1 .. Len(out) : out[i].kind \notin {"finish", "end"}
BY DEF Fails

\* For Anthropic.
LEMMA AnthropicConverts ==
  ASSUME NEW d \in Down, NEW c \in Chunks, NEW up, ItemsOk(up, "anthropic", d.items),
         up = "openai" /\ c.kind = "call" => c.index = c.tool
  PROVE  Conversion(up, "anthropic", d, c, ToAnthropic(d, c))
<1> DEFINE s == ToAnthropic(d, c)
<1>1. /\ s.state \in Down /\ ItemsOk(up, "anthropic", s.state.items)
      /\ s.state.finished = d.finished /\ s.state.failed = d.failed
      /\ s.state.reason = IF c.kind = "finish" THEN c.reason ELSE d.reason
  BY AnthropicItems
<1>2. d.items \in Seq(Items) /\ s.state.items \in Seq(Items)
  BY <1>1, DownsAre
<1>3. s.out \in Seq(Frames) /\ \A i \in 1 .. Len(s.out) : s.out[i].kind \in {"start", "open", "delta"}
  <2>1. CASE c.kind \in {"text", "call"}
    <3> DEFINE items == Including(d.items, Key(c), Of(c))
               first == Few(items # d.items, Open(Len(d.items), Of(c)))
               piece == Few(Size(c) > 0, Delta(Len(items) - 1, Of(c), Size(c)))
    <3>1. Key(c) \in Parts /\ Of(c) \in Parts /\ Size(c) \in Nat
      BY <2>1, ChunksAre
    <3>2. items \in Seq(Items)
      BY <3>1, <1>2, IncludingIs
    <3>3. s.out = Hello(d) \o first \o piece
      BY <2>1, ToAnthropicPiece
    <3>4. Len(d.items) \in Int /\ Len(items) - 1 \in Int
      BY <1>2, <3>2
    <3> HIDE DEF items, s
    <3>5. /\ Open(Len(d.items), Of(c)) \in Frames /\ Open(Len(d.items), Of(c)).kind = "open"
          /\ Delta(Len(items) - 1, Of(c), Size(c)) \in Frames
          /\ Delta(Len(items) - 1, Of(c), Size(c)).kind = "delta"
      BY <3>1, <3>4, OpenIs, DeltaIs
    <3>6. first \in Seq(Frames) /\ \A i \in 1 .. Len(first) : first[i].kind = "open"
      BY <3>5, FewIs
    <3>7. piece \in Seq(Frames) /\ \A i \in 1 .. Len(piece) : piece[i].kind = "delta"
      BY <3>5, FewIs
    <3> HIDE DEF first, piece
    <3>8. Hello(d) \in Seq(Frames) /\ \A i \in 1 .. Len(Hello(d)) : Hello(d)[i].kind = "start"
      BY HelloIs, PlainFrames
    <3> DEFINE h == Hello(d) \o first
    <3>9. h \in Seq(Frames) /\ \A i \in 1 .. Len(h) : h[i].kind \in {"start", "open"}
      BY <3>6, <3>8
    <3> HIDE DEF h
    <3>10. h \o piece \in Seq(Frames)
           /\ \A i \in 1 .. Len(h \o piece) : (h \o piece)[i].kind \in {"start", "open", "delta"}
      BY <3>7, <3>9
    <3> QED BY <3>3, <3>10 DEF h
  <2>2. CASE c.kind \in {"role", "finish", "error"}
    <3>1. s.out = Hello(d)
      BY <2>2 DEF ToAnthropic, Step
    <3> HIDE DEF s
    <3> QED BY <3>1, HelloIs, PlainFrames
  <2>3. CASE c.kind = "done"
    <3>1. s.out = <<>>
      BY <2>3 DEF ToAnthropic, Step
    <3> HIDE DEF s
    <3> QED BY <3>1
  <2> QED BY <2>1, <2>2, <2>3, ChunksAre
<1>4. ASSUME NEW p \in Parts
      PROVE  Arrived(s.out, p) + HeldBack(s.state.items, p) = HeldBack(d.items, p) + DuePieces(c, p)
  <2>1. HeldBack(s.state.items, p) = 0 /\ HeldBack(d.items, p) = 0
    BY <1>1, <1>2, AnthropicHolds
  <2>2. Arrived(s.out, p) = DuePieces(c, p) /\ Arrived(s.out, p) \in Nat
    BY <1>3, AnthropicPieces, ArrivedAddsUp
  <2> QED BY <2>1, <2>2
<1>5. ASSUME NEW w \in Seq(Frames), Shown(w, "anthropic", d.started, d.items)
      PROVE  Shown(w \o s.out, "anthropic", s.state.started, s.state.items)
  BY <1>5, AnthropicShown
<1>6. ASSUME NEW x, Filed(d.items, x) PROVE Filed(s.state.items, x)
  <2>1. CASE c.kind \in {"text", "call"}
    <3> DEFINE items == Including(d.items, Key(c), Of(c))
    <3>1. s.state.items = items
      <4>1. Key(c) \in Parts /\ Of(c) \in Parts
        BY <2>1, ChunksAre
      <4>2. items \in Seq(Items)
        BY <4>1, <1>2, IncludingIs
      <4>3. s.state = With(d, items)
        BY <2>1, ToAnthropicPiece
      <4> HIDE DEF items
      <4> QED BY <4>2, <4>3, WithIs
    <3>2. items = d.items \/ items = Append(d.items, Item(Key(c), Of(c)))
      BY DEF Including
    <3> HIDE DEF items
    <3>3. 1 .. Len(d.items) \subseteq 1 .. Len(items) /\ \A i \in 1 .. Len(d.items) : items[i] = d.items[i]
      BY <3>2, <1>2
    <3> QED BY <3>1, <3>3, <1>6 DEF Filed
  <2>2. CASE c.kind \notin {"text", "call"}
    <3>1. s.state.items = d.items
      BY <2>2, ChunksAre DEF ToAnthropic, Step, Started, Down
    <3> QED BY <3>1, <1>6
  <2> QED BY <2>1, <2>2
<1> HIDE DEF s
<1>7. ~Fails(s.out) /\ \A i \in 1 .. Len(s.out) : s.out[i].kind \notin {"finish", "end"}
  BY <1>3, NoFailure
<1>8. \A w \in Seq(Frames) : Shown(w, "anthropic", d.started, d.items) =>
        /\ Orderly(w \o s.out) /\ OfKind(w \o s.out, "end") = {}
        /\ Shown(w \o s.out, "anthropic", s.state.started, s.state.items)
  BY <1>5 DEF Shown, Blocks
<1> QED BY <1>1, <1>3, <1>4, <1>6, <1>7, <1>8 DEF Conversion, s

\* What a piece of text or of a call does to the items, and its frames.
Says(up, d, c, items, out) ==
  /\ items \in Seq(Items) /\ out \in Seq(Frames) /\ ItemsOk(up, "responses", items)
  /\ \A x : Filed(d.items, x) \/ (c.kind = "call" /\ x = c.index) => Filed(items, x)
  /\ \A i \in 1 .. Len(out) : out[i].kind \in {"open", "delta"}
  /\ \A p \in Parts : Arrived(out, p) + HeldBack(items, p) = HeldBack(d.items, p) + DuePieces(c, p)
  /\ \A w \in Seq(Frames) : Shown(w, "responses", TRUE, d.items) =>
       Shown(w \o out, "responses", TRUE, items)

\* Together with the first frame, if it is due.
LEMMA ResponsesPiece ==
  ASSUME NEW d \in Down, NEW c \in Chunks, NEW up, NEW items, NEW out, Says(up, d, c, items, out),
         c.kind \in {"text", "call"},
         NEW s, s.state = With(d, items), s.out = Hello(d) \o out
  PROVE  Conversion(up, "responses", d, c, s)
<1>0. items \in Seq(Items) /\ out \in Seq(Frames)
  BY DEF Says
<1>1. /\ s.state \in Down /\ s.state.items = items /\ s.state.started = TRUE
      /\ s.state.finished = d.finished /\ s.state.failed = d.failed /\ s.state.reason = d.reason
  <2>1. /\ With(d, items) \in Down
        /\ With(d, items).items = items /\ With(d, items).started = TRUE
        /\ With(d, items).finished = d.finished /\ With(d, items).failed = d.failed
        /\ With(d, items).reason = d.reason
    BY <1>0, WithIs
  <2> QED BY <2>1
<1>2. /\ s.out \in Seq(Frames)
      /\ \A p \in Parts : Arrived(s.out, p) = Arrived(out, p)
      /\ \A i \in 1 .. Len(s.out) : s.out[i] = Start \/ \E j \in 1 .. Len(out) : s.out[i] = out[j]
      /\ \A w \in Seq(Frames) : w \o s.out = (w \o Hello(d)) \o out /\ w \o Hello(d) \in Seq(Frames)
  <2> DEFINE h == Hello(d) \o out
  <2>1. /\ h \in Seq(Frames)
        /\ \A p \in Parts : Arrived(h, p) = Arrived(out, p)
        /\ \A i \in 1 .. Len(h) : h[i] = Start \/ \E j \in 1 .. Len(out) : h[i] = out[j]
        /\ \A w \in Seq(Frames) : w \o h = (w \o Hello(d)) \o out /\ w \o Hello(d) \in Seq(Frames)
    BY <1>0, HelloThen
  <2>2. s.out = h
    OBVIOUS
  <2> HIDE DEF h
  <2> QED BY <2>1, <2>2
<1>3. ~Fails(s.out) /\ \A i \in 1 .. Len(s.out) : s.out[i].kind \notin {"finish", "end"}
  <2>1. \A i \in 1 .. Len(s.out) : s.out[i].kind \in {"start", "open", "delta"}
    BY <1>2, PlainFrames DEF Says
  <2> QED BY <2>1, <1>2, NoFailure
<1>4. ASSUME NEW w \in Seq(Frames), Shown(w, "responses", d.started, d.items)
      PROVE  Shown(w \o s.out, "responses", TRUE, items)
  <2>1. Shown(w \o Hello(d), "responses", TRUE, d.items)
    BY <1>4, ShownHello
  <2>2. w \o Hello(d) \in Seq(Frames) /\ w \o s.out = (w \o Hello(d)) \o out
    BY <1>2
  <2> QED BY <2>1, <2>2 DEF Says
<1>5. \A w \in Seq(Frames) : Shown(w, "responses", d.started, d.items) =>
        /\ Orderly(w \o s.out) /\ OfKind(w \o s.out, "end") = {}
        /\ Shown(w \o s.out, "responses", s.state.started, s.state.items)
  <2> TAKE w \in Seq(Frames)
  <2> HAVE Shown(w, "responses", d.started, d.items)
  <2>1. Shown(w \o s.out, "responses", TRUE, items)
    BY <1>4
  <2>2. Orderly(w \o s.out) /\ OfKind(w \o s.out, "end") = {}
    BY <2>1 DEF Shown, Blocks
  <2> QED BY <2>1, <2>2, <1>1
<1>6. \A p \in Parts : Arrived(s.out, p) + HeldBack(s.state.items, p) = HeldBack(d.items, p) + DuePieces(c, p)
  BY <1>1, <1>2 DEF Says
<1>7. c.kind # "finish"
  OBVIOUS
<1>8. /\ ItemsOk(up, "responses", s.state.items)
      /\ \A x : Filed(d.items, x) \/ (c.kind = "call" /\ x = c.index) => Filed(s.state.items, x)
  BY <1>1 DEF Says
<1> QED BY <1>1, <1>2, <1>3, <1>5, <1>6, <1>7, <1>8 DEF Conversion

\* Frames of Responses that say nothing of the answer: the first one and an error, if any.
Plain(d, c, s, broken) ==
  /\ s.state \in Down /\ s.state.items = d.items /\ s.state.finished = d.finished
  /\ broken => s.out = <<Error>> \/ s.out = Hello(d) \o <<Error>>
  /\ ~broken => \/ s.out = Hello(d) /\ s.state.started = TRUE
                \/ s.out = <<>> /\ s.state.started = d.started
  /\ ~broken => s.state.failed = d.failed
  /\ s.state.reason = IF c.kind = "finish" /\ ~broken THEN c.reason ELSE d.reason

\* They are as they should be.
LEMMA ResponsesPlain ==
  ASSUME NEW d \in Down, NEW c \in Chunks, NEW up, ItemsOk(up, "responses", d.items),
         c.kind \notin {"text", "call"},
         NEW broken \in BOOLEAN, NEW s, Plain(d, c, s, broken)
  PROVE  Conversion(up, "responses", d, c, s)
<1> DEFINE out == s.out
<1>0. /\ s.state \in Down /\ s.state.items = d.items /\ s.state.finished = d.finished
      /\ broken => out = <<Error>> \/ out = Hello(d) \o <<Error>>
      /\ ~broken => \/ out = Hello(d) /\ s.state.started = TRUE
                    \/ out = <<>> /\ s.state.started = d.started
      /\ ~broken => s.state.failed = d.failed
      /\ s.state.reason = IF c.kind = "finish" /\ ~broken THEN c.reason ELSE d.reason
  BY DEF Plain
<1> HIDE DEF out
<1>1. Hello(d) \in Seq(Frames) /\ (Hello(d) = <<>> \/ Hello(d) = <<Start>>)
      /\ \A p \in Parts : Arrived(Hello(d), p) = 0
  BY HelloIs
<1>2. <<Error>> \in Seq(Frames) /\ \A p \in Parts : Arrived(<<Error>>, p) = 0
  <2>1. Error \in Frames /\ \A p : Pieces(Error, p) = 0
    BY PlainFrames
  <2> QED BY <2>1, ArrivedAddsUp
<1>4. Start.kind = "start" /\ Error.kind = "error" /\ Start \in Frames /\ Error \in Frames
  BY PlainFrames
<1>5. out \in Seq(Frames) /\ \A i \in 1 .. Len(out) : out[i] \in {Start, Error}
  <2>1. \A i \in 1 .. Len(Hello(d)) : Hello(d)[i] = Start
    BY <1>1
  <2>2. CASE out = Hello(d)
    BY <2>1, <2>2, <1>1
  <2>3. CASE out = <<Error>>
    BY <2>3, <1>2
  <2>4. CASE out = <<>>
    BY <2>4
  <2>5. CASE out = Hello(d) \o <<Error>>
    <3>1. out \in Seq(Frames)
      BY <2>5, <1>1, <1>2
    <3>2. \A i \in 1 .. Len(out) : (i \in 1 .. Len(Hello(d)) /\ out[i] = Hello(d)[i]) \/ out[i] = Error
      BY <2>5, <1>1
    <3> QED BY <3>1, <3>2, <2>1
  <2> QED BY <2>2, <2>3, <2>4, <2>5, <1>0
<1>6. Fails(out) <=> broken
  <2>1. CASE broken
    <3>1. Len(out) \in 1 .. Len(out) /\ out[Len(out)] = Error
      <4>1. CASE out = <<Error>>
        BY <4>1
      <4>2. CASE out = Hello(d) \o <<Error>>
        BY <4>2, <1>1
      <4> QED BY <2>1, <4>1, <4>2, <1>0
    <3> QED BY <2>1, <3>1, <1>4 DEF Fails
  <2>2. CASE ~broken
    <3>1. \A i \in 1 .. Len(out) : out[i] = Start
      <4>1. \A i \in 1 .. Len(Hello(d)) : Hello(d)[i] = Start
        BY <1>1
      <4> QED BY <2>2, <4>1, <1>0
    <3> QED BY <2>2, <3>1, <1>4 DEF Fails
  <2> QED BY <2>1, <2>2
<1>7. \A p \in Parts : Arrived(out, p) = 0
  <2>1. \A p \in Parts : Arrived(Hello(d) \o <<Error>>, p) = 0
    BY <1>2, HelloThen
  <2>2. \A p \in Parts : Arrived(<<>>, p) = 0
    BY ArrivedAddsUp
  <2> QED BY <2>1, <2>2, <1>0, <1>1, <1>2
<1>8. ASSUME NEW p \in Parts
      PROVE  Arrived(out, p) + HeldBack(s.state.items, p) = HeldBack(d.items, p) + DuePieces(c, p)
  <2>1. DuePieces(c, p) = 0
    BY DEF DuePieces
  <2>2. HeldBack(d.items, p) \in Nat
    BY DownsAre, HeldBackIs DEF ItemsOk
  <2> QED BY <2>1, <2>2, <1>0, <1>7
<1>9. ASSUME NEW w \in Seq(Frames), Shown(w, "responses", d.started, d.items)
      PROVE  /\ Orderly(w \o out) /\ OfKind(w \o out, "end") = {}
             /\ ~Fails(out) => Shown(w \o out, "responses", s.state.started, s.state.items)
  <2> DEFINE more(x) == Orderly(x \o <<Error>>) /\ OfKind(x \o <<Error>>, "end") = {}
  <2>1. ASSUME NEW x \in Seq(Frames), Orderly(x), OfKind(x, "end") = {} PROVE more(x)
    <3>1. Orderly(x \o <<Error>>)
      BY <1>4, <2>1, OrderlyMore
    <3>2. OfKind(x \o <<Error>>, "end") = OfKind(x, "end")
      BY <1>4, OneMore
    <3> QED BY <2>1, <3>1, <3>2
  <2>2. Orderly(w) /\ OfKind(w, "end") = {}
    BY <1>9 DEF Shown, Blocks
  <2>3. CASE out = <<Error>>
    <3>1. Fails(out)
      BY <2>3, <1>4 DEF Fails
    <3> QED BY <2>1, <2>2, <2>3, <3>1
  <2>4. CASE out = Hello(d) \o <<Error>>
    <3> DEFINE x == w \o Hello(d)
    <3>1. Shown(x, "responses", TRUE, d.items)
      BY <1>9, ShownHello
    <3>2. x \in Seq(Frames) /\ w \o out = x \o <<Error>>
      BY <2>4, <1>2, HelloThen
    <3> HIDE DEF x
    <3>3. Orderly(x) /\ OfKind(x, "end") = {}
      BY <3>1 DEF Shown, Blocks
    <3>4. more(x)
      BY <3>2, <3>3, <2>1
    <3>5. broken
      <4>1. out # Hello(d) /\ out # <<>>
        BY <2>4, <1>1
      <4> QED BY <4>1, <1>0
    <3> QED BY <3>2, <3>4, <3>5, <1>6
  <2>5. CASE out = Hello(d) /\ s.state.started = TRUE
    <3>1. Shown(w \o Hello(d), "responses", TRUE, d.items)
      BY <1>9, ShownHello
    <3>2. Orderly(w \o Hello(d)) /\ OfKind(w \o Hello(d), "end") = {}
      BY <3>1 DEF Shown, Blocks
    <3> QED BY <3>1, <3>2, <2>5, <1>0
  <2>6. CASE out = <<>> /\ s.state.started = d.started
    <3>1. w \o out = w
      BY <2>6
    <3> QED BY <3>1, <2>2, <2>6, <1>0, <1>9
  <2> QED BY <2>3, <2>4, <2>5, <2>6, <1>0
<1>10. \A i \in 1 .. Len(out) : out[i].kind \notin {"finish", "end"}
  BY <1>4, <1>5
<1>11. (~Fails(out) => s.state.failed = d.failed)
       /\ s.state.reason = IF c.kind = "finish" /\ ~Fails(out) THEN c.reason ELSE d.reason
  BY <1>0, <1>6
<1>12. ItemsOk(up, "responses", s.state.items) /\ c.kind # "call"
  BY <1>0
<1> QED BY <1>0, <1>5, <1>8, <1>9, <1>10, <1>11, <1>12 DEF Conversion, out

\* For Responses, before it has finished or failed.
LEMMA ResponsesConverts ==
  ASSUME NEW d \in Down, NEW c \in Chunks, NEW up, ItemsOk(up, "responses", d.items),
         ~d.finished, ~d.failed,
         c.kind = "call" /\ up = "openai" => c.index = c.tool,
         c.kind = "call" /\ up # "openai" => c.named \/ Filed(d.items, c.index)
  PROVE  Conversion(up, "responses", d, c, ToResponses(d, c))
<1> DEFINE s == ToResponses(d, c)
<1> SUFFICES Conversion(up, "responses", d, c, s)
  OBVIOUS
<1>1. CASE c.kind = "text"
  <2> DEFINE t == TextToResponses(Started(d))
             items == t.state.items
             out == t.out
  <2>1. c = Text
    BY <1>1 DEF Chunks, Role, Done, Failure
  <2>2. s.state = With(d, items) /\ s.out = Hello(d) \o out
    BY <1>1, ToResponsesPiece
  <2>3. Says(up, d, c, items, out)
    <3> HIDE DEF t
    <3>1. /\ t.state.items \in Seq(Items) /\ t.out \in Seq(Frames)
          /\ ItemsOk(up, "responses", t.state.items)
          /\ \A x : Filed(t.state.items, x) <=> Filed(d.items, x) \/ x = TheText
          /\ \A i \in 1 .. Len(t.out) : t.out[i].kind \in {"open", "delta"}
          /\ \A p \in Parts : Arrived(t.out, p) + HeldBack(t.state.items, p)
                               = HeldBack(d.items, p) + DuePieces(Text, p)
          /\ \A w \in Seq(Frames) : Shown(w, "responses", TRUE, d.items) =>
               Shown(w \o t.out, "responses", TRUE, t.state.items)
      BY TextResponds DEF t
    <3>2. c.kind # "call"
      BY <1>1
    <3> QED BY <2>1, <3>1, <3>2 DEF Says
  <2> HIDE DEF items, out, s
  <2> QED BY <1>1, <2>2, <2>3, ResponsesPiece
<1>2. CASE c.kind = "call"
  <2> DEFINE t == CallToResponses(Started(d), c)
             items == t.state.items
             out == t.out
  <2>2. s.state = With(d, items) /\ s.out = Hello(d) \o out
    BY <1>2, ToResponsesPiece
  <2>3. Says(up, d, c, items, out)
    <3>1. /\ up = "openai" => c.index = c.tool
          /\ up # "openai" => c.named \/ Filed(d.items, c.index)
      BY <1>2
    <3> HIDE DEF t
    <3>2. /\ t.state.items \in Seq(Items) /\ t.out \in Seq(Frames)
          /\ ItemsOk(up, "responses", t.state.items)
          /\ \A x : Filed(t.state.items, x) <=> Filed(d.items, x) \/ x = c.index
          /\ \A i \in 1 .. Len(t.out) : t.out[i].kind \in {"open", "delta"}
          /\ \A p \in Parts : Arrived(t.out, p) + HeldBack(t.state.items, p)
                               = HeldBack(d.items, p) + DuePieces(c, p)
          /\ \A w \in Seq(Frames) : Shown(w, "responses", TRUE, d.items) =>
               Shown(w \o t.out, "responses", TRUE, t.state.items)
      BY <1>2, <3>1, CallResponds DEF t
    <3> QED BY <3>2 DEF Says
  <2> HIDE DEF items, out, s
  <2> QED BY <1>2, <2>2, <2>3, ResponsesPiece
<1>3. CASE c.kind \notin {"text", "call"}
  <2>1. Started(d) \in Down /\ Failed(d) \in Down /\ Failed(Started(d)) \in Down
        /\ [d EXCEPT !.terminal = TRUE] \in Down
    BY DEF Started, Failed, Down
  <2>2. c.kind = "finish" => [Started(d) EXCEPT !.terminal = TRUE, !.reason = c.reason] \in Down
    BY <2>1, ChunksAre DEF Down
  <2>3. CASE c.kind = "done"
    <3>1. s.state = [d EXCEPT !.terminal = TRUE] /\ s.out = <<>>
      BY <2>3 DEF ToResponses, Step
    <3>2. c.kind # "finish"
      BY <2>3
    <3>3. /\ s.state.items = d.items /\ s.state.finished = d.finished /\ s.state.started = d.started
          /\ s.state.failed = d.failed /\ s.state.reason = d.reason
      BY <3>1 DEF Down
    <3>4. s.state \in Down
      BY <2>1, <3>1
    <3>5. Plain(d, c, s, FALSE)
      <4> HIDE DEF s
      <4> QED BY <3>1, <3>2, <3>3, <3>4 DEF Plain
    <3> HIDE DEF s
    <3> QED BY <1>3, <3>5, ResponsesPlain
  <2>4. CASE c.kind = "error"
    <3>1. s.state = Failed(d) /\ s.out = <<Error>>
      BY <2>4 DEF ToResponses, Step
    <3>2. c.kind # "finish"
      BY <2>4
    <3>3. s.state.items = d.items /\ s.state.finished = d.finished /\ s.state.reason = d.reason
      BY <3>1 DEF Down, Failed
    <3>4. s.state \in Down
      BY <2>1, <3>1
    <3>5. Plain(d, c, s, TRUE)
      <4> HIDE DEF s
      <4> QED BY <3>1, <3>2, <3>3, <3>4 DEF Plain
    <3> HIDE DEF s
    <3> QED BY <1>3, <3>5, ResponsesPlain
  <2>5. CASE c.kind = "role"
    <3>1. s.state = Started(d) /\ s.out = Hello(d)
      BY <2>5 DEF ToResponses, Step
    <3>2. c.kind # "finish"
      BY <2>5
    <3>3. /\ s.state.items = d.items /\ s.state.finished = d.finished /\ s.state.started = TRUE
          /\ s.state.failed = d.failed /\ s.state.reason = d.reason
      BY <3>1 DEF Down, Started
    <3>4. s.state \in Down
      BY <2>1, <3>1
    <3>5. Plain(d, c, s, FALSE)
      <4> HIDE DEF s
      <4> QED BY <3>1, <3>2, <3>3, <3>4 DEF Plain
    <3> HIDE DEF s
    <3> QED BY <1>3, <3>5, ResponsesPlain
  <2>6. CASE c.kind = "finish" /\ c.reason = "error"
    <3>1. s.state = Failed(Started(d)) /\ s.out = Hello(d) \o <<Error>>
      BY <2>6 DEF ToResponses, Step
    <3>3. s.state.items = d.items /\ s.state.finished = d.finished /\ s.state.reason = d.reason
      BY <3>1 DEF Down, Started, Failed
    <3>4. s.state \in Down
      BY <2>1, <3>1
    <3>5. Plain(d, c, s, TRUE)
      <4> HIDE DEF s
      <4> QED BY <3>1, <3>3, <3>4 DEF Plain
    <3> HIDE DEF s
    <3> QED BY <1>3, <3>5, ResponsesPlain
  <2>7. CASE c.kind = "finish" /\ c.reason # "error"
    <3>1. s.state = [Started(d) EXCEPT !.terminal = TRUE, !.reason = c.reason] /\ s.out = Hello(d)
      BY <2>7 DEF ToResponses, Step
    <3>3. /\ s.state.items = d.items /\ s.state.finished = d.finished /\ s.state.started = TRUE
          /\ s.state.failed = d.failed /\ s.state.reason = c.reason
      BY <3>1 DEF Down, Started
    <3>4. s.state \in Down
      BY <2>2, <2>7, <3>1
    <3>5. Plain(d, c, s, FALSE)
      <4> HIDE DEF s
      <4> QED BY <2>7, <3>1, <3>3, <3>4 DEF Plain
    <3> HIDE DEF s
    <3> QED BY <1>3, <3>5, ResponsesPlain
  <2> QED BY <1>3, <2>3, <2>4, <2>5, <2>6, <2>7, ChunksAre
<1> QED BY <1>1, <1>2, <1>3

\* The frames of the OpenAI protocol for one chunk.
LEMMA OpenAIFrames ==
  ASSUME NEW c \in Chunks, NEW d, NEW out, out = ToOpenAI(d, c).out
  PROVE  /\ out \in Seq(Frames)
         /\ \A p \in Parts : Arrived(out, p) = DuePieces(c, p)
         /\ \A i \in 1 .. Len(out) :
              /\ out[i].kind = "finish" => c.kind = "finish" /\ out[i].reason = c.reason
              /\ out[i].kind = "end" => c.kind = "done" /\ out[i].reason = "none"
<1>1. CASE c.kind = "call"
  <2> DEFINE open == Open(c.index, c.tool)
             delta == Delta(c.index, c.tool, c.size)
             first == Few(c.named, open)
             piece == Few(c.size > 0, delta)
  <2>1. /\ c.index \in Int /\ c.tool \in Parts /\ c.size \in Nat
    BY <1>1, ChunksAre, PartsAre, ToolsAssumption DEF Tools
  <2>2. /\ open \in Frames /\ open.kind = "open" /\ \A p : Pieces(open, p) = 0
        /\ delta \in Frames /\ delta.kind = "delta"
        /\ \A p : Pieces(delta, p) = IF c.tool = p THEN c.size ELSE 0
    BY <2>1, OpenIs, DeltaIs
  <2>3. out = first \o piece
    BY <1>1 DEF ToOpenAI, Step
  <2> HIDE DEF open, delta
  <2>4. /\ first \in Seq(Frames)
        /\ c.named => first = <<open>>
        /\ ~c.named => first = <<>>
        /\ \A p \in Parts : Arrived(first, p) = IF c.named THEN Pieces(open, p) ELSE 0
    BY <2>2, FewIs
  <2>5. /\ piece \in Seq(Frames)
        /\ c.size > 0 => piece = <<delta>>
        /\ ~ (c.size > 0) => piece = <<>>
        /\ \A p \in Parts : Arrived(piece, p) = IF c.size > 0 THEN Pieces(delta, p) ELSE 0
    BY <2>2, FewIs
  <2> HIDE DEF first, piece
  <2>6. ASSUME NEW p \in Parts PROVE Arrived(out, p) = DuePieces(c, p)
    <3>1. Arrived(first \o piece, p) = Arrived(first, p) + Arrived(piece, p)
      BY <2>4, <2>5, ArrivedAddsUp
    <3>2. Arrived(first, p) = 0
      BY <2>2, <2>4
    <3>3. Arrived(piece, p) = IF c.tool = p THEN c.size ELSE 0
      BY <2>1, <2>2, <2>5
    <3>4. DuePieces(c, p) = IF c.tool = p THEN c.size ELSE 0
      BY <1>1 DEF DuePieces, Of, Size
    <3> QED BY <2>1, <2>3, <3>1, <3>2, <3>3, <3>4
  <2>7. out \in Seq(Frames)
    BY <2>3, <2>4, <2>5
  <2>8. ASSUME NEW i \in 1 .. Len(first \o piece) PROVE (first \o piece)[i].kind \in {"open", "delta"}
    <3>1. \A j \in 1 .. Len(first) : first[j].kind = "open"
      BY <2>2, <2>4
    <3>2. \A j \in 1 .. Len(piece) : piece[j].kind = "delta"
      BY <2>2, <2>5
    <3>3. CASE i <= Len(first)
      <4>1. i \in 1 .. Len(first) /\ (first \o piece)[i] = first[i]
        BY <3>3, <2>4, <2>5
      <4> QED BY <4>1, <3>1
    <3>4. CASE i > Len(first)
      <4>1. i - Len(first) \in 1 .. Len(piece) /\ (first \o piece)[i] = piece[i - Len(first)]
        BY <3>4, <2>4, <2>5
      <4> QED BY <4>1, <3>2
    <3> QED BY <3>3, <3>4, <2>4, <2>5
  <2>9. \A i \in 1 .. Len(out) : out[i].kind \notin {"finish", "end"}
    BY <2>3, <2>8
  <2> QED BY <2>6, <2>7, <2>9
<1>2. CASE c.kind # "call"
  <2> DEFINE f == CASE c.kind = "role"   -> Start
                    [] c.kind = "text"   -> Delta(TheText, TheText, 1)
                    [] c.kind = "finish" -> FinishFrame(c.reason)
                    [] c.kind = "done"   -> End("none")
                    [] c.kind = "error"  -> Error
  <2>1. out = <<f>>
    BY <1>2, ChunksAre DEF ToOpenAI, Step
  <2>2. /\ f \in Frames
        /\ \A p : Pieces(f, p) = DuePieces(c, p)
        /\ f.kind = "finish" => c.kind = "finish" /\ f.reason = c.reason
        /\ f.kind = "end" => c.kind = "done" /\ f.reason = "none"
    <3>1. CASE c.kind = "role"
      <4>1. f = Start
        BY <3>1
      <4> HIDE DEF f
      <4> QED BY <3>1, <4>1, PlainFrames DEF DuePieces
    <3>2. CASE c.kind = "text"
      <4>1. f = Delta(TheText, TheText, 1)
        BY <3>2
      <4>2. TheText \in Int /\ TheText \in Parts /\ 1 \in Nat
        BY PartsAre DEF TheText
      <4> HIDE DEF f
      <4>3. /\ f \in Frames /\ f.kind = "delta"
            /\ \A p : Pieces(f, p) = IF TheText = p THEN 1 ELSE 0
        BY <4>1, <4>2, DeltaIs
      <4>4. \A p : DuePieces(c, p) = IF TheText = p THEN 1 ELSE 0
        BY <3>2 DEF DuePieces, Of, Size
      <4> QED BY <4>3, <4>4
    <3>3. CASE c.kind = "finish"
      <4>1. f = FinishFrame(c.reason)
        BY <3>3
      <4>2. c.reason \in Reasons
        BY <3>3, ChunksAre
      <4> HIDE DEF f
      <4> QED BY <3>3, <4>1, <4>2 DEF FinishFrame, Frames, Pieces, DuePieces
    <3>4. CASE c.kind = "done"
      <4>1. f = End("none")
        BY <3>4
      <4> HIDE DEF f
      <4> QED BY <3>4, <4>1 DEF End, Frames, Pieces, DuePieces
    <3>5. CASE c.kind = "error"
      <4>1. f = Error
        BY <3>5
      <4> HIDE DEF f
      <4> QED BY <3>5, <4>1, PlainFrames DEF DuePieces
    <3> QED BY <3>1, <3>2, <3>3, <3>4, <3>5, <1>2, ChunksAre
  <2> HIDE DEF f
  <2>3. out \in Seq(Frames) /\ \A p \in Parts : Arrived(out, p) = Pieces(f, p)
    BY <2>1, <2>2, ArrivedAddsUp
  <2>4. Len(out) = 1 /\ out[1] = f
    BY <2>1
  <2> QED BY <2>2, <2>3, <2>4
<1> QED BY <1>1, <1>2

\* For OpenAI.
LEMMA OpenAIConverts ==
  ASSUME NEW d \in Down, NEW c \in Chunks, NEW up, ItemsOk(up, "openai", d.items)
  PROVE  Conversion(up, "openai", d, c, ToOpenAI(d, c))
<1> DEFINE s == ToOpenAI(d, c)
<1> SUFFICES Conversion(up, "openai", d, c, s)
  OBVIOUS
<1>1. s.state = d
  BY DEF ToOpenAI, Step
<1>2. /\ s.out \in Seq(Frames)
      /\ \A p \in Parts : Arrived(s.out, p) = DuePieces(c, p)
      /\ \A i \in 1 .. Len(s.out) :
           /\ s.out[i].kind = "finish" => c.kind = "finish" /\ s.out[i].reason = c.reason
           /\ s.out[i].kind = "end" => c.kind = "done" /\ s.out[i].reason = "none"
  BY OpenAIFrames
<1> HIDE DEF s
<1>3. ASSUME NEW p \in Parts
      PROVE  Arrived(s.out, p) + HeldBack(s.state.items, p) = HeldBack(d.items, p) + DuePieces(c, p)
  <2>1. d.items = <<>>
    BY DEF ItemsOk
  <2>2. HeldBack(<<>>, p) = 0
    BY DEF HeldBack
  <2>3. Arrived(s.out, p) \in Nat
    BY <1>2, ArrivedAddsUp
  <2> QED BY <2>1, <2>2, <2>3, <1>1, <1>2
<1> QED BY <1>1, <1>2, <1>3 DEF Conversion

\* For all of them.
LEMMA ChunkConverts ==
  ASSUME NEW d \in Down, NEW c \in Chunks, NEW up, NEW protocol \in {"openai", "anthropic", "responses"},
         ItemsOk(up, protocol, d.items), ~d.finished, ~d.failed,
         c.kind = "call" /\ up = "openai" => c.index = c.tool,
         protocol = "responses" /\ c.kind = "call" /\ up # "openai" => c.named \/ Filed(d.items, c.index)
  PROVE  Conversion(up, protocol, d, c, ToDownstream(protocol, d, c))
<1>1. CASE protocol = "openai"
  <2>1. ToDownstream("openai", d, c) = ToOpenAI(d, c)
    BY DEF ToDownstream
  <2> QED BY <1>1, <2>1, OpenAIConverts
<1>2. CASE protocol = "anthropic"
  <2>1. ToDownstream("anthropic", d, c) = ToAnthropic(d, c)
    BY DEF ToDownstream
  <2> QED BY <1>2, <2>1, AnthropicConverts
<1>3. CASE protocol = "responses"
  <2>1. ToDownstream("responses", d, c) = ToResponses(d, c)
    BY DEF ToDownstream
  <2> QED BY <1>3, <2>1, ResponsesConverts
<1> QED BY <1>1, <1>2, <1>3
-----------------------------------------------------------------------------
(* The end of the downstream converters *)

\* Closing every block and ending leaves the frames in order, if all items were announced.
LEMMA OrderlyEnd ==
  ASSUME NEW w \in Seq(Frames), NEW protocol, NEW items \in Seq(Items), NEW r \in Reasons,
         Shown(w, protocol, TRUE, items),
         \A k \in 1 .. Len(items) : Announced(protocol, items, k)
  PROVE  Orderly((w \o Closes(items)) \o <<End(r)>>)
<1> DEFINE n == Len(w)
           m == Len(items)
           cs == Closes(items)
           t == (w \o cs) \o <<End(r)>>
<1>1. n \in Nat /\ m \in Nat
  OBVIOUS
<1>2. cs \in Seq(Frames) /\ Len(cs) = m /\ \A k \in 1 .. m : cs[k] = Close(k - 1)
  <2>1. \A k \in 1 .. m : Close(k - 1) \in Frames
    BY <1>1 DEF Close, Frames
  <2>2. cs = [k \in 1 .. m |-> Close(k - 1)]
    BY DEF Closes
  <2> HIDE DEF cs, m
  <2> QED BY <1>1, <2>1, <2>2, IsASeq, LenProperties
<1>3. End(r) \in Frames /\ End(r).kind = "end"
  BY DEF End, Frames
<1> HIDE DEF cs
<1>4. /\ t \in Seq(Frames) /\ Len(t) = n + m + 1
      /\ \A i \in 1 .. n : t[i] = w[i]
      /\ \A k \in 1 .. m : t[n + k] = cs[k]
      /\ t[n + m + 1] = End(r)
  <2> DEFINE u == w \o cs
  <2>1. /\ u \in Seq(Frames) /\ Len(u) = n + m
        /\ \A i \in 1 .. n : u[i] = w[i]
        /\ \A k \in 1 .. m : u[n + k] = cs[k]
    BY <1>1, <1>2
  <2> HIDE DEF u, n, m
  <2>2. /\ u \o <<End(r)>> \in Seq(Frames) /\ Len(u \o <<End(r)>>) = n + m + 1
        /\ \A i \in 1 .. n + m : (u \o <<End(r)>>)[i] = u[i]
        /\ (u \o <<End(r)>>)[n + m + 1] = End(r)
    BY <1>1, <1>3, <2>1
  <2> QED BY <1>1, <2>1, <2>2 DEF u
<1> HIDE DEF t
<1>5. \A k \in 1 .. m : t[n + k].kind = "close" /\ t[n + k].at = k - 1
  <2>1. \A k \in 1 .. m : Close(k - 1).kind = "close" /\ Close(k - 1).at = k - 1
    BY DEF Close
  <2>2. \A k \in 1 .. m : t[n + k] = Close(k - 1)
    <3> HIDE DEF n, m
    <3> QED BY <1>2, <1>4
  <2> HIDE DEF n, m
  <2> QED BY <2>1, <2>2
<1>6. t[n + m + 1].kind = "end"
  BY <1>3, <1>4
<1>7. ASSUME NEW i \in 1 .. Len(t)
      PROVE  \/ i \in 1 .. n /\ t[i] = w[i]
             \/ \E k \in 1 .. m : i = n + k
             \/ i = n + m + 1
  <2>1. CASE i <= n
    BY <2>1, <1>1, <1>4
  <2>2. CASE i > n /\ i <= n + m
    <3>1. i - n \in 1 .. m /\ i = n + (i - n)
      BY <2>2, <1>1, <1>4
    <3> QED BY <3>1
  <2>3. CASE i > n + m
    <3>1. i \in Nat /\ i <= n + m + 1
      BY <1>4
    <3> HIDE DEF n, m
    <3>2. i = n + m + 1
      BY <2>3, <3>1, <1>1
    <3> QED BY <3>2
  <2> QED BY <2>1, <2>2, <2>3, <1>1, <1>4
<1>8. OfKind(w, "close") = {} /\ OfKind(w, "end") = {}
  BY DEF Shown, Blocks
<1>9. ASSUME NEW kind \in {"start", "open", "delta"} PROVE OfKind(t, kind) = OfKind(w, kind)
  <2>1. \A i \in OfKind(t, kind) : i \in OfKind(w, kind)
    <3> SUFFICES ASSUME NEW i \in OfKind(t, kind) PROVE i \in OfKind(w, kind)
      OBVIOUS
    <3>1. i \in 1 .. Len(t) /\ t[i].kind = kind
      BY DEF OfKind
    <3>2. i \in 1 .. n /\ t[i] = w[i]
      BY <3>1, <1>5, <1>6, <1>7
    <3> QED BY <3>1, <3>2 DEF OfKind
  <2>2. \A i \in OfKind(w, kind) : i \in OfKind(t, kind)
    <3> SUFFICES ASSUME NEW i \in OfKind(w, kind) PROVE i \in OfKind(t, kind)
      OBVIOUS
    <3>1. i \in 1 .. n /\ w[i].kind = kind
      BY DEF OfKind
    <3>2. i \in 1 .. Len(t)
      BY <3>1, <1>1, <1>4
    <3> QED BY <3>1, <3>2, <1>4 DEF OfKind
  <2> QED BY <2>1, <2>2
<1>10. \A i \in OfKind(t, "close") : \E k \in 1 .. m : i = n + k
  <2> SUFFICES ASSUME NEW i \in OfKind(t, "close") PROVE \E k \in 1 .. m : i = n + k
    OBVIOUS
  <2>1. i \in 1 .. Len(t) /\ t[i].kind = "close"
    BY DEF OfKind
  <2>2. ~ (i \in 1 .. n /\ t[i] = w[i])
    BY <2>1, <1>8 DEF OfKind
  <2> QED BY <2>1, <2>2, <1>6, <1>7
<1>11. \A i \in OfKind(t, "end") : i = n + m + 1
  <2> SUFFICES ASSUME NEW i \in OfKind(t, "end") PROVE i = n + m + 1
    OBVIOUS
  <2>1. i \in 1 .. Len(t) /\ t[i].kind = "end"
    BY DEF OfKind
  <2>2. ~ (i \in 1 .. n /\ t[i] = w[i])
    BY <2>1, <1>8 DEF OfKind
  <2> QED BY <2>1, <2>2, <1>5, <1>7
<1>12. \A k \in 1 .. m : n + k \in OfKind(t, "close") /\ t[n + k].at = k - 1
  <2>1. \A k \in 1 .. m : n + k \in 1 .. Len(t)
    BY <1>1, <1>4
  <2> QED BY <2>1, <1>5 DEF OfKind
<1>13. \A kind : \A i \in OfKind(w, kind) : i \in 1 .. n /\ t[i] = w[i]
  BY <1>4 DEF OfKind
<1>14. \A i \in OfKind(t, "start") : i = 1
  BY <1>9 DEF Shown, Orderly
<1>15. \A i, j \in OfKind(t, "open") : t[i].at = t[j].at => i = j
  BY <1>9, <1>13 DEF Shown, Orderly
<1>16. ASSUME NEW i \in OfKind(t, "delta") \cup OfKind(t, "close")
       PROVE  /\ \E j \in OfKind(t, "open") : j < i /\ t[j].at = t[i].at
              /\ ~\E j \in OfKind(t, "close") : j < i /\ t[j].at = t[i].at
  <2>1. CASE i \in OfKind(t, "delta")
    <3>1. i \in OfKind(w, "delta") /\ OfKind(t, "open") = OfKind(w, "open")
      BY <2>1, <1>9
    <3>2. \E j \in OfKind(w, "open") : j < i /\ w[j].at = w[i].at
      BY <3>1 DEF Shown, Orderly
    <3>3. i \in 1 .. n /\ t[i] = w[i]
      BY <3>1, <1>13
    <3>4. \A j \in OfKind(t, "close") : ~ (j < i)
      BY <3>3, <1>1, <1>10
    <3> QED BY <3>1, <3>2, <3>3, <3>4, <1>13
  <2>2. CASE i \in OfKind(t, "close")
    <3>1. PICK k \in 1 .. m : i = n + k
      BY <2>2, <1>10
    <3>2. t[i].at = k - 1
      BY <3>1, <1>5
    <3>3. PICK j \in OfKind(w, "open") : w[j].at = k - 1
      BY <3>1 DEF Shown, Blocks
    <3>4. j \in 1 .. n /\ t[j] = w[j] /\ j \in OfKind(t, "open")
      BY <1>9, <1>13
    <3>5. j < i
      BY <3>1, <3>4, <1>1
    <3>6. \A x \in OfKind(t, "close") : x < i => t[x].at # t[i].at
      <4> SUFFICES ASSUME NEW x \in OfKind(t, "close"), x < i PROVE t[x].at # t[i].at
        OBVIOUS
      <4>1. PICK q \in 1 .. m : x = n + q
        BY <1>10
      <4>2. t[x].at = q - 1
        BY <4>1, <1>5
      <4>3. q \in Nat /\ k \in Nat /\ q < k
        BY <3>1, <4>1, <1>1
      <4> QED BY <3>2, <4>2, <4>3
    <3> QED BY <3>2, <3>3, <3>4, <3>5, <3>6
  <2> QED BY <2>1, <2>2
<1>17. ASSUME NEW i \in OfKind(t, "end")
       PROVE  /\ i = Len(t)
              /\ \A j \in OfKind(t, "open") : \E k \in OfKind(t, "close") : t[k].at = t[j].at
  <2>1. i = Len(t)
    BY <1>4, <1>11
  <2>2. ASSUME NEW j \in OfKind(t, "open") PROVE \E k \in OfKind(t, "close") : t[k].at = t[j].at
    <3>1. j \in OfKind(w, "open") /\ t[j] = w[j]
      BY <1>9, <1>13
    <3>2. PICK k \in 1 .. m : w[j].at = k - 1
      BY <3>1 DEF Shown, Blocks
    <3> QED BY <3>1, <3>2, <1>12
  <2> QED BY <2>1, <2>2
<1> QED BY <1>14, <1>15, <1>16, <1>17 DEF Orderly, t, cs

\* What the downstream converter makes of the end of the stream.
Ending(protocol, d, s) ==
  /\ s.state \in Down /\ s.out \in Seq(Frames)
  /\ s.state.items = d.items /\ s.state.reason = d.reason
  /\ ~Fails(s.out) => ~s.state.failed
  /\ \A p \in Parts : Arrived(s.out, p) = 0
  /\ \A i \in 1 .. Len(s.out) :
       /\ s.out[i].kind # "finish"
       /\ s.out[i].kind = "end" =>
            /\ s.out[i].reason = d.reason /\ protocol # "openai" /\ ~Fails(s.out)
            /\ protocol = "responses" => \A k \in 1 .. Len(d.items) : d.items[k].named
  /\ s.state.finished \/ (s.state = d /\ s.out = <<>>)
  /\ protocol # "openai" => \A w \in Seq(Frames) :
       Shown(w, protocol, d.started, d.items) => Orderly(w \o s.out)

\* What comes last neither says a piece nor names a reason to finish.
LEMMA LastFrames ==
  ASSUME NEW out \in Seq(Frames), NEW items \in Seq(Items), NEW r \in Reasons,
         out = Closes(items) \o <<End(r)>> \/ out = <<Error>>
  PROVE  /\ \A p \in Parts : Arrived(out, p) = 0
         /\ \A i \in 1 .. Len(out) : out[i].kind \in {"close", "end", "error"}
                                     /\ (out[i].kind = "end" => out[i] = End(r))
                                     /\ (out[i].kind = "error" => out = <<Error>>)
<1>1. Error \in Frames /\ Error.kind = "error" /\ \A p : Pieces(Error, p) = 0
  BY PlainFrames
<1>2. End(r) \in Frames /\ End(r).kind = "end" /\ \A p : Pieces(End(r), p) = 0
  BY DEF End, Frames, Pieces
<1>3. CASE out = <<Error>>
  <2>1. \A p \in Parts : Arrived(<<Error>>, p) = 0
    BY <1>1, ArrivedAddsUp
  <2>2. Len(out) = 1 /\ out[1] = Error
    BY <1>3
  <2> QED BY <2>1, <2>2, <1>1, <1>3
<1>4. CASE out = Closes(items) \o <<End(r)>>
  <2> DEFINE cs == Closes(items)
             m == Len(items)
  <2>1. m \in Nat /\ cs = [k \in 1 .. m |-> Close(k - 1)]
    BY DEF Closes
  <2> HIDE DEF cs, m
  <2>2. ASSUME NEW k \in 1 .. m PROVE Close(k - 1) \in Frames /\ Close(k - 1).kind = "close"
    <3>1. m \in Nat
      BY <2>1
    <3>2. k - 1 \in Nat
      BY <3>1
    <3> QED BY <3>2 DEF Close, Frames
  <2>3. cs \in Seq(Frames) /\ Len(cs) = m
    BY <2>1, <2>2, IsASeq, LenProperties
  <2>4. \A i \in 1 .. m : cs[i].kind = "close"
    BY <2>1, <2>2
  <2>5. \A i \in 1 .. Len(out) : (i \in 1 .. m /\ out[i] = cs[i]) \/ out[i] = End(r)
    <3>1. out = cs \o <<End(r)>>
      BY <1>4 DEF cs
    <3> QED BY <3>1, <2>1, <2>3
  <2>6. ASSUME NEW p \in Parts PROVE Arrived(out, p) = 0
    <3>1. \A i \in 1 .. Len(out) : Pieces(out[i], p) = 0
      BY <2>4, <2>5, <1>2 DEF Pieces
    <3> DEFINE zero == [i \in 1 .. Len(out) |-> 0]
               pieces == [i \in 1 .. Len(out) |-> Pieces(out[i], p)]
    <3>2. pieces = zero /\ Arrived(out, p) = Total(pieces)
      BY <3>1 DEF Arrived
    <3>3. zero \in Seq(Nat) /\ Len(zero) = Len(out) /\ Len(out) \in Nat
      BY IsASeq, LenProperties
    <3>7. \A i \in 1 .. Len(out) : zero[i] = 0
      OBVIOUS
    <3> HIDE DEF zero, pieces
    <3>4. [i \in 0 .. Len(out) |-> 0] \in Sums(zero, Len(zero))
      <4> DEFINE n == Len(out)
                 f == [i \in 0 .. n |-> 0]
      <4>1. n \in Nat /\ Len(zero) = n
        BY <3>3
      <4> HIDE DEF n
      <4>2. f \in [0 .. n -> Nat] /\ f[0] = 0 /\ \A i \in 1 .. n : f[i] = f[i - 1] + 0
        BY <4>1
      <4> HIDE DEF f
      <4>3. \A i \in 1 .. n : f[i] = f[i - 1] + zero[i]
        BY <4>2, <3>7 DEF n
      <4>4. f \in Sums(zero, n)
        BY <4>2, <4>3 DEF Sums
      <4> QED BY <4>1, <4>4 DEF f, n
    <3>5. Total(zero) = [i \in 0 .. Len(out) |-> 0][Len(zero)]
      BY <3>3, <3>4, TotalIs
    <3>6. [i \in 0 .. Len(out) |-> 0][Len(zero)] = 0
      BY <3>3
    <3> QED BY <3>2, <3>5, <3>6
  <2>7. \A i \in 1 .. Len(out) : out[i].kind \in {"close", "end"} /\ (out[i].kind = "end" => out[i] = End(r))
    BY <2>4, <2>5, <1>2
  <2> QED BY <2>6, <2>7
<1> QED BY <1>3, <1>4

\* The end of a converter that has neither finished nor failed.
LEMMA DownEnds ==
  ASSUME NEW d \in Down, ~d.finished, ~d.failed, NEW up,
         NEW protocol \in {"openai", "anthropic", "responses"}, ItemsOk(up, protocol, d.items),
         d.reason # "error"
  PROVE  Ending(protocol, d, DownFinish(protocol, d))
<1> DEFINE s == DownFinish(protocol, d)
           done == [Started(d) EXCEPT !.finished = TRUE]
<1> SUFFICES Ending(protocol, d, s)
  OBVIOUS
<1>1. /\ done \in Down /\ done.items = d.items /\ done.reason = d.reason
      /\ done.finished /\ done.failed = d.failed
      /\ Failed(done) \in Down /\ Failed(done).items = d.items /\ Failed(done).reason = d.reason
      /\ Failed(done).finished
  BY DEF Started, Down, Failed
<1>2. d.items \in Seq(Items) /\ d.reason \in Reasons
  BY DownsAre DEF Down
<1>3. CASE s = Step(d, <<>>)
  <2>1. s.state = d /\ s.out = <<>>
    BY <1>3 DEF Step
  <2> HIDE DEF s
  <2>2. \A p \in Parts : Arrived(<<>>, p) = 0
    BY ArrivedAddsUp
  <2>3. <<>> \in Seq(Frames) /\ \A w \in Seq(Frames) : w \o <<>> = w
    OBVIOUS
  <2>4. \A w \in Seq(Frames) : Shown(w, protocol, d.started, d.items) => Orderly(w \o <<>>)
    BY <2>3 DEF Shown
  <2> QED BY <2>1, <2>2, <2>3, <2>4 DEF Ending
<1>4. ASSUME NEW out \in Seq(Frames),
             \/ s = Step(Failed(done), Hello(d) \o out) /\ out = <<Error>>
             \/ /\ s = Step(done, Hello(d) \o out) /\ out = Closes(d.items) \o <<End(d.reason)>>
                /\ protocol \in {"anthropic", "responses"}
                /\ protocol = "responses" => \A k \in 1 .. Len(d.items) : d.items[k].named
      PROVE  Ending(protocol, d, s)
  <2> DEFINE h == Hello(d) \o out
  <2>1. /\ s.out = h
        /\ s.state \in Down /\ s.state.items = d.items /\ s.state.reason = d.reason /\ s.state.finished
        /\ out # <<Error>> => ~s.state.failed /\ protocol # "openai"
        /\ out # <<Error>> /\ protocol = "responses" => \A k \in 1 .. Len(d.items) : d.items[k].named
    <3> HIDE DEF s, done
    <3> QED BY <1>1, <1>4 DEF Step
  <2>2. out = Closes(d.items) \o <<End(d.reason)>> \/ out = <<Error>>
    BY <1>4
  <2> HIDE DEF s
  <2>3. /\ \A p \in Parts : Arrived(out, p) = 0
        /\ \A i \in 1 .. Len(out) : out[i].kind \in {"close", "end", "error"}
                                    /\ (out[i].kind = "end" => out[i] = End(d.reason))
                                    /\ (out[i].kind = "error" => out = <<Error>>)
    BY <1>2, <2>2, LastFrames
  <2>4. /\ h \in Seq(Frames)
        /\ \A p \in Parts : Arrived(h, p) = Arrived(out, p)
        /\ \A i \in 1 .. Len(h) : h[i] = Start \/ \E j \in 1 .. Len(out) : h[i] = out[j]
        /\ \A w \in Seq(Frames) : w \o h = (w \o Hello(d)) \o out /\ w \o Hello(d) \in Seq(Frames)
    BY HelloThen
  <2>5. Start.kind = "start" /\ Error.kind = "error" /\ Error \in Frames
    BY PlainFrames
  <2> HIDE DEF h
  <2>6. Len(h) >= 1 /\ h[Len(h)] = out[Len(out)] /\ Len(out) >= 1
    <3>1. Len(out) >= 1
      <4>1. CASE out = <<Error>>
        BY <4>1
      <4>2. CASE out = Closes(d.items) \o <<End(d.reason)>>
        <5>1. Closes(d.items) \in Seq(Frames)
          <6>1. \A k \in 1 .. Len(d.items) : Close(k - 1) \in Frames
            BY <1>2 DEF Close, Frames
          <6>2. Closes(d.items) = [k \in 1 .. Len(d.items) |-> Close(k - 1)] /\ Len(d.items) \in Nat
            BY <1>2 DEF Closes
          <6> QED BY <6>1, <6>2, IsASeq
        <5> QED BY <4>2, <5>1
      <4> QED BY <2>2, <4>1, <4>2
    <3>2. Hello(d) \in Seq(Frames)
      BY HelloIs
    <3> QED BY <3>1, <3>2 DEF h
  <2>7. Fails(h) <=> out = <<Error>>
    <3>1. ASSUME out = <<Error>> PROVE Fails(h)
      <4>1. Len(h) \in 1 .. Len(h) /\ h[Len(h)] = Error
        BY <2>4, <2>6, <3>1
      <4> QED BY <4>1, <2>5 DEF Fails
    <3>2. ASSUME Fails(h) PROVE out = <<Error>>
      BY <3>2, <2>3, <2>4, <2>5 DEF Fails
    <3> QED BY <3>1, <3>2
  <2>8. \A i \in 1 .. Len(h) : h[i].kind # "finish" /\ (h[i].kind = "end" => h[i] = End(d.reason) /\ out # <<Error>>)
    <3>1. out = <<Error>> => \A j \in 1 .. Len(out) : out[j].kind = "error"
      BY <2>5
    <3> QED BY <3>1, <2>3, <2>4, <2>5
  <2>9. ASSUME NEW w \in Seq(Frames), Shown(w, protocol, d.started, d.items), protocol # "openai"
        PROVE  Orderly(w \o h)
    <3> DEFINE w1 == w \o Hello(d)
    <3>1. Shown(w1, protocol, TRUE, d.items) /\ w1 \in Seq(Frames) /\ w \o h = w1 \o out
      BY <2>4, <2>9, ShownHello
    <3> HIDE DEF w1
    <3>2. CASE out = <<Error>>
      <4>1. Orderly(w1) /\ OfKind(w1, "end") = {}
        BY <3>1 DEF Shown, Blocks
      <4>2. Orderly(w1 \o <<Error>>)
        BY <3>1, <4>1, <2>5, OrderlyMore
      <4> QED BY <3>1, <3>2, <4>2
    <3>3. CASE out # <<Error>>
      <4>1. \A k \in 1 .. Len(d.items) : Announced(protocol, d.items, k)
        BY <3>3, <2>1, <2>9 DEF Announced
      <4>2. Orderly((w1 \o Closes(d.items)) \o <<End(d.reason)>>)
        BY <3>1, <4>1, <1>2, OrderlyEnd
      <4>3. w1 \o (Closes(d.items) \o <<End(d.reason)>>) = (w1 \o Closes(d.items)) \o <<End(d.reason)>>
        <5>1. Closes(d.items) \in Seq(Frames)
          <6>1. \A k \in 1 .. Len(d.items) : Close(k - 1) \in Frames
            BY <1>2 DEF Close, Frames
          <6>2. Closes(d.items) = [k \in 1 .. Len(d.items) |-> Close(k - 1)] /\ Len(d.items) \in Nat
            BY <1>2 DEF Closes
          <6> QED BY <6>1, <6>2, IsASeq
        <5>2. <<End(d.reason)>> \in Seq(Frames)
          BY <1>2 DEF End, Frames
        <5> QED BY <3>1, <5>1, <5>2, TwoMore
      <4> QED BY <3>1, <3>3, <4>2, <4>3, <2>2
    <3> QED BY <3>2, <3>3
  <2>10. End(d.reason).reason = d.reason
    BY DEF End
  <2> QED BY <2>1, <2>3, <2>4, <2>7, <2>8, <2>9, <2>10 DEF Ending
<1>5. <<Error>> \in Seq(Frames) /\ Closes(d.items) \o <<End(d.reason)>> \in Seq(Frames)
  <2>1. \A k \in 1 .. Len(d.items) : Close(k - 1) \in Frames
    BY <1>2 DEF Close, Frames
  <2>2. Closes(d.items) = [k \in 1 .. Len(d.items) |-> Close(k - 1)] /\ Len(d.items) \in Nat
    BY <1>2 DEF Closes
  <2>3. Closes(d.items) \in Seq(Frames)
    BY <2>1, <2>2, IsASeq
  <2>4. End(d.reason) \in Frames /\ Error \in Frames
    BY <1>2, PlainFrames DEF End, Frames
  <2> QED BY <2>3, <2>4
<1>6. \/ s = Step(d, <<>>)
      \/ s = Step(Failed(done), Hello(d) \o <<Error>>)
      \/ /\ s = Step(done, Hello(d) \o Closes(d.items) \o <<End(d.reason)>>)
         /\ protocol \in {"anthropic", "responses"}
         /\ protocol = "responses" => \A k \in 1 .. Len(d.items) : d.items[k].named
  BY DEF DownFinish
<1>7. Hello(d) \o Closes(d.items) \o <<End(d.reason)>> = Hello(d) \o (Closes(d.items) \o <<End(d.reason)>>)
  <2>1. \A k \in 1 .. Len(d.items) : Close(k - 1) \in Frames
    BY <1>2 DEF Close, Frames
  <2>2. Closes(d.items) = [k \in 1 .. Len(d.items) |-> Close(k - 1)] /\ Len(d.items) \in Nat
    BY <1>2 DEF Closes
  <2>3. Closes(d.items) \in Seq(Frames)
    BY <2>1, <2>2, IsASeq
  <2>4. <<End(d.reason)>> \in Seq(Frames) /\ Hello(d) \in Seq(Frames)
    BY <1>2, HelloIs DEF End, Frames
  <2> QED BY <2>3, <2>4, TwoMore
<1> HIDE DEF s, done
<1> QED BY <1>3, <1>4, <1>5, <1>6, <1>7
-----------------------------------------------------------------------------
(* What the upstream says *)

\* An answer is what it was, but for what an event of the middle adds.
LEMMA SaidIs ==
  ASSUME NEW a \in Said
  PROVE  /\ a.left \in 0 .. MaxEvents /\ a.finished \in BOOLEAN /\ a.begun \in BOOLEAN
         /\ a.calls \in 0 .. MaxTools /\ a.calls \in Nat
         /\ a.latest \in Parts /\ \A p \in Parts : a.total[p] \in Nat
BY ToolsAssumption DEF Said

Before(protocol, a, e) == [a EXCEPT !.left = IF e \in Endings(protocol, a) THEN @ ELSE @ - 1]

\* Only the room for further events changes before the event is looked at.
LEMMA BeforeIs ==
  ASSUME NEW a \in Said, NEW protocol, NEW e \in Middle(protocol, a) \cup Endings(protocol, a)
  PROVE  /\ Before(protocol, a, e) \in Said
         /\ Before(protocol, a, e).finished = a.finished /\ Before(protocol, a, e).calls = a.calls
         /\ Before(protocol, a, e).latest = a.latest /\ Before(protocol, a, e).total = a.total
<1>1. e \notin Endings(protocol, a) => a.left # 0
  BY DEF Middle
<1>2. a.left \in 0 .. MaxEvents
  BY DEF Said
<1>3. (IF e \in Endings(protocol, a) THEN a.left ELSE a.left - 1) \in 0 .. MaxEvents
  BY <1>1, <1>2, StreamAssumption
<1> DEFINE b == Before(protocol, a, e)
<1>4. b = [a EXCEPT !.left = IF e \in Endings(protocol, a) THEN a.left ELSE a.left - 1]
  BY DEF Before, Said
<1> HIDE DEF b
<1> QED BY <1>3, <1>4 DEF Said, b

\* Which events there are, and what each of them carries.
Heeded(protocol, a, e) ==
  \/ e.kind = "begin" /\ protocol # "gemini"
  \/ e.kind = "text"
  \/ /\ e.kind = "call" /\ protocol = "openai" /\ e.named \in BOOLEAN /\ e.size \in Nat
     /\ e.tool \in Tools /\ e.tool <= a.calls
  \/ /\ e.kind = "call" /\ protocol = "anthropic" /\ e.named = TRUE /\ e.size = 0
     /\ e.tool \in Tools /\ e.tool = a.calls
  \/ /\ e.kind = "call" /\ protocol = "responses" /\ e.named \in BOOLEAN
     /\ e.tool \in Tools
     /\ \/ e.tool = a.calls /\ e.size = 0
        \/ e.tool < a.calls /\ e.size = a.total[e.tool]
  \/ e.kind = "args" /\ protocol = "anthropic" /\ e.tool = a.latest /\ e.tool \in Tools
  \/ e.kind = "args" /\ protocol = "responses" /\ e.tool \in Tools /\ e.tool < a.calls
  \/ /\ e.kind = "full" /\ protocol = "responses" /\ e.tool \in Tools /\ e.tool < a.calls
     /\ e.size \in {a.total[e.tool], a.total[e.tool] + 1}

\* Before its end an upstream says something that Heeded describes, and only as
\* long as it has not finished.
LEMMA MiddleIs ==
  ASSUME NEW a \in Said, NEW protocol \in Protocols, NEW e \in Middle(protocol, a)
  PROVE  Heeded(protocol, a, e) /\ ~a.finished
<1>1. ~a.finished /\ a.calls \in Nat /\ a.calls <= MaxTools
  BY SaidIs DEF Middle
<1>2. \A t \in NewTool(a) : t \in Tools /\ t = a.calls
  <2>1. a.calls < MaxTools => a.calls \in 0 .. MaxTools - 1
    BY <1>1, ToolsAssumption
  <2> QED BY <2>1 DEF NewTool, Tools
<1>3. \A t \in Known(a) : t \in Tools /\ t < a.calls /\ t # a.calls
  BY <1>1, ToolsAssumption DEF Known, Tools
<1>4. \A t \in {a.latest} \ {TheText} : t = a.latest /\ t \in Tools
  BY SaidIs, PartsAre
<1>5. \A p \in Parts : a.total[p] \in Nat
  BY SaidIs
<1>6. Tools \subseteq Nat /\ Tools \subseteq Parts
  BY ToolsAssumption, PartsAre DEF Tools
<1>7. CASE e.kind = "begin" /\ protocol # "gemini"
  BY <1>1, <1>7 DEF Heeded
<1>8. CASE e \in OpenAIEvents(a) /\ protocol = "openai"
  <2>1. CASE e = [kind |-> "text"]
    BY <1>1, <2>1 DEF Heeded
  <2>2. ASSUME NEW t \in NewTool(a) \cup Known(a), NEW named \in BOOLEAN, NEW size \in {0, 1},
               e = CallEvent(t, named, size)
        PROVE  Heeded(protocol, a, e)
    <3>1. e.kind = "call" /\ e.named = named /\ e.size = size /\ e.tool = t
      BY <2>2 DEF CallEvent
    <3>2. t \in Tools /\ t <= a.calls
      BY <1>1, <1>2, <1>3 DEF Tools
    <3> QED BY <1>8, <3>1, <3>2 DEF Heeded
  <2>3. \/ e = [kind |-> "text"]
        \/ \E t \in NewTool(a), named \in BOOLEAN : e = CallEvent(t, named, 1)
        \/ \E t \in NewTool(a) : e = CallEvent(t, TRUE, 0)
        \/ \E t \in Known(a) : e = CallEvent(t, FALSE, 1)
    <3> DEFINE A == {CallEvent(t, named, 1) : t \in NewTool(a), named \in BOOLEAN}
               B == {CallEvent(t, TRUE, 0) : t \in NewTool(a)}
               C == {CallEvent(t, FALSE, 1) : t \in Known(a)}
    <3>1. OpenAIEvents(a) = {[kind |-> "text"]} \cup A \cup B \cup C
      BY DEF OpenAIEvents
    <3> HIDE DEF A, B, C
    <3>2. e = [kind |-> "text"] \/ e \in A \/ e \in B \/ e \in C
      BY <1>8, <3>1
    <3>3. e \in A => \E t \in NewTool(a), named \in BOOLEAN : e = CallEvent(t, named, 1)
      BY DEF A
    <3>4. e \in B => \E t \in NewTool(a) : e = CallEvent(t, TRUE, 0)
      BY Zenon DEF B
    <3>5. e \in C => \E t \in Known(a) : e = CallEvent(t, FALSE, 1)
      BY Zenon DEF C
    <3> QED BY <3>2, <3>3, <3>4, <3>5
  <2>4. Heeded(protocol, a, e)
    BY <2>1, <2>2, <2>3
  <2> QED BY <1>1, <2>4
<1>9. CASE e \in AnthropicEvents(a) /\ protocol = "anthropic"
  <2>1. CASE e = [kind |-> "text"]
    BY <1>1, <2>1 DEF Heeded
  <2>2. ASSUME NEW t \in NewTool(a), e = CallEvent(t, TRUE, 0)
        PROVE  Heeded(protocol, a, e)
    BY <1>1, <1>2, <1>9, <2>2 DEF Heeded, CallEvent
  <2>3. ASSUME NEW t \in {a.latest} \ {TheText}, e = [kind |-> "args", tool |-> t]
        PROVE  Heeded(protocol, a, e)
    BY <1>4, <1>9, <2>3 DEF Heeded
  <2> QED BY <1>1, <1>9, <2>1, <2>2, <2>3 DEF AnthropicEvents
<1>10. CASE e \in ResponsesEvents(a) /\ protocol = "responses"
  <2>1. CASE e = [kind |-> "text"]
    BY <1>1, <2>1 DEF Heeded
  <2>2. ASSUME NEW t \in NewTool(a), NEW named \in BOOLEAN, e = CallEvent(t, named, 0)
        PROVE  Heeded(protocol, a, e)
    BY <1>1, <1>2, <1>10, <2>2 DEF Heeded, CallEvent
  <2>3. ASSUME NEW t \in Known(a), e = CallEvent(t, FALSE, a.total[t])
        PROVE  Heeded(protocol, a, e)
    BY <1>3, <1>10, <2>3 DEF Heeded, CallEvent
  <2>4. ASSUME NEW t \in Known(a), e = [kind |-> "args", tool |-> t]
        PROVE  Heeded(protocol, a, e)
    BY <1>3, <1>10, <2>4 DEF Heeded
  <2>5. ASSUME NEW t \in Known(a), NEW more \in 0 .. 1,
               e = [kind |-> "full", tool |-> t, size |-> a.total[t] + more]
        PROVE  Heeded(protocol, a, e)
    <3>1. a.total[t] \in Nat
      BY <1>3, <1>5, <1>6
    <3>2. e.kind = "full" /\ e.tool = t /\ e.size = a.total[t] + more
      BY <2>5
    <3>3. e.size \in {a.total[t], a.total[t] + 1}
      BY <3>1, <3>2
    <3> QED BY <1>3, <1>10, <3>2, <3>3 DEF Heeded
  <2>6. \/ e = [kind |-> "text"]
        \/ \E t \in NewTool(a), named \in BOOLEAN : e = CallEvent(t, named, 0)
        \/ \E t \in Known(a) : e = CallEvent(t, FALSE, a.total[t])
        \/ \E t \in Known(a) : e = [kind |-> "args", tool |-> t]
        \/ \E t \in Known(a), more \in 0 .. 1 :
             e = [kind |-> "full", tool |-> t, size |-> a.total[t] + more]
    <3> DEFINE A == {CallEvent(t, named, 0) : t \in NewTool(a), named \in BOOLEAN}
               B == {CallEvent(t, FALSE, a.total[t]) : t \in Known(a)}
               C == {[kind |-> "args", tool |-> t] : t \in Known(a)}
               D == {[kind |-> "full", tool |-> t, size |-> a.total[t] + more] : t \in Known(a), more \in 0 .. 1}
    <3>1. ResponsesEvents(a) = {[kind |-> "text"]} \cup A \cup B \cup C \cup D
      BY DEF ResponsesEvents
    <3> HIDE DEF A, B, C, D
    <3>2. e = [kind |-> "text"] \/ e \in A \/ e \in B \/ e \in C \/ e \in D
      BY <1>10, <3>1
    <3>3. e \in A => \E t \in NewTool(a), named \in BOOLEAN : e = CallEvent(t, named, 0)
      BY DEF A
    <3>4. e \in B => \E t \in Known(a) : e = CallEvent(t, FALSE, a.total[t])
      BY Zenon DEF B
    <3>5. e \in C => \E t \in Known(a) : e = [kind |-> "args", tool |-> t]
      BY Zenon DEF C
    <3>6. e \in D => \E t \in Known(a), more \in 0 .. 1 :
                       e = [kind |-> "full", tool |-> t, size |-> a.total[t] + more]
      BY DEF D
    <3> QED BY <3>2, <3>3, <3>4, <3>5, <3>6
  <2>7. Heeded(protocol, a, e)
    BY <2>1, <2>2, <2>3, <2>4, <2>5, <2>6
  <2> QED BY <1>1, <2>7
<1>11. CASE e = [kind |-> "text"]
  BY <1>1, <1>11 DEF Heeded
<1> QED BY <1>7, <1>8, <1>9, <1>10, <1>11 DEF Middle, Protocols

\* The events that may end an answer.
Concluding(protocol, a, e) ==
  \/ e.kind = "error"
  \/ e.kind = "end" /\ protocol \in {"openai", "anthropic"}
  \/ /\ e.kind = "finish" /\ protocol = "openai" /\ e.reason \in Reasons /\ e.text = FALSE
     /\ ~a.finished
  \/ /\ e.kind = "finish" /\ protocol = "anthropic" /\ e.reason \in Reasons \ {"error"}
     /\ e.text = FALSE /\ ~a.finished
  \/ e.kind = "finish" /\ protocol = "gemini" /\ e.reason \in Reasons /\ e.text \in BOOLEAN
  \/ /\ e.kind = "end" /\ protocol = "responses" /\ e.reason \in {"stop", "length", "error"}
     /\ \E n \in 0 .. MaxTools : n \in {0, a.calls, a.calls + 1} /\ e.output = Output(a, n)

\* An upstream ends in one of the ways that Concluding describes.
LEMMA EndingsAre ==
  ASSUME NEW a \in Said, NEW protocol \in Protocols, NEW e \in Endings(protocol, a)
  PROVE  Concluding(protocol, a, e)
<1>1. a.calls \in Nat /\ a.calls <= MaxTools
  BY SaidIs
<1>2. CASE e = [kind |-> "error"]
  BY <1>2 DEF Concluding
<1>3. CASE e = [kind |-> "end"] /\ protocol \in {"openai", "anthropic"}
  BY <1>3 DEF Concluding
<1>4. ASSUME NEW r \in Reasons, NEW text \in BOOLEAN, e = FinishEvent(r, text),
             \/ protocol = "openai" /\ text = FALSE /\ ~a.finished
             \/ protocol = "anthropic" /\ r # "error" /\ text = FALSE /\ ~a.finished
             \/ protocol = "gemini"
      PROVE  Concluding(protocol, a, e)
  <2>1. e.kind = "finish" /\ e.reason = r /\ e.text = text
    BY <1>4 DEF FinishEvent
  <2> QED BY <1>4, <2>1 DEF Concluding
<1>5. ASSUME NEW r \in {"stop", "length", "error"}, NEW n \in {0, a.calls} \cup {t + 1 : t \in NewTool(a)},
             e = [kind |-> "end", reason |-> r, output |-> Output(a, n)], protocol = "responses"
      PROVE  Concluding(protocol, a, e)
  <2>1. e.kind = "end" /\ e.reason = r /\ e.output = Output(a, n)
    BY <1>5
  <2>2. n \in 0 .. MaxTools /\ n \in {0, a.calls, a.calls + 1}
    BY <1>1, ToolsAssumption DEF NewTool
  <2> QED BY <1>5, <2>1, <2>2 DEF Concluding
<1>6. CASE protocol \in {"openai", "anthropic"}
  <2> DEFINE R == \E r \in Reasons : (protocol = "openai" \/ r # "error") /\ e = FinishEvent(r, FALSE)
  <2>1. e = [kind |-> "error"] \/ e = [kind |-> "end"] \/ (~a.finished /\ R)
    <3>1. CASE protocol = "openai"
      <4>1. Endings("openai", a) =
              {[kind |-> "error"]} \cup
              ({[kind |-> "end"]} \cup IF a.finished THEN {} ELSE {FinishEvent(r, FALSE) : r \in Reasons})
        BY DEF Endings
      <4> QED BY <3>1, <4>1
    <3>2. CASE protocol = "anthropic"
      <4>1. Endings("anthropic", a) =
              {[kind |-> "error"]} \cup
              ({[kind |-> "end"]} \cup
                 IF a.finished THEN {} ELSE {FinishEvent(r, FALSE) : r \in Reasons \ {"error"}})
        BY DEF Endings
      <4> QED BY <3>2, <4>1
    <3> QED BY <3>1, <3>2, <1>6
  <2> QED BY <1>2, <1>3, <1>4, <1>6, <2>1
<1>7. CASE protocol = "gemini"
  <2>1. e = [kind |-> "error"] \/ e \in {FinishEvent(r, text) : r \in Reasons, text \in BOOLEAN}
    BY <1>7 DEF Endings
  <2> QED BY <1>2, <1>4, <1>7, <2>1
<1>8. CASE protocol = "responses"
  <2>1. \/ e = [kind |-> "error"]
        \/ e \in {[kind |-> "end", reason |-> r, output |-> Output(a, n)] :
                    r \in {"stop", "length", "error"}, n \in {0, a.calls} \cup {t + 1 : t \in NewTool(a)}}
    BY <1>8 DEF Endings
  <2> QED BY <1>2, <1>5, <1>8, <2>1
<1> QED BY <1>6, <1>7, <1>8 DEF Protocols

\* A piece more of a part.
LEMMA ToldIs ==
  ASSUME NEW a \in Said, NEW part \in Parts, NEW size \in Nat
  PROVE  /\ Told(a, part, size) \in Said
         /\ Told(a, part, size).calls = a.calls /\ Told(a, part, size).finished = a.finished
         /\ Told(a, part, size).latest = part
         /\ \A p \in Parts : Told(a, part, size).total[p] = a.total[p] + IF p = part THEN size ELSE 0
<1> DEFINE total == [a.total EXCEPT ![part] = @ + size]
           b == Told(a, part, size)
<1>1. b = [a EXCEPT !.total = total, !.latest = part]
  BY DEF Told, Said
<1>2. a.total \in [Parts -> Nat]
  BY DEF Said
<1>3. total \in [Parts -> Nat] /\ \A p \in Parts : total[p] = a.total[p] + IF p = part THEN size ELSE 0
  <2>1. a.total[part] + size \in Nat
    BY <1>2
  <2>2. \A p \in Parts : a.total[p] \in Nat
    BY <1>2
  <2> QED BY <1>2, <2>1, <2>2
<1> HIDE DEF total, b
<1>4. b \in Said /\ b.calls = a.calls /\ b.finished = a.finished /\ b.latest = part /\ b.total = total
  BY <1>1, <1>3 DEF Said
<1> QED BY <1>3, <1>4 DEF b

\* What an event of the middle adds to the answer: size of one part.
Adding(protocol, a, e) ==
  CASE e.kind = "begin" -> 0
    [] e.kind = "text"  -> 1
    [] e.kind = "call"  -> IF protocol = "responses" THEN 0 ELSE e.size
    [] e.kind = "args"  -> 1
    [] e.kind = "full"  -> e.size - a.total[e.tool]

To(e) == IF e.kind \in {"begin", "text"} THEN TheText ELSE e.tool

\* The answer after such an event.
LEMMA SayingMiddle ==
  ASSUME NEW a \in Said, NEW protocol \in Protocols, NEW e \in Middle(protocol, a)
  PROVE  LET b == Saying(protocol, a, e)
         IN /\ b \in Said
            /\ b.finished = a.finished
            /\ b.calls = IF e.kind = "call" /\ e.tool = a.calls THEN a.calls + 1 ELSE a.calls
            /\ b.latest = IF e.kind = "begin" THEN a.latest ELSE To(e)
            /\ To(e) \in Parts /\ Adding(protocol, a, e) \in Nat
            /\ \A p \in Parts : b.total[p] = a.total[p] + IF p = To(e) THEN Adding(protocol, a, e) ELSE 0
<1> DEFINE b == Before(protocol, a, e)
           s == Saying(protocol, a, e)
           part == To(e)
           size == Adding(protocol, a, e)
<1>1. Heeded(protocol, a, e)
  BY MiddleIs
<1>2. b \in Said /\ b.finished = a.finished /\ b.calls = a.calls /\ b.latest = a.latest /\ b.total = a.total
  BY BeforeIs
<1>3. /\ a.calls \in 0 .. MaxTools /\ a.calls \in Nat
      /\ \A p \in Parts : a.total[p] \in Nat
  BY SaidIs
<1>4. TheText \in Parts /\ Tools \subseteq Parts
  BY PartsAre
<1>5. /\ e.kind = "begin" => s = [b EXCEPT !.begun = TRUE]
      /\ e.kind = "text" => s = Told(b, TheText, 1)
      /\ e.kind = "call" =>
           s = Told([b EXCEPT !.calls = IF e.tool = @ THEN @ + 1 ELSE @], e.tool,
                    IF protocol = "responses" THEN 0 ELSE e.size)
      /\ e.kind = "args" => s = Told(b, e.tool, 1)
      /\ e.kind = "full" => s = Told(b, e.tool, e.size - a.total[e.tool])
  BY DEF Saying, Before
<1> HIDE DEF b, s
<1>6. CASE e.kind = "begin"
  <2>1. /\ s \in Said /\ s.finished = b.finished /\ s.calls = b.calls /\ s.latest = b.latest
        /\ s.total = b.total
    BY <1>2, <1>5, <1>6 DEF Said
  <2>2. part = TheText /\ size = 0
    BY <1>6 DEF To, Adding
  <2> HIDE DEF part, size
  <2>3. \A p \in Parts : s.total[p] = a.total[p] + IF p = part THEN size ELSE 0
    BY <1>2, <1>3, <2>1, <2>2
  <2> QED BY <1>2, <1>4, <1>6, <2>1, <2>2, <2>3 DEF s, part, size
<1>7. CASE e.kind = "text"
  <2>1. part = TheText /\ size = 1
    BY <1>7 DEF To, Adding
  <2> QED BY <1>2, <1>4, <1>5, <1>7, <2>1, ToldIs DEF s
<1>8. CASE e.kind = "call"
  <2> DEFINE c == [b EXCEPT !.calls = IF e.tool = @ THEN @ + 1 ELSE @]
  <2>1. part = e.tool /\ size = IF protocol = "responses" THEN 0 ELSE e.size
    BY <1>8 DEF To, Adding
  <2>2. e.tool \in Tools /\ e.tool \in Parts
    BY <1>1, <1>4, <1>8 DEF Heeded
  <2>3. protocol # "responses" => e.size \in Nat
    BY <1>1, <1>8 DEF Heeded
  <2>4. size \in Nat
    BY <2>1, <2>3
  <2>5. c = [b EXCEPT !.calls = IF e.tool = a.calls THEN a.calls + 1 ELSE a.calls]
    BY <1>2
  <2>6. (IF e.tool = a.calls THEN a.calls + 1 ELSE a.calls) \in 0 .. MaxTools
    BY <2>2, <1>3, ToolsAssumption DEF Tools
  <2> HIDE DEF c, part, size
  <2>7. /\ c \in Said /\ c.finished = b.finished /\ c.latest = b.latest /\ c.total = b.total
        /\ c.calls = IF e.tool = a.calls THEN a.calls + 1 ELSE a.calls
    BY <1>2, <2>5, <2>6 DEF Said
  <2>8. s = Told(c, part, size)
    BY <1>5, <1>8, <2>1 DEF c
  <2>9. part \in Parts
    BY <2>1, <2>2
  <2>10. /\ s \in Said /\ s.calls = c.calls /\ s.finished = c.finished /\ s.latest = part
         /\ \A p \in Parts : s.total[p] = c.total[p] + IF p = part THEN size ELSE 0
    <3> DEFINE told == Told(c, part, size)
    <3>1. c \in Said
      BY <2>7
    <3>2. /\ told \in Said /\ told.calls = c.calls /\ told.finished = c.finished
          /\ told.latest = part
          /\ \A p \in Parts : told.total[p] = c.total[p] + IF p = part THEN size ELSE 0
      BY <2>4, <2>9, <3>1, ToldIs
    <3>3. s = told
      BY <2>8
    <3> HIDE DEF told, s
    <3> QED BY <3>2, <3>3
  <2>11. /\ s.finished = a.finished /\ s.latest = part
         /\ s.calls = IF e.tool = a.calls THEN a.calls + 1 ELSE a.calls
         /\ \A p \in Parts : s.total[p] = a.total[p] + IF p = part THEN size ELSE 0
    BY <1>2, <2>7, <2>10
  <2> QED BY <1>8, <2>4, <2>9, <2>10, <2>11 DEF s, part, size
<1>9. CASE e.kind = "args"
  <2>1. part = e.tool /\ size = 1
    BY <1>9 DEF To, Adding
  <2>2. e.tool \in Parts
    BY <1>1, <1>4, <1>9 DEF Heeded
  <2> QED BY <1>2, <1>5, <1>9, <2>1, <2>2, ToldIs DEF s
<1>10. CASE e.kind = "full"
  <2>1. part = e.tool /\ size = e.size - a.total[e.tool]
    BY <1>10 DEF To, Adding
  <2>2. e.tool \in Parts
    BY <1>1, <1>4, <1>10 DEF Heeded
  <2>3. e.size - a.total[e.tool] \in {0, 1}
    <3>1. e.size \in {a.total[e.tool], a.total[e.tool] + 1}
      BY <1>1, <1>10 DEF Heeded
    <3>2. a.total[e.tool] \in Nat
      BY <2>2, <1>3
    <3> QED BY <3>1, <3>2
  <2> QED BY <1>2, <1>5, <1>10, <2>1, <2>2, <2>3, ToldIs DEF s
<1>11. e.kind \in {"begin", "text", "call", "args", "full"}
  BY <1>1 DEF Heeded
<1> QED BY <1>6, <1>7, <1>8, <1>9, <1>10, <1>11 DEF s

\* The last events change little: a reason to finish, perhaps with text, and the output that
\* a provider of Responses repeats.
LEMMA SayingEnding ==
  ASSUME NEW a \in Said, NEW protocol \in Protocols, NEW e \in Endings(protocol, a)
  PROVE  LET b == Saying(protocol, a, e)
         IN /\ b \in Said /\ b.calls = a.calls /\ b.latest = a.latest
            /\ b.finished = (a.finished \/ e.kind = "finish")
            /\ ~(e.kind = "end" /\ protocol = "responses") =>
                 \A p \in Parts : b.total[p] = a.total[p] + IF p = TheText /\ e.kind = "finish" /\ e.text THEN 1 ELSE 0
            /\ e.kind = "end" /\ protocol = "responses" =>
                 \A p \in Parts : b.total[p] = IF p + 1 \in 1 .. Len(e.output) THEN e.output[p + 1].size
                                                                               ELSE a.total[p]
<1> DEFINE b == Before(protocol, a, e)
           s == Saying(protocol, a, e)
<1>1. Concluding(protocol, a, e)
  BY EndingsAre
<1>2. b \in Said /\ b.finished = a.finished /\ b.calls = a.calls /\ b.latest = a.latest /\ b.total = a.total
  BY BeforeIs
<1>3. /\ a.calls \in 0 .. MaxTools /\ a.calls \in Nat /\ a.finished \in BOOLEAN
      /\ \A p \in Parts : a.total[p] \in Nat
  BY SaidIs
<1>4. TheText \in Parts /\ Tools \subseteq Parts
  BY PartsAre
<1> DEFINE told == [p \in Parts |-> IF p + 1 \in 1 .. Len(e.output) THEN e.output[p + 1].size ELSE a.total[p]]
<1>5. /\ e.kind = "error" => s = b
      /\ e.kind = "end" /\ protocol # "responses" => s = b
      /\ e.kind = "finish" =>
           s = [b EXCEPT !.finished = TRUE, !.total[TheText] = @ + IF e.text THEN 1 ELSE 0]
      /\ e.kind = "end" /\ protocol = "responses" => s = [b EXCEPT !.total = told]
  BY DEF Saying, Before
<1> HIDE DEF b, s
<1>6. CASE e.kind = "error" \/ (e.kind = "end" /\ protocol # "responses")
  <2>1. s = b
    BY <1>5, <1>6
  <2>2. \A p \in Parts : s.total[p] = a.total[p] + 0
    BY <1>2, <1>3, <2>1
  <2> QED BY <1>2, <1>3, <1>6, <2>1, <2>2 DEF s
<1>7. CASE e.kind = "finish"
  <2> DEFINE more == IF e.text THEN 1 ELSE 0
             total == [b.total EXCEPT ![TheText] = @ + more]
  <2>1. s = [b EXCEPT !.finished = TRUE, !.total = total]
    BY <1>5, <1>7, <1>2 DEF Said
  <2>2. more \in Nat
    OBVIOUS
  <2>3. total \in [Parts -> Nat] /\ \A p \in Parts : total[p] = a.total[p] + IF p = TheText THEN more ELSE 0
    <3> HIDE DEF more
    <3>1. b.total \in [Parts -> Nat]
      BY <1>2 DEF Said
    <3> QED BY <1>2, <1>3, <1>4, <2>2, <3>1
  <2> HIDE DEF total, more
  <2>4. s \in Said /\ s.calls = b.calls /\ s.latest = b.latest /\ s.finished = TRUE /\ s.total = total
    BY <1>2, <2>1, <2>3 DEF Said
  <2>5. \A p \in Parts : s.total[p] = a.total[p] + IF p = TheText /\ e.text THEN 1 ELSE 0
    BY <2>3, <2>4, <1>3 DEF more
  <2> QED BY <1>2, <1>3, <1>7, <2>4, <2>5 DEF s
<1>8. CASE e.kind = "end" /\ protocol = "responses"
  <2>1. PICK n \in 0 .. MaxTools : n \in {0, a.calls, a.calls + 1} /\ e.output = Output(a, n)
    BY <1>1, <1>8 DEF Concluding
  <2>2. told \in [Parts -> Nat]
    <3> SUFFICES ASSUME NEW p \in Parts, p + 1 \in 1 .. Len(e.output) PROVE e.output[p + 1].size \in Nat
      BY <1>3
    <3>1. n \in Nat
      BY ToolsAssumption
    <3>2. Len(Output(a, n)) = n
      BY <3>1 DEF Output
    <3>3. p + 1 \in 1 .. n /\ a.total[p] \in Nat /\ p \in Int
      <4>1. p \in Int
        BY PartsAre, ToolsAssumption DEF Tools, TheText
      <4> QED BY <1>3, <2>1, <3>2, <4>1
    <3>4. Output(a, n)[p + 1] = CallEvent((p + 1) - 1, TRUE, a.total[(p + 1) - 1] + (IF p + 1 > a.calls THEN 1 ELSE 0))
      BY <3>3 DEF Output
    <3>5. (p + 1) - 1 = p
      BY <3>3
    <3>6. Output(a, n)[p + 1].size = a.total[p] + (IF p + 1 > a.calls THEN 1 ELSE 0)
      BY <3>4, <3>5 DEF CallEvent
    <3> QED BY <2>1, <3>3, <3>6
  <2> HIDE DEF told
  <2>3. s = [b EXCEPT !.total = told]
    BY <1>5, <1>8
  <2>4. s \in Said /\ s.calls = b.calls /\ s.latest = b.latest /\ s.finished = b.finished /\ s.total = told
    BY <1>2, <2>2, <2>3 DEF Said
  <2> QED BY <1>2, <1>3, <1>8, <2>4 DEF s, told
<1>9. e.kind \in {"error", "end", "finish"}
  BY <1>1 DEF Concluding
<1> QED BY <1>6, <1>7, <1>8, <1>9 DEF s

Terminals == [{"complete", "incomplete", "failed", "stopNow", "length"} -> BOOLEAN]

\* What streamTerminal makes of an event.
Observed(protocol, t, e, u) ==
  /\ u \in Terminals
  /\ t.complete => u.complete
  /\ u.stopNow => u.complete
  /\ e.kind \notin {"error", "end", "finish"} =>
       ~u.stopNow /\ u.complete = t.complete /\ u.incomplete = t.incomplete /\ u.failed = t.failed /\ u.length = t.length
  /\ e.kind = "error" => u.failed
  /\ e.kind = "end" =>
       /\ u.complete /\ u.stopNow /\ u.length = t.length
       /\ protocol # "responses" => u.incomplete = t.length /\ u.failed = t.failed
       /\ protocol = "responses" => u.incomplete = (e.reason \in Cut) /\ u.failed = (e.reason = "error")
  /\ e.kind = "finish" =>
       /\ protocol = "openai" /\ e.reason = "error" => u.failed
       /\ protocol = "openai" /\ e.reason # "error" =>
            /\ ~u.stopNow /\ u.complete /\ u.failed = t.failed
            /\ u.length = (t.length \/ e.reason \in Cut) /\ u.incomplete = u.length
       /\ protocol = "anthropic" =>
            /\ ~u.stopNow /\ u.complete = t.complete /\ u.failed = t.failed /\ u.incomplete = t.incomplete
            /\ u.length = (t.length \/ e.reason = "length")
       /\ protocol = "gemini" =>
            /\ u.stopNow /\ u.complete /\ u.length = t.length
            /\ u.incomplete = (e.reason \in Cut) /\ u.failed = (e.reason = "error")
  /\ u.failed /\ ~t.failed /\ (u.incomplete \/ (protocol = "openai" /\ u.length)) =>
       t.incomplete \/ (protocol = "openai" /\ t.length)

\* What streamTerminal makes of an event.
LEMMA ObserveIs ==
  ASSUME NEW t \in Terminals, NEW protocol \in Protocols, NEW a \in Said,
         NEW e \in Middle(protocol, a) \cup Endings(protocol, a)
  PROVE  Observed(protocol, t, e, Observe(protocol, t, e))
<1> DEFINE t0 == [t EXCEPT !.stopNow = FALSE]
           u == Observe(protocol, t, e)
<1>1. /\ t0 \in Terminals /\ ~t0.stopNow /\ t0.complete = t.complete /\ t0.incomplete = t.incomplete
      /\ t0.failed = t.failed /\ t0.length = t.length
      /\ t0.incomplete \in BOOLEAN /\ t0.failed \in BOOLEAN /\ t0.length \in BOOLEAN
  BY DEF Terminals
<1>2. Heeded(protocol, a, e) \/ Concluding(protocol, a, e)
  BY MiddleIs, EndingsAre
<1>3. /\ e.kind = "error" => u = Complete(t0, t0.incomplete, TRUE)
      /\ e.kind = "end" => u = Ends(protocol, t0, e)
      /\ e.kind = "finish" => u = Finishes(protocol, t0, e)
      /\ e.kind \notin {"error", "end", "finish"} => u = t0
  BY DEF Observe
<1> HIDE DEF t0, u
<1>4. CASE e.kind \notin {"error", "end", "finish"}
  BY <1>1, <1>3, <1>4 DEF Observed, u
<1>5. CASE e.kind = "error"
  <2>1. /\ u \in Terminals /\ u.complete /\ u.stopNow /\ u.incomplete = t0.incomplete /\ u.failed
        /\ u.length = t0.length
    BY <1>1, <1>3, <1>5 DEF Terminals, Complete
  <2> QED BY <1>1, <1>5, <2>1 DEF Observed, u
<1>6. CASE e.kind = "end" /\ protocol # "responses"
  <2>1. protocol = "openai" \/ protocol = "anthropic"
    BY <1>2, <1>6 DEF Heeded, Concluding
  <2>2. u = Complete(t0, t0.length, t0.failed)
    BY <1>3, <1>6, <2>1 DEF Ends
  <2>3. /\ u \in Terminals /\ u.complete /\ u.stopNow /\ u.incomplete = t0.length /\ u.failed = t0.failed
        /\ u.length = t0.length
    BY <1>1, <2>2 DEF Terminals, Complete
  <2> QED BY <1>1, <1>6, <2>3 DEF Observed, u
<1>7. CASE e.kind = "end" /\ protocol = "responses"
  <2> DEFINE i == e.reason \in Cut
             f == e.reason = "error"
  <2>1. u = Complete(t0, i, f)
    BY <1>3, <1>7 DEF Ends
  <2>2. i \in BOOLEAN /\ f \in BOOLEAN /\ ~(i /\ f)
    BY DEF Cut
  <2> HIDE DEF i, f
  <2>3. /\ u \in Terminals /\ u.complete /\ u.stopNow /\ u.incomplete = i /\ u.failed = f
        /\ u.length = t0.length
    BY <1>1, <2>1, <2>2 DEF Terminals, Complete
  <2> QED BY <1>1, <1>7, <2>2, <2>3 DEF Observed, u, i, f
<1>8. CASE e.kind = "finish" /\ protocol = "openai" /\ e.reason = "error"
  <2>1. u = Complete(t0, t0.length, TRUE)
    BY <1>3, <1>8 DEF Finishes
  <2>2. /\ u \in Terminals /\ u.complete /\ u.stopNow /\ u.incomplete = t0.length /\ u.failed
        /\ u.length = t0.length
    BY <1>1, <2>1 DEF Terminals, Complete
  <2> QED BY <1>1, <1>8, <2>2 DEF Observed, u
<1>9. CASE e.kind = "finish" /\ protocol = "openai" /\ e.reason # "error"
  <2> DEFINE length == t0.length \/ e.reason \in Cut
  <2>1. u = [t0 EXCEPT !.complete = TRUE, !.length = length, !.incomplete = length]
    BY <1>3, <1>9 DEF Finishes
  <2>2. length \in BOOLEAN
    OBVIOUS
  <2> HIDE DEF length
  <2>3. /\ u \in Terminals /\ u.complete /\ ~u.stopNow /\ u.failed = t0.failed
        /\ u.length = length /\ u.incomplete = length
    BY <1>1, <2>1, <2>2 DEF Terminals
  <2>4. length = (t.length \/ e.reason \in Cut)
    BY <1>1 DEF length
  <2> QED BY <1>1, <1>9, <2>3, <2>4 DEF Observed, u
<1>10. CASE e.kind = "finish" /\ protocol = "anthropic"
  <2> DEFINE length == t0.length \/ e.reason = "length"
  <2>1. u = [t0 EXCEPT !.length = length]
    BY <1>3, <1>10 DEF Finishes
  <2>2. length \in BOOLEAN
    OBVIOUS
  <2> HIDE DEF length
  <2>3. /\ u \in Terminals /\ u.complete = t0.complete /\ ~u.stopNow /\ u.failed = t0.failed
        /\ u.length = length /\ u.incomplete = t0.incomplete
    BY <1>1, <2>1, <2>2 DEF Terminals
  <2>4. length = (t.length \/ e.reason = "length")
    BY <1>1 DEF length
  <2> QED BY <1>1, <1>10, <2>3, <2>4 DEF Observed, u
<1>11. CASE e.kind = "finish" /\ protocol = "gemini"
  <2> DEFINE i == e.reason \in Cut
             f == e.reason = "error"
  <2>1. u = Complete(t0, i, f)
    BY <1>3, <1>11 DEF Finishes
  <2>2. i \in BOOLEAN /\ f \in BOOLEAN /\ ~(i /\ f)
    BY DEF Cut
  <2> HIDE DEF i, f
  <2>3. /\ u \in Terminals /\ u.complete /\ u.stopNow /\ u.incomplete = i /\ u.failed = f
        /\ u.length = t0.length
    BY <1>1, <2>1, <2>2 DEF Terminals, Complete
  <2> QED BY <1>1, <1>11, <2>2, <2>3 DEF Observed, u, i, f
<1>12. e.kind = "finish" => protocol \in {"openai", "anthropic", "gemini"}
  BY <1>2 DEF Heeded, Concluding
<1> QED BY <1>4, <1>5, <1>6, <1>7, <1>8, <1>9, <1>10, <1>11, <1>12 DEF u
-----------------------------------------------------------------------------
(* The upstream converters *)

\* The chunks say "size" of a part, and a call is named before a piece of it comes.  The calls
\* below n were named before, and those below m are then.
Tells(up, n, m, out, part, size) ==
  /\ out \in Seq(Chunks)
  /\ \A i \in 1 .. Len(out) : out[i].kind \in {"role", "text", "call"}
  /\ \A p \in Parts : Due(out, p) = IF p = part THEN size ELSE 0
  /\ up = "openai" => \A i \in 1 .. Len(out) : out[i].kind = "call" => out[i].index = out[i].tool
  /\ up # "openai" =>
       /\ \A k \in n .. m - 1 : \E j \in 1 .. Len(out) : Names(out[j], k)
       /\ \A i \in 1 .. Len(out) : out[i].kind = "call" /\ ~out[i].named =>
            out[i].index \in 0 .. n - 1 \/ \E j \in 1 .. i - 1 : Names(out[j], out[i].index)

\* Chunks that are not about a call.
LEMMA PlainChunks ==
  /\ Role \in Chunks /\ Role.kind = "role" /\ \A p : DuePieces(Role, p) = 0
  /\ Text \in Chunks /\ Text.kind = "text"
  /\ \A p : DuePieces(Text, p) = IF p = TheText THEN 1 ELSE 0
  /\ Done \in Chunks /\ Done.kind = "done" /\ \A p : DuePieces(Done, p) = 0
  /\ Failure \in Chunks /\ Failure.kind = "error" /\ \A p : DuePieces(Failure, p) = 0
  /\ \A r \in Reasons : /\ FinishChunk(r) \in Chunks /\ FinishChunk(r).kind = "finish"
                        /\ FinishChunk(r).reason = r /\ \A p : DuePieces(FinishChunk(r), p) = 0
BY DEF Chunks, Role, Text, Done, Failure, FinishChunk, DuePieces, Of, Size

\* A chunk about a call, which names it or does not.
IsCall(c, index, tool, size) ==
  /\ c \in Chunks /\ c.kind = "call" /\ c.index = index /\ c.tool = tool
  /\ \A p : DuePieces(c, p) = IF p = tool THEN size ELSE 0

Naming(index, tool, size) == CallChunk(index, tool, TRUE, size)
Adds(index, tool, size) == CallChunk(index, tool, FALSE, size)

\* The chunks that the upstream converters make of a call.
LEMMA CallChunkIs ==
  ASSUME NEW index \in Tools, NEW tool \in Tools, NEW size \in Nat
  PROVE  /\ IsCall(Naming(index, tool, size), index, tool, size)
         /\ Naming(index, tool, size).named
         /\ IsCall(Adds(index, tool, size), index, tool, size)
         /\ ~Adds(index, tool, size).named
<1> DEFINE c == Naming(index, tool, size)
           d == Adds(index, tool, size)
<1>1. c \in Chunks /\ c.kind = "call" /\ c.index = index /\ c.tool = tool /\ c.named /\ c.size = size
  BY DEF Chunks, CallChunk, Naming, Adds
<1>2. d \in Chunks /\ d.kind = "call" /\ d.index = index /\ d.tool = tool /\ ~d.named /\ d.size = size
  BY DEF Chunks, CallChunk, Naming, Adds
<1> HIDE DEF c, d
<1>3. \A p : DuePieces(c, p) = IF p = tool THEN size ELSE 0
  BY <1>1 DEF DuePieces, Of, Size
<1>4. \A p : DuePieces(d, p) = IF p = tool THEN size ELSE 0
  BY <1>2 DEF DuePieces, Of, Size
<1> QED BY <1>1, <1>2, <1>3, <1>4 DEF IsCall, c, d

\* A chunk, or none.
LEMMA FewChunks ==
  ASSUME NEW condition, NEW c \in Chunks
  PROVE  /\ Few(condition, c) \in Seq(Chunks)
         /\ condition => Few(condition, c) = <<c>>
         /\ ~condition => Few(condition, c) = <<>>
         /\ \A p \in Parts : Due(Few(condition, c), p) = IF condition THEN DuePieces(c, p) ELSE 0
<1>1. /\ condition => Few(condition, c) = <<c>>
      /\ ~condition => Few(condition, c) = <<>>
  BY DEF Few
<1>2. <<c>> \in Seq(Chunks) /\ <<>> \in Seq(Chunks)
  OBVIOUS
<1>3. \A p \in Parts : Due(<<c>>, p) = DuePieces(c, p) /\ Due(<<>>, p) = 0
  BY DueAddsUp
<1>4. CASE condition
  <2>1. Few(condition, c) = <<c>>
    BY <1>1, <1>4
  <2> QED BY <1>4, <2>1, <1>2, <1>3
<1>5. CASE ~condition
  <2>1. Few(condition, c) = <<>>
    BY <1>1, <1>5
  <2> QED BY <1>5, <2>1, <1>2, <1>3
<1> QED BY <1>4, <1>5

\* No chunk says nothing.
LEMMA TellsNothing ==
  ASSUME NEW up, NEW n \in Nat, NEW part
  PROVE  Tells(up, n, n, <<>>, part, 0)
<1>1. <<>> \in Seq(Chunks) /\ Len(<<>>) = 0 /\ \A p \in Parts : Due(<<>>, p) = 0
  BY DueAddsUp
<1>2. n .. n - 1 = {}
  OBVIOUS
<1> QED BY <1>1, <1>2 DEF Tells

\* One chunk.
LEMMA TellsOne ==
  ASSUME NEW up, NEW n \in Nat, NEW m \in Nat, NEW c \in Chunks, NEW part, NEW size,
         c.kind \in {"role", "text", "call"},
         c.kind = "call" /\ up = "openai" => c.index = c.tool,
         m = n \/ (c.kind = "call" /\ c.named /\ c.index = n /\ m = n + 1),
         c.kind = "call" /\ ~c.named /\ up # "openai" => c.index \in 0 .. n - 1,
         \A p \in Parts : DuePieces(c, p) = IF p = part THEN size ELSE 0
  PROVE  Tells(up, n, m, <<c>>, part, size)
<1> DEFINE out == <<c>>
<1>1. out \in Seq(Chunks) /\ Len(out) = 1 /\ out[1] = c
  OBVIOUS
<1>2. \A p \in Parts : Due(out, p) = DuePieces(c, p)
  BY DueAddsUp
<1> HIDE DEF out
<1>3. \A i \in 1 .. Len(out) : out[i] = c
  BY <1>1
<1>4. \A k \in n .. m - 1 : \E j \in 1 .. Len(out) : Names(out[j], k)
  <2> SUFFICES ASSUME NEW k \in n .. m - 1 PROVE Names(out[1], k)
    BY <1>1
  <2>1. k = n /\ m = n + 1
    OBVIOUS
  <2> QED BY <1>1, <2>1 DEF Names
<1>5. \A i \in 1 .. Len(out) : out[i].kind = "call" /\ ~out[i].named /\ up # "openai" => out[i].index \in 0 .. n - 1
  BY <1>3
<1>6. \A p \in Parts : Due(out, p) = IF p = part THEN size ELSE 0
  BY <1>2
<1>7. \A i \in 1 .. Len(out) : out[i].kind \in {"role", "text", "call"}
                              /\ (up = "openai" /\ out[i].kind = "call" => out[i].index = out[i].tool)
  BY <1>3
<1> QED BY <1>1, <1>4, <1>5, <1>6, <1>7 DEF Tells, out

\* One after the other.
LEMMA TellsMore ==
  ASSUME NEW up, NEW n \in Nat, NEW m \in Nat, NEW k \in Nat,
         NEW r \in Seq(Chunks), NEW s \in Seq(Chunks), NEW part, NEW size \in Nat, NEW more \in Nat,
         Tells(up, n, m, r, part, size), Tells(up, m, k, s, part, more)
  PROVE  Tells(up, n, k, r \o s, part, size + more)
<1> DEFINE out == r \o s
           l == Len(r)
<1>1. /\ out \in Seq(Chunks) /\ Len(out) = l + Len(s) /\ l \in Nat /\ Len(s) \in Nat
      /\ \A i \in 1 .. l : out[i] = r[i]
      /\ \A i \in 1 .. Len(s) : out[l + i] = s[i]
  OBVIOUS
<1>2. \A p \in Parts : Due(out, p) = Due(r, p) + Due(s, p)
  BY DueAddsUp
<1> HIDE DEF out, l
<1>3. \A i \in 1 .. Len(out) : i \in 1 .. l \/ (i - l \in 1 .. Len(s) /\ out[i] = s[i - l])
  BY <1>1
<1>4. \A i \in 1 .. l : i \in 1 .. Len(r)
  BY DEF l
<1>5. \A i \in 1 .. Len(out) : out[i].kind \in {"role", "text", "call"}
  BY <1>1, <1>3, <1>4 DEF Tells
<1>6. \A p \in Parts : Due(out, p) = IF p = part THEN size + more ELSE 0
  BY <1>2 DEF Tells
<1>7. up = "openai" => \A i \in 1 .. Len(out) : out[i].kind = "call" => out[i].index = out[i].tool
  BY <1>1, <1>3, <1>4 DEF Tells
<1>8. ASSUME up # "openai", NEW x \in n .. k - 1 PROVE \E j \in 1 .. Len(out) : Names(out[j], x)
  <2>1. CASE x \in n .. m - 1
    <3>1. PICK j \in 1 .. Len(r) : Names(r[j], x)
      BY <1>8, <2>1 DEF Tells
    <3>2. j \in 1 .. Len(out) /\ out[j] = r[j]
      BY <1>1 DEF l
    <3> QED BY <3>1, <3>2
  <2>2. CASE x \in m .. k - 1
    <3>1. PICK j \in 1 .. Len(s) : Names(s[j], x)
      BY <1>8, <2>2 DEF Tells
    <3>2. l + j \in 1 .. Len(out) /\ out[l + j] = s[j]
      BY <1>1
    <3> QED BY <3>1, <3>2
  <2> QED BY <2>1, <2>2
<1>9. ASSUME up # "openai", NEW i \in 1 .. Len(out), out[i].kind = "call", ~out[i].named
      PROVE  out[i].index \in 0 .. n - 1 \/ \E j \in 1 .. i - 1 : Names(out[j], out[i].index)
  <2>1. CASE i \in 1 .. l
    <3>1. out[i] = r[i] /\ i \in 1 .. Len(r) /\ \A j \in 1 .. i - 1 : out[j] = r[j]
      BY <1>1, <1>4, <2>1
    <3>2. r[i].index \in 0 .. n - 1 \/ \E j \in 1 .. i - 1 : Names(r[j], r[i].index)
      BY <1>9, <3>1 DEF Tells
    <3> QED BY <3>1, <3>2
  <2>2. CASE i - l \in 1 .. Len(s) /\ out[i] = s[i - l]
    <3>1. s[i - l].index \in 0 .. m - 1 \/ \E j \in 1 .. (i - l) - 1 : Names(s[j], s[i - l].index)
      BY <1>9, <2>2 DEF Tells
    <3>2. CASE s[i - l].index \in 0 .. m - 1 /\ ~(s[i - l].index \in 0 .. n - 1)
      <4>1. s[i - l].index \in n .. m - 1
        BY <3>2
      <4>2. PICK j \in 1 .. Len(r) : Names(r[j], s[i - l].index)
        BY <1>9, <4>1 DEF Tells
      <4>3. j \in 1 .. i - 1 /\ out[j] = r[j]
        BY <1>1, <2>2 DEF l
      <4> QED BY <2>2, <4>2, <4>3
    <3>3. ASSUME NEW j \in 1 .. (i - l) - 1, Names(s[j], s[i - l].index)
          PROVE  \E q \in 1 .. i - 1 : Names(out[q], out[i].index)
      <4>1. j \in 1 .. Len(s) /\ l + j \in 1 .. i - 1
        BY <1>1, <2>2
      <4>2. out[l + j] = s[j]
        BY <1>1, <4>1
      <4> QED BY <2>2, <3>3, <4>1, <4>2
    <3> QED BY <2>2, <3>1, <3>2, <3>3
  <2> QED BY <1>3, <2>1, <2>2
<1> QED BY <1>1, <1>5, <1>6, <1>7, <1>8, <1>9 DEF Tells, out

\* A chunk, or none.
LEMMA TellsFew ==
  ASSUME NEW up, NEW n \in Nat, NEW condition, NEW c \in Chunks, NEW part, NEW size \in Nat,
         condition => Tells(up, n, n, <<c>>, part, size)
  PROVE  Tells(up, n, n, Few(condition, c), part, IF condition THEN size ELSE 0)
<1>1. CASE condition
  <2>1. Few(condition, c) = <<c>>
    BY <1>1, FewChunks
  <2> QED BY <1>1, <2>1
<1>2. CASE ~condition
  <2>1. Few(condition, c) = <<>>
    BY <1>2, FewChunks
  <2> QED BY <1>2, <2>1, TellsNothing
<1> QED BY <1>1, <1>2

\* The first chunk, if it is due, and text or nothing more.
LEMMA TellsText ==
  ASSUME NEW up, NEW n \in Nat, NEW condition
  PROVE  /\ Tells(up, n, n, <<Role>>, TheText, 0)
         /\ \A part : Tells(up, n, n, Few(condition, Role), part, 0)
         /\ Tells(up, n, n, <<Text>>, TheText, 1)
         /\ Tells(up, n, n, Few(condition, Role) \o <<Text>>, TheText, 1)
<1>1. \A part : Tells(up, n, n, <<Role>>, part, 0)
  BY PlainChunks, TellsOne
<1>2. Tells(up, n, n, <<Text>>, TheText, 1)
  BY PlainChunks, TellsOne
<1>3. ASSUME NEW part PROVE Tells(up, n, n, Few(condition, Role), part, 0)
  <2>1. Tells(up, n, n, Few(condition, Role), part, IF condition THEN 0 ELSE 0)
    BY <1>1, PlainChunks, TellsFew
  <2> QED BY <2>1
<1>5. Few(condition, Role) \in Seq(Chunks) /\ <<Text>> \in Seq(Chunks)
  BY <1>2, <1>3 DEF Tells
<1>4. Tells(up, n, n, Few(condition, Role) \o <<Text>>, TheText, 0 + 1)
  BY <1>2, <1>3, <1>5, TellsMore
<1> QED BY <1>1, <1>2, <1>3, <1>4

\* A call that is new, with its arguments so far.
LEMMA TellsNew ==
  ASSUME NEW up, up # "openai", NEW n \in Tools, NEW tool \in Tools, NEW condition, NEW size \in Nat
  PROVE  Tells(up, n, n + 1, Few(condition, Role) \o <<Naming(n, tool, 0)>>
                             \o Few(size > 0, Adds(n, tool, size)), tool, size)
<1> DEFINE c == Naming(n, tool, 0)
           d == Adds(n, tool, size)
           hello == Few(condition, Role)
<1>1. /\ c \in Chunks /\ c.kind = "call" /\ c.index = n /\ c.named
      /\ \A p : DuePieces(c, p) = IF p = tool THEN 0 ELSE 0
  BY CallChunkIs DEF IsCall
<1>2. /\ d \in Chunks /\ d.kind = "call" /\ d.index = n /\ ~d.named
      /\ \A p : DuePieces(d, p) = IF p = tool THEN size ELSE 0
  BY CallChunkIs DEF IsCall
<1>3. n \in Nat /\ n + 1 \in Nat
  BY ToolsAssumption DEF Tools
<1> HIDE DEF c, d, hello
<1>4. Tells(up, n, n + 1, <<c>>, tool, 0)
  BY <1>1, <1>3, TellsOne
<1>5. Tells(up, n + 1, n + 1, <<d>>, tool, size)
  <2>1. d.index \in 0 .. (n + 1) - 1
    BY <1>2, <1>3
  <2> QED BY <1>2, <1>3, <2>1, TellsOne
<1>6. Tells(up, n + 1, n + 1, Few(size > 0, d), tool, IF size > 0 THEN size ELSE 0)
  BY <1>2, <1>3, <1>5, TellsFew
<1>7. (IF size > 0 THEN size ELSE 0) = size
  OBVIOUS
<1>8. Tells(up, n, n, hello, tool, 0)
  BY <1>3, TellsText DEF hello
<1>9. Tells(up, n, n + 1, hello \o <<c>>, tool, 0 + 0)
  <2>1. hello \in Seq(Chunks) /\ <<c>> \in Seq(Chunks)
    BY <1>4, <1>8 DEF Tells
  <2> QED BY <1>3, <1>4, <1>8, <2>1, TellsMore
<1>10. Tells(up, n, n + 1, (hello \o <<c>>) \o Few(size > 0, d), tool, 0 + size)
  <2> DEFINE r == hello \o <<c>>
             s == Few(size > 0, d)
  <2>1. Tells(up, n, n + 1, r, tool, 0) /\ Tells(up, n + 1, n + 1, s, tool, size)
    BY <1>6, <1>7, <1>9
  <2> HIDE DEF r, s
  <2>2. r \in Seq(Chunks) /\ s \in Seq(Chunks)
    BY <2>1 DEF Tells
  <2>3. Tells(up, n, n + 1, r \o s, tool, 0 + size)
    BY <1>3, <2>1, <2>2, TellsMore
  <2> QED BY <2>3 DEF r, s
<1>11. 0 + size = size
  OBVIOUS
<1> QED BY <1>10, <1>11 DEF c, d, hello

\* More of a call that was named.
LEMMA TellsPiece ==
  ASSUME NEW up, up # "openai", NEW n \in Nat, NEW index \in Tools, index < n, NEW tool \in Tools,
         NEW size \in Nat
  PROVE  /\ Tells(up, n, n, <<Adds(index, tool, size)>>, tool, size)
         /\ Tells(up, n, n, Few(size > 0, Adds(index, tool, size)), tool, size)
<1> DEFINE d == Adds(index, tool, size)
<1>1. /\ d \in Chunks /\ d.kind = "call" /\ d.index = index /\ ~d.named
      /\ \A p : DuePieces(d, p) = IF p = tool THEN size ELSE 0
  BY CallChunkIs DEF IsCall
<1>2. index \in 0 .. n - 1
  BY ToolsAssumption DEF Tools
<1> HIDE DEF d
<1>3. Tells(up, n, n, <<d>>, tool, size)
  BY <1>1, <1>2, TellsOne
<1>4. Tells(up, n, n, Few(size > 0, d), tool, IF size > 0 THEN size ELSE 0)
  BY <1>1, <1>3, TellsFew
<1>5. (IF size > 0 THEN size ELSE 0) = size
  OBVIOUS
<1> QED BY <1>3, <1>4, <1>5 DEF d

\* What an upstream converter knows of the answer while it goes on.
CallsAs(up, a, s) ==
  /\ up = "anthropic" => s.count = a.calls
  /\ up = "responses" =>
       /\ s.count = a.calls
       /\ \A t \in Tools :
            IF t < a.calls THEN s.index[t] \in 0 .. a.calls - 1 /\ s.got[t] = a.total[t]
                           ELSE s.index[t] = -1 /\ s.got[t] = 0

Untold(a) ==
  /\ \A t \in Tools : t >= a.calls => a.total[t] = 0
  /\ a.latest # TheText => a.latest < a.calls

Hears(up, a, s) == ~s.finished /\ ~s.failed /\ ~s.terminal /\ CallsAs(up, a, s) /\ Untold(a)

\* What it does with an event of the middle.
Passes(up, a, e, s, r) ==
  /\ r.state \in Up /\ r.state.reason = s.reason
  /\ \/ r.out = <<Failure>>
     \/ /\ Hears(up, Saying(up, a, e), r.state)
        /\ Tells(up, s.count, r.state.count, r.out, To(e), Adding(up, a, e))

\* Nothing was said of the calls that are still to come.
LEMMA UntoldStays ==
  ASSUME NEW a \in Said, NEW protocol \in Protocols, NEW e \in Middle(protocol, a), Untold(a)
  PROVE  Untold(Saying(protocol, a, e))
<1> DEFINE b == Saying(protocol, a, e)
           part == To(e)
           size == Adding(protocol, a, e)
<1>1. /\ b.calls = IF e.kind = "call" /\ e.tool = a.calls THEN a.calls + 1 ELSE a.calls
      /\ b.latest = IF e.kind = "begin" THEN a.latest ELSE part
      /\ \A p \in Parts : b.total[p] = a.total[p] + IF p = part THEN size ELSE 0
  BY SayingMiddle
<1>2. Heeded(protocol, a, e)
  BY MiddleIs
<1>3. a.calls \in Nat /\ \A p \in Parts : a.total[p] \in Nat
  BY SaidIs
<1>4. Tools \subseteq Parts /\ TheText \notin Tools /\ Tools \subseteq Nat
  BY PartsAre, ToolsAssumption DEF Tools
<1> HIDE DEF b
<1>5. part = TheText \/ (part \in Tools /\ part < b.calls)
  <2>1. CASE e.kind \in {"begin", "text"}
    BY <2>1 DEF To
  <2>2. CASE e.kind = "call"
    <3>1. part = e.tool
      BY <2>2 DEF To
    <3>2. e.tool \in Tools /\ (e.tool = a.calls \/ e.tool < a.calls)
      <4>1. e.tool \in Tools /\ (e.tool = a.calls \/ e.tool < a.calls \/ e.tool <= a.calls)
        BY <1>2, <2>2 DEF Heeded
      <4>2. e.tool \in Nat
        BY <1>4, <4>1
      <4> QED BY <1>3, <4>1, <4>2
    <3>3. e.tool \in Nat
      BY <1>4, <3>2
    <3> HIDE DEF part
    <3>4. CASE e.tool = a.calls
      <4>1. b.calls = a.calls + 1
        BY <1>1, <2>2, <3>4
      <4> QED BY <1>3, <3>1, <3>2, <3>4, <4>1
    <3>5. CASE e.tool # a.calls
      <4>1. b.calls = a.calls
        BY <1>1, <3>5
      <4> QED BY <3>1, <3>2, <3>5, <4>1
    <3> QED BY <3>4, <3>5
  <2>3. CASE e.kind \in {"args", "full"}
    <3>1. part = e.tool /\ e.tool \in Tools /\ e.tool < a.calls
      BY <1>2, <1>4, <2>3 DEF To, Heeded, Untold
    <3> HIDE DEF part
    <3> QED BY <1>1, <2>3, <3>1
  <2> QED BY <1>2, <2>1, <2>2, <2>3 DEF Heeded
<1>6. b.calls \in Nat /\ a.calls <= b.calls
  BY <1>1, <1>3
<1> HIDE DEF part, size
<1>7. ASSUME NEW t \in Tools, t >= b.calls PROVE b.total[t] = 0
  <2>1. t # part
    BY <1>4, <1>5, <1>6, <1>7
  <2>2. a.total[t] = 0
    BY <1>3, <1>4, <1>6, <1>7 DEF Untold
  <2>3. t \in Parts
    BY <1>4
  <2> QED BY <1>1, <2>1, <2>2, <2>3
<1>8. b.latest # TheText => b.latest < b.calls
  <2>1. CASE e.kind = "begin"
    BY <1>1, <2>1 DEF Untold
  <2>2. CASE e.kind # "begin"
    BY <1>1, <1>5, <2>2
  <2> QED BY <2>1, <2>2
<1> QED BY <1>7, <1>8 DEF Untold, b

\* What an upstream converter is made of; the first chunk changes nothing else
\* of it.
LEMMA UpsAre ==
  ASSUME NEW s \in Up
  PROVE  /\ s.count \in 0 .. MaxTools /\ s.count \in Nat
         /\ \A t \in Tools : s.got[t] \in Nat /\ s.index[t] \in Tools \cup {-1}
         /\ Started(s) \in Up /\ Started(s).finished = s.finished /\ Started(s).failed = s.failed
         /\ Started(s).terminal = s.terminal /\ Started(s).reason = s.reason /\ Started(s).count = s.count
         /\ Started(s).index = s.index /\ Started(s).got = s.got
<1>1. s.count \in 0 .. MaxTools /\ s.count \in Nat
  BY ToolsAssumption DEF Up
<1>2. \A t \in Tools : s.got[t] \in Nat /\ s.index[t] \in Tools \cup {-1}
  <2>1. s.got \in [Tools -> Nat] /\ s.index \in [Tools -> Tools \cup {-1}]
    BY DEF Up
  <2> QED BY <2>1
<1>3. /\ Started(s) \in Up /\ Started(s).finished = s.finished /\ Started(s).failed = s.failed
      /\ Started(s).terminal = s.terminal /\ Started(s).reason = s.reason /\ Started(s).count = s.count
      /\ Started(s).index = s.index /\ Started(s).got = s.got
  BY DEF Up, Started
<1> QED BY <1>1, <1>2, <1>3

\* OpenAI: the chunk is the event.
LEMMA OpenAIPasses ==
  ASSUME NEW a \in Said, NEW s \in Up, Hears("openai", a, s), NEW e \in Middle("openai", a)
  PROVE  Passes("openai", a, e, s, FromOpenAI(s, e))
<1> DEFINE b == Saying("openai", a, e)
           r == FromOpenAI(s, e)
<1>1. Heeded("openai", a, e)
  BY MiddleIs DEF Protocols
<1>2. r.state = s
  BY DEF FromOpenAI, Step
<1>3. Untold(b)
  BY UntoldStays DEF Protocols, Hears
<1>4. Hears("openai", b, s)
  BY <1>3 DEF Hears, CallsAs
<1>5. s.count \in Nat
  BY UpsAre
<1>6. Tells("openai", s.count, s.count, r.out, To(e), Adding("openai", a, e))
  <2>1. CASE e.kind = "begin"
    <3>1. r.out = <<Role>> /\ To(e) = TheText /\ Adding("openai", a, e) = 0
      BY <2>1 DEF FromOpenAI, Step, To, Adding
    <3> QED BY <1>5, <3>1, TellsText
  <2>2. CASE e.kind = "text"
    <3>1. r.out = <<Text>> /\ To(e) = TheText /\ Adding("openai", a, e) = 1
      BY <2>2 DEF FromOpenAI, Step, To, Adding
    <3> QED BY <1>5, <3>1, TellsText
  <2>3. CASE e.kind = "call"
    <3> DEFINE c == CallChunk(e.tool, e.tool, e.named, e.size)
    <3>1. r.out = <<c>> /\ To(e) = e.tool /\ Adding("openai", a, e) = e.size
      BY <2>3 DEF FromOpenAI, Step, To, Adding
    <3>2. e.tool \in Tools /\ e.size \in Nat /\ e.named \in BOOLEAN
      BY <1>1, <2>3 DEF Heeded
    <3>3. c \in Chunks /\ c.kind = "call" /\ c.index = c.tool /\ c.tool = e.tool /\ c.size = e.size
      BY <3>2 DEF Chunks, CallChunk
    <3> HIDE DEF c
    <3>4. \A p : DuePieces(c, p) = IF p = e.tool THEN e.size ELSE 0
      BY <3>3 DEF DuePieces, Of, Size
    <3>5. Tells("openai", s.count, s.count, <<c>>, e.tool, e.size)
      BY <1>5, <3>3, <3>4, TellsOne
    <3> QED BY <3>1, <3>5
  <2> QED BY <1>1, <2>1, <2>2, <2>3 DEF Heeded
<1> HIDE DEF r, b
<1> QED BY <1>2, <1>4, <1>6 DEF Passes, r, b

\* Gemini: there is nothing but text.
LEMMA GeminiPasses ==
  ASSUME NEW a \in Said, NEW s \in Up, Hears("gemini", a, s), NEW e \in Middle("gemini", a)
  PROVE  Passes("gemini", a, e, s, FromGemini(s, e))
<1> DEFINE b == Saying("gemini", a, e)
           r == FromGemini(s, e)
<1>1. e.kind = "text"
  BY MiddleIs DEF Protocols, Heeded
<1>2. r.state = Started(s) /\ r.out = Few(~s.started, Role) \o <<Text>>
  BY <1>1 DEF FromGemini, Step
<1>3. Untold(b)
  BY UntoldStays DEF Protocols, Hears
<1>4. Hears("gemini", b, Started(s))
  BY <1>3, UpsAre DEF Hears, CallsAs
<1>5. Tells("gemini", s.count, s.count, r.out, To(e), Adding("gemini", a, e))
  <2>1. To(e) = TheText /\ Adding("gemini", a, e) = 1
    BY <1>1 DEF To, Adding
  <2>2. s.count \in Nat
    BY UpsAre
  <2>3. Tells("gemini", s.count, s.count, Few(~s.started, Role) \o <<Text>>, TheText, 1)
    BY <2>2, TellsText
  <2> QED BY <1>2, <2>1, <2>3
<1> HIDE DEF r, b
<1> QED BY <1>2, <1>4, <1>5, UpsAre DEF Passes, r, b

\* Anthropic: a piece of a call belongs to the latest.
LEMMA AnthropicPasses ==
  ASSUME NEW a \in Said, NEW s \in Up, Hears("anthropic", a, s), NEW e \in Middle("anthropic", a)
  PROVE  Passes("anthropic", a, e, s, FromAnthropic(s, e))
<1> DEFINE b == Saying("anthropic", a, e)
           r == FromAnthropic(s, e)
<1>1. Heeded("anthropic", a, e)
  BY MiddleIs DEF Protocols
<1>2. Untold(b) /\ b.calls = IF e.kind = "call" /\ e.tool = a.calls THEN a.calls + 1 ELSE a.calls
  BY UntoldStays, SayingMiddle DEF Protocols, Hears
<1>3. s.count \in Nat /\ s.count = a.calls
  BY UpsAre DEF Hears, CallsAs
<1> HIDE DEF b
<1>4. CASE e.kind = "begin"
  <2>1. r.state = Started(s) /\ r.out = <<Role>> /\ To(e) = TheText /\ Adding("anthropic", a, e) = 0
    BY <1>4 DEF FromAnthropic, Step, To, Adding
  <2>2. Hears("anthropic", b, Started(s))
    BY <1>2, <1>3, <1>4, UpsAre DEF Hears, CallsAs
  <2>3. Tells("anthropic", s.count, s.count, <<Role>>, TheText, 0)
    BY <1>3, TellsText
  <2> HIDE DEF r
  <2> QED BY <2>1, <2>2, <2>3, UpsAre DEF Passes, r, b
<1>5. CASE e.kind = "text"
  <2>1. r.state = s /\ r.out = <<Text>> /\ To(e) = TheText /\ Adding("anthropic", a, e) = 1
    BY <1>5 DEF FromAnthropic, Step, To, Adding
  <2>2. Hears("anthropic", b, s)
    BY <1>2, <1>3, <1>5 DEF Hears, CallsAs
  <2>3. Tells("anthropic", s.count, s.count, <<Text>>, TheText, 1)
    BY <1>3, TellsText
  <2> HIDE DEF r
  <2> QED BY <2>1, <2>2, <2>3 DEF Passes, r, b
<1>6. CASE e.kind = "call"
  <2>0. e.tool \in Tools /\ e.tool = a.calls /\ e.size = 0
    BY <1>1, <1>6 DEF Heeded
  <2>1. /\ r.state = [s EXCEPT !.count = @ + 1] /\ r.out = <<Naming(s.count, e.tool, 0)>>
        /\ To(e) = e.tool /\ Adding("anthropic", a, e) = 0
    BY <1>6, <2>0 DEF FromAnthropic, Step, To, Adding, Naming
  <2>2. r.state \in Up /\ r.state.count = s.count + 1 /\ r.state.reason = s.reason
        /\ r.state.finished = s.finished /\ r.state.failed = s.failed /\ r.state.terminal = s.terminal
    <3>1. s.count + 1 \in 0 .. MaxTools
      BY <1>3, <2>0, ToolsAssumption DEF Tools
    <3> QED BY <2>1, <3>1 DEF Up
  <2>3. Hears("anthropic", b, r.state)
    BY <1>2, <1>3, <1>6, <2>0, <2>2 DEF Hears, CallsAs
  <2>4. Tells("anthropic", s.count, s.count + 1, <<Naming(s.count, e.tool, 0)>>, e.tool, 0)
    <3> DEFINE c == Naming(s.count, e.tool, 0)
    <3>1. IsCall(c, s.count, e.tool, 0) /\ c.named
      BY <1>3, <2>0, CallChunkIs
    <3> HIDE DEF c
    <3>2. s.count + 1 \in Nat
      BY <1>3
    <3>3. Tells("anthropic", s.count, s.count + 1, <<c>>, e.tool, 0)
      BY <1>3, <3>1, <3>2, TellsOne DEF IsCall
    <3> QED BY <3>3 DEF c
  <2> HIDE DEF r
  <2> QED BY <2>1, <2>2, <2>3, <2>4 DEF Passes, r, b
<1>7. CASE e.kind = "args"
  <2>0. e.tool \in Tools /\ e.tool = a.latest
    BY <1>1, <1>7 DEF Heeded
  <2>1. /\ r.state = s /\ r.out = <<Adds(s.count - 1, e.tool, 1)>>
        /\ To(e) = e.tool /\ Adding("anthropic", a, e) = 1
    BY <1>7, <2>0 DEF FromAnthropic, Step, To, Adding, Adds
  <2>2. Hears("anthropic", b, s)
    BY <1>2, <1>3, <1>7 DEF Hears, CallsAs
  <2>3. Tells("anthropic", s.count, s.count, <<Adds(s.count - 1, e.tool, 1)>>, e.tool, 1)
    <3>1. e.tool < a.calls
      BY <2>0, PartsAre DEF Hears, Untold
    <3>2. s.count - 1 \in Tools /\ s.count - 1 < s.count
      <4>1. s.count \in 0 .. MaxTools /\ e.tool \in Nat
        BY <2>0, UpsAre, ToolsAssumption DEF Tools
      <4> QED BY <1>3, <3>1, <4>1, ToolsAssumption DEF Tools
    <3> DEFINE c == Adds(s.count - 1, e.tool, 1)
    <3>3. IsCall(c, s.count - 1, e.tool, 1) /\ ~c.named
      BY <2>0, <3>2, CallChunkIs
    <3> HIDE DEF c
    <3>4. s.count - 1 \in 0 .. s.count - 1
      BY <1>3, <3>2, ToolsAssumption DEF Tools
    <3>5. Tells("anthropic", s.count, s.count, <<c>>, e.tool, 1)
      BY <1>3, <3>3, <3>4, TellsOne DEF IsCall
    <3> QED BY <3>5 DEF c
  <2> HIDE DEF r
  <2> QED BY <2>1, <2>2, <2>3 DEF Passes, r, b
<1> QED BY <1>1, <1>4, <1>5, <1>6, <1>7 DEF Heeded

\* Arguments that were all seen before add nothing.
LEMMA AddToolKnown ==
  ASSUME NEW s \in Up, NEW tool \in Tools, NEW named, NEW size, s.index[tool] # -1, s.got[tool] = size
  PROVE  AddTool(s, tool, named, size).state = s /\ AddTool(s, tool, named, size).out = <<>>
<1>1. size \in Nat
  BY UpsAre
<1> DEFINE more == size - s.got[tool]
           c == CallChunk(s.index[tool], tool, FALSE, more)
           k == [s EXCEPT !.got[tool] = size]
           r == AddTool(s, tool, named, size)
<1>2. ~(more > 0)
  BY <1>1
<1>3. r = Step(IF more > 0 THEN k ELSE s, <<>> \o Few(more > 0, c))
  BY DEF AddTool
<1> HIDE DEF more, c, k, r
<1>4. Few(more > 0, c) = <<>>
  BY <1>2 DEF Few
<1>5. r = Step(s, <<>> \o <<>>)
  BY <1>2, <1>3, <1>4
<1>6. <<>> \o <<>> = <<>>
  OBVIOUS
<1> QED BY <1>5, <1>6 DEF Step, r

\* A call that is not named fails.
LEMMA AddToolFails ==
  ASSUME NEW s \in Up, NEW tool \in Tools, NEW named, NEW size, s.index[tool] = -1, ~named
  PROVE  /\ AddTool(s, tool, named, size).out = <<Failure>>
         /\ AddTool(s, tool, named, size).state \in Up
         /\ AddTool(s, tool, named, size).state.reason = s.reason
<1> DEFINE r == AddTool(s, tool, named, size)
           f == [s EXCEPT !.failed = TRUE]
<1>1. r = Step(f, <<Failure>>)
  BY DEF AddTool
<1>2. f \in Up /\ f.reason = s.reason
  BY DEF Up
<1> HIDE DEF r, f
<1> QED BY <1>1, <1>2 DEF Step, r

\* What AddTool does for a call that is new and named.
Opened(s, tool, size, r) ==
  /\ r.state \in Up /\ r.state.count = s.count + 1
  /\ r.state.reason = s.reason /\ r.state.finished = s.finished /\ r.state.failed = s.failed
  /\ r.state.terminal = s.terminal
  /\ r.state.index[tool] = s.count /\ r.state.got[tool] = size
  /\ \A t \in Tools : t # tool => r.state.index[t] = s.index[t] /\ r.state.got[t] = s.got[t]
  /\ r.out = Few(~s.started, Role) \o <<Naming(s.count, tool, 0)>> \o Few(size > 0, Adds(s.count, tool, size))

\* A call that the converter from Responses did not know gets the next index,
\* and everything that was said of it is passed on.
LEMMA AddToolOpens ==
  ASSUME NEW s \in Up, s.count \in Tools, NEW tool \in Tools, NEW named, NEW size \in Nat,
         s.index[tool] = -1, s.got[tool] = 0, named
  PROVE  Opened(s, tool, size, AddTool(s, tool, named, size))
<1> DEFINE n == [s EXCEPT !.started = TRUE, !.index[tool] = s.count, !.count = @ + 1]
           index == [s.index EXCEPT ![tool] = s.count]
           got == [s.got EXCEPT ![tool] = size]
           k == [n EXCEPT !.got[tool] = size]
           r == AddTool(s, tool, named, size)
<1>1. /\ s.index \in [Tools -> Tools \cup {-1}] /\ s.got \in [Tools -> Nat]
      /\ s.count + 1 \in 0 .. MaxTools
  BY ToolsAssumption DEF Up, Tools
<1>2. index \in [Tools -> Tools \cup {-1}] /\ index[tool] = s.count
      /\ \A t \in Tools : t # tool => index[t] = s.index[t]
  BY <1>1
<1>3. got \in [Tools -> Nat] /\ got[tool] = size /\ \A t \in Tools : t # tool => got[t] = s.got[t]
  BY <1>1
<1>4. n = [s EXCEPT !.started = TRUE, !.index = index, !.count = s.count + 1]
  BY <1>1 DEF Up
<1>5. index[tool] = n.index[tool] /\ n.got = s.got
  BY <1>4, <1>1 DEF Up
<1> HIDE DEF index, n
<1>6. /\ n \in Up /\ n.index = index /\ n.count = s.count + 1 /\ n.reason = s.reason
      /\ n.finished = s.finished /\ n.failed = s.failed /\ n.terminal = s.terminal
  BY <1>1, <1>2, <1>4 DEF Up
<1>7. k = [n EXCEPT !.got = got]
  BY <1>5, <1>6 DEF Up
<1> HIDE DEF got, k
<1>8. /\ k \in Up /\ k.index = index /\ k.got = got /\ k.count = s.count + 1 /\ k.reason = s.reason
      /\ k.finished = s.finished /\ k.failed = s.failed /\ k.terminal = s.terminal
  BY <1>3, <1>6, <1>7 DEF Up
<1>9. size - s.got[tool] = size
  OBVIOUS
<1> DEFINE out == Few(~s.started, Role) \o <<Naming(s.count, tool, 0)>>
                  \o Few(size > 0, Adds(s.count, tool, size))
<1>10. r = Step(IF size > 0 THEN k ELSE n, out)
  BY <1>2, <1>5, <1>9 DEF AddTool, n, k, Naming, Adds
<1> HIDE DEF out, r
<1>11. r.out = out /\ r.state = IF size > 0 THEN k ELSE n
  BY <1>10 DEF Step
<1>12. size > 0 \/ size = 0
  OBVIOUS
<1>13. /\ r.state \in Up /\ r.state.count = s.count + 1
       /\ r.state.reason = s.reason /\ r.state.finished = s.finished /\ r.state.failed = s.failed
       /\ r.state.terminal = s.terminal /\ r.state.index = index
  BY <1>6, <1>8, <1>11
<1>14. r.state.got[tool] = size /\ \A t \in Tools : t # tool => r.state.got[t] = s.got[t]
  BY <1>3, <1>5, <1>8, <1>11, <1>12
<1> QED BY <1>2, <1>11, <1>13, <1>14 DEF Opened, r, out

\* More arguments of a call, or arguments of one that was never announced.
LEMMA AddArgumentsIs ==
  ASSUME NEW s \in Up, NEW tool \in Tools, NEW more \in Nat
  PROVE  LET r == AddArguments(s, tool, more)
         IN /\ s.index[tool] = -1 => r.out = <<Failure>> /\ r.state \in Up /\ r.state.reason = s.reason
            /\ s.index[tool] # -1 =>
                 /\ r.out = Few(more > 0, Adds(s.index[tool], tool, more))
                 /\ r.state \in Up /\ r.state.reason = s.reason /\ r.state.count = s.count
                 /\ r.state.finished = s.finished /\ r.state.failed = s.failed
                 /\ r.state.terminal = s.terminal /\ r.state.index = s.index
                 /\ \A t \in Tools : r.state.got[t] = s.got[t] + IF t = tool THEN more ELSE 0
<1> DEFINE r == AddArguments(s, tool, more)
           f == [s EXCEPT !.failed = TRUE]
           got == [s.got EXCEPT ![tool] = @ + more]
           k == [s EXCEPT !.got[tool] = @ + more]
           out == Few(more > 0, Adds(s.index[tool], tool, more))
<1>1. r = IF s.index[tool] = -1 THEN Step(f, <<Failure>>) ELSE Step(k, out)
  BY DEF AddArguments, Adds
<1>2. f \in Up /\ f.reason = s.reason
  BY DEF Up
<1>3. got \in [Tools -> Nat] /\ \A t \in Tools : got[t] = s.got[t] + IF t = tool THEN more ELSE 0
  <2>1. s.got \in [Tools -> Nat] /\ \A t \in Tools : s.got[t] \in Nat
    BY UpsAre DEF Up
  <2> QED BY <2>1
<1>4. k = [s EXCEPT !.got = got]
  BY DEF Up
<1> HIDE DEF got, k
<1>5. /\ k \in Up /\ k.reason = s.reason /\ k.count = s.count /\ k.got = got
      /\ k.finished = s.finished /\ k.failed = s.failed /\ k.terminal = s.terminal /\ k.index = s.index
  BY <1>3, <1>4 DEF Up
<1> HIDE DEF r, f, out
<1>6. CASE s.index[tool] = -1
  <2>1. r.out = <<Failure>> /\ r.state = f
    BY <1>1, <1>6 DEF Step
  <2> QED BY <1>2, <1>6, <2>1 DEF r
<1>7. CASE s.index[tool] # -1
  <2>1. r.out = out /\ r.state = k
    BY <1>1, <1>7 DEF Step
  <2> QED BY <1>3, <1>5, <1>7, <2>1 DEF r, out
<1> QED BY <1>6, <1>7

\* Responses: calls are told by themselves, and their arguments up to three times.
LEMMA ResponsesPasses ==
  ASSUME NEW a \in Said, NEW s \in Up, Hears("responses", a, s), NEW e \in Middle("responses", a)
  PROVE  Passes("responses", a, e, s, FromResponses(s, e))
<1> DEFINE b == Saying("responses", a, e)
           r == FromResponses(s, e)
<1>1. Heeded("responses", a, e)
  BY MiddleIs DEF Protocols
<1>2. /\ Untold(b) /\ b.calls = IF e.kind = "call" /\ e.tool = a.calls THEN a.calls + 1 ELSE a.calls
      /\ \A p \in Parts : b.total[p] = a.total[p] + IF p = To(e) THEN Adding("responses", a, e) ELSE 0
  BY UntoldStays, SayingMiddle DEF Protocols, Hears
<1>3. s.count \in Nat /\ s.count = a.calls /\ ~s.failed /\ ~s.terminal /\ ~s.finished
  BY UpsAre DEF Hears, CallsAs
<1>4. \A t \in Tools : IF t < a.calls THEN s.index[t] \in 0 .. a.calls - 1 /\ s.got[t] = a.total[t]
                                     ELSE s.index[t] = -1 /\ s.got[t] = 0
  BY DEF Hears, CallsAs
<1>5. /\ TheText \notin Tools /\ Tools \subseteq Parts /\ Tools \subseteq Nat
      /\ \A p \in Parts : a.total[p] \in Nat
  BY PartsAre, SaidIs, ToolsAssumption DEF Tools
<1> HIDE DEF b
<1>6. CASE e.kind = "begin"
  <2>1. r.state = s /\ r.out = <<>> /\ To(e) = TheText /\ Adding("responses", a, e) = 0
    BY <1>3, <1>6 DEF FromResponses, Step, To, Adding
  <2>2. \A t \in Tools : b.total[t] = a.total[t]
    <3>1. \A t \in Tools : t \in Parts /\ t # TheText /\ a.total[t] \in Nat
      BY <1>5
    <3>2. To(e) = TheText
      BY <2>1
    <3>3. \A t \in Tools : b.total[t] = a.total[t] + 0
      BY <1>2, <3>1, <3>2
    <3> QED BY <3>1, <3>3
  <2>3. Hears("responses", b, s)
    BY <1>2, <1>3, <1>4, <1>6, <2>2 DEF Hears, CallsAs
  <2>4. Tells("responses", s.count, s.count, <<>>, TheText, 0)
    BY <1>3, TellsNothing
  <2> HIDE DEF r
  <2> QED BY <2>1, <2>3, <2>4 DEF Passes, r, b
<1>7. CASE e.kind = "text"
  <2>1. /\ r.state = Started(s) /\ r.out = Few(~s.started, Role) \o <<Text>>
        /\ To(e) = TheText /\ Adding("responses", a, e) = 1
    BY <1>3, <1>7 DEF FromResponses, Step, To, Adding
  <2>2. \A t \in Tools : b.total[t] = a.total[t]
    <3>1. \A t \in Tools : t \in Parts /\ t # TheText /\ a.total[t] \in Nat
      BY <1>5
    <3>2. To(e) = TheText
      BY <2>1
    <3>3. \A t \in Tools : b.total[t] = a.total[t] + 0
      BY <1>2, <3>1, <3>2
    <3> QED BY <3>1, <3>3
  <2>3. Hears("responses", b, Started(s))
    BY <1>2, <1>3, <1>4, <1>7, <2>2, UpsAre DEF Hears, CallsAs
  <2>4. Tells("responses", s.count, s.count, Few(~s.started, Role) \o <<Text>>, TheText, 1)
    BY <1>3, TellsText
  <2> HIDE DEF r
  <2> QED BY <2>1, <2>3, <2>4, UpsAre DEF Passes, r, b
<1>8. CASE e.kind = "call" /\ e.tool < a.calls
  <2>0. e.tool \in Tools /\ e.size = a.total[e.tool]
    BY <1>1, <1>3, <1>5, <1>8 DEF Heeded
  <2>1. r = AddTool(s, e.tool, e.named, e.size) /\ To(e) = e.tool /\ Adding("responses", a, e) = 0
    BY <1>3, <1>8 DEF FromResponses, To, Adding
  <2>2. s.index[e.tool] # -1 /\ s.got[e.tool] = e.size
    BY <1>3, <1>4, <1>8, <2>0
  <2> HIDE DEF r
  <2>3. r.state = s /\ r.out = <<>>
    BY <2>0, <2>1, <2>2, AddToolKnown
  <2>4. \A t \in Tools : b.total[t] = a.total[t]
    BY <1>2, <1>5, <2>1
  <2>5. b.calls = a.calls
    BY <1>2, <1>3, <1>5, <1>8, <2>0
  <2>6. Hears("responses", b, s)
    BY <1>2, <1>3, <1>4, <2>4, <2>5 DEF Hears, CallsAs
  <2>7. Tells("responses", s.count, s.count, <<>>, e.tool, 0)
    BY <1>3, TellsNothing
  <2> QED BY <2>1, <2>3, <2>6, <2>7 DEF Passes, r, b
<1>9. CASE e.kind = "call" /\ ~(e.tool < a.calls)
  <2>0. e.tool \in Tools /\ e.tool = a.calls /\ e.size = 0
    BY <1>1, <1>9 DEF Heeded
  <2>1. r = AddTool(s, e.tool, e.named, e.size) /\ To(e) = e.tool /\ Adding("responses", a, e) = 0
    BY <1>3, <1>9 DEF FromResponses, To, Adding
  <2>2. s.index[e.tool] = -1 /\ s.got[e.tool] = 0 /\ s.count \in Tools
    BY <1>3, <1>4, <1>9, <2>0
  <2> HIDE DEF r
  <2>3. CASE ~e.named
    <3>1. r.out = <<Failure>> /\ r.state \in Up /\ r.state.reason = s.reason
      BY <2>0, <2>1, <2>2, <2>3, AddToolFails
    <3> QED BY <3>1 DEF Passes, r
  <2>4. CASE e.named
    <3>1. Opened(s, e.tool, 0, r)
      BY <2>0, <2>1, <2>2, <2>4, AddToolOpens
    <3>2. \A t \in Tools : b.total[t] = a.total[t]
      BY <1>2, <1>5, <2>1
    <3>3. b.calls = a.calls + 1
      BY <1>2, <1>9, <2>0
    <3>4. Hears("responses", b, r.state)
      <4>1. r.state.count = b.calls /\ ~r.state.finished /\ ~r.state.failed /\ ~r.state.terminal
        BY <1>3, <3>1, <3>3 DEF Opened
      <4>2. ASSUME NEW t \in Tools
            PROVE  IF t < b.calls THEN r.state.index[t] \in 0 .. b.calls - 1 /\ r.state.got[t] = b.total[t]
                                  ELSE r.state.index[t] = -1 /\ r.state.got[t] = 0
        <5>1. CASE t = e.tool
          <6>1. r.state.index[t] = s.count /\ r.state.got[t] = 0 /\ b.total[t] = 0
            <7>1. a.total[t] = 0
              BY <2>0, <5>1, <1>3 DEF Hears, Untold
            <7> QED BY <3>1, <3>2, <5>1, <7>1 DEF Opened
          <6> QED BY <1>3, <2>0, <3>3, <5>1, <6>1
        <5>2. CASE t # e.tool
          <6>1. r.state.index[t] = s.index[t] /\ r.state.got[t] = s.got[t]
            BY <3>1, <5>2 DEF Opened
          <6>2. t \in Nat
            BY <1>5
          <6> QED BY <1>3, <1>4, <2>0, <3>2, <3>3, <5>2, <6>1, <6>2
        <5> QED BY <5>1, <5>2
      <4> QED BY <1>2, <4>1, <4>2 DEF Hears, CallsAs
    <3>5. Tells("responses", s.count, s.count + 1, r.out, e.tool, 0)
      <4>1. r.out = Few(~s.started, Role) \o <<Naming(s.count, e.tool, 0)>> \o Few(0 > 0, Adds(s.count, e.tool, 0))
        BY <3>1 DEF Opened
      <4> DEFINE condition == ~s.started
      <4>2. r.out = Few(condition, Role) \o <<Naming(s.count, e.tool, 0)>> \o Few(0 > 0, Adds(s.count, e.tool, 0))
        BY <4>1
      <4> HIDE DEF condition
      <4> QED BY <2>0, <2>2, <4>2, TellsNew
    <3>6. r.state \in Up /\ r.state.reason = s.reason /\ r.state.count = s.count + 1
      BY <3>1 DEF Opened
    <3> QED BY <2>1, <3>4, <3>5, <3>6 DEF Passes, r, b
  <2> QED BY <2>3, <2>4
<1>10. CASE e.kind \in {"args", "full"}
  <2> DEFINE more == Adding("responses", a, e)
  <2>0. e.tool \in Tools /\ e.tool < a.calls /\ To(e) = e.tool
    BY <1>1, <1>10 DEF Heeded, To
  <2>1. s.index[e.tool] \in 0 .. a.calls - 1 /\ s.index[e.tool] # -1 /\ s.got[e.tool] = a.total[e.tool]
        /\ s.index[e.tool] \in Tools
    BY <1>3, <1>4, <2>0, UpsAre
  <2>2. r = AddArguments(s, e.tool, more)
    BY <1>3, <1>10, <2>1 DEF FromResponses, Adding
  <2>3. more \in Nat
    BY SayingMiddle DEF Protocols
  <2> HIDE DEF more, r
  <2>4. /\ r.out = Few(more > 0, Adds(s.index[e.tool], e.tool, more))
        /\ r.state \in Up /\ r.state.reason = s.reason /\ r.state.count = s.count
        /\ r.state.finished = s.finished /\ r.state.failed = s.failed
        /\ r.state.terminal = s.terminal /\ r.state.index = s.index
        /\ \A t \in Tools : r.state.got[t] = s.got[t] + IF t = e.tool THEN more ELSE 0
    BY <2>0, <2>1, <2>2, <2>3, AddArgumentsIs
  <2>5. b.calls = a.calls
    BY <1>2, <1>10
  <2>6. \A t \in Tools : b.total[t] = a.total[t] + IF t = e.tool THEN more ELSE 0
    BY <1>2, <1>5, <2>0 DEF more
  <2>7. Hears("responses", b, r.state)
    <3>1. ASSUME NEW t \in Tools
          PROVE  IF t < b.calls THEN r.state.index[t] \in 0 .. b.calls - 1 /\ r.state.got[t] = b.total[t]
                                ELSE r.state.index[t] = -1 /\ r.state.got[t] = 0
      BY <1>4, <2>0, <2>4, <2>5, <2>6
    <3> QED BY <1>2, <1>3, <2>4, <2>5, <3>1 DEF Hears, CallsAs
  <2>8. Tells("responses", s.count, s.count, r.out, e.tool, more)
    <3>1. s.index[e.tool] < s.count
      BY <1>3, <2>1
    <3> QED BY <1>3, <2>0, <2>1, <2>3, <2>4, <3>1, TellsPiece
  <2> QED BY <2>0, <2>4, <2>7, <2>8 DEF Passes, r, b, more
<1> QED BY <1>1, <1>6, <1>7, <1>8, <1>9, <1>10 DEF Heeded

\* For all of them.
LEMMA UpstreamPasses ==
  ASSUME NEW a \in Said, NEW up \in Protocols, NEW s \in Up, Hears(up, a, s), NEW e \in Middle(up, a)
  PROVE  Passes(up, a, e, s, FromUpstream(up, s, e))
<1>1. CASE up = "openai"
  <2>1. FromUpstream("openai", s, e) = FromOpenAI(s, e)
    BY DEF FromUpstream
  <2> QED BY <1>1, <2>1, OpenAIPasses
<1>2. CASE up = "anthropic"
  <2>1. FromUpstream("anthropic", s, e) = FromAnthropic(s, e)
    BY DEF FromUpstream
  <2> QED BY <1>2, <2>1, AnthropicPasses
<1>3. CASE up = "gemini"
  <2>1. FromUpstream("gemini", s, e) = FromGemini(s, e)
    BY DEF FromUpstream
  <2> QED BY <1>3, <2>1, GeminiPasses
<1>4. CASE up = "responses"
  <2>1. FromUpstream("responses", s, e) = FromResponses(s, e)
    BY DEF FromUpstream
  <2> QED BY <1>4, <2>1, ResponsesPasses
<1> QED BY <1>1, <1>2, <1>3, <1>4 DEF Protocols
-----------------------------------------------------------------------------
(* The end of the upstream converters *)

\* The output repeats the calls that are known as they are, and at most one that is new.
Repeating(s, output, known) ==
  /\ output \in Seq([tool : Tools, size : Nat, named : BOOLEAN, kind : {"call"}])
  /\ Len(output) <= known + 1
  /\ \A i \in 1 .. Len(output) : output[i].tool = i - 1
  /\ \A i \in 1 .. Len(output) : i <= known => s.index[i - 1] # -1 /\ s.got[i - 1] = output[i].size

Repeated(s, output, known, all) ==
  /\ Len(output) <= known => all.state = s /\ all.out = <<>>
  /\ Len(output) = known + 1 =>
       LET r == AddTool(s, known, output[known + 1].named, output[known + 1].size)
       IN  all.state = r.state /\ all.out = <<>> \o r.out

\* The calls that are repeated add nothing, and one that is new is opened.
LEMMA AddOutputIs ==
  ASSUME NEW s \in Up, ~s.failed, NEW known \in Nat, NEW output, Repeating(s, output, known)
  PROVE  Repeated(s, output, known, AddOutput(s, output))
<1> DEFINE l == Len(output)
           r == AddTool(s, known, output[known + 1].named, output[known + 1].size)
           g == [n \in 0 .. l |-> IF n <= known THEN Step(s, <<>>) ELSE Step(r.state, <<>> \o r.out)]
           more(f, n) == AddTool(f[n - 1].state, output[n].tool, output[n].named, output[n].size)
           at(f, n) == IF n = 0 THEN Step(s, <<>>)
                       ELSE IF f[n - 1].state.failed THEN f[n - 1]
                            ELSE Step(more(f, n).state, f[n - 1].out \o more(f, n).out)
           D(f) == [n \in 0 .. l |-> at(f, n)]
           h == CHOOSE f : f = D(f)
<1>0. /\ output \in Seq([tool : Tools, size : Nat, named : BOOLEAN, kind : {"call"}])
      /\ l <= known + 1 /\ \A i \in 1 .. l : output[i].tool = i - 1
      /\ \A i \in 1 .. l : i <= known => s.index[i - 1] # -1 /\ s.got[i - 1] = output[i].size
  BY DEF Repeating
<1>1. l \in Nat /\ \A i \in 1 .. l : output[i].tool \in Tools /\ output[i].size \in Nat
  <2> DEFINE Calls == [tool : Tools, size : Nat, named : BOOLEAN, kind : {"call"}]
  <2>1. \A c \in Calls : c.tool \in Tools /\ c.size \in Nat
    OBVIOUS
  <2>2. output \in Seq(Calls)
    BY <1>0
  <2> HIDE DEF Calls
  <2>3. Len(output) \in Nat /\ \A i \in 1 .. Len(output) : output[i] \in Calls
    BY <2>2, ElementOfSeq
  <2> QED BY <2>1, <2>3
<1>2. AddOutput(s, output) = h[l]
  BY DEF AddOutput
<1> DEFINE first == Step(s, <<>>)
<1>3. first.state = s /\ first.out = <<>> /\ <<>> \o <<>> = <<>>
  BY DEF Step
<1>4. ASSUME NEW n \in 1 .. l, n <= known
      PROVE  AddTool(s, output[n].tool, output[n].named, output[n].size).state = s
             /\ AddTool(s, output[n].tool, output[n].named, output[n].size).out = <<>>
  <2>1. output[n].tool \in Tools /\ output[n].tool = n - 1
    BY <1>0, <1>1
  <2>2. s.index[output[n].tool] # -1 /\ s.got[output[n].tool] = output[n].size
    BY <1>0, <1>4, <2>1
  <2> DEFINE tool == output[n].tool
             named == output[n].named
             size == output[n].size
  <2> HIDE DEF tool, named, size
  <2>3. AddTool(s, tool, named, size).state = s /\ AddTool(s, tool, named, size).out = <<>>
    BY <2>1, <2>2, AddToolKnown DEF tool, size
  <2> QED BY <2>3 DEF tool, named, size
<1>5. g[0] = first
  BY <1>1
<1>6. ASSUME NEW n \in 1 .. l, n <= known
      PROVE  g[n] = first /\ g[n - 1] = first
  BY <1>1, <1>6
<1>7. ASSUME NEW n \in 1 .. l, ~(n <= known)
      PROVE  n = known + 1 /\ g[n] = Step(r.state, <<>> \o r.out) /\ g[n - 1] = first
  BY <1>0, <1>1, <1>7
<1>8. ASSUME NEW n \in 1 .. l, NEW f, f[n - 1] = first
      PROVE  D(f)[n] = Step(more(f, n).state, <<>> \o more(f, n).out)
             /\ more(f, n) = AddTool(s, output[n].tool, output[n].named, output[n].size)
  <2>1. D(f)[n] = IF f[n - 1].state.failed THEN f[n - 1]
                  ELSE Step(more(f, n).state, f[n - 1].out \o more(f, n).out)
    BY <1>1
  <2>2. more(f, n) = AddTool(s, output[n].tool, output[n].named, output[n].size)
    BY <1>3, <1>8
  <2> HIDE DEF first, more
  <2> QED BY <1>3, <1>8, <2>1, <2>2
<1>9. \A f : D(f)[0] = first
  <2>1. \A f : at(f, 0) = first
    BY DEF first
  <2>2. 0 \in 0 .. l
    BY <1>1
  <2> HIDE DEF at, first
  <2> QED BY <2>1, <2>2
<1>10. \A n \in 0 .. l : g[n] = D(g)[n]
  <2> HIDE DEF g, D, first, more
  <2> SUFFICES ASSUME NEW n \in 0 .. l PROVE g[n] = D(g)[n]
    OBVIOUS
  <2>1. CASE n = 0
    BY <1>5, <1>9, <2>1
  <2>2. CASE n \in 1 .. l /\ n <= known
    <3>1. D(g)[n] = Step(more(g, n).state, <<>> \o more(g, n).out)
          /\ more(g, n) = AddTool(s, output[n].tool, output[n].named, output[n].size)
      BY <1>6, <1>8, <2>2
    <3>2. more(g, n).state = s /\ more(g, n).out = <<>>
      BY <1>4, <2>2, <3>1
    <3> QED BY <1>3, <1>6, <2>2, <3>1, <3>2 DEF first
  <2>3. CASE n \in 1 .. l /\ ~(n <= known)
    <3>1. D(g)[n] = Step(more(g, n).state, <<>> \o more(g, n).out)
          /\ more(g, n) = AddTool(s, output[n].tool, output[n].named, output[n].size)
      BY <1>7, <1>8, <2>3
    <3>2. n = known + 1 /\ g[n] = Step(r.state, <<>> \o r.out)
      BY <1>7, <2>3
    <3>3. output[n].tool = known
      BY <1>0, <2>3, <3>2
    <3>4. more(g, n) = r
      BY <3>1, <3>2, <3>3
    <3> QED BY <3>1, <3>2, <3>4
  <2> QED BY <1>1, <2>1, <2>2, <2>3
<1>11. g = D(g)
  <2> DEFINE dg == D(g)
  <2>1. dg = [n \in 0 .. l |-> dg[n]]
    <3> HIDE DEF at, g
    <3> QED OBVIOUS
  <2>2. g = [n \in 0 .. l |-> g[n]]
    OBVIOUS
  <2> HIDE DEF g, dg
  <2>3. \A n \in 0 .. l : g[n] = dg[n]
    BY <1>10 DEF dg
  <2> QED BY <2>1, <2>2, <2>3 DEF dg
<1>12. h = D(h)
  BY <1>11
<1> DEFINE S == {m \in Nat : m <= l => h[m] = g[m]}
<1>13. 0 \in S
  <2> HIDE DEF h, D, g, first
  <2> QED BY <1>5, <1>9, <1>12
<1>14. ASSUME NEW m \in Nat, m \in S PROVE m + 1 \in S
  <2> SUFFICES ASSUME m + 1 <= l PROVE h[m + 1] = g[m + 1]
    OBVIOUS
  <2>1. h[m] = g[m] /\ m + 1 \in 1 .. l /\ (m + 1) - 1 = m
    BY <1>1, <1>14
  <2>2. g[m] = first
    <3>1. m <= known
      BY <1>0, <1>1
    <3> QED BY <1>1, <3>1
  <2> HIDE DEF h, D, g, first, more
  <2>3. /\ D(h)[m + 1] = Step(more(h, m + 1).state, <<>> \o more(h, m + 1).out)
        /\ more(h, m + 1) = AddTool(s, output[m + 1].tool, output[m + 1].named, output[m + 1].size)
    BY <1>8, <2>1, <2>2
  <2>4. /\ D(g)[m + 1] = Step(more(g, m + 1).state, <<>> \o more(g, m + 1).out)
        /\ more(g, m + 1) = AddTool(s, output[m + 1].tool, output[m + 1].named, output[m + 1].size)
    BY <1>8, <2>1, <2>2
  <2> QED BY <1>11, <1>12, <2>3, <2>4
<1>15. Nat \subseteq S
  <2> HIDE DEF S
  <2> QED BY <1>13, <1>14, NaturalsBySteps
<1>16. h[l] = g[l]
  <2> HIDE DEF h, g
  <2> QED BY <1>1, <1>15
<1> HIDE DEF h
<1>17. l <= known => g[l] = first
  BY <1>1
<1>18. l = known + 1 => g[l] = Step(r.state, <<>> \o r.out)
  BY <1>1
<1> HIDE DEF g, first, r
<1> QED BY <1>2, <1>3, <1>16, <1>17, <1>18 DEF Step, r, Repeated

\* Nothing was said of the calls that are still to come, at the end of an OpenAI or Anthropic answer.
LEMMA UntoldEnds ==
  ASSUME NEW a \in Said, NEW protocol \in {"openai", "anthropic"}, NEW e \in Endings(protocol, a), Untold(a)
  PROVE  /\ Untold(Saying(protocol, a, e))
         /\ \A p \in Parts : Saying(protocol, a, e).total[p] = a.total[p]
<1> DEFINE b == Saying(protocol, a, e)
<1>1. /\ b.calls = a.calls /\ b.latest = a.latest
      /\ \A p \in Parts : b.total[p] = a.total[p] + IF p = TheText /\ e.kind = "finish" /\ e.text THEN 1 ELSE 0
  BY SayingEnding DEF Protocols
<1>2. ~(e.kind = "finish" /\ e.text)
  BY EndingsAre DEF Protocols, Concluding
<1>3. \A p \in Parts : a.total[p] \in Nat
  BY SaidIs
<1>4. Tools \subseteq Parts
  BY PartsAre
<1> HIDE DEF b
<1>5. \A p \in Parts : b.total[p] = a.total[p]
  BY <1>1, <1>2, <1>3
<1> QED BY <1>1, <1>4, <1>5 DEF Untold, b

\* What an upstream converter does with an end that is no failure.  The chunks say "size" of a part.
LastPasses(up, a, e, s, r, part, size) ==
  /\ r.state \in Up /\ ~r.state.finished /\ ~r.state.failed
  /\ up # "responses" => ~r.state.terminal /\ r.state.count = s.count
  /\ up = "responses" => r.state.terminal /\ r.state.reason = IF e.reason \in Cut THEN "length" ELSE "stop"
  /\ up # "responses" => r.state.reason = IF e.kind = "finish" THEN e.reason ELSE s.reason
  /\ part \in Parts /\ size \in Nat
  /\ Tells(up, s.count, r.state.count, r.out, part, size)
  /\ \A p \in Parts : Saying(up, a, e).total[p] = a.total[p] + IF p = part THEN size ELSE 0

\* Anthropic: the reason is kept for the end.
LEMMA AnthropicLast ==
  ASSUME NEW a \in Said, NEW s \in Up, Hears("anthropic", a, s), NEW e \in Endings("anthropic", a),
         e.kind # "error"
  PROVE  LastPasses("anthropic", a, e, s, FromAnthropic(s, e), TheText, 0)
<1> DEFINE r == FromAnthropic(s, e)
           b == Saying("anthropic", a, e)
<1>1. Concluding("anthropic", a, e)
  BY EndingsAre DEF Protocols
<1>2. e.kind = "end" \/ (e.kind = "finish" /\ e.reason \in Reasons)
  BY <1>1 DEF Concluding
<1>3. r.state = (IF e.kind = "finish" THEN [s EXCEPT !.reason = e.reason] ELSE s) /\ r.out = <<>>
  BY <1>2 DEF FromAnthropic, Step
<1> HIDE DEF r
<1>4. /\ r.state \in Up /\ r.state.count = s.count /\ r.state.finished = s.finished
      /\ r.state.failed = s.failed /\ r.state.terminal = s.terminal
      /\ r.state.reason = IF e.kind = "finish" THEN e.reason ELSE s.reason
  BY <1>2, <1>3 DEF Up
<1>5. ~s.finished /\ ~s.failed /\ ~s.terminal /\ s.count \in Nat
  BY UpsAre DEF Hears
<1>6. Tells("anthropic", s.count, s.count, <<>>, TheText, 0) /\ TheText \in Parts
  BY <1>5, TellsNothing, PartsAre
<1>7. \A p \in Parts : b.total[p] = a.total[p] + IF p = TheText THEN 0 ELSE 0
  BY UntoldEnds, SaidIs DEF Hears
<1> HIDE DEF b
<1> QED BY <1>3, <1>4, <1>5, <1>6, <1>7 DEF LastPasses, r, b

\* Gemini: the last event may carry text.
LEMMA GeminiLast ==
  ASSUME NEW a \in Said, NEW s \in Up, Hears("gemini", a, s), NEW e \in Endings("gemini", a),
         e.kind # "error"
  PROVE  LastPasses("gemini", a, e, s, FromGemini(s, e), TheText, IF e.text THEN 1 ELSE 0)
<1> DEFINE r == FromGemini(s, e)
           b == Saying("gemini", a, e)
           k == [s EXCEPT !.reason = e.reason]
<1>1. e.kind = "finish" /\ e.reason \in Reasons
  BY EndingsAre DEF Protocols, Concluding
<1>2. r = IF e.text THEN Step(Started(k), Few(~s.started, Role) \o <<Text>>) ELSE Step(k, <<>>)
  BY <1>1 DEF FromGemini
<1>3. /\ k \in Up /\ k.count = s.count /\ k.finished = s.finished /\ k.failed = s.failed
      /\ k.terminal = s.terminal /\ k.reason = e.reason
  BY <1>1 DEF Up
<1> HIDE DEF k
<1>4. /\ Started(k) \in Up /\ Started(k).count = s.count /\ Started(k).finished = s.finished
      /\ Started(k).failed = s.failed /\ Started(k).terminal = s.terminal /\ Started(k).reason = e.reason
  BY <1>3, UpsAre
<1>5. ~s.finished /\ ~s.failed /\ ~s.terminal /\ s.count \in Nat
  BY UpsAre DEF Hears
<1>6. \A p \in Parts : b.total[p] = a.total[p] + IF p = TheText THEN (IF e.text THEN 1 ELSE 0) ELSE 0
  <2>1. \A p \in Parts : b.total[p] = a.total[p] + IF p = TheText /\ e.kind = "finish" /\ e.text THEN 1 ELSE 0
    BY <1>1, SayingEnding DEF Protocols
  <2> HIDE DEF b
  <2> QED BY <1>1, <2>1
<1>7. TheText \in Parts
  BY PartsAre
<1> HIDE DEF b, r
<1>8. CASE e.text
  <2> DEFINE out == Few(~s.started, Role) \o <<Text>>
  <2>1. Tells("gemini", s.count, s.count, out, TheText, 1)
    BY <1>5, TellsText
  <2> HIDE DEF out
  <2>2. r.state = Started(k) /\ r.out = out
    BY <1>2, <1>8 DEF Step, out
  <2> QED BY <1>1, <1>4, <1>5, <1>6, <1>7, <1>8, <2>1, <2>2 DEF LastPasses, r, b
<1>9. CASE ~e.text
  <2>1. Tells("gemini", s.count, s.count, <<>>, TheText, 0)
    BY <1>5, TellsNothing
  <2>2. r.state = k /\ r.out = <<>>
    BY <1>2, <1>9 DEF Step
  <2> QED BY <1>1, <1>3, <1>5, <1>6, <1>7, <1>9, <2>1, <2>2 DEF LastPasses, r, b
<1> QED BY <1>8, <1>9

\* Responses: the last event repeats the calls, or names one more.
LEMMA ResponsesLast ==
  ASSUME NEW a \in Said, NEW s \in Up, Hears("responses", a, s), NEW e \in Endings("responses", a),
         e.kind # "error"
  PROVE  \E part, size : LastPasses("responses", a, e, s, FromResponses(s, e), part, size)
<1> DEFINE r == FromResponses(s, e)
           b == Saying("responses", a, e)
           output == e.output
           all == AddOutput(s, output)
           Calls == [tool : Tools, size : Nat, named : BOOLEAN, kind : {"call"}]
<1>1. e.kind = "end" /\ \E n \in 0 .. MaxTools : n \in {0, a.calls, a.calls + 1} /\ e.output = Output(a, n)
  BY EndingsAre DEF Protocols, Concluding
<1>2. PICK n \in 0 .. MaxTools : n \in {0, a.calls, a.calls + 1} /\ output = Output(a, n)
  BY <1>1
<1>3. /\ s.count \in Nat /\ s.count = a.calls /\ ~s.failed /\ ~s.terminal /\ ~s.finished
      /\ a.calls \in Nat /\ n \in Nat
  BY UpsAre, SaidIs, ToolsAssumption DEF Hears, CallsAs
<1>4. \A t \in Tools : IF t < a.calls THEN s.index[t] \in 0 .. a.calls - 1 /\ s.got[t] = a.total[t]
                                     ELSE s.index[t] = -1 /\ s.got[t] = 0 /\ a.total[t] = 0
  BY <1>3, ToolsAssumption DEF Hears, CallsAs, Untold, Tools
<1>5. /\ Tools \subseteq Parts /\ Tools \subseteq Nat /\ TheText \in Parts /\ TheText \notin Tools
      /\ \A p \in Parts : a.total[p] \in Nat
  BY PartsAre, SaidIs, ToolsAssumption DEF Tools
<1>6. /\ Len(output) = n
      /\ \A i \in 1 .. n : output[i] = CallEvent(i - 1, TRUE, a.total[i - 1] + (IF i > a.calls THEN 1 ELSE 0))
  BY <1>2, <1>3 DEF Output
<1>7. \A i \in 1 .. n : i - 1 \in Tools /\ a.total[i - 1] + (IF i > a.calls THEN 1 ELSE 0) \in Nat
  <2>1. \A i \in 1 .. n : i - 1 \in Tools
    BY ToolsAssumption DEF Tools
  <2> QED BY <1>5, <2>1
<1>8. \A i \in 1 .. n : output[i].tool = i - 1 /\ output[i].named
                        /\ output[i].size = a.total[i - 1] + (IF i > a.calls THEN 1 ELSE 0)
                        /\ output[i] \in Calls
  <2> SUFFICES ASSUME NEW i \in 1 .. n
               PROVE  /\ output[i].tool = i - 1 /\ output[i].named
                      /\ output[i].size = a.total[i - 1] + (IF i > a.calls THEN 1 ELSE 0)
                      /\ output[i] \in Calls
    OBVIOUS
  <2> DEFINE size == a.total[i - 1] + (IF i > a.calls THEN 1 ELSE 0)
  <2>1. size \in Nat /\ i - 1 \in Tools
    BY <1>7
  <2>2. output[i] = [kind |-> "call", tool |-> i - 1, named |-> TRUE, size |-> size]
    BY <1>6 DEF CallEvent
  <2> HIDE DEF output, size
  <2> QED BY <2>1, <2>2 DEF size
<1>9. output \in Seq(Calls)
  <2>1. \A i \in 1 .. n : output[i] \in Calls
    BY <1>8
  <2>2. output = [i \in 1 .. n |-> output[i]]
    BY <1>2, <1>3 DEF Output
  <2> HIDE DEF Calls, output
  <2> QED BY <1>3, <2>1, <2>2, IsASeq
<1>10. \A p \in Parts : b.total[p] = IF p + 1 \in 1 .. Len(output) THEN output[p + 1].size ELSE a.total[p]
  BY <1>1, SayingEnding DEF Protocols
<1>11. r = IF all.state.failed THEN Step(all.state, <<Failure>>)
           ELSE Step(Terminated(all.state, e.reason), all.out)
  BY <1>1, <1>3 DEF FromResponses
<1> HIDE DEF r, b, all, output
<1>12. \A i \in 1 .. n : i <= a.calls => s.index[i - 1] # -1 /\ s.got[i - 1] = output[i].size
  <2> SUFFICES ASSUME NEW i \in 1 .. n, i <= a.calls PROVE s.index[i - 1] # -1 /\ s.got[i - 1] = output[i].size
    OBVIOUS
  <2>1. i - 1 \in Tools /\ i - 1 < a.calls /\ a.total[i - 1] \in Nat
    BY <1>3, <1>5, <1>7
  <2>2. output[i].size = a.total[i - 1] + 0
    BY <1>3, <1>8
  <2> QED BY <1>3, <1>4, <2>1, <2>2
<1>13. \A p \in Parts : p + 1 \in 1 .. n => p \in Tools /\ (p + 1) - 1 = p /\ (p + 1 > a.calls <=> ~(p < a.calls))
  <2> SUFFICES ASSUME NEW p \in Parts, p + 1 \in 1 .. n
               PROVE  p \in Tools /\ (p + 1) - 1 = p /\ (p + 1 > a.calls <=> ~(p < a.calls))
    OBVIOUS
  <2>1. p # TheText
    BY <1>3 DEF TheText
  <2>2. p \in Tools /\ p \in Nat
    BY <1>5, <2>1, PartsAre
  <2> QED BY <1>3, <2>2
<1>14. ASSUME NEW k \in Up, k.count = s.count \/ k.count = s.count + 1, ~k.failed, ~k.finished,
              all.state = k, NEW part \in Parts, NEW size \in Nat,
              Tells("responses", s.count, k.count, all.out, part, size),
              \A p \in Parts : b.total[p] = a.total[p] + IF p = part THEN size ELSE 0
       PROVE  LastPasses("responses", a, e, s, r, part, size)
  <2> DEFINE t == Terminated(k, e.reason)
             reason == IF e.reason \in Cut THEN "length" ELSE "stop"
  <2>1. t = [k EXCEPT !.terminal = TRUE, !.reason = reason]
    BY DEF Terminated
  <2>2. reason \in Reasons
    BY DEF Reasons, Cut
  <2>3. r.state = t /\ r.out = all.out
    <3> HIDE DEF t
    <3>1. r = Step(t, all.out)
      BY <1>11, <1>14 DEF t
    <3> QED BY <3>1 DEF Step
  <2> HIDE DEF t, reason
  <2>4. t \in Up /\ t.terminal /\ t.reason = reason /\ t.count = k.count /\ t.finished = k.finished /\ t.failed = k.failed
    BY <2>1, <2>2 DEF Up
  <2> QED BY <1>14, <2>3, <2>4 DEF LastPasses, b, reason
<1>17. Repeated(s, output, a.calls, all)
  <2>1. n <= a.calls + 1
    BY <1>2, <1>3
  <2>2. Repeating(s, output, a.calls)
    BY <1>6, <1>8, <1>9, <1>12, <2>1 DEF Repeating, Calls
  <2> QED BY <1>3, <2>2, AddOutputIs DEF all
<1>15. CASE n <= a.calls
  <2>1. all.state = s /\ all.out = <<>>
    BY <1>6, <1>15, <1>17 DEF Repeated
  <2>2. \A p \in Parts : b.total[p] = a.total[p] + IF p = TheText THEN 0 ELSE 0
    <3> SUFFICES ASSUME NEW p \in Parts PROVE b.total[p] = a.total[p]
      BY <1>5
    <3>1. CASE p + 1 \in 1 .. n
      <4>1. b.total[p] = output[p + 1].size
        BY <1>6, <1>10, <3>1
      <4>2. output[p + 1].size = a.total[p] + (IF p + 1 > a.calls THEN 1 ELSE 0)
        BY <1>8, <1>13, <3>1
      <4>3. ~(p + 1 > a.calls)
        BY <1>3, <1>15, <3>1
      <4> QED BY <1>5, <4>1, <4>2, <4>3
    <3>2. CASE ~(p + 1 \in 1 .. n)
      BY <1>6, <1>10, <3>2
    <3> QED BY <3>1, <3>2
  <2>3. Tells("responses", s.count, s.count, all.out, TheText, 0)
    BY <1>3, <2>1, TellsNothing
  <2>4. LastPasses("responses", a, e, s, r, TheText, 0)
    BY <1>3, <1>5, <1>14, <2>1, <2>2, <2>3
  <2> QED BY <2>4 DEF r
<1>16. CASE ~(n <= a.calls)
  <2> DEFINE c == a.calls
             named == output[c + 1].named
             size == output[c + 1].size
             one == AddTool(s, c, named, size)
  <2>1. n = c + 1 /\ c \in Tools /\ c + 1 \in 1 .. n
    <3>1. n = c + 1
      BY <1>2, <1>3, <1>16
    <3> QED BY <1>3, <1>7, <3>1
  <2>2. named /\ size = 1
    <3>1. named /\ size = a.total[c] + 1
      BY <1>3, <1>8, <2>1
    <3>2. a.total[c] = 0
      BY <1>3, <1>4, <2>1
    <3> QED BY <3>1, <3>2
  <2>4. all.state = one.state /\ all.out = <<>> \o one.out
    BY <1>6, <1>17, <2>1 DEF Repeated
  <2>5. s.index[c] = -1 /\ s.got[c] = 0 /\ s.count \in Tools
    BY <1>3, <1>4, <2>1
  <2> HIDE DEF one, named, size
  <2>6. Opened(s, c, size, one)
    BY <2>1, <2>2, <2>5, AddToolOpens DEF one
  <2>7. /\ one.state \in Up /\ one.state.count = s.count + 1 /\ ~one.state.failed /\ ~one.state.finished
        /\ one.out = Few(~s.started, Role) \o <<Naming(s.count, c, 0)>> \o Few(size > 0, Adds(s.count, c, size))
    BY <1>3, <2>6 DEF Opened
  <2>8. Tells("responses", s.count, s.count + 1, one.out, c, 1)
    <3> DEFINE condition == ~s.started
    <3>1. one.out = Few(condition, Role) \o <<Naming(s.count, c, 0)>> \o Few(1 > 0, Adds(s.count, c, 1))
      BY <2>2, <2>7
    <3> HIDE DEF condition
    <3> QED BY <2>1, <2>5, <3>1, TellsNew
  <2>9. all.out = one.out
    <3>1. one.out \in Seq(Chunks)
      BY <2>8 DEF Tells
    <3> QED BY <2>4, <3>1
  <2>10. \A p \in Parts : b.total[p] = a.total[p] + IF p = c THEN 1 ELSE 0
    <3> SUFFICES ASSUME NEW p \in Parts PROVE b.total[p] = a.total[p] + IF p = c THEN 1 ELSE 0
      OBVIOUS
    <3>1. CASE p + 1 \in 1 .. n
      <4>1. b.total[p] = output[p + 1].size
        BY <1>6, <1>10, <3>1
      <4>2. output[p + 1].size = a.total[p] + (IF p + 1 > a.calls THEN 1 ELSE 0)
        BY <1>8, <1>13, <3>1
      <4>3. p + 1 > a.calls <=> p = c
        <5>1. p \in Nat
          BY <1>5, <1>13, <3>1
        <5> QED BY <1>3, <2>1, <3>1, <5>1
      <4> QED BY <1>5, <4>1, <4>2, <4>3
    <3>2. CASE ~(p + 1 \in 1 .. n)
      <4>1. p # c
        BY <2>1, <3>2
      <4> QED BY <1>5, <1>6, <1>10, <3>2, <4>1
    <3> QED BY <3>1, <3>2
  <2>11. c \in Parts
    BY <1>5, <2>1
  <2> HIDE DEF c
  <2>12. Tells("responses", s.count, one.state.count, all.out, c, 1)
    BY <2>7, <2>8, <2>9
  <2>13. LastPasses("responses", a, e, s, r, c, 1)
    BY <1>14, <2>4, <2>7, <2>10, <2>11, <2>12
  <2> QED BY <2>13 DEF r
<1> QED BY <1>15, <1>16

\* The end of an upstream converter, which has neither finished nor failed.
LEMMA UpFinishIs ==
  ASSUME NEW s \in Up, NEW up \in Protocols, ~s.finished, ~s.failed,
         up = "responses" => s.terminal, s.reason # "error"
  PROVE  LET r == UpFinish(up, s)
         IN /\ r.state \in Up /\ r.state.reason = s.reason /\ r.state.count = s.count
            /\ r.out \in Seq(Chunks) /\ ~Fails(r.out)
            /\ \A p \in Parts : Due(r.out, p) = 0
            /\ \A i \in 1 .. Len(r.out) : /\ r.out[i].kind \in {"role", "finish", "done"}
                                          /\ r.out[i].kind = "finish" => r.out[i].reason = s.reason
            /\ up = "openai" => r.out = <<>>
            /\ up # "openai" => \E i \in 1 .. Len(r.out) : r.out[i].kind = "finish"
<1> DEFINE r == UpFinish(up, s)
           k == [Started(s) EXCEPT !.finished = TRUE]
           f == FinishChunk(s.reason)
           hello == Few(~s.started, Role)
           last == <<f, Done>>
<1>1. CASE up = "openai"
  <2>1. r.state = s /\ r.out = <<>>
    BY <1>1 DEF UpFinish, Step
  <2>2. <<>> \in Seq(Chunks) /\ Len(<<>>) = 0 /\ \A p \in Parts : Due(<<>>, p) = 0
    BY DueAddsUp
  <2> HIDE DEF r
  <2>3. ~Fails(r.out)
    BY <2>1, <2>2 DEF Fails
  <2>4. r.out \in Seq(Chunks) /\ (\A i \in 1 .. Len(r.out) : FALSE) /\ \A p \in Parts : Due(r.out, p) = 0
    BY <2>1, <2>2
  <2>5. /\ r.state \in Up /\ r.state.reason = s.reason /\ r.state.count = s.count
        /\ \A i \in 1 .. Len(r.out) : /\ r.out[i].kind \in {"role", "finish", "done"}
                                      /\ r.out[i].kind = "finish" => r.out[i].reason = s.reason
    BY <2>1, <2>4
  <2> QED BY <1>1, <2>1, <2>3, <2>4, <2>5 DEF r
<1>2. CASE up # "openai"
  <2>1. r = Step(k, hello \o last)
    BY <1>2 DEF UpFinish
  <2>2. k \in Up /\ k.reason = s.reason /\ k.count = s.count
    BY DEF Up, Started
  <2>3. /\ f \in Chunks /\ f.kind = "finish" /\ f.reason = s.reason /\ \A p : DuePieces(f, p) = 0
        /\ Role \in Chunks /\ Role.kind = "role" /\ \A p : DuePieces(Role, p) = 0
        /\ Done \in Chunks /\ Done.kind = "done" /\ \A p : DuePieces(Done, p) = 0
    BY PlainChunks DEF Up
  <2> HIDE DEF r, k, f
  <2>4. /\ hello \in Seq(Chunks) /\ (hello = <<Role>> \/ hello = <<>>)
        /\ \A p \in Parts : Due(hello, p) = 0
    <3>1. /\ hello \in Seq(Chunks)
          /\ \A p \in Parts : Due(hello, p) = IF ~s.started THEN DuePieces(Role, p) ELSE 0
      BY <2>3, FewChunks
    <3>2. hello = <<Role>> \/ hello = <<>>
      BY DEF Few
    <3> HIDE DEF hello
    <3> QED BY <2>3, <3>1, <3>2
  <2>5. last \in Seq(Chunks) /\ Len(last) = 2 /\ last[1] = f /\ last[2] = Done /\ last = <<f>> \o <<Done>>
        /\ <<f>> \in Seq(Chunks) /\ <<Done>> \in Seq(Chunks)
    BY <2>3
  <2> HIDE DEF hello, last
  <2>6. \A p \in Parts : Due(last, p) = 0
    <3> SUFFICES ASSUME NEW p \in Parts PROVE Due(last, p) = 0
      OBVIOUS
    <3>1. Due(last, p) = Due(<<f>>, p) + Due(<<Done>>, p)
      BY <2>5, DueAddsUp
    <3>2. Due(<<f>>, p) = 0 /\ Due(<<Done>>, p) = 0
      BY <2>3, DueAddsUp
    <3> QED BY <3>1, <3>2
  <2> DEFINE out == hello \o last
  <2>7. out \in Seq(Chunks) /\ \A p \in Parts : Due(out, p) = 0
    <3>1. \A p \in Parts : Due(out, p) = Due(hello, p) + Due(last, p)
      BY <2>4, <2>5, DueAddsUp
    <3> HIDE DEF out
    <3>2. \A p \in Parts : Due(out, p) = 0
      BY <2>4, <2>6, <3>1
    <3> QED BY <2>4, <2>5, <3>2 DEF out
  <2>8. \A i \in 1 .. Len(out) : out[i] = Role \/ out[i] = f \/ out[i] = Done
    <3>1. CASE hello = <<>>
      <4>1. out = last
        BY <2>5, <3>1
      <4> QED BY <2>5, <4>1
    <3>2. CASE hello = <<Role>>
      <4>1. Len(out) = 3 /\ out[1] = Role /\ out[2] = f /\ out[3] = Done
        BY <2>5, <3>2
      <4> HIDE DEF out
      <4> QED BY <4>1
    <3> QED BY <2>4, <3>1, <3>2
  <2>9. \E i \in 1 .. Len(out) : out[i] = f
    <3>1. CASE hello = <<>>
      <4>1. out = last
        BY <2>5, <3>1
      <4> QED BY <2>5, <4>1
    <3>2. CASE hello = <<Role>>
      <4>1. Len(out) = 3 /\ out[2] = f
        BY <2>5, <3>2
      <4> HIDE DEF out
      <4> QED BY <4>1
    <3> QED BY <2>4, <3>1, <3>2
  <2>10. r.state = k /\ r.out = out
    BY <2>1 DEF Step
  <2> HIDE DEF out
  <2>11. ~Fails(r.out)
    BY <2>3, <2>8, <2>10 DEF Fails
  <2> QED BY <1>2, <2>2, <2>3, <2>7, <2>8, <2>9, <2>10, <2>11 DEF r
<1> QED BY <1>1, <1>2
-----------------------------------------------------------------------------
(* The initial state, and the end of a stream *)

LEMMA InitIInv == Init => IInv
<1> SUFFICES ASSUME Init PROVE IInv
  OBVIOUS
<1> USE DEF Init
<1>1. /\ TheText \in Parts /\ Tools \subseteq Nat
      /\ \A p \in Parts : Arrived(<<>>, p) = 0 /\ Due(<<>>, p) = 0
  BY PartsAre, ArrivedAddsUp, DueAddsUp, ToolsAssumption DEF Tools
<1>2. TypeOK
  <2>1. answer \in Said
    BY <1>1, ToolsAssumption, StreamAssumption DEF Said, Nothing
  <2>2. conv \in Up
    BY ToolsAssumption DEF Up, NoUp, Reasons
  <2>3. down \in Down
    BY DEF Down, NoDown, Reasons
  <2>4. terminal \in [{"complete", "incomplete", "failed", "stopNow", "length"} -> BOOLEAN]
    <3> DEFINE t == [x \in {"complete", "incomplete", "failed", "stopNow", "length"} |-> FALSE]
    <3>1. NoTerminal = t
      <4>1. DOMAIN NoTerminal = {"complete", "incomplete", "failed", "stopNow", "length"}
        BY DEF NoTerminal
      <4>2. NoTerminal = [x \in DOMAIN NoTerminal |-> NoTerminal[x]]
        BY DEF NoTerminal
      <4>3. \A x \in {"complete", "incomplete", "failed", "stopNow", "length"} : NoTerminal[x] = FALSE
        BY DEF NoTerminal
      <4> QED BY <4>1, <4>2, <4>3
    <3>2. t \in [{"complete", "incomplete", "failed", "stopNow", "length"} -> BOOLEAN]
      OBVIOUS
    <3> QED BY <3>1, <3>2
  <2>5. pair \in Pairs
    OBVIOUS
  <2>6. chunks \in Seq(Chunks) /\ writing \in Seq(Frames) /\ sent \in Seq(Frames)
    <3> <<>> \in Seq(Chunks) /\ <<>> \in Seq(Frames)
      OBVIOUS
    <3> QED OBVIOUS
  <2>7. /\ next \in {"read", "broken", "finish", "close", "settle", "returned"} \cup Failing
        /\ result \in Categories \cup {"none"}
    OBVIOUS
  <2>8. started \in BOOLEAN /\ gone \in BOOLEAN /\ expired \in BOOLEAN
    OBVIOUS
  <2> QED
    <3> HIDE DEF Init
    <3> QED BY <2>1, <2>2, <2>3, <2>4, <2>5, <2>6, <2>7, <2>8 DEF TypeOK
<1>3. ControlInv
  BY DEF ControlInv, Fine, NoTerminal, Failing
<1>4. ConvInv
  <2>1. /\ answer.calls = 0 /\ answer.latest = TheText /\ \A p \in Parts : answer.total[p] = 0
        /\ ~terminal.incomplete /\ ~terminal.length
    BY DEF Nothing, NoTerminal
  <2>2. /\ conv.count = 0 /\ ~conv.terminal /\ ~conv.finished /\ ~conv.failed /\ conv.reason = "stop"
        /\ \A t \in Tools : conv.index[t] = -1 /\ conv.got[t] = 0
    BY DEF NoUp
  <2>3. \A t \in Tools : t \in Parts /\ t \in Nat /\ ~(t < 0)
    BY <1>1, PartsAre
  <2>4. CallsInv
    BY <2>1, <2>2, <2>3 DEF CallsInv
  <2>5. next = "read"
    OBVIOUS
  <2> HIDE DEF Init
  <2> QED BY <2>1, <2>2, <2>3, <2>4, <2>5 DEF ConvInv
<1>5. ItemsInv
  BY DEF ItemsInv, ItemsOk, NoDown, Going, Fine
<1>6. NamedInv
  BY DEF NamedInv, NoUp
<1>7. ChunkInv
  BY DEF ChunkInv
<1>8. Written = <<>>
  BY DEF Written
<1>9. TruthInv
  BY <1>8 DEF TruthInv, Short, NoTerminal
<1>10. FramesInv
  BY <1>8 DEF FramesInv, Shown, Blocks, Orderly, OfKind, NoDown
<1>11. PiecesInv
  <2>1. \A p \in Parts : HeldBack(down.items, p) = 0
    BY DEF HeldBack, NoDown
  <2>2. \A p \in Parts : answer.total[p] = 0
    BY DEF Nothing
  <2> QED BY <1>1, <1>8, <2>1, <2>2 DEF PiecesInv
<1> QED BY <1>2, <1>3, <1>4, <1>5, <1>6, <1>7, <1>9, <1>10, <1>11 DEF IInv

\* Frames that are in order are so up to any point, and nothing follows an end.
LEMMA OrderlyPart ==
  ASSUME NEW w \in Seq(Frames), NEW s \in Seq(Frames), Orderly(w \o s)
  PROVE  /\ Orderly(w)
         /\ OfKind(w, "end") # {} => s = <<>>
         /\ \A kind : OfKind(w, kind) \subseteq OfKind(w \o s, kind)
<1> DEFINE t == w \o s
<1>1. /\ Len(t) = Len(w) + Len(s) /\ Len(w) \in Nat /\ Len(s) \in Nat
      /\ \A i \in 1 .. Len(w) : i \in 1 .. Len(t) /\ t[i] = w[i]
  OBVIOUS
<1>2. Orderly(t)
  OBVIOUS
<1> HIDE DEF t
<1>3. ASSUME NEW kind, NEW i \in OfKind(w, kind)
      PROVE  i \in OfKind(t, kind) /\ i \in 1 .. Len(w) /\ t[i] = w[i]
  BY <1>1 DEF OfKind
<1>4. ASSUME NEW kind, NEW i \in OfKind(t, kind), i <= Len(w)
      PROVE  i \in OfKind(w, kind)
  <2>1. i \in 1 .. Len(t) /\ t[i].kind = kind
    BY DEF OfKind
  <2>2. i \in 1 .. Len(w)
    BY <1>1, <1>4, <2>1
  <2> QED BY <1>1, <2>1, <2>2 DEF OfKind
<1>5. ASSUME NEW i \in OfKind(w, "end") PROVE i = Len(w) /\ Len(s) = 0
  <2>1. i = Len(t)
    BY <1>2, <1>3 DEF Orderly
  <2>2. i \in 1 .. Len(w)
    BY <1>3
  <2> QED BY <1>1, <2>1, <2>2
<1>6. \A i \in OfKind(w, "start") : i = 1
  BY <1>2, <1>3 DEF Orderly
<1>7. \A i, j \in OfKind(w, "open") : w[i].at = w[j].at => i = j
  <2> SUFFICES ASSUME NEW i \in OfKind(w, "open"), NEW j \in OfKind(w, "open"), w[i].at = w[j].at
               PROVE  i = j
    OBVIOUS
  <2>1. i \in OfKind(t, "open") /\ j \in OfKind(t, "open") /\ t[i].at = t[j].at
    BY <1>3
  <2> QED BY <1>2, <2>1 DEF Orderly
<1>8. ASSUME NEW i \in OfKind(w, "delta") \cup OfKind(w, "close")
      PROVE  /\ \E j \in OfKind(w, "open") : j < i /\ w[j].at = w[i].at
             /\ ~\E j \in OfKind(w, "close") : j < i /\ w[j].at = w[i].at
  <2>1. i \in OfKind(t, "delta") \cup OfKind(t, "close") /\ i \in 1 .. Len(w) /\ t[i] = w[i]
    BY <1>3
  <2>2. PICK j \in OfKind(t, "open") : j < i /\ t[j].at = t[i].at
    BY <1>2, <2>1 DEF Orderly
  <2>3. j \in OfKind(w, "open") /\ t[j] = w[j]
    <3>1. j \in 1 .. Len(t)
      BY DEF OfKind
    <3>2. j <= Len(w)
      BY <1>1, <2>1, <2>2, <3>1
    <3>3. j \in OfKind(w, "open")
      BY <1>4, <3>2
    <3> QED BY <1>3, <3>3
  <2>4. \A x \in OfKind(w, "close") : ~(x < i /\ w[x].at = w[i].at)
    <3> SUFFICES ASSUME NEW x \in OfKind(w, "close"), x < i PROVE w[x].at # w[i].at
      OBVIOUS
    <3>1. x \in OfKind(t, "close") /\ t[x] = w[x]
      BY <1>3
    <3>2. t[x].at # t[i].at
      BY <1>2, <2>1, <3>1 DEF Orderly
    <3> QED BY <2>1, <3>1, <3>2
  <2> QED BY <2>1, <2>2, <2>3, <2>4
<1>9. ASSUME NEW i \in OfKind(w, "end")
      PROVE  i = Len(w) /\ \A j \in OfKind(w, "open") : \E k \in OfKind(w, "close") : w[k].at = w[j].at
  <2>1. s = <<>> /\ t = w
    <3>1. s = <<>>
      BY <1>5
    <3> QED BY <3>1 DEF t
  <2>2. Orderly(w)
    BY <1>2, <2>1
  <2> QED BY <2>2 DEF Orderly
<1>10. OfKind(w, "end") # {} => s = <<>>
  BY <1>5
<1>11. \A kind : OfKind(w, kind) \subseteq OfKind(t, kind)
  BY <1>3
<1> QED BY <1>6, <1>7, <1>8, <1>9, <1>10, <1>11 DEF Orderly, t

\* What the client is given is a sequence of frames, and a part of it is what it was given before.
LEMMA WrittenIs ==
  ASSUME TypeOK
  PROVE  /\ sent \in Seq(Frames) /\ writing \in Seq(Frames) /\ Written \in Seq(Frames)
         /\ Len(sent) \in Nat
         /\ \A i \in 1 .. Len(sent) : i \in 1 .. Len(Written) /\ Written[i] = sent[i]
         /\ writing = <<>> => Written = sent
<1>1. sent \in Seq(Frames) /\ writing \in Seq(Frames)
  BY DEF TypeOK
<1>2. Len(sent) \in Nat /\ Len(writing) \in Nat
  BY <1>1
<1> QED BY <1>1, <1>2 DEF Written

\* No end was told as long as the blocks are open.
LEMMA NoEndYet ==
  ASSUME FramesInv, Converting, Going, ~down.finished
  PROVE  OfKind(Written, "end") = {}
BY DEF FramesInv, Shown, Blocks

\* A stream that returns leaves things in order, whatever it reports.
LEMMA ReturnKeeps ==
  ASSUME IInv, next # "returned",
         NEW category \in Categories, NEW wrote \in BOOLEAN, Return(category, wrote),
         sent # <<>> => wrote,
         category \in Failing \cup {"incomplete", "write", "slow"} => wrote,
         NeedsFrame(category) /\ Converting => OfKind(sent, "end") = {},
         ~pair.native /\ category \in {"ok", "incomplete"} =>
           Fine /\ chunks = <<>> /\ writing = <<>> /\ Concludes(pair.down, sent)
  PROVE  IInv'
<1> USE DEF IInv
<1>1. /\ next' = "returned" /\ chunks' = <<>> /\ writing' = <<>> /\ result' = category /\ started' = wrote
      /\ pair' = pair /\ answer' = answer /\ conv' = conv /\ down' = down /\ terminal' = terminal
      /\ gone' = gone /\ expired' = expired
  BY DEF Return
<1>2. /\ sent \in Seq(Frames) /\ writing \in Seq(Frames) /\ Written \in Seq(Frames) /\ Len(sent) \in Nat
      /\ \A i \in 1 .. Len(sent) : i \in 1 .. Len(Written) /\ Written[i] = sent[i]
  BY WrittenIs
<1>3. Error \in Frames /\ Error.kind = "error"
  BY PlainFrames
<1>4. sent' = sent \/ (NeedsFrame(category) /\ wrote /\ sent' = sent \o <<Error>>)
  <2>1. Append(sent, Error) = sent \o <<Error>>
    <3>1. \A s \in Seq(Frames), f \in Frames : Append(s, f) = s \o <<f>>
      OBVIOUS
    <3> QED BY <1>2, <1>3, <3>1
  <2> QED BY <2>1 DEF Return
<1>5. sent' \in Seq(Frames) /\ Written' = sent'
  <2>1. sent' \in Seq(Frames)
    BY <1>2, <1>3, <1>4, OneMore
  <2> QED BY <1>1, <2>1 DEF Written
<1>6. TypeOK'
  BY <1>1, <1>5 DEF TypeOK
<1>7. category # "none"
  BY DEF Categories, Failing
<1>8. ControlInv'
  <2>1. sent' # <<>> => wrote
    BY <1>4
  <2> QED BY <1>1, <1>7, <2>1 DEF ControlInv, Failing, Fine
<1>9. ConvInv' /\ ItemsInv' /\ NamedInv' /\ ChunkInv'
  <2>1. ~Fine' /\ ~Going'
    BY <1>1 DEF Fine, Going
  <2>2. ConvInv'
    BY <1>1, <2>1 DEF ConvInv
  <2>3. ItemsInv'
    BY <1>1, <2>1 DEF ItemsInv
  <2>4. NamedInv'
    BY <2>1 DEF NamedInv
  <2>5. ChunkInv'
    BY <1>1 DEF ChunkInv
  <2> QED BY <2>2, <2>3, <2>4, <2>5
<1>10. \A i \in 1 .. Len(sent') : \/ i \in 1 .. Len(Written) /\ sent'[i] = Written[i]
                                  \/ sent'[i].kind = "error"
  <2>1. CASE sent' = sent
    BY <1>2, <2>1
  <2>2. CASE sent' = sent \o <<Error>>
    <3>1. \A i \in 1 .. Len(sent') : i \in 1 .. Len(sent) \/ i = Len(sent) + 1
      BY <1>2, <2>2
    <3>2. /\ \A i \in 1 .. Len(sent) : sent'[i] = sent[i]
          /\ sent'[Len(sent) + 1] = Error
      BY <1>2, <1>3, <2>2, OneMore
    <3> QED BY <1>2, <1>3, <3>1, <3>2
  <2> QED BY <1>4, <2>1, <2>2
<1>11. TruthInv'
  <2>1. ~Fine' /\ next' # "read"
    BY <1>1 DEF Fine
  <2>2. Short' = Short
    BY <1>1 DEF Short
  <2>3. ASSUME ~pair.native, NEW i \in 1 .. Len(sent'), sent'[i].kind \in {"finish", "end"}
        PROVE  /\ terminal.complete /\ sent'[i].reason # "error"
               /\ Short => sent'[i].reason \in Cut \cup {"none"}
               /\ sent'[i].kind = "end" => ~terminal.failed
    <3>1. i \in 1 .. Len(Written) /\ sent'[i] = Written[i]
      BY <1>10, <2>3
    <3> QED BY <2>3, <3>1 DEF TruthInv
  <2> QED BY <1>1, <1>5, <2>1, <2>2, <2>3 DEF TruthInv
<1>12. FramesInv'
  <2> SUFFICES ASSUME Converting PROVE FramesInv'
    BY <1>1 DEF FramesInv, Converting
  <2>1. ~Going'
    BY <1>1 DEF Fine, Going
  <2>2. /\ Orderly(sent)
        /\ OfKind(sent, "end") \subseteq OfKind(Written, "end")
    <3>1. Orderly(sent \o writing)
      BY DEF FramesInv, Written
    <3> QED BY <1>2, <3>1, OrderlyPart DEF Written
  <2>3. Orderly(sent') /\ OfKind(sent', "end") = OfKind(sent, "end")
    <3>1. CASE sent' = sent
      BY <2>2, <3>1
    <3>2. CASE NeedsFrame(category) /\ sent' = sent \o <<Error>>
      <4>1. OfKind(sent, "end") = {}
        BY <3>2
      <4>2. Orderly(sent \o <<Error>>)
        BY <1>2, <1>3, <2>2, <4>1, OrderlyMore
      <4>3. OfKind(sent \o <<Error>>, "end") = OfKind(sent, "end")
        BY <1>2, <1>3, OneMore
      <4> QED BY <3>2, <4>2, <4>3
    <3> QED BY <1>4, <3>1, <3>2
  <2>4. pair.down = "responses" /\ OfKind(sent', "end") # {} =>
          \A k \in 1 .. Len(down.items) : down.items[k].named
    BY <2>2, <2>3 DEF FramesInv
  <2> QED BY <1>1, <1>5, <2>1, <2>3, <2>4 DEF FramesInv
<1>13. PiecesInv'
  <2> SUFFICES ASSUME ~pair.native, category \in {"ok", "incomplete"} PROVE PiecesInv'
    <3>1. ~Fine' /\ pair' = pair /\ result' = category
      BY <1>1 DEF Fine
    <3> QED BY <3>1 DEF PiecesInv
  <2>1. sent' = sent /\ Written = sent /\ chunks = <<>> /\ Fine
    <3>1. sent' = sent
      BY <1>4 DEF NeedsFrame
    <3> QED BY <3>1, WrittenIs
  <2>2. Written' = Written /\ chunks' = chunks
    BY <1>1, <1>5, <2>1
  <2>3. \A p \in Parts : Arrived(Written, p) + HeldBack(down.items, p) + Due(chunks, p) = answer.total[p]
    BY <2>1 DEF PiecesInv
  <2> QED BY <1>1, <2>1, <2>2, <2>3 DEF PiecesInv
<1> QED BY <1>6, <1>8, <1>9, <1>11, <1>12, <1>13

\* Nothing is disturbed when only the write is done, the timer fires or the client leaves.
LEMMA SameKeeps ==
  ASSUME IInv, TypeOK', ControlInv',
         UNCHANGED <<pair, answer, conv, down, terminal, chunks, next, result>>,
         Written' = Written, sent' = sent \/ result = "none"
  PROVE  IInv'
<1> USE DEF IInv
<1>1. /\ pair' = pair /\ answer' = answer /\ conv' = conv /\ down' = down /\ terminal' = terminal
      /\ chunks' = chunks /\ next' = next /\ result' = result /\ Written' = Written
  OBVIOUS
<1>2. (Fine' <=> Fine) /\ (Going' <=> Going) /\ (Short' <=> Short) /\ (Converting' <=> Converting)
  BY <1>1 DEF Fine, Going, Short, Converting
<1>3. ConvInv'
  <2>1. CallsInv' <=> CallsInv
    BY <1>1 DEF CallsInv
  <2> QED BY <1>1, <1>2, <2>1 DEF ConvInv
<1>4. ItemsInv'
  BY <1>1, <1>2 DEF ItemsInv
<1>5. NamedInv'
  BY <1>1, <1>2 DEF NamedInv
<1>6. ChunkInv'
  BY <1>1, <1>2 DEF ChunkInv
<1>7. TruthInv'
  BY <1>1, <1>2 DEF TruthInv
<1>8. FramesInv'
  BY <1>1, <1>2 DEF FramesInv
<1>9. PiecesInv'
  BY <1>1, <1>2 DEF PiecesInv
<1> QED BY <1>3, <1>4, <1>5, <1>6, <1>7, <1>8, <1>9

\* The timer fires, or the client leaves.
LEMMA WatcherKeeps ==
  ASSUME IInv, WatcherFires \/ Leave
  PROVE  IInv'
<1>1. /\ UNCHANGED <<pair, answer, conv, down, terminal, chunks, writing, next, sent, started, result>>
      /\ gone' \in BOOLEAN /\ expired' \in BOOLEAN
  BY DEF WatcherFires, Leave, IInv, TypeOK
<1>2. TypeOK'
  BY <1>1 DEF IInv, TypeOK
<1>3. ControlInv'
  BY <1>1 DEF IInv, ControlInv, Fine
<1>4. Written' = Written
  BY <1>1 DEF Written
<1> QED BY <1>1, <1>2, <1>3, <1>4, SameKeeps

\* Frames are written, or the write fails, or takes too long.
LEMMA WriteKeeps ==
  ASSUME IInv, Write
  PROVE  IInv'
<1>0. writing # <<>> /\ next # "returned"
  BY DEF Write, IInv, ControlInv
<1>1. CASE /\ started' = TRUE /\ sent' = sent \o writing /\ writing' = <<>>
           /\ UNCHANGED <<pair, answer, conv, down, terminal, chunks, next, gone, expired, result>>
  <2>1. sent \in Seq(Frames) /\ writing \in Seq(Frames) /\ sent \o writing \in Seq(Frames)
    BY DEF IInv, TypeOK
  <2>2. TypeOK'
    <3>1. sent' \in Seq(Frames) /\ writing' \in Seq(Frames) /\ started' \in BOOLEAN
      BY <1>1, <2>1
    <3> QED BY <1>1, <3>1 DEF IInv, TypeOK
  <2>3. ControlInv'
    BY <1>0, <1>1 DEF IInv, ControlInv, Fine
  <2>4. Written' = Written
    <3>1. (sent \o writing) \o <<>> = sent \o writing
      BY <2>1
    <3> QED BY <1>1, <3>1 DEF Written
  <2>5. result = "none"
    BY <1>0 DEF IInv, ControlInv
  <2> QED BY <1>1, <2>2, <2>3, <2>4, <2>5, SameKeeps
<1>2. CASE Return("write", TRUE)
  BY <1>0, <1>2, ReturnKeeps DEF Categories, NeedsFrame
<1>3. CASE Return("slow", TRUE)
  <2>1. Converting => OfKind(sent, "end") = {}
    <3> SUFFICES ASSUME Converting PROVE OfKind(sent, "end") = {}
      OBVIOUS
    <3>1. sent \in Seq(Frames) /\ writing \in Seq(Frames) /\ Orderly(sent \o writing)
      BY DEF IInv, TypeOK, FramesInv, Written
    <3> QED BY <1>0, <3>1, OrderlyPart
  <2> QED BY <1>0, <1>3, <2>1, ReturnKeeps DEF Categories, NeedsFrame
<1> QED BY <1>1, <1>2, <1>3 DEF Write

\* Nothing is written when the client is gone.
LEMMA CancelledKeeps ==
  ASSUME IInv, WriteCancelled
  PROVE  IInv'
<1>1. next # "returned" /\ started \in BOOLEAN /\ (sent # <<>> => started) /\ Return("cancelled", started)
  BY DEF WriteCancelled, IInv, ControlInv, TypeOK
<1> QED BY <1>1, ReturnKeeps DEF Categories, NeedsFrame, Failing

\* A stream that breaks off before its end has not told one.
LEMMA BreakKeeps ==
  ASSUME IInv, Reading, NEW category \in {"truncated", "idle", "cancelled"}, Return(category, started)
  PROVE  IInv'
<1>1. next = "read" /\ started \in BOOLEAN /\ (sent # <<>> => started)
  BY DEF Reading, IInv, ControlInv, TypeOK
<1>2. Converting => OfKind(sent, "end") = {}
  <2>1. \A i \in 1 .. Len(sent) : i \in 1 .. Len(Written) /\ Written[i] = sent[i]
    BY WrittenIs DEF IInv
  <2>2. ~pair.native => \A i \in 1 .. Len(Written) : Written[i].kind # "end"
    BY <1>1 DEF IInv, TruthInv
  <2> QED BY <2>1, <2>2 DEF OfKind, Converting
<1> QED BY <1>1, <1>2, ReturnKeeps DEF Categories, Failing

\* The reader reports the end of the body, or its closing.
LEMMA ReadKeeps ==
  ASSUME IInv, ReadFails \/ Oversized
  PROVE  IInv'
<1>1. Reading
  BY DEF ReadFails, Oversized
<1>2. CASE Return("truncated", started) \/ Return("idle", started) \/ Return("cancelled", started)
  BY <1>1, <1>2, BreakKeeps
<1>3. CASE /\ terminal.complete /\ next' = "finish"
           /\ UNCHANGED <<pair, answer, conv, down, terminal, chunks, writing, sent, started, gone, expired, result>>
  <2> USE DEF IInv
  <2>1. next = "read" /\ chunks = <<>> /\ writing = <<>>
    BY <1>1 DEF Reading, Idle
  <2>2. Written' = Written
    BY <1>3 DEF Written
  <2>3. (Short' <=> Short) /\ (Converting' <=> Converting) /\ Fine /\ Going /\ Fine' /\ Going'
    BY <1>3, <2>1 DEF Short, Converting, Fine, Going
  <2>4. TypeOK'
    BY <1>3 DEF TypeOK
  <2>5. ControlInv'
    BY <1>3, <2>1 DEF ControlInv, Fine, Failing
  <2>6. ConvInv'
    <3>1. pair.up # "responses"
      BY <1>3, <2>1 DEF ControlInv
    <3> QED BY <1>3, <2>1, <2>3, <3>1 DEF ConvInv
  <2>7. ItemsInv'
    BY <1>3, <2>1, <2>3 DEF ItemsInv
  <2>8. NamedInv'
    BY <1>3, <2>3 DEF NamedInv
  <2>9. ChunkInv'
    BY <1>3, <2>1 DEF ChunkInv
  <2>10. TruthInv'
    BY <1>3, <2>1, <2>2, <2>3 DEF TruthInv
  <2>11. FramesInv'
    BY <1>3, <2>2, <2>3 DEF FramesInv
  <2>12. PiecesInv'
    BY <1>3, <2>2, <2>3 DEF PiecesInv
  <2> QED BY <2>4, <2>5, <2>6, <2>7, <2>8, <2>9, <2>10, <2>11, <2>12
<1> QED BY <1>2, <1>3 DEF ReadFails, Oversized

\* The stream is over, and the client was told so or not.
LEMMA SettleKeeps ==
  ASSUME IInv, Settle
  PROVE  IInv'
<1>1. /\ next = "settle" /\ chunks = <<>> /\ writing = <<>> /\ Return(Settled, started)
      /\ started \in BOOLEAN /\ Fine /\ terminal.complete /\ (sent # <<>> => started)
  BY DEF Settle, Idle, IInv, TypeOK, Fine, ControlInv
<1>2. sent \in Seq(Frames) /\ (~Concludes(pair.down, sent) => OfKind(sent, "end") = {})
  BY DEF IInv, TypeOK, Concludes, Has, OfKind
<1>3. Concludes(pair.down, sent) => sent # <<>>
  BY <1>2 DEF Concludes, Has
<1>4. CASE ~pair.native /\ ~Concludes(pair.down, sent)
  <2>1. Settled = "unconverted"
    BY <1>4 DEF Settled
  <2>2. Return("unconverted", started) /\ next # "returned"
    BY <1>1, <2>1
  <2>3. OfKind(sent, "end") = {}
    BY <1>2, <1>4
  <2> QED BY <1>1, <2>2, <2>3, ReturnKeeps DEF Categories, Failing
<1>5. CASE pair.native \/ Concludes(pair.down, sent)
  <2>1. Settled \in {"ok", "incomplete"}
    BY <1>5 DEF Settled
  <2>2. started
    BY <1>1, <1>3, <1>5 DEF IInv, ControlInv
  <2>3. ~NeedsFrame(Settled)
    BY <2>1 DEF NeedsFrame
  <2>4. Settled \in Categories
    BY <2>1 DEF Categories
  <2>5. ~pair.native => Fine /\ chunks = <<>> /\ writing = <<>> /\ Concludes(pair.down, sent)
    BY <1>1, <1>5
  <2> QED
    <3> DEFINE category == Settled
    <3>1. category \in Categories /\ ~NeedsFrame(category) /\ Return(category, started)
      BY <1>1, <2>3, <2>4
    <3> HIDE DEF category
    <3>2. next # "returned"
      BY <1>1
    <3> QED BY <1>1, <2>2, <2>5, <3>1, <3>2, ReturnKeeps
<1> QED BY <1>4, <1>5

\* A failure is reported once the client was told.
LEMMA ReportKeeps ==
  ASSUME IInv, Report
  PROVE  IInv'
<1>1. /\ next \in Failing /\ next # "returned" /\ Return(next, started) /\ started \in BOOLEAN
      /\ started /\ next \in Categories /\ ~NeedsFrame(next) /\ next \notin {"ok", "incomplete"}
  BY DEF Report, Idle, IInv, TypeOK, ControlInv, Failing, Categories, NeedsFrame
<1>2. \A category \in Categories : category = next =>
        category \in Categories /\ ~NeedsFrame(category) /\ Return(category, started)
        /\ category \notin {"ok", "incomplete"}
  BY <1>1
<1> QED BY <1>1, <1>2, ReturnKeeps

\* What is in a sequence of frames that goes on.
LEMMA MoreIs ==
  ASSUME NEW w \in Seq(Frames), NEW s \in Seq(Frames)
  PROVE  \A i \in 1 .. Len(w \o s) :
           \/ i \in 1 .. Len(w) /\ (w \o s)[i] = w[i]
           \/ \E j \in 1 .. Len(s) : (w \o s)[i] = s[j]
<1> SUFFICES ASSUME NEW i \in 1 .. Len(w \o s)
             PROVE  \/ i \in 1 .. Len(w) /\ (w \o s)[i] = w[i]
                    \/ \E j \in 1 .. Len(s) : (w \o s)[i] = s[j]
  OBVIOUS
<1>1. Len(w \o s) = Len(w) + Len(s) /\ Len(w) \in Nat /\ Len(s) \in Nat
  OBVIOUS
<1>2. CASE i <= Len(w)
  BY <1>1, <1>2
<1>3. CASE i > Len(w)
  <2>1. i - Len(w) \in 1 .. Len(s) /\ (w \o s)[i] = s[i - Len(w)]
    BY <1>1, <1>3
  <2> QED BY <2>1
<1> QED BY <1>1, <1>2, <1>3

\* Frames after which the stream is given up: they tell of no end that was not told before.
Broken(frames) ==
  /\ frames \in Seq(Frames) /\ frames # <<>>
  /\ pair.native \/ \A i \in 1 .. Len(frames) : frames[i].kind \notin {"finish", "end"}
  /\ Converting => Orderly(Written \o frames) /\ OfKind(Written \o frames, "end") = {}

\* Every kind of failure is put into words at once, and leaves things in order.
LEMMA BrokenKeeps ==
  ASSUME IInv, TypeOK', writing = <<>>,
         NEW frames, Broken(frames), writing' = frames, next' \in Failing, chunks' = <<>>,
         pair.native => next' # "conversion",
         next # "returned", down'.reason # "error", pair.native \/ conv'.reason # "error",
         ItemsOk(pair.up, pair.down, down'.items),
         Short' => Short, terminal.complete => terminal'.complete,
         \A i \in 1 .. Len(sent) : sent[i].kind # "end" \/ pair.native \/ ~terminal'.failed,
         UNCHANGED <<pair, sent, started, gone, expired, result>>
  PROVE  IInv'
<1> USE DEF IInv
<1>1. /\ sent \in Seq(Frames) /\ Written = sent /\ frames \in Seq(Frames)
      /\ Written' = sent \o frames
  BY WrittenIs DEF Broken, Written
<1>2. ~Fine' /\ ~Going' /\ next' \notin {"returned", "read", "finish", "settle", "broken", "close"}
  BY DEF Fine, Going, Failing
<1>3. ControlInv'
  <2>1. frames # <<>>
    BY DEF Broken
  <2> QED BY <1>2, <2>1 DEF ControlInv
<1>4. ConvInv'
  BY <1>2 DEF ConvInv, Failing
<1>5. ItemsInv'
  BY <1>2 DEF ItemsInv
<1>6. NamedInv' /\ ChunkInv'
  <2>1. NamedInv'
    BY <1>2 DEF NamedInv
  <2>2. ChunkInv'
    BY DEF ChunkInv
  <2> QED BY <2>1, <2>2
<1>7. TruthInv'
  <2> SUFFICES ASSUME ~pair.native PROVE TruthInv'
    BY DEF TruthInv
  <2>1. ASSUME NEW i \in 1 .. Len(Written'), Written'[i].kind \in {"finish", "end"}
        PROVE  /\ terminal'.complete /\ Written'[i].reason # "error"
               /\ Short' => Written'[i].reason \in Cut \cup {"none"}
               /\ Written'[i].kind = "end" => ~terminal'.failed
    <3>1. i \in 1 .. Len(sent) /\ Written'[i] = sent[i]
      <4>1. \/ i \in 1 .. Len(sent) /\ (sent \o frames)[i] = sent[i]
            \/ \E j \in 1 .. Len(frames) : (sent \o frames)[i] = frames[j]
        BY <1>1, <2>1, MoreIs
      <4> QED BY <1>1, <2>1, <4>1 DEF Broken
    <3>2. /\ terminal.complete /\ Written[i].reason # "error"
          /\ Short => Written[i].reason \in Cut \cup {"none"}
      BY <1>1, <2>1, <3>1 DEF TruthInv
    <3> QED BY <1>1, <2>1, <3>1, <3>2
  <2> QED BY <1>2, <2>1 DEF TruthInv
<1>8. FramesInv'
  <2> SUFFICES ASSUME Converting PROVE FramesInv'
    BY DEF FramesInv, Converting
  <2>1. Orderly(Written') /\ OfKind(Written', "end") = {}
    BY <1>1 DEF Broken
  <2> QED BY <1>2, <2>1 DEF FramesInv
<1>9. PiecesInv'
  <2>1. result' = "none"
    BY DEF ControlInv
  <2> QED BY <1>2, <2>1 DEF PiecesInv
<1> QED BY <1>3, <1>4, <1>5, <1>6, <1>7, <1>8, <1>9

\* An error frame is such frames, while the blocks are open.
LEMMA ErrorIsBroken ==
  ASSUME TypeOK, FramesInv, Converting => OfKind(Written, "end") = {}
  PROVE  Broken(<<Error>>)
<1>1. Written \in Seq(Frames) /\ Error \in Frames /\ Error.kind = "error"
  BY WrittenIs, PlainFrames
<1>2. <<Error>> \in Seq(Frames) /\ <<Error>> # <<>> /\ \A i \in 1 .. Len(<<Error>>) : <<Error>>[i] = Error
  BY <1>1
<1>3. Converting => Orderly(Written \o <<Error>>) /\ OfKind(Written \o <<Error>>, "end") = {}
  <2> SUFFICES ASSUME Converting PROVE Orderly(Written \o <<Error>>) /\ OfKind(Written \o <<Error>>, "end") = {}
    OBVIOUS
  <2>1. Orderly(Written) /\ OfKind(Written, "end") = {}
    BY DEF FramesInv
  <2>2. Orderly(Written \o <<Error>>)
    BY <1>1, <2>1, OrderlyMore
  <2>3. OfKind(Written \o <<Error>>, "end") = OfKind(Written, "end")
    BY <1>1, OneMore
  <2> QED BY <2>1, <2>2, <2>3
<1> QED BY <1>1, <1>2, <1>3 DEF Broken

\* The client is told of chunks that failed.
LEMMA TellKeeps ==
  ASSUME IInv, TellBroken
  PROVE  IInv'
<1> USE DEF IInv
<1>1. /\ chunks = <<>> /\ writing = <<>> /\ next = "broken" /\ writing' = <<Error>> /\ next' = "conversion"
      /\ UNCHANGED <<pair, answer, conv, down, terminal, chunks, sent, started, gone, expired, result>>
  BY DEF TellBroken, Idle
<1>2. Going /\ ~down.finished /\ ~pair.native
  BY <1>1 DEF Going, ItemsInv, ControlInv
<1>3. Broken(<<Error>>)
  BY <1>2, ErrorIsBroken, NoEndYet
<1>4. TypeOK'
  <2>1. writing' \in Seq(Frames) /\ next' \in Failing
    BY <1>1, <1>3 DEF Broken, Failing
  <2> QED BY <1>1, <2>1 DEF TypeOK
<1>5. \A i \in 1 .. Len(sent) : sent[i].kind # "end" \/ pair.native \/ ~terminal'.failed
  <2>1. Written = sent
    BY <1>1, WrittenIs
  <2> QED BY <1>1, <2>1 DEF TruthInv
<1>6. (Short' <=> Short) /\ terminal' = terminal
  BY <1>1 DEF Short
<1>7. /\ down'.reason # "error" /\ ItemsOk(pair.up, pair.down, down'.items)
  BY <1>1 DEF ItemsInv
<1>8. conv'.reason # "error"
  BY <1>1, <1>2 DEF ConvInv
<1>9. next' \in Failing /\ next # "returned"
  BY <1>1 DEF Failing
<1> QED BY <1>1, <1>2, <1>3, <1>4, <1>5, <1>6, <1>7, <1>8, <1>9, BrokenKeeps

\* The upstream converter says how the answer ended.
LEMMA FinishKeeps ==
  ASSUME IInv, Finish
  PROVE  IInv'
<1> USE DEF IInv
<1>1. /\ chunks = <<>> /\ writing = <<>> /\ next = "finish"
      /\ UNCHANGED <<pair, answer, terminal, sent, started, gone, expired, result>>
  BY DEF Finish, Idle
<1>2. Fine /\ Going /\ ~down.finished /\ terminal.complete
  BY <1>1 DEF Fine, Going, ItemsInv, ControlInv
<1>3. (Short' <=> Short) /\ (Converting' <=> Converting)
  BY <1>1 DEF Short, Converting
<1>4. CASE pair.native
  <2>1. next' = "settle" /\ UNCHANGED <<conv, down, chunks, writing>>
    BY <1>4 DEF Finish
  <2>2. Fine' /\ Going' /\ Written' = Written
    BY <1>1, <2>1 DEF Fine, Going, Written
  <2>3. TypeOK'
    BY <1>1, <2>1 DEF TypeOK
  <2>4. ControlInv'
    BY <1>1, <1>2, <2>1, <2>2 DEF ControlInv, Failing
  <2>5. ConvInv' /\ TruthInv' /\ FramesInv' /\ PiecesInv'
    BY <1>1, <1>4 DEF ConvInv, TruthInv, FramesInv, PiecesInv, Converting
  <2>6. ItemsInv'
    BY <1>1, <1>2, <2>1 DEF ItemsInv
  <2>7. NamedInv'
    BY <1>1, <1>2, <2>1 DEF NamedInv
  <2>8. ChunkInv'
    BY <1>1, <2>1 DEF ChunkInv
  <2> QED BY <2>3, <2>4, <2>5, <2>6, <2>7, <2>8
<1>5. CASE ~pair.native
  <2> DEFINE r == UpFinish(pair.up, conv)
             out == r.out
  <2>1. conv' = r.state /\ chunks' = out /\ next' = (IF Fails(out) THEN "broken" ELSE "close")
        /\ down' = down /\ writing' = writing
    BY <1>5 DEF Finish, Convert
  <2>2. /\ conv \in Up /\ pair.up \in Protocols /\ ~conv.finished /\ ~conv.failed
        /\ (pair.up = "responses" => conv.terminal) /\ conv.reason # "error"
    BY <1>1, <1>5, StreamAssumption DEF TypeOK, ConvInv
  <2>3. /\ r.state \in Up /\ r.state.reason = conv.reason /\ r.state.count = conv.count
        /\ out \in Seq(Chunks) /\ ~Fails(out)
        /\ \A p \in Parts : Due(out, p) = 0
        /\ \A i \in 1 .. Len(out) : /\ out[i].kind \in {"role", "finish", "done"}
                                    /\ out[i].kind = "finish" => out[i].reason = conv.reason
        /\ pair.up = "openai" => out = <<>>
        /\ pair.up # "openai" => \E i \in 1 .. Len(out) : out[i].kind = "finish"
    BY <2>2, UpFinishIs
  <2> HIDE DEF r, out
  <2>4. next' = "close" /\ Fine' /\ Going' /\ Written' = Written
    BY <1>1, <2>1, <2>3 DEF Fine, Going, Written
  <2>5. TypeOK'
    BY <1>1, <2>1, <2>3, <2>4 DEF TypeOK
  <2>6. ControlInv'
    BY <1>1, <1>2, <1>5, <2>1, <2>4 DEF ControlInv, Failing
  <2>7. ConvInv'
    BY <1>1, <1>2, <1>5, <2>1, <2>3, <2>4 DEF ConvInv
  <2>8. ItemsInv'
    BY <1>1, <1>2, <2>1, <2>4 DEF ItemsInv
  <2>9. NamedInv'
    BY <1>1, <1>2, <2>1, <2>3, <2>4 DEF NamedInv
  <2>10. ChunkInv'
    <3>1. pair.up # "openai" /\ Short => conv.reason \in Cut
      BY <1>2, <1>5 DEF ConvInv, Short
    <3> QED BY <1>1, <1>2, <1>3, <2>1, <2>2, <2>3, <2>4, <3>1 DEF ChunkInv
  <2>11. TruthInv'
    <3>1. Short /\ pair.down # "openai" =>
            down.reason \in Cut \/ \E i \in 1 .. Len(out) : out[i].kind = "finish"
      BY <1>1, <1>2, <1>5, <2>3 DEF TruthInv
    <3> QED BY <1>1, <1>3, <1>5, <2>1, <2>4, <3>1 DEF TruthInv
  <2>12. FramesInv'
    BY <1>1, <1>2, <1>3, <2>1, <2>4 DEF FramesInv
  <2>13. PiecesInv'
    <3>1. \A p \in Parts : Due(<<>>, p) = 0
      BY DueAddsUp
    <3>2. \A p \in Parts : Due(chunks', p) = Due(chunks, p)
      BY <1>1, <2>1, <2>3, <3>1
    <3> QED BY <1>1, <1>2, <1>5, <2>1, <2>4, <3>2 DEF PiecesInv
  <2> QED BY <2>5, <2>6, <2>7, <2>8, <2>9, <2>10, <2>11, <2>12, <2>13
<1> QED BY <1>4, <1>5

\* The pairs of protocols are known, and none is converted to Gemini.
LEMMA PairIs ==
  ASSUME TypeOK
  PROVE  /\ pair.up \in Protocols /\ pair.down \in {"openai", "anthropic", "responses"}
         /\ pair.native \in BOOLEAN
BY StreamAssumption DEF TypeOK, Protocols

\* The downstream converter closes the blocks and tells the end, or fails.
LEMMA CloseKeeps ==
  ASSUME IInv, CloseDown
  PROVE  IInv'
<1> USE DEF IInv
<1> DEFINE s == DownFinish(pair.down, down)
           out == s.out
<1>1. /\ chunks = <<>> /\ writing = <<>> /\ next = "close"
      /\ down' = s.state /\ writing' = out /\ next' = IF Fails(out) THEN "conversion" ELSE "settle"
      /\ UNCHANGED <<pair, answer, conv, terminal, chunks, sent, started, gone, expired, result>>
  BY DEF CloseDown, Idle
<1>2. /\ Fine /\ Going /\ ~down.finished /\ ~down.failed /\ terminal.complete /\ ~terminal.failed
      /\ ~pair.native /\ down.reason # "error" /\ ItemsOk(pair.up, pair.down, down.items)
  BY <1>1 DEF Fine, Going, ItemsInv, ControlInv
<1>3. (Short' <=> Short) /\ (Converting' <=> Converting)
  BY <1>1 DEF Short, Converting
<1>4. down \in Down /\ pair.down \in {"openai", "anthropic", "responses"}
  BY PairIs DEF TypeOK
<1>5. Ending(pair.down, down, s)
  BY <1>2, <1>4, DownEnds
<1> HIDE DEF s
<1>6. /\ s.state \in Down /\ out \in Seq(Frames)
      /\ s.state.items = down.items /\ s.state.reason = down.reason
      /\ ~Fails(out) => ~s.state.failed
      /\ \A p \in Parts : Arrived(out, p) = 0
      /\ \A i \in 1 .. Len(out) :
           /\ out[i].kind # "finish"
           /\ out[i].kind = "end" =>
                /\ out[i].reason = down.reason /\ pair.down # "openai" /\ ~Fails(out)
                /\ pair.down = "responses" => \A k \in 1 .. Len(down.items) : down.items[k].named
      /\ s.state.finished \/ (s.state = down /\ out = <<>>)
  BY <1>5 DEF Ending
<1>7. /\ Written = sent /\ Written \in Seq(Frames) /\ Written' = Written \o out
  BY <1>1, WrittenIs DEF Written
<1>8. Converting => Shown(Written, pair.down, down.started, down.items) /\ Orderly(Written \o out)
  BY <1>2, <1>5, <1>7 DEF FramesInv, Converting, Ending
<1> HIDE DEF out
<1>9. TypeOK'
  BY <1>1, <1>6 DEF TypeOK, Failing
<1>10. Converting => OfKind(Written, "end") = {}
  BY <1>2, NoEndYet
<1>11. ASSUME Converting, NEW i \in OfKind(Written \o out, "end")
       PROVE  /\ ~Fails(out)
              /\ pair.down = "responses" => \A k \in 1 .. Len(down.items) : down.items[k].named
  <2>1. i \in 1 .. Len(Written \o out) /\ (Written \o out)[i].kind = "end"
    BY DEF OfKind
  <2>2. \/ i \in 1 .. Len(Written) /\ (Written \o out)[i] = Written[i]
        \/ \E j \in 1 .. Len(out) : (Written \o out)[i] = out[j]
    BY <1>6, <1>7, <2>1, MoreIs
  <2>3. i \notin 1 .. Len(Written) \/ Written[i].kind # "end"
    BY <1>10, <1>11 DEF OfKind
  <2> QED BY <1>6, <2>1, <2>2, <2>3
<1>12. CASE Fails(out)
  <2>1. Broken(out)
    <3>1. out # <<>>
      BY <1>12 DEF Fails
    <3>2. \A i \in 1 .. Len(out) : out[i].kind \notin {"finish", "end"}
      BY <1>6, <1>12
    <3>3. Converting => OfKind(Written \o out, "end") = {}
      BY <1>11, <1>12
    <3> QED BY <1>6, <1>8, <3>1, <3>2, <3>3 DEF Broken
  <2>2. next' \in Failing /\ next # "returned" /\ chunks' = <<>> /\ writing' = out
    BY <1>1, <1>12 DEF Failing
  <2>3. /\ down'.reason # "error" /\ ItemsOk(pair.up, pair.down, down'.items)
    BY <1>1, <1>2, <1>6
  <2>4. conv'.reason # "error"
    BY <1>1, <1>2 DEF ConvInv
  <2>5. /\ Short' => Short
        /\ terminal.complete => terminal'.complete
        /\ \A i \in 1 .. Len(sent) : sent[i].kind # "end" \/ pair.native \/ ~terminal'.failed
        /\ UNCHANGED <<pair, sent, started, gone, expired, result>>
        /\ pair.native => next' # "conversion"
    BY <1>1, <1>2, <1>3
  <2> QED BY <1>1, <1>9, <2>1, <2>2, <2>3, <2>4, <2>5, BrokenKeeps
<1>13. CASE ~Fails(out)
  <2>1. next' = "settle" /\ Fine' /\ Going'
    BY <1>1, <1>13 DEF Fine, Going
  <2>2. ControlInv'
    BY <1>1, <1>2, <2>1 DEF ControlInv, Failing
  <2>3. ConvInv'
    BY <1>1, <1>2, <2>1 DEF ConvInv
  <2>4. ItemsInv'
    BY <1>1, <1>2, <1>6, <1>13, <2>1 DEF ItemsInv
  <2>5. NamedInv'
    BY <1>1, <1>2, <1>6 DEF NamedInv
  <2>6. ChunkInv'
    BY <1>1 DEF ChunkInv
  <2>7. TruthInv'
    <3>1. pair.down # "openai" /\ Short => down.reason \in Cut
      BY <1>1, <1>2 DEF TruthInv
    <3>2. ASSUME NEW i \in 1 .. Len(Written'), Written'[i].kind \in {"finish", "end"}
          PROVE  Written'[i].reason # "error" /\ (Short => Written'[i].reason \in Cut \cup {"none"})
      <4>1. \/ i \in 1 .. Len(Written) /\ Written'[i] = Written[i]
            \/ \E j \in 1 .. Len(out) : Written'[i] = out[j]
        BY <1>6, <1>7, <3>2, MoreIs
      <4>2. CASE i \in 1 .. Len(Written) /\ Written'[i] = Written[i]
        BY <1>2, <3>2, <4>2 DEF TruthInv
      <4>3. CASE \E j \in 1 .. Len(out) : Written'[i] = out[j]
        BY <1>2, <1>6, <3>1, <3>2, <4>3
      <4> QED BY <4>1, <4>2, <4>3
    <3> QED BY <1>1, <1>2, <1>3, <1>6, <2>1, <3>1, <3>2 DEF TruthInv
  <2>8. FramesInv'
    <3> SUFFICES ASSUME Converting PROVE FramesInv'
      BY <1>3 DEF FramesInv
    <3>1. ~s.state.finished => Shown(Written', pair.down, s.state.started, s.state.items)
      <4>1. Written \o <<>> = Written
        BY <1>7
      <4> QED BY <1>6, <1>7, <1>8, <4>1
    <3> QED BY <1>1, <1>6, <1>7, <1>8, <1>11, <3>1 DEF FramesInv
  <2>9. PiecesInv'
    <3>1. \A p \in Parts : Arrived(Written', p) = Arrived(Written, p)
      <4> SUFFICES ASSUME NEW p \in Parts PROVE Arrived(Written', p) = Arrived(Written, p)
        OBVIOUS
      <4>1. Arrived(Written \o out, p) = Arrived(Written, p) + Arrived(out, p) /\ Arrived(Written, p) \in Nat
        BY <1>6, <1>7, ArrivedAddsUp
      <4> QED BY <1>6, <1>7, <4>1
    <3> QED BY <1>1, <1>2, <1>6, <2>1, <3>1 DEF PiecesInv, ControlInv
  <2> QED BY <1>9, <2>2, <2>3, <2>4, <2>5, <2>6, <2>7, <2>8, <2>9
<1> QED BY <1>12, <1>13

\* The first chunk and the others.
LEMMA TailIs ==
  ASSUME NEW cs \in Seq(Chunks), cs # <<>>
  PROVE  /\ Head(cs) \in Chunks /\ Head(cs) = cs[1] /\ 1 \in 1 .. Len(cs)
         /\ Tail(cs) \in Seq(Chunks)
         /\ \A i \in 1 .. Len(Tail(cs)) : i + 1 \in 1 .. Len(cs) /\ Tail(cs)[i] = cs[i + 1]
         /\ \A i \in 1 .. Len(cs) : i # 1 => i - 1 \in 1 .. Len(Tail(cs)) /\ Tail(cs)[i - 1] = cs[i]
         /\ \A p \in Parts : Due(cs, p) = DuePieces(Head(cs), p) + Due(Tail(cs), p)
<1>1. /\ Head(cs) \in Chunks /\ Head(cs) = cs[1] /\ Tail(cs) \in Seq(Chunks) /\ Len(cs) \in Nat /\ Len(cs) # 0
      /\ Len(Tail(cs)) = Len(cs) - 1
  OBVIOUS
<1>2. \A i \in 1 .. Len(Tail(cs)) : i + 1 \in 1 .. Len(cs) /\ Tail(cs)[i] = cs[i + 1]
  BY <1>1
<1>3. \A i \in 1 .. Len(cs) : i # 1 => i - 1 \in 1 .. Len(Tail(cs)) /\ Tail(cs)[i - 1] = cs[i]
  BY <1>1
<1>4. cs = <<Head(cs)>> \o Tail(cs)
  <2> DEFINE t == <<Head(cs)>> \o Tail(cs)
  <2>1. t \in Seq(Chunks) /\ Len(t) = Len(cs)
    BY <1>1
  <2>2. \A i \in 1 .. Len(cs) : t[i] = cs[i]
    <3> SUFFICES ASSUME NEW i \in 1 .. Len(cs) PROVE t[i] = cs[i]
      OBVIOUS
    <3>1. CASE i = 1
      BY <1>1, <3>1
    <3>2. CASE i # 1
      <4>1. t[i] = Tail(cs)[i - 1]
        BY <1>1, <3>2
      <4> QED BY <1>3, <3>2, <4>1
    <3> QED BY <3>1, <3>2
  <2> HIDE DEF t
  <2>3. t = cs
    BY <2>1, <2>2, SeqEqual
  <2> QED BY <2>3 DEF t
<1>5. ASSUME NEW p \in Parts PROVE Due(cs, p) = DuePieces(Head(cs), p) + Due(Tail(cs), p)
  <2>1. <<Head(cs)>> \in Seq(Chunks)
    BY <1>1
  <2>2. Due(<<Head(cs)>> \o Tail(cs), p) = Due(<<Head(cs)>>, p) + Due(Tail(cs), p)
    BY <1>1, <2>1, DueAddsUp
  <2>3. Due(<<Head(cs)>>, p) = DuePieces(Head(cs), p)
    BY <1>1, DueAddsUp
  <2> QED BY <1>4, <2>2, <2>3
<1> QED BY <1>1, <1>2, <1>3, <1>5

\* A reason to finish that is no failure, and the end, do not fail for OpenAI.
LEMMA OpenAIEnds ==
  ASSUME NEW c \in Chunks, NEW d, c.kind \in {"finish", "done"}, c.kind = "finish" => c.reason # "error"
  PROVE  ~Fails(ToOpenAI(d, c).out)
<1>1. CASE c.kind = "finish"
  <2>1. ToOpenAI(d, c).out = <<FinishFrame(c.reason)>>
    BY <1>1 DEF ToOpenAI, Step
  <2> QED BY <1>1, <2>1 DEF Fails, FinishFrame
<1>2. CASE c.kind = "done"
  <2>1. ToOpenAI(d, c).out = <<End("none")>>
    BY <1>2 DEF ToOpenAI, Step
  <2> QED BY <1>2, <2>1 DEF Fails, End
<1> QED BY <1>1, <1>2

\* One chunk is converted.
LEMMA ConvertKeeps ==
  ASSUME IInv, ConvertChunk
  PROVE  IInv'
<1> USE DEF IInv
<1> DEFINE c == Head(chunks)
           s == ToDownstream(pair.down, down, c)
           out == s.out
           rest == Tail(chunks)
<1>1. /\ chunks # <<>> /\ writing = <<>> /\ down' = s.state /\ writing' = out
      /\ IF Fails(out) THEN chunks' = <<>> /\ next' = "conversion" ELSE chunks' = rest /\ next' = next
      /\ UNCHANGED <<pair, answer, conv, terminal, sent, started, gone, expired, result>>
  BY DEF ConvertChunk
<1>2. /\ chunks \in Seq(Chunks)
      /\ c \in Chunks /\ c = chunks[1] /\ 1 \in 1 .. Len(chunks) /\ rest \in Seq(Chunks)
      /\ \A i \in 1 .. Len(rest) : i + 1 \in 1 .. Len(chunks) /\ rest[i] = chunks[i + 1]
      /\ \A i \in 1 .. Len(chunks) : i # 1 => i - 1 \in 1 .. Len(rest) /\ rest[i - 1] = chunks[i]
      /\ \A p \in Parts : Due(chunks, p) = DuePieces(c, p) + Due(rest, p)
  <2>1. chunks \in Seq(Chunks) /\ chunks # <<>>
    BY <1>1 DEF TypeOK
  <2> QED BY <2>1, TailIs
<1>3. /\ next \in {"read", "broken", "finish", "close"} /\ Going /\ ~pair.native /\ ~down.finished /\ ~down.failed
      /\ next # "returned" /\ next # "settle"
      /\ down.reason # "error" /\ ItemsOk(pair.up, pair.down, down.items)
  <2>1. next \in {"read", "broken", "finish", "close"} /\ ~pair.native
    BY <1>1 DEF ControlInv, TypeOK
  <2>2. Going
    BY <2>1 DEF Going, Fine
  <2> QED BY <2>1, <2>2 DEF ItemsInv
<1>4. down \in Down /\ pair.down \in {"openai", "anthropic", "responses"}
  BY PairIs DEF TypeOK
<1>5. /\ c.kind = "call" /\ pair.up = "openai" => c.index = c.tool
      /\ c.kind = "finish" =>
           /\ c.reason # "error" /\ terminal.complete
           /\ Short => c.reason \in Cut
      /\ c.kind = "done" => next \in {"finish", "close"}
      /\ c.kind = "error" <=> next = "broken"
  BY <1>2 DEF ChunkInv
<1>6. pair.down = "responses" /\ c.kind = "call" /\ pair.up # "openai" => c.named \/ Filed(down.items, c.index)
  <2> SUFFICES ASSUME pair.down = "responses", c.kind = "call", pair.up # "openai", ~c.named
               PROVE  Filed(down.items, c.index)
    OBVIOUS
  <2>1. Fine
    BY <1>3, <1>5 DEF Fine
  <2>2. \A j \in 1 .. 1 - 1 : FALSE
    OBVIOUS
  <2>3. \A i \in 1 .. Len(chunks) : chunks[i].kind = "call" /\ ~chunks[i].named =>
          Filed(down.items, chunks[i].index) \/ \E j \in 1 .. i - 1 : Names(chunks[j], chunks[i].index)
    BY <2>1 DEF NamedInv
  <2> QED BY <1>2, <2>2, <2>3
<1> HIDE DEF c, rest
<1>7. Conversion(pair.up, pair.down, down, c, s)
  BY <1>2, <1>3, <1>4, <1>5, <1>6, ChunkConverts
<1>8. pair.down = "openai" /\ c.kind \in {"finish", "done"} => ~Fails(out)
  <2>1. pair.down = "openai" => out = ToOpenAI(down, c).out
    BY DEF ToDownstream
  <2> HIDE DEF out
  <2> QED BY <1>2, <1>5, <2>1, OpenAIEnds
<1> HIDE DEF s
<1>9. /\ s.state \in Down /\ out \in Seq(Frames)
      /\ ItemsOk(pair.up, pair.down, s.state.items)
      /\ s.state.finished = down.finished /\ (~Fails(out) => s.state.failed = down.failed)
      /\ s.state.reason = IF c.kind = "finish" /\ pair.down # "openai" /\ ~Fails(out) THEN c.reason ELSE down.reason
      /\ \A x : Filed(down.items, x) \/ (pair.down = "responses" /\ c.kind = "call" /\ x = c.index) =>
           Filed(s.state.items, x)
      /\ \A i \in 1 .. Len(out) :
           /\ out[i].kind = "finish" => pair.down = "openai" /\ c.kind = "finish" /\ out[i].reason = c.reason
           /\ out[i].kind = "end" => pair.down = "openai" /\ c.kind = "done" /\ out[i].reason = "none"
  BY <1>7 DEF Conversion
<1>10. ~Fails(out) => \A p \in Parts :
         Arrived(out, p) + HeldBack(s.state.items, p) = HeldBack(down.items, p) + DuePieces(c, p)
  BY <1>7 DEF Conversion
<1>11. Written = sent /\ Written \in Seq(Frames) /\ Written' = Written \o out
  BY <1>1, WrittenIs DEF Written
<1>12. Converting =>
         /\ Orderly(Written \o out) /\ OfKind(Written \o out, "end") = {}
         /\ ~Fails(out) => Shown(Written \o out, pair.down, s.state.started, s.state.items)
  <2> SUFFICES ASSUME Converting
               PROVE  /\ Orderly(Written \o out) /\ OfKind(Written \o out, "end") = {}
                      /\ ~Fails(out) => Shown(Written \o out, pair.down, s.state.started, s.state.items)
    OBVIOUS
  <2>1. Shown(Written, pair.down, down.started, down.items) /\ pair.down # "openai"
    BY <1>3 DEF FramesInv, Converting
  <2> QED BY <1>7, <1>11, <2>1 DEF Conversion
<1> HIDE DEF out
<1>13. (Short' <=> Short) /\ (Converting' <=> Converting)
  BY <1>1 DEF Short, Converting
<1>14. TypeOK'
  <2>1. chunks' \in Seq(Chunks)
    <3>1. chunks' = <<>> \/ chunks' = rest
      BY <1>1
    <3>2. <<>> \in Seq(Chunks)
      OBVIOUS
    <3> QED BY <1>2, <3>1, <3>2
  <2>2. next' = next \/ next' \in Failing
    BY <1>1 DEF Failing
  <2> QED BY <1>1, <1>9, <2>1, <2>2 DEF TypeOK
<1>15. CASE Fails(out)
  <2>1. Broken(out)
    <3>1. out # <<>>
      BY <1>15 DEF Fails
    <3>2. \A i \in 1 .. Len(out) : out[i].kind \notin {"finish", "end"}
      BY <1>8, <1>9, <1>15
    <3> QED BY <1>9, <1>12, <3>1, <3>2 DEF Broken
  <2>2. next' \in Failing /\ chunks' = <<>> /\ writing' = out
    BY <1>1, <1>15 DEF Failing
  <2>3. /\ down'.reason # "error" /\ ItemsOk(pair.up, pair.down, down'.items)
    BY <1>1, <1>3, <1>9, <1>15
  <2>4. conv'.reason # "error"
    BY <1>1, <1>3 DEF ConvInv
  <2>5. \A i \in 1 .. Len(sent) : sent[i].kind # "end" \/ pair.native \/ ~terminal'.failed
    BY <1>1, <1>11 DEF TruthInv
  <2>6. /\ Short' => Short
        /\ terminal.complete => terminal'.complete
        /\ UNCHANGED <<pair, sent, started, gone, expired, result>>
        /\ pair.native => next' # "conversion"
    BY <1>1, <1>3, <1>13
  <2> QED BY <1>1, <1>3, <1>14, <2>1, <2>2, <2>3, <2>4, <2>5, <2>6, BrokenKeeps
<1>16. CASE ~Fails(out)
  <2>1. chunks' = rest /\ next' = next /\ (Fine' <=> Fine) /\ Going'
    BY <1>1, <1>3, <1>16 DEF Fine, Going
  <2>2. ControlInv'
    BY <1>1, <1>3, <2>1 DEF ControlInv, Failing
  <2>3. ConvInv'
    <3>1. CallsInv' <=> CallsInv
      BY <1>1 DEF CallsInv
    <3> QED BY <1>1, <2>1, <3>1 DEF ConvInv
  <2>4. ItemsInv'
    BY <1>1, <1>3, <1>5, <1>9, <1>16, <2>1 DEF ItemsInv
  <2>5. NamedInv'
    <3> SUFFICES ASSUME Fine, pair.down = "responses", pair.up # "openai" PROVE NamedInv'
      BY <1>1, <2>1 DEF NamedInv
    <3>1. \A x : Names(c, x) => Filed(s.state.items, x)
      BY <1>9 DEF Names
    <3>2. ASSUME NEW k \in 0 .. conv.count - 1
          PROVE  Filed(s.state.items, k) \/ \E j \in 1 .. Len(rest) : Names(rest[j], k)
      <4>1. Filed(down.items, k) \/ \E j \in 1 .. Len(chunks) : Names(chunks[j], k)
        BY DEF NamedInv
      <4>2. CASE Filed(down.items, k)
        BY <1>9, <4>2
      <4>3. ASSUME NEW j \in 1 .. Len(chunks), Names(chunks[j], k)
            PROVE  Filed(s.state.items, k) \/ \E i \in 1 .. Len(rest) : Names(rest[i], k)
        <5>1. CASE j = 1
          BY <1>2, <3>1, <4>3, <5>1
        <5>2. CASE j # 1
          <6>1. j - 1 \in 1 .. Len(rest) /\ rest[j - 1] = chunks[j]
            BY <1>2, <5>2
          <6> QED BY <4>3, <6>1
        <5> QED BY <5>1, <5>2
      <4> QED BY <4>1, <4>2, <4>3
    <3>3. ASSUME NEW i \in 1 .. Len(rest), rest[i].kind = "call", ~rest[i].named
          PROVE  Filed(s.state.items, rest[i].index) \/ \E j \in 1 .. i - 1 : Names(rest[j], rest[i].index)
      <4> DEFINE k == rest[i].index
      <4>1. i + 1 \in 1 .. Len(chunks) /\ rest[i] = chunks[i + 1]
        BY <1>2
      <4>2. \A n \in 1 .. Len(chunks) : chunks[n].kind = "call" /\ ~chunks[n].named =>
              Filed(down.items, chunks[n].index) \/ \E j \in 1 .. n - 1 : Names(chunks[j], chunks[n].index)
        BY DEF NamedInv
      <4>3. Filed(down.items, k) \/ \E j \in 1 .. (i + 1) - 1 : Names(chunks[j], k)
        BY <3>3, <4>1, <4>2
      <4> HIDE DEF k
      <4>4. CASE Filed(down.items, k)
        <5>1. Filed(s.state.items, k)
          BY <1>9, <4>4
        <5> QED BY <5>1 DEF k
      <4>5. ASSUME NEW j \in 1 .. (i + 1) - 1, Names(chunks[j], k)
            PROVE  Filed(s.state.items, k) \/ \E n \in 1 .. i - 1 : Names(rest[n], k)
        <5>1. CASE j = 1
          BY <1>2, <3>1, <4>5, <5>1
        <5>2. CASE j # 1
          <6>1. j \in 1 .. Len(chunks) /\ j - 1 \in 1 .. i - 1
            BY <4>1, <5>2
          <6>2. rest[j - 1] = chunks[j]
            BY <1>2, <5>2, <6>1
          <6> QED BY <4>5, <6>1, <6>2
        <5> QED BY <5>1, <5>2
      <4> QED BY <4>3, <4>4, <4>5 DEF k
    <3> QED BY <1>1, <2>1, <3>2, <3>3 DEF NamedInv
  <2>6. ChunkInv'
    <3> SUFFICES ASSUME NEW i \in 1 .. Len(rest)
                 PROVE  /\ rest[i].kind = "call" /\ pair.up = "openai" => rest[i].index = rest[i].tool
                        /\ rest[i].kind = "finish" =>
                             /\ rest[i].reason # "error" /\ terminal.complete
                             /\ Short => rest[i].reason \in Cut
                             /\ next = "close" \/ (next = "read" /\ pair.up = "openai")
                        /\ rest[i].kind = "done" => next \in {"finish", "close"}
                        /\ rest[i].kind = "error" <=> next = "broken"
      BY <1>1, <1>13, <2>1 DEF ChunkInv
    <3>1. i + 1 \in 1 .. Len(chunks) /\ rest[i] = chunks[i + 1]
      BY <1>2
    <3> QED BY <3>1 DEF ChunkInv
  <2>7. TruthInv'
    <3>1. ASSUME NEW i \in 1 .. Len(Written'), Written'[i].kind \in {"finish", "end"}
          PROVE  /\ terminal.complete /\ Written'[i].reason # "error"
                 /\ Short => Written'[i].reason \in Cut \cup {"none"}
                 /\ Written'[i].kind = "end" => ~terminal.failed /\ next # "read"
      <4>1. \/ i \in 1 .. Len(Written) /\ Written'[i] = Written[i]
            \/ \E j \in 1 .. Len(out) : Written'[i] = out[j]
        BY <1>9, <1>11, <3>1, MoreIs
      <4>2. CASE i \in 1 .. Len(Written) /\ Written'[i] = Written[i]
        BY <1>3, <3>1, <4>2 DEF TruthInv
      <4>3. ASSUME NEW j \in 1 .. Len(out), Written'[i] = out[j]
            PROVE  /\ terminal.complete /\ Written'[i].reason # "error"
                   /\ Short => Written'[i].reason \in Cut \cup {"none"}
                   /\ Written'[i].kind = "end" => ~terminal.failed /\ next # "read"
        <5>1. CASE out[j].kind = "finish"
          BY <1>5, <1>9, <4>3, <5>1
        <5>2. CASE out[j].kind = "end"
          <6>1. next \in {"finish", "close"} /\ out[j].reason = "none"
            BY <1>5, <1>9, <5>2
          <6>2. terminal.complete /\ ~terminal.failed
            BY <6>1 DEF ControlInv, Fine
          <6> QED BY <4>3, <5>2, <6>1, <6>2
        <5> QED BY <3>1, <4>3, <5>1, <5>2
      <4> QED BY <4>1, <4>2, <4>3
    <3>2. ASSUME Fine, pair.down # "openai", Short
          PROVE  \/ s.state.reason \in Cut
                 \/ \E i \in 1 .. Len(rest) : rest[i].kind = "finish"
                 \/ pair.up # "openai" /\ next = "finish"
      <4>1. c.kind = "finish" => s.state.reason \in Cut
        BY <1>5, <1>9, <1>16, <3>2
      <4>2. c.kind # "finish" => s.state.reason = down.reason
        BY <1>9
      <4>3. ASSUME NEW i \in 1 .. Len(chunks), chunks[i].kind = "finish", c.kind # "finish"
            PROVE  \E n \in 1 .. Len(rest) : rest[n].kind = "finish"
        <5>1. i - 1 \in 1 .. Len(rest) /\ rest[i - 1] = chunks[i]
          BY <1>2, <4>3
        <5> QED BY <4>3, <5>1
      <4> QED BY <1>3, <3>2, <4>1, <4>2, <4>3 DEF TruthInv
    <3> QED BY <1>1, <1>13, <2>1, <3>1, <3>2 DEF TruthInv
  <2>8. FramesInv'
    BY <1>1, <1>11, <1>12, <1>13, <1>16, <2>1 DEF FramesInv
  <2>9. PiecesInv'
    <3> SUFFICES ASSUME Fine PROVE PiecesInv'
      BY <1>1, <1>3, <2>1 DEF PiecesInv, ControlInv
    <3>1. ASSUME NEW p \in Parts
          PROVE  Arrived(Written', p) + HeldBack(s.state.items, p) + Due(rest, p) = answer.total[p]
      <4>1. Arrived(Written', p) = Arrived(Written, p) + Arrived(out, p)
        BY <1>9, <1>11, ArrivedAddsUp
      <4>2. Arrived(out, p) + HeldBack(s.state.items, p) = HeldBack(down.items, p) + DuePieces(c, p)
        BY <1>10, <1>16
      <4>3. Due(chunks, p) = DuePieces(c, p) + Due(rest, p)
        BY <1>2
      <4>4. Arrived(Written, p) + HeldBack(down.items, p) + Due(chunks, p) = answer.total[p]
        BY <1>3 DEF PiecesInv
      <4>5. /\ Arrived(Written, p) \in Nat /\ Arrived(out, p) \in Nat
            /\ DuePieces(c, p) \in Nat /\ Due(rest, p) \in Nat
        BY <1>2, <1>9, <1>11, ArrivedAddsUp, DueAddsUp
      <4>6. HeldBack(s.state.items, p) \in Nat /\ HeldBack(down.items, p) \in Nat
        <5>1. s.state.items \in Seq(Items) /\ down.items \in Seq(Items)
          BY <1>4, <1>9, DownsAre
        <5> QED BY <1>3, <1>9, <5>1, HeldBackIs DEF ItemsOk
      <4> QED BY <4>1, <4>2, <4>3, <4>4, <4>5, <4>6
    <3> QED BY <1>1, <1>3, <2>1, <3>1 DEF PiecesInv, ControlInv
  <2> QED BY <1>14, <2>2, <2>3, <2>4, <2>5, <2>6, <2>7, <2>8, <2>9
<1> QED BY <1>15, <1>16
-----------------------------------------------------------------------------
(* An event is received *)

\* Where things stand while the loop reads.
LEMMA ReadingIs ==
  ASSUME IInv, Reading
  PROVE  /\ next = "read" /\ chunks = <<>> /\ writing = <<>> /\ Written = sent /\ result = "none"
         /\ Fine /\ Going /\ ~down.finished /\ ~down.failed /\ ~terminal.failed
         /\ answer \in Said /\ conv \in Up /\ terminal \in Terminals /\ pair.up \in Protocols
         /\ ~pair.native => Hears(pair.up, answer, conv) /\ conv.reason # "error"
         /\ ~pair.native => \A i \in 1 .. Len(sent) : sent[i].kind # "end"
<1> USE DEF IInv
<1>1. next = "read" /\ chunks = <<>> /\ writing = <<>>
  BY DEF Reading, Idle
<1>2. Fine /\ Going
  BY <1>1 DEF Fine, Going
<1>3. ~down.finished /\ ~down.failed /\ ~terminal.failed /\ result = "none"
  BY <1>1, <1>2 DEF ItemsInv, ControlInv
<1>4. answer \in Said /\ conv \in Up /\ pair.up \in Protocols
  BY PairIs DEF TypeOK
<1>5. terminal \in Terminals
  BY DEF TypeOK, Terminals
<1>6. ~pair.native => Hears(pair.up, answer, conv) /\ conv.reason # "error"
  BY <1>1 DEF ConvInv, CallsInv, Hears, CallsAs, Untold
<1>7. Written = sent
  BY <1>1, WrittenIs
<1>8. ~pair.native => \A i \in 1 .. Len(sent) : sent[i].kind # "end"
  BY <1>1, <1>7 DEF TruthInv
<1> QED BY <1>1, <1>2, <1>3, <1>4, <1>5, <1>6, <1>7, <1>8

\* An event is heard: the answer and what the stream is known to have come to.
Heard(e) ==
  /\ e \in Middle(pair.up, answer) \cup Endings(pair.up, answer)
  /\ answer' = Saying(pair.up, answer, e)
  /\ terminal' = Observe(pair.up, terminal, e)
  /\ UNCHANGED <<pair, sent, started, gone, expired, result>>

\* An event that is heard leaves the answer and the terminal events well typed,
\* as Observed and Concluding say.
LEMMA HeardIs ==
  ASSUME IInv, Reading, NEW e, Heard(e)
  PROVE  /\ answer' \in Said /\ terminal' \in Terminals
         /\ Observed(pair.up, terminal, e, terminal')
         /\ e \in Middle(pair.up, answer) =>
              e.kind \notin {"error", "end", "finish"} /\ answer'.finished = answer.finished
         /\ e \in Endings(pair.up, answer) =>
              /\ Concluding(pair.up, answer, e)
              /\ answer'.finished = (answer.finished \/ e.kind = "finish") /\ answer'.calls = answer.calls
<1>1. /\ answer \in Said /\ terminal \in Terminals /\ pair.up \in Protocols
      /\ e \in Middle(pair.up, answer) \cup Endings(pair.up, answer)
      /\ answer' = Saying(pair.up, answer, e) /\ terminal' = Observe(pair.up, terminal, e)
  BY ReadingIs DEF Heard
<1>2. Observed(pair.up, terminal, e, terminal')
  BY <1>1, ObserveIs
<1>3. terminal' \in Terminals
  BY <1>2 DEF Observed
<1>4. ASSUME e \in Middle(pair.up, answer)
      PROVE  answer' \in Said /\ e.kind \notin {"error", "end", "finish"} /\ answer'.finished = answer.finished
  <2>1. Heeded(pair.up, answer, e)
    BY <1>1, <1>4, MiddleIs
  <2>2. e.kind \notin {"error", "end", "finish"}
    BY <2>1 DEF Heeded
  <2>3. answer' \in Said /\ answer'.finished = answer.finished
    BY <1>1, <1>4, SayingMiddle
  <2> QED BY <2>2, <2>3
<1>5. ASSUME e \in Endings(pair.up, answer)
      PROVE  /\ answer' \in Said /\ Concluding(pair.up, answer, e)
             /\ answer'.finished = (answer.finished \/ e.kind = "finish") /\ answer'.calls = answer.calls
  <2>1. Concluding(pair.up, answer, e)
    BY <1>1, <1>5, EndingsAre
  <2>2. answer' \in Said /\ answer'.finished = (answer.finished \/ e.kind = "finish") /\ answer'.calls = answer.calls
    BY <1>1, <1>5, SayingEnding
  <2> QED BY <2>1, <2>2
<1> QED BY <1>1, <1>2, <1>3, <1>4, <1>5

\* The loop reads on only if the stream may go on, and finishes only if it came to an end.
LEMMA ReadsOn ==
  ASSUME IInv, Reading, NEW e, Heard(e), ~terminal'.failed
  PROVE  /\ terminal'.stopNow => terminal'.complete
         /\ ~terminal'.stopNow =>
              /\ terminal'.complete => pair.up = "openai" /\ answer'.finished
              /\ terminal'.incomplete => terminal'.complete
              /\ terminal'.length => pair.up \in {"openai", "anthropic"} /\ answer'.finished
<1>1. /\ terminal.complete => pair.up = "openai" /\ answer.finished
      /\ terminal.incomplete => terminal.complete
      /\ terminal.length => pair.up \in {"openai", "anthropic"} /\ answer.finished
  BY ReadingIs DEF IInv, ControlInv
<1>2. Observed(pair.up, terminal, e, terminal')
  BY HeardIs
<1>3. terminal'.stopNow => terminal'.complete
  BY <1>2 DEF Observed
<1>4. CASE e \in Middle(pair.up, answer)
  <2>1. e.kind \notin {"error", "end", "finish"} /\ answer'.finished = answer.finished
    BY <1>4, HeardIs
  <2> QED BY <1>1, <1>2, <1>3, <2>1 DEF Observed
<1>5. CASE e \in Endings(pair.up, answer)
  <2> SUFFICES ASSUME ~terminal'.stopNow
               PROVE  /\ terminal'.complete => pair.up = "openai" /\ answer'.finished
                      /\ terminal'.incomplete => terminal'.complete
                      /\ terminal'.length => pair.up \in {"openai", "anthropic"} /\ answer'.finished
    BY <1>3
  <2>1. Concluding(pair.up, answer, e) /\ answer'.finished = (answer.finished \/ e.kind = "finish")
    BY <1>5, HeardIs
  <2>2. e.kind # "error" /\ e.kind # "end"
    BY <1>2 DEF Observed
  <2>3. e.kind = "finish" /\ pair.up \in {"openai", "anthropic", "gemini"} /\ answer'.finished
    BY <2>1, <2>2 DEF Concluding
  <2> QED BY <1>1, <1>2, <2>3 DEF Observed
<1>6. e \in Middle(pair.up, answer) \cup Endings(pair.up, answer)
  BY DEF Heard
<1> QED BY <1>4, <1>5, <1>6

\* A failure is passed on.
LEMMA FailedKeeps ==
  ASSUME IInv, Reading, NEW e, Heard(e), terminal'.failed,
         writing' = <<IF pair.native THEN Raw(e) ELSE Error>>, next' \in {"failed", "request"},
         UNCHANGED <<conv, down, chunks>>
  PROVE  IInv'
<1> USE DEF IInv
<1> DEFINE frame == IF pair.native THEN Raw(e) ELSE Error
<1>1. /\ next = "read" /\ chunks = <<>> /\ writing = <<>> /\ Written = sent /\ Going /\ ~down.finished
      /\ ~terminal.failed
      /\ ~pair.native => conv.reason # "error" /\ \A i \in 1 .. Len(sent) : sent[i].kind # "end"
  BY ReadingIs
<1>2. answer' \in Said /\ terminal' \in Terminals /\ Observed(pair.up, terminal, e, terminal')
  BY HeardIs
<1>3. UNCHANGED <<pair, sent, started, gone, expired, result>>
  BY DEF Heard
<1>4. Broken(<<frame>>)
  <2>1. CASE pair.native
    <3>1. Raw(e) \in Frames
      <4>1. e.kind = "finish" => e.reason \in Reasons
        <5>1. e \in Endings(pair.up, answer) /\ e.kind = "finish" => e.reason \in Reasons
          <6>1. e \in Endings(pair.up, answer) => Concluding(pair.up, answer, e)
            BY HeardIs
          <6> QED BY <6>1 DEF Concluding
        <5>2. e \in Middle(pair.up, answer) => e.kind # "finish"
          BY HeardIs
        <5> QED BY <5>1, <5>2 DEF Heard
      <4> QED BY <4>1 DEF Raw, Frames, Error, FinishFrame, End
    <3>2. <<Raw(e)>> \in Seq(Frames) /\ <<Raw(e)>> # <<>>
      BY <3>1
    <3> QED BY <2>1, <3>2 DEF Broken, Converting
  <2>2. CASE ~pair.native
    <3>1. Broken(<<Error>>)
      BY <1>1, ErrorIsBroken, NoEndYet
    <3> QED BY <2>2, <3>1
  <2> QED BY <2>1, <2>2
<1>5. writing' = <<frame>>
  OBVIOUS
<1> HIDE DEF frame
<1>6. TypeOK'
  <2>1. writing' \in Seq(Frames) /\ terminal' \in [{"complete", "incomplete", "failed", "stopNow", "length"} -> BOOLEAN]
    BY <1>2, <1>4, <1>5 DEF Broken, Terminals
  <2> QED BY <1>2, <1>3, <2>1 DEF TypeOK, Failing
<1>7. Short' => Short
  <2>1. pair' = pair
    BY <1>3
  <2> QED BY <1>1, <1>2, <2>1 DEF Short, Observed
<1>8. terminal.complete => terminal'.complete
  BY <1>2 DEF Observed
<1>9. next' \in Failing /\ next # "returned" /\ chunks' = <<>> /\ next' # "conversion"
  BY <1>1 DEF Failing
<1>10. down'.reason # "error" /\ ItemsOk(pair.up, pair.down, down'.items)
  BY DEF ItemsInv
<1>11. pair.native \/ conv'.reason # "error"
  BY <1>1
<1>12. \A i \in 1 .. Len(sent) : sent[i].kind # "end" \/ pair.native \/ ~terminal'.failed
  BY <1>1
<1> QED BY <1>1, <1>3, <1>4, <1>5, <1>6, <1>7, <1>8, <1>9, <1>10, <1>11, <1>12, BrokenKeeps

\* A native stream is passed on as it is.
LEMMA NativeKeeps ==
  ASSUME IInv, Reading, NEW e, Heard(e), ~terminal'.failed, pair.native,
         writing' = <<Raw(e)>>, next' = IF terminal'.stopNow THEN "finish" ELSE "read",
         UNCHANGED <<conv, down, chunks>>
  PROVE  IInv'
<1> USE DEF IInv
<1>1. /\ next = "read" /\ chunks = <<>> /\ writing = <<>> /\ Going /\ ~down.finished /\ ~down.failed
      /\ result = "none" /\ Fine
  BY ReadingIs
<1>2. answer' \in Said /\ terminal' \in Terminals
  BY HeardIs
<1>3. UNCHANGED <<pair, sent, started, gone, expired, result>>
  BY DEF Heard
<1>4. Raw(e) \in Frames
  <2>1. e \in Endings(pair.up, answer) /\ e.kind = "finish" => e.reason \in Reasons
    <3>1. e \in Endings(pair.up, answer) => Concluding(pair.up, answer, e)
      BY HeardIs
    <3> QED BY <3>1 DEF Concluding
  <2>2. e \in Middle(pair.up, answer) => e.kind # "finish"
    BY HeardIs
  <2>3. e.kind = "finish" => e.reason \in Reasons
    BY <2>1, <2>2 DEF Heard
  <2> QED BY <2>3 DEF Raw, Frames, Error, FinishFrame, End
<1>5. Fine' /\ Going' /\ next' \in {"read", "finish"}
  BY DEF Fine, Going
<1>6. TypeOK'
  <2>1. writing' \in Seq(Frames) /\ terminal' \in [{"complete", "incomplete", "failed", "stopNow", "length"} -> BOOLEAN]
    BY <1>2, <1>4 DEF Terminals
  <2> QED BY <1>2, <1>3, <1>5, <2>1 DEF TypeOK
<1>7. ControlInv'
  <2>1. /\ terminal'.stopNow => terminal'.complete
        /\ ~terminal'.stopNow =>
             /\ terminal'.complete => pair.up = "openai" /\ answer'.finished
             /\ terminal'.incomplete => terminal'.complete
             /\ terminal'.length => pair.up \in {"openai", "anthropic"} /\ answer'.finished
    BY ReadsOn
  <2>2. writing' # <<>>
    OBVIOUS
  <2> QED BY <1>1, <1>3, <1>5, <2>1, <2>2 DEF ControlInv, Failing
<1>8. ConvInv' /\ TruthInv' /\ FramesInv' /\ PiecesInv'
  BY <1>3 DEF ConvInv, TruthInv, FramesInv, PiecesInv, Converting
<1>9. ItemsInv'
  BY <1>1, <1>3 DEF ItemsInv
<1>10. NamedInv'
  BY <1>1, <1>3 DEF NamedInv
<1>11. ChunkInv'
  BY <1>1 DEF ChunkInv
<1> QED BY <1>6, <1>7, <1>8, <1>9, <1>10, <1>11

\* What is heard is converted, and none of the chunks fails.
LEMMA HearKeeps ==
  ASSUME IInv, Reading, NEW e, Heard(e), ~terminal'.failed, ~pair.native,
         next' = IF terminal'.stopNow THEN "finish" ELSE "read",
         conv' \in Up, chunks' \in Seq(Chunks), ConvInv', NamedInv', ChunkInv', TruthInv',
         \A p \in Parts : answer'.total[p] = answer.total[p] + Due(chunks', p),
         UNCHANGED <<down, writing>>
  PROVE  IInv'
<1> USE DEF IInv
<1>1. /\ next = "read" /\ chunks = <<>> /\ writing = <<>> /\ Going /\ ~down.finished /\ ~down.failed
      /\ result = "none" /\ Fine /\ answer \in Said
  BY ReadingIs
<1>2. answer' \in Said /\ terminal' \in Terminals
  BY HeardIs
<1>3. UNCHANGED <<pair, sent, started, gone, expired, result>>
  BY DEF Heard
<1>4. Fine' /\ Going' /\ next' \in {"read", "finish"}
  BY DEF Fine, Going
<1>5. TypeOK'
  <2>1. terminal' \in [{"complete", "incomplete", "failed", "stopNow", "length"} -> BOOLEAN]
    BY <1>2 DEF Terminals
  <2> QED BY <1>2, <1>3, <1>4, <2>1 DEF TypeOK
<1>6. ControlInv'
  <2>1. /\ terminal'.stopNow => terminal'.complete
        /\ ~terminal'.stopNow =>
             /\ terminal'.complete => pair.up = "openai" /\ answer'.finished
             /\ terminal'.incomplete => terminal'.complete
             /\ terminal'.length => pair.up \in {"openai", "anthropic"} /\ answer'.finished
    BY ReadsOn
  <2> QED BY <1>1, <1>3, <1>4, <2>1 DEF ControlInv, Failing
<1>7. ItemsInv'
  BY <1>1, <1>3 DEF ItemsInv
<1>8. Written' = Written /\ (Converting' <=> Converting)
  BY <1>3 DEF Written, Converting
<1>9. FramesInv'
  BY <1>1, <1>3, <1>4, <1>8 DEF FramesInv
<1>10. PiecesInv'
  <2>1. ASSUME NEW p \in Parts
        PROVE  Arrived(Written, p) + HeldBack(down.items, p) + Due(chunks', p) = answer'.total[p]
    <3>1. Arrived(Written, p) + HeldBack(down.items, p) + Due(chunks, p) = answer.total[p]
      BY <1>1 DEF PiecesInv
    <3>2. Due(chunks, p) = 0 /\ Due(chunks', p) \in Nat /\ Arrived(Written, p) \in Nat
      BY <1>1, WrittenIs, ArrivedAddsUp, DueAddsUp
    <3>3. HeldBack(down.items, p) \in Nat
      <4>1. down.items \in Seq(Items) /\ ItemsOk(pair.up, pair.down, down.items)
        BY DownsAre DEF TypeOK, ItemsInv
      <4> QED BY <4>1, HeldBackIs DEF ItemsOk
    <3>4. answer'.total[p] = answer.total[p] + Due(chunks', p)
      OBVIOUS
    <3> QED BY <3>1, <3>2, <3>3, <3>4
  <2> QED BY <1>1, <1>3, <1>8, <2>1 DEF PiecesInv
<1> QED BY <1>5, <1>6, <1>7, <1>9, <1>10

\* Chunks of an answer that goes on name every call before a piece of it comes.
LEMMA TellsKeeps ==
  ASSUME IInv, Reading, NEW part, NEW size, Tells(pair.up, conv.count, conv'.count, chunks', part, size),
         next' \in {"read", "finish"}, UNCHANGED <<pair, down>>
  PROVE  NamedInv' /\ ChunkInv' /\ ~Fails(chunks')
<1>1. /\ chunks = <<>> /\ Fine /\ conv \in Up
  BY ReadingIs
<1>2. conv.count \in Nat
  BY <1>1, UpsAre
<1> DEFINE out == chunks'
           n == conv.count
           m == conv'.count
<1>3. /\ \A i \in 1 .. Len(out) : out[i].kind \in {"role", "text", "call"}
      /\ pair.up = "openai" => \A i \in 1 .. Len(out) : out[i].kind = "call" => out[i].index = out[i].tool
      /\ pair.up # "openai" =>
           /\ \A k \in n .. m - 1 : \E j \in 1 .. Len(out) : Names(out[j], k)
           /\ \A i \in 1 .. Len(out) : out[i].kind = "call" /\ ~out[i].named =>
                out[i].index \in 0 .. n - 1 \/ \E j \in 1 .. i - 1 : Names(out[j], out[i].index)
  BY DEF Tells
<1>4. NamedInv'
  <2> SUFFICES ASSUME pair.down = "responses", pair.up # "openai" PROVE NamedInv'
    BY DEF NamedInv
  <2>1. \A k \in 0 .. n - 1 : Filed(down.items, k)
    BY <1>1 DEF IInv, NamedInv
  <2>2. ASSUME NEW k \in 0 .. m - 1
        PROVE  Filed(down.items, k) \/ \E j \in 1 .. Len(out) : Names(out[j], k)
    <3>1. CASE k < n
      BY <1>2, <2>1, <3>1
    <3>2. CASE ~(k < n)
      <4>1. k \in n .. m - 1
        BY <1>2, <3>2
      <4> QED BY <1>3, <4>1
    <3> QED BY <3>1, <3>2
  <2>3. ASSUME NEW i \in 1 .. Len(out), out[i].kind = "call", ~out[i].named
        PROVE  Filed(down.items, out[i].index) \/ \E j \in 1 .. i - 1 : Names(out[j], out[i].index)
    BY <1>3, <2>1, <2>3
  <2> QED BY <2>2, <2>3 DEF NamedInv
<1>5. ChunkInv'
  BY <1>3 DEF ChunkInv
<1>6. ~Fails(out)
  BY <1>3 DEF Fails
<1> QED BY <1>4, <1>5, <1>6

\* What was written before is still true.
LEMMA TruthKeeps ==
  ASSUME IInv, Reading, NEW e, Heard(e), ~terminal'.failed, ~pair.native, UNCHANGED <<down, writing>>,
         Short' => Short \/ ~terminal.complete,
         Fine' /\ pair.down # "openai" /\ Short' =>
           \/ down.reason \in Cut
           \/ \E i \in 1 .. Len(chunks') : chunks'[i].kind = "finish"
           \/ pair.up # "openai" /\ next' = "finish"
  PROVE  TruthInv'
<1>1. /\ pair' = pair /\ Written' = Written /\ Written = sent
      /\ \A i \in 1 .. Len(sent) : sent[i].kind # "end"
      /\ terminal.complete => terminal'.complete
  BY ReadingIs, HeardIs DEF Heard, Written, Observed
<1>2. ASSUME NEW i \in 1 .. Len(Written), Written[i].kind \in {"finish", "end"}
      PROVE  /\ terminal'.complete /\ Written[i].reason # "error"
             /\ Short' => Written[i].reason \in Cut \cup {"none"}
             /\ Written[i].kind # "end"
  <2>1. /\ terminal.complete /\ Written[i].reason # "error"
        /\ Short => Written[i].reason \in Cut \cup {"none"}
    BY <1>2 DEF IInv, TruthInv
  <2> QED BY <1>1, <2>1
<1> QED BY <1>1, <1>2 DEF TruthInv

\* An event in the middle of an answer is converted.
LEMMA MiddleKeeps ==
  ASSUME IInv, Reading, NEW e, Heard(e), e \in Middle(pair.up, answer), ~terminal'.failed, ~pair.native,
         NEW s, s = FromUpstream(pair.up, conv, e),
         Convert(s.state, s.out, IF terminal'.stopNow THEN "finish" ELSE "read")
  PROVE  IInv'
<1> USE DEF IInv
<1>1. /\ next = "read" /\ chunks = <<>> /\ writing = <<>> /\ Written = sent /\ Going /\ Fine
      /\ ~down.finished /\ ~down.failed /\ result = "none"
      /\ Hears(pair.up, answer, conv) /\ conv.reason # "error" /\ ~terminal.failed
      /\ answer \in Said /\ conv \in Up /\ pair.up \in Protocols
      /\ \A i \in 1 .. Len(sent) : sent[i].kind # "end"
  BY ReadingIs
<1>2. Passes(pair.up, answer, e, conv, s)
  BY <1>1, UpstreamPasses
<1>3. /\ conv' = s.state /\ chunks' = s.out /\ UNCHANGED <<down, writing>>
      /\ next' = IF Fails(s.out) THEN "broken" ELSE IF terminal'.stopNow THEN "finish" ELSE "read"
  BY DEF Convert
<1>4. /\ UNCHANGED <<pair, sent, started, gone, expired, result>>
      /\ answer' = Saying(pair.up, answer, e)
  BY DEF Heard
<1>5. /\ answer' \in Said /\ terminal' \in Terminals /\ answer'.finished = answer.finished
      /\ ~terminal'.stopNow /\ terminal'.complete = terminal.complete
      /\ terminal'.incomplete = terminal.incomplete /\ terminal'.length = terminal.length
  <2>1. /\ answer' \in Said /\ terminal' \in Terminals /\ answer'.finished = answer.finished
        /\ e.kind \notin {"error", "end", "finish"} /\ Observed(pair.up, terminal, e, terminal')
    BY HeardIs
  <2> QED BY <2>1 DEF Observed
<1>6. Short' <=> Short
  BY <1>4, <1>5 DEF Short
<1>7. Short /\ pair.down # "openai" => down.reason \in Cut
  BY <1>1 DEF TruthInv
<1>8. TruthInv'
  BY <1>3, <1>6, <1>7, TruthKeeps
<1>9. s.state \in Up /\ s.state.reason = conv.reason
  BY <1>2 DEF Passes
<1>10. CASE s.out = <<Failure>>
  <2>1. Failure \in Chunks /\ Failure.kind = "error"
    BY PlainChunks
  <2>2. chunks' \in Seq(Chunks) /\ Len(chunks') = 1 /\ chunks'[1] = Failure
    BY <1>3, <1>10, <2>1
  <2>3. next' = "broken"
    BY <1>3, <2>1, <2>2 DEF Fails
  <2>4. ~Fine' /\ Going'
    BY <2>3 DEF Fine, Going
  <2>5. TypeOK'
    <3>1. terminal' \in [{"complete", "incomplete", "failed", "stopNow", "length"} -> BOOLEAN]
      BY <1>5 DEF Terminals
    <3> QED BY <1>3, <1>4, <1>5, <1>9, <2>2, <2>3, <3>1 DEF TypeOK
  <2>6. ControlInv'
    BY <1>1, <1>4, <2>3, <2>4 DEF ControlInv, Failing
  <2>7. ConvInv'
    BY <1>1, <1>3, <1>9, <2>3, <2>4 DEF ConvInv
  <2>8. ItemsInv'
    BY <1>1, <1>3, <1>4 DEF ItemsInv
  <2>9. NamedInv'
    BY <2>4 DEF NamedInv
  <2>10. ChunkInv'
    BY <2>1, <2>2, <2>3 DEF ChunkInv
  <2>11. FramesInv'
    <3>1. Written' = Written /\ (Converting' <=> Converting)
      BY <1>3, <1>4 DEF Written, Converting
    <3> QED BY <1>1, <1>3, <1>4, <3>1 DEF FramesInv
  <2>12. PiecesInv'
    BY <1>1, <1>4, <2>4 DEF PiecesInv
  <2> QED BY <1>8, <2>5, <2>6, <2>7, <2>8, <2>9, <2>10, <2>11, <2>12
<1>11. CASE s.out # <<Failure>>
  <2> DEFINE size == Adding(pair.up, answer, e)
             part == To(e)
  <2>1. /\ Hears(pair.up, answer', conv')
        /\ Tells(pair.up, conv.count, conv'.count, chunks', part, size)
    BY <1>2, <1>3, <1>4, <1>11 DEF Passes
  <2>2. /\ \A p \in Parts : answer'.total[p] = answer.total[p] + IF p = part THEN size ELSE 0
    BY <1>1, <1>4, SayingMiddle
  <2> HIDE DEF part, size
  <2>3. /\ chunks' \in Seq(Chunks) /\ \A p \in Parts : Due(chunks', p) = IF p = part THEN size ELSE 0
    BY <2>1 DEF Tells
  <2>4. ~Fails(chunks') /\ (next' \in {"read", "finish"} => NamedInv' /\ ChunkInv')
    <3>1. ~Fails(chunks')
      BY <2>1 DEF Tells, Fails
    <3> QED BY <1>3, <1>4, <2>1, <3>1, TellsKeeps
  <2>5. next' = "read" /\ next' = IF terminal'.stopNow THEN "finish" ELSE "read"
    BY <1>3, <1>5, <2>4
  <2>6. ConvInv'
    <3>1. CallsInv'
      BY <1>4, <2>1 DEF CallsInv, Hears, CallsAs
    <3>2. Fine'
      BY <2>5 DEF Fine
    <3> QED BY <1>1, <1>3, <1>4, <1>5, <1>9, <2>1, <2>5, <3>1, <3>2 DEF ConvInv, Hears, Untold
  <2> QED BY <1>3, <1>8, <1>9, <2>2, <2>3, <2>4, <2>5, <2>6, HearKeeps
<1> QED BY <1>10, <1>11

\* The last event of an OpenAI answer, or its reason to finish.
LEMMA OpenAILastKeeps ==
  ASSUME IInv, Reading, NEW e, Heard(e), e \in Endings(pair.up, answer), ~terminal'.failed, ~pair.native,
         pair.up = "openai", NEW s, s = FromUpstream(pair.up, conv, e),
         Convert(s.state, s.out, IF terminal'.stopNow THEN "finish" ELSE "read")
  PROVE  IInv'
<1> USE DEF IInv
<1>1. /\ next = "read" /\ chunks = <<>> /\ writing = <<>> /\ Fine
      /\ Hears(pair.up, answer, conv) /\ conv.reason # "error" /\ ~terminal.failed
      /\ answer \in Said /\ conv \in Up /\ terminal \in Terminals
  BY ReadingIs
<1>2. /\ conv' = s.state /\ chunks' = s.out /\ UNCHANGED <<down, writing>>
      /\ next' = IF Fails(s.out) THEN "broken" ELSE IF terminal'.stopNow THEN "finish" ELSE "read"
  BY DEF Convert
<1>3. /\ UNCHANGED <<pair, sent, started, gone, expired, result>>
      /\ answer' = Saying("openai", answer, e) /\ e \in Endings("openai", answer)
  BY DEF Heard
<1>4. Observed("openai", terminal, e, terminal') /\ terminal' \in Terminals /\ Concluding("openai", answer, e)
  BY HeardIs
<1>5. Untold(answer') /\ \A p \in Parts : answer'.total[p] = answer.total[p]
  BY <1>1, <1>3, UntoldEnds DEF Hears
<1>6. e.kind # "error"
  BY <1>4 DEF Observed
<1>7. s = FromOpenAI(conv, e)
  BY DEF FromUpstream
<1>8. s.state = conv
  BY <1>7 DEF FromOpenAI, Step
<1>9. Short /\ pair.down # "openai" => down.reason \in Cut
  BY <1>1 DEF TruthInv
<1>10. terminal.complete \/ terminal.incomplete \/ terminal.length => answer.finished
  BY <1>1 DEF ControlInv
<1>11. ASSUME NEW c, c \in Chunks, s.out = <<c>>, c.kind \in {"finish", "done"}, \A p : DuePieces(c, p) = 0,
              c.kind = "finish" => c.reason # "error" /\ ~terminal'.stopNow /\ terminal'.complete
                                   /\ (Short' => c.reason \in Cut),
              c.kind = "done" => terminal'.stopNow,
              Short' => c.kind = "finish" \/ Short, c.kind = "finish" => ~terminal.complete
       PROVE  IInv'
  <2>1. chunks' \in Seq(Chunks) /\ Len(chunks') = 1 /\ chunks'[1] = c /\ chunks' = <<c>>
    <3>1. chunks' = <<c>>
      BY <1>2, <1>11
    <3>2. <<c>> \in Seq(Chunks) /\ Len(<<c>>) = 1 /\ <<c>>[1] = c
      BY <1>11
    <3> QED BY <3>1, <3>2
  <2>2. ~Fails(s.out)
    BY <1>2, <1>11, <2>1 DEF Fails
  <2>3. next' = (IF terminal'.stopNow THEN "finish" ELSE "read") /\ next' \in {"read", "finish"}
    BY <1>2, <2>2
  <2>4. TruthInv'
    <3>1. Short' => Short \/ ~terminal.complete
      BY <1>11
    <3>2. Fine' /\ pair.down # "openai" /\ Short' =>
           \/ down.reason \in Cut
           \/ \E i \in 1 .. Len(chunks') : chunks'[i].kind = "finish"
           \/ pair.up # "openai" /\ next' = "finish"
      <4>1. c.kind = "finish" => \E i \in 1 .. Len(chunks') : chunks'[i].kind = "finish"
        BY <2>1
      <4> QED BY <1>9, <1>11, <4>1
    <3> QED BY <1>2, <3>1, <3>2, TruthKeeps
  <2>5. ConvInv'
    <3>1. CallsInv'
      BY <1>3 DEF CallsInv
    <3> QED BY <1>1, <1>2, <1>3, <1>5, <1>8, <2>3, <3>1 DEF ConvInv, Hears, Untold
  <2>6. NamedInv'
    BY <1>3 DEF NamedInv
  <2>7. ChunkInv'
    BY <1>3, <1>11, <2>1, <2>3 DEF ChunkInv
  <2>8. \A p \in Parts : answer'.total[p] = answer.total[p] + Due(chunks', p)
    <3> SUFFICES ASSUME NEW p \in Parts PROVE answer'.total[p] = answer.total[p] + Due(chunks', p)
      OBVIOUS
    <3>1. Due(chunks', p) = 0
      BY <1>11, <2>1, DueAddsUp
    <3>2. answer.total[p] \in Nat
      BY <1>1, SaidIs
    <3> QED BY <1>5, <3>1, <3>2
  <2>9. conv' \in Up
    BY <1>1, <1>2, <1>8
  <2> QED BY <1>2, <2>1, <2>3, <2>4, <2>5, <2>6, <2>7, <2>8, <2>9, HearKeeps
<1>12. CASE e.kind = "end"
  <2>1. s.out = <<Done>>
    BY <1>7, <1>12 DEF FromOpenAI, Step
  <2>2. Done \in Chunks /\ Done.kind = "done" /\ \A p : DuePieces(Done, p) = 0
    BY PlainChunks
  <2>3. terminal'.stopNow /\ terminal'.incomplete = terminal.length /\ terminal'.length = terminal.length
    BY <1>4, <1>12 DEF Observed
  <2>4. Short' => Short
    BY <1>3, <2>3 DEF Short
  <2> QED BY <1>11, <2>1, <2>2, <2>3, <2>4
<1>13. CASE e.kind = "finish"
  <2> DEFINE c == FinishChunk(e.reason)
  <2>1. s.out = <<c>>
    BY <1>7, <1>13 DEF FromOpenAI, Step
  <2>2. e.reason \in Reasons /\ ~answer.finished
    BY <1>4, <1>13 DEF Concluding
  <2>3. e.reason # "error"
    BY <1>4, <1>13 DEF Observed
  <2>4. /\ ~terminal'.stopNow /\ terminal'.complete
        /\ terminal'.length = (terminal.length \/ e.reason \in Cut) /\ terminal'.incomplete = terminal'.length
    BY <1>4, <1>13, <2>3 DEF Observed
  <2>5. c \in Chunks /\ c.kind = "finish" /\ c.reason = e.reason /\ \A p : DuePieces(c, p) = 0
    BY <2>2, PlainChunks
  <2>6. Short' => e.reason \in Cut
    BY <1>10, <2>2, <2>4 DEF Short
  <2>7. ~terminal.complete
    BY <1>10, <2>2
  <2> HIDE DEF c
  <2> QED BY <1>11, <2>1, <2>3, <2>4, <2>5, <2>6, <2>7
<1> QED BY <1>4, <1>6, <1>12, <1>13 DEF Concluding

\* The last events of the other protocols.
LEMMA OtherLastKeeps ==
  ASSUME IInv, Reading, NEW e, Heard(e), e \in Endings(pair.up, answer), ~terminal'.failed, ~pair.native,
         pair.up # "openai", NEW s, NEW part, NEW size, LastPasses(pair.up, answer, e, conv, s, part, size),
         Convert(s.state, s.out, IF terminal'.stopNow THEN "finish" ELSE "read")
  PROVE  IInv'
<1> USE DEF IInv
<1>1. /\ next = "read" /\ chunks = <<>> /\ writing = <<>> /\ Fine
      /\ Hears(pair.up, answer, conv) /\ conv.reason # "error" /\ ~terminal.failed
      /\ answer \in Said /\ conv \in Up /\ terminal \in Terminals /\ pair.up \in Protocols
  BY ReadingIs
<1>2. /\ conv' = s.state /\ chunks' = s.out /\ UNCHANGED <<down, writing>>
      /\ next' = IF Fails(s.out) THEN "broken" ELSE IF terminal'.stopNow THEN "finish" ELSE "read"
  BY DEF Convert
<1>3. /\ UNCHANGED <<pair, sent, started, gone, expired, result>>
      /\ answer' = Saying(pair.up, answer, e)
  BY DEF Heard
<1>4. /\ Observed(pair.up, terminal, e, terminal') /\ terminal' \in Terminals
      /\ Concluding(pair.up, answer, e) /\ answer'.calls = answer.calls
  BY HeardIs
<1>5. /\ s.state \in Up /\ ~s.state.finished /\ ~s.state.failed
      /\ pair.up # "responses" => ~s.state.terminal /\ s.state.count = conv.count
      /\ pair.up = "responses" => s.state.terminal /\ s.state.reason = IF e.reason \in Cut THEN "length" ELSE "stop"
      /\ pair.up # "responses" => s.state.reason = IF e.kind = "finish" THEN e.reason ELSE conv.reason
      /\ part \in Parts /\ size \in Nat
      /\ Tells(pair.up, conv.count, s.state.count, s.out, part, size)
      /\ \A p \in Parts : answer'.total[p] = answer.total[p] + IF p = part THEN size ELSE 0
  BY <1>3 DEF LastPasses
<1>6. e.kind # "error"
  BY <1>4 DEF Observed
<1>7. ~terminal.complete /\ ~terminal.incomplete
      /\ (terminal.length => pair.up = "anthropic" /\ answer.finished)
  BY <1>1 DEF ControlInv
<1>8. ~Fails(s.out) /\ s.out \in Seq(Chunks) /\ \A p \in Parts : Due(s.out, p) = IF p = part THEN size ELSE 0
  BY <1>5 DEF Tells, Fails
<1>9. next' = (IF terminal'.stopNow THEN "finish" ELSE "read") /\ next' \in {"read", "finish"} /\ Fine'
  BY <1>2, <1>8 DEF Fine
<1>10. NamedInv' /\ ChunkInv'
  BY <1>2, <1>3, <1>5, <1>9, TellsKeeps
<1>11. next' = "read" => pair.up = "anthropic" /\ e.kind = "finish"
  BY <1>1, <1>4, <1>6, <1>9 DEF Concluding, Observed
<1>12. TruthInv'
  <2>1. Short' => Short \/ ~terminal.complete
    BY <1>7
  <2>2. Short' => next' = "finish"
    <3>1. next' = "read" => ~terminal'.incomplete
      BY <1>4, <1>7, <1>11 DEF Observed
    <3> QED BY <1>3, <1>9, <3>1 DEF Short
  <2> QED BY <1>2, <2>1, <2>2, TruthKeeps
<1>13. ConvInv'
  <2>1. s.state.reason # "error"
    <3>1. CASE pair.up = "responses"
      BY <1>5, <3>1
    <3>2. CASE pair.up # "responses" /\ e.kind = "finish"
      <4>1. e.reason # "error"
        BY <1>1, <1>4, <3>2 DEF Concluding, Observed
      <4> QED BY <1>5, <3>2, <4>1
    <3>3. CASE pair.up # "responses" /\ e.kind # "finish"
      BY <1>1, <1>5, <3>3
    <3> QED BY <3>1, <3>2, <3>3
  <2>2. ASSUME terminal'.incomplete \/ terminal'.length PROVE s.state.reason \in Cut
    <3>1. CASE pair.up = "responses"
      <4>1. e.kind = "end"
        BY <1>4, <1>6, <3>1 DEF Concluding
      <4>2. e.reason \in Cut
        BY <1>4, <1>7, <2>2, <3>1, <4>1 DEF Observed
      <4> QED BY <1>5, <3>1, <4>2 DEF Cut
    <3>2. CASE pair.up = "gemini"
      <4>1. e.kind = "finish"
        BY <1>4, <1>6, <3>2 DEF Concluding
      <4>2. e.reason \in Cut
        BY <1>4, <1>7, <2>2, <3>2, <4>1 DEF Observed
      <4> QED BY <1>5, <3>2, <4>1, <4>2
    <3>3. CASE pair.up = "anthropic" /\ e.kind = "finish"
      <4>1. ~answer.finished
        BY <1>4, <3>3 DEF Concluding
      <4>2. e.reason = "length"
        BY <1>4, <1>7, <2>2, <3>3, <4>1 DEF Observed
      <4> QED BY <1>5, <3>3, <4>2 DEF Cut
    <3>4. CASE pair.up = "anthropic" /\ e.kind # "finish"
      <4>1. e.kind = "end"
        BY <1>4, <1>6, <3>4 DEF Concluding
      <4>2. terminal.length
        BY <1>4, <2>2, <3>4, <4>1 DEF Observed
      <4>3. conv.reason \in Cut
        BY <1>1, <4>2, <3>4 DEF ConvInv
      <4> QED BY <1>5, <3>4, <4>3
    <3> QED BY <1>1, <3>1, <3>2, <3>3, <3>4 DEF Protocols
  <2>3. next' = "read" => CallsInv' /\ Untold(answer')
    <3> SUFFICES ASSUME next' = "read" PROVE CallsInv' /\ Untold(answer')
      OBVIOUS
    <3>1. pair.up = "anthropic"
      BY <1>11
    <3>2. Untold(answer')
      BY <1>1, <1>3, <3>1, UntoldEnds DEF Hears
    <3>3. conv'.count = answer'.calls
      BY <1>1, <1>2, <1>4, <1>5, <3>1 DEF Hears, CallsAs
    <3>4. CallsInv'
      BY <1>3, <3>1, <3>3 DEF CallsInv
    <3> QED BY <3>2, <3>4
  <2> QED BY <1>2, <1>3, <1>5, <1>9, <1>11, <2>1, <2>2, <2>3 DEF ConvInv, Untold
<1> QED BY <1>2, <1>5, <1>8, <1>9, <1>10, <1>12, <1>13, HearKeeps

\* The last events of any protocol.
LEMMA LastKeeps ==
  ASSUME IInv, Reading, NEW e, Heard(e), e \in Endings(pair.up, answer), ~terminal'.failed, ~pair.native,
         NEW s, s = FromUpstream(pair.up, conv, e),
         Convert(s.state, s.out, IF terminal'.stopNow THEN "finish" ELSE "read")
  PROVE  IInv'
<1>1. /\ Hears(pair.up, answer, conv) /\ answer \in Said /\ conv \in Up /\ pair.up \in Protocols
  BY ReadingIs
<1>2. e.kind # "error"
  BY HeardIs DEF Observed
<1>3. CASE pair.up = "openai"
  BY <1>3, OpenAILastKeeps
<1>4. CASE pair.up = "anthropic"
  <2>1. LastPasses(pair.up, answer, e, conv, s, TheText, 0)
    BY <1>1, <1>2, <1>4, AnthropicLast DEF FromUpstream
  <2> QED BY <1>4, <2>1, OtherLastKeeps
<1>5. CASE pair.up = "gemini"
  <2> DEFINE size == IF e.text THEN 1 ELSE 0
  <2>1. LastPasses(pair.up, answer, e, conv, s, TheText, size)
    BY <1>1, <1>2, <1>5, GeminiLast DEF FromUpstream
  <2> HIDE DEF size
  <2> QED BY <1>5, <2>1, OtherLastKeeps
<1>6. CASE pair.up = "responses"
  <2>1. \E part, size : LastPasses(pair.up, answer, e, conv, s, part, size)
    BY <1>1, <1>2, <1>6, ResponsesLast DEF FromUpstream
  <2>2. PICK part, size : LastPasses(pair.up, answer, e, conv, s, part, size)
    BY <2>1
  <2> QED BY <1>6, <2>2, OtherLastKeeps
<1> QED BY <1>1, <1>3, <1>4, <1>5, <1>6 DEF Protocols

\* An event is received.
LEMMA ReceiveKeeps ==
  ASSUME IInv, Receive
  PROVE  IInv'
<1>1. PICK e : Heard(e) /\ PassesOn(e, terminal')
  BY DEF Receive, Heard
<1>2. Reading
  BY DEF Receive
<1>3. CASE terminal'.failed
  <2>1. /\ writing' = <<IF pair.native THEN Raw(e) ELSE Error>> /\ next' \in {"failed", "request"}
        /\ UNCHANGED <<conv, down, chunks>>
    BY <1>1, <1>3 DEF PassesOn
  <2> QED BY <1>1, <1>2, <1>3, <2>1, FailedKeeps
<1>4. CASE ~terminal'.failed /\ pair.native
  <2>1. /\ writing' = <<Raw(e)>> /\ next' = (IF terminal'.stopNow THEN "finish" ELSE "read")
        /\ UNCHANGED <<conv, down, chunks>>
    BY <1>1, <1>4 DEF PassesOn
  <2> QED BY <1>1, <1>2, <1>4, <2>1, NativeKeeps
<1>5. CASE ~terminal'.failed /\ ~pair.native
  <2> DEFINE s == FromUpstream(pair.up, conv, e)
  <2>1. Convert(s.state, s.out, IF terminal'.stopNow THEN "finish" ELSE "read")
    BY <1>1, <1>5 DEF PassesOn
  <2>2. s = FromUpstream(pair.up, conv, e)
    OBVIOUS
  <2> HIDE DEF s
  <2>3. e \in Middle(pair.up, answer) \cup Endings(pair.up, answer)
    BY <1>1 DEF Heard
  <2> QED BY <1>1, <1>2, <1>5, <2>1, <2>2, <2>3, MiddleKeeps, LastKeeps
<1> QED BY <1>3, <1>4, <1>5
-----------------------------------------------------------------------------
(* The theorems *)

\* The invariant holds in every state of every behaviour.
LEMMA Invariant == Spec => []IInv
<1>1. IInv /\ [Next]_vars => IInv'
  <2> SUFFICES ASSUME IInv, [Next]_vars PROVE IInv'
    OBVIOUS
  <2>1. CASE Receive
    BY <2>1, ReceiveKeeps
  <2>2. CASE ConvertChunk
    BY <2>2, ConvertKeeps
  <2>3. CASE TellBroken
    BY <2>3, TellKeeps
  <2>4. CASE Write
    BY <2>4, WriteKeeps
  <2>5. CASE WriteCancelled
    BY <2>5, CancelledKeeps
  <2>6. CASE ReadFails \/ Oversized
    BY <2>6, ReadKeeps
  <2>7. CASE Finish
    BY <2>7, FinishKeeps
  <2>8. CASE CloseDown
    BY <2>8, CloseKeeps
  <2>9. CASE Settle
    BY <2>9, SettleKeeps
  <2>10. CASE Report
    BY <2>10, ReportKeeps
  <2>11. CASE WatcherFires \/ Leave
    BY <2>11, WatcherKeeps
  <2>12. CASE UNCHANGED vars
    <3>1. UNCHANGED <<pair, answer, conv, down, terminal, chunks, writing, next, sent, started, gone, expired, result>>
      BY <2>12 DEF vars
    <3>2. TypeOK'
      BY <3>1 DEF IInv, TypeOK
    <3>3. ControlInv'
      BY <3>1 DEF IInv, ControlInv, Fine
    <3>4. Written' = Written
      BY <3>1 DEF Written
    <3> QED BY <3>1, <3>2, <3>3, <3>4, SameKeeps
  <2> QED BY <2>1, <2>2, <2>3, <2>4, <2>5, <2>6, <2>7, <2>8, <2>9, <2>10, <2>11, <2>12 DEF Next
<1> QED BY <1>1, InitIInv, PTL DEF Spec

\* The stream is always in a state of its types: what is converted, held back and written consists of
\* chunks, items and frames, whatever the upstream says (forwardSSE and its converters).
THEOREM TypeCorrect == Spec => []TypeOK
<1>1. IInv => TypeOK
  BY DEF IInv
<1> QED BY <1>1, Invariant, PTL

\* A converted stream of Anthropic or Responses is well formed at any moment: one start, every piece in
\* an open block, no two blocks in one place, and nothing after the end, which closes all of them
\* (anthropicStreamConverter and responsesDownStreamConverter).
THEOREM FramesInOrder == Spec => []WellFormed
<1>1. IInv => WellFormed
  <2> SUFFICES ASSUME IInv, Converting PROVE WellFormed
    BY DEF WellFormed
  <2>1. sent \in Seq(Frames) /\ writing \in Seq(Frames) /\ Orderly(sent \o writing)
    BY DEF IInv, TypeOK, FramesInv, Written
  <2>2. Orderly(sent)
    BY <2>1, OrderlyPart
  <2>3. \A kind : All(kind) = OfKind(sent, kind)
    BY DEF All, OfKind, Positions
  <2> QED BY <2>2, <2>3 DEF WellFormed, Orderly
<1> QED BY <1>1, Invariant, PTL

\* The client is told of an end only if the upstream came to one that was no failure, and of one that was
\* cut short as such: a truncated stream never passes for a complete one (streamTerminal, Finish of the
\* converters).
THEOREM EndIsTrue == Spec => []TruthfulEnd
<1>1. IInv => TruthfulEnd
  <2> SUFFICES ASSUME IInv, ~pair.native, NEW i \in All("end") \cup All("finish")
               PROVE  /\ terminal.complete /\ sent[i].reason # "error"
                      /\ terminal.failed => sent[i].kind = "finish"
                      /\ terminal.incomplete => sent[i].reason \in Cut \cup {"none"}
    BY DEF TruthfulEnd
  <2>1. i \in 1 .. Len(sent) /\ sent[i].kind \in {"finish", "end"}
    BY DEF All, Positions
  <2>2. i \in 1 .. Len(Written) /\ Written[i] = sent[i]
    BY <2>1, WrittenIs DEF IInv
  <2>3. terminal.incomplete => Short
    BY DEF Short
  <2> QED BY <2>1, <2>2, <2>3 DEF IInv, TruthInv
<1> QED BY <1>1, Invariant, PTL

\* A stream that is reported as a success has given the client all of the text and of every call, none of
\* it twice, however often the provider repeated it (addTool, addArguments and the downstream converters).
THEOREM EverythingArrives == Spec => []AllArrives
<1>1. IInv => AllArrives
  <2> SUFFICES ASSUME IInv, ~pair.native, result \in {"ok", "incomplete"}, NEW p \in Parts
               PROVE  Arrived(sent, p) = answer.total[p]
    BY DEF AllArrives
  <2>1. next = "returned" /\ chunks = <<>> /\ writing = <<>>
    BY DEF IInv, ControlInv
  <2>2. Written = sent /\ sent \in Seq(Frames)
    BY <2>1, WrittenIs DEF IInv
  <2>3. Arrived(sent, p) + HeldBack(down.items, p) + Due(<<>>, p) = answer.total[p]
    BY <2>1, <2>2 DEF IInv, PiecesInv
  <2>4. Due(<<>>, p) = 0 /\ Arrived(sent, p) \in Nat
    BY <2>2, ArrivedAddsUp, DueAddsUp
  <2>5. down.items \in Seq(Items) /\ ItemsOk(pair.up, pair.down, down.items)
    BY DownsAre DEF IInv, TypeOK, ItemsInv
  <2>6. HeldBack(down.items, p) = 0
    <3>1. CASE pair.down = "openai"
      BY <2>5, <3>1 DEF ItemsOk, HeldBack
    <3>2. CASE pair.down = "anthropic"
      BY <2>5, <3>2, AnthropicHolds
    <3>3. CASE pair.down = "responses"
      <4>1. Concludes(pair.down, sent)
        BY DEF IInv, PiecesInv
      <4>2. OfKind(sent, "end") # {}
        BY <3>3, <4>1 DEF Concludes, Has, OfKind
      <4>3. \A k \in 1 .. Len(down.items) : down.items[k].named
        BY <2>2, <3>3, <4>2 DEF IInv, FramesInv, Converting
      <4> QED BY <4>3 DEF HeldBack
    <3> QED BY <3>1, <3>2, <3>3, PairIs DEF IInv
  <2>7. HeldBack(down.items, p) + 0 = 0
    BY <2>6
  <2> QED BY <2>3, <2>4, <2>6, <2>7
<1> QED BY <1>1, Invariant, PTL

\* A stream is reported as idle only by a read that failed after the watcher had fired and before a
\* terminal event (forwarding_stream.go:571-586), and nothing changes once the loop has returned.
IdleInv ==
  result = "idle" => Idle /\ next = "returned" /\ expired /\ ~terminal.complete

LEMMA IdleMeansSilent == Spec => []IdleInv
<1>1. Init => IdleInv
  BY DEF Init, IdleInv
<1>2. IdleInv /\ [Next]_vars => IdleInv'
  <2> SUFFICES ASSUME IdleInv, [Next]_vars PROVE IdleInv'
    OBVIOUS
  <2> USE DEF IdleInv, Idle
  <2>1. CASE Receive
    BY <2>1 DEF Receive, Reading
  <2>2. CASE ConvertChunk
    BY <2>2 DEF ConvertChunk
  <2>3. CASE TellBroken
    BY <2>3 DEF TellBroken
  <2>4. CASE Write \/ WriteCancelled
    BY <2>4 DEF Write, WriteCancelled, Return
  <2>5. CASE ReadFails
    BY <2>5 DEF ReadFails, Reading, Return
  <2>6. CASE Oversized
    BY <2>6 DEF Oversized, Reading, Return
  <2>7. CASE Finish
    BY <2>7 DEF Finish, Convert
  <2>8. CASE CloseDown
    BY <2>8 DEF CloseDown
  <2>9. CASE Settle \/ Report
    BY <2>9 DEF Settle, Settled, Report, Failing, Return
  <2>10. CASE WatcherFires \/ Leave
    BY <2>10 DEF WatcherFires, Leave
  <2>11. CASE UNCHANGED vars
    BY <2>11 DEF vars
  <2> QED
    BY <2>1, <2>2, <2>3, <2>4, <2>5, <2>6, <2>7, <2>8, <2>9, <2>10, <2>11 DEF Next
<1> QED BY <1>1, <1>2, PTL DEF Spec

\* The relay is always told of an outcome that it expects: what was sent, whether the channel is to blame
\* and whether the attempt may be repeated go together (forwardError as forwardSSE returns it); and of a
\* complete stream it is never told that it was idle.
THEOREM OutcomeIsKnown == Spec => []RelayKnows
<1>1. IInv /\ IdleInv => RelayKnows
  <2> DEFINE sends == IF ~started THEN <<>>
                      ELSE IF result \in Failing THEN <<"frames", "error">> ELSE <<"frames">>
             blame == result \in Blamed
             again == result \in Repeatable
             frame == NeedsFrame(result)
  <2> SUFFICES ASSUME IInv, IdleInv, result \in Categories \ {"ok", "cancelled"}
               PROVE  Outcome(sends, blame, again, frame) \in StreamOutcomes
    BY DEF RelayKnows, IdleInv
  <2>1. result \in Failing \cup {"incomplete", "write", "slow"} => started
    BY DEF IInv, ControlInv
  <2> USE DEF Failing, Blamed, Repeatable, NeedsFrame
  <2>2. CASE result = "failed"
    <3>1. sends = <<"frames", "error">> /\ blame = TRUE /\ again = FALSE /\ frame = FALSE
      BY <2>1, <2>2
    <3> HIDE DEF sends, blame, again, frame
    <3> QED BY <3>1 DEF StreamOutcomes
  <2>3. CASE result \in {"request", "conversion"}
    <3>1. sends = <<"frames", "error">> /\ blame = FALSE /\ again = FALSE /\ frame = FALSE
      BY <2>1, <2>3
    <3> HIDE DEF sends, blame, again, frame
    <3> QED BY <3>1 DEF StreamOutcomes
  <2>4. CASE result \in {"incomplete", "write"}
    <3>1. sends = <<"frames">> /\ blame = FALSE /\ again = FALSE /\ frame = FALSE
      BY <2>1, <2>4
    <3> HIDE DEF sends, blame, again, frame
    <3> QED BY <3>1 DEF StreamOutcomes
  <2>5. CASE result = "slow"
    <3>1. sends = <<"frames">> /\ blame = FALSE /\ again = FALSE /\ frame = TRUE
      BY <2>1, <2>5
    <3> HIDE DEF sends, blame, again, frame
    <3> QED BY <3>1 DEF StreamOutcomes
  <2>6. CASE result = "unconverted"
    <3>1. sends \in {<<>>, <<"frames">>} /\ blame = FALSE /\ again = FALSE /\ frame = TRUE
      BY <2>6
    <3> HIDE DEF sends, blame, again, frame
    <3> QED BY <3>1 DEF StreamOutcomes
  <2>7. CASE result \in {"truncated", "idle"}
    <3>1. sends \in {<<>>, <<"frames">>} /\ blame = TRUE /\ again = TRUE /\ frame = TRUE
      BY <2>7
    <3> HIDE DEF sends, blame, again, frame
    <3> QED BY <3>1 DEF StreamOutcomes
  <2> QED
    <3> HIDE DEF sends, blame, again, frame
    <3> QED BY <2>2, <2>3, <2>4, <2>5, <2>6, <2>7 DEF Categories
<1> QED BY <1>1, Invariant, IdleMeansSilent, PTL
=============================================================================
