--------------------------- MODULE MCStreamForward ---------------------------
(* Instances of StreamForward for TLC. *)
EXTENDS StreamForward

Pair(u, d, n) == [up |-> u, down |-> d, native |-> n]

(* Whatever SelectDownstream makes of the channel types and the endpoints. *)
AllPairs ==
  {Pair("openai", d, FALSE) : d \in {"openai", "anthropic", "responses"}}
    \cup {Pair("anthropic", d, FALSE) : d \in {"openai", "responses"}}
    \cup {Pair("gemini", d, FALSE) : d \in {"openai", "anthropic", "responses"}}
    \cup {Pair("responses", d, FALSE) : d \in {"openai", "anthropic"}}
    \cup {Pair(p, p, TRUE) : p \in {"openai", "anthropic", "responses"}}
=============================================================================
