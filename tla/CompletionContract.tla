------------------------- MODULE CompletionContract -------------------------
(***************************************************************************)
(* What the KYOK relay promises the party that asked for a completion,     *)
(* without sockets, tables, queues or tasks: one link holds the request;   *)
(* only that link's words count; the caller hears them in order and none   *)
(* twice; the answer is complete exactly when the link said so; anything   *)
(* else that ends it is a failure the caller sees.                         *)
(* KyokSocket implements it (ContractKept there).                          *)
(***************************************************************************)
EXTENDS Naturals, Sequences

CONSTANTS
  Asks,      \* completions
  Links,     \* the parties that can hold one
  Nobody,    \* no holder yet
  Words      \* what a holder can say; "chunk" and "done" among them

VARIABLES
  holder,    \* the link each ask was given to
  words,     \* what that link has said for it, in order
  heard,     \* how many of its chunks the caller was given
  fate       \* idle, refused, open, complete, failed, abandoned

vars == <<holder, words, heard, fate>>

Init ==
  /\ holder = [a \in Asks |-> Nobody]
  /\ words = [a \in Asks |-> <<>>]
  /\ heard = [a \in Asks |-> 0]
  /\ fate = [a \in Asks |-> "idle"]

Decide(a, outcome) == fate' = [fate EXCEPT ![a] = outcome]

Refuse(a) == fate[a] = "idle" /\ Decide(a, "refused") /\ UNCHANGED <<holder, words, heard>>

Give(a, l) ==
  /\ fate[a] = "idle"
  /\ holder' = [holder EXCEPT ![a] = l]
  /\ Decide(a, "open")
  /\ UNCHANGED <<words, heard>>

\* A link speaks for some of the asks it holds, at most one word for each.
\* Answering is one ask; dropping off is a last word for all of them.
Speak(l) ==
  \E S \in SUBSET {a \in Asks : holder[a] = l}, w \in Words :
    /\ words' = [a \in Asks |-> IF a \in S THEN Append(words[a], w) ELSE words[a]]
    /\ UNCHANGED <<holder, heard, fate>>

NextWordIs(a, w) == heard[a] < Len(words[a]) /\ words[a][heard[a] + 1] = w

Hear(a) ==
  /\ fate[a] = "open"
  /\ NextWordIs(a, "chunk")
  /\ heard' = [heard EXCEPT ![a] = @ + 1]
  /\ UNCHANGED <<holder, words, fate>>

Conclude(a) ==
  /\ fate[a] = "open"
  /\ NextWordIs(a, "done")
  /\ Decide(a, "complete")
  /\ UNCHANGED <<holder, words, heard>>

Fail(a) == fate[a] = "open" /\ Decide(a, "failed") /\ UNCHANGED <<holder, words, heard>>
Abandon(a) == fate[a] = "open" /\ Decide(a, "abandoned") /\ UNCHANGED <<holder, words, heard>>

Next ==
  \/ \E a \in Asks : Refuse(a) \/ Hear(a) \/ Conclude(a) \/ Fail(a) \/ Abandon(a)
  \/ \E a \in Asks, l \in Links : Give(a, l)
  \/ \E l \in Links : Speak(l)

Spec == Init /\ [][Next]_vars
=============================================================================
