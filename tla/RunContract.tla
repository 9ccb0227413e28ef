---------------------------- MODULE RunContract ----------------------------
(***************************************************************************)
(* What the run relay promises about a run, without sockets, frames,       *)
(* offers or a provider's loop: it is given to one worker, once; what is   *)
(* on record of that worker is its story from the beginning, in order,     *)
(* with nothing left out; the record grows only while the run is under     *)
(* way; a run only its holder worked on ends with the whole story; an end  *)
(* is final.  PodProbe and AgentLink implement it (RunContractKept there). *)
(*                                                                         *)
(* A run may have other workers than its holder, because an offer is made  *)
(* again when its answer is late.  They report into the same record, and   *)
(* nothing is promised of them; nor of a run that a link which had been    *)
(* replaced said yes to.                                                   *)
(***************************************************************************)
EXTENDS Naturals, Sequences

CONSTANTS
  Runs,
  Workers,
  Nobody,    \* no holder
  Length,    \* how many events a whole story has
  Thorough,  \* a cancelled worker tells its story to the end all the same
  MayStray   \* a yes may come by a link that was replaced

VARIABLES
  fate,      \* none, waiting, held, cancelling, ended, cancelled, failed
  crew,      \* who took a run up
  holder,    \* whose yes counted
  record     \* the events a run is known by

vars == <<fate, crew, holder, record>>

Init ==
  /\ fate = [r \in Runs |-> "none"]
  /\ crew = [r \in Runs |-> {}]
  /\ holder = [r \in Runs |-> Nobody]
  /\ record = [r \in Runs |-> <<>>]

Underway(r) == fate[r] \in {"held", "cancelling"}

Turns(r, from, to) == fate[r] = from /\ fate' = [fate EXCEPT ![r] = to]

Begin(r) == Turns(r, "none", "waiting") /\ UNCHANGED <<crew, holder, record>>

Refuse(r) == Turns(r, "waiting", "failed") /\ UNCHANGED <<crew, holder, record>>

\* However late: nobody tells a worker how the run stands.
Take(r, x) ==
  /\ \A s \in Runs : x \notin crew[s]
  /\ crew' = [crew EXCEPT ![r] = @ \cup {x}]
  /\ UNCHANGED <<fate, holder, record>>

Give(r, x) ==
  /\ x \in crew[r]
  /\ holder[r] = Nobody
  /\ holder' = [holder EXCEPT ![r] = x]
  /\ Turns(r, "waiting", "held")
  /\ UNCHANGED <<crew, record>>

\* Given to whoever said that yes: nothing is promised of it.
Stray(r) == MayStray /\ Turns(r, "waiting", "held") /\ UNCHANGED <<crew, holder, record>>

Heard(r, x, n) == \E i \in DOMAIN record[r] : record[r][i] = [who |-> x, nth |-> n]

\* The next of its story.
Due(r, x, n) ==
  /\ n = 1 \/ Heard(r, x, n - 1)
  /\ \A k \in 1..Length : Heard(r, x, k) => k < n

Tell(r, x, n) ==
  /\ Underway(r)
  /\ x \in crew[r]
  /\ x = holder[r] => Due(r, x, n)
  /\ record' = [record EXCEPT ![r] = Append(@, [who |-> x, nth |-> n])]
  /\ UNCHANGED <<fate, crew, holder>>

Cancel(r) == Turns(r, "held", "cancelling") /\ UNCHANGED <<crew, holder, record>>

Whole(r, x) == \A k \in 1..Length : Heard(r, x, k)

End(r) ==
  /\ crew[r] = {holder[r]} /\ (fate[r] = "held" \/ Thorough) => Whole(r, holder[r])
  /\ Turns(r, "held", "ended") \/ Turns(r, "cancelling", "cancelled")
  /\ UNCHANGED <<crew, holder, record>>

\* Who held them is gone: any number of runs at once.
Fail(S) ==
  /\ \A r \in S : Underway(r)
  /\ fate' = [r \in Runs |-> IF r \in S THEN "failed" ELSE fate[r]]
  /\ UNCHANGED <<crew, holder, record>>

Next ==
  \/ \E r \in Runs : Begin(r) \/ Refuse(r) \/ Stray(r) \/ Cancel(r) \/ End(r)
  \/ \E r \in Runs, x \in Workers : Take(r, x) \/ Give(r, x)
  \/ \E r \in Runs, x \in Workers, n \in 1..Length : Tell(r, x, n)
  \/ \E S \in SUBSET Runs : Fail(S)

Spec == Init /\ [][Next]_vars
=============================================================================
