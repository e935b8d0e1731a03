--------------------------- MODULE OutboxContract ---------------------------
(***************************************************************************)
(* What the transactional outbox promises of an event, with no worker,      *)
(* claim or lease in sight: once accepted, it is handled at most            *)
(* MAX_ATTEMPTS times, only while it is open, and ends as done (then it was *)
(* handled at least once) or dead, from where at most a late success still  *)
(* moves it to done.                                                        *)
(***************************************************************************)
EXTENDS Integers

CONSTANTS Events, MAX_ATTEMPTS

VARIABLES
  state,  \* state[e]: "absent", "open", "done" or "dead"
  calls   \* calls[e]: how many times the side effect of e was performed

Init ==
  /\ state = [e \in Events |-> "absent"]
  /\ calls = [e \in Events |-> 0]

Accept(e) ==
  /\ state[e] = "absent"
  /\ state' = [state EXCEPT ![e] = "open"]
  /\ UNCHANGED calls

Perform(e) ==
  /\ state[e] = "open" /\ calls[e] < MAX_ATTEMPTS
  /\ calls' = [calls EXCEPT ![e] = @ + 1]
  /\ UNCHANGED state

Done(e) ==
  /\ state[e] \in {"open", "dead"} /\ calls[e] > 0
  /\ state' = [state EXCEPT ![e] = "done"]
  /\ UNCHANGED calls

Bury(e) ==
  /\ state[e] = "open"
  /\ state' = [state EXCEPT ![e] = "dead"]
  /\ UNCHANGED calls

\* Several events may be buried by one statement (recoverStrandedEvents).
BuryAll(S) ==
  /\ \A e \in S : state[e] = "open"
  /\ state' = [e \in Events |-> IF e \in S THEN "dead" ELSE state[e]]
  /\ UNCHANGED calls

Next ==
  \/ \E e \in Events : Accept(e) \/ Perform(e) \/ Done(e) \/ Bury(e)
  \/ \E S \in SUBSET Events : BuryAll(S)

Spec == Init /\ [][Next]_<<state, calls>>
=============================================================================
