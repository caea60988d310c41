---------------------------- MODULE OutboxPromise -----------------------------
(***************************************************************************)
(* What the tool-result outbox promises to a session, whatever the storage *)
(* and the process do: the action of a call is attempted at most once, a   *)
(* caller is answered only after that attempt, and an answer whose outcome *)
(* is known is the answer for ever.                                        *)
(***************************************************************************)
EXTENDS Naturals

CONSTANTS Calls, Known

VARIABLES
  attempts,  \* how often the external action of each call was started
  answer     \* the report each caller last got: "none", "unknown" or a known one

Init ==
  /\ attempts = [c \in Calls |-> 0]
  /\ answer = [c \in Calls |-> "none"]

Attempt(c) ==
  /\ attempts[c] = 0
  /\ attempts' = [attempts EXCEPT ![c] = 1]
  /\ UNCHANGED answer

Answer(c, report) ==
  /\ attempts[c] = 1
  /\ answer[c] \notin Known
  /\ answer' = [answer EXCEPT ![c] = report]
  /\ UNCHANGED attempts

Next ==
  \E c \in Calls :
    \/ Attempt(c)
    \/ \E report \in Known \cup {"unknown"} : Answer(c, report)

Spec == Init /\ [][Next]_<<attempts, answer>>
=============================================================================
