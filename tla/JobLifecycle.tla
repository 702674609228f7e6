---------------------------- MODULE JobLifecycle ----------------------------
(***************************************************************************)
(* What the jobs API promises its clients about a job, whatever the        *)
(* gateway does behind it: the status a poll returns, what an accepted     *)
(* cancellation means, one turn of a conversation at a time, a bounded     *)
(* queue, at-least-once execution across restarts, and forgetting.         *)
(* JobStore is checked and proved to implement it.                         *)
(***************************************************************************)
EXTENDS Integers, FiniteSets

CONSTANTS Jobs, Conversations, NoConversation, MaxActive

VARIABLES
  status,         \* of each job, as the API shows it
  wanted,         \* 1: its cancellation was accepted
  conversation    \* the conversation it is a turn of

lifecycleVars == <<status, wanted, conversation>>

Active == {"queued", "running"}
Terminal == {"completed", "failed", "cancelled"}
ActiveJobs == {j \in Jobs : status[j] \in Active}

Init ==
  /\ status = [j \in Jobs |-> "absent"]
  /\ wanted = [j \in Jobs |-> 0]
  /\ conversation = [j \in Jobs |-> NoConversation]

Accept(j, c) ==
  /\ status[j] = "absent"
  /\ Cardinality(ActiveJobs) < MaxActive
  /\ status' = [status EXCEPT ![j] = "queued"]
  /\ conversation' = [conversation EXCEPT ![j] = c]
  /\ UNCHANGED wanted

Begin(j) ==
  /\ status[j] = "queued"
  /\ \A i \in Jobs : conversation[i] = conversation[j] => status[i] # "running"
  /\ status' = [status EXCEPT ![j] = "running"]
  /\ UNCHANGED <<wanted, conversation>>

\* A result and an error are only for a job nobody asked to cancel.
End(j, outcome) ==
  /\ status[j] = "running"
  /\ wanted[j] = 0
  /\ status' = [status EXCEPT ![j] = outcome]
  /\ UNCHANGED <<wanted, conversation>>

Want(j) ==
  /\ status[j] = "running"
  /\ wanted' = [wanted EXCEPT ![j] = 1]
  /\ UNCHANGED <<status, conversation>>

\* A queued job at once, a running one when its turn is over; a shutdown
\* cancels a running job nobody asked to.
Cancel(j) ==
  /\ status[j] \in Active
  /\ status' = [status EXCEPT ![j] = "cancelled"]
  /\ wanted' = [wanted EXCEPT ![j] = 1]
  /\ UNCHANGED conversation

\* At least once: an interrupted job goes back to the queue, unless it was to be
\* cancelled.
Restart ==
  /\ status' = [j \in Jobs |->
       IF status[j] # "running" THEN status[j]
       ELSE IF wanted[j] = 1 THEN "cancelled" ELSE "queued"]
  /\ UNCHANGED <<wanted, conversation>>

Forget(gone) ==
  /\ \A j \in gone : status[j] \in Terminal
  /\ status' = [j \in Jobs |-> IF j \in gone THEN "absent" ELSE status[j]]
  /\ wanted' = [j \in Jobs |-> IF j \in gone THEN 0 ELSE wanted[j]]
  /\ conversation' =
       [j \in Jobs |-> IF j \in gone THEN NoConversation ELSE conversation[j]]

Next ==
  \/ \E j \in Jobs :
       \/ \E c \in Conversations : Accept(j, c)
       \/ Begin(j)
       \/ \E outcome \in {"completed", "failed"} : End(j, outcome)
       \/ Want(j)
       \/ Cancel(j)
  \/ Restart
  \/ \E gone \in SUBSET Jobs : Forget(gone)

Spec == Init /\ [][Next]_lifecycleVars
=============================================================================
