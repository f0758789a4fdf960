------------------------------ MODULE AlertBoard ------------------------------
(***************************************************************************)
(* What the trigger engine promises the rest of the platform, without its  *)
(* clock, cache, table and ids: every issue is untracked, open, closed or  *)
(* muted, people learn of each change as it happens, an issue is raised    *)
(* only when it is not already up, and a muted issue comes back up only    *)
(* by being unmuted or after it was closed.                                *)
(***************************************************************************)
CONSTANT Issues

VARIABLES status, heard

boardVars == <<status, heard>>

Statuses == {"untracked", "open", "closed", "muted"}

BoardTypeOK ==
  /\ status \in [Issues -> Statuses]
  /\ heard \in [Issues -> Statuses]

BoardInit ==
  /\ status = [i \in Issues |-> "untracked"]
  /\ heard = status

\* The issues in S take status st, and whoever follows the board hears it.
Change(S, st) ==
  /\ status' = [i \in Issues |-> IF i \in S THEN st ELSE status[i]]
  /\ heard' = [i \in Issues |-> IF i \in S THEN st ELSE heard[i]]

Raise(i) ==
  /\ status[i] \in {"untracked", "closed"}
  /\ Change({i}, "open")

Close(S) ==
  /\ \A i \in S : status[i] \in {"open", "muted"}
  /\ Change(S, "closed")

Mute(i) ==
  /\ status[i] # "untracked"
  /\ Change({i}, "muted")

Unmute(i) ==
  /\ status[i] = "muted"
  /\ Change({i}, "open")

\* Tracking is best effort: entries expire, and a restart loses all of them.
Forget(S) == Change(S, "untracked")

BoardNext ==
  \/ \E i \in Issues : Raise(i) \/ Mute(i) \/ Unmute(i)
  \/ \E S \in SUBSET Issues : Close(S) \/ Forget(S)

BoardSpec == BoardInit /\ [][BoardNext]_boardVars
=============================================================================
