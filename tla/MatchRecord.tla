---------------------------- MODULE MatchRecord ----------------------------
(***************************************************************************)
(* What the platform promises about the public record of one match: it     *)
(* moves forward through its statuses once, a replay is attached before it *)
(* is finished, the finished result is the one the replay shows, and a     *)
(* ranked win is scored at most once, from that result.  MatchLifecycle    *)
(* implements this for every match that only one worker can ever hold.     *)
(***************************************************************************)
CONSTANTS Match,   \* the matches this specification speaks of
          Ranked   \* those that may be scored

VARIABLES status, result, replay, event

recordVars == <<status, result, replay, event>>

Wins == {"win0", "win1"}
Outcomes == Wins \cup {"draw", "truncated"}
Terminal == {"FINISHED", "FAILED"}

Init ==
  /\ status = [m \in Match |-> "none"]
  /\ result = [m \in Match |-> "none"]
  /\ replay = [m \in Match |-> "none"]
  /\ event = [m \in Match |-> "none"]

Move(m, from, to) ==
  /\ status[m] = from
  /\ status' = [status EXCEPT ![m] = to]

Create(m) == Move(m, "none", "QUEUED") /\ UNCHANGED <<result, replay, event>>

Prepare(m) == Move(m, "QUEUED", "PREPARING") /\ UNCHANGED <<result, replay, event>>

Start(m) == Move(m, "PREPARING", "RUNNING") /\ UNCHANGED <<result, replay, event>>

AttachReplay(m) ==
  /\ status[m] = "RUNNING"
  /\ replay[m] = "none"
  /\ \E o \in Outcomes : replay' = [replay EXCEPT ![m] = o]
  /\ UNCHANGED <<status, result, event>>

Finish(m) ==
  /\ Move(m, "RUNNING", "FINISHED")
  /\ replay[m] # "none"
  /\ result' = [result EXCEPT ![m] = replay[m]]
  /\ UNCHANGED <<replay, event>>

Fail(m) ==
  /\ \E s \in {"QUEUED", "PREPARING", "RUNNING"} : Move(m, s, "FAILED")
  /\ result' = [result EXCEPT ![m] = "failed"]
  /\ UNCHANGED <<replay, event>>

Score(m) ==
  /\ m \in Ranked
  /\ status[m] = "FINISHED"
  /\ result[m] \in Wins
  /\ event[m] = "none"
  /\ event' = [event EXCEPT ![m] = result[m]]
  /\ UNCHANGED <<status, result, replay>>

Next ==
  \E m \in Match :
    \/ Create(m) \/ Prepare(m) \/ Start(m) \/ AttachReplay(m)
    \/ Finish(m) \/ Fail(m) \/ Score(m)

Spec == Init /\ [][Next]_recordVars
=============================================================================
