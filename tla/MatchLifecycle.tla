--------------------------- MODULE MatchLifecycle ---------------------------
(***************************************************************************)
(* The life of a match across the API, the Redis queue, a pool of match    *)
(* workers and PostgreSQL: creation and its retries, at-most-once delivery *)
(* of queue entries, execution, replay upload, finishing, rating.          *)
(*                                                                         *)
(* One Match stands for one idempotency key.  API handlers and workers are *)
(* processes; each step is one database transaction or one Redis command,  *)
(* except that a read on which a later write depends is a step of its own. *)
(* The turns of a match are abstracted to the outcome they end in, and     *)
(* apply_once to one atomic step (module RatingSettlement refines it).     *)
(*                                                                         *)
(* A "variant of X" is a plausible slip in the code X models, which a run  *)
(* must catch; no specification uses it.                                   *)
(***************************************************************************)
EXTENDS Naturals, Sequences

CONSTANTS
  Match,             \* one per request key
  Ranked,            \* created by create_match with mode RANKED
  Simulation,        \* created by create_simulation; the rest are create_match TRAINING
  Worker,            \* match worker processes
  Handler,           \* API request handlers
  NoMatch,
  MaxRequests,       \* bound: requests sent per key
  MaxRequestFaults,  \* bound: handlers that die or lose Redis after they started
  MaxCrashes,        \* bound: workers killed
  MaxLostReplies,    \* bound: BLPOP replies that never reach the worker
  MaxStops           \* bound: SIGTERMs

ASSUME LifecycleAssumption ==
  /\ Ranked \subseteq Match
  /\ Simulation \subseteq Match
  /\ Ranked \cap Simulation = {}
  /\ NoMatch \notin Match
  /\ {MaxRequests, MaxRequestFaults, MaxCrashes, MaxLostReplies, MaxStops} \subseteq Nat

VARIABLES
  status,    \* matches.status, "none" while there is no row
  result,    \* matches.result: an outcome, or "failed" for a platform failure
  replay,    \* the outcome recorded in the artifact matches.replay_id points to
  event,     \* the win scored by the match's rating event
  queue,     \* the Redis list orbit:matches:queued:v1
  handler,   \* per handler: where it is and for which match
  answer,    \* what the client of a key has been told
  pc,        \* per worker: where serve() is
  held,      \* per worker: the match it took from the queue
  outcome,   \* per worker: the outcome it computed and will write
  stopping,  \* per worker: self.running was cleared by a signal
  requests, requestFaults, crashes, lostReplies, stops

records == <<status, result, replay, event>>
workers == <<pc, held, outcome, stopping>>
budgets == <<requests, requestFaults, crashes, lostReplies, stops>>
vars == <<status, result, replay, event, queue, handler, answer,
          pc, held, outcome, stopping,
          requests, requestFaults, crashes, lostReplies, stops>>

Wins == {"win0", "win1"}
Played == Wins \cup {"draw"}           \* the engine was done
Outcomes == Played \cup {"truncated"}  \* the loop left early: no winner, "elimination"
Terminal == {"FINISHED", "FAILED"}

\* What create_match and the worker write of MatchStatus: nothing deployed writes READY,
\* FINALIZING, FORFEITED or CANCELLED.
Status == {"none", "QUEUED", "PREPARING", "RUNNING"} \cup Terminal
Executing == {"claim", "start", "running", "persist", "attach", "finish", "settle"}
Pc == {"down", "idle", "popped", "failing", "fail"} \cup Executing
IdleHandler == [pc |-> "idle", match |-> NoMatch]

HandlerState == [pc : {"insert", "enqueue"}, match : Match] \cup {IdleHandler}

RecordsOK ==
  /\ status \in [Match -> Status]
  /\ result \in [Match -> Outcomes \cup {"none", "failed"}]
  /\ replay \in [Match -> Outcomes \cup {"none"}]
  /\ event \in [Match -> Wins \cup {"none"}]

ApiOK ==
  /\ queue \in Seq(Match)
  /\ handler \in [Handler -> HandlerState]
  /\ answer \in [Match -> {"none", "ok", "error"}]

WorkersOK ==
  /\ pc \in [Worker -> Pc]
  /\ held \in [Worker -> Match \cup {NoMatch}]
  /\ \A w \in Worker : held[w] = NoMatch <=> pc[w] \in {"down", "idle"}
  /\ outcome \in [Worker -> Outcomes \cup {"none"}]
  /\ stopping \in [Worker -> BOOLEAN]

BudgetsOK ==
  /\ requests \in [Match -> Nat]
  /\ requestFaults \in Nat /\ crashes \in Nat /\ lostReplies \in Nat /\ stops \in Nat

TypeOK == RecordsOK /\ ApiOK /\ WorkersOK /\ BudgetsOK

Init ==
  /\ status = [m \in Match |-> "none"]
  /\ result = [m \in Match |-> "none"]
  /\ replay = [m \in Match |-> "none"]
  /\ event = [m \in Match |-> "none"]
  /\ queue = <<>>
  /\ handler = [h \in Handler |-> IdleHandler]
  /\ answer = [m \in Match |-> "none"]
  /\ pc = [w \in Worker |-> "idle"]
  /\ held = [w \in Worker |-> NoMatch]
  /\ outcome = [w \in Worker |-> "none"]
  /\ stopping = [w \in Worker |-> FALSE]
  /\ requests = [m \in Match |-> 0]
  /\ requestFaults = 0 /\ crashes = 0 /\ lostReplies = 0 /\ stops = 0

-----------------------------------------------------------------------------
(* The API: create_match and create_simulation with their callers.  A       *)
(* request that fails validation leaves no trace and is not a step.         *)

\* A client that was answered ok once keeps that answer.
Reply(m, a) == answer' = [answer EXCEPT ![m] = IF @ = "ok" THEN "ok" ELSE a]

GoHandler(h, where, m) == handler' = [handler EXCEPT ![h] = [pc |-> where, match |-> m]]

\* A variant of Replayed that enqueues simulations too.
ReplayedAlwaysEnqueued(h, m) == GoHandler(h, "enqueue", m) /\ UNCHANGED answer

\* A variant of Replayed that enqueues nothing.
ReplayedNeverEnqueued(h, m) == Reply(m, "ok") /\ UNCHANGED handler

\* What a request does when its key already has a row: a match is enqueued
\* again whatever its status, a simulation is only returned.
Replayed(h, m) ==
  IF m \in Simulation
  THEN Reply(m, "ok") /\ UNCHANGED handler
  ELSE GoHandler(h, "enqueue", m) /\ UNCHANGED answer

\* A variant of Receive that enqueues before the row is committed.
ReceiveEnqueuesFirst(h, m) ==
  /\ handler[h] = IdleHandler
  /\ requests[m] < MaxRequests
  /\ requests' = [requests EXCEPT ![m] = @ + 1]
  /\ GoHandler(h, "enqueue", m)
  /\ UNCHANGED <<records, queue, answer, workers, requestFaults, crashes, lostReplies, stops>>

Receive(h, m) ==
  /\ handler[h] = IdleHandler
  /\ requests[m] < MaxRequests
  /\ requests' = [requests EXCEPT ![m] = @ + 1]
  /\ IF status[m] = "none"
     THEN GoHandler(h, "insert", m) /\ UNCHANGED answer
     ELSE Replayed(h, m)
  /\ UNCHANGED <<records, queue, workers, requestFaults, crashes, lostReplies, stops>>

\* The insert and the commit.  A concurrent request of the same key that
\* committed first makes the flush raise on the unique request_key.
Insert(h) ==
  /\ handler[h].pc = "insert"
  /\ LET m == handler[h].match IN
       IF status[m] = "none"
       THEN /\ status' = [status EXCEPT ![m] = "QUEUED"]
            /\ GoHandler(h, "enqueue", m)
            /\ UNCHANGED answer
       ELSE /\ handler' = [handler EXCEPT ![h] = IdleHandler]
            /\ Reply(m, "error")
            /\ UNCHANGED status
  /\ UNCHANGED <<result, replay, event, queue, workers, budgets>>

Enqueue(h) ==
  /\ handler[h].pc = "enqueue"
  /\ queue' = Append(queue, handler[h].match)
  /\ Reply(handler[h].match, "ok")
  /\ handler' = [handler EXCEPT ![h] = IdleHandler]
  /\ UNCHANGED <<records, workers, budgets>>

\* The handler's process dies, or its database or Redis call raises: the
\* client sees a 5xx; what was committed stays.
RequestFails(h) ==
  /\ handler[h] # IdleHandler
  /\ requestFaults < MaxRequestFaults
  /\ requestFaults' = requestFaults + 1
  /\ Reply(handler[h].match, "error")
  /\ handler' = [handler EXCEPT ![h] = IdleHandler]
  /\ UNCHANGED <<records, queue, workers, requests, crashes, lostReplies, stops>>

-----------------------------------------------------------------------------
(* The worker.                                                              *)

Go(w, from, to) == pc[w] = from /\ pc' = [pc EXCEPT ![w] = to]

\* A variant of NextItem that forgets to drop the entry.
NextItemKept(w) ==
  /\ pc' = [pc EXCEPT ![w] = IF stopping[w] THEN "down" ELSE "idle"]
  /\ outcome' = [outcome EXCEPT ![w] = "none"]
  /\ stopping' = [stopping EXCEPT ![w] = FALSE]
  /\ UNCHANGED held

\* The end of an iteration of serve(): the loop is left once running is cleared.
NextItem(w) ==
  /\ pc' = [pc EXCEPT ![w] = IF stopping[w] THEN "down" ELSE "idle"]
  /\ held' = [held EXCEPT ![w] = NoMatch]
  /\ outcome' = [outcome EXCEPT ![w] = "none"]
  /\ stopping' = [stopping EXCEPT ![w] = FALSE]

\* BLPOP removes the entry.  A worker that was signalled while it blocked
\* still takes the entry the reply carries.
Pop(w) ==
  /\ queue # <<>>
  /\ Go(w, "idle", "popped")
  /\ held' = [held EXCEPT ![w] = Head(queue)]
  /\ queue' = Tail(queue)
  /\ UNCHANGED <<records, handler, answer, outcome, stopping, budgets>>

\* The entry is gone from Redis and the reply never arrives.
PopLost(w) ==
  /\ queue # <<>>
  /\ pc[w] = "idle"
  /\ lostReplies < MaxLostReplies
  /\ lostReplies' = lostReplies + 1
  /\ queue' = Tail(queue)
  /\ UNCHANGED <<records, handler, answer, workers, requests, requestFaults, crashes, stops>>

\* A variant of Loadable that only refuses finished matches.
LoadableUnlessFinished(m) == status[m] \notin {"none", "FINISHED"}

Loadable(m) == status[m] \in {"QUEUED", "PREPARING"}

\* _load reads the row; PREPARING needs no update, QUEUED is updated in Claim.
Load(w) ==
  /\ pc[w] = "popped"
  /\ Loadable(held[w])
  /\ pc' = [pc EXCEPT ![w] = IF status[held[w]] = "QUEUED" THEN "claim" ELSE "start"]
  /\ UNCHANGED <<records, queue, handler, answer, held, outcome, stopping, budgets>>

Skip(w) ==
  /\ pc[w] = "popped"
  /\ ~ Loadable(held[w])
  /\ NextItem(w)
  /\ UNCHANGED <<records, queue, handler, answer, budgets>>

Claim(w) ==
  /\ Go(w, "claim", "start")
  /\ status' = [status EXCEPT ![held[w]] = "PREPARING"]
  /\ UNCHANGED <<result, replay, event, queue, handler, answer,
                 held, outcome, stopping, budgets>>

\* RUNNING is written whatever the row says.  A worker already told to stop
\* plays no turn at all.
Start(w) ==
  /\ Go(w, "start", IF stopping[w] THEN "persist" ELSE "running")
  /\ outcome' = [outcome EXCEPT ![w] = IF stopping[w] THEN "truncated" ELSE "none"]
  /\ status' = [status EXCEPT ![held[w]] = "RUNNING"]
  /\ UNCHANGED <<result, replay, event, queue, handler, answer, held, stopping, budgets>>

EndMatch(w) ==
  /\ Go(w, "running", "persist")
  /\ \E o \in Played : outcome' = [outcome EXCEPT ![w] = o]
  /\ UNCHANGED <<records, queue, handler, answer, held, stopping, budgets>>

\* The turn loop is left because running was cleared, not because the engine
\* is done; the code after the loop is the same.
Truncate(w) ==
  /\ stopping[w]
  /\ Go(w, "running", "persist")
  /\ outcome' = [outcome EXCEPT ![w] = "truncated"]
  /\ UNCHANGED <<records, queue, handler, answer, held, stopping, budgets>>

\* A variant of PersistReplay that leaves the upload for later.
PersistReplayLater(w) ==
  /\ Go(w, "persist", "finish")
  /\ UNCHANGED <<records, queue, handler, answer, held, outcome, stopping, budgets>>

\* persist_replay uploads and then reads the row: one that has a replay keeps
\* it (the same read before the upload only saves the upload) ...
PersistReplay(w) ==
  /\ pc[w] = "persist"
  /\ pc' = [pc EXCEPT ![w] = IF replay[held[w]] = "none" THEN "attach" ELSE "finish"]
  /\ UNCHANGED <<records, queue, handler, answer, held, outcome, stopping, budgets>>

\* ... another gets the artifact's id, in a later statement and without a lock.
AttachReplay(w) ==
  /\ Go(w, "attach", "finish")
  /\ replay' = [replay EXCEPT ![held[w]] = outcome[w]]
  /\ UNCHANGED <<status, result, event, queue, handler, answer,
                 held, outcome, stopping, budgets>>

\* The first commit of _finish; only a ranked win goes on to the settlement.
Finish(w) ==
  /\ pc[w] = "finish"
  /\ status' = [status EXCEPT ![held[w]] = "FINISHED"]
  /\ result' = [result EXCEPT ![held[w]] = outcome[w]]
  /\ IF held[w] \in Ranked /\ outcome[w] \in Wins
     THEN Go(w, "finish", "settle") /\ UNCHANGED <<held, outcome, stopping>>
     ELSE NextItem(w)
  /\ UNCHANGED <<replay, event, queue, handler, answer, budgets>>

\* apply_once: an existing event is returned.  The status and the result it
\* checks are those of the session's own copy of the row, written by Finish.
Settle(w) ==
  /\ pc[w] = "settle"
  /\ event' = [event EXCEPT ![held[w]] = IF @ = "none" THEN outcome[w] ELSE @]
  /\ NextItem(w)
  /\ UNCHANGED <<status, result, replay, queue, handler, answer, budgets>>

\* Any exception of _load or _run reaches the handler in serve().
Raise(w) ==
  /\ pc[w] \in Executing \cup {"popped"}
  /\ pc' = [pc EXCEPT ![w] = "failing"]
  /\ outcome' = [outcome EXCEPT ![w] = "none"]
  /\ UNCHANGED <<records, queue, handler, answer, held, stopping, budgets>>

\* A variant of CheckFailed that leaves alone a match somebody seems to be running.
CheckFailedUnlessRunning(w) ==
  /\ pc[w] = "failing"
  /\ IF status[held[w]] \in {"none", "RUNNING", "FINISHED"}
     THEN NextItem(w)
     ELSE Go(w, "failing", "fail") /\ UNCHANGED <<held, outcome, stopping>>
  /\ UNCHANGED <<records, queue, handler, answer, budgets>>

\* _mark_failed reads the row, then writes it unless it was finished.
CheckFailed(w) ==
  /\ pc[w] = "failing"
  /\ IF status[held[w]] \in {"none", "FINISHED"}
     THEN NextItem(w)
     ELSE Go(w, "failing", "fail") /\ UNCHANGED <<held, outcome, stopping>>
  /\ UNCHANGED <<records, queue, handler, answer, budgets>>

WriteFailed(w) ==
  /\ pc[w] = "fail"
  /\ status' = [status EXCEPT ![held[w]] = "FAILED"]
  /\ result' = [result EXCEPT ![held[w]] = "failed"]
  /\ NextItem(w)
  /\ UNCHANGED <<replay, event, queue, handler, answer, budgets>>

-----------------------------------------------------------------------------
(* Signals, crashes and restarts of a worker process.                       *)

Stop(w) ==
  /\ pc[w] # "down"
  /\ ~ stopping[w]
  /\ stops < MaxStops
  /\ stops' = stops + 1
  /\ stopping' = [stopping EXCEPT ![w] = TRUE]
  /\ UNCHANGED <<records, queue, handler, answer, pc, held, outcome,
                 requests, requestFaults, crashes, lostReplies>>

\* BLPOP timed out and the loop condition is false.
Exit(w) ==
  /\ pc[w] = "idle"
  /\ stopping[w]
  /\ NextItem(w)
  /\ UNCHANGED <<records, queue, handler, answer, budgets>>

\* Killed, or an exception inside _mark_failed escaped serve().
Crash(w) ==
  /\ pc[w] # "down"
  /\ crashes < MaxCrashes
  /\ crashes' = crashes + 1
  /\ pc' = [pc EXCEPT ![w] = "down"]
  /\ held' = [held EXCEPT ![w] = NoMatch]
  /\ outcome' = [outcome EXCEPT ![w] = "none"]
  /\ stopping' = [stopping EXCEPT ![w] = FALSE]
  /\ UNCHANGED <<records, queue, handler, answer, requests, requestFaults, lostReplies, stops>>

\* docker --restart=always.  Nothing is recovered at start.
Restart(w) ==
  /\ Go(w, "down", "idle")
  /\ UNCHANGED <<records, queue, handler, answer, held, outcome, stopping, budgets>>

-----------------------------------------------------------------------------
ApiNext ==
  \E h \in Handler :
    \/ \E m \in Match : Receive(h, m)
    \/ Insert(h) \/ Enqueue(h) \/ RequestFails(h)

Advance(w) ==
  \/ Pop(w) \/ Load(w) \/ Skip(w) \/ Claim(w) \/ Start(w)
  \/ EndMatch(w) \/ Truncate(w) \/ PersistReplay(w) \/ AttachReplay(w)
  \/ Finish(w) \/ Settle(w) \/ CheckFailed(w) \/ WriteFailed(w)
  \/ Exit(w) \/ Restart(w)

Disturb(w) == PopLost(w) \/ Raise(w) \/ Stop(w) \/ Crash(w)

Next == ApiNext \/ \E w \in Worker : Advance(w) \/ Disturb(w)

Spec == Init /\ [][Next]_vars

\* A handler that runs goes on to its answer, a worker's loop goes on (a match
\* has at most 500 turns of bounded length) and a dead worker is restarted.
\* Nothing forces a request, a fault or a signal.
Fairness ==
  /\ \A h \in Handler : WF_vars(Insert(h) \/ Enqueue(h))
  /\ \A w \in Worker : WF_vars(Advance(w))

FairSpec == Spec /\ Fairness
=============================================================================
