------------------------ MODULE MatchLifecycleProps ------------------------
(***************************************************************************)
(* The properties of MatchLifecycle, and the abstract record it implements.*)
(***************************************************************************)
EXTENDS MatchLifecycle

-----------------------------------------------------------------------------
(* Safety.                                                                  *)

\* A finished match has a replay: persist_replay commits before _finish does,
\* whatever crashes, signals and second executions come between.
ReplayBeforeFinish ==
  \A m \in Match : status[m] = "FINISHED" => replay[m] # "none"

\* An entry is only ever in the queue, or in a worker's hands, for a row that
\* was committed: a worker never finds the match missing.
QueuedRowsExist ==
  /\ \A i \in DOMAIN queue : status[queue[i]] # "none"
  /\ \A w \in Worker : held[w] # NoMatch => status[held[w]] # "none"

\* Everyone who will enqueue m, every place m has in the queue, everyone who
\* holds it.
Claims(m) ==
       {<<"handler", h>> : h \in {x \in Handler : handler[x] = [pc |-> "enqueue", match |-> m]}}
  \cup {<<"queue", i>> : i \in {x \in DOMAIN queue : queue[x] = m}}
  \cup {<<"worker", w>> : w \in {x \in Worker : held[x] = m}}

\* A simulation is enqueued by the request that inserted it and by no retry,
\* so no two workers can ever execute it, however large the pool.
SimulationHeldOnce == \A m \in Simulation : \A a, b \in Claims(m) : a = b

\* The places in serve() from which a worker writes a final status, or finds one.
Ending == {"start", "running", "persist", "attach", "finish", "failing", "fail"}

\* Somebody will enqueue a queued match, or it has its entry, or a worker took it.
QueuedIsClaimed ==
  \A m \in Match :
    status[m] = "QUEUED" =>
      Claims(m) # {} \/ requestFaults > 0 \/ lostReplies > 0 \/ crashes > 0

\* A match that is being prepared or run is in the hands of a worker that will end it.
ActiveIsHeld ==
  \A m \in Match :
    status[m] \in {"PREPARING", "RUNNING"} =>
      (\E w \in Worker : held[w] = m /\ pc[w] \in Ending) \/ crashes > 0

\* No match is left in a status that promises more, by any interleaving of retries,
\* exceptions, signals and workers that overwrite each other's status from a stale
\* read: only a request or a BLPOP reply that is lost or a worker that is killed does so.
NothingStranded == QueuedIsClaimed /\ ActiveIsHeld

-----------------------------------------------------------------------------
(* Refinement.                                                              *)

\* The matches no two workers can hold at the same time: all of them when the
\* deployment runs one worker (infra/deploy/ip-preview.sh), else simulations.
Sheltered == {m \in Match : m \in Simulation \/ \E w \in Worker : Worker = {w}}

On(f) == [m \in Sheltered |-> f[m]]

Record == INSTANCE MatchRecord
            WITH Match <- Sheltered, Ranked <- Ranked \cap Sheltered,
                 status <- On(status), result <- On(result),
                 replay <- On(replay), event <- On(event)

\* The public record of a sheltered match moves forward once: no finished or
\* failed match is executed or rewritten again, its result is the one its
\* replay shows, and a score is the win of a finished ranked match.
ImplementsRecord == Record!Spec

-----------------------------------------------------------------------------
(* Progress.                                                                *)

\* A match whose creator was answered ok reaches a final status, also when the
\* first request died between its commit and its enqueue and was retried, and
\* also across SIGTERMs: unless a worker is killed or a BLPOP reply is lost.
AcceptedMatchEnds ==
  \A m \in Match \ Simulation :
    answer[m] = "ok" ~> status[m] \in Terminal \/ crashes > 0 \/ lostReplies > 0

-----------------------------------------------------------------------------
(* What the documents say and the code does not do.                         *)

\* A match that a killed worker held is resumed or failed after the restart.
CrashedMatchEnds ==
  \A m \in Match \ Simulation : answer[m] = "ok" ~> status[m] \in Terminal

\* A simulation whose creation was answered ok, by the first request or by a
\* retry with the same key, is executed.
AcceptedSimulationEnds ==
  \A m \in Simulation : answer[m] = "ok" ~> status[m] \in Terminal

\* A finished ranked match with a winner gets its rating event.
WonMatchIsScored ==
  \A m \in Ranked :
    status[m] = "FINISHED" /\ result[m] \in Wins ~> event[m] # "none"

\* A match recorded as finished was played to the end.
FinishedMatchWasPlayed ==
  \A m \in Match : status[m] = "FINISHED" => result[m] # "truncated"
=============================================================================
