--------------------------- MODULE MatchRecovery ---------------------------
(***************************************************************************)
(* Workers that play one match from a shared command log: MatchJournal     *)
(* writes every step and a checkpoint now and then, recover_engine plays   *)
(* the log again after a crash, FinalizationCoordinator uploads the replay *)
(* and settles.  A worker that was taken for dead may still be running     *)
(* when another one recovers the match.                                    *)
(*                                                                         *)
(* The engine is deterministic, so the batches played so far stand for the *)
(* board and for its hash.  The store answers one call at a time.          *)
(*                                                                         *)
(* A "variant of X" is a plausible slip in the code X models, which a run  *)
(* must catch; no specification uses it.                                   *)
(***************************************************************************)
EXTENDS Integers, Sequences, FiniteSets

CONSTANTS
  Worker,
  Batch,        \* what both players do in a step
  Steps,        \* the length of the match
  Interval,     \* checkpoint_interval, 20
  Garbage,      \* a hash that is not of any board
  MaxCrashes,   \* bound: crashes
  MaxCorrupt    \* bound: checkpoints that the store spoils

ASSUME MatchRecoveryAssumption ==
  /\ {Steps, Interval} \subseteq Nat \ {0}
  /\ {MaxCrashes, MaxCorrupt} \subseteq Nat
  /\ Garbage \notin Seq(Batch)

VARIABLES
  log,          \* command_logs: by step, the batch
  checkpoints,  \* by step, the hash
  worker,       \* what each worker does, its board, the checkpoint it recovered from
  results,      \* the boards that were settled
  crashes, corrupt

vars == <<log, checkpoints, worker, results, crashes, corrupt>>

Hash == Seq(Batch) \cup {Garbage}
NoCheckpoint == [step |-> 0, hash |-> <<>>]
At == {"down", "recover", "turn", "append", "checkpoint", "upload", "settle",
       "finished", "failed"}
Down == [at |-> "down", board |-> <<>>, seen |-> NoCheckpoint]

TypeOK ==
  /\ DOMAIN log \subseteq 0 .. Steps - 1 /\ \A s \in DOMAIN log : log[s] \in Batch
  /\ DOMAIN checkpoints \subseteq 1 .. Steps
  /\ \A s \in DOMAIN checkpoints : checkpoints[s] \in Hash
  /\ worker \in [Worker -> [at : At, board : Seq(Batch),
                            seen : [step : 0 .. Steps, hash : Hash]]]
  /\ \A w \in Worker : Len(worker[w].board) <= Steps
  /\ results \subseteq Seq(Batch)
  /\ crashes \in 0 .. MaxCrashes /\ corrupt \in 0 .. MaxCorrupt

Init ==
  /\ log = <<>> /\ checkpoints = <<>>
  /\ worker = [w \in Worker |-> Down]
  /\ results = {}
  /\ crashes = 0 /\ corrupt = 0

Put(f, key, value) == [k \in DOMAIN f \cup {key} |-> IF k = key THEN value ELSE f[k]]

\* A variant of Conflicts that lets the last writer win.
ConflictsNever(f, key, value) == FALSE

\* RecoveryConflict: another value is there already.
Conflicts(f, key, value) == key \in DOMAIN f /\ f[key] # value

Goes(w, at) == worker' = [worker EXCEPT ![w].at = at]
Last(board) == board[Len(board)]

\* A variant of Over that is one step late.
OverLate(board) == Len(board) > Steps

\* The engine is done.
Over(board) == Len(board) >= Steps

\* A variant of Then that writes the checkpoint before the command.
ThenCheckpointFirst(at, n) ==
  CASE at = "turn" -> IF n % Interval = 0 THEN "checkpoint" ELSE "append"
    [] at = "checkpoint" -> "append"
    [] at = "append" -> "turn"

\* MatchJournal.record: after a step the command, and the checkpoint if it is due.
Then(at, n) ==
  CASE at = "turn" -> "append"
    [] at = "append" -> IF n % Interval = 0 THEN "checkpoint" ELSE "turn"
    [] at = "checkpoint" -> "turn"

-----------------------------------------------------------------------------
\* recover_engine reads the newest checkpoint first.
ReadCheckpoint(w) ==
  /\ worker[w].at = "down"
  /\ \/ /\ DOMAIN checkpoints = {}
        /\ worker' = [worker EXCEPT ![w].at = "recover", ![w].seen = NoCheckpoint]
     \/ \E s \in DOMAIN checkpoints :
          /\ \A t \in DOMAIN checkpoints : t <= s
          /\ worker' = [worker EXCEPT ![w].at = "recover",
                                      ![w].seen = [step |-> s, hash |-> checkpoints[s]]]
  /\ UNCHANGED <<log, checkpoints, results, crashes, corrupt>>

\* Then it plays the log, which must have no gap, and compares at that checkpoint's
\* step, if the log gets there.
ReplayLog(w) ==
  LET n == Cardinality(DOMAIN log)
      board == [i \in 1 .. n |-> log[i - 1]]
      seen == worker[w].seen
  IN /\ worker[w].at = "recover"
     /\ IF DOMAIN log # 0 .. n - 1
           \/ (seen.step \in 1 .. n /\ SubSeq(board, 1, seen.step) # seen.hash)
        THEN Goes(w, "failed")
        ELSE worker' = [worker EXCEPT ![w].at = "turn", ![w].board = board]
     /\ UNCHANGED <<log, checkpoints, results, crashes, corrupt>>

PlayStep(w) ==
  /\ worker[w].at = "turn"
  /\ ~ Over(worker[w].board)
  /\ \E b \in Batch :
       worker' = [worker EXCEPT ![w].at = Then("turn", Len(worker[w].board) + 1),
                                ![w].board = Append(@, b)]
  /\ UNCHANGED <<log, checkpoints, results, crashes, corrupt>>

\* The answer of the store may be lost, and the call made again.
AppendCommand(w) ==
  LET board == worker[w].board
      step == Len(board) - 1
  IN /\ worker[w].at = "append"
     /\ IF Conflicts(log, step, Last(board))
        THEN Goes(w, "failed") /\ UNCHANGED log
        ELSE /\ log' = Put(log, step, Last(board))
             /\ \E answered \in BOOLEAN :
                  Goes(w, IF answered THEN Then("append", Len(board)) ELSE "append")
     /\ UNCHANGED <<checkpoints, results, crashes, corrupt>>

WriteCheckpoint(w) ==
  LET board == worker[w].board IN
  /\ worker[w].at = "checkpoint"
  /\ IF Conflicts(checkpoints, Len(board), board)
     THEN Goes(w, "failed") /\ UNCHANGED checkpoints
     ELSE /\ checkpoints' = Put(checkpoints, Len(board), board)
          /\ Goes(w, Then("checkpoint", Len(board)))
  /\ UNCHANGED <<log, results, crashes, corrupt>>

EndMatch(w) ==
  /\ worker[w].at = "turn"
  /\ Over(worker[w].board)
  /\ Goes(w, "upload")
  /\ UNCHANGED <<log, checkpoints, results, crashes, corrupt>>

\* FinalizationCoordinator.finalize: an upload that fails is tried again.
UploadReplay(w) ==
  /\ worker[w].at = "upload"
  /\ Goes(w, "settle")
  /\ UNCHANGED <<log, checkpoints, results, crashes, corrupt>>

SettleRating(w) ==
  /\ worker[w].at = "settle"
  /\ results' = results \cup {worker[w].board}
  /\ Goes(w, "finished")
  /\ UNCHANGED <<log, checkpoints, crashes, corrupt>>

Crash(w) ==
  /\ worker[w].at \notin {"down", "finished", "failed"}
  /\ crashes < MaxCrashes
  /\ crashes' = crashes + 1
  /\ worker' = [worker EXCEPT ![w] = Down]
  /\ UNCHANGED <<log, checkpoints, results, corrupt>>

\* The store returns another hash than was written.
Spoil(s) ==
  /\ corrupt < MaxCorrupt
  /\ s \in DOMAIN checkpoints
  /\ checkpoints' = [checkpoints EXCEPT ![s] = Garbage]
  /\ corrupt' = corrupt + 1
  /\ UNCHANGED <<log, worker, results, crashes>>

Run(w) ==
  \/ ReadCheckpoint(w) \/ ReplayLog(w) \/ PlayStep(w) \/ AppendCommand(w)
  \/ WriteCheckpoint(w) \/ EndMatch(w) \/ UploadReplay(w) \/ SettleRating(w) \/ Crash(w)

Next == (\E w \in Worker : Run(w)) \/ (\E s \in 1 .. Steps : Spoil(s))

Spec == Init /\ [][Next]_vars

-----------------------------------------------------------------------------
(* Properties.                                                              *)

\* However workers crash, recover and overlap, one match has one result, and the log
\* is how it came about.
OneResult ==
  \A board \in results :
    /\ Len(board) = Steps
    /\ DOMAIN log = 0 .. Steps - 1
    /\ \A i \in 1 .. Steps : board[i] = log[i - 1]

\* No worker goes on from a board that the checkpoint it found contradicts, or that
\* ends before it: the newest checkpoint is always there to be compared.
RecoveredBoardsAgree ==
  \A w \in Worker :
    worker[w].at \notin {"down", "recover", "failed"} =>
      /\ worker[w].seen.step <= Len(worker[w].board)
      /\ SubSeq(worker[w].board, 1, worker[w].seen.step) = worker[w].seen.hash
=============================================================================
