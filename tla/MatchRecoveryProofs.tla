------------------------ MODULE MatchRecoveryProofs ------------------------
(***************************************************************************)
(* What the journal, the recovery and the finalization of a match          *)
(* guarantee for every number of workers, crashes and spoiled checkpoints. *)
(***************************************************************************)
EXTENDS MatchRecovery, FiniteSetTheorems, TLAPS

\* The first n batches of a board are in the log.
InLog(board, n) == \A i \in 1 .. n : i - 1 \in DOMAIN log /\ log[i - 1] = board[i]

\* The log has no gap.
LogInv == \E n \in 0 .. Steps : log \in [0 .. n - 1 -> Batch]

\* A checkpoint is of a step whose command is in the log.
CheckpointInv == \A s \in DOMAIN checkpoints : s - 1 \in DOMAIN log

\* What the log knows of a worker's board.
BoardKnown(w) ==
  LET at == worker[w].at
      board == worker[w].board
  IN /\ at \in {"turn", "checkpoint", "upload", "settle", "finished"} =>
          InLog(board, Len(board))
     /\ at = "append" => Len(board) > 0 /\ InLog(board, Len(board) - 1)
     /\ at = "checkpoint" => Len(board) > 0
     /\ at \in {"upload", "settle", "finished"} => Len(board) = Steps

\* The checkpoint that a worker found is of a step the log reaches, and the worker's
\* board agrees with it.
SeenKnown(w) ==
  LET seen == worker[w].seen
      board == worker[w].board
  IN /\ seen.step = 0 => seen.hash = <<>>
     /\ seen.step > 0 => seen.step - 1 \in DOMAIN log
     /\ worker[w].at \notin {"down", "recover", "failed"} =>
          seen.step <= Len(board) /\ SubSeq(board, 1, seen.step) = seen.hash

WorkerInv == \A w \in Worker : BoardKnown(w) /\ SeenKnown(w)

\* What was settled is a whole match that the log knows.
ResultInv == \A board \in results : Len(board) = Steps /\ InLog(board, Steps)

RecoveryInv == TypeOK /\ LogInv /\ CheckpointInv /\ WorkerInv /\ ResultInv

LEMMA InvInit == Init => RecoveryInv
<1> SUFFICES ASSUME Init PROVE RecoveryInv
  OBVIOUS
<1> USE MatchRecoveryAssumption DEF Init
<1>1. log \in [0 .. 0 - 1 -> Batch] /\ DOMAIN log = {} /\ DOMAIN checkpoints = {}
  OBVIOUS
<1>2. TypeOK
  BY <1>1 DEF TypeOK, Down, NoCheckpoint, At, Hash
<1>3. LogInv /\ CheckpointInv
  BY <1>1 DEF LogInv, CheckpointInv
<1>4. WorkerInv
  <2>1. \A w \in Worker : /\ worker[w].at = "down"
                          /\ worker[w].seen.step = 0 /\ worker[w].seen.hash = <<>>
    BY DEF Down, NoCheckpoint
  <2> QED
    BY <2>1 DEF WorkerInv, BoardKnown, SeenKnown
<1>5. ResultInv
  BY DEF ResultInv
<1> QED
  BY <1>2, <1>3, <1>4, <1>5 DEF RecoveryInv

LogGrows == \A i \in DOMAIN log : i \in DOMAIN log' /\ log'[i] = log[i]

\* A worker that does nothing loses nothing by a log that grows.
LEMMA OthersKnow ==
  ASSUME NEW w \in Worker, LogGrows, UNCHANGED worker[w], BoardKnown(w), SeenKnown(w)
  PROVE  BoardKnown(w)' /\ SeenKnown(w)'
<1> DEFINE board == worker[w].board
<1>1. ASSUME NEW n, InLog(board, n) PROVE InLog(board, n)'
  BY <1>1 DEF InLog, LogGrows
<1>2. BoardKnown(w)'
  <2>1. InLog(board, Len(board)) => InLog(board, Len(board))'
    BY <1>1
  <2>2. InLog(board, Len(board) - 1) => InLog(board, Len(board) - 1)'
    BY <1>1
  <2> QED
    BY <2>1, <2>2 DEF BoardKnown
<1>3. SeenKnown(w)'
  BY DEF SeenKnown, LogGrows
<1> QED
  BY <1>2, <1>3

\* What a step must show that changes one worker and lets the log grow.
LEMMA WorkerStep ==
  ASSUME NEW w \in Worker, RecoveryInv, LogGrows, UNCHANGED results,
         \A r \in Worker \ {w} : worker'[r] = worker[r],
         BoardKnown(w)', SeenKnown(w)'
  PROVE  WorkerInv' /\ ResultInv'
<1>1. ASSUME NEW r \in Worker PROVE BoardKnown(r)' /\ SeenKnown(r)'
  <2>1. CASE r = w
    BY <2>1
  <2>2. CASE r # w
    BY <2>2, OthersKnow DEF RecoveryInv, WorkerInv
  <2> QED
    BY <2>1, <2>2
<1>2. ResultInv'
  BY DEF RecoveryInv, ResultInv, InLog, LogGrows
<1> QED
  BY <1>1, <1>2 DEF WorkerInv

Entry == [at : At, board : Seq(Batch), seen : [step : 0 .. Steps, hash : Hash]]

\* One worker changes to a typed entry.
LEMMA WorkerTyped ==
  ASSUME NEW w \in Worker, worker \in [Worker -> Entry],
         NEW to \in Entry, worker' = [worker EXCEPT ![w] = to]
  PROVE  worker' \in [Worker -> Entry]
OBVIOUS

\* The steps that leave the store alone.
LEMMA LocalSteps ==
  ASSUME NEW w \in Worker, RecoveryInv,
         ReadCheckpoint(w) \/ ReplayLog(w) \/ PlayStep(w) \/ EndMatch(w)
           \/ UploadReplay(w) \/ Crash(w)
  PROVE  RecoveryInv'
<1> USE DEF At, Goes
<1>0. Steps \in Nat \ {0} /\ MaxCrashes \in Nat
  BY MatchRecoveryAssumption
<1> USE <1>0
<1>1. UNCHANGED <<log, checkpoints, results, corrupt>>
  BY DEF ReadCheckpoint, ReplayLog, PlayStep, EndMatch, UploadReplay, Crash
<1>2. LogGrows /\ LogInv' /\ CheckpointInv'
  BY <1>1 DEF RecoveryInv, LogGrows, LogInv, CheckpointInv
<1>3. SUFFICES TypeOK' /\ BoardKnown(w)' /\ SeenKnown(w)'
  <2>1. \A r \in Worker \ {w} : worker'[r] = worker[r]
    BY DEF ReadCheckpoint, ReplayLog, PlayStep, EndMatch, UploadReplay, Crash,
           RecoveryInv, TypeOK
  <2> QED
    BY <1>1, <1>2, <2>1, WorkerStep DEF RecoveryInv
<1>4. BoardKnown(w) /\ SeenKnown(w) /\ TypeOK
  BY DEF RecoveryInv, WorkerInv
<1>5. CASE ReadCheckpoint(w)
  <2> DEFINE Reads(seen) == worker' = [worker EXCEPT ![w].at = "recover", ![w].seen = seen]
             Found(seen) == /\ seen \in [step : 0 .. Steps, hash : Hash]
                            /\ seen.step = 0 => seen.hash = <<>>
                            /\ seen.step > 0 => seen.step - 1 \in DOMAIN log
  <2>1. PICK seen : Reads(seen) /\ Found(seen)
    <3>1. Found(NoCheckpoint)
      <4>1. <<>> \in Seq(Batch)
        OBVIOUS
      <4> QED
        BY <4>1 DEF NoCheckpoint, Hash
    <3>2. ASSUME NEW s \in DOMAIN checkpoints
          PROVE  Found([step |-> s, hash |-> checkpoints[s]])
      BY <1>4 DEF TypeOK, RecoveryInv, CheckpointInv
    <3>3. \/ Reads(NoCheckpoint)
          \/ \E s \in DOMAIN checkpoints : Reads([step |-> s, hash |-> checkpoints[s]])
      BY <1>5 DEF ReadCheckpoint
    <3> HIDE DEF Reads, Found
    <3> QED
      BY <3>1, <3>2, <3>3
  <2>2. TypeOK'
    <3>1. worker' \in [Worker -> [at : At, board : Seq(Batch),
                                  seen : [step : 0 .. Steps, hash : Hash]]]
      <4> DEFINE to == [worker[w] EXCEPT !.at = "recover", !.seen = seen]
      <4>1. worker[w] \in Entry /\ worker \in [Worker -> Entry]
        BY <1>4 DEF TypeOK, Entry
      <4>2. to \in Entry
        BY <2>1, <4>1 DEF Entry
      <4>3. worker' = [worker EXCEPT ![w] = to]
        BY <2>1, <4>1
      <4> HIDE DEF to
      <4> QED
        BY <4>1, <4>2, <4>3, WorkerTyped DEF Entry
    <3>2. \A r \in Worker : worker'[r].board = worker[r].board
      BY <1>4, <2>1 DEF TypeOK
    <3> QED
      BY <1>1, <1>4, <1>5, <3>1, <3>2 DEF TypeOK, ReadCheckpoint
  <2>3. worker'[w].at = "recover" /\ worker'[w].seen = seen
    BY <1>4, <2>1 DEF TypeOK
  <2>4. BoardKnown(w)'
    BY <2>3 DEF BoardKnown
  <2>5. SeenKnown(w)'
    BY <1>1, <2>1, <2>3 DEF SeenKnown
  <2> QED
    BY <2>2, <2>4, <2>5
<1>6. CASE ReplayLog(w)
  <2>1. PICK n \in 0 .. Steps : log \in [0 .. n - 1 -> Batch]
    BY <1>4 DEF RecoveryInv, LogInv
  <2>2. Cardinality(DOMAIN log) = n
    BY <2>1, FS_Interval
  <2>3. PICK board \in Seq(Batch) :
          board = [i \in 1 .. n |-> log[i - 1]] /\ Len(board) = n
    BY <2>1
  <2> DEFINE seen == worker[w].seen
  <2>4. UNCHANGED <<crashes, corrupt>>
    BY <1>6 DEF ReplayLog
  <2>5. seen.step \in 0 .. Steps
    BY <1>4 DEF TypeOK
  <2>6. CASE worker' = [worker EXCEPT ![w].at = "failed"]
    <3>1. TypeOK'
      BY <1>1, <1>4, <2>4, <2>6 DEF TypeOK
    <3>2. worker'[w].at = "failed" /\ worker'[w].seen = seen
      BY <1>4, <2>6 DEF TypeOK
    <3> QED
      BY <1>1, <1>4, <3>1, <3>2 DEF BoardKnown, SeenKnown
  <2>7. CASE /\ worker' = [worker EXCEPT ![w].at = "turn", ![w].board = board]
             /\ ~ (seen.step \in 1 .. n /\ SubSeq(board, 1, seen.step) # seen.hash)
    <3>1. TypeOK'
      <4>1. worker' \in [Worker -> [at : At, board : Seq(Batch),
                                    seen : [step : 0 .. Steps, hash : Hash]]]
        <5> DEFINE to == [worker[w] EXCEPT !.at = "turn", !.board = board]
        <5>1. worker[w] \in Entry /\ worker \in [Worker -> Entry]
          BY <1>4 DEF TypeOK, Entry
        <5>2. to \in Entry
          BY <2>3, <5>1 DEF Entry
        <5>3. worker' = [worker EXCEPT ![w] = to]
          BY <2>7, <5>1
        <5> HIDE DEF to
        <5> QED
          BY <5>1, <5>2, <5>3, WorkerTyped DEF Entry
      <4>2. Len(board) <= Steps
        BY <2>1, <2>3
      <4>3. \A r \in Worker : Len(worker'[r].board) <= Steps
        BY <1>4, <2>7, <4>2 DEF TypeOK
      <4> QED
        BY <1>1, <1>4, <2>4, <4>1, <4>3 DEF TypeOK
    <3>2. worker'[w].at = "turn" /\ worker'[w].board = board /\ worker'[w].seen = seen
      BY <1>4, <2>7 DEF TypeOK
    <3>3. BoardKnown(w)'
      <4>1. InLog(board, n)'
        BY <1>1, <2>1 DEF InLog
      <4> QED
        BY <2>3, <3>2, <4>1 DEF BoardKnown
    <3>4. seen.step <= n /\ SubSeq(board, 1, seen.step) = seen.hash
      <4>1. CASE seen.step = 0
        <5>1. SubSeq(board, 1, seen.step) = <<>>
          BY <2>3, <4>1
        <5>2. seen.hash = <<>>
          BY <1>4, <4>1 DEF SeenKnown
        <5> QED
          BY <2>3, <4>1, <5>1, <5>2
      <4>2. CASE seen.step > 0
        <5>1. seen.step - 1 \in 0 .. n - 1
          BY <1>4, <2>1, <4>2 DEF SeenKnown
        <5>2. seen.step \in 1 .. n
          BY <2>1, <2>5, <5>1
        <5> QED
          BY <2>7, <5>2
      <4> QED
        BY <2>5, <4>1, <4>2
    <3>5. SeenKnown(w)'
      BY <1>1, <1>4, <2>3, <3>2, <3>4 DEF SeenKnown
    <3> QED
      BY <3>1, <3>3, <3>5
  <2> QED
    BY <1>6, <2>2, <2>3, <2>6, <2>7, Zenon DEF ReplayLog
<1>7. CASE PlayStep(w)
  <2> DEFINE old == worker[w].board
             seen == worker[w].seen
  <2>1. PICK b \in Batch :
          worker' = [worker EXCEPT ![w].at = Then("turn", Len(old) + 1),
                                   ![w].board = Append(@, b)]
    BY <1>7 DEF PlayStep
  <2>2. /\ worker[w].at = "turn" /\ old \in Seq(Batch) /\ Len(old) \in Nat
        /\ Len(old) < Steps /\ UNCHANGED <<crashes, corrupt>>
    <3>1. old \in Seq(Batch) /\ Len(old) \in Nat
      BY <1>4 DEF TypeOK
    <3>2. worker[w].at = "turn" /\ ~ (Len(old) >= Steps) /\ UNCHANGED <<crashes, corrupt>>
      BY <1>7 DEF PlayStep, Over
    <3> QED
      BY <1>0, <3>1, <3>2
  <2>3. Then("turn", Len(old) + 1) = "append"
    BY DEF Then
  <2>4. /\ Append(old, b) \in Seq(Batch) /\ Len(Append(old, b)) = Len(old) + 1
        /\ \A i \in 1 .. Len(old) : Append(old, b)[i] = old[i]
    BY <2>2
  <2>5. /\ worker'[w].at = "append" /\ worker'[w].board = Append(old, b)
        /\ worker'[w].seen = seen
        /\ \A r \in Worker \ {w} : worker'[r] = worker[r]
    BY <1>4, <2>1, <2>3 DEF TypeOK
  <2>6. TypeOK'
    <3>1. worker' \in [Worker -> [at : At, board : Seq(Batch),
                                  seen : [step : 0 .. Steps, hash : Hash]]]
      <4> DEFINE to == [worker[w] EXCEPT !.at = "append", !.board = Append(old, b)]
      <4>1. worker[w] \in Entry /\ worker \in [Worker -> Entry]
        BY <1>4 DEF TypeOK, Entry
      <4>2. to \in Entry
        BY <2>4, <4>1 DEF Entry
      <4>3. worker' = [worker EXCEPT ![w] = to]
        BY <2>1, <2>3, <4>1
      <4> HIDE DEF to
      <4> QED
        BY <4>1, <4>2, <4>3, WorkerTyped DEF Entry
    <3>2. \A r \in Worker : Len(worker'[r].board) <= Steps
      <4>1. Len(Append(old, b)) <= Steps
        BY <1>0, <2>2, <2>4
      <4> QED
        BY <1>4, <2>5, <4>1 DEF TypeOK
    <3> QED
      BY <1>1, <1>4, <2>2, <3>1, <3>2 DEF TypeOK
  <2>7. BoardKnown(w)'
    <3>1. \A i \in 1 .. Len(old) : i - 1 \in DOMAIN log' /\ log'[i - 1] = Append(old, b)[i]
      <4>1. InLog(old, Len(old))
        BY <1>4, <2>2 DEF BoardKnown
      <4> QED
        BY <1>1, <2>4, <4>1 DEF InLog
    <3>2. Len(Append(old, b)) > 0 /\ Len(Append(old, b)) - 1 = Len(old)
      BY <2>2, <2>4
    <3> QED
      BY <2>5, <3>1, <3>2 DEF BoardKnown, InLog
  <2>8. SeenKnown(w)'
    <3>1. seen.step \in 0 .. Steps /\ seen.step <= Len(old)
      BY <1>4, <2>2 DEF TypeOK, SeenKnown
    <3>2. SubSeq(Append(old, b), 1, seen.step) = SubSeq(old, 1, seen.step)
      BY <2>2, <2>4, <3>1
    <3> QED
      BY <1>1, <1>4, <2>2, <2>4, <2>5, <3>1, <3>2 DEF SeenKnown
  <2> QED
    BY <2>6, <2>7, <2>8
<1>8. CASE EndMatch(w) \/ UploadReplay(w)
  <2>1. TypeOK'
    <3>1. UNCHANGED <<crashes, corrupt>> /\ \E at \in {"upload", "settle"} : Goes(w, at)
      BY <1>8 DEF EndMatch, UploadReplay
    <3>2. PICK at \in {"upload", "settle"} : worker' = [worker EXCEPT ![w].at = at]
      BY <3>1
    <3>3. /\ worker' \in [Worker -> [at : At, board : Seq(Batch),
                                     seen : [step : 0 .. Steps, hash : Hash]]]
          /\ \A r \in Worker : worker'[r].board = worker[r].board
      BY <1>4, <3>2 DEF TypeOK
    <3> QED
      BY <1>1, <1>4, <3>1, <3>3 DEF TypeOK
  <2>2. /\ worker'[w].board = worker[w].board /\ worker'[w].seen = worker[w].seen
        /\ worker'[w].at \in {"upload", "settle"}
        /\ worker[w].at \in {"turn", "upload"}
        /\ worker[w].at = "turn" => Over(worker[w].board)
    BY <1>4, <1>8 DEF TypeOK, EndMatch, UploadReplay
  <2>3. Len(worker[w].board) \in Nat /\ Len(worker[w].board) <= Steps
    BY <1>4 DEF TypeOK
  <2>4. BoardKnown(w)'
    BY <1>1, <1>4, <2>2, <2>3 DEF BoardKnown, Over, InLog
  <2>5. SeenKnown(w)'
    BY <1>1, <1>4, <2>2 DEF SeenKnown
  <2> QED
    BY <2>1, <2>4, <2>5
<1>9. CASE Crash(w)
  <2>1. worker'[w] = Down
    BY <1>4, <1>9 DEF TypeOK, Crash
  <2>2. TypeOK'
    BY <1>1, <1>4, <1>9 DEF TypeOK, Crash, Down, NoCheckpoint, Hash
  <2> QED
    BY <2>1, <2>2 DEF BoardKnown, SeenKnown, Down, NoCheckpoint
<1> QED
  BY <1>5, <1>6, <1>7, <1>8, <1>9

\* The command of the worker's last step goes to the end of the log, or is there.
LEMMA AppendStep ==
  ASSUME NEW w \in Worker, RecoveryInv, AppendCommand(w)
  PROVE  RecoveryInv'
<1> DEFINE board == worker[w].board
           step == Len(board) - 1
<1> USE DEF Goes
<1>0. Steps \in Nat \ {0} /\ Interval \in Nat \ {0}
  BY MatchRecoveryAssumption
<1>1. /\ TypeOK /\ BoardKnown(w) /\ SeenKnown(w)
      /\ UNCHANGED <<checkpoints, results, crashes, corrupt>>
      /\ worker[w].at = "append"
  BY DEF RecoveryInv, WorkerInv, AppendCommand
<1>2. /\ board \in Seq(Batch) /\ Len(board) \in 1 .. Steps /\ step \in 0 .. Steps - 1
      /\ Last(board) \in Batch /\ Last(board) = board[step + 1]
  <2>1. board \in Seq(Batch) /\ Len(board) \in Nat /\ Len(board) <= Steps
    BY <1>1 DEF TypeOK
  <2>2. Len(board) > 0
    BY <1>1 DEF BoardKnown
  <2> QED
    BY <1>0, <2>1, <2>2 DEF Last
<1>3. CASE Conflicts(log, step, Last(board))
  <2>1. worker' = [worker EXCEPT ![w].at = "failed"] /\ UNCHANGED log
    BY <1>3 DEF AppendCommand
  <2>2. TypeOK'
    BY <1>1, <2>1 DEF TypeOK, At
  <2>3. /\ \A r \in Worker \ {w} : worker'[r] = worker[r]
        /\ worker'[w].at = "failed" /\ worker'[w].seen = worker[w].seen
    BY <1>1, <2>1 DEF TypeOK
  <2>4. BoardKnown(w)' /\ SeenKnown(w)'
    BY <1>1, <2>1, <2>3 DEF BoardKnown, SeenKnown
  <2>5. LogGrows /\ LogInv' /\ CheckpointInv'
    BY <1>1, <2>1 DEF RecoveryInv, LogGrows, LogInv, CheckpointInv
  <2> QED
    BY <1>1, <2>2, <2>3, <2>4, <2>5, WorkerStep DEF RecoveryInv
<1>4. CASE ~ Conflicts(log, step, Last(board))
  <2>1. log' = Put(log, step, Last(board))
    BY <1>4 DEF AppendCommand
  <2>2. PICK to \in {"append", Then("append", Len(board))} :
          worker' = [worker EXCEPT ![w].at = to]
    BY <1>4 DEF AppendCommand
  <2>3. to \in {"append", "checkpoint", "turn"}
    BY <2>2 DEF Then
  <2>4. /\ \A r \in Worker \ {w} : worker'[r] = worker[r]
        /\ worker'[w].at = to /\ worker'[w].seen = worker[w].seen
        /\ worker'[w].board = board
    BY <1>1, <2>2 DEF TypeOK
  <2>5. /\ LogGrows
        /\ step \in DOMAIN log' /\ log'[step] = Last(board)
        /\ DOMAIN log' = DOMAIN log \cup {step}
    BY <1>4, <2>1 DEF LogGrows, Put, Conflicts
  <2>6. LogInv'
    <3>1. PICK n \in 0 .. Steps : log \in [0 .. n - 1 -> Batch]
      BY DEF RecoveryInv, LogInv
    <3>2. step <= n
      <4>0. n \in Nat
        BY <1>0, <3>1
      <4>1. CASE step = 0
        BY <1>2, <4>0, <4>1
      <4>2. CASE step > 0
        <5>1. step - 1 \in DOMAIN log
          BY <1>1, <1>2, <4>2 DEF BoardKnown, InLog
        <5> QED
          BY <1>2, <3>1, <5>1
      <4> QED
        BY <1>2, <4>1, <4>2
    <3>3. CASE step < n
      <4>1. log' \in [0 .. n - 1 -> Batch]
        BY <1>2, <2>1, <3>1, <3>3 DEF Put
      <4> QED
        BY <4>1 DEF LogInv
    <3>4. CASE step = n
      <4>1. (0 .. n - 1) \cup {n} = 0 .. n
        BY <3>1
      <4>2. log' \in [0 .. n -> Batch]
        BY <1>2, <2>1, <3>1, <3>4, <4>1 DEF Put
      <4>3. n + 1 \in 0 .. Steps /\ (n + 1) - 1 = n
        BY <1>0, <1>2, <3>1, <3>4
      <4> QED
        BY <4>2, <4>3 DEF LogInv
    <3> QED
      BY <1>2, <3>1, <3>2, <3>3, <3>4
  <2>7. CheckpointInv'
    BY <1>1, <2>5 DEF RecoveryInv, CheckpointInv, LogGrows
  <2>8. TypeOK'
    <3>1. DOMAIN log' \subseteq 0 .. Steps - 1 /\ \A s \in DOMAIN log' : log'[s] \in Batch
      BY <1>1, <1>2, <2>1 DEF TypeOK, Put
    <3>2. worker' \in [Worker -> [at : At, board : Seq(Batch),
                                  seen : [step : 0 .. Steps, hash : Hash]]]
      BY <1>1, <2>2, <2>3 DEF TypeOK, At
    <3>3. \A r \in Worker : worker'[r].board = worker[r].board
      BY <1>1, <2>4
    <3> QED
      BY <1>1, <3>1, <3>2, <3>3 DEF TypeOK
  <2>9. \A i \in 1 .. Len(board) : i - 1 \in DOMAIN log' /\ log'[i - 1] = board[i]
    <3>1. TAKE i \in 1 .. Len(board)
    <3>2. CASE i = Len(board)
      BY <1>2, <2>5, <3>2
    <3>3. CASE i # Len(board)
      <4>1. i \in 1 .. Len(board) - 1
        BY <1>2, <3>3
      <4> QED
        BY <1>1, <2>5, <4>1 DEF BoardKnown, InLog, LogGrows
    <3> QED
      BY <3>2, <3>3
  <2>10. BoardKnown(w)'
    BY <1>2, <2>3, <2>4, <2>9 DEF BoardKnown, InLog
  <2>11. SeenKnown(w)'
    BY <1>1, <2>4, <2>5 DEF SeenKnown, LogGrows
  <2> QED
    BY <1>1, <2>4, <2>5, <2>6, <2>7, <2>8, <2>10, <2>11, WorkerStep DEF RecoveryInv
<1> QED
  BY <1>3, <1>4

\* A checkpoint is written when its command is in the log.
LEMMA CheckpointStep ==
  ASSUME NEW w \in Worker, RecoveryInv, WriteCheckpoint(w)
  PROVE  RecoveryInv'
<1> DEFINE board == worker[w].board
<1> USE DEF Goes
<1>1. /\ TypeOK /\ BoardKnown(w) /\ SeenKnown(w)
      /\ UNCHANGED <<log, results, crashes, corrupt>>
      /\ worker[w].at = "checkpoint"
  BY DEF RecoveryInv, WorkerInv, WriteCheckpoint
<1>2. board \in Seq(Batch) /\ Len(board) \in 1 .. Steps /\ Len(board) - 1 \in DOMAIN log
  <2>1. board \in Seq(Batch) /\ Len(board) \in Nat /\ Len(board) <= Steps
    BY <1>1 DEF TypeOK
  <2>2. Len(board) > 0 /\ InLog(board, Len(board))
    BY <1>1 DEF BoardKnown
  <2> QED
    BY MatchRecoveryAssumption, <2>1, <2>2 DEF InLog
<1>3. PICK to \in {"failed", "turn"} : worker' = [worker EXCEPT ![w].at = to]
  BY DEF WriteCheckpoint, Then
<1>4. checkpoints' = checkpoints \/ checkpoints' = Put(checkpoints, Len(board), board)
  BY DEF WriteCheckpoint
<1>5. /\ \A r \in Worker \ {w} : worker'[r] = worker[r]
      /\ worker'[w].at = to /\ worker'[w].seen = worker[w].seen
      /\ worker'[w].board = board
  BY <1>1, <1>3 DEF TypeOK
<1>6. TypeOK'
  <2>1. /\ DOMAIN checkpoints' \subseteq 1 .. Steps
        /\ \A s \in DOMAIN checkpoints' : checkpoints'[s] \in Hash
    BY <1>1, <1>2, <1>4 DEF TypeOK, Put, Hash
  <2>2. worker' \in [Worker -> [at : At, board : Seq(Batch),
                                seen : [step : 0 .. Steps, hash : Hash]]]
    BY <1>1, <1>3 DEF TypeOK, At
  <2>3. \A r \in Worker : worker'[r].board = worker[r].board
    BY <1>5
  <2> QED
    BY <1>1, <2>1, <2>2, <2>3 DEF TypeOK
<1>7. LogGrows /\ LogInv'
  BY <1>1 DEF RecoveryInv, LogGrows, LogInv
<1>8. CheckpointInv'
  BY <1>1, <1>2, <1>4 DEF RecoveryInv, CheckpointInv, Put
<1>9. BoardKnown(w)' /\ SeenKnown(w)'
  BY <1>1, <1>5 DEF BoardKnown, SeenKnown, InLog
<1> QED
  BY <1>1, <1>5, <1>6, <1>7, <1>8, <1>9, WorkerStep DEF RecoveryInv

\* A whole board that the log knows is settled.
LEMMA SettleStep ==
  ASSUME NEW w \in Worker, RecoveryInv, SettleRating(w)
  PROVE  RecoveryInv'
<1> DEFINE board == worker[w].board
<1> USE DEF Goes
<1>1. /\ TypeOK /\ BoardKnown(w) /\ SeenKnown(w)
      /\ UNCHANGED <<log, checkpoints, crashes, corrupt>>
      /\ worker[w].at = "settle"
      /\ worker' = [worker EXCEPT ![w].at = "finished"]
      /\ results' = results \cup {board}
  BY DEF RecoveryInv, WorkerInv, SettleRating
<1>2. board \in Seq(Batch) /\ Len(board) = Steps /\ InLog(board, Steps)
  BY <1>1 DEF TypeOK, BoardKnown
<1>3. /\ \A r \in Worker \ {w} : worker'[r] = worker[r]
      /\ worker'[w].at = "finished" /\ worker'[w].seen = worker[w].seen
      /\ worker'[w].board = board
  BY <1>1 DEF TypeOK
<1>4. TypeOK'
  <2>1. worker' \in [Worker -> [at : At, board : Seq(Batch),
                                seen : [step : 0 .. Steps, hash : Hash]]]
    BY <1>1 DEF TypeOK, At
  <2>2. \A r \in Worker : worker'[r].board = worker[r].board
    BY <1>3
  <2> QED
    BY <1>1, <1>2, <2>1, <2>2 DEF TypeOK
<1>5. LogGrows /\ LogInv' /\ CheckpointInv'
  BY <1>1 DEF RecoveryInv, LogGrows, LogInv, CheckpointInv
<1>6. BoardKnown(w)' /\ SeenKnown(w)'
  BY <1>1, <1>2, <1>3 DEF BoardKnown, SeenKnown, InLog
<1>7. WorkerInv'
  <2>1. ASSUME NEW r \in Worker PROVE BoardKnown(r)' /\ SeenKnown(r)'
    <3>1. CASE r = w
      BY <1>6, <3>1
    <3>2. CASE r # w
      BY <1>3, <1>5, <3>2, OthersKnow DEF RecoveryInv, WorkerInv
    <3> QED
      BY <3>1, <3>2
  <2> QED
    BY <2>1 DEF WorkerInv
<1>8. ResultInv'
  BY <1>1, <1>2 DEF RecoveryInv, ResultInv, InLog
<1> QED
  BY <1>4, <1>5, <1>7, <1>8 DEF RecoveryInv

\* The store spoils a checkpoint: nobody's board or log changes.
LEMMA SpoilStep ==
  ASSUME NEW s \in 1 .. Steps, RecoveryInv, Spoil(s)
  PROVE  RecoveryInv'
<1>1. /\ TypeOK /\ UNCHANGED <<log, worker, results, crashes>>
      /\ s \in DOMAIN checkpoints /\ corrupt < MaxCorrupt /\ corrupt' = corrupt + 1
      /\ checkpoints' = [checkpoints EXCEPT ![s] = Garbage]
  BY DEF RecoveryInv, Spoil
<1>2. TypeOK'
  BY <1>1, MatchRecoveryAssumption DEF TypeOK, Hash
<1>3. LogInv' /\ CheckpointInv' /\ ResultInv'
  BY <1>1 DEF RecoveryInv, LogInv, CheckpointInv, ResultInv, InLog
<1>4. WorkerInv'
  BY <1>1 DEF RecoveryInv, WorkerInv, BoardKnown, SeenKnown, InLog
<1> QED
  BY <1>2, <1>3, <1>4 DEF RecoveryInv

LEMMA RecoveryInvariant == Spec => []RecoveryInv
<1>1. RecoveryInv /\ [Next]_vars => RecoveryInv'
  <2> SUFFICES ASSUME RecoveryInv, [Next]_vars PROVE RecoveryInv'
    OBVIOUS
  <2>1. CASE UNCHANGED vars
    BY <2>1 DEF vars, RecoveryInv, TypeOK, LogInv, CheckpointInv, WorkerInv,
                BoardKnown, SeenKnown, ResultInv, InLog
  <2>2. ASSUME NEW w \in Worker, Run(w) PROVE RecoveryInv'
    BY <2>2, LocalSteps, AppendStep, CheckpointStep, SettleStep DEF Run
  <2>3. ASSUME NEW s \in 1 .. Steps, Spoil(s) PROVE RecoveryInv'
    BY <2>3, SpoilStep
  <2> QED
    BY <2>1, <2>2, <2>3 DEF Next
<1> QED
  BY <1>1, InvInit, PTL DEF Spec

\* Recovery types.  The log, the checkpoints, the boards and the results have their
\* types, and no log or board is longer than the match.
THEOREM RecoveryTyped == Spec => []TypeOK
<1>1. RecoveryInv => TypeOK
  BY DEF RecoveryInv
<1> QED
  BY <1>1, RecoveryInvariant, PTL

\* One result.  However workers crash, recover and overlap, what is settled is the
\* match in the log, and so always the same.
THEOREM ResultIsUnique == Spec => []OneResult
<1>1. RecoveryInv => OneResult
  <2> SUFFICES ASSUME RecoveryInv, NEW board \in results
               PROVE  /\ Len(board) = Steps
                      /\ DOMAIN log = 0 .. Steps - 1
                      /\ \A i \in 1 .. Steps : board[i] = log[i - 1]
    BY DEF OneResult
  <2>1. Len(board) = Steps /\ InLog(board, Steps)
    BY DEF RecoveryInv, ResultInv
  <2>2. DOMAIN log \subseteq 0 .. Steps - 1
    BY DEF RecoveryInv, TypeOK
  <2>3. ASSUME NEW s \in 0 .. Steps - 1 PROVE s \in DOMAIN log
    <3>1. s + 1 \in 1 .. Steps /\ (s + 1) - 1 = s
      BY MatchRecoveryAssumption
    <3> QED
      BY <2>1, <3>1 DEF InLog
  <2> QED
    BY <2>1, <2>2, <2>3 DEF InLog
<1> QED
  BY <1>1, RecoveryInvariant, PTL

\* Nothing to compare is missed.  A worker that goes on after a recovery reached the
\* step of the checkpoint it had found, and agreed with it.
THEOREM RecoveryAgrees == Spec => []RecoveredBoardsAgree
<1>1. RecoveryInv => RecoveredBoardsAgree
  BY DEF RecoveryInv, WorkerInv, SeenKnown, RecoveredBoardsAgree
<1> QED
  BY <1>1, RecoveryInvariant, PTL
=============================================================================
