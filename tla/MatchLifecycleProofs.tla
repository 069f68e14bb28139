------------------------ MODULE MatchLifecycleProofs ------------------------
(***************************************************************************)
(* MatchLifecycle for every number of matches, workers, handlers, retries, *)
(* crashes and signals.                                                    *)
(***************************************************************************)
EXTENDS MatchLifecycleProps, SequenceTheorems, TLAPS

-----------------------------------------------------------------------------
(* Type correctness.                                                        *)

\* What the outcome of a worker may be where it is written to a row.
OutcomesKnown ==
  \A w \in Worker :
    /\ pc[w] \in {"persist", "attach", "finish", "settle"} => outcome[w] # "none"
    /\ pc[w] = "settle" => outcome[w] \in Wins /\ held[w] \in Ranked

Typed == TypeOK /\ OutcomesKnown

LEMMA TypedInit == Init => Typed
  BY DEF Init, Typed, TypeOK, OutcomesKnown, RecordsOK, ApiOK, WorkersOK, BudgetsOK,
         HandlerState, Status, Pc, Outcomes

LEMMA TypedApi ==
  ASSUME Typed, ApiNext
  PROVE  Typed'
<1> USE LifecycleAssumption DEF Typed, TypeOK
<1>1. PICK h \in Handler :
        (\E m \in Match : Receive(h, m)) \/ Insert(h) \/ Enqueue(h) \/ RequestFails(h)
  BY DEF ApiNext
<1>2. /\ WorkersOK'
      /\ OutcomesKnown'
      /\ result' = result /\ replay' = replay /\ event' = event
  BY <1>1 DEF Receive, Insert, Enqueue, RequestFails, records, workers,
              WorkersOK, OutcomesKnown
<1>3. ASSUME NEW m \in Match, Receive(h, m) PROVE Typed'
  <2>1. RecordsOK' /\ BudgetsOK'
    BY <1>3 DEF Receive, records, RecordsOK, BudgetsOK
  <2>2. \A p \in {"insert", "enqueue"} : [pc |-> p, match |-> m] \in HandlerState
    BY DEF HandlerState
  <2>3. ApiOK'
    BY <1>3, <2>2 DEF Receive, Replayed, Reply, GoHandler, ApiOK
  <2> QED
    BY <1>2, <2>1, <2>3
<1>4. ASSUME Insert(h) PROVE Typed'
  <2>1. handler[h].match \in Match
    BY <1>4 DEF Insert, ApiOK, HandlerState, IdleHandler
  <2>2. RecordsOK' /\ BudgetsOK'
    BY <1>4, <2>1 DEF Insert, budgets, RecordsOK, BudgetsOK, Status
  <2>3. /\ [pc |-> "enqueue", match |-> handler[h].match] \in HandlerState
        /\ IdleHandler \in HandlerState
    BY <2>1 DEF HandlerState
  <2>4. ApiOK'
    BY <1>4, <2>1, <2>3 DEF Insert, Reply, GoHandler, ApiOK
  <2> QED
    BY <1>2, <2>2, <2>4
<1>5. ASSUME Enqueue(h) \/ RequestFails(h) PROVE Typed'
  <2>1. handler[h].match \in Match
    BY <1>5 DEF Enqueue, RequestFails, ApiOK, HandlerState, IdleHandler
  <2>2. RecordsOK' /\ BudgetsOK'
    <3>1. RecordsOK'
      BY <1>5 DEF Enqueue, RequestFails, records, RecordsOK
    <3>2. UNCHANGED <<requests, crashes, lostReplies, stops>>
      BY <1>5 DEF Enqueue, RequestFails, budgets
    <3>3. requestFaults' \in Nat
      BY SMTT(30), <1>5 DEF Enqueue, RequestFails, budgets, BudgetsOK
    <3> QED
      BY <3>1, <3>2, <3>3 DEF BudgetsOK
  <2>3. IdleHandler \in HandlerState
    BY DEF HandlerState
  <2>4. queue' \in Seq(Match)
    <3>1. queue \in Seq(Match) /\ Append(queue, handler[h].match) \in Seq(Match)
      BY <2>1, AppendProperties DEF ApiOK
    <3> QED
      BY <1>5, <3>1 DEF Enqueue, RequestFails
  <2>5. ApiOK'
    BY SMTT(30), <1>5, <2>1, <2>3, <2>4 DEF Enqueue, RequestFails, Reply, ApiOK
  <2> QED
    BY <1>2, <2>2, <2>5
<1> QED
  BY <1>1, <1>3, <1>4, <1>5

LEMMA TypedWorker ==
  ASSUME Typed, NEW w \in Worker, Advance(w) \/ Disturb(w)
  PROVE  Typed'
<1> USE LifecycleAssumption DEF Typed, TypeOK
<1>1. BudgetsOK'
  BY SMTT(30) DEF Advance, Disturb, Pop, Load, Skip, Claim, Start, EndMatch, Truncate,
         PersistReplay, AttachReplay, Finish, Settle, CheckFailed, WriteFailed,
         Exit, Restart, PopLost, Raise, Stop, Crash, workers, budgets, BudgetsOK
<1>2. ApiOK'
  <2>1. queue # <<>> => Head(queue) \in Match /\ Tail(queue) \in Seq(Match)
    BY HeadTailProperties DEF ApiOK
  <2>2. CASE Pop(w) \/ PopLost(w)
    BY <2>1, <2>2 DEF Pop, PopLost, ApiOK
  <2>3. CASE UNCHANGED <<queue, handler, answer>>
    BY <2>3 DEF ApiOK
  <2> QED
    BY <2>2, <2>3 DEF Advance, Disturb, Load, Skip, Claim, Start, EndMatch, Truncate,
         PersistReplay, AttachReplay, Finish, Settle, CheckFailed, WriteFailed,
         Exit, Restart, Raise, Stop, Crash
<1>3. ASSUME NextItem(w), UNCHANGED <<records, queue>> \/ UNCHANGED records
      PROVE  RecordsOK' /\ WorkersOK' /\ OutcomesKnown'
  BY <1>3 DEF NextItem, records, RecordsOK, WorkersOK, OutcomesKnown, Pc
<1> USE <1>1, <1>2
<1>4. CASE Pop(w)
  <2>1. Head(queue) \in Match
    BY <1>4, HeadTailProperties DEF Pop, ApiOK
  <2>2. RecordsOK'
    BY <1>4 DEF Pop, records, RecordsOK
  <2>3. WorkersOK' /\ OutcomesKnown'
    BY <1>4, <2>1 DEF Pop, Go, WorkersOK, OutcomesKnown, Pc
  <2> QED
    BY <2>2, <2>3
<1>5. CASE PopLost(w) \/ Load(w) \/ Claim(w) \/ Restart(w) \/ Raise(w) \/ Stop(w) \/ Crash(w)
  <2>1. RecordsOK'
    BY <1>5 DEF PopLost, Load, Claim, Restart, Raise, Stop, Crash, records, RecordsOK, Status
  <2>2. CASE PopLost(w) \/ Load(w) \/ Claim(w) \/ Restart(w)
    BY <2>1, <2>2 DEF PopLost, Load, Claim, Restart, Go, workers, WorkersOK,
                      OutcomesKnown, Pc, Executing
  <2>3. CASE Raise(w) \/ Stop(w) \/ Crash(w)
    BY ZenonT(60), <2>1, <2>3 DEF Raise, Stop, Crash, WorkersOK, OutcomesKnown, Pc, Executing
  <2> QED
    BY <1>5, <2>2, <2>3
<1>6. CASE Start(w) \/ EndMatch(w) \/ Truncate(w) \/ PersistReplay(w) \/ AttachReplay(w)
  <2>1. RecordsOK'
    BY <1>6 DEF Start, EndMatch, Truncate, PersistReplay, AttachReplay, records,
                RecordsOK, WorkersOK, Status
  <2>2. CASE Start(w) \/ EndMatch(w) \/ Truncate(w)
    BY <2>1, <2>2 DEF Start, EndMatch, Truncate, Go, WorkersOK, OutcomesKnown, Pc,
                      Executing, Outcomes, Played, Wins
  <2>3. CASE PersistReplay(w) \/ AttachReplay(w)
    BY <2>1, <2>3 DEF PersistReplay, AttachReplay, Go, WorkersOK, OutcomesKnown, Pc, Executing
  <2> QED
    BY <1>6, <2>2, <2>3
<1>7. CASE Skip(w) \/ Exit(w)
  BY <1>3, <1>7 DEF Skip, Exit
<1>8. CASE CheckFailed(w)
  BY <1>3, <1>8 DEF CheckFailed, Go, records, RecordsOK, WorkersOK, OutcomesKnown, Pc
<1>9. CASE WriteFailed(w)
  BY <1>9 DEF WriteFailed, NextItem, RecordsOK, WorkersOK, OutcomesKnown, Pc, Status, Terminal
<1>10. CASE Finish(w)
  <2>1. RecordsOK'
    BY <1>10 DEF Finish, RecordsOK, WorkersOK, Status, Terminal
  <2>2. WorkersOK' /\ OutcomesKnown'
    BY ZenonT(60), <1>10 DEF Finish, NextItem, Go, WorkersOK, OutcomesKnown, Pc, Executing
  <2> QED
    BY <2>1, <2>2
<1>11. CASE Settle(w)
  BY <1>11 DEF Settle, NextItem, RecordsOK, WorkersOK, OutcomesKnown, Pc
<1> QED
  BY <1>4, <1>5, <1>6, <1>7, <1>8, <1>9, <1>10, <1>11 DEF Advance, Disturb

LEMMA TypedInvariant == Spec => []Typed
<1>1. Typed /\ [Next]_vars => Typed'
  <2>1. CASE UNCHANGED vars
    BY <2>1 DEF vars, Typed, TypeOK, OutcomesKnown, RecordsOK, ApiOK, WorkersOK, BudgetsOK
  <2> QED
    BY <2>1, TypedApi, TypedWorker DEF Next
<1> QED
  BY <1>1, TypedInit, PTL DEF Spec

\* Every variable keeps its type, and a worker holds a match exactly while it
\* is inside an iteration of serve().
THEOREM TypeCorrect == Spec => []TypeOK
  BY TypedInvariant, PTL DEF Typed

-----------------------------------------------------------------------------
(* A finished match has a replay.                                           *)

\* A worker that is about to finish, or has finished, a match did so after
\* persist_replay returned, and a replay is never detached.
Persisted == \A w \in Worker : pc[w] \in {"finish", "settle"} => replay[held[w]] # "none"

ReplayInv == ReplayBeforeFinish /\ Persisted

LEMMA ReplayInvStep ==
  ASSUME Typed, ReplayInv, [Next]_vars
  PROVE  ReplayInv'
<1> USE DEF Typed, TypeOK, RecordsOK, WorkersOK, ReplayInv, ReplayBeforeFinish, Persisted
<1>1. ASSUME ApiNext PROVE ReplayInv'
  <2>1. /\ \A m \in Match : status'[m] = "FINISHED" => status[m] = "FINISHED"
        /\ UNCHANGED <<replay, pc, held>>
    BY <1>1 DEF ApiNext, Receive, Insert, Enqueue, RequestFails, records, workers
  <2> QED
    BY <2>1
<1>2. ASSUME NEW w \in Worker, Finish(w) PROVE ReplayInv'
  BY <1>2 DEF Finish, Go, NextItem
<1>3. ASSUME NEW w \in Worker, AttachReplay(w) PROVE ReplayInv'
  BY <1>3 DEF AttachReplay, Go, OutcomesKnown
<1>4. ASSUME NEW w \in Worker, PersistReplay(w) PROVE ReplayInv'
  BY <1>4 DEF PersistReplay, records
<1>5. ASSUME NEW w \in Worker,
             Settle(w) \/ Skip(w) \/ CheckFailed(w) \/ WriteFailed(w) \/ Exit(w)
      PROVE ReplayInv'
  BY <1>5 DEF Settle, Skip, CheckFailed, WriteFailed, Exit, NextItem, Go, records
<1>6. ASSUME NEW w \in Worker,
             Pop(w) \/ Load(w) \/ Claim(w) \/ Start(w) \/ EndMatch(w) \/ Truncate(w) \/ Restart(w)
      PROVE ReplayInv'
  BY <1>6 DEF Pop, Load, Claim, Start, EndMatch, Truncate, Restart, Go, records
<1>7. ASSUME NEW w \in Worker, Disturb(w) PROVE ReplayInv'
  BY <1>7 DEF Disturb, PopLost, Raise, Stop, Crash, records, workers
<1>8. CASE UNCHANGED vars
  BY <1>8 DEF vars
<1> QED
  BY <1>1, <1>2, <1>3, <1>4, <1>5, <1>6, <1>7, <1>8 DEF Next, Advance

\* Whatever crashes, signals, retries and second executions happen, a match
\* that is FINISHED has its replay: _finish follows persist_replay.
THEOREM FinishedHasReplay == Spec => []ReplayBeforeFinish
<1>1. Init => ReplayInv
  BY DEF Init, ReplayInv, ReplayBeforeFinish, Persisted
<1> QED
  BY <1>1, ReplayInvStep, TypedInvariant, PTL DEF Spec, ReplayInv

-----------------------------------------------------------------------------
(* Queue entries have rows, and a simulation is held once.                  *)

Will(h, m) == handler[h] = [pc |-> "enqueue", match |-> m]

RowsInv ==
  /\ \A h \in Handler : handler[h].pc = "enqueue" => status[handler[h].match] # "none"
  /\ QueuedRowsExist

LEMMA RowsInvStep ==
  ASSUME Typed, RowsInv, [Next]_vars
  PROVE  RowsInv'
<1> USE LifecycleAssumption
    DEF Typed, TypeOK, RecordsOK, WorkersOK, ApiOK, RowsInv, QueuedRowsExist
<1>0. /\ queue \in Seq(Match)
      /\ DOMAIN queue = 1..Len(queue)
      /\ \A i \in DOMAIN queue : queue[i] \in Match
  OBVIOUS
<1>1. \A m \in Match : status[m] # "none" => status'[m] # "none"
  BY DEF Next, ApiNext, Receive, Insert, Enqueue, RequestFails, Advance, Disturb,
         Pop, Load, Skip, Claim, Start, EndMatch, Truncate, PersistReplay,
         AttachReplay, Finish, Settle, CheckFailed, WriteFailed, Exit, Restart,
         PopLost, Raise, Stop, Crash, records, vars
<1>2. ASSUME NEW h \in Handler, NEW m \in Match, Receive(h, m) PROVE RowsInv'
  BY <1>0, <1>2 DEF Receive, Replayed, Reply, GoHandler, records, workers
<1>3. ASSUME NEW h \in Handler, Insert(h) PROVE RowsInv'
  <2>1. handler[h].match \in Match
    BY <1>3 DEF Insert, HandlerState, IdleHandler
  <2> QED
    BY <1>0, <1>1, <1>3, <2>1 DEF Insert, GoHandler, IdleHandler, workers, HandlerState
<1>4. ASSUME NEW h \in Handler, Enqueue(h) PROVE RowsInv'
  <2>1. handler[h].match \in Match /\ status[handler[h].match] # "none"
    BY <1>4 DEF Enqueue, HandlerState, IdleHandler
  <2>2. \A i \in DOMAIN queue' : status[queue'[i]] # "none"
    BY <1>0, <1>4, <2>1 DEF Enqueue
  <2> QED
    BY <1>4, <2>2 DEF Enqueue, IdleHandler, records, workers
<1>5. ASSUME NEW h \in Handler, RequestFails(h) PROVE RowsInv'
  BY <1>5 DEF RequestFails, IdleHandler, records, workers
<1>6. ASSUME NEW w \in Worker, Pop(w) \/ PopLost(w) PROVE RowsInv'
  <2>1. /\ queue # <<>> /\ queue' = Tail(queue)
        /\ UNCHANGED <<status, handler>>
        /\ held' = held \/ held' = [held EXCEPT ![w] = Head(queue)]
    BY <1>6 DEF Pop, PopLost, records, workers
  <2>2. status[Head(queue)] # "none"
    BY <1>0, <2>1
  <2>3. \A i \in DOMAIN queue' : status'[queue'[i]] # "none"
    BY <1>0, <2>1
  <2> QED
    BY <2>1, <2>2, <2>3
<1>7. ASSUME UNCHANGED <<queue, handler>>,
             \A v \in Worker : held'[v] \in {held[v], NoMatch}
      PROVE  RowsInv'
  <2>1. \A h \in Handler : handler[h].pc = "enqueue" => handler[h].match \in Match
    BY DEF HandlerState, IdleHandler
  <2> QED
    BY <1>0, <1>1, <1>7, <2>1
<1>8. ASSUME NEW w \in Worker, Advance(w), ~ Pop(w) PROVE RowsInv'
  BY <1>7, <1>8 DEF Advance, Load, Skip, Claim, Start, EndMatch, Truncate,
       PersistReplay, AttachReplay, Finish, Settle, CheckFailed, WriteFailed, Exit,
       Restart, NextItem
<1>9. ASSUME NEW w \in Worker, Disturb(w), ~ PopLost(w) PROVE RowsInv'
  BY <1>7, <1>9 DEF Disturb, Raise, Stop, Crash
<1>10. CASE UNCHANGED vars
  BY <1>7, <1>10 DEF vars
<1> QED
  BY <1>2, <1>3, <1>4, <1>5, <1>6, <1>8, <1>9, <1>10 DEF Next, ApiNext

\* No entry is queued, and no worker takes one, for a match without a row: the
\* API commits before it enqueues and no row is deleted.
THEOREM EntriesHaveRows == Spec => []QueuedRowsExist
<1>1. Init => RowsInv
  BY DEF Init, RowsInv, QueuedRowsExist, IdleHandler
<1> QED
  BY <1>1, RowsInvStep, TypedInvariant, PTL DEF Spec, RowsInv

\* At most one of: a handler about to enqueue m, a place of m in the queue, a
\* worker that holds m.
Alone(m) ==
  /\ \A h, k \in Handler : Will(h, m) /\ Will(k, m) => h = k
  /\ \A i, j \in 1..Len(queue) : queue[i] = m /\ queue[j] = m => i = j
  /\ \A w, v \in Worker : held[w] = m /\ held[v] = m => w = v
  /\ \A h \in Handler, i \in 1..Len(queue) : ~ (Will(h, m) /\ queue[i] = m)
  /\ \A h \in Handler, w \in Worker : ~ (Will(h, m) /\ held[w] = m)
  /\ \A i \in 1..Len(queue), w \in Worker : ~ (queue[i] = m /\ held[w] = m)

LEMMA AloneStep ==
  ASSUME Typed, RowsInv, [Next]_vars,
         NEW m \in Simulation, Alone(m)
  PROVE  Alone(m)'
<1> USE LifecycleAssumption DEF Typed, TypeOK, WorkersOK, ApiOK
<1>0. /\ m \in Match /\ m # NoMatch
      /\ queue \in Seq(Match) /\ Len(queue) \in Nat
  OBVIOUS
<1>1. ASSUME queue' = queue,
             \A h \in Handler : Will(h, m)' => Will(h, m),
             \A w \in Worker : held'[w] = m => held[w] = m
      PROVE  Alone(m)'
  BY <1>1 DEF Alone
<1>2. ASSUME NEW h \in Handler, NEW k \in Match, Receive(h, k) PROVE Alone(m)'
  <2>1. UNCHANGED <<queue, held>>
    BY <1>2 DEF Receive, workers
  <2>2. ASSUME NEW x \in Handler, Will(x, m)' PROVE Will(x, m)
    BY <1>2, <2>2 DEF Receive, Replayed, GoHandler, Will
  <2> QED
    BY <1>1, <2>1, <2>2
<1>3. ASSUME NEW h \in Handler, Insert(h) PROVE Alone(m)'
  <2>1. UNCHANGED <<queue, held>>
    BY <1>3 DEF Insert, workers
  <2>2. CASE handler[h].match = m /\ status[m] = "none"
    <3>1. \A x \in Handler : ~ Will(x, m)
      BY <2>2 DEF RowsInv, Will
    <3>2. \A i \in 1..Len(queue) : queue[i] # m
      BY <1>0, <2>2 DEF RowsInv, QueuedRowsExist
    <3>3. \A w \in Worker : held[w] # m
      BY <1>0, <2>2 DEF RowsInv, QueuedRowsExist
    <3>4. \A x \in Handler : Will(x, m)' => x = h
      BY <1>3, <3>1 DEF Insert, GoHandler, Will
    <3> QED
      BY <2>1, <3>1, <3>2, <3>3, <3>4 DEF Alone
  <2>3. CASE ~ (handler[h].match = m /\ status[m] = "none")
    <3>1. ASSUME NEW x \in Handler, Will(x, m)' PROVE Will(x, m)
      BY <1>0, <1>3, <2>3, <3>1 DEF Insert, GoHandler, Will, IdleHandler
    <3> QED
      BY <1>1, <2>1, <3>1
  <2> QED
    BY <2>2, <2>3
<1>4. ASSUME NEW h \in Handler, Enqueue(h) PROVE Alone(m)'
  <2>1. /\ held' = held
        /\ queue' = Append(queue, handler[h].match)
        /\ handler' = [handler EXCEPT ![h] = IdleHandler]
    BY <1>4 DEF Enqueue, workers
  <2>2. \A x \in Handler : Will(x, m)' => x # h /\ Will(x, m)
    BY <1>0, <2>1 DEF Will, IdleHandler
  <2>3. handler[h].match \in Match
    BY <1>4 DEF Enqueue, HandlerState, IdleHandler
  <2>4. /\ Len(queue') = Len(queue) + 1
        /\ \A i \in 1..Len(queue) : queue'[i] = queue[i]
        /\ queue'[Len(queue) + 1] = handler[h].match
    BY <1>0, <2>1, <2>3, AppendProperties
  <2>5. CASE handler[h].match = m
    <3>1. Will(h, m)
      BY <1>4, <2>5 DEF Enqueue, Will, HandlerState, IdleHandler
    <3>2. /\ \A i \in 1..Len(queue) : queue[i] # m
          /\ \A w \in Worker : held[w] # m
          /\ \A x \in Handler : ~ Will(x, m)'
      BY <2>2, <3>1 DEF Alone
    <3>3. \A i \in 1..Len(queue') : queue'[i] = m => i = Len(queue) + 1
      BY <1>0, <2>4, <3>2
    <3> QED
      BY <2>1, <3>2, <3>3 DEF Alone
  <2>6. CASE handler[h].match # m
    <3>1. \A i \in 1..Len(queue') : queue'[i] = m => i \in 1..Len(queue) /\ queue[i] = m
      BY SMTT(30), <1>0, <2>4, <2>6
    <3> QED
      BY <2>1, <2>2, <3>1 DEF Alone
  <2> QED
    BY <2>5, <2>6
<1>5. ASSUME NEW h \in Handler, RequestFails(h) PROVE Alone(m)'
  <2>1. UNCHANGED <<queue, held>> /\ handler' = [handler EXCEPT ![h] = IdleHandler]
    BY <1>5 DEF RequestFails, workers
  <2>2. ASSUME NEW x \in Handler, Will(x, m)' PROVE Will(x, m)
    BY <1>0, <2>1, <2>2 DEF Will, IdleHandler
  <2> QED
    BY <1>1, <2>1, <2>2
<1>6. ASSUME NEW w \in Worker, Pop(w) \/ PopLost(w) PROVE Alone(m)'
  <2>1. /\ queue # <<>> /\ queue' = Tail(queue) /\ handler' = handler
        /\ held' = held \/ held' = [held EXCEPT ![w] = Head(queue)]
    BY <1>6 DEF Pop, PopLost, workers
  <2>2. /\ Len(queue') = Len(queue) - 1 /\ Len(queue) >= 1
        /\ \A i \in 1..Len(queue') : i + 1 \in 1..Len(queue) /\ queue'[i] = queue[i + 1]
        /\ Head(queue) = queue[1] /\ 1 \in 1..Len(queue)
    BY <1>0, <2>1, HeadTailProperties
  <2>3. ASSUME NEW i \in 1..Len(queue'), NEW j \in 1..Len(queue'), queue'[i] = m, queue'[j] = m
        PROVE  i = j
    <3>1. queue[i + 1] = m /\ queue[j + 1] = m
      BY <2>2, <2>3
    <3>2. i + 1 = j + 1
      BY <2>2, <3>1 DEF Alone
    <3> QED
      BY <1>0, <2>2, <3>2
  <2>4. CASE Head(queue) = m /\ held' = [held EXCEPT ![w] = Head(queue)]
    <3>1. \A i \in 1..Len(queue') : queue'[i] # m
      BY <1>0, <2>2, <2>4 DEF Alone
    <3>0. queue[1] = m /\ 1 \in 1..Len(queue)
      BY <2>2, <2>4
    <3>2. \A x \in Handler : ~ Will(x, m)'
      BY <2>1, <3>0 DEF Alone, Will
    <3>3. \A v \in Worker : held[v] # m
      BY <3>0 DEF Alone
    <3>4. \A v \in Worker : held'[v] = m => v = w
      BY <2>4, <3>3
    <3> QED
      BY <3>1, <3>2, <3>4 DEF Alone
  <2>5. CASE Head(queue) # m \/ held' = held
    <3>1. \A v \in Worker : held'[v] = m => held[v] = m
      BY <2>1, <2>5
    <3>2. \A x \in Handler : Will(x, m)' <=> Will(x, m)
      BY <2>1 DEF Will
    <3> QED
      BY <2>2, <2>3, <3>1, <3>2 DEF Alone
  <2> QED
    BY <2>1, <2>4, <2>5
<1>7. ASSUME NEW w \in Worker, Advance(w), ~ Pop(w) PROVE Alone(m)'
  <2>1. /\ UNCHANGED <<queue, handler>>
        /\ \A v \in Worker : held'[v] \in {held[v], NoMatch}
    BY <1>7 DEF Advance, Load, Skip, Claim, Start, EndMatch, Truncate,
         PersistReplay, AttachReplay, Finish, Settle, CheckFailed, WriteFailed,
         Exit, Restart, NextItem
  <2> QED
    BY <1>0, <1>1, <2>1 DEF Will
<1>8. ASSUME NEW w \in Worker, Disturb(w), ~ PopLost(w) PROVE Alone(m)'
  <2>1. /\ UNCHANGED <<queue, handler>>
        /\ \A v \in Worker : held'[v] \in {held[v], NoMatch}
    BY <1>8 DEF Disturb, Raise, Stop, Crash
  <2> QED
    BY <1>0, <1>1, <2>1 DEF Will
<1>9. CASE UNCHANGED vars
  BY <1>1, <1>9 DEF vars, Will
<1> QED
  BY <1>2, <1>3, <1>4, <1>5, <1>6, <1>7, <1>8, <1>9 DEF Next, ApiNext

SimulationsAlone == \A m \in Simulation : Alone(m)

HeldInv == Typed /\ RowsInv /\ SimulationsAlone

LEMMA HeldInvariant == Spec => []HeldInv
<1>1. Init => RowsInv /\ SimulationsAlone
  BY LifecycleAssumption DEF Init, RowsInv, QueuedRowsExist, SimulationsAlone,
                             Alone, Will, IdleHandler
<1>2. HeldInv /\ [Next]_vars => (RowsInv /\ SimulationsAlone)'
  BY RowsInvStep, AloneStep DEF HeldInv, SimulationsAlone
<1> QED
  BY <1>1, <1>2, TypedInvariant, PTL DEF Spec, HeldInv

\* However large the pool, a simulation is enqueued once and held by one worker
\* at a time, and after that worker by none: the argument is a token that the
\* inserting handler creates, the queue carries and a worker consumes.
THEOREM SimulationsHeldOnce == Spec => []SimulationHeldOnce
<1>1. HeldInv => SimulationHeldOnce
  <2> SUFFICES ASSUME HeldInv, NEW m \in Simulation,
                      NEW a \in Claims(m), NEW b \in Claims(m)
               PROVE  a = b
    BY DEF SimulationHeldOnce
  <2>1. Alone(m) /\ DOMAIN queue = 1..Len(queue)
    BY DEF HeldInv, SimulationsAlone, Typed, TypeOK, ApiOK
  <2> QED
    BY <2>1 DEF Claims, Alone, Will
<1> QED
  BY <1>1, HeldInvariant, PTL

-----------------------------------------------------------------------------
(* The record of a sheltered match.                                         *)

\* What the row of m says, and what a worker inside an iteration for m knows
\* about it.
RowInv(m) ==
  /\ status[m] \in {"none", "QUEUED", "PREPARING"} => replay[m] = "none"
  /\ status[m] = "FAILED" => result[m] = "failed"
  /\ status[m] = "FINISHED" => result[m] = replay[m]
  /\ event[m] # "none" => status[m] = "FINISHED" /\ event[m] = result[m]

Knows(w, m) ==
  /\ pc[w] = "claim" => status[m] = "QUEUED"
  /\ pc[w] = "start" => status[m] = "PREPARING"
  /\ pc[w] \in {"running", "persist", "attach"} => status[m] = "RUNNING" /\ replay[m] = "none"
  /\ pc[w] = "finish" => status[m] = "RUNNING" /\ replay[m] = outcome[w]
  /\ pc[w] = "settle" => status[m] = "FINISHED" /\ result[m] = outcome[w]
  /\ pc[w] = "fail" => status[m] \notin {"none", "FINISHED"}

ShelteredInv ==
  \A m \in Sheltered : RowInv(m) /\ \A w \in Worker : held[w] = m => Knows(w, m)

\* The step of a worker touches the row of the match it holds and nothing else.
RowsOfOthersKept(w) ==
  /\ \A m \in Match : m # held[w] =>
       /\ status'[m] = status[m] /\ result'[m] = result[m]
       /\ replay'[m] = replay[m] /\ event'[m] = event[m]
  /\ \A v \in Worker : v # w =>
       pc'[v] = pc[v] /\ held'[v] = held[v] /\ outcome'[v] = outcome[v]

LEMMA WorkerFrame ==
  ASSUME Typed, NEW w \in Worker, Advance(w) \/ Disturb(w)
  PROVE  RowsOfOthersKept(w)
<1> USE DEF Typed, TypeOK, RecordsOK, WorkersOK, RowsOfOthersKept
<1>1. CASE Claim(w) \/ Start(w) \/ AttachReplay(w) \/ Finish(w) \/ Settle(w) \/ WriteFailed(w)
  BY <1>1 DEF Claim, Start, AttachReplay, Finish, Settle, WriteFailed, Go, NextItem
<1>2. CASE Pop(w) \/ Load(w) \/ Skip(w) \/ EndMatch(w) \/ Truncate(w) \/ PersistReplay(w)
  BY <1>2 DEF Pop, Load, Skip, EndMatch, Truncate, PersistReplay, Go, NextItem, records
<1>3. CASE CheckFailed(w) \/ Exit(w) \/ Restart(w)
  BY <1>3 DEF CheckFailed, Exit, Restart, Go, NextItem, records
<1>4. CASE Disturb(w)
  BY <1>4 DEF Disturb, PopLost, Raise, Stop, Crash, records, workers
<1> QED
  BY <1>1, <1>2, <1>3, <1>4 DEF Advance

LEMMA OneHolder ==
  ASSUME HeldInv, NEW m \in Sheltered, NEW w \in Worker, NEW v \in Worker,
         held[w] = m, held[v] = m
  PROVE  w = v
  BY DEF HeldInv, SimulationsAlone, Sheltered, Alone

\* The worker's step on the row of the match m it holds.
LEMMA ShelteredRowStep ==
  ASSUME Typed, NEW w \in Worker, Advance(w) \/ Disturb(w),
         NEW m \in Match, held[w] = m, RowInv(m), Knows(w, m)
  PROVE  RowInv(m)' /\ (held'[w] = m => Knows(w, m)')
<1> USE LifecycleAssumption DEF Typed, TypeOK, RecordsOK, WorkersOK, RowInv, Knows
<1>1. pc[w] \notin {"down", "idle"}
  OBVIOUS
<1>2. CASE Load(w) \/ Skip(w) \/ Claim(w)
  BY <1>2 DEF Load, Loadable, Skip, Claim, Go, NextItem, records
<1>3. CASE Start(w)
  BY <1>3 DEF Start, Go
<1>4. CASE EndMatch(w) \/ Truncate(w) \/ PersistReplay(w)
  BY <1>4 DEF EndMatch, Truncate, PersistReplay, Go, records
<1>5. CASE AttachReplay(w)
  BY <1>5 DEF AttachReplay, Go
<1>6. CASE Finish(w)
  BY <1>6 DEF Finish, Go, NextItem
<1>7. CASE Settle(w)
  BY <1>7 DEF Settle, NextItem
<1>8. CASE CheckFailed(w)
  BY <1>8 DEF CheckFailed, Go, NextItem, records
<1>9. CASE WriteFailed(w)
  BY <1>9 DEF WriteFailed, NextItem
<1>10. CASE Pop(w) \/ Exit(w) \/ Restart(w) \/ PopLost(w)
  BY <1>1, <1>10 DEF Pop, Exit, Restart, PopLost, Go
<1>11. CASE Raise(w) \/ Stop(w) \/ Crash(w)
  BY <1>11 DEF Raise, Stop, Crash, records
<1> QED
  BY <1>2, <1>3, <1>4, <1>5, <1>6, <1>7, <1>8, <1>9, <1>10, <1>11 DEF Advance, Disturb

LEMMA ShelteredStep ==
  ASSUME HeldInv, ShelteredInv, [Next]_vars
  PROVE  ShelteredInv'
<1> USE LifecycleAssumption DEF HeldInv
<1>0. Sheltered \subseteq Match /\ NoMatch \notin Sheltered
  BY DEF Sheltered
<1>1. ASSUME ApiNext PROVE ShelteredInv'
  <2>1. /\ UNCHANGED <<result, replay, event, pc, held, outcome>>
        /\ \A m \in Match : status'[m] # status[m] => status[m] = "none" /\ status'[m] = "QUEUED"
    BY <1>1 DEF ApiNext, Receive, Insert, Enqueue, RequestFails, records, workers,
                Typed, TypeOK, RecordsOK
  <2>2. \A w \in Worker : held[w] # NoMatch => status[held[w]] # "none"
    BY DEF RowsInv, QueuedRowsExist
  <2> QED
    BY <1>0, <2>1, <2>2 DEF ShelteredInv, RowInv, Knows
<1>2. ASSUME NEW w \in Worker, Advance(w) \/ Disturb(w) PROVE ShelteredInv'
  <2>1. RowsOfOthersKept(w)
    BY <1>2, WorkerFrame
  <2>2. ASSUME NEW m \in Sheltered, m = held[w]
        PROVE  RowInv(m)' /\ \A v \in Worker : held'[v] = m => Knows(v, m)'
    <3>1. RowInv(m)' /\ (held'[w] = m => Knows(w, m)')
      BY <1>0, <1>2, <2>2, ShelteredRowStep DEF ShelteredInv
    <3>2. \A v \in Worker : v # w => held'[v] # m
      BY <2>1, <2>2, OneHolder DEF RowsOfOthersKept
    <3> QED
      BY <3>1, <3>2
  <2>3. ASSUME NEW m \in Sheltered, m # held[w]
        PROVE  RowInv(m)' /\ \A v \in Worker : held'[v] = m => Knows(v, m)'
    <3>1. RowInv(m)'
      BY <1>0, <2>1, <2>3 DEF RowsOfOthersKept, ShelteredInv, RowInv
    <3>2. ASSUME NEW v \in Worker, v # w, held'[v] = m PROVE Knows(v, m)'
      BY <1>0, <2>1, <2>3, <3>2 DEF RowsOfOthersKept, ShelteredInv, Knows
    <3>3. held'[w] = m => pc'[w] = "popped"
      BY <1>0, <1>2, <2>3 DEF Advance, Disturb, Pop, Load, Skip, Claim, Start, EndMatch,
           Truncate, PersistReplay, AttachReplay, Finish, Settle, CheckFailed,
           WriteFailed, Exit, Restart, PopLost, Raise, Stop, Crash, Go, NextItem,
           workers, Typed, TypeOK, WorkersOK
    <3> QED
      BY <3>1, <3>2, <3>3 DEF Knows
  <2> QED
    BY <2>2, <2>3 DEF ShelteredInv
<1>3. CASE UNCHANGED vars
  BY <1>3 DEF vars, ShelteredInv, RowInv, Knows
<1> QED
  BY <1>1, <1>2, <1>3 DEF Next

-----------------------------------------------------------------------------
(* Refinement: MatchLifecycle implements MatchRecord.                       *)

FullInv == HeldInv /\ ReplayInv /\ ShelteredInv

LEMMA FullInvariant == Spec => []FullInv
<1>1. Init => ShelteredInv /\ ReplayInv
  BY LifecycleAssumption DEF Init, ShelteredInv, Sheltered, RowInv, Knows, ReplayInv,
                             ReplayBeforeFinish, Persisted
<1>2. FullInv /\ [Next]_vars => (ShelteredInv /\ ReplayInv)'
  BY ShelteredStep, ReplayInvStep DEF FullInv, HeldInv
<1> QED
  BY <1>1, <1>2, HeldInvariant, PTL DEF Spec, FullInv

\* A column seen only on the sheltered matches does not show an update of
\* another match.
LEMMA OnKept ==
  ASSUME NEW f, NEW g, NEW m \in Match \ Sheltered, NEW e,
         DOMAIN f = Match, g = [f EXCEPT ![m] = e]
  PROVE  On(g) = On(f)
  BY DEF On, Sheltered

StatusStep(m, from, to) == status[m] = from /\ status' = [status EXCEPT ![m] = to]

LEMMA RecordMove ==
  ASSUME NEW m \in Sheltered, NEW from, NEW to,
         DOMAIN status = Match, StatusStep(m, from, to)
  PROVE  Record!Move(m, from, to)
<1>1. On(status') = [On(status) EXCEPT ![m] = to]
  BY DEF StatusStep, On, Sheltered
<1>2. On(status)' = On(status')
  BY DEF On, Sheltered
<1>3. On(status)[m] = from
  BY DEF On, StatusStep
<1> QED
  BY <1>1, <1>2, <1>3 DEF Record!Move

LEMMA RecordStep ==
  ASSUME FullInv, [Next]_vars
  PROVE  [Record!Next]_(Record!recordVars)
<1> USE LifecycleAssumption DEF FullInv, HeldInv, Typed, TypeOK
<1> DEFINE Stutter == UNCHANGED <<On(status), On(result), On(replay), On(event)>>
<1>0. /\ DOMAIN status = Match /\ DOMAIN result = Match
      /\ DOMAIN replay = Match /\ DOMAIN event = Match
  BY DEF RecordsOK
<1>1. ASSUME UNCHANGED records PROVE Stutter
  BY <1>1 DEF records, On
<1>2. ASSUME NEW h \in Handler, Insert(h), ~ UNCHANGED status PROVE Record!Next \/ Stutter
  <2> DEFINE m == handler[h].match
  <2>1. m \in Match /\ StatusStep(m, "none", "QUEUED") /\ UNCHANGED <<result, replay, event>>
    BY <1>2 DEF Insert, ApiOK, HandlerState, IdleHandler, StatusStep
  <2>2. CASE m \in Sheltered
    <3>1. Record!Create(m)
      BY <1>0, <2>1, <2>2, RecordMove DEF Record!Create, On
    <3> QED
      BY <2>2, <3>1 DEF Record!Next
  <2>3. CASE m \notin Sheltered
    BY <1>0, <2>1, <2>3, OnKept DEF StatusStep, On
  <2> QED
    BY <2>2, <2>3
<1>3. ASSUME NEW w \in Worker, Advance(w) PROVE Record!Next \/ Stutter
  <2> DEFINE m == held[w]
  <2>1. CASE UNCHANGED records
    BY <1>1, <2>1
  <2>2. CASE m \notin Sheltered
    <3>1. RowsOfOthersKept(w)
      BY <1>3, WorkerFrame
    <3>2. \A k \in Sheltered : k \in Match /\ k # m
      BY <2>2 DEF Sheltered
    <3> QED
      BY <3>1, <3>2 DEF RowsOfOthersKept, On
  <2>3. CASE m \in Sheltered
    <3>1. m \in Match /\ RowInv(m) /\ Knows(w, m)
      BY <2>3 DEF ShelteredInv, Sheltered
    <3>2. CASE Claim(w)
      <4>1. StatusStep(m, "QUEUED", "PREPARING") /\ UNCHANGED <<result, replay, event>>
        BY <3>1, <3>2 DEF Claim, Go, Knows, StatusStep, WorkersOK
      <4>2. Record!Prepare(m)
        BY <1>0, <2>3, <4>1, RecordMove DEF Record!Prepare, On
      <4> QED
        BY <2>3, <4>2 DEF Record!Next
    <3>3. CASE Start(w)
      <4>1. StatusStep(m, "PREPARING", "RUNNING") /\ UNCHANGED <<result, replay, event>>
        BY <3>1, <3>3 DEF Start, Go, Knows, StatusStep, WorkersOK
      <4>2. Record!Start(m)
        BY <1>0, <2>3, <4>1, RecordMove DEF Record!Start, On
      <4> QED
        BY <2>3, <4>2 DEF Record!Next
    <3>4. CASE AttachReplay(w)
      <4>1. /\ status[m] = "RUNNING" /\ replay[m] = "none"
            /\ outcome[w] \in Outcomes
            /\ replay' = [replay EXCEPT ![m] = outcome[w]]
            /\ UNCHANGED <<status, result, event>>
        BY <3>1, <3>4 DEF AttachReplay, Go, Knows, WorkersOK, OutcomesKnown
      <4>a. On(replay') = [On(replay) EXCEPT ![m] = outcome[w]]
        BY <1>0, <2>3, <4>1 DEF On, Sheltered
      <4>b. outcome[w] \in Record!Outcomes
        BY <4>1 DEF Record!Outcomes, Record!Wins, Outcomes, Played, Wins
      <4>2. Record!AttachReplay(m)
        BY <2>3, <4>1, <4>a, <4>b DEF Record!AttachReplay, On
      <4> QED
        BY <2>3, <4>2 DEF Record!Next
    <3>5. CASE Finish(w)
      <4>1. /\ StatusStep(m, "RUNNING", "FINISHED")
            /\ replay[m] = outcome[w] /\ outcome[w] # "none"
            /\ result' = [result EXCEPT ![m] = outcome[w]]
            /\ UNCHANGED <<replay, event>>
        BY <3>1, <3>5 DEF Finish, Knows, StatusStep, WorkersOK, OutcomesKnown
      <4>a. Record!Move(m, "RUNNING", "FINISHED")
        BY <1>0, <2>3, <4>1, RecordMove
      <4>b. On(result') = [On(result) EXCEPT ![m] = outcome[w]]
        BY <1>0, <2>3, <4>1 DEF On, Sheltered
      <4>2. Record!Finish(m)
        BY <2>3, <4>1, <4>a, <4>b DEF Record!Finish, On
      <4> QED
        BY <2>3, <4>2 DEF Record!Next
    <3>6. CASE Settle(w)
      <4>1. /\ status[m] = "FINISHED" /\ result[m] = outcome[w]
            /\ outcome[w] \in Wins /\ m \in Ranked
            /\ event' = [event EXCEPT ![m] = IF @ = "none" THEN outcome[w] ELSE @]
            /\ UNCHANGED <<status, result, replay>>
        BY <3>1, <3>6 DEF Settle, Knows, OutcomesKnown
      <4>2. CASE event[m] = "none"
        <5>1. event' = [event EXCEPT ![m] = result[m]]
          BY <4>1, <4>2
        <5>a. On(event') = [On(event) EXCEPT ![m] = result[m]]
          BY <1>0, <2>3, <5>1 DEF On, Sheltered
        <5>2. Record!Score(m)
          BY <2>3, <4>1, <4>2, <5>a DEF Record!Score, Record!Wins, Wins, On
        <5> QED
          BY <2>3, <5>2 DEF Record!Next
      <4>3. CASE event[m] # "none"
        BY <1>0, <4>1, <4>3 DEF On
      <4> QED
        BY <4>2, <4>3
    <3>7. CASE WriteFailed(w)
      <4>1. /\ status[m] \in {"QUEUED", "PREPARING", "RUNNING", "FAILED"}
            /\ status' = [status EXCEPT ![m] = "FAILED"]
            /\ result' = [result EXCEPT ![m] = "failed"]
            /\ UNCHANGED <<replay, event>>
        BY <3>1, <3>7 DEF WriteFailed, Knows, RecordsOK, Status, Terminal
      <4>2. CASE status[m] = "FAILED"
        BY <1>0, <3>1, <4>1, <4>2 DEF RowInv, On
      <4>3. CASE status[m] # "FAILED"
        <5>a. \E from \in {"QUEUED", "PREPARING", "RUNNING"} : Record!Move(m, from, "FAILED")
          BY <1>0, <2>3, <4>1, <4>3, RecordMove DEF StatusStep
        <5>b. On(result') = [On(result) EXCEPT ![m] = "failed"]
          BY <1>0, <2>3, <4>1 DEF On, Sheltered
        <5>1. Record!Fail(m)
          BY <2>3, <4>1, <5>a, <5>b DEF Record!Fail, On
        <5> QED
          BY <2>3, <5>1 DEF Record!Next
      <4> QED
        BY <4>2, <4>3
    <3> QED
      BY <1>3, <1>1, <3>2, <3>3, <3>4, <3>5, <3>6, <3>7
         DEF Advance, Pop, Load, Skip, EndMatch, Truncate, PersistReplay, CheckFailed,
             Exit, Restart
  <2> QED
    BY <2>2, <2>3
<1>4. ASSUME [Next]_vars,
             \A h \in Handler : Insert(h) => UNCHANGED status,
             \A w \in Worker : ~ Advance(w)
      PROVE  UNCHANGED records
  BY <1>4 DEF Next, ApiNext, Receive, Insert, Enqueue, RequestFails, Disturb, PopLost,
              Raise, Stop, Crash, vars, records
<1>5. Record!Next \/ Stutter
  BY <1>1, <1>2, <1>3, <1>4
<1> QED
  BY <1>5 DEF Record!recordVars

\* For a match that only one worker can hold, every crash, signal, retry and
\* duplicate entry leaves the public record on the path of MatchRecord: it goes
\* forward once, its result is that of its replay, and it is scored at most
\* once, as the win it records.
THEOREM RecordImplemented == Spec => ImplementsRecord
<1>1. Init => Record!Init
  BY DEF Init, Record!Init, On, Sheltered
<1>2. FullInv /\ [Next]_vars => [Record!Next]_(Record!recordVars)
  BY RecordStep
<1> QED
  BY <1>1, <1>2, FullInvariant, PTL DEF Spec, ImplementsRecord, Record!Spec

-----------------------------------------------------------------------------
(* Nothing is stranded.                                                     *)

Fault == requestFaults > 0 \/ lostReplies > 0 \/ crashes > 0

Claimed(m) ==
  \/ \E h \in Handler : Will(h, m)
  \/ \E i \in 1..Len(queue) : queue[i] = m
  \/ \E w \in Worker : held[w] = m

InHands(m) == \E w \in Worker : held[w] = m /\ pc[w] \in Ending

Watched(m) ==
  /\ status[m] = "QUEUED" => Claimed(m) \/ Fault
  /\ status[m] \in {"PREPARING", "RUNNING"} => InHands(m) \/ crashes > 0

\* A worker beyond Claim or Load holds a row that will never be QUEUED again.
BeyondQueued ==
  \A w \in Worker :
    pc[w] \in {"start", "running", "persist", "attach", "finish", "settle"} =>
      status[held[w]] # "QUEUED"

StrandInv == BeyondQueued /\ \A m \in Match : Watched(m)

LEMMA FaultsStay ==
  ASSUME Typed, [Next]_vars
  PROVE  (Fault => Fault') /\ (crashes > 0 => crashes' > 0)
<1>1. /\ requestFaults \in Nat /\ lostReplies \in Nat /\ crashes \in Nat
      /\ requestFaults' \in {requestFaults, requestFaults + 1}
      /\ lostReplies' \in {lostReplies, lostReplies + 1}
      /\ crashes' \in {crashes, crashes + 1}
  BY DEF Typed, TypeOK, BudgetsOK, Next, ApiNext, Receive, Insert, Enqueue, RequestFails,
         Advance, Disturb, Pop, Load, Skip, Claim, Start, EndMatch, Truncate,
         PersistReplay, AttachReplay, Finish, Settle, CheckFailed, WriteFailed, Exit,
         Restart, PopLost, Raise, Stop, Crash, workers, budgets, vars
<1> QED
  BY <1>1 DEF Fault

LEMMA StrandApi ==
  ASSUME Typed, RowsInv, StrandInv, ApiNext
  PROVE  StrandInv'
<1> USE LifecycleAssumption DEF Typed, TypeOK, RecordsOK, ApiOK, WorkersOK
<1>1. PICK h \in Handler :
        (\E m \in Match : Receive(h, m)) \/ Insert(h) \/ Enqueue(h) \/ RequestFails(h)
  BY DEF ApiNext
<1>2. /\ UNCHANGED <<pc, held, crashes, lostReplies>>
      /\ \A m \in Match : status'[m] = status[m] \/ (status[m] = "none" /\ status'[m] = "QUEUED")
  BY <1>1 DEF Receive, Insert, Enqueue, RequestFails, records, workers, budgets
<1>3. Fault => Fault'
  BY FaultsStay DEF Next
<1>4. BeyondQueued'
  <2>1. \A w \in Worker : held[w] # NoMatch => status'[held[w]] = status[held[w]]
    BY <1>2 DEF RowsInv, QueuedRowsExist
  <2> QED
    BY <1>2, <2>1 DEF StrandInv, BeyondQueued
<1>5. ASSUME NEW m \in Match, status'[m] = "QUEUED" PROVE Claimed(m)' \/ Fault'
  <2>1. CASE RequestFails(h)
    BY <2>1 DEF RequestFails, BudgetsOK, Fault
  <2>2. CASE Insert(h)
    <3>1. handler[h].match \in Match /\ (\A k \in Match : ~ Will(h, k))
      BY <2>2 DEF Insert, HandlerState, IdleHandler, Will
    <3>2. CASE status[m] = "QUEUED"
      <4>1. UNCHANGED queue /\ \A x \in Handler : Will(x, m) => Will(x, m)'
        BY <2>2, <3>1 DEF Insert, GoHandler, Will
      <4> QED
        BY <1>2, <1>3, <3>2, <4>1 DEF StrandInv, Watched, Claimed
    <3>3. CASE status[m] # "QUEUED"
      <4>1. Will(h, m)'
        BY <1>5, <2>2, <3>1, <3>3 DEF Insert, GoHandler, Will
      <4> QED
        BY <4>1 DEF Claimed
    <3> QED
      BY <3>2, <3>3
  <2>3. CASE Enqueue(h)
    <3>1. handler[h].match \in Match /\ Len(queue) \in Nat
      BY <2>3 DEF Enqueue, HandlerState, IdleHandler
    <3>2. /\ Len(queue') = Len(queue) + 1
          /\ queue'[Len(queue')] = handler[h].match
          /\ \A i \in 1..Len(queue) : queue'[i] = queue[i]
      BY <2>3, <3>1 DEF Enqueue
    <3>3. Will(h, m) => Claimed(m)'
      BY <3>1, <3>2 DEF Will, Claimed
    <3>4. (\E i \in 1..Len(queue) : queue[i] = m) => Claimed(m)'
      BY <3>1, <3>2 DEF Claimed
    <3>5. \A x \in Handler : x # h /\ Will(x, m) => Will(x, m)'
      BY <2>3 DEF Enqueue, Will
    <3>6. status[m] = "QUEUED"
      BY <1>5, <2>3 DEF Enqueue, records
    <3>7. Claimed(m) \/ Fault
      BY <3>6 DEF StrandInv, Watched
    <3> QED
      BY <1>2, <1>3, <3>3, <3>4, <3>5, <3>7 DEF Claimed
  <2>4. CASE \E k \in Match : Receive(h, k)
    <3>1. UNCHANGED <<status, queue>> /\ \A x \in Handler : Will(x, m) => Will(x, m)'
      BY <2>4 DEF Receive, Replayed, GoHandler, Will, IdleHandler, records
    <3> QED
      BY <1>2, <1>3, <1>5, <3>1 DEF StrandInv, Watched, Claimed
  <2> QED
    BY <1>1, <2>1, <2>2, <2>3, <2>4
<1>6. ASSUME NEW m \in Match, status'[m] \in {"PREPARING", "RUNNING"}
      PROVE  InHands(m)' \/ crashes' > 0
  BY <1>2, <1>6 DEF StrandInv, Watched, InHands
<1> QED
  BY <1>4, <1>5, <1>6 DEF StrandInv, Watched

\* The step of a worker on a row that another may hold, or nobody.
LEMMA StrandOther ==
  ASSUME Typed, StrandInv, NEW w \in Worker, Advance(w) \/ Disturb(w),
         NEW m \in Match, m # held[w]
  PROVE  Watched(m)'
<1> USE LifecycleAssumption DEF Typed, TypeOK, RecordsOK, ApiOK, WorkersOK
<1>1. status'[m] = status[m] /\ \A v \in Worker : v # w => pc'[v] = pc[v] /\ held'[v] = held[v]
  BY WorkerFrame DEF RowsOfOthersKept
<1>2. (Fault => Fault') /\ (crashes > 0 => crashes' > 0)
  BY FaultsStay DEF Next
<1>3. ASSUME status[m] = "QUEUED" PROVE Claimed(m)' \/ Fault'
  <2>1. Claimed(m) \/ Fault
    BY <1>3 DEF StrandInv, Watched
  <2>2. (\E v \in Worker : held[v] = m) => Claimed(m)'
    BY <1>1 DEF Claimed
  <2>3. handler' = handler
    BY DEF Advance, Disturb, Pop, Load, Skip, Claim, Start, EndMatch, Truncate,
         PersistReplay, AttachReplay, Finish, Settle, CheckFailed, WriteFailed, Exit,
         Restart, PopLost, Raise, Stop, Crash
  <2>4. (\E h \in Handler : Will(h, m)) => Claimed(m)'
    BY <2>3 DEF Claimed, Will
  <2>5. ASSUME \E i \in 1..Len(queue) : queue[i] = m PROVE Claimed(m)' \/ Fault'
    <3>1. CASE PopLost(w)
      BY <3>1 DEF PopLost, Fault, BudgetsOK
    <3>2. CASE Pop(w)
      <4>1. PICK i \in 1..Len(queue) : queue[i] = m
        BY <2>5
      <4>2. CASE i = 1
        <5>1. held'[w] = m
          BY <3>2, <4>1, <4>2 DEF Pop
        <5> QED
          BY <5>1 DEF Claimed
      <4>3. CASE i # 1
        <5>1. Len(queue) \in Nat /\ i - 1 \in 1..(Len(queue) - 1)
          BY <4>3
        <5>2. Len(queue') = Len(queue) - 1 /\ queue'[i - 1] = m
          BY <3>2, <4>1, <5>1 DEF Pop
        <5> QED
          BY <5>1, <5>2 DEF Claimed
      <4> QED
        BY <4>2, <4>3
    <3>3. CASE queue' = queue
      BY <2>5, <3>3 DEF Claimed
    <3> QED
      BY <3>1, <3>2, <3>3 DEF Advance, Disturb, Load, Skip, Claim, Start, EndMatch, Truncate,
           PersistReplay, AttachReplay, Finish, Settle, CheckFailed, WriteFailed, Exit,
           Restart, Raise, Stop, Crash
  <2> QED
    BY <1>2, <2>1, <2>2, <2>4, <2>5 DEF Claimed
<1>4. ASSUME status[m] \in {"PREPARING", "RUNNING"} PROVE InHands(m)' \/ crashes' > 0
  <2>1. InHands(m) \/ crashes > 0
    BY <1>4 DEF StrandInv, Watched
  <2>2. ASSUME NEW v \in Worker, held[v] = m, pc[v] \in Ending PROVE InHands(m)'
    <3>1. held'[v] = m /\ pc'[v] = pc[v]
      BY <1>1, <2>2
    <3> QED
      BY <2>2, <3>1 DEF InHands, Ending
  <2> QED
    BY <1>2, <2>1, <2>2 DEF InHands
<1> QED
  BY <1>1, <1>3, <1>4 DEF Watched

\* The step of a worker on the row of the match it holds: it keeps it in its hands
\* until it has written, or found, a final status.
LEMMA StrandHeld ==
  ASSUME Typed, StrandInv, NEW w \in Worker, Advance(w) \/ Disturb(w),
         NEW m \in Match, m = held[w]
  PROVE  Watched(m)'
<1> USE LifecycleAssumption DEF Typed, TypeOK, RecordsOK, WorkersOK
<1>0. pc[w] \notin {"down", "idle"}
  OBVIOUS
<1>1. ASSUME status'[m] = "QUEUED" PROVE held'[w] = m \/ Fault'
  <2>1. status[m] = "QUEUED"
    BY <1>1 DEF Advance, Disturb, Pop, Load, Skip, Claim, Start, EndMatch, Truncate,
         PersistReplay, AttachReplay, Finish, Settle, CheckFailed, WriteFailed, Exit,
         Restart, PopLost, Raise, Stop, Crash, records
  <2>2. pc[w] # "settle"
    BY <2>1 DEF StrandInv, BeyondQueued
  <2>3. CASE Crash(w)
    BY <2>3 DEF Crash, BudgetsOK, Fault
  <2>4. CASE ~ Crash(w)
    BY <1>0, <1>1, <2>1, <2>2, <2>4
       DEF Advance, Disturb, Pop, Load, Loadable, Skip, Claim, Start, EndMatch, Truncate,
         PersistReplay, AttachReplay, Finish, Settle, CheckFailed, WriteFailed, Exit,
         Restart, PopLost, Raise, Stop, Go, NextItem, workers
  <2> QED
    BY <2>3, <2>4
<1>2. ASSUME status'[m] \in {"PREPARING", "RUNNING"} PROVE InHands(m)' \/ crashes' > 0
  <2>1. CASE Claim(w) \/ Start(w)
    <3>1. held'[w] = m /\ pc'[w] \in {"start", "running", "persist"}
      BY <2>1 DEF Claim, Start, Go
    <3> QED
      BY <3>1 DEF InHands, Ending
  <2>2. CASE Crash(w)
    BY <2>2 DEF Crash, BudgetsOK
  <2>3. CASE ~ (Claim(w) \/ Start(w) \/ Crash(w))
    <3>1. status[m] \in {"PREPARING", "RUNNING"}
      BY <1>2, <2>3
         DEF Advance, Disturb, Pop, Load, Skip, EndMatch, Truncate,
           PersistReplay, AttachReplay, Finish, Settle, CheckFailed, WriteFailed, Exit,
           Restart, PopLost, Raise, Stop, records
    <3>2. CASE crashes > 0
      BY <3>2, FaultsStay DEF Next
    <3>3. ASSUME NEW v \in Worker, v # w, held[v] = m, pc[v] \in Ending PROVE InHands(m)'
      <4>1. held'[v] = m /\ pc'[v] \in Ending
        BY <3>3, WorkerFrame DEF RowsOfOthersKept
      <4> QED
        BY <4>1 DEF InHands
    <3>4. ASSUME pc[w] \in Ending PROVE InHands(m)'
      <4>1. ~ (Finish(w) \/ WriteFailed(w))
        BY <1>2 DEF Finish, WriteFailed
      <4>2. held'[w] = m /\ pc'[w] \in Ending
        BY <1>0, <2>3, <3>1, <3>4, <4>1
           DEF Advance, Disturb, Pop, Load, Skip, EndMatch, Truncate, PersistReplay,
             AttachReplay, Settle, CheckFailed, Exit, Restart, PopLost, Raise, Stop,
             Go, NextItem, workers, Ending
      <4> QED
        BY <4>2 DEF InHands
    <3> QED
      BY <3>1, <3>2, <3>3, <3>4 DEF StrandInv, Watched, InHands
  <2> QED
    BY <2>1, <2>2, <2>3
<1>3. held'[w] = m => Claimed(m)'
  BY DEF Claimed
<1> QED
  BY <1>1, <1>2, <1>3 DEF Watched

LEMMA StrandWorker ==
  ASSUME Typed, StrandInv, NEW w \in Worker, Advance(w) \/ Disturb(w)
  PROVE  StrandInv'
<1> USE LifecycleAssumption DEF Typed, TypeOK, RecordsOK, WorkersOK
<1>1. \A m \in Match : Watched(m)'
  BY StrandOther, StrandHeld
<1>2. \A m \in Match : status'[m] = "QUEUED" => status[m] = "QUEUED"
  BY DEF Advance, Disturb, Pop, Load, Skip, Claim, Start, EndMatch, Truncate,
       PersistReplay, AttachReplay, Finish, Settle, CheckFailed, WriteFailed, Exit,
       Restart, PopLost, Raise, Stop, Crash, records
<1>3. \A v \in Worker : v # w => pc'[v] = pc[v] /\ held'[v] = held[v]
  BY WorkerFrame DEF RowsOfOthersKept
<1>4. pc'[w] \in {"start", "running", "persist", "attach", "finish", "settle"} =>
        status'[held'[w]] # "QUEUED"
  <2> SUFFICES ASSUME pc'[w] \in {"start", "running", "persist", "attach", "finish", "settle"}
               PROVE  status'[held'[w]] # "QUEUED"
    OBVIOUS
  <2>1. held'[w] = held[w]
    BY DEF Advance, Disturb, Pop, Load, Skip, Claim, Start, EndMatch, Truncate,
         PersistReplay, AttachReplay, Finish, Settle, CheckFailed, WriteFailed, Exit,
         Restart, PopLost, Raise, Stop, Crash, NextItem, Go, workers
  <2>2. CASE Load(w) \/ Claim(w) \/ Start(w) \/ Finish(w)
    BY <2>1, <2>2 DEF Load, Claim, Start, Finish, Go, records
  <2>3. CASE ~ (Load(w) \/ Claim(w) \/ Start(w) \/ Finish(w))
    <3>1. pc[w] \in {"start", "running", "persist", "attach", "finish", "settle"}
          /\ UNCHANGED status
      BY <2>3
         DEF Advance, Disturb, Pop, Skip, EndMatch, Truncate, PersistReplay, AttachReplay,
           Settle, CheckFailed, WriteFailed, Exit, Restart, PopLost, Raise, Stop, Crash,
           NextItem, Go, workers, records
    <3> QED
      BY <2>1, <3>1 DEF StrandInv, BeyondQueued
  <2> QED
    BY <2>2, <2>3
<1>5. \A v \in Worker : v # w /\ held[v] # NoMatch => held[v] \in Match
  OBVIOUS
<1> QED
  BY <1>1, <1>2, <1>3, <1>4, <1>5 DEF StrandInv, BeyondQueued

\* No match is left behind by any number of workers that overwrite each other's
\* status, raise or are told to stop: a QUEUED one is in somebody's claim, a PREPARING
\* or RUNNING one in the hands of a worker that will end it, unless a request or a
\* BLPOP reply was lost or a worker killed.
THEOREM NobodyIsStranded == Spec => []NothingStranded
<1>1. Init => StrandInv
  BY DEF Init, StrandInv, BeyondQueued, Watched
<1>2. Typed /\ RowsInv /\ StrandInv /\ [Next]_vars => StrandInv'
  <2>1. CASE UNCHANGED vars
    BY <2>1 DEF vars, StrandInv, BeyondQueued, Watched, Claimed, Will, InHands, Fault
  <2> QED
    BY <2>1, StrandApi, StrandWorker DEF Next
<1>3. Typed /\ StrandInv => NothingStranded
  <2> SUFFICES ASSUME Typed, StrandInv, NEW m \in Match
               PROVE  /\ Claimed(m) => Claims(m) # {}
                      /\ Watched(m)
    BY DEF NothingStranded, QueuedIsClaimed, ActiveIsHeld, Watched, InHands, Fault
  <2>1. DOMAIN queue = 1..Len(queue)
    BY DEF Typed, TypeOK, ApiOK
  <2> QED
    BY <2>1 DEF Claimed, Claims, Will, StrandInv
<1> QED
  BY <1>1, <1>2, <1>3, HeldInvariant, TypedInvariant, PTL DEF Spec, HeldInv
=============================================================================
