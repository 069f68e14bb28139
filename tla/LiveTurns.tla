------------------------------ MODULE LiveTurns ------------------------------
(***************************************************************************)
(* The turns of a match with human slots: the worker's turn loop, which    *)
(* opens a window, lets the built-in agents choose, reads the humans'      *)
(* command stream up to the deadline and steps the engine, and the live    *)
(* gateway, which appends what players send to that stream.                *)
(*                                                                         *)
(* A stream entry is its slot, the step it expects and whether its payload *)
(* is legal in that step (source planets owned, ships in stock).  The rest *)
(* of the board is left out.  Time is the deadline only, and it may pass   *)
(* in any state of an open window.                                         *)
(*                                                                         *)
(* A "variant of X" is a plausible slip in the code X models, which a run  *)
(* must catch; no specification uses it.                                   *)
(***************************************************************************)
EXTENDS Naturals, Sequences, FiniteSets

CONSTANTS
  Human,        \* the slots played by humans
  MaxStep,      \* bound: turns of the match
  MaxCommands,  \* bound: commands sent
  Batch         \* entries one XREAD returns at most (100 in the code)

ASSUME LiveTurnsAssumption ==
  /\ Human # {} /\ Human \subseteq {0, 1}
  /\ MaxStep \in Nat /\ MaxCommands \in Nat /\ Batch \in Nat \ {0}

VARIABLES
  step,      \* the engine's step
  pc,        \* the worker: between turns, running the agents, at the head of
             \* the read loop, waiting for an XREAD, done
  expired,   \* the deadline of the open window has passed
  cursor,    \* how much of the stream the worker has read
  taken,     \* per human slot, the entry taken in this window, 0 for none
  stream,    \* the Redis stream of commands
  applied,   \* per step, what was taken when it closed
  readTo,    \* history: per step, how much of the stream was read when it closed
  heard      \* entries that came in the window they expect, before its deadline
             \* and while an XREAD was waiting

vars == <<step, pc, expired, cursor, taken, stream, applied, readTo, heard>>

Step == 0 .. MaxStep
NoneTaken == [h \in Human |-> 0]
Entry == [slot : Human, step : Step, legal : BOOLEAN]
Taken == [Human -> 0 .. MaxCommands]

TypeOK ==
  /\ step \in Step
  /\ pc \in {"between", "agents", "reading", "waiting", "done"}
  /\ expired \in BOOLEAN
  /\ stream \in Seq(Entry) /\ Len(stream) <= MaxCommands
  /\ cursor \in 0 .. Len(stream)
  /\ taken \in Taken
  /\ applied \in [Step -> Taken]
  /\ readTo \in [Step -> 0 .. MaxCommands]
  /\ heard \subseteq DOMAIN stream

Init ==
  /\ step = 0
  /\ pc = "between"
  /\ expired = FALSE
  /\ cursor = 0
  /\ taken = NoneTaken
  /\ stream = <<>>
  /\ applied = [n \in Step |-> NoneTaken]
  /\ readTo = [n \in Step |-> 0]
  /\ heard = {}

-----------------------------------------------------------------------------
(* The gateway.                                                             *)

\* A client names any turn: one that is over, the open one or, unlike the page, one
\* still to come.  The gateway checks the form of the message and the match id,
\* appends and answers turn.accepted.
Submit(h, n, legal) ==
  /\ Len(stream) < MaxCommands
  /\ stream' = Append(stream, [slot |-> h, step |-> n, legal |-> legal])
  /\ heard' = IF pc = "waiting" /\ cursor = Len(stream) /\ ~ expired /\ step = n
              THEN heard \cup {Len(stream) + 1}
              ELSE heard
  /\ UNCHANGED <<step, pc, expired, cursor, taken, applied, readTo>>

-----------------------------------------------------------------------------
(* The worker.                                                              *)

Complete == \A h \in Human : taken[h] # 0

OpenTurn ==
  /\ pc = "between"
  /\ pc' = "agents"
  /\ expired' = FALSE
  /\ taken' = NoneTaken
  /\ UNCHANGED <<step, cursor, stream, applied, readTo, heard>>

AgentsChose ==
  /\ pc = "agents"
  /\ pc' = "reading"
  /\ UNCHANGED <<step, expired, cursor, taken, stream, applied, readTo, heard>>

DeadlinePasses ==
  /\ ~ expired
  /\ pc \in {"agents", "reading", "waiting"}
  /\ expired' = TRUE
  /\ UNCHANGED <<step, pc, cursor, taken, stream, applied, readTo, heard>>

\* validate_command_batch: a payload of this step that is legal in it.
Valid(i) == stream[i].step = step /\ stream[i].legal

\* A variant of FirstValid that lets a later command replace an earlier one.
LastValid(h, last) ==
  LET mine == {i \in cursor + 1 .. last : stream[i].slot = h /\ Valid(i)} IN
  IF mine = {} THEN taken[h] ELSE CHOOSE i \in mine : \A j \in mine : j <= i

\* A variant of FirstValid that gives a slot one chance per batch, valid or not.
FirstChance(h, last) ==
  LET mine == {i \in cursor + 1 .. last : stream[i].slot = h}
      first == CHOOSE i \in mine : \A j \in mine : i <= j
  IN IF taken[h] # 0 \/ mine = {} \/ ~ Valid(first) THEN taken[h] ELSE first

\* The first valid command of slot h up to entry last, if none was taken yet.
FirstValid(h, last) ==
  LET mine == {i \in cursor + 1 .. last : stream[i].slot = h /\ Valid(i)} IN
  IF taken[h] # 0 \/ mine = {} THEN taken[h]
  ELSE CHOOSE i \in mine : \A j \in mine : i <= j

BatchEnd == IF cursor + Batch <= Len(stream) THEN cursor + Batch ELSE Len(stream)

\* The head of the read loop: a slot is missing and there is time left.
Ask ==
  /\ pc = "reading"
  /\ ~ Complete
  /\ ~ expired
  /\ pc' = "waiting"
  /\ UNCHANGED <<step, expired, cursor, taken, stream, applied, readTo, heard>>

\* An XREAD returns what is new; every entry is consumed, taken or not.
Read ==
  /\ pc = "waiting"
  /\ cursor < Len(stream)
  /\ taken' = [h \in Human |-> FirstValid(h, BatchEnd)]
  /\ cursor' = BatchEnd
  /\ pc' = "reading"
  /\ UNCHANGED <<step, expired, stream, applied, readTo, heard>>

\* A variant of TimesOut that gives up without the answer to the XREAD.
TimesOutUnread ==
  /\ pc = "waiting"
  /\ expired
  /\ pc' = "reading"
  /\ UNCHANGED <<step, expired, cursor, taken, stream, applied, readTo, heard>>

\* An XREAD that nothing came for returns at the deadline.
TimesOut ==
  /\ pc = "waiting"
  /\ expired
  /\ cursor = Len(stream)
  /\ pc' = "reading"
  /\ UNCHANGED <<step, expired, cursor, taken, stream, applied, readTo, heard>>

\* A variant of WindowEnds that waits for both players.
WindowEndsComplete == pc = "reading" /\ Complete

WindowEnds == pc = "reading" /\ (Complete \/ expired)

\* A variant of EngineSteps that plays on after the step limit.
EngineStepsOn ==
  \/ step' = step + 1 /\ pc' = "between"
  \/ step' = step /\ pc' = "done"

\* The engine's step: the match goes on, or the engine is done by elimination or
\* at the step limit.
EngineSteps ==
  \/ step < MaxStep /\ step' = step + 1 /\ pc' = "between"
  \/ step' = step /\ pc' = "done"

\* The engine steps with what was taken, an empty action for the rest.
CloseTurn ==
  /\ WindowEnds
  /\ applied' = [applied EXCEPT ![step] = taken]
  /\ EngineSteps
  /\ readTo' = [readTo EXCEPT ![step] = cursor]
  /\ UNCHANGED <<expired, cursor, taken, stream, heard>>

-----------------------------------------------------------------------------
Worker == OpenTurn \/ AgentsChose \/ Ask \/ Read \/ TimesOut \/ CloseTurn

Next ==
  \/ \E h \in Human, n \in Step, legal \in BOOLEAN : Submit(h, n, legal)
  \/ DeadlinePasses
  \/ Worker

Spec == Init /\ [][Next]_vars

\* The worker's loop runs and clocks advance; nothing forces a player to act.
FairSpec == Spec /\ WF_vars(Worker) /\ WF_vars(DeadlinePasses)

-----------------------------------------------------------------------------
(* Properties.                                                              *)

Command(h, n) == [slot |-> h, step |-> n, legal |-> TRUE]

\* How much of the stream was read before turn n opened, and what was read while it
\* was open.
ReadBefore(n) == IF n = 0 THEN 0 ELSE readTo[n - 1]
ReadDuring(n) == ReadBefore(n) + 1 .. readTo[n]

Closed(n) == n < step \/ (n = step /\ pc = "done")

\* What a turn applied for a slot is the first command that was read for the turn, of
\* this slot, for this step and legal in it: not one of another slot or step, not a
\* second thought, not one that an earlier turn had already consumed.
AppliedIsFirstValid ==
  \A n \in Step, h \in Human :
    LET i == applied[n][h] IN
    i # 0 =>
      /\ i \in ReadDuring(n) \cap DOMAIN stream
      /\ stream[i] = Command(h, n)
      /\ \A j \in ReadDuring(n) : j < i => stream[j] # Command(h, n)

\* A turn is empty for a slot only if no valid command of that slot was read for it:
\* one that is late, illegal, of another slot or for a turn still to come does not
\* use up the turn, in whatever batch it arrives, and neither does one for this turn
\* that came too early and was consumed before.
NothingPassedOver ==
  \A n \in Step, h \in Human :
    Closed(n) /\ applied[n][h] = 0 =>
      \A j \in ReadDuring(n) : stream[j] # Command(h, n)

\* A turn for which a legal command came while the worker waited for it, before
\* the deadline, applies a command of that player, even if the deadline passes
\* before the worker has read it.
HeardIsApplied ==
  \A i \in heard :
    stream[i].legal /\ (stream[i].step < step \/ pc = "done")
      => applied[stream[i].step][stream[i].slot] # 0

\* The match ends whatever the players do or do not do.
MatchEnds == <>(pc = "done")
=============================================================================
