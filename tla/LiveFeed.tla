------------------------------ MODULE LiveFeed ------------------------------
(***************************************************************************)
(* What one player sees of a live match: the worker publishes snapshots    *)
(* and events to Redis, the gateway greets a connection with the snapshot, *)
(* answers its resync from the event history and forwards what is new, and *)
(* the battle page follows, reconnects and submits turns.                  *)
(*                                                                         *)
(* A board is named by its step.  The gateway's two tasks send on one      *)
(* socket: inbox is what its receive loop has sent, the entries of events  *)
(* beyond cursor are what its sender task will send.  What players submit  *)
(* to is LiveTurns.                                                        *)
(*                                                                         *)
(* A "variant of X" is a plausible slip in the code X models, which a run  *)
(* must catch; no specification uses it.                                   *)
(***************************************************************************)
EXTENDS Integers, Sequences, FiniteSets, Functions

CONSTANTS
  MaxStep,    \* bound: turns of the match
  MaxFaults,  \* bound: calls to Redis that fail
  MaxDrops    \* bound: connections that are lost

ASSUME LiveFeedAssumption ==
  MaxStep \in Nat \ {0} /\ MaxFaults \in Nat /\ MaxDrops \in Nat

VARIABLES
  wpc,        \* the worker: what it publishes next
  wstep,      \* the engine's step
  snapshot,   \* the step of the snapshot kept for this slot, None before the first
  events,     \* the Redis stream of events
  conn,       \* the socket, as the page sees it
  inbox,      \* sent by the receive loop, not yet handled by the page
  resync,     \* lastSeenStep of a match.resync without an answer, None otherwise
  gate,       \* the sender task: about to ask from "$", waiting for that XREAD,
              \* reading on from an entry, or dead
  cursor,     \* entries up to here are not sent any more on this connection
  page,       \* the page: see Page
  sent,       \* history: per submitted batch, the step it is for and the board
              \* it was made on (None for an automatic pass)
  synced,     \* history: a frame came live on this connection
  lost,       \* history: what the worker failed to publish
  faults, drops

vars == <<wpc, wstep, snapshot, events, conn, inbox, resync, gate, cursor, page,
          sent, synced, lost, faults, drops>>
worker == <<wpc, wstep, snapshot, events, lost>>
gateway == <<inbox, resync, gate, cursor, synced>>

None == -1
Step == 0 .. MaxStep
Event(type, n) == [type |-> type, step |-> n]
EventType == {"turn.open", "turn.closed", "match.frame", "match.finished", "match.error"}
Message == [type : EventType \cup {"match.snapshot"}, step : Step \cup {None}]

\* lastSeenStep, the observation's step and the step its planets are of (None
\* without an observation), whether it has a deadline, the submitted steps, and
\* finished.
Page == [seen : Step, step : Step \cup {None}, board : Step \cup {None},
         deadline : BOOLEAN, submitted : SUBSET Step, over : BOOLEAN]

NewPage == [seen |-> 0, step |-> None, board |-> None, deadline |-> FALSE,
            submitted |-> {}, over |-> FALSE]

TypeOK ==
  /\ wpc \in {"snapshot", "open", "closed", "frame", "finish", "fail", "done"}
  /\ wstep \in Step
  /\ snapshot \in Step \cup {None}
  /\ events \in Seq(Message) /\ inbox \in Seq(Message)
  /\ conn \in {"up", "down"}
  /\ resync \in Step \cup {None}
  /\ gate \in {"ask", "wait", "read", "dead"}
  /\ cursor \in 0 .. Len(events)
  /\ page \in Page
  /\ sent \subseteq [step : Step, board : Step \cup {None}]
  /\ synced \in BOOLEAN
  /\ lost \subseteq Message
  /\ faults \in 0 .. MaxFaults /\ drops \in 0 .. MaxDrops

Init ==
  /\ wpc = "snapshot" /\ wstep = 0 /\ snapshot = None /\ events = <<>>
  /\ conn = "down" /\ inbox = <<>> /\ resync = None
  /\ gate = "dead" /\ cursor = 0
  /\ page = NewPage
  /\ sent = {} /\ synced = FALSE /\ lost = {}
  /\ faults = 0 /\ drops = 0

-----------------------------------------------------------------------------
(* The worker.  A RedisError is logged and the match goes on.               *)

Lose(m) == faults < MaxFaults /\ faults' = faults + 1 /\ lost' = lost \cup {m}

Publish(type, n) ==
  \/ events' = Append(events, Event(type, n)) /\ UNCHANGED <<lost, faults>>
  \/ Lose(Event(type, n)) /\ UNCHANGED events

\* A variant of PublishSnapshot that plays on after the last step.
PublishSnapshotOn ==
  /\ wpc = "snapshot"
  /\ snapshot' = wstep
  /\ wpc' \in {"open", "finish"}
  /\ UNCHANGED <<wstep, events, lost, faults>>

\* The board before the first turn and after every turn.  The loop ends when the
\* engine is done or the worker is stopped.
PublishSnapshot ==
  /\ wpc = "snapshot"
  /\ \/ snapshot' = wstep /\ UNCHANGED <<lost, faults>>
     \/ Lose(Event("match.snapshot", wstep)) /\ UNCHANGED snapshot
  /\ wpc' \in IF wstep < MaxStep THEN {"open", "finish", "fail"} ELSE {"finish", "fail"}
  /\ UNCHANGED <<wstep, events>>

PublishOpen ==
  /\ wpc = "open"
  /\ Publish("turn.open", wstep)
  /\ wpc' \in {"closed", "fail"}
  /\ UNCHANGED <<wstep, snapshot>>

\* The window of LiveTurns closes, the engine steps.
PublishClosed ==
  /\ wpc = "closed"
  /\ Publish("turn.closed", wstep)
  /\ wstep' = wstep + 1
  /\ wpc' = "frame"
  /\ UNCHANGED snapshot

\* A variant of PublishFrame that names the step that was played.
PublishFrameOld ==
  /\ wpc = "frame"
  /\ Publish("match.frame", wstep - 1)
  /\ wpc' = "snapshot"
  /\ UNCHANGED <<wstep, snapshot>>

PublishFrame ==
  /\ wpc = "frame"
  /\ Publish("match.frame", wstep)
  /\ wpc' = "snapshot"
  /\ UNCHANGED <<wstep, snapshot>>

\* match.finished carries the final step, the match.error of a failure none.
PublishEnd ==
  /\ \/ wpc = "finish" /\ Publish("match.finished", wstep)
     \/ wpc = "fail" /\ Publish("match.error", None)
  /\ wpc' = "done"
  /\ UNCHANGED <<wstep, snapshot>>

Worker ==
  /\ PublishSnapshot \/ PublishOpen \/ PublishClosed \/ PublishFrame \/ PublishEnd
  /\ UNCHANGED <<conn, inbox, resync, gate, cursor, page, sent, synced, drops>>

-----------------------------------------------------------------------------
(* The gateway.                                                             *)

\* The ticket is valid: greet with the snapshot there is, start the sender; the
\* page asks for what it missed when the socket opens.
Connect ==
  /\ conn = "down" /\ ~ page.over
  /\ conn' = "up"
  /\ inbox' = IF snapshot = None THEN <<>> ELSE <<Event("match.snapshot", snapshot)>>
  /\ resync' = page.seen
  /\ gate' = "ask" /\ cursor' = 0 /\ synced' = FALSE
  /\ UNCHANGED <<worker, page, sent, faults, drops>>

Rank(m) ==
  CASE m.type = "turn.open" -> 0
    [] m.type = "turn.closed" -> 2
    [] m.type = "match.frame" -> 3
    [] OTHER -> 9

Before(m, n) == m.step < n.step \/ (m.step = n.step /\ Rank(m) < Rank(n))

\* _ordered_unique: by step and kind, not in the order they were published.
History(after) ==
  LET kept == {m \in Range(events) : m.step > after}
      Place(m) == Cardinality({n \in kept : Before(n, m)})
  IN [i \in 1 .. Cardinality(kept) |-> CHOOSE m \in kept : Place(m) = i - 1]

Resync ==
  /\ conn = "up" /\ resync # None
  /\ inbox' = inbox \o History(resync)
  /\ resync' = None
  /\ UNCHANGED <<worker, conn, gate, cursor, page, sent, synced, faults, drops>>

\* An XREAD from "$" hears what comes after it was asked ...
AskNew ==
  /\ conn = "up" /\ gate = "ask"
  /\ gate' = "wait" /\ cursor' = Len(events)
  /\ UNCHANGED <<worker, conn, inbox, resync, page, sent, synced, faults, drops>>

\* ... and is asked again, from "$", when a second brings nothing.
AskTimesOut ==
  /\ conn = "up" /\ gate = "wait" /\ cursor = Len(events)
  /\ gate' = "ask"
  /\ UNCHANGED <<worker, conn, inbox, resync, cursor, page, sent, synced, faults, drops>>

\* The subscription raises: the task is dead, the receive loop does not notice.
SenderDies ==
  /\ conn = "up" /\ gate # "dead"
  /\ faults < MaxFaults /\ faults' = faults + 1
  /\ gate' = "dead" /\ synced' = FALSE
  /\ UNCHANGED <<worker, conn, inbox, resync, cursor, page, sent, drops>>

-----------------------------------------------------------------------------
(* The page.                                                                *)

\* A variant of Shown that takes a turn.open for the turn whatever it has seen.
ShownReopened(m) ==
  IF m.step < page.seen /\ m.type # "turn.open" THEN page
  ELSE IF page.board = None /\ m.type # "match.snapshot" THEN [page EXCEPT !.seen = m.step]
  ELSE [page EXCEPT !.seen = m.step, !.step = m.step,
                    !.board = IF m.type = "turn.open" THEN @ ELSE m.step,
                    !.deadline = m.type # "match.frame"]

\* A variant of Shown that only ignores old frames.
ShownSnapshot(m) ==
  IF m.step < page.seen /\ m.type # "match.snapshot" THEN page
  ELSE IF page.board = None /\ m.type # "match.snapshot" THEN [page EXCEPT !.seen = m.step]
  ELSE [page EXCEPT !.seen = m.step, !.step = m.step,
                    !.board = IF m.type = "turn.open" THEN @ ELSE m.step,
                    !.deadline = m.type # "match.frame"]

\* onmessage: a snapshot has a board and a deadline; a frame replaces the planets
\* and clears the deadline, a turn.open sets step and deadline and leaves the planets,
\* both without effect on the board while there is no observation; older steps are
\* ignored.  Boards clear the draft, so a draft is always made on page.board.
Shown(m) ==
  IF m.step < page.seen THEN page
  ELSE IF page.board = None /\ m.type # "match.snapshot" THEN [page EXCEPT !.seen = m.step]
  ELSE [page EXCEPT !.seen = m.step, !.step = m.step,
                    !.board = IF m.type = "turn.open" THEN @ ELSE m.step,
                    !.deadline = m.type # "match.frame"]

\* A match.error of the worker is not recoverable and ends the page like
\* match.finished.
Handled(m) ==
  CASE m.type \in {"match.snapshot", "match.frame", "turn.open"} -> Shown(m)
    [] m.type = "turn.closed" -> page
    [] m.type \in {"match.finished", "match.error"} -> [page EXCEPT !.over = TRUE]

ReceiveReply ==
  /\ conn = "up" /\ inbox # <<>>
  /\ page' = Handled(Head(inbox))
  /\ inbox' = Tail(inbox)
  /\ UNCHANGED <<worker, conn, resync, gate, cursor, sent, synced, faults, drops>>

Greeted == \A m \in Range(inbox) : m.type # "match.snapshot"

\* A variant of ReceiveEvent whose cursor stays at "$".
ReceiveEventDollar ==
  /\ conn = "up" /\ gate = "wait" /\ cursor < Len(events)
  /\ Greeted
  /\ page' = Handled(events[cursor + 1])
  /\ cursor' = Len(events)
  /\ gate' = "ask"
  /\ synced' = (synced \/ events[cursor + 1].type = "match.frame")
  /\ UNCHANGED <<worker, conn, inbox, resync, sent, faults, drops>>

\* The greeting is sent before the sender starts; later replies and events come
\* in any order.
ReceiveEvent ==
  /\ conn = "up" /\ gate \in {"wait", "read"} /\ cursor < Len(events)
  /\ Greeted
  /\ page' = Handled(events[cursor + 1])
  /\ cursor' = cursor + 1
  /\ gate' = "read"
  /\ synced' = (synced \/ events[cursor + 1].type = "match.frame")
  /\ UNCHANGED <<worker, conn, inbox, resync, sent, faults, drops>>

CanSend == conn = "up" /\ page.board # None /\ page.step \notin page.submitted

Send(board) ==
  /\ page' = [page EXCEPT !.submitted = @ \cup {page.step}]
  /\ sent' = sent \cup {[step |-> page.step, board |-> board]}
  /\ UNCHANGED <<worker, gateway, conn, faults, drops>>

\* The player commits the draft, for the step the observation has now.
Commit == CanSend /\ Send(page.board)

\* 120 ms before a deadline the page passes for the player.
AutoPass == CanSend /\ page.deadline /\ Send(None)

\* The connection is lost and with it what was under way; or the page is reloaded.
Drop ==
  /\ conn = "up" /\ drops < MaxDrops
  /\ drops' = drops + 1
  /\ conn' = "down"
  /\ page' \in {page, NewPage}
  /\ inbox' = <<>> /\ resync' = None /\ gate' = "dead" /\ synced' = FALSE /\ cursor' = 0
  /\ UNCHANGED <<worker, sent, faults>>

-----------------------------------------------------------------------------
Receive == ReceiveReply \/ ReceiveEvent

Next ==
  \/ Worker
  \/ Connect \/ Resync \/ AskNew \/ AskTimesOut \/ SenderDies
  \/ Receive \/ Commit \/ AutoPass \/ Drop

Spec == Init /\ [][Next]_vars

\* The worker and the gateway's tasks run, a socket delivers; nothing forces a
\* player to act or a connection to come up.
FairSpec == Spec /\ WF_vars(Worker) /\ WF_vars(Resync) /\ WF_vars(ReceiveReply)
                 /\ WF_vars(ReceiveEvent)

-----------------------------------------------------------------------------
(* Properties.                                                              *)

Newest(type) == {m.step : m \in {n \in Range(events) : n.type = type}}

\* A page that has had a frame live and the answer to its resync shows the board
\* of the turn it is in, and when nothing is under way the newest board, although
\* history and live events overlap and history is not in the order of publishing.
\* A lost frame is the exception.
FollowsTheMatch ==
  synced /\ resync = None /\ inbox = <<>> /\ page.board # None /\ lost = {} =>
    /\ page.board = page.step
    /\ gate = "read" /\ cursor = Len(events) =>
         \A n \in Newest("match.frame") \cup Newest("turn.open") : n <= page.board

\* Neither the board nor the turn a page shows goes back, unless it is reloaded.
NeverBack ==
  [][page' = NewPage \/ (page'.board >= page.board /\ page'.step >= page.step)]_vars

\* A batch is for a turn whose board was published, and never made on the board of
\* a later turn: history that arrives late does not take the page back to a turn
\* that is over.  The gateway checks neither: other clients of it may do both.
BatchesForKnownTurns == \A s \in sent : s.step <= wstep /\ s.board <= s.step

\* A page that follows the match live hears of its end, unless the connection, the
\* sender or the very message is lost.
HearsTheEnd ==
  synced ~> page.over \/ ~ synced
            \/ \E m \in lost : m.type \in {"match.finished", "match.error"}

\* A batch is made on the board of the turn it is for.
BatchesFitTheirTurn == \A s \in sent : s.board \in {s.step, None}
=============================================================================
