--------------------------- MODULE LiveFeedProofs ---------------------------
(***************************************************************************)
(* What a player sees of a match, for every number of turns, of failing    *)
(* calls and of lost connections.                                          *)
(***************************************************************************)
EXTENDS LiveFeed, FiniteSetTheorems, SequenceTheorems, TLAPS

-----------------------------------------------------------------------------
(* The inductive invariant.                                                 *)

Frame(n) == Event("match.frame", n)

\* The last step whose board the worker has published, or is about to.
Published == IF wpc = "frame" THEN wstep - 1 ELSE wstep

\* The frames the sender task will still send on this connection.
NewFrames ==
  {events[i].step : i \in {j \in cursor + 1 .. Len(events) : events[j].type = "match.frame"}}

\* A turn is opened right after the frame of its board.
WorkerInv ==
  /\ wpc \in {"open", "closed"} => wstep < MaxStep
  /\ wpc = "frame" => wstep > 0
  /\ snapshot <= Published
  /\ lost = {} /\ wpc \in {"snapshot", "open"} /\ wstep > 0 =>
       Len(events) > 0 /\ events[Len(events)] = Frame(wstep)

EventKinds ==
  \A i \in 1 .. Len(events) :
    /\ events[i].type \in EventType
    /\ IF events[i].type = "match.error" THEN events[i].step = None
       ELSE events[i].step \in 0 .. Published

\* A frame is of a later step than every turn opened before it.
FramesAhead ==
  \A i, j \in 1 .. Len(events) :
    i < j /\ events[j].type = "match.frame" =>
      /\ events[i].step <= events[j].step
      /\ events[i].type = "turn.open" => events[i].step < events[j].step

OpenFollowsFrame ==
  lost = {} =>
    \A i \in 1 .. Len(events) :
      events[i].type = "turn.open" /\ events[i].step > 0 =>
        i > 1 /\ events[i - 1] = Frame(events[i].step)

InboxKinds ==
  \A i \in 1 .. Len(inbox) :
    /\ inbox[i].type # "match.error"
    /\ inbox[i].step \in 0 .. Published
    /\ inbox[i].type = "match.snapshot" => i = 1

\* History is in the order of steps: the frame of a turn comes after its turn.open.
FrameFollowsOpen ==
  lost = {} =>
    \A i \in 1 .. Len(inbox) :
      inbox[i].type = "turn.open" /\ inbox[i].step > 0 =>
        \E j \in i + 1 .. Len(inbox) : inbox[j] = Frame(inbox[i].step)

PageInv ==
  /\ page.seen <= Published
  /\ page.board = None => page.step = None
  /\ page.board # None => page.step = page.seen /\ page.board <= page.step

SentInv == \A s \in sent : s.step <= Published /\ s.board <= s.step

\* Whatever the sender task will send of the board is new to the page.
Behind == gate \in {"wait", "read"} => \A n \in NewFrames : n > page.seen

Offline == conn = "down" => inbox = <<>> /\ ~ synced

LiveReads == synced => gate = "read" /\ Greeted

\* A page that follows live has seen every turn the sender task has sent.
LiveSeen ==
  synced => \A i \in 1 .. cursor :
              events[i].type \in {"turn.open", "match.frame"} => events[i].step <= page.seen

GreetingFirst == conn = "up" /\ ~ Greeted => gate # "read" /\ Behind

\* The board a page lacks for its turn is in the replies under way, or the first
\* live frame will bring a newer one.
BoardComes ==
  conn = "up" /\ Greeted /\ page.board # None /\ lost = {} =>
    \/ page.board = page.seen
    \/ Frame(page.seen) \in Range(inbox)
    \/ ~ synced /\ Behind

FeedInv ==
  /\ TypeOK
  /\ WorkerInv
  /\ EventKinds /\ FramesAhead /\ OpenFollowsFrame
  /\ InboxKinds /\ FrameFollowsOpen
  /\ PageInv /\ SentInv
  /\ Offline /\ LiveReads /\ LiveSeen /\ GreetingFirst /\ BoardComes

-----------------------------------------------------------------------------
(* What a resync is answered with.                                          *)

\* Counting what comes before an element sorts a finite set: every element has a
\* place of its own and no place is empty.
LEMMA SortedByPlace ==
  ASSUME NEW kept, IsFiniteSet(kept),
         \A m \in kept : ~ Before(m, m),
         \A m, n \in kept : m = n \/ Before(m, n) \/ Before(n, m),
         \A l, m, n \in kept : Before(l, m) /\ Before(m, n) => Before(l, n)
  PROVE  LET Place(m) == Cardinality({n \in kept : Before(n, m)})
             h == [i \in 1 .. Cardinality(kept) |-> CHOOSE m \in kept : Place(m) = i - 1]
         IN  /\ Cardinality(kept) \in Nat
             /\ \A i \in 1 .. Cardinality(kept) : h[i] \in kept
             /\ \A m \in kept : \E i \in 1 .. Cardinality(kept) : h[i] = m
             /\ \A i, j \in 1 .. Cardinality(kept) : i < j => Before(h[i], h[j])
<1> DEFINE Earlier(m) == {n \in kept : Before(n, m)}
           Place(m) == Cardinality({n \in kept : Before(n, m)})
           h == [i \in 1 .. Cardinality(kept) |-> CHOOSE m \in kept : Place(m) = i - 1]
           place == [m \in kept |-> Place(m)]
<1> DEFINE N == Cardinality(kept)
<1>1. N \in Nat
  BY FS_CardinalityType
<1>2. \A m \in kept : Place(m) \in 0 .. N - 1
  <2> TAKE m \in kept
  <2>1. Earlier(m) \in SUBSET kept /\ m \notin Earlier(m)
    OBVIOUS
  <2>2. IsFiniteSet(Earlier(m)) /\ Cardinality(Earlier(m)) <= N /\ Cardinality(Earlier(m)) # N
    BY <2>1, FS_Subset
  <2>3. Cardinality(Earlier(m)) \in Nat
    BY <2>2, FS_CardinalityType
  <2> HIDE DEF N
  <2> QED
    BY <2>2, <2>3, <1>1
<1>3. \A m, n \in kept : Before(m, n) => Place(m) < Place(n)
  <2> SUFFICES ASSUME NEW m \in kept, NEW n \in kept, Before(m, n)
               PROVE  Place(m) < Place(n)
    OBVIOUS
  <2>1. Earlier(n) \in SUBSET kept
    OBVIOUS
  <2>2. IsFiniteSet(Earlier(n))
    BY <2>1, FS_Subset
  <2>3. Earlier(m) \in SUBSET Earlier(n) /\ m \in Earlier(n) /\ m \notin Earlier(m)
    OBVIOUS
  <2>4. Cardinality(Earlier(m)) <= Cardinality(Earlier(n))
        /\ Cardinality(Earlier(m)) # Cardinality(Earlier(n))
    BY <2>2, <2>3, FS_Subset
  <2>5. Place(m) \in Int /\ Place(n) \in Int
    BY <1>1, <1>2
  <2> HIDE DEF N
  <2> QED
    BY <2>4, <2>5
<1> HIDE DEF Place, N
<1>4. \A m, n \in kept : Place(m) = Place(n) => m = n
  BY <1>1, <1>2, <1>3
<1>5. place \in Injection(kept, 0 .. N - 1)
  BY <1>2, <1>4 DEF Injection, IsInjective
<1>6. IsFiniteSet(0 .. N - 1) /\ Cardinality(0 .. N - 1) = N
  BY <1>1, FS_Interval
<1>7. place \in Surjection(kept, 0 .. N - 1)
  BY <1>5, <1>6, FS_Injection DEF N
<1>8. \A i \in 1 .. N : \E m \in kept : Place(m) = i - 1
  <2> TAKE i \in 1 .. N
  <2>1. i - 1 \in 0 .. N - 1
    BY <1>1
  <2>2. PICK m \in kept : place[m] = i - 1
    BY <1>7, <2>1 DEF Surjection
  <2> QED
    BY <2>2
<1>9. \A i \in 1 .. N : h[i] \in kept /\ Place(h[i]) = i - 1
  BY <1>8 DEF N
<1> HIDE DEF h
<1>10. \A m \in kept : \E i \in 1 .. N : h[i] = m
  <2> TAKE m \in kept
  <2>1. Place(m) + 1 \in 1 .. N /\ (Place(m) + 1) - 1 = Place(m)
    BY <1>1, <1>2
  <2>2. h[Place(m) + 1] = m
    BY <1>4, <1>9, <2>1
  <2> QED
    BY <2>1, <2>2
<1>11. ASSUME NEW i \in 1 .. N, NEW j \in 1 .. N, i < j
       PROVE  Before(h[i], h[j])
  <2>1. Place(h[i]) < Place(h[j])
    BY <1>1, <1>9, <1>11
  <2>2. Place(h[i]) \in Int /\ Place(h[j]) \in Int
    BY <1>1, <1>2, <1>9
  <2>3. h[i] # h[j]
    BY <2>1, <2>2
  <2>4. ~ Before(h[j], h[i])
    BY <1>3, <1>9, <2>1, <2>2
  <2> QED
    BY <1>9, <2>3, <2>4
<1> QED
  BY <1>1, <1>9, <1>10, <1>11 DEF N, h, Place

\* The answer to a resync holds the events of later steps, each of them, ordered by
\* step and kind.
LEMMA HistoryIsSorted ==
  ASSUME TypeOK, EventKinds, NEW after \in Step
  PROVE  LET h == History(after)
         IN  /\ h \in Seq(Message)
             /\ \A i \in 1 .. Len(h) : h[i].step > after
                  /\ \E k \in 1 .. Len(events) : h[i] = events[k]
             /\ \A k \in 1 .. Len(events) : events[k].step > after =>
                  \E i \in 1 .. Len(h) : h[i] = events[k]
             /\ \A i, j \in 1 .. Len(h) : i < j => Before(h[i], h[j])
<1> DEFINE kept == {m \in Range(events) : m.step > after}
           Place(m) == Cardinality({n \in kept : Before(n, m)})
           h == [i \in 1 .. Cardinality(kept) |-> CHOOSE m \in kept : Place(m) = i - 1]
<1>1. /\ Len(events) \in Nat
      /\ DOMAIN events = 1 .. Len(events)
      /\ Range(events) \subseteq Message
      /\ events \in Surjection(1 .. Len(events), Range(events))
  <2>1. events \in [1 .. Len(events) -> Message] /\ Len(events) \in Nat
    BY LenProperties DEF TypeOK
  <2>2. Range(events) \subseteq Message
    BY <2>1 DEF Range
  <2>3. events \in Surjection(1 .. Len(events), Range(events))
    BY <2>1 DEF Range, Surjection
  <2> QED
    BY <2>1, <2>2, <2>3
<1>2. IsFiniteSet(Range(events))
  BY <1>1, FS_Interval, FS_Surjection
<1>3. IsFiniteSet(kept)
  BY <1>2, FS_Subset
<1>4. after \in Int /\ after >= 0
  BY LiveFeedAssumption DEF Step
<1>5. \A m \in kept :
        /\ m = [type |-> m.type, step |-> m.step]
        /\ m.type \in {"turn.open", "turn.closed", "match.frame", "match.finished"}
        /\ m.step \in Int
        /\ m \in Message
  <2> TAKE m \in kept
  <2>1. PICK k \in 1 .. Len(events) : m = events[k]
    BY <1>1 DEF Range
  <2>2. m \in Message
    BY <1>1
  <2>3. m = [type |-> m.type, step |-> m.step] /\ m.step \in Step \cup {None}
    BY <2>2 DEF Message
  <2>4. m.step \in Int
    BY <2>3, LiveFeedAssumption DEF Step, None
  <2>5. m.step # None
    BY <1>4, <2>4 DEF None
  <2>6. m.type \in EventType /\ m.type # "match.error"
    BY <2>1, <2>5 DEF EventKinds
  <2> QED
    BY <2>2, <2>3, <2>4, <2>6 DEF EventType
<1>6. \A m \in kept : Rank(m) \in 0 .. 9
  BY <1>5 DEF Rank
<1>7. \A m, n \in kept : Rank(m) = Rank(n) => m.type = n.type
  BY <1>5 DEF Rank
<1> HIDE DEF kept
<1>8. \A m \in kept : ~ Before(m, m)
  BY <1>5, <1>6 DEF Before
<1>9. \A m, n \in kept : m = n \/ Before(m, n) \/ Before(n, m)
  <2> TAKE m, n \in kept
  <2>1. CASE m.step = n.step /\ Rank(m) = Rank(n)
    BY <2>1, <1>5, <1>7
  <2>2. CASE ~ (m.step = n.step /\ Rank(m) = Rank(n))
    BY <2>2, <1>5, <1>6 DEF Before
  <2> QED
    BY <2>1, <2>2
<1>10. \A l, m, n \in kept : Before(l, m) /\ Before(m, n) => Before(l, n)
  BY <1>5, <1>6 DEF Before
<1>11. /\ Cardinality(kept) \in Nat
       /\ \A i \in 1 .. Cardinality(kept) : h[i] \in kept
       /\ \A m \in kept : \E i \in 1 .. Cardinality(kept) : h[i] = m
       /\ \A i, j \in 1 .. Cardinality(kept) : i < j => Before(h[i], h[j])
  <2> HIDE DEF h
  <2> QED
    BY <1>3, <1>8, <1>9, <1>10, SortedByPlace DEF h
<1>12. History(after) = h
  BY DEF History, kept
<1> DEFINE N == Cardinality(kept)
<1>13. h \in [1 .. N -> Message]
  BY <1>5, <1>11
<1> HIDE DEF h
<1>14. h \in Seq(Message)
  <2> HIDE DEF N
  <2>1. N \in Nat
    BY <1>11 DEF N
  <2> QED
    BY <1>13, <2>1, SeqDef, Zenon
<1>15. Len(h) = N
  <2>1. DOMAIN h = 1 .. Len(h) /\ Len(h) \in Nat
    BY <1>14, LenProperties
  <2>2. DOMAIN h = 1 .. N /\ N \in Nat
    BY <1>11, <1>13
  <2> HIDE DEF N
  <2> DEFINE L == Len(h)
  <2>3. 1 .. L = 1 .. N /\ L \in Nat /\ N \in Nat
    BY <2>1, <2>2
  <2> HIDE DEF L
  <2>4. (N \in 1 .. N <=> N \in 1 .. L) /\ (L \in 1 .. N <=> L \in 1 .. L)
    BY <2>3
  <2>5. L = N
    BY <2>3, <2>4
  <2> QED
    BY <2>5 DEF L
<1>16. \A i \in 1 .. Len(h) : h[i].step > after /\ \E k \in 1 .. Len(events) : h[i] = events[k]
  BY <1>1, <1>11, <1>15 DEF kept, Range
<1>17. \A k \in 1 .. Len(events) : events[k].step > after => \E i \in 1 .. Len(h) : h[i] = events[k]
  BY <1>1, <1>11, <1>15 DEF kept, Range
<1>18. \A i, j \in 1 .. Len(h) : i < j => Before(h[i], h[j])
  BY <1>11, <1>15
<1> QED
  BY <1>12, <1>14, <1>16, <1>17, <1>18, Zenon

-----------------------------------------------------------------------------
(* What the parts of the state are.                                         *)

LEMMA StepFacts ==
  /\ 0 \in Step
  /\ None = -1 /\ None \notin Step
  /\ \A n \in Step : n \in Int /\ n >= 0 /\ n <= MaxStep /\ \A k \in 0 .. n : k \in Step
  /\ \A n \in Step \cup {None} : n \in Int /\ n >= -1
BY LiveFeedAssumption DEF Step, None

LEMMA MessageFacts ==
  /\ \A m \in Message : m.step \in Int /\ m.step >= -1
  /\ \A m \in Message : m.type \in EventType \cup {"match.snapshot"} /\ m.step \in Step \cup {None}
BY LiveFeedAssumption DEF Step, None, Message

LEMMA EventFacts ==
  ASSUME NEW type \in EventType \cup {"match.snapshot"}, NEW n \in Step \cup {None}
  PROVE  Event(type, n) \in Message /\ Event(type, n).type = type /\ Event(type, n).step = n
BY DEF Event, Message

LEMMA RangeOfMessages ==
  ASSUME NEW s \in Seq(Message)
  PROVE  Range(s) = {s[i] : i \in 1 .. Len(s)}
BY LenProperties DEF Range

LEMMA EventsAreMessages ==
  ASSUME TypeOK
  PROVE  /\ Len(events) \in Nat /\ DOMAIN events = 1 .. Len(events)
         /\ \A i \in 1 .. Len(events) : events[i] \in Message /\ events[i].step \in Int
<1>1. events \in Seq(Message)
  BY DEF TypeOK
<1>2. Len(events) \in Nat /\ DOMAIN events = 1 .. Len(events)
  BY <1>1, LenProperties
<1>3. \A i \in 1 .. Len(events) : events[i] \in Message
  BY <1>1, ElementOfSeq
<1> QED
  BY <1>2, <1>3, MessageFacts

LEMMA InboxIsMessages ==
  ASSUME TypeOK
  PROVE  /\ Len(inbox) \in Nat /\ DOMAIN inbox = 1 .. Len(inbox)
         /\ \A i \in 1 .. Len(inbox) : inbox[i] \in Message /\ inbox[i].step \in Int
         /\ Range(inbox) = {inbox[i] : i \in 1 .. Len(inbox)}
<1>1. inbox \in Seq(Message)
  BY DEF TypeOK
<1>2. Len(inbox) \in Nat /\ DOMAIN inbox = 1 .. Len(inbox)
  BY <1>1, LenProperties
<1>3. \A i \in 1 .. Len(inbox) : inbox[i] \in Message
  BY <1>1, ElementOfSeq
<1> QED
  BY <1>2, <1>3, MessageFacts DEF Range

LEMMA PageParts ==
  ASSUME TypeOK
  PROVE  /\ page.seen \in Step /\ page.seen \in Int /\ page.seen >= 0
         /\ page.board \in Step \cup {None} /\ page.board \in Int /\ page.board >= -1
         /\ page.step \in Step \cup {None} /\ page.step \in Int /\ page.step >= -1
<1>1. page \in Page
  BY DEF TypeOK
<1>2. /\ page.seen \in Step
      /\ page.board \in Step \cup {None}
      /\ page.step \in Step \cup {None}
  BY <1>1 DEF Page
<1> QED
  BY <1>2, StepFacts

LEMMA SentParts ==
  ASSUME TypeOK
  PROVE  \A s \in sent : s.step \in Step /\ s.step \in Int /\ s.board \in Int
<1>1. sent \subseteq [step : Step, board : Step \cup {None}]
  BY DEF TypeOK
<1> TAKE s \in sent
<1>2. s.step \in Step /\ s.board \in Step \cup {None}
  BY <1>1
<1> QED
  BY <1>2, StepFacts

LEMMA PublishedIsAStep ==
  ASSUME TypeOK, WorkerInv
  PROVE  Published \in Step /\ Published \in Nat /\ Published <= wstep /\ wstep \in Nat
<1>1. wstep \in 0 .. MaxStep /\ MaxStep \in Nat
  BY LiveFeedAssumption DEF TypeOK, Step
<1>2. wpc = "frame" => wstep > 0
  BY DEF WorkerInv
<1> QED
  BY <1>1, <1>2 DEF Published, Step

LEMMA FeedInvInit == Init => FeedInv
<1> SUFFICES ASSUME Init PROVE FeedInv
  OBVIOUS
<1>1. /\ events = <<>> /\ inbox = <<>> /\ Len(events) = 0 /\ Len(inbox) = 0
      /\ events \in Seq(Message) /\ inbox \in Seq(Message)
  BY EmptySeq DEF Init
<1>2. page \in Page /\ page.seen = 0 /\ page.board = None /\ page.step = None
  BY StepFacts DEF Init, NewPage, Page
<1>3. TypeOK
  <2>1. /\ wstep \in Step /\ snapshot \in Step \cup {None} /\ resync \in Step \cup {None}
        /\ sent \subseteq [step : Step, board : Step \cup {None}] /\ lost \subseteq Message
        /\ cursor \in 0 .. Len(events)
        /\ faults \in 0 .. MaxFaults /\ drops \in 0 .. MaxDrops
    BY <1>1, StepFacts, LiveFeedAssumption DEF Init
  <2> QED
    BY <1>1, <1>2, <2>1, Zenon DEF Init, TypeOK
<1>4. WorkerInv /\ Published = 0
  BY LiveFeedAssumption DEF Init, WorkerInv, Published, None
<1>5. EventKinds /\ FramesAhead /\ OpenFollowsFrame /\ InboxKinds /\ FrameFollowsOpen
  BY <1>1 DEF EventKinds, FramesAhead, OpenFollowsFrame, InboxKinds, FrameFollowsOpen
<1>6. PageInv /\ SentInv
  BY <1>2, <1>4 DEF Init, PageInv, SentInv
<1>7. Offline /\ LiveReads /\ LiveSeen /\ GreetingFirst /\ BoardComes
  BY <1>1 DEF Init, Offline, LiveReads, LiveSeen, GreetingFirst, BoardComes
<1> QED
  BY <1>3, <1>4, <1>5, <1>6, <1>7 DEF FeedInv

-----------------------------------------------------------------------------
(* The worker.                                                              *)

LEMMA Appended ==
  ASSUME TypeOK, NEW m \in Message, events' = Append(events, m)
  PROVE  /\ events' \in Seq(Message)
         /\ Len(events') = Len(events) + 1
         /\ \A i \in 1 .. Len(events) : events'[i] = events[i]
         /\ events'[Len(events) + 1] = m
BY AppendProperties DEF TypeOK

\* What the others know stays true when an event is added: it is no frame the page
\* could have seen.
LEMMA OthersKeepUp ==
  ASSUME FeedInv, NEW m \in Message,
         \/ events' = events
         \/ events' = Append(events, m) /\ (m.type = "match.frame" => m.step > Published),
         Published' \in Int, Published' >= Published, lost' = {} => lost = {},
         UNCHANGED <<conn, inbox, gate, cursor, page, sent, synced>>
  PROVE  /\ InboxKinds' /\ FrameFollowsOpen'
         /\ PageInv' /\ SentInv'
         /\ Offline' /\ LiveReads' /\ LiveSeen' /\ GreetingFirst' /\ BoardComes'
<1>1. TypeOK /\ Published \in Nat
  BY PublishedIsAStep DEF FeedInv
<1>2. cursor \in 0 .. Len(events)
  BY <1>1 DEF TypeOK
<1>3. InboxKinds' /\ FrameFollowsOpen'
  BY <1>1, InboxIsMessages DEF FeedInv, InboxKinds, FrameFollowsOpen
<1>4. PageInv'
  BY <1>1, PageParts DEF FeedInv, PageInv
<1>5. SentInv'
  <2>1. \A s \in sent : s.step \in Int
    BY <1>1, SentParts
  <2> QED
    BY <1>1, <2>1 DEF FeedInv, SentInv
<1>6. Offline' /\ LiveReads'
  BY DEF FeedInv, Offline, LiveReads, Greeted
<1>7. /\ Len(events) \in Nat
      /\ \A i \in 1 .. cursor : i \in 1 .. Len(events) /\ events'[i] = events[i]
  BY <1>1, <1>2, EventsAreMessages, Appended
<1>8. LiveSeen'
  BY <1>7 DEF FeedInv, LiveSeen
<1>9. NewFrames' \subseteq NewFrames \cup {n \in Int : n > Published}
  <2>1. CASE events' = events
    BY <2>1 DEF NewFrames
  <2>2. CASE events' = Append(events, m) /\ (m.type = "match.frame" => m.step > Published)
    <3>1. /\ Len(events') = Len(events) + 1
          /\ \A i \in 1 .. Len(events) : events'[i] = events[i]
          /\ events'[Len(events) + 1] = m
      BY <1>1, <2>2, Appended
    <3>2. m.step \in Int
      BY MessageFacts
    <3>3. ASSUME NEW i \in cursor + 1 .. Len(events'), events'[i].type = "match.frame"
          PROVE  events'[i].step \in NewFrames \cup {n \in Int : n > Published}
      <4>1. CASE i = Len(events) + 1
        BY <2>2, <3>1, <3>2, <3>3, <4>1
      <4>2. CASE i # Len(events) + 1
        <5>1. i \in cursor + 1 .. Len(events)
          BY <1>2, <1>7, <3>1, <4>2
        <5>2. i \in 1 .. Len(events)
          BY <1>2, <1>7, <5>1
        <5> QED
          BY <3>1, <3>3, <5>1, <5>2 DEF NewFrames
      <4> QED
        BY <4>1, <4>2
    <3> QED
      BY <3>3 DEF NewFrames
  <2> QED
    BY <2>1, <2>2
<1>10. Behind => Behind'
  <2>1. page.seen <= Published
    BY DEF FeedInv, PageInv
  <2> QED
    BY <1>1, <1>9, <2>1, PageParts DEF Behind
<1>11. GreetingFirst'
  BY <1>10 DEF FeedInv, GreetingFirst, Greeted
<1>12. BoardComes'
  BY <1>10 DEF FeedInv, BoardComes, Greeted, Frame, Event
<1> QED
  BY <1>3, <1>4, <1>5, <1>6, <1>8, <1>11, <1>12

\* What the stream of events knows stays true when it gets an event that names a
\* published step, if a frame is of a new step and a turn opens on its frame.
LEMMA EventsStayInOrder ==
  ASSUME FeedInv, NEW m \in Message,
         \/ events' = events
         \/ /\ events' = Append(events, m)
            /\ m.type \in EventType
            /\ IF m.type = "match.error" THEN m.step = None ELSE m.step \in 0 .. Published'
            /\ m.type = "match.frame" => m.step > Published
            /\ m.type = "turn.open" /\ m.step > 0 /\ lost = {} =>
                 Len(events) > 0 /\ events[Len(events)] = Frame(m.step),
         Published' \in Int, Published' >= Published, lost' = {} => lost = {}
  PROVE  EventKinds' /\ FramesAhead' /\ OpenFollowsFrame'
<1>1. TypeOK /\ Published \in Nat
  BY PublishedIsAStep DEF FeedInv
<1>2. /\ Len(events) \in Nat
      /\ \A i \in 1 .. Len(events) : events[i].step \in Int /\ events[i].step <= Published
  BY <1>1, EventsAreMessages, StepFacts DEF FeedInv, EventKinds
<1>3. CASE events' = events
  BY <1>1, <1>2, <1>3 DEF FeedInv, EventKinds, FramesAhead, OpenFollowsFrame, Frame, Event
<1>4. CASE events' = Append(events, m) /\ events' # events
  <2>1. /\ Len(events') = Len(events) + 1
        /\ \A i \in 1 .. Len(events) : events'[i] = events[i]
        /\ events'[Len(events) + 1] = m
    BY <1>1, <1>4, Appended
  <2>2. m.step \in Int
    BY MessageFacts
  <2>3. \A i \in 1 .. Len(events') : i \in 1 .. Len(events) \/ i = Len(events) + 1
    BY <1>2, <2>1
  <2>4. EventKinds'
    <3> SUFFICES ASSUME NEW i \in 1 .. Len(events')
                 PROVE  /\ events'[i].type \in EventType
                        /\ IF events'[i].type = "match.error" THEN events'[i].step = None
                           ELSE events'[i].step \in 0 .. Published'
      BY DEF EventKinds
    <3>1. CASE i \in 1 .. Len(events)
      <4>1. events'[i] = events[i]
        BY <2>1, <3>1
      <4>2. /\ events[i].type \in EventType
            /\ IF events[i].type = "match.error" THEN events[i].step = None
               ELSE events[i].step \in 0 .. Published
        BY <3>1 DEF FeedInv, EventKinds
      <4> QED
        BY <1>1, <4>1, <4>2
    <3>2. CASE i = Len(events) + 1
      BY <1>4, <2>1, <3>2
    <3> QED
      BY <2>3, <3>1, <3>2
  <2>5. FramesAhead'
    <3> SUFFICES ASSUME NEW i \in 1 .. Len(events'), NEW j \in 1 .. Len(events'),
                        i < j, events'[j].type = "match.frame"
                 PROVE  /\ events'[i].step <= events'[j].step
                        /\ events'[i].type = "turn.open" => events'[i].step < events'[j].step
      BY DEF FramesAhead
    <3>1. i \in 1 .. Len(events) /\ events'[i] = events[i]
      BY <1>2, <2>1
    <3>2. CASE j \in 1 .. Len(events)
      BY <2>1, <3>1, <3>2 DEF FeedInv, FramesAhead
    <3>3. CASE j = Len(events) + 1
      BY <1>1, <1>2, <1>4, <2>1, <2>2, <3>1, <3>3
    <3> QED
      BY <2>3, <3>2, <3>3
  <2>6. OpenFollowsFrame'
    <3> SUFFICES ASSUME lost = {}, NEW i \in 1 .. Len(events'),
                        events'[i].type = "turn.open", events'[i].step > 0
                 PROVE  i > 1 /\ events'[i - 1] = Frame(events'[i].step)
      BY DEF OpenFollowsFrame, Frame, Event
    <3>1. CASE i \in 1 .. Len(events)
      <4>1. i > 1 /\ events[i - 1] = Frame(events[i].step)
        BY <2>1, <3>1 DEF FeedInv, OpenFollowsFrame
      <4>2. events'[i - 1] = events[i - 1]
        BY <2>1, <3>1, <4>1
      <4> QED
        BY <2>1, <3>1, <4>1, <4>2
    <3>2. CASE i = Len(events) + 1
      <4>1. Len(events) > 0 /\ events[Len(events)] = Frame(m.step)
        BY <1>4, <2>1, <3>2
      <4>2. i > 1 /\ i - 1 = Len(events) /\ i - 1 \in 1 .. Len(events)
        BY <1>2, <3>2, <4>1
      <4> QED
        BY <2>1, <3>2, <4>1, <4>2
    <3> QED
      BY <2>3, <3>1, <3>2
  <2> QED
    BY <2>4, <2>5, <2>6
<1> QED
  BY <1>3, <1>4

\* Publish either adds the event or notes that it is lost.
LEMMA PublishKeepsTypes ==
  ASSUME TypeOK, NEW type \in EventType, NEW n \in Step \cup {None}, Publish(type, n)
  PROVE  /\ events' \in Seq(Message) /\ cursor \in 0 .. Len(events')
         /\ lost' \subseteq Message /\ faults' \in 0 .. MaxFaults
         /\ lost' = {} => lost = {} /\ events' = Append(events, Event(type, n))
         /\ events' = events \/ events' = Append(events, Event(type, n))
<1>1. Event(type, n) \in Message
  BY EventFacts
<1>2. cursor \in 0 .. Len(events) /\ Len(events) \in Nat /\ faults \in 0 .. MaxFaults /\ MaxFaults \in Nat
  BY EventsAreMessages, LiveFeedAssumption DEF TypeOK
<1>3. CASE events' = Append(events, Event(type, n)) /\ UNCHANGED <<lost, faults>>
  <2>1. events' \in Seq(Message) /\ Len(events') = Len(events) + 1
    BY <1>1, <1>3, Appended
  <2>2. cursor \in 0 .. Len(events')
    BY <1>2, <2>1
  <2>3. lost' \subseteq Message /\ faults' \in 0 .. MaxFaults
    BY <1>3 DEF TypeOK
  <2> QED
    BY <1>3, <2>1, <2>2, <2>3
<1>4. CASE Lose(Event(type, n)) /\ UNCHANGED events
  <2>1. faults' \in 0 .. MaxFaults
    BY <1>2, <1>4 DEF Lose
  <2>2. lost' \subseteq Message /\ lost' # {}
    BY <1>1, <1>4 DEF Lose, TypeOK
  <2> QED
    BY <1>2, <1>4, <2>1, <2>2 DEF TypeOK
<1> QED
  BY <1>3, <1>4 DEF Publish

\* The types of what the worker does not touch, and of what it does.
LEMMA WorkerTypes ==
  ASSUME TypeOK, UNCHANGED <<conn, inbox, resync, gate, page, sent, synced, drops>>,
         cursor' = cursor, cursor \in 0 .. Len(events'),
         wpc' \in {"snapshot", "open", "closed", "frame", "finish", "fail", "done"},
         wstep' \in Step, snapshot' \in Step \cup {None}, events' \in Seq(Message),
         lost' \subseteq Message, faults' \in 0 .. MaxFaults
  PROVE  TypeOK'
BY Zenon DEF TypeOK

\* A step of the worker that publishes an event.
LEMMA PublishStep ==
  ASSUME FeedInv, NEW type \in EventType, NEW n \in Step \cup {None}, Publish(type, n),
         IF type = "match.error" THEN n = None ELSE n \in 0 .. Published',
         type = "match.frame" => n > Published,
         type = "turn.open" /\ n > 0 /\ lost = {} =>
           Len(events) > 0 /\ events[Len(events)] = Frame(n),
         wpc' \in {"snapshot", "open", "closed", "frame", "finish", "fail", "done"},
         wstep' \in Step, Published' \in Int, Published' >= Published,
         UNCHANGED <<snapshot, conn, inbox, resync, gate, cursor, page, sent, synced, drops>>,
         WorkerInv'
  PROVE  FeedInv'
<1> DEFINE m == Event(type, n)
<1>1. TypeOK
  BY DEF FeedInv
<1>2. m \in Message /\ m.type = type /\ m.step = n
  BY EventFacts
<1>3. /\ events' \in Seq(Message) /\ cursor \in 0 .. Len(events')
      /\ lost' \subseteq Message /\ faults' \in 0 .. MaxFaults
      /\ lost' = {} => lost = {}
      /\ events' = events \/ events' = Append(events, m)
  BY <1>1, PublishKeepsTypes, Zenon
<1> HIDE DEF m
<1>4. TypeOK'
  <2>1. snapshot' \in Step \cup {None}
    BY <1>1, Zenon DEF TypeOK
  <2> QED
    BY <1>1, <1>3, <2>1, WorkerTypes, Zenon
<1>5. EventKinds' /\ FramesAhead' /\ OpenFollowsFrame'
  <2>1. \/ events' = events
        \/ /\ events' = Append(events, m)
           /\ m.type \in EventType
           /\ IF m.type = "match.error" THEN m.step = None ELSE m.step \in 0 .. Published'
           /\ m.type = "match.frame" => m.step > Published
           /\ m.type = "turn.open" /\ m.step > 0 /\ lost = {} =>
                Len(events) > 0 /\ events[Len(events)] = Frame(m.step)
    BY <1>2, <1>3, Zenon
  <2> QED
    BY <1>2, <1>3, <2>1, EventsStayInOrder, Zenon
<1>6. /\ InboxKinds' /\ FrameFollowsOpen' /\ PageInv' /\ SentInv'
      /\ Offline' /\ LiveReads' /\ LiveSeen' /\ GreetingFirst' /\ BoardComes'
  <2>1. \/ events' = events
        \/ events' = Append(events, m) /\ (m.type = "match.frame" => m.step > Published)
    BY <1>2, <1>3, Zenon
  <2> QED
    BY <1>2, <1>3, <2>1, OthersKeepUp, Zenon
<1> QED
  BY <1>4, <1>5, <1>6, Zenon DEF FeedInv

LEMMA WorkerStep == FeedInv /\ Worker => FeedInv'
<1> SUFFICES ASSUME FeedInv, Worker PROVE FeedInv'
  OBVIOUS
<1> USE DEF Worker
<1>1. /\ TypeOK /\ WorkerInv
      /\ wstep \in Step /\ wstep \in Int /\ wstep >= 0 /\ wstep <= MaxStep /\ MaxStep \in Int
      /\ snapshot \in Step \cup {None} /\ snapshot \in Int
      /\ Published \in Step /\ Published \in Int
  BY StepFacts, PublishedIsAStep, LiveFeedAssumption DEF FeedInv, TypeOK
<1>2. UNCHANGED <<conn, inbox, resync, gate, cursor, page, sent, synced, drops>>
  OBVIOUS
<1>3. CASE PublishSnapshot
  <2>1. Published' = wstep /\ Published = wstep
    BY <1>3 DEF PublishSnapshot, Published
  <2>2. /\ wpc' \in {"snapshot", "open", "closed", "frame", "finish", "fail", "done"}
        /\ wstep' = wstep /\ events' = events
        /\ wpc' = "open" => wstep < MaxStep
        /\ wpc' \notin {"snapshot", "closed", "frame"}
    BY <1>3 DEF PublishSnapshot
  <2>3. snapshot' \in Step \cup {None} /\ snapshot' <= wstep
    BY <1>1, <1>3, <2>1 DEF PublishSnapshot, WorkerInv
  <2>4. lost' \subseteq Message /\ faults' \in 0 .. MaxFaults /\ (lost' = {} => lost = {})
    <3>1. faults \in 0 .. MaxFaults /\ MaxFaults \in Nat /\ lost \subseteq Message
      BY <1>1, LiveFeedAssumption DEF TypeOK
    <3>2. Event("match.snapshot", wstep) \in Message
      BY <1>1, EventFacts
    <3>3. CASE UNCHANGED <<lost, faults>>
      BY <3>1, <3>3
    <3>4. CASE Lose(Event("match.snapshot", wstep))
      BY <3>1, <3>2, <3>4 DEF Lose
    <3> QED
      BY <1>3, <3>3, <3>4 DEF PublishSnapshot
  <2>5. TypeOK'
    BY <1>1, <1>2, <2>2, <2>3, <2>4, WorkerTypes, Zenon DEF TypeOK
  <2>6. WorkerInv'
    BY <1>1, <1>3, <2>1, <2>2, <2>3, <2>4 DEF WorkerInv, PublishSnapshot, Frame, Event
  <2>7. EventKinds' /\ FramesAhead' /\ OpenFollowsFrame'
    BY <1>1, <2>1, <2>2, <2>4, EventFacts, EventsStayInOrder
  <2>8. /\ InboxKinds' /\ FrameFollowsOpen' /\ PageInv' /\ SentInv'
        /\ Offline' /\ LiveReads' /\ LiveSeen' /\ GreetingFirst' /\ BoardComes'
    <3>1. Event("match.snapshot", wstep) \in Message
      BY <1>1, EventFacts
    <3> QED
      BY <1>1, <1>2, <2>1, <2>2, <2>4, <3>1, OthersKeepUp
  <2> QED
    BY <2>5, <2>6, <2>7, <2>8, Zenon DEF FeedInv
<1>4. CASE PublishOpen
  <2>1. Published' = wstep /\ Published = wstep
    BY <1>4 DEF PublishOpen, Published
  <2>2. /\ wpc = "open" /\ wpc' \in {"closed", "fail"} /\ Publish("turn.open", wstep)
        /\ UNCHANGED <<wstep, snapshot>>
    BY <1>4 DEF PublishOpen
  <2>3. WorkerInv'
    BY <1>1, <2>1, <2>2 DEF WorkerInv
  <2>4. wstep > 0 /\ lost = {} => Len(events) > 0 /\ events[Len(events)] = Frame(wstep)
    BY <1>1, <2>2 DEF WorkerInv
  <2> QED
    BY <1>1, <1>2, <2>1, <2>2, <2>3, <2>4, PublishStep DEF EventType
<1>5. CASE PublishClosed
  <2>1. /\ wpc = "closed" /\ wpc' = "frame" /\ Publish("turn.closed", wstep)
        /\ wstep' = wstep + 1 /\ snapshot' = snapshot
    BY <1>5 DEF PublishClosed
  <2>2. Published' = wstep /\ Published = wstep
    BY <1>1, <2>1 DEF Published
  <2>3. wstep' \in Step
    BY <1>1, <2>1 DEF WorkerInv, Step
  <2>4. WorkerInv'
    BY <1>1, <2>1, <2>2 DEF WorkerInv
  <2> QED
    BY <1>1, <1>2, <2>1, <2>2, <2>3, <2>4, PublishStep DEF EventType
<1>6. CASE PublishFrame
  <2>1. /\ wpc = "frame" /\ wpc' = "snapshot" /\ Publish("match.frame", wstep)
        /\ UNCHANGED <<wstep, snapshot>>
    BY <1>6 DEF PublishFrame
  <2>2. Published' = wstep /\ Published = wstep - 1 /\ snapshot <= Published /\ wstep > 0
    BY <1>1, <2>1 DEF Published, WorkerInv
  <2>3. WorkerInv'
    <3>1. lost' = {} => events' = Append(events, Frame(wstep))
      BY <1>1, <2>1, PublishKeepsTypes DEF EventType, Frame
    <3>2. Frame(wstep) \in Message
      BY <1>1, EventFacts DEF EventType, Frame
    <3>3. lost' = {} => Len(events') > 0 /\ events'[Len(events')] = Frame(wstep)
      BY <1>1, <3>1, <3>2, Appended, EventsAreMessages
    <3> QED
      BY <1>1, <2>1, <2>2, <3>3 DEF WorkerInv, Frame, Event
  <2> QED
    BY <1>1, <1>2, <2>1, <2>2, <2>3, PublishStep DEF EventType
<1>7. CASE PublishEnd
  <2>1. /\ wpc \in {"finish", "fail"} /\ wpc' = "done" /\ UNCHANGED <<wstep, snapshot>>
    BY <1>7 DEF PublishEnd
  <2>2. Published' = wstep /\ Published = wstep
    BY <2>1 DEF Published
  <2>3. WorkerInv'
    BY <1>1, <2>1, <2>2 DEF WorkerInv
  <2>4. CASE Publish("match.finished", wstep)
    BY <1>1, <1>2, <2>1, <2>2, <2>3, <2>4, PublishStep DEF EventType
  <2>5. CASE Publish("match.error", None)
    <3>1. "match.error" \in EventType /\ None \in Step \cup {None}
      BY DEF EventType
    <3>2. "match.error" # "match.frame" /\ "match.error" # "turn.open"
      OBVIOUS
    <3>3. /\ wpc' \in {"snapshot", "open", "closed", "frame", "finish", "fail", "done"}
          /\ wstep' \in Step /\ Published' \in Int /\ Published' >= Published
          /\ snapshot' = snapshot
      BY <1>1, <2>1, <2>2
    <3> QED
      BY <1>2, <2>3, <2>5, <3>1, <3>2, <3>3, PublishStep, Zenon
  <2> QED
    BY <1>7, <2>4, <2>5 DEF PublishEnd
<1> QED
  BY <1>3, <1>4, <1>5, <1>6, <1>7

-----------------------------------------------------------------------------
(* The page.                                                                *)

\* What a message that names no step ahead of the worker does to the page.
LEMMA ShownFacts ==
  ASSUME TypeOK, WorkerInv, PageInv, NEW m \in Message, m.step \in 0 .. Published,
         m.type \in {"match.snapshot", "match.frame", "turn.open"}
  PROVE  LET p == Shown(m)
         IN  /\ p \in Page
             /\ p.seen <= Published /\ p.seen >= page.seen /\ p.seen >= m.step
             /\ p.board = None => p.step = None /\ page.board = None
             /\ p.board # None => p.step = p.seen /\ p.board <= p.step
             /\ p.board >= page.board /\ p.step >= page.step
             /\ m.type # "match.snapshot" /\ p.board # None => page.board # None
             /\ m.step < page.seen => p.board = page.board /\ p.seen = page.seen
             /\ m.step >= page.seen => p.seen = m.step
             /\ m.step >= page.seen /\ m.type # "turn.open" /\ p.board # None =>
                  p.board = p.seen
             /\ m.type = "turn.open" => p.board = page.board
<1>1. /\ Published \in Step
      /\ page.seen \in Step /\ page.seen \in Int /\ page.seen >= 0
      /\ page.board \in Step \cup {None} /\ page.board \in Int /\ page.board >= -1
      /\ page.step \in Step \cup {None} /\ page.step \in Int /\ page.step >= -1
      /\ None = -1
      /\ page \in Page
  BY PublishedIsAStep, PageParts, StepFacts DEF TypeOK
<1>2. m.step \in Step /\ m.step \in Int /\ m.step >= 0 /\ m.step <= Published /\ Published \in Int
  BY <1>1, StepFacts
<1>3. CASE m.step < page.seen
  <2>1. Shown(m) = page
    BY <1>3 DEF Shown
  <2> QED
    BY <1>1, <1>2, <1>3, <2>1 DEF PageInv
<1>4. CASE m.step >= page.seen /\ page.board = None /\ m.type # "match.snapshot"
  <2> DEFINE p == [page EXCEPT !.seen = m.step]
  <2>1. Shown(m) = p
    BY <1>1, <1>2, <1>4 DEF Shown
  <2>2. p \in Page /\ p.seen = m.step /\ p.board = page.board /\ p.step = page.step
    BY <1>1, <1>2 DEF Page
  <2> HIDE DEF p
  <2> QED
    BY <1>1, <1>2, <1>4, <2>1, <2>2 DEF PageInv
<1>5. CASE m.step >= page.seen /\ (page.board # None \/ m.type = "match.snapshot")
  <2> DEFINE b == IF m.type = "turn.open" THEN page.board ELSE m.step
             d == m.type # "match.frame"
             p == [page EXCEPT !.seen = m.step, !.step = m.step, !.board = b, !.deadline = d]
  <2>1. Shown(m) = p
    BY <1>1, <1>2, <1>5 DEF Shown
  <2>2. b \in Step \cup {None} /\ d \in BOOLEAN
    BY <1>1, <1>2
  <2>3. /\ b # None /\ b <= m.step /\ b >= page.board
        /\ m.type # "turn.open" => b = m.step
        /\ m.type = "turn.open" => b = page.board
    <3>1. page.board # None => page.board <= page.step /\ page.step = page.seen
      BY DEF PageInv
    <3>2. m.type = "turn.open" => page.board # None
      BY <1>5
    <3> QED
      BY <1>1, <1>2, <1>5, <3>1, <3>2
  <2> HIDE DEF b, d
  <2>4. p \in Page /\ p.seen = m.step /\ p.board = b /\ p.step = m.step
    BY <1>1, <1>2, <2>2 DEF Page
  <2> HIDE DEF p
  <2>5. page.step <= m.step
    BY <1>1, <1>2, <1>5 DEF PageInv
  <2> QED
    BY <1>1, <1>2, <1>5, <2>1, <2>3, <2>4, <2>5
<1> QED
  BY <1>1, <1>2, <1>3, <1>4, <1>5

\* A turn.closed says nothing of the board; the end only ends the page.
LEMMA HandledFacts ==
  ASSUME TypeOK, WorkerInv, PageInv, NEW m \in Message,
         m.type # "match.error" => m.step \in 0 .. Published
  PROVE  LET p == Handled(m)
             shown == m.type \in {"match.snapshot", "match.frame", "turn.open"}
         IN  /\ p \in Page
             /\ p.seen <= Published /\ p.seen >= page.seen
             /\ shown => p = Shown(m)
             /\ p.board = None => p.step = None /\ page.board = None
             /\ p.board # None => p.step = p.seen /\ p.board <= p.step
             /\ p.board >= page.board /\ p.step >= page.step
             /\ ~ shown => p.board = page.board /\ p.seen = page.seen
<1>1. /\ m.type \in {"match.snapshot", "match.frame", "turn.open", "turn.closed",
                     "match.finished", "match.error"}
      /\ page \in Page
      /\ page.seen \in Int /\ page.board \in Int /\ page.step \in Int
  BY PageParts, MessageFacts DEF TypeOK, EventType
<1>2. CASE m.type \in {"match.snapshot", "match.frame", "turn.open"}
  <2>1. Handled(m) = Shown(m)
    BY <1>2 DEF Handled
  <2>2. m.step \in 0 .. Published
    BY <1>2
  <2> QED
    BY <1>2, <2>1, <2>2, ShownFacts
<1>3. CASE m.type = "turn.closed"
  <2>1. Handled(m) = page
    BY <1>3 DEF Handled
  <2> QED
    BY <1>1, <1>3, <2>1 DEF PageInv
<1>4. CASE m.type \in {"match.finished", "match.error"}
  <2> DEFINE p == [page EXCEPT !.over = TRUE]
  <2>1. Handled(m) = p
    BY <1>4 DEF Handled
  <2>2. p \in Page /\ p.seen = page.seen /\ p.board = page.board /\ p.step = page.step
    BY <1>1 DEF Page
  <2> HIDE DEF p
  <2> QED
    BY <1>1, <1>4, <2>1, <2>2 DEF PageInv
<1> QED
  BY <1>1, <1>2, <1>3, <1>4

-----------------------------------------------------------------------------
(* The gateway.                                                             *)

LEMMA WorkerKept ==
  ASSUME FeedInv, UNCHANGED worker
  PROVE  /\ WorkerInv' /\ EventKinds' /\ FramesAhead' /\ OpenFollowsFrame'
         /\ Published' = Published
<1>1. UNCHANGED <<wpc, wstep, snapshot, events, lost>>
  BY DEF worker
<1>2. Published' = Published
  BY <1>1 DEF Published
<1>3. WorkerInv'
  BY <1>1, <1>2 DEF FeedInv, WorkerInv, Frame, Event
<1>4. EventKinds' /\ FramesAhead' /\ OpenFollowsFrame'
  BY <1>1, <1>2 DEF FeedInv, EventKinds, FramesAhead, OpenFollowsFrame, Frame, Event
<1> QED
  BY <1>2, <1>3, <1>4

LEMMA PageKept ==
  ASSUME FeedInv, UNCHANGED worker, UNCHANGED <<page, sent>>
  PROVE  PageInv' /\ SentInv'
BY WorkerKept DEF FeedInv, PageInv, SentInv

LEMMA InboxKept ==
  ASSUME FeedInv, UNCHANGED worker, inbox' = inbox
  PROVE  InboxKinds' /\ FrameFollowsOpen' /\ Greeted' = Greeted /\ Range(inbox)' = Range(inbox)
<1>1. UNCHANGED <<inbox, lost>> /\ Published' = Published
  BY WorkerKept DEF worker
<1> QED
  BY <1>1 DEF FeedInv, InboxKinds, FrameFollowsOpen, Frame, Event, Greeted

\* A snapshot in the inbox is the greeting, its first message.
LEMMA OnlyTheGreeting ==
  ASSUME TypeOK, InboxKinds, ~ Greeted
  PROVE  /\ Len(inbox) > 0 /\ inbox # <<>> /\ inbox[1].type = "match.snapshot"
         /\ \A i \in 2 .. Len(inbox) : inbox[i].type # "match.snapshot"
<1>1. PICK i \in 1 .. Len(inbox) : inbox[i].type = "match.snapshot"
  BY InboxIsMessages DEF Greeted
<1>2. i = 1 /\ Len(inbox) \in Nat
  BY <1>1, InboxIsMessages DEF InboxKinds
<1>3. \A j \in 2 .. Len(inbox) : inbox[j].type # "match.snapshot"
  BY <1>2 DEF InboxKinds
<1>4. inbox # <<>>
  BY <1>1, <1>2, EmptySeq
<1> QED
  BY <1>1, <1>2, <1>3, <1>4

\* A new connection starts with the snapshot there is.
LEMMA ConnectStep == FeedInv /\ Connect => FeedInv'
<1> SUFFICES ASSUME FeedInv, Connect PROVE FeedInv'
  OBVIOUS
<1>1. /\ UNCHANGED worker /\ UNCHANGED <<page, sent, faults, drops>>
      /\ conn' = "up" /\ resync' = page.seen /\ gate' = "ask" /\ cursor' = 0 /\ synced' = FALSE
      /\ inbox' = IF snapshot = None THEN <<>> ELSE <<Event("match.snapshot", snapshot)>>
  BY DEF Connect
<1>2. TypeOK /\ WorkerInv /\ Published \in Int /\ UNCHANGED <<wpc, wstep, snapshot, events, lost>>
  BY <1>1, PublishedIsAStep DEF FeedInv, worker
<1>3. snapshot # None => snapshot \in 0 .. Published
  BY <1>2, StepFacts DEF TypeOK, WorkerInv
<1>4. /\ inbox' \in Seq(Message) /\ Len(inbox') \in {0, 1}
      /\ \A i \in 1 .. Len(inbox') : snapshot # None /\ inbox'[i] = Event("match.snapshot", snapshot)
  <2>1. CASE snapshot = None
    BY <1>1, <2>1, EmptySeq
  <2>2. CASE snapshot # None
    <3>1. Event("match.snapshot", snapshot) \in Message
      BY <1>2, EventFacts DEF TypeOK
    <3> QED
      BY <1>1, <2>2, <3>1
  <2> QED
    BY <2>1, <2>2
<1>5. TypeOK'
  <2>1. page.seen \in Step \cup {None} /\ 0 \in 0 .. Len(events)
    BY <1>2, PageParts, EventsAreMessages
  <2> QED
    BY <1>1, <1>2, <1>4, <2>1, Zenon DEF TypeOK
<1>6. InboxKinds' /\ FrameFollowsOpen'
  <2>1. \A i \in 1 .. Len(inbox') :
          /\ i = 1 /\ inbox'[i].type = "match.snapshot" /\ inbox'[i].step \in 0 .. Published
    BY <1>3, <1>4 DEF Event
  <2> QED
    BY <1>1, <2>1, WorkerKept DEF InboxKinds, FrameFollowsOpen
<1>7. Offline' /\ LiveReads' /\ LiveSeen'
  BY <1>1 DEF Offline, LiveReads, LiveSeen
<1>8. GreetingFirst' /\ BoardComes'
  BY <1>1 DEF GreetingFirst, BoardComes, Behind
<1> QED
  BY <1>1, <1>5, <1>6, <1>7, <1>8, WorkerKept, PageKept, Zenon DEF FeedInv

\* The answer to a resync: the frame of a turn comes after its turn.open.
LEMMA ResyncStep == FeedInv /\ Resync => FeedInv'
<1> SUFFICES ASSUME FeedInv, Resync PROVE FeedInv'
  OBVIOUS
<1> DEFINE h == History(resync)
           n == Len(inbox)
<1>1. /\ UNCHANGED worker /\ UNCHANGED <<conn, gate, cursor, page, sent, synced, faults, drops>>
      /\ conn = "up" /\ resync # None /\ inbox' = inbox \o h /\ resync' = None
  BY DEF Resync
<1>2. /\ TypeOK /\ EventKinds /\ Published \in Int /\ resync \in Step /\ resync \in Int /\ resync >= 0
      /\ UNCHANGED <<wpc, wstep, snapshot, events, lost>>
  BY <1>1, PublishedIsAStep, StepFacts DEF FeedInv, worker, TypeOK
<1>3. /\ h \in Seq(Message)
      /\ \A i \in 1 .. Len(h) : h[i].step > resync /\ \E k \in 1 .. Len(events) : h[i] = events[k]
      /\ \A k \in 1 .. Len(events) : events[k].step > resync => \E i \in 1 .. Len(h) : h[i] = events[k]
      /\ \A i, j \in 1 .. Len(h) : i < j => Before(h[i], h[j])
  BY <1>2, HistoryIsSorted
<1> HIDE DEF h
<1>4. /\ inbox' \in Seq(Message)
      /\ n \in Nat /\ Len(h) \in Nat /\ Len(inbox') = n + Len(h)
      /\ \A i \in 1 .. n : inbox'[i] = inbox[i]
      /\ \A i \in n + 1 .. n + Len(h) : i - n \in 1 .. Len(h) /\ inbox'[i] = h[i - n]
  <2>1. inbox \in Seq(Message)
    BY <1>2 DEF TypeOK
  <2>2. n \in Nat /\ Len(h) \in Nat
    BY <1>3, <2>1, LenProperties
  <2> QED
    BY <1>1, <1>3, <2>1, <2>2, ConcatProperties
<1>5. \A i \in 1 .. Len(h) :
        /\ h[i].type \in EventType /\ h[i].type # "match.error"
        /\ h[i].step \in 0 .. Published
  <2> TAKE i \in 1 .. Len(h)
  <2>1. PICK k \in 1 .. Len(events) : h[i] = events[k]
    BY <1>3
  <2>2. h[i].step # None
    BY <1>2, <1>3, StepFacts
  <2>3. /\ events[k].type \in EventType
        /\ IF events[k].type = "match.error" THEN events[k].step = None
           ELSE events[k].step \in 0 .. Published
    BY <1>2 DEF EventKinds
  <2> QED
    BY <2>1, <2>2, <2>3, Zenon
<1>6. TypeOK'
  BY <1>1, <1>2, <1>4, Zenon DEF TypeOK
<1>7. InboxKinds'
  <2> SUFFICES ASSUME NEW i \in 1 .. Len(inbox')
               PROVE  /\ inbox'[i].type # "match.error"
                      /\ inbox'[i].step \in 0 .. Published
                      /\ inbox'[i].type = "match.snapshot" => i = 1
    BY <1>1, WorkerKept DEF InboxKinds
  <2>1. CASE i \in 1 .. n
    BY <1>4, <2>1 DEF FeedInv, InboxKinds
  <2>2. CASE i \in n + 1 .. n + Len(h)
    BY <1>4, <1>5, <2>2 DEF EventType
  <2> QED
    BY <1>4, <2>1, <2>2
<1>8. FrameFollowsOpen'
  <2> SUFFICES ASSUME lost = {}, NEW i \in 1 .. Len(inbox'),
                      inbox'[i].type = "turn.open", inbox'[i].step > 0
               PROVE  \E j \in i + 1 .. Len(inbox') : inbox'[j] = Frame(inbox'[i].step)
    BY <1>2 DEF FrameFollowsOpen, Frame, Event
  <2>1. CASE i \in 1 .. n
    <3>0. inbox'[i] = inbox[i]
      BY <1>4, <2>1
    <3>1. PICK j \in i + 1 .. n : inbox[j] = Frame(inbox[i].step)
      BY <2>1, <3>0 DEF FeedInv, FrameFollowsOpen
    <3>2. j \in 1 .. n /\ j \in i + 1 .. Len(inbox')
      BY <1>4, <2>1
    <3> QED
      BY <1>4, <3>0, <3>1, <3>2
  <2>2. CASE i \in n + 1 .. n + Len(h)
    <3> DEFINE a == i - n
               f == Frame(h[a].step)
    <3>1. a \in 1 .. Len(h) /\ inbox'[i] = h[a] /\ h[a].type = "turn.open" /\ h[a].step > 0
      BY <1>4, <2>2
    <3>2. PICK k \in 1 .. Len(events) : h[a] = events[k]
      BY <1>3, <3>1
    <3>3. k > 1 /\ events[k - 1] = f /\ k \in 1 .. Len(events)
      BY <3>1, <3>2 DEF FeedInv, OpenFollowsFrame
    <3>4. k - 1 \in 1 .. Len(events)
      BY <1>2, <3>3, EventsAreMessages
    <3>5. f.step = h[a].step /\ f.type = "match.frame" /\ h[a].step > resync /\ h[a].step \in Int
      BY <1>3, <1>5, <3>1 DEF Frame, Event
    <3>6. PICK b \in 1 .. Len(h) : h[b] = f
      BY <1>3, <3>3, <3>4, <3>5
    <3>7. Rank(h[a]) = 0 /\ Rank(f) = 3
      BY <3>1, <3>5 DEF Rank
    <3> HIDE DEF f, a
    <3>8. ~ Before(f, h[a])
      BY <3>5, <3>7 DEF Before
    <3>9. b # a /\ ~ (b < a)
      BY <1>3, <3>1, <3>5, <3>6, <3>8
    <3>10. n + b \in n + 1 .. n + Len(h) /\ n + b \in i + 1 .. Len(inbox') /\ (n + b) - n = b
      <4> DEFINE L == Len(h)
      <4>1. n \in Nat /\ L \in Nat /\ a \in 1 .. L /\ b \in 1 .. L /\ b > a
        BY <1>4, <3>1, <3>6, <3>9
      <4>2. Len(inbox') = n + L /\ i \in Int /\ a = i - n
        BY <1>4, <2>2 DEF a
      <4> HIDE DEF n, L
      <4> QED
        BY <4>1, <4>2 DEF L
    <3>11. inbox'[n + b] = f
      BY <1>4, <3>6, <3>10
    <3> QED
      BY <3>1, <3>10, <3>11 DEF f
  <2> QED
    BY <1>4, <2>1, <2>2
<1>9. Greeted' <=> Greeted
  <2>1. Range(inbox)' = {inbox'[i] : i \in 1 .. Len(inbox')}
    BY <1>4, RangeOfMessages
  <2>2. \A i \in n + 1 .. n + Len(h) : inbox'[i].type # "match.snapshot"
    BY <1>4, <1>5 DEF EventType
  <2>3. Range(inbox) = {inbox[i] : i \in 1 .. n}
    BY <1>2, InboxIsMessages
  <2>4. \A i \in 1 .. n + Len(h) : i \in 1 .. n \/ i \in n + 1 .. n + Len(h)
    BY <1>4
  <2> QED
    BY <1>4, <2>1, <2>2, <2>3, <2>4 DEF Greeted
<1>10. Range(inbox) \subseteq Range(inbox)'
  <2>1. Range(inbox)' = {inbox'[i] : i \in 1 .. Len(inbox')}
    BY <1>4, RangeOfMessages
  <2>2. Range(inbox) = {inbox[i] : i \in 1 .. n}
    BY <1>2, InboxIsMessages
  <2> QED
    BY <1>4, <2>1, <2>2
<1>11. Behind' = Behind /\ Frame(page.seen)' = Frame(page.seen)
  BY <1>1, <1>2 DEF Behind, NewFrames, Frame, Event
<1>12. Offline' /\ LiveReads' /\ LiveSeen'
  BY <1>1, <1>2, <1>9 DEF FeedInv, Offline, LiveReads, LiveSeen
<1>13. GreetingFirst'
  BY <1>1, <1>9, <1>11 DEF FeedInv, GreetingFirst
<1>14. BoardComes'
  BY <1>1, <1>2, <1>9, <1>10, <1>11 DEF FeedInv, BoardComes
<1> QED
  BY <1>1, <1>6, <1>7, <1>8, <1>12, <1>13, <1>14, WorkerKept, PageKept, Zenon DEF FeedInv

\* Asking from "$" leaves no frame behind to be sent.
LEMMA SenderSteps == FeedInv /\ (AskNew \/ AskTimesOut \/ SenderDies) => FeedInv'
<1> SUFFICES ASSUME FeedInv, AskNew \/ AskTimesOut \/ SenderDies PROVE FeedInv'
  OBVIOUS
<1>1. /\ UNCHANGED worker /\ UNCHANGED <<conn, inbox, resync, page, sent, drops>>
      /\ conn = "up"
  BY DEF AskNew, AskTimesOut, SenderDies
<1>2. TypeOK /\ UNCHANGED <<wpc, wstep, snapshot, events, lost>>
  BY <1>1 DEF FeedInv, worker
<1>3. /\ gate' \in {"ask", "wait", "dead"} /\ synced' = FALSE
      /\ cursor' \in 0 .. Len(events) /\ faults' \in 0 .. MaxFaults
  <2>1. /\ cursor \in 0 .. Len(events) /\ Len(events) \in Nat
        /\ faults \in 0 .. MaxFaults /\ MaxFaults \in Nat /\ synced \in BOOLEAN
    BY <1>2, EventsAreMessages, LiveFeedAssumption DEF TypeOK
  <2>2. gate # "read" => synced = FALSE
    BY <2>1 DEF FeedInv, LiveReads
  <2>3. CASE AskNew
    BY <2>1, <2>2, <2>3 DEF AskNew
  <2>4. CASE AskTimesOut
    BY <2>1, <2>2, <2>4 DEF AskTimesOut
  <2>5. CASE SenderDies
    BY <2>1, <2>2, <2>5 DEF SenderDies
  <2> QED
    BY <2>3, <2>4, <2>5
<1>4. TypeOK'
  BY <1>1, <1>2, <1>3, Zenon DEF TypeOK
<1>5. Behind'
  <2>1. CASE AskNew
    <3>1. cursor' = Len(events) /\ Len(events) \in Nat /\ events' = events
      BY <1>2, <2>1, EventsAreMessages DEF AskNew
    <3>2. NewFrames' = {}
      BY <3>1 DEF NewFrames
    <3> QED
      BY <3>2 DEF Behind
  <2>2. CASE AskTimesOut \/ SenderDies
    BY <2>2 DEF AskTimesOut, SenderDies, Behind
  <2> QED
    BY <2>1, <2>2
<1>6. Offline' /\ LiveReads' /\ LiveSeen' /\ GreetingFirst' /\ BoardComes'
  BY <1>1, <1>3, <1>5 DEF Offline, LiveReads, LiveSeen, GreetingFirst, BoardComes
<1> QED
  BY <1>1, <1>4, <1>6, WorkerKept, PageKept, InboxKept, Zenon DEF FeedInv

-----------------------------------------------------------------------------
(* What the page receives.                                                  *)

LEMMA ReplyStep == FeedInv /\ ReceiveReply => FeedInv'
<1> SUFFICES ASSUME FeedInv, ReceiveReply PROVE FeedInv'
  OBVIOUS
<1> DEFINE m == inbox[1]
           p == Handled(m)
           n == Len(inbox)
           shown == m.type \in {"match.snapshot", "match.frame", "turn.open"}
<1>1. /\ UNCHANGED worker /\ UNCHANGED <<conn, resync, gate, cursor, sent, synced, faults, drops>>
      /\ conn = "up" /\ inbox # <<>> /\ page' = Handled(Head(inbox)) /\ inbox' = Tail(inbox)
  BY DEF ReceiveReply
<1>2. /\ TypeOK /\ WorkerInv /\ PageInv /\ Published \in Int
      /\ UNCHANGED <<wpc, wstep, snapshot, events, lost>>
  BY <1>1, PublishedIsAStep DEF FeedInv, worker
<1>3. /\ inbox \in Seq(Message) /\ n \in Nat /\ n > 0 /\ m \in Message /\ page' = p
      /\ inbox' \in Seq(Message) /\ Len(inbox') = n - 1
      /\ \A i \in 1 .. n - 1 : inbox'[i] = inbox[i + 1] /\ i + 1 \in 1 .. n
  <2>1. inbox \in Seq(Message) /\ n \in Nat /\ Head(inbox) = m
    BY <1>1, <1>2, InboxIsMessages DEF TypeOK
  <2>2. n > 0
    BY <1>1, <2>1, EmptySeq
  <2> QED
    BY <1>1, <2>1, <2>2, HeadTailProperties, ElementOfSeq
<1>4. m.type # "match.error" /\ m.step \in 0 .. Published /\ m.step \in Int
  BY <1>2, <1>3 DEF FeedInv, InboxKinds
<1>5. /\ p \in Page
      /\ p.seen <= Published /\ p.seen >= page.seen
      /\ shown => p = Shown(m)
      /\ p.board = None => p.step = None /\ page.board = None
      /\ p.board # None => p.step = p.seen /\ p.board <= p.step
      /\ ~ shown => p.board = page.board /\ p.seen = page.seen
  BY <1>2, <1>3, <1>4, HandledFacts
<1>6. shown =>
        /\ m.type # "match.snapshot" /\ p.board # None => page.board # None
        /\ m.step < page.seen => p.board = page.board /\ p.seen = page.seen
        /\ m.step >= page.seen => p.seen = m.step
        /\ m.step >= page.seen /\ m.type # "turn.open" /\ p.board # None => p.board = p.seen
        /\ m.type = "turn.open" => p.board = page.board
  <2> HIDE DEF m
  <2> QED
    BY <1>2, <1>3, <1>4, <1>5, ShownFacts
<1>7. page.seen \in Int /\ page.seen >= 0 /\ page.board \in Int /\ page.board >= -1
      /\ None = -1 /\ p.seen \in Int
  BY <1>2, <1>5, PageParts, StepFacts DEF Page
<1> HIDE DEF p, m
<1>8. TypeOK'
  BY <1>1, <1>2, <1>3, <1>5, Zenon DEF TypeOK
<1>9. InboxKinds'
  <2> SUFFICES ASSUME NEW i \in 1 .. Len(inbox')
               PROVE  /\ inbox'[i].type # "match.error"
                      /\ inbox'[i].step \in 0 .. Published
                      /\ inbox'[i].type # "match.snapshot"
    BY <1>1, WorkerKept DEF InboxKinds
  <2>1. inbox'[i] = inbox[i + 1] /\ i + 1 \in 1 .. n /\ i + 1 # 1
    BY <1>3
  <2> QED
    BY <2>1 DEF FeedInv, InboxKinds
<1>10. FrameFollowsOpen'
  <2> SUFFICES ASSUME lost = {}, NEW i \in 1 .. Len(inbox'),
                      inbox'[i].type = "turn.open", inbox'[i].step > 0
               PROVE  \E j \in i + 1 .. Len(inbox') : inbox'[j] = Frame(inbox'[i].step)
    BY <1>2 DEF FrameFollowsOpen, Frame, Event
  <2>1. inbox'[i] = inbox[i + 1] /\ i + 1 \in 1 .. n
    BY <1>3
  <2>2. PICK j \in (i + 1) + 1 .. n : inbox[j] = Frame(inbox'[i].step)
    BY <2>1 DEF FeedInv, FrameFollowsOpen
  <2>3. j - 1 \in i + 1 .. Len(inbox') /\ j - 1 \in 1 .. n - 1 /\ (j - 1) + 1 = j
    BY <1>3, <2>2
  <2>4. inbox'[j - 1] = inbox[j]
    BY <1>3, <2>3
  <2> QED
    BY <2>2, <2>3, <2>4
<1>11. PageInv' /\ SentInv'
  BY <1>1, <1>2, <1>3, <1>5, WorkerKept DEF FeedInv, PageInv, SentInv
<1>12. Greeted'
  <2>1. Range(inbox') = {inbox'[i] : i \in 1 .. Len(inbox')}
    BY <1>3, RangeOfMessages
  <2>2. \A i \in 1 .. Len(inbox') : inbox'[i].type # "match.snapshot"
    <3> TAKE i \in 1 .. Len(inbox')
    <3>1. inbox'[i] = inbox[i + 1] /\ i + 1 \in 1 .. n /\ i + 1 # 1
      BY <1>3
    <3> QED
      BY <3>1 DEF FeedInv, InboxKinds
  <2> QED
    BY <2>1, <2>2 DEF Greeted
<1>13. Offline' /\ LiveReads' /\ GreetingFirst'
  BY <1>1, <1>12 DEF FeedInv, Offline, LiveReads, GreetingFirst
<1>14. LiveSeen'
  <2> SUFFICES ASSUME synced, NEW i \in 1 .. cursor, events[i].type \in {"turn.open", "match.frame"}
               PROVE  events[i].step <= p.seen
    BY <1>1, <1>2, <1>3 DEF LiveSeen
  <2>1. events[i].step <= page.seen
    BY DEF FeedInv, LiveSeen
  <2>2. events[i].step \in Int
    <3>1. i \in 1 .. Len(events)
      BY <1>2, EventsAreMessages DEF TypeOK
    <3> QED
      BY <1>2, <3>1, EventsAreMessages
  <2> QED
    BY <1>5, <1>7, <2>1, <2>2
<1>15. BoardComes'
  <2> SUFFICES ASSUME p.board # None, lost = {}
               PROVE  \/ p.board = p.seen
                      \/ Frame(p.seen) \in Range(inbox')
                      \/ ~ synced /\ Behind'
    BY <1>1, <1>2, <1>3 DEF BoardComes, Frame, Event
  <2>1. p.seen = page.seen => (Behind => Behind')
    BY <1>1, <1>2, <1>3 DEF Behind, NewFrames
  <2>2. Range(inbox') = {inbox'[i] : i \in 1 .. Len(inbox')}
    BY <1>3, RangeOfMessages
  <2>3. \A f \in Range(inbox) : f = m \/ f \in Range(inbox')
    <3> SUFFICES ASSUME NEW i \in 1 .. n, inbox[i] # m PROVE inbox[i] \in Range(inbox')
      BY <1>2, InboxIsMessages
    <3>1. i - 1 \in 1 .. Len(inbox') /\ i - 1 \in 1 .. n - 1 /\ (i - 1) + 1 = i
      BY <1>3 DEF m
    <3>2. inbox'[i - 1] = inbox[i]
      BY <1>3, <3>1
    <3> QED
      BY <2>2, <3>1, <3>2
  <2>4. ASSUME p.board = page.board, p.seen = page.seen, Frame(page.seen) # m
        PROVE  \/ p.board = p.seen
               \/ Frame(p.seen) \in Range(inbox')
               \/ ~ synced /\ Behind'
    <3>1. CASE Greeted
      <4>1. \/ page.board = page.seen
            \/ Frame(page.seen) \in Range(inbox)
            \/ ~ synced /\ Behind
        BY <1>1, <2>4, <3>1 DEF FeedInv, BoardComes
      <4> QED
        BY <2>1, <2>3, <2>4, <4>1
    <3>2. CASE ~ Greeted
      BY <1>1, <2>1, <2>4, <3>2 DEF FeedInv, LiveReads, GreetingFirst
    <3> QED
      BY <3>1, <3>2
  <2>5. CASE ~ shown
    <3>1. Frame(page.seen) # m
      BY <2>5 DEF Frame, Event
    <3> QED
      BY <1>5, <2>4, <2>5, <3>1
  <2>6. CASE shown /\ m.step < page.seen
    <3>1. Frame(page.seen) # m
      BY <1>4, <1>7, <2>6 DEF Frame, Event
    <3> QED
      BY <1>6, <2>4, <2>6, <3>1
  <2>7. CASE shown /\ m.step >= page.seen /\ m.type # "turn.open"
    BY <1>6, <2>7
  <2>8. CASE m.step >= page.seen /\ m.type = "turn.open"
    <3>1. /\ p.board = page.board /\ p.seen = m.step
          /\ page.board # None /\ page.board <= page.seen
      BY <1>2, <1>6, <2>8 DEF PageInv
    <3>2. CASE m.step = 0
      BY <1>7, <2>8, <3>1, <3>2
    <3>3. CASE m.step > 0
      <4>1. 1 \in 1 .. n
        BY <1>3
      <4>2. PICK j \in 1 + 1 .. n : inbox[j] = Frame(m.step)
        BY <2>8, <3>3, <4>1 DEF FeedInv, FrameFollowsOpen, m
      <4>3. Frame(m.step) \in Range(inbox) /\ Frame(m.step) # m
        <5>1. j \in 1 .. n
          BY <1>3, <4>2
        <5>2. Frame(m.step).type # m.type
          BY <2>8 DEF Frame, Event
        <5> QED
          BY <1>2, <4>2, <5>1, <5>2, InboxIsMessages
      <4> QED
        BY <2>3, <3>1, <4>3
    <3> QED
      BY <1>4, <3>2, <3>3
  <2> QED
    BY <1>4, <1>7, <2>5, <2>6, <2>7, <2>8
<1> QED
  BY <1>1, <1>8, <1>9, <1>10, <1>11, <1>13, <1>14, <1>15, WorkerKept, Zenon DEF FeedInv

\* The first live frame is of a later turn than everything sent before it; after it
\* a turn.open is of the frame just sent.
LEMMA EventStep == FeedInv /\ ReceiveEvent => FeedInv'
<1> SUFFICES ASSUME FeedInv, ReceiveEvent PROVE FeedInv'
  OBVIOUS
<1> DEFINE k == cursor + 1
           m == events[k]
           p == Handled(m)
           shown == m.type \in {"match.snapshot", "match.frame", "turn.open"}
<1>1. /\ UNCHANGED worker /\ UNCHANGED <<conn, inbox, resync, sent, faults, drops>>
      /\ conn = "up" /\ gate \in {"wait", "read"} /\ cursor < Len(events) /\ Greeted
      /\ page' = p /\ cursor' = k /\ gate' = "read"
      /\ synced' = (synced \/ m.type = "match.frame")
  BY DEF ReceiveEvent
<1>2. /\ TypeOK /\ WorkerInv /\ PageInv /\ Published \in Int
      /\ UNCHANGED <<wpc, wstep, snapshot, events, lost>>
  BY <1>1, PublishedIsAStep DEF FeedInv, worker
<1>3. /\ cursor \in Nat /\ Len(events) \in Nat /\ k \in 1 .. Len(events) /\ k = cursor + 1
      /\ \A i \in 1 .. Len(events) : events[i].step \in Int
      /\ m \in Message /\ m.step \in Int
  <2>1. cursor \in 0 .. Len(events) /\ Len(events) \in Nat
    BY <1>2, EventsAreMessages DEF TypeOK
  <2>2. k \in 1 .. Len(events) /\ cursor \in Nat
    BY <1>1, <2>1
  <2> QED
    BY <1>2, <2>1, <2>2, EventsAreMessages
<1> HIDE DEF k
<1>4. m.type \in EventType /\ (m.type # "match.error" => m.step \in 0 .. Published)
  BY <1>3 DEF FeedInv, EventKinds
<1>5. /\ p \in Page
      /\ p.seen <= Published /\ p.seen >= page.seen
      /\ shown => p = Shown(m)
      /\ p.board = None => p.step = None /\ page.board = None
      /\ p.board # None => p.step = p.seen /\ p.board <= p.step
      /\ ~ shown => p.board = page.board /\ p.seen = page.seen
  BY <1>2, <1>3, <1>4, HandledFacts
<1>6. shown =>
        /\ p.seen >= m.step
        /\ m.type # "match.snapshot" /\ p.board # None => page.board # None
        /\ m.step < page.seen => p.board = page.board /\ p.seen = page.seen
        /\ m.step >= page.seen => p.seen = m.step
        /\ m.step >= page.seen /\ m.type # "turn.open" /\ p.board # None => p.board = p.seen
        /\ m.type = "turn.open" => p.board = page.board
  <2>1. shown => m.step \in 0 .. Published
    BY <1>4
  <2> HIDE DEF m
  <2> QED
    BY <1>2, <1>3, <1>5, <2>1, ShownFacts
<1>7. page.seen \in Int /\ page.seen >= 0 /\ page.board \in Int /\ page.board >= -1
      /\ None = -1 /\ p.seen \in Int /\ m.type # "match.snapshot"
  BY <1>2, <1>4, <1>5, PageParts, StepFacts DEF Page, EventType
<1>8. \A f \in NewFrames' : f \in Int /\ f \in NewFrames /\ (m.type = "turn.open" => f > m.step)
  <2> SUFFICES ASSUME NEW i \in k + 1 .. Len(events), events[i].type = "match.frame"
               PROVE  /\ events[i].step \in Int /\ events[i].step \in NewFrames
                      /\ m.type = "turn.open" => events[i].step > m.step
    BY <1>1, <1>2 DEF NewFrames
  <2>1. i \in 1 .. Len(events) /\ i \in cursor + 1 .. Len(events) /\ k < i
    BY <1>3
  <2>2. events[i].step \in Int /\ events[i].step \in NewFrames
    BY <1>3, <2>1 DEF NewFrames
  <2>3. m.type = "turn.open" => m.step < events[i].step
    BY <1>3, <2>1 DEF FeedInv, FramesAhead
  <2> QED
    BY <1>3, <2>2, <2>3
<1>9. m.type = "match.frame" => m.step \in NewFrames
  <2>1. k \in cursor + 1 .. Len(events)
    BY <1>3
  <2> QED
    BY <2>1 DEF NewFrames
<1> HIDE DEF p, m
<1>10. TypeOK'
  <2>1. k \in 0 .. Len(events) /\ synced' \in BOOLEAN
    BY <1>1, <1>2, <1>3 DEF TypeOK
  <2> QED
    BY <1>1, <1>2, <1>5, <2>1, Zenon DEF TypeOK
<1>11. PageInv' /\ SentInv'
  BY <1>1, <1>2, <1>5, WorkerKept DEF FeedInv, PageInv, SentInv
<1>12. /\ InboxKinds' /\ FrameFollowsOpen' /\ Greeted'
       /\ Range(inbox') = Range(inbox)
  BY <1>1, InboxKept
<1>13. Offline' /\ LiveReads' /\ GreetingFirst'
  BY <1>1, <1>12 DEF Offline, LiveReads, GreetingFirst
<1>14. LiveSeen'
  <2> SUFFICES ASSUME synced \/ m.type = "match.frame", NEW i \in 1 .. k,
                      events[i].type \in {"turn.open", "match.frame"}
               PROVE  events[i].step <= p.seen
    BY <1>1, <1>2 DEF LiveSeen
  <2>1. i \in 1 .. Len(events) /\ events[i].step \in Int
    BY <1>3
  <2>2. CASE i = k
    BY <1>3, <1>6, <1>7, <2>2 DEF m
  <2>3. CASE i # k /\ synced
    <3>1. i \in 1 .. cursor
      BY <1>3, <2>1, <2>3
    <3>2. events[i].step <= page.seen
      BY <2>3, <3>1 DEF FeedInv, LiveSeen
    <3> QED
      BY <1>5, <1>7, <2>1, <3>2
  <2>4. CASE i # k /\ m.type = "match.frame"
    <3>1. i < k
      BY <1>3, <2>4
    <3>2. events[i].step <= m.step
      BY <1>3, <2>1, <2>4, <3>1 DEF FeedInv, FramesAhead, m
    <3>3. m.step <= p.seen
      BY <1>3, <1>6, <1>7, <2>4
    <3> QED
      BY <1>3, <1>7, <2>1, <3>2, <3>3
  <2> QED
    BY <2>2, <2>3, <2>4
<1>15. BoardComes'
  <2> SUFFICES ASSUME p.board # None, lost = {}
               PROVE  \/ p.board = p.seen
                      \/ Frame(p.seen) \in Range(inbox)
                      \/ ~ synced' /\ Behind'
    BY <1>1, <1>2, <1>12 DEF BoardComes, Frame, Event
  <2>1. page.board # None
    BY <1>5, <1>6, <1>7
  <2>2. \/ page.board = page.seen
        \/ Frame(page.seen) \in Range(inbox)
        \/ ~ synced /\ \A f \in NewFrames : f > page.seen
    BY <1>1, <2>1 DEF FeedInv, BoardComes, Behind
  <2>3. CASE m.type = "match.frame"
    <3>1. CASE m.step >= page.seen
      BY <1>6, <2>3, <3>1
    <3>2. CASE m.step < page.seen
      <4>1. ~ \A f \in NewFrames : f > page.seen
        BY <1>3, <1>7, <1>9, <2>3, <3>2
      <4> QED
        BY <1>6, <2>2, <2>3, <3>2, <4>1
    <3> QED
      BY <1>3, <1>7, <3>1, <3>2
  <2>4. CASE m.type = "turn.open" /\ m.step >= page.seen
    <3>1. p.board = page.board /\ p.seen = m.step
      BY <1>6, <2>4
    <3>2. CASE ~ synced
      <4>1. Behind' /\ ~ synced'
        BY <1>1, <1>8, <2>4, <3>1, <3>2 DEF Behind
      <4> QED
        BY <4>1
    <3>3. CASE synced /\ m.step = 0
      <4>1. page.board <= page.seen
        BY <1>2, <2>1 DEF PageInv
      <4> QED
        BY <1>7, <2>1, <2>4, <3>1, <3>3, <4>1
    <3>4. CASE synced /\ m.step > 0
      <4>1. k > 1 /\ events[k - 1] = Frame(m.step)
        BY <1>3, <2>4, <3>4 DEF FeedInv, OpenFollowsFrame, m
      <4>2. k - 1 \in 1 .. cursor
        BY <1>3, <4>1
      <4>3. events[k - 1].type = "match.frame" /\ events[k - 1].step = m.step
        BY <4>1 DEF Frame, Event
      <4>4. m.step <= page.seen
        BY <3>4, <4>2, <4>3 DEF FeedInv, LiveSeen
      <4>5. p.seen = page.seen
        BY <1>3, <1>7, <2>4, <3>1, <4>4
      <4> QED
        BY <2>2, <3>1, <3>4, <4>5
    <3> QED
      BY <1>4, <2>4, <3>2, <3>3, <3>4
  <2>5. CASE m.type # "match.frame" /\ ~ (m.type = "turn.open" /\ m.step >= page.seen)
    <3>1. p.board = page.board /\ p.seen = page.seen
      BY <1>3, <1>5, <1>6, <1>7, <2>5
    <3>2. (\A f \in NewFrames : f > page.seen) => Behind'
      BY <1>1, <1>8, <3>1 DEF Behind
    <3> QED
      BY <1>1, <2>2, <2>5, <3>1, <3>2
  <2> QED
    BY <2>3, <2>4, <2>5
<1> QED
  BY <1>1, <1>10, <1>11, <1>12, <1>13, <1>14, <1>15, WorkerKept, Zenon DEF FeedInv

-----------------------------------------------------------------------------
(* What the page does itself.                                               *)

\* A batch names the turn the observation has.
LEMMA SendStep ==
  ASSUME FeedInv, NEW board \in Step \cup {None}, CanSend, board <= page.step, Send(board)
  PROVE  FeedInv'
<1> DEFINE b == [step |-> page.step, board |-> board]
           p == [page EXCEPT !.submitted = @ \cup {page.step}]
<1>1. /\ UNCHANGED worker /\ UNCHANGED <<conn, inbox, resync, gate, cursor, synced, faults, drops>>
      /\ page' = p /\ sent' = sent \cup {b}
  BY DEF Send, gateway
<1>2. /\ TypeOK /\ WorkerInv /\ PageInv
      /\ UNCHANGED <<wpc, wstep, snapshot, events, lost>>
  BY <1>1 DEF FeedInv, worker
<1>3. page.board # None /\ page.step = page.seen /\ page.seen \in Step /\ page.seen <= Published
  BY <1>2, PageParts DEF CanSend, PageInv
<1>4. b.step = page.step /\ b.board = board /\ b \in [step : Step, board : Step \cup {None}]
  BY <1>3
<1>5. /\ p \in Page /\ p.seen = page.seen /\ p.board = page.board /\ p.step = page.step
  BY <1>2, <1>3 DEF TypeOK, Page
<1> HIDE DEF b, p
<1>6. TypeOK'
  <2>1. sent' \subseteq [step : Step, board : Step \cup {None}]
    BY <1>1, <1>2, <1>4 DEF TypeOK
  <2> QED
    BY <1>1, <1>2, <1>5, <2>1, Zenon DEF TypeOK
<1>7. PageInv'
  BY <1>1, <1>2, <1>5, WorkerKept DEF PageInv
<1>8. SentInv'
  BY <1>1, <1>3, <1>4, WorkerKept DEF FeedInv, SentInv
<1>9. Behind' = Behind
  BY <1>1, <1>2, <1>5 DEF Behind, NewFrames
<1>10. /\ InboxKinds' /\ FrameFollowsOpen' /\ Greeted' = Greeted
       /\ Range(inbox') = Range(inbox)
  BY <1>1, InboxKept
<1>11. Offline' /\ LiveReads' /\ LiveSeen' /\ GreetingFirst'
  BY <1>1, <1>2, <1>5, <1>9, <1>10 DEF FeedInv, Offline, LiveReads, LiveSeen, GreetingFirst
<1>12. BoardComes'
  BY <1>1, <1>2, <1>5, <1>9, <1>10 DEF FeedInv, BoardComes, Frame, Event
<1> QED
  BY <1>1, <1>6, <1>7, <1>8, <1>10, <1>11, <1>12, WorkerKept, Zenon DEF FeedInv

LEMMA PlayerStep == FeedInv /\ (Commit \/ AutoPass) => FeedInv'
<1> SUFFICES ASSUME FeedInv, Commit \/ AutoPass PROVE FeedInv'
  OBVIOUS
<1>1. CanSend /\ page.board # None
  BY DEF Commit, AutoPass, CanSend
<1>2. /\ page.board \in Step \cup {None} /\ page.board <= page.step
      /\ None \in Step \cup {None} /\ None <= page.step
  <2>1. TypeOK /\ PageInv
    BY DEF FeedInv
  <2> QED
    BY <1>1, <2>1, PageParts, StepFacts DEF PageInv
<1>3. CASE Commit
  BY <1>1, <1>2, <1>3, SendStep DEF Commit
<1>4. CASE AutoPass
  BY <1>1, <1>2, <1>4, SendStep DEF AutoPass
<1> QED
  BY <1>3, <1>4

LEMMA DropStep == FeedInv /\ Drop => FeedInv'
<1> SUFFICES ASSUME FeedInv, Drop PROVE FeedInv'
  OBVIOUS
<1>1. /\ UNCHANGED worker /\ UNCHANGED <<sent, faults>>
      /\ drops < MaxDrops /\ drops' = drops + 1 /\ conn' = "down" /\ page' \in {page, NewPage}
      /\ inbox' = <<>> /\ resync' = None /\ gate' = "dead" /\ synced' = FALSE /\ cursor' = 0
  BY DEF Drop
<1>2. TypeOK /\ PageInv /\ WorkerInv /\ UNCHANGED <<wpc, wstep, snapshot, events, lost>>
  BY <1>1 DEF FeedInv, worker
<1>3. /\ NewPage \in Page /\ NewPage.seen = 0 /\ NewPage.board = None /\ NewPage.step = None
  BY StepFacts DEF NewPage, Page
<1>4. Published >= 0
  BY <1>2, PublishedIsAStep
<1>5. inbox' \in Seq(Message) /\ Len(inbox') = 0
  BY <1>1, EmptySeq
<1>6. TypeOK'
  <2>1. drops' \in 0 .. MaxDrops /\ cursor' \in 0 .. Len(events)
    BY <1>1, <1>2, EventsAreMessages, LiveFeedAssumption DEF TypeOK
  <2>2. page' \in Page
    BY <1>1, <1>2, <1>3 DEF TypeOK
  <2> QED
    BY <1>1, <1>2, <1>5, <2>1, <2>2, Zenon DEF TypeOK
<1>7. PageInv'
  <2>1. CASE page' = page
    BY <1>2, <2>1, <1>1, WorkerKept DEF PageInv
  <2>2. CASE page' = NewPage
    BY <1>1, <1>3, <1>4, <2>2, WorkerKept DEF PageInv
  <2> QED
    BY <1>1, <2>1, <2>2
<1>8. SentInv'
  BY <1>1, WorkerKept DEF FeedInv, SentInv
<1>9. InboxKinds' /\ FrameFollowsOpen'
  BY <1>5 DEF InboxKinds, FrameFollowsOpen
<1>10. Offline' /\ LiveReads' /\ LiveSeen' /\ GreetingFirst' /\ BoardComes'
  BY <1>1 DEF Offline, LiveReads, LiveSeen, GreetingFirst, BoardComes
<1> QED
  BY <1>1, <1>6, <1>7, <1>8, <1>9, <1>10, WorkerKept, Zenon DEF FeedInv

-----------------------------------------------------------------------------
(* The theorems.                                                            *)

LEMMA FeedInvStep == FeedInv /\ [Next]_vars => FeedInv'
<1> SUFFICES ASSUME FeedInv, [Next]_vars PROVE FeedInv'
  OBVIOUS
<1>1. CASE Worker
  BY <1>1, WorkerStep
<1>2. CASE Connect
  BY <1>2, ConnectStep
<1>3. CASE Resync
  BY <1>3, ResyncStep
<1>4. CASE AskNew \/ AskTimesOut \/ SenderDies
  BY <1>4, SenderSteps
<1>5. CASE Receive
  BY <1>5, ReplyStep, EventStep DEF Receive
<1>6. CASE Commit \/ AutoPass
  BY <1>6, PlayerStep
<1>7. CASE Drop
  BY <1>7, DropStep
<1>8. CASE UNCHANGED vars
  <2>1. /\ UNCHANGED worker
        /\ UNCHANGED <<conn, inbox, resync, gate, cursor, page, sent, synced, faults, drops>>
    BY <1>8 DEF vars, worker
  <2>2. TypeOK'
    BY <2>1, Zenon DEF FeedInv, TypeOK, worker
  <2>3. Behind' = Behind /\ Frame(page.seen)' = Frame(page.seen)
    BY <2>1 DEF Behind, NewFrames, Frame, Event, worker
  <2>4. /\ InboxKinds' /\ FrameFollowsOpen' /\ Greeted' = Greeted
        /\ Range(inbox') = Range(inbox)
    BY <2>1, InboxKept
  <2>5. Offline' /\ LiveReads' /\ LiveSeen' /\ GreetingFirst' /\ BoardComes'
    BY <2>1, <2>3, <2>4
    DEF FeedInv, Offline, LiveReads, LiveSeen, GreetingFirst, BoardComes, worker
  <2> QED
    BY <2>1, <2>2, <2>4, <2>5, WorkerKept, PageKept, Zenon DEF FeedInv
<1> QED
  BY <1>1, <1>2, <1>3, <1>4, <1>5, <1>6, <1>7, <1>8 DEF Next

LEMMA FeedInvHolds == Spec => []FeedInv
BY FeedInvInit, FeedInvStep, PTL DEF Spec

\* The state of the worker, the stream, the connection and the page is what the
\* code takes it for: no turn beyond the last, no cursor beyond the stream.
THEOREM FeedTyped == Spec => []TypeOK
<1>1. FeedInv => TypeOK
  BY DEF FeedInv
<1> QED
  BY <1>1, FeedInvHolds, PTL

\* A page that has had a frame live and the answer to its resync shows the board of
\* the turn it is in, and when nothing is under way the newest board: although the
\* gateway's two tasks send history and live events on one socket in any order, and
\* history is ordered otherwise than the stream.
THEOREM PageFollows == Spec => []FollowsTheMatch
<1>1. FeedInv => FollowsTheMatch
  <2> SUFFICES ASSUME FeedInv, synced, resync = None, inbox = <<>>, page.board # None, lost = {}
               PROVE  /\ page.board = page.step
                      /\ gate = "read" /\ cursor = Len(events) =>
                           \A n \in Newest("match.frame") \cup Newest("turn.open") :
                             n <= page.board
    BY DEF FollowsTheMatch
  <2>1. TypeOK /\ PageInv
    BY DEF FeedInv
  <2>2. conn = "up" /\ Greeted
    BY <2>1 DEF FeedInv, Offline, LiveReads, TypeOK
  <2>3. Frame(page.seen) \notin Range(inbox)
    BY DEF Range
  <2>4. page.board = page.seen /\ page.step = page.seen
    BY <2>1, <2>2, <2>3 DEF FeedInv, BoardComes, PageInv
  <2>5. ASSUME cursor = Len(events),
               NEW n \in Newest("match.frame") \cup Newest("turn.open")
        PROVE  n <= page.board
    <3>1. PICK i \in 1 .. Len(events) :
            events[i].type \in {"turn.open", "match.frame"} /\ n = events[i].step
      BY <2>1, EventsAreMessages DEF Newest, Range
    <3> QED
      BY <2>4, <2>5, <3>1 DEF FeedInv, LiveSeen
  <2> QED
    BY <2>4, <2>5
<1> QED
  BY <1>1, FeedInvHolds, PTL

\* A batch is for a turn whose board was published, and never made on the board of
\* a later turn than the one it names.
THEOREM KnownTurnsOnly == Spec => []BatchesForKnownTurns
<1>1. FeedInv => BatchesForKnownTurns
  <2> SUFFICES ASSUME FeedInv, NEW s \in sent PROVE s.step <= wstep /\ s.board <= s.step
    BY DEF BatchesForKnownTurns
  <2>1. TypeOK /\ WorkerInv /\ s.step <= Published /\ s.board <= s.step
    BY DEF FeedInv, SentInv
  <2> QED
    BY <2>1, SentParts, PublishedIsAStep
<1> QED
  BY <1>1, FeedInvHolds, PTL

\* No message takes the page back: history that arrives after the live events it
\* repeats changes neither the board nor the turn.
THEOREM NeverGoesBack == Spec => NeverBack
<1> DEFINE Forward == page' = NewPage \/ (page'.board >= page.board /\ page'.step >= page.step)
<1>1. FeedInv /\ [Next]_vars => [Forward]_vars
  <2> SUFFICES ASSUME FeedInv, Next PROVE Forward
    OBVIOUS
  <2>1. /\ TypeOK /\ WorkerInv /\ PageInv
        /\ page \in Page /\ page.board \in Int /\ page.step \in Int
    BY PageParts DEF FeedInv, TypeOK
  <2>2. ASSUME NEW m \in Message, m.type # "match.error" => m.step \in 0 .. Published,
               page' = Handled(m)
        PROVE  Forward
    BY <2>1, <2>2, HandledFacts
  <2>3. CASE Worker \/ Connect \/ Resync \/ AskNew \/ AskTimesOut \/ SenderDies
    <3>1. page' = page
      BY <2>3 DEF Worker, Connect, Resync, AskNew, AskTimesOut, SenderDies
    <3> QED
      BY <2>1, <3>1
  <2>4. CASE ReceiveReply
    <3>1. inbox \in Seq(Message) /\ inbox # <<>> /\ Len(inbox) \in Nat
      BY <2>1, <2>4, InboxIsMessages DEF ReceiveReply, TypeOK
    <3>2. 1 \in 1 .. Len(inbox) /\ inbox[1] \in Message /\ Head(inbox) = inbox[1]
      BY <3>1, EmptySeq, ElementOfSeq
    <3>3. inbox[1].type # "match.error" => inbox[1].step \in 0 .. Published
      BY <3>2 DEF FeedInv, InboxKinds
    <3> QED
      BY <2>2, <2>4, <3>2, <3>3 DEF ReceiveReply
  <2>5. CASE ReceiveEvent
    <3>1. cursor \in 0 .. Len(events) /\ Len(events) \in Nat /\ cursor < Len(events)
      BY <2>1, <2>5, EventsAreMessages DEF ReceiveEvent, TypeOK
    <3>2. cursor + 1 \in 1 .. Len(events)
      BY <3>1
    <3>3. events[cursor + 1] \in Message
      BY <2>1, <3>2, EventsAreMessages
    <3>4. events[cursor + 1].type # "match.error" => events[cursor + 1].step \in 0 .. Published
      BY <3>2 DEF FeedInv, EventKinds
    <3> QED
      BY <2>2, <2>5, <3>3, <3>4 DEF ReceiveEvent
  <2>6. CASE Commit \/ AutoPass
    <3>1. page' = [page EXCEPT !.submitted = @ \cup {page.step}]
      BY <2>6 DEF Commit, AutoPass, Send
    <3>2. page'.board = page.board /\ page'.step = page.step
      BY <2>1, <3>1 DEF Page
    <3> QED
      BY <2>1, <3>2
  <2>7. CASE Drop
    BY <2>1, <2>7 DEF Drop
  <2> QED
    BY <2>3, <2>4, <2>5, <2>6, <2>7 DEF Next, Receive
<1> QED
  BY <1>1, FeedInvHolds, PTL DEF Spec, NeverBack

=============================================================================
