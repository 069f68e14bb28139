-------------------------- MODULE LiveTurnsProofs --------------------------
(***************************************************************************)
(* The turn loop for every number of turns, commands and batch size.       *)
(***************************************************************************)
EXTENDS LiveTurns, SequenceTheorems, WellFoundedInduction, TLAPS

LEMMA LeastExists ==
  ASSUME NEW T \in SUBSET Nat, T # {}
  PROVE  \E x \in T : \A y \in T : x <= y
<1>1. PICK x \in T : \A y \in T : <<y, x>> \notin OpToRel(<, Nat)
  BY WFMin, NatLessThanWellFounded, Zenon
<1>2. \A y \in T : ~ (y < x)
  BY <1>1, Zenon DEF OpToRel
<1> QED
  BY <1>2

\* What FirstValid returns: what was taken before, else the least index of a
\* valid entry of the slot in the batch, else nothing.
LEMMA FirstValidIsLeast ==
  ASSUME TypeOK, NEW h \in Human, NEW last \in Nat, taken[h] = 0
  PROVE  LET v == FirstValid(h, last)
             mine == {i \in cursor + 1 .. last : stream[i].slot = h /\ Valid(i)}
         IN  IF mine = {} THEN v = 0 ELSE v \in mine /\ \A j \in mine : v <= j
<1> DEFINE mine == {i \in cursor + 1 .. last : stream[i].slot = h /\ Valid(i)}
<1>1. cursor \in Nat
  BY LiveTurnsAssumption DEF TypeOK
<1>2. mine \in SUBSET Nat
  BY <1>1
<1>3. CASE mine = {}
  BY <1>3 DEF FirstValid
<1>4. CASE mine # {}
  <2>1. \E i \in mine : \A j \in mine : i <= j
    BY <1>2, <1>4, LeastExists
  <2>2. FirstValid(h, last) = CHOOSE i \in mine : \A j \in mine : i <= j
    BY <1>4 DEF FirstValid
  <2> HIDE DEF mine
  <2>3. FirstValid(h, last) \in mine /\ \A j \in mine : FirstValid(h, last) <= j
    BY <2>1, <2>2
  <2> QED
    BY <1>4, <2>3 DEF mine
<1> QED
  BY <1>3, <1>4

-----------------------------------------------------------------------------
(* The inductive invariant.                                                 *)

Wanted(h) == Command(h, step)

\* What was read stays read: no window ends beyond the cursor, and one that opens starts
\* where the last one ended.
ReadInOrder ==
  /\ \A n \in Step : readTo[n] <= cursor
  /\ pc \in {"between", "agents"} => cursor = ReadBefore(step)

\* Only steps that closed have something applied.
ClosedOnly == \A n \in Step, h \in Human : applied[n][h] # 0 => Closed(n)

\* What is taken in a window is the first valid command read in it, and is
\* missing only when none was read.
WindowTakesFirst ==
  /\ pc = "agents" => taken = NoneTaken
  /\ pc \in {"reading", "waiting"} =>
       \A h \in Human :
         /\ taken[h] # 0 =>
              /\ taken[h] \in ReadBefore(step) + 1 .. cursor
              /\ stream[taken[h]] = Wanted(h)
              /\ \A j \in ReadBefore(step) + 1 .. taken[h] - 1 : stream[j] # Wanted(h)
         /\ \A j \in ReadBefore(step) + 1 .. cursor : stream[j] = Wanted(h) => taken[h] # 0

\* What came while an XREAD waited is the next entry it reads.
HeardIsRead ==
  \A i \in heard :
    /\ stream[i].step < step
         \/ (stream[i].step = step /\ pc \in {"reading", "waiting", "done"})
    /\ stream[i].step = step => i > ReadBefore(step)
    /\ stream[i].step = step /\ pc = "reading" => i <= cursor
    /\ stream[i].step = step /\ pc = "waiting" => i <= cursor + 1

TurnsInv ==
  /\ TypeOK
  /\ ReadInOrder
  /\ ClosedOnly
  /\ AppliedIsFirstValid
  /\ NothingPassedOver
  /\ WindowTakesFirst
  /\ HeardIsRead
  /\ HeardIsApplied

\* What an entry of the stream is made of.
LEMMA EntryParts ==
  ASSUME TypeOK, NEW i \in DOMAIN stream
  PROVE  /\ stream[i].slot \in Human
         /\ stream[i].step \in Nat
         /\ stream[i].legal \in BOOLEAN
         /\ \A h \in Human : stream[i] = Wanted(h) <=> stream[i].slot = h /\ Valid(i)
<1>1. stream[i] \in Entry
  BY DEF TypeOK
<1>2. /\ stream[i].slot \in Human
      /\ stream[i].step \in Step
      /\ stream[i].legal \in BOOLEAN
      /\ stream[i] = [slot |-> stream[i].slot, step |-> stream[i].step,
                     legal |-> stream[i].legal]
  BY <1>1, Zenon DEF Entry
<1>3. stream[i].step \in Nat
  BY <1>2, LiveTurnsAssumption DEF Step
<1>4. ASSUME NEW h \in Human, stream[i] = Wanted(h)
      PROVE  stream[i].slot = h /\ Valid(i)
  BY <1>4 DEF Wanted, Command, Valid
<1>5. ASSUME NEW h \in Human, stream[i].slot = h, Valid(i)
      PROVE  stream[i] = Wanted(h)
  <2>1. stream[i].legal = TRUE
    BY <1>2, <1>5, Zenon DEF Valid
  <2> QED
    BY <1>2, <1>5, <2>1, Zenon DEF Wanted, Command, Valid
<1> QED
  BY <1>2, <1>3, <1>4, <1>5

\* Windows lie in what was read, one after the other.
LEMMA WindowBounds ==
  ASSUME TypeOK, ReadInOrder
  PROVE  \A n \in Step :
           /\ readTo[n] \in 0 .. cursor
           /\ ReadBefore(n) \in 0 .. cursor
           /\ ReadDuring(n) \subseteq 1 .. cursor
           /\ cursor \in 0 .. Len(stream)
<1> SUFFICES ASSUME NEW n \in Step
             PROVE  /\ readTo[n] \in 0 .. cursor
                    /\ ReadBefore(n) \in 0 .. cursor
                    /\ ReadDuring(n) \subseteq 1 .. cursor
                    /\ cursor \in 0 .. Len(stream)
  OBVIOUS
<1>1. cursor \in 0 .. Len(stream) /\ Len(stream) \in Nat /\ MaxCommands \in Nat /\ MaxStep \in Nat
  BY LiveTurnsAssumption DEF TypeOK
<1>2. readTo[n] \in 0 .. cursor
  BY <1>1 DEF TypeOK, ReadInOrder
<1>3. ReadBefore(n) \in 0 .. cursor
  <2>1. n # 0 => n - 1 \in Step
    BY <1>1 DEF Step
  <2> QED
    BY <1>1, <2>1 DEF TypeOK, ReadInOrder, ReadBefore
<1>4. ReadDuring(n) \subseteq 1 .. cursor
  BY <1>1, <1>2, <1>3 DEF ReadDuring
<1> QED
  BY <1>1, <1>2, <1>3, <1>4

LEMMA NoneTakenType == NoneTaken \in Taken
<1>1. 0 \in 0 .. MaxCommands
  BY LiveTurnsAssumption
<1> QED
  BY <1>1 DEF NoneTaken, Taken

LEMMA InitTurns == Init => TurnsInv
<1> SUFFICES ASSUME Init PROVE TurnsInv
  OBVIOUS
<1>1. TypeOK
  <2>1. step \in Step /\ readTo \in [Step -> 0 .. MaxCommands]
    BY LiveTurnsAssumption DEF Init, Step
  <2>2. stream \in Seq(Entry) /\ Len(stream) <= MaxCommands /\ cursor \in 0 .. Len(stream)
    BY LiveTurnsAssumption DEF Init
  <2>3. applied \in [Step -> Taken] /\ taken \in Taken
    BY NoneTakenType DEF Init
  <2> QED
    BY <2>1, <2>2, <2>3 DEF Init, TypeOK
<1>2. ReadInOrder
  BY DEF Init, ReadInOrder, ReadBefore
<1>3. ClosedOnly /\ AppliedIsFirstValid /\ NothingPassedOver
  BY LiveTurnsAssumption
     DEF Init, ClosedOnly, AppliedIsFirstValid, NothingPassedOver, Closed, Step, NoneTaken
<1>4. WindowTakesFirst /\ HeardIsRead /\ HeardIsApplied
  BY DEF Init, WindowTakesFirst, HeardIsRead, HeardIsApplied
<1> QED
  BY <1>1, <1>2, <1>3, <1>4 DEF TurnsInv

\* An append leaves the entries that were there.
LEMMA SubmitKeeps ==
  ASSUME TurnsInv, NEW h \in Human, NEW n \in Step, NEW legal \in BOOLEAN,
         Submit(h, n, legal)
  PROVE  TurnsInv'
<1> DEFINE new == [slot |-> h, step |-> n, legal |-> legal]
<1> USE DEF TurnsInv
<1>1. /\ stream \in Seq(Entry) /\ Len(stream) \in Nat /\ new \in Entry
      /\ cursor \in 0 .. Len(stream) /\ step \in Nat /\ n \in Nat
      /\ heard \subseteq 1 .. Len(stream) /\ MaxStep \in Nat
  BY LiveTurnsAssumption DEF TypeOK, Entry, Step
<1>2. /\ stream' = Append(stream, new)
      /\ stream' \in Seq(Entry)
      /\ Len(stream') = Len(stream) + 1
      /\ stream'[Len(stream) + 1] = new
      /\ \A i \in 1 .. Len(stream) : stream'[i] = stream[i]
  BY <1>1 DEF Submit
<1>3. UNCHANGED <<step, pc, expired, cursor, taken, applied, readTo>>
  BY DEF Submit
<1>4. /\ heard' \subseteq heard \cup {Len(stream) + 1}
      /\ Len(stream) + 1 \in heard' => pc = "waiting" /\ cursor = Len(stream) /\ step = n
  BY <1>1 DEF Submit
<1> HIDE DEF new
<1>5. TypeOK'
  <2>1. Len(stream') <= MaxCommands
    BY <1>1, <1>2, LiveTurnsAssumption DEF Submit
  <2>2. cursor' \in 0 .. Len(stream') /\ heard' \subseteq DOMAIN stream'
    BY <1>1, <1>2, <1>3, <1>4
  <2> QED
    BY <1>2, <1>3, <1>4, <2>1, <2>2 DEF TypeOK
<1>6. ReadInOrder' /\ ClosedOnly'
  BY <1>3 DEF ReadInOrder, ClosedOnly, ReadBefore, Closed
<1>7. /\ \A m \in Step : ReadDuring(m)' = ReadDuring(m) /\ ReadBefore(m)' = ReadBefore(m)
      /\ \A m \in Step : Closed(m)' <=> Closed(m)
      /\ \A g \in Human : Wanted(g)' = Wanted(g)
  BY <1>3 DEF ReadDuring, ReadBefore, Closed, Wanted, Command
<1>a. \A m \in Step : ReadBefore(m) \in 0 .. cursor /\ ReadDuring(m) \subseteq 1 .. Len(stream)
  BY <1>1, WindowBounds
<1>8. AppliedIsFirstValid'
  <2> SUFFICES ASSUME NEW m \in Step, NEW g \in Human, applied[m][g] # 0
               PROVE  /\ applied[m][g] \in ReadDuring(m) \cap DOMAIN stream'
                      /\ stream'[applied[m][g]] = Command(g, m)
                      /\ \A j \in ReadDuring(m) :
                           j < applied[m][g] => stream'[j] # Command(g, m)
    BY <1>3, <1>7 DEF AppliedIsFirstValid, Command
  <2>1. /\ applied[m][g] \in ReadDuring(m) \cap DOMAIN stream
        /\ stream[applied[m][g]] = Command(g, m)
        /\ \A j \in ReadDuring(m) : j < applied[m][g] => stream[j] # Command(g, m)
    BY DEF AppliedIsFirstValid
  <2>2. \A j \in ReadDuring(m) : j \in DOMAIN stream' /\ stream'[j] = stream[j]
    BY <1>1, <1>2, <1>a
  <2> QED
    BY <2>1, <2>2
<1>b. NothingPassedOver'
  <2>1. \A m \in Step : \A j \in ReadDuring(m) : stream'[j] = stream[j]
    BY <1>2, <1>a
  <2> QED
    BY <1>3, <1>7, <2>1 DEF NothingPassedOver, Command
<1>9. WindowTakesFirst'
  <2> DEFINE from == ReadBefore(step) + 1
  <2>1. step \in Step /\ from \in 1 .. cursor + 1 /\ from = (ReadBefore(step) + 1)'
    BY <1>1, <1>3, <1>7, <1>a DEF TypeOK
  <2> HIDE DEF from
  <2>2. \A j \in from .. cursor : stream'[j] = stream[j]
    BY <1>1, <1>2, <2>1
  <2>3. ASSUME NEW g \in Human, pc \in {"reading", "waiting"}, taken[g] # 0
        PROVE  /\ taken[g] \in from .. cursor /\ stream'[taken[g]] = Wanted(g)
               /\ \A j \in from .. taken[g] - 1 : stream'[j] # Wanted(g)
    <3>1. /\ taken[g] \in from .. cursor /\ stream[taken[g]] = Wanted(g)
          /\ \A j \in from .. taken[g] - 1 : stream[j] # Wanted(g)
      BY <2>3 DEF WindowTakesFirst, from
    <3>2. \A j \in from .. taken[g] - 1 : j \in from .. cursor
      BY <1>1, <2>1, <3>1
    <3> QED
      BY <2>2, <3>1, <3>2
  <2>4. ASSUME NEW g \in Human, pc \in {"reading", "waiting"}
        PROVE  \A j \in from .. cursor : stream'[j] = Wanted(g) => taken[g] # 0
    BY <2>2, <2>4 DEF WindowTakesFirst, from
  <2>5. pc = "agents" => taken = NoneTaken
    BY DEF WindowTakesFirst
  <2> QED
    BY <1>3, <1>7, <2>1, <2>3, <2>4, <2>5 DEF WindowTakesFirst
<1>10. HeardIsRead'
  <2> SUFFICES ASSUME NEW i \in heard'
               PROVE  /\ stream'[i].step < step
                            \/ (stream'[i].step = step
                                  /\ pc \in {"reading", "waiting", "done"})
                      /\ stream'[i].step = step => i > ReadBefore(step)
                      /\ stream'[i].step = step /\ pc = "reading" => i <= cursor
                      /\ stream'[i].step = step /\ pc = "waiting" => i <= cursor + 1
    BY <1>3 DEF HeardIsRead, ReadBefore
  <2>1. CASE i \in heard
    BY <1>1, <1>2, <2>1 DEF HeardIsRead
  <2>2. CASE i = Len(stream) + 1
    <3>1. step \in Step /\ ReadBefore(step) \in 0 .. cursor
      BY <1>a DEF TypeOK
    <3> QED
      BY <1>1, <1>2, <1>4, <2>2, <3>1 DEF new
  <2> QED
    BY <1>4, <2>1, <2>2
<1>11. HeardIsApplied'
  <2> SUFFICES ASSUME NEW i \in heard', stream'[i].legal,
                      stream'[i].step < step \/ pc = "done"
               PROVE  applied[stream'[i].step][stream'[i].slot] # 0
    BY <1>3 DEF HeardIsApplied
  <2>1. i \in heard
    BY <1>1, <1>2, <1>4 DEF new
  <2> QED
    BY <1>1, <1>2, <2>1 DEF HeardIsApplied
<1> QED
  BY <1>5, <1>6, <1>8, <1>b, <1>9, <1>10, <1>11

\* The worker's steps outside the stream and the clock.
LEMMA WindowKeeps ==
  ASSUME TurnsInv, OpenTurn \/ AgentsChose \/ DeadlinePasses \/ Ask \/ TimesOut
  PROVE  TurnsInv'
<1> USE DEF TurnsInv
<1>1. UNCHANGED <<step, cursor, stream, applied, readTo, heard>>
  BY DEF OpenTurn, AgentsChose, DeadlinePasses, Ask, TimesOut
<1>2. /\ cursor \in Nat /\ step \in Nat
      /\ heard \subseteq 1 .. Len(stream) /\ stream \in Seq(Entry)
  BY LiveTurnsAssumption DEF TypeOK, Step
<1>3. TypeOK'
  <2>1. taken' \in Taken
    BY NoneTakenType DEF OpenTurn, AgentsChose, DeadlinePasses, Ask, TimesOut, TypeOK
  <2>2. /\ pc' \in {"between", "agents", "reading", "waiting", "done"}
        /\ expired' \in BOOLEAN
    BY DEF OpenTurn, AgentsChose, DeadlinePasses, Ask, TimesOut, TypeOK
  <2> QED
    BY <1>1, <2>1, <2>2 DEF TypeOK
<1>a. /\ \A n \in Step : ReadDuring(n)' = ReadDuring(n) /\ ReadBefore(n)' = ReadBefore(n)
      /\ \A n \in Step : Closed(n)' <=> Closed(n)
      /\ step \in Step
  BY <1>1 DEF ReadDuring, ReadBefore, Closed, TypeOK,
              OpenTurn, AgentsChose, DeadlinePasses, Ask, TimesOut
<1>4. ReadInOrder'
  BY <1>1, <1>a DEF ReadInOrder, OpenTurn, AgentsChose, DeadlinePasses, Ask, TimesOut
<1>5. ClosedOnly' /\ AppliedIsFirstValid' /\ NothingPassedOver'
  BY <1>1, <1>a DEF ClosedOnly, AppliedIsFirstValid, NothingPassedOver, Command
<1>6. HeardIsApplied'
  BY <1>1 DEF HeardIsApplied, OpenTurn, AgentsChose, DeadlinePasses, Ask, TimesOut
<1>7. WindowTakesFirst'
  <2>1. CASE OpenTurn
    BY <2>1 DEF OpenTurn, WindowTakesFirst
  <2>2. CASE AgentsChose
    <3>1. cursor = ReadBefore(step) /\ taken = NoneTaken
      BY <2>2 DEF AgentsChose, ReadInOrder, WindowTakesFirst
    <3>2. ReadBefore(step) + 1 .. cursor = {}
      BY <1>2, <3>1
    <3> QED
      BY <1>1, <1>a, <2>2, <3>1, <3>2 DEF AgentsChose, WindowTakesFirst, NoneTaken
  <2>3. CASE DeadlinePasses
    BY <1>1, <1>a, <2>3 DEF DeadlinePasses, WindowTakesFirst, Wanted, Command
  <2>4. CASE Ask \/ TimesOut
    BY <1>1, <1>a, <2>4 DEF Ask, TimesOut, WindowTakesFirst, Wanted, Command
  <2> QED
    BY <2>1, <2>2, <2>3, <2>4
<1>8. HeardIsRead'
  <2>1. CASE OpenTurn
    BY <1>1, <1>a, <2>1 DEF OpenTurn, HeardIsRead
  <2>2. CASE AgentsChose
    <3>1. \A i \in heard : stream[i].step < step /\ stream[i].step \in Nat
      BY <1>2, <2>2, EntryParts DEF HeardIsRead, AgentsChose
    <3> QED
      BY <1>1, <1>2, <2>2, <3>1 DEF AgentsChose, HeardIsRead
  <2>3. CASE DeadlinePasses
    BY <1>1, <1>2, <1>a, <2>3 DEF DeadlinePasses, HeardIsRead
  <2>4. CASE Ask
    BY <1>1, <1>2, <1>a, <2>4 DEF Ask, HeardIsRead
  <2>5. CASE TimesOut
    BY <1>1, <1>2, <1>a, <2>5 DEF TimesOut, HeardIsRead
  <2> QED
    BY <2>1, <2>2, <2>3, <2>4, <2>5
<1> QED
  BY <1>3, <1>4, <1>5, <1>6, <1>7, <1>8

\* A batch is consumed whole, and a slot takes the first that is valid in it.
LEMMA ReadKeeps ==
  ASSUME TurnsInv, Read
  PROVE  TurnsInv'
<1> USE DEF TurnsInv
<1>1. /\ UNCHANGED <<step, expired, stream, applied, readTo, heard>>
      /\ pc = "waiting" /\ pc' = "reading"
      /\ taken' = [h \in Human |-> FirstValid(h, BatchEnd)]
      /\ cursor' = BatchEnd
  BY DEF Read
<1>2. /\ cursor \in Nat /\ step \in Nat /\ Batch \in Nat /\ MaxCommands \in Nat
      /\ Len(stream) \in Nat /\ Len(stream) <= MaxCommands
      /\ heard \subseteq 1 .. Len(stream) /\ stream \in Seq(Entry)
  BY LiveTurnsAssumption DEF TypeOK, Step
<1>3. BatchEnd \in 1 .. Len(stream) /\ cursor < BatchEnd
  BY <1>2, LiveTurnsAssumption DEF BatchEnd, Read, TypeOK
<1>4. ASSUME NEW i \in 1 .. Len(stream), NEW h \in Human
      PROVE  stream[i] = Wanted(h) <=> stream[i].slot = h /\ Valid(i)
  BY <1>2, EntryParts
<1>a. /\ step \in Step /\ ReadBefore(step) \in 0 .. cursor
      /\ \A n \in Step : ReadDuring(n)' = ReadDuring(n) /\ ReadBefore(n)' = ReadBefore(n)
      /\ \A n \in Step : Closed(n)' <=> Closed(n)
  BY <1>1, WindowBounds DEF TypeOK, ReadDuring, ReadBefore, Closed
<1> DEFINE from == ReadBefore(step) + 1
<1>b. from \in 1 .. cursor + 1 /\ from = ReadBefore(step) + 1
  BY <1>2, <1>a
<1> HIDE DEF from
<1>5. ASSUME NEW h \in Human
      PROVE  /\ taken'[h] \in 0 .. BatchEnd
             /\ taken'[h] # 0 =>
                  /\ taken'[h] \in from .. BatchEnd
                  /\ stream[taken'[h]] = Wanted(h)
                  /\ \A j \in from .. taken'[h] - 1 : stream[j] # Wanted(h)
             /\ \A j \in from .. BatchEnd : stream[j] = Wanted(h) => taken'[h] # 0
  <2> DEFINE mine == {i \in cursor + 1 .. BatchEnd : stream[i].slot = h /\ Valid(i)}
  <2>1. taken'[h] = FirstValid(h, BatchEnd)
    BY <1>1
  <2>2. CASE taken[h] # 0
    <3>1. taken'[h] = taken[h]
      BY <2>1, <2>2 DEF FirstValid
    <3>2. /\ taken[h] \in from .. cursor /\ stream[taken[h]] = Wanted(h)
          /\ \A j \in from .. taken[h] - 1 : stream[j] # Wanted(h)
      BY <1>1, <1>b, <2>2 DEF WindowTakesFirst
    <3> QED
      BY <1>2, <1>3, <1>b, <2>2, <3>1, <3>2
  <2>3. CASE taken[h] = 0
    <3>1. /\ mine = {} => taken'[h] = 0
          /\ mine # {} => taken'[h] \in mine /\ \A j \in mine : taken'[h] <= j
      BY <1>3, <2>1, <2>3, FirstValidIsLeast
    <3>2. \A j \in from .. cursor : stream[j] # Wanted(h)
      BY <1>1, <1>b, <2>3 DEF WindowTakesFirst
    <3>3. \A j \in cursor + 1 .. BatchEnd : j \in mine <=> stream[j] = Wanted(h)
      BY <1>2, <1>3, <1>4
    <3>4. mine \subseteq cursor + 1 .. BatchEnd
      OBVIOUS
    <3> HIDE DEF mine
    <3>5. CASE mine = {}
      BY <1>2, <1>3, <1>b, <3>1, <3>2, <3>3, <3>5
    <3>6. CASE mine # {}
      <4> DEFINE v == taken'[h]
      <4>1. v \in cursor + 1 .. BatchEnd /\ stream[v] = Wanted(h)
        BY <3>1, <3>3, <3>4, <3>6
      <4>2. \A j \in cursor + 1 .. BatchEnd : stream[j] = Wanted(h) => v <= j
        BY <3>1, <3>3, <3>6
      <4> HIDE DEF v
      <4>3. \A j \in from .. v - 1 : stream[j] # Wanted(h)
        BY <1>2, <1>3, <1>b, <3>2, <4>1, <4>2
      <4>4. v \in from .. BatchEnd /\ v \in 0 .. BatchEnd /\ v # 0
        BY <1>2, <1>3, <1>b, <4>1
      <4> QED
        BY <4>1, <4>3, <4>4 DEF v
    <3> QED
      BY <3>5, <3>6
  <2> QED
    BY <2>2, <2>3
<1>6. TypeOK'
  <2>1. taken' \in Taken
    <3>1. \A h \in Human : taken'[h] \in 0 .. MaxCommands
      BY <1>2, <1>3, <1>5
    <3> QED
      BY <1>1, <3>1 DEF Taken
  <2>2. cursor' \in 0 .. Len(stream')
    BY <1>1, <1>2, <1>3
  <2> QED
    BY <1>1, <2>1, <2>2 DEF TypeOK
<1>7. ReadInOrder'
  <2>1. \A n \in Step : readTo[n] \in Nat /\ readTo[n] <= cursor
    BY WindowBounds, <1>2
  <2> QED
    BY <1>1, <1>2, <1>3, <2>1 DEF ReadInOrder
<1>8. ClosedOnly' /\ AppliedIsFirstValid' /\ NothingPassedOver' /\ HeardIsApplied'
  BY <1>1, <1>a DEF ClosedOnly, AppliedIsFirstValid, NothingPassedOver, HeardIsApplied, Command
<1>9. WindowTakesFirst'
  BY <1>1, <1>a, <1>b, <1>5 DEF WindowTakesFirst, Wanted, Command
<1>10. HeardIsRead'
  BY <1>1, <1>2, <1>3, <1>a DEF HeardIsRead
<1> QED
  BY <1>6, <1>7, <1>8, <1>9, <1>10

\* What a turn applies is what its window took.
LEMMA CloseKeeps ==
  ASSUME TurnsInv, CloseTurn
  PROVE  TurnsInv'
<1> USE DEF TurnsInv
<1>1. /\ UNCHANGED <<expired, cursor, taken, stream, heard>>
      /\ pc = "reading" /\ (Complete \/ expired)
      /\ applied' = [applied EXCEPT ![step] = taken]
      /\ readTo' = [readTo EXCEPT ![step] = cursor]
  BY DEF CloseTurn, WindowEnds
<1>2. /\ cursor \in 0 .. Len(stream) /\ step \in Nat /\ step \in Step
      /\ MaxStep \in Nat /\ Len(stream) \in Nat /\ Len(stream) <= MaxCommands
      /\ heard \subseteq 1 .. Len(stream) /\ stream \in Seq(Entry)
      /\ applied \in [Step -> Taken] /\ taken \in Taken /\ MaxCommands \in Nat
  BY LiveTurnsAssumption DEF TypeOK, Step
<1>3. pc = "reading"
  BY DEF CloseTurn, WindowEnds
<1>4. /\ step' \in Step
      /\ \/ step' = step + 1 /\ pc' = "between"
         \/ step' = step /\ pc' = "done"
  BY <1>2 DEF CloseTurn, EngineSteps, Step
<1>5. /\ applied'[step] = taken
      /\ \A n \in Step : n # step => applied'[n] = applied[n]
      /\ applied' \in [Step -> Taken]
  BY <1>1, <1>2
<1>6. \A i \in 1 .. Len(stream) : stream[i].step \in Nat
  BY <1>2, EntryParts
<1>a. /\ readTo'[step] = cursor
      /\ \A n \in Step : n # step => readTo'[n] = readTo[n]
      /\ readTo' \in [Step -> 0 .. MaxCommands]
  BY <1>1, <1>2 DEF TypeOK
<1>b. \A n \in Step : ReadBefore(n) \in 0 .. cursor
  BY WindowBounds
<1>c. \A n \in Step : n <= step => ReadBefore(n)' = ReadBefore(n)
  <2> SUFFICES ASSUME NEW n \in Step, n <= step PROVE ReadBefore(n)' = ReadBefore(n)
    OBVIOUS
  <2>1. n # 0 => n - 1 \in Step /\ n - 1 # step
    BY <1>2 DEF Step
  <2> QED
    BY <1>a, <2>1 DEF ReadBefore
<1>d. \A n \in Step : Closed(n)' => n <= step
  BY <1>2, <1>4 DEF Closed, Step
<1>e. ASSUME NEW n \in Step, n < step
      PROVE  ReadDuring(n)' = ReadDuring(n) /\ applied'[n] = applied[n] /\ Closed(n)
  BY <1>2, <1>5, <1>a, <1>c, <1>e DEF ReadDuring, Closed
<1>f. \A n \in Step : n = step => ReadDuring(n)' = ReadBefore(step) + 1 .. cursor
  BY <1>2, <1>a, <1>c DEF ReadDuring
<1>7. TypeOK'
  BY <1>1, <1>4, <1>5, <1>a DEF TypeOK
<1>8. ReadInOrder'
  <2>1. \A n \in Step : readTo'[n] <= cursor
    BY <1>2, <1>a DEF ReadInOrder
  <2>2. pc' = "between" => ReadBefore(step)' = cursor
    BY <1>2, <1>4, <1>a DEF ReadBefore
  <2> QED
    BY <1>1, <1>4, <2>1, <2>2 DEF ReadInOrder
<1>9. ClosedOnly'
  <2> SUFFICES ASSUME NEW n \in Step, NEW h \in Human, applied'[n][h] # 0
               PROVE  n < step' \/ (n = step' /\ pc' = "done")
    BY DEF ClosedOnly, Closed
  <2>1. n <= step
    BY <1>2, <1>3, <1>5 DEF ClosedOnly, Closed, Step
  <2> QED
    BY <1>2, <1>4, <2>1 DEF Step
<1>g. ASSUME NEW n \in Step, NEW h \in Human, n = step
      PROVE  /\ Command(h, n) = Wanted(h) /\ applied'[n][h] = taken[h]
             /\ ReadDuring(n)' = ReadBefore(step) + 1 .. cursor
  BY <1>5, <1>f, <1>g DEF Wanted
<1>10. AppliedIsFirstValid'
  <2> SUFFICES ASSUME NEW n \in Step, NEW h \in Human, applied'[n][h] # 0
               PROVE  /\ applied'[n][h] \in ReadDuring(n)' \cap DOMAIN stream
                      /\ stream[applied'[n][h]] = Command(h, n)
                      /\ \A j \in ReadDuring(n)' :
                           j < applied'[n][h] => stream[j] # Command(h, n)
    BY <1>1 DEF AppliedIsFirstValid, Command
  <2>1. n <= step
    BY <1>9, <1>d DEF ClosedOnly
  <2>2. CASE n = step
    <3>1. /\ taken[h] \in ReadBefore(step) + 1 .. cursor
          /\ stream[taken[h]] = Wanted(h)
          /\ \A j \in ReadBefore(step) + 1 .. taken[h] - 1 : stream[j] # Wanted(h)
      BY <1>3, <1>g, <2>2 DEF WindowTakesFirst
    <3>2. ReadDuring(n)' = ReadBefore(step) + 1 .. cursor
      BY <1>f, <2>2
    <3>3. \A j \in ReadDuring(n)' : j < taken[h] => j \in ReadBefore(step) + 1 .. taken[h] - 1
      BY <1>2, <1>b, <3>1, <3>2
    <3>4. taken[h] \in DOMAIN stream
      BY <1>2, <1>b, <3>1
    <3> QED
      BY <1>g, <2>2, <3>1, <3>2, <3>3, <3>4
  <2>3. CASE n # step
    <3>1. n < step
      BY <1>2, <2>1, <2>3 DEF Step
    <3> QED
      BY <1>e, <3>1 DEF AppliedIsFirstValid
  <2> QED
    BY <2>2, <2>3
<1>h. NothingPassedOver'
  <2> SUFFICES ASSUME NEW n \in Step, NEW h \in Human, Closed(n)', applied'[n][h] = 0,
                      NEW j \in ReadDuring(n)'
               PROVE  stream[j] # Command(h, n)
    BY <1>1 DEF NothingPassedOver, Command
  <2>1. CASE n = step
    BY <1>3, <1>g, <2>1 DEF WindowTakesFirst
  <2>2. CASE n # step
    <3>1. n < step
      BY <1>2, <1>d, <2>2 DEF Step
    <3> QED
      BY <1>e, <3>1 DEF NothingPassedOver
  <2> QED
    BY <2>1, <2>2
<1>11. WindowTakesFirst'
  BY <1>4 DEF WindowTakesFirst
<1>12. HeardIsRead'
  BY <1>1, <1>2, <1>3, <1>4, <1>6, <1>c DEF HeardIsRead
<1>13. HeardIsApplied'
  <2> SUFFICES ASSUME NEW i \in heard, stream[i].legal
               PROVE  applied'[stream[i].step][stream[i].slot] # 0
    BY <1>1 DEF HeardIsApplied
  <2>1. /\ i \in 1 .. Len(stream) /\ stream[i].slot \in Human
        /\ stream[i].step \in Nat
        /\ Valid(i) => stream[i] = Wanted(stream[i].slot)
    BY <1>2, EntryParts
  <2>2. CASE stream[i].step < step
    BY <1>2, <1>5, <2>1, <2>2 DEF HeardIsApplied, Step
  <2>3. CASE stream[i].step = step
    <3>1. stream[i] = Wanted(stream[i].slot) /\ stream[i].slot \in Human
      BY <2>1, <2>3 DEF Valid
    <3>2. CASE Complete
      BY <1>5, <2>3, <3>1, <3>2 DEF Complete
    <3>3. CASE expired
      <4>1. i \in ReadBefore(step) + 1 .. cursor
        BY <1>2, <1>3, <1>b, <2>1, <2>3 DEF HeardIsRead
      <4> QED
        BY <1>3, <1>5, <2>3, <3>1, <4>1 DEF WindowTakesFirst
    <3> QED
      BY <1>1, <3>2, <3>3
  <2> QED
    BY <2>2, <2>3 DEF HeardIsRead
<1> QED
  BY <1>7, <1>8, <1>9, <1>10, <1>h, <1>11, <1>12, <1>13

LEMMA TurnsInvariant == Spec => []TurnsInv
<1>1. TurnsInv /\ [Next]_vars => TurnsInv'
  <2> SUFFICES ASSUME TurnsInv, [Next]_vars PROVE TurnsInv'
    OBVIOUS
  <2>1. CASE \E h \in Human, n \in Step, legal \in BOOLEAN : Submit(h, n, legal)
    BY <2>1, SubmitKeeps
  <2>2. CASE DeadlinePasses
    BY <2>2, WindowKeeps
  <2>3. CASE OpenTurn \/ AgentsChose \/ Ask \/ TimesOut
    BY <2>3, WindowKeeps
  <2>4. CASE Read
    BY <2>4, ReadKeeps
  <2>5. CASE CloseTurn
    BY <2>5, CloseKeeps
  <2>6. CASE UNCHANGED vars
    BY <2>6 DEF vars, TurnsInv, TypeOK, ReadInOrder, ReadDuring, ReadBefore, Closed, ClosedOnly,
      AppliedIsFirstValid, NothingPassedOver, WindowTakesFirst, Wanted, HeardIsRead, HeardIsApplied
  <2> QED
    BY <2>1, <2>2, <2>3, <2>4, <2>5, <2>6 DEF Next, Worker
<1> QED
  BY <1>1, InitTurns, PTL DEF Spec

-----------------------------------------------------------------------------
(* Theorems.                                                                *)

\* The state of the loop and of the stream has its type: the cursor stays inside
\* the stream and the turns inside the step limit.
THEOREM TurnsTyped == Spec => []TypeOK
<1>1. TurnsInv => TypeOK
  BY DEF TurnsInv
<1> QED
  BY <1>1, TurnsInvariant, PTL

\* A turn applies each player's first valid command for it, whatever the batch
\* size and however the commands of the players and steps are mixed.
THEOREM FirstCommandWins == Spec => []AppliedIsFirstValid
<1>1. TurnsInv => AppliedIsFirstValid
  BY DEF TurnsInv
<1> QED
  BY <1>1, TurnsInvariant, PTL

\* The read loop, which consumes whatever it reads, leaves a player's turn empty only
\* if none of his commands read for it was valid: others do not use it up.
THEOREM ReadCommandsCount == Spec => []NothingPassedOver
<1>1. TurnsInv => NothingPassedOver
  BY DEF TurnsInv
<1> QED
  BY <1>1, TurnsInvariant, PTL

\* No legal command that comes while the worker reads for its turn is lost.
THEOREM HeardCommandCounts == Spec => []HeardIsApplied
<1>1. TurnsInv => HeardIsApplied
  BY DEF TurnsInv
<1> QED
  BY <1>1, TurnsInvariant, PTL
=============================================================================
