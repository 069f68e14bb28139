----------------------- MODULE RatingSettlementProofs -----------------------
(***************************************************************************)
(* apply_once for every set of matches, fleets and workers: it implements  *)
(* the atomic settlement, and so the events of a fleet form one chain.     *)
(***************************************************************************)
EXTENDS RatingSettlement, SequenceTheorems, TLAPS

\* The statements that run with the first row locked, with both rows locked,
\* with the first rating read, and with both ratings read.
HasFirst == {"lock1", "rate0", "rate1", "insert", "commit"}
HasBoth == HasFirst \ {"lock1"}
ReadFirst == {"rate1", "insert", "commit"}
ReadBoth == {"insert", "commit"}

LocksInv ==
  \A s \in Settler :
    /\ pc[s] \in HasFirst => lock[Seat(s, 0)] = s
    /\ pc[s] \in HasBoth => lock[Seat(s, 1)] = s

\* What a transaction read of a row it holds is still what is committed.
ViewsInv ==
  \A s \in Settler :
    /\ pc[s] \in ReadFirst => view[s][0] = rating[Seat(s, 0)]
    /\ pc[s] \in ReadBoth => view[s][1] = rating[Seat(s, 1)]
    /\ pc[s] = "commit" => job[s] \notin scored

SettlementInv == TypeOK /\ LocksInv /\ ViewsInv

LEMMA SeatsAreFleets ==
  ASSUME TypeOK, NEW s \in Settler, pc[s] # "idle"
  PROVE  /\ job[s] \in Match
         /\ Seat(s, 0) \in Fleet /\ Seat(s, 1) \in Fleet /\ Seat(s, 0) # Seat(s, 1)
  BY SettlementAssumption DEF TypeOK, Seat, Slot

\* Two transactions never both hold a row: one that has both rows of its match
\* shares no fleet with another that has both of its own.
LEMMA NoSharedRow ==
  ASSUME SettlementInv, NEW s \in Settler, NEW t \in Settler, s # t,
         pc[s] = "commit", NEW i \in Slot, NEW j \in Slot,
         pc[t] \in IF j = 0 THEN HasFirst ELSE HasBoth
  PROVE  Seat(s, i) # Seat(t, j)
<1>1. lock[Seat(s, i)] = s /\ lock[Seat(t, j)] = t
  BY DEF SettlementInv, LocksInv, Slot, HasFirst, HasBoth
<1> QED
  BY <1>1

LEMMA TypeStep ==
  ASSUME TypeOK, [Next]_vars
  PROVE  TypeOK'
<1> USE SettlementAssumption
<1>1. ASSUME NEW s \in Settler, EndTransaction(s), UNCHANGED <<committed, calls>>, aborts' \in Nat
      PROVE  TypeOK'
  BY <1>1 DEF EndTransaction, Released, committed, TypeOK, Pc, Unread, Slot
<1>2. ASSUME NEW s \in Settler, NEW m \in Match, Begin(s, m) PROVE TypeOK'
  BY <1>2 DEF Begin, Go, committed, TypeOK, Pc
<1>3. ASSUME NEW s \in Settler, Check(s) \/ Insert(s) PROVE TypeOK'
  BY <1>1, <1>3 DEF Check, Insert, Go, committed, TypeOK, Pc
<1>4. ASSUME NEW s \in Settler, Abort(s) \/ Deadlock(s) PROVE TypeOK'
  <2>1. EndTransaction(s) /\ UNCHANGED <<committed, calls>>
    BY <1>4 DEF Abort, Deadlock
  <2>2. aborts' \in Nat
    BY SMTT(30), <1>4 DEF Abort, Deadlock, TypeOK
  <2> QED
    BY <1>1, <2>1, <2>2
<1>5. ASSUME NEW s \in Settler,
             Lock(s, 0, "lock0", "lock1") \/ Lock(s, 1, "lock1", "rate0") PROVE TypeOK'
  <2>1. \A i \in Slot : Seat(s, i) \in Fleet
    BY <1>5, SeatsAreFleets DEF Lock, Go, Slot
  <2>2. lock' \in [Fleet -> Settler \cup {NoSettler}]
    BY <1>5, <2>1 DEF Lock, TypeOK, Slot
  <2>3. pc' \in [Settler -> Pc] /\ \A t \in Settler : pc'[t] = "idle" <=> pc[t] = "idle"
    BY <1>5 DEF Lock, Go, TypeOK, Pc
  <2> QED
    BY <1>5, <2>2, <2>3 DEF Lock, committed, TypeOK
<1>6. ASSUME NEW s \in Settler,
             Rate(s, 0, "rate0", "rate1") \/ Rate(s, 1, "rate1", "insert") PROVE TypeOK'
  <2>1. \A i \in Slot : rating[Seat(s, i)] \in Seq(Match)
    BY <1>6, SeatsAreFleets DEF Rate, Go, TypeOK, Slot
  <2>2. view' \in [Settler -> [Slot -> Seq(Match)]]
    <3>1. PICK i \in Slot : view' = [view EXCEPT ![s][i] = rating[Seat(s, i)]]
      BY <1>6 DEF Rate, Slot
    <3>2. [view[s] EXCEPT ![i] = rating[Seat(s, i)]] \in [Slot -> Seq(Match)]
      BY <2>1 DEF TypeOK
    <3> QED
      BY <3>1, <3>2 DEF TypeOK
  <2>3. pc' \in [Settler -> Pc] /\ \A t \in Settler : pc'[t] = "idle" <=> pc[t] = "idle"
    BY <1>6 DEF Rate, Go, TypeOK, Pc
  <2> QED
    BY <1>6, <2>2, <2>3 DEF Rate, committed, TypeOK
<1>7. ASSUME NEW s \in Settler, Commit(s) PROVE TypeOK'
  <2>1. job[s] \in Match /\ view[s] \in [Slot -> Seq(Match)]
    BY <1>7, SeatsAreFleets DEF Commit, TypeOK
  <2>2. \A i \in Slot : Append(view[s][i], job[s]) \in Seq(Match)
    BY <2>1, AppendProperties
  <2>3. rating' \in [Fleet -> Seq(Match)]
    BY <1>7, <2>2 DEF Commit, TypeOK, Slot
  <2>4. scored' \subseteq Match /\ before' \in [Match -> [Slot -> Seq(Match)]]
    BY <1>7, <2>1 DEF Commit, TypeOK
  <2> QED
    BY <1>7, <2>3, <2>4 DEF Commit, EndTransaction, Released, TypeOK, Pc, Unread, Slot
<1>8. CASE UNCHANGED vars
  BY <1>8 DEF vars, TypeOK
<1> QED
  BY <1>2, <1>3, <1>4, <1>5, <1>6, <1>7, <1>8 DEF Next, Proceed

LEMMA LocksStep ==
  ASSUME SettlementInv, [Next]_vars
  PROVE  LocksInv'
<1> USE SettlementAssumption DEF SettlementInv
<1>1. ASSUME NEW s \in Settler, EndTransaction(s) PROVE LocksInv'
  BY <1>1, SeatsAreFleets DEF EndTransaction, Released, LocksInv, HasFirst, HasBoth, Seat, TypeOK
<1>2. ASSUME NEW s \in Settler, NEW m \in Match, Begin(s, m) PROVE LocksInv'
  BY <1>2 DEF Begin, Go, LocksInv, HasFirst, HasBoth, Seat, TypeOK
<1>3. ASSUME NEW s \in Settler, Check(s) \/ Insert(s) PROVE LocksInv'
  BY ZenonT(60), <1>1, <1>3 DEF Check, Insert, Go, LocksInv, HasFirst, HasBoth, Seat, TypeOK
<1>4. ASSUME NEW s \in Settler,
             Lock(s, 0, "lock0", "lock1") \/ Lock(s, 1, "lock1", "rate0") PROVE LocksInv'
  <2>0. \A t \in Settler, i \in Slot : Seat(t, i)' = Seat(t, i)
    BY <1>4 DEF Lock, Seat
  <2>1. \A i \in Slot : Seat(s, i) \in Fleet
    BY <1>4, SeatsAreFleets DEF Lock, Go, Slot
  <2>2. CASE Lock(s, 0, "lock0", "lock1")
    BY <2>0, <2>1, <2>2 DEF Lock, Go, LocksInv, HasFirst, HasBoth, TypeOK, Slot
  <2>3. CASE Lock(s, 1, "lock1", "rate0")
    BY <2>0, <2>1, <2>3 DEF Lock, Go, LocksInv, HasFirst, HasBoth, TypeOK, Slot
  <2> QED
    BY <1>4, <2>2, <2>3
<1>5. ASSUME NEW s \in Settler,
             Rate(s, 0, "rate0", "rate1") \/ Rate(s, 1, "rate1", "insert") PROVE LocksInv'
  BY <1>5 DEF Rate, Go, LocksInv, HasFirst, HasBoth, Seat, TypeOK
<1>6. CASE UNCHANGED vars
  BY <1>6 DEF vars, LocksInv, Seat
<1> QED
  BY <1>1, <1>2, <1>3, <1>4, <1>5, <1>6 DEF Next, Proceed, Commit, Abort, Deadlock

\* A commit changes the ratings of its own two fleets only.
LEMMA CommitFrame ==
  ASSUME NEW s \in Settler, Commit(s), NEW f \in Fleet, f # Seat(s, 0), f # Seat(s, 1)
  PROVE  rating'[f] = rating[f]
  BY DEF Commit

LEMMA ViewsStep ==
  ASSUME SettlementInv, [Next]_vars
  PROVE  ViewsInv'
<1> USE SettlementAssumption DEF SettlementInv
<1>1. ASSUME NEW s \in Settler, EndTransaction(s), UNCHANGED committed PROVE ViewsInv'
  BY <1>1 DEF EndTransaction, committed, ViewsInv, ReadFirst, ReadBoth, Seat, TypeOK
<1>2. ASSUME NEW s \in Settler, NEW m \in Match, Begin(s, m) PROVE ViewsInv'
  BY <1>2 DEF Begin, Go, committed, ViewsInv, ReadFirst, ReadBoth, Seat, TypeOK
<1>3. ASSUME NEW s \in Settler, Check(s) \/ Insert(s) PROVE ViewsInv'
  BY <1>1, <1>3 DEF Check, Insert, Go, committed, ViewsInv, ReadFirst, ReadBoth, Seat, TypeOK
<1>4. ASSUME NEW s \in Settler,
             Lock(s, 0, "lock0", "lock1") \/ Lock(s, 1, "lock1", "rate0") PROVE ViewsInv'
  BY <1>4 DEF Lock, Go, committed, ViewsInv, ReadFirst, ReadBoth, Seat, TypeOK
<1>5. ASSUME NEW s \in Settler,
             Rate(s, 0, "rate0", "rate1") \/ Rate(s, 1, "rate1", "insert") PROVE ViewsInv'
  <2>0. /\ \A t \in Settler, i \in Slot : Seat(t, i)' = Seat(t, i)
        /\ rating' = rating /\ scored' = scored /\ job' = job
    BY <1>5 DEF Rate, Seat, committed
  <2>1. \A t \in Settler : t # s => pc'[t] = pc[t] /\ view'[t] = view[t]
    BY <1>5 DEF Rate, Go, TypeOK
  <2>2. CASE Rate(s, 0, "rate0", "rate1")
    <3>1. pc'[s] = "rate1" /\ view'[s][0] = rating[Seat(s, 0)]
      BY <2>2 DEF Rate, Go, TypeOK, Slot
    <3> QED
      BY <2>0, <2>1, <3>1 DEF ViewsInv, ReadFirst, ReadBoth, Slot
  <2>3. CASE Rate(s, 1, "rate1", "insert")
    <3>1. /\ pc[s] = "rate1" /\ pc'[s] = "insert"
          /\ view'[s][1] = rating[Seat(s, 1)] /\ view'[s][0] = view[s][0]
      BY <2>3 DEF Rate, Go, TypeOK, Slot
    <3> QED
      BY <2>0, <2>1, <3>1 DEF ViewsInv, ReadFirst, ReadBoth, Slot
  <2> QED
    BY <1>5, <2>2, <2>3
<1>6. ASSUME NEW s \in Settler, Commit(s) PROVE ViewsInv'
  <2> SUFFICES ASSUME NEW t \in Settler
      PROVE  /\ pc'[t] \in ReadFirst => view'[t][0] = rating'[Seat(t, 0)']
             /\ pc'[t] \in ReadBoth => view'[t][1] = rating'[Seat(t, 1)']
             /\ pc'[t] = "commit" => job'[t] \notin scored'
    BY DEF ViewsInv
  <2>1. CASE t = s
    BY <1>6, <2>1 DEF Commit, EndTransaction, TypeOK, ReadFirst, ReadBoth
  <2>2. CASE t # s
    <3>1. /\ pc'[t] = pc[t] /\ view'[t] = view[t] /\ job'[t] = job[t]
          /\ Seat(t, 0)' = Seat(t, 0) /\ Seat(t, 1)' = Seat(t, 1)
          /\ pc[s] = "commit" /\ scored' = scored \cup {job[s]}
      BY <1>6, <2>2 DEF Commit, EndTransaction, TypeOK, Seat
    <3>2. ASSUME pc[t] \in ReadFirst PROVE view[t][0] = rating'[Seat(t, 0)]
      BY <1>6, <2>2, <3>1, <3>2, NoSharedRow, SeatsAreFleets, CommitFrame
         DEF ViewsInv, ReadFirst, HasFirst, Slot
    <3>3. ASSUME pc[t] \in ReadBoth PROVE view[t][1] = rating'[Seat(t, 1)]
      BY <1>6, <2>2, <3>1, <3>3, NoSharedRow, SeatsAreFleets, CommitFrame
         DEF ViewsInv, ReadBoth, HasFirst, HasBoth, Slot
    <3>4. ASSUME pc[t] = "commit" PROVE job[t] # job[s]
      BY <2>2, <3>1, <3>4, NoSharedRow DEF HasFirst, Seat, Slot
    <3> QED
      BY <3>1, <3>2, <3>3, <3>4 DEF ViewsInv
  <2> QED
    BY <2>1, <2>2
<1>7. CASE UNCHANGED vars
  BY <1>7 DEF vars, committed, ViewsInv, Seat
<1> QED
  BY <1>1, <1>2, <1>3, <1>4, <1>5, <1>6, <1>7 DEF Next, Proceed, Abort, Deadlock

LEMMA SettlementInvariant == Spec => []SettlementInv
<1>1. Init => SettlementInv
  BY SettlementAssumption DEF Init, SettlementInv, TypeOK, LocksInv, ViewsInv, Pc, Unread,
                              Slot, HasFirst, HasBoth, ReadFirst, ReadBoth
<1>2. SettlementInv /\ [Next]_vars => SettlementInv'
  BY TypeStep, LocksStep, ViewsStep DEF SettlementInv
<1> QED
  BY <1>1, <1>2, PTL DEF Spec

-----------------------------------------------------------------------------
\* Settlement types.  Rows, locks and transactions have their types, and a
\* transaction is idle exactly when it has no match.
THEOREM SettlementTyped == Spec => []TypeOK
<1>1. SettlementInv => TypeOK
  BY DEF SettlementInv
<1> QED
  BY <1>1, SettlementInvariant, PTL

\* Concurrent settlements change the committed ratings and events only by steps
\* that settle one match from the ratings current at that step.
THEOREM SettlementImplemented == Spec => ImplementsSettlement
<1> USE SettlementAssumption
<1>1. Init => Abstract!Init
  BY DEF Init, Abstract!Init, Unread, Slot, Abstract!Slot
<1>2. ASSUME SettlementInv, [Next]_vars PROVE [Abstract!Next]_(Abstract!settlementVars)
  <2>1. ASSUME NEW s \in Settler, Commit(s) PROVE Abstract!Next
    <3>1. /\ pc[s] = "commit"
          /\ view[s][0] = rating[Seat(s, 0)] /\ view[s][1] = rating[Seat(s, 1)]
          /\ job[s] \in Match \ scored
      BY <1>2, <2>1, SeatsAreFleets
         DEF Commit, SettlementInv, ViewsInv, ReadFirst, ReadBoth
    <3>2. view[s] = [i \in Slot |-> rating[Seat(s, i)]]
      BY <1>2, <3>1 DEF SettlementInv, TypeOK, Slot
    <3>3. Abstract!Score(job[s])
      BY <2>1, <3>1, <3>2 DEF Commit, Abstract!Score, Abstract!Slot, Slot, Seat
    <3> QED
      BY <3>1, <3>3 DEF Abstract!Next
  <2>2. ASSUME NEW s \in Settler, NEW m \in Match,
               Begin(s, m) \/ Check(s) \/ Insert(s) \/ Abort(s) \/ Deadlock(s)
        PROVE  UNCHANGED committed
    BY <2>2 DEF Begin, Check, Insert, Abort, Deadlock
  <2> QED
    BY <1>2, <2>1, <2>2
       DEF Next, Proceed, Begin, Check, Insert, Abort, Deadlock, Lock, Rate, vars, committed,
           Abstract!settlementVars
<1> QED
  BY <1>1, <1>2, SettlementInvariant, PTL DEF Spec, ImplementsSettlement, Abstract!Spec

-----------------------------------------------------------------------------
\* Appending one match to a rating keeps the ratings its prefixes stand for.
LEMMA PrefixesKept ==
  ASSUME NEW r \in Seq(Match), NEW m \in Match
  PROVE  /\ Append(r, m) \in Seq(Match)
         /\ DOMAIN Append(r, m) = DOMAIN r \cup {Len(r) + 1}
         /\ Append(r, m)[Len(r) + 1] = m
         /\ SubSeq(Append(r, m), 1, Len(r)) = r
         /\ \A i \in DOMAIN r : /\ Append(r, m)[i] = r[i]
                                /\ SubSeq(Append(r, m), 1, i - 1) = SubSeq(r, 1, i - 1)
<1> DEFINE a == Append(r, m)
<1>1. /\ a \in Seq(Match) /\ Len(a) = Len(r) + 1 /\ a[Len(r) + 1] = m
      /\ \A i \in 1 .. Len(r) : a[i] = r[i]
  BY AppendProperties
<1>2. DOMAIN r = 1 .. Len(r) /\ DOMAIN a = 1 .. Len(a) /\ Len(r) \in Nat
  BY <1>1, LenProperties
<1>3. ASSUME NEW n \in 0 .. Len(r) PROVE SubSeq(a, 1, n) = SubSeq(r, 1, n)
  <2>1. /\ SubSeq(a, 1, n) \in Seq(Match) /\ Len(SubSeq(a, 1, n)) = n
        /\ \A i \in 1 .. n : SubSeq(a, 1, n)[i] = a[i]
    BY <1>1, <1>2, <1>3, SubSeqProperties
  <2>2. /\ SubSeq(r, 1, n) \in Seq(Match) /\ Len(SubSeq(r, 1, n)) = n
        /\ \A i \in 1 .. n : SubSeq(r, 1, n)[i] = r[i]
    BY <1>2, <1>3, SubSeqProperties
  <2>3. \A i \in 1 .. n : SubSeq(a, 1, n)[i] = SubSeq(r, 1, n)[i]
    BY <1>1, <1>2, <2>1, <2>2
  <2> QED
    BY <2>1, <2>2, <2>3, SeqEqual
<1>4. SubSeq(a, 1, Len(r)) = r
  BY <1>2, <1>3, SubSeqFull
<1> QED
  BY <1>1, <1>2, <1>3, <1>4

LEMMA ChainStep ==
  ASSUME TypeOK, RatingsAreChains, NEW m \in Match, Abstract!Score(m)
  PROVE  RatingsAreChains'
<1> USE SettlementAssumption
<1>1. SUFFICES ASSUME NEW f \in Fleet
      PROVE  /\ \A i \in DOMAIN rating'[f] :
                  /\ rating'[f][i] \in scored'
                  /\ \E k \in Slot :
                       /\ Player[rating'[f][i]][k] = f
                       /\ before'[rating'[f][i]][k] = SubSeq(rating'[f], 1, i - 1)
             /\ \A n \in scored' :
                  (\E k \in Slot : Player[n][k] = f) =>
                     \E i \in DOMAIN rating'[f] : rating'[f][i] = n
             /\ \A i, j \in DOMAIN rating'[f] : rating'[f][i] = rating'[f][j] => i = j
  BY DEF RatingsAreChains
<1>2. /\ m \notin scored /\ scored' = scored \cup {m}
      /\ \A n \in Match : n # m => before'[n] = before[n]
      /\ \A k \in Slot : before'[m][k] = rating[Player[m][k]]
  BY DEF Abstract!Score, Abstract!Slot, Slot, TypeOK
<1>3. /\ rating[f] \in Seq(Match) /\ scored \subseteq Match
      /\ \A i \in DOMAIN rating[f] : rating[f][i] \in scored /\ rating[f][i] # m
  BY <1>2 DEF TypeOK, RatingsAreChains
<1>4. CASE \E k \in Slot : Player[m][k] = f
  <2> DEFINE r == rating[f]
             a == Append(r, m)
  <2>1. rating'[f] = a
    BY <1>4 DEF Abstract!Score, Abstract!Slot, Slot
  <2>2. /\ DOMAIN a = DOMAIN r \cup {Len(r) + 1} /\ a[Len(r) + 1] = m
        /\ SubSeq(a, 1, Len(r)) = r
        /\ \A i \in DOMAIN r : a[i] = r[i] /\ SubSeq(a, 1, i - 1) = SubSeq(r, 1, i - 1)
    BY <1>3, PrefixesKept
  <2>3. Len(r) + 1 - 1 = Len(r)
    BY <1>3, LenProperties
  <2> HIDE DEF a
  <2>4. ASSUME NEW i \in DOMAIN a
        PROVE  a[i] \in scored' /\ \E k \in Slot : Player[a[i]][k] = f
                                                /\ before'[a[i]][k] = SubSeq(a, 1, i - 1)
    <3>1. CASE i \in DOMAIN r
      <4>1. PICK k \in Slot : Player[r[i]][k] = f /\ before[r[i]][k] = SubSeq(r, 1, i - 1)
        BY <3>1 DEF RatingsAreChains
      <4>2. before'[r[i]] = before[r[i]]
        BY <1>2, <1>3, <3>1
      <4> QED
        BY ZenonT(60), <1>2, <1>3, <2>2, <3>1, <4>1, <4>2
    <3>2. CASE i = Len(r) + 1
      <4>1. PICK k \in Slot : Player[m][k] = f
        BY <1>4
      <4>2. a[i] = m /\ SubSeq(a, 1, i - 1) = r
        BY <2>2, <2>3, <3>2
      <4>3. before'[m][k] = r
        BY <1>2, <4>1
      <4> QED
        BY <1>2, <4>1, <4>2, <4>3
    <3> QED
      BY <2>2, <2>4, <3>1, <3>2
  <2>5. ASSUME NEW n \in scored', \E k \in Slot : Player[n][k] = f
        PROVE  \E i \in DOMAIN a : a[i] = n
    <3>1. CASE n = m
      BY <2>2, <3>1
    <3>2. CASE n # m
      <4>1. PICK i \in DOMAIN r : r[i] = n
        BY <1>2, <2>5, <3>2 DEF RatingsAreChains
      <4> QED
        BY <2>2, <4>1
    <3> QED
      BY <3>1, <3>2
  <2>6. ASSUME NEW i \in DOMAIN a, NEW j \in DOMAIN a, a[i] = a[j] PROVE i = j
    BY <1>3, <2>2, <2>6 DEF RatingsAreChains
  <2> QED
    BY <2>1, <2>4, <2>5, <2>6
<1>5. CASE ~ \E k \in Slot : Player[m][k] = f
  <2>1. rating'[f] = rating[f]
    BY <1>5 DEF Abstract!Score, Abstract!Slot, Slot
  <2>2. ASSUME NEW i \in DOMAIN rating[f]
        PROVE  before'[rating[f][i]] = before[rating[f][i]] /\ rating[f][i] \in scored'
    BY <1>2, <1>3
  <2>3. ASSUME NEW i \in DOMAIN rating[f]
        PROVE  \E k \in Slot : Player[rating[f][i]][k] = f
                            /\ before'[rating[f][i]][k] = SubSeq(rating[f], 1, i - 1)
    <3>1. before'[rating[f][i]] = before[rating[f][i]]
      BY <2>2
    <3> QED
      BY <3>1 DEF RatingsAreChains
  <2>4. ASSUME NEW n \in scored', \E k \in Slot : Player[n][k] = f
        PROVE  \E i \in DOMAIN rating[f] : rating[f][i] = n
    BY <1>2, <1>5, <2>4 DEF RatingsAreChains
  <2>5. \A i, j \in DOMAIN rating[f] : rating[f][i] = rating[f][j] => i = j
    BY DEF RatingsAreChains
  <2> QED
    BY <2>1, <2>2, <2>3, <2>4, <2>5
<1> QED
  BY <1>4, <1>5

\* The events of a fleet form one chain: every event starts from the rating the
\* fleet's previous event left, none is missing and none counts twice.
THEOREM RatingsChain == Spec => []RatingsAreChains
<1>1. Init => RatingsAreChains
  BY DEF Init, RatingsAreChains
<1>2. ASSUME TypeOK, RatingsAreChains, [Abstract!Next]_(Abstract!settlementVars)
      PROVE  RatingsAreChains'
  <2>1. CASE Abstract!Next
    BY <1>2, <2>1, ChainStep DEF Abstract!Next
  <2>2. CASE UNCHANGED Abstract!settlementVars
    BY <1>2, <2>2 DEF Abstract!settlementVars, RatingsAreChains
  <2> QED
    BY <1>2, <2>1, <2>2
<1>3. SettlementInv => TypeOK
  BY DEF SettlementInv
<1> QED
  BY <1>1, <1>2, <1>3, SettlementInvariant, SettlementImplemented, PTL
     DEF Spec, ImplementsSettlement, Abstract!Spec
=============================================================================
