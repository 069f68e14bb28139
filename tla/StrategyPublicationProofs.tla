---------------------- MODULE StrategyPublicationProofs ----------------------
(***************************************************************************)
(* The published package of every version is kept and its verdict stands,  *)
(* for every number of packages, requests and faults, as long as no two    *)
(* requests are busy with one package (and, for the package, no row is     *)
(* saved and reported as refused); whatever overlaps, the current version  *)
(* has passed.                                                             *)
(*                                                                         *)
(* The invariant says that a package that was never fought over has one    *)
(* request at most, and what that request may rely on: there is no row     *)
(* until it saves one, what it uploads stays until then, and the row has   *)
(* the status the request last saw while it validates.                     *)
(*                                                                         *)
(* The second half is about the requests' Idempotency-Key, which every     *)
(* publishing request of the API passes: RequestIdempotencyProps.          *)
(***************************************************************************)
EXTENDS StrategyPublication, RequestIdempotencyProps, TLAPS

\* A request that only makes its package current does not disturb another one.
Busy(q, p) == job[q] = p /\ pc[q] # "select"

Alone ==
  \A p \in Package \ overlapped : \A q, r \in Request : Busy(q, p) /\ Busy(r, p) => q = r

Reliable(q, p) ==
  /\ pc[q] \in {"upload", "save"} => status[p] = "none"
  /\ pc[q] = "compensate" => status[p] = "none" \/ p \in unanswered
  /\ pc[q] = "save" => p \in object
  /\ pc[q] = "claim" => status[p] = seen[q] /\ seen[q] \in {"uploaded", "validating"}
  /\ pc[q] \in {"fetch", "judge"} => status[p] = "validating"

Orderly ==
  \A p \in Package \ overlapped : \A q \in Request : job[q] = p => Reliable(q, p)

Stands ==
  \A p \in Package \ overlapped' :
    status[p] \in {"ready", "rejected"} => status'[p] = status[p]

\* Publication types.  The handlers keep the types of the state and end with no
\* package in hand.
THEOREM PublicationTyped == Spec => []TypeOK
<1>1. Init => TypeOK
  BY PublicationAssumption DEF Init, TypeOK, Status, Pc
<1>2. TypeOK /\ [Next]_vars => TypeOK'
  <2> SUFFICES ASSUME TypeOK, [Next]_vars PROVE TypeOK'
    OBVIOUS
  <2>1. CASE UNCHANGED vars
    BY <2>1 DEF TypeOK, vars, requests, history
  <2>2. CASE Next
    <3> PICK q \in Request :
          \/ \E p \in Package :
               \/ \E from \in {"agent", "lab"} : Publish(q, p, from)
               \/ Choose(q, p)
          \/ Proceed(q) \/ SaveFails(q) \/ SaveUnanswered(q) \/ Fail(q)
      BY <2>2 DEF Next
    <3>1. ASSUME NEW p \in Package, NEW from \in {"agent", "lab"}, Publish(q, p, from)
          PROVE TypeOK'
      BY <3>1, PublicationAssumption DEF Publish, TypeOK, Pc
    <3>2. ASSUME NEW p \in Package, Choose(q, p) PROVE TypeOK'
      BY <3>2, PublicationAssumption DEF Choose, TypeOK, Pc, history
    <3>3. CASE Find(q)
      <4>1. job[q] \in Package /\ status[job[q]] \in Status
        BY <3>3 DEF Find, TypeOK
      <4>2. CASE End(q)
        BY <3>3, <4>2, PublicationAssumption DEF Find, End, TypeOK, Pc, Status, history
      <4>3. CASE ~ End(q)
        <5>1. PICK to \in {"upload", "claim", "select"} : Go(q, "find", to)
          BY <3>3, <4>3 DEF Find
        <5>2. seen' \in [Request -> Status] /\ created' = created
          BY <3>3, <4>1, <4>3 DEF Find, TypeOK
        <5> QED
          BY <3>3, <5>1, <5>2 DEF Find, Go, TypeOK, Pc, history
      <4> QED
        BY <4>2, <4>3
    <3>4. CASE Upload(q)
      BY ZenonT(60), <3>4, PublicationAssumption DEF Upload, Go, TypeOK, Pc, history
    <3>5. CASE Save(q)
      BY <3>5, PublicationAssumption DEF Save, Go, TypeOK, Pc, Status, history
    <3>6. CASE SaveFails(q)
      BY <3>6, PublicationAssumption DEF SaveFails, Go, TypeOK, Pc, history
    <3>7. CASE Compensate(q)
      BY <3>7, PublicationAssumption DEF Compensate, End, TypeOK, Pc, Status, history
    <3>8. CASE Claim(q)
      BY <3>8, PublicationAssumption DEF Claim, Go, TypeOK, Pc, Status, history
    <3>9. CASE Fetch(q)
      <4>1. CASE job[q] \in object
        BY <3>9, <4>1, PublicationAssumption DEF Fetch, Go, TypeOK, Pc, Status, history
      <4>2. CASE job[q] \notin object
        <5>1. End(q) /\ UNCHANGED <<object, status, current, history, faults>>
          BY <3>9, <4>2 DEF Fetch
        <5> QED
          BY <5>1, PublicationAssumption DEF End, TypeOK, Pc, Status, history
      <4> QED
        BY <4>1, <4>2
    <3>10. CASE Judge(q)
      BY <3>10, PublicationAssumption DEF Judge, Go, TypeOK, Pc, Status
    <3>11. CASE Confirm(q)
      <4>1. CASE End(q)
        BY <3>11, <4>1, PublicationAssumption DEF Confirm, End, TypeOK, Pc, Status, history
      <4>2. CASE ~ End(q)
        BY <3>11, <4>2, PublicationAssumption DEF Confirm, Go, TypeOK, Pc, Status, history
      <4> QED
        BY <4>1, <4>2
    <3>12. CASE Select(q)
      BY <3>12, PublicationAssumption DEF Select, End, TypeOK, Pc, Status, history
    <3>13. CASE Fail(q)
      BY <3>13, PublicationAssumption DEF Fail, End, TypeOK, Pc, Status, history
    <3>14. CASE SaveUnanswered(q)
      BY <3>14, PublicationAssumption DEF SaveUnanswered, Go, TypeOK, Pc, Status
    <3> QED
      BY <3>1, <3>2, <3>3, <3>4, <3>5, <3>6, <3>7, <3>8, <3>9, <3>10, <3>11, <3>12, <3>13, <3>14
      DEF Proceed
  <2> QED
    BY <2>1, <2>2
<1> QED
  BY <1>1, <1>2, PTL DEF Spec

\* What a step leaves of the other requests and the other packages, whichever
\* request takes it.
Local(q, p) ==
  /\ \A r \in Request \ {q} :
       pc'[r] = pc[r] /\ job'[r] = job[r] /\ seen'[r] = seen[r]
  /\ \A o \in Package \ {p} :
       status'[o] = status[o] /\ (o \in object' <=> o \in object)

\* Every step is local to one request and its package.
LEMMA StepsAreLocal ==
  ASSUME TypeOK, NEW q \in Request, Proceed(q) \/ SaveFails(q) \/ SaveUnanswered(q) \/ Fail(q)
  PROVE  /\ job[q] \in Package /\ Local(q, job[q])
         /\ overlapped' = overlapped /\ unanswered \subseteq unanswered'
<1>1. CASE Find(q)
  <2>1. job[q] \in Package /\ overlapped' = overlapped /\ unanswered' = unanswered
    BY <1>1 DEF Find, TypeOK, history
  <2>2. CASE End(q)
    BY <1>1, <2>1, <2>2 DEF Find, End, Local, TypeOK
  <2>3. CASE ~ End(q)
    <3>1. PICK to \in {"upload", "claim", "select"} : Go(q, "find", to)
      BY <1>1, <2>3 DEF Find
    <3>2. \A r \in Request \ {q} : seen'[r] = seen[r]
      BY <1>1, <2>3 DEF Find, TypeOK
    <3> QED
      BY <1>1, <2>1, <3>1, <3>2 DEF Find, Go, Local, TypeOK
  <2> QED
    BY <2>2, <2>3
<1>2. CASE Upload(q)
  BY <1>2 DEF Upload, Go, Local, TypeOK, history
<1>3. CASE Save(q)
  BY <1>3 DEF Save, Go, Local, TypeOK, history
<1>4. CASE SaveFails(q)
  BY <1>4 DEF SaveFails, Go, Local, TypeOK, history
<1>5. CASE Compensate(q)
  BY <1>5 DEF Compensate, End, Local, TypeOK, history
<1>6. CASE Claim(q)
  BY <1>6 DEF Claim, Go, Local, TypeOK, history
<1>7. CASE Fetch(q)
  <2>1. CASE job[q] \in object
    BY <1>7, <2>1 DEF Fetch, Go, Local, TypeOK, history
  <2>2. CASE job[q] \notin object
    BY <1>7, <2>2 DEF Fetch, End, Local, TypeOK, history
  <2> QED
    BY <2>1, <2>2
<1>8. CASE Judge(q)
  BY <1>8 DEF Judge, Go, Local, TypeOK
<1>9. CASE Confirm(q)
  <2>1. CASE End(q)
    BY <1>9, <2>1 DEF Confirm, End, Local, TypeOK, history
  <2>2. CASE ~ End(q)
    BY <1>9, <2>2 DEF Confirm, Go, Local, TypeOK, history
  <2> QED
    BY <2>1, <2>2
<1>10. CASE Select(q)
  BY <1>10 DEF Select, End, Local, TypeOK, history
<1>11. CASE Fail(q)
  BY <1>11 DEF Fail, End, Local, TypeOK, history
<1>12. CASE SaveUnanswered(q)
  BY <1>12 DEF SaveUnanswered, Go, Local, TypeOK
<1> QED
  BY <1>1, <1>2, <1>3, <1>4, <1>5, <1>6, <1>7, <1>8, <1>9, <1>10, <1>11, <1>12 DEF Proceed

\* A request keeps its package until it ends.
LEMMA StepsEndOrStay ==
  ASSUME TypeOK, NEW q \in Request, Proceed(q) \/ SaveFails(q) \/ SaveUnanswered(q) \/ Fail(q)
  PROVE  job'[q] \in {job[q], NoPackage}
BY DEF Proceed, Find, Upload, Save, SaveFails, SaveUnanswered, Compensate, Claim, Fetch, Judge, Confirm,
       Select, Fail, Go, End, TypeOK

\* What a step does for its own package.
Own(q, p) ==
  /\ job'[q] \in {p, NoPackage}
  /\ pc[q] = "select" => job'[q] = NoPackage /\ UNCHANGED <<object, status>>
  /\ status'[p] # "none" => p \in object' \/ p \in unanswered'
  /\ status[p] \in {"ready", "rejected"} => status'[p] = status[p]

\* A request that can rely on what it saw keeps the package and the verdict, and
\* can rely on what it sees then.
LEMMA StepsAreReliable ==
  ASSUME TypeOK, NEW q \in Request, NEW p \in Package, job[q] = p, Reliable(q, p),
         status[p] # "none" => p \in object \/ p \in unanswered,
         Proceed(q) \/ SaveFails(q) \/ SaveUnanswered(q) \/ Fail(q)
  PROVE  Own(q, p) /\ (job'[q] = p => Reliable(q, p)')
<1> USE PublicationAssumption
<1>1. CASE Find(q)
  <2>1. CASE End(q)
    BY <1>1, <2>1 DEF Find, End, Reliable, Own, TypeOK, history
  <2>2. CASE ~ End(q)
    BY <1>1, <2>2 DEF Find, Go, Validatable, Reliable, Own, TypeOK, history
  <2> QED
    BY <2>1, <2>2
<1>2. CASE Upload(q)
  BY <1>2 DEF Upload, Go, Reliable, Own, TypeOK, history
<1>3. CASE Save(q)
  BY <1>3 DEF Save, Go, Reliable, Own, TypeOK, history
<1>4. CASE SaveFails(q)
  BY <1>4 DEF SaveFails, Go, Reliable, Own, TypeOK, history
<1>5. CASE Compensate(q)
  BY <1>5 DEF Compensate, End, Reliable, Own, TypeOK, history
<1>6. CASE Claim(q)
  BY <1>6 DEF Claim, Go, Reliable, Own, TypeOK, history
<1>7. CASE Fetch(q)
  BY <1>7 DEF Fetch, Go, End, Reliable, Own, TypeOK, history
<1>8. CASE Judge(q)
  BY <1>8 DEF Judge, Go, Reliable, Own, TypeOK, history
<1>9. CASE Confirm(q)
  <2>1. CASE End(q)
    BY <1>9, <2>1 DEF Confirm, End, Reliable, Own, TypeOK, history
  <2>2. CASE ~ End(q)
    BY <1>9, <2>2 DEF Confirm, Go, Reliable, Own, TypeOK, history
  <2> QED
    BY <2>1, <2>2
<1>10. CASE Select(q)
  BY <1>10 DEF Select, End, Reliable, Own, TypeOK, history
<1>11. CASE Fail(q)
  BY <1>11 DEF Fail, End, Reliable, Own, TypeOK, history
<1>12. CASE SaveUnanswered(q)
  BY <1>12 DEF SaveUnanswered, Go, Reliable, Own, TypeOK, history
<1> QED
  BY <1>1, <1>2, <1>3, <1>4, <1>5, <1>6, <1>7, <1>8, <1>9, <1>10, <1>11, <1>12 DEF Proceed

LEMMA StepsKeepInv ==
  ASSUME TypeOK, Alone, Orderly, PackageKept, [Next]_vars
  PROVE  Alone' /\ Orderly' /\ PackageKept' /\ Stands
<1> USE PublicationAssumption
<1>1. CASE UNCHANGED vars
  BY <1>1 DEF Alone, Busy, Orderly, Reliable, PackageKept, Stands, vars, requests, history
<1>2. CASE Next
  <2> PICK q \in Request :
        \/ \E p \in Package :
             \/ \E from \in {"agent", "lab"} : Publish(q, p, from)
             \/ Choose(q, p)
        \/ Proceed(q) \/ SaveFails(q) \/ SaveUnanswered(q) \/ Fail(q)
    BY <1>2 DEF Next
  <2>1. ASSUME NEW p \in Package, NEW from \in {"agent", "lab"}, Publish(q, p, from)
        PROVE  Alone' /\ Orderly' /\ PackageKept' /\ Stands
    <3>1. /\ pc[q] = "idle" /\ pc'[q] = "find" /\ job'[q] = p
          /\ \A r \in Request \ {q} : pc'[r] = pc[r] /\ job'[r] = job[r]
          /\ UNCHANGED <<object, status, unanswered, seen>>
          /\ overlapped \subseteq overlapped'
          /\ p \notin overlapped' => \A r \in Request : job[r] # p
      BY <2>1 DEF Publish, TypeOK
    <3>2. Alone'
      BY <3>1 DEF Alone, Busy
    <3>3. Orderly'
      BY <3>1 DEF Orderly, Reliable
    <3> QED
      BY <3>1, <3>2, <3>3 DEF PackageKept, Stands
  <2>2. ASSUME NEW p \in Package, Choose(q, p)
        PROVE  Alone' /\ Orderly' /\ PackageKept' /\ Stands
    <3>1. /\ pc'[q] = "select"
          /\ \A r \in Request \ {q} : pc'[r] = pc[r] /\ job'[r] = job[r]
          /\ UNCHANGED <<object, status, unanswered, seen, overlapped>>
      BY <2>2 DEF Choose, TypeOK, history
    <3>2. Alone'
      BY <3>1 DEF Alone, Busy
    <3>3. Orderly'
      BY <3>1 DEF Orderly, Reliable
    <3> QED
      BY <3>1, <3>2, <3>3 DEF PackageKept, Stands
  <2>3. ASSUME Proceed(q) \/ SaveFails(q) \/ SaveUnanswered(q) \/ Fail(q)
        PROVE  Alone' /\ Orderly' /\ PackageKept' /\ Stands
    <3>1. PICK p \in Package :
            /\ job[q] = p /\ Local(q, p)
            /\ overlapped' = overlapped /\ unanswered \subseteq unanswered'
      BY <2>3, StepsAreLocal
    <3>2. ASSUME p \notin overlapped
          PROVE  Own(q, p) /\ (job'[q] = p => Reliable(q, p)')
      BY <2>3, <3>1, <3>2, StepsAreReliable DEF Orderly, PackageKept
    <3>3. Alone'
      <4> SUFFICES ASSUME NEW o \in Package \ overlapped', NEW a \in Request, NEW b \in Request,
                          Busy(a, o)', Busy(b, o)'
                   PROVE  a = b
        BY DEF Alone
      <4>1. ASSUME NEW r \in Request, Busy(r, o)' PROVE Busy(r, o)
        <5>1. CASE r # q
          BY <4>1, <5>1, <3>1 DEF Busy, Local
        <5>2. CASE r = q /\ o = p
          BY <4>1, <5>2, <3>1, <3>2 DEF Busy, Own
        <5>3. CASE r = q /\ o # p
          <6>1. job'[q] \in {p, NoPackage}
            BY <2>3, <3>1, StepsEndOrStay
          <6> QED
            BY <4>1, <5>3, <6>1 DEF Busy
        <5> QED
          BY <5>1, <5>2, <5>3
      <4> QED
        BY <4>1, <3>1 DEF Alone
    <3>4. Orderly'
      <4> SUFFICES ASSUME NEW o \in Package \ overlapped', NEW r \in Request, job'[r] = o
                   PROVE  Reliable(r, o)'
        BY DEF Orderly
      <4>1. CASE r = q /\ o = p
        BY <4>1, <3>1, <3>2
      <4>2. CASE r = q /\ o # p
        <5>1. job'[q] \in {p, NoPackage}
          BY <2>3, <3>1, StepsEndOrStay
        <5> QED
          BY <4>2, <5>1
      <4>3. CASE r # q /\ o # p
        BY <4>3, <3>1 DEF Local, Orderly, Reliable
      <4>4. CASE r # q /\ o = p /\ pc[r] = "select"
        BY <4>4, <3>1 DEF Local, Reliable
      <4>5. CASE r # q /\ o = p /\ pc[r] # "select"
        <5>1. pc[q] = "select"
          BY <4>5, <3>1 DEF Alone, Busy, Local
        <5>2. UNCHANGED <<object, status>>
          BY <5>1, <4>5, <3>1, <3>2 DEF Own
        <5> QED
          BY <5>2, <4>5, <3>1 DEF Local, Orderly, Reliable
      <4> QED
        BY <4>1, <4>2, <4>3, <4>4, <4>5
    <3>5. PackageKept'
      BY <3>1, <3>2 DEF PackageKept, Local, Own
    <3>6. Stands
      BY <3>1, <3>2 DEF Stands, Local, Own
    <3> QED
      BY <3>3, <3>4, <3>5, <3>6
  <2> QED
    BY <2>1, <2>2, <2>3
<1> QED
  BY <1>1, <1>2

\* No lost package.  Whatever fails while a version is published, and published
\* again, its package stays in storage, unless two requests overlap on it or the
\* acknowledgement of its row is lost.
THEOREM PackagesAreKept == Spec => []PackageKept
<1>1. Init => Alone /\ Orderly /\ PackageKept
  BY PublicationAssumption DEF Init, Alone, Busy, Orderly, Reliable, PackageKept
<1>2. TypeOK /\ Alone /\ Orderly /\ PackageKept /\ [Next]_vars
        => (Alone /\ Orderly /\ PackageKept)'
  BY StepsKeepInv
<1> QED
  BY <1>1, <1>2, PublicationTyped, PTL DEF Spec

\* One way only.  A version that was judged keeps its verdict, unless two requests
\* overlap on its package.
THEOREM VerdictsStand == Spec => VerdictStands
<1>1. Init => Alone /\ Orderly /\ PackageKept
  BY PublicationAssumption DEF Init, Alone, Busy, Orderly, Reliable, PackageKept
<1>2. TypeOK /\ Alone /\ Orderly /\ PackageKept /\ [Next]_vars
        => (Alone /\ Orderly /\ PackageKept)' /\ [Stands]_vars
  BY StepsKeepInv
<1>3. Stands <=> \A p \in Package \ overlapped' :
                   status[p] \in {"ready", "rejected"} => status'[p] = status[p]
  BY DEF Stands
<1> QED
  BY <1>1, <1>2, <1>3, PublicationTyped, PTL DEF Spec, VerdictStands, Stands

\* What a request is about to confirm or to make current has passed, and so has
\* every version that is ready.
Passing ==
  /\ CurrentPassed
  /\ \A p \in Package : status[p] = "ready" => p \in passed
  /\ \A q \in Request : pc[q] = "select" => job[q] \in passed

\* Only passed versions fight.  However requests overlap and fail, the current
\* version of the fleet is one that has passed a validation.
THEOREM CurrentHasPassed == Spec => []CurrentPassed
<1> USE PublicationAssumption
<1>1. Init => Passing
  BY DEF Init, Passing, CurrentPassed
<1>2. TypeOK /\ Passing /\ [Next]_vars => Passing'
  <2> SUFFICES ASSUME TypeOK, Passing, [Next]_vars PROVE Passing'
    OBVIOUS
  <2>1. CASE UNCHANGED vars
    BY <2>1 DEF Passing, CurrentPassed, vars, requests, history
  <2>2. CASE Next
    <3> PICK q \in Request :
          \/ \E p \in Package :
               \/ \E from \in {"agent", "lab"} : Publish(q, p, from)
               \/ Choose(q, p)
          \/ Proceed(q) \/ SaveFails(q) \/ SaveUnanswered(q) \/ Fail(q)
      BY <2>2 DEF Next
    <3>1. ASSUME NEW p \in Package, NEW from \in {"agent", "lab"}, Publish(q, p, from)
          PROVE Passing'
      BY <3>1 DEF Publish, Passing, CurrentPassed, TypeOK
    <3>2. ASSUME NEW p \in Package, Choose(q, p) PROVE Passing'
      BY <3>2 DEF Choose, Passing, CurrentPassed, TypeOK, history
    <3>3. CASE Find(q)
      <4>1. CASE End(q)
        BY <3>3, <4>1 DEF Find, End, Passing, CurrentPassed, TypeOK, history
      <4>2. CASE ~ End(q)
        BY <3>3, <4>2 DEF Find, Go, Passing, CurrentPassed, TypeOK, history
      <4> QED
        BY <4>1, <4>2
    <3>4. CASE Upload(q)
      BY <3>4 DEF Upload, Go, Passing, CurrentPassed, TypeOK, history
    <3>5. CASE Save(q)
      BY <3>5 DEF Save, Go, Passing, CurrentPassed, TypeOK, history
    <3>6. CASE SaveFails(q)
      BY <3>6 DEF SaveFails, Go, Passing, CurrentPassed, TypeOK, history
    <3>7. CASE Compensate(q)
      BY <3>7 DEF Compensate, End, Passing, CurrentPassed, TypeOK, history
    <3>8. CASE Claim(q)
      BY <3>8 DEF Claim, Go, Passing, CurrentPassed, TypeOK, history
    <3>9. CASE Fetch(q)
      <4>1. CASE End(q)
        BY <3>9, <4>1 DEF Fetch, End, Passing, CurrentPassed, TypeOK, history
      <4>2. CASE ~ End(q)
        BY <3>9, <4>2 DEF Fetch, Go, Passing, CurrentPassed, TypeOK, history
      <4> QED
        BY <4>1, <4>2
    <3>10. CASE Judge(q)
      BY <3>10 DEF Judge, Go, Passing, CurrentPassed, TypeOK
    <3>11. CASE Confirm(q)
      <4>1. CASE End(q)
        BY <3>11, <4>1 DEF Confirm, End, Passing, CurrentPassed, TypeOK, history
      <4>2. CASE ~ End(q)
        BY <3>11, <4>2 DEF Confirm, Go, Passing, CurrentPassed, TypeOK, history
      <4> QED
        BY <4>1, <4>2
    <3>12. CASE Select(q)
      BY <3>12 DEF Select, End, Passing, CurrentPassed, TypeOK, history
    <3>13. CASE Fail(q)
      BY <3>13 DEF Fail, End, Passing, CurrentPassed, TypeOK, history
    <3>14. CASE SaveUnanswered(q)
      BY <3>14 DEF SaveUnanswered, Go, Passing, CurrentPassed, TypeOK
    <3> QED
      BY <3>1, <3>2, <3>3, <3>4, <3>5, <3>6, <3>7, <3>8, <3>9, <3>10, <3>11, <3>12, <3>13, <3>14
      DEF Proceed
  <2> QED
    BY <2>1, <2>2
<1> QED
  BY <1>1, <1>2, PublicationTyped, PTL DEF Spec, Passing

-----------------------------------------------------------------------------
(* Every publishing request comes through the Idempotency-Key middleware:   *)
(* what the row of its key guarantees, for every number of attempts, bodies *)
(* and deaths.                                                              *)

\* The row belongs to the attempt that executes, keeps the response that everyone
\* was answered with, and stands for every change whose attempt left its response.
RowInv ==
  \A q \in Attempt :
    /\ at[q] \in Keys!Holding => owner = q /\ ~ saved
    /\ at[q] = "answered" => saved /\ answer[q] = owner /\ body[q] = body[owner]
    /\ q \in effects => at[q] \in Keys!Unkept \/ owner = q

IdempotencyInv == Keys!TypeOK /\ RowInv

LEMMA KeysInit == Keys!Init => IdempotencyInv
<1>1. Keys!Init => Keys!TypeOK
  <2>1. Keys!Init => saved \in BOOLEAN /\ (saved => owner # NoAttempt)
    BY Zenon DEF Keys!Init
  <2> QED
    BY <2>1 DEF Keys!Init, Keys!TypeOK, Keys!Pc
<1>2. Keys!Init => RowInv
  BY DEF Keys!Init, RowInv, Keys!Holding, Keys!Unkept
<1> QED
  BY <1>1, <1>2 DEF IdempotencyInv

LEMMA KeysStep ==
  ASSUME IdempotencyInv, [Keys!Next]_(Keys!vars)
  PROVE  IdempotencyInv'
<1> USE IdempotencyAssumption DEF IdempotencyInv, Keys!Pc, Keys!Holding, Keys!Ended, Keys!Unkept, Keys!Go
<1>1. CASE UNCHANGED Keys!vars
  BY <1>1 DEF Keys!TypeOK, RowInv, Keys!vars
<1>2. ASSUME NEW q \in Attempt, Keys!Arrive(q) PROVE IdempotencyInv'
  BY <1>2 DEF Keys!Arrive, Keys!TypeOK, RowInv
<1>3. ASSUME NEW q \in Attempt, Keys!Lookup(q) PROVE IdempotencyInv'
  <2>1. CASE owner # NoAttempt /\ saved /\ body[owner] = body[q] /\ Keys!Replay(q)
    BY <1>3, <2>1 DEF Keys!Lookup, Keys!Replay, Keys!TypeOK, RowInv
  <2>2. CASE ~ Keys!Replay(q)
    <3>1. PICK to \in {"insert", "refused"} : Keys!Go(q, "check", to)
      BY <1>3, <2>2 DEF Keys!Lookup
    <3>2. UNCHANGED <<body, owner, saved, answer, effects, deaths>>
      BY <1>3, <2>2 DEF Keys!Lookup
    <3> QED
      BY <3>1, <3>2 DEF Keys!TypeOK, RowInv
  <2>3. CASE Keys!Replay(q) /\ ~ (owner # NoAttempt /\ saved /\ body[owner] = body[q])
    BY <1>3, <2>3 DEF Keys!Lookup, Keys!Replay, Keys!TypeOK
  <2> QED
    BY <2>1, <2>2, <2>3
<1>4. ASSUME NEW q \in Attempt, Keys!Insert(q) PROVE IdempotencyInv'
  <2>1. CASE owner = NoAttempt
    BY <1>4, <2>1 DEF Keys!Insert, Keys!TypeOK, RowInv
  <2>2. CASE owner # NoAttempt
    BY <1>4, <2>2 DEF Keys!Insert, Keys!TypeOK, RowInv
  <2> QED
    BY <2>1, <2>2
<1>5. ASSUME NEW q \in Attempt, Keys!Execute(q) PROVE IdempotencyInv'
  <2>1. effects' = effects \/ effects' = effects \cup {q}
    BY <1>5 DEF Keys!Execute
  <2> QED
    BY <1>5, <2>1 DEF Keys!Execute, Keys!TypeOK, RowInv
<1>6. ASSUME NEW q \in Attempt, Keys!Save(q) PROVE IdempotencyInv'
  BY <1>6 DEF Keys!Save, Keys!TypeOK, RowInv
<1>7. ASSUME NEW q \in Attempt, Keys!Release(q) PROVE IdempotencyInv'
  BY <1>7 DEF Keys!Release, Keys!TypeOK, RowInv
<1>8. ASSUME NEW q \in Attempt, Keys!Die(q) PROVE IdempotencyInv'
  BY <1>8 DEF Keys!Die, Keys!TypeOK, RowInv
<1> QED
  BY <1>1, <1>2, <1>3, <1>4, <1>5, <1>6, <1>7, <1>8 DEF Keys!Next, Keys!Dispatch

LEMMA IdempotencyInvariant == KeysSpec => []IdempotencyInv
<1>1. IdempotencyInv /\ [Keys!Next]_(Keys!vars) => IdempotencyInv'
  BY KeysStep
<1> QED
  BY <1>1, KeysInit, PTL DEF KeysSpec, Keys!Spec

\* Idempotency types.  The row and the attempts have their types, and a saved
\* response has a row.
THEOREM IdempotencyTyped == KeysSpec => []KeysTypeOK
<1>1. IdempotencyInv => KeysTypeOK
  BY DEF IdempotencyInv, KeysTypeOK
<1> QED
  BY <1>1, IdempotencyInvariant, PTL

\* Mutual exclusion.  No two attempts of a key execute at the same time.
THEOREM AttemptsExclude == KeysSpec => []OneAtATime
<1>1. IdempotencyInv => OneAtATime
  BY DEF IdempotencyInv, RowInv, OneAtATime
<1> QED
  BY <1>1, IdempotencyInvariant, PTL

\* One response.  All attempts that are answered get the response of one attempt
\* that asked for the same thing.
THEOREM ResponseIsUnique == KeysSpec => []OneResponse
<1>1. IdempotencyInv => OneResponse
  BY IdempotencyAssumption DEF IdempotencyInv, Keys!TypeOK, RowInv, OneResponse
<1> QED
  BY <1>1, IdempotencyInvariant, PTL

\* No silent repetition.  Of two attempts that made the change one was reported as
\* failed or answered without a body.
THEOREM ChangesOnce == KeysSpec => []ChangedOnce
<1>1. IdempotencyInv => ChangedOnce
  BY DEF IdempotencyInv, Keys!TypeOK, RowInv, ChangedOnce, Keys!Unkept
<1> QED
  BY <1>1, IdempotencyInvariant, PTL
=============================================================================
