------------------------- MODULE StrategyLabProofs -------------------------
(***************************************************************************)
(* What the strategy lab guarantees for every number of requests, contents *)
(* and keys, and for every price of an answer.                             *)
(***************************************************************************)
EXTENDS StrategyLab, FiniteSetTheorems, TLAPS

Requests == [at : At, row : Draft, content : Content, key : Key \cup {None},
             cost : Cost \cup {0}, credits : Nat]

Waiting == {q \in Request : req[q].at = "answer"}

\* A request that waits for an answer has a reservation, can pay for it, and has read
\* an account from which nothing but answered requests was taken.
AssistInv ==
  /\ Cardinality(Waiting) <= reserved
  /\ \A q \in Request :
       req[q].at \in {"limits", "reserve", "answer"} =>
         /\ req[q].cost <= req[q].credits
         /\ Granted <= req[q].credits + spent
  /\ Granted <= credits + spent

\* The request that created a simulation is the only one to queue it, and does so
\* before it can finish.
SimulateInv ==
  \A q \in Request :
    /\ req[q].at \in {"validate", "create", "attach", "reattach", "enqueue"} => req[q].key \in Key
    /\ req[q].at \in {"attach", "enqueue"} =>
         /\ sims[req[q].key].status = "created"
         /\ \A r \in Request \ {q} :
              req[r].at \in {"attach", "enqueue"} => req[r].key # req[q].key

Simulated(c) == \E k \in Key : sims[k] = [candidate |-> c, status |-> "finished"]

PublishInv == \A q \in Request : req[q].at = "publish" => Simulated(req[q].content)

LabInv == TypeOK /\ AssistInv /\ SimulateInv /\ PublishInv /\ PublishedWasSimulated

LEMMA NewRequestTyped == NewDraft \in Draft /\ NewRequest \in Requests
<1>1. NewDraft \in Draft
  BY StrategyLabAssumption DEF NewDraft, Draft
<1> QED
  BY <1>1, StrategyLabAssumption DEF NewRequest, Requests, At

\* What a session writes back has its type, whatever others wrote in the meantime.
LEMMA FlushedTyped ==
  ASSUME draft \in Draft, NEW read \in Draft, NEW write \in Draft
  PROVE  Flushed(read, write) \in Draft
BY DEF Draft, Flushed

LEMMA InvInit == Init => LabInv
<1> SUFFICES ASSUME Init PROVE LabInv
  OBVIOUS
<1>1. \A q \in Request : req[q].at = "new"
  BY DEF Init, NewRequest
<1>2. TypeOK
  BY NewRequestTyped, StrategyLabAssumption DEF Init, TypeOK, Sim, Requests
<1>3. AssistInv
  <2>1. Waiting = {}
    BY <1>1 DEF Waiting
  <2>2. Cardinality(Waiting) = 0
    BY <2>1, FS_EmptySet
  <2> QED
    BY <1>1, <2>2, StrategyLabAssumption DEF AssistInv, Init
<1>4. SimulateInv /\ PublishInv /\ PublishedWasSimulated
  BY <1>1 DEF SimulateInv, PublishInv, PublishedWasSimulated, Init
<1> QED
  BY <1>2, <1>3, <1>4 DEF LabInv

Others(q) == \A r \in Request \ {q} : req'[r] = req[r]

\* A finished simulation stays.
SimsKeep == \A k \in Key : sims[k].status = "finished" => sims'[k] = sims[k]

LEMMA WaitingIsFinite ==
  ASSUME NEW S, S \subseteq Waiting
  PROVE  /\ IsFiniteSet(Waiting) /\ Cardinality(Waiting) \in Nat
         /\ IsFiniteSet(S) /\ Cardinality(S) \in Nat
         /\ Cardinality(S) <= Cardinality(Waiting)
<1>1. IsFiniteSet(Waiting)
  BY StrategyLabAssumption, FS_Subset DEF Waiting
<1> QED
  BY <1>1, FS_Subset, FS_CardinalityType

\* A request that does not ask the AI, or asks no more, does not disturb those that do.
LEMMA AssistIdle ==
  ASSUME LabInv, NEW q \in Request, AiIdle, Others(q),
         req'[q].at \notin {"limits", "reserve", "answer"}
  PROVE  AssistInv'
<1>1. Waiting' \subseteq Waiting
  BY DEF Waiting, Others
<1>2. Cardinality(Waiting') <= Cardinality(Waiting) /\ Cardinality(Waiting) \in Nat
      /\ Cardinality(Waiting') \in Nat
  BY <1>1, WaitingIsFinite
<1>3. Cardinality(Waiting)' = Cardinality(Waiting')
  OBVIOUS
<1> QED
  BY <1>2, <1>3 DEF LabInv, TypeOK, AssistInv, AiIdle, Others

LEMMA SimulatedStays ==
  ASSUME SimsKeep, NEW c, Simulated(c)
  PROVE  Simulated(c)'
BY DEF Simulated, SimsKeep

\* A request that does not simulate or publish, or does so no more, does not disturb
\* those that do.
LEMMA SimulateIdle ==
  ASSUME LabInv, NEW q \in Request, Others(q), UNCHANGED <<sims, published>>,
         req'[q].at \notin {"validate", "create", "attach", "reattach", "enqueue", "publish"}
  PROVE  SimulateInv' /\ PublishInv' /\ PublishedWasSimulated'
<1>1. SimulateInv'
  BY DEF LabInv, SimulateInv, Others
<1>2. PublishInv'
  BY DEF LabInv, PublishInv, Simulated, Others
<1> QED
  BY <1>1, <1>2 DEF LabInv, PublishedWasSimulated

LEMMA ReqTyped == TypeOK => req \in [Request -> Requests]
BY DEF TypeOK, Requests

\* A request that ends.
LEMMA DoneStep ==
  ASSUME LabInv, NEW q \in Request, Done(q), UNCHANGED <<sims, published>>
  PROVE  /\ req' \in [Request -> Requests] /\ Others(q)
         /\ SimulateInv' /\ PublishInv' /\ PublishedWasSimulated'
         /\ AiIdle => AssistInv'
<1>1. req \in [Request -> Requests]
  BY ReqTyped DEF LabInv
<1>2. Others(q) /\ req'[q].at = "done"
  BY <1>1, NewRequestTyped DEF Done, Others, NewRequest
<1>3. req' \in [Request -> Requests]
  BY <1>1, NewRequestTyped DEF Done, NewRequest, Requests, At
<1> QED
  BY <1>2, <1>3, SimulateIdle, AssistIdle

\* Saving, and what only reads or only ends a request.
LEMMA SaveSteps ==
  ASSUME LabInv, NEW q \in Request,
         (\E c \in Content : LoadSave(q, c)) \/ Save(q) \/ ValidationFails(q)
           \/ LoadPublish(q) \/ Die(q)
  PROVE  LabInv'
<1>1. req \in [Request -> Requests] /\ draft \in Draft /\ TypeOK
  BY ReqTyped DEF LabInv, TypeOK
<1>2. UNCHANGED <<sims, published>> /\ AiIdle
  BY DEF LoadSave, Save, ValidationFails, LoadPublish, Die
<1>3. ASSUME NEW at \in {"save", "check"}, NEW c \in Content, UNCHANGED draft,
             req' = [req EXCEPT ![q].at = at, ![q].row = draft, ![q].content = c]
      PROVE  LabInv'
  <2>1. Others(q) /\ req'[q].at = at
    BY <1>1, <1>3 DEF Others, Requests
  <2>2. req' \in [Request -> Requests]
    <3>1. at \in At
      BY DEF At
    <3>2. [req[q] EXCEPT !.at = at, !.row = draft, !.content = c] \in Requests
      BY <1>1, <3>1 DEF Requests
    <3>3. req' = [req EXCEPT ![q] = [req[q] EXCEPT !.at = at, !.row = draft, !.content = c]]
      BY <1>1, <1>3
    <3> QED
      BY <1>1, <3>2, <3>3
  <2>3. TypeOK'
    BY <1>1, <1>2, <1>3, <2>2 DEF TypeOK, Requests, AiIdle
  <2> QED
    BY <1>2, <2>1, <2>3, SimulateIdle, AssistIdle DEF LabInv
<1>4. ASSUME Done(q), draft' \in Draft PROVE LabInv'
  <2>1. req' \in [Request -> Requests]
    BY <1>2, <1>4, DoneStep
  <2>2. TypeOK'
    BY <1>1, <1>2, <1>4, <2>1 DEF TypeOK, Requests, AiIdle
  <2> QED
    BY <1>2, <1>4, <2>2, DoneStep DEF LabInv
<1>5. ASSUME NEW c \in Content, LoadSave(q, c) PROVE LabInv'
  BY <1>3, <1>5 DEF LoadSave
<1>6. CASE Save(q)
  <2> DEFINE row == req[q].row
             write == [revision |-> row.revision + 1, source |-> req[q].content,
                       validated |-> None, sim |-> None, simRevision |-> 0]
  <2>1. row \in Draft /\ write \in Draft
    BY <1>1 DEF Requests, Draft
  <2>2. draft' = Flushed(row, write) /\ Done(q)
    BY <1>6 DEF Save
  <2> QED
    BY <1>1, <1>4, <2>1, <2>2, FlushedTyped
<1>7. CASE ValidationFails(q) \/ Die(q)
  BY <1>1, <1>4, <1>7 DEF ValidationFails, Die
<1>8. CASE LoadPublish(q)
  <2>1. req' = [req EXCEPT ![q].at = "check", ![q].row = draft, ![q].content = req[q].content]
    BY <1>1, <1>8 DEF LoadPublish, Requests
  <2>2. req[q].content \in Content /\ UNCHANGED draft
    BY <1>1, <1>8 DEF Requests, LoadPublish
  <2> QED
    BY <1>3, <2>1, <2>2
<1> QED
  BY <1>5, <1>6, <1>7, <1>8

LEMMA PublishIdle ==
  ASSUME LabInv, SimsKeep, UNCHANGED published,
         \A r \in Request : req'[r].at = "publish" => req'[r] = req[r]
  PROVE  PublishInv' /\ PublishedWasSimulated'
<1>1. PublishInv'
  BY SimulatedStays DEF LabInv, PublishInv
<1>2. \A c \in published : Simulated(c)
  BY DEF LabInv, PublishedWasSimulated, Simulated
<1>3. \A c \in published' : Simulated(c)'
  BY <1>2, SimulatedStays
<1> QED
  BY <1>1, <1>3 DEF PublishedWasSimulated, Simulated

\* A request goes on with its simulation; the draft may change.
LEMMA SimulateSteps ==
  ASSUME LabInv, NEW q \in Request,
         (\E k \in Key : LoadSimulate(q, k)) \/ MarkValidated(q) \/ AttachSimulation(q)
  PROVE  LabInv'
<1>1. req \in [Request -> Requests] /\ draft \in Draft /\ TypeOK
  BY ReqTyped DEF LabInv, TypeOK
<1>2. UNCHANGED <<sims, published>> /\ AiIdle /\ SimsKeep
  BY DEF LoadSimulate, MarkValidated, AttachSimulation, SimsKeep
<1>3. ASSUME NEW to \in Requests, req' = [req EXCEPT ![q] = to], draft' \in Draft,
             to.at \in {"validate", "create", "enqueue"}, to.key \in Key,
             to.at = "enqueue" => req[q].at = "attach" /\ to.key = req[q].key
      PROVE  LabInv'
  <2>1. Others(q) /\ req'[q] = to /\ req' \in [Request -> Requests]
    BY <1>1, <1>3 DEF Others
  <2>2. TypeOK'
    BY <1>1, <1>2, <1>3, <2>1 DEF TypeOK, Requests, AiIdle
  <2>3. AssistInv'
    BY <1>2, <1>3, <2>1, AssistIdle
  <2>4. SimulateInv'
    <3>1. SimulateInv
      BY DEF LabInv
    <3>2. sims' = sims /\ \A r \in Request \ {q} : req'[r] = req[r]
      BY <1>2, <2>1 DEF Others
    <3>3. req'[q].at # "attach" /\ req'[q].key \in Key
      BY <1>3, <2>1
    <3>4. req'[q].at = "enqueue" => req[q].at = "attach" /\ req'[q].key = req[q].key
      BY <1>3, <2>1
    <3> QED
      BY <3>1, <3>2, <3>3, <3>4 DEF SimulateInv
  <2>5. PublishInv' /\ PublishedWasSimulated'
    BY <1>2, <1>3, <2>1, PublishIdle DEF Others
  <2> QED
    BY <2>2, <2>3, <2>4, <2>5 DEF LabInv
<1>4. ASSUME NEW k \in Key, LoadSimulate(q, k) PROVE LabInv'
  <2> DEFINE to == [req[q] EXCEPT !.at = "validate", !.row = draft,
                                  !.content = draft.source, !.key = k]
  <2>1. to \in Requests /\ to.at = "validate" /\ to.key = k
    BY ZenonT(60), <1>1 DEF Requests, At, Draft
  <2>2. req' = [req EXCEPT ![q] = to] /\ draft' \in Draft
    BY <1>1, <1>4 DEF LoadSimulate
  <2> HIDE DEF to
  <2> QED
    BY <1>3, <2>1, <2>2
<1>5. CASE MarkValidated(q)
  <2> DEFINE to == [req[q] EXCEPT !.at = "create"]
             write == [req[q].row EXCEPT !.validated = req[q].content]
  <2>1. to \in Requests /\ to.at = "create" /\ to.key = req[q].key
    BY <1>1 DEF Requests, At
  <2>2. req[q].key \in Key
    BY <1>5 DEF MarkValidated, LabInv, SimulateInv
  <2>3. req[q].row \in Draft /\ write \in Draft
    BY <1>1 DEF Requests, Draft
  <2>4. req' = [req EXCEPT ![q] = to] /\ draft' = Flushed(req[q].row, write)
    BY <1>1, <1>5 DEF MarkValidated, Goes
  <2>5. draft' \in Draft
    BY <1>1, <2>3, <2>4, FlushedTyped
  <2> HIDE DEF to
  <2> QED
    BY <1>3, <2>1, <2>2, <2>4, <2>5
<1>6. CASE AttachSimulation(q)
  <2> DEFINE row == req[q].row
             write == [row EXCEPT !.sim = req[q].key, !.simRevision = row.revision]
             to == [req[q] EXCEPT !.at = "enqueue"]
  <2>1. req[q].key \in Key
    BY <1>6 DEF AttachSimulation, LabInv, SimulateInv
  <2>2. row \in Draft /\ write \in Draft
    BY <1>1, <2>1 DEF Requests, Draft
  <2>3. draft' = Flushed(row, write)
    BY <1>6 DEF AttachSimulation
  <2>4. draft' \in Draft
    BY <1>1, <2>2, <2>3, FlushedTyped
  <2>5. CASE req[q].at = "attach"
    <3>1. req' = [req EXCEPT ![q] = to]
      BY <1>1, <1>6, <2>5 DEF AttachSimulation, Goes
    <3>2. to \in Requests /\ to.at = "enqueue" /\ to.key = req[q].key
      BY <1>1 DEF Requests, At
    <3> HIDE DEF to
    <3> QED
      BY <1>3, <2>1, <2>4, <2>5, <3>1, <3>2
  <2>6. CASE req[q].at # "attach"
    <3>1. Done(q)
      BY <1>6, <2>6 DEF AttachSimulation
    <3>2. req' \in [Request -> Requests]
      BY <1>2, <3>1, DoneStep
    <3>3. TypeOK'
      BY <1>1, <1>2, <2>4, <3>2 DEF TypeOK, Requests, AiIdle
    <3> QED
      BY <1>2, <3>1, <3>3, DoneStep DEF LabInv
  <2> QED
    BY <2>5, <2>6
<1> QED
  BY <1>4, <1>5, <1>6

\* A simulation is created or queued by its request, or ended by the worker.
LEMMA SimsTyped ==
  ASSUME sims \in [Key -> Sim], NEW k \in Key, NEW to \in Sim
  PROVE  [sims EXCEPT ![k] = to] \in [Key -> Sim]
OBVIOUS

LEMMA CreateStep ==
  ASSUME LabInv, NEW q \in Request, CreateSimulation(q)
  PROVE  LabInv'
<1> DEFINE k == req[q].key
           created == [candidate |-> req[q].content, status |-> "created"]
<1>1. req \in [Request -> Requests] /\ draft \in Draft /\ TypeOK
  BY ReqTyped DEF LabInv, TypeOK
<1>2. UNCHANGED <<draft, published>> /\ AiIdle /\ req[q].at = "create" /\ k \in Key
  BY DEF CreateSimulation, LabInv, SimulateInv
<1>3. created \in Sim
  BY <1>1 DEF Requests, Sim
<1>4. /\ sims[k] = NoSim => sims' = [sims EXCEPT ![k] = created]
      /\ sims[k] # NoSim => sims' = sims
  BY DEF CreateSimulation
<1>5. sims' \in [Key -> Sim] /\ SimsKeep
  BY <1>1, <1>2, <1>3, <1>4, SimsTyped DEF TypeOK, SimsKeep, NoSim
<1>6. \A r \in Request : req[r].at \in {"attach", "enqueue"} =>
                           req[r].key \in Key /\ sims'[req[r].key] = sims[req[r].key]
  BY <1>1, <1>2, <1>4 DEF LabInv, SimulateInv, TypeOK, NoSim
<1>7. ASSUME NEW to \in Requests, req' = [req EXCEPT ![q] = to],
             to.at \in {"attach", "reattach", "done"},
             to.at # "done" => to.key = k,
             to.at = "attach" => sims[k] = NoSim
      PROVE  LabInv'
  <2>1. Others(q) /\ req'[q] = to /\ req' \in [Request -> Requests]
    BY <1>1, <1>7 DEF Others
  <2>2. TypeOK'
    BY <1>1, <1>2, <1>5, <2>1 DEF TypeOK, Requests, AiIdle
  <2>3. AssistInv'
    BY <1>2, <1>7, <2>1, AssistIdle
  <2>4. \A r \in Request \ {q} :
          req[r].at \in {"attach", "enqueue"} /\ sims[k] = NoSim => req[r].key # k
    BY DEF LabInv, SimulateInv, NoSim
  <2>5. to.at = "attach" => sims'[k].status = "created"
    BY <1>1, <1>2, <1>4, <1>7 DEF TypeOK
  <2>6. SimulateInv'
    BY <1>2, <1>6, <1>7, <2>1, <2>4, <2>5 DEF LabInv, SimulateInv, Others
  <2>7. PublishInv' /\ PublishedWasSimulated'
    BY <1>2, <1>5, <1>7, <2>1, PublishIdle DEF Others
  <2> QED
    BY <2>2, <2>3, <2>6, <2>7 DEF LabInv
<1>8. CASE Done(q)
  <2> DEFINE to == [NewRequest EXCEPT !.at = "done"]
  <2>1. to \in Requests /\ to.at = "done"
    BY NewRequestTyped DEF NewRequest, Requests, At
  <2>2. req' = [req EXCEPT ![q] = to]
    BY <1>8 DEF Done
  <2> HIDE DEF to
  <2> QED
    BY <1>7, <2>1, <2>2
<1>9. ASSUME NEW at \in {"attach", "reattach"}, at = "attach" => sims[k] = NoSim,
             req' = [req EXCEPT ![q].at = at, ![q].row = draft]
      PROVE  LabInv'
  <2> DEFINE to == [req[q] EXCEPT !.at = at, !.row = draft]
  <2>1. to \in Requests /\ to.at = at /\ to.key = k
    BY <1>1 DEF Requests, At
  <2>2. req' = [req EXCEPT ![q] = to]
    BY <1>1, <1>9
  <2> HIDE DEF to
  <2> QED
    BY <1>7, <1>9, <2>1, <2>2
<1> QED
  BY <1>8, <1>9 DEF CreateSimulation

LEMMA EnqueueStep ==
  ASSUME LabInv, NEW q \in Request, Enqueue(q)
  PROVE  LabInv'
<1> DEFINE k == req[q].key
           to == [NewRequest EXCEPT !.at = "done"]
<1>1. req \in [Request -> Requests] /\ TypeOK
  BY ReqTyped DEF LabInv, TypeOK
<1>2. /\ UNCHANGED <<draft, published>> /\ AiIdle /\ req[q].at = "enqueue"
      /\ sims' = [sims EXCEPT ![k].status = "queued"]
      /\ k \in Key /\ sims[k].status = "created"
  BY DEF Enqueue, LabInv, SimulateInv
<1>3. to \in Requests /\ to.at = "done" /\ req' = [req EXCEPT ![q] = to]
  BY NewRequestTyped DEF NewRequest, Requests, At, Enqueue, Done
<1> HIDE DEF to
<1>4. Others(q) /\ req'[q].at = "done" /\ req' \in [Request -> Requests]
  BY <1>1, <1>3 DEF Others
<1>5. sims' \in [Key -> Sim] /\ SimsKeep
  BY <1>1, <1>2 DEF TypeOK, Sim, NoSim, SimsKeep
<1>6. TypeOK'
  BY <1>1, <1>2, <1>4, <1>5 DEF TypeOK, Requests, AiIdle
<1>7. AssistInv'
  BY <1>2, <1>4, AssistIdle
<1>8. SimulateInv'
  <2>1. \A r \in Request \ {q} : req[r].at \in {"attach", "enqueue"} =>
                                   req[r].key # k /\ sims'[req[r].key] = sims[req[r].key]
    BY <1>1, <1>2 DEF LabInv, SimulateInv, TypeOK
  <2> QED
    BY <1>4, <2>1 DEF LabInv, SimulateInv, Others
<1>9. PublishInv' /\ PublishedWasSimulated'
  BY <1>2, <1>4, <1>5, PublishIdle DEF Others
<1> QED
  BY <1>6, <1>7, <1>8, <1>9 DEF LabInv

LEMMA PlayStep ==
  ASSUME LabInv, NEW k \in Key, Play(k)
  PROVE  LabInv'
<1>1. PICK s \in {"finished", "failed"} : sims' = [sims EXCEPT ![k].status = s]
  BY DEF Play
<1>2. UNCHANGED <<draft, published, req>> /\ AiIdle /\ sims[k].status = "queued" /\ TypeOK
  BY DEF Play, LabInv
<1>3. sims' \in [Key -> Sim] /\ SimsKeep
  BY <1>1, <1>2 DEF TypeOK, Sim, NoSim, SimsKeep
<1>4. TypeOK'
  BY <1>2, <1>3 DEF TypeOK, AiIdle
<1>5. AssistInv'
  BY <1>2 DEF LabInv, AssistInv, Waiting, AiIdle
<1>6. SimulateInv'
  BY <1>1, <1>2 DEF LabInv, SimulateInv, TypeOK
<1>7. PublishInv' /\ PublishedWasSimulated'
  BY <1>2, <1>3, PublishIdle
<1> QED
  BY <1>4, <1>5, <1>6, <1>7 DEF LabInv

\* A request publishes what the check has found to be simulated.
LEMMA PublishSteps ==
  ASSUME LabInv, NEW q \in Request, CheckPublishable(q) \/ Publish(q)
  PROVE  LabInv'
<1>1. req \in [Request -> Requests] /\ draft \in Draft /\ TypeOK
  BY ReqTyped DEF LabInv, TypeOK
<1>2. UNCHANGED <<draft, sims>> /\ AiIdle /\ SimsKeep
  BY DEF CheckPublishable, Publish, SimsKeep
<1>3. ASSUME Done(q), UNCHANGED published PROVE LabInv'
  <2>1. req' \in [Request -> Requests]
    BY <1>2, <1>3, DoneStep
  <2>2. TypeOK'
    BY <1>1, <1>2, <1>3, <2>1 DEF TypeOK, Requests, AiIdle
  <2> QED
    BY <1>2, <1>3, <2>2, DoneStep DEF LabInv
<1>4. CASE CheckPublishable(q) /\ Publishable(req[q].row)
  <2> DEFINE row == req[q].row
             to == [req[q] EXCEPT !.at = "publish", !.content = row.source]
  <2>1. row.sim \in Key /\ row.source \in Content
    BY <1>1, <1>4 DEF Publishable, Eligible, Requests, Draft
  <2>2. Simulated(row.source)
    <3>1. sims[row.sim] \in Sim /\ sims[row.sim].status = "finished"
          /\ sims[row.sim].candidate = row.source
      BY <1>1, <1>4, <2>1 DEF Publishable, Eligible, TypeOK
    <3>2. sims[row.sim] = [candidate |-> row.source, status |-> "finished"]
      BY <3>1 DEF Sim, NoSim
    <3> QED
      BY <2>1, <3>2 DEF Simulated
  <2>3. to \in Requests /\ to.at = "publish" /\ to.content = row.source
    BY <1>1, <2>1 DEF Requests, At
  <2>4. req' = [req EXCEPT ![q] = to] /\ UNCHANGED published
    BY <1>1, <1>4 DEF CheckPublishable
  <2> HIDE DEF to
  <2>5. Others(q) /\ req'[q] = to /\ req' \in [Request -> Requests]
    BY <1>1, <2>3, <2>4 DEF Others
  <2>6. TypeOK'
    BY <1>1, <1>2, <2>4, <2>5 DEF TypeOK, Requests, AiIdle
  <2>7. AssistInv'
    BY <1>2, <2>3, <2>5, AssistIdle
  <2>8. SimulateInv'
    BY <1>2, <2>3, <2>5 DEF LabInv, SimulateInv, Others
  <2>9. PublishInv'
    <3>1. \A r \in Request : req'[r].at = "publish" => Simulated(req'[r].content)
      BY <2>2, <2>3, <2>5 DEF LabInv, PublishInv, Others
    <3> QED
      BY <1>2, <3>1 DEF PublishInv, Simulated
  <2>10. PublishedWasSimulated'
    BY <1>2, <2>4 DEF LabInv, PublishedWasSimulated
  <2> QED
    BY <2>6, <2>7, <2>8, <2>9, <2>10 DEF LabInv
<1>5. CASE Publish(q)
  <2>1. /\ Done(q) /\ published' = published \cup {req[q].content}
        /\ req[q].content \in Content /\ Simulated(req[q].content)
    BY <1>1, <1>5 DEF Publish, Requests, LabInv, PublishInv
  <2>2. Others(q) /\ req'[q].at = "done" /\ req' \in [Request -> Requests]
    <3>1. [NewRequest EXCEPT !.at = "done"] \in Requests
      BY NewRequestTyped DEF Requests, At
    <3> QED
      BY <1>1, <2>1, <3>1, NewRequestTyped DEF Done, Others, Requests
  <2>3. TypeOK'
    BY <1>1, <1>2, <2>1, <2>2 DEF TypeOK, Requests, AiIdle
  <2>4. AssistInv'
    BY <1>2, <2>2, AssistIdle
  <2>5. SimulateInv'
    BY <1>2, <2>2 DEF LabInv, SimulateInv, Others
  <2>6. PublishInv'
    BY <1>2, <2>2 DEF LabInv, PublishInv, Simulated, Others
  <2>7. PublishedWasSimulated'
    BY <1>2, <2>1 DEF LabInv, PublishedWasSimulated, Simulated
  <2> QED
    BY <2>3, <2>4, <2>5, <2>6, <2>7 DEF LabInv
<1> QED
  BY <1>3, <1>4, <1>5 DEF CheckPublishable

\* A request asks the AI: what it has read of the account it keeps.
LEMMA AssistSteps ==
  ASSUME LabInv, NEW q \in Request,
         \/ (\E cost \in Cost : LoadAssist(q, cost)) \/ CheckLimits(q) \/ Reserve(q)
         \/ ProviderFails(q) \/ ProviderAnswers(q)
  PROVE  LabInv'
<1> DEFINE costs == req[q].cost
           had == req[q].credits
<1>1. /\ req \in [Request -> Requests] /\ TypeOK
      /\ UNCHANGED <<draft, sims, published>> /\ SimsKeep
  BY ReqTyped DEF LabInv, TypeOK, LoadAssist, CheckLimits, Reserve, ProviderFails,
                  ProviderAnswers, SimsKeep
<1>2. /\ costs \in Nat /\ had \in Nat /\ credits \in Nat /\ reserved \in Nat /\ spent \in Nat
      /\ Granted \in Nat
  <2>1. costs \in Cost \cup {0} /\ had \in Nat
    BY <1>1 DEF Requests
  <2>2. Cost \subseteq Nat /\ Granted \in Nat
    BY StrategyLabAssumption
  <2>3. credits \in Nat /\ reserved \in Nat /\ spent \in Nat
    BY <1>1 DEF TypeOK
  <2>4. Cost \cup {0} \subseteq Nat
    BY <2>2
  <2> QED
    BY <2>1, <2>2, <2>3, <2>4, Zenon
<1>3. IsFiniteSet(Waiting) /\ Cardinality(Waiting) \in Nat /\ Cardinality(Waiting) <= reserved
  BY WaitingIsFinite DEF LabInv, AssistInv
<1> DEFINE Fair(to) ==
             /\ to.at \in {"limits", "reserve", "answer", "done"}
             /\ credits' \in Nat /\ reserved' \in Nat /\ spent' \in Nat /\ spent <= spent'
             /\ Granted <= credits' + spent'
             /\ to.at # "done" => to.cost <= to.credits /\ Granted <= to.credits + spent'
             /\ Cardinality(Waiting') <= reserved'
<1>4. ASSUME NEW to \in Requests, req' = [req EXCEPT ![q] = to], Fair(to)
      PROVE  LabInv'
  <2>1. Others(q) /\ req'[q] = to /\ req' \in [Request -> Requests]
    BY <1>1, <1>4 DEF Others
  <2>2. TypeOK'
    BY <1>1, <1>4, <2>1 DEF TypeOK, Requests
  <2>3. SimulateInv' /\ PublishInv' /\ PublishedWasSimulated'
    BY <1>1, <1>4, <2>1, SimulateIdle
  <2>4. ASSUME NEW r \in Request, req'[r].at \in {"limits", "reserve", "answer"}
        PROVE  req'[r].cost <= req'[r].credits /\ Granted <= req'[r].credits + spent'
    <3>1. CASE r = q
      BY <1>4, <2>1, <2>4, <3>1
    <3>2. CASE r # q
      <4>1. req'[r] = req[r] /\ req[r].credits \in Nat
        BY <1>1, <2>1, <3>2 DEF Others, Requests
      <4>2. req[r].cost <= req[r].credits /\ Granted <= req[r].credits + spent
        BY <2>4, <4>1 DEF LabInv, AssistInv
      <4> QED
        BY <1>2, <1>4, <4>1, <4>2
    <3> QED
      BY <3>1, <3>2
  <2>5. AssistInv'
    BY <1>4, <2>4 DEF AssistInv
  <2> QED
    BY <2>2, <2>3, <2>5 DEF LabInv
<1>5. ASSUME NEW at \in {"limits", "reserve", "answer"}, req[q].at = at
      PROVE  costs <= had /\ Granted <= had + spent
  BY <1>5 DEF LabInv, AssistInv
<1>6. Granted <= credits + spent
  BY DEF LabInv, AssistInv
<1> DEFINE done == [NewRequest EXCEPT !.at = "done"]
<1>7. done \in Requests /\ done.at = "done"
  BY NewRequestTyped DEF Requests, At
<1>8. Done(q) => req' = [req EXCEPT ![q] = done]
  BY DEF Done
<1> HIDE DEF done
<1>9. Done(q) => Waiting' = Waiting \ {q}
  BY <1>1, <1>7, <1>8 DEF Waiting
<1>10. CASE Done(q) /\ AiIdle
  <2>1. Cardinality(Waiting') <= reserved'
    BY <1>2, <1>3, <1>9, <1>10, WaitingIsFinite DEF AiIdle
  <2> QED
    <3>1. Fair(done)
      BY <1>2, <1>6, <1>7, <1>10, <2>1 DEF AiIdle
    <3> HIDE DEF Fair
    <3> QED
      BY <1>4, <1>7, <1>8, <1>10, <3>1
<1>11. ASSUME NEW cost \in Cost, LoadAssist(q, cost) PROVE LabInv'
  <2> DEFINE to == [req[q] EXCEPT !.at = "limits", !.cost = cost, !.credits = credits]
  <2>1. CASE credits < cost
    BY <1>10, <1>11, <2>1 DEF LoadAssist
  <2>2. CASE ~ (credits < cost)
    <3>1. cost \in Nat /\ req[q].at = "new" /\ AiIdle
      BY <1>11, StrategyLabAssumption DEF LoadAssist
    <3>2. to \in Requests /\ to.at = "limits" /\ to.cost = cost /\ to.credits = credits
      BY <1>1, <1>2 DEF Requests, At
    <3>3. req' = [req EXCEPT ![q] = to]
      BY <1>1, <1>11, <2>2 DEF LoadAssist
    <3> HIDE DEF to
    <3>4. Waiting' = Waiting
      BY <1>1, <3>1, <3>2, <3>3 DEF Waiting
    <3>5. Cardinality(Waiting') <= reserved'
      BY <1>3, <3>1, <3>4 DEF AiIdle
    <3>6. cost <= credits
      BY <1>2, <2>2, <3>1
    <3>7. Fair(to)
      BY <1>2, <1>6, <3>1, <3>2, <3>5, <3>6 DEF AiIdle
    <3> HIDE DEF Fair
    <3> QED
      BY <1>4, <3>2, <3>3, <3>7
  <2> QED
    BY <2>1, <2>2
<1>12. CASE CheckLimits(q)
  <2> DEFINE to == [req[q] EXCEPT !.at = "reserve"]
  <2>1. AiIdle /\ req[q].at = "limits"
    BY <1>12 DEF CheckLimits
  <2>2. CASE Done(q)
    BY <1>10, <2>1, <2>2
  <2>3. CASE Goes(q, "reserve")
    <3>1. req' = [req EXCEPT ![q] = to]
      BY <1>1, <2>3 DEF Goes
    <3>2. to \in Requests /\ to.at = "reserve" /\ to.cost = costs /\ to.credits = had
      BY <1>1 DEF Requests, At
    <3> HIDE DEF to
    <3>3. Waiting' = Waiting
      BY <1>1, <2>1, <3>1, <3>2 DEF Waiting
    <3>4. Cardinality(Waiting') <= reserved'
      BY <1>3, <2>1, <3>3 DEF AiIdle
    <3>5. costs <= had /\ Granted <= had + spent
      BY <1>5, <2>1
    <3>6. Fair(to)
      BY <1>2, <1>6, <2>1, <3>2, <3>4, <3>5 DEF AiIdle
    <3> HIDE DEF Fair
    <3> QED
      BY <1>4, <3>1, <3>2, <3>6
  <2> QED
    BY <1>12, <2>2, <2>3 DEF CheckLimits
<1>13. CASE Reserve(q)
  <2> DEFINE to == [req[q] EXCEPT !.at = "answer"]
  <2>1. /\ UNCHANGED <<credits, spent>> /\ reserved' = reserved + 1
        /\ req[q].at = "reserve" /\ req' = [req EXCEPT ![q] = to]
    BY <1>1, <1>13 DEF Reserve, Goes
  <2>2. to \in Requests /\ to.at = "answer" /\ to.cost = costs /\ to.credits = had
    BY <1>1 DEF Requests, At
  <2> HIDE DEF to
  <2>3. Waiting' = Waiting \cup {q}
    BY <1>1, <2>1, <2>2 DEF Waiting
  <2>4. Cardinality(Waiting') <= reserved'
    <3>1. q \notin Waiting
      BY <2>1 DEF Waiting
    <3>2. Cardinality(Waiting \cup {q}) = Cardinality(Waiting) + 1
      BY <1>3, <3>1, FS_AddElement
    <3> QED
      BY <1>2, <1>3, <2>1, <2>3, <3>2
  <2>5. costs <= had /\ Granted <= had + spent
    BY <1>5, <2>1
  <2>6. Fair(to)
    BY <1>2, <1>6, <2>1, <2>2, <2>4, <2>5
  <2> HIDE DEF Fair
  <2> QED
    BY <1>4, <2>1, <2>2, <2>6
<1>14. CASE ProviderFails(q) \/ ProviderAnswers(q)
  <2>1. Done(q) /\ reserved' = reserved - 1 /\ req[q].at = "answer"
    BY <1>14 DEF ProviderFails, ProviderAnswers
  <2>2. q \in Waiting
    BY <2>1 DEF Waiting
  <2>3. Cardinality(Waiting') = Cardinality(Waiting) - 1 /\ Cardinality(Waiting') \in Nat
    BY <1>3, <1>9, <2>1, <2>2, FS_RemoveElement, WaitingIsFinite
  <2>4. reserved' \in Nat /\ Cardinality(Waiting') <= reserved'
    BY <1>2, <1>3, <2>1, <2>3
  <2>5. costs <= had /\ Granted <= had + spent
    BY <1>5, <2>1
  <2>6. \/ UNCHANGED <<credits, spent>>
        \/ credits' = had - costs /\ spent' = spent + costs
    BY <1>14 DEF ProviderFails, ProviderAnswers
  <2>7. /\ credits' \in Nat /\ spent' \in Nat /\ spent <= spent'
        /\ Granted <= credits' + spent'
    BY <1>2, <1>6, <2>5, <2>6
  <2>8. Fair(done)
    BY <1>7, <2>4, <2>7
  <2> HIDE DEF Fair
  <2> QED
    BY <1>4, <1>7, <1>8, <2>1, <2>8
<1> QED
  BY <1>11, <1>12, <1>13, <1>14

LEMMA LabInvariant == Spec => []LabInv
<1>1. LabInv /\ [Next]_vars => LabInv'
  <2> SUFFICES ASSUME LabInv, [Next]_vars PROVE LabInv'
    OBVIOUS
  <2>1. CASE UNCHANGED vars
    BY <2>1 DEF vars, LabInv, TypeOK, AssistInv, Waiting, SimulateInv, PublishInv,
                Simulated, PublishedWasSimulated
  <2>2. ASSUME NEW q \in Request, Handle(q) PROVE LabInv'
    BY <2>2, SaveSteps, SimulateSteps, CreateStep, EnqueueStep, PublishSteps, AssistSteps
    DEF Handle
  <2>3. ASSUME NEW k \in Key, Play(k) PROVE LabInv'
    BY <2>3, PlayStep
  <2> QED
    BY <2>1, <2>2, <2>3 DEF Next
<1> QED
  BY <1>1, InvInit, PTL DEF Spec

\* Lab types.  The draft, the simulations and the requests have their types, and
\* neither the account nor the number of reservations falls below zero.
THEOREM LabTyped == Spec => []TypeOK
<1>1. LabInv => TypeOK
  BY DEF LabInv
<1> QED
  BY <1>1, LabInvariant, PTL

\* Simulated first.  However the writes of overlapping requests mix in the draft, a
\* published content has finished a simulation.
THEOREM PublishedAfterSimulation == Spec => []PublishedWasSimulated
<1>1. LabInv => PublishedWasSimulated
  BY DEF LabInv
<1> QED
  BY <1>1, LabInvariant, PTL

\* Fair price.  However requests to the AI overlap, fail and die, the owner has paid
\* at most for the answers he got.
THEOREM FairPrice == Spec => []NeverOvercharged
<1>1. LabInv => NeverOvercharged
  BY StrategyLabAssumption DEF LabInv, TypeOK, AssistInv, NeverOvercharged
<1> QED
  BY <1>1, LabInvariant, PTL
=============================================================================
