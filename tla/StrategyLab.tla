---------------------------- MODULE StrategyLab ----------------------------
(***************************************************************************)
(* The strategy lab of one fleet: the requests of its owner's tabs save    *)
(* the draft, simulate it, publish it and ask the AI about it, all at      *)
(* once.  Each has a session of its own, which keeps the row it read and   *)
(* writes back only the columns it changed; nothing locks the row.         *)
(*                                                                         *)
(* A content stands for its hash.  What publishing does after its checks   *)
(* is in StrategyPublication, what the worker does with a match in         *)
(* MatchLifecycle.                                                         *)
(*                                                                         *)
(* A "variant of X" is a plausible slip in the code X models, which a run  *)
(* must catch; no specification uses it.                                   *)
(***************************************************************************)
EXTENDS Integers, FiniteSets

CONSTANTS
  Request,     \* bound: the requests that are made
  Content,     \* sources of a strategy
  Base,        \* the one the draft starts from
  Key,         \* idempotency keys of simulations
  Cost,        \* of an answer of the AI: 1, or 2 if deep
  Granted,     \* ORBIT_AI_FREE_CREDITS, 30
  DailyLimit,  \* ORBIT_AI_DAILY_USER_CREDITS, 5
  None

ASSUME StrategyLabAssumption ==
  /\ IsFiniteSet(Request)
  /\ Base \in Content
  /\ None \notin Content \cup Key
  /\ Cost \subseteq Nat /\ Granted \in Nat /\ DailyLimit \in Nat

VARIABLES
  draft,      \* the row of StrategyDraft
  sims,       \* the simulations, by key: candidate and status
  published,  \* the contents published from the lab
  credits,    \* AiCreditAccount.remaining
  reserved,   \* the number of AiAssistRequest rows with status reserved
  spent,      \* the cost of those with status succeeded
  req         \* the requests

vars == <<draft, sims, published, credits, reserved, spent, req>>

Draft == [revision : Nat, source : Content, validated : Content \cup {None},
          sim : Key \cup {None}, simRevision : Nat]
NoSim == [candidate |-> None, status |-> "none"]
Sim == {NoSim} \cup [candidate : Content, status : {"created", "queued", "finished", "failed"}]
At == {"new", "save", "validate", "create", "attach", "reattach", "enqueue",
       "check", "publish", "limits", "reserve", "answer", "done"}
NewDraft == [revision |-> 1, source |-> Base, validated |-> None, sim |-> None, simRevision |-> 0]
NewRequest == [at |-> "new", row |-> NewDraft, content |-> Base, key |-> None,
               cost |-> 0, credits |-> 0]

TypeOK ==
  /\ draft \in Draft
  /\ sims \in [Key -> Sim]
  /\ published \subseteq Content
  /\ credits \in Nat /\ reserved \in Nat /\ spent \in Nat
  /\ req \in [Request -> [at : At, row : Draft, content : Content, key : Key \cup {None},
                          cost : Cost \cup {0}, credits : Nat]]

Init ==
  /\ draft = NewDraft
  /\ sims = [k \in Key |-> NoSim]
  /\ published = {}
  /\ credits = Granted /\ reserved = 0 /\ spent = 0
  /\ req = [q \in Request |-> NewRequest]

\* The row after a session that read it as "read" made it "write": the columns that
\* are the same in both stay as another session left them.
Flushed(read, write) ==
  [column \in DOMAIN draft |->
     IF write[column] = read[column] THEN draft[column] ELSE write[column]]

Done(q) == req' = [req EXCEPT ![q] = [NewRequest EXCEPT !.at = "done"]]
Goes(q, at) == req' = [req EXCEPT ![q].at = at]
AiIdle == UNCHANGED <<credits, reserved, spent>>

-----------------------------------------------------------------------------
(* Saving.  A request whose revision is not the row's is refused.           *)

LoadSave(q, c) ==
  /\ req[q].at = "new"
  /\ req' = [req EXCEPT ![q].at = "save", ![q].row = draft, ![q].content = c]
  /\ UNCHANGED <<draft, sims, published>> /\ AiIdle

\* update_draft, or reset_draft for the content Base.
Save(q) ==
  /\ req[q].at = "save"
  /\ LET row == req[q].row
     IN draft' = Flushed(row, [revision |-> row.revision + 1, source |-> req[q].content,
                               validated |-> None, sim |-> None, simRevision |-> 0])
  /\ Done(q)
  /\ UNCHANGED <<sims, published>> /\ AiIdle

-----------------------------------------------------------------------------
(* Simulating.                                                              *)

LoadSimulate(q, k) ==
  /\ req[q].at = "new"
  /\ req' = [req EXCEPT ![q].at = "validate", ![q].row = draft,
                        ![q].content = draft.source, ![q].key = k]
  /\ UNCHANGED <<draft, sims, published>> /\ AiIdle

\* validate_package finds a fault or the sandbox fails.
ValidationFails(q) ==
  /\ req[q].at = "validate"
  /\ Done(q)
  /\ UNCHANGED <<draft, sims, published>> /\ AiIdle

\* mark_validated, which compares the revision with that of the row as it was read.
MarkValidated(q) ==
  /\ req[q].at = "validate"
  /\ draft' = Flushed(req[q].row, [req[q].row EXCEPT !.validated = req[q].content])
  /\ Goes(q, "create")
  /\ UNCHANGED <<sims, published>> /\ AiIdle

\* The row is read anew, and create_simulation finds the key or takes it.
CreateSimulation(q) ==
  LET k == req[q].key
      revision == req[q].row.revision
      at == IF sims[k] = NoSim THEN "attach" ELSE "reattach"
  IN /\ req[q].at = "create"
     /\ IF sims[k].candidate \notin {None, req[q].content} \/ draft.revision # revision
        THEN Done(q)
        ELSE req' = [req EXCEPT ![q].at = at, ![q].row = draft]
     /\ sims' = IF sims[k] = NoSim
                THEN [sims EXCEPT ![k] = [candidate |-> req[q].content, status |-> "created"]]
                ELSE sims
     /\ UNCHANGED <<draft, published>> /\ AiIdle

AttachSimulation(q) ==
  LET row == req[q].row IN
  /\ req[q].at \in {"attach", "reattach"}
  /\ draft' = Flushed(row, [row EXCEPT !.sim = req[q].key, !.simRevision = row.revision])
  /\ IF req[q].at = "attach" THEN Goes(q, "enqueue") ELSE Done(q)
  /\ UNCHANGED <<sims, published>> /\ AiIdle

Enqueue(q) ==
  /\ req[q].at = "enqueue"
  /\ sims' = [sims EXCEPT ![req[q].key].status = "queued"]
  /\ Done(q)
  /\ UNCHANGED <<draft, published>> /\ AiIdle

\* The worker.
Play(k) ==
  /\ sims[k].status = "queued"
  /\ \E s \in {"finished", "failed"} : sims' = [sims EXCEPT ![k].status = s]
  /\ UNCHANGED <<draft, published, req>> /\ AiIdle

-----------------------------------------------------------------------------
(* Publishing.                                                              *)

LoadPublish(q) ==
  /\ req[q].at = "new"
  /\ req' = [req EXCEPT ![q].at = "check", ![q].row = draft]
  /\ UNCHANGED <<draft, sims, published>> /\ AiIdle

\* publication_eligibility: the row's simulation, of its revision, has finished with
\* the validated content as its candidate.
Eligible(row) ==
  /\ row.sim # None /\ row.simRevision = row.revision
  /\ sims[row.sim].status = "finished"
  /\ sims[row.sim].candidate = row.validated

\* A variant of Publishable that trusts the eligibility the page was shown.
PublishableShown(row) == Eligible(row)

\* require_publishable_simulation and require_validated_package.
Publishable(row) == Eligible(row) /\ row.validated = row.source

CheckPublishable(q) ==
  /\ req[q].at = "check"
  /\ IF Publishable(req[q].row)
     THEN req' = [req EXCEPT ![q].at = "publish", ![q].content = req[q].row.source]
     ELSE Done(q)
  /\ UNCHANGED <<draft, sims, published>> /\ AiIdle

Publish(q) ==
  /\ req[q].at = "publish"
  /\ published' = published \cup {req[q].content}
  /\ Done(q)
  /\ UNCHANGED <<draft, sims>> /\ AiIdle

-----------------------------------------------------------------------------
(* Asking the AI.                                                           *)

\* get_workspace reads the account, for good: what the session has read it keeps.
LoadAssist(q, cost) ==
  /\ req[q].at = "new"
  /\ IF credits < cost THEN Done(q)
     ELSE req' = [req EXCEPT ![q].at = "limits", ![q].cost = cost, ![q].credits = credits]
  /\ UNCHANGED <<draft, sims, published>> /\ AiIdle

\* A variant of CheckLimits that goes on without a reservation.
CheckLimitsUnreserved(q) ==
  /\ req[q].at = "limits"
  /\ IF reserved > 0 \/ spent + req[q].cost > DailyLimit THEN Done(q) ELSE Goes(q, "answer")
  /\ UNCHANGED <<draft, sims, published>> /\ AiIdle

\* No other request of the user is reserved, and the day has credits left.
CheckLimits(q) ==
  /\ req[q].at = "limits"
  /\ IF reserved > 0 \/ spent + req[q].cost > DailyLimit THEN Done(q) ELSE Goes(q, "reserve")
  /\ UNCHANGED <<draft, sims, published>> /\ AiIdle

\* A variant of Reserve that charges at once.
ReserveCharged(q) ==
  /\ req[q].at = "reserve"
  /\ reserved' = reserved + 1
  /\ credits' = req[q].credits - req[q].cost
  /\ Goes(q, "answer")
  /\ UNCHANGED <<draft, sims, published, spent>>

Reserve(q) ==
  /\ req[q].at = "reserve"
  /\ reserved' = reserved + 1
  /\ Goes(q, "answer")
  /\ UNCHANGED <<draft, sims, published, credits, spent>>

ProviderFails(q) ==
  /\ req[q].at = "answer"
  /\ reserved' = reserved - 1
  /\ Done(q)
  /\ UNCHANGED <<draft, sims, published, credits, spent>>

\* The account is the one read at first.
ProviderAnswers(q) ==
  /\ req[q].at = "answer"
  /\ reserved' = reserved - 1
  /\ credits' = req[q].credits - req[q].cost
  /\ spent' = spent + req[q].cost
  /\ Done(q)
  /\ UNCHANGED <<draft, sims, published>>

-----------------------------------------------------------------------------
\* The server dies under a request.
Die(q) ==
  /\ req[q].at \notin {"new", "done"}
  /\ Done(q)
  /\ UNCHANGED <<draft, sims, published>> /\ AiIdle

Handle(q) ==
  \/ (\E c \in Content : LoadSave(q, c)) \/ Save(q)
  \/ (\E k \in Key : LoadSimulate(q, k)) \/ ValidationFails(q) \/ MarkValidated(q)
  \/ CreateSimulation(q) \/ AttachSimulation(q) \/ Enqueue(q)
  \/ LoadPublish(q) \/ CheckPublishable(q) \/ Publish(q)
  \/ (\E cost \in Cost : LoadAssist(q, cost)) \/ CheckLimits(q) \/ Reserve(q)
  \/ ProviderFails(q) \/ ProviderAnswers(q)
  \/ Die(q)

Next == (\E q \in Request : Handle(q)) \/ (\E k \in Key : Play(k))

Spec == Init /\ [][Next]_vars

-----------------------------------------------------------------------------
(* Properties.                                                              *)

\* Whatever the tabs save in the meantime, and however the columns of their writes
\* mix, a published content has finished a simulation as the candidate.
PublishedWasSimulated ==
  \A c \in published : \E k \in Key : sims[k] = [candidate |-> c, status |-> "finished"]

\* However requests overlap, fail or die, the owner never pays for an answer he did
\* not get.
NeverOvercharged == Granted - credits <= spent
=============================================================================
