------------------------ MODULE StrategyPublication ------------------------
(***************************************************************************)
(* Publishing strategy packages of one fleet, by the Agent API and by the  *)
(* strategy lab: the package goes to object storage under the hash of its  *)
(* content, the version row to PostgreSQL, a failed row takes the upload   *)
(* back, and the stored package is validated and may become the current    *)
(* version.                                                                *)
(*                                                                         *)
(* A package is its content.  A step is one storage call or one database   *)
(* transaction.  A request decides by the status it read last: its session *)
(* does not load the row again before it writes it.  A commit that happens *)
(* and reports an error is the step and then Fail, but for Save, whose     *)
(* error is compensated.                                                   *)
(*                                                                         *)
(* A "variant of X" is a plausible slip in the code X models, which a run  *)
(* must catch; no specification uses it.                                   *)
(***************************************************************************)
EXTENDS Naturals

CONSTANTS
  Package,     \* the contents that are published
  NoPackage,
  Request,     \* the API's request handlers
  MaxFaults    \* bound: requests cut by a crash or by an error of a service

ASSUME PublicationAssumption == NoPackage \notin Package /\ MaxFaults \in Nat

VARIABLES
  object,     \* the packages in object storage
  status,     \* per package, the status of its version row, "none" without a row
  current,    \* the fleet's current version, NoPackage for its starter
  passed,     \* history: the packages that passed a validation
  overlapped, \* history: the packages two requests were busy with at once
  unanswered, \* history: the packages whose row was saved and reported as refused
  pc,         \* per request: its next step
  job,        \* per request: its package
  caller,     \* per request: the Agent API or the strategy lab
  seen,       \* per request: the status it saw or wrote last
  created,    \* per request: its upload made the object
  faults

requests == <<pc, job, caller, seen, created>>
history == <<passed, overlapped, unanswered>>
vars == <<object, status, current, history, requests, faults>>

Status == {"none", "uploaded", "validating", "ready", "rejected"}
Pc == {"idle", "find", "upload", "save", "compensate", "claim", "fetch", "judge",
       "confirm", "select"}

TypeOK ==
  /\ object \subseteq Package
  /\ status \in [Package -> Status]
  /\ current \in Package \cup {NoPackage}
  /\ {passed, overlapped, unanswered} \subseteq SUBSET Package
  /\ pc \in [Request -> Pc]
  /\ job \in [Request -> Package \cup {NoPackage}]
  /\ caller \in [Request -> {"agent", "lab"}]
  /\ seen \in [Request -> Status]
  /\ created \in [Request -> BOOLEAN]
  /\ faults \in Nat
  /\ \A q \in Request : job[q] = NoPackage <=> pc[q] = "idle"

Init ==
  /\ object = {}
  /\ status = [p \in Package |-> "none"]
  /\ current = NoPackage
  /\ passed = {} /\ overlapped = {} /\ unanswered = {}
  /\ pc = [q \in Request |-> "idle"]
  /\ job = [q \in Request |-> NoPackage]
  /\ caller = [q \in Request |-> "agent"]
  /\ seen = [q \in Request |-> "none"]
  /\ created = [q \in Request |-> FALSE]
  /\ faults = 0

-----------------------------------------------------------------------------
Go(q, from, to) ==
  /\ pc[q] = from
  /\ pc' = [pc EXCEPT ![q] = to]
  /\ UNCHANGED <<job, caller>>

\* A variant of End that leaves its package to the next request.
EndKeepsJob(q) ==
  /\ pc' = [pc EXCEPT ![q] = "idle"]
  /\ caller' = [caller EXCEPT ![q] = "agent"]
  /\ seen' = [seen EXCEPT ![q] = "none"]
  /\ created' = [created EXCEPT ![q] = FALSE]
  /\ UNCHANGED job

\* The answer: the request's process and its session are gone.
End(q) ==
  /\ pc' = [pc EXCEPT ![q] = "idle"]
  /\ job' = [job EXCEPT ![q] = NoPackage]
  /\ caller' = [caller EXCEPT ![q] = "agent"]
  /\ seen' = [seen EXCEPT ![q] = "none"]
  /\ created' = [created EXCEPT ![q] = FALSE]

Publish(q, p, from) ==
  /\ pc[q] = "idle"
  /\ pc' = [pc EXCEPT ![q] = "find"]
  /\ job' = [job EXCEPT ![q] = p]
  /\ caller' = [caller EXCEPT ![q] = from]
  /\ overlapped' = IF \E r \in Request : job[r] = p THEN overlapped \cup {p} ELSE overlapped
  /\ UNCHANGED <<object, status, current, passed, unanswered, seen, created, faults>>

\* A variant of Validatable that has the lab validate a finished version again.
AnyValidatable(q, s) == s = "uploaded" \/ (s # "none" /\ caller[q] = "lab")

\* The lab resumes an interrupted validation, the Agent API only starts one.
Validatable(q, s) == s = "uploaded" \/ (s = "validating" /\ caller[q] = "lab")

\* publish_strategy_version looks for the content before it uploads it, and reads
\* the row again after saving it; the lab may be asked to make it current.
Find(q) ==
  LET s == status[job[q]] IN
  /\ pc[q] = "find"
  /\ \/ s = "none" /\ Go(q, "find", "upload") /\ UNCHANGED <<seen, created>>
     \/ /\ Validatable(q, s)
        /\ Go(q, "find", "claim")
        /\ seen' = [seen EXCEPT ![q] = s]
        /\ UNCHANGED created
     \/ s = "ready" /\ caller[q] = "lab" /\ Go(q, "find", "select") /\ UNCHANGED <<seen, created>>
     \/ s # "none" /\ ~ Validatable(q, s) /\ End(q)   \* answered as it is
  /\ UNCHANGED <<object, status, current, history, faults>>

\* put_immutable: the conditional PUT writes the object only if it is not there.
\* The client's own second attempt may find what its first one wrote.
Upload(q) ==
  /\ Go(q, "upload", "save")
  /\ object' = object \cup {job[q]}
  /\ \E own \in {job[q] \notin object, FALSE} : created' = [created EXCEPT ![q] = own]
  /\ UNCHANGED <<status, current, history, seen, faults>>

\* The unique index on fleet and content hash refuses a second row.
Save(q) ==
  /\ pc[q] = "save"
  /\ IF status[job[q]] = "none"
     THEN /\ Go(q, "save", "find")
          /\ status' = [status EXCEPT ![job[q]] = "uploaded"]
     ELSE /\ Go(q, "save", "compensate")
          /\ UNCHANGED status
  /\ UNCHANGED <<object, current, history, seen, created, faults>>

\* A variant of SaveFails with the second read of the row under the same except.
SaveFailsLate(q) ==
  /\ faults < MaxFaults
  /\ faults' = faults + 1
  /\ Go(q, "save", "compensate")
  /\ status' = [status EXCEPT ![job[q]] = "uploaded"]
  /\ UNCHANGED <<object, current, history, seen, created>>

\* The database refuses the row for another reason.
SaveFails(q) ==
  /\ faults < MaxFaults
  /\ faults' = faults + 1
  /\ Go(q, "save", "compensate")
  /\ UNCHANGED <<object, status, current, history, seen, created>>

\* The database saves the row and the acknowledgement is lost.
SaveUnanswered(q) ==
  /\ Go(q, "save", "compensate")
  /\ status[job[q]] = "none"
  /\ faults < MaxFaults
  /\ faults' = faults + 1
  /\ status' = [status EXCEPT ![job[q]] = "uploaded"]
  /\ unanswered' = unanswered \cup {job[q]}
  /\ UNCHANGED <<object, current, passed, overlapped, seen, created>>

\* What this request uploaded is deleted again, if the storage lets it.
Compensate(q) ==
  /\ pc[q] = "compensate"
  /\ \/ created[q] /\ object' = object \ {job[q]} /\ UNCHANGED faults
     \/ ~ created[q] /\ UNCHANGED <<object, faults>>
     \/ /\ faults < MaxFaults
        /\ faults' = faults + 1
        /\ UNCHANGED object
  /\ End(q)
  /\ UNCHANGED <<status, current, history>>

\* validate_strategy_version writes the status if it differs from what was read.
Claim(q) ==
  /\ Go(q, "claim", "fetch")
  /\ status' = IF seen[q] = "validating" THEN status
               ELSE [status EXCEPT ![job[q]] = "validating"]
  /\ seen' = [seen EXCEPT ![q] = "validating"]
  /\ UNCHANGED <<object, current, history, created, faults>>

\* A missing object raises; the status stays.
Fetch(q) ==
  /\ pc[q] = "fetch"
  /\ IF job[q] \in object
     THEN Go(q, "fetch", "judge") /\ UNCHANGED <<seen, created>>
     ELSE End(q)
  /\ UNCHANGED <<object, status, current, history, faults>>

\* A variant of Judge that goes on to make a rejected version current.
JudgeSelects(q) ==
  /\ Go(q, "judge", "select")
  /\ \E verdict \in {"ready", "rejected"} :
       /\ status' = [status EXCEPT ![job[q]] = verdict]
       /\ passed' = IF verdict = "ready" THEN passed \cup {job[q]} ELSE passed
  /\ UNCHANGED <<object, current, overlapped, unanswered, seen, created, faults>>

\* The sandbox runs the package on a clock: the same one may pass and time out.
Judge(q) ==
  /\ Go(q, "judge", "confirm")
  /\ \E verdict \in {"ready", "rejected"} :
       /\ status' = [status EXCEPT ![job[q]] = verdict]
       /\ passed' = IF verdict = "ready" THEN passed \cup {job[q]} ELSE passed
  /\ UNCHANGED <<object, current, overlapped, unanswered, seen, created, faults>>

\* The row is read once more for the answer, and by the lab before it selects it.
Confirm(q) ==
  /\ pc[q] = "confirm"
  /\ \/ /\ status[job[q]] = "ready" /\ caller[q] = "lab"
        /\ Go(q, "confirm", "select") /\ UNCHANGED <<seen, created>>
     \/ End(q)
  /\ UNCHANGED <<object, status, current, history, faults>>

\* set_current_strategy through its own endpoint.
Choose(q, p) ==
  /\ pc[q] = "idle"
  /\ status[p] = "ready"
  /\ pc' = [pc EXCEPT ![q] = "select"]
  /\ job' = [job EXCEPT ![q] = p]
  /\ UNCHANGED <<object, status, current, history, caller, seen, created, faults>>

Select(q) ==
  /\ pc[q] = "select"
  /\ current' = job[q]
  /\ End(q)
  /\ UNCHANGED <<object, status, history, faults>>

\* The process dies, or a service answers with an error nobody compensates.
Fail(q) ==
  /\ pc[q] # "idle"
  /\ faults < MaxFaults
  /\ faults' = faults + 1
  /\ End(q)
  /\ UNCHANGED <<object, status, current, history>>

-----------------------------------------------------------------------------
Proceed(q) ==
  \/ Find(q) \/ Upload(q) \/ Save(q) \/ Compensate(q)
  \/ Claim(q) \/ Fetch(q) \/ Judge(q) \/ Confirm(q) \/ Select(q)

Next ==
  \E q \in Request :
    \/ \E p \in Package :
         \/ \E from \in {"agent", "lab"} : Publish(q, p, from)
         \/ Choose(q, p)
    \/ Proceed(q) \/ SaveFails(q) \/ SaveUnanswered(q) \/ Fail(q)

Spec == Init /\ [][Next]_vars

-----------------------------------------------------------------------------
\* A version that has a row has its package in storage, whatever failed while it
\* was published or published again (publish_strategy_version, put_immutable and
\* _compensate_upload), unless two requests were busy with it at once or its row was
\* saved and reported as refused.
PackageKept ==
  \A p \in Package \ (overlapped \cup unanswered) : status[p] # "none" => p \in object

\* The same with requests that overlap and lost acknowledgements.
PackageAlwaysKept == \A p \in Package : status[p] # "none" => p \in object

\* A fleet never fights with a version that no validation has passed, whichever
\* of the three ways made it current (publish_draft, select_current_version).
CurrentPassed == current # NoPackage => current \in passed

\* A verdict stands: no later publishing of the same content, resumed validation
\* or crash moves a ready or rejected version to another status, unless two
\* requests were busy with it at once (_ALLOWED_TRANSITIONS).
VerdictStands ==
  [][\A p \in Package \ overlapped' :
       status[p] \in {"ready", "rejected"} => status'[p] = status[p]]_vars

\* The same with requests that overlap.
VerdictAlwaysStands ==
  [][\A p \in Package :
       status[p] \in {"ready", "rejected"} => status'[p] = status[p]]_vars
=============================================================================
