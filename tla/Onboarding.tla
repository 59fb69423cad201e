----------------------------- MODULE Onboarding -----------------------------
(***************************************************************************)
(* The onboarding workflow of src/orchestration_layer: the state machine   *)
(* of state_machine.py, the background task _run_pipeline of app.py that   *)
(* drives it, and the two routes that touch the same WorkflowState while   *)
(* the task is suspended (POST /onboarding/{id}/advance, POST /kyc/verify).*)
(*                                                                         *)
(* asyncio runs one coroutine at a time, so one action is the code between *)
(* two suspension points: the calls to the providers and the closing of    *)
(* an adapter's HTTP client. Fetching a secret never suspends              *)
(* (secrets_manager.get_secret calls boto3 synchronously) and so belongs   *)
(* to the action it occurs in.                                             *)
(***************************************************************************)
EXTENDS Naturals, FiniteSets

CONSTANTS
  Cases,      \* onboarding ids
  Requests,   \* concurrent POST /kyc/verify requests
  Triggers,   \* trigger names an operator may POST to /advance
  MayRestart  \* whether the service process may restart

VARIABLES
  ws,         \* _workflow_store: the WorkflowState of each case
  sm,         \* the state attribute of the pipeline's own WorkflowStateMachine
  task,       \* where the pipeline task of each case is suspended
  verify      \* the /kyc/verify requests in progress

vars == <<ws, sm, task, verify>>

-----------------------------------------------------------------------------
(* Data *)

Entities == {"individual", "organisation"}

OnboardingState ==
  {"initiated", "document_analysis", "kyc_verification", "sanctions_screening",
   "kyb_lookup", "ubo_calculation", "risk_aggregation", "completed", "failed"}

Terminal == {"completed", "failed"}

Checks == {"document", "kyc", "sanctions", "kyb", "ubo"}

\* The checks that run over an adapter whose client has to be closed.
AdapterChecks == {"kyc", "sanctions", "kyb"}

\* What _aggregate_risk_score reads.
ScoreInputs == {"document", "kyc", "sanctions", "ubo"}

\* A check has no result yet, the provider's answer, or the value the code
\* substitutes for an answer: status ERROR, a clean analysis, an empty UBOResult.
Answers == {"ok", "degraded"}
Results == Answers \cup {"none"}

WorkflowState ==
  [entity : Entities, state : OnboardingState, checks : [Checks -> Results],
   scored : BOOLEAN, score : [ScoreInputs -> Results], error : BOOLEAN]

NewWorkflowState(e) ==
  [entity |-> e, state |-> "initiated", checks |-> [k \in Checks |-> "none"],
   scored |-> FALSE, score |-> [k \in ScoreInputs |-> "none"], error |-> FALSE]

At(step, phase) == [step |-> step, phase |-> phase]

Absent    == At("absent", "call")
Scheduled == At("scheduled", "call")
Done      == At("done", "call")

TaskPoints ==
  {Absent, Scheduled, Done} \cup {At("document", "call"), At("ubo", "call")}
    \cup {At(k, p) : k \in AdapterChecks, p \in {"call", "close", "unwind"}}

Idle == [phase |-> "idle", case |-> "none", result |-> "none"]

VerifyPoints ==
  [phase : {"idle", "call", "close"}, case : Cases \cup {"none"}, result : Results]

TypeOK ==
  /\ ws \in [Cases -> WorkflowState]
  /\ sm \in [Cases -> OnboardingState]
  /\ task \in [Cases -> TaskPoints]
  /\ verify \in [Requests -> VerifyPoints]

-----------------------------------------------------------------------------
(* state_machine.TRANSITIONS *)

FailSources ==
  {"document_analysis", "kyc_verification", "sanctions_screening",
   "kyb_lookup", "ubo_calculation", "risk_aggregation"}

\* The conditions _is_organisation and _is_individual choose between the two
\* complete_sanctions_screening transitions.
AfterSanctions(e) == IF e = "organisation" THEN "kyb_lookup" ELSE "risk_aggregation"

\* Trigger t takes a case of entity type e from state s to state d.
Fires(t, e, s, d) ==
  \/ t = "start_document_analysis" /\ s = "initiated" /\ d = "document_analysis"
  \/ t = "complete_document_analysis" /\ s = "document_analysis" /\ d = "kyc_verification"
  \/ t = "start_kyc_verification" /\ s = "kyc_verification" /\ d = "kyc_verification"
  \/ t = "complete_kyc_verification" /\ s = "kyc_verification" /\ d = "sanctions_screening"
  \/ t = "start_sanctions_screening" /\ s = "sanctions_screening" /\ d = "sanctions_screening"
  \/ t = "complete_sanctions_screening" /\ s = "sanctions_screening" /\ d = AfterSanctions(e)
  \/ t = "complete_kyb_lookup" /\ s = "kyb_lookup" /\ d = "ubo_calculation"
  \/ t = "complete_ubo_calculation" /\ s = "ubo_calculation" /\ d = "risk_aggregation"
  \/ t = "complete_risk_aggregation" /\ s = "risk_aggregation" /\ d = "completed"
  \/ t = "fail_pipeline" /\ s \in FailSources /\ d = "failed"

AllTriggers ==
  {"start_document_analysis", "complete_document_analysis", "start_kyc_verification",
   "complete_kyc_verification", "start_sanctions_screening",
   "complete_sanctions_screening", "complete_kyb_lookup", "complete_ubo_calculation",
   "complete_risk_aggregation", "fail_pipeline"}

ASSUME TriggersAssumption == Triggers \subseteq AllTriggers

ASSUME NoneAssumption == "none" \notin Cases

ASSUME RestartAssumption == MayRestart \in BOOLEAN

CompleteTrigger(k) ==
  CASE k = "document"  -> "complete_document_analysis"
    [] k = "kyc"       -> "complete_kyc_verification"
    [] k = "sanctions" -> "complete_sanctions_screening"
    [] k = "kyb"       -> "complete_kyb_lookup"
    [] k = "ubo"       -> "complete_ubo_calculation"

-----------------------------------------------------------------------------
(* How a segment of the pipeline ends *)

\* It suspends at, or finishes in, point p with the workflow state w and its
\* own machine in state s.
Resume(c, w, s, p) ==
  /\ ws' = [ws EXCEPT ![c] = w]
  /\ sm' = [sm EXCEPT ![c] = s]
  /\ task' = [task EXCEPT ![c] = p]
  /\ UNCHANGED verify

\* Bug: fail gives up when somebody has already failed the case.
FailOnce(c, w, s) ==
  Resume(c, IF w.state = "failed" THEN w ELSE [w EXCEPT !.state = "failed", !.error = TRUE],
         "failed", Done)

\* WorkflowStateMachine.fail: whatever its own state is, the WorkflowState
\* ends FAILED with the error.
Fail(c, w, s) ==
  Resume(c, [w EXCEPT !.state = "failed", !.error = TRUE],
         IF s \in FailSources THEN "failed" ELSE s, Done)

\* Bug: the UBO component is left out of the aggregate.
ScoreWithoutUbo(w) == [k \in ScoreInputs |-> IF k = "ubo" THEN "none" ELSE w.checks[k]]

\* The results _aggregate_risk_score weighs. What it makes of them is left out.
ScoreOf(w) == [k \in ScoreInputs |-> w.checks[k]]

\* Bug: the final trigger is fired on a machine rebuilt from the WorkflowState.
AggregateRebuilt(c, w, s) ==
  IF w.state = "risk_aggregation"
    THEN Resume(c, [w EXCEPT !.state = "completed", !.scored = TRUE, !.score = ScoreOf(w)],
                "completed", Done)
    ELSE Fail(c, w, s)

\* _aggregate_risk_score, then complete_risk_aggregation, which raises unless
\* the task's own machine is in risk_aggregation.
Aggregate(c, w, s) ==
  LET scored == [w EXCEPT !.scored = TRUE, !.score = ScoreOf(w)]
  IN \/ /\ Fires("complete_risk_aggregation", w.entity, s, "completed")
        /\ Resume(c, [scored EXCEPT !.state = "completed"], "completed", Done)
     \/ /\ ~ Fires("complete_risk_aggregation", w.entity, s, "completed")
        /\ Fail(c, scored, s)

\* Bug: aggregation waits for the WorkflowState to reach risk_aggregation.
UboOrWait(c, w, s) ==
  \/ w.state = "ubo_calculation" /\ Resume(c, w, s, At("ubo", "call"))
  \/ w.state = "risk_aggregation" /\ Aggregate(c, w, s)

\* Steps 5 and 6: the WorkflowState, not the machine, decides on the UBO step.
UboOrAggregate(c, w, s) ==
  \/ w.state = "ubo_calculation" /\ Resume(c, w, s, At("ubo", "call"))
  \/ w.state # "ubo_calculation" /\ Aggregate(c, w, s)

\* _create_*_adapter: the secret is there and the call is sent, or it is not
\* and SecretsManagerError fails the pipeline.
OpenAdapter(c, w, s, k) ==
  \/ Resume(c, w, s, At(k, "call"))
  \/ Fail(c, w, s)

Store(w, k, r) == [w EXCEPT !.checks = [@ EXCEPT ![k] = r]]

-----------------------------------------------------------------------------
(* POST /onboarding/initiate *)

Initiate(c) ==
  /\ task[c] = Absent
  /\ \E e \in Entities : Resume(c, NewWorkflowState(e), "initiated", Scheduled)

-----------------------------------------------------------------------------
(* _run_pipeline, one action per segment between two awaits *)

StartPipeline(c) ==
  /\ task[c] = Scheduled
  /\ \E d \in OnboardingState :
       /\ Fires("start_document_analysis", ws[c].entity, ws[c].state, d)
       /\ Resume(c, [ws[c] EXCEPT !.state = d], d, At("document", "call"))

DocumentAnalysed(c, r) ==
  LET w == Store(ws[c], "document", r)
  IN /\ task[c] = At("document", "call")
     /\ \E d \in OnboardingState :
          /\ Fires(CompleteTrigger("document"), w.entity, sm[c], d)
          /\ OpenAdapter(c, [w EXCEPT !.state = d], d, "kyc")

\* The detection engine answers 200 with a body that is not JSON.
DocumentRaised(c) ==
  /\ task[c] = At("document", "call")
  /\ Fail(c, ws[c], sm[c])

\* The provider answered, or the adapter made up an ERROR result: store it,
\* fire the machine, then start closing the adapter. The trigger is always
\* legal here, since nobody else moves the task's own machine
\* (OnboardingProperties!MachineFollowsTask).
AdapterAnswered(c, k, r) ==
  LET w == Store(ws[c], k, r)
  IN /\ task[c] = At(k, "call")
     /\ \E d \in OnboardingState :
          /\ Fires(CompleteTrigger(k), w.entity, sm[c], d)
          /\ Resume(c, [w EXCEPT !.state = d], d, At(k, "close"))

\* resp.json() raised outside the adapter's try: finally still closes it.
AdapterRaised(c, k) ==
  /\ task[c] = At(k, "call")
  /\ Resume(c, ws[c], sm[c], At(k, "unwind"))

AdapterUnwound(c, k) ==
  /\ task[c] = At(k, "unwind")
  /\ Fail(c, ws[c], sm[c])

KycClosed(c) ==
  /\ task[c] = At("kyc", "close")
  /\ OpenAdapter(c, ws[c], sm[c], "sanctions")

SanctionsClosed(c) ==
  /\ task[c] = At("sanctions", "close")
  /\ \/ /\ ws[c].state = "kyb_lookup"
        /\ OpenAdapter(c, ws[c], sm[c], "kyb")
     \/ /\ ws[c].state # "kyb_lookup"
        /\ UboOrAggregate(c, ws[c], sm[c])

KybClosed(c) ==
  /\ task[c] = At("kyb", "close")
  /\ UboOrAggregate(c, ws[c], sm[c])

\* _run_ubo_calculation never raises; complete_ubo_calculation does when KYB was
\* skipped.
UboCalculated(c, r) ==
  LET w     == Store(ws[c], "ubo", r)
      legal == Fires(CompleteTrigger("ubo"), w.entity, sm[c], "risk_aggregation")
  IN /\ task[c] = At("ubo", "call")
     /\ \/ legal /\ Aggregate(c, [w EXCEPT !.state = "risk_aggregation"], "risk_aggregation")
        \/ ~ legal /\ Fail(c, w, sm[c])

Pipeline(c) ==
  \/ StartPipeline(c)
  \/ \E r \in Answers : DocumentAnalysed(c, r)
  \/ DocumentRaised(c)
  \/ \E k \in AdapterChecks : \/ \E r \in Answers : AdapterAnswered(c, k, r)
                              \/ AdapterRaised(c, k)
                              \/ AdapterUnwound(c, k)
  \/ KycClosed(c)
  \/ SanctionsClosed(c)
  \/ KybClosed(c)
  \/ \E r \in Answers : UboCalculated(c, r)

-----------------------------------------------------------------------------
(* The other routes. A client learns the id from the response to initiate,  *)
(* which the event loop sends after the task has run its first segment.     *)

Known(c) == task[c] \notin {Absent, Scheduled}

\* POST /onboarding/{case_id}/advance: a second machine, built from ws.state,
\* fires any trigger by name. An illegal one answers 400 and changes nothing.
Advance(c, t) ==
  /\ Known(c)
  /\ \E d \in OnboardingState :
       /\ Fires(t, ws[c].entity, ws[c].state, d)
       /\ ws' = [ws EXCEPT ![c].state = d]
  /\ UNCHANGED <<sm, task, verify>>

\* POST /kyc/verify: look the case up, call the provider, close the adapter,
\* then overwrite the case's KYC result.
VerifyStart(r, c) ==
  /\ verify[r] = Idle
  /\ Known(c)
  /\ verify' = [verify EXCEPT ![r] = [phase |-> "call", case |-> c, result |-> "none"]]
  /\ UNCHANGED <<ws, sm, task>>

VerifyAnswered(r, a) ==
  /\ verify[r].phase = "call"
  /\ verify' = [verify EXCEPT ![r] = [@ EXCEPT !.phase = "close", !.result = a]]
  /\ UNCHANGED <<ws, sm, task>>

VerifyRaised(r) ==
  /\ verify[r].phase = "call"
  /\ verify' = [verify EXCEPT ![r] = Idle]
  /\ UNCHANGED <<ws, sm, task>>

VerifyClosed(r) ==
  /\ verify[r].phase = "close"
  /\ LET c == verify[r].case
     IN ws' = [ws EXCEPT ![c] = Store(ws[c], "kyc", verify[r].result)]
  /\ verify' = [verify EXCEPT ![r] = Idle]
  /\ UNCHANGED <<sm, task>>

Verification(r) ==
  \/ \E c \in Cases : VerifyStart(r, c)
  \/ \E a \in Answers : VerifyAnswered(r, a)
  \/ VerifyRaised(r)
  \/ VerifyClosed(r)

\* The store, the tasks and the requests live in the process only.
Restart ==
  /\ MayRestart
  /\ ws' = [c \in Cases |-> NewWorkflowState("individual")]
  /\ sm' = [c \in Cases |-> "initiated"]
  /\ task' = [c \in Cases |-> Absent]
  /\ verify' = [r \in Requests |-> Idle]

-----------------------------------------------------------------------------
Init ==
  /\ ws = [c \in Cases |-> NewWorkflowState("individual")]
  /\ sm = [c \in Cases |-> "initiated"]
  /\ task = [c \in Cases |-> Absent]
  /\ verify = [r \in Requests |-> Idle]

Next ==
  \/ \E c \in Cases : Initiate(c)
  \/ \E c \in Cases : Pipeline(c)
  \/ \E c \in Cases, t \in Triggers : Advance(c, t)
  \/ \E r \in Requests : Verification(r)
  \/ Restart

\* Every await of the pipeline returns: the HTTP clients time out after 30 s,
\* exponential_backoff gives up after four attempts, and the event loop runs
\* every ready coroutine. Nobody has to send a request.
Fairness == \A c \in Cases : WF_vars(Pipeline(c))

Spec == Init /\ [][Next]_vars /\ Fairness
=============================================================================
