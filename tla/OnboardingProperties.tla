------------------------ MODULE OnboardingProperties ------------------------
(***************************************************************************)
(* What the onboarding workflow guarantees, and what it does not.          *)
(***************************************************************************)
EXTENDS Onboarding

Settled(c) == task[c] = Done

Required(e) ==
  IF e = "organisation" THEN Checks ELSE {"document", "kyc", "sanctions"}

\* The states s in which the task's own machine can be while the task is
\* suspended at p.
MachineAt(p, e, s) ==
  /\ p \in {Absent, Scheduled} => s = "initiated"
  /\ p = At("document", "call") => s = "document_analysis"
  /\ p \in {At("kyc", "call"), At("kyc", "unwind")} => s = "kyc_verification"
  /\ p \in {At("kyc", "close"), At("sanctions", "call"), At("sanctions", "unwind")}
       => s = "sanctions_screening"
  /\ p = At("sanctions", "close") => s = AfterSanctions(e)
  /\ p \in {At("kyb", "call"), At("kyb", "unwind")} => s = "kyb_lookup"
  /\ p = At("kyb", "close") => s = "ubo_calculation"
  /\ p = At("ubo", "call") => s \in {"kyb_lookup", "ubo_calculation"}
  /\ p = Done => s \in Terminal

\* The task's own machine is always where the code position of _run_pipeline
\* says, whatever operators do to the WorkflowState meanwhile; in particular
\* every complete_* trigger before the UBO step is legal when it is fired.
MachineFollowsTask ==
  \A c \in Cases : MachineAt(task[c], ws[c].entity, sm[c])

\* A case whose pipeline has ended COMPLETED holds a result of every check its
\* entity type calls for, and a score: triggers posted to /advance while
\* _run_pipeline is suspended cannot make it skip KYB or UBO and still complete.
CompletedOnFullEvidence ==
  \A c \in Cases :
    Settled(c) /\ ws[c].state = "completed" =>
      /\ ws[c].scored
      /\ \A k \in Required(ws[c].entity) : ws[c].checks[k] # "none"

\* Once the pipeline has ended, the case is COMPLETED or FAILED, its machine
\* agrees, and it carries an error exactly when it FAILED: no exception raised
\* in _run_pipeline is lost and none is left on a completed case.
SettledHasVerdict ==
  \A c \in Cases :
    Settled(c) => /\ ws[c].state \in Terminal
                  /\ ws[c].state = sm[c]
                  /\ ws[c].error <=> ws[c].state = "failed"

\* The score was computed from the document, sanctions and UBO results the case
\* still shows: no check completes behind the score's back.
ScoreMatchesChecks ==
  \A c \in Cases :
    ws[c].scored => \A k \in ScoreInputs \ {"kyc"} : ws[c].score[k] = ws[c].checks[k]

\* An individual is never put through KYB or UBO, by the pipeline or by the
\* triggers of an operator.
IndividualsSkipCompanyChecks ==
  \A c \in Cases :
    ws[c].entity = "individual" =>
      /\ ws[c].state \notin {"kyb_lookup", "ubo_calculation"}
      /\ ws[c].checks["kyb"] = "none" /\ ws[c].checks["ubo"] = "none"

\* Every case accepted by POST /onboarding/initiate is settled, or forgotten by
\* a restart: the pipeline never waits on an operator.
EveryCaseSettles ==
  \A c \in Cases : task[c] = Scheduled ~> task[c] \in {Done, Absent}

\* The promise of OnboardingLifecycle, in which /advance does not appear: it can
\* neither settle a case nor approve one on less than the required evidence.
StatusOf(c) ==
  IF task[c] = Absent THEN "absent"
  ELSE IF task[c] # Done THEN "running"
  ELSE IF ws[c].state = "completed" THEN "approved" ELSE "refused"

Lifecycle == INSTANCE OnboardingLifecycle WITH
  entity   <- [c \in Cases |-> ws[c].entity],
  status   <- [c \in Cases |-> StatusOf(c)],
  evidence <- [c \in Cases |-> {k \in Checks : ws[c].checks[k] # "none"}]

\* The pipeline with its interfering routes implements the lifecycle.
ImplementsLifecycle == Lifecycle!LifecycleSpec
=============================================================================
