-------------------------- MODULE OnboardingProofs --------------------------
(***************************************************************************)
(* Proofs about Onboarding, for any number of cases and of concurrent      *)
(* /kyc/verify requests, and any triggers posted to /advance.              *)
(*                                                                         *)
(* The invariant is stated of one case at a time: CaseOK relates a         *)
(* workflow state w, the machine state s of its pipeline and the point p   *)
(* where that pipeline is suspended. Every segment of the pipeline ends in *)
(* Resume, so each action needs CaseOK of the three values it resumes with.*)
(***************************************************************************)
EXTENDS OnboardingProperties, TLAPS

\* The checks with a result once the pipeline's machine has reached s.
EvidenceAt(s, e) ==
  CASE s \in {"initiated", "document_analysis", "failed"} -> {}
    [] s = "kyc_verification"    -> {"document"}
    [] s = "sanctions_screening" -> {"document", "kyc"}
    [] s = "kyb_lookup"          -> {"document", "kyc", "sanctions"}
    [] s = "ubo_calculation"     -> {"document", "kyc", "sanctions", "kyb"}
    [] s \in {"risk_aggregation", "completed"} -> Required(e)

\* What no step may break of a workflow state taken alone.
StateOK(w) ==
  /\ w \in WorkflowState
  /\ w.entity = "individual" => /\ w.state \notin {"kyb_lookup", "ubo_calculation"}
                                /\ w.checks["kyb"] = "none" /\ w.checks["ubo"] = "none"
  /\ w.scored => \A k \in ScoreInputs \ {"kyc"} : w.score[k] = w.checks[k]

EvidenceOK(w, s) ==
  /\ \A k \in EvidenceAt(s, w.entity) : w.checks[k] # "none"
  /\ w.entity = "individual" => s \notin {"kyb_lookup", "ubo_calculation"}

RunningOK(w, p) == p # Done => ~ w.error /\ ~ w.scored

VerdictOK(w, s, p) ==
  p = Done => /\ w.state = s
              /\ w.error <=> w.state = "failed"
              /\ s = "completed" => w.scored

CaseOK(w, s, p) ==
  /\ StateOK(w)
  /\ MachineAt(p, w.entity, s)
  /\ EvidenceOK(w, s)
  /\ RunningOK(w, p)
  /\ VerdictOK(w, s, p)

VerifyOK ==
  \A r \in Requests :
    /\ verify[r].phase # "idle" => verify[r].case \in Cases
    /\ verify[r].phase # "idle" => Known(verify[r].case)
    /\ verify[r].phase = "close" => verify[r].result \in Answers

IInv ==
  /\ TypeOK
  /\ VerifyOK
  /\ \A c \in Cases : CaseOK(ws[c], sm[c], task[c])

-----------------------------------------------------------------------------
(* Facts about one case *)

LEMMA NewCase ==
  ASSUME NEW e \in Entities, NEW p \in {Absent, Scheduled}
  PROVE  CaseOK(NewWorkflowState(e), "initiated", p)
  BY SMTT(60) DEF CaseOK, StateOK, EvidenceOK, RunningOK, VerdictOK, MachineAt, EvidenceAt,
         NewWorkflowState, WorkflowState, Absent, Scheduled, Done, At, Entities,
         OnboardingState, Results, Answers, Checks, ScoreInputs, AdapterChecks

LEMMA StoreKeepsState ==
  ASSUME NEW w, StateOK(w), NEW k \in Checks, NEW r \in Answers, ~ w.scored,
         w.entity = "individual" => k \notin {"kyb", "ubo"}
  PROVE  /\ StateOK(Store(w, k, r))
         /\ Store(w, k, r).entity = w.entity /\ Store(w, k, r).error = w.error
         /\ Store(w, k, r).state = w.state /\ ~ Store(w, k, r).scored
         /\ Store(w, k, r).checks[k] # "none"
         /\ \A j \in Checks : w.checks[j] # "none" => Store(w, k, r).checks[j] # "none"
  BY DEF StateOK, Store, WorkflowState, Results, Answers, Checks, ScoreInputs

LEMMA ReverifyKeepsCase ==
  ASSUME NEW w, NEW s, NEW p, CaseOK(w, s, p), NEW r \in Answers
  PROVE  CaseOK(Store(w, "kyc", r), s, p)
  BY DEF CaseOK, StateOK, EvidenceOK, RunningOK, VerdictOK, Store, WorkflowState,
         Results, Answers, Checks, ScoreInputs

LEMMA MoveKeepsState ==
  ASSUME NEW w, StateOK(w), NEW d \in OnboardingState,
         w.entity = "individual" => d \notin {"kyb_lookup", "ubo_calculation"}
  PROVE  /\ StateOK([w EXCEPT !.state = d])
         /\ [w EXCEPT !.state = d].entity = w.entity
         /\ [w EXCEPT !.state = d].checks = w.checks
         /\ [w EXCEPT !.state = d].scored = w.scored
         /\ [w EXCEPT !.state = d].error = w.error
         /\ [w EXCEPT !.state = d].state = d
  BY DEF StateOK, WorkflowState, ScoreInputs

LEMMA FailedCase ==
  ASSUME NEW w, StateOK(w)
  PROVE  CaseOK([w EXCEPT !.state = "failed", !.error = TRUE], "failed", Done)
  BY DEF CaseOK, StateOK, EvidenceOK, RunningOK, VerdictOK, MachineAt, EvidenceAt, Terminal,
         WorkflowState, OnboardingState, ScoreInputs, Absent, Scheduled, Done, At

-----------------------------------------------------------------------------
(* How a segment ends *)

LEMMA ResumeKeepsInv ==
  ASSUME IInv, NEW c \in Cases, NEW w, NEW s \in OnboardingState, NEW p \in TaskPoints,
         p # Absent, Known(c) => p # Scheduled, CaseOK(w, s, p), Resume(c, w, s, p)
  PROVE  IInv'
<1>1. w \in WorkflowState
  BY DEF CaseOK, StateOK
<1>2. TypeOK'
  BY <1>1 DEF IInv, TypeOK, Resume
<1>3. VerifyOK'
  BY DEF IInv, TypeOK, VerifyOK, Resume, Known
<1>4. \A d \in Cases : CaseOK(ws'[d], sm'[d], task'[d])
  BY DEF IInv, TypeOK, Resume
<1>5. QED
  BY <1>2, <1>3, <1>4 DEF IInv

LEMMA FailKeepsInv ==
  ASSUME IInv, NEW c \in Cases, NEW w, StateOK(w), NEW s \in FailSources, Fail(c, w, s)
  PROVE  IInv'
<1>1. CaseOK([w EXCEPT !.state = "failed", !.error = TRUE], "failed", Done)
  BY FailedCase
<1>2. Resume(c, [w EXCEPT !.state = "failed", !.error = TRUE], "failed", Done)
  BY DEF Fail
<1>3. Done \in TaskPoints /\ Done # Absent /\ Done # Scheduled /\ "failed" \in OnboardingState
  BY DEF TaskPoints, Done, Absent, Scheduled, At, OnboardingState
<1>4. QED
  BY <1>1, <1>2, <1>3, ResumeKeepsInv

LEMMA CompletedCase ==
  ASSUME NEW w, StateOK(w), ~ w.error, EvidenceOK(w, "risk_aggregation")
  PROVE  CaseOK([[w EXCEPT !.scored = TRUE, !.score = ScoreOf(w)] EXCEPT !.state = "completed"],
                "completed", Done)
  BY DEF CaseOK, StateOK, EvidenceOK, RunningOK, VerdictOK, MachineAt, EvidenceAt, Terminal,
         ScoreOf, WorkflowState, OnboardingState, Checks, ScoreInputs, Results, Answers,
         Absent, Scheduled, Done, At

LEMMA ScoredState ==
  ASSUME NEW w, StateOK(w)
  PROVE  StateOK([w EXCEPT !.scored = TRUE, !.score = ScoreOf(w)])
  BY DEF StateOK, ScoreOf, WorkflowState, Checks, ScoreInputs, Results, Answers

LEMMA AggregateKeepsInv ==
  ASSUME IInv, NEW c \in Cases, NEW w, StateOK(w), ~ w.error, NEW s \in FailSources,
         EvidenceOK(w, s), Aggregate(c, w, s)
  PROVE  IInv'
<1> DEFINE scored == [w EXCEPT !.scored = TRUE, !.score = ScoreOf(w)]
<1>1. CASE Fires("complete_risk_aggregation", w.entity, s, "completed")
  <2>1. s = "risk_aggregation"
    BY <1>1 DEF Fires
  <2>2. CaseOK([scored EXCEPT !.state = "completed"], "completed", Done)
    BY <2>1, CompletedCase
  <2>3. Resume(c, [scored EXCEPT !.state = "completed"], "completed", Done)
    BY <1>1 DEF Aggregate
  <2>4. Done \in TaskPoints /\ Done # Absent /\ Done # Scheduled /\ "completed" \in OnboardingState
    BY DEF TaskPoints, Done, Absent, Scheduled, At, OnboardingState
  <2>5. QED
    BY <2>2, <2>3, <2>4, ResumeKeepsInv
<1>2. CASE ~ Fires("complete_risk_aggregation", w.entity, s, "completed")
  <2>1. StateOK(scored)
    BY ScoredState
  <2>2. Fail(c, scored, s)
    BY <1>2 DEF Aggregate
  <2>3. QED
    BY <2>1, <2>2, FailKeepsInv
<1>3. QED
  BY <1>1, <1>2

LEMMA SuspendKeepsInv ==
  ASSUME IInv, NEW c \in Cases, NEW w, StateOK(w), ~ w.error, ~ w.scored,
         NEW s \in OnboardingState, NEW p \in TaskPoints \ {Absent, Scheduled, Done},
         MachineAt(p, w.entity, s), EvidenceOK(w, s), Resume(c, w, s, p)
  PROVE  IInv'
<1>1. CaseOK(w, s, p)
  BY DEF CaseOK, RunningOK, VerdictOK
<1>2. QED
  BY <1>1, ResumeKeepsInv

LEMMA OpenAdapterKeepsInv ==
  ASSUME IInv, NEW c \in Cases, NEW w, StateOK(w), ~ w.error, ~ w.scored,
         NEW k \in AdapterChecks, NEW s \in FailSources,
         MachineAt(At(k, "call"), w.entity, s), EvidenceOK(w, s), OpenAdapter(c, w, s, k)
  PROVE  IInv'
<1>1. At(k, "call") \in TaskPoints \ {Absent, Scheduled, Done}
  BY DEF TaskPoints, At, AdapterChecks, Absent, Scheduled, Done
<1>2. s \in OnboardingState
  BY DEF FailSources, OnboardingState
<1>3. QED
  BY <1>1, <1>2, SuspendKeepsInv, FailKeepsInv DEF OpenAdapter

LEMMA UboOrAggregateKeepsInv ==
  ASSUME IInv, NEW c \in Cases, NEW w, StateOK(w), ~ w.error, ~ w.scored,
         NEW s \in FailSources, EvidenceOK(w, s),
         w.state = "ubo_calculation" => s \in {"kyb_lookup", "ubo_calculation"},
         UboOrAggregate(c, w, s)
  PROVE  IInv'
<1>1. At("ubo", "call") \in TaskPoints \ {Absent, Scheduled, Done}
  BY DEF TaskPoints, At, Absent, Scheduled, Done
<1>2. s \in OnboardingState
  BY DEF FailSources, OnboardingState
<1>3. CASE w.state = "ubo_calculation" /\ Resume(c, w, s, At("ubo", "call"))
  <2>1. MachineAt(At("ubo", "call"), w.entity, s)
    BY <1>3 DEF MachineAt, At, Absent, Scheduled, Done
  <2>2. QED
    BY <1>1, <1>2, <1>3, <2>1, SuspendKeepsInv
<1>4. CASE Aggregate(c, w, s)
  BY <1>4, AggregateKeepsInv
<1>5. QED
  BY <1>3, <1>4 DEF UboOrAggregate

-----------------------------------------------------------------------------
(* The actions *)

LEMMA InitiateKeepsInv ==
  ASSUME IInv, NEW c \in Cases, Initiate(c)
  PROVE  IInv'
<1>1. PICK e \in Entities : Resume(c, NewWorkflowState(e), "initiated", Scheduled)
  BY DEF Initiate
<1>2. CaseOK(NewWorkflowState(e), "initiated", Scheduled)
  BY NewCase
<1>3. Scheduled \in TaskPoints /\ Scheduled # Absent /\ "initiated" \in OnboardingState
  BY DEF TaskPoints, Absent, Scheduled, At, OnboardingState
<1>4. ~ Known(c)
  BY DEF Initiate, Known
<1>5. QED
  BY <1>1, <1>2, <1>3, <1>4, ResumeKeepsInv

\* What the invariant says of a case whose pipeline is suspended.
LEMMA SuspendedCase ==
  ASSUME IInv, NEW c \in Cases, task[c] # Done
  PROVE  /\ StateOK(ws[c]) /\ ~ ws[c].error /\ ~ ws[c].scored
         /\ ws[c].entity \in Entities /\ ws[c].state \in OnboardingState
         /\ MachineAt(task[c], ws[c].entity, sm[c])
         /\ EvidenceOK(ws[c], sm[c])
  BY DEF IInv, CaseOK, RunningOK, StateOK, WorkflowState

LEMMA StartKeepsInv ==
  ASSUME IInv, NEW c \in Cases, StartPipeline(c)
  PROVE  IInv'
<1>1. PICK d \in OnboardingState :
        /\ Fires("start_document_analysis", ws[c].entity, ws[c].state, d)
        /\ Resume(c, [ws[c] EXCEPT !.state = d], d, At("document", "call"))
  BY DEF StartPipeline
<1>2. d = "document_analysis"
  BY <1>1 DEF Fires
<1>3. task[c] # Done
  BY DEF StartPipeline, Scheduled, Done, At
<1> DEFINE w == [ws[c] EXCEPT !.state = d]
<1>4. StateOK(w) /\ ~ w.error /\ ~ w.scored
  BY <1>2, <1>3, SuspendedCase, MoveKeepsState
<1>5. EvidenceOK(w, d) /\ MachineAt(At("document", "call"), w.entity, d)
  BY <1>2 DEF EvidenceOK, EvidenceAt, MachineAt, At, Absent, Scheduled, Done
<1>6. At("document", "call") \in TaskPoints \ {Absent, Scheduled, Done}
  BY DEF TaskPoints, At, Absent, Scheduled, Done
<1>7. QED
  BY <1>1, <1>4, <1>5, <1>6, SuspendKeepsInv

\* A result stored and the machine moved on by the check's complete_* trigger.
LEMMA StoreAndMove ==
  ASSUME NEW w, StateOK(w), ~ w.error, ~ w.scored, NEW s, EvidenceOK(w, s),
         NEW k \in Checks, NEW r \in Answers,
         w.entity = "individual" => k \notin {"kyb", "ubo"},
         NEW d \in OnboardingState, Fires(CompleteTrigger(k), w.entity, s, d)
  PROVE  LET v == [Store(w, k, r) EXCEPT !.state = d]
         IN StateOK(v) /\ ~ v.error /\ ~ v.scored /\ EvidenceOK(v, d) /\ v.entity = w.entity
<1> DEFINE u == Store(w, k, r)
           v == [u EXCEPT !.state = d]
<1>1. /\ StateOK(u) /\ u.entity = w.entity /\ u.error = w.error /\ ~ u.scored
      /\ u.checks[k] # "none"
      /\ \A j \in Checks : w.checks[j] # "none" => u.checks[j] # "none"
  BY StoreKeepsState
<1>2. w.entity \in Entities
  BY DEF StateOK, WorkflowState
<1>3. \/ s = "document_analysis" /\ k = "document" /\ d = "kyc_verification"
      \/ s = "kyc_verification" /\ k = "kyc" /\ d = "sanctions_screening"
      \/ s = "sanctions_screening" /\ k = "sanctions" /\ d = AfterSanctions(w.entity)
      \/ s = "kyb_lookup" /\ k = "kyb" /\ d = "ubo_calculation"
      \/ s = "ubo_calculation" /\ k = "ubo" /\ d = "risk_aggregation"
  BY DEF Fires, CompleteTrigger, Checks
<1>4. w.entity = "individual" => d \notin {"kyb_lookup", "ubo_calculation"}
  BY <1>3 DEF AfterSanctions
<1>5. /\ StateOK(v) /\ v.entity = u.entity /\ v.checks = u.checks
      /\ v.scored = u.scored /\ v.error = u.error
  BY <1>1, <1>4, MoveKeepsState
<1>6. EvidenceOK(v, d)
  BY <1>1, <1>2, <1>3, <1>5
     DEF EvidenceOK, EvidenceAt, AfterSanctions, Required, Checks, Entities
<1>7. QED
  BY <1>1, <1>5, <1>6

LEMMA MachineIsFailable ==
  ASSUME NEW p \in TaskPoints \ {Absent, Scheduled, Done}, NEW e, NEW s, MachineAt(p, e, s)
  PROVE  s \in FailSources
  BY DEF TaskPoints, At, Absent, Scheduled, Done, MachineAt, AdapterChecks, AfterSanctions,
         FailSources

\* An exception at any suspension point leaves the case FAILED.
LEMMA RaiseKeepsInv ==
  ASSUME IInv, NEW c \in Cases, task[c] \in TaskPoints \ {Absent, Scheduled, Done},
         Fail(c, ws[c], sm[c])
  PROVE  IInv'
<1>1. StateOK(ws[c]) /\ sm[c] \in FailSources
  BY SuspendedCase, MachineIsFailable
<1>2. QED
  BY <1>1, FailKeepsInv

LEMMA DocumentKeepsInv ==
  ASSUME IInv, NEW c \in Cases, NEW r \in Answers, DocumentAnalysed(c, r)
  PROVE  IInv'
<1> DEFINE w == Store(ws[c], "document", r)
<1>1. task[c] = At("document", "call") /\ task[c] # Done
  BY DEF DocumentAnalysed, At, Done
<1>2. /\ StateOK(ws[c]) /\ ~ ws[c].error /\ ~ ws[c].scored /\ EvidenceOK(ws[c], sm[c])
      /\ sm[c] = "document_analysis"
  BY <1>1, SuspendedCase DEF MachineAt
<1>3. w.entity = ws[c].entity
  BY <1>2, StoreKeepsState DEF Checks
<1>4. PICK d \in OnboardingState : /\ Fires(CompleteTrigger("document"), w.entity, sm[c], d)
                                   /\ OpenAdapter(c, [w EXCEPT !.state = d], d, "kyc")
  BY DEF DocumentAnalysed
<1>5. d = "kyc_verification"
  BY <1>4 DEF Fires, CompleteTrigger
<1> DEFINE v == [w EXCEPT !.state = d]
<1>6. StateOK(v) /\ ~ v.error /\ ~ v.scored /\ EvidenceOK(v, d)
  BY <1>2, <1>3, <1>4, StoreAndMove DEF Checks
<1>7. d \in FailSources /\ MachineAt(At("kyc", "call"), v.entity, d)
  BY <1>5 DEF FailSources, MachineAt, At, Absent, Scheduled, Done
<1>8. QED
  BY <1>4, <1>6, <1>7, OpenAdapterKeepsInv DEF AdapterChecks

LEMMA AnswerKeepsInv ==
  ASSUME IInv, NEW c \in Cases, NEW k \in AdapterChecks, NEW r \in Answers,
         AdapterAnswered(c, k, r)
  PROVE  IInv'
<1> DEFINE w == Store(ws[c], k, r)
<1>1. task[c] = At(k, "call") /\ task[c] # Done
  BY DEF AdapterAnswered, At, Done, AdapterChecks
<1>2. /\ StateOK(ws[c]) /\ ~ ws[c].error /\ ~ ws[c].scored /\ EvidenceOK(ws[c], sm[c])
      /\ ws[c].entity \in Entities /\ MachineAt(At(k, "call"), ws[c].entity, sm[c])
  BY <1>1, SuspendedCase
<1>3. ws[c].entity = "individual" => k \notin {"kyb", "ubo"}
  BY <1>2 DEF MachineAt, EvidenceOK, AdapterChecks
<1>4. w.entity = ws[c].entity
  <2>1. k \in Checks
    BY DEF Checks, AdapterChecks
  <2>2. QED
    BY <1>2, <1>3, <2>1, StoreKeepsState
<1>5. PICK d \in OnboardingState : /\ Fires(CompleteTrigger(k), w.entity, sm[c], d)
                                   /\ Resume(c, [w EXCEPT !.state = d], d, At(k, "close"))
  BY DEF AdapterAnswered
<1> DEFINE v == [w EXCEPT !.state = d]
<1>6. StateOK(v) /\ ~ v.error /\ ~ v.scored /\ EvidenceOK(v, d) /\ v.entity = ws[c].entity
  BY <1>2, <1>3, <1>4, <1>5, StoreAndMove DEF Checks, AdapterChecks
<1>7. MachineAt(At(k, "close"), v.entity, d)
  BY <1>4, <1>5, <1>6 DEF Fires, CompleteTrigger, MachineAt, At, Absent, Scheduled, Done,
                     AdapterChecks
<1>8. At(k, "close") \in TaskPoints \ {Absent, Scheduled, Done}
  BY DEF TaskPoints, At, Absent, Scheduled, Done
<1>9. QED
  BY <1>5, <1>6, <1>7, <1>8, SuspendKeepsInv

LEMMA AdapterRaisedKeepsInv ==
  ASSUME IInv, NEW c \in Cases, NEW k \in AdapterChecks, AdapterRaised(c, k)
  PROVE  IInv'
<1>1. /\ task[c] = At(k, "call") /\ task[c] # Done
      /\ Resume(c, ws[c], sm[c], At(k, "unwind"))
  BY DEF AdapterRaised, At, Done, AdapterChecks
<1>2. At(k, "unwind") \in TaskPoints \ {Absent, Scheduled, Done} /\ sm[c] \in OnboardingState
  BY DEF TaskPoints, At, Absent, Scheduled, Done, IInv, TypeOK
<1>3. MachineAt(At(k, "unwind"), ws[c].entity, sm[c])
  BY <1>1, SuspendedCase DEF MachineAt, At, Absent, Scheduled, Done, AdapterChecks
<1>4. QED
  BY <1>1, <1>2, <1>3, SuspendedCase, SuspendKeepsInv

LEMMA ClosedKeepsInv ==
  ASSUME IInv, NEW c \in Cases, KycClosed(c) \/ SanctionsClosed(c) \/ KybClosed(c)
  PROVE  IInv'
<1>1. task[c] # Done
  BY DEF KycClosed, SanctionsClosed, KybClosed, At, Done
<1>2. /\ StateOK(ws[c]) /\ ~ ws[c].error /\ ~ ws[c].scored /\ EvidenceOK(ws[c], sm[c])
      /\ ws[c].entity \in Entities /\ MachineAt(task[c], ws[c].entity, sm[c])
  BY <1>1, SuspendedCase
<1>3. CASE KycClosed(c)
  <2>1. sm[c] = "sanctions_screening" /\ OpenAdapter(c, ws[c], sm[c], "sanctions")
    BY <1>2, <1>3 DEF KycClosed, MachineAt
  <2>2. sm[c] \in FailSources /\ MachineAt(At("sanctions", "call"), ws[c].entity, sm[c])
    BY <2>1 DEF FailSources, MachineAt, At, Absent, Scheduled, Done
  <2>3. QED
    BY <1>2, <2>1, <2>2, OpenAdapterKeepsInv DEF AdapterChecks
<1>4. CASE SanctionsClosed(c)
  <2>1. sm[c] = AfterSanctions(ws[c].entity) /\ sm[c] \in FailSources
    BY <1>2, <1>4 DEF SanctionsClosed, MachineAt, AfterSanctions, FailSources
  <2>2. ws[c].state \in {"kyb_lookup", "ubo_calculation"} => sm[c] = "kyb_lookup"
    BY <1>2, <2>1 DEF AfterSanctions, StateOK, Entities
  <2>3. CASE ws[c].state = "kyb_lookup" /\ OpenAdapter(c, ws[c], sm[c], "kyb")
    <3>1. MachineAt(At("kyb", "call"), ws[c].entity, sm[c])
      BY <2>2, <2>3 DEF MachineAt, At, Absent, Scheduled, Done
    <3>2. QED
      BY <1>2, <2>1, <2>3, <3>1, OpenAdapterKeepsInv DEF AdapterChecks
  <2>4. CASE UboOrAggregate(c, ws[c], sm[c])
    BY <1>2, <2>1, <2>2, <2>4, UboOrAggregateKeepsInv
  <2>5. QED
    BY <1>4, <2>3, <2>4 DEF SanctionsClosed
<1>5. CASE KybClosed(c)
  <2>1. sm[c] = "ubo_calculation" /\ UboOrAggregate(c, ws[c], sm[c])
    BY <1>2, <1>5 DEF KybClosed, MachineAt
  <2>2. sm[c] \in FailSources
    BY <2>1 DEF FailSources
  <2>3. QED
    BY <1>2, <2>1, <2>2, UboOrAggregateKeepsInv
<1>6. QED
  BY <1>3, <1>4, <1>5

LEMMA UboKeepsInv ==
  ASSUME IInv, NEW c \in Cases, NEW r \in Answers, UboCalculated(c, r)
  PROVE  IInv'
<1> DEFINE w == Store(ws[c], "ubo", r)
           legal == Fires(CompleteTrigger("ubo"), w.entity, sm[c], "risk_aggregation")
<1>1. task[c] = At("ubo", "call") /\ task[c] # Done
  BY DEF UboCalculated, At, Done
<1>2. /\ StateOK(ws[c]) /\ ~ ws[c].error /\ ~ ws[c].scored /\ EvidenceOK(ws[c], sm[c])
      /\ sm[c] \in {"kyb_lookup", "ubo_calculation"}
  BY <1>1, SuspendedCase DEF MachineAt
<1>3. ws[c].entity # "individual"
  BY <1>2 DEF EvidenceOK
<1>4. StateOK(w) /\ w.entity = ws[c].entity
  BY <1>2, <1>3, StoreKeepsState DEF Checks
<1>5. CASE legal /\ Aggregate(c, [w EXCEPT !.state = "risk_aggregation"], "risk_aggregation")
  <2> DEFINE v == [w EXCEPT !.state = "risk_aggregation"]
  <2>1. "risk_aggregation" \in OnboardingState /\ "risk_aggregation" \in FailSources
    BY DEF OnboardingState, FailSources
  <2>2. StateOK(v) /\ ~ v.error /\ EvidenceOK(v, "risk_aggregation")
    BY <1>2, <1>3, <1>4, <1>5, <2>1, StoreAndMove DEF Checks
  <2>3. QED
    BY <1>5, <2>1, <2>2, AggregateKeepsInv
<1>6. CASE Fail(c, w, sm[c])
  BY <1>2, <1>4, <1>6, FailKeepsInv DEF FailSources
<1>7. QED
  BY <1>5, <1>6 DEF UboCalculated

LEMMA PipelineKeepsInv ==
  ASSUME IInv, NEW c \in Cases, Pipeline(c)
  PROVE  IInv'
<1>1. CASE DocumentRaised(c)
  BY <1>1, RaiseKeepsInv DEF DocumentRaised, TaskPoints, At, Absent, Scheduled, Done
<1>2. ASSUME NEW k \in AdapterChecks, AdapterUnwound(c, k)
      PROVE  IInv'
  BY <1>2, RaiseKeepsInv DEF AdapterUnwound, TaskPoints, At, Absent, Scheduled, Done
<1>3. QED
  BY <1>1, <1>2, StartKeepsInv, DocumentKeepsInv, AnswerKeepsInv, AdapterRaisedKeepsInv,
     ClosedKeepsInv, UboKeepsInv DEF Pipeline

\* The pipeline may be anywhere: CaseOK does not look at the WorkflowState's own
\* state before the pipeline is done, and no trigger is legal after.
LEMMA AdvanceKeepsInv ==
  ASSUME IInv, NEW c \in Cases, NEW t \in Triggers, Advance(c, t)
  PROVE  IInv'
<1>1. PICK d \in OnboardingState : /\ Fires(t, ws[c].entity, ws[c].state, d)
                                   /\ ws' = [ws EXCEPT ![c].state = d]
  BY DEF Advance
<1>2. UNCHANGED <<sm, task, verify>>
  BY DEF Advance
<1> DEFINE w == [ws[c] EXCEPT !.state = d]
<1>3. CaseOK(ws[c], sm[c], task[c]) /\ ws[c] \in WorkflowState
  BY DEF IInv, TypeOK
<1>4. ws[c].state \notin Terminal
  BY <1>1 DEF Fires, FailSources, Terminal
<1>5. task[c] # Done
  BY <1>3, <1>4 DEF CaseOK, VerdictOK, MachineAt
<1>6. ws[c].entity = "individual" => d \notin {"kyb_lookup", "ubo_calculation"}
  BY <1>1, <1>3 DEF Fires, AfterSanctions, CaseOK, StateOK
<1>7. /\ StateOK(w) /\ w.entity = ws[c].entity /\ w.checks = ws[c].checks
      /\ w.scored = ws[c].scored /\ w.error = ws[c].error
  BY <1>3, <1>6, MoveKeepsState DEF CaseOK
<1>8. CaseOK(w, sm[c], task[c])
  BY <1>3, <1>5, <1>7 DEF CaseOK, EvidenceOK, RunningOK, VerdictOK
<1>9. ws' = [ws EXCEPT ![c] = w]
  BY <1>1
<1>10. TypeOK'
  BY <1>2, <1>7, <1>9 DEF IInv, TypeOK, StateOK
<1>11. VerifyOK'
  BY <1>2 DEF IInv, VerifyOK, Known
<1>12. \A e \in Cases : CaseOK(ws'[e], sm'[e], task'[e])
  BY <1>2, <1>8, <1>9 DEF IInv, TypeOK
<1>13. QED
  BY <1>10, <1>11, <1>12 DEF IInv

LEMMA VerificationKeepsInv ==
  ASSUME IInv, NEW r \in Requests, Verification(r)
  PROVE  IInv'
<1>1. ASSUME NEW c \in Cases, VerifyStart(r, c)
      PROVE  IInv'
  BY <1>1 DEF IInv, TypeOK, VerifyOK, VerifyStart, VerifyPoints, Known, Results, Answers
<1>2. ASSUME NEW a \in Answers, VerifyAnswered(r, a)
      PROVE  IInv'
  BY <1>2 DEF IInv, TypeOK, VerifyOK, VerifyAnswered, VerifyPoints, Known, Results, Answers
<1>3. CASE VerifyRaised(r)
  BY <1>3 DEF IInv, TypeOK, VerifyOK, VerifyRaised, VerifyPoints, Known, Results, Idle
<1>4. CASE VerifyClosed(r)
  <2> DEFINE c == verify[r].case
             w == Store(ws[c], "kyc", verify[r].result)
  <2>1. c \in Cases /\ verify[r].result \in Answers
    BY <1>4 DEF IInv, VerifyOK, VerifyClosed
  <2>2. CaseOK(w, sm[c], task[c])
    BY <2>1, ReverifyKeepsCase DEF IInv
  <2>3. ws' = [ws EXCEPT ![c] = w] /\ verify' = [verify EXCEPT ![r] = Idle]
        /\ UNCHANGED <<sm, task>>
    BY <1>4 DEF VerifyClosed
  <2>4. TypeOK'
    BY <2>1, <2>2, <2>3 DEF IInv, TypeOK, CaseOK, StateOK, VerifyPoints, Idle, Results
  <2>5. VerifyOK'
    BY <2>3 DEF IInv, TypeOK, VerifyOK, Known, Idle
  <2>6. \A e \in Cases : CaseOK(ws'[e], sm'[e], task'[e])
    BY <2>1, <2>2, <2>3 DEF IInv, TypeOK
  <2>7. QED
    BY <2>4, <2>5, <2>6 DEF IInv
<1>5. QED
  BY <1>1, <1>2, <1>3, <1>4 DEF Verification

LEMMA InitInv == Init => IInv
<1> SUFFICES ASSUME Init PROVE IInv
  OBVIOUS
<1>1. CaseOK(NewWorkflowState("individual"), "initiated", Absent)
  BY NewCase DEF Entities
<1>2. NewWorkflowState("individual") \in WorkflowState
  BY <1>1 DEF CaseOK, StateOK
<1>3. TypeOK
  BY <1>2 DEF Init, TypeOK, OnboardingState, TaskPoints, VerifyPoints, Idle, Results
<1>4. VerifyOK
  BY DEF Init, VerifyOK, Idle
<1>5. QED
  BY <1>1, <1>3, <1>4 DEF Init, IInv

\* A restarted process is in its initial state.
LEMMA RestartInits == Restart => Init'
  BY DEF Restart, Init

LEMMA NextKeepsInv == IInv /\ [Next]_vars => IInv'
<1>1. IInv /\ (\E c \in Cases : Initiate(c)) => IInv'
  BY InitiateKeepsInv
<1>2. IInv /\ (\E c \in Cases : Pipeline(c)) => IInv'
  BY PipelineKeepsInv
<1>3. IInv /\ (\E c \in Cases, t \in Triggers : Advance(c, t)) => IInv'
  BY AdvanceKeepsInv
<1>4. IInv /\ (\E r \in Requests : Verification(r)) => IInv'
  BY VerificationKeepsInv
<1>5. Restart => IInv'
  <2>1. Init' => IInv'
    BY InitInv, PTL
  <2>2. QED
    BY <2>1, RestartInits
<1>6. IInv /\ UNCHANGED vars => IInv'
  BY DEF vars, IInv, TypeOK, VerifyOK, Known
<1>7. QED
  BY <1>1, <1>2, <1>3, <1>4, <1>5, <1>6 DEF Next

-----------------------------------------------------------------------------
(* The theorems *)

\* Every behaviour of the workflow satisfies the inductive invariant.
THEOREM Invariance == Spec => []IInv
  BY InitInv, NextKeepsInv, PTL DEF Spec

\* The variables keep their types.
THEOREM TypeCorrect == Spec => []TypeOK
<1>1. IInv => TypeOK
  BY DEF IInv
<1>2. QED
  BY <1>1, Invariance, PTL

\* The pipeline's own machine is where the code position says, whatever is
\* posted to /advance: its complete_* triggers are legal when it fires them.
THEOREM MachineFollowsTaskTheorem == Spec => []MachineFollowsTask
<1>1. IInv => MachineFollowsTask
  BY DEF IInv, CaseOK, MachineFollowsTask
<1>2. QED
  BY <1>1, Invariance, PTL

\* No interleaving of _run_pipeline with /advance and /kyc/verify completes a
\* case without a score and a result of every check its entity type requires.
THEOREM CompletedOnFullEvidenceTheorem == Spec => []CompletedOnFullEvidence
<1>1. ASSUME IInv, NEW c \in Cases, Settled(c), ws[c].state = "completed"
      PROVE  ws[c].scored /\ \A k \in Required(ws[c].entity) : ws[c].checks[k] # "none"
  <2>1. CaseOK(ws[c], sm[c], task[c]) /\ task[c] = Done
    BY <1>1 DEF IInv, Settled
  <2>2. sm[c] = "completed"
    BY <1>1, <2>1 DEF CaseOK, VerdictOK
  <2>3. QED
    BY <2>1, <2>2 DEF CaseOK, VerdictOK, EvidenceOK, EvidenceAt
<1>2. IInv => CompletedOnFullEvidence
  BY <1>1 DEF CompletedOnFullEvidence
<1>3. QED
  BY <1>2, Invariance, PTL

\* A pipeline that has ended leaves a verdict its machine agrees with, and an
\* error exactly with FAILED.
THEOREM SettledHasVerdictTheorem == Spec => []SettledHasVerdict
<1>1. ASSUME IInv, NEW c \in Cases, Settled(c)
      PROVE  /\ ws[c].state \in Terminal /\ ws[c].state = sm[c]
             /\ ws[c].error <=> ws[c].state = "failed"
  BY <1>1 DEF IInv, CaseOK, VerdictOK, MachineAt, Settled
<1>2. IInv => SettledHasVerdict
  BY <1>1 DEF SettledHasVerdict
<1>3. QED
  BY <1>2, Invariance, PTL

\* The score agrees with the document, sanctions and UBO results on the case.
THEOREM ScoreMatchesChecksTheorem == Spec => []ScoreMatchesChecks
<1>1. IInv => ScoreMatchesChecks
  BY DEF IInv, CaseOK, StateOK, ScoreMatchesChecks
<1>2. QED
  BY <1>1, Invariance, PTL

\* Neither the pipeline nor an operator puts an individual through KYB or UBO.
THEOREM IndividualsSkipCompanyChecksTheorem == Spec => []IndividualsSkipCompanyChecks
<1>1. IInv => IndividualsSkipCompanyChecks
  BY DEF IInv, CaseOK, StateOK, IndividualsSkipCompanyChecks
<1>2. QED
  BY <1>1, Invariance, PTL

-----------------------------------------------------------------------------
(* The lifecycle                                                           *)

\* The checks a workflow state has a result for, and what a step adds to them: nothing, or one
\* check whose turn it is.
Found(w) == {k \in Checks : w.checks[k] # "none"}
Gathered(v, w) ==
  /\ w.entity = v.entity
  /\ \/ Found(w) = Found(v)
     \/ \E k \in Checks : Lifecycle!Before(k) \subseteq Found(v) /\ Found(w) = Found(v) \cup {k}

Moved(c, w, p) ==
  /\ ws' = [ws EXCEPT ![c] = w]
  /\ task' = [task EXCEPT ![c] = p]
  /\ p # Absent

\* A segment that ends with the results of w.
EndsWith(c, w) ==
  \E v, p : Moved(c, v, p) /\ v.entity = w.entity /\ v.checks = w.checks

LEMMA SegmentEnds ==
  ASSUME NEW c \in Cases, NEW w, StateOK(w), NEW s
  PROVE  /\ Fail(c, w, s) => EndsWith(c, w)
         /\ Aggregate(c, w, s) => EndsWith(c, w)
         /\ UboOrAggregate(c, w, s) => EndsWith(c, w)
         /\ \A k \in AdapterChecks : OpenAdapter(c, w, s, k) => EndsWith(c, w)
<1>1. ASSUME NEW v, StateOK(v), Fail(c, v, s)
      PROVE  EndsWith(c, v)
  <2> DEFINE u == [v EXCEPT !.state = "failed", !.error = TRUE]
  <2>1. u.entity = v.entity /\ u.checks = v.checks
    BY <1>1 DEF StateOK, WorkflowState
  <2>2. Moved(c, u, Done)
    BY <1>1 DEF Fail, Resume, Moved, Done, Absent, At
  <2>3. QED
    BY <2>1, <2>2 DEF EndsWith
<1>2. ASSUME Aggregate(c, w, s)
      PROVE  EndsWith(c, w)
  <2> DEFINE scored == [w EXCEPT !.scored = TRUE, !.score = ScoreOf(w)]
             u == [scored EXCEPT !.state = "completed"]
  <2>1. scored.entity = w.entity /\ scored.checks = w.checks /\ StateOK(scored)
    BY ScoredState DEF StateOK, WorkflowState
  <2>2. CASE Resume(c, u, "completed", Done)
    <3>1. u.entity = w.entity /\ u.checks = w.checks
      BY DEF StateOK, WorkflowState
    <3>2. Moved(c, u, Done)
      BY <2>2 DEF Resume, Moved, Done, Absent, At
    <3>3. QED
      BY <3>1, <3>2 DEF EndsWith
  <2>3. CASE Fail(c, scored, s)
    <3>1. EndsWith(c, scored)
      BY <1>1, <2>1, <2>3
    <3>2. QED
      BY <2>1, <3>1 DEF EndsWith
  <2>4. QED
    BY <1>2, <2>2, <2>3 DEF Aggregate
<1>3. ASSUME NEW k \in AdapterChecks \cup {"ubo"}, Resume(c, w, s, At(k, "call"))
      PROVE  EndsWith(c, w)
  BY <1>3 DEF EndsWith, Resume, Moved, Absent, At, AdapterChecks
<1>4. QED
  BY <1>1, <1>2, <1>3 DEF UboOrAggregate, OpenAdapter

\* A result stored adds its check, and nothing else.
LEMMA StoreFinds ==
  ASSUME NEW w, StateOK(w), NEW k \in Checks, NEW r \in Answers
  PROVE  Store(w, k, r).entity = w.entity /\ Found(Store(w, k, r)) = Found(w) \cup {k}
  BY DEF StateOK, Store, Found, WorkflowState, Results, Answers, Checks

\* What each segment of the pipeline adds to the evidence, always in its turn.
LEMMA PipelineGathers ==
  ASSUME IInv, NEW c \in Cases, Pipeline(c)
  PROVE  /\ task[c] \notin {Absent, Done}
         /\ \E w, p : Moved(c, w, p) /\ Gathered(ws[c], w)
<1>1. task[c] \notin {Absent, Done}
  <2> DEFINE Begun == task[c].step \in Checks \cup {"scheduled"}
  <2>1. /\ StartPipeline(c) => Begun
        /\ DocumentRaised(c) => Begun
        /\ \A r \in Answers : (DocumentAnalysed(c, r) => Begun) /\ (UboCalculated(c, r) => Begun)
    BY DEF StartPipeline, DocumentAnalysed, DocumentRaised, UboCalculated, Scheduled, At, Checks
  <2>2. \A k \in AdapterChecks :
          /\ AdapterRaised(c, k) => Begun
          /\ AdapterUnwound(c, k) => Begun
          /\ \A r \in Answers : AdapterAnswered(c, k, r) => Begun
    BY DEF AdapterAnswered, AdapterRaised, AdapterUnwound, At, AdapterChecks, Checks
  <2>3. (KycClosed(c) => Begun) /\ (SanctionsClosed(c) => Begun) /\ (KybClosed(c) => Begun)
    BY DEF KycClosed, SanctionsClosed, KybClosed, At, Checks
  <2>4. Begun => task[c] \notin {Absent, Done}
    BY DEF At, Absent, Done, Checks
  <2> HIDE DEF Begun
  <2>5. Begun
    BY <2>1, <2>2, <2>3, Zenon DEF Pipeline
  <2>6. QED
    BY <2>4, <2>5
<1>2. /\ StateOK(ws[c]) /\ EvidenceOK(ws[c], sm[c]) /\ MachineAt(task[c], ws[c].entity, sm[c])
      /\ ws[c].entity \in Entities /\ ~ ws[c].scored
  BY <1>1, SuspendedCase
<1>3. ASSUME NEW w, EndsWith(c, w), Gathered(ws[c], w)
      PROVE  \E v, p : Moved(c, v, p) /\ Gathered(ws[c], v)
  BY <1>3 DEF EndsWith, Gathered, Found
<1>4. Gathered(ws[c], ws[c])
  BY DEF Gathered
<1>5. ASSUME NEW k \in Checks, NEW r \in Answers, Lifecycle!Before(k) \subseteq Found(ws[c])
      PROVE  Gathered(ws[c], Store(ws[c], k, r))
  BY <1>2, <1>5, StoreFinds DEF Gathered
\* The machine's state says which checks have a result.
<1>6. ASSUME NEW k \in Checks, task[c] = At(k, "call")
      PROVE  Lifecycle!Before(k) \subseteq Found(ws[c])
  BY <1>2, <1>6 DEF MachineAt, EvidenceOK, EvidenceAt, Lifecycle!Before, Found, Checks, At,
     Absent, Scheduled, Done
<1>7. CASE StartPipeline(c)
  <2>1. PICK d \in OnboardingState :
          Resume(c, [ws[c] EXCEPT !.state = d], d, At("document", "call"))
    BY <1>7 DEF StartPipeline
  <2> DEFINE w == [ws[c] EXCEPT !.state = d]
  <2>2. Moved(c, w, At("document", "call"))
    BY <2>1 DEF Resume, Moved, Absent, At
  <2>3. w.entity = ws[c].entity /\ w.checks = ws[c].checks
    BY <1>2 DEF StateOK, WorkflowState
  <2>4. EndsWith(c, ws[c])
    BY <2>2, <2>3 DEF EndsWith
  <2>5. QED
    BY <1>1, <1>3, <1>4, <2>4
<1>8. ASSUME NEW r \in Answers, DocumentAnalysed(c, r)
      PROVE  \E v, p : Moved(c, v, p) /\ Gathered(ws[c], v)
  <2> DEFINE w == Store(ws[c], "document", r)
  <2>1. PICK d \in OnboardingState : /\ Fires(CompleteTrigger("document"), w.entity, sm[c], d)
                                     /\ OpenAdapter(c, [w EXCEPT !.state = d], d, "kyc")
    BY <1>8 DEF DocumentAnalysed
  <2>2. StateOK(w)
    BY <1>2, StoreKeepsState DEF Checks
  <2>3. StateOK([w EXCEPT !.state = d]) /\ [w EXCEPT !.state = d].entity = w.entity
        /\ [w EXCEPT !.state = d].checks = w.checks
    BY <2>1, <2>2, MoveKeepsState DEF Fires, CompleteTrigger
  <2>4. EndsWith(c, [w EXCEPT !.state = d])
    BY <2>1, <2>3, SegmentEnds DEF AdapterChecks
  <2>5. EndsWith(c, w)
    BY <2>3, <2>4 DEF EndsWith
  <2>6. Gathered(ws[c], w)
    BY <1>5, <1>6, <1>8 DEF DocumentAnalysed, Checks
  <2>7. QED
    BY <1>3, <2>5, <2>6
<1>9. ASSUME NEW k \in AdapterChecks, NEW r \in Answers, AdapterAnswered(c, k, r)
      PROVE  \E v, p : Moved(c, v, p) /\ Gathered(ws[c], v)
  <2> DEFINE w == Store(ws[c], k, r)
  <2>1. PICK d \in OnboardingState : Resume(c, [w EXCEPT !.state = d], d, At(k, "close"))
    BY <1>9 DEF AdapterAnswered
  <2>2. w.entity = ws[c].entity /\ w \in WorkflowState
    BY <1>2 DEF Store, StateOK, WorkflowState, Results, Answers, Checks, AdapterChecks
  <2> DEFINE u == [w EXCEPT !.state = d]
  <2>3. Moved(c, u, At(k, "close"))
    BY <2>1 DEF Resume, Moved, Absent, At
  <2>4. u.entity = w.entity /\ u.checks = w.checks
    BY <2>2 DEF WorkflowState
  <2>5. EndsWith(c, w)
    BY <2>3, <2>4 DEF EndsWith
  <2>6. Gathered(ws[c], w)
    BY <1>5, <1>6, <1>9 DEF AdapterAnswered, Checks, AdapterChecks
  <2>7. QED
    BY <1>3, <2>5, <2>6
<1>10. ASSUME NEW k \in AdapterChecks, AdapterRaised(c, k)
       PROVE  EndsWith(c, ws[c])
  BY <1>10 DEF AdapterRaised, EndsWith, Resume, Moved, Absent, At
<1>11. CASE DocumentRaised(c) \/ \E k \in AdapterChecks : AdapterUnwound(c, k)
  <2>1. Fail(c, ws[c], sm[c])
    BY <1>11 DEF DocumentRaised, AdapterUnwound
  <2>2. QED
    BY <1>1, <1>2, <1>3, <1>4, <2>1, SegmentEnds
<1>12. CASE KycClosed(c) \/ SanctionsClosed(c) \/ KybClosed(c)
  <2>1. \/ \E k \in AdapterChecks : OpenAdapter(c, ws[c], sm[c], k)
        \/ UboOrAggregate(c, ws[c], sm[c])
    BY <1>12 DEF KycClosed, SanctionsClosed, KybClosed, AdapterChecks
  <2>2. QED
    BY <1>1, <1>2, <1>3, <1>4, <2>1, SegmentEnds
<1>13. ASSUME NEW r \in Answers, UboCalculated(c, r)
       PROVE  \E v, p : Moved(c, v, p) /\ Gathered(ws[c], v)
  <2> DEFINE w == Store(ws[c], "ubo", r)
             u == [w EXCEPT !.state = "risk_aggregation"]
  <2>1. /\ task[c] = At("ubo", "call")
        /\ Aggregate(c, u, "risk_aggregation") \/ Fail(c, w, sm[c])
    BY <1>13 DEF UboCalculated
  <2>2. ws[c].entity # "individual"
    BY <1>2, <2>1 DEF MachineAt, EvidenceOK
  <2>3. StateOK(w) /\ w.entity = ws[c].entity
    BY <1>2, <2>2, StoreKeepsState DEF Checks
  <2>4. StateOK(u) /\ u.entity = w.entity /\ u.checks = w.checks
    BY <2>3, MoveKeepsState DEF OnboardingState
  <2>5. EndsWith(c, u) \/ EndsWith(c, w)
    BY <2>1, <2>3, <2>4, SegmentEnds
  <2>6. EndsWith(c, w)
    BY <2>4, <2>5 DEF EndsWith
  <2>7. Gathered(ws[c], w)
    BY <1>5, <1>6, <2>1 DEF Checks
  <2>8. QED
    BY <1>3, <2>6, <2>7
<1>14. QED
  BY <1>1, <1>3, <1>4, <1>7, <1>8, <1>9, <1>10, <1>11, <1>12, <1>13 DEF Pipeline

\* A case that moves on takes a step of the lifecycle: it goes on, or is settled, and approved
\* only on what the invariant says of a completed case.
LEMMA MoveImplements ==
  ASSUME IInv, IInv', NEW c \in Cases, task[c] \notin {Absent, Done},
         NEW w, NEW p, Moved(c, w, p), Gathered(ws[c], w)
  PROVE  Lifecycle!Investigate(c) \/ Lifecycle!Approve(c) \/ Lifecycle!Refuse(c)
<1> DEFINE entity == [d \in Cases |-> ws[d].entity]
           status == [d \in Cases |-> StatusOf(d)]
           evidence == [d \in Cases |-> Found(ws[d])]
           after == IF p # Done THEN "running"
                    ELSE IF w.state = "completed" THEN "approved" ELSE "refused"
<1>1. /\ ws \in [Cases -> WorkflowState] /\ task \in [Cases -> TaskPoints]
      /\ ws'[c] = w /\ task'[c] = p /\ p # Absent
      /\ \A d \in Cases \ {c} : ws'[d] = ws[d] /\ task'[d] = task[d]
  BY DEF IInv, TypeOK, Moved
<1>2. status[c] = "running"
  BY DEF StatusOf
<1>3. entity' = entity
  BY <1>1 DEF Gathered
<1>4. status' = [status EXCEPT ![c] = after]
  BY <1>1 DEF StatusOf
<1>5. evidence' = [evidence EXCEPT ![c] = Found(w)]
  BY <1>1 DEF Found
<1>6. \/ evidence' = evidence
      \/ \E k \in Checks : /\ Lifecycle!Before(k) \subseteq evidence[c]
                           /\ evidence' = [evidence EXCEPT ![c] = evidence[c] \cup {k}]
  BY <1>5 DEF Gathered
<1>7. Lifecycle!Gather(c)
  BY <1>6 DEF Lifecycle!Gather, Lifecycle!Evidence, Found, Checks
<1>8. CASE after = "running"
  <2>1. status' = status
    BY <1>2, <1>4, <1>8
  <2>2. QED
    BY <1>2, <1>3, <1>7, <2>1 DEF Lifecycle!Investigate, Found
<1>9. CASE after = "refused"
  BY <1>2, <1>3, <1>4, <1>7, <1>9 DEF Lifecycle!Refuse, Found
<1>10. CASE after = "approved"
  <2>1. CaseOK(w, sm'[c], Done) /\ w.state = "completed"
    BY <1>1, <1>10 DEF IInv
  <2>2. w.entity = ws[c].entity /\ \A k \in Required(w.entity) : w.checks[k] # "none"
    BY <2>1 DEF CaseOK, VerdictOK, EvidenceOK, EvidenceAt, Gathered
  <2>3. Lifecycle!Required(entity[c]) \subseteq evidence'[c]
    BY <1>1, <2>2 DEF Lifecycle!Required, Lifecycle!Evidence, Required, Found, Checks
  <2>4. QED
    BY <1>2, <1>3, <1>4, <1>7, <1>10, <2>3 DEF Lifecycle!Approve, Found
<1>11. QED
  BY <1>8, <1>9, <1>10

\* An operator's trigger moves the WorkflowState of a running case and adds no evidence.
LEMMA AdvanceImplements ==
  ASSUME IInv, NEW c \in Cases, NEW t \in Triggers, Advance(c, t)
  PROVE  UNCHANGED Lifecycle!lifecycle
<1>1. PICK d \in OnboardingState : /\ Fires(t, ws[c].entity, ws[c].state, d)
                                   /\ ws' = [ws EXCEPT ![c].state = d]
  BY DEF Advance
<1> DEFINE w == [ws[c] EXCEPT !.state = d]
<1>2. ws \in [Cases -> WorkflowState] /\ task' = task
  BY DEF Advance, IInv, TypeOK
<1>3. w.entity = ws[c].entity /\ w.checks = ws[c].checks
  BY <1>2 DEF WorkflowState
<1>4. \A e \in Cases : /\ ws'[e].entity = ws[e].entity /\ ws'[e].checks = ws[e].checks
                       /\ e # c => ws'[e] = ws[e]
  BY <1>1, <1>2, <1>3
<1>5. task[c] # Done
  <2>1. ws[c].state \notin Terminal
    BY <1>1 DEF Fires, FailSources, Terminal
  <2>2. QED
    BY <2>1 DEF IInv, CaseOK, VerdictOK, MachineAt
<1>6. \A e \in Cases : StatusOf(e)' = StatusOf(e)
  BY <1>2, <1>4, <1>5 DEF StatusOf
<1>7. QED
  BY <1>4, <1>6 DEF Lifecycle!lifecycle

\* A result of /kyc/verify is evidence of a running case, or of a settled one that stays settled.
LEMMA VerificationImplements ==
  ASSUME IInv, IInv', NEW r \in Requests, Verification(r)
  PROVE  [Lifecycle!LifecycleNext]_(Lifecycle!lifecycle)
<1>1. ws' = ws /\ task' = task => UNCHANGED Lifecycle!lifecycle
  BY DEF Lifecycle!lifecycle, StatusOf
<1>2. CASE VerifyClosed(r)
  <2>0. verify[r].case \in Cases
    BY <1>2 DEF IInv, VerifyOK, VerifyClosed
  <2> PICK c \in Cases : c = verify[r].case
    BY <2>0
  <2> DEFINE w == Store(ws[c], "kyc", verify[r].result)
  <2>1. /\ verify[r].result \in Answers /\ task[c] # Absent
        /\ StateOK(ws[c]) /\ ws \in [Cases -> WorkflowState] /\ task \in [Cases -> TaskPoints]
    BY <1>2 DEF IInv, TypeOK, VerifyOK, VerifyClosed, CaseOK, Known
  <2>2. ws' = [ws EXCEPT ![c] = w] /\ task' = task
    BY <1>2 DEF VerifyClosed
  <2>3. w.entity = ws[c].entity /\ Found(w) = Found(ws[c]) \cup {"kyc"}
    BY <2>1, StoreFinds DEF Checks
  <2> HIDE DEF w
  <2>4. CASE task[c] # Done
    <3>1. Moved(c, w, task[c])
      BY <2>1, <2>2 DEF Moved
    <3>2. Gathered(ws[c], w)
      BY <2>3 DEF Gathered, Lifecycle!Before, Checks
    <3>3. Lifecycle!Investigate(c) \/ Lifecycle!Approve(c) \/ Lifecycle!Refuse(c)
      BY <2>1, <2>4, <3>1, <3>2, MoveImplements
    <3>4. QED
      BY <2>1, <3>3 DEF Lifecycle!LifecycleNext
  <2>5. CASE task[c] = Done
    <3>1. w.state = ws[c].state
      BY <2>1 DEF w, Store, StateOK, WorkflowState
    <3>2. StatusOf(c) \in {"approved", "refused"}
      BY <2>1, <2>5 DEF StatusOf
    <3>3. \A d \in Cases : /\ ws'[d].entity = ws[d].entity
                           /\ StatusOf(d)' = StatusOf(d)
                           /\ d # c => Found(ws'[d]) = Found(ws[d])
      BY <2>1, <2>2, <2>3, <3>1 DEF StatusOf
    <3>4. Found(ws'[c]) = Found(ws[c]) \cup {"kyc"}
      BY <2>1, <2>2, <2>3
    <3>5. Lifecycle!Reverify(c)
      BY <2>1, <3>2, <3>3, <3>4 DEF Lifecycle!Reverify, Found
    <3>6. QED
      BY <2>1, <3>5 DEF Lifecycle!LifecycleNext
  <2>6. QED
    BY <2>4, <2>5
<1>3. QED
  BY <1>1, <1>2 DEF Verification, VerifyStart, VerifyAnswered, VerifyRaised

LEMMA NextImplements ==
  ASSUME IInv, IInv', [Next]_vars
  PROVE  [Lifecycle!LifecycleNext]_(Lifecycle!lifecycle)
<1>1. ASSUME NEW c \in Cases, Initiate(c)
      PROVE  Lifecycle!Open(c)
  <2>1. PICK e \in Entities : Resume(c, NewWorkflowState(e), "initiated", Scheduled)
    BY <1>1 DEF Initiate
  <2>2. /\ ws' = [ws EXCEPT ![c] = NewWorkflowState(e)] /\ task' = [task EXCEPT ![c] = Scheduled]
        /\ task[c] = Absent /\ Scheduled # Absent /\ Scheduled # Done
        /\ ws \in [Cases -> WorkflowState] /\ task \in [Cases -> TaskPoints]
    BY <1>1, <2>1 DEF Resume, Initiate, IInv, TypeOK, Scheduled, Absent, Done, At
  <2>3. NewWorkflowState(e).entity = e /\ Found(NewWorkflowState(e)) = {}
    BY DEF NewWorkflowState, Found, Checks
  <2> DEFINE entity == [d \in Cases |-> ws[d].entity]
             status == [d \in Cases |-> StatusOf(d)]
             evidence == [d \in Cases |-> Found(ws[d])]
  <2>4. status[c] = "absent" /\ status' = [status EXCEPT ![c] = "running"]
    BY <2>2 DEF StatusOf
  <2>5. entity' = [entity EXCEPT ![c] = e] /\ evidence' = [evidence EXCEPT ![c] = {}]
    BY <2>2, <2>3
  <2>6. QED
    BY <2>4, <2>5 DEF Lifecycle!Open, Lifecycle!Entity, Entities, Found
<1>2. ASSUME NEW c \in Cases, Pipeline(c)
      PROVE  Lifecycle!Investigate(c) \/ Lifecycle!Approve(c) \/ Lifecycle!Refuse(c)
  BY <1>2, PipelineGathers, MoveImplements
<1>3. CASE Restart
  <2>1. Lifecycle!Forget
    BY <1>3 DEF Restart, Lifecycle!Forget, NewWorkflowState, StatusOf, Checks
  <2>2. QED
    BY <2>1 DEF Lifecycle!LifecycleNext
<1>4. CASE UNCHANGED vars
  BY <1>4 DEF vars, Lifecycle!lifecycle, StatusOf
<1>5. QED
  BY <1>1, <1>2, <1>3, <1>4, AdvanceImplements, VerificationImplements
     DEF Next, Lifecycle!LifecycleNext

\* The pipeline with /advance and /kyc/verify implements the lifecycle: an operator's triggers
\* neither settle a case nor approve one on less than the required evidence.
THEOREM ImplementsLifecycleTheorem == Spec => ImplementsLifecycle
<1>1. Init => Lifecycle!LifecycleInit
  BY DEF Init, Lifecycle!LifecycleInit, NewWorkflowState, StatusOf, Absent, Checks
<1>2. IInv /\ IInv' /\ [Next]_vars => [Lifecycle!LifecycleNext]_(Lifecycle!lifecycle)
  BY NextImplements
<1>3. QED
  BY <1>1, <1>2, Invariance, PTL DEF Spec, ImplementsLifecycle, Lifecycle!LifecycleSpec
=============================================================================
