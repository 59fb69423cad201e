------------------------- MODULE OnboardingLifecycle -------------------------
(***************************************************************************)
(* What the onboarding service promises about a case, however its routes   *)
(* interleave with the pipeline: a case is opened for one type of entity,  *)
(* gathers evidence in the order of the checks, and is settled once. It is *)
(* approved only on all the evidence its entity type requires.             *)
(***************************************************************************)
EXTENDS FiniteSets

CONSTANTS Cases, MayRestart

VARIABLES
  entity,     \* what each case was opened for
  status,     \* absent, running, approved or refused
  evidence    \* the checks each case has a result for

lifecycle == <<entity, status, evidence>>

Entity == {"individual", "organisation"}
Evidence == {"document", "kyc", "sanctions", "kyb", "ubo"}

Required(e) ==
  IF e = "organisation" THEN Evidence ELSE {"document", "kyc", "sanctions"}

\* What must be there before a check runs. KYC may be verified at any time.
Before(k) ==
  CASE k = "document"  -> {}
    [] k = "kyc"       -> {}
    [] k = "sanctions" -> {"document", "kyc"}
    [] k = "kyb"       -> {"document", "kyc", "sanctions"}
    [] k = "ubo"       -> {"document", "kyc", "sanctions"}

Open(c) ==
  /\ status[c] = "absent"
  /\ status' = [status EXCEPT ![c] = "running"]
  /\ entity' \in {[entity EXCEPT ![c] = e] : e \in Entity}
  /\ evidence' = [evidence EXCEPT ![c] = {}]

\* At most one check completes in a step, in its order.
Gather(c) ==
  \/ evidence' = evidence
  \/ \E k \in Evidence : /\ Before(k) \subseteq evidence[c]
                         /\ evidence' = [evidence EXCEPT ![c] = @ \cup {k}]

Investigate(c) ==
  /\ status[c] = "running"
  /\ Gather(c)
  /\ UNCHANGED <<entity, status>>

Approve(c) ==
  /\ status[c] = "running"
  /\ Gather(c)
  /\ Required(entity[c]) \subseteq evidence'[c]
  /\ status' = [status EXCEPT ![c] = "approved"]
  /\ UNCHANGED entity

Refuse(c) ==
  /\ status[c] = "running"
  /\ Gather(c)
  /\ status' = [status EXCEPT ![c] = "refused"]
  /\ UNCHANGED entity

\* KYC can be verified again on a settled case, which stays settled.
Reverify(c) ==
  /\ status[c] \in {"approved", "refused"}
  /\ evidence' = [evidence EXCEPT ![c] = @ \cup {"kyc"}]
  /\ UNCHANGED <<entity, status>>

Forget ==
  /\ MayRestart
  /\ entity' = [c \in Cases |-> "individual"]
  /\ status' = [c \in Cases |-> "absent"]
  /\ evidence' = [c \in Cases |-> {}]

LifecycleInit ==
  /\ entity = [c \in Cases |-> "individual"]
  /\ status = [c \in Cases |-> "absent"]
  /\ evidence = [c \in Cases |-> {}]

LifecycleNext ==
  \/ \E c \in Cases : Open(c) \/ Investigate(c) \/ Approve(c) \/ Refuse(c) \/ Reverify(c)
  \/ Forget

LifecycleSpec == LifecycleInit /\ [][LifecycleNext]_lifecycle
=============================================================================
