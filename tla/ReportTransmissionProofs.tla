---------------------- MODULE ReportTransmissionProofs ----------------------
(***************************************************************************)
(* What holds of the transmission of reports for any number of reports,    *)
(* drafters and clients, whatever the cache, SQS and AUSTRAC do; and that  *)
(* a message is sent once when there is one client, a cache that keeps     *)
(* what it is told and no lost answer.                                     *)
(***************************************************************************)
EXTENDS ReportTransmission, TLAPS

\* What a step of transmission t rests on: only a valid message is posted, what
\* AUSTRAC is about to answer it has received, and an answer tells the truth.
PointOK(t) ==
  /\ tx[t].phase = "posting" => tx[t].msg[2] # "invalid"
  /\ tx[t].phase = "accepted" => received[tx[t].msg] > 0
  /\ HasAnswer(t, "transmitted") \/ HasAnswer(t, "duplicate") => received[tx[t].msg] > 0
  /\ HasAnswer(t, "failed") => tx[t].msg \in dead.sqs \cup dead.memory

\* The cache holds only what AUSTRAC has received.
SeenReceived == \A m \in seen : received[m] > 0

IInv ==
  /\ TypeOK
  /\ \A t \in Transmitters : PointOK(t)
  /\ SeenReceived
  /\ OnlyValidReports

-----------------------------------------------------------------------------
(* The points of a transmission *)

LEMMA PointTypes ==
  ASSUME TypeOK, NEW t \in Transmitters
  PROVE  /\ tx[t].phase = "posting" => tx[t].msg \in Messages /\ tx[t] = Posting(tx[t].msg)
         /\ tx[t].phase = "accepted" => tx[t].msg \in Messages /\ tx[t] = Accepted(tx[t].msg)
         /\ tx[t].phase = "answered" => tx[t].msg \in Messages
<1>1. \/ tx[t] = Idle
      \/ \E m \in Messages : tx[t] = Posting(m)
      \/ \E m \in Messages : tx[t] = Accepted(m)
      \/ \E m \in Messages, a \in Answers : tx[t] = Answered(m, a)
  BY DEF TypeOK
<1>2. CASE tx[t] = Idle
  BY <1>2 DEF Idle
<1>3. CASE \E m \in Messages : tx[t] = Posting(m)
  BY <1>3 DEF Posting
<1>4. CASE \E m \in Messages : tx[t] = Accepted(m)
  BY <1>4 DEF Accepted
<1>5. CASE \E m \in Messages, a \in Answers : tx[t] = Answered(m, a)
  BY <1>5 DEF Answered
<1> QED
  BY <1>1, <1>2, <1>3, <1>4, <1>5

\* The points there are, and the values a transmission may be given.
Points ==
  {Idle} \cup {Posting(m) : m \in Messages} \cup {Accepted(m) : m \in Messages}
    \cup {Answered(m, a) : m \in Messages, a \in Answers}

\* A transmission goes to a point it can answer for, and nothing it or the others
\* rely on is taken away: the cache and the dead letters grow, a message is posted
\* only if it is valid.
LEMMA MoveInv ==
  ASSUME IInv, NEW t \in Transmitters, NEW p \in Points,
         tx' = [tx EXCEPT ![t] = p],
         registry' = registry, draft' = draft,
         received' \in [Messages -> Nat],
         \A m \in Messages : received[m] > 0 => received'[m] > 0,
         \A r \in Reports : received'[<<r, "invalid">>] = 0,
         seen' \subseteq Messages, \A m \in seen' : received'[m] > 0,
         dead' \in [sqs : SUBSET Messages, memory : SUBSET Messages],
         dead.sqs \cup dead.memory \subseteq dead'.sqs \cup dead'.memory,
         PointOK(t)'
  PROVE  IInv'
<1>1. TypeOK /\ SeenReceived /\ OnlyValidReports /\ \A u \in Transmitters : PointOK(u)
  BY DEF IInv
<1>2. tx \in [Transmitters -> Points]
  BY <1>1 DEF TypeOK, Points
<1>3. tx' \in [Transmitters -> Points]
  BY <1>2
<1>4. TypeOK'
  BY <1>1, <1>3 DEF TypeOK, Points
<1>5. ASSUME NEW u \in Transmitters
      PROVE  PointOK(u)'
  <2>1. CASE u = t
    BY <2>1
  <2>2. CASE u # t
    <3>1. tx'[u] = tx[u]
      BY <1>2, <2>2
    <3>2. /\ tx[u].phase = "accepted" => tx[u].msg \in Messages
          /\ tx[u].phase = "answered" => tx[u].msg \in Messages
      BY <1>1, PointTypes
    <3> QED
      BY <1>1, <3>1, <3>2 DEF PointOK, HasAnswer
  <2> QED
    BY <2>1, <2>2
<1>6. SeenReceived' /\ OnlyValidReports'
  BY DEF SeenReceived, OnlyValidReports
<1> QED
  BY <1>4, <1>5, <1>6 DEF IInv

\* A step of the registry or of a draft alone.
LEMMA RegistryInv ==
  ASSUME IInv, TypeOK', UNCHANGED <<tx, seen, dead, received>>
  PROVE  IInv'
BY DEF IInv, PointOK, HasAnswer, SeenReceived, OnlyValidReports

LEMMA StoreTypes ==
  ASSUME IInv, NEW r \in Reports, NEW c \in Contents, Store(r, c)
  PROVE  registry' \in [Reports -> [content : Contents \cup {"none"}, status : Statuses]]
BY DEF IInv, TypeOK, Store, Statuses

-----------------------------------------------------------------------------
(* The steps of a transmission *)

LEMMA EnqueueGrows ==
  ASSUME IInv, NEW m \in Messages, Enqueue(m)
  PROVE  /\ dead' \in [sqs : SUBSET Messages, memory : SUBSET Messages]
         /\ dead.sqs \cup dead.memory \subseteq dead'.sqs \cup dead'.memory
         /\ m \in dead'.sqs \cup dead'.memory
<1>1. dead \in [sqs : SUBSET Messages, memory : SUBSET Messages]
  BY DEF IInv, TypeOK
<1>2. CASE dead' = [dead EXCEPT !.sqs = @ \cup {m}]
  BY <1>1, <1>2
<1>3. CASE dead' = [dead EXCEPT !.memory = @ \cup {m}]
  BY <1>1, <1>3
<1> QED
  BY <1>2, <1>3 DEF Enqueue

LEMMA FailInv ==
  ASSUME IInv, NEW t \in Transmitters, NEW m \in Messages, Fail(t, m)
  PROVE  IInv'
<1>1. /\ tx' = [tx EXCEPT ![t] = Answered(m, "failed")] /\ Enqueue(m)
      /\ UNCHANGED <<registry, draft, seen, received>>
  BY DEF Fail
<1>2. Answered(m, "failed") \in Points
  BY DEF Points, Answers
<1>3. tx'[t] = Answered(m, "failed")
  BY <1>1 DEF IInv, TypeOK
<1>4. PointOK(t)'
  BY <1>1, <1>3, EnqueueGrows DEF PointOK, HasAnswer, Answered
<1>5. /\ received \in [Messages -> Nat] /\ seen \subseteq Messages
      /\ \A n \in seen : received[n] > 0
      /\ \A r \in Reports : received[<<r, "invalid">>] = 0
  BY DEF IInv, TypeOK, SeenReceived, OnlyValidReports
<1>6. /\ dead' \in [sqs : SUBSET Messages, memory : SUBSET Messages]
      /\ dead.sqs \cup dead.memory \subseteq dead'.sqs \cup dead'.memory
  BY <1>1, EnqueueGrows
<1> QED
  BY <1>1, <1>2, <1>4, <1>5, <1>6, MoveInv

\* A step that changes nothing but the point of a transmission.
LEMMA AdvanceInv ==
  ASSUME IInv, NEW t \in Transmitters, NEW p \in Points, Advance(t, p),
         p.phase # "accepted",
         p.phase = "posting" => p.msg[2] # "invalid",
         p.phase = "answered" /\ p.answer \in {"transmitted", "duplicate"} => received[p.msg] > 0,
         p.phase = "answered" => p.answer # "failed"
  PROVE  IInv'
<1>1. tx' = [tx EXCEPT ![t] = p] /\ UNCHANGED <<registry, draft, seen, dead, received>>
  BY DEF Advance
<1>2. tx'[t] = p
  BY <1>1 DEF IInv, TypeOK
<1>3. PointOK(t)'
  BY <1>1, <1>2 DEF PointOK, HasAnswer
<1>4. /\ received \in [Messages -> Nat] /\ seen \subseteq Messages
      /\ dead \in [sqs : SUBSET Messages, memory : SUBSET Messages]
      /\ \A n \in seen : received[n] > 0
      /\ \A r \in Reports : received[<<r, "invalid">>] = 0
  BY DEF IInv, TypeOK, SeenReceived, OnlyValidReports
<1> QED
  BY <1>1, <1>3, <1>4, MoveInv

LEMMA TransmitInv ==
  ASSUME IInv, NEW t \in Transmitters, NEW m \in Messages, Transmit(t, m)
  PROVE  IInv'
<1>1. /\ Answered(m, "duplicate") \in Points /\ Answered(m, "error") \in Points
      /\ Posting(m) \in Points
  BY DEF Points, Answers
<1>2. CASE m \in seen /\ Advance(t, Answered(m, "duplicate"))
  <2>1. received[m] > 0
    BY <1>2 DEF IInv, SeenReceived
  <2> QED
    BY <1>1, <1>2, <2>1, AdvanceInv DEF Answered
<1>3. CASE Fail(t, m)
  BY <1>3, FailInv
<1>4. CASE m[2] # "invalid" /\ Advance(t, Posting(m))
  BY <1>1, <1>4, AdvanceInv DEF Posting
<1>5. CASE Advance(t, Answered(m, "error"))
  BY <1>1, <1>5, AdvanceInv DEF Answered
<1> QED
  BY <1>2, <1>3, <1>4, <1>5 DEF Transmit, Send

LEMMA AcceptInv ==
  ASSUME IInv, NEW t \in Transmitters, Accept(t)
  PROVE  IInv'
<1> DEFINE m == tx[t].msg
<1>1. /\ m \in Messages /\ m[2] # "invalid"
      /\ tx' = [tx EXCEPT ![t] = Accepted(m)]
      /\ received' = [received EXCEPT ![m] = @ + 1]
      /\ UNCHANGED <<registry, draft, seen, dead>>
  BY PointTypes DEF Accept, IInv, PointOK
<1>2. /\ received \in [Messages -> Nat] /\ seen \subseteq Messages
      /\ dead \in [sqs : SUBSET Messages, memory : SUBSET Messages]
      /\ \A n \in seen : received[n] > 0
      /\ \A r \in Reports : received[<<r, "invalid">>] = 0
  BY DEF IInv, TypeOK, SeenReceived, OnlyValidReports
<1> HIDE DEF m
<1>3. received' \in [Messages -> Nat] /\ received'[m] > 0
  BY <1>1, <1>2
<1>4. \A n \in Messages : received[n] > 0 => received'[n] > 0
  BY <1>1, <1>2
<1>5. \A r \in Reports : <<r, "invalid">> # m
  BY <1>1
<1>6. \A r \in Reports : <<r, "invalid">> \in Messages
  BY DEF Messages, Contents
<1>7. \A r \in Reports : received'[<<r, "invalid">>] = 0
  BY <1>1, <1>2, <1>5, <1>6
<1>8. Accepted(m) \in Points
  BY <1>1 DEF Points
<1>9. tx'[t] = Accepted(m)
  BY <1>1 DEF IInv, TypeOK
<1>10. PointOK(t)'
  BY <1>3, <1>9 DEF PointOK, HasAnswer, Accepted
<1> QED
  BY <1>1, <1>2, <1>3, <1>4, <1>7, <1>8, <1>10, MoveInv

LEMMA AcknowledgedInv ==
  ASSUME IInv, NEW t \in Transmitters, Acknowledged(t)
  PROVE  IInv'
<1> DEFINE m == tx[t].msg
<1>1. /\ m \in Messages /\ received[m] > 0
      /\ tx' = [tx EXCEPT ![t] = Answered(m, "transmitted")]
      /\ seen' \subseteq seen \cup {m}
      /\ UNCHANGED <<registry, draft, dead, received>>
  BY PointTypes DEF Acknowledged, IInv, PointOK
<1>2. /\ received \in [Messages -> Nat] /\ seen \subseteq Messages
      /\ dead \in [sqs : SUBSET Messages, memory : SUBSET Messages]
      /\ \A n \in seen : received[n] > 0
      /\ \A r \in Reports : received[<<r, "invalid">>] = 0
  BY DEF IInv, TypeOK, SeenReceived, OnlyValidReports
<1> HIDE DEF m
<1>3. Answered(m, "transmitted") \in Points
  BY <1>1 DEF Points, Answers
<1>4. tx'[t] = Answered(m, "transmitted")
  BY <1>1 DEF IInv, TypeOK
<1>5. PointOK(t)'
  BY <1>1, <1>4 DEF PointOK, HasAnswer, Answered
<1> QED
  BY <1>1, <1>2, <1>3, <1>5, MoveInv

-----------------------------------------------------------------------------
(* The steps of the service *)

LEMMA InitInv == Init => IInv
<1> SUFFICES ASSUME Init PROVE IInv
  OBVIOUS
<1>1. TypeOK
  BY DEF Init, TypeOK, NoReport, Statuses
<1>2. \A t \in Transmitters : PointOK(t)
  BY DEF Init, PointOK, HasAnswer, Idle
<1>3. SeenReceived
  BY DEF Init, SeenReceived
<1>4. OnlyValidReports
  BY DEF Init, OnlyValidReports, Messages, Contents
<1> QED
  BY <1>1, <1>2, <1>3, <1>4 DEF IInv

LEMMA RestartInv == IInv /\ Restart => IInv'
<1> SUFFICES ASSUME IInv, Restart PROVE IInv'
  OBVIOUS
<1>1. dead \in [sqs : SUBSET Messages, memory : SUBSET Messages]
  BY DEF IInv, TypeOK
<1>2. dead' \in [sqs : SUBSET Messages, memory : SUBSET Messages]
  BY <1>1 DEF Restart
<1>3. TypeOK'
  BY <1>2 DEF IInv, TypeOK, Restart, NoReport, Statuses
<1>4. \A t \in Transmitters : PointOK(t)'
  BY DEF Restart, PointOK, HasAnswer, Idle
<1> QED
  BY <1>3, <1>4 DEF IInv, Restart, SeenReceived, OnlyValidReports

LEMMA NextInv == IInv /\ [Next]_vars => IInv'
<1> SUFFICES ASSUME IInv, [Next]_vars PROVE IInv'
  OBVIOUS
<1>1. ASSUME NEW r \in Reports, Generate(r) PROVE IInv'
  <2>1. TypeOK'
    BY <1>1, StoreTypes DEF Generate, IInv, TypeOK, Contents
  <2> QED
    BY <1>1, <2>1, RegistryInv DEF Generate
<1>2. ASSUME NEW d \in Drafters, NEW r \in Reports, GenerateNarrated(d, r) PROVE IInv'
  <2>1. TypeOK'
    BY <1>2 DEF GenerateNarrated, IInv, TypeOK
  <2> QED
    BY <1>2, <2>1, RegistryInv DEF GenerateNarrated
<1>3. ASSUME NEW r \in Reports, NEW s \in Statuses, UpdateReport(r, s) PROVE IInv'
  <2>1. TypeOK'
    BY <1>3 DEF UpdateReport, IInv, TypeOK
  <2> QED
    BY <1>3, <2>1, RegistryInv DEF UpdateReport
<1>4. ASSUME NEW t \in Transmitters, NEW r \in Reports, TransmitReport(t, r) PROVE IInv'
  BY <1>4, TransmitInv DEF TransmitReport, Messages
<1>5. ASSUME NEW d \in Drafters, Drafted(d) PROVE IInv'
  <2>1. draft[d] \in Reports
    BY <1>5 DEF Drafted, IInv, TypeOK
  <2>2. TypeOK'
    BY <1>5, <2>1, StoreTypes DEF Drafted, IInv, TypeOK
  <2> QED
    BY <1>5, <2>2, RegistryInv DEF Drafted
<1>6. ASSUME NEW t \in Transmitters, Accept(t) PROVE IInv'
  BY <1>6, AcceptInv
<1>7. ASSUME NEW t \in Transmitters, Acknowledged(t) PROVE IInv'
  BY <1>7, AcknowledgedInv
<1>8. ASSUME NEW t \in Transmitters, NotAcknowledged(t) PROVE IInv'
  BY <1>8, PointTypes, FailInv DEF NotAcknowledged, IInv
<1>9. ASSUME NEW t \in Transmitters, AnswerRead(t) PROVE IInv'
  <2>1. Idle \in Points
    BY DEF Points
  <2> QED
    BY <1>9, <2>1, AdvanceInv DEF AnswerRead, Idle
<1>10. CASE Restart
  BY <1>10, RestartInv
<1>11. CASE UNCHANGED vars
  BY <1>11 DEF vars, IInv, TypeOK, PointOK, HasAnswer, SeenReceived, OnlyValidReports
<1> QED
  BY <1>1, <1>2, <1>3, <1>4, <1>5, <1>6, <1>7, <1>8, <1>9, <1>10, <1>11 DEF Next

-----------------------------------------------------------------------------
(* The theorems *)

LEMMA AlwaysInv == Spec => []IInv
<1> QED
  BY InitInv, NextInv, PTL DEF Spec

\* The registry, the drafts, the transmissions, the cache, the dead letters and
\* AUSTRAC's count have the types the module declares.
THEOREM ReportTypes == Spec => []TypeOK
<1>1. IInv => TypeOK
  BY DEF IInv
<1> QED
  BY <1>1, AlwaysInv, PTL

\* "transmitted" and "duplicate" are never said of a message AUSTRAC does not have,
\* although caches forget, answers are lost and the process restarts.
THEOREM AnswersAreTrueTheorem == Spec => []AnswersAreTrue
<1>1. IInv => AnswersAreTrue
  BY DEF IInv, PointOK, AnswersAreTrue
<1> QED
  BY <1>1, AlwaysInv, PTL

\* Every 502 leaves its message among the dead letters.
THEOREM FailuresAreKeptTheorem == Spec => []FailuresAreKept
<1>1. IInv => FailuresAreKept
  BY DEF IInv, PointOK, FailuresAreKept
<1> QED
  BY <1>1, AlwaysInv, PTL

\* AUSTRAC never receives a document that is against the XSD.
THEOREM OnlyValidReportsTheorem == Spec => []OnlyValidReports
<1>1. IInv => OnlyValidReports
  BY DEF IInv
<1> QED
  BY <1>1, AlwaysInv, PTL

\* No step, and no narrative that arrives late, changes the XML of a report that is
\* approved before and after it.
THEOREM ApprovalCoversContentTheorem == Spec => ApprovalCoversContent
<1> DEFINE Covers ==
      \A r \in Reports :
        registry[r].status = "approved" /\ registry'[r].status = "approved" =>
          registry'[r].content = registry[r].content
<1>1. ASSUME TypeOK, NEW r \in Reports, NEW c \in Contents, Store(r, c) PROVE Covers
  BY <1>1 DEF TypeOK, Store
<1>2. ASSUME TypeOK, NEW r \in Reports, NEW s \in Statuses, UpdateReport(r, s) PROVE Covers
  <2>1. registry \in [Reports -> [content : Contents \cup {"none"}, status : Statuses]]
    BY <1>2 DEF TypeOK
  <2>2. registry' = [registry EXCEPT ![r].status = s]
    BY <1>2 DEF UpdateReport
  <2> QED
    BY <2>1, <2>2
<1>3. ASSUME Restart PROVE Covers
  BY <1>3 DEF Restart, NoReport
<1>4. ASSUME TypeOK, [Next]_vars PROVE Covers
  <2>1. ASSUME NEW r \in Reports, Generate(r) PROVE Covers
    BY <1>1, <1>4, <2>1 DEF Generate, Contents
  <2>2. ASSUME NEW d \in Drafters, Drafted(d) PROVE Covers
    <3>1. draft[d] \in Reports
      BY <1>4, <2>2 DEF Drafted, TypeOK
    <3> QED
      BY <1>1, <1>4, <2>2, <3>1 DEF Drafted
  <2>3. ASSUME NEW t \in Transmitters, NEW r \in Reports, TransmitReport(t, r)
        PROVE  UNCHANGED registry
    BY <2>3 DEF TransmitReport, Transmit, Send, Fail, Advance
  <2>4. ASSUME NEW t \in Transmitters,
               Accept(t) \/ Acknowledged(t) \/ NotAcknowledged(t) \/ AnswerRead(t)
        PROVE  UNCHANGED registry
    BY <2>4 DEF Accept, Acknowledged, NotAcknowledged, AnswerRead, Fail, Advance
  <2>5. ASSUME NEW d \in Drafters, NEW r \in Reports, GenerateNarrated(d, r)
        PROVE  UNCHANGED registry
    BY <2>5 DEF GenerateNarrated
  <2>6. ASSUME UNCHANGED registry PROVE Covers
    BY <2>6
  <2>7. CASE UNCHANGED vars
    BY <2>6, <2>7 DEF vars
  <2> QED
    BY <1>2, <1>3, <1>4, <2>1, <2>2, <2>3, <2>4, <2>5, <2>6, <2>7 DEF Next
<1>5. TypeOK /\ [Next]_vars => [Covers]_vars
  BY <1>4
<1> QED
  BY <1>5, ReportTypes, PTL DEF Spec, ApprovalCoversContent

-----------------------------------------------------------------------------
(* Sending once *)

\* One client, a cache that keeps what it is told, answers that arrive, no restart.
Serial(t) ==
  /\ Transmitters = {t}
  /\ DedupCache = "kept"
  /\ ~RepliesLost /\ ~MayRestart

\* What AUSTRAC has accepted is in the cache, or its answer is on the way; what is
\* being posted it does not have.
OnceInv(t) ==
  /\ TypeOK
  /\ \A m \in Messages :
       /\ received[m] # 0 => received[m] = 1 /\ (m \in seen \/ tx[t] = Accepted(m))
       /\ tx[t] = Posting(m) => received[m] = 0

LEMMA PointsDiffer ==
  /\ \A m, n \in Messages : Accepted(m) # Posting(n) /\ (Accepted(m) = Accepted(n) => m = n)
  /\ \A m, n \in Messages : Posting(m) = Posting(n) => m = n
  /\ \A m, n \in Messages, a \in Answers : Answered(m, a) # Posting(n) /\ Answered(m, a) # Accepted(n)
  /\ \A m \in Messages : Idle # Posting(m) /\ Idle # Accepted(m)
<1>1. \A m \in Messages : Accepted(m).phase = "accepted" /\ Accepted(m).msg = m
  BY DEF Accepted
<1>2. \A m \in Messages : Posting(m).phase = "posting" /\ Posting(m).msg = m
  BY DEF Posting
<1>3. \A m \in Messages, a \in Answers : Answered(m, a).phase = "answered"
  BY DEF Answered
<1>4. Idle.phase = "idle"
  BY DEF Idle
<1> QED
  BY <1>1, <1>2, <1>3, <1>4

\* The client leaves for a point at which nothing is posted and no answer is due.
LEMMA OnceLeave ==
  ASSUME NEW t, Serial(t), OnceInv(t), TypeOK', NEW p,
         tx' = [tx EXCEPT ![t] = p],
         \A m \in Messages : p # Posting(m) /\ p # Accepted(m),
         \A m \in Messages : tx[t] # Accepted(m),
         UNCHANGED <<seen, received>>
  PROVE  OnceInv(t)'
<1>1. tx'[t] = p
  BY DEF Serial, OnceInv, TypeOK
<1> QED
  BY <1>1 DEF OnceInv

LEMMA OnceTransmit ==
  ASSUME NEW t, Serial(t), OnceInv(t), TypeOK', NEW m \in Messages,
         tx[t] = Idle, Transmit(t, m)
  PROVE  OnceInv(t)'
<1>1. \A n \in Messages : tx[t] # Accepted(n)
  BY PointsDiffer
<1>2. CASE \E a \in Answers : Advance(t, Answered(m, a)) \/ Fail(t, m)
  <2>1. PICK a \in Answers : tx' = [tx EXCEPT ![t] = Answered(m, a)]
                             /\ UNCHANGED <<seen, received>>
    BY <1>2 DEF Advance, Fail, Answers
  <2>2. \A n \in Messages : Answered(m, a) # Posting(n) /\ Answered(m, a) # Accepted(n)
    BY PointsDiffer
  <2> QED
    BY <1>1, <2>1, <2>2, OnceLeave
<1>3. CASE m \notin seen /\ Advance(t, Posting(m))
  <2>1. received[m] = 0
    BY <1>1, <1>3 DEF OnceInv
  <2>2. tx'[t] = Posting(m) /\ UNCHANGED <<seen, received>>
    BY <1>3 DEF Advance, Serial, OnceInv, TypeOK
  <2> QED
    BY <1>1, <2>1, <2>2, PointsDiffer DEF OnceInv
<1> QED
  BY <1>2, <1>3 DEF Transmit, Send, Serial, Answers

LEMMA OnceAccept ==
  ASSUME NEW t, Serial(t), OnceInv(t), TypeOK', Accept(t)
  PROVE  OnceInv(t)'
<1> DEFINE m == tx[t].msg
<1>1. m \in Messages /\ tx[t] = Posting(m)
  BY PointTypes DEF Accept, OnceInv, Serial
<1>2. /\ tx'[t] = Accepted(m) /\ seen' = seen
      /\ received' = [received EXCEPT ![m] = @ + 1] /\ received \in [Messages -> Nat]
  BY DEF Accept, Serial, OnceInv, TypeOK
<1> HIDE DEF m
<1>3. received[m] = 0
  BY <1>1 DEF OnceInv
<1>4. received'[m] = 1 /\ \A n \in Messages \ {m} : received'[n] = received[n]
  BY <1>1, <1>2, <1>3
<1> QED
  BY <1>1, <1>2, <1>4, PointsDiffer DEF OnceInv

LEMMA OnceAcknowledged ==
  ASSUME NEW t, Serial(t), OnceInv(t), TypeOK', Acknowledged(t)
  PROVE  OnceInv(t)'
<1> DEFINE m == tx[t].msg
<1>1. m \in Messages /\ tx[t] = Accepted(m)
  BY PointTypes DEF Acknowledged, OnceInv, Serial
<1>2. /\ tx'[t] = Answered(m, "transmitted") /\ seen' = seen \cup {m}
      /\ received' = received
  BY DEF Acknowledged, Serial, OnceInv, TypeOK
<1> HIDE DEF m
<1>3. "transmitted" \in Answers
  BY DEF Answers
<1> QED
  BY <1>1, <1>2, <1>3, PointsDiffer DEF OnceInv

LEMMA OnceNext ==
  ASSUME NEW t, Serial(t), OnceInv(t), TypeOK', [Next]_vars
  PROVE  OnceInv(t)'
<1>1. TypeOK /\ t \in Transmitters
  BY DEF OnceInv, Serial
<1>2. ASSUME UNCHANGED <<tx, seen, received>> PROVE OnceInv(t)'
  BY <1>2 DEF OnceInv
<1>3. ASSUME NEW r \in Reports,
             Generate(r) \/ (\E d \in Drafters : GenerateNarrated(d, r))
               \/ (\E s \in Statuses : UpdateReport(r, s))
      PROVE  OnceInv(t)'
  BY <1>2, <1>3 DEF Generate, GenerateNarrated, UpdateReport
<1>4. ASSUME NEW r \in Reports, TransmitReport(t, r) PROVE OnceInv(t)'
  BY <1>4, OnceTransmit DEF TransmitReport, Messages
<1>5. ASSUME NEW d \in Drafters, Drafted(d) PROVE OnceInv(t)'
  BY <1>2, <1>5 DEF Drafted
<1>6. CASE Accept(t)
  BY <1>6, OnceAccept
<1>7. CASE Acknowledged(t)
  BY <1>7, OnceAcknowledged
<1>8. CASE NotAcknowledged(t)
  <2>1. tx[t].msg \in Messages /\ tx[t] = Posting(tx[t].msg)
    BY <1>1, <1>8, PointTypes DEF NotAcknowledged, Serial
  <2>2. \A n \in Messages : tx[t] # Accepted(n)
    BY <2>1, PointsDiffer
  <2>3. \A n \in Messages : Answered(tx[t].msg, "failed") # Posting(n)
                            /\ Answered(tx[t].msg, "failed") # Accepted(n)
    BY <2>1, PointsDiffer DEF Answers
  <2> QED
    BY <1>8, <2>2, <2>3, OnceLeave DEF NotAcknowledged, Fail
<1>9. CASE AnswerRead(t)
  <2>1. \A n \in Messages : tx[t] # Accepted(n)
    BY <1>9 DEF AnswerRead, Accepted
  <2> QED
    BY <1>9, <2>1, PointsDiffer, OnceLeave DEF AnswerRead, Advance
<1>10. ~Restart
  BY DEF Restart, Serial
<1>11. CASE UNCHANGED vars
  BY <1>2, <1>11 DEF vars
<1> QED
  BY <1>3, <1>4, <1>5, <1>6, <1>7, <1>8, <1>9, <1>10, <1>11 DEF Next, Serial

\* With one client, a cache that keeps what it is told and no lost answer, AUSTRAC
\* accepts no message twice.
THEOREM SentOnceTheorem ==
  ASSUME NEW t, Serial(t)
  PROVE  Spec => []SentOnce
<1>1. Init => OnceInv(t)
  <2> SUFFICES ASSUME Init PROVE OnceInv(t)
    OBVIOUS
  <2>1. TypeOK
    BY InitInv DEF IInv
  <2>2. tx[t] = Idle
    BY DEF Init, Serial
  <2> QED
    BY <2>1, <2>2, PointsDiffer DEF Init, OnceInv
<1>2. OnceInv(t) /\ TypeOK' /\ [Next]_vars => OnceInv(t)'
  BY OnceNext
<1>3. OnceInv(t) => SentOnce
  BY DEF OnceInv, SentOnce
<1> QED
  BY <1>1, <1>2, <1>3, ReportTypes, PTL DEF Spec
=============================================================================
