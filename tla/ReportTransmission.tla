------------------------- MODULE ReportTransmission -------------------------
(***************************************************************************)
(* austrac_reporting: the report registry and the routes of app.py,        *)
(* AUSTRACGateway.transmit of gateway.py, and the dead letter queue of     *)
(* dlq.py, against a regulator that may or may not have received what was  *)
(* posted when the answer is lost.                                         *)
(*                                                                         *)
(* The awaits are the language model's draft and the POST to AUSTRAC.      *)
(* Loading the certificates and sending to SQS call boto3 synchronously.   *)
(* The message id is a digest of report and XML, so it is the pair itself. *)
(***************************************************************************)
EXTENDS Naturals

CONSTANTS
  Reports,        \* report ids
  Drafters,       \* concurrent POST /reports/generate/smr with include_narrative
  Transmitters,   \* concurrent POST /reports/{id}/transmit
  DedupCache,     \* the gateway's dedup_cache: "none", "kept" or "lossy"
  RepliesLost,    \* whether AUSTRAC's answer may be lost
  SqsConfigured,  \* whether SQS_DLQ_URL is set
  MayRestart,     \* whether the service process may restart
  MaxReceived     \* bound on the copies of a message at AUSTRAC, for model checking

VARIABLES
  registry,       \* _report_registry
  draft,          \* the report each drafter waits for a narrative of, or "none"
  tx,             \* where each transmission is
  seen,           \* the message ids in the dedup cache
  dead,           \* the dead letters: in SQS and in DeadLetterQueue._entries
  received        \* environment: how often AUSTRAC has accepted each message

vars == <<registry, draft, tx, seen, dead, received>>

\* An XML document: made from the payload, with a narrative, or against the XSD.
Contents == {"plain", "narrated", "invalid"}
Messages == Reports \X Contents

\* PATCH may set any status; these two are told apart.
Statuses == {"draft", "approved"}

Answers == {"transmitted", "duplicate", "failed", "error"}

ASSUME TransmissionAssumption ==
  /\ "none" \notin Reports
  /\ DedupCache \in {"none", "kept", "lossy"}
  /\ RepliesLost \in BOOLEAN /\ SqsConfigured \in BOOLEAN /\ MayRestart \in BOOLEAN
  /\ MaxReceived \in Nat

NoReport == [content |-> "none", status |-> "draft"]

Idle == [phase |-> "idle"]
Posting(m) == [phase |-> "posting", msg |-> m]
Accepted(m) == [phase |-> "accepted", msg |-> m]
Answered(m, a) == [phase |-> "answered", msg |-> m, answer |-> a]

TypeOK ==
  /\ registry \in [Reports -> [content : Contents \cup {"none"}, status : Statuses]]
  /\ draft \in [Drafters -> Reports \cup {"none"}]
  /\ tx \in [Transmitters ->
       {Idle} \cup {Posting(m) : m \in Messages} \cup {Accepted(m) : m \in Messages}
         \cup {Answered(m, a) : m \in Messages, a \in Answers}]
  /\ seen \subseteq Messages
  /\ dead \in [sqs : SUBSET Messages, memory : SUBSET Messages]
  /\ received \in [Messages -> Nat]

-----------------------------------------------------------------------------
(* POST /reports/generate/{report_type} and PATCH /reports/{report_id} *)

\* Bug: the entry is updated in place, and keeps its status.
StoreKeepingStatus(r, c) == registry' = [registry EXCEPT ![r].content = c]

\* The whole entry is replaced by a new draft.
Store(r, c) == registry' = [registry EXCEPT ![r] = [content |-> c, status |-> "draft"]]

\* TTR, IFTI-E, and SMR without a narrative: no await.
Generate(r) ==
  /\ \E c \in {"plain", "invalid"} : Store(r, c)
  /\ UNCHANGED <<draft, tx, seen, dead, received>>

GenerateNarrated(d, r) ==
  /\ draft[d] = "none"
  /\ draft' = [draft EXCEPT ![d] = r]
  /\ UNCHANGED <<registry, tx, seen, dead, received>>

\* The draft arrives, or an error makes the generator build without one.
Drafted(d) ==
  /\ draft[d] # "none"
  /\ \E c \in Contents : Store(draft[d], c)
  /\ draft' = [draft EXCEPT ![d] = "none"]
  /\ UNCHANGED <<tx, seen, dead, received>>

UpdateReport(r, s) ==
  /\ registry[r].content # "none"
  /\ registry' = [registry EXCEPT ![r].status = s]
  /\ UNCHANGED <<draft, tx, seen, dead, received>>

-----------------------------------------------------------------------------
(* POST /reports/{report_id}/transmit *)

\* Bug: a failure of SQS is logged and nothing else.
EnqueueToSqs(m) ==
  \/ SqsConfigured /\ dead' = [dead EXCEPT !.sqs = @ \cup {m}]
  \/ UNCHANGED dead

\* DeadLetterQueue.enqueue: SQS, or the list in memory when SQS is not there or fails.
Enqueue(m) ==
  \/ SqsConfigured /\ dead' = [dead EXCEPT !.sqs = @ \cup {m}]
  \/ dead' = [dead EXCEPT !.memory = @ \cup {m}]

\* GatewayError: the message goes to the dead letters and the client gets a 502.
Fail(t, m) ==
  /\ tx' = [tx EXCEPT ![t] = Answered(m, "failed")]
  /\ Enqueue(m)
  /\ UNCHANGED <<registry, draft, seen, received>>

Advance(t, point) ==
  /\ tx' = [tx EXCEPT ![t] = point]
  /\ UNCHANGED <<registry, draft, seen, dead, received>>

\* Pre-flight validation, then _get_client, whose load_cert_chain may raise
\* something other than a GatewayError.
Send(t, m) ==
  \/ m[2] = "invalid" /\ Fail(t, m)
  \/ m[2] # "invalid" /\ (Advance(t, Posting(m)) \/ Advance(t, Answered(m, "error")))

\* Bug: a message counts as sent as soon as its transmission begins.
TransmitRecordingFirst(t, m) ==
  \/ /\ DedupCache # "none" /\ m \in seen
     /\ Advance(t, Answered(m, "duplicate"))
  \/ /\ m \notin seen /\ m[2] # "invalid"
     /\ seen' = IF DedupCache = "none" THEN seen ELSE seen \cup {m}
     /\ tx' = [tx EXCEPT ![t] = Posting(m)]
     /\ UNCHANGED <<registry, draft, dead, received>>

\* Bug: the message id is a fresh UUID, which is in no cache.
TransmitAfresh(t, m) == Send(t, m)

\* AUSTRACGateway.transmit up to its POST.
Transmit(t, m) ==
  \/ /\ DedupCache # "none" /\ m \in seen
     /\ Advance(t, Answered(m, "duplicate"))
  \/ /\ DedupCache \in {"none", "lossy"} \/ m \notin seen
     /\ Send(t, m)

\* The XML comes with the request or, when that is empty, from the registry.
TransmitReport(t, r) ==
  /\ tx[t] = Idle
  /\ registry[r].content # "none"
  /\ \E c \in Contents : Transmit(t, <<r, c>>)

\* AUSTRAC accepts the message; its answer is on the way.
Accept(t) ==
  /\ tx[t].phase = "posting"
  /\ received[tx[t].msg] < MaxReceived
  /\ tx' = [tx EXCEPT ![t] = Accepted(tx[t].msg)]
  /\ received' = [received EXCEPT ![tx[t].msg] = @ + 1]
  /\ UNCHANGED <<registry, draft, seen, dead>>

Acknowledged(t) ==
  /\ tx[t].phase = "accepted"
  /\ tx' = [tx EXCEPT ![t] = Answered(tx[t].msg, "transmitted")]
  /\ seen' = IF DedupCache = "none" THEN seen ELSE seen \cup {tx[t].msg}
  /\ UNCHANGED <<registry, draft, dead, received>>

\* An HTTP error, no connection, or an answer that never comes (timeout).
NotAcknowledged(t) ==
  /\ tx[t].phase = "posting" \/ (RepliesLost /\ tx[t].phase = "accepted")
  /\ Fail(t, tx[t].msg)

\* The client has read the answer and may send another request.
AnswerRead(t) ==
  /\ tx[t].phase = "answered"
  /\ Advance(t, Idle)

\* Only SQS and the cache outlive the process.
Restart ==
  /\ MayRestart
  /\ registry' = [r \in Reports |-> NoReport]
  /\ draft' = [d \in Drafters |-> "none"]
  /\ tx' = [t \in Transmitters |-> Idle]
  /\ dead' = [dead EXCEPT !.memory = {}]
  /\ UNCHANGED <<seen, received>>

-----------------------------------------------------------------------------
Init ==
  /\ registry = [r \in Reports |-> NoReport]
  /\ draft = [d \in Drafters |-> "none"]
  /\ tx = [t \in Transmitters |-> Idle]
  /\ seen = {}
  /\ dead = [sqs |-> {}, memory |-> {}]
  /\ received = [m \in Messages |-> 0]

Next ==
  \/ \E r \in Reports : \/ Generate(r)
                        \/ \E d \in Drafters : GenerateNarrated(d, r)
                        \/ \E s \in Statuses : UpdateReport(r, s)
                        \/ \E t \in Transmitters : TransmitReport(t, r)
  \/ \E d \in Drafters : Drafted(d)
  \/ \E t \in Transmitters : Accept(t) \/ Acknowledged(t) \/ NotAcknowledged(t) \/ AnswerRead(t)
  \/ Restart

Spec == Init /\ [][Next]_vars

-----------------------------------------------------------------------------
(* Properties *)

HasAnswer(t, a) == tx[t].phase = "answered" /\ tx[t].answer = a

\* A client that is told "transmitted" or "duplicate" can rely on it: AUSTRAC has
\* accepted that very message, whatever was lost, forgotten or restarted.
AnswersAreTrue ==
  \A t \in Transmitters :
    HasAnswer(t, "transmitted") \/ HasAnswer(t, "duplicate") => received[tx[t].msg] > 0

\* A transmission that was answered with a 502 is among the dead letters, even if
\* SQS refused it.
FailuresAreKept ==
  \A t \in Transmitters :
    HasAnswer(t, "failed") => tx[t].msg \in dead.sqs \cup dead.memory

\* AUSTRAC never gets a document that is against the XSD, whichever document the
\* request carries and whichever the registry holds.
OnlyValidReports == \A r \in Reports : received[<<r, "invalid">>] = 0

\* The XML of an approved report is the XML that was approved: a narrative that
\* arrives later makes the report a draft again.
ApprovalCoversContent ==
  [][\A r \in Reports :
       registry[r].status = "approved" /\ registry'[r].status = "approved" =>
         registry'[r].content = registry[r].content]_vars

-----------------------------------------------------------------------------
(* Claims of the source *)

\* "so that genuine retries (same XML) are deduplicated": AUSTRAC accepts a message
\* once. True with a cache that keeps what it is told, for requests made one after
\* the other whose answers arrive; the application configures no cache.
SentOnce == \A m \in Messages : received[m] <= 1
=============================================================================
