-------------------------- MODULE ClientOnboarding --------------------------
(***************************************************************************)
(* OnboardingSection.tsx over useClients, useCreateClient,                 *)
(* useOnboardingStatus, useInitiateOnboarding and useAdvanceOnboarding:    *)
(* the list of clients, the dialog that creates one and starts its         *)
(* onboarding, and the workflow tab that starts or advances a case.        *)
(*                                                                         *)
(* What the button of the workflow does is decided by the copy of the      *)
(* clients, the steps it shows by the copy of the case.  The list and the  *)
(* panel ask for different lengths of the same list; both are one query    *)
(* here.  The server is the one the hooks assume.                          *)
(***************************************************************************)
EXTENDS Query, FiniteSets, Sequences

CONSTANTS
  MaxClients,  \* bound on clients
  MaxCasesEach \* bound on cases of one client

ASSUME ClientAssumption == {MaxClients, MaxCasesEach} \subseteq Nat

VARIABLES
  clients,      \* server: the cases of each client, each by the state of its workflow
  clientQuery,  \* the query of the clients
  statusQuery,  \* the query of the case of the client selected
  desk,         \* quick filter, client selected (0 for none), whether the form is open
  newClient,    \* where handleCreateClient is, the client it made
  advanceCall   \* the call of the workflow tab under way

clientVars == <<clients, clientQuery, statusQuery, desk, newClient, advanceCall>>

(* WORKFLOW_STEPS, those between the first and the last as one.            *)
Steps == <<"initiated", "risk_assessment", "completed">>
Ended == {"completed", "rejected"}
WorkflowStates == {Steps[n] : n \in DOMAIN Steps} \union {"rejected"}
NoCase == 0
NoNewClient == [at |-> "idle", client |-> 0, here |-> FALSE]
NoAdvance == [client |-> 0, case |-> NoCase, known |-> FALSE]

ClientRows == clientQuery.rows

(* The first case that has not ended, of the client as listed.             *)
ActiveCase(cases) ==
  LET active == {k \in DOMAIN cases : cases[k] \notin Ended}
  IN  IF active = {} THEN NoCase ELSE CHOOSE k \in active : \A j \in active : k <= j

ListedCase == IF desk.client \in DOMAIN ClientRows THEN ActiveCase(ClientRows[desk.client]) ELSE NoCase

(* onboardingStatus of a client: that of its latest case.                  *)
ClientStatus(cases) == IF cases = << >> THEN "pending" ELSE cases[Len(cases)]

(* The quick filters, and the clients under one.                           *)
QuickFilters ==
  [pending     |-> {"initiated", "pending", "document_review"},
   in_progress |-> {"kyc_verification", "sanctions_check", "ubo_analysis", "risk_assessment"},
   verified    |-> {"completed"},
   rejected    |-> {"rejected"}]
ClientsUnder(filter) ==
  {i \in DOMAIN ClientRows :
     filter = "all" \/ ClientStatus(ClientRows[i]) \in QuickFilters[filter]}

(* The tiles over the list, which count a review of documents elsewhere.   *)
ClientStats ==
  LET having(statuses) == Cardinality({i \in DOMAIN ClientRows : ClientStatus(ClientRows[i]) \in statuses})
  IN  [total      |-> Len(ClientRows),
       initiated  |-> having({"initiated", "pending"}),
       inProgress |-> Len(ClientRows) - having({"initiated", "pending"} \union Ended),
       verified   |-> having({"completed"}),
       rejected   |-> having({"rejected"})]

(* The step the tab marks as current, 0 if the state is not a step.        *)
CurrentState ==
  IF ListedCase # NoCase /\ statusQuery.known THEN statusQuery.rows
  ELSE IF desk.client \in DOMAIN ClientRows THEN ClientStatus(ClientRows[desk.client])
  ELSE "pending"
CurrentStep == IF \E n \in DOMAIN Steps : Steps[n] = CurrentState
               THEN CHOOSE n \in DOMAIN Steps : Steps[n] = CurrentState ELSE 0

\* Bug: the key of the query is the client, not the case.
CaseShownByClient(query) ==
  /\ clientQuery' = query
  /\ statusQuery' =
       LET case == IF desk'.client \in DOMAIN query.rows THEN ActiveCase(query.rows[desk'.client]) ELSE NoCase
       IN  IF case = NoCase THEN [statusQuery EXCEPT !.asked = FALSE]
           ELSE IF desk'.client = desk.client /\ statusQuery.known THEN statusQuery
           ELSE NewQuery("none")

(* The query of the case is there while the copy of the client has one; a  *)
(* case that is not the one before is another query.                       *)
CaseShown(query) ==
  /\ clientQuery' = query
  /\ statusQuery' =
       LET case == IF desk'.client \in DOMAIN query.rows THEN ActiveCase(query.rows[desk'.client]) ELSE NoCase
       IN  IF case = NoCase THEN [NewQuery("none") EXCEPT !.asked = FALSE]
           ELSE IF desk'.client = desk.client /\ case = ListedCase THEN statusQuery
           ELSE NewQuery("none")
-----------------------------------------------------------------------------
(* The queries                                                             *)

ClientsAnswered ==
  /\ clientQuery.asked
  /\ UNCHANGED <<clients, desk, newClient, advanceCall>>
  /\ CaseShown(AnsweredWith(clients))

StatusAnswered ==
  /\ statusQuery.asked
  /\ statusQuery' = AnsweredWith(clients[desk.client][ListedCase])
  /\ UNCHANGED <<clients, clientQuery, desk, newClient, advanceCall>>

FetchesFail ==
  /\ \/ clientQuery.asked /\ clientQuery' = FetchFailed(clientQuery) /\ UNCHANGED statusQuery
     \/ statusQuery.asked /\ statusQuery' = FetchFailed(statusQuery) /\ UNCHANGED clientQuery
  /\ UNCHANGED <<clients, desk, newClient, advanceCall>>

(* The checks of the pipeline take a case on, or an officer rejects it.    *)
WorkflowMovesElsewhere ==
  /\ \E i \in DOMAIN clients : \E k \in DOMAIN clients[i] :
       /\ clients[i][k] \notin Ended
       /\ clients' = [clients EXCEPT ![i][k] = "rejected"]
  /\ clientQuery' = Overtaken(clientQuery)
  /\ statusQuery' = Overtaken(statusQuery)
  /\ UNCHANGED <<desk, newClient, advanceCall>>
-----------------------------------------------------------------------------
(* The list                                                                *)

(* One of the quick filters; the others, the search and the selections      *)
(* narrow the rows the same way.                                           *)
QuickFilter ==
  /\ desk.client = 0
  /\ \E f \in {"all", "pending"} : desk' = [desk EXCEPT !.filter = f]
  /\ UNCHANGED <<clients, clientQuery, statusQuery, newClient, advanceCall>>

(* A row is clicked, or the dialog closed.  The workflow tab of the client *)
(* is the one looked at.                                                   *)
SelectClient ==
  /\ ~desk.form
  /\ \/ \E i \in ClientsUnder(desk.filter) : desk.client = 0 /\ desk' = [desk EXCEPT !.client = i]
     \/ desk.client # 0 /\ desk' = [desk EXCEPT !.client = 0]
  /\ CaseShown(clientQuery)
  /\ UNCHANGED <<clients, newClient, advanceCall>>

LeaveOnboarding ==
  /\ desk' = [filter |-> "all", client |-> 0, form |-> FALSE]
  /\ \E q \in Mounted(clientQuery) : CaseShown(q)
  /\ newClient' = [newClient EXCEPT !.here = FALSE]
  /\ advanceCall' = [advanceCall EXCEPT !.known = FALSE]
  /\ UNCHANGED clients
-----------------------------------------------------------------------------
(* handleCreateClient                                                      *)

OpenClientForm ==
  /\ desk.client = 0
  /\ desk' = [desk EXCEPT !.form = ~@]
  /\ UNCHANGED <<clients, clientQuery, statusQuery, newClient, advanceCall>>

(* The button is disabled while this form's client is being created, not   *)
(* while its onboarding is being initiated; one chain at a time here.      *)
SubmitClient ==
  /\ desk.form
  /\ newClient.at = "idle"
  /\ newClient' = [at |-> "creating", client |-> 0, here |-> TRUE]
  /\ UNCHANGED <<clients, clientQuery, statusQuery, desk, advanceCall>>

(* useCreateClient answers: the dialog that is open by then is closed, and *)
(* the onboarding initiated, wherever the officer is.                      *)
ClientCreated ==
  /\ newClient.at = "creating"
  /\ \/ /\ Len(clients) < MaxClients
        /\ clients' = Append(clients, << >>)
        /\ newClient' = [newClient EXCEPT !.at = "initiating", !.client = Len(clients) + 1]
        /\ clientQuery' = Refetched(clientQuery)
        /\ desk' = [desk EXCEPT !.form = @ /\ ~newClient.here]
     \/ /\ newClient' = NoNewClient
        /\ UNCHANGED <<clients, clientQuery, desk>>
  /\ UNCHANGED <<statusQuery, advanceCall>>

ClientInitiated ==
  /\ newClient.at = "initiating"
  /\ \/ /\ clients' = [clients EXCEPT ![newClient.client] = Append(@, "initiated")]
        /\ newClient' = NoNewClient
        /\ clientQuery' = Refetched(clientQuery)
     \/ /\ newClient' = NoNewClient
        /\ UNCHANGED <<clients, clientQuery>>
  /\ UNCHANGED <<statusQuery, desk, advanceCall>>
-----------------------------------------------------------------------------
(* OnboardingWorkflow                                                      *)

(* handleAdvance: what the button does depends on the copy of the clients. *)
(* It is disabled while its own calls are pending.  known: at the click no  *)
(* case of this client could be missing from the copy.                     *)
Advance ==
  /\ desk.client \in DOMAIN ClientRows
  /\ advanceCall = NoAdvance
  /\ ListedCase = NoCase => Len(clients[desk.client]) < MaxCasesEach
  /\ advanceCall' = [client |-> desk.client, case |-> ListedCase,
                     known |-> /\ Settled(clientQuery)
                               /\ newClient.at = "initiating" => newClient.client # desk.client]
  /\ UNCHANGED <<clients, clientQuery, statusQuery, desk, newClient>>

NextState(state) ==
  IF state \in Ended THEN state
  ELSE Steps[(CHOOSE n \in DOMAIN Steps : Steps[n] = state) + 1]

(* A case is opened, or takes a step, or the server refuses.               *)
AdvanceSettled ==
  /\ advanceCall # NoAdvance
  /\ \/ /\ advanceCall.case = NoCase
        /\ clients' = [clients EXCEPT ![advanceCall.client] = Append(@, "initiated")]
        /\ clientQuery' = Refetched(clientQuery)
        /\ UNCHANGED statusQuery
     \/ /\ advanceCall.case # NoCase
        /\ clients' = [clients EXCEPT ![advanceCall.client][advanceCall.case] = NextState(@)]
        /\ clientQuery' = Refetched(clientQuery)
        /\ statusQuery' = IF ListedCase = NoCase THEN statusQuery ELSE Refetched(statusQuery)
     \/ UNCHANGED <<clients, clientQuery, statusQuery>>
  /\ advanceCall' = NoAdvance
  /\ UNCHANGED <<desk, newClient>>
-----------------------------------------------------------------------------
ClientsInit ==
  /\ clients = << >>
  /\ clientQuery = NewQuery(<< >>)
  /\ statusQuery = [NewQuery("none") EXCEPT !.asked = FALSE]
  /\ desk = [filter |-> "all", client |-> 0, form |-> FALSE]
  /\ newClient = NoNewClient
  /\ advanceCall = NoAdvance

ClientsNext ==
  \/ ClientsAnswered
  \/ StatusAnswered
  \/ FetchesFail
  \/ WorkflowMovesElsewhere
  \/ QuickFilter
  \/ SelectClient
  \/ LeaveOnboarding
  \/ OpenClientForm
  \/ SubmitClient
  \/ ClientCreated
  \/ ClientInitiated
  \/ Advance
  \/ AdvanceSettled

ClientsSpec == ClientsInit /\ [][ClientsNext]_clientVars
-----------------------------------------------------------------------------
(* Properties                                                              *)

ClientsTypeOK ==
  /\ \A i \in DOMAIN clients : \A k \in DOMAIN clients[i] : clients[i][k] \in WorkflowStates
  /\ QueryOK(clientQuery) /\ QueryOK(statusQuery)
  /\ statusQuery.asked => ListedCase # NoCase
  /\ desk.client \in 0..Len(clients)

(* A client with a case that has not ended gets a second one only from a   *)
(* button that was clicked while the list was being fetched or was behind, *)
(* or while the form that created the client was still starting its first. *)
SecondCaseOnStaleList ==
  [][\A i \in DOMAIN clients :
       (ActiveCase(clients[i]) # NoCase /\ Len(clients'[i]) > Len(clients[i]))
         => (newClient.at = "initiating" \/ ~advanceCall.known)]_clientVars

(* Every client is under exactly one quick filter, whatever became of its  *)
(* cases, and under exactly one tile.                                      *)
FiltersPartition ==
  /\ \A i \in DOMAIN ClientRows :
       Cardinality({f \in DOMAIN QuickFilters : i \in ClientsUnder(f)}) = 1
  /\ ClientStats.initiated + ClientStats.inProgress + ClientStats.verified + ClientStats.rejected
       = ClientStats.total

(* The steps ticked as done were done: what the tab shows of a case never  *)
(* runs ahead of the case.                                                 *)
ProgressNotAhead ==
  (ListedCase # NoCase /\ statusQuery.known /\ clients[desk.client][ListedCase] # "rejected")
    => \E n \in DOMAIN Steps : Steps[n] = clients[desk.client][ListedCase] /\ CurrentStep <= n
=============================================================================
