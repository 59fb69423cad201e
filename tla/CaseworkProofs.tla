--------------------------- MODULE CaseworkProofs ---------------------------
(***************************************************************************)
(* What the sections of Casework keep, for every value of their bounds:    *)
(* each section has an inductive invariant of its own, and a behaviour of  *)
(* the composition is one of every section.                                *)
(***************************************************************************)
EXTENDS Casework, ListingProofs
-----------------------------------------------------------------------------
(* Clients                                                                 *)

\* The place of a state among the steps, 0 for one that is not a step, and what may be shown of
\* a case that stands at a state: nothing further on, unless it was rejected.
Place(state) ==
  CASE state = "initiated" -> 1 [] state = "risk_assessment" -> 2 [] state = "completed" -> 3
    [] OTHER -> 0
NotAhead(shown, state) == state = "rejected" \/ Place(shown) <= Place(state)

CaseList == Seq(WorkflowStates)

\* Clients and their cases are only ever added, so that a copy has no more of either.
ClientsInv ==
  /\ clients \in Seq(CaseList) /\ ClientRows \in Seq(CaseList)
  /\ Len(ClientRows) <= Len(clients)
  /\ \A i \in 1..Len(ClientRows) : Len(ClientRows[i]) <= Len(clients[i])
  /\ IsQuery(clientQuery) /\ QueryOK(clientQuery)
  /\ Settled(clientQuery) => ClientRows = clients

DeskInv == desk \in [filter : {"all", "pending"}, client : 0..Len(clients), form : BOOLEAN]

\* The case on screen is asked for, and shown no further than it is.
StatusInv ==
  /\ IsQuery(statusQuery) /\ QueryOK(statusQuery)
  /\ statusQuery.asked => ListedCase # NoCase
  /\ (statusQuery.known /\ ListedCase # NoCase) =>
       NotAhead(statusQuery.rows, clients[desk.client][ListedCase])

\* A chain and a call are about clients there are; of a case that a click was to start while
\* the copy was as of now, there is none yet, and no other chain starts one.
ChainsInv ==
  /\ newClient \in [at : {"idle", "creating", "initiating"}, client : 0..Len(clients),
                    here : BOOLEAN]
  /\ newClient.at = "initiating" => newClient.client # 0
  /\ advanceCall \in [client : 0..Len(clients), case : Nat, known : BOOLEAN]
  /\ advanceCall # NoAdvance => advanceCall.client # 0
  /\ advanceCall.case # NoCase => advanceCall.case <= Len(clients[advanceCall.client])
  /\ (advanceCall.known /\ advanceCall.case = NoCase) =>
       /\ ActiveCase(clients[advanceCall.client]) = NoCase
       /\ newClient.at = "initiating" => newClient.client # advanceCall.client

ClientInv == ClientsInv /\ DeskInv /\ StatusInv /\ ChainsInv

-----------------------------------------------------------------------------
(* Cases of a client                                                       *)

LEMMA StatesAre == WorkflowStates = {"initiated", "risk_assessment", "completed", "rejected"}
<1>1. /\ DOMAIN Steps = {1, 2, 3} /\ Steps[1] = "initiated" /\ Steps[2] = "risk_assessment"
      /\ Steps[3] = "completed"
  BY DEF Steps
<1>2. QED
  BY <1>1 DEF WorkflowStates

LEMMA PlacesOfSteps ==
  ASSUME NEW state
  PROVE  /\ Place(state) \in 0..3
         /\ \A n \in DOMAIN Steps : Steps[n] = state <=> Place(state) = n
         /\ state \in WorkflowStates /\ state # "rejected" => Place(state) \in 1..3
<1>1. /\ DOMAIN Steps = {1, 2, 3} /\ Steps[1] = "initiated" /\ Steps[2] = "risk_assessment"
      /\ Steps[3] = "completed"
  BY DEF Steps
<1>2. QED
  BY <1>1, StatesAre DEF Place

\* A finite set of numbers that is not empty has a least one.
LEMMA LeastNumber ==
  ASSUME NEW S \in SUBSET Int, IsFiniteSet(S), S # {}
  PROVE  \E k \in S : \A j \in S : k <= j
<1>1. 1 \in 1..Cardinality(S)
  BY FS_EmptySet, FS_CardinalityType
<1>2. PICK k \in S : Cardinality({y \in S : y < k}) = 1 - 1
  BY <1>1, PlacesFromBottom
<1>3. {y \in S : y < k} = {}
  <2>1. {y \in S : y < k} \in SUBSET S
    OBVIOUS
  <2>2. IsFiniteSet({y \in S : y < k})
    BY <2>1, FS_Subset
  <2>3. QED
    BY <1>2, <2>2, FS_EmptySet
<1>4. QED
  BY <1>3

\* The case that is active is a case, the first that has not ended.
LEMMA ActiveIsCase ==
  ASSUME NEW list \in CaseList
  PROVE  /\ ActiveCase(list) \in 0..Len(list)
         /\ ActiveCase(list) = NoCase <=> \A k \in 1..Len(list) : list[k] \in Ended
<1> DEFINE active == {k \in DOMAIN list : list[k] \notin Ended}
<1>1. DOMAIN list = 1..Len(list) /\ Len(list) \in Nat
  BY LenProperties DEF CaseList
<1>2. CASE active = {}
  <2>1. ActiveCase(list) = NoCase
    BY <1>2 DEF ActiveCase
  <2>2. QED
    BY <1>1, <1>2, <2>1 DEF NoCase
<1>3. CASE active # {}
  <2>1. active \in SUBSET Int /\ active # {} /\ IsFiniteSet(active)
    <3>1. active \in SUBSET (1..Len(list))
      BY <1>1
    <3>2. QED
      BY <1>1, <1>3, <3>1, PlacesCount, FS_Subset
  <2>2. PICK k \in active : \A j \in active : k <= j
    <3> HIDE DEF active
    <3>1. QED
      BY <2>1, LeastNumber
  <2>3. ActiveCase(list) = CHOOSE m \in active : \A j \in active : m <= j
    BY <1>3 DEF ActiveCase
  <2>4. ActiveCase(list) \in active
    <3> HIDE DEF active
    <3>1. QED
      BY <2>2, <2>3
  <2>5. QED
    BY <1>1, <2>4 DEF NoCase
<1>4. QED
  BY <1>2, <1>3

\* A step forward is a step.
LEMMA NextIsState ==
  ASSUME NEW state \in WorkflowStates
  PROVE  /\ NextState(state) \in WorkflowStates
         /\ \A shown : NotAhead(shown, state) => NotAhead(shown, NextState(state))
         /\ state \in Ended => NextState(state) = state
<1>1. /\ DOMAIN Steps = {1, 2, 3} /\ Steps[1] = "initiated" /\ Steps[2] = "risk_assessment"
      /\ Steps[3] = "completed"
  BY DEF Steps
<1>2. /\ state = "initiated" => (CHOOSE n \in DOMAIN Steps : Steps[n] = state) = 1
      /\ state = "risk_assessment" => (CHOOSE n \in DOMAIN Steps : Steps[n] = state) = 2
  BY <1>1
<1>3. /\ state = "initiated" => NextState(state) = "risk_assessment"
      /\ state = "risk_assessment" => NextState(state) = "completed"
      /\ state \in Ended => NextState(state) = state
  BY <1>1, <1>2 DEF NextState, Ended
<1>4. QED
  BY <1>3, StatesAre DEF NotAhead, Place, Ended

-----------------------------------------------------------------------------
(* The case on screen                                                      *)

\* Cases only go on, and are only added.
Grown(old, new) ==
  /\ Len(old) <= Len(new)
  /\ \A i \in 1..Len(old) :
       /\ Len(old[i]) <= Len(new[i])
       /\ \A k \in 1..Len(old[i]) : \/ new[i][k] = old[i][k] \/ new[i][k] = "rejected"
                                    \/ new[i][k] = NextState(old[i][k])

LEMMA CaseListsAre ==
  /\ \A list \in CaseList : Len(list) \in Nat /\ DOMAIN list = 1..Len(list)
  /\ \A c \in Seq(CaseList) :
       /\ Len(c) \in Nat /\ DOMAIN c = 1..Len(c)
       /\ \A i \in 1..Len(c) : c[i] \in CaseList /\ Len(c[i]) \in Nat /\ DOMAIN c[i] = 1..Len(c[i])
       /\ \A i \in 1..Len(c) : \A k \in 1..Len(c[i]) : c[i][k] \in WorkflowStates
<1>1. \A list \in CaseList : Len(list) \in Nat /\ DOMAIN list = 1..Len(list)
  BY LenProperties DEF CaseList
<1>2. ASSUME NEW c \in Seq(CaseList) PROVE Len(c) \in Nat /\ DOMAIN c = 1..Len(c)
  BY LenProperties
<1>3. ASSUME NEW c \in Seq(CaseList), NEW i \in 1..Len(c)
      PROVE  c[i] \in CaseList /\ \A k \in 1..Len(c[i]) : c[i][k] \in WorkflowStates
  <2>1. c[i] \in CaseList
    BY <1>3, ElementOfSeq
  <2>2. QED
    BY <2>1, ElementOfSeq DEF CaseList
<1>4. QED
  BY <1>1, <1>2, <1>3

LEMMA ListedIsCase ==
  ASSUME ClientsInv
  PROVE  /\ ListedCase \in Nat
         /\ desk.client \in DOMAIN ClientRows => ListedCase = ActiveCase(ClientRows[desk.client])
         /\ ListedCase # NoCase =>
              /\ desk.client \in 1..Len(ClientRows) /\ desk.client \in 1..Len(clients)
              /\ ListedCase \in 1..Len(ClientRows[desk.client])
              /\ ListedCase \in 1..Len(clients[desk.client])
<1>1. CASE desk.client \in DOMAIN ClientRows
  <2>1. desk.client \in 1..Len(ClientRows) /\ desk.client \in 1..Len(clients)
    BY <1>1, CaseListsAre DEF ClientsInv
  <2>2. ListedCase = ActiveCase(ClientRows[desk.client])
    BY <1>1 DEF ListedCase
  <2>3. ClientRows[desk.client] \in CaseList /\ clients[desk.client] \in CaseList
        /\ Len(ClientRows[desk.client]) <= Len(clients[desk.client])
    BY <2>1, CaseListsAre DEF ClientsInv
  <2>4. ListedCase \in 0..Len(ClientRows[desk.client])
    BY <2>2, <2>3, ActiveIsCase
  <2>5. QED
    BY <2>1, <2>2, <2>3, <2>4, CaseListsAre DEF NoCase
<1>2. CASE desk.client \notin DOMAIN ClientRows
  BY <1>2 DEF ListedCase, NoCase
<1>3. QED
  BY <1>1, <1>2

\* Growth of the server's cases leaves the copies short of it.
LEMMA ClientsKeep ==
  ASSUME ClientsInv, clients' \in Seq(CaseList), Grown(clients, clients'),
         \/ clientQuery' = Refetched(clientQuery)
         \/ clientQuery' = Overtaken(clientQuery)
         \/ clientQuery' = clientQuery /\ clients' = clients
  PROVE  ClientsInv' /\ ClientRows' = ClientRows
<1>1. /\ ClientRows' = ClientRows /\ IsQuery(clientQuery') /\ QueryOK(clientQuery')
      /\ (clients' = clients /\ clientQuery' = clientQuery) \/ ~Settled(clientQuery')
  BY QueryMoves, QueryKeepsRows, QueryStaysOK DEF ClientsInv, ClientRows
<1>2. Len(ClientRows) <= Len(clients')
  BY CaseListsAre DEF ClientsInv, Grown
<1>3. ASSUME NEW i \in 1..Len(ClientRows)
      PROVE  Len(ClientRows[i]) <= Len(clients'[i])
  <2>1. i \in 1..Len(clients) /\ i \in 1..Len(clients')
    BY <1>2, CaseListsAre DEF ClientsInv
  <2>2. Len(ClientRows[i]) <= Len(clients[i]) /\ Len(clients[i]) <= Len(clients'[i])
    BY <2>1 DEF ClientsInv, Grown
  <2>3. Len(ClientRows[i]) \in Nat /\ Len(clients[i]) \in Nat /\ Len(clients'[i]) \in Nat
    BY <2>1, CaseListsAre DEF ClientsInv
  <2>4. QED
    BY <2>2, <2>3
<1>4. QED
  BY <1>1, <1>2, <1>3 DEF ClientsInv

LEMMA FurtherIsNotAhead ==
  ASSUME NEW s \in WorkflowStates, NEW t, t = s \/ t = "rejected" \/ t = NextState(s),
         NEW shown, NotAhead(shown, s)
  PROVE  NotAhead(shown, t)
BY NextIsState DEF NotAhead

LEMMA StatusKeeps ==
  ASSUME ClientsInv, StatusInv, clients' \in Seq(CaseList), Grown(clients, clients'),
         ClientRows' = ClientRows, desk'.client = desk.client,
         \/ statusQuery' = statusQuery
         \/ statusQuery' = Overtaken(statusQuery)
         \/ statusQuery' = Refetched(statusQuery) /\ ListedCase # NoCase
         \/ statusQuery' = FetchFailed(statusQuery)
  PROVE  StatusInv'
<1>1. ListedCase' = ListedCase
  BY DEF ListedCase
<1>2. /\ IsQuery(statusQuery') /\ QueryOK(statusQuery') /\ statusQuery'.rows = statusQuery.rows
      /\ statusQuery'.known = statusQuery.known
      /\ statusQuery'.asked => ListedCase # NoCase
  <2>1. IsQuery(statusQuery) /\ QueryOK(statusQuery)
    BY DEF StatusInv
  <2>2. /\ IsQuery(statusQuery') /\ QueryOK(statusQuery') /\ statusQuery'.rows = statusQuery.rows
    BY <2>1, QueryMoves, QueryKeepsRows, QueryStaysOK
  <2>3. statusQuery'.known = statusQuery.known
    BY <2>1 DEF IsQuery, Overtaken, Refetched, FetchFailed
  <2>4. statusQuery'.asked => ListedCase # NoCase
    BY <2>1 DEF IsQuery, Overtaken, Refetched, FetchFailed, StatusInv
  <2>5. QED
    BY <2>2, <2>3, <2>4
<1>3. ASSUME statusQuery.known, ListedCase # NoCase
      PROVE  NotAhead(statusQuery.rows, clients'[desk.client][ListedCase])
  <2>1. desk.client \in 1..Len(clients) /\ ListedCase \in 1..Len(clients[desk.client])
    BY <1>3, ListedIsCase
  <2>2. PICK s \in WorkflowStates : s = clients[desk.client][ListedCase]
    BY <2>1, CaseListsAre DEF ClientsInv
  <2>3. PICK t : t = clients'[desk.client][ListedCase]
    OBVIOUS
  <2>4. t = s \/ t = "rejected" \/ t = NextState(s)
    BY <2>1, <2>2, <2>3 DEF Grown
  <2>5. NotAhead(statusQuery.rows, s)
    BY <1>3, <2>2 DEF StatusInv
  <2>6. QED
    BY <2>3, <2>4, <2>5, FurtherIsNotAhead
<1>4. QED
  BY <1>1, <1>2, <1>3 DEF StatusInv

\* What is shown after a change of the copy or of the selection: of the same case what was shown
\* before, of another one nothing yet.
LEMMA ShownKeeps ==
  ASSUME ClientsInv, StatusInv, clients' = clients, ClientsInv',
         NEW query, CaseShown(query)
  PROVE  StatusInv'
<1> DEFINE case == IF desk'.client \in DOMAIN query.rows
                   THEN ActiveCase(query.rows[desk'.client]) ELSE NoCase
<1>1. ListedCase' = case
  BY DEF CaseShown, ListedCase, ClientRows
<1>2. statusQuery' = IF case = NoCase THEN [NewQuery("none") EXCEPT !.asked = FALSE]
                     ELSE IF desk'.client = desk.client /\ case = ListedCase THEN statusQuery
                     ELSE NewQuery("none")
  BY DEF CaseShown
<1> HIDE DEF case
<1>3. CASE case = NoCase
  <2>1. IsQuery(statusQuery') /\ QueryOK(statusQuery') /\ statusQuery'.asked = FALSE
        /\ statusQuery'.known = FALSE
    BY <1>2, <1>3 DEF NewQuery, IsQuery, QueryOK
  <2>2. QED
    BY <2>1 DEF StatusInv
<1>4. CASE case # NoCase /\ desk'.client = desk.client /\ case = ListedCase
  BY <1>1, <1>2, <1>4 DEF StatusInv
<1>5. CASE case # NoCase /\ ~(desk'.client = desk.client /\ case = ListedCase)
  <2>1. IsQuery(statusQuery') /\ QueryOK(statusQuery') /\ statusQuery'.known = FALSE
    BY <1>2, <1>5 DEF NewQuery, IsQuery, QueryOK
  <2>2. QED
    BY <1>1, <1>5, <2>1 DEF StatusInv
<1>6. QED
  BY <1>3, <1>4, <1>5

-----------------------------------------------------------------------------
(* The inductive invariant                                                 *)

LEMMA InitClients == ClientsInit => ClientInv
<1> SUFFICES ASSUME ClientsInit PROVE ClientInv
  OBVIOUS
<1>1. clients = << >> /\ ClientRows = << >> /\ << >> \in Seq(CaseList) /\ Len(<< >>) = 0
  BY EmptySeq, QueryBegins DEF ClientsInit, ClientRows
<1>2. IsQuery(clientQuery) /\ QueryOK(clientQuery) /\ ~Settled(clientQuery)
  BY QueryBegins, QueryBeginsOK DEF ClientsInit
<1>3. ClientsInv
  BY <1>1, <1>2 DEF ClientsInv
<1>4. DeskInv
  BY <1>1 DEF ClientsInit, DeskInv
<1>5. StatusInv
  <2>1. IsQuery(statusQuery) /\ QueryOK(statusQuery) /\ ~statusQuery.asked /\ ~statusQuery.known
    BY DEF ClientsInit, NewQuery, IsQuery, QueryOK
  <2>2. QED
    BY <2>1 DEF StatusInv
<1>6. ChainsInv
  BY <1>1 DEF ClientsInit, ChainsInv, NoNewClient, NoAdvance, NoCase
<1>7. QED
  BY <1>3, <1>4, <1>5, <1>6 DEF ClientInv

\* Nothing new on the server is growth.
LEMMA SameIsGrown ==
  ASSUME clients \in Seq(CaseList), clients' = clients
  PROVE  clients' \in Seq(CaseList) /\ Grown(clients, clients')
BY CaseListsAre DEF Grown

\* A client more.
LEMMA ClientIsGrown ==
  ASSUME clients \in Seq(CaseList), clients' = Append(clients, << >>)
  PROVE  /\ clients' \in Seq(CaseList) /\ Grown(clients, clients')
         /\ Len(clients') = Len(clients) + 1
         /\ \A i \in 1..Len(clients) : clients'[i] = clients[i]
<1>1. << >> \in CaseList
  BY EmptySeq DEF CaseList
<1>2. /\ clients' \in Seq(CaseList) /\ Len(clients') = Len(clients) + 1
      /\ \A i \in 1..Len(clients) : clients'[i] = clients[i]
  BY <1>1, AppendProperties
<1>3. QED
  BY <1>2, CaseListsAre DEF Grown

\* What the server's cases become when a client gets a case, or a case goes on.
WithCase(c, i) == [c EXCEPT ![i] = Append(@, "initiated")]
Moved(c, i, k, state) == [c EXCEPT ![i][k] = state]

LEMMA CasesReplaced ==
  ASSUME NEW c \in Seq(CaseList), NEW i \in 1..Len(c), NEW list \in CaseList,
         NEW d, d = [c EXCEPT ![i] = list]
  PROVE  /\ d \in Seq(CaseList) /\ Len(d) = Len(c)
         /\ \A j \in 1..Len(c) : d[j] = IF j = i THEN list ELSE c[j]
BY ExceptSeq

LEMMA CaseIsGrown ==
  ASSUME NEW c \in Seq(CaseList), NEW i \in 1..Len(c), NEW d, d = WithCase(c, i)
  PROVE  /\ d \in Seq(CaseList) /\ Grown(c, d) /\ Len(d) = Len(c)
         /\ \A j \in 1..Len(c) : j # i => d[j] = c[j]
<1>1. PICK list : list = Append(c[i], "initiated")
  OBVIOUS
<1>2. c[i] \in CaseList /\ "initiated" \in WorkflowStates
  BY CaseListsAre, StatesAre
<1>3. /\ list \in CaseList /\ Len(list) = Len(c[i]) + 1
      /\ \A k \in 1..Len(c[i]) : list[k] = c[i][k]
  BY <1>1, <1>2, AppendProperties DEF CaseList
<1>4. d = [c EXCEPT ![i] = list]
  BY <1>1 DEF WithCase
<1>5. /\ d \in Seq(CaseList) /\ Len(d) = Len(c)
      /\ \A j \in 1..Len(c) : d[j] = IF j = i THEN list ELSE c[j]
  BY <1>3, <1>4, CasesReplaced
<1>6. Len(c) \in Nat /\ \A j \in 1..Len(c) : Len(c[j]) \in Nat
  BY CaseListsAre
<1>7. ASSUME NEW j \in 1..Len(c)
      PROVE  /\ Len(c[j]) <= Len(d[j])
             /\ \A k \in 1..Len(c[j]) : d[j][k] = c[j][k]
  BY <1>3, <1>5, <1>6
<1>8. Grown(c, d)
  BY <1>5, <1>6, <1>7 DEF Grown
<1>9. QED
  BY <1>5, <1>8

LEMMA MoveIsGrown ==
  ASSUME NEW c \in Seq(CaseList), NEW i \in 1..Len(c), NEW k \in 1..Len(c[i]),
         NEW state, state = "rejected" \/ state = NextState(c[i][k]),
         NEW d, d = Moved(c, i, k, state)
  PROVE  /\ d \in Seq(CaseList) /\ Grown(c, d) /\ Len(d) = Len(c)
         /\ \A j \in 1..Len(c) : Len(d[j]) = Len(c[j])
         /\ \A j \in 1..Len(c) : \A m \in 1..Len(c[j]) :
              d[j][m] = IF j = i /\ m = k THEN state ELSE c[j][m]
<1>1. PICK list : list = [c[i] EXCEPT ![k] = state]
  OBVIOUS
<1>2. c[i] \in CaseList /\ c[i][k] \in WorkflowStates
  BY CaseListsAre
<1>3. state \in WorkflowStates
  BY <1>2, NextIsState, StatesAre
<1>4. /\ list \in CaseList /\ Len(list) = Len(c[i])
      /\ \A m \in 1..Len(c[i]) : list[m] = IF m = k THEN state ELSE c[i][m]
  BY <1>1, <1>2, <1>3, ExceptSeq, CaseListsAre DEF CaseList
<1>5. d = [c EXCEPT ![i] = list]
  BY <1>1 DEF Moved
<1>6. /\ d \in Seq(CaseList) /\ Len(d) = Len(c)
      /\ \A j \in 1..Len(c) : d[j] = IF j = i THEN list ELSE c[j]
  BY <1>4, <1>5, CasesReplaced
<1>7. Len(c) \in Nat /\ \A j \in 1..Len(c) : Len(c[j]) \in Nat
  BY CaseListsAre
<1>8. ASSUME NEW j \in 1..Len(c)
      PROVE  /\ Len(d[j]) = Len(c[j]) /\ Len(c[j]) <= Len(d[j])
             /\ \A m \in 1..Len(c[j]) : d[j][m] = IF j = i /\ m = k THEN state ELSE c[j][m]
  BY <1>4, <1>6, <1>7
<1>9. Grown(c, d)
  BY <1>6, <1>7, <1>8 DEF Grown
<1>10. QED
  BY <1>6, <1>8, <1>9

\* A case that has ended does not come back.
LEMMA EndedStays ==
  ASSUME NEW c \in Seq(CaseList), NEW i \in 1..Len(c), NEW k \in 1..Len(c[i]),
         NEW state, state = "rejected" \/ state = NextState(c[i][k]),
         NEW d, d = Moved(c, i, k, state), NEW a \in 1..Len(c), ActiveCase(c[a]) = NoCase
  PROVE  ActiveCase(d[a]) = NoCase
<1>1. /\ d \in Seq(CaseList) /\ Len(d) = Len(c) /\ Len(d[a]) = Len(c[a])
      /\ \A m \in 1..Len(c[a]) : d[a][m] = IF a = i /\ m = k THEN state ELSE c[a][m]
  BY MoveIsGrown
<1>2. \A m \in 1..Len(c[a]) : c[a][m] \in Ended
  BY ActiveIsCase, CaseListsAre
<1>3. ASSUME NEW m \in 1..Len(c[a]) PROVE d[a][m] \in Ended
  <2>1. CASE a = i /\ m = k
    <3>1. c[i][k] \in Ended /\ c[i][k] \in WorkflowStates
      BY <1>2, <2>1, CaseListsAre
    <3>2. state \in Ended
      BY <3>1, NextIsState DEF Ended
    <3>3. QED
      BY <1>1, <2>1, <3>2
  <2>2. CASE ~(a = i /\ m = k)
    BY <1>1, <1>2, <2>2
  <2>3. QED
    BY <2>1, <2>2
<1>4. a \in 1..Len(d) /\ d[a] \in CaseList
  BY <1>1, CaseListsAre
<1>5. QED
  BY <1>1, <1>3, <1>4, ActiveIsCase

LEMMA NoAdvanceStays ==
  ASSUME NEW r, r = NoAdvance, NEW t, t = [r EXCEPT !.known = FALSE]
  PROVE  t = NoAdvance
<1>1. /\ DOMAIN t = {"client", "case", "known"}
      /\ t.client = 0 /\ t.case = NoCase /\ t.known = FALSE
      /\ t = [x \in {"client", "case", "known"} |-> t[x]]
  BY DEF NoAdvance
<1>2. t = [client |-> 0, case |-> NoCase, known |-> FALSE]
  BY <1>1
<1>3. QED
  BY <1>2 DEF NoAdvance

\* What a step may do to the chain and the call under way.
LEMMA ChainsKeep ==
  ASSUME ClientsInv, ChainsInv, clients' \in Seq(CaseList), Grown(clients, clients'),
         newClient' \in [at : {"idle", "creating", "initiating"}, client : 0..Len(clients'),
                         here : BOOLEAN],
         newClient'.at = "initiating" =>
           /\ newClient'.client # 0
           /\ \/ newClient.at = "initiating" /\ newClient'.client = newClient.client
              \/ newClient'.client \notin 0..Len(clients),
         \/ advanceCall' = advanceCall \/ advanceCall' = NoAdvance
         \/ advanceCall' = [advanceCall EXCEPT !.known = FALSE],
         (advanceCall'.known /\ advanceCall'.case = NoCase) =>
           ActiveCase(clients'[advanceCall'.client]) = NoCase
  PROVE  ChainsInv'
<1>1. /\ advanceCall \in [client : 0..Len(clients), case : Nat, known : BOOLEAN]
      /\ advanceCall # NoAdvance => advanceCall.client # 0
      /\ advanceCall.case # NoCase => advanceCall.case <= Len(clients[advanceCall.client])
  BY DEF ChainsInv
<1>2. Len(clients) \in Nat /\ Len(clients') \in Nat /\ Len(clients) <= Len(clients')
  BY CaseListsAre DEF ClientsInv, Grown
<1>3. 0..Len(clients) \subseteq 0..Len(clients')
  BY <1>2
<1>4. /\ advanceCall' \in [client : 0..Len(clients), case : Nat, known : BOOLEAN]
      /\ advanceCall' # NoAdvance => /\ advanceCall # NoAdvance
                                     /\ advanceCall'.client = advanceCall.client
                                     /\ advanceCall'.case = advanceCall.case
                                     /\ advanceCall'.known => advanceCall.known
      /\ advanceCall' = NoAdvance => advanceCall'.case = NoCase /\ ~advanceCall'.known
  <2>1. CASE advanceCall' = NoAdvance
    BY <1>2, <2>1 DEF NoAdvance, NoCase
  <2>2. CASE advanceCall' = advanceCall
    BY <1>1, <2>2 DEF NoAdvance, NoCase
  <2>3. CASE advanceCall' = [advanceCall EXCEPT !.known = FALSE]
    <3>1. /\ advanceCall' \in [client : 0..Len(clients), case : Nat, known : BOOLEAN]
          /\ advanceCall'.client = advanceCall.client /\ advanceCall'.case = advanceCall.case
          /\ ~advanceCall'.known
      BY <1>1, <2>3
    <3>2. advanceCall = NoAdvance => advanceCall' = NoAdvance
      BY <2>3, NoAdvanceStays
    <3>3. advanceCall' = NoAdvance => advanceCall'.case = NoCase
      BY DEF NoAdvance
    <3>4. QED
      BY <3>1, <3>2, <3>3
  <2>4. QED
    BY <2>1, <2>2, <2>3
<1>5. advanceCall' # NoAdvance => advanceCall'.client # 0 /\ advanceCall'.client \in 1..Len(clients)
  BY <1>1, <1>2, <1>4
<1>6. ASSUME advanceCall'.case # NoCase
      PROVE  advanceCall'.case <= Len(clients'[advanceCall'.client])
  <2>1. PICK a \in 1..Len(clients) : a = advanceCall'.client
    <3>1. advanceCall'.client \in 1..Len(clients)
      BY <1>4, <1>5, <1>6
    <3>2. QED
      BY <3>1
  <2>2. PICK n \in Nat : n = advanceCall'.case
    BY <1>4
  <2>3. n <= Len(clients[a])
    BY <1>1, <1>4, <1>6, <2>1, <2>2
  <2>4. Len(clients[a]) <= Len(clients'[a]) /\ Len(clients[a]) \in Nat /\ Len(clients'[a]) \in Nat
    BY <1>2, <2>1, CaseListsAre DEF Grown, ClientsInv
  <2>5. QED
    BY <2>1, <2>2, <2>3, <2>4
<1>7. ASSUME advanceCall'.known, advanceCall'.case = NoCase
      PROVE  newClient'.at = "initiating" => newClient'.client # advanceCall'.client
  <2>1. /\ advanceCall'.client = advanceCall.client /\ advanceCall.known
        /\ advanceCall.case = NoCase
    BY <1>4, <1>7
  <2>2. newClient.at = "initiating" => newClient.client # advanceCall.client
    BY <2>1 DEF ChainsInv
  <2>3. QED
    BY <1>4, <2>1, <2>2
<1>8. advanceCall' \in [client : 0..Len(clients'), case : Nat, known : BOOLEAN]
  BY <1>3, <1>4
<1>9. QED
  BY <1>5, <1>6, <1>7, <1>8 DEF ChainsInv

LEMMA NextClients == ClientInv /\ [ClientsNext]_clientVars => ClientInv'
<1> SUFFICES ASSUME ClientInv, [ClientsNext]_clientVars PROVE ClientInv'
  OBVIOUS
<1>0. /\ ClientsInv /\ DeskInv /\ StatusInv /\ ChainsInv
      /\ clients \in Seq(CaseList) /\ Len(clients) \in Nat
      /\ IsQuery(clientQuery) /\ QueryOK(clientQuery)
  BY CaseListsAre DEF ClientInv, ClientsInv
\* What a step that leaves the server alone has to show.
<1>1. ASSUME clients' = clients
      PROVE  clients' \in Seq(CaseList) /\ Grown(clients, clients')
  BY <1>0, <1>1, SameIsGrown
<1>2. ASSUME UNCHANGED <<clients, newClient, advanceCall>>
      PROVE  ChainsInv'
  BY <1>0, <1>2 DEF ChainsInv
<1>3. ASSUME UNCHANGED <<clients, clientQuery>>
      PROVE  ClientsInv'
  BY <1>0, <1>3 DEF ClientsInv, ClientRows
<1>4. ASSUME UNCHANGED <<clients, desk>>
      PROVE  DeskInv'
  BY <1>0, <1>4 DEF DeskInv
<1>5. ASSUME UNCHANGED <<clients, clientQuery, statusQuery>>, desk'.client = desk.client
      PROVE  StatusInv'
  BY <1>0, <1>5 DEF StatusInv, ListedCase, ClientRows
<1>6. CASE ClientsAnswered
  <2>1. UNCHANGED <<clients, desk, newClient, advanceCall>> /\ CaseShown(AnsweredWith(clients))
    BY <1>6 DEF ClientsAnswered
  <2>2. clientQuery' = AnsweredWith(clients) /\ ClientRows' = clients
    BY <2>1, QueryBegins DEF CaseShown, ClientRows
  <2>3. IsQuery(clientQuery') /\ QueryOK(clientQuery')
    BY <2>2, QueryBegins, QueryBeginsOK
  <2>4. ClientsInv'
    <3>1. \A i \in 1..Len(clients) : Len(clients[i]) <= Len(clients[i])
      BY <1>0, CaseListsAre
    <3>2. QED
      BY <1>0, <2>1, <2>2, <2>3, <3>1 DEF ClientsInv
  <2>5. StatusInv'
    BY <1>0, <2>1, <2>4, ShownKeeps
  <2>6. QED
    BY <1>2, <1>4, <2>1, <2>4, <2>5 DEF ClientInv
<1>7. CASE StatusAnswered
  <2>1. /\ statusQuery.asked
        /\ statusQuery' = AnsweredWith(clients[desk.client][ListedCase])
        /\ UNCHANGED <<clients, clientQuery, desk, newClient, advanceCall>>
    BY <1>7 DEF StatusAnswered
  <2>2. StatusInv'
    <3>1. PICK state : state = clients[desk.client][ListedCase]
      OBVIOUS
    <3>2. ListedCase' = ListedCase
      BY <2>1 DEF ListedCase, ClientRows
    <3>3. /\ IsQuery(statusQuery') /\ QueryOK(statusQuery') /\ statusQuery'.rows = state
          /\ ~statusQuery'.asked
      BY <2>1, <3>1, QueryBegins, QueryBeginsOK DEF AnsweredWith
    <3>4. ListedCase # NoCase => NotAhead(state, state)
      <4>1. ListedCase # NoCase => state \in WorkflowStates
        BY <1>0, <3>1, ListedIsCase, CaseListsAre
      <4>2. QED
        BY <4>1, PlacesOfSteps DEF NotAhead
    <3>5. QED
      BY <2>1, <3>1, <3>2, <3>3, <3>4 DEF StatusInv
  <2>3. QED
    BY <1>2, <1>3, <1>4, <2>1, <2>2 DEF ClientInv
<1>8. CASE FetchesFail
  <2>1. /\ UNCHANGED <<clients, desk, newClient, advanceCall>>
        /\ \/ clientQuery' = FetchFailed(clientQuery) /\ UNCHANGED statusQuery
           \/ statusQuery' = FetchFailed(statusQuery) /\ UNCHANGED clientQuery
    BY <1>8 DEF FetchesFail
  <2>2. CASE clientQuery' = FetchFailed(clientQuery) /\ UNCHANGED statusQuery
    <3>1. /\ IsQuery(clientQuery') /\ QueryOK(clientQuery') /\ ~Settled(clientQuery')
          /\ ClientRows' = ClientRows
      BY <1>0, <2>2, QueryMoves, QueryKeepsRows, QueryStaysOK DEF ClientRows
    <3>2. ClientsInv'
      BY <1>0, <2>1, <3>1 DEF ClientsInv
    <3>3. StatusInv'
      BY <1>0, <1>1, <2>1, <2>2, <3>1, StatusKeeps
    <3>4. QED
      BY <1>2, <1>4, <2>1, <3>2, <3>3 DEF ClientInv
  <2>3. CASE statusQuery' = FetchFailed(statusQuery) /\ UNCHANGED clientQuery
    <3>1. ClientRows' = ClientRows
      BY <2>3 DEF ClientRows
    <3>2. StatusInv'
      BY <1>0, <1>1, <2>1, <2>3, <3>1, StatusKeeps
    <3>3. QED
      BY <1>2, <1>3, <1>4, <2>1, <2>3, <3>2 DEF ClientInv
  <2>4. QED
    BY <2>1, <2>2, <2>3
<1>9. CASE WorkflowMovesElsewhere
  <2>1. PICK i \in 1..Len(clients) :
          \E k \in DOMAIN clients[i] : clients' = Moved(clients, i, k, "rejected")
    BY <1>0, <1>9, CaseListsAre DEF WorkflowMovesElsewhere, Moved
  <2>2. PICK k \in 1..Len(clients[i]) : clients' = Moved(clients, i, k, "rejected")
    BY <1>0, <2>1, CaseListsAre
  <2>3. PICK new : new = clients'
    OBVIOUS
  <2>4. new \in Seq(CaseList) /\ Grown(clients, new) /\ Len(new) = Len(clients)
    BY <1>0, <2>2, <2>3, MoveIsGrown
  <2>5. \A a \in 1..Len(clients) : ActiveCase(clients[a]) = NoCase => ActiveCase(new[a]) = NoCase
    BY <1>0, <2>2, <2>3, EndedStays
  <2>6. /\ clientQuery' = Overtaken(clientQuery) /\ statusQuery' = Overtaken(statusQuery)
        /\ UNCHANGED <<desk, newClient, advanceCall>>
    BY <1>9 DEF WorkflowMovesElsewhere
  <2>7. ClientsInv' /\ ClientRows' = ClientRows
    BY <1>0, <2>3, <2>4, <2>6, ClientsKeep
  <2>8. StatusInv'
    BY <1>0, <2>3, <2>4, <2>6, <2>7, StatusKeeps
  <2>9. DeskInv'
    BY <1>0, <2>3, <2>4, <2>6 DEF DeskInv
  <2>10. ChainsInv'
    <3>1. /\ newClient \in [at : {"idle", "creating", "initiating"}, client : 0..Len(clients),
                            here : BOOLEAN]
          /\ newClient.at = "initiating" => newClient.client # 0
      BY <1>0 DEF ChainsInv
    <3>2. (advanceCall.known /\ advanceCall.case = NoCase) =>
            ActiveCase(new[advanceCall.client]) = NoCase
      BY <1>0, <2>5 DEF ChainsInv, NoAdvance
    <3>3. /\ newClient' \in [at : {"idle", "creating", "initiating"}, client : 0..Len(clients'),
                            here : BOOLEAN]
          /\ newClient'.at = "initiating" =>
               /\ newClient'.client # 0
               /\ newClient.at = "initiating" /\ newClient'.client = newClient.client
          /\ (advanceCall'.known /\ advanceCall'.case = NoCase) =>
               ActiveCase(clients'[advanceCall'.client]) = NoCase
      BY <2>3, <2>4, <2>6, <3>1, <3>2
    <3>4. clients' \in Seq(CaseList) /\ Grown(clients, clients') /\ advanceCall' = advanceCall
      BY <2>3, <2>4, <2>6
    <3>5. QED
      BY <1>0, <3>3, <3>4, ChainsKeep
  <2>11. QED
    BY <2>7, <2>8, <2>9, <2>10 DEF ClientInv
<1>10. CASE QuickFilter
  <2>1. /\ UNCHANGED <<clients, clientQuery, statusQuery, newClient, advanceCall>>
        /\ desk'.client = desk.client /\ DeskInv'
    BY <1>0, <1>10 DEF QuickFilter, DeskInv
  <2>2. QED
    BY <1>2, <1>3, <1>5, <2>1 DEF ClientInv
<1>11. CASE SelectClient
  <2>1. /\ UNCHANGED <<clients, newClient, advanceCall>> /\ CaseShown(clientQuery)
        /\ \/ \E i \in ClientsUnder(desk.filter) : desk' = [desk EXCEPT !.client = i]
           \/ desk' = [desk EXCEPT !.client = 0]
    BY <1>11 DEF SelectClient
  <2>2. \A i \in ClientsUnder(desk.filter) : i \in 0..Len(clients)
    BY <1>0, CaseListsAre DEF ClientsUnder, ClientsInv
  <2>3. DeskInv'
    BY <1>0, <2>1, <2>2 DEF DeskInv
  <2>4. ClientsInv'
    BY <1>3, <2>1 DEF CaseShown
  <2>5. StatusInv'
    BY <1>0, <2>1, <2>4, ShownKeeps
  <2>6. QED
    BY <1>2, <2>1, <2>3, <2>4, <2>5 DEF ClientInv
<1>12. CASE LeaveOnboarding
  <2>1. /\ desk' = [filter |-> "all", client |-> 0, form |-> FALSE]
        /\ newClient' = [newClient EXCEPT !.here = FALSE]
        /\ advanceCall' = [advanceCall EXCEPT !.known = FALSE]
        /\ clients' = clients
    BY <1>12 DEF LeaveOnboarding
  <2>2. PICK q \in Mounted(clientQuery) : CaseShown(q)
    BY <1>12 DEF LeaveOnboarding
  <2>3. /\ IsQuery(q) /\ QueryOK(q) /\ q.rows = clientQuery.rows
        /\ q = clientQuery \/ ~Settled(q)
    BY <1>0, QueryMoves, QueryKeepsRows, QueryStaysOK
  <2>4. clientQuery' = q
    BY <2>2 DEF CaseShown
  <2>5. ClientsInv'
    BY <1>0, <2>1, <2>3, <2>4 DEF ClientsInv, ClientRows
  <2>6. StatusInv'
    BY <1>0, <2>1, <2>2, <2>5, ShownKeeps
  <2>7. DeskInv'
    <3>1. 0 \in 0..Len(clients)
      BY <1>0
    <3>2. QED
      BY <2>1, <3>1 DEF DeskInv
  <2>8. ChainsInv'
    <3>1. /\ newClient \in [at : {"idle", "creating", "initiating"}, client : 0..Len(clients),
                            here : BOOLEAN]
          /\ newClient.at = "initiating" => newClient.client # 0
      BY <1>0 DEF ChainsInv
    <3>2. /\ newClient' \in [at : {"idle", "creating", "initiating"}, client : 0..Len(clients'),
                            here : BOOLEAN]
          /\ newClient'.at = "initiating" =>
               /\ newClient'.client # 0
               /\ newClient.at = "initiating" /\ newClient'.client = newClient.client
      BY <2>1, <3>1
    <3>3. ~advanceCall'.known
      BY <1>0, <2>1 DEF ChainsInv
    <3>4. QED
      BY <1>0, <1>1, <2>1, <3>2, <3>3, ChainsKeep
  <2>9. QED
    BY <2>5, <2>6, <2>7, <2>8 DEF ClientInv
<1>13. CASE OpenClientForm
  <2>1. /\ UNCHANGED <<clients, clientQuery, statusQuery, newClient, advanceCall>>
        /\ desk'.client = desk.client /\ DeskInv'
    BY <1>0, <1>13 DEF OpenClientForm, DeskInv
  <2>2. QED
    BY <1>2, <1>3, <1>5, <2>1 DEF ClientInv
<1>14. CASE SubmitClient
  <2>1. /\ UNCHANGED <<clients, clientQuery, statusQuery, desk, advanceCall>>
        /\ newClient' = [at |-> "creating", client |-> 0, here |-> TRUE]
    BY <1>14 DEF SubmitClient
  <2>2. ChainsInv'
    <3>1. 0 \in 0..Len(clients)
      BY <1>0
    <3>2. QED
      BY <1>0, <2>1, <3>1 DEF ChainsInv
  <2>3. QED
    BY <1>3, <1>4, <1>5, <2>1, <2>2 DEF ClientInv
<1>15. CASE ClientCreated
  <2>1. newClient.at = "creating" /\ UNCHANGED <<statusQuery, advanceCall>>
    BY <1>15 DEF ClientCreated
  <2>2. CASE newClient' = NoNewClient /\ UNCHANGED <<clients, clientQuery, desk>>
    <3>1. newClient' \in [at : {"idle", "creating", "initiating"}, client : 0..Len(clients),
                          here : BOOLEAN]
      <4>1. 0 \in 0..Len(clients)
        BY <1>0
      <4>2. QED
        BY <2>2, <4>1 DEF NoNewClient
    <3>2. newClient'.at # "initiating"
      BY <2>2 DEF NoNewClient
    <3>3. ChainsInv'
      BY <1>0, <2>1, <2>2, <3>1, <3>2 DEF ChainsInv
    <3>4. QED
      BY <1>3, <1>4, <1>5, <2>1, <2>2, <3>3 DEF ClientInv
  <2>3. CASE /\ clients' = Append(clients, << >>)
             /\ newClient' = [newClient EXCEPT !.at = "initiating", !.client = Len(clients) + 1]
             /\ clientQuery' = Refetched(clientQuery)
             /\ desk' = [desk EXCEPT !.form = @ /\ ~newClient.here]
    <3>1. /\ clients' \in Seq(CaseList) /\ Grown(clients, clients')
          /\ Len(clients') = Len(clients) + 1
          /\ \A i \in 1..Len(clients) : clients'[i] = clients[i]
      BY <1>0, <2>3, ClientIsGrown
    <3>2. ClientsInv' /\ ClientRows' = ClientRows
      BY <1>0, <2>3, <3>1, ClientsKeep
    <3>3. /\ newClient \in [at : {"idle", "creating", "initiating"}, client : 0..Len(clients),
                            here : BOOLEAN]
      BY <1>0 DEF ChainsInv
    <3>4. desk'.client = desk.client /\ DeskInv'
      <4>1. 0..Len(clients) \subseteq 0..Len(clients')
        BY <1>0, <3>1
      <4>2. desk \in [filter : {"all", "pending"}, client : 0..Len(clients'), form : BOOLEAN]
        BY <1>0, <4>1 DEF DeskInv
      <4>3. newClient.here \in BOOLEAN
        BY <3>3
      <4>4. QED
        BY <2>3, <4>2, <4>3 DEF DeskInv
    <3>5. StatusInv'
      BY <1>0, <2>1, <3>1, <3>2, <3>4, StatusKeeps
    <3>6. ChainsInv'
      <4>1. PICK n : n = Len(clients) + 1
        OBVIOUS
      <4>2. n \in 0..Len(clients') /\ n # 0 /\ n \notin 0..Len(clients)
        BY <1>0, <3>1, <4>1
      <4>3. newClient' = [newClient EXCEPT !.at = "initiating", !.client = n]
        BY <2>3, <4>1
      <4>4. /\ newClient' \in [at : {"idle", "creating", "initiating"}, client : 0..Len(clients'),
                               here : BOOLEAN]
            /\ newClient'.client = n
        BY <3>3, <4>2, <4>3
      <4>5. (advanceCall.known /\ advanceCall.case = NoCase) =>
              /\ advanceCall.client \in 1..Len(clients)
              /\ ActiveCase(clients[advanceCall.client]) = NoCase
        BY <1>0 DEF ChainsInv, NoAdvance
      <4>6. (advanceCall.known /\ advanceCall.case = NoCase) =>
              ActiveCase(clients'[advanceCall.client]) = NoCase
        BY <3>1, <4>5
      <4>7. QED
        BY <1>0, <2>1, <3>1, <4>2, <4>4, <4>6, ChainsKeep
    <3>7. QED
      BY <3>2, <3>4, <3>5, <3>6 DEF ClientInv
  <2>4. QED
    BY <1>15, <2>2, <2>3 DEF ClientCreated
<1>16. CASE ClientInitiated
  <2>1. newClient.at = "initiating" /\ newClient' = NoNewClient
        /\ UNCHANGED <<statusQuery, desk, advanceCall>>
    BY <1>16 DEF ClientInitiated
  <2>2. 0 \in 0..Len(clients)
    BY <1>0
  <2>3. /\ newClient' \in [at : {"idle", "creating", "initiating"}, client : 0..Len(clients),
                           here : BOOLEAN]
        /\ newClient'.at # "initiating"
    BY <2>1, <2>2 DEF NoNewClient
  <2>4. CASE UNCHANGED <<clients, clientQuery>>
    <3>1. ChainsInv'
      BY <1>0, <2>1, <2>3, <2>4 DEF ChainsInv
    <3>2. QED
      BY <1>3, <1>4, <1>5, <2>1, <2>4, <3>1 DEF ClientInv
  <2>5. CASE /\ clients' = [clients EXCEPT ![newClient.client] = Append(@, "initiated")]
             /\ clientQuery' = Refetched(clientQuery)
    <3>1. PICK i \in 1..Len(clients) : i = newClient.client
      BY <1>0, <2>1 DEF ChainsInv
    <3>2. PICK new : new = clients'
      OBVIOUS
    <3>3. new = WithCase(clients, i)
      BY <2>5, <3>1, <3>2 DEF WithCase
    <3>4. /\ new \in Seq(CaseList) /\ Grown(clients, new) /\ Len(new) = Len(clients)
          /\ \A j \in 1..Len(clients) : j # i => new[j] = clients[j]
      BY <1>0, <3>3, CaseIsGrown
    <3>5. ClientsInv' /\ ClientRows' = ClientRows
      BY <1>0, <2>5, <3>2, <3>4, ClientsKeep
    <3>6. StatusInv'
      BY <1>0, <2>1, <3>2, <3>4, <3>5, StatusKeeps
    <3>7. DeskInv'
      BY <1>0, <2>1, <3>2, <3>4 DEF DeskInv
    <3>8. ChainsInv'
      <4>1. (advanceCall.known /\ advanceCall.case = NoCase) =>
              /\ advanceCall.client \in 1..Len(clients) /\ advanceCall.client # i
              /\ ActiveCase(clients[advanceCall.client]) = NoCase
        BY <1>0, <2>1, <3>1 DEF ChainsInv, NoAdvance
      <4>2. (advanceCall'.known /\ advanceCall'.case = NoCase) =>
              ActiveCase(clients'[advanceCall'.client]) = NoCase
        BY <2>1, <3>2, <3>4, <4>1
      <4>3. /\ newClient' \in [at : {"idle", "creating", "initiating"}, client : 0..Len(clients'),
                               here : BOOLEAN]
        BY <2>3, <3>2, <3>4
      <4>4. QED
        BY <1>0, <2>1, <2>3, <3>2, <3>4, <4>2, <4>3, ChainsKeep
    <3>9. QED
      BY <3>5, <3>6, <3>7, <3>8 DEF ClientInv
  <2>6. QED
    BY <1>16, <2>4, <2>5 DEF ClientInitiated
<1>17. CASE Advance
  <2>1. /\ desk.client \in DOMAIN ClientRows
        /\ advanceCall' = [client |-> desk.client, case |-> ListedCase,
                           known |-> /\ Settled(clientQuery)
                                     /\ newClient.at = "initiating" => newClient.client # desk.client]
        /\ UNCHANGED <<clients, clientQuery, statusQuery, desk, newClient>>
    BY <1>17 DEF Advance
  <2>2. /\ desk.client \in 1..Len(clients) /\ desk.client \in 0..Len(clients) /\ desk.client # 0
        /\ ListedCase \in Nat /\ ListedCase = ActiveCase(ClientRows[desk.client])
        /\ ListedCase # NoCase => ListedCase <= Len(clients[desk.client])
    <3>1. desk.client \in 1..Len(clients)
      BY <1>0, <2>1, CaseListsAre DEF ClientsInv
    <3>2. ListedCase \in Nat /\ (ListedCase # NoCase => ListedCase \in 1..Len(clients[desk.client]))
          /\ ListedCase = ActiveCase(ClientRows[desk.client])
      BY <1>0, <2>1, ListedIsCase
    <3>3. QED
      BY <1>0, <3>1, <3>2
  <2>3. Settled(clientQuery) => ClientRows = clients
    BY <1>0 DEF ClientsInv
  <2>4. ChainsInv'
    <3>1. PICK known \in BOOLEAN :
            known = (/\ Settled(clientQuery)
                     /\ newClient.at = "initiating" => newClient.client # desk.client)
      OBVIOUS
    <3>2. advanceCall' = [client |-> desk.client, case |-> ListedCase, known |-> known]
      BY <2>1, <3>1
    <3>3. /\ advanceCall' \in [client : 0..Len(clients), case : Nat, known : BOOLEAN]
          /\ advanceCall'.client = desk.client /\ advanceCall'.case = ListedCase
          /\ advanceCall'.known = known
      BY <2>2, <3>2
    <3>4. advanceCall'.known /\ advanceCall'.case = NoCase =>
            /\ ActiveCase(clients[advanceCall'.client]) = NoCase
            /\ newClient.at = "initiating" => newClient.client # advanceCall'.client
      BY <2>2, <2>3, <3>1, <3>3
    <3>5. QED
      BY <1>0, <2>1, <2>2, <3>3, <3>4 DEF ChainsInv
  <2>5. QED
    BY <1>3, <1>4, <1>5, <2>1, <2>4 DEF ClientInv
<1>18. CASE AdvanceSettled
  <2>1. advanceCall # NoAdvance /\ advanceCall' = NoAdvance /\ UNCHANGED <<desk, newClient>>
    BY <1>18 DEF AdvanceSettled
  <2>2. PICK i \in 1..Len(clients) : i = advanceCall.client
    BY <1>0, <2>1 DEF ChainsInv
  <2>3. /\ newClient \in [at : {"idle", "creating", "initiating"}, client : 0..Len(clients),
                          here : BOOLEAN]
        /\ newClient.at = "initiating" => newClient.client # 0
        /\ ~advanceCall'.known
    BY <1>0, <2>1 DEF ChainsInv, NoAdvance
  <2>4. ASSUME NEW new, new = clients', new \in Seq(CaseList), Grown(clients, new),
               Len(new) = Len(clients),
               \/ clientQuery' = Refetched(clientQuery)
               \/ clientQuery' = clientQuery /\ clients' = clients,
               \/ statusQuery' = statusQuery
               \/ statusQuery' = Refetched(statusQuery) /\ ListedCase # NoCase
        PROVE  ClientInv'
    <3>1. ClientsInv' /\ ClientRows' = ClientRows
      BY <1>0, <2>4, ClientsKeep
    <3>2. StatusInv'
      BY <1>0, <2>1, <2>4, <3>1, StatusKeeps
    <3>3. DeskInv'
      BY <1>0, <2>1, <2>4 DEF DeskInv
    <3>4. ChainsInv'
      <4>1. newClient' \in [at : {"idle", "creating", "initiating"}, client : 0..Len(clients'),
                            here : BOOLEAN]
        BY <2>1, <2>3, <2>4
      <4>2. QED
        BY <1>0, <2>1, <2>3, <2>4, <4>1, ChainsKeep
    <3>5. QED
      BY <3>1, <3>2, <3>3, <3>4 DEF ClientInv
  <2>5. PICK new : new = clients'
    OBVIOUS
  <2>6. CASE /\ clients' = [clients EXCEPT ![advanceCall.client] = Append(@, "initiated")]
             /\ clientQuery' = Refetched(clientQuery)
             /\ UNCHANGED statusQuery
    <3>1. new = WithCase(clients, i)
      BY <2>2, <2>5, <2>6 DEF WithCase
    <3>2. new \in Seq(CaseList) /\ Grown(clients, new) /\ Len(new) = Len(clients)
      BY <1>0, <3>1, CaseIsGrown
    <3>3. QED
      BY <2>4, <2>5, <2>6, <3>2
  <2>7. CASE /\ advanceCall.case # NoCase
             /\ clients' = [clients EXCEPT ![advanceCall.client][advanceCall.case] = NextState(@)]
             /\ clientQuery' = Refetched(clientQuery)
             /\ statusQuery' = IF ListedCase = NoCase THEN statusQuery ELSE Refetched(statusQuery)
    <3>1. PICK k \in 1..Len(clients[i]) : k = advanceCall.case
      <4>1. advanceCall.case \in Nat /\ advanceCall.case <= Len(clients[i])
        BY <1>0, <2>2, <2>7 DEF ChainsInv
      <4>2. Len(clients[i]) \in Nat
        BY <1>0, CaseListsAre
      <4>3. QED
        BY <2>7, <4>1, <4>2 DEF NoCase
    <3>2. PICK state : state = NextState(clients[i][k])
      OBVIOUS
    <3>3. new = Moved(clients, i, k, state)
      BY <2>2, <2>5, <2>7, <3>1, <3>2 DEF Moved
    <3>4. new \in Seq(CaseList) /\ Grown(clients, new) /\ Len(new) = Len(clients)
      BY <1>0, <3>2, <3>3, MoveIsGrown
    <3>5. QED
      BY <2>4, <2>5, <2>7, <3>4
  <2>8. CASE UNCHANGED <<clients, clientQuery, statusQuery>>
    BY <1>0, <1>1, <2>4, <2>5, <2>8
  <2>9. QED
    BY <1>18, <2>6, <2>7, <2>8 DEF AdvanceSettled
<1>19. CASE UNCHANGED clientVars
  BY <1>2, <1>3, <1>4, <1>5, <1>19 DEF clientVars, ClientInv
<1>20. QED
  BY <1>6, <1>7, <1>8, <1>9, <1>10, <1>11, <1>12, <1>13, <1>14, <1>15, <1>16, <1>17, <1>18, <1>19
  DEF ClientsNext

LEMMA ClientsInvariant == ClientsSpec => []ClientInv
BY InitClients, NextClients, PTL DEF ClientsSpec
-----------------------------------------------------------------------------
(* What the officer sees and does                                          *)

LEMMA ClientTypes == ClientInv => ClientsTypeOK
<1> SUFFICES ASSUME ClientInv PROVE ClientsTypeOK
  OBVIOUS
<1>1. ClientsInv /\ DeskInv /\ StatusInv
  BY DEF ClientInv
<1>2. \A i \in DOMAIN clients : \A k \in DOMAIN clients[i] : clients[i][k] \in WorkflowStates
  BY <1>1, CaseListsAre DEF ClientsInv
<1>3. desk.client \in 0..Len(clients)
  BY <1>1 DEF DeskInv
<1>4. QED
  BY <1>1, <1>2, <1>3 DEF ClientsTypeOK, ClientsInv, StatusInv

LEMMA NotAheadShown == ClientInv => ProgressNotAhead
<1> SUFFICES ASSUME ClientInv, ListedCase # NoCase, statusQuery.known,
                    clients[desk.client][ListedCase] # "rejected"
             PROVE  \E n \in DOMAIN Steps :
                      Steps[n] = clients[desk.client][ListedCase] /\ CurrentStep <= n
  BY DEF ProgressNotAhead
<1>1. PICK state \in WorkflowStates : state = clients[desk.client][ListedCase]
  BY ListedIsCase, CaseListsAre DEF ClientInv, ClientsInv
<1>2. Place(statusQuery.rows) <= Place(state) /\ state # "rejected"
  BY <1>1 DEF ClientInv, StatusInv, NotAhead
<1>3. PICK n \in 1..3 : n = Place(state)
  BY <1>1, <1>2, PlacesOfSteps
<1>4. DOMAIN Steps = {1, 2, 3}
  BY DEF Steps
<1>5. n \in DOMAIN Steps /\ Steps[n] = state
  BY <1>3, <1>4, PlacesOfSteps
<1>6. CurrentState = statusQuery.rows
  BY DEF CurrentState
<1>7. CurrentStep <= n
  <2>1. PICK p \in 0..3 : p = Place(statusQuery.rows)
    BY PlacesOfSteps
  <2>2. \A m \in DOMAIN Steps : Steps[m] = statusQuery.rows <=> p = m
    BY <2>1, PlacesOfSteps
  <2>3. CASE \E m \in DOMAIN Steps : Steps[m] = CurrentState
    <3>1. CurrentStep = CHOOSE m \in DOMAIN Steps : Steps[m] = CurrentState
      BY <2>3 DEF CurrentStep
    <3>2. CurrentStep = p
      BY <1>6, <2>2, <2>3, <3>1
    <3>3. QED
      BY <1>2, <1>3, <2>1, <3>2
  <2>4. CASE ~\E m \in DOMAIN Steps : Steps[m] = CurrentState
    <3>1. CurrentStep = 0
      BY <2>4 DEF CurrentStep
    <3>2. QED
      BY <3>1
  <2>5. QED
    BY <2>3, <2>4
<1>8. QED
  BY <1>1, <1>5, <1>7

\* A client of the copy has a status, which one of the filters is about.
LEMMA StatusIsState ==
  ASSUME ClientsInv, NEW i \in DOMAIN ClientRows
  PROVE  ClientStatus(ClientRows[i]) \in WorkflowStates \union {"pending"}
<1>1. PICK list \in CaseList : list = ClientRows[i]
  BY CaseListsAre DEF ClientsInv
<1>2. list # << >> => Len(list) \in 1..Len(list)
  <2>1. Len(list) = 0 => list = << >>
    BY EmptySeq DEF CaseList
  <2>2. QED
    BY <2>1, CaseListsAre
<1>3. list # << >> => list[Len(list)] \in WorkflowStates
  BY <1>2, ElementOfSeq DEF CaseList
<1>4. QED
  BY <1>1, <1>3 DEF ClientStatus

LEMMA OneFilterEach ==
  ASSUME ClientsInv, NEW i \in DOMAIN ClientRows
  PROVE  Cardinality({f \in DOMAIN QuickFilters : i \in ClientsUnder(f)}) = 1
<1>1. PICK status : status = ClientStatus(ClientRows[i])
  OBVIOUS
<1>2. status \in {"initiated", "risk_assessment", "completed", "rejected", "pending"}
  BY <1>1, StatusIsState, StatesAre
<1>3. /\ DOMAIN QuickFilters = {"pending", "in_progress", "verified", "rejected"}
      /\ QuickFilters["pending"] = {"initiated", "pending", "document_review"}
      /\ QuickFilters["in_progress"]
           = {"kyc_verification", "sanctions_check", "ubo_analysis", "risk_assessment"}
      /\ QuickFilters["verified"] = {"completed"} /\ QuickFilters["rejected"] = {"rejected"}
  BY DEF QuickFilters
<1>4. \A f \in DOMAIN QuickFilters : i \in ClientsUnder(f) <=> status \in QuickFilters[f]
  BY <1>1, <1>3 DEF ClientsUnder
<1>5. \E g \in DOMAIN QuickFilters : \A f \in DOMAIN QuickFilters :
        status \in QuickFilters[f] <=> f = g
  <2>1. CASE status \in {"initiated", "pending"}
    BY <1>3, <2>1
  <2>2. CASE status = "risk_assessment"
    BY <1>3, <2>2
  <2>3. CASE status = "completed"
    BY <1>3, <2>3
  <2>4. CASE status = "rejected"
    BY <1>3, <2>4
  <2>5. QED
    BY <1>2, <2>1, <2>2, <2>3, <2>4
<1>6. PICK g \in DOMAIN QuickFilters : \A f \in DOMAIN QuickFilters :
        status \in QuickFilters[f] <=> f = g
  BY <1>5
<1>7. {f \in DOMAIN QuickFilters : i \in ClientsUnder(f)} = {g}
  BY <1>4, <1>6
<1>8. QED
  BY <1>7, FS_Singleton

LEMMA FiltersSplit == ClientInv => FiltersPartition
<1> SUFFICES ASSUME ClientsInv PROVE FiltersPartition
  BY DEF ClientInv
<1>1. Len(ClientRows) \in Nat /\ DOMAIN ClientRows = 1..Len(ClientRows)
  BY CaseListsAre DEF ClientsInv
<1> DEFINE having(statuses) == {i \in DOMAIN ClientRows : ClientStatus(ClientRows[i]) \in statuses}
           A == having({"initiated", "pending"})
           V == having({"completed"})
           R == having({"rejected"})
<1>2. IsFiniteSet(A) /\ IsFiniteSet(V) /\ IsFiniteSet(R)
  <2>1. A \in SUBSET (1..Len(ClientRows)) /\ V \in SUBSET (1..Len(ClientRows))
        /\ R \in SUBSET (1..Len(ClientRows))
    BY <1>1
  <2>2. QED
    BY <1>1, <2>1, PlacesCount, FS_Subset
<1>3. A \cap V = {} /\ (A \union V) \cap R = {}
  OBVIOUS
<1>4. having({"initiated", "pending"} \union Ended) = (A \union V) \union R
  BY DEF Ended
<1>5. /\ ClientStats.initiated = Cardinality(A) /\ ClientStats.verified = Cardinality(V)
      /\ ClientStats.rejected = Cardinality(R) /\ ClientStats.total = Len(ClientRows)
      /\ ClientStats.inProgress = Len(ClientRows) - Cardinality((A \union V) \union R)
  BY <1>4 DEF ClientStats
<1> HIDE DEF A, V, R
<1>6. /\ IsFiniteSet(A \union V)
      /\ Cardinality(A \union V) = Cardinality(A) + Cardinality(V)
      /\ Cardinality(A) \in Nat /\ Cardinality(V) \in Nat
  BY <1>2, <1>3, DisjointSets
<1>7. /\ Cardinality((A \union V) \union R) = Cardinality(A \union V) + Cardinality(R)
      /\ Cardinality(R) \in Nat
  BY <1>2, <1>3, <1>6, DisjointSets
<1>8. ClientStats.initiated + ClientStats.inProgress + ClientStats.verified + ClientStats.rejected
        = ClientStats.total
  BY <1>1, <1>5, <1>6, <1>7
<1>9. QED
  BY <1>8, OneFilterEach DEF FiltersPartition

LEMMA ClientsShown == ClientsSpec => []ClientsTypeOK /\ []ProgressNotAhead /\ []FiltersPartition
BY ClientTypes, NotAheadShown, FiltersSplit, ClientsInvariant, PTL

LEMMA SecondCaseNeedsStaleList ==
  ClientInv /\ [ClientsNext]_clientVars =>
    [\A i \in DOMAIN clients :
       (ActiveCase(clients[i]) # NoCase /\ Len(clients'[i]) > Len(clients[i]))
         => (newClient.at = "initiating" \/ ~advanceCall.known)]_clientVars
<1> SUFFICES ASSUME ClientInv, [ClientsNext]_clientVars,
                    NEW i \in DOMAIN clients, ActiveCase(clients[i]) # NoCase,
                    Len(clients'[i]) > Len(clients[i]), newClient.at # "initiating"
             PROVE  ~advanceCall.known
  OBVIOUS
<1>1. /\ clients \in Seq(CaseList) /\ i \in 1..Len(clients) /\ Len(clients[i]) \in Nat
      /\ ChainsInv
  BY CaseListsAre DEF ClientInv, ClientsInv
<1>2. clients'[i] # clients[i] /\ clients' # clients
  <2>1. Len(clients'[i]) # Len(clients[i])
    BY <1>1
  <2>2. QED
    BY <2>1
<1>3. WorkflowMovesElsewhere \/ ClientCreated \/ AdvanceSettled
  BY <1>2 DEF ClientsNext, clientVars, ClientsAnswered, StatusAnswered, FetchesFail, QuickFilter,
     SelectClient, LeaveOnboarding, OpenClientForm, SubmitClient, ClientInitiated, Advance
<1>4. CASE WorkflowMovesElsewhere
  <2>0. PICK state : state = "rejected"
    OBVIOUS
  <2>1. PICK j \in 1..Len(clients) :
          \E k \in DOMAIN clients[j] : clients' = Moved(clients, j, k, state)
    BY <1>1, <1>4, <2>0, CaseListsAre DEF WorkflowMovesElsewhere, Moved
  <2>2. PICK k \in 1..Len(clients[j]) : clients' = Moved(clients, j, k, state)
    BY <1>1, <2>1, CaseListsAre
  <2>3. PICK new : new = Moved(clients, j, k, state)
    OBVIOUS
  <2>4. \A m \in 1..Len(clients) : Len(new[m]) = Len(clients[m])
    BY <1>1, <2>0, <2>3, MoveIsGrown
  <2>5. QED
    BY <1>1, <2>2, <2>3, <2>4
<1>5. CASE ClientCreated
  <2>1. clients' = Append(clients, << >>)
    BY <1>2, <1>5 DEF ClientCreated
  <2>2. clients'[i] = clients[i]
    BY <1>1, <2>1, ClientIsGrown
  <2>3. QED
    BY <1>2, <2>2
<1>6. CASE AdvanceSettled
  <2>1. PICK a \in 1..Len(clients) : a = advanceCall.client
    BY <1>1, <1>6 DEF AdvanceSettled, ChainsInv
  <2>2. PICK new : new = clients'
    OBVIOUS
  <2>3. CASE /\ advanceCall.case = NoCase
             /\ clients' = [clients EXCEPT ![advanceCall.client] = Append(@, "initiated")]
    <3>1. new = WithCase(clients, a)
      BY <2>1, <2>2, <2>3 DEF WithCase
    <3>2. \A j \in 1..Len(clients) : j # a => new[j] = clients[j]
      BY <1>1, <3>1, CaseIsGrown
    <3>3. i = a
      BY <1>1, <1>2, <2>2, <3>2
    <3>4. QED
      BY <1>1, <2>1, <2>3, <3>3 DEF ChainsInv
  <2>4. CASE /\ advanceCall.case # NoCase
             /\ clients' = [clients EXCEPT ![advanceCall.client][advanceCall.case] = NextState(@)]
    <3>1. PICK k \in 1..Len(clients[a]) : k = advanceCall.case
      <4>1. advanceCall.case \in Nat /\ advanceCall.case <= Len(clients[a])
        BY <1>1, <2>1, <2>4 DEF ChainsInv
      <4>2. Len(clients[a]) \in Nat
        BY <1>1, CaseListsAre
      <4>3. QED
        BY <2>4, <4>1, <4>2 DEF NoCase
    <3>2. PICK state : state = NextState(clients[a][k])
      OBVIOUS
    <3>3. new = Moved(clients, a, k, state)
      BY <2>1, <2>2, <2>4, <3>1, <3>2 DEF Moved
    <3>4. \A m \in 1..Len(clients) : Len(new[m]) = Len(clients[m])
      BY <1>1, <3>2, <3>3, MoveIsGrown
    <3>5. QED
      BY <1>1, <2>2, <3>4
  <2>5. QED
    BY <1>2, <1>6, <2>3, <2>4 DEF AdvanceSettled
<1>7. QED
  BY <1>3, <1>4, <1>5, <1>6

\* A second case for a client with one under way needs a click on a list that was behind.
LEMMA SecondCaseLemma == ClientsSpec => SecondCaseOnStaleList
BY SecondCaseNeedsStaleList, ClientsInvariant, PTL DEF ClientsSpec, SecondCaseOnStaleList

-----------------------------------------------------------------------------
(* Cases                                                                   *)

\* What the copy on screen may hold: some of the cases there are, each with a status it had.
AreCases(rows) ==
  /\ DOMAIN rows \subseteq DOMAIN cases
  /\ \A i \in DOMAIN rows : rows[i] \in CaseStatuses

\* A note may be heard; an action is not, and never is one of a case shown as closed.
CaseCallRecords ==
  [id : Nat, action : {"escalate", "close", "note"}, heard : BOOLEAN, late : BOOLEAN]
IsCaseCall(c) ==
  /\ c \in CaseCallRecords
  /\ c.id \in DOMAIN cases /\ ~c.late
  /\ c.heard => c.action = "note"

CaseServerInv ==
  /\ cases \in Seq(CaseStatuses) /\ Len(cases) \in 1..MaxCases
  /\ \A c \in caseCalls : IsCaseCall(c)

CaseViews == [filter : CaseFilters, page : 1..MaxCases, open : Nat, note : BOOLEAN]

CaseScreenInv ==
  /\ IsQuery(caseQuery) /\ QueryOK(caseQuery) /\ AreCases(CaseRows)
  /\ caseView \in CaseViews /\ caseView.open \in 0..Len(cases)
  /\ newCase \in [open : BOOLEAN, sent : BOOLEAN, heard : BOOLEAN]

\* What is typed or waited for belongs to the detail on screen.
CaseDetailKept ==
  /\ caseView.note => CaseDetail # 0
  /\ \A c \in caseCalls : c.heard => c.id = CaseDetail

CasesInv == CaseServerInv /\ CaseScreenInv /\ CaseDetailKept /\ CasesFresh

-----------------------------------------------------------------------------
(* Rows and pages of cases                                                 *)

\* The list under a filter is of rows there are, and its page of some of them.
LEMMA CasesPaged ==
  ASSUME NEW n \in Nat, NEW rows, DOMAIN rows \subseteq 1..n, NEW filter, NEW page \in Nat \ {0}
  PROVE  /\ CasesOrdered(rows, filter) \in Seq(DOMAIN rows)
         /\ Len(CasesOrdered(rows, filter)) \in Nat /\ Len(CasesOrdered(rows, filter)) <= n
         /\ \A view, query :
              (view.filter = filter /\ view.page = page /\ query.rows = rows)
                => CasePage(view, query) \subseteq DOMAIN rows
<1> DEFINE S == {i \in DOMAIN rows : MatchesCase(rows[i], filter)}
           s == CasesOrdered(rows, filter)
<1>1. IsFiniteSet(1..n) /\ Cardinality(1..n) = n
  BY PlacesCount
<1>2. S \subseteq 1..n /\ S \subseteq DOMAIN rows
  OBVIOUS
<1>3. IsFiniteSet(S) /\ Cardinality(S) <= n /\ Cardinality(S) \in Nat
  BY <1>1, <1>2, FS_Subset, FS_CardinalityType
<1>4. S \in SUBSET Int
  BY <1>2
<1>5. s = Descending(S)
  BY DEF CasesOrdered
<1>6. Descending(S) \in Seq(S) /\ Len(Descending(S)) = Cardinality(S)
  <2> HIDE DEF S
  <2>1. QED
    BY <1>3, <1>4, DescendingLists
<1>7. s \in Seq(DOMAIN rows)
  BY <1>2, <1>5, <1>6, SeqMonotonic
<1>8. \A m \in DOMAIN PageOf(s, page, CasePageSize) :
        PageOf(s, page, CasePageSize)[m] \in DOMAIN rows
  <2> HIDE DEF s, S
  <2>1. QED
    BY <1>7, CaseAssumption, PageLists
<1>9. ASSUME NEW view, NEW query, view.filter = filter, view.page = page, query.rows = rows
      PROVE  CasePage(view, query) \subseteq DOMAIN rows
  BY <1>8, <1>9 DEF CasePage
<1>10. QED
  BY <1>3, <1>5, <1>6, <1>7, <1>9
\* What the server lists is made of cases there are.
LEMMA ListedAreRows ==
  ASSUME cases \in Seq(CaseStatuses), NEW filter
  PROVE  AreCases(CasesListed(filter))
BY LenProperties, ElementOfSeq DEF AreCases, CasesListed

\* What is next on screen: a detail that stays keeps its note and its calls, one that goes
\* leaves neither.
LEMMA CaseScreenKeeps ==
  ASSUME CasesInv,
         cases' \in Seq(CaseStatuses), Len(cases') \in 1..MaxCases, Len(cases) <= Len(cases'),
         newCase' \in [open : BOOLEAN, sent : BOOLEAN, heard : BOOLEAN],
         NEW view \in CaseViews, view.open \in 0..Len(cases),
         NEW query, IsQuery(query), QueryOK(query), AreCases(query.rows),
         Settled(query) => query.rows = CasesListed(view.filter)',
         NEW calls \in SUBSET caseCalls, CaseScreen(view, query, calls)
  PROVE  CasesInv'
<1> USE DEF CasesInv
<1> DEFINE kept == view.open # 0 /\ view.open = CaseDetail /\ view.open \in CasePage(view, query)
<1>1. /\ caseQuery' = query
      /\ caseView' = IF kept THEN view ELSE [view EXCEPT !.note = FALSE]
      /\ caseCalls' = IF kept THEN calls ELSE {[c EXCEPT !.heard = FALSE] : c \in calls}
  BY DEF CaseScreen
<1>2. /\ caseView'.filter = view.filter /\ caseView'.page = view.page
      /\ caseView'.open = view.open /\ caseView' \in CaseViews
  BY <1>1 DEF CaseViews
<1>3. DOMAIN cases \subseteq DOMAIN cases' /\ Len(cases) \in Nat /\ Len(cases') \in Nat
  <2>1. /\ DOMAIN cases = 1..Len(cases) /\ DOMAIN cases' = 1..Len(cases')
        /\ Len(cases) \in Nat /\ Len(cases') \in Nat
    BY LenProperties DEF CaseServerInv
  <2>2. QED
    BY <2>1
<1>4. CaseScreenInv'
  <2>1. AreCases(caseQuery.rows)'
    BY <1>1, <1>3 DEF AreCases
  <2>2. caseView'.open \in 0..Len(cases')
    BY <1>2, <1>3
  <2>3. QED
    BY <1>1, <1>2, <2>1, <2>2 DEF CaseScreenInv, CaseRows
<1>5. \A c \in calls : /\ c \in CaseCallRecords /\ c.id \in DOMAIN cases' /\ ~c.late
                       /\ c.heard => c.action = "note" /\ c.id = CaseDetail
  BY <1>3 DEF CaseServerInv, IsCaseCall, CaseDetailKept
<1>6. CaseServerInv'
  <2>1. \A c \in caseCalls' : IsCaseCall(c)'
    <3>1. \A c \in calls :
            LET quiet == [c EXCEPT !.heard = FALSE] IN
            /\ quiet \in CaseCallRecords /\ quiet.id = c.id /\ ~quiet.late /\ ~quiet.heard
      BY <1>5 DEF CaseCallRecords
    <3>2. QED
      BY <1>1, <1>5, <3>1 DEF IsCaseCall
  <2>2. QED
    BY <2>1 DEF CaseServerInv
<1>7. CaseDetailKept'
  <2>1. CASE kept
    <3>1. caseView' = view /\ caseQuery' = query /\ caseCalls' = calls
      BY <1>1, <2>1
    <3>2. CaseDetail' = CaseDetail /\ CaseDetail # 0
      BY <2>1, <3>1 DEF CaseDetail
    <3>3. QED
      BY <1>5, <3>1, <3>2 DEF CaseDetailKept
  <2>2. CASE ~kept
    <3>1. \A c \in caseCalls' : ~c.heard
      BY <1>1, <1>5, <2>2 DEF CaseCallRecords
    <3>2. ~caseView'.note
      BY <1>1, <2>2 DEF CaseViews
    <3>3. QED
      BY <3>1, <3>2 DEF CaseDetailKept
  <2>3. QED
    BY <2>1, <2>2
<1>8. CasesFresh'
  BY <1>1, <1>2 DEF CasesFresh, CaseRows
<1>9. QED
  BY <1>4, <1>6, <1>7, <1>8

\* The same, for a step that leaves the server and the dialog alone.
LEMMA CaseViewKeeps ==
  ASSUME CasesInv, UNCHANGED <<cases, newCase>>,
         NEW view \in CaseViews, view.open \in 0..Len(cases),
         NEW query, IsQuery(query), QueryOK(query), AreCases(query.rows),
         Settled(query) => query.rows = CasesListed(view.filter),
         CaseScreen(view, query, caseCalls)
  PROVE  CasesInv'
<1>1. /\ cases' \in Seq(CaseStatuses) /\ Len(cases') \in 1..MaxCases /\ Len(cases) <= Len(cases')
      /\ newCase' \in [open : BOOLEAN, sent : BOOLEAN, heard : BOOLEAN]
  BY DEF CasesInv, CaseServerInv, CaseScreenInv
<1>2. CasesListed(view.filter)' = CasesListed(view.filter)
  BY DEF CasesListed
<1>3. QED
  BY <1>1, <1>2, CaseScreenKeeps

\* The query of a filter when it is chosen.
LEMMA ChosenQuery ==
  ASSUME CasesInv, NEW filter, NEW q \in CaseQueryOf(filter)
  PROVE  IsQuery(q) /\ QueryOK(q) /\ AreCases(q.rows)
         /\ (Settled(q) => q.rows = CasesListed(filter))
<1>1. AreCases(CasesListed(filter)) /\ AreCases(NoRows)
  BY ListedAreRows, EmptySeq DEF CasesInv, CaseServerInv, AreCases, NoRows
<1>2. CASE q = NewQuery(NoRows)
  BY <1>1, <1>2, QueryBegins, QueryBeginsOK
<1>3. CASE q \in Mounted(AnsweredWith(CasesListed(filter)))
  <2>1. PICK a : a = AnsweredWith(CasesListed(filter))
    OBVIOUS
  <2>2. IsQuery(a) /\ QueryOK(a) /\ a.rows = CasesListed(filter)
    BY <2>1, QueryBegins, QueryBeginsOK
  <2>3. IsQuery(q) /\ QueryOK(q) /\ q.rows = CasesListed(filter)
    BY <1>3, <2>1, <2>2, QueryMoves, QueryKeepsRows, QueryStaysOK
  <2>4. QED
    BY <1>1, <2>3
<1>4. QED
  BY <1>2, <1>3 DEF CaseQueryOf
\* There is a first page, and never more pages than there may be cases.
LEMMA CasePagesExist ==
  ASSUME CasesInv
  PROVE  /\ CasePages \in 1..MaxCases
         /\ CasePage(caseView, caseQuery) \subseteq 1..Len(cases)
         /\ caseView.page <= CasePages /\ CasePage(caseView, caseQuery) = {} => caseView.page = 1
<1> DEFINE s == CasesOrdered(CaseRows, caseView.filter)
           n == Len(s)
<1>1. /\ DOMAIN CaseRows \subseteq 1..Len(cases) /\ Len(cases) \in Nat /\ Len(cases) <= MaxCases
      /\ caseView.page \in Nat \ {0} /\ MaxCases \in Nat /\ 1 <= MaxCases
      /\ CasePageSize \in Nat \ {0}
  BY CaseAssumption, LenProperties DEF CasesInv, CaseServerInv, CaseScreenInv, AreCases, CaseViews
<1>2. /\ s \in Seq(DOMAIN CaseRows) /\ n \in Nat /\ n <= Len(cases)
      /\ CasePage(caseView, caseQuery) \subseteq DOMAIN CaseRows
  BY <1>1, CasesPaged DEF CaseRows
<1>3. CasePages = IF n = 0 THEN 1 ELSE Pages(n, CasePageSize)
  BY DEF CasePages, CaseRows
<1>4. CasePage(caseView, caseQuery) = {} => PageOf(s, caseView.page, CasePageSize) = << >>
  <2>1. PICK page : page = PageOf(s, caseView.page, CasePageSize)
    OBVIOUS
  <2>2. page \in Seq(DOMAIN CaseRows)
    <3> HIDE DEF s
    <3>1. QED
      BY <1>1, <1>2, <2>1, PageLists
  <2>3. CasePage(caseView, caseQuery) = {page[m] : m \in DOMAIN page}
    BY <2>1 DEF CasePage, CaseRows
  <2>4. page # << >> => page[1] \in CasePage(caseView, caseQuery)
    BY <2>2, <2>3, EmptySeq, LenProperties
  <2>5. QED
    BY <2>1, <2>4
<1> HIDE DEF s
<1>5. PICK len \in Nat, pages \in Nat : len = n /\ pages = Pages(n, CasePageSize)
  BY <1>1, <1>2, PagesHold
<1>6. /\ len > 0 => CasePageSize * (pages - 1) < len
      /\ len <= CasePageSize * pages /\ pages <= len
      /\ len > 0 => pages >= 1
  BY <1>1, <1>5, PagesHold, PagesGrow
<1>7. CasePages \in 1..MaxCases
  BY <1>1, <1>2, <1>3, <1>5, <1>6
\* A page that is there and shows nothing is the first of an empty list.
<1>8. ASSUME caseView.page <= CasePages, CasePage(caseView, caseQuery) = {}
      PROVE  caseView.page = 1
  <2>1. CASE len = 0
    BY <1>1, <1>3, <1>5, <1>8, <2>1
  <2>2. CASE len > 0
    <3>1. PICK p \in Nat \ {0} : p = caseView.page
      BY <1>1
    <3>2. p <= pages
      BY <1>3, <1>5, <1>8, <2>2, <3>1
    <3>3. CasePageSize * (p - 1) <= CasePageSize * (pages - 1)
      <4>1. \A i, j, k \in Int : k > 0 /\ i <= j => k * i <= k * j
        OBVIOUS
      <4>2. p - 1 \in Int /\ pages - 1 \in Int /\ p - 1 <= pages - 1
        BY <3>2
      <4>3. QED
        BY <1>1, <4>1, <4>2
    <3>4. CasePageSize * (p - 1) < len
      <4>1. CasePageSize * (p - 1) \in Int /\ CasePageSize * (pages - 1) \in Int
        BY <1>1
      <4>2. QED
        BY <1>6, <2>2, <3>3, <4>1
    <3>5. PageOf(s, p, CasePageSize) # << >>
      BY <1>1, <1>2, <1>5, <3>4, PageLists
    <3>6. QED
      BY <1>4, <1>8, <3>1, <3>5
  <2>3. QED
    BY <2>1, <2>2
<1>9. QED
  BY <1>1, <1>2, <1>7, <1>8

-----------------------------------------------------------------------------
(* Steps                                                                   *)

LEMMA InitCases == CasesInit => CasesInv
<1> SUFFICES ASSUME CasesInit PROVE CasesInv
  OBVIOUS
<1>1. cases \in Seq(CaseStatuses) /\ Len(cases) = 1 /\ caseCalls = {}
  BY DEF CasesInit, CaseStatuses
<1>2. CaseServerInv
  BY <1>1, CaseAssumption DEF CaseServerInv
<1>3. /\ IsQuery(caseQuery) /\ QueryOK(caseQuery) /\ ~Settled(caseQuery) /\ CaseRows = << >>
  BY QueryBegins, QueryBeginsOK DEF CasesInit, CaseRows, NoRows
<1>4. AreCases(CaseRows)
  BY <1>3 DEF AreCases
<1>5. /\ caseView \in CaseViews /\ caseView.open \in 0..Len(cases) /\ ~caseView.note
      /\ newCase \in [open : BOOLEAN, sent : BOOLEAN, heard : BOOLEAN]
  BY <1>1, CaseAssumption DEF CasesInit, CaseViews, CaseFilters
<1>6. QED
  BY <1>1, <1>2, <1>3, <1>4, <1>5 DEF CasesInv, CaseScreenInv, CaseDetailKept, CasesFresh

LEMMA NextCases == CasesInv /\ [CasesNext]_caseVars => CasesInv'
<1> SUFFICES ASSUME CasesInv, [CasesNext]_caseVars PROVE CasesInv'
  OBVIOUS
<1>0. /\ CaseServerInv /\ CaseScreenInv /\ CaseDetailKept /\ CasesFresh
      /\ cases \in Seq(CaseStatuses) /\ Len(cases) \in 1..MaxCases
      /\ IsQuery(caseQuery) /\ QueryOK(caseQuery) /\ AreCases(caseQuery.rows)
      /\ caseView \in CaseViews /\ caseView.open \in 0..Len(cases)
      /\ newCase \in [open : BOOLEAN, sent : BOOLEAN, heard : BOOLEAN]
      /\ DOMAIN cases = 1..Len(cases)
  BY LenProperties DEF CasesInv, CaseServerInv, CaseScreenInv, CaseRows
<1>1. CASE CasesAnswered
  <2>1. PICK rows : rows = CasesListed(caseView.filter)
    OBVIOUS
  <2>2. PICK q : q = AnsweredWith(rows)
    OBVIOUS
  <2>3. IsQuery(q) /\ QueryOK(q) /\ AreCases(q.rows) /\ q.rows = CasesListed(caseView.filter)
    BY <1>0, <2>1, <2>2, QueryBegins, QueryBeginsOK, ListedAreRows
  <2>4. CaseScreen(caseView, q, caseCalls) /\ UNCHANGED <<cases, newCase>>
    BY <1>1, <2>1, <2>2 DEF CasesAnswered
  <2>5. QED
    BY <1>0, <2>3, <2>4, CaseViewKeeps
<1>2. CASE CasesFetchFailed
  <2>1. PICK q : q = FetchFailed(caseQuery)
    OBVIOUS
  <2>2. IsQuery(q) /\ QueryOK(q) /\ q.rows = caseQuery.rows /\ ~Settled(q)
    BY <1>0, <2>1, QueryMoves, QueryKeepsRows, QueryStaysOK
  <2>3. CaseScreen(caseView, q, caseCalls) /\ UNCHANGED <<cases, newCase>>
    BY <1>2, <2>1 DEF CasesFetchFailed
  <2>4. QED
    BY <1>0, <2>2, <2>3, CaseViewKeeps
<1>3. CASE CaseMovesElsewhere
  <2>1. PICK i \in 1..Len(cases), status \in CaseStatuses : cases' = [cases EXCEPT ![i] = status]
    BY <1>0, <1>3 DEF CaseMovesElsewhere, CaseStatuses
  <2>2. cases' \in Seq(CaseStatuses) /\ Len(cases') = Len(cases) /\ DOMAIN cases' = DOMAIN cases
    BY <1>0, <2>1, ExceptSeq, LenProperties
  <2>3. /\ IsQuery(caseQuery') /\ QueryOK(caseQuery') /\ caseQuery'.rows = caseQuery.rows
        /\ ~Settled(caseQuery)'
    BY <1>0, <1>3, QueryMoves, QueryKeepsRows, QueryStaysOK DEF CaseMovesElsewhere
  <2>4. UNCHANGED <<caseView, newCase, caseCalls>>
    BY <1>3 DEF CaseMovesElsewhere
  <2>5. CaseDetail' = CaseDetail
    BY <2>3, <2>4 DEF CaseDetail, CasePage
  <2>6. CaseServerInv'
    BY <1>0, <2>2, <2>4 DEF CaseServerInv, IsCaseCall
  <2>7. CaseScreenInv'
    BY <1>0, <2>2, <2>3, <2>4 DEF CaseScreenInv, AreCases, CaseRows
  <2>8. CaseDetailKept' /\ CasesFresh'
    BY <1>0, <2>3, <2>4, <2>5 DEF CaseDetailKept, CasesFresh
  <2>9. QED
    BY <2>6, <2>7, <2>8 DEF CasesInv
<1>4. CASE FilterCases
  <2>0. PICK f \in CaseFilters : \E q \in CaseQueryOf(f) :
          CaseView([caseView EXCEPT !.filter = f, !.page = 1], q)
    BY <1>4 DEF FilterCases
  <2>1. PICK q \in CaseQueryOf(f) : CaseView([caseView EXCEPT !.filter = f, !.page = 1], q)
    BY <2>0
  <2>2. PICK view : view = [caseView EXCEPT !.filter = f, !.page = 1]
    OBVIOUS
  <2>3. view \in CaseViews /\ view.open = caseView.open /\ view.filter = f
    <3>1. 1 \in 1..MaxCases
      BY CaseAssumption
    <3>2. QED
      BY <1>0, <2>2, <3>1 DEF CaseViews
  <2>4. IsQuery(q) /\ QueryOK(q) /\ AreCases(q.rows) /\ (Settled(q) => q.rows = CasesListed(f))
    BY ChosenQuery
  <2>5. CaseScreen(view, q, caseCalls) /\ UNCHANGED <<cases, newCase>>
    BY <2>1, <2>2 DEF CaseView
  <2>6. QED
    BY <1>0, <2>3, <2>4, <2>5, CaseViewKeeps
<1>5. CASE ClearCaseFilters
  <2>1. PICK q \in CaseQueryOf("all") : CaseView([caseView EXCEPT !.filter = "all"], q)
    BY <1>5 DEF ClearCaseFilters
  <2>2. PICK view : view = [caseView EXCEPT !.filter = "all"]
    OBVIOUS
  <2>3. view \in CaseViews /\ view.open = caseView.open /\ view.filter = "all"
    BY <1>0, <2>2 DEF CaseViews, CaseFilters
  <2>4. IsQuery(q) /\ QueryOK(q) /\ AreCases(q.rows) /\ (Settled(q) => q.rows = CasesListed("all"))
    BY ChosenQuery
  <2>5. CaseScreen(view, q, caseCalls) /\ UNCHANGED <<cases, newCase>>
    BY <2>1, <2>2 DEF CaseView
  <2>6. QED
    BY <1>0, <2>3, <2>4, <2>5, CaseViewKeeps
\* The same rows, seen elsewhere.
<1>6. ASSUME NEW view \in CaseViews, view.open \in 0..Len(cases), view.filter = caseView.filter,
             CaseView(view, caseQuery)
      PROVE  CasesInv'
  <2>1. Settled(caseQuery) => caseQuery.rows = CasesListed(view.filter)
    BY <1>0, <1>6 DEF CasesFresh, CaseRows
  <2>2. QED
    BY <1>0, <1>6, <2>1, CaseViewKeeps DEF CaseView
<1>7. CASE TurnCasePage
  <2>1. PICK p \in 1..CasePages : CaseView([caseView EXCEPT !.page = p], caseQuery)
    BY <1>7 DEF TurnCasePage
  <2>2. p \in 1..MaxCases
    BY CasePagesExist, CaseAssumption
  <2>3. PICK view : view = [caseView EXCEPT !.page = p]
    OBVIOUS
  <2>4. view \in CaseViews /\ view.open = caseView.open /\ view.filter = caseView.filter
    BY <1>0, <2>2, <2>3 DEF CaseViews
  <2>5. QED
    BY <1>0, <1>6, <2>1, <2>3, <2>4
<1>8. CASE ToggleCase
  <2>1. PICK i \in CasePage(caseView, caseQuery) :
          CaseView([caseView EXCEPT !.open = IF @ = i THEN 0 ELSE i, !.note = FALSE], caseQuery)
    BY <1>8 DEF ToggleCase
  <2>2. i \in 1..Len(cases)
    BY CasePagesExist
  <2>3. PICK open \in 0..Len(cases) : open = IF caseView.open = i THEN 0 ELSE i
    BY <1>0, <2>2
  <2>4. PICK view : view = [caseView EXCEPT !.open = open, !.note = FALSE]
    OBVIOUS
  <2>5. CaseView(view, caseQuery)
    <3>1. view = [caseView EXCEPT !.open = IF @ = i THEN 0 ELSE i, !.note = FALSE]
      BY <1>0, <2>3, <2>4 DEF CaseViews
    <3>2. QED
      BY <2>1, <3>1
  <2>6. view \in CaseViews /\ view.open \in 0..Len(cases) /\ view.filter = caseView.filter
    <3>1. open \in Nat
      BY <2>3
    <3>2. QED
      BY <1>0, <2>4, <3>1 DEF CaseViews
  <2>7. QED
    BY <1>6, <2>5, <2>6
<1>9. CASE LeaveCases
  <2>1. /\ caseQuery' \in IF caseView.filter = "all" THEN Mounted(caseQuery) ELSE CaseQueryOf("all")
        /\ caseView' = [filter |-> "all", page |-> 1, open |-> 0, note |-> FALSE]
        /\ newCase' = [newCase EXCEPT !.open = FALSE, !.heard = FALSE]
        /\ caseCalls' = {[c EXCEPT !.heard = FALSE] : c \in caseCalls}
        /\ cases' = cases
    BY <1>9 DEF LeaveCases
  <2>2. /\ IsQuery(caseQuery') /\ QueryOK(caseQuery') /\ AreCases(caseQuery'.rows)
        /\ Settled(caseQuery') => caseQuery'.rows = CasesListed("all")
    <3>1. CASE caseView.filter = "all"
      <4>1. caseQuery' \in Mounted(caseQuery)
        BY <2>1, <3>1
      <4>2. /\ IsQuery(caseQuery') /\ QueryOK(caseQuery') /\ caseQuery'.rows = caseQuery.rows
            /\ Settled(caseQuery') => Settled(caseQuery)
        BY <1>0, <4>1, QueryMoves, QueryKeepsRows, QueryStaysOK
      <4>3. QED
        BY <1>0, <3>1, <4>2 DEF CasesFresh, CaseRows
    <3>2. CASE caseView.filter # "all"
      <4>1. caseQuery' \in CaseQueryOf("all")
        BY <2>1, <3>2
      <4>2. PICK q \in CaseQueryOf("all") : q = caseQuery'
        BY <4>1
      <4>3. QED
        BY <4>2, ChosenQuery
    <3>3. QED
      BY <3>1, <3>2
  <2>3. caseView' \in CaseViews /\ caseView'.open \in 0..Len(cases)
    <3>1. 1 \in 1..MaxCases
      BY CaseAssumption
    <3>2. QED
      BY <1>0, <2>1, <3>1 DEF CaseViews, CaseFilters
  <2>4. \A c \in caseCalls :
          LET quiet == [c EXCEPT !.heard = FALSE] IN
          /\ quiet \in CaseCallRecords /\ quiet.id = c.id /\ ~quiet.late /\ ~quiet.heard
    BY <1>0 DEF CaseServerInv, IsCaseCall, CaseCallRecords
  <2>5. CaseServerInv'
    <3>1. \A c \in caseCalls : c.id \in DOMAIN cases
      BY <1>0 DEF CaseServerInv, IsCaseCall
    <3>2. \A c \in caseCalls' : IsCaseCall(c)'
      BY <2>1, <2>4, <3>1 DEF IsCaseCall
    <3>3. QED
      BY <1>0, <2>1, <3>2 DEF CaseServerInv
  <2>6. CaseScreenInv'
    BY <1>0, <2>1, <2>2, <2>3 DEF CaseScreenInv, AreCases, CaseRows
  <2>7. CaseDetailKept'
    BY <2>1, <2>4 DEF CaseDetailKept
  <2>8. CasesFresh'
    <3>1. CasesListed("all")' = CasesListed("all")
      BY <2>1 DEF CasesListed
    <3>2. QED
      BY <2>1, <2>2, <3>1 DEF CasesFresh, CaseRows
  <2>9. QED
    BY <2>5, <2>6, <2>7, <2>8 DEF CasesInv
\* The dialog changes nothing of the list.
<1>10. ASSUME UNCHANGED <<cases, caseQuery>>, caseView' \in CaseViews,
              caseView'.filter = caseView.filter, caseView'.page = caseView.page,
              caseView'.open = caseView.open, caseView'.note => CaseDetail # 0,
              newCase' \in [open : BOOLEAN, sent : BOOLEAN, heard : BOOLEAN],
              \A c \in caseCalls' : IsCaseCall(c) /\ (c.heard => c.id = CaseDetail)
       PROVE  CasesInv'
  <2>1. CaseDetail' = CaseDetail
    BY <1>10 DEF CaseDetail, CasePage
  <2>2. CaseServerInv'
    BY <1>0, <1>10 DEF CaseServerInv, IsCaseCall
  <2>3. CaseScreenInv'
    BY <1>0, <1>10 DEF CaseScreenInv, AreCases, CaseRows
  <2>4. CaseDetailKept' /\ CasesFresh'
    BY <1>0, <1>10, <2>1 DEF CaseDetailKept, CasesFresh, CaseRows, CasesListed
  <2>5. QED
    BY <2>2, <2>3, <2>4 DEF CasesInv
<1>11. \A c \in caseCalls : IsCaseCall(c) /\ (c.heard => c.id = CaseDetail)
  BY <1>0 DEF CaseServerInv, CaseDetailKept
<1>12. CASE OpenNewCase \/ CreateCase
  <2>1. /\ UNCHANGED <<cases, caseQuery, caseView, caseCalls>>
        /\ newCase' \in [open : BOOLEAN, sent : BOOLEAN, heard : BOOLEAN]
    BY <1>0, <1>12 DEF OpenNewCase, CreateCase
  <2>2. QED
    BY <1>0, <1>10, <1>11, <2>1 DEF CaseDetailKept
<1>13. CASE TypeNote
  BY <1>0, <1>10, <1>11, <1>13 DEF TypeNote, CaseViews
<1>14. CASE SendCaseCall
  <2>1. /\ UNCHANGED <<cases, caseQuery, caseView, newCase>> /\ CaseDetail # 0
        /\ \/ \E action \in CaseActions(CaseRows[CaseDetail]) :
                caseCalls' = caseCalls \union {Call(action)}
           \/ caseView.note /\ caseCalls' = caseCalls \union {Call("note")}
    BY <1>14 DEF SendCaseCall
  <2>2. CaseDetail \in DOMAIN cases /\ CaseDetail \in Nat
    BY <1>0, <2>1, CasePagesExist DEF CaseDetail
  \* No button changes the status of a case that is shown as closed.
  <2>3. \A action \in CaseActions(CaseRows[CaseDetail]) \union {"note"} :
          IsCaseCall(Call(action)) /\ Call(action).id = CaseDetail
    BY <2>2 DEF CaseActions, Call, IsCaseCall, CaseCallRecords
  <2>4. \A c \in caseCalls' : IsCaseCall(c) /\ (c.heard => c.id = CaseDetail)
    BY <1>11, <2>1, <2>3
  <2>5. QED
    BY <1>0, <1>10, <2>1, <2>4 DEF CaseDetailKept
<1>15. CASE NewCaseSettled
  <2>1. CASE /\ newCase' = [newCase EXCEPT !.sent = FALSE, !.heard = FALSE]
             /\ UNCHANGED <<cases, caseQuery, caseView, caseCalls>>
    BY <1>0, <1>10, <1>11, <2>1 DEF CaseDetailKept
  <2>2. CASE /\ Len(cases) < MaxCases
             /\ cases' = Append(cases, "open")
             /\ newCase' = [open |-> newCase.open /\ ~newCase.heard, sent |-> FALSE, heard |-> FALSE]
             /\ CaseScreen(IF newCase.heard THEN [caseView EXCEPT !.page = 1] ELSE caseView,
                           Refetched(caseQuery), caseCalls)
    <3>1. PICK view : view = IF newCase.heard THEN [caseView EXCEPT !.page = 1] ELSE caseView
      OBVIOUS
    <3>2. PICK q : q = Refetched(caseQuery)
      OBVIOUS
    <3>3. IsQuery(q) /\ QueryOK(q) /\ AreCases(q.rows) /\ ~Settled(q)
      BY <1>0, <3>2, QueryMoves, QueryKeepsRows, QueryStaysOK
    <3>4. view \in CaseViews /\ view.open = caseView.open
      <4>1. 1 \in 1..MaxCases
        BY CaseAssumption
      <4>2. QED
        BY <1>0, <3>1, <4>1 DEF CaseViews
    <3>5. /\ cases' \in Seq(CaseStatuses) /\ Len(cases') = Len(cases) + 1
          /\ Len(cases') \in 1..MaxCases /\ Len(cases) <= Len(cases')
      <4>1. cases' \in Seq(CaseStatuses) /\ Len(cases') = Len(cases) + 1
        BY <1>0, <2>2, AppendProperties DEF CaseStatuses
      <4>2. QED
        BY <1>0, <2>2, <4>1, CaseAssumption
    <3>6. newCase' \in [open : BOOLEAN, sent : BOOLEAN, heard : BOOLEAN]
      BY <1>0, <2>2
    <3>7. CaseScreen(view, q, caseCalls)
      BY <2>2, <3>1, <3>2
    <3>8. QED
      BY <1>0, <3>3, <3>4, <3>5, <3>6, <3>7, CaseScreenKeeps
  <2>3. QED
    BY <1>15, <2>1, <2>2 DEF NewCaseSettled
<1>16. CASE CaseCallSettled
  <2>1. newCase' = newCase
    BY <1>16 DEF CaseCallSettled
  <2>2. PICK c \in caseCalls :
          \/ /\ cases' = [cases EXCEPT ![c.id] = CaseAfter(@, c.action)]
             /\ CaseScreen([caseView EXCEPT !.note = @ /\ ~c.heard],
                           Refetched(caseQuery), caseCalls \ {c})
          \/ /\ caseCalls' = caseCalls \ {c}
             /\ UNCHANGED <<cases, caseQuery, caseView>>
    BY <1>16 DEF CaseCallSettled
  <2>3. CASE /\ caseCalls' = caseCalls \ {c}
             /\ UNCHANGED <<cases, caseQuery, caseView>>
    BY <1>0, <1>10, <1>11, <2>1, <2>3 DEF CaseDetailKept
  <2>4. CASE /\ cases' = [cases EXCEPT ![c.id] = CaseAfter(@, c.action)]
             /\ CaseScreen([caseView EXCEPT !.note = @ /\ ~c.heard],
                           Refetched(caseQuery), caseCalls \ {c})
    <3>1. PICK view : view = [caseView EXCEPT !.note = @ /\ ~c.heard]
      OBVIOUS
    <3>2. PICK q : q = Refetched(caseQuery)
      OBVIOUS
    <3>3. IsQuery(q) /\ QueryOK(q) /\ AreCases(q.rows) /\ ~Settled(q)
      BY <1>0, <3>2, QueryMoves, QueryKeepsRows, QueryStaysOK
    <3>4. view \in CaseViews /\ view.open = caseView.open
      <4>1. c.heard \in BOOLEAN
        BY <1>11 DEF IsCaseCall, CaseCallRecords
      <4>2. QED
        BY <1>0, <3>1, <4>1 DEF CaseViews
    <3>5. PICK i \in 1..Len(cases), status \in CaseStatuses : cases' = [cases EXCEPT ![i] = status]
      <4>1. c.id \in 1..Len(cases)
        BY <1>0, <1>11 DEF IsCaseCall
      <4>2. CaseAfter(cases[c.id], c.action) \in CaseStatuses
        BY <1>0, <4>1, ElementOfSeq DEF CaseAfter, CaseStatuses
      <4>3. QED
        BY <2>4, <4>1, <4>2
    <3>6. cases' \in Seq(CaseStatuses) /\ Len(cases') = Len(cases)
      BY <1>0, <3>5, ExceptSeq
    <3>7. CaseScreen(view, q, caseCalls \ {c})
      BY <2>4, <3>1, <3>2
    <3>8. PICK calls \in SUBSET caseCalls : calls = caseCalls \ {c}
      OBVIOUS
    <3>9. CaseScreen(view, q, calls)
      BY <3>7, <3>8
    <3>10. Len(cases) <= Len(cases')
      BY <1>0, <3>6
    <3>11. QED
      BY <1>0, <2>1, <3>3, <3>4, <3>6, <3>9, <3>10, CaseScreenKeeps
  <2>5. QED
    BY <2>2, <2>3, <2>4
<1>17. CASE UNCHANGED caseVars
  BY <1>0, <1>10, <1>11, <1>17 DEF caseVars, CaseDetailKept
<1>18. QED
  BY <1>1, <1>2, <1>3, <1>4, <1>5, <1>7, <1>8, <1>9, <1>12, <1>13, <1>14, <1>15, <1>16, <1>17
  DEF CasesNext

LEMMA CasesInvariant == CasesSpec => []CasesInv
BY InitCases, NextCases, PTL DEF CasesSpec
-----------------------------------------------------------------------------
(* What the officer sees and does                                          *)

LEMMA CasesTypes == CasesInv => CasesTypeOK
<1> SUFFICES ASSUME CasesInv PROVE CasesTypeOK
  OBVIOUS
<1>1. \A i \in DOMAIN cases : cases[i] \in CaseStatuses
  BY LenProperties, ElementOfSeq DEF CasesInv, CaseServerInv
<1>2. caseView.page \in 1..MaxCases
  BY DEF CasesInv, CaseScreenInv, CaseViews
<1>3. QED
  BY <1>1, <1>2 DEF CasesInv, CaseScreenInv, AreCases, CaseDetailKept, CasesTypeOK

LEMMA CasesShown == CasesSpec => []CasesTypeOK /\ []CasesFresh
<1>1. CasesInv => CasesFresh
  BY DEF CasesInv
<1>2. QED
  BY <1>1, CasesTypes, CasesInvariant, PTL

LEMMA ReopeningIsSent ==
  CasesInv /\ [CasesNext]_caseVars =>
    [\A i \in DOMAIN cases :
       (cases[i] = "closed" /\ cases'[i] # "closed")
         => \E c \in caseCalls \ caseCalls' : c.id = i /\ ~c.late]_caseVars
<1> SUFFICES ASSUME CasesInv, [CasesNext]_caseVars,
                    NEW i \in DOMAIN cases, cases[i] = "closed", cases'[i] # "closed"
             PROVE  \E c \in caseCalls \ caseCalls' : c.id = i /\ ~c.late
  OBVIOUS
<1>1. /\ cases \in Seq(CaseStatuses) /\ Len(cases) \in Nat /\ i \in 1..Len(cases)
      /\ DOMAIN cases = 1..Len(cases)
      /\ \A c \in caseCalls : IsCaseCall(c)
  BY LenProperties DEF CasesInv, CaseServerInv
<1>2. cases' # cases
  OBVIOUS
<1>3. CaseMovesElsewhere \/ NewCaseSettled \/ CaseCallSettled
  BY <1>2 DEF CasesNext, caseVars, CasesAnswered, CasesFetchFailed, FilterCases, ClearCaseFilters,
     TurnCasePage, ToggleCase, CaseView, LeaveCases, OpenNewCase, CreateCase, TypeNote, SendCaseCall
<1>4. CASE CaseMovesElsewhere
  <2>1. PICK j \in DOMAIN cases, status \in {"in_progress", "closed"} :
          cases[j] # "closed" /\ cases' = [cases EXCEPT ![j] = status]
    BY <1>4 DEF CaseMovesElsewhere
  <2>2. cases'[i] = cases[i]
    BY <1>1, <2>1
  <2>3. QED
    BY <2>2
<1>5. CASE NewCaseSettled
  <2>1. cases' = Append(cases, "open")
    BY <1>2, <1>5 DEF NewCaseSettled
  <2>2. cases'[i] = cases[i]
    BY <1>1, <2>1, AppendProperties DEF CaseStatuses
  <2>3. QED
    BY <2>2
<1>6. CASE CaseCallSettled
  <2>1. PICK c \in caseCalls :
          /\ cases' = [cases EXCEPT ![c.id] = CaseAfter(@, c.action)]
          /\ CaseScreen([caseView EXCEPT !.note = @ /\ ~c.heard],
                        Refetched(caseQuery), caseCalls \ {c})
    BY <1>2, <1>6 DEF CaseCallSettled
  <2>2. IsCaseCall(c)
    BY <1>1
  <2>3. c.id = i /\ c.action = "escalate"
    BY <1>1, <2>1, <2>2 DEF CaseAfter, IsCaseCall, CaseCallRecords
  \* An escalation is heard by nobody: what is left of the others is not this one.
  <2>4. \A d \in caseCalls \ {c} : [d EXCEPT !.heard = FALSE] # c
    <3>1. \A d \in caseCalls \ {c} :
            d \in CaseCallRecords /\ (d.heard => d.action = "note")
      BY <1>1 DEF IsCaseCall
    <3>2. QED
      BY <2>3, <3>1 DEF CaseCallRecords
  <2>5. c \notin caseCalls'
    BY <2>1, <2>4 DEF CaseScreen
  <2>6. QED
    BY <2>2, <2>3, <2>5 DEF IsCaseCall
<1>7. QED
  BY <1>3, <1>4, <1>5, <1>6

\* A closed case comes back to life only through an escalation that was sent before the copy
\* on screen showed it closed.
LEMMA ReopeningLemma == CasesSpec => ReopenedUnawares
BY ReopeningIsSent, CasesInvariant, PTL DEF CasesSpec, ReopenedUnawares

CasePageIsThere == CasePages \in 1..MaxCases
LEMMA PagesThere == CasesInv => CasePageIsThere
BY CasePagesExist DEF CasePageIsThere

LEMMA ClicksStayInside ==
  CasesInv /\ CasePageIsThere' /\ [CasesNext]_caseVars =>
    [(/\ caseView.page <= CasePages
      /\ \/ caseView'.page # caseView.page
         \/ caseView'.filter # caseView.filter)
       => caseView'.page <= CasePages']_caseVars
<1> SUFFICES ASSUME CasesInv, CasePageIsThere', [CasesNext]_caseVars, caseView.page <= CasePages,
                    \/ caseView'.page # caseView.page
                    \/ caseView'.filter # caseView.filter
             PROVE  caseView'.page <= CasePages'
  OBVIOUS
<1>1. CasePages' \in 1..MaxCases
  BY DEF CasePageIsThere
<1>2. caseView \in CaseViews /\ IsQuery(caseQuery) /\ MaxCases \in Nat
  BY CaseAssumption DEF CasesInv, CaseScreenInv
\* Back to page 1, there always is one.
<1>3. caseView'.page = 1 => caseView'.page <= CasePages'
  BY <1>1, <1>2
\* What is shown next keeps the page and the filter it is asked for.
<1>4. ASSUME NEW view, NEW query, NEW calls, CaseScreen(view, query, calls),
             DOMAIN view = {"filter", "page", "open", "note"}
      PROVE  caseView'.page = view.page /\ caseView'.filter = view.filter /\ caseQuery' = query
  <2>1. caseView' = view \/ caseView' = [view EXCEPT !.note = FALSE]
    BY <1>4 DEF CaseScreen
  <2>2. caseQuery' = query
    BY <1>4 DEF CaseScreen
  <2>3. QED
    BY <1>4, <2>1, <2>2
<1>5. DOMAIN caseView = {"filter", "page", "open", "note"}
  BY <1>2 DEF CaseViews
<1>6. FilterCases \/ ClearCaseFilters \/ TurnCasePage \/ LeaveCases \/ NewCaseSettled
  <2>1. \A query : CaseScreen(caseView, query, caseCalls) => FALSE
    BY <1>4, <1>5
  <2>2. ToggleCase => FALSE
    <3>1. ASSUME NEW open, CaseScreen([caseView EXCEPT !.open = open, !.note = FALSE],
                                      caseQuery, caseCalls)
          PROVE  FALSE
      <4>1. PICK view : view = [caseView EXCEPT !.open = open, !.note = FALSE]
        OBVIOUS
      <4>2. /\ DOMAIN view = {"filter", "page", "open", "note"}
            /\ view.page = caseView.page /\ view.filter = caseView.filter
        BY <1>5, <4>1
      <4>3. CaseScreen(view, caseQuery, caseCalls)
        BY <3>1, <4>1
      <4>4. QED
        BY <1>4, <4>2, <4>3
    <3>2. QED
      BY <3>1 DEF ToggleCase, CaseView
  <2>3. CaseCallSettled => FALSE
    <3>1. \A note, query, calls :
            LET view == [caseView EXCEPT !.note = note] IN CaseScreen(view, query, calls) => FALSE
      BY <1>4, <1>5
    <3>2. QED
      BY <3>1 DEF CaseCallSettled
  <2>4. TypeNote => FALSE
    BY <1>5 DEF TypeNote
  <2>5. QED
    BY <2>1, <2>2, <2>3, <2>4 DEF CasesNext, caseVars, CasesAnswered, CasesFetchFailed,
       CaseMovesElsewhere, OpenNewCase, CreateCase, SendCaseCall
<1>7. CASE FilterCases
  <2>1. PICK f, q : CaseScreen([caseView EXCEPT !.filter = f, !.page = 1], q, caseCalls)
    BY <1>7 DEF FilterCases, CaseView
  <2>2. caseView'.page = 1
    BY <1>4, <1>5, <2>1
  <2>3. QED
    BY <1>3, <2>2
<1>8. CASE ClearCaseFilters
  <2>1. PICK q : CaseScreen([caseView EXCEPT !.filter = "all"], q, caseCalls)
    BY <1>8 DEF ClearCaseFilters, CaseView
  <2>2. caseView'.page = caseView.page
    BY <1>4, <1>5, <2>1
  <2>3. caseView.page = 1
    BY <1>8, CasePagesExist DEF ClearCaseFilters
  <2>4. QED
    BY <1>3, <2>2, <2>3
<1>9. CASE TurnCasePage
  <2>1. PICK p \in 1..CasePages : CaseScreen([caseView EXCEPT !.page = p], caseQuery, caseCalls)
    BY <1>9 DEF TurnCasePage, CaseView
  <2>2. /\ caseView'.page = p /\ caseView'.filter = caseView.filter /\ caseQuery' = caseQuery
    BY <1>4, <1>5, <2>1
  <2>3. CasePages' = CasePages
    BY <2>2 DEF CasePages
  <2>4. QED
    BY <2>2, <2>3
<1>10. CASE LeaveCases
  BY <1>3, <1>10 DEF LeaveCases
<1>11. CASE NewCaseSettled
  <2>1. caseView' # caseView
    OBVIOUS
  <2>2. PICK query :
          CaseScreen(IF newCase.heard THEN [caseView EXCEPT !.page = 1] ELSE caseView, query, caseCalls)
    BY <1>11, <2>1 DEF NewCaseSettled
  <2>3. CASE newCase.heard
    <3>1. CaseScreen([caseView EXCEPT !.page = 1], query, caseCalls)
      BY <2>2, <2>3
    <3>2. caseView'.page = 1
      BY <1>4, <1>5, <3>1
    <3>3. QED
      BY <1>3, <3>2
  <2>4. CASE ~newCase.heard
    BY <1>4, <1>5, <2>2, <2>4
  <2>5. QED
    BY <2>3, <2>4
<1>12. QED
  BY <1>6, <1>7, <1>8, <1>9, <1>10, <1>11

\* No filter, number or arrow leads past the end of the list, with pages of any size.
LEMMA ClicksLemma == CasesSpec => NoClickPastTheEnd
BY ClicksStayInside, PagesThere, CasesInvariant, PTL DEF CasesSpec, NoClickPastTheEnd

-----------------------------------------------------------------------------
(* Reports                                                                 *)

Unapproved == {"draft", "pending_approval"}
Filed == {"submitted", "acknowledged"}

\* A report is filed exactly when AUSTRAC has it, and linked to an alert as an SMR only.
Report ==
  {r \in [type : ReportTypes \union {"none"}, alert : BOOLEAN, status : ReportStatuses,
          narrative : Narratives, filed : BOOLEAN] :
     /\ r.filed <=> r.status \in Filed
     /\ r.alert => r.type = "SMR"}

\* The copy on screen is of the first reports, and none of them has lost its approval since.
ReportsInv ==
  /\ reports \in Seq(Report) /\ ReportsShown \in Seq(Report)
  /\ Len(ReportsShown) <= Len(reports)
  /\ \A i \in 1..Len(ReportsShown) :
       reports[i].status \in Unapproved => ReportsShown[i].status \in Unapproved

\* What the dialogs hold, and what is under way: a submission is of an approved report.
Wizards == [step : 0..3, type : ReportTypes \union {"none"}, alert : BOOLEAN]
ReportListInv ==
  /\ reportList \in [copy : Seq(Report), asked : BOOLEAN, filter : ReportFilters]
  /\ reportBehind \in BOOLEAN
WizardInv == wizard \in Wizards
GenerateInv ==
  /\ generateCall \in [type : ReportTypes \union {"none"}, alert : BOOLEAN, here : BOOLEAN]
  /\ generateCall.alert => generateCall.type = "SMR"
DetailInv ==
  /\ detail \in [report : 0..Len(ReportsShown), narrative : Narratives, compare : BOOLEAN]
  /\ detail # NoDetail => detail.report # 0
UpdateInv ==
  /\ updateCall \in [report : 0..Len(reports), action : {"none", "approve", "submit"}]
  /\ updateCall # NoUpdate => updateCall.report # 0 /\ updateCall.action # "none"
  /\ updateCall.action = "submit" => reports[updateCall.report].status \notin Unapproved

DialogsInv == ReportListInv /\ WizardInv /\ GenerateInv /\ DetailInv /\ UpdateInv

ReportingInv == ReportsInv /\ DialogsInv /\ ReportsFresh

LEMMA GeneratedIsReport ==
  ASSUME NEW type \in ReportTypes \union {"none"}, NEW alert \in BOOLEAN, alert => type = "SMR"
  PROVE  Generated(type, alert) \in Report /\ Generated(type, alert).status \in Unapproved
BY DEF Generated, Report, ReportStatuses, Narratives, Filed, Unapproved

LEMMA NothingIsOpen ==
  /\ NoWizard \in Wizards
  /\ \A n \in Nat : NoDetail \in [report : 0..n, narrative : Narratives, compare : BOOLEAN]
BY DEF NoWizard, Wizards, NoDetail, Narratives

LEMMA InitReporting == ReportingInit => ReportingInv
<1> SUFFICES ASSUME ReportingInit PROVE ReportingInv
  OBVIOUS
<1>1. Generated("SMR", FALSE) \in Report
  BY GeneratedIsReport, ReportingAssumption
<1>2. reports \in Seq(Report) /\ Len(reports) = 1
  <2>1. PICK first \in Report : first = Generated("SMR", FALSE)
    BY <1>1
  <2>2. reports = <<first>>
    BY <2>1 DEF ReportingInit
  <2>3. QED
    BY <2>2
<1>3. << >> \in Seq(Report) /\ Len(<< >>) = 0
  BY EmptySeq
<1>4. /\ reportList \in [copy : Seq(Report), asked : BOOLEAN, filter : ReportFilters]
      /\ ReportsShown = << >> /\ reportList.asked
  BY <1>3 DEF ReportingInit, ReportFilters, ReportsShown
<1>5. ReportsInv
  BY <1>2, <1>3, <1>4 DEF ReportsInv
<1>6. DialogsInv
  <2>1. ReportListInv /\ WizardInv
    BY <1>4, NothingIsOpen DEF ReportingInit, ReportListInv, WizardInv
  <2>2. GenerateInv /\ UpdateInv
    BY <1>2 DEF ReportingInit, GenerateInv, UpdateInv, NoGenerate, NoUpdate
  <2>3. DetailInv
    BY <1>3, <1>4, NothingIsOpen DEF ReportingInit, DetailInv
  <2>4. QED
    BY <2>1, <2>2, <2>3 DEF DialogsInv
<1>7. QED
  BY <1>4, <1>5, <1>6 DEF ReportingInv, ReportsFresh

\* One report moves on, where it was unapproved or no longer is: the copy of it still is not
\* ahead, and what is under way remains of approved reports.
LEMMA ReportMoves ==
  ASSUME ReportingInv, NEW i \in 1..Len(reports), NEW r \in Report,
         r.status \in Unapproved => reports[i].status \in Unapproved,
         reports' = [reports EXCEPT ![i] = r], ReportsShown' = ReportsShown
  PROVE  /\ ReportsInv' /\ Len(reports') = Len(reports)
         /\ \A j \in 1..Len(reports) :
              reports'[j].status \in Unapproved => reports[j].status \in Unapproved
<1> USE DEF ReportingInv, ReportsInv
<1>1. /\ reports' \in Seq(Report) /\ Len(reports') = Len(reports)
      /\ \A j \in 1..Len(reports) : reports'[j] = IF j = i THEN r ELSE reports[j]
  BY ExceptSeq
<1>2. \A j \in 1..Len(ReportsShown) : j \in 1..Len(reports)
  BY LenProperties
<1>3. QED
  BY <1>1, <1>2

LEMMA NextReporting == ReportingInv /\ [ReportingNext]_reportVars => ReportingInv'
<1> SUFFICES ASSUME ReportingInv, [ReportingNext]_reportVars PROVE ReportingInv'
  OBVIOUS
<1>0. /\ ReportsInv /\ DialogsInv /\ ReportsFresh
      /\ Len(reports) \in Nat /\ Len(ReportsShown) \in Nat
      /\ DOMAIN reports = 1..Len(reports) /\ DOMAIN ReportsShown = 1..Len(ReportsShown)
  BY LenProperties DEF ReportingInv, ReportsInv
<1>1. CASE ReportsAnswered
  <2>1. ReportsShown' = reports /\ UNCHANGED <<reports, wizard, generateCall, detail, updateCall>>
    BY <1>0, <1>1 DEF ReportsAnswered, DialogsInv, ReportListInv, ReportsShown
  <2>2. ReportsInv'
    BY <1>0, <2>1 DEF ReportsInv
  <2>3. detail.report \in 0..Len(reports)
    BY <1>0 DEF DialogsInv, DetailInv, ReportsInv
  <2>4. DialogsInv'
    <3>1. ReportListInv' /\ WizardInv' /\ GenerateInv'
      BY <1>0, <1>1, <2>1 DEF ReportsAnswered, DialogsInv, ReportsInv, ReportListInv, WizardInv, GenerateInv
    <3>2. DetailInv' /\ UpdateInv'
      BY <1>0, <2>1, <2>3 DEF DialogsInv, DetailInv, UpdateInv, NoDetail
    <3>3. QED
      BY <3>1, <3>2 DEF DialogsInv
  <2>5. QED
    BY <2>1, <2>2, <2>4 DEF ReportingInv, ReportsFresh
<1>2. CASE ReportsFetchFailed \/ FilterReports \/ LeaveReporting
  <2>1. /\ ReportsShown' = ReportsShown /\ UNCHANGED <<reports, updateCall>>
        /\ reportList' \in [copy : Seq(Report), asked : BOOLEAN, filter : ReportFilters]
        /\ reportList'.asked \/ reportBehind'
             \/ (reportList'.asked = reportList.asked /\ reportBehind' = reportBehind)
        /\ reportBehind' \in BOOLEAN
    BY <1>0, <1>2 DEF ReportsFetchFailed, FilterReports, LeaveReporting, DialogsInv, ReportListInv,
       ReportsShown,
       ReportFilters
  <2>2. /\ wizard' \in {wizard, NoWizard} /\ detail' \in {detail, NoDetail}
        /\ generateCall' \in {generateCall, [generateCall EXCEPT !.here = FALSE]}
    BY <1>2 DEF ReportsFetchFailed, FilterReports, LeaveReporting
  <2>3. DialogsInv'
    <3>1. ReportListInv' /\ WizardInv'
      BY <1>0, <2>1, <2>2, NothingIsOpen DEF DialogsInv, ReportListInv, WizardInv
    <3>2. GenerateInv'
      BY <1>0, <2>2 DEF DialogsInv, GenerateInv
    <3>3. DetailInv' /\ UpdateInv'
      BY <1>0, <2>1, <2>2, NothingIsOpen DEF DialogsInv, DetailInv, UpdateInv
    <3>4. QED
      BY <3>1, <3>2, <3>3 DEF DialogsInv
  <2>4. QED
    BY <1>0, <2>1, <2>3 DEF ReportingInv, ReportsInv, ReportsFresh
<1>3. CASE ReportMovesElsewhere
  <2>1. PICK i \in DOMAIN reports :
       \/ /\ reports[i].status \in {"draft", "pending_approval"}
          /\ reports' = [reports EXCEPT ![i].status = "approved"]
       \/ /\ reports[i].status = "draft"
          /\ reports' = [reports EXCEPT ![i].status = "pending_approval"]
       \/ /\ reports[i].status = "submitted"
          /\ reports' = [reports EXCEPT ![i].status = "acknowledged"]
    BY <1>3 DEF ReportMovesElsewhere
  <2>2. reports[i] \in Report
    BY <1>0, ElementOfSeq DEF ReportsInv
  <2>3. PICK r \in Report : /\ r.status \in Unapproved => reports[i].status \in Unapproved
                            /\ reports' = [reports EXCEPT ![i] = r]
    <3>1. /\ reports[i].status \in Unapproved =>
               /\ [reports[i] EXCEPT !.status = "approved"] \in Report
               /\ [reports[i] EXCEPT !.status = "pending_approval"] \in Report
          /\ reports[i].status = "submitted" =>
               [reports[i] EXCEPT !.status = "acknowledged"] \in Report
      BY <2>2 DEF Report, Unapproved, Filed, ReportStatuses
    <3>2. QED
      BY <2>1, <2>2, <3>1 DEF Unapproved, Report
  <2>4. /\ ReportsShown' = ReportsShown /\ reportBehind' = TRUE
        /\ UNCHANGED <<reportList, wizard, generateCall, detail, updateCall>>
    BY <1>3 DEF ReportMovesElsewhere, ReportsShown
  <2>5. /\ ReportsInv' /\ Len(reports') = Len(reports)
        /\ \A j \in 1..Len(reports) :
             reports'[j].status \in Unapproved => reports[j].status \in Unapproved
    BY <1>0, <2>3, <2>4, ReportMoves
  <2>6. DialogsInv'
    <3>1. ReportListInv' /\ WizardInv' /\ GenerateInv' /\ DetailInv'
      BY <1>0, <2>4 DEF DialogsInv, ReportListInv, WizardInv, GenerateInv, DetailInv
    <3>2. UpdateInv'
      BY <1>0, <2>4, <2>5 DEF DialogsInv, UpdateInv, NoUpdate
    <3>3. QED
      BY <3>1, <3>2 DEF DialogsInv
  <2>7. QED
    BY <2>4, <2>5, <2>6 DEF ReportingInv, ReportsFresh
<1>4. CASE GenerateSettled
  <2>1. UNCHANGED <<detail, updateCall, reportBehind>> /\ generateCall' = NoGenerate
    BY <1>4 DEF GenerateSettled
  <2>2. CASE UNCHANGED <<reports, reportList, wizard>>
    <3>1. DialogsInv'
      BY <1>0, <2>1, <2>2 DEF DialogsInv, ReportListInv, WizardInv, GenerateInv, DetailInv, UpdateInv,
         ReportsShown, NoGenerate
    <3>2. QED
      BY <1>0, <2>1, <2>2, <3>1 DEF ReportingInv, ReportsInv, ReportsFresh, ReportsShown
  <2>3. CASE /\ Len(reports) < MaxReports
             /\ reports' = Append(reports, Generated(generateCall.type, generateCall.alert))
             /\ reportList' = [reportList EXCEPT !.asked = TRUE]
             /\ wizard' = IF generateCall.here THEN NoWizard ELSE wizard
    <3>1. PICK r \in Report : r = Generated(generateCall.type, generateCall.alert)
      BY <1>0, GeneratedIsReport DEF DialogsInv, GenerateInv
    <3>2. /\ reports' \in Seq(Report) /\ Len(reports') = Len(reports) + 1
          /\ \A j \in 1..Len(reports) : reports'[j] = reports[j]
      BY <1>0, <2>3, <3>1, AppendProperties DEF ReportsInv
    <3>3. ReportsShown' = ReportsShown /\ reportList'.asked
          /\ reportList' \in [copy : Seq(Report), asked : BOOLEAN, filter : ReportFilters]
      BY <1>0, <2>3 DEF DialogsInv, ReportListInv, ReportsShown
    <3>4. wizard' \in {wizard, NoWizard}
      BY <2>3
    <3>5. \A j \in 1..Len(ReportsShown) : j \in 1..Len(reports)
      BY <1>0 DEF ReportsInv
    <3>6. ReportsInv'
      BY <1>0, <3>2, <3>3, <3>5 DEF ReportsInv
    <3>7. ReportListInv' /\ WizardInv' /\ GenerateInv' /\ DetailInv'
      BY <1>0, <2>1, <3>3, <3>4, NothingIsOpen
      DEF DialogsInv, ReportListInv, WizardInv, GenerateInv, DetailInv, NoGenerate
    <3>8. UpdateInv'
      <4>1. updateCall.report \in 0..Len(reports')
        BY <1>0, <3>2 DEF DialogsInv, UpdateInv
      <4>2. updateCall.action = "submit" =>
              reports'[updateCall.report] = reports[updateCall.report]
        BY <1>0, <3>2 DEF DialogsInv, UpdateInv, NoUpdate
      <4>3. QED
        BY <1>0, <2>1, <4>1, <4>2 DEF DialogsInv, UpdateInv
    <3>9. DialogsInv'
      BY <3>7, <3>8 DEF DialogsInv
    <3>10. QED
      BY <3>3, <3>6, <3>9 DEF ReportingInv, ReportsFresh
  <2>4. QED
    BY <1>4, <2>2, <2>3 DEF GenerateSettled
\* The dialogs change nothing that is told of reports.
<1>5. ASSUME UNCHANGED <<reports, reportList, reportBehind>>, DialogsInv'
      PROVE  ReportingInv'
  BY <1>0, <1>5 DEF ReportingInv, ReportsInv, ReportsFresh, ReportsShown
<1>6. CASE OpenWizard \/ CloseWizard \/ StepWizard
  <2>1. UNCHANGED <<reports, reportList, generateCall, detail, updateCall, reportBehind>>
    BY <1>6 DEF OpenWizard, CloseWizard, StepWizard
  <2>2. wizard' \in Wizards
    <3>1. wizard \in Wizards /\ NoWizard \in Wizards
      BY <1>0, NothingIsOpen DEF DialogsInv, WizardInv
    <3>2. CASE OpenWizard \/ CloseWizard
      BY <3>1, <3>2 DEF OpenWizard, CloseWizard, Wizards
    <3>3. CASE StepWizard
      <4>1. \A t \in ReportTypes : [wizard EXCEPT !.type = t] \in Wizards
        BY <3>1 DEF Wizards
      <4>2. [wizard EXCEPT !.alert = TRUE] \in Wizards
        BY <3>1 DEF Wizards
      <4>3. /\ wizard.step \in {1, 2} => [wizard EXCEPT !.step = @ + 1] \in Wizards
            /\ wizard.step \in {2, 3} => [wizard EXCEPT !.step = @ - 1] \in Wizards
        BY <3>1 DEF Wizards
      <4>4. QED
        BY <3>3, <4>1, <4>2, <4>3 DEF StepWizard
    <3>4. QED
      BY <1>6, <3>2, <3>3
  <2>3. QED
    BY <1>0, <1>5, <2>1, <2>2
    DEF DialogsInv, ReportListInv, WizardInv, GenerateInv, DetailInv, UpdateInv, ReportsShown
<1>7. CASE Generate
  <2>1. UNCHANGED <<reports, reportList, wizard, detail, updateCall, reportBehind>>
    BY <1>7 DEF Generate
  <2>2. /\ generateCall' \in [type : ReportTypes \union {"none"}, alert : BOOLEAN, here : BOOLEAN]
        /\ generateCall'.alert => generateCall'.type = "SMR"
    BY <1>0, <1>7 DEF Generate, DialogsInv, WizardInv, Wizards
  <2>3. QED
    BY <1>0, <1>5, <2>1, <2>2
    DEF DialogsInv, ReportListInv, WizardInv, GenerateInv, DetailInv, UpdateInv, ReportsShown
<1>8. CASE OpenDetail \/ CloseDetail \/ EditDetail
  <2>1. UNCHANGED <<reports, reportList, wizard, generateCall, updateCall, reportBehind>>
    BY <1>8 DEF OpenDetail, CloseDetail, EditDetail
  <2>2. \A r \in FilteredReports :
          r \in 0..Len(ReportsShown) /\ r # 0 /\ ReportsShown[r].narrative \in Narratives
    <3>1. \A r \in 1..Len(ReportsShown) : ReportsShown[r] \in Report
      BY <1>0, ElementOfSeq DEF ReportsInv
    <3>2. QED
      BY <1>0, <3>1 DEF FilteredReports, Report
  <2>3. /\ detail' \in [report : 0..Len(ReportsShown), narrative : Narratives, compare : BOOLEAN]
        /\ detail' # NoDetail => detail'.report # 0
    <3>1. CASE OpenDetail
      BY <2>2, <3>1 DEF OpenDetail
    <3>2. CASE CloseDetail
      BY <1>0, <3>2, NothingIsOpen DEF CloseDetail
    <3>3. CASE EditDetail
      BY <1>0, <3>3 DEF EditDetail, DialogsInv, DetailInv
    <3>4. QED
      BY <1>8, <3>1, <3>2, <3>3
  <2>4. QED
    BY <1>0, <1>5, <2>1, <2>3
    DEF DialogsInv, ReportListInv, WizardInv, GenerateInv, DetailInv, UpdateInv, ReportsShown
<1>9. CASE UpdateReport
  <2>1. UNCHANGED <<reports, reportList, wizard, generateCall, detail, reportBehind>>
    BY <1>9 DEF UpdateReport
  <2>2. detail.report \in 1..Len(ReportsShown) /\ detail.report \in 1..Len(reports)
    BY <1>0, <1>9 DEF UpdateReport, DialogsInv, DetailInv, ReportsInv
  <2>3. PICK action \in DetailActions(ReportsShown[detail.report].status) :
          updateCall' = [report |-> detail.report, action |-> action]
    BY <1>9 DEF UpdateReport
  <2>4. /\ action \in {"approve", "submit"}
        /\ action = "submit" => ReportsShown[detail.report].status \notin Unapproved
    BY <2>3 DEF DetailActions, Unapproved
  <2>5. action = "submit" => reports[detail.report].status \notin Unapproved
    BY <1>0, <2>2, <2>4 DEF ReportsInv
  <2>6. QED
    BY <1>0, <1>5, <2>1, <2>2, <2>3, <2>4, <2>5
    DEF DialogsInv, ReportListInv, WizardInv, GenerateInv, DetailInv, UpdateInv, ReportsShown, NoUpdate
<1>10. CASE UpdateSettled
  <2>1. UNCHANGED <<wizard, generateCall, detail, reportBehind>> /\ updateCall' = NoUpdate
    BY <1>10 DEF UpdateSettled
  <2>2. CASE UNCHANGED <<reports, reportList>>
    BY <1>0, <1>5, <2>1, <2>2
    DEF DialogsInv, ReportListInv, WizardInv, GenerateInv, DetailInv, UpdateInv, ReportsShown, NoUpdate
  <2>3. CASE /\ Acceptable(reports[updateCall.report], updateCall.action)
             /\ \E r \in Applied(reports[updateCall.report], updateCall.action) :
                  reports' = [reports EXCEPT ![updateCall.report] = r]
             /\ reportList' = [reportList EXCEPT !.asked = TRUE]
    <3>1. PICK i \in 1..Len(reports) : i = updateCall.report
      BY <1>0, <1>10 DEF UpdateSettled, DialogsInv, UpdateInv
    <3>2. reports[i] \in Report
      BY <1>0, ElementOfSeq DEF ReportsInv
    <3>3. updateCall.action \in {"approve", "submit"}
      BY <1>0, <1>10, <2>3 DEF UpdateSettled, DialogsInv, UpdateInv, NoUpdate, Applied
    <3>4. PICK r \in Applied(reports[i], updateCall.action) : reports' = [reports EXCEPT ![i] = r]
      BY <2>3, <3>1
    <3>5. r \in Report /\ r.status \notin Unapproved
      <4>1. CASE updateCall.action = "approve"
        <5>1. r = [reports[i] EXCEPT !.status = "approved"]
              /\ reports[i].status \in {"draft", "pending_approval", "approved"}
          BY <2>3, <3>1, <3>4, <4>1 DEF Applied, Acceptable
        <5>2. QED
          BY <3>2, <5>1 DEF Report, Filed, Unapproved, ReportStatuses
      <4>2. CASE updateCall.action = "submit"
        <5>1. /\ r \in {[reports[i] EXCEPT !.status = "submitted", !.filed = TRUE],
                       [reports[i] EXCEPT !.status = "failed"]}
              /\ ~reports[i].filed
          BY <2>3, <3>1, <3>4, <4>2 DEF Applied, Acceptable
        <5>2. QED
          BY <3>2, <5>1 DEF Report, Filed, Unapproved, ReportStatuses
      <4>3. QED
        BY <3>3, <4>1, <4>2
    <3>6. ReportsShown' = ReportsShown /\ reportList'.asked
          /\ reportList' \in [copy : Seq(Report), asked : BOOLEAN, filter : ReportFilters]
      BY <1>0, <2>3 DEF DialogsInv, ReportListInv, ReportsShown
    <3>7. ReportsInv' /\ Len(reports') = Len(reports)
      BY <1>0, <3>4, <3>5, <3>6, ReportMoves
    <3>8. DialogsInv'
      <4>1. ReportListInv' /\ WizardInv' /\ GenerateInv' /\ DetailInv'
        BY <1>0, <2>1, <3>6 DEF DialogsInv, ReportListInv, WizardInv, GenerateInv, DetailInv
      <4>2. UpdateInv'
        BY <1>0, <2>1, <3>7 DEF UpdateInv, NoUpdate
      <4>3. QED
        BY <4>1, <4>2 DEF DialogsInv
    <3>9. QED
      BY <3>6, <3>7, <3>8 DEF ReportingInv, ReportsFresh
  <2>4. QED
    BY <1>10, <2>2, <2>3 DEF UpdateSettled
<1>11. CASE UNCHANGED reportVars
  BY <1>0, <1>5, <1>11
  DEF reportVars, DialogsInv, ReportListInv, WizardInv, GenerateInv, DetailInv, UpdateInv, ReportsShown
<1>12. QED
  BY <1>1, <1>2, <1>3, <1>4, <1>6, <1>7, <1>8, <1>9, <1>10, <1>11 DEF ReportingNext

LEMMA ReportingInvariant == ReportingSpec => []ReportingInv
BY InitReporting, NextReporting, PTL DEF ReportingSpec
\* No report but an SMR is linked to an alert, whatever types were chosen on the way.
THEOREM OnlySmrTheorem == ReportingSpec => []OnlySmrLinked
<1>1. ReportingInv => OnlySmrLinked
  BY ElementOfSeq, LenProperties DEF ReportingInv, ReportsInv, Report, OnlySmrLinked
<1>2. QED
  BY <1>1, ReportingInvariant, PTL

LEMMA FilingNeedsApproval ==
  ReportingInv /\ [ReportingNext]_reportVars =>
    [\A i \in DOMAIN reports :
       (~reports[i].filed /\ reports'[i].filed) =>
          reports[i].status \in {"approved", "failed"}]_reportVars
<1> SUFFICES ASSUME ReportingInv, [ReportingNext]_reportVars,
                    NEW i \in DOMAIN reports, ~reports[i].filed, reports'[i].filed
             PROVE  reports[i].status \in {"approved", "failed"}
  OBVIOUS
<1>1. ReportsInv /\ DialogsInv /\ i \in 1..Len(reports) /\ reports[i] \in Report
      /\ reports \in [1..Len(reports) -> Report] /\ Len(reports) \in Nat
  BY LenProperties, ElementOfSeq DEF ReportingInv, ReportsInv
<1>2. reports' # reports
  OBVIOUS
\* Nothing but an answer of the server files a report.
<1>3. ReportMovesElsewhere \/ GenerateSettled \/ UpdateSettled
  BY <1>2 DEF ReportingNext, reportVars, ReportsAnswered, ReportsFetchFailed, FilterReports,
     LeaveReporting, OpenWizard, CloseWizard, StepWizard, Generate, OpenDetail, CloseDetail,
     EditDetail, UpdateReport
<1>4. CASE ReportMovesElsewhere
  <2>1. \E s \in ReportStatuses, j \in DOMAIN reports : reports' = [reports EXCEPT ![j].status = s]
    BY <1>4 DEF ReportMovesElsewhere, ReportStatuses
  <2>2. reports'[i].filed = reports[i].filed
    BY <1>1, <2>1 DEF Report
  <2>3. QED
    BY <2>2
<1>5. CASE GenerateSettled
  <2>1. PICK r \in Report : r = Generated(generateCall.type, generateCall.alert)
    BY <1>1, GeneratedIsReport DEF DialogsInv, GenerateInv
  <2>2. reports' = Append(reports, r)
    BY <1>2, <1>5, <2>1 DEF GenerateSettled
  <2>3. reports'[i] = reports[i]
    BY <1>1, <2>2, AppendProperties DEF ReportsInv
  <2>4. QED
    BY <2>3
<1>6. CASE UpdateSettled
  <2>1. PICK r \in Applied(reports[updateCall.report], updateCall.action) :
          reports' = [reports EXCEPT ![updateCall.report] = r]
    BY <1>2, <1>6 DEF UpdateSettled
  <2>2. i = updateCall.report /\ reports'[i] = r
    BY <1>1, <2>1
  <2>3. updateCall.action \in {"approve", "submit"}
    BY <1>1, <1>6 DEF UpdateSettled, DialogsInv, UpdateInv
  <2>4. CASE updateCall.action = "approve"
    <3>1. r = [reports[i] EXCEPT !.status = "approved"]
      BY <2>1, <2>2, <2>4 DEF Applied
    <3>2. QED
      BY <1>1, <2>2, <3>1 DEF Report
  <2>5. CASE updateCall.action = "submit"
    BY <1>1, <2>2, <2>5 DEF DialogsInv, UpdateInv, Report, Filed, Unapproved, ReportStatuses
  <2>6. QED
    BY <2>3, <2>4, <2>5
<1>7. QED
  BY <1>3, <1>4, <1>5, <1>6

\* However far behind the copy on screen is, what this console files was approved before: the
\* button is offered on an approved copy alone, and no report loses its approval.
THEOREM ApprovedTheorem == ReportingSpec => ApprovedBeforeFiled
BY FilingNeedsApproval, ReportingInvariant, PTL DEF ReportingSpec, ApprovedBeforeFiled

LEMMA StagesAddUp == ReportingInv => PipelineCounts
<1> SUFFICES ASSUME ReportingInv PROVE PipelineCounts
  OBVIOUS
<1> DEFINE Rows == DOMAIN ReportsShown
           In(stage) == {i \in Rows : InStage(ReportsShown[i], stage)}
           D == In("draft")
           P == In("pending_approval")
           A == In("approved")
           S == In("submitted")
           All == {i \in Rows : ReportsShown[i].status # "failed"}
<1>1. /\ IsFiniteSet(Rows)
      /\ \A i \in Rows : ReportsShown[i] \in Report
  <2>1. Len(ReportsShown) \in Nat /\ Rows = 1..Len(ReportsShown)
    BY LenProperties DEF ReportingInv, ReportsInv
  <2>2. \A i \in 1..Len(ReportsShown) : ReportsShown[i] \in Report
    BY ElementOfSeq DEF ReportingInv, ReportsInv
  <2>3. QED
    BY <2>1, <2>2, PlacesCount
<1>2. IsFiniteSet(D) /\ IsFiniteSet(P) /\ IsFiniteSet(A) /\ IsFiniteSet(S)
  BY <1>1, FS_Subset
<1>3. /\ D \cap P = {} /\ (D \union P) \cap A = {} /\ ((D \union P) \union A) \cap S = {}
      /\ ((D \union P) \union A) \union S = All
  <2>1. \A i \in Rows :
          LET s == ReportsShown[i].status IN
          /\ s \in ReportStatuses
          /\ InStage(ReportsShown[i], "draft") <=> s = "draft"
          /\ InStage(ReportsShown[i], "pending_approval") <=> s = "pending_approval"
          /\ InStage(ReportsShown[i], "approved") <=> s = "approved"
          /\ InStage(ReportsShown[i], "submitted") <=> s \in Filed
    BY <1>1 DEF InStage, Report, Filed
  <2>2. QED
    BY <2>1 DEF ReportStatuses, Filed
<1>4. Cardinality(D) + Cardinality(P) + Cardinality(A) + Cardinality(S) = Cardinality(All)
  <2> HIDE DEF D, P, A, S, All
  <2>1. /\ IsFiniteSet(D \union P) /\ Cardinality(D \union P) = Cardinality(D) + Cardinality(P)
        /\ Cardinality(D) \in Nat /\ Cardinality(P) \in Nat
    BY <1>2, <1>3, DisjointSets
  <2>2. /\ IsFiniteSet((D \union P) \union A)
        /\ Cardinality((D \union P) \union A) = Cardinality(D \union P) + Cardinality(A)
        /\ Cardinality(A) \in Nat
    BY <1>2, <1>3, <2>1, DisjointSets
  <2>3. /\ Cardinality(((D \union P) \union A) \union S)
             = Cardinality((D \union P) \union A) + Cardinality(S)
        /\ Cardinality(S) \in Nat
    BY <1>2, <1>3, <2>2, DisjointSets
  <2>4. QED
    BY <1>3, <2>1, <2>2, <2>3
<1>5. QED
  BY <1>4 DEF PipelineCounts, Pipeline

LEMMA ReportingTypes == ReportingInv => ReportingTypeOK
<1> SUFFICES ASSUME ReportingInv PROVE ReportingTypeOK
  OBVIOUS
<1>1. \A i \in DOMAIN reports : reports[i].status \in ReportStatuses
  BY LenProperties, ElementOfSeq DEF ReportingInv, ReportsInv, Report
<1>2. wizard.step \in 0..3 /\ detail.report \in 0..Len(ReportsShown)
      /\ updateCall.report \in 0..Len(reports)
  BY DEF ReportingInv, DialogsInv, WizardInv, Wizards, DetailInv, UpdateInv
<1>3. QED
  BY <1>1, <1>2 DEF ReportingInv, ReportsInv, ReportingTypeOK

LEMMA ReportingTold ==
  ReportingSpec => []ReportingTypeOK /\ []ReportsFresh /\ []PipelineCounts
<1>1. ReportingInv => ReportsFresh
  BY DEF ReportingInv
<1>2. QED
  BY <1>1, ReportingInvariant, ReportingTypes, StagesAddUp, PTL

-----------------------------------------------------------------------------
(* Tasks                                                                   *)

Task == [done : BOOLEAN, due : Nat]
TaskCall == [id : Nat, done : BOOLEAN]
TaskListQuery ==
  [rows : Seq(Task), known : BOOLEAN, asked : BOOLEAN, stale : BOOLEAN, behind : BOOLEAN]

\* Types of what the server and its copy hold.  No task is ever removed, so that a copy is
\* never longer than the list.
TaskRowsInv ==
  /\ tasks \in Seq(Task) /\ Len(tasks) <= MaxTasks
  /\ taskQuery \in TaskListQuery /\ Len(TaskRows) <= Len(tasks)

\* Types of what the section holds.
TaskViewInv ==
  /\ taskView \in [filter : TaskFilters, form : BOOLEAN]
  /\ taskTime \in [now : Nat, list : Nat, badges : Nat]
  /\ taskTime.list <= taskTime.now /\ taskTime.badges <= taskTime.now
  /\ taskAdds \subseteq [due : Nat, last : BOOLEAN]

\* Calls and wishes are about tasks there are; a call about none is no call.
TaskCallsInv ==
  /\ taskCalls \in [1..MaxTaskCalls -> TaskCall]
  /\ \A n \in 1..MaxTaskCalls :
       /\ taskCalls[n].id \in {0} \union DOMAIN tasks
       /\ taskCalls[n].id = 0 => taskCalls[n] = NoTaskCall
  /\ taskWish \in [1..MaxTasks -> {"none", "completed", "active"}]

TasksInv == TaskRowsInv /\ TaskViewInv /\ TaskCallsInv

\* Why the last click wins: while a wish stands, every call under way for its task asks for
\* just that, and without a call the task is as wished.
Wished(i) == taskWish[i] = "completed"
TaskWishesInv ==
  \A i \in 1..MaxTasks : taskWish[i] # "none" =>
    /\ i \in DOMAIN tasks
    /\ \A n \in 1..MaxTaskCalls : taskCalls[n].id = i => taskCalls[n].done = Wished(i)
    /\ ~Pending(i) => tasks[i].done = Wished(i)

-----------------------------------------------------------------------------
(* Operators                                                               *)

\* What the steps of a query do to its rows.
LEMMA TaskQuerySteps ==
  ASSUME NEW q \in TaskListQuery
  PROVE  /\ FetchFailed(q) \in TaskListQuery /\ FetchFailed(q).rows = q.rows
         /\ Refetched(q) \in TaskListQuery /\ Refetched(q).rows = q.rows
         /\ Overtaken(q) \in TaskListQuery /\ Overtaken(q).rows = q.rows
         /\ \A p \in Mounted(q) : p \in TaskListQuery /\ p.rows = q.rows
         /\ \A rows \in Seq(Task) :
              AnsweredWith(rows) \in TaskListQuery /\ AnsweredWith(rows).rows = rows
BY DEF TaskListQuery, FetchFailed, Refetched, Overtaken, Mounted, AnsweredWith

LEMMA RowsAreKept ==
  ASSUME TasksInv, NEW q \in TaskListQuery, TaskRowsAre(q)
  PROVE  /\ taskQuery' = q
         /\ taskTime' \in [now : Nat, list : Nat, badges : Nat]
         /\ taskTime'.list <= taskTime'.now /\ taskTime'.badges <= taskTime'.now
BY DEF TasksInv, TaskViewInv, TaskRowsAre

LEMMA FilteredAreTasks ==
  ASSUME TasksInv
  PROVE  FilteredTasks \subseteq DOMAIN tasks /\ DOMAIN tasks \subseteq 1..MaxTasks
<1>1. DOMAIN TaskRows = 1..Len(TaskRows) /\ DOMAIN tasks = 1..Len(tasks)
  BY DEF TasksInv, TaskRowsInv, TaskListQuery
<1>2. Len(TaskRows) \in Nat /\ Len(tasks) \in Nat
  BY DEF TasksInv, TaskRowsInv, TaskListQuery
<1>3. QED
  BY <1>1, <1>2, TaskAssumption DEF TasksInv, TaskRowsInv, FilteredTasks

-----------------------------------------------------------------------------
(* Types                                                                   *)

LEMMA InitTasksInv == TasksInit => TasksInv /\ TaskWishesInv
<1> SUFFICES ASSUME TasksInit PROVE TasksInv /\ TaskWishesInv
  OBVIOUS
<1>1. PICK due \in 0..MaxTaskTime : tasks = <<[done |-> FALSE, due |-> due]>>
  BY DEF TasksInit
<1>2. due \in Nat /\ MaxTasks \in Nat /\ MaxTaskCalls \in Nat
  BY TaskAssumption
<1>3. tasks \in Seq(Task) /\ Len(tasks) = 1
  BY <1>1, <1>2 DEF Task
<1>4. taskQuery \in TaskListQuery /\ Len(TaskRows) = 0
  <2>1. << >> \in Seq(Task) /\ Len(<< >>) = 0
    OBVIOUS
  <2>2. QED
    BY <2>1 DEF TasksInit, TaskListQuery, NewQuery, TaskRows
<1>5. TaskRowsInv
  BY <1>2, <1>3, <1>4, TaskAssumption DEF TaskRowsInv
<1>6. TaskViewInv
  BY DEF TasksInit, TaskViewInv, TaskFilters
<1>7. /\ taskCalls \in [1..MaxTaskCalls -> TaskCall]
      /\ \A n \in 1..MaxTaskCalls : taskCalls[n] = NoTaskCall
      /\ taskWish \in [1..MaxTasks -> {"none", "completed", "active"}]
      /\ \A i \in 1..MaxTasks : taskWish[i] = "none"
  BY DEF TasksInit, NoTaskCall, NoWishes, TaskCall
<1>8. TaskCallsInv /\ TaskWishesInv
  BY <1>7 DEF TaskCallsInv, TaskWishesInv, NoTaskCall
<1>9. QED
  BY <1>5, <1>6, <1>8 DEF TasksInv

\* Steps that leave the tasks, the calls and the wishes alone.
LEMMA ViewStepKeeps ==
  ASSUME TasksInv, UNCHANGED <<tasks, taskCalls, taskWish>>,
         taskQuery' \in TaskListQuery, Len(TaskRows') <= Len(tasks), TaskViewInv'
  PROVE  TasksInv' /\ (TaskWishesInv => TaskWishesInv')
BY DEF TasksInv, TaskRowsInv, TaskCallsInv, TaskWishesInv, Pending, Wished

LEMMA TaskFetchKeeps ==
  ASSUME TasksInv, TasksAnswered \/ TasksFetchFailed
  PROVE  TasksInv' /\ (TaskWishesInv => TaskWishesInv')
<1>1. /\ tasks \in Seq(Task) /\ taskQuery \in TaskListQuery
      /\ Len(tasks) \in Nat /\ Len(taskQuery.rows) <= Len(tasks)
  BY DEF TasksInv, TaskRowsInv, TaskRows
<1>2. PICK q \in TaskListQuery : TaskRowsAre(q) /\ Len(q.rows) <= Len(tasks)
  <2>1. CASE TasksAnswered
    <3>1. AnsweredWith(tasks) \in TaskListQuery /\ AnsweredWith(tasks).rows = tasks
      BY <1>1, TaskQuerySteps
    <3>2. QED
      BY <1>1, <2>1, <3>1 DEF TasksAnswered
  <2>2. CASE TasksFetchFailed
    BY <1>1, <2>2, TaskQuerySteps DEF TasksFetchFailed
  <2>3. QED
    BY <2>1, <2>2
<1>3. UNCHANGED <<tasks, taskView, taskCalls, taskAdds, taskWish>>
  BY DEF TasksAnswered, TasksFetchFailed
<1>4. TaskViewInv'
  BY <1>2, <1>3, RowsAreKept DEF TasksInv, TaskViewInv
<1>5. taskQuery' = q
  BY <1>2, RowsAreKept
<1>6. QED
  BY <1>2, <1>3, <1>4, <1>5, ViewStepKeeps DEF TaskRows

LEMMA TaskScreenKeeps ==
  ASSUME TasksInv, TimePasses \/ FilterTasks \/ OpenTaskForm \/ AddTask \/ LeaveTasks
  PROVE  TasksInv' /\ (TaskWishesInv => TaskWishesInv')
<1>1. UNCHANGED <<tasks, taskCalls, taskWish>>
  BY DEF TimePasses, FilterTasks, OpenTaskForm, AddTask, LeaveTasks
<1>2. taskQuery \in TaskListQuery /\ Len(TaskRows) <= Len(tasks)
  BY DEF TasksInv, TaskRowsInv
<1>3. taskQuery' \in TaskListQuery /\ Len(TaskRows') <= Len(tasks)
  BY <1>2, TaskQuerySteps DEF TimePasses, FilterTasks, OpenTaskForm, AddTask, LeaveTasks, TaskRows
<1>4. /\ taskView \in [filter : TaskFilters, form : BOOLEAN]
      /\ taskTime \in [now : Nat, list : Nat, badges : Nat]
      /\ taskTime.list <= taskTime.now /\ taskTime.badges <= taskTime.now
      /\ taskAdds \subseteq [due : Nat, last : BOOLEAN]
      /\ {[a EXCEPT !.last = FALSE] : a \in taskAdds} \subseteq [due : Nat, last : BOOLEAN]
  BY DEF TasksInv, TaskViewInv
<1>5. /\ taskTime' \in [now : Nat, list : Nat, badges : Nat]
      /\ taskTime'.list <= taskTime'.now /\ taskTime'.badges <= taskTime'.now
  BY <1>4 DEF TimePasses, FilterTasks, OpenTaskForm, AddTask, LeaveTasks
<1>6. taskView' \in [filter : TaskFilters, form : BOOLEAN]
  <2>1. CASE FilterTasks
    <3>1. PICK f \in TaskFilters : taskView' = [taskView EXCEPT !.filter = f]
      BY <2>1 DEF FilterTasks
    <3>2. QED
      BY <1>4, <3>1
  <2>2. CASE OpenTaskForm
    BY <1>4, <2>2 DEF OpenTaskForm
  <2>3. CASE LeaveTasks
    BY <2>3 DEF LeaveTasks, TaskFilters
  <2>4. QED
    BY <1>4, <2>1, <2>2, <2>3 DEF TimePasses, AddTask
<1>7. taskAdds' \subseteq [due : Nat, last : BOOLEAN]
  <2>1. CASE AddTask
    <3>1. PICK due \in 0..MaxTaskTime :
            taskAdds' = {[a EXCEPT !.last = FALSE] : a \in taskAdds}
                          \union {[due |-> due, last |-> TRUE]}
      BY <2>1 DEF AddTask
    <3>2. due \in Nat
      BY TaskAssumption
    <3>3. [due |-> due, last |-> TRUE] \in [due : Nat, last : BOOLEAN]
      BY <3>2
    <3>4. QED
      BY <1>4, <3>1, <3>3
  <2>2. QED
    BY <1>4, <2>1 DEF TimePasses, FilterTasks, OpenTaskForm, LeaveTasks
<1>8. TaskViewInv'
  BY <1>5, <1>6, <1>7 DEF TaskViewInv
<1>9. QED
  BY <1>1, <1>3, <1>8, ViewStepKeeps

-----------------------------------------------------------------------------
(* Wishes                                                                  *)

LEMMA DoneOfOne ==
  ASSUME NEW s \in Seq(Task), NEW i \in DOMAIN s, NEW d \in BOOLEAN
  PROVE  LET t == [s EXCEPT ![i].done = d]
         IN  /\ t \in Seq(Task) /\ DOMAIN t = DOMAIN s /\ Len(t) = Len(s)
             /\ t[i].done = d
             /\ \A j \in DOMAIN s \ {i} : t[j] = s[j]
<1> DEFINE new == [s[i] EXCEPT !.done = d]
           t == [s EXCEPT ![i] = new]
<1>1. new \in Task /\ new.done = d
  <2>1. s[i] \in Task
    OBVIOUS
  <2>2. QED
    BY <2>1 DEF Task
<1> HIDE DEF new
<1>2. t \in Seq(Task) /\ DOMAIN t = DOMAIN s /\ Len(t) = Len(s)
  BY <1>1
<1>3. t[i] = new /\ \A j \in DOMAIN s \ {i} : t[j] = s[j]
  OBVIOUS
<1>4. QED
  BY <1>1, <1>2, <1>3 DEF new

LEMMA DoneElsewhereKeeps ==
  ASSUME TasksInv, TaskDoneElsewhere
  PROVE  TasksInv' /\ (TaskWishesInv => TaskWishesInv')
<1>1. PICK i \in DOMAIN tasks :
        /\ tasks' = [tasks EXCEPT ![i].done = TRUE]
        /\ taskWish' = [taskWish EXCEPT ![i] = "none"]
  BY DEF TaskDoneElsewhere
<1>2. UNCHANGED <<taskView, taskTime, taskCalls, taskAdds>>
  BY DEF TaskDoneElsewhere
<1>3. tasks \in Seq(Task) /\ tasks[i] \in Task
  BY DEF TasksInv, TaskRowsInv
<1>4. tasks' \in Seq(Task) /\ DOMAIN tasks' = DOMAIN tasks /\ Len(tasks') = Len(tasks)
      /\ \A j \in DOMAIN tasks \ {i} : tasks'[j] = tasks[j]
  BY <1>1, <1>3, DoneOfOne
<1>5. taskQuery' \in TaskListQuery /\ TaskRows' = TaskRows
  BY TaskQuerySteps DEF TaskDoneElsewhere, TasksInv, TaskRowsInv, TaskRows
<1>6. TaskRowsInv'
  BY <1>4, <1>5 DEF TasksInv, TaskRowsInv
<1>7. TaskViewInv'
  BY <1>2 DEF TasksInv, TaskViewInv
<1>8. /\ taskWish' \in [1..MaxTasks -> {"none", "completed", "active"}]
      /\ \A j \in 1..MaxTasks : taskWish'[j] = IF j = i THEN "none" ELSE taskWish[j]
  BY <1>1 DEF TasksInv, TaskCallsInv
<1>9. TaskCallsInv'
  BY <1>2, <1>4, <1>8 DEF TasksInv, TaskCallsInv
<1>10. TaskWishesInv => TaskWishesInv'
  BY <1>2, <1>4, <1>8 DEF TaskWishesInv, Wished, Pending
<1>11. QED
  BY <1>6, <1>7, <1>9, <1>10 DEF TasksInv

\* A click joins calls that ask for the same, or ends the wish.
LEMMA ToggleKeeps ==
  ASSUME TasksInv, ToggleTask
  PROVE  TasksInv' /\ (TaskWishesInv => TaskWishesInv')
<1>1. PICK n \in DOMAIN taskCalls, i \in FilteredTasks :
        /\ taskCalls[n] = NoTaskCall
        /\ taskCalls' = [taskCalls EXCEPT ![n] = [id |-> i, done |-> ~TaskRows[i].done]]
        /\ taskWish' = [taskWish EXCEPT ![i] = IF Contrary(i, ~TaskRows[i].done) THEN "none"
                          ELSE IF ~TaskRows[i].done THEN "completed" ELSE "active"]
  BY DEF ToggleTask
<1> DEFINE asked == ~TaskRows[i].done
<1>2. UNCHANGED <<tasks, taskQuery, taskView, taskTime, taskAdds>>
  BY DEF ToggleTask
<1>3. /\ taskCalls \in [1..MaxTaskCalls -> TaskCall] /\ DOMAIN taskCalls = 1..MaxTaskCalls
      /\ taskWish \in [1..MaxTasks -> {"none", "completed", "active"}]
  BY DEF TasksInv, TaskCallsInv
<1>4. i \in DOMAIN tasks /\ i \in 1..MaxTasks /\ i \in Nat /\ i # 0
  BY FilteredAreTasks, TaskAssumption
<1>5. asked \in BOOLEAN
  OBVIOUS
<1> HIDE DEF asked
<1>6. /\ taskCalls' = [taskCalls EXCEPT ![n] = [id |-> i, done |-> asked]]
      /\ taskWish' = [taskWish EXCEPT ![i] = IF Contrary(i, asked) THEN "none"
                        ELSE IF asked THEN "completed" ELSE "active"]
  BY <1>1 DEF asked
<1>7. /\ taskCalls' \in [1..MaxTaskCalls -> TaskCall]
      /\ taskCalls'[n].id = i /\ taskCalls'[n].done = asked
      /\ \A m \in 1..MaxTaskCalls \ {n} : taskCalls'[m] = taskCalls[m]
  BY <1>3, <1>4, <1>5, <1>6 DEF TaskCall
<1>8. taskWish' \in [1..MaxTasks -> {"none", "completed", "active"}]
      /\ \A j \in 1..MaxTasks \ {i} : taskWish'[j] = taskWish[j]
  BY <1>3, <1>6
<1>9. TaskCallsInv'
  BY <1>2, <1>3, <1>4, <1>7, <1>8 DEF TasksInv, TaskCallsInv
<1>10. TasksInv'
  BY <1>2, <1>9 DEF TasksInv, TaskRowsInv, TaskViewInv, TaskRows
<1>11. ASSUME TaskWishesInv PROVE TaskWishesInv'
  <2> SUFFICES ASSUME NEW j \in 1..MaxTasks, taskWish'[j] # "none"
               PROVE  /\ j \in DOMAIN tasks'
                      /\ \A m \in 1..MaxTaskCalls :
                           taskCalls'[m].id = j => taskCalls'[m].done = Wished(j)'
                      /\ ~Pending(j)' => tasks'[j].done = Wished(j)'
    BY DEF TaskWishesInv
  <2>1. CASE j = i
    <3>1. ~Contrary(i, asked) /\ taskWish'[i] = IF asked THEN "completed" ELSE "active"
      BY <1>3, <1>4, <1>6, <2>1
    <3>2. Wished(i)' = asked
      BY <1>5, <3>1 DEF Wished
    <3>3. \A m \in 1..MaxTaskCalls : taskCalls[m].id = i => taskCalls[m].done = asked
      <4> SUFFICES ASSUME NEW m \in 1..MaxTaskCalls, taskCalls[m].id = i,
                          taskCalls[m].done # asked
                   PROVE  FALSE
        OBVIOUS
      <4>1. taskCalls[m] \in TaskCall
        BY <1>3
      <4>2. taskCalls[m].done = ~asked
        BY <1>5, <4>1 DEF TaskCall
      <4>3. taskCalls[m] = [id |-> i, done |-> ~asked]
        BY <4>1, <4>2 DEF TaskCall
      <4>4. QED
        BY <1>3, <3>1, <4>3 DEF Contrary
    <3>4. \A m \in 1..MaxTaskCalls : taskCalls'[m].id = i => taskCalls'[m].done = asked
      BY <1>7, <3>3
    <3>5. Pending(i)'
      BY <1>3, <1>7 DEF Pending
    <3>6. QED
      BY <1>2, <1>4, <2>1, <3>2, <3>4, <3>5
  <2>2. CASE j # i
    <3>1. Pending(j) => Pending(j)'
      <4>1. n \in 1..MaxTaskCalls /\ taskCalls[n].id # j
        BY <1>1, <1>3 DEF NoTaskCall
      <4>2. DOMAIN taskCalls' = 1..MaxTaskCalls
        BY <1>7
      <4>3. QED
        BY <1>3, <1>7, <4>1, <4>2 DEF Pending
    <3>2. taskWish'[j] = taskWish[j] /\ Wished(j)' = Wished(j)
      BY <1>8, <2>2 DEF Wished
    <3>3. \A m \in 1..MaxTaskCalls : taskCalls'[m].id = j => taskCalls[m].id = j /\ m # n
      BY <1>7, <2>2
    <3>4. QED
      BY <1>2, <1>7, <1>11, <3>1, <3>2, <3>3 DEF TaskWishesInv
  <2>3. QED
    BY <2>1, <2>2
<1>12. QED
  BY <1>10, <1>11

\* Whichever call is answered first, it asked for what the wish says.
LEMMA SettledKeeps ==
  ASSUME TasksInv, TaskCallSettled
  PROVE  TasksInv' /\ (TaskWishesInv => TaskWishesInv')
<1>1. PICK n \in DOMAIN taskCalls :
        /\ taskCalls[n] # NoTaskCall
        /\ taskCalls' = [taskCalls EXCEPT ![n] = NoTaskCall]
        /\ \/ /\ tasks' = [tasks EXCEPT ![taskCalls[n].id].done = taskCalls[n].done]
              /\ TaskRowsAre(Refetched(taskQuery))
              /\ UNCHANGED taskWish
           \/ /\ taskWish' = [taskWish EXCEPT ![taskCalls[n].id] = "none"]
              /\ UNCHANGED <<tasks, taskQuery, taskTime>>
  BY DEF TaskCallSettled
<1> DEFINE i == taskCalls[n].id
<1>2. UNCHANGED <<taskView, taskAdds>>
  BY DEF TaskCallSettled
<1>3. /\ taskCalls \in [1..MaxTaskCalls -> TaskCall] /\ DOMAIN taskCalls = 1..MaxTaskCalls
      /\ taskWish \in [1..MaxTasks -> {"none", "completed", "active"}]
      /\ tasks \in Seq(Task) /\ taskQuery \in TaskListQuery
  BY DEF TasksInv, TaskCallsInv, TaskRowsInv
<1>4. i \in DOMAIN tasks /\ i \in 1..MaxTasks /\ i # 0 /\ taskCalls[n].done \in BOOLEAN
  <2>1. i \in DOMAIN tasks
    BY <1>1, <1>3 DEF TasksInv, TaskCallsInv
  <2>2. QED
    BY <1>1, <1>3, <2>1, FilteredAreTasks, TaskAssumption DEF TaskCall
<1>5. /\ taskCalls' \in [1..MaxTaskCalls -> TaskCall] /\ DOMAIN taskCalls' = 1..MaxTaskCalls
      /\ taskCalls'[n] = NoTaskCall /\ taskCalls'[n].id = 0
      /\ \A m \in 1..MaxTaskCalls \ {n} : taskCalls'[m] = taskCalls[m]
  BY <1>1, <1>3 DEF TaskCall, NoTaskCall
\* The task of another call, and its wish, are not touched.
<1>6. \A j \in 1..MaxTasks \ {i} : Pending(j) => Pending(j)'
  BY <1>3, <1>5 DEF Pending
<1>7. CASE /\ tasks' = [tasks EXCEPT ![i].done = taskCalls[n].done]
           /\ TaskRowsAre(Refetched(taskQuery))
           /\ UNCHANGED taskWish
  <2>1. /\ tasks' \in Seq(Task) /\ DOMAIN tasks' = DOMAIN tasks /\ Len(tasks') = Len(tasks)
        /\ tasks'[i].done = taskCalls[n].done
        /\ \A j \in DOMAIN tasks \ {i} : tasks'[j] = tasks[j]
    BY <1>3, <1>4, <1>7, DoneOfOne
  <2>2. /\ taskQuery' \in TaskListQuery /\ TaskRows' = TaskRows
    BY <1>3, <1>7, TaskQuerySteps, RowsAreKept DEF TaskRows
  <2>3. TaskRowsInv'
    BY <2>1, <2>2 DEF TasksInv, TaskRowsInv
  <2>4. TaskViewInv'
    BY <1>2, <1>3, <1>7, TaskQuerySteps, RowsAreKept DEF TasksInv, TaskViewInv
  <2>5. TaskCallsInv'
    BY <1>3, <1>5, <1>7, <2>1 DEF TasksInv, TaskCallsInv
  <2>6. ASSUME TaskWishesInv PROVE TaskWishesInv'
    <3> SUFFICES ASSUME NEW j \in 1..MaxTasks, taskWish[j] # "none"
                 PROVE  /\ j \in DOMAIN tasks'
                        /\ \A m \in 1..MaxTaskCalls :
                             taskCalls'[m].id = j => taskCalls'[m].done = Wished(j)
                        /\ ~Pending(j)' => tasks'[j].done = Wished(j)
      BY <1>7 DEF TaskWishesInv, Wished
    <3>1. /\ j \in DOMAIN tasks
          /\ \A m \in 1..MaxTaskCalls : taskCalls[m].id = j => taskCalls[m].done = Wished(j)
          /\ ~Pending(j) => tasks[j].done = Wished(j)
      BY <2>6 DEF TaskWishesInv
    <3>2. \A m \in 1..MaxTaskCalls : taskCalls'[m].id = j => taskCalls'[m].done = Wished(j)
      BY <1>5, <3>1
    <3>3. ~Pending(j)' => tasks'[j].done = Wished(j)
      <4>1. CASE j = i
        BY <1>3, <2>1, <3>1, <4>1
      <4>2. CASE j # i
        BY <1>6, <2>1, <3>1, <4>2
      <4>3. QED
        BY <4>1, <4>2
    <3>4. QED
      BY <2>1, <3>1, <3>2, <3>3
  <2>7. QED
    BY <2>3, <2>4, <2>5, <2>6 DEF TasksInv
<1>8. CASE /\ taskWish' = [taskWish EXCEPT ![i] = "none"]
           /\ UNCHANGED <<tasks, taskQuery, taskTime>>
  <2>1. /\ taskWish' \in [1..MaxTasks -> {"none", "completed", "active"}]
        /\ taskWish'[i] = "none"
        /\ \A j \in 1..MaxTasks \ {i} : taskWish'[j] = taskWish[j]
    BY <1>3, <1>4, <1>8
  <2>2. TaskRowsInv' /\ TaskViewInv'
    BY <1>2, <1>8 DEF TasksInv, TaskRowsInv, TaskViewInv, TaskRows
  <2>3. TaskCallsInv'
    BY <1>3, <1>5, <1>8, <2>1 DEF TasksInv, TaskCallsInv
  <2>4. ASSUME TaskWishesInv PROVE TaskWishesInv'
    <3> SUFFICES ASSUME NEW j \in 1..MaxTasks, taskWish'[j] # "none"
                 PROVE  /\ j \in DOMAIN tasks'
                        /\ \A m \in 1..MaxTaskCalls :
                             taskCalls'[m].id = j => taskCalls'[m].done = Wished(j)'
                        /\ ~Pending(j)' => tasks'[j].done = Wished(j)'
      BY DEF TaskWishesInv
    <3>1. j # i /\ taskWish[j] # "none" /\ Wished(j)' = Wished(j)
      BY <2>1 DEF Wished
    <3>2. /\ j \in DOMAIN tasks
          /\ \A m \in 1..MaxTaskCalls : taskCalls[m].id = j => taskCalls[m].done = Wished(j)
          /\ ~Pending(j) => tasks[j].done = Wished(j)
      BY <2>4, <3>1 DEF TaskWishesInv
    <3>3. \A m \in 1..MaxTaskCalls : taskCalls'[m].id = j => taskCalls'[m].done = Wished(j)
      BY <1>5, <3>2
    <3>4. QED
      BY <1>6, <1>8, <3>1, <3>2, <3>3
  <2>5. QED
    BY <2>2, <2>3, <2>4 DEF TasksInv
<1>9. QED
  BY <1>1, <1>7, <1>8

LEMMA AddSettledKeeps ==
  ASSUME TasksInv, TaskAddSettled
  PROVE  TasksInv' /\ (TaskWishesInv => TaskWishesInv')
<1>1. PICK a \in taskAdds :
        /\ taskAdds' = taskAdds \ {a}
        /\ \/ /\ Len(tasks) < MaxTasks
              /\ tasks' = Append(tasks, [done |-> FALSE, due |-> a.due])
              /\ TaskRowsAre(Refetched(taskQuery))
              /\ taskView' = [taskView EXCEPT !.form = @ /\ ~a.last]
           \/ UNCHANGED <<tasks, taskQuery, taskTime, taskView>>
  BY DEF TaskAddSettled
<1>2. UNCHANGED <<taskCalls, taskWish>>
  BY DEF TaskAddSettled
<1>3. /\ tasks \in Seq(Task) /\ Len(tasks) \in Nat /\ taskQuery \in TaskListQuery
      /\ Len(TaskRows) \in Nat /\ Len(TaskRows) <= Len(tasks)
      /\ taskAdds \subseteq [due : Nat, last : BOOLEAN] /\ MaxTasks \in Nat
      /\ taskView \in [filter : TaskFilters, form : BOOLEAN]
  BY TaskAssumption DEF TasksInv, TaskRowsInv, TaskViewInv, TaskListQuery, TaskRows
<1>4. CASE UNCHANGED <<tasks, taskQuery, taskTime, taskView>>
  <2>1. TaskViewInv'
    BY <1>1, <1>4 DEF TasksInv, TaskViewInv
  <2>2. QED
    BY <1>2, <1>3, <1>4, <2>1, ViewStepKeeps DEF TaskRows
<1>5. CASE /\ Len(tasks) < MaxTasks
           /\ tasks' = Append(tasks, [done |-> FALSE, due |-> a.due])
           /\ TaskRowsAre(Refetched(taskQuery))
           /\ taskView' = [taskView EXCEPT !.form = @ /\ ~a.last]
  <2>1. [done |-> FALSE, due |-> a.due] \in Task
    BY <1>3 DEF Task
  <2>2. /\ tasks' \in Seq(Task) /\ Len(tasks') = Len(tasks) + 1
        /\ DOMAIN tasks \subseteq DOMAIN tasks'
        /\ \A j \in DOMAIN tasks : tasks'[j] = tasks[j]
    BY <1>3, <1>5, <2>1
  <2>3. taskQuery' \in TaskListQuery /\ TaskRows' = TaskRows
    BY <1>3, <1>5, TaskQuerySteps, RowsAreKept DEF TaskRows
  <2>4. TaskRowsInv'
    BY <1>3, <1>5, <2>2, <2>3 DEF TaskRowsInv
  <2>5. taskView' \in [filter : TaskFilters, form : BOOLEAN]
    <3>1. (taskView.form /\ ~a.last) \in BOOLEAN
      OBVIOUS
    <3>2. QED
      BY <1>3, <1>5, <3>1
  <2>6. TaskViewInv'
    BY <1>1, <1>3, <1>5, <2>5, TaskQuerySteps, RowsAreKept DEF TaskViewInv
  <2>7. TaskCallsInv'
    BY <1>2, <2>2 DEF TasksInv, TaskCallsInv
  <2>8. TaskWishesInv => TaskWishesInv'
    BY <1>2, <2>2 DEF TaskWishesInv, Wished, Pending
  <2>9. QED
    BY <2>4, <2>6, <2>7, <2>8 DEF TasksInv
<1>6. QED
  BY <1>1, <1>4, <1>5

LEMMA NextTasksInv ==
  /\ TasksInv /\ [TasksNext]_taskVars => TasksInv'
  /\ TasksInv /\ TaskWishesInv /\ [TasksNext]_taskVars => TaskWishesInv'
<1> SUFFICES ASSUME TasksInv, [TasksNext]_taskVars PROVE TasksInv' /\ (TaskWishesInv => TaskWishesInv')
  OBVIOUS
<1>1. CASE UNCHANGED taskVars
  <2>1. UNCHANGED <<tasks, taskCalls, taskWish, taskQuery, taskView, taskTime, taskAdds>>
    BY <1>1 DEF taskVars
  <2>2. TaskViewInv'
    BY <2>1 DEF TasksInv, TaskViewInv
  <2>3. QED
    BY <2>1, <2>2, ViewStepKeeps DEF TasksInv, TaskRowsInv, TaskRows
<1>2. CASE TasksNext
  BY <1>2, TaskFetchKeeps, TaskScreenKeeps, DoneElsewhereKeeps, ToggleKeeps, SettledKeeps,
     AddSettledKeeps DEF TasksNext
<1>3. QED
  BY <1>1, <1>2

-----------------------------------------------------------------------------
(* Badges                                                                  *)


LEMMA BadgesAgree == TasksInv => TaskBadgesAgree
<1> SUFFICES ASSUME TasksInv PROVE TaskBadgesAgree
  OBVIOUS
<1> DEFINE Rows == DOMAIN TaskRows
           Active == {i \in Rows : ~TaskRows[i].done /\ TaskRows[i].due >= taskTime.badges}
           Completed == {i \in Rows : TaskRows[i].done}
           Overdue == {i \in Rows : ~TaskRows[i].done /\ TaskRows[i].due < taskTime.badges}
<1>1. /\ TaskRows \in Seq(Task) /\ taskTime.badges \in Nat /\ taskView.filter \in TaskFilters
  BY DEF TasksInv, TaskRowsInv, TaskViewInv, TaskListQuery, TaskRows
<1>2. \A i \in Rows : TaskRows[i].due \in Nat /\ TaskRows[i].done \in BOOLEAN
  <2>1. \A i \in Rows : TaskRows[i] \in Task
    BY <1>1
  <2>2. QED
    BY <2>1 DEF Task
<1>3. Rows = 1..Len(TaskRows) /\ IsFiniteSet(Rows) /\ Cardinality(Rows) = Len(TaskRows)
  <2>1. Rows = 1..Len(TaskRows) /\ Len(TaskRows) \in Nat
    BY <1>1
  <2>2. IsFiniteSet(1..Len(TaskRows)) /\ Cardinality(1..Len(TaskRows)) = Len(TaskRows)
    <3>1. /\ IsFiniteSet(1..Len(TaskRows))
          /\ Cardinality(1..Len(TaskRows)) =
               IF 1 > Len(TaskRows) THEN 0 ELSE Len(TaskRows) - 1 + 1
      BY <2>1, FS_Interval
    <3>2. QED
      BY <2>1, <3>1
  <2>3. QED
    BY <2>1, <2>2
<1>4. /\ TaskCounts.all = Cardinality(Rows)
      /\ TaskCounts.active = Cardinality(Active)
      /\ TaskCounts.completed = Cardinality(Completed)
      /\ TaskCounts.overdue = Cardinality(Overdue)
  BY <1>3 DEF TaskCounts, CountTasks
<1>5. /\ Active \cap Completed = {}
      /\ (Active \union Completed) \cap Overdue = {}
      /\ (Active \union Completed) \union Overdue = Rows
  <2>1. \A i \in Rows : TaskRows[i].due >= taskTime.badges <=> ~(TaskRows[i].due < taskTime.badges)
    BY <1>1, <1>2
  <2>2. QED
    BY <2>1, Zenon
<1>6. IsFiniteSet(Active) /\ IsFiniteSet(Completed) /\ IsFiniteSet(Overdue)
  BY <1>3, FS_Subset
<1>7. Cardinality(Active) + Cardinality(Completed) + Cardinality(Overdue) = Cardinality(Rows)
  <2>1. /\ IsFiniteSet(Active \union Completed)
        /\ Cardinality(Active \union Completed) = Cardinality(Active) + Cardinality(Completed)
    BY <1>5, <1>6, DisjointSets
  <2>2. Cardinality((Active \union Completed) \union Overdue)
          = Cardinality(Active \union Completed) + Cardinality(Overdue)
    BY <1>5, <1>6, <2>1, DisjointSets
  <2>3. QED
    BY <1>5, <2>1, <2>2
\* At the same time, the list is the set its badge counts.
<1>8. ASSUME taskTime.list = taskTime.badges
      PROVE  Cardinality(FilteredTasks) = TaskCounts[taskView.filter]
  <2> HIDE DEF Rows, Active, Completed, Overdue
  <2>1. CASE taskView.filter = "all"
    BY <1>4, <2>1 DEF FilteredTasks, Rows
  <2>2. CASE taskView.filter = "active"
    <3>1. FilteredTasks = Active
      BY <1>1, <1>2, <1>8, <2>2 DEF FilteredTasks, EffectiveStatus, Active, Rows
    <3>2. QED
      BY <1>4, <2>2, <3>1
  <2>3. CASE taskView.filter = "completed"
    <3>1. FilteredTasks = Completed
      BY <1>1, <1>2, <2>3 DEF FilteredTasks, EffectiveStatus, Completed, Rows
    <3>2. QED
      BY <1>4, <2>3, <3>1
  <2>4. CASE taskView.filter = "overdue"
    <3>1. FilteredTasks = Overdue
      BY <1>1, <1>2, <1>8, <2>4 DEF FilteredTasks, EffectiveStatus, Overdue, Rows
    <3>2. QED
      BY <1>4, <2>4, <3>1
  <2>5. QED
    BY <1>1, <2>1, <2>2, <2>3, <2>4 DEF TaskFilters
<1>9. QED
  BY <1>4, <1>7, <1>8 DEF TaskBadgesAgree

-----------------------------------------------------------------------------
(* Theorems                                                                *)

\* The variables stay of their types, and calls are about tasks there are.
THEOREM TasksTypes == TasksSpec => []TasksTypeOK
<1>1. TasksInv => TasksTypeOK
  BY DEF TasksInv, TaskRowsInv, TaskViewInv, TaskCallsInv, TasksTypeOK, QueryOK, TaskListQuery
<1>2. QED
  BY <1>1, InitTasksInv, NextTasksInv, PTL DEF TasksSpec

\* However many clicks are under way and in whatever order their answers come, a task ends
\* as it was last asked to be, unless something contrary was under way then.
THEOREM LastClickTheorem == TasksSpec => []LastClickWins
<1>1. TasksInv /\ TaskWishesInv => LastClickWins
  BY FilteredAreTasks DEF TaskWishesInv, LastClickWins, Wished
<1>2. QED
  BY <1>1, InitTasksInv, NextTasksInv, PTL DEF TasksSpec

\* The three badges add up to the first, and the filtered list has as many rows as its badge
\* says if both were computed at the same time, for lists of any length.
THEOREM BadgesTheorem == TasksSpec => []TaskBadgesAgree
BY BadgesAgree, InitTasksInv, NextTasksInv, PTL DEF TasksSpec

-----------------------------------------------------------------------------
(* The composition                                                         *)

\* A step of one section leaves the variables of the others alone, so that what a section does
\* in Casework it could do on its own.
LEMMA CaseworkClients == CaseworkSpec => ClientsSpec
<1>1. CaseworkInit => ClientsInit
  BY DEF CaseworkInit
<1>2. [CaseworkNext]_caseworkVars => [ClientsNext]_clientVars
  BY DEF CaseworkNext, caseworkVars
<1>3. QED
  BY <1>1, <1>2, PTL DEF CaseworkSpec, ClientsSpec

LEMMA CaseworkCases == CaseworkSpec => CasesSpec
<1>1. CaseworkInit => CasesInit
  BY DEF CaseworkInit
<1>2. [CaseworkNext]_caseworkVars => [CasesNext]_caseVars
  BY DEF CaseworkNext, caseworkVars
<1>3. QED
  BY <1>1, <1>2, PTL DEF CaseworkSpec, CasesSpec

LEMMA CaseworkTasks == CaseworkSpec => TasksSpec
<1>1. CaseworkInit => TasksInit
  BY DEF CaseworkInit
<1>2. [CaseworkNext]_caseworkVars => [TasksNext]_taskVars
  BY DEF CaseworkNext, caseworkVars
<1>3. QED
  BY <1>1, <1>2, PTL DEF CaseworkSpec, TasksSpec

LEMMA CaseworkReporting == CaseworkSpec => ReportingSpec
<1>1. CaseworkInit => ReportingInit
  BY DEF CaseworkInit
<1>2. [CaseworkNext]_caseworkVars => [ReportingNext]_reportVars
  BY DEF CaseworkNext, caseworkVars
<1>3. QED
  BY <1>1, <1>2, PTL DEF CaseworkSpec, ReportingSpec

\* In no section does a click, an answer or a change made elsewhere leave a selection, a page or
\* a call that is about a record there is none of.
THEOREM CaseworkTypes == CaseworkSpec => []CaseworkTypeOK
<1>1. ClientsTypeOK /\ CasesTypeOK /\ TasksTypeOK /\ ReportingTypeOK => CaseworkTypeOK
  BY DEF CaseworkTypeOK
<1>2. QED
  BY <1>1, CaseworkClients, CaseworkCases, CaseworkTasks, CaseworkReporting,
     ClientsShown, CasesShown, TasksTypes, ReportingTold, PTL

\* Cases and reports on screen are the server's once their answers are in, unless somebody
\* elsewhere has written since.
THEOREM CaseworkFreshTheorem == CaseworkSpec => []CaseworkFresh
<1>1. CasesFresh /\ ReportsFresh => CaseworkFresh
  BY DEF CaseworkFresh
<1>2. QED
  BY <1>1, CaseworkCases, CaseworkReporting, CasesShown, ReportingTold, PTL

\* Every client is under one filter and one tile, every report in one stage, and no step of a
\* case is ticked that was not done.
THEOREM CaseworkToldTheorem == CaseworkSpec => []CaseworkTold
<1>1. FiltersPartition /\ PipelineCounts /\ ProgressNotAhead => CaseworkTold
  BY DEF CaseworkTold
<1>2. QED
  BY <1>1, CaseworkClients, CaseworkReporting, ClientsShown, ReportingTold, PTL

\* The last click on a task decides, and every task is under one badge, whichever
\* section is on screen.
THEOREM CaseworkKeepsTasks == CaseworkSpec => []LastClickWins /\ []TaskBadgesAgree
BY CaseworkTasks, LastClickTheorem, BadgesTheorem, PTL

\* Only an SMR is linked to an alert, whichever section is on screen.
THEOREM CaseworkLinks == CaseworkSpec => []OnlySmrLinked
BY CaseworkReporting, OnlySmrTheorem, PTL

\* A second case is started, or a closed one reopened, only by a click on a copy that was behind.
THEOREM StaleClicksTheorem == CaseworkSpec => StaleClicksLimited
BY CaseworkClients, CaseworkCases, SecondCaseLemma, ReopeningLemma, PTL DEF StaleClicksLimited

\* No filter, number or arrow leads past the last page of cases.
THEOREM ClicksTheorem == CaseworkSpec => NoClickPastTheEnd
BY CaseworkCases, ClicksLemma, PTL

\* What the console files has been approved.
THEOREM CaseworkApproval == CaseworkSpec => ApprovedBeforeFiled
BY CaseworkReporting, ApprovedTheorem, PTL
=============================================================================
