---------------------------- MODULE Integrations ----------------------------
(***************************************************************************)
(* The API Integration tab of SettingsSection.tsx over useProviders and    *)
(* useUpdateProvider, and the ProviderService behind them.                 *)
(*                                                                         *)
(* A test of a connection waits 800 ms and then reports the provider as    *)
(* connected, whatever became of it meanwhile; timers of one length end in *)
(* the order they were started.                                            *)
(***************************************************************************)
EXTENDS Query, FiniteSets, SequencesExt

CONSTANTS
  Providers,       \* names of the integrations
  MaxProviderCalls \* bound on tests waiting and on updates under way

ASSUME ProvidersAssumption == "none" \notin Providers /\ MaxProviderCalls \in Nat

VARIABLES
  providers,     \* server: the status of each provider
  providerQuery, \* the query of the providers
  testing,       \* testingProvider
  tests,         \* the providers whose test waits, in the order of the clicks
  updates,       \* the updates under way
  wished,        \* for the properties: the status each provider was last clicked to
  crossed        \* for the properties: clicked while a test or update was under way,
                 \* refused, or changed by another officer

providerVars == <<providers, providerQuery, testing, tests, updates, wished, crossed>>

ProviderStatuses == {"connected", "disconnected"}

(* The cards, and the badge over them.                                     *)
ProviderRows == providerQuery.rows
ConnectedBadge == Cardinality({p \in DOMAIN ProviderRows : ProviderRows[p] = "connected"})

UnderWay(p) == p \in Range(tests) \/ \E n \in DOMAIN updates : updates[n].name = p

(* Clicked to a status, from a clean slate if nothing is under way.        *)
Clicked(p, status) ==
  /\ wished' = [wished EXCEPT ![p] = status]
  /\ crossed' = [crossed EXCEPT ![p] = UnderWay(p)]
-----------------------------------------------------------------------------
ProvidersAnswered ==
  /\ providerQuery.asked
  /\ providerQuery' = AnsweredWith(providers)
  /\ UNCHANGED <<providers, testing, tests, updates, wished, crossed>>

ProvidersFetchFailed ==
  /\ providerQuery.asked
  /\ providerQuery' = FetchFailed(providerQuery)
  /\ UNCHANGED <<providers, testing, tests, updates, wished, crossed>>

ProviderSetElsewhere ==
  /\ \E p \in Providers, s \in ProviderStatuses :
       /\ providers[p] # s
       /\ providers' = [providers EXCEPT ![p] = s]
       /\ crossed' = [crossed EXCEPT ![p] = TRUE]
  /\ providerQuery' = Overtaken(providerQuery)
  /\ UNCHANGED <<testing, tests, updates, wished>>

(* handleTestConnection: the button is disabled for the provider that is   *)
(* shown as being tested, the last one clicked.                            *)
TestConnection ==
  /\ Len(tests) < MaxProviderCalls
  /\ \E p \in DOMAIN ProviderRows :
       /\ testing # p
       /\ testing' = p
       /\ tests' = Append(tests, p)
       /\ Clicked(p, "connected")
  /\ UNCHANGED <<providers, providerQuery, updates>>

\* Bug: the provider shown as being tested is the one reported.
TestWaitedForShown ==
  /\ tests # << >>
  /\ Len(updates) < MaxProviderCalls
  /\ updates' = Append(updates, [name |-> IF testing = "none" THEN Head(tests) ELSE testing,
                                 status |-> "connected"])
  /\ tests' = Tail(tests)
  /\ testing' = "none"
  /\ UNCHANGED <<providers, providerQuery, wished, crossed>>

(* Its timer ends, also when the tab has been left.                        *)
TestWaited ==
  /\ tests # << >>
  /\ Len(updates) < MaxProviderCalls
  /\ updates' = Append(updates, [name |-> Head(tests), status |-> "connected"])
  /\ tests' = Tail(tests)
  /\ testing' = "none"
  /\ UNCHANGED <<providers, providerQuery, wished, crossed>>

(* handleToggleConnection: the opposite of what is shown.                  *)
ToggleConnection ==
  /\ Len(updates) < MaxProviderCalls
  /\ \E p \in DOMAIN ProviderRows :
       LET nextStatus == IF ProviderRows[p] = "connected" THEN "disconnected" ELSE "connected"
       IN  /\ updates' = Append(updates, [name |-> p, status |-> nextStatus])
           /\ Clicked(p, nextStatus)
  /\ UNCHANGED <<providers, providerQuery, testing, tests>>

(* An update reaches the server, not always in order, or is refused.       *)
UpdateSettled ==
  /\ \E n \in DOMAIN updates :
       LET u == updates[n]
       IN  /\ updates' = RemoveAt(updates, n)
           /\ \/ /\ providers' = [providers EXCEPT ![u.name] = u.status]
                 /\ providerQuery' = Refetched(providerQuery)
                 /\ UNCHANGED crossed
              \/ /\ crossed' = [crossed EXCEPT ![u.name] = TRUE]
                 /\ UNCHANGED <<providers, providerQuery>>
  /\ UNCHANGED <<testing, tests, wished>>

LeaveIntegrations ==
  /\ testing' = "none"
  /\ tests' = << >>      \* what they send from now on is an officer elsewhere
  /\ crossed' = [p \in Providers |-> crossed[p] \/ p \in Range(tests)]
  /\ providerQuery' \in Mounted(providerQuery)
  /\ UNCHANGED <<providers, updates, wished>>
-----------------------------------------------------------------------------
IntegrationsInit ==
  /\ providers \in [Providers -> ProviderStatuses]
  /\ providerQuery = NewQuery(<< >>)
  /\ testing = "none"
  /\ tests = << >>
  /\ updates = << >>
  /\ wished = providers
  /\ crossed = [p \in Providers |-> FALSE]

IntegrationsNext ==
  \/ ProvidersAnswered
  \/ ProvidersFetchFailed
  \/ ProviderSetElsewhere
  \/ TestConnection
  \/ TestWaited
  \/ ToggleConnection
  \/ UpdateSettled
  \/ LeaveIntegrations

IntegrationsSpec == IntegrationsInit /\ [][IntegrationsNext]_providerVars
-----------------------------------------------------------------------------
(* Properties                                                              *)

IntegrationsTypeOK ==
  /\ providers \in [Providers -> ProviderStatuses]
  /\ testing \in Providers \union {"none"}
  /\ tests \in Seq(Providers)
  /\ updates \in Seq([name : Providers, status : ProviderStatuses])
  /\ QueryOK(providerQuery)

(* The cards and the badge over them are the server's once every answer is *)
(* in, after updates that were answered in any order.                      *)
ProvidersFresh ==
  Settled(providerQuery) =>
    /\ ProviderRows = providers
    /\ ConnectedBadge = Cardinality({p \in Providers : providers[p] = "connected"})

(* What a provider was last clicked to is what it comes to, however often  *)
(* it was clicked on a copy that was behind: only a click while a test or  *)
(* an update of the same provider is under way may be undone by it.        *)
LastWishHolds ==
  \A p \in Providers : (~UnderWay(p) /\ ~crossed[p]) => providers[p] = wished[p]
=============================================================================
