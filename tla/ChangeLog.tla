------------------------------ MODULE ChangeLog ------------------------------
(***************************************************************************)
(* The change log of audit_changes.py, a ring of the latest entries in the *)
(* memory of the governance service, and the Audit Log tab of              *)
(* SettingsSection.tsx that shows it over useAuditChanges.                 *)
(*                                                                         *)
(* Entries are numbered as they are recorded.  The cutoff of the date      *)
(* filter is taken when the list is filtered, which is when the entries or *)
(* a filter change, not when time passes; the tile over the list has its   *)
(* own.                                                                    *)
(***************************************************************************)
EXTENDS Query, FiniteSets, SequencesExt

CONSTANTS
  Officers,    \* who changes things
  MaxEntries,  \* MAX_ENTRIES of the ring
  LogPageSize, \* pageSize the tab asks for
  MaxRecorded  \* bound on entries recorded

ASSUME ChangeLogAssumption ==
  /\ {MaxEntries, LogPageSize} \subseteq Nat \ {0}
  /\ MaxRecorded \in Nat
  /\ "all" \notin Officers

VARIABLES
  changeLog, \* server: the ring, newest entry first
  recorded,  \* entries ever recorded
  lost,      \* as many of them went with a restart
  logQuery,  \* the query of the tab
  logFilter, \* userFilter, whether dateFilter is 24h, and the cutoff in use
  days       \* entries older than a day

logVars == <<changeLog, recorded, lost, logQuery, logFilter, days>>

LogEntry == [n : Nat, user : Officers]

(* query and list_users.                                                   *)
LogPage == [entries |-> SubSeq(changeLog, 1, IF Len(changeLog) < LogPageSize THEN Len(changeLog) ELSE LogPageSize),
            users   |-> {e.user : e \in Range(changeLog)}]
NoLog == [entries |-> << >>, users |-> {}]

EveryEntry == [user |-> "all", narrow |-> FALSE, cutoff |-> 0]

(* filteredEntries, and the tile that counts the last 24 hours: which of   *)
(* the entries; their order stays.                                         *)
LogRows ==
  {e \in Range(logQuery.rows.entries) : logFilter.user \in {"all", e.user} /\ e.n > logFilter.cutoff}
LastDay == {e \in Range(logQuery.rows.entries) : e.n > days}

Narrowed(f) == [f EXCEPT !.cutoff = IF f.narrow THEN days ELSE 0]
-----------------------------------------------------------------------------
(* record_change: a change of a case or a task, of anyone.                 *)
Record ==
  /\ recorded < MaxRecorded
  /\ \E user \in Officers :
       LET longer == <<[n |-> recorded + 1, user |-> user]>> \o changeLog
       IN  changeLog' = SubSeq(longer, 1, IF Len(longer) < MaxEntries THEN Len(longer) ELSE MaxEntries)
  /\ recorded' = recorded + 1
  /\ logQuery' \in {Overtaken(logQuery), Refetched(logQuery)}
  /\ UNCHANGED <<lost, logFilter, days>>

(* The governance service is restarted.                                    *)
LogLost ==
  /\ changeLog # << >>
  /\ changeLog' = << >>
  /\ lost' = recorded
  /\ logQuery' = Overtaken(logQuery)
  /\ UNCHANGED <<recorded, logFilter, days>>

DayPasses ==
  /\ days < recorded
  /\ days' = days + 1
  /\ UNCHANGED <<changeLog, recorded, lost, logQuery, logFilter>>

LogAnswered ==
  /\ logQuery.asked
  /\ logQuery' = AnsweredWith(LogPage)
  /\ logFilter' = IF LogPage = logQuery.rows THEN logFilter ELSE Narrowed(logFilter)
  /\ UNCHANGED <<changeLog, recorded, lost, days>>

LogFetchFailed ==
  /\ logQuery.asked
  /\ logQuery' = FetchFailed(logQuery)
  /\ UNCHANGED <<changeLog, recorded, lost, logFilter, days>>

FilterLog ==
  /\ \/ \E u \in logQuery.rows.users \union {"all"} : logFilter' = Narrowed([logFilter EXCEPT !.user = u])
     \/ \E b \in BOOLEAN : logFilter' = Narrowed([logFilter EXCEPT !.narrow = b])
  /\ UNCHANGED <<changeLog, recorded, lost, logQuery, days>>

LeaveLog ==
  /\ logFilter' = EveryEntry
  /\ logQuery' \in Mounted(logQuery)
  /\ UNCHANGED <<changeLog, recorded, lost, days>>
-----------------------------------------------------------------------------
LogInit ==
  /\ changeLog = << >>
  /\ recorded = 0
  /\ lost = 0
  /\ logQuery = NewQuery(NoLog)
  /\ logFilter = EveryEntry
  /\ days = 0

LogNext ==
  \/ Record
  \/ LogLost
  \/ DayPasses
  \/ LogAnswered
  \/ LogFetchFailed
  \/ FilterLog
  \/ LeaveLog

LogSpec == LogInit /\ [][LogNext]_logVars
-----------------------------------------------------------------------------
(* Properties                                                              *)

LogTypeOK ==
  /\ changeLog \in Seq(LogEntry)
  /\ Len(changeLog) <= MaxEntries
  /\ QueryOK(logQuery)
  /\ logFilter.user \in Officers \union {"all"} /\ logFilter.cutoff \in Nat
  /\ days \in 0..recorded /\ lost \in 0..recorded

(* The tab shows the newest entries, newest first and without a gap, as    *)
(* many as a page and the ring hold, whatever the ring has dropped.        *)
NewestWithoutGap ==
  LET entries == logQuery.rows.entries
      length == CHOOSE n \in {recorded - lost, MaxEntries, LogPageSize} :
                  \A m \in {recorded - lost, MaxEntries, LogPageSize} : n <= m
  IN  Settled(logQuery) => /\ Len(entries) = length
                           /\ \A i \in 1..length : entries[i].n = recorded + 1 - i

(* The list narrowed to a day never lacks an entry the tile counts, though *)
(* the two are computed at different times.                                *)
ListHoldsLastDay ==
  logFilter.user = "all" => LastDay \subseteq LogRows
=============================================================================
