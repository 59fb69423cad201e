\* One client with two cases; two investigations one to a page; two tasks with a due date
\* that passes; two reports, of a type that is filed on an alert and of one that is not.
\* Every bound ends the work that is left to do: a section may come to rest.
CONSTANTS
  MaxClients = 1
  MaxCasesEach = 2
  MaxCases = 2
  MaxCaseCalls = 2
  CasePageSize = 1
  MaxTasks = 2
  MaxTaskTime = 1
  MaxTaskCalls = 2
  MaxReports = 2
  ReportTypes = {"SMR", "TTR"}
SPECIFICATION CaseworkSpec
INVARIANTS
  CaseworkTypeOK
  
  
  LastClickWins
  
  OnlySmrLinked
PROPERTIES
  
  NoClickPastTheEnd
  
CHECK_DEADLOCK FALSE
