--------------------------- MODULE ComplianceTasks ---------------------------
(***************************************************************************)
(* ComplianceTaskManager.tsx over useTasks, useCreateTask, useUpdateTask   *)
(* and the TaskService of governance/tasks.py.                             *)
(*                                                                         *)
(* Whether a task is overdue is decided by the clock when the list is      *)
(* filtered, and again when the badges are counted; neither is computed    *)
(* again because time has passed.  Several updates may be under way.       *)
(***************************************************************************)
EXTENDS Query, FiniteSets, Sequences

CONSTANTS
  MaxTasks,    \* bound on tasks, those being created included
  MaxTaskTime, \* bound on the clock
  MaxTaskCalls \* bound on updates under way

ASSUME TaskAssumption ==
  /\ {MaxTasks, MaxTaskTime, MaxTaskCalls} \subseteq Nat
  /\ MaxTasks > 0

VARIABLES
  tasks,      \* server: the tasks, each with its due time and whether it is completed
  taskQuery,  \* the query of the list
  taskView,   \* the filter, and whether the form is open
  taskTime,   \* now, and when the list and the badges were computed
  taskCalls,  \* the updates under way, the same one twice where it was clicked twice
  taskAdds,   \* creations under way: the due time, and whether the form waits
  taskWish    \* what was last asked of each task, while nothing contrary was under way

taskVars == <<tasks, taskQuery, taskView, taskTime, taskCalls, taskAdds, taskWish>>

TaskFilters == {"all", "active", "completed", "overdue"}
TaskRows == taskQuery.rows

\* Bug: overdue already when it is due.
EffectiveStatusAtOnce(task, now) ==
  IF task.done THEN "completed" ELSE IF task.due <= now THEN "overdue" ELSE "active"

(* effectiveStatus                                                         *)
EffectiveStatus(task, now) ==
  IF task.done THEN "completed" ELSE IF task.due < now THEN "overdue" ELSE "active"

(* filteredTasks, as of when it was computed.                              *)
FilteredTasks ==
  {i \in DOMAIN TaskRows :
     taskView.filter \in {"all", EffectiveStatus(TaskRows[i], taskTime.list)}}

(* taskCounts: active counts from now on, overdue before now.              *)
CountTasks(Test(_)) == Cardinality({i \in DOMAIN TaskRows : Test(TaskRows[i])})
TaskCounts ==
  [all       |-> Len(TaskRows),
   active    |-> CountTasks(LAMBDA t : ~t.done /\ t.due >= taskTime.badges),
   completed |-> CountTasks(LAMBDA t : t.done),
   overdue   |-> CountTasks(LAMBDA t : ~t.done /\ t.due < taskTime.badges)]

NoWishes == [i \in 1..MaxTasks |-> "none"]
NoTaskCall == [id |-> 0, done |-> FALSE]
Pending(i) == \E n \in DOMAIN taskCalls : taskCalls[n].id = i
Contrary(i, done) == [id |-> i, done |-> ~done] \in {taskCalls[n] : n \in DOMAIN taskCalls}

(* The rows changed: list and badges are computed anew.                    *)
TaskRowsAre(query) ==
  /\ taskQuery' = query
  /\ taskTime' = IF query.rows = TaskRows THEN taskTime
                 ELSE [now |-> taskTime.now, list |-> taskTime.now, badges |-> taskTime.now]
-----------------------------------------------------------------------------
(* useTasks                                                                *)

TasksAnswered ==
  /\ taskQuery.asked
  /\ TaskRowsAre(AnsweredWith(tasks))
  /\ UNCHANGED <<tasks, taskView, taskCalls, taskAdds, taskWish>>

TasksFetchFailed ==
  /\ taskQuery.asked
  /\ TaskRowsAre(FetchFailed(taskQuery))
  /\ UNCHANGED <<tasks, taskView, taskCalls, taskAdds, taskWish>>

(* An officer elsewhere completes a task.                                  *)
TaskDoneElsewhere ==
  /\ \E i \in DOMAIN tasks :
       /\ ~tasks[i].done
       /\ tasks' = [tasks EXCEPT ![i].done = TRUE]
       /\ taskWish' = [taskWish EXCEPT ![i] = "none"]
  /\ taskQuery' = Overtaken(taskQuery)
  /\ UNCHANGED <<taskView, taskTime, taskCalls, taskAdds>>

TimePasses ==
  /\ taskTime.now < MaxTaskTime
  /\ taskTime' = [taskTime EXCEPT !.now = @ + 1]
  /\ UNCHANGED <<tasks, taskQuery, taskView, taskCalls, taskAdds, taskWish>>
-----------------------------------------------------------------------------
(* The list                                                                *)

FilterTasks ==
  /\ \E f \in TaskFilters \ {taskView.filter} : taskView' = [taskView EXCEPT !.filter = f]
  /\ taskTime' = [taskTime EXCEPT !.list = taskTime.now]
  /\ UNCHANGED <<tasks, taskQuery, taskCalls, taskAdds, taskWish>>

(* toggleTask: the box asks for the opposite of what the copy says.        *)
ToggleTask ==
  /\ \E n \in DOMAIN taskCalls, i \in FilteredTasks :
       LET done == ~TaskRows[i].done
       IN  /\ taskCalls[n] = NoTaskCall
           /\ taskCalls' = [taskCalls EXCEPT ![n] = [id |-> i, done |-> done]]
           /\ taskWish' = [taskWish EXCEPT ![i] =
                             IF Contrary(i, done) THEN "none"
                             ELSE IF done THEN "completed" ELSE "active"]
  /\ UNCHANGED <<tasks, taskQuery, taskView, taskTime, taskAdds>>

\* Bug: the server is asked to toggle the task.
TaskCallTogglesTask ==
  /\ \E n \in DOMAIN taskCalls :
       LET call == taskCalls[n]
       IN  /\ call # NoTaskCall
           /\ taskCalls' = [taskCalls EXCEPT ![n] = NoTaskCall]
           /\ \/ /\ tasks' = [tasks EXCEPT ![call.id].done = ~@]
                 /\ TaskRowsAre(Refetched(taskQuery))
                 /\ UNCHANGED taskWish
              \/ /\ taskWish' = [taskWish EXCEPT ![call.id] = "none"]
                 /\ UNCHANGED <<tasks, taskQuery, taskTime>>
  /\ UNCHANGED <<taskView, taskAdds>>

(* update_task; answers come in any order, and a refusal may be of a call  *)
(* other than the last.                                                    *)
TaskCallSettled ==
  /\ \E n \in DOMAIN taskCalls :
       LET call == taskCalls[n]
       IN  /\ call # NoTaskCall
           /\ taskCalls' = [taskCalls EXCEPT ![n] = NoTaskCall]
           /\ \/ /\ tasks' = [tasks EXCEPT ![call.id].done = call.done]
                 /\ TaskRowsAre(Refetched(taskQuery))
                 /\ UNCHANGED taskWish
              \/ /\ taskWish' = [taskWish EXCEPT ![call.id] = "none"]
                 /\ UNCHANGED <<tasks, taskQuery, taskTime>>
  /\ UNCHANGED <<taskView, taskAdds>>

(* Add Task and Cancel; what was typed stays.                              *)
OpenTaskForm ==
  /\ taskView' = [taskView EXCEPT !.form = ~@]
  /\ UNCHANGED <<tasks, taskQuery, taskTime, taskCalls, taskAdds, taskWish>>

(* handleAddTask with title and date filled in.  Save is not disabled      *)
(* while a request is under way.                                           *)
AddTask ==
  /\ taskView.form
  /\ Len(tasks) + Cardinality(taskAdds) < MaxTasks
  /\ \E due \in 0..MaxTaskTime :
       taskAdds' = {[a EXCEPT !.last = FALSE] : a \in taskAdds} \union {[due |-> due, last |-> TRUE]}
  /\ UNCHANGED <<tasks, taskQuery, taskView, taskTime, taskCalls, taskWish>>

(* The answer to the last request closes the form.                         *)
TaskAddSettled ==
  /\ \E a \in taskAdds :
       /\ taskAdds' = taskAdds \ {a}
       /\ \/ /\ Len(tasks) < MaxTasks
             /\ tasks' = Append(tasks, [done |-> FALSE, due |-> a.due])
             /\ TaskRowsAre(Refetched(taskQuery))
             /\ taskView' = [taskView EXCEPT !.form = @ /\ ~a.last]
          \/ UNCHANGED <<tasks, taskQuery, taskTime, taskView>>
  /\ UNCHANGED <<taskCalls, taskWish>>

(* Another tab is chosen, and this one again.                              *)
LeaveTasks ==
  /\ taskQuery' \in Mounted(taskQuery)
  /\ taskView' = [filter |-> "all", form |-> FALSE]
  /\ taskTime' = [now |-> taskTime.now, list |-> taskTime.now, badges |-> taskTime.now]
  /\ taskAdds' = {[a EXCEPT !.last = FALSE] : a \in taskAdds}
  /\ UNCHANGED <<tasks, taskCalls, taskWish>>
-----------------------------------------------------------------------------
TasksInit ==
  /\ tasks \in {<<[done |-> FALSE, due |-> due]>> : due \in 0..MaxTaskTime}
  /\ taskQuery = NewQuery(<< >>)
  /\ taskView = [filter |-> "all", form |-> FALSE]
  /\ taskTime = [now |-> 0, list |-> 0, badges |-> 0]
  /\ taskCalls = [n \in 1..MaxTaskCalls |-> NoTaskCall]
  /\ taskAdds = {}
  /\ taskWish = NoWishes

TasksNext ==
  \/ TasksAnswered
  \/ TasksFetchFailed
  \/ TaskDoneElsewhere
  \/ TimePasses
  \/ FilterTasks
  \/ ToggleTask
  \/ TaskCallSettled
  \/ OpenTaskForm
  \/ AddTask
  \/ TaskAddSettled
  \/ LeaveTasks

TasksSpec == TasksInit /\ [][TasksNext]_taskVars
-----------------------------------------------------------------------------
(* Properties                                                              *)

TasksTypeOK ==
  /\ QueryOK(taskQuery)
  /\ Len(TaskRows) <= Len(tasks)
  /\ \A n \in DOMAIN taskCalls : taskCalls[n].id \in {0} \union DOMAIN tasks
  /\ taskView.filter \in TaskFilters
  /\ taskTime.list <= taskTime.now /\ taskTime.badges <= taskTime.now

(* The last click wins: once nothing is under way for a task, it is as it  *)
(* was last asked to be, in whatever order the answers came, if nothing    *)
(* contrary was under way when it was asked.  A second click before the    *)
(* answer repeats the first and does not undo it.                          *)
LastClickWins ==
  \A i \in DOMAIN tasks :
    (~Pending(i) /\ taskWish[i] # "none") => tasks[i].done = (taskWish[i] = "completed")

(* Every task is counted under exactly one badge, and the list under a     *)
(* filter has as many rows as the badge of the filter says, if both were   *)
(* computed at the same time.                                              *)
TaskBadgesAgree ==
  /\ TaskCounts.active + TaskCounts.completed + TaskCounts.overdue = TaskCounts.all
  /\ taskTime.list = taskTime.badges => Cardinality(FilteredTasks) = TaskCounts[taskView.filter]
=============================================================================
