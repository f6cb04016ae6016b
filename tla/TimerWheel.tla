----------------------------- MODULE TimerWheel -----------------------------
(***************************************************************************)
(* core.TimerWheel (internal/core/timerwheel.go): functions to be called   *)
(* at a deadline, one for each key, and a goroutine, Run, that looks for   *)
(* them whenever a ticker ticks.  The mutex guards the map of tasks only:  *)
(* Run collects what is due under it and calls it afterwards, while other  *)
(* goroutines schedule and cancel.                                         *)
(*                                                                         *)
(* Tasks are numbered as they are scheduled; a number stands for fn.       *)
(***************************************************************************)
EXTENDS Integers, Sequences

CONSTANTS
    Key,      \* the keys of tasks
    Delay,    \* the delays callers ask for
    MaxTime,  \* bound of the model: the clock
    MaxTasks  \* bound of the model: calls of Schedule

ASSUME WheelAssumption ==
    /\ Delay \subseteq Nat /\ MaxTime \in Nat /\ MaxTasks \in Nat

VARIABLES
    clock,      \* time.Now()
    tasks,      \* tw.tasks: the task of each key, or NoTask
    deadline,   \* the deadline of each task, in the order of scheduling
    tick,       \* ticker.C holds a tick
    wheel,      \* Run: "select", "lock", "call" or "returned"
    asOf,       \* fireExpired: the time it looks for
    due,        \* fireExpired: the tasks it has collected and not called
    stopCh,     \* tw.stopCh is closed
    called,     \* history: the tasks called, in order
    withdrawn   \* history: the tasks cancelled or replaced in the map

wheelVars ==
    <<clock, tasks, deadline, tick, wheel, asOf, due, stopCh, called, withdrawn>>

NoTask == 0

\* NewTimerWheel, with Run about to wait.
WheelInit ==
    /\ clock = 0
    /\ tasks = [k \in Key |-> NoTask] /\ deadline = << >>
    /\ tick = FALSE /\ wheel = "select" /\ asOf = 0 /\ due = {}
    /\ stopCh = FALSE
    /\ called = << >> /\ withdrawn = {}

Task == 1 .. Len(deadline)
Held == {tasks[k] : k \in Key} \ {NoTask}
Called == {called[i] : i \in 1 .. Len(called)}

-----------------------------------------------------------------------------
(* The callers *)

\* A task with the key of another one takes its place.
Schedule ==
    /\ Len(deadline) < MaxTasks
    /\ \E k \in Key, d \in Delay :
         /\ deadline' = Append(deadline, clock + d)
         /\ tasks' = [tasks EXCEPT ![k] = Len(deadline) + 1]
         /\ withdrawn' = withdrawn \cup ({tasks[k]} \ {NoTask})
    /\ UNCHANGED <<clock, tick, wheel, asOf, due, stopCh, called>>

\* To cancel a task that Run has collected already changes nothing.
Cancel ==
    /\ \E k \in Key :
         /\ tasks[k] # NoTask
         /\ tasks' = [tasks EXCEPT ![k] = NoTask]
         /\ withdrawn' = withdrawn \cup {tasks[k]}
    /\ UNCHANGED <<clock, deadline, tick, wheel, asOf, due, stopCh, called>>

\* A second Stop would panic.
Stop ==
    /\ ~stopCh
    /\ stopCh' = TRUE
    /\ UNCHANGED <<clock, tasks, deadline, tick, wheel, asOf, due, called, withdrawn>>

-----------------------------------------------------------------------------
(* Run *)

\* The select, and the first line of fireExpired.
RunTakesTick ==
    /\ wheel = "select" /\ tick
    /\ tick' = FALSE /\ wheel' = "lock" /\ asOf' = clock
    /\ UNCHANGED <<clock, tasks, deadline, due, stopCh, called, withdrawn>>

RunStops ==
    /\ wheel = "select" /\ stopCh
    /\ wheel' = "returned"
    /\ UNCHANGED <<clock, tasks, deadline, tick, asOf, due, stopCh, called, withdrawn>>

DueKeys == {k \in Key : tasks[k] # NoTask /\ deadline[tasks[k]] <= asOf}

\* Mutants: what is collected stays in the map; Run returns when it has found
\* nothing.
MutKeepsTasks ==
    /\ wheel = "lock"
    /\ due' = {tasks[k] : k \in DueKeys}
    /\ wheel' = "call"
    /\ UNCHANGED <<clock, tasks, deadline, tick, asOf, stopCh, called, withdrawn>>
MutReturnsWhenIdle ==
    /\ wheel = "lock"
    /\ due' = {tasks[k] : k \in DueKeys}
    /\ tasks' = [k \in Key |-> IF k \in DueKeys THEN NoTask ELSE tasks[k]]
    /\ wheel' = IF DueKeys = {} THEN "returned" ELSE "call"
    /\ UNCHANGED <<clock, deadline, tick, asOf, stopCh, called, withdrawn>>

\* fireExpired, under the lock.
CollectsDue ==
    /\ wheel = "lock"
    /\ due' = {tasks[k] : k \in DueKeys}
    /\ tasks' = [k \in Key |-> IF k \in DueKeys THEN NoTask ELSE tasks[k]]
    /\ wheel' = "call"
    /\ UNCHANGED <<clock, deadline, tick, asOf, stopCh, called, withdrawn>>

\* The order of a map is any order.
CallsOne ==
    /\ wheel = "call"
    /\ \E t \in due : called' = Append(called, t) /\ due' = due \ {t}
    /\ UNCHANGED <<clock, tasks, deadline, tick, wheel, asOf, stopCh, withdrawn>>

CallsNoMore ==
    /\ wheel = "call" /\ due = {}
    /\ wheel' = "select"
    /\ UNCHANGED <<clock, tasks, deadline, tick, asOf, due, stopCh, called, withdrawn>>

RunSteps == RunTakesTick \/ RunStops \/ CollectsDue \/ CallsOne \/ CallsNoMore

-----------------------------------------------------------------------------
(* External: the clock and the ticker, whose channel holds one tick. *)

ClockAdvances ==
    /\ clock < MaxTime
    /\ clock' = clock + 1
    /\ UNCHANGED <<tasks, deadline, tick, wheel, asOf, due, stopCh, called, withdrawn>>

Ticks ==
    /\ ~tick /\ wheel # "returned"
    /\ tick' = TRUE
    /\ UNCHANGED <<clock, tasks, deadline, wheel, asOf, due, stopCh, called, withdrawn>>

WheelNext ==
    \/ Schedule \/ Cancel \/ Stop
    \/ RunSteps
    \/ ClockAdvances \/ Ticks

\* The ticker goes on ticking, and Run takes its steps; nobody has to call.
WheelFairness == WF_wheelVars(Ticks) /\ WF_wheelVars(RunSteps)

-----------------------------------------------------------------------------
(* Properties *)

\* Every task scheduled is in exactly one place: in the map, collected, called
\* or withdrawn.  So none is called twice, none is called that was cancelled or
\* replaced in the map, and none is lost between the map and its call while
\* other goroutines schedule and cancel; and none is called before its deadline
\* (timerwheel.go:29-39, 58-72).
TasksAccounted ==
    /\ Held \cup due \cup Called \cup withdrawn = Task
    /\ Held \cap (due \cup Called \cup withdrawn) = {}
    /\ due \cap (Called \cup withdrawn) = {}
    /\ Called \cap withdrawn = {}
    /\ \A i, j \in 1 .. Len(called) : called[i] = called[j] => i = j
    /\ \A t \in due \cup Called : deadline[t] <= clock

\* A task whose deadline has come is called or withdrawn, unless Stop is called
\* (timerwheel.go:41-52): a tick taken, an empty round or a task scheduled
\* meanwhile does not make Run forget it.
DueTasksFire ==
    \A t \in 1 .. MaxTasks :
        (t \in Held \cup due /\ deadline[t] <= clock)
            ~> (t \in Called \cup withdrawn \/ stopCh)
=============================================================================
