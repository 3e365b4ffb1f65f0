---------------------------- MODULE RuntimeHealth ----------------------------
(***************************************************************************)
(* The health of installed applications (apps/app-runtime-health.ts): a    *)
(* monitor that checks every installed application on each tick, the       *)
(* diagnostics and runtime-stop requests that write the same states, the   *)
(* table that keeps the results over restarts, and the proxy that forwards *)
(* only to applications believed to answer.                                *)
(*                                                                         *)
(* Every check reads the previous state before its fetch and writes the    *)
(* next one after it, so checks of one application overwrite one another.  *)
(* A result is persisted by a query that runs after the state was set.     *)
(* tick() is started with "void tick()": an exception in it is an          *)
(* unhandled rejection, which ends the process; systemd starts it again.   *)
(***************************************************************************)
EXTENDS Naturals

CONSTANTS
    Apps,
    Diagnosers, Stoppers,   \* slots for diagnostics and stop requests
    Monitor,
    Threshold,              \* runtime_health_failure_threshold
    NoRow,
    \* Bounds of the model, not of the code.
    CountCap,               \* failures are not counted further than this
    MaxFaults,              \* failing queries
    MaxChurn                \* uninstalls

ASSUME HealthAssumption ==
    /\ Threshold \in 1..10
    /\ CountCap \in Nat /\ CountCap >= Threshold
    /\ Monitor \notin Diagnosers \cup Stoppers
    /\ Diagnosers \cap Stoppers = {}

Checkers == {Monitor} \cup Diagnosers \cup Stoppers

VARIABLES
    installed,  \* applications in core.installed_apps
    mem,        \* the states map
    row,        \* core.app_runtime_health_results
    answers,    \* what each application would answer now (external)
    up,         \* the process is running
    mon,        \* where tick() is
    task,       \* the check, or stop, of each application by each checker
    streak,     \* history: failed checks in a row, on from the loaded count
    faults, churn

vars == <<installed, mem, row, answers, up, mon, task, streak, faults, churn>>
boundVars == <<faults, churn>>

-----------------------------------------------------------------------------
Statuses == {"unknown", "healthy", "degraded", "unreachable", "stopped"}
Health == [status : Statuses, failures : 0..CountCap]
Initial == [status |-> "unknown", failures |-> 0]

Phases == {"idle", "queued", "fetch", "stopping", "halted", "persist"}
Task == [phase : Phases, health : Health]
IdleTask == [phase |-> "idle", health |-> Initial]

TypeOK ==
    /\ installed \in SUBSET Apps
    /\ mem \in [Apps -> Health]
    /\ row \in [Apps -> Health \cup {NoRow}]
    /\ answers \in [Apps -> {"healthy", "degraded", "failing"}]
    /\ up \in BOOLEAN
    /\ mon \in {"load", "list", "checking", "waiting"}
    /\ task \in [Checkers -> [Apps -> Task]]
    /\ streak \in [Apps -> 0..CountCap]
    /\ faults \in Nat /\ churn \in Nat

Idle(c) == \A a \in Apps : task[c][a].phase = "idle"
AllIdle == [c \in Checkers |-> [a \in Apps |-> IdleTask]]

Init ==
    /\ installed = {}
    /\ mem = [a \in Apps |-> Initial]
    /\ row = [a \in Apps |-> NoRow]
    /\ answers = [a \in Apps |-> "failing"]
    /\ up = TRUE /\ mon = "load"
    /\ task = AllIdle
    /\ streak = [a \in Apps |-> 0]
    /\ faults = 0 /\ churn = 0

-----------------------------------------------------------------------------
(* The process *)

Serving == up /\ mon # "load"

Fault == faults < MaxFaults /\ faults' = faults + 1

(* The process ends: memory and everything in flight is gone. *)
Crash ==
    /\ up' = FALSE /\ mon' = "load"
    /\ task' = AllIdle
    /\ mem' = [a \in Apps |-> Initial]

Restart ==
    /\ ~up
    /\ up' = TRUE
    /\ UNCHANGED <<installed, mem, row, answers, mon, task, streak, boundVars>>

(* onReady: loadAppRuntimeHealthResults, then the first tick. *)
LoadRows ==
    /\ up /\ mon = "load"
    /\ mem' = [a \in Apps |-> IF row[a] = NoRow THEN mem[a] ELSE row[a]]
    /\ streak' = [a \in Apps |-> mem'[a].failures]
    /\ mon' = "list"
    /\ UNCHANGED <<installed, row, answers, up, task, boundVars>>

(* The query of the installed applications; then every check begins, each  *)
(* remembering the state it found.                                         *)
ListApps ==
    /\ up /\ mon = "list"
    /\ task' = [task EXCEPT ![Monitor] = [a \in Apps |->
                  IF a \in installed THEN [phase |-> "fetch", health |-> mem[a]]
                                     ELSE IdleTask]]
    /\ mon' = "checking"
    /\ UNCHANGED <<installed, mem, row, answers, up, streak, boundVars>>

(* Mutant: the timer is not armed when nothing was checked. *)
FinishTickEmpty ==
    /\ up /\ mon = "checking" /\ Idle(Monitor)
    /\ installed # {}
    /\ mon' = "waiting"
    /\ UNCHANGED <<installed, mem, row, answers, up, task, streak, boundVars>>

(* Promise.all is done: the timer is armed. *)
FinishTick ==
    /\ up /\ mon = "checking" /\ Idle(Monitor)
    /\ mon' = "waiting"
    /\ UNCHANGED <<installed, mem, row, answers, up, task, streak, boundVars>>

TimerFires ==
    /\ up /\ mon = "waiting"
    /\ mon' = "list"
    /\ UNCHANGED <<installed, mem, row, answers, up, task, streak, boundVars>>

(* A query of the start-up or of the tick fails. *)
MonitorQueryFails ==
    /\ Fault
    /\ up /\ mon \in {"load", "list"}
    /\ Crash
    /\ UNCHANGED <<installed, row, answers, streak, churn>>

-----------------------------------------------------------------------------
(* Checks *)

Bump(n) == IF n < CountCap THEN n + 1 ELSE n
ThresholdOf(c) == IF c = Monitor THEN Threshold ELSE 1

(* Mutant: a degraded answer counts as a failure. *)
NextHealthDegradedFails(previous, answer, threshold) ==
    IF answer = "healthy" THEN [status |-> "healthy", failures |-> 0]
    ELSE LET failures == Bump(previous.failures) IN
         [status |-> IF failures >= threshold THEN "unreachable" ELSE previous.status,
          failures |-> failures]

(* Mutant: the status never worsens before a success. *)
NextHealthSticky(previous, answer, threshold) ==
    IF answer # "failing" THEN [status |-> answer, failures |-> 0]
    ELSE [status |-> previous.status, failures |-> Bump(previous.failures)]

(* checkAppRuntime's three outcomes, from the state before the fetch. *)
NextHealth(previous, answer, threshold) ==
    IF answer # "failing" THEN [status |-> answer, failures |-> 0]
    ELSE LET failures == Bump(previous.failures) IN
         [status |-> IF failures >= threshold THEN "unreachable" ELSE previous.status,
          failures |-> failures]

(* POST /apps/installed/:app_id/diagnostics: the application is loaded ... *)
StartDiagnosis(c, a) ==
    /\ Serving /\ c \in Diagnosers /\ Idle(c)
    /\ a \in installed
    /\ task' = [task EXCEPT ![c][a] = [phase |-> "queued", health |-> Initial]]
    /\ UNCHANGED <<installed, mem, row, answers, up, mon, streak, boundVars>>

(* ... and after the license, artifact and DNS lookups its check begins.   *)
BeginCheck(c, a) ==
    /\ task[c][a].phase = "queued"
    /\ task' = [task EXCEPT ![c][a] = [phase |-> "fetch", health |-> mem[a]]]
    /\ UNCHANGED <<installed, mem, row, answers, up, mon, streak, boundVars>>

CompleteFetch(c, a) ==
    LET next == NextHealth(task[c][a].health, answers[a], ThresholdOf(c)) IN
    /\ task[c][a].phase = "fetch"
    /\ mem' = [mem EXCEPT ![a] = next]
    /\ task' = [task EXCEPT ![c][a] = [phase |-> "persist", health |-> next]]
    /\ streak' = [streak EXCEPT ![a] = IF answers[a] = "failing" THEN Bump(@) ELSE 0]
    /\ UNCHANGED <<installed, row, answers, up, mon, boundVars>>

(* POST /apps/installed/:app_id/runtime/stop: docker compose stops it ...  *)
StartStop(c, a) ==
    /\ Serving /\ c \in Stoppers /\ Idle(c)
    /\ a \in installed
    /\ task' = [task EXCEPT ![c][a] = [phase |-> "stopping", health |-> Initial]]
    /\ UNCHANGED <<installed, mem, row, answers, up, mon, streak, boundVars>>

ContainerStops(c, a) ==
    /\ task[c][a].phase = "stopping"
    /\ answers' = [answers EXCEPT ![a] = "failing"]
    /\ task' = [task EXCEPT ![c][a].phase = "halted"]
    /\ UNCHANGED <<installed, mem, row, up, mon, streak, boundVars>>

StopFails(c, a) ==
    /\ task[c][a].phase = "stopping"
    /\ task' = [task EXCEPT ![c][a] = IdleTask]
    /\ UNCHANGED <<installed, mem, row, answers, up, mon, streak, boundVars>>

(* Mutant: stopping an application is a failure of it. *)
MarkStoppedFailing(c, a) ==
    LET next == [status |-> "unreachable", failures |-> mem[a].failures] IN
    /\ task[c][a].phase = "halted"
    /\ mem' = [mem EXCEPT ![a] = next]
    /\ task' = [task EXCEPT ![c][a] = [phase |-> "persist", health |-> next]]
    /\ UNCHANGED <<installed, row, answers, up, mon, streak, boundVars>>

(* ... and markAppRuntimeStopped sets the state. *)
MarkStopped(c, a) ==
    LET next == [mem[a] EXCEPT !.status = "stopped"] IN
    /\ task[c][a].phase = "halted"
    /\ mem' = [mem EXCEPT ![a] = next]
    /\ task' = [task EXCEPT ![c][a] = [phase |-> "persist", health |-> next]]
    /\ UNCHANGED <<installed, row, answers, up, mon, streak, boundVars>>

(* Mutant: insert without "on conflict do update". *)
PersistOnce(c, a) ==
    /\ task[c][a].phase = "persist" /\ a \in installed
    /\ row' = IF row[a] = NoRow THEN [row EXCEPT ![a] = task[c][a].health] ELSE row
    /\ task' = [task EXCEPT ![c][a] = IdleTask]
    /\ UNCHANGED <<installed, mem, answers, up, mon, streak, boundVars>>

(* persistAppRuntimeHealth: the upsert, ... *)
Persist(c, a) ==
    /\ task[c][a].phase = "persist" /\ a \in installed
    /\ row' = [row EXCEPT ![a] = task[c][a].health]
    /\ task' = [task EXCEPT ![c][a] = IdleTask]
    /\ UNCHANGED <<installed, mem, answers, up, mon, streak, boundVars>>

(* ... which violates its foreign key once the application is gone: a      *)
(* request answers an error, the monitor's tick rejects.                   *)
PersistOrphan(c, a) ==
    /\ task[c][a].phase = "persist" /\ a \notin installed
    /\ IF c = Monitor THEN Crash
       ELSE /\ task' = [task EXCEPT ![c][a] = IdleTask]
            /\ UNCHANGED <<mem, up, mon>>
    /\ UNCHANGED <<installed, row, answers, streak, boundVars>>

PersistFails(c, a) ==
    /\ Fault
    /\ task[c][a].phase = "persist"
    /\ IF c = Monitor THEN Crash
       ELSE /\ task' = [task EXCEPT ![c][a] = IdleTask]
            /\ UNCHANGED <<mem, up, mon>>
    /\ UNCHANGED <<installed, row, answers, streak, churn>>

-----------------------------------------------------------------------------
(* The environment *)

(* Installing and uninstalling, as far as health is concerned: the result  *)
(* row goes with the application, the entry of the states map stays.       *)
Install(a) ==
    /\ Serving /\ a \notin installed
    /\ installed' = installed \cup {a}
    /\ UNCHANGED <<mem, row, answers, up, mon, task, streak, boundVars>>

Uninstall(a) ==
    /\ Serving /\ a \in installed
    /\ churn < MaxChurn /\ churn' = churn + 1
    /\ installed' = installed \ {a}
    /\ row' = [row EXCEPT ![a] = NoRow]
    /\ UNCHANGED <<mem, answers, up, mon, task, streak, faults>>

ApplicationChanges(a, answer) ==
    /\ answer # answers[a]
    /\ answers' = [answers EXCEPT ![a] = answer]
    /\ UNCHANGED <<installed, mem, row, up, mon, task, streak, boundVars>>

-----------------------------------------------------------------------------
CheckerStep(c, a) ==
    \/ BeginCheck(c, a) \/ CompleteFetch(c, a)
    \/ ContainerStops(c, a) \/ StopFails(c, a) \/ MarkStopped(c, a)
    \/ Persist(c, a) \/ PersistOrphan(c, a)

MonitorStep == LoadRows \/ ListApps \/ FinishTick \/ TimerFires

Environment ==
    \/ MonitorQueryFails
    \/ \E c \in Checkers, a \in Apps :
         StartDiagnosis(c, a) \/ StartStop(c, a) \/ PersistFails(c, a)
    \/ \E a \in Apps : Install(a) \/ Uninstall(a)
    \/ \E a \in Apps, answer \in {"healthy", "degraded", "failing"} :
         ApplicationChanges(a, answer)

Next ==
    \/ \E c \in Checkers, a \in Apps : CheckerStep(c, a)
    \/ MonitorStep \/ Restart
    \/ Environment

Spec == Init /\ [][Next]_vars

(* Fetches time out, queries end, the event loop runs what is ready, and   *)
(* systemd restarts the process.                                           *)
FairSpec ==
    /\ Spec
    /\ \A c \in Checkers, a \in Apps : WF_vars(CheckerStep(c, a))
    /\ WF_vars(MonitorStep)
    /\ WF_vars(Restart)

-----------------------------------------------------------------------------
(* app-proxy.ts forwards to an application only in these states. *)
Forwards(a) == mem[a].status \in {"healthy", "degraded"}

(***************************************************************************)
(* The failure count is real: as long as only the monitor checks, an       *)
(* application has no more failures counted than checks that failed in a   *)
(* row (on from the count the process found in the table), and one is      *)
(* unreachable only once the threshold was reached, whatever stops,        *)
(* uninstalls, reinstalls and crashes do to the states in between.         *)
(***************************************************************************)
CountsAreReal ==
    \A a \in Apps :
        /\ mem[a].failures <= streak[a]
        /\ mem[a].status = "unreachable" => mem[a].failures >= Threshold

(***************************************************************************)
(* Why the count is real: it is so in every copy of a state, in memory, in *)
(* the table and in a check under way, and the state a check of the        *)
(* monitor started from counts no more than the failures in a row.         *)
(***************************************************************************)
HealthReal(h) == h.status = "unreachable" => h.failures >= Threshold
CopiesReal ==
    /\ \A a \in Apps : HealthReal(mem[a])
    /\ \A a \in Apps : row[a] # NoRow => HealthReal(row[a])
    /\ \A c \in Checkers, a \in Apps : HealthReal(task[c][a].health)
FailuresCounted ==
    \A a \in Apps :
        /\ mem[a].failures <= streak[a]
        /\ task[Monitor][a].phase = "fetch" =>
             mon # "load" /\ task[Monitor][a].health.failures <= streak[a]
OnlyMonitorChecks ==
    \A c \in Checkers, a \in Apps :
        task[c][a].phase \in {"queued", "fetch"} => c = Monitor /\ task[c][a].phase = "fetch"
IInv == TypeOK /\ CopiesReal /\ FailuresCounted /\ OnlyMonitorChecks

(***************************************************************************)
(* The proxy follows the application: one that fails for good is no longer *)
(* forwarded to, one that answers for good is.  Diagnostics, stops, failed *)
(* queries, crashes and uninstalls may race the monitor in between.        *)
(***************************************************************************)
DeadNotForwarded ==
    \A a \in Apps :
        <>[](a \in installed /\ answers[a] = "failing") => <>[](~Forwards(a))
AliveForwarded ==
    \A a \in Apps :
        <>[](a \in installed /\ answers[a] # "failing") => <>[]Forwards(a)

(***************************************************************************)
(* The table does not stay behind: once an application keeps answering the *)
(* same and is not being stopped, results persisted out of order, or lost  *)
(* with the process, are repaired, and the table agrees with memory on its *)
(* status from then on.                                                    *)
(***************************************************************************)
Settled(a, answer) ==
    /\ a \in installed /\ answers[a] = answer
    /\ \A c \in Stoppers : Idle(c)
RowAgrees(a) == row[a] # NoRow /\ row[a].status = mem[a].status
RowCatchesUp ==
    \A a \in Apps, answer \in {"healthy", "degraded", "failing"} :
        <>[]Settled(a, answer) => <>[]RowAgrees(a)

(***************************************************************************)
(* The monitor keeps ticking: no failing query and no uninstall ends it    *)
(* for good.                                                               *)
(***************************************************************************)
MonitorKeepsTicking == []<>(mon = "waiting")
=============================================================================
