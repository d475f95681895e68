----------------------------- MODULE TaskEngine -----------------------------
(***************************************************************************)
(* One kc-orchestrator process at a time working through the tasks of      *)
(* IMPLEMENTATION_GUIDE.json: TaskExecutionEngine (src/src/engine.js) as   *)
(* the commands `execute` and `continue` drive it.                         *)
(*                                                                         *)
(* guide, checkpoints, latest and newest are files and survive the         *)
(* process; everything from pc to failed lives in the Node process and is  *)
(* lost with it. A process may be killed between any two steps.            *)
(*                                                                         *)
(* Tasks are numbered in execution order (phase order, then task order).   *)
(***************************************************************************)
EXTENDS Naturals, Sequences, FiniteSets

CONSTANTS
  NumTasks,         (* number of tasks in the guide                         *)
  MaxRetries,       (* --max-retries                                        *)
  Modes,            (* commands in use, a subset of AllModes                *)
  MaxStarts,        (* bound: processes started over the whole behaviour    *)
  MaxSaveFailures,  (* bound: checkpoint writes that fail                   *)
  MaxWriteFailures  (* bound: status writes to the guide that fail          *)

AllModes == {"execute", "targeted", "continue", "continueFrom"}

ASSUME EngineAssumption ==
  /\ NumTasks \in Nat \ {0}
  /\ MaxRetries \in Nat \ {0}
  /\ Modes \subseteq AllModes
  /\ MaxStarts \in Nat
  /\ MaxSaveFailures \in Nat
  /\ MaxWriteFailures \in Nat

Tasks    == 1 .. NumTasks
Statuses == {"todo", "in_progress", "completed", "failed"}

(* saveCheckpoint: the loop position, the two counters and the task list.  *)
Checkpoint == [index : Nat \ {0}, completed : Nat, failed : Nat, list : Seq(Tasks)]

VARIABLES
  guide,        (* status of each task in IMPLEMENTATION_GUIDE.json           *)
  checkpoints,  (* intact files of .kc-orchestrator/checkpoints               *)
  newest,       (* what the most recent checkpoint file is                    *)
  latest,       (* its content, when newest = "intact"                        *)
  pc,           (* where the running process is; "off": none runs             *)
  mode,         (* the command it runs                                        *)
  list,         (* `tasks`                                                    *)
  index,        (* `i`, from 1                                                *)
  attempt,      (* `attempt` of executeAllTasksWithRecovery                   *)
  completed,    (* results.completed                                          *)
  failed,       (* results.failed                                             *)
  signalled,    (* shutdownRequested                                          *)
  exit,         (* how the last process ended                                 *)
  starts, saveFailures, writeFailures,   (* bounded counters                  *)
  attempted,    (* history: tasks ever handed to a provider                   *)
  worked,       (* history: tasks a provider ever carried out                 *)
  informed      (* history: those it carried out knowing more than their id   *)

files   == <<guide, checkpoints, newest, latest>>
memory  == <<mode, list, index, attempt, completed, failed>>
bounds  == <<starts, saveFailures, writeFailures>>
history == <<attempted, worked, informed>>
vars    == <<guide, checkpoints, newest, latest, pc, mode, list, index, attempt,
             completed, failed, signalled, exit, starts, saveFailures,
             writeFailures, attempted, worked, informed>>

NoCheckpoint == [index |-> 1, completed |-> 0, failed |-> 0, list |-> <<>>]

Init ==
  /\ guide \in [Tasks -> Statuses]
  /\ checkpoints = {} /\ newest = "none" /\ latest = NoCheckpoint
  /\ pc = "off" /\ mode = "execute" /\ list = <<>> /\ index = 1 /\ attempt = 0
  /\ completed = 0 /\ failed = 0
  /\ signalled = FALSE /\ exit = "none"
  /\ starts = 0 /\ saveFailures = 0 /\ writeFailures = 0
  /\ attempted = {} /\ worked = {} /\ informed = {}

-----------------------------------------------------------------------------
(* Operators of the engine.                                                *)

(* classifyError/shouldRetry: what class of error is still retried after   *)
(* `count` failures.                                                       *)
ShouldRetry(class, count) ==
  CASE class = "permanent"     -> FALSE
    [] class = "configuration" -> count < 2
    [] OTHER                   -> count <= MaxRetries

(* The class of the error executeTask throws. Its catch block evaluates    *)
(* `error.provider || result?.provider`, and `result` is a const of the    *)
(* try block: whatever the provider reported, the caller receives          *)
(* ReferenceError "result is not defined". The inner retry loop, the write *)
(* of status failed and the wrapped error that follow are never reached.   *)
ThrownClass == "unknown"

(* getTasksForExecution: the tasks still to do, in order.                  *)
Executable(g) == {t \in Tasks : g[t] \in {"todo", "in_progress"}}

InOrder(S) == {s \in [1 .. Cardinality(S) -> S] :
                 \A j, k \in 1 .. Cardinality(S) : j < k => s[j] < s[k]}

Current    == list[index]
Recovering == mode # "targeted"

(* updateTaskStatusInGuide, with the fallback to config.updateTaskStatus:  *)
(* the status is on disk, or both writes failed and the engine goes on.    *)
SetStatus(t, status) ==
  \/ /\ guide' = [guide EXCEPT ![t] = status]
     /\ UNCHANGED writeFailures
  \/ /\ writeFailures < MaxWriteFailures
     /\ writeFailures' = writeFailures + 1
     /\ UNCHANGED guide

-----------------------------------------------------------------------------
(* The commands.                                                           *)

Begin(m, l, i, done, bad) ==
  /\ m \in Modes
  /\ pc = "off" /\ pc' = "head"
  /\ starts < MaxStarts /\ starts' = starts + 1
  /\ mode' = m /\ list' = l /\ index' = i /\ attempt' = 0
  /\ completed' = done /\ failed' = bad
  /\ signalled' = FALSE /\ exit' = "none"
  /\ UNCHANGED <<files, saveFailures, writeFailures, history>>

(* `execute`: every task that is not yet completed or failed.              *)
StartExecute == \E l \in InOrder(Executable(guide)) : Begin("execute", l, 1, 0, 0)

(* `execute --task` and `execute --phase`: the tasks the user names,       *)
(* whatever their status, without checkpoints.                             *)
StartTargeted ==
  \E S \in (SUBSET Tasks) \ {{}} : \E l \in InOrder(S) : Begin("targeted", l, 1, 0, 0)

(* Mutation: the failures before the checkpoint are forgotten.             *)
RestoreForgetsFailures(m, c) == Begin(m, c.list, c.index, c.completed, 0)

(* Mutation: the counters start again at zero.                             *)
RestoreForgetsCounters(m, c) == Begin(m, c.list, c.index, 0, 0)

Restore(m, c) == Begin(m, c.list, c.index, c.completed, c.failed)

(* `continue`: the most recent checkpoint file by mtime.                   *)
ContinueLatest == newest = "intact" /\ Restore("continue", latest)

(* `continue --checkpoint`: any checkpoint file.                           *)
ContinueFrom == \E c \in checkpoints : Restore("continueFrom", c)

(* loadCheckpoint on a file that is not JSON throws; the catch around      *)
(* executeAllTasksWithRecovery makes it fatal.                             *)
ContinueTorn ==
  /\ "continue" \in Modes
  /\ pc = "off" /\ newest = "torn"
  /\ starts < MaxStarts /\ starts' = starts + 1
  /\ mode' = "continue" /\ list' = <<>> /\ index' = 1 /\ attempt' = 0
  /\ completed' = 0 /\ failed' = 0
  /\ signalled' = FALSE /\ exit' = "fatal"
  /\ UNCHANGED <<files, pc, saveFailures, writeFailures, history>>

-----------------------------------------------------------------------------
(* executeAllTasksWithRecovery and the --phase loop.                       *)

(* The head of the loop when a task is left.                               *)
NextTask ==
  /\ pc = "head" /\ index <= Len(list)
  /\ pc' = IF Recovering THEN "saving" ELSE "start"
  /\ attempt' = 0
  /\ UNCHANGED <<files, mode, list, index, completed, failed, signalled, exit,
                 bounds, history>>

(* The loop is over: the summary, and the exit code it gives.              *)
Finish ==
  /\ pc = "head" /\ index > Len(list)
  /\ pc' = "off"
  /\ exit' = IF signalled THEN "signal" ELSE IF failed = 0 THEN "success" ELSE "failures"
  /\ UNCHANGED <<files, memory, signalled, bounds, history>>

(* Mutation: the checkpoint names the task after the one about to run.     *)
HereNextIndex == [index |-> index + 1, completed |-> completed, failed |-> failed, list |-> list]

Here == [index |-> index, completed |-> completed, failed |-> failed, list |-> list]

FileWritten == /\ checkpoints' = checkpoints \union {Here}
               /\ newest' = "intact"
               /\ latest' = Here

FileTorn == /\ newest' = "torn"
            /\ latest' = NoCheckpoint
            /\ UNCHANGED checkpoints

SaveCheckpoint ==
  /\ pc = "saving" /\ pc' = "start"
  /\ FileWritten
  /\ UNCHANGED <<guide, memory, signalled, exit, bounds, history>>

(* saveCheckpoint throws and the loop only warns: no file, or a part of it *)
SaveCheckpointFails ==
  /\ pc = "saving" /\ pc' = "start"
  /\ saveFailures < MaxSaveFailures /\ saveFailures' = saveFailures + 1
  /\ FileTorn \/ UNCHANGED <<checkpoints, newest, latest>>
  /\ UNCHANGED <<guide, memory, signalled, exit, starts, writeFailures, history>>

(* executeTask, up to the await on the provider manager.                   *)
StartTask ==
  /\ pc = "start" /\ pc' = "provider"
  /\ SetStatus(Current, "in_progress")
  /\ attempted' = attempted \union {Current}
  /\ UNCHANGED <<checkpoints, newest, latest, memory, signalled, exit, starts,
                 saveFailures, worked, informed>>

(* A checkpoint keeps `tasks.map(t => ({ id: t.id, status: t.status }))`:  *)
(* after a resume the prompt names the task by its id and says no more.    *)
Described == mode \in {"execute", "targeted"}

(* executeWithFallback resolves with success.                              *)
ProviderSucceeds ==
  /\ pc = "provider" /\ pc' = "record"
  /\ worked' = worked \union {Current}
  /\ informed' = IF Described THEN informed \union {Current} ELSE informed
  /\ UNCHANGED <<files, memory, signalled, exit, bounds, attempted>>

(* The rest of a successful executeTask and the end of the loop body.      *)
(* lastError still holds the error of an earlier attempt, so such a task   *)
(* is counted as failed too.                                               *)
RecordSuccess ==
  /\ pc = "record" /\ pc' = "head"
  /\ SetStatus(Current, "completed")
  /\ completed' = completed + 1
  /\ failed' = IF attempt > 0 THEN failed + 1 ELSE failed
  /\ index' = index + 1
  /\ UNCHANGED <<checkpoints, newest, latest, mode, list, attempt, signalled, exit,
                 starts, saveFailures, history>>

(* Both the decision and the test of the loop see the incremented attempt. *)
Retried == /\ Recovering
           /\ ShouldRetry(ThrownClass, attempt + 1)
           /\ attempt + 1 <= MaxRetries

(* executeWithFallback fails with every provider: after the back-off       *)
(* executeTask is called again.                                            *)
ProviderFailsRetry ==
  /\ pc = "provider" /\ Retried
  /\ pc' = "start"
  /\ attempt' = attempt + 1
  /\ UNCHANGED <<files, mode, list, index, completed, failed, signalled, exit,
                 bounds, history>>

(* ... or the task is given up. Its status stays in_progress.              *)
ProviderFailsGiveUp ==
  /\ pc = "provider" /\ ~Retried
  /\ pc' = "head"
  /\ attempt' = attempt + 1
  /\ failed' = failed + 1
  /\ index' = index + 1
  /\ UNCHANGED <<files, mode, list, completed, signalled, exit, bounds, history>>

-----------------------------------------------------------------------------
(* Signals and crashes.                                                    *)

(* The process is gone; a checkpoint being written may be left in part.    *)
Stop(how) ==
  /\ pc' = "off" /\ exit' = how
  /\ \/ UNCHANGED <<checkpoints, newest, latest>>
     \/ pc = "saving" /\ FileTorn
  /\ mode' = "execute" /\ list' = <<>> /\ index' = 1 /\ attempt' = 0
  /\ completed' = 0 /\ failed' = 0 /\ signalled' = FALSE
  /\ UNCHANGED <<guide, bounds, history>>

(* gracefulShutdown, installed by `execute` only: with all tasks running   *)
(* it waits for them for five seconds at most ...                          *)
Signal ==
  /\ pc # "off" /\ mode = "execute" /\ ~signalled
  /\ signalled' = TRUE
  /\ UNCHANGED <<files, pc, memory, exit, bounds, history>>

(* ... and exits with code 0 when they are over. currentExecution is not   *)
(* set by --task and --phase: the handler then exits at once.              *)
GraceOver == pc # "off" /\ (signalled \/ mode = "targeted") /\ Stop("signal")

(* kill, power loss, a second Ctrl-C, Ctrl-C during `continue`.            *)
Crash == pc # "off" /\ Stop("killed")

-----------------------------------------------------------------------------
Start == StartExecute \/ StartTargeted \/ ContinueLatest \/ ContinueFrom \/ ContinueTorn

EngineStep ==
  \/ NextTask \/ Finish
  \/ SaveCheckpoint \/ SaveCheckpointFails
  \/ StartTask
  \/ ProviderSucceeds \/ ProviderFailsRetry \/ ProviderFailsGiveUp
  \/ RecordSuccess

Next == Start \/ EngineStep \/ Signal \/ GraceOver \/ Crash

(* The event loop runs what is ready, and a provider call ends: exec kills *)
(* the command at its timeout. Nobody has to start or to kill a process.   *)
Spec == Init /\ [][Next]_vars /\ WF_vars(EngineStep)
-----------------------------------------------------------------------------
TypeOK ==
  /\ guide \in [Tasks -> Statuses]
  /\ checkpoints \subseteq Checkpoint
  /\ newest \in {"none", "torn", "intact"}
  /\ latest \in Checkpoint
  /\ pc \in {"off", "head", "saving", "start", "provider", "record"}
  /\ mode \in AllModes
  /\ list \in Seq(Tasks) /\ index \in 1 .. Len(list) + 1
  /\ attempt \in Nat /\ completed \in Nat /\ failed \in Nat
  /\ signalled \in BOOLEAN
  /\ exit \in {"none", "success", "failures", "fatal", "signal", "killed"}
  /\ starts \in Nat /\ saveFailures \in Nat /\ writeFailures \in Nat
  /\ attempted \subseteq Tasks /\ worked \subseteq Tasks /\ informed \subseteq Tasks

(* The counters done and bad account for the first n tasks of a list: none *)
(* is missed, and none is counted twice by the same counter.               *)
Accounted(done, bad, n) == done <= n /\ bad <= n /\ done + bad >= n

(* Across crashes, resumes and failed checkpoint writes, the counters of a *)
(* run and those of every checkpoint account for exactly the tasks before  *)
(* its position (engine.js: results.completed, results.failed).            *)
CountersAccountForTasks ==
  /\ Accounted(completed, failed, index - 1)
  /\ \A c \in checkpoints \union {latest} : Accounted(c.completed, c.failed, c.index - 1)

(* Exit code 0 of a run that was not interrupted: a provider carried out   *)
(* every task of its list, in this process or in one it resumes.           *)
SuccessMeansWorked ==
  exit = "success" => \A k \in 1 .. Len(list) : list[k] \in worked

(* A run that reaches its summary handed every task of its list to a       *)
(* provider at some time: recovery may repeat a task but skips none.       *)
NoTaskSkipped ==
  exit \in {"success", "failures"} => \A k \in 1 .. Len(list) : list[k] \in attempted

(* The guide moves as config.js's transition table allows.                 *)
Lifecycle == INSTANCE TaskLifecycle
FollowsLifecycle == Lifecycle!Spec

-----------------------------------------------------------------------------
(* What the source, its documents and its tests say and the code does not. *)

(* engine.js:793 "If task failed after all attempts, handle failure": only *)
(* such a task counts as failed, so each task is counted once.             *)
EachTaskCountedOnce == completed + failed = index - 1

(* engine.js:314 "Update task status to failed", and the tests of it: if   *)
(* no task of a finished run was completed, all of them are marked failed. *)
FailedTaskIsMarked ==
  (exit = "failures" /\ completed = 0) => \A k \in 1 .. Len(list) : guide[list[k]] = "failed"

(* ERROR_RECOVERY_IMPLEMENTATION.md:130 "Falls back to fresh execution if  *)
(* checkpoint loading fails".                                              *)
ResumeFallsBack == exit # "fatal"

(* USAGE_GUIDE.md:105: `continue` goes on exactly where the run stopped.   *)
(* So after exit code 0 each task was carried out by a provider that had   *)
(* read what it is about.                                                  *)
SuccessMeansInformed ==
  exit = "success" => \A k \in 1 .. Len(list) : list[k] \in informed

=============================================================================
