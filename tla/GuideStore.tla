----------------------------- MODULE GuideStore -----------------------------
(***************************************************************************)
(* Several processes change one IMPLEMENTATION_GUIDE.json, none of which   *)
(* locks it: the engine of `execute` or `continue` writes task statuses    *)
(* (utils/taskStatusUpdater.js, config.js), `improve` adds tasks           *)
(* (telemetry/ImprovementTaskGenerator.js). Every writer reads the whole   *)
(* file and writes the whole file; a step here is one system call that     *)
(* another process can see.                                                *)
(*                                                                         *)
(* Backups (a copy nobody reads) are left out.                             *)
(***************************************************************************)
EXTENDS Naturals, FiniteSets, TLC

CONSTANTS
  Updaters,        (* processes that write statuses                          *)
  Improvers,       (* processes that add tasks                               *)
  Tasks,           (* tasks the guide begins with                            *)
  NewTasks,        (* tasks `improve` generates                              *)
  Inodes,          (* files on the disk                                      *)
  MaxUpdates,      (* bound: updates over the whole behaviour                *)
  MaxFaults        (* bound: crashes and failed writes                       *)

ASSUME StoreAssumption ==
  /\ Updaters \intersect Improvers = {}
  /\ Tasks \intersect NewTasks = {}
  /\ Inodes # {}
  /\ MaxUpdates \in Nat /\ MaxFaults \in Nat

Processes == Updaters \union Improvers
AllTasks  == Tasks \union NewTasks
Statuses  == {"todo", "in_progress", "completed", "failed"}
Guides    == UNION {[D -> Statuses] : D \in SUBSET AllTasks}

(* A file holds a guide, nothing yet, or what JSON.parse rejects.          *)
Content == [form : {"json"}, tasks : Guides] \union {[form |-> "empty"], [form |-> "torn"]}
Json(g) == [form |-> "json", tasks |-> g]
Empty   == [form |-> "empty"]
Torn    == [form |-> "torn"]

VARIABLES
  data,        (* content of each file                                       *)
  guide,       (* the file named IMPLEMENTATION_GUIDE.json                   *)
  temps,       (* the files named IMPLEMENTATION_GUIDE.json.tmp.<stamp>      *)
  now,         (* Date.now()                                                 *)
  pc, job,     (* where each process is, and the update it is making         *)
  copy,        (* the guide it is about to write                             *)
  fd, stamp,   (* the file it has open, and the stamp of its name            *)
  updates, faults,
  confirmed,   (* history: status of the last update reported successful     *)
  stale,       (* history: the guide changed after the process read it       *)
  overlapped,  (* history: a stale process completed its write               *)
  broken,      (* history: an improver died or failed while it wrote         *)
  shared,      (* history: updates whose temporary file another one used too *)
  collided     (* history: two updates used one temporary file               *)

disk    == <<data, guide, temps, now>>
local   == <<job, copy, fd, stamp>>
names   == <<shared, collided>>
history == <<confirmed, stale, overlapped, broken, shared, collided>>
vars    == <<data, guide, temps, now, pc, job, copy, fd, stamp, updates, faults,
             confirmed, stale, overlapped, broken, shared, collided>>

NoJob == [task |-> "none", status |-> "none", by |-> "none"]

Init ==
  /\ guide \in Inodes
  /\ \E g \in [Tasks -> {"todo", "in_progress"}] :
       /\ data = [i \in Inodes |-> IF i = guide THEN Json(g) ELSE Empty]
       /\ confirmed = [t \in AllTasks |-> IF t \in Tasks THEN g[t] ELSE "absent"]
  /\ temps = [s \in {} |-> guide] /\ now = 0
  /\ pc = [p \in Processes |-> "idle"] /\ job = [p \in Processes |-> NoJob]
  /\ copy = [p \in Processes |-> [t \in {} |-> "todo"]]
  /\ fd = [p \in Processes |-> guide] /\ stamp = [p \in Processes |-> 0]
  /\ updates = 0 /\ faults = 0
  /\ stale = [p \in Processes |-> FALSE] /\ overlapped = FALSE /\ broken = FALSE
  /\ shared = {} /\ collided = FALSE

-----------------------------------------------------------------------------
Readable == data[guide].form = "json"
Current  == data[guide].tasks

(* validTransitions of config.updateTaskStatus.                            *)
ValidTransition(from, to) ==
  to \in CASE from = "todo"        -> {"in_progress"}
           [] from = "in_progress" -> {"completed", "failed", "todo"}
           [] OTHER                -> {"todo", "in_progress"}

(* What Date.now() may return: the clock may or may not have moved on.     *)
Stamps == {now, now + 1}

(* The other updates that are using the temporary file named by s.         *)
Sharers(p, s) == {q \in Updaters \ {p} : pc[q] \in {"write", "rename"} /\ stamp[q] = s}

(* Writing to an open file. Whoever else wrote to it since it was          *)
(* truncated: the longer text may show through.                            *)
Written(p) == IF data[fd[p]] = Empty THEN {Json(copy[p])} ELSE {Json(copy[p]), Torn}

HoldsCopy(p) == pc[p] \in {"open", "write", "rename", "overwrite"}

(* p replaced the content of the guide.                                    *)
GuideReplacedBy(p) ==
  /\ stale' = [q \in Processes |-> q # p /\ (stale[q] \/ HoldsCopy(q))]
  /\ overlapped' = (overlapped \/ stale[p])

Goto(p, label) == pc' = [pc EXCEPT ![p] = label]

-----------------------------------------------------------------------------
(* executeTask begins or ends a task.                                      *)
Request(p) ==
  /\ pc[p] = "idle" /\ updates < MaxUpdates
  /\ updates' = updates + 1
  /\ \E t \in Tasks, s \in {"in_progress", "completed"} :
       job' = [job EXCEPT ![p] = [task |-> t, status |-> s, by |-> "updater"]]
  /\ Goto(p, "look")
  /\ UNCHANGED <<disk, copy, fd, stamp, faults, history>>

(* readGuide: a guide that cannot be read is left as it is.                *)
Look(p) ==
  /\ pc[p] = "look"
  /\ Goto(p, IF Readable THEN "read" ELSE "idle")
  /\ UNCHANGED <<disk, local, updates, faults, history>>

(* updateTaskStatusInGuide reads the guide again ...                       *)
Read(p) ==
  /\ pc[p] = "read"
  /\ \/ /\ Readable
        /\ copy' = [copy EXCEPT ![p] = [Current EXCEPT ![job[p].task] = job[p].status]]
        /\ Goto(p, "open")
        /\ UNCHANGED job
     \/ /\ ~ Readable
        /\ Goto(p, "retry")
        /\ UNCHANGED <<copy, job>>
  /\ stale' = [stale EXCEPT ![p] = FALSE]
  /\ UNCHANGED <<disk, fd, stamp, updates, faults, confirmed, overlapped, broken, names>>

(* ... and when it returns false config.updateTaskStatus tries once more.  *)
Retry(p) ==
  /\ pc[p] = "retry"
  /\ IF Readable /\ ValidTransition(Current[job[p].task], job[p].status)
       THEN /\ copy' = [copy EXCEPT ![p] = [Current EXCEPT ![job[p].task] = job[p].status]]
            /\ job' = [job EXCEPT ![p].by = "config"]
            /\ Goto(p, "open")
       ELSE Goto(p, "idle") /\ UNCHANGED <<copy, job>>
  /\ stale' = [stale EXCEPT ![p] = FALSE]
  /\ UNCHANGED <<disk, fd, stamp, updates, faults, confirmed, overlapped, broken, names>>

(* writeFileSync on the temporary file: it is created or truncated ...     *)
Named == {temps[s] : s \in DOMAIN temps}
Unused == Inodes \ ({guide} \union Named \union {fd[p] : p \in {q \in Processes : pc[q] = "write"}})

Open(p) ==
  /\ pc[p] = "open"
  /\ \E s \in Stamps :
       /\ now' = s /\ stamp' = [stamp EXCEPT ![p] = s]
       /\ \E i \in IF s \in DOMAIN temps THEN {temps[s]} ELSE Unused :
            /\ temps' = [r \in DOMAIN temps \union {s} |-> IF r = s THEN i ELSE temps[r]]
            /\ fd' = [fd EXCEPT ![p] = i] /\ data' = [data EXCEPT ![i] = Empty]
       /\ shared' = IF Sharers(p, s) = {} THEN shared \ {p} ELSE shared \union Sharers(p, s) \union {p}
       /\ collided' = (collided \/ Sharers(p, s) # {})
  /\ Goto(p, "write")
  /\ UNCHANGED <<guide, job, copy, updates, faults, confirmed, stale, overlapped, broken>>

(* ... and written. The file may have been renamed or removed meanwhile.   *)
Write(p) ==
  /\ pc[p] = "write"
  /\ \E c \in Written(p) : data' = [data EXCEPT ![fd[p]] = c]
  /\ Goto(p, "rename")
  /\ UNCHANGED <<guide, temps, now, local, updates, faults, history>>

AfterFailure(p) == IF job[p].by = "updater" THEN "retry" ELSE "cleanup"

(* Mutation: a write that fails is not noticed.                            *)
WriteFailsUnnoticed(p) ==
  /\ pc[p] = "write"
  /\ faults < MaxFaults /\ faults' = faults + 1
  /\ data' = [data EXCEPT ![fd[p]] = Torn]
  /\ Goto(p, "rename")
  /\ UNCHANGED <<guide, temps, now, local, updates, history>>

WriteFails(p) ==
  /\ pc[p] = "write"
  /\ faults < MaxFaults /\ faults' = faults + 1
  /\ data' = [data EXCEPT ![fd[p]] = Torn]
  /\ Goto(p, AfterFailure(p))
  /\ UNCHANGED <<guide, temps, now, local, updates, history>>

(* Mutation: a rename that fails is taken for a success.                   *)
RenameUnchecked(p) ==
  /\ pc[p] = "rename"
  /\ IF stamp[p] \in DOMAIN temps
       THEN /\ guide' = temps[stamp[p]]
            /\ temps' = [s \in DOMAIN temps \ {stamp[p]} |-> temps[s]]
       ELSE UNCHANGED <<guide, temps>>
  /\ confirmed' = [confirmed EXCEPT ![job[p].task] = job[p].status]
  /\ GuideReplacedBy(p)
  /\ Goto(p, "idle")
  /\ UNCHANGED <<data, now, local, updates, faults, broken, names>>

(* renameSync: whatever file has the name becomes the guide.               *)
Rename(p) ==
  /\ pc[p] = "rename" /\ stamp[p] \in DOMAIN temps
  /\ guide' = temps[stamp[p]]
  /\ temps' = [s \in DOMAIN temps \ {stamp[p]} |-> temps[s]]
  /\ confirmed' = [confirmed EXCEPT ![job[p].task] = job[p].status]
  /\ GuideReplacedBy(p)
  /\ Goto(p, "idle")
  /\ UNCHANGED <<data, now, local, updates, faults, broken, names>>

RenameFails(p) ==
  /\ pc[p] = "rename" /\ stamp[p] \notin DOMAIN temps
  /\ Goto(p, AfterFailure(p))
  /\ UNCHANGED <<disk, local, updates, faults, history>>

(* writeGuide removes every temporary file, the other processes' as well.  *)
Cleanup(p) ==
  /\ pc[p] = "cleanup"
  /\ temps' = [s \in {} |-> guide]
  /\ Goto(p, "idle")
  /\ UNCHANGED <<data, guide, now, local, updates, faults, history>>

-----------------------------------------------------------------------------

(* addTasksToGuide: tasks that are not in the guide yet are appended.      *)
WithNewTasks(g) == [t \in DOMAIN g \union NewTasks |-> IF t \in DOMAIN g THEN g[t] ELSE "todo"]

AddTasksRead(p) ==
  /\ pc[p] = "idle" /\ updates < MaxUpdates /\ Readable
  /\ updates' = updates + 1
  /\ copy' = [copy EXCEPT ![p] = WithNewTasks(Current)]
  /\ stale' = [stale EXCEPT ![p] = FALSE]
  /\ Goto(p, "overwrite")
  /\ UNCHANGED <<disk, job, fd, stamp, faults, confirmed, overlapped, broken, names>>

(* writeFileSync on the guide itself: truncated here, written next.        *)
AddTasksOpen(p) ==
  /\ pc[p] = "overwrite"
  /\ fd' = [fd EXCEPT ![p] = guide]
  /\ data' = [data EXCEPT ![guide] = Empty]
  /\ Goto(p, "write")
  /\ UNCHANGED <<guide, temps, now, job, copy, stamp, updates, faults, history>>

AddTasksWrite(p) ==
  /\ pc[p] = "write"
  /\ \E c \in Written(p) : data' = [data EXCEPT ![fd[p]] = c]
  /\ confirmed' = [t \in AllTasks |-> IF t \in NewTasks /\ confirmed[t] = "absent" THEN "todo"
                                      ELSE confirmed[t]]
  /\ GuideReplacedBy(p)
  /\ Goto(p, "idle")
  /\ UNCHANGED <<guide, temps, now, local, updates, faults, broken, names>>

AddTasksFails(p) ==
  /\ pc[p] = "write"
  /\ faults < MaxFaults /\ faults' = faults + 1
  /\ data' = [data EXCEPT ![fd[p]] = Torn]
  /\ broken' = TRUE
  /\ Goto(p, "idle")
  /\ UNCHANGED <<guide, temps, now, local, updates, confirmed, stale, overlapped, names>>

(* A process is killed; what it wrote so far stays.                        *)
Crash(p) ==
  /\ pc[p] # "idle"
  /\ faults < MaxFaults /\ faults' = faults + 1
  /\ broken' = (broken \/ (p \in Improvers /\ pc[p] = "write"))
  /\ Goto(p, "idle")
  /\ UNCHANGED <<disk, local, updates, confirmed, stale, overlapped, names>>

-----------------------------------------------------------------------------
UpdaterStep(p) ==
  \/ Request(p) \/ Look(p) \/ Read(p) \/ Retry(p) \/ Open(p)
  \/ Write(p) \/ WriteFails(p) \/ Rename(p) \/ RenameFails(p) \/ Cleanup(p)

ImproverStep(p) ==
  AddTasksRead(p) \/ AddTasksOpen(p) \/ AddTasksWrite(p) \/ AddTasksFails(p)

Next ==
  \/ \E p \in Updaters : UpdaterStep(p)
  \/ \E p \in Improvers : ImproverStep(p)
  \/ \E p \in Processes : Crash(p)

Spec == Init /\ [][Next]_vars

-----------------------------------------------------------------------------
TypeOK ==
  /\ data \in [Inodes -> Content] /\ guide \in Inodes
  /\ temps \in [DOMAIN temps -> Inodes] /\ DOMAIN temps \subseteq Nat
  /\ now \in Nat
  /\ pc \in [Processes -> {"idle", "look", "read", "retry", "open", "write", "rename",
                           "cleanup", "overwrite"}]
  /\ job \in [Processes -> [task : Tasks \union {"none"}, status : Statuses \union {"none"},
                            by : {"none", "updater", "config"}]]
  /\ copy \in [Processes -> Guides]
  /\ fd \in [Processes -> Inodes] /\ stamp \in [Processes -> Nat]
  /\ confirmed \in [AllTasks -> Statuses \union {"absent"}]
  /\ updates \in Nat /\ faults \in Nat
  /\ stale \in [Processes -> BOOLEAN] /\ overlapped \in BOOLEAN /\ broken \in BOOLEAN
  /\ shared \in SUBSET Updaters /\ collided \in BOOLEAN

(* Status updates never leave an unreadable guide, whoever else writes,    *)
(* fails or is killed: only addTasksToGuide does, which writes in place,   *)
(* and two updates of one millisecond, which write to one temporary file   *)
(* (taskStatusUpdater.js "atomic write").                                  *)
GuideReadable ==
  Readable \/ broken \/ collided \/ \E p \in Improvers : pc[p] = "write"

(* As long as no two writers overlap (one writes back a guide it read      *)
(* before the other wrote, or they use one temporary file), nothing an     *)
(* update reported as done is lost: each task has the status last          *)
(* reported, with no task missing. Killed processes and the retry through  *)
(* config.js do not change that.                                           *)
ConfirmedSurvive ==
  (Readable /\ ~ overlapped /\ ~ collided) =>
    /\ DOMAIN Current = {t \in AllTasks : confirmed[t] # "absent"}
    /\ \A t \in DOMAIN Current : Current[t] = confirmed[t]

(* An update that returns true did put its status into the guide, even if  *)
(* it overlaps with others that write, fail, clean up or are killed,       *)
(* unless one of these used its temporary file: file names are those of a  *)
(* millisecond (taskStatusUpdater.js), and of two updates in one the first *)
(* to be done reports a status that the other has truncated.               *)
ReportedIsWritten ==
  [][\A p \in Updaters :
       (pc[p] = "rename" /\ pc'[p] = "idle" /\ faults' = faults /\ p \notin shared)
         => /\ data'[guide'].form = "json"
            /\ data'[guide'].tasks[job[p].task] = job[p].status]_vars

-----------------------------------------------------------------------------
(* CHANGELOG.md:63 "Atomic file operations prevent corruption", of status  *)
(* updates.                                                                *)
UpdatesPreventCorruption == Readable

-----------------------------------------------------------------------------
(* Inodes are told apart by what the paths point to only. *)
DiskSymmetry == Permutations(Inodes)
=============================================================================
