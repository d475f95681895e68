-------------------------- MODULE GuideStoreProofs --------------------------
(***************************************************************************)
(* Proofs about GuideStore for any number of processes, tasks, files,      *)
(* updates and faults.                                                     *)
(***************************************************************************)
EXTENDS GuideStore, TLAPS

Writing(p) == pc[p] = "write"

(* The inductive invariant. An updater at work has a status to write.      *)
HasJob == \A p \in Updaters : pc[p] # "idle" => job[p].task \in Tasks /\ job[p].status \in Statuses

(* No guide, on disk or in memory, misses a task of the first one, and     *)
(* what an updater writes has the status it is to write.                   *)
CopiesWhole ==
  /\ \A i \in Inodes : data[i].form = "json" => Tasks \subseteq DOMAIN data[i].tasks
  /\ \A p \in Processes : HoldsCopy(p) => Tasks \subseteq DOMAIN copy[p]
  /\ \A p \in Updaters : HoldsCopy(p) => copy[p][job[p].task] = job[p].status

(* A name of a temporary file, and the file, belong to the updater that    *)
(* created it, until that file is the guide or is removed, or an updater   *)
(* of the same millisecond takes it.                                       *)
NamesPrivate ==
  /\ \A s \in DOMAIN temps : temps[s] # guide
  /\ \A s, r \in DOMAIN temps : temps[s] = temps[r] => s = r
  /\ \A p \in Updaters \ shared, q \in Updaters :
       (/\ pc[p] \in {"write", "rename"} /\ pc[q] \in {"write", "rename"}
        /\ stamp[p] = stamp[q]) => p = q
  /\ ~ collided => shared = {}

FilesPrivate ==
  /\ \A p \in Updaters : Writing(p) => \A s \in DOMAIN temps : temps[s] = fd[p] => s = stamp[p]
  /\ \A p \in Updaters \ shared : Writing(p) =>
       /\ fd[p] # guide
       /\ stamp[p] \in DOMAIN temps => temps[stamp[p]] = fd[p]
  /\ \A p \in Improvers : Writing(p) => \A s \in DOMAIN temps : temps[s] # fd[p]
  /\ \A p \in Updaters \ shared, q \in Processes : Writing(p) /\ Writing(q) /\ fd[p] = fd[q] => p = q
  /\ \A p \in Updaters \ shared : Writing(p) => data[fd[p]] = Empty
  /\ \A p \in Improvers : Writing(p) /\ ~ collided => data[fd[p]] = Empty

(* What an updater is about to rename is all of its copy.                  *)
Complete ==
  \A p \in Updaters \ shared : (pc[p] = "rename" /\ stamp[p] \in DOMAIN temps)
                        => data[temps[stamp[p]]] = Json(copy[p])

(* Only a file that an improver has truncated, or two updates have used,   *)
(* stands for the guide unreadable.                                        *)
GuideSound ==
  Readable \/ broken \/ collided \/ \E p \in Improvers : Writing(p) /\ fd[p] = guide

IInv == TypeOK /\ HasJob /\ CopiesWhole /\ NamesPrivate /\ FilesPrivate /\ Complete /\ GuideSound

-----------------------------------------------------------------------------
LEMMA InGuides == ASSUME NEW g \in Guides
                  PROVE  g \in [DOMAIN g -> Statuses] /\ DOMAIN g \subseteq AllTasks
  BY DEF Guides

LEMMA GuidesIn == ASSUME NEW D \in SUBSET AllTasks, NEW g \in [D -> Statuses] PROVE g \in Guides
  BY DEF Guides

(* Changing the status of a task in a guide leaves a guide.                *)
LEMMA UpdatedGuide == ASSUME NEW g \in Guides, NEW t, NEW s \in Statuses
                      PROVE  [g EXCEPT ![t] = s] \in Guides
<1>1. [g EXCEPT ![t] = s] \in [DOMAIN g -> Statuses]
  BY InGuides
<1> QED
  BY <1>1, InGuides, GuidesIn

(* So does adding tasks.                                                   *)
LEMMA ExtendedGuide == ASSUME NEW g \in Guides PROVE WithNewTasks(g) \in Guides
<1>1. WithNewTasks(g) \in [DOMAIN g \union NewTasks -> Statuses]
  BY InGuides DEF WithNewTasks, Statuses
<1>2. DOMAIN g \union NewTasks \subseteq AllTasks
  BY InGuides DEF AllTasks
<1> QED
  BY <1>1, <1>2, GuidesIn

LEMMA ReadableGuide == ASSUME TypeOK, Readable PROVE Current \in Guides
<1>1. data[guide] \in Content /\ data[guide].form = "json"
  BY DEF TypeOK, Readable
<1>2. data[guide] \in [form : {"json"}, tasks : Guides]
  BY <1>1 DEF Content
<1> QED
  BY <1>2 DEF Current

LEMMA ContentForms == /\ Empty \in Content /\ Torn \in Content /\ Empty.form # "json" /\ Torn.form # "json"
                      /\ \A g \in Guides : Json(g) \in Content /\ Json(g).form = "json"
  BY DEF Empty, Torn, Json, Content

LEMMA InitIInv == Init => IInv
<1> SUFFICES ASSUME Init PROVE IInv
  OBVIOUS
<1>1. PICK g \in [Tasks -> {"todo", "in_progress"}] :
        /\ data = [i \in Inodes |-> IF i = guide THEN Json(g) ELSE Empty]
        /\ confirmed = [t \in AllTasks |-> IF t \in Tasks THEN g[t] ELSE "absent"]
  BY DEF Init
<1>2. g \in Guides
  BY GuidesIn DEF AllTasks, Statuses
<1>3. \A p \in Processes : pc[p] = "idle" /\ shared = {} /\ collided = FALSE
  BY DEF Init
<1>4. TypeOK
  <2>1. data \in [Inodes -> Content]
    BY <1>1, <1>2, ContentForms
  <2>2. [t \in {} |-> "todo"] \in Guides
    <3>1. [t \in {} |-> "todo"] \in [{} -> Statuses]
      OBVIOUS
    <3> QED
      BY <3>1, GuidesIn
  <2>3. confirmed \in [AllTasks -> Statuses \union {"absent"}]
    BY <1>1 DEF AllTasks, Statuses
  <2> QED
    BY <2>1, <2>2, <2>3 DEF Init, TypeOK, NoJob
<1>5. CopiesWhole
  BY <1>1, <1>3, ContentForms DEF CopiesWhole, HoldsCopy, Json, Processes
<1>6. GuideSound
  BY <1>1, <1>2, ContentForms DEF GuideSound, Readable, Init
<1> QED
  BY <1>3, <1>4, <1>5, <1>6
     DEF Init, IInv, HasJob, NamesPrivate, FilesPrivate, Complete, Writing, Processes

-----------------------------------------------------------------------------
(* A step of p that touches no file and leaves p with nothing to write.    *)
LEMMA ReleasedIInv ==
  ASSUME IInv, TypeOK', HasJob',
         NEW p \in Processes, NEW x \in {"idle", "look", "read", "retry", "cleanup"},
         pc' = [pc EXCEPT ![p] = x],
         \A q \in Processes \ {p} : job'[q] = job[q],
         UNCHANGED <<disk, copy, fd, stamp, names>>,
         (p \in Improvers /\ Writing(p)) => broken',
         broken => broken'
  PROVE  IInv'
<1>1. /\ pc'[p] = x
      /\ \A q \in Processes \ {p} : pc'[q] = pc[q]
  BY DEF IInv, TypeOK
<1>2. \A q \in Processes : pc'[q] \in {"open", "write", "rename", "overwrite"} => q # p /\ pc[q] = pc'[q]
  BY <1>1
<1>3. CopiesWhole'
  BY <1>2 DEF IInv, CopiesWhole, HoldsCopy, disk, names, Processes
<1>4. NamesPrivate'
  BY <1>2 DEF IInv, NamesPrivate, disk, names, Processes
<1>5. FilesPrivate'
  BY <1>2 DEF IInv, FilesPrivate, Writing, disk, names, Processes
<1>6. Complete'
  BY <1>2 DEF IInv, Complete, disk, names, Processes
<1>7. GuideSound'
  BY <1>1 DEF IInv, GuideSound, Writing, Readable, disk, names, Processes
<1> QED
  BY <1>3, <1>4, <1>5, <1>6, <1>7 DEF IInv

LEMMA RequestIInv == ASSUME IInv, NEW p \in Updaters, Request(p) PROVE IInv'
<1>1. PICK t \in Tasks, s \in {"in_progress", "completed"} :
        job' = [job EXCEPT ![p] = [task |-> t, status |-> s, by |-> "updater"]]
  BY DEF Request
<1>2. /\ job'[p] = [task |-> t, status |-> s, by |-> "updater"]
      /\ \A q \in Processes \ {p} : job'[q] = job[q]
  BY <1>1 DEF IInv, TypeOK, Processes
<1>3. TypeOK'
  BY <1>1 DEF IInv, TypeOK, Request, Goto, disk, history, Statuses, Processes
<1>4. HasJob'
  BY <1>2 DEF IInv, TypeOK, HasJob, Request, Goto, Statuses, Processes
<1> QED
  BY <1>2, <1>3, <1>4, ReleasedIInv DEF Request, Goto, history, names, Processes, Writing

LEMMA LookIInv == ASSUME IInv, NEW p \in Updaters, Look(p) PROVE IInv'
<1>1. PICK x \in {"read", "idle"} : pc' = [pc EXCEPT ![p] = x]
  BY DEF Look, Goto
<1>2. TypeOK'
  BY <1>1 DEF IInv, TypeOK, Look, disk, local, history, Processes
<1>3. HasJob'
  BY <1>1 DEF IInv, TypeOK, HasJob, Look, local, Processes
<1> QED
  BY <1>1, <1>2, <1>3, ReleasedIInv DEF Look, local, history, names, Processes, Writing

LEMMA CrashIInv == ASSUME IInv, NEW p \in Processes, Crash(p) PROVE IInv'
<1>1. TypeOK'
  BY DEF IInv, TypeOK, Crash, Goto, disk, local, names
<1>2. HasJob'
  BY DEF IInv, TypeOK, HasJob, Crash, Goto, local, Processes
<1> QED
  BY <1>1, <1>2, ReleasedIInv DEF Crash, Goto, local, Writing

LEMMA RenameFailsIInv == ASSUME IInv, NEW p \in Updaters, RenameFails(p) PROVE IInv'
<1>1. PICK x \in {"retry", "cleanup"} : pc' = [pc EXCEPT ![p] = x]
  BY DEF RenameFails, Goto, AfterFailure
<1>2. TypeOK'
  BY <1>1 DEF IInv, TypeOK, RenameFails, disk, local, history, Processes
<1>3. HasJob'
  BY <1>1 DEF IInv, TypeOK, HasJob, RenameFails, local, Processes
<1> QED
  BY <1>1, <1>2, <1>3, ReleasedIInv DEF RenameFails, local, history, names, Processes, Writing

(* An updater has read the guide and knows what to write.                  *)
LEMMA FilledIInv ==
  ASSUME IInv, TypeOK', NEW p \in Updaters, pc[p] \in {"read", "retry"}, Readable,
         copy' = [copy EXCEPT ![p] = [Current EXCEPT ![job[p].task] = job[p].status]],
         pc' = [pc EXCEPT ![p] = "open"],
         job'[p].task = job[p].task, job'[p].status = job[p].status,
         \A q \in Processes \ {p} : job'[q] = job[q],
         UNCHANGED <<disk, fd, stamp, broken, names>>
  PROVE  IInv'
<1>1. /\ p \in Processes /\ pc'[p] = "open"
      /\ \A q \in Processes \ {p} : pc'[q] = pc[q] /\ copy'[q] = copy[q]
      /\ copy'[p] = [Current EXCEPT ![job[p].task] = job[p].status]
  BY DEF IInv, TypeOK, Processes
<1>2. job[p].task \in Tasks /\ Tasks \subseteq DOMAIN Current
  BY <1>1 DEF IInv, TypeOK, HasJob, CopiesWhole, Readable, Current
<1>3. HasJob'
  BY <1>1 DEF IInv, HasJob, Processes
<1>4. CopiesWhole'
  <2>1. Tasks \subseteq DOMAIN copy'[p] /\ copy'[p][job'[p].task] = job'[p].status
    BY <1>1, <1>2
  <2> QED
    BY <1>1, <2>1 DEF IInv, CopiesWhole, HoldsCopy, disk, names, Processes
<1>5. NamesPrivate'
  BY <1>1 DEF IInv, NamesPrivate, disk, names, Processes
<1>6. FilesPrivate'
  BY <1>1 DEF IInv, FilesPrivate, Writing, disk, names, Processes
<1>7. Complete'
  BY <1>1 DEF IInv, Complete, disk, names, Processes
<1>8. GuideSound'
  BY <1>1 DEF IInv, GuideSound, Writing, Readable, disk, names, Processes
<1> QED
  BY <1>3, <1>4, <1>5, <1>6, <1>7, <1>8 DEF IInv

LEMMA CopyType ==
  ASSUME IInv, Readable, NEW p \in Updaters, pc[p] # "idle",
         copy' = [copy EXCEPT ![p] = [Current EXCEPT ![job[p].task] = job[p].status]]
  PROVE  copy' \in [Processes -> Guides]
<1>1. Current \in Guides /\ job[p].status \in Statuses
  BY ReadableGuide DEF IInv, HasJob
<1>2. [Current EXCEPT ![job[p].task] = job[p].status] \in Guides
  BY <1>1, UpdatedGuide
<1> QED
  BY <1>2 DEF IInv, TypeOK

LEMMA ReadIInv == ASSUME IInv, NEW p \in Updaters, Read(p) PROVE IInv'
<1>0. p \in Processes
  BY DEF Processes
<1>1. CASE Readable
  <2>1. /\ copy' = [copy EXCEPT ![p] = [Current EXCEPT ![job[p].task] = job[p].status]]
        /\ pc' = [pc EXCEPT ![p] = "open"] /\ job' = job /\ pc[p] = "read"
    BY <1>1 DEF Read, Goto
  <2>2. TypeOK'
    BY <1>0, <1>1, <2>1, CopyType DEF IInv, TypeOK, Read, disk, names
  <2> QED
    BY <1>1, <2>1, <2>2, FilledIInv DEF Read
<1>2. CASE ~ Readable
  <2>1. pc' = [pc EXCEPT ![p] = "retry"] /\ copy' = copy /\ job' = job /\ pc[p] = "read"
    BY <1>2 DEF Read, Goto
  <2>2. TypeOK'
    BY <1>0, <2>1 DEF IInv, TypeOK, Read, disk, names
  <2>3. HasJob'
    BY <1>0, <2>1 DEF IInv, TypeOK, HasJob, Processes
  <2> QED
    BY <1>0, <2>1, <2>2, <2>3, ReleasedIInv DEF Read, Writing
<1> QED
  BY <1>1, <1>2

LEMMA RetryIInv == ASSUME IInv, NEW p \in Updaters, Retry(p) PROVE IInv'
<1>0. p \in Processes /\ pc[p] = "retry"
  BY DEF Processes, Retry
<1>1. CASE Readable /\ ValidTransition(Current[job[p].task], job[p].status)
  <2>1. /\ copy' = [copy EXCEPT ![p] = [Current EXCEPT ![job[p].task] = job[p].status]]
        /\ pc' = [pc EXCEPT ![p] = "open"] /\ job' = [job EXCEPT ![p].by = "config"]
    BY <1>1 DEF Retry, Goto
  <2>2. /\ job' \in [Processes -> [task : Tasks \union {"none"}, status : Statuses \union {"none"},
                                   by : {"none", "updater", "config"}]]
        /\ job'[p].task = job[p].task /\ job'[p].status = job[p].status
        /\ \A q \in Processes \ {p} : job'[q] = job[q]
    BY <1>0, <2>1 DEF IInv, TypeOK
  <2>3. TypeOK'
    BY <1>0, <1>1, <2>1, <2>2, CopyType DEF IInv, TypeOK, Retry, disk, names
  <2> QED
    BY <1>0, <1>1, <2>1, <2>2, <2>3, FilledIInv DEF Retry
<1>2. CASE ~ (Readable /\ ValidTransition(Current[job[p].task], job[p].status))
  <2>1. pc' = [pc EXCEPT ![p] = "idle"] /\ copy' = copy /\ job' = job
    BY <1>2 DEF Retry, Goto
  <2>2. TypeOK'
    BY <1>0, <2>1 DEF IInv, TypeOK, Retry, disk, names
  <2>3. HasJob'
    BY <1>0, <2>1 DEF IInv, TypeOK, HasJob, Processes
  <2> QED
    BY <1>0, <2>1, <2>2, <2>3, ReleasedIInv DEF Retry, Writing
<1> QED
  BY <1>1, <1>2

-----------------------------------------------------------------------------
(* A name is that of a new file, unless it is in use: then those who use   *)
(* it and the one who opens it share it.                                   *)
LEMMA OpenIInv == ASSUME IInv, NEW p \in Updaters, Open(p) PROVE IInv'
<1>1. /\ p \in Processes /\ pc[p] = "open" /\ now \in Nat
      /\ pc' = [pc EXCEPT ![p] = "write"]
      /\ UNCHANGED <<guide, job, copy, updates, faults, confirmed, stale, overlapped, broken>>
  BY DEF Processes, Open, Goto, IInv, TypeOK
<1>2. PICK s \in Stamps :
        /\ now' = s /\ stamp' = [stamp EXCEPT ![p] = s]
        /\ \E i \in IF s \in DOMAIN temps THEN {temps[s]} ELSE Unused :
             /\ temps' = [r \in DOMAIN temps \union {s} |-> IF r = s THEN i ELSE temps[r]]
             /\ fd' = [fd EXCEPT ![p] = i] /\ data' = [data EXCEPT ![i] = Empty]
        /\ shared' = IF Sharers(p, s) = {} THEN shared \ {p} ELSE shared \union Sharers(p, s) \union {p}
        /\ collided' = (collided \/ Sharers(p, s) # {})
  BY DEF Open
<1>3. PICK i \in IF s \in DOMAIN temps THEN {temps[s]} ELSE Unused :
        /\ temps' = [r \in DOMAIN temps \union {s} |-> IF r = s THEN i ELSE temps[r]]
        /\ fd' = [fd EXCEPT ![p] = i] /\ data' = [data EXCEPT ![i] = Empty]
  BY <1>2
<1>4. s \in Nat
  BY <1>1 DEF Stamps
<1>5. i \in Inodes /\ i # guide /\ \A r \in DOMAIN temps : temps[r] = i => r = s
  BY <1>3 DEF IInv, TypeOK, NamesPrivate, Unused, Named
<1>6. \A q \in Processes \ {p} : Writing(q) /\ fd[q] = i => q \in Sharers(p, s)
  <2> SUFFICES ASSUME NEW q \in Processes \ {p}, Writing(q), fd[q] = i PROVE q \in Sharers(p, s)
    OBVIOUS
  <2>1. s \in DOMAIN temps /\ temps[s] = i
    BY <1>3 DEF Unused, Writing
  <2>2. q \in Updaters /\ stamp[q] = s
    BY <2>1 DEF IInv, FilesPrivate, Processes
  <2> QED
    BY <2>2 DEF Sharers, Writing
<1>7. /\ pc'[p] = "write" /\ stamp'[p] = s /\ fd'[p] = i /\ data'[i] = Empty
      /\ \A q \in Processes \ {p} : pc'[q] = pc[q] /\ stamp'[q] = stamp[q] /\ fd'[q] = fd[q]
      /\ \A j \in Inodes \ {i} : data'[j] = data[j]
      /\ DOMAIN temps' = DOMAIN temps \union {s} /\ temps'[s] = i
      /\ \A r \in DOMAIN temps \ {s} : temps'[r] = temps[r]
  BY <1>1, <1>2, <1>3, <1>5 DEF IInv, TypeOK
<1>8. /\ \A q \in Updaters \ shared' : q # p => q \notin shared /\ q \notin Sharers(p, s)
      /\ p \notin shared' => Sharers(p, s) = {}
      /\ ~ collided' => ~ collided /\ Sharers(p, s) = {}
  BY <1>2
<1>9. TypeOK'
  <2>1. data' \in [Inodes -> Content] /\ fd' \in [Processes -> Inodes]
    BY <1>1, <1>3, <1>5, ContentForms DEF IInv, TypeOK
  <2>2. temps' \in [DOMAIN temps' -> Inodes] /\ DOMAIN temps' \subseteq Nat
    BY <1>3, <1>4, <1>5 DEF IInv, TypeOK
  <2>3. shared' \in SUBSET Updaters /\ collided' \in BOOLEAN
    BY <1>2 DEF IInv, TypeOK, Sharers
  <2>4. now' \in Nat /\ stamp' \in [Processes -> Nat]
    BY <1>1, <1>2, <1>4 DEF IInv, TypeOK
  <2> QED
    BY <1>1, <2>1, <2>2, <2>3, <2>4 DEF IInv, TypeOK
<1>10. HasJob'
  BY <1>1, <1>7 DEF IInv, HasJob, Processes
<1>11. CopiesWhole'
  BY <1>1, <1>7, ContentForms DEF IInv, CopiesWhole, HoldsCopy, Processes
<1>12. NamesPrivate'
  <2>1. \A r \in DOMAIN temps' : temps'[r] # guide'
    BY <1>1, <1>5, <1>7 DEF IInv, NamesPrivate
  <2>2. \A r, q \in DOMAIN temps' : temps'[r] = temps'[q] => r = q
    BY <1>5, <1>7 DEF IInv, NamesPrivate
  <2>3. ASSUME NEW q \in Updaters \ shared', NEW r \in Updaters, q # r,
               pc'[q] \in {"write", "rename"}, pc'[r] \in {"write", "rename"}, stamp'[q] = stamp'[r]
        PROVE  FALSE
    <3>1. CASE q = p
      <4>1. r \in Sharers(p, s)
        BY <1>7, <2>3, <3>1 DEF Sharers, Processes
      <4> QED
        BY <1>8, <3>1, <4>1
    <3>2. CASE q # p /\ r = p
      <4>1. q \in Sharers(p, s)
        BY <1>7, <2>3, <3>2 DEF Sharers, Processes
      <4> QED
        BY <1>8, <3>2, <4>1
    <3>3. CASE q # p /\ r # p
      BY <1>7, <1>8, <2>3, <3>3 DEF IInv, NamesPrivate, Processes
    <3> QED
      BY <3>1, <3>2, <3>3
  <2>4. ~ collided' => shared' = {}
    BY <1>2, <1>8 DEF IInv, NamesPrivate
  <2> QED
    BY <2>1, <2>2, <2>3, <2>4 DEF NamesPrivate
<1>13. FilesPrivate'
  <2>1. \A q \in Processes \ {p} : Writing(q)' => Writing(q) /\ fd'[q] = fd[q] /\ fd[q] \in Inodes
    BY <1>7 DEF Writing, IInv, TypeOK
  <2>2. ASSUME NEW q \in Updaters, Writing(q)', NEW r \in DOMAIN temps', temps'[r] = fd'[q]
        PROVE  r = stamp'[q]
    <3>1. CASE q = p
      BY <1>5, <1>7, <2>2, <3>1
    <3>2. CASE q # p /\ r = s
      BY <1>6, <1>7, <2>1, <2>2, <3>2 DEF Sharers, Processes
    <3>3. CASE q # p /\ r # s
      BY <1>7, <2>1, <2>2, <3>3 DEF IInv, FilesPrivate, Processes
    <3> QED
      BY <3>1, <3>2, <3>3
  <2>3. ASSUME NEW q \in Updaters \ shared', Writing(q)'
        PROVE  /\ fd'[q] # guide'
               /\ stamp'[q] \in DOMAIN temps' => temps'[stamp'[q]] = fd'[q]
               /\ data'[fd'[q]] = Empty
    <3>1. CASE q = p
      BY <1>1, <1>5, <1>7, <3>1
    <3>2. CASE q # p
      <4>1. q \notin shared /\ q \notin Sharers(p, s) /\ Writing(q) /\ q \in Processes
        BY <1>8, <2>1, <2>3, <3>2 DEF Processes
      <4>2. fd[q] # i /\ stamp[q] # s
        BY <1>6, <3>2, <4>1 DEF Sharers, Writing
      <4> QED
        BY <1>1, <1>7, <2>1, <3>2, <4>1, <4>2, <2>3 DEF IInv, FilesPrivate
    <3> QED
      BY <3>1, <3>2
  <2>4. ASSUME NEW q \in Improvers, Writing(q)'
        PROVE  /\ \A r \in DOMAIN temps' : temps'[r] # fd'[q]
               /\ ~ collided' => data'[fd'[q]] = Empty
    <3>1. q \in Processes \ {p} /\ q \notin Updaters
      BY StoreAssumption DEF Processes
    <3>2. fd[q] # i /\ Writing(q) /\ fd'[q] = fd[q] /\ fd[q] \in Inodes
      BY <1>6, <2>1, <2>4, <3>1 DEF Sharers
    <3> QED
      BY <1>7, <1>8, <3>1, <3>2 DEF IInv, FilesPrivate
  <2>5. ASSUME NEW q \in Updaters \ shared', NEW r \in Processes, Writing(q)', Writing(r)',
               fd'[q] = fd'[r], q # r
        PROVE  FALSE
    <3>1. CASE q = p
      <4>1. r \in Sharers(p, s)
        BY <1>6, <1>7, <2>1, <2>5, <3>1
      <4> QED
        BY <1>8, <3>1, <4>1
    <3>2. CASE q # p /\ r = p
      <4>1. q \in Sharers(p, s)
        BY <1>6, <1>7, <2>1, <2>5, <3>2 DEF Processes
      <4> QED
        BY <1>8, <3>2, <4>1
    <3>3. CASE q # p /\ r # p
      BY <1>7, <1>8, <2>1, <2>5, <3>3 DEF IInv, FilesPrivate, Processes
    <3> QED
      BY <3>1, <3>2, <3>3
  <2> QED
    BY <2>2, <2>3, <2>4, <2>5 DEF FilesPrivate
<1>14. Complete'
  <2>1. SUFFICES ASSUME NEW q \in Updaters \ shared', pc'[q] = "rename", stamp'[q] \in DOMAIN temps'
                 PROVE  data'[temps'[stamp'[q]]] = Json(copy'[q])
    BY DEF Complete
  <2>2. q \in Processes \ {p} /\ pc[q] = "rename" /\ stamp'[q] = stamp[q]
    BY <1>7, <2>1 DEF Processes
  <2>3. q \notin shared /\ stamp[q] # s
    BY <1>8, <2>2 DEF Sharers
  <2>4. stamp[q] \in DOMAIN temps /\ temps[stamp[q]] \in Inodes \ {i}
    BY <1>5, <1>7, <2>1, <2>2, <2>3 DEF IInv, TypeOK
  <2> QED
    BY <1>1, <1>7, <2>2, <2>3, <2>4 DEF IInv, Complete
<1>15. GuideSound'
  <2>1. Readable => Readable'
    BY <1>1, <1>5, <1>7 DEF Readable, IInv, TypeOK
  <2>2. \A q \in Improvers : Writing(q) => Writing(q)' /\ fd'[q] = fd[q]
    BY <1>1, <1>7 DEF Writing, Processes
  <2>3. collided => collided'
    BY <1>2
  <2> QED
    BY <1>1, <2>1, <2>2, <2>3 DEF IInv, GuideSound
<1> QED
  BY <1>9, <1>10, <1>11, <1>12, <1>13, <1>14, <1>15 DEF IInv

(* What an updater writes to its file, others neither write, rename nor    *)
(* read, unless they share it.                                             *)
LEMMA OwnFile ==
  ASSUME IInv, NEW p \in Updaters, Writing(p), NEW c \in Content,
         data' = [data EXCEPT ![fd[p]] = c]
  PROVE  /\ data' \in [Inodes -> Content] /\ data'[fd[p]] = c
         /\ p \notin shared => data'[guide] = data[guide]
         /\ \A q \in Updaters \ shared : q # p /\ Writing(q) => data'[fd[q]] = data[fd[q]]
         /\ \A q \in Improvers : ~ collided /\ Writing(q) => data'[fd[q]] = data[fd[q]]
         /\ \A q \in Updaters \ shared : q # p /\ pc[q] = "rename" /\ stamp[q] \in DOMAIN temps
              => data'[temps[stamp[q]]] = data[temps[stamp[q]]]
         /\ \A i \in Inodes : i # fd[p] => data'[i] = data[i]
<1>1. p \in Processes /\ fd[p] \in Inodes
  BY DEF IInv, TypeOK, Processes
<1>2. p \notin shared => fd[p] # guide
  BY DEF IInv, FilesPrivate
<1>3. \A q \in Updaters \ shared : q # p /\ Writing(q) => fd[q] # fd[p] /\ fd[q] \in Inodes
  BY <1>1 DEF IInv, FilesPrivate, TypeOK, Processes
<1>4. \A q \in Improvers : ~ collided /\ Writing(q) => fd[q] # fd[p] /\ fd[q] \in Inodes
  BY <1>1, StoreAssumption DEF IInv, NamesPrivate, FilesPrivate, TypeOK, Processes
<1>5. ASSUME NEW q \in Updaters \ shared, q # p, pc[q] = "rename", stamp[q] \in DOMAIN temps
      PROVE  temps[stamp[q]] # fd[p] /\ temps[stamp[q]] \in Inodes
  BY <1>5 DEF IInv, TypeOK, FilesPrivate, NamesPrivate, Writing
<1> QED
  BY <1>1, <1>2, <1>3, <1>4, <1>5 DEF IInv, TypeOK

(* Writing to a file, in whole or in part, and going on to x.              *)
LEMMA WrittenIInv ==
  ASSUME IInv, NEW p \in Updaters, Writing(p), TypeOK',
         NEW c \in Content, data' = [data EXCEPT ![fd[p]] = c],
         c.form = "json" => Tasks \subseteq DOMAIN c.tasks,
         NEW x \in {"rename", "retry", "cleanup"}, pc' = [pc EXCEPT ![p] = x],
         x = "rename" /\ p \notin shared => c = Json(copy[p]),
         UNCHANGED <<guide, temps, now, local, history>>
  PROVE  IInv'
<1>1. /\ p \in Processes /\ pc'[p] = x /\ \A q \in Processes \ {p} : pc'[q] = pc[q]
      /\ UNCHANGED <<job, copy, fd, stamp, broken, shared, collided>>
  BY DEF IInv, TypeOK, Processes, local, history
<1>0. /\ p \notin shared => data'[guide] = data[guide]
      /\ data'[fd[p]] = c
      /\ \A q \in Updaters \ shared : q # p /\ Writing(q) => data'[fd[q]] = data[fd[q]]
      /\ \A q \in Improvers : ~ collided /\ Writing(q) => data'[fd[q]] = data[fd[q]]
      /\ \A q \in Updaters \ shared : q # p /\ pc[q] = "rename" /\ stamp[q] \in DOMAIN temps
           => data'[temps[stamp[q]]] = data[temps[stamp[q]]]
      /\ \A i \in Inodes : i # fd[p] => data'[i] = data[i]
  BY OwnFile
<1>2. HasJob'
  BY <1>1 DEF IInv, HasJob, Processes, Writing
<1>3. CopiesWhole'
  <2>1. \A i \in Inodes : data'[i] = data[i] \/ data'[i] = c
    BY <1>0
  <2>2. HoldsCopy(p)
    BY DEF HoldsCopy, Writing
  <2> QED
    BY <1>1, <2>1, <2>2 DEF IInv, CopiesWhole, HoldsCopy, Processes
<1>4. NamesPrivate'
  BY <1>1 DEF IInv, NamesPrivate, Processes, Writing
<1>5. FilesPrivate'
  <2>1. \A q \in Processes : Writing(q)' => Writing(q) /\ q # p
    BY <1>1 DEF Writing
  <2>2. /\ \A q \in Updaters \ shared : Writing(q)' => data'[fd[q]] = Empty
        /\ \A q \in Improvers : Writing(q)' /\ ~ collided => data'[fd[q]] = Empty
    BY <1>0, <2>1 DEF IInv, FilesPrivate, Processes
  <2> QED
    BY <1>1, <2>1, <2>2 DEF IInv, FilesPrivate, Processes
<1>6. Complete'
  <2>1. SUFFICES ASSUME NEW q \in Updaters \ shared, pc'[q] = "rename", stamp[q] \in DOMAIN temps
                 PROVE  data'[temps[stamp[q]]] = Json(copy[q])
    BY <1>1 DEF Complete
  <2>2. CASE q = p
    <3>1. temps[stamp[p]] = fd[p]
      BY <2>1, <2>2 DEF IInv, FilesPrivate
    <3> QED
      BY <1>0, <1>1, <2>1, <2>2, <3>1
  <2>3. CASE q # p
    <3>1. pc[q] = "rename"
      BY <1>1, <2>1, <2>3 DEF Processes
    <3> QED
      BY <1>0, <2>1, <2>3, <3>1 DEF IInv, Complete
  <2> QED
    BY <2>2, <2>3
<1>7. GuideSound'
  <2>1. Readable => Readable' \/ collided
    BY <1>0 DEF Readable, IInv, NamesPrivate
  <2>2. \A q \in Improvers : Writing(q) => Writing(q)'
    BY <1>1, StoreAssumption DEF Writing, Processes
  <2> QED
    BY <1>1, <2>1, <2>2 DEF IInv, GuideSound
<1> QED
  BY <1>2, <1>3, <1>4, <1>5, <1>6, <1>7 DEF IInv

LEMMA WriteIInv == ASSUME IInv, NEW p \in Updaters, Write(p) PROVE IInv'
<1>1. /\ p \in Processes /\ Writing(p) /\ pc' = [pc EXCEPT ![p] = "rename"]
      /\ UNCHANGED <<guide, temps, now, local, updates, faults, history>>
  BY DEF Processes, Write, Writing, Goto
<1>2. copy[p] \in Guides /\ Tasks \subseteq DOMAIN copy[p]
  BY <1>1 DEF IInv, TypeOK, CopiesWhole, HoldsCopy, Writing
<1>3. /\ Json(copy[p]) \in Content /\ Json(copy[p]).tasks = copy[p]
      /\ Torn \in Content /\ Torn.form # "json"
  BY <1>2, ContentForms DEF Json
<1>4. PICK c \in {Json(copy[p]), Torn} :
        data' = [data EXCEPT ![fd[p]] = c] /\ (p \notin shared => c = Json(copy[p]))
  <2>1. CASE data[fd[p]] = Empty
    BY <2>1 DEF Write, Written
  <2>2. CASE data[fd[p]] # Empty
    BY <1>1, <2>2 DEF Write, Written, IInv, FilesPrivate
  <2> QED
    BY <2>1, <2>2
<1>5. TypeOK'
  BY <1>1, <1>3, <1>4, OwnFile DEF IInv, TypeOK, local, history
<1> QED
  BY <1>1, <1>2, <1>3, <1>4, <1>5, WrittenIInv

LEMMA WriteFailsIInv == ASSUME IInv, NEW p \in Updaters, WriteFails(p) PROVE IInv'
<1>1. /\ p \in Processes /\ Writing(p) /\ data' = [data EXCEPT ![fd[p]] = Torn]
      /\ UNCHANGED <<guide, temps, now, local, updates, history>>
      /\ faults' = faults + 1
  BY DEF Processes, WriteFails, Writing
<1>2. PICK x \in {"retry", "cleanup"} : pc' = [pc EXCEPT ![p] = x]
  BY DEF WriteFails, Goto, AfterFailure
<1>3. Torn \in Content /\ Torn.form # "json"
  BY ContentForms
<1>4. TypeOK'
  BY <1>1, <1>2, <1>3, OwnFile DEF IInv, TypeOK, local, history
<1> QED
  BY <1>1, <1>2, <1>3, <1>4, WrittenIInv

(* The file an updater renames is its own and complete, unless it is shared. *)
LEMMA RenameIInv == ASSUME IInv, NEW p \in Updaters, Rename(p) PROVE IInv'
<1>1. /\ p \in Processes /\ pc[p] = "rename" /\ stamp[p] \in DOMAIN temps
      /\ guide' = temps[stamp[p]] /\ pc' = [pc EXCEPT ![p] = "idle"]
      /\ temps' = [s \in DOMAIN temps \ {stamp[p]} |-> temps[s]]
      /\ confirmed' = [confirmed EXCEPT ![job[p].task] = job[p].status]
      /\ stale' = [q \in Processes |-> q # p /\ (stale[q] \/ HoldsCopy(q))]
      /\ overlapped' = (overlapped \/ stale[p])
      /\ UNCHANGED <<data, now, local, updates, faults, broken, shared, collided>>
  BY DEF Processes, Rename, Goto, GuideReplacedBy, names
<1>2. /\ pc'[p] = "idle" /\ \A q \in Processes \ {p} : pc'[q] = pc[q]
      /\ DOMAIN temps' = DOMAIN temps \ {stamp[p]}
      /\ \A s \in DOMAIN temps' : temps'[s] = temps[s] /\ temps[s] # guide'
  BY <1>1 DEF IInv, TypeOK, NamesPrivate
<1>3. copy[p] \in Guides /\ (p \notin shared => data[guide'] = Json(copy[p]))
  BY <1>1 DEF IInv, Complete, TypeOK
<1>4. TypeOK'
  <2>1. guide' \in Inodes /\ temps' \in [DOMAIN temps' -> Inodes] /\ DOMAIN temps' \subseteq Nat
    BY <1>1, <1>2 DEF IInv, TypeOK
  <2>2. confirmed' \in [AllTasks -> Statuses \union {"absent"}]
    BY <1>1 DEF IInv, TypeOK, HasJob
  <2>3. stale' \in [Processes -> BOOLEAN] /\ overlapped' \in BOOLEAN
    BY <1>1 DEF IInv, TypeOK, HoldsCopy
  <2> QED
    BY <1>1, <2>1, <2>2, <2>3 DEF IInv, TypeOK, local
<1>5. HasJob'
  BY <1>1, <1>2 DEF IInv, HasJob, Processes, local
<1>6. CopiesWhole'
  BY <1>1, <1>2 DEF IInv, CopiesWhole, HoldsCopy, local, Processes
<1>7. NamesPrivate'
  BY <1>1, <1>2 DEF IInv, NamesPrivate, local, Processes
<1>8. FilesPrivate'
  <2>1. \A q \in Processes : Writing(q)' => q # p /\ Writing(q)
    BY <1>2 DEF Writing
  <2>2. ASSUME NEW q \in Updaters \ shared, Writing(q)' PROVE fd[q] # guide'
    <3>1. q # p /\ Writing(q)
      BY <2>1, <2>2 DEF Processes
    <3>2. stamp[q] # stamp[p]
      BY <1>1, <3>1 DEF IInv, NamesPrivate, Writing
    <3> QED
      BY <1>1, <3>1, <3>2 DEF IInv, FilesPrivate
  <2> QED
    BY <1>1, <1>2, <2>1, <2>2 DEF IInv, FilesPrivate, local, Processes
<1>9. Complete'
  <2>1. SUFFICES ASSUME NEW q \in Updaters \ shared, pc'[q] = "rename", stamp[q] \in DOMAIN temps'
                 PROVE  data[temps'[stamp[q]]] = Json(copy[q])
    BY <1>1 DEF Complete, local
  <2> QED
    BY <1>2, <2>1 DEF IInv, Complete, Processes
<1>10. GuideSound'
  BY <1>1, <1>3, ContentForms DEF IInv, NamesPrivate, GuideSound, Readable
<1> QED
  BY <1>4, <1>5, <1>6, <1>7, <1>8, <1>9, <1>10 DEF IInv

LEMMA CleanupIInv == ASSUME IInv, NEW p \in Updaters, Cleanup(p) PROVE IInv'
<1>1. /\ p \in Processes /\ pc[p] = "cleanup" /\ pc' = [pc EXCEPT ![p] = "idle"]
      /\ temps' = [s \in {} |-> guide]
      /\ UNCHANGED <<data, guide, now, local, updates, faults, history>>
  BY DEF Processes, Cleanup, Goto
<1>2. /\ pc'[p] = "idle" /\ \A q \in Processes \ {p} : pc'[q] = pc[q]
      /\ DOMAIN temps' = {}
  BY <1>1 DEF IInv, TypeOK
<1>3. TypeOK'
  BY <1>1, <1>2 DEF IInv, TypeOK, local, history
<1>4. HasJob' /\ CopiesWhole'
  BY <1>1, <1>2 DEF IInv, HasJob, CopiesWhole, HoldsCopy, local, Processes
<1>5. NamesPrivate'
  BY <1>1, <1>2 DEF IInv, NamesPrivate, local, history, Processes
<1>6. FilesPrivate'
  BY <1>1, <1>2 DEF IInv, FilesPrivate, local, history, Processes, Writing
<1>7. Complete'
  BY <1>2 DEF Complete
<1>8. GuideSound'
  <2>1. \A q \in Processes : Writing(q) => Writing(q)'
    BY <1>1, <1>2 DEF Writing
  <2> QED
    BY <1>1, <2>1 DEF IInv, GuideSound, Readable, local, history, Processes
<1> QED
  BY <1>3, <1>4, <1>5, <1>6, <1>7, <1>8 DEF IInv

-----------------------------------------------------------------------------
(* Two improvers could write to the same file; of one there is no doubt    *)
(* what it leaves there.                                                   *)
OneImprover == \A p, q \in Improvers : p = q

LEMMA AddTasksReadIInv == ASSUME IInv, NEW p \in Improvers, AddTasksRead(p) PROVE IInv'
<1>1. /\ p \in Processes /\ p \notin Updaters /\ pc[p] = "idle" /\ Readable
      /\ pc' = [pc EXCEPT ![p] = "overwrite"]
      /\ updates' = updates + 1
      /\ copy' = [copy EXCEPT ![p] = WithNewTasks(Current)]
      /\ stale' = [stale EXCEPT ![p] = FALSE]
      /\ UNCHANGED <<disk, job, fd, stamp, faults, confirmed, overlapped, broken, shared, collided>>
  BY StoreAssumption DEF Processes, AddTasksRead, Goto, names
<1>2. Current \in Guides /\ Tasks \subseteq DOMAIN Current
  BY <1>1, ReadableGuide DEF IInv, TypeOK, CopiesWhole, Readable, Current
<1>3. WithNewTasks(Current) \in Guides /\ Tasks \subseteq DOMAIN WithNewTasks(Current)
  BY <1>2, ExtendedGuide DEF WithNewTasks
<1>4. /\ pc'[p] = "overwrite" /\ copy'[p] = WithNewTasks(Current)
      /\ \A q \in Processes \ {p} : pc'[q] = pc[q] /\ copy'[q] = copy[q]
  BY <1>1 DEF IInv, TypeOK
<1>5. TypeOK'
  BY <1>1, <1>3 DEF IInv, TypeOK, disk
<1>6. HasJob'
  BY <1>1, <1>4 DEF IInv, HasJob, Processes
<1>7. CopiesWhole'
  BY <1>1, <1>3, <1>4 DEF IInv, CopiesWhole, HoldsCopy, disk, Processes
<1>8. NamesPrivate'
  BY <1>1, <1>4 DEF IInv, NamesPrivate, disk, Processes
<1>9. FilesPrivate'
  BY <1>1, <1>4 DEF IInv, FilesPrivate, disk, Processes, Writing
<1>10. Complete'
  BY <1>1, <1>4 DEF IInv, Complete, disk, Processes
<1>11. GuideSound'
  BY <1>1 DEF GuideSound, Readable, disk
<1> QED
  BY <1>5, <1>6, <1>7, <1>8, <1>9, <1>10, <1>11 DEF IInv

LEMMA AddTasksOpenIInv == ASSUME IInv, OneImprover, NEW p \in Improvers, AddTasksOpen(p) PROVE IInv'
<1>1. /\ p \in Processes /\ p \notin Updaters /\ pc[p] = "overwrite"
      /\ \A q \in Processes \ {p} : q \in Updaters
      /\ pc' = [pc EXCEPT ![p] = "write"]
      /\ fd' = [fd EXCEPT ![p] = guide] /\ data' = [data EXCEPT ![guide] = Empty]
      /\ UNCHANGED <<guide, temps, now, job, copy, stamp, updates, faults, history>>
  BY StoreAssumption DEF Processes, AddTasksOpen, Goto, OneImprover
<1>2. /\ pc'[p] = "write" /\ fd'[p] = guide /\ data'[guide] = Empty
      /\ \A q \in Processes \ {p} : pc'[q] = pc[q] /\ fd'[q] = fd[q]
      /\ \A i \in Inodes \ {guide} : data'[i] = data[i]
  BY <1>1 DEF IInv, TypeOK
<1>3. TypeOK'
  BY <1>1, ContentForms DEF IInv, TypeOK, history
<1>4. HasJob'
  BY <1>1, <1>2 DEF IInv, HasJob, Processes
<1>5. CopiesWhole'
  BY <1>1, <1>2, ContentForms DEF IInv, CopiesWhole, HoldsCopy, Processes
<1>6. NamesPrivate'
  BY <1>1, <1>2 DEF IInv, NamesPrivate, Processes, history
<1>7. FilesPrivate'
  <2>1. \A q \in Processes \ {p} : Writing(q)' => fd'[q] = fd[q] /\ fd[q] \in Inodes /\ Writing(q) /\ q \in Updaters
    BY <1>1, <1>2 DEF IInv, TypeOK, Writing
  <2>2. \A q \in Updaters : Writing(q)' => \A s \in DOMAIN temps' : temps'[s] = fd'[q] => s = stamp'[q]
    BY <1>1, <2>1 DEF IInv, FilesPrivate, Processes
  <2>3. \A q \in Updaters \ shared : Writing(q)' =>
          /\ fd'[q] # guide' /\ data'[fd'[q]] = Empty
          /\ stamp'[q] \in DOMAIN temps' => temps'[stamp'[q]] = fd'[q]
    BY <1>1, <1>2, <2>1 DEF IInv, FilesPrivate, Processes
  <2>4. \A s \in DOMAIN temps' : temps'[s] # fd'[p]
    BY <1>1, <1>2 DEF IInv, NamesPrivate
  <2>5. \A q \in Updaters \ shared, r \in Processes : Writing(q)' /\ Writing(r)' /\ fd'[q] = fd'[r] => q = r
    BY <1>1, <1>2, <2>1 DEF IInv, FilesPrivate, Processes
  <2>6. shared' = shared /\ collided' = collided
    BY <1>1 DEF history
  <2>7. \A q \in Improvers : q = p
    BY DEF OneImprover
  <2> QED
    BY <1>2, <2>2, <2>3, <2>4, <2>5, <2>6, <2>7 DEF FilesPrivate
<1>8. Complete'
  <2>1. SUFFICES ASSUME NEW q \in Updaters \ shared, pc'[q] = "rename", stamp[q] \in DOMAIN temps
                 PROVE  data'[temps[stamp[q]]] = Json(copy[q])
    BY <1>1 DEF Complete, history
  <2>2. temps[stamp[q]] \in Inodes \ {guide}
    BY <2>1 DEF IInv, TypeOK, NamesPrivate
  <2> QED
    BY <1>1, <1>2, <2>1, <2>2 DEF IInv, Complete, Processes
<1>9. GuideSound'
  BY <1>1, <1>2 DEF GuideSound, Writing
<1> QED
  BY <1>3, <1>4, <1>5, <1>6, <1>7, <1>8, <1>9 DEF IInv

(* The improver wrote c to the file it has open, and is done.              *)
LEMMA AddTasksDone ==
  ASSUME IInv, OneImprover, NEW p \in Improvers, Writing(p), TypeOK', GuideSound',
         NEW c \in Content, data' = [data EXCEPT ![fd[p]] = c],
         c.form = "json" => Tasks \subseteq DOMAIN c.tasks,
         pc' = [pc EXCEPT ![p] = "idle"],
         UNCHANGED <<guide, temps, now, local, names>>
  PROVE  IInv'
<1>1. /\ p \in Processes /\ p \notin Updaters /\ fd[p] \in Inodes
      /\ \A q \in Processes \ {p} : q \in Updaters
      /\ UNCHANGED <<job, copy, fd, stamp, shared, collided>>
  BY StoreAssumption DEF Processes, OneImprover, IInv, TypeOK, local, names
<1>2. /\ pc'[p] = "idle" /\ data'[fd[p]] = c
      /\ \A q \in Processes \ {p} : pc'[q] = pc[q]
      /\ \A i \in Inodes \ {fd[p]} : data'[i] = data[i]
  BY <1>1 DEF IInv, TypeOK
<1>3. HasJob'
  BY <1>1, <1>2 DEF IInv, HasJob, Processes
<1>4. CopiesWhole'
  BY <1>1, <1>2 DEF IInv, CopiesWhole, HoldsCopy, Processes
<1>5. NamesPrivate'
  BY <1>1, <1>2 DEF IInv, NamesPrivate, Processes
<1>6. FilesPrivate'
  <2>1. \A q \in Processes : Writing(q)' => q # p /\ q \in Updaters /\ Writing(q)
    BY <1>1, <1>2 DEF Writing
  <2>2. \A q \in Updaters \ shared : Writing(q) => fd[q] \in Inodes \ {fd[p]}
    BY <1>1 DEF IInv, TypeOK, FilesPrivate, Processes
  <2>3. \A q \in Improvers : q \notin Updaters
    BY StoreAssumption
  <2> QED
    BY <1>1, <1>2, <2>1, <2>2, <2>3 DEF IInv, FilesPrivate, Processes
<1>7. Complete'
  <2>1. SUFFICES ASSUME NEW q \in Updaters \ shared, pc'[q] = "rename", stamp[q] \in DOMAIN temps
                 PROVE  data'[temps[stamp[q]]] = Json(copy[q])
    BY <1>1 DEF Complete
  <2>2. temps[stamp[q]] \in Inodes \ {fd[p]}
    BY <2>1 DEF IInv, TypeOK, FilesPrivate
  <2> QED
    BY <1>1, <1>2, <2>1, <2>2 DEF IInv, Complete, Processes
<1> QED
  BY <1>3, <1>4, <1>5, <1>6, <1>7 DEF IInv

LEMMA AddTasksWriteIInv ==
  ASSUME IInv, OneImprover, NEW p \in Improvers, AddTasksWrite(p) PROVE IInv'
<1>1. /\ p \in Processes /\ Writing(p) /\ pc' = [pc EXCEPT ![p] = "idle"]
      /\ UNCHANGED <<guide, temps, now, local, updates, faults, broken, names>>
      /\ stale' = [q \in Processes |-> q # p /\ (stale[q] \/ HoldsCopy(q))]
      /\ overlapped' = (overlapped \/ stale[p])
      /\ confirmed' = [t \in AllTasks |-> IF t \in NewTasks /\ confirmed[t] = "absent" THEN "todo"
                                          ELSE confirmed[t]]
  BY DEF Processes, AddTasksWrite, Writing, Goto, GuideReplacedBy
<1>2. copy[p] \in Guides /\ Tasks \subseteq DOMAIN copy[p]
  BY <1>1 DEF IInv, TypeOK, CopiesWhole, HoldsCopy, Writing
<1>3. /\ Json(copy[p]) \in Content /\ Json(copy[p]).form = "json" /\ Json(copy[p]).tasks = copy[p]
      /\ Torn \in Content /\ Torn.form # "json"
  BY <1>2, ContentForms DEF Json
<1>4. PICK c \in {Json(copy[p]), Torn} :
        data' = [data EXCEPT ![fd[p]] = c] /\ (~ collided => c = Json(copy[p]))
  <2>1. CASE data[fd[p]] = Empty
    BY <2>1 DEF AddTasksWrite, Written
  <2>2. CASE data[fd[p]] # Empty
    BY <1>1, <2>2 DEF AddTasksWrite, Written, IInv, FilesPrivate
  <2> QED
    BY <2>1, <2>2
<1>5. TypeOK'
  <2>1. data' \in [Inodes -> Content]
    BY <1>3, <1>4 DEF IInv, TypeOK
  <2>2. confirmed' \in [AllTasks -> Statuses \union {"absent"}]
    BY <1>1 DEF IInv, TypeOK, Statuses
  <2>3. stale' \in [Processes -> BOOLEAN] /\ overlapped' \in BOOLEAN
    BY <1>1 DEF IInv, TypeOK, HoldsCopy
  <2> QED
    BY <1>1, <2>1, <2>2, <2>3 DEF IInv, TypeOK, local, names
<1>6. GuideSound'
  <2>1. CASE collided
    BY <1>1, <2>1 DEF GuideSound, names
  <2>2. CASE ~ collided /\ fd[p] = guide
    BY <1>1, <1>3, <1>4, <2>2 DEF GuideSound, Readable, IInv, TypeOK
  <2>3. CASE ~ collided /\ fd[p] # guide
    <3>1. Readable \/ broken
      BY <2>3 DEF IInv, GuideSound, OneImprover
    <3> QED
      BY <1>1, <1>4, <2>3, <3>1 DEF GuideSound, Readable, IInv, TypeOK
  <2> QED
    BY <2>1, <2>2, <2>3
<1> QED
  BY <1>1, <1>2, <1>3, <1>4, <1>5, <1>6, AddTasksDone

LEMMA AddTasksFailsIInv ==
  ASSUME IInv, OneImprover, NEW p \in Improvers, AddTasksFails(p) PROVE IInv'
<1>1. /\ p \in Processes /\ Writing(p) /\ pc' = [pc EXCEPT ![p] = "idle"]
      /\ data' = [data EXCEPT ![fd[p]] = Torn] /\ broken' = TRUE /\ faults' = faults + 1
      /\ UNCHANGED <<guide, temps, now, local, updates, confirmed, stale, overlapped, names>>
  BY DEF Processes, AddTasksFails, Writing, Goto
<1>2. Torn \in Content /\ Torn.form # "json"
  BY ContentForms
<1>3. TypeOK'
  BY <1>1, <1>2 DEF IInv, TypeOK, local, names
<1>4. GuideSound'
  BY <1>1 DEF GuideSound
<1> QED
  BY <1>1, <1>2, <1>3, <1>4, AddTasksDone

-----------------------------------------------------------------------------
LEMMA StutterIInv == ASSUME IInv, UNCHANGED vars PROVE IInv'
<1>1. TypeOK' /\ HasJob'
  BY DEF IInv, TypeOK, HasJob, vars
<1>2. CopiesWhole' /\ NamesPrivate'
  BY DEF IInv, CopiesWhole, HoldsCopy, NamesPrivate, vars
<1>3. FilesPrivate' /\ Complete' /\ GuideSound'
  BY DEF IInv, FilesPrivate, Complete, GuideSound, Writing, Readable, vars
<1> QED
  BY <1>1, <1>2, <1>3 DEF IInv

LEMMA NextIInv == ASSUME IInv, OneImprover, [Next]_vars PROVE IInv'
<1>1. ASSUME NEW p \in Updaters, UpdaterStep(p) PROVE IInv'
  BY <1>1, RequestIInv, LookIInv, ReadIInv, RetryIInv, OpenIInv, WriteIInv, WriteFailsIInv,
     RenameIInv, RenameFailsIInv, CleanupIInv DEF UpdaterStep
<1>2. ASSUME NEW p \in Improvers, ImproverStep(p) PROVE IInv'
  BY <1>2, AddTasksReadIInv, AddTasksOpenIInv, AddTasksWriteIInv, AddTasksFailsIInv
     DEF ImproverStep
<1>3. ASSUME NEW p \in Processes, Crash(p) PROVE IInv'
  BY <1>3, CrashIInv
<1> QED
  BY <1>1, <1>2, <1>3, StutterIInv DEF Next

(* The inductive invariant holds when `improve` runs once at a time.       *)
THEOREM StoreInvariance == ASSUME OneImprover PROVE Spec => []IInv
<1>1. IInv /\ [Next]_vars => IInv'
  BY NextIInv
<1> QED
  BY <1>1, InitIInv, PTL DEF Spec

(* The variables of the guide store keep their types.                      *)
THEOREM StoreTypes == ASSUME OneImprover PROVE Spec => []TypeOK
<1>1. IInv => TypeOK
  BY DEF IInv
<1> QED
  BY <1>1, StoreInvariance, PTL

(* Whatever number of processes updates statuses, fails or is killed: the  *)
(* guide is unreadable only while addTasksToGuide writes to it in place,   *)
(* after that was interrupted, or after two updates used one temporary     *)
(* file.                                                                   *)
THEOREM ReadableUnlessImproving == ASSUME OneImprover PROVE Spec => []GuideReadable
<1>1. IInv => GuideReadable
  BY DEF IInv, GuideSound, GuideReadable, Writing
<1> QED
  BY <1>1, StoreInvariance, PTL

(* An update that returns true has put its status into the guide at that   *)
(* moment, also when other processes write, fail, are killed and clean up  *)
(* meanwhile, unless one of them used its temporary file: no assumption on *)
(* the clock.                                                              *)
THEOREM ReportIsTrue == ASSUME OneImprover PROVE Spec => ReportedIsWritten
<1> DEFINE Reported == \A p \in Updaters :
             (pc[p] = "rename" /\ pc'[p] = "idle" /\ faults' = faults /\ p \notin shared)
               => /\ data'[guide'].form = "json"
                  /\ data'[guide'].tasks[job[p].task] = job[p].status
<1>1. ASSUME IInv, [Next]_vars PROVE [Reported]_vars
  <2> SUFFICES ASSUME NEW p \in Updaters, Next,
                      pc[p] = "rename", pc'[p] = "idle", faults' = faults, p \notin shared
               PROVE  /\ data'[guide'].form = "json"
                      /\ data'[guide'].tasks[job[p].task] = job[p].status
    BY <1>1
  <2>1. Rename(p)
    <3>1. p \in Processes /\ p \notin Improvers /\ faults \in Nat /\ faults + 1 # faults
      BY <1>1, StoreAssumption DEF Processes, IInv, TypeOK
    <3>2. ASSUME NEW q \in Processes \ {p}, NEW x, pc' = [pc EXCEPT ![q] = x] PROVE FALSE
      BY <1>1, <3>1, <3>2 DEF IInv, TypeOK
    <3>3. ASSUME NEW x, x # "idle", pc' = [pc EXCEPT ![p] = x] PROVE FALSE
      BY <1>1, <3>1, <3>3 DEF IInv, TypeOK
    <3>4. ASSUME NEW q \in Updaters, UpdaterStep(q) PROVE q = p
      BY <3>2, <3>4 DEF UpdaterStep, Request, Look, Read, Retry, Open, Write, WriteFails,
         Rename, RenameFails, Cleanup, Goto, Processes
    <3>5. ASSUME NEW q \in Improvers, ImproverStep(q) PROVE FALSE
      BY <3>1, <3>2, <3>5 DEF ImproverStep, AddTasksRead, AddTasksOpen, AddTasksWrite,
         AddTasksFails, Goto, Processes
    <3>6. ASSUME NEW q \in Processes, Crash(q) PROVE FALSE
      BY <1>1, <3>1, <3>6 DEF Crash
    <3>7. UpdaterStep(p)
      BY <3>4, <3>5, <3>6 DEF Next
    <3>8. ~ RenameFails(p)
      BY <3>3 DEF RenameFails, Goto, AfterFailure
    <3> QED
      BY <3>7, <3>8 DEF UpdaterStep, Request, Look, Read, Retry, Open, Write, WriteFails, Cleanup
  <2>2. /\ stamp[p] \in DOMAIN temps /\ guide' = temps[stamp[p]] /\ data' = data
    BY <2>1 DEF Rename
  <2>3. data'[guide'] = Json(copy[p])
    BY <1>1, <2>2 DEF IInv, Complete
  <2>4. copy[p][job[p].task] = job[p].status
    BY <1>1 DEF IInv, CopiesWhole, HoldsCopy
  <2> QED
    BY <2>3, <2>4 DEF Json
<1> QED
  BY <1>1, StoreInvariance, PTL DEF Spec, ReportedIsWritten

-----------------------------------------------------------------------------
(* What was reported is in the guide until two writers overlap. For that,  *)
(* what a writer is about to write has to be what was reported, with its   *)
(* own change, unless another one wrote since it read the guide; and an    *)
(* improver that writes to a file which is no longer the guide has to be   *)
(* one of those.                                                           *)
Reported == [t \in {t \in AllTasks : confirmed[t] # "absent"} |-> confirmed[t]]

Trusted(p) == HoldsCopy(p) /\ ~ stale[p]

ReportedInCopies ==
  /\ \A p \in Updaters : Trusted(p) => copy[p] = [Reported EXCEPT ![job[p].task] = job[p].status]
  /\ \A p \in Improvers : Trusted(p) => copy[p] = WithNewTasks(Reported)

InPlace == \A p \in Improvers : Writing(p) /\ ~ stale[p] => fd[p] = guide

ReportInv ==
  /\ \A t \in Tasks : confirmed[t] # "absent"
  /\ ~ overlapped /\ ~ collided => (Readable => Current = Reported) /\ ReportedInCopies
  /\ InPlace

LEMMA InitReported == Init => ReportInv
<1> SUFFICES ASSUME Init PROVE ReportInv
  OBVIOUS
<1>1. PICK g \in [Tasks -> {"todo", "in_progress"}] :
        /\ data = [i \in Inodes |-> IF i = guide THEN Json(g) ELSE Empty]
        /\ confirmed = [t \in AllTasks |-> IF t \in Tasks THEN g[t] ELSE "absent"]
  BY DEF Init
<1>2. guide \in Inodes /\ \A p \in Processes : pc[p] = "idle"
  BY DEF Init
<1>3. Current = g
  BY <1>1, <1>2 DEF Current, Json
<1>4. \A t \in AllTasks : confirmed[t] # "absent" <=> t \in Tasks
  BY <1>1
<1>5. Reported = g
  BY <1>1, <1>4 DEF Reported, AllTasks
<1>6. \A t \in Tasks : confirmed[t] # "absent"
  BY <1>4 DEF AllTasks
<1> QED
  BY <1>2, <1>3, <1>5, <1>6
     DEF ReportInv, ReportedInCopies, InPlace, Trusted, HoldsCopy, Writing, Processes

(* A guide that was not replaced is the one it was, or cannot be read.     *)
LEMMA SameGuide ==
  ASSUME guide' = guide, collided' \/ data'[guide] = data[guide] \/ data'[guide].form # "json"
  PROVE  ~ collided' /\ Readable' => Readable /\ Current' = Current
  BY DEF Readable, Current

(* The copies that processes hold stay trusted, or are read from the guide.*)
FromGuide(p) ==
  /\ Readable
  /\ p \in Updaters => copy'[p] = [Current EXCEPT ![job'[p].task] = job'[p].status]
  /\ p \in Improvers => copy'[p] = WithNewTasks(Current)

StillTrusted(p) ==
  Trusted(p) /\ copy'[p] = copy[p] /\ job'[p].task = job[p].task /\ job'[p].status = job[p].status

(* A step that reports nothing and lets no unreported content be read.     *)
LEMMA NothingReported ==
  ASSUME ReportInv, UNCHANGED <<confirmed, overlapped>>, collided => collided',
         ~ collided' /\ Readable' => Readable /\ Current' = Current,
         \A p \in Processes : Trusted(p)' => StillTrusted(p) \/ FromGuide(p),
         InPlace'
  PROVE  ReportInv'
<1>1. Reported' = Reported
  BY DEF Reported
<1>2. \A t \in Tasks : confirmed'[t] # "absent"
  BY DEF ReportInv
<1>3. ASSUME ~ overlapped', ~ collided' PROVE ReportedInCopies'
  <2>1. (Readable => Current = Reported) /\ ReportedInCopies
    BY <1>3 DEF ReportInv
  <2>2. ASSUME NEW p \in Updaters, Trusted(p)'
        PROVE  copy'[p] = [Reported EXCEPT ![job'[p].task] = job'[p].status]
    <3>1. StillTrusted(p) \/ FromGuide(p)
      BY <2>2 DEF Processes
    <3>2. CASE StillTrusted(p)
      BY <2>1, <3>2 DEF StillTrusted, ReportedInCopies
    <3>3. CASE FromGuide(p)
      BY <2>1, <3>3 DEF FromGuide
    <3> QED
      BY <3>1, <3>2, <3>3
  <2>3. ASSUME NEW p \in Improvers, Trusted(p)' PROVE copy'[p] = WithNewTasks(Reported)
    <3>1. StillTrusted(p) \/ FromGuide(p)
      BY <2>3 DEF Processes
    <3>2. CASE StillTrusted(p)
      BY <2>1, <3>2 DEF StillTrusted, ReportedInCopies
    <3>3. CASE FromGuide(p)
      BY <2>1, <3>3 DEF FromGuide
    <3> QED
      BY <3>1, <3>2, <3>3
  <2>4. WithNewTasks(Reported)' = WithNewTasks(Reported)
    BY <1>1 DEF WithNewTasks
  <2> QED
    BY <1>1, <2>2, <2>3, <2>4 DEF ReportedInCopies
<1>4. ASSUME ~ overlapped', ~ collided' PROVE Readable' => Current' = Reported'
  BY <1>1, <1>4 DEF ReportInv
<1> QED
  BY <1>2, <1>3, <1>4 DEF ReportInv

(* A step of p by which nobody comes to hold a copy.                       *)
LEMMA SameCopies ==
  ASSUME TypeOK, NEW p \in Processes, NEW x,
         pc' = [pc EXCEPT ![p] = x], UNCHANGED <<copy, stale>>,
         \A q \in Processes \ {p} : job'[q] = job[q],
         x \in {"open", "write", "rename", "overwrite"} => HoldsCopy(p) /\ job'[p] = job[p]
  PROVE  \A q \in Processes : Trusted(q)' => StillTrusted(q) \/ FromGuide(q)
<1>1. pc'[p] = x /\ \A q \in Processes \ {p} : pc'[q] = pc[q]
  BY DEF TypeOK
<1> QED
  BY <1>1 DEF Trusted, HoldsCopy, StillTrusted

(* A step of p by which no other file becomes the guide.                   *)
LEMMA SamePlace ==
  ASSUME TypeOK, InPlace, NEW p \in Processes, NEW x,
         pc' = [pc EXCEPT ![p] = x], guide' = guide,
         \A q \in Processes \ {p} : fd'[q] = fd[q] /\ stale'[q] = stale[q],
         p \in Improvers => x # "write" \/ fd'[p] = guide
  PROVE  InPlace'
<1>1. pc'[p] = x /\ \A q \in Processes \ {p} : pc'[q] = pc[q]
  BY DEF TypeOK
<1> QED
  BY <1>1 DEF InPlace, Writing, Processes

(* The steps of p that touch no file that is or may become the guide.      *)
LEMMA AwayFromGuide ==
  ASSUME IInv, ReportInv, NEW p \in Processes, NEW x,
         pc' = [pc EXCEPT ![p] = x], UNCHANGED <<guide, copy, stale, confirmed, overlapped>>,
         collided => collided',
         collided' \/ data'[guide] = data[guide] \/ data'[guide].form # "json",
         \A q \in Processes \ {p} : job'[q] = job[q] /\ fd'[q] = fd[q],
         x \in {"open", "write", "rename", "overwrite"} => HoldsCopy(p) /\ job'[p] = job[p],
         p \in Improvers => x # "write" \/ fd'[p] = guide
  PROVE  ReportInv'
<1>1. TypeOK /\ InPlace
  BY DEF IInv, ReportInv
<1>2. \A q \in Processes : Trusted(q)' => StillTrusted(q) \/ FromGuide(q)
  BY <1>1, SameCopies
<1>3. InPlace'
  BY <1>1, SamePlace
<1>4. ~ collided' /\ Readable' => Readable /\ Current' = Current
  BY SameGuide
<1> QED
  BY <1>2, <1>3, <1>4, NothingReported

LEMMA RequestReports == ASSUME IInv, ReportInv, NEW p \in Updaters, Request(p) PROVE ReportInv'
<1>1. /\ pc' = [pc EXCEPT ![p] = "look"] /\ UNCHANGED <<disk, copy, fd, stale, confirmed, overlapped, collided>>
      /\ \A q \in Processes \ {p} : job'[q] = job[q]
  BY DEF Request, Goto, history, IInv, TypeOK
<1> QED
  BY <1>1, AwayFromGuide, StoreAssumption DEF disk, Processes

LEMMA LookReports == ASSUME IInv, ReportInv, NEW p \in Updaters, Look(p) PROVE ReportInv'
<1>1. PICK x \in {"read", "idle"} : pc' = [pc EXCEPT ![p] = x]
  BY DEF Look, Goto
<1> QED
  BY <1>1, AwayFromGuide, StoreAssumption DEF Look, disk, local, history, Processes

LEMMA CrashReports == ASSUME IInv, ReportInv, NEW p \in Processes, Crash(p) PROVE ReportInv'
  BY AwayFromGuide DEF Crash, Goto, disk, local, names

LEMMA FailuresReport ==
  ASSUME IInv, ReportInv, NEW p \in Updaters, RenameFails(p) \/ Cleanup(p)
  PROVE  ReportInv'
<1>1. PICK x \in {"retry", "cleanup", "idle"} : pc' = [pc EXCEPT ![p] = x]
  BY DEF RenameFails, Cleanup, Goto, AfterFailure
<1>2. UNCHANGED <<data, guide, local, history>>
  BY DEF RenameFails, Cleanup, disk
<1> QED
  BY <1>1, <1>2, AwayFromGuide, StoreAssumption DEF local, history, Processes

LEMMA WritesReport ==
  ASSUME IInv, ReportInv, NEW p \in Updaters, Write(p) \/ WriteFails(p)
  PROVE  ReportInv'
<1>1. p \in Processes /\ Writing(p) /\ HoldsCopy(p) /\ (~ collided => fd[p] # guide) /\ guide \in Inodes
  BY DEF Processes, Write, WriteFails, Writing, HoldsCopy, IInv, NamesPrivate, FilesPrivate, TypeOK
<1>2. PICK c : data' = [data EXCEPT ![fd[p]] = c]
  BY DEF Write, WriteFails
<1>3. collided \/ data'[guide] = data[guide]
  BY <1>1, <1>2 DEF IInv, TypeOK
<1>4. PICK x \in {"rename", "retry", "cleanup"} : pc' = [pc EXCEPT ![p] = x]
  BY DEF Write, WriteFails, Goto, AfterFailure
<1>5. UNCHANGED <<guide, local, history>>
  BY DEF Write, WriteFails
<1> QED
  BY <1>1, <1>3, <1>4, <1>5, AwayFromGuide, StoreAssumption DEF local, history, Processes

LEMMA OpenReports ==
  ASSUME IInv, ReportInv, NEW p \in Updaters, Open(p)
  PROVE  ReportInv'
<1>1. /\ p \in Processes /\ pc[p] = "open" /\ HoldsCopy(p) /\ guide \in Inodes
  BY DEF Processes, Open, HoldsCopy, IInv, TypeOK
<1>2. PICK s \in Stamps :
        \E i \in IF s \in DOMAIN temps THEN {temps[s]} ELSE Unused :
          fd' = [fd EXCEPT ![p] = i] /\ data' = [data EXCEPT ![i] = Empty]
  BY DEF Open
<1>3. PICK i \in IF s \in DOMAIN temps THEN {temps[s]} ELSE Unused :
        fd' = [fd EXCEPT ![p] = i] /\ data' = [data EXCEPT ![i] = Empty]
  BY <1>2
<1>4. i # guide
  BY <1>3 DEF IInv, NamesPrivate, Unused
<1>5. /\ data'[guide] = data[guide] /\ \A q \in Processes \ {p} : fd'[q] = fd[q]
      /\ pc' = [pc EXCEPT ![p] = "write"]
      /\ UNCHANGED <<guide, job, copy, confirmed, stale, overlapped>> /\ (collided => collided')
  BY <1>1, <1>3, <1>4 DEF IInv, TypeOK, Open, Goto
<1> QED
  BY <1>1, <1>5, AwayFromGuide, StoreAssumption DEF Processes

(* An updater that has read the guide trusts its copy.                     *)
LEMMA FilledReports ==
  ASSUME IInv, ReportInv, NEW p \in Updaters, Readable,
         copy' = [copy EXCEPT ![p] = [Current EXCEPT ![job[p].task] = job[p].status]],
         pc' = [pc EXCEPT ![p] = "open"], stale' = [stale EXCEPT ![p] = FALSE],
         job'[p].task = job[p].task, job'[p].status = job[p].status,
         \A q \in Processes \ {p} : job'[q] = job[q],
         UNCHANGED <<disk, fd, confirmed, overlapped, collided>>
  PROVE  ReportInv'
<1>1. /\ p \in Processes /\ p \notin Improvers
      /\ \A q \in Processes \ {p} : pc'[q] = pc[q] /\ copy'[q] = copy[q] /\ stale'[q] = stale[q]
      /\ copy'[p] = [Current EXCEPT ![job[p].task] = job[p].status]
  BY StoreAssumption DEF IInv, TypeOK, Processes
<1>2. FromGuide(p)
  BY <1>1 DEF FromGuide
<1>3. \A q \in Processes : Trusted(q)' => StillTrusted(q) \/ FromGuide(q)
  BY <1>1, <1>2 DEF Trusted, HoldsCopy, StillTrusted
<1>4. InPlace'
  BY <1>1, SamePlace DEF IInv, ReportInv, disk
<1>5. Readable' => Readable /\ Current' = Current
  BY DEF Readable, Current, disk
<1> QED
  BY <1>3, <1>4, <1>5, NothingReported

(* One that could not read it holds no copy.                               *)
LEMMA UnfilledReports ==
  ASSUME IInv, ReportInv, NEW p \in Updaters, NEW x \in {"retry", "idle"},
         pc' = [pc EXCEPT ![p] = x], stale' = [stale EXCEPT ![p] = FALSE],
         UNCHANGED <<disk, fd, copy, job, confirmed, overlapped, collided>>
  PROVE  ReportInv'
<1>1. /\ p \in Processes /\ p \notin Improvers /\ pc'[p] = x
      /\ \A q \in Processes \ {p} : pc'[q] = pc[q] /\ stale'[q] = stale[q]
  BY StoreAssumption DEF IInv, TypeOK, Processes
<1>2. \A q \in Processes : Trusted(q)' => StillTrusted(q) \/ FromGuide(q)
  BY <1>1 DEF Trusted, HoldsCopy, StillTrusted
<1>3. InPlace'
  BY <1>1, SamePlace DEF IInv, ReportInv, disk
<1>4. Readable' => Readable /\ Current' = Current
  BY DEF Readable, Current, disk
<1> QED
  BY <1>2, <1>3, <1>4, NothingReported

LEMMA ReadReports == ASSUME IInv, ReportInv, NEW p \in Updaters, Read(p) PROVE ReportInv'
<1>1. CASE Readable
  <2>1. /\ copy' = [copy EXCEPT ![p] = [Current EXCEPT ![job[p].task] = job[p].status]]
        /\ pc' = [pc EXCEPT ![p] = "open"] /\ job' = job
    BY <1>1 DEF Read, Goto
  <2> QED
    BY <1>1, <2>1, FilledReports DEF Read, names
<1>2. CASE ~ Readable
  <2>1. pc' = [pc EXCEPT ![p] = "retry"] /\ copy' = copy /\ job' = job
    BY <1>2 DEF Read, Goto
  <2> QED
    BY <2>1, UnfilledReports DEF Read, names
<1> QED
  BY <1>1, <1>2

LEMMA RetryReports == ASSUME IInv, ReportInv, NEW p \in Updaters, Retry(p) PROVE ReportInv'
<1>1. CASE Readable /\ ValidTransition(Current[job[p].task], job[p].status)
  <2>1. /\ copy' = [copy EXCEPT ![p] = [Current EXCEPT ![job[p].task] = job[p].status]]
        /\ pc' = [pc EXCEPT ![p] = "open"] /\ job' = [job EXCEPT ![p].by = "config"]
    BY <1>1 DEF Retry, Goto
  <2>2. /\ job'[p].task = job[p].task /\ job'[p].status = job[p].status
        /\ \A q \in Processes \ {p} : job'[q] = job[q]
    BY <2>1 DEF IInv, TypeOK, Processes
  <2> QED
    BY <1>1, <2>1, <2>2, FilledReports DEF Retry, names
<1>2. CASE ~ (Readable /\ ValidTransition(Current[job[p].task], job[p].status))
  <2>1. pc' = [pc EXCEPT ![p] = "idle"] /\ copy' = copy /\ job' = job
    BY <1>2 DEF Retry, Goto
  <2> QED
    BY <2>1, UnfilledReports DEF Retry, names
<1> QED
  BY <1>1, <1>2

LEMMA AddTasksReadReports ==
  ASSUME IInv, ReportInv, NEW p \in Improvers, AddTasksRead(p) PROVE ReportInv'
<1>1. /\ p \in Processes /\ p \notin Updaters /\ Readable
      /\ pc' = [pc EXCEPT ![p] = "overwrite"] /\ pc'[p] = "overwrite"
      /\ copy'[p] = WithNewTasks(Current)
      /\ \A q \in Processes \ {p} : pc'[q] = pc[q] /\ copy'[q] = copy[q] /\ stale'[q] = stale[q]
      /\ UNCHANGED <<disk, job, fd, confirmed, overlapped, collided>>
  BY StoreAssumption DEF AddTasksRead, names, Goto, IInv, TypeOK, Processes
<1>2. FromGuide(p)
  BY <1>1 DEF FromGuide
<1>3. \A q \in Processes : Trusted(q)' => StillTrusted(q) \/ FromGuide(q)
  BY <1>1, <1>2 DEF Trusted, HoldsCopy, StillTrusted
<1>4. InPlace'
  BY <1>1, SamePlace DEF IInv, ReportInv, disk
<1>5. Readable' => Readable /\ Current' = Current
  BY <1>1 DEF Readable, Current, disk
<1> QED
  BY <1>1, <1>3, <1>4, <1>5, NothingReported

LEMMA AddTasksOpenReports ==
  ASSUME IInv, ReportInv, NEW p \in Improvers, AddTasksOpen(p) PROVE ReportInv'
<1>1. /\ p \in Processes /\ HoldsCopy(p) /\ guide \in Inodes
      /\ pc' = [pc EXCEPT ![p] = "write"] /\ fd'[p] = guide
      /\ \A q \in Processes \ {p} : fd'[q] = fd[q]
      /\ data'[guide] = Empty
      /\ UNCHANGED <<guide, job, copy, history>>
  BY DEF AddTasksOpen, Goto, HoldsCopy, IInv, TypeOK, Processes
<1>2. data'[guide].form # "json"
  BY <1>1, ContentForms
<1> QED
  BY <1>1, <1>2, AwayFromGuide DEF history

LEMMA AddTasksFailsReports ==
  ASSUME IInv, ReportInv, NEW p \in Improvers, AddTasksFails(p) PROVE ReportInv'
<1>1. /\ p \in Processes /\ guide \in Inodes
      /\ pc' = [pc EXCEPT ![p] = "idle"] /\ data' = [data EXCEPT ![fd[p]] = Torn]
      /\ UNCHANGED <<guide, local, confirmed, stale, overlapped, collided>>
  BY DEF AddTasksFails, names, Goto, IInv, TypeOK, Processes
<1>2. data'[guide] = data[guide] \/ data'[guide].form # "json"
  BY <1>1, ContentForms DEF IInv, TypeOK
<1> QED
  BY <1>1, <1>2, AwayFromGuide DEF local

(* p reports a change and its copy has become the guide.                   *)
LEMMA Reports ==
  ASSUME IInv, ReportInv, NEW p \in Processes,
         pc' = [pc EXCEPT ![p] = "idle"], GuideReplacedBy(p),
         \A t \in Tasks : confirmed'[t] # "absent",
         collided' = collided,
         ~ overlapped /\ ~ collided /\ ~ stale[p] => (Readable' => Current' = Reported')
  PROVE  ReportInv'
<1>1. /\ pc'[p] = "idle" /\ \A q \in Processes \ {p} : pc'[q] = pc[q]
      /\ \A q \in Processes : stale'[q] = (q # p /\ (stale[q] \/ HoldsCopy(q)))
      /\ overlapped' = (overlapped \/ stale[p])
  BY DEF IInv, TypeOK, GuideReplacedBy
<1>2. \A q \in Processes : ~ (HoldsCopy(q)' /\ ~ stale'[q])
  BY <1>1 DEF HoldsCopy
<1>3. ReportedInCopies'
  BY <1>2 DEF ReportedInCopies, Trusted, Processes
<1>4. InPlace'
  BY <1>2 DEF InPlace, HoldsCopy, Writing, Processes
<1> QED
  BY <1>1, <1>3, <1>4 DEF ReportInv

LEMMA RenameReports == ASSUME IInv, ReportInv, NEW p \in Updaters, Rename(p) PROVE ReportInv'
<1>1. /\ p \in Processes /\ HoldsCopy(p) /\ pc[p] = "rename"
      /\ pc' = [pc EXCEPT ![p] = "idle"] /\ GuideReplacedBy(p)
      /\ data' = data /\ stamp[p] \in DOMAIN temps /\ guide' = temps[stamp[p]] /\ collided' = collided
  BY DEF Rename, Goto, HoldsCopy, Processes, names
<1>2. PICK t \in Tasks, s \in Statuses : t = job[p].task /\ s = job[p].status
  BY <1>1 DEF IInv, HasJob
<1>3. t \in AllTasks /\ confirmed \in [AllTasks -> Statuses \union {"absent"}] /\ s # "absent"
  BY DEF AllTasks, IInv, TypeOK, Statuses
<1>4. confirmed' = [confirmed EXCEPT ![t] = s]
  BY <1>2 DEF Rename
<1>5. \A r \in Tasks : confirmed[r] # "absent"
  BY DEF ReportInv
<1>6. \A r \in Tasks : confirmed'[r] # "absent"
  BY <1>3, <1>4, <1>5 DEF AllTasks
<1>7. ASSUME ~ overlapped, ~ collided, ~ stale[p] PROVE Current' = Reported'
  <2>1. Current' = copy[p]
    <3>1. data'[guide'] = Json(copy[p])
      BY <1>1, <1>7 DEF IInv, NamesPrivate, Complete
    <3> QED
      BY <3>1 DEF Current, Json
  <2>2. copy[p] = [Reported EXCEPT ![t] = s]
    BY <1>1, <1>2, <1>7 DEF ReportInv, ReportedInCopies, Trusted
  <2>3. {r \in AllTasks : confirmed'[r] # "absent"} = {r \in AllTasks : confirmed[r] # "absent"}
    BY <1>3, <1>4, <1>5
  <2>4. Reported' = [Reported EXCEPT ![t] = s]
    BY <1>3, <1>4, <1>5, <2>3 DEF Reported
  <2> QED
    BY <2>1, <2>2, <2>4
<1> QED
  BY <1>1, <1>6, <1>7, Reports

LEMMA AddTasksWriteReports ==
  ASSUME IInv, ReportInv, NEW p \in Improvers, AddTasksWrite(p) PROVE ReportInv'
<1>1. /\ p \in Processes /\ HoldsCopy(p) /\ Writing(p) /\ fd[p] \in Inodes
      /\ pc' = [pc EXCEPT ![p] = "idle"] /\ GuideReplacedBy(p) /\ guide' = guide
      /\ collided' = collided /\ (~ collided => data' = [data EXCEPT ![fd[p]] = Json(copy[p])])
      /\ confirmed' = [t \in AllTasks |-> IF t \in NewTasks /\ confirmed[t] = "absent" THEN "todo"
                                          ELSE confirmed[t]]
  BY DEF AddTasksWrite, Goto, Written, names, HoldsCopy, Writing, IInv, TypeOK, FilesPrivate, Processes
<1>2. \A t \in Tasks : confirmed'[t] # "absent"
  BY <1>1 DEF ReportInv, AllTasks
<1>3. ASSUME ~ overlapped, ~ collided, ~ stale[p] PROVE Current' = Reported'
  <2>1. fd[p] = guide
    BY <1>1, <1>3 DEF ReportInv, InPlace
  <2>2. Current' = copy[p]
    <3>1. data'[guide'] = Json(copy[p])
      BY <1>1, <1>3, <2>1 DEF IInv, TypeOK
    <3> QED
      BY <3>1 DEF Current, Json
  <2>3. copy[p] = WithNewTasks(Reported)
    BY <1>1, <1>3 DEF ReportInv, ReportedInCopies, Trusted
  <2>4. {t \in AllTasks : confirmed'[t] # "absent"}
          = {t \in AllTasks : confirmed[t] # "absent"} \union NewTasks
    BY <1>1 DEF AllTasks
  <2>5. Reported' = WithNewTasks(Reported)
    BY <1>1, <2>4 DEF Reported, WithNewTasks, AllTasks
  <2> QED
    BY <2>2, <2>3, <2>5
<1> QED
  BY <1>1, <1>2, <1>3, Reports

LEMMA NextReported ==
  ASSUME IInv, ReportInv, [Next]_vars
  PROVE  ReportInv'
<1>1. ASSUME NEW p \in Updaters, UpdaterStep(p) PROVE ReportInv'
  BY <1>1, RequestReports, LookReports, ReadReports, RetryReports, OpenReports, WritesReport,
     RenameReports, FailuresReport DEF UpdaterStep
<1>2. ASSUME NEW p \in Improvers, ImproverStep(p) PROVE ReportInv'
  BY <1>2, AddTasksReadReports, AddTasksOpenReports, AddTasksWriteReports, AddTasksFailsReports
     DEF ImproverStep
<1>3. ASSUME NEW p \in Processes, Crash(p) PROVE ReportInv'
  BY <1>3, CrashReports
<1>4. CASE UNCHANGED vars
  BY <1>4 DEF vars, ReportInv, ReportedInCopies, InPlace, Trusted, HoldsCopy, Writing,
     Readable, Current, Reported, WithNewTasks
<1> QED
  BY <1>1, <1>2, <1>3, <1>4 DEF Next

(* Until two writers overlap, every task is in the guide with the status   *)
(* last reported for it, whichever of them fail or are killed and however  *)
(* the retry through config.js ends.                                       *)
THEOREM ReportsSurvive == ASSUME OneImprover PROVE Spec => []ConfirmedSurvive
<1>1. IInv /\ ReportInv /\ [Next]_vars => IInv' /\ ReportInv'
  BY NextIInv, NextReported
<1>2. ReportInv => ConfirmedSurvive
  <2> SUFFICES ASSUME ReportInv, Readable, ~ overlapped, ~ collided
               PROVE  /\ DOMAIN Current = {t \in AllTasks : confirmed[t] # "absent"}
                      /\ \A t \in DOMAIN Current : Current[t] = confirmed[t]
    BY DEF ConfirmedSurvive
  <2>1. Current = Reported
    BY DEF ReportInv
  <2> QED
    BY <2>1 DEF Reported
<1> QED
  BY <1>1, <1>2, InitIInv, InitReported, PTL DEF Spec
=============================================================================
