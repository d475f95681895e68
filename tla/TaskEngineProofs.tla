-------------------------- MODULE TaskEngineProofs --------------------------
(***************************************************************************)
(* Proofs about TaskEngine for every number of tasks, retry budget, set of *)
(* commands and number of starts and faults; and about ProviderManager for *)
(* every list of providers and any number of calls at a time.              *)
(***************************************************************************)
EXTENDS TaskEngine, ProviderManager, FiniteSetTheorems, TLAPS

(* A position i in list l with counters done and bad is sound: the         *)
(* counters account for the tasks before it, all of those were handed to a *)
(* provider, and all were carried out unless one is counted as failed.     *)
Sound(i, done, bad, l) ==
  /\ i \in 1 .. Len(l) + 1
  /\ Accounted(done, bad, i - 1)
  /\ \A k \in 1 .. i - 1 : l[k] \in attempted
  /\ bad = 0 => \A k \in 1 .. i - 1 : l[k] \in worked

SoundCheckpoint(c) == Sound(c.index, c.completed, c.failed, c.list)

(* The inductive invariant. The checkpoints have to be sound because the   *)
(* next process starts from what one of them says.                         *)
IInv ==
  /\ TypeOK
  /\ Sound(index, completed, failed, list)
  /\ \A c \in checkpoints \union {latest} : SoundCheckpoint(c)
  /\ pc \in {"saving", "start", "provider", "record"} => index <= Len(list)
  /\ pc \in {"provider", "record"} => list[index] \in attempted
  /\ pc = "record" => list[index] \in worked
  /\ pc # "off" => exit = "none"
  /\ exit \in {"success", "failures"} => index = Len(list) + 1
  /\ exit = "success" => failed = 0

-----------------------------------------------------------------------------
(* What InOrder returns are sequences of tasks.                            *)
LEMMA InOrderSeq == ASSUME NEW S \in SUBSET Tasks, NEW l \in InOrder(S)
                    PROVE  l \in Seq(Tasks)
<1>1. IsFiniteSet(Tasks)
  BY EngineAssumption, FS_Interval DEF Tasks
<1>2. IsFiniteSet(S)
  BY <1>1, FS_Subset
<1>3. Cardinality(S) \in Nat
  BY <1>2, FS_CardinalityType
<1>4. l \in [1 .. Cardinality(S) -> Tasks]
  BY DEF InOrder
<1> QED
  BY <1>3, <1>4

LEMMA NoCheckpointType == NoCheckpoint \in Checkpoint
  BY DEF NoCheckpoint, Checkpoint

LEMMA InitIInv == Init => IInv
<1> SUFFICES ASSUME Init PROVE IInv
  OBVIOUS
<1>1. TypeOK
  <2>1. <<>> \in Seq(Tasks) /\ Len(<<>>) = 0
    OBVIOUS
  <2>2. list \in Seq(Tasks) /\ index \in 1 .. Len(list) + 1
    BY <2>1 DEF Init
  <2> QED
    BY <2>2, NoCheckpointType DEF Init, TypeOK, AllModes
<1>2. Sound(1, 0, 0, <<>>)
  BY DEF Sound, Accounted
<1>3. SoundCheckpoint(NoCheckpoint)
  BY <1>2 DEF SoundCheckpoint, NoCheckpoint
<1> QED
  BY <1>1, <1>2, <1>3 DEF Init, IInv

(* Soundness only gains from more history.                                 *)
LEMMA SoundMonotone ==
  ASSUME NEW i, NEW done, NEW bad, NEW l, Sound(i, done, bad, l),
         attempted \subseteq attempted', worked \subseteq worked'
  PROVE  Sound(i, done, bad, l)'
  BY DEF Sound, Accounted

-----------------------------------------------------------------------------
(* Starting a process at a sound position.                                 *)
LEMMA BeginIInv ==
  ASSUME IInv, NEW m \in AllModes, NEW l \in Seq(Tasks),
         NEW i \in Nat, NEW done \in Nat, NEW bad \in Nat,
         Sound(i, done, bad, l), Begin(m, l, i, done, bad)
  PROVE  IInv'
<1>1. TypeOK'
  <2>1. list' \in Seq(Tasks) /\ index' \in 1 .. Len(list') + 1
    BY DEF Begin, Sound
  <2>2. TypeOK /\ starts + 1 \in Nat
    BY DEF IInv, TypeOK
  <2> QED
    BY <2>1, <2>2 DEF TypeOK, Begin, files, history
<1>2. Sound(index, completed, failed, list)'
  BY DEF Begin, history, Sound, Accounted
<1>3. \A c \in (checkpoints \union {latest})' : SoundCheckpoint(c)'
  BY DEF IInv, Begin, files, history, SoundCheckpoint, Sound, Accounted
<1> QED
  BY <1>1, <1>2, <1>3 DEF IInv, Begin

LEMMA RestoreIInv ==
  ASSUME IInv, NEW m \in AllModes, NEW c \in checkpoints \union {latest}, Restore(m, c)
  PROVE  IInv'
<1>1. c \in Checkpoint /\ SoundCheckpoint(c)
  BY DEF IInv, TypeOK
<1>2. /\ c.list \in Seq(Tasks) /\ c.index \in Nat
      /\ c.completed \in Nat /\ c.failed \in Nat
  BY <1>1 DEF Checkpoint
<1> QED
  BY <1>1, <1>2, BeginIInv DEF Restore, SoundCheckpoint

LEMMA StartIInv == ASSUME IInv, Start PROVE IInv'
<1>1. ASSUME NEW l \in Seq(Tasks) PROVE Sound(1, 0, 0, l)
  <2>1. Len(l) \in Nat
    OBVIOUS
  <2> QED
    BY <2>1 DEF Sound, Accounted
<1>2. CASE StartExecute
  <2>1. PICK l \in InOrder(Executable(guide)) : Begin("execute", l, 1, 0, 0)
    BY <1>2 DEF StartExecute
  <2>2. l \in Seq(Tasks)
    BY <2>1, InOrderSeq DEF Executable
  <2> QED
    BY <2>1, <2>2, <1>1, BeginIInv DEF AllModes
<1>3. CASE StartTargeted
  <2>1. PICK S \in (SUBSET Tasks) \ {{}} : \E l \in InOrder(S) : Begin("targeted", l, 1, 0, 0)
    BY <1>3 DEF StartTargeted
  <2>2. PICK l \in InOrder(S) : Begin("targeted", l, 1, 0, 0)
    BY <2>1
  <2>3. l \in Seq(Tasks)
    BY <2>1, <2>2, InOrderSeq
  <2> QED
    BY <2>2, <2>3, <1>1, BeginIInv DEF AllModes
<1>4. CASE ContinueLatest
  BY <1>4, RestoreIInv DEF ContinueLatest, AllModes
<1>5. CASE ContinueFrom
  BY <1>5, RestoreIInv DEF ContinueFrom, AllModes
<1>6. CASE ContinueTorn
  <2>1. TypeOK'
    <3>1. <<>> \in Seq(Tasks) /\ Len(<<>>) = 0
      OBVIOUS
    <3>2. list' \in Seq(Tasks) /\ index' \in 1 .. Len(list') + 1
      BY <1>6, <3>1 DEF ContinueTorn
    <3>3. TypeOK /\ starts + 1 \in Nat
      BY DEF IInv, TypeOK
    <3> QED
      BY <1>6, <3>2, <3>3 DEF TypeOK, ContinueTorn, files, history, AllModes
  <2>2. Sound(1, 0, 0, <<>>)'
    BY DEF Sound, Accounted
  <2>3. \A c \in (checkpoints \union {latest})' : SoundCheckpoint(c)'
    BY <1>6 DEF IInv, ContinueTorn, files, history, SoundCheckpoint, Sound, Accounted
  <2> QED
    BY <1>6, <2>1, <2>2, <2>3 DEF IInv, ContinueTorn
<1> QED
  BY <1>2, <1>3, <1>4, <1>5, <1>6 DEF Start

-----------------------------------------------------------------------------
(* The steps of the engine.                                                *)

(* A checkpoint of the current position is sound.                          *)
LEMMA HereSound == ASSUME IInv PROVE Here \in Checkpoint /\ SoundCheckpoint(Here)
<1>1. Len(list) \in Nat
  BY DEF IInv, TypeOK
<1> QED
  BY <1>1 DEF IInv, TypeOK, Here, Checkpoint, SoundCheckpoint

LEMMA NoCheckpointSound == SoundCheckpoint(NoCheckpoint)
  BY DEF SoundCheckpoint, NoCheckpoint, Sound, Accounted

(* The files after any step that writes at most the current position.      *)
LEMMA FilesSound ==
  ASSUME IInv, attempted \subseteq attempted', worked \subseteq worked',
         FileWritten \/ FileTorn \/ UNCHANGED <<checkpoints, newest, latest>>
  PROVE  /\ checkpoints' \subseteq Checkpoint
         /\ newest' \in {"none", "torn", "intact"}
         /\ latest' \in Checkpoint
         /\ \A c \in (checkpoints \union {latest})' : SoundCheckpoint(c)'
<1>1. /\ checkpoints' \subseteq checkpoints \union {Here}
      /\ latest' \in {latest, Here, NoCheckpoint}
      /\ newest' \in {newest, "torn", "intact"}
  BY DEF FileWritten, FileTorn
<1>2. \A c \in checkpoints \union {latest, Here, NoCheckpoint} :
         c \in Checkpoint /\ SoundCheckpoint(c)
  BY HereSound, NoCheckpointSound, NoCheckpointType DEF IInv, TypeOK
<1>3. ASSUME NEW c, SoundCheckpoint(c) PROVE SoundCheckpoint(c)'
  BY <1>3 DEF SoundCheckpoint, Sound, Accounted
<1> QED
  BY <1>1, <1>2, <1>3 DEF IInv, TypeOK

LEMMA EngineIInv == ASSUME IInv, EngineStep PROVE IInv'
<1> USE DEF IInv
<1>1. CASE NextTask
  BY <1>1 DEF NextTask, TypeOK, files, bounds, history, SoundCheckpoint, Sound, Accounted
<1>2. CASE Finish
  BY <1>2 DEF Finish, TypeOK, files, memory, bounds, history, SoundCheckpoint, Sound, Accounted
<1>3. CASE SaveCheckpoint
  <2>1. FileWritten /\ UNCHANGED <<attempted, worked>>
    BY <1>3 DEF SaveCheckpoint, history
  <2> QED
    BY <1>3, <2>1, FilesSound DEF SaveCheckpoint, TypeOK, memory, bounds, history, Sound
<1>4. CASE SaveCheckpointFails
  <2>1. /\ FileTorn \/ UNCHANGED <<checkpoints, newest, latest>>
        /\ UNCHANGED <<attempted, worked>>
    BY <1>4 DEF SaveCheckpointFails, history
  <2> QED
    BY <1>4, <2>1, FilesSound DEF SaveCheckpointFails, TypeOK, memory, bounds, history, Sound
<1>5. CASE StartTask
  <2>1. index \in 1 .. Len(list) /\ Current \in Tasks
    BY <1>5 DEF StartTask, TypeOK, Current
  <2>2. guide' \in [Tasks -> Statuses] /\ writeFailures' \in Nat
    BY <1>5, <2>1 DEF StartTask, SetStatus, TypeOK, Statuses
  <2>3. /\ UNCHANGED <<checkpoints, newest, latest, worked>>
        /\ attempted' = attempted \union {Current}
    BY <1>5 DEF StartTask
  <2> QED
    BY <1>5, <2>1, <2>2, <2>3, FilesSound
    DEF StartTask, Current, TypeOK, memory, Sound, Accounted
<1>6. CASE ProviderSucceeds
  <2>1. index \in 1 .. Len(list) /\ Current \in Tasks
    BY <1>6 DEF ProviderSucceeds, TypeOK, Current
  <2>2. /\ UNCHANGED <<checkpoints, newest, latest, attempted>>
        /\ worked' = worked \union {Current}
    BY <1>6 DEF ProviderSucceeds, files
  <2> QED
    BY <1>6, <2>1, <2>2, FilesSound
    DEF ProviderSucceeds, Current, TypeOK, files, memory, bounds, Sound, Accounted
<1>7. CASE RecordSuccess
  <2>1. index \in 1 .. Len(list) /\ Current \in Tasks
    BY <1>7 DEF RecordSuccess, TypeOK, Current
  <2>2. guide' \in [Tasks -> Statuses] /\ writeFailures' \in Nat
    BY <1>7, <2>1 DEF RecordSuccess, SetStatus, TypeOK, Statuses
  <2>3. UNCHANGED <<checkpoints, newest, latest, attempted, worked>>
    BY <1>7 DEF RecordSuccess, history
  <2>4. failed' \in {failed, failed + 1} /\ completed' = completed + 1 /\ index' = index + 1
    BY <1>7 DEF RecordSuccess
  <2>5. Sound(index, completed, failed, list)'
    BY <1>7, <2>1, <2>3, <2>4 DEF RecordSuccess, TypeOK, Sound, Accounted
  <2> QED
    BY <1>7, <2>1, <2>2, <2>3, <2>4, <2>5, FilesSound DEF RecordSuccess, TypeOK, history
<1>8. CASE ProviderFailsRetry
  <2>1. UNCHANGED <<checkpoints, newest, latest, attempted, worked>>
    BY <1>8 DEF ProviderFailsRetry, files, history
  <2> QED
    BY <1>8, <2>1, FilesSound DEF ProviderFailsRetry, TypeOK, files, bounds, history, Sound, Accounted
<1>9. CASE ProviderFailsGiveUp
  <2>1. index \in 1 .. Len(list)
    BY <1>9 DEF ProviderFailsGiveUp, TypeOK
  <2>2. UNCHANGED <<checkpoints, newest, latest, attempted, worked>>
    BY <1>9 DEF ProviderFailsGiveUp, files, history
  <2>3. Sound(index, completed, failed, list)'
    BY <1>9, <2>1, <2>2 DEF ProviderFailsGiveUp, TypeOK, Sound, Accounted
  <2> QED
    BY <1>9, <2>1, <2>2, <2>3, FilesSound DEF ProviderFailsGiveUp, TypeOK, files, bounds, history
<1> QED
  BY <1>1, <1>2, <1>3, <1>4, <1>5, <1>6, <1>7, <1>8, <1>9 DEF EngineStep

-----------------------------------------------------------------------------
(* Signals and crashes.                                                    *)
LEMMA StopIInv == ASSUME IInv, NEW how \in {"signal", "killed"}, Stop(how) PROVE IInv'
<1>1. /\ UNCHANGED <<attempted, worked>>
      /\ FileTorn \/ UNCHANGED <<checkpoints, newest, latest>>
  BY DEF Stop, history
<1>2. /\ checkpoints' \subseteq Checkpoint
      /\ newest' \in {"none", "torn", "intact"}
      /\ latest' \in Checkpoint
      /\ \A c \in (checkpoints \union {latest})' : SoundCheckpoint(c)'
  BY <1>1, FilesSound
<1>3. <<>> \in Seq(Tasks) /\ Len(<<>>) = 0
  OBVIOUS
<1>4. list' \in Seq(Tasks) /\ index' \in 1 .. Len(list') + 1
  BY <1>3 DEF Stop
<1>5. Sound(index, completed, failed, list)'
  BY <1>3 DEF Stop, Sound, Accounted
<1> QED
  BY <1>2, <1>4, <1>5 DEF IInv, TypeOK, Stop, bounds, history, AllModes

LEMMA NextIInv == IInv /\ [Next]_vars => IInv'
<1> SUFFICES ASSUME IInv, [Next]_vars PROVE IInv'
  OBVIOUS
<1>1. CASE Start
  BY <1>1, StartIInv
<1>2. CASE EngineStep
  BY <1>2, EngineIInv
<1>3. CASE Signal
  BY <1>3 DEF Signal, IInv, TypeOK, files, memory, bounds, history,
              SoundCheckpoint, Sound, Accounted
<1>4. CASE GraceOver
  BY <1>4, StopIInv DEF GraceOver
<1>5. CASE Crash
  BY <1>5, StopIInv DEF Crash
<1>6. CASE UNCHANGED vars
  BY <1>6 DEF vars, IInv, TypeOK, SoundCheckpoint, Sound, Accounted
<1> QED
  BY <1>1, <1>2, <1>3, <1>4, <1>5, <1>6 DEF Next

-----------------------------------------------------------------------------
(* Every reachable state satisfies the inductive invariant.                *)
THEOREM Invariance == Spec => []IInv
  BY InitIInv, NextIInv, PTL DEF Spec

(* The variables of the engine and its files keep their types.             *)
THEOREM TypeCorrectness == Spec => []TypeOK
<1>1. IInv => TypeOK
  BY DEF IInv
<1> QED
  BY <1>1, Invariance, PTL

(* The counters of a run and of every checkpoint account for exactly the   *)
(* tasks before its position, whatever crashes, is resumed, or fails to be *)
(* written.                                                                *)
THEOREM CountersCorrect == Spec => []CountersAccountForTasks
<1>1. IInv => CountersAccountForTasks
  BY DEF IInv, CountersAccountForTasks, SoundCheckpoint, Sound
<1> QED
  BY <1>1, Invariance, PTL

(* Exit code 0 is only given when a provider carried out every task of the *)
(* list, in this process or in the ones it resumes.                        *)
THEOREM SuccessIsHonest == Spec => []SuccessMeansWorked
<1>1. IInv => SuccessMeansWorked
  BY DEF IInv, TypeOK, SuccessMeansWorked, Sound
<1> QED
  BY <1>1, Invariance, PTL

(* A run that reaches its summary has handed every task to a provider.     *)
THEOREM NothingSkipped == Spec => []NoTaskSkipped
<1>1. IInv => NoTaskSkipped
  BY DEF IInv, TypeOK, NoTaskSkipped, Sound
<1> QED
  BY <1>1, Invariance, PTL

-----------------------------------------------------------------------------
(* Without failed status writes the guide moves as config.js allows: the   *)
(* engine never validates a transition, but a task is in_progress whenever *)
(* its outcome is recorded.                                                *)
InProgress == pc \in {"provider", "record"} => guide[Current] = "in_progress"

LEMMA LifecycleStep ==
  ASSUME MaxWriteFailures = 0, IInv, InProgress, [Next]_vars
  PROVE  InProgress' /\ [Lifecycle!Next]_guide
<1> USE DEF IInv, InProgress
<1>1. ASSUME NEW t \in Tasks, NEW status \in Statuses, SetStatus(t, status)
      PROVE  guide' = [guide EXCEPT ![t] = status]
  BY <1>1 DEF SetStatus, TypeOK
<1>2. CASE StartTask
  <2>1. Current \in Tasks /\ UNCHANGED Current
    BY <1>2 DEF StartTask, TypeOK, Current, memory
  <2>2. guide' = [guide EXCEPT ![Current] = "in_progress"]
    BY <1>2, <2>1, <1>1 DEF StartTask, Statuses
  <2>3. guide[Current] # "in_progress" => Lifecycle!Move(Current, "in_progress")
    BY <2>1, <2>2 DEF Lifecycle!Move, Lifecycle!validTransitions, TypeOK, Statuses
  <2>4. guide[Current] = "in_progress" => UNCHANGED guide
    BY <2>1, <2>2 DEF TypeOK
  <2> QED
    BY <1>2, <2>1, <2>2, <2>3, <2>4 DEF Lifecycle!Next, Lifecycle!Statuses, TypeOK
<1>3. CASE RecordSuccess
  <2>1. Current \in Tasks /\ guide[Current] = "in_progress"
    BY <1>3 DEF RecordSuccess, TypeOK, Current
  <2>2. guide' = [guide EXCEPT ![Current] = "completed"]
    BY <1>3, <2>1, <1>1 DEF RecordSuccess, Statuses
  <2>3. Lifecycle!Move(Current, "completed")
    BY <2>1, <2>2 DEF Lifecycle!Move, Lifecycle!validTransitions
  <2>4. pc' = "head"
    BY <1>3 DEF RecordSuccess
  <2> QED
    BY <2>1, <2>3, <2>4 DEF Lifecycle!Next, Lifecycle!Statuses
<1>4. CASE ProviderSucceeds
  BY <1>4 DEF ProviderSucceeds, Current, files, memory
<1>5. CASE Start
  BY <1>5 DEF Start, StartExecute, StartTargeted, ContinueLatest, ContinueFrom, Restore,
              Begin, ContinueTorn, files
<1>6. CASE NextTask \/ Finish \/ SaveCheckpoint \/ SaveCheckpointFails
           \/ ProviderFailsRetry \/ ProviderFailsGiveUp
  BY <1>6 DEF NextTask, Finish, SaveCheckpoint, SaveCheckpointFails,
              ProviderFailsRetry, ProviderFailsGiveUp, files
<1>7. CASE Signal
  BY <1>7 DEF Signal, Current, files, memory
<1>8. CASE GraceOver \/ Crash
  BY <1>8 DEF GraceOver, Crash, Stop
<1>9. CASE UNCHANGED vars
  BY <1>9 DEF vars, Current
<1> QED
  BY <1>2, <1>3, <1>4, <1>5, <1>6, <1>7, <1>8, <1>9 DEF Next, EngineStep

(* The engine implements TaskLifecycle when the guide can be written.      *)
THEOREM FollowsTable == ASSUME MaxWriteFailures = 0 PROVE Spec => FollowsLifecycle
<1>1. Init => Lifecycle!Init /\ InProgress
  BY DEF Init, Lifecycle!Init, Lifecycle!Statuses, Statuses, InProgress
<1>2. IInv /\ InProgress /\ [Next]_vars => InProgress' /\ [Lifecycle!Next]_guide
  BY LifecycleStep
<1> QED
  BY <1>1, <1>2, Invariance, PTL DEF Spec, FollowsLifecycle, Lifecycle!Spec

-----------------------------------------------------------------------------
(* ProviderManager. *)

Places == Ended \union {"asking", "calling"}

(* A call's record. Its lists are of whatever they hold: Best is a key, but *)
(* nothing here depends on it.                                              *)
CallRecord(x) ==
  /\ x \in [pc : Places, kind : {x.kind}, order : {x.order}, pos : Nat,
            saved : {x.saved}, log : {x.log}]
  /\ x.order \in Seq(Range(x.order)) /\ x.log \in Seq(Instances)

(* The entries of a call's list before pos that name an initialized        *)
(* provider are those it has tried and seen failing.                       *)
TriedBefore(x, pos) ==
  x.log = Normal(Only(SubSeq(x.order, 1, pos - 1), Configured(x.order)))

Tries(x) ==
  /\ x.pc = "calling" => /\ x.pos \in 1 .. Len(x.order) /\ Provider(x) \in Instances
                         /\ TriedBefore(x, x.pos)
  /\ x.pc = "failed" => x.log = Normal(Only(x.order, Configured(x.order)))

CallsTyped ==
  /\ DOMAIN calls = Calls /\ calls = [c \in Calls |-> calls[c]]
  /\ \A c \in Calls : CallRecord(calls[c]) /\ Tries(calls[c])

CountersTyped ==
  /\ stats \in [Instances -> Stats] /\ forgiven \in [Instances -> Int]
  /\ streak \in [Instances -> Nat] /\ now \in Nat \ {0}

(* What the breaker reads bounds the failures in a row.                    *)
StreakCounted ==
  \A p \in Instances : /\ streak[p] <= stats[p].failures
                       /\ streak[p] > 0 => stats[p].lastFailure # 0

BreakerRuns(c) == calls[c].kind = "breaker" /\ calls[c].pc = "calling"

(* A breaker call, when only one may run, will put the configured order back. *)
OrderKept ==
  /\ \A c, d \in Calls : BreakerRuns(c) /\ BreakerRuns(d) => c = d
  /\ \A c \in Calls : BreakerRuns(c) => calls[c].saved = Order
  /\ (\A c \in Calls : ~ BreakerRuns(c)) => providerOrder = Order

Lists == /\ providerOrder \in Seq(Names)
         /\ \A c \in Calls : BreakerRuns(c) => calls[c].saved \in Seq(Names)

ManagerInv ==
  /\ CallsTyped /\ CountersTyped /\ Lists /\ StreakCounted /\ StatsAddUp
  /\ MaxBreakers <= 1 => OrderKept

-----------------------------------------------------------------------------
(* Lists. *)

LEMMA OfItself == ASSUME NEW T, NEW s \in Seq(T) PROVE s \in Seq(Range(s))
<1>n. PICK n \in Nat : n = Len(s) /\ DOMAIN s = 1 .. n
  OBVIOUS
<1>1. s = [i \in 1 .. n |-> s[i]]
  BY <1>n
<1>2. \A i \in 1 .. n : s[i] \in Range(s)
  BY <1>n DEF Range
<1> QED BY <1>1, <1>2

LEMMA NormalExtends ==
  ASSUME NEW T, NEW s \in Seq(T), NEW e \in T
  PROVE  Normal(Append(s, e)) = Append(Normal(s), NormalName[e])
<1>n. PICK n \in Nat : n = Len(s) /\ DOMAIN s = 1 .. n
  OBVIOUS
<1>1. Append(s, e) = [i \in 1 .. n + 1 |-> IF i = n + 1 THEN e ELSE s[i]]
  <2>1. PICK t : t = Append(s, e)
    OBVIOUS
  <2>2. t \in Seq(T) /\ Len(t) = n + 1 /\ t[n + 1] = e /\ \A i \in 1 .. n : t[i] = s[i]
    BY <1>n, <2>1
  <2>3. t = [i \in 1 .. n + 1 |-> t[i]]
    BY <2>2
  <2>4. \A i \in 1 .. n + 1 : t[i] = IF i = n + 1 THEN e ELSE s[i]
    BY <2>2
  <2> QED BY <2>1, <2>3, <2>4
<1> DEFINE U == {NormalName[x] : x \in T}
<1>2. \A i \in 1 .. n : s[i] \in T /\ NormalName[s[i]] \in U
  BY <1>n
<1>3. Normal(s) = [i \in 1 .. n |-> NormalName[s[i]]]
  BY <1>n DEF Normal
<1> HIDE DEF U
<1>4. Normal(s) \in Seq(U) /\ Len(Normal(s)) = n /\ NormalName[e] \in {NormalName[e]}
  <2>1. Normal(s) \in [1 .. n -> U]
    BY <1>2, <1>3
  <2> QED BY <2>1, <1>3
<1>5. Append(Normal(s), NormalName[e]) = [i \in 1 .. n + 1 |-> IF i = n + 1 THEN NormalName[e] ELSE Normal(s)[i]]
  BY <1>4
<1>6. \A i \in 1 .. n + 1 : i # n + 1 => Normal(s)[i] = NormalName[s[i]]
  BY <1>3
<1>7. Normal(Append(s, e)) = [i \in 1 .. n + 1 |-> IF i = n + 1 THEN NormalName[e] ELSE NormalName[s[i]]]
  BY <1>1 DEF Normal
<1> QED BY <1>5, <1>6, <1>7

LEMMA NormalOfNone == Normal(<<>>) = <<>>
BY DEF Normal

LEMMA First ==
  ASSUME NEW S \in SUBSET Nat, S # {}
  PROVE  FirstOf(S) \in S /\ \A j \in S : FirstOf(S) <= j
<1>1. \E k \in S : \A j \in S : k <= j
  BY LeastNumber
<1> QED BY <1>1, Zenon DEF FirstOf

-----------------------------------------------------------------------------
(* One call changes its record. *)

LEMMA CallChanges ==
  ASSUME CallsTyped, NEW c \in Calls, NEW y, CallRecord(y), Tries(y), calls' = [calls EXCEPT ![c] = y]
  PROVE  CallsTyped' /\ calls'[c] = y /\ \A d \in Calls : d # c => calls'[d] = calls[d]
<1>1. calls'[c] = y /\ \A d \in Calls : d # c => calls'[d] = calls[d]
  BY DEF CallsTyped
<1>2. DOMAIN calls' = Calls /\ calls' = [d \in Calls |-> calls'[d]]
  BY DEF CallsTyped
<1>3. \A d \in Calls : CallRecord(calls'[d]) /\ Tries(calls'[d])
  BY <1>1 DEF CallsTyped
<1> QED BY <1>1, <1>2, <1>3 DEF CallsTyped

LEMMA InFlightMoves ==
  ASSUME CallsTyped, NEW c \in Calls, NEW y, calls'[c] = y,
         \A d \in Calls : d # c => calls'[d] = calls[d], NEW p
  PROVE  /\ Cardinality(InFlight(p) \ {c}) \in Nat
         /\ Cardinality(InFlight(p)) = Cardinality(InFlight(p) \ {c})
              + (IF calls[c].pc = "calling" /\ Provider(calls[c]) = p THEN 1 ELSE 0)
         /\ Cardinality(InFlight(p)') = Cardinality(InFlight(p) \ {c})
              + (IF y.pc = "calling" /\ Provider(y) = p THEN 1 ELSE 0)
<1> PICK R : R = InFlight(p) \ {c}
  OBVIOUS
<1>1. IsFiniteSet(R) /\ c \notin R
  <2>1. R \subseteq Calls /\ c \notin R
    BY DEF InFlight
  <2> QED BY <2>1, ManagerAssumption, FS_Subset
<1>2. Cardinality(R) \in Nat /\ Cardinality(R \union {c}) = Cardinality(R) + 1
  BY <1>1, FS_CardinalityType, FS_AddElement
<1>3. Cardinality(InFlight(p)) = Cardinality(R)
        + (IF calls[c].pc = "calling" /\ Provider(calls[c]) = p THEN 1 ELSE 0)
  <2>1. CASE calls[c].pc = "calling" /\ Provider(calls[c]) = p
    <3>1. InFlight(p) = R \union {c}
      BY <2>1 DEF InFlight
    <3>2. Cardinality(InFlight(p)) = Cardinality(R) + 1
      BY <1>2, <3>1
    <3> QED BY <2>1, <3>2
  <2>2. CASE ~(calls[c].pc = "calling" /\ Provider(calls[c]) = p)
    <3>1. InFlight(p) = R
      BY <2>2 DEF InFlight
    <3>2. Cardinality(InFlight(p)) = Cardinality(R)
      BY <3>1, Zenon
    <3> QED BY <1>2, <2>2, <3>2
  <2> QED BY <2>1, <2>2
<1> PICK Q : Q = InFlight(p)'
  OBVIOUS
<1>4. Cardinality(Q) = Cardinality(R) + (IF y.pc = "calling" /\ Provider(y) = p THEN 1 ELSE 0)
  <2>1. CASE y.pc = "calling" /\ Provider(y) = p
    <3>1. Q = R \union {c}
      BY <2>1 DEF InFlight, Provider
    <3>2. Cardinality(Q) = Cardinality(R) + 1
      BY <1>2, <3>1
    <3> QED BY <2>1, <3>2
  <2>2. CASE ~(y.pc = "calling" /\ Provider(y) = p)
    <3>1. Q = R
      BY <2>2 DEF InFlight, Provider
    <3>2. Cardinality(Q) = Cardinality(R)
      BY <3>1, Zenon
    <3> QED BY <1>2, <2>2, <3>2
  <2> QED BY <2>1, <2>2
<1> QED BY <1>2, <1>3, <1>4

\* The statistics s add up when call c is left out.
BalancedBut(c, s, f) ==
  \A p \in Instances : s[p].attempts = s[p].successes + s[p].failures + f[p] + Cardinality(InFlight(p) \ {c})

(* What Continue makes of the record x of call c.                          *)
GoesOn(c, x, y, s, shared) ==
  /\ calls' = [calls EXCEPT ![c] = y] /\ CallRecord(y) /\ Tries(y)
  /\ y.kind = x.kind /\ y.order = x.order /\ y.saved = x.saved
  /\ \/ /\ y.pc = "calling" /\ Provider(y) \in Instances
        /\ stats' = CountAttempt(s, Provider(y)) /\ providerOrder' = shared
     \/ /\ y.pc = "failed" /\ stats' = s
        /\ providerOrder' = IF x.kind = "breaker" THEN x.saved ELSE shared

LEMMA Continues ==
  ASSUME NEW c \in Calls, NEW x, NEW pos \in Nat \ {0}, NEW s, NEW shared, Continue(c, x, pos, s, shared),
         CallRecord(x), pos - 1 <= Len(x.order), TriedBefore(x, pos)
  PROVE  \E y : GoesOn(c, x, y, s, shared)
<1> DEFINE o == x.order
           C == Configured(o)
           rest == Remaining(o, pos)
<1>n. PICK n \in Nat : n = Len(o) /\ DOMAIN o = 1 .. n
  BY DEF CallRecord
<1>o. o \in Seq(Range(o)) /\ \A i \in 1 .. n : o[i] \in Range(o)
  BY <1>n DEF CallRecord
<1>r. \A k : k \in rest <=> k \in pos .. n /\ NormalName[o[k]] \in Instances
  BY <1>n DEF Remaining
<1>c. \A i \in 1 .. n : o[i] \in C <=> NormalName[o[i]] \in Instances
  BY <1>o DEF Configured
<1>1. CASE rest # {}
  <2>1. PICK k : k = FirstOf(rest)
    OBVIOUS
  <2>2. k \in rest /\ \A j \in rest : k <= j
    <3>1. rest \in SUBSET Nat
      BY <1>r
    <3> QED BY <1>1, <2>1, <3>1, First
  <2>3. k \in pos .. n /\ k \in 1 .. n /\ k - 1 \in Nat /\ pos - 1 \in Nat /\ pos - 1 <= k - 1 /\ k - 1 <= n
    BY <1>r, <2>2
  <2>4. \A i \in (pos - 1) + 1 .. k - 1 : o[i] \notin C
    <3> SUFFICES ASSUME NEW i \in (pos - 1) + 1 .. k - 1 PROVE o[i] \notin C
      OBVIOUS
    <3>1. i \in pos .. n /\ i \in 1 .. n /\ ~(k <= i)
      BY <2>3
    <3> QED BY <1>r, <1>c, <2>2, <3>1
  <2>5. Only(SubSeq(o, 1, k - 1), C) = Only(SubSeq(o, 1, pos - 1), C)
    BY <1>n, <1>o, <2>3, <2>4, OnlySkips
  <2>6. PICK y : y = [x EXCEPT !.pc = "calling", !.pos = k]
    OBVIOUS
  <2>7. /\ y.pc = "calling" /\ y.pos = k /\ y.kind = x.kind /\ y.order = o /\ y.saved = x.saved /\ y.log = x.log
        /\ CallRecord(y)
    <3>1. PICK z : z = [x EXCEPT !.pc = "calling"]
      OBVIOUS
    <3>2. /\ z.pc = "calling" /\ z.kind = x.kind /\ z.order = o /\ z.saved = x.saved /\ z.log = x.log
          /\ CallRecord(z)
      BY <3>1 DEF CallRecord, Places
    <3>3. y = [z EXCEPT !.pos = k]
      BY <2>6, <3>1
    <3> QED BY <2>3, <3>2, <3>3 DEF CallRecord
  <2>8. Provider(y) \in Instances
    BY <1>r, <2>2, <2>7 DEF Provider
  <2>9. Tries(y)
    BY <1>n, <2>3, <2>5, <2>7, <2>8 DEF Tries, TriedBefore
  <2>10. /\ calls' = [calls EXCEPT ![c] = y] /\ stats' = CountAttempt(s, Provider(y))
         /\ providerOrder' = shared
    BY <1>1, <2>1, <2>6 DEF Continue
  <2> QED BY <2>7, <2>8, <2>9, <2>10 DEF GoesOn
<1>2. CASE rest = {}
  <2>1. \A i \in (pos - 1) + 1 .. n : o[i] \notin C
    <3> SUFFICES ASSUME NEW i \in (pos - 1) + 1 .. n PROVE o[i] \notin C
      OBVIOUS
    <3>1. i \in pos .. n /\ i \in 1 .. n
      OBVIOUS
    <3> QED BY <1>r, <1>c, <1>2, <3>1
  <2>2. Only(SubSeq(o, 1, n), C) = Only(SubSeq(o, 1, pos - 1), C)
    <3>1. PICK m \in Nat : m = pos - 1 /\ m <= n
      BY <1>n
    <3>2. \A i \in m + 1 .. n : o[i] \notin C
      BY <2>1, <3>1
    <3>3. n \in Nat /\ n <= Len(o)
      BY <1>n
    <3>4. Only(SubSeq(o, 1, n), C) = Only(SubSeq(o, 1, m), C)
      BY <1>o, <3>1, <3>2, <3>3, OnlySkips
    <3> QED BY <3>1, <3>4
  <2>3. SubSeq(o, 1, n) = o
    BY <1>n, <1>o, Prefix
  <2>4. PICK y : y = [x EXCEPT !.pc = "failed"]
    OBVIOUS
  <2>5. /\ y.pc = "failed" /\ y.kind = x.kind /\ y.order = o /\ y.saved = x.saved /\ y.log = x.log
        /\ CallRecord(y)
    BY <2>4 DEF CallRecord, Places, Ended
  <2>6. Tries(y)
    BY <2>2, <2>3, <2>5 DEF Tries, TriedBefore
  <2>7. /\ calls' = [calls EXCEPT ![c] = y] /\ stats' = s
        /\ providerOrder' = IF x.kind = "breaker" THEN x.saved ELSE shared
    BY <1>2, <2>4 DEF Continue
  <2> QED BY <2>5, <2>6, <2>7 DEF GoesOn
<1> QED BY <1>1, <1>2

-----------------------------------------------------------------------------
(* A call begins or goes on. *)

LEMMA OnlyOfNone == ASSUME NEW S PROVE Only(<<>>, S) = <<>>
<1>1. <<>> \in Seq(Int) /\ Len(<<>>) = 0
  OBVIOUS
<1>2. Only(<<>>, S) \in Seq(Int) /\ Len(Only(<<>>, S)) <= 0
  BY <1>1, OnlyProperties
<1> QED BY <1>2

LEMMA NewCalls ==
  ASSUME NEW T, NEW o \in Seq(T), NEW kind
  PROVE  LET x == NewCall(kind, o)
         IN  CallRecord(x) /\ TriedBefore(x, 1) /\ 1 - 1 <= Len(x.order) /\ x.kind = kind /\ x.order = o
<1> PICK x : x = NewCall(kind, o)
  OBVIOUS
<1>1. x = [pc |-> "idle", kind |-> kind, order |-> o, pos |-> 0, saved |-> <<>>, log |-> <<>>]
  BY DEF NewCall, Idle
<1>2. o \in Seq(Range(o)) /\ <<>> \in Seq(Instances)
  BY OfItself
<1>3. CallRecord(x)
  BY <1>1, <1>2 DEF CallRecord, Places, Ended
<1>4. SubSeq(o, 1, 1 - 1) = <<>>
  BY Prefix
<1>5. TriedBefore(x, 1)
  <2>1. x.order = o /\ x.log = <<>>
    BY <1>1
  <2>2. Only(<<>>, Configured(o)) = <<>>
    BY OnlyOfNone
  <2>3. x.log = Normal(Only(SubSeq(o, 1, 1 - 1), Configured(o)))
    BY <1>4, <2>1, <2>2, NormalOfNone, Zenon
  <2> QED BY <2>1, <2>3, Zenon DEF TriedBefore
<1>6. x.kind = kind /\ x.order = o /\ 1 - 1 <= Len(x.order)
  BY <1>1
<1> QED BY <1>3, <1>5, <1>6

(* Everything Continue has to be given, so that the invariant holds again. *)
Ready(c, x, pos, s, shared) ==
  /\ CallRecord(x) /\ TriedBefore(x, pos) /\ pos \in Nat \ {0} /\ pos - 1 <= Len(x.order)
  /\ s \in [Instances -> Stats] /\ shared \in Seq(Names)
  /\ x.kind = "breaker" => x.saved \in Seq(Names)
  /\ MaxBreakers <= 1 =>
       \/ x.kind # "breaker" /\ shared = providerOrder /\ ~BreakerRuns(c)
       \/ x.kind = "breaker" /\ BreakerRuns(c) /\ x.saved = calls[c].saved /\ shared = providerOrder
       \/ x.kind = "breaker" /\ (\A d \in Calls : ~BreakerRuns(d)) /\ x.saved = providerOrder

Counted(s, f, k) ==
  /\ f \in [Instances -> Int] /\ k \in [Instances -> Nat]
  /\ \A p \in Instances : k[p] <= s[p].failures /\ (k[p] > 0 => s[p].lastFailure # 0)

LEMMA FailuresCount ==
  ASSUME NEW s \in [Instances -> Stats], NEW p \in Instances, now \in Nat
  PROVE  /\ CountFailure(s, p) \in [Instances -> Stats]
         /\ \A q \in Instances :
              /\ CountFailure(s, p)[q].attempts = s[q].attempts
              /\ CountFailure(s, p)[q].successes = s[q].successes
              /\ CountFailure(s, p)[q].failures = s[q].failures + (IF q = p THEN 1 ELSE 0)
              /\ CountFailure(s, p)[q].lastFailure = IF q = p THEN now ELSE s[q].lastFailure
<1> PICK old : old = s[p]
  OBVIOUS
<1>1. old \in Stats /\ old.failures + 1 \in Nat
  BY DEF Stats
<1> PICK mid : mid = [old EXCEPT !.failures = @ + 1]
  OBVIOUS
<1>2. /\ mid \in Stats /\ mid.attempts = old.attempts /\ mid.successes = old.successes
      /\ mid.failures = old.failures + 1
  BY <1>1 DEF Stats
<1> PICK new : new = [mid EXCEPT !.lastFailure = now]
  OBVIOUS
<1>3. /\ new \in Stats /\ new.attempts = old.attempts /\ new.successes = old.successes
      /\ new.failures = old.failures + 1 /\ new.lastFailure = now
  BY <1>2 DEF Stats
<1>4. PICK t : t = CountFailure(s, p)
  OBVIOUS
<1>5. t = [s EXCEPT ![p] = new]
  BY <1>4 DEF CountFailure
<1>6. \A q \in Instances : t[q] = IF q = p THEN new ELSE s[q]
  BY <1>5
<1>7. t \in [Instances -> Stats]
  BY <1>3, <1>5
<1>8. ASSUME NEW q \in Instances
      PROVE  /\ t[q].attempts = s[q].attempts /\ t[q].successes = s[q].successes
             /\ t[q].failures = s[q].failures + (IF q = p THEN 1 ELSE 0)
             /\ t[q].lastFailure = IF q = p THEN now ELSE s[q].lastFailure
  <2>1. CASE q = p
    BY <1>3, <1>6, <2>1
  <2>2. CASE q # p
    <3>1. t[q] = s[q] /\ s[q].failures \in Nat
      BY <1>6, <2>2 DEF Stats
    <3> QED BY <2>2, <3>1
  <2> QED BY <2>1, <2>2
<1> QED BY <1>4, <1>7, <1>8

LEMMA StatsCount ==
  ASSUME NEW s \in [Instances -> Stats], NEW q \in Instances
  PROVE  /\ CountAttempt(s, q) \in [Instances -> Stats]
         /\ \A p \in Instances :
              /\ CountAttempt(s, q)[p].attempts = s[p].attempts + (IF p = q THEN 1 ELSE 0)
              /\ CountAttempt(s, q)[p].successes = s[p].successes
              /\ CountAttempt(s, q)[p].failures = s[p].failures
              /\ CountAttempt(s, q)[p].lastFailure = s[p].lastFailure
BY DEF CountAttempt, Stats

LEMMA GoesOnKeeps ==
  ASSUME ManagerInv, NEW c \in Calls, NEW x, NEW y, NEW pos, NEW s, NEW shared,
         GoesOn(c, x, y, s, shared), Ready(c, x, pos, s, shared), now' = now,
         BalancedBut(c, s, forgiven'), Counted(s, forgiven', streak')
  PROVE  ManagerInv'
<1>1. CallsTyped' /\ calls'[c] = y /\ \A d \in Calls : d # c => calls'[d] = calls[d]
  BY CallChanges DEF GoesOn, ManagerInv
<1>2. \A p \in Instances :
        /\ Cardinality(InFlight(p) \ {c}) \in Nat
        /\ Cardinality(InFlight(p)') = Cardinality(InFlight(p) \ {c}) + (IF y.pc = "calling" /\ Provider(y) = p THEN 1 ELSE 0)
  BY <1>1, InFlightMoves DEF ManagerInv
<1>3. CountersTyped' /\ StreakCounted' /\ StatsAddUp'
  <2>1. CASE y.pc = "calling" /\ Provider(y) \in Instances /\ stats' = CountAttempt(s, Provider(y))
    <3> PICK q \in Instances : q = Provider(y)
      BY <2>1
    <3>1. stats' \in [Instances -> Stats]
      BY <2>1, StatsCount DEF Ready
    <3>2. \A p \in Instances :
            /\ stats'[p].attempts = s[p].attempts + (IF p = q THEN 1 ELSE 0)
            /\ stats'[p].successes = s[p].successes
            /\ stats'[p].failures = s[p].failures
            /\ stats'[p].lastFailure = s[p].lastFailure
      BY <2>1, StatsCount DEF Ready
    <3>3. CountersTyped' /\ StreakCounted'
      BY <3>1, <3>2 DEF CountersTyped, StreakCounted, Counted, ManagerInv
    <3>4. ASSUME NEW p \in Instances
          PROVE  stats'[p].attempts = stats'[p].successes + stats'[p].failures + forgiven'[p] + Cardinality(InFlight(p)')
      <4>1. /\ s[p].attempts \in Nat /\ s[p].successes \in Nat /\ s[p].failures \in Nat /\ forgiven'[p] \in Int
            /\ s[p].attempts = s[p].successes + s[p].failures + forgiven'[p] + Cardinality(InFlight(p) \ {c})
        <5>1. s \in [Instances -> Stats] /\ forgiven' \in [Instances -> Int]
          BY DEF Ready, Counted
        <5>2. s[p] \in Stats /\ forgiven'[p] \in Int
          BY <5>1
        <5> QED BY <5>2 DEF BalancedBut, Stats
      <4>2. /\ Cardinality(InFlight(p) \ {c}) \in Nat
            /\ Cardinality(InFlight(p)') = Cardinality(InFlight(p) \ {c}) + (IF p = q THEN 1 ELSE 0)
        BY <1>2, <2>1
      <4>3. PICK after, was, a, b, e : /\ after = stats'[p] /\ was = s[p] /\ e = forgiven'[p]
                                       /\ a = Cardinality(InFlight(p) \ {c}) /\ b = Cardinality(InFlight(p)')
        OBVIOUS
      <4>4. after.attempts = after.successes + after.failures + e + b
        <5>1. /\ was.attempts \in Nat /\ was.successes \in Nat /\ was.failures \in Nat /\ e \in Int /\ a \in Nat
              /\ was.attempts = was.successes + was.failures + e + a
          BY <4>1, <4>2, <4>3
        <5>2. b = a + (IF p = q THEN 1 ELSE 0)
          BY <4>2, <4>3
        <5>3. /\ after.attempts = was.attempts + (IF p = q THEN 1 ELSE 0)
              /\ after.successes = was.successes /\ after.failures = was.failures
          BY <3>2, <4>3
        <5> QED BY <5>1, <5>2, <5>3
      <4> QED BY <4>3, <4>4
    <3> QED BY <3>3, <3>4 DEF StatsAddUp
  <2>2. CASE y.pc = "failed" /\ stats' = s
    <3>1. CountersTyped' /\ StreakCounted'
      BY <2>2 DEF CountersTyped, StreakCounted, Counted, Ready, ManagerInv
    <3>2. \A p \in Instances : Cardinality(InFlight(p)') = Cardinality(InFlight(p) \ {c})
      BY <1>2, <2>2
    <3> QED BY <2>2, <3>1, <3>2 DEF StatsAddUp, BalancedBut
  <2> QED BY <2>1, <2>2 DEF GoesOn
<1>4. \A d \in Calls : BreakerRuns(d)' <=> IF d = c THEN x.kind = "breaker" /\ y.pc = "calling" ELSE BreakerRuns(d)
  BY <1>1 DEF BreakerRuns, GoesOn
<1>5. Lists'
  BY <1>1, <1>4 DEF Lists, GoesOn, Ready, ManagerInv
<1>6. ASSUME MaxBreakers <= 1 PROVE OrderKept'
  <2>1. OrderKept
    BY <1>6 DEF ManagerInv
  <2>2. CASE x.kind # "breaker" /\ shared = providerOrder /\ ~BreakerRuns(c)
    BY <1>1, <1>4, <2>1, <2>2 DEF OrderKept, GoesOn
  <2>3. CASE x.kind = "breaker" /\ BreakerRuns(c) /\ x.saved = calls[c].saved /\ shared = providerOrder
    BY <1>1, <1>4, <2>1, <2>3 DEF OrderKept, GoesOn
  <2>4. CASE x.kind = "breaker" /\ (\A d \in Calls : ~BreakerRuns(d)) /\ x.saved = providerOrder
    BY <1>1, <1>4, <2>1, <2>4 DEF OrderKept, GoesOn
  <2> QED BY <1>6, <2>2, <2>3, <2>4 DEF Ready
<1> QED BY <1>1, <1>3, <1>5, <1>6 DEF ManagerInv

LEMMA CountsAre ==
  ASSUME ManagerInv
  PROVE  Counted(stats, forgiven, streak) /\ stats \in [Instances -> Stats]
BY DEF ManagerInv, CountersTyped, StreakCounted, Counted

LEMMA BalancedWithout ==
  ASSUME ManagerInv, NEW c \in Calls, calls[c].pc # "calling"
  PROVE  BalancedBut(c, stats, forgiven)
<1>1. \A p : InFlight(p) \ {c} = InFlight(p)
  BY DEF InFlight
<1> QED BY <1>1 DEF ManagerInv, StatsAddUp, BalancedBut

\* StartFallback, StartBest, AIAnswers.
LEMMA StartsPlain ==
  ASSUME ManagerInv, NEW c \in Calls, NEW T, NEW o \in Seq(T), NEW kind, kind # "breaker",
         calls[c].pc # "calling", Continue(c, NewCall(kind, o), 1, stats, providerOrder),
         UNCHANGED <<now, forgiven, streak>>
  PROVE  ManagerInv' /\ calls'[c].kind # "breaker"
<1> PICK x : x = NewCall(kind, o)
  OBVIOUS
<1>1. CallRecord(x) /\ TriedBefore(x, 1) /\ 1 - 1 <= Len(x.order) /\ x.kind = kind /\ x.order = o
  BY NewCalls
<1>2. PICK y : GoesOn(c, x, y, stats, providerOrder)
  BY <1>1, Continues
<1>3. Ready(c, x, 1, stats, providerOrder)
  BY <1>1, CountsAre DEF Ready, BreakerRuns, ManagerInv, Lists
<1>4. BalancedBut(c, stats, forgiven') /\ Counted(stats, forgiven', streak')
  BY BalancedWithout, CountsAre
<1>5. calls'[c].kind # "breaker"
  BY <1>1, <1>2, CallChanges DEF ManagerInv, GoesOn
<1> QED BY <1>2, <1>3, <1>4, <1>5, GoesOnKeeps

LEMMA PlainKinds ==
  ASSUME ManagerInv, NEW c \in Calls, StartFallback(c) \/ StartBest(c) \/ AIAnswers(c)
  PROVE  ManagerInv' /\ calls'[c].kind # "breaker"
<1>1. CASE StartFallback(c)
  <2>1. providerOrder \in Seq(Names)
    BY DEF ManagerInv, Lists
  <2>2. /\ calls[c].pc # "calling" /\ UNCHANGED <<now, forgiven, streak>>
        /\ Continue(c, NewCall("fallback", providerOrder), 1, stats, providerOrder)
    BY <1>1 DEF StartFallback, Starting, Ended
  <2> QED BY <2>1, <2>2, StartsPlain
<1>2. CASE StartBest(c)
  <2>1. <<Best>> \in Seq({Best})
    OBVIOUS
  <2>2. /\ calls[c].pc # "calling" /\ UNCHANGED <<now, forgiven, streak>>
        /\ Continue(c, NewCall("best", <<Best>>), 1, stats, providerOrder)
    BY <1>2 DEF StartBest, Starting, Ended
  <2> QED BY <2>1, <2>2, StartsPlain
<1>3. CASE AIAnswers(c)
  <2>1. PICK p : Continue(c, NewCall("ai", <<p>>), 1, stats, providerOrder)
    BY <1>3 DEF AIAnswers
  <2>2. calls[c].pc # "calling" /\ UNCHANGED <<now, forgiven, streak>>
    BY <1>3 DEF AIAnswers
  <2>3. <<p>> \in Seq({p})
    OBVIOUS
  <2> QED BY <2>1, <2>2, <2>3, StartsPlain
<1> QED BY <1>1, <1>2, <1>3

LEMMA UnblockedIs ==
  ASSUME ManagerInv
  PROVE  Unblocked \in Seq(Names) /\ \A p : p \in Range(Unblocked) => p \in Instances /\ ~Open(p)
<1> DEFINE S == {p \in Instances : ~ Open(p)}
<1>1. providerOrder \in Seq(Names)
  BY DEF ManagerInv, Lists
<1> HIDE DEF S
<1>2. Only(providerOrder, S) \in Seq(Names) /\ \A p : p \in Range(Only(providerOrder, S)) => p \in S
  BY <1>1, OnlyProperties
<1> USE DEF S
<1> QED BY <1>2 DEF Unblocked

LEMMA StartsBreaker ==
  ASSUME ManagerInv, NEW c \in Calls, StartBreaker(c)
  PROVE  ManagerInv' /\ calls'[c].order = Unblocked
<1> PICK u : u = Unblocked
  OBVIOUS
<1> PICK w : w = NewCall("breaker", u)
  OBVIOUS
<1> PICK x : x = [w EXCEPT !.saved = providerOrder]
  OBVIOUS
<1>1. u \in Seq(Names)
  BY UnblockedIs
<1>2. CallRecord(w) /\ TriedBefore(w, 1) /\ 1 - 1 <= Len(w.order) /\ w.kind = "breaker" /\ w.order = u
  BY <1>1, NewCalls
<1>3. /\ CallRecord(x) /\ x.kind = "breaker" /\ x.order = u /\ x.saved = providerOrder /\ x.log = w.log
  BY <1>2 DEF CallRecord
<1>4. TriedBefore(x, 1)
  BY <1>2, <1>3 DEF TriedBefore
<1>5. Continue(c, x, 1, Pardon, u)
  BY DEF StartBreaker
<1>6. PICK y : GoesOn(c, x, y, Pardon, u)
  BY <1>2, <1>3, <1>4, <1>5, Continues
<1>7. /\ calls[c].pc # "calling" /\ now' = now
      /\ forgiven' = [p \in Instances |-> IF p \in Pardoned THEN forgiven[p] + stats[p].failures ELSE forgiven[p]]
      /\ streak' = [p \in Instances |-> IF p \in Pardoned THEN 0 ELSE streak[p]]
  BY DEF StartBreaker, Starting, Ended
<1>8. /\ Counted(stats, forgiven, streak) /\ stats \in [Instances -> Stats]
      /\ BalancedBut(c, stats, forgiven)
  BY <1>7, CountsAre, BalancedWithout
<1>9. \A p \in Instances : stats[p] \in Stats /\ forgiven[p] \in Int /\ streak[p] \in Nat
  BY <1>8 DEF Counted
<1>10. /\ Pardon \in [Instances -> Stats]
       /\ \A p \in Instances :
            /\ Pardon[p].attempts = stats[p].attempts /\ Pardon[p].successes = stats[p].successes
            /\ Pardon[p].lastFailure = stats[p].lastFailure
            /\ Pardon[p].failures = IF p \in Pardoned THEN 0 ELSE stats[p].failures
  BY <1>9 DEF Pardon, Stats
<1>11. Counted(Pardon, forgiven', streak')
  <2>1. forgiven' \in [Instances -> Int] /\ streak' \in [Instances -> Nat]
    BY <1>7, <1>9 DEF Stats
  <2>2. ASSUME NEW p \in Instances PROVE streak'[p] <= Pardon[p].failures /\ (streak'[p] > 0 => Pardon[p].lastFailure # 0)
    BY <1>7, <1>8, <1>10 DEF Counted
  <2> QED BY <2>1, <2>2 DEF Counted
<1>12. BalancedBut(c, Pardon, forgiven')
  <2> SUFFICES ASSUME NEW p \in Instances
               PROVE  Pardon[p].attempts = Pardon[p].successes + Pardon[p].failures + forgiven'[p]
                                           + Cardinality(InFlight(p) \ {c})
    BY DEF BalancedBut
  <2>1. PICK a : a = Cardinality(InFlight(p) \ {c})
    OBVIOUS
  <2>2. a \in Nat
    <3>1. IsFiniteSet(InFlight(p) \ {c})
      BY ManagerAssumption, FS_Subset DEF InFlight
    <3> QED BY <2>1, <3>1, FS_CardinalityType
  <2>3. stats[p].attempts = stats[p].successes + stats[p].failures + forgiven[p] + a
    BY <1>8, <2>1 DEF BalancedBut
  <2>4. Pardon[p].attempts = Pardon[p].successes + Pardon[p].failures + forgiven'[p] + a
    BY <1>7, <1>9, <1>10, <2>2, <2>3 DEF Stats
  <2> QED BY <2>1, <2>4
<1>13. MaxBreakers <= 1 => \A d \in Calls : ~BreakerRuns(d)
  <2> PICK B : B = {d \in Calls : calls[d].kind = "breaker" /\ calls[d].pc = "calling"}
    OBVIOUS
  <2>1. IsFiniteSet(B) /\ Cardinality(B) < MaxBreakers /\ MaxBreakers \in Nat
    BY ManagerAssumption, FS_Subset DEF StartBreaker
  <2>2. Cardinality(B) \in Nat
    BY <2>1, FS_CardinalityType
  <2>3. MaxBreakers <= 1 => Cardinality(B) = 0
    BY <2>1, <2>2
  <2>4. MaxBreakers <= 1 => B = {}
    BY <2>1, <2>3, FS_EmptySet
  <2> QED BY <2>4 DEF BreakerRuns
<1>14. Ready(c, x, 1, Pardon, u)
  BY <1>1, <1>2, <1>3, <1>4, <1>10, <1>13 DEF Ready, ManagerInv, Lists
<1>15. calls'[c].order = u
  BY <1>3, <1>6, CallChanges DEF ManagerInv, GoesOn
<1> QED BY <1>6, <1>7, <1>11, <1>12, <1>14, <1>15, GoesOnKeeps

(* A provider that failed is what comes next in the log.                   *)
LEMMA TriesOne ==
  ASSUME NEW w, NEW x, NEW p \in Instances, p = Provider(w), CallRecord(w), TriedBefore(w, w.pos),
         w.pos \in 1 .. Len(w.order), x.order = w.order, x.log = Append(w.log, p)
  PROVE  TriedBefore(x, w.pos + 1)
<1>o. PICK o : o = w.order
  OBVIOUS
<1>T. PICK T : T = Range(o)
  OBVIOUS
<1>C. PICK C : C = Configured(o)
  OBVIOUS
<1>m. PICK m \in Nat : m = w.pos - 1
  OBVIOUS
<1>1. o \in Seq(T) /\ m \in 0 .. Len(o) /\ m < Len(o)
  BY <1>o, <1>T, <1>m DEF CallRecord
<1>p. o[m + 1] \in T /\ SubSeq(o, 1, m) \in Seq(T) /\ SubSeq(o, 1, m + 1) = Append(SubSeq(o, 1, m), o[m + 1])
  BY <1>1, Prefix
<1>2. PICK before \in Seq(T), e \in T : e = o[m + 1] /\ before = SubSeq(o, 1, m) /\ SubSeq(o, 1, m + 1) = Append(before, e)
  BY <1>p
<1>3. NormalName[e] = p /\ e \in C
  <2>1. NormalName[e] = p
    BY <1>o, <1>m, <1>2 DEF Provider
  <2> QED BY <1>C, <1>T, <2>1 DEF Configured
<1>4. Only(Append(before, e), C) = IF e \in C THEN Append(Only(before, C), e) ELSE Only(before, C)
  BY OnlyExtends
<1>5. Only(Append(before, e), C) = Append(Only(before, C), e)
  BY <1>3, <1>4
<1>6. Only(before, C) \in Seq(T)
  BY OnlyProperties
<1>7. Normal(Append(Only(before, C), e)) = Append(Normal(Only(before, C)), p)
  BY <1>3, <1>6, NormalExtends
<1>8. w.log = Normal(Only(before, C))
  BY <1>o, <1>C, <1>m, <1>2 DEF TriedBefore
<1>9. x.log = Normal(Only(SubSeq(o, 1, m + 1), C)) /\ x.order = o
  BY <1>o, <1>2, <1>5, <1>7, <1>8
<1>10. (w.pos + 1) - 1 = m + 1
  BY <1>m
<1> QED BY <1>C, <1>9, <1>10, Zenon DEF TriedBefore

LEMMA Fails ==
  ASSUME ManagerInv, NEW c \in Calls, CallFails(c)
  PROVE  ManagerInv'
<1> PICK w : w = calls[c]
  OBVIOUS
<1> PICK p : p = Provider(w)
  OBVIOUS
<1>1. CallRecord(w) /\ w.pc = "calling" /\ w.pos \in 1 .. Len(w.order) /\ p \in Instances /\ TriedBefore(w, w.pos)
  BY DEF CallFails, ManagerInv, CallsTyped, Tries
<1> PICK x : x = [w EXCEPT !.log = Append(@, p)]
  OBVIOUS
<1> PICK o : o = w.order
  OBVIOUS
<1> PICK m \in Nat : m = w.pos - 1
  BY <1>1
<1>2. /\ CallRecord(x) /\ x.kind = w.kind /\ x.order = o /\ x.saved = w.saved /\ x.log = Append(w.log, p)
      /\ x.pos = w.pos
  <2>1. Append(w.log, p) \in Seq(Instances)
    BY <1>1 DEF CallRecord
  <2> QED BY <1>1, <2>1 DEF CallRecord
<1>3. TriedBefore(x, w.pos + 1)
  BY <1>1, <1>2, TriesOne
<1>4. PICK s : s = CountFailure(stats, p)
  OBVIOUS
<1>5. Continue(c, x, w.pos + 1, s, providerOrder) /\ now' = now /\ forgiven' = forgiven
      /\ streak' = [streak EXCEPT ![p] = @ + 1]
  BY <1>4 DEF CallFails
<1>6. w.pos + 1 \in Nat \ {0} /\ (w.pos + 1) - 1 <= Len(x.order)
  BY <1>1, <1>2
<1>7. PICK y : GoesOn(c, x, y, s, providerOrder)
  BY <1>2, <1>3, <1>5, <1>6, Continues
<1>8. Counted(stats, forgiven, streak) /\ stats \in [Instances -> Stats] /\ now \in Nat \ {0}
  BY CountsAre DEF ManagerInv, CountersTyped
<1>9. /\ s \in [Instances -> Stats]
      /\ \A q \in Instances : /\ s[q].attempts = stats[q].attempts /\ s[q].successes = stats[q].successes
                              /\ s[q].failures = stats[q].failures + (IF q = p THEN 1 ELSE 0)
                              /\ s[q].lastFailure = IF q = p THEN now ELSE stats[q].lastFailure
  BY <1>1, <1>4, <1>8, FailuresCount
<1>10. Counted(s, forgiven', streak')
  <2>1. \A q \in Instances : stats[q] \in Stats
    BY <1>8
  <2>2. streak' \in [Instances -> Nat]
    BY <1>1, <1>5, <1>8 DEF Counted
  <2>3. ASSUME NEW q \in Instances PROVE streak'[q] <= s[q].failures /\ (streak'[q] > 0 => s[q].lastFailure # 0)
    <3>1. PICK k, f : k = streak[q] /\ f = stats[q].failures
      OBVIOUS
    <3>2. k \in Nat /\ f \in Nat /\ k <= f /\ (k > 0 => stats[q].lastFailure # 0)
      BY <1>8, <2>1, <3>1 DEF Counted, Stats
    <3>3. streak'[q] = (IF q = p THEN k + 1 ELSE k) /\ s[q].failures = f + (IF q = p THEN 1 ELSE 0)
      BY <1>1, <1>5, <1>8, <1>9, <3>1 DEF Counted
    <3>4. s[q].lastFailure = IF q = p THEN now ELSE stats[q].lastFailure
      BY <1>9
    <3> QED BY <1>8, <3>2, <3>3, <3>4
  <2> QED BY <1>5, <1>8, <2>2, <2>3 DEF Counted
<1>11. BalancedBut(c, s, forgiven')
  <2> SUFFICES ASSUME NEW q \in Instances
               PROVE  s[q].attempts = s[q].successes + s[q].failures + forgiven'[q]
                                      + Cardinality(InFlight(q) \ {c})
    BY DEF BalancedBut
  <2>1. PICK a, b : a = Cardinality(InFlight(q) \ {c}) /\ b = Cardinality(InFlight(q))
    OBVIOUS
  <2>2. a \in Nat /\ b = a + (IF p = q THEN 1 ELSE 0)
    <3>1. CallsTyped /\ calls[c].pc = "calling" /\ Provider(calls[c]) = p
      BY <1>1 DEF ManagerInv
    <3>2. /\ Cardinality(InFlight(q) \ {c}) \in Nat
          /\ Cardinality(InFlight(q)) = Cardinality(InFlight(q) \ {c})
               + (IF calls[c].pc = "calling" /\ Provider(calls[c]) = q THEN 1 ELSE 0)
      <4>1. calls'[c] = y /\ \A d \in Calls : d # c => calls'[d] = calls[d]
        BY <1>7, <3>1, CallChanges DEF GoesOn
      <4> QED BY <3>1, <4>1, InFlightMoves
    <3> QED BY <2>1, <3>1, <3>2
  <2>3. stats[q].attempts = stats[q].successes + stats[q].failures + forgiven[q] + b
    BY <2>1 DEF ManagerInv, StatsAddUp
  <2>4. stats[q] \in Stats /\ forgiven[q] \in Int
    BY <1>8 DEF Counted
  <2>5. s[q].attempts = s[q].successes + s[q].failures + forgiven'[q] + a
    <3>1. PICK was, e : was = stats[q] /\ e = forgiven[q]
      OBVIOUS
    <3>2. was.attempts \in Nat /\ was.successes \in Nat /\ was.failures \in Nat /\ e \in Int
      BY <2>4, <3>1 DEF Stats
    <3>3. was.attempts = was.successes + was.failures + e + (a + (IF p = q THEN 1 ELSE 0))
      BY <2>2, <2>3, <3>1
    <3>4. /\ s[q].attempts = was.attempts /\ s[q].successes = was.successes
          /\ s[q].failures = was.failures + (IF q = p THEN 1 ELSE 0) /\ forgiven'[q] = e
      BY <1>5, <1>9, <3>1
    <3> QED BY <2>2, <3>2, <3>3, <3>4
  <2> QED BY <2>1, <2>5
<1>12. Ready(c, x, w.pos + 1, s, providerOrder)
  <2>1. providerOrder \in Seq(Names) /\ (BreakerRuns(c) => calls[c].saved \in Seq(Names))
    BY DEF ManagerInv, Lists
  <2>2. BreakerRuns(c) <=> x.kind = "breaker"
    BY <1>1, <1>2 DEF BreakerRuns
  <2> QED BY <1>2, <1>3, <1>6, <1>9, <2>1, <2>2 DEF Ready
<1> QED BY <1>5, <1>7, <1>10, <1>11, <1>12, GoesOnKeeps

\* BreakerRefuses, StartAI: the call gets another record that tries nothing.
LEMMA Waits ==
  ASSUME ManagerInv, NEW c \in Calls, NEW y, CallRecord(y), y.pc \in {"refused", "asking"},
         calls[c].pc # "calling", calls' = [calls EXCEPT ![c] = y],
         UNCHANGED <<providerOrder, stats, now, forgiven, streak>>
  PROVE  ManagerInv'
<1>1. CallsTyped' /\ calls'[c] = y /\ \A d \in Calls : d # c => calls'[d] = calls[d]
  BY CallChanges DEF ManagerInv, Tries
<1>2. \A d \in Calls : (BreakerRuns(d)' <=> BreakerRuns(d)) /\ (BreakerRuns(d) => calls'[d].saved = calls[d].saved)
  BY <1>1 DEF BreakerRuns
<1>3. \A p : InFlight(p)' = InFlight(p)
  BY <1>1 DEF InFlight, Provider
<1>4. CountersTyped' /\ StreakCounted' /\ StatsAddUp'
  BY <1>3 DEF ManagerInv, CountersTyped, StreakCounted, StatsAddUp
<1>5. Lists'
  BY <1>2 DEF ManagerInv, Lists
<1>6. MaxBreakers <= 1 => OrderKept'
  BY <1>2 DEF ManagerInv, OrderKept
<1> QED BY <1>1, <1>4, <1>5, <1>6 DEF ManagerInv

LEMMA Succeeds ==
  ASSUME ManagerInv, NEW c \in Calls, CallSucceeds(c)
  PROVE  ManagerInv'
<1>w. PICK w : w = calls[c]
  OBVIOUS
<1>p. PICK p : p = Provider(w)
  OBVIOUS
<1>1. CallRecord(w) /\ w.pc = "calling" /\ p \in Instances
  BY <1>w, <1>p DEF CallSucceeds, ManagerInv, CallsTyped, Tries
<1>y. PICK y : y = [w EXCEPT !.pc = "succeeded"]
  OBVIOUS
<1>2. CallRecord(y) /\ Tries(y) /\ y.pc = "succeeded" /\ calls' = [calls EXCEPT ![c] = y]
  BY <1>w, <1>1, <1>y DEF CallRecord, Tries, Places, Ended, CallSucceeds
<1>3. CallsTyped' /\ calls'[c] = y /\ \A d \in Calls : d # c => calls'[d] = calls[d]
  BY <1>2, CallChanges DEF ManagerInv
<1>4. /\ stats' = [stats EXCEPT ![p].successes = @ + 1] /\ streak' = [streak EXCEPT ![p] = 0]
      /\ now' = now /\ forgiven' = forgiven
      /\ providerOrder' = IF w.kind = "breaker" THEN w.saved ELSE providerOrder
  BY <1>w, <1>p DEF CallSucceeds, CountSuccess
<1>5. /\ stats \in [Instances -> Stats] /\ Counted(stats, forgiven, streak)
  BY CountsAre
<1>6. /\ stats' \in [Instances -> Stats]
      /\ \A q \in Instances : /\ stats'[q].attempts = stats[q].attempts
                              /\ stats'[q].successes = stats[q].successes + (IF q = p THEN 1 ELSE 0)
                              /\ stats'[q].failures = stats[q].failures
                              /\ stats'[q].lastFailure = stats[q].lastFailure
  BY <1>1, <1>4, <1>5 DEF Stats
<1>7. CountersTyped' /\ StreakCounted'
  <2>1. streak' \in [Instances -> Nat] /\ \A q \in Instances : streak'[q] = IF q = p THEN 0 ELSE streak[q]
    BY <1>1, <1>4, <1>5 DEF Counted
  <2>2. \A q \in Instances : stats[q] \in Stats
    BY <1>5
  <2>3. \A q \in Instances : streak'[q] <= stats'[q].failures /\ (streak'[q] > 0 => stats'[q].lastFailure # 0)
    BY <1>5, <1>6, <2>1, <2>2 DEF Counted, Stats
  <2> QED BY <1>4, <1>6, <2>1, <2>3 DEF CountersTyped, StreakCounted, ManagerInv
<1>8. StatsAddUp'
  <2> SUFFICES ASSUME NEW q \in Instances
               PROVE  stats'[q].attempts = stats'[q].successes + stats'[q].failures + forgiven'[q]
                                           + Cardinality(InFlight(q)')
    BY DEF StatsAddUp
  <2>1. PICK a, b, d : /\ a = Cardinality(InFlight(q) \ {c}) /\ b = Cardinality(InFlight(q))
                       /\ d = Cardinality(InFlight(q)')
    OBVIOUS
  <2>2. a \in Nat /\ b = a + (IF p = q THEN 1 ELSE 0) /\ d = a
    BY <1>w, <1>p, <1>1, <1>2, <1>3, <2>1, InFlightMoves DEF ManagerInv
  <2>3. stats[q].attempts = stats[q].successes + stats[q].failures + forgiven[q] + b
    BY <2>1 DEF ManagerInv, StatsAddUp
  <2>4. stats[q] \in Stats /\ forgiven[q] \in Int
    BY <1>5 DEF Counted
  <2>5. PICK was, e, is : was = stats[q] /\ e = forgiven[q] /\ is = stats'[q]
    OBVIOUS
  <2>6. is.attempts = is.successes + is.failures + e + d
    <3>2. was.attempts \in Nat /\ was.successes \in Nat /\ was.failures \in Nat /\ e \in Int
      BY <2>4, <2>5 DEF Stats
    <3>3. was.attempts = was.successes + was.failures + e + (a + (IF p = q THEN 1 ELSE 0))
      BY <2>2, <2>3, <2>5
    <3>4. /\ is.attempts = was.attempts /\ is.failures = was.failures
          /\ is.successes = was.successes + (IF q = p THEN 1 ELSE 0)
      BY <1>6, <2>5
    <3> QED BY <2>2, <3>2, <3>3, <3>4
  <2> QED BY <1>4, <2>1, <2>5, <2>6
<1>9. \A d \in Calls : BreakerRuns(d)' <=> BreakerRuns(d) /\ d # c
  BY <1>2, <1>3 DEF BreakerRuns
<1>10. BreakerRuns(c) <=> w.kind = "breaker"
  BY <1>w, <1>1 DEF BreakerRuns
<1>11. Lists'
  BY <1>w, <1>3, <1>4, <1>9, <1>10 DEF ManagerInv, Lists
<1>12. MaxBreakers <= 1 => OrderKept'
  BY <1>w, <1>3, <1>4, <1>9, <1>10 DEF ManagerInv, OrderKept
<1> QED BY <1>3, <1>7, <1>8, <1>11, <1>12 DEF ManagerInv

LEMMA Resets ==
  ASSUME ManagerInv, NEW S, ResetProviderStats(S)
  PROVE  ManagerInv'
<1>1. \A p : InFlight(p)' = InFlight(p)
  BY DEF ResetProviderStats, InFlight, Provider
<1>2. \A p : Cardinality(InFlight(p)) \in Nat
  BY ManagerAssumption, FS_Subset, FS_CardinalityType DEF InFlight
<1>3. NoStats \in Stats /\ NoStats.attempts = 0 /\ NoStats.successes = 0 /\ NoStats.failures = 0
  BY DEF NoStats, Stats
<1>4. /\ stats' = [p \in Instances |-> IF p \in S THEN NoStats ELSE stats[p]]
      /\ forgiven' = [p \in Instances |-> IF p \in S THEN 0 - Cardinality(InFlight(p)) ELSE forgiven[p]]
      /\ streak' = [p \in Instances |-> IF p \in S THEN 0 ELSE streak[p]]
      /\ UNCHANGED <<providerOrder, now, calls>>
  BY DEF ResetProviderStats
<1>5. /\ stats \in [Instances -> Stats] /\ Counted(stats, forgiven, streak)
  BY CountsAre
<1>6. CountersTyped'
  BY <1>2, <1>3, <1>4, <1>5 DEF CountersTyped, Counted, ManagerInv
<1>7. StreakCounted'
  <2>1. ASSUME NEW p \in Instances
        PROVE  streak'[p] <= stats'[p].failures /\ (streak'[p] > 0 => stats'[p].lastFailure # 0)
    BY <1>3, <1>4, <1>5 DEF Counted
  <2> QED BY <2>1 DEF StreakCounted
<1>8. StatsAddUp'
  <2> SUFFICES ASSUME NEW p \in Instances
               PROVE  stats'[p].attempts = stats'[p].successes + stats'[p].failures + forgiven'[p]
                                           + Cardinality(InFlight(p)')
    BY DEF StatsAddUp
  <2>1. PICK a : a = Cardinality(InFlight(p)) /\ a = Cardinality(InFlight(p)') /\ a \in Nat
    BY <1>1, <1>2
  <2>2. CASE p \in S
    <3>1. stats'[p] = NoStats /\ forgiven'[p] = 0 - a
      BY <1>4, <2>1, <2>2
    <3> QED BY <1>3, <2>1, <3>1
  <2>3. CASE p \notin S
    <3>1. stats'[p] = stats[p] /\ forgiven'[p] = forgiven[p]
      BY <1>4, <2>3
    <3> QED BY <2>1, <3>1 DEF ManagerInv, StatsAddUp
  <2> QED BY <2>2, <2>3
<1>9. CallsTyped' /\ Lists' /\ (MaxBreakers <= 1 => OrderKept')
  BY <1>4 DEF ManagerInv, CallsTyped, Lists, OrderKept, BreakerRuns
<1> QED BY <1>6, <1>7, <1>8, <1>9 DEF ManagerInv

LEMMA Ticks ==
  ASSUME ManagerInv, Tick \/ UNCHANGED managerVars
  PROVE  ManagerInv'
<1>1. UNCHANGED <<providerOrder, stats, calls, forgiven, streak>> /\ now' \in Nat \ {0}
  BY DEF Tick, managerVars, ManagerInv, CountersTyped
<1>2. \A p : InFlight(p)' = InFlight(p)
  BY <1>1 DEF InFlight, Provider
<1>3. CallsTyped' /\ CountersTyped' /\ Lists' /\ StreakCounted'
  BY <1>1 DEF ManagerInv, CallsTyped, CountersTyped, Lists, StreakCounted, BreakerRuns
<1>4. StatsAddUp' /\ (MaxBreakers <= 1 => OrderKept')
  BY <1>1, <1>2 DEF ManagerInv, StatsAddUp, OrderKept, BreakerRuns
<1> QED BY <1>3, <1>4 DEF ManagerInv

LEMMA ManagerStarts == ManagerInit => ManagerInv
<1> SUFFICES ASSUME ManagerInit PROVE ManagerInv
  OBVIOUS
<1>1. CallRecord(Idle) /\ Tries(Idle) /\ Idle.pc = "idle"
  BY DEF Idle, CallRecord, Tries, Places, Ended
<1>2. CallsTyped
  BY <1>1 DEF ManagerInit, CallsTyped
<1>3. \A p : InFlight(p) = {}
  BY <1>1 DEF ManagerInit, InFlight
<1>4. \A p : Cardinality(InFlight(p)) = 0
  BY <1>3, FS_EmptySet
<1>5. NoStats \in Stats /\ NoStats.attempts = 0 /\ NoStats.successes = 0 /\ NoStats.failures = 0
  BY DEF NoStats, Stats
<1>6. CountersTyped /\ StreakCounted /\ StatsAddUp
  BY <1>4, <1>5 DEF ManagerInit, CountersTyped, StreakCounted, StatsAddUp
<1>7. \A c \in Calls : ~BreakerRuns(c)
  BY <1>1 DEF ManagerInit, BreakerRuns
<1>8. Lists /\ OrderKept
  BY <1>7, ManagerAssumption DEF ManagerInit, Lists, OrderKept
<1> QED BY <1>2, <1>6, <1>8 DEF ManagerInv

LEMMA ManagerSteps == ManagerInv /\ [ManagerNext]_managerVars => ManagerInv'
<1> SUFFICES ASSUME ManagerInv, [ManagerNext]_managerVars PROVE ManagerInv'
  OBVIOUS
<1>4. ASSUME NEW c \in Calls, BreakerRefuses(c) \/ StartAI(c) PROVE ManagerInv'
  <2>1. PICK w, kind, place : w = NewCall(kind, <<>>) /\ place \in {"refused", "asking"}
                           /\ calls' = [calls EXCEPT ![c] = [w EXCEPT !.pc = place]]
    BY <1>4 DEF BreakerRefuses, StartAI
  <2>2. CallRecord(w)
    <3>1. <<>> \in Seq(Int)
      OBVIOUS
    <3> QED BY <2>1, <3>1, NewCalls
  <2>3. PICK y : y = [w EXCEPT !.pc = place]
    OBVIOUS
  <2>4. CallRecord(y) /\ y.pc = place
    BY <2>1, <2>2, <2>3 DEF CallRecord, Places, Ended
  <2>5. calls[c].pc # "calling" /\ UNCHANGED <<providerOrder, stats, now, forgiven, streak>>
    BY <1>4 DEF BreakerRefuses, StartAI, Starting, Ended
  <2> QED BY <2>1, <2>3, <2>4, <2>5, Waits
<1>5. CASE \E S \in {{p} : p \in Instances} \union {Instances} : ResetProviderStats(S)
  BY <1>5, Resets
<1>6. CASE Tick \/ UNCHANGED managerVars
  BY <1>6, Ticks
<1> QED BY <1>4, <1>5, <1>6, PlainKinds, StartsBreaker, Fails, Succeeds DEF ManagerNext, CallStep

LEMMA ManagerKept == ManagerSpec => []ManagerInv
BY ManagerStarts, ManagerSteps, PTL DEF ManagerSpec

-----------------------------------------------------------------------------
(* However many calls run and interleave: a call that failed has tried its *)
(* list's initialized providers, each once and in order; each attempt in   *)
(* the statistics is a success, a failure or running.  The configured      *)
(* order is back when no executeWithCircuitBreaker runs, if there is never *)
(* more than one at a time.                                                *)
THEOREM CallsAccounted == MaxBreakers <= 1 /\ ManagerSpec => []CallsAreAccounted
<1>1. ManagerInv => FailedTriedAll /\ StatsAddUp
  BY DEF ManagerInv, CallsTyped, Tries, FailedTriedAll
<1>2. MaxBreakers <= 1 /\ ManagerInv => OrderRestored
  BY DEF ManagerInv, OrderKept, OrderRestored, BreakerRuns
<1>3. MaxBreakers <= 1 /\ ManagerInv => CallsAreAccounted
  BY <1>1, <1>2 DEF CallsAreAccounted
<1>4. CASE MaxBreakers <= 1
  <2>1. ManagerInv => CallsAreAccounted
    BY <1>3, <1>4
  <2> QED BY <2>1, ManagerKept, PTL
<1> QED BY <1>4

(* The first two hold with any number of breaker calls at a time.          *)
THEOREM AttemptsAddUp == ManagerSpec => [](FailedTriedAll /\ StatsAddUp)
<1>1. ManagerInv => FailedTriedAll /\ StatsAddUp
  BY DEF ManagerInv, CallsTyped, Tries, FailedTriedAll
<1> QED BY <1>1, ManagerKept, PTL

(* The breaker: a provider that failed more often in a row than it allows, *)
(* the last time lately, is not given to a new breaker call.               *)
THEOREM BreakerHolds == ManagerSpec => BreakerStaysOpen
<1> DEFINE A == \A c \in Calls :
       (calls'[c].kind = "breaker" /\ calls'[c].pc = "calling" /\ calls[c].pc \in Ended)
         => \A p \in ToSet(calls'[c].order) : ~ (streak[p] > FailureThreshold /\ Recent(p))
<1>1. ManagerInv /\ [ManagerNext]_managerVars => [A]_managerVars
  <2> SUFFICES ASSUME ManagerInv, ManagerNext, NEW c \in Calls,
                      calls'[c].kind = "breaker", calls'[c].pc = "calling", calls[c].pc \in Ended,
                      NEW p \in ToSet(calls'[c].order), streak[p] > FailureThreshold, Recent(p)
               PROVE  FALSE
    OBVIOUS
  <2>1. ASSUME NEW d \in Calls, calls' = [calls EXCEPT ![d] = calls'[d]] PROVE c = d
    BY <2>1 DEF ManagerInv, CallsTyped, Ended
  <2>2. ASSUME NEW d \in Calls, \/ StartFallback(d) \/ StartBreaker(d) \/ BreakerRefuses(d)
                                \/ StartBest(d) \/ StartAI(d) \/ CallStep(d)
        PROVE  c = d
    <3>1. PICK y : calls' = [calls EXCEPT ![d] = y]
      BY <2>2, Zenon DEF StartFallback, StartBreaker, BreakerRefuses, StartBest, StartAI, CallStep, AIAnswers,
                  CallSucceeds, CallFails, Continue
    <3>2. calls'[d] = y
      BY <3>1 DEF ManagerInv, CallsTyped
    <3> QED BY <2>1, <3>1, <3>2
  <2>3. StartBreaker(c)
    <3>1. calls[c].pc # "calling"
      BY DEF Ended
    <3>2. ~((\E S \in {{q} : q \in Instances} \union {Instances} : ResetProviderStats(S)) \/ Tick)
      BY <3>1 DEF ResetProviderStats, Tick
    <3>3. ~StartFallback(c) /\ ~StartBest(c) /\ ~AIAnswers(c)
      BY <3>1, PlainKinds
    <3>4. ~BreakerRefuses(c) /\ ~StartAI(c)
      <4> SUFFICES ASSUME BreakerRefuses(c) \/ StartAI(c) PROVE FALSE
        OBVIOUS
      <4>1. PICK w, kind, place : w = NewCall(kind, <<>>) /\ place \in {"refused", "asking"}
                               /\ calls' = [calls EXCEPT ![c] = [w EXCEPT !.pc = place]]
        BY DEF BreakerRefuses, StartAI
      <4>2. CallRecord(w)
        <5>1. <<>> \in Seq(Int)
          OBVIOUS
        <5> QED BY <4>1, <5>1, NewCalls
      <4>3. [w EXCEPT !.pc = place].pc = place
        BY <4>2 DEF CallRecord
      <4> QED BY <4>1, <4>3 DEF ManagerInv, CallsTyped
    <3>5. ~CallSucceeds(c) /\ ~CallFails(c)
      BY <3>1 DEF CallSucceeds, CallFails
    <3> QED BY <2>2, <3>2, <3>3, <3>4, <3>5 DEF ManagerNext, CallStep
  <2>4. p \in Range(Unblocked)
    BY <2>3, StartsBreaker DEF ToSet, Range
  <2>5. p \in Instances /\ ~Open(p)
    BY <2>4, UnblockedIs
  <2>6. Open(p)
    <3>1. PICK k, f : k = streak[p] /\ f = stats[p].failures
      OBVIOUS
    <3>2. k \in Nat /\ f \in Nat /\ k <= f /\ (k > 0 => stats[p].lastFailure # 0) /\ k > FailureThreshold
      BY <2>5, <3>1 DEF ManagerInv, CountersTyped, StreakCounted, Stats
    <3>3. FailureThreshold \in Nat
      BY ManagerAssumption
    <3>4. stats[p].lastFailure # 0
      BY <3>2, <3>3
    <3>5. ConsecutiveFailures(p) \in {f, f - 1}
      BY <3>1, <3>2 DEF ConsecutiveFailures
    <3>6. ConsecutiveFailures(p) >= FailureThreshold
      BY <3>2, <3>3, <3>5
    <3> QED BY <3>4, <3>6 DEF Open, Tripped
  <2> QED BY <2>5, <2>6
<1> QED BY <1>1, ManagerKept, PTL DEF ManagerSpec, BreakerStaysOpen
=============================================================================
