--------------------------- MODULE ExecutionProofs ---------------------------
(***************************************************************************)
(* Proofs about Execution, for any runners, rollouts and strategies: no    *)
(* attempt that a runner claimed is forgotten, and execute leaves no       *)
(* process behind, whatever the bundles ignore, unless its shutdown is     *)
(* interrupted; for any workers, that the heartbeats of a runner are its   *)
(* own, and that a turn of training over the task server collects its own  *)
(* results.  Of the batch of a training step: where a turn's reward goes.  *)
(***************************************************************************)
EXTENDS Execution, WorkerLife, LegacyServer, TrainBatch, FiniteSetTheorems, SequenceTheorems, TLAPS

Places == {"loop", "claimed", "resources", "agent", "report", "ending", "over"}
Outcomes == {"ok", "cancelled", "crashed", "killed"}
Phases == {"bundle", "join", "finally", "cooperate", "sigint", "terminate", "kill",
           "check", "returned", "raised", "left"}
Truths == {"none", "finished", "raised", "skipped", "given up", "cancelled", "crashed", "killed",
           "unanswered"}

TypeOK ==
  /\ stop \in BOOLEAN /\ served \in BOOLEAN
  /\ waiting \in SUBSET Rollouts
  /\ attempt \in [Rollouts -> {"none", "preparing", "succeeded", "failed"}]
  /\ pc \in [Runners -> Places]
  /\ job \in [Runners -> Rollouts \cup {NoRollout}]
  /\ truth \in [Rollouts -> Truths]
  /\ outcome \in [Bundles -> Outcomes]
  /\ alg \in {"off", "running", "over"}
  /\ main \in Phases

\* A runner works on a rollout.
JobsAreRollouts == \A w \in Runners : AtWork(w) => job[w] \in Rollouts

\* Processes are waited for before execute looks at their exit codes, and are
\* not left to the finally block of the threads.
Waited ==
  ~Threads => /\ main # "finally"
              /\ main \in {"check", "returned", "raised"} => Alive(Children) = {}

IInv == TypeOK /\ JobsAreRollouts /\ NoAttemptForgotten /\ Waited

-----------------------------------------------------------------------------
(* Bundles that are over stay over. *)

RunnersStayOver == \A w \in Runners : pc[w] = "over" => pc'[w] = "over"
StayOver == RunnersStayOver /\ (alg # "running" => alg' # "running") /\ UNCHANGED strategy

LEMMA NoneRevives ==
  ASSUME StayOver
  PROVE  /\ Threads' = Threads /\ Children' = Children
         /\ Alive(Children)' \subseteq Alive(Children)
<1>1. Threads' = Threads /\ Children' = Children
  BY DEF StayOver, Threads, Children, Active, MainBundle
<1>2. \A b \in Children : b \in Bundles
  BY DEF Children, Active, MainBundle, Bundles
<1>3. \A b \in Children : Over(b) => Over(b)'
  BY <1>2 DEF StayOver, RunnersStayOver, Over, Bundles
<1> QED BY <1>1, <1>3 DEF Alive

\* A step that leaves execute where it is, or takes it elsewhere than to the
\* end, waits for nobody.
LEMMA WaitedOn ==
  ASSUME Waited, StayOver,
         \/ main' = main
         \/ main' \in {"join", "cooperate", "sigint", "terminate", "kill", "left"}
         \/ Threads
  PROVE  Waited'
BY NoneRevives DEF Waited

-----------------------------------------------------------------------------
(* The runners. *)

\* What a step of a runner has to show.
Remembered == TypeOK' /\ JobsAreRollouts' /\ NoAttemptForgotten' /\ RunnersStayOver

\* A runner lets go of its rollout when the attempt is reported, or for a
\* reason that the history tells.
LetGo == {"skipped", "given up", "cancelled", "crashed", "killed", "unanswered"}

LEMMA NotForgotten ==
  ASSUME IInv, NEW w \in Runners, job' = job,
         \A v \in Runners : v # w => pc'[v] = pc[v],
         \A r \in Rollouts : attempt'[r] = "preparing" => attempt[r] = "preparing",
         AtWork(w) => AtWork(w)' \/ attempt'[job[w]] # "preparing" \/ truth'[job[w]] \in LetGo,
         \A r \in Rollouts : truth'[r] = truth[r] \/ truth'[r] \in LetGo \/ (AtWork(w)' /\ r = job[w])
  PROVE  NoAttemptForgotten'
<1> SUFFICES ASSUME NEW r \in Rollouts, attempt'[r] = "preparing", truth'[r] \notin LetGo
             PROVE  \E v \in Runners : job[v] = r /\ AtWork(v)'
  BY DEF NoAttemptForgotten, LetGo
<1>1. CASE truth'[r] # truth[r]
  BY <1>1
<1>2. CASE truth'[r] = truth[r]
  <2>1. PICK v \in Runners : job[v] = r /\ AtWork(v)
    BY <1>2 DEF IInv, NoAttemptForgotten, LetGo
  <2>2. CASE v = w
    BY <2>1, <2>2
  <2>3. CASE v # w
    BY <2>1, <2>3 DEF AtWork
  <2> QED BY <2>2, <2>3
<1> QED BY <1>1, <1>2

LEMMA DequeueKeeps ==
  ASSUME IInv, NEW w \in Runners, NEW r \in Rollouts, Dequeue(w, r), UNCHANGED evars
  PROVE  Remembered
<1>1. TypeOK' /\ RunnersStayOver
  BY DEF IInv, TypeOK, Dequeue, StartsAttempt, Goto, Places, RunnersStayOver, evars, svars
<1>2. JobsAreRollouts'
  BY DEF IInv, TypeOK, JobsAreRollouts, AtWork, Dequeue, Goto
<1>3. NoAttemptForgotten'
  BY DEF IInv, TypeOK, NoAttemptForgotten, AtWork, Dequeue, StartsAttempt, Goto
<1> QED BY <1>1, <1>2, <1>3 DEF Remembered

\* The store has started an attempt that no runner hears of.
LEMMA ClaimUnheardKeeps ==
  ASSUME IInv, NEW r \in Rollouts, ClaimUnheard(r), UNCHANGED evars
  PROVE  Remembered
<1>1. TypeOK' /\ RunnersStayOver
  BY DEF IInv, TypeOK, ClaimUnheard, StartsAttempt, Truths, RunnersStayOver, evars, svars
<1>2. JobsAreRollouts'
  BY DEF IInv, TypeOK, JobsAreRollouts, AtWork, ClaimUnheard
<1>3. NoAttemptForgotten'
  BY DEF IInv, TypeOK, NoAttemptForgotten, AtWork, ClaimUnheard, StartsAttempt
<1> QED BY <1>1, <1>2, <1>3 DEF Remembered

LEMMA LeaveLoopKeeps ==
  ASSUME IInv, NEW w \in Runners, LeaveLoop(w), UNCHANGED evars
  PROVE  Remembered
<1>1. TypeOK' /\ RunnersStayOver
  BY DEF IInv, TypeOK, LeaveLoop, Ending, Goto, Places, Outcomes, Bundles, RunnersStayOver, evars, svars
<1>2. JobsAreRollouts'
  BY DEF IInv, TypeOK, JobsAreRollouts, AtWork, LeaveLoop, Ending, Goto
<1>3. NoAttemptForgotten'
  BY DEF IInv, TypeOK, NoAttemptForgotten, AtWork, LeaveLoop, Ending, Goto
<1> QED BY <1>1, <1>2, <1>3 DEF Remembered

LEMMA LoopFailsKeeps ==
  ASSUME IInv, NEW w \in Runners, LoopFails(w), UNCHANGED evars
  PROVE  Remembered
<1>1. TypeOK' /\ RunnersStayOver
  BY DEF IInv, TypeOK, LoopFails, Ending, Goto, Places, Outcomes, Truths, Bundles, RunnersStayOver, evars, svars
<1>2. JobsAreRollouts'
  BY DEF IInv, TypeOK, JobsAreRollouts, AtWork, LoopFails, Ending, Goto
<1>3. NoAttemptForgotten'
  BY DEF IInv, TypeOK, JobsAreRollouts, NoAttemptForgotten, AtWork, LoopFails, Ending, Goto
<1> QED BY <1>1, <1>2, <1>3 DEF Remembered

\* The answer to the claim, the resources, the agent: the rollout stays with the
\* runner, or is skipped, or the answer is lost.
LEMMA AtWorkKeeps ==
  ASSUME IInv, NEW w \in Runners,
         \/ Answered(w) \/ AnswerLost(w) \/ HasResources(w) \/ NoResources(w)
         \/ AgentReturns(w) \/ AgentRaises(w) \/ CancelAgent(w),
         UNCHANGED evars
  PROVE  Remembered
<1> USE DEF Answered, AnswerLost, HasResources, NoResources, AgentReturns, AgentRaises, CancelAgent, Becomes, Goto
<1>1. TypeOK' /\ RunnersStayOver
  BY DEF IInv, TypeOK, Places, Truths, RunnersStayOver, evars, svars
<1>2. JobsAreRollouts'
  BY DEF IInv, TypeOK, JobsAreRollouts, AtWork
<1>3. NoAttemptForgotten'
  <2>1. /\ job' = job /\ attempt' = attempt /\ w \in Runners
        /\ \A v \in Runners : v # w => pc'[v] = pc[v]
        /\ AtWork(w) /\ job[w] \in Rollouts
    BY DEF IInv, TypeOK, JobsAreRollouts, AtWork
  <2>2. AtWork(w)' \/ truth'[job[w]] \in LetGo
    BY <2>1 DEF IInv, TypeOK, AtWork, LetGo
  <2>3. \A r \in Rollouts : r # job[w] => truth'[r] = truth[r]
    BY DEF IInv, TypeOK
  <2>4. truth'[job[w]] = truth[job[w]] \/ truth'[job[w]] \in LetGo \/ AtWork(w)'
    BY <2>2
  <2> QED BY <2>1, <2>2, <2>3, <2>4, NotForgotten
<1> QED BY <1>1, <1>2, <1>3 DEF Remembered

LEMMA ReportKeeps ==
  ASSUME IInv, NEW w \in Runners, Report(w) \/ GiveUp(w), UNCHANGED evars
  PROVE  Remembered
<1> USE DEF Report, GiveUp, MaybeReported, AfterReport, Ending, Goto, Verdict
<1>1. TypeOK' /\ RunnersStayOver
  <2>1. /\ UNCHANGED <<stop, served, waiting, job, alg, main>> /\ pc[w] = "report"
        /\ attempt' = attempt \/ attempt' = [attempt EXCEPT ![job[w]] = Verdict(w)]
        /\ truth' = truth \/ truth' = [truth EXCEPT ![job[w]] = "given up"]
        /\ pc' = [pc EXCEPT ![w] = "ending"] \/ pc' = [pc EXCEPT ![w] = "loop"]
        /\ outcome' = outcome \/ outcome' = [outcome EXCEPT ![w] = "cancelled"]
    BY DEF evars
  <2>2. attempt' \in [Rollouts -> {"none", "preparing", "succeeded", "failed"}]
    BY <2>1 DEF IInv, TypeOK
  <2>3. truth' \in [Rollouts -> Truths] /\ outcome' \in [Bundles -> Outcomes]
    BY <2>1 DEF IInv, TypeOK, Truths, Outcomes
  <2>4. pc' \in [Runners -> Places] /\ RunnersStayOver
    BY <2>1 DEF IInv, TypeOK, Places, RunnersStayOver
  <2> QED BY <2>1, <2>2, <2>3, <2>4 DEF IInv, TypeOK
<1>2. JobsAreRollouts'
  BY DEF IInv, TypeOK, JobsAreRollouts, AtWork
<1>3. NoAttemptForgotten'
  <2>1. /\ job' = job /\ w \in Runners /\ \A v \in Runners : v # w => pc'[v] = pc[v]
        /\ AtWork(w) /\ job[w] \in Rollouts
    BY DEF IInv, TypeOK, JobsAreRollouts, AtWork
  <2>2. attempt'[job[w]] # "preparing" \/ truth'[job[w]] \in LetGo
    BY <2>1 DEF IInv, TypeOK, LetGo
  <2>3. \A r \in Rollouts : attempt'[r] = "preparing" => attempt[r] = "preparing"
    BY <2>1 DEF IInv, TypeOK
  <2>4. \A r \in Rollouts : truth'[r] = truth[r] \/ truth'[r] \in LetGo
    BY <2>1 DEF IInv, TypeOK, LetGo
  <2> QED BY <2>1, <2>2, <2>3, <2>4, NotForgotten
<1> QED BY <1>1, <1>2, <1>3 DEF Remembered

LEMMA CancelElsewhereKeeps ==
  ASSUME IInv, NEW w \in Runners, CancelElsewhere(w), UNCHANGED evars
  PROVE  Remembered
<1>a. /\ attempt' \in [Rollouts -> {"none", "preparing", "succeeded", "failed"}]
      /\ \A r \in Rollouts : attempt'[r] = "preparing" => attempt[r] = "preparing"
  BY DEF IInv, TypeOK, CancelElsewhere, MaybeReported, Verdict
<1>1. TypeOK' /\ RunnersStayOver
  BY <1>a DEF IInv, TypeOK, CancelElsewhere, Ending, Goto, Places, Outcomes, Truths, Bundles, RunnersStayOver, evars, svars
<1>2. JobsAreRollouts'
  BY DEF IInv, TypeOK, JobsAreRollouts, AtWork, CancelElsewhere, Ending, Goto
<1>3. NoAttemptForgotten'
  BY <1>a DEF IInv, TypeOK, JobsAreRollouts, NoAttemptForgotten, AtWork, CancelElsewhere, Ending, Goto
<1> QED BY <1>1, <1>2, <1>3 DEF Remembered

LEMMA RunnerEndsKeeps ==
  ASSUME IInv, NEW w \in Runners, RunnerEnds(w)
  PROVE  Remembered
<1>1. TypeOK' /\ RunnersStayOver
  BY DEF IInv, TypeOK, RunnerEnds, StopAfter, Places, RunnersStayOver, svars
<1>2. JobsAreRollouts'
  BY DEF IInv, TypeOK, JobsAreRollouts, AtWork, RunnerEnds
<1>3. NoAttemptForgotten'
  BY DEF IInv, TypeOK, NoAttemptForgotten, AtWork, RunnerEnds
<1> QED BY <1>1, <1>2, <1>3 DEF Remembered

-----------------------------------------------------------------------------
(* What ends a process from outside. *)

LEMMA KilledKeeps ==
  ASSUME IInv, NEW victims \in SUBSET Bundles, Killed(victims),
         UNCHANGED <<svars>>, stop' \in BOOLEAN, main' \in Phases
  PROVE  Remembered /\ StayOver
<1>1. /\ attempt' = attempt /\ job' = job /\ waiting' = waiting
      /\ pc' = [w \in Runners |-> IF w \in victims THEN "over" ELSE pc[w]]
      /\ truth' = [r \in Rollouts |->
                     IF \E w \in victims \cap Runners : job[w] = r /\ AtWork(w) THEN "killed" ELSE truth[r]]
      /\ outcome' = [b \in Bundles |-> IF b \in victims THEN "killed" ELSE outcome[b]]
      /\ alg' = IF Algorithm \in victims THEN "over" ELSE alg
      /\ served' \in BOOLEAN
  BY DEF Killed, AtWork
<1>2. TypeOK'
  BY <1>1 DEF IInv, TypeOK, Places, Outcomes, Truths
<1>3. \A w \in Runners : AtWork(w)' => AtWork(w) /\ w \notin victims
  BY <1>1 DEF AtWork
<1>4. \A w \in Runners : AtWork(w) => AtWork(w)' \/ w \in victims
  BY <1>1 DEF AtWork
<1>5. JobsAreRollouts'
  BY <1>1, <1>3 DEF IInv, JobsAreRollouts
<1>6. NoAttemptForgotten'
  BY <1>1, <1>4 DEF IInv, NoAttemptForgotten
<1>7. RunnersStayOver /\ StayOver
  BY <1>1 DEF RunnersStayOver, StayOver, svars
<1> QED BY <1>2, <1>5, <1>6, <1>7 DEF Remembered

-----------------------------------------------------------------------------
(* The steps. *)

LEMMA KeptWaits ==
  ASSUME IInv, Remembered, alg # "running" => alg' # "running", UNCHANGED strategy,
         \/ main' = main
         \/ main' \in {"join", "cooperate", "sigint", "terminate", "kill", "left"}
         \/ Threads
  PROVE  IInv'
BY WaitedOn DEF IInv, Remembered, StayOver

LEMMA StepsKeep ==
  ASSUME IInv, NEW w \in Runners, Steps(w), UNCHANGED evars
  PROVE  IInv'
<1>1. Remembered
  BY DequeueKeeps, LeaveLoopKeeps, AtWorkKeeps, ReportKeeps, CancelElsewhereKeeps DEF Steps
<1> QED BY <1>1, KeptWaits DEF evars, svars

LEMMA AnswersLostKeep ==
  ASSUME IInv, AnswersLost
  PROVE  IInv'
<1>1. Remembered
  BY AtWorkKeeps, ClaimUnheardKeeps DEF AnswersLost
<1> QED BY <1>1, KeptWaits DEF AnswersLost, evars, svars

LEMMA OutsidersKeep ==
  ASSUME IInv, UNCHANGED <<waiting, attempt, pc, job, truth, svars>>,
         TypeOK', alg # "running" => alg' # "running",
         \/ main' = main
         \/ main' \in {"join", "cooperate", "sigint", "terminate", "kill", "left"}
         \/ Threads
  PROVE  IInv'
<1>1. Remembered
  BY DEF IInv, Remembered, JobsAreRollouts, NoAttemptForgotten, AtWork, RunnersStayOver
<1> QED BY <1>1, KeptWaits DEF svars

\* The algorithm, the watchers and the interrupts leave the runners' work alone.
LEMMA AlgorithmKeeps ==
  ASSUME IInv, AlgorithmReturns \/ AlgorithmFails \/ AlgorithmCancelled
  PROVE  IInv'
<1>1. TypeOK'
  <2>1. served' \in BOOLEAN /\ stop' \in BOOLEAN
    BY DEF IInv, TypeOK, AlgorithmReturns, AlgorithmFails, AlgorithmCancelled, Threads, StopAfter
  <2> QED BY <2>1 DEF IInv, TypeOK, AlgorithmReturns, AlgorithmFails, AlgorithmCancelled, Outcomes, rvars
<1>2. UNCHANGED <<waiting, attempt, pc, job, truth, svars, main>> /\ alg' = "over"
  BY DEF AlgorithmReturns, AlgorithmFails, AlgorithmCancelled, rvars
<1> QED BY <1>1, <1>2, OutsidersKeep

LEMMA WatchKeeps ==
  ASSUME IInv, NEW b \in Bundles, Watch(b)
  PROVE  IInv'
<1>1. TypeOK' /\ UNCHANGED <<waiting, attempt, pc, job, truth, svars, main, alg>>
  BY DEF IInv, TypeOK, Watch, rvars, evars
<1> QED BY <1>1, OutsidersKeep

LEMMA MainKeeps ==
  ASSUME IInv, MainBundleOver \/ Joined
  PROVE  IInv'
<1>1. UNCHANGED <<waiting, attempt, pc, job, truth, svars, alg, served, outcome>>
  BY DEF MainBundleOver, Joined, rvars
<1>2. main' \in {"join", Unwind} /\ main' \in Phases
  BY DEF MainBundleOver, Joined, MainIs, Unwind, Phases
<1>3. stop' \in BOOLEAN
  BY DEF IInv, TypeOK, MainBundleOver, Joined, StopAtEnd
<1>4. TypeOK'
  BY <1>1, <1>2, <1>3 DEF IInv, TypeOK
<1> QED BY <1>1, <1>2, <1>4, OutsidersKeep DEF Unwind

LEMMA InterruptKeeps ==
  ASSUME IInv, NEW hit, Interrupt(hit)
  PROVE  IInv'
<1>1. UNCHANGED <<waiting, attempt, pc, job, truth, svars, alg, served, outcome>>
  BY DEF Interrupt, rvars
<1>2. main' \in {main, Unwind, "left"} /\ main' \in Phases /\ stop' \in BOOLEAN
  BY DEF IInv, TypeOK, Interrupt, MainIs, Unwind, Phases
<1>3. TypeOK'
  BY <1>1, <1>2 DEF IInv, TypeOK
<1> QED BY <1>1, <1>2, <1>3, OutsidersKeep DEF Unwind

LEMMA EscalateKeeps ==
  ASSUME IInv, Escalate
  PROVE  IInv'
<1>1. main' = NextOf(main) /\ main \in {"cooperate", "sigint", "terminate"} /\ stop' = TRUE /\ UNCHANGED svars
  BY DEF Escalate, MainIs
<1>2. main' \in {"sigint", "terminate", "kill"} /\ main' \in Phases
  BY <1>1 DEF NextOf, Phases
<1>3. \A s : Alive(s) \in SUBSET s
  BY DEF Alive
<1>4. Children \in SUBSET Bundles
  BY DEF Children, Active, MainBundle, Bundles
<1>5. CASE main = "cooperate"
  <2>1. UNCHANGED <<waiting, attempt, pc, job, truth, alg, served, outcome>>
    BY <1>5 DEF Escalate, rvars
  <2>2. TypeOK'
    BY <1>1, <1>2, <2>1 DEF IInv, TypeOK
  <2> QED BY <1>1, <1>2, <2>1, <2>2, OutsidersKeep
<1>6. CASE main \in {"sigint", "terminate"}
  <2>1. \E victims \in SUBSET Bundles : Killed(victims)
    BY <1>3, <1>4, <1>6 DEF Escalate
  <2>2. Remembered /\ StayOver
    BY <1>1, <1>2, <2>1, KilledKeeps
  <2> QED BY <1>1, <1>2, <2>2, KeptWaits DEF StayOver
<1> QED BY <1>1, <1>5, <1>6

LEMMA DiesKeeps ==
  ASSUME IInv, NEW w \in Runners, Dies(w)
  PROVE  IInv'
<1>1. Killed({w}) /\ {w} \in SUBSET Bundles /\ UNCHANGED <<stop, svars, main>>
  BY DEF Dies, Bundles
<1>2. Remembered /\ StayOver
  BY <1>1, KilledKeeps DEF IInv, TypeOK
<1> QED BY <1>1, <1>2, KeptWaits DEF StayOver

\* The end of execute: the only steps that lead to it.
LEMMA EndKeeps ==
  ASSUME IInv, ChildrenOver \/ Check \/ Finally
  PROVE  IInv'
<1>1. UNCHANGED <<waiting, attempt, pc, job, truth, svars, alg, served, outcome>>
  BY DEF ChildrenOver, Check, Finally, rvars
<1>2. main' \in {"check", "returned", "raised"} /\ main' \in Phases /\ stop' \in BOOLEAN
  BY DEF IInv, TypeOK, ChildrenOver, Check, Finally, MainIs, Phases
<1>3. TypeOK'
  BY <1>1, <1>2 DEF IInv, TypeOK
<1>4. JobsAreRollouts' /\ NoAttemptForgotten'
  BY <1>1 DEF IInv, JobsAreRollouts, NoAttemptForgotten, AtWork
<1>5. Threads \/ Alive(Children) = {}
  BY DEF ChildrenOver, Check, Finally, IInv, Waited
<1>6. StayOver
  BY <1>1 DEF StayOver, RunnersStayOver, svars
<1>7. Waited'
  BY <1>2, <1>5, <1>6, NoneRevives DEF Waited
<1> QED BY <1>3, <1>4, <1>7 DEF IInv

-----------------------------------------------------------------------------
LEMMA InitHolds == Init => IInv
<1> SUFFICES ASSUME Init PROVE IInv
  OBVIOUS
<1>1. TypeOK
  BY DEF Init, RunnerInit, TypeOK, Places, Outcomes, Phases, Truths
<1>2. JobsAreRollouts /\ NoAttemptForgotten
  BY DEF Init, RunnerInit, JobsAreRollouts, NoAttemptForgotten, AtWork
<1>3. Waited
  BY DEF Init, Waited
<1> QED BY <1>1, <1>2, <1>3 DEF IInv

LEMMA StepKeeps == IInv /\ [Next]_vars => IInv'
<1> SUFFICES ASSUME IInv, [Next]_vars PROVE IInv'
  OBVIOUS
<1>1. ASSUME NEW w \in Runners, RunnerStep(w) PROVE IInv'
  BY <1>1, StepsKeep DEF RunnerStep
<1>2. ASSUME NEW w \in Runners, RunnerFails(w) PROVE IInv'
  BY <1>2, LoopFailsKeeps, KeptWaits DEF RunnerFails, evars, svars
<1>3. ASSUME NEW w \in Runners, RunnerEnds(w) PROVE IInv'
  BY <1>3, RunnerEndsKeeps, KeptWaits DEF RunnerEnds, svars
<1>4. ASSUME NEW w \in Runners, Dies(w) PROVE IInv'
  BY <1>4, DiesKeeps
<1>5. CASE AlgorithmReturns \/ AlgorithmEnds
  BY <1>5, AlgorithmKeeps DEF AlgorithmEnds
<1>6. ASSUME NEW b \in Bundles, Watch(b) PROVE IInv'
  BY <1>6, WatchKeeps
<1>7. ASSUME NEW hit, Interrupt(hit) PROVE IInv'
  BY <1>7, InterruptKeeps
<1>8. CASE Execute
  BY <1>8, MainKeeps, EscalateKeeps, EndKeeps DEF Execute
<1>a. CASE AnswersLost
  BY <1>a, AnswersLostKeep
<1>9. CASE UNCHANGED vars
  BY <1>9, OutsidersKeep DEF vars, rvars, evars, svars, IInv, TypeOK
<1> QED BY <1>1, <1>2, <1>3, <1>4, <1>5, <1>6, <1>7, <1>8, <1>9, <1>a DEF Next

LEMMA Invariance == SafetySpec => []IInv
BY InitHolds, StepKeeps, PTL DEF SafetySpec

\* Every variable of the strategies and their runners keeps its type.
THEOREM ExecutionTypes == SafetySpec => []TypeOK
BY Invariance, PTL DEF IInv

\* An attempt that was claimed and not reported is being worked on, or its
\* runner skipped it, gave its report up, was cancelled, crashed or killed, or
\* the answer to the claim was lost on its way.
THEOREM AttemptsRemembered == Spec => []NoAttemptForgotten
BY Invariance, PTL DEF IInv, Spec

\* When ClientServer's execute returns or raises no child process is left, but
\* one may be when a SIGINT broke its shutdown.
THEOREM ProcessesEnd == Spec => []NoProcessLeft
<1>1. IInv => NoProcessLeft
  BY DEF IInv, Waited, NoProcessLeft, Ended
<1> QED BY <1>1, Invariance, PTL DEF Spec

-----------------------------------------------------------------------------
(* The life of a runner around iter: whose name its heartbeats bear. *)

Runnings == {"start", "iter", "work", "step", "awaiting"}
LifePlaces == Runnings \cup {"new", "worker", "leaving", "closing", "over"}
Objects == [agent : BOOLEAN, store : BOOLEAN, id : Workers \cup {Nobody, Zero}]
Beating(w) == beat[w] \in {"waiting", "checked", "sending"}

LifeTypes ==
  /\ runner \in [Workers -> Objects]
  /\ place \in [Workers -> LifePlaces]
  /\ ready \in [Workers -> 0..2]
  /\ beat \in [Workers -> {"none", "waiting", "checked", "sending", "over"}]
  /\ DOMAIN name = Workers /\ DOMAIN claim = Workers /\ DOMAIN cut = Workers

\* The heartbeat loop of w runs only while w is in its iteration, or after a
\* cancelled stop; while it sends, and only then, a name is on its way.
LoopWithin(w) ==
  /\ Beating(w) => place[w] \in {"iter", "work", "awaiting"} \/ cut[w]
  /\ name[w] # NoCall => beat[w] = "sending"

\* How far the initialisation of w came.
Initialised(w) ==
  /\ place[w] = "new" => ready[w] = 0
  /\ place[w] = "worker" => ready[w] = 1
  /\ place[w] \in Runnings => ready[w] = 2
  /\ place[w] \in {"new", "worker", "start", "step"} => beat[w] = "none"

\* A runner of one worker is what that worker made of it.
OwnRunner(w) ==
  /\ place[w] \in {"new", "worker"} => runner[w].id = Nobody /\ ~runner[w].store
  /\ place[w] = "worker" => runner[w].agent = TRUE
  /\ place[w] \in Runnings => runner[w] = [agent |-> TRUE, store |-> TRUE, id |-> Given(w)]
  /\ runner[w].id \in {Nobody, Given(w)}
  /\ place[w] \in {"leaving", "closing", "over"} /\ ready[w] = 0 => runner[w].id = Nobody /\ ~runner[w].store
  /\ place[w] = "leaving" /\ ready[w] = 2 => runner[w].id = Given(w)
  /\ place[w] = "over" /\ ready[w] >= 1 => runner[w] = Empty
  /\ claim[w] \in {NoCall, Given(w)}
  /\ name[w] \in {NoCall, Given(w)} \/ (cut[w] /\ name[w] = Nobody)

\* Of a runner that is shared, somebody still has to reset what was set.
First == CHOOSE v \in Workers : TRUE
StillReset ==
  /\ \A v \in Workers \ {First} : runner[v] = Empty
  /\ \A v \in Workers : runner[v].store \/ runner[v].id # Nobody =>
       \E w \in Workers : place[w] \in Runnings \cup {"leaving", "closing"} /\ ready[w] >= 1

LifeInv ==
  /\ LifeTypes /\ (\A w \in Workers : LoopWithin(w) /\ Initialised(w))
  /\ ~shared => \A w \in Workers : OwnRunner(w)
  /\ shared => StillReset

-----------------------------------------------------------------------------
\* A step of w is one of no other worker.
Alone(w) ==
  /\ LifeTypes' /\ UNCHANGED rigid
  /\ \A u \in Workers \ {w} :
       /\ place'[u] = place[u] /\ ready'[u] = ready[u] /\ beat'[u] = beat[u]
       /\ name'[u] = name[u] /\ claim'[u] = claim[u] /\ cut'[u] = cut[u]
       /\ ~shared => runner'[u] = runner[u]

LEMMA Local ==
  ASSUME LifeInv, NEW w \in Workers, Alone(w), LoopWithin(w)', Initialised(w)',
         ~shared => OwnRunner(w)', shared => StillReset'
  PROVE  LifeInv'
<1>1. ASSUME NEW u \in Workers \ {w}
      PROVE  LoopWithin(u)' /\ Initialised(u)' /\ (~shared => OwnRunner(u)')
  <2>1. LoopWithin(u)'
    BY DEF LifeInv, LoopWithin, Alone, Beating
  <2>2. Initialised(u)'
    BY DEF LifeInv, Initialised, Alone
  <2>3. ASSUME ~shared PROVE OwnRunner(u)'
    <3>1. OwnRunner(u) /\ Given(u)' = Given(u) /\ runner'[u] = runner[u]
      BY <2>3 DEF LifeInv, Alone, Given, rigid
    <3> QED BY <3>1 DEF OwnRunner, Alone
  <2> QED BY <2>1, <2>2, <2>3
<1>2. shared' = shared
  BY DEF Alone, rigid
<1> QED BY <1>1, <1>2 DEF LifeInv, Alone

\* Most steps leave the runner alone, and a worker that has still to reset it
\* keeps having to.
Resets == Runnings \cup {"leaving", "closing"}

LEMMA Quiet ==
  ASSUME LifeInv, NEW w \in Workers, Alone(w), UNCHANGED <<runner, ready>>,
         place[w] \in Resets => place'[w] \in Resets,
         LoopWithin(w)', Initialised(w)', ~shared => OwnRunner(w)'
  PROVE  LifeInv'
<1>1. ASSUME shared PROVE StillReset'
  <2>1. StillReset
    BY <1>1 DEF LifeInv
  <2>2. \A u \in Workers : place[u] \in Resets => place'[u] \in Resets
    BY DEF Alone
  <2> QED BY <2>1, <2>2 DEF StillReset, Resets
<1> QED BY <1>1, Local

LEMMA MineIs == ASSUME NEW w \in Workers PROVE Mine(w) = (IF shared THEN First ELSE w) /\ First \in Workers /\ Mine(w) \in Workers
BY DEF Mine, First

\* A bundle's own runner while it works.
LEMMA Working ==
  ASSUME LifeInv, NEW w \in Workers, ~shared, place[w] \in Runnings
  PROVE  /\ runner[Mine(w)].agent /\ runner[Mine(w)].store /\ runner[Mine(w)].id = Given(w)
         /\ runner[w] = [agent |-> TRUE, store |-> TRUE, id |-> Given(w)] /\ ready[w] = 2
         /\ (place[w] # "leaving" /\ place[w] # "over" /\ place[w] # "new" /\ place[w] # "closing" /\ place[w] # "worker")
BY MineIs DEF LifeInv, OwnRunner, Initialised, Runnings

LEMMA InitsRunner == ASSUME LifeInv, NEW w \in Workers, InitRunner(w) PROVE LifeInv'
<1>1. /\ place[w] = "new" /\ runner' = [runner EXCEPT ![Mine(w)].agent = TRUE]
      /\ UNCHANGED <<rigid, beat, told, name, claim, cancels, cut>>
      /\ \/ place' = [place EXCEPT ![w] = "worker"] /\ ready' = [ready EXCEPT ![w] = 1]
         \/ place' = [place EXCEPT ![w] = "leaving"] /\ UNCHANGED ready
  BY DEF InitRunner, Reach
<1>2. Mine(w) \in Workers /\ First \in Workers /\ Mine(w) = (IF shared THEN First ELSE w)
  BY MineIs
<1> DEFINE rec == [agent |-> TRUE, store |-> runner[Mine(w)].store, id |-> runner[Mine(w)].id]
<1>3. runner' \in [Workers -> Objects] /\ \A v \in Workers : v # Mine(w) => runner'[v] = runner[v]
  <2>1. runner[Mine(w)] \in Objects
    BY <1>2 DEF LifeInv, LifeTypes
  <2>2. rec \in Objects
    BY <2>1 DEF Objects
  <2>3. runner'[Mine(w)] = rec
    BY <1>1, <1>2, <2>1 DEF LifeInv, LifeTypes, Objects
  <2>4. runner' = [runner EXCEPT ![Mine(w)] = rec]
    BY <1>1, <1>2, <2>3 DEF LifeInv, LifeTypes
  <2> QED BY <1>2, <2>2, <2>4 DEF LifeInv, LifeTypes
<1>4. runner'[Mine(w)] = rec
  <2>1. runner[Mine(w)] \in Objects
    BY <1>2 DEF LifeInv, LifeTypes
  <2> QED BY <1>1, <1>2, <2>1 DEF LifeInv, LifeTypes, Objects
<1>5. ready[w] = 0 /\ LoopWithin(w)
  BY <1>1 DEF LifeInv, Initialised
<1>6. Alone(w)
  BY <1>1, <1>2, <1>3 DEF Alone, LifeInv, LifeTypes, LifePlaces, Runnings
<1>7. LoopWithin(w)' /\ Initialised(w)'
  BY <1>1, <1>5 DEF LoopWithin, Beating, Initialised, LifeInv, LifeTypes, Runnings
<1>8. ASSUME ~shared PROVE OwnRunner(w)'
  <2>1. OwnRunner(w) /\ Given(w)' = Given(w)
    BY <1>1, <1>8 DEF LifeInv, Given, rigid
  <2> QED BY <1>1, <1>2, <1>4, <1>5, <1>8, <2>1 DEF OwnRunner, LifeInv, LifeTypes, Runnings
<1>9. ASSUME shared PROVE StillReset'
  <2>1. StillReset
    BY <1>9 DEF LifeInv
  <2>2. \A u \in Workers : place[u] \in Resets /\ ready[u] >= 1 => place'[u] \in Resets /\ ready'[u] >= 1
    BY <1>1, <1>5 DEF LifeInv, LifeTypes, Resets, Runnings
  <2>3. \A v \in Workers : runner'[v].store = runner[v].store /\ runner'[v].id = runner[v].id
    BY <1>3, <1>4
  <2> QED BY <1>2, <1>3, <1>9, <2>1, <2>2, <2>3 DEF StillReset, Resets
<1> QED BY <1>6, <1>7, <1>8, <1>9, Local

LEMMA InitsWorker == ASSUME LifeInv, NEW w \in Workers, InitWorker(w) PROVE LifeInv'
<1>1. /\ place[w] = "worker"
      /\ runner' = [runner EXCEPT ![Mine(w)].store = TRUE, ![Mine(w)].id = Given(w)]
      /\ UNCHANGED <<rigid, beat, told, name, claim, cancels, cut>>
      /\ \/ place' = [place EXCEPT ![w] = "start"] /\ ready' = [ready EXCEPT ![w] = 2]
         \/ place' = [place EXCEPT ![w] = "leaving"] /\ UNCHANGED ready
  BY DEF InitWorker, Reach
<1>2. Mine(w) \in Workers /\ First \in Workers /\ Mine(w) = (IF shared THEN First ELSE w)
  BY MineIs
<1>3. Given(w) \in Workers \cup {Zero}
  BY DEF Given
<1>4. runner[Mine(w)] \in Objects
  BY <1>2 DEF LifeInv, LifeTypes
<1> DEFINE rec == [agent |-> runner[Mine(w)].agent, store |-> TRUE, id |-> Given(w)]
<1>5. runner'[Mine(w)] = rec
  BY <1>1, <1>2, <1>4 DEF LifeInv, LifeTypes, Objects
<1>6. runner' \in [Workers -> Objects] /\ \A v \in Workers : v # Mine(w) => runner'[v] = runner[v]
  <2>1. rec \in Objects
    BY <1>3, <1>4 DEF Objects
  <2>2. runner' = [runner EXCEPT ![Mine(w)] = rec]
    BY <1>1, <1>2, <1>4, <1>5 DEF LifeInv, LifeTypes
  <2> QED BY <1>2, <2>1, <2>2 DEF LifeInv, LifeTypes
<1>7. ready[w] = 1 /\ LoopWithin(w)
  BY <1>1 DEF LifeInv, Initialised
<1>8. Alone(w)
  BY <1>1, <1>2, <1>6 DEF Alone, LifeInv, LifeTypes, LifePlaces, Runnings
<1>9. LoopWithin(w)' /\ Initialised(w)'
  BY <1>1, <1>7 DEF LoopWithin, Beating, Initialised, LifeInv, LifeTypes, Runnings
<1>10. ASSUME ~shared PROVE OwnRunner(w)'
  <2>1. OwnRunner(w) /\ Given(w)' = Given(w)
    BY <1>1, <1>10 DEF LifeInv, Given, rigid
  <2>2. runner'[w] = rec /\ rec = [agent |-> TRUE, store |-> TRUE, id |-> Given(w)]
    BY <1>1, <1>2, <1>5, <1>10, <2>1 DEF OwnRunner
  <2>3. \/ place'[w] = "start" /\ ready'[w] = 2
        \/ place'[w] = "leaving" /\ ready'[w] = 1
    BY <1>1, <1>7 DEF LifeInv, LifeTypes
  <2> QED BY <1>1, <2>1, <2>2, <2>3 DEF OwnRunner, Runnings
<1>11. ASSUME shared PROVE StillReset'
  <2>1. StillReset
    BY <1>11 DEF LifeInv
  <2>2. place'[w] \in Resets /\ ready'[w] >= 1
    BY <1>1, <1>7 DEF LifeInv, LifeTypes, Resets, Runnings
  <2> QED BY <1>2, <1>6, <1>11, <2>1, <2>2 DEF StillReset, Resets
<1> QED BY <1>8, <1>9, <1>10, <1>11, Local

\* What a step that leaves the runner alone owes to OwnRunner.
LEMMA StaysOwn ==
  ASSUME LifeInv, NEW w \in Workers, ~shared, UNCHANGED <<rigid, runner, ready>>,
         \/ place[w] \in Runnings /\ (place'[w] \in Runnings \/ place'[w] = "leaving")
         \/ place'[w] = place[w],
         claim'[w] \in {claim[w], NoCall, Given(w)},
         cut[w] => cut'[w],
         name'[w] \in {name[w], NoCall, Given(w)} \/ (cut'[w] /\ name'[w] = Nobody)
  PROVE  OwnRunner(w)'
<1>1. OwnRunner(w) /\ Given(w)' = Given(w)
  BY DEF LifeInv, Given, rigid
<1>2. place[w] \in Runnings => ready[w] = 2
  BY DEF LifeInv, Initialised
<1> QED BY <1>1, <1>2 DEF OwnRunner, Runnings

LEMMA Iterates == ASSUME LifeInv, NEW w \in Workers, Iter(w) PROVE LifeInv'
<1>1. /\ place[w] = "start" /\ UNCHANGED <<rigid, runner, ready, told, name, claim, cancels, cut>>
      /\ \/ place' = [place EXCEPT ![w] = "leaving"] /\ UNCHANGED beat
         \/ /\ place' = [place EXCEPT ![w] = "iter"]
            /\ beat' = [beat EXCEPT ![w] = "none"] \/ beat' = [beat EXCEPT ![w] = "waiting"]
  BY DEF Iter, Reach
<1>2. Alone(w)
  BY <1>1 DEF Alone, LifeInv, LifeTypes, LifePlaces, Runnings
<1>3. LoopWithin(w) /\ ready[w] = 2
  BY <1>1 DEF LifeInv, Initialised, Runnings
<1>4. LoopWithin(w)' /\ Initialised(w)'
  BY <1>1, <1>3 DEF LoopWithin, Beating, Initialised, LifeInv, LifeTypes, Runnings
<1>5. ~shared => OwnRunner(w)'
  BY <1>1, StaysOwn DEF Runnings, LifeInv, LifeTypes
<1> QED BY <1>1, <1>2, <1>4, <1>5, Quiet DEF Resets, Runnings, LifeInv, LifeTypes

\* step, and the claims and ends of a rollout.
LEMMA Claims ==
  ASSUME LifeInv, NEW w \in Workers, Step(w) \/ Stepped(w) \/ Claim(w)
  PROVE  LifeInv'
<1>1. /\ place[w] \in {"start", "step", "iter"} /\ UNCHANGED <<rigid, runner, ready, beat, told, name, cancels, cut>>
      /\ \/ place[w] = "start" /\ place' = [place EXCEPT ![w] = "step"]
         \/ place[w] = "step" /\ place' = [place EXCEPT ![w] = "leaving"]
         \/ place[w] = "iter" /\ place' = [place EXCEPT ![w] = "work"]
      /\ claim' = [claim EXCEPT ![w] = NoCall] \/ claim' = [claim EXCEPT ![w] = runner[Mine(w)].id]
  BY DEF Step, Stepped, Claim, Reach
<1>2. Alone(w)
  BY <1>1 DEF Alone, LifeInv, LifeTypes, LifePlaces, Runnings
<1>3. LoopWithin(w) /\ ready[w] = 2
  BY <1>1 DEF LifeInv, Initialised, Runnings
<1>4. LoopWithin(w)' /\ Initialised(w)'
  BY <1>1, <1>3 DEF LoopWithin, Beating, Initialised, LifeInv, LifeTypes, Runnings
<1>5. ASSUME ~shared PROVE OwnRunner(w)'
  <2>1. runner[Mine(w)].id = Given(w)
    BY <1>1, <1>5, Working DEF Runnings
  <2> QED BY <1>1, <1>5, <2>1, StaysOwn DEF Runnings, LifeInv, LifeTypes
<1> QED BY <1>1, <1>2, <1>4, <1>5, Quiet DEF Resets, Runnings, LifeInv, LifeTypes

LEMMA Finishes ==
  ASSUME LifeInv, NEW w \in Workers, Finish(w)
  PROVE  \/ beat[w] = "none" /\ place' = [place EXCEPT ![w] = "leaving"]
         \/ beat[w] # "none" /\ place' = [place EXCEPT ![w] = "awaiting"]
BY DEF Finish, Reach

LEMMA Works ==
  ASSUME LifeInv, NEW w \in Workers, Work(w) \/ Done(w) \/ Leave(w)
  PROVE  LifeInv'
<1>1. /\ place[w] \in {"work", "iter", "awaiting"} /\ UNCHANGED <<rigid, runner, ready, beat, name, cancels, cut>>
      /\ \/ place' = [place EXCEPT ![w] = "iter"]
         \/ beat[w] \in {"none", "over"} /\ place' = [place EXCEPT ![w] = "leaving"]
         \/ place' = [place EXCEPT ![w] = "awaiting"]
      /\ claim' = [claim EXCEPT ![w] = NoCall] \/ UNCHANGED claim
  BY Finishes DEF Work, Done, Leave, Stopped, Reach
<1>2. Alone(w)
  BY <1>1 DEF Alone, LifeInv, LifeTypes, LifePlaces, Runnings
<1>3. LoopWithin(w) /\ ready[w] = 2
  BY <1>1 DEF LifeInv, Initialised, Runnings
<1>4. LoopWithin(w)' /\ Initialised(w)'
  BY <1>1, <1>3 DEF LoopWithin, Beating, Initialised, LifeInv, LifeTypes, Runnings
<1>5. ~shared => OwnRunner(w)'
  BY <1>1, StaysOwn DEF Runnings, LifeInv, LifeTypes
<1> QED BY <1>1, <1>2, <1>4, <1>5, Quiet DEF Resets, Runnings, LifeInv, LifeTypes

LEMMA Cancels == ASSUME LifeInv, NEW w \in Workers, Cancel(w) PROVE LifeInv'
<1>1. /\ place[w] \in {"iter", "work", "awaiting"} /\ UNCHANGED <<rigid, runner, ready>>
      /\ claim' = [claim EXCEPT ![w] = NoCall]
      /\ \/ /\ UNCHANGED <<beat, name, cut>>
            /\ \/ beat[w] = "none" /\ place' = [place EXCEPT ![w] = "leaving"]
               \/ beat[w] # "none" /\ place' = [place EXCEPT ![w] = "awaiting"]
         \/ /\ place' = [place EXCEPT ![w] = "leaving"]
            /\ \/ beat' = [beat EXCEPT ![w] = "over"] /\ name' = [name EXCEPT ![w] = NoCall] /\ UNCHANGED cut
               \/ cut' = [cut EXCEPT ![w] = TRUE] /\ UNCHANGED <<beat, name>>
  BY Finishes DEF Cancel, Reach
<1>2. Alone(w)
  BY <1>1 DEF Alone, LifeInv, LifeTypes, LifePlaces, Runnings
<1>3. LoopWithin(w) /\ ready[w] = 2
  BY <1>1 DEF LifeInv, Initialised, Runnings
<1>4. LoopWithin(w)' /\ Initialised(w)'
  BY <1>1, <1>3 DEF LoopWithin, Beating, Initialised, LifeInv, LifeTypes, Runnings
<1>5. ~shared => OwnRunner(w)'
  BY <1>1, StaysOwn DEF Runnings, LifeInv, LifeTypes
<1> QED BY <1>1, <1>2, <1>4, <1>5, Quiet DEF Resets, Runnings, LifeInv, LifeTypes

LEMMA Loops ==
  ASSUME LifeInv, NEW w \in Workers, LoopChecks(w) \/ Beat(w) \/ Sent(w)
  PROVE  LifeInv'
<1>1. /\ Beating(w) /\ UNCHANGED <<rigid, runner, place, ready, claim, cancels, cut>>
      /\ \/ beat' = [beat EXCEPT ![w] = "over"] /\ UNCHANGED name /\ beat[w] = "waiting"
         \/ beat' = [beat EXCEPT ![w] = "checked"] /\ UNCHANGED name /\ beat[w] = "waiting"
         \/ beat' = [beat EXCEPT ![w] = "sending"] /\ name' = [name EXCEPT ![w] = runner[Mine(w)].id]
         \/ beat' = [beat EXCEPT ![w] = "waiting"] /\ name' = [name EXCEPT ![w] = NoCall]
  BY DEF LoopChecks, Beat, Sent, Beating
<1>2. Alone(w)
  BY <1>1 DEF Alone, LifeInv, LifeTypes
<1>3. LoopWithin(w) /\ Initialised(w)
  BY DEF LifeInv
<1>4. LoopWithin(w)' /\ Initialised(w)'
  BY <1>1, <1>3 DEF LoopWithin, Beating, Initialised, LifeInv, LifeTypes
<1>5. ASSUME ~shared PROVE OwnRunner(w)'
  <2>1. Mine(w) = w /\ OwnRunner(w)
    BY <1>5, MineIs DEF LifeInv
  <2>2. runner[w].id = Given(w) \/ (cut[w] /\ runner[w].id = Nobody)
    BY <1>1, <1>3, <2>1 DEF LoopWithin, OwnRunner, Runnings
  <2> QED BY <1>1, <1>5, <2>1, <2>2, StaysOwn DEF LifeInv, LifeTypes
<1> QED BY <1>1, <1>2, <1>4, <1>5, Quiet

LEMMA TearsDownWorker == ASSUME LifeInv, NEW w \in Workers, TeardownWorker(w) PROVE LifeInv'
<1>1. /\ place[w] = "leaving" /\ place' = [place EXCEPT ![w] = "closing"]
      /\ runner' = IF ready[w] = 2 THEN [runner EXCEPT ![Mine(w)].id = Nobody] ELSE runner
      /\ UNCHANGED <<rigid, ready, beat, told, name, claim, cancels, cut>>
  BY DEF TeardownWorker, Reach
<1>2. Mine(w) \in Workers /\ First \in Workers /\ Mine(w) = (IF shared THEN First ELSE w)
  BY MineIs
<1>3. runner[Mine(w)] \in Objects /\ runner \in [Workers -> Objects]
  BY <1>2 DEF LifeInv, LifeTypes
<1>4. /\ runner' \in [Workers -> Objects] /\ \A v \in Workers : v # Mine(w) => runner'[v] = runner[v]
      /\ \/ ready[w] = 2 /\ runner'[Mine(w)].id = Nobody /\ runner'[Mine(w)].store = runner[Mine(w)].store
         \/ ready[w] # 2 /\ runner' = runner
  <2> DEFINE rec == [agent |-> runner[Mine(w)].agent, store |-> runner[Mine(w)].store, id |-> Nobody]
  <2>1. rec \in Objects
    BY <1>3 DEF Objects
  <2>2. CASE ready[w] = 2
    <3>1. runner'[Mine(w)] = rec
      BY <1>1, <1>2, <1>3, <2>2 DEF Objects
    <3>2. runner' = [runner EXCEPT ![Mine(w)] = rec]
      BY <1>1, <1>2, <1>3, <2>2, <3>1
    <3> QED BY <1>2, <1>3, <2>1, <2>2, <3>1, <3>2
  <2>3. CASE ready[w] # 2
    BY <1>1, <1>3, <2>3
  <2> QED BY <2>2, <2>3
<1>5. Alone(w)
  BY <1>1, <1>2, <1>4 DEF Alone, LifeInv, LifeTypes, LifePlaces, Runnings
<1>6. LoopWithin(w) /\ Initialised(w)
  BY DEF LifeInv
<1>7. LoopWithin(w)' /\ Initialised(w)'
  BY <1>1, <1>6 DEF LoopWithin, Beating, Initialised, LifeInv, LifeTypes, Runnings
<1>8. ASSUME ~shared PROVE OwnRunner(w)'
  <2>1. OwnRunner(w) /\ Given(w)' = Given(w) /\ Mine(w) = w
    BY <1>1, <1>2, <1>8 DEF LifeInv, Given, rigid
  <2>2. place'[w] = "closing" /\ UNCHANGED <<ready, claim, name, cut>>
    BY <1>1 DEF LifeInv, LifeTypes
  <2> QED BY <1>1, <1>4, <2>1, <2>2 DEF OwnRunner, Runnings
<1>9. ASSUME shared PROVE StillReset'
  <2>1. StillReset
    BY <1>9 DEF LifeInv
  <2>2. \A u \in Workers : place[u] \in Resets => place'[u] \in Resets
    BY <1>1 DEF LifeInv, LifeTypes, Resets
  <2>3. \A v \in Workers : runner'[v].store \/ runner'[v].id # Nobody => runner[v].store \/ runner[v].id # Nobody
    BY <1>4
  <2> QED BY <1>1, <1>2, <1>4, <1>9, <2>1, <2>2, <2>3 DEF StillReset, Resets
<1> QED BY <1>5, <1>7, <1>8, <1>9, Local

LEMMA TearsDown == ASSUME LifeInv, NEW w \in Workers, Teardown(w) PROVE LifeInv'
<1>1. /\ place[w] = "closing" /\ place' = [place EXCEPT ![w] = "over"]
      /\ runner' = IF ready[w] >= 1 THEN [runner EXCEPT ![Mine(w)] = Empty] ELSE runner
      /\ UNCHANGED <<rigid, ready, beat, told, name, claim, cancels, cut>>
  BY DEF Teardown, Reach
<1>2. Mine(w) \in Workers /\ First \in Workers /\ Mine(w) = (IF shared THEN First ELSE w)
  BY MineIs
<1>3. runner \in [Workers -> Objects] /\ Empty \in Objects /\ ~Empty.store /\ Empty.id = Nobody
  BY DEF LifeInv, LifeTypes, Empty, Objects
<1>4. /\ runner' \in [Workers -> Objects] /\ \A v \in Workers : v # Mine(w) => runner'[v] = runner[v]
      /\ ready[w] >= 1 => runner'[Mine(w)] = Empty
      /\ ~(ready[w] >= 1) => runner' = runner
  BY <1>1, <1>2, <1>3
<1>5. Alone(w)
  BY <1>1, <1>2, <1>4 DEF Alone, LifeInv, LifeTypes, LifePlaces, Runnings
<1>6. LoopWithin(w) /\ Initialised(w) /\ ready[w] \in 0..2
  BY DEF LifeInv, LifeTypes
<1>7. LoopWithin(w)' /\ Initialised(w)'
  BY <1>1, <1>6 DEF LoopWithin, Beating, Initialised, LifeInv, LifeTypes, Runnings
<1>8. ASSUME ~shared PROVE OwnRunner(w)'
  <2>1. OwnRunner(w) /\ Given(w)' = Given(w) /\ Mine(w) = w
    BY <1>1, <1>2, <1>8 DEF LifeInv, Given, rigid
  <2>2. place'[w] = "over" /\ UNCHANGED <<ready, claim, name, cut>>
    BY <1>1 DEF LifeInv, LifeTypes
  <2> QED BY <1>1, <1>3, <1>4, <1>6, <2>1, <2>2 DEF OwnRunner, Runnings
<1>9. ASSUME shared PROVE StillReset'
  <2>1. StillReset
    BY <1>9 DEF LifeInv
  <2>2. CASE ready[w] >= 1
    <3>1. \A v \in Workers : runner'[v] = Empty
      BY <1>2, <1>4, <1>9, <2>1, <2>2 DEF StillReset
    <3> QED BY <1>2, <1>3, <3>1 DEF StillReset
  <2>3. CASE ~(ready[w] >= 1)
    <3>1. \A u \in Workers : place[u] \in Resets /\ ready[u] >= 1 => place'[u] \in Resets
      BY <1>1, <2>3 DEF LifeInv, LifeTypes, Resets
    <3> QED BY <1>1, <1>4, <2>1, <2>3, <3>1 DEF StillReset, Resets
  <2> QED BY <2>2, <2>3
<1> QED BY <1>5, <1>7, <1>8, <1>9, Local

LEMMA LifeSteps == LifeInv /\ [LifeNext]_life => LifeInv'
<1> SUFFICES ASSUME LifeInv, [LifeNext]_life PROVE LifeInv'
  OBVIOUS
<1>1. CASE UNCHANGED life
  <2>1. LifeTypes' /\ \A w \in Workers : LoopWithin(w)' /\ Initialised(w)'
    BY <1>1 DEF life, rigid, LifeInv, LifeTypes, LoopWithin, Beating, Initialised
  <2>2. \A w \in Workers : Given(w)' = Given(w)
    BY <1>1 DEF life, rigid, Given
  <2>3. ~shared' => \A w \in Workers : OwnRunner(w)'
    BY <1>1, <2>2 DEF life, rigid, LifeInv, OwnRunner
  <2>4. shared' => StillReset'
    BY <1>1 DEF life, rigid, LifeInv, StillReset
  <2> QED BY <2>1, <2>3, <2>4 DEF LifeInv
<1>2. CASE LifeNext
  BY <1>2, InitsRunner, InitsWorker, Iterates, Claims, Works, Cancels, TearsDownWorker, TearsDown, Loops DEF LifeNext
<1> QED BY <1>1, <1>2

LEMMA LifeBegins == LifeStarts => LifeInv
<1> SUFFICES ASSUME LifeStarts PROVE LifeInv
  OBVIOUS
<1>1. /\ Empty \in Objects /\ ~Empty.store /\ Empty.id = Nobody
      /\ runner = [w \in Workers |-> Empty] /\ ready = [w \in Workers |-> 0] /\ place = [w \in Workers |-> "new"]
      /\ beat = [w \in Workers |-> "none"] /\ name = [w \in Workers |-> NoCall] /\ claim = [w \in Workers |-> NoCall]
      /\ cut = [w \in Workers |-> FALSE]
  BY DEF LifeStarts, LifeInit, Empty, Objects
<1>2. LifeTypes
  BY <1>1 DEF LifeTypes, LifePlaces
<1>3. \A w \in Workers : LoopWithin(w) /\ Initialised(w)
  BY <1>1 DEF LoopWithin, Beating, Initialised, Runnings
<1>4. \A w \in Workers : OwnRunner(w)
  BY <1>1 DEF OwnRunner, Runnings
<1>5. StillReset
  BY <1>1 DEF StillReset, First
<1> QED BY <1>2, <1>3, <1>4, <1>5 DEF LifeInv

\* Whatever is initialised, cancelled and torn down when: a worker with a runner
\* of its own claims and beats under its own id and not after its end, but for
\* a thread whose stop was cancelled; and when all bundles are over, no store
\* and no worker id is left on any runner, shared or not.
THEOREM BeatsOwn == LifeSpec => []BeatsAreOwn
<1>1. LifeInv => BeatsAreOwn
  <2> SUFFICES ASSUME LifeInv PROVE BeatsAreOwn
    OBVIOUS
  <2>1. ASSUME ~shared, NEW w \in Workers
        PROVE  /\ claim[w] \in {NoCall, Given(w)}
               /\ name[w] \in {NoCall, Given(w)} \/ (cut[w] /\ name[w] = Nobody)
    BY <2>1 DEF LifeInv, OwnRunner
  <2>2. ASSUME NEW w \in Workers, name[w] # NoCall, place[w] \in {"leaving", "closing", "over"} PROVE cut[w]
    BY <2>2 DEF LifeInv, LoopWithin, Beating
  <2>3. ASSUME NEW w \in Workers, place[w] = "over"
        PROVE  /\ beat[w] \in {"none", "over"} \/ cut[w]
               /\ ~shared /\ ready[w] >= 1 => runner[w] = Empty
    BY <2>3 DEF LifeInv, LifeTypes, LoopWithin, Beating, OwnRunner
  <2>4. ASSUME \A w \in Workers : place[w] = "over", NEW w \in Workers
        PROVE  ~runner[w].store /\ runner[w].id = Nobody
    <3>1. CASE shared
      BY <2>4, <3>1 DEF LifeInv, StillReset, Runnings
    <3>2. CASE ~shared
      <4>1. CASE ready[w] = 0
        BY <2>4, <3>2, <4>1 DEF LifeInv, OwnRunner
      <4>2. CASE ready[w] >= 1
        BY <2>3, <2>4, <3>2, <4>2 DEF Empty
      <4> QED BY <4>1, <4>2 DEF LifeInv, LifeTypes
    <3> QED BY <3>1, <3>2
  <2> QED BY <2>1, <2>2, <2>3, <2>4 DEF BeatsAreOwn
<1> QED BY <1>1, LifeBegins, LifeSteps, PTL DEF LifeSpec

-----------------------------------------------------------------------------
(* Training over the task server. *)

Moments == {"off", "poll", "fetch", "work", "post", "dead"}
Results == [task : 0..queued, reward : BOOLEAN, called : BOOLEAN]

TrainTypes ==
  /\ queued \in Nat
  /\ queue \in Seq(1..queued) /\ processing \in Seq(1..queued)
  /\ workers \in [TaskWorkers -> [at : Moments, task : 0..queued, called : BOOLEAN]]
  /\ completed \subseteq Results /\ done \subseteq Results
  /\ batch \subseteq 1..queued /\ addresses \in BOOLEAN

OnePerTask(results) == \A r, s \in results : r.task = s.task => r = s

\* A model is named while a batch is out, so that what is known of its tasks
\* came from calls that had one; tasks of a later batch are new.
CallsHadModel ==
  /\ batch # {} => addresses
  /\ \A w \in TaskWorkers : workers[w].at = "post" /\ workers[w].task \in batch => workers[w].called
  /\ \A r \in completed : r.task \in batch => r.called

ResultsFit ==
  /\ OnePerTask(completed) /\ OnePerTask(done)
  /\ \A d \in done : d.task \in batch /\ d.called

TrainInv == TrainTypes /\ CallsHadModel /\ ResultsFit /\ (daemon = "waiting" => training = (turn = "train"))

LEMMA TrainStarts == TrainInit => TrainInv
<1> SUFFICES ASSUME TrainInit PROVE TrainInv
  OBVIOUS
<1>1. TrainTypes
  <2>1. queued \in Nat /\ 0 \in 0..queued /\ queue = <<>> /\ processing = <<>>
    BY DEF TrainInit
  <2>2. workers \in [TaskWorkers -> [at : Moments, task : 0..queued, called : BOOLEAN]]
    BY <2>1 DEF TrainInit, Moments, None
  <2>3. <<>> \in Seq(1..queued)
    OBVIOUS
  <2>4. completed = {} /\ done = {} /\ batch = {} /\ addresses = FALSE
    BY DEF TrainInit
  <2> QED BY <2>1, <2>2, <2>3, <2>4 DEF TrainTypes
<1>2. CallsHadModel /\ ResultsFit /\ daemon # "waiting"
  BY DEF TrainInit, CallsHadModel, ResultsFit, OnePerTask
<1> QED BY <1>1, <1>2 DEF TrainInv

\* Filtered lists of tasks.
LEMMA WithoutTypes ==
  ASSUME NEW n \in Nat, NEW s \in Seq(1..n), NEW tasks
  PROVE  Without(s, tasks) \in Seq(1..n)
BY OnlyProperties DEF Without

\* Steps of the workers and the server, which leave the trainer alone.
LEMMA WorkersPreserve ==
  ASSUME TrainInv, UNCHANGED InTheTrainer, UNCHANGED done,
         queue' \in Seq(1..queued), processing' \in Seq(1..queued),
         workers' \in [TaskWorkers -> [at : Moments, task : 0..queued, called : BOOLEAN]],
         completed' \subseteq Results, OnePerTask(completed)',
         \A w \in TaskWorkers :
           workers'[w].at = "post" /\ workers'[w].task \in batch => workers'[w].called,
         \A r \in completed' : r.task \in batch => r.called
  PROVE  TrainInv'
<1>1. UNCHANGED <<turn, addresses, training, batch, done, daemon, queued>>
  BY DEF InTheTrainer
<1>2. TrainTypes'
  BY <1>1 DEF TrainInv, TrainTypes, Results
<1>3. CallsHadModel'
  BY <1>1 DEF TrainInv, CallsHadModel
<1>4. ResultsFit'
  BY <1>1 DEF TrainInv, ResultsFit, OnePerTask
<1> QED BY <1>1, <1>2, <1>3, <1>4 DEF TrainInv

\* What is so before the step, for the lemma above.
LEMMA Before ==
  ASSUME TrainInv
  PROVE  /\ queued \in Nat
         /\ queue \in Seq(1..queued) /\ processing \in Seq(1..queued)
         /\ workers \in [TaskWorkers -> [at : Moments, task : 0..queued, called : BOOLEAN]]
         /\ completed \subseteq Results /\ OnePerTask(completed)
         /\ \A w \in TaskWorkers :
              workers[w].at = "post" /\ workers[w].task \in batch => workers[w].called
         /\ \A r \in completed : r.task \in batch => r.called
BY DEF TrainInv, TrainTypes, CallsHadModel, ResultsFit

\* A worker goes on to a place, with a task, and others stay.
LEMMA WorkerSteps ==
  ASSUME TrainInv, UNCHANGED InTheTrainer,
         queue' \in Seq(1..queued), processing' \in Seq(1..queued), UNCHANGED completed,
         NEW w \in TaskWorkers, NEW x \in [at : Moments, task : 0..queued, called : BOOLEAN],
         workers' = [workers EXCEPT ![w] = x],
         x.at = "post" /\ x.task \in batch => x.called
  PROVE  TrainInv'
<1>1. workers' \in [TaskWorkers -> [at : Moments, task : 0..queued, called : BOOLEAN]]
  BY Before
<1>2. \A v \in TaskWorkers : workers'[v] = IF v = w THEN x ELSE workers[v]
  BY Before
<1>3. ASSUME NEW v \in TaskWorkers, workers'[v].at = "post" /\ workers'[v].task \in batch
      PROVE  workers'[v].called
  BY <1>2, <1>3, Before
<1>4. completed' \subseteq Results /\ OnePerTask(completed)' /\ \A r \in completed' : r.task \in batch => r.called
  BY Before DEF OnePerTask
<1>5. UNCHANGED done
  BY DEF InTheTrainer
<1> QED BY <1>1, <1>3, <1>4, <1>5, WorkersPreserve

\* The server keeps the result, and forgets the claim.
LEMMA StorePreserves ==
  ASSUME TrainInv, UNCHANGED InTheTrainer, UNCHANGED <<queue>>,
         NEW w \in TaskWorkers, workers[w].at = "post", Polls(w), NEW reward \in BOOLEAN,
         Store([task |-> workers[w].task, reward |-> reward, called |-> workers[w].called])
  PROVE  TrainInv'
<1> DEFINE r == [task |-> workers[w].task, reward |-> reward, called |-> workers[w].called]
<1>1. r \in Results /\ r.task = workers[w].task /\ (r.task \in batch => r.called)
  BY Before DEF Results
<1>2. /\ processing' = Without(processing, {r.task})
      /\ completed' = {s \in completed : s.task # r.task} \cup {r}
  BY DEF Store
<1> HIDE DEF r
<1>3. processing' \in Seq(1..queued)
  BY <1>2, Before, WithoutTypes
<1>4. /\ completed' \subseteq Results
      /\ \A s \in completed' : s.task \in batch => s.called
  BY <1>1, <1>2, Before
<1>5. OnePerTask(completed)'
  BY <1>2, Before DEF OnePerTask
<1>6. /\ workers' \in [TaskWorkers -> [at : Moments, task : 0..queued, called : BOOLEAN]]
      /\ \A v \in TaskWorkers : v # w => workers'[v] = workers[v]
      /\ workers'[w].at = "poll"
  BY Before DEF Polls, Moments, None
<1>7. \A v \in TaskWorkers : workers'[v].at = "post" /\ workers'[v].task \in batch => workers'[v].called
  BY <1>6, Before
<1>8. UNCHANGED done /\ queue' \in Seq(1..queued)
  BY Before DEF InTheTrainer
<1> QED BY <1>3, <1>4, <1>5, <1>6, <1>7, <1>8, WorkersPreserve

LEMMA NextTaskPreserves ==
  ASSUME TrainInv, NEW w \in TaskWorkers, NextTask(w)
  PROVE  TrainInv'
<1> PICK stale, waits, kept : /\ stale = Only(processing, aged) /\ waits = queue \o stale
                              /\ kept = Without(processing, aged)
  OBVIOUS
<1>1. UNCHANGED <<completed, InTheTrainer>>
  BY DEF NextTask
<1>2. stale \in Seq(1..queued) /\ waits \in Seq(1..queued) /\ kept \in Seq(1..queued)
  <2>1. stale \in Seq(1..queued)
    BY Before, OnlyProperties
  <2>2. waits \in Seq(1..queued)
    BY <2>1, Before
  <2> QED BY <2>1, <2>2, Before, WithoutTypes
<1>3. CASE waits # <<>> /\ queue' = Tail(waits)
           /\ processing' = Append(Without(kept, {Head(waits)}), Head(waits))
           /\ (workers' = [workers EXCEPT ![w] = [at |-> "fetch", task |-> Head(waits), called |-> FALSE]] \/ UNCHANGED workers)
  <2> PICK n \in Nat : n = queued
    BY Before
  <2>0. \A t : t \in 1..n => t \in 0..n
    OBVIOUS
  <2>1. Head(waits) \in 1..queued /\ queue' \in Seq(1..queued)
    <3>1. waits \in Seq(1..n) /\ waits # <<>>
      BY <1>2, <1>3
    <3>2. Head(waits) \in 1..n /\ Tail(waits) \in Seq(1..n)
      BY <3>1
    <3> QED BY <1>3, <3>2
  <2>2. Without(kept, {Head(waits)}) \in Seq(1..queued)
    BY <1>2, Before, WithoutTypes
  <2>3. processing' \in Seq(1..queued)
    <3>1. PICK front \in Seq(1..queued), t \in 1..queued : front = Without(kept, {Head(waits)}) /\ t = Head(waits)
      BY <2>1, <2>2
    <3>2. Append(front, t) \in Seq(1..queued)
      OBVIOUS
    <3> QED BY <1>3, <3>1, <3>2
  <2>4. \E x \in [at : Moments, task : 0..queued, called : BOOLEAN] :
          workers' = [workers EXCEPT ![w] = x] /\ (x.at = "post" /\ x.task \in batch => x.called)
    <3>1. CASE workers' = [workers EXCEPT ![w] = [at |-> "fetch", task |-> Head(waits), called |-> FALSE]]
      <4> DEFINE x == [at |-> "fetch", task |-> Head(waits), called |-> FALSE]
      <4>1. x \in [at : Moments, task : 0..queued, called : BOOLEAN] /\ x.at # "post"
        <5>1. Head(waits) \in 0..queued
          BY <2>0, <2>1
        <5> QED BY <5>1 DEF Moments
      <4> QED BY <3>1, <4>1
    <3>2. CASE UNCHANGED workers
      <4>1. workers' = [workers EXCEPT ![w] = workers[w]]
        BY <3>2, Before
      <4> QED BY <4>1, Before
    <3> QED BY <1>3, <3>1, <3>2
  <2> QED BY <1>1, <2>1, <2>3, <2>4, WorkerSteps
<1>4. CASE queue' = waits /\ processing' = kept /\ UNCHANGED workers
  <2>1. UNCHANGED done
    BY <1>1 DEF InTheTrainer
  <2>2. OnePerTask(completed)' /\ completed' \subseteq Results
    BY <1>1, Before DEF OnePerTask
  <2> QED BY <1>1, <1>2, <1>4, <2>1, <2>2, Before, WorkersPreserve
<1> QED BY <1>3, <1>4 DEF NextTask, Requeued

LEMMA RunnersPreserve ==
  ASSUME TrainInv, NEW w \in TaskWorkers, Fetch(w) \/ RunAgent(w) \/ Post(w) \/ Die(w)
  PROVE  TrainInv'
<1>1. CASE Fetch(w) \/ RunAgent(w) \/ Die(w)
  <2>1. UNCHANGED <<InTheTrainer, queue, processing, completed>>
    BY <1>1 DEF Fetch, RunAgent, Die, AtTheServer
  <2>2. \E x \in [at : Moments, task : 0..queued, called : BOOLEAN] :
          workers' = [workers EXCEPT ![w] = x] /\ (x.at = "post" /\ x.task \in batch => x.called)
    <3>1. CASE Fetch(w) /\ Goes(w, "work")
      <4> DEFINE x == [workers[w] EXCEPT !.at = "work"]
      <4>1. x \in [at : Moments, task : 0..queued, called : BOOLEAN] /\ x.at = "work"
        BY Before DEF Moments
      <4>2. workers' = [workers EXCEPT ![w] = x]
        BY <3>1, Before DEF Goes
      <4> QED BY <4>1, <4>2
    <3>2. CASE RunAgent(w)
      <4> DEFINE x == [at |-> "post", task |-> workers[w].task, called |-> addresses]
      <4>1. x \in [at : Moments, task : 0..queued, called : BOOLEAN] /\ (x.task \in batch => x.called)
        <5>1. workers[w].task \in 0..queued
          BY Before
        <5>2. addresses \in BOOLEAN /\ (batch # {} => addresses)
          BY DEF TrainInv, TrainTypes, CallsHadModel
        <5> QED BY <5>1, <5>2 DEF Moments
      <4>2. workers' = [workers EXCEPT ![w] = x]
        BY <3>2 DEF RunAgent, Proxied
      <4> QED BY <4>1, <4>2
    <3>3. CASE Polls(w) \/ Die(w)
      <4> PICK x : /\ x = [at |-> IF Polls(w) THEN "poll" ELSE "dead", task |-> None, called |-> FALSE]
        OBVIOUS
      <4>1. x \in [at : Moments, task : 0..queued, called : BOOLEAN] /\ x.at # "post"
        BY Before DEF Moments, None
      <4>2. workers' = [workers EXCEPT ![w] = x]
        BY <3>3 DEF Polls, Die
      <4> QED BY <4>1, <4>2
    <3> QED BY <1>1, <3>1, <3>2, <3>3 DEF Fetch
  <2> QED BY <2>1, <2>2, Before, WorkerSteps
<1>2. CASE Post(w)
  <2>1. UNCHANGED <<queue, InTheTrainer>> /\ workers[w].at = "post" /\ Polls(w)
    BY <1>2 DEF Post
  <2>2. CASE UNCHANGED <<processing, aged, completed>>
    <3> DEFINE x == [at |-> "poll", task |-> None, called |-> FALSE]
    <3>1. x \in [at : Moments, task : 0..queued, called : BOOLEAN] /\ workers' = [workers EXCEPT ![w] = x]
      BY <2>1, Before DEF Polls, Moments, None
    <3> QED BY <2>1, <2>2, <3>1, Before, WorkerSteps
  <2>3. CASE \E reward \in BOOLEAN :
               Store([task |-> workers[w].task, reward |-> reward, called |-> workers[w].called])
    BY <2>1, <2>3, StorePreserves
  <2> QED BY <1>2, <2>2, <2>3 DEF Post
<1> QED BY <1>1, <1>2

\* Every worker at once, and the timeouts of claims.
LEMMA RestPreserve ==
  ASSUME TrainInv, Spawn \/ Terminate \/ (\E t \in Tasks : Age(t))
  PROVE  TrainInv'
<1>1. UNCHANGED <<InTheTrainer, queue, processing, completed>>
  BY DEF Spawn, Terminate, Age, AtTheServer
<1>2. /\ workers' \in [TaskWorkers -> [at : Moments, task : 0..queued, called : BOOLEAN]]
      /\ \A w \in TaskWorkers :
           workers'[w].at = "post" /\ workers'[w].task \in batch => workers'[w].called
  <2>1. CASE Spawn \/ Terminate
    <3>1. \A v \in TaskWorkers : workers'[v].at # "post"
      BY <2>1 DEF Spawn, Terminate
    <3>2. PICK x : x \in [at : Moments, task : 0..queued, called : BOOLEAN] /\ workers' = [w \in TaskWorkers |-> x]
      <4>1. None \in 0..queued
        BY Before DEF None
      <4> QED BY <2>1, <4>1 DEF Spawn, Terminate, Moments
    <3>3. workers' \in [TaskWorkers -> [at : Moments, task : 0..queued, called : BOOLEAN]]
      BY <3>2
    <3> QED BY <3>1, <3>3
  <2>2. CASE UNCHANGED workers
    BY <2>2, Before
  <2> QED BY <2>1, <2>2 DEF Age
<1>3. UNCHANGED done /\ OnePerTask(completed)' /\ completed' \subseteq Results
  BY <1>1, Before DEF OnePerTask, InTheTrainer
<1> QED BY <1>1, <1>2, <1>3, Before, WorkersPreserve

\* The tasks of a batch are new: nobody has heard of them.
LEMMA SetUpPreserves ==
  ASSUME TrainInv, SetUp
  PROVE  TrainInv'
<1>1. CASE /\ daemon' = "failed" /\ UNCHANGED <<turn, training, batch, done, queued>>
           /\ UNCHANGED <<queue, addresses, processing, completed, workers>>
  BY <1>1 DEF TrainInv, TrainTypes, CallsHadModel, ResultsFit, OnePerTask, Results
<1>2. ASSUME NEW size \in Nat,
             /\ addresses' = TRUE /\ training' = (turn = "train")
             /\ batch' = (queued + 1)..(queued + size)
             /\ queue' = queue \o [i \in 1..size |-> queued + i]
             /\ queued' = queued + size
             /\ done' = {} /\ UNCHANGED <<turn, processing, completed, workers>>
      PROVE  TrainInv'
  <2> PICK n \in Nat, m \in Nat : n = queued /\ m = n + size
    BY Before
  <2>1. n = queued /\ queued' = m /\ n <= m /\ m \in Nat /\ 0..n \subseteq 0..m /\ 1..n \subseteq 1..m
    BY <1>2
  <2>2. queue' \in Seq(1..m) /\ processing' \in Seq(1..m)
    <3>1. queue \in Seq(1..m) /\ processing \in Seq(1..m)
      BY <2>1, Before
    <3>2. [i \in 1..size |-> n + i] \in Seq(1..m)
      BY <2>1
    <3> QED BY <1>2, <2>1, <3>1, <3>2
  <2>3. workers' \in [TaskWorkers -> [at : Moments, task : 0..m, called : BOOLEAN]]
    BY <1>2, <2>1, Before
  <2>4. completed' \subseteq Results' /\ done' \subseteq Results' /\ OnePerTask(completed)'
    BY <1>2, <2>1, Before DEF Results, OnePerTask
  <2>5. batch' \subseteq 1..m /\ \A t \in 0..n : t \notin batch'
    BY <1>2, <2>1
  <2>6. /\ \A w \in TaskWorkers : workers'[w].task \notin batch'
        /\ \A r \in completed' : r.task \notin batch'
    BY <1>2, <2>1, <2>5, Before DEF Results
  <2>7. TrainTypes'
    BY <1>2, <2>1, <2>2, <2>3, <2>4, <2>5 DEF TrainTypes
  <2>8. CallsHadModel' /\ ResultsFit'
    BY <1>2, <2>4, <2>6 DEF CallsHadModel, ResultsFit, OnePerTask
  <2> QED BY <1>2, <2>7, <2>8 DEF TrainInv
<1>3. (IF turn = "train" THEN RolloutN ELSE 1) \in Nat
  BY BatchAssumption
<1> QED BY <1>1, <1>2, <1>3 DEF SetUp, Fails

LEMMA CollectPreserves ==
  ASSUME TrainInv, Collect
  PROVE  TrainInv'
<1> PICK new : new = {r \in completed : Known(r) /\ \A d \in done : d.task # r.task}
  OBVIOUS
<1>1. /\ done' = done \cup new /\ completed' = {}
      /\ UNCHANGED <<turn, queue, processing, workers, addresses, training, batch, daemon, queued>>
  BY DEF Collect
<1>2. done' \subseteq Results
  BY <1>1, Before DEF TrainInv, TrainTypes
<1>3. \A d \in done' : d.task \in batch /\ d.called
  BY <1>1, Before DEF TrainInv, ResultsFit, Known
<1>4. OnePerTask(done)'
  BY <1>1, Before DEF TrainInv, ResultsFit, OnePerTask
<1>5. TrainTypes'
  BY <1>1, <1>2 DEF TrainInv, TrainTypes, Results
<1>6. CallsHadModel' /\ ResultsFit'
  BY <1>1, <1>3, <1>4 DEF TrainInv, CallsHadModel, ResultsFit, OnePerTask
<1> QED BY <1>1, <1>5, <1>6 DEF TrainInv

\* A turn that was read is forgotten; one that failed stays.
LEMMA TurnsPreserve ==
  ASSUME TrainInv, Start \/ TrainStep \/ Validate
  PROVE  TrainInv'
<1>1. /\ daemon' # "waiting"
      /\ UNCHANGED <<queue, processing, completed, workers, queued>>
      /\ UNCHANGED <<addresses, batch, done>> \/ (addresses' = FALSE /\ batch' = {} /\ done' = {})
  BY DEF Start, TrainStep, Validate, Read, Fails, AtTheServer
<1>2. TrainTypes'
  BY <1>1 DEF TrainInv, TrainTypes, Results
<1>3. CallsHadModel'
  BY <1>1 DEF TrainInv, CallsHadModel
<1>4. ResultsFit'
  BY <1>1 DEF TrainInv, ResultsFit, OnePerTask
<1> QED BY <1>1, <1>2, <1>3, <1>4 DEF TrainInv

LEMMA TrainSteps == TrainInv /\ [TrainNext]_trainVars => TrainInv'
<1> SUFFICES ASSUME TrainInv, [TrainNext]_trainVars PROVE TrainInv'
  OBVIOUS
<1>1. CASE UNCHANGED trainVars
  BY <1>1 DEF trainVars, TrainInv, TrainTypes, CallsHadModel, ResultsFit, OnePerTask, Results
<1>2. CASE Spawn \/ Terminate \/ (\E t \in Tasks : Age(t))
  BY <1>2, RestPreserve
<1>3. CASE SetUp
  BY <1>3, SetUpPreserves
<1>4. CASE Collect
  BY <1>4, CollectPreserves
<1>5. CASE Start \/ TrainStep \/ Validate
  BY <1>5, TurnsPreserve
<1>6. ASSUME NEW w \in TaskWorkers, Run(w) \/ Die(w)
      PROVE  TrainInv'
  BY <1>6, NextTaskPreserves, RunnersPreserve DEF Run
<1> QED BY <1>1, <1>2, <1>3, <1>4, <1>5, <1>6 DEF TrainNext

\* There are no more results than tasks: each result has a task of its own.
LEMMA NoMoreResults ==
  ASSUME TrainInv
  PROVE  Cardinality(done) <= Cardinality(batch)
<1> DEFINE f == [d \in done |-> d.task]
<1>1. IsFiniteSet(batch)
  <2>1. batch \in SUBSET (1..queued) /\ 1 \in Int /\ queued \in Int
    BY DEF TrainInv, TrainTypes
  <2>2. IsFiniteSet(1..queued)
    BY <2>1, FS_Interval
  <2> QED BY <2>1, <2>2, FS_Subset
<1>2. f \in Injection(done, batch)
  BY DEF TrainInv, ResultsFit, OnePerTask, Injection, IsInjective
<1> QED BY <1>1, <1>2, FS_Injection

\* What a turn of training or validation collects is its own, in number too,
\* and no call of it went without a model, whatever workers, faults, timeouts
\* and plans there are.  verl/daemon.py, _async_run_until_finished.
THEOREM BatchOwn == TrainSpec => []BatchIsItsOwn
<1>1. TrainInv => BatchIsItsOwn
  <2> SUFFICES ASSUME TrainInv PROVE BatchIsItsOwn
    OBVIOUS
  <2>1. {d.task : d \in done} \subseteq batch /\ \A d \in done : d.called
    BY DEF TrainInv, ResultsFit
  <2> QED BY <2>1, NoMoreResults DEF BatchIsItsOwn, TrainInv
<1> QED BY <1>1, TrainStarts, TrainSteps, PTL DEF TrainSpec

-----------------------------------------------------------------------------
(* TrainBatch.  The tokens of a row are without a gap, so the one with the *)
(* highest position is the last of the response.                           *)

Tokens == Nat \ {Pad}

LEMMA MinOfTwo ==
  ASSUME NEW a \in Int, NEW b \in Int
  PROVE  Min({a, b}) = IF a <= b THEN a ELSE b
<1>1. PICK m \in {a, b} : m = IF a <= b THEN a ELSE b
  OBVIOUS
<1>2. \A y \in {a, b} : m <= y
  BY <1>1
<1>3. \A x \in {a, b} : (\A y \in {a, b} : x <= y) => x = m
  BY <1>1
<1> QED BY <1>1, <1>2, <1>3 DEF Min

LEMMA MaxWithZero ==
  ASSUME NEW n \in Nat
  PROVE  Max({0, n}) = n
<1>1. \A x \in {0, n} : (\A y \in {0, n} : x >= y) => x = n
  OBVIOUS
<1>2. \A y \in {0, n} : n >= y
  OBVIOUS
<1> QED BY <1>1, <1>2 DEF Max

LEMMA PadsAre ==
  ASSUME NEW k \in Nat
  PROVE  /\ [i \in 1..k |-> Pad] \in Seq(Nat) /\ Len([i \in 1..k |-> Pad]) = k
         /\ \A i \in 1..k : [j \in 1..k |-> Pad][i] = Pad
<1>1. Pad \in Nat
  BY DEF Pad
<1>2. [i \in 1..k |-> Pad] \in [1..k -> Nat]
  BY <1>1
<1> QED BY <1>2

LEMMA BothParts ==
  ASSUME NEW T, NEW s \in Seq(T), NEW t \in Seq(T)
  PROVE  /\ s \o t \in Seq(T) /\ Len(s \o t) = Len(s) + Len(t)
         /\ \A i \in 1..(Len(s) + Len(t)) : (s \o t)[i] = IF i <= Len(s) THEN s[i] ELSE t[i - Len(s)]
BY ConcatProperties

\* A prompt: padding, then the tokens that are left of it.
LEMMA PromptPadded ==
  ASSUME NEW ids \in Seq(Tokens), NEW length \in Nat \ {0}, ids # <<>>
  PROVE  /\ LeftPadded(Cut(ids, length), length) \in Seq(Nat)
         /\ Len(LeftPadded(Cut(ids, length), length)) = length
         /\ \E p \in 1..length : \A i \in 1..length : LeftPadded(Cut(ids, length), length)[i] # Pad <=> i > length - p
<1>n. PICK n \in Nat : n = Len(ids)
  OBVIOUS
<1>m. PICK m \in 1..length : m <= n /\ Min({Len(ids), length}) = m
  <2>1. n >= 1 /\ n \in Int /\ length \in Int
    BY <1>n
  <2>2. Min({n, length}) = IF n <= length THEN n ELSE length
    BY <2>1, MinOfTwo
  <2> QED BY <1>n, <2>1, <2>2
<1>c. PICK c : c = Cut(ids, length)
  OBVIOUS
<1>1. c \in Seq(Tokens) /\ Len(c) = m /\ \A i \in 1..m : c[i] \in Tokens
  <2>1. c = SubSeq(ids, 1, m)
    <3>1. c = SubSeq(ids, 1, Min({Len(ids), length}))
      BY <1>c, Zenon DEF Cut
    <3> QED BY <1>m, <3>1
  <2> QED BY <1>n, <1>m, <2>1
<1>2. \A x \in Tokens : x \in Nat /\ x # Pad
  BY DEF Tokens
<1>x. PICK x : x = LeftPadded(c, length)
  OBVIOUS
<1>3. CASE m >= length
  <2>1. m = length /\ x = SubSeq(c, 1, length)
    BY <1>1, <1>3, <1>x DEF LeftPadded
  <2>2. Len(x) = length /\ \A i \in 1..length : x[i] = c[i]
    BY <1>1, <2>1
  <2>3. x \in Seq(Nat)
    BY <1>1, <1>2, <2>1, <2>2
  <2>4. \A i \in 1..length : x[i] # Pad <=> i > length - length
    BY <1>1, <1>2, <2>1, <2>2
  <2>5. \E p \in 1..length : \A i \in 1..length : x[i] # Pad <=> i > length - p
    <3>1. length \in 1..length
      OBVIOUS
    <3> QED BY <2>4, <3>1
  <2> QED BY <1>c, <1>x, <2>2, <2>3, <2>5
<1>4. CASE ~(m >= length)
  <2>1. PICK k \in Nat : k = length - m
    BY <1>4
  <2>2. PICK pads \in Seq(Nat) : pads = [i \in 1..k |-> Pad] /\ Len(pads) = k /\ \A i \in 1..k : pads[i] = Pad
    BY PadsAre
  <2>3. x = pads \o c
    BY <1>1, <1>4, <1>x, <2>1, <2>2 DEF LeftPadded
  <2>4. c \in Seq(Nat)
    BY <1>1, <1>2
  <2>5. /\ pads \o c \in Seq(Nat) /\ Len(pads \o c) = k + m
        /\ \A i \in 1..(k + m) : (pads \o c)[i] = IF i <= k THEN pads[i] ELSE c[i - k]
    <3>1. PICK T : T = Nat
      OBVIOUS
    <3>2. pads \in Seq(T) /\ c \in Seq(T) /\ m \in Nat
      BY <2>4, <3>1
    <3>3. Len(pads) = k /\ Len(c) = m
      BY <1>1, <2>2
    <3>4. /\ pads \o c \in Seq(T) /\ Len(pads \o c) = Len(pads) + Len(c)
          /\ \A i \in 1..(Len(pads) + Len(c)) : (pads \o c)[i] = IF i <= Len(pads) THEN pads[i] ELSE c[i - Len(pads)]
      BY <3>2, BothParts
    <3> QED BY <3>1, <3>3, <3>4, Zenon
  <2>6. k + m = length
    BY <2>1
  <2>7. \A i \in 1..length : x[i] # Pad <=> i > length - m
    <3> SUFFICES ASSUME NEW i \in 1..length PROVE x[i] # Pad <=> i > k
      BY <2>1
    <3>1. x[i] = IF i <= k THEN pads[i] ELSE c[i - k]
      BY <2>3, <2>5, <2>6
    <3>2. CASE i <= k
      BY <2>2, <3>1, <3>2
    <3>3. CASE ~(i <= k)
      <4>1. i - k \in 1..m /\ x[i] = c[i - k]
        BY <2>6, <3>1, <3>3
      <4> QED BY <1>1, <1>2, <3>3, <4>1
    <3> QED BY <3>2, <3>3
  <2> QED BY <1>c, <1>x, <2>3, <2>5, <2>6, <2>7
<1> QED BY <1>3, <1>4

\* A response: the tokens that are left of it, then padding.
LEMMA ResponsePadded ==
  ASSUME NEW ids \in Seq(Tokens), NEW length \in Nat \ {0}, ids # <<>>
  PROVE  /\ RightPadded(Cut(ids, length), length) \in Seq(Nat)
         /\ Len(RightPadded(Cut(ids, length), length)) = length
         /\ Min({Len(ids), length}) \in 1..length
         /\ \A i \in 1..length : RightPadded(Cut(ids, length), length)[i] # Pad <=> i <= Min({Len(ids), length})
<1>n. PICK n \in Nat : n = Len(ids)
  OBVIOUS
<1>m. PICK m \in 1..length : m <= n /\ Min({Len(ids), length}) = m
  <2>1. n >= 1 /\ n \in Int /\ length \in Int
    BY <1>n
  <2>2. Min({n, length}) = IF n <= length THEN n ELSE length
    BY <2>1, MinOfTwo
  <2> QED BY <1>n, <2>1, <2>2
<1>c. PICK c : c = Cut(ids, length)
  OBVIOUS
<1>1. c \in Seq(Tokens) /\ Len(c) = m /\ \A i \in 1..m : c[i] \in Tokens
  <2>1. c = SubSeq(ids, 1, m)
    <3>1. c = SubSeq(ids, 1, Min({Len(ids), length}))
      BY <1>c, Zenon DEF Cut
    <3> QED BY <1>m, <3>1
  <2> QED BY <1>n, <1>m, <2>1
<1>2. \A x \in Tokens : x \in Nat /\ x # Pad
  BY DEF Tokens
<1>x. PICK x : x = RightPadded(c, length)
  OBVIOUS
<1>3. CASE m >= length
  <2>1. m = length /\ x = SubSeq(c, 1, length)
    BY <1>1, <1>3, <1>x DEF RightPadded
  <2>2. Len(x) = length /\ \A i \in 1..length : x[i] = c[i]
    BY <1>1, <2>1
  <2>3. x \in Seq(Nat)
    BY <1>1, <1>2, <2>1, <2>2
  <2>4. \A i \in 1..length : x[i] # Pad <=> i <= m
    BY <1>1, <1>2, <2>1, <2>2
  <2> QED BY <1>m, <1>c, <1>x, <2>2, <2>3, <2>4
<1>4. CASE ~(m >= length)
  <2>1. PICK k \in Nat : k = length - m
    BY <1>4
  <2>2. PICK pads \in Seq(Nat) : pads = [i \in 1..k |-> Pad] /\ Len(pads) = k /\ \A i \in 1..k : pads[i] = Pad
    BY PadsAre
  <2>3. x = c \o pads
    BY <1>1, <1>4, <1>x, <2>1, <2>2 DEF RightPadded
  <2>4. c \in Seq(Nat)
    BY <1>1, <1>2
  <2>5. /\ c \o pads \in Seq(Nat) /\ Len(c \o pads) = m + k
        /\ \A i \in 1..(m + k) : (c \o pads)[i] = IF i <= m THEN c[i] ELSE pads[i - m]
    <3>1. PICK T : T = Nat
      OBVIOUS
    <3>2. pads \in Seq(T) /\ c \in Seq(T) /\ m \in Nat
      BY <2>4, <3>1
    <3>3. Len(c) = m /\ Len(pads) = k
      BY <1>1, <2>2
    <3>4. /\ c \o pads \in Seq(T) /\ Len(c \o pads) = Len(c) + Len(pads)
          /\ \A i \in 1..(Len(c) + Len(pads)) : (c \o pads)[i] = IF i <= Len(c) THEN c[i] ELSE pads[i - Len(c)]
      BY <3>2, BothParts
    <3> QED BY <3>1, <3>3, <3>4, Zenon
  <2>6. m + k = length
    BY <2>1
  <2>7. \A i \in 1..length : x[i] # Pad <=> i <= m
    <3> TAKE i \in 1..length
    <3>1. x[i] = IF i <= m THEN c[i] ELSE pads[i - m]
      BY <2>3, <2>5, <2>6
    <3>2. CASE i <= m
      BY <1>1, <1>2, <3>1, <3>2
    <3>3. CASE ~(i <= m)
      <4>1. i - m \in 1..k /\ x[i] = pads[i - m]
        BY <2>6, <3>1, <3>3
      <4> QED BY <2>2, <3>3, <4>1
    <3> QED BY <3>2, <3>3
  <2> QED BY <1>m, <1>c, <1>x, <2>3, <2>5, <2>6, <2>7
<1> QED BY <1>3, <1>4

\* Two tokens or more without a gap: the highest position is the last one's.
LEMMA LastTokenIs ==
  ASSUME NEW row \in Seq(Nat), NEW lo \in Nat, NEW hi \in Nat, 1 <= lo, lo < hi, hi <= Len(row),
         \A i \in 1..Len(row) : row[i] # Pad <=> lo <= i /\ i <= hi
  PROVE  LastToken(row) = hi
<1>n. PICK n \in Nat : n = Len(row) /\ DOMAIN row = 1..n
  OBVIOUS
<1>1. \A i \in lo..hi : Positions(row)[i] = i - lo
  <2> TAKE i \in lo..hi
  <2>1. i \in 1..n /\ i \in Int /\ lo \in Int /\ i - lo \in Nat
    BY <1>n
  <2>2. {j \in 1..i : row[j] # Pad} = lo..i
    BY <1>n, <2>1
  <2>3. Cardinality(lo..i) = i - lo + 1
    <3>1. Cardinality(lo..i) = IF lo > i THEN 0 ELSE i - lo + 1
      BY <2>1, FS_Interval
    <3> QED BY <3>1
  <2>4. Positions(row)[i] = Max({0, Cardinality({j \in 1..i : row[j] # Pad}) - 1})
    BY <1>n, <2>1 DEF Positions
  <2>5. Positions(row)[i] = Max({0, i - lo})
    <3>1. PICK k \in Int : k = Cardinality({j \in 1..i : row[j] # Pad}) /\ k = i - lo + 1
      <4>1. i - lo + 1 \in Int
        BY <2>1
      <4>2. Cardinality({j \in 1..i : row[j] # Pad}) = i - lo + 1
        BY <2>2, <2>3
      <4> QED BY <4>1, <4>2, Zenon
    <3>2. Positions(row)[i] = Max({0, k - 1})
      BY <2>4, <3>1
    <3>3. k - 1 = i - lo
      BY <2>1, <3>1
    <3> QED BY <3>2, <3>3
  <2> QED BY <2>1, <2>5, MaxWithZero
<1> DEFINE at == [i \in DOMAIN row |-> IF row[i] = Pad THEN 0 ELSE Positions(row)[i]]
<1>2. \A i \in 1..n : at[i] = IF lo <= i /\ i <= hi THEN i - lo ELSE 0
  BY <1>1, <1>n
<1>3. LastToken(row) = CHOOSE i \in 1..n : \A j \in 1..n : at[j] < at[i] \/ (at[j] = at[i] /\ i <= j)
  BY <1>n DEF LastToken
<1> HIDE DEF at
<1>4. hi \in 1..n /\ \A j \in 1..n : j # hi => at[j] < at[hi]
  BY <1>2, <1>n
<1>5. \A j \in 1..n : at[j] \in Int
  BY <1>2
<1>6. \A i \in 1..n : (\A j \in 1..n : at[j] < at[i] \/ (at[j] = at[i] /\ i <= j)) <=> i = hi
  BY <1>4, <1>5
<1> QED BY <1>3, <1>4, <1>6

\* Whatever the lengths of a prompt and a response, cut or padded: the reward of
\* the rollout is at the last token of the response that is kept, and only
\* there.  verl/daemon.py, get_train_data_batch.
THEOREM RewardAtTheEnd ==
  ASSUME NEW rollout, NEW r, NEW t, NEW fill, NEW maxPrompt \in Nat \ {0}, NEW maxResponse \in Nat \ {0},
         rollout.turns[t].prompt \in Seq(Tokens) \ {<<>>},
         rollout.turns[t].response \in Seq(Tokens) \ {<<>>}
  PROVE  Row(r, t, rollout, fill, maxPrompt, maxResponse).scores
         = [k \in 1..maxResponse |->
              IF k = Min({Len(rollout.turns[t].response), maxResponse}) THEN Filled(rollout, fill) ELSE 0]
<1>p. PICK prompt \in Seq(Tokens) : prompt = rollout.turns[t].prompt /\ prompt # <<>>
  OBVIOUS
<1>r. PICK response \in Seq(Tokens) : response = rollout.turns[t].response /\ response # <<>>
  OBVIOUS
<1>x. PICK x : x = LeftPadded(Cut(prompt, maxPrompt), maxPrompt)
  OBVIOUS
<1>y. PICK y : y = RightPadded(Cut(response, maxResponse), maxResponse)
  OBVIOUS
<1>q. PICK q : q = Min({Len(response), maxResponse})
  OBVIOUS
<1>1. x \in Seq(Nat) /\ Len(x) = maxPrompt /\ \E p \in 1..maxPrompt : \A i \in 1..maxPrompt : x[i] # Pad <=> i > maxPrompt - p
  BY <1>p, <1>x, PromptPadded
<1>2. /\ y \in Seq(Nat) /\ Len(y) = maxResponse /\ q \in 1..maxResponse
      /\ \A i \in 1..maxResponse : y[i] # Pad <=> i <= q
  BY <1>r, <1>y, <1>q, ResponsePadded
<1>3. PICK p \in 1..maxPrompt : \A i \in 1..maxPrompt : x[i] # Pad <=> i > maxPrompt - p
  BY <1>1
<1>4. PICK row : row = x \o y
  OBVIOUS
<1>5. /\ row \in Seq(Nat) /\ Len(row) = maxPrompt + maxResponse
      /\ \A i \in 1..(maxPrompt + maxResponse) : row[i] = IF i <= maxPrompt THEN x[i] ELSE y[i - maxPrompt]
  <2>1. PICK T : T = Nat
    OBVIOUS
  <2>2. x \in Seq(T) /\ y \in Seq(T)
    BY <1>1, <1>2, <2>1
  <2>3. maxPrompt \in Nat /\ maxResponse \in Nat /\ Len(x) = maxPrompt /\ Len(y) = maxResponse
    BY <1>1, <1>2
  <2>4. /\ x \o y \in Seq(T) /\ Len(x \o y) = Len(x) + Len(y)
        /\ \A i \in 1..(Len(x) + Len(y)) : (x \o y)[i] = IF i <= Len(x) THEN x[i] ELSE y[i - Len(x)]
    BY <2>2, BothParts
  <2> QED BY <1>4, <2>1, <2>3, <2>4, Zenon
<1>6. LastToken(row) = maxPrompt + q
  <2>1. PICK lo \in Nat, hi \in Nat : lo = maxPrompt - p + 1 /\ hi = maxPrompt + q
    BY <1>2
  <2>2. 1 <= lo /\ lo < hi /\ hi <= Len(row)
    BY <1>2, <1>5, <2>1
  <2>3. \A i \in 1..Len(row) : row[i] # Pad <=> lo <= i /\ i <= hi
    <3> SUFFICES ASSUME NEW i \in 1..(maxPrompt + maxResponse)
                 PROVE  row[i] # Pad <=> lo <= i /\ i <= hi
      BY <1>5
    <3>1. CASE i <= maxPrompt
      <4>1. row[i] = x[i] /\ i \in 1..maxPrompt
        BY <1>5, <3>1
      <4>2. x[i] # Pad <=> i > maxPrompt - p
        BY <1>3, <4>1
      <4> QED BY <1>2, <2>1, <3>1, <4>1, <4>2
    <3>2. CASE i > maxPrompt
      <4>1. row[i] = y[i - maxPrompt] /\ i - maxPrompt \in 1..maxResponse
        BY <1>5, <3>2
      <4>2. y[i - maxPrompt] # Pad <=> i - maxPrompt <= q
        BY <1>2, <4>1
      <4> QED BY <1>2, <2>1, <3>2, <4>1, <4>2
    <3> QED BY <3>1, <3>2
  <2>4. LastToken(row) = hi
    BY <1>5, <2>2, <2>3, LastTokenIs
  <2> QED BY <2>1, <2>4
<1>7. Row(r, t, rollout, fill, maxPrompt, maxResponse).scores
      = [i \in 1..maxResponse |-> IF maxPrompt + i = LastToken(row) THEN Filled(rollout, fill) ELSE 0]
  BY <1>p, <1>r, <1>x, <1>y, <1>4 DEF Row
<1>8. \A i \in 1..maxResponse : maxPrompt + i = maxPrompt + q <=> i = q
  BY <1>2
<1> QED BY <1>r, <1>q, <1>6, <1>7, <1>8
=============================================================================
