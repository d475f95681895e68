----------------------------- MODULE Execution -----------------------------
(***************************************************************************)
(* Trainer.fit: an ExecutionStrategy runs one algorithm bundle and several *)
(* runner bundles and brings them down again.  SharedMemory runs them in   *)
(* threads, ClientServer in processes with the store behind a server of    *)
(* the algorithm's process.  One of the bundles runs in the main thread or *)
(* process (or, with role "runner", none does).                            *)
(***************************************************************************)
EXTENDS Runner

CONSTANTS
  Strategies,    \* records [kind, main]: kind "threads" or "processes";
                 \* main "algorithm", "runner" or, for role "runner", "none"
  MaxInterrupts  \* bound on the SIGINTs of the main process

Algorithm == "algorithm"
Bundles == Runners \cup {Algorithm}

VARIABLES
  strategy,     \* rigid
  deaf,         \* rigid: a bundle of a thread or child process that never
                \* comes back from the code it runs, or {}
  hardened,     \* rigid: that bundle's process ignores SIGTERM too
  alg,          \* the algorithm bundle: "off", "running", "over"
  main,         \* where execute is
  exceptions,   \* bundles in thread_exceptions, or exit codes other than 0 and -15
  interrupts,   \* SIGINTs of the main process so far
  raising       \* execute has an exception to raise
svars == <<strategy, deaf, hardened>>
evars == <<svars, alg, main, exceptions, interrupts, raising>>
vars == <<stop, served, outcome, cancelled, rvars, evars>>

Interrupted == interrupts > 0

Threads == strategy.kind = "threads"
Active == IF strategy.main = "runner" THEN {CHOOSE w \in Runners : TRUE} ELSE Runners
MainBundle ==
  CASE strategy.main = "algorithm" -> {Algorithm}
    [] strategy.main = "runner" -> Active
    [] strategy.main = "none" -> {}
Children == (Active \cup (IF strategy.main = "none" THEN {} ELSE {Algorithm})) \ MainBundle

Over(b) == IF b = Algorithm THEN alg # "running" ELSE pc[b] = "over"
Alive(bundles) == {b \in bundles : ~Over(b)}

Init ==
  /\ strategy \in Strategies
  /\ \/ deaf = {}
     \/ \E b \in Children : deaf = {b}
  /\ hardened \in IF Threads \/ deaf = {} THEN {FALSE} ELSE BOOLEAN
  /\ RunnerInit
  /\ pc = [w \in Runners |-> IF w \in Active THEN "loop" ELSE "over"]
  /\ alg = IF strategy.main = "none" THEN "off" ELSE "running"
  /\ outcome = [b \in Bundles |-> "ok"]
  /\ main = IF strategy.main = "none" THEN "join" ELSE "bundle"
  /\ exceptions = {} /\ interrupts = 0 /\ raising = FALSE

-----------------------------------------------------------------------------
(* The bundles. *)

\* A deaf runner never comes back from its agent, a deaf algorithm from run().
RunnerStep(w) ==
  /\ Steps(w)
  /\ ~(w \in deaf /\ pc[w] = "agent")
  /\ UNCHANGED evars

RunnerCancelled(w) == RunnerStep(w) /\ w \in cancelled /\ w \notin cancelled'

RunnerFails(w) == LoopFails(w) /\ UNCHANGED evars

\* Threads call the store itself; processes call it over HTTP.
AnswersLost ==
  /\ ~Threads
  /\ (\E w \in Runners : AnswerLost(w)) \/ (\E r \in Rollouts : ClaimUnheard(r))
  /\ UNCHANGED evars

\* Algorithm.run returns; it is not told of the event.
AlgorithmReturns ==
  /\ alg = "running" /\ Algorithm \notin deaf
  /\ alg' = "over"
  /\ served' = Threads             \* _execute_algorithm stops its server
  /\ UNCHANGED <<stop, outcome, cancelled, rvars, svars, main, exceptions, interrupts, raising>>

\* What the wrappers of the bundles do to the event: _run_algorithm and
\* _run_runner (threads) pass over a cancellation, _execute_algorithm and
\* _execute_runner (processes) do not.
StopAfter(how) == stop \/ how = "crashed" \/ (how = "cancelled" /\ ~Threads)

\* Threads: thread_exceptions (the main thread's exception is raised as it
\* is).  Processes: the exit code; a SIGINT ends in exit code 0.
Recorded(b, how) == IF how = "crashed" /\ b \in Children THEN {b} ELSE {}

AlgorithmFails ==
  /\ alg = "running" /\ Algorithm \notin deaf
  /\ alg' = "over" /\ outcome' = [outcome EXCEPT ![Algorithm] = "crashed"]
  /\ served' = Threads /\ stop' = StopAfter("crashed")
  /\ exceptions' = exceptions \cup Recorded(Algorithm, "crashed")
  /\ UNCHANGED <<cancelled, rvars, svars, main, interrupts, raising>>

AlgorithmCancelled ==
  /\ alg = "running" /\ Algorithm \in cancelled \ deaf
  /\ alg' = "over" /\ outcome' = [outcome EXCEPT ![Algorithm] = "cancelled"]
  /\ cancelled' = cancelled \ {Algorithm}
  /\ served' = Threads /\ stop' = StopAfter("cancelled")
  /\ UNCHANGED <<rvars, svars, main, exceptions, interrupts, raising>>

\* iter's finally stops the heartbeat; _runner_bundle tears the runner down.
RunnerEnds(w) ==
  /\ pc[w] = "ending"
  /\ pc' = [pc EXCEPT ![w] = "over"]
  /\ stop' = StopAfter(outcome[w])
  /\ exceptions' = exceptions \cup Recorded(w, outcome[w])
  /\ cancelled' = cancelled \ {w}
  /\ UNCHANGED <<served, outcome, waiting, attempt, job, failed, count, truth,
                 svars, alg, main, interrupts, raising>>

\* _run_until_completed_or_canceled: the event is set and the grace is over.
Watch(b) ==
  /\ Threads /\ stop /\ ~Over(b) /\ b \notin cancelled
  /\ (b \in Runners => pc[b] # "ending")
  /\ cancelled' = cancelled \cup {b}
  /\ UNCHANGED <<stop, served, outcome, rvars, evars>>

-----------------------------------------------------------------------------
(* execute. *)

MainIs(now) == main' = now
SignalTo(bundles) == cancelled' = cancelled \cup Alive(bundles)
Unwind == IF Threads THEN "finally" ELSE "cooperate"

\* The main bundle is over and it was the algorithm: the runners are asked to
\* stop.  If it was a runner nobody is.
StopAtEnd == stop \/ strategy.main = "algorithm"

MainBundleOver ==
  /\ main = "bundle" /\ Alive(MainBundle) = {}
  /\ LET crashed == \E b \in MainBundle : outcome[b] = "crashed"
     IN IF Interrupted \/ crashed
        THEN stop' = TRUE /\ raising' = crashed /\ MainIs(Unwind)
        ELSE /\ stop' = StopAtEnd /\ raising' = raising
             /\ MainIs(IF strategy.main = "runner" THEN "join" ELSE Unwind)
  /\ UNCHANGED <<served, outcome, cancelled, rvars, svars, alg, exceptions, interrupts>>

\* thread.join() and process.join() without a timeout.
Joined ==
  /\ main = "join" /\ Alive(Children) = {}
  /\ MainIs(Unwind)
  /\ UNCHANGED <<stop, served, outcome, cancelled, rvars, svars, alg, exceptions, interrupts, raising>>

\* The finally of execute: the joins of threads, _shutdown_processes.
ShuttingDown == main \in {"finally", "cooperate", "sigint", "terminate", "kill"}

\* Ctrl+C in the terminal or SIGINT to the main process: it cancels the main
\* bundle or breaks the join.  During the shutdown the KeyboardInterrupt breaks
\* a join again and leaves execute.  Children get it from the terminal.
Interrupt(hit) ==
  /\ interrupts < MaxInterrupts
  /\ interrupts' = interrupts + 1
  /\ SignalTo((IF main = "bundle" THEN MainBundle ELSE {}) \cup hit)
  /\ \/ main = "bundle" /\ stop' = stop /\ main' = main
     \/ main = "join" /\ stop' = TRUE /\ MainIs(Unwind)
     \/ ShuttingDown /\ stop' = stop /\ MainIs("left")
  /\ UNCHANGED <<served, outcome, rvars, svars, alg, exceptions, raising>>

\* Mutants: join without a timeout; SIGINT is the last word.
PatienceForever == FALSE
NextOfInt(phase) == CASE phase = "cooperate" -> "sigint" [] OTHER -> "check"

\* join(timeout) and _join_until_deadline run into their timeouts.
Patience == Alive(Children) # {}

\* The 4 steps of _shutdown_processes.
NextOf(phase) ==
  CASE phase = "cooperate" -> "sigint" [] phase = "sigint" -> "terminate"
    [] phase = "terminate" -> "kill"

\* terminate() ends a process with -15, kill() with -9.
Killed(victims) ==
  /\ pc' = [w \in Runners |-> IF w \in victims THEN "over" ELSE pc[w]]
  /\ truth' = [r \in Rollouts |->
                 IF \E w \in victims \cap Runners : job[w] = r /\ pc[w] \in {"claimed", "resources", "agent", "report"}
                 THEN "killed" ELSE truth[r]]
  /\ alg' = IF Algorithm \in victims THEN "over" ELSE alg
  /\ served' = (served /\ Algorithm \notin victims)
  /\ outcome' = [b \in Bundles |-> IF b \in victims THEN "killed" ELSE outcome[b]]
  /\ cancelled' = cancelled \ victims
  /\ UNCHANGED <<waiting, attempt, job, failed, count>>

Escalate ==
  /\ main \in {"cooperate", "sigint", "terminate"} /\ Patience
  /\ stop' = TRUE
  /\ MainIs(NextOf(main))
  /\ CASE main = "cooperate" ->
            SignalTo(Children) /\ exceptions' = exceptions /\ UNCHANGED <<served, outcome, rvars, alg>>
       [] main = "sigint" ->
            /\ Killed(Alive(Children) \ (IF hardened THEN deaf ELSE {}))
            /\ exceptions' = exceptions
       [] main = "terminate" ->
            Killed(Alive(Children)) /\ exceptions' = exceptions \cup Alive(Children)
  /\ UNCHANGED <<svars, interrupts, raising>>

ChildrenOver ==
  /\ main \in {"cooperate", "sigint", "terminate", "kill"} /\ Alive(Children) = {}
  /\ MainIs("check") /\ stop' = (stop \/ Children # {})
  /\ UNCHANGED <<served, outcome, cancelled, rvars, svars, alg, exceptions, interrupts, raising>>

\* _check_process_exitcodes, unless another failure is on its way.
Check ==
  /\ main = "check"
  /\ MainIs(IF raising \/ (exceptions # {} /\ ~Interrupted) THEN "raised" ELSE "returned")
  /\ UNCHANGED <<stop, served, outcome, cancelled, rvars, svars, alg, exceptions, interrupts, raising>>

\* join(timeout) of every thread; daemons that do not comply are left behind.
Finally ==
  /\ main = "finally" /\ (Alive(Children) = {} \/ Patience)
  /\ MainIs(IF raising \/ exceptions # {} THEN "raised" ELSE "returned")
  /\ UNCHANGED <<stop, served, outcome, cancelled, rvars, svars, alg, exceptions, interrupts, raising>>

\* The operating system kills a child: nobody sets the event.
Dies(w) ==
  /\ ~Threads /\ w \in Alive(Children) \cap Runners /\ main \in {"bundle", "join"}
  /\ Killed({w}) /\ exceptions' = exceptions \cup {w}
  /\ UNCHANGED <<stop, svars, main, interrupts, raising>>

-----------------------------------------------------------------------------
Execute == MainBundleOver \/ Joined \/ Escalate \/ ChildrenOver \/ Check \/ Finally
AlgorithmEnds == AlgorithmFails \/ AlgorithmCancelled

Next ==
  \/ \E w \in Runners : RunnerStep(w) \/ RunnerFails(w) \/ RunnerEnds(w) \/ Dies(w)
  \/ AnswersLost
  \/ AlgorithmReturns \/ AlgorithmEnds
  \/ \E b \in Bundles : Watch(b)
  \/ \E hit \in {{}} \cup (IF Threads THEN {} ELSE {Children}) : Interrupt(hit)
  \/ Execute

\* Threads and processes run; agents come back unless deaf.  Nothing makes the
\* algorithm return.
Fairness ==
  /\ \A w \in Runners : WF_vars(RunnerStep(w)) /\ WF_vars(RunnerEnds(w))
                        /\ SF_vars(RunnerCancelled(w))
  /\ WF_vars(AlgorithmCancelled)
  /\ \A b \in Bundles : WF_vars(Watch(b))
  /\ WF_vars(Execute)

SafetySpec == Init /\ [][Next]_vars
Spec == SafetySpec /\ Fairness

-----------------------------------------------------------------------------
Ended == main \in {"returned", "raised", "left"}
AtWork(w) == pc[w] \in {"claimed", "resources", "agent", "report"}

\* No attempt is forgotten: one that was claimed and not reported is a runner's,
\* or was skipped for want of resources, or its report failed, or its runner
\* was cancelled, crashed or killed at it, or the answer to the claim was lost.
NoAttemptForgotten ==
  \A r \in Rollouts : attempt[r] = "preparing" =>
    \/ \E w \in Runners : job[w] = r /\ AtWork(w)
    \/ truth[r] \in {"skipped", "given up", "cancelled", "crashed", "killed", "unanswered"}

\* ClientServer leaves no process behind, whatever it ignores, unless a SIGINT
\* breaks the shutdown itself: that execute leaves at once (client_server.py
\* 431-433, 273-283).
NoProcessLeft == ~Threads /\ Ended /\ main # "left" => Alive(Children) = {}
=============================================================================
