--------------------------- MODULE ServerLauncher ---------------------------
(***************************************************************************)
(* PythonServerLauncher: one coroutine starts, stops, reloads or runs a    *)
(* server, as a task of its own loop (asyncio), in a thread, in a process, *)
(* or under Gunicorn.  In the other place a watcher waits for the server   *)
(* to start, probes its health and posts one event, and the launcher waits *)
(* twice as long for that event.  uvicorn and Gunicorn are external: they  *)
(* start or fail to, serve requests, and close when the last is answered.  *)
(***************************************************************************)
EXTENDS Integers, Sequences, FiniteSets

CONSTANTS
  Modes,       \* launch modes: "asyncio", "thread", "mp", "gunicorn" (mp with workers)
  MaxStarts,   \* bound on the servers started
  MaxFaults    \* bound on crashes

ASSUME LauncherAssumption ==
  Modes \subseteq {"asyncio", "thread", "mp", "gunicorn"} /\ MaxStarts \in Nat /\ MaxFaults \in Nat

VARIABLES
  args,      \* [mode, probe (a health URL is configured), kill (kill_unhealthy_server)]
  running,   \* _is_running
  held,      \* the server of _uvicorn_task, _thread or _proc; 0 for None
  servers,   \* of each start: records [phase, host, watch, event, told, healthy, open]
  call,      \* what the launcher's caller is in: [op, at, next]
  result,    \* how the last call ended
  faults
vars == <<args, running, held, servers, call, result, faults>>

NoCall == [op |-> "none", at |-> "none", next |-> "none"]
New == [phase |-> "starting",   \* of uvicorn: "starting", "up", "closing", "gone"
        host |-> "alive",       \* of the thread or process around it
        watch |-> "start",      \* of the watcher: "start", "probe", "drain", "done"
        event |-> "none",       \* what it has posted: "ready", which is "taken" once read, or "error"
        told |-> FALSE,         \* the stop event is set, or SIGTERM sent
        healthy |-> FALSE,      \* a probe was answered with 200
        open |-> {}]            \* requests in it

InPlace == args.mode = "asyncio"
InProcess == args.mode \in {"mp", "gunicorn"}
Kills == args.kill \/ ~InPlace         \* threads and processes are always killed
Alive(i) == IF InPlace THEN servers[i].phase # "gone" ELSE servers[i].host = "alive"

Gone(s) == [s EXCEPT !.phase = "gone", !.open = {}]

\* The watcher ends with an event; when it failed, the place ends with it and
\* asyncio.run cancels what still runs there.  In the launcher's own loop the
\* serving task stays.
Posted(s, kind) ==
  LET t == [s EXCEPT !.watch = "done", !.event = kind]
  IN IF kind = "error" /\ ~InPlace THEN [Gone(t) EXCEPT !.host = "gone"] ELSE t

-----------------------------------------------------------------------------
(* uvicorn, or Gunicorn and its workers. *)

Idle == UNCHANGED <<args, running, held, call, result>>
Changes(i, s) == servers' = [servers EXCEPT ![i] = s] /\ Idle

Bind(i) ==
  /\ servers[i].phase = "starting"
  /\ \A j \in DOMAIN servers : servers[j].phase # "up"
  /\ Changes(i, [servers[i] EXCEPT !.phase = "up"]) /\ UNCHANGED faults

\* The port is taken, or the application fails to start.
BindFails(i) ==
  /\ servers[i].phase = "starting"
  /\ Changes(i, Gone(servers[i])) /\ UNCHANGED faults

\* The last request is answered.
Close(i) ==
  /\ servers[i].phase = "closing" /\ servers[i].open = {}
  /\ Changes(i, Gone(servers[i])) /\ UNCHANGED faults

\* A process is killed from outside; elsewhere the serving task ends by itself.
Crash(i) ==
  /\ faults < MaxFaults /\ faults' = faults + 1
  /\ servers[i].phase \in {"starting", "up"} /\ servers[i].host = "alive"
  /\ Changes(i, IF InProcess THEN [Gone(servers[i]) EXCEPT !.host = "gone"] ELSE Gone(servers[i]))

-----------------------------------------------------------------------------
(* The watcher: _watch_server, or the watchdog thread of run_gunicorn. *)

Watching(i, at) == servers[i].watch = at /\ servers[i].host = "alive" /\ UNCHANGED faults

WatchStarted(i) ==
  /\ Watching(i, "start") /\ servers[i].phase = "up"
  /\ Changes(i, IF args.probe THEN [servers[i] EXCEPT !.watch = "probe"] ELSE Posted(servers[i], "ready"))

\* The server raised instead of starting.  Gunicorn leaves by SystemExit,
\* which run_gunicorn does not catch: no event is posted.
WatchFailed(i) ==
  /\ Watching(i, "start") /\ servers[i].phase = "gone"
  /\ \/ Changes(i, Posted(servers[i], "error"))
     \/ args.mode = "gunicorn" /\ Changes(i, [servers[i] EXCEPT !.watch = "done", !.host = "gone"])

\* startup_timeout is over and the server is still starting.
WatchLate(i) ==
  /\ Watching(i, "start") /\ servers[i].phase = "starting"
  /\ Changes(i, Posted(servers[i], "error"))

ProbeAnswers(i) ==
  /\ Watching(i, "probe") /\ servers[i].phase = "up"
  /\ Changes(i, Posted([servers[i] EXCEPT !.healthy = TRUE], "ready"))

\* The deadline passes without a 200: the server is told to exit and awaited
\* (the watchdog of Gunicorn posts first), or left running.
ProbeFails(i) ==
  /\ Watching(i, "probe")
  /\ LET closing == IF servers[i].phase = "up" THEN "closing" ELSE servers[i].phase
     IN Changes(i, CASE ~Kills -> Posted(servers[i], "ready")
                     [] Kills /\ args.mode = "gunicorn" ->
                          [servers[i] EXCEPT !.watch = "done", !.event = "error", !.phase = closing, !.told = TRUE]
                     [] Kills /\ args.mode # "gunicorn" ->
                          [servers[i] EXCEPT !.watch = "drain", !.phase = closing])

Drained(i) ==
  /\ Watching(i, "drain") /\ servers[i].phase = "gone"
  /\ Changes(i, Posted(servers[i], "error"))

\* The main coroutine of the thread or process, told to stop after it was
\* ready: shutdown_uvicorn_server, which cancels after five seconds.
Shutdown(i) ==
  /\ Watching(i, "done") /\ ~InPlace /\ servers[i].told
  /\ \/ servers[i].phase = "up" /\ Changes(i, [servers[i] EXCEPT !.phase = "closing"])
     \/ servers[i].phase = "closing" /\ Changes(i, Gone(servers[i]))
     \/ servers[i].phase = "gone" /\ Changes(i, [servers[i] EXCEPT !.host = "gone"])

-----------------------------------------------------------------------------
(* The launcher. *)

\* A mutant: the process is forgotten as soon as SIGTERM is sent.
LeaveSoon == servers[held].host = "alive"

\* join returns.
Leave == servers[held].host = "gone"

Reset ==
  /\ held' = 0 /\ running' = FALSE
  /\ IF call.next = "start"
     THEN call' = [op |-> "reload", at |-> "begin", next |-> "none"] /\ UNCHANGED result
     ELSE call' = NoCall /\ result' = IF call.next = "raise" THEN "raised" ELSE "stopped"

\* _start_uvicorn_asyncio, _start_uvicorn_thread, _start_serving_process.
Begins(op) ==
  /\ ~running /\ Len(servers) < MaxStarts
  /\ servers' = Append(servers, New)
  /\ held' = IF InPlace THEN held ELSE Len(servers) + 1
  /\ call' = [op |-> op, at |-> "wait", next |-> "none"]
  /\ UNCHANGED <<args, running, result, faults>>

Start == call = NoCall /\ \E op \in {"start", "run_forever"} : Begins(op)
StartAgain == call.at = "begin" /\ Begins("reload")

Latest == Len(servers)

StartReady ==
  /\ call.at = "wait" /\ servers[Latest].event = "ready"
  /\ servers' = [servers EXCEPT ![Latest].event = "taken"]
  /\ running' = TRUE /\ held' = Latest
  /\ IF call.op = "run_forever" THEN call' = [call EXCEPT !.at = "forever"] /\ UNCHANGED result
     ELSE call' = NoCall /\ result' = "started"
  /\ UNCHANGED <<args, faults>>

\* The error is raised, after a join whose timeout is only logged.
StartError ==
  /\ call.at = "wait" /\ servers[Latest].event = "error"
  /\ servers' = [servers EXCEPT ![Latest].event = "none"]
  /\ call' = NoCall /\ result' = "raised"
  /\ UNCHANGED <<args, running, held, faults>>

\* queue.Empty after twice startup_timeout: the watcher's own time is over.
Overdue(s) == s.host = "gone" \/ s.watch \in {"drain", "done"}

StartEmpty ==
  /\ call.at = "wait" /\ ~InPlace /\ servers[Latest].event = "none"
  /\ Overdue(servers[Latest])
  /\ IF servers[Latest].host = "gone"
     THEN call' = NoCall /\ result' = "raised"
     ELSE call' = [call EXCEPT !.at = "stop", !.next = "raise"] /\ UNCHANGED result
  /\ UNCHANGED <<args, running, held, servers, faults>>

\* stop() and reload(), which starts whether it stopped or not; run_forever
\* is cancelled and stops.
Stop ==
  /\ call = NoCall
  /\ \/ call' = [op |-> "stop", at |-> "stop", next |-> "none"]
     \/ /\ Len(servers) < MaxStarts
        /\ call' = IF running THEN [op |-> "reload", at |-> "stop", next |-> "start"]
                   ELSE [op |-> "reload", at |-> "begin", next |-> "none"]
  /\ UNCHANGED <<args, running, held, servers, result, faults>>

Forever ==
  /\ call.at = "forever"
  /\ \/ call' = [call EXCEPT !.at = "stop", !.next = "raise"] /\ UNCHANGED result
     \/ ~Alive(held) /\ call' = NoCall /\ result' = "ended"
  /\ UNCHANGED <<args, running, held, servers, faults>>

\* _stop_uvicorn_asyncio, _stop_uvicorn_thread, _stop_serving_process.
StopBegins ==
  /\ call.at = "stop" /\ UNCHANGED <<args, faults>>
  /\ IF held = 0 \/ (InProcess /\ servers[held].host = "gone")
     THEN Reset /\ UNCHANGED servers
     ELSE /\ servers' = [servers EXCEPT ![held].told = TRUE,
                           ![held].phase = IF InPlace /\ @ # "gone" THEN "closing" ELSE @]
          /\ call' = [call EXCEPT !.at = "join"] /\ UNCHANGED <<running, held, result>>

\* The task of the loop ends, or is cancelled after five seconds.
StopInPlace ==
  /\ call.at = "join" /\ InPlace
  /\ servers' = [servers EXCEPT ![held] = Gone(@)] /\ Reset
  /\ UNCHANGED <<args, faults>>

StopJoined ==
  /\ call.at = "join" /\ ~InPlace /\ Leave
  /\ Reset /\ UNCHANGED <<args, servers, faults>>

\* join times out: a thread is given up with an error, a process is killed.
StopLate ==
  /\ call.at = "join" /\ ~InPlace /\ servers[held].host = "alive"
  /\ IF InProcess
     THEN servers' = [servers EXCEPT ![held] = [Gone(@) EXCEPT !.host = "gone"]] /\ Reset
     ELSE call' = NoCall /\ result' = "refused" /\ UNCHANGED <<running, held, servers>>
  /\ UNCHANGED <<args, faults>>

-----------------------------------------------------------------------------
Init ==
  /\ args \in [mode : Modes, probe : BOOLEAN, kill : BOOLEAN]
  /\ args.mode # "asyncio" => args.kill
  /\ running = FALSE /\ held = 0 /\ servers = <<>> /\ call = NoCall /\ result = "none" /\ faults = 0

Watcher(i) == WatchStarted(i) \/ WatchFailed(i) \/ WatchLate(i) \/ ProbeAnswers(i) \/ ProbeFails(i)
              \/ Drained(i) \/ Shutdown(i)
Server(i) == Bind(i) \/ BindFails(i) \/ Close(i) \/ Crash(i) \/ Watcher(i)
Ends == StartAgain \/ StartReady \/ StartError \/ StartEmpty \/ StopBegins \/ StopInPlace \/ StopJoined \/ StopLate
Launcher == Start \/ Stop \/ Forever \/ Ends

Next == Launcher \/ \E i \in DOMAIN servers : Server(i)

\* The event loop and the threads of the launcher keep running, and so does a
\* watcher: its waits have deadlines, except the drain of a server.
Fairness == WF_vars(Ends) /\ \A i \in 1..MaxStarts : WF_vars(i \in DOMAIN servers /\ Watcher(i))

Spec == Init /\ [][Next]_vars /\ Fairness

-----------------------------------------------------------------------------
\* Servers the launcher has lost sight of: an asyncio start that failed, whose
\* task it never had; and a thread or Gunicorn start that failed, once another
\* start has taken its place.
Lost(i) == servers[i].event # "taken" /\ (InPlace \/ (i < Len(servers) /\ args.mode # "mp"))

Ended(s) == s.phase = "gone" /\ (InPlace \/ s.host = "gone")

\* A stop that returns has ended every server the launcher could know, however
\* requests, crashes, failed probes and late or failed starts fell around it:
\* each one whose start was reported, the last one a thread or process was made
\* for, reported or not, and all of those a uvicorn process was made for.
\* server_launcher.py, _stop_*.
StopLeavesNothing ==
  call = NoCall /\ result = "stopped" => \A i \in DOMAIN servers : Lost(i) \/ Ended(servers[i])

\* "Gracefully shut down the in-proc uvicorn server task if running": after a
\* stop none is.  The code does not keep this: run_uvicorn_asyncio raises when
\* startup_timeout is over, so _uvicorn_task is not set, and the serving task
\* it has made binds later.
StopEndsServers ==
  call = NoCall /\ result = "stopped" => \A i \in DOMAIN servers : Ended(servers[i])

=============================================================================
