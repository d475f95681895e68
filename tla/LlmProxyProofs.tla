--------------------------- MODULE LlmProxyProofs ---------------------------
(***************************************************************************)
(* Proofs about ServerLauncher and LlmProxy.  A stop that returns leaves   *)
(* no server behind that the launcher could know: one that it no longer    *)
(* holds has ended or was lost when its start failed, and one it still     *)
(* holds was reported only while it runs.  A trace is complete: what ended *)
(* before its root waits in the buffer, and only that.  And about Apo: the *)
(* search returns the best prompt that it measured; about Baseline: a run  *)
(* is whole, whatever its datasets; and about Streams: the events of a     *)
(* streamed answer tell the answer, wherever its text is cut.              *)
(***************************************************************************)
EXTENDS LlmProxy, Apo, Baseline, Streams, Selections, FiniteSetTheorems, SequenceTheorems, TLAPS

Servers ==
  [phase : {"starting", "up", "closing", "gone"}, host : {"alive", "gone"},
   watch : {"start", "probe", "drain", "done"}, event : {"none", "ready", "taken", "error"},
   told : BOOLEAN, healthy : BOOLEAN, open : SUBSET Requests]
Calls ==
  [op : {"none", "start", "run_forever", "reload", "stop"},
   at : {"none", "wait", "begin", "stop", "join", "forever"}, next : {"none", "start", "raise"}]

LauncherTypes ==
  /\ args \in [mode : Modes, probe : BOOLEAN, kill : BOOLEAN]
  /\ servers \in Seq(Servers) /\ held \in 0..Len(servers)
  /\ running \in BOOLEAN /\ call \in Calls
  /\ result \in {"none", "started", "raised", "ended", "stopped", "refused"}

\* A server ends with the place around it; a process that failed is gone when it
\* says so; and a server that the launcher does not hold has ended or is lost.
HeldOrEnded ==
  \A i \in DOMAIN servers :
    /\ servers[i].host = "gone" => servers[i].phase = "gone"
    /\ args.mode = "mp" /\ servers[i].event = "error" => servers[i].host = "gone"
    /\ i # held => Lost(i) \/ Ended(servers[i])

\* The launcher runs while it holds such a server.
RunsWhatItHolds == ~running => held = 0 \/ servers[held].event # "taken"

\* Between calls, a process that was not reported has ended.
FailedProcessEnded ==
  ~running /\ args.mode = "mp" /\ call.at \in {"none", "begin"} => held = 0 \/ Ended(servers[held])

CallsFit ==
  /\ call.at = "wait" => ~running /\ Len(servers) # 0 /\ (InPlace \/ held = Len(servers))
  /\ call.at = "join" => held # 0
  /\ call.at = "forever" => running
  /\ call = NoCall /\ result = "stopped" => held = 0

LauncherInv == LauncherTypes /\ HeldOrEnded /\ RunsWhatItHolds /\ FailedProcessEnded /\ CallsFit

\* What any step of a server, its watcher or its requests makes of it.
Progress(s, t) ==
  /\ t \in Servers
  /\ t.host = "gone" => t.phase = "gone"
  /\ s.phase = "gone" => t.phase = "gone"
  /\ s.host = "gone" => t.host = "gone"
  /\ t.event = "taken" => s.event = "taken"
  /\ args.mode = "mp" /\ t.event = "error" => t.host = "gone"

-----------------------------------------------------------------------------
LEMMA LauncherInit == Init => LauncherInv
<1> SUFFICES ASSUME Init PROVE LauncherInv
  OBVIOUS
<1>1. servers = <<>> /\ servers \in Seq(Servers) /\ Len(servers) = 0 /\ DOMAIN servers = {}
  BY DEF Init
<1>2. LauncherTypes
  <2>1. NoCall \in Calls
    BY DEF Calls, NoCall
  <2>2. held \in 0..Len(servers)
    BY <1>1 DEF Init
  <2> QED BY <1>1, <2>1, <2>2 DEF Init, LauncherTypes
<1>3. HeldOrEnded /\ RunsWhatItHolds /\ FailedProcessEnded
  BY <1>1 DEF Init, HeldOrEnded, RunsWhatItHolds, FailedProcessEnded
<1>4. CallsFit
  BY DEF Init, CallsFit, NoCall
<1> QED BY <1>2, <1>3, <1>4 DEF LauncherInv

LEMMA ServerMoves ==
  ASSUME LauncherInv, NEW i \in DOMAIN servers, NEW t, Progress(servers[i], t),
         servers' = [servers EXCEPT ![i] = t], UNCHANGED <<args, running, held, call, result>>
  PROVE LauncherInv'
<1>1. servers' \in Seq(Servers) /\ Len(servers') = Len(servers) /\ DOMAIN servers' = DOMAIN servers
  BY DEF LauncherInv, LauncherTypes, Progress
<1>2. \A j \in DOMAIN servers : servers'[j] = IF j = i THEN t ELSE servers[j]
  BY DEF LauncherInv, LauncherTypes
<1>3. LauncherTypes'
  BY <1>1 DEF LauncherInv, LauncherTypes
<1>4. HeldOrEnded'
  BY <1>1, <1>2 DEF LauncherInv, HeldOrEnded, Progress, Lost, Ended, InPlace
<1>5. RunsWhatItHolds' /\ FailedProcessEnded'
  <2>1. held # 0 => held \in DOMAIN servers
    BY DEF LauncherInv, LauncherTypes
  <2> QED BY <1>2, <2>1 DEF LauncherInv, RunsWhatItHolds, FailedProcessEnded, Progress, Ended, InPlace
<1>6. CallsFit'
  BY <1>1 DEF LauncherInv, CallsFit, NoCall, InPlace
<1> QED BY <1>3, <1>4, <1>5, <1>6 DEF LauncherInv

LEMMA ServerStep ==
  ASSUME LauncherInv, NEW i \in DOMAIN servers, Server(i)
  PROVE LauncherInv'
<1> DEFINE s == servers[i]
<1>1. /\ s \in Servers /\ (s.host = "gone" => s.phase = "gone")
      /\ args.mode = "mp" /\ s.event = "error" => s.host = "gone"
  BY DEF LauncherInv, LauncherTypes, HeldOrEnded
<1>2. ASSUME NEW t, Changes(i, t), Progress(s, t)
      PROVE LauncherInv'
  BY <1>2, ServerMoves DEF Changes, Idle
<1>3. Gone(s) \in Servers /\ Progress(s, Gone(s)) /\ Progress(s, [Gone(s) EXCEPT !.host = "gone"])
  BY <1>1 DEF Gone, Servers, Progress
<1>4. ASSUME NEW kind \in {"ready", "error"}, NEW u \in Servers, u.host = "alive", Progress(s, u)
      PROVE Progress(s, Posted(u, kind))
  BY <1>4 DEF Posted, Gone, Servers, Progress, InPlace
<1>5. CASE Bind(i)
  <2>1. Progress(s, [s EXCEPT !.phase = "up"])
    BY <1>1, <1>5 DEF Bind, Progress, Servers
  <2> QED BY <1>2, <1>5, <2>1 DEF Bind
<1>6. CASE BindFails(i) \/ Close(i) \/ Crash(i)
  BY <1>2, <1>3, <1>6 DEF BindFails, Close, Crash
<1>7. CASE WatchStarted(i)
  <2>1. s.host = "alive" /\ Progress(s, s) /\ Progress(s, [s EXCEPT !.watch = "probe"])
    BY <1>1, <1>7 DEF WatchStarted, Watching, Progress, Servers
  <2>2. Progress(s, Posted(s, "ready"))
    BY <1>1, <1>4, <2>1
  <2> QED BY <1>2, <1>7, <2>1, <2>2 DEF WatchStarted
<1>8. CASE WatchFailed(i) \/ WatchLate(i) \/ Drained(i)
  <2>1. s.host = "alive" /\ Progress(s, s)
    BY <1>1, <1>8 DEF WatchFailed, WatchLate, Drained, Watching, Progress
  <2>2. Progress(s, Posted(s, "error"))
    BY <1>1, <1>4, <2>1
  <2>3. s.phase = "gone" => Progress(s, [s EXCEPT !.watch = "done", !.host = "gone"])
    BY <1>1 DEF Progress, Servers
  <2> QED BY <1>2, <1>8, <2>2, <2>3 DEF WatchFailed, WatchLate, Drained, Watching
<1>9. CASE ProbeAnswers(i)
  <2>1. [s EXCEPT !.healthy = TRUE] \in Servers /\ [s EXCEPT !.healthy = TRUE].host = "alive"
        /\ Progress(s, [s EXCEPT !.healthy = TRUE])
    BY <1>1, <1>9 DEF ProbeAnswers, Watching, Progress, Servers
  <2>2. Progress(s, Posted([s EXCEPT !.healthy = TRUE], "ready"))
    BY <1>4, <2>1
  <2> QED BY <1>2, <1>9, <2>2 DEF ProbeAnswers
<1>10. CASE ProbeFails(i)
  <2> DEFINE closing == IF s.phase = "up" THEN "closing" ELSE s.phase
  <2>1. s.host = "alive" /\ Progress(s, s)
    BY <1>1, <1>10 DEF ProbeFails, Watching, Progress
  <2>2. Progress(s, Posted(s, "ready"))
    BY <1>1, <1>4, <2>1
  <2>3. /\ args.mode = "gunicorn" =>
              Progress(s, [s EXCEPT !.watch = "done", !.event = "error", !.phase = closing, !.told = TRUE])
        /\ Progress(s, [s EXCEPT !.watch = "drain", !.phase = closing])
    BY <1>1, <2>1 DEF Progress, Servers
  <2>4. \/ Changes(i, Posted(s, "ready"))
        \/ args.mode = "gunicorn"
           /\ Changes(i, [s EXCEPT !.watch = "done", !.event = "error", !.phase = closing, !.told = TRUE])
        \/ Changes(i, [s EXCEPT !.watch = "drain", !.phase = closing])
    BY <1>10 DEF ProbeFails
  <2> QED BY <1>2, <2>2, <2>3, <2>4
<1>11. CASE Shutdown(i)
  <2>1. /\ s.phase = "up" => Progress(s, [s EXCEPT !.phase = "closing"])
        /\ s.phase = "gone" => Progress(s, [s EXCEPT !.host = "gone"])
    BY <1>1, <1>11 DEF Shutdown, Watching, Progress, Servers
  <2> QED BY <1>2, <1>3, <1>11, <2>1 DEF Shutdown
<1> QED
  BY <1>5, <1>6, <1>7, <1>8, <1>9, <1>10, <1>11 DEF Server, Watcher

-----------------------------------------------------------------------------
\* A call of the launcher that leaves the servers alone and forgets none.
LEMMA CallMoves ==
  ASSUME LauncherInv, UNCHANGED <<args, running, held, servers>>, call' \in Calls, CallsFit', FailedProcessEnded',
         result' \in {"none", "started", "raised", "ended", "stopped", "refused"}
  PROVE LauncherInv'
<1>1. LauncherTypes'
  BY DEF LauncherInv, LauncherTypes
<1>2. HeldOrEnded' /\ RunsWhatItHolds'
  BY DEF LauncherInv, HeldOrEnded, RunsWhatItHolds, Lost, Ended, InPlace
<1> QED BY <1>1, <1>2 DEF LauncherInv

\* The held server is let go once it has ended.
LEMMA LetGo ==
  ASSUME LauncherInv, Reset, UNCHANGED args, NEW t,
         \/ UNCHANGED servers /\ (held # 0 => t = servers[held] /\ t.host = "gone")
         \/ /\ held # 0 /\ servers' = [servers EXCEPT ![held] = t]
            /\ Progress(servers[held], t) /\ Ended(t)
  PROVE LauncherInv'
<1>1. servers \in Seq(Servers) /\ held \in 0..Len(servers) /\ DOMAIN servers = 1..Len(servers)
  BY DEF LauncherInv, LauncherTypes
<1>2. servers' \in Seq(Servers) /\ Len(servers') = Len(servers) /\ DOMAIN servers' = DOMAIN servers
  BY <1>1 DEF Progress
<1>3. \A j \in DOMAIN servers : j # held => servers'[j] = servers[j]
  BY <1>1
<1>4. held # 0 => /\ servers'[held] = t /\ (t.host = "gone" => t.phase = "gone") /\ Ended(t)
                  /\ args.mode = "mp" /\ t.event = "error" => t.host = "gone"
  BY <1>1 DEF LauncherInv, HeldOrEnded, Progress, Ended
<1>5. held' = 0 /\ running' = FALSE
  BY DEF Reset
<1>6. LauncherTypes'
  <2>1. call' \in Calls /\ result' \in {"none", "started", "raised", "ended", "stopped", "refused"}
    BY DEF LauncherInv, LauncherTypes, Reset, Calls, NoCall
  <2>2. held' \in 0..Len(servers')
    BY <1>2, <1>5
  <2>3. running' \in BOOLEAN
    BY <1>5
  <2> QED BY <1>2, <2>1, <2>2, <2>3 DEF LauncherInv, LauncherTypes
<1>7. HeldOrEnded'
  <2> SUFFICES ASSUME NEW j \in DOMAIN servers
               PROVE /\ servers'[j].host = "gone" => servers'[j].phase = "gone"
                     /\ args.mode = "mp" /\ servers'[j].event = "error" => servers'[j].host = "gone"
                     /\ Lost(j)' \/ Ended(servers'[j])
    BY <1>2 DEF HeldOrEnded, Ended, InPlace
  <2>1. CASE j = held
    BY <1>1, <1>4, <2>1
  <2>2. CASE j # held
    BY <1>2, <1>3, <2>2 DEF LauncherInv, HeldOrEnded, Lost, InPlace
  <2> QED BY <2>1, <2>2
<1>8. RunsWhatItHolds' /\ FailedProcessEnded' /\ CallsFit'
  BY <1>5 DEF RunsWhatItHolds, FailedProcessEnded, CallsFit, Reset, NoCall
<1> QED BY <1>6, <1>7, <1>8 DEF LauncherInv

LEMMA BeginStep ==
  ASSUME LauncherInv, call.at \in {"none", "begin"},
         NEW op \in {"start", "run_forever", "reload"}, Begins(op)
  PROVE LauncherInv'
<1>1. servers \in Seq(Servers) /\ held \in 0..Len(servers) /\ New \in Servers
  BY DEF LauncherInv, LauncherTypes, New, Servers
<1>2. /\ servers' \in Seq(Servers) /\ Len(servers') = Len(servers) + 1
      /\ DOMAIN servers' = 1..Len(servers) + 1 /\ DOMAIN servers = 1..Len(servers)
      /\ \A j \in DOMAIN servers : servers'[j] = servers[j]
      /\ servers'[Len(servers) + 1] = New
  BY <1>1 DEF Begins
<1>3. /\ held' \in 0..Len(servers') /\ held' = (IF InPlace THEN held ELSE Len(servers) + 1)
      /\ ~running' /\ args' = args
  BY <1>1, <1>2 DEF Begins
<1>4. call' \in Calls /\ call'.at = "wait" /\ call' # NoCall
  BY DEF Begins, Calls, NoCall
<1>5. LauncherTypes'
  <2>1. UNCHANGED <<args, running, result>>
    BY DEF Begins
  <2> QED BY <1>2, <1>3, <1>4, <2>1 DEF LauncherInv, LauncherTypes
<1>6. held # 0 => servers[held].event # "taken" /\ (args.mode = "mp" => Ended(servers[held]))
  BY DEF LauncherInv, RunsWhatItHolds, FailedProcessEnded, Begins
<1>7. HeldOrEnded'
  <2> SUFFICES ASSUME NEW j \in DOMAIN servers'
               PROVE /\ servers'[j].host = "gone" => servers'[j].phase = "gone"
                     /\ args.mode = "mp" /\ servers'[j].event = "error" => servers'[j].host = "gone"
                     /\ j # held' => Lost(j)' \/ Ended(servers'[j])
    BY <1>3 DEF HeldOrEnded, Ended, InPlace
  <2>1. CASE j = Len(servers) + 1
    BY <1>2, <1>3, <2>1 DEF New, Lost, InPlace
  <2>2. CASE j \in DOMAIN servers
    <3>1. j < Len(servers') /\ servers'[j] = servers[j]
      BY <1>1, <1>2, <2>2
    <3>2. CASE j = held
      BY <1>3, <1>6, <2>2, <3>1, <3>2 DEF LauncherInv, HeldOrEnded, Lost, InPlace
    <3>3. CASE j # held
      BY <1>3, <2>2, <3>1, <3>3 DEF LauncherInv, HeldOrEnded, Lost, InPlace
    <3> QED BY <3>2, <3>3
  <2> QED BY <1>2, <2>1, <2>2
<1>8. RunsWhatItHolds' /\ FailedProcessEnded'
  BY <1>1, <1>2, <1>3, <1>4, <1>6 DEF RunsWhatItHolds, FailedProcessEnded, New
<1>9. CallsFit'
  BY <1>1, <1>2, <1>3, <1>4 DEF CallsFit, InPlace
<1> QED BY <1>5, <1>7, <1>8, <1>9 DEF LauncherInv

\* The launcher reads the event of the latest server, and holds it if that is
\* what it was told.
LEMMA EventRead ==
  ASSUME LauncherInv, StartReady \/ StartError
  PROVE LauncherInv'
<1>1. /\ servers \in Seq(Servers) /\ held \in 0..Len(servers) /\ DOMAIN servers = 1..Len(servers)
      /\ Latest = Len(servers) /\ Latest \in DOMAIN servers /\ ~running
  BY DEF LauncherInv, LauncherTypes, CallsFit, StartReady, StartError, Latest
<1>2. PICK e \in {"taken", "none"} : /\ servers' = [servers EXCEPT ![Latest].event = e]
                                     /\ e = "taken" => held' = Latest /\ running'
                                     /\ e = "none" => /\ held' = held /\ ~running'
                                                      /\ servers[Latest].event = "error"
  BY <1>1 DEF StartReady, StartError
<1>3. [servers[Latest] EXCEPT !.event = e] \in Servers
  <2>1. servers[Latest] \in Servers
    BY <1>1
  <2> QED BY <2>1 DEF Servers
<1>4. /\ servers' \in Seq(Servers) /\ Len(servers') = Len(servers) /\ DOMAIN servers' = DOMAIN servers
      /\ \A j \in DOMAIN servers : servers'[j] = IF j = Latest THEN [servers[j] EXCEPT !.event = e] ELSE servers[j]
  BY <1>1, <1>2, <1>3
<1>5. \A j \in DOMAIN servers : /\ servers'[j].phase = servers[j].phase /\ servers'[j].host = servers[j].host
                                /\ servers'[j].event = IF j = Latest THEN e ELSE servers[j].event
  <2> SUFFICES ASSUME NEW j \in DOMAIN servers
               PROVE /\ servers'[j].phase = servers[j].phase /\ servers'[j].host = servers[j].host
                     /\ servers'[j].event = IF j = Latest THEN e ELSE servers[j].event
    OBVIOUS
  <2>1. servers[j] \in Servers
    BY <1>1
  <2>2. LET u == [servers[j] EXCEPT !.event = e]
        IN u.phase = servers[j].phase /\ u.host = servers[j].host /\ u.event = e
    BY <2>1 DEF Servers
  <2> QED BY <1>4, <2>2
<1>6. call' \in Calls /\ result' \in {"none", "started", "raised", "ended", "stopped", "refused"}
      /\ call'.at \in {"none", "forever"} /\ (call' = NoCall => result' # "stopped")
      /\ (call'.at = "forever" => running')
  BY DEF LauncherInv, LauncherTypes, Calls, NoCall, StartReady, StartError
<1>7. LauncherTypes'
  <2>1. args' = args /\ running' \in BOOLEAN
    BY DEF LauncherInv, LauncherTypes, StartReady, StartError
  <2>2. held' \in 0..Len(servers')
    BY <1>1, <1>2, <1>4
  <2> QED BY <1>4, <1>6, <2>1, <2>2 DEF LauncherInv, LauncherTypes
<1>8. held # 0 => servers[held].event # "taken"
  BY <1>1 DEF LauncherInv, RunsWhatItHolds
<1>13. InPlace \/ held = Latest
  BY <1>1 DEF LauncherInv, CallsFit, StartReady, StartError
<1>9. HeldOrEnded'
  <2> SUFFICES ASSUME NEW j \in DOMAIN servers
               PROVE /\ servers'[j].host = "gone" => servers'[j].phase = "gone"
                     /\ args.mode = "mp" /\ servers'[j].event = "error" => servers'[j].host = "gone"
                     /\ j # held' => Lost(j)' \/ Ended(servers'[j])
    BY <1>4, <1>7 DEF HeldOrEnded, Ended, InPlace, StartReady, StartError
  <2>1. (servers'[j].host = "gone" => servers'[j].phase = "gone")
        /\ (args.mode = "mp" /\ servers'[j].event = "error" => servers'[j].host = "gone")
    BY <1>2, <1>5 DEF LauncherInv, HeldOrEnded
  <2>2. ASSUME j # held' PROVE Lost(j)' \/ Ended(servers'[j])
    <3>1. servers'[j].event = "taken" => servers[j].event = "taken"
      BY <1>1, <1>2, <1>5, <2>2
    <3>2. CASE j = held
      <4>1. InPlace /\ servers'[j].event # "taken"
        BY <1>1, <1>2, <1>8, <1>13, <2>2, <3>1, <3>2
      <4> QED BY <1>7, <4>1 DEF Lost, InPlace, StartReady, StartError
    <3>3. CASE j # held
      BY <1>4, <1>5, <3>1, <3>3 DEF LauncherInv, HeldOrEnded, Lost, Ended, InPlace, StartReady, StartError
    <3> QED BY <3>2, <3>3
  <2> QED BY <2>1, <2>2
<1>10. RunsWhatItHolds'
  BY <1>1, <1>2, <1>5, <1>8 DEF RunsWhatItHolds
<1>11. CallsFit'
  BY <1>6 DEF CallsFit
<1>12. FailedProcessEnded'
  <2>1. ASSUME ~running', args.mode = "mp" PROVE Ended(servers'[held])
    <3>1. e = "none" /\ held = Latest /\ servers[Latest].event = "error"
      BY <1>1, <1>2, <1>13, <2>1 DEF InPlace
    <3>2. servers[Latest].host = "gone" /\ servers[Latest].phase = "gone"
      BY <1>1, <2>1, <3>1 DEF LauncherInv, HeldOrEnded
    <3> QED BY <1>1, <1>5, <3>1, <3>2 DEF Ended
  <2>2. UNCHANGED args /\ (~running' => held' = held)
    BY <1>2 DEF StartReady, StartError
  <2> QED BY <2>1, <2>2 DEF FailedProcessEnded, Ended, InPlace
<1> QED BY <1>7, <1>9, <1>10, <1>11, <1>12 DEF LauncherInv

LEMMA StopStep ==
  ASSUME LauncherInv, StopBegins \/ StopInPlace \/ StopJoined \/ StopLate
  PROVE LauncherInv'
<1> DEFINE s == servers[held]
<1>1. /\ servers \in Seq(Servers) /\ held \in 0..Len(servers) /\ DOMAIN servers = 1..Len(servers)
      /\ held # 0 => /\ held \in DOMAIN servers /\ s \in Servers /\ (s.host = "gone" => s.phase = "gone")
                     /\ args.mode = "mp" /\ s.event = "error" => s.host = "gone"
  BY DEF LauncherInv, LauncherTypes, HeldOrEnded
<1>2. call.at = "join" => held # 0
  BY DEF LauncherInv, CallsFit
<1>3. held # 0 => Progress(s, Gone(s)) /\ Progress(s, [Gone(s) EXCEPT !.host = "gone"])
  BY <1>1 DEF Gone, Servers, Progress
<1>4. CASE StopBegins
  <2>1. CASE held = 0 \/ (InProcess /\ s.host = "gone")
    BY <1>4, <2>1, LetGo DEF StopBegins
  <2>2. CASE ~(held = 0 \/ (InProcess /\ s.host = "gone"))
    <3> DEFINE t == [s EXCEPT !.told = TRUE, !.phase = IF InPlace /\ @ # "gone" THEN "closing" ELSE @]
    <3>1. servers' = [servers EXCEPT ![held] = t]
      BY <1>1, <1>4, <2>2 DEF StopBegins
    <3>2. Progress(s, t)
      BY <1>1, <2>2 DEF Progress, Servers
    <3>3. call' \in Calls /\ call'.at = "join" /\ call' # NoCall
      BY <1>4, <2>2 DEF StopBegins, LauncherInv, LauncherTypes, Calls, NoCall
    <3> DEFINE types == /\ servers' \in Seq(Servers) /\ Len(servers') = Len(servers) /\ DOMAIN servers' = DOMAIN servers
                        /\ \A j \in DOMAIN servers : servers'[j] = IF j = held THEN t ELSE servers[j]
    <3>4. types
      <4> HIDE DEF t
      <4>1. t \in Servers /\ held \in DOMAIN servers
        BY <1>1, <2>2, <3>2 DEF Progress
      <4> QED BY <1>1, <3>1, <4>1
    <3>5. UNCHANGED <<args, running, held, result>>
      BY <1>4, <2>2 DEF StopBegins
    <3>6. LauncherTypes'
      BY <1>1, <3>3, <3>4, <3>5 DEF LauncherInv, LauncherTypes
    <3> HIDE DEF t
    <3>7. HeldOrEnded'
      BY <3>2, <3>4, <3>5 DEF LauncherInv, HeldOrEnded, Progress, Lost, Ended, InPlace
    <3>8. RunsWhatItHolds' /\ FailedProcessEnded'
      BY <1>1, <3>2, <3>3, <3>4, <3>5 DEF LauncherInv, RunsWhatItHolds, FailedProcessEnded, Progress
    <3>9. CallsFit'
      BY <2>2, <3>3, <3>5 DEF CallsFit
    <3> QED BY <3>6, <3>7, <3>8, <3>9 DEF LauncherInv
  <2> QED BY <2>1, <2>2
<1>5. CASE StopInPlace
  <2>1. servers' = [servers EXCEPT ![held] = Gone(s)] /\ Reset /\ UNCHANGED args /\ held # 0 /\ InPlace
    BY <1>2, <1>5 DEF StopInPlace
  <2>2. Ended(Gone(s))
    BY <1>1, <2>1 DEF Ended, Gone, Servers
  <2> QED BY <1>3, <2>1, <2>2, LetGo
<1>6. CASE StopJoined
  BY <1>6, LetGo DEF StopJoined, Leave
<1>7. CASE StopLate
  <2>1. CASE InProcess
    <3> DEFINE t == [Gone(s) EXCEPT !.host = "gone"]
    <3>1. servers' = [servers EXCEPT ![held] = t] /\ Reset /\ UNCHANGED args /\ held # 0
      BY <1>2, <1>7, <2>1 DEF StopLate
    <3>2. Ended(t)
      BY <1>1, <3>1 DEF Ended, Gone, Servers
    <3> QED BY <1>3, <3>1, <3>2, LetGo
  <2>2. CASE ~InProcess
    BY <1>7, <2>2, CallMoves DEF StopLate, CallsFit, FailedProcessEnded, InProcess, NoCall, Calls
  <2> QED BY <2>1, <2>2
<1> QED BY <1>4, <1>5, <1>6, <1>7

LEMMA LauncherStep == LauncherInv /\ [Next]_vars => LauncherInv'
<1> SUFFICES ASSUME LauncherInv, [Next]_vars PROVE LauncherInv'
  OBVIOUS
<1>1. call \in Calls /\ result \in {"none", "started", "raised", "ended", "stopped", "refused"} /\ CallsFit
      /\ FailedProcessEnded
  BY DEF LauncherInv, LauncherTypes
<1>2. CASE Start \/ StartAgain
  BY <1>2, BeginStep DEF Start, StartAgain, NoCall
<1>3. CASE StartReady \/ StartError
  BY <1>3, EventRead
<1>4. CASE StartEmpty \/ Stop \/ Forever
  <2>1. UNCHANGED <<args, running, held, servers>>
    BY <1>4 DEF StartEmpty, Stop, Forever
  <2> DEFINE stopping == [call EXCEPT !.at = "stop", !.next = "raise"]
  <2>5. stopping \in Calls /\ stopping.at = "stop" /\ stopping # NoCall
    BY <1>1 DEF Calls, NoCall
  <2>6. call' \in {NoCall, stopping, [op |-> "stop", at |-> "stop", next |-> "none"],
                   [op |-> "reload", at |-> "stop", next |-> "start"],
                   [op |-> "reload", at |-> "begin", next |-> "none"]}
    BY <1>4 DEF StartEmpty, Stop, Forever
  <2> HIDE DEF stopping
  <2>2. call' \in Calls /\ call'.at \in {"none", "stop", "begin"}
    BY <2>5, <2>6 DEF Calls, NoCall
  <2>3. result' \in {"none", "started", "raised", "ended", "stopped", "refused"}
        /\ (call' = NoCall => result' # "stopped")
    BY <1>1, <1>4, <2>5 DEF StartEmpty, Stop, Forever, stopping, NoCall
  <2>4. CallsFit'
    BY <2>2, <2>3 DEF CallsFit
  <2>7. FailedProcessEnded'
    <3> SUFFICES ASSUME ~running, args.mode = "mp", call'.at \in {"none", "begin"}, held # 0
                 PROVE Ended(servers[held])
      BY <2>1 DEF FailedProcessEnded, Ended, InPlace
    <3>1. CASE StartEmpty
      <4>1. call.at = "wait" /\ held = Len(servers) /\ held \in DOMAIN servers
        BY <1>1, <3>1 DEF StartEmpty, CallsFit, LauncherInv, LauncherTypes
      <4>2. servers[held].host = "gone"
        BY <2>5, <3>1, <4>1 DEF StartEmpty, Latest, stopping
      <4> QED BY <4>1, <4>2 DEF LauncherInv, HeldOrEnded, Ended
    <3>2. CASE Stop
      BY <1>1, <3>2 DEF Stop, FailedProcessEnded, NoCall
    <3>3. CASE Forever
      BY <3>3, <2>5, <1>1 DEF Forever, stopping, LauncherInv, CallsFit
    <3> QED BY <1>4, <3>1, <3>2, <3>3
  <2> QED BY <2>1, <2>2, <2>3, <2>4, <2>7, CallMoves
<1>5. CASE StopBegins \/ StopInPlace \/ StopJoined \/ StopLate
  BY <1>5, StopStep
<1>6. CASE \E i \in DOMAIN servers : Server(i)
  BY <1>6, ServerStep
<1>7. CASE UNCHANGED vars
  BY <1>1, <1>7, CallMoves DEF vars, CallsFit, FailedProcessEnded, Ended, InPlace
<1> QED BY <1>2, <1>3, <1>4, <1>5, <1>6, <1>7 DEF Next, Launcher, Ends

LEMMA StopFromInv == LauncherInv => StopLeavesNothing
<1> SUFFICES ASSUME LauncherInv, call = NoCall, result = "stopped" PROVE StopLeavesNothing
  BY DEF StopLeavesNothing
<1>1. held = 0 /\ \A i \in DOMAIN servers : i # 0
  BY DEF LauncherInv, LauncherTypes, CallsFit
<1> QED BY <1>1 DEF LauncherInv, HeldOrEnded, StopLeavesNothing

\* For any number of starts and crashes: when stop() has returned, each server
\* has ended, with the thread or process around it, except those lost to the
\* launcher: an asyncio start that failed, and a thread or Gunicorn start that
\* failed before another one.
THEOREM StopsClean == Spec => []StopLeavesNothing
<1>1. Spec => []LauncherInv
  BY LauncherInit, LauncherStep, PTL DEF Spec
<1> QED BY <1>1, StopFromInv, PTL

-----------------------------------------------------------------------------
(* LlmProxy. *)

RequestTypes ==
  /\ reqs \in [Requests -> [at : {"none", "arrived", "sent", "answered", "failed"}, server : Nat, number : Nat]]
  /\ \A q \in Requests : reqs[q].server \in 0..Len(servers)
  /\ numbers \in [Attempts -> Nat]

Spans == [of : Requests, kind : {"root", "call", "raw"}]

\* What ended before its root is in the buffer; what ended after it is late.
WaitsForRoot ==
  /\ ended \subseteq Spans /\ buffer \subseteq ended /\ late \subseteq ended
  /\ \A s \in late : s.kind # "root" /\ Span(s.of, "root") \in ended
  /\ \A s \in ended : Span(s.of, "root") \notin ended => s \in buffer

\* TraceComplete, of a span s.
Whole(s) == {s} \cup {Span(s.of, kind) : kind \in Above[s.kind]}
Complete(s) ==
  Whole(s) \subseteq ended \ late /\ Span(s.of, "call") \in ended \ late =>
    s \notin buffer /\ (s \in refused \/ \E e \in stored : e.span = s)

ProxyInv == LauncherInv /\ RequestTypes /\ WaitsForRoot /\ TraceComplete

LEMMA CompleteIsAll == TraceComplete <=> \A s \in ended : Complete(s)
  BY DEF TraceComplete, Complete, Whole

LEMMA ProxyStarts == ProxyInit => ProxyInv
<1> SUFFICES ASSUME ProxyInit PROVE ProxyInv
  OBVIOUS
<1>1. LauncherInv /\ servers = <<>>
  BY LauncherInit DEF ProxyInit, Init
<1>2. RequestTypes
  BY <1>1 DEF ProxyInit, RequestTypes
<1>3. WaitsForRoot /\ TraceComplete
  BY DEF ProxyInit, WaitsForRoot, TraceComplete
<1> QED BY <1>1, <1>2, <1>3 DEF ProxyInv

LEMMA Unspanned ==
  ASSUME WaitsForRoot, TraceComplete, UNCHANGED <<ended, late, buffer, stored, refused>>
  PROVE (WaitsForRoot /\ TraceComplete)'
  BY DEF WaitsForRoot, TraceComplete, Span

\* No step of the launcher or of a server takes a server out of the list.
LEMMA ServersStay ==
  ASSUME LauncherInv, [Next]_vars
  PROVE Len(servers') \in Nat /\ Len(servers') >= Len(servers)
<1>1. servers \in Seq(Servers)
  BY DEF LauncherInv, LauncherTypes
<1> DEFINE kept == \/ servers' = servers
                   \/ servers' = Append(servers, New)
                   \/ \E i, t : servers' = [servers EXCEPT ![i] = t]
<1>2. kept
  <2>1. CASE Start \/ StartAgain
    BY <2>1 DEF Start, StartAgain, Begins
  <2>2. CASE StartReady \/ StartError
    BY <2>2 DEF StartReady, StartError
  <2>3. CASE StartEmpty \/ Stop \/ Forever \/ StopJoined
    BY <2>3 DEF StartEmpty, Stop, Forever, StopJoined
  <2>4. CASE StopBegins
    <3>1. held # 0 => held \in DOMAIN servers
      BY DEF LauncherInv, LauncherTypes
    <3>2. \/ servers' = servers
          \/ servers' = [servers EXCEPT ![held] = [servers[held] EXCEPT
                !.told = TRUE, !.phase = IF InPlace /\ @ # "gone" THEN "closing" ELSE @]]
      BY <2>4, <3>1 DEF StopBegins
    <3> QED BY <3>2
  <2>5. CASE StopInPlace \/ StopLate
    BY <2>5 DEF StopInPlace, StopLate
  <2>6. CASE \E i \in DOMAIN servers : Server(i)
    BY <2>6 DEF Server, Watcher, Bind, BindFails, Close, Crash, WatchStarted, WatchFailed, WatchLate,
                ProbeAnswers, ProbeFails, Drained, Shutdown, Changes
  <2>7. CASE UNCHANGED vars
    BY <2>7 DEF vars
  <2> HIDE DEF kept
  <2> QED BY <2>1, <2>2, <2>3, <2>4, <2>5, <2>6, <2>7 DEF Next, Launcher, Ends
<1> QED BY <1>1, <1>2

\* A request enters or leaves a server.
LEMMA OpenMoves ==
  ASSUME LauncherInv, NEW i \in DOMAIN servers, NEW requests \in SUBSET Requests,
         servers' = [servers EXCEPT ![i].open = requests], InServer
  PROVE LauncherInv' /\ Len(servers') = Len(servers)
<1> DEFINE t == [servers[i] EXCEPT !.open = requests]
<1>1. /\ servers \in Seq(Servers) /\ servers[i] \in Servers /\ (servers[i].host = "gone" => servers[i].phase = "gone")
      /\ args.mode = "mp" /\ servers[i].event = "error" => servers[i].host = "gone"
  BY DEF LauncherInv, LauncherTypes, HeldOrEnded
<1>2. Progress(servers[i], t)
  BY <1>1 DEF Progress, Servers
<1>3. servers' = [servers EXCEPT ![i] = t]
  OBVIOUS
<1>4. Len(servers') = Len(servers)
  BY <1>1, <1>3
<1> QED BY <1>2, <1>3, <1>4, ServerMoves DEF InServer

LEMMA RequestKeeps ==
  ASSUME ProxyInv, NEW q \in Requests,
         (\E i \in DOMAIN servers : Arrive(q, i)) \/ Number(q) \/ Answer(q)
  PROVE LauncherInv' /\ RequestTypes'
<1>1. LauncherInv /\ RequestTypes /\ servers \in Seq(Servers)
  BY DEF ProxyInv, LauncherInv, LauncherTypes
<1>2. ASSUME NEW i \in DOMAIN servers, Arrive(q, i)
      PROVE LauncherInv' /\ RequestTypes'
  <2>1. servers[i] \in Servers
    BY <1>1
  <2>2. servers[i].open \cup {q} \in SUBSET Requests
    BY <2>1 DEF Servers
  <2>3. servers' = [servers EXCEPT ![i].open = servers[i].open \cup {q}] /\ InServer
    BY <1>2 DEF Arrive
  <2>4. LauncherInv' /\ Len(servers') = Len(servers)
    BY <1>1, <2>2, <2>3, OpenMoves
  <2>5. i \in 1..Len(servers)
    BY <1>1
  <2>6. RequestTypes'
    BY <1>1, <1>2, <2>4, <2>5 DEF RequestTypes, Arrive, Attempts
  <2> QED BY <2>4, <2>6
<1>3. CASE Number(q)
  <2>1. UNCHANGED vars
    BY <1>3 DEF Number, InServer, vars
  <2>2. LauncherInv'
    BY <1>1, <2>1, LauncherStep
  <2>3. AttemptOf[q] \in Attempts
    BY DEF Attempts
  <2>4. numbers' \in [Attempts -> Nat] /\ numbers[AttemptOf[q]] + 1 \in Nat
    BY <1>1, <1>3, <2>3 DEF Number, RequestTypes
  <2>5. PICK w : w = [reqs[q] EXCEPT !.at = "sent", !.number = numbers[AttemptOf[q]] + 1]
    OBVIOUS
  <2>6. w.server = reqs[q].server
        /\ w \in [at : {"none", "arrived", "sent", "answered", "failed"}, server : Nat, number : Nat]
    BY <1>1, <2>4, <2>5 DEF RequestTypes
  <2>7. reqs' = [reqs EXCEPT ![q] = w]
    BY <1>3, <2>5 DEF Number
  <2>8. servers' = servers
    BY <2>1 DEF vars
  <2>9. RequestTypes'
    BY <1>1, <2>4, <2>6, <2>7, <2>8 DEF RequestTypes, Attempts
  <2> QED BY <2>2, <2>9
<1>4. CASE Answer(q)
  <2> DEFINE i == reqs[q].server
  <2>1. i \in DOMAIN servers
    BY <1>1, <1>4 DEF Answer, Serving, RequestTypes
  <2>2. servers[i].open \ {q} \in SUBSET Requests
    <3>1. servers[i] \in Servers
      BY <1>1, <2>1
    <3> QED BY <3>1 DEF Servers
  <2>3. servers' = [servers EXCEPT ![i].open = servers[i].open \ {q}] /\ InServer
    BY <1>4 DEF Answer
  <2>4. LauncherInv' /\ Len(servers') = Len(servers)
    BY <1>1, <2>1, <2>2, <2>3, OpenMoves
  <2>5. RequestTypes'
    BY <1>1, <1>4, <2>4 DEF RequestTypes, Answer, Attempts
  <2> QED BY <2>4, <2>5
<1> QED BY <1>2, <1>3, <1>4

LEMMA Unspanning ==
  ASSUME NEW q \in Requests, (\E i \in DOMAIN servers : Arrive(q, i)) \/ Number(q) \/ Answer(q)
  PROVE UNCHANGED <<ended, late, buffer, stored, refused>>
  BY DEF Arrive, Number, Answer

\* A span that is no root goes into the buffer; it completes nothing.
LEMMA PartEnds ==
  ASSUME WaitsForRoot, TraceComplete, NEW q \in Requests, NEW kind \in {"call", "raw"}, SpanEnds(q, kind)
  PROVE (WaitsForRoot /\ TraceComplete)'
<1> DEFINE s == Span(q, kind)
           root == Span(q, "root")
<1>1. s \in Spans /\ s.of = q /\ s.kind = kind /\ s # root
  BY DEF Span, Spans
<1>2. /\ ended' = ended \cup {s} /\ buffer' = buffer \cup {s} /\ s \notin ended
      /\ late' = (IF root \in ended THEN late \cup {s} ELSE late)
      /\ UNCHANGED <<stored, refused>>
  BY <1>1 DEF SpanEnds, Export, Headers
<1>3. WaitsForRoot'
  <2>1. ended' \subseteq Spans /\ buffer' \subseteq ended' /\ late' \subseteq ended'
    BY <1>1, <1>2 DEF WaitsForRoot
  <2>2. \A t \in late' : t.kind # "root" /\ Span(t.of, "root") \in ended'
    BY <1>1, <1>2 DEF WaitsForRoot
  <2>3. \A t \in ended' : Span(t.of, "root") \notin ended' => t \in buffer'
    BY <1>2 DEF WaitsForRoot
  <2> QED BY <2>1, <2>2, <2>3 DEF WaitsForRoot, Span
<1>4. ASSUME NEW t \in ended', Whole(t) \subseteq ended' \ late', Span(t.of, "call") \in ended' \ late'
      PROVE t \notin buffer' /\ (t \in refused' \/ \E e \in stored' : e.span = t)
  <2>1. t \in Spans /\ t \in Whole(t)
    BY <1>1, <1>2 DEF WaitsForRoot, Whole
  <2>2. Span(t.of, "root") \in Whole(t)
    BY <2>1 DEF Whole, Above, Spans, Span
  <2>3. \A u \in Whole(t) : u.of = t.of
    BY <2>1 DEF Whole, Span
  <2>4. Span(t.of, "root") # s
    BY <1>1 DEF Span
  <2>5. Span(t.of, "root") \in ended
    BY <1>2, <1>4, <2>2, <2>4
  <2>6. s \notin Whole(t) /\ s # Span(t.of, "call")
    BY <1>1, <1>2, <1>4, <2>3, <2>5 DEF Span
  <2>7. Whole(t) \subseteq ended \ late /\ Span(t.of, "call") \in ended \ late /\ t \in ended /\ t # s
    BY <1>2, <1>4, <2>1, <2>6
  <2>8. Complete(t)
    BY <2>7, CompleteIsAll
  <2> QED BY <1>2, <2>7, <2>8 DEF Complete
<1>5. TraceComplete'
  BY <1>4 DEF TraceComplete, Whole
<1> QED BY <1>3, <1>5

\* A root takes with it what waits for it, since what ended before it is in
\* the buffer of its process.
LEMMA RootEnds ==
  ASSUME WaitsForRoot, TraceComplete, NEW q \in Requests, SpanEnds(q, "root")
  PROVE (WaitsForRoot /\ TraceComplete)'
<1> DEFINE root == Span(q, "root")
           here == {t \in buffer : Home(t.of) = Home(root.of)} \cup {root}
           tree == Subtree(root, here)
<1>1. root \in Spans /\ root.of = q /\ root.kind = "root"
  BY DEF Span, Spans
<1>2. /\ ended' = ended \cup {root} /\ late' = late /\ root \notin ended
      /\ buffer' = (buffer \cup {root}) \ tree
      /\ IF Headers(tree) = {} THEN UNCHANGED <<stored, refused, faults>>
         ELSE \E h \in Headers(tree), kept \in SUBSET tree :
                /\ refused' = refused \cup (tree \ kept)
                /\ stored' = stored \cup {[span |-> t, attempt |-> h.attempt, number |-> h.number] : t \in kept}
  BY <1>1 DEF SpanEnds, Export
<1>3. \A t \in tree : t \in here /\ t.of = q
  BY <1>1 DEF Subtree
<1>4. \A t \in ended : t.of = q => t \in buffer /\ t \in here
  BY <1>1, <1>2 DEF WaitsForRoot
<1>5. stored \subseteq stored' /\ refused \subseteq refused'
  BY <1>2
<1>6. Headers(tree) # {} => \A t \in tree : t \in refused' \/ \E e \in stored' : e.span = t
  <2> SUFFICES ASSUME Headers(tree) # {}, NEW t \in tree
               PROVE t \in refused' \/ \E e \in stored' : e.span = t
    OBVIOUS
  <2>1. PICK h \in Headers(tree), kept \in SUBSET tree :
          /\ refused' = refused \cup (tree \ kept)
          /\ stored' = stored \cup {[span |-> u, attempt |-> h.attempt, number |-> h.number] : u \in kept}
    BY <1>2
  <2>2. t \in kept => [span |-> t, attempt |-> h.attempt, number |-> h.number] \in stored'
    BY <2>1
  <2>3. [span |-> t, attempt |-> h.attempt, number |-> h.number].span = t
    OBVIOUS
  <2> QED BY <2>1, <2>2, <2>3
<1>7. WaitsForRoot'
  <2>1. ended' \subseteq Spans /\ buffer' \subseteq ended' /\ late' \subseteq ended'
    BY <1>1, <1>2 DEF WaitsForRoot
  <2>2. \A t \in late' : t.kind # "root" /\ Span(t.of, "root") \in ended'
    BY <1>2 DEF WaitsForRoot
  <2>3. \A t \in ended' : Span(t.of, "root") \notin ended' => t \in buffer'
    BY <1>1, <1>2, <1>3 DEF WaitsForRoot
  <2> QED BY <2>1, <2>2, <2>3 DEF WaitsForRoot, Span
<1>8. ASSUME NEW t \in ended', Whole(t) \subseteq ended' \ late', Span(t.of, "call") \in ended' \ late'
      PROVE t \notin buffer' /\ (t \in refused' \/ \E e \in stored' : e.span = t)
  <2>1. t \in Spans /\ t \in Whole(t) /\ \A u \in Whole(t) : u.of = t.of
    BY <1>1, <1>2 DEF WaitsForRoot, Whole, Span
  <2>2. CASE t.of # q
    <3>1. root \notin Whole(t) /\ root # Span(t.of, "call") /\ t # root
      BY <1>1, <2>1, <2>2 DEF Span
    <3>2. t \in ended /\ Whole(t) \subseteq ended \ late /\ Span(t.of, "call") \in ended \ late
      BY <1>2, <1>8, <3>1
    <3>3. Complete(t)
      BY <3>2, CompleteIsAll
    <3> QED BY <1>2, <1>5, <3>1, <3>2, <3>3 DEF Complete
  <2>3. CASE t.of = q
    <3>1. Whole(t) \subseteq here /\ Span(q, "call") \in here
      BY <1>1, <1>2, <1>4, <1>8, <2>1, <2>3 DEF Span
    <3>2. t \in tree
      BY <1>1, <2>1, <2>3, <3>1 DEF Subtree, Whole
    <3>3. Span(q, "call") \in tree /\ Span(q, "call").kind = "call"
      BY <1>1, <3>1 DEF Subtree, Above, Span
    <3>4. Headers(tree) # {}
      BY <3>3 DEF Headers
    <3> QED BY <1>2, <1>6, <3>2, <3>4
  <2> QED BY <2>2, <2>3
<1>9. TraceComplete'
  BY <1>8 DEF TraceComplete, Whole
<1> QED BY <1>7, <1>9

LEMMA ProxyStep == ProxyInv /\ [ProxyNext]_<<vars, proxyVars>> => ProxyInv'
<1> SUFFICES ASSUME ProxyInv, [ProxyNext]_<<vars, proxyVars>> PROVE ProxyInv'
  OBVIOUS
<1>1. LauncherInv /\ RequestTypes /\ WaitsForRoot /\ TraceComplete
  BY DEF ProxyInv
<1>2. CASE [Next]_vars /\ UNCHANGED proxyVars
  <2>1. LauncherInv' /\ Len(servers') \in Nat /\ Len(servers') >= Len(servers) /\ Len(servers) \in Nat
    BY <1>1, <1>2, LauncherStep, ServersStay DEF LauncherInv, LauncherTypes
  <2>2. RequestTypes'
    BY <1>1, <1>2, <2>1 DEF RequestTypes, proxyVars, Attempts
  <2>3. (WaitsForRoot /\ TraceComplete)'
    BY <1>1, <1>2, Unspanned DEF proxyVars
  <2> QED BY <2>1, <2>2, <2>3 DEF ProxyInv
<1>3. ASSUME NEW q \in Requests, (\E i \in DOMAIN servers : Arrive(q, i)) \/ Number(q) \/ Answer(q)
      PROVE ProxyInv'
  <2>1. LauncherInv' /\ RequestTypes'
    BY <1>3, RequestKeeps
  <2>2. (WaitsForRoot /\ TraceComplete)'
    BY <1>1, <1>3, Unspanning, Unspanned
  <2> QED BY <2>1, <2>2 DEF ProxyInv
<1>4. ASSUME NEW q \in Requests, NEW kind \in {"root", "call", "raw"}, SpanEnds(q, kind)
      PROVE ProxyInv'
  <2>1. UNCHANGED <<args, running, held, call, result, servers, reqs, numbers>>
    BY <1>4 DEF SpanEnds, InServer
  <2>2. LauncherInv' /\ RequestTypes'
    BY <1>1, <2>1 DEF LauncherInv, LauncherTypes, HeldOrEnded, RunsWhatItHolds, FailedProcessEnded, CallsFit,
                      Lost, Ended, InPlace,
                      RequestTypes, Attempts
  <2>3. (WaitsForRoot /\ TraceComplete)'
    BY <1>1, <1>4, PartEnds, RootEnds
  <2> QED BY <2>2, <2>3 DEF ProxyInv
<1> QED
  BY <1>2, <1>3, <1>4 DEF ProxyNext, Request, Above

\* With requests in the servers, a stop still leaves none of those behind that
\* the launcher could know, and once the root of a request has ended, each span
\* of it that ended before, with those between them, is in the store or was
\* refused by it; none stays in the buffer, for any number of requests, servers
\* and faults.
THEOREM TracesWhole == ProxySpec => [](StopLeavesNothing /\ TraceComplete)
<1>1. ProxySpec => []ProxyInv
  BY ProxyStarts, ProxyStep, PTL DEF ProxySpec
<1>2. ProxyInv => StopLeavesNothing /\ TraceComplete
  BY StopFromInv DEF ProxyInv
<1> QED BY <1>1, <1>2, PTL

-----------------------------------------------------------------------------
(* Apo. *)

\* What was measured are scores of at least 0, and before the seed's own
\* evaluation there are none.
Taken == {measured[i] : i \in DOMAIN measured}
SearchInv ==
  /\ measured \in Seq(Taken) /\ \A i \in DOMAIN measured : measured[i].score \in Nat
  /\ best.score \in Int
  /\ phase = "seed" => measured = <<>>
  /\ BestIsBest

LEMMA SearchBegins == SearchInit => SearchInv
BY DEF SearchInit, SearchInv, BestIsBest, Result, Worst, Seed, Prompt

\* A further evaluation makes its prompt the best if it came out higher than
\* what is best so far, or is the first.
LEMMA OneMore ==
  ASSUME SearchInv, NEW x, x.score \in Nat, phase' # "seed",
         measured' = Append(measured, x),
         best' = IF x.score > best.score THEN x ELSE best
  PROVE  SearchInv'
<1> DEFINE S == Taken \cup {x}
           n == Len(measured)
<1>1. measured \in Seq(S) /\ x \in S
  BY DEF SearchInv
<1>2. n \in Nat /\ DOMAIN measured = 1..n
  BY <1>1
<1>3. /\ measured' \in Seq(S) /\ DOMAIN measured' = 1..(n + 1) /\ Len(measured') = n + 1
      /\ measured'[n + 1] = x /\ \A i \in 1..n : measured'[i] = measured[i]
  BY <1>1
<1> HIDE DEF S, n
<1>4. \A i \in DOMAIN measured : measured[i].score \in Nat
  BY DEF SearchInv
<1>5. \A i \in DOMAIN measured' : measured'[i].score \in Nat
  <2> SUFFICES ASSUME NEW i \in 1..(n + 1) PROVE measured'[i].score \in Nat
    BY <1>3
  <2> QED BY <1>2, <1>3, <1>4
<1>6. measured' \in Seq(Taken')
  <2>1. \A i \in 1..(n + 1) : measured'[i] \in Taken'
    BY <1>3 DEF Taken
  <2> QED BY <1>2, <1>3, <2>1
<1>7. best'.score \in Int
  BY DEF SearchInv
<1>8. BestIsBest'
  <2>1. measured' # <<>>
    BY <1>2, <1>3
  <2>2. CASE measured = <<>>
    <3>1. n = 0 /\ best' = x
      BY <1>2, <2>2 DEF SearchInv, BestIsBest, Worst, n
    <3> QED BY <1>3, <2>1, <3>1 DEF BestIsBest
  <2>3. CASE measured # <<>>
    <3>1. PICK i \in DOMAIN measured :
            /\ measured[i] = best
            /\ \A j \in DOMAIN measured : measured[j].score < best.score \/ (measured[j].score = best.score /\ i <= j)
      BY <2>3 DEF SearchInv, BestIsBest
    <3>2. CASE x.score > best.score
      <4>1. best' = x /\ \A j \in 1..n : measured'[j].score < best'.score
        BY <1>2, <1>3, <1>4, <1>7, <3>1, <3>2 DEF SearchInv
      <4>2. \A j \in 1..(n + 1) : measured'[j].score < best'.score \/ (measured'[j].score = best'.score /\ n + 1 <= j)
        BY <1>2, <1>3, <4>1
      <4> QED BY <1>2, <1>3, <2>1, <4>1, <4>2 DEF BestIsBest
    <3>3. CASE ~(x.score > best.score)
      <4>1. best' = best /\ measured'[i] = best' /\ i \in 1..(n + 1)
        BY <1>2, <1>3, <3>1, <3>3
      <4>2. \A j \in 1..(n + 1) : measured'[j].score < best'.score \/ (measured'[j].score = best'.score /\ i <= j)
        <5> SUFFICES ASSUME NEW j \in 1..(n + 1)
                     PROVE  measured'[j].score < best.score \/ (measured'[j].score = best.score /\ i <= j)
          BY <4>1
        <5>1. CASE j \in 1..n
          BY <1>2, <1>3, <3>1, <5>1
        <5>2. CASE j = n + 1
          BY <1>2, <1>3, <3>1, <3>3, <5>2 DEF SearchInv
        <5> QED BY <1>2, <5>1, <5>2
      <4> QED BY <1>3, <2>1, <4>1, <4>2 DEF BestIsBest
    <3> QED BY <3>2, <3>3
  <2> QED BY <2>2, <2>3
<1> QED BY <1>5, <1>6, <1>7, <1>8 DEF SearchInv

LEMMA SearchStep == SearchInv /\ [SearchNext]_searchVars => SearchInv'
<1> SUFFICES ASSUME SearchInv, [SearchNext]_searchVars PROVE SearchInv'
  OBVIOUS
<1>1. ASSUME UNCHANGED <<best, measured>>, phase' = "seed" => phase = "seed" PROVE SearchInv'
  BY <1>1 DEF SearchInv, BestIsBest, Taken
<1>2. CASE ValidateSeed
  <2>1. PICK score \in Scores : best' = Result(beam[1], score) /\ measured' = <<Result(beam[1], score)>>
    BY <1>2 DEF ValidateSeed
  <2>2. score \in Nat /\ best'.score = score /\ phase' # "seed"
    BY <1>2, <2>1, SearchAssumption DEF ValidateSeed, Result
  <2>3. measured = <<>> /\ best.score = Worst
    BY <1>2 DEF ValidateSeed, SearchInv, BestIsBest
  <2>4. measured' = Append(measured, best')
    BY <2>1, <2>3
  <2>5. best' = IF best'.score > best.score THEN best' ELSE best
    BY <2>2, <2>3 DEF Worst
  <2> QED BY <2>2, <2>4, <2>5, OneMore
<1>3. CASE Lead
  <2>1. PICK score \in Scores :
          /\ measured' = Append(measured, Result(beam[1], score))
          /\ best' = IF Better(score) THEN Result(beam[1], score) ELSE best
    BY <1>3 DEF Lead
  <2> DEFINE x == Result(beam[1], score)
  <2>2. x.score = score /\ x.score \in Nat /\ phase' # "seed"
    BY <1>3, <2>1, SearchAssumption DEF Lead, Result
  <2>3. best' = IF x.score > best.score THEN x ELSE best
    BY <2>1, <2>2 DEF Better
  <2> HIDE DEF x
  <2>4. measured' = Append(measured, x)
    BY <2>1 DEF x
  <2> QED BY <2>2, <2>3, <2>4, OneMore
<1>4. CASE StartRound \/ Edit \/ StartScoring \/ Score \/ Select \/ Fail
  BY <1>1, <1>4 DEF StartRound, Edit, StartScoring, Score, Select, Fail
<1>5. CASE UNCHANGED searchVars
  BY <1>1, <1>5 DEF searchVars
<1> QED BY <1>2, <1>3, <1>4, <1>5 DEF SearchNext

\* Whatever the scores, widths and rounds, and also when the run fails, the
\* prompt that get_best_prompt returns has the highest of all scores measured
\* on the whole validation set, and is the first that reached it.
THEOREM BestReturned == SearchSpec => []BestIsBest
<1>1. SearchInv => BestIsBest BY DEF SearchInv
<1> QED BY SearchBegins, SearchStep, <1>1, PTL DEF SearchSpec

-----------------------------------------------------------------------------
(* Baseline. *)

Sent ==
  [sample : Nat, epoch : Nat, mode : {"train", "val"}, tries : Nat, version : {0, 1},
   status : {"queuing", "requeuing", "running", "succeeded", "failed", "cancelled"}]

BaselineTypes ==
  /\ pc \in {"begin", "resources", "look", "enqueue", "gather", "leave", "done", "raise", "raised", "unstopped"}
  /\ mine \in BOOLEAN /\ version \in {0, 1}
  /\ epoch \in Nat \ {0} /\ index \in Nat \ {0}
  /\ rollouts \in Seq(Sent) /\ queue \in Seq(Nat)
  /\ handled \in Seq(Nat) /\ Len(handled) = Len(rollouts) /\ tasks \subseteq DOMAIN rollouts
  /\ lost \subseteq DOMAIN rollouts /\ tasks \cap lost = {}

RunPlace ==
  /\ pc \in {"begin", "resources"} => rollouts = <<>> /\ epoch = 1 /\ index = 1
  /\ pc = "resources" => Size > 0
  /\ pc \in {"look", "enqueue", "gather"} => epoch <= Epochs /\ index \in Indices
  /\ pc = "gather" => index = 1
  /\ pc \in {"leave", "done"} => (Size = 0 \/ epoch >= Epochs) /\ tasks = {} /\ lost = {}

\* Until the run raises, the samples behind it have been sent, each once per
\* epoch.
OnItsWay == pc \notin {"raise", "raised", "unstopped"}
SentIn(e, i) == \E r \in DOMAIN rollouts : rollouts[r].epoch = e /\ rollouts[r].sample = i
Behind(e, i) == e < epoch \/ (e = epoch /\ (i < index \/ pc \in {"gather", "leave", "done"}))
SentInOrder ==
  /\ OnItsWay => \A e \in 1..Epochs, i \in Indices : SentIn(e, i) <=> Behind(e, i)
  /\ \A r \in DOMAIN rollouts :
       rollouts[r].epoch \in 1..Epochs /\ rollouts[r].epoch <= epoch /\ rollouts[r].sample \in Indices
  /\ \A r, s \in DOMAIN rollouts :
       rollouts[r].epoch = rollouts[s].epoch /\ rollouts[r].sample = rollouts[s].sample => r = s

\* What no task awaits any more was handled once, after it was over, or its
\* task failed; the tasks that run or failed are of this epoch.
HandledOnce ==
  /\ \A r \in DOMAIN rollouts : r \in tasks \cup lost => handled[r] = 0
  /\ \A r \in DOMAIN rollouts : r \notin tasks \cup lost => handled[r] = 1 /\ rollouts[r].status \in Over
  /\ \A r \in tasks \cup lost : rollouts[r].epoch = epoch

\* The queue has what waits, once.
QueueHolds ==
  /\ \A k \in DOMAIN queue : queue[k] \in DOMAIN rollouts /\ rollouts[queue[k]].status \in {"queuing", "requeuing"}
  /\ \A k, l \in DOMAIN queue : queue[k] = queue[l] => k = l
  /\ \A r \in DOMAIN rollouts : rollouts[r].status = "queuing" => \E k \in DOMAIN queue : queue[k] = r
Waiting == {r \in DOMAIN rollouts : rollouts[r].status = "queuing"}
FewWait ==
  /\ IsFiniteSet(Waiting) /\ Cardinality(Waiting) <= MaxQueue + 1
  /\ pc = "enqueue" => Cardinality(Waiting) <= MaxQueue

ProxyKept ==
  /\ pc = "begin" => ~mine
  /\ mine => /\ found = "stopped"
             /\ pc # "unstopped" => proxy = IF pc \in {"done", "raised"} THEN "stopped" ELSE "running"
  /\ ~mine => proxy = found
CallsNamed == \A c \in ran : c.llm = Plain \/ (c.llm.rollout = c.rollout /\ c.llm.attempt = c.attempt)

BaselineInv ==
  BaselineTypes /\ RunPlace /\ SentInOrder /\ HandledOnce /\ QueueHolds /\ FewWait /\ ProxyKept /\ CallsNamed

LEMMA BaselineBegins == BaselineInit => BaselineInv
<1> SUFFICES ASSUME BaselineInit PROVE BaselineInv
  OBVIOUS
<1>1. rollouts = <<>> /\ DOMAIN rollouts = {} /\ queue = <<>> /\ DOMAIN queue = {} /\ handled = <<>> /\ Waiting = {}
  BY DEF BaselineInit, Waiting
<1>2. BaselineTypes
  <2>1. rollouts \in Seq(Sent) /\ queue \in Seq(Nat) /\ handled \in Seq(Nat) /\ Len(handled) = Len(rollouts)
    BY <1>1
  <2>2. /\ pc = "begin" /\ mine \in BOOLEAN /\ version = 0 /\ epoch = 1 /\ index = 1 /\ tasks = {} /\ lost = {}
    BY DEF BaselineInit
  <2> QED BY <2>1, <2>2 DEF BaselineTypes
<1>5. RunPlace /\ ProxyKept /\ CallsNamed
  BY <1>1 DEF BaselineInit, RunPlace, ProxyKept, CallsNamed
<1>6. HandledOnce /\ QueueHolds
  BY <1>1 DEF BaselineInit, HandledOnce, QueueHolds
<1>3. FewWait
  BY <1>1, FS_EmptySet, BaselineAssumption DEF BaselineInit, FewWait
<1>4. SentInOrder
  BY <1>1 DEF BaselineInit, SentInOrder, SentIn, Behind, Indices, OnItsWay
<1> QED BY <1>2, <1>3, <1>4, <1>5, <1>6 DEF BaselineInv

LEMMA SizeIsNat == Size \in Nat /\ Epochs \in Nat /\ MaxQueue \in Nat /\ Indices = 1..Size
BY BaselineAssumption DEF Size, Indices

LEMMA BaselineDomains ==
  ASSUME BaselineTypes
  PROVE  /\ Len(rollouts) \in Nat /\ DOMAIN rollouts = 1..Len(rollouts) /\ DOMAIN handled = 1..Len(rollouts)
         /\ Len(queue) \in Nat /\ DOMAIN queue = 1..Len(queue)
         /\ \A r \in DOMAIN rollouts : rollouts[r] \in Sent /\ handled[r] \in Nat
         /\ \A k \in DOMAIN queue : queue[k] \in Nat
<1>1. rollouts \in Seq(Sent) /\ handled \in Seq(Nat) /\ queue \in Seq(Nat) /\ Len(handled) = Len(rollouts)
  BY DEF BaselineTypes
<1> QED BY <1>1

\* No more rollouts are new than wait.
LEMMA WaitingBound ==
  ASSUME BaselineTypes, QueueHolds
  PROVE  IsFiniteSet(Waiting) /\ Cardinality(Waiting) \in Nat /\ Cardinality(Waiting) <= Len(queue)
<1> DEFINE T == {queue[k] : k \in DOMAIN queue}
<1>1. Len(queue) \in Nat /\ DOMAIN queue = 1..Len(queue) /\ queue \in Surjection(1..Len(queue), T)
  <2>1. Len(queue) \in Nat /\ DOMAIN queue = 1..Len(queue) /\ queue \in Seq(Nat)
    BY BaselineDomains DEF BaselineTypes
  <2>2. queue \in [1..Len(queue) -> T]
    BY <2>1
  <2> QED BY <2>1, <2>2 DEF Surjection
<1> HIDE DEF T
<1>2. IsFiniteSet(1..Len(queue)) /\ Cardinality(1..Len(queue)) = Len(queue)
  <2>1. /\ IsFiniteSet(1..Len(queue))
        /\ Cardinality(1..Len(queue)) = IF 1 > Len(queue) THEN 0 ELSE Len(queue) - 1 + 1
    BY <1>1, FS_Interval
  <2> QED BY <1>1, <2>1
<1>3. IsFiniteSet(T) /\ Cardinality(T) <= Len(queue)
  BY <1>1, <1>2, FS_Surjection
<1>4. Waiting \subseteq T
  BY DEF Waiting, T, QueueHolds
<1>5. Cardinality(T) \in Nat
  BY <1>3, FS_CardinalityType
<1>6. IsFiniteSet(Waiting) /\ Cardinality(Waiting) <= Cardinality(T)
  BY <1>3, <1>4, FS_Subset
<1>7. Cardinality(Waiting) \in Nat
  BY <1>6, FS_CardinalityType
<1> QED BY <1>1, <1>3, <1>5, <1>6, <1>7

\* The run moves on: what it passes has been sent.
LEMMA RunMoves ==
  ASSUME BaselineInv,
         \/ StartProxy \/ StartProxyFails \/ StopProxy \/ StopProxyFails
         \/ UpdateResources \/ Look \/ Fails \/ Gather \/ GatherFails
  PROVE  BaselineInv'
<1>1. UNCHANGED <<index, queue, rollouts, tasks, lost, handled, ran>>
  BY DEF StartProxy, StartProxyFails, StopProxy, StopProxyFails, UpdateResources, Look, Fails, Gather, GatherFails
<1>2. BaselineTypes /\ RunPlace /\ SentInOrder /\ HandledOnce /\ QueueHolds /\ FewWait /\ ProxyKept /\ CallsNamed
  BY DEF BaselineInv
<1>3. epoch \in Nat \ {0} /\ epoch' \in Nat \ {0} /\ index \in Nat \ {0}
  BY <1>2 DEF StartProxy, StartProxyFails, StopProxy, StopProxyFails, UpdateResources, Look, Fails, Gather, GatherFails, BaselineTypes
<1>4. BaselineTypes'
  BY <1>1, <1>2, <1>3 DEF StartProxy, StartProxyFails, StopProxy, StopProxyFails, UpdateResources, Look, Fails, Gather, GatherFails, BaselineTypes
<1>5. RunPlace'
  <2>1. CASE StartProxy
    BY <1>1, <1>2, <2>1, SizeIsNat DEF StartProxy, RunPlace, BaselineTypes
  <2>2. CASE StartProxyFails \/ StopProxy \/ StopProxyFails \/ Look \/ Fails \/ GatherFails
    BY <1>1, <1>2, <2>2 DEF StartProxyFails, StopProxy, StopProxyFails, Look, Fails, GatherFails, RunPlace
  <2>3. CASE UpdateResources
    BY <1>1, <1>2, <2>3, SizeIsNat DEF UpdateResources, RunPlace, BaselineTypes
  <2>4. CASE Gather
    BY <1>1, <1>2, <1>3, <2>4, SizeIsNat DEF Gather, Gathered, RunPlace
  <2> QED BY <2>1, <2>2, <2>3, <2>4, Zenon
<1>6. ASSUME OnItsWay' PROVE OnItsWay /\ \A e \in 1..Epochs, i \in Indices : Behind(e, i)' <=> Behind(e, i)
  <2>1. CASE StartProxy \/ StopProxy \/ UpdateResources \/ Look
    BY <1>1, <1>2, <1>6, <2>1, SizeIsNat DEF StartProxy, StopProxy, UpdateResources, Look, OnItsWay, Behind
  <2>2. CASE Gather
    BY <1>1, <1>2, <1>3, <2>2, SizeIsNat DEF Gather, Behind, RunPlace, OnItsWay
  <2>3. ~(StartProxyFails \/ StopProxyFails \/ Fails \/ GatherFails)
    BY <1>6 DEF StartProxyFails, StopProxyFails, Fails, GatherFails, OnItsWay
  <2> QED BY <2>1, <2>2, <2>3, Zenon
<1>7. SentInOrder'
  <2>1. epoch <= epoch'
    BY <1>3 DEF StartProxy, StartProxyFails, StopProxy, StopProxyFails, UpdateResources, Look, Fails, Gather, GatherFails
  <2>2. \A r \in DOMAIN rollouts :
          rollouts[r].epoch \in 1..Epochs /\ rollouts[r].epoch <= epoch' /\ rollouts[r].sample \in Indices
    BY <1>2, <1>3, <2>1, SizeIsNat DEF SentInOrder
  <2>3. OnItsWay' => \A e \in 1..Epochs, i \in Indices : SentIn(e, i)' <=> Behind(e, i)'
    BY <1>1, <1>2, <1>6 DEF SentInOrder, SentIn
  <2> QED BY <1>1, <1>2, <2>2, <2>3 DEF SentInOrder
<1>8. HandledOnce'
  BY <1>1, <1>2 DEF StartProxy, StartProxyFails, StopProxy, StopProxyFails, UpdateResources, Look, Fails, Gather, GatherFails, Gathered, HandledOnce
<1>9. QueueHolds' /\ CallsNamed'
  BY <1>1, <1>2 DEF QueueHolds, CallsNamed
<1>10. FewWait'
  <2>1. Waiting' = Waiting
    BY <1>1 DEF Waiting
  <2>2. CASE Look
    BY <1>2, <2>1, <2>2, WaitingBound, BaselineDomains, SizeIsNat DEF Look, FewWait
  <2>3. CASE \/ StartProxy \/ StartProxyFails \/ StopProxy \/ StopProxyFails
             \/ UpdateResources \/ Fails \/ Gather \/ GatherFails
    BY <1>2, <2>1, <2>3
    DEF StartProxy, StartProxyFails, StopProxy, StopProxyFails, UpdateResources, Fails, Gather, GatherFails, FewWait
  <2> QED BY <2>2, <2>3
<1>11. ProxyKept'
  <2>1. CASE StartProxy \/ StartProxyFails
    BY <1>2, <2>1 DEF StartProxy, StartProxyFails, ProxyKept, BaselineTypes
  <2>2. CASE StopProxy \/ StopProxyFails
    BY <1>2, <2>2 DEF StopProxy, StopProxyFails, ProxyKept, Left, BaselineTypes
  <2>3. CASE UpdateResources \/ Look \/ Fails \/ Gather \/ GatherFails
    BY <1>2, <2>3 DEF UpdateResources, Look, Fails, Gather, GatherFails, ProxyKept
  <2> QED BY <2>1, <2>2, <2>3
<1> QED BY <1>4, <1>5, <1>7, <1>8, <1>9, <1>10, <1>11 DEF BaselineInv

\* The next sample is sent for the first time in its epoch.
LEMMA EnqueueKeeps == ASSUME BaselineInv, Enqueue PROVE BaselineInv'
<1>n. PICK n : n = Len(rollouts)
  OBVIOUS
<1>x. PICK x : x = [sample |-> index, epoch |-> epoch, mode |-> Mode(index),
                    status |-> "queuing", tries |-> 0, version |-> version]
  OBVIOUS
<1>1. BaselineTypes /\ RunPlace /\ SentInOrder /\ HandledOnce /\ QueueHolds /\ FewWait /\ ProxyKept /\ CallsNamed
  BY DEF BaselineInv
<1>2. /\ pc = "enqueue" /\ epoch \in 1..Epochs /\ index \in Indices /\ epoch' = epoch
      /\ rollouts' = Append(rollouts, x) /\ queue' = Append(queue, n + 1) /\ tasks' = tasks \cup {n + 1}
      /\ handled' = Append(handled, 0) /\ index' = (IF index < Size THEN index + 1 ELSE 1)
      /\ pc' = (IF index < Size THEN "look" ELSE "gather")
      /\ UNCHANGED <<proxy, found, mine, version, lost, ran>>
  BY <1>1, <1>n, <1>x, SizeIsNat DEF Enqueue, BaselineTypes, RunPlace
<1>3. /\ n \in Nat /\ DOMAIN rollouts = 1..n /\ DOMAIN handled = 1..n /\ Len(handled) = n
      /\ Len(queue) \in Nat /\ DOMAIN queue = 1..Len(queue)
      /\ rollouts \in Seq(Sent) /\ handled \in Seq(Nat) /\ queue \in Seq(Nat)
      /\ \A r \in 1..n : rollouts[r] \in Sent
  BY <1>1, <1>n, BaselineDomains DEF BaselineTypes
<1>4. /\ x \in Sent /\ x.sample = index /\ x.epoch = epoch /\ x.status = "queuing"
  <2>1. Mode(index) \in {"train", "val"} /\ index \in Nat /\ epoch \in Nat /\ version \in {0, 1}
    BY <1>1 DEF Mode, BaselineTypes
  <2> QED BY <1>x, <2>1 DEF Sent
<1>5. /\ rollouts' \in Seq(Sent) /\ Len(rollouts') = n + 1 /\ DOMAIN rollouts' = 1..(n + 1) /\ rollouts'[n + 1] = x
      /\ \A r \in 1..n : rollouts'[r] = rollouts[r]
  BY <1>2, <1>3, <1>4
<1>6. /\ handled' \in Seq(Nat) /\ Len(handled') = n + 1 /\ handled'[n + 1] = 0
      /\ \A r \in 1..n : handled'[r] = handled[r]
  BY <1>2, <1>3
<1>7. /\ queue' \in Seq(Nat) /\ DOMAIN queue' = 1..(Len(queue) + 1) /\ queue'[Len(queue) + 1] = n + 1
      /\ \A k \in 1..Len(queue) : queue'[k] = queue[k]
  BY <1>2, <1>3
<1>8. BaselineTypes'
  <2>1. index' \in Nat \ {0} /\ (tasks' \cup lost') \subseteq DOMAIN rollouts' /\ tasks' \cap lost' = {}
    BY <1>1, <1>2, <1>3, <1>5, SizeIsNat DEF BaselineTypes
  <2> QED BY <1>1, <1>2, <1>5, <1>6, <1>7, <2>1 DEF BaselineTypes
<1>9. RunPlace'
  BY <1>2, SizeIsNat DEF RunPlace
<1>10. SentInOrder'
  <2>1. \A e \in 1..Epochs, i \in Indices : SentIn(e, i)' <=> (SentIn(e, i) \/ (e = epoch /\ i = index))
    <3> SUFFICES ASSUME NEW e \in 1..Epochs, NEW i \in Indices
                 PROVE  SentIn(e, i)' <=> (SentIn(e, i) \/ (e = epoch /\ i = index))
      OBVIOUS
    <3>1. SentIn(e, i)' <=> \E r \in 1..(n + 1) : rollouts'[r].epoch = e /\ rollouts'[r].sample = i
      BY <1>5 DEF SentIn
    <3>2. SentIn(e, i) <=> \E r \in 1..n : rollouts'[r].epoch = e /\ rollouts'[r].sample = i
      BY <1>3, <1>5 DEF SentIn
    <3>3. \A r : r \in 1..(n + 1) <=> r \in 1..n \/ r = n + 1
      BY <1>3
    <3>4. rollouts'[n + 1].epoch = epoch /\ rollouts'[n + 1].sample = index
      BY <1>4, <1>5
    <3> QED BY <3>1, <3>2, <3>3, <3>4
  <2>2. \A e \in 1..Epochs, i \in Indices : Behind(e, i)' <=> (Behind(e, i) \/ (e = epoch /\ i = index))
    BY <1>2, SizeIsNat DEF Behind
  <2>3. \A r \in 1..n : ~(rollouts[r].epoch = epoch /\ rollouts[r].sample = index)
    <3>1. ~Behind(epoch, index) /\ ~SentIn(epoch, index)
      BY <1>1, <1>2, SizeIsNat DEF Behind, SentInOrder, OnItsWay
    <3> QED BY <1>3, <3>1 DEF SentIn
  <2>4. \A r \in DOMAIN rollouts' :
          rollouts'[r].epoch \in 1..Epochs /\ rollouts'[r].epoch <= epoch' /\ rollouts'[r].sample \in Indices
    BY <1>1, <1>2, <1>3, <1>4, <1>5 DEF SentInOrder
  <2>5. \A r, s \in DOMAIN rollouts' :
          rollouts'[r].epoch = rollouts'[s].epoch /\ rollouts'[r].sample = rollouts'[s].sample => r = s
    <3> SUFFICES ASSUME NEW r \in 1..(n + 1), NEW s \in 1..(n + 1),
                        rollouts'[r].epoch = rollouts'[s].epoch, rollouts'[r].sample = rollouts'[s].sample
                 PROVE  r = s
      BY <1>5
    <3>1. (r \in 1..n \/ r = n + 1) /\ (s \in 1..n \/ s = n + 1)
      BY <1>3
    <3>2. CASE r \in 1..n /\ s \in 1..n
      BY <1>1, <1>3, <1>5, <3>2 DEF SentInOrder
    <3>3. CASE r \in 1..n /\ s = n + 1
      BY <1>4, <1>5, <2>3, <3>3
    <3>4. CASE r = n + 1 /\ s \in 1..n
      BY <1>4, <1>5, <2>3, <3>4
    <3> QED BY <3>1, <3>2, <3>3, <3>4
  <2>6. \A e \in 1..Epochs, i \in Indices : SentIn(e, i)' <=> Behind(e, i)'
    BY <1>1, <1>2, <2>1, <2>2 DEF SentInOrder, OnItsWay
  <2> QED BY <2>4, <2>5, <2>6 DEF SentInOrder
<1>11. HandledOnce'
  BY <1>1, <1>2, <1>3, <1>4, <1>5, <1>6 DEF HandledOnce, BaselineTypes
<1>12. QueueHolds'
  <2>1. \A k \in 1..Len(queue) : queue[k] \in 1..n /\ rollouts[queue[k]].status \in {"queuing", "requeuing"}
    BY <1>1, <1>3 DEF QueueHolds
  <2>2. \A k \in DOMAIN queue' : queue'[k] \in DOMAIN rollouts' /\ rollouts'[queue'[k]].status \in {"queuing", "requeuing"}
    <3> SUFFICES ASSUME NEW k \in 1..(Len(queue) + 1)
                 PROVE  queue'[k] \in 1..(n + 1) /\ rollouts'[queue'[k]].status \in {"queuing", "requeuing"}
      BY <1>5, <1>7
    <3>1. CASE k \in 1..Len(queue)
      <4>1. queue'[k] \in 1..n /\ rollouts[queue'[k]].status \in {"queuing", "requeuing"}
        BY <1>7, <2>1, <3>1
      <4> QED BY <1>3, <1>5, <4>1
    <3>2. CASE k = Len(queue) + 1
      BY <1>3, <1>4, <1>5, <1>7, <3>2
    <3> QED BY <1>3, <3>1, <3>2
  <2>3. \A k, l \in DOMAIN queue' : queue'[k] = queue'[l] => k = l
    <3> SUFFICES ASSUME NEW k \in 1..(Len(queue) + 1), NEW l \in 1..(Len(queue) + 1), queue'[k] = queue'[l]
                 PROVE  k = l
      BY <1>7
    <3>1. (k \in 1..Len(queue) \/ k = Len(queue) + 1) /\ (l \in 1..Len(queue) \/ l = Len(queue) + 1)
      BY <1>3
    <3>2. \A j \in 1..Len(queue) : queue'[j] = queue[j] /\ queue'[j] # n + 1
      BY <1>3, <1>7, <2>1
    <3>3. CASE k \in 1..Len(queue) /\ l \in 1..Len(queue)
      BY <1>1, <1>3, <3>2, <3>3 DEF QueueHolds
    <3> QED BY <1>7, <3>1, <3>2, <3>3
  <2>4. ASSUME NEW r \in DOMAIN rollouts', rollouts'[r].status = "queuing" PROVE \E k \in DOMAIN queue' : queue'[k] = r
    <3>1. CASE r = n + 1
      <4>1. Len(queue) + 1 \in DOMAIN queue' /\ queue'[Len(queue) + 1] = r
        BY <1>3, <1>7, <3>1
      <4> QED BY <4>1
    <3>2. CASE r \in 1..n
      <4>1. PICK k \in 1..Len(queue) : queue[k] = r
        BY <1>1, <1>3, <1>5, <2>4, <3>2 DEF QueueHolds
      <4>2. queue'[k] = r /\ k \in DOMAIN queue'
        BY <1>3, <1>7, <4>1
      <4> QED BY <4>2
    <3>3. r \in 1..n \/ r = n + 1
      BY <1>3, <1>5, <2>4
    <3> QED BY <3>1, <3>2, <3>3
  <2> QED BY <2>2, <2>3, <2>4 DEF QueueHolds
<1>13. FewWait'
  <2>1. Waiting' = Waiting \cup {n + 1} /\ n + 1 \notin Waiting
    BY <1>3, <1>4, <1>5 DEF Waiting
  <2>2. IsFiniteSet(Waiting) /\ Cardinality(Waiting) \in Nat /\ Cardinality(Waiting) <= MaxQueue
    BY <1>1, <1>2, WaitingBound DEF FewWait
  <2>3. IsFiniteSet(Waiting') /\ Cardinality(Waiting') = Cardinality(Waiting) + 1
    BY <2>1, <2>2, FS_AddElement
  <2> QED BY <1>2, <2>2, <2>3, SizeIsNat DEF FewWait
<1>14. ProxyKept' /\ CallsNamed'
  BY <1>1, <1>2 DEF ProxyKept, CallsNamed
<1> QED BY <1>8, <1>9, <1>10, <1>11, <1>12, <1>13, <1>14 DEF BaselineInv

\* A task finds its rollout over and handles it.
LEMMA HarvestKeeps ==
  ASSUME BaselineInv, NEW r \in DOMAIN rollouts, Harvest(r)
  PROVE  BaselineInv'
<1>1. BaselineTypes /\ RunPlace /\ SentInOrder /\ HandledOnce /\ QueueHolds /\ FewWait /\ ProxyKept /\ CallsNamed
  BY DEF BaselineInv
<1>2. /\ r \in tasks /\ rollouts[r].status \in Over /\ tasks' = tasks \ {r}
      /\ handled' = [handled EXCEPT ![r] = @ + 1]
      /\ UNCHANGED <<pc, proxy, found, mine, initial, version, epoch, index, queue, rollouts, lost, ran>>
  BY DEF Harvest
<1>3. /\ handled' \in Seq(Nat) /\ Len(handled') = Len(handled) /\ handled'[r] = handled[r] + 1
      /\ \A s \in DOMAIN rollouts : s # r => handled'[s] = handled[s]
  <2>1. handled \in Seq(Nat) /\ r \in 1..Len(handled) /\ DOMAIN rollouts = 1..Len(handled)
    BY <1>1, BaselineDomains DEF BaselineTypes
  <2>2. handled[r] + 1 \in Nat
    BY <2>1
  <2> QED BY <1>2, <2>1, <2>2
<1>4. BaselineTypes' /\ RunPlace'
  BY <1>1, <1>2, <1>3 DEF BaselineTypes, RunPlace
<1>5. SentInOrder' /\ QueueHolds' /\ FewWait' /\ ProxyKept' /\ CallsNamed'
  BY <1>1, <1>2 DEF SentInOrder, SentIn, Behind, OnItsWay, QueueHolds, FewWait, Waiting, ProxyKept, CallsNamed
<1>6. HandledOnce'
  <2>1. r \notin lost /\ handled[r] = 0
    BY <1>1, <1>2 DEF BaselineTypes, HandledOnce
  <2>2. \A s \in DOMAIN rollouts : s \in tasks' \cup lost' <=> s \in tasks \cup lost /\ s # r
    BY <1>2, <2>1
  <2>3. handled'[r] = 1
    BY <1>3, <2>1
  <2> QED BY <1>1, <1>2, <1>3, <2>2, <2>3 DEF HandledOnce
<1> QED BY <1>4, <1>5, <1>6 DEF BaselineInv

\* A task raises, and its rollout is not handled.
LEMMA HarvestFailsKeeps ==
  ASSUME BaselineInv, NEW r \in DOMAIN rollouts, HarvestFails(r)
  PROVE  BaselineInv'
<1>1. BaselineTypes /\ RunPlace /\ SentInOrder /\ HandledOnce /\ QueueHolds /\ FewWait /\ ProxyKept /\ CallsNamed
  BY DEF BaselineInv
<1>2. /\ r \in tasks /\ tasks' = tasks \ {r} /\ lost' = lost \cup {r} /\ tasks' \cup lost' = tasks \cup lost
      /\ UNCHANGED <<pc, proxy, found, mine, initial, version, epoch, index, queue, rollouts, handled, ran>>
  BY DEF HarvestFails
<1>3. BaselineTypes' /\ RunPlace'
  BY <1>1, <1>2 DEF BaselineTypes, RunPlace
<1>4. SentInOrder' /\ QueueHolds' /\ FewWait' /\ ProxyKept' /\ CallsNamed'
  BY <1>1, <1>2 DEF SentInOrder, SentIn, Behind, OnItsWay, QueueHolds, FewWait, Waiting, ProxyKept, CallsNamed
<1>5. HandledOnce'
  BY <1>1, <1>2 DEF HandledOnce
<1> QED BY <1>3, <1>4, <1>5 DEF BaselineInv

\* The status of one rollout changes; nothing new waits.
LEMMA StatusKeeps ==
  ASSUME BaselineInv, NEW r \in DOMAIN rollouts, NEW x \in Sent,
         x.sample = rollouts[r].sample, x.epoch = rollouts[r].epoch, x.status # "queuing",
         rollouts[r].status \notin Over, rollouts' = [rollouts EXCEPT ![r] = x],
         UNCHANGED <<pc, proxy, found, mine, initial, version, epoch, index, tasks, lost, handled>>,
         queue' \in Seq(Nat), QueueHolds', CallsNamed'
  PROVE  BaselineInv'
<1>1. BaselineTypes /\ RunPlace /\ SentInOrder /\ HandledOnce /\ FewWait /\ ProxyKept
  BY DEF BaselineInv
<1>2. /\ rollouts' \in Seq(Sent) /\ Len(rollouts') = Len(rollouts) /\ DOMAIN rollouts' = DOMAIN rollouts
      /\ rollouts'[r] = x /\ \A s \in DOMAIN rollouts : s # r => rollouts'[s] = rollouts[s]
  BY <1>1 DEF BaselineTypes
<1>3. \A s \in DOMAIN rollouts : rollouts'[s].sample = rollouts[s].sample /\ rollouts'[s].epoch = rollouts[s].epoch
  BY <1>2
<1>4. BaselineTypes'
  BY <1>1, <1>2 DEF BaselineTypes
<1>5. RunPlace' /\ ProxyKept'
  <2>1. rollouts # <<>>
    BY <1>1 DEF BaselineTypes
  <2> QED BY <1>1, <2>1 DEF RunPlace, ProxyKept
<1>6. SentInOrder'
  <2>1. \A e \in 1..Epochs, i \in Indices : (SentIn(e, i)' <=> SentIn(e, i)) /\ (Behind(e, i)' <=> Behind(e, i))
    BY <1>2, <1>3 DEF SentIn, Behind
  <2>2. OnItsWay' => \A e \in 1..Epochs, i \in Indices : SentIn(e, i)' <=> Behind(e, i)'
    BY <1>1, <2>1 DEF SentInOrder, OnItsWay
  <2>3. \A s \in DOMAIN rollouts' :
          rollouts'[s].epoch \in 1..Epochs /\ rollouts'[s].epoch <= epoch' /\ rollouts'[s].sample \in Indices
    BY <1>1, <1>2, <1>3 DEF SentInOrder
  <2>4. \A s, u \in DOMAIN rollouts' :
          rollouts'[s].epoch = rollouts'[u].epoch /\ rollouts'[s].sample = rollouts'[u].sample => s = u
    <3>1. \A s, u \in DOMAIN rollouts :
            rollouts[s].epoch = rollouts[u].epoch /\ rollouts[s].sample = rollouts[u].sample => s = u
      BY <1>1 DEF SentInOrder
    <3>2. DOMAIN rollouts' = DOMAIN rollouts
      BY <1>2
    <3> QED BY <1>3, <3>1, <3>2
  <2> QED BY <2>2, <2>3, <2>4 DEF SentInOrder
<1>7. HandledOnce'
  <2>1. r \in tasks \cup lost
    BY <1>1 DEF HandledOnce
  <2> QED BY <1>1, <1>2, <1>3, <2>1 DEF HandledOnce, BaselineTypes
<1>8. FewWait'
  <2>1. Waiting' \subseteq Waiting
    BY <1>2 DEF Waiting
  <2>2. IsFiniteSet(Waiting) /\ Cardinality(Waiting) \in Nat
    BY <1>1, FS_CardinalityType DEF FewWait
  <2>3. IsFiniteSet(Waiting') /\ Cardinality(Waiting') <= Cardinality(Waiting)
    BY <2>1, <2>2, FS_Subset
  <2>4. Cardinality(Waiting') \in Nat
    BY <2>3, FS_CardinalityType
  <2> QED BY <1>1, <2>2, <2>3, <2>4, SizeIsNat DEF FewWait
<1> QED BY <1>4, <1>5, <1>6, <1>7, <1>8 DEF BaselineInv

LEMMA ClaimKeeps == ASSUME BaselineInv, Claim PROVE BaselineInv'
<1>r. PICK r : r = Head(queue)
  OBVIOUS
<1>n. PICK n : n = Len(queue)
  OBVIOUS
<1>x. PICK x : x = [rollouts[r] EXCEPT !.status = "running", !.tries = rollouts[r].tries + 1]
  OBVIOUS
<1>1. BaselineTypes /\ QueueHolds /\ CallsNamed
  BY DEF BaselineInv
<1>2. /\ queue # <<>> /\ rollouts' = [rollouts EXCEPT ![r] = x] /\ queue' = Tail(queue)
      /\ UNCHANGED <<pc, proxy, found, mine, initial, version, epoch, index, tasks, lost, handled>>
      /\ \/ ran' = ran
         \/ ran' = ran \cup {[rollout |-> r, attempt |-> rollouts[r].tries + 1,
                              llm |-> LlmOf(initial, r, rollouts[r].tries + 1)]}
  BY <1>r, <1>x DEF Claim
<1>3. /\ n \in Nat \ {0} /\ DOMAIN queue = 1..n /\ queue \in Seq(Nat) /\ r = queue[1] /\ r \in DOMAIN rollouts
      /\ rollouts[r].status \in {"queuing", "requeuing"} /\ rollouts[r] \in Sent
  <2>1. queue \in Seq(Nat) /\ n \in Nat \ {0} /\ DOMAIN queue = 1..n /\ r = queue[1]
    BY <1>1, <1>2, <1>r, <1>n DEF BaselineTypes
  <2>2. r \in DOMAIN rollouts /\ rollouts[r].status \in {"queuing", "requeuing"}
    BY <1>1, <2>1 DEF QueueHolds
  <2> QED BY <1>1, <2>1, <2>2, BaselineDomains
<1>4. x \in Sent /\ x.sample = rollouts[r].sample /\ x.epoch = rollouts[r].epoch /\ x.status = "running"
  <2>1. rollouts[r].tries + 1 \in Nat
    BY <1>3 DEF Sent
  <2>2. PICK k : k = rollouts[r].tries + 1
    OBVIOUS
  <2>3. x = [rollouts[r] EXCEPT !.status = "running", !.tries = k] /\ k \in Nat
    BY <1>x, <2>1, <2>2
  <2> QED BY <1>3, <2>3 DEF Sent
<1>5. /\ queue' \in Seq(Nat) /\ DOMAIN queue' = 1..(n - 1)
      /\ \A k \in 1..(n - 1) : queue'[k] = queue[k + 1] /\ k + 1 \in 1..n
  BY <1>2, <1>3, <1>n
<1>6. /\ DOMAIN rollouts' = DOMAIN rollouts /\ rollouts'[r] = x
      /\ \A s \in DOMAIN rollouts : s # r => rollouts'[s] = rollouts[s]
  BY <1>1, <1>2, <1>3 DEF BaselineTypes
<1>7. QueueHolds'
  <2>0. \A i, j \in 1..n : queue[i] = queue[j] => i = j
    BY <1>1, <1>3 DEF QueueHolds
  <2>1. ASSUME NEW k \in 1..(n - 1) PROVE queue'[k] # r
    <3>1. k + 1 \in 1..n /\ 1 \in 1..n /\ k + 1 # 1
      BY <1>3
    <3> QED BY <1>3, <1>5, <2>0, <3>1
  <2>2. ASSUME NEW k \in 1..(n - 1)
        PROVE  queue'[k] \in DOMAIN rollouts /\ rollouts[queue'[k]].status \in {"queuing", "requeuing"}
    <3>1. k + 1 \in DOMAIN queue /\ queue'[k] = queue[k + 1]
      BY <1>3, <1>5
    <3> QED BY <1>1, <3>1 DEF QueueHolds
  <2>3. \A k \in DOMAIN queue' : queue'[k] \in DOMAIN rollouts' /\ rollouts'[queue'[k]].status \in {"queuing", "requeuing"}
    BY <1>5, <1>6, <2>1, <2>2
  <2>4. ASSUME NEW k \in 1..(n - 1), NEW l \in 1..(n - 1), queue'[k] = queue'[l] PROVE k = l
    <3>1. k + 1 \in 1..n /\ l + 1 \in 1..n /\ queue[k + 1] = queue[l + 1]
      BY <1>5, <2>4
    <3>2. k + 1 = l + 1
      BY <2>0, <3>1
    <3> QED BY <1>3, <3>2
  <2>5. ASSUME NEW s \in DOMAIN rollouts', rollouts'[s].status = "queuing" PROVE \E k \in DOMAIN queue' : queue'[k] = s
    <3>1. s # r /\ s \in DOMAIN rollouts /\ rollouts[s].status = "queuing"
      BY <1>4, <1>6, <2>5
    <3>2. PICK k \in 1..n : queue[k] = s
      BY <1>1, <1>3, <3>1 DEF QueueHolds
    <3>3. k - 1 \in 1..(n - 1) /\ (k - 1) + 1 = k
      BY <1>3, <3>1, <3>2
    <3>4. queue'[k - 1] = s
      BY <1>5, <3>2, <3>3
    <3> QED BY <1>5, <3>3, <3>4
  <2> QED BY <1>5, <2>3, <2>4, <2>5 DEF QueueHolds
<1>8. CallsNamed'
  <2>1. \A a : LlmOf(initial, r, a) = Plain \/ (LlmOf(initial, r, a).rollout = r /\ LlmOf(initial, r, a).attempt = a)
    BY DEF LlmOf, Baked
  <2> QED BY <1>1, <1>2, <2>1 DEF CallsNamed
<1> QED BY <1>2, <1>3, <1>4, <1>5, <1>7, <1>8, StatusKeeps DEF Over

LEMMA AgentKeeps ==
  ASSUME BaselineInv, NEW r \in DOMAIN rollouts, Agent(r)
  PROVE  BaselineInv'
<1>n. PICK n : n = Len(queue)
  OBVIOUS
<1>1. BaselineTypes /\ QueueHolds /\ CallsNamed
  BY DEF BaselineInv
<1>2. PICK x : /\ rollouts' = [rollouts EXCEPT ![r] = x]
               /\ \/ x = [rollouts[r] EXCEPT !.status = "requeuing"] /\ queue' = Append(queue, r)
                  \/ /\ \E end \in {"succeeded", "failed"} : x = [rollouts[r] EXCEPT !.status = end]
                     /\ queue' = queue
               /\ rollouts[r].status = "running" /\ ran' = {c \in ran : c.rollout # r}
               /\ UNCHANGED <<pc, proxy, found, mine, initial, version, epoch, index, tasks, lost, handled>>
  BY DEF Agent
<1>3. /\ n \in Nat /\ DOMAIN queue = 1..n /\ queue \in Seq(Nat) /\ rollouts[r] \in Sent /\ r \in Nat
  BY <1>1, <1>n, BaselineDomains DEF BaselineTypes
<1>4. x \in Sent /\ x.sample = rollouts[r].sample /\ x.epoch = rollouts[r].epoch /\ x.status # "queuing"
  BY <1>2, <1>3 DEF Sent
<1>5. /\ DOMAIN rollouts' = DOMAIN rollouts /\ rollouts'[r] = x
      /\ \A s \in DOMAIN rollouts : s # r => rollouts'[s] = rollouts[s]
  BY <1>1, <1>2 DEF BaselineTypes
<1>6. \A k \in 1..n : /\ queue[k] # r /\ queue[k] \in DOMAIN rollouts'
                     /\ rollouts'[queue[k]].status \in {"queuing", "requeuing"}
  BY <1>1, <1>2, <1>3, <1>5 DEF QueueHolds
<1>7. \A s \in DOMAIN rollouts' : rollouts'[s].status = "queuing" => s # r /\ \E k \in 1..n : queue[k] = s
  BY <1>1, <1>3, <1>4, <1>5 DEF QueueHolds
<1>8. queue' \in Seq(Nat) /\ QueueHolds'
  <2>1. CASE queue' = queue
    BY <1>1, <1>3, <1>6, <1>7, <2>1 DEF QueueHolds
  <2>2. CASE x.status = "requeuing" /\ queue' = Append(queue, r)
    <3>1. /\ queue' \in Seq(Nat) /\ DOMAIN queue' = 1..(n + 1) /\ queue'[n + 1] = r
          /\ \A k \in 1..n : queue'[k] = queue[k]
      BY <1>3, <1>n, <2>2
    <3>2. \A k : k \in 1..(n + 1) <=> k \in 1..n \/ k = n + 1
      BY <1>3
    <3>3. \A k \in DOMAIN queue' : queue'[k] \in DOMAIN rollouts' /\ rollouts'[queue'[k]].status \in {"queuing", "requeuing"}
      BY <1>5, <1>6, <2>2, <3>1, <3>2
    <3>4. \A k, l \in DOMAIN queue' : queue'[k] = queue'[l] => k = l
      BY <1>1, <1>3, <1>6, <3>1, <3>2 DEF QueueHolds
    <3>5. \A s \in DOMAIN rollouts' : rollouts'[s].status = "queuing" => \E k \in DOMAIN queue' : queue'[k] = s
      BY <1>7, <3>1, <3>2
    <3> QED BY <3>1, <3>3, <3>4, <3>5 DEF QueueHolds
  <2>3. queue' = queue \/ (x.status = "requeuing" /\ queue' = Append(queue, r))
    BY <1>2, <1>3 DEF Sent
  <2> QED BY <2>1, <2>2, <2>3
<1>9. CallsNamed'
  BY <1>1, <1>2 DEF CallsNamed
<1> QED BY <1>2, <1>4, <1>8, <1>9, StatusKeeps DEF Over

LEMMA BaselineStep == BaselineInv /\ [BaselineNext]_runVars => BaselineInv'
<1> SUFFICES ASSUME BaselineInv, [BaselineNext]_runVars PROVE BaselineInv'
  OBVIOUS
<1>1. CASE UNCHANGED runVars
  BY <1>1 DEF runVars, BaselineInv, BaselineTypes, RunPlace, SentInOrder, SentIn, Behind, OnItsWay, HandledOnce,
              QueueHolds, FewWait, Waiting, ProxyKept, CallsNamed
<1>2. CASE BaselineNext
  BY <1>2, RunMoves, EnqueueKeeps, ClaimKeeps, HarvestKeeps, HarvestFailsKeeps, AgentKeeps DEF BaselineNext
<1> QED BY <1>1, <1>2

\* Whatever the datasets, epochs, bounds and retries, a run that ends has sent
\* each sample once per epoch and handled each rollout once, epoch after epoch;
\* few wait, and the proxy is left as it was found unless its stop raises.
THEOREM RunIsWhole == BaselineSpec => []BaselineIsWhole
<1>1. BaselineInv => BaselineIsWhole
  <2> SUFFICES ASSUME BaselineInv PROVE BaselineIsWhole
    OBVIOUS
  <2>1. BaselineTypes /\ RunPlace /\ SentInOrder /\ HandledOnce /\ FewWait /\ ProxyKept /\ CallsNamed
    BY DEF BaselineInv
  <2>2. ASSUME pc = "done", Size > 0, NEW e \in 1..Epochs, NEW i \in Indices
        PROVE  Cardinality({r \in DOMAIN rollouts : rollouts[r].sample = i /\ rollouts[r].epoch = e}) = 1
    <3>1. Behind(e, i)
      BY <2>1, <2>2, SizeIsNat DEF Behind, RunPlace, BaselineTypes
    <3>2. PICK r \in DOMAIN rollouts : rollouts[r].epoch = e /\ rollouts[r].sample = i
      BY <2>1, <2>2, <3>1 DEF SentInOrder, SentIn, OnItsWay
    <3>3. {s \in DOMAIN rollouts : rollouts[s].sample = i /\ rollouts[s].epoch = e} = {r}
      BY <2>1, <3>2 DEF SentInOrder
    <3> QED BY <3>3, FS_Singleton
  <2>3. pc = "done" /\ Size > 0 => \A r \in DOMAIN rollouts : handled[r] = 1
    BY <2>1 DEF RunPlace, HandledOnce
  <2>4. ASSUME NEW r \in DOMAIN rollouts, NEW s \in DOMAIN rollouts, rollouts[r].epoch < rollouts[s].epoch
        PROVE  rollouts[r].status \in Over /\ handled[r] = 1
    <3>1. rollouts[s].epoch \in 1..Epochs /\ rollouts[s].epoch <= epoch /\ rollouts[r].epoch \in 1..Epochs /\ epoch \in Nat
      BY <2>1 DEF SentInOrder, BaselineTypes
    <3>2. rollouts[r].epoch # epoch
      BY <2>4, <3>1, SizeIsNat
    <3> QED BY <2>1, <3>2 DEF HandledOnce
  <2>5. Cardinality({r \in DOMAIN rollouts : rollouts[r].status = "queuing"}) <= MaxQueue + 1
    BY <2>1 DEF FewWait, Waiting
  <2>6. pc \in {"done", "raised"} => proxy = found
    BY <2>1 DEF ProxyKept, BaselineTypes
  <2> QED BY <2>1, <2>2, <2>3, <2>4, <2>5, <2>6 DEF BaselineIsWhole, CallsNamed
<1> QED BY BaselineBegins, BaselineStep, <1>1, PTL DEF BaselineSpec

-----------------------------------------------------------------------------
(* Streams.  What FlattenSeq returns, piece by piece. *)

Joins(f, ss, n) ==
  /\ f[0] = <<>>
  /\ \A i \in 1..n : f[i] = f[i - 1] \o ss[i]

\* flatten, on 1..n.
FlatOf(f, ss, n) == f = [i \in 1..n |-> IF i = 1 THEN ss[i] ELSE f[i - 1] \o ss[i]]

LEMMA FlatExists ==
  ASSUME NEW ss, NEW n \in Nat
  PROVE  \E f : FlatOf(f, ss, n)
<1> DEFINE Good == {k \in Nat : \E f : FlatOf(f, ss, k)}
<1>1. 0 \in Good
  <2> DEFINE f == [i \in 1..0 |-> <<>>]
  <2>1. FlatOf(f, ss, 0)
    BY DEF FlatOf
  <2> QED BY <2>1
<1>2. ASSUME NEW k \in 1..n, k - 1 \in Good
      PROVE  k \in Good
  <2>1. PICK f : FlatOf(f, ss, k - 1)
    BY <1>2
  <2>e. PICK last : last = IF k = 1 THEN ss[k] ELSE f[k - 1] \o ss[k]
    OBVIOUS
  <2> DEFINE g == [i \in 1..k |-> IF i < k THEN f[i] ELSE last]
  <2>2. /\ k \in 1..k /\ g[k] = last
        /\ \A i \in 1..(k - 1) : g[i] = f[i] /\ i \in 1..k
    OBVIOUS
  <2>3. \A i \in 1..(k - 1) : f[i] = IF i = 1 THEN ss[i] ELSE f[i - 1] \o ss[i]
    BY <2>1 DEF FlatOf
  <2>5. g = [i \in 1..k |-> g[i]]
    OBVIOUS
  <2> HIDE DEF g
  <2>4. \A i \in 1..k : g[i] = IF i = 1 THEN ss[i] ELSE g[i - 1] \o ss[i]
    <3> SUFFICES ASSUME NEW i \in 1..k
                 PROVE  g[i] = IF i = 1 THEN ss[i] ELSE g[i - 1] \o ss[i]
      OBVIOUS
    <3>1. CASE i = k
      <4>1. i = 1 \/ k - 1 \in 1..(k - 1)
        BY <3>1
      <4>2. i # 1 => g[k - 1] = f[k - 1]
        BY <2>2, <4>1
      <4> QED BY <2>2, <2>e, <3>1, <4>2, Zenon
    <3>2. CASE i \in 1..(k - 1)
      <4>1. g[i] = f[i]
        BY <2>2, <3>2
      <4>2. i # 1 => i - 1 \in 1..(k - 1)
        BY <3>2
      <4>3. i # 1 => g[i - 1] = f[i - 1]
        BY <2>2, <4>2
      <4> QED BY <2>3, <3>2, <4>1, <4>3, Zenon
    <3>3. i = k \/ i \in 1..(k - 1)
      OBVIOUS
    <3> QED BY <3>1, <3>2, <3>3
  <2>6. FlatOf(g, ss, k)
    BY <2>4, <2>5 DEF FlatOf
  <2> QED BY <2>6
<1>3. n \in 0..n
  OBVIOUS
<1> HIDE DEF Good
<1>4. n \in Good
  BY <1>1, <1>2, <1>3, Induction
<1> QED BY <1>4 DEF Good

LEMMA FlattenMeans ==
  ASSUME NEW T, NEW n \in Nat, NEW ss, Len(ss) = n, n = 0 => ss = <<>>, \A i \in 1..n : ss[i] \in Seq(T)
  PROVE  \E f : /\ Joins(f, ss, n) /\ FlattenSeq(ss) = f[n]
                /\ \A i \in 0..n : f[i] \in Seq(T)
<1>1. CASE n = 0
  <2> DEFINE f == [i \in 0..0 |-> <<>>]
  <2>1. Joins(f, ss, n) /\ f[n] = <<>> /\ \A i \in 0..n : f[i] \in Seq(T)
    BY <1>1 DEF Joins
  <2>2. FlattenSeq(ss) = <<>>
    BY <1>1 DEF FlattenSeq
  <2> QED BY <2>1, <2>2
<1>2. CASE n # 0
  <2> DEFINE g == CHOOSE h : FlatOf(h, ss, n)
  <2>1. FlatOf(g, ss, n)
    BY FlatExists
  <2>2. FlattenSeq(ss) = g[n]
    <3>1. ~(Len(ss) = 0)
      BY <1>2
    <3> QED BY <3>1, Zenon DEF FlattenSeq, FlatOf
  <2> HIDE DEF g
  <2>3. \A i \in 1..n : g[i] = IF i = 1 THEN ss[i] ELSE g[i - 1] \o ss[i]
    BY <2>1 DEF FlatOf
  <2> DEFINE f == [i \in 0..n |-> IF i = 0 THEN <<>> ELSE g[i]]
  <2>4. f[0] = <<>> /\ \A i \in 1..n : f[i] = g[i]
    OBVIOUS
  <2>5. f[n] = g[n]
    BY <1>2
  <2> HIDE DEF f
  <2>6. \A i \in 1..n : f[i] = f[i - 1] \o ss[i]
    <3> SUFFICES ASSUME NEW i \in 1..n PROVE f[i] = f[i - 1] \o ss[i]
      OBVIOUS
    <3>1. CASE i = 1
      <4>1. f[i] = ss[i] /\ f[i - 1] = <<>>
        <5>1. i - 1 = 0 /\ g[i] = ss[i]
          BY <2>3, <3>1
        <5> QED BY <2>4, <5>1
      <4>2. <<>> \o ss[i] = ss[i]
        BY ConcatEmptySeq
      <4> QED BY <4>1, <4>2
    <3>2. CASE i # 1
      <4>1. i - 1 \in 1..n
        BY <3>2
      <4>2. f[i] = g[i] /\ f[i - 1] = g[i - 1]
        BY <2>4, <4>1
      <4> QED BY <2>3, <3>2, <4>2
    <3> QED BY <3>1, <3>2
  <2>7. \A i \in 0..n : f[i] \in Seq(T)
    <3> DEFINE Typed == {i \in Nat : f[i] \in Seq(T)}
    <3>1. 0 \in Typed
      BY <2>4, EmptySeq
    <3>2. ASSUME NEW i \in 1..n, i - 1 \in Typed PROVE i \in Typed
      <4>1. f[i - 1] \o ss[i] \in Seq(T)
        BY <3>2, ConcatProperties
      <4>2. f[i] \in Seq(T)
        BY <2>6, <4>1, Zenon
      <4> QED BY <4>2
    <3> HIDE DEF Typed
    <3>3. 0..n \subseteq Typed
      BY <3>1, <3>2, Induction
    <3> QED BY <3>3 DEF Typed
  <2>8. Joins(f, ss, n)
    BY <2>4, <2>6 DEF Joins
  <2> QED BY <2>2, <2>5, <2>7, <2>8
<1> QED BY <1>1, <1>2

\* Two lists of parts that are the same up to a place join to the same there.
LEMMA SameJoins ==
  ASSUME NEW f, NEW g, NEW s, NEW t, NEW m \in Nat, NEW n \in Nat, NEW k \in Nat, k <= m, k <= n,
         Joins(f, s, m), Joins(g, t, n), \A i \in 1..k : s[i] = t[i]
  PROVE  f[k] = g[k]
<1> DEFINE Same == {i \in Nat : f[i] = g[i]}
<1>1. 0 \in Same
  BY DEF Joins
<1>2. ASSUME NEW i \in 1..k, i - 1 \in Same PROVE i \in Same
  <2>1. i \in 1..m /\ i \in 1..n /\ i \in Nat
    OBVIOUS
  <2>2. f[i] = f[i - 1] \o s[i] /\ g[i] = g[i - 1] \o t[i]
    BY <2>1 DEF Joins
  <2>3. f[i - 1] = g[i - 1] /\ s[i] = t[i]
    BY <1>2
  <2>4. f[i] = g[i]
    BY <2>2, <2>3, Zenon
  <2> QED BY <2>1, <2>4
<1> HIDE DEF Same
<1>3. 0..k \subseteq Same /\ k \in 0..k
  BY <1>1, <1>2, Induction
<1> QED BY <1>3 DEF Same

LEMMA Flattens ==
  ASSUME NEW T, NEW ss \in Seq(Seq(T))
  PROVE  \E f : Joins(f, ss, Len(ss)) /\ FlattenSeq(ss) = f[Len(ss)] /\ \A i \in 0..Len(ss) : f[i] \in Seq(T)
<1>1. PICK n \in Nat : n = Len(ss)
  OBVIOUS
<1>2. (n = 0 => ss = <<>>) /\ \A i \in 1..n : ss[i] \in Seq(T)
  BY <1>1
<1> QED BY <1>1, <1>2, FlattenMeans

LEMMA FlattenTyped ==
  ASSUME NEW T, NEW ss \in Seq(Seq(T))
  PROVE  FlattenSeq(ss) \in Seq(T)
<1>1. PICK f : FlattenSeq(ss) = f[Len(ss)] /\ \A i \in 0..Len(ss) : f[i] \in Seq(T)
  BY Flattens, Zenon
<1>2. Len(ss) \in 0..Len(ss)
  OBVIOUS
<1> QED BY <1>1, <1>2

LEMMA FlattenAppend ==
  ASSUME NEW T, NEW ss \in Seq(Seq(T)), NEW t \in Seq(T)
  PROVE  FlattenSeq(Append(ss, t)) = FlattenSeq(ss) \o t
<1>n. PICK n \in Nat : n = Len(ss)
  OBVIOUS
<1>0. Append(ss, t) \in Seq(Seq(T))
  BY AppendProperties
<1>u. PICK u \in Seq(Seq(T)) : u = Append(ss, t)
  BY <1>0
<1>1. /\ Len(u) = n + 1 /\ u[n + 1] = t /\ \A i \in 1..n : ss[i] = u[i]
  BY <1>n, <1>u
<1>2. PICK f : Joins(f, ss, n) /\ FlattenSeq(ss) = f[n]
  BY <1>n, Flattens
<1>3. PICK g : Joins(g, u, n + 1) /\ FlattenSeq(u) = g[n + 1]
  BY <1>1, Flattens
<1>4. f[n] = g[n]
  <2>1. n <= n /\ n <= n + 1 /\ n + 1 \in Nat
    OBVIOUS
  <2> QED BY <1>1, <1>2, <1>3, <2>1, SameJoins
<1>5. g[n + 1] = g[n] \o u[n + 1]
  <2>1. n + 1 \in 1..(n + 1) /\ (n + 1) - 1 = n
    OBVIOUS
  <2> QED BY <1>3, <2>1 DEF Joins
<1> QED BY <1>u, <1>1, <1>2, <1>3, <1>4, <1>5, Zenon

LEMMA FlattenNone == FlattenSeq(<<>>) = <<>>
BY DEF FlattenSeq

LEMMA FlattenOne ==
  ASSUME NEW T, NEW t \in Seq(T)
  PROVE  FlattenSeq(<<t>>) = t
<1>1. <<t>> = Append(<<>>, t) /\ <<>> \in Seq(Seq(T))
  OBVIOUS
<1>2. FlattenSeq(<<t>>) = FlattenSeq(<<>>) \o t
  BY <1>1, FlattenAppend
<1> QED BY <1>2, FlattenNone, ConcatEmptySeq

LEMMA FlattenConcat ==
  ASSUME NEW T, NEW a \in Seq(Seq(T)), NEW b \in Seq(Seq(T))
  PROVE  FlattenSeq(a \o b) = FlattenSeq(a) \o FlattenSeq(b)
<1>n. PICK n \in Nat : n = Len(b)
  OBVIOUS
<1> DEFINE P(k) == SubSeq(b, 1, k)
           Good == {k \in Nat : FlattenSeq(a \o P(k)) = FlattenSeq(a) \o FlattenSeq(P(k))}
<1>t. FlattenSeq(a) \in Seq(T)
  BY FlattenTyped
<1>1. 0 \in Good
  <2>1. P(0) = <<>>
    OBVIOUS
  <2>2. a \o <<>> = a
    BY ConcatEmptySeq
  <2>3. FlattenSeq(a) \o <<>> = FlattenSeq(a)
    BY <1>t, ConcatEmptySeq
  <2>4. FlattenSeq(a \o P(0)) = FlattenSeq(a) \o FlattenSeq(P(0))
    BY <2>1, <2>2, <2>3, FlattenNone, Zenon
  <2> QED BY <2>4
<1>2. ASSUME NEW i \in 1..n, i - 1 \in Good PROVE i \in Good
  <2>k. PICK k \in Nat : k = i - 1 /\ k + 1 = i /\ k \in 0..Len(b) /\ k < Len(b)
    BY <1>n
  <2>1. P(k) \in Seq(Seq(T)) /\ b[i] \in Seq(T) /\ P(i) = Append(P(k), b[i])
    BY <2>k, Prefix
  <2> HIDE DEF P
  <2>p. PICK p \in Seq(Seq(T)) : p = P(k)
    BY <2>1
  <2>x. PICK x \in Seq(T) : x = b[i]
    BY <2>1
  <2>2. a \o Append(p, x) = Append(a \o p, x) /\ a \o p \in Seq(Seq(T))
    OBVIOUS
  <2>3. FlattenSeq(Append(a \o p, x)) = FlattenSeq(a \o p) \o x
    BY <2>2, FlattenAppend
  <2>4. FlattenSeq(Append(p, x)) = FlattenSeq(p) \o x
    BY FlattenAppend
  <2>5. FlattenSeq(a \o p) = FlattenSeq(a) \o FlattenSeq(p)
    BY <1>2, <2>k, <2>p
  <2>6. FlattenSeq(p) \in Seq(T)
    BY FlattenTyped
  <2>7. (FlattenSeq(a) \o FlattenSeq(p)) \o x = FlattenSeq(a) \o (FlattenSeq(p) \o x)
    BY <1>t, <2>6, ConcatAssociative
  <2>8. FlattenSeq(a \o P(i)) = FlattenSeq(a) \o FlattenSeq(P(i))
    BY <2>1, <2>p, <2>x, <2>2, <2>3, <2>4, <2>5, <2>7, Zenon
  <2> QED BY <2>k, <2>8
<1>4. P(n) = b
  BY <1>n, SubSeqFull
<1> HIDE DEF Good, P
<1>3. n \in Good
  <2>1. 0..n \subseteq Good
    BY <1>1, <1>2, Induction
  <2> QED BY <2>1
<1> QED BY <1>3, <1>4 DEF Good

LEMMA FlattenEmpties ==
  ASSUME NEW T, NEW ss \in Seq(Seq(T)), \A i \in 1..Len(ss) : ss[i] = <<>>
  PROVE  FlattenSeq(ss) = <<>>
<1>n. PICK n \in Nat : n = Len(ss)
  OBVIOUS
<1>1. PICK f : Joins(f, ss, n) /\ FlattenSeq(ss) = f[n]
  BY <1>n, Flattens
<1> DEFINE Good == {k \in Nat : f[k] = <<>>}
<1>2. 0 \in Good
  BY <1>1 DEF Joins
<1>3. ASSUME NEW i \in 1..n, i - 1 \in Good PROVE i \in Good
  <2>1. f[i] = f[i - 1] \o ss[i] /\ f[i - 1] = <<>> /\ ss[i] = <<>>
    BY <1>1, <1>n, <1>3 DEF Joins
  <2>2. <<>> \o <<>> = <<>>
    OBVIOUS
  <2>3. f[i] = <<>>
    BY <2>1, <2>2, Zenon
  <2> QED BY <2>3
<1> HIDE DEF Good
<1>4. 0..n \subseteq Good /\ n \in 0..n
  BY <1>2, <1>3, Induction
<1> QED BY <1>1, <1>4 DEF Good

-----------------------------------------------------------------------------
(* The pieces of a text put together are the text. *)

LEMMA InMultiples ==
  ASSUME NEW n \in Nat, NEW size \in Nat \ {0}
  PROVE  /\ (n + size - 1) \div size \in Nat
         /\ n <= ((n + size - 1) \div size) * size
         /\ \A i \in 1..((n + size - 1) \div size) : (i - 1) * size \in Nat /\ (i - 1) * size < n /\ i * size = (i - 1) * size + size
<1>q. PICK q : q = (n + size - 1) \div size
  OBVIOUS
<1>1. q \in Int /\ q * size <= n + size - 1 /\ n + size - 1 < (q + 1) * size
  BY <1>q
<1>2. (q + 1) * size = q * size + size /\ (q - 1) * size = q * size - size
  BY <1>1
<1>3. q \in Nat
  <2>1. q < 0 => (q + 1) * size <= 0
    BY <1>1
  <2> QED BY <1>1, <2>1
<1>4. n <= q * size /\ (q - 1) * size < n
  BY <1>1, <1>2
<1>5. ASSUME NEW i \in 1..q
      PROVE  (i - 1) * size \in Nat /\ (i - 1) * size < n /\ i * size = (i - 1) * size + size
  <2>1. PICK a \in Nat, b \in Nat : a = i - 1 /\ b = q - i /\ q - 1 = a + b
    BY <1>3
  <2>2. a * size \in Nat /\ b * size \in Nat /\ (a + b) * size = a * size + b * size /\ (a + 1) * size = a * size + size
    OBVIOUS
  <2>3. a * size < n
    BY <1>4, <2>1, <2>2
  <2> QED BY <2>1, <2>2, <2>3
<1> QED BY <1>q, <1>3, <1>4, <1>5

Pieced(ss, T) == ss \in Seq(Seq(T)) /\ \A i \in 1..Len(ss) : ss[i] # <<>>

\* Slices of one size lose nothing and leave none empty.
LEMMA SlicesWhole ==
  ASSUME NEW T, NEW text \in Seq(T), NEW size \in Nat \ {0}
  PROVE  Pieced(Slices(text, size), T) /\ FlattenSeq(Slices(text, size)) = text
<1>l. PICK l \in Nat : l = Len(text)
  OBVIOUS
<1>n. PICK n \in Nat : n = (l + size - 1) \div size
  BY InMultiples
<1> DEFINE From(i) == (i - 1) * size
           To(i) == IF i * size < l THEN i * size ELSE l
<1>1. /\ l <= n * size
      /\ \A i \in 1..n : From(i) \in Nat /\ From(i) < l /\ i * size = From(i) + size
  BY <1>n, InMultiples
<1>s. PICK s : s = Slices(text, size)
  OBVIOUS
<1>2. s = [i \in 1..n |-> SubSeq(text, From(i) + 1, To(i))]
  BY <1>l, <1>n, <1>s DEF Slices
<1>3. ASSUME NEW i \in 1..n
      PROVE  /\ From(i) \in 0..l /\ To(i) \in 1..l /\ From(i) < To(i)
             /\ To(i) = From(i + 1) \/ To(i) = l
  <2>1. PICK a : a = From(i) /\ a \in Nat /\ a < l /\ i * size = a + size
    BY <1>1
  <2>2. From(i + 1) = i * size
    OBVIOUS
  <2>3. PICK e : e = To(i) /\ e = IF a + size < l THEN a + size ELSE l
    BY <2>1
  <2> HIDE DEF From, To
  <2> QED BY <2>1, <2>2, <2>3
<1>4. ASSUME NEW i \in 1..n
      PROVE  SubSeq(text, From(i) + 1, To(i)) \in Seq(T) \ {<<>>}
  <2>1. PICK a \in Nat, e \in 1..l : a = From(i) /\ e = To(i) /\ a < e
    BY <1>3
  <2>2. \A k \in (a + 1)..e : text[k] \in T
    BY <1>l
  <2>3. SubSeq(text, a + 1, e) \in Seq(T) /\ Len(SubSeq(text, a + 1, e)) = e - (a + 1) + 1
    BY <2>1, <2>2, SubSeqProperties
  <2>4. SubSeq(text, a + 1, e) # <<>>
    <3>1. PICK z : z = SubSeq(text, a + 1, e)
      OBVIOUS
    <3>2. Len(z) # 0
      BY <2>1, <2>3, <3>1
    <3>3. z # <<>>
      BY <3>2, Len(<<>>) = 0, Zenon
    <3> QED BY <3>1, <3>3
  <2> QED BY <2>1, <2>3, <2>4
<1> HIDE DEF From, To
<1>5. s \in Seq(Seq(T)) /\ Len(s) = n /\ \A i \in 1..n : s[i] = SubSeq(text, From(i) + 1, To(i)) /\ s[i] # <<>>
  <2>1. s = [i \in 1..n |-> s[i]] /\ \A i \in 1..n : s[i] = SubSeq(text, From(i) + 1, To(i))
    BY <1>2, Zenon
  <2>2. \A i \in 1..n : s[i] \in Seq(T) /\ s[i] # <<>>
    BY <1>4, <2>1, Zenon
  <2>3. s \in [1..n -> Seq(T)]
    BY <2>1, <2>2, Zenon
  <2>4. s \in Seq(Seq(T)) /\ Len(s) = n
    BY <2>3
  <2> QED BY <2>1, <2>2, <2>4
<1>f. PICK f : Joins(f, s, n) /\ FlattenSeq(s) = f[n]
  BY <1>5, Flattens
<1> DEFINE Reached(k) == IF k = 0 THEN 0 ELSE To(k)
           Good == {k \in Nat : f[k] = SubSeq(text, 1, Reached(k))}
<1>6. 0 \in Good
  <2>1. SubSeq(text, 1, 0) = <<>>
    BY SubSeqEmpty
  <2> QED BY <1>f, <2>1 DEF Joins
<1>7. ASSUME NEW k \in 1..n, k - 1 \in Good PROVE k \in Good
  <2>1. PICK b \in Nat, e \in 1..l : b = From(k) /\ e = To(k) /\ b < e
    BY <1>3
  <2>2. Reached(k) = e /\ Reached(k - 1) = b
    <3>1. CASE k = 1
      BY <2>1, <3>1 DEF From
    <3>2. CASE k # 1
      <4>1. k - 1 \in 1..n /\ (k - 1) + 1 = k
        BY <3>2
      <4>2. To(k - 1) = b \/ To(k - 1) = l
        BY <1>3, <2>1, <4>1
      <4>3. To(k - 1) = b
        <5>1. ASSUME To(k - 1) = l PROVE FALSE
          <6>1. (k - 1) * size = b
            BY <2>1 DEF From
          <6> QED BY <2>1, <5>1, <6>1 DEF To
        <5> QED BY <4>2, <5>1
      <4> QED BY <2>1, <3>2, <4>1, <4>3
    <3> QED BY <3>1, <3>2
  <2>3. f[k] = f[k - 1] \o s[k] /\ s[k] = SubSeq(text, b + 1, e)
    BY <1>f, <1>5, <2>1 DEF Joins
  <2>4. f[k - 1] = SubSeq(text, 1, b)
    BY <1>7, <2>2
  <2>5. SubSeq(text, 1, b) \o SubSeq(text, b + 1, e) = SubSeq(text, 1, e)
    <3>1. 1 \in 1..(Len(text) + 1) /\ b \in (1 - 1)..Len(text) /\ e \in b..Len(text)
      BY <1>l, <2>1
    <3> QED BY <3>1, ConcatAdjacentSubSeq
  <2>6. f[k] = SubSeq(text, 1, Reached(k))
    BY <2>2, <2>3, <2>4, <2>5, Zenon
  <2> QED BY <2>6
<1>8. Reached(n) = l
  <2>1. n = 0 => l = 0
    BY <1>1
  <2>2. ~(n * size < l)
    BY <1>1
  <2> QED BY <2>1, <2>2 DEF To
<1> HIDE DEF Good, Reached
<1>9. 0..n \subseteq Good /\ n \in 0..n
  BY <1>6, <1>7, Induction
<1>10. f[n] = text
  <2>1. f[n] = SubSeq(text, 1, Reached(n))
    BY <1>9 DEF Good
  <2> QED BY <2>1, <1>8, <1>l, SubSeqFull
<1> QED BY <1>s, <1>5, <1>f, <1>10 DEF Pieced

LEMMA EndWithin ==
  ASSUME NEW T, NEW text \in Seq(T), NEW start \in 1..Len(text)
  PROVE  EndOf(text, start) \in start..Len(text)
<1>n. PICK n \in Nat : n = Len(text)
  OBVIOUS
<1>a. Approx \in Nat /\ Approx >= 1
  BY StreamAssumption
<1>e. PICK end : end = IF start + Approx - 1 < n THEN start + Approx - 1 ELSE n
  OBVIOUS
<1> DEFINE spaces == {i \in start + 1 .. end : text[i] = " "}
<1>1. end \in start..n
  BY <1>n, <1>a, <1>e
<1>s. spaces \subseteq (start + 1)..end
  OBVIOUS
<1>4. spaces \subseteq start..n
  <2> HIDE DEF spaces
  <2>1. (start + 1)..end \subseteq start..n
    BY <1>1
  <2> QED BY <1>s, <2>1
<1>3. EndOf(text, start) = IF end < n /\ spaces # {} THEN CHOOSE i \in spaces : \A j \in spaces : j <= i ELSE end
  BY <1>n, <1>e DEF EndOf
<1> HIDE DEF spaces
<1>2. spaces # {} => \E i \in spaces : \A j \in spaces : j <= i
  <2> SUFFICES ASSUME spaces # {} PROVE \E i \in spaces : \A j \in spaces : j <= i
    OBVIOUS
  <2> DEFINE Below == {n - i : i \in spaces}
  <2>0. \A i \in spaces : i \in Int /\ n - i \in Nat
    BY <1>4
  <2>1. Below \in SUBSET Nat /\ Below # {}
    BY <2>0
  <2>2. PICK m \in Below : \A k \in Below : m <= k
    BY <2>1, LeastNumber
  <2>3. PICK i \in spaces : m = n - i
    BY <2>2
  <2>4. ASSUME NEW j \in spaces PROVE j <= i
    <3>1. n - j \in Below /\ n - i <= n - j
      BY <2>2, <2>3
    <3>2. n \in Int /\ i \in Int /\ j \in Int
      BY <1>n, <2>0, <2>3
    <3> HIDE DEF Below
    <3> QED BY <3>1, <3>2
  <2> QED BY <2>4
<1>5. spaces # {} => (CHOOSE i \in spaces : \A j \in spaces : j <= i) \in spaces
  BY <1>2
<1>6. EndOf(text, start) \in start..n
  BY <1>1, <1>3, <1>4, <1>5
<1> QED BY <1>n, <1>6

\* from, on lo..n + 1.
FromOf(f, text, lo, n) ==
  f = [s \in lo..n + 1 |-> IF s > n THEN <<>> ELSE <<SubSeq(text, s, EndOf(text, s))>> \o f[EndOf(text, s) + 1]]

LEMMA FromExists ==
  ASSUME NEW T, NEW text \in Seq(T)
  PROVE  \E f : FromOf(f, text, 1, Len(text))
<1>n. PICK n \in Nat : n = Len(text)
  OBVIOUS
<1> DEFINE Good == {k \in Nat : \E f : FromOf(f, text, n + 1 - k, n)}
<1>1. 0 \in Good
  <2> DEFINE f == [s \in (n + 1)..(n + 1) |-> <<>>]
  <2>1. \A s \in (n + 1)..(n + 1) : s > n
    OBVIOUS
  <2>2. f = [s \in (n + 1)..(n + 1) |-> IF s > n THEN <<>> ELSE <<SubSeq(text, s, EndOf(text, s))>> \o f[EndOf(text, s) + 1]]
    BY <2>1
  <2>3. n + 1 - 0 = n + 1
    OBVIOUS
  <2>4. FromOf(f, text, n + 1 - 0, n)
    BY <2>2, <2>3, Zenon DEF FromOf
  <2> QED BY <2>4
<1>2. ASSUME NEW k \in 1..n, k - 1 \in Good
      PROVE  k \in Good
  <2>l. PICK l \in 1..n : l = n + 1 - k /\ n + 1 - (k - 1) = l + 1
    OBVIOUS
  <2>1. PICK f : FromOf(f, text, l + 1, n)
    BY <1>2, <2>l
  <2>e. PICK first : first = <<SubSeq(text, l, EndOf(text, l))>> \o f[EndOf(text, l) + 1]
    OBVIOUS
  <2> DEFINE g == [s \in l..(n + 1) |-> IF s = l THEN first ELSE f[s]]
  <2>2. l \in l..(n + 1) /\ g[l] = first /\ \A s \in (l + 1)..(n + 1) : g[s] = f[s] /\ s \in l..(n + 1)
    OBVIOUS
  <2>3. \A s \in (l + 1)..(n + 1) : f[s] = IF s > n THEN <<>> ELSE <<SubSeq(text, s, EndOf(text, s))>> \o f[EndOf(text, s) + 1]
    BY <2>1, Zenon DEF FromOf
  <2>4. g = [s \in l..(n + 1) |-> g[s]]
    OBVIOUS
  <2>5. \A s \in l..n : EndOf(text, s) + 1 \in (l + 1)..(n + 1)
    <3>1. ASSUME NEW s \in l..n PROVE EndOf(text, s) + 1 \in (l + 1)..(n + 1)
      <4>1. s \in 1..Len(text)
        BY <1>n
      <4>2. EndOf(text, s) \in s..n
        BY <1>n, <4>1, EndWithin
      <4> QED BY <4>2
    <3> QED BY <3>1
  <2> HIDE DEF g
  <2>6. \A s \in l..(n + 1) : g[s] = IF s > n THEN <<>> ELSE <<SubSeq(text, s, EndOf(text, s))>> \o g[EndOf(text, s) + 1]
    <3> SUFFICES ASSUME NEW s \in l..(n + 1)
                 PROVE  g[s] = IF s > n THEN <<>> ELSE <<SubSeq(text, s, EndOf(text, s))>> \o g[EndOf(text, s) + 1]
      OBVIOUS
    <3>1. ~(s > n) => g[EndOf(text, s) + 1] = f[EndOf(text, s) + 1]
      <4>1. ~(s > n) => s \in l..n
        OBVIOUS
      <4> QED BY <4>1, <2>2, <2>5, Zenon
    <3>2. CASE s = l
      <4>1. ~(s > n)
        BY <3>2
      <4> QED BY <2>2, <2>e, <3>1, <3>2, <4>1, Zenon
    <3>3. CASE s # l
      <4>1. s \in (l + 1)..(n + 1)
        BY <3>3
      <4> QED BY <2>2, <2>3, <3>1, <4>1, Zenon
    <3> QED BY <3>2, <3>3
  <2>7. FromOf(g, text, l, n)
    BY <2>4, <2>6, Zenon DEF FromOf
  <2>8. k \in Nat
    OBVIOUS
  <2> QED BY <2>7, <2>l, <2>8
<1> HIDE DEF Good
<1>3. 0..n \subseteq Good /\ n \in 0..n
  BY <1>1, <1>2, Induction
<1>4. PICK f : FromOf(f, text, n + 1 - n, n)
  BY <1>3 DEF Good
<1>5. n + 1 - n = 1
  OBVIOUS
<1> QED BY <1>n, <1>4, <1>5

\* Pieces that end at spaces lose nothing and are not empty.
LEMMA PiecesWhole ==
  ASSUME NEW T, NEW text \in Seq(T)
  PROVE  Pieced(Pieces(text), T) /\ FlattenSeq(Pieces(text)) = text
<1>n. PICK n \in Nat : n = Len(text)
  OBVIOUS
<1> DEFINE from == CHOOSE f : FromOf(f, text, 1, Len(text))
<1>1. FromOf(from, text, 1, Len(text))
  BY FromExists
<1>2. Pieces(text) = from[1]
  BY Zenon DEF Pieces, FromOf
<1> HIDE DEF from
<1>3. \A s \in 1..(n + 1) : from[s] = IF s > n THEN <<>> ELSE <<SubSeq(text, s, EndOf(text, s))>> \o from[EndOf(text, s) + 1]
  BY <1>1, <1>n, Zenon DEF FromOf
<1> DEFINE Fine(s) == Pieced(from[s], T) /\ FlattenSeq(from[s]) = SubSeq(text, s, n)
           Good == {k \in Nat : \A s \in (n + 1 - k)..(n + 1) : Fine(s)}
<1>4. 0 \in Good
  <2>1. from[n + 1] = <<>>
    <3>1. n + 1 \in 1..(n + 1) /\ n + 1 > n
      OBVIOUS
    <3> QED BY <1>3, <3>1, Zenon
  <2>2. SubSeq(text, n + 1, n) = <<>>
    BY SubSeqEmpty
  <2>3. Pieced(<<>>, T)
    BY EmptySeq DEF Pieced
  <2>4. Fine(n + 1)
    BY <2>1, <2>2, <2>3, FlattenNone
  <2>5. \A s \in (n + 1 - 0)..(n + 1) : s = n + 1
    OBVIOUS
  <2> HIDE DEF Fine
  <2> QED BY <2>4, <2>5
<1>5. ASSUME NEW k \in 1..n, k - 1 \in Good
      PROVE  k \in Good
  <2>l. PICK l \in 1..n : l = n + 1 - k /\ n + 1 - (k - 1) = l + 1
    OBVIOUS
  <2>1. \A s \in (l + 1)..(n + 1) : Fine(s)
    BY <1>5, <2>l
  <2>e. PICK e \in l..n : e = EndOf(text, l)
    BY <1>n, EndWithin
  <2>r. PICK r : r = from[e + 1]
    OBVIOUS
  <2>x. PICK x : x = SubSeq(text, l, e)
    OBVIOUS
  <2>2. Pieced(r, T) /\ FlattenSeq(r) = SubSeq(text, e + 1, n)
    <3>1. e + 1 \in (l + 1)..(n + 1)
      OBVIOUS
    <3> QED BY <2>1, <2>r, <3>1, Zenon
  <2>3. from[l] = <<x>> \o r
    <3>1. l \in 1..(n + 1) /\ ~(l > n)
      OBVIOUS
    <3> QED BY <1>3, <2>e, <2>r, <2>x, <3>1, Zenon
  <2>4. x \in Seq(T) /\ Len(x) = e - l + 1
    <3>1. \A i \in l..e : text[i] \in T
      BY <1>n
    <3> QED BY <2>x, <3>1, SubSeqProperties
  <2>5. Pieced(<<x>> \o r, T)
    <3>1. r \in Seq(Seq(T)) /\ \A i \in 1..Len(r) : r[i] # <<>>
      BY <2>2 DEF Pieced
    <3>2. x # <<>>
      <4>1. Len(x) # 0
        BY <2>4
      <4> QED BY <4>1, Len(<<>>) = 0, Zenon
    <3>3. <<x>> \in Seq(Seq(T)) /\ Len(<<x>>) = 1 /\ <<x>>[1] = x
      BY <2>4
    <3>4. /\ <<x>> \o r \in Seq(Seq(T)) /\ Len(<<x>> \o r) = 1 + Len(r)
          /\ \A i \in 1..(1 + Len(r)) : (<<x>> \o r)[i] = IF i <= 1 THEN <<x>>[i] ELSE r[i - 1]
      BY <3>1, <3>3, ConcatProperties
    <3>5. ASSUME NEW i \in 1..(1 + Len(r)) PROVE (<<x>> \o r)[i] # <<>>
      <4>m. Len(r) \in Nat
        BY <3>1
      <4>1. CASE i = 1
        BY <3>2, <3>3, <3>4, <4>1
      <4>2. CASE i # 1
        <5>1. i - 1 \in 1..Len(r) /\ ~(i <= 1)
          BY <4>m, <4>2
        <5> QED BY <3>1, <3>4, <5>1, Zenon
      <4> QED BY <4>1, <4>2
    <3> QED BY <3>4, <3>5 DEF Pieced
  <2>6. FlattenSeq(<<x>> \o r) = SubSeq(text, l, n)
    <3>1. <<x>> \in Seq(Seq(T)) /\ r \in Seq(Seq(T))
      BY <2>2, <2>4 DEF Pieced
    <3>2. FlattenSeq(<<x>> \o r) = FlattenSeq(<<x>>) \o FlattenSeq(r)
      BY <3>1, FlattenConcat
    <3>3. FlattenSeq(<<x>>) = x
      BY <2>4, FlattenOne
    <3>4. SubSeq(text, l, e) \o SubSeq(text, e + 1, n) = SubSeq(text, l, n)
      <4>1. l \in 1..(Len(text) + 1) /\ e \in (l - 1)..Len(text) /\ n \in e..Len(text)
        BY <1>n
      <4> QED BY <4>1, ConcatAdjacentSubSeq
    <3> QED BY <2>2, <2>x, <3>2, <3>3, <3>4, Zenon
  <2>7. Fine(l)
    BY <2>3, <2>5, <2>6, Zenon
  <2> HIDE DEF Fine
  <2>8. \A s \in l..(n + 1) : s = l \/ s \in (l + 1)..(n + 1)
    OBVIOUS
  <2> QED BY <2>l, <2>1, <2>7, <2>8
<1> HIDE DEF Good
<1>6. 0..n \subseteq Good /\ n \in 0..n
  BY <1>4, <1>5, Induction
<1>7. 1 \in (n + 1 - n)..(n + 1)
  OBVIOUS
<1>8. Fine(1)
  <2> HIDE DEF Fine
  <2> QED BY <1>6, <1>7 DEF Good
<1>9. SubSeq(text, 1, n) = text
  BY <1>n, SubSeqFull
<1> QED BY <1>2, <1>8, <1>9, Zenon

LEMMA NumbersFinite ==
  ASSUME NEW n \in Nat, NEW S, S \subseteq 1..n
  PROVE  IsFiniteSet(S) /\ Cardinality(S) \in Nat
<1>1. IsFiniteSet(1..n)
  BY 1 \in Int /\ n \in Int, FS_Interval
<1>2. IsFiniteSet(S)
  BY <1>1, FS_Subset
<1> QED BY <1>2, FS_CardinalityType

\* Of a set of numbers, there is a k-th.
Place(S, i) == Cardinality({j \in S : j <= i})

LEMMA KthExists ==
  ASSUME NEW n \in Nat, NEW S, S \subseteq 1..n, NEW k \in Nat, 1 <= k, k <= Cardinality(S)
  PROVE  \E i \in S : Place(S, i) = k
<1> DEFINE Upto(m) == {j \in S : j <= m}
           C(m) == Cardinality(Upto(m))
<1>0. \A j \in S : j \in Nat /\ 1 <= j /\ j <= n
  OBVIOUS
<1>1. IsFiniteSet(S) /\ Cardinality(S) \in Nat
  BY NumbersFinite
<1>2. \A m : IsFiniteSet(Upto(m)) /\ C(m) \in Nat
  <2>1. \A m : Upto(m) \subseteq S
    OBVIOUS
  <2>2. ASSUME NEW m PROVE IsFiniteSet(Upto(m)) /\ C(m) \in Nat
    BY <1>1, <2>1, FS_Subset, FS_CardinalityType
  <2> QED BY <2>2
<1>3. C(0) = 0
  <2>0. \A j \in S : ~(j <= 0)
    BY <1>0
  <2>1. Upto(0) = {}
    BY <2>0, Zenon
  <2> QED BY <2>1, FS_EmptySet
<1>4. C(n) = Cardinality(S)
  <2>1. Upto(n) = S
    BY <1>0
  <2> QED BY <2>1
<1>5. ASSUME NEW m \in 1..n
      PROVE  IF m \in S THEN C(m) = C(m - 1) + 1 ELSE C(m) = C(m - 1)
  <2>1. CASE m \in S
    <3>1. \A j \in S : j <= m <=> j <= m - 1 \/ j = m
      BY <1>0
    <3>2. Upto(m) = Upto(m - 1) \cup {m}
      BY <2>1, <3>1
    <3>3. m \notin Upto(m - 1)
      OBVIOUS
    <3> HIDE DEF Upto
    <3>4. Cardinality(Upto(m - 1) \cup {m}) = Cardinality(Upto(m - 1)) + 1
      BY <1>2, <3>3, FS_AddElement
    <3> QED BY <2>1, <3>2, <3>4
  <2>2. CASE m \notin S
    <3>0. \A j \in S : j <= m <=> j <= m - 1
      BY <1>0, <2>2
    <3>1. Upto(m) = Upto(m - 1)
      BY <3>0
    <3> QED BY <2>2, <3>1
  <2> QED BY <2>1, <2>2
<1> HIDE DEF C
<1> DEFINE High == {m \in 0..n : C(m) >= k}
<1>6. High \in SUBSET Nat /\ High # {}
  <2>1. n \in High
    BY <1>1, <1>4
  <2> QED BY <2>1
<1>7. PICK m \in High : \A i \in High : m <= i
  BY <1>6, LeastNumber
<1>8. m # 0
  BY <1>1, <1>3
<1>9. m - 1 \in 0..n /\ m \in 1..n /\ m \in Nat
  BY <1>8
<1>10. ~(C(m - 1) >= k)
  <2>1. ~(m <= m - 1)
    BY <1>9
  <2> QED BY <1>7, <1>9, <2>1
<1>11. C(m) \in Nat /\ C(m - 1) \in Nat
  BY <1>2 DEF C
<1>12. m \in S /\ C(m) = k
  <2>1. m \in S
    BY <1>5, <1>9, <1>10, <1>7
  <2>2. C(m) = C(m - 1) + 1
    BY <1>5, <1>9, <2>1
  <2> QED BY <1>7, <1>1, <1>10, <1>11, <2>1, <2>2
<1> QED BY <1>12, Zenon DEF C, Place

\* A later member has a later place, and a place is taken once.
LEMMA PlaceGrows ==
  ASSUME NEW n \in Nat, NEW S, S \subseteq 1..n, NEW p \in S, NEW q \in S, p < q
  PROVE  /\ Place(S, p) \in Nat /\ Place(S, q) \in Nat /\ Place(S, p) < Place(S, q)
         /\ (\A j \in S : ~(p < j /\ j < q)) => Place(S, q) = Place(S, p) + 1
<1> DEFINE Upto(m) == {j \in S : j <= m}
<1>0. p \in Nat /\ q \in Nat /\ \A j \in S : j \in Nat
  OBVIOUS
<1>1. \A m : IsFiniteSet(Upto(m)) /\ Cardinality(Upto(m)) \in Nat
  <2>1. \A m : Upto(m) \subseteq 1..n
    OBVIOUS
  <2> HIDE DEF Upto
  <2> QED BY <2>1, NumbersFinite
<1>2. Place(S, p) = Cardinality(Upto(p)) /\ Place(S, q) = Cardinality(Upto(q))
  BY DEF Place
<1>3. q \notin Upto(p) /\ Upto(p) \cup {q} \subseteq Upto(q)
  <2>1. ~(q <= p) /\ q <= q /\ \A j \in S : j <= p => j <= q
    BY <1>0
  <2> QED BY <2>1, Zenon
<1>4. (\A j \in S : ~(p < j /\ j < q)) => Upto(q) = Upto(p) \cup {q}
  <2> SUFFICES ASSUME \A j \in S : ~(p < j /\ j < q) PROVE Upto(q) = Upto(p) \cup {q}
    OBVIOUS
  <2>1. \A j \in S : j <= q <=> j <= p \/ j = q
    BY <1>0
  <2> QED BY <2>1, Zenon
<1> HIDE DEF Upto
<1>5. Cardinality(Upto(p) \cup {q}) = Cardinality(Upto(p)) + 1
  BY <1>1, <1>3, FS_AddElement
<1>6. Cardinality(Upto(p) \cup {q}) <= Cardinality(Upto(q))
  <2>1. Upto(p) \cup {q} \in SUBSET Upto(q)
    BY <1>3
  <2> QED BY <1>1, <2>1, FS_Subset
<1>7. Cardinality(Upto(p)) \in Nat /\ Cardinality(Upto(q)) \in Nat
  BY <1>1
<1> QED BY <1>2, <1>4, <1>5, <1>6, <1>7

\* Every word ends.
LEMMA WordEnds ==
  ASSUME NEW T, NEW text \in Seq(T), NEW i \in 1..Len(text), text[i] = "w"
  PROVE  \E j \in i..Len(text) : (\A k \in i .. j : text[k] = "w") /\ (j = Len(text) \/ text[j + 1] # "w")
<1>n. PICK n \in Nat : n = Len(text)
  OBVIOUS
<1> DEFINE Stops == {j \in i..n : j = n \/ text[j + 1] # "w"}
<1>1. Stops \in SUBSET Nat /\ Stops # {}
  <2>1. n \in Stops
    BY <1>n
  <2> QED BY <1>n, <2>1
<1>2. PICK j \in Stops : \A m \in Stops : j <= m
  BY <1>1, LeastNumber
<1>3. \A k \in i..j : text[k] = "w"
  <2> SUFFICES ASSUME NEW k \in i..j PROVE text[k] = "w"
    OBVIOUS
  <2>1. CASE k # i
    <3>1. k - 1 \in i..n /\ ~(j <= k - 1) /\ k - 1 # n /\ (k - 1) + 1 = k
      BY <1>n, <2>1
    <3>2. k - 1 \notin Stops
      BY <1>2, <3>1
    <3> QED BY <3>1, <3>2
  <2> QED BY <2>1
<1> QED BY <1>n, <1>2, <1>3

Full(T) == Seq(T) \ {<<>>}

\* No word is empty.
LEMMA WordsFull ==
  ASSUME NEW T, NEW text \in Seq(T)
  PROVE  WordsOf(text) \in Seq(Full(T))
<1>n. PICK n \in Nat : n = Len(text) /\ DOMAIN text = 1..n
  OBVIOUS
<1> DEFINE starts == {i \in DOMAIN text : text[i] = "w" /\ (i = 1 \/ text[i - 1] # "w")}
           IsEnd(i, j) == (\A k \in i .. j : text[k] = "w") /\ (j = Len(text) \/ text[j + 1] # "w")
           end(i) == CHOOSE j \in i .. Len(text) : IsEnd(i, j)
           nth(k) == CHOOSE i \in starts : Cardinality({j \in starts : j <= i}) = k
<1>1. starts \subseteq 1..n /\ \A i \in starts : text[i] = "w"
  BY <1>n
<1>2. PICK c \in Nat : c = Cardinality(starts)
  BY <1>1, NumbersFinite
<1>3. \A k \in 1..c : nth(k) \in starts
  <2> SUFFICES ASSUME NEW k \in 1..c PROVE nth(k) \in starts
    OBVIOUS
  <2> HIDE DEF starts
  <2>s. PICK S : S = starts
    OBVIOUS
  <2>0. S \subseteq 1..n /\ k \in Nat /\ 1 <= k /\ k <= Cardinality(S)
    BY <1>1, <1>2, <2>s
  <2>1. \E i \in S : Place(S, i) = k
    BY <2>0, KthExists
  <2>2. \E i \in starts : Cardinality({j \in starts : j <= i}) = k
    BY <2>1, <2>s, Zenon DEF Place
  <2> QED BY <2>2
<1>4. \A i \in starts : end(i) \in i..n
  <2> SUFFICES ASSUME NEW i \in starts PROVE end(i) \in i..n
    OBVIOUS
  <2>4. \E j \in i..Len(text) : IsEnd(i, j)
    BY <1>1, <1>n, WordEnds
  <2> HIDE DEF IsEnd
  <2>5. end(i) \in i..Len(text)
    BY <2>4
  <2> QED BY <1>n, <2>5
<1>5. WordsOf(text) = [k \in 1..Cardinality(starts) |-> SubSeq(text, nth(k), end(nth(k)))]
  BY DEF WordsOf
<1> HIDE DEF starts, end, nth
<1>6. ASSUME NEW k \in 1..c PROVE SubSeq(text, nth(k), end(nth(k))) \in Full(T)
  <2>1. PICK a \in 1..n : a = nth(k) /\ a \in starts
    BY <1>1, <1>3
  <2>2. PICK e \in a..n : e = end(a)
    BY <1>4, <2>1
  <2>3. \A i \in a..e : text[i] \in T
    BY <1>n
  <2>4. SubSeq(text, a, e) \in Seq(T) /\ Len(SubSeq(text, a, e)) = e - a + 1
    BY <2>3, SubSeqProperties
  <2>5. Len(SubSeq(text, a, e)) # 0
    BY <2>4
  <2>6. SubSeq(text, a, e) # <<>>
    BY <2>5, Len(<<>>) = 0, Zenon
  <2> QED BY <2>1, <2>2, <2>4, <2>6 DEF Full
<1>7. WordsOf(text) \in [1..c -> Full(T)]
  BY <1>2, <1>5, <1>6
<1> QED BY <1>7

LEMMA FullConcat ==
  ASSUME NEW T, NEW s \in Full(T), NEW t \in Seq(T)
  PROVE  s \o t \in Full(T)
<1>1. s \in Seq(T) /\ s # <<>>
  BY DEF Full
<1>2. s \o t \in Seq(T)
  BY <1>1, ConcatProperties
<1>3. s \o t # <<>>
  BY <1>1, ConcatEqualIffEmpty
<1> QED BY <1>2, <1>3 DEF Full

FullInside ==
  \A T : Full(T) \subseteq Seq(T) /\ Seq(Full(T)) \subseteq Seq(Seq(T))

LEMMA FullIs == FullInside
<1> SUFFICES ASSUME NEW T PROVE Full(T) \subseteq Seq(T) /\ Seq(Full(T)) \subseteq Seq(Seq(T))
  BY DEF FullInside
<1>1. Full(T) \subseteq Seq(T)
  BY DEF Full
<1>2. \A s \in Seq(Full(T)) : s \in Seq(Seq(T))
  BY <1>1, SeqMonotonic
<1> QED BY <1>1, <1>2

Space == <<" ">>

\* The words of a list with a space before each but the first, or before each.
Between(words) == [k \in DOMAIN words |-> IF k = 1 THEN words[k] ELSE Space \o words[k]]
Before(words) == [k \in DOMAIN words |-> Space \o words[k]]

LEMMA BetweenTyped ==
  ASSUME NEW T, Space \in Full(T), NEW words \in Seq(Full(T))
  PROVE  /\ Between(words) \in Seq(Full(T)) /\ Before(words) \in Seq(Full(T))
         /\ Len(Between(words)) = Len(words) /\ Len(Before(words)) = Len(words)
<1>n. PICK n \in Nat : n = Len(words) /\ DOMAIN words = 1..n
  OBVIOUS
<1>1. \A k \in 1..n : words[k] \in Full(T)
  BY <1>n
<1>3. \A k \in 1..n : Space \o words[k] \in Full(T)
  BY <1>1, FullConcat, FullIs DEF FullInside
<1>4. Between(words) \in [1..n -> Full(T)]
  <2>1. Between(words) = [k \in 1..n |-> IF k = 1 THEN words[k] ELSE Space \o words[k]]
    BY <1>n, Zenon DEF Between
  <2>2. \A k \in 1..n : (IF k = 1 THEN words[k] ELSE Space \o words[k]) \in Full(T)
    BY <1>1, <1>3, Zenon
  <2> QED BY <2>1, <2>2, Zenon
<1>5. Before(words) \in [1..n -> Full(T)]
  BY <1>n, <1>3, Zenon DEF Before
<1>6. \A f \in [1..n -> Full(T)] : f \in Seq(Full(T)) /\ Len(f) = n
  OBVIOUS
<1> QED BY <1>n, <1>4, <1>5, <1>6

\* The first word leads, and what follows it is the same in both.
LEMMA FirstWord ==
  ASSUME NEW T, Space \in Full(T), NEW words \in Seq(Full(T)), words # <<>>
  PROVE  \E first \in Full(T), rest \in Seq(T) :
           /\ Spaced(words) = first \o rest
           /\ FlattenSeq(Before(words)) = (Space \o first) \o rest
<1>n. PICK n \in Nat \ {0} : n = Len(words) /\ DOMAIN words = 1..n
  OBVIOUS
<1>b. PICK b \in Seq(Full(T)) : b = Between(words) /\ Len(b) = n
  BY <1>n, BetweenTyped
<1>e. PICK e \in Seq(Full(T)) : e = Before(words) /\ Len(e) = n
  BY <1>n, BetweenTyped
<1>1. PICK first \in Full(T) : first = words[1]
  BY <1>n
<1>2. b[1] = first /\ e[1] = Space \o first /\ \A k \in 2..n : b[k] = e[k]
  <2>1. 1 \in DOMAIN words /\ \A k \in 2..n : k \in DOMAIN words /\ k # 1
    BY <1>n
  <2> QED BY <1>b, <1>e, <1>1, <2>1, Zenon DEF Between, Before
<1>3. b \in Seq(Seq(T)) /\ e \in Seq(Seq(T))
  BY FullIs DEF FullInside
<1>r. PICK r : r = Tail(e)
  OBVIOUS
<1>4. r \in Seq(Seq(T)) /\ b = <<b[1]>> \o r /\ e = <<e[1]>> \o r
  <2>0. e # <<>> /\ b # <<>>
    BY <1>b, <1>e
  <2>1. r \in Seq(Seq(T)) /\ Len(r) = n - 1 /\ \A k \in 1..(n - 1) : r[k] = e[k + 1]
    BY <1>3, <1>e, <1>r, <2>0
  <2>2. b[1] \in Seq(T) /\ e[1] \in Seq(T)
    BY <1>3, <1>b, <1>e
  <2>3. /\ <<b[1]>> \o r \in Seq(Seq(T)) /\ Len(<<b[1]>> \o r) = n
        /\ <<e[1]>> \o r \in Seq(Seq(T)) /\ Len(<<e[1]>> \o r) = n
    BY <2>1, <2>2
  <2>4. \A k \in 1..n : (<<b[1]>> \o r)[k] = b[k] /\ (<<e[1]>> \o r)[k] = e[k]
    <3> SUFFICES ASSUME NEW k \in 1..n
                 PROVE  (<<b[1]>> \o r)[k] = b[k] /\ (<<e[1]>> \o r)[k] = e[k]
      OBVIOUS
    <3>1. CASE k = 1
      BY <2>1, <2>2, <3>1
    <3>2. CASE k # 1
      <4>1. k \in 2..n /\ k - 1 \in 1..(n - 1) /\ (k - 1) + 1 = k
        BY <3>2
      <4>2. b[k] = e[k] /\ r[k - 1] = e[k]
        BY <1>2, <2>1, <4>1
      <4>3. (<<b[1]>> \o r)[k] = r[k - 1] /\ (<<e[1]>> \o r)[k] = r[k - 1]
        <5>0. \A z \in Seq(T) : <<z>> \in Seq(Seq(T)) /\ Len(<<z>>) = 1
          OBVIOUS
        <5>1. PICK x \in Seq(Seq(T)), y \in Seq(Seq(T)) : x = <<b[1]>> /\ y = <<e[1]>> /\ Len(x) = 1 /\ Len(y) = 1
          BY <2>2, <5>0, Zenon
        <5>2. k \in 1..(Len(x) + Len(r)) /\ k \in 1..(Len(y) + Len(r)) /\ ~(k <= Len(x)) /\ ~(k <= Len(y))
          BY <2>1, <4>1, <5>1
        <5>3. (x \o r)[k] = r[k - Len(x)] /\ (y \o r)[k] = r[k - Len(y)]
          BY <2>1, <5>2, ConcatProperties
        <5> QED BY <5>1, <5>3
      <4> QED BY <4>2, <4>3
    <3> QED BY <3>1, <3>2
  <2>5. b = <<b[1]>> \o r
    BY <1>3, <1>b, <2>3, <2>4, SeqEqual
  <2>6. e = <<e[1]>> \o r
    BY <1>3, <1>e, <2>3, <2>4, SeqEqual
  <2> QED BY <2>1, <2>5, <2>6
<1>5. first \in Seq(T) /\ Space \o first \in Seq(T)
  <2>1. first \in Seq(T) /\ Space \in Seq(T)
    BY FullIs DEF FullInside
  <2> QED BY <2>1, ConcatProperties
<1>6. FlattenSeq(b) = first \o FlattenSeq(r)
  <2>1. <<first>> \in Seq(Seq(T)) /\ FlattenSeq(<<first>>) = first
    BY <1>5, FlattenOne
  <2>2. FlattenSeq(<<first>> \o r) = FlattenSeq(<<first>>) \o FlattenSeq(r)
    BY <1>4, <2>1, FlattenConcat
  <2> QED BY <1>2, <1>4, <2>1, <2>2, Zenon
<1>7. FlattenSeq(e) = (Space \o first) \o FlattenSeq(r)
  <2>x. PICK x : x = Space \o first
    OBVIOUS
  <2>0. x \in Seq(T)
    BY <1>5, <2>x
  <2>1. <<x>> \in Seq(Seq(T)) /\ FlattenSeq(<<x>>) = x
    BY <2>0, FlattenOne
  <2>2. FlattenSeq(<<x>> \o r) = FlattenSeq(<<x>>) \o FlattenSeq(r)
    BY <1>4, <2>1, FlattenConcat
  <2> QED BY <1>2, <1>4, <2>1, <2>2, <2>x, Zenon
<1>8. FlattenSeq(r) \in Seq(T)
  BY <1>4, FlattenTyped
<1>9. Spaced(words) = FlattenSeq(b)
  BY <1>b, Zenon DEF Spaced, Between, Space
<1> QED BY <1>e, <1>6, <1>7, <1>8, <1>9

LEMMA SpacedFull ==
  ASSUME NEW T, Space \in Full(T), NEW words \in Seq(Full(T)), words # <<>>
  PROVE  Spaced(words) \in Full(T)
<1>1. PICK first \in Full(T), rest \in Seq(T) : Spaced(words) = first \o rest
  BY FirstWord
<1> QED BY <1>1, FullConcat

Cat(s, t) == s \o t

LEMMA Regroup ==
  \A T : \A s, t, u \in Seq(T) : Cat(s, t) \in Seq(T) /\ Cat(Cat(s, t), u) = Cat(s, Cat(t, u))
<1> SUFFICES ASSUME NEW T, NEW s \in Seq(T), NEW t \in Seq(T), NEW u \in Seq(T)
             PROVE  s \o t \in Seq(T) /\ (s \o t) \o u = s \o (t \o u)
  BY DEF Cat
<1> QED BY ConcatProperties, ConcatAssociative

LEMMA SpacedConcat ==
  ASSUME NEW T, Space \in Full(T), NEW a \in Seq(Full(T)), a # <<>>, NEW b \in Seq(Full(T)), b # <<>>
  PROVE  Spaced(a \o b) = (Spaced(a) \o Space) \o Spaced(b)
<1>s. PICK s : s = Spaced(a)
  OBVIOUS
<1>n. PICK m \in Nat \ {0}, n \in Nat \ {0} : m = Len(a) /\ n = Len(b) /\ DOMAIN a = 1..m /\ DOMAIN b = 1..n
  OBVIOUS
<1>c. PICK c \in Seq(Full(T)) : c = a \o b
  BY ConcatProperties
<1>1. Len(c) = m + n /\ DOMAIN c = 1..(m + n) /\ \A k \in 1..(m + n) : c[k] = IF k <= m THEN a[k] ELSE b[k - m]
  BY <1>n, <1>c
<1>x. PICK x \in Seq(Full(T)) : x = Between(a) /\ Len(x) = m
  BY <1>n, BetweenTyped
<1>y. PICK y \in Seq(Full(T)) : y = Before(b) /\ Len(y) = n
  BY <1>n, BetweenTyped
<1>z. PICK z \in Seq(Full(T)) : z = Between(c) /\ Len(z) = m + n
  BY <1>1, BetweenTyped
<1>2. z = x \o y
  <2>1. x \o y \in Seq(Full(T)) /\ Len(x \o y) = m + n
    BY <1>x, <1>y, ConcatProperties
  <2>2. ASSUME NEW k \in 1..(m + n) PROVE z[k] = (x \o y)[k]
    <3>1. CASE k <= m
      <4>1. k \in DOMAIN a /\ k \in DOMAIN c /\ c[k] = a[k]
        BY <1>n, <1>1, <3>1
      <4>2. (x \o y)[k] = x[k]
        BY <1>x, <1>y, <3>1, ConcatProperties
      <4> QED BY <1>x, <1>z, <4>1, <4>2, Zenon DEF Between
    <3>2. CASE ~(k <= m)
      <4>1. k - m \in DOMAIN b /\ k \in DOMAIN c /\ k # 1 /\ c[k] = b[k - m]
        BY <1>n, <1>1, <3>2
      <4>2. (x \o y)[k] = y[k - m]
        BY <1>x, <1>y, <3>2, ConcatProperties
      <4> QED BY <1>y, <1>z, <4>1, <4>2, Zenon DEF Between, Before
    <3> QED BY <3>1, <3>2
  <2> QED BY <1>z, <2>1, <2>2, SeqEqual
<1>3. x \in Seq(Seq(T)) /\ y \in Seq(Seq(T))
  BY FullIs DEF FullInside
<1>4. FlattenSeq(z) = FlattenSeq(x) \o FlattenSeq(y)
  BY <1>2, <1>3, FlattenConcat
<1>5. Spaced(c) = FlattenSeq(z) /\ Spaced(a) = FlattenSeq(x)
  BY <1>x, <1>z, Zenon DEF Spaced, Between, Space
<1>6. PICK first \in Full(T), rest \in Seq(T) :
        Spaced(b) = first \o rest /\ FlattenSeq(y) = (Space \o first) \o rest
  BY <1>y, FirstWord
<1>7. s \in Seq(T) /\ first \in Seq(T) /\ Space \in Seq(T) /\ rest \in Seq(T)
  BY <1>s, SpacedFull, FullIs DEF FullInside
<1>8. Cat(s, Cat(Cat(Space, first), rest)) = Cat(Cat(s, Space), Cat(first, rest))
  <2>1. Cat(Cat(Space, first), rest) = Cat(Space, Cat(first, rest)) /\ Cat(first, rest) \in Seq(T)
    BY <1>7, Regroup
  <2>2. Cat(Cat(s, Space), Cat(first, rest)) = Cat(s, Cat(Space, Cat(first, rest)))
    BY <1>7, <2>1, Regroup
  <2> QED BY <2>1, <2>2, Zenon
<1>9. s \o ((Space \o first) \o rest) = (s \o Space) \o (first \o rest)
  BY <1>8 DEF Cat
<1> QED BY <1>c, <1>s, <1>4, <1>5, <1>6, <1>9, Zenon

LEMMA SpacedNone == Spaced(<<>>) = <<>>
<1>1. [k \in DOMAIN <<>> |-> IF k = 1 THEN <<>>[k] ELSE <<" ">> \o <<>>[k]] = <<>>
  OBVIOUS
<1> QED BY <1>1, FlattenNone, Zenon DEF Spaced

\* A character and what follows it.
LEMMA OneBefore ==
  ASSUME NEW T, NEW text \in Seq(T), NEW p \in 1..Len(text), NEW e \in p..Len(text)
  PROVE  <<text[p]>> \o SubSeq(text, p + 1, e) = SubSeq(text, p, e)
<1>n. PICK n \in Nat : n = Len(text)
  OBVIOUS
<1>1. SubSeq(text, p, p) \o SubSeq(text, p + 1, e) = SubSeq(text, p, e)
  <2>1. p \in 1..(Len(text) + 1) /\ p \in (p - 1)..Len(text) /\ e \in p..Len(text)
    BY <1>n
  <2> QED BY <2>1, ConcatAdjacentSubSeq
<1>2. SubSeq(text, p, p) = <<text[p]>>
  <2>s. PICK s : s = SubSeq(text, p, p)
    OBVIOUS
  <2>1. s \in Seq(T) /\ Len(s) = 1 /\ s[1] = text[p]
    BY <1>n, <2>s
  <2>2. <<text[p]>> \in Seq(T) /\ Len(<<text[p]>>) = 1 /\ <<text[p]>>[1] = text[p]
    BY <1>n
  <2>3. s = <<text[p]>>
    <3>1. \A i \in 1..Len(s) : s[i] = <<text[p]>>[i]
      BY <2>1, <2>2
    <3> QED BY <2>1, <2>2, <3>1, SeqEqual
  <2> QED BY <2>s, <2>3
<1> QED BY <1>1, <1>2, Zenon

\* Splitting a single-spaced text into words and joining these with single spaces
\* gives it back.
LEMMA SpacedBack ==
  ASSUME NEW T, Space \in Full(T), NEW text \in Seq(T), SingleSpaced(text)
  PROVE  Spaced(WordsOf(text)) = text
<1>n. PICK n \in Nat : n = Len(text) /\ DOMAIN text = 1..n
  OBVIOUS
<1>b. PICK blank : blank = " "
  OBVIOUS
<1>1. \A i \in 1..n : text[i] # "w" =>
        text[i] = blank /\ i - 1 \in 1..n /\ i + 1 \in 1..n /\ text[i - 1] = "w" /\ text[i + 1] = "w"
  <2> SUFFICES ASSUME NEW i \in 1..n, text[i] # "w"
               PROVE  text[i] = blank /\ i - 1 \in 1..n /\ i + 1 \in 1..n /\ text[i - 1] = "w" /\ text[i + 1] = "w"
    OBVIOUS
  <2>1. text[i] = blank /\ i \in 2 .. Len(text) - 1 /\ text[i - 1] = "w" /\ text[i + 1] = "w"
    BY <1>n, <1>b, Zenon DEF SingleSpaced
  <2>2. i - 1 \in 1..n /\ i + 1 \in 1..n
    BY <1>n, <2>1
  <2> QED BY <2>1, <2>2
<1> DEFINE starts == {i \in DOMAIN text : text[i] = "w" /\ (i = 1 \/ text[i - 1] # "w")}
           IsEnd(i, j) == (\A k \in i .. j : text[k] = "w") /\ (j = Len(text) \/ text[j + 1] # "w")
           end(i) == CHOOSE j \in i .. Len(text) : IsEnd(i, j)
           nth(k) == CHOOSE i \in starts : Cardinality({j \in starts : j <= i}) = k
<1>w. WordsOf(text) = [k \in 1..Cardinality(starts) |-> SubSeq(text, nth(k), end(nth(k)))]
  BY DEF WordsOf
<1>2. starts \subseteq 1..n /\ \A i \in 1..n : i \in starts <=> text[i] = "w" /\ (i = 1 \/ text[i - 1] # "w")
  BY <1>n
<1>3. \A i \in starts : end(i) \in i..n /\ (\A k \in i .. end(i) : text[k] = "w")
                        /\ (end(i) = n \/ text[end(i) + 1] # "w")
  <2> SUFFICES ASSUME NEW i \in starts PROVE end(i) \in i..Len(text) /\ IsEnd(i, end(i))
    BY <1>n
  <2>1. \E j \in i..Len(text) : IsEnd(i, j)
    BY <1>2, <1>n, WordEnds
  <2> HIDE DEF IsEnd
  <2> QED BY <2>1
<1>n2. \A k : nth(k) = CHOOSE i \in starts : Place(starts, i) = k
  BY Zenon DEF Place
<1>c. PICK c \in Nat : c = Cardinality(starts)
  BY <1>2, NumbersFinite
<1> HIDE DEF starts, end, nth
<1>4. \A k \in 1..c : nth(k) \in starts /\ Place(starts, nth(k)) = k
  <2> SUFFICES ASSUME NEW k \in 1..c PROVE nth(k) \in starts /\ Place(starts, nth(k)) = k
    OBVIOUS
  <2>1. \E i \in starts : Place(starts, i) = k
    <3>1. k \in Nat /\ 1 <= k /\ k <= Cardinality(starts)
      BY <1>c
    <3> QED BY <1>2, <3>1, KthExists
  <2> QED BY <1>n2, <2>1
<1>5. \A i \in starts : Place(starts, i) \in 1..c
  <2> SUFFICES ASSUME NEW i \in starts PROVE Place(starts, i) \in 1..c
    OBVIOUS
  <2> DEFINE Upto == {j \in starts : j <= i}
  <2>0. i <= i
    BY <1>2
  <2>1. Upto \in SUBSET starts /\ i \in Upto /\ Upto \subseteq 1..n
    BY <1>2, <2>0, Zenon
  <2> HIDE DEF Upto
  <2>2. IsFiniteSet(starts) /\ IsFiniteSet(Upto) /\ Cardinality(Upto) \in Nat
    BY <1>2, <2>1, NumbersFinite
  <2>3. Cardinality(Upto) <= c
    BY <1>c, <2>1, <2>2, FS_Subset
  <2>4. Cardinality(Upto) # 0
    BY <2>1, <2>2, FS_EmptySet
  <2>5. Place(starts, i) = Cardinality(Upto)
    BY DEF Place, Upto
  <2> QED BY <1>c, <2>2, <2>3, <2>4, <2>5
<1>g. ASSUME NEW p \in starts, NEW q \in starts, p < q
      PROVE  /\ Place(starts, p) \in Nat /\ Place(starts, q) \in Nat /\ Place(starts, p) < Place(starts, q)
             /\ (\A j \in starts : ~(p < j /\ j < q)) => Place(starts, q) = Place(starts, p) + 1
  BY <1>2, <1>g, PlaceGrows
<1>6. \A p, q \in starts : Place(starts, p) = Place(starts, q) => p = q
  <2>1. ASSUME NEW p \in starts, NEW q \in starts, p < q PROVE Place(starts, p) # Place(starts, q)
    BY <1>g, <2>1
  <2>2. \A p, q \in starts : p = q \/ p < q \/ q < p
    BY <1>2
  <2> QED BY <2>1, <2>2
\* After a word that is not the last character's come a space and the next word.
<1>7. ASSUME NEW k \in 1..c, end(nth(k)) # n
      PROVE  /\ text[end(nth(k)) + 1] = blank /\ k + 1 \in 1..c /\ nth(k + 1) = end(nth(k)) + 2
             /\ end(nth(k)) + 2 \in 1..n
  <2>1. PICK p \in 1..n : p = nth(k) /\ p \in starts /\ Place(starts, p) = k
    BY <1>2, <1>4
  <2>2. PICK e \in p..n : e = end(p) /\ (\A j \in p..e : text[j] = "w") /\ e # n /\ text[e + 1] # "w"
    BY <1>3, <1>7, <2>1
  <2>3. e + 1 \in 1..n /\ (e + 1) + 1 = e + 2 /\ (e + 2) - 1 = e + 1
    BY <2>2
  <2>4. text[e + 1] = blank /\ e + 2 \in 1..n /\ text[e + 2] = "w"
    BY <1>1, <2>2, <2>3
  <2>5. e + 2 \in starts
    BY <1>2, <2>2, <2>3, <2>4
  <2>6. \A j \in starts : ~(p < j /\ j < e + 2)
    <3> SUFFICES ASSUME NEW j \in starts, p < j, j < e + 2 PROVE FALSE
      OBVIOUS
    <3>1. j \in 1..n /\ text[j] = "w" /\ text[j - 1] # "w"
      BY <1>2
    <3>2. j # e + 1
      BY <2>2, <3>1
    <3>3. j - 1 \in p..e
      BY <2>2, <3>1, <3>2
    <3> QED BY <2>2, <3>1, <3>3
  <2>7. Place(starts, e + 2) = k + 1
    <3>1. p < e + 2
      BY <2>2
    <3> QED BY <1>g, <2>1, <2>5, <2>6, <3>1
  <2>8. k + 1 \in 1..c
    BY <1>5, <2>5, <2>7
  <2>9. nth(k + 1) = e + 2
    BY <1>4, <1>6, <2>5, <2>7, <2>8
  <2> QED BY <2>1, <2>2, <2>4, <2>8, <2>9
<1>8. ASSUME NEW k \in 1..c, k + 1 \in 1..c PROVE end(nth(k)) # n
  <2> SUFFICES ASSUME end(nth(k)) = n PROVE FALSE
    OBVIOUS
  <2>1. PICK p \in 1..n : p = nth(k) /\ p \in starts /\ Place(starts, p) = k
    BY <1>2, <1>4
  <2>2. PICK q \in 1..n : q = nth(k + 1) /\ q \in starts /\ Place(starts, q) = k + 1
    BY <1>2, <1>4, <1>8
  <2>3. p < q
    <3>1. p # q
      BY <2>1, <2>2
    <3>2. ASSUME q < p PROVE FALSE
      <4>1. Place(starts, q) < Place(starts, p)
        BY <1>g, <2>1, <2>2, <3>2
      <4> QED BY <2>1, <2>2, <4>1
    <3> QED BY <3>1, <3>2
  <2>4. q - 1 \in p..n /\ q # 1
    BY <2>3
  <2>5. text[q - 1] = "w"
    BY <1>3, <2>1, <2>4
  <2> QED BY <1>2, <2>2, <2>4, <2>5
<1>9. n # 0 => 1 \in 1..c /\ nth(1) = 1
  <2> SUFFICES ASSUME n # 0 PROVE 1 \in 1..c /\ nth(1) = 1
    OBVIOUS
  <2>1. 1 \in 1..n /\ 1 - 1 \notin 1..n
    OBVIOUS
  <2>2. 1 \in starts
    BY <1>1, <1>2, <2>1
  <2>3. {j \in starts : j <= 1} = {1}
    <3>1. \A j \in starts : j <= 1 <=> j = 1
      BY <1>2
    <3> QED BY <2>2, <3>1, Zenon
  <2>4. Place(starts, 1) = 1
    BY <2>3, FS_Singleton DEF Place
  <2>5. 1 \in 1..c
    BY <1>5, <2>2, <2>4
  <2> QED BY <1>4, <1>6, <2>2, <2>4, <2>5
<1>10. n = 0 => c = 0
  <2> SUFFICES ASSUME n = 0, c # 0 PROVE FALSE
    OBVIOUS
  <2>1. 1 \in 1..c
    OBVIOUS
  <2>2. nth(1) \in 1..n
    BY <1>2, <1>4, <2>1
  <2> QED BY <2>2
\* Each word with the space before it is the text from the end of the one before.
<1> DEFINE Reached(k) == IF k = 0 THEN 0 ELSE end(nth(k))
           words == WordsOf(text)
<1>11. words \in Seq(Full(T)) /\ Len(words) = c /\ \A k \in 1..c : words[k] = SubSeq(text, nth(k), end(nth(k)))
  <2>1. words \in Seq(Full(T))
    BY WordsFull
  <2>2. words = [k \in 1..c |-> SubSeq(text, nth(k), end(nth(k)))]
    BY <1>c, <1>w, Zenon
  <2> HIDE DEF words
  <2>3. DOMAIN words = 1..c /\ \A k \in 1..c : words[k] = SubSeq(text, nth(k), end(nth(k)))
    BY <2>2, Zenon
  <2>4. Len(words) = c
    BY <2>1, <2>3
  <2> QED BY <2>1, <2>3, <2>4
<1> HIDE DEF words
<1>12. ASSUME NEW k \in 1..c
       PROVE  /\ Reached(k - 1) \in 0..Reached(k) /\ Reached(k) \in 1..n
              /\ Between(words)[k] = SubSeq(text, Reached(k - 1) + 1, Reached(k))
  <2>1. PICK p \in 1..n : p = nth(k) /\ p \in starts
    BY <1>2, <1>4
  <2>2. PICK e \in p..n : e = end(p)
    BY <1>3, <2>1
  <2>3. Reached(k) = e
    BY <2>1, <2>2
  <2>4. Between(words)[k] = IF k = 1 THEN words[k] ELSE Space \o words[k]
    <3>1. k \in DOMAIN words
      BY <1>11
    <3> QED BY <3>1, Zenon DEF Between
  <2>5. words[k] = SubSeq(text, p, e)
    BY <1>11, <2>1, <2>2
  <2>6. CASE k = 1
    <3>1. p = 1 /\ Reached(k - 1) = 0
      BY <1>9, <2>1, <2>6
    <3> QED BY <2>2, <2>3, <2>4, <2>5, <2>6, <3>1
  <2>7. CASE k # 1
    <3>1. k - 1 \in 1..c /\ (k - 1) + 1 = k
      BY <2>7
    <3>2. end(nth(k - 1)) # n
      BY <1>8, <3>1
    <3>3. text[end(nth(k - 1)) + 1] = blank /\ nth(k) = end(nth(k - 1)) + 2
      BY <1>7, <3>1, <3>2
    <3>4. nth(k - 1) \in starts
      BY <1>4, <3>1
    <3>5. PICK d \in 1..n : d = end(nth(k - 1))
      <4>1. PICK q \in 1..n : q = nth(k - 1) /\ q \in starts
        BY <1>2, <3>4
      <4>2. end(q) \in q..n
        BY <1>3, <4>1
      <4>3. end(nth(k - 1)) \in 1..n
        BY <4>1, <4>2
      <4> QED BY <4>3
    <3>6. p = d + 2 /\ text[d + 1] = blank /\ Reached(k - 1) = d
      BY <2>1, <2>7, <3>3, <3>5
    <3>7. d + 1 \in 1..Len(text) /\ e \in (d + 1)..Len(text) /\ (d + 1) + 1 = p
      BY <1>n, <2>1, <2>2, <3>5, <3>6
    <3>8. Space \o SubSeq(text, (d + 1) + 1, e) = SubSeq(text, d + 1, e)
      <4>1. <<text[d + 1]>> \o SubSeq(text, (d + 1) + 1, e) = SubSeq(text, d + 1, e)
        BY <3>7, OneBefore
      <4>2. <<text[d + 1]>> = Space
        BY <1>b, <3>6, Zenon DEF Space
      <4> QED BY <4>1, <4>2, Zenon
    <3>9. Between(words)[k] = SubSeq(text, d + 1, e)
      BY <2>4, <2>5, <2>7, <3>7, <3>8
    <3>10. Reached(k) = e /\ Reached(k - 1) = d
      BY <2>3, <3>6
    <3> HIDE DEF Reached
    <3>11. Reached(k - 1) \in 0..Reached(k) /\ Reached(k) \in 1..n
      BY <2>2, <3>6, <3>10
    <3> QED BY <3>9, <3>10, <3>11, Zenon
  <2> QED BY <2>6, <2>7
<1>13. Reached(c) = n
  <2>1. CASE c = 0
    BY <1>9, <2>1
  <2>2. CASE c # 0
    <3>1. c \in 1..c /\ c + 1 \notin 1..c
      BY <2>2
    <3> QED BY <1>7, <2>2, <3>1
  <2> QED BY <2>1, <2>2
<1>14. PICK s : s = Between(words) /\ s \in Seq(Seq(T)) /\ Len(s) = c /\ Spaced(words) = FlattenSeq(s)
  <2>1. Between(words) \in Seq(Full(T)) /\ Len(Between(words)) = c
    BY <1>11, BetweenTyped
  <2>2. Spaced(words) = FlattenSeq(Between(words))
    BY Zenon DEF Spaced, Between, Space
  <2> QED BY <2>1, <2>2, FullIs DEF FullInside
<1>f. PICK f : Joins(f, s, c) /\ FlattenSeq(s) = f[c]
  BY <1>14, Flattens
<1> DEFINE Good == {k \in Nat : f[k] = SubSeq(text, 1, Reached(k))}
<1>15. 0 \in Good
  <2>1. SubSeq(text, 1, 0) = <<>>
    BY SubSeqEmpty
  <2> QED BY <1>f, <2>1 DEF Joins
<1> HIDE DEF Reached
<1>16. ASSUME NEW k \in 1..c, k - 1 \in Good PROVE k \in Good
  <2>1. PICK e \in 1..n : e = Reached(k)
    BY <1>12
  <2>2. PICK d \in 0..e : d = Reached(k - 1)
    BY <1>12, <2>1
  <2>3. f[k] = f[k - 1] \o s[k] /\ s[k] = SubSeq(text, d + 1, e)
    BY <1>f, <1>12, <1>14, <2>1, <2>2 DEF Joins
  <2>4. f[k - 1] = SubSeq(text, 1, d)
    BY <1>16, <2>2
  <2>5. SubSeq(text, 1, d) \o SubSeq(text, d + 1, e) = SubSeq(text, 1, e)
    <3>1. 1 \in 1..(Len(text) + 1) /\ d \in (1 - 1)..Len(text) /\ e \in d..Len(text)
      BY <1>n, <2>1, <2>2
    <3> QED BY <3>1, ConcatAdjacentSubSeq
  <2>6. f[k] = SubSeq(text, 1, Reached(k))
    BY <2>1, <2>3, <2>4, <2>5, Zenon
  <2> QED BY <2>6
<1> HIDE DEF Good
<1>17. 0..c \subseteq Good /\ c \in 0..c
  BY <1>15, <1>16, Induction
<1>18. f[c] = SubSeq(text, 1, n)
  BY <1>13, <1>17 DEF Good
<1> QED BY <1>n, <1>f, <1>14, <1>18, SubSeqFull DEF words

\* The pieces of a text of words spell its words, with one space between two.
LEMMA WordsSpelt ==
  ASSUME NEW T, Space \in Full(T), NEW text \in Seq(T)
  PROVE  Pieced(WordPieces(text), T) /\ FlattenSeq(WordPieces(text)) = Spaced(WordsOf(text))
<1>w. PICK words : words = WordsOf(text) /\ words \in Seq(Full(T))
  BY WordsFull
<1>g. PICK groups : groups = Slices(words, WordChunk)
  OBVIOUS
<1>1. groups \in Seq(Seq(Full(T))) /\ (\A i \in 1..Len(groups) : groups[i] # <<>>) /\ FlattenSeq(groups) = words
  <2>1. WordChunk \in Nat \ {0}
    BY StreamAssumption
  <2> QED BY <1>w, <1>g, <2>1, SlicesWhole DEF Pieced
<1>n. PICK n \in Nat : n = Len(groups) /\ DOMAIN groups = 1..n
  BY <1>1
<1> DEFINE Gap(k) == IF k < n THEN Space ELSE <<>>
<1>2. Space \in Seq(T) /\ \A k : Gap(k) \in Seq(T)
  <2>1. Space \in Seq(T) /\ <<>> \in Seq(T)
    BY FullIs, EmptySeq DEF FullInside
  <2> QED BY <2>1, Zenon
<1>3. \A k \in 1..n : groups[k] \in Seq(Full(T)) /\ groups[k] # <<>> /\ Spaced(groups[k]) \in Full(T)
  <2>1. \A k \in 1..n : groups[k] \in Seq(Full(T)) /\ groups[k] # <<>>
    BY <1>1, <1>n
  <2> QED BY <2>1, SpacedFull
<1>p. PICK p : p = WordPieces(text)
  OBVIOUS
<1>4. p = [g \in 1..n |-> Spaced(groups[g]) \o Gap(g)]
  BY <1>w, <1>g, <1>n, <1>p, Zenon DEF WordPieces, Space
<1> HIDE DEF Gap
<1>5. /\ p \in Seq(Seq(T)) /\ Len(p) = n
      /\ \A k \in 1..n : p[k] = Spaced(groups[k]) \o Gap(k) /\ p[k] # <<>>
  <2>1. \A k \in 1..n : Spaced(groups[k]) \o Gap(k) \in Full(T)
    BY <1>2, <1>3, FullConcat
  <2>2. p \in [1..n -> Full(T)] /\ \A k \in 1..n : p[k] = Spaced(groups[k]) \o Gap(k)
    BY <1>4, <2>1, Zenon
  <2>3. p \in Seq(Full(T)) /\ Len(p) = n
    BY <2>2
  <2>4. \A k \in 1..n : p[k] # <<>>
    BY <2>2 DEF Full
  <2> QED BY <2>2, <2>3, <2>4, FullIs DEF FullInside
<1>f. PICK f : Joins(f, groups, n) /\ f[n] = words /\ \A i \in 0..n : f[i] \in Seq(Full(T))
  BY <1>1, <1>n, Flattens
<1>h. PICK h : Joins(h, p, n) /\ FlattenSeq(p) = h[n] /\ \A i \in 0..n : h[i] \in Seq(T)
  BY <1>5, Flattens
<1> DEFINE Good == {k \in Nat : k = 0 \/ (f[k] # <<>> /\ h[k] = Spaced(f[k]) \o Gap(k))}
<1>6. 0 \in Good
  OBVIOUS
<1>7. ASSUME NEW k \in 1..n, k - 1 \in Good PROVE k \in Good
  <2>1. f[k] = f[k - 1] \o groups[k] /\ h[k] = h[k - 1] \o p[k]
    BY <1>f, <1>h DEF Joins
  <2>2. CASE k = 1
    <3>1. f[k - 1] = <<>> /\ h[k - 1] = <<>>
      BY <1>f, <1>h, <2>2 DEF Joins
    <3>2. <<>> \o groups[k] = groups[k] /\ <<>> \o p[k] = p[k]
      BY <1>3, <1>5, ConcatEmptySeq
    <3>3. f[k] = groups[k] /\ h[k] = p[k]
      BY <2>1, <3>1, <3>2, Zenon
    <3>4. f[k] # <<>> /\ h[k] = Spaced(f[k]) \o Gap(k)
      BY <1>3, <1>5, <3>3, Zenon
    <3> QED BY <3>4
  <2>3. CASE k # 1
    <3>1. k - 1 # 0 /\ k - 1 \in 0..n /\ k - 1 < n
      BY <2>3
    <3>a. PICK a : a = f[k - 1] /\ a \in Seq(Full(T)) /\ a # <<>>
      BY <1>7, <1>f, <3>1
    <3>b. PICK b : b = groups[k] /\ b \in Seq(Full(T)) /\ b # <<>>
      BY <1>3
    <3>2. Spaced(a) \in Seq(T) /\ Spaced(b) \in Seq(T)
      BY <3>a, <3>b, SpacedFull, FullIs DEF FullInside
    <3>3. h[k - 1] = Spaced(a) \o Space
      BY <1>7, <3>1, <3>a DEF Gap
    <3>4. Spaced(a \o b) = (Spaced(a) \o Space) \o Spaced(b)
      BY <3>a, <3>b, SpacedConcat
    <3>5. Cat(Spaced(a), Space) \in Seq(T)
      BY <1>2, <3>2, Regroup
    <3>6. Cat(Cat(Cat(Spaced(a), Space), Spaced(b)), Gap(k)) = Cat(Cat(Spaced(a), Space), Cat(Spaced(b), Gap(k)))
      BY <1>2, <3>2, <3>5, Regroup
    <3>7. ((Spaced(a) \o Space) \o Spaced(b)) \o Gap(k) = (Spaced(a) \o Space) \o (Spaced(b) \o Gap(k))
      BY <3>6 DEF Cat
    <3>8. h[k] = (Spaced(a) \o Space) \o (Spaced(b) \o Gap(k))
      BY <1>5, <2>1, <3>3, <3>b, Zenon
    <3>9. h[k] = Spaced(f[k]) \o Gap(k)
      BY <2>1, <3>a, <3>b, <3>4, <3>7, <3>8, Zenon
    <3>10. f[k] # <<>>
      BY <2>1, <3>a, <3>b, ConcatEqualIffEmpty
    <3> QED BY <3>9, <3>10
  <2> QED BY <2>2, <2>3
<1> HIDE DEF Good
<1>8. 0..n \subseteq Good /\ n \in 0..n
  BY <1>6, <1>7, Induction
<1>9. h[n] = Spaced(words)
  <2>1. CASE n = 0
    <3>1. h[n] = <<>> /\ words = <<>>
      BY <1>f, <1>h, <2>1 DEF Joins
    <3> QED BY <3>1, SpacedNone, Zenon
  <2>2. CASE n # 0
    <3>1. h[n] = Spaced(f[n]) \o Gap(n)
      BY <1>8, <2>2 DEF Good
    <3>2. Gap(n) = <<>>
      BY DEF Gap
    <3>3. words # <<>>
      BY <1>8, <1>f, <2>2 DEF Good
    <3>4. Spaced(words) \in Seq(T)
      BY <1>w, <3>3, SpacedFull, FullIs DEF FullInside
    <3>5. Spaced(words) \o <<>> = Spaced(words)
      BY <3>4, ConcatEmptySeq
    <3> QED BY <1>f, <3>1, <3>2, <3>5, Zenon
  <2> QED BY <2>1, <2>2
<1>10. Pieced(p, T)
  BY <1>5 DEF Pieced
<1> QED BY <1>p, <1>w, <1>h, <1>9, <1>10, Zenon

-----------------------------------------------------------------------------
(* What a list of events tells of a block. *)

Char == {"w", " ", "\n"}
AllTexts == Seq(Char)
Names == {"delta", "start", "stop", "finish", "done", "role", "message_start", "ping", "", "t1", "t2",
          "tool_calls", "end_turn", "length", "None"}
AnyEvent == [event : Names, block : Nat, id : Names, text : AllTexts]

LEMMA SpaceIsWord == Space \in Full(Char)
<1>1. \A T : \A x \in T : <<x>> \in Full(T)
  BY DEF Full
<1>2. " " \in Char
  BY Zenon DEF Char
<1> QED BY <1>1, <1>2, Zenon DEF Space

LEMMA NamesHave ==
  /\ "delta" \in Names /\ "start" \in Names /\ "stop" \in Names /\ "finish" \in Names /\ "done" \in Names
  /\ "role" \in Names /\ "message_start" \in Names /\ "ping" \in Names /\ "" \in Names
  /\ "tool_calls" \in Names /\ "end_turn" \in Names /\ "length" \in Names
BY Zenon DEF Names

LEMMA ListOfOne == \A T : \A x \in T : <<x>> \in Seq(T) /\ Len(<<x>>) = 1 /\ <<x>>[1] = x
OBVIOUS

Tells(s, b) == [i \in 1 .. Len(s) |-> IF s[i].event = "delta" /\ s[i].block = b THEN s[i].text ELSE <<>>]
Told(s, b) == FlattenSeq(Tells(s, b))

LEMMA TellsTyped ==
  ASSUME NEW s \in Seq(AnyEvent), NEW b
  PROVE  Tells(s, b) \in Seq(AllTexts) /\ Len(Tells(s, b)) = Len(s)
<1>n. PICK n \in Nat : n = Len(s)
  OBVIOUS
<1>1. \A i \in 1..n : s[i] \in AnyEvent
  BY <1>n
<1>2. \A i \in 1..n : s[i].text \in AllTexts
  BY <1>1 DEF AnyEvent
<1>3. <<>> \in AllTexts
  BY EmptySeq DEF AllTexts
<1>4. Tells(s, b) \in [1..n -> AllTexts]
  BY <1>n, <1>2, <1>3, Zenon DEF Tells
<1> QED BY <1>n, <1>4

LEMMA ToldTyped ==
  ASSUME NEW s \in Seq(AnyEvent), NEW b
  PROVE  Told(s, b) \in AllTexts
BY TellsTyped, FlattenTyped DEF Told, AllTexts

LEMMA ToldConcat ==
  ASSUME NEW s \in Seq(AnyEvent), NEW t \in Seq(AnyEvent), NEW b
  PROVE  Told(s \o t, b) = Told(s, b) \o Told(t, b)
<1>n. PICK m \in Nat, n \in Nat : m = Len(s) /\ n = Len(t)
  OBVIOUS
<1>u. PICK u : u = s \o t /\ u \in Seq(AnyEvent) /\ Len(u) = m + n
  BY <1>n, ConcatProperties
<1>x. PICK x : x = Tells(s, b) /\ x \in Seq(AllTexts) /\ Len(x) = m
  BY <1>n, TellsTyped
<1>y. PICK y : y = Tells(t, b) /\ y \in Seq(AllTexts) /\ Len(y) = n
  BY <1>n, TellsTyped
<1>z. PICK z : z = Tells(u, b) /\ z \in Seq(AllTexts) /\ Len(z) = m + n
  BY <1>u, TellsTyped
<1>1. \A k \in 1..(m + n) : u[k] = IF k <= m THEN s[k] ELSE t[k - m]
  BY <1>n, <1>u, ConcatProperties
<1>2. x \o y \in Seq(AllTexts) /\ Len(x \o y) = m + n
      /\ \A k \in 1..(m + n) : (x \o y)[k] = IF k <= m THEN x[k] ELSE y[k - m]
  <2>1. x \in Seq(AllTexts) /\ y \in Seq(AllTexts)
    BY <1>x, <1>y
  <2>2. /\ x \o y \in Seq(AllTexts) /\ Len(x \o y) = Len(x) + Len(y)
        /\ \A k \in 1..(Len(x) + Len(y)) : (x \o y)[k] = IF k <= Len(x) THEN x[k] ELSE y[k - Len(x)]
    BY <2>1, ConcatProperties
  <2>3. Len(x) = m /\ Len(y) = n
    BY <1>x, <1>y
  <2> QED BY <2>2, <2>3
<1>3. ASSUME NEW k \in 1..(m + n) PROVE z[k] = (x \o y)[k]
  <2>1. k \in 1..Len(u)
    BY <1>u
  <2>2. CASE k <= m
    <3>1. k \in 1..Len(s)
      BY <1>n, <2>2
    <3>2. u[k] = s[k] /\ (x \o y)[k] = x[k]
      BY <1>1, <1>2, <2>2, Zenon
    <3>3. /\ z[k] = IF u[k].event = "delta" /\ u[k].block = b THEN u[k].text ELSE <<>>
          /\ x[k] = IF s[k].event = "delta" /\ s[k].block = b THEN s[k].text ELSE <<>>
      BY <1>x, <1>z, <2>1, <3>1, Zenon DEF Tells
    <3> QED BY <3>2, <3>3, Zenon
  <2>3. CASE ~(k <= m)
    <3>1. k - m \in 1..Len(t)
      BY <1>n, <2>3
    <3>2. u[k] = t[k - m] /\ (x \o y)[k] = y[k - m]
      BY <1>1, <1>2, <2>3, Zenon
    <3>3. /\ z[k] = IF u[k].event = "delta" /\ u[k].block = b THEN u[k].text ELSE <<>>
          /\ y[k - m] = IF t[k - m].event = "delta" /\ t[k - m].block = b THEN t[k - m].text ELSE <<>>
      BY <1>y, <1>z, <2>1, <3>1, Zenon DEF Tells
    <3> QED BY <3>2, <3>3, Zenon
  <2> QED BY <2>2, <2>3
<1>4. z = x \o y
  BY <1>z, <1>2, <1>3, SeqEqual
<1>5. FlattenSeq(x \o y) = FlattenSeq(x) \o FlattenSeq(y)
  BY <1>x, <1>y, FlattenConcat DEF AllTexts
<1> QED BY <1>u, <1>x, <1>y, <1>z, <1>4, <1>5, Zenon DEF Told

LEMMA ToldCat ==
  \A s, t \in Seq(AnyEvent) : \A b : Told(Cat(s, t), b) = Cat(Told(s, b), Told(t, b))
BY ToldConcat DEF Cat

LEMMA ToldNothing ==
  ASSUME NEW s \in Seq(AnyEvent), NEW b, \A i \in 1..Len(s) : s[i].event = "delta" => s[i].block # b
  PROVE  Told(s, b) = <<>>
<1>1. \A i \in 1..Len(s) : Tells(s, b)[i] = <<>>
  BY Zenon DEF Tells
<1>2. Tells(s, b) \in Seq(AllTexts) /\ Len(Tells(s, b)) = Len(s)
  BY TellsTyped
<1> QED BY <1>1, <1>2, FlattenEmpties DEF Told, AllTexts

LEMMA ToldInOrder ==
  ASSUME NEW s \in Seq(AnyEvent), NEW b, NEW k \in 0..Len(s)
  PROVE  IsPrefix(Told(SubSeq(s, 1, k), b), Told(s, b))
<1>n. PICK n \in Nat : n = Len(s) /\ k \in 0..n
  OBVIOUS
<1>1. SubSeq(s, 1, k) \in Seq(AnyEvent) /\ SubSeq(s, k + 1, n) \in Seq(AnyEvent)
  BY <1>n, SubSeqProperties
<1>h. PICK h \in Seq(AnyEvent), t \in Seq(AnyEvent) : h = SubSeq(s, 1, k) /\ t = SubSeq(s, k + 1, n)
  BY <1>1
<1>2. h \o t = s
  <2>1. 1 \in 1..(Len(s) + 1) /\ k \in (1 - 1)..Len(s) /\ n \in k..Len(s)
    BY <1>n
  <2>2. SubSeq(s, 1, k) \o SubSeq(s, k + 1, n) = SubSeq(s, 1, n)
    BY <2>1, ConcatAdjacentSubSeq
  <2> QED BY <1>h, <1>n, <2>2, SubSeqFull
<1>x. PICK x : x = Told(h, b) /\ x \in Seq(Char)
  BY ToldTyped DEF AllTexts
<1>y. PICK y : y = Told(t, b) /\ y \in Seq(Char)
  BY ToldTyped DEF AllTexts
<1>3. Told(s, b) = x \o y
  <2>1. Told(h \o t, b) = Told(h, b) \o Told(t, b)
    BY ToldConcat
  <2> QED BY <1>2, <1>x, <1>y, <2>1, Zenon
<1>4. IsPrefix(x, x \o y)
  <2>1. Len(x \o y) = Len(x) + Len(y) /\ Len(x) \in Nat /\ Len(y) \in Nat
    BY <1>x, <1>y, ConcatProperties
  <2>2. SubSeq(x, 1, Len(x)) = x
    BY <1>x, SubSeqFull
  <2>3. SubSeq(x \o y, 1, Len(x)) = x
    <3>1. CASE Len(x) = 0
      <4>1. x = <<>> /\ SubSeq(x \o y, 1, 0) = <<>>
        BY <1>x, <3>1, SubSeqEmpty
      <4> QED BY <3>1, <4>1, Zenon
    <3>2. CASE Len(x) # 0
      <4>1. 1 \in 1..Len(x) /\ Len(x) \in 1..Len(x)
        BY <2>1, <3>2
      <4> QED BY <1>x, <1>y, <2>2, <4>1, SubSeqOfConcat1
    <3> QED BY <3>1, <3>2
  <2> QED BY <2>1, <2>2, <2>3 DEF IsPrefix
<1> QED BY <1>h, <1>x, <1>3, <1>4, Zenon

Deltas(b, cuts) == [p \in DOMAIN cuts |-> Ev("delta", b, "", cuts[p])]

OnlyDeltas(s, b) ==
  /\ s \in Seq(AnyEvent)
  /\ \A i \in 1..Len(s) : s[i].event = "delta" /\ s[i].block = b /\ s[i].text # <<>>

LEMMA DeltasTell ==
  ASSUME NEW b \in Nat, NEW cuts, Pieced(cuts, Char)
  PROVE  /\ OnlyDeltas(Deltas(b, cuts), b)
         /\ Told(Deltas(b, cuts), b) = FlattenSeq(cuts)
<1>1. cuts \in Seq(AllTexts) /\ \A i \in 1..Len(cuts) : cuts[i] # <<>>
  BY DEF Pieced, AllTexts
<1>n. PICK n \in Nat : n = Len(cuts) /\ DOMAIN cuts = 1..n
  BY <1>1
<1>2. \A i \in 1..n : cuts[i] \in AllTexts /\ cuts[i] # <<>>
  BY <1>1, <1>n
<1>d. PICK d : d = Deltas(b, cuts)
  OBVIOUS
<1>3. d = [p \in 1..n |-> Ev("delta", b, "", cuts[p])]
  BY <1>d, <1>n, Zenon DEF Deltas
<1>4. \A i \in 1..n : /\ d[i] \in AnyEvent /\ d[i].event = "delta" /\ d[i].block = b
                       /\ d[i].text = cuts[i]
  <2>1. \A i \in 1..n : d[i] = Ev("delta", b, "", cuts[i])
    BY <1>3, Zenon
  <2>2. b \in Nat
    OBVIOUS
  <2>3. \A i \in 1..n : /\ Ev("delta", b, "", cuts[i]) \in AnyEvent /\ Ev("delta", b, "", cuts[i]).event = "delta"
                         /\ Ev("delta", b, "", cuts[i]).block = b /\ Ev("delta", b, "", cuts[i]).text = cuts[i]
    BY <1>2, <2>2, NamesHave DEF Ev, AnyEvent
  <2> QED BY <2>1, <2>3, Zenon
<1>5. d \in [1..n -> AnyEvent]
  BY <1>3, <1>4, Zenon
<1>6. d \in Seq(AnyEvent) /\ Len(d) = n
  BY <1>5
<1>7. Tells(d, b) = cuts
  <2>1. Tells(d, b) \in Seq(AllTexts) /\ Len(Tells(d, b)) = n
    BY <1>6, TellsTyped
  <2>2. \A i \in 1..n : Tells(d, b)[i] = cuts[i]
    BY <1>4, <1>6, Zenon DEF Tells
  <2> QED BY <1>1, <1>n, <2>1, <2>2, SeqEqual
<1>8. OnlyDeltas(d, b)
  BY <1>2, <1>4, <1>6, Zenon DEF OnlyDeltas
<1> QED BY <1>d, <1>7, <1>8, Zenon DEF Told

\* The events of one block: none but a first one is a start, no text is empty,
\* and together they tell what is said.
Speaks(o, b, id, tool, said) ==
  /\ o \in Seq(AnyEvent)
  /\ \A i \in 1..Len(o) :
       /\ o[i].block = b /\ o[i].event # "finish"
       /\ o[i].event = "delta" => o[i].text # <<>>
       /\ o[i].event = "start" => i = 1 /\ o[i].id = id
  /\ tool => Len(o) >= 1 /\ o[1].event = "start"
  /\ Told(o, b) = said

LEMMA DeltasSpeak ==
  ASSUME NEW b \in Nat, NEW id, NEW cuts, Pieced(cuts, Char)
  PROVE  Speaks(Deltas(b, cuts), b, id, FALSE, FlattenSeq(cuts))
BY DeltasTell DEF Speaks, OnlyDeltas

\* One event before or after, that tells nothing.
LEMMA StartSpeaks ==
  ASSUME NEW b \in Nat, NEW id \in Names, NEW cuts, Pieced(cuts, Char)
  PROVE  Speaks(<<Ev("start", b, id, <<>>)>> \o Deltas(b, cuts), b, id, TRUE, FlattenSeq(cuts))
<1>d. PICK d \in Seq(AnyEvent) :
        /\ d = Deltas(b, cuts) /\ Told(d, b) = FlattenSeq(cuts)
        /\ \A i \in 1..Len(d) : d[i].event = "delta" /\ d[i].block = b /\ d[i].text # <<>>
  <2>1. OnlyDeltas(Deltas(b, cuts), b) /\ Told(Deltas(b, cuts), b) = FlattenSeq(cuts)
    BY DeltasTell
  <2> QED BY <2>1, Zenon DEF OnlyDeltas
<1>0. <<>> \in AllTexts
  BY EmptySeq DEF AllTexts
<1>a. b \in Nat /\ id \in Names
  OBVIOUS
<1>b. Ev("start", b, id, <<>>) \in AnyEvent /\ Ev("start", b, id, <<>>).event = "start"
      /\ Ev("start", b, id, <<>>).block = b /\ Ev("start", b, id, <<>>).id = id
  BY <1>0, <1>a, NamesHave DEF Ev, AnyEvent
<1>e. PICK e : e = Ev("start", b, id, <<>>) /\ e \in AnyEvent /\ e.event = "start" /\ e.block = b /\ e.id = id
  BY <1>b, Zenon
<1>s. PICK s : s \in Seq(AnyEvent) /\ s = <<e>> /\ Len(s) = 1 /\ s[1] = e
  BY <1>e, ListOfOne, Zenon
<1>o. PICK o \in Seq(AnyEvent) :
        /\ o = s \o d /\ Len(o) = 1 + Len(d)
        /\ \A i \in 1..(1 + Len(d)) : o[i] = IF i <= 1 THEN s[i] ELSE d[i - 1]
  <2>1. /\ s \o d \in Seq(AnyEvent) /\ Len(s \o d) = Len(s) + Len(d)
        /\ \A i \in 1..(Len(s) + Len(d)) : (s \o d)[i] = IF i <= Len(s) THEN s[i] ELSE d[i - Len(s)]
    BY <1>s, ConcatProperties
  <2> QED BY <1>s, <2>1
<1>1. Told(s, b) = <<>>
  <2>1. \A i \in 1..Len(s) : s[i] = e
    BY <1>s
  <2>2. \A i \in 1..Len(s) : s[i].event # "delta"
    BY <1>e, <2>1, Zenon
  <2> QED BY <1>s, <2>2, ToldNothing
<1>2. Told(o, b) = FlattenSeq(cuts)
  <2>1. Told(o, b) = Told(s, b) \o Told(d, b)
    BY <1>o, ToldConcat
  <2>2. <<>> \o Told(d, b) = Told(d, b)
    BY ToldTyped, ConcatEmptySeq DEF AllTexts
  <2> QED BY <1>d, <1>1, <2>1, <2>2, Zenon
<1>3. o[1] = e
  BY <1>s, <1>o
<1>4. ASSUME NEW i \in 1..Len(o), i # 1
      PROVE  o[i].event = "delta" /\ o[i].block = b /\ o[i].text # <<>>
  <2>1. i - 1 \in 1..Len(d) /\ ~(i <= 1) /\ i \in 1..(1 + Len(d))
    BY <1>o, <1>4
  <2>2. o[i] = d[i - 1]
    BY <1>o, <2>1, Zenon
  <2> QED BY <1>d, <2>1, <2>2, Zenon
<1>5. Speaks(o, b, id, TRUE, FlattenSeq(cuts))
  BY <1>e, <1>o, <1>2, <1>3, <1>4 DEF Speaks
<1> QED BY <1>d, <1>e, <1>s, <1>o, <1>5

LEMMA StopSpeaks ==
  ASSUME NEW b \in Nat, NEW id, NEW tool, NEW said, NEW o, Speaks(o, b, id, tool, said)
  PROVE  Speaks(o \o <<Ev("stop", b, "", <<>>)>>, b, id, tool, said)
<1>0. <<>> \in AllTexts
  BY EmptySeq DEF AllTexts
<1>a. b \in Nat
  OBVIOUS
<1>b. Ev("stop", b, "", <<>>) \in AnyEvent /\ Ev("stop", b, "", <<>>).event = "stop"
      /\ Ev("stop", b, "", <<>>).block = b
  BY <1>0, <1>a, NamesHave DEF Ev, AnyEvent
<1>e. PICK e : e = Ev("stop", b, "", <<>>) /\ e \in AnyEvent /\ e.event = "stop" /\ e.block = b
  BY <1>b, Zenon
<1>s. PICK s : s \in Seq(AnyEvent) /\ s = <<e>> /\ Len(s) = 1 /\ s[1] = e
  BY <1>e, ListOfOne, Zenon
<1>n. PICK n \in Nat : n = Len(o) /\ o \in Seq(AnyEvent)
  BY DEF Speaks
<1>u. PICK u \in Seq(AnyEvent) :
        /\ u = o \o s /\ Len(u) = n + 1
        /\ \A i \in 1..(n + 1) : u[i] = IF i <= n THEN o[i] ELSE s[i - n]
  <2>1. /\ o \o s \in Seq(AnyEvent) /\ Len(o \o s) = Len(o) + Len(s)
        /\ \A i \in 1..(Len(o) + Len(s)) : (o \o s)[i] = IF i <= Len(o) THEN o[i] ELSE s[i - Len(o)]
    BY <1>n, <1>s, ConcatProperties
  <2> QED BY <1>n, <1>s, <2>1
<1>1. Told(s, b) = <<>>
  <2>1. \A i \in 1..Len(s) : s[i] = e
    BY <1>s
  <2>2. \A i \in 1..Len(s) : s[i].event # "delta"
    BY <1>e, <2>1, Zenon
  <2> QED BY <1>s, <2>2, ToldNothing
<1>2. Told(u, b) = said
  <2>1. Told(u, b) = Told(o, b) \o Told(s, b)
    BY <1>n, <1>u, ToldConcat
  <2>2. Told(o, b) \o <<>> = Told(o, b)
    BY <1>n, ToldTyped, ConcatEmptySeq DEF AllTexts
  <2>3. Told(o, b) = said
    BY DEF Speaks
  <2> QED BY <1>1, <2>1, <2>2, <2>3, Zenon
<1>3. u[n + 1] = e
  BY <1>n, <1>s, <1>u
<1>4. \A i \in 1..n : u[i] = o[i]
  BY <1>u
<1>5. Speaks(u, b, id, tool, said)
  <2>1. ASSUME NEW i \in 1..Len(u)
        PROVE  /\ u[i].block = b /\ u[i].event # "finish"
               /\ u[i].event = "delta" => u[i].text # <<>>
               /\ u[i].event = "start" => i = 1 /\ u[i].id = id
    <3>1. CASE i = n + 1
      BY <1>e, <1>3, <3>1
    <3>2. CASE i \in 1..n
      <4>1. i \in 1..Len(o) /\ u[i] = o[i]
        BY <1>n, <1>4, <3>2
      <4>2. \A k \in 1..Len(o) :
              /\ o[k].block = b /\ o[k].event # "finish"
              /\ o[k].event = "delta" => o[k].text # <<>>
              /\ o[k].event = "start" => k = 1 /\ o[k].id = id
        BY Zenon DEF Speaks
      <4>3. /\ o[i].block = b /\ o[i].event # "finish"
            /\ o[i].event = "delta" => o[i].text # <<>>
            /\ o[i].event = "start" => i = 1 /\ o[i].id = id
        BY <4>1, <4>2
      <4> QED BY <4>1, <4>3
    <3>3. i = n + 1 \/ i \in 1..n
      BY <1>u
    <3> QED BY <3>1, <3>2, <3>3, Zenon
  <2>2. tool => Len(u) >= 1 /\ u[1].event = "start"
    <3>1. tool => n >= 1 /\ o[1].event = "start"
      BY <1>n DEF Speaks
    <3>2. n >= 1 => u[1] = o[1] /\ Len(u) >= 1
      BY <1>u, <1>4
    <3> QED BY <3>1, <3>2, Zenon
  <2> QED BY <1>2, <2>1, <2>2 DEF Speaks
<1> QED BY <1>e, <1>s, <1>u, <1>5

-----------------------------------------------------------------------------
(* The events of the blocks, one block after the other. *)

\* Events of the first n blocks: block by block, with one start for each call of
\* a tool, before what it tells, and for each block what it has to tell.
InBlocks(x, n, ids, tools, said) ==
  \A i \in 1..Len(x) :
    /\ x[i].block \in 1..n /\ x[i].event # "finish"
    /\ x[i].event = "delta" => x[i].text # <<>>
    /\ x[i].event = "start" => x[i].id = ids[x[i].block]
Ordered(x) == \A i, j \in 1..Len(x) : i < j => x[i].block <= x[j].block
StartsOnce(x) ==
  \A i, j \in 1..Len(x) : x[i].event = "start" /\ x[j].event = "start" /\ x[i].block = x[j].block => i = j
StartsFirst(x, tools) ==
  \A i \in 1..Len(x) : x[i].block \in tools => \E j \in 1..i : x[j].event = "start" /\ x[j].block = x[i].block
AllStart(x, n, tools) ==
  \A b \in 1..n : b \in tools => \E i \in 1..Len(x) : x[i].event = "start" /\ x[i].block = b
AllTold(x, n, k, said) == \A b \in 1..n : Told(x, b) = IF b <= k THEN said[b] ELSE <<>>

Body(x, n, k, ids, tools, said) ==
  /\ x \in Seq(AnyEvent) /\ InBlocks(x, k, ids, tools, said) /\ Ordered(x) /\ StartsOnce(x)
  /\ StartsFirst(x, tools) /\ AllStart(x, k, tools) /\ AllTold(x, n, k, said)

LEMMA BodyNone ==
  ASSUME NEW n \in Nat, NEW ids, NEW tools, NEW said
  PROVE  Body(<<>>, n, 0, ids, tools, said)
<1>1. <<>> \in Seq(AnyEvent) /\ Len(<<>>) = 0
  BY EmptySeq
<1>x. PICK x : x = <<>> /\ x \in Seq(AnyEvent) /\ Len(x) = 0
  BY <1>1
<1>2. \A i \in 1..Len(x) : FALSE
  BY <1>x
<1>3. \A b : Told(x, b) = <<>>
  BY <1>x, <1>2, ToldNothing
<1>4. \A b \in 1..n : ~(b <= 0)
  OBVIOUS
<1>5. \A b \in 1..0 : FALSE
  OBVIOUS
<1>6. AllTold(x, n, 0, said)
  BY <1>3, <1>4, Zenon DEF AllTold
<1>7. InBlocks(x, 0, ids, tools, said) /\ Ordered(x) /\ StartsOnce(x) /\ StartsFirst(x, tools) /\ AllStart(x, 0, tools)
  BY <1>2, <1>5, Zenon DEF InBlocks, Ordered, StartsOnce, StartsFirst, AllStart
<1> QED BY <1>x, <1>6, <1>7, Zenon DEF Body

LEMMA BodyGrows ==
  ASSUME NEW n \in Nat, NEW k \in 1..n, NEW ids, NEW tools, NEW said, NEW x, NEW o,
         Body(x, n, k - 1, ids, tools, said), Speaks(o, k, ids[k], k \in tools, said[k])
  PROVE  Body(x \o o, n, k, ids, tools, said)
<1>m. PICK m \in Nat, l \in Nat : m = Len(x) /\ l = Len(o) /\ x \in Seq(AnyEvent) /\ o \in Seq(AnyEvent)
  BY DEF Body, Speaks
<1>y. PICK y : /\ y = x \o o /\ y \in Seq(AnyEvent) /\ Len(y) = m + l
               /\ \A i \in 1..(m + l) : y[i] = IF i <= m THEN x[i] ELSE o[i - m]
  <2>1. /\ x \o o \in Seq(AnyEvent) /\ Len(x \o o) = Len(x) + Len(o)
        /\ \A i \in 1..(Len(x) + Len(o)) : (x \o o)[i] = IF i <= Len(x) THEN x[i] ELSE o[i - Len(x)]
    BY <1>m, ConcatProperties
  <2> QED BY <1>m, <2>1
<1>1. \A i \in 1..m : y[i] = x[i] /\ i \in 1..(m + l)
  BY <1>y
<1>2. \A i \in (m + 1)..(m + l) : y[i] = o[i - m] /\ i - m \in 1..l /\ i \in 1..(m + l)
  BY <1>y
<1>3. \A i \in 1..(m + l) : i \in 1..m \/ i \in (m + 1)..(m + l)
  OBVIOUS
<1>x. \A i \in 1..m :
        /\ x[i].block \in 1..(k - 1) /\ x[i].event # "finish"
        /\ x[i].event = "delta" => x[i].text # <<>>
        /\ x[i].event = "start" => x[i].id = ids[x[i].block]
  BY <1>m DEF Body, InBlocks
<1>o. \A i \in 1..l :
        /\ o[i].block = k /\ o[i].event # "finish"
        /\ o[i].event = "delta" => o[i].text # <<>>
        /\ o[i].event = "start" => i = 1 /\ o[i].id = ids[k]
  BY <1>m DEF Speaks
<1>4. \A i \in 1..m : y[i].block \in 1..(k - 1)
  BY <1>1, <1>x
<1>5. \A i \in (m + 1)..(m + l) : y[i].block = k
  BY <1>2, <1>o
<1>6. InBlocks(y, k, ids, tools, said)
  <2> SUFFICES ASSUME NEW i \in 1..(m + l)
               PROVE  /\ y[i].block \in 1..k /\ y[i].event # "finish"
                      /\ y[i].event = "delta" => y[i].text # <<>>
                      /\ y[i].event = "start" => y[i].id = ids[y[i].block]
    BY <1>y DEF InBlocks
  <2>1. CASE i \in 1..m
    <3>1. y[i] = x[i] /\ x[i].block \in 1..k
      BY <1>1, <1>x, <2>1
    <3> QED BY <1>x, <2>1, <3>1
  <2>2. CASE i \in (m + 1)..(m + l)
    <3>1. y[i] = o[i - m] /\ i - m \in 1..l
      BY <1>2, <2>2
    <3>2. k \in 1..k
      OBVIOUS
    <3> QED BY <1>o, <3>1, <3>2
  <2> QED BY <1>3, <2>1, <2>2
<1>7. Ordered(y)
  <2> SUFFICES ASSUME NEW i \in 1..(m + l), NEW j \in 1..(m + l), i < j
               PROVE  y[i].block <= y[j].block
    BY <1>y DEF Ordered
  <2>1. CASE j \in 1..m
    <3>1. i \in 1..m /\ i \in 1..Len(x) /\ j \in 1..Len(x)
      BY <1>m, <2>1
    <3>2. x[i].block <= x[j].block
      BY <3>1 DEF Body, Ordered
    <3> QED BY <1>1, <2>1, <3>1, <3>2
  <2>2. CASE j \in (m + 1)..(m + l)
    <3>1. y[j].block = k
      BY <1>5, <2>2
    <3>2. y[i].block \in 1..(k - 1) \/ y[i].block = k
      BY <1>3, <1>4, <1>5
    <3> QED BY <3>1, <3>2
  <2> QED BY <1>3, <2>1, <2>2
<1>8. StartsOnce(y)
  <2> SUFFICES ASSUME NEW i \in 1..(m + l), NEW j \in 1..(m + l),
                      y[i].event = "start", y[j].event = "start", y[i].block = y[j].block
               PROVE  i = j
    BY <1>y DEF StartsOnce
  <2>1. CASE i \in 1..m /\ j \in 1..m
    <3>1. i \in 1..Len(x) /\ j \in 1..Len(x) /\ y[i] = x[i] /\ y[j] = x[j]
      BY <1>m, <1>1, <2>1
    <3> QED BY <3>1 DEF Body, StartsOnce
  <2>2. CASE i \in (m + 1)..(m + l) /\ j \in (m + 1)..(m + l)
    <3>1. i - m = 1 /\ j - m = 1
      BY <1>2, <1>o, <2>2
    <3> QED BY <3>1
  <2>3. CASE i \in 1..m /\ j \in (m + 1)..(m + l)
    <3>1. y[i].block \in 1..(k - 1) /\ y[j].block = k
      BY <1>4, <1>5, <2>3
    <3> QED BY <3>1
  <2>4. CASE j \in 1..m /\ i \in (m + 1)..(m + l)
    <3>1. y[j].block \in 1..(k - 1) /\ y[i].block = k
      BY <1>4, <1>5, <2>4
    <3> QED BY <3>1
  <2> QED BY <1>3, <2>1, <2>2, <2>3, <2>4
<1>s. k \in tools => l >= 1 /\ m + 1 \in (m + 1)..(m + l) /\ y[m + 1].event = "start" /\ y[m + 1].block = k
  <2> SUFFICES ASSUME k \in tools
               PROVE  l >= 1 /\ m + 1 \in (m + 1)..(m + l) /\ y[m + 1].event = "start" /\ y[m + 1].block = k
    OBVIOUS
  <2>1. l >= 1 /\ o[1].event = "start"
    BY <1>m DEF Speaks
  <2>2. m + 1 \in (m + 1)..(m + l) /\ (m + 1) - m = 1
    BY <2>1
  <2>3. y[m + 1] = o[1]
    BY <1>2, <2>2
  <2> QED BY <1>5, <2>1, <2>2, <2>3
<1>9. StartsFirst(y, tools)
  <2> SUFFICES ASSUME NEW i \in 1..(m + l), y[i].block \in tools
               PROVE  \E j \in 1..i : y[j].event = "start" /\ y[j].block = y[i].block
    BY <1>y DEF StartsFirst
  <2>1. CASE i \in 1..m
    <3>1. i \in 1..Len(x) /\ y[i] = x[i]
      BY <1>m, <1>1, <2>1
    <3>2. PICK j \in 1..i : x[j].event = "start" /\ x[j].block = x[i].block
      BY <3>1 DEF Body, StartsFirst
    <3>3. y[j] = x[j]
      BY <1>1, <2>1
    <3> QED BY <3>1, <3>2, <3>3
  <2>2. CASE i \in (m + 1)..(m + l)
    <3>1. y[i].block = k /\ m + 1 \in 1..i
      BY <1>5, <2>2
    <3>2. y[m + 1].event = "start" /\ y[m + 1].block = k
      BY <1>s, <3>1
    <3> QED BY <3>1, <3>2
  <2> QED BY <1>3, <2>1, <2>2
<1>10. AllStart(y, k, tools)
  <2> SUFFICES ASSUME NEW b \in 1..k, b \in tools
               PROVE  \E i \in 1..(m + l) : y[i].event = "start" /\ y[i].block = b
    BY <1>y DEF AllStart
  <2>1. CASE b = k
    <3>1. m + 1 \in 1..(m + l) /\ y[m + 1].event = "start" /\ y[m + 1].block = b
      BY <1>s, <2>1
    <3> QED BY <3>1
  <2>2. CASE b # k
    <3>1. b \in 1..(k - 1)
      BY <2>2
    <3>2. PICK i \in 1..m : x[i].event = "start" /\ x[i].block = b
      BY <1>m, <3>1 DEF Body, AllStart
    <3>3. y[i] = x[i] /\ i \in 1..(m + l)
      BY <1>1
    <3> QED BY <3>2, <3>3
  <2> QED BY <2>1, <2>2
<1>11. AllTold(y, n, k, said)
  <2> SUFFICES ASSUME NEW b \in 1..n
               PROVE  Told(y, b) = IF b <= k THEN said[b] ELSE <<>>
    BY DEF AllTold
  <2>1. Told(y, b) = Told(x, b) \o Told(o, b)
    BY <1>m, <1>y, ToldConcat
  <2>2. Told(x, b) = IF b <= k - 1 THEN said[b] ELSE <<>>
    BY DEF Body, AllTold
  <2>t. Told(x, b) \in AllTexts /\ Told(o, b) \in AllTexts
    BY <1>m, ToldTyped
  <2>3. CASE b = k
    <3>1. Told(x, b) = <<>>
      BY <2>2, <2>3
    <3>2. Told(o, b) = said[b]
      BY <2>3 DEF Speaks
    <3>3. <<>> \o Told(o, b) = Told(o, b)
      BY <2>t, ConcatEmptySeq DEF AllTexts
    <3>4. b <= k
      BY <2>3
    <3> QED BY <2>1, <3>1, <3>2, <3>3, <3>4, Zenon
  <2>4. CASE b # k
    <3>1. \A i \in 1..Len(o) : o[i].block # b
      BY <1>m, <1>o, <2>4
    <3>2. Told(o, b) = <<>>
      BY <1>m, <3>1, ToldNothing
    <3>3. Told(x, b) \o <<>> = Told(x, b)
      BY <2>t, ConcatEmptySeq DEF AllTexts
    <3>4. b <= k <=> b <= k - 1
      BY <2>4
    <3> QED BY <2>1, <2>2, <3>2, <3>3, <3>4, Zenon
  <2> QED BY <2>3, <2>4
<1> QED BY <1>y, <1>6, <1>7, <1>8, <1>9, <1>10, <1>11, Zenon DEF Body

\* The whole of it.
LEMMA BodyWhole ==
  ASSUME NEW n \in Nat, NEW ids, NEW tools, NEW said, NEW O, O \in Seq(Seq(AnyEvent)), Len(O) = n,
         \A k \in 1..n : Speaks(O[k], k, ids[k], k \in tools, said[k])
  PROVE  Body(FlattenSeq(O), n, n, ids, tools, said)
<1>f. PICK f : Joins(f, O, n) /\ FlattenSeq(O) = f[n]
  BY Flattens
<1> DEFINE Good == {k \in Nat : Body(f[k], n, k, ids, tools, said)}
<1>1. 0 \in Good
  <2>1. f[0] = <<>>
    BY <1>f DEF Joins
  <2>2. Body(<<>>, n, 0, ids, tools, said)
    BY BodyNone
  <2> QED BY <2>1, <2>2
<1>2. ASSUME NEW k \in 1..n, k - 1 \in Good PROVE k \in Good
  <2>1. f[k] = f[k - 1] \o O[k]
    BY <1>f DEF Joins
  <2>2. Body(f[k - 1], n, k - 1, ids, tools, said)
    BY <1>2
  <2>3. Body(f[k - 1] \o O[k], n, k, ids, tools, said)
    BY <2>2, BodyGrows
  <2>4. Body(f[k], n, k, ids, tools, said)
    BY <2>1, <2>3, Zenon
  <2> QED BY <2>4
<1> HIDE DEF Good
<1>3. 0..n \subseteq Good
  BY <1>1, <1>2, Induction
<1>4. n \in Good
  BY <1>3
<1> QED BY <1>f, <1>4 DEF Good

\* The events around those of the blocks: only the first of the last two ends it.
Silent(e) == e \in AnyEvent /\ e.block = 0 /\ e.event # "delta" /\ e.event # "start"
Around(pre, post) ==
  /\ pre \in Seq(AnyEvent) /\ \A i \in 1..Len(pre) : Silent(pre[i]) /\ pre[i].event # "finish"
  /\ post \in Seq(AnyEvent) /\ Len(post) = 2
  /\ Silent(post[1]) /\ post[1].event = "finish" /\ Silent(post[2]) /\ post[2].event # "finish"

\* What a stream of n blocks is.
StreamFits(s, n, ids, tools, said) ==
  /\ s \in Seq(AnyEvent)
  /\ \A i \in 1..Len(s) :
       /\ s[i].event = "delta" => /\ s[i].block \in 1..n /\ s[i].text # <<>>
                                  /\ s[i].block \in tools =>
                                       \E j \in 1..i : s[j].event = "start" /\ s[j].block = s[i].block
       /\ s[i].event = "start" => s[i].block \in 1..n /\ s[i].id = ids[s[i].block]
  /\ \A i, j \in 1..Len(s) : i < j /\ s[i].block # 0 /\ s[j].block # 0 => s[i].block <= s[j].block
  /\ StartsOnce(s) /\ AllStart(s, n, tools)
  /\ \E f \in 1..Len(s) : \A i \in 1..Len(s) : s[i].event = "finish" <=> i = f
  /\ \A b \in 1..n : Told(s, b) = said[b]

LEMMA Framed ==
  ASSUME NEW n \in Nat, NEW ids, NEW tools, NEW said, NEW x, NEW pre, NEW post,
         Body(x, n, n, ids, tools, said), Around(pre, post)
  PROVE  StreamFits((pre \o x) \o post, n, ids, tools, said)
<1>m. PICK p \in Nat, m \in Nat :
        /\ p = Len(pre) /\ m = Len(x) /\ Len(post) = 2
        /\ pre \in Seq(AnyEvent) /\ x \in Seq(AnyEvent) /\ post \in Seq(AnyEvent)
  BY DEF Body, Around
<1>h. PICK h : /\ h = pre \o x /\ h \in Seq(AnyEvent) /\ Len(h) = p + m
               /\ \A i \in 1..(p + m) : h[i] = IF i <= p THEN pre[i] ELSE x[i - p]
  <2>1. /\ pre \o x \in Seq(AnyEvent) /\ Len(pre \o x) = Len(pre) + Len(x)
        /\ \A i \in 1..(Len(pre) + Len(x)) : (pre \o x)[i] = IF i <= Len(pre) THEN pre[i] ELSE x[i - Len(pre)]
    BY <1>m, ConcatProperties
  <2> QED BY <1>m, <2>1
<1>s. PICK s : /\ s = h \o post /\ s \in Seq(AnyEvent) /\ Len(s) = p + m + 2
               /\ \A i \in 1..(p + m + 2) : s[i] = IF i <= p + m THEN h[i] ELSE post[i - (p + m)]
  <2>1. /\ h \o post \in Seq(AnyEvent) /\ Len(h \o post) = Len(h) + Len(post)
        /\ \A i \in 1..(Len(h) + Len(post)) : (h \o post)[i] = IF i <= Len(h) THEN h[i] ELSE post[i - Len(h)]
    <3>1. h \in Seq(AnyEvent) /\ post \in Seq(AnyEvent)
      BY <1>m, <1>h
    <3> QED BY <3>1, ConcatProperties
  <2>2. Len(h) = p + m /\ Len(post) = 2
    BY <1>m, <1>h
  <2> QED BY <2>1, <2>2
<1>l. PICK l \in Nat : l = p + m + 2
  OBVIOUS
<1> DEFINE Mid == (p + 1)..(p + m)
<1>1. \A i \in 1..p : s[i] = pre[i]
  <2> SUFFICES ASSUME NEW i \in 1..p PROVE s[i] = pre[i]
    OBVIOUS
  <2>1. i <= p /\ i <= p + m /\ i \in 1..(p + m) /\ i \in 1..(p + m + 2)
    OBVIOUS
  <2>2. s[i] = h[i] /\ h[i] = pre[i]
    BY <1>h, <1>s, <2>1
  <2> QED BY <2>2
<1>2. \A i \in Mid : s[i] = x[i - p] /\ i - p \in 1..m
  <2> SUFFICES ASSUME NEW i \in Mid PROVE s[i] = x[i - p] /\ i - p \in 1..m
    OBVIOUS
  <2>1. ~(i <= p) /\ i <= p + m /\ i \in 1..(p + m) /\ i \in 1..(p + m + 2) /\ i - p \in 1..m
    OBVIOUS
  <2>2. s[i] = h[i] /\ h[i] = x[i - p]
    BY <1>h, <1>s, <2>1
  <2> QED BY <2>1, <2>2
<1>3. s[p + m + 1] = post[1] /\ s[p + m + 2] = post[2]
  <2>1. p + m + 1 \in 1..(p + m + 2) /\ p + m + 2 \in 1..(p + m + 2) /\ ~(p + m + 1 <= p + m) /\ ~(p + m + 2 <= p + m)
        /\ (p + m + 1) - (p + m) = 1 /\ (p + m + 2) - (p + m) = 2
    OBVIOUS
  <2> QED BY <1>s, <2>1
<1>4. \A i \in 1..l : i \in 1..p \/ i \in Mid \/ i = p + m + 1 \/ i = p + m + 2
  BY <1>l
<1> DEFINE Edge(i) == Silent(s[i]) /\ (s[i].event = "finish" <=> i = p + m + 1)
<1>5. \A i \in 1..l : i \notin Mid => Edge(i)
  <2> SUFFICES ASSUME NEW i \in 1..l, i \notin Mid PROVE Edge(i)
    OBVIOUS
  <2>1. CASE i \in 1..p
    <3>1. Silent(pre[i]) /\ pre[i].event # "finish" /\ i # p + m + 1
      BY <1>m, <2>1 DEF Around
    <3>2. s[i] = pre[i]
      BY <1>1, <2>1
    <3> QED BY <3>1, <3>2
  <2>2. CASE i = p + m + 1
    BY <1>3, <2>2 DEF Around
  <2>3. CASE i = p + m + 2
    <3>1. i # p + m + 1
      BY <2>3
    <3> QED BY <1>3, <2>3, <3>1 DEF Around
  <2> QED BY <1>4, <2>1, <2>2, <2>3
<1>x. \A i \in 1..m :
        /\ x[i].block \in 1..n /\ x[i].event # "finish"
        /\ x[i].event = "delta" => x[i].text # <<>>
        /\ x[i].event = "start" => x[i].id = ids[x[i].block]
  BY <1>m DEF Body, InBlocks
<1>6. \A i \in Mid :
        /\ s[i].block \in 1..n /\ s[i].event # "finish"
        /\ s[i].event = "delta" => s[i].text # <<>>
        /\ s[i].event = "start" => s[i].id = ids[s[i].block]
  BY <1>2, <1>x
<1>7. \A i \in 1..l : s[i].event = "delta" \/ s[i].event = "start" \/ s[i].block # 0 => i \in Mid
  BY <1>5 DEF Silent
<1>8. \A i \in Mid : i \in 1..l
  BY <1>l
<1> HIDE DEF Mid, Edge
<1>9. ASSUME NEW i \in 1..l
      PROVE  /\ s[i].event = "delta" => /\ s[i].block \in 1..n /\ s[i].text # <<>>
                                        /\ s[i].block \in tools =>
                                             \E j \in 1..i : s[j].event = "start" /\ s[j].block = s[i].block
             /\ s[i].event = "start" => s[i].block \in 1..n /\ s[i].id = ids[s[i].block]
  <2>1. ASSUME i \in Mid, s[i].block \in tools
        PROVE  \E j \in 1..i : s[j].event = "start" /\ s[j].block = s[i].block
    <3>1. s[i] = x[i - p] /\ i - p \in 1..Len(x)
      BY <1>m, <1>2, <2>1
    <3>2. PICK k \in 1..(i - p) : x[k].event = "start" /\ x[k].block = x[i - p].block
      BY <2>1, <3>1 DEF Body, StartsFirst
    <3>3. k + p \in Mid /\ (k + p) - p = k /\ k + p \in 1..i
      BY <2>1, <3>2 DEF Mid
    <3>4. s[k + p] = x[k]
      BY <1>2, <3>3
    <3> QED BY <3>1, <3>2, <3>3, <3>4
  <2>2. s[i].event = "delta" \/ s[i].event = "start" => i \in Mid
    BY <1>7
  <2>3. i \in Mid =>
          /\ s[i].block \in 1..n
          /\ s[i].event = "delta" => s[i].text # <<>>
          /\ s[i].event = "start" => s[i].id = ids[s[i].block]
    BY <1>6, Zenon
  <2>4. s[i].event = "delta" => s[i].block \in 1..n /\ s[i].text # <<>>
    BY <2>2, <2>3
  <2>5. s[i].event = "delta" /\ s[i].block \in tools =>
          \E j \in 1..i : s[j].event = "start" /\ s[j].block = s[i].block
    BY <2>1, <2>2
  <2>6. s[i].event = "start" => s[i].block \in 1..n /\ s[i].id = ids[s[i].block]
    BY <2>2, <2>3
  <2> QED BY <2>4, <2>5, <2>6
<1>10. ASSUME NEW i \in 1..l, NEW j \in 1..l, i < j, s[i].block # 0, s[j].block # 0
       PROVE  s[i].block <= s[j].block
  <2>1. i \in Mid /\ j \in Mid
    BY <1>7, <1>10
  <2>2. s[i] = x[i - p] /\ s[j] = x[j - p] /\ i - p \in 1..Len(x) /\ j - p \in 1..Len(x) /\ i - p < j - p
    BY <1>m, <1>2, <1>10, <2>1
  <2> QED BY <2>2 DEF Body, Ordered
<1>11. ASSUME NEW i \in 1..l, NEW j \in 1..l,
              s[i].event = "start", s[j].event = "start", s[i].block = s[j].block
       PROVE  i = j
  <2>1. i \in Mid /\ j \in Mid
    BY <1>7, <1>11
  <2>2. s[i] = x[i - p] /\ s[j] = x[j - p] /\ i - p \in 1..Len(x) /\ j - p \in 1..Len(x)
    BY <1>m, <1>2, <2>1
  <2>3. i - p = j - p
    BY <1>11, <2>2 DEF Body, StartsOnce
  <2> QED BY <2>3
<1>12. ASSUME NEW b \in 1..n, b \in tools
       PROVE  \E i \in 1..l : s[i].event = "start" /\ s[i].block = b
  <2>1. PICK i \in 1..m : x[i].event = "start" /\ x[i].block = b
    BY <1>m, <1>12 DEF Body, AllStart
  <2>2. i + p \in Mid /\ (i + p) - p = i
    BY DEF Mid
  <2>3. s[i + p] = x[i] /\ i + p \in 1..l
    BY <1>2, <1>8, <2>2
  <2> QED BY <2>1, <2>3
<1>13. p + m + 1 \in 1..l /\ \A i \in 1..l : s[i].event = "finish" <=> i = p + m + 1
  <2>1. p + m + 1 \in 1..l /\ p + m + 1 \notin Mid
    BY <1>l DEF Mid
  <2>2. ASSUME NEW i \in 1..l PROVE s[i].event = "finish" <=> i = p + m + 1
    <3>1. CASE i \in Mid
      <4>1. s[i].event # "finish"
        BY <1>6, <3>1, Zenon
      <4> QED BY <2>1, <3>1, <4>1, Zenon
    <3>2. CASE i \notin Mid
      BY <1>5, <3>2 DEF Edge
    <3> QED BY <3>1, <3>2
  <2> QED BY <2>1, <2>2
<1>14. ASSUME NEW b \in 1..n PROVE Told(s, b) = said[b]
  <2>1. Told(s, b) = Told(h, b) \o Told(post, b) /\ Told(h, b) = Told(pre, b) \o Told(x, b)
    <3>1. pre \in Seq(AnyEvent) /\ x \in Seq(AnyEvent) /\ h \in Seq(AnyEvent) /\ post \in Seq(AnyEvent)
      BY <1>m, <1>h
    <3>2. Told(Cat(h, post), b) = Cat(Told(h, b), Told(post, b))
      BY <3>1, ToldCat
    <3>3. Told(Cat(pre, x), b) = Cat(Told(pre, b), Told(x, b))
      BY <3>1, ToldCat
    <3> QED BY <1>h, <1>s, <3>2, <3>3, Zenon DEF Cat
  <2>2. Told(pre, b) = <<>>
    <3>1. \A i \in 1..Len(pre) : pre[i].event # "delta"
      BY DEF Around, Silent
    <3> QED BY <1>m, <3>1, ToldNothing
  <2>3. Told(post, b) = <<>>
    <3>1. \A i \in 1..Len(post) : i = 1 \/ i = 2
      BY <1>m
    <3>2. \A i \in 1..Len(post) : post[i].event # "delta"
      BY <3>1 DEF Around, Silent
    <3> QED BY <1>m, <3>2, ToldNothing
  <2>4. <<>> \o Told(x, b) = Told(x, b) /\ Told(x, b) \o <<>> = Told(x, b)
    <3>1. Told(x, b) \in AllTexts
      BY <1>m, ToldTyped
    <3> QED BY <3>1, ConcatEmptySeq DEF AllTexts
  <2>5. Told(x, b) = said[b]
    BY DEF Body, AllTold
  <2> QED BY <2>1, <2>2, <2>3, <2>4, <2>5, Zenon
<1>15. Len(s) = l
  BY <1>l, <1>s
<1>16. StartsOnce(s) /\ AllStart(s, n, tools)
  BY <1>11, <1>12, <1>15, Zenon DEF StartsOnce, AllStart
<1>17. StreamFits(s, n, ids, tools, said)
  <2>1. \A i \in 1..Len(s) :
          /\ s[i].event = "delta" => /\ s[i].block \in 1..n /\ s[i].text # <<>>
                                     /\ s[i].block \in tools =>
                                          \E j \in 1..i : s[j].event = "start" /\ s[j].block = s[i].block
          /\ s[i].event = "start" => s[i].block \in 1..n /\ s[i].id = ids[s[i].block]
    BY <1>9, <1>15, Zenon
  <2>2. \A i, j \in 1..Len(s) : i < j /\ s[i].block # 0 /\ s[j].block # 0 => s[i].block <= s[j].block
    BY <1>10, <1>15, Zenon
  <2>3. \E f \in 1..Len(s) : \A i \in 1..Len(s) : s[i].event = "finish" <=> i = f
    BY <1>13, <1>15, Zenon
  <2>4. s \in Seq(AnyEvent) /\ \A b \in 1..n : Told(s, b) = said[b]
    BY <1>s, <1>14, Zenon
  <2> QED BY <1>16, <2>1, <2>2, <2>3, <2>4, Zenon DEF StreamFits
<1> QED BY <1>h, <1>s, <1>17, Zenon

\* An answer that a model may give.
AnyBlock == [type : {"text", "tool", "other"}, id : Names, text : AllTexts]
ABlocks(a) == a.blocks \in Seq(AnyBlock) /\ a.finish \in Names
IdsOf(a) == [b \in 1..Len(a.blocks) |-> a.blocks[b].id]
ToolsOf(a) == {b \in 1..Len(a.blocks) : a.blocks[b].type = "tool"}
LEMMA SpeaksLess ==
  ASSUME NEW o, NEW b, NEW id, NEW said, NEW tool, NEW less, Speaks(o, b, id, tool, said), less => tool
  PROVE  Speaks(o, b, id, less, said)
BY Zenon DEF Speaks

\* A silent event, alone or of two.
LEMMA SilentEvent ==
  ASSUME NEW e \in Names, NEW i \in Names, e # "delta", e # "start"
  PROVE  Silent(Ev(e, 0, i, <<>>)) /\ Ev(e, 0, i, <<>>).event = e
<1>0. <<>> \in AllTexts
  BY EmptySeq DEF AllTexts
<1> QED BY <1>0 DEF Silent, AnyEvent, Ev

LEMMA PostIs ==
  ASSUME NEW i \in Names
  PROVE  LET post == <<Ev("finish", 0, i, <<>>), Ev("done", 0, "", <<>>)>>
         IN  /\ post \in Seq(AnyEvent) /\ Len(post) = 2
             /\ Silent(post[1]) /\ post[1].event = "finish" /\ Silent(post[2]) /\ post[2].event # "finish"
<1>x. PICK x : x = Ev("finish", 0, i, <<>>) /\ Silent(x) /\ x.event = "finish"
  <2>1. "finish" # "delta" /\ "finish" # "start" /\ "finish" \in Names
    BY NamesHave
  <2> QED BY <2>1, SilentEvent
<1>y. PICK y : y = Ev("done", 0, "", <<>>) /\ Silent(y) /\ y.event # "finish"
  <2>1. "done" # "delta" /\ "done" # "start" /\ "done" # "finish" /\ "done" \in Names /\ "" \in Names
    BY NamesHave
  <2> QED BY <2>1, SilentEvent
<1>1. x \in AnyEvent /\ y \in AnyEvent
  BY <1>x, <1>y DEF Silent
<1>2. <<x, y>> \in Seq(AnyEvent) /\ Len(<<x, y>>) = 2 /\ <<x, y>>[1] = x /\ <<x, y>>[2] = y
  BY <1>1
<1> QED BY <1>x, <1>y, <1>2, Zenon

LEMMA OpenAIFits ==
  ASSUME NEW a, ABlocks(a), \A b \in 1..Len(a.blocks) : a.blocks[b].type # "other"
  PROVE  StreamFits(OpenAIEvents(a), Len(a.blocks), IdsOf(a), ToolsOf(a), [b \in 1..Len(a.blocks) |-> a.blocks[b].text])
<1>n. PICK n \in Nat : n = Len(a.blocks) /\ DOMAIN a.blocks = 1..n
  BY DEF ABlocks
<1> DEFINE said == [b \in 1..n |-> a.blocks[b].text]
           Of(b) == IF a.blocks[b].type = "text" THEN Deltas(b, Pieces(a.blocks[b].text))
                    ELSE <<Ev("start", b, a.blocks[b].id, <<>>)>> \o Deltas(b, Slices(a.blocks[b].text, ArgChunk))
           O == [b \in DOMAIN a.blocks |-> Of(b)]
           reason == IF a.finish # "None" THEN a.finish
                     ELSE IF \E b \in DOMAIN a.blocks : a.blocks[b].type = "tool" THEN "tool_calls" ELSE "stop"
           pre == <<Ev("role", 0, "", <<>>)>>
           post == <<Ev("finish", 0, reason, <<>>), Ev("done", 0, "", <<>>)>>
<1>1. OpenAIEvents(a) = (pre \o FlattenSeq(O)) \o post
  BY Zenon DEF OpenAIEvents, Deltas
<1>2. \A b \in 1..n : a.blocks[b] \in AnyBlock
  BY <1>n DEF ABlocks
<1>3. \A b \in 1..n : a.blocks[b].text \in Seq(Char) /\ a.blocks[b].id \in Names
                      /\ (a.blocks[b].type = "text" \/ a.blocks[b].type = "tool")
  BY <1>2, <1>n DEF AnyBlock, AllTexts
<1>4. ASSUME NEW b \in 1..n
      PROVE  Speaks(Of(b), b, IdsOf(a)[b], b \in ToolsOf(a), said[b])
  <2>x. PICK x \in Seq(Char) : x = a.blocks[b].text
    BY <1>3
  <2>i. IdsOf(a)[b] = a.blocks[b].id /\ said[b] = x /\ b \in Nat /\ a.blocks[b].id \in Names
    BY <1>n, <1>3, <2>x DEF IdsOf
  <2>1. CASE a.blocks[b].type = "text"
    <3>1. Pieced(Pieces(x), Char) /\ FlattenSeq(Pieces(x)) = x
      BY PiecesWhole
    <3>2. Speaks(Deltas(b, Pieces(x)), b, a.blocks[b].id, FALSE, x)
      BY <2>i, <3>1, DeltasSpeak
    <3>3. b \notin ToolsOf(a)
      BY <2>1 DEF ToolsOf
    <3>4. Of(b) = Deltas(b, Pieces(x))
      BY <2>1, <2>x, Zenon
    <3> HIDE DEF Of, said
    <3> QED BY <2>i, <3>2, <3>3, <3>4, SpeaksLess
  <2>2. CASE a.blocks[b].type = "tool"
    <3>1. Pieced(Slices(x, ArgChunk), Char) /\ FlattenSeq(Slices(x, ArgChunk)) = x
      <4>1. ArgChunk \in Nat \ {0}
        BY StreamAssumption
      <4> QED BY <4>1, SlicesWhole
    <3>2. Speaks(<<Ev("start", b, a.blocks[b].id, <<>>)>> \o Deltas(b, Slices(x, ArgChunk)), b, a.blocks[b].id, TRUE, x)
      BY <2>i, <3>1, StartSpeaks
    <3>4. Of(b) = <<Ev("start", b, a.blocks[b].id, <<>>)>> \o Deltas(b, Slices(x, ArgChunk))
      <4>1. "tool" # "text"
        OBVIOUS
      <4> QED BY <2>2, <2>x, <4>1, Zenon
    <3> HIDE DEF Of, said
    <3> QED BY <2>i, <3>2, <3>4, SpeaksLess
  <2> QED BY <1>3, <2>1, <2>2
<1>5. O \in Seq(Seq(AnyEvent)) /\ Len(O) = n /\ \A b \in 1..n : O[b] = Of(b)
  <2>1. \A b \in 1..n : Of(b) \in Seq(AnyEvent)
    <3> HIDE DEF Of
    <3> QED BY <1>4 DEF Speaks
  <2> HIDE DEF Of
  <2>2. O = [b \in 1..n |-> Of(b)]
    BY <1>n
  <2>3. O \in [1..n -> Seq(AnyEvent)] /\ \A b \in 1..n : O[b] = Of(b)
    BY <2>1, <2>2, Zenon
  <2> HIDE DEF O
  <2> QED BY <2>3
<1> HIDE DEF Of, O, said
<1>6. Body(FlattenSeq(O), n, n, IdsOf(a), ToolsOf(a), said)
  <2>1. \A b \in 1..n : Speaks(O[b], b, IdsOf(a)[b], b \in ToolsOf(a), said[b])
    BY <1>4, <1>5, Zenon
  <2> QED BY <1>5, <2>1, BodyWhole
<1>7. reason \in Names
  BY NamesHave DEF ABlocks
<1> HIDE DEF reason
<1>8. Around(pre, post)
  <2>x. PICK x : x = Ev("role", 0, "", <<>>) /\ Silent(x) /\ x.event # "finish"
    <3>1. "role" # "delta" /\ "role" # "start" /\ "role" # "finish" /\ "role" \in Names /\ "" \in Names
      BY NamesHave
    <3> QED BY <3>1, SilentEvent
  <2>1. x \in AnyEvent
    BY <2>x DEF Silent
  <2>2. <<x>> \in Seq(AnyEvent) /\ \A i \in 1..Len(<<x>>) : <<x>>[i] = x
    BY <2>1
  <2>3. pre \in Seq(AnyEvent) /\ \A i \in 1..Len(pre) : Silent(pre[i]) /\ pre[i].event # "finish"
    BY <2>x, <2>2, Zenon
  <2>4. /\ post \in Seq(AnyEvent) /\ Len(post) = 2
        /\ Silent(post[1]) /\ post[1].event = "finish" /\ Silent(post[2]) /\ post[2].event # "finish"
    BY <1>7, PostIs
  <2> HIDE DEF pre, post
  <2> QED BY <2>3, <2>4, Zenon DEF Around
<1> HIDE DEF pre, post
<1>9. StreamFits((pre \o FlattenSeq(O)) \o post, n, IdsOf(a), ToolsOf(a), said)
  BY <1>6, <1>8, Framed
<1> QED BY <1>1, <1>9, <1>n, Zenon DEF said

\* What the events of an Anthropic block tell.
AnthropicSaid(a, b) ==
  CASE a.blocks[b].type = "other" -> <<>>
    [] a.blocks[b].type = "text" -> Spaced(WordsOf(a.blocks[b].text))
    [] OTHER -> a.blocks[b].text

LEMMA SilentSpeaks ==
  ASSUME NEW b \in Nat, NEW id
  PROVE  Speaks(<<>>, b, id, FALSE, <<>>)
<1>x. PICK x : x = <<>> /\ x \in Seq(AnyEvent) /\ Len(x) = 0
  BY EmptySeq
<1>1. \A i \in 1..Len(x) : FALSE
  BY <1>x
<1>2. Told(x, b) = <<>>
  BY <1>x, <1>1, ToldNothing
<1>3. Speaks(x, b, id, FALSE, <<>>)
  BY <1>x, <1>1, <1>2, Zenon DEF Speaks
<1> QED BY <1>x, <1>3

LEMMA AnthropicFits ==
  ASSUME NEW a, ABlocks(a)
  PROVE  StreamFits(AnthropicEvents(a), Len(a.blocks), IdsOf(a), ToolsOf(a), [b \in 1..Len(a.blocks) |-> AnthropicSaid(a, b)])
<1>n. PICK n \in Nat : n = Len(a.blocks) /\ DOMAIN a.blocks = 1..n
  BY DEF ABlocks
<1> DEFINE said == [b \in 1..n |-> AnthropicSaid(a, b)]
           Cut(b) == IF a.blocks[b].type = "text" THEN WordPieces(a.blocks[b].text)
                     ELSE Slices(a.blocks[b].text, ArgChunk)
           Of(b) == IF a.blocks[b].type = "other" THEN <<>>
                    ELSE (<<Ev("start", b, a.blocks[b].id, <<>>)>> \o Deltas(b, Cut(b))) \o <<Ev("stop", b, "", <<>>)>>
           O == [b \in DOMAIN a.blocks |-> Of(b)]
           reason == IF a.finish # "None" THEN a.finish ELSE "end_turn"
           pre == <<Ev("message_start", 0, "", <<>>), Ev("ping", 0, "", <<>>)>>
           post == <<Ev("finish", 0, reason, <<>>), Ev("done", 0, "", <<>>)>>
<1>1. AnthropicEvents(a) = (pre \o FlattenSeq(O)) \o post
  BY Zenon DEF AnthropicEvents, Deltas
<1>2. \A b \in 1..n : a.blocks[b] \in AnyBlock
  BY <1>n DEF ABlocks
<1>3. \A b \in 1..n : a.blocks[b].text \in Seq(Char) /\ a.blocks[b].id \in Names
                      /\ a.blocks[b].type \in {"text", "tool", "other"}
  BY <1>2, <1>n DEF AnyBlock, AllTexts
<1>4. ASSUME NEW b \in 1..n
      PROVE  Speaks(Of(b), b, IdsOf(a)[b], b \in ToolsOf(a), said[b])
  <2>x. PICK x \in Seq(Char) : x = a.blocks[b].text
    BY <1>3
  <2>i. IdsOf(a)[b] = a.blocks[b].id /\ said[b] = AnthropicSaid(a, b) /\ b \in Nat /\ a.blocks[b].id \in Names
    BY <1>n, <1>3 DEF IdsOf
  <2>1. CASE a.blocks[b].type = "other"
    <3>1. b \notin ToolsOf(a)
      BY <2>1 DEF ToolsOf
    <3>2. Of(b) = <<>>
      BY <2>1, Zenon
    <3>3. AnthropicSaid(a, b) = <<>>
      <4>1. "other" # "text"
        OBVIOUS
      <4> QED BY <2>1, <4>1 DEF AnthropicSaid
    <3>4. Speaks(<<>>, b, a.blocks[b].id, FALSE, <<>>)
      BY <2>i, SilentSpeaks
    <3> HIDE DEF Of, said
    <3>5. Speaks(Of(b), b, IdsOf(a)[b], FALSE, said[b])
      BY <2>i, <3>2, <3>3, <3>4, Zenon
    <3> QED BY <3>1, <3>5, SpeaksLess
  <2>2. CASE a.blocks[b].type # "other"
    <3>c. PICK c : c = Cut(b) /\ Pieced(c, Char) /\ FlattenSeq(c) = AnthropicSaid(a, b)
      <4>1. CASE a.blocks[b].type = "text"
        <5>1. Pieced(WordPieces(x), Char) /\ FlattenSeq(WordPieces(x)) = Spaced(WordsOf(x))
          BY SpaceIsWord, WordsSpelt
        <5>2. Cut(b) = WordPieces(x)
          BY <2>x, <4>1, Zenon
        <5>3. AnthropicSaid(a, b) = Spaced(WordsOf(x))
          BY <2>2, <2>x, <4>1 DEF AnthropicSaid
        <5> HIDE DEF Cut
        <5> QED BY <5>1, <5>2, <5>3
      <4>2. CASE a.blocks[b].type # "text"
        <5>1. Pieced(Slices(x, ArgChunk), Char) /\ FlattenSeq(Slices(x, ArgChunk)) = x
          <6>1. ArgChunk \in Nat \ {0}
            BY StreamAssumption
          <6> QED BY <6>1, SlicesWhole
        <5>2. Cut(b) = Slices(x, ArgChunk)
          BY <2>x, <4>2, Zenon
        <5>3. AnthropicSaid(a, b) = x
          BY <2>2, <2>x, <4>2 DEF AnthropicSaid
        <5> HIDE DEF Cut
        <5> QED BY <5>1, <5>2, <5>3
      <4> QED BY <4>1, <4>2
    <3>1. Speaks(<<Ev("start", b, a.blocks[b].id, <<>>)>> \o Deltas(b, c), b, a.blocks[b].id, TRUE, AnthropicSaid(a, b))
      BY <2>i, <3>c, StartSpeaks
    <3>2. Of(b) = (<<Ev("start", b, a.blocks[b].id, <<>>)>> \o Deltas(b, c)) \o <<Ev("stop", b, "", <<>>)>>
      BY <2>2, <3>c, Zenon
    <3> HIDE DEF Of, said, Cut
    <3>3. Speaks(Of(b), b, a.blocks[b].id, TRUE, AnthropicSaid(a, b))
      BY <2>i, <3>1, <3>2, StopSpeaks
    <3> QED BY <2>i, <3>3, SpeaksLess
  <2> QED BY <2>1, <2>2
<1>5. O \in Seq(Seq(AnyEvent)) /\ Len(O) = n /\ \A b \in 1..n : O[b] = Of(b)
  <2>1. \A b \in 1..n : Of(b) \in Seq(AnyEvent)
    <3> HIDE DEF Of
    <3> QED BY <1>4 DEF Speaks
  <2> HIDE DEF Of
  <2>2. O = [b \in 1..n |-> Of(b)]
    BY <1>n
  <2>3. O \in [1..n -> Seq(AnyEvent)] /\ \A b \in 1..n : O[b] = Of(b)
    BY <2>1, <2>2, Zenon
  <2> HIDE DEF O
  <2> QED BY <2>3
<1> HIDE DEF Of, O, said, Cut
<1>6. Body(FlattenSeq(O), n, n, IdsOf(a), ToolsOf(a), said)
  <2>1. \A b \in 1..n : Speaks(O[b], b, IdsOf(a)[b], b \in ToolsOf(a), said[b])
    BY <1>4, <1>5, Zenon
  <2> QED BY <1>5, <2>1, BodyWhole
<1>7. reason \in Names
  BY NamesHave DEF ABlocks
<1> HIDE DEF reason
<1>8. Around(pre, post)
  <2>x. PICK x : x = Ev("message_start", 0, "", <<>>) /\ Silent(x) /\ x.event # "finish"
    <3>1. /\ "message_start" # "delta" /\ "message_start" # "start" /\ "message_start" # "finish"
          /\ "message_start" \in Names /\ "" \in Names
      BY NamesHave
    <3> QED BY <3>1, SilentEvent
  <2>y. PICK y : y = Ev("ping", 0, "", <<>>) /\ Silent(y) /\ y.event # "finish"
    <3>1. "ping" # "delta" /\ "ping" # "start" /\ "ping" # "finish" /\ "ping" \in Names /\ "" \in Names
      BY NamesHave
    <3> QED BY <3>1, SilentEvent
  <2>1. x \in AnyEvent /\ y \in AnyEvent
    BY <2>x, <2>y DEF Silent
  <2>2. <<x, y>> \in Seq(AnyEvent) /\ \A i \in 1..Len(<<x, y>>) : <<x, y>>[i] = x \/ <<x, y>>[i] = y
    BY <2>1
  <2>3. pre \in Seq(AnyEvent) /\ \A i \in 1..Len(pre) : Silent(pre[i]) /\ pre[i].event # "finish"
    <3>p. PICK p : p = <<x, y>>
      OBVIOUS
    <3>1. pre = p
      BY <2>x, <2>y, <3>p, Zenon
    <3>2. p \in Seq(AnyEvent) /\ \A i \in 1..Len(p) : p[i] = x \/ p[i] = y
      BY <2>2, <3>p, Zenon
    <3> HIDE DEF pre
    <3> QED BY <2>x, <2>y, <3>1, <3>2
  <2>4. /\ post \in Seq(AnyEvent) /\ Len(post) = 2
        /\ Silent(post[1]) /\ post[1].event = "finish" /\ Silent(post[2]) /\ post[2].event # "finish"
    BY <1>7, PostIs
  <2> HIDE DEF pre, post
  <2> QED BY <2>3, <2>4, Zenon DEF Around
<1> HIDE DEF pre, post
<1>9. StreamFits((pre \o FlattenSeq(O)) \o post, n, IdsOf(a), ToolsOf(a), said)
  BY <1>6, <1>8, Framed
<1> QED BY <1>1, <1>9, <1>n, Zenon DEF said

NoName == ""

\* The blocks of an answer: a call of a tool has a name that no other block has.
Fitting(bs) ==
  /\ bs \in Seq(AnyBlock)
  /\ \A i, j \in 1..Len(bs) : bs[i].type = "tool" /\ bs[i].id = bs[j].id => i = j
  /\ \A i \in 1..Len(bs) : bs[i].type = "tool" => bs[i].id # NoName
NoOther(bs) == \A i \in 1..Len(bs) : bs[i].type # "other"

LEMMA ContentsTyped == Contents \subseteq AllTexts
<1>1. Contents = UNION {[1 .. n -> Char] : n \in 0 .. MaxText}
  BY Zenon DEF Contents, Char
<1>2. \A n \in 0..MaxText : [1..n -> Char] \subseteq Seq(Char)
  BY StreamAssumption
<1> QED BY <1>1, <1>2 DEF AllTexts

LEMMA ToolUseTyped ==
  ASSUME NEW id \in Names, NEW u \in ToolUse(id)
  PROVE  u \in AnyBlock /\ u.type = "tool" /\ u.id = id
<1>1. PICK n \in {0, 1, MaxText} : u = [type |-> "tool", id |-> id, text |-> [i \in 1 .. n |-> "w"]]
  BY Zenon DEF ToolUse
<1>2. n \in Nat
  BY StreamAssumption
<1>w. PICK w : w = "w" /\ w \in Char
  BY Zenon DEF Char
<1>3. [i \in 1..n |-> w] \in Seq(Char)
  BY <1>2, <1>w
<1>t. PICK t : t = [i \in 1 .. n |-> "w"] /\ t \in AllTexts
  BY <1>w, <1>3, Zenon DEF AllTexts
<1>4. u = [type |-> "tool", id |-> id, text |-> t]
  BY <1>1, <1>t, Zenon
<1> QED BY <1>4, <1>t DEF AnyBlock

LEMMA ToolsFit ==
  ASSUME NEW ts \in Tools
  PROVE  Fitting(ts) /\ NoOther(ts)
<1>0. "t1" \in Names /\ "t2" \in Names /\ "t1" # NoName /\ "t2" # NoName /\ "t1" # "t2" /\ "tool" # "other"
  <2>1. "t1" \in Names /\ "t2" \in Names
    BY Zenon DEF Names
  <2>2. "t1" # NoName /\ "t2" # NoName
    BY Zenon DEF NoName
  <2> QED BY <2>1, <2>2
<1>1. CASE ts = <<>>
  <2>1. ts \in Seq(AnyBlock) /\ Len(ts) = 0
    BY <1>1, EmptySeq
  <2>2. \A i \in 1..Len(ts) : FALSE
    BY <2>1
  <2> QED BY <2>1, <2>2, Zenon DEF Fitting, NoOther
<1>2. CASE \E t \in ToolUse("t1") : ts = <<t>>
  <2>t. PICK t : ts = <<t>> /\ t \in AnyBlock /\ t.type = "tool" /\ t.id = "t1"
    BY <1>0, <1>2, ToolUseTyped
  <2>1. ts \in Seq(AnyBlock) /\ Len(ts) = 1 /\ ts[1] = t
    BY <2>t
  <2>2. \A i \in 1..Len(ts) : i = 1
    BY <2>1
  <2> QED BY <1>0, <2>t, <2>1, <2>2 DEF Fitting, NoOther
<1>3. CASE \E t \in ToolUse("t1"), u \in ToolUse("t2") : ts = <<t, u>>
  <2>t. PICK t, u : /\ ts = <<t, u>> /\ t \in AnyBlock /\ t.type = "tool" /\ t.id = "t1"
                    /\ u \in AnyBlock /\ u.type = "tool" /\ u.id = "t2"
    BY <1>0, <1>3, ToolUseTyped
  <2>1. ts \in Seq(AnyBlock) /\ Len(ts) = 2 /\ ts[1] = t /\ ts[2] = u
    BY <2>t
  <2>2. \A i \in 1..Len(ts) : i = 1 \/ i = 2
    BY <2>1
  <2>3. \A i \in 1..Len(ts) : ts[i].type = "tool" /\ ts[i].type # "other" /\ ts[i].id # NoName
    BY <1>0, <2>t, <2>1, <2>2
  <2>4. ASSUME NEW i \in 1..Len(ts), NEW j \in 1..Len(ts), ts[i].id = ts[j].id PROVE i = j
    BY <1>0, <2>t, <2>1, <2>2, <2>4
  <2> QED BY <2>1, <2>3, <2>4 DEF Fitting, NoOther
<1>4. ts = <<>> \/ (\E t \in ToolUse("t1") : ts = <<t>>) \/ (\E t \in ToolUse("t1"), u \in ToolUse("t2") : ts = <<t, u>>)
  BY DEF Tools
<1> QED BY <1>1, <1>2, <1>3, <1>4

LEMMA FittingGrows ==
  ASSUME NEW bs, Fitting(bs), NEW c \in AnyBlock, c.type # "tool", c.id = NoName
  PROVE  Fitting(<<c>> \o bs) /\ (NoOther(bs) /\ c.type # "other" => NoOther(<<c>> \o bs))
<1>b. PICK n \in Nat : n = Len(bs) /\ bs \in Seq(AnyBlock)
  <2>1. bs \in Seq(AnyBlock)
    BY DEF Fitting
  <2> QED BY <2>1
<1>s. PICK s : s = <<c>> /\ s \in Seq(AnyBlock) /\ Len(s) = 1 /\ s[1] = c
  BY ListOfOne
<1>y. PICK y : /\ y = s \o bs /\ y \in Seq(AnyBlock) /\ Len(y) = 1 + n
               /\ \A i \in 1..(1 + n) : y[i] = IF i <= 1 THEN s[i] ELSE bs[i - 1]
  <2>1. /\ s \o bs \in Seq(AnyBlock) /\ Len(s \o bs) = Len(s) + Len(bs)
        /\ \A i \in 1..(Len(s) + Len(bs)) : (s \o bs)[i] = IF i <= Len(s) THEN s[i] ELSE bs[i - Len(s)]
    BY <1>b, <1>s, ConcatProperties
  <2> QED BY <1>b, <1>s, <2>1
<1>1. y[1] = c
  <2>1. 1 \in 1..(1 + n) /\ 1 <= 1
    OBVIOUS
  <2> QED BY <1>s, <1>y, <2>1, Zenon
<1>2. \A i \in 1..(1 + n) : i # 1 => y[i] = bs[i - 1] /\ i - 1 \in 1..n
  <2>1. \A i \in 1..(1 + n) : i # 1 => ~(i <= 1) /\ i - 1 \in 1..n
    OBVIOUS
  <2> QED BY <1>y, <2>1, Zenon
<1>3. /\ \A i \in 1..n : bs[i].type = "tool" => bs[i].id # NoName
      /\ \A i, j \in 1..n : bs[i].type = "tool" /\ bs[i].id = bs[j].id => i = j
  BY <1>b DEF Fitting
<1>4. ASSUME NEW i \in 1..(1 + n), NEW j \in 1..(1 + n), y[i].type = "tool", y[i].id = y[j].id
      PROVE  i = j
  <2>1. i # 1
    BY <1>1, <1>4
  <2>2. y[i] = bs[i - 1] /\ i - 1 \in 1..n
    BY <1>2, <2>1
  <2>3. j # 1
    BY <1>1, <1>3, <1>4, <2>2
  <2>4. y[j] = bs[j - 1] /\ j - 1 \in 1..n
    BY <1>2, <2>3
  <2>5. i - 1 = j - 1
    BY <1>3, <1>4, <2>2, <2>4
  <2> QED BY <2>5
<1>5. ASSUME NEW i \in 1..(1 + n), y[i].type = "tool"
      PROVE  y[i].id # NoName
  <2>1. i # 1
    BY <1>1, <1>5
  <2>2. y[i] = bs[i - 1] /\ i - 1 \in 1..n
    BY <1>2, <2>1
  <2> QED BY <1>3, <1>5, <2>2
<1>6. Fitting(y)
  BY <1>y, <1>4, <1>5 DEF Fitting
<1>7. ASSUME NoOther(bs), c.type # "other", NEW i \in 1..(1 + n)
      PROVE  y[i].type # "other"
  <2>1. CASE i = 1
    BY <1>1, <1>7, <2>1
  <2>2. CASE i # 1
    <3>1. y[i] = bs[i - 1] /\ i - 1 \in 1..Len(bs)
      BY <1>b, <1>2, <2>2
    <3> QED BY <1>7, <3>1 DEF NoOther
  <2> QED BY <2>1, <2>2
<1>8. NoOther(bs) /\ c.type # "other" => NoOther(y)
  BY <1>y, <1>7 DEF NoOther
<1> QED BY <1>s, <1>y, <1>6, <1>8, Zenon

Finishes == {"None", "length"}

LEMMA AnswersFit ==
  ASSUME NEW a \in Answers
  PROVE  /\ Fitting(a.blocks) /\ NoOther(a.blocks) /\ a.finish \in Names
         /\ LET o == [a EXCEPT !.blocks = <<Other>> \o @] IN Fitting(o.blocks) /\ o.finish \in Names
<1>a. PICK b \in Block, t \in Tools, f \in Finishes : a = AnswerOf(b, t, f)
  BY DEF Answers, Finishes
<1>b. b \in AnyBlock /\ b.type = "text" /\ b.id = NoName
  <2>1. NoName \in Names
    BY NamesHave DEF NoName
  <2>2. Block = [type : {"text"}, id : {NoName}, text : Contents]
    BY Zenon DEF Block, NoName
  <2> QED BY <2>1, <2>2, ContentsTyped DEF AnyBlock
<1>1. Fitting(t) /\ NoOther(t)
  BY ToolsFit
<1>c. PICK bs : bs = <<b>> \o t
  OBVIOUS
<1>2. Fitting(bs) /\ NoOther(bs)
  BY <1>b, <1>c, <1>1, FittingGrows
<1>3. a.blocks = bs /\ a.finish = f
  BY <1>a, <1>c DEF AnswerOf
<1>4. f \in Names
  BY Zenon DEF Names, Finishes
<1>o. Other \in AnyBlock /\ Other.type = "other" /\ Other.id = NoName
  <2>1. NoName \in Names
    BY NamesHave DEF NoName
  <2>2. <<>> \in AllTexts
    BY EmptySeq DEF AllTexts
  <2>3. Other = [type |-> "other", id |-> NoName, text |-> <<>>]
    BY Zenon DEF Other, NoName
  <2> QED BY <2>1, <2>2, <2>3 DEF AnyBlock
<1>p. PICK ps : ps = <<Other>> \o bs
  OBVIOUS
<1>5. Fitting(ps)
  BY <1>o, <1>p, <1>2, FittingGrows
<1>6. [a EXCEPT !.blocks = <<Other>> \o @] = [blocks |-> ps, finish |-> f]
  <2>1. a = [blocks |-> bs, finish |-> f]
    BY <1>a, <1>c, Zenon DEF AnswerOf
  <2>2. [a EXCEPT !.blocks = ps] = [blocks |-> ps, finish |-> f]
    BY <2>1
  <2> QED BY <1>3, <1>p, <2>2, Zenon
<1> QED BY <1>2, <1>3, <1>4, <1>5, <1>6

Answerable(a, f) == Fitting(a.blocks) /\ a.finish \in Names /\ (f = "openai" => NoOther(a.blocks))
EventsOf(a, f) == IF f = "openai" THEN OpenAIEvents(a) ELSE AnthropicEvents(a)
SaidOf(a, f) == IF f = "openai" THEN [b \in 1..Len(a.blocks) |-> a.blocks[b].text]
                ELSE [b \in 1..Len(a.blocks) |-> AnthropicSaid(a, b)]

LEMMA EventsFit ==
  ASSUME NEW a, NEW f, Answerable(a, f)
  PROVE  StreamFits(EventsOf(a, f), Len(a.blocks), IdsOf(a), ToolsOf(a), SaidOf(a, f))
<1>1. ABlocks(a)
  BY DEF Answerable, Fitting, ABlocks
<1>2. CASE f = "openai"
  <2>1. \A b \in 1..Len(a.blocks) : a.blocks[b].type # "other"
    BY <1>2, Zenon DEF Answerable, NoOther
  <2>2. EventsOf(a, f) = OpenAIEvents(a) /\ SaidOf(a, f) = [b \in 1..Len(a.blocks) |-> a.blocks[b].text]
    BY <1>2, Zenon DEF EventsOf, SaidOf
  <2> QED BY <1>1, <2>1, <2>2, OpenAIFits
<1>3. CASE f # "openai"
  <2>2. EventsOf(a, f) = AnthropicEvents(a) /\ SaidOf(a, f) = [b \in 1..Len(a.blocks) |-> AnthropicSaid(a, b)]
    BY <1>3, Zenon DEF EventsOf, SaidOf
  <2> QED BY <1>1, <2>2, AnthropicFits
<1> QED BY <1>2, <1>3

\* s is the beginning of e.
Begun(s, e) == s \in Seq(AnyEvent) /\ Len(s) <= Len(e) /\ \A i \in 1..Len(s) : s[i] = e[i]

LEMMA BegunIs ==
  ASSUME NEW e \in Seq(AnyEvent), NEW s, Begun(s, e)
  PROVE  /\ Len(s) \in 0..Len(e) /\ s = SubSeq(e, 1, Len(s))
         /\ Len(s) = Len(e) => s = e
<1>n. PICK n \in Nat, m \in Nat : n = Len(e) /\ m = Len(s) /\ s \in Seq(AnyEvent) /\ m <= n
  BY DEF Begun
<1>1. \A i \in 1..m : s[i] = e[i]
  BY <1>n DEF Begun
<1>2. /\ SubSeq(e, 1, m) \in Seq(AnyEvent) /\ Len(SubSeq(e, 1, m)) = m
      /\ \A i \in 1..m : SubSeq(e, 1, m)[i] = e[i]
  BY <1>n
<1>3. s = SubSeq(e, 1, m)
  BY <1>n, <1>1, <1>2, SeqEqual
<1>4. n = m => SubSeq(e, 1, m) = e
  BY <1>n, SubSeqFull
<1> QED BY <1>n, <1>3, <1>4

LEMMA BegunNone ==
  ASSUME NEW e \in Seq(AnyEvent)
  PROVE  Begun(<<>>, e)
<1>1. <<>> \in Seq(AnyEvent) /\ Len(<<>>) = 0 /\ Len(e) \in Nat
  BY EmptySeq
<1>2. \A i \in 1..0 : FALSE
  OBVIOUS
<1>3. 0 <= Len(e)
  BY <1>1
<1> QED BY <1>1, <1>2, <1>3, Zenon DEF Begun

LEMMA BegunGrows ==
  ASSUME NEW e \in Seq(AnyEvent), NEW s, Begun(s, e), Len(s) < Len(e)
  PROVE  Begun(Append(s, e[Len(s) + 1]), e)
<1>n. PICK n \in Nat, m \in Nat : n = Len(e) /\ m = Len(s) /\ s \in Seq(AnyEvent) /\ m < n
  BY DEF Begun
<1>1. e[m + 1] \in AnyEvent
  BY <1>n
<1>t. PICK t \in Seq(AnyEvent) : /\ t = Append(s, e[m + 1]) /\ Len(t) = m + 1 /\ t[m + 1] = e[m + 1]
                                 /\ \A i \in 1..m : t[i] = s[i]
  <2>x. PICK x \in AnyEvent : x = e[m + 1]
    BY <1>1
  <2>1. /\ Append(s, x) \in Seq(AnyEvent) /\ Len(Append(s, x)) = m + 1
        /\ Append(s, x)[m + 1] = x /\ \A i \in 1..m : Append(s, x)[i] = s[i]
    BY <1>n, AppendProperties
  <2> QED BY <2>x, <2>1
<1>2. \A i \in 1..m : s[i] = e[i]
  BY <1>n DEF Begun
<1>3. \A i \in 1..(m + 1) : t[i] = e[i]
  <2>1. \A i \in 1..(m + 1) : i \in 1..m \/ i = m + 1
    OBVIOUS
  <2> QED BY <1>t, <1>2, <2>1
<1>4. m + 1 <= n
  BY <1>n
<1> QED BY <1>n, <1>t, <1>3, <1>4 DEF Begun

StreamInv ==
  /\ form \in {"openai", "anthropic", "unknown"}
  /\ Answerable(answer, form)
  /\ form = "unknown" => answer = NoAnswer /\ status = "" /\ reply \in {"", "passed on"}
  /\ Begun(sent, Events)
  /\ reply = "" => sent = <<>>
  /\ reply = "ended" => Len(sent) = Len(Events)

LEMMA EventsListed ==
  ASSUME NEW a, NEW f, Answerable(a, f)
  PROVE  EventsOf(a, f) \in Seq(AnyEvent)
BY EventsFit DEF StreamFits

LEMMA StreamInvInit == StreamInit => StreamInv
<1> SUFFICES ASSUME StreamInit PROVE StreamInv
  OBVIOUS
<1>1. /\ form \in {"openai", "anthropic", "unknown"} /\ answer = NoAnswer /\ status = "" /\ reply = "" /\ sent = <<>>
  BY Zenon DEF StreamInit
<1>2. Answerable(NoAnswer, form)
  <2>1. <<>> \in Tools
    BY DEF Tools
  <2>2. Fitting(<<>>) /\ NoOther(<<>>)
    BY <2>1, ToolsFit
  <2>3. NoAnswer.blocks = <<>> /\ NoAnswer.finish = "None"
    BY DEF NoAnswer
  <2>4. "None" \in Names
    BY Zenon DEF Names
  <2> QED BY <2>2, <2>3, <2>4, Zenon DEF Answerable
<1>3. Begun(sent, Events)
  <2>1. EventsOf(NoAnswer, form) \in Seq(AnyEvent)
    BY <1>2, EventsListed
  <2>2. Begun(<<>>, EventsOf(NoAnswer, form))
    BY <2>1, BegunNone
  <2> QED BY <1>1, <2>2, Zenon DEF Events, EventsOf
<1>4. ~(reply = "ended")
  BY <1>1, Zenon
<1> QED BY <1>1, <1>2, <1>3, <1>4, Zenon DEF StreamInv

LEMMA StreamInvStep == StreamInv /\ [StreamNext]_streamVars => StreamInv'
<1> SUFFICES ASSUME StreamInv, [StreamNext]_streamVars PROVE StreamInv'
  OBVIOUS
<1>i. /\ form \in {"openai", "anthropic", "unknown"}
      /\ Answerable(answer, form)
      /\ form = "unknown" => answer = NoAnswer /\ status = "" /\ reply \in {"", "passed on"}
      /\ Begun(sent, EventsOf(answer, form))
      /\ reply = "" => sent = <<>>
      /\ reply = "ended" => Len(sent) = Len(EventsOf(answer, form))
  BY Zenon DEF StreamInv, Events, EventsOf
<1>e. Events' = EventsOf(answer', form')
  BY Zenon DEF Events, EventsOf
<1>1. CASE PassOn
  <2>1. form' = form /\ answer' = answer /\ status' = status /\ sent' = sent /\ reply' = "passed on"
    BY <1>1, Zenon DEF PassOn
  <2>2. ~(reply' = "") /\ ~(reply' = "ended")
    BY <2>1, Zenon
  <2> QED BY <1>i, <1>e, <2>1, <2>2, Zenon DEF StreamInv
<1>2. CASE Answered
  <2>1. form' = form /\ sent' = sent /\ reply' = reply /\ reply = "" /\ form # "unknown"
    BY <1>2, Zenon DEF Answered
  <2>2. sent' = <<>> /\ ~(reply' = "ended")
    BY <1>i, <2>1, Zenon
  <2>3. Answerable(answer', form')
    <3>1. CASE answer' = answer
      BY <1>i, <2>1, <3>1, Zenon
    <3>2. CASE \E a \in Answers : answer' = a
      <4>1. Fitting(answer'.blocks) /\ NoOther(answer'.blocks) /\ answer'.finish \in Names
        BY <3>2, AnswersFit
      <4> QED BY <4>1, Zenon DEF Answerable
    <3>3. CASE form = "anthropic" /\ \E a \in Answers : answer' = [a EXCEPT !.blocks = <<Other>> \o @]
      <4>1. Fitting(answer'.blocks) /\ answer'.finish \in Names
        BY <3>3, AnswersFit
      <4>2. ~(form' = "openai")
        BY <2>1, <3>3, Zenon
      <4> QED BY <4>1, <4>2, Zenon DEF Answerable
    <3>4. \/ answer' = answer
          \/ \E a \in Answers : answer' = a
          \/ (form = "anthropic" /\ \E a \in Answers : answer' = [a EXCEPT !.blocks = <<Other>> \o @])
      <4>1. CASE status' = "ok"
        <5>1. PICK a \in Answers :
                answer' \in {a} \cup (IF form = "anthropic" THEN {[a EXCEPT !.blocks = <<Other>> \o @]} ELSE {})
          BY <1>2, <4>1, Zenon DEF Answered
        <5>2. a \in Answers /\ (answer' = a \/ (form = "anthropic" /\ answer' = [a EXCEPT !.blocks = <<Other>> \o @]))
          <6>o. PICK o : o = [a EXCEPT !.blocks = <<Other>> \o @]
            OBVIOUS
          <6>1. answer' \in {a} \cup (IF form = "anthropic" THEN {o} ELSE {})
            BY <5>1, <6>o, Zenon
          <6>2. answer' = a \/ (form = "anthropic" /\ answer' = o)
            BY <6>1
          <6>3. a \in Answers
            OBVIOUS
          <6> QED BY <6>o, <6>2, <6>3, Zenon
        <5> QED BY <5>2, Zenon
      <4>2. CASE status' # "ok"
        BY <1>2, <4>2, Zenon DEF Answered
      <4> QED BY <4>1, <4>2, Zenon
    <3> QED BY <3>1, <3>2, <3>3, <3>4, Zenon
  <2>4. Begun(sent', Events')
    <3>1. EventsOf(answer', form') \in Seq(AnyEvent)
      BY <2>3, EventsListed
    <3>2. Begun(<<>>, EventsOf(answer', form'))
      BY <3>1, BegunNone
    <3> QED BY <1>e, <2>2, <3>2, Zenon
  <2> QED BY <1>i, <2>1, <2>2, <2>3, <2>4, Zenon DEF StreamInv
<1>3. CASE Convert
  <2>1. form' = form /\ answer' = answer /\ status' = status /\ sent' = sent /\ status # ""
    BY <1>3, Zenon DEF Convert
  <2>2. reply' = "stream" \/ reply' = "whole"
    BY <1>3, Zenon DEF Convert
  <2>3. ~(reply' = "") /\ ~(reply' = "ended") /\ form # "unknown"
    BY <1>i, <2>1, <2>2, Zenon
  <2> QED BY <1>i, <1>e, <2>1, <2>3, Zenon DEF StreamInv
<1>4. CASE Send
  <2>1. /\ form' = form /\ answer' = answer /\ status' = status /\ reply = "stream"
        /\ Len(sent) < Len(EventsOf(answer, form)) /\ sent' = Append(sent, EventsOf(answer, form)[Len(sent) + 1])
        /\ reply' = IF Len(sent') = Len(EventsOf(answer, form)) THEN "ended" ELSE "stream"
    BY <1>4, Zenon DEF Send, Events, EventsOf
  <2>2. EventsOf(answer, form) \in Seq(AnyEvent)
    BY <1>i, EventsListed
  <2>3. Begun(sent', EventsOf(answer, form))
    BY <1>i, <2>1, <2>2, BegunGrows
  <2>4. ~(reply' = "") /\ (reply' = "ended" => Len(sent') = Len(EventsOf(answer, form))) /\ form # "unknown"
    BY <1>i, <2>1, Zenon
  <2> QED BY <1>i, <1>e, <2>1, <2>3, <2>4, Zenon DEF StreamInv
<1>5. CASE Hangup
  <2>1. form' = form /\ answer' = answer /\ status' = status /\ sent' = sent /\ reply = "stream" /\ reply' = "broken"
    BY <1>5, Zenon DEF Hangup
  <2>2. ~(reply' = "") /\ ~(reply' = "ended") /\ form # "unknown"
    BY <1>i, <2>1, Zenon
  <2> QED BY <1>i, <1>e, <2>1, <2>2, Zenon DEF StreamInv
<1>6. CASE UNCHANGED streamVars
  <2>1. form' = form /\ answer' = answer /\ status' = status /\ sent' = sent /\ reply' = reply
    BY <1>6, Zenon DEF streamVars
  <2> QED BY <1>i, <1>e, <2>1, Zenon DEF StreamInv
<1> QED BY <1>1, <1>2, <1>3, <1>4, <1>5, <1>6, Zenon DEF StreamNext

LEMMA HeardIsTold == \A b : Heard(b) = Told(sent, b)
BY Zenon DEF Heard, Told, Tells

LEMMA SaysCarried ==
  ASSUME StreamInv, NEW b \in 1..Len(answer.blocks), Carried(b)
  PROVE  SaidOf(answer, form)[b] = answer.blocks[b].text
<1>1. Answerable(answer, form) /\ Fitting(answer.blocks)
  BY Zenon DEF StreamInv, Answerable
<1>2. answer.blocks[b] \in AnyBlock
  BY <1>1 DEF Fitting
<1>3. answer.blocks[b].text \in AllTexts /\ answer.blocks[b].type \in {"text", "tool", "other"}
  BY <1>2 DEF AnyBlock
<1>4. form \in {"openai", "anthropic"}
  <2>1. ASSUME answer = NoAnswer PROVE FALSE
    <3>1. Len(answer.blocks) = 0
      BY <2>1 DEF NoAnswer
    <3> QED BY <3>1
  <2>2. form \in {"openai", "anthropic", "unknown"} /\ (form = "unknown" => answer = NoAnswer)
    BY Zenon DEF StreamInv
  <2> QED BY <2>1, <2>2, Zenon
<1>5. CASE form = "openai"
  BY <1>5 DEF SaidOf
<1>6. CASE form = "anthropic"
  <2>1. form # "openai"
    BY <1>6
  <2>2. SaidOf(answer, form)[b] = AnthropicSaid(answer, b)
    BY <2>1 DEF SaidOf
  <2>3. answer.blocks[b].type = "tool" \/ (answer.blocks[b].type = "text" /\ SingleSpaced(answer.blocks[b].text))
    BY <2>1, Zenon DEF Carried
  <2>4. CASE answer.blocks[b].type = "text"
    <3>1. AnthropicSaid(answer, b) = Spaced(WordsOf(answer.blocks[b].text)) /\ answer.blocks[b].type # "tool"
      BY <2>4 DEF AnthropicSaid
    <3>2. Spaced(WordsOf(answer.blocks[b].text)) = answer.blocks[b].text
      BY <1>3, <2>3, <3>1, SpaceIsWord, SpacedBack DEF AllTexts
    <3> QED BY <2>2, <3>1, <3>2, Zenon
  <2>5. CASE answer.blocks[b].type = "tool"
    <3>1. AnthropicSaid(answer, b) = answer.blocks[b].text
      BY <2>5 DEF AnthropicSaid
    <3> QED BY <2>2, <3>1, Zenon
  <2> QED BY <2>3, <2>4, <2>5
<1> QED BY <1>4, <1>5, <1>6

LEMMA InvAnswers == StreamInv => StreamIsAnswer
<1> SUFFICES ASSUME StreamInv PROVE StreamIsAnswer
  OBVIOUS
<1>e. PICK e : e = EventsOf(answer, form)
  OBVIOUS
<1>i. Answerable(answer, form) /\ Begun(sent, e) /\ (reply = "ended" => Len(sent) = Len(e))
  BY <1>e, Zenon DEF StreamInv, Events, EventsOf
<1>n. PICK n \in Nat : n = Len(answer.blocks) /\ DOMAIN answer.blocks = 1..n
  BY <1>i DEF Answerable, Fitting
<1>v. PICK ids, tools, said : ids = IdsOf(answer) /\ tools = ToolsOf(answer) /\ said = SaidOf(answer, form)
  OBVIOUS
<1>f. StreamFits(e, n, ids, tools, said)
  BY <1>e, <1>i, <1>n, <1>v, EventsFit
<1>1. e \in Seq(AnyEvent)
  BY <1>f DEF StreamFits
<1>2. /\ sent \in Seq(AnyEvent) /\ Len(sent) \in 0..Len(e) /\ sent = SubSeq(e, 1, Len(sent))
      /\ reply = "ended" => sent = e
  <2>1. Len(sent) \in 0..Len(e) /\ sent = SubSeq(e, 1, Len(sent)) /\ (Len(sent) = Len(e) => sent = e)
    BY <1>1, <1>i, BegunIs
  <2> QED BY <1>i, <2>1, Zenon DEF Begun
<1>m. PICK m \in Nat : m = Len(sent) /\ DOMAIN sent = 1..m
  <2>1. sent \in Seq(AnyEvent)
    BY <1>2
  <2> QED BY <2>1
<1>3. \A i \in 1..m : sent[i] = e[i] /\ i \in 1..Len(e)
  <2>1. \A i \in 1..m : sent[i] = e[i]
    BY <1>i, <1>m DEF Begun
  <2>2. Len(e) \in Nat /\ m <= Len(e)
    BY <1>1, <1>2, <1>m
  <2> QED BY <2>1, <2>2
<1>4. \A b \in 1..n : Told(e, b) = said[b]
  BY <1>f DEF StreamFits
<1>5. ASSUME NEW b \in 1..n, Carried(b)
      PROVE  /\ IsPrefix(Heard(b), answer.blocks[b].text)
             /\ reply = "ended" => Heard(b) = answer.blocks[b].text
  <2>1. Heard(b) = Told(sent, b) /\ Told(e, b) = said[b]
    BY <1>4, HeardIsTold
  <2>2. said[b] = answer.blocks[b].text
    BY <1>n, <1>v, <1>5, SaysCarried
  <2>3. IsPrefix(Told(sent, b), Told(e, b))
    <3>1. IsPrefix(Told(SubSeq(e, 1, Len(sent)), b), Told(e, b))
      BY <1>1, <1>2, ToldInOrder
    <3> QED BY <1>2, <3>1, Zenon
  <2> QED BY <1>2, <2>1, <2>2, <2>3, Zenon
<1>6. ASSUME NEW b \in 1..n, reply = "ended", answer.blocks[b].type = "tool"
      PROVE  Cardinality({i \in DOMAIN sent : sent[i].event = "start" /\ sent[i].id = answer.blocks[b].id}) = 1
  <2>1. sent = e /\ m = Len(e)
    BY <1>2, <1>6, <1>m
  <2>2. b \in tools /\ \A c \in 1..n : ids[c] = answer.blocks[c].id
    BY <1>n, <1>v, <1>6 DEF ToolsOf, IdsOf
  <2>3. PICK i \in 1..m : e[i].event = "start" /\ e[i].block = b
    BY <1>f, <2>1, <2>2 DEF StreamFits, AllStart
  <2>4. \A j \in 1..m : e[j].event = "start" => e[j].block \in 1..n /\ e[j].id = ids[e[j].block]
    BY <1>f, <2>1 DEF StreamFits
  <2>5. e[i].id = answer.blocks[b].id
    BY <2>2, <2>3, <2>4
  <2>6. ASSUME NEW j \in 1..m, e[j].event = "start", e[j].id = answer.blocks[b].id PROVE j = i
    <3>1. e[j].block \in 1..n /\ answer.blocks[e[j].block].id = answer.blocks[b].id
      BY <2>2, <2>4, <2>6
    <3>2. e[j].block = b
      BY <1>i, <1>n, <1>6, <3>1 DEF Answerable, Fitting
    <3> QED BY <1>f, <2>1, <2>3, <2>6, <3>2 DEF StreamFits, StartsOnce
  <2>7. {j \in DOMAIN sent : sent[j].event = "start" /\ sent[j].id = answer.blocks[b].id} = {i}
    BY <1>m, <2>1, <2>3, <2>5, <2>6
  <2> QED BY <2>7, FS_Singleton
<1>7. ASSUME NEW i \in 1..m, NEW j \in 1..m, i < j, sent[i].block # 0, sent[j].block # 0
      PROVE  sent[i].block <= sent[j].block
  <2>1. sent[i] = e[i] /\ sent[j] = e[j] /\ i \in 1..Len(e) /\ j \in 1..Len(e)
    BY <1>3
  <2> QED BY <1>f, <1>7, <2>1 DEF StreamFits
<1>8. ASSUME NEW i \in 1..m, sent[i].event = "delta"
      PROVE  /\ sent[i].text # <<>>
             /\ answer.blocks[sent[i].block].type = "tool" =>
                  \E j \in 1 .. i : sent[j].event = "start" /\ sent[j].block = sent[i].block
  <2>1. sent[i] = e[i] /\ i \in 1..Len(e)
    BY <1>3
  <2>2. /\ e[i].block \in 1..n /\ e[i].text # <<>>
        /\ e[i].block \in tools => \E j \in 1..i : e[j].event = "start" /\ e[j].block = e[i].block
    BY <1>f, <1>8, <2>1 DEF StreamFits
  <2>3. \A j \in 1..i : sent[j] = e[j]
    BY <1>3
  <2>4. answer.blocks[e[i].block].type = "tool" => e[i].block \in tools
    BY <1>n, <1>v, <2>2 DEF ToolsOf
  <2> QED BY <2>1, <2>2, <2>3, <2>4
<1>9. ASSUME reply = "ended"
      PROVE  Cardinality({i \in DOMAIN sent : sent[i].event = "finish"}) = 1
  <2>1. sent = e /\ m = Len(e)
    BY <1>2, <1>9, <1>m
  <2>2. PICK f \in 1..m : \A i \in 1..m : e[i].event = "finish" <=> i = f
    BY <1>f, <2>1 DEF StreamFits
  <2>3. {i \in DOMAIN sent : sent[i].event = "finish"} = {f}
    BY <1>m, <2>1, <2>2
  <2> QED BY <2>3, FS_Singleton
<1> QED BY <1>n, <1>m, <1>5, <1>6, <1>7, <1>8, <1>9, Zenon DEF StreamIsAnswer

\* Of every block that the generators carry as it is, wherever its text is cut: a
\* reader never has anything that is not the beginning of it, and at the end has
\* all of it, in the order of the blocks and with each call of a tool once.
THEOREM StreamAnswered == StreamSpec => []StreamIsAnswer
<1>1. StreamInit => StreamInv
  BY StreamInvInit
<1>2. StreamInv /\ [StreamNext]_streamVars => StreamInv'
  BY StreamInvStep
<1>3. StreamInv => StreamIsAnswer
  BY InvAnswers
<1> QED BY <1>1, <1>2, <1>3, PTL DEF StreamSpec
=============================================================================
