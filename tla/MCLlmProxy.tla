----------------------------- MODULE MCLlmProxy -----------------------------
(***************************************************************************)
(* Four questions: any calls on a PythonServerLauncher, requests through   *)
(* an LLMProxy that starts, stops and restarts one, the conversion of an   *)
(* answer into a stream, and an algorithm that starts the proxy for its    *)
(* run.  part says which one a behaviour is about.                         *)
(***************************************************************************)
EXTENDS LlmProxy, Baseline, Streams, TLC

CONSTANTS
  q1, q2,
  MaxProxyStarts   \* bound on the servers an LLMProxy starts

VARIABLE
  part   \* "launcher" and "proxy", which own the launcher, "stream" or "algorithm"

mcVars == <<vars, proxyVars, streamVars, runVars, part>>

MCAttempts == (q1 :> 1) @@ (q2 :> 1)

\* LLMProxy probes /health and kills what does not answer; for its requests
\* a loop shared with the caller is like a thread, Gunicorn like a process.
NoStream == form = "" /\ wish = "" /\ answer = NoAnswer /\ status = "" /\ reply = "" /\ sent = <<>>
NoCalls == args = [mode |-> "thread", probe |-> TRUE, kill |-> TRUE]

MCInit ==
  /\ ProxyInit
  /\ part \in {"launcher", "proxy", "stream", "algorithm"}
  /\ IF part = "stream" THEN NoCalls /\ StreamInit ELSE NoStream
  /\ BaselineInit
  /\ IF part = "algorithm" THEN NoCalls ELSE proxy = "none" /\ initial = <<>>
  /\ part = "proxy" => args.probe /\ args.kill /\ args.mode \in {"thread", "mp"}

Launching ==
  \/ part = "launcher" /\ Launcher /\ UNCHANGED proxyVars
  \/ part = "proxy" /\ ProxyStart /\ Len(servers) < MaxProxyStarts
  \/ part = "proxy" /\ ProxyStop /\ (call'.next = "start" => Len(servers) < MaxProxyStarts)
  \/ part = "proxy" /\ Ends /\ UNCHANGED proxyVars
  \/ (\E i \in DOMAIN servers : Server(i)) /\ UNCHANGED proxyVars
  \/ part = "proxy" /\ \E q \in Requests : Request(q)

Streaming == part = "stream" /\ StreamNext /\ UNCHANGED <<vars, proxyVars>>

Running == part = "algorithm" /\ BaselineNext /\ Cardinality(lost') <= MaxFaults /\ UNCHANGED <<vars, proxyVars, streamVars>>

MCNext ==
  /\ UNCHANGED part
  /\ \/ Launching /\ UNCHANGED <<streamVars, runVars>>
     \/ Streaming /\ UNCHANGED runVars
     \/ Running

MCSpec == MCInit /\ [][MCNext]_mcVars
          /\ WF_mcVars(Ends /\ UNCHANGED <<proxyVars, streamVars, runVars, part>>)
          /\ \A i \in 1..MaxStarts :
               WF_mcVars(i \in DOMAIN servers /\ Watcher(i) /\ UNCHANGED <<proxyVars, streamVars, runVars, part>>)

=============================================================================
