-------------------------- MODULE ProviderManager --------------------------
(***************************************************************************)
(* ProviderManager (src/src/providers/ProviderManager.js): one object that *)
(* several asynchronous calls share. A call runs without interruption from *)
(* one await to the next; while it awaits a provider or Ollama, any other  *)
(* call may run.                                                           *)
(***************************************************************************)
EXTENDS Integers, Sequences, FiniteSets, SequencesExt, Selections

CONSTANTS
  Providers,         (* the provider classes, under their standard names       *)
  Names,             (* names a configuration may use                          *)
  NormalName,        (* _normalizeProviderName: Names -> standard names        *)
  Order,             (* options.providerOrder                                  *)
  Calls,             (* slots for calls in progress                            *)
  Kinds,             (* which of the execute methods are used                  *)
  FailureThreshold,  (* circuitBreaker.failureThreshold                        *)
  ResetTimeout,      (* circuitBreaker.resetTimeout, in ticks                  *)
  MaxBreakers,       (* calls of executeWithCircuitBreaker in progress at once *)
  MaxCalls,          (* bound: calls over the whole behaviour                  *)
  MaxResets,         (* bound: calls of resetProviderStats                     *)
  MaxTime            (* bound: ticks of the clock                              *)

ASSUME ManagerAssumption ==
  /\ Providers \subseteq Names
  /\ NormalName \in [Names -> Names]
  /\ \A p \in Providers : NormalName[p] = p
  /\ Order \in Seq(Names) /\ IsFiniteSet(Calls)
  /\ Kinds \subseteq {"fallback", "breaker", "best", "ai"}
  /\ {FailureThreshold, ResetTimeout, MaxBreakers, MaxCalls, MaxResets,
      MaxTime} \subseteq Nat

(* _initializeProviders: the keys of providerInstances, in insertion order. *)
Keys      == FoldLeft(LAMBDA ks, n : IF NormalName[n] \in Providers \ ToSet(ks)
                                     THEN Append(ks, NormalName[n]) ELSE ks,
                      <<>>, Order)
Instances == ToSet(Keys)

VARIABLES
  providerOrder,  (* this.providerOrder                                        *)
  stats,          (* this.providerStats; lastFailure = 0 is null               *)
  now,            (* the clock, from 1                                         *)
  calls,          (* the calls in progress and the results of those over       *)
  started,        (* calls started, at most MaxCalls                           *)
  resets,         (* resetProviderStats calls, at most MaxResets               *)
  forgiven,       (* history: what resets took out of the balance of stats     *)
  streak          (* history: failures in a row since success, reset or pardon *)

managerVars == <<providerOrder, stats, now, calls, started, resets, forgiven, streak>>

NoStats == [attempts |-> 0, successes |-> 0, failures |-> 0, lastFailure |-> 0]

Stats == [attempts : Nat, successes : Nat, failures : Nat, lastFailure : Nat]

(* order: the list being iterated; pos: the entry tried; saved:            *)
(* originalProviderOrder; log: fallbackLog.                                *)
Idle == [pc |-> "idle", kind |-> "none", order |-> <<>>, pos |-> 0, saved |-> <<>>,
         log |-> <<>>]

ManagerInit ==
  /\ providerOrder = Order
  /\ stats = [p \in Instances |-> NoStats]
  /\ now = 1
  /\ calls = [c \in Calls |-> Idle]
  /\ started = 0 /\ resets = 0
  /\ forgiven = [p \in Instances |-> 0]
  /\ streak = [p \in Instances |-> 0]

-----------------------------------------------------------------------------
(* Statistics.                                                             *)
CountAttempt(s, p) == [s EXCEPT ![p].attempts = @ + 1]
CountSuccess(s, p) == [s EXCEPT ![p].successes = @ + 1]
CountFailure(s, p) == [s EXCEPT ![p].failures = @ + 1, ![p].lastFailure = now]

(* `consecutiveFailures`, as the code computes it.                         *)
ConsecutiveFailures(p) == stats[p].failures - (IF stats[p].successes > 0 THEN 1 ELSE 0)

Tripped(p) == stats[p].lastFailure # 0 /\ ConsecutiveFailures(p) >= FailureThreshold
Recent(p)  == now - stats[p].lastFailure < ResetTimeout
Open(p)    == Tripped(p) /\ Recent(p)

(* getBestAvailableProvider: success rate plus 0.1 for any success, in     *)
(* tenths and over a common denominator; the first key wins a tie.         *)
Bonus(p) == IF stats[p].successes > 0 THEN 1 ELSE 0
Numerator(p) == IF stats[p].attempts = 0 THEN Bonus(p)
                ELSE 10 * stats[p].successes + Bonus(p) * stats[p].attempts
Denominator(p) == IF stats[p].attempts = 0 THEN 1 ELSE stats[p].attempts
Better(p, q) == Numerator(p) * Denominator(q) > Numerator(q) * Denominator(p)

Best == Keys[CHOOSE i \in DOMAIN Keys :
               /\ \A j \in DOMAIN Keys : ~ Better(Keys[j], Keys[i])
               /\ \A j \in 1 .. i - 1 : Better(Keys[i], Keys[j])]

-----------------------------------------------------------------------------
(* The loop of executeWithFallback: the entries of a list that name an     *)
(* initialized provider are tried in turn, the others skipped.             *)
Provider(call) == NormalName[call.order[call.pos]]

(* Mutation: the loop starts one entry too far.                            *)
RemainingAfter(order, pos) == {k \in pos + 1 .. Len(order) : NormalName[order[k]] \in Instances}

Remaining(order, pos) == {k \in pos .. Len(order) : NormalName[order[k]] \in Instances}

FirstOf(S) == CHOOSE k \in S : \A j \in S : k <= j

(* Call c goes on with the entries from pos on, or has tried them all. s   *)
(* are the statistics so far, shared the value of this.providerOrder. The  *)
(* finally block of executeWithCircuitBreaker puts saved back.             *)
Continue(c, call, pos, s, shared) ==
  LET rest == Remaining(call.order, pos) IN
  \/ /\ rest # {}
     /\ LET next == [call EXCEPT !.pc = "calling", !.pos = FirstOf(rest)] IN
          /\ calls' = [calls EXCEPT ![c] = next]
          /\ stats' = CountAttempt(s, Provider(next))
     /\ providerOrder' = shared
  \/ /\ rest = {}
     /\ calls' = [calls EXCEPT ![c] = [call EXCEPT !.pc = "failed"]]
     /\ stats' = s
     /\ providerOrder' = IF call.kind = "breaker" THEN call.saved ELSE shared

Ended == {"idle", "succeeded", "failed", "refused"}

(* A new call of some method.                                              *)
Starting(c, kind) ==
  /\ kind \in Kinds
  /\ calls[c].pc \in Ended
  /\ started < MaxCalls /\ started' = started + 1
  /\ UNCHANGED <<now, resets>>

NewCall(kind, order) == [Idle EXCEPT !.kind = kind, !.order = order]

StartFallback(c) ==
  /\ Starting(c, "fallback")
  /\ Continue(c, NewCall("fallback", providerOrder), 1, stats, providerOrder)
  /\ UNCHANGED <<forgiven, streak>>

(* executeWithCircuitBreaker looks names up as they are configured. A      *)
(* provider that failed too often is left out until ResetTimeout is over;  *)
(* then its failures are set to zero.                                      *)
UnblockedAll == Only(providerOrder, Instances) (* Mutation: no breaker *)

Unblocked == Only(providerOrder, {p \in Instances : ~ Open(p)})
Pardoned  == {p \in ToSet(Unblocked) : Tripped(p)}

Pardon == [p \in Instances |-> IF p \in Pardoned THEN [stats[p] EXCEPT !.failures = 0]
                              ELSE stats[p]]

StartBreaker(c) ==
  /\ Starting(c, "breaker")
  /\ Cardinality({d \in Calls : calls[d].kind = "breaker" /\ calls[d].pc = "calling"}) < MaxBreakers
  /\ Unblocked # <<>>
  /\ Continue(c, [NewCall("breaker", Unblocked) EXCEPT !.saved = providerOrder], 1,
              Pardon, Unblocked)
  /\ forgiven' = [p \in Instances |-> IF p \in Pardoned THEN forgiven[p] + stats[p].failures
                                      ELSE forgiven[p]]
  /\ streak' = [p \in Instances |-> IF p \in Pardoned THEN 0 ELSE streak[p]]

(* 'All providers in circuit breaker state'                                *)
BreakerRefuses(c) ==
  /\ Starting(c, "breaker")
  /\ Unblocked = <<>>
  /\ calls' = [calls EXCEPT ![c] = [NewCall("breaker", <<>>) EXCEPT !.pc = "refused"]]
  /\ UNCHANGED <<providerOrder, stats, forgiven, streak>>

(* A single provider is tried: executeWithBestProvider ...                 *)
StartBest(c) ==
  /\ Starting(c, "best")
  /\ Keys # <<>>
  /\ Continue(c, NewCall("best", <<Best>>), 1, stats, providerOrder)
  /\ UNCHANGED <<forgiven, streak>>

(* ... and executeWithAIAssistedProvider, which awaits Ollama first.       *)
StartAI(c) ==
  /\ Starting(c, "ai")
  /\ Keys # <<>>
  /\ calls' = [calls EXCEPT ![c] = [NewCall("ai", <<>>) EXCEPT !.pc = "asking"]]
  /\ UNCHANGED <<providerOrder, stats, forgiven, streak>>

(* Ollama (or the cache) recommends an initialized provider, or the best   *)
(* one by the statistics of this moment is taken.                          *)
AIAnswers(c) ==
  /\ calls[c].pc = "asking"
  /\ \E p \in Instances \union {Best} :
       Continue(c, NewCall("ai", <<p>>), 1, stats, providerOrder)
  /\ UNCHANGED <<now, started, resets, forgiven, streak>>

CallSucceeds(c) ==
  /\ calls[c].pc = "calling"
  /\ LET p == Provider(calls[c]) IN
       /\ stats' = CountSuccess(stats, p)
       /\ streak' = [streak EXCEPT ![p] = 0]
  /\ calls' = [calls EXCEPT ![c].pc = "succeeded"]
  /\ providerOrder' = IF calls[c].kind = "breaker" THEN calls[c].saved ELSE providerOrder
  /\ UNCHANGED <<now, started, resets, forgiven>>

CallFails(c) ==
  /\ calls[c].pc = "calling"
  /\ LET p == Provider(calls[c]) IN
       /\ Continue(c, [calls[c] EXCEPT !.log = Append(@, p)], calls[c].pos + 1,
                   CountFailure(stats, p), providerOrder)
       /\ streak' = [streak EXCEPT ![p] = @ + 1]
  /\ UNCHANGED <<now, started, resets, forgiven>>

InFlight(p) == {c \in Calls : calls[c].pc = "calling" /\ Provider(calls[c]) = p}

(* resetProviderStats(name), or for all: the records are replaced, and the *)
(* calls in flight will count their outcome in the new ones.               *)
ResetProviderStats(S) ==
  /\ resets < MaxResets /\ resets' = resets + 1
  /\ stats' = [p \in Instances |-> IF p \in S THEN NoStats ELSE stats[p]]
  /\ forgiven' = [p \in Instances |-> IF p \in S THEN 0 - Cardinality(InFlight(p))
                                      ELSE forgiven[p]]
  /\ streak' = [p \in Instances |-> IF p \in S THEN 0 ELSE streak[p]]
  /\ UNCHANGED <<providerOrder, now, calls, started>>

Tick == /\ now < MaxTime /\ now' = now + 1
        /\ UNCHANGED <<providerOrder, stats, calls, started, resets, forgiven, streak>>

CallStep(c) == AIAnswers(c) \/ CallSucceeds(c) \/ CallFails(c)

ManagerNext ==
  \/ \E c \in Calls :
       \/ StartFallback(c) \/ StartBreaker(c) \/ BreakerRefuses(c)
       \/ StartBest(c) \/ StartAI(c)
       \/ CallStep(c)
  \/ \E S \in {{p} : p \in Instances} \union {Instances} : ResetProviderStats(S)
  \/ Tick

(* What a call awaits ends: a provider command is killed at its timeout.   *)
Fairness == \A c \in Calls : WF_managerVars(CallStep(c))

ManagerSpec == ManagerInit /\ [][ManagerNext]_managerVars /\ Fairness

-----------------------------------------------------------------------------
ManagerTypes ==
  /\ providerOrder \in Seq(Names)
  /\ stats \in [Instances -> Stats]
  /\ now \in 1 .. MaxTime
  /\ \A c \in Calls :
       /\ calls[c].pc \in Ended \union {"asking", "calling"}
       /\ calls[c].kind \in Kinds \union {"none"}
       /\ calls[c].order \in Seq(Names) /\ calls[c].pos \in Nat
       /\ calls[c].saved \in Seq(Names) /\ calls[c].log \in Seq(Instances)
       /\ calls[c].pc = "calling" => calls[c].pos \in 1 .. Len(calls[c].order)
  /\ started \in 0 .. MaxCalls /\ resets \in 0 .. MaxResets
  /\ forgiven \in [Instances -> Int]
  /\ streak \in [Instances -> Nat]

(* The entries of a list that name an initialized provider; and the        *)
(* standard names of entries.                                              *)
Configured(order) == {n \in Range(order) : NormalName[n] \in Instances}
Normal(entries) == [k \in DOMAIN entries |-> NormalName[entries[k]]]

(* A call that ends without success tried every initialized provider of    *)
(* the list it began with, once for each entry and in the order of the     *)
(* list; the configured order can be recovered from it.                    *)
FailedTriedAll ==
  \A c \in Calls :
    calls[c].pc = "failed" =>
      calls[c].log = Normal(Only(calls[c].order, Configured(calls[c].order)))

(* A provider that failed more than FailureThreshold times in a row, the   *)
(* last time within ResetTimeout, is not given to a new circuit-breaker    *)
(* call.                                                                   *)
BreakerStaysOpen ==
  [][\A c \in Calls :
       (calls'[c].kind = "breaker" /\ calls'[c].pc = "calling" /\ calls[c].pc \in Ended)
         => \A p \in ToSet(calls'[c].order) : ~ (streak[p] > FailureThreshold /\ Recent(p))]_managerVars

(* However calls interleave, the statistics of a provider add up: each     *)
(* attempt is a success, a failure or running, up to the failures that the *)
(* breaker and the attempts that resetProviderStats took out.              *)
StatsAddUp ==
  \A p \in Instances :
    stats[p].attempts = stats[p].successes + stats[p].failures + forgiven[p]
                        + Cardinality(InFlight(p))

(* With at most one executeWithCircuitBreaker at a time, this.providerOrder *)
(* is the configured order again whenever no such call is running.         *)
OrderRestored ==
  (\A c \in Calls : ~ (calls[c].kind = "breaker" /\ calls[c].pc = "calling"))
     => providerOrder = Order

(* What a call leaves behind: a failed call has tried every provider of    *)
(* its list, its attempts are in the statistics, and the order is restored. *)
CallsAreAccounted == FailedTriedAll /\ StatsAddUp /\ OrderRestored

-----------------------------------------------------------------------------
(* ProviderManager.js:331 names `consecutiveFailures`: a provider whose    *)
(* latest call succeeded has none and is not left out.                     *)
RecoveredNotSkipped ==
  \A p \in Instances : (streak[p] = 0 /\ stats[p].successes > 0) => ~ Open(p)

-----------------------------------------------------------------------------
(* Of the instance TLC checks: "cursor-agent" is another name of           *)
(* CursorAgent, which makes it be listed twice, and "Other" is unknown.    *)
AliasedNames == [n \in Names |-> IF n = "cursor-agent" THEN "CursorAgent" ELSE n]
AliasedOrder == <<"cursor-agent", "Other", "Codex", "CursorAgent">>
=============================================================================
