-------------------------- MODULE MongoTransaction --------------------------
(***************************************************************************)
(* MongoLightningCollections.execute with commit=True: the callback of a   *)
(* store method runs in a transaction, and with_transaction retries the    *)
(* whole transaction, or only its commit, as the error labels ask, for two *)
(* minutes.  The callback is one that counts a rollout's attempts and adds *)
(* the next (start_attempt): it reads a number and writes the number after *)
(* it.  The server is external: it runs transactions in snapshot           *)
(* isolation, aborts the second of two that write the same document, may   *)
(* lose requests and answers, and may abort what is not committed.         *)
(***************************************************************************)
EXTENDS Integers, Sequences

CONSTANT
  Clients    \* calls of execute, one each

VARIABLES
  number,    \* the committed number
  txn,       \* the server's transaction of each client: records [state, snap, wrote]
  pc,        \* of each call: "idle", "callback", "commit", "jitter", "returned", "raised"
  late,      \* the calls whose 120 seconds are over
  log        \* history: who committed, in order, and which number: records [by, n]
txnVars == <<number, txn, pc, late, log>>

NoTxn == [state |-> "none", snap |-> 0, wrote |-> FALSE]
Open(c) == txn[c].state = "open"

-----------------------------------------------------------------------------
(* with_transaction, from one answer of the server to the next. *)

BeginTxn(c) == [txn EXCEPT ![c] = [state |-> "open", snap |-> number, wrote |-> FALSE]]

StartTxn(c) ==
  /\ pc[c] = "idle"
  /\ txn' = BeginTxn(c) /\ pc' = [pc EXCEPT ![c] = "callback"]
  /\ UNCHANGED <<number, late, log>>

\* An error labelled TransientTransactionError: start over (abort_transaction
\* and start_transaction), or raise it when the time is over.
StartOver(c) ==
  IF c \in late
  THEN pc' = [pc EXCEPT ![c] = "raised"] /\ txn' = [txn EXCEPT ![c] = NoTxn]
  ELSE pc' = [pc EXCEPT ![c] = "callback"] /\ txn' = BeginTxn(c)

\* A mutant: the callback runs outside the session.
ConflictNever(c) == FALSE

\* Another transaction has written the document since this one began.
Conflict(c) == number # txn[c].snap \/ \E o \in Clients \ {c} : Open(o) /\ txn[o].wrote

CallbackWrites(c) ==
  /\ pc[c] = "callback" /\ Open(c)
  /\ IF Conflict(c)
     THEN StartOver(c)
     ELSE txn' = [txn EXCEPT ![c].wrote = TRUE] /\ pc' = [pc EXCEPT ![c] = "commit"]
  /\ UNCHANGED <<number, late, log>>

\* The connection breaks, or the primary steps down, in the callback.
CallbackInterrupted(c) ==
  /\ pc[c] = "callback"
  /\ StartOver(c)
  /\ UNCHANGED <<number, late, log>>

\* The callback raises an error of its own (an unknown rollout), or the task
\* is cancelled: abort_transaction, raise.
CallbackRaises(c) ==
  /\ pc[c] = "callback"
  /\ txn' = [txn EXCEPT ![c] = NoTxn] /\ pc' = [pc EXCEPT ![c] = "raised"]
  /\ UNCHANGED <<number, late, log>>

\* The server commits, once per transaction.
Applied(c) ==
  IF Open(c)
  THEN /\ number' = txn[c].snap + 1
       /\ log' = Append(log, [by |-> c, n |-> txn[c].snap + 1])
       /\ txn' = [txn EXCEPT ![c].state = "committed"]
  ELSE UNCHANGED <<number, log, txn>>

Commit(c) ==
  /\ pc[c] = "commit"
  /\ Applied(c)
  /\ pc' = [pc EXCEPT ![c] = "returned"]
  /\ UNCHANGED late

\* UnknownTransactionCommitResult: commit again, until the time is over.
CommitAgain(c) == pc' = [pc EXCEPT ![c] = IF c \in late THEN "raised" ELSE "jitter"]

CommitUnknown(c) ==
  /\ pc[c] = "commit"
  /\ Applied(c) \/ UNCHANGED <<number, log, txn>>
  /\ CommitAgain(c)
  /\ UNCHANGED late

\* _jitter_before_retry.
Resume(c) ==
  /\ pc[c] = "jitter"
  /\ pc' = [pc EXCEPT ![c] = "commit"]
  /\ UNCHANGED <<number, txn, late, log>>

\* maxTimeMS of the commit is over (code 50): no retry.
CommitExpires(c) ==
  /\ pc[c] = "commit"
  /\ Applied(c) \/ UNCHANGED <<number, log, txn>>
  /\ pc' = [pc EXCEPT ![c] = "raised"]
  /\ UNCHANGED late

\* The server has aborted the transaction: TransientTransactionError.
CommitRefused(c) ==
  /\ pc[c] = "commit" /\ Open(c)
  /\ StartOver(c)
  /\ UNCHANGED <<number, late, log>>

TimeOver(c) ==
  /\ pc[c] \in {"callback", "commit", "jitter"} /\ c \notin late
  /\ late' = late \cup {c}
  /\ UNCHANGED <<number, txn, pc, log>>

\* The session ends with the call (or its client); an open transaction of it
\* is aborted.
EndSession(c) ==
  /\ pc[c] = "raised" /\ Open(c)
  /\ txn' = [txn EXCEPT ![c].state = "aborted"]
  /\ UNCHANGED <<number, pc, late, log>>

-----------------------------------------------------------------------------
TxnInit ==
  /\ number = 0 /\ log = <<>> /\ late = {}
  /\ txn = [c \in Clients |-> NoTxn]
  /\ pc = [c \in Clients |-> "idle"]

Works(c) == StartTxn(c) \/ CallbackWrites(c) \/ Commit(c) \/ Resume(c) \/ EndSession(c)
Breaks(c) == CallbackInterrupted(c) \/ CallbackRaises(c) \/ CommitUnknown(c)
             \/ CommitExpires(c) \/ CommitRefused(c)

TxnNext == \E c \in Clients : Works(c) \/ Breaks(c) \/ TimeOver(c)

\* Requests are answered in the end and the clock goes on.
Fairness == \A c \in Clients : WF_txnVars(Works(c) \/ Breaks(c)) /\ WF_txnVars(TimeOver(c))

TxnSpec == TxnInit /\ [][TxnNext]_txnVars /\ Fairness

-----------------------------------------------------------------------------
Committed(c) == {i \in DOMAIN log : log[i].by = c}

\* No update is lost: the numbers committed are 1, 2, 3, ..., each once (two
\* attempts of a rollout never share a sequence_id).  A call that returns has
\* committed its callback exactly once, whatever answers were lost on the way;
\* one that raises, at most once.
NoLostUpdate ==
  /\ \A i \in DOMAIN log : log[i].n = i
  /\ \A c \in Clients :
       /\ pc[c] = "returned" => \E i \in DOMAIN log : Committed(c) = {i}
       /\ \A i, j \in Committed(c) : i = j

=============================================================================
