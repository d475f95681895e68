----------------------------- MODULE TrainBatch -----------------------------
(***************************************************************************)
(* The batch a training step makes of finished rollouts:                   *)
(* AgentModeDaemon.get_train_data_batch pads and truncates every turn of   *)
(* every rollout and puts the reward of the rollout on its last token;     *)
(* AgentLightningTrainer._train_step then drops what is too long and       *)
(* rounds to the mini batch; get_test_metrics sums up a validation.  A     *)
(* token is a number above 0, Pad is 0; a rollout is a record [turns,      *)
(* result, legacy]: its triplets, records [prompt, response, reward] with  *)
(* a number or NoReward, what the agent returned, and whose it is.         *)
(***************************************************************************)
EXTENDS Integers, Sequences, FiniteSets, SequencesExt, FiniteSetsExt

Pad == 0
NoReward == -1

\* get_left_padded_ids_and_attention_mask: keeps the last tokens.
LeftPadded(ids, length) ==
  IF Len(ids) >= length THEN SubSeq(ids, Len(ids) - length + 1, Len(ids))
  ELSE [i \in 1..(length - Len(ids)) |-> Pad] \o ids

\* get_right_padded_ids_and_attention_mask: keeps the first tokens.
RightPadded(ids, length) ==
  IF Len(ids) >= length THEN SubSeq(ids, 1, length)
  ELSE ids \o [i \in 1..(length - Len(ids)) |-> Pad]

\* What is left of a prompt that is too long before it is padded.
Cut(ids, length) == SubSeq(ids, 1, Min({Len(ids), length}))

\* position_ids: the tokens up to here, less one, and never below zero.
Positions(row) == [i \in DOMAIN row |-> Max({0, Cardinality({j \in 1..i : row[j] # Pad}) - 1})]

\* A mutant: the end is the last place of the row, padding too.
LastIndexOfRow(row) == Len(row)

\* eos_mask_idx: argmax of the masked positions, the first of equals.
LastToken(row) ==
  LET at == [i \in DOMAIN row |-> IF row[i] = Pad THEN 0 ELSE Positions(row)[i]]
  IN CHOOSE i \in DOMAIN row : \A j \in DOMAIN row : at[j] < at[i] \/ (at[j] = at[i] /\ i <= j)

\* What a rollout came to.  Of a legacy runner, _to_rollout_object: what the
\* agent returned, else the reward of the last turn; from the store,
\* _validate_data_v1: the reward of the last turn that has one.
LegacyReward(rollout) ==
  IF rollout.result # NoReward \/ rollout.turns = <<>> THEN rollout.result ELSE Last(rollout.turns).reward

StoredReward(rollout) ==
  LET some == SelectSeq(rollout.turns, LAMBDA t : t.reward # NoReward)
  IN IF some = <<>> THEN NoReward ELSE Last(some).reward

FinalReward(rollout) == IF rollout.legacy THEN LegacyReward(rollout) ELSE StoredReward(rollout)

\* _fillna_reward, with a configured value.
Filled(rollout, fill) == IF FinalReward(rollout) = NoReward THEN fill ELSE FinalReward(rollout)

\* A row of the batch: one turn of one rollout.
Row(r, t, rollout, fill, maxPrompt, maxResponse) ==
  LET turn == rollout.turns[t]
      prompt == LeftPadded(Cut(turn.prompt, maxPrompt), maxPrompt)
      response == RightPadded(Cut(turn.response, maxResponse), maxResponse)
      end == LastToken(prompt \o response)
  IN [rollout |-> r, turn |-> t, prompt |-> prompt, response |-> response,
      drop |-> Len(turn.prompt) > maxPrompt,
      scores |-> [i \in 1..maxResponse |-> IF maxPrompt + i = end THEN Filled(rollout, fill) ELSE 0]]

\* get_train_data_batch: a rollout without turns has no row.
Batch(rollouts, fill, maxPrompt, maxResponse) ==
  FlattenSeq([r \in DOMAIN rollouts |->
    [t \in DOMAIN rollouts[r].turns |-> Row(r, t, rollouts[r], fill, maxPrompt, maxResponse)]])

\* _train_step: rows with a prompt that is too long go, and after a shuffle
\* those that do not fill a mini batch; one outcome for every choice of them.
Kept(batch) == {i \in DOMAIN batch : ~batch[i].drop}
Trained(batch, miniBatch) ==
  kSubset((Cardinality(Kept(batch)) \div miniBatch) * miniBatch, Kept(batch))

Rewarded(rollouts) == {r \in DOMAIN rollouts : FinalReward(rollouts[r]) # NoReward}

\* The metrics get_train_data_batch returns, reward as a sum.
TrainMetrics(rollouts, batch, fill) ==
  [rollouts |-> Len(rollouts), rewarded |-> Cardinality(Rewarded(rollouts)),
   traced |-> Cardinality({batch[i].rollout : i \in DOMAIN batch}),
   reward |-> FoldFunction(+, 0, [r \in DOMAIN rollouts |-> Filled(rollouts[r], fill)]),
   triplets |-> Len(batch)]

\* get_test_metrics, turn_count as a sum over the rollouts that have turns.
TestMetrics(rollouts, fill) ==
  LET traced == {r \in DOMAIN rollouts : rollouts[r].turns # <<>>}
  IN [rollouts |-> Len(rollouts), rewarded |-> Cardinality(Rewarded(rollouts)),
      traced |-> Cardinality(traced),
      reward |-> FoldFunction(+, 0, [r \in DOMAIN rollouts |-> Filled(rollouts[r], fill)]),
      triplets |-> FoldFunction(+, 0, [r \in traced |-> Len(rollouts[r].turns)])]

-----------------------------------------------------------------------------
\* Every turn that is trained on gives what its rollout came to, once, to the
\* last token of its response, if it has a prompt and a response, and only
\* turns with a prompt that is too long or less than a mini batch are left out.
\* verl/daemon.py, get_train_data_batch; verl/trainer.py, _train_step.
ScoredAtEnd(rollouts, fill, maxPrompt, maxResponse, miniBatch) ==
  LET batch == Batch(rollouts, fill, maxPrompt, maxResponse)
      turns == {p \in (DOMAIN rollouts) \X (1..2) : p[2] \in DOMAIN rollouts[p[1]].turns}
      short == {p \in turns : Len(rollouts[p[1]].turns[p[2]].prompt) <= maxPrompt}
  IN \A rows \in Trained(batch, miniBatch) :
       /\ Cardinality(short) - Cardinality(rows) \in 0..(miniBatch - 1)
       /\ \A i \in rows :
            LET row == batch[i]
                rollout == rollouts[row.rollout]
                turn == rollout.turns[row.turn]
            IN turn.prompt # <<>> /\ turn.response # <<>> =>
                 row.scores = [k \in 1..maxResponse |->
                                 IF k = Min({Len(turn.response), maxResponse}) THEN Filled(rollout, fill) ELSE 0]

\* The same rollouts come to the same reward, and count the same, whether they
\* are trained on or validated with, also those without a turn.
\* verl/daemon.py, get_train_data_batch and get_test_metrics.
MetricsAgree(rollouts, fill, maxPrompt, maxResponse) ==
  TrainMetrics(rollouts, Batch(rollouts, fill, maxPrompt, maxResponse), fill) = TestMetrics(rollouts, fill)
=============================================================================
