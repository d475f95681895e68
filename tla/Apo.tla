-------------------------------- MODULE Apo --------------------------------
(***************************************************************************)
(* APO.run: beam search over prompts.  Every evaluation enqueues one       *)
(* rollout per task and averages over those that finish in time, so it may *)
(* return any of Scores for the same prompt; an LLM writes the edits.  One *)
(* step is one await of the run: an evaluation, with the edit that follows *)
(* it when it is a parent's.                                               *)
(***************************************************************************)
EXTENDS Integers, Sequences, FiniteSets, SequencesExt

CONSTANTS
  BeamWidth,         \* beam_width
  BranchFactor,      \* branch_factor
  BeamRounds,        \* beam_rounds
  Scores,            \* the averages an evaluation may return, numbers from 0
  Texts,             \* the texts an edit may have
  InitialValidation  \* the choices of run_initial_validation

ASSUME SearchAssumption == Scores \subseteq Nat

VARIABLES
  phase,       \* "seed", "edit", "score", "leader", "done" or "failed"
  round,
  beam,        \* prompts, records [version, text, score, scoredIn], best first
  candidates,  \* new prompts of the round; once scoring starts, with the beam
  parents,     \* the prompts still to be edited, once per branch
  versions,    \* _version_counter
  best,        \* _history_best_prompt, _version and _score
  measured     \* ghost: what was evaluated on the whole validation set so far
searchVars == <<phase, round, beam, candidates, parents, versions, best, measured>>

Worst == -1
Seed == 0

Prompt(text, version) == [version |-> version, text |-> text, score |-> Worst, scoredIn |-> 0]
Result(prompt, score) == [version |-> prompt.version, text |-> prompt.text, score |-> score]

\* _sample_parent_prompts: a beam that is not full is replicated, of a full one
\* the order is shuffled.
ParentChoices ==
  IF Len(beam) < BeamWidth THEN {[i \in 1..BeamWidth |-> beam[((i - 1) % Len(beam)) + 1]]}
  ELSE {[i \in 1..BeamWidth |-> beam[order[i]]] : order \in SetToSeqs(DOMAIN beam)}

PerBranch(prompts) == FlattenSeq([i \in DOMAIN prompts |-> [b \in 1..BranchFactor |-> prompts[i]]])

SearchInit ==
  /\ \E first \in InitialValidation : phase = IF first THEN "seed" ELSE "round"
  /\ round = 1 /\ beam = <<Prompt(Seed, 0)>> /\ versions = 1
  /\ candidates = <<>> /\ parents = <<>> /\ measured = <<>>
  /\ best = Result(Prompt(Seed, 0), Worst)

ValidateSeed ==
  /\ phase = "seed" /\ phase' = "round"
  /\ \E score \in Scores :
       best' = Result(beam[1], score) /\ measured' = <<Result(beam[1], score)>>
  /\ UNCHANGED <<round, beam, candidates, parents, versions>>

StartRound ==
  /\ phase = "round"
  /\ IF round > BeamRounds THEN phase' = "done" /\ UNCHANGED parents
     ELSE phase' = "edit" /\ \E chosen \in ParentChoices : parents' = PerBranch(chosen)
  /\ UNCHANGED <<round, beam, candidates, versions, best, measured>>

\* _generate_candidate_prompts, one branch: without a critique the parent's own
\* text gets a new version, without an edit there is no candidate.
Edit ==
  /\ phase = "edit" /\ parents # <<>> /\ parents' = Tail(parents)
  /\ \/ \E text \in Texts \cup {Head(parents).text} :
          candidates' = Append(candidates, Prompt(text, versions)) /\ versions' = versions + 1
     \/ UNCHANGED <<candidates, versions>>
  /\ UNCHANGED <<phase, round, beam, best, measured>>

StartScoring ==
  /\ phase = "edit" /\ parents = <<>>
  /\ phase' = "score" /\ candidates' = beam \o candidates
  /\ UNCHANGED <<round, beam, parents, versions, best, measured>>

\* All of them are scored on the batch of this round, in order.
Unscored(pool) == {i \in DOMAIN pool : pool[i].scoredIn # round}

\* A stable sort, highest score first.
Ranked(pool) ==
  LET before(i, j) == pool[i].score > pool[j].score \/ (pool[i].score = pool[j].score /\ i < j)
      order == SetToSortSeq(DOMAIN pool, before)
  IN [i \in DOMAIN pool |-> pool[order[i]]]

\* _evaluate_and_select_beam.
Score ==
  /\ phase = "score" /\ Unscored(candidates) # {}
  /\ LET i == CHOOSE n \in Unscored(candidates) : \A k \in Unscored(candidates) : n <= k
     IN \E score \in Scores : candidates' = [candidates EXCEPT ![i].score = score, ![i].scoredIn = round]
  /\ UNCHANGED <<phase, round, beam, parents, versions, best, measured>>

Select ==
  /\ phase = "score" /\ Unscored(candidates) = {}
  /\ beam' = SubSeq(Ranked(candidates), 1, IF Len(candidates) < BeamWidth THEN Len(candidates) ELSE BeamWidth)
  /\ phase' = "leader"
  /\ UNCHANGED <<round, candidates, parents, versions, best, measured>>

\* A mutant: the score of the selection, not of the whole validation set, is
\* what the history's is compared with.
BetterInBeam(score) == beam[1].score > best.score

\* Of equals the earlier prompt stays.
Better(score) == score > best.score

\* _update_best_prompt.
Lead ==
  /\ phase = "leader" /\ phase' = "round" /\ round' = round + 1 /\ candidates' = <<>>
  /\ \E score \in Scores :
       /\ measured' = Append(measured, Result(beam[1], score))
       /\ best' = IF Better(score) THEN Result(beam[1], score) ELSE best
  /\ UNCHANGED <<beam, parents, versions>>

\* The store or the LLM raises: the run ends, what was best stays.
Fail ==
  /\ phase \in {"seed", "edit", "score", "leader"} /\ phase' = "failed"
  /\ UNCHANGED <<round, beam, candidates, parents, versions, best, measured>>

SearchNext == ValidateSeed \/ StartRound \/ Edit \/ StartScoring \/ Score \/ Select \/ Lead \/ Fail

-----------------------------------------------------------------------------
SearchSpec == SearchInit /\ [][SearchNext]_searchVars

\* get_best_prompt returns, also after a failure, the prompt whose evaluation
\* on the whole validation set came out highest, the first of equals, and
\* without any the seed.  algorithm/apo/apo.py, _update_best_prompt.
BestIsBest ==
  IF measured = <<>> THEN best.version = 0 /\ best.score = Worst
  ELSE \E i \in DOMAIN measured :
         /\ measured[i] = best
         /\ \A j \in DOMAIN measured : measured[j].score < best.score \/ (measured[j].score = best.score /\ i <= j)

=============================================================================
