--------------------------- MODULE TaskLifecycle ---------------------------
(***************************************************************************)
(* What IMPLEMENTATION_GUIDE.json promises about the status of a task: the *)
(* transition table of config.updateTaskStatus (src/src/config.js). Any    *)
(* program that owns the guide should implement this specification.        *)
(***************************************************************************)
CONSTANT Tasks

VARIABLE guide   (* the status of each task *)

Statuses == {"todo", "in_progress", "completed", "failed"}

validTransitions ==
  [todo        |-> {"in_progress"},
   in_progress |-> {"completed", "failed", "todo"},
   completed   |-> {"todo", "in_progress"},
   failed      |-> {"todo", "in_progress"}]

Init == guide \in [Tasks -> Statuses]

Move(t, status) ==
  /\ status \in validTransitions[guide[t]]
  /\ guide' = [guide EXCEPT ![t] = status]

Next == \E t \in Tasks, status \in Statuses : Move(t, status)

Spec == Init /\ [][Next]_guide

=============================================================================
