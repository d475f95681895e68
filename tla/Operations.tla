----------------------------- MODULE Operations -----------------------------
(***************************************************************************)
(* emitter/annotation.py: operation traces the calls of a function, or a   *)
(* with block, in a span.  One OperationContext serves all calls of the    *)
(* function it decorates, which run in several asyncio tasks and inside of *)
(* each other.  The span that is current in a task is OpenTelemetry's, a   *)
(* variable of that task's context.                                        *)
(***************************************************************************)
EXTENDS Naturals, Sequences, SequencesExt

CONSTANTS
  Tasks,
  CallsOfTask,  \* calls of each task
  NoSpan

ASSUME SpanAssumption == NoSpan \notin Nat \ {0}

VARIABLES
  propagate,  \* of the decorated function's context: FALSE, its tracer has no span processor
  op,       \* self.span of the context that the decorated function has
  entered,  \* of each task: the calls not over, each [form, span, number], the inner ones last
  begun,    \* of each task: calls begun
  made      \* every span made: [task, number, parent, input, output, error, events, sent, ended]
operated == <<propagate, op, entered, begun, made>>

\* The two uses of operation.
Forms == {"decorated", "with"}
NoValue == 0

OperationInit ==
  /\ propagate \in BOOLEAN
  /\ op = NoSpan
  /\ entered = [t \in Tasks |-> <<>>]
  /\ begun = [t \in Tasks |-> 0]
  /\ made = <<>>

\* The span in which a task is, outside of all calls NoSpan.
Current(t) == IF entered[t] = <<>> THEN NoSpan ELSE Last(entered[t]).span

\* A mutant: the wrapper enters the context it belongs to, "with self".
TargetShared(t) == IF Last(entered[t]).form = "decorated" THEN op ELSE Last(entered[t]).span

\* The span that what a call records goes to: a local variable of the
\* wrapper, or self.span of a with block's own context.
Target(t) == Last(entered[t]).span

\* Nothing can be recorded on a span that has ended.
Record(s, span) == made' = IF made[s].ended THEN made ELSE [made EXCEPT ![s] = span]

\* The wrapper starts a span with the initial attributes and the name of the
\* function, and records the arguments; __enter__ only starts one.
BeginCall(t, form) ==
  /\ begun[t] < CallsOfTask
  /\ begun' = [begun EXCEPT ![t] = @ + 1]
  /\ made' = Append(made,
       [task |-> t, number |-> begun[t] + 1, parent |-> Current(t),
        input |-> IF form = "decorated" THEN begun[t] + 1 ELSE NoValue,
        output |-> NoValue, error |-> FALSE, events |-> 0, sent |-> FALSE, ended |-> FALSE])
  /\ entered' = [entered EXCEPT ![t] =
       Append(@, [form |-> form, span |-> Len(made) + 1, number |-> begun[t] + 1])]
  /\ op' = IF form = "decorated" THEN Len(made) + 1 ELSE op
  /\ UNCHANGED propagate

\* set_input and set_output in a with block; not in one of its inner calls.
SetInput(t) ==
  /\ entered[t] # <<>> /\ Last(entered[t]).form = "with"
  /\ Record(Target(t), [made[Target(t)] EXCEPT !.input = Last(entered[t]).number])
  /\ UNCHANGED <<propagate, op, entered, begun>>
SetOutput(t) ==
  /\ entered[t] # <<>> /\ Last(entered[t]).form = "with"
  /\ Record(Target(t), [made[Target(t)] EXCEPT !.output = Last(entered[t]).number])
  /\ UNCHANGED <<propagate, op, entered, begun>>

\* get_tracer: the tracer of the blocks, and of the function unless its
\* context was told otherwise, has the processors that send a span.
IsSent(form) == form = "with" \/ propagate

\* The call is over with what span says, which ends, unless it had ended.
EndCall(t, span) ==
  /\ entered[t] # <<>>
  /\ Record(Target(t), [span EXCEPT !.sent = IsSent(Last(entered[t]).form), !.ended = TRUE])
  /\ entered' = [entered EXCEPT ![t] = Front(@)]
  /\ UNCHANGED <<propagate, op, begun>>

\* The function returns and the wrapper records its result.
Return(t) ==
  EndCall(t, [made[Target(t)] EXCEPT !.output =
                IF Last(entered[t]).form = "decorated" THEN Last(entered[t]).number ELSE @])

\* It raises: the wrapper, or __exit__, records the exception, and so does
\* OpenTelemetry's context manager.  The caller goes on, or raises too.
Failed(t, events) == [made[Target(t)] EXCEPT !.error = events > 0, !.events = events]
Raise(t) == EndCall(t, Failed(t, 2))

\* It is cancelled, which is no Exception: the wrapper passes that on, __exit__
\* records it; OpenTelemetry does or does not, by its version.
Cancel(t) ==
  \E again \in {0, 1} :
    EndCall(t, Failed(t, again + (IF Last(entered[t]).form = "with" THEN 1 ELSE 0)))

OperationNext ==
  \E t \in Tasks :
    \/ \E form \in Forms : BeginCall(t, form)
    \/ SetInput(t) \/ SetOutput(t) \/ Return(t) \/ Raise(t) \/ Cancel(t)

OperationSpec == OperationInit /\ [][OperationNext]_operated

\* Every call has a span of its own: what it is told of is that call's input
\* and outcome, never another's; it lies in the span of the call around it,
\* which ends later, so that it is sent first; and a call that is over has
\* ended it and sent it, unless the function's context does not propagate.
\* emitter/annotation.py.
CallsAreApart ==
  \A s \in DOMAIN made :
    LET span == made[s]
        open == {i \in DOMAIN entered[span.task] : entered[span.task][i].span = s}
    IN /\ span.ended = (open = {})
       /\ span.sent => span.ended
       /\ span.ended /\ propagate => span.sent
       /\ {span.input, span.output} \subseteq {NoValue, span.number}
       /\ ~(span.error /\ span.events = 0)
       /\ span.parent # NoSpan =>
            /\ made[span.parent].task = span.task /\ made[span.parent].number < span.number
            /\ made[span.parent].ended => span.ended
=============================================================================
