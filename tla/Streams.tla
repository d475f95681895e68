------------------------------- MODULE Streams -------------------------------
(***************************************************************************)
(* StreamConversionMiddleware of the LLM proxy: a request for a stream is  *)
(* sent on as one for a whole answer, and the answer is cut into the       *)
(* events of a stream, in the form of OpenAI or of Anthropic.  The events  *)
(* are made while they are sent, after the middleware has returned.        *)
(*                                                                         *)
(* A text is a sequence of "w", " " and "\n".  An answer is a record       *)
(* [blocks, finish]; a block is a text or a call of a tool, [type, id,     *)
(* text], where text is the content or the arguments; OpenAI has one text  *)
(* first.  An event is a record [event, block, id, text].                  *)
(***************************************************************************)
EXTENDS Integers, Sequences, FiniteSets, SequencesExt

CONSTANTS
  Approx,      \* characters of a piece of OpenAI content, 28 in the code
  ArgChunk,    \* characters of a piece of arguments, 40 and 20
  WordChunk,   \* words of a piece of Anthropic content, 5
  MaxText      \* bound on the length of a text

ASSUME StreamAssumption == {Approx, ArgChunk, WordChunk} \subseteq Nat \ {0} /\ MaxText \in Nat

VARIABLES
  form,      \* the endpoint: "openai", "anthropic" or "unknown"
  wish,      \* whether a stream was asked for, and if the body was read at all
  answer,    \* what the model answers, when it answers
  status,    \* of the answer: "ok", "error", "not JSON", or "" before it
  reply,     \* "", "passed on", "whole", "stream", "ended" or "broken"
  sent       \* the events sent so far
streamVars == <<form, wish, answer, status, reply, sent>>

Ev(event, block, id, text) == [event |-> event, block |-> block, id |-> id, text |-> text]

-----------------------------------------------------------------------------
\* stream_content: pieces of about Approx characters that end after the last
\* space past their first character, if there is one and it is not the last piece.
EndOf(text, start) ==
  LET n == Len(text)
      end == IF start + Approx - 1 < n THEN start + Approx - 1 ELSE n
      spaces == {i \in start + 1 .. end : text[i] = " "}
  IN IF end < n /\ spaces # {} THEN CHOOSE i \in spaces : \A j \in spaces : j <= i ELSE end

Pieces(text) ==
  LET from[s \in 1 .. Len(text) + 1] ==
        IF s > Len(text) THEN <<>> ELSE <<SubSeq(text, s, EndOf(text, s))>> \o from[EndOf(text, s) + 1]
  IN from[1]

\* A mutant: what does not fill a piece is left out.
SlicesFull(text, size) == [i \in 1 .. Len(text) \div size |-> SubSeq(text, (i - 1) * size + 1, i * size)]

\* text[pos : pos + size] for every size-th pos
Slices(text, size) ==
  [i \in 1 .. (Len(text) + size - 1) \div size |->
     SubSeq(text, (i - 1) * size + 1, IF i * size < Len(text) THEN i * size ELSE Len(text))]

\* str.split: the words; what is between them is gone.
WordsOf(text) ==
  LET starts == {i \in DOMAIN text : text[i] = "w" /\ (i = 1 \/ text[i - 1] # "w")}
      end(i) == CHOOSE j \in i .. Len(text) : (\A k \in i .. j : text[k] = "w") /\ (j = Len(text) \/ text[j + 1] # "w")
      nth(k) == CHOOSE i \in starts : Cardinality({j \in starts : j <= i}) = k
  IN [k \in 1 .. Cardinality(starts) |-> SubSeq(text, nth(k), end(nth(k)))]

Spaced(words) == FlattenSeq([k \in DOMAIN words |-> IF k = 1 THEN words[k] ELSE <<" ">> \o words[k]])

\* Groups of WordChunk words, every one but the last with a space behind it.
WordPieces(text) ==
  LET groups == Slices(WordsOf(text), WordChunk)
  IN [g \in DOMAIN groups |-> Spaced(groups[g]) \o (IF g < Len(groups) THEN <<" ">> ELSE <<>>)]

-----------------------------------------------------------------------------
\* openai_stream_generator
OpenAIEvents(a) ==
  LET Of(b) ==
        IF a.blocks[b].type = "text"
        THEN [p \in DOMAIN Pieces(a.blocks[b].text) |-> Ev("delta", b, "", Pieces(a.blocks[b].text)[p])]
        ELSE <<Ev("start", b, a.blocks[b].id, <<>>)>>
             \o [p \in DOMAIN Slices(a.blocks[b].text, ArgChunk) |->
                   Ev("delta", b, "", Slices(a.blocks[b].text, ArgChunk)[p])]
  IN <<Ev("role", 0, "", <<>>)>>
     \o FlattenSeq([b \in DOMAIN a.blocks |-> Of(b)])
     \o <<Ev("finish", 0, IF a.finish # "None" THEN a.finish
                          ELSE IF \E b \in DOMAIN a.blocks : a.blocks[b].type = "tool" THEN "tool_calls" ELSE "stop", <<>>),
          Ev("done", 0, "", <<>>)>>

\* anthropic_stream_generator; blocks of other types are left out.
AnthropicEvents(a) ==
  LET Cut(b) == IF a.blocks[b].type = "text" THEN WordPieces(a.blocks[b].text) ELSE Slices(a.blocks[b].text, ArgChunk)
      Of(b) ==
        IF a.blocks[b].type = "other" THEN <<>>
        ELSE <<Ev("start", b, a.blocks[b].id, <<>>)>>
             \o [p \in DOMAIN Cut(b) |-> Ev("delta", b, "", Cut(b)[p])]
             \o <<Ev("stop", b, "", <<>>)>>
  IN <<Ev("message_start", 0, "", <<>>), Ev("ping", 0, "", <<>>)>>
     \o FlattenSeq([b \in DOMAIN a.blocks |-> Of(b)])
     \o <<Ev("finish", 0, IF a.finish # "None" THEN a.finish ELSE "end_turn", <<>>), Ev("done", 0, "", <<>>)>>

Events == IF form = "openai" THEN OpenAIEvents(answer) ELSE AnthropicEvents(answer)

-----------------------------------------------------------------------------
Contents == UNION {[1 .. n -> {"w", " ", "\n"}] : n \in 0 .. MaxText}
Block == [type : {"text"}, id : {""}, text : Contents]
ToolUse(id) == {[type |-> "tool", id |-> id, text |-> [i \in 1 .. n |-> "w"]] : n \in {0, 1, MaxText}}
Tools == {<<>>} \cup {<<t>> : t \in ToolUse("t1")} \cup {<<t, u>> : t \in ToolUse("t1"), u \in ToolUse("t2")}
Other == [type |-> "other", id |-> "", text |-> <<>>]
AnswerOf(b, t, f) == [blocks |-> <<b>> \o t, finish |-> f]
Answers == {AnswerOf(b, t, f) : b \in Block, t \in Tools, f \in {"None", "length"}}
NoAnswer == [blocks |-> <<>>, finish |-> "None"]

StreamInit ==
  /\ form \in {"openai", "anthropic", "unknown"} /\ wish \in {"stream", "whole", "unreadable"}
  /\ answer = NoAnswer /\ status = "" /\ reply = "" /\ sent = <<>>

\* dispatch: everything but a request for a stream is passed on as it is.
PassOn ==
  /\ reply = "" /\ status = "" /\ (form = "unknown" \/ wish # "stream")
  /\ reply' = "passed on" /\ UNCHANGED <<form, wish, answer, status, sent>>

\* The model answers what was sent on with stream set to false.
Answered ==
  /\ reply = "" /\ status = "" /\ form # "unknown" /\ wish = "stream"
  /\ status' \in {"ok", "error", "not JSON"}
  /\ IF status' = "ok"
     THEN \E a \in Answers : answer' \in {a} \cup (IF form = "anthropic" THEN {[a EXCEPT !.blocks = <<Other>> \o @]} ELSE {})
     ELSE answer' = answer
  /\ UNCHANGED <<form, wish, reply, sent>>

\* _handle_stream_case: what cannot be read goes back as it came.
Convert ==
  /\ reply = "" /\ status # ""
  /\ reply' = IF status = "ok" THEN "stream" ELSE "whole"
  /\ UNCHANGED <<form, wish, answer, status, sent>>

Send ==
  /\ reply = "stream" /\ Len(sent) < Len(Events)
  /\ sent' = Append(sent, Events[Len(sent) + 1])
  /\ reply' = IF Len(sent') = Len(Events) THEN "ended" ELSE "stream"
  /\ UNCHANGED <<form, wish, answer, status>>

\* The reader goes away; the generator is closed where it is.
Hangup == reply = "stream" /\ reply' = "broken" /\ UNCHANGED <<form, wish, answer, status, sent>>

StreamNext == PassOn \/ Answered \/ Convert \/ Send \/ Hangup

StreamSpec == StreamInit /\ [][StreamNext]_streamVars

-----------------------------------------------------------------------------
\* What a reader has of a block, from the events so far.
Heard(b) == FlattenSeq([i \in 1 .. Len(sent) |-> IF sent[i].event = "delta" /\ sent[i].block = b THEN sent[i].text ELSE <<>>])

\* Words with one space between two, and nothing before or after them.
SingleSpaced(text) ==
  \A i \in DOMAIN text : text[i] # "w" =>
    text[i] = " " /\ i \in 2 .. Len(text) - 1 /\ text[i - 1] = "w" /\ text[i + 1] = "w"

\* The blocks that the generators carry as they are: all of OpenAI; of Anthropic
\* the calls of tools, and texts that are single spaced.
Carried(b) ==
  \/ form = "openai" \/ answer.blocks[b].type = "tool"
  \/ answer.blocks[b].type = "text" /\ SingleSpaced(answer.blocks[b].text)

\* A reader of a converted stream never has of a carried block anything that is
\* not the beginning of it, and at the end has all of it; blocks come one after
\* the other, each call of a tool is there once, and there is one reason for the
\* end.  An Anthropic text that is not single spaced arrives changed, and blocks
\* of other types do not arrive: nothing is said of those, see StreamTellsAll.
\* llm_proxy.py, the two generators of StreamConversionMiddleware.
StreamIsAnswer ==
  /\ \A b \in DOMAIN answer.blocks :
       /\ Carried(b) => IsPrefix(Heard(b), answer.blocks[b].text)
       /\ Carried(b) /\ reply = "ended" => Heard(b) = answer.blocks[b].text
       /\ reply = "ended" /\ answer.blocks[b].type = "tool" =>
            Cardinality({i \in DOMAIN sent : sent[i].event = "start" /\ sent[i].id = answer.blocks[b].id}) = 1
  /\ \A i, j \in DOMAIN sent : i < j /\ sent[i].block # 0 /\ sent[j].block # 0 => sent[i].block <= sent[j].block
  /\ \A i \in DOMAIN sent : sent[i].event = "delta" =>
       sent[i].text # <<>> /\ (answer.blocks[sent[i].block].type = "tool" =>
         \E j \in 1 .. i : sent[j].event = "start" /\ sent[j].block = sent[i].block)
  /\ reply = "ended" => Cardinality({i \in DOMAIN sent : sent[i].event = "finish"}) = 1

\* "Generate Anthropic SSE-formatted chunks from complete content blocks": at the
\* end a reader has every block, as it is.  The code does not keep this: str.split
\* takes what is between the words, and blocks of other types are skipped.
StreamTellsAll ==
  form = "anthropic" /\ reply = "ended" => \A b \in DOMAIN answer.blocks :
    Heard(b) = answer.blocks[b].text /\ \E i \in DOMAIN sent : sent[i].block = b

=============================================================================
