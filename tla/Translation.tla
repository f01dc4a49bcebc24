------------------------------ MODULE Translation ------------------------------
(***************************************************************************)
(* The event stream of a Codex response as the clients get it              *)
(* (src/translation/): the extractor and, behind it, the translators to    *)
(* OpenAI chunks, Anthropic events and Gemini candidates, each streaming   *)
(* and collecting, and the loop that writes a stream to its client         *)
(* (src/routes/shared/response-processor.ts).                              *)
(*                                                                         *)
(* The three streams and the collectors (which extract the same) read the  *)
(* same upstream events in step, so that what their clients hold can be    *)
(* compared.  Upstream is external: it outputs one item after another --   *)
(* reasoning, text, function calls -- and ends with a terminal event, or   *)
(* is cut: the body ends, or breaks.  Text and arguments are the number of *)
(* deltas they consist of; what JSON.parse makes of a call's arguments is  *)
(* the same number, or 0: the empty object in their place, where they are  *)
(* no JSON.  Bounds: MaxItems, MaxDeltas.                                  *)
(***************************************************************************)
EXTENDS Integers, Sequences, FiniteSets, SequencesExt

CONSTANTS MaxItems, MaxDeltas

ASSUME TranslationAssumption == MaxItems \in Nat /\ MaxDeltas \in Nat

VARIABLES
    wants,      \* the request: reasoning (or thinking), a tuple schema
    items,      \* history: what upstream has output
    terminal,   \* history: its terminal event
    ended,      \* the body: open, closed or broken
    client,     \* the streams' client is there
    openai, anthropic, gemini,   \* the three streams
    collected   \* the collectors

upstreamVars == <<wants, items, terminal>>
streamVars == <<openai, anthropic, gemini>>
translationVars == <<upstreamVars, ended, client, streamVars, collected>>

None == "none"
Kinds == {"text", "reasoning", "call"}
Terminals == {"completed", "incomplete", "failed"}

\* What was output of one kind, in deltas.
DeltasOf(seq, kind) ==
    UNION {{i} \X (1 .. seq[i].n) : i \in {j \in DOMAIN seq : seq[j].kind = kind}}
Total(seq, kind) == Cardinality(DeltasOf(seq, kind))

\* A call is known by its place among the items; what is none has the number 0.
CallsIn(seq) == {i \in DOMAIN seq : seq[i].call # 0}

AddTo(seq, i, n) == [seq EXCEPT ![i].n = @ + n]

\* The items with the arguments of their calls parsed.
Parsed(seq) == [i \in DOMAIN seq |-> [n |-> seq[i].parsed]]

\* The calls of seq are those upstream has output, all of them, each once, in their
\* order and with the arguments they have in said.
SameCalls(seq, said) ==
    /\ {seq[k].call : k \in CallsIn(seq)} = CallsIn(items)
    /\ \A j, k \in CallsIn(seq) : j < k => seq[j].call < seq[k].call
    /\ \A k \in CallsIn(seq) : seq[k].n = said[seq[k].call].n

-----------------------------------------------------------------------------
(* OpenAI: chunks; a call's arguments go to its index *)

OpenAIStart ==
    [text |-> 0, thoughts |-> 0, calls |-> <<>>, finish |-> None, ended |-> None, errors |-> 0,
     buffer |-> 0, indexOf |-> <<>>, withDeltas |-> {}, used |-> 0, over |-> FALSE]

\* Mutant: text that is held back does not count as content.
HasContentShown(s) == s.text + s.thoughts > 0 \/ s.calls # <<>>

HasContent(s) == s.text + s.buffer + s.thoughts > 0 \/ s.calls # <<>>

OpenAICallStart(s, e) ==
    [s EXCEPT !.calls = Append(@, [call |-> e.call, n |-> 0]), !.indexOf = Append(@, e.call)]

IndexOf(s, c) == CHOOSE i \in DOMAIN s.indexOf : s.indexOf[i] = c

OpenAICallDelta(s, e) ==
    [s EXCEPT !.withDeltas = @ \cup {e.call}, !.calls = AddTo(@, IndexOf(s, e.call), 1)]

\* Mutant: the full arguments follow the deltas.
CallDoneAgain(s, e) == [s EXCEPT !.calls = AddTo(@, IndexOf(s, e.call), e.n)]

\* The full arguments, if none were streamed.
OpenAICallDone(s, e) ==
    IF e.call \in s.withDeltas THEN s
    ELSE [s EXCEPT !.calls = AddTo(@, IndexOf(s, e.call), e.n)]

OpenAIText(s) ==
    IF wants.tuple THEN [s EXCEPT !.buffer = @ + 1] ELSE [s EXCEPT !.text = @ + 1]

OpenAIReasoning(s) == IF wants.reasoning THEN [s EXCEPT !.thoughts = @ + 1] ELSE s

\* Text held back for the tuple schema comes now; an empty response is an error.
OpenAICompleted(s, e) ==
    [s EXCEPT !.text = @ + s.buffer, !.buffer = 0,
              !.used = @ + IF e.usage THEN 1 ELSE 0,
              !.errors = @ + IF HasContent(s) THEN 0 ELSE 1,
              !.finish = IF s.calls # <<>> THEN "tool_calls" ELSE "stop"]

OpenAIFailed(s) ==
    [s EXCEPT !.errors = @ + 1, !.finish = "stop", !.ended = "done", !.over = TRUE]

OpenAIEvent(s, e) ==
    CASE e.type = "callAdded" -> OpenAICallStart(s, e)
      [] e.type = "argumentsDelta" -> OpenAICallDelta(s, e)
      [] e.type = "argumentsDone" -> OpenAICallDone(s, e)
      [] e.type = "reasoning" -> OpenAIReasoning(s)
      [] e.type = "text" -> OpenAIText(s)
      [] e.type = "completed" -> OpenAICompleted(s, e)
      [] e.type = "failed" -> OpenAIFailed(s)
      [] OTHER -> s

OpenAIEnd(s) == [s EXCEPT !.ended = "done", !.over = TRUE]

-----------------------------------------------------------------------------
(* Anthropic: content blocks, started, filled and stopped by index *)

AnthropicStart ==
    [blocks |-> <<>>, malformed |-> FALSE, index |-> 1, textBlock |-> FALSE,
     thinkingBlock |-> FALSE, calls |-> FALSE, hasContent |-> FALSE, withDeltas |-> {},
     errors |-> 0, finish |-> None, ended |-> None, used |-> 0, over |-> FALSE]

\* What a client that keeps to the protocol makes of the events of a block.
StartBlock(s, kind, call) ==
    IF s.index = Len(s.blocks) + 1 /\ \A b \in DOMAIN s.blocks : ~s.blocks[b].open
    THEN [s EXCEPT !.blocks = Append(@, [kind |-> kind, call |-> call, n |-> 0, open |-> TRUE])]
    ELSE [s EXCEPT !.malformed = TRUE]

BlockDelta(s, kind, n) ==
    IF s.index \in DOMAIN s.blocks /\ s.blocks[s.index].open /\ s.blocks[s.index].kind = kind
    THEN [s EXCEPT !.blocks = AddTo(@, s.index, n)]
    ELSE [s EXCEPT !.malformed = TRUE]

StopBlock(s) ==
    IF s.index \in DOMAIN s.blocks /\ s.blocks[s.index].open
    THEN [s EXCEPT !.blocks[s.index].open = FALSE, !.index = @ + 1]
    ELSE [s EXCEPT !.malformed = TRUE, !.index = @ + 1]

CloseThinkingIfOpen(s) ==
    IF s.thinkingBlock THEN [StopBlock(s) EXCEPT !.thinkingBlock = FALSE] ELSE s

CloseTextIfOpen(s) == IF s.textBlock THEN [StopBlock(s) EXCEPT !.textBlock = FALSE] ELSE s

EnsureTextBlock(s) ==
    IF s.textBlock THEN s ELSE [StartBlock(s, "text", 0) EXCEPT !.textBlock = TRUE]

\* Mutant: the text block stays open behind the thinking block.
AnthropicReasoningInText(s) ==
    IF ~wants.reasoning THEN s
    ELSE LET open == IF s.thinkingBlock THEN s
                     ELSE [StartBlock(s, "reasoning", 0) EXCEPT !.thinkingBlock = TRUE]
         IN  [BlockDelta(open, "reasoning", 1) EXCEPT !.hasContent = TRUE]

AnthropicReasoning(s) ==
    IF ~wants.reasoning THEN s
    ELSE LET closed == CloseTextIfOpen(s)
             open == IF closed.thinkingBlock THEN closed
                     ELSE [StartBlock(closed, "reasoning", 0) EXCEPT !.thinkingBlock = TRUE]
         IN  [BlockDelta(open, "reasoning", 1) EXCEPT !.hasContent = TRUE]

AnthropicCallStart(s, e) ==
    LET closed == CloseTextIfOpen(CloseThinkingIfOpen(s))
    IN  [StartBlock(closed, "call", e.call) EXCEPT !.calls = TRUE, !.hasContent = TRUE]

AnthropicCallDelta(s, e) ==
    [BlockDelta(s, "call", 1) EXCEPT !.withDeltas = @ \cup {e.call}]

AnthropicCallDone(s, e) ==
    StopBlock(IF e.call \in s.withDeltas THEN s ELSE BlockDelta(s, "call", e.n))

AnthropicText(s) ==
    [BlockDelta(EnsureTextBlock(CloseThinkingIfOpen(s)), "text", 1) EXCEPT !.hasContent = TRUE]

AnthropicCompleted(s, e) ==
    LET used == [s EXCEPT !.used = @ + IF e.usage THEN 1 ELSE 0]
    IN  IF s.hasContent THEN used
        ELSE [BlockDelta(EnsureTextBlock(used), "text", 0) EXCEPT !.errors = @ + 1]

\* The call whose block may be open is not thought of.
AnthropicFailed(s) ==
    LET told == BlockDelta(EnsureTextBlock(CloseThinkingIfOpen(s)), "text", 0)
    IN  [CloseTextIfOpen(told) EXCEPT !.errors = @ + 1, !.ended = "message_stop", !.over = TRUE]

AnthropicEvent(s, e) ==
    CASE e.type = "callAdded" -> AnthropicCallStart(s, e)
      [] e.type = "argumentsDelta" -> AnthropicCallDelta(s, e)
      [] e.type = "argumentsDone" -> AnthropicCallDone(s, e)
      [] e.type = "reasoning" -> AnthropicReasoning(s)
      [] e.type = "text" -> AnthropicText(s)
      [] e.type = "completed" -> AnthropicCompleted(s, e)
      [] e.type = "failed" -> AnthropicFailed(s)
      [] OTHER -> s

AnthropicEnd(s) ==
    [CloseTextIfOpen(CloseThinkingIfOpen(s)) EXCEPT
        !.finish = IF s.calls THEN "tool_use" ELSE "end_turn",
        !.ended = "message_stop", !.over = TRUE]

-----------------------------------------------------------------------------
(* Gemini: candidates; a call comes whole, with its arguments parsed *)

GeminiStart ==
    [text |-> 0, thoughts |-> 0, calls |-> <<>>, finish |-> None, errors |-> 0, buffer |-> 0,
     used |-> 0, over |-> FALSE]

GeminiText(s) ==
    IF wants.tuple THEN [s EXCEPT !.buffer = @ + 1] ELSE [s EXCEPT !.text = @ + 1]

\* Arguments that cannot be parsed are left out.
GeminiCallDone(s, e) == [s EXCEPT !.calls = Append(@, [call |-> e.call, n |-> e.parsed])]

GeminiCompleted(s, e) ==
    [s EXCEPT !.text = @ + s.buffer, !.buffer = 0,
              !.used = @ + IF e.usage THEN 1 ELSE 0,
              !.errors = @ + IF HasContent(s) THEN 0 ELSE 1,
              !.finish = "STOP"]

GeminiFailed(s) == [s EXCEPT !.errors = @ + 1, !.finish = "OTHER", !.over = TRUE]

GeminiEvent(s, e) ==
    CASE e.type = "argumentsDone" -> GeminiCallDone(s, e)
      [] e.type = "text" -> GeminiText(s)
      [] e.type = "completed" -> GeminiCompleted(s, e)
      [] e.type = "failed" -> GeminiFailed(s)
      [] OTHER -> s

GeminiEnd(s) == [s EXCEPT !.over = TRUE]

-----------------------------------------------------------------------------
(* The collectors; what a call streamed before it was done does not count. *)
(* They differ in the arguments: OpenAI's keeps the string (calls),        *)
(* Gemini's and Anthropic's parse it (parsed).                             *)

CollectorStart ==
    [text |-> 0, thoughts |-> 0, calls |-> <<>>, parsed |-> <<>>, used |-> 0, outcome |-> None]

CollectEvent(s, e) ==
    CASE e.type = "text" -> [s EXCEPT !.text = @ + 1]
      [] e.type = "reasoning" -> [s EXCEPT !.thoughts = @ + 1]
      [] e.type = "argumentsDone" ->
            [s EXCEPT !.calls = Append(@, [call |-> e.call, n |-> e.n]),
                      !.parsed = Append(@, [call |-> e.call, n |-> e.parsed])]
      [] e.type \in {"completed", "incomplete"} ->
            [s EXCEPT !.used = @ + IF e.usage THEN 1 ELSE 0]
      [] e.type = "failed" -> [s EXCEPT !.outcome = "error"]
      [] OTHER -> s

\* EmptyResponseError, which the handler retries with another account.
CollectEnd(s) ==
    [s EXCEPT !.outcome = IF s.text = 0 /\ s.calls = <<>> /\ s.used = 0 THEN "empty"
                          ELSE "response"]

-----------------------------------------------------------------------------
(* Upstream, and what reads it *)

Item == Last(items)
Outputting(kind) == items # <<>> /\ Item.kind = kind /\ Item.open

\* One event, read by every stream that is not over and whose client is there.
Emit(e) ==
    /\ ended = "open"
    /\ openai' = IF client /\ ~openai.over THEN OpenAIEvent(openai, e) ELSE openai
    /\ anthropic' = IF client /\ ~anthropic.over THEN AnthropicEvent(anthropic, e) ELSE anthropic
    /\ gemini' = IF client /\ ~gemini.over THEN GeminiEvent(gemini, e) ELSE gemini
    /\ collected' = IF collected.outcome = None THEN CollectEvent(collected, e) ELSE collected
    /\ UNCHANGED <<wants, ended, client>>

ItemStarted(kind, call, n) == [kind |-> kind, call |-> call, n |-> n, parsed |-> 0, open |-> TRUE]
Extend(new) == items' = Append(items, new)
Grow == items' = [items EXCEPT ![Len(items)].n = @ + 1]

\* A delta of text or of the reasoning's summary, in a new item or the one before.
TextDelta(kind) ==
    /\ terminal = None /\ ~Outputting("call")
    /\ IF Outputting(kind) THEN Item.n < MaxDeltas /\ Grow
       ELSE Len(items) < MaxItems /\ Extend(ItemStarted(kind, 0, 1))
    /\ Emit([type |-> kind])
    /\ UNCHANGED terminal

\* response.output_item.added: the extractor notes the call_id of the item.
CallAdded ==
    /\ terminal = None /\ ~Outputting("call") /\ Len(items) < MaxItems
    /\ Extend(ItemStarted("call", Len(items) + 1, 0))
    /\ Emit([type |-> "callAdded", call |-> Len(items) + 1])
    /\ UNCHANGED terminal

ArgumentsDelta ==
    /\ terminal = None /\ Outputting("call") /\ Item.n < MaxDeltas
    /\ Grow
    /\ Emit([type |-> "argumentsDelta", call |-> Item.call])
    /\ UNCHANGED terminal

\* The full arguments, whether they were streamed or not, and whether they are JSON or not.
ArgumentsDone ==
    /\ terminal = None /\ Outputting("call")
    /\ \E n \in IF Item.n = 0 THEN 0 .. MaxDeltas ELSE {Item.n} : \E parsed \in {0, n} :
          /\ items' = [items EXCEPT ![Len(items)] =
                          [@ EXCEPT !.n = n, !.parsed = parsed, !.open = FALSE]]
          /\ Emit([type |-> "argumentsDone", call |-> Item.call, n |-> n, parsed |-> parsed])
    /\ UNCHANGED terminal

\* A response may stop in the middle of an item, unless it completes.
Terminal(type, usage) ==
    /\ terminal = None
    /\ type = "completed" => ~Outputting("call")
    /\ terminal' = type
    /\ Emit([type |-> type, usage |-> usage])
    /\ UNCHANGED items

\* What the program takes no notice of: markers, events it cannot parse.
OtherEvent == terminal = None /\ Emit([type |-> "unknown"]) /\ UNCHANGED <<items, terminal>>

\* The body is closed, with or without a terminal event.
BodyEnds ==
    /\ ended = "open" /\ ended' = "closed"
    /\ openai' = IF client /\ ~openai.over THEN OpenAIEnd(openai) ELSE openai
    /\ anthropic' = IF client /\ ~anthropic.over THEN AnthropicEnd(anthropic) ELSE anthropic
    /\ gemini' = IF client /\ ~gemini.over THEN GeminiEnd(gemini) ELSE gemini
    /\ collected' = IF collected.outcome = None THEN CollectEnd(collected) ELSE collected
    /\ UNCHANGED <<upstreamVars, client>>

\* streamResponse: an error event, and nothing after it.
Interrupted(s) == IF client /\ ~s.over THEN [s EXCEPT !.errors = @ + 1, !.over = TRUE] ELSE s

BodyBreaks ==
    /\ ended = "open" /\ ended' = "broken"
    /\ openai' = Interrupted(openai) /\ anthropic' = Interrupted(anthropic)
    /\ gemini' = Interrupted(gemini)
    /\ collected' = IF collected.outcome = None THEN [collected EXCEPT !.outcome = "error"]
                    ELSE collected
    /\ UNCHANGED <<upstreamVars, client>>

\* The next write fails, and the stream is read no further.
ClientGone ==
    /\ client /\ ended = "open"
    /\ client' = FALSE
    /\ UNCHANGED <<upstreamVars, ended, streamVars, collected>>

TranslationInit ==
    /\ wants \in [reasoning : BOOLEAN, tuple : BOOLEAN]
    /\ items = <<>> /\ terminal = None /\ ended = "open" /\ client = TRUE
    /\ openai = OpenAIStart /\ anthropic = AnthropicStart /\ gemini = GeminiStart
    /\ collected = CollectorStart

TranslationNext ==
    \/ \E kind \in {"text", "reasoning"} : TextDelta(kind)
    \/ CallAdded \/ ArgumentsDelta \/ ArgumentsDone
    \/ \E type \in Terminals, usage \in BOOLEAN : Terminal(type, usage)
    \/ OtherEvent \/ BodyEnds \/ BodyBreaks \/ ClientGone

TranslationSpec == TranslationInit /\ [][TranslationNext]_translationVars

-----------------------------------------------------------------------------
(* Properties *)

\* Every variable keeps its type.
TranslationTypeOK ==
    /\ wants \in [reasoning : BOOLEAN, tuple : BOOLEAN]
    /\ terminal \in Terminals \cup {None} /\ ended \in {"open", "closed", "broken"}
    /\ client \in BOOLEAN
    /\ \A s \in {openai, anthropic, gemini} :
          s.over \in BOOLEAN /\ s.errors \in 0 .. 2 /\ s.used \in 0 .. 1
    /\ collected.outcome \in {None, "response", "empty", "error"}

\* A response that completed reaches its client whole, whichever format was asked for,
\* streamed or collected: all of its text, the text behind a tuple schema included, and its
\* calls, none lost and none twice, in their order and with their arguments, whether these
\* were streamed or came with their done event.  Gemini's clients, and Anthropic's that do
\* not stream, get the arguments parsed -- the empty object, where they are no JSON.
ContentArrives ==
    LET Whole(s, said) == s.text = Total(items, "text") /\ SameCalls(s.calls, said) IN
    terminal = "completed" /\ ended = "closed"
        => /\ client => /\ Whole(openai, items) /\ Whole(gemini, Parsed(items))
                        /\ Total(anthropic.blocks, "text") = Total(items, "text")
                        /\ SameCalls(anthropic.blocks, items)
           /\ collected.outcome = "response"
                 => Whole(collected, items) /\ SameCalls(collected.parsed, Parsed(items))
           /\ collected.outcome = "empty" => Total(items, "text") = 0 /\ CallsIn(items) = {}

\* An Anthropic client is never sent a delta for a block that is not open, a second
\* block while one is open, or an index out of turn, as reasoning, text and calls
\* alternate and wherever the response stops -- short of failing within a call.
BlocksWellFormed ==
    anthropic.malformed => terminal = "failed" /\ Outputting("call")

\* A stream is told that its response was empty only if nothing of it was for the
\* client, and then always (codex-to-openai.ts:272, codex-to-anthropic.ts:227,
\* codex-to-gemini.ts:150).
EmptyTold ==
    LET ForClient == Total(items, "text") > 0 \/ CallsIn(items) # {}
        Told(s, shown) == (s.errors > 0) <=> ~(ForClient \/ (shown /\ Total(items, "reasoning") > 0))
    IN  terminal = "completed" /\ ended = "closed" /\ client
            => /\ Told(openai, wants.reasoning) /\ Told(anthropic, wants.reasoning)
               /\ Told(gemini, FALSE)

\* "response.completed -> content_block_stop + message_delta + message_stop"
\* (codex-to-anthropic.ts:8): a stream that has ended left no block open.
NoBlockLeftOpen ==
    anthropic.ended # None => \A b \in DOMAIN anthropic.blocks : ~anthropic.blocks[b].open

\* The tokens of a response count alike, streamed or collected.
UsageCountedAlike ==
    ended = "closed" /\ client /\ collected.outcome = "response" => openai.used = collected.used

\* Every client gets the arguments of a call as they were said, in whichever format.
ArgumentsArrive ==
    terminal = "completed" /\ ended = "closed" /\ client /\ collected.outcome = "response"
        => \A seq \in {openai.calls, anthropic.blocks, gemini.calls, collected.calls, collected.parsed} :
              SameCalls(seq, items)

\* A response that was cut does not end like one that completed.
CutIsTold ==
    ended = "closed" /\ terminal = None => collected.outcome # "response"
=============================================================================
