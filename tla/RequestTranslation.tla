--------------------------- MODULE RequestTranslation ---------------------------
(***************************************************************************)
(* A conversation with tools as its client sends it -- as OpenAI messages, *)
(* with the older functions, as Anthropic messages, as Gemini contents --  *)
(* and the input the backend gets for it (src/translation/*-to-codex.ts,   *)
(* tool-format.ts, shared-utils.ts).                                       *)
(*                                                                         *)
(* The conversation is the client's: every request carries all of it, and  *)
(* it grows by turns: the user says something, the model answers and may   *)
(* call tools, the client returns the results, in an order of its own.     *)
(* The translations are operators on it.  What a message says is the       *)
(* turn it comes from.  Bounds: MaxTurns, two calls in an answer.          *)
(***************************************************************************)
EXTENDS Integers, Sequences, SequencesExt, FiniteSets

CONSTANTS MaxTurns, Tool

ASSUME ConversationAssumption == MaxTurns \in Nat

VARIABLE turns   \* by whom, a text and an image in it, the calls made, the results returned

Dialects == {"openai", "functions", "anthropic", "gemini"}

Turn(by, text, image, calls, results) ==
    [by |-> by, text |-> text, image |-> image, calls |-> calls, results |-> results]

-----------------------------------------------------------------------------
(* Input items *)

Message(role, n, text, image) ==
    [kind |-> "message", role |-> role, turn |-> n, text |-> text, image |-> image]

\* real tells which call it is, place where the client puts the result; id is what the
\* backend sees.
Call(id, c) == [kind |-> "call", id |-> id, real |-> c.id, tool |-> c.tool]
Output(id, c, i) == [kind |-> "output", id |-> id, real |-> c.id, place |-> i]

\* A message goes before the calls and results of its turn, unless it is empty beside them.
Said(role, n, t) ==
    IF t.text \/ t.image \/ (t.calls = <<>> /\ t.results = <<>>)
    THEN <<Message(role, n, t.text, t.image)>> ELSE <<>>

Role(t) == IF t.by = "model" THEN "assistant" ELSE "user"

\* What stands for an id or a name the client leaves out; no tool is called that.
Unknown == <<"unknown", 0>>

\* tool_call_id and name are optional for a result, for a call they are not.
OpenAIId(c) == IF c.named THEN <<"id", c.id>> ELSE Unknown
FunctionId(c) == IF c.named THEN <<"fc", c.tool>> ELSE Unknown

\* translateToCodexRequest: each result is a message of its own, of which only the text
\* is taken; what the user says with them follows.
OpenAIItems(n, t) ==
    LET calls == [i \in DOMAIN t.calls |-> Call(OpenAIId(t.calls[i]), t.calls[i])]
        outputs == [i \in DOMAIN t.results |-> Output(OpenAIId(t.results[i]), t.results[i], i)]
    IN  outputs \o Said(Role(t), n, t) \o calls

\* The older format knows one call a message, and no id: it is made from the name.
FunctionItems(n, t) ==
    LET calls == [i \in DOMAIN t.calls |-> Call(FunctionId(t.calls[i]), t.calls[i])]
        outputs == [i \in DOMAIN t.results |-> Output(FunctionId(t.results[i]), t.results[i], i)]
    IN  outputs \o Said(Role(t), n, t) \o calls

\* Mutant: what is said beside tool blocks is dropped.
AnthropicSaidAlone(n, t) ==
    IF t.calls = <<>> /\ t.results = <<>> THEN Said(Role(t), n, t) ELSE <<>>

AnthropicSaid(n, t) == Said(Role(t), n, t)

\* contentToInputItems: the message first, whatever the order of the blocks; an image in
\* a result follows it as a message of the user.
AnthropicItems(n, t) ==
    LET calls == [i \in DOMAIN t.calls |-> Call(<<"id", t.calls[i].id>>, t.calls[i])]
        Result(c, i) == <<Output(<<"id", c.id>>, c, i)>>
                        \o IF c.shown THEN <<Message("user", n, FALSE, TRUE)>> ELSE <<>>
    IN  AnthropicSaid(n, t) \o calls
            \o FlattenSeq([i \in DOMAIN t.results |-> Result(t.results[i], i)])

\* partsToInputItems counts the calls of one content; its map of names has those of the
\* same content alone, so that a response gets the next number too.
GeminiId(i) == i - 1

GeminiItems(n, t) ==
    LET calls == [i \in DOMAIN t.calls |-> Call(<<"fc", GeminiId(i)>>, t.calls[i])]
        outputs == [i \in DOMAIN t.results |-> Output(<<"fc", GeminiId(i)>>, t.results[i], i)]
    IN  Said(Role(t), n, t) \o calls \o outputs

Items(d, n, t) ==
    CASE d = "openai" -> OpenAIItems(n, t)
      [] d = "functions" -> FunctionItems(n, t)
      [] d = "anthropic" -> AnthropicItems(n, t)
      [] d = "gemini" -> GeminiItems(n, t)

\* At least one item.
Input(d) ==
    LET items == FlattenSeq([n \in DOMAIN turns |-> Items(d, n, turns[n])])
    IN  IF items = <<>> THEN <<Message("user", 0, FALSE, FALSE)>> ELSE items

-----------------------------------------------------------------------------
(* The conversation *)

Waiting == turns # <<>> /\ Last(turns).calls # <<>>

UserSays ==
    /\ turns # <<>> => Last(turns).by = "model"
    /\ ~Waiting
    /\ \E text, image \in BOOLEAN :
          /\ text \/ image
          /\ turns' = Append(turns, Turn("user", text, image, <<>>, <<>>))

\* A call has an id of its own, which is where it was made.
ModelAnswers ==
    /\ turns # <<>> /\ Last(turns).by # "model"
    /\ \E text \in BOOLEAN, tools \in UNION {[1 .. k -> Tool] : k \in 0 .. 2} :
          /\ text \/ tools # <<>>
          /\ turns' = Append(turns, Turn("model", text, FALSE,
                [i \in DOMAIN tools |->
                    [id |-> <<Len(turns) + 1, i>>, tool |-> tools[i],
                     shown |-> FALSE, named |-> TRUE]], <<>>))

\* Results may come in another order than the calls, with images and words of the user,
\* and without what names their call.
ResultsReturned ==
    LET calls == Last(turns).calls IN
    /\ Waiting
    /\ \E order \in SetToSeqs(DOMAIN calls), text, shown \in BOOLEAN,
          named \in [DOMAIN calls -> BOOLEAN] :
          turns' = Append(turns, Turn("results", text, FALSE, <<>>,
                [i \in DOMAIN calls |->
                    [calls[order[i]] EXCEPT !.shown = shown, !.named = named[i]]]))

ConversationInit == turns = <<>>

ConversationNext == Len(turns) < MaxTurns /\ (UserSays \/ ModelAnswers \/ ResultsReturned)

ConversationSpec == ConversationInit /\ [][ConversationNext]_turns

-----------------------------------------------------------------------------
(* Properties *)

\* The older format cannot express more than one call in a message.
Expressible(d) == d = "functions" => \A n \in DOMAIN turns : Len(turns[n].calls) <= 1

\* What a backend makes of an output: it answers the last call before it with its id.
Candidates(items, o) == {p \in 1 .. o - 1 : items[p].kind = "call" /\ items[p].id = items[o].id}

Answers(items, o, real) ==
    LET calls == Candidates(items, o)
    IN  calls # {} /\ \A p \in calls : (\A q \in calls : q <= p) => items[p].real = real

\* Gemini's results are taken for those of the calls at their places.
Meant(d, x) == IF d = "gemini" THEN <<x.real[1], x.place>> ELSE x.real

ResultReaches(d, items, o) ==
    IF items[o].id = Unknown THEN Candidates(items, o) = {}
    ELSE Answers(items, o, Meant(d, items[o]))

\* Every turn is a turn of the conversation, in the order of the conversation.
ConversationTypeOK ==
    /\ Len(turns) <= MaxTurns
    /\ \A n \in DOMAIN turns :
        /\ turns[n].by \in {"user", "model", "results"} /\ {turns[n].text, turns[n].image} \subseteq BOOLEAN
        /\ turns[n].results # <<>> => n > 1 /\ Len(turns[n].results) = Len(turns[n - 1].calls)

\* However often a tool is called, in one answer or in later ones, a result with the id
\* or the name of its call reaches the model as that of the call it answers, and one
\* without it as that of no call, never as another's.  Gemini has no ids, and a result
\* is taken for that of the call at its place among the calls, whichever it answers.
ResultsMatched ==
    \A d \in Dialects : Expressible(d) =>
        LET items == Input(d)
        IN  \A o \in DOMAIN items : items[o].kind = "output" => ResultReaches(d, items, o)

\* The turn an item comes from, and the items of a kind that come from a turn.
TurnOf(x) ==
    CASE x.kind = "message" -> x.turn
      [] x.kind = "call" -> x.real[1]
      [] x.kind = "output" -> x.real[1] + 1

From(items, n, kind) == {p \in DOMAIN items : items[p].kind = kind /\ TurnOf(items[p]) = n}

\* The items at places are those of the list, each once, in its order.
Arranged(items, places, list) ==
    \E place \in [DOMAIN list -> places] :
        /\ places = {place[i] : i \in DOMAIN list}
        /\ \A i \in DOMAIN list : items[place[i]].real = list[i].id
        /\ \A i, j \in DOMAIN list : i < j => place[i] < place[j]

OnceIf(set, there) == IF there THEN \E p \in set : set = {p} ELSE set = {}

\* All of turn t, which is the n-th, is there once.  An image in a result follows it in
\* Anthropic's format, and is not there in any other.
TurnKept(d, items, n, t) ==
    LET messages == From(items, n, "message")
        outputs == From(items, n, "output")
        images == {p \in messages : items[p].image}
    IN  /\ OnceIf({p \in messages : items[p].text}, t.text)
        /\ t.by = "user" => OnceIf(images, t.image)
        /\ d = "anthropic" /\ t.by = "results" =>
              /\ \A i \in DOMAIN t.results, o \in outputs :
                    items[o].real = t.results[i].id => (t.results[i].shown <=> o + 1 \in images)
              /\ \A p \in images : p - 1 \in outputs
        /\ d # "anthropic" /\ t.by = "results" => images = {}
        /\ Arranged(items, From(items, n, "call"), t.calls)
        /\ Arranged(items, outputs, t.results)

\* Nothing of the conversation is lost or doubled on its way through any translator, and
\* no turn overtakes another: every text, call and result and every image of the user is
\* there once, and an image in a result where the format has it.
NothingLost ==
    \A d \in Dialects : Expressible(d) =>
        LET items == Input(d) IN
        /\ \A n \in DOMAIN turns : TurnKept(d, items, n, turns[n])
        /\ \A p, q \in DOMAIN items : p < q => TurnOf(items[p]) <= TurnOf(items[q])

\* However a client tells its conversation, the backend is told the same one.
ConversationKept == ConversationTypeOK /\ ResultsMatched /\ NothingLost

\* "Match response to the earliest unmatched call with the same name"
\* (gemini-to-codex.ts:108).  The calls are in the content before the one with the
\* responses, whose map of names is empty: they are matched by their places.
GeminiMatchesByName ==
    LET items == Input("gemini")
    IN  \A o \in DOMAIN items : items[o].kind = "output" => Answers(items, o, items[o].real)

\* "Image input support: the image contents of the three formats ... now reach the Codex
\* backend" (CHANGELOG.md:332).  Those in a tool message do not (openai-to-codex.ts:138).
ResultImagesKept ==
    LET items == Input("openai")
    IN  \A n \in DOMAIN turns : \A i \in DOMAIN turns[n].results :
            turns[n].results[i].shown => \E p \in From(items, n, "message") : items[p].image

\* The results of calls come before what is said after them.
ResultsBeforeWords ==
    \A d \in Dialects :
        LET items == Input(d) IN
        \A o, p \in DOMAIN items :
            items[o].kind = "output" /\ items[p].kind = "message" /\ items[p].role = "user" /\ p < o
            => \A q \in 1 .. p : items[q].kind = "call" => items[q].real # items[o].real
=============================================================================
