------------------------------ MODULE PassThrough ------------------------------
(***************************************************************************)
(* POST /v1/responses (src/routes/responses.ts): a client that speaks the  *)
(* backend's own protocol gets the events as they are, streamed or as one  *)
(* object, but for the tuples in a structured answer: their text is held   *)
(* back and restored at the end.                                           *)
(*                                                                         *)
(* Both ways read the same response.  An answer has parts, each the JSON   *)
(* of an instance of the schema: PartLength chunks of text.                *)
(***************************************************************************)
EXTENDS Integers, Sequences, SequencesExt

CONSTANTS MaxParts, PartLength

ASSUME PassAssumption == MaxParts \in Nat /\ PartLength \in Nat \ {0}

VARIABLES
    held,        \* tupleSchema: tuples are to be restored
    parts,       \* the parts the backend has written, each a sequence of chunks
    announced,   \* parts whose output_text.done was sent
    over,        \* the event that ended the response, "closed" without one, or "no"
    streamed,    \* streamPassthrough: events the client got
    tupleTextBuffer,
    assembled,   \* collectPassthrough: finalResponse, then the answer
    noted        \* response id and usage either way tells the handler

passVars == <<held, parts, announced, over, streamed, tupleTextBuffer, assembled, noted>>

Pending == "pending"

\* A text, and whether its tuples are objects, as asked for, or arrays.
Text(chunks, form) == [chunks |-> chunks, form |-> form]
Event(event, texts) == [event |-> event, texts |-> texts]

-----------------------------------------------------------------------------
(* Restoring *)

\* JSON.parse succeeds on one whole part only.
IsWhole(chunks) == \E p \in 1 .. MaxParts : chunks = [k \in 1 .. PartLength |-> <<p, k>>]

Reconverted(chunks) == Text(chunks, IF IsWhole(chunks) THEN "restored" ELSE "asked")

\* Mutant: the completed event goes as it came.
PatchNothing(e) == e

\* The completed event repeats the text; it is patched if there was any.
Patch(e) ==
    IF held /\ e.event = "completed" /\ tupleTextBuffer # <<>>
    THEN [e EXCEPT !.texts = [i \in DOMAIN e.texts |-> Reconverted(e.texts[i].chunks)]]
    ELSE e

-----------------------------------------------------------------------------
(* The two ways *)

\* Mutant: the text is held back until the stream is over, which it never learns.
FlushNever(e) == <<>>

\* One delta with all the text, before the completed event.
Flush(e) ==
    IF held /\ e.event = "completed" /\ tupleTextBuffer # <<>>
    THEN <<Event("delta", <<Reconverted(tupleTextBuffer)>>)>> ELSE <<>>

StreamPassthrough(e) ==
    IF held /\ e.event = "delta"
    THEN tupleTextBuffer' = tupleTextBuffer \o e.texts[1].chunks /\ UNCHANGED streamed
    ELSE streamed' = streamed \o Flush(e) \o <<Patch(e)>> /\ UNCHANGED tupleTextBuffer

\* Any other end than completed or an error is an empty response.
CollectPassthrough(e) ==
    assembled' =
        IF assembled # Pending THEN assembled
        ELSE CASE e.event = "completed" ->
                     [i \in DOMAIN e.texts |->
                        IF held THEN Reconverted(e.texts[i].chunks) ELSE e.texts[i]]
               [] e.event = "failed" -> "thrown"
               [] e.event \in {"incomplete", "closed"} -> "empty"
               [] OTHER -> assembled

\* Only a completed response counts.
Note(e) ==
    noted' = [id |-> noted.id \/ e.event \in {"created", "completed"},
              usage |-> noted.usage + IF e.event = "completed" THEN 1 ELSE 0]

Takes(e) == StreamPassthrough(e) /\ CollectPassthrough(e) /\ Note(e)

-----------------------------------------------------------------------------
(* The backend *)

Writing == over = "no" /\ streamed # <<>>

Whole(p) == Len(parts[p]) = PartLength

Asked(chunks) == Text(chunks, "asked")

Creates ==
    /\ streamed = <<>> /\ over = "no"
    /\ Takes(Event("created", <<>>))
    /\ UNCHANGED <<held, parts, announced, over>>

\* The next chunk of the last part, or the first of another.
Says ==
    LET n == Len(parts)
        begin == n = 0 \/ announced = n
        chunk == IF begin THEN <<n + 1, 1>> ELSE <<n, Len(parts[n]) + 1>>
    IN
    /\ Writing
    /\ IF begin THEN n < MaxParts ELSE ~Whole(n)
    /\ parts' = IF begin THEN Append(parts, <<chunk>>) ELSE [parts EXCEPT ![n] = Append(@, chunk)]
    /\ Takes(Event("delta", <<Asked(<<chunk>>)>>))
    /\ UNCHANGED <<held, announced, over>>

PartDone ==
    /\ Writing /\ announced < Len(parts) /\ Whole(Len(parts))
    /\ announced' = announced + 1
    /\ Takes(Event("done", <<Asked(Last(parts))>>))
    /\ UNCHANGED <<held, parts, over>>

\* A response is completed after its last part; it may stop or break anywhere.
ResponseOver(event) ==
    /\ Writing
    /\ event = "completed" => announced = Len(parts)
    /\ over' = event
    /\ IF event = "closed"
       THEN /\ CollectPassthrough(Event(event, <<>>))
            /\ UNCHANGED <<streamed, tupleTextBuffer, noted>>
       ELSE Takes(Event(event, [p \in DOMAIN parts |-> Asked(parts[p])]))
    /\ UNCHANGED <<held, parts, announced>>

PassInit ==
    /\ held \in BOOLEAN
    /\ parts = <<>> /\ announced = 0 /\ over = "no"
    /\ streamed = <<>> /\ tupleTextBuffer = <<>> /\ assembled = Pending
    /\ noted = [id |-> FALSE, usage |-> 0]

PassNext ==
    \/ Creates \/ Says \/ PartDone
    \/ \E event \in {"completed", "incomplete", "failed", "closed"} : ResponseOver(event)

PassSpec == PassInit /\ [][PassNext]_passVars

-----------------------------------------------------------------------------
(* Properties *)

Forms(texts) == {texts[i].form : i \in DOMAIN texts}

\* The deltas the client got, and the places of the chunks in them.
Deltas == {i \in DOMAIN streamed : streamed[i].event = "delta"}
SentForms == {streamed[i].texts[1].form : i \in Deltas}
Sent == UNION {{i} \X DOMAIN streamed[i].texts[1].chunks : i \in Deltas}
ChunkAt(s) == streamed[s[1]].texts[1].chunks[s[2]]

Given == UNION {ToSet(parts[p]) : p \in DOMAIN parts}

\* Of chunks and of places: in the parts, or events, one after the other.
Earlier(a, b) == a[1] < b[1] \/ (a[1] = b[1] /\ a[2] < b[2])

\* The deltas are all the text that was written, each chunk once, in order.
TextSent ==
    /\ {ChunkAt(s) : s \in Sent} = Given
    /\ \A s, t \in Sent : Earlier(s, t) => Earlier(ChunkAt(s), ChunkAt(t))

\* Events and answers are of their kinds, and usage counts at most once.
PassTypeOK ==
    /\ over \in {"no", "completed", "incomplete", "failed", "closed"}
    /\ announced \in 0 .. Len(parts) /\ Len(parts) <= MaxParts
    /\ tupleTextBuffer # <<>> => held
    /\ noted.usage \in {0, 1}
    /\ streamed # <<>> => streamed[1].event = "created"

\* Of a completed answer the client gets all the text, in order, from the deltas as from
\* the completed event, and the same that a client gets who did not stream; the tuples of
\* an answer of one part are arrays in all three.
AnswersAgree ==
    over = "completed" =>
        LET final == Last(streamed).texts IN
        /\ TextSent /\ assembled = final
        /\ [i \in DOMAIN final |-> final[i].chunks] = parts
        /\ held /\ parts # <<>> => Forms(final) = {"restored"}
        /\ held /\ Len(parts) = 1 => SentForms = {"restored"}

\* The text of a stream that has tuples "arrives at once after response.completed"
\* (responses.ts:42), that of a response that ends otherwise too: it does not, what was
\* held back is lost.
NothingHeldBack == over # "no" => TextSent

\* A client sees one text: what output_text.done says is what the delta says.
DoneAgrees ==
    over = "completed" /\ Len(parts) = 1 =>
        \A i \in DOMAIN streamed :
            streamed[i].event = "done" => Forms(streamed[i].texts) = SentForms
=============================================================================
