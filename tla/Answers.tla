--------------------------------- MODULE Answers ---------------------------------
\* What comes back from the backend, in either way a client may have asked for it: in a
\* format of its own (Translation), or as it is (PassThrough).
EXTENDS Translation, PassThrough

\* What the backend answers reaches the client whole, translated to another format or passed
\* on, streamed or collected; arguments that a format has parsed, as what they parse to.
AnswersKept ==
    /\ TranslationTypeOK /\ PassTypeOK
    /\ ContentArrives /\ BlocksWellFormed /\ EmptyTold /\ AnswersAgree
==================================================================================
