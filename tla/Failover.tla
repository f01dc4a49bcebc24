-------------------------------- MODULE Failover --------------------------------
(***************************************************************************)
(* What the failover of handleProxyRequest promises of a request, whatever *)
(* becomes of the pool meanwhile: one account at a time works for it;      *)
(* until an answer has begun another may take over, none of them twice;    *)
(* once it has, the client is not given a mixture of two: at most an       *)
(* answer that turns out empty is asked for again, MaxEmptyRetries times.  *)
(* ProxyHandler, which has the pool, implements it.                        *)
(***************************************************************************)
EXTENDS Integers, FiniteSets

CONSTANTS Account, Request, None, MaxEmptyRetries

VARIABLE course   \* how far each request has come

Unasked == [phase |-> "idle", at |-> None, tried |-> {}, retries |-> 0]
Answered == [phase |-> "done", at |-> None, tried |-> {}, retries |-> 0]

Goes(r, c) == course' = [course EXCEPT ![r] = c]

FailoverInit == course = [r \in Request |-> Unasked]

\* The first account.
Ask(r, a) ==
    /\ course[r].phase = "idle"
    /\ Goes(r, [phase |-> "sending", at |-> a, tried |-> {a}, retries |-> 0])

AskAnother(r, a) ==
    /\ course[r].phase = "sending"
    /\ a \notin course[r].tried
    /\ Goes(r, [course[r] EXCEPT !.at = a, !.tried = @ \cup {a}])

\* The answer begins; collected ones reach the client at their end only.
AnswerBegins(r, body) ==
    /\ course[r].phase = "sending"
    /\ Goes(r, [course[r] EXCEPT !.phase = body])

AskAgain(r, a) ==
    /\ course[r].phase = "collecting"
    /\ course[r].retries < MaxEmptyRetries
    /\ Goes(r, [course[r] EXCEPT !.at = a, !.retries = @ + 1])

\* Answered, in full or with an error: no account is left at work.
End(r) ==
    /\ course[r].phase # "done"
    /\ Goes(r, Answered)

FailoverNext ==
    \E r \in Request :
        \/ \E a \in Account : Ask(r, a) \/ AskAnother(r, a) \/ AskAgain(r, a)
        \/ \E body \in {"streaming", "collecting"} : AnswerBegins(r, body)
        \/ End(r)

FailoverSpec == FailoverInit /\ [][FailoverNext]_course

-----------------------------------------------------------------------------
(* Properties *)

\* How many more times a request may change its course.
StepsLeft(c) ==
    CASE c.phase = "done" -> 0
      [] c.phase \in {"idle", "sending"} ->
            Cardinality(Account) - Cardinality(c.tried) + MaxEmptyRetries + 2
      [] OTHER -> MaxEmptyRetries - c.retries + 1

\* The loop has no counter of its own, and needs none: whatever answers come, every step
\* of a request is one of a number that is known when it begins.
EveryStepCounts ==
    [][\A r \in Request :
        course'[r] # course[r] =>
            StepsLeft(course'[r]) \in 0 .. StepsLeft(course[r]) - 1]_course
=============================================================================
