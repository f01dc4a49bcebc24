------------------------------- MODULE CookieJar -------------------------------
(***************************************************************************)
(* The cookies of each account and cookies.json (src/proxy/cookie-jar.ts). *)
(*                                                                         *)
(* Every response may change cookies; a change is written a second later,  *)
(* one of a critical cookie at once.  persistAsync takes its snapshot, then *)
(* opens (which truncates), writes and renames cookies.json.tmp in three   *)
(* awaits, and two calls of it share that one temporary file.  A file that *)
(* is open when it is renamed or replaced goes on being written: a writer  *)
(* knows its file by where it is now.                                      *)
(*                                                                         *)
(* A write that fails is logged and forgotten: the timer is cancelled, and *)
(* nothing but a later change writes what it was to write.                 *)
(*                                                                         *)
(* Left out: the text of headers; a Set-Cookie is a name, a value, an      *)
(* expiry.  Bounds: MaxTime ticks, the Writers, MaxStarts starts.          *)
(***************************************************************************)
EXTENDS Integers, Sequences, FiniteSets, Functions

CONSTANTS
    CookieAccount, CookieName, CookieValue,
    Critical,     \* CRITICAL_COOKIES
    Writer,       \* calls of persistAsync that may be under way together
    MaxTime, MaxStarts,
    ExpiryTime

ASSUME CookieAssumption ==
    MaxTime \in Nat /\ MaxStarts \in Nat /\ ExpiryTime \subseteq 0 .. MaxTime

VARIABLES
    jar,          \* CookieJar.cookies: account -> name -> cookie
    persistTimer, \* CookieJar.persistTimer is set
    writers,      \* persistAsync calls under way
    tmp, file,    \* cookies.json.tmp, cookies.json
    now,          \* Date.now()
    up,           \* the process runs; after destroy() it only ends its writes
    starts,
    taken,        \* history: the jar of the last snapshot, or as loaded
    unrepaired    \* history: two persists overlapped or one failed, and none has run
                  \* alone to its end since

cookieVars == <<jar, persistTimer, writers, tmp, file, now, up, starts, taken, unrepaired>>

NoExpiry == MaxTime + 1

Cookie == [value : CookieValue, expires : ExpiryTime \cup {NoExpiry}]

PartialFunctions(S, T) == UNION {[D -> T] : D \in SUBSET S}

Jar == PartialFunctions(CookieAccount, PartialFunctions(CookieName, Cookie))

NoCookies == <<>>

\* What a file holds: nothing yet, a mixture of two documents, or one document.
Document(j) == [is |-> "document", of |-> j]
Missing == [is |-> "missing", of |-> NoCookies]
Emptied == [is |-> "empty", of |-> NoCookies]
Mixed == [is |-> "mixed", of |-> NoCookies]

Content == {Missing, Emptied, Mixed} \cup {Document(j) : j \in Jar}

\* A writer's file is where cookies.json.tmp or cookies.json is, or replaced since.
WriterState == [stage : {"idle", "opening", "writing", "renaming"}, doc : Jar,
                at : {"nowhere", "tmp", "file", "replaced"}, alone : BOOLEAN]

Idle == [stage |-> "idle", doc |-> NoCookies, at |-> "nowhere", alone |-> TRUE]

Busy == {w \in Writer : writers[w].stage # "idle"}

CookiesOf(a) == IF a \in DOMAIN jar THEN jar[a] ELSE NoCookies

With(f, x, y) == [z \in DOMAIN f \cup {x} |-> IF z = x THEN y ELSE f[z]]

Live(c) == c.expires > now

-----------------------------------------------------------------------------
(* The three steps of persistAsync *)

Expect(j) == /\ jar' = j
             /\ persistTimer' = TRUE
             /\ UNCHANGED <<writers, taken, unrepaired>>

\* The snapshot is taken and the timer cancelled before the first await.
Persist(j) ==
    \E w \in Writer \ Busy :
        /\ writers' = [v \in Writer |->
                IF v = w THEN [stage |-> "opening", doc |-> j, at |-> "nowhere",
                               alone |-> Busy = {}]
                ELSE IF v \in Busy THEN [writers[v] EXCEPT !.alone = FALSE]
                ELSE Idle]
        /\ persistTimer' = FALSE
        /\ taken' = j
        /\ unrepaired' = (unrepaired \/ Busy # {})

OpenTmp(w) ==
    /\ writers[w].stage = "opening"
    /\ tmp' = Emptied
    /\ writers' = [writers EXCEPT ![w].stage = "writing", ![w].at = "tmp"]
    /\ UNCHANGED <<jar, persistTimer, file, now, up, starts, taken, unrepaired>>

\* A document written over a longer one leaves the longer one's end.
Written(content, doc) ==
    IF content.is = "empty" THEN {Document(doc)}
    ELSE IF content = Document(doc) THEN {content}
    ELSE {Document(doc), Mixed}

WriteTmp(w) ==
    LET at == writers[w].at
    IN  /\ writers[w].stage = "writing"
        /\ tmp' \in IF at = "tmp" THEN Written(tmp, writers[w].doc) ELSE {tmp}
        /\ file' \in IF at = "file" THEN Written(file, writers[w].doc) ELSE {file}
        /\ writers' = [writers EXCEPT ![w].stage = "renaming"]
        /\ UNCHANGED <<jar, persistTimer, now, up, starts, taken, unrepaired>>

\* Where the open files of the writers W are once tmp is renamed.
Moved(W) ==
    [v \in Writer |->
        [W[v] EXCEPT !.at = IF @ = "tmp" THEN "file" ELSE IF @ = "file" THEN "replaced" ELSE @]]

\* Without a tmp to rename the call fails, and is only logged.
RenameTmp(w) ==
    /\ writers[w].stage = "renaming"
    /\ unrepaired' = (unrepaired /\ ~writers[w].alone)
    /\ IF tmp = Missing
       THEN /\ writers' = [writers EXCEPT ![w] = Idle]
            /\ UNCHANGED <<tmp, file>>
       ELSE /\ writers' = Moved([writers EXCEPT ![w] = Idle])
            /\ file' = tmp /\ tmp' = Missing
    /\ UNCHANGED <<jar, persistTimer, now, up, starts, taken>>

\* What a write that fails midway leaves of a content.
CutShort(content) == {content, Mixed}

\* The catch blocks: a directory, an open, a write or a rename that fails ends the call.
PersistFails(w) ==
    LET at == IF writers[w].stage = "writing" THEN writers[w].at ELSE "nowhere"
    IN  /\ w \in Busy
        /\ tmp' \in IF at = "tmp" THEN CutShort(tmp) ELSE {tmp}
        /\ file' \in IF at = "file" THEN CutShort(file) ELSE {file}
        /\ writers' = [writers EXCEPT ![w] = Idle]
        /\ unrepaired' = TRUE
        /\ UNCHANGED <<jar, persistTimer, now, up, starts, taken>>

PersistTimerFires ==
    /\ up /\ persistTimer
    /\ UNCHANGED jar
    /\ Persist(jar)
    /\ UNCHANGED <<tmp, file, now, up, starts>>

-----------------------------------------------------------------------------
(* Changes of the jar *)

Changes(old, n, c) == n \in DOMAIN old => old[n] # c

\* Set-Cookie without expiry, or with one (in the past: it deletes the cookie).
Expiries == ExpiryTime \cup {NoExpiry}

\* Mutant: a change of a critical cookie leaves the timer set by an earlier one alone,
\* and another change sets none.
CaptureOnlyCritical(a, n, v, e) ==
    LET c == [value |-> v, expires |-> e]
    IN  /\ up
        /\ Changes(CookiesOf(a), n, c)
        /\ jar' = With(jar, a, With(CookiesOf(a), n, c))
        /\ IF n \in Critical THEN Persist(jar')
           ELSE UNCHANGED <<persistTimer, writers, taken, unrepaired>>
        /\ UNCHANGED <<tmp, file, now, up, starts>>

\* captureRaw.  An account that was deleted meanwhile gets a record again.
Capture(a, n, v, e) ==
    LET c == [value |-> v, expires |-> e]
    IN  /\ up
        /\ Changes(CookiesOf(a), n, c)
        /\ jar' = With(jar, a, With(CookiesOf(a), n, c))
        /\ IF n \in Critical THEN Persist(jar') ELSE Expect(jar')
        /\ UNCHANGED <<tmp, file, now, up, starts>>

\* set: the operator's cookies never expire.
SetCookie(a, n, v) ==
    /\ up
    /\ Expect(With(jar, a, With(CookiesOf(a), n, [value |-> v, expires |-> NoExpiry])))
    /\ UNCHANGED <<tmp, file, now, up, starts>>

\* clear, when the account is deleted.
Clear(a) ==
    /\ up /\ a \in DOMAIN jar
    /\ Expect(Restrict(jar, DOMAIN jar \ {a}))
    /\ UNCHANGED <<tmp, file, now, up, starts>>

Unexpired(j) == [a \in DOMAIN j |-> Restrict(j[a], {n \in DOMAIN j[a] : Live(j[a][n])})]

CleanupExpired ==
    /\ up /\ Unexpired(jar) # jar
    /\ Expect(Unexpired(jar))
    /\ UNCHANGED <<tmp, file, now, up, starts>>

Tick ==
    /\ now < MaxTime
    /\ now' = now + 1
    /\ UNCHANGED <<jar, persistTimer, writers, tmp, file, up, starts, taken, unrepaired>>

-----------------------------------------------------------------------------
(* Stop and start *)

\* destroy: persistNow writes and renames in one step, between those of the others.
Destroy ==
    /\ up
    /\ up' = FALSE /\ persistTimer' = FALSE
    /\ taken' = jar
    /\ writers' = Moved([w \in Writer |-> IF w \in Busy THEN [writers[w] EXCEPT !.alone = FALSE]
                                           ELSE Idle])
    /\ file' = Document(jar) /\ tmp' = Missing
    /\ unrepaired' = (Busy # {})
    /\ UNCHANGED <<jar, now, starts>>

\* persistNow fails before or in its write, or at the rename; the process ends the same.
DestroyFails ==
    /\ up
    /\ up' = FALSE /\ persistTimer' = FALSE
    /\ taken' = jar
    /\ tmp' \in {tmp, Emptied, Mixed, Document(jar)}
    /\ writers' = [w \in Writer |-> IF w \in Busy THEN [writers[w] EXCEPT !.alone = FALSE]
                                     ELSE Idle]
    /\ unrepaired' = TRUE
    /\ UNCHANGED <<jar, file, now, starts>>

\* A killed or an ended process starts again; a file that does not parse is ignored.
Start ==
    LET loaded == IF file.is = "document" THEN file.of ELSE NoCookies
    IN  /\ starts < MaxStarts
        /\ up' = TRUE
        /\ jar' = Unexpired(loaded)
        /\ persistTimer' = (jar' # loaded)
        /\ taken' = loaded
        /\ writers' = [w \in Writer |-> Idle]
        /\ starts' = starts + 1
        /\ UNCHANGED <<tmp, file, now, unrepaired>>

CookieInit ==
    /\ jar = NoCookies /\ taken = NoCookies
    /\ persistTimer = FALSE /\ up = TRUE /\ unrepaired = FALSE
    /\ writers = [w \in Writer |-> Idle]
    /\ tmp = Missing /\ file = Missing
    /\ now = 0 /\ starts = 0

CookieNext ==
    \/ \E a \in CookieAccount, n \in CookieName, v \in CookieValue :
           SetCookie(a, n, v) \/ \E e \in Expiries : Capture(a, n, v, e)
    \/ \E a \in CookieAccount : Clear(a)
    \/ \E w \in Writer : OpenTmp(w) \/ WriteTmp(w) \/ RenameTmp(w) \/ PersistFails(w)
    \/ PersistTimerFires \/ CleanupExpired \/ Tick \/ Destroy \/ DestroyFails \/ Start

CookieSpec == CookieInit /\ [][CookieNext]_cookieVars

-----------------------------------------------------------------------------
(* Properties *)

\* Every variable keeps its type.
CookieTypeOK ==
    /\ jar \in Jar /\ taken \in Jar
    /\ persistTimer \in BOOLEAN /\ up \in BOOLEAN /\ unrepaired \in BOOLEAN
    /\ writers \in [Writer -> WriterState]
    /\ {tmp, file} \subseteq Content
    /\ now \in 0 .. MaxTime /\ starts \in 0 .. MaxStarts

\* Every change of the jar is in the last snapshot or will be in the timer's, whatever
\* cancelled the timer and whichever change came between.
EveryChangeTaken == up /\ ~persistTimer => taken = jar

\* While no two persists overlap and none fails, cookies.json is whole at every moment a
\* crash may come, and with no write due or under way it is the jar.  After some
\* overlapped, or one failed, the first that runs alone and does not fail repairs the
\* file; only a change of the jar brings that one about.
RepairedWhenAlone ==
    ~unrepaired =>
        /\ file.is \in {"missing", "document"}
        /\ up /\ ~persistTimer /\ Busy = {} => file.of = jar

\* What the cookie jar keeps to over overlapping and failing writes, crashes, expiries.
JarKept == CookieTypeOK /\ EveryChangeTaken /\ RepairedWhenAlone

\* The atomic writing CHANGELOG.md:315 counts on: cookies.json is whole always.
CookieFileWhole == file.is \in {"missing", "document"}

\* cookie-jar.ts:244: persistNow "ensures data is flushed before exit".
FlushedBeforeExit == ~up /\ Busy = {} => file.is = "document" /\ file.of = jar
=============================================================================
