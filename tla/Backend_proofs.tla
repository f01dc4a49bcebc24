------------------------------ MODULE Backend_proofs ------------------------------
(***************************************************************************)
(* Theorems about the way to the backend and back, for every value of the  *)
(* constants.  Egress: cookies.json over overlapping writes, crashes and   *)
(* expiries; the assignments, the file and the round robin of the proxies. *)
(* Answers: a response that completed reaches its client whole, passed on  *)
(* as it is or translated to another format, streamed or collected.        *)
(* Requests: a conversation reaches the backend whole and in its order.    *)
(***************************************************************************)
EXTENDS MCEgress, Answers, RequestTranslation, FiniteSetTheorems, SequenceTheorems,
        NaturalsInduction, WellFoundedInduction, TLAPS

-----------------------------------------------------------------------------
(* Maps from names to cookies and from accounts to such maps *)

LEMMA PartialFunction ==
    ASSUME NEW S, NEW T, NEW f
    PROVE  f \in PartialFunctions(S, T)
             <=> \E D \in SUBSET S : f \in [D -> T]
BY DEF PartialFunctions

LEMMA EmptyTyped ==
    ASSUME NEW S, NEW T
    PROVE  NoCookies \in PartialFunctions(S, T)
<1>1. NoCookies \in [{} -> T]
  BY DEF NoCookies
<1> QED  BY <1>1, PartialFunction

LEMMA WithTyped ==
    ASSUME NEW S, NEW T, NEW f \in PartialFunctions(S, T), NEW x \in S, NEW y \in T
    PROVE  With(f, x, y) \in PartialFunctions(S, T)
<1>1. PICK D \in SUBSET S : f \in [D -> T]
  BY PartialFunction
<1>2. With(f, x, y) \in [D \cup {x} -> T]
  BY <1>1 DEF With
<1> QED  BY <1>2, PartialFunction

LEMMA RestrictTyped ==
    ASSUME NEW S, NEW T, NEW f \in PartialFunctions(S, T), NEW D \in SUBSET DOMAIN f
    PROVE  Restrict(f, D) \in PartialFunctions(S, T)
<1>1. PICK E \in SUBSET S : f \in [E -> T]
  BY PartialFunction
<1>2. Restrict(f, D) \in [D -> T] /\ D \subseteq S
  BY <1>1 DEF Restrict
<1> QED  BY <1>2, PartialFunction

LEMMA CookiesTyped ==
    ASSUME jar \in Jar, NEW a \in CookieAccount
    PROVE  CookiesOf(a) \in PartialFunctions(CookieName, Cookie)
<1>1. PICK D \in SUBSET CookieAccount : jar \in [D -> PartialFunctions(CookieName, Cookie)]
  BY PartialFunction DEF Jar
<1> QED  BY <1>1, EmptyTyped DEF CookiesOf

LEMMA UnexpiredTyped ==
    ASSUME NEW j \in Jar
    PROVE  Unexpired(j) \in Jar
<1>1. PICK D \in SUBSET CookieAccount : j \in [D -> PartialFunctions(CookieName, Cookie)]
  BY PartialFunction DEF Jar
<1>2. \A a \in D : Restrict(j[a], {n \in DOMAIN j[a] : Live(j[a][n])})
                     \in PartialFunctions(CookieName, Cookie)
  BY <1>1, RestrictTyped
<1>3. Unexpired(j) \in [D -> PartialFunctions(CookieName, Cookie)]
  BY <1>1, <1>2 DEF Unexpired
<1> QED  BY <1>3, PartialFunction DEF Jar

LEMMA NewCookieTyped ==
    ASSUME jar \in Jar, NEW a \in CookieAccount, NEW n \in CookieName,
           NEW v \in CookieValue, NEW e \in Expiries
    PROVE  With(jar, a, With(CookiesOf(a), n, [value |-> v, expires |-> e])) \in Jar
<1>1. [value |-> v, expires |-> e] \in Cookie
  BY DEF Cookie, Expiries
<1>2. With(CookiesOf(a), n, [value |-> v, expires |-> e])
        \in PartialFunctions(CookieName, Cookie)
  BY <1>1, CookiesTyped, WithTyped
<1> QED  BY <1>2, WithTyped DEF Jar

-----------------------------------------------------------------------------
(* The cookie jar *)

\* A writer that is alone is the only one, holds what was last taken, and has
\* cookies.json.tmp to itself.
LoneWriter ==
    \A w \in Busy :
        writers[w].alone =>
            /\ Busy = {w}
            /\ writers[w].doc = taken
            /\ writers[w].stage = "writing" => writers[w].at = "tmp" /\ tmp = Emptied
            /\ writers[w].stage = "renaming" => writers[w].at = "tmp" /\ tmp = Document(taken)

\* As long as no two persists overlap, every writer is alone, and without one
\* cookies.json holds what was last taken.
FileIsTaken ==
    ~unrepaired =>
        /\ \A w \in Busy : writers[w].alone
        /\ file.is \in {"missing", "document"}
        /\ Busy = {} => file.of = taken

CookieInv == CookieTypeOK /\ EveryChangeTaken /\ LoneWriter /\ FileIsTaken

LEMMA Contents ==
    /\ \A j \in Jar : Document(j) \in Content /\ Document(j).is = "document" /\ Document(j).of = j
    /\ Missing \in Content /\ Missing.is = "missing" /\ Missing.of = NoCookies
    /\ Emptied \in Content /\ Emptied.is = "empty" /\ Mixed \in Content
    /\ \A c \in Content : /\ c.is \in {"missing", "empty", "mixed", "document"}
                          /\ c.of \in Jar
                          /\ c.is = "missing" => c.of = NoCookies
<1>1. NoCookies \in Jar
  BY EmptyTyped DEF Jar
<1>2. /\ \A j \in Jar : Document(j).is = "document" /\ Document(j).of = j
      /\ Missing.is = "missing" /\ Missing.of = NoCookies
      /\ Emptied.is = "empty" /\ Emptied.of = NoCookies
      /\ Mixed.is = "mixed" /\ Mixed.of = NoCookies
  BY DEF Document, Missing, Emptied, Mixed
<1>3. ASSUME NEW c \in Content
      PROVE  /\ c.is \in {"missing", "empty", "mixed", "document"}
             /\ c.of \in Jar
             /\ c.is = "missing" => c.of = NoCookies
  <2>1. CASE c \in {Missing, Emptied, Mixed}
    BY <1>1, <1>2, <2>1
  <2>2. CASE \E j \in Jar : c = Document(j)
    BY <1>2, <2>2
  <2> QED  BY <2>1, <2>2 DEF Content
<1> QED  BY <1>2, <1>3 DEF Content

LEMMA IdleTyped ==
    /\ Idle \in WriterState /\ Idle.stage = "idle" /\ NoCookies \in Jar
<1>1. NoCookies \in Jar
  BY EmptyTyped DEF Jar
<1> QED  BY <1>1 DEF Idle, WriterState

LEMMA CookieStarts == CookieInit => CookieInv
<1> SUFFICES ASSUME CookieInit PROVE CookieInv
  OBVIOUS
<1> USE DEF CookieInit
<1>1. Busy = {}
  BY IdleTyped DEF Busy
<1>2. CookieTypeOK
  <2>1. 0 \in 0 .. MaxTime /\ 0 \in 0 .. MaxStarts
    BY CookieAssumption
  <2>2. jar \in Jar /\ taken \in Jar /\ writers \in [Writer -> WriterState]
    BY IdleTyped
  <2>3. {tmp, file} \subseteq Content
    BY Contents
  <2> QED  BY <2>1, <2>2, <2>3 DEF CookieTypeOK
<1> QED  BY <1>1, <1>2, Contents DEF CookieInv, EveryChangeTaken, LoneWriter, FileIsTaken

\* A writer for what the jar becomes: alone, it is the only one; else nobody is alone.
LEMMA PersistKeeps ==
    ASSUME CookieInv, NEW j \in Jar, jar' = j, Persist(j), UNCHANGED <<tmp, file, now, up, starts>>
    PROVE  CookieInv'
<1> PICK w \in Writer \ Busy : Persist(j)!(w)
  BY DEF Persist
<1> DEFINE new == [stage |-> "opening", doc |-> j, at |-> "nowhere", alone |-> Busy = {}]
<1>1. new \in WriterState /\ new.stage = "opening" /\ new.doc = j /\ (new.alone <=> Busy = {})
  BY DEF WriterState
<1> HIDE DEF new
<1>2. \A v \in Busy : writers[v].stage # "idle" /\ writers[v] \in WriterState
                      /\ [writers[v] EXCEPT !.alone = FALSE] \in WriterState
                      /\ [writers[v] EXCEPT !.alone = FALSE].alone = FALSE
                      /\ [writers[v] EXCEPT !.alone = FALSE].stage # "idle"
  BY DEF CookieInv, CookieTypeOK, Busy, WriterState
<1>3. writers' = [v \in Writer |-> IF v = w THEN new
                                   ELSE IF v \in Busy THEN [writers[v] EXCEPT !.alone = FALSE]
                                   ELSE Idle]
  BY DEF new
<1>4. writers' \in [Writer -> WriterState] /\ Busy' = Busy \cup {w}
  <2>1. writers' \in [Writer -> WriterState]
    BY <1>1, <1>2, <1>3, IdleTyped
  <2>2. \A v \in Writer : writers'[v].stage # "idle" <=> v \in Busy \cup {w}
    BY <1>1, <1>2, <1>3, IdleTyped
  <2> QED  BY <2>1, <2>2 DEF Busy
<1>5. \A v \in Busy' : writers'[v].alone => Busy = {} /\ v = w
  <2>1. \A v \in Busy : ~writers'[v].alone
    BY <1>2, <1>3 DEF Busy
  <2>2. writers'[w] = new
    BY <1>3
  <2> QED  BY <1>1, <1>4, <2>1, <2>2
<1>6. writers'[w] = new
  BY <1>3
<1>7. CookieTypeOK'
  BY <1>4 DEF CookieInv, CookieTypeOK
<1>8. EveryChangeTaken' /\ LoneWriter'
  BY <1>1, <1>4, <1>5, <1>6 DEF EveryChangeTaken, LoneWriter
<1>9. FileIsTaken'
  BY <1>1, <1>4, <1>6 DEF CookieInv, FileIsTaken
<1> QED  BY <1>7, <1>8, <1>9 DEF CookieInv

\* A change that waits for the timer.
LEMMA ExpectKeeps ==
    ASSUME CookieInv, NEW j \in Jar, Expect(j), UNCHANGED <<tmp, file, now, up, starts>>
    PROVE  CookieInv'
BY DEF Expect, CookieInv, CookieTypeOK, EveryChangeTaken, LoneWriter, FileIsTaken, Busy

\* The temporary file is opened, which empties it.
LEMMA OpenKeeps ==
    ASSUME CookieInv, NEW w \in Writer, OpenTmp(w)
    PROVE  CookieInv'
<1> DEFINE new == [writers[w] EXCEPT !.stage = "writing", !.at = "tmp"]
<1>1. writers \in [Writer -> WriterState] /\ writers[w].stage = "opening"
  BY DEF CookieInv, CookieTypeOK, OpenTmp
<1>2. /\ new \in WriterState /\ new.stage = "writing" /\ new.at = "tmp"
      /\ new.doc = writers[w].doc /\ new.alone = writers[w].alone
  BY <1>1 DEF WriterState
<1>3. writers' = [writers EXCEPT ![w] = new]
  BY <1>1 DEF OpenTmp
<1> HIDE DEF new
<1>4. Busy' = Busy /\ w \in Busy
  BY <1>1, <1>2, <1>3 DEF Busy
<1>5. \A v \in Writer : writers'[v].alone = writers[v].alone /\ writers'[v].doc = writers[v].doc
  BY <1>1, <1>2, <1>3
<1>6. CookieTypeOK'
  BY <1>1, <1>2, <1>3, Contents DEF CookieInv, CookieTypeOK, OpenTmp
<1>7. \A v \in Busy : writers[v].alone => v = w
  BY <1>4 DEF CookieInv, LoneWriter
<1>8. LoneWriter'
  <2> SUFFICES ASSUME NEW v \in Busy, writers'[v].alone
               PROVE  /\ Busy = {v}
                      /\ writers'[v].doc = taken'
                      /\ writers'[v].stage = "writing" => writers'[v].at = "tmp" /\ tmp' = Emptied
                      /\ writers'[v].stage # "renaming"
    BY <1>4 DEF LoneWriter
  <2>1. writers[v].alone /\ v \in Writer
    BY <1>5 DEF Busy
  <2>2. v = w
    BY <1>7, <2>1
  <2>3. writers'[v] = new
    BY <1>1, <1>3, <2>2
  <2> QED
    BY <1>2, <2>1, <2>3, <1>5 DEF CookieInv, LoneWriter, OpenTmp
<1> QED
  BY <1>4, <1>5, <1>6, <1>8 DEF CookieInv, EveryChangeTaken, FileIsTaken, OpenTmp, Busy

LEMMA WrittenTyped ==
    ASSUME NEW c \in Content, NEW j \in Jar
    PROVE  /\ Written(c, j) \subseteq Content
           /\ c = Emptied => Written(c, j) = {Document(j)}
BY Contents DEF Written

\* What is written goes to where the writer's file is.
LEMMA WriteKeeps ==
    ASSUME CookieInv, NEW w \in Writer, WriteTmp(w)
    PROVE  CookieInv'
<1> DEFINE new == [writers[w] EXCEPT !.stage = "renaming"]
<1>1. writers \in [Writer -> WriterState] /\ writers[w].stage = "writing" /\ {tmp, file} \subseteq Content
  BY DEF CookieInv, CookieTypeOK, WriteTmp
<1>2. /\ new \in WriterState /\ new.stage = "renaming" /\ new.at = writers[w].at
      /\ new.doc = writers[w].doc /\ new.alone = writers[w].alone
  BY <1>1 DEF WriterState
<1>3. writers' = [writers EXCEPT ![w] = new]
  BY <1>1 DEF WriteTmp
<1> HIDE DEF new
<1>4. Busy' = Busy /\ w \in Busy
  BY <1>1, <1>2, <1>3 DEF Busy
<1>5. \A v \in Writer : writers'[v].alone = writers[v].alone /\ writers'[v].doc = writers[v].doc
  BY <1>1, <1>2, <1>3
<1>6. {tmp', file'} \subseteq Content
  <2>1. writers[w].doc \in Jar
    BY <1>1 DEF WriterState
  <2> QED  BY <1>1, <2>1, WrittenTyped DEF WriteTmp
<1>7. CookieTypeOK'
  BY <1>1, <1>2, <1>3, <1>6 DEF CookieInv, CookieTypeOK, WriteTmp
<1>8. \A v \in Busy : writers[v].alone => v = w
  BY <1>4 DEF CookieInv, LoneWriter
<1>9. writers[w].alone =>
        /\ Busy = {w} /\ writers[w].doc = taken /\ writers[w].at = "tmp"
        /\ tmp' = Document(taken) /\ file' = file
  <2> SUFFICES ASSUME writers[w].alone
               PROVE  /\ Busy = {w} /\ writers[w].doc = taken /\ writers[w].at = "tmp"
                      /\ tmp' = Document(taken) /\ file' = file
    OBVIOUS
  <2>1. /\ Busy = {w} /\ writers[w].doc = taken /\ writers[w].at = "tmp" /\ tmp = Emptied
    BY <1>1, <1>4 DEF CookieInv, LoneWriter
  <2>2. taken \in Jar
    BY DEF CookieInv, CookieTypeOK
  <2> QED  BY <1>1, <2>1, <2>2, WrittenTyped DEF WriteTmp
<1>10. LoneWriter'
  <2> SUFFICES ASSUME NEW v \in Busy, writers'[v].alone
               PROVE  /\ Busy = {v}
                      /\ writers'[v].doc = taken'
                      /\ writers'[v].stage # "writing"
                      /\ writers'[v].at = "tmp" /\ tmp' = Document(taken')
    BY <1>4 DEF LoneWriter
  <2>1. writers[v].alone /\ v \in Writer
    BY <1>5 DEF Busy
  <2>2. v = w
    BY <1>8, <2>1
  <2>3. writers'[v] = new
    BY <1>1, <1>3, <2>2
  <2> QED
    BY <1>2, <1>9, <2>1, <2>2, <2>3 DEF WriteTmp
<1>11. FileIsTaken'
  <2> SUFFICES ASSUME ~unrepaired
               PROVE  /\ \A v \in Busy : writers'[v].alone
                      /\ file'.is \in {"missing", "document"}
                      /\ Busy = {} => file'.of = taken'
    BY <1>4 DEF FileIsTaken, WriteTmp
  <2>1. /\ \A v \in Busy : writers[v].alone
        /\ file.is \in {"missing", "document"}
    BY DEF CookieInv, FileIsTaken
  <2> QED  BY <1>4, <1>5, <1>9, <2>1 DEF Busy
<1>12. EveryChangeTaken'
  BY DEF CookieInv, EveryChangeTaken, WriteTmp
<1> QED
  BY <1>7, <1>10, <1>11, <1>12 DEF CookieInv

\* Where open files are after a rename.
LEMMA MovedTyped ==
    ASSUME NEW W \in [Writer -> WriterState]
    PROVE  /\ Moved(W) \in [Writer -> WriterState]
           /\ \A v \in Writer : /\ Moved(W)[v].stage = W[v].stage
                                /\ Moved(W)[v].alone = W[v].alone
                                /\ Moved(W)[v].doc = W[v].doc
<1>1. \A v \in Writer : W[v] \in WriterState
  OBVIOUS
<1> QED  BY <1>1 DEF Moved, WriterState

\* A writer that was alone has repaired cookies.json when its call ends.
LEMMA RenameKeeps ==
    ASSUME CookieInv, NEW w \in Writer, RenameTmp(w)
    PROVE  CookieInv'
<1> DEFINE W == [writers EXCEPT ![w] = Idle]
<1>1. /\ writers \in [Writer -> WriterState] /\ writers[w].stage = "renaming" /\ w \in Busy
      /\ {tmp, file} \subseteq Content /\ taken \in Jar /\ Missing \in Content
  BY Contents DEF CookieInv, CookieTypeOK, RenameTmp, Busy
<1>2. /\ W \in [Writer -> WriterState] /\ W[w].stage = "idle"
      /\ \A v \in Writer \ {w} : W[v] = writers[v]
  BY <1>1, IdleTyped
<1> HIDE DEF W
<1>3. /\ writers' \in [Writer -> WriterState]
      /\ writers'[w].stage = "idle"
      /\ \A v \in Writer \ {w} : /\ writers'[v].stage = writers[v].stage
                                 /\ writers'[v].alone = writers[v].alone
  <2>1. writers' \in {W, Moved(W)}
    BY DEF RenameTmp, W
  <2> QED  BY <1>2, <2>1, MovedTyped
<1>4. Busy' = Busy \ {w}
  BY <1>1, <1>3 DEF Busy
<1>5. {tmp', file'} \subseteq Content
  BY <1>1 DEF RenameTmp
<1>6. CookieTypeOK'
  <2>1. unrepaired' \in BOOLEAN
    BY DEF RenameTmp
  <2> QED  BY <1>3, <1>5, <2>1 DEF CookieInv, CookieTypeOK, RenameTmp
<1>7. LoneWriter'
  <2>1. \A v \in Busy \ {w} : ~writers'[v].alone
    <3> SUFFICES ASSUME NEW v \in Busy \ {w} PROVE ~writers'[v].alone
      OBVIOUS
    <3>1. ~writers[v].alone
      BY <1>1 DEF CookieInv, LoneWriter
    <3> QED  BY <1>3, <3>1 DEF Busy
  <2> QED  BY <1>4, <2>1 DEF LoneWriter
<1>8. CASE writers[w].alone
  <2>1. /\ Busy = {w} /\ tmp = Document(taken)
    BY <1>1, <1>8 DEF CookieInv, LoneWriter
  <2>2. tmp # Missing
    BY <1>1, <2>1, Contents
  <2>3. file' = Document(taken) /\ taken' = taken /\ Busy' = {}
    BY <1>4, <2>1, <2>2 DEF RenameTmp
  <2> QED
    BY <1>1, <1>6, <1>7, <2>3, Contents DEF CookieInv, EveryChangeTaken, FileIsTaken, RenameTmp
<1>9. CASE ~writers[w].alone
  <2>1. unrepaired
    BY <1>1, <1>9 DEF CookieInv, FileIsTaken
  <2>2. unrepaired'
    BY <1>9, <2>1 DEF RenameTmp
  <2> QED
    BY <1>6, <1>7, <2>2 DEF CookieInv, EveryChangeTaken, FileIsTaken, RenameTmp
<1> QED  BY <1>8, <1>9

\* persistNow replaces the file between the steps of the others.
LEMMA DestroyKeeps ==
    ASSUME CookieInv, Destroy
    PROVE  CookieInv'
<1> DEFINE W == [w \in Writer |-> IF w \in Busy THEN [writers[w] EXCEPT !.alone = FALSE] ELSE Idle]
<1>1. writers \in [Writer -> WriterState] /\ jar \in Jar
  BY DEF CookieInv, CookieTypeOK
<1>2. \A w \in Writer : /\ W[w] \in WriterState
                        /\ w \in Busy => W[w].stage = writers[w].stage /\ ~W[w].alone
                        /\ w \notin Busy => W[w].stage = "idle"
  BY <1>1, IdleTyped DEF WriterState
<1>3. W \in [Writer -> WriterState] /\ writers' = Moved(W)
  BY <1>2 DEF Destroy
<1> HIDE DEF W
<1>4. /\ writers' \in [Writer -> WriterState]
      /\ Busy' = Busy
  BY <1>2, <1>3, MovedTyped DEF Busy
<1>5. \A v \in Busy : ~writers'[v].alone
  BY <1>2, <1>3, MovedTyped DEF Busy
<1>6. file' = Document(jar) /\ tmp' = Missing /\ taken' = jar /\ jar' = jar
  BY DEF Destroy
<1>7. CookieTypeOK'
  <2>1. {tmp', file'} \subseteq Content
    BY <1>1, <1>6, Contents
  <2>2. unrepaired' \in BOOLEAN /\ persistTimer' \in BOOLEAN /\ up' \in BOOLEAN
    BY DEF Destroy
  <2> QED  BY <1>1, <1>4, <1>6, <2>1, <2>2 DEF CookieInv, CookieTypeOK, Destroy
<1>8. LoneWriter' /\ EveryChangeTaken'
  BY <1>4, <1>5, <1>6 DEF LoneWriter, EveryChangeTaken
<1>9. FileIsTaken'
  BY <1>1, <1>4, <1>6, Contents DEF FileIsTaken, Destroy
<1> QED  BY <1>7, <1>8, <1>9 DEF CookieInv

\* A start takes the file for the jar; one that is no document it ignores.
LEMMA StartKeeps ==
    ASSUME CookieInv, Start
    PROVE  CookieInv'
<1> DEFINE loaded == IF file.is = "document" THEN file.of ELSE NoCookies
<1>1. file \in Content /\ tmp \in Content
  BY DEF CookieInv, CookieTypeOK
<1>2. loaded \in Jar
  BY <1>1, Contents, IdleTyped
<1>3. jar' \in Jar /\ taken' = loaded
  BY <1>2, UnexpiredTyped DEF Start
<1>4. writers' \in [Writer -> WriterState] /\ Busy' = {}
  BY IdleTyped DEF Start, Busy
<1>5. starts' \in 0 .. MaxStarts
  BY CookieAssumption DEF CookieInv, CookieTypeOK, Start
<1>6. CookieTypeOK'
  <2>1. persistTimer' \in BOOLEAN /\ up' \in BOOLEAN
    BY DEF Start
  <2> QED  BY <1>2, <1>3, <1>4, <1>5, <2>1 DEF CookieInv, CookieTypeOK, Start
<1>7. EveryChangeTaken' /\ LoneWriter'
  BY <1>3, <1>4 DEF EveryChangeTaken, LoneWriter, Start
<1>8. FileIsTaken'
  <2> SUFFICES ASSUME ~unrepaired
               PROVE  file.is \in {"missing", "document"} /\ file.of = taken'
    BY <1>4 DEF FileIsTaken, Start
  <2>1. file.is \in {"missing", "document"}
    BY DEF CookieInv, FileIsTaken
  <2> QED  BY <1>1, <1>3, <2>1, Contents
<1> QED  BY <1>6, <1>7, <1>8 DEF CookieInv

\* A write that fails leaves nobody alone and the file to be repaired.
LEMMA PersistFailsKeeps ==
    ASSUME CookieInv, NEW w \in Writer, PersistFails(w)
    PROVE  CookieInv'
<1>1. /\ writers \in [Writer -> WriterState] /\ {tmp, file} \subseteq Content
      /\ w \in Busy /\ Mixed \in Content
  BY Contents DEF CookieInv, CookieTypeOK, PersistFails
<1>2. /\ writers' \in [Writer -> WriterState] /\ writers'[w].stage = "idle"
      /\ \A v \in Writer \ {w} : writers'[v] = writers[v]
  BY <1>1, IdleTyped DEF PersistFails
<1>3. {tmp', file'} \subseteq Content
  BY <1>1 DEF PersistFails, CutShort
<1>4. CookieTypeOK'
  BY <1>2, <1>3 DEF CookieInv, CookieTypeOK, PersistFails
<1>5. Busy' = Busy \ {w}
  BY <1>1, <1>2 DEF Busy
<1>6. LoneWriter'
  <2> SUFFICES ASSUME NEW v \in Busy \ {w} PROVE ~writers'[v].alone
    BY <1>5 DEF LoneWriter
  <2>1. ~writers[v].alone
    BY <1>1 DEF CookieInv, LoneWriter
  <2> QED  BY <1>2, <2>1 DEF Busy
<1> QED
  BY <1>4, <1>6 DEF CookieInv, EveryChangeTaken, FileIsTaken, PersistFails

\* So does persistNow when it fails.
LEMMA DestroyFailsKeeps ==
    ASSUME CookieInv, DestroyFails
    PROVE  CookieInv'
<1>1. writers \in [Writer -> WriterState] /\ jar \in Jar /\ {tmp, file} \subseteq Content
  BY DEF CookieInv, CookieTypeOK
<1>2. \A w \in Writer : [writers[w] EXCEPT !.alone = FALSE] \in WriterState
                        /\ [writers[w] EXCEPT !.alone = FALSE].alone = FALSE
  BY <1>1 DEF WriterState
<1>3. /\ writers' \in [Writer -> WriterState]
      /\ \A v \in Writer : writers'[v].alone => writers'[v].stage = "idle"
  BY <1>2, IdleTyped DEF DestroyFails
<1>4. {tmp', file'} \subseteq Content
  BY <1>1, Contents DEF DestroyFails
<1>5. CookieTypeOK'
  BY <1>1, <1>3, <1>4 DEF CookieInv, CookieTypeOK, DestroyFails
<1>6. LoneWriter'
  BY <1>3 DEF LoneWriter, Busy
<1> QED
  BY <1>5, <1>6 DEF CookieInv, EveryChangeTaken, FileIsTaken, DestroyFails

LEMMA CookieStepKeeps == CookieInv /\ [CookieNext]_cookieVars => CookieInv'
<1> SUFFICES ASSUME CookieInv, [CookieNext]_cookieVars PROVE CookieInv'
  OBVIOUS
<1>1. jar \in Jar
  BY DEF CookieInv, CookieTypeOK
<1>2. ASSUME NEW a \in CookieAccount, NEW n \in CookieName, NEW v \in CookieValue, SetCookie(a, n, v)
      PROVE  CookieInv'
  <2>1. NoExpiry \in Expiries
    BY DEF Expiries
  <2>2. With(jar, a, With(CookiesOf(a), n, [value |-> v, expires |-> NoExpiry])) \in Jar
    BY <1>1, <2>1, NewCookieTyped
  <2> QED  BY <1>2, <2>2, ExpectKeeps DEF SetCookie
<1>3. ASSUME NEW a \in CookieAccount, NEW n \in CookieName, NEW v \in CookieValue,
             NEW e \in Expiries, Capture(a, n, v, e)
      PROVE  CookieInv'
  <2>1. jar' \in Jar
    BY <1>1, <1>3, NewCookieTyped DEF Capture
  <2>2. CASE n \in Critical
    <3>1. Persist(jar') /\ UNCHANGED <<tmp, file, now, up, starts>>
      BY <1>3, <2>2 DEF Capture
    <3> DEFINE j == jar'
    <3>2. j \in Jar /\ jar' = j /\ Persist(j)
      BY <2>1, <3>1
    <3> HIDE DEF j
    <3> QED  BY <3>1, <3>2, PersistKeeps
  <2>3. CASE n \notin Critical
    <3>1. Expect(jar') /\ UNCHANGED <<tmp, file, now, up, starts>>
      BY <1>3, <2>3 DEF Capture
    <3> DEFINE j == jar'
    <3>2. j \in Jar /\ Expect(j)
      BY <2>1, <3>1
    <3> HIDE DEF j
    <3> QED  BY <3>1, <3>2, ExpectKeeps
  <2> QED  BY <2>2, <2>3
<1>4. ASSUME NEW a \in CookieAccount, Clear(a)
      PROVE  CookieInv'
  <2>1. Restrict(jar, DOMAIN jar \ {a}) \in Jar
    BY <1>1, RestrictTyped DEF Jar
  <2> QED  BY <1>4, <2>1, ExpectKeeps DEF Clear
<1>5. ASSUME PersistTimerFires
      PROVE  CookieInv'
  BY <1>1, <1>5, PersistKeeps DEF PersistTimerFires
<1>6. ASSUME CleanupExpired
      PROVE  CookieInv'
  BY <1>1, <1>6, UnexpiredTyped, ExpectKeeps DEF CleanupExpired
<1>7. ASSUME Tick
      PROVE  CookieInv'
  <2>1. now' \in 0 .. MaxTime
    BY <1>7, CookieAssumption DEF Tick, CookieInv, CookieTypeOK
  <2> QED
    BY <1>7, <2>1 DEF Tick, CookieInv, CookieTypeOK, EveryChangeTaken, LoneWriter, FileIsTaken, Busy
<1>8. ASSUME UNCHANGED cookieVars
      PROVE  CookieInv'
  BY <1>8 DEF cookieVars, CookieInv, CookieTypeOK, EveryChangeTaken, LoneWriter, FileIsTaken, Busy
<1> QED
  BY <1>2, <1>3, <1>4, <1>5, <1>6, <1>7, <1>8, OpenKeeps, WriteKeeps, RenameKeeps,
     PersistFailsKeeps, DestroyKeeps, DestroyFailsKeeps, StartKeeps DEF CookieNext

\* However writes of the cookies overlap, fail, are cut short by a crash or find the jar
\* changed: every change is in the last snapshot or the timer will take it, and unless
\* writes overlapped or failed cookies.json is whole and catches up; after some did, the
\* first that runs alone and does not fail repairs it.
THEOREM CookieTheorem == CookieSpec => []JarKept
<1>1. CookieSpec => []CookieInv
  BY CookieStarts, CookieStepKeeps, PTL DEF CookieSpec
<1>2. CookieInv => JarKept
  BY DEF CookieInv, EveryChangeTaken, FileIsTaken, RepairedWhenAlone, JarKept
<1> QED  BY <1>1, <1>2, PTL

-----------------------------------------------------------------------------
(* Places in a sequence *)

\* What RemoveAt leaves.
LEMMA RemovedAt ==
    ASSUME NEW S, NEW s \in Seq(S), NEW i \in 1 .. Len(s)
    PROVE  /\ RemoveAt(s, i) \in Seq(S)
           /\ Len(RemoveAt(s, i)) = Len(s) - 1
           /\ \A j \in 1 .. Len(s) - 1 : RemoveAt(s, i)[j] = IF j < i THEN s[j] ELSE s[j + 1]
<1> DEFINE left == SubSeq(s, 1, i - 1)
           right == SubSeq(s, i + 1, Len(s))
           n == Len(s)
<1>1. n \in Nat /\ i \in 1 .. n
  OBVIOUS
<1>2. /\ left \in Seq(S) /\ Len(left) = i - 1
      /\ \A j \in 1 .. i - 1 : left[j] = s[j]
  OBVIOUS
<1>3. /\ right \in Seq(S) /\ Len(right) = n - i
      /\ \A j \in 1 .. n - i : right[j] = s[i + j]
  OBVIOUS
<1>4. RemoveAt(s, i) = left \o right
  BY DEF RemoveAt
<1> HIDE DEF left, right
<1>5. /\ left \o right \in Seq(S)
      /\ Len(left \o right) = n - 1
      /\ \A j \in 1 .. n - 1 : (left \o right)[j] = IF j < i THEN left[j] ELSE right[j - (i - 1)]
  <2>1. /\ left \o right \in Seq(S)
        /\ Len(left \o right) = Len(left) + Len(right)
        /\ \A j \in 1 .. Len(left) + Len(right) :
              (left \o right)[j] = IF j <= Len(left) THEN left[j] ELSE right[j - Len(left)]
    BY <1>2, <1>3, ConcatProperties
  <2>2. Len(left) + Len(right) = n - 1 /\ Len(left) = i - 1
    BY <1>1, <1>2, <1>3
  <2> HIDE DEF n
  <2>3. \A j \in 1 .. n - 1 : j <= i - 1 <=> j < i
    BY <1>1
  <2> QED  BY <2>1, <2>2, <2>3
<1>6. \A j \in 1 .. n - 1 : (left \o right)[j] = IF j < i THEN s[j] ELSE s[j + 1]
  <2> SUFFICES ASSUME NEW j \in 1 .. n - 1
               PROVE  (left \o right)[j] = IF j < i THEN s[j] ELSE s[j + 1]
    OBVIOUS
  <2>1. CASE j < i
    BY <1>1, <1>2, <1>5, <2>1
  <2>2. CASE ~(j < i)
    <3> DEFINE m == j - (i - 1)
    <3>1. m \in 1 .. n - i /\ i + m = j + 1
      BY <1>1, <2>2
    <3> QED  BY <1>1, <1>3, <1>5, <2>2, <3>1
  <2> QED  BY <2>1, <2>2
<1> QED  BY <1>4, <1>5, <1>6

\* A remainder is what is left of a smaller number, and none of the number itself.
LEMMA Remainder ==
    ASSUME NEW x \in Nat, NEW n \in Nat \ {0}
    PROVE  /\ x % n \in 0 .. n - 1
           /\ x < n => x % n = x
           /\ x = n => x % n = 0
OBVIOUS

\* Every rank up to the size of a finite set of numbers is that of a member.
LEMMA Ranks ==
    ASSUME NEW S \in SUBSET Nat, IsFiniteSet(S), NEW k \in 1 .. Cardinality(S)
    PROVE  \E i \in S : Cardinality({j \in S : j <= i}) = k
<1> DEFINE UpTo(i) == {j \in S : j <= i}
           rank == [i \in S |-> Cardinality(UpTo(i))]
           n == Cardinality(S)
<1>1. n \in Nat
  BY FS_CardinalityType
<1>2. \A i \in S : IsFiniteSet(UpTo(i)) /\ Cardinality(UpTo(i)) \in 1 .. n
  <2> SUFFICES ASSUME NEW i \in S PROVE IsFiniteSet(UpTo(i)) /\ Cardinality(UpTo(i)) \in 1 .. n
    OBVIOUS
  <2>1. UpTo(i) \in SUBSET S /\ i \in UpTo(i)
    OBVIOUS
  <2>2. IsFiniteSet(UpTo(i)) /\ Cardinality(UpTo(i)) <= n
    BY <2>1, FS_Subset
  <2>3. Cardinality(UpTo(i)) \in Nat /\ Cardinality(UpTo(i)) # 0
    BY <2>1, <2>2, FS_CardinalityType, FS_EmptySet
  <2> QED  BY <1>1, <2>2, <2>3
<1>3. \A i, j \in S : i < j => Cardinality(UpTo(i)) < Cardinality(UpTo(j))
  <2> SUFFICES ASSUME NEW i \in S, NEW j \in S, i < j
               PROVE  Cardinality(UpTo(i)) < Cardinality(UpTo(j))
    OBVIOUS
  <2>1. UpTo(i) \in SUBSET UpTo(j) /\ j \in UpTo(j) /\ j \notin UpTo(i)
    <3>1. i \in Nat /\ j \in Nat /\ ~(j <= i) /\ j <= j
      OBVIOUS
    <3>2. \A m \in S : m <= i => m <= j
      BY <3>1
    <3> QED  BY <3>1, <3>2
  <2>2. Cardinality(UpTo(i)) <= Cardinality(UpTo(j)) /\ Cardinality(UpTo(i)) # Cardinality(UpTo(j))
    <3> HIDE DEF UpTo
    <3> QED  BY <1>2, <2>1, FS_Subset
  <2> HIDE DEF UpTo
  <2> QED  BY <1>1, <1>2, <2>2
<1>4. rank \in Injection(S, 1 .. n)
  <2> HIDE DEF UpTo
  <2>1. rank \in [S -> 1 .. n]
    BY <1>2
  <2>2. \A i, j \in S : rank[i] = rank[j] => i = j
    <3> SUFFICES ASSUME NEW i \in S, NEW j \in S, i # j
                 PROVE  rank[i] # rank[j]
      OBVIOUS
    <3>1. i < j \/ j < i
      OBVIOUS
    <3>2. rank[i] \in 1 .. n /\ rank[j] \in 1 .. n
      BY <2>1
    <3> QED  BY <1>1, <1>3, <3>1, <3>2
  <2> QED  BY <2>1, <2>2 DEF Injection, IsInjective
<1>5. IsFiniteSet(1 .. n) /\ Cardinality(1 .. n) = n
  BY <1>1, FS_Interval
<1>6. rank \in Surjection(S, 1 .. n)
  <2> HIDE DEF rank
  <2> QED  BY <1>4, <1>5, FS_Injection
<1>7. \E i \in S : rank[i] = k
  BY <1>6 DEF Surjection
<1> QED  BY <1>7

-----------------------------------------------------------------------------
(* The active proxies *)

Distinct(s) == \A i, j \in DOMAIN s : s[i] = s[j] => i = j

\* Each is listed once.
LEMMA ActiveListed ==
    ASSUME NEW P, NEW O \in Seq(Proxy), Distinct(O)
    PROVE  /\ ActiveProxies(P, O) \in Seq(Proxy)
           /\ Distinct(ActiveProxies(P, O))
<1> DEFINE active == {i \in DOMAIN O : P[O[i]].status = "active"}
           UpTo(i) == {j \in active : j <= i}
           n == Cardinality(active)
           place(k) == CHOOSE i \in active : Cardinality(UpTo(i)) = k
           R == ActiveProxies(P, O)
<1>1. active \in SUBSET (1 .. Len(O)) /\ Len(O) \in Nat
  OBVIOUS
<1>2. IsFiniteSet(active) /\ active \in SUBSET Nat
  <2>1. IsFiniteSet(1 .. Len(O))
    BY <1>1, FS_Interval
  <2>2. active \in SUBSET Nat
    BY <1>1
  <2> HIDE DEF active
  <2> QED  BY <1>1, <2>1, <2>2, FS_Subset
<1>3. n \in Nat
  <2> HIDE DEF active
  <2> QED  BY <1>2, FS_CardinalityType
<1>4. \A k \in 1 .. n : place(k) \in active /\ Cardinality(UpTo(place(k))) = k
  <2> SUFFICES ASSUME NEW k \in 1 .. n
               PROVE  place(k) \in active /\ Cardinality(UpTo(place(k))) = k
    OBVIOUS
  <2>1. \E i \in active : Cardinality(UpTo(i)) = k
    <3> HIDE DEF active
    <3> QED  BY <1>2, Ranks
  <2> HIDE DEF active, UpTo
  <2> QED  BY <2>1
<1>5. R = [k \in 1 .. n |-> O[place(k)]]
  BY DEF ActiveProxies
<1>6. \A k \in 1 .. n : place(k) \in DOMAIN O /\ O[place(k)] \in Proxy
  <2> SUFFICES ASSUME NEW k \in 1 .. n PROVE place(k) \in DOMAIN O /\ O[place(k)] \in Proxy
    OBVIOUS
  <2>1. place(k) \in DOMAIN O
    <3> HIDE DEF place, UpTo
    <3> QED  BY <1>4 
  <2> HIDE DEF place
  <2> QED  BY <2>1
<1> HIDE DEF R
<1>7. R \in Seq(Proxy) /\ DOMAIN R = 1 .. n
  <2> HIDE DEF place, n
  <2>1. R \in [1 .. n -> Proxy]
    BY <1>5, <1>6
  <2> QED  BY <1>3, <2>1
<1>8. Distinct(R)
  <2> SUFFICES ASSUME NEW k \in 1 .. n, NEW m \in 1 .. n, R[k] = R[m] PROVE k = m
    BY <1>7 DEF Distinct
  <2>1. O[place(k)] = O[place(m)]
    <3> HIDE DEF place, n
    <3> QED  BY <1>5
  <2>2. place(k) = place(m)
    <3> HIDE DEF place, n
    <3> QED  BY <1>6, <2>1 DEF Distinct
  <2> HIDE DEF UpTo, place, n
  <2> QED  BY <1>4, <2>2
<1> QED  BY <1>7, <1>8 DEF R

-----------------------------------------------------------------------------
(* The round robin *)

\* The k places before the n-th (from 0) of a cycle of m.
Before(n, k, m) ==
    {i \in 1 .. m : IF k <= n THEN n - k < i /\ i <= n ELSE i <= n \/ n - k + m < i}

\* Had their turn: the proxies right before the one that is next.
RoundOK(R, n, T) ==
    R # <<>> =>
      \E k \in 0 .. Len(R) - 1 : T = {R[i] : i \in Before(n % Len(R), k, Len(R))}

LEMMA RoundBegins ==
    ASSUME NEW S, NEW R \in Seq(S), NEW n \in Nat
    PROVE  RoundOK(R, n, {})
<1> SUFFICES ASSUME R # <<>>
             PROVE  0 \in 0 .. Len(R) - 1 /\ Before(n % Len(R), 0, Len(R)) = {}
  BY DEF RoundOK
<1> DEFINE m == Len(R)
<1>1. m \in Nat \ {0}
  OBVIOUS
<1> HIDE DEF m
<1>2. n % m \in 0 .. m - 1
  BY <1>1, Remainder
<1>3. 0 \in 0 .. m - 1
  BY <1>1
<1>4. Before(n % m, 0, m) = {}
  BY <1>1, <1>2 DEF Before
<1> QED  BY <1>3, <1>4 DEF m

\* Who is next had no turn.
LEMMA NextHadNone ==
    ASSUME NEW S, NEW R \in Seq(S), Distinct(R), R # <<>>, NEW n \in Nat, NEW T, RoundOK(R, n, T)
    PROVE  R[(n % Len(R)) + 1] \notin T
<1> DEFINE m == Len(R)
           now0 == n % m
<1>1. m \in Nat \ {0} /\ DOMAIN R = 1 .. m
  OBVIOUS
<1>2. PICK k \in 0 .. m - 1 : T = {R[i] : i \in Before(now0, k, m)}
  BY DEF RoundOK
<1> HIDE DEF m
<1>3. now0 \in 0 .. m - 1
  BY <1>1, Remainder
<1> HIDE DEF now0
<1>4. now0 + 1 \in 1 .. m /\ now0 + 1 \notin Before(now0, k, m) /\ Before(now0, k, m) \subseteq 1 .. m
  BY <1>1, <1>3 DEF Before
<1>5. R[now0 + 1] \notin T
  BY <1>1, <1>2, <1>4 DEF Distinct
<1> QED  BY <1>5 DEF m, now0

\* One more turn, the last of a round ending it.
LEMMA RoundGoesOn ==
    ASSUME NEW S, NEW R \in Seq(S), R # <<>>, NEW n \in Nat, NEW T, RoundOK(R, n, T)
    PROVE  LET next2 == ((n % Len(R)) + 1) % Len(R)
               had == T \cup {R[(n % Len(R)) + 1]}
           IN  RoundOK(R, next2, IF had = ToSet(R) THEN {} ELSE had)
<1> DEFINE m == Len(R)
           a == n % m
           b == (a + 1) % m
           had == T \cup {R[a + 1]}
<1>1. m \in Nat \ {0} /\ DOMAIN R = 1 .. m
  OBVIOUS
<1>2. PICK k \in 0 .. m - 1 : T = {R[i] : i \in Before(a, k, m)}
  BY DEF RoundOK
<1> HIDE DEF m
<1>3. a \in 0 .. m - 1
  BY <1>1, Remainder
<1> HIDE DEF a
<1>4. b = (IF a + 1 = m THEN 0 ELSE a + 1) /\ b \in 0 .. m - 1
  <2>1. a + 1 \in Nat /\ (a + 1 < m \/ a + 1 = m)
    BY <1>1, <1>3
  <2> QED  BY <1>1, <2>1, Remainder
<1>5. b % m = b
  <2>1. b \in Nat /\ b < m
    BY <1>1, <1>4
  <2> HIDE DEF b
  <2> QED  BY <1>1, <2>1, Remainder
<1> HIDE DEF b
<1>6. Before(a, k, m) \cup {a + 1} = IF k + 1 = m THEN 1 .. m ELSE Before(b, k + 1, m)
  BY <1>1, <1>3, <1>4 DEF Before
<1>7. had = {R[i] : i \in Before(a, k, m) \cup {a + 1}}
  BY <1>2
<1>8. CASE had = ToSet(R)
  <2>1. b \in Nat
    BY <1>1, <1>4
  <2>2. RoundOK(R, b, {})
    BY <2>1, RoundBegins
  <2> QED  BY <1>8, <2>2 DEF m, a, b
<1>9. CASE had # ToSet(R)
  <2>1. k + 1 # m
    BY <1>1, <1>6, <1>7, <1>9 DEF ToSet
  <2>2. k + 1 \in 0 .. m - 1
    BY <1>1, <2>1
  <2>3. had = {R[i] : i \in Before(b % m, k + 1, m)}
    BY <1>5, <1>6, <1>7, <2>1
  <2>4. RoundOK(R, b, had)
    <3> HIDE DEF had
    <3> QED  BY <2>2, <2>3 DEF RoundOK, m
  <2> QED  BY <1>9, <2>4 DEF m, a, b
<1> QED  BY <1>8, <1>9

-----------------------------------------------------------------------------
(* The proxy pool *)

\* Proxies, their order and assignments that fit together: every proxy there is has one
\* place, and no account is assigned to one that is not there.
Sound(P, O, A) ==
    /\ P \in [Proxy -> ProxyEntry] /\ O \in Seq(Proxy)
    /\ A \in [Account -> Target \cup {"unassigned"}]
    /\ Distinct(O)
    /\ \A p \in Proxy : P[p].status \in ProxyStatus <=> p \in ToSet(O)
    /\ \A a \in Account : A[a] \in Proxy => P[A[a]].status \in ProxyStatus

OtherTypes ==
    /\ next \in Nat /\ turn \subseteq Proxy
    /\ checks \in [Proxy \X Url -> 0 .. MaxChecks]
    /\ timer \in BOOLEAN /\ pending \in BOOLEAN /\ failed \in BOOLEAN
    /\ restarts \in 0 .. MaxRestarts

\* What is loaded at a restart fits together too.
PoolInv ==
    /\ Sound(proxies, order, assigned)
    /\ Sound(disk.proxies, disk.order, disk.assigned)
    /\ OtherTypes
    /\ FileFollows
    /\ RoundOK(ActiveProxies(proxies, order), next, turn)

LEMMA Entries ==
    /\ \A u \in Url : /\ ActiveEntry(u) \in ProxyEntry
                      /\ ActiveEntry(u).status = "active" /\ ActiveEntry(u).url = u
    /\ NoEntry("unused") \in ProxyEntry /\ NoEntry("unused").status = "unused"
    /\ NoEntry("removed") \in ProxyEntry /\ NoEntry("removed").status = "removed"
    /\ \A e \in ProxyEntry : e.status \in ProxyStatus => e.url \in Url
    /\ {"unused", "removed"} \cap ProxyStatus = {}
    /\ {"active", "unreachable", "disabled"} \subseteq ProxyStatus
<1>1. /\ NoEntry("unused").status = "unused" /\ NoEntry("removed").status = "removed"
      /\ {"unused", "removed"} \cap ProxyStatus = {}
      /\ {"active", "unreachable", "disabled"} \subseteq ProxyStatus
  BY DEF NoEntry, ProxyStatus
<1>2. \A e \in ProxyEntry : e.status \in ProxyStatus => e.url \in Url
  BY <1>1 DEF ProxyEntry
<1>3. \A u \in Url : /\ ActiveEntry(u) \in ProxyEntry
                     /\ ActiveEntry(u).status = "active" /\ ActiveEntry(u).url = u
  BY DEF ActiveEntry, ProxyEntry, ProxyStatus
<1>4. NoEntry("unused") \in ProxyEntry /\ NoEntry("removed") \in ProxyEntry
  BY DEF ProxyEntry
<1> QED  BY <1>1, <1>2, <1>3, <1>4

\* An entry with a new status, which an operator or a check gives it.
LEMMA StatusGiven ==
    ASSUME NEW e \in ProxyEntry, e.status \in ProxyStatus, NEW s \in ProxyStatus
    PROVE  /\ [e EXCEPT !.status = s] \in ProxyEntry
           /\ [e EXCEPT !.status = s].status = s
<1>1. e \in [status : ProxyStatus, url : Url]
  BY Entries DEF ProxyEntry
<1> QED  BY <1>1 DEF ProxyEntry

\* The changes that keep it sound: a new proxy at the end, ...
LEMMA SoundWithNew ==
    ASSUME NEW P, NEW O, NEW A, Sound(P, O, A), NEW p \in Proxy, NEW u \in Url,
           P[p].status = "unused"
    PROVE  Sound([P EXCEPT ![p] = ActiveEntry(u)], Append(O, p), A)
<1> DEFINE Q == [P EXCEPT ![p] = ActiveEntry(u)]
           n == Len(O)
           O2 == Append(O, p)
<1>1. P \in [Proxy -> ProxyEntry] /\ O \in Seq(Proxy) /\ n \in Nat
  BY DEF Sound
<1>2. /\ Q \in [Proxy -> ProxyEntry] /\ Q[p].status \in ProxyStatus
      /\ \A q \in Proxy \ {p} : Q[q] = P[q]
  BY <1>1, Entries
<1>3. /\ O2 \in Seq(Proxy) /\ DOMAIN O2 = 1 .. n + 1 /\ DOMAIN O = 1 .. n
      /\ \A i \in 1 .. n : O2[i] = O[i]
      /\ O2[n + 1] = p
  BY <1>1
<1>4. p \notin ToSet(O) /\ P[p].status \notin ProxyStatus
  BY Entries DEF Sound
<1> HIDE DEF Q, O2, n
<1>5. \A i \in 1 .. n : O[i] # p
  BY <1>3, <1>4 DEF ToSet
<1>6. Distinct(O2)
  <2> SUFFICES ASSUME NEW i \in 1 .. n + 1, NEW j \in 1 .. n + 1, O2[i] = O2[j]
               PROVE  i = j
    BY <1>3 DEF Distinct
  <2>1. CASE i \in 1 .. n /\ j \in 1 .. n
    BY <1>3, <2>1 DEF Sound, Distinct
  <2>2. CASE i = n + 1 \/ j = n + 1
    BY <1>1, <1>3, <1>5, <2>2
  <2> QED  BY <1>1, <2>1, <2>2
<1>7. ToSet(O2) = ToSet(O) \cup {p}
  BY <1>1, <1>3 DEF ToSet
<1>8. \A q \in Proxy : Q[q].status \in ProxyStatus <=> q \in ToSet(O2)
  <2> SUFFICES ASSUME NEW q \in Proxy PROVE Q[q].status \in ProxyStatus <=> q \in ToSet(O2)
    OBVIOUS
  <2>1. CASE q = p
    BY <1>2, <1>7, <2>1
  <2>2. CASE q # p
    BY <1>2, <1>7, <2>2 DEF Sound
  <2> QED  BY <2>1, <2>2
<1>9. \A a \in Account : A[a] \in Proxy => Q[A[a]].status \in ProxyStatus
  BY <1>2, <1>4 DEF Sound
<1>10. Sound(Q, O2, A)
  BY <1>2, <1>3, <1>6, <1>8, <1>9 DEF Sound
<1> QED  BY <1>10 DEF Q, O2

\* ... another entry for one that is there, ...
LEMMA SoundWithEntry ==
    ASSUME NEW P, NEW O, NEW A, Sound(P, O, A), NEW p \in Proxy, P[p].status \in ProxyStatus,
           NEW e \in ProxyEntry, e.status \in ProxyStatus
    PROVE  Sound([P EXCEPT ![p] = e], O, A)
<1> DEFINE Q == [P EXCEPT ![p] = e]
<1>1. /\ Q \in [Proxy -> ProxyEntry]
      /\ \A q \in Proxy : Q[q] = IF q = p THEN e ELSE P[q]
  BY DEF Sound
<1> HIDE DEF Q
<1>2. \A q \in Proxy : Q[q].status \in ProxyStatus <=> P[q].status \in ProxyStatus
  BY <1>1
<1>3. Sound(Q, O, A)
  BY <1>1, <1>2 DEF Sound
<1> QED  BY <1>3 DEF Q

\* ... the removal of one with its place and its assignments, ...
LEMMA SoundWithout ==
    ASSUME NEW P, NEW O, NEW A, Sound(P, O, A), NEW p \in Proxy, NEW i \in DOMAIN O, O[i] = p
    PROVE  Sound([P EXCEPT ![p] = NoEntry("removed")], RemoveAt(O, i),
                 [a \in Account |-> IF A[a] = p THEN "unassigned" ELSE A[a]])
<1> DEFINE Q == [P EXCEPT ![p] = NoEntry("removed")]
           O2 == RemoveAt(O, i)
           B == [a \in Account |-> IF A[a] = p THEN "unassigned" ELSE A[a]]
           n == Len(O)
<1>1. /\ P \in [Proxy -> ProxyEntry] /\ O \in Seq(Proxy) /\ n \in Nat /\ i \in 1 .. n
      /\ DOMAIN O = 1 .. n
      /\ A \in [Account -> Target \cup {"unassigned"}]
  BY DEF Sound
<1>2. /\ Q \in [Proxy -> ProxyEntry] /\ Q[p].status \notin ProxyStatus
      /\ \A q \in Proxy \ {p} : Q[q] = P[q]
  BY <1>1, Entries
<1>3. /\ O2 \in Seq(Proxy) /\ Len(O2) = n - 1
      /\ \A j \in 1 .. n - 1 : O2[j] = IF j < i THEN O[j] ELSE O[j + 1]
  BY <1>1, RemovedAt
<1>4. /\ B \in [Account -> Target \cup {"unassigned"}]
      /\ \A a \in Account : B[a] = IF A[a] = p THEN "unassigned" ELSE A[a]
  BY <1>1
<1>5. DOMAIN O2 = 1 .. n - 1
  <2> HIDE DEF O2, n
  <2> QED  BY <1>1, <1>3
<1> HIDE DEF Q, O2, B, n
<1>6. \A j, k \in 1 .. n : O[j] = O[k] => j = k
  BY <1>1 DEF Sound, Distinct
<1>7. Distinct(O2)
  <2> SUFFICES ASSUME NEW j \in 1 .. n - 1, NEW k \in 1 .. n - 1, O2[j] = O2[k]
               PROVE  j = k
    BY <1>5 DEF Distinct
  <2> DEFINE jj == IF j < i THEN j ELSE j + 1
             kk == IF k < i THEN k ELSE k + 1
  <2>1. jj \in 1 .. n /\ kk \in 1 .. n /\ O2[j] = O[jj] /\ O2[k] = O[kk]
    BY <1>1, <1>3
  <2>2. jj = kk
    <3> HIDE DEF jj, kk
    <3> QED  BY <1>6, <2>1
  <2> QED  BY <1>1, <2>2
<1>8. ToSet(O2) = ToSet(O) \ {p}
  <2>1. ASSUME NEW j \in 1 .. n - 1
        PROVE  O2[j] \in ToSet(O) \ {p}
    <3> DEFINE jj == IF j < i THEN j ELSE j + 1
    <3>1. jj \in 1 .. n /\ jj # i /\ O2[j] = O[jj]
      BY <1>1, <1>3
    <3> HIDE DEF jj
    <3> QED  BY <1>1, <1>6, <3>1 DEF ToSet
  <2>2. ASSUME NEW j \in 1 .. n, O[j] # p
        PROVE  O[j] \in ToSet(O2)
    <3>1. CASE j < i
      <4>1. j \in 1 .. n - 1 /\ O2[j] = O[j]
        BY <1>1, <1>3, <3>1
      <4> QED  BY <1>5, <4>1 DEF ToSet
    <3>2. CASE j > i
      <4>1. j - 1 \in 1 .. n - 1 /\ ~(j - 1 < i) /\ (j - 1) + 1 = j
        BY <1>1, <3>2
      <4>2. O2[j - 1] = O[j]
        BY <1>3, <4>1
      <4> QED  BY <1>5, <4>1, <4>2 DEF ToSet
    <3> QED  BY <1>1, <2>2, <3>1, <3>2
  <2> QED  BY <1>1, <1>5, <2>1, <2>2 DEF ToSet
<1>9. \A q \in Proxy : Q[q].status \in ProxyStatus <=> q \in ToSet(O2)
  <2> SUFFICES ASSUME NEW q \in Proxy PROVE Q[q].status \in ProxyStatus <=> q \in ToSet(O2)
    OBVIOUS
  <2>1. CASE q = p
    BY <1>2, <1>8, <2>1
  <2>2. CASE q # p
    BY <1>2, <1>8, <2>2 DEF Sound
  <2> QED  BY <2>1, <2>2
<1>10. \A a \in Account : B[a] \in Proxy => Q[B[a]].status \in ProxyStatus
  <2>1. "unassigned" \notin Proxy
    BY ProxyAssumption
  <2> QED  BY <1>2, <1>4, <2>1 DEF Sound
<1>11. Sound(Q, O2, B)
  BY <1>2, <1>3, <1>4, <1>7, <1>9, <1>10 DEF Sound
<1> QED  BY <1>11 DEF Q, O2, B

\* ... and assignments to proxies that are there.
LEMMA SoundAssigned ==
    ASSUME NEW P, NEW O, NEW A, Sound(P, O, A),
           NEW B \in [Account -> Target \cup {"unassigned"}],
           \A a \in Account : B[a] \in Proxy => P[B[a]].status \in ProxyStatus
    PROVE  Sound(P, O, B)
BY DEF Sound

-----------------------------------------------------------------------------
(* The steps of the proxy pool *)

LEMMA PoolStarts == Init => PoolInv
<1> SUFFICES ASSUME Init PROVE PoolInv
  OBVIOUS
<1>1. /\ proxies = [p \in Proxy |-> NoEntry("unused")] /\ order = <<>>
      /\ assigned = [a \in Account |-> "unassigned"]
      /\ next = 0 /\ turn = {} /\ disk = Memory /\ timer = FALSE /\ pending = FALSE
      /\ failed = FALSE /\ restarts = 0 /\ checks = [c \in Proxy \X Url |-> 0]
  BY DEF Init
<1>2. "unassigned" \notin Proxy
  BY ProxyAssumption
<1>3. order \in Seq(Proxy) /\ DOMAIN order = {}
  BY <1>1
<1>4. Sound(proxies, order, assigned)
  BY <1>1, <1>2, <1>3, Entries DEF Sound, Distinct, ToSet
<1>5. disk.proxies = proxies /\ disk.order = order /\ disk.assigned = assigned
  BY <1>1 DEF Memory
<1>6. OtherTypes
  <2>1. 0 \in 0 .. MaxChecks /\ 0 \in 0 .. MaxRestarts /\ 0 \in Nat
    BY ProxyAssumption
  <2> QED  BY <1>1, <2>1 DEF OtherTypes
<1>7. ActiveProxies(proxies, order) \in Seq(Proxy)
  BY <1>4, ActiveListed DEF Sound
<1>8. RoundOK(ActiveProxies(proxies, order), next, turn)
  BY <1>1, <1>7, RoundBegins
<1> QED  BY <1>4, <1>5, <1>6, <1>8 DEF PoolInv, FileFollows

\* A write at once succeeds or fails.
LEMMA Persisted ==
    ASSUME PoolInv, PersistNow, Sound(proxies', order', assigned')
    PROVE  /\ Sound(disk'.proxies, disk'.order, disk'.assigned)
           /\ FileFollows' /\ pending' \in BOOLEAN /\ failed' \in BOOLEAN
<1>1. /\ Memory'.proxies = proxies' /\ Memory'.order = order' /\ Memory'.assigned = assigned'
  BY DEF Memory
<1> QED  BY <1>1 DEF PersistNow, PoolInv, FileFollows

\* A change of an entry waits for the timer.
LEMMA Scheduled ==
    ASSUME PoolInv, SchedulePersist, UNCHANGED <<order, assigned>>
    PROVE  /\ Sound(disk'.proxies, disk'.order, disk'.assigned)
           /\ FileFollows' /\ pending' \in BOOLEAN /\ failed' \in BOOLEAN
BY DEF SchedulePersist, PoolInv, FileFollows, OtherTypes

\* Whatever is edited, a round goes on or a new one begins.
LEMMA Edited ==
    ASSUME PoolInv, Sound(proxies', order', assigned'), Rounds, UNCHANGED <<next, restarts>>,
           timer' \in BOOLEAN, checks' \in [Proxy \X Url -> 0 .. MaxChecks],
           Sound(disk'.proxies, disk'.order, disk'.assigned),
           FileFollows', pending' \in BOOLEAN, failed' \in BOOLEAN
    PROVE  PoolInv'
<1>1. ActiveProxies(proxies', order') \in Seq(Proxy) /\ next \in Nat /\ turn \subseteq Proxy
  BY ActiveListed DEF Sound, PoolInv, OtherTypes
<1>2. RoundOK(ActiveProxies(proxies', order'), next', turn') /\ turn' \subseteq Proxy
  <2>1. CASE ActiveProxies(proxies', order') = ActiveProxies(proxies, order)
    BY <1>1, <2>1 DEF Rounds, PoolInv
  <2>2. CASE ActiveProxies(proxies', order') # ActiveProxies(proxies, order)
    BY <1>1, <2>2, RoundBegins DEF Rounds
  <2> QED  BY <2>1, <2>2
<1>3. OtherTypes'
  BY <1>2 DEF PoolInv, OtherTypes
<1> QED  BY <1>2, <1>3 DEF PoolInv

LEMMA AddKeeps ==
    ASSUME PoolInv, NEW p \in Proxy, NEW u \in Url, Add(p, u)
    PROVE  PoolInv'
<1>1. /\ Sound(proxies, order, assigned) /\ proxies[p].status = "unused"
      /\ checks' \in [Proxy \X Url -> 0 .. MaxChecks] /\ timer' \in BOOLEAN
      /\ Rounds /\ UNCHANGED <<next, restarts>>
  BY DEF PoolInv, OtherTypes, Add
<1>2. CASE UNCHANGED <<pool, files>>
  BY <1>1, <1>2, Edited DEF PoolInv, OtherTypes, FileFollows, pool, files
<1>3. CASE ~UNCHANGED <<pool, files>>
  <2>1. /\ proxies' = [proxies EXCEPT ![p] = ActiveEntry(u)] /\ order' = Append(order, p)
        /\ assigned' = assigned /\ PersistNow
    BY <1>3 DEF Add
  <2>2. Sound(proxies', order', assigned')
    BY <1>1, <2>1, SoundWithNew
  <2> QED  BY <1>1, <2>1, <2>2, Persisted, Edited
<1> QED  BY <1>2, <1>3

LEMMA ImportKeeps ==
    ASSUME PoolInv, NEW p \in Proxy, NEW q \in Proxy, NEW u \in Url, NEW v \in Url,
           ImportTwo(p, q, u, v)
    PROVE  PoolInv'
<1> DEFINE one == [proxies |-> [proxies EXCEPT ![p] = ActiveEntry(u)],
                   order |-> Append(order, p), assigned |-> assigned]
<1>1. /\ Sound(proxies, order, assigned) /\ p # q
      /\ proxies[p].status = "unused" /\ proxies[q].status = "unused"
      /\ checks' \in [Proxy \X Url -> 0 .. MaxChecks] /\ timer' \in BOOLEAN
      /\ Rounds /\ UNCHANGED <<next, restarts>>
  BY DEF PoolInv, OtherTypes, ImportTwo
<1>2. /\ one.proxies = [proxies EXCEPT ![p] = ActiveEntry(u)]
      /\ one.order = Append(order, p) /\ one.assigned = assigned
  OBVIOUS
<1>3. /\ proxies' = [one.proxies EXCEPT ![q] = ActiveEntry(v)]
      /\ order' = Append(one.order, q) /\ assigned' = assigned /\ pending' = FALSE
      /\ \/ disk' = Memory' /\ failed' = FALSE
         \/ disk' \in {disk, one} /\ failed' = TRUE
  BY DEF ImportTwo
<1> HIDE DEF one
<1>4. Sound(one.proxies, one.order, one.assigned)
  <2>1. Sound([proxies EXCEPT ![p] = ActiveEntry(u)], Append(order, p), assigned)
    BY <1>1, SoundWithNew
  <2> QED  BY <1>2, <2>1
<1>5. one.proxies[q].status = "unused"
  BY <1>1, <1>2 DEF Sound
<1>6. Sound(proxies', order', assigned')
  BY <1>2, <1>3, <1>4, <1>5, SoundWithNew
<1>7. Memory'.proxies = proxies' /\ Memory'.order = order' /\ Memory'.assigned = assigned'
  BY DEF Memory
<1>8. Sound(disk'.proxies, disk'.order, disk'.assigned)
  BY <1>3, <1>4, <1>6, <1>7 DEF PoolInv
<1>9. FileFollows' /\ pending' \in BOOLEAN /\ failed' \in BOOLEAN
  BY <1>3, <1>7 DEF FileFollows
<1> QED  BY <1>1, <1>6, <1>8, <1>9, Edited

LEMMA RemoveKeeps ==
    ASSUME PoolInv, NEW p \in Proxy, RemoveProxy(p)
    PROVE  PoolInv'
<1>1. /\ Sound(proxies, order, assigned) /\ Exists(p)
      /\ checks' \in [Proxy \X Url -> 0 .. MaxChecks] /\ timer' \in BOOLEAN
      /\ Rounds /\ UNCHANGED <<next, restarts>> /\ PersistNow
  BY DEF PoolInv, OtherTypes, RemoveProxy
<1>2. PlaceOf(p) \in DOMAIN order /\ order[PlaceOf(p)] = p
  <2>1. \E i \in DOMAIN order : order[i] = p
    BY <1>1 DEF Exists, Sound, ToSet
  <2> QED  BY <2>1 DEF PlaceOf
<1>3. Sound(proxies', order', assigned')
  <2> DEFINE i == PlaceOf(p)
  <2>1. i \in DOMAIN order /\ order[i] = p
    BY <1>2
  <2>2. /\ proxies' = [proxies EXCEPT ![p] = NoEntry("removed")]
        /\ order' = RemoveAt(order, i)
        /\ assigned' = [a \in Account |-> IF assigned[a] = p THEN "unassigned" ELSE assigned[a]]
    BY DEF RemoveProxy
  <2> HIDE DEF i
  <2>3. Sound([proxies EXCEPT ![p] = NoEntry("removed")], RemoveAt(order, i),
              [a \in Account |-> IF assigned[a] = p THEN "unassigned" ELSE assigned[a]])
    BY <1>1, <2>1, SoundWithout
  <2> QED  BY <2>2, <2>3
<1> QED  BY <1>1, <1>3, Persisted, Edited

LEMMA ChangedKeeps ==
    ASSUME PoolInv, NEW p \in Proxy, NEW e \in ProxyEntry, e.status \in ProxyStatus, Changed(p, e)
    PROVE  PoolInv'
<1>1. /\ Sound(proxies, order, assigned) /\ proxies[p].status \in ProxyStatus
      /\ checks' \in [Proxy \X Url -> 0 .. MaxChecks] /\ timer' \in BOOLEAN
      /\ Rounds /\ UNCHANGED <<next, restarts>> /\ SchedulePersist
      /\ proxies' = [proxies EXCEPT ![p] = e] /\ UNCHANGED <<order, assigned>>
  BY DEF PoolInv, OtherTypes, Changed, Exists
<1>2. Sound(proxies', order', assigned')
  BY <1>1, SoundWithEntry
<1> QED  BY <1>1, <1>2, Scheduled, Edited

LEMMA UpdateKeeps ==
    ASSUME PoolInv, NEW p \in Proxy,
           \/ UpdateName(p) \/ Enable(p) \/ Disable(p)
           \/ \E u \in Url : UpdateUrl(p, u)
    PROVE  PoolInv'
<1>1. Exists(p) /\ proxies[p] \in ProxyEntry /\ proxies[p].status \in ProxyStatus
  BY DEF UpdateName, Enable, Disable, UpdateUrl, Changed, Exists, PoolInv, Sound
<1>2. "active" \in ProxyStatus /\ "disabled" \in ProxyStatus
  BY DEF ProxyStatus
<1>3. CASE UpdateName(p)
  BY <1>1, <1>3, ChangedKeeps DEF UpdateName
<1>4. CASE Enable(p)
  BY <1>1, <1>2, <1>4, StatusGiven, ChangedKeeps DEF Enable
<1>5. CASE Disable(p)
  BY <1>1, <1>2, <1>5, StatusGiven, ChangedKeeps DEF Disable
<1>6. ASSUME NEW u \in Url, UpdateUrl(p, u)
      PROVE  PoolInv'
  BY <1>2, <1>6, Entries, ChangedKeeps DEF UpdateUrl
<1> QED  BY <1>3, <1>4, <1>5, <1>6

\* The answer of a check goes to the entry if it is still there and not disabled.
LEMMA CheckEndsKeeps ==
    ASSUME PoolInv, NEW p \in Proxy, NEW u \in Url, NEW answered \in BOOLEAN,
           CheckEnds(p, u, answered)
    PROVE  PoolInv'
<1>1. /\ Sound(proxies, order, assigned) /\ timer' \in BOOLEAN
      /\ Rounds /\ UNCHANGED <<next, restarts>> /\ SchedulePersist /\ UNCHANGED <<order, assigned>>
  BY DEF PoolInv, OtherTypes, CheckEnds
<1>2. checks' \in [Proxy \X Url -> 0 .. MaxChecks]
  <2> DEFINE c == <<p, u>>
             n == checks[c]
  <2>1. c \in Proxy \X Url /\ checks \in [Proxy \X Url -> 0 .. MaxChecks]
    BY DEF PoolInv, OtherTypes
  <2>2. n > 0 /\ checks' = [checks EXCEPT ![c] = n - 1]
    BY DEF CheckEnds
  <2>3. n \in 0 .. MaxChecks
    <3> HIDE DEF c
    <3> QED  BY <2>1
  <2> HIDE DEF n, c
  <2>4. n - 1 \in 0 .. MaxChecks
    BY <2>2, <2>3, ProxyAssumption
  <2> QED  BY <2>1, <2>2, <2>4
<1>3. Sound(proxies', order', assigned')
  <2>1. CASE ~Exists(p)
    BY <1>1, <2>1 DEF CheckEnds
  <2>2. CASE Exists(p)
    <3> DEFINE e == proxies[p]
               s == IF e.status = "disabled" THEN e.status
                    ELSE IF answered THEN "active" ELSE "unreachable"
    <3>1. e \in ProxyEntry /\ e.status \in ProxyStatus
      BY <1>1, <2>2 DEF Sound, Exists
    <3>2. s \in ProxyStatus
      BY <3>1 DEF ProxyStatus
    <3>3. proxies' = [proxies EXCEPT ![p] = [e EXCEPT !.status = s]]
      BY <2>2 DEF CheckEnds, Checked
    <3> HIDE DEF e, s
    <3>4. [e EXCEPT !.status = s] \in ProxyEntry /\ [e EXCEPT !.status = s].status = s
      BY <3>1, <3>2, StatusGiven
    <3>5. Sound([proxies EXCEPT ![p] = [e EXCEPT !.status = s]], order, assigned)
      <4> DEFINE f == [e EXCEPT !.status = s]
      <4>1. f \in ProxyEntry /\ f.status \in ProxyStatus
        BY <3>2, <3>4
      <4> HIDE DEF f
      <4>2. Sound([proxies EXCEPT ![p] = f], order, assigned)
        BY <1>1, <2>2, <4>1, SoundWithEntry DEF Exists
      <4> QED  BY <4>2 DEF f
    <3> QED  BY <1>1, <3>3, <3>5
  <2> QED  BY <2>1, <2>2
<1> QED  BY <1>1, <1>2, <1>3, Scheduled, Edited

\* Assignments: targets that were looked up, or none.
LEMMA AssignKeeps ==
    ASSUME PoolInv, NEW targets, DOMAIN targets \subseteq Account,
           \A a \in DOMAIN targets : targets[a] \in Target,
           Assign(targets)
    PROVE  PoolInv'
<1>1. /\ Sound(proxies, order, assigned) /\ timer' \in BOOLEAN
      /\ checks' \in [Proxy \X Url -> 0 .. MaxChecks]
      /\ Rounds /\ UNCHANGED <<next, restarts>> /\ PersistNow /\ UNCHANGED <<proxies, order>>
  BY DEF PoolInv, OtherTypes, Assign
<1>2. assigned' = [a \in Account |-> IF a \in DOMAIN targets THEN targets[a] ELSE assigned[a]]
  BY DEF Assign
<1>3. assigned' \in [Account -> Target \cup {"unassigned"}]
  BY <1>1, <1>2 DEF Sound
<1>4. \A a \in Account : assigned'[a] \in Proxy => proxies[assigned'[a]].status \in ProxyStatus
  BY <1>1, <1>2 DEF Sound, Assign, ValidTarget, Exists
<1>5. Sound(proxies', order', assigned')
  BY <1>1, <1>3, <1>4, SoundAssigned
<1> QED  BY <1>1, <1>5, Persisted, Edited

LEMMA UnassignKeeps ==
    ASSUME PoolInv, NEW b \in Account, Unassign(b)
    PROVE  PoolInv'
<1>1. /\ Sound(proxies, order, assigned) /\ timer' \in BOOLEAN
      /\ checks' \in [Proxy \X Url -> 0 .. MaxChecks]
      /\ Rounds /\ UNCHANGED <<next, restarts>> /\ PersistNow /\ UNCHANGED <<proxies, order>>
      /\ assigned' = [assigned EXCEPT ![b] = "unassigned"]
  BY DEF PoolInv, OtherTypes, Unassign
<1>2. "unassigned" \notin Proxy
  BY ProxyAssumption
<1>3. assigned' \in [Account -> Target \cup {"unassigned"}]
  BY <1>1 DEF Sound
<1>4. \A a \in Account : assigned'[a] \in Proxy => proxies[assigned'[a]].status \in ProxyStatus
  BY <1>1, <1>2 DEF Sound
<1>5. Sound(proxies', order', assigned')
  BY <1>1, <1>3, <1>4, SoundAssigned
<1> QED  BY <1>1, <1>5, Persisted, Edited

\* The targets of a rule, taken in turn.
LEMMA RuleTyped ==
    ASSUME NEW S \in SUBSET Account, S # {}, NEW as \in SetToSeqs(S),
           NEW ts \in [1 .. Cardinality(S) -> Target]
    PROVE  /\ DOMAIN ByRule(as, ts) \subseteq Account
           /\ \A a \in DOMAIN ByRule(as, ts) : ByRule(as, ts)[a] \in Target
<1> DEFINE n == Cardinality(S)
           place(a) == CHOOSE j \in DOMAIN as : as[j] = a
<1>1. n \in Nat \ {0}
  <2>1. IsFiniteSet(S)
    BY ProxyAssumption, FS_Subset
  <2> QED  BY <2>1, FS_CardinalityType, FS_EmptySet
<1>2. as \in [1 .. n -> S] /\ DOMAIN as = 1 .. n
  BY DEF SetToSeqs
<1> HIDE DEF n
<1>3. Len(ts) = n
  BY <1>1 DEF n
<1>4. ToSet(as) \subseteq S
  BY <1>2 DEF ToSet
<1>5. ASSUME NEW a \in ToSet(as)
      PROVE  ts[((place(a) - 1) % n) + 1] \in Target
  <2>1. \E j \in 1 .. n : as[j] = a
    BY <1>2 DEF ToSet
  <2>2. place(a) \in 1 .. n
    BY <1>2, <2>1
  <2> HIDE DEF place
  <2>3. place(a) - 1 \in Nat
    BY <2>2
  <2> DEFINE m == (place(a) - 1) % n
  <2>4. m \in 0 .. n - 1
    BY <1>1, <2>3, Remainder
  <2> HIDE DEF m
  <2>5. m + 1 \in 1 .. n
    BY <1>1, <2>4
  <2>6. ts[m + 1] \in Target
    BY <2>5 DEF n
  <2> QED  BY <2>6 DEF m
<1>6. ByRule(as, ts) = [a \in ToSet(as) |-> ts[((place(a) - 1) % n) + 1]]
  BY <1>3 DEF ByRule
<1> HIDE DEF place
<1> QED  BY <1>4, <1>5, <1>6

LEMMA PickKeeps ==
    ASSUME PoolInv, NEW a \in Account, PickRoundRobin(a)
    PROVE  PoolInv'
<1> DEFINE R == ActiveProxies(proxies, order)
           n == Len(R)
           b == ((next % n) + 1) % n
           had == turn \cup {R[(next % n) + 1]}
<1>1. R \in Seq(Proxy) /\ R # <<>> /\ next \in Nat /\ turn \subseteq Proxy
  BY ActiveListed DEF PoolInv, OtherTypes, Sound, PickRoundRobin
<1>2. /\ next' = b /\ turn' = (IF had = ToSet(R) THEN {} ELSE had)
      /\ UNCHANGED <<pool, checks, timer, files, restarts>>
  BY DEF PickRoundRobin, Picked
<1>3. RoundOK(R, next, turn)
  BY DEF PoolInv
<1>4. n \in Nat \ {0} /\ DOMAIN R = 1 .. n
  <2> HIDE DEF R
  <2> QED  BY <1>1
<1>5. b \in Nat /\ had \subseteq Proxy
  <2> HIDE DEF R, n
  <2>1. next % n \in 0 .. n - 1
    BY <1>1, <1>4, Remainder
  <2> DEFINE x == next % n
  <2>2. x \in 0 .. n - 1
    BY <2>1
  <2> HIDE DEF x
  <2>3. x + 1 \in Nat /\ x + 1 \in 1 .. n
    BY <1>4, <2>2
  <2>4. R[x + 1] \in Proxy
    BY <1>1, <1>4, <2>3
  <2>5. (x + 1) % n \in 0 .. n - 1
    BY <1>4, <2>3, Remainder
  <2> QED  BY <1>1, <1>4, <2>4, <2>5 DEF x
<1>6. RoundOK(R, b, IF had = ToSet(R) THEN {} ELSE had)
  <2> HIDE DEF R
  <2> QED  BY <1>1, <1>3, RoundGoesOn
<1>7. RoundOK(R, next', turn') /\ next' \in Nat /\ turn' \subseteq Proxy
  <2> HIDE DEF R, n, b, had
  <2> QED  BY <1>2, <1>5, <1>6
<1>8. UNCHANGED <<proxies, order, assigned, checks, timer, pending, disk, failed, restarts>>
  BY <1>2 DEF pool, files
<1> QED  BY <1>7, <1>8 DEF PoolInv, OtherTypes, FileFollows

LEMMA ChecksKeep ==
    ASSUME PoolInv, CheckAll \/ \E p \in Proxy : CheckStarts(p)
    PROVE  PoolInv'
<1>1. /\ checks \in [Proxy \X Url -> 0 .. MaxChecks]
      /\ \A p \in Proxy : Exists(p) => proxies[p].url \in Url
  BY Entries DEF PoolInv, OtherTypes, Sound, Exists
<1>2. checks' \in [Proxy \X Url -> 0 .. MaxChecks]
  <2>1. ASSUME NEW p \in Proxy, CheckStarts(p)
        PROVE  checks' \in [Proxy \X Url -> 0 .. MaxChecks]
    <3> DEFINE c == <<p, proxies[p].url>>
               n == checks[c]
    <3>1. c \in Proxy \X Url /\ n < MaxChecks /\ checks' = [checks EXCEPT ![c] = n + 1]
      BY <1>1, <2>1 DEF CheckStarts
    <3> HIDE DEF c
    <3>2. n \in 0 .. MaxChecks
      BY <1>1, <3>1
    <3> HIDE DEF n
    <3>3. n + 1 \in 0 .. MaxChecks
      BY <3>1, <3>2, ProxyAssumption
    <3> QED  BY <1>1, <3>1, <3>3
  <2>2. ASSUME CheckAll
        PROVE  checks' \in [Proxy \X Url -> 0 .. MaxChecks]
    <3> DEFINE targets == {p \in Proxy : Exists(p) /\ proxies[p].status # "disabled"}
    <3>1. /\ \A p \in targets : checks[<<p, proxies[p].url>>] < MaxChecks
          /\ checks' = [c \in Proxy \X Url |->
                           IF c[1] \in targets /\ c[2] = proxies[c[1]].url
                           THEN checks[c] + 1 ELSE checks[c]]
      BY <2>2 DEF CheckAll
    <3> HIDE DEF targets
    <3>2. ASSUME NEW c \in Proxy \X Url
          PROVE  (IF c[1] \in targets /\ c[2] = proxies[c[1]].url
                  THEN checks[c] + 1 ELSE checks[c]) \in 0 .. MaxChecks
      <4> DEFINE n == checks[c]
      <4>1. n \in 0 .. MaxChecks
        BY <1>1
      <4>2. c[1] \in targets /\ c[2] = proxies[c[1]].url => n < MaxChecks
        <5>1. c = <<c[1], c[2]>>
          OBVIOUS
        <5> QED  BY <3>1, <5>1
      <4> HIDE DEF n
      <4>3. c[1] \in targets /\ c[2] = proxies[c[1]].url => n + 1 \in 0 .. MaxChecks
        BY <4>1, <4>2, ProxyAssumption
      <4> QED  BY <4>1, <4>3 DEF n
    <3> QED  BY <3>1, <3>2
  <2> QED  BY <2>1, <2>2
<1>3. UNCHANGED <<proxies, order, assigned, next, timer, pending, disk, failed, restarts, turn>>
  BY DEF CheckAll, CheckStarts, pool, files
<1> QED  BY <1>2, <1>3 DEF PoolInv, OtherTypes, FileFollows

LEMMA TimerKeeps ==
    ASSUME PoolInv, PersistTimer
    PROVE  PoolInv'
<1>1. /\ PersistNow
      /\ UNCHANGED <<proxies, order, assigned, next, checks, timer, restarts, turn>>
  BY DEF PersistTimer, pool
<1>2. Sound(proxies', order', assigned')
  BY <1>1 DEF PoolInv
<1> QED  BY <1>1, <1>2, Persisted DEF PoolInv, OtherTypes

\* A restart takes what the file holds.
LEMMA RestartKeeps ==
    ASSUME PoolInv, NEW flushed, Restart(flushed)
    PROVE  PoolInv'
<1>1. Memory.proxies = proxies /\ Memory.order = order /\ Memory.assigned = assigned
  BY DEF Memory
<1>2. Sound(disk'.proxies, disk'.order, disk'.assigned)
  BY <1>1 DEF PoolInv, Restart
<1>3. proxies' = disk'.proxies /\ order' = disk'.order /\ assigned' = disk'.assigned
  BY DEF Restart
<1>4. OtherTypes'
  <2>1. 0 \in 0 .. MaxChecks /\ restarts' \in 0 .. MaxRestarts
    BY ProxyAssumption DEF PoolInv, OtherTypes, Restart
  <2> QED  BY <2>1 DEF OtherTypes, Restart
<1>5. ActiveProxies(proxies', order') \in Seq(Proxy)
  BY <1>2, <1>3, ActiveListed DEF Sound
<1>6. RoundOK(ActiveProxies(proxies', order'), next', turn')
  BY <1>5, RoundBegins DEF Restart
<1>7. FileFollows'
  BY <1>3 DEF FileFollows
<1> QED  BY <1>2, <1>3, <1>4, <1>6, <1>7 DEF PoolInv

LEMMA PoolStepKeeps == PoolInv /\ [Next]_vars => PoolInv'
<1> SUFFICES ASSUME PoolInv, [Next]_vars PROVE PoolInv'
  OBVIOUS
<1>1. ASSUME NEW p \in Proxy, ProxyStep(p)
      PROVE  PoolInv'
  BY <1>1, AddKeeps, ImportKeeps, RemoveKeeps, UpdateKeeps, CheckEndsKeeps, ChecksKeep
     DEF ProxyStep
<1>2. ASSUME AccountStep
      PROVE  PoolInv'
  <2>1. ASSUME NEW S \in (SUBSET Account) \ {{}}, NEW as \in SetToSeqs(S),
               NEW ts \in [1 .. Cardinality(S) -> Target], Assign(ByRule(as, ts))
        PROVE  PoolInv'
    <3> DEFINE targets == ByRule(as, ts)
    <3>1. /\ DOMAIN targets \subseteq Account /\ Assign(targets)
          /\ \A a \in DOMAIN targets : targets[a] \in Target
      BY <2>1, RuleTyped
    <3> HIDE DEF targets
    <3> QED  BY <3>1, AssignKeeps
  <2> QED  BY <1>2, <2>1, UnassignKeeps, PickKeeps DEF AccountStep
<1>3. ASSUME UNCHANGED vars
      PROVE  PoolInv'
  BY <1>3 DEF vars, pool, files, PoolInv, OtherTypes, FileFollows
<1> QED
  BY <1>1, <1>2, <1>3, ChecksKeep, TimerKeeps, RestartKeeps DEF Next

-----------------------------------------------------------------------------
(* What the proxy pool keeps to *)

LEMMA TypesHold == PoolInv => TypeOK
BY DEF PoolInv, Sound, OtherTypes, TypeOK

LEMMA AssignmentsHold == PoolInv => AssignmentsResolve
<1> SUFFICES ASSUME PoolInv PROVE AssignmentsResolve
  OBVIOUS
<1>1. Memory.proxies = proxies /\ Memory.order = order /\ Memory.assigned = assigned
  BY DEF Memory
<1>2. \A state \in {Memory, disk}, a \in Account :
         state.assigned[a] \in Proxy =>
           /\ state.proxies[state.assigned[a]].status \in ProxyStatus
           /\ state.assigned[a] \in ToSet(state.order)
  <2>1. \A state \in {Memory, disk} : Sound(state.proxies, state.order, state.assigned)
    BY <1>1 DEF PoolInv
  <2> QED  BY <2>1 DEF Sound
<1>3. ASSUME NEW a \in Account, assigned[a] \in Proxy
      PROVE  Resolved(a, FALSE) = "global" <=> proxies[assigned[a]].status = "disabled"
  <2> DEFINE t == assigned[a]
             e == proxies[t]
  <2>1. t \in Proxy /\ e \in ProxyEntry /\ e.status \in ProxyStatus
    BY <1>3 DEF PoolInv, Sound
  <2>2. t \notin {"direct", "global", "unassigned"}
    BY <2>1, ProxyAssumption
  <2>3. e.url # "global"
    <3> HIDE DEF e
    <3> QED  BY <2>1, Entries, ProxyAssumption
  <2>4. Resolved(a, FALSE) = IF e.status = "disabled" THEN "global" ELSE e.url
    BY <2>1, <2>2 DEF Resolved, Exists
  <2> QED  BY <2>3, <2>4
<1> QED  BY <1>2, <1>3 DEF AssignmentsResolve

LEMMA RoundsFair == PoolInv => RoundRobinFair
<1> SUFFICES ASSUME PoolInv, ActiveProxies(proxies, order) # <<>>
             PROVE  Picked \notin turn
  BY DEF RoundRobinFair
<1> DEFINE R == ActiveProxies(proxies, order)
<1>1. R \in Seq(Proxy) /\ Distinct(R) /\ next \in Nat /\ RoundOK(R, next, turn) /\ R # <<>>
  BY ActiveListed DEF PoolInv, Sound, OtherTypes
<1>2. Picked = R[(next % Len(R)) + 1]
  BY DEF Picked
<1> HIDE DEF R
<1> QED  BY <1>1, <1>2, NextHadNone

\* Who brings a disabled proxy back.
LEMMA OnlyOperatorEnables ==
    ASSUME PoolInv, [Next]_vars
    PROVE  [\A p \in Proxy :
              proxies[p].status = "disabled" /\ proxies'[p].status \in ProxyStatus \ {"disabled"}
              => Enable(p) \/ (\E u \in Url : UpdateUrl(p, u)) \/ restarts' # restarts]_vars
<1> SUFFICES ASSUME Next, NEW p \in Proxy, proxies[p].status = "disabled",
                    proxies'[p].status \in ProxyStatus \ {"disabled"}
             PROVE  Enable(p) \/ (\E u \in Url : UpdateUrl(p, u)) \/ restarts' # restarts
  OBVIOUS
<1>1. /\ proxies \in [Proxy -> ProxyEntry] /\ restarts \in Nat
      /\ proxies[p] \in ProxyEntry /\ proxies' # proxies
  BY DEF PoolInv, Sound, OtherTypes
<1>2. ASSUME NEW flushed, Restart(flushed)
      PROVE  restarts' # restarts
  BY <1>1, <1>2 DEF Restart
<1>3. ASSUME NEW q \in Proxy, ProxyStep(q)
      PROVE  Enable(p) \/ \E u \in Url : UpdateUrl(p, u)
  <2>1. ASSUME NEW u \in Url, Add(q, u)
        PROVE  FALSE
    BY <1>1, <2>1 DEF Add, pool
  <2>2. ASSUME NEW r \in Proxy, NEW u \in Url, NEW v \in Url, ImportTwo(q, r, u, v)
        PROVE  FALSE
    <3>1. proxies' = [[proxies EXCEPT ![q] = ActiveEntry(u)] EXCEPT ![r] = ActiveEntry(v)]
      BY <2>2 DEF ImportTwo
    <3>2. p # q /\ p # r
      BY <2>2 DEF ImportTwo
    <3> QED  BY <1>1, <3>1, <3>2
  <2>3. ~RemoveProxy(q)
    <3> SUFFICES ASSUME RemoveProxy(q) PROVE FALSE
      OBVIOUS
    <3>1. proxies' = [proxies EXCEPT ![q] = NoEntry("removed")]
      BY DEF RemoveProxy
    <3> QED  BY <1>1, <3>1, Entries
  <2>4. ~UpdateName(q)
    BY <1>1 DEF UpdateName, Changed
  <2>5. ~CheckStarts(q)
    BY <1>1 DEF CheckStarts, pool
  <2>6. ~Disable(q)
    <3> SUFFICES ASSUME Disable(q) PROVE FALSE
      OBVIOUS
    <3>1. /\ proxies' = [proxies EXCEPT ![q] = [proxies[q] EXCEPT !.status = "disabled"]]
          /\ proxies[q] \in ProxyEntry /\ proxies[q].status \in ProxyStatus
      BY <1>1 DEF Disable, Changed, Exists
    <3>2. "disabled" \in ProxyStatus
      BY DEF ProxyStatus
    <3>3. [proxies[q] EXCEPT !.status = "disabled"].status = "disabled"
      BY <3>1, <3>2, StatusGiven
    <3> QED  BY <1>1, <3>1, <3>3
  <2>7. ASSUME NEW u \in Url, NEW answered \in BOOLEAN, CheckEnds(q, u, answered)
        PROVE  FALSE
    <3>1. proxies' = [proxies EXCEPT ![q] = Checked(proxies[q], answered)] /\ Exists(q)
      BY <1>1, <2>7 DEF CheckEnds
    <3>2. p = q
      BY <1>1, <3>1
    <3>3. Checked(proxies[p], answered) = [proxies[p] EXCEPT !.status = "disabled"]
      BY DEF Checked
    <3>4. "disabled" \in ProxyStatus
      BY DEF ProxyStatus
    <3>5. [proxies[p] EXCEPT !.status = "disabled"].status = "disabled"
      BY <1>1, <3>4, StatusGiven
    <3> QED  BY <1>1, <3>1, <3>2, <3>3, <3>5
  <2>8. ASSUME NEW u \in Url, UpdateUrl(q, u)
        PROVE  q = p
    BY <1>1, <2>8 DEF UpdateUrl, Changed
  <2>9. ASSUME Enable(q)
        PROVE  q = p
    BY <1>1, <2>9 DEF Enable, Changed
  <2> QED
    BY <1>3, <2>1, <2>2, <2>3, <2>4, <2>5, <2>6, <2>7, <2>8, <2>9 DEF ProxyStep
<1>4. ~AccountStep
  BY <1>1 DEF AccountStep, Unassign, PickRoundRobin, Assign, pool
<1>5. ~CheckAll /\ ~PersistTimer
  BY <1>1 DEF CheckAll, PersistTimer, pool
<1> QED  BY <1>2, <1>3, <1>4, <1>5 DEF Next

\* Whatever the operator does while checks are under way and writes fail: assignments
\* resolve, in memory and in the file; the file follows; a disabled proxy comes back by
\* the operator's word only; and every active proxy has its turn before any a second one.
THEOREM PoolTheorem == Spec => PoolKept
<1>1. Spec => []PoolInv
  BY PoolStarts, PoolStepKeeps, PTL DEF Spec
<1>2. PoolInv => TypeOK /\ AssignmentsResolve /\ FileFollows /\ RoundRobinFair
  BY TypesHold, AssignmentsHold, RoundsFair DEF PoolInv
<1>3. PoolInv /\ [Next]_vars =>
        [\A p \in Proxy :
           proxies[p].status = "disabled" /\ proxies'[p].status \in ProxyStatus \ {"disabled"}
           => Enable(p) \/ (\E u \in Url : UpdateUrl(p, u)) \/ restarts' # restarts]_vars
  BY OnlyOperatorEnables
<1> QED  BY <1>1, <1>2, <1>3, PTL DEF Spec, PoolKept, DisabledByOperator

-----------------------------------------------------------------------------
(* Both together *)

\* Each part of a behaviour of both is a behaviour of its own.
LEMMA EgressParts == EgressSpec => Spec /\ CookieSpec
<1>1. EgressInit => Init /\ CookieInit
  BY DEF EgressInit
<1>2. [EgressNext]_<<vars, cookieVars, focus>> => [Next]_vars /\ [CookieNext]_cookieVars
  BY DEF EgressNext
<1> QED  BY <1>1, <1>2, PTL DEF EgressSpec, Spec, CookieSpec

\* The proxies and the cookies of a behaviour of both: assignments resolve and follow the
\* operator, and every change of the cookies is taken by a write (PoolKept, JarKept).
THEOREM EgressTheorem == EgressSpec => []JarKept /\ PoolKept
BY EgressParts, CookieTheorem, PoolTheorem, PTL

-----------------------------------------------------------------------------
(* Answers that are passed on *)

Chunk == Nat \X Nat

TextRecord == [chunks : Seq(Chunk), form : {"asked", "restored"}]

EventRecord ==
    [event : {"created", "delta", "done", "completed", "incomplete", "failed"},
     texts : Seq(TextRecord)]

\* TextSent, of any events T and any text W.
DeltasIn(T) == {i \in DOMAIN T : T[i].event = "delta"}

SentIn(T) == UNION {{i} \X DOMAIN T[i].texts[1].chunks : i \in DeltasIn(T)}

ChunkOf(T, s) == T[s[1]].texts[1].chunks[s[2]]

Brings(T, W) ==
    /\ {ChunkOf(T, s) : s \in SentIn(T)} = W
    /\ \A s, t \in SentIn(T) : Earlier(s, t) => Earlier(ChunkOf(T, s), ChunkOf(T, t))

\* One more event.
LEMMA OneMore ==
    ASSUME NEW T \in Seq(EventRecord), NEW e \in EventRecord
    PROVE  LET U == T \o <<e>>
           IN  /\ U \in Seq(EventRecord) /\ Len(U) = Len(T) + 1
               /\ DOMAIN T = 1 .. Len(T) /\ DOMAIN U = 1 .. Len(T) + 1 /\ Len(T) \in Nat
               /\ \A i \in 1 .. Len(T) : U[i] = T[i]
               /\ U[Len(T) + 1] = e
<1> DEFINE U == T \o <<e>>
<1>1. U \in Seq(EventRecord) /\ Len(U) = Len(T) + 1 /\ Len(T) \in Nat
  OBVIOUS
<1>2. DOMAIN T = 1 .. Len(T) /\ DOMAIN U = 1 .. Len(T) + 1
  BY <1>1
<1>3. \A i \in 1 .. Len(T) : U[i] = T[i]
  OBVIOUS
<1>4. U[Len(T) + 1] = e
  OBVIOUS
<1> QED
  BY <1>1, <1>2, <1>3, <1>4

\* An event that is no delta brings no text.
LEMMA NoDelta ==
    ASSUME NEW T \in Seq(EventRecord), NEW e \in EventRecord, e.event # "delta",
           NEW W, Brings(T, W)
    PROVE  Brings(T \o <<e>>, W) /\ DeltasIn(T \o <<e>>) = DeltasIn(T)
<1> DEFINE U == T \o <<e>>
           n == Len(T)
<1>1. /\ DOMAIN T = 1 .. n /\ DOMAIN U = 1 .. n + 1 /\ n \in Nat
      /\ \A i \in 1 .. n : U[i] = T[i]
      /\ U[n + 1] = e
  BY OneMore
<1> HIDE DEF U, n
<1>2. DeltasIn(U) = DeltasIn(T)
  BY <1>1 DEF DeltasIn
<1>3. \A i \in DeltasIn(T) : U[i] = T[i]
  BY <1>1 DEF DeltasIn
<1>4. SentIn(U) = SentIn(T)
  BY <1>2, <1>3 DEF SentIn
<1>5. \A s \in SentIn(T) : ChunkOf(U, s) = ChunkOf(T, s)
  BY <1>3 DEF SentIn, ChunkOf
<1>6. Brings(U, W)
  BY <1>4, <1>5 DEF Brings
<1> QED
  BY <1>2, <1>6 DEF U

\* A delta brings its chunks: after those before, if they are later and in order.
LEMMA DeltaBrings ==
    ASSUME NEW T \in Seq(EventRecord), NEW W, Brings(T, W),
           NEW cs \in Seq(Chunk), NEW form \in {"asked", "restored"},
           NEW C, \A j \in DOMAIN cs : cs[j] \in C, \A c \in C : \E j \in DOMAIN cs : cs[j] = c,
           \A w \in W, j \in DOMAIN cs : Earlier(w, cs[j]),
           \A i, j \in DOMAIN cs : i < j => Earlier(cs[i], cs[j])
    PROVE  LET e == Event("delta", <<Text(cs, form)>>)
           IN  /\ e \in EventRecord
               /\ Brings(T \o <<e>>, W \cup C)
               /\ DeltasIn(T \o <<e>>) = DeltasIn(T) \cup {Len(T) + 1}
<1> DEFINE e == Event("delta", <<Text(cs, form)>>)
           U == T \o <<e>>
           n == Len(T)
           new == {n + 1} \X DOMAIN cs
<1>1. e \in EventRecord /\ e.event = "delta" /\ e.texts[1].chunks = cs
  BY DEF Event, Text, EventRecord, TextRecord
<1> HIDE DEF e
<1>2. /\ DOMAIN T = 1 .. n /\ DOMAIN U = 1 .. n + 1 /\ n \in Nat
      /\ \A i \in 1 .. n : U[i] = T[i]
      /\ U[n + 1] = e
  BY <1>1, OneMore
<1> HIDE DEF U, n
<1>3. DeltasIn(U) = DeltasIn(T) \cup {n + 1} /\ DeltasIn(T) \subseteq 1 .. n
  BY <1>1, <1>2 DEF DeltasIn
<1>4. \A i \in DeltasIn(T) : U[i] = T[i]
  BY <1>2, <1>3
<1>5. SentIn(U) = SentIn(T) \cup new
  BY <1>1, <1>2, <1>3, <1>4 DEF SentIn
<1>6. \A s \in SentIn(T) : ChunkOf(U, s) = ChunkOf(T, s) /\ s[1] \in 1 .. n /\ ChunkOf(T, s) \in W
  BY <1>3, <1>4 DEF SentIn, ChunkOf, Brings
<1>7. \A s \in new : s[1] = n + 1 /\ s[2] \in DOMAIN cs /\ ChunkOf(U, s) = cs[s[2]]
  BY <1>1, <1>2 DEF ChunkOf
<1>8. \A j \in DOMAIN cs : <<n + 1, j>> \in new /\ ChunkOf(U, <<n + 1, j>>) = cs[j]
  BY <1>7
<1>9. {ChunkOf(U, s) : s \in SentIn(U)} = W \cup C
  <2>1. {ChunkOf(U, s) : s \in SentIn(T)} = W
    BY <1>6 DEF Brings
  <2>2. {ChunkOf(U, s) : s \in new} = C
    <3>1. \A s \in new : ChunkOf(U, s) \in C
      BY <1>7
    <3>2. \A c \in C : \E s \in new : ChunkOf(U, s) = c
      BY <1>8
    <3> HIDE DEF new
    <3> QED  BY <3>1, <3>2
  <2> QED
    BY <1>5, <2>1, <2>2
<1>10. ASSUME NEW s \in SentIn(U), NEW t \in SentIn(U), Earlier(s, t)
       PROVE  Earlier(ChunkOf(U, s), ChunkOf(U, t))
  <2> HIDE DEF new
  <2>1. CASE s \in SentIn(T) /\ t \in SentIn(T)
    BY <1>6, <1>10, <2>1 DEF Brings
  <2>2. CASE s \in SentIn(T) /\ t \in new
    BY <1>6, <1>7, <2>2
  <2>3. CASE s \in new /\ t \in SentIn(T)
    <3>1. s[1] = n + 1 /\ t[1] \in 1 .. n
      BY <1>6, <1>7, <2>3
    <3> QED
      BY <1>2, <1>10, <3>1 DEF Earlier
  <2>4. CASE s \in new /\ t \in new
    <3>1. s[1] = n + 1 /\ t[1] = n + 1 /\ s[2] \in DOMAIN cs /\ t[2] \in DOMAIN cs
      BY <1>7, <2>4
    <3>2. s[2] < t[2]
      BY <1>2, <1>10, <3>1 DEF Earlier
    <3> QED
      BY <1>7, <2>4, <3>1, <3>2
  <2> QED
    BY <1>5, <2>1, <2>2, <2>3, <2>4
<1>11. Brings(U, W \cup C)
  BY <1>9, <1>10 DEF Brings
<1> QED
  BY <1>1, <1>3, <1>11 DEF e, U, n

\* A delta of one chunk that is later than those before.
LEMMA ChunkBrings ==
    ASSUME NEW T \in Seq(EventRecord), NEW W, Brings(T, W), NEW chunk \in Chunk,
           \A w \in W : Earlier(w, chunk)
    PROVE  LET e == Event("delta", <<Text(<<chunk>>, "asked")>>)
           IN  e \in EventRecord /\ Brings(T \o <<e>>, W \cup {chunk})
<1> DEFINE one == <<chunk>>
           form == "asked"
<1>1. one \in Seq(Chunk) /\ DOMAIN one = {1} /\ one[1] = chunk /\ form \in {"asked", "restored"}
  OBVIOUS
<1> HIDE DEF one, form
<1>2. /\ \A w \in W, j \in DOMAIN one : Earlier(w, one[j])
      /\ \A i, j \in DOMAIN one : i < j => Earlier(one[i], one[j])
      /\ \A j \in DOMAIN one : one[j] \in {chunk}
      /\ \A c \in {chunk} : \E j \in DOMAIN one : one[j] = c
  BY <1>1
<1> DEFINE C == {chunk}
<1> HIDE DEF C
<1>3. /\ \A j \in DOMAIN one : one[j] \in C
      /\ \A c \in C : \E j \in DOMAIN one : one[j] = c
  BY <1>2 DEF C
<1>4. LET e == Event("delta", <<Text(one, form)>>)
      IN  /\ e \in EventRecord
          /\ Brings(T \o <<e>>, W \cup C)
          /\ DeltasIn(T \o <<e>>) = DeltasIn(T) \cup {Len(T) + 1}
  BY <1>1, <1>2, <1>3, DeltaBrings
<1> QED
  BY <1>4 DEF one, form, C

\* Without deltas there is no text.
LEMMA NoText ==
    ASSUME NEW T, DeltasIn(T) = {} PROVE Brings(T, {})
BY DEF Brings, SentIn

\* The first event stays the first.
LEMMA FirstStays ==
    ASSUME NEW T \in Seq(EventRecord), T # <<>>, T[1].event = "created", NEW e \in EventRecord
    PROVE  /\ T \o <<e>> \in Seq(EventRecord) /\ T \o <<e>> # <<>>
           /\ (T \o <<e>>)[1].event = "created"
<1> DEFINE U == T \o <<e>>
<1>1. U \in Seq(EventRecord) /\ Len(U) = Len(T) + 1 /\ \A i \in 1 .. Len(T) : U[i] = T[i]
  BY OneMore
<1>2. Len(T) \in Nat \ {0}
  BY EmptySeq
<1> HIDE DEF U
<1>3. 1 \in 1 .. Len(T) /\ U # <<>>
  BY <1>1, <1>2, EmptySeq
<1> QED
  BY <1>1, <1>3 DEF U

-----------------------------------------------------------------------------

\* The parts P, of which a were announced: each is made of the places of its chunks, and
\* whole but for the last.
PartsInOrder(P, a) ==
    /\ P \in Seq(Seq(Chunk)) /\ Len(P) <= MaxParts
    /\ \A p \in 1 .. Len(P) :
          /\ Len(P[p]) \in 1 .. PartLength
          /\ \A k \in 1 .. Len(P[p]) : P[p][k] = <<p, k>>
    /\ a \in 0 .. Len(P) /\ Len(P) - a <= 1
    /\ \A p \in 1 .. a : Len(P[p]) = PartLength

\* Given, of any parts.
WrittenIn(P) == UNION {ToSet(P[p]) : p \in DOMAIN P}

\* What is written are the places in the parts.
LEMMA WrittenPlaces ==
    ASSUME NEW P, NEW a, PartsInOrder(P, a)
    PROVE  /\ Len(P) \in Nat /\ DOMAIN P = 1 .. Len(P)
           /\ \A p \in 1 .. Len(P) : /\ P[p] \in Seq(Chunk)
                                     /\ DOMAIN P[p] = 1 .. Len(P[p])
                                     /\ ToSet(P[p]) = {p} \X (1 .. Len(P[p]))
           /\ WrittenIn(P) = UNION {{p} \X (1 .. Len(P[p])) : p \in 1 .. Len(P)}
<1>1. /\ Len(P) \in Nat /\ DOMAIN P = 1 .. Len(P)
      /\ \A p \in 1 .. Len(P) : P[p] \in Seq(Chunk)
  BY ElementOfSeq DEF PartsInOrder
<1>2. \A p \in 1 .. Len(P) : DOMAIN P[p] = 1 .. Len(P[p])
  BY <1>1
<1>3. ASSUME NEW p \in 1 .. Len(P)
      PROVE  ToSet(P[p]) = {p} \X (1 .. Len(P[p]))
  <2> DEFINE s == P[p]
             n == Len(s)
  <2>1. ToSet(s) = {s[k] : k \in 1 .. n}
    BY <1>2 DEF ToSet
  <2>2. \A k \in 1 .. n : s[k] = <<p, k>>
    BY DEF PartsInOrder
  <2> HIDE DEF n, s
  <2>3. {s[k] : k \in 1 .. n} = {<<p, k>> : k \in 1 .. n}
    BY <2>2
  <2>4. {<<p, k>> : k \in 1 .. n} = {p} \X (1 .. n)
    OBVIOUS
  <2> QED
    BY <2>1, <2>3, <2>4 DEF n, s
<1>4. WrittenIn(P) = UNION {{p} \X (1 .. Len(P[p])) : p \in 1 .. Len(P)}
  <2>1. {ToSet(P[p]) : p \in DOMAIN P} = {{p} \X (1 .. Len(P[p])) : p \in 1 .. Len(P)}
    BY <1>1, <1>3
  <2> QED
    BY <2>1 DEF WrittenIn
<1> QED
  BY <1>1, <1>2, <1>3, <1>4

\* What is written next, the parts with it, and that there is room for it.
Begins(P, a) == Len(P) = 0 \/ a = Len(P)

NextPlace(P, a) == IF Begins(P, a) THEN <<Len(P) + 1, 1>> ELSE <<Len(P), Len(P[Len(P)]) + 1>>

NextParts(P, a) ==
    IF Begins(P, a)
    THEN Append(P, <<NextPlace(P, a)>>)
    ELSE [P EXCEPT ![Len(P)] = Append(P[Len(P)], NextPlace(P, a))]

HasRoom(P, a) == IF Begins(P, a) THEN Len(P) < MaxParts ELSE Len(P[Len(P)]) # PartLength

\* The first chunk of a new part is later than all that was written.
LEMMA NewPart ==
    ASSUME NEW P, NEW n, n = Len(P), PartsInOrder(P, n), HasRoom(P, n)
    PROVE  LET chunk == NextPlace(P, n)
               Q == NextParts(P, n)
           IN  /\ PartsInOrder(Q, n) /\ Len(Q) = n + 1 /\ Q[n + 1] = <<chunk>>
               /\ chunk \in Chunk /\ WrittenIn(Q) = WrittenIn(P) \cup {chunk}
               /\ \A w \in WrittenIn(P) : Earlier(w, chunk)
<1> DEFINE chunk == <<n + 1, 1>>
           one == <<chunk>>
           Q == Append(P, one)
<1>0. n < MaxParts /\ NextPlace(P, n) = chunk /\ NextParts(P, n) = Q
  BY DEF HasRoom, NextPlace, NextParts, Begins
<1>1. /\ P \in Seq(Seq(Chunk)) /\ n \in Nat
      /\ \A p \in 1 .. n : /\ Len(P[p]) \in 1 .. PartLength
                           /\ \A k \in 1 .. Len(P[p]) : P[p][k] = <<p, k>>
      /\ \A p \in 1 .. n : Len(P[p]) = PartLength
  BY DEF PartsInOrder
<1>2. chunk \in Chunk /\ one \in Seq(Chunk) /\ Len(one) = 1 /\ one[1] = chunk
  BY <1>1 DEF Chunk
<1> HIDE DEF one
<1>3. /\ Q \in Seq(Seq(Chunk)) /\ Len(Q) = n + 1
      /\ \A p \in 1 .. n : Q[p] = P[p]
      /\ Q[n + 1] = one
  BY <1>1, <1>2, AppendProperties
<1> HIDE DEF Q
<1>4. \A p \in 1 .. n + 1 : /\ Len(Q[p]) \in 1 .. PartLength
                            /\ \A k \in 1 .. Len(Q[p]) : Q[p][k] = <<p, k>>
  <2>1. \A p \in 1 .. n + 1 : p # n + 1 => p \in 1 .. n
    BY <1>1
  <2>2. 1 \in 1 .. PartLength /\ \A k \in 1 .. 1 : k = 1
    BY PassAssumption
  <2>3. Len(Q[n + 1]) = 1 /\ \A k \in 1 .. 1 : Q[n + 1][k] = <<n + 1, k>>
    BY <1>2, <1>3, <2>2
  <2> HIDE DEF chunk
  <2> SUFFICES ASSUME NEW p \in 1 .. n + 1
               PROVE  /\ Len(Q[p]) \in 1 .. PartLength
                      /\ \A k \in 1 .. Len(Q[p]) : Q[p][k] = <<p, k>>
    OBVIOUS
  <2>4. CASE p = n + 1
    BY <2>2, <2>3, <2>4
  <2>5. CASE p # n + 1
    BY <1>1, <1>3, <2>1, <2>5
  <2> QED
    BY <2>4, <2>5
<1>5. PartsInOrder(Q, n)
  BY <1>0, <1>1, <1>3, <1>4, PassAssumption DEF PartsInOrder
<1>6. WrittenIn(P) = UNION {{p} \X (1 .. Len(P[p])) : p \in 1 .. n}
  BY WrittenPlaces
<1>7. WrittenIn(Q) = UNION {{p} \X (1 .. Len(Q[p])) : p \in 1 .. n + 1}
  BY <1>3, <1>5, WrittenPlaces
<1>8. WrittenIn(Q) = WrittenIn(P) \cup {chunk}
  <2>1. \A p \in 1 .. n : {p} \X (1 .. Len(Q[p])) = {p} \X (1 .. Len(P[p]))
    BY <1>3
  <2>2. {n + 1} \X (1 .. Len(Q[n + 1])) = {chunk}
    <3>1. 1 .. Len(Q[n + 1]) = {1}
      <4>1. Len(Q[n + 1]) = 1
        BY <1>2, <1>3
      <4>2. 1 .. 1 = {1}
        OBVIOUS
      <4> QED
        BY <4>1, <4>2
    <3>2. {n + 1} \X {1} = {<<n + 1, 1>>}
      OBVIOUS
    <3> QED
      BY <3>1, <3>2
  <2>3. 1 .. n + 1 = (1 .. n) \cup {n + 1}
    BY <1>1
  <2> QED
    BY <1>6, <1>7, <2>1, <2>2, <2>3
<1>9. \A w \in WrittenIn(P) : Earlier(w, chunk)
  <2>1. \A w \in WrittenIn(P) : w[1] \in 1 .. n
    BY <1>6
  <2> QED
    BY <1>1, <2>1 DEF Earlier
<1> HIDE DEF chunk
<1> QED
  BY <1>0, <1>2, <1>3, <1>5, <1>8, <1>9 DEF one

\* So is the next chunk of the last part, which is not whole.
LEMMA LongerPart ==
    ASSUME NEW P, NEW a, PartsInOrder(P, a), NEW n, n = Len(P), ~Begins(P, a), HasRoom(P, a)
    PROVE  LET chunk == NextPlace(P, a)
               Q == NextParts(P, a)
           IN  /\ PartsInOrder(Q, a) /\ Len(Q) = n /\ Q[n] = Append(P[n], chunk)
               /\ chunk \in Chunk /\ WrittenIn(Q) = WrittenIn(P) \cup {chunk}
               /\ \A w \in WrittenIn(P) : Earlier(w, chunk)
<1> DEFINE l == Len(P[n])
           chunk == <<n, l + 1>>
           longer == Append(P[n], chunk)
           Q == [P EXCEPT ![n] = longer]
<1>0. n # 0 /\ a # n /\ l # PartLength /\ NextPlace(P, a) = chunk /\ NextParts(P, a) = Q
  BY DEF HasRoom, NextPlace, NextParts, Begins
<1>1. /\ P \in Seq(Seq(Chunk)) /\ n \in 1 .. n /\ n \in Nat /\ n <= MaxParts /\ a = n - 1
      /\ \A p \in 1 .. n : /\ Len(P[p]) \in 1 .. PartLength
                           /\ \A k \in 1 .. Len(P[p]) : P[p][k] = <<p, k>>
      /\ \A p \in 1 .. a : Len(P[p]) = PartLength
  BY <1>0 DEF PartsInOrder
<1>2. P[n] \in Seq(Chunk) /\ l \in 1 .. PartLength /\ l + 1 \in 1 .. PartLength
  BY <1>0, <1>1, ElementOfSeq, PassAssumption
<1>3. chunk \in Chunk
  BY <1>1, <1>2 DEF Chunk
<1>4. /\ longer \in Seq(Chunk) /\ Len(longer) = l + 1
      /\ \A k \in 1 .. l : longer[k] = P[n][k]
      /\ longer[l + 1] = chunk
  <2> HIDE DEF chunk
  <2> QED
    BY <1>2, <1>3, AppendProperties
<1>5. \A k \in 1 .. l + 1 : longer[k] = <<n, k>>
  <2>1. \A k \in 1 .. l : P[n][k] = <<n, k>>
    BY <1>1
  <2>2. \A k \in 1 .. l + 1 : k # l + 1 => k \in 1 .. l
    BY <1>2
  <2>3. longer[l + 1] = <<n, l + 1>>
    BY <1>4
  <2> HIDE DEF l, longer, chunk
  <2> QED
    BY <1>4, <2>1, <2>2, <2>3
<1> HIDE DEF longer
<1>6. /\ Q \in Seq(Seq(Chunk)) /\ Len(Q) = n
      /\ \A p \in 1 .. n : Q[p] = IF p = n THEN longer ELSE P[p]
  BY <1>1, <1>4, ExceptSeq
<1> HIDE DEF Q
<1>7. \A p \in 1 .. n : /\ Len(Q[p]) \in 1 .. PartLength
                        /\ \A k \in 1 .. Len(Q[p]) : Q[p][k] = <<p, k>>
  BY <1>1, <1>2, <1>4, <1>5, <1>6
<1>8. PartsInOrder(Q, a)
  <2>1. \A p \in 1 .. a : p \in 1 .. n /\ p # n
    BY <1>1
  <2>2. \A p \in 1 .. a : Len(Q[p]) = PartLength
    BY <1>1, <1>6, <2>1
  <2>3. a \in 0 .. n /\ n - a <= 1
    BY <1>1
  <2> QED
    BY <1>1, <1>6, <1>7, <2>2, <2>3 DEF PartsInOrder
<1>9. WrittenIn(P) = UNION {{p} \X (1 .. Len(P[p])) : p \in 1 .. n}
  BY WrittenPlaces
<1>10. WrittenIn(Q) = UNION {{p} \X (1 .. Len(Q[p])) : p \in 1 .. n}
  BY <1>6, <1>8, WrittenPlaces
<1>11. WrittenIn(Q) = WrittenIn(P) \cup {chunk}
  <2>1. \A p \in 1 .. n : p # n => {p} \X (1 .. Len(Q[p])) = {p} \X (1 .. Len(P[p]))
    BY <1>6
  <2>2. 1 .. l + 1 = (1 .. l) \cup {l + 1}
    BY <1>2
  <2>3. {n} \X (1 .. Len(Q[n])) = ({n} \X (1 .. l)) \cup {chunk}
    BY <1>1, <1>4, <1>6, <2>2
  <2> HIDE DEF chunk
  <2>4. ASSUME NEW w PROVE w \in WrittenIn(Q) <=> w \in WrittenIn(P) \cup {chunk}
    <3>1. w \in WrittenIn(Q) <=> \E p \in 1 .. n : w \in {p} \X (1 .. Len(Q[p]))
      BY <1>10
    <3>2. w \in WrittenIn(P) <=> \E p \in 1 .. n : w \in {p} \X (1 .. Len(P[p]))
      BY <1>9
    <3>3. w \in {n} \X (1 .. Len(Q[n])) <=> w \in {n} \X (1 .. Len(P[n])) \/ w = chunk
      BY <2>3
    <3> QED
      BY <1>1, <2>1, <3>1, <3>2, <3>3
  <2> QED
    BY <2>4
<1>12. \A w \in WrittenIn(P) : Earlier(w, chunk)
  <2>1. \A w \in WrittenIn(P) : w[1] \in 1 .. n /\ (w[1] = n => w[2] \in 1 .. l)
    BY <1>9
  <2> QED
    BY <1>1, <1>2, <2>1 DEF Earlier
<1> HIDE DEF chunk
<1> QED
  BY <1>0, <1>1, <1>3, <1>6, <1>8, <1>11, <1>12 DEF longer

-----------------------------------------------------------------------------

PassTypes ==
    /\ held \in BOOLEAN
    /\ over \in {"no", "completed", "incomplete", "failed", "closed"}
    /\ streamed \in Seq(EventRecord)
    /\ streamed # <<>> => streamed[1].event = "created"
    /\ noted \in [id : BOOLEAN, usage : {0, 1}]
    /\ tupleTextBuffer \in Seq(Chunk) /\ (tupleTextBuffer # <<>> => held)

\* As long as the response goes on, its text is in the deltas, or all in the buffer.
GoingOn ==
    /\ noted.usage = 0 /\ assembled = Pending
    /\ ~held => Brings(streamed, WrittenIn(parts))
    /\ held => /\ DeltasIn(streamed) = {}
               /\ {tupleTextBuffer[i] : i \in DOMAIN tupleTextBuffer} = WrittenIn(parts)
               /\ \A i, j \in DOMAIN tupleTextBuffer :
                     i < j => Earlier(tupleTextBuffer[i], tupleTextBuffer[j])
               /\ Len(parts) = 1 => tupleTextBuffer = parts[1]

PassInv == PassTypes /\ PartsInOrder(parts, announced) /\ (over = "no" => GoingOn) /\ AnswersAgree

\* TextSent, in terms of any events and any text.
LEMMA TextBrought == TextSent <=> Brings(streamed, WrittenIn(parts))
<1>1. Given = WrittenIn(parts) /\ Sent = SentIn(streamed)
  BY DEF Given, WrittenIn, Sent, SentIn, Deltas, DeltasIn
<1>2. \A s : ChunkAt(s) = ChunkOf(streamed, s)
  BY DEF ChunkAt, ChunkOf
<1> QED
  BY <1>1, <1>2 DEF TextSent, Brings

\* Nothing was said, and nothing was passed on.
LEMMA PassStarts == PassInit => PassInv
<1> SUFFICES ASSUME PassInit PROVE PassInv
  OBVIOUS
<1> USE DEF PassInit
<1>1. DOMAIN parts = {} /\ Len(parts) = 0 /\ DOMAIN streamed = {} /\ DOMAIN tupleTextBuffer = {}
  OBVIOUS
<1>2. WrittenIn(parts) = {} /\ SentIn(streamed) = {}
  BY <1>1 DEF WrittenIn, SentIn, DeltasIn
<1>3. PassTypes
  BY <1>1 DEF PassTypes
<1>4. PartsInOrder(parts, announced)
  <2>1. parts \in Seq(Seq(Chunk)) /\ 1 .. Len(parts) = {} /\ 1 .. announced = {}
    BY <1>1
  <2> QED
    BY <1>1, <2>1, PassAssumption DEF PartsInOrder
<1>5. GoingOn
  <2>1. DeltasIn(streamed) = {} /\ Brings(streamed, {})
    BY <1>1, NoText DEF DeltasIn
  <2>2. {tupleTextBuffer[i] : i \in DOMAIN tupleTextBuffer} = {}
    BY <1>1
  <2>3. \A i, j \in DOMAIN tupleTextBuffer :
           i < j => Earlier(tupleTextBuffer[i], tupleTextBuffer[j])
    BY <1>1
  <2>4. noted.usage = 0 /\ assembled = Pending /\ Len(parts) # 1
    BY <1>1
  <2> QED
    BY <1>2, <2>1, <2>2, <2>3, <2>4 DEF GoingOn
<1>6. AnswersAgree
  BY DEF AnswersAgree
<1> QED
  BY <1>3, <1>4, <1>5, <1>6 DEF PassInv

\* The first event is passed on.
LEMMA CreatesKeeps ==
    ASSUME PassInv, Creates PROVE PassInv'
<1> DEFINE e == Event("created", <<>>)
<1>1. e \in EventRecord /\ e.event = "created"
  BY DEF Event, EventRecord
<1> HIDE DEF e
<1>2. /\ streamed = <<>> /\ over = "no" /\ StreamPassthrough(e) /\ CollectPassthrough(e) /\ Note(e)
      /\ UNCHANGED <<held, parts, announced, over>>
  BY DEF Creates, Takes, e
<1>3. GoingOn /\ PassTypes
  BY <1>2 DEF PassInv
<1>4. streamed' = streamed \o <<e>> /\ UNCHANGED tupleTextBuffer
  <2>1. Flush(e) = <<>> /\ Patch(e) = e
    BY <1>1 DEF Flush, Patch
  <2> QED
    BY <1>1, <1>2, <1>3, <2>1, ConcatEmptySeq DEF StreamPassthrough, PassTypes
<1>5. streamed' \in Seq(EventRecord) /\ streamed'[1] = e
  BY <1>1, <1>2, <1>4
<1>6. assembled' = Pending
  BY <1>1, <1>2, <1>3 DEF CollectPassthrough, GoingOn, Pending
<1>7. noted' \in [id : BOOLEAN, usage : {0, 1}] /\ noted'.usage = 0
  BY <1>1, <1>2, <1>3 DEF Note, GoingOn, PassTypes
<1>8. PassTypes'
  BY <1>1, <1>2, <1>3, <1>4, <1>5, <1>7 DEF PassTypes
<1>9. GoingOn'
  <2>1. CASE ~held
    <3>1. Brings(streamed', WrittenIn(parts))
      BY <1>1, <1>3, <1>4, <2>1, NoDelta DEF GoingOn, PassTypes
    <3> QED
      BY <1>2, <1>6, <1>7, <2>1, <3>1 DEF GoingOn
  <2>2. CASE held
    <3>1. DeltasIn(streamed') = {}
      BY <1>1, <1>3, <1>4, <2>2, NoDelta, NoText DEF GoingOn, PassTypes
    <3> QED
      BY <1>2, <1>3, <1>4, <1>6, <1>7, <2>2, <3>1 DEF GoingOn
  <2> QED
    BY <2>1, <2>2
<1>10. PartsInOrder(parts, announced)'
  BY <1>2 DEF PassInv, PartsInOrder
<1> QED
  BY <1>2, <1>8, <1>9, <1>10 DEF PassInv, AnswersAgree

\* Either way there is one chunk more, later than the others.
LEMMA NextChunk ==
    ASSUME NEW P, NEW a, PartsInOrder(P, a), HasRoom(P, a)
    PROVE  LET chunk == NextPlace(P, a)
               Q == NextParts(P, a)
           IN  /\ PartsInOrder(Q, a) /\ chunk \in Chunk
               /\ WrittenIn(Q) = WrittenIn(P) \cup {chunk}
               /\ \A w \in WrittenIn(P) : Earlier(w, chunk)
               /\ Len(P) # 0 /\ Len(Q) = 1 => Len(P) = 1 /\ Q[1] = Append(P[1], chunk)
               /\ Len(P) = 0 => Q[1] = <<chunk>>
<1> DEFINE n == Len(P)
<1>1. n \in Nat
  BY WrittenPlaces
<1>2. CASE Begins(P, a)
  <2>1. a = n
    BY <1>2 DEF PartsInOrder, Begins
  <2> QED
    BY <1>1, <2>1, NewPart
<1>3. CASE ~Begins(P, a)
  <2>1. n # 0
    BY <1>3 DEF Begins
  <2> QED
    BY <1>1, <1>3, <2>1, LongerPart
<1> QED
  BY <1>2, <1>3

\* A delta is passed on, or held back for the tuple schema.
LEMMA SaysKeeps ==
    ASSUME PassInv, Says PROVE PassInv'
<1> DEFINE n == Len(parts)
           begin == n = 0 \/ announced = n
           chunk == IF begin THEN <<n + 1, 1>> ELSE <<n, Len(parts[n]) + 1>>
           one == <<chunk>>
           e == Event("delta", <<Text(one, "asked")>>)
<1>1. /\ over = "no" /\ streamed # <<>>
      /\ IF begin THEN n < MaxParts ELSE ~Whole(n)
      /\ parts' = IF begin THEN Append(parts, one) ELSE [parts EXCEPT ![n] = Append(parts[n], chunk)]
      /\ StreamPassthrough(e) /\ CollectPassthrough(e) /\ Note(e)
      /\ UNCHANGED <<held, announced, over>>
  BY DEF Says, Takes, Writing, Asked
<1>2. PassTypes /\ PartsInOrder(parts, announced) /\ GoingOn
  BY <1>1 DEF PassInv
<1>3. /\ PartsInOrder(parts', announced) /\ chunk \in Chunk
      /\ WrittenIn(parts') = WrittenIn(parts) \cup {chunk}
      /\ \A w \in WrittenIn(parts) : Earlier(w, chunk)
      /\ n # 0 /\ Len(parts') = 1 => n = 1 /\ parts'[1] = Append(parts[1], chunk)
      /\ n = 0 => parts'[1] = one
  <2>1. chunk = NextPlace(parts, announced)
    BY DEF NextPlace, Begins
  <2>2. parts' = NextParts(parts, announced)
    BY <1>1, <2>1 DEF NextParts, Begins
  <2>3. HasRoom(parts, announced)
    BY <1>1 DEF HasRoom, Begins, Whole
  <2> HIDE DEF chunk
  <2> QED
    BY <1>2, <2>1, <2>2, <2>3, NextChunk
<1> HIDE DEF chunk
<1>4. /\ one \in Seq(Chunk) /\ DOMAIN one = {1} /\ one[1] = chunk /\ Len(one) = 1
  BY <1>3
<1>5. e.event = "delta" /\ e.texts[1].chunks = one
  BY DEF Event, Text
<1> HIDE DEF one, e, begin, n
<1>6. assembled' = Pending /\ noted'.usage = 0 /\ noted' \in [id : BOOLEAN, usage : {0, 1}]
  BY <1>1, <1>2, <1>5 DEF CollectPassthrough, Note, GoingOn, PassTypes, Pending
<1>7. CASE ~held
  <2>1. Flush(e) = <<>> /\ Patch(e) = e
    BY <1>5 DEF Flush, Patch
  <2>2. streamed' = streamed \o <<e>> /\ tupleTextBuffer' = tupleTextBuffer
    BY <1>1, <1>2, <1>7, <2>1, ConcatEmptySeq DEF StreamPassthrough, PassTypes
  <2>3. Brings(streamed, WrittenIn(parts)) /\ streamed \in Seq(EventRecord)
    BY <1>2, <1>7 DEF GoingOn, PassTypes
  <2>6. e \in EventRecord /\ Brings(streamed \o <<e>>, WrittenIn(parts) \cup {chunk})
    <3>1. LET d == Event("delta", <<Text(<<chunk>>, "asked")>>)
          IN  d \in EventRecord /\ Brings(streamed \o <<d>>, WrittenIn(parts) \cup {chunk})
      BY <1>3, <2>3, ChunkBrings
    <3> QED
      BY <3>1 DEF e, one
  <2>7. PassTypes'
    <3>1. streamed' \in Seq(EventRecord) /\ streamed'[1].event = "created"
      BY <1>1, <1>2, <2>2, <2>6, FirstStays DEF PassTypes
    <3> QED
      BY <1>1, <1>2, <1>6, <2>2, <3>1 DEF PassTypes
  <2>8. GoingOn'
    BY <1>1, <1>3, <1>6, <1>7, <2>2, <2>6 DEF GoingOn
  <2> QED
    BY <1>1, <1>3, <2>7, <2>8 DEF PassInv, AnswersAgree
<1>8. CASE held
  <2> DEFINE b == tupleTextBuffer
             c == tupleTextBuffer \o one
             m == Len(tupleTextBuffer)
  <2>1. streamed' = streamed /\ tupleTextBuffer' = c
    BY <1>1, <1>5, <1>8 DEF StreamPassthrough
  <2>2. b \in Seq(Chunk)
    BY <1>2 DEF PassTypes
  <2>7. c = Append(b, chunk)
    BY <1>3, <2>2 DEF one
  <2>3. /\ c \in Seq(Chunk) /\ Len(c) = m + 1 /\ m \in Nat
        /\ \A i \in 1 .. m : c[i] = b[i]
        /\ c[m + 1] = chunk
    BY <1>3, <2>2, <2>7, AppendProperties
  <2>4. DOMAIN b = 1 .. m /\ DOMAIN c = 1 .. m + 1
    BY <2>2, <2>3
  <2>5. b = <<>> <=> m = 0
    BY <2>2, EmptySeq
  <2>6. /\ {b[i] : i \in DOMAIN b} = WrittenIn(parts)
        /\ \A i, j \in DOMAIN b : i < j => Earlier(b[i], b[j])
        /\ Len(parts) = 1 => b = parts[1]
        /\ DeltasIn(streamed) = {}
    BY <1>2, <1>8 DEF GoingOn
  <2>8. n = 0 => c = one
    <3>1. n = 0 => WrittenIn(parts) = {}
      <4>1. WrittenIn(parts) = UNION {{p} \X (1 .. Len(parts[p])) : p \in 1 .. Len(parts)}
        BY <1>2, WrittenPlaces
      <4> QED
        BY <4>1 DEF n
    <3>2. n = 0 => m = 0
      <4> HIDE DEF m
      <4>1. SUFFICES ASSUME n = 0, m # 0 PROVE FALSE
        OBVIOUS
      <4>2. 1 \in DOMAIN b
        BY <2>3, <2>4, <4>1
      <4> QED
        BY <2>6, <3>1, <4>1, <4>2
    <3> QED
      BY <1>4, <2>5, <3>2, ConcatEmptySeq
  <2>9. Len(parts') = 1 => c = parts'[1]
    <3>1. CASE n = 0
      BY <1>3, <2>8, <3>1
    <3>2. CASE n # 0
      <4>1. SUFFICES ASSUME Len(parts') = 1 PROVE c = parts'[1]
        OBVIOUS
      <4>2. n = 1 /\ parts'[1] = Append(parts[1], chunk)
        BY <1>3, <3>2, <4>1
      <4>3. b = parts[1]
        BY <2>6, <4>2 DEF n
      <4> HIDE DEF b, c
      <4> QED
        BY <2>7, <4>2, <4>3
    <3> QED
      BY <3>1, <3>2
  <2>10. c # <<>>
    BY <2>3
  <2> HIDE DEF b, c, m
  <2>11. {c[i] : i \in DOMAIN c} = WrittenIn(parts')
    <3>1. \A i \in DOMAIN c : c[i] \in WrittenIn(parts')
      BY <1>3, <2>3, <2>4, <2>6
    <3>2. \A w \in WrittenIn(parts') : \E i \in DOMAIN c : c[i] = w
      <4>1. \A w \in WrittenIn(parts) : \E i \in DOMAIN b : b[i] = w
        BY <2>6
      <4>2. \A i \in DOMAIN b : i \in DOMAIN c /\ c[i] = b[i]
        BY <2>3, <2>4
      <4>3. m + 1 \in DOMAIN c
        BY <2>3, <2>4
      <4> QED
        BY <1>3, <2>3, <4>1, <4>2, <4>3
    <3> QED
      BY <3>1, <3>2
  <2>12. \A i, j \in DOMAIN c : i < j => Earlier(c[i], c[j])
    <3> SUFFICES ASSUME NEW i \in DOMAIN c, NEW j \in DOMAIN c, i < j
                 PROVE  Earlier(c[i], c[j])
      OBVIOUS
    <3>1. i \in 1 .. m /\ i \in DOMAIN b /\ c[i] = b[i] /\ b[i] \in WrittenIn(parts)
      BY <2>3, <2>4, <2>6
    <3>2. CASE j = m + 1
      BY <1>3, <2>3, <3>1, <3>2
    <3>3. CASE j # m + 1
      BY <2>3, <2>4, <2>6, <3>1, <3>3
    <3> QED
      BY <3>2, <3>3
  <2>13. PassTypes'
    BY <1>1, <1>2, <1>6, <1>8, <2>1, <2>3, <2>10 DEF PassTypes, b
  <2>14. GoingOn'
    BY <1>1, <1>6, <1>8, <2>1, <2>6, <2>9, <2>11, <2>12 DEF GoingOn, c
  <2> QED
    BY <1>1, <1>3, <2>13, <2>14 DEF PassInv, AnswersAgree
<1> QED
  BY <1>7, <1>8

\* A part that is done is passed on, or held back with its deltas.
LEMMA PartDoneKeeps ==
    ASSUME PassInv, PartDone PROVE PassInv'
<1> DEFINE e == Event("done", <<Asked(Last(parts))>>)
           n == Len(parts)
<1>1. /\ over = "no" /\ streamed # <<>> /\ announced < n /\ Len(parts[n]) = PartLength
      /\ announced' = announced + 1
      /\ StreamPassthrough(e) /\ CollectPassthrough(e) /\ Note(e)
      /\ UNCHANGED <<held, parts, over>>
  BY DEF PartDone, Takes, Writing, Whole
<1>2. PassTypes /\ PartsInOrder(parts, announced) /\ GoingOn
  BY <1>1 DEF PassInv
<1>3. n \in Nat /\ announced = n - 1 /\ parts[n] \in Seq(Chunk) /\ announced' = n
  BY <1>1, <1>2, WrittenPlaces DEF PartsInOrder
<1>4. PartsInOrder(parts, n)
  <2>1. \A p \in 1 .. n : p = n \/ p \in 1 .. announced
    BY <1>3
  <2>2. \A p \in 1 .. n : Len(parts[p]) = PartLength
    BY <1>1, <1>2, <2>1 DEF PartsInOrder
  <2>3. n \in 0 .. n /\ n - n <= 1
    BY <1>3
  <2> QED
    BY <1>2, <2>2, <2>3 DEF PartsInOrder
<1>5. e \in EventRecord /\ e.event = "done"
  BY <1>3 DEF Event, EventRecord, Asked, Text, TextRecord, Last
<1> HIDE DEF e
<1>6. streamed' = streamed \o <<e>> /\ tupleTextBuffer' = tupleTextBuffer
  <2>1. Flush(e) = <<>> /\ Patch(e) = e
    BY <1>5 DEF Flush, Patch
  <2> QED
    BY <1>1, <1>2, <1>5, <2>1, ConcatEmptySeq DEF StreamPassthrough, PassTypes
<1>7. assembled' = Pending /\ noted'.usage = 0 /\ noted' \in [id : BOOLEAN, usage : {0, 1}]
  BY <1>1, <1>2, <1>5 DEF CollectPassthrough, Note, GoingOn, PassTypes, Pending
<1>8. PassTypes'
  <2>1. streamed' \in Seq(EventRecord) /\ streamed'[1].event = "created"
    BY <1>1, <1>2, <1>5, <1>6, FirstStays DEF PassTypes
  <2> QED
    BY <1>1, <1>2, <1>6, <1>7, <2>1 DEF PassTypes
<1>9. GoingOn'
  <2>1. CASE ~held
    <3>1. Brings(streamed', WrittenIn(parts))
      BY <1>2, <1>5, <1>6, <2>1, NoDelta DEF GoingOn, PassTypes
    <3> QED
      BY <1>1, <1>7, <2>1, <3>1 DEF GoingOn
  <2>2. CASE held
    <3>1. DeltasIn(streamed') = {}
      BY <1>2, <1>5, <1>6, <2>2, NoDelta, NoText DEF GoingOn, PassTypes
    <3> QED
      BY <1>1, <1>2, <1>6, <1>7, <2>2, <3>1 DEF GoingOn
  <2> QED
    BY <2>1, <2>2
<1> QED
  BY <1>1, <1>3, <1>4, <1>8, <1>9 DEF PassInv, AnswersAgree

\* A part that was announced is one that JSON.parse reads.
LEMMA WholePart ==
    ASSUME NEW P, NEW a, PartsInOrder(P, a), NEW p \in 1 .. a
    PROVE  IsWhole(P[p])
<1> DEFINE s == P[p]
<1>1. p \in 1 .. Len(P) /\ p \in 1 .. MaxParts /\ Len(s) = PartLength
  BY WrittenPlaces, PassAssumption DEF PartsInOrder
<1>2. s \in Seq(Chunk) /\ DOMAIN s = 1 .. PartLength /\ \A k \in 1 .. PartLength : s[k] = <<p, k>>
  BY <1>1, WrittenPlaces DEF PartsInOrder
<1>3. s \in [1 .. PartLength -> Chunk]
  BY <1>1, <1>2, LenProperties
<1> HIDE DEF s
<1>4. s = [k \in 1 .. PartLength |-> <<p, k>>]
  BY <1>2, <1>3
<1> QED
  BY <1>1, <1>4 DEF IsWhole, s

\* The texts of the event that ends the response, and of the answer.
Asks(P) == [p \in DOMAIN P |-> Asked(P[p])]

Restores(P) == [p \in DOMAIN P |-> Reconverted(P[p])]

\* The texts of all parts, as they were asked for and as they are restored.
LEMMA AskedTexts ==
    ASSUME NEW P, NEW a, PartsInOrder(P, a)
    PROVE  /\ Asks(P) \in Seq(TextRecord) /\ DOMAIN Asks(P) = DOMAIN P
           /\ [i \in DOMAIN Asks(P) |-> Asks(P)[i].chunks] = P
<1>1. DOMAIN P = 1 .. Len(P) /\ Len(P) \in Nat /\ \A p \in 1 .. Len(P) : P[p] \in Seq(Chunk)
  BY WrittenPlaces
<1>2. P \in [1 .. Len(P) -> Seq(Chunk)]
  BY <1>1, LenProperties DEF PartsInOrder
<1> DEFINE n == Len(P)
<1> HIDE DEF n
<1>3. \A p \in 1 .. n : Asked(P[p]) \in TextRecord /\ Asked(P[p]).chunks = P[p]
  BY <1>1 DEF Asked, Text, TextRecord, n
<1>4. Asks(P) = [p \in 1 .. n |-> Asked(P[p])]
  BY <1>1 DEF Asks, n
<1>5. Asks(P) \in Seq(TextRecord)
  BY <1>1, <1>3, <1>4, IsASeq DEF n
<1>6. [i \in 1 .. n |-> Asks(P)[i].chunks] = [i \in 1 .. n |-> P[i]]
  BY <1>3, <1>4
<1> QED
  BY <1>1, <1>2, <1>4, <1>5, <1>6 DEF n

LEMMA RestoredTexts ==
    ASSUME NEW P, NEW a, PartsInOrder(P, a), a = Len(P)
    PROVE  /\ Restores(P) \in Seq(TextRecord) /\ DOMAIN Restores(P) = DOMAIN P
           /\ [i \in DOMAIN Restores(P) |-> Restores(P)[i].chunks] = P
           /\ P # <<>> => Forms(Restores(P)) = {"restored"}
           /\ Len(P) = 1 => Reconverted(P[1]).form = "restored"
<1>1. DOMAIN P = 1 .. Len(P) /\ Len(P) \in Nat /\ \A p \in 1 .. Len(P) : P[p] \in Seq(Chunk)
  BY WrittenPlaces
<1>2. P \in [1 .. Len(P) -> Seq(Chunk)] /\ (P # <<>> => Len(P) # 0)
  BY <1>1, LenProperties, EmptySeq DEF PartsInOrder
<1> DEFINE n == Len(P)
<1>7. \A p \in 1 .. n : IsWhole(P[p])
  BY WholePart
<1> HIDE DEF n
<1>3. \A p \in 1 .. n : /\ Reconverted(P[p]) \in TextRecord /\ Reconverted(P[p]).chunks = P[p]
                        /\ Reconverted(P[p]).form = "restored"
  BY <1>1, <1>7 DEF Reconverted, Text, TextRecord, n
<1>4. Restores(P) = [p \in 1 .. n |-> Reconverted(P[p])]
  BY <1>1 DEF Restores, n
<1>5. Restores(P) \in Seq(TextRecord)
  BY <1>1, <1>3, <1>4, IsASeq DEF n
<1>6. [i \in 1 .. n |-> Restores(P)[i].chunks] = [i \in 1 .. n |-> P[i]]
  BY <1>3, <1>4
<1>8. P # <<>> => Forms(Restores(P)) = {"restored"}
  <2>1. DOMAIN Restores(P) = 1 .. n /\ \A p \in 1 .. n : Restores(P)[p].form = "restored"
    BY <1>3, <1>4
  <2>2. P # <<>> => 1 \in 1 .. n
    BY <1>1, <1>2 DEF n
  <2> QED
    BY <2>1, <2>2 DEF Forms
<1>9. Len(P) = 1 => Reconverted(P[1]).form = "restored"
  BY <1>3 DEF n
<1> QED
  BY <1>1, <1>2, <1>4, <1>5, <1>6, <1>8, <1>9 DEF n

\* AnswersAgree at the end of a response, from what the client gets.
LEMMA Agree ==
    ASSUME NEW final, NEW T \in Seq(EventRecord), streamed' = T \o <<final>>,
           final \in EventRecord,
           Brings(streamed', WrittenIn(parts')), assembled' = final.texts,
           [i \in DOMAIN final.texts |-> final.texts[i].chunks] = parts',
           held' /\ parts' # <<>> => Forms(final.texts) = {"restored"},
           held' /\ Len(parts') = 1 => SentForms' = {"restored"}
    PROVE  AnswersAgree'
<1>1. Last(streamed') = final
  BY OneMore DEF Last
<1>2. TextSent'
  BY DEF Brings, TextSent, Given, WrittenIn, Sent, SentIn, Deltas, DeltasIn, ChunkAt, ChunkOf
<1> QED
  BY <1>1, <1>2 DEF AnswersAgree

\* A response that breaks off or fails: what was held back is lost.
LEMMA BreaksKeeps ==
    ASSUME PassInv, NEW event \in {"incomplete", "failed", "closed"}, ResponseOver(event)
    PROVE  PassInv'
<1>1. /\ over = "no" /\ streamed # <<>> /\ over' = event
      /\ UNCHANGED <<held, parts, announced>>
  BY DEF ResponseOver, Writing
<1>2. PassTypes /\ PartsInOrder(parts, announced) /\ GoingOn
  BY <1>1 DEF PassInv
<1>3. PassTypes'
  <2>1. CASE event = "closed"
    BY <1>1, <1>2, <2>1 DEF PassTypes, ResponseOver
  <2>2. CASE event # "closed"
    <3> DEFINE e == Event(event, Asks(parts))
    <3>1. StreamPassthrough(e) /\ Note(e)
      BY <2>2 DEF ResponseOver, Takes, Asks
    <3>2. e \in EventRecord /\ e.event = event
      BY <1>2, <2>2, AskedTexts DEF Event, EventRecord
    <3> HIDE DEF e
    <3>3. streamed' = streamed \o <<e>> /\ tupleTextBuffer' = tupleTextBuffer
      <4>1. Flush(e) = <<>> /\ Patch(e) = e
        BY <3>2 DEF Flush, Patch
      <4> QED
        BY <1>2, <3>1, <3>2, <4>1, ConcatEmptySeq DEF StreamPassthrough, PassTypes
    <3>4. streamed' \in Seq(EventRecord) /\ streamed'[1].event = "created"
      BY <1>1, <1>2, <3>2, <3>3, FirstStays DEF PassTypes
    <3>5. noted' \in [id : BOOLEAN, usage : {0, 1}]
      BY <1>2, <3>1, <3>2 DEF Note, GoingOn, PassTypes
    <3> QED
      BY <1>1, <1>2, <3>3, <3>4, <3>5 DEF PassTypes
  <2> QED
    BY <2>1, <2>2
<1> QED
  BY <1>1, <1>2, <1>3 DEF PassInv, AnswersAgree, PartsInOrder

\* The response completed: what was held back is sent first.
LEMMA CompletedKeeps ==
    ASSUME PassInv, ResponseOver("completed") PROVE PassInv'
<1> DEFINE e == Event("completed", Asks(parts))
           n == Len(parts)
           S == streamed
           quiet == ~held \/ tupleTextBuffer = <<>>
<1>1. /\ over = "no" /\ streamed # <<>> /\ over' = "completed" /\ announced = n
      /\ StreamPassthrough(e) /\ CollectPassthrough(e) /\ Note(e)
      /\ UNCHANGED <<held, parts, announced>>
  BY DEF ResponseOver, Writing, Takes, Asks
<1>2. PassTypes /\ PartsInOrder(parts, announced) /\ GoingOn
  BY <1>1 DEF PassInv
<1>3. /\ e \in EventRecord /\ e.event = "completed" /\ e.texts = Asks(parts)
      /\ Asks(parts) \in Seq(TextRecord) /\ DOMAIN Asks(parts) = DOMAIN parts
      /\ [i \in DOMAIN Asks(parts) |-> Asks(parts)[i].chunks] = parts
      /\ \A i \in DOMAIN parts : Asks(parts)[i].chunks = parts[i]
  <2>1. \A i \in DOMAIN parts : Asks(parts)[i].chunks = parts[i]
    BY DEF Asks, Asked, Text
  <2> QED
    BY <1>2, <2>1, AskedTexts DEF Event, EventRecord
<1> HIDE DEF e
<1>4. /\ Restores(parts) \in Seq(TextRecord) /\ DOMAIN Restores(parts) = DOMAIN parts
      /\ [i \in DOMAIN Restores(parts) |-> Restores(parts)[i].chunks] = parts
      /\ parts # <<>> => Forms(Restores(parts)) = {"restored"}
      /\ n = 1 => Reconverted(parts[1]).form = "restored"
  BY <1>1, <1>2, RestoredTexts
<1>5. noted' \in [id : BOOLEAN, usage : {0, 1}]
  BY <1>1, <1>2, <1>3 DEF Note, GoingOn, PassTypes
<1>6. [i \in DOMAIN e.texts |-> Reconverted(e.texts[i].chunks)] = Restores(parts)
  BY <1>3 DEF Restores
<1>7. assembled' = IF held THEN Restores(parts) ELSE Asks(parts)
  <2>1. assembled = Pending
    BY <1>2 DEF GoingOn
  <2> DEFINE r == [i \in DOMAIN e.texts |->
                      IF held THEN Reconverted(e.texts[i].chunks) ELSE e.texts[i]]
  <2>2. assembled' = IF assembled # Pending THEN assembled
                     ELSE CASE e.event = "completed" -> r
                            [] e.event = "failed" -> "thrown"
                            [] e.event \in {"incomplete", "closed"} -> "empty"
                            [] OTHER -> assembled
    BY <1>1 DEF CollectPassthrough
  <2>3. r = IF held THEN Restores(parts) ELSE Asks(parts)
    <3>1. CASE held
      BY <1>6, <3>1
    <3>2. CASE ~held
      <4>1. Asks(parts) = [i \in DOMAIN Asks(parts) |-> Asks(parts)[i]]
        BY <1>3 DEF Asks
      <4> QED
        BY <1>3, <3>2, <4>1
    <3> QED
      BY <3>1, <3>2
  <2> HIDE DEF r
  <2> QED
    BY <1>3, <2>1, <2>2, <2>3
<1>8. tupleTextBuffer' = tupleTextBuffer
  BY <1>1, <1>3 DEF StreamPassthrough
<1>9. S \in Seq(EventRecord) /\ S[1].event = "created"
  BY <1>1, <1>2 DEF PassTypes
<1>10. ASSUME streamed' \in Seq(EventRecord), streamed' # <<>>, streamed'[1].event = "created",
              AnswersAgree'
       PROVE  PassInv'
  <2>1. PassTypes'
    BY <1>1, <1>2, <1>5, <1>8, <1>10 DEF PassTypes
  <2> QED
    BY <1>1, <1>2, <1>10, <2>1 DEF PassInv, PartsInOrder
<1>11. CASE quiet
  <2>1. streamed' = S \o <<e>>
    <3>1. Flush(e) = <<>> /\ Patch(e) = e
      BY <1>11 DEF Flush, Patch
    <3> QED
      BY <1>1, <1>3, <1>9, <3>1, ConcatEmptySeq DEF StreamPassthrough
  <2>2. held => parts = <<>>
    <3> SUFFICES ASSUME held PROVE parts = <<>>
      OBVIOUS
    <3>1. WrittenIn(parts) = {}
      <4>1. {tupleTextBuffer[i] : i \in DOMAIN tupleTextBuffer} = WrittenIn(parts)
        BY <1>2 DEF GoingOn
      <4>2. tupleTextBuffer = <<>>
        BY <1>11
      <4> QED
        BY <4>1, <4>2
    <3>2. /\ WrittenIn(parts) = UNION {{p} \X (1 .. Len(parts[p])) : p \in 1 .. n}
          /\ n \in Nat
      BY <1>2, WrittenPlaces
    <3>3. ASSUME n # 0 PROVE FALSE
      <4>1. 1 \in 1 .. n /\ Len(parts[1]) \in 1 .. PartLength
        BY <1>2, <3>2, <3>3 DEF PartsInOrder
      <4>2. 1 \in 1 .. Len(parts[1])
        BY <4>1, PassAssumption
      <4>3. <<1, 1>> \in {1} \X (1 .. Len(parts[1]))
        BY <4>2
      <4> QED
        BY <3>1, <3>2, <4>1, <4>3
    <3> QED
      BY <1>2, <3>3, EmptySeq DEF PartsInOrder
  <2>3. Brings(S, WrittenIn(parts))
    <3>1. CASE ~held
      BY <1>2, <3>1 DEF GoingOn
    <3>2. CASE held
      <4>1. DeltasIn(S) = {}
        BY <1>2, <3>2 DEF GoingOn
      <4>2. WrittenIn(parts) = {}
        BY <2>2, <3>2 DEF WrittenIn
      <4> QED
        BY <4>1, <4>2, NoText
    <3> QED
      BY <3>1, <3>2
  <2>4. Brings(streamed', WrittenIn(parts))
    BY <1>3, <1>9, <2>1, <2>3, NoDelta
  <2>5. assembled' = e.texts
    <3>1. held => Restores(parts) = Asks(parts)
      BY <2>2 DEF Restores, Asks
    <3> QED
      BY <1>3, <1>7, <3>1
  <2>6. held => parts' = <<>> /\ Len(parts') # 1
    BY <1>1, <2>2
  <2>7. AnswersAgree'
    BY <1>1, <1>3, <1>9, <2>1, <2>4, <2>5, <2>6, Agree
  <2>8. streamed' \in Seq(EventRecord) /\ streamed' # <<>> /\ streamed'[1].event = "created"
    BY <1>1, <1>3, <1>9, <2>1, FirstStays
  <2> QED
    BY <1>10, <2>7, <2>8
<1>12. CASE ~quiet
  <2> DEFINE b == tupleTextBuffer
             form == Reconverted(b).form
             d == Event("delta", <<Text(b, form)>>)
             c == Patch(e)
             T == S \o <<d>>
  <2>1. /\ b \in Seq(Chunk) /\ DeltasIn(S) = {}
        /\ {b[i] : i \in DOMAIN b} = WrittenIn(parts)
        /\ \A i, j \in DOMAIN b : i < j => Earlier(b[i], b[j])
        /\ n = 1 => b = parts[1]
    BY <1>2, <1>12 DEF GoingOn, PassTypes
  <2>2. form \in {"asked", "restored"} /\ Reconverted(b) = Text(b, form)
    BY DEF Reconverted, Text
  <2>3. n = 1 => form = "restored"
    BY <1>4, <2>1
  <2>4. Flush(e) = <<d>>
    BY <1>3, <1>12, <2>2 DEF Flush
  <2>5. c \in EventRecord /\ c.event = "completed" /\ c.texts = Restores(parts)
    <3>1. c = [e EXCEPT !.texts = Restores(parts)]
      BY <1>3, <1>6, <1>12 DEF Patch
    <3> QED
      BY <1>3, <1>4, <3>1 DEF EventRecord
  <2> HIDE DEF b, c, form
  <2>6. Brings(S, {})
    BY <2>1, NoText
  <2>7. /\ d \in EventRecord
        /\ Brings(T, {} \cup WrittenIn(parts))
        /\ DeltasIn(T) = DeltasIn(S) \cup {Len(S) + 1}
    <3>1. /\ \A j \in DOMAIN b : b[j] \in WrittenIn(parts)
          /\ \A w \in WrittenIn(parts) : \E j \in DOMAIN b : b[j] = w
          /\ \A w \in {}, j \in DOMAIN b : Earlier(w, b[j])
      BY <2>1
    <3>2. LET x == Event("delta", <<Text(b, form)>>)
          IN  /\ x \in EventRecord
              /\ Brings(S \o <<x>>, {} \cup WrittenIn(parts))
              /\ DeltasIn(S \o <<x>>) = DeltasIn(S) \cup {Len(S) + 1}
      BY <1>9, <2>1, <2>2, <2>6, <3>1, DeltaBrings
    <3> QED
      BY <3>2
  <2>8. Brings(T, WrittenIn(parts)) /\ DeltasIn(T) = {Len(S) + 1}
    BY <2>1, <2>7
  <2>9. d.texts[1].form = form
    BY DEF Event, Text
  <2> HIDE DEF d
  <2>10. /\ T \in Seq(EventRecord) /\ T # <<>> /\ T[1].event = "created"
         /\ T[Len(S) + 1] = d /\ Len(T) = Len(S) + 1 /\ Len(S) \in Nat
    BY <1>1, <1>9, <2>7, FirstStays, OneMore
  <2>11. streamed' = T \o <<c>>
    BY <1>1, <1>3, <2>4 DEF StreamPassthrough, c
  <2> HIDE DEF T
  <2>12. Brings(streamed', WrittenIn(parts)) /\ DeltasIn(streamed') = {Len(S) + 1}
    BY <2>5, <2>8, <2>10, <2>11, NoDelta
  <2>13. streamed'[Len(S) + 1] = d
    BY <2>5, <2>10, <2>11, OneMore
  <2>14. n = 1 => SentForms' = {"restored"}
    <3>1. Deltas' = {Len(S) + 1}
      BY <2>12 DEF Deltas, DeltasIn
    <3>2. SentForms' = {streamed'[Len(S) + 1].texts[1].form}
      BY <3>1 DEF SentForms
    <3> QED
      BY <2>3, <2>9, <2>13, <3>2
  <2>15. assembled' = c.texts
    BY <1>7, <1>12, <2>5
  <2>16. AnswersAgree'
    BY <1>1, <1>4, <2>5, <2>10, <2>11, <2>12, <2>14, <2>15, Agree
  <2>17. streamed' \in Seq(EventRecord) /\ streamed' # <<>> /\ streamed'[1].event = "created"
    BY <2>5, <2>10, <2>11, FirstStays
  <2> QED
    BY <1>10, <2>16, <2>17
<1> QED
  BY <1>11, <1>12

\* The rest of a response changes nothing.
LEMMA PassRests ==
    ASSUME PassInv, UNCHANGED passVars PROVE PassInv'
<1> USE DEF passVars
<1>1. PassTypes' /\ PartsInOrder(parts, announced)' /\ (over = "no" => GoingOn)'
  BY DEF PassInv, PassTypes, PartsInOrder, GoingOn
<1>2. AnswersAgree'
  <2>1. Deltas' = Deltas /\ SentForms' = SentForms
    BY DEF Deltas, SentForms
  <2>2. Given' = Given /\ Sent' = Sent
    BY <2>1 DEF Given, Sent
  <2>3. TextSent <=> TextSent'
    BY <2>2 DEF TextSent, ChunkAt
  <2> QED
    BY <2>1, <2>3 DEF PassInv, AnswersAgree
<1> QED
  BY <1>1, <1>2 DEF PassInv

\* A response that is passed on says the same streamed and collected, and all of it
\* (src/routes/responses.ts).
THEOREM PassAnswers == PassSpec => [](PassTypeOK /\ AnswersAgree)
<1>1. PassInit => PassInv
  BY PassStarts
<1>2. PassInv /\ [PassNext]_passVars => PassInv'
  BY CreatesKeeps, SaysKeeps, PartDoneKeeps, BreaksKeeps, CompletedKeeps, PassRests DEF PassNext
<1>3. PassInv => PassTypeOK /\ AnswersAgree
  BY DEF PassInv, PassTypes, PartsInOrder, PassTypeOK
<1> QED
  BY <1>1, <1>2, <1>3, PTL DEF PassSpec

-----------------------------------------------------------------------------
(* Answers that are translated *)

\* A delta of one kind is that of a place in the sequence.
LEMMA DeltaPlaces ==
    ASSUME NEW seq, NEW kind, NEW d
    PROVE  d \in DeltasOf(seq, kind) <=>
              \E i \in DOMAIN seq : seq[i].kind = kind /\ d \in {i} \X (1 .. seq[i].n)
BY DEF DeltasOf

\* Whatever does not concern a kind leaves its deltas.
LEMMA SameDeltas ==
    ASSUME NEW seq, NEW new, NEW kind,
           \A i \in DOMAIN seq : seq[i].kind = kind =>
              i \in DOMAIN new /\ new[i].kind = kind /\ new[i].n = seq[i].n,
           \A i \in DOMAIN new : new[i].kind = kind /\ new[i].n # 0 => i \in DOMAIN seq /\ seq[i].kind = kind,
           \A i \in DOMAIN new : new[i].kind = kind => new[i].n \in Nat
    PROVE  DeltasOf(new, kind) = DeltasOf(seq, kind)
<1>1. ASSUME NEW d PROVE d \in DeltasOf(new, kind) => d \in DeltasOf(seq, kind)
  <2> SUFFICES ASSUME NEW i \in DOMAIN new, new[i].kind = kind, d \in {i} \X (1 .. new[i].n)
               PROVE  d \in DeltasOf(seq, kind)
    BY DeltaPlaces
  <2>1. new[i].n # 0
    OBVIOUS
  <2>2. i \in DOMAIN seq /\ seq[i].kind = kind /\ seq[i].n = new[i].n
    BY <2>1
  <2> QED
    BY <2>2, DeltaPlaces
<1>2. ASSUME NEW d PROVE d \in DeltasOf(seq, kind) => d \in DeltasOf(new, kind)
  BY DeltaPlaces
<1> QED
  BY <1>1, <1>2

\* Place i, where n deltas of the kind were, has one more of them in new.
MoreAt(seq, new, kind, i, n) ==
    /\ i \in DOMAIN new /\ n \in Nat /\ new[i].kind = kind /\ new[i].n = n + 1
    /\ \A j \in DOMAIN seq :
          j # i => j \in DOMAIN new /\ new[j].kind = seq[j].kind /\ new[j].n = seq[j].n
    /\ \A j \in DOMAIN new : j # i => j \in DOMAIN seq
    /\ i \in DOMAIN seq => seq[i].kind = kind /\ seq[i].n = n
    /\ i \notin DOMAIN seq => n = 0

\* One more delta at one place.
LEMMA OneDelta ==
    ASSUME NEW seq, NEW new, NEW kind, NEW i, NEW n, MoreAt(seq, new, kind, i, n),
           IsFiniteSet(DeltasOf(seq, kind))
    PROVE  /\ IsFiniteSet(DeltasOf(new, kind))
           /\ Total(new, kind) = Total(seq, kind) + 1
<1> USE DEF MoreAt
<1> DEFINE d == <<i, n + 1>>
<1>1. d \notin DeltasOf(seq, kind)
  <2> SUFFICES ASSUME NEW j \in DOMAIN seq, d \in {j} \X (1 .. seq[j].n) PROVE FALSE
    BY DeltaPlaces
  <2> QED  OBVIOUS
<1>2. DeltasOf(new, kind) = DeltasOf(seq, kind) \cup {d}
  <2>1. 1 .. n + 1 = (1 .. n) \cup {n + 1}
    OBVIOUS
  <2>2. ASSUME NEW x PROVE x \in DeltasOf(new, kind) => x \in DeltasOf(seq, kind) \/ x = d
    <3> SUFFICES ASSUME NEW j \in DOMAIN new, new[j].kind = kind, x \in {j} \X (1 .. new[j].n)
                 PROVE  x \in DeltasOf(seq, kind) \/ x = d
      BY DeltaPlaces
    <3>1. CASE j = i
      <4>1. x = d \/ x \in {i} \X (1 .. n)
        BY <2>1, <3>1
      <4>2. x \in {i} \X (1 .. n) => i \in DOMAIN seq /\ seq[i].kind = kind /\ x \in {i} \X (1 .. seq[i].n)
        OBVIOUS
      <4> QED
        BY <4>1, <4>2, DeltaPlaces
    <3>2. CASE j # i
      BY <3>2, DeltaPlaces
    <3> QED
      BY <3>1, <3>2
  <2>3. ASSUME NEW x, x \in DeltasOf(seq, kind) PROVE x \in DeltasOf(new, kind)
    <3>1. PICK j \in DOMAIN seq : seq[j].kind = kind /\ x \in {j} \X (1 .. seq[j].n)
      BY <2>3, DeltaPlaces
    <3>2. CASE j = i
      BY <2>1, <3>1, <3>2, DeltaPlaces
    <3>3. CASE j # i
      BY <3>1, <3>3, DeltaPlaces
    <3> QED
      BY <3>2, <3>3
  <2>4. d \in DeltasOf(new, kind)
    <3>1. d \in {i} \X (1 .. new[i].n)
      BY <2>1
    <3> QED
      BY <3>1, DeltaPlaces
  <2> QED
    BY <2>2, <2>3, <2>4
<1> HIDE DEF d
<1> QED
  BY <1>1, <1>2, FS_AddElement DEF Total

-----------------------------------------------------------------------------

\* The calls of seq are those in C, each once, in their order, with their arguments as in P.
Carries(seq, C, P) ==
    /\ {seq[k].call : k \in CallsIn(seq)} = C
    /\ \A j, k \in CallsIn(seq) : j < k => seq[j].call < seq[k].call
    /\ \A k \in CallsIn(seq) : seq[k].n = P[seq[k].call].n

\* What leaves the calls leaves what is carried of them.
LEMMA CarriesSame ==
    ASSUME NEW seq, NEW C, NEW P, Carries(seq, C, P), NEW new, NEW Q,
           CallsIn(new) = CallsIn(seq),
           \A k \in CallsIn(seq) : new[k].call = seq[k].call /\ new[k].n = seq[k].n,
           \A c \in C : Q[c].n = P[c].n
    PROVE  Carries(new, C, Q)
<1>1. {new[k].call : k \in CallsIn(new)} = C
  BY DEF Carries
<1>2. \A k \in CallsIn(seq) : seq[k].call \in C
  BY DEF Carries
<1> QED
  BY <1>1, <1>2 DEF Carries

\* A call that comes after the others.
LEMMA CarriesNew ==
    ASSUME NEW S, NEW seq \in Seq(S), NEW C, NEW P, Carries(seq, C, P), NEW r \in S, NEW Q,
           r.call # 0, \A c \in C : c < r.call /\ Q[c].n = P[c].n, Q[r.call].n = r.n
    PROVE  Carries(Append(seq, r), C \cup {r.call}, Q)
<1> DEFINE new == Append(seq, r)
           n == Len(seq)
<1>1. /\ n \in Nat /\ DOMAIN seq = 1 .. n /\ DOMAIN new = 1 .. n + 1
      /\ \A i \in 1 .. n : new[i] = seq[i]
      /\ new[n + 1] = r
  BY AppendProperties, LenProperties
<1> HIDE DEF new, n
<1>2. CallsIn(new) = CallsIn(seq) \cup {n + 1} /\ CallsIn(seq) \subseteq 1 .. n
  BY <1>1 DEF CallsIn
<1>3. \A k \in CallsIn(seq) : new[k] = seq[k] /\ seq[k].call \in C /\ k < n + 1
  BY <1>1, <1>2 DEF Carries
<1>4. {new[k].call : k \in CallsIn(new)} = C \cup {r.call}
  <2>1. {new[k].call : k \in CallsIn(seq)} = C
    BY <1>3 DEF Carries
  <2> QED
    BY <1>1, <1>2, <2>1
<1>5. ASSUME NEW j \in CallsIn(new), NEW k \in CallsIn(new), j < k
      PROVE  new[j].call < new[k].call
  <2>1. j \in CallsIn(seq)
    BY <1>1, <1>2, <1>5
  <2>2. CASE k = n + 1
    BY <1>1, <1>3, <2>1, <2>2
  <2>3. CASE k # n + 1
    BY <1>2, <1>3, <1>5, <2>1, <2>3 DEF Carries
  <2> QED
    BY <2>2, <2>3
<1>6. \A k \in CallsIn(new) : new[k].n = Q[new[k].call].n
  BY <1>1, <1>2, <1>3 DEF Carries
<1> QED
  BY <1>4, <1>5, <1>6 DEF Carries, new

\* The arguments of one call change.
LEMMA CarriesGrown ==
    ASSUME NEW seq, NEW C, NEW P, Carries(seq, C, P), NEW new, NEW Q, NEW k \in CallsIn(seq),
           CallsIn(seq) \subseteq Nat, C \subseteq Nat,
           CallsIn(new) = CallsIn(seq),
           \A j \in CallsIn(seq) : new[j].call = seq[j].call,
           \A j \in CallsIn(seq) : j # k => new[j].n = seq[j].n,
           \A c \in C : c # seq[k].call => Q[c].n = P[c].n,
           Q[seq[k].call].n = new[k].n
    PROVE  Carries(new, C, Q)
<1>1. {new[j].call : j \in CallsIn(new)} = C
  BY DEF Carries
<1>2. \A j \in CallsIn(seq) : seq[j].call \in C /\ seq[j].call \in Nat /\ j \in Nat
  BY DEF Carries
<1>3. ASSUME NEW j \in CallsIn(seq), j # k PROVE seq[j].call # seq[k].call
  <2>1. j < k \/ k < j
    BY <1>2, <1>3
  <2>2. seq[j].call < seq[k].call \/ seq[k].call < seq[j].call
    BY <2>1 DEF Carries
  <2> QED
    BY <1>2, <2>2
<1>4. \A i, j \in CallsIn(new) : i < j => new[i].call < new[j].call
  BY DEF Carries
<1>5. ASSUME NEW j \in CallsIn(new) PROVE new[j].n = Q[new[j].call].n
  <2>1. CASE j = k
    BY <2>1
  <2>2. CASE j # k
    <3>1. seq[j].n = P[seq[j].call].n
      BY DEF Carries
    <3> QED
      BY <1>2, <1>3, <2>2, <3>1
  <2> QED
    BY <2>1, <2>2
<1> QED
  BY <1>1, <1>4, <1>5 DEF Carries

-----------------------------------------------------------------------------

ItemRecord == [kind : Kinds, call : Nat, n : Nat, parsed : Nat, open : BOOLEAN]

\* The items P: a call has the number of its place, and only the last may be going on.
InOrder(P) ==
    /\ P \in Seq(ItemRecord)
    /\ \A i \in 1 .. Len(P) : /\ P[i].kind = "call" => P[i].call = i
                              /\ P[i].kind # "call" => P[i].call = 0
                              /\ P[i].kind = "call" /\ P[i].open => i = Len(P)
    /\ \A kind \in {"text", "reasoning"} : IsFiniteSet(DeltasOf(P, kind))

\* The call that is going on, or 0, and the calls that are done.
OpenCall(P) == IF P # <<>> /\ P[Len(P)].kind = "call" /\ P[Len(P)].open THEN Len(P) ELSE 0

DoneCalls(P) == CallsIn(P) \ {OpenCall(P)}

\* What is known of the calls in P.
LEMMA CallsOfItems ==
    ASSUME NEW P, InOrder(P)
    PROVE  /\ Len(P) \in Nat /\ DOMAIN P = 1 .. Len(P)
           /\ CallsIn(P) = {i \in 1 .. Len(P) : P[i].kind = "call"}
           /\ \A i \in 1 .. Len(P) : P[i].n \in Nat
           /\ CallsIn(P) \subseteq Nat \ {0}
           /\ \A c \in CallsIn(P) : P[c].n \in Nat /\ c <= Len(P)
           /\ OpenCall(P) \in CallsIn(P) \cup {0}
           /\ OpenCall(P) # 0 => \A c \in CallsIn(P) : c # OpenCall(P) => c < OpenCall(P)
           /\ \A kind \in {"text", "reasoning"} : Total(P, kind) \in Nat
<1>1. /\ P \in Seq(ItemRecord) /\ Len(P) \in Nat /\ DOMAIN P = 1 .. Len(P)
      /\ \A i \in 1 .. Len(P) : P[i].n \in Nat
  <2>1. P \in Seq(ItemRecord) /\ Len(P) \in Nat /\ DOMAIN P = 1 .. Len(P)
    BY LenProperties DEF InOrder
  <2>2. \A i \in 1 .. Len(P) : P[i] \in ItemRecord
    BY <2>1, ElementOfSeq
  <2>3. \A r \in ItemRecord : r.n \in Nat
    BY DEF ItemRecord
  <2> QED
    BY <2>1, <2>2, <2>3
<1>2. CallsIn(P) = {i \in 1 .. Len(P) : P[i].kind = "call"}
  <2>1. ASSUME NEW i \in 1 .. Len(P) PROVE P[i].call # 0 <=> P[i].kind = "call"
    <3>1. (P[i].kind = "call" => P[i].call = i) /\ (P[i].kind # "call" => P[i].call = 0)
      BY DEF InOrder
    <3>2. i # 0
      BY <1>1
    <3> QED
      BY <3>1, <3>2
  <2> QED
    BY <1>1, <2>1 DEF CallsIn
<1>3. \A c \in CallsIn(P) : c \in Nat /\ c # 0 /\ c <= Len(P) /\ P[c].n \in Nat
  BY <1>1, <1>2 DEF ItemRecord
<1>4. OpenCall(P) # 0 => OpenCall(P) = Len(P) /\ OpenCall(P) \in CallsIn(P)
  <2> SUFFICES ASSUME OpenCall(P) # 0 PROVE OpenCall(P) = Len(P) /\ OpenCall(P) \in CallsIn(P)
    OBVIOUS
  <2>1. P # <<>> /\ P[Len(P)].kind = "call" /\ OpenCall(P) = Len(P)
    BY DEF OpenCall
  <2>2. Len(P) \in 1 .. Len(P)
    BY <1>1, <2>1, EmptySeq
  <2> QED
    BY <1>2, <2>1, <2>2
<1>5. OpenCall(P) # 0 => \A c \in CallsIn(P) : c # OpenCall(P) => c < OpenCall(P)
  BY <1>1, <1>3, <1>4
<1>6. \A kind \in {"text", "reasoning"} : Total(P, kind) \in Nat
  BY FS_CardinalityType DEF InOrder, Total
<1> QED
  BY <1>1, <1>2, <1>3, <1>4, <1>5, <1>6

\* What one event changes of the items: P before, Q after.
SameCallsBut(P, Q, c) ==
    /\ CallsIn(Q) = CallsIn(P)
    /\ \A d \in CallsIn(P) : d # c => Q[d].n = P[d].n /\ Q[d].parsed = P[d].parsed

SameTexts(P, Q) == \A kind \in {"text", "reasoning"} : Total(Q, kind) = Total(P, kind)

TextComes(P, Q, kind) ==
    /\ InOrder(P) /\ InOrder(Q) /\ OpenCall(P) = 0 /\ OpenCall(Q) = 0
    /\ SameCallsBut(P, Q, 0)
    /\ Total(Q, kind) = Total(P, kind) + 1
    /\ \A other \in {"text", "reasoning"} : other # kind => Total(Q, other) = Total(P, other)

CallComes(P, Q, c) ==
    /\ InOrder(P) /\ InOrder(Q) /\ OpenCall(P) = 0 /\ OpenCall(Q) = c /\ c \in Nat \ {0}
    /\ CallsIn(Q) = CallsIn(P) \cup {c} /\ Q[c].n = 0
    /\ \A d \in CallsIn(P) : d < c /\ Q[d].n = P[d].n /\ Q[d].parsed = P[d].parsed
    /\ SameTexts(P, Q)

CallGrows(P, Q, c) ==
    /\ InOrder(P) /\ InOrder(Q) /\ OpenCall(P) = c /\ OpenCall(Q) = c /\ c \in CallsIn(P)
    /\ SameCallsBut(P, Q, c) /\ Q[c].n = P[c].n + 1
    /\ SameTexts(P, Q)

CallEnds(P, Q, c, n) ==
    /\ InOrder(P) /\ InOrder(Q) /\ OpenCall(P) = c /\ OpenCall(Q) = 0 /\ c \in CallsIn(P)
    /\ SameCallsBut(P, Q, c) /\ Q[c].n = n /\ n \in Nat /\ (P[c].n # 0 => n = P[c].n)
    /\ Q[c].parsed \in Nat /\ SameTexts(P, Q)

\* One more item.
LEMMA NewItem ==
    ASSUME NEW P, InOrder(P), OpenCall(P) = 0, NEW r \in ItemRecord,
           r.kind = "call" => r.call = Len(P) + 1, r.kind # "call" => r.call = 0
    PROVE  LET Q == Append(P, r)
               m == Len(P) + 1
           IN  /\ Q \in Seq(ItemRecord) /\ Len(Q) = m /\ Q[m] = r /\ DOMAIN Q = 1 .. m
               /\ \A i \in 1 .. Len(P) : Q[i] = P[i]
               /\ \A i \in 1 .. m : /\ Q[i].kind = "call" => Q[i].call = i
                                    /\ Q[i].kind # "call" => Q[i].call = 0
                                    /\ Q[i].kind = "call" /\ Q[i].open => i = m
               /\ OpenCall(Q) = IF r.kind = "call" /\ r.open THEN m ELSE 0
<1> DEFINE Q == Append(P, r)
           n == Len(P)
<1>1. /\ P \in Seq(ItemRecord) /\ n \in Nat
      /\ \A i \in 1 .. n : /\ P[i].kind = "call" => P[i].call = i
                           /\ P[i].kind # "call" => P[i].call = 0
                           /\ P[i].kind = "call" /\ P[i].open => i = n
  BY DEF InOrder
<1>2. /\ Q \in Seq(ItemRecord) /\ Len(Q) = n + 1 /\ DOMAIN Q = 1 .. n + 1
      /\ \A i \in 1 .. n : Q[i] = P[i]
      /\ Q[n + 1] = r
  BY <1>1, AppendProperties, LenProperties
<1>3. \A i \in 1 .. n : P[i].kind = "call" => ~P[i].open
  <2> SUFFICES ASSUME NEW i \in 1 .. n, P[i].kind = "call", P[i].open PROVE FALSE
    OBVIOUS
  <2>1. i = n /\ n # 0 /\ P # <<>>
    BY <1>1, EmptySeq
  <2> QED
    BY <2>1 DEF OpenCall
<1> HIDE DEF Q, n
<1>4. \A i \in 1 .. n + 1 : i \in 1 .. n \/ i = n + 1
  BY <1>1
<1>5. ASSUME NEW i \in 1 .. n + 1
      PROVE  /\ Q[i].kind = "call" => Q[i].call = i
             /\ Q[i].kind # "call" => Q[i].call = 0
             /\ Q[i].kind = "call" /\ Q[i].open => i = n + 1
  <2>1. CASE i \in 1 .. n
    BY <1>1, <1>2, <1>3, <2>1
  <2>2. CASE i = n + 1
    BY <1>2, <2>2 DEF n
  <2> QED
    BY <1>4, <2>1, <2>2
<1>6. Q # <<>>
  BY <1>1, <1>2, EmptySeq
<1>7. OpenCall(Q) = IF r.kind = "call" /\ r.open THEN n + 1 ELSE 0
  BY <1>2, <1>6 DEF OpenCall
<1> QED
  BY <1>2, <1>5, <1>7 DEF Q, n

\* A new item of text or reasoning.
LEMMA TextBegins ==
    ASSUME NEW P, InOrder(P), OpenCall(P) = 0, NEW kind \in {"text", "reasoning"},
           NEW r \in ItemRecord, r.kind = kind, r.call = 0, r.n = 1
    PROVE  TextComes(P, Append(P, r), kind)
<1> DEFINE Q == Append(P, r)
           n == Len(P)
<1>1. /\ P \in Seq(ItemRecord) /\ n \in Nat /\ DOMAIN P = 1 .. n
      /\ CallsIn(P) = {i \in 1 .. n : P[i].kind = "call"}
      /\ \A k \in {"text", "reasoning"} : IsFiniteSet(DeltasOf(P, k))
      /\ \A i \in 1 .. n : P[i].n \in Nat
  BY CallsOfItems DEF InOrder
<1>2. /\ Q \in Seq(ItemRecord) /\ Len(Q) = n + 1 /\ Q[n + 1] = r /\ DOMAIN Q = 1 .. n + 1
      /\ \A i \in 1 .. n : Q[i] = P[i]
      /\ \A i \in 1 .. n + 1 : /\ Q[i].kind = "call" => Q[i].call = i
                               /\ Q[i].kind # "call" => Q[i].call = 0
                               /\ Q[i].kind = "call" /\ Q[i].open => i = n + 1
      /\ OpenCall(Q) = 0
  <2>1. (r.kind = "call" => r.call = Len(P) + 1) /\ (r.kind # "call" => r.call = 0)
    OBVIOUS
  <2> QED
    BY <2>1, NewItem
<1> HIDE DEF Q, n
<1>3. \A i \in 1 .. n + 1 : i \in 1 .. n \/ i = n + 1
  BY <1>1
<1>4. Total(Q, kind) = Total(P, kind) + 1 /\ IsFiniteSet(DeltasOf(Q, kind))
  <2> DEFINE m == n + 1
  <2>1. PICK z \in Nat : z = 0
    OBVIOUS
  <2>5. m \in DOMAIN Q /\ m \notin DOMAIN P /\ Q[m].n = z + 1
    BY <1>1, <1>2, <2>1
  <2>2. \A j \in DOMAIN P : j # n + 1 => j \in DOMAIN Q /\ Q[j].kind = P[j].kind /\ Q[j].n = P[j].n
    BY <1>1, <1>2
  <2>3. \A j \in DOMAIN Q : j # n + 1 => j \in DOMAIN P
    BY <1>1, <1>2, <1>3
  <2>4. Q[m].kind = kind
    BY <1>2
  <2>6. \A j \in DOMAIN P : j # m => j \in DOMAIN Q /\ Q[j].kind = P[j].kind /\ Q[j].n = P[j].n
    BY <2>2
  <2>7. \A j \in DOMAIN Q : j # m => j \in DOMAIN P
    BY <2>3
  <2> HIDE DEF m
  <2> QED
    <3>1. MoreAt(P, Q, kind, m, z) /\ IsFiniteSet(DeltasOf(P, kind))
      BY <1>1, <2>1, <2>4, <2>5, <2>6, <2>7 DEF MoreAt
    <3> QED
      BY <3>1, OneDelta, Zenon
<1>5. ASSUME NEW k \in {"text", "reasoning"}, k # kind
      PROVE  DeltasOf(Q, k) = DeltasOf(P, k)
  <2>1. \A i \in DOMAIN P : i \in DOMAIN Q /\ Q[i].kind = P[i].kind /\ Q[i].n = P[i].n
    BY <1>1, <1>2
  <2>2. \A i \in DOMAIN Q : Q[i].kind = k => i \in DOMAIN P /\ Q[i] = P[i]
    BY <1>1, <1>2, <1>3, <1>5
  <2>3. \A i \in DOMAIN Q : Q[i].kind = k => Q[i].n \in Nat
    BY <1>1, <2>2
  <2> QED
    BY <2>1, <2>2, <2>3, SameDeltas
<1>6. InOrder(Q)
  <2>1. \A k \in {"text", "reasoning"} : IsFiniteSet(DeltasOf(Q, k))
    BY <1>1, <1>4, <1>5
  <2> QED
    BY <1>2, <2>1 DEF InOrder
<1>7. CallsIn(Q) = CallsIn(P)
  <2>1. CallsIn(Q) = {i \in 1 .. n + 1 : Q[i].kind = "call"}
    BY <1>2, <1>6, CallsOfItems
  <2>2. Q[n + 1].kind # "call"
    BY <1>2
  <2> QED
    BY <1>1, <1>2, <1>3, <2>1, <2>2
<1>8. \A c \in CallsIn(P) : Q[c].n = P[c].n /\ Q[c].parsed = P[c].parsed
  BY <1>1, <1>2
<1>9. \A k \in {"text", "reasoning"} : k # kind => Total(Q, k) = Total(P, k)
  BY <1>5 DEF Total
<1> QED
  BY <1>2, <1>4, <1>6, <1>7, <1>8, <1>9 DEF TextComes, SameCallsBut, Q

\* A new call.
LEMMA CallBegins ==
    ASSUME NEW P, InOrder(P), OpenCall(P) = 0,
           NEW r \in ItemRecord, r.kind = "call", r.call = Len(P) + 1, r.n = 0, r.open
    PROVE  CallComes(P, Append(P, r), Len(P) + 1)
<1> DEFINE Q == Append(P, r)
           n == Len(P)
<1>1. /\ P \in Seq(ItemRecord) /\ n \in Nat /\ DOMAIN P = 1 .. n
      /\ CallsIn(P) = {i \in 1 .. n : P[i].kind = "call"}
      /\ \A k \in {"text", "reasoning"} : IsFiniteSet(DeltasOf(P, k))
      /\ \A i \in 1 .. n : P[i].n \in Nat
  BY CallsOfItems DEF InOrder
<1>2. /\ Q \in Seq(ItemRecord) /\ Len(Q) = n + 1 /\ Q[n + 1] = r /\ DOMAIN Q = 1 .. n + 1
      /\ \A i \in 1 .. n : Q[i] = P[i]
      /\ \A i \in 1 .. n + 1 : /\ Q[i].kind = "call" => Q[i].call = i
                               /\ Q[i].kind # "call" => Q[i].call = 0
                               /\ Q[i].kind = "call" /\ Q[i].open => i = n + 1
      /\ OpenCall(Q) = n + 1
  <2>1. (r.kind = "call" => r.call = Len(P) + 1) /\ (r.kind # "call" => r.call = 0)
    OBVIOUS
  <2> QED
    BY <2>1, NewItem
<1> HIDE DEF Q, n
<1>3. \A i \in 1 .. n + 1 : i \in 1 .. n \/ i = n + 1
  BY <1>1
<1>4. Q[n + 1].kind = "call" /\ Q[n + 1].n = 0
  BY <1>2
<1>5. ASSUME NEW k \in {"text", "reasoning"}
      PROVE  DeltasOf(Q, k) = DeltasOf(P, k)
  <2>1. \A i \in DOMAIN P : i \in DOMAIN Q /\ Q[i].kind = P[i].kind /\ Q[i].n = P[i].n
    BY <1>1, <1>2
  <2>2. \A i \in DOMAIN Q : Q[i].kind = k => i \in DOMAIN P /\ Q[i] = P[i]
    BY <1>1, <1>2, <1>3, <1>4
  <2>3. \A i \in DOMAIN Q : Q[i].kind = k => Q[i].n \in Nat
    BY <1>1, <2>2
  <2> QED
    BY <2>1, <2>2, <2>3, SameDeltas
<1>6. InOrder(Q)
  BY <1>1, <1>2, <1>5 DEF InOrder
<1>7. CallsIn(Q) = CallsIn(P) \cup {n + 1}
  <2>1. CallsIn(Q) = {i \in 1 .. n + 1 : Q[i].kind = "call"}
    BY <1>2, <1>6, CallsOfItems
  <2> QED
    BY <1>1, <1>2, <1>3, <1>4, <2>1
<1>8. \A c \in CallsIn(P) : c < n + 1 /\ Q[c].n = P[c].n /\ Q[c].parsed = P[c].parsed
  BY <1>1, <1>2
<1>9. SameTexts(P, Q)
  BY <1>5 DEF SameTexts, Total
<1> QED
  BY <1>1, <1>2, <1>4, <1>6, <1>7, <1>8, <1>9 DEF CallComes, Q, n

\* The last item is another.
LEMMA LastItem ==
    ASSUME NEW P, InOrder(P), P # <<>>, NEW r \in ItemRecord,
           r.kind = P[Len(P)].kind, r.call = P[Len(P)].call
    PROVE  LET n == Len(P)
               Q == [P EXCEPT ![n] = r]
           IN  /\ Q \in Seq(ItemRecord) /\ Len(Q) = n /\ Q[n] = r /\ DOMAIN Q = 1 .. n
               /\ n \in Nat \ {0} /\ \A i \in 1 .. n : i # n => Q[i] = P[i]
               /\ \A i \in 1 .. n : /\ Q[i].kind = "call" => Q[i].call = i
                                    /\ Q[i].kind # "call" => Q[i].call = 0
                                    /\ Q[i].kind = "call" /\ Q[i].open => i = n
               /\ OpenCall(Q) = IF r.kind = "call" /\ r.open THEN n ELSE 0
<1> DEFINE n == Len(P)
           Q == [P EXCEPT ![n] = r]
<1>1. P \in Seq(ItemRecord) /\ n \in Nat \ {0} /\ n \in 1 .. n
  BY EmptySeq DEF InOrder
<1>2. /\ Q \in Seq(ItemRecord) /\ Len(Q) = n
      /\ \A i \in 1 .. n : Q[i] = IF i = n THEN r ELSE P[i]
  BY <1>1, ExceptSeq
<1>3. DOMAIN Q = 1 .. n
  BY <1>2, LenProperties
<1>4. \A i \in 1 .. n : /\ P[i].kind = "call" => P[i].call = i
                        /\ P[i].kind # "call" => P[i].call = 0
                        /\ P[i].kind = "call" /\ P[i].open => i = n
  BY DEF InOrder
<1> HIDE DEF Q
<1>5. \A i \in 1 .. n : /\ Q[i].kind = "call" => Q[i].call = i
                        /\ Q[i].kind # "call" => Q[i].call = 0
                        /\ Q[i].kind = "call" /\ Q[i].open => i = n
  BY <1>2, <1>4
<1>6. Q # <<>>
  BY <1>1, <1>2, EmptySeq
<1>7. OpenCall(Q) = IF r.kind = "call" /\ r.open THEN n ELSE 0
  BY <1>1, <1>2, <1>6 DEF OpenCall
<1> QED
  BY <1>1, <1>2, <1>3, <1>5, <1>7 DEF Q

\* What does not change when the last item is another, of calls and of texts.
LEMMA LastItemKeeps ==
    ASSUME NEW P, InOrder(P), P # <<>>, NEW r \in ItemRecord,
           r.kind = P[Len(P)].kind, r.call = P[Len(P)].call
    PROVE  LET n == Len(P)
               Q == [P EXCEPT ![n] = r]
           IN  /\ CallsIn(Q) = CallsIn(P)
               /\ \A c \in CallsIn(P) : c # n => Q[c].n = P[c].n /\ Q[c].parsed = P[c].parsed
               /\ \A kind \in {"text", "reasoning"} :
                     kind # r.kind => DeltasOf(Q, kind) = DeltasOf(P, kind)
<1> DEFINE n == Len(P)
           Q == [P EXCEPT ![n] = r]
<1>1. /\ DOMAIN P = 1 .. n /\ CallsIn(P) = {i \in 1 .. n : P[i].kind = "call"}
      /\ \A i \in 1 .. n : P[i].n \in Nat
  BY CallsOfItems
<1>2. /\ Q[n] = r /\ DOMAIN Q = 1 .. n /\ n \in Nat \ {0}
      /\ \A i \in 1 .. n : i # n => Q[i] = P[i]
  BY LastItem
<1>0. r.kind = P[n].kind /\ r.call = P[n].call
  OBVIOUS
<1> HIDE DEF Q, n
<1>3. \A i \in 1 .. n : /\ Q[i].call = P[i].call /\ Q[i].kind = P[i].kind
                        /\ i # n => Q[i].n = P[i].n /\ Q[i].parsed = P[i].parsed
  BY <1>0, <1>2
<1>4. CallsIn(Q) = CallsIn(P)
  BY <1>1, <1>2, <1>3 DEF CallsIn
<1>5. ASSUME NEW kind \in {"text", "reasoning"}, kind # r.kind
      PROVE  DeltasOf(Q, kind) = DeltasOf(P, kind)
  <2>1. \A i \in 1 .. n : P[i].kind = kind => i # n
    BY <1>0, <1>5
  <2>2. \A i \in DOMAIN P : P[i].kind = kind => i \in DOMAIN Q /\ Q[i].kind = kind /\ Q[i].n = P[i].n
    BY <1>1, <1>2, <1>3, <2>1
  <2>3. \A i \in DOMAIN Q : Q[i].kind = kind => i \in DOMAIN P /\ P[i].kind = kind /\ Q[i].n \in Nat
    BY <1>1, <1>2, <1>3, <2>1
  <2> QED
    BY <2>2, <2>3, SameDeltas
<1> QED
  BY <1>1, <1>3, <1>4, <1>5 DEF Q, n

\* The text or the reasoning of the last item goes on.
LEMMA TextGoesOn ==
    ASSUME NEW P, InOrder(P), P # <<>>, NEW kind \in {"text", "reasoning"}, NEW r \in ItemRecord,
           r.kind = kind, r.kind = P[Len(P)].kind, r.call = P[Len(P)].call, r.n = P[Len(P)].n + 1
    PROVE  TextComes(P, [P EXCEPT ![Len(P)] = r], kind)
<1> DEFINE n == Len(P)
           Q == [P EXCEPT ![n] = r]
           m == P[n].n
<1>1. /\ DOMAIN P = 1 .. n /\ OpenCall(P) = 0
      /\ \A i \in 1 .. n : P[i].n \in Nat
      /\ \A k \in {"text", "reasoning"} : IsFiniteSet(DeltasOf(P, k))
  BY CallsOfItems DEF OpenCall, InOrder
<1>2. /\ Q \in Seq(ItemRecord) /\ Len(Q) = n /\ Q[n] = r /\ DOMAIN Q = 1 .. n
      /\ n \in Nat \ {0} /\ \A i \in 1 .. n : i # n => Q[i] = P[i]
      /\ \A i \in 1 .. n : /\ Q[i].kind = "call" => Q[i].call = i
                           /\ Q[i].kind # "call" => Q[i].call = 0
                           /\ Q[i].kind = "call" /\ Q[i].open => i = n
      /\ OpenCall(Q) = 0
  BY LastItem
<1>3. /\ CallsIn(Q) = CallsIn(P)
      /\ \A c \in CallsIn(P) : c # n => Q[c].n = P[c].n /\ Q[c].parsed = P[c].parsed
      /\ \A k \in {"text", "reasoning"} : k # kind => DeltasOf(Q, k) = DeltasOf(P, k)
  BY LastItemKeeps
<1>4. r.kind = kind /\ P[n].kind = kind /\ r.n = m + 1
  OBVIOUS
<1>5. m \in Nat
  BY <1>1, <1>2
<1>6. n \notin CallsIn(P)
  <2>1. CallsIn(P) = {i \in 1 .. n : P[i].kind = "call"}
    BY CallsOfItems
  <2> QED
    BY <1>4, <2>1
<1> HIDE DEF Q, n, m
<1>7. Total(Q, kind) = Total(P, kind) + 1 /\ IsFiniteSet(DeltasOf(Q, kind))
  <2>1. n \in DOMAIN Q /\ Q[n].kind = kind /\ Q[n].n = m + 1
    BY <1>2, <1>4
  <2>2. \A j \in DOMAIN P : j # n => j \in DOMAIN Q /\ Q[j].kind = P[j].kind /\ Q[j].n = P[j].n
    BY <1>1, <1>2
  <2>3. \A j \in DOMAIN Q : j # n => j \in DOMAIN P
    BY <1>1, <1>2
  <2>4. n \in DOMAIN P => P[n].kind = kind /\ P[n].n = m
    BY <1>1, <1>2, <1>4 DEF m
  <2>5. n \notin DOMAIN P => m = 0
    BY <1>1, <1>2
  <2>6. IsFiniteSet(DeltasOf(P, kind))
    BY <1>1
  <2> QED
    <3>1. MoreAt(P, Q, kind, n, m)
      BY <1>5, <2>1, <2>2, <2>3, <2>4, <2>5 DEF MoreAt
    <3> QED
      BY <2>6, <3>1, OneDelta
<1>8. InOrder(Q)
  <2>1. \A k \in {"text", "reasoning"} : IsFiniteSet(DeltasOf(Q, k))
    BY <1>1, <1>3, <1>7
  <2> QED
    BY <1>2, <2>1 DEF InOrder
<1>9. \A k \in {"text", "reasoning"} : k # kind => Total(Q, k) = Total(P, k)
  BY <1>3 DEF Total
<1>10. SameCallsBut(P, Q, 0)
  BY <1>3, <1>6 DEF SameCallsBut
<1>11. TextComes(P, Q, kind)
  BY <1>1, <1>2, <1>7, <1>8, <1>9, <1>10 DEF TextComes
<1> QED
  BY <1>11 DEF Q, n

\* The call that is going on changes.
LEMMA CallChanges ==
    ASSUME NEW P, InOrder(P), OpenCall(P) # 0, NEW r \in ItemRecord,
           r.kind = P[Len(P)].kind, r.call = P[Len(P)].call
    PROVE  LET c == OpenCall(P)
               Q == [P EXCEPT ![Len(P)] = r]
           IN  /\ InOrder(Q) /\ OpenCall(Q) = (IF r.open THEN c ELSE 0) /\ c \in CallsIn(P)
               /\ c = Len(P) /\ P[c].call = c
               /\ SameCallsBut(P, Q, c) /\ Q[c].n = r.n /\ Q[c].parsed = r.parsed
               /\ SameTexts(P, Q)
<1> DEFINE n == Len(P)
           Q == [P EXCEPT ![n] = r]
<1>0. P # <<>>
  BY DEF OpenCall
<1>1. P # <<>> /\ P[n].kind = "call" /\ OpenCall(P) = n /\ r.kind = "call"
  BY DEF OpenCall
<1>2. /\ Q \in Seq(ItemRecord) /\ Len(Q) = n /\ Q[n] = r
      /\ n \in Nat \ {0}
      /\ \A i \in 1 .. n : /\ Q[i].kind = "call" => Q[i].call = i
                           /\ Q[i].kind # "call" => Q[i].call = 0
                           /\ Q[i].kind = "call" /\ Q[i].open => i = n
      /\ OpenCall(Q) = IF r.kind = "call" /\ r.open THEN n ELSE 0
  BY <1>0, LastItem
<1>3. /\ CallsIn(Q) = CallsIn(P)
      /\ \A c \in CallsIn(P) : c # n => Q[c].n = P[c].n /\ Q[c].parsed = P[c].parsed
      /\ \A k \in {"text", "reasoning"} : DeltasOf(Q, k) = DeltasOf(P, k)
  BY <1>0, <1>1, LastItemKeeps
<1>4. OpenCall(P) \in CallsIn(P)
  BY CallsOfItems
<1>5. P[n].call = n
  BY <1>1, <1>2 DEF InOrder
<1> HIDE DEF Q
<1>6. InOrder(Q)
  BY <1>2, <1>3 DEF InOrder
<1>7. SameCallsBut(P, Q, n) /\ SameTexts(P, Q)
  BY <1>3 DEF SameCallsBut, SameTexts, Total
<1> QED
  BY <1>1, <1>2, <1>4, <1>5, <1>6, <1>7 DEF Q

-----------------------------------------------------------------------------

NumberedCall == [call : Nat, n : Nat]

OpenAIStream ==
    [text : Nat, thoughts : Nat, calls : Seq(NumberedCall), finish : {None, "stop", "tool_calls"},
     ended : {None, "done"}, errors : Nat, buffer : Nat, indexOf : Seq(Nat),
     withDeltas : SUBSET Nat, used : Nat, over : BOOLEAN]

\* What the stream has of the items P while they come.
OpenAIMid(s, P) ==
    /\ s \in OpenAIStream /\ s.errors = 0 /\ ~s.over
    /\ s.text + s.buffer = Total(P, "text")
    /\ s.thoughts = IF wants.reasoning THEN Total(P, "reasoning") ELSE 0
    /\ Carries(s.calls, CallsIn(P), P)
    /\ \A k \in DOMAIN s.calls : s.calls[k].call # 0
    /\ Len(s.indexOf) = Len(s.calls) /\ \A k \in DOMAIN s.calls : s.indexOf[k] = s.calls[k].call
    /\ s.withDeltas \subseteq CallsIn(P)
    /\ OpenCall(P) # 0 => (OpenCall(P) \in s.withDeltas <=> P[OpenCall(P)].n # 0)

\* AddTo changes the number of one call.
LEMMA AddToCall ==
    ASSUME NEW q \in Seq(NumberedCall), NEW i \in DOMAIN q, NEW n \in Nat
    PROVE  LET t == AddTo(q, i, n)
           IN  /\ t \in Seq(NumberedCall) /\ Len(t) = Len(q) /\ DOMAIN t = DOMAIN q
               /\ \A k \in DOMAIN q : t[k].call = q[k].call /\ (k # i => t[k] = q[k])
               /\ t[i].n = q[i].n + n
<1> DEFINE r == [q[i] EXCEPT !.n = q[i].n + n]
           t == [q EXCEPT ![i] = r]
<1>1. DOMAIN q = 1 .. Len(q) /\ q[i] \in NumberedCall
  BY LenProperties, ElementOfSeq
<1>2. r \in NumberedCall /\ r.call = q[i].call /\ r.n = q[i].n + n
  BY <1>1 DEF NumberedCall
<1> HIDE DEF r
<1>3. t \in Seq(NumberedCall) /\ Len(t) = Len(q) /\ \A k \in 1 .. Len(q) : t[k] = IF k = i THEN r ELSE q[k]
  BY <1>1, <1>2, ExceptSeq
<1>4. DOMAIN t = DOMAIN q
  BY <1>1, <1>3, LenProperties
<1>5. AddTo(q, i, n) = t
  BY DEF AddTo, r
<1> HIDE DEF t
<1> QED
  BY <1>1, <1>2, <1>3, <1>4, <1>5

\* A call among those a stream carries.
LEMMA CallIsThere ==
    ASSUME NEW seq, NEW C, NEW P, Carries(seq, C, P), NEW c \in C
    PROVE  \E k \in CallsIn(seq) : seq[k].call = c
BY DEF Carries

\* OpenAI: a delta of text is sent, or held back for the tuple schema.
LEMMA OpenAITextKeeps ==
    ASSUME NEW s, NEW P, NEW Q, OpenAIMid(s, P), TextComes(P, Q, "text")
    PROVE  OpenAIMid(OpenAIText(s), Q)
<1> DEFINE t == OpenAIText(s)
<1>1. s \in OpenAIStream
  BY DEF OpenAIMid
<1>2. /\ t \in OpenAIStream /\ t.errors = s.errors /\ t.over = s.over /\ t.thoughts = s.thoughts
      /\ t.calls = s.calls /\ t.indexOf = s.indexOf /\ t.withDeltas = s.withDeltas
      /\ t.text + t.buffer = s.text + s.buffer + 1
  <2>1. CASE wants.tuple
    <3> DEFINE x == s.buffer + 1
    <3>1. t = [s EXCEPT !.buffer = x]
      BY <2>1 DEF OpenAIText
    <3>2. x \in Nat /\ s.text \in Nat /\ s.buffer \in Nat
      BY <1>1 DEF OpenAIStream
    <3> HIDE DEF t, x
    <3>3. /\ t \in OpenAIStream /\ t.errors = s.errors /\ t.over = s.over
          /\ t.thoughts = s.thoughts /\ t.calls = s.calls /\ t.indexOf = s.indexOf
          /\ t.withDeltas = s.withDeltas /\ t.buffer = x /\ t.text = s.text
      BY <1>1, <3>1, <3>2 DEF OpenAIStream
    <3> QED
      BY <3>2, <3>3 DEF x
  <2>2. CASE ~wants.tuple
    <3> DEFINE x == s.text + 1
    <3>1. t = [s EXCEPT !.text = x]
      BY <2>2 DEF OpenAIText
    <3>2. x \in Nat /\ s.text \in Nat /\ s.buffer \in Nat
      BY <1>1 DEF OpenAIStream
    <3> HIDE DEF t, x
    <3>3. /\ t \in OpenAIStream /\ t.errors = s.errors /\ t.over = s.over
          /\ t.thoughts = s.thoughts /\ t.calls = s.calls /\ t.indexOf = s.indexOf
          /\ t.withDeltas = s.withDeltas /\ t.text = x /\ t.buffer = s.buffer
      BY <1>1, <3>1, <3>2 DEF OpenAIStream
    <3> QED
      BY <3>2, <3>3 DEF x
  <2> QED
    BY <2>1, <2>2
<1> HIDE DEF t
<1>3. Carries(s.calls, CallsIn(Q), Q)
  <2>1. CallsIn(Q) = CallsIn(P) /\ \A c \in CallsIn(P) : Q[c].n = P[c].n
    BY CallsOfItems DEF TextComes, SameCallsBut
  <2> QED
    BY <2>1, CarriesSame DEF OpenAIMid
<1>4. /\ CallsIn(Q) = CallsIn(P) /\ OpenCall(Q) = 0
      /\ Total(Q, "text") = Total(P, "text") + 1 /\ Total(Q, "reasoning") = Total(P, "reasoning")
  BY DEF TextComes, SameCallsBut
<1> QED
  BY <1>2, <1>3, <1>4 DEF OpenAIMid, t

\* A delta of reasoning is sent if it was asked for.
LEMMA OpenAIReasoningKeeps ==
    ASSUME NEW s, NEW P, NEW Q, OpenAIMid(s, P), TextComes(P, Q, "reasoning")
    PROVE  OpenAIMid(OpenAIReasoning(s), Q)
<1> DEFINE t == OpenAIReasoning(s)
<1>1. s \in OpenAIStream
  BY DEF OpenAIMid
<1>2. /\ t \in OpenAIStream /\ t.errors = s.errors /\ t.over = s.over
      /\ t.thoughts = IF wants.reasoning THEN s.thoughts + 1 ELSE s.thoughts
      /\ t.calls = s.calls /\ t.indexOf = s.indexOf /\ t.withDeltas = s.withDeltas
      /\ t.text = s.text /\ t.buffer = s.buffer
  <2>1. CASE wants.reasoning
    <3> DEFINE x == s.thoughts + 1
    <3>1. t = [s EXCEPT !.thoughts = x]
      BY <2>1 DEF OpenAIReasoning
    <3>2. x \in Nat
      BY <1>1 DEF OpenAIStream
    <3> HIDE DEF t, x
    <3>3. /\ t \in OpenAIStream /\ t.errors = s.errors /\ t.over = s.over
          /\ t.thoughts = x /\ t.calls = s.calls /\ t.indexOf = s.indexOf
          /\ t.withDeltas = s.withDeltas /\ t.text = s.text /\ t.buffer = s.buffer
      BY <1>1, <3>1, <3>2 DEF OpenAIStream
    <3> QED
      BY <2>1, <3>3 DEF x
  <2>2. CASE ~wants.reasoning
    BY <1>1, <2>2 DEF OpenAIReasoning
  <2> QED
    BY <2>1, <2>2
<1> HIDE DEF t
<1>3. Carries(s.calls, CallsIn(Q), Q)
  <2>1. CallsIn(Q) = CallsIn(P) /\ \A c \in CallsIn(P) : Q[c].n = P[c].n
    BY CallsOfItems DEF TextComes, SameCallsBut
  <2> QED
    BY <2>1, CarriesSame DEF OpenAIMid
<1>4. /\ CallsIn(Q) = CallsIn(P) /\ OpenCall(Q) = 0
      /\ Total(Q, "text") = Total(P, "text") /\ Total(Q, "reasoning") = Total(P, "reasoning") + 1
  BY DEF TextComes, SameCallsBut
<1> QED
  BY <1>2, <1>3, <1>4 DEF OpenAIMid, t

\* A call gets the next index.
LEMMA OpenAICallStartKeeps ==
    ASSUME NEW s, NEW P, NEW Q, NEW c, OpenAIMid(s, P), CallComes(P, Q, c), NEW e, e.call = c
    PROVE  OpenAIMid(OpenAICallStart(s, e), Q)
<1> DEFINE t == OpenAICallStart(s, e)
           r == [call |-> c, n |-> 0]
           n == Len(s.calls)
<1>1. s \in OpenAIStream /\ c \in Nat \ {0}
  BY DEF OpenAIMid, CallComes
<1>2. r \in NumberedCall /\ r.call = c /\ r.n = 0
  BY <1>1 DEF NumberedCall
<1>3. s.calls \in Seq(NumberedCall) /\ s.indexOf \in Seq(Nat)
  BY <1>1 DEF OpenAIStream
<1>4. t = [s EXCEPT !.calls = Append(s.calls, r), !.indexOf = Append(s.indexOf, c)]
  BY DEF OpenAICallStart
<1> HIDE DEF r, t
<1> DEFINE calls == Append(s.calls, r)
           indexOf == Append(s.indexOf, c)
<1>11. calls \in Seq(NumberedCall) /\ indexOf \in Seq(Nat)
  BY <1>1, <1>2, <1>3, AppendProperties
<1>5. /\ t \in OpenAIStream /\ t.errors = s.errors /\ t.over = s.over /\ t.thoughts = s.thoughts
      /\ t.calls = Append(s.calls, r) /\ t.indexOf = Append(s.indexOf, c)
      /\ t.withDeltas = s.withDeltas
      /\ t.text = s.text /\ t.buffer = s.buffer
  <2>1. t = [s EXCEPT !.calls = calls, !.indexOf = indexOf]
    BY <1>4
  <2>2. /\ t \in OpenAIStream /\ t.errors = s.errors /\ t.over = s.over /\ t.thoughts = s.thoughts
        /\ t.calls = calls /\ t.indexOf = indexOf /\ t.withDeltas = s.withDeltas
        /\ t.text = s.text /\ t.buffer = s.buffer
    <3> HIDE DEF calls, indexOf
    <3> QED
      BY <1>1, <1>11, <2>1 DEF OpenAIStream
  <2> QED
    BY <2>2
<1>6. /\ CallsIn(Q) = CallsIn(P) \cup {c} /\ OpenCall(Q) = c /\ Q[c].n = 0
      /\ \A d \in CallsIn(P) : d < c /\ Q[d].n = P[d].n
      /\ Total(Q, "text") = Total(P, "text") /\ Total(Q, "reasoning") = Total(P, "reasoning")
  BY DEF CallComes, SameTexts
<1>7. Carries(t.calls, CallsIn(Q), Q)
  BY <1>1, <1>2, <1>3, <1>5, <1>6, CarriesNew DEF OpenAIMid
<1>8. /\ Len(t.calls) = n + 1 /\ Len(t.indexOf) = n + 1 /\ n \in Nat
      /\ \A k \in 1 .. n : t.calls[k] = s.calls[k] /\ t.indexOf[k] = s.indexOf[k]
      /\ t.calls[n + 1] = r /\ t.indexOf[n + 1] = c
      /\ DOMAIN s.calls = 1 .. n /\ DOMAIN t.calls = 1 .. n + 1
  BY <1>1, <1>2, <1>3, <1>5, AppendProperties, LenProperties DEF OpenAIMid
<1> HIDE DEF n
<1>9. \A k \in DOMAIN t.calls : t.calls[k].call # 0 /\ t.indexOf[k] = t.calls[k].call
  <2>1. \A k \in 1 .. n : s.calls[k].call # 0 /\ s.indexOf[k] = s.calls[k].call
    BY <1>8 DEF OpenAIMid
  <2>2. \A k \in 1 .. n + 1 : k \in 1 .. n \/ k = n + 1
    BY <1>8
  <2> QED
    BY <1>1, <1>2, <1>8, <2>1, <2>2
<1>10. c \notin s.withDeltas /\ s.withDeltas \subseteq CallsIn(Q)
  <2>1. c \notin CallsIn(P)
    BY <1>1, <1>6
  <2> QED
    BY <1>6, <2>1 DEF OpenAIMid
<1> QED
  BY <1>5, <1>6, <1>7, <1>8, <1>9, <1>10 DEF OpenAIMid, t

\* The index a call was given is its place.
LEMMA IndexOfCall ==
    ASSUME NEW s, NEW P, OpenAIMid(s, P), NEW c \in CallsIn(P)
    PROVE  IndexOf(s, c) \in DOMAIN s.calls /\ s.calls[IndexOf(s, c)].call = c
<1>1. DOMAIN s.indexOf = DOMAIN s.calls
  BY LenProperties DEF OpenAIMid, OpenAIStream
<1>2. \E i \in DOMAIN s.indexOf : s.indexOf[i] = c
  <2>1. PICK k \in CallsIn(s.calls) : s.calls[k].call = c
    BY CallIsThere DEF OpenAIMid
  <2> QED
    BY <1>1, <2>1 DEF CallsIn, OpenAIMid
<1>3. IndexOf(s, c) \in DOMAIN s.indexOf /\ s.indexOf[IndexOf(s, c)] = c
  BY <1>2 DEF IndexOf
<1> QED
  BY <1>1, <1>3 DEF OpenAIMid

\* The arguments of a call that is going on, in all of them m.
LEMMA OpenAIGrown ==
    ASSUME NEW s, NEW P, NEW Q, NEW c, OpenAIMid(s, P), InOrder(P), c \in CallsIn(P),
           SameCallsBut(P, Q, c), NEW n \in Nat, Q[c].n = P[c].n + n
    PROVE  LET calls == AddTo(s.calls, IndexOf(s, c), n)
           IN  /\ calls \in Seq(NumberedCall) /\ Len(calls) = Len(s.calls)
               /\ Carries(calls, CallsIn(Q), Q)
               /\ DOMAIN calls = DOMAIN s.calls
               /\ \A k \in DOMAIN calls : calls[k].call = s.calls[k].call
<1> DEFINE i == IndexOf(s, c)
           q == s.calls
           t == AddTo(q, i, n)
<1>1. i \in DOMAIN q /\ q[i].call = c
  BY IndexOfCall
<1>2. q \in Seq(NumberedCall) /\ DOMAIN q = 1 .. Len(q) /\ Len(q) \in Nat
  BY LenProperties DEF OpenAIMid, OpenAIStream
<1> HIDE DEF i
<1>3. /\ t \in Seq(NumberedCall) /\ Len(t) = Len(q) /\ DOMAIN t = DOMAIN q
      /\ \A k \in DOMAIN q : t[k].call = q[k].call /\ (k # i => t[k] = q[k])
      /\ t[i].n = q[i].n + n
  BY <1>1, <1>2, AddToCall
<1>4. Carries(q, CallsIn(P), P) /\ CallsIn(q) = DOMAIN q
  BY DEF OpenAIMid, CallsIn
<1> HIDE DEF t, q
<1>5. CallsIn(t) = CallsIn(q) /\ i \in CallsIn(q) /\ CallsIn(q) \subseteq Nat
  BY <1>1, <1>2, <1>3, <1>4 DEF CallsIn
<1>6. CallsIn(P) \subseteq Nat
  BY CallsOfItems
<1>7. q[i].n = P[c].n
  BY <1>1, <1>4, <1>5 DEF Carries
<1>8. Carries(t, CallsIn(P), Q)
  <2>1. \A j \in CallsIn(q) : t[j].call = q[j].call
    BY <1>3, <1>4
  <2>2. \A j \in CallsIn(q) : j # i => t[j].n = q[j].n
    BY <1>3, <1>4
  <2>3. \A d \in CallsIn(P) : d # q[i].call => Q[d].n = P[d].n
    BY <1>1 DEF SameCallsBut
  <2>4. Q[q[i].call].n = t[i].n
    BY <1>1, <1>3, <1>7
  <2> QED
    BY <1>4, <1>5, <1>6, <2>1, <2>2, <2>3, <2>4, CarriesGrown
<1>9. CallsIn(Q) = CallsIn(P)
  BY DEF SameCallsBut
<1> QED
  BY <1>3, <1>8, <1>9 DEF t, q, i

\* A delta of arguments goes to the index of its call, which has deltas from now on.
LEMMA OpenAICallDeltaKeeps ==
    ASSUME NEW s, NEW P, NEW Q, NEW c, OpenAIMid(s, P), CallGrows(P, Q, c), NEW e, e.call = c
    PROVE  OpenAIMid(OpenAICallDelta(s, e), Q)
<1> DEFINE t == OpenAICallDelta(s, e)
           calls == AddTo(s.calls, IndexOf(s, c), 1)
<1>1. /\ s \in OpenAIStream /\ InOrder(P) /\ c \in CallsIn(P) /\ SameCallsBut(P, Q, c)
      /\ Q[c].n = P[c].n + 1 /\ OpenCall(P) = c /\ OpenCall(Q) = c
      /\ Total(Q, "text") = Total(P, "text") /\ Total(Q, "reasoning") = Total(P, "reasoning")
      /\ CallsIn(Q) = CallsIn(P)
  BY DEF OpenAIMid, CallGrows, SameTexts, SameCallsBut
<1>2. c \in Nat /\ P[c].n \in Nat
  BY <1>1, CallsOfItems
<1>3. /\ calls \in Seq(NumberedCall) /\ Len(calls) = Len(s.calls)
      /\ Carries(calls, CallsIn(Q), Q)
      /\ DOMAIN calls = DOMAIN s.calls
      /\ \A k \in DOMAIN calls : calls[k].call = s.calls[k].call
  <2>1. PICK one \in Nat : one = 1
    OBVIOUS
  <2> QED
    BY <1>1, <2>1, OpenAIGrown
<1>4. t = [s EXCEPT !.withDeltas = s.withDeltas \cup {c}, !.calls = calls]
  BY DEF OpenAICallDelta
<1> HIDE DEF t, calls
<1>5. /\ t \in OpenAIStream /\ t.errors = s.errors /\ t.over = s.over /\ t.thoughts = s.thoughts
      /\ t.calls = calls /\ t.indexOf = s.indexOf
      /\ t.withDeltas = s.withDeltas \cup {c}
      /\ t.text = s.text /\ t.buffer = s.buffer
  BY <1>1, <1>2, <1>3, <1>4 DEF OpenAIStream
<1> QED
  BY <1>1, <1>2, <1>3, <1>5 DEF OpenAIMid, t

\* The arguments of a call that is done are sent unless deltas have brought them.
LEMMA OpenAICallDoneKeeps ==
    ASSUME NEW s, NEW P, NEW Q, NEW c, NEW n, OpenAIMid(s, P), CallEnds(P, Q, c, n),
           NEW e, e.call = c, e.n = n
    PROVE  OpenAIMid(OpenAICallDone(s, e), Q)
<1> DEFINE t == OpenAICallDone(s, e)
           calls == AddTo(s.calls, IndexOf(s, c), n)
<1>1. /\ s \in OpenAIStream /\ InOrder(P) /\ c \in CallsIn(P) /\ SameCallsBut(P, Q, c)
      /\ Q[c].n = n /\ n \in Nat /\ OpenCall(P) = c /\ OpenCall(Q) = 0
      /\ P[c].n # 0 => n = P[c].n
      /\ Total(Q, "text") = Total(P, "text") /\ Total(Q, "reasoning") = Total(P, "reasoning")
      /\ CallsIn(Q) = CallsIn(P)
  BY DEF OpenAIMid, CallEnds, SameTexts, SameCallsBut
<1>2. c \in Nat \ {0} /\ P[c].n \in Nat
  BY <1>1, CallsOfItems
<1>3. c \in s.withDeltas <=> P[c].n # 0
  BY <1>1, <1>2 DEF OpenAIMid
<1>4. CASE c \in s.withDeltas
  <2>1. t = s
    BY <1>4 DEF OpenAICallDone
  <2>2. \A d \in CallsIn(P) : Q[d].n = P[d].n
    BY <1>1, <1>3, <1>4 DEF SameCallsBut
  <2>3. Carries(s.calls, CallsIn(Q), Q)
    BY <1>1, <2>2, CarriesSame DEF OpenAIMid
  <2> HIDE DEF t
  <2> QED
    BY <1>1, <2>1, <2>3 DEF OpenAIMid, t
<1>5. CASE c \notin s.withDeltas
  <2>1. Q[c].n = P[c].n + n
    BY <1>1, <1>2, <1>3, <1>5
  <2>2. /\ calls \in Seq(NumberedCall) /\ Len(calls) = Len(s.calls)
        /\ Carries(calls, CallsIn(Q), Q)
        /\ DOMAIN calls = DOMAIN s.calls
        /\ \A k \in DOMAIN calls : calls[k].call = s.calls[k].call
    BY <1>1, <2>1, OpenAIGrown
  <2>3. t = [s EXCEPT !.calls = calls]
    BY <1>5 DEF OpenAICallDone
  <2> HIDE DEF t, calls
  <2>4. /\ t \in OpenAIStream /\ t.errors = s.errors /\ t.over = s.over /\ t.thoughts = s.thoughts
        /\ t.calls = calls /\ t.indexOf = s.indexOf /\ t.withDeltas = s.withDeltas
        /\ t.text = s.text /\ t.buffer = s.buffer
    BY <1>1, <2>2, <2>3 DEF OpenAIStream
  <2> QED
    BY <1>1, <2>2, <2>4 DEF OpenAIMid, t
<1> QED
  BY <1>4, <1>5

\* What the client is told of an empty response, and what it has when it completed.
ForClient(P) == Total(P, "text") > 0 \/ CallsIn(P) # {}

Told(s, P, shown) == (s.errors > 0) <=> ~(ForClient(P) \/ (shown /\ Total(P, "reasoning") > 0))

\* All of the text, and the calls with the arguments they have in said.
HasOf(s, P, said) == s.text = Total(P, "text") /\ Carries(s.calls, CallsIn(P), said)

Has(s, P) == HasOf(s, P, P)

HasParsed(s, P) == HasOf(s, P, Parsed(P))

\* A stream has calls if and only if there are any.
LEMMA NoCalls ==
    ASSUME NEW q \in Seq(NumberedCall), NEW C, NEW P, Carries(q, C, P),
           \A k \in DOMAIN q : q[k].call # 0
    PROVE  q # <<>> <=> C # {}
<1>1. CallsIn(q) = DOMAIN q
  BY DEF CallsIn
<1>2. q # <<>> <=> DOMAIN q # {}
  BY EmptySeq, LenProperties
<1>3. C # {} <=> CallsIn(q) # {}
  BY DEF Carries
<1> QED
  BY <1>1, <1>2, <1>3

\* Completed: the text held back is sent, and an error if there was nothing.
LEMMA OpenAICompletes ==
    ASSUME NEW s, NEW P, OpenAIMid(s, P), InOrder(P), NEW e
    PROVE  /\ OpenAICompleted(s, e) \in OpenAIStream
           /\ Has(OpenAICompleted(s, e), P) /\ Told(OpenAICompleted(s, e), P, wants.reasoning)
<1> DEFINE t == OpenAICompleted(s, e)
           text == s.text + s.buffer
           errors == s.errors + (IF HasContent(s) THEN 0 ELSE 1)
           used == s.used + (IF e.usage THEN 1 ELSE 0)
           finish == IF s.calls # <<>> THEN "tool_calls" ELSE "stop"
<1>1. s \in OpenAIStream
  BY DEF OpenAIMid
<1>2. t = [s EXCEPT !.text = text, !.buffer = 0, !.used = used, !.errors = errors, !.finish = finish]
  BY DEF OpenAICompleted
<1>0. /\ text \in Nat /\ errors \in Nat /\ used \in Nat /\ finish \in {"stop", "tool_calls"}
  BY <1>1 DEF OpenAIStream
<1> HIDE DEF t, text, errors, used, finish
<1>3. t \in OpenAIStream /\ t.text = text /\ t.errors = errors /\ t.calls = s.calls
  BY <1>0, <1>1, <1>2 DEF OpenAIStream
<1>4. /\ s.text \in Nat /\ s.buffer \in Nat /\ s.thoughts \in Nat /\ s.errors = 0
      /\ s.calls \in Seq(NumberedCall)
      /\ s.text + s.buffer = Total(P, "text")
      /\ s.thoughts = IF wants.reasoning THEN Total(P, "reasoning") ELSE 0
      /\ Carries(s.calls, CallsIn(P), P)
      /\ \A k \in DOMAIN s.calls : s.calls[k].call # 0
  BY DEF OpenAIMid, OpenAIStream
<1>5. s.calls # <<>> <=> CallsIn(P) # {}
  BY <1>4, NoCalls
<1>6. Total(P, "text") \in Nat /\ Total(P, "reasoning") \in Nat
  BY CallsOfItems
<1>7. HasContent(s) <=> ForClient(P) \/ (wants.reasoning /\ Total(P, "reasoning") > 0)
  <2>1. s.text + s.buffer + s.thoughts > 0 <=> Total(P, "text") > 0 \/ s.thoughts > 0
    BY <1>4, <1>6
  <2>2. s.thoughts > 0 <=> wants.reasoning /\ Total(P, "reasoning") > 0
    BY <1>4, <1>6
  <2> QED
    BY <1>5, <2>1, <2>2 DEF HasContent, ForClient
<1>8. errors > 0 <=> ~HasContent(s)
  BY <1>4 DEF errors
<1>9. text = Total(P, "text")
  BY <1>4 DEF text
<1> QED
  BY <1>3, <1>4, <1>7, <1>8, <1>9 DEF Has, HasOf, Told, t

-----------------------------------------------------------------------------

GeminiStream ==
    [text : Nat, thoughts : Nat, calls : Seq(NumberedCall), finish : {None, "STOP", "OTHER"},
     errors : Nat, buffer : Nat, used : Nat, over : BOOLEAN]

\* The calls a stream or a collector has that takes them when they are done, with the
\* arguments they have in said.
HasDone(calls, P, said) ==
    /\ calls \in Seq(NumberedCall) /\ Carries(calls, DoneCalls(P), said)
    /\ \A k \in DOMAIN calls : calls[k].call # 0

GeminiMid(s, P) ==
    /\ s \in GeminiStream /\ s.errors = 0 /\ s.thoughts = 0 /\ ~s.over
    /\ s.text + s.buffer = Total(P, "text")
    /\ HasDone(s.calls, P, Parsed(P))

\* Done calls stay while text comes, and a call comes or grows.
DoneSame(P, Q) ==
    /\ DoneCalls(Q) = DoneCalls(P)
    /\ \A d \in DoneCalls(P) : Q[d].n = P[d].n /\ Parsed(Q)[d].n = Parsed(P)[d].n

\* The parsed arguments of a call.
LEMMA ParsedOf ==
    ASSUME NEW P, NEW c \in CallsIn(P) PROVE Parsed(P)[c].n = P[c].parsed
BY DEF CallsIn, Parsed

\* What is known of the done calls, while others come and grow.
LEMMA DoneStays ==
    ASSUME NEW P, NEW Q, DoneSame(P, Q), NEW calls
    PROVE  /\ HasDone(calls, P, P) => HasDone(calls, Q, Q)
           /\ HasDone(calls, P, Parsed(P)) => HasDone(calls, Q, Parsed(Q))
<1>1. ASSUME NEW R, NEW S, \A d \in DoneCalls(P) : S[d].n = R[d].n, HasDone(calls, P, R)
      PROVE  HasDone(calls, Q, S)
  <2>1. Carries(calls, DoneCalls(P), R)
    BY <1>1 DEF HasDone
  <2>2. Carries(calls, DoneCalls(P), S)
    BY <1>1, <2>1, CarriesSame
  <2> QED
    BY <1>1, <2>2 DEF HasDone, DoneSame
<1>2. \A d \in DoneCalls(P) : Q[d].n = P[d].n
  BY DEF DoneSame
<1>3. \A d \in DoneCalls(P) : Parsed(Q)[d].n = Parsed(P)[d].n
  BY DEF DoneSame
<1> QED
  BY <1>1, <1>2, <1>3

\* No call is done by text, by a call that comes, or by one that grows.
LEMMA TextLeavesDone ==
    ASSUME NEW P, NEW Q, NEW kind, TextComes(P, Q, kind) PROVE DoneSame(P, Q)
<1>1. CallsIn(P) \subseteq Nat \ {0}
  BY CallsOfItems DEF TextComes
<1>2. DoneCalls(Q) = DoneCalls(P) /\ DoneCalls(P) \subseteq CallsIn(P) /\ CallsIn(Q) = CallsIn(P)
  BY DEF TextComes, SameCallsBut, DoneCalls
<1>3. \A d \in DoneCalls(P) : Q[d].n = P[d].n /\ Q[d].parsed = P[d].parsed
  BY <1>1, <1>2 DEF TextComes, SameCallsBut
<1> QED
  BY <1>2, <1>3, ParsedOf DEF DoneSame

LEMMA CallLeavesDone ==
    ASSUME NEW P, NEW Q, NEW c, CallComes(P, Q, c) PROVE DoneSame(P, Q)
<1>1. CallsIn(P) \subseteq Nat \ {0}
  BY CallsOfItems DEF CallComes
<1>2. c \notin CallsIn(P)
  BY <1>1 DEF CallComes
<1>3. /\ DoneCalls(Q) = DoneCalls(P) /\ DoneCalls(P) \subseteq CallsIn(P)
      /\ CallsIn(P) \subseteq CallsIn(Q)
  BY <1>1, <1>2 DEF CallComes, DoneCalls
<1>4. \A d \in DoneCalls(P) : Q[d].n = P[d].n /\ Q[d].parsed = P[d].parsed
  BY <1>3 DEF CallComes
<1>5. \A d \in DoneCalls(P) : Parsed(Q)[d].n = Parsed(P)[d].n
  BY <1>3, <1>4, ParsedOf
<1> QED
  BY <1>3, <1>4, <1>5 DEF DoneSame

LEMMA GrowthLeavesDone ==
    ASSUME NEW P, NEW Q, NEW c, CallGrows(P, Q, c) PROVE DoneSame(P, Q)
<1>1. DoneCalls(Q) = DoneCalls(P) /\ DoneCalls(P) \subseteq CallsIn(P) /\ CallsIn(Q) = CallsIn(P)
  BY DEF CallGrows, SameCallsBut, DoneCalls
<1>2. \A d \in DoneCalls(P) : Q[d].n = P[d].n /\ Q[d].parsed = P[d].parsed
  BY <1>1 DEF CallGrows, SameCallsBut, DoneCalls
<1> QED
  BY <1>1, <1>2, ParsedOf DEF DoneSame

\* One call more is done.
LEMMA DoneComes ==
    ASSUME NEW calls, NEW P, NEW Q, NEW c, NEW n, CallEnds(P, Q, c, n), NEW R, NEW S,
           HasDone(calls, P, R), \A d \in DoneCalls(P) : S[d].n = R[d].n,
           NEW r \in NumberedCall, r.call = c, r.n = S[c].n
    PROVE  HasDone(Append(calls, r), Q, S)
<1> DEFINE new == Append(calls, r)
<1>1. /\ InOrder(P) /\ OpenCall(P) = c /\ OpenCall(Q) = 0 /\ c \in CallsIn(P)
      /\ CallsIn(Q) = CallsIn(P)
  BY DEF CallEnds, SameCallsBut
<1>2. CallsIn(P) \subseteq Nat \ {0} /\ \A d \in CallsIn(P) : d # c => d < c
  BY <1>1, CallsOfItems
<1>3. DoneCalls(Q) = DoneCalls(P) \cup {c} /\ \A d \in DoneCalls(P) : d < c
  BY <1>1, <1>2 DEF DoneCalls
<1>4. calls \in Seq(NumberedCall) /\ Carries(calls, DoneCalls(P), R) /\ c # 0
  BY <1>1, <1>2 DEF HasDone
<1>5. Carries(new, DoneCalls(P) \cup {r.call}, S)
  BY <1>1, <1>3, <1>4, CarriesNew
<1>6. /\ new \in Seq(NumberedCall) /\ DOMAIN new = 1 .. Len(calls) + 1
      /\ DOMAIN calls = 1 .. Len(calls)
      /\ \A k \in 1 .. Len(calls) : new[k] = calls[k]
      /\ new[Len(calls) + 1] = r /\ Len(calls) \in Nat
  BY <1>4, AppendProperties, LenProperties
<1> HIDE DEF new
<1>7. \A k \in DOMAIN new : new[k].call # 0
  <2>1. \A k \in 1 .. Len(calls) : calls[k].call # 0
    BY <1>6 DEF HasDone
  <2>2. \A k \in 1 .. Len(calls) + 1 : k \in 1 .. Len(calls) \/ k = Len(calls) + 1
    BY <1>6
  <2> QED
    BY <1>4, <1>6, <2>1, <2>2
<1> QED
  BY <1>3, <1>5, <1>6, <1>7 DEF HasDone, new

\* The arguments of the calls that were done stay when one more is.
LEMMA DoneKept ==
    ASSUME NEW P, NEW Q, NEW c, NEW n, CallEnds(P, Q, c, n)
    PROVE  /\ \A d \in DoneCalls(P) : Q[d].n = P[d].n /\ Parsed(Q)[d].n = Parsed(P)[d].n
           /\ Q[c].n = n /\ n \in Nat /\ Parsed(Q)[c].n = Q[c].parsed /\ Q[c].parsed \in Nat
           /\ c \in Nat
<1>1. /\ CallsIn(Q) = CallsIn(P) /\ c \in CallsIn(P) /\ OpenCall(P) = c /\ InOrder(P)
      /\ \A d \in CallsIn(P) : d # c => Q[d].n = P[d].n /\ Q[d].parsed = P[d].parsed
      /\ Q[c].n = n /\ n \in Nat /\ Q[c].parsed \in Nat
  BY DEF CallEnds, SameCallsBut
<1>2. \A d \in DoneCalls(P) : d \in CallsIn(P) /\ d # c
  BY <1>1 DEF DoneCalls
<1>3. c \in Nat
  BY <1>1, CallsOfItems
<1>4. \A d \in CallsIn(P) : Parsed(P)[d].n = P[d].parsed /\ Parsed(Q)[d].n = Q[d].parsed
  BY <1>1, ParsedOf
<1> QED
  BY <1>1, <1>2, <1>3, <1>4

\* Gemini: a delta of text is sent, or held back for the tuple schema.
LEMMA GeminiTextKeeps ==
    ASSUME NEW s, NEW P, NEW Q, GeminiMid(s, P), TextComes(P, Q, "text")
    PROVE  GeminiMid(GeminiText(s), Q)
<1> DEFINE t == GeminiText(s)
<1>1. s \in GeminiStream
  BY DEF GeminiMid
<1>2. /\ t \in GeminiStream /\ t.errors = s.errors /\ t.over = s.over /\ t.thoughts = s.thoughts
      /\ t.calls = s.calls /\ t.text + t.buffer = s.text + s.buffer + 1
  <2>1. CASE wants.tuple
    <3> DEFINE x == s.buffer + 1
    <3>1. t = [s EXCEPT !.buffer = x]
      BY <2>1 DEF GeminiText
    <3>2. x \in Nat /\ s.text \in Nat /\ s.buffer \in Nat
      BY <1>1 DEF GeminiStream
    <3> HIDE DEF t, x
    <3>3. /\ t \in GeminiStream /\ t.errors = s.errors /\ t.over = s.over
          /\ t.thoughts = s.thoughts /\ t.calls = s.calls /\ t.buffer = x /\ t.text = s.text
      BY <1>1, <3>1, <3>2 DEF GeminiStream
    <3> QED
      BY <3>2, <3>3 DEF x
  <2>2. CASE ~wants.tuple
    <3> DEFINE x == s.text + 1
    <3>1. t = [s EXCEPT !.text = x]
      BY <2>2 DEF GeminiText
    <3>2. x \in Nat /\ s.text \in Nat /\ s.buffer \in Nat
      BY <1>1 DEF GeminiStream
    <3> HIDE DEF t, x
    <3>3. /\ t \in GeminiStream /\ t.errors = s.errors /\ t.over = s.over
          /\ t.thoughts = s.thoughts /\ t.calls = s.calls /\ t.text = x /\ t.buffer = s.buffer
      BY <1>1, <3>1, <3>2 DEF GeminiStream
    <3> QED
      BY <3>2, <3>3 DEF x
  <2> QED
    BY <2>1, <2>2
<1> HIDE DEF t
<1>3. HasDone(t.calls, Q, Parsed(Q))
  BY <1>2, TextLeavesDone, DoneStays DEF GeminiMid
<1>4. Total(Q, "text") = Total(P, "text") + 1
  BY DEF TextComes
<1> QED
  BY <1>2, <1>3, <1>4 DEF GeminiMid, t

\* Reasoning and arguments that are streamed are nothing to Gemini.
LEMMA GeminiIgnores ==
    ASSUME NEW s, NEW P, NEW Q, NEW c, GeminiMid(s, P),
           TextComes(P, Q, "reasoning") \/ CallComes(P, Q, c) \/ CallGrows(P, Q, c)
    PROVE  GeminiMid(s, Q)
<1>1. DoneSame(P, Q)
  BY TextLeavesDone, CallLeavesDone, GrowthLeavesDone
<1>3. HasDone(s.calls, Q, Parsed(Q))
  BY <1>1, DoneStays DEF GeminiMid
<1>2. Total(Q, "text") = Total(P, "text")
  BY DEF TextComes, CallComes, CallGrows, SameTexts
<1> QED
  BY <1>2, <1>3 DEF GeminiMid

\* A call is sent whole when it is done.
LEMMA GeminiCallDoneKeeps ==
    ASSUME NEW s, NEW P, NEW Q, NEW c, NEW n, GeminiMid(s, P), CallEnds(P, Q, c, n),
           NEW e, e.call = c, e.parsed = Q[c].parsed
    PROVE  GeminiMid(GeminiCallDone(s, e), Q)
<1> DEFINE t == GeminiCallDone(s, e)
           r == [call |-> c, n |-> Q[c].parsed]
           calls == Append(s.calls, r)
<1>1. /\ s \in GeminiStream /\ c \in Nat /\ Q[c].parsed \in Nat
      /\ Parsed(Q)[c].n = Q[c].parsed /\ HasDone(s.calls, P, Parsed(P))
      /\ \A d \in DoneCalls(P) : Parsed(Q)[d].n = Parsed(P)[d].n
  BY DoneKept DEF GeminiMid
<1>2. r \in NumberedCall /\ r.call = c /\ r.n = Parsed(Q)[c].n
  BY <1>1 DEF NumberedCall
<1>3. t = [s EXCEPT !.calls = calls]
  BY DEF GeminiCallDone
<1> HIDE DEF r, t
<1>4. calls \in Seq(NumberedCall)
  BY <1>1, <1>2, AppendProperties DEF HasDone
<1>5. /\ t \in GeminiStream /\ t.errors = s.errors /\ t.over = s.over /\ t.thoughts = s.thoughts
      /\ t.calls = calls /\ t.text = s.text /\ t.buffer = s.buffer
  <2> HIDE DEF calls
  <2> QED
    BY <1>1, <1>3, <1>4 DEF GeminiStream
<1>6. HasDone(t.calls, Q, Parsed(Q))
  BY <1>1, <1>2, <1>5, DoneComes
<1>7. Total(Q, "text") = Total(P, "text")
  BY DEF CallEnds, SameTexts
<1> QED
  BY <1>5, <1>6, <1>7 DEF GeminiMid, t

\* Completed: the text held back is sent, and an error if there was nothing.
LEMMA GeminiCompletes ==
    ASSUME NEW s, NEW P, GeminiMid(s, P), InOrder(P), OpenCall(P) = 0, NEW e
    PROVE  /\ GeminiCompleted(s, e) \in GeminiStream
           /\ HasParsed(GeminiCompleted(s, e), P) /\ Told(GeminiCompleted(s, e), P, FALSE)
<1> DEFINE t == GeminiCompleted(s, e)
           text == s.text + s.buffer
           errors == s.errors + (IF HasContent(s) THEN 0 ELSE 1)
           used == s.used + (IF e.usage THEN 1 ELSE 0)
<1>1. s \in GeminiStream
  BY DEF GeminiMid
<1>2. t = [s EXCEPT !.text = text, !.buffer = 0, !.used = used, !.errors = errors, !.finish = "STOP"]
  BY DEF GeminiCompleted
<1>0. text \in Nat /\ errors \in Nat /\ used \in Nat
  BY <1>1 DEF GeminiStream
<1> HIDE DEF t, text, errors, used
<1>3. t \in GeminiStream /\ t.text = text /\ t.errors = errors /\ t.calls = s.calls
  BY <1>0, <1>1, <1>2 DEF GeminiStream
<1>4. /\ s.text \in Nat /\ s.buffer \in Nat /\ s.thoughts = 0 /\ s.errors = 0
      /\ s.text + s.buffer = Total(P, "text")
  BY DEF GeminiMid, GeminiStream
<1>5. DoneCalls(P) = CallsIn(P)
  <2>1. 0 \notin CallsIn(P)
    BY CallsOfItems
  <2> QED
    BY <2>1 DEF DoneCalls
<1>6. /\ s.calls \in Seq(NumberedCall) /\ Carries(s.calls, CallsIn(P), Parsed(P))
      /\ \A k \in DOMAIN s.calls : s.calls[k].call # 0
  BY <1>5 DEF GeminiMid, HasDone
<1>7. s.calls # <<>> <=> CallsIn(P) # {}
  BY <1>6, NoCalls
<1>8. HasContent(s) <=> ForClient(P)
  BY <1>4, <1>7 DEF HasContent, ForClient
<1>9. errors > 0 <=> ~HasContent(s)
  BY <1>4 DEF errors
<1>10. text = Total(P, "text")
  BY <1>4 DEF text
<1> QED
  BY <1>3, <1>6, <1>8, <1>9, <1>10 DEF HasParsed, HasOf, Told, t

-----------------------------------------------------------------------------

CollectorRecord ==
    [text : Nat, thoughts : Nat, calls : Seq(NumberedCall), parsed : Seq(NumberedCall), used : Nat,
     outcome : {None, "response", "empty", "error"}]

CollectedMid(s, P) ==
    /\ s \in CollectorRecord /\ s.outcome = None
    /\ s.text = Total(P, "text")
    /\ HasDone(s.calls, P, P) /\ HasDone(s.parsed, P, Parsed(P))

\* What a collector's answer says of the items.
CollectedEnd(s, P) ==
    /\ s.outcome \in {"response", "empty"} /\ Has(s, P)
    /\ Carries(s.parsed, CallsIn(P), Parsed(P))
    /\ s.outcome = "empty" => Total(P, "text") = 0 /\ CallsIn(P) = {}

\* The collectors: text, reasoning and the calls that are done are kept, other events are
\* not; usage is noted when the response completed.
LEMMA CollectTextKeeps ==
    ASSUME NEW s, NEW P, NEW Q, CollectedMid(s, P), NEW e, e.type = "text",
           TextComes(P, Q, "text")
    PROVE  CollectedMid(CollectEvent(s, e), Q)
<1> DEFINE t == CollectEvent(s, e)
           x == s.text + 1
<1>1. s \in CollectorRecord /\ x \in Nat
  BY DEF CollectedMid, CollectorRecord
<1>2. t = [s EXCEPT !.text = x]
  BY DEF CollectEvent
<1> HIDE DEF t, x
<1>3. t \in CollectorRecord /\ t.outcome = s.outcome /\ t.text = x /\ t.calls = s.calls /\ t.parsed = s.parsed
  BY <1>1, <1>2 DEF CollectorRecord
<1>4. HasDone(t.calls, Q, Q) /\ HasDone(t.parsed, Q, Parsed(Q))
  BY <1>3, TextLeavesDone, DoneStays DEF CollectedMid
<1>5. x = Total(Q, "text")
  BY DEF TextComes, CollectedMid, x
<1> QED
  BY <1>3, <1>4, <1>5 DEF CollectedMid, t

LEMMA CollectReasoningKeeps ==
    ASSUME NEW s, NEW P, NEW Q, CollectedMid(s, P), NEW e, e.type = "reasoning",
           TextComes(P, Q, "reasoning")
    PROVE  CollectedMid(CollectEvent(s, e), Q)
<1> DEFINE t == CollectEvent(s, e)
           x == s.thoughts + 1
<1>1. s \in CollectorRecord /\ x \in Nat
  BY DEF CollectedMid, CollectorRecord
<1>2. t = [s EXCEPT !.thoughts = x]
  BY DEF CollectEvent
<1> HIDE DEF t, x
<1>3. t \in CollectorRecord /\ t.outcome = s.outcome /\ t.text = s.text /\ t.calls = s.calls /\ t.parsed = s.parsed
  BY <1>1, <1>2 DEF CollectorRecord
<1>4. HasDone(t.calls, Q, Q) /\ HasDone(t.parsed, Q, Parsed(Q))
  BY <1>3, TextLeavesDone, DoneStays DEF CollectedMid
<1>5. Total(P, "text") = Total(Q, "text")
  BY DEF TextComes
<1> QED
  BY <1>3, <1>4, <1>5 DEF CollectedMid, t

\* What a call streams before it is done, and what no one knows of.
LEMMA CollectIgnores ==
    ASSUME NEW s, NEW P, NEW Q, NEW c, CollectedMid(s, P), NEW e,
           e.type \in {"callAdded", "argumentsDelta", "unknown"},
           CallComes(P, Q, c) \/ CallGrows(P, Q, c) \/ Q = P
    PROVE  CollectedMid(CollectEvent(s, e), Q)
<1>1. CollectEvent(s, e) = s
  BY DEF CollectEvent
<1>2. DoneSame(P, Q)
  BY CallLeavesDone, GrowthLeavesDone DEF DoneSame
<1>3. HasDone(s.calls, Q, Q) /\ HasDone(s.parsed, Q, Parsed(Q))
  BY <1>2, DoneStays DEF CollectedMid
<1>4. Total(P, "text") = Total(Q, "text")
  BY DEF CallComes, CallGrows, SameTexts
<1> QED
  BY <1>1, <1>3, <1>4 DEF CollectedMid

LEMMA CollectCallDoneKeeps ==
    ASSUME NEW s, NEW P, NEW Q, NEW c, NEW n, CollectedMid(s, P), CallEnds(P, Q, c, n),
           NEW e, e.type = "argumentsDone", e.call = c, e.n = n, e.parsed = Q[c].parsed
    PROVE  CollectedMid(CollectEvent(s, e), Q)
<1> DEFINE t == CollectEvent(s, e)
           r == [call |-> c, n |-> n]
           x == [call |-> c, n |-> Q[c].parsed]
           calls == Append(s.calls, r)
           parsed == Append(s.parsed, x)
<1>1. /\ s \in CollectorRecord /\ c \in Nat /\ n \in Nat /\ Q[c].n = n /\ Q[c].parsed \in Nat
      /\ Parsed(Q)[c].n = Q[c].parsed
      /\ HasDone(s.calls, P, P) /\ HasDone(s.parsed, P, Parsed(P))
      /\ \A d \in DoneCalls(P) : Q[d].n = P[d].n /\ Parsed(Q)[d].n = Parsed(P)[d].n
  BY DoneKept DEF CollectedMid
<1>2. /\ r \in NumberedCall /\ r.call = c /\ r.n = Q[c].n
      /\ x \in NumberedCall /\ x.call = c /\ x.n = Parsed(Q)[c].n
  BY <1>1 DEF NumberedCall
<1>3. t = [s EXCEPT !.calls = calls, !.parsed = parsed]
  BY DEF CollectEvent
<1> HIDE DEF r, x, t
<1>4. calls \in Seq(NumberedCall) /\ parsed \in Seq(NumberedCall)
  BY <1>1, <1>2, AppendProperties DEF HasDone
<1>5. /\ t \in CollectorRecord /\ t.outcome = s.outcome /\ t.text = s.text
      /\ t.calls = calls /\ t.parsed = parsed
  <2> HIDE DEF calls, parsed
  <2> QED
    BY <1>1, <1>3, <1>4 DEF CollectorRecord
<1>6. HasDone(t.calls, Q, Q)
  BY <1>1, <1>2, <1>5, DoneComes
<1>7. HasDone(t.parsed, Q, Parsed(Q))
  BY <1>1, <1>2, <1>5, DoneComes
<1>8. Total(Q, "text") = Total(P, "text")
  BY DEF CallEnds, SameTexts
<1> QED
  BY <1>5, <1>6, <1>7, <1>8 DEF CollectedMid, t

LEMMA CollectCompletedKeeps ==
    ASSUME NEW s, NEW P, CollectedMid(s, P), NEW e, e.type = "completed"
    PROVE  CollectedMid(CollectEvent(s, e), P)
<1> DEFINE t == CollectEvent(s, e)
           x == s.used + (IF e.usage THEN 1 ELSE 0)
<1>1. s \in CollectorRecord /\ x \in Nat
  BY DEF CollectedMid, CollectorRecord
<1>2. t = [s EXCEPT !.used = x]
  BY DEF CollectEvent
<1> HIDE DEF t, x
<1>3. t \in CollectorRecord /\ t.outcome = s.outcome /\ t.text = s.text /\ t.calls = s.calls /\ t.parsed = s.parsed
  BY <1>1, <1>2 DEF CollectorRecord
<1> QED
  BY <1>3 DEF CollectedMid, t

\* The answer that was collected, unless nothing was.
LEMMA CollectEnds ==
    ASSUME NEW s, NEW P, CollectedMid(s, P), InOrder(P), OpenCall(P) = 0
    PROVE  CollectedEnd(CollectEnd(s), P)
<1> DEFINE t == CollectEnd(s)
           x == IF s.text = 0 /\ s.calls = <<>> /\ s.used = 0 THEN "empty" ELSE "response"
<1>1. s \in CollectorRecord
  BY DEF CollectedMid
<1>2. t = [s EXCEPT !.outcome = x]
  BY DEF CollectEnd
<1> HIDE DEF t, x
<1>3. t.outcome = x /\ t.text = s.text /\ t.calls = s.calls /\ t.parsed = s.parsed
  BY <1>1, <1>2 DEF CollectorRecord
<1>4. DoneCalls(P) = CallsIn(P)
  <2>1. 0 \notin CallsIn(P)
    BY CallsOfItems
  <2> QED
    BY <2>1 DEF DoneCalls
<1>5. /\ s.calls \in Seq(NumberedCall) /\ Carries(s.calls, CallsIn(P), P)
      /\ \A k \in DOMAIN s.calls : s.calls[k].call # 0
      /\ s.text = Total(P, "text") /\ Carries(s.parsed, CallsIn(P), Parsed(P))
  BY <1>4 DEF CollectedMid, HasDone
<1>6. s.calls # <<>> <=> CallsIn(P) # {}
  BY <1>5, NoCalls
<1>7. x \in {"response", "empty"} /\ (x = "empty" => s.text = 0 /\ s.calls = <<>>)
  BY DEF x
<1> QED
  BY <1>3, <1>5, <1>6, <1>7 DEF CollectedEnd, Has, HasOf, t

-----------------------------------------------------------------------------

BlockRecord == [kind : Kinds, call : Nat, n : Nat, open : BOOLEAN]

AnthropicStream ==
    [blocks : Seq(BlockRecord), malformed : BOOLEAN, index : Nat, textBlock : BOOLEAN,
     thinkingBlock : BOOLEAN, calls : BOOLEAN, hasContent : BOOLEAN, withDeltas : SUBSET Nat,
     errors : Nat, finish : {None, "tool_use", "end_turn"}, ended : {None, "message_stop"},
     used : Nat, over : BOOLEAN]

\* The blocks B, the last of them open and of kind o, or all stopped if o is "no".
OpenBlocks(B, index, o) ==
    /\ B \in Seq(BlockRecord)
    /\ \A b \in DOMAIN B : B[b].kind = "call" <=> B[b].call # 0
    /\ o = "no" => index = Len(B) + 1 /\ \A b \in DOMAIN B : ~B[b].open
    /\ o # "no" => /\ index = Len(B) /\ index \in DOMAIN B
                   /\ B[index].open /\ B[index].kind = o
                   /\ \A b \in DOMAIN B : b # index => ~B[b].open

\* The stream knows which block is open, and nothing it has sent was malformed.
Shape(s, o) ==
    /\ s \in AnthropicStream /\ ~s.malformed
    /\ OpenBlocks(s.blocks, s.index, o)
    /\ s.textBlock <=> o = "text"
    /\ s.thinkingBlock <=> o = "reasoning"

\* The blocks' text and calls, and what the stream knows of them, are the same.
SameContent(s, t) ==
    /\ DeltasOf(t.blocks, "text") = DeltasOf(s.blocks, "text")
    /\ CallsIn(t.blocks) = CallsIn(s.blocks)
    /\ \A k \in CallsIn(s.blocks) :
          t.blocks[k].call = s.blocks[k].call /\ t.blocks[k].n = s.blocks[k].n
    /\ t.hasContent = s.hasContent /\ t.withDeltas = s.withDeltas
    /\ t.errors = s.errors /\ t.over = s.over

LEMMA ContentSame ==
    ASSUME NEW s, NEW t, NEW u, SameContent(s, t), SameContent(t, u) PROVE SameContent(s, u)
BY DEF SameContent

\* A block is started behind the others.
LEMMA BlockStarts ==
    ASSUME NEW B, NEW index, OpenBlocks(B, index, "no"), NEW r \in BlockRecord, r.open,
           r.kind = "call" <=> r.call # 0, r.n = 0
    PROVE  LET C == Append(B, r)
           IN  /\ OpenBlocks(C, index, r.kind) /\ C[index] = r
               /\ DeltasOf(C, "text") = DeltasOf(B, "text")
               /\ r.kind # "call" => CallsIn(C) = CallsIn(B)
               /\ \A k \in CallsIn(B) : C[k].call = B[k].call /\ C[k].n = B[k].n
<1> DEFINE C == Append(B, r)
           n == Len(B)
<1>1. /\ B \in Seq(BlockRecord) /\ index = n + 1 /\ \A b \in DOMAIN B : ~B[b].open
      /\ \A b \in DOMAIN B : B[b].kind = "call" <=> B[b].call # 0
  BY DEF OpenBlocks
<1>2. /\ C \in Seq(BlockRecord) /\ Len(C) = n + 1 /\ n \in Nat
      /\ \A b \in 1 .. n : C[b] = B[b]
      /\ C[n + 1] = r /\ DOMAIN B = 1 .. n /\ DOMAIN C = 1 .. n + 1
  BY <1>1, AppendProperties, LenProperties
<1>3. r.kind # "no"
  BY DEF BlockRecord, Kinds
<1>4. \A b \in 1 .. n : B[b].n \in Nat
  <2>1. \A b \in 1 .. n : B[b] \in BlockRecord
    BY <1>1, <1>2, ElementOfSeq
  <2> QED
    BY <2>1 DEF BlockRecord
<1> HIDE DEF C, n
<1>5. \A b \in 1 .. n + 1 : b \in 1 .. n \/ b = n + 1
  BY <1>2
<1>6. OpenBlocks(C, index, r.kind)
  <2>1. \A b \in DOMAIN C : C[b].kind = "call" <=> C[b].call # 0
    BY <1>1, <1>2, <1>5
  <2>2. \A b \in DOMAIN C : b # index => ~C[b].open
    BY <1>1, <1>2, <1>5
  <2> QED
    BY <1>1, <1>2, <1>3, <2>1, <2>2 DEF OpenBlocks
<1>7. DeltasOf(C, "text") = DeltasOf(B, "text")
  <2>1. \A i \in DOMAIN B : B[i].kind = "text" => i \in DOMAIN C /\ C[i].kind = "text" /\ C[i].n = B[i].n
    BY <1>2
  <2>2. \A i \in DOMAIN C : C[i].n # 0 => i \in DOMAIN B /\ C[i] = B[i]
    BY <1>2, <1>5
  <2>3. \A i \in DOMAIN C : C[i].n \in Nat
    BY <1>2, <1>4, <1>5
  <2> QED
    BY <2>1, <2>2, <2>3, SameDeltas
<1>8. r.kind # "call" => CallsIn(C) = CallsIn(B)
  BY <1>2, <1>5 DEF CallsIn
<1>9. \A k \in CallsIn(B) : C[k] = B[k]
  BY <1>2 DEF CallsIn
<1> QED
  BY <1>1, <1>2, <1>6, <1>7, <1>8, <1>9 DEF C

\* The open block is another of its kind and call, or the same that is stopped.
LEMMA BlockChanges ==
    ASSUME NEW B, NEW index, NEW o, OpenBlocks(B, index, o), o # "no", NEW r \in BlockRecord,
           r.kind = o, r.call = B[index].call
    PROVE  LET C == [B EXCEPT ![index] = r]
           IN  /\ C \in Seq(BlockRecord) /\ Len(C) = Len(B) /\ DOMAIN C = DOMAIN B /\ index \in DOMAIN B
               /\ C[index] = r /\ \A b \in DOMAIN B : b # index => C[b] = B[b]
               /\ r.open => OpenBlocks(C, index, o)
               /\ ~r.open => OpenBlocks(C, index + 1, "no")
               /\ CallsIn(C) = CallsIn(B) /\ \A k \in CallsIn(B) : C[k].call = B[k].call
<1> DEFINE C == [B EXCEPT ![index] = r]
           n == Len(B)
<1>1. /\ B \in Seq(BlockRecord) /\ index = n /\ index \in DOMAIN B
      /\ \A b \in DOMAIN B : b # index => ~B[b].open
      /\ \A b \in DOMAIN B : B[b].kind = "call" <=> B[b].call # 0
      /\ B[index].kind = o
  BY DEF OpenBlocks
<1>2. n \in Nat /\ DOMAIN B = 1 .. n
  BY <1>1, LenProperties
<1>3. C \in Seq(BlockRecord) /\ Len(C) = n /\ \A b \in 1 .. n : C[b] = IF b = index THEN r ELSE B[b]
  BY <1>1, <1>2, ExceptSeq
<1>4. DOMAIN C = 1 .. n
  BY <1>3, LenProperties
<1> HIDE DEF C, n
<1>5. \A b \in DOMAIN C : C[b].call = B[b].call /\ C[b].kind = B[b].kind
  BY <1>1, <1>3, <1>4
<1>6. r.open => OpenBlocks(C, index, o)
  BY <1>1, <1>2, <1>3, <1>4, <1>5 DEF OpenBlocks
<1>7. ~r.open => OpenBlocks(C, index + 1, "no")
  BY <1>1, <1>2, <1>3, <1>4, <1>5 DEF OpenBlocks
<1>8. CallsIn(C) = CallsIn(B)
  BY <1>2, <1>4, <1>5 DEF CallsIn
<1>9. \A k \in CallsIn(B) : C[k].call = B[k].call
  BY <1>2, <1>4, <1>5 DEF CallsIn
<1> QED
  BY <1>1, <1>2, <1>3, <1>4, <1>6, <1>7, <1>8, <1>9 DEF C, n

\* A block that is stopped has the content it had.
LEMMA BlockStops ==
    ASSUME NEW s, NEW o, Shape(s, o), o # "no"
    PROVE  LET t == StopBlock(s)
           IN  /\ t \in AnthropicStream /\ ~t.malformed /\ OpenBlocks(t.blocks, t.index, "no")
               /\ t.textBlock = s.textBlock /\ t.thinkingBlock = s.thinkingBlock
               /\ SameContent(s, t)
<1> DEFINE B == s.blocks
           index == s.index
           r == [B[index] EXCEPT !.open = FALSE]
           C == [B EXCEPT ![index] = r]
           t == StopBlock(s)
<1>1. s \in AnthropicStream /\ OpenBlocks(B, index, o) /\ ~s.malformed /\ index \in Nat
  BY DEF Shape, AnthropicStream
<1>2. /\ B \in Seq(BlockRecord) /\ index \in DOMAIN B /\ B[index].open /\ B[index].kind = o
      /\ DOMAIN B = 1 .. Len(B)
  BY <1>1, LenProperties DEF OpenBlocks
<1>3. B[index] \in BlockRecord /\ \A b \in DOMAIN B : B[b].n \in Nat
  <2>1. \A b \in DOMAIN B : B[b] \in BlockRecord
    BY <1>2, ElementOfSeq
  <2>2. \A b \in DOMAIN B : B[b].n \in Nat
    BY <2>1 DEF BlockRecord
  <2> QED
    BY <1>2, <2>1, <2>2
<1>4. r \in BlockRecord /\ r.kind = o /\ r.call = B[index].call /\ r.n = B[index].n /\ ~r.open
  BY <1>2, <1>3 DEF BlockRecord
<1>5. t = [s EXCEPT !.blocks = C, !.index = index + 1]
  BY <1>2 DEF StopBlock
<1> HIDE DEF r
<1>6. /\ C \in Seq(BlockRecord) /\ DOMAIN C = DOMAIN B
      /\ C[index] = r /\ \A b \in DOMAIN B : b # index => C[b] = B[b]
      /\ OpenBlocks(C, index + 1, "no")
      /\ CallsIn(C) = CallsIn(B) /\ \A k \in CallsIn(B) : C[k].call = B[k].call
  BY <1>1, <1>4, BlockChanges
<1> DEFINE x == index + 1
<1>7. x \in Nat
  BY <1>1
<1> HIDE DEF t, C, x
<1>8. /\ t \in AnthropicStream /\ t.malformed = s.malformed /\ t.blocks = C /\ t.index = x
      /\ t.textBlock = s.textBlock /\ t.thinkingBlock = s.thinkingBlock
      /\ t.hasContent = s.hasContent /\ t.withDeltas = s.withDeltas
      /\ t.errors = s.errors /\ t.over = s.over
  <2>1. t = [s EXCEPT !.blocks = C, !.index = x]
    BY <1>5 DEF x
  <2> QED
    BY <1>1, <1>6, <1>7, <2>1 DEF AnthropicStream
<1> HIDE DEF B, index
<1>9. \A b \in DOMAIN B : C[b].kind = B[b].kind /\ C[b].n = B[b].n
  BY <1>2, <1>4, <1>6
<1>10. DeltasOf(C, "text") = DeltasOf(B, "text")
  BY <1>3, <1>6, <1>9, SameDeltas
<1>11. \A k \in CallsIn(B) : C[k].n = B[k].n
  BY <1>9 DEF CallsIn
<1> QED
  BY <1>1, <1>6, <1>8, <1>10, <1>11 DEF SameContent, x, t, B, index

\* Shape depends on the blocks and what the stream knows of them.
LEMMA ShapeOf ==
    ASSUME NEW s, NEW o, Shape(s, o), NEW t \in AnthropicStream, t.blocks = s.blocks,
           t.index = s.index, t.malformed = s.malformed, t.textBlock = s.textBlock,
           t.thinkingBlock = s.thinkingBlock
    PROVE  Shape(t, o)
BY DEF Shape

\* A block of text is stopped if it is open, and one of thinking.
LEMMA TextCloses ==
    ASSUME NEW s, NEW o, Shape(s, o)
    PROVE  LET t == CloseTextIfOpen(s)
           IN  /\ Shape(t, IF o = "text" THEN "no" ELSE o) /\ SameContent(s, t)
               /\ o # "text" => t = s
<1>1. CASE o = "text"
  <2> DEFINE u == StopBlock(s)
             t == [u EXCEPT !.textBlock = FALSE]
  <2>1. CloseTextIfOpen(s) = t
    BY <1>1 DEF CloseTextIfOpen, Shape
  <2>2. /\ u \in AnthropicStream /\ ~u.malformed /\ OpenBlocks(u.blocks, u.index, "no")
        /\ u.textBlock = s.textBlock /\ u.thinkingBlock = s.thinkingBlock
        /\ SameContent(s, u)
    BY <1>1, BlockStops
  <2> HIDE DEF u
  <2>3. /\ t \in AnthropicStream /\ t.blocks = u.blocks /\ t.index = u.index
        /\ t.malformed = u.malformed /\ ~t.textBlock /\ t.thinkingBlock = u.thinkingBlock
        /\ t.hasContent = u.hasContent /\ t.withDeltas = u.withDeltas
        /\ t.errors = u.errors /\ t.over = u.over
    BY <2>2 DEF AnthropicStream
  <2> HIDE DEF t
  <2>4. ~s.thinkingBlock
    BY <1>1 DEF Shape
  <2>5. Shape(t, "no") /\ SameContent(s, t)
    BY <2>2, <2>3, <2>4 DEF Shape, SameContent
  <2> QED
    BY <1>1, <2>1, <2>5
<1>2. CASE o # "text"
  <2>1. CloseTextIfOpen(s) = s
    BY <1>2 DEF CloseTextIfOpen, Shape
  <2>2. SameContent(s, s)
    BY DEF SameContent
  <2> QED
    BY <1>2, <2>1, <2>2
<1> QED
  BY <1>1, <1>2

LEMMA ThinkingCloses ==
    ASSUME NEW s, NEW o, Shape(s, o)
    PROVE  LET t == CloseThinkingIfOpen(s)
           IN  /\ Shape(t, IF o = "reasoning" THEN "no" ELSE o) /\ SameContent(s, t)
               /\ o # "reasoning" => t = s
<1>1. CASE o = "reasoning"
  <2> DEFINE u == StopBlock(s)
             t == [u EXCEPT !.thinkingBlock = FALSE]
  <2>1. CloseThinkingIfOpen(s) = t
    BY <1>1 DEF CloseThinkingIfOpen, Shape
  <2>2. /\ u \in AnthropicStream /\ ~u.malformed /\ OpenBlocks(u.blocks, u.index, "no")
        /\ u.textBlock = s.textBlock /\ u.thinkingBlock = s.thinkingBlock
        /\ SameContent(s, u)
    BY <1>1, BlockStops
  <2> HIDE DEF u
  <2>3. /\ t \in AnthropicStream /\ t.blocks = u.blocks /\ t.index = u.index
        /\ t.malformed = u.malformed /\ ~t.thinkingBlock /\ t.textBlock = u.textBlock
        /\ t.hasContent = u.hasContent /\ t.withDeltas = u.withDeltas
        /\ t.errors = u.errors /\ t.over = u.over
    BY <2>2 DEF AnthropicStream
  <2> HIDE DEF t
  <2>4. ~s.textBlock
    BY <1>1 DEF Shape
  <2>5. Shape(t, "no") /\ SameContent(s, t)
    BY <2>2, <2>3, <2>4 DEF Shape, SameContent
  <2> QED
    BY <1>1, <2>1, <2>5
<1>2. CASE o # "reasoning"
  <2>1. CloseThinkingIfOpen(s) = s
    BY <1>2 DEF CloseThinkingIfOpen, Shape
  <2>2. SameContent(s, s)
    BY DEF SameContent
  <2> QED
    BY <1>2, <2>1, <2>2
<1> QED
  BY <1>1, <1>2

\* A block that is started, by a stream none of whose blocks is open.
LEMMA BlockOpens ==
    ASSUME NEW s, Shape(s, "no"), NEW kind \in Kinds, NEW call \in Nat, kind = "call" <=> call # 0
    PROVE  LET t == StartBlock(s, kind, call)
           IN  /\ t \in AnthropicStream /\ ~t.malformed /\ OpenBlocks(t.blocks, t.index, kind)
               /\ t.index = s.index /\ t.blocks[t.index].call = call
               /\ t.textBlock = s.textBlock /\ t.thinkingBlock = s.thinkingBlock
               /\ t.withDeltas = s.withDeltas /\ t.errors = s.errors /\ t.over = s.over
               /\ kind # "call" => SameContent(s, t)
               /\ DeltasOf(t.blocks, "text") = DeltasOf(s.blocks, "text")
               /\ t.blocks = Append(s.blocks, [kind |-> kind, call |-> call, n |-> 0, open |-> TRUE])
<1> DEFINE B == s.blocks
           r == [kind |-> kind, call |-> call, n |-> 0, open |-> TRUE]
           C == Append(B, r)
           t == StartBlock(s, kind, call)
<1>1. s \in AnthropicStream /\ OpenBlocks(B, s.index, "no") /\ ~s.malformed
  BY DEF Shape
<1>2. /\ r \in BlockRecord /\ r.kind = kind /\ r.call = call /\ r.n = 0 /\ r.open
      /\ r.kind = "call" <=> r.call # 0
  BY DEF BlockRecord
<1>3. t = [s EXCEPT !.blocks = C]
  BY <1>1 DEF StartBlock, OpenBlocks
<1> HIDE DEF r, t
<1>4. /\ OpenBlocks(C, s.index, kind) /\ C[s.index] = r
      /\ DeltasOf(C, "text") = DeltasOf(B, "text")
      /\ kind # "call" => CallsIn(C) = CallsIn(B)
      /\ \A k \in CallsIn(B) : C[k].call = B[k].call /\ C[k].n = B[k].n
  <2>1. /\ OpenBlocks(C, s.index, r.kind) /\ C[s.index] = r
        /\ DeltasOf(C, "text") = DeltasOf(B, "text")
        /\ r.kind # "call" => CallsIn(C) = CallsIn(B)
        /\ \A k \in CallsIn(B) : C[k].call = B[k].call /\ C[k].n = B[k].n
    BY <1>1, <1>2, BlockStarts
  <2> HIDE DEF C
  <2> QED
    BY <1>2, <2>1
<1>5. C \in Seq(BlockRecord)
  BY <1>4 DEF OpenBlocks
<1>6. /\ t \in AnthropicStream /\ t.malformed = s.malformed /\ t.blocks = C /\ t.index = s.index
      /\ t.textBlock = s.textBlock /\ t.thinkingBlock = s.thinkingBlock
      /\ t.hasContent = s.hasContent /\ t.withDeltas = s.withDeltas
      /\ t.errors = s.errors /\ t.over = s.over
  <2> HIDE DEF C
  <2> QED
    BY <1>1, <1>3, <1>5 DEF AnthropicStream
<1> HIDE DEF C
<1>7. kind # "call" => SameContent(s, t)
  BY <1>4, <1>6 DEF SameContent
<1> QED
  BY <1>1, <1>2, <1>4, <1>6, <1>7 DEF t, C, r

\* A block of text is started unless it is open, and one of thinking.
LEMMA TextOpens ==
    ASSUME NEW s, NEW o \in {"no", "text"}, Shape(s, o)
    PROVE  Shape(EnsureTextBlock(s), "text") /\ SameContent(s, EnsureTextBlock(s))
<1>1. CASE o = "text"
  <2>1. EnsureTextBlock(s) = s
    BY <1>1 DEF EnsureTextBlock, Shape
  <2>2. SameContent(s, s)
    BY DEF SameContent
  <2> QED
    BY <1>1, <2>1, <2>2
<1>2. CASE o = "no"
  <2> DEFINE u == StartBlock(s, "text", 0)
             t == [u EXCEPT !.textBlock = TRUE]
  <2>1. EnsureTextBlock(s) = t
    BY <1>2 DEF EnsureTextBlock, Shape
  <2>2. /\ u \in AnthropicStream /\ ~u.malformed /\ OpenBlocks(u.blocks, u.index, "text")
        /\ u.thinkingBlock = s.thinkingBlock /\ SameContent(s, u)
    BY <1>2, BlockOpens DEF Kinds
  <2> HIDE DEF u
  <2>3. /\ t \in AnthropicStream /\ t.blocks = u.blocks /\ t.index = u.index
        /\ t.malformed = u.malformed /\ t.textBlock /\ t.thinkingBlock = u.thinkingBlock
        /\ t.hasContent = u.hasContent /\ t.withDeltas = u.withDeltas
        /\ t.errors = u.errors /\ t.over = u.over
    BY <2>2 DEF AnthropicStream
  <2> HIDE DEF t
  <2>4. ~s.thinkingBlock
    BY <1>2 DEF Shape
  <2>5. Shape(t, "text") /\ SameContent(s, t)
    BY <2>2, <2>3, <2>4 DEF Shape, SameContent
  <2> QED
    BY <2>1, <2>5
<1> QED
  BY <1>1, <1>2

ThinkingOpened(s) ==
    IF s.thinkingBlock THEN s ELSE [StartBlock(s, "reasoning", 0) EXCEPT !.thinkingBlock = TRUE]

LEMMA ThinkingOpens ==
    ASSUME NEW s, NEW o \in {"no", "reasoning"}, Shape(s, o)
    PROVE  Shape(ThinkingOpened(s), "reasoning") /\ SameContent(s, ThinkingOpened(s))
<1>1. CASE o = "reasoning"
  <2>1. ThinkingOpened(s) = s
    BY <1>1 DEF ThinkingOpened, Shape
  <2>2. SameContent(s, s)
    BY DEF SameContent
  <2> QED
    BY <1>1, <2>1, <2>2
<1>2. CASE o = "no"
  <2> DEFINE u == StartBlock(s, "reasoning", 0)
             t == [u EXCEPT !.thinkingBlock = TRUE]
  <2>1. ThinkingOpened(s) = t
    BY <1>2 DEF ThinkingOpened, Shape
  <2>2. /\ u \in AnthropicStream /\ ~u.malformed /\ OpenBlocks(u.blocks, u.index, "reasoning")
        /\ u.textBlock = s.textBlock /\ SameContent(s, u)
    BY <1>2, BlockOpens DEF Kinds
  <2> HIDE DEF u
  <2>3. /\ t \in AnthropicStream /\ t.blocks = u.blocks /\ t.index = u.index
        /\ t.malformed = u.malformed /\ t.thinkingBlock /\ t.textBlock = u.textBlock
        /\ t.hasContent = u.hasContent /\ t.withDeltas = u.withDeltas
        /\ t.errors = u.errors /\ t.over = u.over
    BY <2>2 DEF AnthropicStream
  <2> HIDE DEF t
  <2>4. ~s.textBlock
    BY <1>2 DEF Shape
  <2>5. Shape(t, "reasoning") /\ SameContent(s, t)
    BY <2>2, <2>3, <2>4 DEF Shape, SameContent
  <2> QED
    BY <2>1, <2>5
<1> QED
  BY <1>1, <1>2

\* A delta for the block that is open.
LEMMA DeltaFits ==
    ASSUME NEW s, NEW kind \in Kinds, Shape(s, kind), NEW n \in Nat
    PROVE  LET t == BlockDelta(s, kind, n)
               i == s.index
           IN  /\ Shape(t, kind) /\ t.index = i /\ i \in DOMAIN s.blocks
               /\ DOMAIN t.blocks = DOMAIN s.blocks
               /\ \A b \in DOMAIN s.blocks :
                     /\ t.blocks[b].kind = s.blocks[b].kind /\ t.blocks[b].call = s.blocks[b].call
                     /\ b # i => t.blocks[b].n = s.blocks[b].n
                     /\ t.blocks[b].n \in Nat
               /\ s.blocks[i].n \in Nat /\ t.blocks[i].n = s.blocks[i].n + n /\ s.blocks[i].kind = kind
               /\ t.hasContent = s.hasContent /\ t.withDeltas = s.withDeltas
               /\ t.errors = s.errors /\ t.over = s.over
<1> DEFINE B == s.blocks
           i == s.index
           r == [B[i] EXCEPT !.n = B[i].n + n]
           C == [B EXCEPT ![i] = r]
           t == BlockDelta(s, kind, n)
<1>1. s \in AnthropicStream /\ OpenBlocks(B, i, kind) /\ ~s.malformed /\ kind # "no"
  BY DEF Shape, Kinds
<1>2. /\ B \in Seq(BlockRecord) /\ i \in DOMAIN B /\ B[i].open /\ B[i].kind = kind
      /\ DOMAIN B = 1 .. Len(B)
  BY <1>1, LenProperties DEF OpenBlocks
<1>3. B[i] \in BlockRecord
  BY <1>2, ElementOfSeq
<1>4. r \in BlockRecord /\ r.kind = kind /\ r.call = B[i].call /\ r.n = B[i].n + n /\ r.open /\ B[i].n \in Nat
  <2> DEFINE x == B[i].n + n
  <2>1. B[i].n \in Nat
    BY <1>3 DEF BlockRecord
  <2>2. x \in Nat
    BY <2>1
  <2>3. r = [B[i] EXCEPT !.n = x]
    OBVIOUS
  <2> HIDE DEF x, B, i, r
  <2>4. r \in BlockRecord /\ r.kind = kind /\ r.call = B[i].call /\ r.n = x /\ r.open
    BY <1>2, <1>3, <2>2, <2>3 DEF BlockRecord
  <2> QED
    BY <2>1, <2>4 DEF x
<1>5. t = [s EXCEPT !.blocks = C]
  BY <1>2 DEF BlockDelta, AddTo
<1> HIDE DEF r
<1>6. /\ C \in Seq(BlockRecord) /\ DOMAIN C = DOMAIN B
      /\ C[i] = r /\ \A b \in DOMAIN B : b # i => C[b] = B[b]
      /\ OpenBlocks(C, i, kind)
  BY <1>1, <1>4, BlockChanges
<1> HIDE DEF t, C
<1>7. /\ t \in AnthropicStream /\ t.malformed = s.malformed /\ t.blocks = C /\ t.index = s.index
      /\ t.textBlock = s.textBlock /\ t.thinkingBlock = s.thinkingBlock
      /\ t.hasContent = s.hasContent /\ t.withDeltas = s.withDeltas
      /\ t.errors = s.errors /\ t.over = s.over
  BY <1>1, <1>5, <1>6 DEF AnthropicStream
<1>8. Shape(t, kind)
  BY <1>6, <1>7 DEF Shape
<1>9. \A b \in DOMAIN B : C[b].n \in Nat
  <2>1. \A b \in DOMAIN B : C[b] \in BlockRecord
    BY <1>6, ElementOfSeq, LenProperties
  <2> QED
    BY <2>1 DEF BlockRecord
<1> HIDE DEF B, i
<1>10. \A b \in DOMAIN B : /\ C[b].kind = B[b].kind /\ C[b].call = B[b].call
                           /\ b # i => C[b].n = B[b].n
  BY <1>2, <1>4, <1>6
<1> QED
  BY <1>2, <1>4, <1>6, <1>7, <1>8, <1>9, <1>10 DEF t, B, i

\* To all but text and calls, and of nothing, it is no content.
LEMMA DeltaOfNone ==
    ASSUME NEW s, NEW kind \in Kinds, Shape(s, kind), NEW n \in Nat,
           kind = "reasoning" \/ (kind = "text" /\ n = 0)
    PROVE  SameContent(s, BlockDelta(s, kind, n))
<1> DEFINE B == s.blocks
           i == s.index
           t == BlockDelta(s, kind, n)
           C == t.blocks
<1>1. /\ DOMAIN C = DOMAIN B /\ i \in DOMAIN B
      /\ \A b \in DOMAIN B : /\ C[b].kind = B[b].kind /\ C[b].call = B[b].call
                             /\ b # i => C[b].n = B[b].n
                             /\ C[b].n \in Nat
      /\ B[i].n \in Nat /\ C[i].n = B[i].n + n /\ B[i].kind = kind
      /\ t.hasContent = s.hasContent /\ t.withDeltas = s.withDeltas
      /\ t.errors = s.errors /\ t.over = s.over
  BY DeltaFits
<1>2. \A b \in DOMAIN B : B[b].kind = "call" <=> B[b].call # 0
  BY DEF Shape, OpenBlocks
<1> HIDE DEF t, C, B, i
<1>3. \A b \in DOMAIN B : B[b].kind \in {"text", "call"} => C[b].n = B[b].n
  BY <1>1
<1>4. DeltasOf(C, "text") = DeltasOf(B, "text")
  BY <1>1, <1>3, SameDeltas
<1>5. CallsIn(C) = CallsIn(B) /\ \A k \in CallsIn(B) : C[k].call = B[k].call /\ C[k].n = B[k].n
  BY <1>1, <1>2, <1>3 DEF CallsIn
<1> QED
  BY <1>1, <1>4, <1>5 DEF SameContent, t, C, B

-----------------------------------------------------------------------------
(* Anthropic: what the blocks hold *)

\* What the blocks hold of the items P, and what the stream knows of that.
AnthropicContent(s, P) ==
    /\ IsFiniteSet(DeltasOf(s.blocks, "text")) /\ Total(s.blocks, "text") = Total(P, "text")
    /\ Carries(s.blocks, CallsIn(P), P)
    /\ s.hasContent <=> ForClient(P) \/ (wants.reasoning /\ Total(P, "reasoning") > 0)
    /\ s.withDeltas \subseteq CallsIn(P)
    /\ s.errors = 0 /\ ~s.over

\* A block of a call is open if and only if upstream is outputting the call.
AnthropicOpen(s, P, o) ==
    /\ Shape(s, o) /\ (o = "call" <=> OpenCall(P) # 0) /\ (o # "no" => s.hasContent)
    /\ OpenCall(P) # 0 => /\ s.blocks[s.index].call = OpenCall(P)
                          /\ OpenCall(P) \in s.withDeltas <=> P[OpenCall(P)].n # 0

AnthropicMid(s, P) ==
    AnthropicContent(s, P) /\ \E o \in {"no", "text", "reasoning", "call"} : AnthropicOpen(s, P, o)

\* What becomes of the blocks' content alone does not show.
LEMMA ContentKept ==
    ASSUME NEW s, NEW t, NEW P, AnthropicContent(s, P), SameContent(s, t)
    PROVE  AnthropicContent(t, P)
<1>1. Carries(t.blocks, CallsIn(P), P)
  BY CarriesSame DEF AnthropicContent, SameContent
<1> QED
  BY <1>1 DEF AnthropicContent, SameContent, Total

\* The blocks of text and thinking close before a call's, and those of text before a
\* block of thinking, and the other way round.
LEMMA BlocksClose ==
    ASSUME NEW s, NEW o \in {"no", "text", "reasoning"}, Shape(s, o)
    PROVE  LET t == CloseTextIfOpen(CloseThinkingIfOpen(s))
           IN  Shape(t, "no") /\ SameContent(s, t)
<1> DEFINE u == CloseThinkingIfOpen(s)
           p == IF o = "reasoning" THEN "no" ELSE o
           t == CloseTextIfOpen(u)
<1>1. Shape(u, p) /\ SameContent(s, u)
  BY ThinkingCloses
<1>2. p \in {"no", "text"}
  OBVIOUS
<1> HIDE DEF u, p
<1>3. Shape(t, IF p = "text" THEN "no" ELSE p) /\ SameContent(u, t)
  BY <1>1, TextCloses
<1> HIDE DEF t
<1>4. Shape(t, "no") /\ SameContent(s, t)
  BY <1>1, <1>2, <1>3, ContentSame
<1> QED
  BY <1>4 DEF t, u

\* A delta of text goes to a block of text, that of thinking stopped before it.
LEMMA AnthropicTextKeeps ==
    ASSUME NEW s, NEW P, NEW Q, AnthropicMid(s, P), TextComes(P, Q, "text")
    PROVE  AnthropicMid(AnthropicText(s), Q)
<1>1. PICK o \in {"no", "text", "reasoning", "call"} : AnthropicOpen(s, P, o)
  BY DEF AnthropicMid
<1>2. /\ OpenCall(P) = 0 /\ OpenCall(Q) = 0 /\ InOrder(P)
      /\ CallsIn(Q) = CallsIn(P) /\ \A c \in CallsIn(P) : Q[c].n = P[c].n
      /\ Total(Q, "text") = Total(P, "text") + 1 /\ Total(Q, "reasoning") = Total(P, "reasoning")
  BY CallsOfItems DEF TextComes, SameCallsBut
<1>3. Shape(s, o) /\ o \in {"no", "text", "reasoning"}
  BY <1>1, <1>2 DEF AnthropicOpen
<1> DEFINE p == IF o = "reasoning" THEN "no" ELSE o
           a == CloseThinkingIfOpen(s)
           b == EnsureTextBlock(a)
           d == BlockDelta(b, "text", 1)
           t == [d EXCEPT !.hasContent = TRUE]
           i == b.index
           B == b.blocks
           D == d.blocks
<1>4. Shape(a, p) /\ SameContent(s, a)
  BY <1>3, ThinkingCloses
<1>5. p \in {"no", "text"}
  BY <1>3
<1> HIDE DEF p, a
<1>6. Shape(b, "text") /\ SameContent(a, b)
  BY <1>4, <1>5, TextOpens
<1>7. AnthropicContent(b, P)
  BY <1>4, <1>6, ContentKept DEF AnthropicMid
<1>8. /\ Shape(d, "text") /\ i \in DOMAIN B /\ DOMAIN D = DOMAIN B
      /\ \A j \in DOMAIN B : /\ D[j].kind = B[j].kind /\ D[j].call = B[j].call
                             /\ j # i => D[j].n = B[j].n
      /\ B[i].n \in Nat /\ D[i].n = B[i].n + 1 /\ B[i].kind = "text"
      /\ d.withDeltas = b.withDeltas /\ d.errors = b.errors /\ d.over = b.over
  <2>1. PICK one \in Nat : one = 1
    OBVIOUS
  <2>2. PICK kind \in Kinds : kind = "text"
    BY DEF Kinds
  <2>3. Shape(b, kind)
    BY <1>6, <2>2
  <2> DEFINE v == BlockDelta(b, kind, one)
  <2> HIDE DEF b, d
  <2>4. /\ Shape(v, kind) /\ i \in DOMAIN B /\ DOMAIN v.blocks = DOMAIN B
        /\ \A j \in DOMAIN B : /\ v.blocks[j].kind = B[j].kind /\ v.blocks[j].call = B[j].call
                               /\ j # i => v.blocks[j].n = B[j].n
        /\ B[i].n \in Nat /\ v.blocks[i].n = B[i].n + one /\ B[i].kind = kind
        /\ v.withDeltas = b.withDeltas /\ v.errors = b.errors /\ v.over = b.over
    BY <2>3, DeltaFits
  <2>5. v = d
    BY <2>1, <2>2 DEF d
  <2> HIDE DEF v
  <2> QED
    BY <2>1, <2>2, <2>4, <2>5
<1>9. \A k \in DOMAIN B : B[k].kind = "call" <=> B[k].call # 0
  BY <1>6 DEF Shape, OpenBlocks
<1> HIDE DEF b, d
<1>10. d \in AnthropicStream
  BY <1>8 DEF Shape
<1>11. /\ t \in AnthropicStream /\ t.blocks = D /\ t.index = d.index /\ t.malformed = d.malformed
       /\ t.textBlock = d.textBlock /\ t.thinkingBlock = d.thinkingBlock /\ t.hasContent
       /\ t.withDeltas = d.withDeltas /\ t.errors = d.errors /\ t.over = d.over
  BY <1>10 DEF AnthropicStream
<1> HIDE DEF t, B, D, i
<1>12. Shape(t, "text")
  BY <1>8, <1>11, ShapeOf DEF D
<1>13. IsFiniteSet(DeltasOf(D, "text")) /\ Total(D, "text") = Total(B, "text") + 1
  <2>1. IsFiniteSet(DeltasOf(B, "text"))
    BY <1>7 DEF AnthropicContent, B
  <2>2. PICK n \in Nat : n = B[i].n
    BY <1>8
  <2>3. D[i].kind = "text" /\ D[i].n = n + 1
    BY <1>8, <2>2
  <2>4. i \in DOMAIN D /\ \A j \in DOMAIN D : j # i => j \in DOMAIN B
    BY <1>8
  <2>5. \A j \in DOMAIN B : j # i => j \in DOMAIN D /\ D[j].kind = B[j].kind /\ D[j].n = B[j].n
    BY <1>8
  <2>6. i \in DOMAIN B => B[i].kind = "text" /\ B[i].n = n
    BY <1>8, <2>2
  <2>7. i \notin DOMAIN B => n = 0
    BY <1>8
  <2>8. IsFiniteSet(DeltasOf(D, "text")) /\ Total(D, "text") = Total(B, "text") + 1
    <3>1. PICK kind : kind = "text"
      OBVIOUS
    <3>2. D[i].kind = kind /\ D[i].n = n + 1
      BY <2>3, <3>1
    <3>3. i \in DOMAIN B => B[i].kind = kind /\ B[i].n = n
      BY <2>6, <3>1
    <3>4. IsFiniteSet(DeltasOf(B, kind))
      BY <2>1, <3>1
    <3>5. \A j \in DOMAIN D : j # i => j \in DOMAIN B
      BY <2>4
    <3>6. IsFiniteSet(DeltasOf(D, kind)) /\ Total(D, kind) = Total(B, kind) + 1
      <4>1. MoreAt(B, D, kind, i, n)
        BY <2>4, <2>5, <2>7, <3>2, <3>3, <3>5 DEF MoreAt
      <4> QED
        BY <3>4, <4>1, OneDelta, Zenon
    <3> QED
      BY <3>1, <3>6
  <2> QED
    BY <2>8
<1>14. Carries(D, CallsIn(Q), Q)
  <2>1. CallsIn(D) = CallsIn(B)
    BY <1>8 DEF CallsIn
  <2>2. i \notin CallsIn(B)
    BY <1>8, <1>9 DEF CallsIn
  <2>3. \A k \in CallsIn(B) : D[k].call = B[k].call /\ D[k].n = B[k].n
    BY <1>8, <2>2 DEF CallsIn
  <2>4. Carries(B, CallsIn(P), P)
    BY <1>7 DEF AnthropicContent, B
  <2> QED
    BY <1>2, <2>1, <2>3, <2>4, CarriesSame
<1>15. /\ Total(B, "text") = Total(P, "text") /\ Total(P, "text") \in Nat
       /\ b.withDeltas \subseteq CallsIn(P) /\ b.errors = 0 /\ ~b.over
  BY <1>2, <1>7, CallsOfItems DEF AnthropicContent, B
<1>16. ForClient(Q)
  BY <1>2, <1>15 DEF ForClient
<1>17. AnthropicContent(t, Q)
  BY <1>2, <1>8, <1>11, <1>13, <1>14, <1>15, <1>16 DEF AnthropicContent
<1>18. AnthropicOpen(t, Q, "text")
  BY <1>2, <1>11, <1>12 DEF AnthropicOpen
<1> QED
  BY <1>17, <1>18 DEF AnthropicMid, AnthropicText, t, d, b, a

\* A delta of reasoning goes to a block of thinking, if it was asked for, that of text
\* stopped before it.
LEMMA AnthropicReasoningKeeps ==
    ASSUME NEW s, NEW P, NEW Q, AnthropicMid(s, P), TextComes(P, Q, "reasoning")
    PROVE  AnthropicMid(AnthropicReasoning(s), Q)
<1>1. PICK o \in {"no", "text", "reasoning", "call"} : AnthropicOpen(s, P, o)
  BY DEF AnthropicMid
<1>2. /\ OpenCall(P) = 0 /\ OpenCall(Q) = 0 /\ InOrder(P)
      /\ CallsIn(Q) = CallsIn(P) /\ \A c \in CallsIn(P) : Q[c].n = P[c].n
      /\ Total(Q, "reasoning") = Total(P, "reasoning") + 1 /\ Total(Q, "text") = Total(P, "text")
  BY CallsOfItems DEF TextComes, SameCallsBut
<1>3. Shape(s, o) /\ o \in {"no", "text", "reasoning"}
  BY <1>1, <1>2 DEF AnthropicOpen
<1>4. Total(P, "text") \in Nat /\ Total(P, "reasoning") \in Nat
  BY <1>2, CallsOfItems
<1>5. ASSUME NEW u, AnthropicContent(u, P) PROVE Carries(u.blocks, CallsIn(Q), Q)
  BY <1>2, <1>5, CarriesSame DEF AnthropicContent
<1>6. CASE ~wants.reasoning
  <2>1. AnthropicReasoning(s) = s
    BY <1>6 DEF AnthropicReasoning
  <2>2. AnthropicContent(s, Q)
    BY <1>2, <1>5, <1>6 DEF AnthropicContent, AnthropicMid, ForClient
  <2>3. AnthropicOpen(s, Q, o)
    BY <1>1, <1>2 DEF AnthropicOpen
  <2> QED
    BY <2>1, <2>2, <2>3 DEF AnthropicMid
<1>7. CASE wants.reasoning
  <2> DEFINE p == IF o = "text" THEN "no" ELSE o
             a == CloseTextIfOpen(s)
             b == ThinkingOpened(a)
             d == BlockDelta(b, "reasoning", 1)
             t == [d EXCEPT !.hasContent = TRUE]
  <2>1. AnthropicReasoning(s) = t
    BY <1>7 DEF AnthropicReasoning, ThinkingOpened
  <2>2. Shape(a, p) /\ SameContent(s, a)
    BY <1>3, TextCloses
  <2>3. p \in {"no", "reasoning"}
    BY <1>3
  <2> HIDE DEF p, a
  <2>4. Shape(b, "reasoning") /\ SameContent(a, b)
    BY <2>2, <2>3, ThinkingOpens
  <2> HIDE DEF b
  <2>5. Shape(d, "reasoning") /\ SameContent(b, d)
    <3>1. PICK one \in Nat : one = 1
      OBVIOUS
    <3>2. PICK kind \in Kinds : kind = "reasoning"
      BY DEF Kinds
    <3>3. Shape(b, kind)
      BY <2>4, <3>2
    <3>4. Shape(BlockDelta(b, kind, one), kind)
      BY <3>3, DeltaFits
    <3>5. SameContent(b, BlockDelta(b, kind, one))
      BY <3>2, <3>3, DeltaOfNone
    <3> QED
      BY <3>1, <3>2, <3>4, <3>5
  <2> HIDE DEF d
  <2>6. AnthropicContent(d, P)
    BY <2>2, <2>4, <2>5, ContentKept DEF AnthropicMid
  <2>7. d \in AnthropicStream
    BY <2>5 DEF Shape
  <2>8. /\ t \in AnthropicStream /\ t.blocks = d.blocks /\ t.index = d.index
        /\ t.malformed = d.malformed /\ t.textBlock = d.textBlock
        /\ t.thinkingBlock = d.thinkingBlock /\ t.hasContent
        /\ t.withDeltas = d.withDeltas /\ t.errors = d.errors /\ t.over = d.over
    BY <2>7 DEF AnthropicStream
  <2> HIDE DEF t
  <2>9. Shape(t, "reasoning")
    BY <2>5, <2>8, ShapeOf
  <2>10. Carries(t.blocks, CallsIn(Q), Q)
    BY <1>5, <2>6, <2>8
  <2>11. AnthropicContent(t, Q)
    BY <1>2, <1>4, <1>7, <2>6, <2>8, <2>10 DEF AnthropicContent
  <2>12. AnthropicOpen(t, Q, "reasoning")
    BY <1>2, <2>8, <2>9 DEF AnthropicOpen
  <2> QED
    BY <2>1, <2>11, <2>12 DEF AnthropicMid
<1> QED
  BY <1>6, <1>7

\* A call gets a block of its own, behind those of text and thinking.
LEMMA AnthropicCallStartKeeps ==
    ASSUME NEW s, NEW P, NEW Q, NEW c, AnthropicMid(s, P), CallComes(P, Q, c), NEW e, e.call = c
    PROVE  AnthropicMid(AnthropicCallStart(s, e), Q)
<1>1. PICK o \in {"no", "text", "reasoning", "call"} : AnthropicOpen(s, P, o)
  BY DEF AnthropicMid
<1>2. /\ OpenCall(P) = 0 /\ OpenCall(Q) = c /\ InOrder(P) /\ c \in Nat /\ c # 0
      /\ CallsIn(Q) = CallsIn(P) \cup {c} /\ Q[c].n = 0
      /\ \A d \in CallsIn(P) : d < c /\ Q[d].n = P[d].n
      /\ Total(Q, "text") = Total(P, "text")
  BY DEF CallComes, SameTexts
<1>3. c \notin CallsIn(P)
  BY <1>2
<1>4. Shape(s, o) /\ o \in {"no", "text", "reasoning"}
  BY <1>1, <1>2 DEF AnthropicOpen
<1> DEFINE u == CloseTextIfOpen(CloseThinkingIfOpen(s))
           v == StartBlock(u, "call", c)
           r == [kind |-> "call", call |-> c, n |-> 0, open |-> TRUE]
           t == [v EXCEPT !.calls = TRUE, !.hasContent = TRUE]
<1>5. Shape(u, "no") /\ SameContent(s, u)
  BY <1>4, BlocksClose
<1> HIDE DEF u
<1>6. AnthropicContent(u, P)
  BY <1>5, ContentKept DEF AnthropicMid
<1>7. /\ v \in AnthropicStream /\ ~v.malformed /\ OpenBlocks(v.blocks, v.index, "call")
      /\ v.blocks[v.index].call = c
      /\ v.textBlock = u.textBlock /\ v.thinkingBlock = u.thinkingBlock
      /\ v.withDeltas = u.withDeltas /\ v.errors = u.errors /\ v.over = u.over
      /\ DeltasOf(v.blocks, "text") = DeltasOf(u.blocks, "text")
      /\ v.blocks = Append(u.blocks, r)
  <2>1. PICK kind \in Kinds : kind = "call"
    BY DEF Kinds
  <2>2. kind = "call" <=> c # 0
    BY <1>2, <2>1
  <2> DEFINE w == StartBlock(u, kind, c)
  <2>3. /\ w \in AnthropicStream /\ ~w.malformed /\ OpenBlocks(w.blocks, w.index, kind)
        /\ w.index = u.index /\ w.blocks[w.index].call = c
        /\ w.textBlock = u.textBlock /\ w.thinkingBlock = u.thinkingBlock
        /\ w.withDeltas = u.withDeltas /\ w.errors = u.errors /\ w.over = u.over
        /\ DeltasOf(w.blocks, "text") = DeltasOf(u.blocks, "text")
        /\ w.blocks = Append(u.blocks, [kind |-> kind, call |-> c, n |-> 0, open |-> TRUE])
    BY <1>2, <1>5, <2>2, BlockOpens
  <2>4. w = v
    BY <2>1
  <2> HIDE DEF v, w
  <2> QED
    BY <2>1, <2>3, <2>4
<1> HIDE DEF v
<1>8. /\ t \in AnthropicStream /\ t.blocks = v.blocks /\ t.index = v.index
      /\ t.malformed = v.malformed /\ t.textBlock = v.textBlock
      /\ t.thinkingBlock = v.thinkingBlock /\ t.hasContent
      /\ t.withDeltas = v.withDeltas /\ t.errors = v.errors /\ t.over = v.over
  BY <1>7 DEF AnthropicStream
<1> HIDE DEF t
<1>9. Carries(t.blocks, CallsIn(Q), Q)
  <2>1. r \in BlockRecord /\ r.call = c /\ r.n = 0
    BY <1>2 DEF BlockRecord, Kinds
  <2>2. u.blocks \in Seq(BlockRecord)
    BY <1>5 DEF Shape, OpenBlocks
  <2>3. Carries(u.blocks, CallsIn(P), P)
    BY <1>6 DEF AnthropicContent
  <2> HIDE DEF r
  <2>4. /\ r.call # 0 /\ \A d \in CallsIn(P) : d < r.call /\ Q[d].n = P[d].n
        /\ Q[r.call].n = r.n
    BY <1>2, <2>1
  <2>5. Carries(Append(u.blocks, r), CallsIn(P) \cup {r.call}, Q)
    BY <2>1, <2>2, <2>3, <2>4, CarriesNew
  <2> QED
    BY <1>2, <1>7, <1>8, <2>1, <2>5
<1>10. Shape(t, "call")
  BY <1>5, <1>7, <1>8 DEF Shape
<1>11. ForClient(Q)
  BY <1>2 DEF ForClient
<1>12. AnthropicContent(t, Q)
  BY <1>2, <1>6, <1>7, <1>8, <1>9, <1>11 DEF AnthropicContent, Total
<1>13. AnthropicOpen(t, Q, "call")
  BY <1>2, <1>3, <1>6, <1>7, <1>8, <1>10 DEF AnthropicOpen, AnthropicContent
<1> QED
  BY <1>12, <1>13 DEF AnthropicMid, AnthropicCallStart, t, v, u

\* Arguments go to the block of the call, whether one delta or all of them.
LEMMA ArgumentsFit ==
    ASSUME NEW s, NEW P, NEW Q, NEW c, AnthropicContent(s, P), AnthropicOpen(s, P, "call"),
           InOrder(P), OpenCall(P) = c, c \in CallsIn(P), SameCallsBut(P, Q, c), SameTexts(P, Q),
           NEW n \in Nat, Q[c].n = P[c].n + n
    PROVE  LET t == BlockDelta(s, "call", n)
           IN  AnthropicContent(t, Q) /\ Shape(t, "call") /\ t.blocks[t.index].call = c
<1> DEFINE t == BlockDelta(s, "call", n)
           i == s.index
           B == s.blocks
           T == t.blocks
<1>1. Shape(s, "call") /\ B[i].call = c
  <2>1. c # 0
    BY CallsOfItems
  <2> QED
    BY <2>1 DEF AnthropicOpen
<1>2. /\ Shape(t, "call") /\ t.index = i /\ i \in DOMAIN B /\ DOMAIN T = DOMAIN B
      /\ \A j \in DOMAIN B : /\ T[j].kind = B[j].kind /\ T[j].call = B[j].call
                             /\ j # i => T[j].n = B[j].n
                             /\ T[j].n \in Nat
      /\ B[i].n \in Nat /\ T[i].n = B[i].n + n /\ B[i].kind = "call"
      /\ t.hasContent = s.hasContent /\ t.withDeltas = s.withDeltas
      /\ t.errors = s.errors /\ t.over = s.over
  <2>1. "call" \in Kinds
    BY DEF Kinds
  <2> QED
    BY <1>1, <2>1, DeltaFits
<1>3. DOMAIN B \subseteq Nat
  <2>1. B \in Seq(BlockRecord)
    BY <1>1 DEF Shape, OpenBlocks
  <2> QED
    BY <2>1, LenProperties
<1>4. \A k \in DOMAIN B : B[k].kind = "call" <=> B[k].call # 0
  BY <1>1 DEF Shape, OpenBlocks
<1> HIDE DEF t, B, T, i
<1>5. i \in CallsIn(B) /\ CallsIn(B) \subseteq Nat /\ CallsIn(T) = CallsIn(B)
  BY <1>2, <1>3, <1>4 DEF CallsIn
<1>6. /\ CallsIn(Q) = CallsIn(P) /\ \A d \in CallsIn(P) : d # c => Q[d].n = P[d].n
      /\ Total(Q, "text") = Total(P, "text") /\ Total(Q, "reasoning") = Total(P, "reasoning")
  BY DEF SameCallsBut, SameTexts
<1>7. Carries(B, CallsIn(P), P)
  BY DEF AnthropicContent, B
<1>8. Carries(T, CallsIn(Q), Q)
  <2>1. B[i].n = P[c].n
    BY <1>1, <1>5, <1>7 DEF Carries
  <2>2. Q[B[i].call].n = T[i].n
    BY <1>1, <1>2, <2>1
  <2>3. \A d \in CallsIn(P) : d # B[i].call => Q[d].n = P[d].n
    BY <1>1, <1>6
  <2>4. \A j \in CallsIn(B) : T[j].call = B[j].call
    BY <1>2 DEF CallsIn
  <2>5. \A j \in CallsIn(B) : j # i => T[j].n = B[j].n
    BY <1>2 DEF CallsIn
  <2>6. CallsIn(P) \subseteq Nat
    BY CallsOfItems
  <2>7. Carries(T, CallsIn(P), Q)
    BY <1>5, <1>7, <2>2, <2>3, <2>4, <2>5, <2>6, CarriesGrown
  <2> QED
    BY <1>6, <2>7
<1>9. DeltasOf(T, "text") = DeltasOf(B, "text")
  <2>1. \A j \in DOMAIN B : B[j].kind = "text" => j \in DOMAIN T /\ T[j].kind = "text" /\ T[j].n = B[j].n
    BY <1>2
  <2>2. \A j \in DOMAIN T : T[j].kind = "text" /\ T[j].n # 0 => j \in DOMAIN B /\ B[j].kind = "text"
    BY <1>2
  <2>3. \A j \in DOMAIN T : T[j].kind = "text" => T[j].n \in Nat
    BY <1>2
  <2> QED
    BY <2>1, <2>2, <2>3, SameDeltas
<1>10. AnthropicContent(t, Q)
  BY <1>2, <1>6, <1>8, <1>9 DEF AnthropicContent, Total, ForClient, B, T
<1> QED
  BY <1>1, <1>2, <1>10 DEF t, T, B, i

\* A delta of arguments goes to the block of the call that is going on.
LEMMA AnthropicCallDeltaKeeps ==
    ASSUME NEW s, NEW P, NEW Q, NEW c, AnthropicMid(s, P), CallGrows(P, Q, c), NEW e, e.call = c
    PROVE  AnthropicMid(AnthropicCallDelta(s, e), Q)
<1>1. /\ InOrder(P) /\ OpenCall(P) = c /\ OpenCall(Q) = c /\ c \in CallsIn(P)
      /\ SameCallsBut(P, Q, c) /\ Q[c].n = P[c].n + 1 /\ SameTexts(P, Q)
  BY DEF CallGrows
<1>2. c # 0 /\ P[c].n \in Nat /\ CallsIn(P) \subseteq Nat
  BY <1>1, CallsOfItems
<1>3. AnthropicOpen(s, P, "call") /\ AnthropicContent(s, P)
  BY <1>1, <1>2 DEF AnthropicMid, AnthropicOpen
<1> DEFINE u == BlockDelta(s, "call", 1)
           w == u.withDeltas \cup {c}
           t == [u EXCEPT !.withDeltas = w]
<1>4. AnthropicContent(u, Q) /\ Shape(u, "call") /\ u.blocks[u.index].call = c
  <2>1. PICK one \in Nat : one = 1
    OBVIOUS
  <2>2. Q[c].n = P[c].n + one
    BY <1>1, <2>1
  <2>3. LET v == BlockDelta(s, "call", one)
        IN  AnthropicContent(v, Q) /\ Shape(v, "call") /\ v.blocks[v.index].call = c
    BY <1>1, <1>3, <2>2, ArgumentsFit
  <2> QED
    BY <2>1, <2>3
<1> HIDE DEF u
<1>5. u \in AnthropicStream /\ u.withDeltas \subseteq CallsIn(Q) /\ CallsIn(Q) = CallsIn(P)
  BY <1>1, <1>4 DEF Shape, AnthropicContent, SameCallsBut
<1>6. w \subseteq Nat /\ w \subseteq CallsIn(Q) /\ c \in w
  BY <1>1, <1>2, <1>5
<1>7. AnthropicCallDelta(s, e) = t
  BY DEF AnthropicCallDelta, u
<1> HIDE DEF w
<1>8. /\ t \in AnthropicStream /\ t.blocks = u.blocks /\ t.index = u.index
      /\ t.malformed = u.malformed /\ t.textBlock = u.textBlock
      /\ t.thinkingBlock = u.thinkingBlock /\ t.hasContent = u.hasContent
      /\ t.withDeltas = w /\ t.errors = u.errors /\ t.over = u.over
  BY <1>5, <1>6 DEF AnthropicStream
<1> HIDE DEF t
<1>9. Shape(t, "call")
  BY <1>4, <1>8, ShapeOf
<1>10. AnthropicContent(t, Q)
  BY <1>4, <1>6, <1>8 DEF AnthropicContent
<1>11. AnthropicOpen(t, Q, "call")
  <2>1. t.hasContent
    BY <1>1, <1>10 DEF AnthropicContent, ForClient, SameCallsBut
  <2> QED
    BY <1>1, <1>2, <1>4, <1>6, <1>8, <1>9, <2>1 DEF AnthropicOpen
<1> QED
  BY <1>7, <1>10, <1>11 DEF AnthropicMid

\* The arguments of a call that is done are sent unless deltas have brought them, and its
\* block is stopped.
LEMMA AnthropicCallDoneKeeps ==
    ASSUME NEW s, NEW P, NEW Q, NEW c, NEW n, AnthropicMid(s, P), CallEnds(P, Q, c, n),
           NEW e, e.call = c, e.n = n
    PROVE  AnthropicMid(AnthropicCallDone(s, e), Q)
<1>1. /\ InOrder(P) /\ OpenCall(P) = c /\ OpenCall(Q) = 0 /\ c \in CallsIn(P)
      /\ SameCallsBut(P, Q, c) /\ Q[c].n = n /\ n \in Nat /\ (P[c].n # 0 => n = P[c].n)
      /\ SameTexts(P, Q)
  BY DEF CallEnds
<1>2. c # 0 /\ P[c].n \in Nat
  BY <1>1, CallsOfItems
<1>3. AnthropicOpen(s, P, "call") /\ AnthropicContent(s, P)
  BY <1>1, <1>2 DEF AnthropicMid, AnthropicOpen
<1>4. c \in s.withDeltas <=> P[c].n # 0
  BY <1>1, <1>2, <1>3 DEF AnthropicOpen
<1> DEFINE u == IF c \in s.withDeltas THEN s ELSE BlockDelta(s, "call", n)
           t == StopBlock(u)
<1>5. AnthropicContent(u, Q) /\ Shape(u, "call")
  <2>1. CASE c \in s.withDeltas
    <3>1. /\ CallsIn(Q) = CallsIn(P) /\ \A d \in CallsIn(P) : Q[d].n = P[d].n
          /\ Total(Q, "text") = Total(P, "text") /\ Total(Q, "reasoning") = Total(P, "reasoning")
      BY <1>1, <1>4, <2>1 DEF SameCallsBut, SameTexts
    <3>2. Carries(s.blocks, CallsIn(Q), Q)
      BY <1>3, <3>1, CarriesSame DEF AnthropicContent
    <3> QED
      BY <1>3, <2>1, <3>1, <3>2 DEF AnthropicContent, AnthropicOpen, ForClient
  <2>2. CASE c \notin s.withDeltas
    <3>1. Q[c].n = P[c].n + n
      BY <1>1, <1>2, <1>4, <2>2
    <3>2. n \in Nat
      BY <1>1
    <3>3. SameCallsBut(P, Q, c) /\ SameTexts(P, Q) /\ c \in CallsIn(P) /\ OpenCall(P) = c /\ InOrder(P)
      BY <1>1
    <3>4. LET v == BlockDelta(s, "call", n)
          IN  AnthropicContent(v, Q) /\ Shape(v, "call") /\ v.blocks[v.index].call = c
      <4> HIDE DEF u, t
      <4> QED
        BY <1>3, <3>1, <3>2, <3>3, ArgumentsFit
    <3> QED
      BY <2>2, <3>4
  <2> QED
    BY <2>1, <2>2
<1> HIDE DEF u
<1>6. /\ t \in AnthropicStream /\ ~t.malformed /\ OpenBlocks(t.blocks, t.index, "no")
      /\ t.textBlock = u.textBlock /\ t.thinkingBlock = u.thinkingBlock
      /\ SameContent(u, t)
  BY <1>5, BlockStops
<1> HIDE DEF t
<1>7. Shape(t, "no")
  BY <1>5, <1>6 DEF Shape
<1>8. AnthropicContent(t, Q)
  BY <1>5, <1>6, ContentKept
<1>9. AnthropicOpen(t, Q, "no")
  BY <1>1, <1>7 DEF AnthropicOpen
<1> QED
  BY <1>8, <1>9 DEF AnthropicMid, AnthropicCallDone, t, u

\* A delta without text changes nothing.
LEMMA NothingFits ==
    ASSUME NEW s, Shape(s, "text")
    PROVE  Shape(BlockDelta(s, "text", 0), "text") /\ SameContent(s, BlockDelta(s, "text", 0))
<1>1. PICK z \in Nat : z = 0
  OBVIOUS
<1>2. PICK kind \in Kinds : kind = "text"
  BY DEF Kinds
<1>3. Shape(s, kind)
  BY <1>2
<1>4. Shape(BlockDelta(s, kind, z), kind)
  BY <1>3, DeltaFits
<1>5. kind = "reasoning" \/ (kind = "text" /\ z = 0)
  BY <1>1, <1>2
<1>6. SameContent(s, BlockDelta(s, kind, z))
  BY <1>3, <1>5, DeltaOfNone
<1> QED
  BY <1>1, <1>2, <1>4, <1>6

\* What an Anthropic client has when the response completed.
AnthropicHas(s, P) ==
    /\ s \in AnthropicStream /\ Total(s.blocks, "text") = Total(P, "text")
    /\ Carries(s.blocks, CallsIn(P), P) /\ Told(s, P, wants.reasoning)

\* Completed: an error if nothing was sent, in a block of text.
LEMMA AnthropicCompletes ==
    ASSUME NEW s, NEW P, AnthropicMid(s, P), OpenCall(P) = 0, NEW e
    PROVE  LET t == AnthropicCompleted(s, e)
           IN  AnthropicHas(t, P) /\ \E o \in {"no", "text", "reasoning", "call"} : Shape(t, o)
<1>1. PICK o \in {"no", "text", "reasoning", "call"} : AnthropicOpen(s, P, o)
  BY DEF AnthropicMid
<1>2. Shape(s, o) /\ o \in {"no", "text", "reasoning"} /\ AnthropicContent(s, P)
  BY <1>1 DEF AnthropicOpen, AnthropicMid
<1> DEFINE n == s.used + (IF e.usage THEN 1 ELSE 0)
           u == [s EXCEPT !.used = n]
<1>3. s \in AnthropicStream /\ n \in Nat
  BY <1>2 DEF Shape, AnthropicStream
<1> HIDE DEF n
<1>4. /\ u \in AnthropicStream /\ u.blocks = s.blocks /\ u.index = s.index
      /\ u.malformed = s.malformed /\ u.textBlock = s.textBlock
      /\ u.thinkingBlock = s.thinkingBlock /\ u.hasContent = s.hasContent
      /\ u.withDeltas = s.withDeltas /\ u.errors = s.errors /\ u.over = s.over
  BY <1>3 DEF AnthropicStream
<1>5. AnthropicCompleted(s, e) = IF s.hasContent THEN u
                                 ELSE [BlockDelta(EnsureTextBlock(u), "text", 0) EXCEPT !.errors = @ + 1]
  BY DEF AnthropicCompleted, n
<1> HIDE DEF u
<1>6. Shape(u, o) /\ AnthropicContent(u, P)
  <2>1. Shape(u, o)
    BY <1>2, <1>4, ShapeOf
  <2> QED
    BY <1>2, <1>4, <2>1 DEF AnthropicContent
<1>7. CASE s.hasContent
  <2>1. AnthropicCompleted(s, e) = u
    BY <1>5, <1>7
  <2>2. AnthropicHas(u, P)
    BY <1>4, <1>6, <1>7 DEF AnthropicHas, AnthropicContent, Told
  <2> QED
    BY <1>6, <2>1, <2>2
<1>8. CASE ~s.hasContent
  <2> DEFINE b == EnsureTextBlock(u)
             d == BlockDelta(b, "text", 0)
             x == d.errors + 1
             t == [d EXCEPT !.errors = x]
  <2>1. AnthropicCompleted(s, e) = t
    BY <1>5, <1>8
  <2>2. o = "no"
    BY <1>1, <1>8 DEF AnthropicOpen
  <2>3. Shape(b, "text") /\ SameContent(u, b)
    BY <1>6, <2>2, TextOpens
  <2> HIDE DEF b
  <2>4. Shape(d, "text") /\ SameContent(b, d)
    BY <2>3, NothingFits
  <2> HIDE DEF d
  <2>5. AnthropicContent(d, P)
    BY <1>6, <2>3, <2>4, ContentKept
  <2>6. d \in AnthropicStream /\ x = 1
    BY <2>4, <2>5 DEF Shape, AnthropicContent
  <2>7. /\ t \in AnthropicStream /\ t.blocks = d.blocks /\ t.index = d.index
        /\ t.malformed = d.malformed /\ t.textBlock = d.textBlock
        /\ t.thinkingBlock = d.thinkingBlock /\ t.errors = 1
    BY <2>6 DEF AnthropicStream
  <2> HIDE DEF t, x
  <2>8. Shape(t, "text")
    BY <2>4, <2>7, ShapeOf
  <2>9. ~d.hasContent
    BY <1>4, <1>8, <2>3, <2>4 DEF SameContent
  <2>10. AnthropicHas(t, P)
    BY <2>5, <2>7, <2>9 DEF AnthropicHas, AnthropicContent, Told
  <2> QED
    BY <2>1, <2>8, <2>10
<1> QED
  BY <1>7, <1>8

\* Failed, between two calls: the error is in a block of text, and the stream is over.
LEMMA AnthropicFails ==
    ASSUME NEW s, NEW P, AnthropicMid(s, P), OpenCall(P) = 0
    PROVE  LET t == AnthropicFailed(s) IN ~t.malformed /\ t.over
<1>1. PICK o \in {"no", "text", "reasoning", "call"} : AnthropicOpen(s, P, o)
  BY DEF AnthropicMid
<1>2. Shape(s, o) /\ o \in {"no", "text", "reasoning"}
  BY <1>1 DEF AnthropicOpen
<1> DEFINE p == IF o = "reasoning" THEN "no" ELSE o
           a == CloseThinkingIfOpen(s)
           b == EnsureTextBlock(a)
           d == BlockDelta(b, "text", 0)
           f == CloseTextIfOpen(d)
           t == AnthropicFailed(s)
<1>3. Shape(a, p)
  BY <1>2, ThinkingCloses
<1>4. p \in {"no", "text"}
  BY <1>2
<1>5. t = [f EXCEPT !.errors = f.errors + 1, !.ended = "message_stop", !.over = TRUE]
  BY DEF AnthropicFailed
<1> HIDE DEF p, a
<1>6. Shape(b, "text")
  BY <1>3, <1>4, TextOpens
<1> HIDE DEF b
<1>7. Shape(d, "text")
  BY <1>6, NothingFits
<1> HIDE DEF d
<1>8. Shape(f, "no")
  BY <1>7, TextCloses
<1> HIDE DEF f, t
<1>9. f \in AnthropicStream /\ ~f.malformed
  BY <1>8 DEF Shape
<1>10. t.malformed = f.malformed /\ t.over
  BY <1>5, <1>9 DEF AnthropicStream
<1> QED
  BY <1>9, <1>10 DEF t

\* The end of the body closes the blocks and leaves what they hold.
LEMMA AnthropicEnds ==
    ASSUME NEW s, NEW o \in {"no", "text", "reasoning", "call"}, Shape(s, o)
    PROVE  LET t == AnthropicEnd(s)
           IN  ~t.malformed /\ \A P : AnthropicHas(s, P) => AnthropicHas(t, P)
<1> DEFINE u == CloseTextIfOpen(CloseThinkingIfOpen(s))
           finish == IF s.calls THEN "tool_use" ELSE "end_turn"
           t == AnthropicEnd(s)
<1>1. \E p : Shape(u, p) /\ SameContent(s, u)
  <2>1. CASE o = "call"
    <3>1. CloseThinkingIfOpen(s) = s
      BY <2>1 DEF CloseThinkingIfOpen, Shape
    <3>2. u = s
      BY <2>1, <3>1 DEF CloseTextIfOpen, Shape
    <3>3. SameContent(s, s)
      BY DEF SameContent
    <3> QED
      BY <3>2, <3>3
  <2>2. CASE o # "call"
    BY <2>2, BlocksClose
  <2> QED
    BY <2>1, <2>2
<1>2. t = [u EXCEPT !.finish = finish, !.ended = "message_stop", !.over = TRUE]
  BY DEF AnthropicEnd
<1>3. finish \in {"tool_use", "end_turn"}
  OBVIOUS
<1> HIDE DEF u, t, finish
<1>4. u \in AnthropicStream /\ ~u.malformed /\ SameContent(s, u)
  BY <1>1 DEF Shape
<1>5. t \in AnthropicStream /\ t.blocks = u.blocks /\ ~t.malformed /\ t.errors = u.errors
  BY <1>2, <1>3, <1>4 DEF AnthropicStream
<1>6. ASSUME NEW P, AnthropicHas(s, P) PROVE AnthropicHas(t, P)
  <2>1. Carries(u.blocks, CallsIn(P), P)
    BY <1>4, <1>6, CarriesSame DEF AnthropicHas, SameContent
  <2>2. t.blocks = u.blocks /\ t.errors = s.errors /\ Total(u.blocks, "text") = Total(s.blocks, "text")
    BY <1>4, <1>5 DEF SameContent, Total
  <2> QED
    BY <1>5, <1>6, <2>1, <2>2 DEF AnthropicHas, Told
<1> QED
  BY <1>5, <1>6 DEF t

-----------------------------------------------------------------------------
(* The streams and the collectors, event by event *)

\* The three streams while the items P come.
AllMid(o, a, g, P) == OpenAIMid(o, P) /\ AnthropicMid(a, P) /\ GeminiMid(g, P)

\* An event is read as what made Q of the items P.
AllRead(P, Q, e) ==
    /\ \A o, a, g : AllMid(o, a, g, P)
          => AllMid(OpenAIEvent(o, e), AnthropicEvent(a, e), GeminiEvent(g, e), Q)
    /\ \A c : CollectedMid(c, P) => CollectedMid(CollectEvent(c, e), Q)

\* The three streams when the response completed.
AllHave(o, a, g, P) ==
    /\ o \in OpenAIStream /\ Has(o, P) /\ Told(o, P, wants.reasoning)
    /\ AnthropicHas(a, P)
    /\ g \in GeminiStream /\ HasParsed(g, P) /\ Told(g, P, FALSE)

\* No event of the Anthropic stream was malformed, whichever block is open.
BlocksInShape(s) == \E o \in {"no", "text", "reasoning", "call"} : Shape(s, o)

\* The inductive invariant: what the streams have of the items while they come and when
\* they are complete, as long as the client is there, and what was collected of them.
TranslationInv ==
    /\ InOrder(items) /\ terminal \in Terminals \cup {None}
    /\ ended \in {"open", "closed", "broken"}
    /\ terminal = "completed" => OpenCall(items) = 0
    /\ anthropic.malformed => terminal = "failed" /\ OpenCall(items) # 0
    /\ client /\ ended = "open" =>
          /\ terminal = None => AllMid(openai, anthropic, gemini, items)
          /\ terminal \in {"completed", "incomplete"} => BlocksInShape(anthropic)
          /\ terminal = "failed" /\ OpenCall(items) = 0 => anthropic.over
    /\ client /\ ended # "broken" /\ terminal = "completed"
          => AllHave(openai, anthropic, gemini, items)
    /\ ended = "open" /\ terminal \in {None, "completed"} => CollectedMid(collected, items)
    /\ ended = "closed" /\ terminal = "completed" => CollectedEnd(collected, items)

\* What each event is to the streams and the collectors.
LEMMA TextRead ==
    ASSUME NEW P, NEW Q, NEW kind \in {"text", "reasoning"}, TextComes(P, Q, kind),
           NEW e, e.type = kind
    PROVE  AllRead(P, Q, e)
<1>1. CASE kind = "text"
  <2>1. /\ \A s : OpenAIEvent(s, e) = OpenAIText(s) /\ AnthropicEvent(s, e) = AnthropicText(s)
        /\ \A s : GeminiEvent(s, e) = GeminiText(s)
    BY <1>1 DEF OpenAIEvent, AnthropicEvent, GeminiEvent
  <2>2. TextComes(P, Q, "text") /\ e.type = "text"
    BY <1>1
  <2> QED
    BY <2>1, <2>2, OpenAITextKeeps, AnthropicTextKeeps, GeminiTextKeeps, CollectTextKeeps
       DEF AllRead, AllMid
<1>2. CASE kind = "reasoning"
  <2>1. /\ \A s : /\ OpenAIEvent(s, e) = OpenAIReasoning(s)
                  /\ AnthropicEvent(s, e) = AnthropicReasoning(s)
        /\ \A s : GeminiEvent(s, e) = s
    BY <1>2 DEF OpenAIEvent, AnthropicEvent, GeminiEvent
  <2>2. TextComes(P, Q, "reasoning") /\ e.type = "reasoning"
    BY <1>2
  <2>3. \A s : GeminiMid(s, P) => GeminiMid(s, Q)
    BY <2>2, GeminiIgnores
  <2> QED
    BY <2>1, <2>2, <2>3, OpenAIReasoningKeeps, AnthropicReasoningKeeps, CollectReasoningKeeps
       DEF AllRead, AllMid
<1> QED
  BY <1>1, <1>2

LEMMA CallRead ==
    ASSUME NEW P, NEW Q, NEW c, CallComes(P, Q, c), NEW e, e.type = "callAdded", e.call = c
    PROVE  AllRead(P, Q, e)
<1>1. /\ \A s : /\ OpenAIEvent(s, e) = OpenAICallStart(s, e)
                /\ AnthropicEvent(s, e) = AnthropicCallStart(s, e)
      /\ \A s : GeminiEvent(s, e) = s
  BY DEF OpenAIEvent, AnthropicEvent, GeminiEvent
<1>2. \A s : GeminiMid(s, P) => GeminiMid(s, Q)
  BY GeminiIgnores
<1>3. \A s : CollectedMid(s, P) => CollectedMid(CollectEvent(s, e), Q)
  <2> SUFFICES ASSUME NEW s, CollectedMid(s, P) PROVE CollectedMid(CollectEvent(s, e), Q)
    OBVIOUS
  <2>1. e.type \in {"callAdded", "argumentsDelta", "unknown"}
    OBVIOUS
  <2>2. CallComes(P, Q, c) \/ CallGrows(P, Q, c) \/ Q = P
    OBVIOUS
  <2> QED
    BY <2>1, <2>2, CollectIgnores
<1> QED
  BY <1>1, <1>2, <1>3, OpenAICallStartKeeps, AnthropicCallStartKeeps DEF AllRead, AllMid

LEMMA GrowthRead ==
    ASSUME NEW P, NEW Q, NEW c, CallGrows(P, Q, c), NEW e, e.type = "argumentsDelta", e.call = c
    PROVE  AllRead(P, Q, e)
<1>1. /\ \A s : /\ OpenAIEvent(s, e) = OpenAICallDelta(s, e)
                /\ AnthropicEvent(s, e) = AnthropicCallDelta(s, e)
      /\ \A s : GeminiEvent(s, e) = s
  BY DEF OpenAIEvent, AnthropicEvent, GeminiEvent
<1>2. \A s : GeminiMid(s, P) => GeminiMid(s, Q)
  BY GeminiIgnores
<1>3. \A s : CollectedMid(s, P) => CollectedMid(CollectEvent(s, e), Q)
  <2> SUFFICES ASSUME NEW s, CollectedMid(s, P) PROVE CollectedMid(CollectEvent(s, e), Q)
    OBVIOUS
  <2>1. CollectEvent(s, e) = s
    BY DEF CollectEvent
  <2>2. HasDone(s.calls, Q, Q) /\ HasDone(s.parsed, Q, Parsed(Q))
    BY GrowthLeavesDone, DoneStays DEF CollectedMid
  <2>3. Total(P, "text") = Total(Q, "text")
    BY DEF CallGrows, SameTexts
  <2> QED
    BY <2>1, <2>2, <2>3 DEF CollectedMid
<1> QED
  BY <1>1, <1>2, <1>3, OpenAICallDeltaKeeps, AnthropicCallDeltaKeeps DEF AllRead, AllMid

LEMMA DoneRead ==
    ASSUME NEW P, NEW Q, NEW c, NEW n, CallEnds(P, Q, c, n),
           NEW e, e.type = "argumentsDone", e.call = c, e.n = n, e.parsed = Q[c].parsed
    PROVE  AllRead(P, Q, e)
<1>1. /\ \A s : /\ OpenAIEvent(s, e) = OpenAICallDone(s, e)
                /\ AnthropicEvent(s, e) = AnthropicCallDone(s, e)
      /\ \A s : GeminiEvent(s, e) = GeminiCallDone(s, e)
  BY DEF OpenAIEvent, AnthropicEvent, GeminiEvent
<1>2. \A s : CollectedMid(s, P) => CollectedMid(CollectEvent(s, e), Q)
  BY CollectCallDoneKeeps
<1> QED
  BY <1>1, <1>2, OpenAICallDoneKeeps, AnthropicCallDoneKeeps, GeminiCallDoneKeeps
     DEF AllRead, AllMid

LEMMA OtherRead ==
    ASSUME NEW P, NEW e, e.type = "unknown" PROVE AllRead(P, P, e)
<1>1. /\ \A s : OpenAIEvent(s, e) = s /\ AnthropicEvent(s, e) = s
      /\ \A s : GeminiEvent(s, e) = s
  BY DEF OpenAIEvent, AnthropicEvent, GeminiEvent
<1>2. \A s : CollectedMid(s, P) => CollectedMid(CollectEvent(s, e), P)
  BY DEF CollectEvent
<1> QED
  BY <1>1, <1>2 DEF AllRead, AllMid

\* Who asked for what does not change, so that a state says of itself what the streams
\* and the items of the next one say of each other.
LEMMA SameWants ==
    ASSUME wants' = wants
    PROVE  /\ AllMid(openai, anthropic, gemini, items)' <=> AllMid(openai', anthropic', gemini', items')
           /\ AllHave(openai, anthropic, gemini, items)' <=> AllHave(openai', anthropic', gemini', items')
<1>1. OpenAIMid(openai, items)' <=> OpenAIMid(openai', items')
  BY DEF OpenAIMid
<1>2. AnthropicMid(anthropic, items)' <=> AnthropicMid(anthropic', items')
  BY DEF AnthropicMid, AnthropicContent
<1>3. AnthropicHas(anthropic, items)' <=> AnthropicHas(anthropic', items')
  BY DEF AnthropicHas
<1> QED
  BY <1>1, <1>2, <1>3 DEF AllMid, AllHave

\* An event before the last.
LEMMA EmitKeeps ==
    ASSUME TranslationInv, terminal = None, UNCHANGED terminal, NEW e, Emit(e),
           InOrder(items'), AllRead(items, items', e)
    PROVE  TranslationInv'
<1>1. /\ ended = "open" /\ ended' = "open" /\ wants' = wants /\ client' = client
      /\ terminal' = None /\ None \notin Terminals
      /\ openai' = IF client /\ ~openai.over THEN OpenAIEvent(openai, e) ELSE openai
      /\ anthropic' = IF client /\ ~anthropic.over THEN AnthropicEvent(anthropic, e) ELSE anthropic
      /\ gemini' = IF client /\ ~gemini.over THEN GeminiEvent(gemini, e) ELSE gemini
      /\ collected' = IF collected.outcome = None THEN CollectEvent(collected, e) ELSE collected
  BY DEF Emit, None, Terminals
<1>2. CollectedMid(collected', items')
  <2>1. CollectedMid(collected, items) /\ collected.outcome = None
    BY <1>1 DEF TranslationInv, CollectedMid
  <2> QED
    BY <1>1, <2>1 DEF AllRead
<1>3. client => AllMid(openai', anthropic', gemini', items') /\ ~anthropic'.malformed
  <2> SUFFICES ASSUME client PROVE AllMid(openai', anthropic', gemini', items') /\ ~anthropic'.malformed
    OBVIOUS
  <2>1. AllMid(openai, anthropic, gemini, items)
    BY <1>1 DEF TranslationInv
  <2>2. ~openai.over /\ ~anthropic.over /\ ~gemini.over
    BY <2>1 DEF AllMid, OpenAIMid, AnthropicMid, AnthropicContent, GeminiMid
  <2>3. AllMid(openai', anthropic', gemini', items')
    BY <1>1, <2>1, <2>2 DEF AllRead
  <2>4. ~anthropic'.malformed
    BY <2>3 DEF AllMid, AnthropicMid, AnthropicOpen, Shape
  <2> QED
    BY <2>3, <2>4
<1>4. ~client => ~anthropic'.malformed
  BY <1>1 DEF TranslationInv, None
<1>5. client' => AllMid(openai, anthropic, gemini, items)'
  BY <1>1, <1>3, SameWants
<1> QED
  BY <1>1, <1>2, <1>3, <1>4, <1>5 DEF TranslationInv, Terminals, None

\* The items after a delta of text.
LEMMA TextDeltaKeeps ==
    ASSUME TranslationInv, NEW kind \in {"text", "reasoning"}, TextDelta(kind)
    PROVE  TranslationInv'
<1> DEFINE e == [type |-> kind]
<1>1. /\ terminal = None /\ UNCHANGED terminal /\ ~Outputting("call") /\ Emit(e)
      /\ IF Outputting(kind) THEN Item.n < MaxDeltas /\ Grow
         ELSE Extend(ItemStarted(kind, 0, 1))
  BY DEF TextDelta
<1>2. InOrder(items) /\ items \in Seq(ItemRecord)
  BY DEF TranslationInv, InOrder
<1>3. OpenCall(items) = 0
  BY <1>1 DEF OpenCall, Outputting, Item, Last
<1>4. TextComes(items, items', kind)
  <2>1. CASE Outputting(kind)
    <3> DEFINE L == Len(items)
               r == [items[L] EXCEPT !.n = items[L].n + 1]
    <3>1. items # <<>> /\ items[L].kind = kind
      BY <2>1 DEF Outputting, Item, Last
    <3>2. items[L] \in ItemRecord
      <4>1. L \in 1 .. L
        BY <1>2, <3>1, LenProperties, EmptySeq
      <4> QED
        BY <1>2, <4>1, ElementOfSeq
    <3>3. items' = [items EXCEPT ![L] = r]
      BY <1>1, <2>1 DEF Grow
    <3> DEFINE x == items[L].n + 1
    <3>4. x \in Nat
      BY <3>2 DEF ItemRecord
    <3> HIDE DEF x
    <3>5. r = [items[L] EXCEPT !.n = x]
      BY DEF x
    <3> HIDE DEF r, L
    <3>6. r \in ItemRecord /\ r.kind = items[L].kind /\ r.call = items[L].call /\ r.n = x
      BY <3>2, <3>4, <3>5 DEF ItemRecord
    <3>7. r.kind = kind /\ r.n = items[L].n + 1
      BY <3>1, <3>6 DEF x
    <3> QED
      BY <1>2, <3>1, <3>3, <3>6, <3>7, TextGoesOn DEF L
  <2>2. CASE ~Outputting(kind)
    <3> DEFINE r == [kind |-> kind, call |-> 0, n |-> 1, parsed |-> 0, open |-> TRUE]
    <3>1. r \in ItemRecord /\ r.kind = kind /\ r.call = 0 /\ r.n = 1
      BY DEF ItemRecord, Kinds
    <3>2. items' = Append(items, r)
      BY <1>1, <2>2 DEF Extend, ItemStarted
    <3> HIDE DEF r
    <3>3. TextComes(items, Append(items, r), kind)
      BY <1>2, <1>3, <3>1, TextBegins
    <3> QED
      BY <3>2, <3>3
  <2> QED
    BY <2>1, <2>2
<1>5. InOrder(items')
  BY <1>4 DEF TextComes
<1>6. e.type = kind
  OBVIOUS
<1> HIDE DEF e
<1>7. AllRead(items, items', e)
  BY <1>4, <1>6, TextRead
<1> QED
  BY <1>1, <1>5, <1>7, EmitKeeps

\* A call begins.
LEMMA CallAddedKeeps ==
    ASSUME TranslationInv, CallAdded PROVE TranslationInv'
<1> DEFINE c == Len(items) + 1
           e == [type |-> "callAdded", call |-> c]
           r == [kind |-> "call", call |-> c, n |-> 0, parsed |-> 0, open |-> TRUE]
<1>1. /\ terminal = None /\ UNCHANGED terminal /\ ~Outputting("call") /\ Emit(e)
      /\ items' = Append(items, r)
  BY DEF CallAdded, Extend, ItemStarted
<1>2. InOrder(items) /\ Len(items) \in Nat
  BY LenProperties DEF TranslationInv, InOrder
<1>3. OpenCall(items) = 0
  BY <1>1 DEF OpenCall, Outputting, Item, Last
<1>4. CallComes(items, items', c)
  <2>1. r \in ItemRecord /\ r.kind = "call" /\ r.call = Len(items) + 1 /\ r.n = 0 /\ r.open
    <3>1. c \in Nat
      BY <1>2
    <3> HIDE DEF c
    <3>2. r \in ItemRecord /\ r.kind = "call" /\ r.call = c /\ r.n = 0 /\ r.open
      BY <3>1 DEF ItemRecord, Kinds
    <3> QED
      BY <3>2 DEF c
  <2> HIDE DEF r
  <2>2. CallComes(items, Append(items, r), Len(items) + 1)
    BY <1>2, <1>3, <2>1, CallBegins
  <2> QED
    BY <1>1, <2>2
<1>5. InOrder(items')
  BY <1>4 DEF CallComes
<1>6. e.type = "callAdded" /\ e.call = c
  OBVIOUS
<1> HIDE DEF e, c
<1>7. AllRead(items, items', e)
  BY <1>4, <1>6, CallRead
<1> QED
  BY <1>1, <1>5, <1>7, EmitKeeps

\* The call that is going on is the last item.
LEMMA CallGoingOn ==
    ASSUME InOrder(items), Outputting("call")
    PROVE  /\ items # <<>> /\ OpenCall(items) = Len(items) /\ OpenCall(items) # 0
           /\ Item = items[Len(items)] /\ items[Len(items)] \in ItemRecord
           /\ Item.call = Len(items) /\ items[Len(items)].kind = "call"
<1>1. /\ items # <<>> /\ Item = items[Len(items)]
      /\ items[Len(items)].kind = "call" /\ items[Len(items)].open
  BY DEF Outputting, Item, Last
<1>2. Len(items) \in 1 .. Len(items) /\ items \in Seq(ItemRecord)
  BY <1>1, LenProperties, EmptySeq DEF InOrder
<1>3. items[Len(items)] \in ItemRecord
  BY <1>2, ElementOfSeq
<1> QED
  BY <1>1, <1>2, <1>3 DEF InOrder, OpenCall

\* The arguments of the call that is going on grow by a delta.
LEMMA ArgumentsDeltaKeeps ==
    ASSUME TranslationInv, ArgumentsDelta PROVE TranslationInv'
<1> DEFINE L == Len(items)
           e == [type |-> "argumentsDelta", call |-> Item.call]
           r == [items[L] EXCEPT !.n = items[L].n + 1]
           x == items[L].n + 1
<1>1. /\ terminal = None /\ UNCHANGED terminal /\ Outputting("call") /\ Emit(e)
      /\ items' = [items EXCEPT ![L] = r]
  BY DEF ArgumentsDelta, Grow
<1>2. InOrder(items)
  BY DEF TranslationInv
<1>3. /\ items # <<>> /\ OpenCall(items) = L /\ OpenCall(items) # 0
      /\ items[L] \in ItemRecord /\ Item.call = L /\ items[L].kind = "call" /\ items[L].open
  BY <1>1, <1>2, CallGoingOn DEF Outputting
<1>4. x \in Nat
  BY <1>3 DEF ItemRecord
<1>5. r = [items[L] EXCEPT !.n = x]
  OBVIOUS
<1>6. e.type = "argumentsDelta" /\ e.call = L
  BY <1>3
<1> HIDE DEF r, x, e
<1>7. r \in ItemRecord /\ r.kind = items[L].kind /\ r.call = items[L].call /\ r.n = x /\ r.open
  <2> HIDE DEF L
  <2> QED
    BY <1>3, <1>4, <1>5 DEF ItemRecord
<1>8. LET Q == [items EXCEPT ![L] = r]
      IN  /\ InOrder(Q) /\ OpenCall(Q) = (IF r.open THEN OpenCall(items) ELSE 0)
          /\ OpenCall(items) \in CallsIn(items)
          /\ SameCallsBut(items, Q, OpenCall(items)) /\ Q[OpenCall(items)].n = r.n
          /\ SameTexts(items, Q)
  BY <1>2, <1>3, <1>7, CallChanges
<1>9. CallGrows(items, items', L)
  <2>1. r.n = items[L].n + 1
    BY <1>7 DEF x
  <2> HIDE DEF L
  <2> QED
    BY <1>1, <1>2, <1>3, <1>7, <1>8, <2>1 DEF CallGrows
<1>10. InOrder(items')
  BY <1>9 DEF CallGrows
<1> HIDE DEF L
<1>11. AllRead(items, items', e)
  BY <1>6, <1>9, GrowthRead
<1> QED
  BY <1>1, <1>10, <1>11, EmitKeeps

\* The call that is going on is done.
LEMMA ArgumentsDoneKeeps ==
    ASSUME TranslationInv, ArgumentsDone PROVE TranslationInv'
<1> DEFINE L == Len(items)
<1>1. /\ terminal = None /\ UNCHANGED terminal /\ Outputting("call")
  BY DEF ArgumentsDone
<1>2. InOrder(items)
  BY DEF TranslationInv
<1>3. /\ items # <<>> /\ OpenCall(items) = L /\ OpenCall(items) # 0
      /\ items[L] \in ItemRecord /\ Item.call = L /\ items[L].kind = "call" /\ Item = items[L]
  BY <1>1, <1>2, CallGoingOn
<1>4. items[L].n \in Nat /\ L \in DOMAIN items
  <2>1. items \in Seq(ItemRecord)
    BY <1>2 DEF InOrder
  <2> QED
    BY <1>3, <2>1, LenProperties, EmptySeq DEF ItemRecord
<1>5. PICK n \in IF Item.n = 0 THEN 0 .. MaxDeltas ELSE {Item.n} : \E p \in {0, n} :
         /\ items' = [items EXCEPT ![Len(items)] = [@ EXCEPT !.n = n, !.parsed = p, !.open = FALSE]]
         /\ Emit([type |-> "argumentsDone", call |-> Item.call, n |-> n, parsed |-> p])
  BY DEF ArgumentsDone
<1>14. PICK p \in {0, n} :
         /\ items' = [items EXCEPT ![Len(items)] = [@ EXCEPT !.n = n, !.parsed = p, !.open = FALSE]]
         /\ Emit([type |-> "argumentsDone", call |-> Item.call, n |-> n, parsed |-> p])
  BY <1>5
<1> DEFINE e == [type |-> "argumentsDone", call |-> Item.call, n |-> n, parsed |-> p]
           r == [items[L] EXCEPT !.n = n, !.parsed = p, !.open = FALSE]
<1>6. n \in Nat /\ (items[L].n # 0 => n = items[L].n) /\ p \in Nat
  BY <1>3, <1>4, <1>5
<1>7. items' = [items EXCEPT ![L] = r]
  BY <1>4, <1>14
<1>8. e.type = "argumentsDone" /\ e.call = L /\ e.n = n /\ e.parsed = p /\ Emit(e)
  BY <1>3, <1>14
<1> HIDE DEF r, e
<1>9. /\ r \in ItemRecord /\ r.kind = items[L].kind /\ r.call = items[L].call
      /\ r.n = n /\ r.parsed = p /\ ~r.open
  <2> HIDE DEF L
  <2> QED
    BY <1>3, <1>6 DEF r, ItemRecord
<1>10. LET Q == [items EXCEPT ![L] = r]
       IN  /\ InOrder(Q) /\ OpenCall(Q) = (IF r.open THEN OpenCall(items) ELSE 0)
           /\ OpenCall(items) \in CallsIn(items)
           /\ SameCallsBut(items, Q, OpenCall(items)) /\ Q[OpenCall(items)].n = r.n
           /\ Q[OpenCall(items)].parsed = r.parsed /\ SameTexts(items, Q)
  BY <1>2, <1>3, <1>9, CallChanges
<1> HIDE DEF L
<1>11. CallEnds(items, items', L, n) /\ items'[L].parsed = p
  BY <1>2, <1>3, <1>6, <1>7, <1>9, <1>10 DEF CallEnds
<1>12. InOrder(items')
  BY <1>11 DEF CallEnds
<1>13. AllRead(items, items', e)
  BY <1>8, <1>11, DoneRead
<1> QED
  BY <1>1, <1>8, <1>12, <1>13, EmitKeeps

\* An event nobody knows.
LEMMA OtherEventKeeps ==
    ASSUME TranslationInv, OtherEvent PROVE TranslationInv'
<1> DEFINE e == [type |-> "unknown"]
<1>1. terminal = None /\ UNCHANGED terminal /\ items' = items /\ Emit(e)
  BY DEF OtherEvent
<1>2. e.type = "unknown"
  OBVIOUS
<1> HIDE DEF e
<1>3. AllRead(items, items', e)
  BY <1>1, <1>2, OtherRead
<1>4. InOrder(items')
  BY <1>1 DEF TranslationInv
<1> QED
  BY <1>1, <1>3, <1>4, EmitKeeps

\* The terminal event: what has come is whole if it is that of a completed response.
LEMMA TerminalKeeps ==
    ASSUME TranslationInv, NEW type \in Terminals, NEW usage \in BOOLEAN, Terminal(type, usage)
    PROVE  TranslationInv'
<1> DEFINE e == [type |-> type, usage |-> usage]
<1>1. /\ terminal = None /\ terminal' = type /\ items' = items /\ Emit(e)
      /\ type = "completed" => ~Outputting("call")
  BY DEF Terminal
<1>2. /\ ended = "open" /\ ended' = "open" /\ wants' = wants /\ client' = client
      /\ openai' = IF client /\ ~openai.over THEN OpenAIEvent(openai, e) ELSE openai
      /\ anthropic' = IF client /\ ~anthropic.over THEN AnthropicEvent(anthropic, e) ELSE anthropic
      /\ gemini' = IF client /\ ~gemini.over THEN GeminiEvent(gemini, e) ELSE gemini
      /\ collected' = IF collected.outcome = None THEN CollectEvent(collected, e) ELSE collected
  BY <1>1 DEF Emit
<1>3. e.type = type
  OBVIOUS
<1> HIDE DEF e
<1>4. /\ InOrder(items) /\ ~anthropic.malformed
      /\ CollectedMid(collected, items)
      /\ client => AllMid(openai, anthropic, gemini, items)
  BY <1>1, <1>2 DEF TranslationInv, None
<1>5. collected.outcome = None
  BY <1>4 DEF CollectedMid
<1>6. client => /\ OpenAIMid(openai, items) /\ AnthropicMid(anthropic, items) /\ GeminiMid(gemini, items)
                /\ ~openai.over /\ ~anthropic.over /\ ~gemini.over
                /\ BlocksInShape(anthropic)
  BY <1>4 DEF AllMid, OpenAIMid, AnthropicMid, AnthropicContent, AnthropicOpen, GeminiMid, BlocksInShape
<1>7. CASE type = "completed"
  <2>1. OpenCall(items) = 0
    BY <1>1, <1>7 DEF OpenCall, Outputting, Item, Last
  <2>2. CollectedMid(collected', items)
    BY <1>2, <1>3, <1>4, <1>5, <1>7, CollectCompletedKeeps
  <2>3. CASE client
    <3>1. /\ openai' = OpenAICompleted(openai, e) /\ anthropic' = AnthropicCompleted(anthropic, e)
          /\ gemini' = GeminiCompleted(gemini, e)
      BY <1>2, <1>3, <1>6, <1>7, <2>3 DEF OpenAIEvent, AnthropicEvent, GeminiEvent
    <3>2. /\ openai' \in OpenAIStream /\ Has(openai', items) /\ Told(openai', items, wants.reasoning)
      BY <1>4, <1>6, <2>3, <3>1, OpenAICompletes
    <3>3. /\ AnthropicHas(anthropic', items) /\ BlocksInShape(anthropic')
      BY <1>6, <2>1, <2>3, <3>1, AnthropicCompletes DEF BlocksInShape
    <3>4. /\ gemini' \in GeminiStream /\ HasParsed(gemini', items) /\ Told(gemini', items, FALSE)
      BY <1>4, <1>6, <2>1, <2>3, <3>1, GeminiCompletes
    <3>5. AllHave(openai', anthropic', gemini', items')
      BY <1>1, <3>2, <3>3, <3>4 DEF AllHave
    <3>6. AllHave(openai, anthropic, gemini, items)'
      BY <1>2, <3>5, SameWants
    <3>7. BlocksInShape(anthropic)' /\ ~anthropic'.malformed
      BY <3>3 DEF BlocksInShape, Shape
    <3> QED
      BY <1>1, <1>2, <1>4, <1>7, <2>1, <2>2, <3>6, <3>7 DEF TranslationInv, None
  <2>4. CASE ~client
    BY <1>1, <1>2, <1>4, <1>7, <2>1, <2>2, <2>4 DEF TranslationInv, None
  <2> QED
    BY <2>3, <2>4
<1>8. CASE type = "incomplete"
  <2>1. anthropic' = anthropic
    BY <1>2, <1>3, <1>8 DEF AnthropicEvent
  <2>2. client => BlocksInShape(anthropic)'
    BY <1>6, <2>1 DEF BlocksInShape
  <2> QED
    BY <1>1, <1>2, <1>4, <1>8, <2>1, <2>2 DEF TranslationInv, None, Terminals
<1>9. CASE type = "failed"
  <2>1. client => anthropic' = AnthropicFailed(anthropic)
    BY <1>2, <1>3, <1>6, <1>9 DEF AnthropicEvent
  <2>2. client /\ OpenCall(items) = 0 => anthropic'.over /\ ~anthropic'.malformed
    BY <1>6, <2>1, AnthropicFails
  <2>3. ~client => ~anthropic'.malformed
    BY <1>2, <1>4
  <2> QED
    BY <1>1, <1>2, <1>4, <1>9, <2>2, <2>3 DEF TranslationInv, None, Terminals
<1> QED
  BY <1>7, <1>8, <1>9 DEF Terminals

\* The body ends: the streams end, and the answer is collected.
LEMMA BodyEndsKeeps ==
    ASSUME TranslationInv, BodyEnds PROVE TranslationInv'
<1>1. /\ ended = "open" /\ ended' = "closed" /\ wants' = wants /\ client' = client
      /\ items' = items /\ terminal' = terminal
      /\ openai' = IF client /\ ~openai.over THEN OpenAIEnd(openai) ELSE openai
      /\ anthropic' = IF client /\ ~anthropic.over THEN AnthropicEnd(anthropic) ELSE anthropic
      /\ gemini' = IF client /\ ~gemini.over THEN GeminiEnd(gemini) ELSE gemini
      /\ collected' = IF collected.outcome = None THEN CollectEnd(collected) ELSE collected
  BY DEF BodyEnds, upstreamVars
<1>2. InOrder(items) /\ terminal \in Terminals \cup {None}
  BY DEF TranslationInv
<1>3. terminal = "completed" => CollectedEnd(collected', items)
  <2> SUFFICES ASSUME terminal = "completed" PROVE CollectedEnd(collected', items)
    OBVIOUS
  <2>1. CollectedMid(collected, items) /\ OpenCall(items) = 0
    BY <1>1 DEF TranslationInv
  <2>2. collected.outcome = None
    BY <2>1 DEF CollectedMid
  <2> QED
    BY <1>1, <1>2, <2>1, <2>2, CollectEnds
<1>4. anthropic'.malformed => terminal = "failed" /\ OpenCall(items) # 0
  <2>1. CASE anthropic' = anthropic
    BY <2>1 DEF TranslationInv
  <2>2. CASE anthropic' # anthropic
    <3>1. client /\ ~anthropic.over /\ anthropic' = AnthropicEnd(anthropic)
      BY <1>1, <2>2
    <3>2. CASE terminal = "failed"
      BY <1>1, <3>1, <3>2 DEF TranslationInv
    <3>3. CASE terminal # "failed"
      <4>1. BlocksInShape(anthropic)
        <5>1. AllMid(openai, anthropic, gemini, items) => BlocksInShape(anthropic)
          BY DEF AllMid, AnthropicMid, AnthropicOpen, BlocksInShape
        <5> QED
          BY <1>1, <1>2, <3>1, <3>3, <5>1 DEF TranslationInv, Terminals
      <4>2. PICK o \in {"no", "text", "reasoning", "call"} : Shape(anthropic, o)
        BY <4>1 DEF BlocksInShape
      <4>3. ~anthropic'.malformed
        BY <3>1, <4>2, AnthropicEnds
      <4> QED
        BY <4>3
    <3> QED
      BY <3>2, <3>3
  <2> QED
    BY <2>1, <2>2
<1>5. ASSUME client, terminal = "completed"
      PROVE  AllHave(openai', anthropic', gemini', items)
  <2>1. AllHave(openai, anthropic, gemini, items) /\ BlocksInShape(anthropic)
    BY <1>1, <1>5 DEF TranslationInv
  <2>2. openai' \in OpenAIStream /\ Has(openai', items) /\ Told(openai', items, wants.reasoning)
    <3>1. CASE openai' = openai
      BY <2>1, <3>1 DEF AllHave
    <3>2. CASE openai' = OpenAIEnd(openai)
      <4> DEFINE s == openai
                 t == OpenAIEnd(s)
      <4>1. s \in OpenAIStream /\ Has(s, items) /\ Told(s, items, wants.reasoning)
        BY <2>1 DEF AllHave
      <4>2. t \in OpenAIStream /\ t.text = s.text /\ t.calls = s.calls /\ t.errors = s.errors
        BY <4>1 DEF OpenAIEnd, OpenAIStream
      <4> HIDE DEF t
      <4>3. t \in OpenAIStream /\ Has(t, items) /\ Told(t, items, wants.reasoning)
        BY <4>1, <4>2 DEF Has, HasOf, Told
      <4> QED
        BY <3>2, <4>3 DEF t
    <3> QED
      BY <1>1, <3>1, <3>2
  <2>3. AnthropicHas(anthropic', items)
    <3>1. CASE anthropic' = anthropic
      BY <2>1, <3>1 DEF AllHave
    <3>2. CASE anthropic' = AnthropicEnd(anthropic)
      <4>1. PICK o \in {"no", "text", "reasoning", "call"} : Shape(anthropic, o)
        BY <2>1 DEF BlocksInShape
      <4>2. AnthropicHas(anthropic, items)
        BY <2>1 DEF AllHave
      <4> QED
        BY <3>2, <4>1, <4>2, AnthropicEnds
    <3> QED
      BY <1>1, <3>1, <3>2
  <2>4. gemini' \in GeminiStream /\ HasParsed(gemini', items) /\ Told(gemini', items, FALSE)
    <3>1. CASE gemini' = gemini
      BY <2>1, <3>1 DEF AllHave
    <3>2. CASE gemini' = GeminiEnd(gemini)
      <4> DEFINE s == gemini
                 t == GeminiEnd(s)
      <4>1. s \in GeminiStream /\ HasParsed(s, items) /\ Told(s, items, FALSE)
        BY <2>1 DEF AllHave
      <4>2. t \in GeminiStream /\ t.text = s.text /\ t.calls = s.calls /\ t.errors = s.errors
        BY <4>1 DEF GeminiEnd, GeminiStream
      <4> HIDE DEF t
      <4>3. t \in GeminiStream /\ HasParsed(t, items) /\ Told(t, items, FALSE)
        BY <4>1, <4>2 DEF HasParsed, HasOf, Told
      <4> QED
        BY <3>2, <4>3 DEF t
    <3> QED
      BY <1>1, <3>1, <3>2
  <2> QED
    BY <2>2, <2>3, <2>4 DEF AllHave
<1>6. client' /\ terminal' = "completed" => AllHave(openai, anthropic, gemini, items)'
  BY <1>1, <1>5, SameWants
<1> QED
  BY <1>1, <1>2, <1>3, <1>4, <1>6 DEF TranslationInv

\* The body breaks: an error is all that is sent.
LEMMA BodyBreaksKeeps ==
    ASSUME TranslationInv, BodyBreaks PROVE TranslationInv'
<1>1. /\ ended = "open" /\ ended' = "broken" /\ client' = client
      /\ items' = items /\ terminal' = terminal
      /\ anthropic' = Interrupted(anthropic)
  BY DEF BodyBreaks, upstreamVars
<1>2. anthropic'.malformed => terminal = "failed" /\ OpenCall(items) # 0
  <2>1. CASE anthropic' = anthropic
    BY <2>1 DEF TranslationInv
  <2>2. CASE anthropic' # anthropic
    <3>1. /\ client /\ ~anthropic.over
          /\ anthropic' = [anthropic EXCEPT !.errors = anthropic.errors + 1, !.over = TRUE]
      BY <1>1, <2>2 DEF Interrupted
    <3>2. CASE terminal = "failed"
      BY <1>1, <3>1, <3>2 DEF TranslationInv
    <3>3. CASE terminal # "failed"
      <4>1. BlocksInShape(anthropic)
        <5>1. AllMid(openai, anthropic, gemini, items) => BlocksInShape(anthropic)
          BY DEF AllMid, AnthropicMid, AnthropicOpen, BlocksInShape
        <5> QED
          BY <1>1, <3>1, <3>3, <5>1 DEF TranslationInv, Terminals
      <4>2. anthropic \in AnthropicStream /\ ~anthropic.malformed
        BY <4>1 DEF BlocksInShape, Shape
      <4> DEFINE x == anthropic.errors + 1
      <4> HIDE DEF x
      <4>3. anthropic' = [anthropic EXCEPT !.errors = x, !.over = TRUE]
        BY <3>1 DEF x
      <4> QED
        BY <4>2, <4>3 DEF AnthropicStream
    <3> QED
      BY <3>2, <3>3
  <2> QED
    BY <2>1, <2>2
<1> QED
  BY <1>1, <1>2 DEF TranslationInv

\* A client that goes, and steps that are none.
LEMMA TranslationRests ==
    ASSUME TranslationInv, ClientGone \/ UNCHANGED translationVars PROVE TranslationInv'
<1>1. /\ wants' = wants /\ items' = items /\ terminal' = terminal /\ ended' = ended
      /\ openai' = openai /\ anthropic' = anthropic /\ gemini' = gemini /\ collected' = collected
      /\ client' => client
  BY DEF ClientGone, translationVars, upstreamVars, streamVars
<1>2. /\ AllMid(openai, anthropic, gemini, items) => AllMid(openai, anthropic, gemini, items)'
      /\ AllHave(openai, anthropic, gemini, items) => AllHave(openai, anthropic, gemini, items)'
  BY <1>1, SameWants
<1>3. BlocksInShape(anthropic) => BlocksInShape(anthropic)'
  BY <1>1 DEF BlocksInShape
<1> QED
  BY <1>1, <1>2, <1>3 DEF TranslationInv

\* Nothing has come, and nothing was sent.
LEMMA TranslationStarts == TranslationInit => TranslationInv
<1> SUFFICES ASSUME TranslationInit PROVE TranslationInv
  OBVIOUS
<1>1. /\ items = <<>> /\ terminal = None /\ ended = "open" /\ client = TRUE
      /\ openai = OpenAIStart /\ anthropic = AnthropicStart /\ gemini = GeminiStart
      /\ collected = CollectorStart
  BY DEF TranslationInit
<1> DEFINE P == <<>>
<1>2. /\ P \in Seq(ItemRecord) /\ Len(P) = 0 /\ DOMAIN P = {}
      /\ P \in Seq(NumberedCall) /\ P \in Seq(Nat)
  OBVIOUS
<1> HIDE DEF P
<1>3. /\ CallsIn(P) = {} /\ \A kind : DeltasOf(P, kind) = {}
      /\ \A Q : Carries(P, {}, Q)
  BY <1>2 DEF CallsIn, DeltasOf, Carries
<1>4. \A kind : IsFiniteSet(DeltasOf(P, kind)) /\ Total(P, kind) = 0
  BY <1>3, FS_EmptySet DEF Total
<1>5. OpenCall(P) = 0 /\ InOrder(P)
  <2>1. OpenCall(P) = 0
    BY DEF OpenCall, P
  <2>2. InOrder(P)
    BY <1>2, <1>4 DEF InOrder
  <2> QED
    BY <2>1, <2>2
<1>6. DoneCalls(P) = {} /\ ~ForClient(P)
  BY <1>3, <1>4 DEF DoneCalls, ForClient
<1>7. OpenAIMid(openai, P)
  <2>1. /\ openai \in OpenAIStream /\ openai.text = 0 /\ openai.buffer = 0 /\ openai.thoughts = 0
        /\ openai.calls = P /\ openai.indexOf = P /\ openai.errors = 0 /\ ~openai.over
        /\ openai.withDeltas = {}
    BY <1>1, <1>2 DEF OpenAIStart, OpenAIStream, P
  <2> QED
    BY <1>2, <1>3, <1>4, <1>5, <2>1 DEF OpenAIMid
<1>8. AnthropicMid(anthropic, P)
  <2>1. /\ anthropic \in AnthropicStream /\ anthropic.blocks = P /\ anthropic.index = 1
        /\ ~anthropic.malformed /\ ~anthropic.textBlock /\ ~anthropic.thinkingBlock
        /\ ~anthropic.hasContent /\ anthropic.withDeltas = {} /\ anthropic.errors = 0
        /\ ~anthropic.over
    BY <1>1, <1>2 DEF AnthropicStart, AnthropicStream, P
  <2>2. OpenBlocks(anthropic.blocks, anthropic.index, "no")
    BY <1>2, <2>1 DEF OpenBlocks
  <2>3. Shape(anthropic, "no")
    BY <2>1, <2>2 DEF Shape
  <2>4. AnthropicContent(anthropic, P)
    BY <1>3, <1>4, <1>6, <2>1 DEF AnthropicContent
  <2>5. AnthropicOpen(anthropic, P, "no")
    BY <1>5, <2>3 DEF AnthropicOpen
  <2> QED
    BY <2>4, <2>5 DEF AnthropicMid
<1>9. GeminiMid(gemini, P)
  <2>1. /\ gemini \in GeminiStream /\ gemini.text = 0 /\ gemini.buffer = 0 /\ gemini.thoughts = 0
        /\ gemini.calls = P /\ gemini.errors = 0 /\ ~gemini.over
    BY <1>1, <1>2 DEF GeminiStart, GeminiStream, P
  <2> QED
    BY <1>2, <1>3, <1>4, <1>6, <2>1 DEF GeminiMid, HasDone
<1>10. CollectedMid(collected, P)
  <2>1. /\ collected \in CollectorRecord /\ collected.text = 0 /\ collected.outcome = None
        /\ collected.calls = P /\ collected.parsed = P
    BY <1>1, <1>2 DEF CollectorStart, CollectorRecord, P
  <2> QED
    BY <1>2, <1>3, <1>4, <1>6, <2>1 DEF CollectedMid, HasDone
<1>11. ~anthropic.malformed
  BY <1>8 DEF AnthropicMid, AnthropicOpen, Shape
<1> QED
  BY <1>1, <1>5, <1>7, <1>8, <1>9, <1>10, <1>11 DEF TranslationInv, AllMid, None, Terminals, P

\* What a response that completed gave its client.
LEMMA InvAnswers ==
    ASSUME TranslationInv PROVE ContentArrives /\ BlocksWellFormed /\ EmptyTold
<1>1. \A seq, said : SameCalls(seq, said) <=> Carries(seq, CallsIn(items), said)
  BY DEF SameCalls, Carries
<1>2. ContentArrives
  <2> DEFINE SaysAll(s, said) == s.text = Total(items, "text") /\ SameCalls(s.calls, said)
  <2> SUFFICES ASSUME terminal = "completed", ended = "closed"
               PROVE  /\ client => /\ SaysAll(openai, items) /\ SaysAll(gemini, Parsed(items))
                                   /\ Total(anthropic.blocks, "text") = Total(items, "text")
                                   /\ SameCalls(anthropic.blocks, items)
                      /\ collected.outcome = "response" =>
                            SaysAll(collected, items) /\ SameCalls(collected.parsed, Parsed(items))
                      /\ collected.outcome = "empty" => Total(items, "text") = 0 /\ CallsIn(items) = {}
    BY DEF ContentArrives
  <2>1. client => AllHave(openai, anthropic, gemini, items)
    BY DEF TranslationInv
  <2>2. CollectedEnd(collected, items)
    BY DEF TranslationInv
  <2> QED
    BY <1>1, <2>1, <2>2 DEF AllHave, AnthropicHas, CollectedEnd, Has, HasParsed, HasOf
<1>3. BlocksWellFormed
  <2>1. OpenCall(items) # 0 => Outputting("call")
    BY DEF OpenCall, Outputting, Item, Last
  <2> QED
    BY <2>1 DEF TranslationInv, BlocksWellFormed
<1>4. EmptyTold
  BY DEF EmptyTold, TranslationInv, AllHave, AnthropicHas, Told, ForClient
<1> QED
  BY <1>2, <1>3, <1>4

\* A response that completed reaches its client in every format, streamed and collected: all
\* of its text, each call once and in order with the string of its arguments, or in Gemini's
\* and Anthropic's collected format what that parses to, which is the empty object if it is
\* no JSON.  Anthropic's blocks are well-formed; a response is called empty only if it was.
THEOREM TranslationAnswers ==
    TranslationSpec => [](ContentArrives /\ BlocksWellFormed /\ EmptyTold)
<1>1. TranslationInit => TranslationInv
  BY TranslationStarts
<1>2. TranslationInv /\ [TranslationNext]_translationVars => TranslationInv'
  BY TextDeltaKeeps, CallAddedKeeps, ArgumentsDeltaKeeps, ArgumentsDoneKeeps, TerminalKeeps,
     OtherEventKeeps, BodyEndsKeeps, BodyBreaksKeeps, TranslationRests DEF TranslationNext
<1>3. TranslationInv => ContentArrives /\ BlocksWellFormed /\ EmptyTold
  BY InvAnswers
<1> QED
  BY <1>1, <1>2, <1>3, PTL DEF TranslationSpec

-----------------------------------------------------------------------------
(* What a stream is told once: the usage, an error, the end *)

\* At most so many errors and usages have been told.
Counts(s, errors, used) ==
    /\ {"errors", "used", "over"} \subseteq DOMAIN s
    /\ s.over \in BOOLEAN /\ s.errors \in 0 .. errors /\ s.used \in 0 .. used

LEMMA CountsMore ==
    ASSUME NEW s, NEW e \in Nat, NEW u \in Nat, NEW f \in Nat, NEW v \in Nat, e <= f, u <= v,
           Counts(s, e, u)
    PROVE  Counts(s, f, v)
BY DEF Counts

\* What fills the blocks leaves errors, usage and end alone.
LEMMA CountsBlocks ==
    ASSUME NEW s, NEW e, NEW u, Counts(s, e, u), NEW kind, NEW n
    PROVE  /\ Counts(StartBlock(s, kind, n), e, u) /\ Counts(BlockDelta(s, kind, n), e, u)
           /\ Counts(StopBlock(s), e, u) /\ Counts(CloseThinkingIfOpen(s), e, u)
           /\ Counts(CloseTextIfOpen(s), e, u) /\ Counts(EnsureTextBlock(s), e, u)
<1>1. ASSUME NEW k, NEW m PROVE Counts(StartBlock(s, k, m), e, u)
  BY DEF Counts, StartBlock
<1>2. Counts(BlockDelta(s, kind, n), e, u)
  BY DEF Counts, BlockDelta
<1>3. Counts(StopBlock(s), e, u)
  BY DEF Counts, StopBlock
<1>4. Counts(CloseThinkingIfOpen(s), e, u) /\ Counts(CloseTextIfOpen(s), e, u)
  BY <1>3 DEF Counts, CloseThinkingIfOpen, CloseTextIfOpen
<1>5. Counts(EnsureTextBlock(s), e, u)
  BY <1>1 DEF Counts, EnsureTextBlock
<1> QED  BY <1>1, <1>2, <1>3, <1>4, <1>5

\* What is no terminal event is neither an error nor brings a usage.
LEMMA EventCounts ==
    ASSUME NEW s, NEW e, e.type \notin Terminals, NEW errors, NEW used, Counts(s, errors, used)
    PROVE  /\ Counts(OpenAIEvent(s, e), errors, used)
           /\ Counts(AnthropicEvent(s, e), errors, used)
           /\ Counts(GeminiEvent(s, e), errors, used)
<1>1. e.type # "completed" /\ e.type # "failed"
  BY DEF Terminals
<1>2. Counts(OpenAIEvent(s, e), errors, used)
  <2>1. /\ Counts(OpenAICallStart(s, e), errors, used)
        /\ Counts(OpenAICallDelta(s, e), errors, used)
    BY DEF Counts, OpenAICallStart, OpenAICallDelta
  <2>2. Counts(OpenAICallDone(s, e), errors, used)
    BY DEF Counts, OpenAICallDone
  <2>3. Counts(OpenAIReasoning(s), errors, used) /\ Counts(OpenAIText(s), errors, used)
    BY DEF Counts, OpenAIReasoning, OpenAIText
  <2> QED  BY <1>1, <2>1, <2>2, <2>3 DEF OpenAIEvent
<1>3. Counts(AnthropicEvent(s, e), errors, used)
  <2>1. Counts(AnthropicCallStart(s, e), errors, used)
    <3> DEFINE c == CloseTextIfOpen(CloseThinkingIfOpen(s))
               b == StartBlock(c, "call", e.call)
    <3>1. Counts(b, errors, used)
      BY CountsBlocks
    <3>2. AnthropicCallStart(s, e) = [b EXCEPT !.calls = TRUE, !.hasContent = TRUE]
      BY DEF AnthropicCallStart
    <3> HIDE DEF b
    <3> QED  BY <3>1, <3>2 DEF Counts
  <2>2. Counts(AnthropicCallDelta(s, e), errors, used)
    <3> DEFINE b == BlockDelta(s, "call", 1)
    <3>1. Counts(b, errors, used)
      BY CountsBlocks
    <3>2. AnthropicCallDelta(s, e) = [b EXCEPT !.withDeltas = @ \cup {e.call}]
      BY DEF AnthropicCallDelta
    <3> HIDE DEF b
    <3> QED  BY <3>1, <3>2 DEF Counts
  <2>3. Counts(AnthropicCallDone(s, e), errors, used)
    BY CountsBlocks DEF AnthropicCallDone
  <2>4. Counts(AnthropicReasoning(s), errors, used)
    <3> DEFINE c == CloseTextIfOpen(s)
               b == StartBlock(c, "reasoning", 0)
               o == IF c.thinkingBlock THEN c ELSE [b EXCEPT !.thinkingBlock = TRUE]
               d == BlockDelta(o, "reasoning", 1)
    <3>1. Counts(c, errors, used)
      BY CountsBlocks
    <3>2. Counts(b, errors, used)
      BY <3>1, CountsBlocks
    <3>3. AnthropicReasoning(s) = IF wants.reasoning THEN [d EXCEPT !.hasContent = TRUE] ELSE s
      BY DEF AnthropicReasoning
    <3> HIDE DEF c, b, d
    <3>4. Counts(o, errors, used)
      BY <3>1, <3>2 DEF Counts
    <3> HIDE DEF o
    <3>5. Counts(d, errors, used)
      BY <3>4, CountsBlocks DEF d
    <3> QED  BY <3>3, <3>5 DEF Counts
  <2>5. Counts(AnthropicText(s), errors, used)
    <3> DEFINE b == BlockDelta(EnsureTextBlock(CloseThinkingIfOpen(s)), "text", 1)
    <3>1. Counts(b, errors, used)
      <4>1. Counts(EnsureTextBlock(CloseThinkingIfOpen(s)), errors, used)
        BY CountsBlocks
      <4> QED  BY <4>1, CountsBlocks
    <3>2. AnthropicText(s) = [b EXCEPT !.hasContent = TRUE]
      BY DEF AnthropicText
    <3> HIDE DEF b
    <3> QED  BY <3>1, <3>2 DEF Counts
  <2> QED  BY <1>1, <2>1, <2>2, <2>3, <2>4, <2>5 DEF AnthropicEvent
<1>4. Counts(GeminiEvent(s, e), errors, used)
  <2>1. Counts(GeminiCallDone(s, e), errors, used) /\ Counts(GeminiText(s), errors, used)
    BY DEF Counts, GeminiCallDone, GeminiText
  <2> QED  BY <1>1, <2>1 DEF GeminiEvent
<1> QED  BY <1>2, <1>3, <1>4

\* A terminal event is an error and brings a usage at most once.
LEMMA TerminalCounts ==
    ASSUME NEW s, NEW e, e.type \in Terminals, e.usage \in BOOLEAN, Counts(s, 0, 0)
    PROVE  /\ Counts(OpenAIEvent(s, e), 1, 1)
           /\ Counts(AnthropicEvent(s, e), 1, 1)
           /\ Counts(GeminiEvent(s, e), 1, 1)
<1>0. Counts(s, 1, 1) /\ s.errors = 0 /\ s.used = 0
  BY DEF Counts
<1>1. CASE e.type = "completed"
  <2>1. OpenAIEvent(s, e) = OpenAICompleted(s, e) /\ GeminiEvent(s, e) = GeminiCompleted(s, e)
        /\ AnthropicEvent(s, e) = AnthropicCompleted(s, e)
    BY <1>1 DEF OpenAIEvent, GeminiEvent, AnthropicEvent
  <2>2. /\ (IF e.usage THEN 1 ELSE 0) \in 0 .. 1
        /\ (IF HasContent(s) THEN 0 ELSE 1) \in 0 .. 1
    OBVIOUS
  <2> DEFINE x == IF e.usage THEN 1 ELSE 0
             y == IF HasContent(s) THEN 0 ELSE 1
  <2>3. 0 + x \in 0 .. 1 /\ 0 + y \in 0 .. 1
    BY <2>2
  <2>4. Counts(OpenAICompleted(s, e), 1, 1)
    <3> DEFINE z == IF s.calls # <<>> THEN "tool_calls" ELSE "stop"
    <3>1. OpenAICompleted(s, e) = [s EXCEPT !.text = @ + s.buffer, !.buffer = 0,
              !.used = @ + x, !.errors = @ + y, !.finish = z]
      BY DEF OpenAICompleted
    <3> HIDE DEF x, y, z
    <3> QED  BY <1>0, <2>3, <3>1 DEF Counts
  <2>5. Counts(GeminiCompleted(s, e), 1, 1)
    <3>1. GeminiCompleted(s, e) = [s EXCEPT !.text = @ + s.buffer, !.buffer = 0,
              !.used = @ + x, !.errors = @ + y, !.finish = "STOP"]
      BY DEF GeminiCompleted
    <3> HIDE DEF x, y
    <3> QED  BY <1>0, <2>3, <3>1 DEF Counts
  <2>6. Counts(AnthropicCompleted(s, e), 1, 1)
    <3> DEFINE used == [s EXCEPT !.used = @ + x]
               b == BlockDelta(EnsureTextBlock(used), "text", 0)
    <3>1. AnthropicCompleted(s, e) = IF s.hasContent THEN used ELSE [b EXCEPT !.errors = @ + 1]
      BY DEF AnthropicCompleted
    <3> HIDE DEF x
    <3>2. Counts(used, 0, 1)
      BY <1>0, <2>3 DEF Counts
    <3> HIDE DEF used
    <3>3. Counts(EnsureTextBlock(used), 0, 1)
      BY <3>2, CountsBlocks
    <3>4. Counts(b, 0, 1)
      BY <3>3, CountsBlocks
    <3> HIDE DEF b
    <3>5. Counts([b EXCEPT !.errors = @ + 1], 1, 1)
      BY <3>4 DEF Counts
    <3>6. Counts(used, 1, 1)
      BY <3>2, CountsMore
    <3> QED  BY <3>1, <3>5, <3>6
  <2> QED  BY <2>1, <2>4, <2>5, <2>6
<1>2. CASE e.type = "failed"
  <2>1. OpenAIEvent(s, e) = OpenAIFailed(s) /\ GeminiEvent(s, e) = GeminiFailed(s)
        /\ AnthropicEvent(s, e) = AnthropicFailed(s)
    BY <1>2 DEF OpenAIEvent, GeminiEvent, AnthropicEvent
  <2>2. Counts(OpenAIFailed(s), 1, 1) /\ Counts(GeminiFailed(s), 1, 1)
    BY <1>0 DEF Counts, OpenAIFailed, GeminiFailed
  <2>3. Counts(AnthropicFailed(s), 1, 1)
    <3> DEFINE o == EnsureTextBlock(CloseThinkingIfOpen(s))
               b == CloseTextIfOpen(BlockDelta(o, "text", 0))
    <3>1. Counts(o, 0, 0)
      BY CountsBlocks
    <3>2. Counts(b, 0, 0)
      BY <3>1, CountsBlocks
    <3>3. AnthropicFailed(s) = [b EXCEPT !.errors = @ + 1, !.ended = "message_stop", !.over = TRUE]
      BY DEF AnthropicFailed
    <3> HIDE DEF b
    <3> QED  BY <3>2, <3>3 DEF Counts
  <2> QED  BY <2>1, <2>2, <2>3
<1>3. CASE e.type = "incomplete"
  <2>1. OpenAIEvent(s, e) = s /\ GeminiEvent(s, e) = s /\ AnthropicEvent(s, e) = s
    BY <1>3 DEF OpenAIEvent, GeminiEvent, AnthropicEvent
  <2> QED  BY <1>0, <2>1
<1> QED  BY <1>1, <1>2, <1>3 DEF Terminals

\* The end is no error, unless the body breaks.
LEMMA EndCounts ==
    ASSUME NEW s, Counts(s, 1, 1)
    PROVE  /\ Counts(OpenAIEnd(s), 1, 1) /\ Counts(AnthropicEnd(s), 1, 1)
           /\ Counts(GeminiEnd(s), 1, 1) /\ Counts(Interrupted(s), 2, 1)
<1>1. Counts(OpenAIEnd(s), 1, 1) /\ Counts(GeminiEnd(s), 1, 1)
  BY DEF Counts, OpenAIEnd, GeminiEnd
<1>2. Counts(AnthropicEnd(s), 1, 1)
  <2> DEFINE b == CloseTextIfOpen(CloseThinkingIfOpen(s))
             z == IF s.calls THEN "tool_use" ELSE "end_turn"
  <2>1. Counts(b, 1, 1)
    BY CountsBlocks
  <2>2. AnthropicEnd(s) = [b EXCEPT !.finish = z, !.ended = "message_stop", !.over = TRUE]
    BY DEF AnthropicEnd
  <2> HIDE DEF b, z
  <2> QED  BY <2>1, <2>2 DEF Counts
<1>3. Counts(Interrupted(s), 2, 1)
  <2> DEFINE t == [s EXCEPT !.errors = @ + 1, !.over = TRUE]
  <2>1. Counts(t, 2, 1)
    BY DEF Counts
  <2> HIDE DEF t
  <2>2. Interrupted(s) = IF client /\ ~s.over THEN t ELSE s
    BY DEF Interrupted, t
  <2>3. Counts(s, 2, 1)
    BY CountsMore
  <2> QED  BY <2>1, <2>2, <2>3
<1> QED  BY <1>1, <1>2, <1>3

\* What has been told to each stream, before the terminal event, after it, and at the end.
CountsInv ==
    /\ wants \in [reasoning : BOOLEAN, tuple : BOOLEAN]
    /\ terminal \in Terminals \cup {None} /\ ended \in {"open", "closed", "broken"}
    /\ client \in BOOLEAN
    /\ \A s \in {openai, anthropic, gemini} :
          /\ Counts(s, 2, 1)
          /\ ended = "open" => Counts(s, 1, 1)
          /\ ended = "open" /\ terminal = None => Counts(s, 0, 0)
    /\ "outcome" \in DOMAIN collected
    /\ collected.outcome \in {None, "response", "empty", "error"}

LEMMA CountsStart == TranslationInit => CountsInv
<1> SUFFICES ASSUME TranslationInit PROVE CountsInv
  OBVIOUS
<1>1. \A s \in {openai, anthropic, gemini} : Counts(s, 0, 0)
  <2>1. Counts(OpenAIStart, 0, 0)
    BY DEF OpenAIStart, Counts
  <2>2. Counts(AnthropicStart, 0, 0)
    BY DEF AnthropicStart, Counts
  <2>3. Counts(GeminiStart, 0, 0)
    BY DEF GeminiStart, Counts
  <2> QED  BY <2>1, <2>2, <2>3 DEF TranslationInit
<1>2. \A s \in {openai, anthropic, gemini} : Counts(s, 1, 1) /\ Counts(s, 2, 1)
  BY <1>1, CountsMore
<1> QED  BY <1>1, <1>2 DEF TranslationInit, CountsInv, CollectorStart

\* What the streams make of an event.
LEMMA EmitCounts ==
    ASSUME CountsInv, terminal = None, NEW e, Emit(e),
           \/ e.type \notin Terminals /\ UNCHANGED terminal
           \/ e.type \in Terminals /\ e.usage \in BOOLEAN /\ terminal' = e.type
    PROVE  CountsInv'
<1>1. ended = "open" /\ ended' = "open" /\ wants' = wants /\ client' = client
  BY DEF Emit
<1>2. terminal' \in Terminals \cup {None}
  BY DEF CountsInv
<1>3. Counts(openai, 0, 0) /\ Counts(anthropic, 0, 0) /\ Counts(gemini, 0, 0)
  BY <1>1 DEF CountsInv
<1>4. \A s \in {openai', anthropic', gemini'} :
         Counts(s, 1, 1) /\ (e.type \notin Terminals => Counts(s, 0, 0))
  <2>1. \A s : Counts(s, 0, 0) => Counts(s, 1, 1)
    BY CountsMore
  <2>2. CASE e.type \notin Terminals
    <3>1. /\ Counts(OpenAIEvent(openai, e), 0, 0)
          /\ Counts(AnthropicEvent(anthropic, e), 0, 0)
          /\ Counts(GeminiEvent(gemini, e), 0, 0)
      BY <1>3, <2>2, EventCounts
    <3>2. Counts(openai', 0, 0) /\ Counts(anthropic', 0, 0) /\ Counts(gemini', 0, 0)
      BY <1>3, <3>1 DEF Emit
    <3> QED  BY <2>1, <3>2
  <2>3. CASE e.type \in Terminals
    <3>1. /\ Counts(OpenAIEvent(openai, e), 1, 1)
          /\ Counts(AnthropicEvent(anthropic, e), 1, 1)
          /\ Counts(GeminiEvent(gemini, e), 1, 1)
      <4>1. e.usage \in BOOLEAN
        BY <2>3
      <4> QED  BY <1>3, <2>3, <4>1, TerminalCounts
    <3>2. Counts(openai', 1, 1) /\ Counts(anthropic', 1, 1) /\ Counts(gemini', 1, 1)
      BY <1>3, <2>1, <3>1 DEF Emit
    <3> QED  BY <2>3, <3>2
  <2> QED  BY <2>2, <2>3
<1>5. \A s \in {openai', anthropic', gemini'} : Counts(s, 2, 1)
  BY <1>4, CountsMore
<1>6. terminal' = None => e.type \notin Terminals
  BY DEF Terminals, None
<1>7. /\ "outcome" \in DOMAIN collected'
      /\ collected'.outcome \in {None, "response", "empty", "error"}
  <2>1. "outcome" \in DOMAIN collected /\ collected.outcome \in {None, "response", "empty", "error"}
    BY DEF CountsInv
  <2>2. /\ "outcome" \in DOMAIN CollectEvent(collected, e)
        /\ CollectEvent(collected, e).outcome \in {None, "response", "empty", "error"}
    BY <2>1 DEF CollectEvent
  <2> QED  BY <2>1, <2>2 DEF Emit
<1> QED  BY <1>1, <1>2, <1>4, <1>5, <1>6, <1>7 DEF CountsInv

LEMMA CountsStep == CountsInv /\ [TranslationNext]_translationVars => CountsInv'
<1> SUFFICES ASSUME CountsInv, [TranslationNext]_translationVars PROVE CountsInv'
  OBVIOUS
<1>1. ASSUME NEW kind \in {"text", "reasoning"}, TextDelta(kind) PROVE CountsInv'
  <2>1. [type |-> kind].type \notin Terminals
    BY DEF Terminals
  <2> QED  BY <1>1, <2>1, EmitCounts DEF TextDelta
<1>2. CASE CallAdded
  <2> DEFINE e == [type |-> "callAdded", call |-> Len(items) + 1]
  <2>1. e.type \notin Terminals
    BY DEF Terminals
  <2>2. terminal = None /\ Emit(e) /\ UNCHANGED terminal
    BY <1>2 DEF CallAdded
  <2> HIDE DEF e
  <2> QED  BY <2>1, <2>2, EmitCounts
<1>3. CASE ArgumentsDelta
  <2> DEFINE e == [type |-> "argumentsDelta", call |-> Item.call]
  <2>1. e.type \notin Terminals
    BY DEF Terminals
  <2>2. terminal = None /\ Emit(e) /\ UNCHANGED terminal
    BY <1>3 DEF ArgumentsDelta
  <2> HIDE DEF e
  <2> QED  BY <2>1, <2>2, EmitCounts
<1>4. CASE ArgumentsDone
  <2>1. PICK n, p : Emit([type |-> "argumentsDone", call |-> Item.call, n |-> n, parsed |-> p])
    BY <1>4 DEF ArgumentsDone
  <2> DEFINE e == [type |-> "argumentsDone", call |-> Item.call, n |-> n, parsed |-> p]
  <2>2. e.type \notin Terminals
    BY DEF Terminals
  <2>3. terminal = None /\ Emit(e) /\ UNCHANGED terminal
    BY <1>4, <2>1 DEF ArgumentsDone
  <2> HIDE DEF e
  <2> QED  BY <2>2, <2>3, EmitCounts
<1>5. ASSUME NEW type \in Terminals, NEW usage \in BOOLEAN, Terminal(type, usage) PROVE CountsInv'
  <2> DEFINE e == [type |-> type, usage |-> usage]
  <2>1. e.type \in Terminals /\ e.usage \in BOOLEAN /\ terminal = None /\ Emit(e)
        /\ terminal' = e.type
    BY <1>5 DEF Terminal
  <2> HIDE DEF e
  <2> QED  BY <2>1, EmitCounts
<1>6. CASE OtherEvent
  <2> DEFINE e == [type |-> "unknown"]
  <2>1. e.type \notin Terminals
    BY DEF Terminals
  <2>2. terminal = None /\ Emit(e) /\ UNCHANGED terminal
    BY <1>6 DEF OtherEvent
  <2> HIDE DEF e
  <2> QED  BY <2>1, <2>2, EmitCounts
<1>7. CASE BodyEnds
  <2>1. ended = "open" /\ ended' = "closed" /\ wants' = wants /\ client' = client
        /\ terminal' = terminal
    BY <1>7 DEF BodyEnds, upstreamVars
  <2>2. Counts(openai, 1, 1) /\ Counts(anthropic, 1, 1) /\ Counts(gemini, 1, 1)
    BY <2>1 DEF CountsInv
  <2>3. /\ Counts(OpenAIEnd(openai), 1, 1) /\ Counts(AnthropicEnd(anthropic), 1, 1)
        /\ Counts(GeminiEnd(gemini), 1, 1)
    BY <2>2, EndCounts
  <2>4. Counts(openai', 1, 1) /\ Counts(anthropic', 1, 1) /\ Counts(gemini', 1, 1)
    BY <1>7, <2>2, <2>3 DEF BodyEnds
  <2>5. \A s \in {openai', anthropic', gemini'} : Counts(s, 2, 1)
    BY <2>4, CountsMore
  <2>6. /\ "outcome" \in DOMAIN collected'
        /\ collected'.outcome \in {None, "response", "empty", "error"}
    BY <1>7 DEF CountsInv, BodyEnds, CollectEnd
  <2> QED  BY <2>1, <2>5, <2>6 DEF CountsInv
<1>8. CASE BodyBreaks
  <2>1. ended = "open" /\ ended' = "broken" /\ wants' = wants /\ client' = client
        /\ terminal' = terminal
    BY <1>8 DEF BodyBreaks, upstreamVars
  <2>2. Counts(openai, 1, 1) /\ Counts(anthropic, 1, 1) /\ Counts(gemini, 1, 1)
    BY <2>1 DEF CountsInv
  <2>3. Counts(openai', 2, 1) /\ Counts(anthropic', 2, 1) /\ Counts(gemini', 2, 1)
    BY <1>8, <2>2, EndCounts DEF BodyBreaks
  <2>4. /\ "outcome" \in DOMAIN collected'
        /\ collected'.outcome \in {None, "response", "empty", "error"}
    BY <1>8 DEF CountsInv, BodyBreaks
  <2> QED  BY <2>1, <2>3, <2>4 DEF CountsInv
<1>9. CASE ClientGone \/ UNCHANGED translationVars
  <2>1. /\ wants' = wants /\ terminal' = terminal /\ ended' = ended /\ client' \in BOOLEAN
        /\ openai' = openai /\ anthropic' = anthropic /\ gemini' = gemini
        /\ collected' = collected
    BY <1>9 DEF ClientGone, translationVars, upstreamVars, streamVars, CountsInv
  <2> QED  BY <2>1 DEF CountsInv
<1> QED
  BY <1>1, <1>2, <1>3, <1>4, <1>5, <1>6, <1>7, <1>8, <1>9 DEF TranslationNext

\* No stream is told of an error more than twice, of the usage more than once
\* (src/translation/codex-to-*.ts).
THEOREM TranslationTypes == TranslationSpec => []TranslationTypeOK
<1>1. CountsInv => TranslationTypeOK
  BY DEF CountsInv, Counts, TranslationTypeOK
<1> QED  BY CountsStart, CountsStep, <1>1, PTL DEF TranslationSpec

\* What TranslationAnswers says of the translations and PassAnswers of what is passed on, of
\* a behaviour of both; arguments that are no JSON do not reach every client (ArgumentsArrive).
THEOREM AnswersTheorem == TranslationSpec /\ PassSpec => []AnswersKept
BY TranslationTypes, TranslationAnswers, PassAnswers, PTL DEF AnswersKept

-----------------------------------------------------------------------------
(* Lists of lists, end to end *)

\* The first of several numbers.
LEMMA FirstOf ==
    ASSUME NEW T, T \subseteq Nat, T # {}
    PROVE  \E k \in T : \A j \in T : k <= j
<1> DEFINE R == {p \in Nat \X Nat : p[1] < p[2]}
<1>1. OpToRel(<, Nat) = R
  BY Zenon DEF OpToRel
<1> HIDE DEF R
<1>2. IsWellFoundedOn(R, Nat)
  BY <1>1, NatLessThanWellFounded
<1>3. PICK k \in T : \A j \in T : ~ (<<j, k>> \in R)
  BY <1>2, WFMin
<1>4. ASSUME NEW j \in T PROVE k <= j
  <2>1. j \in Nat /\ k \in Nat /\ <<j, k>>[1] = j /\ <<j, k>>[2] = k
    OBVIOUS
  <2>2. ~ (j < k)
    BY <1>3, <2>1 DEF R
  <2>3. QED
    BY <2>1, <2>2
<1>5. QED
  BY <1>4

\* The first n of the lists in s, put end to end one after the other.
Flattens(F, s, n) == F = [i \in 1 .. n |-> IF i = 1 THEN s[i] ELSE F[i - 1] \o s[i]]

AgreeUpTo(F, G, m) == \A i \in 1 .. m : F[i] = G[i]

\* What has been put together of two lists of lists is the same as far as they are.
LEMMA FlattensAgree ==
    ASSUME NEW s, NEW t, NEW m \in Nat, NEW n \in Nat, m <= n, NEW F, NEW G,
           Flattens(F, s, m), Flattens(G, t, n), AgreeUpTo(s, t, m)
    PROVE  AgreeUpTo(F, G, m)
<1> USE DEF AgreeUpTo
<1> DEFINE Bad == {i \in 1 .. m : F[i] # G[i]}
<1>1. SUFFICES ASSUME Bad # {} PROVE FALSE
  OBVIOUS
<1>2. PICK k \in Bad : \A j \in Bad : k <= j
  <2>1. Bad \subseteq Nat
    OBVIOUS
  <2> HIDE DEF Bad
  <2> QED  BY <1>1, <2>1, FirstOf
<1>3. /\ F[k] = IF k = 1 THEN s[k] ELSE F[k - 1] \o s[k]
      /\ G[k] = IF k = 1 THEN t[k] ELSE G[k - 1] \o t[k]
  <2>1. k \in 1 .. m /\ k \in 1 .. n
    OBVIOUS
  <2>2. QED
    BY <2>1, Zenon DEF Flattens
<1>4. k # 1 => k - 1 \in 1 .. m /\ k - 1 \notin Bad
  BY <1>2
<1> QED  BY <1>2, <1>3, <1>4

\* Any lists can be put end to end.
LEMMA FlattensExists ==
    ASSUME NEW S, NEW s \in Seq(Seq(S)), NEW n \in 1 .. Len(s)
    PROVE  \E F \in [1 .. n -> Seq(S)] : Flattens(F, s, n)
<1> DEFINE Bad == {m \in 1 .. Len(s) : ~ \E F \in [1 .. m -> Seq(S)] : Flattens(F, s, m)}
<1>1. SUFFICES ASSUME Bad # {} PROVE FALSE
  OBVIOUS
<1>2. PICK k \in Bad : \A j \in Bad : k <= j
  <2>1. Bad \subseteq Nat
    OBVIOUS
  <2> HIDE DEF Bad
  <2> QED  BY <1>1, <2>1, FirstOf
<1>3. s[k] \in Seq(S) /\ k \in 1 .. Len(s)
  BY ElementOfSeq
<1>4. CASE k = 1
  <2> DEFINE F == [i \in 1 .. 1 |-> s[1]]
  <2>1. F \in [1 .. k -> Seq(S)] /\ Flattens(F, s, k)
    BY <1>3, <1>4 DEF Flattens
  <2> QED  BY <2>1
<1>5. CASE k # 1
  <2>1. k - 1 \in 1 .. Len(s) /\ k - 1 \notin Bad
    <3>1. Len(s) \in Nat
      BY LenProperties
    <3>2. k - 1 \in 1 .. Len(s) /\ ~ (k <= k - 1)
      BY <3>1, <1>3, <1>5
    <3> HIDE DEF Bad
    <3> QED  BY <3>2, <1>2
  <2>2. PICK E \in [1 .. k - 1 -> Seq(S)] : Flattens(E, s, k - 1)
    BY <2>1
  <2> DEFINE F == [i \in 1 .. k |-> IF i = k THEN E[k - 1] \o s[k] ELSE E[i]]
  <2>3. E[k - 1] \o s[k] \in Seq(S)
    BY <1>3, <2>1, <2>2, ConcatProperties
  <2>4. F \in [1 .. k -> Seq(S)]
    BY <1>3, <2>2, <2>3
  <2>5. ASSUME NEW i \in 1 .. k PROVE F[i] = IF i = 1 THEN s[i] ELSE F[i - 1] \o s[i]
    <3>0. k \in Nat
      BY <1>3
    <3>1. CASE i = k
      <4>1. k - 1 \in 1 .. k /\ k - 1 # k /\ k \in 1 .. k
        BY <3>0, <1>3, <1>5
      <4>2. F[k - 1] = E[k - 1] /\ F[k] = E[k - 1] \o s[k]
        BY <4>1
      <4> QED  BY <3>1, <4>2, <1>5
    <3>2. CASE i # k
      <4>1. i \in 1 .. k - 1 /\ (i # 1 => i - 1 \in 1 .. k - 1 /\ i - 1 # k)
        BY <3>0, <3>2
      <4>2. E[i] = IF i = 1 THEN s[i] ELSE E[i - 1] \o s[i]
        BY <4>1, <2>2, Zenon DEF Flattens
      <4>3. /\ F[i] = E[i]
            /\ i # 1 => F[i - 1] = E[i - 1]
        <5>1. i # 1 => i - 1 \in 1 .. k
          BY <3>0, <4>1
        <5> QED  BY <5>1, <4>1, <3>2
      <4> HIDE DEF F
      <4> QED  BY <4>2, <4>3
    <3> QED  BY <3>1, <3>2
  <2>6. Flattens(F, s, k)
    BY <2>4, <2>5 DEF Flattens
  <2> QED  BY <2>4, <2>6
<1> QED  BY <1>4, <1>5

\* The last of what has been put together is all of it.
LEMMA FlattenLast ==
    ASSUME NEW S, NEW s \in Seq(Seq(S)), s # <<>>
    PROVE  \E F \in [1 .. Len(s) -> Seq(S)] : Flattens(F, s, Len(s)) /\ FlattenSeq(s) = F[Len(s)]
<1>1. Len(s) \in Nat /\ Len(s) # 0 /\ Len(s) \in 1 .. Len(s)
  BY EmptySeq, LenProperties
<1>2. PICK F \in [1 .. Len(s) -> Seq(S)] : Flattens(F, s, Len(s))
  BY <1>1, FlattensExists
<1> DEFINE G == CHOOSE G : G = [i \in 1 .. Len(s) |-> IF i = 1 THEN s[i] ELSE G[i - 1] \o s[i]]
<1>3. FlattenSeq(s) = G[Len(s)]
  BY <1>1 DEF FlattenSeq
<1>4. Flattens(G, s, Len(s))
  BY <1>2, Zenon DEF Flattens
<1>5. F[Len(s)] = G[Len(s)]
  <2>1. AgreeUpTo(s, s, Len(s)) /\ Len(s) <= Len(s)
    BY <1>1 DEF AgreeUpTo
  <2>2. AgreeUpTo(F, G, Len(s))
    BY <1>1, <1>2, <1>4, <2>1, FlattensAgree, Zenon
  <2> QED  BY <1>1, <2>2, Zenon DEF AgreeUpTo
<1> QED  BY <1>2, <1>3, <1>5

\* One list more is put at the end.
LEMMA FlattenAppended ==
    ASSUME NEW S, NEW s \in Seq(Seq(S)), NEW t \in Seq(S)
    PROVE  /\ FlattenSeq(s) \in Seq(S) /\ FlattenSeq(Append(s, t)) = FlattenSeq(s) \o t
           /\ FlattenSeq(<<>>) = <<>>
<1> DEFINE u == Append(s, t)
<1>0. FlattenSeq(<<>>) = <<>>
  BY EmptySeq DEF FlattenSeq
<1>1. /\ u \in Seq(Seq(S)) /\ u # <<>> /\ Len(u) = Len(s) + 1 /\ Len(s) \in Nat
      /\ \A i \in 1 .. Len(s) : u[i] = s[i]
      /\ u[Len(u)] = t
  BY AppendProperties, LenProperties
<1> HIDE DEF u
<1>2. PICK F \in [1 .. Len(u) -> Seq(S)] : Flattens(F, u, Len(u)) /\ FlattenSeq(u) = F[Len(u)]
  BY <1>1, FlattenLast
<1>3. F[Len(u)] = IF Len(u) = 1 THEN u[Len(u)] ELSE F[Len(u) - 1] \o u[Len(u)]
  <2>1. Len(u) \in 1 .. Len(u)
    BY <1>1
  <2> QED  BY <2>1, <1>2, Zenon DEF Flattens
<1>4. CASE s = <<>>
  <2>1. Len(u) = 1
    BY <1>1, <1>4, EmptySeq
  <2>2. <<>> \o t = t /\ <<>> \in Seq(S)
    BY ConcatEmptySeq, EmptySeq
  <2> QED  BY <1>0, <1>1, <1>2, <1>3, <1>4, <2>1, <2>2 DEF u
<1>5. CASE s # <<>>
  <2>1. Len(s) # 0 /\ Len(s) \in 1 .. Len(s) /\ Len(u) # 1 /\ Len(u) - 1 = Len(s)
    BY <1>1, <1>5, EmptySeq
  <2>2. PICK E \in [1 .. Len(s) -> Seq(S)] : Flattens(E, s, Len(s)) /\ FlattenSeq(s) = E[Len(s)]
    BY <1>5, FlattenLast
  <2>3. E[Len(s)] = F[Len(s)]
    <3>1. Len(s) <= Len(u) /\ Len(u) \in Nat
      BY <1>1
    <3>2. AgreeUpTo(s, u, Len(s))
      BY <1>1 DEF AgreeUpTo
    <3>3. Flattens(E, s, Len(s)) /\ Flattens(F, u, Len(u)) /\ Len(s) \in Nat
      BY <1>1, <1>2, <2>2
    <3>4. AgreeUpTo(E, F, Len(s))
      BY <3>1, <3>2, <3>3, FlattensAgree, Zenon
    <3> QED  BY <2>1, <3>4 DEF AgreeUpTo
  <2>4. FlattenSeq(u) = FlattenSeq(s) \o t
    BY <1>1, <1>2, <1>3, <2>1, <2>2, <2>3
  <2>5. FlattenSeq(s) \in Seq(S)
    BY <2>1, <2>2
  <2> QED  BY <1>0, <2>4, <2>5 DEF u
<1> QED  BY <1>4, <1>5

-----------------------------------------------------------------------------
(* The items of one turn *)

CallMade == [id : Nat \X Nat, tool : Tool, shown : BOOLEAN, named : BOOLEAN]

TurnRecord ==
    [by : {"user", "model", "results"}, text : BOOLEAN, image : BOOLEAN,
     calls : Seq(CallMade), results : Seq(CallMade)]

ItemId == ({"id"} \X (Nat \X Nat)) \cup ({"fc"} \X (Tool \cup Nat)) \cup {Unknown}

InputItem ==
    [kind : {"message"}, role : {"user", "assistant"}, turn : Nat, text : BOOLEAN,
     image : BOOLEAN]
    \cup [kind : {"call"}, id : ItemId, real : Nat \X Nat, tool : Tool]
    \cup [kind : {"output"}, id : ItemId, real : Nat \X Nat, place : Nat]

\* What the client says, what the model answers, what the client returns, as turn n.
UserTurn(t) == t.by = "user" /\ t.calls = <<>> /\ t.results = <<>> /\ (t.text \/ t.image)

ModelTurn(n, t) ==
    /\ t.by = "model" /\ t.results = <<>> /\ t.image = FALSE /\ Len(t.calls) \in 0 .. 2
    /\ t.text \/ t.calls # <<>>
    /\ \A i \in DOMAIN t.calls : t.calls[i].id = <<n, i>> /\ t.calls[i].named

ResultsTurn(n, t) ==
    /\ t.by = "results" /\ t.calls = <<>> /\ t.image = FALSE /\ Len(t.results) \in 1 .. 2
    /\ \A i \in DOMAIN t.results : t.results[i].id[1] = n - 1
    /\ \A i, j \in DOMAIN t.results : t.results[i].id = t.results[j].id => i = j

\* The calls or the results of a turn, and the item for the i-th of them.
ListOf(t) == IF t.by = "results" THEN t.results ELSE t.calls

IdOf(d, i, c) ==
    CASE d = "openai" -> OpenAIId(c)
      [] d = "functions" -> FunctionId(c)
      [] d = "anthropic" -> <<"id", c.id>>
      [] d = "gemini" -> <<"fc", i - 1>>

ItemOf(d, t, i) ==
    IF t.by = "results" THEN Output(IdOf(d, i, ListOf(t)[i]), ListOf(t)[i], i)
    ELSE Call(IdOf(d, i, ListOf(t)[i]), ListOf(t)[i])

\* An image of turn n.
ShownAt(B, p, n) == p \in DOMAIN B /\ B[p] = Message("user", n, FALSE, TRUE)

\* How the items B of turn n, which is t, are laid out: the message at m, or none, the
\* calls or results where at says, and images behind results.
Laid(d, B, n, t, m, at) ==
    /\ B \in Seq(InputItem) /\ B # <<>>
    /\ at \in [DOMAIN ListOf(t) -> DOMAIN B]
    /\ \A i, j \in DOMAIN ListOf(t) : i < j => at[i] < at[j]
    /\ \A i \in DOMAIN ListOf(t) : B[at[i]] = ItemOf(d, t, i)
    /\ m # 0 => m \in DOMAIN B /\ B[m] = Message(Role(t), n, t.text, t.image)
    /\ m = 0 => ~t.text /\ t.by # "user"
    /\ \A p \in DOMAIN B :
          \/ p = m
          \/ \E i \in DOMAIN ListOf(t) : p = at[i]
          \/ /\ d = "anthropic" /\ t.by = "results" /\ ShownAt(B, p, n)
             /\ \E i \in DOMAIN ListOf(t) : p = at[i] + 1
    /\ d = "anthropic" /\ t.by = "results"
          => \A i \in DOMAIN ListOf(t) :
                /\ ListOf(t)[i].shown <=> ShownAt(B, at[i] + 1, n)
                /\ m < at[i]

\* Items of all kinds are told apart by their kind, and come from a turn.
LEMMA ItemKinds ==
    ASSUME NEW x \in InputItem
    PROVE  /\ x.kind \in {"message", "call", "output"}
           /\ x.kind = "message" =>
                 /\ x.turn \in Nat /\ x.text \in BOOLEAN /\ x.image \in BOOLEAN
                 /\ TurnOf(x) = x.turn
           /\ x.kind = "call" => x.real \in Nat \X Nat /\ x.id \in ItemId /\ TurnOf(x) = x.real[1]
           /\ x.kind = "output" =>
                 x.real \in Nat \X Nat /\ x.id \in ItemId /\ TurnOf(x) = x.real[1] + 1
           /\ TurnOf(x) \in Nat
<1>1. x \in [kind : {"message"}, role : {"user", "assistant"}, turn : Nat, text : BOOLEAN,
             image : BOOLEAN]
      => x.kind = "message" /\ x.turn \in Nat /\ x.text \in BOOLEAN /\ x.image \in BOOLEAN
  OBVIOUS
<1>2. x \in [kind : {"call"}, id : ItemId, real : Nat \X Nat, tool : Tool]
      => x.kind = "call" /\ x.real \in Nat \X Nat /\ x.id \in ItemId
  OBVIOUS
<1>3. x \in [kind : {"output"}, id : ItemId, real : Nat \X Nat, place : Nat]
      => x.kind = "output" /\ x.real \in Nat \X Nat /\ x.id \in ItemId
  OBVIOUS
<1>4. /\ x.kind = "message" => TurnOf(x) = x.turn
      /\ x.kind = "call" => TurnOf(x) = x.real[1]
      /\ x.kind = "output" => TurnOf(x) = x.real[1] + 1
  BY DEF TurnOf
<1>5. \A r \in Nat \X Nat : r[1] \in Nat /\ r[1] + 1 \in Nat
  OBVIOUS
<1> QED  BY <1>1, <1>2, <1>3, <1>4, <1>5 DEF InputItem

\* The items that are made, and what they are made of.
LEMMA MessageMade ==
    ASSUME NEW r \in {"user", "assistant"}, NEW n \in Nat, NEW text \in BOOLEAN,
           NEW image \in BOOLEAN
    PROVE  LET x == Message(r, n, text, image) IN
           /\ x \in InputItem /\ x.kind = "message" /\ x.turn = n /\ x.text = text
           /\ x.image = image /\ TurnOf(x) = n
<1> DEFINE x == Message(r, n, text, image)
<1>1. x \in InputItem /\ x.kind = "message" /\ x.turn = n /\ x.text = text /\ x.image = image
  BY DEF Message, InputItem
<1> HIDE DEF x
<1>2. TurnOf(x) = n
  BY <1>1, ItemKinds
<1> QED  BY <1>1, <1>2 DEF x

LEMMA CallItem ==
    ASSUME NEW id \in ItemId, NEW c \in CallMade
    PROVE  LET x == Call(id, c) IN
           /\ x \in InputItem /\ x.kind = "call" /\ x.id = id /\ x.real = c.id
           /\ TurnOf(x) = c.id[1]
<1> DEFINE x == Call(id, c)
<1>1. x \in InputItem /\ x.kind = "call" /\ x.id = id /\ x.real = c.id
  BY DEF Call, InputItem, CallMade
<1> HIDE DEF x
<1>2. TurnOf(x) = c.id[1]
  BY <1>1, ItemKinds
<1> QED  BY <1>1, <1>2 DEF x

LEMMA OutputItem ==
    ASSUME NEW id \in ItemId, NEW c \in CallMade, NEW i \in Nat
    PROVE  LET x == Output(id, c, i) IN
           /\ x \in InputItem /\ x.kind = "output" /\ x.id = id /\ x.real = c.id
           /\ x.place = i /\ TurnOf(x) = c.id[1] + 1
<1> DEFINE x == Output(id, c, i)
<1>1. x \in InputItem /\ x.kind = "output" /\ x.id = id /\ x.real = c.id /\ x.place = i
  BY DEF Output, InputItem, CallMade
<1> HIDE DEF x
<1>2. TurnOf(x) = c.id[1] + 1
  BY <1>1, ItemKinds
<1> QED  BY <1>1, <1>2 DEF x

\* A turn in the form of one of the three.
TurnIs(n, t) ==
    t \in TurnRecord /\ n \in Nat /\ (UserTurn(t) \/ ModelTurn(n, t) \/ ResultsTurn(n, t))

\* The calls and results of a turn, and the items that stand for them.
LEMMA ListItems ==
    ASSUME NEW d \in Dialects, NEW n, NEW t, TurnIs(n, t), NEW i \in DOMAIN ListOf(t)
    PROVE  /\ ListOf(t) \in Seq(CallMade) /\ DOMAIN ListOf(t) = 1 .. Len(ListOf(t))
           /\ Len(ListOf(t)) \in 0 .. 2 /\ t.by # "user"
           /\ ListOf(t)[i] \in CallMade /\ ItemOf(d, t, i) \in InputItem
           /\ IdOf(d, i, ListOf(t)[i]) \in ItemId
           /\ ItemOf(d, t, i).id = IdOf(d, i, ListOf(t)[i])
           /\ ItemOf(d, t, i).real = ListOf(t)[i].id
           /\ ItemOf(d, t, i).kind = (IF t.by = "results" THEN "output" ELSE "call")
           /\ t.by = "results" => ItemOf(d, t, i).place = i
           /\ t.by # "results" => ListOf(t)[i].named
           /\ TurnOf(ItemOf(d, t, i)) = n
<1> DEFINE c == ListOf(t)[i]
<1>1. ListOf(t) \in Seq(CallMade) /\ t.by \in {"user", "model", "results"}
  BY DEF ListOf, TurnIs, TurnRecord
<1>2. DOMAIN ListOf(t) = 1 .. Len(ListOf(t)) /\ Len(ListOf(t)) \in Nat
  BY <1>1, LenProperties
<1>3. c \in CallMade
  BY <1>1, <1>2, ElementOfSeq
<1>4. t.by # "user"
  BY <1>2, EmptySeq DEF UserTurn, ModelTurn, ResultsTurn, TurnIs, ListOf
<1>5. Len(ListOf(t)) \in 0 .. 2
  BY <1>1, <1>4 DEF UserTurn, ModelTurn, ResultsTurn, TurnIs, ListOf
<1>6. IdOf(d, i, c) \in ItemId
  BY <1>2, <1>3 DEF IdOf, ItemId, CallMade, Dialects, OpenAIId, FunctionId
<1>7. c.id \in Nat \X Nat /\ n \in Nat /\ i \in Nat
  BY <1>2, <1>3 DEF CallMade, TurnIs
<1>8. CASE t.by = "results"
  <2>1. c.id[1] + 1 = n
    <3>1. c.id[1] = n - 1
      BY <1>8 DEF ListOf, UserTurn, ModelTurn, ResultsTurn, TurnIs
    <3> QED  BY <1>7, <3>1
  <2> DEFINE x == Output(IdOf(d, i, c), c, i)
  <2>2. x \in InputItem /\ x.id = IdOf(d, i, c) /\ x.real = c.id /\ x.kind = "output"
        /\ x.place = i /\ TurnOf(x) = c.id[1] + 1
    BY <1>3, <1>6, <1>7, OutputItem
  <2>3. ItemOf(d, t, i) = x
    BY <1>8 DEF ItemOf
  <2> HIDE DEF x, c
  <2>4. /\ ItemOf(d, t, i) \in InputItem /\ ItemOf(d, t, i).id = IdOf(d, i, c)
        /\ ItemOf(d, t, i).real = c.id /\ ItemOf(d, t, i).kind = "output"
        /\ ItemOf(d, t, i).place = i
        /\ TurnOf(ItemOf(d, t, i)) = n
    BY <2>1, <2>2, <2>3
  <2> QED  BY <1>1, <1>2, <1>3, <1>4, <1>5, <1>6, <1>8, <2>4 DEF c
<1>9. CASE t.by = "model"
  <2>1. c.id[1] = n /\ c.named
    <3>1. c.id = <<n, i>> /\ c.named
      BY <1>9 DEF ListOf, UserTurn, ModelTurn, ResultsTurn, TurnIs
    <3> QED  BY <3>1
  <2> DEFINE x == Call(IdOf(d, i, c), c)
  <2>2. x \in InputItem /\ x.id = IdOf(d, i, c) /\ x.real = c.id /\ x.kind = "call"
        /\ TurnOf(x) = c.id[1]
    BY <1>3, <1>6, CallItem
  <2>3. ItemOf(d, t, i) = x
    BY <1>9 DEF ItemOf
  <2> HIDE DEF x, c
  <2>4. /\ ItemOf(d, t, i) \in InputItem /\ ItemOf(d, t, i).id = IdOf(d, i, c)
        /\ ItemOf(d, t, i).real = c.id /\ ItemOf(d, t, i).kind = "call"
        /\ TurnOf(ItemOf(d, t, i)) = n
    BY <2>1, <2>2, <2>3
  <2> QED  BY <1>1, <1>2, <1>3, <1>4, <1>5, <1>6, <1>9, <2>1, <2>4 DEF c
<1> QED  BY <1>1, <1>4, <1>8, <1>9

\* What is at each place of the items of a turn.
Placed(B, n, t, m, at) ==
    /\ DOMAIN B = 1 .. Len(B) /\ Len(B) \in Nat \ {0}
    /\ \A p \in DOMAIN B : B[p] \in InputItem /\ TurnOf(B[p]) = n
    /\ m # 0 => B[m].kind = "message" /\ B[m].text = t.text /\ B[m].image = t.image
    /\ \A i \in DOMAIN ListOf(t) :
          /\ B[at[i]].real = ListOf(t)[i].id
          /\ B[at[i]].kind = (IF t.by = "results" THEN "output" ELSE "call")
    /\ \A p : ShownAt(B, p, n) =>
          B[p].kind = "message" /\ B[p].text = FALSE /\ B[p].image = TRUE

LEMMA LaidPlaces ==
    ASSUME NEW d \in Dialects, NEW n, NEW t, TurnIs(n, t), NEW B, NEW m, NEW at,
           Laid(d, B, n, t, m, at)
    PROVE  Placed(B, n, t, m, at)
<1>1. DOMAIN B = 1 .. Len(B) /\ Len(B) \in Nat \ {0}
  BY LenProperties, EmptySeq DEF Laid
<1>2. \A p \in DOMAIN B : B[p] \in InputItem
  BY <1>1, ElementOfSeq DEF Laid
<1>3. /\ n \in Nat /\ t.text \in BOOLEAN /\ t.image \in BOOLEAN
      /\ Role(t) \in {"user", "assistant"}
  BY DEF TurnIs, TurnRecord, Role
<1>4. m # 0 => /\ B[m].kind = "message" /\ B[m].text = t.text /\ B[m].image = t.image
               /\ TurnOf(B[m]) = n
  BY <1>3, MessageMade DEF Laid
<1>5. ASSUME NEW i \in DOMAIN ListOf(t)
      PROVE  /\ B[at[i]].real = ListOf(t)[i].id /\ TurnOf(B[at[i]]) = n
             /\ B[at[i]].kind = (IF t.by = "results" THEN "output" ELSE "call")
  <2>1. B[at[i]] = ItemOf(d, t, i)
    BY DEF Laid
  <2> QED  BY <2>1, ListItems
<1>6. ASSUME NEW p, ShownAt(B, p, n)
      PROVE  B[p].kind = "message" /\ B[p].text = FALSE /\ B[p].image = TRUE /\ TurnOf(B[p]) = n
  <2>1. "user" \in {"user", "assistant"} /\ TRUE \in BOOLEAN /\ FALSE \in BOOLEAN
    OBVIOUS
  <2> DEFINE x == Message("user", n, FALSE, TRUE)
  <2>2. /\ x.kind = "message" /\ x.text = FALSE /\ x.image = TRUE /\ TurnOf(x) = n
    BY <1>3, <2>1, MessageMade
  <2> HIDE DEF x
  <2>3. B[p] = x
    BY <1>6 DEF ShownAt, x
  <2> QED  BY <2>2, <2>3
<1>7. ASSUME NEW p \in DOMAIN B PROVE TurnOf(B[p]) = n
  <2>1. p = m \/ (\E i \in DOMAIN ListOf(t) : p = at[i]) \/ ShownAt(B, p, n)
    BY DEF Laid
  <2>2. p # 0
    BY <1>1
  <2> QED  BY <1>4, <1>5, <1>6, <2>1, <2>2
<1> QED  BY <1>1, <1>2, <1>4, <1>5, <1>6, <1>7 DEF Placed

\* Of no calls and no results there is no item.
LEMMA NoneArranged ==
    ASSUME NEW I, NEW places, NEW list, list = <<>>, places = {}
    PROVE  Arranged(I, places, list)
<1> DEFINE place == [i \in {} |-> 0]
<1>1. DOMAIN list = {}
  OBVIOUS
<1>2. place \in [DOMAIN list -> places] /\ places = {place[i] : i \in DOMAIN list}
  BY <1>1
<1> QED  BY <1>1, <1>2 DEF Arranged

\* All of the turn is in its items, once.
LEMMA LaidKept ==
    ASSUME NEW d \in Dialects, NEW n, NEW t, TurnIs(n, t), NEW B, NEW m, NEW at,
           Laid(d, B, n, t, m, at)
    PROVE  TurnKept(d, B, n, t)
<1> DEFINE L == ListOf(t)
           messages == From(B, n, "message")
           images == {p \in messages : B[p].image}
           K == IF t.by = "results" THEN "output" ELSE "call"
           range == {at[i] : i \in DOMAIN L}
<1>1. /\ DOMAIN B = 1 .. Len(B) /\ Len(B) \in Nat \ {0}
      /\ \A p \in DOMAIN B : B[p] \in InputItem /\ TurnOf(B[p]) = n
      /\ m # 0 => B[m].kind = "message" /\ B[m].text = t.text /\ B[m].image = t.image
      /\ \A i \in DOMAIN L : B[at[i]].real = L[i].id /\ B[at[i]].kind = K
      /\ \A p : ShownAt(B, p, n) => B[p].kind = "message" /\ B[p].text = FALSE /\ B[p].image = TRUE
  BY LaidPlaces DEF Placed
<1>2. /\ at \in [DOMAIN L -> DOMAIN B]
      /\ \A i, j \in DOMAIN L : i < j => at[i] < at[j]
      /\ m # 0 => m \in DOMAIN B
      /\ m = 0 => ~t.text /\ t.by # "user"
      /\ \A p \in DOMAIN B :
          \/ p = m
          \/ \E i \in DOMAIN L : p = at[i]
          \/ /\ d = "anthropic" /\ t.by = "results" /\ ShownAt(B, p, n)
             /\ \E i \in DOMAIN L : p = at[i] + 1
      /\ d = "anthropic" /\ t.by = "results"
          => \A i \in DOMAIN L : L[i].shown <=> ShownAt(B, at[i] + 1, n)
  BY DEF Laid
<1>3. t.text \in BOOLEAN /\ t.image \in BOOLEAN /\ (t.by # "user" => t.image = FALSE)
  BY DEF TurnIs, TurnRecord, UserTurn, ModelTurn, ResultsTurn
<1>4. \A kind : From(B, n, kind) = {p \in DOMAIN B : B[p].kind = kind}
  BY <1>1 DEF From
<1>5. m # 0 => m \in messages
  BY <1>1, <1>2, <1>4
<1> HIDE DEF L, K
<1>6. OnceIf({p \in messages : B[p].text}, t.text)
  <2>1. \A p \in messages : p = m \/ ~ B[p].text
    BY <1>1, <1>2, <1>4 DEF K
  <2>2. CASE t.text
    <3>1. m # 0 /\ {p \in messages : B[p].text} = {m}
      BY <1>1, <1>2, <1>5, <2>1, <2>2
    <3> QED  BY <2>2, <3>1 DEF OnceIf
  <2>3. CASE ~t.text
    <3>1. {p \in messages : B[p].text} = {}
      <4>1. ASSUME NEW p \in messages, B[p].text PROVE FALSE
        <5>1. p = m /\ p # 0
          BY <1>1, <1>4, <2>1, <4>1
        <5> QED  BY <1>1, <2>3, <4>1, <5>1
      <4> QED  BY <4>1
    <3> QED  BY <2>3, <3>1 DEF OnceIf
  <2> QED  BY <2>2, <2>3
<1>7. ASSUME t.by = "user" PROVE OnceIf(images, t.image)
  <2>1. DOMAIN L = {} /\ m # 0
    <3>1. t.calls = <<>>
      BY <1>7 DEF TurnIs, UserTurn, ModelTurn, ResultsTurn
    <3> QED  BY <1>2, <1>7, <3>1 DEF L, ListOf
  <2>2. \A p \in messages : p = m
    BY <1>2, <1>4, <1>7, <2>1
  <2>3. t.image => images = {m}
    BY <1>1, <1>5, <2>1, <2>2
  <2>4. ~t.image => images = {}
    BY <1>1, <2>1, <2>2
  <2> QED  BY <1>3, <2>3, <2>4, <2>1 DEF OnceIf
<1>8. \A p \in DOMAIN B : B[p].kind = K <=> p \in range
  <2>1. \A i \in DOMAIN L : at[i] \in DOMAIN B
    BY <1>2
  <2> QED  BY <1>1, <1>2, <2>1 DEF K
<1>9. ASSUME t.by = "results", d = "anthropic"
      PROVE  /\ \A i \in DOMAIN t.results, o \in From(B, n, "output") :
                   B[o].real = t.results[i].id => (t.results[i].shown <=> o + 1 \in images)
             /\ \A p \in images : p - 1 \in From(B, n, "output")
  <2>1. L = t.results /\ K = "output"
    BY <1>9 DEF L, ListOf, K
  <2>2. \A i, j \in DOMAIN L : L[i].id = L[j].id => i = j
    BY <1>9, <2>1 DEF TurnIs, UserTurn, ModelTurn, ResultsTurn
  <2>3. \A p : p \in images <=> ShownAt(B, p, n)
    <3>1. ASSUME NEW p \in images PROVE ShownAt(B, p, n)
      <4>1. p \in DOMAIN B /\ B[p].kind = "message" /\ B[p].image /\ p # 0
        BY <1>1, <1>4
      <4>2. p # m
        BY <1>1, <1>3, <1>9, <4>1
      <4>3. \A i \in DOMAIN L : p # at[i]
        BY <1>1, <4>1 DEF K
      <4> QED  BY <1>2, <4>1, <4>2, <4>3
    <3>2. ASSUME NEW p, ShownAt(B, p, n) PROVE p \in images
      BY <1>1, <1>4, <3>2 DEF ShownAt
    <3> QED  BY <3>1, <3>2
  <2>4. ASSUME NEW i \in DOMAIN L, NEW o \in From(B, n, "output"), B[o].real = L[i].id
        PROVE  o = at[i]
    <3>1. o \in DOMAIN B /\ B[o].kind = "output"
      BY <1>4
    <3>2. PICK j \in DOMAIN L : o = at[j]
      BY <3>1, <1>8, <2>1
    <3> QED  BY <1>1, <2>2, <2>4, <3>2
  <2>5. ASSUME NEW p \in images PROVE p - 1 \in From(B, n, "output")
    <3>1. p \in DOMAIN B /\ B[p].kind = "message" /\ B[p].image /\ p # 0
      BY <1>1, <1>4
    <3>2. p # m
      BY <1>1, <1>3, <1>9, <3>1
    <3>3. \A i \in DOMAIN L : p # at[i]
      BY <1>1, <3>1 DEF K
    <3>4. PICK i \in DOMAIN L : p = at[i] + 1
      BY <1>2, <3>1, <3>2, <3>3
    <3>5. at[i] \in DOMAIN B /\ at[i] \in Nat /\ B[at[i]].kind = "output"
      BY <1>1, <1>2, <2>1
    <3> QED  BY <1>4, <3>4, <3>5
  <2>6. ASSUME NEW i \in DOMAIN L, NEW o \in From(B, n, "output"), B[o].real = L[i].id
        PROVE  L[i].shown <=> o + 1 \in images
    <3>1. o = at[i]
      BY <2>4, <2>6
    <3>2. L[i].shown <=> ShownAt(B, at[i] + 1, n)
      BY <1>2, <1>9
    <3> HIDE DEF images
    <3> QED  BY <2>3, <3>1, <3>2
  <2> HIDE DEF images
  <2> QED  BY <2>1, <2>5, <2>6
<1>10. Arranged(B, From(B, n, K), L)
  <2>1. From(B, n, K) = range
    <3>1. \A i \in DOMAIN L : at[i] \in DOMAIN B
      BY <1>2
    <3> QED  BY <1>4, <1>8, <3>1
  <2>2. at \in [DOMAIN L -> range]
    BY <1>2
  <2> QED  BY <1>1, <1>2, <2>1, <2>2 DEF Arranged
<1>11. \A kind \in {"call", "output"} : kind # K => From(B, n, kind) = {}
  <2>1. \A p \in DOMAIN B : B[p].kind = K \/ B[p].kind = "message"
    BY <1>1, <1>2
  <2> QED  BY <1>4, <2>1
<1>12. /\ Arranged(B, From(B, n, "call"), t.calls)
       /\ Arranged(B, From(B, n, "output"), t.results)
  <2>1. CASE t.by = "results"
    <3>1. K = "output" /\ L = t.results /\ t.calls = <<>>
      BY <2>1 DEF K, L, ListOf, TurnIs, UserTurn, ModelTurn, ResultsTurn
    <3> QED  BY <1>10, <1>11, <3>1, NoneArranged
  <2>2. CASE t.by # "results"
    <3>1. K = "call" /\ L = t.calls /\ t.results = <<>>
      BY <2>2 DEF K, L, ListOf, TurnIs, UserTurn, ModelTurn, ResultsTurn
    <3> QED  BY <1>10, <1>11, <3>1, NoneArranged
  <2> QED  BY <2>1, <2>2
<1>13. ASSUME d # "anthropic", t.by = "results" PROVE images = {}
  <2> SUFFICES ASSUME NEW p \in images PROVE FALSE
    OBVIOUS
  <2>1. p \in DOMAIN B /\ B[p].kind = "message" /\ B[p].image /\ p # 0
    BY <1>1, <1>4
  <2>2. p # m
    BY <1>1, <1>3, <1>13, <2>1
  <2>3. PICK i \in DOMAIN L : p = at[i]
    BY <1>2, <1>13, <2>1, <2>2
  <2> QED  BY <1>1, <1>13, <2>1, <2>3 DEF K
<1> HIDE DEF images
<1> QED  BY <1>6, <1>7, <1>9, <1>12, <1>13 DEF TurnKept, images

-----------------------------------------------------------------------------
(* Items of several turns *)

\* What is known of turn n from its own items J is known of it among all of them: J is in
\* I, k places on, and I has no other item of the turn.
LEMMA KeptAmongOthers ==
    ASSUME NEW d, NEW I, NEW J, NEW n, NEW t, NEW k \in Nat,
           DOMAIN I \subseteq Nat, DOMAIN J \subseteq Nat,
           \A p \in DOMAIN J : TurnOf(J[p]) = n => p + k \in DOMAIN I /\ I[p + k] = J[p],
           \A p \in DOMAIN I : TurnOf(I[p]) = n => p - k \in DOMAIN J /\ J[p - k] = I[p],
           TurnKept(d, J, n, t)
    PROVE  TurnKept(d, I, n, t)
<1>1. \A kind : \A p : p \in From(J, n, kind) => p \in Nat /\ p + k \in From(I, n, kind) /\ I[p + k] = J[p]
  BY DEF From
<1>2. \A kind : \A p : p \in From(I, n, kind) => p \in Nat /\ p - k \in From(J, n, kind) /\ J[p - k] = I[p]
  BY DEF From
<1>3. ASSUME NEW S, NEW T, NEW c, OnceIf(S, c), S \subseteq Nat, T \subseteq Nat,
             \A p \in S : p + k \in T, \A p \in T : p - k \in S
      PROVE  OnceIf(T, c)
  <2>1. CASE c
    <3>1. PICK p \in S : S = {p}
      BY <1>3, <2>1 DEF OnceIf
    <3>2. p + k \in T /\ \A q \in T : q = p + k
      BY <1>3, <3>1
    <3>3. T = {p + k}
      BY <3>2
    <3> QED  BY <2>1, <3>2, <3>3 DEF OnceIf
  <2>2. CASE ~c
    <3>1. S = {}
      BY <1>3, <2>2 DEF OnceIf
    <3>2. T = {}
      BY <1>3, <3>1
    <3> QED  BY <2>2, <3>2 DEF OnceIf
  <2> QED  BY <2>1, <2>2
<1>4. ASSUME NEW kind, NEW list, Arranged(J, From(J, n, kind), list)
      PROVE  Arranged(I, From(I, n, kind), list)
  <2>1. PICK place \in [DOMAIN list -> From(J, n, kind)] :
          /\ From(J, n, kind) = {place[i] : i \in DOMAIN list}
          /\ \A i \in DOMAIN list : J[place[i]].real = list[i].id
          /\ \A i, j \in DOMAIN list : i < j => place[i] < place[j]
    BY <1>4 DEF Arranged
  <2> DEFINE moved == [i \in DOMAIN list |-> place[i] + k]
  <2>2. \A i \in DOMAIN list : /\ place[i] \in From(J, n, kind) /\ place[i] \in Nat
                               /\ moved[i] \in From(I, n, kind) /\ I[moved[i]] = J[place[i]]
    BY <1>1, <2>1
  <2>3. moved \in [DOMAIN list -> From(I, n, kind)]
    BY <2>2
  <2>4. \A p \in From(I, n, kind) : \E i \in DOMAIN list : p = moved[i]
    <3> SUFFICES ASSUME NEW p \in From(I, n, kind) PROVE \E i \in DOMAIN list : p = moved[i]
      OBVIOUS
    <3>1. p \in Nat /\ p - k \in From(J, n, kind)
      BY <1>2
    <3>2. PICK i \in DOMAIN list : p - k = place[i]
      BY <2>1, <3>1
    <3>3. p = moved[i]
      BY <3>1, <3>2, <2>2
    <3> QED  BY <3>3
  <2>5. From(I, n, kind) = {moved[i] : i \in DOMAIN list}
    BY <2>2, <2>4
  <2>6. \A i \in DOMAIN list : I[moved[i]].real = list[i].id
    BY <2>1, <2>2
  <2>7. \A i, j \in DOMAIN list : i < j => moved[i] < moved[j]
    BY <2>1, <2>2
  <2> HIDE DEF moved
  <2> QED  BY <2>3, <2>5, <2>6, <2>7 DEF Arranged
<1> DEFINE messagesJ == From(J, n, "message")
           messagesI == From(I, n, "message")
           textsJ == {p \in messagesJ : J[p].text}
           textsI == {p \in messagesI : I[p].text}
           imagesJ == {p \in messagesJ : J[p].image}
           imagesI == {p \in messagesI : I[p].image}
<1>5. /\ textsI \subseteq Nat /\ textsJ \subseteq Nat
      /\ \A p \in textsJ : p + k \in textsI
      /\ \A p \in textsI : p - k \in textsJ
  BY <1>1, <1>2
<1>6. /\ imagesI \subseteq Nat /\ imagesJ \subseteq Nat
      /\ \A p \in imagesJ : p + k \in imagesI
      /\ \A p \in imagesI : p - k \in imagesJ
  BY <1>1, <1>2
<1>7. /\ OnceIf(textsJ, t.text)
      /\ t.by = "user" => OnceIf(imagesJ, t.image)
      /\ d = "anthropic" /\ t.by = "results" =>
              /\ \A i \in DOMAIN t.results, o \in From(J, n, "output") :
                    J[o].real = t.results[i].id => (t.results[i].shown <=> o + 1 \in imagesJ)
              /\ \A p \in imagesJ : p - 1 \in From(J, n, "output")
      /\ d # "anthropic" /\ t.by = "results" => imagesJ = {}
      /\ Arranged(J, From(J, n, "call"), t.calls)
      /\ Arranged(J, From(J, n, "output"), t.results)
  BY DEF TurnKept
<1> HIDE DEF textsI, textsJ, imagesI, imagesJ
<1>8. OnceIf(textsI, t.text) /\ (t.by = "user" => OnceIf(imagesI, t.image))
  <2>1. OnceIf(textsI, t.text)
    BY <1>3, <1>5, <1>7
  <2>2. ASSUME t.by = "user" PROVE OnceIf(imagesI, t.image)
    BY <1>3, <1>6, <1>7, <2>2
  <2> QED  BY <2>1, <2>2
<1>9. ASSUME d = "anthropic", t.by = "results"
      PROVE  /\ \A i \in DOMAIN t.results, o \in From(I, n, "output") :
                   I[o].real = t.results[i].id => (t.results[i].shown <=> o + 1 \in imagesI)
             /\ \A p \in imagesI : p - 1 \in From(I, n, "output")
  <2>1. ASSUME NEW i \in DOMAIN t.results, NEW o \in From(I, n, "output"),
               I[o].real = t.results[i].id
        PROVE  t.results[i].shown <=> o + 1 \in imagesI
    <3>1. o \in Nat /\ o - k \in From(J, n, "output") /\ o - k \in Nat /\ J[o - k] = I[o]
      BY <1>1, <1>2
    <3>2. t.results[i].shown <=> (o - k) + 1 \in imagesJ
      BY <1>7, <1>9, <2>1, <3>1
    <3>3. ((o - k) + 1) + k = o + 1 /\ (o + 1) - k = (o - k) + 1
      BY <3>1
    <3>4. (o - k) + 1 \in imagesJ <=> o + 1 \in imagesI
      BY <1>6, <3>3
    <3> QED  BY <3>2, <3>4
  <2>2. ASSUME NEW p \in imagesI PROVE p - 1 \in From(I, n, "output")
    <3>1. p \in Nat /\ p - k \in imagesJ /\ p - k \in Nat
      BY <1>6
    <3>2. (p - k) - 1 \in From(J, n, "output")
      BY <1>7, <1>9, <3>1
    <3>3. ((p - k) - 1) + k = p - 1
      BY <3>1
    <3> QED  BY <1>1, <3>2, <3>3
  <2> QED  BY <2>1, <2>2
<1>10. /\ Arranged(I, From(I, n, "call"), t.calls)
       /\ Arranged(I, From(I, n, "output"), t.results)
  BY <1>4, <1>7
<1>11. d # "anthropic" /\ t.by = "results" => imagesI = {}
  BY <1>6, <1>7
<1> QED  BY <1>8, <1>9, <1>10, <1>11 DEF TurnKept, textsI, imagesI

\* The places of two sequences put end to end.
LEMMA EndToEnd ==
    ASSUME NEW S, NEW I \in Seq(S), NEW B \in Seq(S)
    PROVE  /\ I \o B \in Seq(S) /\ Len(I \o B) = Len(I) + Len(B)
           /\ Len(I) \in Nat /\ Len(B) \in Nat
           /\ DOMAIN I = 1 .. Len(I) /\ DOMAIN B = 1 .. Len(B)
           /\ DOMAIN (I \o B) = 1 .. Len(I) + Len(B)
           /\ \A p \in DOMAIN I : (I \o B)[p] = I[p]
           /\ \A p \in DOMAIN B : (I \o B)[p + Len(I)] = B[p]
           /\ \A p \in DOMAIN (I \o B) :
                 p \notin DOMAIN I => p - Len(I) \in DOMAIN B /\ (I \o B)[p] = B[p - Len(I)]
<1>1. /\ Len(I) \in Nat /\ Len(B) \in Nat
      /\ DOMAIN I = 1 .. Len(I) /\ DOMAIN B = 1 .. Len(B)
  BY LenProperties
<1>2. /\ I \o B \in Seq(S) /\ Len(I \o B) = Len(I) + Len(B)
      /\ \A p \in 1 .. Len(I) + Len(B) :
            (I \o B)[p] = IF p <= Len(I) THEN I[p] ELSE B[p - Len(I)]
  BY ConcatProperties
<1>3. DOMAIN (I \o B) = 1 .. Len(I) + Len(B)
  BY <1>2, LenProperties
<1> DEFINE C == I \o B
<1> HIDE DEF C
<1>4. \A p \in DOMAIN I : C[p] = I[p]
  BY <1>1, <1>2 DEF C
<1>5. ASSUME NEW p \in DOMAIN B PROVE C[p + Len(I)] = B[p]
  <2>1. p + Len(I) \in 1 .. Len(I) + Len(B) /\ ~ (p + Len(I) <= Len(I)) /\ (p + Len(I)) - Len(I) = p
    BY <1>1
  <2> QED  BY <1>2, <2>1 DEF C
<1>6. ASSUME NEW p \in DOMAIN C, p \notin DOMAIN I
      PROVE  p - Len(I) \in DOMAIN B /\ C[p] = B[p - Len(I)]
  <2>1. p \in 1 .. Len(I) + Len(B) /\ ~ (p <= Len(I)) /\ p - Len(I) \in 1 .. Len(B)
    BY <1>1, <1>3, <1>6 DEF C
  <2> QED  BY <1>1, <1>2, <2>1 DEF C
<1> QED  BY <1>1, <1>2, <1>3, <1>4, <1>5, <1>6 DEF C

\* C is I and then B.
Joined(S, C, I, B) ==
    /\ C \in Seq(S) /\ Len(C) = Len(I) + Len(B)
    /\ DOMAIN I = 1 .. Len(I) /\ DOMAIN B = 1 .. Len(B)
    /\ DOMAIN C = 1 .. Len(I) + Len(B)
    /\ \A p \in DOMAIN I : C[p] = I[p]
    /\ \A p \in DOMAIN B : C[p + Len(I)] = B[p]

LEMMA TwoJoined ==
    ASSUME NEW S, NEW I \in Seq(S), NEW B \in Seq(S)
    PROVE  Joined(S, I \o B, I, B)
BY EndToEnd DEF Joined

\* When the format can tell the conversation.
Usable(d, T) == d = "functions" => \A n \in DOMAIN T : Len(T[n].calls) <= 1

\* Every output among the items finds the call it is meant for, or none.
Found(d, I) == \A o \in DOMAIN I : I[o].kind = "output" => ResultReaches(d, I, o)

\* The ids of calls are never left out, and are their own where the format has ids.
CallsNamed(d, I) ==
    \A p \in DOMAIN I : I[p].kind = "call" =>
        /\ I[p].id # Unknown
        /\ d \in {"openai", "anthropic"} => I[p].id = <<"id", I[p].real>>

\* The last items are the calls of t.
EndsWithCalls(d, I, t) ==
    /\ Len(t.calls) <= Len(I)
    /\ \A i \in DOMAIN t.calls : I[Len(I) - Len(t.calls) + i] = ItemOf(d, t, i)

\* The results are those of the calls of turn n, in any order.
Returned(n, calls, results) ==
    /\ Len(results) = Len(calls)
    /\ \A i \in DOMAIN results : \E j \in DOMAIN calls :
          results[i].id = calls[j].id /\ results[i].tool = calls[j].tool
    /\ \A j \in DOMAIN calls : calls[j].id = <<n, j>>
    /\ \A i \in DOMAIN results : results[i].id[1] = n

\* What is known of the items I of a conversation T.
Holds(d, T, I) ==
    /\ I \in Seq(InputItem)
    /\ \A p \in DOMAIN I : TurnOf(I[p]) \in 1 .. Len(T)
    /\ \A p, q \in DOMAIN I : p < q => TurnOf(I[p]) <= TurnOf(I[q])
    /\ \A n \in DOMAIN T : TurnKept(d, I, n, T[n])
    /\ CallsNamed(d, I)
    /\ Usable(d, T) => Found(d, I)
    /\ T # <<>> => I # <<>> /\ EndsWithCalls(d, I, T[Len(T)])

\* What is put behind an output does not change whether it finds its call.
LEMMA EarlierAnswers ==
    ASSUME NEW d, NEW I, NEW C, NEW o \in DOMAIN I, DOMAIN I \subseteq DOMAIN C,
           \A p \in DOMAIN I : 1 .. p \subseteq DOMAIN I, DOMAIN I \subseteq Nat,
           \A p \in DOMAIN I : C[p] = I[p], ResultReaches(d, I, o)
    PROVE  ResultReaches(d, C, o)
<1>1. \A p \in 1 .. o - 1 : p \in DOMAIN I
  OBVIOUS
<1>2. Candidates(C, o) = Candidates(I, o)
  BY <1>1 DEF Candidates
<1>3. \A p \in Candidates(I, o) : C[p] = I[p]
  BY <1>1 DEF Candidates
<1> QED  BY <1>2, <1>3 DEF ResultReaches, Answers

\* A result that is put behind the calls of the turn before finds its call.
LEMMA ResultFinds ==
    ASSUME NEW d \in Dialects, NEW N, NEW u, NEW t, TurnIs(N, u), TurnIs(N + 1, t),
           u.by = "model", t.by = "results", Returned(N, u.calls, t.results),
           NEW I \in Seq(InputItem), EndsWithCalls(d, I, u), CallsNamed(d, I),
           d = "functions" => Len(u.calls) <= 1,
           NEW B, NEW m, NEW at, Laid(d, B, N + 1, t, m, at),
           NEW i \in DOMAIN t.results
    PROVE  ResultReaches(d, I \o B, at[i] + Len(I))
<1> DEFINE C == I \o B
           o == at[i] + Len(I)
           c == t.results[i]
           k == Len(u.calls)
           calls == Candidates(C, o)
<1>0. ListOf(t) = t.results /\ ListOf(u) = u.calls /\ B \in Seq(InputItem)
  BY DEF ListOf, Laid
<1>1. /\ Len(I) \in Nat /\ Len(B) \in Nat
      /\ DOMAIN I = 1 .. Len(I) /\ DOMAIN B = 1 .. Len(B)
      /\ DOMAIN C = 1 .. Len(I) + Len(B)
      /\ \A p \in DOMAIN I : C[p] = I[p]
      /\ \A p \in DOMAIN B : C[p + Len(I)] = B[p]
      /\ \A p \in DOMAIN C : p \notin DOMAIN I => p - Len(I) \in DOMAIN B /\ C[p] = B[p - Len(I)]
  BY <1>0, EndToEnd
<1> HIDE DEF C
<1>2. at[i] \in DOMAIN B /\ C[o] = ItemOf(d, t, i) /\ o \in Nat /\ o \in DOMAIN C
  BY <1>0, <1>1 DEF Laid
<1>3. C[o].id = IdOf(d, i, c) /\ C[o].real = c.id /\ C[o].place = i
  BY <1>0, <1>2, ListItems
<1>4. \A p \in DOMAIN B : B[p].kind # "call"
  <2>1. /\ m # 0 => B[m].kind = "message"
        /\ \A j \in DOMAIN t.results : B[at[j]].kind = "output"
        /\ \A p : ShownAt(B, p, N + 1) => B[p].kind = "message"
    <3>1. /\ m # 0 => B[m].kind = "message"
          /\ \A j \in DOMAIN ListOf(t) :
                 B[at[j]].kind = (IF t.by = "results" THEN "output" ELSE "call")
          /\ \A p : ShownAt(B, p, N + 1) => B[p].kind = "message"
      <4>1. PICK n : n = N + 1
        OBVIOUS
      <4>2. TurnIs(n, t) /\ Laid(d, B, n, t, m, at)
        BY <4>1
      <4>3. Placed(B, n, t, m, at)
        BY <4>2, LaidPlaces, Zenon
      <4> QED  BY <4>1, <4>3 DEF Placed
    <3> QED  BY <1>0, <3>1
  <2>2. \A p \in DOMAIN B : p # 0
    BY <1>1
  <2> QED  BY <1>0, <2>1, <2>2 DEF Laid
<1>5. \A p \in calls : p \in DOMAIN I /\ C[p] = I[p] /\ p \in Nat
  <2> SUFFICES ASSUME NEW p \in calls PROVE p \in DOMAIN I /\ C[p] = I[p] /\ p \in Nat
    OBVIOUS
  <2>1. p \in 1 .. o - 1 /\ C[p].kind = "call"
    BY DEF Candidates
  <2> HIDE DEF calls
  <2>2. p \in DOMAIN C /\ p \in Nat
    BY <1>1, <1>2, <2>1
  <2> QED  BY <1>1, <1>4, <2>1, <2>2
<1>14. CASE C[o].id = Unknown
  <2> SUFFICES ASSUME NEW p \in calls PROVE FALSE
    BY <1>14 DEF ResultReaches, C
  <2>1. I[p].kind = "call" /\ I[p].id = Unknown /\ p \in DOMAIN I
    BY <1>5, <1>14 DEF Candidates
  <2> QED  BY <2>1 DEF CallsNamed
<1> SUFFICES ASSUME C[o].id # Unknown PROVE Answers(C, o, Meant(d, C[o]))
  BY <1>14 DEF ResultReaches, C
<1>6. /\ k \in Nat /\ DOMAIN u.calls = 1 .. k /\ DOMAIN t.results = 1 .. k
      /\ i \in Nat /\ i \in 1 .. k /\ k <= Len(I)
  <2>1. u.calls \in Seq(CallMade) /\ t.results \in Seq(CallMade)
    BY DEF TurnIs, TurnRecord
  <2>2. Len(t.results) = k
    BY DEF Returned
  <2> QED  BY <2>1, <2>2, LenProperties DEF EndsWithCalls
<1> DEFINE want == IF d = "gemini" THEN <<N, i>> ELSE c.id
<1>13. Meant(d, C[o]) = want
  <2>1. c.id[1] = N
    BY DEF Returned
  <2> QED  BY <1>3, <2>1 DEF Meant
<1>7. PICK j \in DOMAIN u.calls :
        /\ u.calls[j].id = want
        /\ d = "functions" => c.tool = u.calls[j].tool
        /\ d = "gemini" => j = i
  <2>1. CASE d = "gemini"
    <3>1. u.calls[i].id = <<N, i>> /\ i \in DOMAIN u.calls
      BY <1>6 DEF Returned
    <3> QED  BY <2>1, <3>1
  <2>2. CASE d # "gemini"
    <3>1. c.id = want
      BY <2>2
    <3> HIDE DEF want
    <3> QED  BY <2>2, <3>1 DEF Returned
  <2> QED  BY <2>1, <2>2
<1> HIDE DEF want
<1> DEFINE q == Len(I) - k + j
<1>8. /\ q \in DOMAIN I /\ q \in Nat /\ q < o /\ q \in 1 .. o - 1
      /\ C[q] = ItemOf(d, u, j)
  <2>1. q \in DOMAIN I /\ q \in Nat /\ q <= Len(I)
    BY <1>1, <1>6
  <2>2. q < o
    BY <1>1, <1>2, <2>1
  <2>3. I[q] = ItemOf(d, u, j)
    BY DEF EndsWithCalls
  <2> QED  BY <1>1, <1>2, <2>1, <2>2, <2>3
<1>9. /\ C[q].kind = "call" /\ C[q].real = want /\ C[q].id = IdOf(d, j, u.calls[j])
      /\ u.calls[j].named
  BY <1>0, <1>7, <1>8, ListItems
<1>10. IdOf(d, j, u.calls[j]) = IdOf(d, i, c)
  <2>1. d \in {"openai", "functions"} => c.named
    BY <1>3 DEF IdOf, OpenAIId, FunctionId
  <2>2. d # "gemini" => c.id = want
    BY DEF want
  <2> QED  BY <1>7, <1>9, <2>1, <2>2 DEF IdOf, Dialects, OpenAIId, FunctionId
<1>11. q \in calls
  BY <1>3, <1>8, <1>9, <1>10 DEF Candidates
<1>12. ASSUME NEW p \in calls, \A r \in calls : r <= p PROVE C[p].real = want
  <2>1. q <= p /\ p \in DOMAIN I /\ C[p] = I[p] /\ p \in Nat /\ C[p].kind = "call"
        /\ C[p].id = C[o].id
    BY <1>5, <1>11, <1>12 DEF Candidates
  <2>2. CASE d \in {"openai", "anthropic"}
    <3>1. C[p].id = <<"id", C[p].real>>
      BY <2>1, <2>2 DEF CallsNamed
    <3>2. C[q].id = <<"id", want>>
      BY <1>8, <1>9, <1>11, <1>5, <2>2 DEF CallsNamed
    <3>3. <<"id", C[p].real>> = <<"id", want>>
      BY <1>3, <1>9, <1>10, <2>1, <3>1, <3>2
    <3> QED  BY <3>3
  <2>3. CASE d = "functions"
    <3>1. k = 1 /\ j = 1
      <4>1. k <= 1
        BY <2>3
      <4>2. k \in Nat /\ i \in 1 .. k /\ j \in 1 .. k
        BY <1>6
      <4> HIDE DEF k
      <4> QED  BY <4>1, <4>2
    <3>2. p = q
      BY <1>1, <1>6, <2>1, <3>1
    <3> QED  BY <1>9, <3>2
  <2>4. CASE d = "gemini"
    <3> DEFINE h == p - Len(I) + k
    <3>1. h \in DOMAIN u.calls /\ p = Len(I) - k + h /\ h \in Nat
      <4>1. /\ k \in Nat /\ j \in 1 .. k /\ Len(I) \in Nat /\ p \in 1 .. Len(I)
            /\ Len(I) - k + j <= p /\ k <= Len(I)
        BY <1>1, <1>6, <2>1
      <4>2. p - Len(I) + k \in 1 .. k
        BY <4>1
      <4>3. p = Len(I) - k + (p - Len(I) + k)
        <5>1. \A x, y, z \in Int : x = y - z + (x - y + z)
          OBVIOUS
        <5>2. p \in Int /\ Len(I) \in Int /\ k \in Int
          BY <4>1
        <5> HIDE DEF k, o, q, calls
        <5> QED  BY <5>1, <5>2
      <4> HIDE DEF k
      <4> QED  BY <1>6, <4>2, <4>3
    <3>2. I[p] = ItemOf(d, u, h)
      BY <3>1 DEF EndsWithCalls
    <3> HIDE DEF h
    <3>3. I[p].id = IdOf(d, h, u.calls[h])
      BY <1>0, <3>1, <3>2, ListItems
    <3>4. <<"fc", h - 1>> = <<"fc", i - 1>>
      BY <1>3, <2>1, <2>4, <3>3 DEF IdOf
    <3>5. h = i
      BY <1>6, <3>1, <3>4
    <3>6. p = q
      BY <1>7, <2>4, <3>1, <3>5
    <3> QED  BY <1>9, <3>6
  <2> QED  BY <2>2, <2>3, <2>4 DEF Dialects
<1> QED
  <2>1. calls # {} /\ \A p \in calls : (\A r \in calls : r <= p) => C[p].real = want
    BY <1>11, <1>12
  <2> QED  BY <1>13, <2>1 DEF Answers

\* The items of a turn come behind those of the turns before.
LEMMA TurnAppended ==
    ASSUME NEW d \in Dialects, NEW T \in Seq(TurnRecord), NEW n, n = Len(T) + 1, NEW t,
           TurnIs(n, t), NEW I, Holds(d, T, I), NEW B, NEW m, NEW at, Laid(d, B, n, t, m, at),
           t.by = "model" => \A i \in DOMAIN t.calls : at[i] = Len(B) - Len(t.calls) + i,
           t.by = "results" => /\ T # <<>> /\ TurnIs(Len(T), T[Len(T)])
                               /\ T[Len(T)].by = "model"
                               /\ Returned(Len(T), T[Len(T)].calls, t.results)
    PROVE  Holds(d, Append(T, t), I \o B)
<1> DEFINE C == I \o B
           U == Append(T, t)
<1>1. /\ Len(T) \in Nat /\ DOMAIN T = 1 .. Len(T) /\ Len(U) = n /\ U # <<>>
      /\ DOMAIN U = 1 .. n /\ U[n] = t /\ \A k \in DOMAIN T : U[k] = T[k]
      /\ n \in Nat
  <2>1. t \in TurnRecord
    BY DEF TurnIs
  <2>2. U \in Seq(TurnRecord) /\ Len(U) = Len(T) + 1 /\ U # <<>>
        /\ U[Len(T) + 1] = t /\ \A k \in 1 .. Len(T) : U[k] = T[k]
    BY <2>1, AppendProperties
  <2>3. DOMAIN U = 1 .. Len(U) /\ Len(T) \in Nat /\ DOMAIN T = 1 .. Len(T)
    BY <2>2, LenProperties
  <2> HIDE DEF U
  <2> QED  BY <2>2, <2>3
<1>2. I \in Seq(InputItem) /\ B \in Seq(InputItem) /\ B # <<>>
  BY DEF Holds, Laid
<1>3. /\ C \in Seq(InputItem) /\ Len(C) = Len(I) + Len(B)
      /\ Len(I) \in Nat /\ Len(B) \in Nat
      /\ DOMAIN I = 1 .. Len(I) /\ DOMAIN B = 1 .. Len(B)
      /\ DOMAIN C = 1 .. Len(I) + Len(B)
      /\ \A p \in DOMAIN I : C[p] = I[p]
      /\ \A p \in DOMAIN B : C[p + Len(I)] = B[p]
      /\ \A p \in DOMAIN C : p \notin DOMAIN I => p - Len(I) \in DOMAIN B /\ C[p] = B[p - Len(I)]
  BY <1>2, EndToEnd
<1> HIDE DEF C, U
<1>4. Placed(B, n, t, m, at)
  BY LaidPlaces
<1>5. \A p \in DOMAIN B : TurnOf(B[p]) = n
  BY <1>4 DEF Placed
<1>6. \A p \in DOMAIN I : TurnOf(I[p]) \in 1 .. Len(T)
  BY DEF Holds
<1>7. \A p \in DOMAIN C : TurnOf(C[p]) \in 1 .. Len(U)
  <2>1. ASSUME NEW p \in DOMAIN C PROVE TurnOf(C[p]) \in 1 .. n
    <3>1. CASE p \in DOMAIN I
      BY <1>1, <1>3, <1>6, <3>1
    <3>2. CASE p \notin DOMAIN I
      <4>1. TurnOf(C[p]) = n
        BY <1>3, <1>5, <3>2
      <4> QED  BY <1>1, <4>1
    <3> QED  BY <3>1, <3>2
  <2> QED  BY <1>1, <2>1
<1>8. ASSUME NEW p \in DOMAIN C, NEW q \in DOMAIN C, p < q
      PROVE  TurnOf(C[p]) <= TurnOf(C[q])
  <2>1. CASE q \in DOMAIN I
    <3>1. p \in DOMAIN I /\ C[p] = I[p] /\ C[q] = I[q]
      BY <1>3, <1>8, <2>1
    <3>2. TurnOf(I[p]) <= TurnOf(I[q])
      BY <1>8, <2>1, <3>1 DEF Holds
    <3> QED  BY <3>1, <3>2
  <2>2. CASE q \notin DOMAIN I
    <3>1. TurnOf(C[q]) = n
      BY <1>3, <1>5, <2>2
    <3>2. TurnOf(C[p]) \in 1 .. n
      BY <1>1, <1>7
    <3> QED  BY <1>1, <3>1, <3>2
  <2> QED  BY <2>1, <2>2
<1>9. ASSUME NEW k \in DOMAIN U PROVE TurnKept(d, C, k, U[k])
  <2>0. DOMAIN C \subseteq Nat /\ DOMAIN I \subseteq Nat /\ DOMAIN B \subseteq Nat
    BY <1>3
  <2>1. CASE k # n
    <3>1. k \in DOMAIN T /\ U[k] = T[k]
      BY <1>1, <2>1
    <3>2. \A p \in DOMAIN I : TurnOf(I[p]) = k => p + 0 \in DOMAIN C /\ C[p + 0] = I[p]
      BY <1>3
    <3>3. ASSUME NEW p \in DOMAIN C, TurnOf(C[p]) = k PROVE p - 0 \in DOMAIN I /\ I[p - 0] = C[p]
      <4>1. p \in DOMAIN I
        <5>1. CASE p \notin DOMAIN I
          BY <1>3, <1>5, <2>1, <3>3, <5>1
        <5> QED  BY <5>1
      <4> QED  BY <1>3, <4>1
    <3>4. TurnKept(d, I, k, T[k])
      BY <3>1 DEF Holds
    <3>5. 0 \in Nat
      OBVIOUS
    <3> QED  BY <2>0, <3>1, <3>2, <3>3, <3>4, <3>5, KeptAmongOthers
  <2>2. CASE k = n
    <3>1. \A p \in DOMAIN B : TurnOf(B[p]) = n => p + Len(I) \in DOMAIN C /\ C[p + Len(I)] = B[p]
      BY <1>3
    <3>2. ASSUME NEW p \in DOMAIN C, TurnOf(C[p]) = n
          PROVE  p - Len(I) \in DOMAIN B /\ B[p - Len(I)] = C[p]
      <4>1. p \notin DOMAIN I
        <5>1. CASE p \in DOMAIN I
          <6>1. TurnOf(C[p]) \in 1 .. Len(T)
            BY <1>3, <1>6, <5>1
          <6> QED  BY <1>1, <3>2, <6>1
        <5> QED  BY <5>1
      <4> QED  BY <1>3, <4>1
    <3>3. TurnKept(d, B, n, t)
      BY LaidKept
    <3>4. Len(I) \in Nat
      BY <1>3
    <3>5. TurnKept(d, C, n, t)
      BY <2>0, <3>1, <3>2, <3>3, <3>4, KeptAmongOthers
    <3> QED  BY <1>1, <2>2, <3>5
  <2> QED  BY <2>1, <2>2
<1>10. ASSUME NEW p \in DOMAIN C, C[p].kind = "call"
       PROVE  /\ C[p].id # Unknown
              /\ d \in {"openai", "anthropic"} => C[p].id = <<"id", C[p].real>>
  <2>1. CASE p \in DOMAIN I
    BY <1>3, <1>10, <2>1 DEF Holds, CallsNamed
  <2>2. CASE p \notin DOMAIN I
    <3>1. p - Len(I) \in DOMAIN B /\ C[p] = B[p - Len(I)] /\ p - Len(I) # 0
      BY <1>3, <2>2
    <3>2. PICK i \in DOMAIN ListOf(t) : p - Len(I) = at[i]
      BY <1>4, <1>10, <3>1 DEF Placed, Laid
    <3>3. C[p] = ItemOf(d, t, i)
      BY <3>1, <3>2 DEF Laid
    <3>4. /\ C[p].id = IdOf(d, i, ListOf(t)[i]) /\ C[p].real = ListOf(t)[i].id
          /\ ListOf(t)[i].named
      BY <1>10, <3>3, ListItems
    <3> QED  BY <3>4 DEF IdOf, OpenAIId, FunctionId, Unknown, Dialects
  <2> QED  BY <2>1, <2>2
<1>11. ASSUME Usable(d, U), NEW o \in DOMAIN C, C[o].kind = "output"
       PROVE  ResultReaches(d, C, o)
  <2>1. Usable(d, T)
    BY <1>1, <1>11 DEF Usable
  <2>2. CASE o \in DOMAIN I
    <3>1. ResultReaches(d, I, o)
      BY <1>3, <1>11, <2>1, <2>2 DEF Holds, Found
    <3>2. DOMAIN I \subseteq DOMAIN C /\ DOMAIN I \subseteq Nat
      BY <1>3
    <3>3. \A p \in DOMAIN I : 1 .. p \subseteq DOMAIN I
      BY <1>3
    <3>4. \A p \in DOMAIN I : C[p] = I[p]
      BY <1>3
    <3> QED  BY <2>2, <3>1, <3>2, <3>3, <3>4, EarlierAnswers
  <2>3. CASE o \notin DOMAIN I
    <3>1. o - Len(I) \in DOMAIN B /\ C[o] = B[o - Len(I)] /\ o - Len(I) # 0
          /\ (o - Len(I)) + Len(I) = o
      BY <1>3, <2>3
    <3>2. PICK i \in DOMAIN ListOf(t) : o - Len(I) = at[i]
      BY <1>4, <1>11, <3>1 DEF Placed, Laid
    <3>3. t.by = "results"
      BY <1>4, <1>11, <3>1, <3>2 DEF Placed
    <3> DEFINE N == Len(T)
               u == T[N]
    <3>4. /\ TurnIs(N, u) /\ TurnIs(N + 1, t) /\ u.by = "model" /\ Returned(N, u.calls, t.results)
          /\ T # <<>> /\ N \in DOMAIN T /\ n \in DOMAIN U /\ ListOf(t) = t.results
      <4>1. N \in DOMAIN T
        BY <1>1, <3>3, EmptySeq
      <4> QED  BY <1>1, <3>3, <4>1 DEF ListOf
    <3>5. EndsWithCalls(d, I, u)
      BY <3>4 DEF Holds
    <3>6. d = "functions" => Len(u.calls) <= 1
      BY <2>1, <3>4 DEF Usable
    <3>7. CallsNamed(d, I)
      BY DEF Holds
    <3>8. Laid(d, B, N + 1, t, m, at)
      OBVIOUS
    <3> HIDE DEF N, u
    <3>9. ResultReaches(d, I \o B, at[i] + Len(I))
      BY <1>2, <3>2, <3>3, <3>4, <3>5, <3>6, <3>7, <3>8, ResultFinds
    <3> QED  BY <3>1, <3>2, <3>9 DEF C
  <2> QED  BY <2>2, <2>3
<1>12. C # <<>>
  <2>1. Len(B) # 0
    BY <1>2, EmptySeq
  <2>2. Len(C) # 0
    BY <1>3, <2>1
  <2> QED  BY <2>2, EmptySeq
<1>13. EndsWithCalls(d, C, t)
  <2>1. CASE t.calls = <<>>
    BY <1>3, <2>1 DEF EndsWithCalls
  <2>2. CASE t.calls # <<>>
    <3>1. t.by = "model" /\ ListOf(t) = t.calls
      BY <2>2 DEF TurnIs, UserTurn, ModelTurn, ResultsTurn, ListOf
    <3> DEFINE k == Len(t.calls)
    <3>2. k \in Nat \ {0} /\ DOMAIN t.calls = 1 .. k
      <4>1. t.calls \in Seq(CallMade)
        BY DEF TurnIs, TurnRecord
      <4> QED  BY <2>2, <4>1, EmptySeq, LenProperties
    <3>3. \A i \in 1 .. k : /\ at[i] = Len(B) - k + i /\ at[i] \in DOMAIN B
                            /\ B[at[i]] = ItemOf(d, t, i)
      BY <3>1, <3>2 DEF Laid
    <3> HIDE DEF k
    <3>4. k <= Len(B)
      <4>1. 1 \in 1 .. k
        BY <3>2
      <4>2. Len(B) - k + 1 \in 1 .. Len(B)
        BY <1>3, <3>3, <4>1
      <4> QED  BY <1>3, <3>2, <4>2
    <3>5. ASSUME NEW i \in 1 .. k PROVE C[Len(C) - k + i] = ItemOf(d, t, i)
      <4>1. Len(C) - k + i = at[i] + Len(I)
        BY <1>3, <3>2, <3>3
      <4> QED  BY <1>3, <3>3, <4>1
    <3>6. k <= Len(C)
      BY <1>3, <3>2, <3>4
    <3> QED  BY <3>2, <3>5, <3>6 DEF EndsWithCalls, k
  <2> QED  BY <2>1, <2>2
<1>14. /\ Usable(d, U) => Found(d, C)
       /\ CallsNamed(d, C)
       /\ U # <<>> => C # <<>> /\ EndsWithCalls(d, C, U[Len(U)])
  BY <1>1, <1>10, <1>11, <1>12, <1>13 DEF Found, CallsNamed
<1> QED
  BY <1>3, <1>7, <1>8, <1>9, <1>14 DEF Holds, C, U

-----------------------------------------------------------------------------
(* The items of a turn, in each format *)

\* The items for the calls or results of a turn, and the images behind results.
Pieces(d, n, t, R, at) ==
    /\ R \in Seq(InputItem)
    /\ at \in [DOMAIN ListOf(t) -> DOMAIN R]
    /\ \A i, j \in DOMAIN ListOf(t) : i < j => at[i] < at[j]
    /\ \A i \in DOMAIN ListOf(t) : R[at[i]] = ItemOf(d, t, i)
    /\ \A p \in DOMAIN R :
          \/ \E i \in DOMAIN ListOf(t) : p = at[i]
          \/ /\ d = "anthropic" /\ t.by = "results" /\ ShownAt(R, p, n)
             /\ \E i \in DOMAIN ListOf(t) : p = at[i] + 1
    /\ d = "anthropic" /\ t.by = "results"
          => \A i \in DOMAIN ListOf(t) : ListOf(t)[i].shown <=> ShownAt(R, at[i] + 1, n)

\* What is said in a turn is one message, or none beside calls or results.
LEMMA SaidOnce ==
    ASSUME NEW n, NEW t, TurnIs(n, t)
    PROVE  LET M == Said(Role(t), n, t)  x == Message(Role(t), n, t.text, t.image) IN
           /\ M \in Seq(InputItem)
           /\ \/ M = <<x>> /\ Len(M) = 1
              \/ M = <<>> /\ Len(M) = 0 /\ ~t.text /\ t.by # "user" /\ ListOf(t) # <<>>
<1> DEFINE x == Message(Role(t), n, t.text, t.image)
<1>1. x \in InputItem
  <2>1. /\ n \in Nat /\ t.text \in BOOLEAN /\ t.image \in BOOLEAN
        /\ Role(t) \in {"user", "assistant"}
    BY DEF TurnIs, TurnRecord, Role
  <2> QED  BY <2>1, MessageMade
<1>2. ~ (t.text \/ t.image \/ (t.calls = <<>> /\ t.results = <<>>))
      => ~t.text /\ t.by # "user" /\ ListOf(t) # <<>>
  BY DEF TurnIs, UserTurn, ModelTurn, ResultsTurn, ListOf
<1> HIDE DEF x
<1>3. <<x>> \in Seq(InputItem) /\ Len(<<x>>) = 1 /\ <<>> \in Seq(InputItem) /\ Len(<<>>) = 0
  BY <1>1
<1>4. Said(Role(t), n, t) = IF t.text \/ t.image \/ (t.calls = <<>> /\ t.results = <<>>)
                           THEN <<x>> ELSE <<>>
  BY DEF Said, x
<1> QED  BY <1>2, <1>3, <1>4 DEF x

\* The message comes first.
LEMMA MessageFirst ==
    ASSUME NEW d \in Dialects, NEW n, NEW t, TurnIs(n, t), NEW R, NEW at, Pieces(d, n, t, R, at)
    PROVE  LET M == Said(Role(t), n, t) IN
           Laid(d, M \o R, n, t, Len(M), [i \in DOMAIN ListOf(t) |-> at[i] + Len(M)])
<1> DEFINE M == Said(Role(t), n, t)
           x == Message(Role(t), n, t.text, t.image)
           B == M \o R
           L == ListOf(t)
           moved == [i \in DOMAIN L |-> at[i] + Len(M)]
<1>1. /\ M \in Seq(InputItem)
      /\ \/ M = <<x>> /\ Len(M) = 1
         \/ M = <<>> /\ Len(M) = 0 /\ ~t.text /\ t.by # "user" /\ L # <<>>
  BY SaidOnce
<1>2. R \in Seq(InputItem)
  BY DEF Pieces
<1> HIDE DEF M
<1>3. /\ B \in Seq(InputItem) /\ Len(B) = Len(M) + Len(R)
      /\ Len(M) \in Nat /\ Len(R) \in Nat
      /\ DOMAIN M = 1 .. Len(M) /\ DOMAIN R = 1 .. Len(R)
      /\ DOMAIN B = 1 .. Len(M) + Len(R)
      /\ \A p \in DOMAIN M : B[p] = M[p]
      /\ \A p \in DOMAIN R : B[p + Len(M)] = R[p]
      /\ \A p \in DOMAIN B : p \notin DOMAIN M => p - Len(M) \in DOMAIN R /\ B[p] = R[p - Len(M)]
  BY <1>1, <1>2, EndToEnd
<1> HIDE DEF B
<1>4. \A i \in DOMAIN L : at[i] \in DOMAIN R /\ at[i] \in Nat \ {0} /\ moved[i] \in DOMAIN B
                          /\ moved[i] = at[i] + Len(M)
  BY <1>3 DEF Pieces
<1>5. moved \in [DOMAIN L -> DOMAIN B]
  BY <1>4
<1> HIDE DEF moved
<1>6. \A i, j \in DOMAIN L : i < j => moved[i] < moved[j]
  BY <1>3, <1>4 DEF Pieces
<1>7. \A i \in DOMAIN L : B[moved[i]] = ItemOf(d, t, i)
  BY <1>3, <1>4 DEF Pieces
<1>8. B # <<>>
  <2>1. CASE Len(M) = 1
    <3>1. Len(B) # 0
      BY <1>3, <2>1
    <3> QED  BY <3>1, EmptySeq
  <2>2. CASE Len(M) # 1
    <3>1. L # <<>> /\ L \in Seq(CallMade)
      BY <1>1, <2>2 DEF ListOf, TurnIs, TurnRecord
    <3>2. 1 \in DOMAIN L
      BY <3>1, EmptySeq, LenProperties
    <3>3. at[1] \in DOMAIN R
      BY <1>4, <3>2
    <3>4. Len(B) # 0
      BY <1>3, <3>3
    <3> QED  BY <3>4, EmptySeq
  <2> QED  BY <2>1, <2>2
<1>9. /\ Len(M) # 0 => Len(M) \in DOMAIN B /\ B[Len(M)] = x
      /\ Len(M) = 0 => ~t.text /\ t.by # "user"
  <2>1. ASSUME Len(M) # 0 PROVE Len(M) \in DOMAIN B /\ B[Len(M)] = x
    <3>1. M = <<x>> /\ Len(M) = 1
      BY <1>1, <2>1
    <3>2. 1 \in DOMAIN M /\ M[1] = x
      BY <1>3, <3>1
    <3> QED  BY <1>3, <3>1, <3>2
  <2>2. ASSUME Len(M) = 0 PROVE ~t.text /\ t.by # "user"
    BY <1>1, <2>2
  <2> HIDE DEF x
  <2> QED  BY <2>1, <2>2
<1>10. \A p : p \in Nat \ {0} => (ShownAt(R, p, n) <=> ShownAt(B, p + Len(M), n))
  <2> SUFFICES ASSUME NEW p \in Nat \ {0}
               PROVE  ShownAt(R, p, n) <=> ShownAt(B, p + Len(M), n)
    OBVIOUS
  <2>1. p \in DOMAIN R <=> p + Len(M) \in DOMAIN B
    BY <1>3
  <2>2. p \in DOMAIN R => B[p + Len(M)] = R[p]
    BY <1>3
  <2> QED  BY <2>1, <2>2 DEF ShownAt
<1>11. ASSUME NEW p \in DOMAIN B
       PROVE  \/ p = Len(M)
              \/ \E i \in DOMAIN L : p = moved[i]
              \/ /\ d = "anthropic" /\ t.by = "results" /\ ShownAt(B, p, n)
                 /\ \E i \in DOMAIN L : p = moved[i] + 1
  <2>1. CASE p \in DOMAIN M
    BY <1>1, <1>3, <2>1
  <2>2. CASE p \notin DOMAIN M
    <3>1. p - Len(M) \in DOMAIN R /\ p - Len(M) \in Nat \ {0} /\ (p - Len(M)) + Len(M) = p
          /\ p \in Nat
      BY <1>3, <2>2
    <3>2. CASE \E i \in DOMAIN L : p - Len(M) = at[i]
      <4>1. PICK i \in DOMAIN L : p - Len(M) = at[i]
        BY <3>2
      <4>2. p = moved[i]
        BY <1>3, <1>4, <3>1, <4>1
      <4> QED  BY <4>2
    <3>3. CASE /\ d = "anthropic" /\ t.by = "results" /\ ShownAt(R, p - Len(M), n)
               /\ \E i \in DOMAIN L : p - Len(M) = at[i] + 1
      <4>1. PICK i \in DOMAIN L : p - Len(M) = at[i] + 1
        BY <3>3
      <4>2. p = moved[i] + 1
        BY <1>3, <1>4, <3>1, <4>1
      <4>3. ShownAt(B, p, n)
        BY <1>10, <3>1, <3>3
      <4> QED  BY <3>3, <4>2, <4>3
    <3> QED  BY <3>1, <3>2, <3>3 DEF Pieces
  <2> QED  BY <2>1, <2>2
<1>12. ASSUME d = "anthropic", t.by = "results", NEW i \in DOMAIN L
       PROVE  (L[i].shown <=> ShownAt(B, moved[i] + 1, n)) /\ Len(M) < moved[i]
  <2>1. L[i].shown <=> ShownAt(R, at[i] + 1, n)
    BY <1>12 DEF Pieces
  <2>2. moved[i] + 1 = (at[i] + 1) + Len(M) /\ at[i] + 1 \in Nat \ {0} /\ Len(M) < moved[i]
    BY <1>3, <1>4
  <2> QED  BY <1>10, <2>1, <2>2
<1> QED
  <2>1. Laid(d, B, n, t, Len(M), moved)
    BY <1>3, <1>5, <1>6, <1>7, <1>8, <1>9, <1>11, <1>12 DEF Laid
  <2> QED  BY <2>1 DEF B, M, moved

\* The message comes last, behind results that are no Anthropic results.
LEMMA MessageLast ==
    ASSUME NEW d \in {"openai", "functions"}, NEW n, NEW t, TurnIs(n, t), t.by = "results",
           NEW R, NEW at, Pieces(d, n, t, R, at)
    PROVE  LET M == Said(Role(t), n, t) IN
           \E m : Laid(d, R \o M, n, t, m, at)
<1> DEFINE M == Said(Role(t), n, t)
           x == Message(Role(t), n, t.text, t.image)
           B == R \o M
           L == ListOf(t)
           m == IF Len(M) = 1 THEN Len(R) + 1 ELSE 0
<1>1. /\ M \in Seq(InputItem)
      /\ \/ M = <<x>> /\ Len(M) = 1
         \/ M = <<>> /\ Len(M) = 0 /\ ~t.text /\ t.by # "user" /\ L # <<>>
  BY SaidOnce
<1>2. R \in Seq(InputItem)
  BY DEF Pieces
<1> HIDE DEF M
<1>3. /\ B \in Seq(InputItem) /\ Len(B) = Len(R) + Len(M)
      /\ Len(M) \in Nat /\ Len(R) \in Nat
      /\ DOMAIN M = 1 .. Len(M) /\ DOMAIN R = 1 .. Len(R)
      /\ DOMAIN B = 1 .. Len(R) + Len(M)
      /\ \A p \in DOMAIN R : B[p] = R[p]
      /\ \A p \in DOMAIN M : B[p + Len(R)] = M[p]
      /\ \A p \in DOMAIN B : p \notin DOMAIN R => p - Len(R) \in DOMAIN M /\ B[p] = M[p - Len(R)]
  BY <1>1, <1>2, EndToEnd
<1> HIDE DEF B
<1>4. \A i \in DOMAIN L : at[i] \in DOMAIN R /\ at[i] \in DOMAIN B
  BY <1>3 DEF Pieces
<1>5. at \in [DOMAIN L -> DOMAIN B] /\ \A i, j \in DOMAIN L : i < j => at[i] < at[j]
  BY <1>4 DEF Pieces
<1>6. \A i \in DOMAIN L : B[at[i]] = ItemOf(d, t, i)
  BY <1>3, <1>4 DEF Pieces
<1>7. B # <<>>
  <2>1. L # <<>> /\ L \in Seq(CallMade)
    <3>1. t.results \in Seq(CallMade)
      BY DEF TurnIs, TurnRecord
    <3>2. Len(t.results) \in 1 .. 2
      BY DEF TurnIs, UserTurn, ModelTurn, ResultsTurn
    <3>3. L = t.results
      BY DEF ListOf
    <3> HIDE DEF L
    <3>4. Len(L) # 0
      BY <3>2, <3>3
    <3>5. L # <<>>
      BY <3>4, EmptySeq
    <3> QED  BY <3>1, <3>3, <3>5
  <2>2. 1 \in DOMAIN L
    BY <2>1, EmptySeq, LenProperties
  <2>3. Len(B) # 0
    BY <1>3, <1>4, <2>2
  <2> QED  BY <2>3, EmptySeq
<1>8. /\ m # 0 => m \in DOMAIN B /\ B[m] = x
      /\ m = 0 => ~t.text /\ t.by # "user"
  <2>1. CASE Len(M) = 1
    <3>1. M = <<x>>
      BY <1>1, <2>1
    <3>2. 1 \in DOMAIN M /\ M[1] = x
      BY <1>3, <2>1, <3>1
    <3>3. m = 1 + Len(R) /\ m # 0 /\ m \in DOMAIN B /\ B[m] = x
      BY <1>3, <2>1, <3>2
    <3> QED  BY <3>3
  <2>2. CASE Len(M) # 1
    BY <1>1, <2>2
  <2> QED  BY <2>1, <2>2
<1>9. ASSUME NEW p \in DOMAIN B PROVE p = m \/ \E i \in DOMAIN L : p = at[i]
  <2>1. CASE p \in DOMAIN R
    BY <2>1 DEF Pieces
  <2>2. CASE p \notin DOMAIN R
    BY <1>1, <1>3, <2>2
  <2> QED  BY <2>1, <2>2
<1> HIDE DEF m
<1>10. d # "anthropic"
  OBVIOUS
<1> QED
  <2>1. Laid(d, B, n, t, m, at)
    BY <1>3, <1>5, <1>6, <1>7, <1>8, <1>9, <1>10 DEF Laid
  <2> QED  BY <2>1 DEF B, M

\* The items for calls or results, one behind another.
LEMMA PlainPieces ==
    ASSUME NEW d \in Dialects, NEW n, NEW t, TurnIs(n, t), d = "anthropic" => t.by # "results"
    PROVE  LET R == [i \in DOMAIN ListOf(t) |-> ItemOf(d, t, i)] IN
           /\ Pieces(d, n, t, R, [i \in DOMAIN ListOf(t) |-> i])
           /\ R \in Seq(InputItem) /\ Len(R) = Len(ListOf(t))
<1> DEFINE L == ListOf(t)
           R == [i \in DOMAIN L |-> ItemOf(d, t, i)]
           at == [i \in DOMAIN L |-> i]
<1>1. L \in Seq(CallMade)
  BY DEF ListOf, TurnIs, TurnRecord
<1>2. DOMAIN L = 1 .. Len(L) /\ Len(L) \in Nat
  BY <1>1, LenProperties
<1>3. \A i \in DOMAIN L : ItemOf(d, t, i) \in InputItem
  BY ListItems
<1>4. R \in Seq(InputItem) /\ Len(R) = Len(L) /\ DOMAIN R = DOMAIN L
  BY <1>2, <1>3
<1>5. at \in [DOMAIN L -> DOMAIN R] /\ \A i \in DOMAIN L : R[at[i]] = ItemOf(d, t, i) /\ at[i] = i
  BY <1>4
<1> QED
  <2> HIDE DEF L, at, R
  <2>1. \A p \in DOMAIN R : \E i \in DOMAIN L : p = at[i]
    BY <1>4, <1>5
  <2>2. \A i, j \in DOMAIN L : i < j => at[i] < at[j]
    BY <1>5
  <2>3. Pieces(d, n, t, R, at)
    BY <1>4, <1>5, <2>1, <2>2 DEF Pieces, L
  <2> QED  BY <1>4, <2>3 DEF L, R, at

\* An Anthropic result of turn n, and its image.
WithImage(n, c, i) ==
    <<Output(<<"id", c.id>>, c, i)>>
    \o IF c.shown THEN <<Message("user", n, FALSE, TRUE)>> ELSE <<>>

LEMMA ResultItems ==
    ASSUME NEW n \in Nat, NEW c \in CallMade, NEW i \in Nat
    PROVE  /\ WithImage(n, c, i) \in Seq(InputItem)
           /\ Len(WithImage(n, c, i)) = (IF c.shown THEN 2 ELSE 1)
           /\ WithImage(n, c, i)[1] = Output(<<"id", c.id>>, c, i)
           /\ c.shown => WithImage(n, c, i)[2] = Message("user", n, FALSE, TRUE)
           /\ Message("user", n, FALSE, TRUE) \in InputItem
           /\ Message("user", n, FALSE, TRUE).kind = "message"
           /\ Output(<<"id", c.id>>, c, i).kind = "output"
<1> DEFINE o == Output(<<"id", c.id>>, c, i)
           x == Message("user", n, FALSE, TRUE)
<1>1. o \in InputItem /\ o.kind = "output"
  <2>1. <<"id", c.id>> \in ItemId
    BY DEF ItemId, CallMade
  <2> QED  BY <2>1, OutputItem
<1>2. x \in InputItem /\ x.kind = "message"
  <2>1. "user" \in {"user", "assistant"} /\ TRUE \in BOOLEAN /\ FALSE \in BOOLEAN
    OBVIOUS
  <2> QED  BY <2>1, MessageMade
<1>3. c.shown \in BOOLEAN
  BY DEF CallMade
<1> HIDE DEF o, x
<1>4. CASE c.shown
  <2>1. WithImage(n, c, i) = <<o>> \o <<x>>
    BY <1>4 DEF WithImage, o, x
  <2> DEFINE y == <<o>>  z == <<x>>
  <2>2. /\ y \in Seq(InputItem) /\ Len(y) = 1 /\ y[1] = o
        /\ z \in Seq(InputItem) /\ Len(z) = 1 /\ z[1] = x
    BY <1>1, <1>2
  <2>3. WithImage(n, c, i) = y \o z
    BY <2>1
  <2> HIDE DEF y, z
  <2>4. /\ y \o z \in Seq(InputItem) /\ Len(y \o z) = 2
        /\ (y \o z)[1] = o /\ (y \o z)[2] = x
    <3> DEFINE w == y \o z
    <3>1. Joined(InputItem, w, y, z)
      <4>1. y \in Seq(InputItem) /\ z \in Seq(InputItem)
        BY <2>2
      <4> QED  BY <4>1, TwoJoined, Zenon
    <3> HIDE DEF w
    <3>2. 1 \in DOMAIN y /\ 1 \in DOMAIN z /\ 1 + Len(y) = 2 /\ Len(y) + Len(z) = 2
      BY <2>2, <3>1 DEF Joined
    <3>3. w[1] = y[1] /\ w[1 + Len(y)] = z[1] /\ w \in Seq(InputItem) /\ Len(w) = 2
      BY <3>1, <3>2 DEF Joined
    <3> QED  BY <2>2, <3>2, <3>3 DEF w
  <2>5. /\ WithImage(n, c, i) \in Seq(InputItem) /\ Len(WithImage(n, c, i)) = 2
        /\ WithImage(n, c, i)[1] = o /\ WithImage(n, c, i)[2] = x
    BY <2>3, <2>4
  <2> QED  BY <1>1, <1>2, <1>4, <2>5 DEF o, x
<1>5. CASE ~c.shown
  <2>1. WithImage(n, c, i) = <<o>> \o <<>>
    BY <1>5 DEF WithImage, o
  <2>2. <<o>> \in Seq(InputItem) /\ Len(<<o>>) = 1
    BY <1>1
  <2>3. <<o>> \o <<>> = <<o>>
    BY <2>2, ConcatEmptySeq
  <2>4. /\ WithImage(n, c, i) \in Seq(InputItem) /\ Len(WithImage(n, c, i)) = 1
        /\ WithImage(n, c, i)[1] = o
    BY <2>1, <2>2, <2>3
  <2> QED  BY <1>1, <1>2, <1>5, <2>4 DEF o, x
<1> QED  BY <1>3, <1>4, <1>5

\* The Anthropic results of a turn, each with its image behind it.
LEMMA ShownPieces ==
    ASSUME NEW n, NEW t, TurnIs(n, t), t.by = "results"
    PROVE  LET R == FlattenSeq([i \in DOMAIN t.results |-> WithImage(n, t.results[i], i)]) IN
           \E at : Pieces("anthropic", n, t, R, at)
<1> DEFINE L == t.results
           S == [i \in DOMAIN L |-> WithImage(n, L[i], i)]
           R == FlattenSeq(S)
           a == WithImage(n, L[1], 1)
           b == WithImage(n, L[2], 2)
           x == Message("user", n, FALSE, TRUE)
           at == [i \in DOMAIN L |-> IF i = 1 THEN 1 ELSE Len(a) + 1]
<1>1. /\ n \in Nat /\ L \in Seq(CallMade) /\ DOMAIN L = 1 .. Len(L) /\ Len(L) \in {1, 2}
      /\ ListOf(t) = L /\ 1 \in DOMAIN L
  <2>1. n \in Nat /\ L \in Seq(CallMade)
    BY DEF TurnIs, TurnRecord
  <2>2. Len(L) \in 1 .. 2
    BY DEF TurnIs, UserTurn, ModelTurn, ResultsTurn
  <2> QED  BY <2>1, <2>2, LenProperties DEF ListOf
<1>2. \A i \in DOMAIN L : /\ L[i] \in CallMade
                          /\ ItemOf("anthropic", t, i) = Output(<<"id", L[i].id>>, L[i], i)
  <2>1. \A i \in DOMAIN L : L[i] \in CallMade
    BY <1>1, ElementOfSeq
  <2> QED  BY <1>1, <2>1 DEF ItemOf, IdOf
<1>3. /\ a \in Seq(InputItem) /\ Len(a) = (IF L[1].shown THEN 2 ELSE 1)
      /\ a[1] = ItemOf("anthropic", t, 1) /\ (L[1].shown => a[2] = x)
      /\ DOMAIN a = 1 .. Len(a)
      /\ \A i \in DOMAIN L : ItemOf("anthropic", t, i) # x
  <2>1. L[1] \in CallMade
    BY <1>1, <1>2
  <2>2. \A i \in DOMAIN L : ItemOf("anthropic", t, i) # x
    <3> SUFFICES ASSUME NEW i \in DOMAIN L PROVE ItemOf("anthropic", t, i) # x
      OBVIOUS
    <3>1. L[i] \in CallMade
      BY <1>2
    <3>2. i \in Nat
      BY <1>1
    <3> HIDE DEF L
    <3>3. Output(<<"id", L[i].id>>, L[i], i).kind = "output" /\ x.kind = "message"
      BY <1>1, <3>1, <3>2, ResultItems
    <3> QED  BY <1>2, <3>3
  <2>3. a \in Seq(InputItem) /\ Len(a) = (IF L[1].shown THEN 2 ELSE 1)
        /\ a[1] = Output(<<"id", L[1].id>>, L[1], 1) /\ (L[1].shown => a[2] = x)
    <3> HIDE DEF L
    <3>1. n \in Nat /\ 1 \in Nat
      BY <1>1
    <3> QED  BY <2>1, <3>1, ResultItems, Zenon
  <2> QED  BY <1>1, <1>2, <2>2, <2>3, LenProperties
<1> HIDE DEF a, b, x
<1>4. CASE Len(L) = 1
  <2>1. S = Append(<<>>, a)
    <3>1. DOMAIN L = 1 .. 1
      BY <1>1, <1>4
    <3>2. S = [i \in 1 .. 1 |-> WithImage(n, L[i], i)]
      BY <3>1
    <3>3. S = <<a>>
      BY <3>2 DEF a
    <3> QED  BY <3>3
  <2>2. R = a
    <3>1. <<>> \in Seq(Seq(InputItem))
      BY EmptySeq
    <3>2. FlattenSeq(Append(<<>>, a)) = FlattenSeq(<<>>) \o a /\ FlattenSeq(<<>>) = <<>>
      BY <1>3, <3>1, FlattenAppended
    <3>3. <<>> \o a = a
      BY <1>3, ConcatEmptySeq
    <3> QED  BY <2>1, <3>2, <3>3
  <2> HIDE DEF R
  <2>3. DOMAIN L = {1} /\ at = [i \in {1} |-> 1] /\ at[1] = 1
    BY <1>1, <1>4
  <2> HIDE DEF at
  <2>4. at \in [DOMAIN L -> DOMAIN R]
    BY <1>3, <2>2, <2>3
  <2>5. \A p : ShownAt(R, p, n) <=> p \in DOMAIN a /\ a[p] = x
    BY <2>2 DEF ShownAt, x
  <2>6. L[1].shown <=> 2 \in DOMAIN a /\ a[2] = x
    BY <1>3
  <2>7. \A p \in DOMAIN R : p = 1 \/ (p = 2 /\ ShownAt(R, p, n))
    BY <1>3, <2>2, <2>5
  <2>8. Pieces("anthropic", n, t, R, at)
    BY <1>1, <1>3, <2>2, <2>3, <2>4, <2>5, <2>6, <2>7 DEF Pieces
  <2> QED  BY <2>8 DEF R
<1>5. CASE Len(L) = 2
  <2>0. DOMAIN L = {1, 2}
    BY <1>1, <1>5
  <2>1. S = Append(Append(<<>>, a), b)
    <3>1. DOMAIN L = 1 .. 2
      BY <1>1, <1>5
    <3>2. S = [i \in 1 .. 2 |-> WithImage(n, L[i], i)]
      BY <3>1
    <3>3. S = <<a, b>>
      BY <3>2 DEF a, b
    <3> QED  BY <3>3
  <2>2. /\ b \in Seq(InputItem) /\ Len(b) = (IF L[2].shown THEN 2 ELSE 1)
        /\ b[1] = ItemOf("anthropic", t, 2) /\ (L[2].shown => b[2] = x)
        /\ DOMAIN b = 1 .. Len(b)
    <3>1. L[2] \in CallMade
      BY <1>2, <2>0
    <3>2. b \in Seq(InputItem) /\ Len(b) = (IF L[2].shown THEN 2 ELSE 1)
          /\ b[1] = Output(<<"id", L[2].id>>, L[2], 2) /\ (L[2].shown => b[2] = x)
      <4> HIDE DEF L
      <4>1. n \in Nat /\ 2 \in Nat
        BY <1>1
      <4> QED  BY <3>1, <4>1, ResultItems, Zenon DEF b, x
    <3> QED  BY <1>2, <2>0, <3>2, LenProperties
  <2>3. R = a \o b
    <3>1. <<>> \in Seq(Seq(InputItem)) /\ Append(<<>>, a) \in Seq(Seq(InputItem))
      BY <1>3, EmptySeq, AppendProperties
    <3>2. FlattenSeq(Append(<<>>, a)) = FlattenSeq(<<>>) \o a /\ FlattenSeq(<<>>) = <<>>
      BY <1>3, <3>1, FlattenAppended
    <3>3. <<>> \o a = a
      BY <1>3, ConcatEmptySeq
    <3>4. FlattenSeq(Append(Append(<<>>, a), b)) = FlattenSeq(Append(<<>>, a)) \o b
      BY <2>2, <3>1, FlattenAppended
    <3> QED  BY <2>1, <3>2, <3>3, <3>4
  <2>4. /\ R \in Seq(InputItem) /\ Len(R) = Len(a) + Len(b)
        /\ DOMAIN R = 1 .. Len(a) + Len(b)
        /\ \A p \in DOMAIN a : R[p] = a[p]
        /\ \A p \in DOMAIN b : R[p + Len(a)] = b[p]
    <3> HIDE DEF R
    <3>1. a \in Seq(InputItem) /\ b \in Seq(InputItem)
      BY <1>3, <2>2
    <3> HIDE DEF L, S, at
    <3>2. Joined(InputItem, a \o b, a, b)
      BY <3>1, TwoJoined, Zenon
    <3>3. Joined(InputItem, R, a, b)
      BY <2>3, <3>2
    <3> QED  BY <3>3 DEF Joined
  <2> HIDE DEF R
  <2>5. Len(a) \in {1, 2} /\ Len(b) \in {1, 2} /\ at[1] = 1 /\ at[2] = Len(a) + 1
        /\ at = [i \in {1, 2} |-> IF i = 1 THEN 1 ELSE Len(a) + 1]
    BY <1>3, <2>0, <2>2
  <2> HIDE DEF at
  <2>6. /\ 1 \in DOMAIN R /\ R[1] = ItemOf("anthropic", t, 1)
        /\ Len(a) + 1 \in DOMAIN R /\ R[Len(a) + 1] = ItemOf("anthropic", t, 2)
    <3>1. 1 \in DOMAIN a /\ 1 \in DOMAIN b
      BY <1>3, <2>2
    <3>2. R[1 + Len(a)] = b[1] /\ 1 + Len(a) = Len(a) + 1
      BY <2>4, <2>5, <3>1
    <3> QED  BY <1>3, <2>2, <2>4, <2>5, <3>1, <3>2
  <2>7. L[1].shown <=> 2 \in DOMAIN R /\ R[2] = x
    <3>1. CASE L[1].shown
      <4>1. 2 \in DOMAIN a
        BY <1>3, <3>1
      <4> QED  BY <1>3, <2>4, <2>5, <3>1, <4>1
    <3>2. CASE ~L[1].shown
      <4>1. Len(a) = 1
        BY <1>3, <3>2
      <4> QED  BY <1>3, <2>0, <2>6, <3>2, <4>1
    <3> QED  BY <3>1, <3>2
  <2>8. L[2].shown <=> Len(a) + 2 \in DOMAIN R /\ R[Len(a) + 2] = x
    <3>1. CASE L[2].shown
      <4>1. 2 \in DOMAIN b /\ b[2] = x
        BY <2>2, <3>1
      <4>2. R[2 + Len(a)] = b[2] /\ 2 + Len(a) = Len(a) + 2
        BY <2>4, <2>5, <4>1
      <4>3. Len(b) = 2
        BY <2>2, <3>1
      <4>4. Len(a) + 2 \in DOMAIN R
        BY <2>4, <2>5, <4>3
      <4> QED  BY <3>1, <4>1, <4>2, <4>4
    <3>2. CASE ~L[2].shown
      <4>1. Len(b) = 1
        BY <2>2, <3>2
      <4>2. Len(a) + 2 \notin DOMAIN R
        BY <2>4, <2>5, <4>1
      <4> QED  BY <3>2, <4>2
    <3> QED  BY <3>1, <3>2
  <2>9. ASSUME NEW p \in DOMAIN R
        PROVE  p = 1 \/ p = Len(a) + 1 \/ (ShownAt(R, p, n) /\ (p = 2 \/ p = Len(a) + 2))
    <3>1. p \in Nat /\ p >= 1 /\ p <= Len(a) + Len(b)
      BY <2>4, <2>5
    <3>2. CASE p = 2 /\ Len(a) = 2
      <4>1. L[1].shown
        BY <1>3, <3>2
      <4> QED  BY <2>7, <3>2, <4>1 DEF ShownAt, x
    <3>3. CASE p = Len(a) + 2
      <4>1. Len(b) = 2
        BY <2>5, <3>1, <3>3
      <4>2. L[2].shown
        BY <2>2, <4>1
      <4> QED  BY <2>8, <3>3, <4>2 DEF ShownAt, x
    <3>4. p = 1 \/ p = Len(a) + 1 \/ (p = 2 /\ Len(a) = 2) \/ p = Len(a) + 2
      <4>1. \A k, j \in {1, 2} : p <= k + j =>
               p = 1 \/ p = k + 1 \/ (p = 2 /\ k = 2) \/ p = k + 2
        BY <3>1
      <4>2. Len(a) \in {1, 2} /\ Len(b) \in {1, 2} /\ p <= Len(a) + Len(b)
        BY <2>5, <3>1
      <4> QED  BY <4>1, <4>2
    <3> QED  BY <3>2, <3>3, <3>4
  <2>10. at \in [DOMAIN L -> DOMAIN R]
    BY <2>0, <2>5, <2>6
  <2>11. \A i, j \in DOMAIN L : i < j => at[i] < at[j]
    BY <2>0, <2>5
  <2>12. \A i \in DOMAIN L : R[at[i]] = ItemOf("anthropic", t, i)
    BY <2>0, <2>5, <2>6
  <2>13. \A i \in DOMAIN L : L[i].shown <=> ShownAt(R, at[i] + 1, n)
    <3>1. at[1] + 1 = 2 /\ at[2] + 1 = Len(a) + 2
      BY <2>5
    <3>2. \A p : ShownAt(R, p, n) <=> p \in DOMAIN R /\ R[p] = x
      BY DEF ShownAt, x
    <3> QED  BY <2>0, <2>7, <2>8, <3>1, <3>2
  <2>14. \A p \in DOMAIN R :
            \/ \E i \in DOMAIN L : p = at[i]
            \/ ShownAt(R, p, n) /\ \E i \in DOMAIN L : p = at[i] + 1
    <3>1. at[1] + 1 = 2 /\ at[2] + 1 = Len(a) + 2 /\ 1 \in DOMAIN L /\ 2 \in DOMAIN L
      BY <2>0, <2>5
    <3> QED  BY <2>5, <2>9, <3>1
  <2> HIDE DEF L
  <2>15. Pieces("anthropic", n, t, R, at)
    BY <1>1, <2>4, <2>10, <2>11, <2>12, <2>13, <2>14 DEF Pieces
  <2> QED  BY <2>15 DEF R, L
<1> HIDE DEF R
<1> QED  BY <1>1, <1>4, <1>5

\* The items B of turn n are laid out somehow, the calls of an answer at their end.
LaidOut(d, B, n, t) ==
    \E m, at : /\ Laid(d, B, n, t, m, at)
               /\ t.by = "model" => \A i \in DOMAIN t.calls : at[i] = Len(B) - Len(t.calls) + i

\* The items for the calls or results of a turn.
Listed(d, t) == [i \in DOMAIN ListOf(t) |-> ItemOf(d, t, i)]

\* The message, and then the calls or results.
LEMMA SaidAndListed ==
    ASSUME NEW d \in Dialects, NEW n, NEW t, TurnIs(n, t), d = "anthropic" => t.by # "results"
    PROVE  /\ LaidOut(d, Said(Role(t), n, t) \o Listed(d, t), n, t)
           /\ Said(Role(t), n, t) \in Seq(InputItem) /\ Listed(d, t) \in Seq(InputItem)
<1> DEFINE M == Said(Role(t), n, t)
           R == Listed(d, t)
           at == [i \in DOMAIN ListOf(t) |-> i]
           moved == [i \in DOMAIN ListOf(t) |-> at[i] + Len(M)]
<1>1. Pieces(d, n, t, R, at) /\ R \in Seq(InputItem) /\ Len(R) = Len(ListOf(t))
  BY PlainPieces DEF Listed
<1>2. M \in Seq(InputItem)
  BY SaidOnce
<1> HIDE DEF R, M
<1>3. Laid(d, M \o R, n, t, Len(M), moved)
  <2> HIDE DEF at, moved
  <2>1. Laid(d, Said(Role(t), n, t) \o R, n, t, Len(Said(Role(t), n, t)),
             [i \in DOMAIN ListOf(t) |-> at[i] + Len(Said(Role(t), n, t))])
    BY <1>1, MessageFirst
  <2> QED  BY <2>1 DEF M, moved
<1>4. Len(M \o R) = Len(M) + Len(R) /\ Len(M) \in Nat /\ Len(R) \in Nat
  BY <1>1, <1>2, EndToEnd
<1>5. ASSUME t.by = "model", NEW i \in DOMAIN t.calls
      PROVE  moved[i] = Len(M \o R) - Len(t.calls) + i
  <2>1. ListOf(t) = t.calls
    BY <1>5 DEF ListOf
  <2>2. i \in Nat
    <3>1. t.calls \in Seq(CallMade)
      BY DEF TurnIs, TurnRecord
    <3> QED  BY <3>1, LenProperties
  <2>3. moved[i] = i + Len(M)
    BY <2>1
  <2> HIDE DEF moved
  <2> QED  BY <1>1, <1>4, <2>1, <2>2, <2>3
<1> HIDE DEF moved, at
<1>6. LaidOut(d, M \o R, n, t)
  BY <1>3, <1>5, Zenon DEF LaidOut
<1> QED  BY <1>1, <1>2, <1>6 DEF M, R

\* The calls and the results of a turn, the one or the other.
LEMMA CallsOrResults ==
    ASSUME NEW n, NEW t, TurnIs(n, t)
    PROVE  /\ t.calls \in Seq(CallMade) /\ t.results \in Seq(CallMade)
           /\ t.by = "results" => t.calls = <<>> /\ ListOf(t) = t.results
           /\ t.by # "results" => t.results = <<>> /\ ListOf(t) = t.calls
BY DEF TurnIs, TurnRecord, UserTurn, ModelTurn, ResultsTurn, ListOf

\* What the translations make of one turn.
LEMMA PlainItems ==
    ASSUME NEW d \in {"openai", "functions"}, NEW n, NEW t, TurnIs(n, t)
    PROVE  Items(d, n, t) = IF t.by = "results" THEN Listed(d, t) \o Said(Role(t), n, t)
                            ELSE Said(Role(t), n, t) \o Listed(d, t)
<1> DEFINE M == Said(Role(t), n, t)
           calls == [i \in DOMAIN t.calls |-> Call(IdOf(d, i, t.calls[i]), t.calls[i])]
           outputs == [i \in DOMAIN t.results |-> Output(IdOf(d, i, t.results[i]), t.results[i], i)]
<1>1. Items(d, n, t) = (outputs \o M) \o calls
  BY DEF Items, OpenAIItems, FunctionItems, IdOf
<1>2. M \in Seq(InputItem) /\ Listed(d, t) \in Seq(InputItem)
  BY SaidAndListed DEF Dialects
<1>3. CASE t.by = "results"
  <2>1. calls = <<>> /\ outputs = Listed(d, t)
    BY <1>3, CallsOrResults DEF Listed, ItemOf
  <2> HIDE DEF calls, outputs, M
  <2>2. outputs \o M \in Seq(InputItem)
    BY <1>2, <2>1, ConcatProperties
  <2>3. (outputs \o M) \o <<>> = outputs \o M
    BY <2>2, ConcatEmptySeq
  <2> QED  BY <1>1, <1>3, <2>1, <2>3 DEF M
<1>4. CASE t.by # "results"
  <2>1. outputs = <<>> /\ calls = Listed(d, t)
    BY <1>4, CallsOrResults DEF Listed, ItemOf
  <2> HIDE DEF calls, outputs, M
  <2>2. <<>> \o M = M
    BY <1>2, ConcatEmptySeq
  <2> QED  BY <1>1, <1>4, <2>1, <2>2 DEF M
<1> QED  BY <1>3, <1>4

LEMMA GeminiTurn ==
    ASSUME NEW n, NEW t, TurnIs(n, t)
    PROVE  Items("gemini", n, t) = Said(Role(t), n, t) \o Listed("gemini", t)
<1> DEFINE M == Said(Role(t), n, t)
           d == "gemini"
           calls == [i \in DOMAIN t.calls |-> Call(IdOf(d, i, t.calls[i]), t.calls[i])]
           outputs == [i \in DOMAIN t.results |-> Output(IdOf(d, i, t.results[i]), t.results[i], i)]
<1>1. Items(d, n, t) = (M \o calls) \o outputs
  BY DEF Items, GeminiItems, GeminiId, IdOf
<1>2. M \in Seq(InputItem) /\ Listed(d, t) \in Seq(InputItem)
  BY SaidAndListed DEF Dialects
<1>3. CASE t.by = "results"
  <2>1. calls = <<>> /\ outputs = Listed(d, t)
    BY <1>3, CallsOrResults DEF Listed, ItemOf
  <2> HIDE DEF calls, outputs, M
  <2>2. M \o <<>> = M
    BY <1>2, ConcatEmptySeq
  <2> QED  BY <1>1, <2>1, <2>2 DEF M
<1>4. CASE t.by # "results"
  <2>1. outputs = <<>> /\ calls = Listed(d, t)
    BY <1>4, CallsOrResults DEF Listed, ItemOf
  <2> HIDE DEF calls, outputs, M
  <2>2. M \o calls \in Seq(InputItem)
    BY <1>2, <2>1, ConcatProperties
  <2>3. (M \o calls) \o <<>> = M \o calls
    BY <2>2, ConcatEmptySeq
  <2> QED  BY <1>1, <2>1, <2>3 DEF M
<1> QED  BY <1>3, <1>4

LEMMA AnthropicTurn ==
    ASSUME NEW n, NEW t, TurnIs(n, t)
    PROVE  Items("anthropic", n, t) =
             Said(Role(t), n, t)
             \o IF t.by = "results"
                THEN FlattenSeq([i \in DOMAIN t.results |-> WithImage(n, t.results[i], i)])
                ELSE Listed("anthropic", t)
<1> DEFINE M == Said(Role(t), n, t)
           d == "anthropic"
           calls == [i \in DOMAIN t.calls |-> Call(IdOf(d, i, t.calls[i]), t.calls[i])]
           R == FlattenSeq([i \in DOMAIN t.results |-> WithImage(n, t.results[i], i)])
<1>1. Items(d, n, t) = (M \o calls) \o R
  BY DEF Items, AnthropicItems, AnthropicSaid, WithImage, IdOf
<1>2. M \in Seq(InputItem)
  BY SaidOnce
<1>3. CASE t.by = "results"
  <2>1. calls = <<>>
    BY <1>3, CallsOrResults
  <2> HIDE DEF calls, M, R
  <2>2. M \o <<>> = M
    BY <1>2, ConcatEmptySeq
  <2> QED  BY <1>1, <1>3, <2>1, <2>2 DEF M, R
<1>4. CASE t.by # "results"
  <2>1. calls = Listed(d, t) /\ R = FlattenSeq(<<>>)
    BY <1>4, CallsOrResults DEF Listed, ItemOf
  <2>2. FlattenSeq(<<>>) = <<>>
    <3>1. <<>> \in Seq(Seq(InputItem)) /\ <<>> \in Seq(InputItem)
      BY EmptySeq
    <3> QED  BY <3>1, FlattenAppended
  <2>3. Listed(d, t) \in Seq(InputItem)
    BY <1>4, SaidAndListed DEF Dialects
  <2> HIDE DEF calls, M, R
  <2>4. M \o calls \in Seq(InputItem)
    BY <1>2, <2>1, <2>3, ConcatProperties
  <2>5. (M \o calls) \o <<>> = M \o calls
    BY <2>4, ConcatEmptySeq
  <2> QED  BY <1>1, <1>4, <2>1, <2>2, <2>5 DEF M
<1> QED  BY <1>3, <1>4

\* However the turn is told, its items are laid out.
LEMMA TurnItems ==
    ASSUME NEW d \in Dialects, NEW n, NEW t, TurnIs(n, t)
    PROVE  LaidOut(d, Items(d, n, t), n, t)
<1> DEFINE M == Said(Role(t), n, t)
<1>1. CASE d \in {"openai", "functions"} /\ t.by = "results"
  <2> DEFINE R == Listed(d, t)
             at == [i \in DOMAIN ListOf(t) |-> i]
  <2>1. Pieces(d, n, t, R, at)
    BY <1>1, PlainPieces DEF Listed
  <2> HIDE DEF R, at
  <2>2. \E m : Laid(d, R \o M, n, t, m, at)
    BY <1>1, <2>1, MessageLast
  <2>3. Items(d, n, t) = R \o M
    BY <1>1, PlainItems DEF R
  <2> HIDE DEF M
  <2>4. t.by # "model"
    BY <1>1
  <2> QED  BY <2>2, <2>3, <2>4, Zenon DEF LaidOut
<1>2. CASE d = "anthropic" /\ t.by = "results"
  <2> DEFINE R == FlattenSeq([i \in DOMAIN t.results |-> WithImage(n, t.results[i], i)])
  <2>1. \E at : Pieces("anthropic", n, t, R, at)
    BY <1>2, ShownPieces
  <2>2. Items(d, n, t) = M \o R
    BY <1>2, AnthropicTurn
  <2> HIDE DEF R
  <2>3. PICK at : Pieces(d, n, t, R, at)
    BY <1>2, <2>1
  <2>4. \E m, moved : Laid(d, M \o R, n, t, m, moved)
    BY <2>3, MessageFirst
  <2> HIDE DEF M
  <2>5. t.by # "model"
    BY <1>2
  <2> QED  BY <2>2, <2>4, <2>5, Zenon DEF LaidOut
<1>3. CASE d = "gemini" \/ t.by # "results"
  <2>1. Items(d, n, t) = M \o Listed(d, t)
    BY <1>3, PlainItems, GeminiTurn, AnthropicTurn DEF Dialects
  <2> QED  BY <1>3, <2>1, SaidAndListed
<1> QED  BY <1>1, <1>2, <1>3 DEF Dialects

-----------------------------------------------------------------------------
(* The conversation *)

\* The items of each turn, and of all turns.
ByTurn(d, T) == [n \in DOMAIN T |-> Items(d, n, T[n])]

AllItems(d, T) == FlattenSeq(ByTurn(d, T))

LEMMA AllAppended ==
    ASSUME NEW d, NEW T \in Seq(TurnRecord), NEW t \in TurnRecord,
           ByTurn(d, T) \in Seq(Seq(InputItem)), Items(d, Len(T) + 1, t) \in Seq(InputItem)
    PROVE  /\ ByTurn(d, Append(T, t)) \in Seq(Seq(InputItem))
           /\ AllItems(d, Append(T, t)) = AllItems(d, T) \o Items(d, Len(T) + 1, t)
<1> DEFINE U == Append(T, t)
           s == ByTurn(d, T)
           B == Items(d, Len(T) + 1, t)
           v == Append(s, B)
<1>1. /\ Len(T) \in Nat /\ DOMAIN T = 1 .. Len(T) /\ DOMAIN U = 1 .. Len(T) + 1
      /\ U[Len(T) + 1] = t /\ \A k \in 1 .. Len(T) : U[k] = T[k]
  <2>1. U \in Seq(TurnRecord) /\ Len(U) = Len(T) + 1
        /\ U[Len(T) + 1] = t /\ \A k \in 1 .. Len(T) : U[k] = T[k]
    BY AppendProperties
  <2>2. DOMAIN U = 1 .. Len(U) /\ Len(T) \in Nat /\ DOMAIN T = 1 .. Len(T)
    BY <2>1, LenProperties
  <2> HIDE DEF U
  <2> QED  BY <2>1, <2>2
<1> HIDE DEF U
<1>2. DOMAIN s = 1 .. Len(T) /\ \A k \in 1 .. Len(T) : s[k] = Items(d, k, T[k])
  BY <1>1 DEF ByTurn
<1> HIDE DEF B
<1>3. s \in Seq(Seq(InputItem)) /\ B \in Seq(InputItem)
  BY DEF B
<1> HIDE DEF s
<1>4. Len(s) = Len(T)
  <2>1. Len(s) \in Nat /\ DOMAIN s = 1 .. Len(s)
    BY <1>3, LenProperties
  <2> QED  BY <1>1, <1>2, <2>1
<1>5. /\ v \in Seq(Seq(InputItem)) /\ DOMAIN v = 1 .. Len(T) + 1
      /\ v[Len(T) + 1] = B /\ \A k \in 1 .. Len(T) : v[k] = s[k]
  <2>1. v \in Seq(Seq(InputItem)) /\ Len(v) = Len(s) + 1
        /\ v[Len(s) + 1] = B /\ \A k \in 1 .. Len(s) : v[k] = s[k]
    BY <1>3, AppendProperties
  <2>2. DOMAIN v = 1 .. Len(v)
    BY <2>1, LenProperties
  <2> HIDE DEF v
  <2> QED  BY <1>4, <2>1, <2>2
<1>6. ByTurn(d, U) = v
  <2> DEFINE w == ByTurn(d, U)
  <2>1. w = [k \in 1 .. Len(T) + 1 |-> Items(d, k, U[k])]
    BY <1>1 DEF ByTurn
  <2>2. v = [k \in 1 .. Len(T) + 1 |-> v[k]]
    <3> HIDE DEF v
    <3>1. v \in [1 .. Len(v) -> Seq(InputItem)]
      BY <1>5, LenProperties
    <3> QED  BY <1>5, <3>1
  <2>3. ASSUME NEW k \in 1 .. Len(T) + 1 PROVE Items(d, k, U[k]) = v[k]
    <3>1. CASE k = Len(T) + 1
      BY <1>1, <1>5, <3>1 DEF B
    <3>2. CASE k # Len(T) + 1
      <4>1. k \in 1 .. Len(T)
        BY <1>1, <3>2
      <4> QED  BY <1>1, <1>2, <1>5, <4>1
    <3> QED  BY <3>1, <3>2
  <2> HIDE DEF v, w
  <2> QED  BY <2>1, <2>2, <2>3 DEF w
<1>7. FlattenSeq(v) = FlattenSeq(s) \o B
  BY <1>3, FlattenAppended
<1> HIDE DEF v
<1> QED  BY <1>5, <1>6, <1>7 DEF AllItems, U, s, B

\* The inductive invariant: the turns are what a client and a model can say, each with
\* the items that tell it.
ConversationInv ==
    /\ turns \in Seq(TurnRecord) /\ Len(turns) <= MaxTurns
    /\ \A n \in DOMAIN turns :
          /\ TurnIs(n, turns[n])
          /\ turns[n].by = "results" =>
                n > 1 /\ Len(turns[n].results) = Len(turns[n - 1].calls)
    /\ \A d \in Dialects : /\ ByTurn(d, turns) \in Seq(Seq(InputItem))
                           /\ Holds(d, turns, AllItems(d, turns))

LEMMA ConversationStarts == ConversationInit => ConversationInv
<1> SUFFICES ASSUME ConversationInit PROVE ConversationInv
  OBVIOUS
<1>1. turns = <<>> /\ turns \in Seq(TurnRecord) /\ Len(turns) = 0 /\ DOMAIN turns = {}
  BY EmptySeq DEF ConversationInit
<1>2. 0 <= MaxTurns
  BY ConversationAssumption
<1>3. ASSUME NEW d \in Dialects
      PROVE  ByTurn(d, turns) \in Seq(Seq(InputItem)) /\ Holds(d, turns, AllItems(d, turns))
  <2>1. ByTurn(d, turns) = <<>>
    BY <1>1 DEF ByTurn
  <2>2. <<>> \in Seq(Seq(InputItem)) /\ <<>> \in Seq(InputItem)
    BY EmptySeq
  <2>3. AllItems(d, turns) = <<>>
    BY <2>1, <2>2, FlattenAppended DEF AllItems
  <2>4. CallsNamed(d, <<>>)
    BY DEF CallsNamed
  <2>5. Holds(d, turns, <<>>)
    BY <1>1, <2>2, <2>4 DEF Holds, Found
  <2> QED  BY <2>1, <2>2, <2>3, <2>5
<1> QED  BY <1>1, <1>2, <1>3 DEF ConversationInv

\* One turn more.
LEMMA TurnAdded ==
    ASSUME ConversationInv, Len(turns) < MaxTurns, NEW t, TurnIs(Len(turns) + 1, t),
           turns' = Append(turns, t),
           t.by = "results" => /\ turns # <<>> /\ turns[Len(turns)].by = "model"
                               /\ Returned(Len(turns), turns[Len(turns)].calls, t.results)
    PROVE  ConversationInv'
<1> DEFINE n == Len(turns) + 1
           U == Append(turns, t)
<1>1. t \in TurnRecord /\ turns \in Seq(TurnRecord) /\ Len(turns) \in Nat
  BY LenProperties DEF TurnIs, ConversationInv
<1>2. /\ U \in Seq(TurnRecord) /\ Len(U) = n /\ DOMAIN U = 1 .. n
      /\ DOMAIN turns = 1 .. Len(turns)
      /\ U[n] = t /\ \A k \in DOMAIN turns : U[k] = turns[k]
  <2>1. U \in Seq(TurnRecord) /\ Len(U) = n
        /\ U[n] = t /\ \A k \in 1 .. Len(turns) : U[k] = turns[k]
    BY <1>1, AppendProperties
  <2>2. DOMAIN U = 1 .. Len(U) /\ DOMAIN turns = 1 .. Len(turns)
    BY <1>1, <2>1, LenProperties
  <2> HIDE DEF U, n
  <2> QED  BY <2>1, <2>2
<1>3. Len(U) <= MaxTurns
  BY <1>1, <1>2, ConversationAssumption
<1> HIDE DEF U
<1>4. ASSUME NEW k \in DOMAIN U
      PROVE  /\ TurnIs(k, U[k])
             /\ U[k].by = "results" => k > 1 /\ Len(U[k].results) = Len(U[k - 1].calls)
  <2>1. CASE k = n
    <3>1. ASSUME t.by = "results" PROVE n > 1 /\ Len(t.results) = Len(U[n - 1].calls)
      <4>1. Len(turns) # 0
        BY <1>1, <3>1, EmptySeq
      <4>2. n - 1 = Len(turns) /\ Len(turns) \in DOMAIN turns /\ n > 1
        BY <1>1, <1>2, <4>1
      <4>3. U[n - 1] = turns[Len(turns)]
        BY <1>2, <4>2
      <4> QED  BY <3>1, <4>2, <4>3 DEF Returned
    <3> QED  BY <1>2, <2>1, <3>1
  <2>2. CASE k # n
    <3>1. k \in DOMAIN turns /\ U[k] = turns[k]
      BY <1>1, <1>2, <2>2
    <3>2. TurnIs(k, turns[k])
          /\ (turns[k].by = "results" => k > 1 /\ Len(turns[k].results) = Len(turns[k - 1].calls))
      BY <3>1 DEF ConversationInv
    <3>3. k > 1 => k - 1 \in DOMAIN turns /\ U[k - 1] = turns[k - 1]
      BY <1>1, <1>2, <3>1
    <3> QED  BY <3>1, <3>2, <3>3
  <2> QED  BY <2>1, <2>2
<1>5. ASSUME NEW d \in Dialects
      PROVE  ByTurn(d, U) \in Seq(Seq(InputItem)) /\ Holds(d, U, AllItems(d, U))
  <2> DEFINE B == Items(d, n, t)
             I == AllItems(d, turns)
  <2>1. PICK m, at : /\ Laid(d, B, n, t, m, at)
                     /\ t.by = "model" =>
                           \A i \in DOMAIN t.calls : at[i] = Len(B) - Len(t.calls) + i
    <3> HIDE DEF n
    <3>1. TurnIs(n, t)
      BY DEF n
    <3>2. LaidOut(d, B, n, t)
      BY <3>1, TurnItems, Zenon
    <3> HIDE DEF B
    <3> QED  BY <3>2, Zenon DEF LaidOut
  <2>2. B \in Seq(InputItem)
    BY <2>1 DEF Laid
  <2>3. ByTurn(d, turns) \in Seq(Seq(InputItem)) /\ Holds(d, turns, I)
    BY DEF ConversationInv
  <2>4. ByTurn(d, U) \in Seq(Seq(InputItem)) /\ AllItems(d, U) = I \o B
    BY <1>1, <2>2, <2>3, AllAppended DEF U
  <2>5. t.by = "results" => TurnIs(Len(turns), turns[Len(turns)])
    <3> SUFFICES ASSUME t.by = "results" PROVE TurnIs(Len(turns), turns[Len(turns)])
      OBVIOUS
    <3>1. Len(turns) # 0
      BY <1>1, EmptySeq
    <3>2. Len(turns) \in DOMAIN turns
      BY <1>1, <1>2, <3>1
    <3> QED  BY <3>2 DEF ConversationInv
  <2> HIDE DEF B, I
  <2>6. Holds(d, Append(turns, t), I \o B)
    <3> HIDE DEF n
    <3>1. n = Len(turns) + 1 /\ TurnIs(n, t)
      BY DEF n
    <3> QED  BY <1>1, <2>1, <2>3, <2>5, <3>1, TurnAppended
  <2> QED  BY <2>4, <2>6 DEF U
<1>6. turns' = U
  BY DEF U
<1> QED  BY <1>2, <1>3, <1>4, <1>5, <1>6 DEF ConversationInv

\* The user says something.
LEMMA UserTurnAdded ==
    ASSUME ConversationInv, Len(turns) < MaxTurns, UserSays PROVE ConversationInv'
<1>1. PICK text \in BOOLEAN, image \in BOOLEAN :
         /\ text \/ image
         /\ turns' = Append(turns, Turn("user", text, image, <<>>, <<>>))
  BY DEF UserSays
<1> DEFINE t == Turn("user", text, image, <<>>, <<>>)
<1>2. TurnIs(Len(turns) + 1, t)
  <2>1. <<>> \in Seq(CallMade) /\ Len(turns) + 1 \in Nat
    BY EmptySeq, LenProperties DEF ConversationInv
  <2>2. t \in TurnRecord /\ UserTurn(t)
    BY <1>1, <2>1 DEF Turn, TurnRecord, UserTurn
  <2> QED  BY <2>1, <2>2 DEF TurnIs
<1>3. t.by # "results"
  BY DEF Turn
<1> HIDE DEF t
<1>4. turns' = Append(turns, t)
  BY <1>1 DEF t
<1> QED  BY <1>2, <1>3, <1>4, TurnAdded

\* The model answers, and calls tools.
LEMMA ModelTurnAdded ==
    ASSUME ConversationInv, Len(turns) < MaxTurns, ModelAnswers PROVE ConversationInv'
<1> DEFINE n == Len(turns) + 1
<1>1. n \in Nat
  BY LenProperties DEF ConversationInv
<1>2. PICK text \in BOOLEAN, tools \in UNION {[1 .. k -> Tool] : k \in 0 .. 2} :
         /\ text \/ tools # <<>>
         /\ turns' = Append(turns, Turn("model", text, FALSE,
               [i \in DOMAIN tools |->
                   [id |-> <<n, i>>, tool |-> tools[i], shown |-> FALSE, named |-> TRUE]], <<>>))
  BY DEF ModelAnswers
<1>0. PICK k \in 0 .. 2 : tools \in [1 .. k -> Tool]
  OBVIOUS
<1> HIDE DEF n
<1> DEFINE calls == [i \in 1 .. k |->
                        [id |-> <<n, i>>, tool |-> tools[i], shown |-> FALSE, named |-> TRUE]]
           t == Turn("model", text, FALSE, calls, <<>>)
<1>3. /\ calls \in Seq(CallMade) /\ Len(calls) = k /\ DOMAIN calls = 1 .. k
      /\ \A i \in DOMAIN calls : calls[i].id = <<n, i>> /\ calls[i].named
  <2>1. \A i \in 1 .. k :
           [id |-> <<n, i>>, tool |-> tools[i], shown |-> FALSE, named |-> TRUE] \in CallMade
    BY <1>0, <1>1 DEF CallMade
  <2> QED  BY <2>1
<1>4. tools # <<>> => calls # <<>>
  <2> SUFFICES ASSUME tools # <<>> PROVE calls # <<>>
    OBVIOUS
  <2>1. tools \in Seq(Tool) /\ Len(tools) = k
    BY <1>0
  <2>2. k # 0
    BY <2>1, EmptySeq
  <2> HIDE DEF calls
  <2> QED  BY <1>3, <2>2, EmptySeq
<1>5. turns' = Append(turns, t)
  BY <1>0, <1>2
<1> HIDE DEF calls
<1>6. /\ t.by = "model" /\ t.results = <<>> /\ t.image = FALSE /\ t.calls = calls /\ t.text = text
      /\ t \in TurnRecord
  <2>1. <<>> \in Seq(CallMade)
    BY EmptySeq
  <2> QED  BY <1>3, <2>1 DEF Turn, TurnRecord
<1> HIDE DEF t
<1>7. TurnIs(n, t)
  <2>1. ModelTurn(n, t)
    BY <1>2, <1>3, <1>4, <1>6 DEF ModelTurn
  <2> QED  BY <1>1, <1>6, <2>1 DEF TurnIs
<1> QED  BY <1>5, <1>6, <1>7, TurnAdded DEF n

\* The client returns what the calls brought, in an order of its own.
LEMMA ResultsTurnAdded ==
    ASSUME ConversationInv, Len(turns) < MaxTurns, ResultsReturned PROVE ConversationInv'
<1> DEFINE N == Len(turns)
           u == turns[N]
           calls == u.calls
           k == Len(calls)
<1>1. /\ turns # <<>> /\ calls # <<>> /\ Last(turns) = u
      /\ turns \in Seq(TurnRecord) /\ N \in Nat /\ N # 0 /\ N \in DOMAIN turns
  <2>1. turns # <<>> /\ calls # <<>> /\ Last(turns) = u
    BY DEF ResultsReturned, Waiting, Last
  <2>2. turns \in Seq(TurnRecord)
    BY DEF ConversationInv
  <2>3. N \in Nat /\ N # 0 /\ DOMAIN turns = 1 .. N
    BY <2>1, <2>2, EmptySeq, LenProperties
  <2> QED  BY <2>1, <2>2, <2>3
<1>2. TurnIs(N, u)
  BY <1>1 DEF ConversationInv
<1>3. /\ u.by = "model" /\ calls \in Seq(CallMade) /\ k \in Nat /\ k \in 1 .. 2
      /\ DOMAIN calls = 1 .. k /\ \A i \in 1 .. k : calls[i].id = <<N, i>> /\ calls[i] \in CallMade
  <2>1. ModelTurn(N, u) /\ calls \in Seq(CallMade)
    BY <1>1, <1>2 DEF TurnIs, TurnRecord, UserTurn, ResultsTurn
  <2>2. DOMAIN calls = 1 .. k /\ k # 0 /\ k \in Nat
    BY <1>1, <2>1, LenProperties, EmptySeq
  <2>3. k \in 0 .. 2 /\ \A i \in DOMAIN calls : calls[i].id = <<N, i>>
    BY <2>1 DEF ModelTurn
  <2>4. \A i \in 1 .. k : calls[i] \in CallMade
    BY <2>1, ElementOfSeq
  <2> HIDE DEF k
  <2> QED  BY <2>1, <2>2, <2>3, <2>4 DEF ModelTurn
<1>4. PICK perm \in SetToSeqs(DOMAIN calls), text \in BOOLEAN, shown \in BOOLEAN,
           named \in [DOMAIN calls -> BOOLEAN] :
         turns' = Append(turns, Turn("results", text, FALSE, <<>>,
               [i \in DOMAIN calls |->
                   [calls[perm[i]] EXCEPT !.shown = shown, !.named = named[i]]]))
  BY DEF ResultsReturned, Last
<1> HIDE DEF k
<1>5. /\ perm \in [1 .. k -> 1 .. k] /\ named \in [1 .. k -> BOOLEAN]
      /\ \A i, j \in 1 .. k : i # j => perm[i] # perm[j]
  <2>1. Cardinality(1 .. k) = k
    BY <1>3, FS_Interval
  <2> HIDE DEF calls
  <2> QED  BY <1>3, <2>1 DEF SetToSeqs
<1> HIDE DEF calls, u
<1> DEFINE results == [i \in 1 .. k |->
                          [calls[perm[i]] EXCEPT !.shown = shown, !.named = named[i]]]
           t == Turn("results", text, FALSE, <<>>, results)
<1>6. \A i \in 1 .. k : /\ perm[i] \in 1 .. k
                        /\ results[i].id = <<N, perm[i]>> /\ results[i] \in CallMade
                        /\ results[i].id = calls[perm[i]].id
                        /\ results[i].tool = calls[perm[i]].tool
  <2> SUFFICES ASSUME NEW i \in 1 .. k
               PROVE  /\ perm[i] \in 1 .. k
                      /\ results[i].id = <<N, perm[i]>> /\ results[i] \in CallMade
                      /\ results[i].id = calls[perm[i]].id
                      /\ results[i].tool = calls[perm[i]].tool
    OBVIOUS
  <2>1. perm[i] \in 1 .. k /\ named[i] \in BOOLEAN
    BY <1>5
  <2> DEFINE c == calls[perm[i]]
  <2>2. c \in CallMade /\ c.id = <<N, perm[i]>>
    BY <1>3, <2>1
  <2> HIDE DEF c
  <2>3. results[i] = [c EXCEPT !.shown = shown, !.named = named[i]]
    BY DEF c
  <2>4. results[i] \in CallMade /\ results[i].id = c.id /\ results[i].tool = c.tool
    BY <2>1, <2>2, <2>3 DEF CallMade
  <2> QED  BY <2>1, <2>2, <2>4 DEF c
<1>7. turns' = Append(turns, t)
  BY <1>3, <1>4
<1>8. results \in Seq(CallMade) /\ Len(results) = k /\ DOMAIN results = 1 .. k
  <2>1. results \in [1 .. k -> CallMade]
    BY <1>6
  <2> HIDE DEF results
  <2> QED  BY <1>3, <2>1
<1> HIDE DEF results
<1>9. /\ t.by = "results" /\ t.results = results /\ t.image = FALSE /\ t.calls = <<>>
      /\ t \in TurnRecord
  <2>1. <<>> \in Seq(CallMade)
    BY EmptySeq
  <2> QED  BY <1>8, <2>1 DEF Turn, TurnRecord
<1> HIDE DEF t
<1>10. TurnIs(N + 1, t)
  <2>1. \A i \in 1 .. k : results[i].id[1] = (N + 1) - 1
    <3>1. (N + 1) - 1 = N
      BY <1>1
    <3> QED  BY <1>6, <3>1
  <2>2. \A i, j \in 1 .. k : results[i].id = results[j].id => i = j
    <3> SUFFICES ASSUME NEW i \in 1 .. k, NEW j \in 1 .. k, results[i].id = results[j].id
                 PROVE  i = j
      OBVIOUS
    <3>1. <<N, perm[i]>> = <<N, perm[j]>>
      BY <1>6
    <3> QED  BY <1>5, <3>1
  <2>3. ResultsTurn(N + 1, t)
    BY <1>3, <1>8, <1>9, <2>1, <2>2 DEF ResultsTurn
  <2> QED  BY <1>1, <1>9, <2>3 DEF TurnIs
<1>11. Returned(N, calls, results)
  <2>2. Len(results) = Len(calls) /\ DOMAIN results = 1 .. k /\ DOMAIN calls = 1 .. k
    BY <1>3, <1>8 DEF k
  <2>3. \A i \in DOMAIN results : \E j \in DOMAIN calls :
          results[i].id = calls[j].id /\ results[i].tool = calls[j].tool
    BY <1>6, <2>2
  <2>4. \A j \in DOMAIN calls : calls[j].id = <<N, j>>
    BY <1>3, <2>2
  <2>5. \A i \in DOMAIN results : results[i].id[1] = N
    BY <1>6, <2>2
  <2> QED  BY <2>2, <2>3, <2>4, <2>5, Zenon DEF Returned
<1> QED
  <2>1. t.by = "results" => turns # <<>> /\ turns[N].by = "model"
                            /\ Returned(N, turns[N].calls, t.results)
    BY <1>1, <1>3, <1>9, <1>11 DEF u, calls
  <2> QED  BY <1>7, <1>10, <2>1, TurnAdded

LEMMA ConversationStep == ConversationInv /\ [ConversationNext]_turns => ConversationInv'
<1> SUFFICES ASSUME ConversationInv, [ConversationNext]_turns PROVE ConversationInv'
  OBVIOUS
<1>1. CASE ConversationNext
  BY <1>1, UserTurnAdded, ModelTurnAdded, ResultsTurnAdded DEF ConversationNext
<1>2. CASE UNCHANGED turns
  BY <1>2 DEF ConversationInv
<1> QED  BY <1>1, <1>2

\* What is told of the conversation is all of it, and results find their calls.
LEMMA InvariantKeeps ==
    ASSUME ConversationInv
    PROVE  ConversationKept
<1>1. ConversationTypeOK
  <2>1. ASSUME NEW n \in DOMAIN turns
        PROVE  /\ turns[n].by \in {"user", "model", "results"}
               /\ {turns[n].text, turns[n].image} \subseteq BOOLEAN
               /\ turns[n].results # <<>> =>
                     n > 1 /\ Len(turns[n].results) = Len(turns[n - 1].calls)
    <3>1. TurnIs(n, turns[n])
      BY DEF ConversationInv
    <3>2. turns[n] \in TurnRecord
      BY <3>1 DEF TurnIs
    <3>3. turns[n].results # <<>> => turns[n].by = "results"
      BY <3>1, CallsOrResults
    <3> QED  BY <3>2, <3>3 DEF ConversationInv, TurnRecord
  <2> QED  BY <2>1 DEF ConversationTypeOK, ConversationInv
<1>2. ASSUME NEW d \in Dialects
      PROVE  /\ Usable(d, turns) => Found(d, Input(d))
             /\ \A n \in DOMAIN turns : TurnKept(d, Input(d), n, turns[n])
             /\ \A p, q \in DOMAIN Input(d) : p < q => TurnOf(Input(d)[p]) <= TurnOf(Input(d)[q])
  <2> DEFINE I == AllItems(d, turns)
             x == Message("user", 0, FALSE, FALSE)
  <2>1. Holds(d, turns, I)
    BY DEF ConversationInv
  <2>2. Input(d) = IF I = <<>> THEN <<x>> ELSE I
    BY DEF Input, AllItems, ByTurn
  <2>3. CASE I # <<>>
    <3>1. Input(d) = I
      BY <2>2, <2>3
    <3> HIDE DEF I
    <3> QED  BY <2>1, <3>1 DEF Holds
  <2>4. CASE I = <<>>
    <3>1. turns = <<>> /\ DOMAIN turns = {}
      BY <2>1, <2>4 DEF Holds
    <3>2. x.kind = "message"
      BY DEF Message
    <3> HIDE DEF I, x
    <3>3. Input(d) = <<x>> /\ DOMAIN <<x>> = {1} /\ <<x>>[1] = x
      BY <2>2, <2>4
    <3>4. \A p \in DOMAIN Input(d) : p = 1 /\ Input(d)[p].kind = "message"
      BY <3>2, <3>3
    <3> QED  BY <3>1, <3>4 DEF Found
  <2> QED  BY <2>3, <2>4
<1>3. ResultsMatched
  BY <1>2 DEF ResultsMatched, Found, Usable, Expressible
<1>4. NothingLost
  BY <1>2 DEF NothingLost
<1> QED  BY <1>1, <1>3, <1>4 DEF ConversationKept

\* However long a conversation, whatever tools it calls and however often, each of the
\* four translations tells the backend all of it once, in its order, but for images in
\* results, which only Anthropic's keeps; and a result the client gives the id or the name
\* of its call as that of this call, one without as that of none, and one of Gemini as that
\* of the call at its place.
THEOREM ConversationTheorem == ConversationSpec => []ConversationKept
<1>1. ConversationInv /\ [ConversationNext]_turns => ConversationInv'
  BY ConversationStep
<1>2. ConversationInv => ConversationKept
  BY InvariantKeeps
<1> QED  BY ConversationStarts, <1>1, <1>2, PTL DEF ConversationSpec
====================================================================================
