-------------------------- MODULE ProxyHandler_proofs --------------------------
(***************************************************************************)
(* Theorems about ProxyHandler, for every set of accounts and requests,    *)
(* every limit, backoff, lock TTL and number of retries.                   *)
(*                                                                         *)
(* A step of a handler leaves an account and may take another one.  So     *)
(* what the slots have to do with the requests is stated for any entry     *)
(* map, any slot map and any records of the requests (PoolFits), and       *)
(* carried through the halves of a step.                                   *)
(*                                                                         *)
(* That the handler implements Failover follows in a part of its own: what *)
(* every action does to the course of its request, and that each of the    *)
(* courses' moves leaves fewer to come.                                    *)
(***************************************************************************)
EXTENDS ProxyHandler, FiniteSetTheorems, TLAPS

\* Holders and LostOn, of any records R of the requests.
HoldersIn(R, a) == {r \in Request : R[r].pc \in InFlight /\ R[r].acct = a}

LostIn(R, a) == UNION {{r} \X (1 .. R[r].lost[a]) : r \in Request}

\* The slots s of an account whose entry is e, held or lost by the requests.
AccountFits(e, s, R, a) ==
    /\ e \in Entry
    /\ s \in Seq(Nat)
    /\ e.status \notin Status => s = <<>>
    /\ IsFiniteSet(HoldersIn(R, a))
    /\ IsFiniteSet(LostIn(R, a))
    /\ Len(s) <= Cardinality(HoldersIn(R, a)) + Cardinality(LostIn(R, a))

PoolFits(E, S, R) ==
    /\ E = [a \in Account |-> E[a]]
    /\ S = [a \in Account |-> S[a]]
    /\ \A a \in Account : AccountFits(E[a], S[a], R, a)

\* A request in flight owes the release of its account and has not been counted on
\* it.  The account its caller would release is this one or is released already,
\* and it is released already when a retry is sent.  The first answer is yet to come of one
\* that has not begun.
RequestOK(q) ==
    /\ q \in RequestType
    /\ \A a \in Account : q.owed[a] >= 0
    /\ q.counted <= 1
    /\ q.pc \in InFlight =>
          /\ q.acct \in Account /\ q.outer \in Account
          /\ q.owed[q.acct] = 1
          /\ q.counted = 0
          /\ q.outer = q.acct \/ q.outer \in q.released
    /\ q.pc \in InFlight \ {"sending"} => q.turn \in Account
    /\ q.pc = "resending" => q.outer \in q.released /\ q.attempt <= MaxEmptyRetries
    /\ q.pc = "idle" => q.attempt = 1

Remembered == {None} \cup [acct : Account, turn : Account]

\* The inductive invariant.
IInv ==
    /\ PoolFits(entry, slots, req)
    /\ now \in Nat
    /\ req = [r \in Request |-> req[r]]
    /\ \A r \in Request : RequestOK(req[r])
    /\ affinity \in [Request -> Remembered]

-----------------------------------------------------------------------------
(* Counting *)

\* What is left of a slot list without its first k slots.
LEMMA SuffixType ==
  ASSUME NEW s \in Seq(Nat), NEW k \in 0 .. Len(s)
  PROVE  /\ SubSeq(s, k + 1, Len(s)) \in Seq(Nat)
         /\ Len(SubSeq(s, k + 1, Len(s))) = Len(s) - k
OBVIOUS

\* Dropping stale slots leaves a slot list, with no slot more.
LEMMA FreshSlotsType ==
  ASSUME NEW s \in Seq(Nat), NEW t
  PROVE  /\ FreshSlots(s, t) \in Seq(Nat)
         /\ Len(FreshSlots(s, t)) <= Len(s)
         /\ s = <<>> => FreshSlots(s, t) = <<>>
<1> DEFINE stale == {i \in DOMAIN s : t - s[i] > LockTTL}
           k == StaleCount(s, t)
<1>1. stale \subseteq 1 .. Len(s) /\ Len(s) \in Nat
  OBVIOUS
<1>2. /\ IsFiniteSet(1 .. Len(s))
      /\ Cardinality(1 .. Len(s)) = IF 1 > Len(s) THEN 0 ELSE Len(s) - 1 + 1
  BY <1>1, FS_Interval, 1 \in Int, Len(s) \in Int
<1>3. k \in 0 .. Len(s)
  <2>1. /\ IsFiniteSet(stale)
        /\ Cardinality(stale) <= Cardinality(1 .. Len(s))
    BY <1>1, <1>2, FS_Subset
  <2>2. Cardinality(stale) \in Nat
    BY <2>1, FS_CardinalityType
  <2>3. Cardinality(stale) <= Len(s)
    BY <1>1, <1>2, <2>1, <2>2
  <2>4. QED
    BY <2>2, <2>3, <1>1 DEF StaleCount
<1>4. CASE FreshSlots(s, t) = s
  BY <1>4
<1>5. CASE s # <<>> /\ FreshSlots(s, t) = SubSeq(s, k + 1, Len(s))
  <2>1. /\ SubSeq(s, k + 1, Len(s)) \in Seq(Nat)
        /\ Len(SubSeq(s, k + 1, Len(s))) = Len(s) - k
    BY <1>3, SuffixType
  <2>2. QED
    BY <1>1, <1>3, <1>5, <2>1
<1>6. QED
  BY <1>4, <1>5 DEF FreshSlots

\* A request whose record is q holds account a.
On(q, a) == q.pc \in InFlight /\ q.acct = a

\* What one request's step does to the counts of an account.
LEMMA Recounted ==
  ASSUME NEW R, R = [x \in Request |-> R[x]],
         NEW r \in Request, NEW q, NEW a \in Account,
         IsFiniteSet(HoldersIn(R, a)), IsFiniteSet(LostIn(R, a)),
         R[r].lost[a] \in Nat,
         q.lost[a] \in {R[r].lost[a], R[r].lost[a] + 1}
  PROVE  LET R2 == [R EXCEPT ![r] = q]
         IN  /\ IsFiniteSet(HoldersIn(R2, a)) /\ IsFiniteSet(LostIn(R2, a))
             /\ Cardinality(HoldersIn(R, a)) \in Nat /\ Cardinality(LostIn(R, a)) \in Nat
             /\ Cardinality(HoldersIn(R2, a)) \in Nat /\ Cardinality(LostIn(R2, a)) \in Nat
             /\ Cardinality(HoldersIn(R2, a)) =
                   Cardinality(HoldersIn(R, a)) + (IF On(q, a) THEN 1 ELSE 0)
                                                - (IF On(R[r], a) THEN 1 ELSE 0)
             /\ Cardinality(LostIn(R2, a)) =
                   Cardinality(LostIn(R, a)) + (q.lost[a] - R[r].lost[a])
<1> DEFINE R2 == [R EXCEPT ![r] = q]
           H == HoldersIn(R, a)
           L == LostIn(R, a)
           H2 == HoldersIn(R2, a)
           L2 == LostIn(R2, a)
           n == R[r].lost[a]
<1>1. R2[r] = q /\ \A x \in Request \ {r} : R2[x] = R[x]
  OBVIOUS
<1>2. /\ IsFiniteSet(H2)
      /\ Cardinality(H) \in Nat /\ Cardinality(H2) \in Nat
      /\ Cardinality(H2) = Cardinality(H) + (IF On(q, a) THEN 1 ELSE 0)
                                          - (IF On(R[r], a) THEN 1 ELSE 0)
  <2>1. r \in H <=> On(R[r], a)
    BY DEF HoldersIn, On
  <2>2. H2 = IF On(q, a) THEN H \cup {r} ELSE H \ {r}
    BY <1>1 DEF HoldersIn, On
  <2>3. /\ IsFiniteSet(H \cup {r}) /\ IsFiniteSet(H \ {r})
        /\ Cardinality(H \cup {r}) = IF r \in H THEN Cardinality(H) ELSE Cardinality(H) + 1
        /\ Cardinality(H \ {r}) = IF r \in H THEN Cardinality(H) - 1 ELSE Cardinality(H)
    BY FS_AddElement, FS_RemoveElement
  <2> HIDE DEF H, H2
  <2>4. IsFiniteSet(H2) /\ IsFiniteSet(H)
    BY <2>2, <2>3 DEF H
  <2>5. Cardinality(H) \in Nat /\ Cardinality(H2) \in Nat
    BY <2>4, FS_CardinalityType
  <2>6. QED
    BY <2>1, <2>2, <2>3, <2>4, <2>5
<1>3. /\ IsFiniteSet(L2)
      /\ Cardinality(L) \in Nat /\ Cardinality(L2) \in Nat
      /\ Cardinality(L2) = Cardinality(L) + (q.lost[a] - n)
  <2>1. \A p : p \in L <=> \E x \in Request : \E i \in 1 .. R[x].lost[a] : p = <<x, i>>
    BY DEF LostIn
  <2>2. \A p : p \in L2 <=> \E x \in Request : \E i \in 1 .. R2[x].lost[a] : p = <<x, i>>
    BY DEF LostIn
  <2>3. CASE q.lost[a] = n
    <3>1. \A x \in Request : R2[x].lost[a] = R[x].lost[a]
      BY <1>1, <2>3
    <3>2. L2 = L
      BY <2>1, <2>2, <3>1
    <3> HIDE DEF L, L2
    <3>3. Cardinality(L) \in Nat
      BY FS_CardinalityType DEF L
    <3>4. QED
      BY <2>3, <3>2, <3>3 DEF L
  <2>4. CASE q.lost[a] = n + 1
    <3>1. \A i : i \in 1 .. n + 1 <=> i \in 1 .. n \/ i = n + 1
      OBVIOUS
    <3>2. \A x \in Request \ {r} : R2[x].lost[a] = R[x].lost[a]
      BY <1>1
    <3>3. L2 = L \cup {<<r, n + 1>>}
      <4>1. ASSUME NEW p PROVE p \in L2 <=> p \in L \/ p = <<r, n + 1>>
        <5>1. (\E i \in 1 .. R2[r].lost[a] : p = <<r, i>>) <=>
                 (\E i \in 1 .. n : p = <<r, i>>) \/ p = <<r, n + 1>>
          BY <1>1, <2>4, <3>1
        <5> HIDE DEF R2
        <5>2. QED
          BY <2>1, <2>2, <3>2, <5>1
      <4>2. QED
        BY <4>1
    <3>4. <<r, n + 1>> \notin L
      BY <2>1
    <3> HIDE DEF L, L2
    <3>5. /\ IsFiniteSet(L2)
          /\ Cardinality(L2) = Cardinality(L) + 1
      BY <3>3, <3>4, FS_AddElement DEF L
    <3>6. Cardinality(L) \in Nat
      BY FS_CardinalityType DEF L
    <3>7. QED
      BY <2>4, <3>5, <3>6
  <2>5. QED
    BY <2>3, <2>4
<1>4. QED
  BY <1>2, <1>3

-----------------------------------------------------------------------------
(* Halves of a step *)

\* The new slots of an account fit when there is one less, when there is no more
\* and the request does not leave the account or loses a release of it, and when
\* there is one more and the request takes the account.
LEMMA AccountMoves ==
  ASSUME NEW R, R = [x \in Request |-> R[x]],
         NEW r \in Request, NEW q, NEW a \in Account,
         NEW e, NEW s, AccountFits(e, s, R, a),
         R[r].lost[a] \in Nat,
         q.lost[a] \in {R[r].lost[a], R[r].lost[a] + 1},
         NEW f \in Entry, NEW z \in Seq(Nat),
         f.status \notin Status => z = <<>>,
         \/ z = <<>>
         \/ Len(z) <= Len(s) - 1
         \/ /\ Len(z) <= Len(s)
            /\ ~On(R[r], a) \/ On(q, a) \/ q.lost[a] = R[r].lost[a] + 1
         \/ Len(z) <= Len(s) + 1 /\ ~On(R[r], a) /\ On(q, a)
  PROVE  AccountFits(f, z, [R EXCEPT ![r] = q], a)
<1> DEFINE R2 == [R EXCEPT ![r] = q]
<1>1. /\ s \in Seq(Nat)
      /\ IsFiniteSet(HoldersIn(R, a)) /\ IsFiniteSet(LostIn(R, a))
      /\ Len(s) <= Cardinality(HoldersIn(R, a)) + Cardinality(LostIn(R, a))
  BY DEF AccountFits
<1>2. /\ IsFiniteSet(HoldersIn(R2, a)) /\ IsFiniteSet(LostIn(R2, a))
      /\ Cardinality(HoldersIn(R, a)) \in Nat /\ Cardinality(LostIn(R, a)) \in Nat
      /\ Cardinality(HoldersIn(R2, a)) \in Nat /\ Cardinality(LostIn(R2, a)) \in Nat
      /\ Cardinality(HoldersIn(R2, a)) =
            Cardinality(HoldersIn(R, a)) + (IF On(q, a) THEN 1 ELSE 0)
                                         - (IF On(R[r], a) THEN 1 ELSE 0)
      /\ Cardinality(LostIn(R2, a)) =
            Cardinality(LostIn(R, a)) + (q.lost[a] - R[r].lost[a])
  BY <1>1, Recounted
<1> HIDE DEF R2
<1>3. Len(z) <= Cardinality(HoldersIn(R2, a)) + Cardinality(LostIn(R2, a))
  <2>1. Len(s) \in Nat /\ Len(z) \in Nat /\ (z = <<>> => Len(z) = 0)
    BY <1>1
  <2> DEFINE h == Cardinality(HoldersIn(R, a))
             l == Cardinality(LostIn(R, a))
             h2 == Cardinality(HoldersIn(R2, a))
             l2 == Cardinality(LostIn(R2, a))
             d == q.lost[a] - R[r].lost[a]
             n == Len(s)
             m == Len(z)
  <2>2. h \in Nat /\ l \in Nat /\ h2 \in Nat /\ l2 \in Nat
    BY <1>2
  <2>3. n \in Nat /\ m \in Nat /\ n <= h + l
    BY <1>1, <2>1
  <2>4. (d = 0 \/ d = 1) /\ (q.lost[a] = R[r].lost[a] + 1 => d = 1)
    OBVIOUS
  <2>5. l2 = l + d
    BY <1>2
  <2>6. \/ m = 0
        \/ m <= n - 1
        \/ m <= n /\ (~On(R[r], a) \/ On(q, a) \/ d = 1)
        \/ m <= n + 1 /\ ~On(R[r], a) /\ On(q, a)
    <3>1. CASE z = <<>>
      BY <3>1, <2>1
    <3>2. CASE Len(z) <= Len(s) - 1
      BY <3>2
    <3>3. CASE /\ Len(z) <= Len(s)
               /\ ~On(R[r], a) \/ On(q, a) \/ q.lost[a] = R[r].lost[a] + 1
      BY <3>3, <2>4
    <3>4. CASE Len(z) <= Len(s) + 1 /\ ~On(R[r], a) /\ On(q, a)
      BY <3>4
    <3>5. QED
      BY <3>1, <3>2, <3>3, <3>4
  <2>7. /\ On(R[r], a) /\ ~On(q, a) => h2 = h - 1
        /\ ~On(R[r], a) /\ On(q, a) => h2 = h + 1
        /\ (On(R[r], a) <=> On(q, a)) => h2 = h
    <3>1. CASE On(R[r], a)
      BY <3>1, <1>2
    <3>2. CASE ~On(R[r], a)
      BY <3>2, <1>2
    <3>3. QED
      BY <3>1, <3>2
  <2> HIDE DEF h, l, h2, l2, d, n, m
  <2>8. m <= h2 + l2
    <3>1. CASE On(R[r], a) /\ ~On(q, a)
      <4>1. m = 0 \/ m <= n - 1 \/ (m <= n /\ d = 1)
        BY <3>1, <2>6, Zenon
      <4>2. h2 = h - 1
        BY <3>1, <2>7
      <4>3. QED
        BY <4>1, <4>2, <2>2, <2>3, <2>4, <2>5
    <3>2. CASE ~On(R[r], a) /\ On(q, a)
      <4>1. h2 = h + 1
        BY <3>2, <2>7
      <4>2. m = 0 \/ m <= n - 1 \/ m <= n \/ m <= n + 1
        BY <2>6
      <4>3. QED
        BY <4>1, <4>2, <2>2, <2>3, <2>4, <2>5
    <3>3. CASE On(R[r], a) <=> On(q, a)
      <4>1. m = 0 \/ m <= n - 1 \/ m <= n
        BY <3>3, <2>6, Zenon
      <4>2. h2 = h
        BY <3>3, <2>7
      <4>3. QED
        BY <4>1, <4>2, <2>2, <2>3, <2>4, <2>5
    <3>4. QED
      BY <3>1, <3>2, <3>3
  <2>9. QED
    BY <2>8 DEF h2, l2, m
<1>4. QED
  BY <1>2, <1>3 DEF AccountFits, R2

\* The lazy clean-up of statuses keeps an entry's type and whether it exists.
LEMMA RefreshType ==
  ASSUME NEW e \in Entry, NEW t
  PROVE  /\ RefreshStatus(e, t) \in Entry
         /\ RefreshStatus(e, t).status \notin Status => e.status \notin Status
<1>1. /\ LimitLifted(e, t) \in Entry
      /\ LimitLifted(e, t).status \notin Status => e.status \notin Status
  BY DEF LimitLifted, Entry, Status
<1>2. \A f \in Entry : /\ TokenChecked(f, t) \in Entry
                       /\ TokenChecked(f, t).status \notin Status => f.status \notin Status
  BY DEF TokenChecked, Entry, Status
<1>3. QED
  BY <1>1, <1>2 DEF RefreshStatus

\* acquire() first cleans up statuses and slots.
LEMMA RefreshFits ==
  ASSUME NEW E, NEW S, NEW R, PoolFits(E, S, R), now \in Nat
  PROVE  PoolFits(RefreshEntries(E, Account, now), DropStale(S, now), R)
<1>1. ASSUME NEW a \in Account
      PROVE  AccountFits(RefreshStatus(E[a], now), FreshSlots(S[a], now), R, a)
  <2>1. AccountFits(E[a], S[a], R, a)
    BY DEF PoolFits
  <2>2. /\ RefreshStatus(E[a], now) \in Entry
        /\ RefreshStatus(E[a], now).status \notin Status => E[a].status \notin Status
    BY <2>1, RefreshType DEF AccountFits
  <2>3. /\ FreshSlots(S[a], now) \in Seq(Nat)
        /\ Len(FreshSlots(S[a], now)) <= Len(S[a])
        /\ S[a] = <<>> => FreshSlots(S[a], now) = <<>>
    BY <2>1, FreshSlotsType DEF AccountFits
  <2>4. /\ Cardinality(HoldersIn(R, a)) \in Nat /\ Cardinality(LostIn(R, a)) \in Nat
        /\ Len(S[a]) \in Nat /\ Len(FreshSlots(S[a], now)) \in Nat
    BY <2>1, <2>3, FS_CardinalityType DEF AccountFits
  <2>5. QED
    BY <2>1, <2>2, <2>3, <2>4 DEF AccountFits
<1>2. QED
  BY <1>1 DEF PoolFits, RefreshEntries, DropStale
\* A release of b: by the request that holds it, or once more by one that has
\* left it.  q is the request's record afterwards.
LEMMA ReleaseFits ==
  ASSUME NEW E, NEW S, NEW R, PoolFits(E, S, R), R = [x \in Request |-> R[x]],
         NEW r \in Request, NEW p, NEW q, NEW b \in Account,
         p.lost \in [Account -> Nat], R[r].lost = p.lost,
         q.lost = Released(p, b).lost, q.pc = "done",
         \/ R[r].acct = b /\ p.owed[b] > 0
         \/ R[r].pc \notin InFlight /\ b \in p.released
  PROVE  PoolFits(E, SlotsReleased(S, p, b), [R EXCEPT ![r] = q])
<1> DEFINE Z == SlotsReleased(S, p, b)
<1>1. /\ \A a \in Account : /\ AccountFits(E[a], S[a], R, a)
                            /\ E[a] \in Entry /\ S[a] \in Seq(Nat)
                            /\ E[a].status \notin Status => S[a] = <<>>
                            /\ R[r].lost[a] \in Nat
                            /\ ~On(q, a)
      /\ E = [a \in Account |-> E[a]] /\ S = [a \in Account |-> S[a]]
  BY DEF PoolFits, AccountFits, On, InFlight
<1>2. Released(p, b).lost = IF b \in p.released /\ p.owed[b] > 0
                            THEN [p.lost EXCEPT ![b] = @ + 1] ELSE p.lost
  BY DEF Released, Counted
<1>3. /\ \A a \in Account \ {b} : q.lost[a] = R[r].lost[a]
      /\ q.lost[b] = R[r].lost[b] + (IF b \in p.released /\ p.owed[b] > 0 THEN 1 ELSE 0)
  BY <1>1, <1>2
<1>4. Z = IF b \in p.released THEN S
          ELSE [S EXCEPT ![b] = IF @ = <<>> THEN <<>> ELSE Tail(@)]
  BY DEF SlotsReleased, PopSlot
<1>5. ASSUME NEW a \in Account, a # b
      PROVE  AccountFits(E[a], Z[a], [R EXCEPT ![r] = q], a)
  <2>1. Z[a] = S[a]
    BY <1>1, <1>4, <1>5
  <2>2. ~On(R[r], a)
    BY <1>5 DEF On
  <2>3. Len(S[a]) <= Len(S[a])
    BY <1>1
  <2>4. QED
    BY <1>1, <1>3, <1>5, <2>1, <2>2, <2>3, AccountMoves
<1>6. AccountFits(E[b], Z[b], [R EXCEPT ![r] = q], b)
  <2>1. /\ Z[b] \in Seq(Nat)
        /\ E[b].status \notin Status => Z[b] = <<>>
        /\ b \in p.released => Z[b] = S[b]
        /\ b \notin p.released => Z[b] = <<>> \/ Len(Z[b]) = Len(S[b]) - 1
    <3>1. S[b] \in Seq(Nat) /\ (E[b].status \notin Status => S[b] = <<>>)
      BY <1>1
    <3>2. CASE b \in p.released
      BY <1>4, <3>1, <3>2
    <3>3. CASE b \notin p.released
      <4>1. Z[b] = IF S[b] = <<>> THEN <<>> ELSE Tail(S[b])
        BY <1>1, <1>4, <3>3
      <4>2. QED
        BY <3>1, <3>3, <4>1
    <3>4. QED
      BY <3>2, <3>3
  <2>2. q.lost[b] \in {R[r].lost[b], R[r].lost[b] + 1}
    BY <1>1, <1>3
  <2>3. CASE b \notin p.released
    <3>1. Z[b] = <<>> \/ Len(Z[b]) <= Len(S[b]) - 1
      BY <1>1, <2>1, <2>3
    <3>2. QED
      BY <1>1, <2>1, <2>2, <3>1, AccountMoves
  <2>4. CASE b \in p.released
    <3>1. Len(Z[b]) <= Len(S[b])
      BY <1>1, <2>1, <2>4
    <3>2. ~On(R[r], b) \/ q.lost[b] = R[r].lost[b] + 1
      BY <1>3, <2>4 DEF On
    <3>3. QED
      BY <1>1, <2>1, <2>2, <3>1, <3>2, AccountMoves
  <2>5. QED
    BY <2>3, <2>4
<1>7. Z = [a \in Account |-> Z[a]]
  BY <1>1, <1>4
<1> HIDE DEF Z
<1>8. PoolFits(E, Z, [R EXCEPT ![r] = q])
  BY <1>1, <1>5, <1>6, <1>7 DEF PoolFits
<1>9. QED
  BY <1>8 DEF Z

\* A mark of b clears its locks, whatever the request that held b becomes.
LEMMA MarkFits ==
  ASSUME NEW E, NEW S, NEW R, PoolFits(E, S, R), R = [x \in Request |-> R[x]],
         NEW r \in Request, NEW q, NEW b \in Account,
         R[r].lost \in [Account -> Nat], q.lost = R[r].lost,
         R[r].acct = b, q.acct = b,
         NEW f \in Entry,
         NEW F, F = IF Present(E, b) THEN [E EXCEPT ![b] = f] ELSE E
  PROVE  PoolFits(F, ClearLockOf(S, E, b), [R EXCEPT ![r] = q])
<1> DEFINE Z == ClearLockOf(S, E, b)
<1>1. /\ \A a \in Account : /\ AccountFits(E[a], S[a], R, a)
                            /\ E[a] \in Entry /\ S[a] \in Seq(Nat)
                            /\ E[a].status \notin Status => S[a] = <<>>
                            /\ R[r].lost[a] \in Nat /\ q.lost[a] = R[r].lost[a]
      /\ E = [a \in Account |-> E[a]] /\ S = [a \in Account |-> S[a]]
  BY DEF PoolFits, AccountFits
<1>2. /\ Z = [a \in Account |-> Z[a]] /\ F = [a \in Account |-> F[a]]
      /\ Z[b] = <<>>
      /\ \A a \in Account \ {b} : Z[a] = S[a] /\ F[a] = E[a]
      /\ F[b] \in Entry
  BY <1>1 DEF ClearLockOf, ClearLock, Present
<1> HIDE DEF Z
<1>3. ASSUME NEW a \in Account, a # b
      PROVE  AccountFits(F[a], Z[a], [R EXCEPT ![r] = q], a)
  <2>1. ~On(R[r], a) /\ ~On(q, a)
    BY <1>3 DEF On
  <2>2. S[a] \in Seq(Nat)
    BY <1>1
  <2>3. Len(S[a]) <= Len(S[a])
    BY <2>2
  <2>4. QED
    BY <1>1, <1>2, <1>3, <2>1, <2>3, AccountMoves
<1>4. AccountFits(F[b], Z[b], [R EXCEPT ![r] = q], b)
  <2>1. <<>> \in Seq(Nat)
    OBVIOUS
  <2>2. QED
    BY <1>1, <1>2, <2>1, AccountMoves
<1>5. PoolFits(F, Z, [R EXCEPT ![r] = q])
  BY <1>2, <1>3, <1>4 DEF PoolFits
<1>6. QED
  BY <1>5 DEF Z
\* acquire() pushes a slot for the request that takes b.
LEMMA TakeFits ==
  ASSUME NEW E, NEW S, NEW R, PoolFits(E, S, R), R = [x \in Request |-> R[x]],
         NEW r \in Request, NEW q, NEW b \in Account, NEW t \in Nat,
         R[r].lost \in [Account -> Nat], q.lost = R[r].lost,
         R[r].pc \notin InFlight, q.pc \in InFlight, q.acct = b,
         E[b].status \in Status
  PROVE  PoolFits(E, PushSlot(S, b, t), [R EXCEPT ![r] = q])
<1> DEFINE Z == PushSlot(S, b, t)
<1>1. /\ \A a \in Account : /\ AccountFits(E[a], S[a], R, a)
                            /\ E[a] \in Entry /\ S[a] \in Seq(Nat)
                            /\ E[a].status \notin Status => S[a] = <<>>
                            /\ R[r].lost[a] \in Nat /\ q.lost[a] = R[r].lost[a]
                            /\ ~On(R[r], a)
                            /\ On(q, a) <=> a = b
      /\ E = [a \in Account |-> E[a]] /\ S = [a \in Account |-> S[a]]
  BY DEF PoolFits, AccountFits, On
<1>2. /\ Z = [a \in Account |-> Z[a]]
      /\ \A a \in Account \ {b} : Z[a] = S[a]
      /\ Z[b] = Append(S[b], t)
  BY <1>1 DEF PushSlot
<1> HIDE DEF Z
<1>3. ASSUME NEW a \in Account, a # b
      PROVE  AccountFits(E[a], Z[a], [R EXCEPT ![r] = q], a)
  <2>1. S[a] \in Seq(Nat)
    BY <1>1
  <2>2. Len(S[a]) <= Len(S[a])
    BY <2>1
  <2>3. QED
    BY <1>1, <1>2, <1>3, <2>2, AccountMoves
<1>4. AccountFits(E[b], Z[b], [R EXCEPT ![r] = q], b)
  <2>1. S[b] \in Seq(Nat)
    BY <1>1
  <2>2. Append(S[b], t) \in Seq(Nat) /\ Len(Append(S[b], t)) <= Len(S[b]) + 1
    BY <2>1
  <2>3. QED
    BY <1>1, <1>2, <2>2, AccountMoves
<1>5. PoolFits(E, Z, [R EXCEPT ![r] = q])
  BY <1>1, <1>2, <1>3, <1>4 DEF PoolFits
<1>6. QED
  BY <1>5 DEF Z

\* What a step leaves of the other variables.
OthersKept ==
    /\ now' \in Nat
    /\ affinity' \in [Request -> Remembered]

\* A step of one request.
LEMMA RequestStep ==
  ASSUME IInv, NEW r \in Request, NEW q, RequestOK(q),
         Becomes(r, q), PoolFits(entry', slots', [req EXCEPT ![r] = q]), OthersKept
  PROVE  IInv'
<1>1. /\ req' = [req EXCEPT ![r] = q]
      /\ req = [x \in Request |-> req[x]]
      /\ \A x \in Request : RequestOK(req[x])
  BY DEF IInv, Becomes
<1>2. /\ req' = [x \in Request |-> req'[x]]
      /\ \A x \in Request : RequestOK(req'[x])
  BY <1>1
<1>3. PoolFits(entry', slots', req')
  BY <1>1
<1>4. IInv' <=> /\ PoolFits(entry', slots', req')
                /\ now' \in Nat
                /\ req' = [x \in Request |-> req'[x]]
                /\ \A x \in Request : RequestOK(req'[x])
                /\ affinity' \in [Request -> Remembered]
  BY DEF IInv, PoolFits, AccountFits, HoldersIn, LostIn, RequestOK, RequestType, Remembered
<1>5. QED
  BY <1>2, <1>3, <1>4 DEF OthersKept

\* A step of the environment: the requests are as they were.
LEMMA SamePool ==
  ASSUME IInv, UNCHANGED <<req, affinity>>, now' \in Nat,
         PoolFits(entry', slots', req')
  PROVE  IInv'
BY DEF IInv, PoolFits, AccountFits, HoldersIn, LostIn, RequestOK, RequestType, Remembered

\* The record of a request that has left its account, ready to take another one
\* or to answer.
Between(q) ==
    /\ q \in RequestType
    /\ \A a \in Account : q.owed[a] >= 0
    /\ q.counted <= 1

LEMMA RepliedRecord ==
  ASSUME NEW q, Between(q)
  PROVE  /\ RequestOK(Replied(q)) /\ Between(Replied(q))
         /\ Replied(q).pc = "done" /\ Replied(q).lost = q.lost
         /\ Replied(q).acct = q.acct
         /\ q.lost \in [Account -> Nat]
BY DEF Between, RequestOK, Replied, RequestType, InFlight

\* Once a request has left its account, acquire() gives it another one or the
\* error is answered.
LEMMA AcquireOrReply ==
  ASSUME IInv, NEW r \in Request, NEW E, NEW S, NEW q, Between(q),
         PoolFits(E, S, [req EXCEPT ![r] = Replied(q)]),
         OthersKept
  PROVE  /\ PoolRefreshed(E, S) /\ Becomes(r, Replied(q)) => IInv'
         /\ \A b \in Account : \A excluded, q2 :
               /\ b \in Usable(E, S, excluded)
               /\ PoolAcquired(E, S, b)
               /\ Becomes(r, q2)
               /\ RequestOK(q2)
               /\ q2.lost = q.lost /\ q2.pc \in InFlight /\ q2.acct = b
               => IInv'
<1> DEFINE R == [req EXCEPT ![r] = Replied(q)]
           E2 == RefreshEntries(E, Account, now)
           S2 == DropStale(S, now)
<1>1. now \in Nat /\ req = [x \in Request |-> req[x]]
  BY DEF IInv
<1>2. /\ RequestOK(Replied(q))
      /\ Replied(q).pc = "done" /\ Replied(q).lost = q.lost
      /\ q.lost \in [Account -> Nat]
  BY RepliedRecord
<1>3. PoolFits(E2, S2, R)
  BY <1>1, RefreshFits
<1>4. ASSUME PoolRefreshed(E, S), Becomes(r, Replied(q))
      PROVE  IInv'
  BY <1>2, <1>3, <1>4, RequestStep DEF PoolRefreshed, Pool
<1>5. ASSUME NEW b \in Account, NEW excluded, NEW q2,
             b \in Usable(E, S, excluded), PoolAcquired(E, S, b),
             Becomes(r, q2), RequestOK(q2),
             q2.lost = q.lost, q2.pc \in InFlight, q2.acct = b
      PROVE  IInv'
  <2>1. E2[b].status \in Status
    BY <1>5 DEF Usable, Candidates, Available, Status
  <2>2. /\ R = [x \in Request |-> R[x]]
        /\ R[r] = Replied(q)
        /\ [R EXCEPT ![r] = q2] = [req EXCEPT ![r] = q2]
    BY <1>1
  <2>3. R[r].pc \notin InFlight
    BY <1>2, <2>2 DEF InFlight
  <2> HIDE DEF R, E2, S2
  <2>4. PoolFits(E2, PushSlot(S2, b, now), [R EXCEPT ![r] = q2])
    BY <1>1, <1>2, <1>3, <1>5, <2>1, <2>2, <2>3, TakeFits
  <2>5. PoolFits(entry', slots', [req EXCEPT ![r] = q2])
    BY <1>5, <2>2, <2>4 DEF PoolAcquired, Pool, E2, S2
  <2>6. QED
    BY <1>5, <2>5, RequestStep
<1>6. QED
  BY <1>4, <1>5
\* What an acquire does to the record of the request.
LEMMA AcquiredRecord ==
  ASSUME NEW q, Between(q), NEW b \in Account
  PROVE  /\ Between(Acquired(q, b))
         /\ Acquired(q, b).acct = b /\ Acquired(q, b).owed[b] = 1
         /\ Acquired(q, b).counted = 0 /\ Acquired(q, b).lost = q.lost
         /\ Acquired(q, b).pc = q.pc /\ Acquired(q, b).outer = q.outer
         /\ Acquired(q, b).turn = q.turn /\ Acquired(q, b).attempt = q.attempt
         /\ Acquired(q, b).released = q.released /\ Acquired(q, b).tried = q.tried
<1> DEFINE owed == [q.owed EXCEPT ![b] = 1]
<1>1. q.owed \in [Account -> Int] /\ \A a \in Account : q.owed[a] >= 0
  BY DEF Between, RequestType
<1>2. /\ owed \in [Account -> Int] /\ owed[b] = 1
      /\ \A a \in Account : owed[a] >= 0
  BY <1>1
<1>3. Acquired(q, b) = [q EXCEPT !.acct = b, !.owed = owed, !.counted = 0]
  BY DEF Acquired, Between, RequestType
<1> HIDE DEF owed
<1>4. Acquired(q, b) \in RequestType
  <2>1. q \in RequestType
    BY DEF Between
  <2>2. owed \in [Account -> Int] /\ b \in Account \cup {None} /\ 0 \in Nat
    BY <1>2
  <2>3. QED
    BY <1>3, <2>1, <2>2 DEF RequestType
<1>5. /\ Acquired(q, b).acct = b /\ Acquired(q, b).owed = owed
      /\ Acquired(q, b).counted = 0 /\ Acquired(q, b).lost = q.lost
      /\ Acquired(q, b).pc = q.pc /\ Acquired(q, b).outer = q.outer
      /\ Acquired(q, b).turn = q.turn /\ Acquired(q, b).attempt = q.attempt
      /\ Acquired(q, b).released = q.released /\ Acquired(q, b).tried = q.tried
  BY <1>3 DEF Between, RequestType
<1>6. QED
  BY <1>2, <1>4, <1>5 DEF Between

LEMMA FailoverKeeps ==
  ASSUME IInv, NEW r \in Request, NEW E, NEW S, NEW q, Between(q), q.pc = "sending",
         PoolFits(E, S, [req EXCEPT ![r] = Replied(q)]),
         OthersKept, Failover(r, E, S, q)
  PROVE  IInv'
<1>1. CASE PoolRefreshed(E, S) /\ Becomes(r, Replied(q))
  BY <1>1, AcquireOrReply
<1>2. ASSUME NEW b \in Usable(E, S, q.tried),
             PoolAcquired(E, S, b),
             Becomes(r, [Acquired(q, b) EXCEPT !.outer = b, !.tried = @ \cup {b}])
      PROVE  IInv'
  <2> DEFINE q2 == [Acquired(q, b) EXCEPT !.outer = b, !.tried = @ \cup {b}]
  <2>1. b \in Account
    BY <1>2 DEF Usable, Candidates, Available
  <2>2. RequestOK(q2) /\ q2.lost = q.lost /\ q2.pc \in InFlight /\ q2.acct = b
    <3> DEFINE p == Acquired(q, b)
    <3>1. Between(p) /\ p.acct = b /\ p.owed[b] = 1 /\ p.counted = 0
          /\ p.lost = q.lost /\ p.pc = "sending"
      BY <2>1, AcquiredRecord
    <3> HIDE DEF p
    <3> DEFINE tried == p.tried \cup {b}
    <3>2. q2 = [p EXCEPT !.outer = b, !.tried = tried]
      BY DEF p
    <3>3. tried \in SUBSET Account
      BY <2>1, <3>1 DEF Between, RequestType
    <3> HIDE DEF q2, tried
    <3>4. /\ q2 \in RequestType
          /\ q2.acct = b /\ q2.outer = b /\ q2.pc = "sending"
          /\ q2.owed = p.owed /\ q2.counted = 0 /\ q2.lost = p.lost
      BY <2>1, <3>1, <3>2, <3>3 DEF Between, RequestType
    <3>5. QED
      BY <2>1, <3>1, <3>4 DEF Between, RequestOK, InFlight
  <2> HIDE DEF q2
  <2>3. Becomes(r, q2)
    BY <1>2 DEF q2
  <2>4. QED
    BY <1>2, <2>1, <2>2, <2>3, AcquireOrReply
<1>3. QED
  BY <1>1, <1>2 DEF Failover

\* What a release does to the record of the request.
LEMMA ReleasedRecord ==
  ASSUME NEW q, Between(q), NEW b \in Account,
         b \notin q.released => q.owed[b] >= 1 /\ q.counted = 0
  PROVE  /\ Between(Released(q, b))
         /\ b \in Released(q, b).released /\ q.released \subseteq Released(q, b).released
         /\ Released(q, b).pc = q.pc /\ Released(q, b).outer = q.outer
         /\ Released(q, b).turn = q.turn /\ Released(q, b).attempt = q.attempt
         /\ Released(q, b).acct = q.acct /\ Released(q, b).tried = q.tried
<1>1. CASE b \in q.released
  BY <1>1 DEF Between, Released, RequestType
<1>2. CASE b \notin q.released
  <2> DEFINE owed == [q.owed EXCEPT ![b] = @ - 1]
             c == IF Present(entry, b) THEN q.counted + 1 ELSE q.counted
             released == q.released \cup {b}
  <2>1. owed \in [Account -> Int] /\ \A a \in Account : owed[a] >= 0
    BY <1>2 DEF Between, RequestType
  <2>2. c \in Nat /\ c <= 1
    BY <1>2 DEF Between, RequestType
  <2>3. Released(q, b) = [q EXCEPT !.released = released, !.owed = owed, !.counted = c]
    BY <1>2 DEF Released, Counted, Between, RequestType
  <2>4. released \in SUBSET Account
    BY DEF Between, RequestType
  <2> HIDE DEF owed, c, released
  <2>5. QED
    BY <2>1, <2>2, <2>3, <2>4 DEF Between, RequestType, released
<1>3. QED
  BY <1>1, <1>2

\* A request in flight leaves its account by a release.
LEMMA Leaves ==
  ASSUME IInv, NEW r \in Request, req[r].pc \in InFlight
  PROVE  LET q == Released(req[r], req[r].acct)
         IN  /\ req[r].acct \in Account
             /\ Between(q)
             /\ req[r].acct \in q.released /\ req[r].released \subseteq q.released
             /\ q.pc = req[r].pc /\ q.outer = req[r].outer
             /\ q.turn = req[r].turn /\ q.attempt = req[r].attempt
             /\ \A z : z.pc = "done" /\ z.lost = q.lost =>
                   PoolFits(entry, SlotsReleased(slots, req[r], req[r].acct),
                            [req EXCEPT ![r] = z])
<1> DEFINE p == req[r]
           q == Released(p, p.acct)
<1>1. /\ RequestOK(p) /\ PoolFits(entry, slots, req)
      /\ req = [x \in Request |-> req[x]]
  BY DEF IInv
<1>2. /\ Between(p) /\ p.acct \in Account
      /\ p.owed[p.acct] = 1 /\ p.counted = 0
      /\ p.lost \in [Account -> Nat]
  BY <1>1 DEF RequestOK, Between, RequestType
<1>3. /\ Between(q)
      /\ p.acct \in q.released /\ p.released \subseteq q.released
      /\ q.pc = p.pc /\ q.outer = p.outer /\ q.turn = p.turn /\ q.attempt = p.attempt
  BY <1>2, ReleasedRecord
<1> HIDE DEF p
<1>4. ASSUME NEW z, z.pc = "done", z.lost = q.lost
      PROVE  PoolFits(entry, SlotsReleased(slots, p, p.acct), [req EXCEPT ![r] = z])
  BY <1>1, <1>2, <1>4, ReleaseFits DEF p
<1>5. QED
  BY <1>2, <1>3, <1>4 DEF p

LEMMA ReplyKeeps ==
  ASSUME IInv, NEW r \in Request, req[r].pc \in InFlight,
         ReleaseAndReply(r), OthersKept
  PROVE  IInv'
<1> DEFINE q == Released(req[r], req[r].acct)
<1>1. Between(q)
  BY Leaves
<1>2. RequestOK(Replied(q)) /\ Replied(q).pc = "done" /\ Replied(q).lost = q.lost
  BY <1>1, RepliedRecord
<1>3. PoolFits(entry, SlotsReleased(slots, req[r], req[r].acct),
               [req EXCEPT ![r] = Replied(q)])
  BY <1>2, Leaves
<1>4. QED
  BY <1>2, <1>3, RequestStep DEF ReleaseAndReply, Pool

\* Every step but a response that is remembered keeps the clock and the memory.
LEMMA OthersUnchanged ==
  ASSUME IInv, UNCHANGED <<now, affinity>>
  PROVE  OthersKept
BY DEF IInv, OthersKept, Remembered

LEMMA RecordedKept ==
  ASSUME IInv, NEW r \in Request, req[r].pc \in InFlight \ {"sending"},
         Recorded(r), UNCHANGED now
  PROVE  OthersKept
<1>1. [acct |-> req[r].acct, turn |-> req[r].turn] \in Remembered
  BY DEF IInv, RequestOK, Remembered
<1>2. QED
  BY <1>1 DEF IInv, OthersKept, Recorded
\* A rate limit, and any other mark, of the account a request is on.
LEMMA RateLimitFits ==
  ASSUME IInv, NEW r \in Request, req[r].acct \in Account,
         NEW q, q.lost = req[r].lost, q.acct = req[r].acct,
         NEW b \in Backoffs
  PROVE  PoolFits(MarkRateLimited(entry, req[r].acct, now + b),
                  ClearLockOf(slots, entry, req[r].acct), [req EXCEPT ![r] = q])
<1> DEFINE a == req[r].acct
           f == [entry[a] EXCEPT !.status = "rate_limited", !.until = now + b]
<1>1. /\ PoolFits(entry, slots, req) /\ req = [x \in Request |-> req[x]]
      /\ req[r].lost \in [Account -> Nat]
      /\ entry[a] \in Entry /\ now + b \in Nat
  <2>1. now \in Nat /\ b \in Nat
    BY HandlerAssumption DEF IInv
  <2>2. now + b \in Nat
    BY <2>1
  <2>3. QED
    BY <2>2 DEF IInv, PoolFits, AccountFits, RequestOK, RequestType
<1> HIDE DEF a
<1>2. f \in Entry
  BY <1>1 DEF Entry, Status
<1>3. MarkRateLimited(entry, a, now + b) =
         IF Present(entry, a) THEN [entry EXCEPT ![a] = f] ELSE entry
  BY DEF MarkRateLimited
<1> HIDE DEF f
<1>4. QED
  BY <1>1, <1>2, <1>3, MarkFits DEF a

LEMMA RejectionFits ==
  ASSUME IInv, NEW r \in Request, req[r].acct \in Account,
         NEW q, q.lost = req[r].lost, q.acct = req[r].acct,
         NEW s \in Status
  PROVE  PoolFits(MarkStatus(entry, req[r].acct, s),
                  ClearLockOf(slots, entry, req[r].acct), [req EXCEPT ![r] = q])
<1> DEFINE a == req[r].acct
           f == [entry[a] EXCEPT !.status = s]
<1>1. /\ PoolFits(entry, slots, req) /\ req = [x \in Request |-> req[x]]
      /\ req[r].lost \in [Account -> Nat]
      /\ entry[a] \in Entry
  BY DEF IInv, PoolFits, AccountFits, RequestOK, RequestType
<1> HIDE DEF a
<1>2. f \in Entry
  BY <1>1 DEF Entry
<1>3. MarkStatus(entry, a, s) =
         IF Present(entry, a) THEN [entry EXCEPT ![a] = f] ELSE entry
  BY DEF MarkStatus
<1> HIDE DEF f
<1>4. QED
  BY <1>1, <1>2, <1>3, MarkFits DEF a

\* A step that neither leaves nor takes an account and does not touch the pool.
LEMMA StaysFits ==
  ASSUME IInv, NEW r \in Request, NEW q,
         q.lost = req[r].lost,
         \A a \in Account : On(q, a) <=> On(req[r], a)
  PROVE  PoolFits(entry, slots, [req EXCEPT ![r] = q])
<1>1. /\ \A a \in Account : /\ AccountFits(entry[a], slots[a], req, a)
                            /\ entry[a] \in Entry /\ slots[a] \in Seq(Nat)
                            /\ entry[a].status \notin Status => slots[a] = <<>>
      /\ entry = [a \in Account |-> entry[a]] /\ slots = [a \in Account |-> slots[a]]
      /\ req = [x \in Request |-> req[x]]
  BY DEF IInv, PoolFits, AccountFits
<1>2. \A a \in Account : req[r].lost[a] \in Nat /\ q.lost[a] = req[r].lost[a]
  BY DEF IInv, RequestOK, RequestType
<1>3. ASSUME NEW a \in Account
      PROVE  AccountFits(entry[a], slots[a], [req EXCEPT ![r] = q], a)
  <2>1. slots[a] \in Seq(Nat)
    BY <1>1
  <2>2. Len(slots[a]) <= Len(slots[a])
    BY <2>1
  <2>3. QED
    BY <1>1, <1>2, <2>2, AccountMoves
<1>4. QED
  BY <1>1, <1>3 DEF PoolFits

-----------------------------------------------------------------------------
(* handleProxyRequest *)

LEMMA StartKeeps ==
  ASSUME IInv, NEW r \in Request, NEW prev, Start(r, prev)
  PROVE  IInv'
<1> DEFINE q == req[r]
<1>1. Between(q) /\ q.pc = "idle" /\ OthersKept
  BY OthersUnchanged DEF IInv, RequestOK, Between, Start
<1>2. RequestOK(Replied(q)) /\ Replied(q).lost = q.lost /\ Replied(q).pc = "done"
  BY <1>1, RepliedRecord
<1>3. PoolFits(entry, slots, [req EXCEPT ![r] = Replied(q)])
  <2>1. \A a \in Account : On(Replied(q), a) <=> On(q, a)
    BY <1>1, <1>2 DEF On, InFlight
  <2>2. QED
    BY <1>2, <2>1, StaysFits
<1>4. CASE PoolRefreshed(entry, slots) /\ Becomes(r, Replied(q))
  BY <1>1, <1>3, <1>4, AcquireOrReply
<1>5. ASSUME NEW b \in Usable(entry, slots, {}), PoolAcquired(entry, slots, b),
             Becomes(r, [Acquired(q, b) EXCEPT !.pc = "sending", !.outer = b, !.tried = {b}])
      PROVE  IInv'
  <2> DEFINE p == Acquired(q, b)
             q2 == [p EXCEPT !.pc = "sending", !.outer = b, !.tried = {b}]
  <2>1. b \in Account
    BY <1>5 DEF Usable, Candidates, Available
  <2>2. Between(p) /\ p.acct = b /\ p.owed[b] = 1 /\ p.counted = 0 /\ p.lost = q.lost
    BY <1>1, <2>1, AcquiredRecord
  <2> HIDE DEF p
  <2>3. /\ q2 \in RequestType
        /\ q2.acct = b /\ q2.outer = b /\ q2.pc = "sending"
        /\ q2.owed = p.owed /\ q2.counted = 0 /\ q2.lost = p.lost
    BY <2>1, <2>2 DEF Between, RequestType, InFlight
  <2>4. Becomes(r, q2)
    BY <1>5 DEF p
  <2> HIDE DEF q2
  <2>5. RequestOK(q2) /\ q2.pc \in InFlight
    BY <2>1, <2>2, <2>3 DEF Between, RequestOK, InFlight
  <2>6. QED
    BY <1>1, <1>3, <1>5, <2>1, <2>2, <2>3, <2>4, <2>5, AcquireOrReply
<1>6. QED
  BY <1>4, <1>5 DEF Start, Choices

LEMMA OpensKeeps ==
  ASSUME IInv, NEW r \in Request, NEW body \in {"streaming", "collecting"},
         \/ Opens(r, body)
         \/ \E b \in Backoffs : OpensExhausted(r, body, b)
  PROVE  IInv'
<1> DEFINE p == req[r]
           q == [p EXCEPT !.pc = body, !.turn = p.acct]
<1>1. /\ RequestOK(p) /\ p.pc = "sending" /\ p.acct \in Account
      /\ Becomes(r, q) /\ OthersKept
  BY OthersUnchanged DEF IInv, RequestOK, InFlight, Opens, OpensExhausted
<1> HIDE DEF p
<1>2. /\ q \in RequestType
      /\ q.acct = p.acct /\ q.outer = p.outer /\ q.pc = body /\ q.turn = p.acct
      /\ q.owed = p.owed /\ q.counted = p.counted /\ q.lost = p.lost
      /\ q.released = p.released
  BY <1>1 DEF RequestOK, RequestType, InFlight
<1> HIDE DEF q
<1>3. RequestOK(q) /\ \A a \in Account : On(q, a) <=> On(p, a)
  BY <1>1, <1>2 DEF RequestOK, InFlight, On
<1>4. CASE Opens(r, body)
  <2>1. PoolFits(entry, slots, [req EXCEPT ![r] = q])
    BY <1>2, <1>3, StaysFits DEF p
  <2>2. QED
    BY <1>1, <1>3, <1>4, <2>1, RequestStep DEF Opens, Pool
<1>5. ASSUME NEW b \in Backoffs, OpensExhausted(r, body, b)
      PROVE  IInv'
  <2>1. PoolFits(MarkRateLimited(entry, p.acct, now + b),
                 ClearLockOf(slots, entry, p.acct), [req EXCEPT ![r] = q])
    BY <1>1, <1>2, <1>5, RateLimitFits DEF p
  <2>2. QED
    BY <1>1, <1>3, <1>5, <2>1, RequestStep DEF OpensExhausted, Pool, p
<1>6. QED
  BY <1>4, <1>5
LEMMA ModelUnsupportedKeeps ==
  ASSUME IInv, NEW r \in Request, ModelUnsupported(r)
  PROVE  IInv'
<1> DEFINE p == Released(req[r], req[r].acct)
           q == [p EXCEPT !.modelRetried = TRUE]
           S == SlotsReleased(slots, req[r], req[r].acct)
<1>1. req[r].pc = "sending" /\ req[r].pc \in InFlight /\ OthersKept
  BY OthersUnchanged DEF ModelUnsupported, InFlight
<1>2. /\ Between(p) /\ p.pc = "sending"
      /\ \A z : z.pc = "done" /\ z.lost = p.lost => PoolFits(entry, S, [req EXCEPT ![r] = z])
  BY <1>1, Leaves
<1>3. CASE ReleaseAndReply(r)
  BY <1>1, <1>3, ReplyKeeps
<1>4. CASE Failover(r, entry, S, q)
  <2> HIDE DEF p, S
  <2>1. Between(q) /\ q.pc = "sending" /\ q.lost = p.lost
    BY <1>2 DEF Between, RequestType
  <2> HIDE DEF q
  <2>2. PoolFits(entry, S, [req EXCEPT ![r] = Replied(q)])
    BY <1>2, <2>1, RepliedRecord
  <2>3. QED
    BY <1>1, <1>4, <2>1, <2>2, FailoverKeeps
<1>5. QED
  BY <1>3, <1>4 DEF ModelUnsupported

\* 429, 402, 403, 401: the mark drops the locks, the request is not released.
LEMMA RejectedKeeps ==
  ASSUME IInv, NEW r \in Request,
         \/ \E b \in Backoffs : RateLimited(r, b)
         \/ \E s \in {"quota_exhausted", "banned", "expired"} : Rejected(r, s)
  PROVE  IInv'
<1> DEFINE p == req[r]
<1>1. /\ p.pc = "sending" /\ OthersKept
      /\ RequestOK(p)
  BY OthersUnchanged DEF IInv, RateLimited, Rejected
<1>2. Between(p) /\ p.acct \in Account /\ p.counted = 0
  BY <1>1 DEF RequestOK, Between, InFlight
<1>3. ASSUME NEW b \in Backoffs, RateLimited(r, b)
      PROVE  IInv'
  <2> DEFINE q == Counted(p, entry, p.acct)
  <2>1. Between(q) /\ q.pc = "sending" /\ q.lost = p.lost /\ q.acct = p.acct
    <3> DEFINE c == IF Present(entry, p.acct) THEN p.counted + 1 ELSE p.counted
    <3> HIDE DEF p
    <3>1. c \in Nat /\ c <= 1
      BY <1>2
    <3> HIDE DEF c
    <3>2. q = [p EXCEPT !.counted = c]
      BY DEF Counted, c
    <3>3. QED
      BY <1>1, <1>2, <3>1, <3>2 DEF Between, RequestType
  <2>2. Replied(q).lost = p.lost /\ Replied(q).acct = p.acct
    BY <2>1, RepliedRecord
  <2>3. PoolFits(MarkRateLimited(entry, p.acct, now + b),
                 ClearLockOf(slots, entry, p.acct), [req EXCEPT ![r] = Replied(q)])
    BY <1>2, <2>2, RateLimitFits
  <2>4. QED
    BY <1>1, <1>3, <2>1, <2>3, FailoverKeeps DEF RateLimited
<1>4. ASSUME NEW s \in {"quota_exhausted", "banned", "expired"}, Rejected(r, s)
      PROVE  IInv'
  <2>1. Replied(p).lost = p.lost /\ Replied(p).acct = p.acct
    BY <1>2, RepliedRecord
  <2>2. PoolFits(MarkStatus(entry, p.acct, s),
                 ClearLockOf(slots, entry, p.acct), [req EXCEPT ![r] = Replied(p)])
    BY <1>2, <2>1, RejectionFits DEF Status
  <2>3. QED
    BY <1>1, <1>2, <1>4, <2>2, FailoverKeeps DEF Rejected
<1>5. QED
  BY <1>3, <1>4

-----------------------------------------------------------------------------
(* The body *)

\* Every way to end an attempt that releases the account and answers.
LEMMA EndsKeep ==
  ASSUME IInv, NEW r \in Request,
         \/ SendFails(r) \/ StreamEnds(r) \/ Collected(r) \/ CollectFails(r)
         \/ ResendRejected(r)
  PROVE  IInv'
<1>1. req[r].pc \in InFlight /\ ReleaseAndReply(r)
  BY DEF SendFails, StreamEnds, Collected, CollectFails, ResendRejected, InFlight
<1>2. OthersKept
  <2>1. CASE StreamEnds(r) \/ Collected(r)
    BY <2>1, RecordedKept DEF StreamEnds, Collected, InFlight
  <2>2. CASE SendFails(r) \/ CollectFails(r) \/ ResendRejected(r)
    BY <2>2, OthersUnchanged DEF SendFails, CollectFails, ResendRejected
  <2>3. QED
    BY <2>1, <2>2
<1>3. QED
  BY <1>1, <1>2, ReplyKeeps

\* An empty response: the account is released before another one, or the same,
\* is acquired, so the caller's account is released from then on.
LEMMA EmptyKeeps ==
  ASSUME IInv, NEW r \in Request, Empty(r)
  PROVE  IInv'
<1> DEFINE p == req[r]
           q == Released(p, p.acct)
           S == SlotsReleased(slots, p, p.acct)
<1>1. /\ p.pc = "collecting" /\ p.pc \in InFlight /\ p.attempt <= MaxEmptyRetries
      /\ RequestOK(p) /\ OthersKept
  BY OthersUnchanged DEF IInv, Empty, InFlight
<1>2. /\ Between(q) /\ p.acct \in q.released /\ p.released \subseteq q.released
      /\ q.outer = p.outer /\ q.turn = p.turn /\ q.attempt = p.attempt
      /\ \A z : z.pc = "done" /\ z.lost = q.lost => PoolFits(entry, S, [req EXCEPT ![r] = z])
  BY <1>1, Leaves
<1> HIDE DEF p, q, S
<1>3. PoolFits(entry, S, [req EXCEPT ![r] = Replied(q)])
  BY <1>2, RepliedRecord
<1>4. CASE PoolRefreshed(entry, S) /\ Becomes(r, Replied(q))
  BY <1>1, <1>2, <1>3, <1>4, AcquireOrReply
<1>5. ASSUME NEW b \in Usable(entry, S, {}), PoolAcquired(entry, S, b),
             Becomes(r, [Acquired(q, b) EXCEPT !.pc = "resending"])
      PROVE  IInv'
  <2> DEFINE t == Acquired(q, b)
             q2 == [t EXCEPT !.pc = "resending"]
  <2>1. b \in Account
    BY <1>5 DEF Usable, Candidates, Available
  <2>2. /\ Between(t) /\ t.acct = b /\ t.owed[b] = 1 /\ t.counted = 0 /\ t.lost = q.lost
        /\ t.outer = q.outer /\ t.turn = q.turn /\ t.attempt = q.attempt
        /\ t.released = q.released
    BY <1>2, <2>1, AcquiredRecord
  <2> HIDE DEF t
  <2>3. /\ q2 \in RequestType
        /\ q2.acct = b /\ q2.outer = q.outer /\ q2.pc = "resending"
        /\ q2.owed = t.owed /\ q2.counted = 0 /\ q2.lost = q.lost
        /\ q2.turn = q.turn /\ q2.attempt = q.attempt /\ q2.released = q.released
    BY <2>1, <2>2 DEF Between, RequestType, InFlight
  <2>4. Becomes(r, q2)
    BY <1>5 DEF t
  <2> HIDE DEF q2
  <2>5. /\ q.outer \in q.released /\ q.outer \in Account
        /\ q.turn \in Account /\ q.attempt <= MaxEmptyRetries
    BY <1>1, <1>2 DEF RequestOK, InFlight
  <2>6. RequestOK(q2) /\ q2.pc \in InFlight
    BY <2>1, <2>2, <2>3, <2>5 DEF Between, RequestOK, InFlight
  <2>7. QED
    BY <1>1, <1>2, <1>3, <1>5, <2>1, <2>3, <2>4, <2>6, AcquireOrReply
<1>6. QED
  BY <1>4, <1>5 DEF Empty, p, q, S

LEMMA ReopensKeeps ==
  ASSUME IInv, NEW r \in Request, Reopens(r)
  PROVE  IInv'
<1> DEFINE p == req[r]
           n == p.attempt + 1
           q == [p EXCEPT !.pc = "collecting", !.attempt = n]
<1>1. /\ RequestOK(p) /\ p.pc = "resending"
      /\ Becomes(r, q) /\ OthersKept /\ Pool(entry, slots)
  BY OthersUnchanged DEF IInv, Reopens
<1> HIDE DEF p
<1>2. n \in 1 .. MaxEmptyRetries + 1
  BY <1>1, HandlerAssumption DEF RequestOK, RequestType
<1> HIDE DEF n
<1>3. /\ q \in RequestType
      /\ q.acct = p.acct /\ q.outer = p.outer /\ q.pc = "collecting" /\ q.turn = p.turn
      /\ q.owed = p.owed /\ q.counted = p.counted /\ q.lost = p.lost
      /\ q.released = p.released
  BY <1>1, <1>2 DEF RequestOK, RequestType, InFlight
<1> HIDE DEF q
<1>4. RequestOK(q) /\ \A a \in Account : On(q, a) <=> On(p, a)
  BY <1>1, <1>3 DEF RequestOK, InFlight, On
<1>5. PoolFits(entry, slots, [req EXCEPT ![r] = q])
  BY <1>3, <1>4, StaysFits DEF p
<1>6. QED
  BY <1>1, <1>4, <1>5, RequestStep DEF Pool

\* The caller's second release finds its account released already.
LEMMA ResendThrowsKeeps ==
  ASSUME IInv, NEW r \in Request, ResendThrows(r)
  PROVE  IInv'
<1> DEFINE p == req[r]
           q == Released(p, p.acct)
           S == SlotsReleased(slots, p, p.acct)
           z == Released(q, q.outer)
           R == [req EXCEPT ![r] = Replied(q)]
<1>1. /\ p.pc = "resending" /\ p.pc \in InFlight
      /\ RequestOK(p) /\ OthersKept
      /\ req = [x \in Request |-> req[x]]
  BY OthersUnchanged DEF IInv, ResendThrows, InFlight
<1>2. /\ Between(q) /\ p.released \subseteq q.released /\ q.outer = p.outer
      /\ \A y : y.pc = "done" /\ y.lost = q.lost => PoolFits(entry, S, [req EXCEPT ![r] = y])
  BY <1>1, Leaves
<1>3. Pool(entry, SlotsReleased(S, q, q.outer)) /\ Becomes(r, Replied(z))
  BY DEF ResendThrows
<1> HIDE DEF p, q, S
<1>4. q.outer \in q.released /\ q.outer \in Account
  BY <1>1, <1>2 DEF RequestOK
<1>5. Between(z)
  BY <1>2, <1>4, ReleasedRecord
<1>6. /\ RequestOK(Replied(z)) /\ Replied(z).pc = "done" /\ Replied(z).lost = z.lost
      /\ Replied(q).pc = "done" /\ Replied(q).lost = q.lost
      /\ q.lost \in [Account -> Nat]
  BY <1>2, <1>5, RepliedRecord
<1>7. PoolFits(entry, S, R) /\ R = [x \in Request |-> R[x]] /\ R[r] = Replied(q)
      /\ [R EXCEPT ![r] = Replied(z)] = [req EXCEPT ![r] = Replied(z)]
  BY <1>1, <1>2, <1>6
<1>8. R[r].pc \notin InFlight
  BY <1>6, <1>7 DEF InFlight
<1> HIDE DEF R
<1>9. PoolFits(entry, SlotsReleased(S, q, q.outer), [R EXCEPT ![r] = Replied(z)])
  BY <1>4, <1>6, <1>7, <1>8, ReleaseFits
<1>10. QED
  BY <1>1, <1>3, <1>6, <1>7, <1>9, RequestStep DEF Pool

-----------------------------------------------------------------------------
(* Environment *)

\* An entry that changes loses its slots; the requests are left as they are.
LEMMA OperatorKeeps ==
  ASSUME IInv, NEW a \in Account,
         \/ OperatorRemoves(a)
         \/ \E s \in {"active", "disabled"} : OperatorMarks(a, s)
  PROVE  IInv'
<1>1. /\ \A b \in Account : /\ AccountFits(entry[b], slots[b], req, b)
                            /\ entry[b] \in Entry
      /\ entry = [b \in Account |-> entry[b]] /\ slots = [b \in Account |-> slots[b]]
  BY DEF IInv, PoolFits, AccountFits
<1>2. /\ entry' = [b \in Account |-> entry'[b]] /\ slots' = [b \in Account |-> slots'[b]]
      /\ \A b \in Account \ {a} : entry'[b] = entry[b] /\ slots'[b] = slots[b]
      /\ slots'[a] = <<>>
      /\ UNCHANGED <<now, req, affinity>>
  BY <1>1 DEF OperatorRemoves, OperatorMarks, Pool, RemoveEntry, MarkStatus, ClearLockOf,
              ClearLock
<1>3. entry'[a] \in Entry
  <2>1. CASE OperatorRemoves(a)
    BY <1>1, <2>1 DEF OperatorRemoves, Pool, RemoveEntry, Removed, Entry, NoEntry
  <2>2. ASSUME NEW s \in {"active", "disabled"}, OperatorMarks(a, s)
        PROVE  entry'[a] \in Entry
    BY <1>1, <2>2 DEF OperatorMarks, Pool, MarkStatus, Entry, Status
  <2>3. QED
    BY <2>1, <2>2
<1>4. AccountFits(entry'[a], <<>>, req, a)
  <2>1. /\ <<>> \in Seq(Nat) /\ Len(<<>>) = 0
        /\ Cardinality(HoldersIn(req, a)) \in Nat /\ Cardinality(LostIn(req, a)) \in Nat
    BY <1>1, FS_CardinalityType DEF AccountFits
  <2>2. QED
    BY <1>1, <1>3, <2>1 DEF AccountFits
<1>5. \A b \in Account : AccountFits(entry'[b], slots'[b], req, b)
  BY <1>1, <1>2, <1>4
<1>6. PoolFits(entry', slots', req')
  BY <1>2, <1>5 DEF PoolFits
<1>7. now' \in Nat
  BY <1>2 DEF IInv
<1>8. QED
  BY <1>2, <1>6, <1>7, SamePool
LEMMA EnvironmentKeeps ==
  ASSUME IInv, Tick \/ UNCHANGED vars
  PROVE  IInv'
<1>1. /\ UNCHANGED <<entry, slots, req, affinity>>
      /\ now' \in Nat
  BY DEF Tick, vars, IInv
<1>2. PoolFits(entry', slots', req')
  BY <1>1 DEF IInv
<1>3. QED
  BY <1>1, <1>2, SamePool

LEMMA InitInvariant ==
  Init => IInv
<1> SUFFICES ASSUME Init PROVE IInv
  OBVIOUS
<1>1. \A r \in Request : req[r] = NewRequest
  BY DEF Init
<1>2. NewRequest \in RequestType
  <2>1. 1 \in 1 .. MaxEmptyRetries + 1
    BY HandlerAssumption
  <2>2. /\ [a \in Account |-> 0] \in [Account -> Int]
        /\ [a \in Account |-> 0] \in [Account -> Nat]
    OBVIOUS
  <2>3. QED
    BY <2>1, <2>2 DEF NewRequest, RequestType
<1>3. RequestOK(NewRequest)
  BY <1>2 DEF NewRequest, RequestOK, InFlight
<1>4. ASSUME NEW a \in Account
      PROVE  AccountFits(entry[a], slots[a], req, a)
  <2>1. entry[a] \in Entry
    <3>1. MaxTime + 1 \in Nat
      BY HandlerAssumption
    <3>2. QED
      BY <3>1 DEF Init, Entry, Status
  <2>2. slots[a] = <<>> /\ <<>> \in Seq(Nat) /\ Len(<<>>) = 0
    BY DEF Init
  <2>3. HoldersIn(req, a) = {}
    BY <1>1 DEF HoldersIn, NewRequest, InFlight
  <2>4. LostIn(req, a) = {}
    <3>1. \A r \in Request : req[r].lost[a] = 0
      BY <1>1 DEF NewRequest
    <3>2. QED
      BY <3>1 DEF LostIn
  <2>5. QED
    BY <2>1, <2>2, <2>3, <2>4, FS_EmptySet DEF AccountFits
<1>5. PoolFits(entry, slots, req)
  BY <1>4 DEF PoolFits, Init
<1>6. QED
  BY <1>1, <1>3, <1>5 DEF IInv, Init, Remembered

-----------------------------------------------------------------------------
(* Theorems *)

\* IInv is inductive.
THEOREM Inductive ==
  Spec => []IInv
<1>1. IInv /\ [Next]_vars => IInv'
  <2> SUFFICES ASSUME IInv, [Next]_vars PROVE IInv'
    OBVIOUS
  <2>1. ASSUME NEW r \in Request, Answer(r)
        PROVE  IInv'
    <3>1. CASE \E body \in {"streaming", "collecting"} :
                  Opens(r, body) \/ \E b \in Backoffs : OpensExhausted(r, body, b)
      BY <3>1, OpensKeeps
    <3>2. CASE ModelUnsupported(r)
      BY <3>2, ModelUnsupportedKeeps
    <3>3. CASE \/ \E b \in Backoffs : RateLimited(r, b)
               \/ \E s \in {"quota_exhausted", "banned", "expired"} : Rejected(r, s)
      BY <3>3, RejectedKeeps
    <3>4. CASE SendFails(r) \/ StreamEnds(r) \/ Collected(r) \/ CollectFails(r)
               \/ ResendRejected(r)
      BY <3>4, EndsKeep
    <3>5. CASE Empty(r)
      BY <3>5, EmptyKeeps
    <3>6. CASE Reopens(r)
      BY <3>6, ReopensKeeps
    <3>7. CASE ResendThrows(r)
      BY <3>7, ResendThrowsKeeps
    <3>8. QED
      BY <2>1, <3>1, <3>2, <3>3, <3>4, <3>5, <3>6, <3>7 DEF Answer
  <2>2. CASE \E r \in Request : \E prev \in Request \cup {None} : Start(r, prev)
    BY <2>2, StartKeeps
  <2>3. CASE \E a \in Account :
                OperatorRemoves(a) \/ \E s \in {"active", "disabled"} : OperatorMarks(a, s)
    BY <2>3, OperatorKeeps
  <2>4. CASE Tick \/ UNCHANGED vars
    BY <2>4, EnvironmentKeeps
  <2>5. QED
    BY <2>1, <2>2, <2>3, <2>4 DEF Next
<1>2. QED
  BY InitInvariant, <1>1, PTL DEF Spec

\* Every variable keeps its type, whatever the backend answers.
THEOREM TypeCorrect ==
  Spec => []TypeOK
<1>1. IInv => TypeOK
  BY DEF IInv, PoolFits, AccountFits, RequestOK, Remembered, TypeOK
<1>2. QED
  BY <1>1, Inductive, PTL

\* No way a request leaves an account leaves a slot behind on it, or gives one back twice.
THEOREM NoSlotLeftBehind ==
  Spec => []SlotsGivenBackOnce
<1>1. IInv => SlotsGivenBackOnce
  <2> SUFFICES ASSUME IInv PROVE SlotsGivenBackOnce
    OBVIOUS
  <2>1. \A a \in Account : Holders(a) = HoldersIn(req, a) /\ LostOn(a) = LostIn(req, a)
    BY DEF Holders, LostOn, HoldersIn, LostIn
  <2>2. SlotsAccounted
    BY <2>1 DEF IInv, PoolFits, AccountFits, SlotsAccounted
  <2>3. NoDoubleRelease
    BY DEF IInv, RequestOK, NoDoubleRelease
  <2>4. QED
    BY <2>2, <2>3 DEF SlotsGivenBackOnce
<1>2. QED
  BY <1>1, Inductive, PTL

\* An attempt enters the usage counters at most once.
THEOREM CountedOnce ==
  Spec => []CountedAtMostOnce
<1>1. IInv => CountedAtMostOnce
  BY DEF IInv, RequestOK, CountedAtMostOnce
<1>2. QED
  BY <1>1, Inductive, PTL
-----------------------------------------------------------------------------
(* Failover: what a step does to the course of its request *)

Course ==
    {c \in [phase : {"idle", "sending", "streaming", "collecting", "done"},
            at : Account \cup {None}, tried : SUBSET Account, retries : 0 .. MaxEmptyRetries] :
        c.phase = "idle" => c.tried = {}}

\* The steps that failover promises of one request.
Moves(c, d) ==
    \/ /\ c.phase = "idle"
       /\ \E a \in Account : d = [phase |-> "sending", at |-> a, tried |-> {a}, retries |-> 0]
    \/ /\ c.phase = "sending"
       /\ \E a \in Account \ c.tried : d = [c EXCEPT !.at = a, !.tried = @ \cup {a}]
    \/ /\ c.phase = "sending"
       /\ \E body \in {"streaming", "collecting"} : d = [c EXCEPT !.phase = body]
    \/ /\ c.phase = "collecting"
       /\ c.retries < MaxEmptyRetries
       /\ \E a \in Account : d = [c EXCEPT !.at = a, !.retries = @ + 1]
    \/ /\ c.phase # "done"
       /\ d = [phase |-> "done", at |-> None, tried |-> {}, retries |-> 0]

\* One request moves on, or none does.
Advances ==
    \/ UNCHANGED [r \in Request |-> CourseOf(req[r])]
    \/ \E r \in Request :
          /\ Moves(CourseOf(req[r]), CourseOf(req'[r]))
          /\ \A x \in Request \ {r} : req'[x] = req[x]

\* The course of a request, whichever await it is at.
LEMMA CourseType ==
  ASSUME NEW q, RequestOK(q)
  PROVE  /\ CourseOf(q) \in Course
         /\ q.pc = "done" => CourseOf(q).phase = "done"
         /\ q.pc # "done" => CourseOf(q).phase # "done"
         /\ q.pc = "idle" => CourseOf(q).phase = "idle"
         /\ q.pc \in InFlight /\ q.pc # "resending" =>
               CourseOf(q) = [phase |-> q.pc, at |-> q.acct, tried |-> q.tried,
                              retries |-> q.attempt - 1]
         /\ q.pc = "resending" =>
               CourseOf(q) = [phase |-> "collecting", at |-> q.acct, tried |-> q.tried,
                              retries |-> q.attempt]
<1>1. /\ q.pc \in {"idle", "done"} \cup InFlight
      /\ q.tried \in SUBSET Account
      /\ q.attempt \in 1 .. MaxEmptyRetries + 1
      /\ q.acct \in Account \cup {None}
      /\ q.pc = "resending" => q.attempt <= MaxEmptyRetries
  BY DEF RequestOK, RequestType
<1>2. MaxEmptyRetries \in Nat
  BY HandlerAssumption
<1>3. CASE q.pc \in {"idle", "done"}
  BY <1>2, <1>3 DEF CourseOf, InFlight, Course
<1>4. CASE q.pc = "resending"
  BY <1>1, <1>2, <1>4 DEF CourseOf, InFlight, Course
<1>5. CASE q.pc \in {"sending", "streaming", "collecting"}
  BY <1>1, <1>2, <1>5 DEF CourseOf, InFlight, Course
<1>6. QED
  BY <1>1, <1>3, <1>4, <1>5 DEF InFlight

\* A request that replies ends its course, wherever it was.
LEMMA ReplyMoves ==
  ASSUME IInv, NEW r \in Request, NEW q, req[r].pc # "done",
         q \in RequestType, Becomes(r, Replied(q))
  PROVE  Advances
<1>1. /\ RequestOK(req[r]) /\ req = [x \in Request |-> req[x]]
  BY DEF IInv
<1>2. /\ req'[r] = Replied(q) /\ Replied(q).pc = "done"
      /\ \A x \in Request \ {r} : req'[x] = req[x]
  BY <1>1 DEF Becomes, Replied, RequestType
<1>3. CourseOf(req'[r]) = [phase |-> "done", at |-> None, tried |-> {}, retries |-> 0]
  BY <1>2 DEF CourseOf, InFlight
<1>4. CourseOf(req[r]).phase # "done"
  BY <1>1, CourseType
<1>5. QED
  BY <1>2, <1>3, <1>4 DEF Advances, Moves

\* A request on its first answer that takes an account it has not tried.
LEMMA FailoverMoves ==
  ASSUME IInv, NEW r \in Request, NEW E, NEW S, NEW q, Between(q),
         req[r].pc = "sending", q.pc = "sending",
         q.tried = req[r].tried, q.attempt = req[r].attempt,
         Failover(r, E, S, q)
  PROVE  Advances
<1>1. CASE Becomes(r, Replied(q))
  BY <1>1, ReplyMoves DEF Between
<1>2. ASSUME NEW b \in Usable(E, S, q.tried),
             Becomes(r, [Acquired(q, b) EXCEPT !.outer = b, !.tried = @ \cup {b}])
      PROVE  Advances
  <2> DEFINE p == Acquired(q, b)
             q2 == [p EXCEPT !.outer = b, !.tried = @ \cup {b}]
             c == CourseOf(req[r])
  <2>1. b \in Account /\ b \notin req[r].tried
    BY <1>2 DEF Usable, Candidates, Available
  <2>2. RequestOK(req[r]) /\ req = [x \in Request |-> req[x]]
    BY DEF IInv
  <2>3. c = [phase |-> "sending", at |-> req[r].acct, tried |-> req[r].tried,
             retries |-> req[r].attempt - 1]
    BY <2>2, CourseType DEF InFlight
  <2>4. /\ p \in RequestType /\ p.pc = "sending" /\ p.acct = b
        /\ p.attempt = req[r].attempt /\ p.tried = req[r].tried
    BY <2>1, AcquiredRecord DEF Between
  <2>5. req'[r] = q2 /\ \A x \in Request \ {r} : req'[x] = req[x]
    BY <1>2, <2>2 DEF Becomes
  <2> HIDE DEF p, c
  <2>6. /\ q2.pc = "sending" /\ q2.acct = b /\ q2.attempt = req[r].attempt
        /\ q2.tried = req[r].tried \cup {b}
    BY <2>4 DEF RequestType
  <2> HIDE DEF q2
  <2>7. CourseOf(q2) = [phase |-> "sending", at |-> b, tried |-> req[r].tried \cup {b},
                        retries |-> req[r].attempt - 1]
    BY <2>6 DEF CourseOf, InFlight
  <2>8. c.phase = "sending" /\ b \in Account \ c.tried
    BY <2>1, <2>3
  <2>9. CourseOf(q2) = [c EXCEPT !.at = b, !.tried = @ \cup {b}]
    <3> DEFINE T == req[r].tried \cup {b}
    <3>1. c.tried \cup {b} = T
      BY <2>3
    <3> HIDE DEF T
    <3>2. c \in [phase : {"sending"}, at : {req[r].acct}, tried : {req[r].tried},
                 retries : {req[r].attempt - 1}]
      BY <2>3
    <3> DEFINE d == [c EXCEPT !.at = b, !.tried = T]
    <3>3. d \in [phase : {"sending"}, at : {b}, tried : {T}, retries : {req[r].attempt - 1}]
      BY <3>2
    <3> HIDE DEF d
    <3>4. d = [phase |-> "sending", at |-> b, tried |-> T, retries |-> req[r].attempt - 1]
      BY <3>3
    <3>5. QED
      BY <2>7, <3>1, <3>4 DEF T, d
  <2>10. Moves(c, CourseOf(q2))
    BY <2>8, <2>9 DEF Moves
  <2>11. QED
    BY <2>5, <2>10 DEF Advances, c
<1>3. QED
  BY <1>1, <1>2 DEF Failover

LEMMA StartMoves ==
  ASSUME IInv, NEW r \in Request, NEW prev, Start(r, prev)
  PROVE  Advances
<1>1. /\ RequestOK(req[r]) /\ req = [x \in Request |-> req[x]]
      /\ req[r].pc = "idle" /\ Between(req[r])
  BY DEF IInv, Start, RequestOK, Between
<1>2. CASE Becomes(r, Replied(req[r]))
  BY <1>1, <1>2, ReplyMoves DEF Between
<1>3. ASSUME NEW b \in Usable(entry, slots, {}),
             Becomes(r, [Acquired(req[r], b) EXCEPT
                            !.pc = "sending", !.outer = b, !.tried = {b}])
      PROVE  Advances
  <2> DEFINE p == Acquired(req[r], b)
             q2 == [p EXCEPT !.pc = "sending", !.outer = b, !.tried = {b}]
  <2>1. b \in Account
    BY <1>3 DEF Usable, Candidates, Available
  <2>2. p \in RequestType /\ p.acct = b /\ p.attempt = req[r].attempt
    BY <1>1, <2>1, AcquiredRecord DEF Between
  <2>3. req'[r] = q2 /\ \A x \in Request \ {r} : req'[x] = req[x]
    BY <1>1, <1>3 DEF Becomes
  <2> HIDE DEF p
  <2>4. q2.pc = "sending" /\ q2.acct = b /\ q2.tried = {b} /\ q2.attempt = req[r].attempt
    BY <2>2 DEF RequestType
  <2>5. req[r].attempt = 1
    BY <1>1 DEF RequestOK
  <2> HIDE DEF q2
  <2>6. CourseOf(q2) = [phase |-> "sending", at |-> b, tried |-> {b}, retries |-> 0]
    BY <2>4, <2>5 DEF CourseOf, InFlight
  <2>7. CourseOf(req[r]).phase = "idle"
    BY <1>1, CourseType
  <2>8. QED
    BY <2>1, <2>3, <2>6, <2>7 DEF Advances, Moves
<1>4. QED
  <2> DEFINE C == Usable(entry, slots, {})
  <2>1. \A preferred : Choices(C, preferred) \subseteq C
    BY DEF Choices
  <2>2. \/ Becomes(r, Replied(req[r]))
        \/ \E b \in C : Becomes(r, [Acquired(req[r], b) EXCEPT
                                       !.pc = "sending", !.outer = b, !.tried = {b}])
    BY <2>1 DEF Start
  <2>3. QED
    BY <1>2, <1>3, <2>2

LEMMA OpensMoves ==
  ASSUME IInv, NEW r \in Request, NEW body \in {"streaming", "collecting"},
         Opens(r, body) \/ \E b \in Backoffs : OpensExhausted(r, body, b)
  PROVE  Advances
<1> DEFINE q == [req[r] EXCEPT !.pc = body, !.turn = req[r].acct]
           c == CourseOf(req[r])
<1>1. /\ RequestOK(req[r]) /\ req = [x \in Request |-> req[x]]
      /\ req[r].pc = "sending" /\ Becomes(r, q)
  BY DEF IInv, Opens, OpensExhausted
<1>2. c = [phase |-> "sending", at |-> req[r].acct, tried |-> req[r].tried,
           retries |-> req[r].attempt - 1]
  BY <1>1, CourseType DEF InFlight
<1>3. req'[r] = q /\ \A x \in Request \ {r} : req'[x] = req[x]
  BY <1>1 DEF Becomes
<1>4. /\ q.pc = body /\ q.acct = req[r].acct /\ q.tried = req[r].tried
      /\ q.attempt = req[r].attempt
  BY <1>1 DEF RequestOK, RequestType
<1> HIDE DEF q, c
<1>5. CourseOf(q) = [phase |-> body, at |-> req[r].acct, tried |-> req[r].tried,
                     retries |-> req[r].attempt - 1]
  BY <1>4 DEF CourseOf, InFlight
<1>6. c.phase = "sending" /\ CourseOf(q) = [c EXCEPT !.phase = body]
  BY <1>2, <1>5
<1>7. Moves(c, CourseOf(q))
  BY <1>6 DEF Moves
<1>8. QED
  BY <1>3, <1>7 DEF Advances, c

\* A release leaves of a record what failover is about.
LEMMA ReleaseKeepsCourse ==
  ASSUME IInv, NEW r \in Request, req[r].pc \in InFlight
  PROVE  LET q == Released(req[r], req[r].acct)
         IN  /\ Between(q) /\ q \in RequestType
             /\ q.pc = req[r].pc /\ q.tried = req[r].tried /\ q.attempt = req[r].attempt
<1>1. /\ RequestOK(req[r]) /\ Between(req[r]) /\ req[r].acct \in Account
      /\ req[r].owed[req[r].acct] = 1 /\ req[r].counted = 0
  BY DEF IInv, RequestOK, Between
<1>2. QED
  BY <1>1, ReleasedRecord DEF Between

LEMMA ModelUnsupportedMoves ==
  ASSUME IInv, NEW r \in Request, ModelUnsupported(r)
  PROVE  Advances
<1> DEFINE p == Released(req[r], req[r].acct)
           q == [p EXCEPT !.modelRetried = TRUE]
           S == SlotsReleased(slots, req[r], req[r].acct)
<1>1. req[r].pc = "sending" /\ req[r].pc \in InFlight
  BY DEF ModelUnsupported, InFlight
<1>2. /\ Between(p) /\ p \in RequestType
      /\ p.pc = "sending" /\ p.tried = req[r].tried /\ p.attempt = req[r].attempt
  BY <1>1, ReleaseKeepsCourse
<1>3. CASE ReleaseAndReply(r)
  BY <1>1, <1>2, <1>3, ReplyMoves DEF ReleaseAndReply
<1>4. CASE Failover(r, entry, S, q)
  <2> HIDE DEF p, S
  <2>1. Between(q) /\ q.pc = "sending" /\ q.tried = p.tried /\ q.attempt = p.attempt
    BY <1>2 DEF Between, RequestType
  <2> HIDE DEF q
  <2>2. QED
    BY <1>1, <1>2, <1>4, <2>1, FailoverMoves
<1>5. QED
  BY <1>3, <1>4 DEF ModelUnsupported

LEMMA RejectedMoves ==
  ASSUME IInv, NEW r \in Request,
         \/ \E b \in Backoffs : RateLimited(r, b)
         \/ \E s \in {"quota_exhausted", "banned", "expired"} : Rejected(r, s)
  PROVE  Advances
<1> DEFINE p == req[r]
           q == Counted(p, entry, p.acct)
<1>1. p.pc = "sending" /\ RequestOK(p)
  BY DEF IInv, RateLimited, Rejected
<1>2. Between(p) /\ p.counted = 0
  BY <1>1 DEF RequestOK, Between, InFlight
<1>3. Between(q) /\ q.pc = "sending" /\ q.tried = p.tried /\ q.attempt = p.attempt
  <2> DEFINE n == IF Present(entry, p.acct) THEN p.counted + 1 ELSE p.counted
  <2> HIDE DEF p
  <2>1. n \in Nat /\ n <= 1
    BY <1>2
  <2> HIDE DEF n
  <2>2. q = [p EXCEPT !.counted = n]
    BY DEF Counted, n
  <2>3. QED
    BY <1>1, <1>2, <2>1, <2>2 DEF Between, RequestType
<1>4. ASSUME NEW b \in Backoffs, RateLimited(r, b)
      PROVE  Advances
  BY <1>1, <1>3, <1>4, FailoverMoves DEF RateLimited
<1>5. ASSUME NEW s \in {"quota_exhausted", "banned", "expired"}, Rejected(r, s)
      PROVE  Advances
  BY <1>1, <1>2, <1>5, FailoverMoves DEF Rejected
<1>6. QED
  BY <1>4, <1>5

\* Every way to end an attempt that releases the account and answers.
LEMMA EndsMove ==
  ASSUME IInv, NEW r \in Request,
         \/ SendFails(r) \/ StreamEnds(r) \/ Collected(r) \/ CollectFails(r)
         \/ ResendRejected(r) \/ ResendThrows(r)
  PROVE  Advances
<1> DEFINE q == Released(req[r], req[r].acct)
<1>1. req[r].pc \in InFlight /\ req[r].pc # "done"
  BY DEF SendFails, StreamEnds, Collected, CollectFails, ResendRejected, ResendThrows,
         InFlight
<1>2. Between(q) /\ q \in RequestType
  BY <1>1, ReleaseKeepsCourse
<1>3. CASE ReleaseAndReply(r)
  BY <1>1, <1>2, <1>3, ReplyMoves DEF ReleaseAndReply
<1>4. CASE ResendThrows(r)
  <2>1. /\ req[r].pc = "resending" /\ RequestOK(req[r])
        /\ Becomes(r, Replied(Released(q, q.outer)))
    BY <1>4 DEF IInv, ResendThrows
  <2>2. q.outer = req[r].outer /\ req[r].released \subseteq q.released
    BY <1>1, Leaves
  <2> HIDE DEF q
  <2>3. q.outer \in q.released /\ q.outer \in Account
    BY <2>1, <2>2 DEF RequestOK, InFlight
  <2>4. Between(Released(q, q.outer))
    BY <1>2, <2>3, ReleasedRecord
  <2>5. QED
    BY <1>1, <2>1, <2>4, ReplyMoves DEF Between
<1>5. QED
  BY <1>3, <1>4 DEF SendFails, StreamEnds, Collected, CollectFails, ResendRejected

\* An empty response is asked for again on whichever account is free.
LEMMA EmptyMoves ==
  ASSUME IInv, NEW r \in Request, Empty(r)
  PROVE  Advances
<1> DEFINE q == Released(req[r], req[r].acct)
           S == SlotsReleased(slots, req[r], req[r].acct)
<1>1. /\ req[r].pc = "collecting" /\ req[r].pc \in InFlight
      /\ req[r].attempt <= MaxEmptyRetries
      /\ RequestOK(req[r]) /\ req = [x \in Request |-> req[x]]
  BY DEF IInv, Empty, InFlight
<1>2. /\ Between(q) /\ q \in RequestType
      /\ q.tried = req[r].tried /\ q.attempt = req[r].attempt
  BY <1>1, ReleaseKeepsCourse
<1>3. CASE Becomes(r, Replied(q))
  BY <1>1, <1>2, <1>3, ReplyMoves
<1>4. ASSUME NEW b \in Usable(entry, S, {}),
             Becomes(r, [Acquired(q, b) EXCEPT !.pc = "resending"])
      PROVE  Advances
  <2> DEFINE p == Acquired(q, b)
             q2 == [p EXCEPT !.pc = "resending"]
             c == CourseOf(req[r])
  <2>1. b \in Account
    BY <1>4 DEF Usable, Candidates, Available
  <2> HIDE DEF q, S
  <2>2. /\ p \in RequestType /\ p.acct = b
        /\ p.attempt = req[r].attempt /\ p.tried = req[r].tried
    BY <1>2, <2>1, AcquiredRecord DEF Between
  <2>3. req'[r] = q2 /\ \A x \in Request \ {r} : req'[x] = req[x]
    BY <1>1, <1>4 DEF Becomes
  <2> HIDE DEF p
  <2>4. /\ q2.pc = "resending" /\ q2.acct = b /\ q2.attempt = req[r].attempt
        /\ q2.tried = req[r].tried
    BY <2>2 DEF RequestType
  <2> HIDE DEF q2
  <2>5. CourseOf(q2) = [phase |-> "collecting", at |-> b, tried |-> req[r].tried,
                        retries |-> req[r].attempt]
    BY <2>4 DEF CourseOf, InFlight
  <2>6. c = [phase |-> "collecting", at |-> req[r].acct, tried |-> req[r].tried,
             retries |-> req[r].attempt - 1]
    BY <1>1, CourseType
  <2> HIDE DEF c
  <2>7. /\ req[r].attempt \in Int /\ MaxEmptyRetries \in Nat
        /\ req[r].attempt - 1 < MaxEmptyRetries /\ req[r].attempt - 1 + 1 = req[r].attempt
    BY <1>1, HandlerAssumption DEF RequestOK, RequestType
  <2>8. c.phase = "collecting" /\ c.retries < MaxEmptyRetries
    BY <2>6, <2>7
  <2>9. CourseOf(q2) = [c EXCEPT !.at = b, !.retries = @ + 1]
    <3> DEFINE k == req[r].attempt
    <3>1. c.retries + 1 = k
      BY <2>6, <2>7
    <3>2. c \in [phase : {"collecting"}, at : {req[r].acct}, tried : {req[r].tried},
                 retries : {k - 1}]
      BY <2>6
    <3> DEFINE d == [c EXCEPT !.at = b, !.retries = k]
    <3>3. d \in [phase : {"collecting"}, at : {b}, tried : {req[r].tried}, retries : {k}]
      BY <3>2
    <3> HIDE DEF d
    <3>4. d = [phase |-> "collecting", at |-> b, tried |-> req[r].tried, retries |-> k]
      BY <3>3
    <3>5. QED
      BY <2>5, <3>1, <3>4 DEF d
  <2>10. Moves(c, CourseOf(q2))
    BY <2>1, <2>8, <2>9 DEF Moves
  <2>11. QED
    BY <2>3, <2>10 DEF Advances, c
<1>5. QED
  BY <1>3, <1>4 DEF Empty

\* The retry's headers, and every step of the environment, are no part of the promise.
LEMMA ReopensStutters ==
  ASSUME IInv, NEW r \in Request, Reopens(r)
  PROVE  Advances
<1> DEFINE q == [req[r] EXCEPT !.pc = "collecting", !.attempt = @ + 1]
<1>1. /\ RequestOK(req[r]) /\ req = [x \in Request |-> req[x]]
      /\ req[r].pc = "resending" /\ Becomes(r, q)
  BY DEF IInv, Reopens
<1>2. req'[r] = q /\ \A x \in Request \ {r} : req'[x] = req[x]
  BY <1>1 DEF Becomes
<1>3. /\ q.pc = "collecting" /\ q.acct = req[r].acct /\ q.tried = req[r].tried
      /\ q.attempt = req[r].attempt + 1
  BY <1>1 DEF RequestOK, RequestType
<1> HIDE DEF q
<1>4. q.attempt - 1 = req[r].attempt
  BY <1>1, <1>3, HandlerAssumption DEF RequestOK, RequestType
<1>5. CourseOf(q) = [phase |-> "collecting", at |-> req[r].acct, tried |-> req[r].tried,
                     retries |-> req[r].attempt]
  BY <1>3, <1>4 DEF CourseOf, InFlight
<1>6. CourseOf(req[r]) = CourseOf(q)
  BY <1>1, <1>5, CourseType
<1>7. \A x \in Request : CourseOf(req'[x]) = CourseOf(req[x])
  <2>1. TAKE x \in Request
  <2>2. CASE x = r
    BY <1>2, <1>6, <2>2
  <2>3. CASE x # r
    BY <1>2, <2>3
  <2>4. QED
    BY <2>2, <2>3
<1>8. QED
  BY <1>7 DEF Advances, CourseOf

LEMMA EveryStepAdvances ==
  ASSUME IInv, [Next]_vars
  PROVE  Advances
<1>1. ASSUME NEW r \in Request, Answer(r)
      PROVE  Advances
  <2>1. CASE \E body \in {"streaming", "collecting"} :
                Opens(r, body) \/ \E b \in Backoffs : OpensExhausted(r, body, b)
    BY <2>1, OpensMoves
  <2>2. CASE ModelUnsupported(r)
    BY <2>2, ModelUnsupportedMoves
  <2>3. CASE \/ \E b \in Backoffs : RateLimited(r, b)
             \/ \E s \in {"quota_exhausted", "banned", "expired"} : Rejected(r, s)
    BY <2>3, RejectedMoves
  <2>4. CASE \/ SendFails(r) \/ StreamEnds(r) \/ Collected(r) \/ CollectFails(r)
             \/ ResendRejected(r) \/ ResendThrows(r)
    BY <2>4, EndsMove
  <2>5. CASE Empty(r)
    BY <2>5, EmptyMoves
  <2>6. CASE Reopens(r)
    BY <2>6, ReopensStutters
  <2>7. QED
    BY <1>1, <2>1, <2>2, <2>3, <2>4, <2>5, <2>6 DEF Answer
<1>2. CASE \E r \in Request : \E prev \in Request \cup {None} : Start(r, prev)
  BY <1>2, StartMoves
<1>3. CASE UNCHANGED req
  BY <1>3 DEF Advances, CourseOf
<1>4. CASE \/ \E a \in Account :
                 OperatorRemoves(a) \/ \E s \in {"active", "disabled"} : OperatorMarks(a, s)
           \/ Tick \/ UNCHANGED vars
  BY <1>3, <1>4 DEF OperatorRemoves, OperatorMarks, Tick, vars
<1>5. QED
  BY <1>1, <1>2, <1>4 DEF Next

\* However a course moves, fewer steps are left of it.
LEMMA MovesCount ==
  ASSUME NEW c \in Course, NEW d \in Course, Moves(c, d)
  PROVE  Promise!StepsLeft(d) \in 0 .. Promise!StepsLeft(c) - 1
<1> DEFINE n == Cardinality(Account)
           M == MaxEmptyRetries
<1>1. /\ M \in Nat /\ n \in Nat /\ IsFiniteSet(Account)
  BY HandlerAssumption, FS_CardinalityType
<1>2. \A T \in SUBSET Account :
         IsFiniteSet(T) /\ Cardinality(T) \in Nat /\ Cardinality(T) <= n
  BY <1>1, FS_Subset, FS_CardinalityType
<1>3. Cardinality({}) = 0 /\ \A a \in Account : Cardinality({a}) = 1
  BY FS_EmptySet, FS_Singleton
<1>4. \A T \in SUBSET Account : \A a \in Account \ T :
         T \cup {a} \in SUBSET Account /\ Cardinality(T \cup {a}) = Cardinality(T) + 1
  BY <1>2, FS_AddElement
<1>5. /\ c.retries \in 0 .. M /\ d.retries \in 0 .. M
      /\ c.tried \in SUBSET Account /\ d.tried \in SUBSET Account
      /\ c.phase \in {"idle", "sending", "streaming", "collecting", "done"}
  BY DEF Course
<1>6. \A x : /\ x.phase = "done" => Promise!StepsLeft(x) = 0
             /\ x.phase \in {"idle", "sending"} =>
                   Promise!StepsLeft(x) = n - Cardinality(x.tried) + M + 2
             /\ x.phase \in {"streaming", "collecting"} =>
                   Promise!StepsLeft(x) = M - x.retries + 1
  <2>1. \A T : Promise!Cardinality(T) = Cardinality(T)
    BY Zenon DEF Promise!Cardinality, Cardinality
  <2>2. QED
    BY <2>1 DEF Promise!StepsLeft
<1>7. /\ Promise!StepsLeft(c) \in Nat
      /\ c.phase # "done" => Promise!StepsLeft(c) >= 1
  <2>1. CASE c.phase = "done"
    BY <1>6, <2>1
  <2>2. CASE c.phase \in {"idle", "sending"}
    BY <1>1, <1>2, <1>5, <1>6, <2>2
  <2>3. CASE c.phase \in {"streaming", "collecting"}
    BY <1>1, <1>5, <1>6, <2>3
  <2>4. QED
    BY <1>5, <2>1, <2>2, <2>3
<1>8. ASSUME c.phase = "idle", NEW a \in Account,
             d = [phase |-> "sending", at |-> a, tried |-> {a}, retries |-> 0]
      PROVE  Promise!StepsLeft(d) = Promise!StepsLeft(c) - 1
  <2>1. c.tried = {}
    BY <1>8 DEF Course
  <2>2. d.phase = "sending" /\ Cardinality(d.tried) = 1
    BY <1>3, <1>8
  <2>3. Promise!StepsLeft(d) = n - 1 + M + 2 /\ Promise!StepsLeft(c) = n - 0 + M + 2
    BY <1>3, <1>6, <1>8, <2>1, <2>2
  <2>4. QED
    BY <1>1, <2>3
<1>9. ASSUME c.phase = "sending", NEW a \in Account \ c.tried,
             d = [c EXCEPT !.at = a, !.tried = @ \cup {a}]
      PROVE  Promise!StepsLeft(d) = Promise!StepsLeft(c) - 1
  <2>1. d.phase = "sending" /\ d.tried = c.tried \cup {a}
    BY <1>9 DEF Course
  <2>2. Cardinality(d.tried) = Cardinality(c.tried) + 1 /\ Cardinality(c.tried) \in Nat
    BY <1>2, <1>4, <1>5, <2>1
  <2>3. /\ Promise!StepsLeft(d) = n - Cardinality(d.tried) + M + 2
        /\ Promise!StepsLeft(c) = n - Cardinality(c.tried) + M + 2
    BY <1>6, <1>9, <2>1
  <2>4. QED
    BY <1>1, <2>2, <2>3
<1>10. ASSUME c.phase = "sending", NEW body \in {"streaming", "collecting"},
              d = [c EXCEPT !.phase = body]
       PROVE  Promise!StepsLeft(d) \in 0 .. Promise!StepsLeft(c) - 1
  <2>1. d.phase \in {"streaming", "collecting"}
    BY <1>10 DEF Course
  <2>2. /\ Promise!StepsLeft(d) = M - d.retries + 1
        /\ Promise!StepsLeft(c) = n - Cardinality(c.tried) + M + 2
    BY <1>6, <1>10, <2>1
  <2>3. Cardinality(c.tried) \in Nat /\ Cardinality(c.tried) <= n
    BY <1>2, <1>5
  <2>4. QED
    BY <1>1, <1>5, <2>2, <2>3
<1>11. ASSUME c.phase = "collecting", NEW a \in Account,
              d = [c EXCEPT !.at = a, !.retries = @ + 1]
       PROVE  Promise!StepsLeft(d) = Promise!StepsLeft(c) - 1
  <2>1. d.phase = "collecting" /\ d.retries = c.retries + 1
    BY <1>11 DEF Course
  <2>2. /\ Promise!StepsLeft(d) = M - d.retries + 1
        /\ Promise!StepsLeft(c) = M - c.retries + 1
    BY <1>6, <1>11, <2>1
  <2>3. QED
    BY <1>1, <1>5, <2>1, <2>2
<1>12. ASSUME c.phase # "done", d.phase = "done"
       PROVE  Promise!StepsLeft(d) = 0 /\ Promise!StepsLeft(c) >= 1
  BY <1>6, <1>7, <1>12
<1>13. /\ Promise!StepsLeft(d) \in Nat
  <2>1. CASE d.phase = "done"
    BY <1>6, <2>1
  <2>2. CASE d.phase \in {"idle", "sending"}
    BY <1>1, <1>2, <1>5, <1>6, <2>2
  <2>3. CASE d.phase \in {"streaming", "collecting"}
    BY <1>1, <1>5, <1>6, <2>3
  <2>4. QED
    BY <2>1, <2>2, <2>3 DEF Course
<1> HIDE DEF n, M
<1>14. CASE Promise!StepsLeft(d) = Promise!StepsLeft(c) - 1
  BY <1>7, <1>13, <1>14
<1>15. CASE Promise!StepsLeft(d) = 0 /\ Promise!StepsLeft(c) >= 1
  BY <1>7, <1>15
<1>16. CASE c.phase # "done"
            /\ d = [phase |-> "done", at |-> None, tried |-> {}, retries |-> 0]
  <2>1. d.phase = "done"
    BY <1>16
  <2>2. QED
    BY <1>12, <1>15, <1>16, <2>1
<1>17. QED
  BY <1>8, <1>9, <1>10, <1>11, <1>14, <1>16 DEF Moves

\* Failover is what the failover of the handler promises, whatever becomes of the pool,
\* and it comes to an end: no step of a request but uses up one that was left of it.
THEOREM FailoverRefined ==
  Spec => FailsOverInOrder
<1> DEFINE C == [r \in Request |-> CourseOf(req[r])]
<1>1. Init => Promise!FailoverInit
  <2> SUFFICES ASSUME Init PROVE Promise!FailoverInit
    OBVIOUS
  <2>1. \A r \in Request : req[r].pc = "idle"
    BY DEF Init, NewRequest
  <2>2. \A r \in Request : CourseOf(req[r]) = Promise!Unasked
    BY <2>1 DEF CourseOf, InFlight, Promise!Unasked
  <2>3. QED
    BY <2>2 DEF Promise!FailoverInit
<1>2. ASSUME NEW r \in Request, Moves(CourseOf(req[r]), CourseOf(req'[r])),
             \A x \in Request \ {r} : req'[x] = req[x]
      PROVE  /\ C' = [C EXCEPT ![r] = CourseOf(req'[r])]
             /\ C[r] = CourseOf(req[r])
  <2>1. C' = [x \in Request |-> CourseOf(req'[x])]
    BY DEF CourseOf
  <2>2. \A x \in Request : CourseOf(req'[x]) = IF x = r THEN CourseOf(req'[r]) ELSE C[x]
    BY <1>2
  <2>3. QED
    BY <2>1, <2>2
<1>3. IInv /\ [Next]_vars => [Promise!FailoverNext]_C
  <2> SUFFICES ASSUME IInv, [Next]_vars PROVE [Promise!FailoverNext]_C
    OBVIOUS
  <2>1. ASSUME NEW r \in Request, Moves(CourseOf(req[r]), CourseOf(req'[r])),
               \A x \in Request \ {r} : req'[x] = req[x]
        PROVE  Promise!FailoverNext
    <3> DEFINE c == CourseOf(req[r])
               d == CourseOf(req'[r])
    <3>1. C' = [C EXCEPT ![r] = d] /\ C[r] = c
      BY <1>2, <2>1
    <3>2. Moves(c, d)
      BY <2>1
    <3> HIDE DEF C, c, d
    <3>3. CASE c.phase = "idle"
               /\ \E a \in Account :
                     d = [phase |-> "sending", at |-> a, tried |-> {a}, retries |-> 0]
      <4>1. \E a \in Account : Promise!Ask(r, a)
        BY <3>1, <3>3 DEF Promise!Ask, Promise!Goes, C
      <4>2. QED
        BY <4>1 DEF Promise!FailoverNext
    <3>4. CASE c.phase = "sending"
               /\ \E a \in Account \ c.tried : d = [c EXCEPT !.at = a, !.tried = @ \cup {a}]
      <4>1. \E a \in Account : Promise!AskAnother(r, a)
        BY <3>1, <3>4 DEF Promise!AskAnother, Promise!Goes, C
      <4>2. QED
        BY <4>1 DEF Promise!FailoverNext
    <3>5. CASE c.phase = "sending"
               /\ \E body \in {"streaming", "collecting"} : d = [c EXCEPT !.phase = body]
      <4>1. \E body \in {"streaming", "collecting"} : Promise!AnswerBegins(r, body)
        BY <3>1, <3>5 DEF Promise!AnswerBegins, Promise!Goes, C
      <4>2. QED
        BY <4>1 DEF Promise!FailoverNext
    <3>6. CASE /\ c.phase = "collecting"
               /\ c.retries < MaxEmptyRetries
               /\ \E a \in Account : d = [c EXCEPT !.at = a, !.retries = @ + 1]
      <4>1. \E a \in Account : Promise!AskAgain(r, a)
        BY <3>1, <3>6 DEF Promise!AskAgain, Promise!Goes, C
      <4>2. QED
        BY <4>1 DEF Promise!FailoverNext
    <3>7. CASE c.phase # "done"
               /\ d = [phase |-> "done", at |-> None, tried |-> {}, retries |-> 0]
      <4>1. Promise!End(r)
        BY <3>1, <3>7 DEF Promise!End, Promise!Goes, Promise!Answered, C
      <4>2. QED
        BY <4>1 DEF Promise!FailoverNext
    <3>8. QED
      BY <3>2, <3>3, <3>4, <3>5, <3>6, <3>7 DEF Moves
  <2>2. QED
    BY <2>1, EveryStepAdvances DEF Advances
<1>4. IInv /\ IInv' /\ [Next]_vars =>
         [\A r \in Request : C'[r] # C[r] =>
             Promise!StepsLeft(C'[r]) \in 0 .. Promise!StepsLeft(C[r]) - 1]_C
  <2> SUFFICES ASSUME IInv, IInv', [Next]_vars, C' # C,
                      NEW x \in Request, C'[x] # C[x]
               PROVE  Promise!StepsLeft(C'[x]) \in 0 .. Promise!StepsLeft(C[x]) - 1
    OBVIOUS
  <2>1. /\ C'[x] = CourseOf(req'[x]) /\ C[x] = CourseOf(req[x])
        /\ CourseOf(req[x]) \in Course /\ CourseOf(req'[x]) \in Course
    BY CourseType DEF IInv
  <2>2. PICK r \in Request : /\ Moves(CourseOf(req[r]), CourseOf(req'[r]))
                             /\ \A y \in Request \ {r} : req'[y] = req[y]
    BY EveryStepAdvances DEF Advances
  <2>3. r = x
    BY <2>1, <2>2
  <2> HIDE DEF C
  <2>4. QED
    BY <2>1, <2>2, <2>3, MovesCount
<1>5. QED
  BY <1>1, <1>3, <1>4, Inductive, PTL
     DEF Spec, FailsOverInOrder, Promise!FailoverSpec, Promise!EveryStepCounts
=============================================================================
