-------------------------- MODULE SyncServerProofs --------------------------
(***************************************************************************)
(* Proofs about SyncServer for any rows, keys, tables, writers, clients,   *)
(* page sizes and losses: what the cursor of a client may pass, when a      *)
(* stored seq goes back, and when PostgreSQL shows the newest ledger entry. *)
(***************************************************************************)
EXTENDS SyncServer, FiniteSetTheorems, WellFoundedInduction, TLAPS

-----------------------------------------------------------------------------
(* Finite sets of numbers, and the entries with the lowest ones.           *)

LEMMA LeastNat ==
  ASSUME NEW T \in SUBSET Nat, T # {}
  PROVE  \E m \in T : \A n \in T : m <= n
<1> DEFINE R == OpToRel(<, Nat)
<1>1. \A m, n \in Nat : n < m => <<n, m>> \in R
  BY DEF OpToRel
<1>2. IsWellFoundedOn(R, Nat)
  BY NatLessThanWellFounded
<1> HIDE DEF R
<1>3. PICK m \in T : \A n \in T : ~(<<n, m>> \in R)
  BY <1>2, WFMin
<1>4. ASSUME NEW n \in T PROVE m <= n
  <2>1. m \in Nat /\ n \in Nat /\ ~(<<n, m>> \in R)
    BY <1>3
  <2>2. ~(n < m)
    BY <1>1, <2>1
  <2> QED
    BY <2>1, <2>2
<1> QED
  BY <1>4

LEMMA GreatestNat ==
  ASSUME NEW S \in SUBSET Nat, S # {}, IsFiniteSet(S)
  PROVE  Max(S) \in S /\ \A n \in S : n <= Max(S)
<1> DEFINE Above(x) == {y \in S : y > x}
           T == {Cardinality(Above(x)) : x \in S}
<1> HIDE DEF T
<1>1. \A x \in S : IsFiniteSet(Above(x)) /\ Cardinality(Above(x)) \in Nat
  BY FS_Subset, FS_CardinalityType
<1>2. PICK m \in S : \A x \in S : Cardinality(Above(m)) <= Cardinality(Above(x))
  <2>1. T \subseteq Nat /\ T # {}
    BY <1>1 DEF T
  <2>2. PICK k \in T : \A j \in T : k <= j
    BY <2>1, LeastNat
  <2> USE DEF T
  <2> HIDE DEF Above
  <2> QED
    BY <2>2
<1>3. ASSUME NEW n \in S, ~(n <= m) PROVE FALSE
  <2>1. Above(n) \subseteq Above(m) /\ m \notin Above(n) /\ n \in Above(m) /\ n \notin Above(n)
    <3>1. n \in Nat /\ m \in Nat /\ n > m
      BY <1>3
    <3>2. \A y \in S : y \in Nat /\ (y > n => y > m)
      BY <3>1
    <3>3. ~(n > n) /\ ~(m > m)
      BY <3>1
    <3> QED
      BY <3>1, <3>2, <3>3
  <2>2. Cardinality(Above(n)) <= Cardinality(Above(m))
        /\ (Cardinality(Above(m)) = Cardinality(Above(n)) => Above(n) = Above(m))
    BY <1>1, <2>1, FS_Subset
  <2> QED
    BY <1>1, <1>2, <2>1, <2>2
<1> QED
  BY <1>3 DEF Max

Below(C, s) == {e \in C : e.seq < s}
Sized(C) == IsFiniteSet(C) /\ \A e \in C : e.seq \in Nat

LEMMA BelowGrows ==
  ASSUME NEW C, NEW D, C \subseteq D, Sized(D), NEW s \in Nat, NEW t \in Nat, s <= t
  PROVE  /\ Cardinality(Below(C, s)) \in Nat /\ Cardinality(Below(D, t)) \in Nat
         /\ Cardinality(Below(C, s)) <= Cardinality(Below(D, t))
<1>1. Below(C, s) \subseteq Below(D, t) /\ Below(D, t) \subseteq D
  BY DEF Below, Sized
<1>2. IsFiniteSet(Below(D, t)) /\ IsFiniteSet(Below(C, s))
  BY <1>1, FS_Subset DEF Sized
<1> QED
  BY <1>1, <1>2, FS_Subset, FS_CardinalityType

\* The page is a prefix in the order of the seqs, is empty only when there is
\* nothing, and what is cut off has a full page below it.
LEMMA LowestFacts ==
  ASSUME NEW C, Sized(C), NEW n \in Nat \ {0}
  PROVE  /\ Lowest(C, n) \subseteq C /\ Sized(Lowest(C, n))
         /\ C # {} => Lowest(C, n) # {}
         /\ \A e \in C : e \in Lowest(C, n) <=> Cardinality(Below(C, e.seq)) < n
         /\ \A e \in C \ Lowest(C, n) : Cardinality(Below(Lowest(C, n), e.seq)) >= n
<1> DEFINE L == Lowest(C, n)
<1>1. \A e \in C : e \in L <=> Cardinality(Below(C, e.seq)) < n
  BY DEF Lowest, Below
<1>2. L \subseteq C
  BY DEF Lowest
<1>3. Sized(L)
  BY <1>2, FS_Subset DEF Sized
<1>4. \A s \in Nat : Cardinality(Below(C, s)) \in Nat
  BY BelowGrows
<1>5. Cardinality(Below(C, 0)) = 0
  <2>1. Below(C, 0) = {}
    BY DEF Below, Sized
  <2> QED
    BY <2>1, FS_EmptySet
<1> HIDE DEF L
<1>6. ASSUME C # {} PROVE L # {}
  <2> DEFINE T == {e.seq : e \in C}
  <2>1. T \subseteq Nat /\ T # {}
    BY <1>6 DEF Sized
  <2> HIDE DEF T
  <2>2. PICK k \in T : \A j \in T : k <= j
    BY <2>1, LeastNat
  <2> USE DEF T
  <2>3. PICK e \in C : e.seq = k
    BY <2>2
  <2>4. Below(C, e.seq) = {}
    BY <2>2, <2>3 DEF Below, Sized
  <2> QED
    BY <1>1, <2>4, FS_EmptySet
<1>7. ASSUME NEW e \in C, e \notin L PROVE Cardinality(Below(L, e.seq)) >= n
  <2> DEFINE T == {s \in Nat : Cardinality(Below(C, s)) >= n}
  <2>1. e.seq \in T
    BY <1>1, <1>4, <1>7 DEF Sized
  <2>2. PICK m \in T : \A s \in T : m <= s
    BY <2>1, LeastNat
  <2>3. m \in Nat /\ m # 0 /\ m <= e.seq /\ Cardinality(Below(C, m)) >= n
    BY <1>5, <2>1, <2>2
  <2>4. Cardinality(Below(C, m - 1)) < n
    BY <1>4, <2>2, <2>3
  <2>5. \A f \in Below(C, m) : f \in L
    <3> SUFFICES ASSUME NEW f \in Below(C, m) PROVE f \in L
      OBVIOUS
    <3>1. f \in C /\ f.seq \in Nat /\ f.seq <= m - 1
      BY <2>3 DEF Below, Sized
    <3>2. Cardinality(Below(C, f.seq)) <= Cardinality(Below(C, m - 1))
      BY <2>3, <3>1, BelowGrows
    <3> QED
      BY <1>1, <1>4, <2>3, <2>4, <3>1, <3>2
  <2>6. Below(C, m) = Below(L, m)
    BY <1>2, <2>5 DEF Below
  <2>7. e.seq \in Nat
    BY DEF Sized
  <2>8. Cardinality(Below(L, m)) <= Cardinality(Below(L, e.seq)) /\ Cardinality(Below(L, e.seq)) \in Nat
    BY <1>3, <2>3, <2>7, BelowGrows
  <2> QED
    BY <1>4, <2>3, <2>6, <2>7, <2>8
<1> QED
  BY <1>1, <1>2, <1>3, <1>6, <1>7 DEF L

-----------------------------------------------------------------------------
(* The types.  What a page holds is finite, so that it has a highest seq.   *)

Finite == \A c \in Client : IsFiniteSet(pull[c].found)
Typed  == TypeOK /\ Finite

LEMMA MatchFacts ==
  ASSUME NEW r \in Row
  PROVE  /\ Match(r) \in Row /\ KeyOf[Match(r)] = KeyOf[r]
         /\ Match(r) = r \/ pgText[Match(r)] # 0
         /\ \A q \in Row : KeyOf[q] = KeyOf[r] /\ pgText[q] # 0 => pgText[Match(r)] # 0
BY DEF Match

LEMMA ImageFinite ==
  ASSUME NEW S, IsFiniteSet(S), NEW f, DOMAIN f = S
  PROVE  IsFiniteSet({f[x] : x \in S})
<1> DEFINE T == {f[x] : x \in S}
           g == [x \in S |-> f[x]]
<1>1. g \in Surjection(S, T)
  BY DEF Surjection
<1> HIDE DEF T, g
<1>2. IsFiniteSet(T)
  BY <1>1, FS_Surjection
<1> QED
  BY <1>2 DEF T

LEMMA CandidateFacts ==
  ASSUME TypeOK, NEW c \in Client, NEW t
  PROVE  /\ Candidates(c, t) \in SUBSET Entry /\ IsFiniteSet(Candidates(c, t))
         /\ Sized(Candidates(c, t))
<1> DEFINE S == {q \in Visible[c] : TableOf[q] = t /\ pgSeq[q] > pull[c].since}
           f == [r \in S |-> [row |-> r, seq |-> pgSeq[r], text |-> pgText[r]]]
<1>1. S \subseteq Row
  BY SyncAssumption
<1>2. IsFiniteSet(S)
  BY <1>1, SyncAssumption, FS_Subset
<1>3. Candidates(c, t) = {f[r] : r \in S}
  BY DEF Candidates
<1>4. IsFiniteSet({f[r] : r \in S})
  <2>1. DOMAIN f = S
    OBVIOUS
  <2> HIDE DEF f, S
  <2> QED
    BY <1>2, <2>1, ImageFinite
<1>5. Candidates(c, t) \in SUBSET Entry
  BY <1>1 DEF Candidates, Entry, TypeOK
<1> QED
  BY <1>3, <1>4, <1>5 DEF Sized, Entry

LEMMA NextCursorType ==
  ASSUME NEW page \in SUBSET Entry, IsFiniteSet(page), NEW since \in Nat, NEW head \in Nat
  PROVE  NextPullCursor(page, since, head) \in Nat
<1>1. CASE page = {}
  BY <1>1 DEF NextPullCursor
<1>2. CASE page # {}
  <2> DEFINE f == [e \in page |-> e.seq]
  <2>1. Seqs(page) = {f[e] : e \in page}
    BY DEF Seqs
  <2>2. IsFiniteSet({f[e] : e \in page})
    <3>1. DOMAIN f = page
      OBVIOUS
    <3> HIDE DEF f
    <3> QED
      BY <3>1, ImageFinite
  <2>3. Seqs(page) \in SUBSET Nat /\ Seqs(page) # {}
    BY <1>2 DEF Seqs, Entry
  <2>4. Max(Seqs(page)) \in Seqs(page)
    BY <2>1, <2>2, <2>3, GreatestNat
  <2> QED
    BY <1>2, <2>3, <2>4 DEF NextPullCursor
<1> QED
  BY <1>1, <1>2

-----------------------------------------------------------------------------
(* What a step of a writer, and of a client, leaves alone.                 *)

\* Only clients move.
LEMMA StoreType ==
  ASSUME Typed, NEW c \in Client, Store(c)
  PROVE  replica' \in [Client -> [Row -> Nat]]
<1> DEFINE new == [r \in Row |-> IF \E e \in pull[c].found : e.row = r
                                 THEN (CHOOSE e \in pull[c].found : e.row = r).text
                                 ELSE replica[c][r]]
<1>1. pull[c].found \in SUBSET Entry /\ replica \in [Client -> [Row -> Nat]]
  BY DEF Typed, TypeOK, PullState
<1>2. new \in [Row -> Nat]
  BY <1>1 DEF Entry
<1>3. replica' = [replica EXCEPT ![c] = new]
  BY DEF Store
<1> HIDE DEF new
<1> QED
  BY <1>1, <1>2, <1>3

LEMMA TypedInit == Init => Typed
<1> SUFFICES ASSUME Init PROVE Typed
  OBVIOUS
<1>1. IdleWriter \in WriterState
  BY DEF IdleWriter, WriterState, NoRows
<1>2. IdlePull \in PullState
  BY DEF IdlePull, PullState
<1>3. NoRows \in [Row -> Nat]
  BY DEF NoRows
<1>4. IsFiniteSet(IdlePull.found)
  BY FS_EmptySet DEF IdlePull
<1> QED
  BY <1>1, <1>2, <1>3, <1>4 DEF Init, Typed, TypeOK, Finite

LEMMA TypedPull ==
  ASSUME Typed, NEW c \in Client, NEW s \in PullState, IsFiniteSet(s.found),
         pull' = [pull EXCEPT ![c] = s], UNCHANGED server,
         cursor' \in [Client -> Nat], replica' \in [Client -> [Row -> Nat]],
         late' \in [Row -> SUBSET Client], losses' \in Nat
  PROVE  Typed'
BY DEF Typed, TypeOK, Finite, server, pg

LEMMA TypedSign ==
  ASSUME Typed, NEW w \in Writer, NEW rows \in SUBSET Pushes[w], Sign(w, rows)
  PROVE  Typed'
<1>1. rows \in SUBSET Row /\ TypeOK
  BY SyncAssumption DEF Typed
<1>2. Cardinality(rows) \in Nat
  BY <1>1, SyncAssumption, FS_Subset, FS_CardinalityType
<1>3. ledgerSeq' \in Nat
  BY <1>1, <1>2 DEF Sign, TypeOK
<1>4. PICK seqOf \in [rows -> (ledgerSeq + 1) .. (ledgerSeq + Cardinality(rows))] :
       /\ newest' = [k \in Key |-> IF k \in Keys(rows)
                                    THEN seqOf[CHOOSE r \in rows : KeyOf[r] = k] ELSE newest[k]]
       /\ writer' = [writer EXCEPT ![w] =
            [IdleWriter EXCEPT !.phase = "begun", !.left = rows,
               !.stamp = [r \in Row |-> IF r \in rows THEN seqOf[r] ELSE 0]]]
  BY DEF Sign
<1>5. seqOf \in [rows -> Nat]
  BY <1>1, <1>2 DEF TypeOK
<1>6. newest' \in [Key -> Nat]
  <2>1. \A k \in Keys(rows) : (CHOOSE r \in rows : KeyOf[r] = k) \in rows
    BY DEF Keys
  <2> QED
    BY <1>1, <1>4, <1>5, <2>1 DEF TypeOK
<1>7. writer' \in [Writer -> WriterState]
  <2> DEFINE stamp == [r \in Row |-> IF r \in rows THEN seqOf[r] ELSE 0]
  <2>1. stamp \in [Row -> Nat]
    BY <1>5
  <2> HIDE DEF stamp
  <2>2. [IdleWriter EXCEPT !.phase = "begun", !.left = rows, !.stamp = stamp] \in WriterState
    BY <1>1, <2>1 DEF IdleWriter, WriterState, NoRows
  <2> QED
    BY <1>1, <1>4, <2>2 DEF TypeOK, stamp
<1> QED
  BY <1>1, <1>3, <1>6, <1>7 DEF Sign, Typed, TypeOK, Finite, clients, pg

LEMMA TypedRollBack ==
  ASSUME Typed, NEW w \in Writer, RollBack(w)
  PROVE  Typed'
<1>1. IdleWriter \in WriterState
  BY DEF IdleWriter, WriterState, NoRows
<1>2. diverged' \subseteq Key
  BY DEF Typed, TypeOK, RollBack, Batch, Key
<1> QED
  BY <1>1, <1>2 DEF RollBack, Typed, TypeOK, Finite, clients, pg

\* What the checks let pass was in the batch.
LEMMA PassFacts ==
  ASSUME TypeOK, NEW w \in Writer, CheckPack(w)
  PROVE  \/ RollBack(w)
         \/ \E keep \in SUBSET Pack(w), checked \in SUBSET Row :
              /\ Pass(w, keep, checked)
              /\ UNCHANGED <<ledgerSeq, newest, pg, diverged, clients, late>>
<1> DEFINE pack  == Pack(w)
           known == \A r \in pack : TableOf[r] \in Catalogue
           id(r) == IF known THEN Match(r) ELSE r
           fresh == {r \in pack : writer[w].stamp[r] >= pgSeq[id(r)]}
           ids   == {id(r) : r \in pack}
<1>1. pack \subseteq Row
  BY DEF Pack, TypeOK, WriterState
<1>2. ids \in SUBSET Row
  BY <1>1, MatchFacts
<1>3. RollBack(w)
      \/ \E older \in SUBSET fresh :
           /\ Pass(w, {r \in fresh \ older : Placed(w, r)}, ids)
           /\ UNCHANGED <<ledgerSeq, newest, pg, diverged, clients, late>>
  BY DEF CheckPack
<1>4. ASSUME NEW older \in SUBSET fresh
      PROVE  {r \in fresh \ older : Placed(w, r)} \in SUBSET pack
  OBVIOUS
<1> HIDE DEF ids, fresh, pack
<1>5. CASE RollBack(w)
  BY <1>5
<1>6. CASE \E older \in SUBSET fresh :
             /\ Pass(w, {r \in fresh \ older : Placed(w, r)}, ids)
             /\ UNCHANGED <<ledgerSeq, newest, pg, diverged, clients, late>>
  <2>1. PICK older \in SUBSET fresh :
             /\ Pass(w, {r \in fresh \ older : Placed(w, r)}, ids)
             /\ UNCHANGED <<ledgerSeq, newest, pg, diverged, clients, late>>
    BY <1>6
  <2> QED
    BY <1>2, <1>4, <2>1 DEF pack
<1> QED
  BY <1>3, <1>5, <1>6

LEMMA TypedPass ==
  ASSUME Typed, NEW w \in Writer, NEW keep \in SUBSET Pack(w), NEW checked \in SUBSET Row,
         Pass(w, keep, checked),
         UNCHANGED <<ledgerSeq, newest, pg, diverged, clients, late>>
  PROVE  Typed'
<1> DEFINE b == writer[w]
           into == [r \in Row |-> IF r \in Pack(w) THEN Match(r) ELSE b.into[r]]
           saw  == [q \in Row |-> IF q \in checked /\ \E r \in keep : Match(r) = q
                                  THEN pgSeq[q] ELSE b.saw[q]]
           out  == b.out \cup (Pack(w) \ keep)
           n == [b EXCEPT !.phase = "checked", !.keep = keep, !.out = out, !.into = into,
                          !.saw = saw]
<1>1. b \in WriterState /\ TypeOK
  BY DEF Typed, TypeOK
<1>2. Pack(w) \subseteq Row
  BY <1>1 DEF Pack, WriterState
<1>3. into \in [Row -> Row] /\ saw \in [Row -> Nat] /\ out \in SUBSET Row
  BY <1>1, <1>2, MatchFacts DEF TypeOK, WriterState
<1>4. writer' = [writer EXCEPT ![w] = n]
  BY DEF Pass
<1> HIDE DEF into, saw, out, b
<1>5. n \in WriterState
  BY <1>1, <1>2, <1>3 DEF WriterState
<1> QED
  BY <1>1, <1>4, <1>5 DEF Typed, TypeOK, Finite, clients, pg

LEMMA TypedUpsert ==
  ASSUME Typed, NEW w \in Writer, UpsertPack(w)
  PROVE  Typed'
<1> DEFINE b == writer[w]
           hits(q) == {r \in b.keep : Match(r) = q}
           stamp(rows) == b.stamp[CHOOSE r \in rows : TRUE]
           text == [q \in Row |-> IF hits(q) # {} THEN stamp(hits(q)) ELSE b.text[q]]
           seq  == [q \in Row |-> IF \E r \in hits(q) : b.into[r] = q
                                          THEN stamp(hits(q)) ELSE b.seq[q]]
           left == b.left \ Pack(w)
           n == [b EXCEPT !.phase = "begun", !.left = left, !.keep = {}, !.text = text, !.seq = seq]
<1>1. b \in WriterState /\ TypeOK
  BY DEF Typed, TypeOK
<1>2. text \in [Row -> Nat] /\ seq \in [Row -> Nat] /\ left \in SUBSET Row
  <2>1. \A q \in Row : hits(q) # {} => stamp(hits(q)) \in Nat
    BY <1>1 DEF WriterState
  <2> QED
    BY <1>1, <2>1 DEF WriterState
<1>3. RollBack(w)
      \/ /\ writer' = [writer EXCEPT ![w] = n]
         /\ UNCHANGED <<ledgerSeq, newest, pg, diverged, clients, late>>
  BY DEF UpsertPack
<1> HIDE DEF text, seq, left, b
<1>4. n \in WriterState
  BY <1>1, <1>2 DEF WriterState
<1>5. CASE RollBack(w)
  BY <1>5, TypedRollBack
<1> QED
  BY <1>1, <1>3, <1>4, <1>5 DEF Typed, TypeOK, Finite, clients, pg

LEMMA TypedCommit ==
  ASSUME Typed, NEW w \in Writer, Commit(w)
  PROVE  Typed'
<1>1. IdleWriter \in WriterState
  BY DEF IdleWriter, WriterState, NoRows
<1>2. writer[w] \in WriterState /\ TypeOK
  BY DEF Typed, TypeOK
<1>3. pgText' \in [Row -> Nat] /\ pgSeq' \in [Row -> Nat]
  BY <1>2 DEF Commit, TypeOK, WriterState
<1>4. late' \in [Row -> SUBSET Client]
  BY <1>2 DEF Commit, TypeOK
<1>5. diverged' \subseteq Key
  BY <1>2 DEF Commit, TypeOK, WriterState, Held, Key
<1>6. writer' \in [Writer -> WriterState]
  BY <1>1, <1>2 DEF Commit, TypeOK
<1> QED
  BY <1>2, <1>3, <1>4, <1>5, <1>6 DEF Commit, Typed, TypeOK, Finite, clients

LEMMA TypedClient ==
  ASSUME Typed, NEW c \in Client, Pull(c) \/ LosePull(c) \/ ResetReplica(c)
  PROVE  Typed'
<1>1. /\ pull[c] \in PullState /\ IsFiniteSet(pull[c].found) /\ TypeOK
      /\ cursor \in [Client -> Nat] /\ replica \in [Client -> [Row -> Nat]]
      /\ late \in [Row -> SUBSET Client] /\ losses \in Nat /\ ledgerSeq \in Nat
      /\ pull \in [Client -> PullState]
  BY DEF Typed, TypeOK, Finite
<1>2. IdlePull \in PullState /\ IsFiniteSet(IdlePull.found)
  BY FS_EmptySet DEF IdlePull, PullState
<1>3. CASE StartPull(c)
  <2> DEFINE s == [IdlePull EXCEPT !.phase = "scan", !.todo = Table, !.head = ledgerSeq,
                     !.since = IF cursor[c] <= ledgerSeq THEN cursor[c] ELSE ledgerSeq]
  <2>1. s \in PullState /\ IsFiniteSet(s.found)
    BY <1>1, FS_EmptySet DEF IdlePull, PullState
  <2>2. pull' = [pull EXCEPT ![c] = s]
    BY <1>3 DEF StartPull
  <2> HIDE DEF s
  <2> QED
    BY <1>1, <1>3, <2>1, <2>2, TypedPull DEF StartPull
<1>4. CASE ScanTable(c)
  <2> DEFINE low == Lowest(Candidates(c, NextTable(c)), PageLimit)
             found == pull[c].found \cup low
             s == [pull[c] EXCEPT !.found = found, !.todo = @ \ {NextTable(c)}]
  <2>1. low \in SUBSET Entry /\ IsFiniteSet(low)
    <3>1. low \subseteq Candidates(c, NextTable(c))
      BY DEF Lowest
    <3> QED
      BY <1>1, <3>1, CandidateFacts, FS_Subset
  <2>2. found \in SUBSET Entry /\ IsFiniteSet(found)
    BY <1>1, <2>1, FS_Union DEF PullState
  <2>3. pull' = [pull EXCEPT ![c] = s]
    BY <1>4 DEF ScanTable
  <2> HIDE DEF low, found
  <2>4. s \in PullState /\ s.found = found
    BY <1>1, <2>2 DEF PullState
  <2> HIDE DEF s
  <2> QED
    BY <1>1, <1>4, <2>2, <2>3, <2>4, TypedPull DEF ScanTable
<1>5. CASE Answer(c)
  <2> DEFINE page == Lowest(pull[c].found, PageLimit)
             next == NextPullCursor(page, pull[c].since, pull[c].head)
             s == [IdlePull EXCEPT !.phase = "answer", !.found = page, !.next = next]
  <2>1. page \in SUBSET Entry /\ IsFiniteSet(page)
    <3>1. page \subseteq pull[c].found
      BY DEF Lowest
    <3> QED
      BY <1>1, <3>1, FS_Subset DEF PullState
  <2>2. next \in Nat
    <3> HIDE DEF page
    <3> QED
      BY <1>1, <2>1, NextCursorType DEF PullState
  <2>3. pull' = [pull EXCEPT ![c] = s]
    BY <1>5 DEF Answer
  <2> HIDE DEF page, next
  <2>4. s \in PullState /\ s.found = page
    BY <2>1, <2>2 DEF PullState, IdlePull
  <2> HIDE DEF s
  <2> QED
    BY <1>1, <1>5, <2>1, <2>3, <2>4, TypedPull DEF Answer
<1>6. CASE ApplyPage(c)
  <2> DEFINE s == [pull[c] EXCEPT !.phase = "save", !.found = {}]
  <2>1. s \in PullState /\ IsFiniteSet(s.found)
    BY <1>1, FS_EmptySet DEF PullState
  <2>2. pull' = [pull EXCEPT ![c] = s]
    BY <1>6 DEF ApplyPage
  <2> HIDE DEF s
  <2> QED
    BY <1>1, <1>6, <2>1, <2>2, StoreType, TypedPull DEF ApplyPage
<1>7. CASE SaveCursor(c)
  BY <1>1, <1>2, <1>7, TypedPull DEF SaveCursor, PullState
<1>8. CASE StartColdPull(c)
  <2> DEFINE s == [IdlePull EXCEPT !.phase = "query", !.todo = Table]
  <2>1. s \in PullState /\ IsFiniteSet(s.found)
    BY FS_EmptySet DEF IdlePull, PullState
  <2>2. pull' = [pull EXCEPT ![c] = s]
    BY <1>8 DEF StartColdPull
  <2> HIDE DEF s
  <2> QED
    BY <1>1, <1>8, <2>1, <2>2, TypedPull DEF StartColdPull
<1>9. CASE QueryTable(c)
  <2> DEFINE found == Candidates(c, NextTable(c))
             s == [pull[c] EXCEPT !.phase = "page", !.found = found, !.todo = @ \ {NextTable(c)}]
  <2>1. found \in SUBSET Entry /\ IsFiniteSet(found)
    BY <1>1, CandidateFacts
  <2>2. pull' = [pull EXCEPT ![c] = s]
    BY <1>9 DEF QueryTable
  <2> HIDE DEF found
  <2>3. s \in PullState /\ s.found = found
    BY <1>1, <2>1 DEF PullState
  <2> HIDE DEF s
  <2> QED
    BY <1>1, <1>9, <2>1, <2>2, <2>3, TypedPull DEF QueryTable
<1>10. CASE StorePage(c)
  <2> DEFINE s == [pull[c] EXCEPT !.found = {},
                     !.phase = IF pull[c].todo = {} THEN "save" ELSE "query",
                     !.next  = IF pull[c].todo = {} THEN ledgerSeq ELSE 0]
  <2>1. s \in PullState /\ IsFiniteSet(s.found)
    BY <1>1, FS_EmptySet DEF PullState
  <2>2. pull' = [pull EXCEPT ![c] = s]
    BY <1>10 DEF StorePage
  <2> HIDE DEF s
  <2> QED
    BY <1>1, <1>10, <2>1, <2>2, StoreType, TypedPull DEF StorePage
<1>11. CASE LosePull(c)
  <2>1. /\ pull' = [pull EXCEPT ![c] = IdlePull] /\ losses' = losses + 1
        /\ UNCHANGED server /\ UNCHANGED cursor /\ UNCHANGED replica /\ UNCHANGED late
    BY <1>11 DEF LosePull
  <2>2. /\ cursor' \in [Client -> Nat] /\ replica' \in [Client -> [Row -> Nat]]
        /\ late' \in [Row -> SUBSET Client] /\ losses' \in Nat
    BY <1>1, <2>1
  <2> QED
    BY <1>2, <2>1, <2>2, TypedPull
<1>12. CASE ResetReplica(c)
  <2>1. pull' = [pull EXCEPT ![c] = pull[c]]
    BY <1>1, <1>12 DEF ResetReplica
  <2>2. replica' \in [Client -> [Row -> Nat]] /\ late' \in [Row -> SUBSET Client]
    BY <1>1, <1>12 DEF ResetReplica, NoRows
  <2>3. cursor' \in [Client -> Nat] /\ losses' \in Nat /\ UNCHANGED server
    BY <1>1, <1>12 DEF ResetReplica
  <2> QED
    BY <1>1, <2>1, <2>2, <2>3, TypedPull
<1> QED
  BY <1>3, <1>4, <1>5, <1>6, <1>7, <1>8, <1>9, <1>10, <1>11, <1>12 DEF Pull

LEMMA TypedStep == Typed /\ [Next]_vars => Typed'
<1> SUFFICES ASSUME Typed, [Next]_vars PROVE Typed'
  OBVIOUS
<1>1. CASE UNCHANGED vars
  BY <1>1 DEF vars, server, clients, pg, Typed, TypeOK, Finite
<1>2. ASSUME NEW w \in Writer, CheckPack(w)
      PROVE  Typed'
  BY <1>2, PassFacts, TypedPass, TypedRollBack DEF Typed
<1>3. ASSUME NEW w \in Writer, Push(w) \/ Abort(w)
      PROVE  Typed'
  BY <1>2, <1>3, TypedUpsert, TypedCommit, TypedRollBack DEF Push, Abort
<1>4. ASSUME NEW w \in Writer, \E rows \in SUBSET Pushes[w] \ {{}} : Sign(w, rows)
      PROVE  Typed'
  BY <1>4, TypedSign
<1> QED
  BY <1>1, <1>3, <1>4, TypedClient DEF Next

\* Every variable of the server and of its clients keeps its type, for any
\* tables, rows, writers, clients and page size.
THEOREM TypeCorrect == Spec => []TypeOK
<1>1. Typed => TypeOK
  BY DEF Typed
<1> QED
  BY <1>1, TypedInit, TypedStep, PTL DEF Spec

-----------------------------------------------------------------------------
(* The writers.  A row PostgreSQL shows has a seq, so a client that starts  *)
(* over with cursor 0 has passed nothing.                                  *)

Numbered == \A r \in Row : pgText[r] # 0 => pgSeq[r] # 0

\* What a transaction holds when it commits, shown being pgText: a number for every row it makes
\* new, and an id taken from the server only where the server has that row.
Prepared(b, shown) ==
  /\ \A r \in b.left : b.stamp[r] # 0
  /\ b.keep \subseteq b.left
  /\ \A r \in Row : b.into[r] # r => shown[b.into[r]] # 0 /\ KeyOf[b.into[r]] = KeyOf[r]
  /\ \A q \in Row : b.text[q] # 0 => b.seq[q] # 0 \/ shown[q] # 0
  /\ \A q \in Row : b.seq[q] # 0 => b.text[q] # 0

WriteInv == Typed /\ Numbered /\ \A w \in Writer : Prepared(writer[w], pgText)

\* The record after the upsert, in terms of the one before.
Upserted(b, n) ==
  /\ n \in WriterState /\ n.phase = "begun" /\ n.keep = {} /\ n.left \subseteq b.left
  /\ n.stamp = b.stamp /\ n.into = b.into /\ n.out = b.out /\ n.saw = b.saw
  /\ \A q \in Row :
       \/ n.text[q] = b.text[q] /\ n.seq[q] = b.seq[q] /\ \A r \in b.keep : Match(r) # q
       \/ \E r \in b.keep :
            /\ Match(r) = q /\ n.text[q] = b.stamp[r]
            /\ n.seq[q] = b.stamp[r] \/ (n.seq[q] = b.seq[q] /\ b.into[r] # q)

LEMMA UpsertFacts ==
  ASSUME TypeOK, NEW w \in Writer, UpsertPack(w)
  PROVE  \/ RollBack(w)
         \/ \E n : /\ writer' = [writer EXCEPT ![w] = n] /\ Upserted(writer[w], n)
                   /\ n.left = writer[w].left \ Pack(w)
                   /\ UNCHANGED <<ledgerSeq, newest, pg, diverged, clients, late>>
<1> DEFINE b == writer[w]
           hits(q) == {r \in b.keep : Match(r) = q}
           pick(q) == CHOOSE r \in hits(q) : TRUE
           text == [q \in Row |-> IF hits(q) # {} THEN b.stamp[pick(q)] ELSE b.text[q]]
           seq  == [q \in Row |-> IF \E r \in hits(q) : b.into[r] = q
                                          THEN b.stamp[pick(q)] ELSE b.seq[q]]
           left == b.left \ Pack(w)
           n == [b EXCEPT !.phase = "begun", !.left = left, !.keep = {}, !.text = text, !.seq = seq]
<1>1. b \in WriterState
  BY DEF TypeOK
<1>2. \A q \in Row : hits(q) # {} => pick(q) \in b.keep /\ Match(pick(q)) = q
  OBVIOUS
<1>3. b.keep \subseteq Row /\ b.stamp \in [Row -> Nat] /\ b.text \in [Row -> Nat] /\ b.seq \in [Row -> Nat]
  BY <1>1 DEF WriterState
<1>4. text \in [Row -> Nat] /\ seq \in [Row -> Nat] /\ left \in SUBSET Row
  <2>1. left \in SUBSET Row
    BY <1>1 DEF WriterState
  <2>2. \A q \in Row : hits(q) # {} => b.stamp[pick(q)] \in Nat
    BY <1>2, <1>3
  <2>3. \A q \in Row : text[q] \in Nat
    BY <1>3, <2>2
  <2>4. \A q \in Row : seq[q] \in Nat
    BY <1>3, <2>2
  <2> QED
    BY <2>1, <2>3, <2>4
<1>5. \A q \in Row :
       \/ text[q] = b.text[q] /\ seq[q] = b.seq[q] /\ \A r \in b.keep : Match(r) # q
       \/ \E r \in b.keep :
            /\ Match(r) = q /\ text[q] = b.stamp[r]
            /\ seq[q] = b.stamp[r] \/ (seq[q] = b.seq[q] /\ b.into[r] # q)
  <2> SUFFICES ASSUME NEW q \in Row
      PROVE  \/ text[q] = b.text[q] /\ seq[q] = b.seq[q] /\ \A r \in b.keep : Match(r) # q
             \/ \E r \in b.keep :
                  /\ Match(r) = q /\ text[q] = b.stamp[r]
                  /\ seq[q] = b.stamp[r] \/ (seq[q] = b.seq[q] /\ b.into[r] # q)
    OBVIOUS
  <2>1. CASE hits(q) = {}
    BY <2>1
  <2>2. CASE hits(q) # {}
    <3>1. pick(q) \in b.keep /\ Match(pick(q)) = q
      BY <1>2, <2>2
    <3>2. text[q] = b.stamp[pick(q)]
      BY <2>2
    <3>3. seq[q] = b.stamp[pick(q)] \/ (seq[q] = b.seq[q] /\ b.into[pick(q)] # q)
      BY <3>1
    <3> HIDE DEF pick, text, seq
    <3> QED
      BY <3>1, <3>2, <3>3
  <2> QED
    BY <2>1, <2>2
<1>6. RollBack(w)
      \/ /\ writer' = [writer EXCEPT ![w] = n]
         /\ UNCHANGED <<ledgerSeq, newest, pg, diverged, clients, late>>
  BY DEF UpsertPack
<1> HIDE DEF text, seq, left, b
<1>7. Upserted(b, n) /\ n.left = left
  <2>1. n \in WriterState
    BY <1>1, <1>4 DEF WriterState
  <2>2. /\ n.phase = "begun" /\ n.keep = {} /\ n.left = left /\ n.text = text /\ n.seq = seq
        /\ n.stamp = b.stamp /\ n.into = b.into /\ n.out = b.out /\ n.saw = b.saw
    BY <1>1 DEF WriterState
  <2>3. left \subseteq b.left
    BY DEF left
  <2> HIDE DEF n
  <2> QED
    BY <1>5, <2>1, <2>2, <2>3 DEF Upserted
<1> QED
  BY <1>6, <1>7 DEF b, left

\* Prepared goes by what PostgreSQL shows, and no row ever disappears.
LEMMA PreparedStays ==
  ASSUME NEW b \in WriterState, NEW shown, NEW more, Prepared(b, shown),
         \A r \in Row : shown[r] # 0 => more[r] # 0
  PROVE  Prepared(b, more)
BY DEF Prepared, WriterState

LEMMA IdlePrepared == \A shown : Prepared(IdleWriter, shown)
BY DEF Prepared, IdleWriter, NoRows

\* A step that changes one writer and nothing in PostgreSQL.
LEMMA PreparedWriter ==
  ASSUME WriteInv, Typed', UNCHANGED pg, NEW w \in Writer, NEW b,
         writer' = [writer EXCEPT ![w] = b], Prepared(b, pgText)
  PROVE  WriteInv'
<1>1. TypeOK
  BY DEF WriteInv, Typed
<1>2. Numbered'
  BY DEF Numbered, WriteInv, pg
<1>3. ASSUME NEW v \in Writer PROVE Prepared(writer'[v], pgText')
  <2>1. Prepared(writer'[v], pgText)
    BY <1>1 DEF WriteInv, TypeOK
  <2> QED
    BY <2>1 DEF pg
<1> QED
  BY <1>2, <1>3 DEF WriteInv

LEMMA WriteInvInit == Init => WriteInv
<1> SUFFICES ASSUME Init PROVE WriteInv
  OBVIOUS
<1>1. Numbered
  BY DEF Init, Numbered, NoRows
<1>2. \A w \in Writer : writer[w] = IdleWriter
  BY DEF Init
<1> QED
  BY <1>1, <1>2, TypedInit, IdlePrepared DEF WriteInv

LEMMA WriteInvSign ==
  ASSUME WriteInv, Typed', NEW w \in Writer, NEW rows \in SUBSET Pushes[w], Sign(w, rows)
  PROVE  WriteInv'
<1>1. rows \in SUBSET Row /\ TypeOK
  BY SyncAssumption DEF WriteInv, Typed
<1>2. Cardinality(rows) \in Nat
  BY <1>1, SyncAssumption, FS_Subset, FS_CardinalityType
<1>3. PICK seqOf \in [rows -> (ledgerSeq + 1) .. (ledgerSeq + Cardinality(rows))] :
       writer' = [writer EXCEPT ![w] =
            [IdleWriter EXCEPT !.phase = "begun", !.left = rows,
               !.stamp = [r \in Row |-> IF r \in rows THEN seqOf[r] ELSE 0]]]
  BY DEF Sign
<1> DEFINE stamp == [r \in Row |-> IF r \in rows THEN seqOf[r] ELSE 0]
           b == [IdleWriter EXCEPT !.phase = "begun", !.left = rows, !.stamp = stamp]
<1>4. \A r \in rows : stamp[r] # 0
  BY <1>1, <1>2 DEF TypeOK
<1>5. b.left = rows /\ b.keep = {} /\ b.stamp = stamp /\ b.into = [r \in Row |-> r]
      /\ b.text = NoRows /\ b.seq = NoRows
  BY DEF IdleWriter
<1>6. UNCHANGED pg
  BY DEF Sign
<1> HIDE DEF stamp
<1>7. writer' = [writer EXCEPT ![w] = b]
  BY <1>3 DEF stamp
<1> HIDE DEF b
<1>8. Prepared(b, pgText)
  BY <1>4, <1>5 DEF Prepared, NoRows
<1> QED
  BY <1>6, <1>7, <1>8, PreparedWriter

LEMMA WriteInvRollBack ==
  ASSUME WriteInv, Typed', NEW w \in Writer, RollBack(w)
  PROVE  WriteInv'
BY PreparedWriter, IdlePrepared DEF RollBack

LEMMA WriteInvPass ==
  ASSUME WriteInv, Typed', NEW w \in Writer, NEW keep \in SUBSET Pack(w), NEW checked \in SUBSET Row,
         Pass(w, keep, checked),
         UNCHANGED <<ledgerSeq, newest, pg, diverged, clients, late>>
  PROVE  WriteInv'
<1> DEFINE b == writer[w]
           into == [r \in Row |-> IF r \in Pack(w) THEN Match(r) ELSE b.into[r]]
           saw  == [q \in Row |-> IF q \in checked /\ \E r \in keep : Match(r) = q
                                  THEN pgSeq[q] ELSE b.saw[q]]
           out  == b.out \cup (Pack(w) \ keep)
           n == [b EXCEPT !.phase = "checked", !.keep = keep, !.out = out, !.into = into,
                          !.saw = saw]
<1>1. b \in WriterState /\ Prepared(b, pgText)
  BY DEF WriteInv, Typed, TypeOK
<1>2. Pack(w) \subseteq b.left
  BY DEF Pack
<1>3. writer' = [writer EXCEPT ![w] = n]
  BY DEF Pass
<1>4. \A r \in Row : into[r] # r => pgText[into[r]] # 0 /\ KeyOf[into[r]] = KeyOf[r]
  <2> SUFFICES ASSUME NEW r \in Row, into[r] # r
               PROVE  pgText[into[r]] # 0 /\ KeyOf[into[r]] = KeyOf[r]
    OBVIOUS
  <2>1. CASE r \in Pack(w)
    BY <2>1, MatchFacts
  <2>2. CASE r \notin Pack(w)
    BY <1>1, <2>2 DEF Prepared
  <2> QED
    BY <2>1, <2>2
<1> HIDE DEF into, saw, out, b
<1>5. n.left = b.left /\ n.keep = keep /\ n.stamp = b.stamp /\ n.into = into /\ n.text = b.text
      /\ n.seq = b.seq
  BY <1>1 DEF WriterState
<1> HIDE DEF n
<1>6. Prepared(n, pgText)
  BY <1>1, <1>2, <1>4, <1>5 DEF Prepared
<1> QED
  BY <1>3, <1>6, PreparedWriter

LEMMA WriteInvUpsert ==
  ASSUME WriteInv, Typed', NEW w \in Writer, UpsertPack(w)
  PROVE  WriteInv'
<1>1. TypeOK /\ writer[w] \in WriterState /\ Prepared(writer[w], pgText)
  BY DEF WriteInv, Typed, TypeOK
<1>2. CASE RollBack(w)
  BY <1>2, WriteInvRollBack
<1>3. ASSUME NEW n, writer' = [writer EXCEPT ![w] = n], Upserted(writer[w], n), UNCHANGED pg
      PROVE  WriteInv'
  <2> DEFINE b == writer[w]
  <2>1. \A r \in b.keep : r \in Row /\ b.stamp[r] # 0
    BY <1>1 DEF Prepared, WriterState
  <2>2. \A q \in Row : n.text[q] # 0 => n.seq[q] # 0 \/ pgText[q] # 0
    <3> SUFFICES ASSUME NEW q \in Row, n.text[q] # 0, n.seq[q] = 0 PROVE pgText[q] # 0
      OBVIOUS
    <3>1. CASE n.text[q] = b.text[q] /\ n.seq[q] = b.seq[q]
      BY <1>1, <3>1 DEF Prepared
    <3>2. CASE \E r \in b.keep :
                 /\ Match(r) = q /\ n.text[q] = b.stamp[r]
                 /\ n.seq[q] = b.stamp[r] \/ (n.seq[q] = b.seq[q] /\ b.into[r] # q)
      <4>1. PICK r \in b.keep : Match(r) = q /\ b.into[r] # q
        BY <2>1, <3>2
      <4>2. b.into[r] = r => Match(r) # r
        BY <4>1
      <4>3. b.into[r] # r => pgText[b.into[r]] # 0 /\ KeyOf[b.into[r]] = KeyOf[r] /\ b.into[r] \in Row
        BY <1>1, <2>1 DEF Prepared, WriterState
      <4> QED
        BY <2>1, <4>1, <4>2, <4>3, MatchFacts
    <3> QED
      BY <1>3, <3>1, <3>2 DEF Upserted
  <2>3. \A q \in Row : n.seq[q] # 0 => n.text[q] # 0
    BY <1>1, <1>3, <2>1 DEF Upserted, Prepared
  <2>4. Prepared(n, pgText)
    BY <1>1, <1>3, <2>2, <2>3 DEF Upserted, Prepared
  <2> QED
    BY <1>3, <2>4, PreparedWriter
<1> QED
  BY <1>1, <1>2, <1>3, UpsertFacts

LEMMA WriteInvCommit ==
  ASSUME WriteInv, Typed', NEW w \in Writer, Commit(w)
  PROVE  WriteInv'
<1>1. TypeOK /\ writer[w] \in WriterState /\ Prepared(writer[w], pgText)
  BY DEF WriteInv, Typed, TypeOK
<1>2. ASSUME NEW r \in Row
      PROVE  /\ pgText'[r] = IF writer[w].text[r] # 0 THEN writer[w].text[r] ELSE pgText[r]
             /\ pgSeq'[r] = IF writer[w].seq[r] # 0 THEN writer[w].seq[r] ELSE pgSeq[r]
  BY DEF Commit, Held
<1>3. Numbered'
  BY <1>1, <1>2 DEF WriteInv, Numbered, Prepared
<1>4. ASSUME NEW v \in Writer PROVE Prepared(writer'[v], pgText')
  <2>1. CASE v = w
    BY <1>1, <2>1, IdlePrepared DEF Commit, TypeOK
  <2>2. CASE v # w
    <3>1. writer'[v] = writer[v] /\ writer[v] \in WriterState /\ Prepared(writer[v], pgText)
      BY <1>1, <2>2 DEF Commit, WriteInv, TypeOK
    <3>2. \A r \in Row : pgText[r] # 0 => pgText'[r] # 0
      BY <1>2
    <3> QED
      BY <3>1, <3>2, PreparedStays
  <2> QED
    BY <2>1, <2>2
<1> QED
  BY <1>3, <1>4 DEF WriteInv

LEMMA WriteInvStep == WriteInv /\ [Next]_vars => WriteInv'
<1> SUFFICES ASSUME WriteInv, [Next]_vars PROVE WriteInv'
  OBVIOUS
<1>1. Typed /\ Typed' /\ TypeOK
  BY TypedStep DEF WriteInv, Typed
<1>2. CASE UNCHANGED <<pg, writer>>
  BY <1>1, <1>2 DEF pg, WriteInv, Numbered
<1>3. ASSUME NEW w \in Writer, RollBack(w) PROVE WriteInv'
  BY <1>1, <1>3, WriteInvRollBack
<1>4. ASSUME NEW w \in Writer, CheckPack(w) PROVE WriteInv'
  <2>1. ASSUME NEW keep \in SUBSET Pack(w), NEW checked \in SUBSET Row, Pass(w, keep, checked),
               UNCHANGED <<ledgerSeq, newest, pg, diverged, clients, late>>
        PROVE  WriteInv'
    BY <1>1, <2>1, WriteInvPass
  <2> QED
    BY <1>1, <1>3, <1>4, <2>1, PassFacts
<1>5. ASSUME NEW w \in Writer, UpsertPack(w) PROVE WriteInv'
  BY <1>1, <1>5, WriteInvUpsert
<1>6. ASSUME NEW w \in Writer, Commit(w) PROVE WriteInv'
  BY <1>1, <1>6, WriteInvCommit
<1>7. ASSUME NEW w \in Writer, NEW rows \in SUBSET Pushes[w], Sign(w, rows) PROVE WriteInv'
  BY <1>1, <1>7, WriteInvSign
<1>8. ASSUME NEW c \in Client, Pull(c) \/ LosePull(c) \/ ResetReplica(c) PROVE UNCHANGED server
  BY <1>8 DEF Pull, LosePull, ResetReplica, StartPull, ScanTable, Answer, ApplyPage, SaveCursor,
              StartColdPull, QueryTable, StorePage
<1> QED
  BY <1>2, <1>3, <1>4, <1>5, <1>6, <1>7, <1>8 DEF Next, Push, Abort, vars, server

-----------------------------------------------------------------------------
(* The clients.  Every phase of a pull has its own promise about the rows   *)
(* that the cursor is going to pass; a change that lands behind is late.    *)

Knows(c, r)   == replica[c][r] = pgText[r] \/ c \in late[r]
Read(c, r)    == TableOf[r] \notin pull[c].todo
Current(c, e) == e.text = pgText[e.row] \/ c \in late[e.row]
Brings(c, r)  == \E e \in pull[c].found : e.row = r

\* The cursor has passed only what the client knows.
Met(c) == \A r \in Visible[c] : pgSeq[r] <= cursor[c] => Knows(c, r)

\* A row that was read is in the page as it is.
ReadInv(c) ==
  pull[c].phase \in {"scan", "query", "page"} =>
    /\ pull[c].since <= cursor[c]
    /\ \A e \in pull[c].found : Read(c, e.row) /\ Current(c, e)

\* A row of a table that was read is there, or a whole page lies below it.
ScanInv(c) ==
  pull[c].phase = "scan" => \A r \in Visible[c] :
    Read(c, r) /\ pgSeq[r] > pull[c].since =>
      \/ c \in late[r]
      \/ \E e \in pull[c].found : e.row = r /\ e.seq = pgSeq[r]
      \/ Cardinality(Below(pull[c].found, pgSeq[r])) >= PageLimit

AnswerInv(c) ==
  pull[c].phase = "answer" =>
    /\ \A e \in pull[c].found :
         Current(c, e) \/ (pgSeq[e.row] > pull[c].next /\ pgSeq[e.row] > cursor[c])
    /\ \A r \in Visible[c] : pgSeq[r] <= pull[c].next => Knows(c, r) \/ Brings(c, r)

SaveInv(c) ==
  pull[c].phase = "save" => \A r \in Visible[c] : pgSeq[r] <= pull[c].next => Knows(c, r)

ColdInv(c) ==
  pull[c].phase \in {"query", "page"} => \A r \in Visible[c] :
    Read(c, r) => Knows(c, r) \/ (pull[c].phase = "page" /\ Brings(c, r))

PullInv(c) == Met(c) /\ ReadInv(c) /\ ScanInv(c) /\ AnswerInv(c) /\ SaveInv(c) /\ ColdInv(c)
ClientInv  == \A c \in Client : PullInv(c)

\* A step that leaves the server and client c alone.
LEMMA OtherClient ==
  ASSUME NEW c \in Client, PullInv(c), UNCHANGED pg,
         pull'[c] = pull[c], cursor'[c] = cursor[c], replica'[c] = replica[c],
         \A r \in Row : c \in late'[r] <=> c \in late[r], TypeOK
  PROVE  PullInv(c)'
<1>1. Visible[c] \subseteq Row /\ \A e \in pull[c].found : e.row \in Row
  BY SyncAssumption DEF TypeOK, PullState, Entry
<1>2. pgText' = pgText /\ pgSeq' = pgSeq
  BY DEF pg
<1> QED
  BY <1>1, <1>2 DEF PullInv, Met, ReadInv, ScanInv, AnswerInv, SaveInv, ColdInv, Knows, Read,
                    Current, Brings

\* A step of the server: a row stays as it is, or it changes and is late for
\* every client it lands behind.
LEMMA ServerMove ==
  ASSUME Typed, Typed', NEW c \in Client, PullInv(c), UNCHANGED clients,
         \A r \in Row :
           \/ pgText'[r] = pgText[r] /\ pgSeq'[r] = pgSeq[r] /\ late'[r] = late[r]
           \/ LandsBehind(c, r, pgSeq'[r]) => c \in late'[r]
  PROVE  PullInv(c)'
<1> DEFINE Still(r) == pgText'[r] = pgText[r] /\ pgSeq'[r] = pgSeq[r] /\ late'[r] = late[r]
<1>1. cursor' = cursor /\ replica' = replica /\ pull' = pull
  BY DEF clients
<1>2. Visible[c] \subseteq Row /\ \A e \in pull[c].found : e.row \in Row
  BY SyncAssumption DEF Typed, TypeOK, PullState, Entry
<1>3. /\ pgSeq \in [Row -> Nat] /\ pgSeq' \in [Row -> Nat] /\ cursor[c] \in Nat
      /\ pull[c].since \in Nat /\ pull[c].next \in Nat
  BY DEF Typed, TypeOK, PullState
<1>4. \A r \in Row : Still(r) \/ (LandsBehind(c, r, pgSeq'[r]) => c \in late'[r])
  OBVIOUS
<1> HIDE DEF Still
<1>5. \A r \in Row : ~Still(r) /\ pgSeq'[r] <= cursor[c] => c \in late'[r]
  BY <1>3, <1>4 DEF LandsBehind
<1>6. \A r \in Row : ~Still(r) /\ pull[c].phase \in {"scan", "query", "page"} /\ Read(c, r)
                     => c \in late'[r]
  BY <1>4 DEF LandsBehind, Read
<1>7. \A r \in Row : ~Still(r) /\ pull[c].phase \in {"answer", "save"} /\ pgSeq'[r] <= pull[c].next
                     => c \in late'[r]
  BY <1>3, <1>4 DEF LandsBehind
<1>8. Met(c)'
  BY <1>1, <1>2, <1>5 DEF PullInv, Met, Knows, Still
<1>9. ReadInv(c)'
  BY <1>1, <1>2, <1>6 DEF PullInv, ReadInv, Read, Current, Still
<1>10. ScanInv(c)'
  BY <1>1, <1>2, <1>6 DEF PullInv, ScanInv, Read, Still
<1>11. AnswerInv(c)'
  <2> SUFFICES ASSUME pull[c].phase = "answer" PROVE AnswerInv(c)'
    BY <1>1 DEF AnswerInv
  <2>1. ASSUME NEW e \in pull[c].found
        PROVE  Current(c, e)' \/ (pgSeq'[e.row] > pull[c].next /\ pgSeq'[e.row] > cursor[c])
    <3>1. CASE Still(e.row)
      BY <3>1 DEF PullInv, AnswerInv, Current, Still
    <3>2. CASE ~Still(e.row)
      BY <1>2, <1>3, <1>5, <1>7, <3>2 DEF Current
    <3> QED
      BY <3>1, <3>2
  <2>2. ASSUME NEW r \in Visible[c], pgSeq'[r] <= pull[c].next
        PROVE  Knows(c, r)' \/ Brings(c, r)
    <3>1. CASE Still(r)
      BY <1>1, <2>2, <3>1 DEF PullInv, AnswerInv, Knows, Still
    <3>2. CASE ~Still(r)
      BY <1>2, <1>7, <2>2, <3>2 DEF Knows
    <3> QED
      BY <3>1, <3>2
  <2> QED
    BY <1>1, <2>1, <2>2 DEF AnswerInv, Brings
<1>12. SaveInv(c)'
  BY <1>1, <1>2, <1>7 DEF PullInv, SaveInv, Knows, Still
<1>13. ColdInv(c)'
  BY <1>1, <1>2, <1>6 DEF PullInv, ColdInv, Read, Knows, Brings, Still
<1> QED
  BY <1>8, <1>9, <1>10, <1>11, <1>12, <1>13 DEF PullInv

LEMMA ServerKeeps ==
  ASSUME Typed, Typed', ClientInv, UNCHANGED <<pg, clients, late>>
  PROVE  ClientInv'
<1>1. ASSUME NEW c \in Client PROVE PullInv(c)'
  BY <1>1, ServerMove DEF ClientInv, pg
<1> QED
  BY <1>1 DEF ClientInv

LEMMA CommitKeeps ==
  ASSUME WriteInv, Typed', ClientInv, NEW w \in Writer, Commit(w)
  PROVE  ClientInv'
<1>1. UNCHANGED clients /\ Prepared(writer[w], pgText) /\ Typed
  BY DEF Commit, WriteInv
<1>2. ASSUME NEW c \in Client, NEW r \in Row
      PROVE  \/ pgText'[r] = pgText[r] /\ pgSeq'[r] = pgSeq[r] /\ late'[r] = late[r]
             \/ LandsBehind(c, r, pgSeq'[r]) => c \in late'[r]
  <2>1. CASE r \in Held(w)
    BY <2>1 DEF Commit
  <2>2. CASE r \notin Held(w)
    BY <1>1, <2>2 DEF Commit, Held, Prepared
  <2> QED
    BY <2>1, <2>2
<1>3. ASSUME NEW c \in Client PROVE PullInv(c)'
  BY <1>1, <1>2, ServerMove DEF ClientInv
<1> QED
  BY <1>3 DEF ClientInv

\* A step of client c that leaves the server and the other clients alone.
LEMMA ClientMove ==
  ASSUME Typed, ClientInv, NEW c \in Client, NEW s, pull' = [pull EXCEPT ![c] = s],
         UNCHANGED pg,
         \A d \in Client \ {c} : cursor'[d] = cursor[d] /\ replica'[d] = replica[d],
         \A d \in Client \ {c}, r \in Row : d \in late'[r] <=> d \in late[r],
         PullInv(c)'
  PROVE  ClientInv'
<1>1. TypeOK
  BY DEF Typed
<1>2. ASSUME NEW d \in Client \ {c} PROVE PullInv(d)'
  <2>1. pull'[d] = pull[d] /\ PullInv(d)
    BY <1>1 DEF TypeOK, ClientInv
  <2> QED
    BY <1>1, <2>1, OtherClient
<1> QED
  BY <1>2 DEF ClientInv

\* What c has stored of a page.
LEMMA StoreFacts ==
  ASSUME Typed, NEW c \in Client, Store(c)
  PROVE  /\ \A d \in Client \ {c} : replica'[d] = replica[d]
         /\ \A r \in Row : \/ replica'[c][r] = replica[c][r] /\ ~Brings(c, r)
                           \/ \E e \in pull[c].found : e.row = r /\ replica'[c][r] = e.text
<1> DEFINE new == [r \in Row |-> IF \E e \in pull[c].found : e.row = r
                                 THEN (CHOOSE e \in pull[c].found : e.row = r).text
                                 ELSE replica[c][r]]
<1>1. replica' = [replica EXCEPT ![c] = new] /\ DOMAIN replica = Client
  BY DEF Store, Typed, TypeOK
<1>2. ASSUME NEW r \in Row
      PROVE  \/ new[r] = replica[c][r] /\ ~Brings(c, r)
             \/ \E e \in pull[c].found : e.row = r /\ new[r] = e.text
  <2>1. CASE Brings(c, r)
    <3>1. PICK e \in pull[c].found : e = CHOOSE x \in pull[c].found : x.row = r
      BY <2>1 DEF Brings
    <3>2. e.row = r
      BY <2>1, <3>1 DEF Brings
    <3>3. new[r] = e.text
      BY <2>1, <3>1 DEF Brings
    <3> QED
      BY <3>2, <3>3
  <2>2. CASE ~Brings(c, r)
    BY <2>2 DEF Brings
  <2> QED
    BY <2>1, <2>2
<1> HIDE DEF new
<1> QED
  BY <1>1, <1>2

LEMMA PullStarts ==
  ASSUME Typed, ClientInv, NEW c \in Client, StartPull(c) \/ StartColdPull(c)
  PROVE  ClientInv'
<1>1. /\ UNCHANGED <<pg, cursor, replica, late>> /\ pull[c] \in PullState
      /\ pull \in [Client -> PullState] /\ cursor[c] \in Nat /\ ledgerSeq \in Nat
      /\ pgSeq \in [Row -> Nat] /\ Visible[c] \subseteq Row
  BY SyncAssumption DEF StartPull, StartColdPull, server, Typed, TypeOK
<1>2. PICK s : /\ pull' = [pull EXCEPT ![c] = s]
               /\ s.phase \in {"scan", "query"} /\ s.todo = Table /\ s.found = {}
               /\ s.since <= cursor[c]
  <2>1. CASE StartPull(c)
    <3> DEFINE s == [IdlePull EXCEPT !.phase = "scan", !.todo = Table, !.head = ledgerSeq,
                       !.since = IF cursor[c] <= ledgerSeq THEN cursor[c] ELSE ledgerSeq]
    <3>1. pull' = [pull EXCEPT ![c] = s]
      BY <2>1 DEF StartPull
    <3>2. s.phase = "scan" /\ s.todo = Table /\ s.found = {} /\ s.since <= cursor[c]
      BY <1>1 DEF IdlePull
    <3> HIDE DEF s
    <3> QED
      BY <3>1, <3>2
  <2>2. CASE StartColdPull(c)
    <3> DEFINE s == [IdlePull EXCEPT !.phase = "query", !.todo = Table]
    <3>1. pull' = [pull EXCEPT ![c] = s]
      BY <2>2 DEF StartColdPull
    <3>2. s.phase = "query" /\ s.todo = Table /\ s.found = {} /\ s.since <= cursor[c]
      BY <1>1 DEF IdlePull
    <3> HIDE DEF s
    <3> QED
      BY <3>1, <3>2
  <2> QED
    BY <2>1, <2>2
<1>3. pull'[c] = s
  BY <1>1, <1>2
<1>4. \A r \in Visible[c] : ~Read(c, r)'
  BY <1>1, <1>2, <1>3, SyncAssumption DEF Read
<1>5. Met(c)'
  BY <1>1 DEF ClientInv, PullInv, Met, Knows, pg
<1>6. PullInv(c)'
  BY <1>1, <1>2, <1>3, <1>4, <1>5 DEF PullInv, ReadInv, ScanInv, AnswerInv, SaveInv, ColdInv
<1> QED
  BY <1>1, <1>2, <1>6, ClientMove

LEMMA ScanKeeps ==
  ASSUME Typed, ClientInv, NEW c \in Client, ScanTable(c)
  PROVE  ClientInv'
<1> DEFINE t == NextTable(c)
           C == Candidates(c, t)
           low == Lowest(C, PageLimit)
           s == [pull[c] EXCEPT !.found = @ \cup low, !.todo = @ \ {t}]
<1>1. /\ UNCHANGED <<pg, cursor, replica, late>> /\ pull[c] \in PullState
      /\ pull \in [Client -> PullState] /\ cursor[c] \in Nat /\ pull[c].since \in Nat
      /\ pgSeq \in [Row -> Nat] /\ Visible[c] \subseteq Row /\ PullInv(c)
      /\ pull[c].phase = "scan" /\ PageLimit \in Nat \ {0} /\ TypeOK
      /\ Sized(pull[c].found) /\ pull[c].found \in SUBSET Entry
  BY SyncAssumption DEF ScanTable, server, Typed, TypeOK, PullState, ClientInv, Sized, Finite, Entry
<1>2. pull' = [pull EXCEPT ![c] = s]
  BY DEF ScanTable
<1>3. Sized(C) /\ C \in SUBSET Entry
  BY <1>1, CandidateFacts
<1>4. \A e \in C : TableOf[e.row] = t /\ e.text = pgText[e.row]
  BY DEF Candidates
<1>5. \A r \in Visible[c] : TableOf[r] = t /\ pgSeq[r] > pull[c].since
                            => \E e \in C : e.row = r /\ e.seq = pgSeq[r]
  <2> SUFFICES ASSUME NEW r \in Visible[c], TableOf[r] = t, pgSeq[r] > pull[c].since
               PROVE  \E e \in C : e.row = r /\ e.seq = pgSeq[r]
    OBVIOUS
  <2>1. [row |-> r, seq |-> pgSeq[r], text |-> pgText[r]] \in C
    BY DEF Candidates
  <2> QED
    BY <2>1
<1>6. /\ low \subseteq C /\ Sized(low)
      /\ \A e \in C \ low : Cardinality(Below(low, e.seq)) >= PageLimit
  <2> HIDE DEF C
  <2> QED
    BY <1>1, <1>3, LowestFacts
<1> HIDE DEF low, C
<1>7. pull'[c].phase = "scan" /\ pull'[c].since = pull[c].since /\ pull'[c].todo = pull[c].todo \ {t}
      /\ pull'[c].found = pull[c].found \cup low
  BY <1>1, <1>2 DEF PullState
<1> HIDE DEF s, t
<1>8. Sized(pull'[c].found)
  <2>1. IsFiniteSet(pull[c].found) /\ IsFiniteSet(low)
    BY <1>1, <1>6 DEF Sized
  <2>2. IsFiniteSet(pull[c].found \cup low)
    BY <2>1, FS_Union
  <2>3. \A e \in pull[c].found \cup low : e.seq \in Nat
    BY <1>1, <1>6 DEF Sized
  <2> QED
    BY <1>7, <2>2, <2>3 DEF Sized
<1>9. Met(c)'
  BY <1>1 DEF PullInv, Met, Knows, pg
<1>10. ReadInv(c)'
  BY <1>1, <1>4, <1>6, <1>7 DEF PullInv, ReadInv, Read, Current, pg
<1>11. ScanInv(c)'
  <2> SUFFICES ASSUME NEW r \in Visible[c], TableOf[r] \notin pull'[c].todo, pgSeq[r] > pull[c].since
               PROVE  \/ c \in late[r]
                      \/ \E e \in pull'[c].found : e.row = r /\ e.seq = pgSeq[r]
                      \/ Cardinality(Below(pull'[c].found, pgSeq[r])) >= PageLimit
    BY <1>1, <1>7 DEF ScanInv, Read, pg
  <2>1. pgSeq[r] \in Nat
    BY <1>1
  <2>2. ASSUME NEW page, page \subseteq pull'[c].found, Cardinality(Below(page, pgSeq[r])) >= PageLimit
        PROVE  Cardinality(Below(pull'[c].found, pgSeq[r])) >= PageLimit
    BY <1>1, <1>8, <2>1, <2>2, BelowGrows
  <2>3. CASE TableOf[r] = t
    <3>1. PICK e \in C : e.row = r /\ e.seq = pgSeq[r]
      BY <1>5, <2>3
    <3>2. CASE e \in low
      BY <1>7, <3>1, <3>2
    <3>3. CASE e \notin low
      BY <1>6, <1>7, <2>2, <3>1, <3>3
    <3> QED
      BY <3>2, <3>3
  <2>4. CASE TableOf[r] # t
    <3>1. Read(c, r)
      BY <1>7, <2>4 DEF Read
    <3> QED
      BY <1>1, <1>7, <2>2, <3>1 DEF PullInv, ScanInv
  <2> QED
    BY <2>3, <2>4
<1>12. PullInv(c)'
  BY <1>7, <1>9, <1>10, <1>11 DEF PullInv, AnswerInv, SaveInv, ColdInv
<1> QED
  BY <1>1, <1>2, <1>12, ClientMove

\* The cursor that goes with a page: everything visible up to it is in the
\* page, was known before, or is late.
LEMMA AnswerKeeps ==
  ASSUME Typed, ClientInv, NEW c \in Client, Answer(c)
  PROVE  ClientInv'
<1> DEFINE found == pull[c].found
           page == Lowest(found, PageLimit)
           next == NextPullCursor(page, pull[c].since, pull[c].head)
           s == [IdlePull EXCEPT !.phase = "answer", !.found = page, !.next = next]
<1>1. /\ UNCHANGED <<pg, cursor, replica, late>> /\ pull[c] \in PullState
      /\ pull \in [Client -> PullState] /\ cursor[c] \in Nat /\ pull[c].since \in Nat
      /\ pgSeq \in [Row -> Nat] /\ Visible[c] \subseteq Row /\ PullInv(c)
      /\ pull[c].phase = "scan" /\ pull[c].todo = {} /\ PageLimit \in Nat \ {0} /\ TypeOK
      /\ Sized(pull[c].found) /\ pull[c].found \in SUBSET Entry
  BY SyncAssumption DEF Answer, server, Typed, TypeOK, PullState, ClientInv, Sized, Finite, Entry
<1>2. pull' = [pull EXCEPT ![c] = s]
  BY DEF Answer
<1>3. /\ page \subseteq found /\ Sized(page) /\ (found # {} => page # {})
      /\ \A e \in found : e \in page <=> Cardinality(Below(found, e.seq)) < PageLimit
  BY <1>1, LowestFacts
<1>4. page # {} => \E x \in page : x.seq = next
  <2> SUFFICES ASSUME page # {} PROVE \E x \in page : x.seq = next
    OBVIOUS
  <2> DEFINE f == [e \in page |-> e.seq]
  <2>1. Seqs(page) = {f[e] : e \in page}
    BY DEF Seqs
  <2>2. IsFiniteSet({f[e] : e \in page})
    <3>1. DOMAIN f = page /\ IsFiniteSet(page)
      BY <1>3 DEF Sized
    <3> HIDE DEF f
    <3> QED
      BY <3>1, ImageFinite
  <2>3. Seqs(page) \in SUBSET Nat /\ Seqs(page) # {}
    BY <1>3 DEF Seqs, Sized
  <2>4. Max(Seqs(page)) \in Seqs(page)
    BY <2>1, <2>2, <2>3, GreatestNat
  <2>5. next = Max(Seqs(page))
    BY DEF NextPullCursor
  <2> HIDE DEF page, next, f
  <2> QED
    BY <2>4, <2>5 DEF Seqs
<1>5. next \in Nat
  <2>1. page \in SUBSET Entry /\ IsFiniteSet(page) /\ pull[c].head \in Nat
    BY <1>1, <1>3 DEF Sized, PullState
  <2> HIDE DEF page
  <2> QED
    BY <1>1, <2>1, NextCursorType
<1> HIDE DEF page, next
<1>6. pull'[c].phase = "answer" /\ pull'[c].found = page /\ pull'[c].next = next
  BY <1>1, <1>2 DEF IdlePull
<1> HIDE DEF s
<1>7. \A r \in Row : Read(c, r)
  BY <1>1 DEF Read
<1>8. Met(c)'
  BY <1>1 DEF PullInv, Met, Knows, pg
<1>9. \A e \in page : Current(c, e)
  BY <1>1, <1>3 DEF PullInv, ReadInv
<1>10. ASSUME NEW r \in Visible[c], pgSeq[r] <= next
       PROVE  Knows(c, r) \/ \E e \in page : e.row = r
  <2>1. CASE pgSeq[r] <= pull[c].since
    <3>1. pgSeq[r] <= cursor[c]
      BY <1>1, <2>1 DEF PullInv, ReadInv
    <3> QED
      BY <1>1, <3>1 DEF PullInv, Met
  <2>2. CASE c \in late[r]
    BY <2>2 DEF Knows
  <2>3. CASE Cardinality(Below(found, pgSeq[r])) >= PageLimit
    <3>1. found # {}
      <4>1. found = {} => Below(found, pgSeq[r]) = {}
        BY DEF Below
      <4> QED
        BY <1>1, <2>3, <4>1, FS_EmptySet
    <3>2. PICK x \in page : x.seq = next
      BY <1>3, <1>4, <3>1
    <3>3. x \in found /\ Cardinality(Below(found, x.seq)) < PageLimit
      BY <1>3
    <3>4. /\ Cardinality(Below(found, pgSeq[r])) <= Cardinality(Below(found, x.seq))
          /\ Cardinality(Below(found, pgSeq[r])) \in Nat /\ Cardinality(Below(found, x.seq)) \in Nat
      BY <1>1, <1>5, <1>10, <3>2, BelowGrows
    <3> QED
      BY <1>1, <2>3, <3>3, <3>4
  <2>4. CASE \E e \in found : e.row = r /\ e.seq = pgSeq[r]
    <3>1. PICK e \in found : e.row = r /\ e.seq = pgSeq[r]
      BY <2>4
    <3>2. PICK x \in page : x.seq = next
      BY <1>3, <1>4
    <3>3. x \in found /\ Cardinality(Below(found, x.seq)) < PageLimit
      BY <1>3, <3>2
    <3>4. /\ Cardinality(Below(found, e.seq)) <= Cardinality(Below(found, x.seq))
          /\ Cardinality(Below(found, e.seq)) \in Nat /\ Cardinality(Below(found, x.seq)) \in Nat
      BY <1>1, <1>5, <1>10, <3>1, <3>2, BelowGrows
    <3>5. e \in page
      BY <1>1, <1>3, <3>3, <3>4
    <3> QED
      BY <3>1, <3>5
  <2> QED
    BY <1>1, <1>7, <2>1, <2>2, <2>3, <2>4 DEF PullInv, ScanInv
<1>11. AnswerInv(c)'
  BY <1>1, <1>6, <1>9, <1>10 DEF AnswerInv, Current, Knows, Brings, pg
<1>12. PullInv(c)'
  BY <1>6, <1>8, <1>11 DEF PullInv, ReadInv, ScanInv, SaveInv, ColdInv
<1> QED
  BY <1>1, <1>2, <1>12, ClientMove

LEMMA ApplyKeeps ==
  ASSUME Typed, ClientInv, NEW c \in Client, ApplyPage(c)
  PROVE  ClientInv'
<1> DEFINE s == [pull[c] EXCEPT !.phase = "save", !.found = {}]
<1>1. /\ UNCHANGED <<pg, cursor, late>> /\ pull[c] \in PullState
      /\ pull \in [Client -> PullState] /\ cursor[c] \in Nat /\ pull[c].next \in Nat
      /\ pgSeq \in [Row -> Nat] /\ Visible[c] \subseteq Row /\ PullInv(c)
      /\ pull[c].phase = "answer"
  BY SyncAssumption DEF ApplyPage, server, Typed, TypeOK, PullState, ClientInv
<1>2. pull' = [pull EXCEPT ![c] = s] /\ Store(c)
  BY DEF ApplyPage
<1>3. pull'[c].phase = "save" /\ pull'[c].next = pull[c].next
  BY <1>1, <1>2 DEF PullState
<1> HIDE DEF s
<1>4. ASSUME NEW r \in Visible[c]
      PROVE  \/ replica'[c][r] = replica[c][r] /\ ~Brings(c, r)
             \/ \E e \in pull[c].found : e.row = r /\ replica'[c][r] = e.text
  BY <1>1, <1>2, StoreFacts
<1>5. ASSUME NEW r \in Visible[c], pgSeq[r] <= cursor[c] \/ pgSeq[r] <= pull[c].next
      PROVE  Knows(c, r)'
  <2>1. CASE replica'[c][r] = replica[c][r] /\ ~Brings(c, r)
    BY <1>1, <1>5, <2>1 DEF PullInv, Met, AnswerInv, Knows, pg
  <2>2. ASSUME NEW e \in pull[c].found, e.row = r, replica'[c][r] = e.text
        PROVE  Knows(c, r)'
    <3>1. Current(c, e) \/ (pgSeq[r] > pull[c].next /\ pgSeq[r] > cursor[c])
      BY <1>1, <2>2 DEF PullInv, AnswerInv
    <3>2. pgSeq[r] \in Nat
      BY <1>1
    <3>3. Current(c, e)
      BY <1>1, <1>5, <3>1, <3>2
    <3> QED
      BY <1>1, <2>2, <3>3 DEF Current, Knows, pg
  <2> QED
    BY <1>4, <2>1, <2>2
<1>6. Met(c)'
  BY <1>1, <1>5 DEF Met, pg
<1>7. SaveInv(c)'
  BY <1>1, <1>3, <1>5 DEF SaveInv, pg
<1>8. PullInv(c)'
  BY <1>3, <1>6, <1>7 DEF PullInv, ReadInv, ScanInv, AnswerInv, ColdInv
<1> QED
  BY <1>1, <1>2, <1>8, StoreFacts, ClientMove

LEMMA SaveKeeps ==
  ASSUME Typed, ClientInv, NEW c \in Client, SaveCursor(c)
  PROVE  ClientInv'
<1>1. /\ UNCHANGED <<pg, replica, late>> /\ pull \in [Client -> PullState] /\ PullInv(c)
      /\ pull[c].phase = "save" /\ pull' = [pull EXCEPT ![c] = IdlePull]
      /\ cursor' = [cursor EXCEPT ![c] = pull[c].next] /\ cursor \in [Client -> Nat]
  BY DEF SaveCursor, server, Typed, TypeOK, ClientInv
<1>2. pull'[c].phase = "idle" /\ cursor'[c] = pull[c].next
  BY <1>1 DEF IdlePull
<1>3. Met(c)'
  BY <1>1, <1>2 DEF PullInv, SaveInv, Met, Knows, pg
<1>4. PullInv(c)'
  BY <1>2, <1>3 DEF PullInv, ReadInv, ScanInv, AnswerInv, SaveInv, ColdInv
<1> QED
  BY <1>1, <1>4, ClientMove

LEMMA QueryKeeps ==
  ASSUME Typed, ClientInv, NEW c \in Client, QueryTable(c)
  PROVE  ClientInv'
<1> DEFINE t == NextTable(c)
           C == Candidates(c, t)
           s == [pull[c] EXCEPT !.phase = "page", !.found = C, !.todo = @ \ {t}]
<1>1. /\ UNCHANGED <<pg, cursor, replica, late>> /\ pull[c] \in PullState
      /\ pull \in [Client -> PullState] /\ cursor[c] \in Nat /\ pull[c].since \in Nat
      /\ pgSeq \in [Row -> Nat] /\ Visible[c] \subseteq Row /\ PullInv(c)
      /\ pull[c].phase = "query"
  BY SyncAssumption DEF QueryTable, server, Typed, TypeOK, PullState, ClientInv
<1>2. pull' = [pull EXCEPT ![c] = s]
  BY DEF QueryTable
<1>3. \A e \in C : TableOf[e.row] = t /\ e.text = pgText[e.row]
  BY DEF Candidates
<1>4. ASSUME NEW r \in Visible[c], TableOf[r] = t, pgSeq[r] > pull[c].since
      PROVE  \E e \in C : e.row = r
  <2>1. [row |-> r, seq |-> pgSeq[r], text |-> pgText[r]] \in C
    BY <1>4 DEF Candidates
  <2> QED
    BY <2>1
<1> HIDE DEF C
<1>5. pull'[c].phase = "page" /\ pull'[c].since = pull[c].since /\ pull'[c].todo = pull[c].todo \ {t}
      /\ pull'[c].found = C
  BY <1>1, <1>2 DEF PullState
<1> HIDE DEF s, t
<1>6. Met(c)'
  BY <1>1 DEF PullInv, Met, Knows, pg
<1>7. ReadInv(c)'
  BY <1>1, <1>3, <1>5 DEF PullInv, ReadInv, Read, Current, pg
<1>8. ColdInv(c)'
  <2> SUFFICES ASSUME NEW r \in Visible[c], TableOf[r] \notin pull'[c].todo
               PROVE  Knows(c, r) \/ \E e \in C : e.row = r
    BY <1>1, <1>5 DEF ColdInv, Read, Knows, Brings, pg
  <2>1. CASE TableOf[r] # t
    BY <1>1, <1>5, <2>1 DEF PullInv, ColdInv, Read
  <2>2. CASE TableOf[r] = t /\ pgSeq[r] > pull[c].since
    BY <1>4, <2>2
  <2>3. CASE pgSeq[r] <= pull[c].since
    <3>1. pgSeq[r] <= cursor[c]
      BY <1>1, <2>3 DEF PullInv, ReadInv
    <3> QED
      BY <1>1, <3>1 DEF PullInv, Met
  <2> QED
    BY <1>1, <2>1, <2>2, <2>3
<1>9. PullInv(c)'
  BY <1>5, <1>6, <1>7, <1>8 DEF PullInv, ScanInv, AnswerInv, SaveInv
<1> QED
  BY <1>1, <1>2, <1>9, ClientMove

LEMMA StoreKeeps ==
  ASSUME Typed, ClientInv, NEW c \in Client, StorePage(c)
  PROVE  ClientInv'
<1> DEFINE s == [pull[c] EXCEPT !.found = {},
                   !.phase = IF pull[c].todo = {} THEN "save" ELSE "query",
                   !.next  = IF pull[c].todo = {} THEN ledgerSeq ELSE 0]
<1>1. /\ UNCHANGED <<pg, cursor, late>> /\ pull[c] \in PullState
      /\ pull \in [Client -> PullState] /\ cursor[c] \in Nat
      /\ pgSeq \in [Row -> Nat] /\ Visible[c] \subseteq Row /\ PullInv(c)
      /\ pull[c].phase = "page"
  BY SyncAssumption DEF StorePage, server, Typed, TypeOK, PullState, ClientInv
<1>2. pull' = [pull EXCEPT ![c] = s] /\ Store(c)
  BY DEF StorePage
<1>3. /\ pull'[c].phase = IF pull[c].todo = {} THEN "save" ELSE "query"
      /\ pull'[c].since = pull[c].since /\ pull'[c].todo = pull[c].todo /\ pull'[c].found = {}
  BY <1>1, <1>2 DEF PullState
<1> HIDE DEF s
<1>4. ASSUME NEW r \in Visible[c]
      PROVE  \/ replica'[c][r] = replica[c][r] /\ ~Brings(c, r)
             \/ \E e \in pull[c].found : e.row = r /\ replica'[c][r] = e.text
  BY <1>1, <1>2, StoreFacts
<1>5. ASSUME NEW r \in Visible[c], pgSeq[r] <= cursor[c] \/ Read(c, r)
      PROVE  Knows(c, r)'
  <2>1. CASE replica'[c][r] = replica[c][r] /\ ~Brings(c, r)
    BY <1>1, <1>5, <2>1 DEF PullInv, Met, ColdInv, Knows, pg
  <2>2. ASSUME NEW e \in pull[c].found, e.row = r, replica'[c][r] = e.text
        PROVE  Knows(c, r)'
    <3>1. Current(c, e)
      BY <1>1, <2>2 DEF PullInv, ReadInv
    <3> QED
      BY <1>1, <2>2, <3>1 DEF Current, Knows, pg
  <2> QED
    BY <1>4, <2>1, <2>2
<1>6. Met(c)'
  BY <1>1, <1>5 DEF Met, pg
<1>7. SaveInv(c)' /\ ColdInv(c)'
  BY <1>1, <1>3, <1>5 DEF SaveInv, ColdInv, Read
<1>8. ReadInv(c)'
  BY <1>1, <1>3 DEF PullInv, ReadInv
<1>9. PullInv(c)'
  BY <1>3, <1>6, <1>7, <1>8 DEF PullInv, ScanInv, AnswerInv
<1> QED
  BY <1>1, <1>2, <1>9, StoreFacts, ClientMove

LEMMA LossKeeps ==
  ASSUME WriteInv, ClientInv, NEW c \in Client, LosePull(c) \/ ResetReplica(c)
  PROVE  ClientInv'
<1>1. /\ UNCHANGED pg /\ pull \in [Client -> PullState] /\ PullInv(c) /\ Typed /\ TypeOK
      /\ cursor \in [Client -> Nat] /\ replica \in [Client -> [Row -> Nat]]
      /\ pgSeq \in [Row -> Nat] /\ pgText \in [Row -> Nat] /\ Visible[c] \subseteq Row
  BY SyncAssumption DEF LosePull, ResetReplica, server, WriteInv, Typed, TypeOK, ClientInv
<1>2. CASE LosePull(c)
  <2>1. pull' = [pull EXCEPT ![c] = IdlePull] /\ UNCHANGED <<cursor, replica, late>>
    BY <1>2 DEF LosePull
  <2>2. pull'[c].phase = "idle"
    BY <1>1, <2>1 DEF IdlePull
  <2>3. Met(c)'
    BY <1>1, <2>1 DEF PullInv, Met, Knows, pg
  <2>4. PullInv(c)'
    BY <2>2, <2>3 DEF PullInv, ReadInv, ScanInv, AnswerInv, SaveInv, ColdInv
  <2> QED
    BY <1>1, <2>1, <2>4, ClientMove
<1>3. CASE ResetReplica(c)
  <2>1. /\ pull' = [pull EXCEPT ![c] = pull[c]] /\ pull[c].phase = "idle"
        /\ cursor' = [cursor EXCEPT ![c] = 0] /\ replica' = [replica EXCEPT ![c] = NoRows]
        /\ late' = [r \in Row |-> late[r] \ {c}]
    BY <1>1, <1>3 DEF ResetReplica
  <2>2. pull'[c].phase = "idle" /\ cursor'[c] = 0 /\ replica'[c] = NoRows
    BY <1>1, <2>1
  <2>3. ASSUME NEW r \in Visible[c], pgSeq[r] <= 0 PROVE replica'[c][r] = pgText[r]
    BY <1>1, <2>2, <2>3 DEF WriteInv, Numbered, NoRows
  <2>4. Met(c)'
    BY <1>1, <2>2, <2>3 DEF Met, Knows, pg
  <2>5. PullInv(c)'
    BY <2>2, <2>4 DEF PullInv, ReadInv, ScanInv, AnswerInv, SaveInv, ColdInv
  <2> QED
    BY <1>1, <2>1, <2>5, ClientMove
<1> QED
  BY <1>2, <1>3

-----------------------------------------------------------------------------
(* No client misses a row in silence.                                      *)

ServerInv == WriteInv /\ ClientInv

LEMMA ServerInvInit == Init => ServerInv
<1> SUFFICES ASSUME Init PROVE ClientInv
  BY WriteInvInit DEF ServerInv
<1>1. \A c \in Client : /\ pull[c].phase = "idle" /\ replica[c] = NoRows /\ Visible[c] \subseteq Row
                        /\ pgText = NoRows
  BY SyncAssumption DEF Init, IdlePull
<1>2. \A c \in Client : Met(c)
  BY <1>1 DEF Met, Knows, NoRows
<1> QED
  BY <1>1, <1>2 DEF ClientInv, PullInv, ReadInv, ScanInv, AnswerInv, SaveInv, ColdInv

LEMMA ServerInvStep == ServerInv /\ [Next]_vars => ServerInv'
<1> SUFFICES ASSUME ServerInv, [Next]_vars PROVE ServerInv'
  OBVIOUS
<1>1. WriteInv /\ WriteInv' /\ ClientInv /\ Typed /\ Typed' /\ TypeOK
  BY WriteInvStep DEF ServerInv, WriteInv, Typed
<1>2. CASE UNCHANGED <<pg, clients, late>>
  BY <1>1, <1>2, ServerKeeps DEF ServerInv
<1>3. ASSUME NEW w \in Writer, CheckPack(w) \/ UpsertPack(w) \/ Abort(w)
      PROVE  UNCHANGED <<pg, clients, late>>
  <2>1. RollBack(w) => UNCHANGED <<pg, clients, late>>
    BY DEF RollBack
  <2> QED
    BY <1>1, <1>3, <2>1, UpsertFacts, PassFacts DEF Abort
<1>4. ASSUME NEW w \in Writer, Commit(w) PROVE ServerInv'
  BY <1>1, <1>4, CommitKeeps DEF ServerInv
<1>5. ASSUME NEW w \in Writer, NEW rows \in SUBSET Pushes[w], Sign(w, rows)
      PROVE  UNCHANGED <<pg, clients, late>>
  BY <1>5 DEF Sign
<1>6. ASSUME NEW c \in Client, Pull(c) \/ LosePull(c) \/ ResetReplica(c) PROVE ServerInv'
  BY <1>1, <1>6, PullStarts, ScanKeeps, AnswerKeeps, ApplyKeeps, SaveKeeps, QueryKeeps,
     StoreKeeps, LossKeeps DEF Pull, ServerInv
<1> QED
  BY <1>2, <1>3, <1>4, <1>5, <1>6 DEF Next, Push, vars, server

\* The paging, the cursor and the snapshot lose nothing: what the cursor of a
\* client has passed, the client has, unless its last change was committed
\* behind the cursor; for any tables, page size, writers and losses.
THEOREM NothingMissed == Spec => []NoSilentMiss
<1>1. ServerInv => NoSilentMiss
  BY DEF ServerInv, ClientInv, PullInv, Met, Knows, NoSilentMiss
<1> QED
  BY <1>1, ServerInvInit, ServerInvStep, PTL DEF Spec

-----------------------------------------------------------------------------
(* The projection.  Every number a transaction writes goes back to the one  *)
(* row of that key in its batch, and every row of the batch is still to     *)
(* come, was left out, or is in what the transaction wrote.                 *)

Front(b) == {r \in b.left : \A q \in b.left : TableOf[r] <= TableOf[q]}
From(b, r, q) == r \in Row /\ b.stamp[r] # 0 /\ KeyOf[r] = KeyOf[q]

Traced(b) ==
  /\ b.phase = "idle" => b.stamp = NoRows
  /\ \A r, q \in Row : b.stamp[r] # 0 /\ b.stamp[q] # 0 /\ KeyOf[r] = KeyOf[q] => r = q
  /\ b.phase = "checked" => Front(b) \subseteq b.keep \cup b.out
  /\ \A r \in Row : b.stamp[r] # 0 =>
       r \in b.left \/ r \in b.out \/ \E q \in Row : KeyOf[q] = KeyOf[r] /\ b.text[q] = b.stamp[r]
  /\ \A q \in Row : b.text[q] # 0 => \E r \in Row : From(b, r, q) /\ b.text[q] = b.stamp[r]
  /\ \A q \in Row : b.seq[q] # 0  => \E r \in Row : From(b, r, q) /\ b.seq[q] = b.stamp[r]
  /\ \A q \in Row : b.saw[q] # 0  => \E r \in Row : From(b, r, q) /\ b.saw[q] <= b.stamp[r]

\* No number is higher than the newest of its key.
Dated(b) == \A r \in Row : b.stamp[r] <= newest[KeyOf[r]]
Bounded == /\ \A k \in Key : newest[k] <= ledgerSeq
           /\ \A r \in Row : pgText[r] <= newest[KeyOf[r]]

\* The newest entry of k belongs to a writer that is not done.
Owned(k) == \E w \in Writer : \E r \in Batch(w) : KeyOf[r] = k /\ writer[w].stamp[r] = newest[k]
Followed == \A k \in Key : Shown(k) = newest[k] \/ k \in diverged \/ Owned(k)

TraceInv == WriteInv /\ \A w \in Writer : Traced(writer[w])
LedgerInv == TraceInv /\ Bounded /\ (\A w \in Writer : Dated(writer[w])) /\ Followed

LEMMA IdleTraced == Traced(IdleWriter)
BY DEF Traced, IdleWriter, NoRows, Front

\* A step that changes one writer.
LEMMA TracedWriter ==
  ASSUME TraceInv, WriteInv', NEW w \in Writer, NEW b, writer' = [writer EXCEPT ![w] = b], Traced(b)
  PROVE  TraceInv'
BY DEF TraceInv, WriteInv, Typed, TypeOK

LEMMA TracedSign ==
  ASSUME TraceInv, WriteInv', NEW w \in Writer, NEW rows \in SUBSET Pushes[w], Sign(w, rows)
  PROVE  TraceInv'
<1>1. rows \in SUBSET Row /\ TypeOK
  BY SyncAssumption DEF TraceInv, WriteInv, Typed
<1>2. Cardinality(rows) \in Nat
  BY <1>1, SyncAssumption, FS_Subset, FS_CardinalityType
<1>3. PICK seqOf \in [rows -> (ledgerSeq + 1) .. (ledgerSeq + Cardinality(rows))] :
       writer' = [writer EXCEPT ![w] =
            [IdleWriter EXCEPT !.phase = "begun", !.left = rows,
               !.stamp = [r \in Row |-> IF r \in rows THEN seqOf[r] ELSE 0]]]
  BY DEF Sign
<1> DEFINE stamp == [r \in Row |-> IF r \in rows THEN seqOf[r] ELSE 0]
           b == [IdleWriter EXCEPT !.phase = "begun", !.left = rows, !.stamp = stamp]
<1>4. \A r \in Row : stamp[r] # 0 => r \in rows
  OBVIOUS
<1>5. b.phase = "begun" /\ b.left = rows /\ b.stamp = stamp /\ b.text = NoRows /\ b.seq = NoRows
      /\ b.saw = NoRows
  BY DEF IdleWriter
<1>6. \A r, q \in rows : KeyOf[r] = KeyOf[q] => r = q
  BY DEF Sign
<1> HIDE DEF stamp
<1>7. writer' = [writer EXCEPT ![w] = b]
  BY <1>3 DEF stamp
<1> HIDE DEF b
<1>8. Traced(b)
  BY <1>4, <1>5, <1>6 DEF Traced, NoRows
<1> QED
  BY <1>7, <1>8, TracedWriter

\* What the checks of CheckPack compared: a row that passed has a number at
\* least as high as the seq the check saw of the row it goes to.
LEMMA CheckFacts ==
  ASSUME TraceInv, NEW w \in Writer, CheckPack(w)
  PROVE  \/ RollBack(w)
         \/ \E keep \in SUBSET Pack(w), checked \in SUBSET Row :
              /\ Pass(w, keep, checked)
              /\ \A r \in keep : Match(r) \in checked => pgSeq[Match(r)] <= writer[w].stamp[r]
              /\ UNCHANGED <<ledgerSeq, newest, pg, diverged, clients, late>>
<1> DEFINE pack  == Pack(w)
           known == \A r \in pack : TableOf[r] \in Catalogue
           id(r) == IF known THEN Match(r) ELSE r
           fresh == {r \in pack : writer[w].stamp[r] >= pgSeq[id(r)]}
           ids   == {id(r) : r \in pack}
<1>1. /\ pack \subseteq Row /\ writer[w] \in WriterState /\ pgSeq \in [Row -> Nat]
      /\ Traced(writer[w]) /\ Prepared(writer[w], pgText) /\ pack \subseteq writer[w].left
  BY DEF Pack, TraceInv, WriteInv, Typed, TypeOK, WriterState
<1>2. ids \in SUBSET Row
  BY <1>1, MatchFacts
<1>3. RollBack(w)
      \/ \E older \in SUBSET fresh :
           /\ Pass(w, {r \in fresh \ older : Placed(w, r)}, ids)
           /\ UNCHANGED <<ledgerSeq, newest, pg, diverged, clients, late>>
  BY DEF CheckPack
<1>4. ASSUME NEW r \in fresh, Match(r) \in ids
      PROVE  pgSeq[Match(r)] <= writer[w].stamp[r]
  <2>1. r \in Row /\ r \in pack /\ writer[w].stamp[r] >= pgSeq[id(r)]
        /\ writer[w].stamp[r] \in Nat /\ pgSeq[id(r)] \in Nat /\ id(r) \in Row
    BY <1>1, MatchFacts DEF WriterState
  <2>2. id(r) = Match(r)
    <3>1. CASE known
      BY <3>1
    <3>2. CASE ~known
      <4>1. Match(r) \in pack /\ KeyOf[Match(r)] = KeyOf[r]
        BY <1>4, <2>1, <3>2, MatchFacts
      <4>2. \A q \in pack : writer[w].stamp[q] # 0
        BY <1>1 DEF Prepared
      <4>3. Match(r) = r
        BY <1>1, <2>1, <4>1, <4>2 DEF Traced
      <4> QED
        BY <3>2, <4>3
    <3> QED
      BY <3>1, <3>2
  <2> QED
    BY <2>1, <2>2
<1> HIDE DEF ids, fresh, pack
<1>5. ASSUME NEW older \in SUBSET fresh
      PROVE  /\ {r \in fresh \ older : Placed(w, r)} \in SUBSET pack
             /\ {r \in fresh \ older : Placed(w, r)} \in SUBSET fresh
  BY DEF fresh
<1>6. CASE \E older \in SUBSET fresh :
             /\ Pass(w, {r \in fresh \ older : Placed(w, r)}, ids)
             /\ UNCHANGED <<ledgerSeq, newest, pg, diverged, clients, late>>
  <2>1. PICK older \in SUBSET fresh :
             /\ Pass(w, {r \in fresh \ older : Placed(w, r)}, ids)
             /\ UNCHANGED <<ledgerSeq, newest, pg, diverged, clients, late>>
    BY <1>6
  <2> DEFINE keep == {r \in fresh \ older : Placed(w, r)}
  <2>2. keep \in SUBSET Pack(w) /\ keep \in SUBSET fresh /\ Pass(w, keep, ids)
    BY <1>5, <2>1 DEF pack
  <2> HIDE DEF keep
  <2>3. \A r \in keep : Match(r) \in ids => pgSeq[Match(r)] <= writer[w].stamp[r]
    BY <1>4, <2>2
  <2> QED
    BY <1>2, <2>1, <2>2, <2>3
<1> QED
  BY <1>3, <1>6

LEMMA TracedPass ==
  ASSUME TraceInv, WriteInv', NEW w \in Writer, NEW keep \in SUBSET Pack(w), NEW checked \in SUBSET Row,
         Pass(w, keep, checked),
         \A r \in keep : Match(r) \in checked => pgSeq[Match(r)] <= writer[w].stamp[r]
  PROVE  TraceInv'
<1> DEFINE b == writer[w]
           into == [r \in Row |-> IF r \in Pack(w) THEN Match(r) ELSE b.into[r]]
           saw  == [q \in Row |-> IF q \in checked /\ \E r \in keep : Match(r) = q
                                  THEN pgSeq[q] ELSE b.saw[q]]
           out  == b.out \cup (Pack(w) \ keep)
           n == [b EXCEPT !.phase = "checked", !.keep = keep, !.out = out, !.into = into,
                          !.saw = saw]
<1>1. b \in WriterState /\ Prepared(b, pgText) /\ Traced(b)
  BY DEF TraceInv, WriteInv, Typed, TypeOK
<1>2. Pack(w) = Front(b) /\ Pack(w) \subseteq b.left /\ b.left \subseteq Row
  BY <1>1 DEF Pack, Front, WriterState
<1>3. writer' = [writer EXCEPT ![w] = n]
  BY DEF Pass
<1>4. ASSUME NEW q \in Row, saw[q] # 0
      PROVE  \E r \in Row : From(b, r, q) /\ saw[q] <= b.stamp[r]
  <2>1. CASE q \in checked /\ \E r \in keep : Match(r) = q
    <3>1. PICK r \in keep : Match(r) = q
      BY <2>1
    <3>2. r \in Row /\ b.stamp[r] # 0
      BY <1>1, <1>2, <3>1 DEF Prepared
    <3>3. KeyOf[r] = KeyOf[q]
      BY <3>1, <3>2, MatchFacts
    <3>4. saw[q] = pgSeq[q] /\ pgSeq[q] <= b.stamp[r]
      BY <2>1, <3>1
    <3> HIDE DEF saw, b
    <3> QED
      BY <3>2, <3>3, <3>4 DEF From
  <2>2. CASE ~(q \in checked /\ \E r \in keep : Match(r) = q)
    <3>1. saw[q] = b.saw[q]
      BY <2>2
    <3> HIDE DEF saw, b
    <3> QED
      BY <1>1, <1>4, <3>1 DEF Traced
  <2> QED
    BY <2>1, <2>2
<1> HIDE DEF into, saw, b
<1>5. n.left = b.left /\ n.keep = keep /\ n.stamp = b.stamp /\ n.out = out /\ n.text = b.text
      /\ n.seq = b.seq /\ n.saw = saw /\ n.phase = "checked"
  BY <1>1 DEF WriterState
<1> HIDE DEF n
<1>6. Traced(n)
  <2>1. Front(n) = Front(b)
    BY <1>5 DEF Front
  <2>2. Front(n) \subseteq n.keep \cup n.out
    BY <1>2, <1>5, <2>1
  <2>3. \A r, q : From(n, r, q) <=> From(b, r, q)
    BY <1>5 DEF From
  <2>4. \A q \in Row : n.saw[q] # 0 => \E r \in Row : From(n, r, q) /\ n.saw[q] <= n.stamp[r]
    BY <1>4, <1>5, <2>3
  <2> QED
    BY <1>1, <1>5, <2>2, <2>3, <2>4 DEF Traced
<1> QED
  BY <1>3, <1>6, TracedWriter

LEMMA TracedUpsert ==
  ASSUME TraceInv, NEW w \in Writer, NEW n, Upserted(writer[w], n), writer[w].phase = "checked",
         n.left = writer[w].left \ Pack(w)
  PROVE  Traced(n)
<1> DEFINE b == writer[w]
<1>1. b \in WriterState /\ Prepared(b, pgText) /\ Traced(b)
  BY DEF TraceInv, WriteInv, Typed, TypeOK
<1>2. Pack(w) = Front(b)
  BY DEF Pack, Front
<1>3. \A r \in b.keep : r \in Row /\ b.stamp[r] # 0 /\ Match(r) \in Row /\ KeyOf[Match(r)] = KeyOf[r]
  BY <1>1, MatchFacts DEF Prepared, WriterState
<1> HIDE DEF b
<1>4. /\ n.phase = "begun" /\ n.stamp = b.stamp /\ n.out = b.out /\ n.saw = b.saw
      /\ n.left = b.left \ Front(b)
  BY <1>2 DEF Upserted, b
<1>5. \A r, q : From(n, r, q) <=> From(b, r, q)
  BY <1>4 DEF From
<1>6. \A q \in Row :
        \/ n.text[q] = b.text[q] /\ n.seq[q] = b.seq[q] /\ \A r \in b.keep : Match(r) # q
        \/ \E r \in b.keep :
             /\ Match(r) = q /\ n.text[q] = b.stamp[r]
             /\ n.seq[q] = b.stamp[r] \/ n.seq[q] = b.seq[q]
  BY DEF Upserted, b
<1>7. ASSUME NEW q \in Row
      PROVE  /\ n.text[q] # 0 => \E r \in Row : From(n, r, q) /\ n.text[q] = n.stamp[r]
             /\ n.seq[q] # 0 => \E r \in Row : From(n, r, q) /\ n.seq[q] = n.stamp[r]
  <2>1. CASE n.text[q] = b.text[q] /\ n.seq[q] = b.seq[q]
    BY <1>1, <1>4, <1>5, <2>1 DEF Traced
  <2>2. ASSUME NEW r \in b.keep, Match(r) = q, n.text[q] = b.stamp[r],
               n.seq[q] = b.stamp[r] \/ n.seq[q] = b.seq[q]
        PROVE  /\ n.text[q] # 0 => \E x \in Row : From(n, x, q) /\ n.text[q] = n.stamp[x]
               /\ n.seq[q] # 0 => \E x \in Row : From(n, x, q) /\ n.seq[q] = n.stamp[x]
    <3>1. r \in Row /\ From(n, r, q) /\ n.text[q] = n.stamp[r]
      BY <1>3, <1>4, <2>2 DEF From
    <3>2. CASE n.seq[q] = b.stamp[r]
      BY <1>4, <3>1, <3>2
    <3>3. CASE n.seq[q] = b.seq[q]
      BY <1>1, <1>4, <1>5, <3>1, <3>3 DEF Traced
    <3> QED
      BY <2>2, <3>1, <3>2, <3>3
  <2> QED
    BY <1>6, <2>1, <2>2
<1>8. ASSUME NEW r \in Row, n.stamp[r] # 0
      PROVE  r \in n.left \/ r \in n.out
             \/ \E q \in Row : KeyOf[q] = KeyOf[r] /\ n.text[q] = n.stamp[r]
  <2>1. CASE r \in b.keep
    <3>1. \E x \in b.keep : Match(x) = Match(r) /\ n.text[Match(r)] = b.stamp[x]
      BY <1>3, <1>6, <2>1
    <3>2. PICK x \in b.keep : Match(x) = Match(r) /\ n.text[Match(r)] = b.stamp[x]
      BY <3>1
    <3>3. x = r
      <4>1. KeyOf[x] = KeyOf[r] /\ x \in Row /\ b.stamp[x] # 0 /\ b.stamp[r] # 0
        BY <1>3, <2>1, <3>2
      <4> QED
        BY <1>1, <4>1 DEF Traced
    <3> QED
      BY <1>3, <1>4, <2>1, <3>2, <3>3
  <2>2. CASE \E q \in Row : KeyOf[q] = KeyOf[r] /\ b.text[q] = b.stamp[r]
    <3>1. PICK q \in Row : KeyOf[q] = KeyOf[r] /\ b.text[q] = b.stamp[r]
      BY <2>2
    <3>2. CASE \A x \in b.keep : Match(x) # q
      BY <1>4, <1>6, <3>1, <3>2
    <3>3. CASE \E x \in b.keep : Match(x) = q
      <4>1. PICK x \in b.keep : Match(x) = q /\ n.text[q] = b.stamp[x]
        BY <1>6, <3>3
      <4>2. KeyOf[x] = KeyOf[r] /\ x \in Row /\ b.stamp[x] # 0 /\ b.stamp[r] # 0
        BY <1>3, <1>4, <1>8, <3>1, <4>1
      <4>3. x = r
        BY <1>1, <4>2 DEF Traced
      <4> QED
        BY <1>4, <3>1, <4>1, <4>3
    <3> QED
      BY <3>2, <3>3
  <2>3. CASE r \in b.left /\ r \notin b.keep
    BY <1>1, <1>4, <2>3 DEF Traced, b
  <2> QED
    BY <1>1, <1>4, <1>8, <2>1, <2>2, <2>3 DEF Traced
<1>9. \A q \in Row : n.saw[q] # 0 => \E r \in Row : From(n, r, q) /\ n.saw[q] <= n.stamp[r]
  BY <1>1, <1>4, <1>5 DEF Traced
<1> QED
  BY <1>1, <1>4, <1>7, <1>8, <1>9 DEF Traced

LEMMA TraceInvInit == Init => TraceInv
BY WriteInvInit, IdleTraced DEF Init, TraceInv

LEMMA TraceInvStep == TraceInv /\ [Next]_vars => TraceInv'
<1> SUFFICES ASSUME TraceInv, [Next]_vars PROVE TraceInv'
  OBVIOUS
<1>1. WriteInv /\ WriteInv' /\ TypeOK
  BY WriteInvStep DEF TraceInv, WriteInv, Typed
<1>2. CASE UNCHANGED server
  BY <1>1, <1>2 DEF server, TraceInv
<1>3. ASSUME NEW w \in Writer, RollBack(w) PROVE TraceInv'
  BY <1>1, <1>3, IdleTraced, TracedWriter DEF RollBack
<1>4. ASSUME NEW w \in Writer, CheckPack(w) PROVE TraceInv'
  <2>1. ASSUME NEW keep \in SUBSET Pack(w), NEW checked \in SUBSET Row, Pass(w, keep, checked),
               \A r \in keep : Match(r) \in checked => pgSeq[Match(r)] <= writer[w].stamp[r]
        PROVE  TraceInv'
    BY <1>1, <2>1, TracedPass
  <2> QED
    BY <1>3, <1>4, <2>1, CheckFacts
<1>5. ASSUME NEW w \in Writer, UpsertPack(w) PROVE TraceInv'
  <2>1. writer[w].phase = "checked"
    BY <1>5 DEF UpsertPack
  <2>2. ASSUME NEW n, writer' = [writer EXCEPT ![w] = n], Upserted(writer[w], n),
               n.left = writer[w].left \ Pack(w)
        PROVE  TraceInv'
    BY <1>1, <2>1, <2>2, TracedUpsert, TracedWriter
  <2> QED
    BY <1>1, <1>3, <1>5, <2>2, UpsertFacts
<1>6. ASSUME NEW w \in Writer, Commit(w) PROVE TraceInv'
  BY <1>1, <1>6, IdleTraced, TracedWriter DEF Commit
<1>7. ASSUME NEW w \in Writer, NEW rows \in SUBSET Pushes[w], Sign(w, rows) PROVE TraceInv'
  BY <1>1, <1>7, TracedSign
<1>8. ASSUME NEW c \in Client, Pull(c) \/ LosePull(c) \/ ResetReplica(c) PROVE UNCHANGED server
  BY <1>8 DEF Pull, LosePull, ResetReplica, StartPull, ScanTable, Answer, ApplyPage, SaveCursor,
              StartColdPull, QueryTable, StorePage
<1> QED
  BY <1>2, <1>3, <1>4, <1>5, <1>6, <1>7, <1>8 DEF Next, Push, Abort, vars

\* A seq goes back only under a writer whose stale check did not see it: what
\* the check saw is no higher than the number the row is written with.
LEMMA CommitBacks ==
  ASSUME TraceInv, NEW w \in Writer, Commit(w), NEW r \in Row, pgSeq'[r] < pgSeq[r]
  PROVE  r \in Held(w) /\ writer[w].saw[r] # pgSeq[r]
<1> DEFINE b == writer[w]
<1>1. b \in WriterState /\ Prepared(b, pgText) /\ Traced(b) /\ pgSeq \in [Row -> Nat]
  BY DEF TraceInv, WriteInv, Typed, TypeOK
<1>2. pgSeq'[r] = IF b.seq[r] # 0 THEN b.seq[r] ELSE pgSeq[r]
  BY DEF Commit
<1> HIDE DEF b
<1>3. b.seq[r] # 0 /\ b.seq[r] < pgSeq[r] /\ b.seq[r] \in Nat /\ pgSeq[r] \in Nat
  BY <1>1, <1>2 DEF WriterState
<1>4. b.text[r] # 0
  BY <1>1, <1>3 DEF Prepared
<1>5. PICK x \in Row : From(b, x, r) /\ b.seq[r] = b.stamp[x]
  BY <1>1, <1>3 DEF Traced
<1>6. b.saw[r] # pgSeq[r]
  <2>1. CASE b.saw[r] = 0
    BY <1>3, <2>1
  <2>2. CASE b.saw[r] # 0
    <3>1. PICK y \in Row : From(b, y, r) /\ b.saw[r] <= b.stamp[y]
      BY <1>1, <2>2 DEF Traced
    <3>2. y = x
      BY <1>1, <1>5, <3>1 DEF Traced, From
    <3> QED
      BY <1>3, <1>5, <3>1, <3>2
  <2> QED
    BY <2>1, <2>2
<1> QED
  BY <1>4, <1>6 DEF Held, b

\* The stored seq of a row goes back only in the window the code leaves open:
\* the writer's check looked at another row, or the row changed since.
THEOREM StaleWindow == Spec => StaleOnlyInWindow
<1> DEFINE Safe == \A r \in Row : pgSeq'[r] < pgSeq[r] =>
                     \E w \in Writer : r \in Held(w) /\ writer[w].saw[r] # pgSeq[r]
<1>1. TraceInv /\ [Next]_vars => [Safe]_vars
  <2> SUFFICES ASSUME TraceInv, [Next]_vars PROVE [Safe]_vars
    OBVIOUS
  <2>1. TypeOK
    BY DEF TraceInv, WriteInv, Typed
  <2>2. CASE UNCHANGED pg
    BY <2>1, <2>2 DEF pg, TypeOK
  <2>3. ASSUME NEW w \in Writer, Commit(w) PROVE Safe
    BY <2>3, CommitBacks
  <2>4. ASSUME NEW w \in Writer, CheckPack(w) \/ UpsertPack(w) \/ Abort(w) PROVE UNCHANGED pg
    <3>1. RollBack(w) => UNCHANGED pg
      BY DEF RollBack
    <3> QED
      BY <2>1, <2>4, <3>1, UpsertFacts, CheckFacts DEF Abort
  <2>5. ASSUME NEW w \in Writer, NEW rows \in SUBSET Pushes[w], Sign(w, rows) PROVE UNCHANGED pg
    BY <2>5 DEF Sign
  <2>6. ASSUME NEW c \in Client, Pull(c) \/ LosePull(c) \/ ResetReplica(c) PROVE UNCHANGED pg
    BY <2>6 DEF Pull, LosePull, ResetReplica, StartPull, ScanTable, Answer, ApplyPage, SaveCursor,
                StartColdPull, QueryTable, StorePage, server
  <2> QED
    BY <2>2, <2>3, <2>4, <2>5, <2>6 DEF Next, Push, vars, server
<1> QED
  BY <1>1, TraceInvInit, TraceInvStep, PTL DEF Spec, StaleOnlyInWindow
-----------------------------------------------------------------------------
(* What PostgreSQL shows for a key, and the newest entry of the ledger.     *)

Top(t, k) == Max({t[r] : r \in {q \in Row : KeyOf[q] = k}})

LEMMA TopFacts ==
  ASSUME NEW t \in [Row -> Nat], NEW k \in Key
  PROVE  /\ Top(t, k) \in Nat
         /\ \E r \in Row : KeyOf[r] = k /\ t[r] = Top(t, k)
         /\ \A r \in Row : KeyOf[r] = k => t[r] <= Top(t, k)
<1> DEFINE R == {q \in Row : KeyOf[q] = k}
           f == [r \in R |-> t[r]]
           S == {f[r] : r \in R}
<1>1. IsFiniteSet(R)
  BY SyncAssumption, FS_Subset
<1>2. S = {t[r] : r \in R}
  OBVIOUS
<1>3. S \in SUBSET Nat /\ S # {}
  BY <1>2 DEF Key
<1>4. DOMAIN f = R
  OBVIOUS
<1>5. IsFiniteSet(S)
  <2> HIDE DEF f, R
  <2> QED
    BY <1>1, <1>4, ImageFinite
<1>6. Top(t, k) = Max(S)
  BY <1>2 DEF Top
<1>7. Max(S) \in S /\ \A n \in S : n <= Max(S)
  <2> HIDE DEF S
  <2> QED
    BY <1>3, <1>5, GreatestNat
<1> QED
  BY <1>2, <1>3, <1>6, <1>7

\* The newest entry of a key still has its owner after another writer moves.
LEMMA OwnedOther ==
  ASSUME TypeOK, NEW w \in Writer, NEW n, writer' = [writer EXCEPT ![w] = n],
         NEW k, newest'[k] = newest[k], Owned(k)
  PROVE  \/ Owned(k)'
         \/ \E r \in Row : writer[w].stamp[r] # 0 /\ KeyOf[r] = k /\ writer[w].stamp[r] = newest[k]
<1>1. PICK v \in Writer, r \in Row :
        writer[v].stamp[r] # 0 /\ KeyOf[r] = k /\ writer[v].stamp[r] = newest[k]
  BY DEF Owned, Batch
<1>2. CASE v = w
  BY <1>1, <1>2
<1>3. CASE v # w
  <2>1. writer'[v] = writer[v]
    BY <1>3 DEF TypeOK
  <2> QED
    BY <1>1, <2>1 DEF Owned, Batch
<1> QED
  BY <1>2, <1>3

LEMMA LedgerInvInit == Init => LedgerInv
<1> SUFFICES ASSUME Init PROVE LedgerInv
  OBVIOUS
<1>1. TraceInv
  BY TraceInvInit
<1>2. /\ ledgerSeq = 0 /\ pgText = NoRows /\ pgText \in [Row -> Nat]
      /\ \A k \in Key : newest[k] = 0 
      /\ \A r \in Row : pgText[r] = 0 /\ KeyOf[r] \in Key
      /\ \A w \in Writer : writer[w].stamp = NoRows
  BY DEF Init, NoRows, IdleWriter, Key
<1>3. Bounded
  BY <1>2 DEF Bounded
<1>4. \A w \in Writer : Dated(writer[w])
  BY <1>2 DEF Dated, NoRows
<1>5. Followed
  <2> SUFFICES ASSUME NEW k \in Key PROVE Shown(k) = newest[k]
    BY DEF Followed
  <2>1. Shown(k) = Top(pgText, k)
    BY DEF Shown, Top
  <2> QED
    BY <1>2, <2>1, TopFacts
<1> QED
  BY <1>1, <1>3, <1>4, <1>5 DEF LedgerInv

\* A step that keeps the tables and the ledger, and every number given out.
LEMMA LedgerStays ==
  ASSUME LedgerInv, TraceInv', UNCHANGED <<ledgerSeq, newest, pg, diverged>>,
         NEW w \in Writer, NEW n, writer' = [writer EXCEPT ![w] = n], n.stamp = writer[w].stamp
  PROVE  LedgerInv'
<1>1. TypeOK
  BY DEF LedgerInv, TraceInv, WriteInv, Typed
<1>2. Bounded'
  BY DEF LedgerInv, Bounded, pg
<1>3. \A v \in Writer : writer'[v].stamp = writer[v].stamp
  BY <1>1 DEF TypeOK
<1>4. ASSUME NEW v \in Writer PROVE Dated(writer[v])'
  BY <1>3 DEF LedgerInv, Dated
<1>5. \A k \in Key : Owned(k) => Owned(k)'
  BY <1>3 DEF Owned, Batch
<1>6. Followed'
  BY <1>5 DEF LedgerInv, Followed, Shown, pg
<1> QED
  BY <1>2, <1>4, <1>6 DEF LedgerInv

LEMMA LedgerRollBack ==
  ASSUME LedgerInv, TraceInv', NEW w \in Writer, RollBack(w)
  PROVE  LedgerInv'
<1>1. /\ TypeOK /\ UNCHANGED <<ledgerSeq, newest, pg>> /\ writer' = [writer EXCEPT ![w] = IdleWriter]
      /\ newest \in [Key -> Nat]
  BY DEF LedgerInv, TraceInv, WriteInv, Typed, TypeOK, RollBack
<1>2. Bounded'
  BY <1>1 DEF LedgerInv, Bounded, pg
<1>3. ASSUME NEW v \in Writer PROVE Dated(writer[v])'
  <2>1. CASE v = w
    <3>1. writer'[v].stamp = NoRows
      BY <1>1, <2>1 DEF TypeOK, IdleWriter
    <3>2. \A r \in Row : KeyOf[r] \in Key
      BY DEF Key
    <3> QED
      BY <1>1, <3>1, <3>2 DEF Dated, NoRows
  <2>2. CASE v # w
    BY <1>1, <2>2 DEF LedgerInv, Dated, TypeOK
  <2> QED
    BY <2>1, <2>2
<1>4. ASSUME NEW k \in Key, Owned(k) PROVE Owned(k)' \/ k \in diverged'
  <2>1. \/ Owned(k)'
        \/ \E r \in Row : writer[w].stamp[r] # 0 /\ KeyOf[r] = k /\ writer[w].stamp[r] = newest[k]
    BY <1>1, <1>4, OwnedOther
  <2> QED
    BY <2>1 DEF RollBack, Batch
<1>5. Followed'
  <2>1. \A k \in Key : k \in diverged => k \in diverged'
    BY DEF RollBack
  <2> QED
    BY <1>1, <1>4, <2>1 DEF LedgerInv, Followed, Shown, pg
<1> QED
  BY <1>2, <1>3, <1>5 DEF LedgerInv

LEMMA LedgerSign ==
  ASSUME LedgerInv, TraceInv', NEW w \in Writer, NEW rows \in SUBSET Pushes[w], Sign(w, rows)
  PROVE  LedgerInv'
<1>1. /\ TypeOK /\ rows \in SUBSET Row /\ ledgerSeq \in Nat /\ newest \in [Key -> Nat]
      /\ Bounded /\ pgText \in [Row -> Nat]
  BY SyncAssumption DEF LedgerInv, TraceInv, WriteInv, Typed, TypeOK
<1>2. Cardinality(rows) \in Nat
  BY <1>1, SyncAssumption, FS_Subset, FS_CardinalityType
<1> DEFINE last == ledgerSeq + Cardinality(rows)
<1>3. ledgerSeq' = last /\ last \in Nat /\ ledgerSeq <= last /\ UNCHANGED <<pg, diverged>>
      /\ (\A r, q \in rows : KeyOf[r] = KeyOf[q] => r = q) /\ writer[w].phase = "idle"
  BY <1>1, <1>2 DEF Sign
<1>4. PICK seqOf \in [rows -> (ledgerSeq + 1) .. last] :
        /\ newest' = [k \in Key |-> IF k \in Keys(rows)
                                     THEN seqOf[CHOOSE r \in rows : KeyOf[r] = k] ELSE newest[k]]
        /\ writer' = [writer EXCEPT ![w] =
             [IdleWriter EXCEPT !.phase = "begun", !.left = rows,
                !.stamp = [r \in Row |-> IF r \in rows THEN seqOf[r] ELSE 0]]]
  BY DEF Sign
<1> DEFINE stamp == [r \in Row |-> IF r \in rows THEN seqOf[r] ELSE 0]
<1> HIDE DEF last
<1>5. \A r \in rows : KeyOf[r] \in Key /\ KeyOf[r] \in Keys(rows) /\ newest'[KeyOf[r]] = seqOf[r]
  BY <1>1, <1>3, <1>4 DEF Key, Keys
<1>6. \A r \in rows : seqOf[r] \in Nat /\ seqOf[r] > ledgerSeq /\ seqOf[r] <= last
  BY <1>1, <1>3, <1>4
<1>7. \A k \in Key : k \notin Keys(rows) => newest'[k] = newest[k]
  BY <1>4
<1>8. \A k \in Key : k \in Keys(rows) => \E r \in rows : KeyOf[r] = k
  BY DEF Keys
<1>9. \A k \in Key : newest'[k] \in Nat /\ newest[k] <= newest'[k] /\ newest'[k] <= last
  <2> SUFFICES ASSUME NEW k \in Key
               PROVE  newest'[k] \in Nat /\ newest[k] <= newest'[k] /\ newest'[k] <= last
    OBVIOUS
  <2>1. newest[k] \in Nat /\ newest[k] <= ledgerSeq
    BY <1>1 DEF Bounded
  <2>2. CASE k \notin Keys(rows)
    BY <1>1, <1>3, <1>7, <2>1, <2>2
  <2>3. CASE k \in Keys(rows)
    BY <1>1, <1>3, <1>5, <1>6, <1>8, <2>1, <2>3
  <2> QED
    BY <2>2, <2>3
<1>10. writer'[w].stamp = stamp /\ \A v \in Writer : v # w => writer'[v] = writer[v]
  BY <1>1, <1>4 DEF TypeOK, IdleWriter
<1>11. Bounded'
  <2>1. \A r \in Row : KeyOf[r] \in Key /\ pgText[r] <= newest[KeyOf[r]] /\ pgText[r] \in Nat
    BY <1>1 DEF Bounded, Key
  <2>2. ASSUME NEW r \in Row PROVE pgText[r] <= newest'[KeyOf[r]]
    BY <1>1, <1>9, <2>1
  <2> QED
    BY <1>3, <1>9, <2>2 DEF Bounded, pg
<1>12. ASSUME NEW v \in Writer PROVE Dated(writer[v])'
  <2>1. \A r \in Row : KeyOf[r] \in Key
    BY DEF Key
  <2>2. CASE v = w
    <3>1. \A r \in Row : stamp[r] <= newest'[KeyOf[r]]
      BY <1>5, <1>6, <1>9, <2>1
    <3> QED
      BY <1>10, <2>2, <3>1 DEF Dated
  <2>3. CASE v # w
    <3>1. writer[v].stamp \in [Row -> Nat] /\ Dated(writer[v])
      BY <1>1 DEF LedgerInv, TypeOK, WriterState
    <3>2. \A r \in Row : writer[v].stamp[r] <= newest'[KeyOf[r]]
      BY <1>1, <1>9, <2>1, <3>1 DEF Dated
    <3> QED
      BY <1>10, <2>3, <3>2 DEF Dated
  <2> QED
    BY <2>2, <2>3
<1>13. ASSUME NEW k \in Key PROVE Shown(k)' = newest'[k] \/ k \in diverged' \/ Owned(k)'
  <2>1. CASE k \in Keys(rows)
    <3>1. PICK r \in rows : KeyOf[r] = k
      BY <1>8, <2>1
    <3>2. writer'[w].stamp[r] = newest'[k] /\ writer'[w].stamp[r] # 0 /\ r \in Row
      BY <1>1, <1>5, <1>6, <1>10, <3>1
    <3> HIDE DEF stamp
    <3> QED
      BY <3>1, <3>2 DEF Owned, Batch
  <2>2. CASE k \notin Keys(rows)
    <3>1. newest'[k] = newest[k]
      BY <1>7, <2>2
    <3>2. Shown(k)' = Shown(k)
      BY <1>3 DEF Shown, pg
    <3>3. Owned(k) => Owned(k)'
      <4>1. \A r \in Row : writer[w].stamp[r] = 0
        BY <1>3 DEF LedgerInv, TraceInv, Traced, NoRows
      <4> QED
        BY <1>1, <1>4, <3>1, <4>1, OwnedOther
    <3> QED
      BY <1>3, <3>1, <3>2, <3>3 DEF LedgerInv, Followed
  <2> QED
    BY <2>1, <2>2
<1>14. Followed'
  BY <1>13 DEF Followed
<1> QED
  BY <1>11, <1>12, <1>14 DEF LedgerInv

\* A commit either brings the newest entry of a key, or the key is marked.
LEMMA LedgerCommit ==
  ASSUME LedgerInv, TraceInv', NEW w \in Writer, Commit(w)
  PROVE  LedgerInv'
<1> DEFINE b == writer[w]
<1>1. /\ TypeOK /\ newest \in [Key -> Nat] /\ pgText \in [Row -> Nat] /\ pgText' \in [Row -> Nat]
      /\ b \in WriterState /\ Traced(b) /\ Dated(b) /\ Bounded
  BY DEF LedgerInv, TraceInv, WriteInv, Typed, TypeOK
<1>2. /\ UNCHANGED <<ledgerSeq, newest>> /\ writer' = [writer EXCEPT ![w] = IdleWriter]
      /\ \A r \in Row : pgText'[r] = IF b.text[r] # 0 THEN b.text[r] ELSE pgText[r]
      /\ b.left = {}
      /\ diverged' = (diverged \ {KeyOf[r] : r \in {q \in Held(w) : b.text[q] = newest[KeyOf[q]]}})
                       \cup {KeyOf[r] : r \in {q \in Held(w) : b.text[q] < Shown(KeyOf[q])}}
                       \cup {KeyOf[r] : r \in {q \in b.out : newest[KeyOf[q]] = b.stamp[q]}}
  BY DEF Commit, Held
<1>3. \A r \in Row : r \in Held(w) <=> b.text[r] # 0
  BY DEF Held
<1> HIDE DEF b
<1>4. \A r \in Row : /\ KeyOf[r] \in Key /\ newest[KeyOf[r]] \in Nat /\ b.text[r] \in Nat
                     /\ b.text[r] <= newest[KeyOf[r]]
  <2> SUFFICES ASSUME NEW r \in Row
               PROVE  /\ KeyOf[r] \in Key /\ newest[KeyOf[r]] \in Nat /\ b.text[r] \in Nat
                      /\ b.text[r] <= newest[KeyOf[r]]
    OBVIOUS
  <2>1. KeyOf[r] \in Key /\ newest[KeyOf[r]] \in Nat /\ b.text[r] \in Nat
    BY <1>1 DEF Key, WriterState
  <2>2. CASE b.text[r] = 0
    BY <2>1, <2>2
  <2>3. CASE b.text[r] # 0
    <3>1. PICK x \in Row : From(b, x, r) /\ b.text[r] = b.stamp[x]
      BY <1>1, <2>3 DEF Traced
    <3> QED
      BY <1>1, <2>1, <3>1 DEF From, Dated
  <2> QED
    BY <2>1, <2>2, <2>3
<1>5. Bounded'
  BY <1>1, <1>2, <1>4 DEF Bounded
<1>6. ASSUME NEW v \in Writer PROVE Dated(writer[v])'
  <2>1. CASE v = w
    <3>1. writer'[v].stamp = NoRows
      BY <1>1, <1>2, <2>1 DEF TypeOK, IdleWriter
    <3> QED
      BY <1>2, <1>4, <3>1 DEF Dated, NoRows
  <2>2. CASE v # w
    BY <1>1, <1>2, <2>2 DEF LedgerInv, Dated, TypeOK
  <2> QED
    BY <2>1, <2>2
<1>7. ASSUME NEW k \in Key PROVE Shown(k)' = newest[k] \/ k \in diverged' \/ Owned(k)'
  <2>1. Shown(k) = Top(pgText, k) /\ Shown(k)' = Top(pgText', k)
    BY DEF Shown, Top
  <2>2. newest[k] \in Nat
    BY <1>1
  <2>3. CASE \E q \in Row : b.text[q] # 0 /\ KeyOf[q] = k /\ b.text[q] = newest[k]
    <3>1. PICK q \in Row : b.text[q] # 0 /\ KeyOf[q] = k /\ b.text[q] = newest[k]
      BY <2>3
    <3>2. pgText'[q] = newest[k]
      BY <1>2, <3>1
    <3>3. \A r \in Row : KeyOf[r] = k => pgText'[r] <= newest[k]
      BY <1>2, <1>5 DEF Bounded
    <3>4. /\ Top(pgText', k) \in Nat
          /\ \E r \in Row : KeyOf[r] = k /\ pgText'[r] = Top(pgText', k)
          /\ \A r \in Row : KeyOf[r] = k => pgText'[r] <= Top(pgText', k)
      BY <1>1, TopFacts
    <3> QED
      BY <2>1, <2>2, <3>1, <3>2, <3>3, <3>4
  <2>4. CASE ~\E q \in Row : b.text[q] # 0 /\ KeyOf[q] = k /\ b.text[q] = newest[k]
    <3>1. CASE k \in diverged
      BY <1>2, <1>3, <2>4, <3>1 DEF Held
    <3>2. CASE Shown(k) = newest[k]
      <4>1. CASE \E q \in Row : b.text[q] # 0 /\ KeyOf[q] = k
        <5>1. PICK q \in Row : b.text[q] # 0 /\ KeyOf[q] = k
          BY <4>1
        <5>2. b.text[q] < Shown(KeyOf[q])
          BY <1>4, <2>2, <2>4, <3>2, <5>1
        <5>3. q \in Held(w)
          BY <1>3, <5>1
        <5> QED
          BY <1>2, <5>1, <5>2, <5>3
      <4>2. CASE ~\E q \in Row : b.text[q] # 0 /\ KeyOf[q] = k
        <5>1. \A q \in {q \in Row : KeyOf[q] = k} : pgText'[q] = pgText[q]
          BY <1>2, <4>2
        <5>2. {pgText'[r] : r \in {q \in Row : KeyOf[q] = k}} = {pgText[r] : r \in {q \in Row : KeyOf[q] = k}}
          BY <5>1
        <5> QED
          BY <2>1, <3>2, <5>2 DEF Top
      <4> QED
        BY <4>1, <4>2
    <3>3. CASE Owned(k)
      <4>1. \/ Owned(k)'
            \/ \E r \in Row : b.stamp[r] # 0 /\ KeyOf[r] = k /\ b.stamp[r] = newest[k]
        <5>1. newest'[k] = newest[k] /\ writer' = [writer EXCEPT ![w] = IdleWriter]
          BY <1>2
        <5>2. \/ Owned(k)'
              \/ \E r \in Row : writer[w].stamp[r] # 0 /\ KeyOf[r] = k /\ writer[w].stamp[r] = newest[k]
          BY <1>1, <3>3, <5>1, OwnedOther
        <5> QED
          BY <5>2 DEF b
      <4>2. ASSUME NEW r \in Row, b.stamp[r] # 0, KeyOf[r] = k, b.stamp[r] = newest[k]
            PROVE  k \in diverged'
        <5>1. r \in b.out \/ \E q \in Row : KeyOf[q] = KeyOf[r] /\ b.text[q] = b.stamp[r]
          BY <1>1, <1>2, <4>2 DEF Traced
        <5>2. r \in b.out
          BY <2>4, <4>2, <5>1
        <5> QED
          BY <1>2, <4>2, <5>2
      <4> QED
        BY <4>1, <4>2
    <3> QED
      BY <3>1, <3>2, <3>3 DEF LedgerInv, Followed
  <2> QED
    BY <2>3, <2>4
<1>8. Followed'
  BY <1>2, <1>7 DEF Followed
<1> QED
  BY <1>5, <1>6, <1>8 DEF LedgerInv

LEMMA LedgerInvStep == LedgerInv /\ [Next]_vars => LedgerInv'
<1> SUFFICES ASSUME LedgerInv, [Next]_vars PROVE LedgerInv'
  OBVIOUS
<1>1. TraceInv /\ TraceInv' /\ TypeOK
  BY TraceInvStep DEF LedgerInv, TraceInv, WriteInv, Typed
<1>2. CASE UNCHANGED server
  <2>1. UNCHANGED <<ledgerSeq, newest, pgText, diverged, writer>>
    BY <1>2 DEF server, pg
  <2>2. \A k \in Key : (Owned(k) <=> Owned(k)') /\ Shown(k) = Shown(k)'
    BY <2>1 DEF Owned, Shown, Batch
  <2> QED
    BY <1>1, <2>1, <2>2 DEF LedgerInv, Bounded, Dated, Followed
<1>3. ASSUME NEW w \in Writer, RollBack(w) PROVE LedgerInv'
  BY <1>1, <1>3, LedgerRollBack
<1>4. ASSUME NEW w \in Writer, CheckPack(w) PROVE LedgerInv'
  <2>1. ASSUME NEW keep \in SUBSET Pack(w), NEW checked \in SUBSET Row, Pass(w, keep, checked),
               UNCHANGED <<ledgerSeq, newest, pg, diverged>>
        PROVE  LedgerInv'
    <3> DEFINE b == writer[w]
               into == [r \in Row |-> IF r \in Pack(w) THEN Match(r) ELSE b.into[r]]
               saw  == [q \in Row |-> IF q \in checked /\ \E r \in keep : Match(r) = q
                                      THEN pgSeq[q] ELSE b.saw[q]]
               out  == b.out \cup (Pack(w) \ keep)
               n == [b EXCEPT !.phase = "checked", !.keep = keep, !.out = out, !.into = into,
                              !.saw = saw]
    <3>1. writer' = [writer EXCEPT ![w] = n]
      BY <2>1 DEF Pass
    <3>2. b \in WriterState
      BY <1>1 DEF TypeOK
    <3> HIDE DEF into, saw, out, b
    <3>3. n.stamp = b.stamp
      BY <3>2 DEF WriterState
    <3> HIDE DEF n
    <3> QED
      BY <1>1, <2>1, <3>1, <3>3, LedgerStays DEF b
  <2> QED
    BY <1>1, <1>3, <1>4, <2>1, CheckFacts
<1>5. ASSUME NEW w \in Writer, UpsertPack(w) PROVE LedgerInv'
  <2>1. ASSUME NEW n, writer' = [writer EXCEPT ![w] = n], Upserted(writer[w], n),
               UNCHANGED <<ledgerSeq, newest, pg, diverged>>
        PROVE  LedgerInv'
    BY <1>1, <2>1, LedgerStays DEF Upserted
  <2> QED
    BY <1>1, <1>3, <1>5, <2>1, UpsertFacts
<1>6. ASSUME NEW w \in Writer, Commit(w) PROVE LedgerInv'
  BY <1>1, <1>6, LedgerCommit
<1>7. ASSUME NEW w \in Writer, NEW rows \in SUBSET Pushes[w], Sign(w, rows) PROVE LedgerInv'
  BY <1>1, <1>7, LedgerSign
<1>8. ASSUME NEW c \in Client, Pull(c) \/ LosePull(c) \/ ResetReplica(c) PROVE UNCHANGED server
  BY <1>8 DEF Pull, LosePull, ResetReplica, StartPull, ScanTable, Answer, ApplyPage, SaveCursor,
              StartColdPull, QueryTable, StorePage
<1> QED
  BY <1>2, <1>3, <1>4, <1>5, <1>6, <1>7, <1>8 DEF Next, Push, Abort, vars

\* PostgreSQL shows the newest ledger entry of every key unless it was rolled
\* back, left out or overwritten, or its writer is not done; for any rows, keys,
\* tables, writers and pushes.
THEOREM ProjectionSound == Spec => []ProjectionFollowsLedger
<1>1. LedgerInv => ProjectionFollowsLedger
  BY DEF LedgerInv, Followed, Owned, ProjectionFollowsLedger, Keys
<1> QED
  BY <1>1, LedgerInvInit, LedgerInvStep, PTL DEF Spec
=============================================================================
