----------------------- MODULE EngineReservationProofs -----------------------
(***************************************************************************)
(* Proofs about EngineReservation for any users, instances, lifetimes,     *)
(* numbers of requests and faults.                                         *)
(***************************************************************************)
EXTENDS EngineReservation, TLAPS

-----------------------------------------------------------------------------
(* Type correctness.                                                       *)

LEMMA RequestFacts ==
  ASSUME NEW n \in Nat
  PROVE  /\ NoRequest \in Request(n) /\ Free \in Value
         /\ \A r \in Request(n) : r \in Request(n + 1)
         /\ \A r \in Request(n), a \in {"ok", "conflict", "forbidden", "error"} :
              Reply(r, a) \in Request(n)
<1>1. Free \in Value
  BY DEF Free, Value
<1>2. NoRequest \in Request(n)
  BY <1>1 DEF NoRequest, Request, RequestStep
<1>3. \A r \in Request(n) : r \in Request(n + 1)
  BY DEF Request
<1>4. ASSUME NEW r \in Request(n), NEW a \in {"ok", "conflict", "forbidden", "error"}
      PROVE  Reply(r, a) \in Request(n)
  <2> DEFINE q == NoRequest
  <2>1. q \in Request(n) /\ r.for \in Caller \cup {None}
    BY <1>2 DEF Request
  <2> HIDE DEF q
  <2>2. [q EXCEPT !.at = "answer", !.for = r.for, !.answer = a] \in Request(n)
    BY <2>1, ZenonT(40) DEF Request, RequestStep
  <2> QED
    BY <1>2, <2>2 DEF Reply, q
<1> QED
  BY <1>1, <1>2, <1>3, <1>4

\* What the steps of a request make of it.
LEMMA StepFacts ==
  ASSUME NEW n \in Nat, NEW r \in Request(n), NEW ts \in Nat
  PROVE  /\ [r EXCEPT !.at = "read", !.attempt = 1] \in Request(n)
         /\ [r EXCEPT !.at = "sign", !.ts = ts, !.seen = 0, !.attempt = 0] \in Request(n)
         /\ [r EXCEPT !.at = "check", !.seq = n + 1] \in Request(n + 1)
         /\ [r EXCEPT !.at = "apply"] \in Request(n)
         /\ [r EXCEPT !.for = None] \in Request(n)
         /\ [r EXCEPT !.at = "define"] \in Request(n)
         /\ [r EXCEPT !.at = "read"] \in Request(n)
<1> USE DEF Request, RequestStep
<1>a. 0 \in 0 .. 1 /\ 1 \in 0 .. 1 /\ n + 1 \in 0 .. n + 1 /\ 0 \in Nat
  OBVIOUS
<1>b. \A k \in 0 .. n : k \in 0 .. n + 1
  OBVIOUS
<1>1. [r EXCEPT !.at = "read", !.attempt = 1] \in Request(n)
  BY <1>a
<1>2. [r EXCEPT !.at = "sign", !.ts = ts, !.seen = 0, !.attempt = 0] \in Request(n)
  BY <1>a
<1>3. [r EXCEPT !.at = "check", !.seq = n + 1] \in Request(n + 1)
  BY <1>a, <1>b
<1> QED
  BY <1>1, <1>2, <1>3

LEMMA EntryFacts ==
  /\ NoEntry \in CacheEntry
  /\ NoGate \in [inst : Inst \cup {None}, entry : CacheEntry, list : BOOLEAN, push : BOOLEAN]
  /\ \A e \in CacheEntry, t \in Nat : InTime(e, t) \in CacheEntry
  /\ now \in Nat => \A e \in CacheEntry, b \in BOOLEAN : Outdated(e, b) \in CacheEntry
BY DEF NoEntry, NoGate, CacheEntry, Free, Value, InTime, Outdated

\* The queue of a client and the flush of it hold engines.
LEMMA QueueFacts ==
  /\ \A q \in Seq(Engine), e \in Engine : Queued(q, e) \in Seq(Engine)
  /\ This \in Engine /\ \A e \in Other : e \in Engine
  /\ \A f \in [on : BOOLEAN, todo : Seq(Engine), left : Seq(Engine)] :
       f.todo # <<>> => Head(f.todo) \in Engine /\ Tail(f.todo) \in Seq(Engine)
<1>1. ASSUME NEW q \in Seq(Engine), NEW e \in Engine PROVE Queued(q, e) \in Seq(Engine)
  <2>1. CASE q = <<>>
    <3>1. Len(q) < Cap
      BY <2>1, ReservationAssumption
    <3> QED
      BY <3>1 DEF Queued
  <2>2. CASE q # <<>>
    <3>1. Tail(q) \in Seq(Engine)
      BY <2>2
    <3> QED
      BY <3>1 DEF Queued
  <2> QED
    BY <2>1, <2>2
<1>2. This \in Engine /\ \A e \in Other : e \in Engine
  BY DEF Engine
<1>3. ASSUME NEW q \in Seq(Engine), q # <<>> PROVE Head(q) \in Engine /\ Tail(q) \in Seq(Engine)
  BY <1>3
<1>4. ASSUME NEW f \in [on : BOOLEAN, todo : Seq(Engine), left : Seq(Engine)], f.todo # <<>>
      PROVE  Head(f.todo) \in Engine /\ Tail(f.todo) \in Seq(Engine)
  BY <1>3, <1>4
<1> QED
  BY <1>1, <1>2, <1>4

LEMMA BudgetFacts ==
  ASSUME NEW kind \in {"calls", "reads", "others", "faults"}, Spend(kind),
         budget \in [calls : Nat, reads : Nat, others : Nat, faults : Nat]
  PROVE  budget' \in [calls : Nat, reads : Nat, others : Nat, faults : Nat]
<1>1. CASE kind = "calls"
  BY <1>1 DEF Spend
<1>2. CASE kind = "reads"
  BY <1>2 DEF Spend
<1>3. CASE kind = "others"
  BY <1>3 DEF Spend
<1>4. CASE kind = "faults"
  BY <1>4 DEF Spend
<1> QED
  BY <1>1, <1>2, <1>3, <1>4

LEMMA DecisionFacts ==
  ASSUME NEW n \in Nat, NEW r \in Request(n), now \in Nat,
         row \in [value : Value, updated : Nat, seq : 0 .. n]
  PROVE  /\ DecideAcquire(r) \in Request(n)
         /\ DecideRelease(r) \in Request(n)
<1>1. /\ row.value \in Value /\ row.updated \in Nat /\ TTL \in Nat
  BY ReservationAssumption
<1>2. \A v \in Value : Write(r, v) \in Request(n)
  BY <1>1 DEF Write, Request, RequestStep
<1>3. [holder |-> r.user, expires |-> now + TTL, released |-> FALSE] \in Value
  BY <1>1 DEF Value, Request
<1>4. [row.value EXCEPT !.released = TRUE] \in Value
  BY <1>1 DEF Value
<1> QED
  BY <1>2, <1>3, <1>4, RequestFacts DEF DecideAcquire, DecideRelease

LEMMA TypeInit == Init => TypeOK
<1> SUFFICES ASSUME Init PROVE TypeOK
  OBVIOUS
<1>1. row \in [value : Value, updated : Nat, seq : 0 .. ledger.seq]
  BY ReservationAssumption DEF Init, Value
<1>2. ledger \in [seq : Nat, value : Value]
  BY ReservationAssumption DEF Init, Value
<1>3. granted \in [User -> Nat]
  BY ReservationAssumption DEF Init, Value
<1>4. request \in [Slot -> Request(ledger.seq)]
  BY <1>2, RequestFacts DEF Init
<1>5. /\ cache \in [Inst -> CacheEntry] /\ defs \in [Inst -> CacheEntry]
      /\ gate \in [inst : Inst \cup {None}, entry : CacheEntry, list : BOOLEAN, push : BOOLEAN]
  BY EntryFacts DEF Init
<1>6. now \in 1 .. MaxTime
  BY ReservationAssumption DEF Init
<1>7. budget \in [calls : Nat, reads : Nat, others : Nat, faults : Nat]
  BY ReservationAssumption DEF Init
<1>8. /\ call \in [Caller -> {"none", "acquire", "release"}]
      /\ promise \in [User -> {"none", "kept", "overlapped", "crowded"}]
      /\ overwritten \in BOOLEAN /\ apart \in BOOLEAN /\ defined \in BOOLEAN
  BY DEF Init
<1>9. /\ queue \in [User -> Seq(Engine)]
      /\ flush \in [User -> [on : BOOLEAN, todo : Seq(Engine), left : Seq(Engine)]]
  <2>1. <<>> \in Seq(Engine)
    OBVIOUS
  <2> QED
    BY <2>1 DEF Init, NoFlush
<1> QED
  BY <1>1, <1>2, <1>3, <1>4, <1>5, <1>6, <1>7, <1>8, <1>9 DEF TypeOK

LEMMA TypeStep == TypeOK /\ [Next]_vars => TypeOK'
<1> SUFFICES ASSUME TypeOK, [Next]_vars PROVE TypeOK'
  OBVIOUS
<1> USE DEF TypeOK, server, caches, queues
<1>a. /\ now \in Nat /\ ledger.seq \in Nat /\ row.value \in Value /\ row.updated \in Nat
      /\ row.seq \in 0 .. ledger.seq
      /\ \A s \in Slot : request[s] \in Request(ledger.seq)
  OBVIOUS
<1>b. \A s \in Slot : /\ request[s].for \in Caller \cup {None} /\ request[s].inst \in Inst \cup {None}
                      /\ request[s].next \in Value /\ request[s].ts \in Nat /\ request[s].seen \in Nat
                      /\ request[s].seq \in 0 .. ledger.seq /\ request[s].user \in User \cup {None}
  BY <1>a DEF Request
<1>c. \A c \in Caller : c[1] \in User
  BY DEF Caller
<1>1. ASSUME NEW u \in User, NEW c \in Caller, NEW op \in {"acquire", "release"}, Send(c, op)
      PROVE  /\ call' \in [Caller -> {"none", "acquire", "release"}]
             /\ request' \in [Slot -> Request(ledger.seq)]
  <2>1. PICK i \in Inst, s \in Slot :
          request' = [request EXCEPT ![s] = [NoRequest EXCEPT
                        !.at = "read", !.op = op, !.user = c[1], !.inst = i, !.for = c]]
    BY <1>1 DEF Send
  <2>2. [NoRequest EXCEPT !.at = "read", !.op = op, !.user = c[1], !.inst = i, !.for = c]
          \in Request(ledger.seq)
    <3> DEFINE q == NoRequest
    <3>1. q \in Request(ledger.seq)
      BY <1>a, RequestFacts
    <3> HIDE DEF q
    <3>2. [q EXCEPT !.at = "read", !.op = op, !.user = c[1], !.inst = i, !.for = c]
            \in Request(ledger.seq)
      BY <3>1, <1>c DEF Request, RequestStep
    <3> QED
      BY <3>2 DEF q
  <2> QED
    BY <1>1, <2>1, <2>2 DEF Send
<1>2. ASSUME NEW u \in User, FlushThis(u) PROVE TypeOK'
  <2>1. <<u, "flush">> \in Caller
    BY DEF Caller
  <2>2. Send(<<u, "flush">>, "release")
    BY <1>2 DEF FlushThis
  <2>3. UNCHANGED <<now, server, caches, queues, promise, budget>>
    BY <1>2 DEF FlushThis, Send
  <2> QED
    BY <2>1, <2>2, <2>3, <1>1
<1>3. ASSUME NEW u \in User, NEW op \in {"acquire", "release"}, Ask(u, op) PROVE TypeOK'
  <2>1. <<u, "card">> \in Caller
    BY DEF Caller
  <2>2. Send(<<u, "card">>, op) /\ budget' \in [calls : Nat, reads : Nat, others : Nat, faults : Nat]
    BY <1>3, BudgetFacts DEF Ask
  <2>3. UNCHANGED <<now, server, caches, queues, promise>>
    BY <1>3 DEF Ask, Send
  <2>4. /\ call' \in [Caller -> {"none", "acquire", "release"}]
        /\ request' \in [Slot -> Request(ledger.seq)]
    <3> HIDE DEF TypeOK, server, caches, queues
    <3> QED
      BY <2>1, <2>2, <1>1
  <2> QED
    BY <2>2, <2>3, <2>4
<1>f. ASSUME NEW u \in User, NEW through \in BOOLEAN, Sent(u, through)
      PROVE  flush' \in [User -> [on : BOOLEAN, todo : Seq(Engine), left : Seq(Engine)]]
  <2>1. /\ Head(flush[u].todo) \in Engine /\ Tail(flush[u].todo) \in Seq(Engine)
        /\ flush[u].left \in Seq(Engine)
    BY <1>f, QueueFacts DEF Sent
  <2> DEFINE todo == Tail(flush[u].todo)
             left == IF through THEN flush[u].left ELSE Append(flush[u].left, Head(flush[u].todo))
  <2>2. todo \in Seq(Engine) /\ left \in Seq(Engine)
    BY <2>1
  <2> DEFINE f == [flush EXCEPT ![u].todo = todo]
  <2>3. flush' = [f EXCEPT ![u].left = left]
    BY <1>f DEF Sent
  <2> HIDE DEF todo, left
  <2>4. f \in [User -> [on : BOOLEAN, todo : Seq(Engine), left : Seq(Engine)]]
    <3>1. flush \in [User -> [on : BOOLEAN, todo : Seq(Engine), left : Seq(Engine)]]
      OBVIOUS
    <3> HIDE DEF TypeOK
    <3>2. [flush[u] EXCEPT !.todo = todo] \in [on : BOOLEAN, todo : Seq(Engine), left : Seq(Engine)]
      BY <3>1, <2>2
    <3> QED
      BY <3>1, <3>2
  <2> HIDE DEF f, TypeOK
  <2>5. [f[u] EXCEPT !.left = left] \in [on : BOOLEAN, todo : Seq(Engine), left : Seq(Engine)]
    BY <2>2, <2>4
  <2> QED
    BY <2>3, <2>4, <2>5
<1>d. ASSUME NEW c \in Caller, Postpone(c) \/ Settle(c) \/ Drop(c)
      PROVE  /\ call' \in [Caller -> {"none", "acquire", "release"}]
             /\ queue' \in [User -> Seq(Engine)]
             /\ flush' \in [User -> [on : BOOLEAN, todo : Seq(Engine), left : Seq(Engine)]]
             /\ promise' \in [User -> {"none", "kept", "overlapped", "crowded"}]
  <2>1. call' \in [Caller -> {"none", "acquire", "release"}]
    BY <1>d DEF Postpone, Settle, Drop
  <2>2. flush' = flush \/ Sent(c[1], TRUE) \/ Sent(c[1], FALSE)
    BY <1>d DEF Postpone, Settle, Drop
  <2>3. flush' \in [User -> [on : BOOLEAN, todo : Seq(Engine), left : Seq(Engine)]]
    BY <2>2, <1>c, <1>f
  <2>4. queue' = queue \/ queue' = [queue EXCEPT ![c[1]] = Queued(queue[c[1]], This)]
    BY <1>d DEF Postpone, Settle, Drop
  <2>5. queue' \in [User -> Seq(Engine)]
    <3>1. Queued(queue[c[1]], This) \in Seq(Engine)
      BY <1>c, QueueFacts
    <3> QED
      BY <3>1, <2>4
  <2>6. promise' \in [User -> {"none", "kept", "overlapped", "crowded"}]
    BY <1>d DEF Postpone, Settle, Drop
  <2> QED
    BY <2>1, <2>3, <2>5, <2>6
<1>g. ASSUME NEW u \in User, NEW e \in Other, PostponeOther(u, e) PROVE TypeOK'
  <2>1. queue' \in [User -> Seq(Engine)]
    BY <1>g, QueueFacts DEF PostponeOther
  <2>2. budget' \in [calls : Nat, reads : Nat, others : Nat, faults : Nat]
    BY <1>g, BudgetFacts DEF PostponeOther
  <2>3. promise' \in [User -> {"none", "kept", "overlapped", "crowded"}]
    BY <1>g DEF PostponeOther
  <2> QED
    BY <1>g, <2>1, <2>2, <2>3 DEF PostponeOther
<1>h. ASSUME NEW u \in User, Flush(u) PROVE TypeOK'
  <2>1. [NoFlush EXCEPT !.on = TRUE, !.todo = queue[u]]
          \in [on : BOOLEAN, todo : Seq(Engine), left : Seq(Engine)]
    <3>1. <<>> \in Seq(Engine)
      OBVIOUS
    <3> QED
      BY <3>1 DEF NoFlush
  <2> QED
    BY <1>h, <2>1 DEF Flush
<1>i. ASSUME NEW u \in User, FlushOther(u) PROVE TypeOK'
  <2>1. flush' \in [User -> [on : BOOLEAN, todo : Seq(Engine), left : Seq(Engine)]]
    BY <1>i, <1>f DEF FlushOther
  <2> QED
    BY <1>i, <2>1 DEF FlushOther
<1>j. ASSUME NEW u \in User, FlushEnd(u) PROVE TypeOK'
  <2>1. NoFlush \in [on : BOOLEAN, todo : Seq(Engine), left : Seq(Engine)]
    <3>1. <<>> \in Seq(Engine)
      OBVIOUS
    <3> QED
      BY <3>1 DEF NoFlush
  <2> QED
    BY <1>j, <2>1 DEF FlushEnd
<1>4. ASSUME NEW s \in Slot, Answer(s) PROVE TypeOK'
  <2>1. request[s].for \in Caller
    BY <1>4, <1>b DEF Answer
  <2>2. Postpone(request[s].for) \/ Settle(request[s].for) \/ Drop(request[s].for)
    BY <1>4 DEF Answer, Finished
  <2>3. request' \in [Slot -> Request(ledger.seq)]
    BY <1>4, <1>a, RequestFacts DEF Answer
  <2> QED
    BY <1>4, <2>1, <2>2, <2>3, <1>d DEF Answer
<1>5. ASSUME NEW c \in Caller, GiveUp(c) PROVE TypeOK'
  <2>1. Postpone(c) \/ Settle(c) \/ Drop(c)
    BY <1>5 DEF GiveUp
  <2>2. \A s \in Slot : [request[s] EXCEPT !.for = None] \in Request(ledger.seq)
    BY <1>a, StepFacts
  <2>3. request' \in [Slot -> Request(ledger.seq)]
    BY <1>5, <1>a, <2>2, RequestFacts DEF GiveUp
  <2>4. budget' \in [calls : Nat, reads : Nat, others : Nat, faults : Nat]
    BY <1>5, BudgetFacts DEF GiveUp
  <2> QED
    BY <1>5, <2>1, <2>3, <2>4, <1>d DEF GiveUp
<1>k. ASSUME NEW s \in Slot, Decided(request[s])
      PROVE  promise' \in [User -> {"none", "kept", "overlapped", "crowded"}]
  BY <1>k DEF Decided
<1>l. ASSUME NEW s \in Slot, LookUp(s) PROVE TypeOK'
  <2>1. [request[s] EXCEPT !.at = "define"] \in Request(ledger.seq)
    BY <1>a, StepFacts
  <2> QED
    BY <1>l, <2>1 DEF LookUp
<1>m. ASSUME NEW s \in Slot, Define(s) PROVE TypeOK'
  <2>1. [request[s] EXCEPT !.at = "read"] \in Request(ledger.seq)
    BY <1>a, StepFacts
  <2>2. Reply(request[s], "error") \in Request(ledger.seq)
    BY <1>a, RequestFacts
  <2> QED
    BY <1>m, <2>1, <2>2 DEF Define
<1>6. ASSUME NEW s \in Slot, Decide(s) PROVE TypeOK'
  <2>1. /\ DecideAcquire(request[s]) \in Request(ledger.seq)
        /\ DecideRelease(request[s]) \in Request(ledger.seq)
    BY <1>a, DecisionFacts
  <2>2. request' \in [Slot -> Request(ledger.seq)]
    BY <1>6, <2>1 DEF Decide
  <2>3. promise' \in [User -> {"none", "kept", "overlapped", "crowded"}]
    BY <1>6, <1>k DEF Decide
  <2> QED
    BY <1>6, <2>2, <2>3 DEF Decide
<1>e. ASSUME NEW i, Outdate(i)
      PROVE  /\ cache' \in [Inst -> CacheEntry] /\ defs' \in [Inst -> CacheEntry]
             /\ gate' \in [inst : Inst \cup {None}, entry : CacheEntry, list : BOOLEAN, push : BOOLEAN]
  <2>1. \A e \in CacheEntry, b \in BOOLEAN : Outdated(e, b) \in CacheEntry
    BY <1>a, EntryFacts
  <2>2. \A j \in Inst : (i = j) \in BOOLEAN
    OBVIOUS
  <2>3. /\ cache' = [j \in Inst |-> Outdated(cache[j], i = j)]
        /\ defs' = [j \in Inst |-> Outdated(defs[j], i = j)]
    BY <1>e DEF Outdate
  <2>4. cache' \in [Inst -> CacheEntry] /\ defs' \in [Inst -> CacheEntry]
    BY <2>1, <2>2, <2>3
  <2>5. (i = gate.inst) \in BOOLEAN
    OBVIOUS
  <2>6. Outdated(gate.entry, i = gate.inst) \in CacheEntry
    BY <2>1, <2>5
  <2>7. gate' \in [inst : Inst \cup {None}, entry : CacheEntry, list : BOOLEAN, push : BOOLEAN]
    BY <1>e, <2>6 DEF Outdate
  <2> QED
    BY <2>4, <2>7
<1>7. ASSUME NEW s \in Slot, CompareAndSet(s) PROVE TypeOK'
  <2> DEFINE ts == Larger(now, request[s].seen + 1)
  <2>a. ts \in Nat
    BY <1>a, <1>b DEF Larger
  <2>b. /\ row' = [row EXCEPT !.value = request[s].next, !.updated = ts]
        /\ request' = [request EXCEPT ![s] =
             [request[s] EXCEPT !.at = "sign", !.ts = ts, !.seen = 0, !.attempt = 0]]
        /\ ledger' = ledger
    BY <1>7 DEF CompareAndSet
  <2> HIDE DEF ts
  <2>1. row' \in [value : Value, updated : Nat, seq : 0 .. ledger.seq]
    BY <2>a, <2>b, <1>b
  <2>2. request' \in [Slot -> Request(ledger.seq)]
    BY <2>a, <2>b, <1>a, StepFacts
  <2>3. granted' \in [User -> Nat]
    BY <1>7, <1>b DEF CompareAndSet, Value
  <2>4. /\ cache' \in [Inst -> CacheEntry] /\ defs' \in [Inst -> CacheEntry]
        /\ gate' \in [inst : Inst \cup {None}, entry : CacheEntry, list : BOOLEAN, push : BOOLEAN]
    BY <1>7, <1>e DEF CompareAndSet
  <2>5. promise' \in [User -> {"none", "kept", "overlapped", "crowded"}]
    BY <1>7, <1>k DEF CompareAndSet
  <2> QED
    BY <1>7, <2>1, <2>2, <2>3, <2>4, <2>5 DEF CompareAndSet
<1>8. ASSUME NEW s \in Slot, Raced(s) PROVE TypeOK'
  <2>1. Reply(request[s], "conflict") \in Request(ledger.seq)
    BY <1>a, RequestFacts
  <2>2. [request[s] EXCEPT !.at = "read", !.attempt = 1] \in Request(ledger.seq)
    BY <1>a, StepFacts
  <2> QED
    BY <1>8, <2>1, <2>2 DEF Raced
<1>9. ASSUME NEW s \in Slot, Sign(s) PROVE TypeOK'
  <2> DEFINE n == ledger.seq + 1
  <2>1. ledger' \in [seq : Nat, value : Value] /\ ledger'.seq = n
    BY <1>9, <1>a, <1>b DEF Sign
  <2>2. \A q \in Slot : request[q] \in Request(n)
    BY <1>a, RequestFacts
  <2>3. [request[s] EXCEPT !.at = "check", !.seq = n] \in Request(n)
    BY <1>a, StepFacts
  <2>4. request' = [request EXCEPT ![s] = [request[s] EXCEPT !.at = "check", !.seq = n]]
    BY <1>9 DEF Sign
  <2> HIDE DEF n
  <2>5. request' \in [Slot -> Request(n)]
    BY <2>2, <2>3, <2>4
  <2>6. row' \in [value : Value, updated : Nat, seq : 0 .. n]
    BY <1>9, <1>a DEF Sign, n
  <2> QED
    BY <1>9, <2>1, <2>5, <2>6 DEF Sign
<1>10. ASSUME NEW s \in Slot, CheckStale(s) PROVE TypeOK'
  <2>1. request' \in [Slot -> Request(ledger.seq)]
    <3>1. [request[s] EXCEPT !.at = "apply"] \in Request(ledger.seq)
      BY <1>a, StepFacts
    <3>2. Reply(request[s], "error") \in Request(ledger.seq)
      BY <1>a, RequestFacts
    <3> QED
      BY <1>10, <3>1, <3>2 DEF CheckStale
  <2>2. cache' \in [Inst -> CacheEntry]
    <3>1. \A e \in CacheEntry, b \in BOOLEAN : [e EXCEPT !.excused = b] \in CacheEntry
      BY DEF CacheEntry
    <3>2. \A i \in Inst : cache[i].excused \in BOOLEAN /\ cache[i].own \in BOOLEAN
      BY DEF CacheEntry
    <3> DEFINE i == request[s].inst
               b == cache[i].excused \/ cache[i].own
    <3>3. i \in Inst => [cache[i] EXCEPT !.excused = b] \in CacheEntry
      <4>1. b \in BOOLEAN
        OBVIOUS
      <4> HIDE DEF b
      <4> QED
        BY <4>1, <3>1
    <3>4. cache' = cache \/ cache' = [cache EXCEPT ![i].excused = b]
      BY <1>10, Zenon DEF CheckStale
    <3> HIDE DEF i, b
    <3> QED
      BY <3>3, <3>4
  <2> QED
    BY <1>10, <2>1, <2>2 DEF CheckStale
<1>11. ASSUME NEW s \in Slot, Apply(s) PROVE TypeOK'
  <2>1. row' \in [value : Value, updated : Nat, seq : 0 .. ledger.seq]
    BY <1>11, <1>b DEF Apply
  <2>2. [NoRequest EXCEPT !.at = "finish", !.inst = request[s].inst, !.for = request[s].for]
          \in Request(ledger.seq)
    <3> DEFINE q == NoRequest
    <3>1. q \in Request(ledger.seq)
      BY <1>a, RequestFacts
    <3> HIDE DEF q
    <3>2. [q EXCEPT !.at = "finish", !.inst = request[s].inst, !.for = request[s].for]
            \in Request(ledger.seq)
      BY <3>1, <1>b DEF Request, RequestStep
    <3> QED
      BY <3>2 DEF q
  <2>3. request' \in [Slot -> Request(ledger.seq)]
    BY <1>11, <2>2 DEF Apply
  <2>4. /\ cache' \in [Inst -> CacheEntry] /\ defs' \in [Inst -> CacheEntry]
        /\ gate' \in [inst : Inst \cup {None}, entry : CacheEntry, list : BOOLEAN, push : BOOLEAN]
    BY <1>11, <1>e DEF Apply
  <2>5. overwritten' \in BOOLEAN /\ apart' \in BOOLEAN
    BY <1>11 DEF Apply
  <2> QED
    BY <1>11, <2>1, <2>3, <2>4, <2>5 DEF Apply
<1>12. ASSUME NEW s \in Slot, Finish(s) PROVE TypeOK'
  <2>1. Reply(request[s], "ok") \in Request(ledger.seq)
    BY <1>a, RequestFacts
  <2> QED
    BY <1>12, <2>1, EntryFacts DEF Finish
<1>13. ASSUME NEW i \in Inst, Restart(i) PROVE TypeOK'
  <2>1. request' \in [Slot -> Request(ledger.seq)]
    BY <1>13, <1>a, RequestFacts DEF Restart
  <2>2. /\ cache' \in [Inst -> CacheEntry] /\ defs' \in [Inst -> CacheEntry]
        /\ gate' \in [inst : Inst \cup {None}, entry : CacheEntry, list : BOOLEAN, push : BOOLEAN]
    BY <1>13, EntryFacts DEF Restart
  <2>3. /\ budget' \in [calls : Nat, reads : Nat, others : Nat, faults : Nat]
        /\ apart' \in BOOLEAN
    BY <1>13, BudgetFacts DEF Restart
  <2> QED
    BY <1>13, <2>1, <2>2, <2>3 DEF Restart
<1>14. ASSUME NEW i \in Gated, GateRead(i) PROVE TypeOK'
  <2>1. [NoEntry EXCEPT !.at = now, !.value = row.value] \in CacheEntry
    BY <1>a DEF NoEntry, CacheEntry
  <2>2. gate' \in [inst : Inst \cup {None}, entry : CacheEntry, list : BOOLEAN, push : BOOLEAN]
    BY <1>14, <2>1, ReservationAssumption DEF GateRead
  <2>3. budget' \in [calls : Nat, reads : Nat, others : Nat, faults : Nat]
    BY <1>14, BudgetFacts DEF GateRead
  <2> QED
    BY <1>14, <2>2, <2>3 DEF GateRead
<1>n. ASSUME NEW i \in Gated, NEW push \in BOOLEAN, GateList(i, push) PROVE TypeOK'
  <2>1. [NoEntry EXCEPT !.at = now] \in CacheEntry
    BY <1>a, EntryFacts DEF NoEntry, CacheEntry
  <2>2. gate' \in [inst : Inst \cup {None}, entry : CacheEntry, list : BOOLEAN, push : BOOLEAN]
    BY <1>n, <2>1, ReservationAssumption DEF GateList
  <2>3. budget' \in [calls : Nat, reads : Nat, others : Nat, faults : Nat]
    BY <1>n, BudgetFacts DEF GateList
  <2> QED
    BY <1>n, <2>2, <2>3 DEF GateList
<1>o. ASSUME NEW i \in Gated, GateBlind(i) PROVE TypeOK'
  <2>1. i \in Inst
    BY ReservationAssumption
  <2>2. [defs[i] EXCEPT !.at = now, !.excused = defs[i].own, !.blind = TRUE] \in CacheEntry
    <3>1. \A e \in CacheEntry : [e EXCEPT !.at = now, !.excused = e.own, !.blind = TRUE] \in CacheEntry
      <4> HIDE DEF TypeOK
      <4> QED
        BY <1>a DEF CacheEntry
    <3> QED
      BY <2>1, <3>1
  <2>3. cache' \in [Inst -> CacheEntry]
    BY <1>o, <2>2 DEF GateBlind
  <2>4. budget' \in [calls : Nat, reads : Nat, others : Nat, faults : Nat]
    BY <1>o, BudgetFacts DEF GateBlind
  <2> QED
    BY <1>o, <2>3, <2>4 DEF GateBlind
<1>15. CASE GateFill
  <2>1. [gate.entry EXCEPT !.excused = gate.entry.own] \in CacheEntry
    BY DEF CacheEntry
  <2>2. cache' \in [Inst -> CacheEntry]
    BY <1>15, <1>a, <2>1, EntryFacts DEF GateFill
  <2>3. defs' \in [Inst -> CacheEntry]
    BY <1>15, <1>a, EntryFacts DEF GateFill
  <2> QED
    BY <1>15, <2>2, <2>3, EntryFacts DEF GateFill
<1>16. CASE Tick
  <2>1. now' \in 1 .. MaxTime /\ now' \in Nat
    BY <1>16, ReservationAssumption DEF Tick
  <2>2. cache' \in [Inst -> CacheEntry] /\ defs' \in [Inst -> CacheEntry]
    BY <1>16, <2>1, EntryFacts DEF Tick
  <2> QED
    BY <1>16, <2>1, <2>2 DEF Tick
<1>17. CASE UNCHANGED vars
  BY <1>17 DEF vars
<1> HIDE DEF TypeOK, server, caches, queues
<1> QED
  BY <1>2, <1>3, <1>4, <1>5, <1>6, <1>7, <1>8, <1>9, <1>10, <1>11, <1>12, <1>13, <1>14, <1>15,
     <1>16, <1>17, <1>g, <1>h, <1>i, <1>j, <1>l, <1>m, <1>n, <1>o DEF Next

\* The row, the ledger entry, the requests, the caches and the queues keep
\* their types whatever is asked, answered, lost or stopped, and no change
\* carries a seq the ledger has not given.
THEOREM TypeCorrect == Spec => []TypeOK
<1> QED
  BY TypeInit, TypeStep, PTL DEF Spec

-----------------------------------------------------------------------------
(* A reservation that was given stands.                                    *)

\* What is about to be written follows from the row as it is, if the write is
\* going to find it: the row is the one the decision saw.
Grounded(r) ==
  r.at = "write" =>
    /\ r.seen <= row.updated
    /\ r.seen = row.updated =>
         IF r.op = "acquire"
         THEN /\ r.next.holder = r.user /\ ~r.next.released
              /\ IsLive(row.value) => row.value.holder = r.user
         ELSE r.next.holder = row.value.holder /\ r.next.released

GrantInv == GrantStands /\ (overwritten \/ \A s \in Slot : Grounded(request[s]))

\* A step that leaves the value and the time of the row alone and starts no
\* write keeps the invariant; time only ends what is live.
LEMMA GrantKept ==
  ASSUME TypeOK, TypeOK', GrantInv,
         row'.value = row.value, row'.updated = row.updated, granted' = granted,
         overwritten => overwritten', now' >= now,
         overwritten' \/ \A s \in Slot : request'[s].at = "write" =>
           /\ request[s].at = "write" /\ request'[s].seen = request[s].seen
           /\ request'[s].op = request[s].op /\ request'[s].user = request[s].user
           /\ request'[s].next = request[s].next
  PROVE  GrantInv'
<1>1. /\ now \in Nat /\ now' \in Nat /\ row.value \in Value
      /\ \A u \in User : granted[u] \in Nat
  BY DEF TypeOK
<1>2. IsLive(row.value)' => IsLive(row.value)
  BY <1>1 DEF IsLive, Value
<1>3. GrantStands'
  BY <1>1 DEF GrantInv, GrantStands
<1>4. ASSUME NEW s \in Slot, ~overwritten' PROVE Grounded(request[s])'
  BY <1>2, <1>4 DEF GrantInv, Grounded
<1> QED
  BY <1>3, <1>4 DEF GrantInv

LEMMA GrantInit == Init => GrantInv
<1> SUFFICES ASSUME Init PROVE GrantInv
  OBVIOUS
<1>1. PICK lock \in Locks :
        /\ row = [value |-> lock, updated |-> IF lock.holder = None THEN 0 ELSE 1, seq |-> 0]
        /\ granted = [u \in User |-> IF u = lock.holder /\ ~lock.released THEN lock.expires ELSE 0]
  BY DEF Init
<1>2. lock \in [holder : User \cup {None}, expires : Nat, released : BOOLEAN] /\ now = 1
  BY ReservationAssumption DEF Init
<1>3. ASSUME NEW u \in User, granted[u] > now
      PROVE  row.value = [holder |-> u, expires |-> granted[u], released |-> FALSE]
  BY <1>1, <1>2, <1>3
<1>4. \A s \in Slot : Grounded(request[s])
  BY DEF Init, NoRequest, Grounded
<1> QED
  BY <1>3, <1>4 DEF GrantInv, GrantStands

LEMMA GrantStep == TypeOK /\ TypeOK' /\ GrantInv /\ [Next]_vars => GrantInv'
<1> SUFFICES ASSUME TypeOK, TypeOK', GrantInv, [Next]_vars PROVE GrantInv'
  OBVIOUS
<1> USE DEF server, caches, queues
<1>a. /\ now \in Nat /\ row.value \in Value /\ row.updated \in Nat
      /\ \A s \in Slot : request[s] \in Request(ledger.seq)
      /\ \A u \in User : granted[u] \in Nat
  BY DEF TypeOK
<1>b. \A s \in Slot : /\ request[s].next \in Value /\ request[s].seen \in Nat
                      /\ \A a : Reply(request[s], a).at \in {"free", "answer"}
  BY <1>a DEF Request, Reply, NoRequest
<1>c. DOMAIN request = Slot
  BY DEF TypeOK
<1>1. ASSUME NEW u \in User, FlushThis(u) \/ \E op \in {"acquire", "release"} : Ask(u, op)
      PROVE  GrantInv'
  <2>1. PICK c, op : Send(c, op)
    BY <1>1 DEF FlushThis, Ask
  <2>2. \A s \in Slot : request'[s].at = "write" => request'[s] = request[s]
    BY <2>1, <1>c DEF Send, NoRequest
  <2> QED
    BY <2>1, <2>2, <1>a, GrantKept DEF Send
<1>2. ASSUME NEW s \in Slot, Answer(s) PROVE GrantInv'
  <2>1. \A q \in Slot : request'[q].at = "write" => request'[q] = request[q]
    BY <1>2, <1>c DEF Answer, NoRequest
  <2> QED
    BY <1>2, <2>1, <1>a, GrantKept DEF Answer
<1>3. ASSUME NEW c \in Caller, GiveUp(c) PROVE GrantInv'
  <2>1. \A q \in Slot : request'[q].at = "write" =>
          request'[q] = request[q] \/ request'[q] = [request[q] EXCEPT !.for = None]
    BY <1>3 DEF GiveUp, NoRequest
  <2>2. \A q \in Slot : LET r == [request[q] EXCEPT !.for = None] IN
          /\ r.at = request[q].at /\ r.seen = request[q].seen /\ r.op = request[q].op
          /\ r.user = request[q].user /\ r.next = request[q].next
    BY <1>a DEF Request
  <2>3. \A q \in Slot : request'[q].at = "write" =>
          /\ request[q].at = "write" /\ request'[q].seen = request[q].seen
          /\ request'[q].op = request[q].op /\ request'[q].user = request[q].user
          /\ request'[q].next = request[q].next
    BY <2>1, <2>2
  <2>4. UNCHANGED <<now, row, granted, overwritten>>
    BY <1>3 DEF GiveUp, Drop, Postpone
  <2> QED
    BY <2>3, <2>4, <1>a, GrantKept
<1>d. ASSUME NEW s \in Slot, LookUp(s) \/ Define(s) PROVE GrantInv'
  <2>1. /\ [request[s] EXCEPT !.at = "define"].at = "define"
        /\ [request[s] EXCEPT !.at = "read"].at = "read"
    BY <1>a DEF Request
  <2>2. \A q \in Slot : request'[q].at = "write" => request'[q] = request[q]
    BY <1>d, <2>1, <1>b, <1>c DEF LookUp, Define
  <2>3. UNCHANGED <<now, row, granted, overwritten>>
    BY <1>d DEF LookUp, Define
  <2> QED
    BY <2>2, <2>3, <1>a, GrantKept
<1>4. ASSUME NEW s \in Slot, Decide(s) PROVE GrantInv'
  <2>1. UNCHANGED <<now, row, granted, overwritten>> /\ GrantStands'
    BY <1>4 DEF Decide, GrantInv, GrantStands
  <2>2. \A q \in Slot \ {s} : request'[q] = request[q]
    BY <1>4, <1>c DEF Decide
  <2> DEFINE r == request[s]
  <2>3. \A v \in Value : LET w == Write(r, v) IN
          w.at = "write" /\ w.seen = row.updated /\ w.op = r.op /\ w.user = r.user /\ w.next = v
    BY <1>a DEF Write, Request
  <2>4. CASE r.op = "acquire"
    <3> DEFINE v == [holder |-> r.user, expires |-> now + TTL, released |-> FALSE]
    <3>1. v \in Value
      BY <1>a, ReservationAssumption DEF Value, Request
    <3>2. request'[s] = DecideAcquire(r)
      BY <1>4, <2>4, <1>c DEF Decide
    <3>3. ASSUME request'[s].at # "write" PROVE Grounded(request[s])'
      BY <3>3 DEF Grounded
    <3>4. ASSUME request'[s].at = "write" PROVE Grounded(request[s])'
      <4>1. request'[s] = Write(r, v) /\ (IsLive(row.value) => row.value.holder = r.user)
        BY <3>2, <3>4, <1>b DEF DecideAcquire
      <4>2. IsLive(row.value)' <=> IsLive(row.value)
        BY <2>1 DEF IsLive
      <4> QED
        BY <4>1, <4>2, <3>1, <2>1, <2>3, <2>4, <1>a DEF Grounded
    <3>5. Grounded(request[s])'
      BY <3>3, <3>4
    <3> QED
      BY <3>5, <2>1, <2>2 DEF GrantInv, Grounded, IsLive
  <2>5. CASE r.op # "acquire"
    <3> DEFINE v == [row.value EXCEPT !.released = TRUE]
    <3>1. v \in Value /\ v.holder = row.value.holder /\ v.released
      BY <1>a DEF Value
    <3>2. request'[s] = DecideRelease(r)
      BY <1>4, <2>5, <1>c DEF Decide
    <3>3. request'[s].at # "write" \/ request'[s] = Write(r, v)
      BY <3>2, <1>b DEF DecideRelease
    <3> HIDE DEF v
    <3>4. Grounded(request[s])'
      BY <3>1, <3>3, <2>1, <2>3, <2>5, <1>a DEF Grounded
    <3> QED
      BY <3>4, <2>1, <2>2 DEF GrantInv, Grounded, IsLive
  <2> QED
    BY <2>4, <2>5
<1>5. ASSUME NEW s \in Slot, CompareAndSet(s) PROVE GrantInv'
  <2> DEFINE r == request[s]
             ts == Larger(now, r.seen + 1)
  <2>1. CASE overwritten
    BY <1>5, <2>1 DEF CompareAndSet, GrantInv, GrantStands
  <2>2. CASE ~overwritten
    <3>1. /\ r.at = "write" /\ r.seen = row.updated /\ Grounded(r)
          /\ UNCHANGED <<now, overwritten>>
      BY <1>5, <2>2 DEF CompareAndSet, GrantInv
    <3>2. /\ row'.value = r.next /\ row'.updated = ts
          /\ \A q \in Slot \ {s} : request'[q] = request[q]
          /\ request'[s].at = "sign"
      BY <1>5, <1>a, <1>c DEF CompareAndSet, TypeOK, Request
    <3>3. row.updated < ts /\ ts \in Nat
      BY <3>1, <1>a, <1>b DEF Larger
    <3>4. granted' = [granted EXCEPT ![r.next.holder] = IF r.next.released THEN 0 ELSE r.next.expires]
      BY <1>5 DEF CompareAndSet
    <3> HIDE DEF ts
    <3>5. \A q \in Slot : Grounded(request[q])'
      <4>1. ASSUME NEW q \in Slot, q # s PROVE Grounded(request[q])'
        BY <4>1, <3>2, <3>3, <2>2, <1>a, <1>b DEF GrantInv, Grounded
      <4>2. Grounded(request[s])'
        BY <3>2 DEF Grounded
      <4> QED
        BY <4>1, <4>2
    <3>6. ASSUME NEW u \in User, granted'[u] > now'
          PROVE  row'.value = [holder |-> u, expires |-> granted'[u], released |-> FALSE]
      <4>1. CASE u = r.next.holder
        <5>1. granted'[u] = IF r.next.released THEN 0 ELSE r.next.expires
          BY <4>1, <3>4 DEF TypeOK
        <5>2. ~r.next.released /\ r.next \in Value
          BY <5>1, <3>1, <3>6, <1>a, <1>b
        <5> QED
          BY <5>1, <5>2, <4>1, <3>2 DEF Value
      <4>2. CASE u # r.next.holder
        <5>1. granted[u] > now
          BY <4>2, <3>1, <3>4, <3>6 DEF TypeOK
        <5>2. row.value = [holder |-> u, expires |-> granted[u], released |-> FALSE]
          BY <5>1, <2>2 DEF GrantInv, GrantStands
        <5>3. IsLive(row.value) /\ row.value.holder = u
          BY <5>1, <5>2, ReservationAssumption DEF IsLive
        <5> QED
          BY <5>3, <3>1, <4>2 DEF Grounded
      <4> QED
        BY <4>1, <4>2
    <3> QED
      BY <3>5, <3>6 DEF GrantInv, GrantStands
  <2> QED
    BY <2>1, <2>2
<1>6. ASSUME NEW s \in Slot, Raced(s) PROVE GrantInv'
  <2>1. [request[s] EXCEPT !.at = "read", !.attempt = 1].at = "read"
    BY <1>a DEF Request
  <2>2. \A q \in Slot : request'[q].at = "write" => request'[q] = request[q]
    BY <1>6, <2>1, <1>b, <1>c DEF Raced
  <2> QED
    BY <1>6, <2>2, <1>a, GrantKept DEF Raced
<1>7. ASSUME NEW s \in Slot, Sign(s) PROVE GrantInv'
  <2>1. \A n : [request[s] EXCEPT !.at = "check", !.seq = n].at = "check"
    BY <1>a DEF Request
  <2>2. \A q \in Slot : request'[q].at = "write" => request'[q] = request[q]
    BY <1>7, <2>1, <1>c DEF Sign
  <2>3. UNCHANGED <<now, row, granted, overwritten>>
    BY <1>7 DEF Sign
  <2> QED
    BY <2>2, <2>3, <1>a, GrantKept
<1>8. ASSUME NEW s \in Slot, CheckStale(s) PROVE GrantInv'
  <2>1. [request[s] EXCEPT !.at = "apply"].at = "apply"
    BY <1>a DEF Request
  <2>2. \A q \in Slot : request'[q].at = "write" => request'[q] = request[q]
    BY <1>8, <2>1, <1>b, <1>c DEF CheckStale
  <2> QED
    BY <1>8, <2>2, <1>a, GrantKept DEF CheckStale
<1>9. ASSUME NEW s \in Slot, Apply(s) PROVE GrantInv'
  <2>1. \A q \in Slot : request'[q].at = "write" => request'[q] = request[q]
    BY <1>9, <1>c DEF Apply, NoRequest
  <2>2. CASE overwritten'
    BY <1>9, <2>2 DEF Apply, GrantInv, GrantStands
  <2>3. CASE ~overwritten'
    <3>1. /\ row'.value = row.value /\ row'.updated = row.updated /\ ~overwritten
          /\ UNCHANGED <<now, granted>>
      BY <1>9, <2>3 DEF Apply
    <3> QED
      BY <3>1, <2>1, <1>a, GrantKept
  <2> QED
    BY <2>2, <2>3
<1>10. ASSUME NEW s \in Slot, Finish(s) PROVE GrantInv'
  <2>1. \A q \in Slot : request'[q].at = "write" => request'[q] = request[q]
    BY <1>10, <1>b, <1>c DEF Finish
  <2> QED
    BY <1>10, <2>1, <1>a, GrantKept DEF Finish
<1>11. ASSUME NEW i \in Inst, Restart(i) PROVE GrantInv'
  <2>1. \A q \in Slot : request'[q].at = "write" => request'[q] = request[q]
    BY <1>11 DEF Restart, NoRequest
  <2> QED
    BY <1>11, <2>1, <1>a, GrantKept DEF Restart
<1>12. CASE \/ GateFill \/ Tick \/ UNCHANGED vars
            \/ \E i \in Gated : GateBlind(i) \/ GateRead(i) \/ \E push \in BOOLEAN : GateList(i, push)
            \/ \E u \in User : Flush(u) \/ FlushOther(u) \/ FlushEnd(u) \/ \E e \in Other : PostponeOther(u, e)
  <2>1. UNCHANGED <<row, granted, overwritten, request>> /\ (now' = now \/ now' = now + 1)
    <3>1. CASE GateFill \/ Tick \/ UNCHANGED vars
      BY <3>1 DEF GateFill, Tick, vars
    <3>2. CASE \E i \in Gated : GateBlind(i) \/ GateRead(i) \/ \E push \in BOOLEAN : GateList(i, push)
      BY <3>2 DEF GateBlind, GateRead, GateList
    <3>3. CASE \E u \in User : Flush(u) \/ FlushOther(u) \/ FlushEnd(u)
      BY <3>3 DEF Flush, FlushOther, FlushEnd
    <3>4. CASE \E u \in User, e \in Other : PostponeOther(u, e)
      BY <3>4 DEF PostponeOther
    <3> QED
      BY <1>12, <3>1, <3>2, <3>3, <3>4
  <2> QED
    BY <2>1, <1>a, GrantKept
<1> QED
  BY <1>1, <1>2, <1>3, <1>4, <1>5, <1>6, <1>7, <1>8, <1>9, <1>10, <1>11, <1>12, <1>d DEF Next

\* Nobody else is given an engine while a reservation of it is in force, for
\* any number of users, instances, retries and restarts, unless the projection
\* of an earlier change was written over a later one.
THEOREM GrantsStand == Spec => []GrantStands
<1>1. Init => TypeOK /\ GrantInv
  BY TypeInit, GrantInit
<1>2. TypeOK /\ GrantInv /\ [Next]_vars => (TypeOK /\ GrantInv)'
  BY TypeStep, GrantStep
<1>3. GrantInv => GrantStands
  BY DEF GrantInv
<1> QED
  BY <1>1, <1>2, <1>3, PTL DEF Spec

-----------------------------------------------------------------------------
(* The gate is wrong for a bounded time.                                   *)

\* An entry was read before it went out of date, and both in the past; or was
\* taken from a list that was, and was still in time.
Dated(e) ==
  /\ e.at <= now
  /\ e.outdated # 0 => /\ e.outdated <= now
                       /\ e.at <= IF e.blind THEN e.outdated + CacheTTL ELSE e.outdated

Current(e) == e = NoEntry \/ now - e.at < CacheTTL

GateInv ==
  /\ Dated(gate.entry) /\ ~gate.entry.blind
  /\ \A i \in Inst :
       /\ Dated(cache[i]) /\ Current(cache[i])
       /\ Dated(defs[i]) /\ Current(defs[i]) /\ ~defs[i].blind
       /\ cache[i].own => Recording(i) # {} \/ cache[i].excused

LEMMA GateImplied == TypeOK /\ GateInv => GateFresh
<1> SUFFICES ASSUME TypeOK, GateInv, NEW i \in Inst, cache[i].outdated # 0
             PROVE  /\ now - cache[i].outdated < IF cache[i].blind THEN 2 * CacheTTL ELSE CacheTTL
                    /\ cache[i].own => Recording(i) # {} \/ cache[i].excused
  BY DEF GateFresh
<1>0. cache[i] \in CacheEntry /\ now \in Nat
  BY DEF TypeOK
<1>1. cache[i].at \in Nat /\ cache[i].outdated \in Nat /\ now \in Nat /\ CacheTTL \in Nat
  BY <1>0, ReservationAssumption DEF CacheEntry
<1>2. cache[i] # NoEntry
  BY DEF NoEntry
<1> QED
  BY <1>1, <1>2 DEF GateInv, Dated, Current

\* A request that is recording goes on doing so.
StillRecording(s) ==
  request[s].at \in {"sign", "check", "apply", "finish"} =>
    request'[s].at \in {"sign", "check", "apply", "finish"} /\ request'[s].inst = request[s].inst

LEMMA GateKept ==
  ASSUME GateInv, UNCHANGED <<now, cache, defs, gate>>, \A s \in Slot : StillRecording(s)
  PROVE  GateInv'
<1>1. \A i \in Inst : Recording(i) # {} => Recording(i)' # {}
  BY DEF Recording, StillRecording
<1> QED
  BY <1>1 DEF GateInv, Dated, Current

LEMMA GateOutdated ==
  ASSUME TypeOK, GateInv, now' = now, NEW s \in Slot, Outdate(request[s].inst),
         \A q \in Slot : StillRecording(q),
         request'[s].at \in {"sign", "finish"}, request'[s].inst = request[s].inst
  PROVE  GateInv'
<1>1. /\ now \in Nat /\ now # 0 /\ gate.entry \in CacheEntry /\ CacheTTL \in Nat
      /\ \A i \in Inst : cache[i] \in CacheEntry /\ defs[i] \in CacheEntry
  BY ReservationAssumption DEF TypeOK
<1>2. \A i \in Inst : Recording(i) # {} => Recording(i)' # {}
  BY DEF Recording, StillRecording
<1>3. \A e \in CacheEntry, b \in BOOLEAN :
        /\ Dated(e) => Dated(Outdated(e, b))
        /\ Current(e) => Current(Outdated(e, b))
        /\ e = NoEntry => Outdated(e, b) = NoEntry
        /\ Outdated(e, b).at = e.at /\ Outdated(e, b).excused = e.excused
        /\ Outdated(e, b).blind = e.blind
        /\ ~b => Outdated(e, b).own = e.own
  BY <1>1 DEF Dated, Current, Outdated, CacheEntry
<1>4. (Dated(gate.entry) /\ ~gate.entry.blind)'
  <2>1. gate' = gate \/ gate'.entry = Outdated(gate.entry, request[s].inst = gate.inst)
    BY DEF Outdate, TypeOK
  <2>2. (request[s].inst = gate.inst) \in BOOLEAN
    OBVIOUS
  <2>3. CASE gate' = gate
    BY <2>3 DEF GateInv, Dated
  <2>4. CASE gate'.entry = Outdated(gate.entry, request[s].inst = gate.inst)
    <3> DEFINE e == gate'.entry
               b == (request[s].inst = gate.inst)
    <3>1. Dated(gate.entry) /\ ~gate.entry.blind /\ gate.entry \in CacheEntry
      BY <1>1 DEF GateInv
    <3>2. b \in BOOLEAN /\ e = Outdated(gate.entry, b)
      BY <2>4
    <3> HIDE DEF b
    <3>3. Dated(e) /\ ~e.blind
      BY <1>3, <3>1, <3>2
    <3> QED
      BY <3>3 DEF Dated
  <2> QED
    BY <2>1, <2>3, <2>4
<1>5. ASSUME NEW i \in Inst
      PROVE  (/\ Dated(cache[i]) /\ Current(cache[i])
              /\ Dated(defs[i]) /\ Current(defs[i]) /\ ~defs[i].blind
              /\ cache[i].own => Recording(i) # {} \/ cache[i].excused)'
  <2> DEFINE b == (request[s].inst = i)
  <2>1. b \in BOOLEAN /\ cache'[i] = Outdated(cache[i], b) /\ defs'[i] = Outdated(defs[i], b)
    BY DEF Outdate
  <2>2. b => Recording(i)' # {}
    BY DEF Recording
  <2> HIDE DEF b
  <2>3. cache[i] \in CacheEntry /\ defs[i] \in CacheEntry
    BY <1>1
  <2>4. (Dated(cache[i]) /\ Current(cache[i]))'
    BY <1>3, <2>1, <2>3 DEF GateInv, Dated, Current
  <2>5. (Dated(defs[i]) /\ Current(defs[i]) /\ ~defs[i].blind)'
    BY <1>3, <2>1, <2>3 DEF GateInv, Dated, Current
  <2>6. (cache[i].own => Recording(i) # {} \/ cache[i].excused)'
    BY <1>2, <1>3, <2>1, <2>2, <2>3 DEF GateInv
  <2> QED
    BY <2>4, <2>5, <2>6
<1> QED
  BY <1>4, <1>5 DEF GateInv

LEMMA GateInit == Init => GateInv
BY DEF Init, GateInv, Dated, Current, NoGate, NoEntry

LEMMA GateStep == TypeOK /\ TypeOK' /\ GateInv /\ [Next]_vars => GateInv'
<1> SUFFICES ASSUME TypeOK, TypeOK', GateInv, [Next]_vars PROVE GateInv'
  OBVIOUS
<1>a. /\ now \in Nat /\ CacheTTL \in Nat \ {0} /\ gate.entry \in CacheEntry
      /\ \A i \in Inst : cache[i] \in CacheEntry /\ defs[i] \in CacheEntry
      /\ \A s \in Slot : request[s] \in Request(ledger.seq)
  <2>1. now \in Nat /\ gate.entry \in CacheEntry
    BY DEF TypeOK
  <2>2. CacheTTL \in Nat \ {0}
    BY ReservationAssumption
  <2>3. /\ \A i \in Inst : cache[i] \in CacheEntry /\ defs[i] \in CacheEntry
        /\ \A s \in Slot : request[s] \in Request(ledger.seq)
    BY DEF TypeOK
  <2> QED
    BY <2>1, <2>2, <2>3
<1> USE DEF caches
<1>b. DOMAIN request = Slot
  BY DEF TypeOK
<1>1. ASSUME NEW u \in User, FlushThis(u) \/ \E op \in {"acquire", "release"} : Ask(u, op)
      PROVE  GateInv'
  <2>1. PICK c, op : Send(c, op)
    BY <1>1 DEF FlushThis, Ask
  <2>2. \A s \in Slot : StillRecording(s)
    BY <2>1, <1>b DEF Send, NoRequest, StillRecording
  <2> QED
    BY <2>1, <2>2, GateKept DEF Send
<1>2. ASSUME NEW s \in Slot, Answer(s) PROVE GateInv'
  <2>1. \A q \in Slot : StillRecording(q)
    BY <1>2, <1>b DEF Answer, StillRecording
  <2> QED
    BY <1>2, <2>1, GateKept DEF Answer
<1>3. ASSUME NEW c \in Caller, GiveUp(c) PROVE GateInv'
  <2>1. \A q \in Slot : LET r == [request[q] EXCEPT !.for = None] IN
          r.at = request[q].at /\ r.inst = request[q].inst
    BY <1>a DEF Request
  <2>2. \A q \in Slot : StillRecording(q)
    BY <1>3, <2>1 DEF GiveUp, StillRecording
  <2> QED
    BY <1>3, <2>2, GateKept DEF GiveUp
<1>4. ASSUME NEW s \in Slot, LookUp(s) \/ Define(s) \/ Decide(s) \/ Raced(s) PROVE GateInv'
  <2>1. \A q \in Slot : StillRecording(q)
    BY <1>4, <1>b DEF LookUp, Define, Decide, Raced, StillRecording
  <2>2. UNCHANGED <<now, caches>>
    BY <1>4 DEF LookUp, Define, Decide, Raced
  <2> QED
    BY <2>1, <2>2, GateKept
<1>5. ASSUME NEW s \in Slot, CompareAndSet(s) PROVE GateInv'
  <2>1. request'[s].at = "sign" /\ request'[s].inst = request[s].inst
    BY <1>5, <1>a, <1>b DEF CompareAndSet, Request
  <2>2. \A q \in Slot : StillRecording(q)
    BY <1>5, <1>b DEF CompareAndSet, StillRecording
  <2> QED
    BY <1>5, <2>1, <2>2, GateOutdated DEF CompareAndSet
<1>6. ASSUME NEW s \in Slot, Sign(s) PROVE GateInv'
  <2>1. \A n : LET r == [request[s] EXCEPT !.at = "check", !.seq = n] IN
          r.at = "check" /\ r.inst = request[s].inst
    BY <1>a DEF Request
  <2>2. \A q \in Slot : StillRecording(q)
    BY <1>6, <2>1, <1>b DEF Sign, StillRecording
  <2> QED
    BY <1>6, <2>2, GateKept DEF Sign
<1>7. ASSUME NEW s \in Slot, CheckStale(s) PROVE GateInv'
  <2>1. CASE cache' = cache /\ request' = [request EXCEPT ![s].at = "apply"]
    <3>1. LET r == [request[s] EXCEPT !.at = "apply"] IN r.at = "apply" /\ r.inst = request[s].inst
      BY <1>a DEF Request
    <3>2. \A q \in Slot : StillRecording(q)
      BY <2>1, <3>1, <1>b DEF StillRecording
    <3> QED
      BY <1>7, <2>1, <3>2, GateKept DEF CheckStale
  <2> DEFINE i == request[s].inst
             b == cache[i].excused \/ cache[i].own
  <2>2. CASE /\ cache' = [cache EXCEPT ![i].excused = b]
             /\ \A q \in Slot \ {s} : request'[q] = request[q]
    <3>1. b \in BOOLEAN /\ (i \in Inst => b = (cache[i].excused \/ cache[i].own))
      OBVIOUS
    <3>2. \A j \in Inst : j # i => (Recording(j) # {} => Recording(j)' # {})
      BY <2>2 DEF Recording
    <3>3. \A j \in Inst : j # i => cache'[j] = cache[j]
      BY <2>2 DEF TypeOK
    <3>4. i \in Inst => /\ cache'[i].at = cache[i].at /\ cache'[i].outdated = cache[i].outdated
                        /\ cache'[i].own = cache[i].own /\ cache'[i].excused = b
                        /\ cache'[i].blind = cache[i].blind
      <4>1. i \in Inst => cache'[i] = [cache[i] EXCEPT !.excused = b]
        BY <2>2 DEF TypeOK
      <4> HIDE DEF b, i
      <4> QED
        BY <4>1, <1>a DEF CacheEntry
    <3>5. i \in Inst /\ cache[i] = NoEntry => ~b
      BY DEF NoEntry
    <3>6. i \in Inst /\ cache[i] = NoEntry => cache'[i] = NoEntry
      <4>1. \A e \in CacheEntry : ~e.excused => [e EXCEPT !.excused = FALSE] = e
        BY DEF CacheEntry
      <4>2. i \in Inst /\ cache[i] = NoEntry => cache[i] \in CacheEntry /\ ~cache[i].excused /\ b = FALSE
        BY <3>1, <3>5, <1>a DEF NoEntry
      <4>3. i \in Inst => cache'[i] = [cache[i] EXCEPT !.excused = b]
        BY <2>2 DEF TypeOK
      <4> HIDE DEF b, i
      <4> QED
        BY <4>1, <4>2, <4>3
    <3>7. UNCHANGED <<now, defs, gate>>
      BY <1>7 DEF CheckStale
    <3>8. i \in Inst /\ cache[i].own => b
      OBVIOUS
    <3> HIDE DEF b, i
    <3> QED
      BY <3>1, <3>2, <3>3, <3>4, <3>6, <3>7, <3>8 DEF GateInv, Dated, Current
  <2> QED
    <3>1. \/ cache' = cache /\ request' = [request EXCEPT ![s].at = "apply"]
          \/ /\ cache' = [cache EXCEPT ![i].excused = b]
             /\ request' = [request EXCEPT ![s] = Reply(request[s], "error")]
      BY <1>7, Zenon DEF CheckStale
    <3> HIDE DEF b, i
    <3> QED
      BY <3>1, <2>1, <2>2, <1>b
<1>8. ASSUME NEW s \in Slot, Apply(s) PROVE GateInv'
  <2>1. request'[s].at = "finish" /\ request'[s].inst = request[s].inst
    BY <1>8, <1>b DEF Apply, NoRequest
  <2>2. \A q \in Slot : StillRecording(q)
    BY <1>8, <2>1, <1>b DEF Apply, StillRecording
  <2>3. now' = now /\ (UNCHANGED <<cache, defs, gate>> \/ Outdate(request[s].inst))
    BY <1>8 DEF Apply
  <2> QED
    BY <2>1, <2>2, <2>3, GateKept, GateOutdated
<1>c. Dated(NoEntry) /\ Current(NoEntry) /\ ~NoEntry.own /\ ~NoEntry.excused /\ ~NoEntry.blind
  BY <1>a DEF Dated, Current, NoEntry
<1>9. ASSUME NEW s \in Slot, Finish(s) PROVE GateInv'
  <2>1. \A j \in Inst : j # request[s].inst => (Recording(j) # {} => Recording(j)' # {})
    BY <1>9, <1>b DEF Finish, Recording
  <2>2. \A j \in Inst : cache'[j] = IF j = request[s].inst THEN NoEntry ELSE cache[j]
    BY <1>9 DEF Finish, TypeOK
  <2>3. UNCHANGED <<now, defs, gate>>
    BY <1>9 DEF Finish
  <2> QED
    BY <2>1, <2>2, <2>3, <1>c DEF GateInv, Dated, Current
<1>10. ASSUME NEW i \in Inst, Restart(i) PROVE GateInv'
  <2>1. \A j \in Inst : j # i => (Recording(j) # {} => Recording(j)' # {})
    BY <1>10 DEF Restart, Recording
  <2>2. \A j \in Inst : /\ cache'[j] = IF j = i THEN NoEntry ELSE cache[j]
                        /\ defs'[j] = IF j = i THEN NoEntry ELSE defs[j]
    BY <1>10 DEF Restart, TypeOK
  <2>3. now' = now /\ (gate' = gate \/ gate'.entry = NoEntry)
    BY <1>10 DEF Restart, NoGate
  <2> QED
    BY <2>1, <2>2, <2>3, <1>c DEF GateInv, Dated, Current
<1>11. ASSUME NEW i \in Gated, GateRead(i) \/ \E push \in BOOLEAN : GateList(i, push)
       PROVE  GateInv'
  <2>1. /\ UNCHANGED <<now, cache, defs, request>>
        /\ gate'.entry.at = now /\ gate'.entry.outdated = 0 /\ ~gate'.entry.blind
    <3>1. LET e == [NoEntry EXCEPT !.at = now] IN e.at = now /\ e.outdated = 0 /\ ~e.blind
      BY DEF NoEntry
    <3>2. \A v : LET e == [NoEntry EXCEPT !.at = now, !.value = v]
                 IN  e.at = now /\ e.outdated = 0 /\ ~e.blind
      BY DEF NoEntry
    <3>3. CASE GateRead(i)
      BY <3>2, <3>3 DEF GateRead
    <3>4. CASE \E push \in BOOLEAN : GateList(i, push)
      <4>1. PICK push \in BOOLEAN : GateList(i, push)
        BY <3>4
      <4>2. gate'.entry = [NoEntry EXCEPT !.at = now] /\ UNCHANGED <<now, cache, defs, request>>
        BY <4>1 DEF GateList
      <4> QED
        BY <4>2, <3>1
    <3> QED
      BY <1>11, <3>3, <3>4
  <2> QED
    BY <2>1, <1>a DEF GateInv, Dated, Current, Recording
<1>e. ASSUME NEW i \in Gated, GateBlind(i) PROVE GateInv'
  <2> DEFINE e == [defs[i] EXCEPT !.at = now, !.excused = defs[i].own, !.blind = TRUE]
  <2>1. i \in Inst /\ defs[i] # NoEntry /\ UNCHANGED <<now, defs, gate, request>>
    BY <1>e, ReservationAssumption DEF GateBlind
  <2>2. \A j \in Inst : cache'[j] = IF j = i THEN e ELSE cache[j]
    BY <1>e DEF GateBlind, TypeOK
  <2>3. /\ e.at = now /\ e.outdated = defs[i].outdated /\ e.own = defs[i].own
        /\ e.excused = defs[i].own /\ e.blind
    BY <2>1, <1>a DEF CacheEntry
  <2> HIDE DEF e
  <2>4. Dated(e) /\ now - e.at < CacheTTL
    <3>1. defs[i].at \in Nat /\ defs[i].outdated \in Nat /\ ~defs[i].blind
          /\ now - defs[i].at < CacheTTL /\ Dated(defs[i])
      BY <2>1, <1>a DEF GateInv, Current, CacheEntry
    <3> QED
      BY <3>1, <2>3, <1>a DEF Dated
  <2>5. (Dated(gate.entry) /\ ~gate.entry.blind)'
    BY <2>1 DEF GateInv, Dated
  <2>6. \A j \in Inst : Recording(j)' = Recording(j)
    BY <2>1 DEF Recording
  <2>7. ASSUME NEW j \in Inst
        PROVE  (/\ Dated(cache[j]) /\ Current(cache[j])
                /\ Dated(defs[j]) /\ Current(defs[j]) /\ ~defs[j].blind
                /\ cache[j].own => Recording(j) # {} \/ cache[j].excused)'
    <3>1. CASE j = i
      BY <3>1, <2>1, <2>2, <2>3, <2>4, <2>6 DEF GateInv, Dated, Current
    <3>2. CASE j # i
      BY <3>2, <2>1, <2>2, <2>6 DEF GateInv, Dated, Current
    <3> QED
      BY <3>1, <3>2
  <2> QED
    BY <2>5, <2>7 DEF GateInv
<1>d. ASSUME NEW e \in CacheEntry, NEW t \in Nat, e.at <= t
      PROVE  InTime(e, t) = NoEntry \/ (InTime(e, t) = e /\ t - e.at < CacheTTL)
  BY <1>d DEF InTime
<1>12. CASE GateFill
  <2> DEFINE e == [gate.entry EXCEPT !.excused = gate.entry.own]
  <2>1. /\ e \in CacheEntry /\ e.at = gate.entry.at /\ e.outdated = gate.entry.outdated
        /\ e.own = gate.entry.own /\ e.excused = gate.entry.own /\ e.blind = gate.entry.blind
    BY <1>a DEF CacheEntry
  <2>2. UNCHANGED <<now, request>> /\ gate' = NoGate
    BY <1>12 DEF GateFill
  <2>3. /\ cache' = cache \/ cache' = [cache EXCEPT ![gate.inst] = InTime(e, now)]
        /\ defs' = defs \/ defs' = [defs EXCEPT ![gate.inst] = InTime(gate.entry, now)]
    BY <1>12 DEF GateFill
  <2> HIDE DEF e
  <2>4. Dated(e)
    BY <2>1 DEF GateInv, Dated
  <2>5. /\ InTime(e, now) = NoEntry \/ (InTime(e, now) = e /\ now - e.at < CacheTTL)
        /\ \/ InTime(gate.entry, now) = NoEntry
           \/ InTime(gate.entry, now) = gate.entry /\ now - gate.entry.at < CacheTTL
    BY <2>1, <2>4, <1>a, <1>d DEF GateInv, Dated
  <2>6. \A j \in Inst : /\ cache'[j] = cache[j] \/ cache'[j] = InTime(e, now)
                        /\ defs'[j] = defs[j] \/ defs'[j] = InTime(gate.entry, now)
    BY <2>3 DEF TypeOK
  <2>7. (Dated(gate.entry) /\ ~gate.entry.blind)' /\ \A j \in Inst : Recording(j)' = Recording(j)
    BY <2>2, <1>c DEF NoGate, Dated, Recording
  <2>8. ASSUME NEW j \in Inst
        PROVE  (/\ Dated(cache[j]) /\ Current(cache[j])
                /\ Dated(defs[j]) /\ Current(defs[j]) /\ ~defs[j].blind
                /\ cache[j].own => Recording(j) # {} \/ cache[j].excused)'
    <3>1. cache'[j] = cache[j] \/ cache'[j] = NoEntry \/ (cache'[j] = e /\ now - e.at < CacheTTL)
      BY <2>5, <2>6
    <3>2. (/\ Dated(cache[j]) /\ Current(cache[j])
           /\ cache[j].own => Recording(j) # {} \/ cache[j].excused)'
      BY <3>1, <2>1, <2>2, <2>4, <2>7, <1>c DEF GateInv, Dated, Current
    <3>3. \/ defs'[j] = defs[j] \/ defs'[j] = NoEntry
          \/ defs'[j] = gate.entry /\ now - gate.entry.at < CacheTTL
      BY <2>5, <2>6
    <3>4. (Dated(defs[j]) /\ Current(defs[j]) /\ ~defs[j].blind)'
      BY <3>3, <2>2, <1>c DEF GateInv, Dated, Current
    <3> QED
      BY <3>2, <3>4
  <2> QED
    BY <2>7, <2>8 DEF GateInv
<1>13. CASE Tick
  <2>1. now' = now + 1 /\ gate' = gate /\ request' = request
    BY <1>13 DEF Tick
  <2>2. \A j \in Inst : cache'[j] = InTime(cache[j], now') /\ defs'[j] = InTime(defs[j], now')
    BY <1>13 DEF Tick
  <2>3. ASSUME NEW e \in CacheEntry, Dated(e)
        PROVE  InTime(e, now') = NoEntry \/ (InTime(e, now') = e /\ now' - e.at < CacheTTL)
    <3>1. e.at \in Nat /\ e.at <= now' /\ now' \in Nat
      BY <2>1, <2>3, <1>a DEF Dated, CacheEntry
    <3> QED
      BY <3>1, <1>a, <1>d
  <2>4. \A e \in CacheEntry : Dated(e) => Dated(e)'
    BY <2>1, <1>a DEF Dated, CacheEntry
  <2>5. (Dated(NoEntry) /\ Current(NoEntry))' /\ \A j \in Inst : Recording(j)' = Recording(j)
    BY <2>1, <1>a DEF NoEntry, Dated, Current, Recording
  <2>6. (Dated(gate.entry) /\ ~gate.entry.blind)'
    BY <2>1, <2>4, <1>a DEF GateInv, Dated
  <2>7. ASSUME NEW j \in Inst
        PROVE  (/\ Dated(cache[j]) /\ Current(cache[j])
                /\ Dated(defs[j]) /\ Current(defs[j]) /\ ~defs[j].blind
                /\ cache[j].own => Recording(j) # {} \/ cache[j].excused)'
    <3>1. /\ cache'[j] = NoEntry \/ (cache'[j] = cache[j] /\ now' - cache[j].at < CacheTTL)
          /\ defs'[j] = NoEntry \/ (defs'[j] = defs[j] /\ now' - defs[j].at < CacheTTL)
      BY <2>2, <2>3, <1>a DEF GateInv
    <3>2. cache[j] \in CacheEntry /\ defs[j] \in CacheEntry
      BY <1>a
    <3>3. (Dated(cache[j]) /\ Current(cache[j]))'
      BY <3>1, <3>2, <2>4, <2>5 DEF GateInv, Dated, Current
    <3>4. (Dated(defs[j]) /\ Current(defs[j]) /\ ~defs[j].blind)'
      BY <3>1, <3>2, <2>4, <2>5, <1>c DEF GateInv, Dated, Current
    <3>5. (cache[j].own => Recording(j) # {} \/ cache[j].excused)'
      BY <3>1, <2>5, <1>c DEF GateInv
    <3> QED
      BY <3>3, <3>4, <3>5
  <2> QED
    BY <2>6, <2>7 DEF GateInv
<1>14. CASE UNCHANGED vars
  BY <1>14 DEF vars, GateInv, Dated, Current, Recording
<1>f. CASE \E u \in User : Flush(u) \/ FlushOther(u) \/ FlushEnd(u) \/ \E e \in Other : PostponeOther(u, e)
  <2>1. UNCHANGED <<now, cache, defs, gate, request>>
    BY <1>f DEF Flush, FlushOther, FlushEnd, PostponeOther
  <2> QED
    BY <2>1, GateKept DEF StillRecording
<1> QED
  BY <1>1, <1>2, <1>3, <1>4, <1>5, <1>6, <1>7, <1>8, <1>9, <1>10, <1>11, <1>12, <1>13, <1>14,
     <1>e, <1>f DEF Next

\* An instance lets a push through, or stops it, on an outdated lock for less
\* than the lifetime of its cache, and after a change it has made itself only
\* when the gate was reading at that moment or the record of the change failed.
THEOREM GateStaysFresh == Spec => []GateFresh
<1>1. Init => TypeOK /\ GateInv
  BY TypeInit, GateInit
<1>2. TypeOK /\ GateInv /\ [Next]_vars => (TypeOK /\ GateInv)'
  BY TypeStep, GateStep
<1> QED
  BY <1>1, <1>2, GateImplied, PTL DEF Spec

-----------------------------------------------------------------------------
(* A release that was promised is not forgotten.                           *)

\* What a list loses and gets at its two ends.
LEMMA EndFacts ==
  ASSUME NEW q \in Seq(Engine)
  PROVE  /\ q # <<>> => ToSet(q) = {Head(q)} \cup ToSet(Tail(q))
         /\ \A e \in Engine : ToSet(Append(q, e)) = ToSet(q) \cup {e}
<1>1. ASSUME q # <<>> PROVE ToSet(q) = {Head(q)} \cup ToSet(Tail(q))
  <2>1. /\ DOMAIN q = 1 .. Len(q) /\ Len(q) \in Nat /\ Len(q) # 0 /\ Head(q) = q[1]
        /\ DOMAIN Tail(q) = 1 .. (Len(q) - 1)
        /\ \A i \in 1 .. (Len(q) - 1) : Tail(q)[i] = q[i + 1]
    BY <1>1
  <2>2. ASSUME NEW i \in DOMAIN q PROVE q[i] = Head(q) \/ \E j \in DOMAIN Tail(q) : Tail(q)[j] = q[i]
    <3>1. CASE i = 1
      BY <3>1, <2>1
    <3>2. CASE i # 1
      <4>1. i - 1 \in 1 .. (Len(q) - 1) /\ (i - 1) + 1 = i
        BY <3>2, <2>1
      <4>2. i - 1 \in DOMAIN Tail(q) /\ Tail(q)[i - 1] = q[i]
        BY <4>1, <2>1
      <4> QED
        BY <4>2
    <3> QED
      BY <3>1, <3>2
  <2>3. ASSUME NEW j \in DOMAIN Tail(q) PROVE \E i \in DOMAIN q : q[i] = Tail(q)[j]
    <3>1. j + 1 \in DOMAIN q /\ q[j + 1] = Tail(q)[j]
      BY <2>1
    <3> QED
      BY <3>1
  <2>4. 1 \in DOMAIN q /\ q[1] = Head(q)
    BY <2>1
  <2>5. ASSUME NEW x \in ToSet(q) PROVE x \in {Head(q)} \cup ToSet(Tail(q))
    BY <2>2 DEF ToSet
  <2>6. ASSUME NEW x \in {Head(q)} \cup ToSet(Tail(q)) PROVE x \in ToSet(q)
    BY <2>3, <2>4 DEF ToSet
  <2> QED
    BY <2>5, <2>6
<1>2. ASSUME NEW e \in Engine PROVE ToSet(Append(q, e)) = ToSet(q) \cup {e}
  <2>1. /\ DOMAIN q = 1 .. Len(q) /\ Len(q) \in Nat
        /\ DOMAIN Append(q, e) = 1 .. (Len(q) + 1)
        /\ \A i \in 1 .. Len(q) : Append(q, e)[i] = q[i]
        /\ Append(q, e)[Len(q) + 1] = e
    OBVIOUS
  <2>2. ASSUME NEW i \in DOMAIN Append(q, e)
        PROVE  Append(q, e)[i] = e \/ \E j \in DOMAIN q : q[j] = Append(q, e)[i]
    <3>1. i = Len(q) + 1 \/ i \in 1 .. Len(q)
      BY <2>1
    <3> QED
      BY <3>1, <2>1
  <2>3. ASSUME NEW j \in DOMAIN q PROVE \E i \in DOMAIN Append(q, e) : Append(q, e)[i] = q[j]
    <3>1. j \in DOMAIN Append(q, e) /\ Append(q, e)[j] = q[j]
      BY <2>1
    <3> QED
      BY <3>1
  <2>4. Len(q) + 1 \in DOMAIN Append(q, e) /\ Append(q, e)[Len(q) + 1] = e
    BY <2>1
  <2>5. ASSUME NEW x \in ToSet(Append(q, e)) PROVE x \in ToSet(q) \cup {e}
    BY <2>2 DEF ToSet
  <2>6. ASSUME NEW x \in ToSet(q) \cup {e} PROVE x \in ToSet(Append(q, e))
    BY <2>3, <2>4 DEF ToSet
  <2> QED
    BY <2>5, <2>6
<1> QED
  BY <1>1, <1>2

\* Who is queued last is in the queue.
LEMMA QueuedIsIn == \A q \in Seq(Engine), e \in Engine : e \in ToSet(Queued(q, e))
<1> SUFFICES ASSUME NEW q \in Seq(Engine), NEW e \in Engine PROVE e \in ToSet(Queued(q, e))
  OBVIOUS
<1>1. CASE q = <<>>
  <2>1. Len(q) < Cap
    BY <1>1, ReservationAssumption
  <2> QED
    BY <2>1, EndFacts DEF Queued
<1>2. CASE q # <<>>
  <2>1. Tail(q) \in Seq(Engine)
    BY <1>2
  <2>2. e \in ToSet(Append(q, e)) /\ e \in ToSet(Append(Tail(q), e))
    <3>1. ToSet(Append(q, e)) = ToSet(q) \cup {e}
      BY EndFacts
    <3>2. ToSet(Append(Tail(q), e)) = ToSet(Tail(q)) \cup {e}
      BY <2>1, EndFacts
    <3> QED
      BY <3>1, <3>2
  <2> QED
    BY <2>2 DEF Queued
<1> QED
  BY <1>1, <1>2

\* A caller is the flush of one user, or a card.
LEMMA CallerFacts ==
  ASSUME NEW c \in Caller
  PROVE  /\ c[1] \in User
         /\ \A u \in User : c = <<u, "flush">> <=> c[1] = u /\ c[2] = "flush"
         /\ \A u \in User : c = <<u, "card">> <=> c[1] = u /\ c[2] = "card"
         /\ c[2] \in {"card", "flush"}
<1>1. PICK w \in User, k \in {"card", "flush"} : c = <<w, k>>
  BY DEF Caller
<1> QED
  BY <1>1

\* The server has decided the release, so its answer ends the flush.
Judged(r) ==
  \/ r.at \in {"sign", "check", "apply", "finish"}
  \/ r.at = "answer" /\ r.answer \in {"ok", "forbidden"}

Flushing(s, u) == request[s].for = <<u, "flush">>

\* A promise that counts is in the queue and in what the flush will write back.
PromiseInv(u) ==
  /\ promise[u] = "kept" =>
       /\ This \in ToSet(queue[u])
       /\ flush[u].on => This \in ToSet(flush[u].todo) \cup ToSet(flush[u].left)
  /\ flush[u].todo # <<>> => flush[u].on
  /\ call[<<u, "flush">>] # "none" => flush[u].todo # <<>> /\ Head(flush[u].todo) = This

\* A flush waits for one request, and one that was decided keeps no promise.
FlushInv(s, u) ==
  Flushing(s, u) =>
    /\ call[<<u, "flush">>] # "none"
    /\ request[s].at \in {"define", "read", "write"} => request[s].op = "release" /\ request[s].user = u
    /\ Judged(request[s]) => promise[u] # "kept"
    /\ \A q \in Slot : Flushing(q, u) => q = s

ReleaseInv ==
  /\ \A u \in User : PromiseInv(u)
  /\ \A s \in Slot, u \in User : FlushInv(s, u)

\* A step that starts no flush and lets none go on but by deciding its release.
FlushKept(s) ==
  \A u \in User : Flushing(s, u)' =>
    /\ Flushing(s, u)
    /\ request'[s].at \in {"define", "read", "write"} =>
         /\ request[s].at \in {"define", "read", "write"}
         /\ request'[s].op = request[s].op /\ request'[s].user = request[s].user
    /\ Judged(request'[s]) => Judged(request[s]) \/ promise'[u] # "kept"

LEMMA ReleaseLess ==
  ASSUME ReleaseInv, UNCHANGED <<call, queue, flush>>,
         \A u \in User : promise'[u] = "kept" => promise[u] = "kept",
         \A s \in Slot : FlushKept(s)
  PROVE  ReleaseInv'
<1>1. \A u \in User : PromiseInv(u)'
  BY DEF ReleaseInv, PromiseInv
<1>2. ASSUME NEW s \in Slot, NEW u \in User PROVE FlushInv(s, u)'
  <2>1. Judged(request'[s]) <=> Judged(request[s])'
    BY DEF Judged
  <2> QED
    BY <2>1 DEF ReleaseInv, FlushInv, FlushKept, Flushing
<1> QED
  BY <1>1, <1>2 DEF ReleaseInv

\* The queue and its flush change, and no call.
LEMMA ReleaseQueued ==
  ASSUME ReleaseInv, UNCHANGED <<call, request>>,
         \A u \in User : PromiseInv(u)' /\ (promise'[u] = "kept" => promise[u] = "kept")
  PROVE  ReleaseInv'
<1>1. \A s \in Slot, u \in User : FlushInv(s, u)'
  BY DEF ReleaseInv, FlushInv, Flushing, Judged
<1> QED
  BY <1>1 DEF ReleaseInv

\* A call that ends, with its request.
LEMMA ReleaseEnds ==
  ASSUME ReleaseInv, NEW c \in Caller, call' = [call EXCEPT ![c] = "none"], DOMAIN call = Caller,
         \A u \in User : PromiseInv(u)',
         \A u \in User : promise'[u] = "kept" => promise[u] = "kept" \/ call[<<u, "flush">>] = "none",
         \A s \in Slot : FlushKept(s) /\ \A u \in User : c = <<u, "flush">> => ~Flushing(s, u)'
  PROVE  ReleaseInv'
<1>1. ASSUME NEW s \in Slot, NEW u \in User, Flushing(s, u)'
      PROVE  (/\ call[<<u, "flush">>] # "none"
              /\ request[s].at \in {"define", "read", "write"} =>
                   request[s].op = "release" /\ request[s].user = u
              /\ Judged(request[s]) => promise[u] # "kept"
              /\ \A q \in Slot : Flushing(q, u) => q = s)'
  <2>1. Flushing(s, u) /\ <<u, "flush">> # c /\ <<u, "flush">> \in Caller
    BY <1>1 DEF FlushKept, Caller
  <2>2. call'[<<u, "flush">>] = call[<<u, "flush">>] /\ call[<<u, "flush">>] # "none"
    BY <2>1 DEF ReleaseInv, FlushInv
  <2>3. (\A q \in Slot : Flushing(q, u) => q = s)'
    BY <2>1 DEF ReleaseInv, FlushInv, FlushKept
  <2>4. (request[s].at \in {"define", "read", "write"} => request[s].op = "release" /\ request[s].user = u)'
    BY <1>1, <2>1 DEF ReleaseInv, FlushInv, FlushKept
  <2>5. Judged(request'[s]) => promise'[u] # "kept"
    BY <1>1, <2>1, <2>2 DEF ReleaseInv, FlushInv, FlushKept
  <2>6. (Judged(request[s]) => promise[u] # "kept")'
    BY <2>5 DEF Judged
  <2> QED
    BY <2>2, <2>3, <2>4, <2>6
<1> QED
  BY <1>1 DEF ReleaseInv, FlushInv

LEMMA ReleaseInit == Init => ReleaseInv
<1> SUFFICES ASSUME Init PROVE ReleaseInv
  OBVIOUS
<1>1. \A u \in User : <<u, "flush">> # None /\ <<u, "flush">> \in Caller
  BY ReservationAssumption DEF Caller
<1>2. \A s \in Slot, u \in User : FlushInv(s, u)
  BY <1>1 DEF Init, FlushInv, Flushing, NoRequest
<1>3. \A u \in User : PromiseInv(u)
  BY <1>1 DEF Init, PromiseInv, NoFlush
<1> QED
  BY <1>2, <1>3 DEF ReleaseInv

LEMMA ReleaseStep == TypeOK /\ TypeOK' /\ ReleaseInv /\ [Next]_vars => ReleaseInv'
<1> SUFFICES ASSUME TypeOK, TypeOK', ReleaseInv, [Next]_vars PROVE ReleaseInv'
  OBVIOUS
<1> USE DEF queues
<1>a. /\ \A s \in Slot : request[s] \in Request(ledger.seq)
      /\ DOMAIN request = Slot /\ DOMAIN call = Caller
  BY DEF TypeOK
<1>b. \A u \in User : <<u, "flush">> \in Caller /\ <<u, "card">> \in Caller /\ <<u, "flush">> # None
  BY ReservationAssumption DEF Caller
<1>c. \A s \in Slot : request'[s] = request[s] => FlushKept(s)
  BY DEF FlushKept, Flushing
<1>d. ASSUME NEW s \in Slot, request'[s] = NoRequest PROVE FlushKept(s) /\ request'[s].for = None
  <2>1. request'[s].for = None
    BY <1>d DEF NoRequest
  <2>2. \A u \in User : ~Flushing(s, u)'
    BY <2>1, <1>b DEF Flushing
  <2> QED
    BY <2>1, <2>2 DEF FlushKept
<1>e. \A s \in Slot : \A a : LET r == Reply(request[s], a) IN
        /\ r.at \in {"free", "answer"} /\ r.for = request[s].for
        /\ r.for # None => r.answer = a
  BY DEF Reply, NoRequest
<1>q. \A u \in User : /\ queue[u] \in Seq(Engine) /\ flush[u].todo \in Seq(Engine)
                      /\ flush[u].left \in Seq(Engine) /\ flush[u].on \in BOOLEAN
  BY DEF TypeOK
<1>1. ASSUME NEW c \in Caller, NEW op \in {"acquire", "release"}, Send(c, op),
             \A u \in User : c = <<u, "flush">> =>
               op = "release" /\ flush[u].todo # <<>> /\ Head(flush[u].todo) = This
      PROVE  ReleaseInv'
  <2>1. PICK i \in Inst, s \in Slot :
          /\ request[s] = NoRequest
          /\ request' = [request EXCEPT ![s] = [NoRequest EXCEPT
               !.at = "read", !.op = op, !.user = c[1], !.inst = i, !.for = c]]
    BY <1>1 DEF Send
  <2>2. /\ request'[s].at = "read" /\ request'[s].op = op /\ request'[s].user = c[1]
        /\ request'[s].for = c /\ request[s].for = None
        /\ \A q \in Slot \ {s} : request'[q] = request[q]
    BY <2>1, <1>a DEF NoRequest
  <2>3. call[c] = "none" /\ call' = [call EXCEPT ![c] = op] /\ UNCHANGED <<queue, flush, promise>>
    BY <1>1 DEF Send
  <2>4. \A u \in User : PromiseInv(u)'
    <3> SUFFICES ASSUME NEW u \in User PROVE PromiseInv(u)'
      OBVIOUS
    <3>1. CASE c = <<u, "flush">>
      BY <3>1, <2>3, <1>1, <1>a DEF ReleaseInv, PromiseInv
    <3>2. CASE c # <<u, "flush">>
      <4>1. call'[<<u, "flush">>] = call[<<u, "flush">>]
        BY <3>2, <2>3, <1>a, <1>b
      <4> QED
        BY <4>1, <2>3 DEF ReleaseInv, PromiseInv
    <3> QED
      BY <3>1, <3>2
  <2>5. ASSUME NEW q \in Slot, NEW u \in User, Flushing(q, u)'
        PROVE  (/\ call[<<u, "flush">>] # "none"
                /\ request[q].at \in {"define", "read", "write"} =>
                     request[q].op = "release" /\ request[q].user = u
                /\ Judged(request[q]) => promise[u] # "kept"
                /\ \A t \in Slot : Flushing(t, u) => t = q)'
    <3>1. CASE q = s
      <4>1. c = <<u, "flush">> /\ op = "release" /\ c[1] = u
        <5>1. c = <<u, "flush">>
          BY <3>1, <2>2, <2>5 DEF Flushing
        <5> QED
          BY <5>1, <1>1, CallerFacts
      <4>2. \A t \in Slot : ~Flushing(t, u)
        BY <4>1, <2>3 DEF ReleaseInv, FlushInv
      <4> QED
        BY <3>1, <4>1, <4>2, <2>2, <2>3, <1>a DEF Judged, Flushing
    <3>2. CASE q # s
      <4>1. Flushing(q, u) /\ request'[q] = request[q]
        BY <3>2, <2>2, <2>5 DEF Flushing
      <4>2. <<u, "flush">> # c /\ call[<<u, "flush">>] # "none"
        BY <4>1, <2>3 DEF ReleaseInv, FlushInv
      <4>3. call'[<<u, "flush">>] # "none"
        BY <4>2, <2>3, <1>a, <1>b
      <4>4. \A t \in Slot : Flushing(t, u)' => Flushing(t, u)
        BY <4>2, <2>2 DEF Flushing
      <4> QED
        BY <4>1, <4>3, <4>4, <2>3 DEF ReleaseInv, FlushInv, Judged
    <3> QED
      BY <3>1, <3>2
  <2> QED
    BY <2>4, <2>5 DEF ReleaseInv, FlushInv
<1>2. ASSUME NEW u \in User, FlushThis(u) PROVE ReleaseInv'
  BY <1>1, <1>2, <1>b DEF FlushThis
<1>3. ASSUME NEW u \in User, NEW op \in {"acquire", "release"}, Ask(u, op) PROVE ReleaseInv'
  BY <1>1, <1>3, <1>b DEF Ask
\* What is sent leaves the front of the list, and what is not goes to the other.
<1>f. ASSUME NEW u \in User, NEW through \in BOOLEAN, Sent(u, through)
      PROVE  /\ flush'[u].on = flush[u].on
             /\ flush'[u].todo = Tail(flush[u].todo) /\ flush[u].todo # <<>>
             /\ \A e \in ToSet(flush[u].todo) :
                  \/ e \in ToSet(flush'[u].todo) \cup ToSet(flush'[u].left)
                  \/ through /\ e = Head(flush[u].todo)
             /\ ToSet(flush[u].left) \subseteq ToSet(flush'[u].left)
             /\ \A w \in User \ {u} : flush'[w] = flush[w]
  <2>1. /\ flush[u].todo # <<>>
        /\ flush'[u].on = flush[u].on /\ flush'[u].todo = Tail(flush[u].todo)
        /\ flush'[u].left = IF through THEN flush[u].left
                            ELSE Append(flush[u].left, Head(flush[u].todo))
        /\ \A w \in User \ {u} : flush'[w] = flush[w]
    BY <1>f DEF Sent, TypeOK
  <2>2. ToSet(flush[u].todo) = {Head(flush[u].todo)} \cup ToSet(Tail(flush[u].todo))
    BY <2>1, <1>q, EndFacts
  <2>3. Head(flush[u].todo) \in Engine
    BY <2>1, <1>q
  <2>4. ToSet(Append(flush[u].left, Head(flush[u].todo)))
          = ToSet(flush[u].left) \cup {Head(flush[u].todo)}
    BY <2>3, <1>q, EndFacts
  <2> QED
    BY <2>1, <2>2, <2>4
<1>g. ASSUME NEW c \in Caller, Postpone(c), \A s \in Slot : FlushKept(s),
             \A s \in Slot, u \in User : c = <<u, "flush">> => ~Flushing(s, u)'
      PROVE  ReleaseInv'
  <2>a. c[1] \in User /\ (c = <<c[1], "card">> \/ c = <<c[1], "flush">>)
    BY DEF Caller
  <2>b. call' = [call EXCEPT ![c] = "none"]
    BY <1>g DEF Postpone
  <2>1. CASE c[2] = "card"
    <3>1. /\ queue' = [queue EXCEPT ![c[1]] = Queued(queue[c[1]], This)] /\ flush' = flush
          /\ promise' = [promise EXCEPT ![c[1]] = IF flush[c[1]].on THEN "overlapped" ELSE "kept"]
      BY <1>g, <2>1 DEF Postpone
    <3>2. \A u \in User : call'[<<u, "flush">>] = call[<<u, "flush">>]
      <4>1. \A u \in User : c # <<u, "flush">>
        BY <2>1, CallerFacts
      <4> QED
        BY <4>1, <2>b, <1>a, <1>b
    <3>3. ASSUME NEW u \in User PROVE PromiseInv(u)'
      <4>1. CASE u = c[1]
        <5>1. This \in ToSet(queue'[u])
          BY <4>1, <3>1, <1>q, QueuedIsIn, QueueFacts DEF TypeOK
        <5>2. promise'[u] = "kept" => ~flush[u].on
          BY <4>1, <3>1 DEF TypeOK
        <5> QED
          BY <5>1, <5>2, <3>1, <3>2 DEF PromiseInv, ReleaseInv
      <4>2. CASE u # c[1]
        <5>1. queue'[u] = queue[u] /\ promise'[u] = promise[u]
          BY <4>2, <3>1 DEF TypeOK
        <5> QED
          BY <5>1, <3>1, <3>2 DEF PromiseInv, ReleaseInv
      <4> QED
        BY <4>1, <4>2
    <3>4. ASSUME NEW u \in User, promise'[u] = "kept"
          PROVE  promise[u] = "kept" \/ call[<<u, "flush">>] = "none"
      <4>1. CASE u = c[1]
        <5>1. ~flush[u].on
          BY <4>1, <3>1, <3>4 DEF TypeOK
        <5> QED
          BY <5>1 DEF ReleaseInv, PromiseInv
      <4>2. CASE u # c[1]
        BY <4>2, <3>1, <3>4 DEF TypeOK
      <4> QED
        BY <4>1, <4>2
    <3> QED
      BY <3>3, <3>4, <2>b, <1>a, <1>g, ReleaseEnds
  <2>2. CASE c[2] # "card"
    <3>1. c = <<c[1], "flush">> /\ Sent(c[1], FALSE) /\ UNCHANGED <<queue, promise>>
      <4>1. c = <<c[1], "flush">>
        BY <2>2, CallerFacts
      <4> QED
        BY <4>1, <1>g, <2>2 DEF Postpone
    <3>2. ASSUME NEW u \in User PROVE PromiseInv(u)'
      <4>1. CASE u = c[1]
        <5>1. call'[<<u, "flush">>] = "none"
          BY <4>1, <3>1, <2>b, <1>a
        <5>2. PromiseInv(u) /\ flush[u].todo # <<>> /\ flush[u].on /\ flush'[u].on
          BY <4>1, <3>1, <1>f DEF ReleaseInv, PromiseInv
        <5>3. ToSet(flush[u].todo) \cup ToSet(flush[u].left)
                \subseteq ToSet(flush'[u].todo) \cup ToSet(flush'[u].left)
          BY <4>1, <3>1, <1>f
        <5> QED
          BY <5>1, <5>2, <5>3, <3>1 DEF PromiseInv
      <4>2. CASE u # c[1]
        <5>1. call'[<<u, "flush">>] = call[<<u, "flush">>]
          BY <4>2, <3>1, <2>b, <1>a, <1>b
        <5>2. flush'[u] = flush[u]
          BY <4>2, <3>1, <2>a, <1>f
        <5> QED
          BY <5>1, <5>2, <3>1 DEF PromiseInv, ReleaseInv
      <4> QED
        BY <4>1, <4>2
    <3>3. \A u \in User : promise'[u] = "kept" => promise[u] = "kept"
      BY <3>1
    <3> QED
      BY <3>2, <3>3, <2>b, <1>a, <1>g, ReleaseEnds
  <2> QED
    BY <2>1, <2>2
\* A flush is done with a promise only when it was decided.
<1>h. ASSUME NEW c \in Caller, Settle(c), \A s \in Slot : FlushKept(s),
             \A s \in Slot, u \in User : c = <<u, "flush">> => ~Flushing(s, u)',
             c[2] = "flush" => promise[c[1]] # "kept"
      PROVE  ReleaseInv'
  <2>a. c[1] \in User /\ (c = <<c[1], "card">> \/ c = <<c[1], "flush">>)
    BY DEF Caller
  <2>b. call' = [call EXCEPT ![c] = "none"] /\ UNCHANGED <<queue, promise>>
    BY <1>h DEF Settle
  <2>1. ASSUME NEW u \in User PROVE PromiseInv(u)'
    <3>1. CASE c = <<u, "flush">>
      <4>1. call'[<<u, "flush">>] = "none" /\ promise[u] # "kept" /\ Sent(u, TRUE)
        BY <3>1, <2>b, <1>a, <1>h DEF Settle
      <4>2. flush'[u].on = flush[u].on /\ flush[u].todo # <<>>
        BY <4>1, <1>f
      <4> QED
        BY <4>1, <4>2, <2>b DEF ReleaseInv, PromiseInv
    <3>2. CASE c # <<u, "flush">>
      <4>1. call'[<<u, "flush">>] = call[<<u, "flush">>]
        BY <3>2, <2>b, <1>a, <1>b
      <4>2. flush'[u] = flush[u]
        <5>1. CASE c[2] = "flush"
          <6>1. Sent(c[1], TRUE) /\ u # c[1]
            <7>1. u # c[1]
              BY <5>1, <3>2, CallerFacts
            <7> QED
              BY <7>1, <5>1, <1>h DEF Settle
          <6> QED
            BY <6>1, <2>a, <1>f
        <5>2. CASE c[2] # "flush"
          BY <5>2, <1>h DEF Settle
        <5> QED
          BY <5>1, <5>2
      <4> QED
        BY <4>1, <4>2, <2>b DEF ReleaseInv, PromiseInv
    <3> QED
      BY <3>1, <3>2
  <2>2. \A u \in User : promise'[u] = "kept" => promise[u] = "kept"
    BY <2>b
  <2> QED
    BY <2>1, <2>2, <2>b, <1>a, <1>h, ReleaseEnds
<1>i. ASSUME NEW c \in Caller, Drop(c), \A s \in Slot : FlushKept(s),
             \A s \in Slot, u \in User : c = <<u, "flush">> => ~Flushing(s, u)'
      PROVE  ReleaseInv'
  <2>1. call' = [call EXCEPT ![c] = "none"] /\ UNCHANGED <<queue, flush, promise>>
    BY <1>i DEF Drop
  <2>2. ASSUME NEW u \in User PROVE PromiseInv(u)'
    <3>1. call'[<<u, "flush">>] = "none" \/ call'[<<u, "flush">>] = call[<<u, "flush">>]
      BY <2>1, <1>a, <1>b
    <3> QED
      BY <3>1, <2>1 DEF ReleaseInv, PromiseInv
  <2> QED
    BY <2>1, <2>2, <1>a, <1>i, ReleaseEnds
<1>4. ASSUME NEW s \in Slot, Answer(s) PROVE ReleaseInv'
  <2> DEFINE c == request[s].for
             answer == request[s].answer
  <2>1. c \in Caller /\ c[1] \in User /\ Finished(c, answer) /\ request[s].at = "answer"
    BY <1>4, <1>a DEF Answer, Request, Caller
  <2>2. request'[s] = NoRequest /\ \A q \in Slot \ {s} : request'[q] = request[q]
    BY <1>4, <1>a DEF Answer
  <2>3. \A q \in Slot : FlushKept(q)
    BY <2>2, <1>c, <1>d
  <2>4. ASSUME NEW q \in Slot, NEW u \in User, c = <<u, "flush">> PROVE ~Flushing(q, u)'
    <3>1. CASE q = s
      BY <3>1, <2>2, <1>b, <1>d DEF Flushing
    <3>2. CASE q # s
      <4>1. Flushing(s, u)
        BY <2>4 DEF Flushing
      <4>2. ~Flushing(q, u)
        BY <4>1, <3>2 DEF ReleaseInv, FlushInv
      <4> QED
        BY <4>2, <3>2, <2>2 DEF Flushing
    <3> QED
      BY <3>1, <3>2
  <2>5. c = <<c[1], "card">> \/ c = <<c[1], "flush">>
    BY <2>1 DEF Caller
  <2>6. CASE answer \in {"ok", "forbidden"} /\ Settle(c)
    <3>1. c[2] = "flush" => promise[c[1]] # "kept"
      <4> SUFFICES ASSUME c[2] = "flush" PROVE promise[c[1]] # "kept"
        OBVIOUS
      <4>1. Flushing(s, c[1])
        BY <2>1, CallerFacts DEF Flushing
      <4>2. Judged(request[s])
        BY <2>1, <2>6 DEF Judged
      <4> QED
        BY <4>1, <4>2, <2>1 DEF ReleaseInv, FlushInv
    <3> HIDE DEF c
    <3> QED
      BY <3>1, <2>1, <2>3, <2>4, <2>6, <1>h
  <2>7. ASSUME Postpone(c) PROVE ReleaseInv'
    BY <2>1, <2>3, <2>4, <2>7, <1>g
  <2>8. CASE Drop(c)
    BY <2>1, <2>3, <2>4, <2>8, <1>i
  <2> QED
    BY <2>1, <2>6, <2>7, <2>8 DEF Finished
<1>5. ASSUME NEW c \in Caller, GiveUp(c) PROVE ReleaseInv'
  <2>1. \A s \in Slot : LET r == [request[s] EXCEPT !.for = None] IN r.for = None
    BY <1>a DEF Request
  <2>2. \A s \in Slot : IF request[s].for = c THEN request'[s].for = None
                        ELSE request'[s] = request[s]
    BY <1>5, <2>1 DEF GiveUp, Waiting, NoRequest
  <2>3. \A s \in Slot : FlushKept(s)
    <3>1. ASSUME NEW s \in Slot, request[s].for = c PROVE FlushKept(s)
      BY <3>1, <2>2, <1>b DEF FlushKept, Flushing
    <3> QED
      BY <3>1, <2>2, <1>c
  <2>4. ASSUME NEW s \in Slot, NEW u \in User, c = <<u, "flush">> PROVE ~Flushing(s, u)'
    BY <2>2, <2>4, <1>b DEF Flushing
  <2>5. CASE Postpone(c)
    BY <2>3, <2>4, <2>5, <1>g
  <2>6. CASE Drop(c)
    BY <2>3, <2>4, <2>6, <1>i
  <2> QED
    BY <1>5, <2>5, <2>6 DEF GiveUp
<1>j. ASSUME NEW s \in Slot, Decided(request[s])
      PROVE  /\ \A u \in User : promise'[u] = "kept" => promise[u] = "kept"
             /\ request[s].op = "release" /\ request[s].user \in User =>
                  promise'[request[s].user] # "kept"
  BY <1>j DEF Decided, TypeOK
<1>k. ASSUME NEW s \in Slot, LookUp(s) \/ Define(s) PROVE ReleaseInv'
  <2>1. /\ UNCHANGED <<call, queue, flush, promise>>
        /\ \A q \in Slot \ {s} : request'[q] = request[q]
        /\ request[s].at \in {"define", "read"}
        /\ \/ request'[s] = [request[s] EXCEPT !.at = "define"]
           \/ request'[s] = [request[s] EXCEPT !.at = "read"]
           \/ request'[s] = Reply(request[s], "error")
    BY <1>k, <1>a DEF LookUp, Define
  <2>2. \A a : LET r == [request[s] EXCEPT !.at = a] IN
          r.at = a /\ r.for = request[s].for /\ r.op = request[s].op /\ r.user = request[s].user
    BY <1>a DEF Request
  <2>3. FlushKept(s)
    <3>1. CASE \E a \in {"define", "read"} : request'[s] = [request[s] EXCEPT !.at = a]
      BY <3>1, <2>1, <2>2 DEF FlushKept, Flushing, Judged
    <3>2. CASE request'[s] = Reply(request[s], "error")
      <4>1. /\ request'[s].at \in {"free", "answer"} /\ request'[s].for = request[s].for
            /\ request'[s].for # None => request'[s].answer = "error"
        BY <3>2, <1>e
      <4> QED
        BY <4>1, <1>b DEF FlushKept, Flushing, Judged
    <3> QED
      BY <2>1, <3>1, <3>2
  <2> QED
    BY <2>1, <2>3, <1>c, ReleaseLess
<1>6. ASSUME NEW s \in Slot, Decide(s) PROVE ReleaseInv'
  <2> DEFINE r == request[s]
  <2>1. /\ UNCHANGED <<call, queue, flush>>
        /\ \A q \in Slot \ {s} : request'[q] = request[q]
        /\ r.at = "read" /\ (promise' = promise \/ Decided(r))
        /\ request'[s].at # "write" => Decided(r)
    BY <1>6, <1>a DEF Decide
  <2>2. ASSUME NEW u \in User, Flushing(s, u)' PROVE
          /\ Flushing(s, u)
          /\ request'[s].at \in {"define", "read", "write"} =>
               request'[s].op = r.op /\ request'[s].user = r.user
          /\ Judged(request'[s]) => promise'[u] # "kept"
    <3>1. \A v : LET w == Write(r, v) IN
            w.at = "write" /\ w.op = r.op /\ w.user = r.user /\ w.for = r.for
      BY <1>a DEF Write, Request
    <3>2. request'[s] = IF r.op = "acquire" THEN DecideAcquire(r) ELSE DecideRelease(r)
      BY <1>6, <1>a DEF Decide
    <3>3. \/ \E a : request'[s] = Reply(r, a)
          \/ \E v : request'[s] = Write(r, v)
      BY <3>2 DEF DecideAcquire, DecideRelease
    <3>4. Flushing(s, u)
      BY <3>1, <3>3, <2>2, <1>e DEF Flushing
    <3>5. r.op = "release" /\ r.user = u
      BY <3>4, <2>1 DEF ReleaseInv, FlushInv
    <3>6. Judged(request'[s]) => promise'[u] # "kept"
      <4>1. Judged(request'[s]) => request'[s].at # "write"
        BY DEF Judged
      <4> QED
        BY <4>1, <3>5, <2>1, <1>j
    <3> QED
      BY <3>1, <3>3, <3>4, <3>6, <1>e
  <2>3. FlushKept(s)
    BY <2>1, <2>2 DEF FlushKept
  <2>4. \A u \in User : promise'[u] = "kept" => promise[u] = "kept"
    BY <2>1, <1>j
  <2> QED
    BY <2>1, <2>3, <2>4, <1>c, ReleaseLess
<1>7. ASSUME NEW s \in Slot, CompareAndSet(s) PROVE ReleaseInv'
  <2>1. /\ UNCHANGED <<call, queue, flush>>
        /\ \A q \in Slot \ {s} : request'[q] = request[q]
        /\ request[s].at = "write" /\ Decided(request[s])
    BY <1>7, <1>a DEF CompareAndSet
  <2>2. request'[s].for = request[s].for /\ request'[s].at = "sign"
    BY <1>7, <1>a DEF CompareAndSet, Request
  <2>3. ASSUME NEW u \in User, Flushing(s, u) PROVE promise'[u] # "kept"
    <3>1. request[s].op = "release" /\ request[s].user = u
      BY <2>1, <2>3 DEF ReleaseInv, FlushInv
    <3> QED
      BY <3>1, <2>1, <1>j
  <2>4. FlushKept(s)
    BY <2>2, <2>3 DEF FlushKept, Flushing
  <2>5. \A u \in User : promise'[u] = "kept" => promise[u] = "kept"
    BY <2>1, <1>j
  <2> QED
    BY <2>1, <2>4, <2>5, <1>c, ReleaseLess
<1>8. ASSUME NEW s \in Slot, Raced(s) PROVE ReleaseInv'
  <2>1. /\ UNCHANGED <<call, queue, flush, promise>>
        /\ \A q \in Slot \ {s} : request'[q] = request[q]
        /\ request[s].at = "write"
        /\ \/ request'[s] = [request[s] EXCEPT !.at = "read", !.attempt = 1]
           \/ request'[s] = Reply(request[s], "conflict")
    BY <1>8, <1>a DEF Raced
  <2>2. LET r == [request[s] EXCEPT !.at = "read", !.attempt = 1] IN
          r.at = "read" /\ r.for = request[s].for /\ r.op = request[s].op /\ r.user = request[s].user
    BY <1>a DEF Request
  <2>3. FlushKept(s)
    <3>1. CASE request'[s] = [request[s] EXCEPT !.at = "read", !.attempt = 1]
      BY <3>1, <2>1, <2>2 DEF FlushKept, Flushing, Judged
    <3>2. CASE request'[s] = Reply(request[s], "conflict")
      <4>1. /\ request'[s].at \in {"free", "answer"} /\ request'[s].for = request[s].for
            /\ request'[s].for # None => request'[s].answer = "conflict"
        BY <3>2, <1>e
      <4> QED
        BY <4>1, <1>b DEF FlushKept, Flushing, Judged
    <3> QED
      BY <2>1, <3>1, <3>2
  <2> QED
    BY <2>1, <2>3, <1>c, ReleaseLess
<1>9. ASSUME NEW s \in Slot, Sign(s) \/ CheckStale(s) \/ Apply(s) \/ Finish(s) PROVE ReleaseInv'
  <2>1. /\ UNCHANGED <<call, queue, flush, promise>>
        /\ \A q \in Slot \ {s} : request'[q] = request[q]
        /\ Judged(request[s])
    BY <1>9, <1>a DEF Sign, CheckStale, Apply, Finish, Judged
  <2>2. request'[s].for = request[s].for /\ request'[s].at \notin {"define", "read", "write"}
    <3>1. CASE Sign(s)
      BY <3>1, <1>a DEF Sign, Request
    <3>2. CASE CheckStale(s)
      <4>1. /\ [request[s] EXCEPT !.at = "apply"].at = "apply"
            /\ [request[s] EXCEPT !.at = "apply"].for = request[s].for
        BY <1>a DEF Request
      <4>2. \/ request'[s] = [request[s] EXCEPT !.at = "apply"]
            \/ request'[s] = Reply(request[s], "error")
        BY <3>2, <1>a DEF CheckStale
      <4>3. CASE request'[s] = [request[s] EXCEPT !.at = "apply"]
        BY <4>1, <4>3
      <4>4. CASE request'[s] = Reply(request[s], "error")
        BY <4>4, <1>e
      <4> QED
        BY <4>2, <4>3, <4>4
    <3>3. CASE Apply(s)
      BY <3>3, <1>a DEF Apply, NoRequest
    <3>4. CASE Finish(s)
      BY <3>4, <1>a, <1>e DEF Finish
    <3> QED
      BY <1>9, <3>1, <3>2, <3>3, <3>4
  <2>3. FlushKept(s)
    BY <2>1, <2>2 DEF FlushKept, Flushing
  <2> QED
    BY <2>1, <2>3, <1>c, ReleaseLess
<1>10. ASSUME NEW i \in Inst, Restart(i) PROVE ReleaseInv'
  <2>1. /\ UNCHANGED <<call, queue, flush, promise>>
        /\ \A s \in Slot : request'[s] = NoRequest \/ request'[s] = request[s]
    BY <1>10 DEF Restart
  <2> QED
    BY <2>1, <1>c, <1>d, ReleaseLess
<1>11. CASE \/ GateFill \/ Tick \/ UNCHANGED vars
            \/ \E i \in Gated : GateBlind(i) \/ GateRead(i) \/ \E push \in BOOLEAN : GateList(i, push)
  <2>1. UNCHANGED <<call, queue, flush, promise, request>>
    BY <1>11 DEF GateFill, Tick, GateBlind, GateRead, GateList, vars
  <2> QED
    BY <2>1, <1>c, ReleaseLess
<1>12. ASSUME NEW u \in User, NEW e \in Other, PostponeOther(u, e) PROVE ReleaseInv'
  <2>1. /\ UNCHANGED <<call, request, flush>>
        /\ promise' = [promise EXCEPT ![u] =
             IF promise[u] = "kept" /\ This \in ToSet(queue[u]) \ ToSet(queue'[u])
               THEN "crowded" ELSE promise[u]]
        /\ \A w \in User \ {u} : queue'[w] = queue[w]
    BY <1>12 DEF PostponeOther, TypeOK
  <2>2. ASSUME NEW w \in User PROVE PromiseInv(w)' /\ (promise'[w] = "kept" => promise[w] = "kept")
    <3>1. CASE w = u
      <4>1. promise'[u] = "kept" => promise[u] = "kept" /\ ~(This \in ToSet(queue[u]) \ ToSet(queue'[u]))
        BY <2>1 DEF TypeOK
      <4> QED
        BY <3>1, <4>1, <2>1 DEF ReleaseInv, PromiseInv
    <3>2. CASE w # u
      <4>1. promise'[w] = promise[w] /\ queue'[w] = queue[w]
        BY <3>2, <2>1 DEF TypeOK
      <4> QED
        BY <4>1, <2>1 DEF ReleaseInv, PromiseInv
    <3> QED
      BY <3>1, <3>2
  <2> QED
    BY <2>1, <2>2, ReleaseQueued
<1>13. ASSUME NEW u \in User, Flush(u) PROVE ReleaseInv'
  <2>1. UNCHANGED <<call, request, queue, promise>> /\ ~flush[u].on
    BY <1>13 DEF Flush
  <2>2. /\ flush'[u].on /\ flush'[u].todo = queue[u]
        /\ \A w \in User \ {u} : flush'[w] = flush[w]
    BY <1>13 DEF Flush, NoFlush, TypeOK
  <2>3. ASSUME NEW w \in User PROVE PromiseInv(w)'
    <3>1. CASE w = u
      <4>1. call[<<u, "flush">>] = "none"
        BY <2>1 DEF ReleaseInv, PromiseInv
      <4> QED
        BY <3>1, <4>1, <2>1, <2>2 DEF ReleaseInv, PromiseInv
    <3>2. CASE w # u
      BY <3>2, <2>1, <2>2 DEF ReleaseInv, PromiseInv
    <3> QED
      BY <3>1, <3>2
  <2> QED
    BY <2>1, <2>3, ReleaseQueued
<1>14. ASSUME NEW u \in User, FlushOther(u) PROVE ReleaseInv'
  <2>1. PICK through \in BOOLEAN : Sent(u, through)
    BY <1>14 DEF FlushOther
  <2>2. UNCHANGED <<call, request, queue, promise>> /\ Head(flush[u].todo) # This
    BY <1>14 DEF FlushOther
  <2>3. ASSUME NEW w \in User PROVE PromiseInv(w)'
    <3>1. CASE w = u
      <4>1. flush[u].on /\ flush'[u].on /\ call[<<u, "flush">>] = "none"
        BY <2>1, <2>2, <1>f DEF ReleaseInv, PromiseInv
      <4>2. This \in ToSet(flush[u].todo) \cup ToSet(flush[u].left)
              => This \in ToSet(flush'[u].todo) \cup ToSet(flush'[u].left)
        BY <2>1, <2>2, <1>f
      <4> QED
        BY <3>1, <4>1, <4>2, <2>2 DEF ReleaseInv, PromiseInv
    <3>2. CASE w # u
      <4>1. flush'[w] = flush[w]
        BY <3>2, <2>1, <1>f
      <4> QED
        BY <4>1, <2>2 DEF ReleaseInv, PromiseInv
    <3> QED
      BY <3>1, <3>2
  <2> QED
    BY <2>2, <2>3, ReleaseQueued
<1>15. ASSUME NEW u \in User, FlushEnd(u) PROVE ReleaseInv'
  <2>1. UNCHANGED <<call, request, promise>> /\ flush[u].on /\ flush[u].todo = <<>>
    BY <1>15 DEF FlushEnd
  <2>2. /\ queue'[u] = flush[u].left /\ ~flush'[u].on /\ flush'[u].todo = <<>>
        /\ \A w \in User \ {u} : flush'[w] = flush[w] /\ queue'[w] = queue[w]
    BY <1>15 DEF FlushEnd, NoFlush, TypeOK
  <2>3. ToSet(flush[u].todo) = {}
    BY <2>1 DEF ToSet
  <2>4. ASSUME NEW w \in User PROVE PromiseInv(w)'
    <3>1. CASE w = u
      <4>1. call[<<u, "flush">>] = "none"
        BY <2>1 DEF ReleaseInv, PromiseInv
      <4> QED
        BY <3>1, <4>1, <2>1, <2>2, <2>3 DEF ReleaseInv, PromiseInv
    <3>2. CASE w # u
      BY <3>2, <2>1, <2>2 DEF ReleaseInv, PromiseInv
    <3> QED
      BY <3>1, <3>2
  <2> QED
    BY <2>1, <2>4, ReleaseQueued
<1> QED
  BY <1>2, <1>3, <1>4, <1>5, <1>6, <1>7, <1>8, <1>9, <1>10, <1>11, <1>12, <1>13, <1>14, <1>15, <1>k
     DEF Next

\* A release the user was told of is sent again until the server decides it,
\* however often it fails, for a queue of any length and any other engines in
\* it, unless it was queued during a flush or crowded out.
THEOREM ReleasesKept == Spec => []ReleaseKept
<1>1. Init => TypeOK /\ ReleaseInv
  BY TypeInit, ReleaseInit
<1>2. TypeOK /\ ReleaseInv /\ [Next]_vars => (TypeOK /\ ReleaseInv)'
  BY TypeStep, ReleaseStep
<1>3. ReleaseInv => ReleaseKept
  BY DEF ReleaseInv, PromiseInv, ReleaseKept
<1> QED
  BY <1>1, <1>2, <1>3, PTL DEF Spec

-----------------------------------------------------------------------------
(* The recorded lock is the one the server decides by.                     *)

\* A request that carries the newest ledger entry to the row.
Carrier(r) == r.at \in {"check", "apply"} /\ r.seq = ledger.seq

RecordInv ==
  /\ \A s \in Slot :
       /\ request[s].at \notin {"free", "answer"} => request[s].inst \in Inst
       /\ Carrier(request[s]) => request[s].next = ledger.value
  /\ \/ row.value = ledger.value
     \/ \E s \in Slot : request[s].at = "sign" \/ Carrier(request[s])
     \/ apart

LEMMA RecordImplied == RecordInv => LockIsRecorded
<1> SUFFICES ASSUME RecordInv, NEW s \in Slot, request[s].at \in {"sign", "check", "apply"}
             PROVE  \E i \in Inst : Recording(i) # {}
  BY DEF RecordInv, LockIsRecorded, Carrier
<1>1. request[s].inst \in Inst /\ s \in Recording(request[s].inst)
  BY DEF RecordInv, Recording
<1> QED
  BY <1>1

\* A step that records nothing: what is on its way to the ledger and the row
\* stays on its way, or is given up in the open.
StillCarrying(s) ==
  \/ /\ request[s].at \notin {"sign", "check", "apply"}
     /\ \/ request'[s].at \in {"free", "answer"}
        \/ request'[s].at \in {"define", "read", "write"} /\ request'[s].inst \in Inst
  \/ request'[s].at = request[s].at /\ request'[s].inst = request[s].inst
     /\ request'[s].seq = request[s].seq /\ request'[s].next = request[s].next

LEMMA RecordKept ==
  ASSUME RecordInv, UNCHANGED <<row, ledger, apart>>, \A s \in Slot : StillCarrying(s)
  PROVE  RecordInv'
BY DEF RecordInv, StillCarrying, Carrier

LEMMA RecordInit == Init => RecordInv
BY DEF Init, RecordInv, NoRequest, Carrier

LEMMA RecordStep == TypeOK /\ RecordInv /\ [Next]_vars => RecordInv'
<1> SUFFICES ASSUME TypeOK, RecordInv, [Next]_vars PROVE RecordInv'
  OBVIOUS
<1> USE DEF server, caches, queues
<1>a. /\ ledger.seq \in Nat /\ DOMAIN request = Slot
      /\ \A s \in Slot : request[s] \in Request(ledger.seq)
  BY DEF TypeOK
<1>b. \A s \in Slot : request'[s] = request[s] => StillCarrying(s)
  BY DEF StillCarrying
<1>c. \A r : \A a : Reply(r, a).at \in {"free", "answer"}
  BY DEF Reply, NoRequest
<1>d. NoRequest.at = "free"
  BY DEF NoRequest
<1>1. ASSUME NEW c, NEW op, Send(c, op) PROVE RecordInv'
  <2>1. PICK i \in Inst, s \in Slot :
          /\ request[s] = NoRequest
          /\ request' = [request EXCEPT ![s] = [NoRequest EXCEPT
               !.at = "read", !.op = op, !.user = c[1], !.inst = i, !.for = c]]
    BY <1>1 DEF Send
  <2>2. request'[s].at = "read" /\ request'[s].inst \in Inst /\ request[s].at = "free"
        /\ \A q \in Slot \ {s} : request'[q] = request[q]
    BY <2>1, <1>a DEF NoRequest
  <2>3. \A q \in Slot : StillCarrying(q)
    BY <2>2, <1>b DEF StillCarrying
  <2> QED
    BY <1>1, <2>3, RecordKept DEF Send
<1>2. ASSUME NEW u \in User, FlushThis(u) \/ \E op \in {"acquire", "release"} : Ask(u, op)
      PROVE  RecordInv'
  BY <1>1, <1>2 DEF FlushThis, Ask
<1>3. ASSUME NEW s \in Slot, Answer(s) PROVE RecordInv'
  <2>1. /\ UNCHANGED <<row, ledger, apart>>
        /\ request[s].at = "answer" /\ request'[s] = NoRequest
        /\ \A q \in Slot \ {s} : request'[q] = request[q]
    BY <1>3, <1>a DEF Answer
  <2>2. \A q \in Slot : StillCarrying(q)
    BY <2>1, <1>b, <1>d DEF StillCarrying
  <2> QED
    BY <2>1, <2>2, RecordKept
<1>4. ASSUME NEW c \in Caller, GiveUp(c) PROVE RecordInv'
  <2>1. \A s \in Slot : LET r == [request[s] EXCEPT !.for = None] IN
          r.at = request[s].at /\ r.inst = request[s].inst /\ r.seq = request[s].seq
          /\ r.next = request[s].next
    BY <1>a DEF Request
  <2>2. ASSUME NEW s \in Slot PROVE StillCarrying(s)
    <3>1. \/ request'[s] = request[s]
          \/ request'[s] = NoRequest /\ request[s].at = "answer"
          \/ request'[s] = [request[s] EXCEPT !.for = None]
      BY <1>4 DEF GiveUp
    <3> QED
      BY <3>1, <2>1, <1>d DEF StillCarrying
  <2> QED
    BY <1>4, <2>2, RecordKept DEF GiveUp
<1>e. ASSUME NEW s \in Slot, LookUp(s) \/ Define(s) PROVE RecordInv'
  <2>1. /\ UNCHANGED <<row, ledger, apart>> /\ request[s].at \in {"define", "read"}
        /\ \A q \in Slot \ {s} : request'[q] = request[q]
        /\ \/ request'[s] = [request[s] EXCEPT !.at = "define"]
           \/ request'[s] = [request[s] EXCEPT !.at = "read"]
           \/ request'[s] = Reply(request[s], "error")
    BY <1>e, <1>a DEF LookUp, Define
  <2>2. \A a : LET r == [request[s] EXCEPT !.at = a] IN r.at = a /\ r.inst \in Inst
    BY <1>a, <2>1 DEF Request, RecordInv
  <2>3. \/ request'[s].at \in {"free", "answer"}
        \/ request'[s].at \in {"define", "read"} /\ request'[s].inst \in Inst
    <3>1. CASE request'[s] = Reply(request[s], "error")
      BY <3>1, <1>c
    <3>2. CASE request'[s] = [request[s] EXCEPT !.at = "define"]
      BY <3>2, <2>2
    <3>3. CASE request'[s] = [request[s] EXCEPT !.at = "read"]
      BY <3>3, <2>2
    <3> QED
      BY <2>1, <3>1, <3>2, <3>3
  <2>4. \A q \in Slot : StillCarrying(q)
    BY <2>1, <2>3, <1>b DEF StillCarrying
  <2> QED
    BY <2>1, <2>4, RecordKept
<1>5. ASSUME NEW s \in Slot, Decide(s) PROVE RecordInv'
  <2>1. /\ UNCHANGED <<row, ledger, apart>> /\ request[s].at = "read"
        /\ \A q \in Slot \ {s} : request'[q] = request[q]
    BY <1>5, <1>a DEF Decide
  <2>2. \A v : Write(request[s], v).at = "write" /\ Write(request[s], v).inst \in Inst
    BY <1>a, <2>1 DEF Write, Request, RecordInv
  <2>3. \/ request'[s].at \in {"free", "answer"}
        \/ request'[s].at = "write" /\ request'[s].inst \in Inst
    <3>1. request'[s] = IF request[s].op = "acquire" THEN DecideAcquire(request[s])
                        ELSE DecideRelease(request[s])
      BY <1>5, <1>a DEF Decide
    <3> QED
      BY <3>1, <2>2, <1>c DEF DecideAcquire, DecideRelease
  <2>4. \A q \in Slot : StillCarrying(q)
    BY <2>1, <2>3, <1>b DEF StillCarrying
  <2> QED
    BY <2>1, <2>4, RecordKept
<1>6. ASSUME NEW s \in Slot, Raced(s) PROVE RecordInv'
  <2>1. /\ UNCHANGED <<row, ledger, apart>> /\ request[s].at = "write"
        /\ \A q \in Slot \ {s} : request'[q] = request[q]
        /\ \/ request'[s] = [request[s] EXCEPT !.at = "read", !.attempt = 1]
           \/ request'[s] = Reply(request[s], "conflict")
    BY <1>6, <1>a DEF Raced
  <2>2. LET r == [request[s] EXCEPT !.at = "read", !.attempt = 1] IN
          r.at = "read" /\ r.inst \in Inst
    BY <1>a, <2>1 DEF Request, RecordInv
  <2>a. request'[s].at \in {"free", "answer"} \/ (request'[s].at = "read" /\ request'[s].inst \in Inst)
    BY <2>1, <2>2, <1>c
  <2>3. \A q \in Slot : StillCarrying(q)
    BY <2>1, <2>a, <1>b DEF StillCarrying
  <2> QED
    BY <2>1, <2>3, RecordKept
<1>7. ASSUME NEW s \in Slot, CompareAndSet(s) PROVE RecordInv'
  <2>1. /\ UNCHANGED <<ledger, apart>> /\ request[s].at = "write"
        /\ \A q \in Slot \ {s} : request'[q] = request[q]
        /\ request'[s].at = "sign" /\ request'[s].inst = request[s].inst
    BY <1>7, <1>a DEF CompareAndSet, Request
  <2>2. request[s].inst \in Inst
    BY <2>1 DEF RecordInv
  <2> QED
    BY <2>1, <2>2 DEF RecordInv, Carrier
<1>8. ASSUME NEW s \in Slot, Sign(s) PROVE RecordInv'
  <2>1. /\ request[s].at = "sign" /\ \A q \in Slot \ {s} : request'[q] = request[q]
        /\ request'[s].at = "check" /\ request'[s].inst = request[s].inst
        /\ request'[s].seq = ledger.seq + 1 /\ request'[s].next = request[s].next
        /\ ledger' = [seq |-> ledger.seq + 1, value |-> request[s].next]
    BY <1>8, <1>a DEF Sign, Request
  <2>2. \A q \in Slot \ {s} : request'[q].seq \in 0 .. ledger.seq
    BY <2>1, <1>a DEF Request
  <2>3. \A q \in Slot \ {s} : ~Carrier(request[q])'
    BY <2>1, <2>2, <1>a DEF Carrier
  <2>4. Carrier(request[s])' /\ (request[s].next = ledger.value)'
    BY <2>1 DEF Carrier
  <2> QED
    BY <2>1, <2>3, <2>4 DEF RecordInv
<1>9. ASSUME NEW s \in Slot, CheckStale(s) PROVE RecordInv'
  <2>1. UNCHANGED <<row, ledger>> /\ request[s].at = "check"
        /\ \A q \in Slot \ {s} : request'[q] = request[q]
    BY <1>9, <1>a DEF CheckStale
  <2>2. CASE request' = [request EXCEPT ![s].at = "apply"] /\ UNCHANGED apart
    <3>a. request'[s] = [request[s] EXCEPT !.at = "apply"] /\ request[s] \in Request(ledger.seq)
      BY <2>2, <1>a
    <3>1. /\ request'[s].at = "apply" /\ request'[s].inst = request[s].inst
          /\ request'[s].seq = request[s].seq /\ request'[s].next = request[s].next
      BY <3>a DEF Request
    <3>b. \A q \in Slot \ {s} : Carrier(request[q]) <=> Carrier(request[q])'
      BY <2>1 DEF Carrier
    <3>c. Carrier(request[s]) <=> Carrier(request[s])'
      BY <3>1, <2>1 DEF Carrier
    <3>2. \A q \in Slot : Carrier(request[q]) <=> Carrier(request[q])'
      BY <3>b, <3>c
    <3> QED
      BY <3>1, <3>2, <2>1, <2>2 DEF RecordInv
  <2>3. CASE request' = [request EXCEPT ![s] = Reply(request[s], "error")] /\ apart' = TRUE
    <3>1. request'[s].at \in {"free", "answer"}
      BY <2>3, <1>a, <1>c
    <3> QED
      BY <3>1, <2>1, <2>3 DEF RecordInv, Carrier
  <2> QED
    BY <1>9, <2>2, <2>3 DEF CheckStale
<1>10. ASSUME NEW s \in Slot, Apply(s) PROVE RecordInv'
  <2> DEFINE r == request[s]
             inOrder == row.updated = r.ts /\ row.value = r.next
  <2>1. /\ ledger' = ledger /\ r.at = "apply" /\ row'.value = r.next
        /\ request'[s].at = "finish" /\ request'[s].inst = r.inst
        /\ \A q \in Slot \ {s} : request'[q] = request[q]
        /\ apart' = (~inOrder \/ (apart /\ r.seq # ledger.seq))
    BY <1>10, <1>a DEF Apply, NoRequest
  <2>2. r.inst \in Inst
    BY <2>1 DEF RecordInv
  <2>3. \A q \in Slot \ {s} : Carrier(request[q]) <=> Carrier(request[q])'
    BY <2>1 DEF Carrier
  <2>4. ~Carrier(request[s])'
    BY <2>1 DEF Carrier
  <2>5. CASE r.seq = ledger.seq
    <3>1. r.next = ledger.value
      BY <2>1, <2>5 DEF RecordInv, Carrier
    <3> QED
      BY <3>1, <2>1, <2>2, <2>3, <2>4 DEF RecordInv
  <2>6. CASE r.seq # ledger.seq
    <3>1. CASE ~inOrder \/ apart
      BY <3>1, <2>1, <2>2, <2>3, <2>4, <2>6 DEF RecordInv
    <3>2. CASE inOrder /\ ~apart
      <4>1. row'.value = row.value
        BY <3>2, <2>1
      <4>2. \A q \in Slot : request[q].at = "sign" \/ Carrier(request[q]) => q \in Slot \ {s}
        BY <2>1, <2>6 DEF Carrier
      <4> QED
        BY <3>2, <4>1, <4>2, <2>1, <2>2, <2>3, <2>4 DEF RecordInv
    <3> QED
      BY <3>1, <3>2
  <2> QED
    BY <2>5, <2>6
<1>11. ASSUME NEW s \in Slot, Finish(s) PROVE RecordInv'
  <2>1. /\ UNCHANGED <<row, ledger, apart>> /\ request[s].at = "finish"
        /\ \A q \in Slot \ {s} : request'[q] = request[q]
        /\ request'[s].at \in {"free", "answer"}
    BY <1>11, <1>a, <1>c DEF Finish
  <2>2. \A q \in Slot : StillCarrying(q)
    BY <2>1, <1>b DEF StillCarrying
  <2> QED
    BY <2>1, <2>2, RecordKept
<1>12. ASSUME NEW i \in Inst, Restart(i) PROVE RecordInv'
  <2> DEFINE lost == {s \in Slot : request[s].inst = i}
  <2>1. /\ UNCHANGED <<row, ledger>>
        /\ request' = [s \in Slot |-> IF s \in lost THEN NoRequest ELSE request[s]]
        /\ apart' = (apart \/ \E s \in lost : request[s].at \in {"sign", "check", "apply"})
    BY <1>12 DEF Restart
  <2>2. \A s \in Slot : (s \in lost /\ request'[s].at = "free") \/ (s \notin lost /\ request'[s] = request[s])
    BY <2>1, <1>d
  <2> HIDE DEF lost
  <2>3. \A s \in Slot : s \notin lost => (Carrier(request[s]) <=> Carrier(request[s])')
    BY <2>1, <2>2 DEF Carrier
  <2>4. \A s \in Slot : s \in lost => ~Carrier(request[s])'
    BY <2>2 DEF Carrier
  <2>5. \A s \in lost : s \in Slot
    BY DEF lost
  <2>6. \A s \in lost : request[s].at = "sign" \/ Carrier(request[s]) => apart'
    BY <2>1 DEF Carrier
  <2>7. (\/ row.value = ledger.value
         \/ \E s \in Slot : request[s].at = "sign" \/ Carrier(request[s])
         \/ apart)'
    BY <2>1, <2>2, <2>3, <2>6 DEF RecordInv
  <2> QED
    BY <2>1, <2>2, <2>3, <2>4, <2>7 DEF RecordInv
<1>13. CASE \/ GateFill \/ Tick \/ UNCHANGED vars
            \/ \E i \in Gated : GateBlind(i) \/ GateRead(i) \/ \E push \in BOOLEAN : GateList(i, push)
            \/ \E u \in User : Flush(u) \/ FlushOther(u) \/ FlushEnd(u) \/ \E e \in Other : PostponeOther(u, e)
  <2>1. UNCHANGED <<row, ledger, apart, request>>
    BY <1>13 DEF GateFill, Tick, GateBlind, GateRead, GateList, Flush, FlushOther, FlushEnd,
       PostponeOther, vars
  <2> QED
    BY <2>1, <1>b, RecordKept
<1> QED
  BY <1>2, <1>3, <1>4, <1>5, <1>6, <1>7, <1>8, <1>9, <1>10, <1>11, <1>12, <1>13, <1>e DEF Next

\* The clients learn the lock the server decides by: when the two differ, a
\* change is on its way to the ledger and the row, or one was lost or came out
\* of order on the way.
THEOREM LocksRecorded == Spec => []LockIsRecorded
<1>1. Init => TypeOK /\ RecordInv
  BY TypeInit, RecordInit
<1>2. TypeOK /\ RecordInv /\ [Next]_vars => (TypeOK /\ RecordInv)'
  BY TypeStep, RecordStep
<1> QED
  BY <1>1, <1>2, RecordImplied, PTL DEF Spec
=============================================================================
