-------------------------- MODULE EngineReservation --------------------------
(***************************************************************************)
(* The advisory lock of one engine: a value the server keeps in one row of  *)
(* attribute_values (engineReservationService.ts), records in the ledger    *)
(* like any change of a row (syncWriteService.ts, applyPushBatch.ts), and   *)
(* caches in every instance for the gate of the pushes                      *)
(* (engineReservationGuard.ts); a client whose release does not get through *)
(* keeps it in a queue (engineReservationClient.ts).                        *)
(*                                                                         *)
(* The row is written twice by every change: by a compare-and-set on its    *)
(* updated_at, and again when the ledger entry of the change is projected.  *)
(* All of this is per engine and modelled for one, "This".  Engines share   *)
(* the definition of the attribute, whose list of ids is cached a second    *)
(* time, and the queue of a client: of the others the queue is modelled,    *)
(* and the server's answer to their releases is any.                        *)
(*                                                                         *)
(* One check of the gate is under way at a time, and one flush per client.  *)
(* When a lock was taken and who released it only matter to texts and to    *)
(* the grace of edits made before it.                                       *)
(***************************************************************************)
EXTENDS Integers, FiniteSets, Sequences, SequencesExt

CONSTANTS
  User,         \* each with one client
  Admin,
  Locks,        \* what the row may say at the start
  Inst,         \* server instances
  Gated,        \* those that pushes are sent to
  Slot,         \* requests that may be at the server at the same time
  None,
  This,         \* the engine
  Other,        \* other engines
  Cap,          \* PENDING_RELEASE_CAP
  TTL,          \* ENGINE_RESERVATION_TTL_MS
  RenewAfter,   \* ENGINE_RESERVATION_RENEW_AFTER_MS
  CacheTTL,     \* CACHE_TTL_MS
  MaxTime,      \* bound: the time
  Budgets       \* bounds, of which one is taken: what the users ask for (calls),
                \* reads of the lock that miss the cache (reads), releases of other
                \* engines that are queued (others), calls given up and instances
                \* stopped (faults)

\* A client calls from the card of the engine and from the flush of its queue.
Caller == User \X {"card", "flush"}

ASSUME ReservationAssumption ==
  /\ Admin \subseteq User /\ Gated \subseteq Inst /\ None \notin User \cup Inst \cup Caller
  /\ Locks \subseteq [holder : User \cup {None}, expires : Nat, released : BOOLEAN]
  /\ This \notin Other
  /\ {TTL, CacheTTL, Cap} \subseteq Nat \ {0} /\ RenewAfter \in 1 .. TTL
  /\ MaxTime \in Nat \ {0}
  /\ Budgets \subseteq [calls : Nat, reads : Nat, others : Nat, faults : Nat]

VARIABLES
  now,         \* the clock of the server
  defined,     \* the attribute has a definition
  row,         \* the committed row: its value, updated_at and last_server_seq
  ledger,      \* the newest ledger entry of the row
  request,     \* requests at the server
  cache,       \* liveCache of each instance
  defs,        \* cachedDefIds of each instance where it is the empty list; with the
               \* definition in it, it is never wrong and as good as read
  gate,        \* a check of the gate, or a read for a card, that waits for the database
  call,        \* what each client waits for: its card and its flush of the queue
  queue,       \* EngineReservationPendingRelease of each client
  flush,       \* the flush of the queue: what it has still to send, and could not
  granted,     \* history: until when each user was given the lock, 0 if not
  overwritten, \* history: a change was projected over a later one
  apart,       \* history: a change was not recorded, or not in order
  promise,     \* history: of a release the user was told will be made up for and
               \* the server has not decided since, what became of it
  budget

server  == <<defined, row, ledger, granted, overwritten, apart>>
caches  == <<cache, defs, gate>>
queues  == <<queue, flush>>
vars    == <<now, server, request, caches, call, queues, promise, budget>>

-----------------------------------------------------------------------------

Free == [holder |-> None, expires |-> 0, released |-> FALSE]

NoRequest == [at |-> "free", op |-> "none", user |-> None, inst |-> None, for |-> None,
              attempt |-> 0, seen |-> 0, next |-> Free, ts |-> 0, seq |-> 0, answer |-> "none"]
NoEntry   == [at |-> 0, value |-> Free, outdated |-> 0, own |-> FALSE, excused |-> FALSE,
              blind |-> FALSE]
NoGate    == [inst |-> None, entry |-> NoEntry, list |-> FALSE, push |-> FALSE]
NoFlush   == [on |-> FALSE, todo |-> <<>>, left |-> <<>>]

\* No row yet is a row with updated_at 0: the insert that does nothing when the
\* row is there by now is the same comparison.
Init ==
  /\ now = 1
  /\ \E lock \in Locks :
       /\ row = [value |-> lock, updated |-> IF lock.holder = None THEN 0 ELSE 1, seq |-> 0]
       /\ ledger = [seq |-> 0, value |-> lock]
       /\ defined \in BOOLEAN /\ (lock.holder # None => defined)
       /\ granted = [u \in User |-> IF u = lock.holder /\ ~lock.released THEN lock.expires ELSE 0]
  /\ request = [s \in Slot |-> NoRequest]
  /\ cache = [i \in Inst |-> NoEntry] /\ defs = cache
  /\ gate = NoGate
  /\ call = [c \in Caller |-> "none"]
  /\ overwritten = FALSE /\ apart = FALSE
  /\ queue = [u \in User |-> <<>>] /\ flush = [u \in User |-> NoFlush]
  /\ promise = [u \in User |-> "none"]
  /\ budget \in Budgets

Spend(kind) == budget[kind] > 0 /\ budget' = [budget EXCEPT ![kind] = @ - 1]

IsLive(value) == value.holder # None /\ ~value.released /\ value.expires > now
ShouldRenew(value) == value.expires - now < RenewAfter

Larger(a, b) == IF a > b THEN a ELSE b

-----------------------------------------------------------------------------
(* The client: acquireEngineReservation, releaseEngineReservation,          *)
(* flushPendingEngineReservationReleases.                                   *)

Send(c, op) ==
  /\ call[c] = "none"
  /\ call' = [call EXCEPT ![c] = op]
  /\ \E i \in Inst, s \in Slot :
       /\ request[s] = NoRequest
       /\ request' = [request EXCEPT ![s] = [NoRequest EXCEPT
            !.at = "read", !.op = op, !.user = c[1], !.inst = i, !.for = c]]
  /\ UNCHANGED <<now, server, caches, queues, promise>>

Ask(u, op) == Spend("calls") /\ Send(<<u, "card">>, op)

\* writePendingReleases with one more engine: each once, the last Cap of them.
Queued(list, e) ==
  IF e \in ToSet(list) THEN list
  ELSE IF Len(list) < Cap THEN Append(list, e) ELSE Append(Tail(list), e)

\* The release of another engine does not get through.
PostponeOther(u, e) ==
  /\ Spend("others")
  /\ queue' = [queue EXCEPT ![u] = Queued(@, e)]
  /\ promise' = [promise EXCEPT ![u] =
       IF @ = "kept" /\ This \in ToSet(queue[u]) \ ToSet(queue'[u]) THEN "crowded" ELSE @]
  /\ UNCHANGED <<now, server, request, caches, call, flush>>

\* After a successful sync the queue is read, once.
Flush(u) ==
  /\ ~flush[u].on /\ queue[u] # <<>>
  /\ flush' = [flush EXCEPT ![u] = [NoFlush EXCEPT !.on = TRUE, !.todo = queue[u]]]
  /\ UNCHANGED <<now, server, request, caches, call, queue, promise, budget>>

\* The flush sends the releases one after the other.
FlushThis(u) ==
  /\ flush[u].todo # <<>> /\ Head(flush[u].todo) = This
  /\ Send(<<u, "flush">>, "release")
  /\ UNCHANGED budget

\* The flush is done with the first release, which got through or did not.
Sent(u, through) ==
  /\ flush[u].todo # <<>>
  /\ flush' = [flush EXCEPT ![u].todo = Tail(@),
                 ![u].left = IF through THEN @ ELSE Append(@, Head(flush[u].todo))]

FlushOther(u) ==
  /\ \E through \in BOOLEAN : Sent(u, through)
  /\ Head(flush[u].todo) # This
  /\ UNCHANGED <<now, server, request, caches, call, queue, promise, budget>>

\* It writes back what it could not send, whatever the queue has become.
FlushEnd(u) ==
  /\ flush[u].on /\ flush[u].todo = <<>>
  /\ queue' = [queue EXCEPT ![u] = flush[u].left]
  /\ flush' = [flush EXCEPT ![u] = NoFlush]
  /\ UNCHANGED <<now, server, request, caches, call, promise, budget>>

\* A release that did not get through: the card's is queued and shown as done,
\* the flush leaves its own in the list.
Postpone(c) ==
  LET u == c[1] IN
  /\ call' = [call EXCEPT ![c] = "none"]
  /\ IF c[2] = "card"
     THEN /\ queue' = [queue EXCEPT ![u] = Queued(@, This)]
          /\ promise' = [promise EXCEPT ![u] = IF flush[u].on THEN "overlapped" ELSE "kept"]
          /\ UNCHANGED flush
     ELSE Sent(u, FALSE) /\ UNCHANGED <<queue, promise>>

\* The call of c has an answer that is not a failure.
Settle(c) ==
  /\ call' = [call EXCEPT ![c] = "none"]
  /\ IF c[2] = "flush" THEN Sent(c[1], TRUE) ELSE UNCHANGED flush
  /\ UNCHANGED <<queue, promise>>

Drop(c) == call' = [call EXCEPT ![c] = "none"] /\ UNCHANGED <<queues, promise>>

\* ok, 403 and 404 end a flush; a 5xx is no connection; the rest is shown.
Finished(c, answer) ==
  \/ /\ answer \in {"ok", "forbidden"}
     /\ Settle(c)
  \/ /\ \/ answer = "error" /\ call[c] = "release"
        \/ answer = "conflict" /\ c[2] = "flush"
     /\ Postpone(c)
  \/ /\ \/ answer = "error" /\ call[c] = "acquire"
        \/ answer = "conflict" /\ c[2] = "card"
     /\ Drop(c)

Answer(s) ==
  LET r == request[s] IN
  /\ r.at = "answer" /\ r.for # None
  /\ request' = [request EXCEPT ![s] = NoRequest]
  /\ Finished(r.for, r.answer)
  /\ UNCHANGED <<now, server, caches, budget>>

\* The request the call of c waits for.
Waiting(c) == {s \in Slot : request[s].for = c}

\* Mutant of GiveUp: the flush drops what it could not send.
GiveUpForgetting(c) ==
  /\ call[c] # "none"
  /\ IF Waiting(c) = {} THEN UNCHANGED budget ELSE Spend("faults")
  /\ request' = [s \in Slot |->
       CASE s \notin Waiting(c) -> request[s]
         [] s \in Waiting(c) /\ request[s].at = "answer" -> NoRequest
         [] OTHER -> [request[s] EXCEPT !.for = None]]
  /\ IF call[c] = "acquire" THEN Drop(c)
     ELSE IF c[2] = "flush" THEN Settle(c) ELSE Postpone(c)
  /\ UNCHANGED <<now, server, caches>>

\* The request times out, or its instance has stopped: it is not waited for any
\* longer and may still run.  The further attempts of a release are left to the
\* flushes.
GiveUp(c) ==
  /\ call[c] # "none"
  /\ IF Waiting(c) = {} THEN UNCHANGED budget ELSE Spend("faults")
  /\ request' = [s \in Slot |->
       CASE s \notin Waiting(c) -> request[s]
         [] s \in Waiting(c) /\ request[s].at = "answer" -> NoRequest
         [] OTHER -> [request[s] EXCEPT !.for = None]]
  /\ IF call[c] = "acquire" THEN Drop(c) ELSE Postpone(c)
  /\ UNCHANGED <<now, server, caches>>

-----------------------------------------------------------------------------
(* The server: acquireEngineReservation, releaseEngineReservation.          *)

Reply(r, answer) ==
  IF r.for = None THEN NoRequest
  ELSE [NoRequest EXCEPT !.at = "answer", !.for = r.for, !.answer = answer]

Write(r, value) == [r EXCEPT !.at = "write", !.next = value, !.seen = row.updated]

\* What is decided of the row and the time, both read at once.
DecideAcquire(r) ==
  LET v == row.value IN
  CASE IsLive(v) /\ v.holder # r.user -> Reply(r, "conflict")
    [] IsLive(v) /\ v.holder = r.user /\ ~ShouldRenew(v) -> Reply(r, "ok")
    [] OTHER -> Write(r, [holder |-> r.user, expires |-> now + TTL, released |-> FALSE])

DecideRelease(r) ==
  LET v == row.value IN
  CASE ~IsLive(v) -> Reply(r, "ok")
    [] IsLive(v) /\ v.holder # r.user /\ r.user \notin Admin -> Reply(r, "forbidden")
    [] OTHER -> Write(r, [v EXCEPT !.released = TRUE])

\* ensureEngineReservationDef where there is no definition: it is looked for,
\* and created; who comes second stumbles over its unique key.
LookUp(s) ==
  /\ request[s].at = "read" /\ ~defined
  /\ request' = [request EXCEPT ![s].at = "define"]
  /\ UNCHANGED <<now, server, caches, call, queues, promise, budget>>

Define(s) ==
  /\ request[s].at = "define"
  /\ defined' = TRUE
  /\ request' = [request EXCEPT ![s] = IF defined THEN Reply(@, "error") ELSE [@ EXCEPT !.at = "read"]]
  /\ UNCHANGED <<now, row, ledger, granted, overwritten, apart, caches, call, queues, promise, budget>>

\* The server has decided what the user has asked for.
Decided(r) == promise' = IF r.op = "release" THEN [promise EXCEPT ![r.user] = "none"] ELSE promise

Decide(s) ==
  LET r == request[s] IN
  /\ r.at = "read" /\ defined
  /\ request' = [request EXCEPT ![s] =
       IF r.op = "acquire" THEN DecideAcquire(r) ELSE DecideRelease(r)]
  /\ IF request'[s].at = "write" THEN UNCHANGED promise ELSE Decided(r)
  /\ UNCHANGED <<now, server, caches, call, queues, budget>>

\* What was read of the row is no longer what it says, by a change of this
\* instance or of another one.
Outdated(entry, own) ==
  IF entry = NoEntry THEN entry
  ELSE [entry EXCEPT !.own = @ \/ own, !.outdated = IF @ = 0 THEN now ELSE @]

Outdate(i) ==
  /\ cache' = [j \in Inst |-> Outdated(cache[j], i = j)]
  /\ defs' = [j \in Inst |-> Outdated(defs[j], i = j)]
  /\ gate' = IF gate # NoGate THEN [gate EXCEPT !.entry = Outdated(@, i = gate.inst)] ELSE gate

\* Mutants of CompareAndSet: the row is read again at the write; a release is
\* not recorded.
WriteUnchecked(s) ==
  LET r  == request[s]
      ts == Larger(now, row.updated + 1)
  IN
  /\ r.at = "write"
  /\ row' = [row EXCEPT !.value = r.next, !.updated = ts]
  /\ request' = [request EXCEPT ![s] = [r EXCEPT !.at = "sign", !.ts = ts, !.seen = 0, !.attempt = 0]]
  /\ granted' = [granted EXCEPT ![r.next.holder] = IF r.next.released THEN 0 ELSE r.next.expires]
  /\ Decided(r)
  /\ Outdate(r.inst)
  /\ UNCHANGED <<now, defined, ledger, overwritten, apart, call, queues, budget>>
ReleaseUnrecorded(s) ==
  LET r  == request[s]
      ts == Larger(now, r.seen + 1)
  IN
  /\ r.at = "write" /\ row.updated = r.seen
  /\ row' = [row EXCEPT !.value = r.next, !.updated = ts]
  /\ request' = [request EXCEPT ![s].at = IF r.op = "release" THEN "finish" ELSE "sign",
                                ![s].ts = ts]
  /\ granted' = [granted EXCEPT ![r.next.holder] = IF r.next.released THEN 0 ELSE r.next.expires]
  /\ Decided(r)
  /\ Outdate(r.inst)
  /\ UNCHANGED <<now, defined, ledger, overwritten, apart, call, queues, budget>>

\* The update where updated_at is still the one the decision saw.
CompareAndSet(s) ==
  LET r  == request[s]
      ts == Larger(now, r.seen + 1)
  IN
  /\ r.at = "write" /\ row.updated = r.seen
  /\ row' = [row EXCEPT !.value = r.next, !.updated = ts]
  /\ request' = [request EXCEPT ![s] = [r EXCEPT !.at = "sign", !.ts = ts, !.seen = 0, !.attempt = 0]]
  /\ granted' = [granted EXCEPT ![r.next.holder] = IF r.next.released THEN 0 ELSE r.next.expires]
  /\ Decided(r)
  /\ Outdate(r.inst)
  /\ UNCHANGED <<now, defined, ledger, overwritten, apart, call, queues, budget>>

\* The row has changed since: the decision is made once more.
Raced(s) ==
  LET r == request[s] IN
  /\ r.at = "write" /\ row.updated # r.seen
  /\ request' = [request EXCEPT ![s] =
       IF r.attempt = 0 THEN [r EXCEPT !.at = "read", !.attempt = 1] ELSE Reply(r, "conflict")]
  /\ UNCHANGED <<now, server, caches, call, queues, promise, budget>>

\* Mutant of Sign: the change is stamped and not appended.
SignNothing(s) ==
  LET r == request[s] IN
  /\ r.at = "sign"
  /\ request' = [request EXCEPT ![s].at = "check", ![s].seq = ledger.seq + 1]
  /\ UNCHANGED <<now, server, caches, call, queues, promise, budget>>

\* recordSyncChanges: the ledger entry first.
Sign(s) ==
  LET r == request[s] IN
  /\ r.at = "sign"
  /\ ledger' = [seq |-> ledger.seq + 1, value |-> r.next]
  /\ request' = [request EXCEPT ![s].at = "check", ![s].seq = ledger.seq + 1]
  /\ UNCHANGED <<now, defined, row, granted, overwritten, apart, caches, call, queues, promise, budget>>

\* filterStaleBySeqOrUpdatedAt: a row with a newer seq fails the request, after
\* its compare-and-set and before the cache is told of it.
CheckStale(s) ==
  LET r == request[s] IN
  /\ r.at = "check"
  /\ \/ /\ r.seq >= row.seq
        /\ request' = [request EXCEPT ![s].at = "apply"]
        /\ UNCHANGED <<apart, cache>>
     \/ /\ r.seq < row.seq
        /\ request' = [request EXCEPT ![s] = Reply(r, "error")]
        /\ apart' = TRUE
        /\ cache' = [cache EXCEPT ![r.inst].excused = @ \/ cache[r.inst].own]
  /\ UNCHANGED <<now, defined, row, ledger, granted, overwritten, defs, gate, call, queues, promise, budget>>

\* The upsert of the projection: whatever the row has become since.
Apply(s) ==
  LET r == request[s]
      inOrder == row.updated = r.ts /\ row.value = r.next
  IN
  /\ r.at = "apply"
  /\ row' = [value |-> r.next, updated |-> r.ts, seq |-> r.seq]
  /\ request' = [request EXCEPT ![s] = [NoRequest EXCEPT !.at = "finish", !.inst = r.inst,
                                                        !.for = r.for]]
  /\ overwritten' = (overwritten \/ ~inOrder)
  /\ apart' = (~inOrder \/ (apart /\ r.seq # ledger.seq))
  /\ IF inOrder THEN UNCHANGED caches ELSE Outdate(r.inst)
  /\ UNCHANGED <<now, defined, ledger, granted, call, queues, promise, budget>>

\* invalidateEngineReservationCache, of this instance only, and the answer.
Finish(s) ==
  LET r == request[s] IN
  /\ r.at = "finish"
  /\ cache' = [cache EXCEPT ![r.inst] = NoEntry]
  /\ request' = [request EXCEPT ![s] = Reply(r, "ok")]
  /\ UNCHANGED <<now, server, defs, gate, call, queues, promise, budget>>

\* An instance stops: its requests end where they are.
Restart(i) ==
  LET lost == {s \in Slot : request[s].inst = i} IN
  /\ lost # {} \/ cache[i] # NoEntry \/ defs[i] # NoEntry
  /\ Spend("faults")
  /\ request' = [s \in Slot |-> IF s \in lost THEN NoRequest ELSE request[s]]
  /\ apart' = (apart \/ \E s \in lost : request[s].at \in {"sign", "check", "apply"})
  /\ cache' = [cache EXCEPT ![i] = NoEntry] /\ defs' = [defs EXCEPT ![i] = NoEntry]
  /\ gate' = IF gate.inst = i THEN NoGate ELSE gate
  /\ UNCHANGED <<now, defined, row, ledger, granted, overwritten, call, queues, promise>>

-----------------------------------------------------------------------------
(* The gate of the pushes: getLiveEngineReservations.                       *)

\* An entry that is too old is never used again: as good as none.
InTime(entry, time) == IF time - entry.at < CacheTTL THEN entry ELSE NoEntry

\* An empty list of definitions that is still cached says there is no lock: the
\* entry starts a life of its own.
GateBlind(i) ==
  /\ cache[i] = NoEntry /\ defs[i] # NoEntry
  /\ Spend("reads")
  /\ cache' = [cache EXCEPT ![i] =
       [defs[i] EXCEPT !.at = now, !.excused = defs[i].own, !.blind = TRUE]]
  /\ UNCHANGED <<now, server, request, defs, gate, call, queues, promise>>

\* The list is read, for a push or for a card (getEngineReservation), and there
\* is no definition.
GateList(i, push) ==
  /\ gate = NoGate /\ defs[i] = NoEntry /\ ~defined /\ (push => cache[i] = NoEntry)
  /\ Spend("reads")
  /\ gate' = [inst |-> i, entry |-> [NoEntry EXCEPT !.at = now], list |-> TRUE, push |-> push]
  /\ UNCHANGED <<now, server, request, cache, defs, call, queues, promise>>

\* With a definition the row is read; the clock is read before.
GateRead(i) ==
  /\ gate = NoGate /\ cache[i] = NoEntry /\ defs[i] = NoEntry /\ defined
  /\ Spend("reads")
  /\ gate' = [inst |-> i, entry |-> [NoEntry EXCEPT !.at = now, !.value = row.value],
              list |-> FALSE, push |-> TRUE]
  /\ UNCHANGED <<now, server, request, cache, defs, call, queues, promise>>

\* Mutant of GateFill: the entry counts from the moment it is filled.
FillNow ==
  /\ gate # NoGate
  /\ cache' = IF ~gate.push THEN cache ELSE [cache EXCEPT ![gate.inst] =
       [gate.entry EXCEPT !.at = now, !.excused = gate.entry.own]]
  /\ defs' = IF gate.list THEN [defs EXCEPT ![gate.inst] = InTime(gate.entry, now)] ELSE defs
  /\ gate' = NoGate
  /\ UNCHANGED <<now, server, request, call, queues, promise, budget>>

\* The entries count from before the read, and replace whatever was done to the
\* caches in between.
GateFill ==
  /\ gate # NoGate
  /\ cache' = IF ~gate.push THEN cache ELSE [cache EXCEPT ![gate.inst] =
       InTime([gate.entry EXCEPT !.excused = gate.entry.own], now)]
  /\ defs' = IF gate.list THEN [defs EXCEPT ![gate.inst] = InTime(gate.entry, now)] ELSE defs
  /\ gate' = NoGate
  /\ UNCHANGED <<now, server, request, call, queues, promise, budget>>

Tick ==
  /\ now < MaxTime
  /\ now' = now + 1
  /\ cache' = [i \in Inst |-> InTime(cache[i], now')]
  /\ defs' = [i \in Inst |-> InTime(defs[i], now')]
  /\ UNCHANGED <<server, request, gate, call, queues, promise, budget>>

Next ==
  \/ \E u \in User : \/ \E op \in {"acquire", "release"} : Ask(u, op)
                      \/ \E e \in Other : PostponeOther(u, e)
                      \/ Flush(u) \/ FlushThis(u) \/ FlushOther(u) \/ FlushEnd(u)
  \/ \E c \in Caller : GiveUp(c)
  \/ \E s \in Slot : \/ Answer(s) \/ LookUp(s) \/ Define(s) \/ Decide(s) \/ CompareAndSet(s) \/ Raced(s)
                     \/ Sign(s) \/ CheckStale(s) \/ Apply(s) \/ Finish(s)
  \/ \E i \in Inst : Restart(i)
  \/ \E i \in Gated : GateBlind(i) \/ GateRead(i) \/ \E push \in BOOLEAN : GateList(i, push)
  \/ GateFill \/ Tick

Spec == Init /\ [][Next]_vars

-----------------------------------------------------------------------------
(* Properties.                                                             *)

Value == [holder : User \cup {None}, expires : Nat, released : BOOLEAN]
CacheEntry == [at : Nat, value : Value, outdated : Nat, own : BOOLEAN, excused : BOOLEAN,
               blind : BOOLEAN]
Engine == Other \cup {This}
RequestStep == {"free", "define", "read", "write", "sign", "check", "apply", "finish", "answer"}
Request(last) ==
  [at : RequestStep, op : {"none", "acquire", "release"}, user : User \cup {None},
   inst : Inst \cup {None}, for : Caller \cup {None}, attempt : 0 .. 1, seen : Nat,
   next : Value, ts : Nat, seq : 0 .. last,
   answer : {"none", "ok", "conflict", "forbidden", "error"}]

\* The shape of the state; no seq is ahead of the ledger.
TypeOK ==
  /\ now \in 1 .. MaxTime
  /\ row \in [value : Value, updated : Nat, seq : 0 .. ledger.seq]
  /\ ledger \in [seq : Nat, value : Value]
  /\ request \in [Slot -> Request(ledger.seq)]
  /\ defined \in BOOLEAN
  /\ cache \in [Inst -> CacheEntry] /\ defs \in [Inst -> CacheEntry]
  /\ gate \in [inst : Inst \cup {None}, entry : CacheEntry, list : BOOLEAN, push : BOOLEAN]
  /\ call \in [Caller -> {"none", "acquire", "release"}]
  /\ queue \in [User -> Seq(Engine)]
  /\ flush \in [User -> [on : BOOLEAN, todo : Seq(Engine), left : Seq(Engine)]]
  /\ promise \in [User -> {"none", "kept", "overlapped", "crowded"}]
  /\ granted \in [User -> Nat]
  /\ overwritten \in BOOLEAN /\ apart \in BOOLEAN
  /\ budget \in [calls : Nat, reads : Nat, others : Nat, faults : Nat]

\* A reservation given to a user is in force until it expires or is released:
\* the row names that user until that time, so that nobody else is given one;
\* unless a change was projected over a later one, which takes the
\* compare-and-set back.
GrantStands ==
  \A u \in User : granted[u] > now =>
    \/ row.value = [holder |-> u, expires |-> granted[u], released |-> FALSE]
    \/ overwritten

\* Requests at i between their compare-and-set and their end.
Recording(i) ==
  {s \in Slot : request[s].inst = i /\ request[s].at \in {"sign", "check", "apply", "finish"}}

\* The lock the clients learn of, the newest ledger entry, is the lock the
\* server decides by, unless a change is being recorded, or one was left
\* unrecorded or recorded out of order and none has been recorded since.
LockIsRecorded ==
  \/ row.value = ledger.value
  \/ \E i \in Inst : Recording(i) # {}
  \/ apart

\* The gate is never wrong for longer than the cache lasts, counted from the
\* change it missed, or twice as long where it took the change from an empty
\* list of definitions; and never wrong about a change its own instance has
\* answered, unless the gate was reading when it was made, or had that list
\* cached, or recording it failed and left the cache as it was.
GateFresh ==
  \A i \in Inst : cache[i].outdated # 0 =>
    /\ now - cache[i].outdated < IF cache[i].blind THEN 2 * CacheTTL ELSE CacheTTL
    /\ cache[i].own => Recording(i) # {} \/ cache[i].excused

\* A release the user was told will be made up for is in the queue until the
\* server has decided one, unless it was queued while the queue was flushed,
\* and the flush may write back the queue it had read, or the releases of other
\* engines have crowded it out since.
ReleaseKept == \A u \in User : promise[u] = "kept" => This \in ToSet(queue[u])
=============================================================================
