---------------------------- MODULE CommandOutbox ----------------------------
(***************************************************************************)
(* Commands of one desktop client that are retried, and what the server    *)
(* makes of the second one: warehouse documents (erpService.ts,            *)
(* warehouseCommandOutboxService.ts; routes/warehouse.ts,                  *)
(* commandIdempotencyService.ts) and pushes (syncService.ts;               *)
(* routes/ledger.ts, idempotencyCache.ts).                                 *)
(*                                                                         *)
(* A warehouse command is sent once directly, without a key; when that     *)
(* fails it is queued and sent by the drains with the key of its row, whose *)
(* successful results the instances share in a table.  A push carries its  *)
(* key from the start; each instance remembers the keys it has answered.   *)
(* A command stands for its key.  How a document changes is StockDocuments;*)
(* here a write is one step.                                               *)
(***************************************************************************)
EXTENDS Integers, FiniteSets, Sequences, SequencesExt

CONSTANTS
  Cmd,          \* the user's commands
  Kind,         \* of each: "create", "edit", "cancel" or "push"
  Target,       \* the document of each, or None for a push
  Document,
  Existing,     \* documents there at the start; the others are absent
  Task,         \* calls running in the client at the same time
  Inst,         \* server instances
  Slot,         \* requests that may be at the server at the same time
  None,
  MaxTries,     \* attempts of one HTTP call (3, of a push 5)
  DeadAfter,    \* failures that make a dead letter (8)
  MaxIssued,    \* bound: commands given
  MaxFaults     \* bound: calls lost or given up, restarts

ASSUME OutboxAssumption ==
  /\ Kind \in [Cmd -> {"create", "edit", "cancel", "push"}]
  /\ Target \in [Cmd -> Document \cup {None}]
  /\ \A c \in Cmd : Kind[c] # "push" => Target[c] \in Document
  /\ None \notin Document \cup Cmd \cup Task
  /\ Existing \subseteq Document
  /\ {MaxTries, DeadAfter} \subseteq Nat \ {0} /\ {MaxIssued, MaxFaults} \subseteq Nat

VARIABLES
  document,  \* status, version (updated_at) and content (the last command that wrote it)
  results,   \* command_idempotency: keys with a recorded success
  memory,    \* idempotencyCache of each instance
  request,   \* requests at the server
  issued,    \* the user's commands, in order
  seen,      \* expectedUpdatedAt of a cancel: the version the user saw
  outbox,    \* warehouse_command_outbox: status, attempts, lastError
  queue,     \* its rows in the order of createdAt
  task,      \* the client's running calls
  runs,      \* history: how often a command took effect, with and without a key
  cause,     \* history: what went wrong so far, and with which command
  faults

server == <<document, results, memory>>
client == <<issued, seen, outbox, queue>>
vars   == <<server, request, client, task, runs, cause, faults>>

-----------------------------------------------------------------------------

NoRequest == [cmd |-> None, keyed |-> FALSE, inst |-> None, at |-> "free", ok |-> FALSE,
              for |-> None]
NoTask == [at |-> "idle", cmd |-> None, keyed |-> FALSE, tries |-> 0, todo |-> <<>>]

Init ==
  /\ document = [d \in Document |-> [status |-> IF d \in Existing THEN "draft" ELSE "absent",
                                     version |-> 0, content |-> None]]
  /\ results = {} /\ memory = [i \in Inst |-> {}]
  /\ request = [s \in Slot |-> NoRequest]
  /\ issued = <<>> /\ seen = [c \in Cmd |-> 0]
  /\ outbox = [c \in Cmd |-> [status |-> "none", attempts |-> 0, error |-> "none"]]
  /\ queue = <<>>
  /\ task = [t \in Task |-> NoTask]
  /\ runs = [c \in Cmd |-> [keyed |-> 0, direct |-> 0]]
  /\ cause = {} /\ faults = 0

Before(c, d) == \E i, j \in DOMAIN issued : i < j /\ issued[i] = c /\ issued[j] = d
Done(c) == runs[c].keyed + runs[c].direct > 0
\* The calls of the client that will still send c.
Holding(c) == {t \in Task : task[t].cmd = c \/ \E i \in DOMAIN task[t].todo : task[t].todo[i] = c}

-----------------------------------------------------------------------------
(* The client: warehouseDocumentCreate, warehouseDocumentCancel, the push.  *)

\* The card of a document waits for its last command before it sends another.
Issue(t, c) ==
  /\ task[t] = NoTask /\ Len(issued) < MaxIssued /\ \A i \in DOMAIN issued : issued[i] # c
  /\ ~\E u \in Task : task[u].cmd # None /\ ~task[u].keyed /\ Target[task[u].cmd] = Target[c]
  /\ Kind[c] \in {"edit", "cancel"} => document[Target[c]].status # "absent"
  /\ issued' = Append(issued, c)
  /\ seen' = IF Kind[c] = "cancel" THEN [seen EXCEPT ![c] = document[Target[c]].version] ELSE seen
  /\ task' = [task EXCEPT ![t] = [NoTask EXCEPT !.at = "send", !.cmd = c,
                                                !.keyed = Kind[c] = "push"]]
  /\ UNCHANGED <<server, request, outbox, queue, runs, cause, faults>>

\* The next row of a drain, or its end.
Turn(todo) ==
  IF todo = <<>> THEN NoTask
  ELSE [NoTask EXCEPT !.at = "send", !.cmd = Head(todo), !.keyed = TRUE, !.todo = Tail(todo)]

\* Mutant of Pending: rows already applied are listed again.
NotDead == {c \in Cmd : outbox[c].status \in {"pending", "applied"}}

Pending == {c \in Cmd : outbox[c].status = "pending"}
\* listDueWarehouseCommands: a row that has failed may still be backing off.
DueRows == {S \in SUBSET Pending : \A c \in Pending : outbox[c].attempts = 0 => c \in S}
\* Mutant of InOrder: the newest row first.
NewestFirst(S) == Reverse(SelectSeq(queue, LAMBDA c : c \in S))

\* Those of the first n rows that are in S.
InOrder(S) ==
  LET taken[n \in 0 .. Len(queue)] ==
        CASE n = 0 -> <<>>
          [] n > 0 /\ queue[n] \in S -> Append(taken[n - 1], queue[n])
          [] OTHER -> taken[n - 1]
  IN taken[Len(queue)]

\* drainWarehouseCommandOutboxOnce, called by every list of the warehouse and
\* after every direct success, with no regard to one already running.
Drain(t) ==
  \E S \in DueRows :
    /\ task' = [task EXCEPT ![t] = Turn(InOrder(S))]
    /\ cause' = cause \cup {<<"shared", c>> : c \in {e \in S : Holding(e) \ {t} # {}}}

OpenList(t) ==
  /\ task[t] = NoTask /\ Pending # {}
  /\ Drain(t)
  /\ UNCHANGED <<server, request, client, runs, faults>>

Send(t) ==
  /\ task[t].at = "send"
  /\ \E i \in Inst, s \in Slot :
       /\ request[s] = NoRequest
       /\ request' = [request EXCEPT ![s] =
            [NoRequest EXCEPT !.cmd = task[t].cmd, !.keyed = task[t].keyed, !.inst = i, !.for = t,
                              !.at = IF task[t].keyed THEN "lookup" ELSE "run"]]
  /\ task' = [task EXCEPT ![t].at = "wait", ![t].tries = @ + 1]
  /\ UNCHANGED <<server, client, runs, cause, faults>>

\* Mutant of Failed: one attempt too many before the dead letter.
FailedLate(row, error) ==
  [row EXCEPT !.attempts = @ + 1, !.error = error,
              !.status = IF row.attempts > DeadAfter THEN "dead_letter" ELSE "pending"]

\* markWarehouseCommandFailed: whatever the status of the row has become.
Failed(row, error) ==
  [row EXCEPT !.attempts = @ + 1, !.error = error,
              !.status = IF row.attempts + 1 >= DeadAfter THEN "dead_letter" ELSE "pending"]
\* Mutant of MarkFailed: a refusal ends the row like a success.
MarkEnded(c, error) ==
  outbox' = [outbox EXCEPT ![c] = IF error = "refused" THEN [@ EXCEPT !.status = "applied"]
                                  ELSE Failed(@, error)]

MarkFailed(c, error) == outbox' = [outbox EXCEPT ![c] = Failed(@, error)]
MarkApplied(c) == outbox' = [outbox EXCEPT ![c].status = "applied", ![c].error = "none"]

\* The call of t has failed for good: a direct command is queued, a row of the
\* outbox is marked and the next one taken, a push is left to the next sync.
Fail(t, error) ==
  LET c == task[t].cmd IN
  \/ /\ Kind[c] = "push"
     /\ task' = [task EXCEPT ![t] = NoTask]
     /\ UNCHANGED <<outbox, queue>>
  \/ /\ Kind[c] # "push" /\ ~task[t].keyed
     /\ outbox' = [outbox EXCEPT ![c].status = "pending"]
     /\ queue' = Append(queue, c)
     /\ task' = [task EXCEPT ![t] = NoTask]
  \/ /\ Kind[c] # "push" /\ task[t].keyed
     /\ MarkFailed(c, error)
     /\ task' = [task EXCEPT ![t] = Turn(@.todo)]
     /\ UNCHANGED queue

\* The requests with those of t given up: an answer nobody waits for is dropped.
Abandon(calls) ==
  [s \in Slot |-> CASE request[s].for \notin calls -> request[s]
                    [] request[s].for \in calls /\ request[s].at = "answer" -> NoRequest
                    [] OTHER -> [request[s] EXCEPT !.for = None]]

\* fetchWithRetry: an attempt that does not come back is repeated; the request
\* it gave up goes on at the server.
GiveUp(t) ==
  /\ task[t].at = "wait" /\ faults < MaxFaults
  /\ faults' = faults + 1
  /\ request' = Abandon({t})
  /\ IF task[t].tries < MaxTries
     THEN /\ task' = [task EXCEPT ![t].at = "send"]
          /\ UNCHANGED <<outbox, queue>>
     ELSE Fail(t, "network")
  /\ UNCHANGED <<server, issued, seen, runs, cause>>

\* Without a network there is no attempt and no retry.
Offline(t) ==
  /\ task[t].at = "send" /\ faults < MaxFaults
  /\ faults' = faults + 1
  /\ Fail(t, "network")
  /\ UNCHANGED <<server, request, issued, seen, runs, cause>>

\* The answer of the server reaches the call that waits for it.
Answer(s) ==
  LET r == request[s]
      t == r.for
  IN
  /\ r.at = "answer" /\ t # None
  /\ request' = [request EXCEPT ![s] = NoRequest]
  /\ \/ /\ ~r.ok
        /\ Fail(t, "refused")
        /\ UNCHANGED cause
     \/ /\ r.ok /\ Kind[r.cmd] # "push" /\ r.keyed
        /\ MarkApplied(r.cmd)
        /\ task' = [task EXCEPT ![t] = Turn(@.todo)]
        /\ UNCHANGED <<queue, cause>>
     \/ /\ r.ok /\ Kind[r.cmd] # "push" /\ ~r.keyed
        /\ Drain(t)
        /\ UNCHANGED <<outbox, queue>>
     \/ /\ r.ok /\ Kind[r.cmd] = "push"
        /\ task' = [task EXCEPT ![t] = NoTask]
        /\ UNCHANGED <<outbox, queue, cause>>
  /\ UNCHANGED <<server, issued, seen, runs, faults>>

\* The application is closed: the outbox stays.
Quit ==
  /\ faults < MaxFaults /\ \E t \in Task : task[t] # NoTask
  /\ faults' = faults + 1
  /\ task' = [t \in Task |-> NoTask]
  /\ request' = Abandon(Task)
  /\ UNCHANGED <<server, client, runs, cause>>

-----------------------------------------------------------------------------
(* The server: look the key up, run the command, record its success.        *)

Reply(r, ok) == IF r.for = None THEN NoRequest ELSE [r EXCEPT !.at = "answer", !.ok = ok]

\* Mutant of Known: the table of warehouse results is not looked at.
KnownHere(r) == Kind[r.cmd] = "push" /\ r.cmd \in memory[r.inst]

Known(r) == r.cmd \in (IF Kind[r.cmd] = "push" THEN memory[r.inst] ELSE results)
\* Other requests with the same key that have looked it up and not recorded it.
Racing(s) == {u \in Slot \ {s} : /\ request[u].cmd = request[s].cmd /\ request[u].keyed
                                 /\ request[u].at \in {"run", "save"}}

Lookup(s) ==
  LET r == request[s] IN
  /\ r.at = "lookup"
  /\ \/ /\ Known(r)
        /\ request' = [request EXCEPT ![s] = Reply(r, TRUE)]
        /\ UNCHANGED cause
     \/ /\ ~Known(r)
        /\ request' = [request EXCEPT ![s].at = "run"]
        /\ cause' = cause
             \cup (IF Racing(s) # {} THEN {<<"raced", r.cmd>>} ELSE {})
             \cup (IF \E i \in Inst \ {r.inst} : r.cmd \in memory[i] THEN {<<"elsewhere", r.cmd>>}
                   ELSE {})
  /\ UNCHANGED <<server, client, task, runs, faults>>

\* A number is given once, only a draft is edited, a cancel expects the version
\* the user saw, a push is always accepted.
Allowed(c) ==
  LET d == document[Target[c]] IN
  CASE Kind[c] = "push"   -> TRUE
    [] Kind[c] = "create" -> d.status = "absent"
    [] Kind[c] = "edit"   -> d.status = "draft"
    [] Kind[c] = "cancel" -> d.version = seen[c]

\* Edits older than c that may still come after it: at the server already, or
\* waiting in the queue while c goes directly, or after a failure, or in the
\* hands of another drain.
Overtaken(c, keyed) ==
  {e \in Cmd : /\ Kind[e] = "edit" /\ Target[e] = Target[c] /\ Before(e, c)
               /\ \/ \E s \in Slot : request[s].cmd = e /\ request[s].at = "run"
                  \/ /\ e \notin results
                     /\ \/ outbox[e].status = "pending" /\ (~keyed \/ outbox[e].attempts > 0)
                        \/ \E s \in Slot : request[s].cmd = e
                        \/ Holding(e) # {}}

Run(s) ==
  LET r == request[s]
      c == r.cmd
      d == document[Target[c]]
  IN
  /\ r.at = "run"
  /\ \/ /\ ~Allowed(c)
        /\ request' = [request EXCEPT ![s] = Reply(r, FALSE)]
        /\ UNCHANGED <<document, runs, cause>>
     \/ /\ Allowed(c)
        /\ request' = [request EXCEPT ![s] = IF r.keyed THEN [r EXCEPT !.at = "save"]
                                             ELSE Reply(r, TRUE)]
        /\ document' = IF Kind[c] = "push" THEN document
                       ELSE [document EXCEPT ![Target[c]] =
                         CASE Kind[c] # "cancel" -> [status |-> "draft", version |-> d.version + 1,
                                                     content |-> c]
                           [] Kind[c] = "cancel" /\ d.status = "draft"
                                -> [d EXCEPT !.status = "cancelled", !.version = @ + 1]
                           [] OTHER -> d]
        /\ runs' = IF r.keyed THEN [runs EXCEPT ![c].keyed = @ + 1]
                   ELSE [runs EXCEPT ![c].direct = @ + 1]
        /\ cause' = IF Kind[c] = "edit"
                    THEN cause \cup {<<"overtaken", e>> : e \in Overtaken(c, r.keyed)} ELSE cause
  /\ UNCHANGED <<results, memory, client, task, faults>>

\* Mutant of Save: the key is remembered only when somebody still waits.
SaveIfAwaited(s) ==
  LET r == request[s] IN
  /\ r.at = "save"
  /\ IF Kind[r.cmd] = "push"
     THEN /\ memory' = [memory EXCEPT ![r.inst] = IF r.for = None THEN @ ELSE @ \cup {r.cmd}]
          /\ UNCHANGED results
     ELSE /\ results' = IF r.for = None THEN results ELSE results \cup {r.cmd}
          /\ UNCHANGED memory
  /\ request' = [request EXCEPT ![s] = Reply(r, TRUE)]
  /\ UNCHANGED <<document, client, task, runs, cause, faults>>

Save(s) ==
  LET r == request[s] IN
  /\ r.at = "save"
  /\ IF Kind[r.cmd] = "push"
     THEN /\ memory' = [memory EXCEPT ![r.inst] = @ \cup {r.cmd}]
          /\ UNCHANGED results
     ELSE /\ results' = results \cup {r.cmd}
          /\ UNCHANGED memory
  /\ request' = [request EXCEPT ![s] = Reply(r, TRUE)]
  /\ UNCHANGED <<document, client, task, runs, cause, faults>>

\* An instance stops: its requests end where they are, its memory is lost.
Restart(i) ==
  /\ faults < MaxFaults /\ (memory[i] # {} \/ \E s \in Slot : request[s].inst = i)
  /\ faults' = faults + 1
  /\ memory' = [memory EXCEPT ![i] = {}]
  /\ request' = [s \in Slot |-> IF request[s].inst = i THEN NoRequest ELSE request[s]]
  /\ cause' = cause \cup {<<"unsaved", request[s].cmd>> :
                            s \in {u \in Slot : request[u].inst = i /\ request[u].at = "save"}}
                    \cup {<<"forgotten", c>> : c \in memory[i]}
  /\ UNCHANGED <<document, results, client, task, runs>>

Next ==
  \/ \E t \in Task : \/ \E c \in Cmd : Issue(t, c)
                     \/ OpenList(t) \/ Send(t) \/ GiveUp(t) \/ Offline(t)
  \/ \E s \in Slot : Answer(s) \/ Lookup(s) \/ Run(s) \/ Save(s)
  \/ Quit
  \/ \E i \in Inst : Restart(i)

Spec == Init /\ [][Next]_vars

-----------------------------------------------------------------------------
(* Properties.                                                             *)

Blamed(why, c) == <<why, c>> \in cause

\* The shape of the state; a row fails at most DeadAfter times unless two
\* drains had it, and is queued exactly when it has a status.
TypeOK ==
  /\ document \in [Document -> [status : {"absent", "draft", "cancelled"}, version : Nat,
                                content : Cmd \cup {None}]]
  /\ results \subseteq Cmd /\ memory \in [Inst -> SUBSET Cmd]
  /\ request \in [Slot -> [cmd : Cmd \cup {None}, keyed : BOOLEAN, inst : Inst \cup {None},
                           at : {"free", "lookup", "run", "save", "answer"}, ok : BOOLEAN,
                           for : Task \cup {None}]]
  /\ \A c \in Cmd : /\ outbox[c].status \in {"none", "pending", "applied", "dead_letter"}
                    /\ outbox[c].error \in {"none", "network", "refused"}
                    /\ outbox[c].attempts \in Nat
                    /\ outbox[c].attempts <= DeadAfter \/ Blamed("shared", c)
                    /\ outbox[c].status = "none" <=> \A i \in DOMAIN queue : queue[i] # c
  /\ \A t \in Task : /\ task[t].at \in {"idle", "send", "wait"} /\ task[t].tries \in 0..MaxTries
                     /\ task[t].cmd \in Cmd \cup {None} /\ task[t].keyed \in BOOLEAN
  /\ faults \in 0..MaxFaults

\* A row of the outbox says applied only of a command that took effect: the
\* success came from running it or from the record of having run it.
AppliedMeansDone == \A c \in Cmd : outbox[c].status = "applied" => Done(c)

\* A refusal the user finds in a row, dead letter or not, is true: the command
\* has no effect on the server, unless the direct request had run it and its
\* answer was lost, the instance stopped between running and recording it, or
\* two of its requests were under way together.
RefusalMeansUndone ==
  \A c \in Cmd : outbox[c].error = "refused" /\ Done(c) =>
    runs[c].direct > 0 \/ Blamed("unsaved", c) \/ Blamed("raced", c)

\* A key is run once, however often it is sent, given up and sent again, unless
\* its requests overlapped, the instance stopped before recording it, or, for a
\* push, the retry met another instance or one that had been restarted.
KeyRunsOnce ==
  \A c \in Cmd : runs[c].keyed > 1 =>
    \/ Blamed("raced", c) \/ Blamed("unsaved", c)
    \/ Kind[c] = "push" /\ (Blamed("elsewhere", c) \/ Blamed("forgotten", c))

\* The lines of a document are those of its newest edit that took effect,
\* unless that edit overtook an older one: directly while the older one was
\* queued, in the queue after the older one had failed, or because a request
\* of the older one was at the server or another drain was about to send it.
NewestEditWins ==
  \A c \in Cmd : \A d \in Document :
    document[d].content = c /\ (\E e \in Cmd : /\ Kind[e] = "edit" /\ Target[e] = d
                                               /\ Before(c, e) /\ Done(e))
      => Blamed("overtaken", c)

\* A row that was applied stays so, unless two drains had taken it: the slower
\* one's failure puts it back.
AppliedStays ==
  [][\A c \in Cmd : outbox[c].status = "applied" /\ outbox'[c].status # "applied"
       => Blamed("shared", c)]_vars
=============================================================================
