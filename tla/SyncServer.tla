----------------------------- MODULE SyncServer -----------------------------
(***************************************************************************)
(* The server side of synchronisation and the cursor every client keeps:   *)
(*  - writeSyncChanges signs a batch into the ledger, which numbers it, and *)
(*    projects it into the PostgreSQL tables in a transaction of its own   *)
(*    (applyPushBatch), which may fail after the numbers are given, may    *)
(*    write a row under another id, and may leave it out;                  *)
(*  - pullChangesSince reads the tables one query after another and moves  *)
(*    the client's cursor;                                                 *)
(*  - a client without a cursor reads a snapshot of every table instead.   *)
(*                                                                         *)
(* Abstractions: the content of a row is named by the seq of the write that *)
(* produced it, 0 when there is no row.  The ledger is the counter and the  *)
(* newest entry of every key (LedgerStore models the rest).  A transaction  *)
(* is READ COMMITTED: a check reads committed rows and its own, an upsert   *)
(* waits for the locks of other transactions on a row or on its key,        *)
(* everything shows at the commit.                                         *)
(***************************************************************************)
EXTENDS Naturals, FiniteSets, FiniteSetsExt

CONSTANTS
  Row,          \* rows of the synchronised tables, by the id their writer gave them
  KeyOf,        \* the unique key of each row: code of a definition, pair of a value
  Parent,       \* the row it refers to, or None: a value's definition
  None,
  NTables,      \* tables, in the order both the push and the pull visit them
  TableOf,      \* the table of every row
  Catalogue,    \* entity_types and attribute_defs: matched by key before anything
                \* else, and a stale row is dropped instead of failing the push
  Writer,       \* concurrent calls of writeSyncChanges
  Pushes,       \* the rows each of them may write
  Skipping,     \* those with allowSyncConflicts: stale rows are dropped everywhere
  Client,
  Visible,      \* the rows each client may see
  PageLimit,    \* safeLimit
  MaxSeq,       \* bound: seqs the ledger gives out
  MaxLosses     \* bound: lost pulls and resets

Table == 1 .. NTables
Key == {KeyOf[r] : r \in Row}

ASSUME SyncAssumption ==
  /\ NTables \in Nat \ {0} /\ IsFiniteSet(Row)
  /\ TableOf \in [Row -> Table]
  /\ None \notin Row /\ Parent \in [Row -> Row \cup {None}]
  /\ \A r, q \in Row : KeyOf[r] = KeyOf[q] => TableOf[r] = TableOf[q]
  /\ \A r \in Row : Parent[r] # None => TableOf[Parent[r]] < TableOf[r]
  /\ Catalogue \subseteq Table
  /\ Pushes \in [Writer -> SUBSET Row] /\ Skipping \subseteq Writer
  /\ Visible \in [Client -> SUBSET Row]
  /\ PageLimit \in Nat \ {0}
  /\ MaxSeq \in Nat /\ MaxLosses \in Nat

VARIABLES
  ledgerSeq,   \* lastSeq of the ledger
  newest,      \* the newest ledger entry of each key
  pgText,      \* content of each committed row
  pgSeq,       \* its last_server_seq
  writer,      \* the calls of writeSyncChanges in progress
  cursor,      \* each client's lastPulledServerSeq
  replica,     \* each client's copy of the rows
  pull,        \* the pull in progress at each client
  late,        \* clients the last change of a row was committed behind
  diverged,    \* keys whose newest ledger entry was rolled back, left out or overwritten
  losses

pg      == <<pgText, pgSeq>>
server  == <<ledgerSeq, newest, pg, writer, diverged>>
clients == <<cursor, replica, pull, losses>>
vars    == <<server, clients, late>>

-----------------------------------------------------------------------------

NoRows == [r \in Row |-> 0]

IdleWriter == [phase |-> "idle", stamp |-> NoRows, left |-> {}, into |-> [r \in Row |-> r],
               saw |-> NoRows, keep |-> {}, out |-> {}, text |-> NoRows, seq |-> NoRows]

IdlePull == [phase |-> "idle", since |-> 0, head |-> 0, todo |-> {}, found |-> {},
             next |-> 0]

\* The n entries with the lowest seqs: ORDER BY last_server_seq LIMIT n, and
\* the slice of the sorted merge.
Lowest(entries, n) ==
  {e \in entries : Cardinality({f \in entries : f.seq < e.seq}) < n}

Seqs(entries) == {e.seq : e \in entries}

Init ==
  /\ ledgerSeq = 0
  /\ newest = [k \in Key |-> 0]
  /\ pgText = NoRows
  /\ pgSeq = NoRows
  /\ writer = [w \in Writer |-> IdleWriter]
  /\ cursor = [c \in Client |-> 0]
  /\ replica = [c \in Client |-> NoRows]
  /\ pull = [c \in Client |-> IdlePull]
  /\ late = [r \in Row |-> {}]
  /\ diverged = {}
  /\ losses = 0

-----------------------------------------------------------------------------
(* writeSyncChanges.                                                       *)

Batch(w) == {r \in Row : writer[w].stamp[r] # 0}
Keys(rows) == {KeyOf[r] : r \in rows}
Held(w) == {q \in Row : writer[w].text[q] # 0}

\* The rows of the next table of the batch.
Pack(w) ==
  {r \in writer[w].left : \A q \in writer[w].left : TableOf[r] <= TableOf[q]}

\* signAndAppendDetailed numbers the rows of a batch consecutively and is
\* done; the projection into PostgreSQL only starts.  A caller holds one row
\* of a key (its own table has the same unique index).
Sign(w, rows) ==
  /\ writer[w].phase = "idle"
  /\ \A r, q \in rows : KeyOf[r] = KeyOf[q] => r = q
  /\ ledgerSeq + Cardinality(rows) <= MaxSeq
  /\ ledgerSeq' = ledgerSeq + Cardinality(rows)
  /\ \E seqOf \in [rows -> (ledgerSeq + 1) .. (ledgerSeq + Cardinality(rows))] :
       /\ \A r, q \in rows : r # q => seqOf[r] # seqOf[q]
       /\ newest' = [k \in Key |-> IF k \in Keys(rows)
                                    THEN seqOf[CHOOSE r \in rows : KeyOf[r] = k] ELSE newest[k]]
       /\ writer' = [writer EXCEPT ![w] =
            [IdleWriter EXCEPT !.phase = "begun", !.left = rows,
               !.stamp = [r \in Row |-> IF r \in rows THEN seqOf[r] ELSE 0]]]
  /\ UNCHANGED <<pg, diverged, clients, late>>

\* The transaction rolls back: nothing shows in PostgreSQL, the ledger
\* entries stay.
RollBack(w) ==
  /\ writer' = [writer EXCEPT ![w] = IdleWriter]
  /\ diverged' = diverged \cup {KeyOf[r] : r \in {q \in Batch(w) : newest[KeyOf[q]] = writer[w].stamp[q]}}
  /\ UNCHANGED <<ledgerSeq, newest, pg, clients, late>>

\* The id the server has for the key of r, or r.
Match(r) ==
  IF \E q \in Row : KeyOf[q] = KeyOf[r] /\ pgText[q] # 0
  THEN CHOOSE q \in Row : KeyOf[q] = KeyOf[r] /\ pgText[q] # 0
  ELSE r

\* The row r refers to, as the batch names it, is there for the transaction.
Placed(w, r) ==
  \/ Parent[r] = None
  \/ LET q == writer[w].into[Parent[r]] IN pgText[q] # 0 \/ q \in Held(w)

\* The checks of one table have let the rows keep pass; checked are the ids the
\* stale check looked at.
Pass(w, keep, checked) ==
  writer' = [writer EXCEPT ![w] =
    [writer[w] EXCEPT !.phase = "checked", !.keep = keep,
       !.out  = @ \cup (Pack(w) \ keep),
       !.into = [r \in Row |-> IF r \in Pack(w) THEN Match(r) ELSE @[r]],
       !.saw  = [q \in Row |-> IF q \in checked /\ \E r \in keep : Match(r) = q
                               THEN pgSeq[q] ELSE @[q]]]]

\* Mutant of CheckPack: no stale check.
CheckNothing(w) ==
  /\ writer[w].phase = "begun" /\ writer[w].left # {}
  /\ Pass(w, {r \in Pack(w) : Placed(w, r)}, Row)
  /\ UNCHANGED <<ledgerSeq, newest, pg, diverged, clients, late>>

\* The checks of one table.  Definitions get the server's id of their code
\* first.  Rows with a newer committed seq fail the whole push, or are dropped
\* where conflicts are allowed; rows whose parent is missing are dropped and
\* reported.  A value whose pair the server has under another id gets that id
\* only now, and is dropped without a report when its updated_at is older (a
\* free choice: clocks are not modelled).
CheckPack(w) ==
  LET pack  == Pack(w)
      known == \A r \in pack : TableOf[r] \in Catalogue
      id(r) == IF known THEN Match(r) ELSE r
      fresh == {r \in pack : writer[w].stamp[r] >= pgSeq[id(r)]}
  IN
  /\ writer[w].phase = "begun" /\ writer[w].left # {}
  /\ IF fresh = pack \/ w \in Skipping \/ known
       THEN /\ \E older \in SUBSET {r \in fresh : ~known /\ Match(r) # r} :
                 Pass(w, {r \in fresh \ older : Placed(w, r)}, {id(r) : r \in pack})
            /\ UNCHANGED <<ledgerSeq, newest, pg, diverged, clients, late>>
       ELSE RollBack(w)

\* Mutant of UpsertPack: the rows of earlier tables are forgotten.
UpsertLastPack(w) ==
  /\ writer[w].phase = "checked"
  /\ \A v \in Writer \ {w} : Keys(Held(v)) \cap Keys(writer[w].keep) = {}
  /\ writer' = [writer EXCEPT ![w].phase = "begun", ![w].left = @ \ Pack(w), ![w].keep = {},
       ![w].text = [q \in Row |-> IF q \in writer[w].keep THEN writer[w].stamp[q] ELSE 0],
       ![w].seq  = [q \in Row |-> IF q \in writer[w].keep THEN writer[w].stamp[q] ELSE 0]]
  /\ UNCHANGED <<ledgerSeq, newest, pg, diverged, clients, late>>

\* INSERT .. ON CONFLICT DO UPDATE, with no condition on the stored seq: a
\* definition conflicts by id, so a code another transaction has inserted since
\* is a unique error; a value conflicts by its pair and writes over whatever row
\* has it.  applyLastServerSeq then goes by the id resolved at the check, and
\* reaches no row when the value went into another one.
UpsertPack(w) ==
  LET b == writer[w]
      hits(q) == {r \in b.keep : Match(r) = q}
      stamp(rows) == b.stamp[CHOOSE r \in rows : TRUE]
      clash == \E r \in b.keep : TableOf[r] \in Catalogue /\ Match(r) # b.into[r]
  IN
  /\ b.phase = "checked"
  /\ \A v \in Writer \ {w} : Keys(Held(v)) \cap Keys(b.keep) = {}
  /\ IF clash THEN RollBack(w)
     ELSE /\ writer' = [writer EXCEPT ![w] =
               [b EXCEPT !.phase = "begun", !.left = @ \ Pack(w), !.keep = {},
                  !.text = [q \in Row |-> IF hits(q) # {} THEN stamp(hits(q)) ELSE @[q]],
                  !.seq  = [q \in Row |-> IF \E r \in hits(q) : b.into[r] = q
                                          THEN stamp(hits(q)) ELSE @[q]]]]
          /\ UNCHANGED <<ledgerSeq, newest, pg, diverged, clients, late>>

\* A change of row r that ends with seq s lands behind client c: c's cursor has
\* passed s, or the query for r's table already ran in c's pull.
LandsBehind(c, r, s) ==
  \/ cursor[c] >= s
  \/ pull[c].phase \in {"scan", "query", "page"} /\ TableOf[r] \notin pull[c].todo
  \/ pull[c].phase \in {"answer", "save"} /\ pull[c].next >= s

\* What PostgreSQL shows for a key.
Shown(k) == Max({pgText[r] : r \in {q \in Row : KeyOf[q] = k}})

Commit(w) ==
  LET text == writer[w].text
      seq  == [r \in Row |-> IF writer[w].seq[r] # 0 THEN writer[w].seq[r] ELSE pgSeq[r]]
      held == Held(w)
  IN
  /\ writer[w].phase = "begun" /\ writer[w].left = {}
  /\ pgText' = [r \in Row |-> IF r \in held THEN text[r] ELSE pgText[r]]
  /\ pgSeq' = seq
  /\ writer' = [writer EXCEPT ![w] = IdleWriter]
  /\ late' = [r \in Row |-> IF r \in held THEN {c \in Client : LandsBehind(c, r, seq[r])}
                                          ELSE late[r]]
  /\ diverged' =
       (diverged \ {KeyOf[r] : r \in {q \in held : text[q] = newest[KeyOf[q]]}})
         \cup {KeyOf[r] : r \in {q \in held : text[q] < Shown(KeyOf[q])}}
         \cup {KeyOf[r] : r \in {q \in writer[w].out : newest[KeyOf[q]] = writer[w].stamp[q]}}
  /\ UNCHANGED <<ledgerSeq, newest, clients>>

\* A deadlock victim, a constraint or connection error, a killed process.
Abort(w) == writer[w].phase # "idle" /\ RollBack(w)

-----------------------------------------------------------------------------
(* Incremental pull: pullOnce at the client, pullChangesSince at the server. *)

\* Mutant of StartPull: the loop over the tables runs one too far.
StartPullPastEnd(c) ==
  /\ pull[c].phase = "idle" /\ cursor[c] > 0
  /\ pull' = [pull EXCEPT ![c] =
       [IdlePull EXCEPT !.phase = "scan", !.todo = 1 .. (NTables + 1), !.head = ledgerSeq,
          !.since = IF cursor[c] <= ledgerSeq THEN cursor[c] ELSE ledgerSeq]]
  /\ UNCHANGED <<server, cursor, replica, losses, late>>

\* The query reaches the server; the ledger's lastSeq is read first.
StartPull(c) ==
  /\ pull[c].phase = "idle" /\ cursor[c] > 0
  /\ pull' = [pull EXCEPT ![c] =
       [IdlePull EXCEPT !.phase = "scan", !.todo = Table, !.head = ledgerSeq,
          !.since = IF cursor[c] <= ledgerSeq THEN cursor[c] ELSE ledgerSeq]]
  /\ UNCHANGED <<server, cursor, replica, losses, late>>

NextTable(c) == CHOOSE t \in pull[c].todo : \A u \in pull[c].todo : t <= u

\* The committed rows of table t above the cursor that c may see.
Candidates(c, t) ==
  {[row |-> r, seq |-> pgSeq[r], text |-> pgText[r]] :
     r \in {q \in Visible[c] : TableOf[q] = t /\ pgSeq[q] > pull[c].since}}

\* One table's query.
ScanTable(c) ==
  /\ pull[c].phase = "scan" /\ pull[c].todo # {}
  /\ pull' = [pull EXCEPT ![c] =
       [pull[c] EXCEPT !.found = @ \cup Lowest(Candidates(c, NextTable(c)), PageLimit),
                 !.todo = @ \ {NextTable(c)}]]
  /\ UNCHANGED <<server, cursor, replica, losses, late>>

\* Mutants of NextPullCursor: the head of the ledger even when the page was
\* cut, and the cursor that never moves.
HeadCursor(page, since, head) == IF since >= head THEN since ELSE head
StuckCursor(page, since, head) == since

\* nextPullCursor.
NextPullCursor(page, since, head) ==
  IF page # {} THEN Max(Seqs(page))
  ELSE IF since >= head THEN since ELSE head

\* The merge is sorted and cut to one page.
Answer(c) ==
  LET page == Lowest(pull[c].found, PageLimit)
  IN
  /\ pull[c].phase = "scan" /\ pull[c].todo = {}
  /\ pull' = [pull EXCEPT ![c] =
       [IdlePull EXCEPT !.phase = "answer", !.found = page,
          !.next = NextPullCursor(page, pull[c].since, pull[c].head)]]
  /\ UNCHANGED <<server, cursor, replica, losses, late>>

Store(c) ==
  replica' = [replica EXCEPT ![c] =
    [r \in Row |-> IF \E e \in pull[c].found : e.row = r
                     THEN (CHOOSE e \in pull[c].found : e.row = r).text
                     ELSE replica[c][r]]]

\* The client stores the page.
ApplyPage(c) ==
  /\ pull[c].phase = "answer"
  /\ Store(c)
  /\ pull' = [pull EXCEPT ![c] = [pull[c] EXCEPT !.phase = "save", !.found = {}]]
  /\ UNCHANGED <<server, cursor, losses, late>>

\* The client saves the cursor; the next page is another pull.
SaveCursor(c) ==
  /\ pull[c].phase = "save"
  /\ cursor' = [cursor EXCEPT ![c] = pull[c].next]
  /\ pull' = [pull EXCEPT ![c] = IdlePull]
  /\ UNCHANGED <<server, replica, losses, late>>

-----------------------------------------------------------------------------
(* Cold start: pullFullState at the client, /state/snapshot at the server. *)

StartColdPull(c) ==
  /\ pull[c].phase = "idle" /\ cursor[c] = 0
  /\ pull' = [pull EXCEPT ![c] = [IdlePull EXCEPT !.phase = "query", !.todo = Table]]
  /\ UNCHANGED <<server, cursor, replica, losses, late>>

\* The query for one table's rows.
QueryTable(c) ==
  /\ pull[c].phase = "query" /\ pull[c].todo # {}
  /\ pull' = [pull EXCEPT ![c] =
       [pull[c] EXCEPT !.phase = "page", !.found = Candidates(c, NextTable(c)),
                 !.todo = @ \ {NextTable(c)}]]
  /\ UNCHANGED <<server, cursor, replica, losses, late>>

\* server_last_seq is read when the response is built, after the query.  The
\* client stores the rows at once and will save the highest server_last_seq of
\* all pages, which is the last one's: the ledger only grows.
StorePage(c) ==
  /\ pull[c].phase = "page"
  /\ Store(c)
  /\ pull' = [pull EXCEPT ![c] =
       [pull[c] EXCEPT !.found = {},
                 !.phase = IF pull[c].todo = {} THEN "save" ELSE "query",
                 !.next  = IF pull[c].todo = {} THEN ledgerSeq ELSE 0]]
  /\ UNCHANGED <<server, cursor, losses, late>>

-----------------------------------------------------------------------------
(* Faults at the client.                                                   *)

\* The connection breaks or the client stops; stored rows stay.
LosePull(c) ==
  /\ pull[c].phase # "idle"
  /\ losses < MaxLosses
  /\ losses' = losses + 1
  /\ pull' = [pull EXCEPT ![c] = IdlePull]
  /\ UNCHANGED <<server, cursor, replica, late>>

\* resetLocalDatabase: the client starts over with an empty database.
ResetReplica(c) ==
  /\ pull[c].phase = "idle" /\ cursor[c] > 0
  /\ losses < MaxLosses
  /\ losses' = losses + 1
  /\ cursor' = [cursor EXCEPT ![c] = 0]
  /\ replica' = [replica EXCEPT ![c] = NoRows]
  /\ late' = [r \in Row |-> late[r] \ {c}]
  /\ UNCHANGED <<server, pull>>

-----------------------------------------------------------------------------

Push(w) == CheckPack(w) \/ UpsertPack(w) \/ Commit(w)

Pull(c) ==
  \/ StartPull(c) \/ ScanTable(c) \/ Answer(c) \/ ApplyPage(c) \/ SaveCursor(c)
  \/ StartColdPull(c) \/ QueryTable(c) \/ StorePage(c)

Next ==
  \/ \E w \in Writer :
       \/ Push(w) \/ Abort(w)
       \/ \E rows \in SUBSET Pushes[w] \ {{}} : Sign(w, rows)
  \/ \E c \in Client : Pull(c) \/ LosePull(c) \/ ResetReplica(c)

Spec == Init /\ [][Next]_vars

\* A request runs to its end, and every client keeps pulling on its timer.
Fairness == /\ \A w \in Writer : WF_vars(Push(w))
            /\ \A c \in Client : WF_vars(Pull(c))

FairSpec == Spec /\ Fairness

-----------------------------------------------------------------------------
(* Properties.                                                             *)

Entry == [row : Row, seq : Nat, text : Nat]
WriterState ==
  [phase : {"idle", "begun", "checked"}, stamp : [Row -> Nat], left : SUBSET Row,
   into : [Row -> Row], saw : [Row -> Nat], keep : SUBSET Row,
   out : SUBSET Row, text : [Row -> Nat], seq : [Row -> Nat]]
PullState ==
  [phase : {"idle", "scan", "answer", "save", "query", "page"}, since : Nat, head : Nat,
   todo : SUBSET Table, found : SUBSET Entry, next : Nat]

TypeOK ==
  /\ ledgerSeq \in Nat
  /\ newest \in [Key -> Nat] /\ pgText \in [Row -> Nat] /\ pgSeq \in [Row -> Nat]
  /\ writer \in [Writer -> WriterState]
  /\ cursor \in [Client -> Nat]
  /\ replica \in [Client -> [Row -> Nat]]
  /\ pull \in [Client -> PullState]
  /\ late \in [Row -> SUBSET Client]
  /\ diverged \subseteq Key
  /\ losses \in Nat

\* The paging loses nothing: a row the client's cursor has passed is in the
\* client's replica as the server has it, except a row whose last change was
\* committed behind the cursor: with a seq given before, with an older seq
\* than the row had, or with no new seq at all.
NoSilentMiss ==
  \A c \in Client : \A r \in Visible[c] :
    pgSeq[r] <= cursor[c] => replica[c][r] = pgText[r] \/ c \in late[r]

\* PostgreSQL shows, under one id, the newest ledger entry of every key, unless
\* a push that wrote the key is still running, failed after it was signed, left
\* the row out, or overwrote a newer one.
ProjectionFollowsLedger ==
  \A k \in Key :
    \/ Shown(k) = newest[k]
    \/ k \in diverged
    \/ \E w \in Writer : k \in Keys(Batch(w))

\* A stored seq goes back only when the writer's stale check never looked at
\* that row (a value written into the row that has its pair), or the row changed
\* after the check and before the upsert.
StaleOnlyInWindow ==
  [][\A r \in Row : pgSeq'[r] < pgSeq[r] =>
       \E w \in Writer : r \in Held(w) /\ writer[w].saw[r] # pgSeq[r]]_vars

\* When writes stop, every client ends up with the server's rows, except
\* those changed behind it.
Convergence ==
  \A c \in Client : \A r \in Visible[c] :
    <>[](replica[c][r] = pgText[r] \/ c \in late[r])

\* What the comment of nextPullCursor says of an empty page: the jump to the
\* ledger's head passes no visible row, not even one written during the scan.
JumpPassesNoRow ==
  [][\A c \in Client :
       (/\ pull[c].phase = "scan" /\ pull'[c].phase = "answer"
        /\ pull'[c].found = {})
       => \A r \in Visible[c] :
            pgSeq[r] > pull[c].since => pgSeq[r] > pull'[c].next]_vars
=============================================================================
