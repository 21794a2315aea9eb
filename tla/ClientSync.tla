----------------------------- MODULE ClientSync -----------------------------
(***************************************************************************)
(* electron-app/src/main/services/syncService.ts: one desktop client, its  *)
(* SQLite rows with sync_status, and runSync: align the catalogue with the *)
(* server's, collect the pending rows, push them, recover from a refusal,  *)
(* pull, replay exported rows.  The operator edits at any moment; the run  *)
(* may stop at any await; a request the client gave up may still be        *)
(* executed by the server.                                                 *)
(*                                                                         *)
(* Abstractions: the server takes a push in one step (SyncServer splits    *)
(* it), and the other clients are its source of new rows.  A version of a  *)
(* row is the position of its edit in "log", which is also its updated_at: *)
(* the clocks of the clients agree.  A pull is one page (SyncServer pages  *)
(* it).  The answers sync_dependency_missing and sync_conflict have the    *)
(* same recovery; sync_invalid_row is answered for the one table modelled. *)
(* Catalogue rows are neither deleted nor found under another id, so the   *)
(* fingerprint of the catalogue is the set of its rows.                    *)
(***************************************************************************)
EXTENDS Naturals, FiniteSets, Sequences, SequencesExt

CONSTANTS
  Row,
  Catalog,      \* rows of entity_types and attribute_defs
  TypesOf,      \* the catalogue rows sent along with a row
  BadRows,      \* rows whose content fails the schema
  Guarded,      \* rows the server may refuse (rights, reservations, references)
  PushLimit,    \* MAX_TOTAL_ROWS_PER_PUSH
  Keep,         \* PENDING_EXPORT_KEEP
  MaxEdits,     \* bound: edits made anywhere
  MaxSeq,       \* bound: seqs the ledger gives out
  MaxFaults     \* bound: faults, resets and full pulls

ASSUME ClientAssumption ==
  /\ IsFiniteSet(Row)
  /\ Catalog \subseteq Row /\ BadRows \subseteq Row /\ Guarded \subseteq Row
  /\ TypesOf \in [Row -> SUBSET Catalog]
  /\ PushLimit \in Nat \ {0} /\ Keep \in Nat \ {0}
  /\ MaxEdits \in Nat /\ MaxSeq \in Nat /\ MaxFaults \in Nat

VARIABLES
  head,      \* lastSeq of the ledger
  srow,      \* the server's rows
  log,       \* the edits made so far, here and elsewhere
  local,     \* the client's rows
  cursor,    \* lastPulledServerSeq
  fingerprint, \* SyncSchemaFingerprint, none or one: {} or {the rows it is of}
  run,       \* the run in progress
  files,     \* pending-export-*.json, oldest first
  stray,     \* pushes the client gave up and the server may still execute
  reached,   \* versions the server has stored at some time
  overrun,   \* unpushed versions a pulled row was written over
  aligned,   \* unpushed versions the server's catalogue was written over
  unsaved,   \* unpushed versions no export kept: it failed or left them out, or
             \* their file was the oldest of too many
  hollow,    \* the tables were cleared under a cursor that is not zero
  faults

server == <<head, srow, reached>>
ghosts == <<overrun, aligned, unsaved, hollow>>
vars   == <<server, log, local, cursor, fingerprint, run, files, stray, ghosts, faults>>

-----------------------------------------------------------------------------

NoRow == [ver |-> 0, status |-> "none", seq |-> 0]
NoServerRow == [ver |-> 0, seq |-> 0]
NoPage == [r \in Row |-> NoServerRow]

IdleRun == [phase |-> "idle", full |-> FALSE, body |-> [r \in Row |-> 0], again |-> {},
            taken |-> {}, tried |-> {}, resume |-> "replay", since |-> 0, next |-> 0,
            page |-> NoPage]

Unpushed == {r \in Row : local[r].status \in {"pending", "error"}}
Sent(body) == {r \in Row : body[r] # 0}
Least(a, b) == IF a < b THEN a ELSE b

Init ==
  /\ head = 0 /\ srow = NoPage /\ log = <<>>
  /\ local = [r \in Row |-> NoRow]
  /\ cursor = 0 /\ fingerprint = {} /\ run = IdleRun
  /\ files = <<>> /\ stray = {}
  /\ reached = {} /\ overrun = {} /\ aligned = {} /\ unsaved = {} /\ hollow = FALSE
  /\ faults = 0

Fault == faults < MaxFaults /\ faults' = faults + 1
Phase(p) == run.phase = p

\* No other callback runs between an export of nothing and the clear: both
\* only await the synchronous database.
Free == ~Phase("bare")
Go(p) == run' = [run EXCEPT !.phase = p]

\* A request under way may still reach the server after the client left it.
Request == [body |-> run.body, again |-> run.again, fingerprint |-> fingerprint]
Abandon == stray' = IF Phase("sent") THEN stray \cup {Request} ELSE stray

-----------------------------------------------------------------------------
(* The operator and the other clients.                                     *)

\* A local edit; last_server_seq stays.
Edit(r) ==
  /\ Free /\ Len(log) < MaxEdits
  /\ log' = Append(log, [row |-> r, here |-> TRUE, quiet |-> Phase("idle")])
  /\ local' = [local EXCEPT ![r].ver = Len(log'), ![r].status = "pending"]
  /\ UNCHANGED <<server, cursor, fingerprint, run, files, stray, ghosts, faults>>

\* Another client's edit reaches the server.
OtherWrites(r) ==
  /\ Len(log) < MaxEdits /\ head < MaxSeq
  /\ log' = Append(log, [row |-> r, here |-> FALSE, quiet |-> FALSE])
  /\ head' = head + 1
  /\ srow' = [srow EXCEPT ![r] = [ver |-> Len(log'), seq |-> head']]
  /\ reached' = reached \cup {Len(log')}
  /\ UNCHANGED <<local, cursor, fingerprint, run, files, stray, ghosts, faults>>

-----------------------------------------------------------------------------
(* The alignment of the catalogue, which every run begins with.            *)

\* SyncManager's timer or the operator starts a run.  A full pull resets the
\* cursor first (sync:fullPull, force_full_pull, deep_repair).
StartRun(full) ==
  /\ Phase("idle")
  /\ IF full THEN Fault /\ cursor' = 0 ELSE UNCHANGED <<faults, cursor>>
  /\ run' = [IdleRun EXCEPT !.phase = "schema", !.full = full]
  /\ UNCHANGED <<server, log, local, fingerprint, files, stray, ghosts>>

\* The rows a schema snapshot is of, which its fingerprint is made from.
Schema(rows) == {t \in Catalog : rows[t].ver # 0}

\* The server's check of the fingerprint a push carries, if it carries one.
Fits(print) == print \subseteq {Schema(srow)}

\* GET /ledger/schema/snapshot.
Snapshot ==
  /\ Phase("schema")
  /\ run' = [run EXCEPT !.phase = "align",
       !.page = [r \in Row |-> IF r \in Catalog THEN srow[r] ELSE NoServerRow]]
  /\ UNCHANGED <<server, log, local, cursor, fingerprint, files, stray, ghosts, faults>>

\* The snapshot is written over the local catalogue, pending rows included, and
\* leaves last_server_seq as it is.
Align ==
  /\ Phase("align")
  /\ local' = [r \in Row |->
       IF r \in Schema(run.page)
         THEN [ver |-> run.page[r].ver, status |-> "synced", seq |-> local[r].seq]
         ELSE local[r]]
  /\ aligned' = aligned \cup {local[r].ver : r \in Unpushed \cap Schema(run.page)}
  /\ fingerprint' = {Schema(run.page)}
  /\ run' = [run EXCEPT !.phase = "collect", !.page = NoPage]
  /\ UNCHANGED <<server, log, cursor, files, stray, overrun, unsaved, hollow, faults>>

\* No snapshot is had: the run goes on without it.
AlignFails ==
  /\ Phase("schema") /\ Fault
  /\ Go("collect")
  /\ UNCHANGED <<server, log, local, cursor, fingerprint, files, stray, ghosts>>

-----------------------------------------------------------------------------
(* The push.                                                               *)

\* Rows marked synced that no pull ever confirmed.
Unconfirmed == {r \in Row : local[r].status = "synced" /\ local[r].seq = 0}

\* Rows collectPending turns to pending and finds valid, when it requeues the
\* old ones among the unconfirmed.
Ready(old) == (Unpushed \cup old) \ BadRows

\* What a push or an export may carry: the ready rows, and the catalogue rows
\* they refer to, in whatever state these are.
Candidates(old) ==
  Ready(old) \cup {t \in UNION {TypesOf[r] : r \in Ready(old)} : local[t].ver # 0}

\* As many of them as fit, a catalogue row only along with a row that needs it.
Carried(old, chosen) ==
  /\ chosen \subseteq Candidates(old)
  /\ Cardinality(chosen) = Least(Cardinality(Candidates(old)), PushLimit)
  /\ \A t \in chosen \ Ready(old) : \E r \in chosen \cap Ready(old) : t \in TypesOf[r]

\* What collectPending leaves in sync_status.
Marked(old) ==
  [r \in Row |-> IF r \in Ready(old) THEN [local[r] EXCEPT !.status = "pending"]
                 ELSE IF r \in Unpushed THEN [local[r] EXCEPT !.status = "error"]
                 ELSE local[r]]

AfterPush == IF run.full THEN "export" ELSE "pull"

\* collectPending, and the request leaves.
Collect ==
  /\ Phase("collect")
  /\ \E old \in SUBSET Unconfirmed : \E chosen \in SUBSET Row :
       /\ Carried(old, chosen)
       /\ local' = Marked(old)
       /\ run' = IF chosen = {} THEN [run EXCEPT !.phase = AfterPush]
                 ELSE [run EXCEPT !.phase = "sent", !.again = old \cap chosen,
                         !.body = [r \in Row |-> IF r \in chosen THEN local[r].ver ELSE 0]]
  /\ UNCHANGED <<server, log, cursor, fingerprint, files, stray, ghosts, faults>>

\* The server stores the rows of a push it does not refuse, under fresh seqs.
\* The stale check compares seqs, and a fresh seq is never stale.
Accept(body, taken) ==
  /\ taken \subseteq Sent(body) /\ Sent(body) \ taken \subseteq Guarded
  /\ head + Cardinality(taken) <= MaxSeq
  /\ head' = head + Cardinality(taken)
  /\ \E seqOf \in [taken -> (head + 1) .. head'] :
       /\ \A r, q \in taken : r # q => seqOf[r] # seqOf[q]
       /\ srow' = [r \in Row |-> IF r \in taken THEN [ver |-> body[r], seq |-> seqOf[r]]
                                                ELSE srow[r]]
  /\ reached' = reached \cup {body[r] : r \in taken}

Serve ==
  /\ Phase("sent") /\ Fits(fingerprint)
  /\ \E taken \in SUBSET Row :
       /\ Accept(run.body, taken)
       /\ run' = [run EXCEPT !.phase = "served", !.taken = taken]
  /\ UNCHANGED <<log, local, cursor, fingerprint, files, stray, ghosts, faults>>

\* The answer was lost and the retry reaches the other instance, whose
\* idempotency cache is empty.
ServeAgain ==
  /\ Phase("served") /\ Fits(fingerprint) /\ Fault
  /\ \E taken \in SUBSET Row :
       /\ Accept(run.body, taken)
       /\ run' = [run EXCEPT !.taken = taken]
  /\ UNCHANGED <<log, local, cursor, fingerprint, files, stray, ghosts>>

\* A request the client has given up is executed after all.
ServeStray ==
  \E q \in stray :
    /\ Fits(q.fingerprint)
    /\ \E taken \in SUBSET Row : Accept(q.body, taken)
    /\ stray' = stray \ {q}
    /\ UNCHANGED <<log, local, cursor, fingerprint, run, files, ghosts, faults>>

\* Mutant of Acknowledge: the rows that were sent, not those that were taken.
AcknowledgeSent ==
  /\ Phase("served")
  /\ local' = [r \in Row |-> IF r \in Sent(run.body)
                               THEN [local[r] EXCEPT !.status = "synced"] ELSE local[r]]
  /\ Go(AfterPush)
  /\ UNCHANGED <<server, log, cursor, fingerprint, files, stray, ghosts, faults>>

\* markAllSynced on applied_rows: by id, whatever the row holds by now.
Acknowledge ==
  /\ Phase("served")
  /\ local' = [r \in Row |-> IF r \in run.taken /\ local[r].status # "none"
                               THEN [local[r] EXCEPT !.status = "synced"] ELSE local[r]]
  /\ Go(AfterPush)
  /\ UNCHANGED <<server, log, cursor, fingerprint, files, stray, ghosts, faults>>

\* The push fails for good; the run goes on to the pull.
GiveUp ==
  /\ Phase("sent") \/ Phase("served")
  /\ Fault
  /\ Abandon
  /\ Go(AfterPush)
  /\ UNCHANGED <<server, log, local, cursor, fingerprint, files, ghosts>>

\* schema_outdated: a catalogue row was created since the last snapshot.  The
\* client keeps the fingerprint it is told, aligns, and collects again.  It may
\* be the retry of a push that was executed and that created the row itself.
AnswerOutdated ==
  /\ ~Fits(fingerprint)
  /\ \/ Phase("sent") /\ UNCHANGED faults
     \/ Phase("served") /\ Fault
  /\ fingerprint' = {Schema(srow)}
  /\ Go("schema")
  /\ UNCHANGED <<server, log, local, cursor, files, stray, ghosts>>

\* sync_invalid_row, once a run: every pending row is marked as an error, and
\* collectPending takes back those it finds valid.
AnswerInvalid ==
  /\ Phase("sent") /\ Fits(fingerprint) /\ "invalid" \notin run.tried /\ Fault
  /\ local' = [r \in Row |-> IF local[r].status = "pending"
                               THEN [local[r] EXCEPT !.status = "error"] ELSE local[r]]
  /\ run' = [run EXCEPT !.phase = "collect", !.tried = @ \cup {"invalid"}]
  /\ UNCHANGED <<server, log, cursor, fingerprint, files, stray, ghosts>>

\* sync_conflict, once a run: the transaction rolled back, its seqs are used
\* up; the client resets the cursor and walks the whole change log.
AnswerConflict ==
  /\ Phase("sent") /\ Fits(fingerprint) /\ "conflict" \notin run.tried /\ Fault
  /\ head + Cardinality(Sent(run.body)) <= MaxSeq
  /\ head' = head + Cardinality(Sent(run.body))
  /\ cursor' = 0
  /\ run' = [run EXCEPT !.phase = "pull", !.resume = "collect", !.tried = @ \cup {"conflict"}]
  /\ UNCHANGED <<srow, reached, log, local, fingerprint, files, stray, ghosts>>

-----------------------------------------------------------------------------
(* The full pull's preparation and the reset of the database.              *)

Saved(rows) == {[row |-> r, ver |-> local[r].ver, seq |-> local[r].seq] : r \in rows}

\* exportPendingRowsToDisk, which drops the oldest files beyond Keep.
WriteFile(rows) ==
  files' = IF rows = {} THEN files
           ELSE IF Len(files) < Keep THEN Append(files, Saved(rows))
           ELSE Append(Tail(files), Saved(rows))

\* The unpushed versions it leaves out (invalid rows, rows beyond the limit)
\* and those of the file it drops.
Unkept(rows) ==
  {local[r].ver : r \in Unpushed \ rows}
    \cup (IF rows = {} \/ Len(files) < Keep THEN {} ELSE {e.ver : e \in Head(files)})

ExportRows(chosen) ==
  \E old \in SUBSET Unconfirmed :
    /\ Carried(old, chosen)
    /\ local' = Marked(old)
    /\ WriteFile(chosen)
    /\ unsaved' = unsaved \cup Unkept(chosen)

Export ==
  /\ Phase("export")
  /\ \E chosen \in SUBSET Row :
       /\ ExportRows(chosen)
       /\ Go(IF chosen = {} THEN "bare" ELSE "clear")
  /\ UNCHANGED <<server, log, cursor, fingerprint, stray, overrun, aligned, hollow, faults>>

\* The file cannot be written: the full pull is called off.
ExportFails ==
  /\ Phase("export") /\ Fault
  /\ run' = IdleRun
  /\ UNCHANGED <<server, log, local, cursor, fingerprint, files, stray, ghosts>>

\* clearLocalSyncTablesForFullPull.
Clear ==
  /\ Phase("clear") \/ Phase("bare")
  /\ local' = [r \in Row |-> NoRow]
  /\ hollow' = (hollow \/ cursor # 0)
  /\ Go("pull")
  /\ UNCHANGED <<server, log, cursor, fingerprint, files, stray, overrun, aligned, unsaved, faults>>

\* A delete fails halfway; the run goes on.
ClearFails ==
  /\ Phase("clear") \/ Phase("bare")
  /\ Fault
  /\ \E gone \in SUBSET Row :
       local' = [r \in Row |-> IF r \in gone THEN NoRow ELSE local[r]]
  /\ hollow' = (hollow \/ cursor # 0)
  /\ Go("pull")
  /\ UNCHANGED <<server, log, cursor, fingerprint, files, stray, overrun, aligned, unsaved>>

\* resetLocalDatabase, from the UI or a schema rebuild: export, then delete.
Wipe ==
  /\ Free /\ Fault
  /\ \E chosen \in SUBSET Row : ExportRows(chosen)
  /\ Abandon
  /\ run' = [IdleRun EXCEPT !.phase = "delete"]
  /\ UNCHANGED <<server, log, cursor, fingerprint, overrun, aligned, hollow>>

\* Its export may fail, and it deletes all the same.
WipeUnsaved ==
  /\ Free /\ Fault
  /\ Abandon
  /\ unsaved' = unsaved \cup {local[r].ver : r \in Unpushed}
  /\ run' = [IdleRun EXCEPT !.phase = "delete"]
  /\ UNCHANGED <<server, log, local, cursor, fingerprint, files, overrun, aligned, hollow>>

\* The database file is removed, and the application restarts.
Delete ==
  /\ Phase("delete")
  /\ local' = [r \in Row |-> NoRow]
  /\ cursor' = 0 /\ fingerprint' = {}
  /\ hollow' = FALSE
  /\ run' = IdleRun
  /\ UNCHANGED <<server, log, files, stray, overrun, aligned, unsaved, faults>>

\* sync:reset, at any moment.
ResetCursor ==
  /\ Free /\ Fault
  /\ cursor' = 0
  /\ UNCHANGED <<server, log, local, fingerprint, run, files, stray, ghosts>>

-----------------------------------------------------------------------------
(* The pull.                                                               *)

\* Where an incremental pull starts: from zero when the catalogue is missing,
\* which after an alignment it is only where the server's is.
Since == IF \E t \in Catalog : local[t].status = "none" THEN 0 ELSE cursor

\* Where this run's pull starts: a full pull and a recovery take everything.
PullSince == IF run.full \/ run.resume = "collect" THEN 0 ELSE Since

\* Mutant of Fetch: the newest entry is left out and the cursor passes it.
FetchBelowHead ==
  /\ Phase("pull")
  /\ run' = [run EXCEPT !.phase = "apply", !.since = PullSince, !.next = head,
       !.page = [r \in Row |-> IF srow[r].seq > PullSince /\ srow[r].seq < head
                                 THEN srow[r] ELSE NoServerRow]]
  /\ UNCHANGED <<server, log, local, cursor, fingerprint, files, stray, ghosts, faults>>

\* pullOnce: the answer to ledger/state/changes.
Fetch ==
  /\ Phase("pull")
  /\ run' = [run EXCEPT !.phase = "apply", !.since = PullSince, !.next = head,
       !.page = [r \in Row |-> IF srow[r].seq > PullSince THEN srow[r] ELSE NoServerRow]]
  /\ UNCHANGED <<server, log, local, cursor, fingerprint, files, stray, ghosts, faults>>

\* applyPulledChanges upserts a row without looking at its sync_status.
Stored(rows) ==
  /\ local' = [r \in Row |->
       IF r \in rows /\ run.page[r].seq # 0
         THEN [ver |-> run.page[r].ver, status |-> "synced", seq |-> run.page[r].seq]
         ELSE local[r]]
  /\ overrun' = overrun \cup {local[r].ver : r \in {q \in Unpushed : local'[q] # local[q]}}

ApplyPulled ==
  /\ Phase("apply")
  /\ Stored(Row)
  /\ Go("save")
  /\ UNCHANGED <<server, log, cursor, fingerprint, files, stray, aligned, unsaved, hollow, faults>>

\* What an error makes of a pull: the run ends, or, within a recovery, goes on
\* to its own pull.
PullBroken ==
  IF run.resume = "collect"
    THEN [run EXCEPT !.phase = AfterPush, !.resume = "replay", !.page = NoPage]
    ELSE IdleRun

\* A table fails to load or the process stops: tables come in their order,
\* the catalogue first.
ApplyPart ==
  /\ Phase("apply") /\ Fault
  /\ \E rows \in SUBSET Row :
       /\ Catalog \subseteq rows \/ rows \subseteq Catalog
       /\ Stored(rows)
  /\ run' \in {PullBroken, IdleRun}
  /\ UNCHANGED <<server, log, cursor, fingerprint, files, stray, aligned, unsaved, hollow>>

\* Mutant of SaveCursor: the head at the time of saving.
SaveHead ==
  /\ Phase("save")
  /\ cursor' = head
  /\ hollow' = (hollow /\ run.since # 0)
  /\ Go("replay")
  /\ UNCHANGED <<server, log, local, fingerprint, files, stray, overrun, aligned, unsaved, faults>>

\* lastPulledServerSeq is saved.  After a recovery the catalogue is marked for
\* another push and the pending rows are collected again.
SaveCursor ==
  /\ Phase("save")
  /\ cursor' = run.next
  /\ hollow' = (hollow /\ run.since # 0)
  /\ IF run.resume = "collect"
       THEN /\ local' = [r \in Row |-> IF r \in Catalog /\ local[r].status = "synced"
                                         THEN [local[r] EXCEPT !.status = "pending"]
                                         ELSE local[r]]
            /\ run' = [run EXCEPT !.phase = "collect", !.resume = "replay", !.page = NoPage]
       ELSE UNCHANGED local /\ run' = [run EXCEPT !.phase = "replay", !.page = NoPage]
  /\ UNCHANGED <<server, log, fingerprint, files, stray, overrun, aligned, unsaved, faults>>

\* The pull fails.
PullFails ==
  /\ Phase("pull") /\ Fault
  /\ run' = PullBroken
  /\ UNCHANGED <<server, log, local, cursor, fingerprint, files, stray, ghosts>>

\* Mutant of Newest: a replayed row has no sync_status.
NewestBare(r) ==
  LET newer == {e \in UNION ToSet(files) : e.row = r /\ e.ver > local[r].ver} IN
  IF newer = {} THEN local[r]
  ELSE LET last == CHOOSE e \in newer : \A f \in newer : f.ver <= e.ver
       IN [ver |-> last.ver, status |-> "unset", seq |-> last.seq]

\* Mutant of Newest: a replayed row is not queued again.
NewestSynced(r) ==
  LET newer == {e \in UNION ToSet(files) : e.row = r /\ e.ver > local[r].ver} IN
  IF newer = {} THEN local[r]
  ELSE LET last == CHOOSE e \in newer : \A f \in newer : f.ver <= e.ver
       IN [ver |-> last.ver, status |-> "synced", seq |-> last.seq]

\* The newest of r's exported versions and the local one.
Newest(r) ==
  LET newer == {e \in UNION ToSet(files) : e.row = r /\ e.ver > local[r].ver} IN
  IF newer = {} THEN local[r]
  ELSE LET last == CHOOSE e \in newer : \A f \in newer : f.ver <= e.ver
       IN [ver |-> last.ver, status |-> "pending", seq |-> last.seq]

\* replayPendingExports ends the run.
Replay ==
  /\ Phase("replay")
  /\ local' = [r \in Row |-> Newest(r)]
  /\ files' = <<>>
  /\ run' = IdleRun
  /\ UNCHANGED <<server, log, cursor, fingerprint, stray, ghosts, faults>>

\* The application stops in the middle of a run.
Stop ==
  /\ ~Phase("idle") /\ Fault
  /\ Abandon
  /\ run' = IdleRun
  /\ UNCHANGED <<server, log, local, cursor, fingerprint, files, ghosts>>

-----------------------------------------------------------------------------

RunStep ==
  \/ StartRun(FALSE) \/ Snapshot \/ Align \/ Collect \/ Serve \/ AnswerOutdated \/ Acknowledge
  \/ Export \/ Clear \/ Fetch \/ ApplyPulled \/ SaveCursor \/ Replay

Trouble ==
  \/ StartRun(TRUE) \/ AlignFails \/ ServeAgain \/ ServeStray \/ GiveUp \/ AnswerInvalid \/ AnswerConflict
  \/ ExportFails \/ ClearFails \/ Wipe \/ WipeUnsaved \/ ResetCursor
  \/ ApplyPart \/ PullFails \/ Stop

Next == RunStep \/ Delete \/ Trouble \/ \E r \in Row : Edit(r) \/ OtherWrites(r)

Spec == Init /\ [][Next]_vars

\* The timer starts runs for ever, a run goes on while nothing stops it, and
\* the application finishes a reset.
Fairness == WF_vars(RunStep) /\ WF_vars(Delete)

FairSpec == Spec /\ Fairness

-----------------------------------------------------------------------------
(* Properties.                                                             *)

Version == 1 .. Len(log)
Phases == {"idle", "schema", "align", "collect", "sent", "served", "export", "clear", "bare", "delete", "pull",
           "apply", "save", "replay"}

LogEntry == [row : Row, here : BOOLEAN, quiet : BOOLEAN]
ServerRow == [ver : Nat, seq : Nat]
LocalRow == [ver : Nat, status : {"none", "synced", "pending", "error"}, seq : Nat]
ExportedRow == [row : Row, ver : Nat, seq : Nat]
RunState ==
  [phase : Phases, full : BOOLEAN, body : [Row -> Nat], again : SUBSET Row,
   taken : SUBSET Row, tried : SUBSET {"invalid", "conflict"},
   resume : {"replay", "collect"}, since : Nat, next : Nat, page : [Row -> ServerRow]]
GivenUp == [body : [Row -> Nat], again : SUBSET Row, fingerprint : SUBSET SUBSET Catalog]

TypeOK ==
  /\ head \in Nat /\ srow \in [Row -> ServerRow]
  /\ log \in Seq(LogEntry)
  /\ local \in [Row -> LocalRow]
  /\ cursor \in Nat
  /\ run \in RunState
  /\ files \in Seq(SUBSET ExportedRow)
  /\ fingerprint \subseteq SUBSET Catalog
  /\ stray \subseteq GivenUp
  /\ reached \subseteq Nat /\ overrun \subseteq Nat /\ aligned \subseteq Nat
  /\ unsaved \subseteq Nat
  /\ hollow \in BOOLEAN /\ faults \in Nat

\* A row the client believes to be in step and is not will be brought by the
\* next incremental pull: no acknowledgement, reset, recovery, retry or stop
\* leaves a row the cursor has passed.  The exception is a full pull whose
\* tables were cleared under the cursor of a conflict recovery.
NoSilentDivergence ==
  \A r \in Row :
    local[r].status \in {"none", "synced"} /\ local[r].ver # srow[r].ver
      => srow[r].seq > cursor \/ hollow

\* A row is shown as synchronised only when the server has taken the version
\* it holds, or when the edit was made while a run was under way.
SyncedMeansReceived ==
  \A r \in Row :
    local[r].status = "synced" => local[r].ver \in reached \/ ~log[local[r].ver].quiet

InFile(v) == \E i \in DOMAIN files : \E e \in files[i] : e.row = log[v].row /\ e.ver = v
AtHand(v) == \E r \in Unpushed : local[r].ver = v
Overtaken(v) ==
  \E w \in Version : /\ w > v /\ log[w].row = log[v].row
                     /\ log[w].here \/ w \in reached

\* An edit made between two runs is not lost by anything but a row written over
\* it, pulled or of the server's catalogue, or an export that failed, left it
\* out or dropped its file: wherever the run stops, whatever the server answers,
\* across full pulls and resets, it was taken by the server, or is still
\* unpushed, or is in an export file, or has a newer edit after it.
QuietEditsSurvive ==
  \A v \in Version : log[v].here /\ log[v].quiet =>
    v \in reached \cup overrun \cup aligned \cup unsaved \/ AtHand(v) \/ InFile(v) \/ Overtaken(v)

\* When the edits and the faults stop, the client ends up with the server's
\* rows, except rows the server refuses and the hole named above.
Settles ==
  \A r \in Row :
    <>[](local[r].ver = srow[r].ver \/ r \in Guarded \cup BadRows \/ hollow)

\* What the comment at the full pull's export says of the clear: it never
\* destroys unpushed work.
ClearDestroysNothing ==
  [][run.phase \in {"clear", "bare"} /\ run'.phase = "pull" =>
       \A r \in Unpushed : local'[r] = local[r] \/ InFile(local[r].ver)]_vars

\* What the comment of requeueUnconfirmedRows says of the second push: the
\* server does not let it put an older version over a newer one.
RequeueRollsNothingBack ==
  [][\A r \in run.again : run.phase = "sent" /\ run'.phase = "served"
       => srow'[r].ver >= srow[r].ver]_vars
=============================================================================
