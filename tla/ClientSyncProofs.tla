-------------------------- MODULE ClientSyncProofs --------------------------
(***************************************************************************)
(* Proofs about ClientSync for any rows, catalogue, limits, edits, seqs     *)
(* and faults: what sync_status and the cursor may hide, and which edits    *)
(* survive.                                                                 *)
(***************************************************************************)
EXTENDS ClientSync, FiniteSetTheorems, WellFoundedInduction, TLAPS

-----------------------------------------------------------------------------
(* Where versions come from: every version held anywhere is an edit of that *)
(* row, made here or taken by the server.                                  *)

Sourced(r, v) == v \in Version /\ log[v].row = r /\ (log[v].here \/ v \in reached)

ServerFrom == \A r \in Row : /\ srow[r].ver # 0 <=> srow[r].seq # 0
                             /\ srow[r].ver # 0 => Sourced(r, srow[r].ver) /\ srow[r].ver \in reached
LocalFrom  == \A r \in Row : /\ local[r].ver # 0 <=> local[r].status # "none"
                             /\ local[r].ver # 0 => Sourced(r, local[r].ver)
BodyFrom   == \A r \in Row : run.body[r] # 0 => Sourced(r, run.body[r])
StrayFrom  == \A q \in stray : \A r \in Row : q.body[r] # 0 => Sourced(r, q.body[r])
PageFrom   == \A r \in Row : /\ run.page[r].ver # 0 <=> run.page[r].seq # 0
                             /\ run.page[r].ver # 0 => /\ Sourced(r, run.page[r].ver)
                                                       /\ run.page[r].ver \in reached
FilesFrom  == \A i \in DOMAIN files : \A e \in files[i] : Sourced(e.row, e.ver)

Base == /\ TypeOK
        /\ ServerFrom /\ LocalFrom /\ BodyFrom /\ StrayFrom /\ PageFrom /\ FilesFrom

LEMMA LeastNat ==
  ASSUME NEW T \in SUBSET Nat, T # {}
  PROVE  \E m \in T : \A n \in T : m <= n
<1> DEFINE R == OpToRel(<, Nat)
<1>1. \A m, n \in Nat : n < m => <<n, m>> \in R
  BY DEF OpToRel
<1>2. IsWellFoundedOn(R, Nat)
  BY NatLessThanWellFounded
<1> HIDE DEF R
<1>3. PICK m \in T : \A n \in T : ~(<<n, m>> \in R)
  BY <1>2, WFMin
<1>4. ASSUME NEW n \in T PROVE m <= n
  <2>1. m \in Nat /\ n \in Nat /\ ~(<<n, m>> \in R)
    BY <1>3
  <2>2. ~(n < m)
    BY <1>1, <2>1
  <2> QED
    BY <2>1, <2>2
<1> QED
  BY <1>4

LEMMA GreatestVersion ==
  ASSUME NEW n \in Nat, NEW S \in SUBSET (0 .. n), S # {}
  PROVE  \E m \in S : \A v \in S : v <= m
<1> DEFINE T == {n - v : v \in S}
<1>1. T \subseteq Nat /\ T # {}
  <2>1. \A v \in S : v \in 0 .. n
    OBVIOUS
  <2>2. \A v \in 0 .. n : n - v \in Nat
    OBVIOUS
  <2> QED
    BY <2>1, <2>2
<1>2. PICK k \in T : \A j \in T : k <= j
  <2> HIDE DEF T
  <2> QED
    BY <1>1, LeastNat
<1>3. PICK m \in S : k = n - m
  OBVIOUS
<1>4. ASSUME NEW v \in S PROVE v <= m
  BY <1>2, <1>3
<1> QED
  BY <1>4

LEMMA Grows ==
  ASSUME TypeOK, reached \subseteq reached', log' = log \/ \E x \in LogEntry : log' = Append(log, x)
  PROVE  /\ \A v \in Version : v \in Version' /\ log'[v] = log[v]
         /\ \A r, v : Sourced(r, v) => Sourced(r, v)'
         /\ log' \in Seq(LogEntry) /\ Len(log) \in Nat /\ Len(log') \in Nat /\ Len(log) <= Len(log')
<1>1. Len(log) \in Nat /\ log \in Seq(LogEntry)
  BY DEF TypeOK
<1>2. CASE log' = log
  BY <1>1, <1>2 DEF Version, Sourced
<1>3. ASSUME NEW x \in LogEntry, log' = Append(log, x)
      PROVE  /\ \A v \in Version : v \in Version' /\ log'[v] = log[v]
             /\ \A r, v : Sourced(r, v) => Sourced(r, v)'
             /\ log' \in Seq(LogEntry) /\ Len(log) \in Nat /\ Len(log') \in Nat /\ Len(log) <= Len(log')
  <2>1. Len(log') = Len(log) + 1 /\ log' \in Seq(LogEntry)
    BY <1>1, <1>3
  <2>2. \A v \in Version : v \in Version' /\ log'[v] = log[v]
    BY <1>1, <1>3, <2>1 DEF Version
  <2>3. \A r, v : Sourced(r, v) => Sourced(r, v)'
    BY <2>2 DEF Sourced
  <2> QED
    BY <1>1, <2>1, <2>2, <2>3
<1> QED
  BY <1>2, <1>3

\* What the server makes of a push.
Takes(body, taken) ==
  /\ head' \in Nat /\ head <= head' /\ srow' \in [Row -> ServerRow]
  /\ reached' = reached \cup {body[r] : r \in taken} /\ reached' \subseteq Nat
  /\ \A r \in Row \ taken : srow'[r] = srow[r]
  /\ \A r \in taken : /\ body[r] # 0 /\ srow'[r].ver = body[r] /\ body[r] \in reached'
                      /\ srow'[r].seq > head /\ srow'[r].seq <= head'

LEMMA AcceptFacts ==
  ASSUME TypeOK, NEW body \in [Row -> Nat], NEW taken \in SUBSET Row, Accept(body, taken)
  PROVE  Takes(body, taken)
<1>1. Cardinality(taken) \in Nat
  BY ClientAssumption, FS_Subset, FS_CardinalityType
<1>2. head \in Nat /\ head' = head + Cardinality(taken) /\ taken \subseteq Sent(body)
      /\ srow \in [Row -> ServerRow] /\ reached \subseteq Nat
  BY DEF TypeOK, Accept
<1>3. PICK seqOf \in [taken -> (head + 1) .. head'] :
        srow' = [r \in Row |-> IF r \in taken THEN [ver |-> body[r], seq |-> seqOf[r]] ELSE srow[r]]
  BY DEF Accept
<1>4. \A r \in taken : seqOf[r] \in Nat /\ seqOf[r] > head /\ seqOf[r] <= head' /\ body[r] \in Nat
  BY <1>1, <1>2, <1>3
<1>5. head' \in Nat /\ head <= head'
  BY <1>1, <1>2
<1>6. srow' \in [Row -> ServerRow]
  BY <1>2, <1>3, <1>4 DEF ServerRow
<1>7. reached' = reached \cup {body[r] : r \in taken}
  BY DEF Accept
<1> QED
  BY <1>2, <1>3, <1>4, <1>5, <1>6, <1>7 DEF Takes, Sent

\* What a step may make of the versions held, in terms of the ones before.
Carries ==
  /\ reached \subseteq reached'
  /\ log' = log \/ \E x \in LogEntry : log' = Append(log, x)
  /\ \A r \in Row : srow'[r] = srow[r] \/ \E v : /\ srow'[r].ver = v /\ v # 0 /\ srow'[r].seq # 0
                                                 /\ v \in reached' /\ Sourced(r, v)'
  /\ \A r \in Row :
       /\ local'[r].ver # 0 <=> local'[r].status # "none"
       /\ \/ local'[r].ver \in {0, local[r].ver}
          \/ run.page[r].seq # 0 /\ local'[r].ver = run.page[r].ver
          \/ \E v : local'[r].ver = v /\ Sourced(r, v)'
  /\ \A r \in Row : run'.body[r] \in {0, run.body[r], local[r].ver}
  /\ \A q \in stray' : q \in stray \/ q.body = run.body
  /\ \A r \in Row : run'.page[r] \in {NoServerRow, run.page[r], srow[r]}
  /\ \A i \in DOMAIN files' : \A e \in files'[i] :
       \/ \E j \in DOMAIN files : e \in files[j]
       \/ e.row \in Row /\ e.ver # 0 /\ e.ver = local[e.row].ver

LEMMA BaseKeeps ==
  ASSUME Base, TypeOK', Carries
  PROVE  Base'
<1>1. /\ TypeOK /\ ServerFrom /\ LocalFrom /\ BodyFrom /\ StrayFrom /\ PageFrom /\ FilesFrom
  BY DEF Base
<1>2. /\ \A r, v : Sourced(r, v) => Sourced(r, v)'
      /\ reached \subseteq reached'
  BY <1>1, Grows DEF Carries
<1>3. ServerFrom'
  BY <1>1, <1>2 DEF Carries, ServerFrom
<1>4. LocalFrom'
  BY <1>1, <1>2 DEF Carries, LocalFrom, PageFrom
<1>5. BodyFrom'
  BY <1>1, <1>2 DEF Carries, BodyFrom, LocalFrom
<1>6. StrayFrom'
  BY <1>1, <1>2 DEF Carries, BodyFrom, StrayFrom
<1>7. PageFrom'
  BY <1>1, <1>2 DEF Carries, PageFrom, ServerFrom, NoServerRow
<1>8. FilesFrom'
  BY <1>1, <1>2 DEF Carries, FilesFrom, LocalFrom
<1> QED
  BY <1>3, <1>4, <1>5, <1>6, <1>7, <1>8 DEF Base

LEMMA IdleFacts ==
  /\ NoPage \in [Row -> ServerRow] /\ \A r \in Row : NoPage[r] = NoServerRow
  /\ NoServerRow.ver = 0 /\ NoServerRow.seq = 0
  /\ IdleRun \in RunState /\ IdleRun.page = NoPage /\ \A r \in Row : IdleRun.body[r] = 0
  /\ IdleRun.phase = "idle"
<1>1. /\ NoPage \in [Row -> ServerRow] /\ \A r \in Row : NoPage[r] = NoServerRow
      /\ NoServerRow.ver = 0 /\ NoServerRow.seq = 0
  BY DEF NoPage, NoServerRow, ServerRow
<1> QED
  BY <1>1 DEF IdleRun, RunState, Phases

LEMMA BaseInit == Init => Base
<1> SUFFICES ASSUME Init PROVE Base
  OBVIOUS
<1>1. /\ head = 0 /\ srow = NoPage /\ log = <<>> /\ local = [r \in Row |-> NoRow] /\ cursor = 0
      /\ run = IdleRun /\ files = <<>> /\ stray = {} /\ faults = 0
      /\ reached = {} /\ overrun = {} /\ aligned = {} /\ unsaved = {} /\ hollow = FALSE
      /\ fingerprint = {}
  BY DEF Init
<1>2. NoRow \in LocalRow /\ NoRow.ver = 0 /\ NoRow.status = "none"
  BY DEF NoRow, LocalRow
<1>3. TypeOK
  <2>1. head \in Nat /\ srow \in [Row -> ServerRow] /\ cursor \in Nat /\ run \in RunState
    BY <1>1, IdleFacts
  <2>2. local \in [Row -> LocalRow]
    BY <1>1, <1>2
  <2>3. log \in Seq(LogEntry) /\ files \in Seq(SUBSET ExportedRow)
    BY <1>1
  <2> QED
    BY <1>1, <2>1, <2>2, <2>3 DEF TypeOK
<1>4. ServerFrom
  BY <1>1, IdleFacts DEF ServerFrom
<1>5. LocalFrom
  BY <1>1, <1>2 DEF LocalFrom
<1>6. BodyFrom /\ PageFrom
  BY <1>1, IdleFacts DEF BodyFrom, PageFrom
<1>7. StrayFrom /\ FilesFrom
  BY <1>1 DEF StrayFrom, FilesFrom
<1> QED
  BY <1>3, <1>4, <1>5, <1>6, <1>7 DEF Base

-----------------------------------------------------------------------------
(* Steps that leave the server, the rows and the files alone.               *)

\* What such a step leaves of the run and of the requests given up.
RunOnly ==
  /\ UNCHANGED <<server, log, local, files>>
  /\ run' \in RunState /\ cursor' \in Nat /\ hollow' \in BOOLEAN /\ faults' \in Nat
  /\ overrun' \subseteq Nat /\ aligned' \subseteq Nat /\ unsaved' \subseteq Nat
  /\ fingerprint' \subseteq SUBSET Catalog
  /\ stray' \subseteq stray \cup {Request}
  /\ \A r \in Row : run'.body[r] \in {0, run.body[r]}
  /\ \A r \in Row : run'.page[r] \in {NoServerRow, run.page[r], srow[r]}

LEMMA RunOnlyBase ==
  ASSUME Base, RunOnly
  PROVE  Base'
<1>1. Request \in GivenUp /\ Request.body = run.body
  BY DEF Base, TypeOK, RunState, Request, GivenUp
<1>2. stray' \subseteq GivenUp
  BY <1>1 DEF Base, TypeOK, RunOnly
<1>3. TypeOK'
  BY <1>2 DEF Base, TypeOK, RunOnly, server
<1>4. \A q \in stray' : q \in stray \/ q.body = run.body
  BY <1>1 DEF RunOnly
<1>5. Carries
  BY <1>4 DEF Base, RunOnly, server, Carries, LocalFrom
<1> QED
  BY <1>3, <1>5, BaseKeeps

LEMMA AbandonFacts ==
  ASSUME Abandon
  PROVE  stray' \subseteq stray \cup {Request}
BY DEF Abandon

\* What an error makes of the run.
LEMMA BrokenFacts ==
  ASSUME run \in RunState
  PROVE  /\ PullBroken \in RunState
         /\ \A r \in Row : PullBroken.body[r] \in {0, run.body[r]} /\ PullBroken.page[r] = NoServerRow
         /\ PullBroken.phase \in {"idle", "export", "pull"}
<1>1. AfterPush \in {"export", "pull"}
  BY DEF AfterPush
<1>2. CASE run.resume = "collect"
  <2> DEFINE n == [run EXCEPT !.phase = AfterPush, !.resume = "replay", !.page = NoPage]
  <2>1. PullBroken = n
    BY <1>2 DEF PullBroken
  <2>2. /\ n \in RunState /\ n.body = run.body /\ n.page = NoPage /\ n.phase = AfterPush
    BY <1>1, IdleFacts DEF RunState, Phases
  <2> HIDE DEF n
  <2> QED
    BY <1>1, <2>1, <2>2, IdleFacts
<1>3. CASE run.resume # "collect"
  BY <1>3, IdleFacts DEF PullBroken
<1> QED
  BY <1>2, <1>3

LEMMA RunOnlySteps ==
  ASSUME Base,
         \/ StartRun(TRUE) \/ StartRun(FALSE) \/ Snapshot \/ AlignFails \/ AnswerOutdated
         \/ GiveUp \/ ExportFails \/ WipeUnsaved \/ ResetCursor \/ Fetch \/ PullFails \/ Stop
  PROVE  RunOnly
<1>1. /\ TypeOK /\ run \in RunState /\ faults \in Nat /\ cursor \in Nat /\ hollow \in BOOLEAN
      /\ overrun \subseteq Nat /\ aligned \subseteq Nat /\ unsaved \subseteq Nat /\ faults + 1 \in Nat
      /\ fingerprint \subseteq SUBSET Catalog
  BY DEF Base, TypeOK
<1>2. run.full \in BOOLEAN /\ AfterPush \in Phases
  BY <1>1 DEF RunState, AfterPush, Phases
<1>3. CASE StartRun(TRUE) \/ StartRun(FALSE)
  <2>1. PICK full \in BOOLEAN : StartRun(full)
    BY <1>3
  <2> DEFINE n == [IdleRun EXCEPT !.phase = "schema", !.full = full]
  <2>2. n \in RunState /\ n.body = IdleRun.body /\ n.page = NoPage
    BY IdleFacts DEF RunState, Phases
  <2>3. run' = n
    BY <2>1 DEF StartRun
  <2> HIDE DEF n
  <2>4. \A r \in Row : run'.body[r] = 0 /\ run'.page[r] = NoServerRow
    BY <2>2, <2>3, IdleFacts
  <2> QED
    BY <1>1, <2>1, <2>2, <2>3, <2>4 DEF StartRun, RunOnly, Fault, ghosts
<1>4. CASE GiveUp
  <2>1. run' = [run EXCEPT !.phase = AfterPush]
    BY <1>4 DEF GiveUp, Go
  <2>2. run' \in RunState /\ run'.body = run.body /\ run'.page = run.page
    BY <1>1, <1>2, <2>1 DEF RunState
  <2> QED
    BY <1>1, <1>4, <2>2, AbandonFacts DEF GiveUp, RunOnly, Fault, ghosts
<1>5. CASE ExportFails
  <2>1. \A r \in Row : run'.body[r] = 0 /\ run'.page[r] = NoServerRow
    BY <1>5, IdleFacts DEF ExportFails
  <2> QED
    BY <1>1, <1>5, <2>1, IdleFacts DEF ExportFails, RunOnly, Fault, ghosts
<1>6. CASE WipeUnsaved
  <2> DEFINE n == [IdleRun EXCEPT !.phase = "delete"]
  <2>1. run' = n
    BY <1>6 DEF WipeUnsaved
  <2>2. n \in RunState /\ n.body = IdleRun.body /\ n.page = NoPage
    BY IdleFacts DEF RunState, Phases
  <2> HIDE DEF n
  <2>3. \A r \in Row : run'.body[r] = 0 /\ run'.page[r] = NoServerRow
    BY <2>1, <2>2, IdleFacts
  <2>4. \A r \in Row : local[r].ver \in Nat
    BY <1>1 DEF TypeOK, LocalRow
  <2>5. unsaved' \subseteq Nat
    BY <1>1, <1>6, <2>4 DEF WipeUnsaved, Unpushed
  <2> QED
    BY <1>1, <1>6, <2>1, <2>2, <2>3, <2>5, AbandonFacts DEF WipeUnsaved, RunOnly, Fault
<1>7. CASE ResetCursor
  BY <1>1, <1>7 DEF ResetCursor, RunOnly, Fault, ghosts
<1>8. CASE Fetch
  <2> DEFINE page == [r \in Row |-> IF srow[r].seq > PullSince THEN srow[r] ELSE NoServerRow]
             n == [run EXCEPT !.phase = "apply", !.since = PullSince, !.next = head, !.page = page]
  <2>1. run' = n
    BY <1>8 DEF Fetch
  <2>2. PullSince \in Nat /\ head \in Nat /\ page \in [Row -> ServerRow]
    <3>1. PullSince \in Nat
      BY <1>1 DEF PullSince, Since
    <3> HIDE DEF PullSince
    <3> QED
      BY <1>1, <3>1 DEF TypeOK, NoServerRow, ServerRow
  <2>3. \A r \in Row : page[r] \in {NoServerRow, srow[r]}
    OBVIOUS
  <2> HIDE DEF page
  <2>4. n \in RunState /\ n.body = run.body /\ n.page = page
    BY <1>1, <2>2 DEF RunState, Phases
  <2> HIDE DEF n
  <2> QED
    BY <1>1, <1>8, <2>1, <2>3, <2>4 DEF Fetch, RunOnly, ghosts
<1>9. CASE PullFails
  BY <1>1, <1>9, BrokenFacts DEF PullFails, RunOnly, Fault, ghosts
<1>10. CASE Stop
  <2>1. \A r \in Row : run'.body[r] = 0 /\ run'.page[r] = NoServerRow
    BY <1>10, IdleFacts DEF Stop
  <2> QED
    BY <1>1, <1>10, <2>1, IdleFacts, AbandonFacts DEF Stop, RunOnly, Fault, ghosts
<1>11. CASE Snapshot
  <2> DEFINE page == [r \in Row |-> IF r \in Catalog THEN srow[r] ELSE NoServerRow]
             n == [run EXCEPT !.phase = "align", !.page = page]
  <2>1. run' = n
    BY <1>11 DEF Snapshot
  <2>2. page \in [Row -> ServerRow] /\ \A r \in Row : page[r] \in {NoServerRow, srow[r]}
    BY <1>1 DEF TypeOK, NoServerRow, ServerRow
  <2> HIDE DEF page
  <2>3. n \in RunState /\ n.body = run.body /\ n.page = page
    BY <1>1, <2>2 DEF RunState, Phases
  <2> HIDE DEF n
  <2> QED
    BY <1>1, <1>11, <2>1, <2>2, <2>3 DEF Snapshot, RunOnly, ghosts
<1>12. ASSUME NEW p \in Phases, run' = [run EXCEPT !.phase = p]
       PROVE  run' \in RunState /\ run'.body = run.body /\ run'.page = run.page
  BY <1>1, <1>12 DEF RunState
<1>13. CASE AlignFails
  <2>1. run' \in RunState /\ run'.body = run.body /\ run'.page = run.page
    BY <1>12, <1>13 DEF AlignFails, Go, Phases
  <2> QED
    BY <1>1, <1>13, <2>1 DEF AlignFails, RunOnly, Fault, ghosts
<1>14. CASE AnswerOutdated
  <2>1. run' \in RunState /\ run'.body = run.body /\ run'.page = run.page
    BY <1>12, <1>14 DEF AnswerOutdated, Go, Phases
  <2>2. fingerprint' \subseteq SUBSET Catalog /\ faults' \in Nat
    BY <1>1, <1>14 DEF AnswerOutdated, Schema, Fault
  <2> QED
    BY <1>1, <1>14, <2>1, <2>2 DEF AnswerOutdated, RunOnly, ghosts
<1> QED
  BY <1>3, <1>4, <1>5, <1>6, <1>7, <1>8, <1>9, <1>10, <1>11, <1>13, <1>14
-----------------------------------------------------------------------------
(* Steps of the server.                                                     *)

LEMMA ServerStepBase ==
  ASSUME Base, NEW body \in [Row -> Nat], NEW taken \in SUBSET Row, Accept(body, taken),
         \A r \in Row : body[r] # 0 => Sourced(r, body[r]),
         UNCHANGED <<log, local, cursor, fingerprint, files, ghosts>>,
         run' \in RunState, run'.body = run.body, run'.page = run.page,
         stray' \subseteq stray, faults' \in Nat
  PROVE  Base'
<1>1. TypeOK /\ Takes(body, taken)
  BY AcceptFacts DEF Base
<1>2. TypeOK'
  BY <1>1 DEF TypeOK, Takes, ghosts
<1>3. reached \subseteq reached' /\ \A r, v : Sourced(r, v) => Sourced(r, v)'
  BY <1>1 DEF Takes, Sourced, Version
<1>4. ASSUME NEW r \in taken
      PROVE  /\ srow'[r].ver = body[r] /\ body[r] # 0 /\ srow'[r].seq # 0
             /\ body[r] \in reached' /\ Sourced(r, body[r])'
  <2>1. head \in Nat /\ srow'[r].seq > head
    BY <1>1, <1>4 DEF TypeOK, Takes
  <2> QED
    BY <1>1, <1>3, <1>4, <2>1 DEF Takes
<1>5. \A r \in Row : srow'[r] = srow[r] \/ \E v : /\ srow'[r].ver = v /\ v # 0 /\ srow'[r].seq # 0
                                                  /\ v \in reached' /\ Sourced(r, v)'
  BY <1>1, <1>4 DEF Takes
<1>6. Carries
  BY <1>3, <1>5 DEF Base, Carries, LocalFrom, ghosts
<1> QED
  BY <1>2, <1>6, BaseKeeps

LEMMA ServerBase ==
  ASSUME Base, Serve \/ ServeAgain \/ ServeStray
  PROVE  Base'
<1>1. TypeOK /\ BodyFrom /\ StrayFrom /\ run \in RunState /\ faults \in Nat /\ faults + 1 \in Nat
      /\ run.body \in [Row -> Nat]
  BY DEF Base, TypeOK, RunState
<1>2. CASE Serve
  <2>1. PICK taken \in SUBSET Row : Accept(run.body, taken)
                                    /\ run' = [run EXCEPT !.phase = "served", !.taken = taken]
    BY <1>2 DEF Serve
  <2>2. run' \in RunState /\ run'.body = run.body /\ run'.page = run.page
    BY <1>1, <2>1 DEF RunState, Phases
  <2> QED
    BY <1>1, <1>2, <2>1, <2>2, ServerStepBase DEF Serve, BodyFrom
<1>3. CASE ServeAgain
  <2>1. PICK taken \in SUBSET Row : Accept(run.body, taken) /\ run' = [run EXCEPT !.taken = taken]
    BY <1>3 DEF ServeAgain
  <2>2. run' \in RunState /\ run'.body = run.body /\ run'.page = run.page
    BY <1>1, <2>1 DEF RunState
  <2> QED
    BY <1>1, <1>3, <2>1, <2>2, ServerStepBase DEF ServeAgain, BodyFrom, Fault
<1>4. CASE ServeStray
  <2>1. PICK q \in stray : /\ \E taken \in SUBSET Row : Accept(q.body, taken)
                           /\ stray' = stray \ {q}
                           /\ UNCHANGED <<log, local, cursor, fingerprint, run, files, ghosts, faults>>
    BY <1>4 DEF ServeStray
  <2>2. PICK taken \in SUBSET Row : Accept(q.body, taken)
    BY <2>1
  <2>3. q.body \in [Row -> Nat] /\ \A r \in Row : q.body[r] # 0 => Sourced(r, q.body[r])
    BY <1>1 DEF TypeOK, GivenUp, StrayFrom
  <2> QED
    BY <1>1, <2>1, <2>2, <2>3, ServerStepBase
<1> QED
  BY <1>2, <1>3, <1>4

LEMMA ConflictBase ==
  ASSUME Base, AnswerConflict
  PROVE  Base'
<1>1. TypeOK /\ head \in Nat /\ run \in RunState /\ faults \in Nat /\ faults + 1 \in Nat
  BY DEF Base, TypeOK
<1>2. Cardinality(Sent(run.body)) \in Nat
  BY ClientAssumption, FS_Subset, FS_CardinalityType DEF Sent
<1>3. head' \in Nat
  BY <1>1, <1>2 DEF AnswerConflict
<1>4. run' = [run EXCEPT !.phase = "pull", !.resume = "collect", !.tried = run.tried \cup {"conflict"}]
  BY DEF AnswerConflict
<1>5. run' \in RunState /\ run'.body = run.body /\ run'.page = run.page
  BY <1>1, <1>4 DEF RunState, Phases
<1>6. TypeOK'
  BY <1>1, <1>3, <1>5 DEF TypeOK, AnswerConflict, Fault, ghosts
<1>7. Carries
  BY <1>5 DEF AnswerConflict, Base, Carries, LocalFrom, ghosts
<1> QED
  BY <1>6, <1>7, BaseKeeps

LEMMA OtherBase ==
  ASSUME Base, NEW r \in Row, OtherWrites(r)
  PROVE  Base'
<1> DEFINE x == [row |-> r, here |-> FALSE, quiet |-> FALSE]
<1>0. Len(log') \in Nat
  BY DEF Base, TypeOK, OtherWrites, LogEntry
<1>A. PICK n \in Nat : n = Len(log')
  BY <1>0
<1>1. TypeOK /\ head \in Nat /\ head' = head + 1 /\ log \in Seq(LogEntry) /\ x \in LogEntry
      /\ log' = Append(log, x) /\ reached' = reached \cup {n}
      /\ srow' = [srow EXCEPT ![r] = [ver |-> n, seq |-> head']]
      /\ UNCHANGED <<local, cursor, fingerprint, run, files, stray, ghosts, faults>>
  BY <1>A DEF Base, TypeOK, OtherWrites, LogEntry
<1>2. n \in Nat /\ n # 0 /\ n \in Version' /\ log'[n] = x /\ log' \in Seq(LogEntry)
  BY <1>1, <1>A DEF Version
<1>3. [ver |-> n, seq |-> head'] \in ServerRow /\ head' \in Nat /\ head' # 0
  BY <1>1, <1>2 DEF ServerRow
<1>4. srow \in [Row -> ServerRow] /\ srow' \in [Row -> ServerRow]
      /\ srow'[r] = [ver |-> n, seq |-> head'] /\ \A q \in Row \ {r} : srow'[q] = srow[q]
  BY <1>1, <1>3 DEF TypeOK
<1>5. TypeOK'
  BY <1>1, <1>2, <1>3, <1>4 DEF TypeOK, ghosts
<1>6. Sourced(r, n)' /\ n \in reached'
  <2>1. log'[n].row = r
    BY <1>2
  <2>2. n \in reached'
    BY <1>1
  <2> QED
    BY <1>2, <2>1, <2>2 DEF Sourced
<1>7. \A q \in Row : srow'[q] = srow[q] \/ \E v : /\ srow'[q].ver = v /\ v # 0 /\ srow'[q].seq # 0
                                                  /\ v \in reached' /\ Sourced(q, v)'
  <2>1. srow'[r].ver = n /\ srow'[r].seq # 0
    BY <1>3, <1>4
  <2> QED
    BY <1>2, <1>4, <1>6, <2>1
<1>8. reached \subseteq reached' /\ \E y \in LogEntry : log' = Append(log, y)
  BY <1>1
<1>9. Carries
  BY <1>1, <1>7, <1>8 DEF Base, Carries, LocalFrom, ghosts
<1> QED
  BY <1>5, <1>9, BaseKeeps

-----------------------------------------------------------------------------
(* Steps on the client's rows and export files.                             *)

\* What such a step leaves: the versions held come from the rows, the page
\* or the files.
LocalOnly ==
  /\ UNCHANGED <<server, log>>
  /\ local' \in [Row -> LocalRow]
  /\ \A r \in Row :
       /\ local'[r].ver # 0 <=> local'[r].status # "none"
       /\ \/ local'[r].ver \in {0, local[r].ver}
          \/ run.page[r].seq # 0 /\ local'[r].ver = run.page[r].ver
          \/ \E i \in DOMAIN files : \E e \in files[i] : e.row = r /\ local'[r].ver = e.ver
  /\ run' \in RunState
  /\ \A r \in Row : run'.body[r] \in {0, run.body[r], local[r].ver}
  /\ \A r \in Row : run'.page[r] \in {NoServerRow, run.page[r]}
  /\ files' \in Seq(SUBSET ExportedRow)
  /\ \A i \in DOMAIN files' : \A e \in files'[i] :
       \/ \E j \in DOMAIN files : e \in files[j]
       \/ e.row \in Row /\ e.ver # 0 /\ e.ver = local[e.row].ver
  /\ stray' \subseteq stray \cup {Request}
  /\ cursor' \in Nat /\ fingerprint' \subseteq SUBSET Catalog
  /\ overrun' \subseteq Nat /\ aligned' \subseteq Nat /\ unsaved' \subseteq Nat
  /\ hollow' \in BOOLEAN /\ faults' \in Nat

LEMMA LocalOnlyBase ==
  ASSUME Base, LocalOnly
  PROVE  Base'
<1>1. Request \in GivenUp /\ Request.body = run.body
  BY DEF Base, TypeOK, RunState, Request, GivenUp
<1>2. stray' \subseteq GivenUp
  BY <1>1 DEF Base, TypeOK, LocalOnly
<1>3. TypeOK'
  BY <1>2 DEF Base, TypeOK, LocalOnly, server
<1>4. \A q \in stray' : q \in stray \/ q.body = run.body
  BY <1>1 DEF LocalOnly
<1>5. \A r \in Row : \/ local'[r].ver \in {0, local[r].ver}
                     \/ run.page[r].seq # 0 /\ local'[r].ver = run.page[r].ver
                     \/ \E v : local'[r].ver = v /\ Sourced(r, v)'
  <2>1. UNCHANGED <<log, reached>> /\ FilesFrom
    BY DEF Base, LocalOnly, server
  <2>2. \A r, v : Sourced(r, v) => Sourced(r, v)'
    BY <2>1 DEF Sourced, Version
  <2> QED
    BY <2>1, <2>2 DEF LocalOnly, FilesFrom
<1>6. Carries
  BY <1>4, <1>5 DEF Base, LocalOnly, server, Carries
<1> QED
  BY <1>3, <1>6, BaseKeeps

LEMMA MarkedFacts ==
  ASSUME TypeOK, NEW old \in SUBSET Unconfirmed
  PROVE  /\ Marked(old) \in [Row -> LocalRow]
         /\ \A r \in Row : /\ Marked(old)[r].ver = local[r].ver /\ Marked(old)[r].seq = local[r].seq
                           /\ Marked(old)[r].status \in {local[r].status, "pending", "error"}
                           /\ local[r].status = "none" => Marked(old)[r].status = "none"
                           /\ r \in Unpushed => Marked(old)[r].status \in {"pending", "error"}
<1>1. local \in [Row -> LocalRow]
  BY DEF TypeOK
<1>2. ASSUME NEW r \in Row
      PROVE  /\ Marked(old)[r] \in LocalRow
             /\ Marked(old)[r].ver = local[r].ver /\ Marked(old)[r].seq = local[r].seq
             /\ Marked(old)[r].status \in {local[r].status, "pending", "error"}
             /\ local[r].status = "none" => Marked(old)[r].status = "none"
             /\ r \in Unpushed => Marked(old)[r].status \in {"pending", "error"}
  <2>1. r \in Ready(old) => r \in Unpushed \/ local[r].status = "synced"
    BY DEF Ready, Unconfirmed
  <2>2. r \in Unpushed <=> local[r].status \in {"pending", "error"}
    BY DEF Unpushed
  <2>3. Marked(old)[r] = IF r \in Ready(old) THEN [local[r] EXCEPT !.status = "pending"]
                         ELSE IF r \in Unpushed THEN [local[r] EXCEPT !.status = "error"]
                         ELSE local[r]
    BY DEF Marked
  <2> QED
    BY <1>1, <2>1, <2>2, <2>3 DEF LocalRow
<1>3. Marked(old) \in [Row -> LocalRow]
  <2>1. Marked(old) = [r \in Row |-> Marked(old)[r]]
    BY DEF Marked
  <2> QED
    BY <1>2, <2>1
<1> QED
  BY <1>2, <1>3

LEMMA CandidatesHeld ==
  ASSUME Base, NEW old \in SUBSET Unconfirmed
  PROVE  Candidates(old) \subseteq Row /\ \A r \in Candidates(old) : local[r].ver # 0
<1>1. \A r \in Ready(old) : r \in Row /\ local[r].ver # 0
  BY DEF Ready, Unpushed, Unconfirmed, Base, LocalFrom
<1>2. TypesOf \in [Row -> SUBSET Catalog] /\ Catalog \subseteq Row
  BY ClientAssumption
<1>3. UNION {TypesOf[r] : r \in Ready(old)} \subseteq Row
  BY <1>1, <1>2
<1> QED
  BY <1>1, <1>3 DEF Candidates

LEMMA SavedFacts ==
  ASSUME Base, NEW rows \in SUBSET Row, \A r \in rows : local[r].ver # 0
  PROVE  /\ Saved(rows) \in SUBSET ExportedRow
         /\ \A e \in Saved(rows) : e.row \in rows /\ e.ver # 0 /\ e.ver = local[e.row].ver
<1>1. local \in [Row -> LocalRow]
  BY DEF Base, TypeOK
<1> QED
  BY <1>1 DEF Saved, ExportedRow, LocalRow

LEMMA WriteFileFacts ==
  ASSUME Base, NEW rows \in SUBSET Row, \A r \in rows : local[r].ver # 0, WriteFile(rows)
  PROVE  /\ files' \in Seq(SUBSET ExportedRow)
         /\ \A i \in DOMAIN files' : files'[i] = Saved(rows) \/ \E j \in DOMAIN files : files'[i] = files[j]
         /\ rows # {} => \E i \in DOMAIN files' : files'[i] = Saved(rows)
         /\ \A j \in DOMAIN files : \/ \E i \in DOMAIN files' : files'[i] = files[j]
                                    \/ rows # {} /\ Len(files) >= Keep /\ files[j] = Head(files)
<1>1. /\ files \in Seq(SUBSET ExportedRow) /\ Saved(rows) \in SUBSET ExportedRow
      /\ Len(files) \in Nat /\ Keep \in Nat \ {0}
  BY SavedFacts, ClientAssumption DEF Base, TypeOK
<1>2. CASE rows = {}
  BY <1>1, <1>2 DEF WriteFile
<1>3. CASE rows # {} /\ Len(files) < Keep
  <2>1. files' = Append(files, Saved(rows))
    BY <1>3 DEF WriteFile
  <2>2. /\ files' \in Seq(SUBSET ExportedRow) /\ Len(files') = Len(files) + 1
        /\ files'[Len(files) + 1] = Saved(rows)
        /\ \A j \in 1 .. Len(files) : files'[j] = files[j]
        /\ DOMAIN files = 1 .. Len(files) /\ DOMAIN files' = 1 .. Len(files')
    BY <1>1, <2>1
  <2> QED
    BY <1>1, <1>3, <2>2
<1>4. CASE rows # {} /\ ~(Len(files) < Keep)
  <2> DEFINE t == Tail(files)
  <2>1. files' = Append(t, Saved(rows)) /\ Len(files) >= Keep /\ Len(files) >= 1
    BY <1>1, <1>4 DEF WriteFile
  <2>2. /\ t \in Seq(SUBSET ExportedRow) /\ Len(t) = Len(files) - 1
        /\ \A j \in 1 .. Len(t) : t[j] = files[j + 1]
        /\ Head(files) = files[1]
    BY <1>1, <2>1
  <2> HIDE DEF t
  <2>3. /\ files' \in Seq(SUBSET ExportedRow) /\ Len(files') = Len(files)
        /\ files'[Len(files)] = Saved(rows)
        /\ \A j \in 1 .. Len(t) : files'[j] = files[j + 1]
        /\ DOMAIN files = 1 .. Len(files) /\ DOMAIN files' = 1 .. Len(files)
    BY <1>1, <2>1, <2>2
  <2>4. ASSUME NEW j \in DOMAIN files
        PROVE  (\E i \in DOMAIN files' : files'[i] = files[j]) \/ files[j] = Head(files)
    <3>1. CASE j = 1
      BY <2>2, <3>1
    <3>2. CASE j # 1
      <4>1. j - 1 \in 1 .. Len(t) /\ j - 1 \in DOMAIN files'
        BY <1>1, <2>2, <2>3, <3>2
      <4>2. files'[j - 1] = files[j]
        BY <1>1, <2>3, <3>2, <4>1
      <4> QED
        BY <4>1, <4>2
    <3> QED
      BY <3>1, <3>2
  <2>5. \A i \in DOMAIN files' : files'[i] = Saved(rows) \/ \E j \in DOMAIN files : files'[i] = files[j]
    <3>1. ASSUME NEW i \in 1 .. Len(files), i # Len(files)
          PROVE  files'[i] = files[i + 1] /\ i + 1 \in 1 .. Len(files)
      BY <1>1, <2>2, <2>3, <3>1
    <3> QED
      BY <2>3, <3>1
  <2>6. \E i \in DOMAIN files' : files'[i] = Saved(rows)
    BY <1>1, <2>1, <2>3
  <2> QED
    BY <1>4, <2>1, <2>3, <2>4, <2>5, <2>6
<1> QED
  BY <1>2, <1>3, <1>4

\* What a replay makes of a row: the newest of its exported versions and the
\* one it holds.
LEMMA NewestFacts ==
  ASSUME Base, NEW r \in Row
  PROVE  /\ \/ Newest(r) = local[r]
            \/ \E i \in DOMAIN files : \E e \in files[i] :
                 /\ e.row = r /\ e.ver > local[r].ver
                 /\ Newest(r) = [ver |-> e.ver, status |-> "pending", seq |-> e.seq]
         /\ \A i \in DOMAIN files : \A e \in files[i] : e.row = r => e.ver <= Newest(r).ver
         /\ local[r].ver <= Newest(r).ver
<1> DEFINE newer == {e \in UNION ToSet(files) : e.row = r /\ e.ver > local[r].ver}
           vers == {e.ver : e \in newer}
           last == CHOOSE e \in newer : \A f \in newer : f.ver <= e.ver
<1>1. files \in Seq(SUBSET ExportedRow) /\ local[r].ver \in Nat /\ Len(log) \in Nat
  BY DEF Base, TypeOK, LocalRow
<1>2. \A e : e \in newer <=> /\ \E i \in DOMAIN files : e \in files[i]
                             /\ e.row = r /\ e.ver > local[r].ver
  BY DEF ToSet
<1>3. \A i \in DOMAIN files : \A e \in files[i] : e.ver \in Nat /\ e.ver \in 1 .. Len(log)
  <2>1. \A i \in DOMAIN files : files[i] \in SUBSET ExportedRow
    BY <1>1
  <2> QED
    BY <2>1 DEF Base, FilesFrom, Sourced, Version, ExportedRow
<1>4. Newest(r) = IF newer = {} THEN local[r] ELSE [ver |-> last.ver, status |-> "pending", seq |-> last.seq]
  BY DEF Newest
<1> HIDE DEF newer
<1>5. CASE newer = {}
  <2>1. Newest(r) = local[r]
    BY <1>4, <1>5
  <2>2. ASSUME NEW i \in DOMAIN files, NEW e \in files[i], e.row = r PROVE e.ver <= local[r].ver
    BY <1>1, <1>2, <1>3, <1>5, <2>2
  <2> QED
    BY <1>1, <2>1, <2>2
<1>6. CASE newer # {}
  <2>1. vers \subseteq 0 .. Len(log) /\ vers # {}
    BY <1>1, <1>2, <1>3, <1>6
  <2>2. PICK m \in vers : \A v \in vers : v <= m
    <3> HIDE DEF vers
    <3> QED
      BY <1>1, <2>1, GreatestVersion
  <2>3. \E e \in newer : \A f \in newer : f.ver <= e.ver
    BY <2>2
  <2>4. last \in newer /\ \A f \in newer : f.ver <= last.ver
    BY <2>3
  <2> HIDE DEF last
  <2>5. last.row = r /\ last.ver > local[r].ver /\ (\E i \in DOMAIN files : last \in files[i])
        /\ last.ver \in Nat
    BY <1>2, <1>3, <2>4
  <2>6. Newest(r) = [ver |-> last.ver, status |-> "pending", seq |-> last.seq] /\ Newest(r).ver = last.ver
    BY <1>4, <1>6
  <2>7. ASSUME NEW i \in DOMAIN files, NEW e \in files[i], e.row = r PROVE e.ver <= last.ver
    <3>1. CASE e \in newer
      BY <2>4, <3>1
    <3>2. CASE ~(e.ver > local[r].ver)
      BY <1>1, <1>3, <2>5, <3>2
    <3> QED
      BY <1>2, <2>7, <3>1, <3>2
  <2> QED
    BY <1>1, <2>5, <2>6, <2>7
<1> QED
  BY <1>5, <1>6

LEMMA UnkeptFacts ==
  ASSUME Base, NEW rows \in SUBSET Row
  PROVE  Unkept(rows) \subseteq Nat
<1>1. \A r \in Row : local[r].ver \in Nat
  BY DEF Base, TypeOK, LocalRow
<1>2. ASSUME ~(Len(files) < Keep), NEW e \in Head(files) PROVE e.ver \in Nat
  <2>1. files \in Seq(SUBSET ExportedRow) /\ Keep \in Nat \ {0}
    BY ClientAssumption DEF Base, TypeOK
  <2>2. Head(files) \in SUBSET ExportedRow
    BY <1>2, <2>1
  <2> QED
    BY <2>2 DEF ExportedRow
<1> QED
  BY <1>1, <1>2 DEF Unkept, Unpushed

\* An export, of a full pull or of a reset.
LEMMA ExportFacts ==
  ASSUME Base, NEW chosen \in SUBSET Row, ExportRows(chosen)
  PROVE  /\ \E old \in SUBSET Unconfirmed : local' = Marked(old)
         /\ local' \in [Row -> LocalRow]
         /\ \A r \in Row : /\ local'[r].ver = local[r].ver
                           /\ local'[r].ver # 0 <=> local'[r].status # "none"
         /\ unsaved' = unsaved \cup Unkept(chosen) /\ unsaved' \subseteq Nat
         /\ chosen \subseteq Row /\ (\A r \in chosen : local[r].ver # 0) /\ WriteFile(chosen)
         /\ files' \in Seq(SUBSET ExportedRow)
         /\ \A i \in DOMAIN files' : \A e \in files'[i] :
              \/ \E j \in DOMAIN files : e \in files[j]
              \/ e.row \in Row /\ e.ver # 0 /\ e.ver = local[e.row].ver
<1>1. PICK old \in SUBSET Unconfirmed :
        Carried(old, chosen) /\ local' = Marked(old) /\ WriteFile(chosen)
        /\ unsaved' = unsaved \cup Unkept(chosen)
  BY DEF ExportRows
<1>2. TypeOK /\ LocalFrom /\ unsaved \subseteq Nat
  BY DEF Base, TypeOK
<1>3. \A r \in chosen : local[r].ver # 0
  BY <1>1, CandidatesHeld DEF Carried
<1>4. /\ local' \in [Row -> LocalRow]
      /\ \A r \in Row : /\ local'[r].ver = local[r].ver
                        /\ local'[r].ver # 0 <=> local'[r].status # "none"
  BY <1>1, <1>2, MarkedFacts DEF LocalFrom
<1>5. /\ files' \in Seq(SUBSET ExportedRow)
      /\ \A i \in DOMAIN files' : files'[i] = Saved(chosen) \/ \E j \in DOMAIN files : files'[i] = files[j]
  BY <1>1, <1>3, WriteFileFacts
<1>6. \A e \in Saved(chosen) : e.row \in chosen /\ e.ver # 0 /\ e.ver = local[e.row].ver
  BY <1>3, SavedFacts
<1>7. unsaved' \subseteq Nat
  BY <1>1, <1>2, UnkeptFacts
<1>8. \A i \in DOMAIN files' : \A e \in files'[i] :
        \/ \E j \in DOMAIN files : e \in files[j]
        \/ e.row \in Row /\ e.ver # 0 /\ e.ver = local[e.row].ver
  BY <1>5, <1>6
<1> QED
  BY <1>1, <1>3, <1>4, <1>5, <1>7, <1>8

\* A phase change leaves the rest of the run.
LEMMA GoFacts ==
  ASSUME Base, NEW p \in Phases, Go(p)
  PROVE  /\ run' \in RunState /\ run'.phase = p
         /\ UNCHANGED <<run.full, run.body, run.again, run.taken, run.tried, run.resume, run.since,
                        run.next, run.page>>
<1>1. run \in RunState /\ run' = [run EXCEPT !.phase = p]
  BY DEF Base, TypeOK, Go
<1> QED
  BY <1>1 DEF RunState

LEMMA PageFacts ==
  ASSUME Base, NEW rows \in SUBSET Row, Stored(rows)
  PROVE  /\ local' \in [Row -> LocalRow] /\ overrun' \subseteq Nat
         /\ \A r \in Row :
              /\ local'[r].ver # 0 <=> local'[r].status # "none"
              /\ \/ local'[r] = local[r] /\ (r \notin rows \/ run.page[r].seq = 0)
                 \/ /\ r \in rows /\ run.page[r].seq # 0 /\ local'[r].ver = run.page[r].ver
                    /\ local'[r].status = "synced"
<1>1. /\ local \in [Row -> LocalRow] /\ overrun \subseteq Nat /\ PageFrom /\ LocalFrom
      /\ run.page \in [Row -> ServerRow]
  BY DEF Base, TypeOK, RunState
<1>2. local' = [r \in Row |->
       IF r \in rows /\ run.page[r].seq # 0
         THEN [ver |-> run.page[r].ver, status |-> "synced", seq |-> run.page[r].seq]
         ELSE local[r]]
  BY DEF Stored
<1>3. local' \in [Row -> LocalRow]
  BY <1>1, <1>2 DEF LocalRow, ServerRow
<1>4. overrun' \subseteq Nat
  BY <1>1 DEF Stored, Unpushed, LocalRow
<1>5. ASSUME NEW r \in Row
      PROVE  /\ local'[r].ver # 0 <=> local'[r].status # "none"
             /\ \/ local'[r] = local[r] /\ (r \notin rows \/ run.page[r].seq = 0)
                \/ /\ r \in rows /\ run.page[r].seq # 0 /\ local'[r].ver = run.page[r].ver
                   /\ local'[r].status = "synced"
  BY <1>1, <1>2 DEF PageFrom, LocalFrom
<1> QED
  BY <1>3, <1>4, <1>5

LEMMA LocalSteps ==
  ASSUME Base,
         \/ Align \/ Collect \/ Acknowledge \/ AnswerInvalid \/ Export \/ Clear \/ ClearFails \/ Wipe
         \/ Delete \/ ApplyPulled \/ ApplyPart \/ SaveCursor \/ Replay
  PROVE  LocalOnly
<1>1. /\ TypeOK /\ local \in [Row -> LocalRow] /\ run \in RunState /\ faults \in Nat /\ faults + 1 \in Nat
      /\ cursor \in Nat /\ hollow \in BOOLEAN /\ overrun \subseteq Nat
      /\ aligned \subseteq Nat /\ unsaved \subseteq Nat /\ fingerprint \subseteq SUBSET Catalog
      /\ files \in Seq(SUBSET ExportedRow)
      /\ \A r \in Row : local[r].ver # 0 <=> local[r].status # "none"
      /\ NoRow \in LocalRow /\ NoRow.ver = 0 /\ NoRow.status = "none"
      /\ \A i \in DOMAIN files : \A e \in files[i] : \E j \in DOMAIN files : e \in files[j]
  BY DEF Base, TypeOK, LocalFrom, NoRow, LocalRow
<1>2. run.full \in BOOLEAN /\ AfterPush \in Phases
  BY <1>1 DEF RunState, AfterPush, Phases
<1>3. CASE Collect
  <2>1. PICK old \in SUBSET Unconfirmed, chosen \in SUBSET Row :
          /\ local' = Marked(old)
          /\ run' = IF chosen = {} THEN [run EXCEPT !.phase = AfterPush]
                    ELSE [run EXCEPT !.phase = "sent", !.again = old \cap chosen,
                            !.body = [r \in Row |-> IF r \in chosen THEN local[r].ver ELSE 0]]
    BY <1>3 DEF Collect
  <2>2. /\ local' \in [Row -> LocalRow]
        /\ \A r \in Row : local'[r].ver = local[r].ver /\ (local'[r].ver # 0 <=> local'[r].status # "none")
    BY <1>1, <2>1, MarkedFacts
  <2> DEFINE body == [r \in Row |-> IF r \in chosen THEN local[r].ver ELSE 0]
             n == [run EXCEPT !.phase = "sent", !.again = old \cap chosen, !.body = body]
  <2>3. CASE chosen = {}
    <3>1. run' \in RunState /\ run'.body = run.body /\ run'.page = run.page
      BY <1>1, <1>2, <2>1, <2>3 DEF RunState
    <3> QED
      BY <1>1, <1>3, <2>2, <3>1 DEF Collect, LocalOnly, ghosts
  <2>4. CASE chosen # {}
    <3>1. body \in [Row -> Nat] /\ \A r \in Row : body[r] \in {0, local[r].ver}
      BY <1>1 DEF LocalRow
    <3>2. run' = n
      BY <2>1, <2>4
    <3> HIDE DEF body
    <3>3. n \in RunState /\ n.body = body /\ n.page = run.page
      BY <1>1, <3>1 DEF RunState, Phases
    <3> HIDE DEF n
    <3>4. run' \in RunState /\ run'.page = run.page /\ \A r \in Row : run'.body[r] \in {0, local[r].ver}
      BY <3>1, <3>2, <3>3
    <3> QED
      BY <1>1, <1>3, <2>2, <3>4 DEF Collect, LocalOnly, ghosts
  <2> QED
    BY <2>3, <2>4
<1>4. CASE Acknowledge
  <2>1. /\ local' \in [Row -> LocalRow]
        /\ \A r \in Row : local'[r].ver = local[r].ver /\ (local'[r].ver # 0 <=> local'[r].status # "none")
    BY <1>1, <1>4 DEF Acknowledge, LocalRow
  <2>2. run' \in RunState /\ run'.body = run.body /\ run'.page = run.page
    BY <1>2, <1>4, GoFacts DEF Acknowledge
  <2> QED
    BY <1>1, <1>4, <2>1, <2>2 DEF Acknowledge, LocalOnly, ghosts
<1>5. CASE AnswerInvalid
  <2>1. /\ local' \in [Row -> LocalRow]
        /\ \A r \in Row : local'[r].ver = local[r].ver /\ (local'[r].ver # 0 <=> local'[r].status # "none")
    BY <1>1, <1>5 DEF AnswerInvalid, LocalRow
  <2>2. run' = [run EXCEPT !.phase = "collect", !.tried = run.tried \cup {"invalid"}]
    BY <1>5 DEF AnswerInvalid
  <2>3. run' \in RunState /\ run'.body = run.body /\ run'.page = run.page
    BY <1>1, <2>2 DEF RunState, Phases
  <2> QED
    BY <1>1, <1>5, <2>1, <2>3 DEF AnswerInvalid, LocalOnly, Fault, ghosts
<1>6. CASE Export
  <2>1. PICK chosen \in SUBSET Row : /\ ExportRows(chosen)
                                     /\ Go(IF chosen = {} THEN "bare" ELSE "clear")
    BY <1>6 DEF Export
  <2>2. run' \in RunState /\ run'.body = run.body /\ run'.page = run.page
    BY <2>1, GoFacts DEF Phases
  <2> QED
    BY <1>1, <1>6, <2>1, <2>2, ExportFacts DEF Export, LocalOnly
<1>7. CASE Clear
  <2>1. local' \in [Row -> LocalRow] /\ \A r \in Row : local'[r].ver = 0 /\ local'[r].status = "none"
    BY <1>1, <1>7 DEF Clear
  <2>2. run' \in RunState /\ run'.body = run.body /\ run'.page = run.page
    BY <1>7, GoFacts DEF Clear, Phases
  <2>3. hollow' \in BOOLEAN
    BY <1>1, <1>7 DEF Clear
  <2> QED
    BY <1>1, <1>7, <2>1, <2>2, <2>3 DEF Clear, LocalOnly
<1>8. CASE ClearFails
  <2>1. PICK gone \in SUBSET Row : local' = [r \in Row |-> IF r \in gone THEN NoRow ELSE local[r]]
    BY <1>8 DEF ClearFails
  <2>2. /\ local' \in [Row -> LocalRow]
        /\ \A r \in Row : /\ local'[r].ver \in {0, local[r].ver}
                          /\ local'[r].ver # 0 <=> local'[r].status # "none"
    BY <1>1, <2>1
  <2>3. run' \in RunState /\ run'.body = run.body /\ run'.page = run.page
    BY <1>8, GoFacts DEF ClearFails, Phases
  <2>4. hollow' \in BOOLEAN
    BY <1>1, <1>8 DEF ClearFails
  <2> QED
    BY <1>1, <1>8, <2>2, <2>3, <2>4 DEF ClearFails, LocalOnly, Fault
<1>9. CASE Wipe
  <2>1. PICK chosen \in SUBSET Row : ExportRows(chosen)
    BY <1>9 DEF Wipe
  <2> DEFINE n == [IdleRun EXCEPT !.phase = "delete"]
  <2>2. run' = n
    BY <1>9 DEF Wipe
  <2>3. n \in RunState /\ n.body = IdleRun.body /\ n.page = NoPage
    BY IdleFacts DEF RunState, Phases
  <2> HIDE DEF n
  <2>4. \A r \in Row : run'.body[r] = 0 /\ run'.page[r] = NoServerRow
    BY <2>2, <2>3, IdleFacts
  <2>5. stray' \subseteq stray \cup {Request}
    BY <1>9, AbandonFacts DEF Wipe
  <2> QED
    BY <1>1, <1>9, <2>1, <2>2, <2>3, <2>4, <2>5, ExportFacts DEF Wipe, LocalOnly, Fault
<1>10. CASE Delete
  <2>1. local' \in [Row -> LocalRow] /\ \A r \in Row : local'[r].ver = 0 /\ local'[r].status = "none"
    BY <1>1, <1>10 DEF Delete
  <2>2. run' \in RunState /\ \A r \in Row : run'.body[r] = 0 /\ run'.page[r] = NoServerRow
    BY <1>10, IdleFacts DEF Delete
  <2> QED
    BY <1>1, <1>10, <2>1, <2>2 DEF Delete, LocalOnly
<1>11. CASE ApplyPulled
  <2>1. run' \in RunState /\ run'.body = run.body /\ run'.page = run.page
    BY <1>11, GoFacts DEF ApplyPulled, Phases
  <2>2. Stored(Row)
    BY <1>11 DEF ApplyPulled
  <2> QED
    BY <1>1, <1>11, <2>1, <2>2, PageFacts DEF ApplyPulled, LocalOnly
<1>12. CASE ApplyPart
  <2>1. PICK rows \in SUBSET Row : Stored(rows)
    BY <1>12 DEF ApplyPart
  <2>2. run' \in RunState /\ \A r \in Row : run'.body[r] \in {0, run.body[r]} /\ run'.page[r] = NoServerRow
    BY <1>1, <1>12, IdleFacts, BrokenFacts DEF ApplyPart
  <2> QED
    BY <1>1, <1>12, <2>1, <2>2, PageFacts DEF ApplyPart, LocalOnly, Fault
<1>13. CASE SaveCursor
  <2>1. run.next \in Nat /\ hollow' \in BOOLEAN
    BY <1>1, <1>13 DEF RunState, SaveCursor
  <2>2. /\ local' \in [Row -> LocalRow]
        /\ \A r \in Row : local'[r].ver = local[r].ver /\ (local'[r].ver # 0 <=> local'[r].status # "none")
    <3>1. CASE run.resume = "collect"
      <4>1. local' = [r \in Row |-> IF r \in Catalog /\ local[r].status = "synced"
                                     THEN [local[r] EXCEPT !.status = "pending"] ELSE local[r]]
        BY <1>13, <3>1 DEF SaveCursor
      <4> QED
        BY <1>1, <4>1 DEF LocalRow
    <3>2. CASE run.resume # "collect"
      BY <1>1, <1>13, <3>2 DEF SaveCursor
    <3> QED
      BY <3>1, <3>2
  <2>3. run' \in RunState /\ run'.body = run.body /\ run'.page = NoPage
    <3>1. \/ run' = [run EXCEPT !.phase = "collect", !.resume = "replay", !.page = NoPage]
          \/ run' = [run EXCEPT !.phase = "replay", !.page = NoPage]
      BY <1>13 DEF SaveCursor
    <3>2. NoPage \in [Row -> ServerRow]
      BY IdleFacts
    <3> QED
      BY <1>1, <3>1, <3>2 DEF RunState, Phases
  <2>4. \A r \in Row : run'.page[r] = NoServerRow
    BY <2>3, IdleFacts
  <2>5. cursor' \in Nat
    BY <1>13, <2>1 DEF SaveCursor
  <2> QED
    BY <1>1, <1>13, <2>1, <2>2, <2>3, <2>4, <2>5 DEF SaveCursor, LocalOnly
<1>14. CASE Replay
  <2>1. ASSUME NEW r \in Row
        PROVE  /\ Newest(r) \in LocalRow
               /\ Newest(r).ver # 0 <=> Newest(r).status # "none"
               /\ \/ Newest(r).ver = local[r].ver
                  \/ \E i \in DOMAIN files : \E e \in files[i] : e.row = r /\ Newest(r).ver = e.ver
    <3>1. CASE Newest(r) = local[r]
      BY <1>1, <3>1
    <3>2. ASSUME NEW i \in DOMAIN files, NEW e \in files[i], e.row = r, e.ver > local[r].ver,
                 Newest(r) = [ver |-> e.ver, status |-> "pending", seq |-> e.seq]
          PROVE  /\ Newest(r) \in LocalRow
                 /\ Newest(r).ver # 0 <=> Newest(r).status # "none"
                 /\ \/ Newest(r).ver = local[r].ver
                    \/ \E j \in DOMAIN files : \E f \in files[j] : f.row = r /\ Newest(r).ver = f.ver
      <4>1. e \in ExportedRow /\ local[r].ver \in Nat
        BY <1>1 DEF LocalRow
      <4>2. e.ver \in Nat /\ e.seq \in Nat /\ e.ver # 0
        BY <3>2, <4>1 DEF ExportedRow
      <4>3. Newest(r) \in LocalRow /\ Newest(r).ver = e.ver /\ Newest(r).status = "pending"
        BY <3>2, <4>2 DEF LocalRow
      <4> QED
        BY <3>2, <4>2, <4>3
    <3> QED
      BY <3>1, <3>2, NewestFacts
  <2>2. local' = [r \in Row |-> Newest(r)]
    BY <1>14 DEF Replay
  <2>3. /\ local' \in [Row -> LocalRow]
        /\ \A r \in Row : /\ local'[r].ver # 0 <=> local'[r].status # "none"
                          /\ \/ local'[r].ver = local[r].ver
                             \/ \E i \in DOMAIN files : \E e \in files[i] : e.row = r /\ local'[r].ver = e.ver
    BY <2>1, <2>2
  <2>4. files' = <<>> /\ files' \in Seq(SUBSET ExportedRow) /\ DOMAIN files' = {}
    BY <1>14 DEF Replay
  <2>5. run' \in RunState /\ \A r \in Row : run'.body[r] = 0 /\ run'.page[r] = NoServerRow
    BY <1>14, IdleFacts DEF Replay
  <2> QED
    BY <1>1, <1>14, <2>3, <2>4, <2>5 DEF Replay, LocalOnly, ghosts
<1>15. CASE Align
  <2>1. run.page \in [Row -> ServerRow] /\ \A r \in Row : run.page[r].ver # 0 => run.page[r].seq # 0
    BY <1>1 DEF Base, PageFrom, RunState
  <2>2. \A r \in Schema(run.page) : r \in Row /\ run.page[r].ver # 0
    BY ClientAssumption DEF Schema
  <2>3. local' = [r \in Row |->
          IF r \in Schema(run.page)
            THEN [ver |-> run.page[r].ver, status |-> "synced", seq |-> local[r].seq] ELSE local[r]]
    BY <1>15 DEF Align
  <2>4. /\ local' \in [Row -> LocalRow]
        /\ \A r \in Row :
             /\ local'[r].ver # 0 <=> local'[r].status # "none"
             /\ \/ local'[r].ver = local[r].ver
                \/ run.page[r].seq # 0 /\ local'[r].ver = run.page[r].ver
    BY <1>1, <2>1, <2>2, <2>3 DEF LocalRow, ServerRow
  <2> DEFINE n == [run EXCEPT !.phase = "collect", !.page = NoPage]
  <2>5. run' = n
    BY <1>15 DEF Align
  <2>6. n \in RunState /\ n.body = run.body /\ n.page = NoPage
    BY <1>1, IdleFacts DEF RunState, Phases
  <2> HIDE DEF n
  <2>7. \A r \in Row : run'.page[r] = NoServerRow
    BY <2>5, <2>6, IdleFacts
  <2>8. fingerprint' \subseteq SUBSET Catalog /\ aligned' \subseteq Nat
    BY <1>1, <1>15 DEF Align, Schema, Unpushed, LocalRow
  <2> QED
    BY <1>1, <1>15, <2>4, <2>5, <2>6, <2>7, <2>8 DEF Align, LocalOnly
<1> QED
  BY <1>3, <1>4, <1>5, <1>6, <1>7, <1>8, <1>9, <1>10, <1>11, <1>12, <1>13, <1>14, <1>15

LEMMA EditBase ==
  ASSUME Base, NEW r \in Row, Edit(r)
  PROVE  Base'
<1> DEFINE x == [row |-> r, here |-> TRUE, quiet |-> Phase("idle")]
<1>1. TypeOK /\ x \in LogEntry /\ log \in Seq(LogEntry) /\ log' = Append(log, x)
      /\ UNCHANGED <<server, cursor, fingerprint, run, files, stray, ghosts, faults>>
  BY DEF Base, TypeOK, Edit, LogEntry, Phase
<1>2. Len(log') \in Nat
  BY <1>1
<1>3. PICK n \in Nat : n = Len(log')
  BY <1>2
<1>4. n # 0 /\ n \in Version' /\ log'[n] = x /\ log' \in Seq(LogEntry)
  BY <1>1, <1>3 DEF Version
<1>5. local \in [Row -> LocalRow] /\ local' = [local EXCEPT ![r].ver = n, ![r].status = "pending"]
  BY <1>1, <1>3 DEF TypeOK, Edit
<1>6. /\ local' \in [Row -> LocalRow]
      /\ local'[r].ver = n /\ local'[r].status = "pending"
      /\ \A q \in Row \ {r} : local'[q] = local[q]
  BY <1>5 DEF LocalRow
<1>7. TypeOK'
  BY <1>1, <1>4, <1>6 DEF TypeOK, server, ghosts
<1>8. Sourced(r, n)'
  <2>1. log'[n].row = r /\ log'[n].here
    BY <1>4
  <2> QED
    BY <1>4, <2>1 DEF Sourced
<1>9. \A q \in Row : /\ local'[q].ver # 0 <=> local'[q].status # "none"
                     /\ \/ local'[q].ver \in {0, local[q].ver}
                        \/ \E v : local'[q].ver = v /\ Sourced(q, v)'
  BY <1>4, <1>6, <1>8 DEF Base, LocalFrom
<1>10. reached \subseteq reached' /\ \E y \in LogEntry : log' = Append(log, y)
  BY <1>1 DEF server
<1>11. Carries
  BY <1>1, <1>9, <1>10 DEF Base, Carries, server, ghosts
<1> QED
  BY <1>7, <1>11, BaseKeeps

LEMMA BaseStep ==
  ASSUME Base, [Next]_vars
  PROVE  Base'
<1>1. CASE UNCHANGED vars
  <2>1. RunOnly
    BY <1>1 DEF Base, TypeOK, vars, server, ghosts, RunOnly
  <2> QED
    BY <2>1, RunOnlyBase
<1>2. CASE \E r \in Row : Edit(r) \/ OtherWrites(r)
  BY <1>2, EditBase, OtherBase
<1>3. CASE RunStep
  BY <1>3, RunOnlySteps, RunOnlyBase, ServerBase, LocalSteps, LocalOnlyBase DEF RunStep
<1>4. CASE Delete
  BY <1>4, LocalSteps, LocalOnlyBase
<1>5. CASE Trouble
  BY <1>5, RunOnlySteps, RunOnlyBase, ServerBase, ConflictBase, LocalSteps, LocalOnlyBase DEF Trouble
<1> QED
  BY <1>1, <1>2, <1>3, <1>4, <1>5 DEF Next

\* The client's variables keep their types, and every version it or a request
\* holds is an edit of that row.
THEOREM TypeCorrect == Spec => []TypeOK
<1>1. Base /\ [Next]_vars => Base'
  BY BaseStep
<1>2. Base => TypeOK
  BY DEF Base
<1> QED
  BY <1>1, <1>2, BaseInit, PTL DEF Spec

-----------------------------------------------------------------------------
(* What the cursor may hide.  A row the client believes to be in step and is *)
(* not is ahead of the cursor; while a page is applied it is ahead of where  *)
(* the pull started, and when the cursor is saved ahead of where it goes.    *)
(* A row of a schema snapshot is the server's, or changed since and ahead.   *)

Settled(r) == local[r].status \in {"none", "synced"}
Apart(r) == Settled(r) /\ local[r].ver # srow[r].ver

Bounds == (\A r \in Row : srow[r].seq <= head) /\ cursor <= head
Known == \A r \in Row : local[r].status = "synced" \/ run.page[r].seq # 0 => srow[r].seq # 0
Taken == Phase("served") => \A r \in run.taken : srow[r].seq > cursor
Window == Phase("apply") \/ Phase("save") =>
            run.since <= run.next /\ run.next <= head /\ cursor <= run.next
Paged == Phase("apply") =>
           \A r \in Row : \/ srow[r].seq > run.next
                          \/ run.page[r] = srow[r]
                          \/ run.page[r].seq = 0 /\ srow[r].seq <= run.since
Snapped == Phase("align") =>
             \A r \in Row : run.page[r].seq # 0 => run.page[r] = srow[r] \/ srow[r].seq > cursor
Ahead == \A r \in Row : Apart(r) =>
           /\ srow[r].seq > cursor \/ hollow
           /\ Phase("apply") => srow[r].seq > run.since \/ hollow
           /\ Phase("save") => srow[r].seq > run.next \/ (hollow /\ run.since # 0)

CursorInv == Base /\ Bounds /\ Known /\ Taken /\ Window /\ Paged /\ Snapped /\ Ahead

Typed ==
  /\ head \in Nat /\ cursor \in Nat /\ hollow \in BOOLEAN /\ run \in RunState
  /\ run.since \in Nat /\ run.next \in Nat /\ run.taken \subseteq Row
  /\ \A r \in Row : /\ srow[r].ver \in Nat /\ srow[r].seq \in Nat /\ local[r].ver \in Nat
                    /\ run.page[r].ver \in Nat /\ run.page[r].seq \in Nat
                    /\ srow[r].ver # 0 <=> srow[r].seq # 0
                    /\ local[r].ver # 0 <=> local[r].status # "none"
                    /\ run.page[r].ver # 0 <=> run.page[r].seq # 0
                    /\ local[r].status \in {"none", "synced", "pending", "error"}

LEMMA BaseTyped == Base => Typed
<1> SUFFICES ASSUME Base PROVE Typed
  OBVIOUS
<1>1. /\ head \in Nat /\ cursor \in Nat /\ hollow \in BOOLEAN /\ run \in RunState
      /\ srow \in [Row -> ServerRow] /\ local \in [Row -> LocalRow]
      /\ ServerFrom /\ LocalFrom /\ PageFrom
  BY DEF Base, TypeOK
<1>2. run.since \in Nat /\ run.next \in Nat /\ run.taken \subseteq Row /\ run.page \in [Row -> ServerRow]
  BY <1>1 DEF RunState
<1> QED
  BY <1>1, <1>2 DEF Typed, ServerRow, LocalRow, ServerFrom, LocalFrom, PageFrom

LEMMA BaseTypedNext == Base' => Typed'
BY BaseTyped, PTL

LEMMA CursorInit == Init => CursorInv
<1> SUFFICES ASSUME Init PROVE CursorInv
  OBVIOUS
<1>1. Base
  BY BaseInit
<1>2. /\ head = 0 /\ srow = NoPage /\ cursor = 0 /\ run = IdleRun /\ local = [r \in Row |-> NoRow]
      /\ NoRow.ver = 0 /\ NoRow.status = "none"
  BY DEF Init, NoRow
<1>3. \A r \in Row : srow[r].seq = 0 /\ srow[r].ver = 0 /\ run.page[r].seq = 0
                     /\ local[r].ver = 0 /\ local[r].status = "none"
  BY <1>2, IdleFacts
<1> QED
  BY <1>1, <1>2, <1>3, IdleFacts
  DEF CursorInv, Bounds, Known, Taken, Window, Paged, Snapped, Ahead, Apart, Phase

\* Steps that settle no row and save no cursor.
Unsettling ==
  /\ head <= head'
  /\ \A r \in Row : srow'[r] = srow[r] \/ (srow'[r].seq > head /\ srow'[r].seq <= head')
  /\ \A r \in Row : Settled(r)' => local'[r] = local[r]
  /\ cursor' \in {0, cursor} /\ hollow' = hollow
  /\ \/ run' = run
     \/ /\ run'.phase \notin {"align", "served", "apply", "save"}
        /\ \A r \in Row : run'.page[r] \in {NoServerRow, run.page[r]}

LEMMA UnsettlingKeeps ==
  ASSUME CursorInv, Base', Unsettling
  PROVE  CursorInv'
<1>1. Typed /\ Typed'
  BY BaseTyped, BaseTypedNext DEF CursorInv
<1>2. Bounds'
  BY <1>1 DEF Typed, CursorInv, Bounds, Unsettling
<1>3. Known'
  BY <1>1, IdleFacts DEF Typed, CursorInv, Known, Bounds, Unsettling, Settled
<1>4. Taken'
  BY <1>1 DEF Typed, CursorInv, Taken, Bounds, Unsettling, Phase
<1>5. Window'
  BY <1>1 DEF Typed, CursorInv, Window, Unsettling, Phase
<1>6. Paged'
  BY <1>1 DEF Typed, CursorInv, Window, Paged, Unsettling, Phase
<1>7. Snapped'
  BY <1>1 DEF Typed, CursorInv, Bounds, Snapped, Unsettling, Phase
<1>8. Ahead'
  <2>1. SUFFICES ASSUME NEW r \in Row, Apart(r)'
        PROVE  /\ srow'[r].seq > cursor' \/ hollow'
               /\ Phase("apply")' => srow'[r].seq > run'.since \/ hollow'
               /\ Phase("save")' => srow'[r].seq > run'.next \/ (hollow' /\ run'.since # 0)
    BY DEF Ahead
  <2>2. CASE srow'[r] = srow[r]
    <3>1. Apart(r)
      BY <2>1, <2>2 DEF Apart, Settled, Unsettling
    <3> QED
      BY <1>1, <2>2, <3>1 DEF Typed, CursorInv, Ahead, Unsettling, Phase
  <2>3. CASE srow'[r].seq > head
    <3>1. srow'[r].seq \in Nat /\ head \in Nat /\ cursor \in Nat /\ cursor' \in {0, cursor} /\ cursor <= head
      BY <1>1 DEF Typed, CursorInv, Bounds, Unsettling
    <3>2. srow'[r].seq > cursor'
      BY <2>3, <3>1
    <3>3. ASSUME Phase("apply")' \/ Phase("save")'
          PROVE  srow'[r].seq > run'.since /\ srow'[r].seq > run'.next
      <4>1. run' = run /\ (Phase("apply") \/ Phase("save"))
        BY <3>3 DEF Unsettling, Phase
      <4>2. run.since <= run.next /\ run.next <= head /\ run.since \in Nat /\ run.next \in Nat
        BY <1>1, <4>1 DEF Typed, CursorInv, Window
      <4> QED
        BY <2>3, <3>1, <4>1, <4>2
    <3> QED
      BY <3>2, <3>3
  <2> QED
    BY <2>2, <2>3 DEF Unsettling
<1> QED
  BY <1>2, <1>3, <1>4, <1>5, <1>6, <1>7, <1>8 DEF CursorInv

LEMMA UnsettlingSteps ==
  ASSUME Base,
         \/ UNCHANGED vars
         \/ \E r \in Row : Edit(r) \/ OtherWrites(r)
         \/ StartRun(TRUE) \/ StartRun(FALSE) \/ AlignFails \/ AnswerOutdated \/ Collect \/ ServeStray
         \/ GiveUp \/ AnswerInvalid \/ AnswerConflict \/ Export \/ ExportFails \/ Wipe \/ WipeUnsaved
         \/ ResetCursor \/ PullFails \/ Replay \/ Stop
  PROVE  Unsettling
<1>1. /\ Base /\ TypeOK /\ Typed /\ AfterPush \in {"export", "pull"}
      /\ run \in RunState /\ head <= head
      /\ \A r \in Row : NoPage[r] = NoServerRow
  BY BaseTyped, IdleFacts DEF Base, Typed, AfterPush
<1>2. ASSUME NEW old \in SUBSET Unconfirmed, NEW r \in Row, Marked(old)[r].status \in {"none", "synced"}
      PROVE  Marked(old)[r] = local[r]
  <2>1. local[r] \in LocalRow
    BY <1>1 DEF TypeOK
  <2>2. [local[r] EXCEPT !.status = "pending"].status = "pending"
        /\ [local[r] EXCEPT !.status = "error"].status = "error"
    BY <2>1 DEF LocalRow
  <2> QED
    BY <1>2, <2>2 DEF Marked
<1>3. ASSUME NEW r \in Row, Edit(r) PROVE Unsettling
  <2>1. \A q \in Row : Settled(q)' => local'[q] = local[q]
    <3>1. local \in [Row -> LocalRow]
      BY <1>1 DEF TypeOK
    <3>2. \E n : local' = [local EXCEPT ![r].ver = n, ![r].status = "pending"]
      BY <1>3 DEF Edit
    <3>3. local'[r].status = "pending" /\ \A q \in Row \ {r} : local'[q] = local[q]
      BY <3>1, <3>2 DEF LocalRow
    <3> QED
      BY <3>3 DEF Settled
  <2> QED
    BY <1>1, <1>3, <2>1 DEF Edit, server, ghosts, Unsettling
<1>4. ASSUME NEW r \in Row, OtherWrites(r) PROVE Unsettling
  <2>1. PICK n : srow' = [srow EXCEPT ![r] = [ver |-> n, seq |-> head']]
    BY <1>4 DEF OtherWrites
  <2>2. head \in Nat /\ head' = head + 1 /\ srow \in [Row -> ServerRow]
    BY <1>1, <1>4 DEF TypeOK, OtherWrites
  <2>3. srow'[r].seq = head' /\ \A q \in Row \ {r} : srow'[q] = srow[q]
    BY <2>1, <2>2
  <2>4. head' > head /\ head' <= head' /\ head <= head'
    BY <2>2
  <2>5. \A q \in Row : srow'[q] = srow[q] \/ (srow'[q].seq > head /\ srow'[q].seq <= head')
    BY <2>3, <2>4
  <2> QED
    BY <1>4, <2>4, <2>5 DEF OtherWrites, ghosts, Unsettling
<1>5. ASSUME StartRun(TRUE) \/ StartRun(FALSE) PROVE Unsettling
  <2> DEFINE n(full) == [IdleRun EXCEPT !.phase = "schema", !.full = full]
  <2>1. PICK full \in BOOLEAN : StartRun(full) /\ run' = n(full)
    BY <1>5 DEF StartRun
  <2>2. n(full).phase = "schema" /\ n(full).page = NoPage
    BY IdleFacts DEF RunState
  <2> HIDE DEF n
  <2>3. run'.phase = "schema" /\ \A r \in Row : run'.page[r] = NoServerRow
    BY <1>1, <2>1, <2>2
  <2> QED
    BY <1>1, <2>1, <2>3 DEF StartRun, server, ghosts, Unsettling
<1>6. ASSUME Collect PROVE Unsettling
  <2>1. PICK old \in SUBSET Unconfirmed :
          /\ local' = Marked(old)
          /\ \/ run' = [run EXCEPT !.phase = AfterPush]
             \/ \E b, a : run' = [run EXCEPT !.phase = "sent", !.again = a, !.body = b]
    BY <1>6 DEF Collect
  <2>2. run'.phase \notin {"align", "served", "apply", "save"} /\ run'.page = run.page
    BY <1>1, <2>1 DEF RunState
  <2>3. \A r \in Row : Settled(r)' => local'[r] = local[r]
    BY <1>2, <2>1 DEF Settled
  <2> QED
    BY <1>1, <1>6, <2>2, <2>3 DEF Collect, server, ghosts, Unsettling
<1>7. ASSUME ServeStray PROVE Unsettling
  <2>1. PICK q \in stray : /\ \E taken \in SUBSET Row : Accept(q.body, taken)
                           /\ UNCHANGED <<log, local, cursor, fingerprint, run, files, ghosts, faults>>
    BY <1>7 DEF ServeStray
  <2>2. PICK taken \in SUBSET Row : Accept(q.body, taken)
    BY <2>1
  <2>3. q.body \in [Row -> Nat]
    BY <1>1 DEF TypeOK, GivenUp
  <2>4. Takes(q.body, taken)
    BY <1>1, <2>2, <2>3, AcceptFacts
  <2> QED
    BY <1>1, <2>1, <2>4 DEF Takes, Unsettling, ghosts
<1>8. ASSUME GiveUp PROVE Unsettling
  <2>1. run' = [run EXCEPT !.phase = AfterPush]
    BY <1>8 DEF GiveUp, Go
  <2>2. run'.phase \in {"export", "pull"} /\ run'.page = run.page
    BY <1>1, <2>1 DEF RunState
  <2> QED
    BY <1>1, <1>8, <2>2 DEF GiveUp, server, ghosts, Unsettling
<1>9. ASSUME AnswerInvalid PROVE Unsettling
  <2>1. \E t : run' = [run EXCEPT !.phase = "collect", !.tried = t]
    BY <1>9 DEF AnswerInvalid
  <2>2. run'.phase = "collect" /\ run'.page = run.page
    BY <1>1, <2>1 DEF RunState
  <2>3. \A r \in Row : Settled(r)' => local'[r] = local[r]
    <3>1. local \in [Row -> LocalRow]
      BY <1>1 DEF TypeOK
    <3> QED
      BY <1>9, <3>1 DEF Settled, AnswerInvalid, LocalRow
  <2> QED
    BY <1>1, <1>9, <2>2, <2>3 DEF AnswerInvalid, server, ghosts, Unsettling
<1>10. ASSUME AnswerConflict PROVE Unsettling
  <2>1. \E t : run' = [run EXCEPT !.phase = "pull", !.resume = "collect", !.tried = t]
    BY <1>10 DEF AnswerConflict
  <2>2. run'.phase = "pull" /\ run'.page = run.page
    BY <1>1, <2>1 DEF RunState
  <2>3. Cardinality(Sent(run.body)) \in Nat
    BY ClientAssumption, FS_Subset, FS_CardinalityType DEF Sent
  <2>4. head \in Nat /\ head' = head + Cardinality(Sent(run.body))
    BY <1>1, <1>10 DEF TypeOK, AnswerConflict
  <2>5. head <= head'
    BY <2>3, <2>4
  <2> QED
    BY <1>10, <2>2, <2>5 DEF AnswerConflict, ghosts, Unsettling
<1>11. ASSUME NEW chosen \in SUBSET Row, ExportRows(chosen)
       PROVE  \A r \in Row : Settled(r)' => local'[r] = local[r]
  BY <1>2, <1>11 DEF ExportRows, Settled
<1>12. ASSUME Export PROVE Unsettling
  <2>1. PICK chosen \in SUBSET Row : /\ ExportRows(chosen)
                                     /\ Go(IF chosen = {} THEN "bare" ELSE "clear")
    BY <1>12 DEF Export
  <2>2. run'.phase \in {"bare", "clear"} /\ run'.page = run.page
    BY <1>1, <2>1, GoFacts DEF Phases
  <2> QED
    BY <1>1, <1>11, <1>12, <2>1, <2>2 DEF Export, server, Unsettling
<1>13. ASSUME ExportFails \/ Stop PROVE Unsettling
  BY <1>1, <1>13, IdleFacts DEF ExportFails, Stop, server, ghosts, Unsettling
<1>14. ASSUME Wipe \/ WipeUnsaved PROVE Unsettling
  <2> DEFINE n == [IdleRun EXCEPT !.phase = "delete"]
  <2>1. run' = n
    BY <1>14 DEF Wipe, WipeUnsaved
  <2>2. n.phase = "delete" /\ n.page = NoPage
    BY IdleFacts DEF RunState
  <2> HIDE DEF n
  <2>3. run'.phase = "delete" /\ \A r \in Row : run'.page[r] = NoServerRow
    BY <1>1, <2>1, <2>2
  <2>4. \A r \in Row : Settled(r)' => local'[r] = local[r]
    BY <1>11, <1>14 DEF Wipe, WipeUnsaved
  <2> QED
    BY <1>1, <1>14, <2>3, <2>4 DEF Wipe, WipeUnsaved, server, Unsettling
<1>15. ASSUME ResetCursor PROVE Unsettling
  BY <1>1, <1>15 DEF ResetCursor, server, ghosts, Unsettling
<1>16. ASSUME PullFails PROVE Unsettling
  <2>1. run'.phase \in {"idle", "export", "pull"} /\ \A r \in Row : run'.page[r] = NoServerRow
    BY <1>1, <1>16, BrokenFacts DEF PullFails
  <2> QED
    BY <1>1, <1>16, <2>1 DEF PullFails, server, ghosts, Unsettling
<1>17. ASSUME Replay PROVE Unsettling
  <2>1. local' = [r \in Row |-> Newest(r)] /\ run' = IdleRun
    BY <1>17 DEF Replay
  <2>2. \A r \in Row : Newest(r) = local[r] \/ Newest(r).status = "pending"
    BY <1>1, NewestFacts
  <2>3. \A r \in Row : Settled(r)' => local'[r] = local[r]
    BY <2>1, <2>2 DEF Settled
  <2> QED
    BY <1>1, <1>17, <2>1, <2>3, IdleFacts DEF Replay, server, ghosts, Unsettling
<1>18. ASSUME UNCHANGED vars PROVE Unsettling
  BY <1>1, <1>18 DEF vars, server, ghosts, Unsettling
<1>19. ASSUME NEW p \in {"schema", "collect"}, Go(p) PROVE run'.phase = p /\ run'.page = run.page
  BY <1>1, <1>19, GoFacts DEF Phases
<1>20. ASSUME AlignFails PROVE Unsettling
  <2>1. run'.phase = "collect" /\ run'.page = run.page
    BY <1>19, <1>20 DEF AlignFails
  <2> QED
    BY <1>1, <1>20, <2>1 DEF AlignFails, server, ghosts, Unsettling
<1>21. ASSUME AnswerOutdated PROVE Unsettling
  <2>1. run'.phase = "schema" /\ run'.page = run.page
    BY <1>19, <1>21 DEF AnswerOutdated
  <2> QED
    BY <1>1, <1>21, <2>1 DEF AnswerOutdated, server, ghosts, Unsettling
<1> QED
  BY <1>3, <1>4, <1>5, <1>6, <1>7, <1>8, <1>9, <1>10, <1>12, <1>13, <1>14, <1>15, <1>16, <1>17, <1>18,
     <1>20, <1>21

\* The snapshot holds rows of the server.
LEMMA SnapshotKeeps ==
  ASSUME CursorInv, Base', Snapshot
  PROVE  CursorInv'
<1>1. /\ Base /\ Typed /\ UNCHANGED <<head, srow, local, cursor, hollow>>
      /\ run \in RunState /\ srow \in [Row -> ServerRow]
  BY BaseTyped DEF CursorInv, Base, TypeOK, Snapshot, server, ghosts
<1>2. run'.phase = "align" /\ \A r \in Row : run'.page[r] \in {NoServerRow, srow[r]}
  <2> DEFINE page == [r \in Row |-> IF r \in Catalog THEN srow[r] ELSE NoServerRow]
  <2>1. run' = [run EXCEPT !.phase = "align", !.page = page]
    BY DEF Snapshot
  <2>2. \A r \in Row : page[r] \in {NoServerRow, srow[r]}
    OBVIOUS
  <2> HIDE DEF page
  <2>3. run'.phase = "align" /\ run'.page = page
    BY <1>1, <2>1 DEF RunState
  <2> QED
    BY <2>2, <2>3
<1>3. Bounds'
  BY <1>1 DEF CursorInv, Bounds
<1>4. Known'
  BY <1>1, <1>2, IdleFacts DEF CursorInv, Known
<1>5. Taken' /\ Window' /\ Paged'
  BY <1>2 DEF Taken, Window, Paged, Phase
<1>6. Snapped'
  BY <1>1, <1>2, IdleFacts DEF Snapped
<1>7. Ahead'
  BY <1>1, <1>2 DEF CursorInv, Ahead, Apart, Settled, Phase
<1> QED
  BY <1>3, <1>4, <1>5, <1>6, <1>7 DEF CursorInv

\* The catalogue is the server's, or the server has changed it since, under a
\* seq ahead of the cursor.
LEMMA AlignKeeps ==
  ASSUME CursorInv, Base', Align
  PROVE  CursorInv'
<1>1. /\ Base /\ Typed /\ Phase("align") /\ UNCHANGED <<head, srow, cursor, hollow>>
      /\ run \in RunState
  BY BaseTyped DEF CursorInv, Typed, Align, server
<1>2. run'.phase = "collect" /\ \A r \in Row : run'.page[r] = NoServerRow
  <2>1. run' = [run EXCEPT !.phase = "collect", !.page = NoPage]
    BY DEF Align
  <2>2. run'.phase = "collect" /\ run'.page = NoPage
    BY <1>1, <2>1 DEF RunState
  <2> QED
    BY <2>2, IdleFacts
<1>3. \A r \in Row : \/ local'[r] = local[r]
                     \/ run.page[r].seq # 0 /\ local'[r].ver = run.page[r].ver
  <2>1. \A r \in Schema(run.page) : run.page[r].ver # 0
    BY DEF Schema
  <2> QED
    BY <1>1, <2>1 DEF Align, Typed
<1>4. Bounds'
  BY <1>1 DEF CursorInv, Bounds
<1>5. Known'
  BY <1>1, <1>2, <1>3, IdleFacts DEF CursorInv, Known
<1>6. Taken' /\ Window' /\ Paged' /\ Snapped'
  BY <1>2 DEF Taken, Window, Paged, Snapped, Phase
<1>7. ASSUME NEW r \in Row, Apart(r)' PROVE srow[r].seq > cursor \/ hollow
  <2>1. CASE local'[r] = local[r]
    BY <1>1, <1>7, <2>1 DEF CursorInv, Ahead, Apart, Settled
  <2>2. CASE run.page[r].seq # 0 /\ local'[r].ver = run.page[r].ver
    BY <1>1, <1>7, <2>2 DEF CursorInv, Snapped, Apart
  <2> QED
    BY <1>3, <2>1, <2>2
<1>8. Ahead'
  BY <1>1, <1>2, <1>7 DEF Ahead, Phase
<1> QED
  BY <1>4, <1>5, <1>6, <1>8 DEF CursorInv

\* The server takes rows of the push under way, under seqs beyond the cursor.
LEMMA ServeKeeps ==
  ASSUME CursorInv, Base', Serve \/ ServeAgain
  PROVE  CursorInv'
<1>1. /\ Base /\ TypeOK /\ Typed /\ Typed' /\ run \in RunState /\ run.body \in [Row -> Nat]
  BY BaseTyped, BaseTypedNext DEF CursorInv, Base, Typed, RunState
<1>2. PICK taken \in SUBSET Row : /\ Accept(run.body, taken)
                                  /\ run'.phase = "served" /\ run'.taken = taken
                                  /\ run'.page = run.page
  <2>1. CASE Serve
    <3>1. PICK taken \in SUBSET Row : /\ Accept(run.body, taken)
                                      /\ run' = [run EXCEPT !.phase = "served", !.taken = taken]
      BY <2>1 DEF Serve
    <3> QED
      BY <1>1, <3>1 DEF RunState
  <2>2. CASE ServeAgain
    <3>1. PICK taken \in SUBSET Row : /\ Accept(run.body, taken)
                                      /\ run' = [run EXCEPT !.taken = taken]
      BY <2>2 DEF ServeAgain
    <3>2. run.phase = "served"
      BY <2>2 DEF ServeAgain, Phase
    <3> QED
      BY <1>1, <3>1, <3>2 DEF RunState
  <2> QED
    BY <2>1, <2>2
<1>3. Takes(run.body, taken)
  BY <1>1, <1>2, AcceptFacts
<1>4. UNCHANGED <<local, cursor, hollow>>
  BY DEF Serve, ServeAgain, ghosts
<1>5. \A r \in Row : srow'[r] = srow[r] \/ (srow'[r].seq > head /\ srow'[r].seq <= head')
  BY <1>3 DEF Takes
<1>6. head <= head' /\ cursor <= head /\ \A r \in Row : srow[r].seq <= head
  BY <1>3 DEF Takes, CursorInv, Bounds
<1>7. Bounds'
  BY <1>1, <1>4, <1>5, <1>6 DEF Typed, Bounds
<1>8. Known'
  BY <1>1, <1>2, <1>4, <1>5 DEF Typed, CursorInv, Known
<1>9. Taken'
  BY <1>1, <1>2, <1>3, <1>4, <1>6 DEF Typed, Takes, Taken
<1>10. Window' /\ Paged' /\ Snapped'
  BY <1>2 DEF Window, Paged, Snapped, Phase
<1>11. Ahead'
  <2>1. SUFFICES ASSUME NEW r \in Row, Apart(r)' PROVE srow'[r].seq > cursor' \/ hollow'
    BY <1>2 DEF Ahead, Phase
  <2>2. CASE srow'[r] = srow[r]
    BY <1>4, <2>1, <2>2 DEF CursorInv, Ahead, Apart, Settled
  <2>3. CASE srow'[r].seq > head
    BY <1>1, <1>4, <1>6, <2>3 DEF Typed
  <2> QED
    BY <1>5, <2>2, <2>3
<1> QED
  BY <1>7, <1>8, <1>9, <1>10, <1>11 DEF CursorInv

\* The answer settles rows the server has just stored, whatever they hold by
\* now: those are ahead of the cursor.
LEMMA AcknowledgeKeeps ==
  ASSUME CursorInv, Base', Acknowledge
  PROVE  CursorInv'
<1>1. /\ Base /\ Typed /\ Typed' /\ AfterPush \in {"export", "pull"} /\ local \in [Row -> LocalRow]
  BY BaseTyped, BaseTypedNext DEF CursorInv, Base, TypeOK, AfterPush
<1>2. run'.phase \in {"export", "pull"} /\ run'.page = run.page
  BY <1>1, GoFacts DEF Acknowledge, Phases
<1>3. UNCHANGED <<head, srow, cursor, hollow>> /\ Phase("served")
  BY DEF Acknowledge, server, ghosts
<1>4. \A r \in Row : local'[r] = local[r] \/ (r \in run.taken /\ local'[r].ver = local[r].ver)
  BY <1>1 DEF Acknowledge, LocalRow
<1>5. \A r \in run.taken : srow[r].seq > cursor
  BY <1>3 DEF CursorInv, Taken
<1>6. Bounds'
  BY <1>3 DEF CursorInv, Bounds
<1>7. Known'
  BY <1>1, <1>2, <1>3, <1>4, <1>5 DEF Typed, CursorInv, Known
<1>8. Taken' /\ Window' /\ Paged' /\ Snapped'
  BY <1>2 DEF Taken, Window, Paged, Snapped, Phase
<1>9. Ahead'
  <2>1. SUFFICES ASSUME NEW r \in Row, Apart(r)' PROVE srow'[r].seq > cursor' \/ hollow'
    BY <1>2 DEF Ahead, Phase
  <2>2. CASE local'[r] = local[r]
    BY <1>3, <2>1, <2>2 DEF CursorInv, Ahead, Apart, Settled
  <2> QED
    BY <1>3, <1>4, <1>5, <2>2
<1> QED
  BY <1>6, <1>7, <1>8, <1>9 DEF CursorInv

\* Rows vanish: a row the server has is then apart, and the cursor is zero or
\* the tables are hollow.
LEMMA VanishKeeps ==
  ASSUME CursorInv, Base', Clear \/ ClearFails \/ Delete
  PROVE  CursorInv'
<1>1. /\ Base /\ Typed /\ Typed'
      /\ local \in [Row -> LocalRow] /\ NoRow.ver = 0 /\ NoRow.status = "none"
  BY BaseTyped, BaseTypedNext DEF CursorInv, Base, TypeOK, NoRow
<1>2. UNCHANGED <<head, srow>>
  BY DEF Clear, ClearFails, Delete, server
<1>3. /\ run'.phase \in {"pull", "idle"}
      /\ \A r \in Row : run'.page[r] \in {run.page[r], NoServerRow}
  <2>1. CASE Clear \/ ClearFails
    BY <1>1, <2>1, GoFacts DEF Clear, ClearFails, Phases
  <2>2. CASE Delete
    BY <2>2, IdleFacts DEF Delete
  <2> QED
    BY <2>1, <2>2
<1>4. \A r \in Row : local'[r] = local[r] \/ (local'[r].ver = 0 /\ local'[r].status = "none")
  <2>1. CASE Clear \/ Delete
    BY <1>1, <2>1 DEF Clear, Delete
  <2>2. CASE ClearFails
    <3>1. PICK gone \in SUBSET Row : local' = [r \in Row |-> IF r \in gone THEN NoRow ELSE local[r]]
      BY <2>2 DEF ClearFails
    <3> QED
      BY <1>1, <3>1
  <2> QED
    BY <2>1, <2>2
<1>5. /\ cursor' \in {0, cursor} /\ cursor' <= head
      /\ hollow' \/ cursor' = 0
      /\ cursor' # 0 => (hollow => hollow')
      /\ Delete => \A r \in Row : local'[r].ver = 0
  BY <1>1 DEF Typed, CursorInv, Bounds, Clear, ClearFails, Delete
<1>6. Bounds'
  BY <1>2, <1>5 DEF CursorInv, Bounds
<1>7. Known'
  BY <1>2, <1>3, <1>4, IdleFacts DEF CursorInv, Known
<1>8. Taken' /\ Window' /\ Paged' /\ Snapped'
  BY <1>3 DEF Taken, Window, Paged, Snapped, Phase
<1>9. Ahead'
  <2>1. SUFFICES ASSUME NEW r \in Row, Apart(r)' PROVE srow'[r].seq > cursor' \/ hollow'
    BY <1>3 DEF Ahead, Phase
  <2>2. CASE cursor' = 0
    <3>1. srow'[r].seq # 0
      BY <1>1, <1>2, <1>4, <2>1 DEF Typed, CursorInv, Known, Apart, Settled
    <3> QED
      BY <1>1, <2>2, <3>1 DEF Typed
  <2> QED
    BY <1>5, <2>2
<1> QED
  BY <1>6, <1>7, <1>8, <1>9 DEF CursorInv

\* A page takes everything above where the pull starts.
LEMMA FetchKeeps ==
  ASSUME CursorInv, Base', Fetch
  PROVE  CursorInv'
<1>1. Base /\ Typed /\ Typed' /\ run \in RunState
  BY BaseTyped, BaseTypedNext DEF CursorInv, Typed
<1>2. PICK since : since = PullSince
  OBVIOUS
<1> DEFINE page == [r \in Row |-> IF srow[r].seq > since THEN srow[r] ELSE NoServerRow]
           n == [run EXCEPT !.phase = "apply", !.since = since, !.next = head, !.page = page]
<1>3. since \in Nat /\ since <= cursor
  BY <1>1, <1>2 DEF Typed, PullSince, Since
<1>4. run' = n /\ UNCHANGED <<head, srow, local, cursor, hollow>>
  BY <1>2 DEF Fetch, server, ghosts
<1>5. \A r \in Row : page[r] = IF srow[r].seq > since THEN srow[r] ELSE NoServerRow
  OBVIOUS
<1> HIDE DEF page
<1>6. n.phase = "apply" /\ n.since = since /\ n.next = head /\ n.page = page
  BY <1>1 DEF RunState
<1> HIDE DEF n
<1>7. Bounds'
  BY <1>4 DEF CursorInv, Bounds
<1>8. Known'
  BY <1>4, <1>5, <1>6 DEF CursorInv, Known, NoServerRow
<1>9. Taken' /\ Window' /\ Snapped'
  BY <1>1, <1>3, <1>4, <1>6 DEF Typed, CursorInv, Bounds, Taken, Window, Snapped, Phase
<1>10. Paged'
  <2>1. \A r \in Row : \/ page[r] = srow[r]
                       \/ page[r].seq = 0 /\ srow[r].seq <= since
    BY <1>1, <1>3, <1>5 DEF Typed, NoServerRow
  <2> QED
    BY <1>4, <1>6, <2>1 DEF Paged
<1>11. Ahead'
  <2>1. SUFFICES ASSUME NEW r \in Row, Apart(r)
        PROVE  (srow[r].seq > cursor \/ hollow) /\ (srow[r].seq > since \/ hollow)
    BY <1>4, <1>6 DEF Ahead, Apart, Settled, Phase
  <2>2. srow[r].seq > cursor \/ hollow
    BY <2>1 DEF CursorInv, Ahead
  <2> QED
    BY <1>1, <1>3, <2>2 DEF Typed
<1> QED
  BY <1>7, <1>8, <1>9, <1>10, <1>11 DEF CursorInv

\* The page puts rows in step, or they are ahead of the page.
LEMMA ApplyFacts ==
  ASSUME CursorInv, NEW rows \in SUBSET Row, Stored(rows), Phase("apply"), UNCHANGED srow
  PROVE  /\ \A r \in Row : local'[r].status = "synced" => srow[r].seq # 0
         /\ \A r \in Row : Apart(r)' => \/ srow[r].seq > run.next
                                        \/ /\ Apart(r)
                                           /\ r \in rows => srow[r].seq <= run.since
<1>1. Base /\ Typed
  BY BaseTyped DEF CursorInv
<1>2. \A r \in Row :
        \/ local'[r] = local[r] /\ (r \notin rows \/ run.page[r].seq = 0)
        \/ /\ r \in rows /\ run.page[r].seq # 0 /\ local'[r].ver = run.page[r].ver
           /\ local'[r].status = "synced"
  BY <1>1, PageFacts
<1>3. \A r \in Row : local'[r].status = "synced" => srow[r].seq # 0
  BY <1>2 DEF CursorInv, Known
<1>4. ASSUME NEW r \in Row, Apart(r)', ~(srow[r].seq > run.next)
      PROVE  Apart(r) /\ (r \in rows => srow[r].seq <= run.since)
  <2>1. \/ run.page[r] = srow[r]
        \/ run.page[r].seq = 0 /\ srow[r].seq <= run.since
    BY <1>4 DEF CursorInv, Paged
  <2>2. CASE local'[r] = local[r] /\ (r \notin rows \/ run.page[r].seq = 0)
    <3>1. Apart(r)
      BY <1>4, <2>2 DEF Apart, Settled
    <3>2. r \in rows => srow[r].seq <= run.since
      BY <1>1, <2>1, <2>2 DEF Typed
    <3> QED
      BY <3>1, <3>2
  <2>3. CASE run.page[r].seq # 0 /\ local'[r].ver = run.page[r].ver
    BY <1>4, <2>1, <2>3 DEF Apart
  <2> QED
    BY <1>2, <2>2, <2>3
<1> QED
  BY <1>3, <1>4

LEMMA ApplyKeeps ==
  ASSUME CursorInv, Base', ApplyPulled \/ ApplyPart
  PROVE  CursorInv'
<1>1. /\ Base /\ Typed /\ Typed' /\ Phase("apply") /\ UNCHANGED <<head, srow, cursor, hollow>>
  BY BaseTyped, BaseTypedNext DEF CursorInv, ApplyPulled, ApplyPart, server
<1>2. run.since <= run.next /\ run.next <= head /\ cursor <= run.next
  BY <1>1 DEF CursorInv, Window
<1>3. Bounds'
  BY <1>1 DEF CursorInv, Bounds
<1>4. CASE ApplyPulled
  <2>1. Stored(Row)
    BY <1>4 DEF ApplyPulled
  <2>2. /\ run'.phase = "save" /\ run'.page = run.page /\ run'.since = run.since /\ run'.next = run.next
    BY <1>1, <1>4, GoFacts DEF ApplyPulled, Phases
  <2>3. Known'
    BY <1>1, <2>1, <2>2, ApplyFacts DEF CursorInv, Known
  <2>4. Taken' /\ Paged' /\ Window' /\ Snapped'
    BY <1>1, <1>2, <2>2 DEF Taken, Paged, Window, Snapped, Phase
  <2>5. ASSUME NEW r \in Row, Apart(r)'
        PROVE  srow[r].seq > run.next \/ (hollow /\ run.since # 0)
    <3>1. CASE ~(srow[r].seq > run.next)
      <4>1. Apart(r) /\ srow[r].seq <= run.since
        BY <1>1, <2>1, <2>5, <3>1, ApplyFacts
      <4>2. srow[r].seq > run.since \/ hollow
        BY <1>1, <4>1 DEF CursorInv, Ahead
      <4>3. hollow
        BY <1>1, <4>1, <4>2 DEF Typed
      <4>4. srow[r].seq # 0
        BY <1>1, <4>1 DEF CursorInv, Known, Typed, Apart, Settled
      <4> QED
        BY <1>1, <4>1, <4>3, <4>4 DEF Typed
    <3> QED
      BY <3>1
  <2>6. Ahead'
    <3>1. SUFFICES ASSUME NEW r \in Row, Apart(r)'
          PROVE  /\ srow[r].seq > cursor \/ hollow
                 /\ srow[r].seq > run.next \/ (hollow /\ run.since # 0)
      BY <1>1, <2>2 DEF Ahead, Phase
    <3> QED
      BY <1>1, <1>2, <2>5, <3>1 DEF Typed
  <2> QED
    BY <1>3, <2>3, <2>4, <2>6 DEF CursorInv
<1>5. CASE ApplyPart
  <2>1. PICK rows \in SUBSET Row : Stored(rows)
    BY <1>5 DEF ApplyPart
  <2>2. run'.phase \in {"idle", "export", "pull"} /\ \A r \in Row : run'.page[r] = NoServerRow
    BY <1>1, <1>5, IdleFacts, BrokenFacts DEF Typed, ApplyPart
  <2>3. Known'
    BY <1>1, <2>1, <2>2, ApplyFacts, IdleFacts DEF Known
  <2>4. Taken' /\ Paged' /\ Window' /\ Snapped'
    BY <2>2 DEF Taken, Paged, Window, Snapped, Phase
  <2>5. ASSUME NEW r \in Row, Apart(r)' PROVE srow[r].seq > cursor \/ hollow
    <3>1. srow[r].seq > run.next \/ Apart(r)
      BY <1>1, <2>1, <2>5, ApplyFacts
    <3> QED
      BY <1>1, <1>2, <3>1 DEF CursorInv, Ahead, Typed
  <2>6. Ahead'
    BY <1>1, <2>2, <2>5 DEF Ahead, Phase
  <2> QED
    BY <1>3, <2>3, <2>4, <2>6 DEF CursorInv
<1> QED
  BY <1>4, <1>5

LEMMA SaveKeeps ==
  ASSUME CursorInv, Base', SaveCursor
  PROVE  CursorInv'
<1>1. /\ Base /\ Typed /\ Typed' /\ Phase("save") /\ UNCHANGED <<head, srow>>
      /\ cursor' = run.next /\ hollow' = (hollow /\ run.since # 0)
      /\ run \in RunState /\ local \in [Row -> LocalRow]
  BY BaseTyped, BaseTypedNext DEF CursorInv, Base, TypeOK, SaveCursor, server
<1>2. run.next <= head
  BY <1>1 DEF CursorInv, Window
<1>3. run'.phase \in {"collect", "replay"} /\ \A r \in Row : run'.page[r].seq = 0
  <2>1. \/ run' = [run EXCEPT !.phase = "collect", !.resume = "replay", !.page = NoPage]
        \/ run' = [run EXCEPT !.phase = "replay", !.page = NoPage]
    BY DEF SaveCursor
  <2>2. run'.phase \in {"collect", "replay"} /\ run'.page = NoPage
    BY <1>1, <2>1 DEF RunState
  <2> QED
    BY <2>2, IdleFacts
<1>4. \A r \in Row : local'[r] = local[r] \/ local'[r].status = "pending"
  <2>1. \/ local' = local
        \/ local' = [r \in Row |-> IF r \in Catalog /\ local[r].status = "synced"
                                   THEN [local[r] EXCEPT !.status = "pending"] ELSE local[r]]
    BY DEF SaveCursor
  <2> QED
    BY <1>1, <2>1 DEF LocalRow
<1>5. Bounds'
  BY <1>1, <1>2 DEF CursorInv, Bounds
<1>6. Known'
  BY <1>1, <1>3, <1>4 DEF CursorInv, Known
<1>7. Taken' /\ Paged' /\ Window' /\ Snapped'
  BY <1>3 DEF Taken, Paged, Window, Snapped, Phase
<1>8. ASSUME NEW r \in Row, Apart(r)' PROVE srow'[r].seq > cursor' \/ hollow'
  <2>1. Apart(r)
    BY <1>1, <1>4, <1>8 DEF Apart, Settled
  <2> QED
    BY <1>1, <2>1 DEF CursorInv, Ahead
<1>9. Ahead'
  BY <1>3, <1>8 DEF Ahead, Phase
<1> QED
  BY <1>5, <1>6, <1>7, <1>9 DEF CursorInv

LEMMA CursorStep ==
  ASSUME CursorInv, [Next]_vars
  PROVE  CursorInv'
<1>1. Base /\ Base'
  BY BaseStep DEF CursorInv
<1> QED
  BY <1>1, UnsettlingSteps, UnsettlingKeeps, SnapshotKeeps, AlignKeeps, ServeKeeps,
     AcknowledgeKeeps, VanishKeeps, FetchKeeps, ApplyKeeps, SaveKeeps
  DEF Next, RunStep, Trouble

\* A row the client believes to be in step and is not will be brought by the
\* next incremental pull, unless the tables were cleared under the cursor.
THEOREM DivergenceIsAhead == Spec => []NoSilentDivergence
<1>1. CursorInv /\ [Next]_vars => CursorInv'
  BY CursorStep
<1>2. CursorInv => NoSilentDivergence
  BY DEF CursorInv, Ahead, Apart, Settled, NoSilentDivergence
<1> QED
  BY <1>1, <1>2, CursorInit, PTL DEF Spec

-----------------------------------------------------------------------------
(* What "synced" stands for.  While a push is under way, a row it carries    *)
(* holds the version sent or an edit made since, during the run.            *)

Carrying == Phase("sent") \/ Phase("served") =>
              \A r \in Row : run.body[r] # 0 /\ local[r].ver # 0
                               => local[r].ver = run.body[r] \/ ~log[local[r].ver].quiet
Received == Phase("served") => \A r \in run.taken : run.body[r] # 0 /\ run.body[r] \in reached

SyncedInv == Base /\ SyncedMeansReceived /\ Carrying /\ Received

\* Steps outside the exchange of a push and its answer.
OutsidePush ==
  /\ reached \subseteq reached' /\ \A v \in Version : log'[v] = log[v]
  /\ \A r \in Row : local'[r].status = "synced" => local'[r] = local[r] \/ local'[r].ver \in reached'
  /\ \/ run'.phase \notin {"sent", "served"}
     \/ run'.phase = "sent" /\ \A r \in Row : run'.body[r] \in {0, local'[r].ver}
     \/ run' = run /\ \A r \in Row : local'[r] = local[r] \/ ~log'[local'[r].ver].quiet

LEMMA SyncedKept ==
  ASSUME SyncedInv, reached \subseteq reached', \A v \in Version : log'[v] = log[v],
         NEW r \in Row, local'[r].status = "synced", local'[r] = local[r]
  PROVE  local'[r].ver \in reached' \/ ~log'[local'[r].ver].quiet
<1>1. local[r].ver # 0 /\ local[r].ver \in Version
  BY DEF SyncedInv, Base, LocalFrom, Sourced
<1> QED
  BY <1>1 DEF SyncedInv, SyncedMeansReceived

LEMMA OutsidePushKeeps ==
  ASSUME SyncedInv, Base', OutsidePush
  PROVE  SyncedInv'
<1>1. SyncedMeansReceived'
  BY SyncedKept DEF OutsidePush, SyncedMeansReceived
<1>2. Carrying'
  <2>1. CASE run'.phase \notin {"sent", "served"}
    BY <2>1 DEF Carrying, Phase
  <2>2. CASE \A r \in Row : run'.body[r] \in {0, local'[r].ver}
    BY <2>2 DEF Carrying
  <2>3. CASE run' = run /\ \A r \in Row : local'[r] = local[r] \/ ~log'[local'[r].ver].quiet
    <3>1. SUFFICES ASSUME NEW r \in Row, Phase("sent") \/ Phase("served"),
                          run.body[r] # 0, local[r].ver # 0, local'[r] = local[r]
                   PROVE  local[r].ver = run.body[r] \/ ~log'[local[r].ver].quiet
      BY <2>3 DEF Carrying, Phase
    <3>2. local[r].ver \in Version
      BY <3>1 DEF SyncedInv, Base, LocalFrom, Sourced
    <3> QED
      BY <3>1, <3>2 DEF SyncedInv, Carrying, OutsidePush
  <2> QED
    BY <2>1, <2>2, <2>3 DEF OutsidePush
<1>3. Received'
  BY DEF OutsidePush, SyncedInv, Received, Phase
<1> QED
  BY <1>1, <1>2, <1>3 DEF SyncedInv

\* These steps end the exchange, if one is under way.
LEMMA LeavesPush ==
  ASSUME Base,
         \/ StartRun(TRUE) \/ StartRun(FALSE) \/ Snapshot \/ Align \/ AlignFails \/ AnswerOutdated
         \/ GiveUp \/ AnswerInvalid \/ AnswerConflict \/ Export
         \/ ExportFails \/ Clear \/ ClearFails \/ Wipe \/ WipeUnsaved \/ Delete \/ Fetch \/ ApplyPulled
         \/ ApplyPart \/ SaveCursor \/ PullFails \/ Replay \/ Stop \/ Acknowledge
  PROVE  run'.phase \notin {"sent", "served"}
<1>1. run \in RunState /\ AfterPush \in {"export", "pull"} /\ IdleRun \in RunState /\ IdleRun.phase = "idle"
  BY IdleFacts DEF Base, TypeOK, AfterPush
<1>2. CASE StartRun(TRUE) \/ StartRun(FALSE)
  <2>1. \E f : run' = [IdleRun EXCEPT !.phase = "schema", !.full = f]
    BY <1>2 DEF StartRun
  <2> QED
    BY <1>1, <2>1 DEF RunState
<1>3. CASE \/ GiveUp \/ Export \/ Clear \/ ClearFails \/ ApplyPulled \/ Acknowledge
           \/ AlignFails \/ AnswerOutdated
  <2>1. \E p \in {"schema", "collect", "export", "pull", "bare", "clear", "save"} :
          run' = [run EXCEPT !.phase = p]
    BY <1>1, <1>3 DEF GiveUp, Export, Clear, ClearFails, ApplyPulled, Acknowledge, AlignFails,
                      AnswerOutdated, Go
  <2> QED
    BY <1>1, <2>1 DEF RunState
<1>4. CASE AnswerInvalid \/ AnswerConflict
  <2>1. \E t : \/ run' = [run EXCEPT !.phase = "collect", !.tried = t]
               \/ run' = [run EXCEPT !.phase = "pull", !.resume = "collect", !.tried = t]
    BY <1>4 DEF AnswerInvalid, AnswerConflict
  <2> QED
    BY <1>1, <2>1 DEF RunState
<1>5. CASE ExportFails \/ Delete \/ ApplyPart \/ PullFails \/ Replay \/ Stop
  BY <1>1, <1>5, BrokenFacts DEF ExportFails, Delete, ApplyPart, PullFails, Replay, Stop
<1>6. CASE Wipe \/ WipeUnsaved
  <2>1. run' = [IdleRun EXCEPT !.phase = "delete"]
    BY <1>6 DEF Wipe, WipeUnsaved
  <2> QED
    BY <1>1, <2>1 DEF RunState
<1>7. CASE Fetch
  <2>1. \E s, p : run' = [run EXCEPT !.phase = "apply", !.since = s, !.next = head, !.page = p]
    BY <1>7 DEF Fetch
  <2> QED
    BY <1>1, <2>1 DEF RunState
<1>8. CASE SaveCursor \/ Snapshot \/ Align
  <2>1. \/ run' = [run EXCEPT !.phase = "collect", !.resume = "replay", !.page = NoPage]
        \/ run' = [run EXCEPT !.phase = "replay", !.page = NoPage]
        \/ run' = [run EXCEPT !.phase = "collect", !.page = NoPage]
        \/ \E p : run' = [run EXCEPT !.phase = "align", !.page = p]
    BY <1>8 DEF SaveCursor, Snapshot, Align
  <2> QED
    BY <1>1, <2>1 DEF RunState
<1> QED
  BY <1>2, <1>3, <1>4, <1>5, <1>6, <1>7, <1>8

\* Nobody but the server and the operator adds to what was taken and edited.
LEMMA Recorded ==
  ASSUME Base, [Next]_vars
  PROVE  reached \subseteq reached' /\ Version \subseteq Version' /\ \A v \in Version : log'[v] = log[v]
<1>1. reached \subseteq reached'
  BY DEF Next, RunStep, Trouble, vars, server, Edit, OtherWrites, StartRun, Collect, Serve, ServeAgain,
         ServeStray, Accept, Acknowledge, GiveUp, AnswerInvalid, AnswerConflict, Export, ExportFails,
         Clear, ClearFails, Wipe, WipeUnsaved, Delete, ResetCursor, Fetch, ApplyPulled, ApplyPart,
         SaveCursor, PullFails, Replay, Stop, Snapshot, Align, AlignFails, AnswerOutdated
<1>2. log' = log \/ \E x : log' = Append(log, x)
  BY DEF Next, RunStep, Trouble, vars, server, Edit, OtherWrites, StartRun, Collect, Serve, ServeAgain,
         ServeStray, Acknowledge, GiveUp, AnswerInvalid, AnswerConflict, Export, ExportFails,
         Clear, ClearFails, Wipe, WipeUnsaved, Delete, ResetCursor, Fetch, ApplyPulled, ApplyPart,
         SaveCursor, PullFails, Replay, Stop, Snapshot, Align, AlignFails, AnswerOutdated
<1>3. log \in Seq(LogEntry)
  BY DEF Base, TypeOK
<1> QED
  BY <1>1, <1>2, <1>3 DEF Version

LEMMA OutsidePushSteps ==
  ASSUME Base, [Next]_vars, ~Serve, ~ServeAgain, ~Acknowledge
  PROVE  OutsidePush
<1>1. /\ run \in RunState /\ AfterPush \in {"export", "pull"} /\ local \in [Row -> LocalRow] /\ PageFrom
      /\ NoRow.status = "none" /\ log \in Seq(LogEntry)
  BY DEF Base, TypeOK, AfterPush, NoRow
<1>2. reached \subseteq reached' /\ \A v \in Version : log'[v] = log[v]
  BY Recorded
<1>3. ASSUME Unsettling
      PROVE  \A r \in Row : local'[r].status = "synced" => local'[r] = local[r] \/ local'[r].ver \in reached'
  BY <1>3 DEF Unsettling, Settled
<1>4. CASE Clear \/ ClearFails \/ Delete
  <2>1. \A r \in Row : local'[r] = local[r] \/ local'[r].status = "none"
    <3>1. CASE Clear \/ Delete
      BY <1>1, <3>1 DEF Clear, Delete
    <3>2. CASE ClearFails
      BY <1>1, <3>2 DEF ClearFails
    <3> QED
      BY <1>4, <3>1, <3>2
  <2> QED
    BY <1>2, <1>4, <2>1, LeavesPush DEF OutsidePush
<1>5. CASE ApplyPulled \/ ApplyPart
  <2>1. PICK rows \in SUBSET Row : Stored(rows)
    BY <1>5 DEF ApplyPulled, ApplyPart
  <2>2. \A r \in Row : local'[r] = local[r] \/ local'[r].ver \in reached
    BY <1>1, <2>1, PageFacts DEF PageFrom
  <2> QED
    BY <1>2, <1>5, <2>2, LeavesPush DEF OutsidePush
<1>12. CASE Align
  <2>1. \A r \in Row : local'[r] = local[r] \/ (run.page[r].ver # 0 /\ local'[r].ver = run.page[r].ver)
    BY <1>12 DEF Align, Schema
  <2>2. \A r \in Row : local'[r] = local[r] \/ local'[r].ver \in reached
    BY <1>1, <2>1 DEF PageFrom
  <2> QED
    BY <1>2, <1>12, <2>2, LeavesPush DEF OutsidePush
<1>6. CASE SaveCursor
  <2>1. \A r \in Row : local'[r] = local[r] \/ local'[r].status = "pending"
    BY <1>1, <1>6 DEF SaveCursor, LocalRow
  <2> QED
    BY <1>2, <1>6, <2>1, LeavesPush DEF OutsidePush
<1>7. CASE Fetch \/ Snapshot
  BY <1>2, <1>7, LeavesPush DEF OutsidePush, Fetch, Snapshot
<1>8. CASE \/ StartRun(TRUE) \/ StartRun(FALSE) \/ AlignFails \/ AnswerOutdated
           \/ GiveUp \/ AnswerInvalid \/ AnswerConflict \/ Export \/ ExportFails \/ Wipe
           \/ WipeUnsaved \/ PullFails \/ Replay \/ Stop
  <2>1. Unsettling
    BY <1>8, UnsettlingSteps
  <2> QED
    BY <1>2, <1>3, <1>8, <2>1, LeavesPush DEF OutsidePush
<1>9. CASE \/ UNCHANGED vars
           \/ \E r \in Row : OtherWrites(r)
           \/ ServeStray \/ ResetCursor
  <2>1. UNCHANGED <<run, local>>
    BY <1>9 DEF vars, OtherWrites, ServeStray, ResetCursor
  <2> QED
    BY <1>2, <2>1 DEF OutsidePush
<1>10. ASSUME NEW r \in Row, Edit(r) PROVE OutsidePush
  <2>1. /\ log' = Append(log, [row |-> r, here |-> TRUE, quiet |-> Phase("idle")])
        /\ local' = [local EXCEPT ![r].ver = Len(log'), ![r].status = "pending"]
        /\ run' = run
    BY <1>10 DEF Edit
  <2>2. Len(log') = Len(log) + 1 /\ Len(log) \in Nat
    BY <1>1, <2>1
  <2>3. log'[Len(log')].quiet = Phase("idle")
    BY <1>1, <2>1, <2>2
  <2>4. /\ local'[r].status = "pending" /\ local'[r].ver = Len(log')
        /\ \A q \in Row \ {r} : local'[q] = local[q]
    BY <1>1, <2>1 DEF LocalRow
  <2>5. CASE Phase("idle")
    BY <1>2, <2>1, <2>4, <2>5 DEF OutsidePush, Phase
  <2>6. CASE ~Phase("idle")
    BY <1>2, <2>1, <2>3, <2>4, <2>6 DEF OutsidePush
  <2> QED
    BY <2>5, <2>6
<1>11. CASE Collect
  <2>1. PICK old \in SUBSET Unconfirmed, chosen \in SUBSET Row :
          /\ local' = Marked(old)
          /\ run' = IF chosen = {} THEN [run EXCEPT !.phase = AfterPush]
                    ELSE [run EXCEPT !.phase = "sent", !.again = old \cap chosen,
                            !.body = [r \in Row |-> IF r \in chosen THEN local[r].ver ELSE 0]]
    BY <1>11 DEF Collect
  <2>2. \A r \in Row : local'[r].ver = local[r].ver
    BY <2>1, MarkedFacts DEF Base
  <2> DEFINE body == [r \in Row |-> IF r \in chosen THEN local[r].ver ELSE 0]
  <2>3. \A r \in Row : body[r] \in {0, local'[r].ver}
    BY <2>2
  <2> HIDE DEF body
  <2>4. \/ run'.phase \in {"export", "pull"}
        \/ run'.phase = "sent" /\ run'.body = body
    <3>1. CASE chosen = {}
      BY <1>1, <2>1, <3>1 DEF RunState
    <3>2. CASE chosen # {}
      <4>1. \E a : run' = [run EXCEPT !.phase = "sent", !.again = a, !.body = body]
        BY <2>1, <3>2 DEF body
      <4> QED
        BY <1>1, <4>1 DEF RunState
    <3> QED
      BY <3>1, <3>2
  <2>5. Unsettling
    BY <1>11, UnsettlingSteps
  <2> QED
    BY <1>2, <1>3, <2>3, <2>4, <2>5 DEF OutsidePush
<1> QED
  BY <1>4, <1>5, <1>6, <1>7, <1>8, <1>9, <1>10, <1>11, <1>12 DEF Next, RunStep, Trouble

LEMMA SyncedServe ==
  ASSUME SyncedInv, [Next]_vars, Base', Serve \/ ServeAgain
  PROVE  SyncedInv'
<1>1. /\ Base /\ TypeOK /\ run \in RunState /\ run.body \in [Row -> Nat] /\ UNCHANGED <<log, local>>
      /\ reached \subseteq reached'
  BY Recorded DEF SyncedInv, Base, TypeOK, RunState, Serve, ServeAgain
<1>2. PICK taken \in SUBSET Row : /\ Accept(run.body, taken)
                                  /\ run'.taken = taken /\ run'.body = run.body
  <2>1. \E taken \in SUBSET Row : /\ Accept(run.body, taken)
                                  /\ \/ run' = [run EXCEPT !.phase = "served", !.taken = taken]
                                     \/ run' = [run EXCEPT !.taken = taken]
    BY DEF Serve, ServeAgain
  <2> QED
    BY <1>1, <2>1 DEF RunState
<1>3. Takes(run.body, taken)
  BY <1>1, <1>2, AcceptFacts
<1>4. Received'
  BY <1>2, <1>3 DEF Received, Takes
<1>5. Carrying'
  BY <1>1, <1>2 DEF SyncedInv, Carrying, Serve, ServeAgain, Phase
<1>6. SyncedMeansReceived'
  BY <1>1 DEF SyncedInv, SyncedMeansReceived
<1> QED
  BY <1>4, <1>5, <1>6 DEF SyncedInv

LEMMA SyncedAcknowledge ==
  ASSUME SyncedInv, [Next]_vars, Base', Acknowledge
  PROVE  SyncedInv'
<1>1. /\ Base /\ local \in [Row -> LocalRow] /\ UNCHANGED <<log, reached>> /\ Phase("served")
      /\ run'.phase \notin {"sent", "served"}
      /\ \A r \in Row : local[r].ver # 0 <=> local[r].status # "none"
  BY LeavesPush DEF SyncedInv, Base, TypeOK, LocalFrom, Acknowledge, server
<1>2. ASSUME NEW r \in Row, local'[r].status = "synced"
      PROVE  local'[r].ver \in reached \/ ~log[local'[r].ver].quiet
  <2>1. CASE local'[r] = local[r]
    BY <1>2, <2>1 DEF SyncedInv, SyncedMeansReceived
  <2>2. CASE r \in run.taken /\ local[r].status # "none" /\ local'[r].ver = local[r].ver
    <3>1. run.body[r] # 0 /\ run.body[r] \in reached /\ local[r].ver # 0
      BY <1>1, <2>2 DEF SyncedInv, Received
    <3>2. local[r].ver = run.body[r] \/ ~log[local[r].ver].quiet
      BY <1>1, <3>1 DEF SyncedInv, Carrying
    <3> QED
      BY <2>2, <3>1, <3>2
  <2>3. \/ local'[r] = local[r]
        \/ r \in run.taken /\ local[r].status # "none" /\ local'[r].ver = local[r].ver
    BY <1>1 DEF Acknowledge, LocalRow
  <2> QED
    BY <2>1, <2>2, <2>3
<1>3. SyncedMeansReceived'
  BY <1>1, <1>2 DEF SyncedMeansReceived
<1>4. Carrying' /\ Received'
  BY <1>1 DEF Carrying, Received, Phase
<1> QED
  BY <1>3, <1>4 DEF SyncedInv

LEMMA SyncedStep ==
  ASSUME SyncedInv, [Next]_vars
  PROVE  SyncedInv'
<1>1. Base /\ Base'
  BY BaseStep DEF SyncedInv
<1> QED
  BY <1>1, OutsidePushSteps, OutsidePushKeeps, SyncedServe, SyncedAcknowledge

\* A row is shown as synchronised only when the server has taken the version
\* it holds, or when the edit was made while a run was under way.
THEOREM SyncedIsReceived == Spec => []SyncedMeansReceived
<1>1. Init => SyncedInv
  <2> SUFFICES ASSUME Init PROVE SyncedInv
    OBVIOUS
  <2>1. Base /\ run.phase = "idle" /\ \A r \in Row : local[r].status = "none"
    BY BaseInit, IdleFacts DEF Init, NoRow
  <2> QED
    BY <2>1 DEF SyncedInv, SyncedMeansReceived, Carrying, Received, Phase
<1>2. SyncedInv /\ [Next]_vars => SyncedInv'
  BY SyncedStep
<1>3. SyncedInv => SyncedMeansReceived
  BY DEF SyncedInv
<1> QED
  BY <1>1, <1>2, <1>3, PTL DEF Spec

-----------------------------------------------------------------------------
(* What becomes of an edit made between two runs.  When the tables are about *)
(* to be cleared, an unpushed version that is not late has been taken, was   *)
(* overrun, was left out, or is in an export file.                           *)

Kept(v) == v \in reached \cup overrun \cup aligned \cup unsaved \/ InFile(v)
Lives(v) == Kept(v) \/ AtHand(v) \/ Overtaken(v)

Doomed == Phase("clear") \/ Phase("bare") \/ Phase("delete")
Cleared == Doomed => \A r \in Unpushed : log[local[r].ver].quiet => Kept(local[r].ver)

QuietInv == SyncedInv /\ Cleared /\ QuietEditsSurvive

\* Nothing is ever struck from the record of what was overrun or left out.
LEMMA Remembered ==
  ASSUME [Next]_vars
  PROVE  overrun \subseteq overrun' /\ aligned \subseteq aligned' /\ unsaved \subseteq unsaved'
<1>1. overrun \subseteq overrun'
  BY DEF Next, RunStep, Trouble, vars, ghosts, Edit, OtherWrites, StartRun, Collect, Serve, ServeAgain,
         ServeStray, Acknowledge, GiveUp, AnswerInvalid, AnswerConflict, Export, ExportFails,
         Clear, ClearFails, Wipe, WipeUnsaved, Delete, ResetCursor, Fetch, ApplyPulled, ApplyPart, Stored,
         SaveCursor, PullFails, Replay, Stop, Snapshot, Align, AlignFails, AnswerOutdated
<1>2. unsaved \subseteq unsaved'
  BY DEF Next, RunStep, Trouble, vars, ghosts, Edit, OtherWrites, StartRun, Collect, Serve, ServeAgain,
         ServeStray, Acknowledge, GiveUp, AnswerInvalid, AnswerConflict, Export, ExportFails, ExportRows,
         Clear, ClearFails, Wipe, WipeUnsaved, Delete, ResetCursor, Fetch, ApplyPulled, ApplyPart,
         SaveCursor, PullFails, Replay, Stop, Snapshot, Align, AlignFails, AnswerOutdated
<1>3. aligned \subseteq aligned'
  BY DEF Next, RunStep, Trouble, vars, ghosts, Edit, OtherWrites, StartRun, Collect, Serve, ServeAgain,
         ServeStray, Acknowledge, GiveUp, AnswerInvalid, AnswerConflict, Export, ExportFails,
         Clear, ClearFails, Wipe, WipeUnsaved, Delete, ResetCursor, Fetch, ApplyPulled, ApplyPart,
         SaveCursor, PullFails, Replay, Stop, Snapshot, Align, AlignFails, AnswerOutdated
<1> QED
  BY <1>1, <1>2, <1>3

LEMMA LeavesClear ==
  ASSUME Base,
         \/ StartRun(TRUE) \/ StartRun(FALSE) \/ Snapshot \/ Align \/ AlignFails \/ AnswerOutdated
         \/ Collect \/ Serve \/ ServeAgain \/ GiveUp \/ AnswerInvalid
         \/ AnswerConflict \/ ExportFails \/ Clear \/ ClearFails \/ Delete \/ Fetch \/ ApplyPulled
         \/ ApplyPart \/ SaveCursor \/ PullFails \/ Replay \/ Stop \/ Acknowledge
  PROVE  ~Doomed'
<1>1. run \in RunState /\ AfterPush \in {"export", "pull"} /\ IdleRun \in RunState /\ IdleRun.phase = "idle"
  BY IdleFacts DEF Base, TypeOK, AfterPush
<1>2. CASE StartRun(TRUE) \/ StartRun(FALSE)
  <2>1. \E f : run' = [IdleRun EXCEPT !.phase = "schema", !.full = f]
    BY <1>2 DEF StartRun
  <2> QED
    BY <1>1, <2>1 DEF RunState, Doomed, Phase
<1>3. CASE GiveUp \/ Clear \/ ClearFails \/ ApplyPulled \/ Acknowledge \/ AlignFails \/ AnswerOutdated
  <2>1. \E p \in {"schema", "collect", "export", "pull", "save"} : run' = [run EXCEPT !.phase = p]
    BY <1>1, <1>3 DEF GiveUp, Clear, ClearFails, ApplyPulled, Acknowledge, AlignFails, AnswerOutdated, Go
  <2> QED
    BY <1>1, <2>1 DEF RunState, Doomed, Phase
<1>4. CASE AnswerInvalid \/ AnswerConflict
  <2>1. \E t : \/ run' = [run EXCEPT !.phase = "collect", !.tried = t]
               \/ run' = [run EXCEPT !.phase = "pull", !.resume = "collect", !.tried = t]
    BY <1>4 DEF AnswerInvalid, AnswerConflict
  <2> QED
    BY <1>1, <2>1 DEF RunState, Doomed, Phase
<1>5. CASE ExportFails \/ Delete \/ ApplyPart \/ PullFails \/ Replay \/ Stop
  BY <1>1, <1>5, BrokenFacts DEF ExportFails, Delete, ApplyPart, PullFails, Replay, Stop, Doomed, Phase
<1>6. CASE Collect
  <2>1. \E a, b : \/ run' = [run EXCEPT !.phase = AfterPush]
                  \/ run' = [run EXCEPT !.phase = "sent", !.again = a, !.body = b]
    BY <1>6 DEF Collect
  <2> QED
    BY <1>1, <2>1 DEF RunState, Doomed, Phase
<1>7. CASE Fetch
  <2>1. \E s, p : run' = [run EXCEPT !.phase = "apply", !.since = s, !.next = head, !.page = p]
    BY <1>7 DEF Fetch
  <2> QED
    BY <1>1, <2>1 DEF RunState, Doomed, Phase
<1>8. CASE SaveCursor \/ Snapshot \/ Align
  <2>1. \/ run' = [run EXCEPT !.phase = "collect", !.resume = "replay", !.page = NoPage]
        \/ run' = [run EXCEPT !.phase = "replay", !.page = NoPage]
        \/ run' = [run EXCEPT !.phase = "collect", !.page = NoPage]
        \/ \E p : run' = [run EXCEPT !.phase = "align", !.page = p]
    BY <1>8 DEF SaveCursor, Snapshot, Align
  <2> QED
    BY <1>1, <2>1 DEF RunState, Doomed, Phase
<1>9. CASE Serve \/ ServeAgain
  <2>1. \/ \E t : run' = [run EXCEPT !.phase = "served", !.taken = t]
        \/ run.phase = "served" /\ \E t : run' = [run EXCEPT !.taken = t]
    BY <1>9 DEF Serve, ServeAgain, Phase
  <2> QED
    BY <1>1, <2>1 DEF RunState, Doomed, Phase
<1> QED
  BY <1>2, <1>3, <1>4, <1>5, <1>6, <1>7, <1>8, <1>9

\* A version lives on when the step keeps it at hand and in its file.
LEMMA LivesOn ==
  ASSUME Base, [Next]_vars, NEW v \in Version, Lives(v),
         AtHand(v) => Lives(v)', InFile(v) => Lives(v)'
  PROVE  Lives(v)'
<1>1. /\ reached \subseteq reached' /\ \A w \in Version : w \in Version' /\ log'[w] = log[w]
      /\ overrun \subseteq overrun' /\ aligned \subseteq aligned' /\ unsaved \subseteq unsaved'
  BY Recorded, Remembered
<1>2. Overtaken(v) => Overtaken(v)'
  BY <1>1 DEF Overtaken
<1> QED
  BY <1>1, <1>2 DEF Lives, Kept

\* The unpushed rows keep their versions, and the files stay.
Undisturbed ==
  /\ \A r \in Unpushed : r \in Unpushed' /\ local'[r].ver = local[r].ver
  /\ UNCHANGED files

LEMMA UndisturbedSteps ==
  ASSUME Base,
         \/ UNCHANGED vars \/ \E r \in Row : OtherWrites(r)
         \/ StartRun(TRUE) \/ StartRun(FALSE) \/ Snapshot \/ AlignFails \/ AnswerOutdated
         \/ Collect \/ Serve \/ ServeAgain \/ ServeStray \/ GiveUp \/ AnswerInvalid \/ AnswerConflict
         \/ ExportFails \/ WipeUnsaved \/ ResetCursor \/ Fetch
         \/ SaveCursor \/ PullFails \/ Stop
  PROVE  Undisturbed
<1>1. local \in [Row -> LocalRow] /\ TypeOK
  BY DEF Base, TypeOK
<1>2. CASE Collect
  <2>1. PICK old \in SUBSET Unconfirmed : local' = Marked(old) /\ files' = files
    BY <1>2 DEF Collect
  <2>2. \A r \in Row : /\ local'[r].ver = local[r].ver
                       /\ r \in Unpushed => local'[r].status \in {"pending", "error"}
    BY <1>1, <2>1, MarkedFacts
  <2> QED
    BY <2>1, <2>2 DEF Undisturbed, Unpushed
<1>3. CASE AnswerInvalid
  BY <1>1, <1>3 DEF AnswerInvalid, Undisturbed, Unpushed, LocalRow
<1>4. CASE SaveCursor
  BY <1>1, <1>4 DEF SaveCursor, Undisturbed, Unpushed, LocalRow
<1>5. ASSUME UNCHANGED <<local, files>> PROVE Undisturbed
  BY <1>5 DEF Undisturbed, Unpushed
<1> QED
  BY <1>2, <1>3, <1>4, <1>5
  DEF vars, OtherWrites, StartRun, Serve, ServeAgain, ServeStray, GiveUp, AnswerConflict, ExportFails,
      WipeUnsaved, ResetCursor, Fetch, PullFails, Stop, Snapshot, AlignFails, AnswerOutdated

LEMMA UndisturbedLives ==
  ASSUME Base, [Next]_vars, Undisturbed, NEW v \in Version, Lives(v)
  PROVE  Lives(v)'
<1>1. log'[v] = log[v]
  BY Recorded
<1>2. AtHand(v) => AtHand(v)'
  BY DEF AtHand, Undisturbed
<1>3. InFile(v) => InFile(v)'
  BY <1>1 DEF InFile, Undisturbed
<1> QED
  BY <1>2, <1>3, LivesOn DEF Lives, Kept

\* An export keeps every file but the oldest of too many, whose versions it
\* remembers, and the unpushed rows stay.
LEMMA ExportLives ==
  ASSUME Base, [Next]_vars, NEW chosen \in SUBSET Row, ExportRows(chosen), NEW v \in Version, Lives(v)
  PROVE  Lives(v)'
<1>1. log'[v] = log[v]
  BY Recorded
<1>2. /\ WriteFile(chosen) /\ unsaved' = unsaved \cup Unkept(chosen)
      /\ \A r \in chosen : local[r].ver # 0
  BY ExportFacts
<1>3. AtHand(v) => AtHand(v)'
  <2>1. PICK old \in SUBSET Unconfirmed : local' = Marked(old)
    BY ExportFacts
  <2>2. \A r \in Row : /\ local'[r].ver = local[r].ver
                       /\ r \in Unpushed => local'[r].status \in {"pending", "error"}
    BY <2>1, MarkedFacts DEF Base
  <2> QED
    BY <2>2 DEF AtHand, Unpushed
<1>4. ASSUME InFile(v) PROVE InFile(v)' \/ v \in unsaved'
  <2>1. PICK j \in DOMAIN files : \E e \in files[j] : e.row = log[v].row /\ e.ver = v
    BY <1>4 DEF InFile
  <2>2. CASE \E i \in DOMAIN files' : files'[i] = files[j]
    BY <1>1, <2>1, <2>2 DEF InFile
  <2>3. CASE chosen # {} /\ Len(files) >= Keep /\ files[j] = Head(files)
    <3>1. Len(files) \in Nat /\ Keep \in Nat
      BY ClientAssumption DEF Base, TypeOK
    <3>2. v \in Unkept(chosen)
      BY <2>1, <2>3, <3>1 DEF Unkept
    <3> QED
      BY <1>2, <3>2
  <2> QED
    BY <1>2, <2>2, <2>3, WriteFileFacts
<1> QED
  BY <1>3, <1>4, LivesOn DEF Lives, Kept

LEMMA EditLives ==
  ASSUME Base, [Next]_vars, NEW r \in Row, Edit(r), NEW v \in Version, Lives(v)
  PROVE  Lives(v)'
<1>1. /\ log' = Append(log, [row |-> r, here |-> TRUE, quiet |-> Phase("idle")])
      /\ local' = [local EXCEPT ![r].ver = Len(log'), ![r].status = "pending"]
      /\ files' = files /\ log \in Seq(LogEntry) /\ local \in [Row -> LocalRow]
  BY DEF Edit, Base, TypeOK
<1>2. PICK n \in Nat : n = Len(log')
  BY <1>1
<1>3. n \in Version' /\ n > v /\ log'[n].row = r /\ log'[n].here
  BY <1>1, <1>2 DEF Version
<1>4. log'[v] = log[v]
  BY Recorded
<1>5. ASSUME AtHand(v) PROVE AtHand(v)' \/ Overtaken(v)'
  <2>1. PICK q \in Unpushed : local[q].ver = v
    BY <1>5 DEF AtHand
  <2>2. CASE q = r
    <3>1. log[v].row = r
      BY <1>1, <2>1, <2>2 DEF Base, LocalFrom, Sourced, Unpushed, Version
    <3> QED
      BY <1>3, <1>4, <3>1 DEF Overtaken
  <2>3. CASE q # r
    <3>1. local'[q] = local[q]
      BY <1>1, <2>1, <2>3 DEF Unpushed
    <3> QED
      BY <2>1, <3>1 DEF AtHand, Unpushed
  <2> QED
    BY <2>2, <2>3
<1>6. InFile(v) => InFile(v)'
  BY <1>1, <1>4 DEF InFile
<1> QED
  BY <1>5, <1>6, LivesOn DEF Lives, Kept

LEMMA AcknowledgeLives ==
  ASSUME QuietInv, [Next]_vars, Acknowledge, NEW v \in Version, log[v].quiet, Lives(v)
  PROVE  Lives(v)'
<1>1. /\ Base /\ local \in [Row -> LocalRow] /\ UNCHANGED <<log, reached, files>> /\ Phase("served")
  BY DEF QuietInv, SyncedInv, Base, TypeOK, Acknowledge, server
<1>2. ASSUME AtHand(v) PROVE AtHand(v)' \/ v \in reached
  <2>1. PICK q \in Unpushed : local[q].ver = v
    BY <1>2 DEF AtHand
  <2>2. q \in Row /\ local[q].status \in {"pending", "error"} /\ v # 0
    BY <2>1 DEF Unpushed, Version
  <2>3. CASE q \in run.taken
    <3>1. run.body[q] # 0 /\ run.body[q] \in reached
      BY <1>1, <2>3 DEF QuietInv, SyncedInv, Received
    <3>2. local[q].ver = run.body[q]
      BY <1>1, <2>1, <2>2, <3>1 DEF QuietInv, SyncedInv, Carrying
    <3> QED
      BY <2>1, <3>1, <3>2
  <2>4. CASE q \notin run.taken
    <3>1. local'[q] = local[q]
      BY <2>2, <2>4 DEF Acknowledge
    <3> QED
      BY <2>1, <3>1 DEF AtHand, Unpushed
  <2> QED
    BY <2>3, <2>4
<1>3. InFile(v) => InFile(v)'
  BY <1>1 DEF InFile
<1> QED
  BY <1>1, <1>2, <1>3, LivesOn DEF Lives, Kept

LEMMA ClearLives ==
  ASSUME QuietInv, [Next]_vars, Clear \/ ClearFails \/ Delete, NEW v \in Version, log[v].quiet, Lives(v)
  PROVE  Lives(v)'
<1>1. Base /\ UNCHANGED <<log, reached, files, overrun, aligned, unsaved>> /\ Doomed
  BY DEF QuietInv, SyncedInv, Clear, ClearFails, Delete, server, Doomed
<1>2. InFile(v) => InFile(v)'
  BY <1>1 DEF InFile
<1>3. AtHand(v) => Kept(v)
  BY <1>1 DEF QuietInv, Cleared, AtHand
<1> QED
  BY <1>1, <1>2, <1>3, LivesOn DEF Lives, Kept

LEMMA ApplyLives ==
  ASSUME Base, [Next]_vars, ApplyPulled \/ ApplyPart, NEW v \in Version, Lives(v)
  PROVE  Lives(v)'
<1>1. UNCHANGED <<log, files>> /\ \E rows \in SUBSET Row : Stored(rows)
  BY DEF ApplyPulled, ApplyPart
<1>2. ASSUME AtHand(v) PROVE AtHand(v)' \/ v \in overrun'
  <2>1. PICK q \in Unpushed : local[q].ver = v
    BY <1>2 DEF AtHand
  <2>2. CASE local'[q] = local[q]
    BY <2>1, <2>2 DEF AtHand, Unpushed
  <2>3. CASE local'[q] # local[q]
    BY <1>1, <2>1, <2>3 DEF Stored
  <2> QED
    BY <2>2, <2>3
<1>3. InFile(v) => InFile(v)'
  BY <1>1 DEF InFile
<1> QED
  BY <1>2, <1>3, LivesOn DEF Lives, Kept

LEMMA AlignLives ==
  ASSUME Base, [Next]_vars, Align, NEW v \in Version, Lives(v)
  PROVE  Lives(v)'
<1>1. /\ UNCHANGED <<log, files>>
      /\ aligned' = aligned \cup {local[r].ver : r \in Unpushed \cap Schema(run.page)}
      /\ \A r \in Row \ Schema(run.page) : local'[r] = local[r]
  BY DEF Align
<1>2. ASSUME AtHand(v) PROVE AtHand(v)' \/ v \in aligned'
  <2>1. PICK q \in Unpushed : local[q].ver = v
    BY <1>2 DEF AtHand
  <2>2. CASE q \in Schema(run.page)
    BY <1>1, <2>1, <2>2
  <2>3. CASE q \notin Schema(run.page)
    BY <1>1, <2>1, <2>3 DEF AtHand, Unpushed
  <2> QED
    BY <2>2, <2>3
<1>3. InFile(v) => InFile(v)'
  BY <1>1 DEF InFile
<1> QED
  BY <1>2, <1>3, LivesOn DEF Lives, Kept

\* A replay puts back the newest exported version of a row, or finds a newer
\* one in its place.
LEMMA ReplayLives ==
  ASSUME QuietInv, [Next]_vars, Base', Replay, NEW v \in Version, log[v].quiet, Lives(v)
  PROVE  Lives(v)'
<1>1. /\ Base /\ TypeOK /\ local \in [Row -> LocalRow] /\ v \in Nat /\ v # 0
      /\ UNCHANGED <<log, reached>> /\ \A r \in Row : local'[r] = Newest(r)
  BY DEF QuietInv, SyncedInv, Base, TypeOK, Version, Replay, server
<1>2. ASSUME NEW r \in Row, log[v].row = r, Newest(r).ver > v PROVE Overtaken(v)'
  <2>1. PICK w : w = local'[r].ver
    OBVIOUS
  <2>2. w > v /\ w # 0
    BY <1>1, <1>2, <2>1 DEF Base, LocalFrom, Sourced, Version, TypeOK, LocalRow
  <2>3. w \in Version' /\ log'[w].row = r /\ (log'[w].here \/ w \in reached')
    BY <2>1, <2>2 DEF Base, LocalFrom, Sourced
  <2> QED
    BY <1>1, <1>2, <2>2, <2>3 DEF Overtaken
<1>3. ASSUME NEW r \in Row, Newest(r).ver = v, Newest(r) = local[r] \/ Newest(r).status = "pending"
      PROVE  AtHand(v)' \/ v \in reached
  <2>1. CASE local'[r].status \in {"pending", "error"}
    BY <1>1, <1>3, <2>1 DEF AtHand, Unpushed
  <2>2. CASE local[r].status = "synced" /\ local[r].ver = v
    BY <2>2 DEF QuietInv, SyncedInv, SyncedMeansReceived
  <2>3. local[r].status \in {"none", "synced", "pending", "error"} /\ (local[r].ver # 0 <=> local[r].status # "none")
    BY <1>1 DEF LocalRow, Base, LocalFrom
  <2> QED
    BY <1>1, <1>3, <2>1, <2>2, <2>3
<1>4. \A r \in Row : /\ Newest(r) = local[r] \/ Newest(r).status = "pending"
                     /\ local[r].ver <= Newest(r).ver
                     /\ \A i \in DOMAIN files : \A e \in files[i] : e.row = r => e.ver <= Newest(r).ver
                     /\ Newest(r).ver \in Nat
  <2>1. \A r \in Row : Newest(r).ver \in Nat
    BY <1>1 DEF Base, TypeOK, LocalRow
  <2> QED
    BY <1>1, <2>1, NewestFacts
<1>5. ASSUME AtHand(v) PROVE Lives(v)'
  <2>1. PICK q \in Row : q \in Unpushed /\ local[q].ver = v
    BY <1>5 DEF AtHand, Unpushed
  <2>2. log[v].row = q
    BY <1>1, <2>1 DEF Base, LocalFrom, Sourced
  <2>3. Newest(q).ver > v \/ Newest(q).ver = v
    BY <1>1, <1>4, <2>1
  <2> QED
    BY <1>1, <1>2, <1>3, <1>4, <2>2, <2>3 DEF Lives, Kept
<1>6. ASSUME InFile(v) PROVE Lives(v)'
  <2>0. PICK i \in DOMAIN files : \E f \in files[i] : f.row = log[v].row /\ f.ver = v
    BY <1>6 DEF InFile
  <2>1. PICK e \in files[i] : e.row = log[v].row /\ e.ver = v
    BY <2>0
  <2>2. e.row \in Row
    BY <1>1, <2>1 DEF TypeOK, ExportedRow
  <2>3. Newest(e.row).ver > v \/ Newest(e.row).ver = v
    BY <1>1, <1>4, <2>1, <2>2
  <2> QED
    BY <1>1, <1>2, <1>3, <1>4, <2>1, <2>2, <2>3 DEF Lives, Kept
<1> QED
  BY <1>1, <1>5, <1>6, LivesOn

LEMMA SurviveStep ==
  ASSUME QuietInv, [Next]_vars, Base'
  PROVE  QuietEditsSurvive'
<1>1. Base /\ log \in Seq(LogEntry) /\ local \in [Row -> LocalRow]
  BY DEF QuietInv, SyncedInv, Base, TypeOK
<1>2. SUFFICES ASSUME NEW v \in Version', log'[v].here, log'[v].quiet PROVE Lives(v)'
  BY DEF QuietEditsSurvive, Lives, Kept
<1>3. CASE v \in Version
  <2>1. log[v].here /\ log[v].quiet
    BY <1>1, <1>2, <1>3, Recorded
  <2>2. Lives(v)
    BY <1>3, <2>1 DEF QuietInv, QuietEditsSurvive, Lives, Kept
  <2>3. CASE Export \/ Wipe
    <3>1. PICK chosen \in SUBSET Row : ExportRows(chosen)
      BY <2>3 DEF Export, Wipe
    <3> QED
      BY <1>1, <1>3, <2>2, <3>1, ExportLives
  <2>4. CASE \E r \in Row : Edit(r)
    BY <1>1, <1>3, <2>2, <2>4, EditLives
  <2>5. CASE Acknowledge
    BY <1>3, <2>1, <2>2, <2>5, AcknowledgeLives
  <2>6. CASE Clear \/ ClearFails \/ Delete
    BY <1>3, <2>1, <2>2, <2>6, ClearLives
  <2>7. CASE ApplyPulled \/ ApplyPart
    BY <1>1, <1>3, <2>2, <2>7, ApplyLives
  <2>8. CASE Replay
    BY <1>3, <2>1, <2>2, <2>8, ReplayLives
  <2>10. CASE Align
    BY <1>1, <1>3, <2>2, <2>10, AlignLives
  <2>9. ASSUME Undisturbed PROVE Lives(v)'
    BY <1>1, <1>3, <2>2, <2>9, UndisturbedLives
  <2> QED
    BY <1>1, <2>3, <2>4, <2>5, <2>6, <2>7, <2>8, <2>9, <2>10, UndisturbedSteps DEF Next, RunStep, Trouble
<1>4. CASE v \notin Version
  <2>1. log' # log
    BY <1>2, <1>4 DEF Version
  <2>2. PICK r \in Row : Edit(r) \/ OtherWrites(r)
    BY <2>1 DEF Next, RunStep, Trouble, vars, server, StartRun, Collect, Serve, ServeAgain,
         ServeStray, Acknowledge, GiveUp, AnswerInvalid, AnswerConflict, Export, ExportFails,
         Clear, ClearFails, Wipe, WipeUnsaved, Delete, ResetCursor, Fetch, ApplyPulled, ApplyPart,
         SaveCursor, PullFails, Replay, Stop, Snapshot, Align, AlignFails, AnswerOutdated
  <2>3. \E here, quiet : log' = Append(log, [row |-> r, here |-> here, quiet |-> quiet])
    BY <2>2 DEF Edit, OtherWrites
  <2>4. v = Len(log')
    BY <1>1, <1>2, <1>4, <2>3 DEF Version
  <2>5. CASE OtherWrites(r)
    <3>1. ~log'[Len(log')].here
      BY <1>1, <2>5 DEF OtherWrites
    <3> QED
      BY <1>2, <2>4, <3>1
  <2>6. CASE Edit(r)
    <3>1. local'[r].ver = v /\ local'[r].status = "pending"
      BY <1>1, <2>4, <2>6 DEF Edit, LocalRow
    <3> QED
      BY <3>1 DEF Lives, AtHand, Unpushed
  <2> QED
    BY <2>2, <2>5, <2>6
<1> QED
  BY <1>3, <1>4

\* What was kept stays kept while the files stay.
LEMMA KeptStays ==
  ASSUME Base, [Next]_vars, UNCHANGED files, NEW v \in Version, Kept(v)
  PROVE  Kept(v)'
<1>1. /\ reached \subseteq reached' /\ log'[v] = log[v]
      /\ overrun \subseteq overrun' /\ aligned \subseteq aligned' /\ unsaved \subseteq unsaved'
  BY Recorded, Remembered
<1> QED
  BY <1>1 DEF Kept, InFile

LEMMA ClearedStep ==
  ASSUME QuietInv, [Next]_vars, Base'
  PROVE  Cleared'
<1>1. /\ Base /\ log \in Seq(LogEntry) /\ local \in [Row -> LocalRow]
      /\ \A r \in Unpushed : local[r].ver \in Version /\ local[r].ver # 0 /\ log[local[r].ver].row = r
  BY DEF QuietInv, SyncedInv, Base, TypeOK, LocalFrom, Sourced, Unpushed
<1>2. CASE Export \/ Wipe
  <2>1. PICK chosen \in SUBSET Row : ExportRows(chosen)
    BY <1>2 DEF Export, Wipe
  <2>2. PICK old \in SUBSET Unconfirmed : local' = Marked(old)
    BY <1>1, <2>1, ExportFacts
  <2>3. UNCHANGED <<log, reached>>
    BY <1>2 DEF Export, Wipe, server
  <2>4. ASSUME NEW r \in Unpushed', NEW v, v = local'[r].ver, log'[v].quiet PROVE Kept(v)'
    <3>1. r \in Row /\ local[r].ver = v
      <4>1. r \in Row
        BY <2>4 DEF Unpushed
      <4> QED
        BY <1>1, <2>2, <2>4, <4>1, MarkedFacts DEF Base
    <3>2. CASE r \notin Unpushed
      <4>1. local[r].status = "synced"
        BY <1>1, <2>2, <2>4, <3>1, <3>2, MarkedFacts DEF Base, Unpushed, LocalRow
      <4> QED
        BY <2>3, <2>4, <3>1, <4>1 DEF QuietInv, SyncedInv, SyncedMeansReceived, Kept
    <3>3. CASE r \in Unpushed /\ r \notin chosen
      <4>1. v \in Unkept(chosen)
        BY <3>1, <3>3 DEF Unkept
      <4> QED
        BY <2>1, <4>1, <1>1, ExportFacts DEF Kept
    <3>4. CASE r \in Unpushed /\ r \in chosen
      <4>1. PICK i \in DOMAIN files' : files'[i] = Saved(chosen)
        BY <1>1, <2>1, <3>4, ExportFacts, WriteFileFacts
      <4>2. PICK e : e = [row |-> r, ver |-> local[r].ver, seq |-> local[r].seq]
        OBVIOUS
      <4>3. e \in files'[i] /\ e.row = r /\ e.ver = v
        BY <3>1, <3>4, <4>1, <4>2 DEF Saved
      <4>4. log'[v].row = r
        BY <1>1, <2>3, <3>1, <3>4
      <4> QED
        BY <4>1, <4>3, <4>4 DEF Kept, InFile
    <3> QED
      BY <3>2, <3>3, <3>4
  <2> QED
    BY <2>4 DEF Cleared
<1>3. CASE WipeUnsaved
  <2>1. UNCHANGED <<local, log>> /\ unsaved' = unsaved \cup {local[r].ver : r \in Unpushed}
    BY <1>3 DEF WipeUnsaved
  <2> QED
    BY <2>1 DEF Cleared, Kept, Unpushed
<1>4. CASE \E r \in Row : Edit(r)
  <2>1. PICK r \in Row : Edit(r)
    BY <1>4
  <2>2. /\ log' = Append(log, [row |-> r, here |-> TRUE, quiet |-> Phase("idle")])
        /\ local' = [local EXCEPT ![r].ver = Len(log'), ![r].status = "pending"]
        /\ run' = run /\ files' = files
    BY <2>1 DEF Edit
  <2>3. SUFFICES ASSUME Doomed, NEW q \in Unpushed', NEW v, v = local'[q].ver, log'[v].quiet PROVE Kept(v)'
    BY <2>2 DEF Cleared, Doomed, Phase
  <2>4. CASE q = r
    <3>1. v = Len(log') /\ ~Phase("idle")
      BY <1>1, <2>2, <2>3, <2>4 DEF LocalRow, Doomed, Phase
    <3>2. ~log'[v].quiet
      BY <1>1, <2>2, <3>1
    <3> QED
      BY <2>3, <3>2
  <2>5. CASE q # r
    <3>1. local'[q] = local[q] /\ q \in Unpushed
      BY <1>1, <2>2, <2>3, <2>5 DEF Unpushed
    <3>2. v \in Version /\ log[v].quiet
      BY <1>1, <2>3, <3>1, Recorded
    <3>3. Kept(v)
      BY <2>3, <3>1, <3>2 DEF QuietInv, Cleared
    <3> QED
      BY <1>1, <2>2, <3>2, <3>3, KeptStays
  <2> QED
    BY <2>4, <2>5
<1>5. CASE UNCHANGED vars \/ ServeStray \/ ResetCursor \/ \E r \in Row : OtherWrites(r)
  <2>1. UNCHANGED <<local, run, files>>
    BY <1>5 DEF vars, ServeStray, ResetCursor, OtherWrites
  <2>2. ASSUME Doomed, NEW r \in Unpushed, log'[local[r].ver].quiet, NEW v, v = local[r].ver PROVE Kept(v)'
    <3>1. v \in Version /\ log[v].quiet
      BY <1>1, <2>2, Recorded
    <3>2. Kept(v)
      BY <2>2, <3>1 DEF QuietInv, Cleared
    <3> QED
      BY <1>1, <2>1, <3>1, <3>2, KeptStays
  <2> QED
    BY <2>1, <2>2 DEF Cleared, Doomed, Phase, Unpushed
<1>6. ASSUME ~Doomed' PROVE Cleared'
  BY <1>6 DEF Cleared
<1> QED
  BY <1>1, <1>2, <1>3, <1>4, <1>5, <1>6, LeavesClear DEF Next, RunStep, Trouble

\* An edit made between two runs is taken by the server, is unpushed, is in an
\* export file or has a newer edit after it, unless a pulled row or the server's
\* catalogue was written over it or an export failed, left it out or dropped its
\* file.
THEOREM QuietEditsLive == Spec => []QuietEditsSurvive
<1>1. Init => QuietInv
  <2> SUFFICES ASSUME Init PROVE QuietInv
    OBVIOUS
  <2>1. Base /\ run.phase = "idle" /\ log = <<>> /\ \A r \in Row : local[r].status = "none"
    BY BaseInit, IdleFacts DEF Init, NoRow
  <2>2. SyncedInv
    BY <2>1 DEF SyncedInv, SyncedMeansReceived, Carrying, Received, Phase
  <2>3. Cleared
    BY <2>1 DEF Cleared, Doomed, Phase
  <2>4. QuietEditsSurvive
    BY <2>1 DEF QuietEditsSurvive, Version
  <2> QED
    BY <2>2, <2>3, <2>4 DEF QuietInv
<1>2. QuietInv /\ [Next]_vars => QuietInv'
  <2> SUFFICES ASSUME QuietInv, [Next]_vars PROVE QuietInv'
    OBVIOUS
  <2>1. SyncedInv' /\ Base'
    BY SyncedStep DEF QuietInv, SyncedInv
  <2> QED
    BY <2>1, SurviveStep, ClearedStep DEF QuietInv
<1>3. QuietInv => QuietEditsSurvive
  BY DEF QuietInv
<1> QED
  BY <1>1, <1>2, <1>3, PTL DEF Spec
=============================================================================
