-------------------------- MODULE CommandOutboxProofs --------------------------
(***************************************************************************)
(* Proofs about CommandOutbox for any commands, documents, instances,      *)
(* requests, attempts and faults.                                          *)
(***************************************************************************)
EXTENDS CommandOutbox, TLAPS, WellFoundedInduction, NaturalsInduction

-----------------------------------------------------------------------------
(* The shape of what the first two theorems look at; a drain's list of rows *)
(* does not matter to them, so neither do the tasks.                       *)

Shaped(r) ==
  r \in [cmd : {r.cmd}, keyed : {r.keyed}, inst : {r.inst}, ok : {r.ok}, for : {r.for},
         at : {"free", "lookup", "run", "save", "answer"}]

Row == [status : {"none", "pending", "applied", "dead_letter"}, attempts : Nat,
        error : {"none", "network", "refused"}]

Shape ==
  /\ DOMAIN request = Slot /\ DOMAIN memory = Inst
  /\ \A s \in Slot : /\ Shaped(request[s])
                     /\ request[s].at \in {"lookup", "run", "save"} => request[s].inst \in Inst
  /\ runs \in [Cmd -> [keyed : Nat, direct : Nat]]
  /\ outbox \in [Cmd -> Row]

LEMMA ShapedFacts ==
  /\ Shaped(NoRequest) /\ NoRequest.at = "free"
  /\ \A r : Shaped(r) =>
       /\ \A a \in {"run", "save"} : LET q == [r EXCEPT !.at = a] IN
            /\ Shaped(q) /\ q.at = a /\ q.cmd = r.cmd /\ q.keyed = r.keyed /\ q.inst = r.inst
       /\ LET q == [r EXCEPT !.for = None] IN
            /\ Shaped(q) /\ q.at = r.at /\ q.cmd = r.cmd /\ q.keyed = r.keyed /\ q.inst = r.inst
            /\ q.ok = r.ok
       /\ \A b : LET q == Reply(r, b) IN
            /\ Shaped(q)
            /\ q = NoRequest \/ (q.at = "answer" /\ q.cmd = r.cmd /\ q.keyed = r.keyed /\ q.ok = b)
<1>1. Shaped(NoRequest) /\ NoRequest.at = "free"
  BY DEF Shaped, NoRequest
<1>2. ASSUME NEW r, Shaped(r), NEW a \in {"run", "save"}
      PROVE  LET q == [r EXCEPT !.at = a] IN
               /\ Shaped(q) /\ q.at = a /\ q.cmd = r.cmd /\ q.keyed = r.keyed /\ q.inst = r.inst
  BY <1>2 DEF Shaped
<1>3. ASSUME NEW r, Shaped(r)
      PROVE  LET q == [r EXCEPT !.for = None] IN
               /\ Shaped(q) /\ q.at = r.at /\ q.cmd = r.cmd /\ q.keyed = r.keyed /\ q.inst = r.inst
               /\ q.ok = r.ok
  BY <1>3 DEF Shaped
<1>4. ASSUME NEW r, Shaped(r), NEW b
      PROVE  LET q == Reply(r, b) IN
               /\ Shaped(q)
               /\ q = NoRequest \/ (q.at = "answer" /\ q.cmd = r.cmd /\ q.keyed = r.keyed /\ q.ok = b)
  BY <1>1, <1>4 DEF Shaped, Reply
<1> QED
  BY <1>1, <1>2, <1>3, <1>4

LEMMA ShapeInit == Init => Shape
BY ShapedFacts DEF Init, Shape, Row, NoRequest

LEMMA RowFacts ==
  ASSUME NEW row \in Row, NEW error \in {"network", "refused"}
  PROVE  /\ Failed(row, error) \in Row /\ Failed(row, error).status # "applied"
         /\ Failed(row, error).error = error
         /\ [row EXCEPT !.status = "applied", !.error = "none"] \in Row
         /\ [row EXCEPT !.status = "pending"] \in Row
<1> DEFINE n == row.attempts + 1
           status == IF row.attempts + 1 >= DeadAfter THEN "dead_letter" ELSE "pending"
<1>1. n \in Nat /\ status \in {"pending", "dead_letter"}
  BY DEF Row
<1>2. Failed(row, error) = [row EXCEPT !.attempts = n, !.error = error, !.status = status]
  BY DEF Failed
<1> HIDE DEF n, status
<1>3. Failed(row, error) \in Row
  BY <1>1, <1>2 DEF Row
<1>4. Failed(row, error).status = status /\ Failed(row, error).error = error
  BY <1>2 DEF Row
<1>5. [row EXCEPT !.status = "applied", !.error = "none"] \in Row
  BY DEF Row
<1>6. [row EXCEPT !.status = "pending"] \in Row
  BY DEF Row
<1> QED
  BY <1>1, <1>3, <1>4, <1>5, <1>6

\* A call that fails applies no row, and says refused only when it was.
LEMMA FailFacts ==
  ASSUME outbox \in [Cmd -> Row], NEW t, NEW error \in {"network", "refused"}, Fail(t, error)
  PROVE  /\ outbox' \in [Cmd -> Row]
         /\ \A c \in Cmd : outbox'[c].status = "applied" => outbox[c].status = "applied"
         /\ \A c \in Cmd : outbox'[c].error = "refused" =>
              \/ outbox[c].error = "refused"
              \/ error = "refused" /\ c = task[t].cmd /\ Kind[c] # "push" /\ task[t].keyed
<1> DEFINE c == task[t].cmd
<1>1. CASE outbox' = outbox
  BY <1>1
<1>2. CASE outbox' = [outbox EXCEPT ![c].status = "pending"] /\ ~task[t].keyed
  <2>1. \A d \in Cmd : [outbox[d] EXCEPT !.status = "pending"] \in Row
    BY RowFacts
  <2>2. \A d \in Cmd : /\ [outbox[d] EXCEPT !.status = "pending"].status = "pending"
                       /\ [outbox[d] EXCEPT !.status = "pending"].error = outbox[d].error
    BY DEF Row
  <2> HIDE DEF c
  <2> QED
    BY <1>2, <2>1, <2>2
<1>3. CASE outbox' = [outbox EXCEPT ![c] = Failed(outbox[c], error)] /\ Kind[c] # "push" /\ task[t].keyed
  <2> HIDE DEF c
  <2>1. \A d \in Cmd : /\ Failed(outbox[d], error) \in Row
                       /\ Failed(outbox[d], error).status # "applied"
                       /\ Failed(outbox[d], error).error = error
    BY RowFacts
  <2> QED
    BY <1>3, <2>1 DEF c
<1> QED
  BY <1>1, <1>2, <1>3 DEF Fail, MarkFailed

-----------------------------------------------------------------------------
(* What the steps do to the requests.                                      *)

\* A request is where it was, though perhaps not waited for any longer, or its
\* answer is gone.
Still(s) ==
  \/ /\ request'[s].at = request[s].at /\ request'[s].cmd = request[s].cmd
     /\ request'[s].keyed = request[s].keyed /\ request'[s].inst = request[s].inst
     /\ request'[s].ok = request[s].ok
  \/ request[s].at = "answer" /\ request'[s] = NoRequest

LEMMA AbandonFacts ==
  ASSUME Shape, NEW calls, request' = Abandon(calls)
  PROVE  DOMAIN request' = Slot /\ \A s \in Slot : Shaped(request'[s]) /\ Still(s)
<1>1. DOMAIN request' = Slot
  BY DEF Abandon
<1>2. ASSUME NEW s \in Slot PROVE Shaped(request'[s]) /\ Still(s)
  <2>1. \/ request'[s] = request[s]
        \/ request[s].at = "answer" /\ request'[s] = NoRequest
        \/ request'[s] = [request[s] EXCEPT !.for = None]
    BY DEF Abandon
  <2>2. Shaped(request[s])
    BY DEF Shape
  <2>3. CASE request'[s] = [request[s] EXCEPT !.for = None]
    <3> DEFINE q == [request[s] EXCEPT !.for = None]
    <3>1. /\ Shaped(q) /\ q.at = request[s].at /\ q.cmd = request[s].cmd
          /\ q.keyed = request[s].keyed /\ q.inst = request[s].inst /\ q.ok = request[s].ok
      BY <2>2, ShapedFacts
    <3> HIDE DEF q
    <3>2. request'[s] = q
      BY <2>3 DEF q
    <3> QED
      BY <3>1, <3>2 DEF Still
  <2> QED
    BY <2>1, <2>2, <2>3, ShapedFacts DEF Still
<1> QED
  BY <1>1, <1>2

\* The steps of the client that end or start no request.
ClientStep ==
  \/ Quit
  \/ \E t \in Task : OpenList(t) \/ GiveUp(t) \/ Offline(t) \/ \E c \in Cmd : Issue(t, c)

LEMMA ClientMoves ==
  ASSUME Shape, ClientStep
  PROVE  DOMAIN request' = Slot /\ \A s \in Slot : Shaped(request'[s]) /\ Still(s)
<1>1. CASE request' = request
  BY <1>1 DEF Shape, Still
<1>2. request' = request \/ \E calls : request' = Abandon(calls)
  BY DEF ClientStep, Quit, OpenList, GiveUp, Offline, Issue
<1> QED
  BY <1>1, <1>2, AbandonFacts

\* One request moves, the others stay.
Alone(s) == DOMAIN request' = Slot /\ \A q \in Slot \ {s} : request'[q] = request[q]

LEMMA SendMoves ==
  ASSUME Shape, NEW t \in Task, Send(t)
  PROVE  \E s \in Slot : /\ Alone(s) /\ request[s] = NoRequest /\ Shaped(request'[s])
                         /\ request'[s].at = IF task[t].keyed THEN "lookup" ELSE "run"
                         /\ request'[s].cmd = task[t].cmd /\ request'[s].keyed = task[t].keyed
                         /\ request'[s].inst \in Inst
<1>1. PICK i \in Inst, s \in Slot :
        /\ request[s] = NoRequest
        /\ request' = [request EXCEPT ![s] =
             [NoRequest EXCEPT !.cmd = task[t].cmd, !.keyed = task[t].keyed, !.inst = i, !.for = t,
                               !.at = IF task[t].keyed THEN "lookup" ELSE "run"]]
  BY DEF Send
<1> DEFINE k == task[t].keyed
           a == IF task[t].keyed THEN "lookup" ELSE "run"
           r == [NoRequest EXCEPT !.cmd = task[t].cmd, !.keyed = k, !.inst = i, !.for = t, !.at = a]
<1>2. a \in {"lookup", "run"}
  OBVIOUS
<1>3. request'[s] = r /\ Alone(s)
  BY <1>1 DEF Shape, Alone
<1>4. Shaped(r) /\ r.at = a /\ r.cmd = task[t].cmd /\ r.keyed = k /\ r.inst = i
  <2> HIDE DEF a, k
  <2> QED
    BY <1>2 DEF Shaped, NoRequest
<1> HIDE DEF r
<1> QED
  BY <1>1, <1>3, <1>4

\* The request goes on to step a, or is answered with b if that is awaited.
Moved(s, a) == /\ Shaped(request'[s]) /\ request'[s].at = a /\ request'[s].cmd = request[s].cmd
               /\ request'[s].keyed = request[s].keyed /\ request'[s].inst = request[s].inst
Replied(s, b) == /\ Shaped(request'[s])
                 /\ \/ request'[s] = NoRequest
                    \/ /\ request'[s].at = "answer" /\ request'[s].cmd = request[s].cmd
                       /\ request'[s].keyed = request[s].keyed /\ request'[s].ok = b

LEMMA MoveFacts ==
  ASSUME Shape, NEW s \in Slot
  PROVE  /\ \A a \in {"run", "save"} : request'[s] = [request[s] EXCEPT !.at = a] => Moved(s, a)
         /\ \A b : request'[s] = Reply(request[s], b) => Replied(s, b)
<1>1. Shaped(request[s])
  BY DEF Shape
<1>2. ASSUME NEW a \in {"run", "save"}, request'[s] = [request[s] EXCEPT !.at = a] PROVE Moved(s, a)
  <2> DEFINE q == [request[s] EXCEPT !.at = a]
  <2>1. /\ Shaped(q) /\ q.at = a /\ q.cmd = request[s].cmd
        /\ q.keyed = request[s].keyed /\ q.inst = request[s].inst
    BY <1>1, ShapedFacts, ZenonT(40)
  <2>2. request'[s] = q
    BY <1>2
  <2> HIDE DEF q
  <2> QED
    BY <2>1, <2>2 DEF Moved
<1>3. ASSUME NEW b, request'[s] = Reply(request[s], b) PROVE Replied(s, b)
  <2>1. CASE request[s].for = None
    BY <1>3, <2>1, ShapedFacts DEF Reply, Replied
  <2>2. CASE request[s].for # None
    <3>1. request'[s] = [request[s] EXCEPT !.at = "answer", !.ok = b]
      BY <1>3, <2>2 DEF Reply
    <3> QED
      BY <1>1, <3>1 DEF Shaped, Replied
  <2> QED
    BY <2>1, <2>2
<1> QED
  BY <1>2, <1>3

LEMMA ServerMoves ==
  ASSUME Shape, NEW s \in Slot
  PROVE  /\ Answer(s) => Alone(s) /\ request[s].at = "answer" /\ request'[s] = NoRequest
         /\ Lookup(s) => Alone(s) /\ request[s].at = "lookup" /\ (Replied(s, TRUE) \/ Moved(s, "run"))
         /\ Run(s) => /\ Alone(s) /\ request[s].at = "run"
                      /\ \/ Replied(s, FALSE) /\ runs' = runs
                         \/ /\ Moved(s, "save") /\ request[s].keyed
                            /\ runs' = [runs EXCEPT ![request[s].cmd].keyed = @ + 1]
                         \/ /\ Replied(s, TRUE) /\ ~request[s].keyed
                            /\ runs' = [runs EXCEPT ![request[s].cmd].direct = @ + 1]
         /\ Save(s) => Alone(s) /\ request[s].at = "save" /\ Replied(s, TRUE)
<1>1. DOMAIN request = Slot
  BY DEF Shape
<1>2. ASSUME Answer(s) PROVE Alone(s) /\ request[s].at = "answer" /\ request'[s] = NoRequest
  BY <1>1, <1>2 DEF Answer, Alone
<1>3. ASSUME Lookup(s)
      PROVE  Alone(s) /\ request[s].at = "lookup" /\ (Replied(s, TRUE) \/ Moved(s, "run"))
  <2>1. /\ Alone(s) /\ request[s].at = "lookup"
        /\ \/ request'[s] = Reply(request[s], TRUE)
           \/ request'[s] = [request[s] EXCEPT !.at = "run"]
    BY <1>1, <1>3 DEF Lookup, Alone
  <2> QED
    BY <2>1, MoveFacts
<1>4. ASSUME Run(s)
      PROVE  /\ Alone(s) /\ request[s].at = "run"
             /\ \/ Replied(s, FALSE) /\ runs' = runs
                \/ /\ Moved(s, "save") /\ request[s].keyed
                   /\ runs' = [runs EXCEPT ![request[s].cmd].keyed = @ + 1]
                \/ /\ Replied(s, TRUE) /\ ~request[s].keyed
                   /\ runs' = [runs EXCEPT ![request[s].cmd].direct = @ + 1]
  <2>1. Alone(s) /\ request[s].at = "run"
    BY <1>1, <1>4 DEF Run, Alone
  <2>2. CASE request' = [request EXCEPT ![s] = Reply(request[s], FALSE)] /\ runs' = runs
    <3>1. request'[s] = Reply(request[s], FALSE)
      BY <2>2, <1>1
    <3> QED
      BY <2>1, <2>2, <3>1, MoveFacts
  <2>3. CASE /\ request' = [request EXCEPT ![s] = [request[s] EXCEPT !.at = "save"]] /\ request[s].keyed
             /\ runs' = [runs EXCEPT ![request[s].cmd].keyed = @ + 1]
    <3>1. request'[s] = [request[s] EXCEPT !.at = "save"]
      BY <2>3, <1>1
    <3> QED
      BY <2>1, <2>3, <3>1, MoveFacts
  <2>4. CASE /\ request' = [request EXCEPT ![s] = Reply(request[s], TRUE)] /\ ~request[s].keyed
             /\ runs' = [runs EXCEPT ![request[s].cmd].direct = @ + 1]
    <3>1. request'[s] = Reply(request[s], TRUE)
      BY <2>4, <1>1
    <3> QED
      BY <2>1, <2>4, <3>1, MoveFacts
  <2> QED
    BY <1>4, <2>2, <2>3, <2>4 DEF Run
<1>5. ASSUME Save(s) PROVE Alone(s) /\ request[s].at = "save" /\ Replied(s, TRUE)
  <2>1. Alone(s) /\ request[s].at = "save" /\ request'[s] = Reply(request[s], TRUE)
    BY <1>1, <1>5 DEF Save, Alone
  <2> QED
    BY <2>1, MoveFacts
<1> QED
  BY <1>2, <1>3, <1>4, <1>5

LEMMA RestartMoves ==
  ASSUME Shape, NEW i \in Inst, Restart(i)
  PROVE  /\ DOMAIN request' = Slot
         /\ \A s \in Slot : IF request[s].inst = i THEN request'[s] = NoRequest
                            ELSE request'[s] = request[s]
BY DEF Restart, Shape

\* The steps of the client never touch the server, nor those of the server the
\* outbox; what was found stays on record.
LEMMA Frames ==
  /\ ClientStep => UNCHANGED <<document, results, memory, runs>> /\ cause \subseteq cause'
  /\ \A t \in Task : Send(t) => UNCHANGED <<document, results, memory, runs, outbox, cause>>
  /\ \A s \in Slot : /\ Answer(s) => UNCHANGED <<document, results, memory, runs>> /\ cause \subseteq cause'
                     /\ Lookup(s) => UNCHANGED <<document, results, memory, runs, outbox>> /\ cause \subseteq cause'
                     /\ Run(s) => UNCHANGED <<results, memory, outbox>> /\ cause \subseteq cause'
                     /\ Save(s) => UNCHANGED <<document, runs, outbox, cause>>
  /\ \A i \in Inst : Restart(i) => UNCHANGED <<document, results, runs, outbox>> /\ cause \subseteq cause'
<1> USE DEF server, client
<1>1. ClientStep => UNCHANGED <<document, results, memory, runs>> /\ cause \subseteq cause'
  BY DEF ClientStep, Quit, OpenList, GiveUp, Offline, Issue, Drain
<1>2. \A t \in Task : Send(t) => UNCHANGED <<document, results, memory, runs, outbox, cause>>
  BY DEF Send
<1>3. \A s \in Slot : Answer(s) => UNCHANGED <<document, results, memory, runs>> /\ cause \subseteq cause'
  BY DEF Answer, Drain
<1>4. \A s \in Slot : Lookup(s) => UNCHANGED <<document, results, memory, runs, outbox>> /\ cause \subseteq cause'
  BY DEF Lookup
<1>5. \A s \in Slot : Run(s) => UNCHANGED <<results, memory, outbox>> /\ cause \subseteq cause'
  BY DEF Run
<1>6. \A s \in Slot : Save(s) => UNCHANGED <<document, runs, outbox, cause>>
  BY DEF Save
<1>7. \A i \in Inst : Restart(i) => UNCHANGED <<document, results, runs, outbox>> /\ cause \subseteq cause'
  BY DEF Restart
<1> QED
  BY <1>1, <1>2, <1>3, <1>4, <1>5, <1>6, <1>7

\* A run is counted once, for its command; what took effect has done so for ever.
LEMMA RunFacts ==
  ASSUME Shape, NEW s \in Slot, Run(s)
  PROVE  /\ runs' \in [Cmd -> [keyed : Nat, direct : Nat]]
         /\ \A c \in Cmd :
              /\ Done(c) => Done(c)'
              /\ request[s].cmd = c => Done(c)' \/ Replied(s, FALSE)
              /\ \/ runs'[c].keyed = runs[c].keyed
                 \/ /\ request[s].cmd = c /\ request[s].keyed /\ Moved(s, "save")
                    /\ runs'[c].keyed = runs[c].keyed + 1
<1> DEFINE d == request[s].cmd
<1>1. \A c \in Cmd : /\ runs[c].keyed \in Nat /\ runs[c].direct \in Nat
                     /\ runs[c] \in [keyed : Nat, direct : Nat]
  BY DEF Shape
<1>2. CASE Replied(s, FALSE) /\ runs' = runs
  BY <1>1, <1>2 DEF Shape, Done
<1>3. CASE Moved(s, "save") /\ request[s].keyed /\ runs' = [runs EXCEPT ![d].keyed = @ + 1]
  <2> HIDE DEF d
  <2> DEFINE One(c) == [runs[c] EXCEPT !.keyed = @ + 1]
  <2>1. \A c \in Cmd : /\ One(c) \in [keyed : Nat, direct : Nat]
                       /\ One(c).keyed = runs[c].keyed + 1 /\ One(c).direct = runs[c].direct
    <3>1. ASSUME NEW c \in Cmd, NEW n \in Nat
          PROVE  LET o == [runs[c] EXCEPT !.keyed = n] IN
                   o \in [keyed : Nat, direct : Nat] /\ o.keyed = n /\ o.direct = runs[c].direct
      BY <1>1
    <3> QED
      BY <1>1, <3>1
  <2>2. runs' = [c \in Cmd |-> IF c = d THEN One(c) ELSE runs[c]]
    BY <1>3 DEF Shape
  <2> HIDE DEF One
  <2>3. runs' \in [Cmd -> [keyed : Nat, direct : Nat]]
    BY <1>1, <2>1, <2>2
  <2>4. \A c \in Cmd : runs'[c] = IF c = d THEN One(c) ELSE runs[c]
    BY <2>2
  <2>5. \A c \in Cmd :
          /\ runs'[c].keyed = IF c = d THEN runs[c].keyed + 1 ELSE runs[c].keyed
          /\ runs'[c].direct = runs[c].direct
    BY <2>1, <2>4
  <2>6. \A c \in Cmd : (Done(c) => Done(c)') /\ (c = d => Done(c)')
    BY <1>1, <2>5 DEF Done
  <2> QED
    BY <1>3, <2>3, <2>5, <2>6 DEF d
<1>4. CASE Replied(s, TRUE) /\ ~request[s].keyed /\ runs' = [runs EXCEPT ![d].direct = @ + 1]
  <2> HIDE DEF d
  <2> DEFINE One(c) == [runs[c] EXCEPT !.direct = @ + 1]
  <2>1. \A c \in Cmd : /\ One(c) \in [keyed : Nat, direct : Nat]
                       /\ One(c).direct = runs[c].direct + 1 /\ One(c).keyed = runs[c].keyed
    <3>1. ASSUME NEW c \in Cmd, NEW n \in Nat
          PROVE  LET o == [runs[c] EXCEPT !.direct = n] IN
                   o \in [keyed : Nat, direct : Nat] /\ o.direct = n /\ o.keyed = runs[c].keyed
      BY <1>1
    <3> QED
      BY <1>1, <3>1
  <2>2. runs' = [c \in Cmd |-> IF c = d THEN One(c) ELSE runs[c]]
    BY <1>4 DEF Shape
  <2> HIDE DEF One
  <2>3. runs' \in [Cmd -> [keyed : Nat, direct : Nat]]
    BY <1>1, <2>1, <2>2
  <2>4. \A c \in Cmd : runs'[c] = IF c = d THEN One(c) ELSE runs[c]
    BY <2>2
  <2>5. \A c \in Cmd :
          /\ runs'[c].direct = IF c = d THEN runs[c].direct + 1 ELSE runs[c].direct
          /\ runs'[c].keyed = runs[c].keyed
    BY <2>1, <2>4
  <2>6. \A c \in Cmd : (Done(c) => Done(c)') /\ (c = d => Done(c)')
    BY <1>1, <2>5 DEF Done
  <2> QED
    BY <1>4, <2>3, <2>5, <2>6 DEF d
<1> QED
  BY <1>2, <1>3, <1>4, ServerMoves

LEMMA ShapeStep == Shape /\ [Next]_vars => Shape'
<1> SUFFICES ASSUME Shape, [Next]_vars PROVE Shape'
  OBVIOUS
<1>a. \A s \in Slot : Shaped(request[s])
  BY DEF Shape
<1>b. \A s \in Slot : request[s].at \in {"lookup", "run", "save"} => request[s].inst \in Inst
  BY DEF Shape
<1>c. NoRequest.at = "free" /\ Shaped(NoRequest)
  BY ShapedFacts
<1>1. CASE ClientStep
  <2>1. DOMAIN request' = Slot /\ \A s \in Slot : Shaped(request'[s]) /\ Still(s)
    BY <1>1, ClientMoves
  <2>2. outbox' \in [Cmd -> Row]
    BY <1>1, FailFacts DEF ClientStep, Shape, Quit, OpenList, GiveUp, Offline, Issue, client
  <2> QED
    BY <1>1, <2>1, <2>2, <1>b, <1>c, Frames DEF Shape, Still
<1>2. ASSUME NEW t \in Task, Send(t) PROVE Shape'
  <2>1. PICK s \in Slot : Alone(s) /\ Shaped(request'[s]) /\ request'[s].inst \in Inst
    BY <1>2, SendMoves
  <2> QED
    BY <1>2, <2>1, <1>a, <1>b, Frames DEF Shape, Alone
<1>3. ASSUME NEW s \in Slot, Answer(s) PROVE Shape'
  <2>1. Alone(s) /\ request'[s] = NoRequest
    BY <1>3, ServerMoves
  <2>2. outbox' \in [Cmd -> Row]
    <3>1. CASE MarkApplied(request[s].cmd)
      <4>1. \A row \in Row : [row EXCEPT !.status = "applied", !.error = "none"] \in Row
        BY RowFacts
      <4>2. \A c \in Cmd : outbox'[c] = IF c = request[s].cmd
              THEN [outbox[c] EXCEPT !.status = "applied", !.error = "none"] ELSE outbox[c]
        BY <3>1 DEF MarkApplied, Shape, Row
      <4>3. outbox' = [c \in Cmd |-> outbox'[c]]
        BY <3>1 DEF MarkApplied, Shape
      <4> QED
        BY <4>1, <4>2, <4>3, ZenonT(40) DEF Shape
    <3> QED
      BY <1>3, <3>1, FailFacts DEF Answer, Shape
  <2> QED
    BY <1>3, <2>1, <2>2, <1>a, <1>b, <1>c, Frames DEF Shape, Alone
<1>4. ASSUME NEW s \in Slot, Lookup(s) PROVE Shape'
  <2>1. Alone(s) /\ Shaped(request'[s]) /\ (request'[s].at = "run" => request'[s].inst \in Inst)
        /\ request'[s].at \in {"free", "answer", "run"}
    BY <1>4, <1>b, <1>c, ServerMoves DEF Replied, Moved
  <2> QED
    BY <1>4, <2>1, <1>a, <1>b, Frames DEF Shape, Alone
<1>5. ASSUME NEW s \in Slot, Run(s) PROVE Shape'
  <2>1. Alone(s) /\ Shaped(request'[s]) /\ (request'[s].at = "save" => request'[s].inst \in Inst)
        /\ request'[s].at \in {"free", "answer", "save"}
    BY <1>5, <1>b, <1>c, ServerMoves DEF Replied, Moved
  <2> QED
    BY <1>5, <2>1, <1>a, <1>b, RunFacts, Frames DEF Shape, Alone
<1>6. ASSUME NEW s \in Slot, Save(s) PROVE Shape'
  <2>1. Alone(s) /\ Shaped(request'[s]) /\ request'[s].at \in {"free", "answer"}
    BY <1>6, <1>c, ServerMoves DEF Replied
  <2>2. DOMAIN memory' = Inst
    BY <1>6 DEF Save, Shape
  <2> QED
    BY <1>6, <2>1, <2>2, <1>a, <1>b, Frames DEF Shape, Alone
<1>7. ASSUME NEW i \in Inst, Restart(i) PROVE Shape'
  <2>1. DOMAIN memory' = Inst
    BY <1>7 DEF Restart, Shape
  <2> QED
    BY <1>7, <2>1, <1>a, <1>b, <1>c, RestartMoves, Frames DEF Shape
<1>8. CASE UNCHANGED vars
  BY <1>8 DEF vars, server, client, Shape, Shaped
<1> QED
  BY <1>1, <1>2, <1>3, <1>4, <1>5, <1>6, <1>7, <1>8 DEF Next, ClientStep

-----------------------------------------------------------------------------
(* A row that says applied tells the truth.                                *)

\* Whoever reports a success, the request, the records or the row, does so of a
\* command that took effect.
Reports(r) == r.at = "save" \/ (r.at = "answer" /\ r.ok)
AppliedInv ==
  \A c \in Cmd :
    /\ \A s \in Slot : request[s].cmd = c /\ Reports(request[s]) => Done(c)
    /\ c \in results => Done(c)
    /\ \A i \in Inst : c \in memory[i] => Done(c)
    /\ outbox[c].status = "applied" => Done(c)

LEMMA AppliedInit == Init => AppliedInv
BY DEF Init, AppliedInv, Reports, NoRequest

LEMMA AppliedStep == Shape /\ Shape' /\ AppliedInv /\ [Next]_vars => AppliedInv'
<1> SUFFICES ASSUME Shape, Shape', AppliedInv, [Next]_vars PROVE AppliedInv'
  OBVIOUS
<1>a. ~Reports(NoRequest)
  BY DEF Reports, NoRequest
<1>1. CASE ClientStep
  <2>1. \A s \in Slot : Still(s)
    BY <1>1, ClientMoves
  <2>2. \A c \in Cmd : outbox'[c].status = "applied" => outbox[c].status = "applied"
    BY <1>1, FailFacts DEF ClientStep, Shape, Quit, OpenList, GiveUp, Offline, Issue, client
  <2>3. \A c \in Cmd : Done(c)' <=> Done(c)
    BY <1>1, Frames DEF Done
  <2> QED
    BY <1>1, <1>a, <2>1, <2>2, <2>3, Frames DEF AppliedInv, Still, Reports
<1>2. ASSUME NEW t \in Task, Send(t) PROVE AppliedInv'
  <2>1. PICK s \in Slot : Alone(s) /\ request'[s].at \in {"lookup", "run"}
    BY <1>2, SendMoves
  <2>2. \A c \in Cmd : Done(c)' <=> Done(c)
    BY <1>2, Frames DEF Done
  <2> QED
    BY <1>2, <2>1, <2>2, Frames DEF AppliedInv, Alone, Reports
<1>3. ASSUME NEW s \in Slot, Answer(s) PROVE AppliedInv'
  <2>1. Alone(s) /\ request[s].at = "answer" /\ request'[s] = NoRequest
    BY <1>3, ServerMoves
  <2>2. \A c \in Cmd : Done(c)' <=> Done(c)
    BY <1>3, Frames DEF Done
  <2>3. \A c \in Cmd : outbox'[c].status = "applied" =>
          outbox[c].status = "applied" \/ (c = request[s].cmd /\ request[s].ok)
    <3>1. CASE MarkApplied(request[s].cmd) /\ request[s].ok
      BY <3>1 DEF MarkApplied, Shape
    <3> QED
      BY <1>3, <3>1, FailFacts DEF Answer, Shape
  <2> QED
    BY <1>3, <1>a, <2>1, <2>2, <2>3, Frames DEF AppliedInv, Alone, Reports
<1>4. ASSUME NEW s \in Slot, Lookup(s) PROVE AppliedInv'
  <2>1. Alone(s) /\ (Moved(s, "run") \/ Replied(s, TRUE))
    BY <1>4, ServerMoves
  <2>2. \A c \in Cmd : Done(c)' <=> Done(c)
    BY <1>4, Frames DEF Done
  <2>3. \A c \in Cmd : request'[s].cmd = c /\ Reports(request'[s]) => Done(c)
    <3>1. CASE request' = [request EXCEPT ![s] = [request[s] EXCEPT !.at = "run"]]
      <4>1. Moved(s, "run")
        BY <3>1, MoveFacts DEF Shape
      <4> QED
        BY <4>1 DEF Moved, Reports
    <3>2. CASE Known(request[s]) /\ request' = [request EXCEPT ![s] = Reply(request[s], TRUE)]
      <4>1. Replied(s, TRUE)
        BY <3>2, MoveFacts DEF Shape
      <4>2. request[s].cmd \in Cmd => Done(request[s].cmd)
        BY <1>4, <3>2 DEF Known, AppliedInv, Shape, Lookup
      <4> QED
        BY <4>1, <4>2, <1>a DEF Replied, Reports
    <3> QED
      BY <1>4, <3>1, <3>2 DEF Lookup
  <2> QED
    BY <1>4, <2>1, <2>2, <2>3, Frames DEF AppliedInv, Alone, Reports
<1>5. ASSUME NEW s \in Slot, Run(s) PROVE AppliedInv'
  <2>1. Alone(s)
    BY <1>5, ServerMoves
  <2>2. \A c \in Cmd : /\ Done(c) => Done(c)'
                       /\ request[s].cmd = c => Done(c)' \/ Replied(s, FALSE)
    BY <1>5, RunFacts
  <2>3. Replied(s, FALSE) \/ Replied(s, TRUE) \/ Moved(s, "save")
    BY <1>5, ServerMoves
  <2>4. \A c \in Cmd : request'[s].cmd = c /\ Reports(request'[s]) => Done(c)'
    BY <2>2, <2>3, <1>a DEF Replied, Moved, Reports
  <2> QED
    BY <1>5, <2>1, <2>2, <2>4, Frames DEF AppliedInv, Alone, Reports
<1>6. ASSUME NEW s \in Slot, Save(s) PROVE AppliedInv'
  <2>1. Alone(s) /\ request[s].at = "save" /\ Replied(s, TRUE)
    BY <1>6, ServerMoves
  <2>2. \A c \in Cmd : Done(c)' <=> Done(c)
    BY <1>6, Frames DEF Done
  <2>3. /\ results' \subseteq results \cup {request[s].cmd}
        /\ \A i \in Inst : memory'[i] \subseteq memory[i] \cup {request[s].cmd}
    BY <1>6 DEF Save, Shape
  <2>4. \A c \in Cmd : request[s].cmd = c => Done(c)
    BY <2>1 DEF AppliedInv, Reports
  <2> QED
    BY <1>6, <1>a, <2>1, <2>2, <2>3, <2>4, Frames DEF AppliedInv, Alone, Replied, Reports
<1>7. ASSUME NEW i \in Inst, Restart(i) PROVE AppliedInv'
  <2>1. \A s \in Slot : request'[s] = NoRequest \/ request'[s] = request[s]
    BY <1>7, RestartMoves
  <2>2. \A j \in Inst : memory'[j] \subseteq memory[j]
    BY <1>7 DEF Restart, Shape
  <2>3. \A c \in Cmd : Done(c)' <=> Done(c)
    BY <1>7, Frames DEF Done
  <2> QED
    BY <1>7, <1>a, <2>1, <2>2, <2>3, Frames DEF AppliedInv, Reports
<1>8. CASE UNCHANGED vars
  BY <1>8 DEF vars, server, client, AppliedInv, Done
<1> QED
  BY <1>1, <1>2, <1>3, <1>4, <1>5, <1>6, <1>7, <1>8 DEF Next, ClientStep

\* The outbox never reports as applied a command the server has not executed,
\* whatever is lost, repeated, overtaken or restarted.
THEOREM AppliedIsDone == Spec => []AppliedMeansDone
<1>1. Init => Shape /\ AppliedInv
  BY ShapeInit, AppliedInit
<1>2. Shape /\ AppliedInv /\ [Next]_vars => (Shape /\ AppliedInv)'
  BY ShapeStep, AppliedStep
<1>3. AppliedInv => AppliedMeansDone
  BY DEF AppliedInv, AppliedMeansDone
<1> QED
  BY <1>1, <1>2, <1>3, PTL DEF Spec

-----------------------------------------------------------------------------
(* A key is run once.                                                      *)

Excused(c) ==
  \/ Blamed("raced", c) \/ Blamed("unsaved", c)
  \/ Kind[c] = "push" /\ (Blamed("elsewhere", c) \/ Blamed("forgotten", c))

\* A request past the lookup of its key, and not yet past recording it.
Busy(r, c) == r.cmd = c /\ r.keyed /\ r.at \in {"run", "save"}

\* The record of a run, or the request that is about to make it.
Remembered(c) ==
  \/ \E s \in Slot : Busy(request[s], c) /\ request[s].at = "save"
  \/ IF Kind[c] = "push" THEN \E i \in Inst : c \in memory[i] ELSE c \in results

Once(c) ==
  /\ runs[c].keyed <= 1
  /\ runs[c].keyed = 1 => Remembered(c)
  /\ \A s \in Slot : Busy(request[s], c) /\ request[s].at = "run" => runs[c].keyed = 0
  /\ \A s, q \in Slot : Busy(request[s], c) /\ Busy(request[q], c) => s = q

KeyInv == \A c \in Cmd : Excused(c) \/ Once(c)

LEMMA ExcusedForEver == cause \subseteq cause' => \A c \in Cmd : Excused(c) => Excused(c)'
BY DEF Excused, Blamed

\* A step that runs nothing, starts no request past its lookup and loses neither
\* a record nor a request about to make one.
LEMMA KeyKept ==
  ASSUME NEW c \in Cmd, Once(c), runs' = runs,
         \A s \in Slot : Busy(request'[s], c) =>
           Busy(request[s], c) /\ request'[s].at = request[s].at,
         Remembered(c) => Remembered(c)'
  PROVE  Once(c)'
<1>1. \A s \in Slot : Busy(request[s], c)' <=> Busy(request'[s], c)
  BY DEF Busy
<1> QED
  BY <1>1 DEF Once

LEMMA KeyInit == Init => KeyInv
<1> SUFFICES ASSUME Init, NEW c \in Cmd PROVE Once(c)
  BY DEF KeyInv
<1>1. runs[c].keyed = 0
  BY DEF Init
<1>2. \A s \in Slot : ~Busy(request[s], c)
  BY DEF Init, Busy, NoRequest
<1> QED
  BY <1>1, <1>2 DEF Once

LEMMA KeyStep == Shape /\ Shape' /\ KeyInv /\ [Next]_vars => KeyInv'
<1> SUFFICES ASSUME Shape, Shape', KeyInv, [Next]_vars, NEW c \in Cmd, ~Excused(c)'
             PROVE  Once(c)'
  BY DEF KeyInv
<1>a. cause \subseteq cause' => Once(c)
  BY ExcusedForEver DEF KeyInv
<1>b. ~Busy(NoRequest, c)
  BY DEF Busy, NoRequest
<1>1. CASE ClientStep
  <2>1. \A s \in Slot : Still(s)
    BY <1>1, ClientMoves
  <2>2. \A s \in Slot : /\ Busy(request'[s], c) => Busy(request[s], c) /\ request'[s].at = request[s].at
                        /\ Busy(request[s], c) => Busy(request'[s], c) /\ request'[s].at = request[s].at
    BY <2>1, <1>b DEF Still, Busy
  <2>3. Remembered(c) => Remembered(c)'
    BY <1>1, <2>2, Frames DEF Remembered, Busy
  <2> QED
    BY <1>1, <1>a, <2>2, <2>3, Frames, KeyKept
<1>2. ASSUME NEW t \in Task, Send(t) PROVE Once(c)'
  <2>1. PICK s \in Slot : /\ Alone(s) /\ request[s] = NoRequest
                          /\ request'[s].at = IF request'[s].keyed THEN "lookup" ELSE "run"
    BY <1>2, SendMoves
  <2>2. \A q \in Slot : Busy(request'[q], c) => Busy(request[q], c) /\ request'[q].at = request[q].at
    BY <2>1 DEF Alone, Busy
  <2>3. Remembered(c) => Remembered(c)'
    BY <1>2, <2>1, <1>b, Frames DEF Remembered, Alone, Busy
  <2> QED
    BY <1>2, <1>a, <2>2, <2>3, Frames, KeyKept
<1>3. ASSUME NEW s \in Slot, Answer(s) PROVE Once(c)'
  <2>1. Alone(s) /\ request[s].at = "answer" /\ request'[s] = NoRequest
    BY <1>3, ServerMoves
  <2>2. \A q \in Slot : Busy(request'[q], c) => Busy(request[q], c) /\ request'[q].at = request[q].at
    BY <2>1, <1>b DEF Alone
  <2>3. Remembered(c) => Remembered(c)'
    BY <1>3, <2>1, Frames DEF Remembered, Alone, Busy
  <2> QED
    BY <1>3, <1>a, <2>2, <2>3, Frames, KeyKept
<1>4. ASSUME NEW s \in Slot, Lookup(s) PROVE Once(c)'
  <2> DEFINE r == request[s]
  <2>1. Alone(s) /\ r.at = "lookup" /\ (Moved(s, "run") \/ Replied(s, TRUE))
    BY <1>4, ServerMoves
  <2>2. Once(c) /\ UNCHANGED <<results, memory, runs>>
    BY <1>4, <1>a, Frames
  <2>3. Remembered(c) => Remembered(c)'
    BY <2>1, <2>2 DEF Remembered, Alone, Busy
  <2>4. CASE ~Busy(request'[s], c)
    <3>1. \A q \in Slot : Busy(request'[q], c) => Busy(request[q], c) /\ request'[q].at = request[q].at
      BY <2>1, <2>4 DEF Alone
    <3> QED
      BY <2>2, <2>3, <3>1, KeyKept
  <2>5. CASE Busy(request'[s], c)
    <3>1. Moved(s, "run") /\ r.cmd = c /\ r.keyed
      BY <2>1, <2>5, <1>b DEF Moved, Replied, Busy
    <3>2. /\ ~Known(r)
          /\ cause' = cause
               \cup (IF Racing(s) # {} THEN {<<"raced", r.cmd>>} ELSE {})
               \cup (IF \E i \in Inst \ {r.inst} : r.cmd \in memory[i] THEN {<<"elsewhere", r.cmd>>}
                     ELSE {})
      <4>1. CASE request' = [request EXCEPT ![s] = Reply(r, TRUE)]
        <5>1. Replied(s, TRUE)
          BY <4>1, MoveFacts DEF Shape
        <5> QED
          BY <5>1, <2>5, <1>b DEF Replied, Busy
      <4> QED
        BY <1>4, <4>1 DEF Lookup
    <3>3. Racing(s) = {}
      BY <3>1, <3>2 DEF Excused, Blamed
    <3>4. \A q \in Slot \ {s} : ~Busy(request[q], c)
      BY <3>1, <3>3 DEF Racing, Busy
    <3>5. ~Remembered(c)
      <4>1. \A q \in Slot : ~(Busy(request[q], c) /\ request[q].at = "save")
        BY <3>4, <2>1
      <4>2. CASE Kind[c] = "push"
        <5>1. \A i \in Inst \ {r.inst} : c \notin memory[i]
          BY <3>1, <3>2, <4>2 DEF Excused, Blamed
        <5> QED
          BY <3>1, <3>2, <4>1, <4>2, <5>1 DEF Remembered, Known
      <4>3. CASE Kind[c] # "push"
        BY <3>1, <3>2, <4>1, <4>3 DEF Remembered, Known
      <4> QED
        BY <4>2, <4>3
    <3>6. runs[c].keyed = 0
      <4>1. runs[c].keyed \in Nat
        BY DEF Shape
      <4>2. runs[c].keyed =< 1 /\ runs[c].keyed # 1
        BY <2>2, <3>5 DEF Once
      <4> QED
        BY <4>1, <4>2
    <3>7. \A q \in Slot : Busy(request'[q], c) => q = s
      BY <2>1, <3>4 DEF Alone
    <3> QED
      BY <2>2, <3>6, <3>7 DEF Once, Busy
  <2> QED
    BY <2>4, <2>5
<1>5. ASSUME NEW s \in Slot, Run(s) PROVE Once(c)'
  <2> DEFINE r == request[s]
  <2>1. Alone(s) /\ r.at = "run" /\ UNCHANGED <<results, memory>> /\ Once(c)
    BY <1>5, <1>a, ServerMoves, Frames
  <2>2. CASE Busy(r, c) /\ Moved(s, "save")
    <3>1. runs[c].keyed = 0 /\ runs'[c].keyed \in {0, 1}
      <4>1. runs[c].keyed = 0
        BY <2>1, <2>2 DEF Once
      <4>2. runs'[c].keyed = runs[c].keyed \/ runs'[c].keyed = runs[c].keyed + 1
        BY <1>5, RunFacts
      <4> QED
        BY <4>1, <4>2
    <3>2. Busy(request'[s], c) /\ request'[s].at = "save"
      BY <2>2 DEF Moved, Busy
    <3>3. \A q \in Slot : Busy(request'[q], c) => q = s
      BY <2>1, <2>2 DEF Alone, Once
    <3>4. Remembered(c)'
      BY <3>2 DEF Remembered, Busy
    <3> QED
      BY <3>1, <3>2, <3>3, <3>4 DEF Once, Busy
  <2>3. CASE ~(Busy(r, c) /\ Moved(s, "save"))
    <3>1. runs'[c].keyed = runs[c].keyed
      BY <1>5, <2>1, <2>3, RunFacts DEF Busy
    <3>2. Moved(s, "save") \/ request'[s] = NoRequest \/ request'[s].at = "answer"
      BY <1>5, ServerMoves DEF Replied
    <3>3. ~Busy(request'[s], c)
      BY <2>1, <2>3, <3>2, <1>b DEF Moved, Busy
    <3>4. Remembered(c) => Remembered(c)'
      BY <2>1, <3>2 DEF Remembered, Alone, Busy
    <3>5. \A q \in Slot : Busy(request'[q], c) => q # s /\ request'[q] = request[q]
      BY <2>1, <3>3 DEF Alone
    <3> QED
      BY <2>1, <3>1, <3>4, <3>5 DEF Once, Busy
  <2> QED
    BY <2>2, <2>3
<1>6. ASSUME NEW s \in Slot, Save(s) PROVE Once(c)'
  <2>1. Alone(s) /\ request[s].at = "save" /\ Replied(s, TRUE) /\ runs' = runs /\ Once(c)
    BY <1>6, <1>a, ServerMoves, Frames
  <2>2. \A q \in Slot : Busy(request'[q], c) => Busy(request[q], c) /\ request'[q].at = request[q].at
    BY <2>1, <1>b DEF Alone, Replied, Busy
  <2>3. /\ results \subseteq results' /\ \A i \in Inst : memory[i] \subseteq memory'[i]
        /\ IF Kind[request[s].cmd] = "push" THEN request[s].cmd \in memory'[request[s].inst]
                                            ELSE request[s].cmd \in results'
    BY <1>6, <2>1 DEF Save, Shape
  <2>4. Remembered(c) => Remembered(c)'
    <3>1. request[s].inst \in Inst
      BY <2>1 DEF Shape
    <3>2. CASE Busy(request[s], c)
      BY <2>3, <3>1, <3>2 DEF Remembered, Busy
    <3>3. CASE ~Busy(request[s], c)
      BY <2>1, <2>3, <3>3 DEF Remembered, Alone, Busy
    <3> QED
      BY <3>2, <3>3
  <2> QED
    BY <2>1, <2>2, <2>4, KeyKept
<1>7. ASSUME NEW i \in Inst, Restart(i) PROVE Once(c)'
  <2>1. /\ UNCHANGED <<results, runs>> /\ Once(c)
        /\ \A s \in Slot : IF request[s].inst = i THEN request'[s] = NoRequest
                           ELSE request'[s] = request[s]
    BY <1>7, <1>a, RestartMoves, Frames
  <2>2. /\ memory' = [memory EXCEPT ![i] = {}]
        /\ \A s \in Slot : request[s].inst = i /\ request[s].at = "save"
             => <<"unsaved", request[s].cmd>> \in cause'
        /\ \A d \in memory[i] : <<"forgotten", d>> \in cause'
    BY <1>7 DEF Restart
  <2>3. \A q \in Slot : Busy(request'[q], c) => Busy(request[q], c) /\ request'[q].at = request[q].at
    BY <2>1, <1>b
  <2>4. Remembered(c) => Remembered(c)'
    <3>1. ASSUME NEW s \in Slot, Busy(request[s], c), request[s].at = "save" PROVE Remembered(c)'
      <4>1. request[s].inst # i
        BY <2>2, <3>1 DEF Excused, Blamed, Busy
      <4> QED
        BY <2>1, <3>1, <4>1 DEF Remembered, Busy
    <3>2. ASSUME NEW j \in Inst, c \in memory[j], Kind[c] = "push" PROVE Remembered(c)'
      <4>1. j # i
        BY <2>2, <3>2 DEF Excused, Blamed
      <4>2. c \in memory'[j]
        BY <2>2, <3>2, <4>1 DEF Shape
      <4> QED
        BY <3>2, <4>2 DEF Remembered
    <3>3. ASSUME c \in results, Kind[c] # "push" PROVE Remembered(c)'
      BY <2>1, <3>3 DEF Remembered
    <3> QED
      BY <3>1, <3>2, <3>3 DEF Remembered
  <2> QED
    BY <2>1, <2>3, <2>4, KeyKept
<1>8. CASE UNCHANGED vars
  <2>1. UNCHANGED <<request, results, memory, runs, cause>>
    BY <1>8 DEF vars, server
  <2> QED
    BY <2>1, <1>a, KeyKept DEF Remembered, Busy
<1> QED
  BY <1>1, <1>2, <1>3, <1>4, <1>5, <1>6, <1>7, <1>8 DEF Next, ClientStep

\* A command that carries its key is executed once, however often it is sent:
\* the windows in which it is executed again are the ones listed and no others,
\* for any number of instances, requests, attempts and restarts.
THEOREM KeysRunOnce == Spec => []KeyRunsOnce
<1>1. Init => Shape /\ KeyInv
  BY ShapeInit, KeyInit
<1>2. Shape /\ KeyInv /\ [Next]_vars => (Shape /\ KeyInv)'
  BY ShapeStep, KeyStep
<1>3. Shape /\ KeyInv => KeyRunsOnce
  BY DEF Shape, KeyInv, Once, KeyRunsOnce, Excused
<1> QED
  BY <1>1, <1>2, <1>3, PTL DEF Spec
-----------------------------------------------------------------------------
(* The rows of a drain, in the order of the queue.                         *)

LEMMA LeastNat ==
  ASSUME NEW T \in SUBSET Nat, T # {}
  PROVE  \E m \in T : \A n \in T : m <= n
<1> DEFINE R == OpToRel(<, Nat)
<1>1. \A m, n \in Nat : n < m => <<n, m>> \in R
  BY DEF OpToRel
<1>2. IsWellFoundedOn(R, Nat)
  BY NatLessThanWellFounded
<1> HIDE DEF R
<1>3. PICK m \in T : \A n \in T : ~(<<n, m>> \in R)
  BY <1>2, WFMin
<1>4. ASSUME NEW n \in T PROVE m <= n
  <2>1. m \in Nat /\ n \in Nat /\ ~(<<n, m>> \in R)
    BY <1>3
  <2>2. ~(n < m)
    BY <1>1, <2>1
  <2> QED
    BY <2>1, <2>2
<1> QED
  BY <1>4

\* What the first n rows of the queue leave, as InOrder counts them.
OneMore(f, S, n) ==
  CASE n = 0 -> <<>>
    [] n > 0 /\ queue[n] \in S -> Append(f[n - 1], queue[n])
    [] OTHER -> f[n - 1]
Takes(f, S, last) == f = [n \in 0 .. last |-> OneMore(f, S, n)]

LEMMA TakenExists ==
  ASSUME NEW S, NEW last \in Nat
  PROVE  \E f : Takes(f, S, last)
<1> DEFINE T == {n \in Nat : ~\E f : Takes(f, S, n)}
<1>1. ASSUME NEW m \in T, \A n \in T : m <= n PROVE FALSE
  <2>1. CASE m = 0
    <3> DEFINE f == [n \in 0 .. 0 |-> <<>>]
    <3>1. Takes(f, S, 0)
      BY DEF Takes, OneMore
    <3> QED
      BY <2>1, <3>1
  <2>2. CASE m # 0
    <3>1. m \in Nat /\ m - 1 \in Nat /\ ~(m <= m - 1)
      BY <2>2
    <3>2. m - 1 \notin T
      BY <1>1, <3>1
    <3>3. PICK f : Takes(f, S, m - 1)
      BY <3>1, <3>2
    <3> DEFINE g == [n \in 0 .. m |-> OneMore(f, S, n)]
    <3>4. \A n \in 0 .. m - 1 : g[n] = f[n]
      BY <3>1, <3>3 DEF Takes
    <3>5. ASSUME NEW n \in 0 .. m PROVE OneMore(f, S, n) = OneMore(g, S, n)
      <4>1. n > 0 => n - 1 \in 0 .. m - 1
        BY <3>1
      <4>2. n > 0 => g[n - 1] = f[n - 1]
        BY <3>4, <4>1
      <4> HIDE DEF g
      <4> QED
        BY <4>2 DEF OneMore
    <3>6. Takes(g, S, m)
      BY <3>5 DEF Takes
    <3> QED
      BY <3>6
  <2> QED
    BY <2>1, <2>2
<1> HIDE DEF T
<1>2. T = {}
  <2>1. T \subseteq Nat
    BY DEF T
  <2> QED
    BY <1>1, <2>1, LeastNat
<1> QED
  BY <1>2 DEF T

LEMMA InOrderTakes ==
  ASSUME NEW S, Len(queue) \in Nat
  PROVE  \E f : Takes(f, S, Len(queue)) /\ InOrder(S) = f[Len(queue)]
<1> DEFINE P(f) == f = [n \in 0 .. Len(queue) |->
         CASE n = 0 -> <<>>
           [] n > 0 /\ queue[n] \in S -> Append(f[n - 1], queue[n])
           [] OTHER -> f[n - 1]]
           t == CHOOSE f : P(f)
<1>1. \E f : P(f)
  BY TakenExists DEF Takes, OneMore
<1> HIDE DEF P
<1>2. P(t)
  BY <1>1
<1>3. InOrder(S) = t[Len(queue)]
  BY DEF InOrder, P
<1>4. Takes(t, S, Len(queue))
  BY <1>2 DEF Takes, OneMore, P
<1> QED
  BY <1>3, <1>4

Among(c, q) == \E i \in DOMAIN q : q[i] = c
Distinct(q) == \A i, j \in DOMAIN q : q[i] = q[j] => i = j
Ahead(c, e, q) == \E i, j \in DOMAIN q : i < j /\ q[i] = c /\ q[j] = e

\* A list q has those of the first n rows that are in S, in their order.
Picked(q, S, n) ==
  /\ q \in Seq(Cmd)
  /\ \A k \in DOMAIN q : \E i \in 1 .. n : q[k] = queue[i] /\ queue[i] \in S
  /\ \A k, l \in DOMAIN q : k < l => \E i, j \in 1 .. n : i < j /\ q[k] = queue[i] /\ q[l] = queue[j]
  /\ \A i \in 1 .. n : queue[i] \in S => Among(queue[i], q)

LEMMA AppendFacts ==
  ASSUME NEW q \in Seq(Cmd), NEW c \in Cmd
  PROVE  LET r == Append(q, c) IN
           /\ r \in Seq(Cmd) /\ Len(q) \in Nat /\ DOMAIN q = 1 .. Len(q)
           /\ DOMAIN r = 1 .. Len(q) + 1
           /\ \A k \in 1 .. Len(q) + 1 : r[k] = IF k = Len(q) + 1 THEN c ELSE q[k]
OBVIOUS

LEMMA PickedMore ==
  ASSUME queue \in Seq(Cmd), NEW S, NEW n \in 1 .. Len(queue), NEW q, Picked(q, S, n - 1)
  PROVE  Picked(IF queue[n] \in S THEN Append(q, queue[n]) ELSE q, S, n)
<1>1. /\ n \in Nat /\ n - 1 \in Nat /\ n \in 1 .. n /\ queue[n] \in Cmd
      /\ \A i \in 1 .. n - 1 : i \in 1 .. n /\ i < n
      /\ \A i \in 1 .. n : i = n \/ i \in 1 .. n - 1
  OBVIOUS
<1>2. CASE queue[n] \notin S
  BY <1>1, <1>2 DEF Picked
<1>3. CASE queue[n] \in S
  <2> DEFINE r == Append(q, queue[n])
  <2>1. /\ r \in Seq(Cmd) /\ Len(q) \in Nat /\ DOMAIN q = 1 .. Len(q)
        /\ DOMAIN r = 1 .. Len(q) + 1
        /\ \A k \in 1 .. Len(q) + 1 : r[k] = IF k = Len(q) + 1 THEN queue[n] ELSE q[k]
    BY <1>1, AppendFacts DEF Picked
  <2> HIDE DEF r
  <2>2. /\ \A k \in DOMAIN r : (k \in DOMAIN q /\ r[k] = q[k]) \/ (r[k] = queue[n] /\ \A l \in DOMAIN r : ~(k < l))
        /\ \A k \in DOMAIN q : k \in DOMAIN r /\ r[k] = q[k]
        /\ Among(queue[n], r)
    <3>1. \A k \in 1 .. Len(q) + 1 : k \in 1 .. Len(q) \/ k = Len(q) + 1
      BY <2>1
    <3>2. Len(q) + 1 \in 1 .. Len(q) + 1 /\ \A k \in 1 .. Len(q) : k \in 1 .. Len(q) + 1 /\ k # Len(q) + 1
      BY <2>1
    <3>3. \A k \in 1 .. Len(q) + 1 : ~(Len(q) + 1 < k)
      BY <2>1
    <3> QED
      BY <2>1, <3>1, <3>2, <3>3 DEF Among
  <2>3. \A k \in DOMAIN r : \E i \in 1 .. n : r[k] = queue[i] /\ queue[i] \in S
    BY <1>1, <1>3, <2>2 DEF Picked
  <2>4. ASSUME NEW k \in DOMAIN r, NEW l \in DOMAIN r, k < l
        PROVE  \E i, j \in 1 .. n : i < j /\ r[k] = queue[i] /\ r[l] = queue[j]
    <3>1. k \in DOMAIN q /\ r[k] = q[k]
      BY <2>2, <2>4
    <3>2. CASE l \in DOMAIN q /\ r[l] = q[l]
      BY <1>1, <2>4, <3>1, <3>2 DEF Picked
    <3>3. CASE r[l] = queue[n]
      <4>1. PICK i \in 1 .. n - 1 : q[k] = queue[i]
        BY <3>1 DEF Picked
      <4> QED
        BY <1>1, <3>1, <3>3, <4>1
    <3> QED
      BY <2>2, <3>2, <3>3
  <2>5. \A i \in 1 .. n : queue[i] \in S => Among(queue[i], r)
    <3>1. \A c : Among(c, q) => Among(c, r)
      BY <2>2 DEF Among
    <3> QED
      BY <1>1, <2>2, <3>1 DEF Picked
  <2>6. Picked(r, S, n)
    BY <2>1, <2>3, <2>4, <2>5 DEF Picked
  <2> QED
    BY <1>3, <2>6 DEF r
<1> QED
  BY <1>2, <1>3

LEMMA InOrderFacts ==
  ASSUME queue \in Seq(Cmd), NEW S
  PROVE  Picked(InOrder(S), S, Len(queue))
<1>1. Len(queue) \in Nat
  OBVIOUS
<1>2. PICK f : Takes(f, S, Len(queue)) /\ InOrder(S) = f[Len(queue)]
  BY <1>1, InOrderTakes
<1>3. \A n \in 0 .. Len(queue) : f[n] = OneMore(f, S, n)
  BY <1>2 DEF Takes
<1> DEFINE T == {n \in 0 .. Len(queue) : ~Picked(f[n], S, n)}
<1>4. ASSUME NEW m \in T, \A n \in T : m <= n PROVE FALSE
  <2>1. CASE m = 0
    <3>1. f[m] = <<>>
      BY <1>1, <1>3, <2>1 DEF OneMore
    <3>2. Picked(<<>>, S, 0)
      BY DEF Picked
    <3> QED
      BY <2>1, <3>1, <3>2
  <2>2. CASE m # 0
    <3>1. m - 1 \in 0 .. Len(queue) /\ ~(m <= m - 1) /\ m \in 1 .. Len(queue) /\ m > 0
      BY <1>1, <2>2
    <3>2. Picked(f[m - 1], S, m - 1)
      BY <1>4, <3>1
    <3>3. f[m] = IF queue[m] \in S THEN Append(f[m - 1], queue[m]) ELSE f[m - 1]
      BY <1>3, <2>2, <3>1 DEF OneMore
    <3>4. Picked(f[m], S, m)
      BY <3>1, <3>2, <3>3, PickedMore
    <3> QED
      BY <3>4
  <2> QED
    BY <2>1, <2>2
<1>5. T \subseteq Nat
  OBVIOUS
<1>6. Len(queue) \in 0 .. Len(queue)
  BY <1>1
<1> HIDE DEF T
<1>7. T = {}
  BY <1>4, <1>5, LeastNat
<1> QED
  BY <1>2, <1>6, <1>7 DEF T

LEMMA InOrderHas ==
  ASSUME queue \in Seq(Cmd), Distinct(queue), NEW S
  PROVE  /\ InOrder(S) \in Seq(Cmd) /\ Distinct(InOrder(S))
         /\ \A c : Among(c, InOrder(S)) <=> Among(c, queue) /\ c \in S
         /\ \A c, e \in S : Ahead(c, e, queue) => Ahead(c, e, InOrder(S))
<1> DEFINE q == InOrder(S)
<1>1. Picked(q, S, Len(queue)) /\ Len(queue) \in Nat /\ DOMAIN queue = 1 .. Len(queue)
      /\ DOMAIN q = 1 .. Len(q) /\ Len(q) \in Nat
  BY InOrderFacts DEF Picked
<1> HIDE DEF q
<1>2. ASSUME NEW k \in DOMAIN q, NEW l \in DOMAIN q, q[k] = q[l] PROVE k = l
  <2>1. k < l \/ l < k \/ k = l
    BY <1>1
  <2>2. ASSUME NEW x \in DOMAIN q, NEW y \in DOMAIN q, x < y PROVE q[x] # q[y]
    <3>1. PICK i \in 1 .. Len(queue), j \in 1 .. Len(queue) : i < j /\ q[x] = queue[i] /\ q[y] = queue[j]
      BY <1>1, <2>2 DEF Picked
    <3>2. i # j
      BY <3>1
    <3> QED
      BY <1>1, <3>1, <3>2 DEF Distinct
  <2> QED
    BY <1>2, <2>1, <2>2
<1>3. \A c : Among(c, q) <=> Among(c, queue) /\ c \in S
  BY <1>1, ZenonT(40) DEF Among, Picked
<1>4. ASSUME NEW c \in S, NEW e \in S, Ahead(c, e, queue) PROVE Ahead(c, e, q)
  <2>1. PICK i \in 1 .. Len(queue), j \in 1 .. Len(queue) : i < j /\ queue[i] = c /\ queue[j] = e
    BY <1>1, <1>4 DEF Ahead
  <2>2. Among(c, q) /\ Among(e, q)
    BY <1>1, <1>3, <2>1 DEF Among
  <2>3. PICK k \in DOMAIN q, l \in DOMAIN q : q[k] = c /\ q[l] = e
    BY <2>2 DEF Among
  <2>4. i # j /\ ~(j < i) /\ (k < l \/ l < k \/ k = l)
    BY <2>1, <1>1
  <2>5. c # e
    BY <1>1, <2>1, <2>4 DEF Distinct
  <2>6. CASE l < k
    <3>1. PICK x \in 1 .. Len(queue), y \in 1 .. Len(queue) : x < y /\ q[l] = queue[x] /\ q[k] = queue[y]
      BY <1>1, <2>6 DEF Picked
    <3>2. x = j /\ y = i
      BY <1>1, <2>1, <2>3, <3>1 DEF Distinct
    <3> QED
      BY <2>4, <3>1, <3>2
  <2> QED
    BY <2>3, <2>4, <2>5, <2>6 DEF Ahead
<1> QED
  BY <1>1, <1>2, <1>3, <1>4 DEF q, Distinct, Picked

-----------------------------------------------------------------------------
(* The running calls, and what they still have to send.                    *)

Call == [at : {"idle", "send", "wait"}, cmd : Cmd \cup {None}, keyed : BOOLEAN,
         tries : 0 .. MaxTries, todo : Seq(Cmd)]

Holds(k, c) == k.cmd = c \/ Among(c, k.todo)

\* A direct call and a push have one command, a drain its row and the rows it
\* has listed, each once.
Sending(k) ==
  /\ k.at = "idle" => k = NoTask
  /\ k.at # "idle" => k.cmd \in Cmd
  /\ k.at = "send" => k.tries < MaxTries
  /\ k.at # "idle" /\ Kind[k.cmd] = "push" => k.keyed
  /\ ~k.keyed \/ Kind[k.cmd] = "push" => k.todo = <<>>
  /\ Distinct(k.todo) /\ ~Among(k.cmd, k.todo)
  /\ \A c : Among(c, k.todo) => c \in Cmd /\ Kind[c] # "push"

TaskOK == task \in [Task -> Call] /\ \A t \in Task : Sending(task[t])

LEMMA NoTaskFacts ==
  /\ NoTask \in Call /\ Sending(NoTask) /\ NoTask.at = "idle" /\ ~NoTask.keyed
  /\ NoTask.cmd = None /\ NoTask.todo = <<>>
  /\ \A c \in Cmd : ~Holds(NoTask, c)
  /\ \A c : ~Among(c, <<>>)
<1>1. \A c : ~Among(c, <<>>)
  BY DEF Among
<1>2. NoTask \in Call
  BY OutboxAssumption DEF NoTask, Call
<1>3. Distinct(<<>>)
  BY DEF Distinct
<1>4. \A c \in Cmd : c # None
  BY OutboxAssumption
<1> QED
  BY <1>1, <1>2, <1>3, <1>4 DEF NoTask, Sending, Holds

LEMMA HeadTail ==
  ASSUME NEW q \in Seq(Cmd), q # <<>>, Distinct(q)
  PROVE  /\ Head(q) \in Cmd /\ Tail(q) \in Seq(Cmd)
         /\ \A c : Among(c, q) <=> c = Head(q) \/ Among(c, Tail(q))
         /\ Distinct(Tail(q)) /\ ~Among(Head(q), Tail(q))
         /\ \A c, e : Ahead(c, e, q) =>
              e # Head(q) /\ ((c = Head(q) /\ Among(e, Tail(q))) \/ Ahead(c, e, Tail(q)))
<1>1. /\ Len(q) \in Nat \ {0} /\ DOMAIN q = 1 .. Len(q) /\ Head(q) = q[1] /\ 1 \in DOMAIN q
      /\ Tail(q) \in Seq(Cmd) /\ DOMAIN Tail(q) = 1 .. Len(q) - 1
      /\ \A i \in 1 .. Len(q) - 1 : Tail(q)[i] = q[i + 1] /\ i + 1 \in 1 .. Len(q) /\ i + 1 # 1
      /\ \A i \in 1 .. Len(q) : i = 1 \/ (i - 1 \in 1 .. Len(q) - 1 /\ (i - 1) + 1 = i)
  OBVIOUS
<1> DEFINE r == Tail(q)
<1> HIDE DEF r
<1>2. /\ DOMAIN r = 1 .. Len(q) - 1
      /\ \A i \in DOMAIN r : i + 1 \in DOMAIN q /\ i + 1 # 1 /\ r[i] = q[i + 1]
      /\ \A i \in DOMAIN q : i = 1 \/ (i - 1 \in DOMAIN r /\ r[i - 1] = q[i])
  BY <1>1 DEF r
<1>3. \A c : Among(c, q) <=> c = Head(q) \/ Among(c, r)
  <2>1. \A c : Among(c, q) => c = Head(q) \/ Among(c, r)
    BY <1>1, <1>2 DEF Among
  <2>2. Among(Head(q), q)
    BY <1>1 DEF Among
  <2>3. \A c : Among(c, r) => Among(c, q)
    BY <1>2 DEF Among
  <2> QED
    BY <2>1, <2>2, <2>3
<1>4. Distinct(r)
  <2>1. ASSUME NEW i \in DOMAIN r, NEW j \in DOMAIN r, r[i] = r[j] PROVE i = j
    <3>1. i + 1 = j + 1
      BY <1>2, <2>1 DEF Distinct
    <3> QED
      BY <3>1, <1>1, <1>2
  <2> QED
    BY <2>1 DEF Distinct
<1>5. ~Among(Head(q), r)
  BY <1>1, <1>2 DEF Among, Distinct
<1>6. ASSUME NEW c, NEW e, Ahead(c, e, q)
      PROVE  e # Head(q) /\ ((c = Head(q) /\ Among(e, r)) \/ Ahead(c, e, r))
  <2>1. PICK i \in DOMAIN q, j \in DOMAIN q : i < j /\ q[i] = c /\ q[j] = e
    BY <1>6 DEF Ahead
  <2>2. j # 1 /\ (i = 1 \/ (i # 1 /\ i - 1 < j - 1))
    BY <1>1, <2>1
  <2>3. e # Head(q) /\ j - 1 \in DOMAIN r /\ r[j - 1] = e
    BY <1>1, <1>2, <2>1, <2>2 DEF Distinct
  <2>4. CASE i = 1
    BY <1>1, <2>1, <2>3, <2>4 DEF Among
  <2>5. CASE i # 1
    <3>1. i - 1 \in DOMAIN r /\ r[i - 1] = c
      BY <1>2, <2>1, <2>5
    <3>2. Ahead(c, e, r)
      BY <2>2, <2>3, <2>5, <3>1 DEF Ahead
    <3> QED
      BY <2>3, <3>2
  <2> QED
    BY <2>4, <2>5
<1> QED
  BY <1>1, <1>3, <1>4, <1>5, <1>6 DEF r

\* A drain that goes on to its next row holds what was left of its list.
LEMMA TurnFacts ==
  ASSUME NEW q \in Seq(Cmd), Distinct(q), \A c : Among(c, q) => Kind[c] # "push"
  PROVE  LET k == Turn(q) IN
           /\ k \in Call /\ Sending(k) /\ k.at # "wait" /\ (k.at # "idle" => k.keyed)
           /\ k.cmd # None => k.keyed
           /\ \A c \in Cmd : Holds(k, c) <=> Among(c, q)
           /\ \A c, e \in Cmd : Ahead(c, e, q) =>
                k.cmd # e /\ ((k.cmd = c /\ Among(e, k.todo)) \/ Ahead(c, e, k.todo))
<1>1. CASE q = <<>>
  <2>1. Turn(q) = NoTask
    BY <1>1 DEF Turn
  <2>2. \A c, e : ~Ahead(c, e, <<>>)
    BY DEF Ahead
  <2> QED
    BY <1>1, <2>1, <2>2, NoTaskFacts
<1>2. CASE q # <<>>
  <2> DEFINE k == Turn(q)
             h == Head(q)
             r == Tail(q)
  <2>1. /\ h \in Cmd /\ r \in Seq(Cmd)
        /\ \A c : Among(c, q) <=> c = h \/ Among(c, r)
        /\ Distinct(r) /\ ~Among(h, r)
        /\ \A c, e : Ahead(c, e, q) => e # h /\ ((c = h /\ Among(e, r)) \/ Ahead(c, e, r))
    BY <1>2, HeadTail
  <2>2. k = [at |-> "send", cmd |-> h, keyed |-> TRUE, tries |-> 0, todo |-> r]
    BY <1>2 DEF Turn, NoTask
  <2> HIDE DEF h, r
  <2>3. /\ k \in Call /\ k.at = "send" /\ k.cmd = h /\ k.keyed /\ k.tries = 0 /\ k.todo = r
    BY <2>1, <2>2, OutboxAssumption DEF Call
  <2>4. \A c : Among(c, r) => c \in Cmd /\ Kind[c] # "push"
    <3>1. \A c : Among(c, r) => c \in Cmd
      BY <2>1 DEF Among
    <3> QED
      BY <2>1, <3>1
  <2>5. 0 < MaxTries /\ Kind[h] # "push"
    BY <2>1, OutboxAssumption
  <2> HIDE DEF k
  <2>6. Sending(k)
    BY <2>1, <2>3, <2>4, <2>5 DEF Sending
  <2> QED
    BY <2>1, <2>3, <2>6 DEF k, Holds
<1> QED
  BY <1>1, <1>2

\* A request is of a command; who waits for it is a call that has sent it, and
\* waits for no other.
Waited(s) ==
  LET r == request[s] IN
  /\ r.at = "free" => r = NoRequest
  /\ r.at # "free" => r.cmd \in Cmd
  /\ r.for \in Task \cup {None}
  /\ r.for # None =>
       /\ task[r.for].at = "wait" /\ task[r.for].cmd = r.cmd /\ task[r.for].keyed = r.keyed
       /\ \A q \in Slot : request[q].for = r.for => q = s

WaitInv == TaskOK /\ \A s \in Slot : Waited(s)

\* What a step does to the calls and the outbox.
Rested  == UNCHANGED <<task, outbox, queue, issued>>
Quitted == task' = [t \in Task |-> NoTask] /\ UNCHANGED <<outbox, queue, issued>>
Retried(t) ==
  /\ UNCHANGED <<outbox, queue, issued>>
  /\ task' \in [Task -> Call] /\ \A u \in Task \ {t} : task'[u] = task[u]
  /\ task[t].at # "idle" /\ task'[t].at # "idle"
  /\ task'[t].at = "send" => task'[t].tries < MaxTries
  /\ task'[t].cmd = task[t].cmd /\ task'[t].keyed = task[t].keyed /\ task'[t].todo = task[t].todo
Drained(t) ==
  /\ UNCHANGED <<outbox, queue, issued>> /\ Drain(t)
  /\ task[t] = NoTask \/ (task[t].at # "idle" /\ ~task[t].keyed)
\* The command of t has come to its end, and what its row says of it.
Ended(t) ==
  LET c == task[t].cmd IN
  /\ task[t].at # "idle" /\ issued' = issued
  /\ task' = [task EXCEPT ![t] = Turn(task[t].todo)]
  /\ \/ Kind[c] = "push" /\ UNCHANGED <<outbox, queue>>
     \/ /\ Kind[c] # "push" /\ ~task[t].keyed
        /\ outbox' = [outbox EXCEPT ![c] = [outbox[c] EXCEPT !.status = "pending"]]
        /\ queue' = Append(queue, c)
     \/ /\ Kind[c] # "push" /\ task[t].keyed /\ queue' = queue
        /\ \E row : /\ outbox' = [outbox EXCEPT ![c] = row]
                    /\ \/ row = [outbox[c] EXCEPT !.status = "applied", !.error = "none"]
                       \/ \E error \in {"network", "refused"} : row = Failed(outbox[c], error)

LEMMA FailEnds ==
  ASSUME TaskOK, NEW t \in Task, task[t].at # "idle", NEW error \in {"network", "refused"},
         Fail(t, error), issued' = issued, outbox \in [Cmd -> Row]
  PROVE  Ended(t)
<1> DEFINE k == task[t]
           c == task[t].cmd
<1>1. k \in Call /\ Sending(k) /\ c \in Cmd
  BY DEF TaskOK, Sending
<1>2. ~k.keyed \/ Kind[c] = "push" => Turn(k.todo) = NoTask
  BY <1>1 DEF Sending, Turn
<1>3. CASE Kind[c] = "push" /\ task' = [task EXCEPT ![t] = NoTask] /\ UNCHANGED <<outbox, queue>>
  BY <1>1, <1>2, <1>3 DEF Ended
<1>4. CASE /\ Kind[c] # "push" /\ ~task[t].keyed
           /\ outbox' = [outbox EXCEPT ![c].status = "pending"]
           /\ queue' = Append(queue, c)
           /\ task' = [task EXCEPT ![t] = NoTask]
  BY <1>1, <1>2, <1>4 DEF Ended
<1>5. CASE /\ Kind[c] # "push" /\ task[t].keyed /\ MarkFailed(c, error)
           /\ task' = [task EXCEPT ![t] = Turn(@.todo)] /\ UNCHANGED queue
  <2>1. outbox' = [outbox EXCEPT ![c] = Failed(outbox[c], error)]
    BY <1>5 DEF MarkFailed
  <2> QED
    BY <1>1, <1>5, <2>1 DEF Ended
<1> QED
  BY <1>3, <1>4, <1>5 DEF Fail

LEMMA Moves ==
  ASSUME Shape, WaitInv, [Next]_vars
  PROVE  /\ cause \subseteq cause'
         /\ \/ Rested \/ Quitted
            \/ \E t \in Task : \/ \E c \in Cmd : Issue(t, c)
                               \/ Retried(t) \/ Drained(t) \/ Ended(t)
<1> USE DEF server, client
<1>a. /\ TaskOK /\ outbox \in [Cmd -> Row] /\ DOMAIN task = Task
      /\ \A t \in Task : task[t] \in Call /\ Sending(task[t])
  BY DEF WaitInv, TaskOK, Shape
<1>1. CASE Quit
  BY <1>1 DEF Quit, Quitted
<1>2. ASSUME NEW t \in Task, NEW c \in Cmd, Issue(t, c) PROVE cause \subseteq cause'
  BY <1>2 DEF Issue
<1>3. ASSUME NEW t \in Task, OpenList(t) PROVE cause \subseteq cause' /\ Drained(t)
  BY <1>3 DEF OpenList, Drained, Drain
<1>4. ASSUME NEW t \in Task, Send(t) PROVE cause \subseteq cause' /\ Retried(t)
  <2>1. /\ task[t].at = "send" /\ task' = [task EXCEPT ![t].at = "wait", ![t].tries = @ + 1]
        /\ UNCHANGED <<outbox, queue, issued, cause>>
    BY <1>4 DEF Send
  <2> DEFINE k == task[t]
             n == k.tries + 1
             l == [k EXCEPT !.at = "wait", !.tries = n]
  <2>2. n \in 0 .. MaxTries
    BY <2>1, <1>a, OutboxAssumption DEF Call, Sending
  <2>3. task'[t] = l /\ task' = [task EXCEPT ![t] = l]
    BY <2>1, <1>a
  <2> HIDE DEF n
  <2>4. l \in Call /\ l.at = "wait" /\ l.cmd = k.cmd /\ l.keyed = k.keyed /\ l.todo = k.todo
    BY <1>a, <2>2 DEF Call
  <2> HIDE DEF l
  <2>5. task' \in [Task -> Call]
    BY <1>a, <2>3, <2>4 DEF TaskOK
  <2> QED
    BY <1>a, <2>1, <2>3, <2>4, <2>5 DEF Retried
<1>5. ASSUME NEW t \in Task, GiveUp(t) PROVE cause \subseteq cause' /\ (Retried(t) \/ Ended(t))
  <2>1. task[t].at = "wait" /\ UNCHANGED <<issued, cause>>
    BY <1>5 DEF GiveUp
  <2>2. CASE /\ task[t].tries < MaxTries /\ UNCHANGED <<outbox, queue>>
             /\ task' = [task EXCEPT ![t].at = "send"]
    <3> DEFINE k == task[t]
               l == [k EXCEPT !.at = "send"]
    <3>1. task'[t] = l /\ task' = [task EXCEPT ![t] = l]
      BY <2>2, <1>a
    <3>2. /\ l \in Call /\ l.at = "send" /\ l.cmd = k.cmd /\ l.keyed = k.keyed /\ l.todo = k.todo
          /\ l.tries = k.tries
      BY <1>a DEF Call
    <3> HIDE DEF l
    <3>3. task' \in [Task -> Call]
      BY <1>a, <3>1, <3>2 DEF TaskOK
    <3> QED
      BY <1>a, <2>1, <2>2, <3>1, <3>2, <3>3 DEF Retried
  <2>3. CASE Fail(t, "network")
    BY <1>a, <2>1, <2>3, FailEnds
  <2> QED
    BY <1>5, <2>1, <2>2, <2>3 DEF GiveUp
<1>6. ASSUME NEW t \in Task, Offline(t) PROVE cause \subseteq cause' /\ Ended(t)
  <2>1. task[t].at = "send" /\ UNCHANGED <<issued, cause>> /\ Fail(t, "network")
    BY <1>6 DEF Offline
  <2> QED
    BY <1>a, <2>1, FailEnds
<1>7. ASSUME NEW s \in Slot, Answer(s)
      PROVE  cause \subseteq cause' /\ \E t \in Task : Drained(t) \/ Ended(t)
  <2> DEFINE r == request[s]
             t == r.for
  <2>1. /\ t \in Task /\ task[t].at = "wait" /\ task[t].cmd = r.cmd /\ task[t].keyed = r.keyed
        /\ issued' = issued
    BY <1>7 DEF Answer, WaitInv, Waited
  <2>2. task[t].cmd \in Cmd /\ (~r.keyed \/ Kind[r.cmd] = "push" => Turn(task[t].todo) = NoTask)
    BY <1>a, <2>1 DEF Sending, Turn
  <2>3. CASE Fail(t, "refused") /\ UNCHANGED cause
    BY <1>a, <2>1, <2>3, FailEnds
  <2>4. CASE /\ Kind[r.cmd] # "push" /\ r.keyed /\ MarkApplied(r.cmd)
             /\ task' = [task EXCEPT ![t] = Turn(@.todo)] /\ UNCHANGED <<queue, cause>>
    <3>1. outbox' = [outbox EXCEPT ![r.cmd] = [outbox[r.cmd] EXCEPT !.status = "applied",
                                                                    !.error = "none"]]
      BY <2>4 DEF MarkApplied
    <3> QED
      BY <2>1, <2>4, <3>1 DEF Ended
  <2>5. CASE Kind[r.cmd] # "push" /\ ~r.keyed /\ Drain(t) /\ UNCHANGED <<outbox, queue>>
    BY <2>1, <2>5 DEF Drained, Drain
  <2>6. CASE /\ Kind[r.cmd] = "push" /\ task' = [task EXCEPT ![t] = NoTask]
             /\ UNCHANGED <<outbox, queue, cause>>
    BY <2>1, <2>2, <2>6 DEF Ended
  <2> QED
    BY <1>7, <2>1, <2>3, <2>4, <2>5, <2>6 DEF Answer
<1>8. ASSUME NEW s \in Slot, Lookup(s) \/ Run(s) \/ Save(s) PROVE cause \subseteq cause' /\ Rested
  BY <1>8, Frames DEF Lookup, Run, Save, Rested
<1>9. ASSUME NEW i \in Inst, Restart(i) PROVE cause \subseteq cause' /\ Rested
  BY <1>9 DEF Restart, Rested
<1>10. CASE UNCHANGED vars
  BY <1>10 DEF vars, Rested
<1> QED
  BY <1>1, <1>2, <1>3, <1>4, <1>5, <1>6, <1>7, <1>8, <1>9, <1>10, Frames DEF Next, ClientStep

-----------------------------------------------------------------------------
(* Who holds a command, and what its row says meanwhile.                   *)

Issued(c) == Among(c, issued)

\* The queue has the rows that have a status, each once.
RowInv ==
  /\ issued \in Seq(Cmd) /\ queue \in Seq(Cmd) /\ Distinct(queue)
  /\ \A c \in Cmd :
       /\ outbox[c].status = "none" <=> ~Among(c, queue)
       /\ outbox[c].status = "none" => outbox[c].attempts = 0
       /\ Among(c, queue) => Kind[c] # "push" /\ Issued(c)
       /\ \A t \in Task : Holds(task[t], c) => Issued(c)

\* A command is held by one call, unless two drains share it; and while it is,
\* its row is pending, or not yet there.
Keeps(t, c) ==
  /\ Kind[c] # "push" => (task[t].keyed <=> outbox[c].status # "none")
  /\ \A u \in Task : Holds(task[u], c) =>
       u = t \/ (Kind[c] # "push" /\ outbox[c].status # "none" /\ Blamed("shared", c))
  /\ Kind[c] # "push" /\ task[t].keyed => outbox[c].status = "pending" \/ Blamed("shared", c)
HeldInv == \A c \in Cmd : \A t \in Task : Holds(task[t], c) => Keeps(t, c)

\* A row that can still fail has not failed DeadAfter times.
CountInv ==
  \A c \in Cmd : Blamed("shared", c) \/
    /\ outbox[c].attempts <= DeadAfter
    /\ outbox[c].status \in {"none", "pending"} => outbox[c].attempts < DeadAfter

OutboxInv == RowInv /\ HeldInv /\ CountInv

LEMMA AppendHas ==
  ASSUME NEW q \in Seq(Cmd), NEW c \in Cmd
  PROVE  /\ Append(q, c) \in Seq(Cmd)
         /\ \A e : Among(e, Append(q, c)) <=> e = c \/ Among(e, q)
         /\ Distinct(q) /\ ~Among(c, q) => Distinct(Append(q, c))
         /\ \A d, e : Ahead(d, e, q) => Ahead(d, e, Append(q, c))
         /\ \A e : Among(e, q) => Ahead(e, c, Append(q, c))
         /\ \A d, e : Ahead(d, e, Append(q, c)) => Ahead(d, e, q) \/ (Among(d, q) /\ e = c)
<1> DEFINE r == Append(q, c)
           n == Len(q) + 1
<1>1. /\ r \in Seq(Cmd) /\ Len(q) \in Nat /\ DOMAIN q = 1 .. Len(q) /\ DOMAIN r = 1 .. n
      /\ \A k \in 1 .. n : r[k] = IF k = n THEN c ELSE q[k]
  BY AppendFacts
<1>2. /\ n \in 1 .. n /\ \A k \in 1 .. Len(q) : k \in 1 .. n /\ k # n /\ k < n
      /\ \A k \in 1 .. n : (k = n /\ \A l \in 1 .. n : ~(n < l)) \/ k \in 1 .. Len(q)
  BY <1>1
<1> HIDE DEF r, n
<1>3. /\ \A k \in DOMAIN q : k \in DOMAIN r /\ r[k] = q[k] /\ k < n /\ k # n
      /\ n \in DOMAIN r /\ r[n] = c
      /\ \A k \in DOMAIN r : k = n \/ k \in DOMAIN q
      /\ \A l \in DOMAIN r : ~(n < l)
  BY <1>1, <1>2
<1>4. \A e : Among(e, r) <=> e = c \/ Among(e, q)
  BY <1>3 DEF Among
<1>5. Distinct(q) /\ ~Among(c, q) => Distinct(r)
  BY <1>3 DEF Among, Distinct
<1>6. \A d, e : Ahead(d, e, q) => Ahead(d, e, r)
  BY <1>3 DEF Ahead
<1>7. \A e : Among(e, q) => Ahead(e, c, r)
  BY <1>3 DEF Ahead, Among
<1>8. ASSUME NEW d, NEW e, Ahead(d, e, r) PROVE Ahead(d, e, q) \/ (Among(d, q) /\ e = c)
  <2>1. PICK i \in DOMAIN r, j \in DOMAIN r : i < j /\ r[i] = d /\ r[j] = e
    BY <1>8 DEF Ahead
  <2>2. i \in DOMAIN q /\ q[i] = d
    BY <1>3, <2>1
  <2> QED
    BY <1>3, <2>1, <2>2 DEF Ahead, Among
<1> QED
  BY <1>1, <1>4, <1>5, <1>6, <1>7, <1>8 DEF r

\* What is left of the list of a call that has done with its command.
LEMMA EndFacts ==
  ASSUME TaskOK, NEW t \in Task, Ended(t)
  PROVE  LET k == task[t]
             l == task'[t]
         IN
         /\ k.cmd \in Cmd /\ l \in Call /\ Sending(l) /\ l.at # "wait"
         /\ \A u \in Task \ {t} : task'[u] = task[u]
         /\ DOMAIN task' = Task
         /\ \A c \in Cmd : Holds(l, c) <=> Among(c, k.todo)
         /\ \A c \in Cmd : Holds(l, c) => Holds(k, c) /\ c # k.cmd /\ k.keyed /\ l.keyed
         /\ l.cmd # None => l.keyed
         /\ \A c, e \in Cmd : Ahead(c, e, k.todo) =>
              l.cmd # e /\ ((l.cmd = c /\ Among(e, l.todo)) \/ Ahead(c, e, l.todo))
<1> DEFINE k == task[t]
           l == Turn(k.todo)
<1>1. k \in Call /\ Sending(k) /\ k.at # "idle" /\ k.cmd \in Cmd
  BY DEF TaskOK, Ended, Sending
<1>2. /\ k.todo \in Seq(Cmd) /\ Distinct(k.todo) /\ \A c : Among(c, k.todo) => Kind[c] # "push"
      /\ ~Among(k.cmd, k.todo) /\ (~k.keyed => k.todo = <<>>)
  BY <1>1 DEF Sending, Call
<1>3. /\ l \in Call /\ Sending(l) /\ l.at # "wait" /\ (l.at # "idle" => l.keyed)
      /\ l.cmd # None => l.keyed
      /\ \A c \in Cmd : Holds(l, c) <=> Among(c, k.todo)
      /\ \A c, e \in Cmd : Ahead(c, e, k.todo) =>
           l.cmd # e /\ ((l.cmd = c /\ Among(e, l.todo)) \/ Ahead(c, e, l.todo))
  BY <1>2, TurnFacts
<1>4. task'[t] = l /\ (\A u \in Task \ {t} : task'[u] = task[u]) /\ DOMAIN task' = Task
  BY DEF TaskOK, Ended
<1> HIDE DEF l
<1>5. \A c \in Cmd : Holds(l, c) => Holds(k, c) /\ c # k.cmd /\ k.keyed /\ l.keyed
  <2>1. ASSUME NEW c \in Cmd, Holds(l, c) PROVE Holds(k, c) /\ c # k.cmd /\ k.keyed /\ l.keyed
    <3>1. Among(c, k.todo) /\ k.keyed
      BY <1>2, <1>3, <2>1, NoTaskFacts
    <3>2. l # NoTask
      BY <2>1, NoTaskFacts
    <3>3. l.keyed
      BY <1>3, <3>2 DEF Sending
    <3> QED
      BY <1>2, <3>1, <3>3 DEF Holds
  <2> QED
    BY <2>1
<1> QED
  BY <1>1, <1>3, <1>4, <1>5

LEMMA DrainFacts ==
  ASSUME TaskOK, RowInv, NEW t \in Task, Drained(t)
  PROVE  \E S \in DueRows :
           /\ task'[t] \in Call /\ Sending(task'[t]) /\ task'[t].at # "wait"
           /\ task'[t].cmd # None => task'[t].keyed
           /\ \A u \in Task \ {t} : task'[u] = task[u]
           /\ DOMAIN task' = Task
           /\ \A c \in Cmd : Holds(task'[t], c) <=> c \in S
           /\ \A c \in Cmd : Holds(task'[t], c) => task'[t].keyed
           /\ \A c \in S : c \in Cmd /\ outbox[c].status = "pending" /\ Among(c, queue)
           /\ \A c \in S, u \in Task \ {t} : Holds(task[u], c) => <<"shared", c>> \in cause'
           /\ \A c, e \in S : Ahead(c, e, queue) =>
                /\ task'[t].cmd # e
                /\ (task'[t].cmd = c /\ Among(e, task'[t].todo)) \/ Ahead(c, e, task'[t].todo)
<1>1. PICK S \in DueRows :
        /\ task' = [task EXCEPT ![t] = Turn(InOrder(S))]
        /\ cause' = cause \cup {<<"shared", c>> : c \in {e \in S : Holding(e) \ {t} # {}}}
  BY DEF Drained, Drain
<1>2. \A c \in S : c \in Cmd /\ outbox[c].status = "pending" /\ Among(c, queue)
  <2>1. \A c \in S : c \in Cmd /\ outbox[c].status = "pending"
    BY <1>1 DEF DueRows, Pending
  <2> QED
    BY <2>1 DEF RowInv
<1> DEFINE q == InOrder(S)
           l == Turn(q)
<1>3. /\ q \in Seq(Cmd) /\ Distinct(q) /\ \A c : Among(c, q) <=> Among(c, queue) /\ c \in S
      /\ \A c, e \in S : Ahead(c, e, queue) => Ahead(c, e, q)
  BY InOrderHas DEF RowInv
<1>4. \A c : Among(c, q) <=> c \in S
  BY <1>2, <1>3
<1>5. \A c : Among(c, q) => Kind[c] # "push"
  BY <1>2, <1>4 DEF RowInv
<1> HIDE DEF q
<1>6. /\ l \in Call /\ Sending(l) /\ l.at # "wait" /\ (l.at # "idle" => l.keyed)
      /\ l.cmd # None => l.keyed
      /\ \A c \in Cmd : Holds(l, c) <=> Among(c, q)
      /\ \A c, e \in Cmd : Ahead(c, e, q) =>
           l.cmd # e /\ ((l.cmd = c /\ Among(e, l.todo)) \/ Ahead(c, e, l.todo))
  BY <1>3, <1>5, TurnFacts
<1>7. task'[t] = l /\ (\A u \in Task \ {t} : task'[u] = task[u]) /\ DOMAIN task' = Task
  BY <1>1 DEF TaskOK, q
<1> HIDE DEF l
<1>8. ASSUME NEW c \in S, NEW u \in Task \ {t}, Holds(task[u], c) PROVE <<"shared", c>> \in cause'
  <2>1. u \in Holding(c)
    BY <1>8 DEF Holding, Holds, Among
  <2> QED
    BY <1>1, <2>1
<1>9. \A c \in Cmd : Holds(l, c) => l.keyed
  BY <1>6, NoTaskFacts DEF Sending
<1> QED
  BY <1>2, <1>3, <1>4, <1>6, <1>7, <1>8, <1>9

LEMMA IssueFacts ==
  ASSUME TaskOK, NEW t \in Task, NEW c \in Cmd, Issue(t, c)
  PROVE  LET l == task'[t] IN
         /\ l \in Call /\ Sending(l) /\ l.at = "send" /\ l.cmd = c /\ l.todo = <<>>
         /\ l.keyed <=> Kind[c] = "push"
         /\ \A e : Holds(l, e) <=> e = c
         /\ \A u \in Task \ {t} : task'[u] = task[u]
         /\ DOMAIN task' = Task /\ task[t] = NoTask
         /\ issued' = Append(issued, c) /\ ~Issued(c)
         /\ UNCHANGED <<outbox, queue, request, results>>
<1> DEFINE b == Kind[c] = "push"
           l == [NoTask EXCEPT !.at = "send", !.cmd = c, !.keyed = b]
<1>1. b \in BOOLEAN
  OBVIOUS
<1>2. /\ task[t] = NoTask /\ task' = [task EXCEPT ![t] = l] /\ issued' = Append(issued, c)
      /\ ~Issued(c) /\ UNCHANGED <<outbox, queue, request, results>>
  BY DEF Issue, Issued, Among, server
<1>3. task'[t] = l /\ (\A u \in Task \ {t} : task'[u] = task[u]) /\ DOMAIN task' = Task
  BY <1>2 DEF TaskOK
<1>a. ASSUME NEW x \in BOOLEAN
      PROVE  LET r == [NoTask EXCEPT !.at = "send", !.cmd = c, !.keyed = x] IN
               r \in Call /\ r.at = "send" /\ r.cmd = c /\ r.keyed = x /\ r.tries = 0 /\ r.todo = <<>>
  BY NoTaskFacts DEF NoTask, Call
<1>5. /\ l \in Call /\ l.at = "send" /\ l.cmd = c /\ l.keyed = b /\ l.tries = 0 /\ l.todo = <<>>
  BY <1>1, <1>a
<1> HIDE DEF l, b
<1>6. Sending(l)
  <2>1. 0 < MaxTries /\ Distinct(<<>>)
    BY OutboxAssumption DEF Distinct
  <2> QED
    BY <1>5, <2>1, NoTaskFacts DEF Sending, b
<1>7. \A e : Holds(l, e) <=> e = c
  BY <1>5, NoTaskFacts DEF Holds
<1> QED
  BY <1>2, <1>3, <1>5, <1>6, <1>7 DEF b

LEMMA EndRows ==
  ASSUME outbox \in [Cmd -> Row], TaskOK, NEW t \in Task, Ended(t)
  PROVE  LET c == task[t].cmd
             k == task[t]
         IN
         /\ \A e \in Cmd : e # c => outbox'[e] = outbox[e]
         /\ \/ Kind[c] = "push" /\ UNCHANGED <<outbox, queue>>
            \/ /\ Kind[c] # "push" /\ ~k.keyed /\ queue' = Append(queue, c)
               /\ outbox'[c].status = "pending" /\ outbox'[c].attempts = outbox[c].attempts
               /\ outbox'[c].error = outbox[c].error
            \/ /\ Kind[c] # "push" /\ k.keyed /\ queue' = queue
               /\ outbox'[c].status = "applied" /\ outbox'[c].attempts = outbox[c].attempts
               /\ outbox'[c].error = "none"
            \/ /\ Kind[c] # "push" /\ k.keyed /\ queue' = queue
               /\ outbox'[c].attempts = outbox[c].attempts + 1
               /\ outbox'[c].status = IF outbox'[c].attempts >= DeadAfter THEN "dead_letter"
                                      ELSE "pending"
<1> DEFINE c == task[t].cmd
<1>1. c \in Cmd /\ outbox[c] \in Row /\ DOMAIN outbox = Cmd
  BY EndFacts
<1>2. CASE Kind[c] = "push" /\ UNCHANGED <<outbox, queue>>
  BY <1>2
<1>3. CASE /\ Kind[c] # "push" /\ ~task[t].keyed /\ queue' = Append(queue, c)
           /\ outbox' = [outbox EXCEPT ![c] = [outbox[c] EXCEPT !.status = "pending"]]
  <2> DEFINE row == [outbox[c] EXCEPT !.status = "pending"]
  <2>1. row.status = "pending" /\ row.attempts = outbox[c].attempts /\ row.error = outbox[c].error
    BY <1>1 DEF Row
  <2>2. outbox'[c] = row /\ \A e \in Cmd : e # c => outbox'[e] = outbox[e]
    BY <1>1, <1>3
  <2> HIDE DEF row
  <2> QED
    BY <1>3, <2>1, <2>2
<1>4. ASSUME Kind[c] # "push", task[t].keyed, queue' = queue,
             outbox' = [outbox EXCEPT ![c] = [outbox[c] EXCEPT !.status = "applied", !.error = "none"]]
      PROVE  /\ \A e \in Cmd : e # c => outbox'[e] = outbox[e]
             /\ outbox'[c].status = "applied" /\ outbox'[c].attempts = outbox[c].attempts
             /\ outbox'[c].error = "none"
  <2> DEFINE row == [outbox[c] EXCEPT !.status = "applied", !.error = "none"]
  <2>1. row.status = "applied" /\ row.attempts = outbox[c].attempts /\ row.error = "none"
    BY <1>1 DEF Row
  <2>2. outbox'[c] = row /\ \A e \in Cmd : e # c => outbox'[e] = outbox[e]
    BY <1>1, <1>4
  <2> HIDE DEF row
  <2> QED
    BY <2>1, <2>2
<1>5. ASSUME Kind[c] # "push", task[t].keyed, queue' = queue, NEW error,
             outbox' = [outbox EXCEPT ![c] = Failed(outbox[c], error)]
      PROVE  /\ \A e \in Cmd : e # c => outbox'[e] = outbox[e]
             /\ outbox'[c].attempts = outbox[c].attempts + 1
             /\ outbox'[c].status = IF outbox'[c].attempts >= DeadAfter THEN "dead_letter"
                                    ELSE "pending"
  <2> DEFINE n == outbox[c].attempts + 1
             s == IF outbox[c].attempts + 1 >= DeadAfter THEN "dead_letter" ELSE "pending"
             row == [outbox[c] EXCEPT !.attempts = n, !.error = error, !.status = s]
  <2>1. row.attempts = n /\ row.status = s
    BY <1>1 DEF Row
  <2>2. Failed(outbox[c], error) = row
    BY DEF Failed
  <2>3. outbox'[c] = row /\ \A e \in Cmd : e # c => outbox'[e] = outbox[e]
    BY <1>1, <1>5, <2>2
  <2> HIDE DEF row
  <2> QED
    BY <2>1, <2>3
<1> QED
  BY <1>2, <1>3, <1>4, <1>5 DEF Ended

LEMMA OutboxInit == Init => TaskOK /\ OutboxInv
<1> SUFFICES ASSUME Init PROVE TaskOK /\ OutboxInv
  OBVIOUS
<1>1. TaskOK
  BY NoTaskFacts DEF Init, TaskOK
<1>2. RowInv
  BY NoTaskFacts DEF Init, RowInv, Distinct
<1>3. HeldInv
  BY NoTaskFacts DEF Init, HeldInv
<1>4. CountInv
  BY OutboxAssumption DEF Init, CountInv
<1> QED
  BY <1>1, <1>2, <1>3, <1>4 DEF OutboxInv

LEMMA TaskStep ==
  ASSUME TaskOK, RowInv, \/ Rested \/ Quitted
                 \/ \E t \in Task : \/ \E c \in Cmd : Issue(t, c)
                                    \/ Retried(t) \/ Drained(t) \/ Ended(t)
  PROVE  TaskOK'
<1>1. ASSUME NEW t \in Task, task'[t] \in Call /\ Sending(task'[t]), DOMAIN task' = Task,
             \A u \in Task \ {t} : task'[u] = task[u], task' = [u \in Task |-> task'[u]]
      PROVE  TaskOK'
  <2>1. \A u \in Task : task'[u] \in Call /\ Sending(task'[u])
    BY <1>1 DEF TaskOK
  <2>2. task' \in [Task -> Call]
    BY <1>1, <2>1
  <2> QED
    BY <2>1, <2>2 DEF TaskOK
<1>2. CASE Rested
  BY <1>2 DEF Rested, TaskOK
<1>3. CASE Quitted
  BY <1>3, NoTaskFacts DEF Quitted, TaskOK
<1>4. ASSUME NEW t \in Task, NEW c \in Cmd, Issue(t, c) PROVE TaskOK'
  <2>1. task' = [u \in Task |-> task'[u]]
    BY <1>4 DEF Issue, TaskOK
  <2> QED
    BY <1>1, <1>4, <2>1, IssueFacts
<1>5. ASSUME NEW t \in Task, Retried(t) PROVE TaskOK'
  <2>1. Sending(task'[t])
    BY <1>5 DEF Retried, TaskOK, Sending
  <2>2. DOMAIN task' = Task /\ task' = [u \in Task |-> task'[u]]
    BY <1>5 DEF Retried
  <2> QED
    BY <1>1, <1>5, <2>1, <2>2 DEF Retried
<1>6. ASSUME NEW t \in Task, Drained(t) PROVE TaskOK'
  <2>1. task' = [u \in Task |-> task'[u]]
    BY <1>6 DEF Drained, Drain, TaskOK
  <2> QED
    BY <1>1, <1>6, <2>1, DrainFacts
<1>7. ASSUME NEW t \in Task, Ended(t) PROVE TaskOK'
  <2>1. task' = [u \in Task |-> task'[u]]
    BY <1>7 DEF Ended, TaskOK
  <2> QED
    BY <1>1, <1>7, <2>1, EndFacts
<1> QED
  BY <1>2, <1>3, <1>4, <1>5, <1>6, <1>7

LEMMA RowStep ==
  ASSUME outbox \in [Cmd -> Row], TaskOK, RowInv, HeldInv,
         \/ Rested \/ Quitted
         \/ \E t \in Task : \/ \E c \in Cmd : Issue(t, c)
                            \/ Retried(t) \/ Drained(t) \/ Ended(t)
  PROVE  RowInv'
<1>1. CASE Rested
  BY <1>1 DEF Rested, RowInv, Issued
<1>2. CASE Quitted
  BY <1>2, NoTaskFacts DEF Quitted, RowInv, Issued
<1>3. ASSUME NEW t \in Task, NEW c \in Cmd, Issue(t, c) PROVE RowInv'
  <2>a. issued' = Append(issued, c) /\ issued \in Seq(Cmd)
    BY <1>3, IssueFacts DEF RowInv
  <2>1. issued' \in Seq(Cmd) /\ \A e \in Cmd : Among(e, issued') <=> e = c \/ Among(e, issued)
    BY <2>a, AppendHas
  <2>2. /\ UNCHANGED <<outbox, queue>> /\ \A e : Holds(task'[t], e) <=> e = c
        /\ \A u \in Task \ {t} : task'[u] = task[u]
    BY <1>3, IssueFacts
  <2>3. \A e \in Cmd, u \in Task : Holds(task'[u], e) => Among(e, issued')
    BY <2>1, <2>2 DEF RowInv, Issued
  <2> QED
    BY <2>1, <2>2, <2>3 DEF RowInv, Issued
<1>4. ASSUME NEW t \in Task, Retried(t) PROVE RowInv'
  <2>1. /\ UNCHANGED <<outbox, queue, issued>>
        /\ \A u \in Task, c \in Cmd : Holds(task'[u], c) <=> Holds(task[u], c)
    BY <1>4 DEF Retried, Holds
  <2> QED
    BY <2>1 DEF RowInv, Issued
<1>5. ASSUME NEW t \in Task, Drained(t) PROVE RowInv'
  <2>1. PICK S \in DueRows :
          /\ \A u \in Task \ {t} : task'[u] = task[u]
          /\ \A c \in Cmd : Holds(task'[t], c) <=> c \in S
          /\ \A c \in S : c \in Cmd /\ outbox[c].status = "pending" /\ Among(c, queue)
    BY <1>5, DrainFacts
  <2>2. UNCHANGED <<outbox, queue, issued>>
    BY <1>5 DEF Drained
  <2> QED
    BY <2>1, <2>2 DEF RowInv, Issued
<1>6. ASSUME NEW t \in Task, Ended(t) PROVE RowInv'
  <2> DEFINE k == task[t]
             d == task[t].cmd
  <2>1. /\ d \in Cmd /\ issued' = issued /\ Holds(k, d)
        /\ \A u \in Task, c \in Cmd : Holds(task'[u], c) => Holds(task[u], c)
    BY <1>6, EndFacts, ZenonT(40) DEF Ended, Holds
  <2>2. \A u \in Task, c \in Cmd : Holds(task'[u], c) => Issued(c)'
    BY <2>1 DEF RowInv, Issued
  <2>3. CASE ~UNCHANGED queue
    <3>1. /\ Kind[d] # "push" /\ ~k.keyed /\ queue' = Append(queue, d)
          /\ outbox'[d].status = "pending" /\ \A e \in Cmd : e # d => outbox'[e] = outbox[e]
      BY <1>6, <2>3, EndRows
    <3>2. outbox[d].status = "none" /\ ~Among(d, queue) /\ Issued(d)
      BY <2>1, <3>1 DEF HeldInv, Keeps, RowInv
    <3>3. queue' \in Seq(Cmd) /\ Distinct(queue') /\ \A e \in Cmd : Among(e, queue') <=> e = d \/ Among(e, queue)
      BY <2>1, <3>1, <3>2, AppendHas DEF RowInv
    <3> HIDE DEF d, k
    <3> QED
      BY <2>1, <2>2, <3>1, <3>2, <3>3 DEF RowInv, Issued
  <2>4. CASE UNCHANGED queue
    <3>1. \A c \in Cmd : (outbox'[c].status = "none" <=> outbox[c].status = "none")
            /\ (outbox'[c].status = "none" => outbox'[c].attempts = outbox[c].attempts)
      <4>1. Append(queue, d) # queue
        BY <2>1 DEF RowInv
      <4>2. \/ UNCHANGED outbox
            \/ outbox'[d].status # "none" /\ Kind[d] # "push" /\ k.keyed
               /\ \A e \in Cmd : e # d => outbox'[e] = outbox[e]
        BY <1>6, <2>4, <4>1, EndRows
      <4>3. Kind[d] # "push" /\ k.keyed => outbox[d].status # "none"
        BY <2>1 DEF HeldInv, Keeps
      <4> QED
        BY <4>2, <4>3
    <3> HIDE DEF d, k
    <3> QED
      BY <2>1, <2>2, <2>4, <3>1 DEF RowInv, Issued
  <2> QED
    BY <2>3, <2>4
<1> QED
  BY <1>1, <1>2, <1>3, <1>4, <1>5, <1>6

LEMMA HeldStep ==
  ASSUME outbox \in [Cmd -> Row], TaskOK, RowInv, HeldInv, cause \subseteq cause',
         \/ Rested \/ Quitted
         \/ \E t \in Task : \/ \E c \in Cmd : Issue(t, c)
                            \/ Retried(t) \/ Drained(t) \/ Ended(t)
  PROVE  HeldInv'
<1>a. \A c : Blamed("shared", c) => Blamed("shared", c)'
  BY DEF Blamed
<1>1. CASE Rested
  BY <1>a, <1>1 DEF Rested, HeldInv, Keeps
<1>2. CASE Quitted
  BY <1>2, NoTaskFacts DEF Quitted, HeldInv
<1>3. ASSUME NEW t \in Task, NEW d \in Cmd, Issue(t, d) PROVE HeldInv'
  <2>1. /\ UNCHANGED <<outbox, queue>> /\ \A e : Holds(task'[t], e) <=> e = d
        /\ task'[t].keyed <=> Kind[d] = "push"
        /\ \A u \in Task \ {t} : task'[u] = task[u]
        /\ ~Issued(d)
    BY <1>3, IssueFacts
  <2>2. outbox[d].status = "none" /\ \A u \in Task : ~Holds(task[u], d)
    BY <2>1 DEF RowInv
  <2>3. ASSUME NEW c \in Cmd, NEW u \in Task, Holds(task'[u], c) PROVE Keeps(u, c)'
    <3>1. CASE c = d
      <4>1. \A w \in Task : Holds(task'[w], c) => w = t
        BY <2>1, <2>2, <3>1
      <4>2. u = t
        BY <2>3, <4>1
      <4> QED
        BY <2>1, <2>2, <3>1, <4>1, <4>2 DEF Keeps
    <3>2. CASE c # d
      <4>1. \A w \in Task : Holds(task'[w], c) => w # t /\ task'[w] = task[w]
        BY <2>1, <3>2
      <4> QED
        BY <1>a, <2>1, <2>3, <4>1 DEF Keeps, HeldInv
    <3> QED
      BY <3>1, <3>2
  <2> QED
    BY <2>3 DEF HeldInv
<1>4. ASSUME NEW t \in Task, Retried(t) PROVE HeldInv'
  <2>1. /\ UNCHANGED outbox
        /\ \A u \in Task, c \in Cmd : Holds(task'[u], c) <=> Holds(task[u], c)
        /\ \A u \in Task : task'[u].keyed = task[u].keyed
    BY <1>4 DEF Retried, Holds
  <2> QED
    BY <1>a, <2>1 DEF HeldInv, Keeps
<1>5. ASSUME NEW t \in Task, Drained(t) PROVE HeldInv'
  <2>1. PICK S \in DueRows :
          /\ \A u \in Task \ {t} : task'[u] = task[u]
          /\ \A c \in Cmd : Holds(task'[t], c) <=> c \in S
          /\ \A c \in Cmd : Holds(task'[t], c) => task'[t].keyed
          /\ \A c \in S : c \in Cmd /\ outbox[c].status = "pending" /\ Among(c, queue)
          /\ \A c \in S, u \in Task \ {t} : Holds(task[u], c) => <<"shared", c>> \in cause'
    BY <1>5, DrainFacts
  <2>2. UNCHANGED outbox
    BY <1>5 DEF Drained
  <2>3. ASSUME NEW c \in Cmd, NEW u \in Task, Holds(task'[u], c) PROVE Keeps(u, c)'
    <3>1. CASE c \in S
      <4>1. Kind[c] # "push" /\ outbox'[c].status = "pending"
        BY <2>1, <2>2, <3>1 DEF RowInv
      <4>2. task'[u].keyed
        BY <2>1, <2>2, <2>3, <3>1, <4>1 DEF HeldInv, Keeps
      <4>3. \A w \in Task : Holds(task'[w], c) => w = u \/ Blamed("shared", c)'
        BY <2>1, <2>3, <3>1 DEF Blamed
      <4> QED
        BY <4>1, <4>2, <4>3 DEF Keeps
    <3>2. CASE c \notin S
      <4>1. \A w \in Task : Holds(task'[w], c) => w # t /\ task'[w] = task[w]
        BY <2>1, <3>2
      <4> QED
        BY <1>a, <2>2, <2>3, <4>1 DEF Keeps, HeldInv
    <3> QED
      BY <3>1, <3>2
  <2> QED
    BY <2>3 DEF HeldInv
<1>6. ASSUME NEW t \in Task, Ended(t) PROVE HeldInv'
  <2> DEFINE k == task[t]
             d == task[t].cmd
  <2>1. /\ d \in Cmd /\ Holds(k, d)
        /\ \A u \in Task \ {t} : task'[u] = task[u]
        /\ \A c \in Cmd : Holds(task'[t], c) => Holds(k, c) /\ c # d /\ k.keyed /\ task'[t].keyed
    BY <1>6, EndFacts DEF Holds
  <2>2. /\ \A c \in Cmd : c # d => outbox'[c] = outbox[c]
        /\ Kind[d] = "push" \/ outbox'[d].status # "none"
    BY <1>6, <2>1, EndRows
  <2>3. ASSUME NEW c \in Cmd, NEW u \in Task, Holds(task'[u], c) PROVE Keeps(u, c)'
    <3>1. \A w \in Task : Holds(task'[w], c) => Holds(task[w], c) /\ (task'[w].keyed <=> task[w].keyed)
      BY <2>1
    <3>2. CASE c = d
      <4>1. u # t /\ Holds(task[u], c)
        BY <2>1, <2>3, <3>1, <3>2
      <4>2. Kind[c] # "push" /\ outbox[c].status # "none" /\ Blamed("shared", c) /\ task[u].keyed
        BY <2>1, <3>2, <4>1 DEF HeldInv, Keeps
      <4> QED
        BY <1>a, <2>2, <2>3, <3>1, <3>2, <4>2 DEF Keeps
    <3>3. CASE c # d
      BY <1>a, <2>2, <2>3, <3>1, <3>3 DEF Keeps, HeldInv
    <3> QED
      BY <3>2, <3>3
  <2> QED
    BY <2>3 DEF HeldInv
<1> QED
  BY <1>1, <1>2, <1>3, <1>4, <1>5, <1>6

LEMMA CountStep ==
  ASSUME outbox \in [Cmd -> Row], TaskOK, RowInv, HeldInv, CountInv, cause \subseteq cause',
         \/ Rested \/ Quitted
         \/ \E t \in Task : \/ \E c \in Cmd : Issue(t, c)
                            \/ Retried(t) \/ Drained(t) \/ Ended(t)
  PROVE  CountInv'
<1>a. \A c : Blamed("shared", c) => Blamed("shared", c)'
  BY DEF Blamed
<1>1. CASE UNCHANGED outbox
  BY <1>a, <1>1 DEF CountInv
<1>2. ASSUME NEW t \in Task, Ended(t) PROVE CountInv'
  <2> DEFINE k == task[t]
             d == task[t].cmd
  <2>1. d \in Cmd /\ Holds(k, d)
    BY <1>2, EndFacts DEF Holds
  <2>2. \A c \in Cmd : c # d => outbox'[c] = outbox[c]
    BY <1>2, EndRows
  <2>3. ASSUME ~Blamed("shared", d)
        PROVE  /\ outbox'[d].attempts <= DeadAfter
               /\ outbox'[d].status \in {"none", "pending"} => outbox'[d].attempts < DeadAfter
    <3>1. /\ outbox[d].attempts <= DeadAfter /\ outbox[d].attempts \in Nat /\ DeadAfter \in Nat
          /\ outbox[d].status \in {"none", "pending"} => outbox[d].attempts < DeadAfter
      BY <2>1, <2>3, OutboxAssumption DEF CountInv, Row
    <3>2. Kind[d] # "push" => outbox[d].status \in {"none", "pending"}
      BY <2>1, <2>3 DEF HeldInv, Keeps
    <3>3. CASE Kind[d] = "push"
      BY <1>2, <3>1, <3>3, EndRows
    <3>4. CASE Kind[d] # "push" /\ outbox'[d].attempts = outbox[d].attempts
      BY <3>1, <3>2, <3>4
    <3>5. CASE /\ Kind[d] # "push" /\ outbox'[d].attempts = outbox[d].attempts + 1
               /\ outbox'[d].status = IF outbox'[d].attempts >= DeadAfter THEN "dead_letter"
                                      ELSE "pending"
      BY <3>1, <3>2, <3>5
    <3> QED
      BY <1>2, <3>3, <3>4, <3>5, EndRows
  <2> HIDE DEF d
  <2> QED
    BY <1>a, <2>2, <2>3 DEF CountInv
<1> QED
  BY <1>1, <1>2, IssueFacts DEF Rested, Quitted, Retried, Drained

LEMMA ForFacts ==
  ASSUME NEW r, Shaped(r)
  PROVE  LET q == [r EXCEPT !.for = None] IN q.at = r.at /\ q.for = None /\ q.cmd = r.cmd
BY DEF Shaped

\* A request that is waited for no longer, or by the same call as before.
Passing(s) ==
  /\ request'[s].at = "free" => request'[s] = NoRequest
  /\ request'[s].at # "free" => request'[s].cmd \in Cmd
  /\ \/ request'[s].for = None
     \/ /\ request'[s].for = request[s].for /\ request'[s].cmd = request[s].cmd
        /\ request'[s].keyed = request[s].keyed
        /\ request[s].for # None => task'[request[s].for] = task[request[s].for]

LEMMA WaitKept ==
  ASSUME WaitInv, TaskOK', \A s \in Slot : Passing(s)
  PROVE  WaitInv'
<1>1. ASSUME NEW s \in Slot PROVE Waited(s)'
  <2>1. CASE request'[s].for = None
    BY <2>1 DEF Passing, Waited
  <2>2. CASE request'[s].for # None
    <3>1. /\ request'[s].for = request[s].for /\ request'[s].cmd = request[s].cmd
          /\ request'[s].keyed = request[s].keyed
          /\ task'[request[s].for] = task[request[s].for]
      BY <2>2 DEF Passing
    <3>2. \A q \in Slot : request'[q].for = request'[s].for => request[q].for = request[s].for
      BY <2>2, <3>1 DEF Passing
    <3> QED
      BY <2>2, <3>1, <3>2 DEF WaitInv, Waited, Passing
  <2> QED
    BY <2>1, <2>2
<1> QED
  BY <1>1 DEF WaitInv

LEMMA WaitInit == Init => WaitInv
BY OutboxInit DEF Init, WaitInv, Waited, NoRequest

LEMMA WaitStep ==
  ASSUME Shape, WaitInv, TaskOK', OutboxInv, [Next]_vars
  PROVE  WaitInv'
<1> USE DEF server, client
<1>a. /\ DOMAIN request = Slot
      /\ \A s \in Slot : Shaped(request[s]) /\ Waited(s)
      /\ TaskOK /\ RowInv
  BY DEF Shape, WaitInv, OutboxInv
<1>b. NoRequest.for = None /\ NoRequest.at = "free"
  BY DEF NoRequest
<1>c. \A s \in Slot : request'[s] = NoRequest => Passing(s)
  BY <1>b DEF Passing
<1>d. ASSUME NEW s \in Slot, request'[s] = request[s],
             request[s].for # None => task'[request[s].for] = task[request[s].for]
      PROVE  Passing(s)
  BY <1>a, <1>d DEF Passing, Waited
<1>e. ASSUME NEW s \in Slot, task' = task, \A q \in Slot \ {s} : request'[q] = request[q],
             \/ \E a \in {"run", "save"} : request'[s] = [request[s] EXCEPT !.at = a]
                  /\ request[s].at # "free"
             \/ \E b : request'[s] = Reply(request[s], b) /\ request[s].at # "free"
      PROVE  WaitInv'
  <2>1. request[s].at # "free" /\ request[s].cmd \in Cmd
    BY <1>a, <1>e DEF Waited
  <2>2. \/ request'[s] = NoRequest
        \/ /\ request'[s].at # "free" /\ request'[s].for = request[s].for
           /\ request'[s].cmd = request[s].cmd /\ request'[s].keyed = request[s].keyed
    <3>1. ASSUME NEW a \in {"run", "save"}, request'[s] = [request[s] EXCEPT !.at = a]
          PROVE  /\ request'[s].at = a /\ request'[s].for = request[s].for
                 /\ request'[s].cmd = request[s].cmd /\ request'[s].keyed = request[s].keyed
      <4>1. Shaped(request[s])
        BY <1>a
      <4> QED
        BY <3>1, <4>1 DEF Shaped
    <3>2. ASSUME NEW b, request'[s] = Reply(request[s], b)
          PROVE  \/ request'[s] = NoRequest
                 \/ /\ request'[s].at = "answer" /\ request'[s].for = request[s].for
                    /\ request'[s].cmd = request[s].cmd /\ request'[s].keyed = request[s].keyed
      <4>1. Shaped(request[s])
        BY <1>a
      <4>2. request[s].for # None => request'[s] = [request[s] EXCEPT !.at = "answer", !.ok = b]
        BY <3>2 DEF Reply
      <4>3. request[s].for = None => request'[s] = NoRequest
        BY <3>2 DEF Reply
      <4> QED
        BY <4>1, <4>2, <4>3 DEF Shaped
    <3> QED
      BY <1>e, <3>1, <3>2
  <2>3. Passing(s)
    BY <1>c, <1>e, <2>1, <2>2 DEF Passing
  <2> QED
    BY <1>d, <1>e, <2>3, WaitKept
<1>f. ASSUME NEW calls \in SUBSET Task, request' = Abandon(calls), NEW s \in Slot
      PROVE  /\ request[s].for \notin calls => request'[s] = request[s]
             /\ request[s].for \in calls =>
                  Passing(s) /\ request'[s].for = None
  <2>1. CASE request[s].for \notin calls
    BY <1>f, <2>1 DEF Abandon
  <2>2. CASE request[s].for \in calls
    <3>1. request'[s] = NoRequest \/ request'[s] = [request[s] EXCEPT !.for = None]
      BY <1>f, <2>2 DEF Abandon
    <3>2. request[s].for # None => request[s].at # "free"
      BY <1>a, <1>b DEF Waited
    <3>3. CASE request'[s] = [request[s] EXCEPT !.for = None]
      <4>1. request'[s].at = request[s].at /\ request'[s].for = None /\ request'[s].cmd = request[s].cmd
        BY <1>a, <3>3, ForFacts
      <4>2. request[s].at # "free"
        BY <1>f, <2>2, <3>2, OutboxAssumption
      <4> QED
        BY <1>a, <2>2, <4>1, <4>2 DEF Passing, Waited
    <3> QED
      BY <1>b, <1>c, <2>2, <3>1, <3>3
  <2> QED
    BY <2>1, <2>2
<1>1. ASSUME Quit PROVE WaitInv'
  <2>1. request' = Abandon(Task)
    BY <1>1 DEF Quit
  <2>2. ASSUME NEW s \in Slot PROVE Passing(s)
    <3>1. CASE request[s].for \in Task
      BY <2>1, <3>1, <1>f
    <3>2. CASE request[s].for \notin Task
      BY <2>1, <3>2, <1>a, <1>d, <1>f DEF Waited
    <3> QED
      BY <3>1, <3>2
  <2> QED
    BY <2>2, WaitKept
<1>2. ASSUME NEW t \in Task, task[t].at # "wait", \A u \in Task \ {t} : task'[u] = task[u],
             request' = request
      PROVE  WaitInv'
  <2>1. ASSUME NEW s \in Slot PROVE Passing(s)
    <3>1. request[s].for # None => request[s].for \in Task \ {t}
      BY <1>2, <1>a DEF Waited
    <3> QED
      BY <1>2, <3>1, <1>d
  <2> QED
    BY <2>1, WaitKept
<1>3. ASSUME NEW t \in Task, NEW c \in Cmd, Issue(t, c) PROVE WaitInv'
  BY <1>2, <1>3, <1>a, IssueFacts, NoTaskFacts
<1>4. ASSUME NEW t \in Task, OpenList(t) PROVE WaitInv'
  <2>1. /\ task[t] = NoTask /\ request' = request /\ \A u \in Task \ {t} : task'[u] = task[u]
    BY <1>4, <1>a DEF OpenList, Drain, TaskOK
  <2> QED
    BY <1>2, <2>1, NoTaskFacts
<1>5. ASSUME NEW t \in Task, Send(t) PROVE WaitInv'
  <2>1. PICK i \in Inst, s \in Slot :
          /\ request[s] = NoRequest
          /\ request' = [request EXCEPT ![s] =
               [NoRequest EXCEPT !.cmd = task[t].cmd, !.keyed = task[t].keyed, !.inst = i, !.for = t,
                                 !.at = IF task[t].keyed THEN "lookup" ELSE "run"]]
    BY <1>5 DEF Send
  <2>2. /\ request'[s].cmd = task[t].cmd /\ request'[s].keyed = task[t].keyed
        /\ request'[s].for = t /\ request'[s].at # "free"
        /\ \A q \in Slot \ {s} : request'[q] = request[q]
    BY <2>1, <1>a DEF NoRequest
  <2>3. /\ task[t].at = "send" /\ task[t].cmd \in Cmd
        /\ task' = [task EXCEPT ![t].at = "wait", ![t].tries = @ + 1]
    BY <1>5, <1>a DEF Send, TaskOK, Sending
  <2>4. /\ task'[t].at = "wait" /\ task'[t].cmd = task[t].cmd /\ task'[t].keyed = task[t].keyed
        /\ \A u \in Task \ {t} : task'[u] = task[u]
    BY <2>3, <1>a DEF TaskOK, Call
  <2>5. \A q \in Slot : request[q].for # t
    BY <2>3, <1>a, OutboxAssumption DEF Waited
  <2>6. t # None
    BY OutboxAssumption
  <2>7. Waited(s)'
    BY <2>2, <2>3, <2>4, <2>5 DEF Waited
  <2>8. ASSUME NEW q \in Slot \ {s} PROVE Waited(q)'
    <3>1. request'[q] = request[q] /\ Waited(q) /\ request[q].for # t
      BY <2>2, <2>5, <1>a
    <3>2. \A w \in Slot : request'[w].for = request[q].for => request[w].for = request[q].for
      BY <2>2, <3>1
    <3>3. request[q].for \in Task => task'[request[q].for] = task[request[q].for]
      BY <2>4, <3>1
    <3> QED
      BY <3>1, <3>2, <3>3 DEF Waited
  <2> QED
    BY <2>7, <2>8 DEF WaitInv
<1>6. ASSUME NEW t \in Task, GiveUp(t) PROVE WaitInv'
  <2>1. request' = Abandon({t}) /\ \A u \in Task \ {t} : task'[u] = task[u]
    BY <1>6, <1>a DEF GiveUp, Fail, TaskOK
  <2>2. ASSUME NEW s \in Slot PROVE Passing(s)
    <3>1. CASE request[s].for = t
      BY <2>1, <3>1, <1>f
    <3>2. CASE request[s].for # t
      BY <2>1, <3>2, <1>a, <1>d, <1>f DEF Waited
    <3> QED
      BY <3>1, <3>2
  <2> QED
    BY <2>2, WaitKept
<1>7. ASSUME NEW t \in Task, Offline(t) PROVE WaitInv'
  <2>1. task[t].at = "send" /\ request' = request /\ \A u \in Task \ {t} : task'[u] = task[u]
    BY <1>7, <1>a DEF Offline, Fail, TaskOK
  <2> QED
    BY <1>2, <2>1
<1>8. ASSUME NEW s \in Slot, Answer(s) PROVE WaitInv'
  <2>1. /\ request'[s] = NoRequest /\ request[s].for # None
        /\ \A q \in Slot \ {s} : request'[q] = request[q]
        /\ \A u \in Task : u # request[s].for => task'[u] = task[u]
    BY <1>8, <1>a DEF Answer, Fail, Drain, TaskOK
  <2>2. ASSUME NEW q \in Slot \ {s} PROVE Passing(q)
    <3>1. request[q].for # None => request[q].for \in Task /\ request[q].for # request[s].for
      BY <2>1, <1>a DEF Waited
    <3> QED
      BY <2>1, <3>1, <1>d
  <2> QED
    BY <2>1, <2>2, <1>c, WaitKept
<1>9. ASSUME NEW s \in Slot, Lookup(s) PROVE WaitInv'
  <2>1. /\ task' = task /\ request[s].at # "free" /\ \A q \in Slot \ {s} : request'[q] = request[q]
        /\ \/ request'[s] = [request[s] EXCEPT !.at = "run"]
           \/ request'[s] = Reply(request[s], TRUE)
    BY <1>9, <1>a DEF Lookup
  <2> QED
    BY <2>1, <1>e
<1>10. ASSUME NEW s \in Slot, Run(s) PROVE WaitInv'
  <2>1. /\ task' = task /\ request[s].at # "free" /\ \A q \in Slot \ {s} : request'[q] = request[q]
        /\ \/ request'[s] = [request[s] EXCEPT !.at = "save"]
           \/ request'[s] = Reply(request[s], TRUE)
           \/ request'[s] = Reply(request[s], FALSE)
    BY <1>10, <1>a DEF Run
  <2> QED
    BY <2>1, <1>e
<1>11. ASSUME NEW s \in Slot, Save(s) PROVE WaitInv'
  <2>1. /\ task' = task /\ request[s].at # "free" /\ \A q \in Slot \ {s} : request'[q] = request[q]
        /\ request'[s] = Reply(request[s], TRUE)
    BY <1>11, <1>a DEF Save
  <2> QED
    BY <2>1, <1>e
<1>12. ASSUME NEW i \in Inst, Restart(i) PROVE WaitInv'
  <2>1. task' = task /\ \A s \in Slot : request'[s] = NoRequest \/ request'[s] = request[s]
    BY <1>12, RestartMoves DEF Restart
  <2> QED
    BY <2>1, <1>c, <1>d, WaitKept
<1>13. CASE UNCHANGED vars
  BY <1>13, <1>d, WaitKept DEF vars
<1> QED
  BY <1>1, <1>3, <1>4, <1>5, <1>6, <1>7, <1>8, <1>9, <1>10, <1>11, <1>12, <1>13 DEF Next

LEMMA OutboxStep ==
  Shape /\ Shape' /\ WaitInv /\ OutboxInv /\ [Next]_vars => (WaitInv /\ OutboxInv)'
<1> SUFFICES ASSUME Shape, Shape', WaitInv, OutboxInv, [Next]_vars PROVE (WaitInv /\ OutboxInv)'
  OBVIOUS
<1>1. outbox \in [Cmd -> Row] /\ TaskOK /\ RowInv /\ HeldInv /\ CountInv
  BY DEF Shape, WaitInv, OutboxInv
<1>2. /\ cause \subseteq cause'
      /\ \/ Rested \/ Quitted
         \/ \E t \in Task : \/ \E c \in Cmd : Issue(t, c)
                            \/ Retried(t) \/ Drained(t) \/ Ended(t)
  BY Moves
<1>3. RowInv' /\ HeldInv' /\ CountInv'
  BY <1>1, <1>2, RowStep, HeldStep, CountStep
<1>4. TaskOK'
  BY <1>1, <1>2, TaskStep
<1> QED
  BY <1>3, <1>4, WaitStep DEF OutboxInv

-----------------------------------------------------------------------------
(* Type correctness.                                                       *)

Request == [cmd : Cmd \cup {None}, keyed : BOOLEAN, inst : Inst \cup {None},
            at : {"free", "lookup", "run", "save", "answer"}, ok : BOOLEAN, for : Task \cup {None}]
Content == [status : {"absent", "draft", "cancelled"}, version : Nat, content : Cmd \cup {None}]

ServerTyped ==
  /\ document \in [Document -> Content]
  /\ results \subseteq Cmd /\ memory \in [Inst -> SUBSET Cmd]
  /\ request \in [Slot -> Request]
  /\ faults \in 0 .. MaxFaults

LEMMA RequestFacts ==
  /\ NoRequest \in Request
  /\ \A r \in Request :
       /\ \A a \in {"run", "save"} : [r EXCEPT !.at = a] \in Request
       /\ [r EXCEPT !.for = None] \in Request
       /\ \A b \in BOOLEAN : Reply(r, b) \in Request
<1>1. NoRequest \in Request
  BY DEF NoRequest, Request
<1>2. ASSUME NEW r \in Request, NEW b \in BOOLEAN PROVE [r EXCEPT !.at = "answer", !.ok = b] \in Request
  BY DEF Request
<1>3. \A r \in Request, b \in BOOLEAN : Reply(r, b) \in Request
  BY <1>1, <1>2 DEF Reply
<1> QED
  BY <1>1, <1>3 DEF Request

\* A command that runs gives its document another content, or the next version.
LEMMA RunDocument ==
  ASSUME document \in [Document -> Content], NEW s \in Slot, Run(s), request[s].cmd \in Cmd
  PROVE  LET c == request[s].cmd
             d == Target[c]
         IN
         /\ document' \in [Document -> Content]
         /\ \A e \in Document : e # d => document'[e] = document[e]
         /\ \/ document' = document
            \/ /\ Allowed(c) /\ Kind[c] \in {"create", "edit"} /\ d \in Document
               /\ document'[d].status = "draft" /\ document'[d].content = c
               /\ document'[d].version = document[d].version + 1
            \/ /\ Allowed(c) /\ Kind[c] = "cancel" /\ d \in Document /\ document[d].status = "draft"
               /\ document'[d].status = "cancelled" /\ document'[d].content = document[d].content
               /\ document'[d].version = document[d].version + 1
<1> DEFINE c == request[s].cmd
           d == Target[c]
           x == document[d]
<1>1. CASE document' = document
  BY <1>1
<1>2. CASE document' # document
  <2>1. Kind[c] # "push" /\ Allowed(c)
    BY <1>2 DEF Run
  <2>2. d \in Document /\ x \in Content /\ Kind[c] \in {"create", "edit", "cancel"}
    BY <2>1, OutboxAssumption
  <2>3. document' = [document EXCEPT ![d] =
          CASE Kind[c] # "cancel" -> [status |-> "draft", version |-> x.version + 1, content |-> c]
            [] Kind[c] = "cancel" /\ x.status = "draft"
                 -> [x EXCEPT !.status = "cancelled", !.version = @ + 1]
            [] OTHER -> x]
    BY <1>2, <2>1 DEF Run
  <2> DEFINE v == x.version + 1
  <2>4. v \in Nat
    BY <2>2 DEF Content
  <2>5. CASE Kind[c] # "cancel"
    <3> DEFINE y == [status |-> "draft", version |-> v, content |-> c]
    <3>1. y \in Content /\ y.status = "draft" /\ y.version = v /\ y.content = c
      BY <2>4 DEF Content
    <3>2. document' = [document EXCEPT ![d] = y]
      BY <2>3, <2>5
    <3> HIDE DEF y, d, c
    <3>3. document' \in [Document -> Content] /\ document'[d] = y
          /\ \A e \in Document : e # d => document'[e] = document[e]
      BY <2>2, <3>1, <3>2
    <3> QED
      BY <2>1, <2>2, <2>5, <3>1, <3>3 DEF c, d
  <2>6. CASE Kind[c] = "cancel" /\ x.status = "draft"
    <3> DEFINE y == [x EXCEPT !.status = "cancelled", !.version = v]
    <3>1. y \in Content /\ y.status = "cancelled" /\ y.version = v /\ y.content = x.content
      BY <2>2, <2>4 DEF Content
    <3>2. document' = [document EXCEPT ![d] = y]
      BY <2>3, <2>6
    <3> HIDE DEF y, d, c
    <3>3. document' \in [Document -> Content] /\ document'[d] = y
          /\ \A e \in Document : e # d => document'[e] = document[e]
      BY <2>2, <3>1, <3>2
    <3> QED
      BY <2>1, <2>2, <2>6, <3>1, <3>3 DEF c, d
  <2>7. CASE Kind[c] = "cancel" /\ x.status # "draft"
    <3>1. document' = [document EXCEPT ![d] = x]
      BY <2>3, <2>7
    <3>2. document' = document
      BY <3>1
    <3> QED
      BY <1>2, <3>2
  <2> QED
    BY <2>5, <2>6, <2>7
<1> QED
  BY <1>1, <1>2

LEMMA TypeInit == Init => ServerTyped
BY RequestFacts, OutboxAssumption DEF Init, ServerTyped, Content

LEMMA TypeStep == ServerTyped /\ Shape /\ WaitInv /\ [Next]_vars => ServerTyped'
<1> SUFFICES ASSUME ServerTyped, Shape, WaitInv, [Next]_vars PROVE ServerTyped'
  OBVIOUS
<1> USE DEF server, client
<1>a. /\ request \in [Slot -> Request] /\ \A s \in Slot : Waited(s)
      /\ faults \in 0 .. MaxFaults /\ MaxFaults \in Nat
  BY OutboxAssumption DEF ServerTyped, WaitInv
<1>b. faults < MaxFaults => faults + 1 \in 0 .. MaxFaults
  BY <1>a
<1>c. ASSUME NEW calls, request' = Abandon(calls) PROVE request' \in [Slot -> Request]
  <2>1. \A s \in Slot : request'[s] \in Request
    BY <1>a, <1>c, RequestFacts DEF Abandon
  <2> QED
    BY <1>c, <2>1 DEF Abandon
<1>d. ASSUME NEW s \in Slot, NEW r \in Request, request' = [request EXCEPT ![s] = r]
      PROVE  request' \in [Slot -> Request]
  BY <1>a, <1>d
<1>1. CASE ClientStep
  <2>1. UNCHANGED <<document, results, memory>>
    BY <1>1, Frames
  <2>2. faults' \in 0 .. MaxFaults
    BY <1>1, <1>a, <1>b DEF ClientStep, Quit, OpenList, GiveUp, Offline, Issue
  <2>3. request' \in [Slot -> Request]
    BY <1>1, <1>a, <1>c DEF ClientStep, Quit, OpenList, GiveUp, Offline, Issue
  <2> QED
    BY <2>1, <2>2, <2>3 DEF ServerTyped
<1>2. ASSUME NEW t \in Task, Send(t) PROVE ServerTyped'
  <2>1. PICK i \in Inst, s \in Slot :
          request' = [request EXCEPT ![s] =
               [NoRequest EXCEPT !.cmd = task[t].cmd, !.keyed = task[t].keyed, !.inst = i, !.for = t,
                                 !.at = IF task[t].keyed THEN "lookup" ELSE "run"]]
    BY <1>2 DEF Send
  <2> DEFINE a == IF task[t].keyed THEN "lookup" ELSE "run"
             k == task[t].keyed
  <2>2. task[t].cmd \in Cmd \cup {None} /\ k \in BOOLEAN /\ a \in {"lookup", "run"}
    BY DEF WaitInv, TaskOK, Call
  <2>3. [NoRequest EXCEPT !.cmd = task[t].cmd, !.keyed = k, !.inst = i, !.for = t, !.at = a]
          \in Request
    <3> HIDE DEF a, k
    <3> QED
      BY <2>2 DEF NoRequest, Request
  <2> QED
    BY <1>2, <1>d, <2>1, <2>3 DEF Send, ServerTyped
<1>3. ASSUME NEW s \in Slot, Answer(s) PROVE ServerTyped'
  BY <1>3, <1>d, RequestFacts DEF Answer, ServerTyped
<1>4. ASSUME NEW s \in Slot, Lookup(s) PROVE ServerTyped'
  <2>1. request[s] \in Request
    BY <1>a
  <2>2. \/ request' = [request EXCEPT ![s] = Reply(request[s], TRUE)]
        \/ request' = [request EXCEPT ![s] = [request[s] EXCEPT !.at = "run"]]
    BY <1>4 DEF Lookup
  <2>3. request' \in [Slot -> Request]
    BY <1>d, <2>1, <2>2, RequestFacts
  <2> QED
    BY <1>4, <2>3 DEF Lookup, ServerTyped
<1>5. ASSUME NEW s \in Slot, Run(s) PROVE ServerTyped'
  <2>1. request[s] \in Request /\ request[s].cmd \in Cmd
    BY <1>5, <1>a DEF Waited, Run
  <2>2. \/ request' = [request EXCEPT ![s] = Reply(request[s], TRUE)]
        \/ request' = [request EXCEPT ![s] = Reply(request[s], FALSE)]
        \/ request' = [request EXCEPT ![s] = [request[s] EXCEPT !.at = "save"]]
    BY <1>5 DEF Run
  <2>3. request' \in [Slot -> Request]
    BY <1>d, <2>1, <2>2, RequestFacts
  <2> QED
    BY <1>5, <2>1, <2>3, RunDocument DEF Run, ServerTyped
<1>6. ASSUME NEW s \in Slot, Save(s) PROVE ServerTyped'
  <2>1. request[s] \in Request /\ request[s].cmd \in Cmd
    BY <1>6, <1>a DEF Waited, Save
  <2>2. request' \in [Slot -> Request]
    BY <1>6, <1>d, <2>1, RequestFacts DEF Save
  <2>3. results' \subseteq Cmd /\ memory' \in [Inst -> SUBSET Cmd]
    BY <1>6, <2>1 DEF Save, ServerTyped
  <2> QED
    BY <1>6, <2>2, <2>3 DEF Save, ServerTyped
<1>7. ASSUME NEW i \in Inst, Restart(i) PROVE ServerTyped'
  <2>1. request' \in [Slot -> Request]
    BY <1>7, <1>a, RequestFacts DEF Restart
  <2>2. memory' \in [Inst -> SUBSET Cmd] /\ faults' \in 0 .. MaxFaults
    BY <1>7, <1>b DEF Restart, ServerTyped
  <2> QED
    BY <1>7, <2>1, <2>2 DEF Restart, ServerTyped
<1>8. CASE UNCHANGED vars
  BY <1>8 DEF vars, ServerTyped
<1> QED
  BY <1>1, <1>2, <1>3, <1>4, <1>5, <1>6, <1>7, <1>8 DEF Next, ClientStep

LEMMA TypeImplied == Shape /\ ServerTyped /\ WaitInv /\ OutboxInv => TypeOK
<1> SUFFICES ASSUME Shape, ServerTyped, WaitInv, OutboxInv PROVE TypeOK
  OBVIOUS
<1>1. ASSUME NEW c \in Cmd
      PROVE  /\ outbox[c].status \in {"none", "pending", "applied", "dead_letter"}
             /\ outbox[c].error \in {"none", "network", "refused"}
             /\ outbox[c].attempts \in Nat
             /\ outbox[c].attempts <= DeadAfter \/ Blamed("shared", c)
             /\ outbox[c].status = "none" <=> \A i \in DOMAIN queue : queue[i] # c
  <2>1. outbox[c] \in Row
    BY DEF Shape
  <2>2. outbox[c].status = "none" <=> \A i \in DOMAIN queue : queue[i] # c
    BY DEF OutboxInv, RowInv, Among
  <2> QED
    BY <2>1, <2>2 DEF Row, OutboxInv, CountInv
<1>2. ASSUME NEW t \in Task
      PROVE  /\ task[t].at \in {"idle", "send", "wait"} /\ task[t].tries \in 0 .. MaxTries
             /\ task[t].cmd \in Cmd \cup {None} /\ task[t].keyed \in BOOLEAN
  BY DEF WaitInv, TaskOK, Call
<1> QED
  BY <1>1, <1>2 DEF TypeOK, ServerTyped, Request, Content

\* The state keeps its shape: a row of the outbox is queued exactly when it has
\* a status, and is not failed more often than DeadAfter times unless two
\* drains had it in their hands.
THEOREM TypeCorrect == Spec => []TypeOK
<1>1. Init => Shape /\ ServerTyped /\ WaitInv /\ OutboxInv
  BY ShapeInit, TypeInit, WaitInit, OutboxInit
<1>2. Shape /\ ServerTyped /\ WaitInv /\ OutboxInv /\ [Next]_vars
        => (Shape /\ ServerTyped /\ WaitInv /\ OutboxInv)'
  BY ShapeStep, TypeStep, OutboxStep
<1> QED
  BY <1>1, <1>2, TypeImplied, PTL DEF Spec

-----------------------------------------------------------------------------
(* A row that was applied stays so.                                        *)

LEMMA AppliedLeft ==
  ASSUME Shape, WaitInv, OutboxInv, [Next]_vars, NEW c \in Cmd,
         outbox[c].status = "applied", outbox'[c].status # "applied"
  PROVE  Blamed("shared", c)
<1>1. PICK t \in Task : Ended(t)
  BY Moves, IssueFacts DEF Rested, Quitted, Retried, Drained, WaitInv
<1>2. TaskOK /\ outbox \in [Cmd -> Row] /\ HeldInv
  BY DEF WaitInv, OutboxInv, Shape
<1>3. c = task[t].cmd /\ Kind[c] # "push"
  BY <1>1, <1>2, EndRows
<1>4. Keeps(t, c)
  BY <1>2, <1>3 DEF HeldInv, Holds
<1> QED
  BY <1>3, <1>4 DEF Keeps

\* A row of the outbox that says applied is never sent again, nor does a late
\* failure undo it, unless two drains had taken it.
THEOREM AppliedRowsStay == Spec => AppliedStays
<1>1. Init => Shape /\ WaitInv /\ OutboxInv
  BY ShapeInit, WaitInit, OutboxInit
<1>2. Shape /\ WaitInv /\ OutboxInv /\ [Next]_vars => (Shape /\ WaitInv /\ OutboxInv)'
  BY ShapeStep, OutboxStep
<1>3. Shape /\ WaitInv /\ OutboxInv /\ [Next]_vars =>
        [\A c \in Cmd : outbox[c].status = "applied" /\ outbox'[c].status # "applied"
           => Blamed("shared", c)]_vars
  BY AppliedLeft
<1> QED
  BY <1>1, <1>2, <1>3, PTL DEF Spec, AppliedStays

-----------------------------------------------------------------------------
(* What a step does to a request, and to a document.                       *)

Same(s) ==
  \/ request'[s] = NoRequest
  \/ /\ request'[s].at = request[s].at /\ request'[s].cmd = request[s].cmd
     /\ request'[s].keyed = request[s].keyed /\ request'[s].ok = request[s].ok
Sent(t, s) ==
  /\ task[t].at = "send" /\ request[s] = NoRequest
  /\ request'[s].cmd = task[t].cmd /\ request'[s].keyed = task[t].keyed
  /\ request'[s].at = IF task[t].keyed THEN "lookup" ELSE "run"

LEMMA RequestMoves ==
  ASSUME Shape, [Next]_vars, NEW s \in Slot
  PROVE  \/ Same(s) \/ Lookup(s) \/ Run(s) \/ Save(s)
         \/ \E t \in Task : Sent(t, s) /\ UNCHANGED <<results, outbox, document, runs>>
<1>1. CASE ClientStep
  BY <1>1, ClientMoves DEF Still, Same
<1>2. ASSUME NEW t \in Task, Send(t)
      PROVE  Same(s) \/ (Sent(t, s) /\ UNCHANGED <<results, outbox, document, runs>>)
  BY <1>2, SendMoves, Frames, ZenonT(40) DEF Send, Alone, Same, Sent
<1>3. ASSUME NEW q \in Slot, Answer(q) \/ Lookup(q) \/ Run(q) \/ Save(q)
      PROVE  Same(s) \/ Lookup(s) \/ Run(s) \/ Save(s)
  <2>1. CASE q = s
    BY <1>3, <2>1, ServerMoves DEF Same
  <2>2. CASE q # s
    BY <1>3, <2>2, ServerMoves DEF Same, Alone
  <2> QED
    BY <2>1, <2>2
<1>4. ASSUME NEW i \in Inst, Restart(i) PROVE Same(s)
  BY <1>4, RestartMoves DEF Same
<1>5. CASE UNCHANGED vars
  BY <1>5 DEF vars, Same
<1> QED
  BY <1>1, <1>2, <1>3, <1>4, <1>5 DEF Next, ClientStep

\* Only a run changes documents and what took effect.
LEMMA OnlyRuns ==
  ASSUME [Next]_vars
  PROVE  UNCHANGED <<document, runs>> \/ \E s \in Slot : Run(s)
BY Frames DEF Next, ClientStep, vars, server

\* A document that is there stays, one that was cancelled stays so, and its
\* version never goes back.
LEMMA DocumentGrows ==
  ASSUME ServerTyped, WaitInv, [Next]_vars, NEW d \in Document
  PROVE  /\ document[d].status # "absent" => document'[d].status # "absent"
         /\ document[d].status = "cancelled" => document'[d].status = "cancelled"
         /\ document'[d].version >= document[d].version
         /\ document[d].version \in Nat /\ document'[d].version \in Nat
<1>1. document \in [Document -> Content] /\ document[d].version \in Nat
  BY DEF ServerTyped, Content
<1>2. CASE UNCHANGED document
  BY <1>1, <1>2
<1>3. ASSUME NEW s \in Slot, Run(s)
      PROVE  /\ document[d].status # "absent" => document'[d].status # "absent"
             /\ document[d].status = "cancelled" => document'[d].status = "cancelled"
             /\ document'[d].version >= document[d].version
  <2>1. request[s].cmd \in Cmd
    BY <1>3 DEF WaitInv, Waited, Run
  <2>2. CASE document'[d] = document[d]
    BY <1>1, <2>2
  <2>3. CASE document'[d] # document[d]
    <3>1. /\ d = Target[request[s].cmd] /\ Allowed(request[s].cmd)
          /\ document'[d].version = document[d].version + 1
          /\ \/ Kind[request[s].cmd] \in {"create", "edit"} /\ document'[d].status = "draft"
             \/ Kind[request[s].cmd] = "cancel" /\ document[d].status = "draft"
                /\ document'[d].status = "cancelled"
      BY <1>1, <1>3, <2>1, <2>3, RunDocument
    <3>2. Kind[request[s].cmd] \in {"create", "edit"} => document[d].status # "cancelled"
      BY <3>1 DEF Allowed
    <3> QED
      BY <1>1, <3>1, <3>2
  <2> QED
    BY <2>2, <2>3
<1>4. document' \in [Document -> Content]
  <2>1. ASSUME NEW s \in Slot, Run(s) PROVE document' \in [Document -> Content]
    BY <1>1, <2>1, RunDocument DEF WaitInv, Waited, Run
  <2> QED
    BY <1>1, <2>1, OnlyRuns
<1> QED
  BY <1>1, <1>2, <1>3, <1>4, OnlyRuns DEF Content

\* The user's commands are given once; the server has no others.
IssueInv ==
  /\ Distinct(issued)
  /\ \A c \in Cmd : /\ \A s \in Slot : request[s].cmd = c => Issued(c)
                    /\ Done(c) => Issued(c)

LEMMA IssuedGrows ==
  ASSUME Shape, WaitInv, RowInv, [Next]_vars
  PROVE  /\ issued' = issued \/ \E t \in Task, c \in Cmd : Issue(t, c)
         /\ \A t \in Task, c \in Cmd : Issue(t, c) =>
              /\ ~Issued(c) /\ \A e : Among(e, issued') <=> e = c \/ Among(e, issued)
              /\ Distinct(issued) => Distinct(issued')
              /\ \A d, e : Before(d, e)' <=> Ahead(d, e, issued')
              /\ \A d, e : Ahead(d, e, issued') => Ahead(d, e, issued) \/ (Among(d, issued) /\ e = c)
         /\ \A c : Issued(c) => Issued(c)'
<1>1. issued' = issued \/ \E t \in Task, c \in Cmd : Issue(t, c)
  BY Moves DEF Rested, Quitted, Retried, Drained, Ended
<1>2. ASSUME NEW t \in Task, NEW c \in Cmd, Issue(t, c)
      PROVE  /\ ~Issued(c) /\ \A e : Among(e, issued') <=> e = c \/ Among(e, issued)
             /\ Distinct(issued) => Distinct(issued')
             /\ \A d, e : Ahead(d, e, issued') => Ahead(d, e, issued) \/ (Among(d, issued) /\ e = c)
  <2>1. issued' = Append(issued, c) /\ ~Issued(c) /\ issued \in Seq(Cmd)
    BY <1>2, IssueFacts DEF WaitInv, RowInv
  <2> QED
    BY <2>1, AppendHas DEF Issued
<1>3. \A d, e : Before(d, e)' <=> Ahead(d, e, issued')
  BY DEF Before, Ahead
<1>4. \A c : Issued(c) => Issued(c)'
  BY <1>1, <1>2 DEF Issued
<1> QED
  BY <1>1, <1>2, <1>3, <1>4

LEMMA IssueInit == Init => IssueInv
<1> SUFFICES ASSUME Init PROVE IssueInv
  OBVIOUS
<1>1. Distinct(issued)
  BY DEF Init, Distinct
<1>2. \A c \in Cmd : ~Done(c)
  BY DEF Init, Done
<1>3. \A s \in Slot : request[s].cmd \notin Cmd
  BY OutboxAssumption DEF Init, NoRequest
<1> QED
  BY <1>1, <1>2, <1>3 DEF IssueInv

LEMMA IssueStep ==
  ASSUME Shape, WaitInv, RowInv, IssueInv, [Next]_vars
  PROVE  IssueInv'
<1>1. Distinct(issued')
  BY IssuedGrows DEF IssueInv
<1>2. ASSUME NEW c \in Cmd, NEW s \in Slot, request'[s].cmd = c PROVE Issued(c)
  <2>1. NoRequest.cmd \notin Cmd
    BY OutboxAssumption DEF NoRequest
  <2>2. CASE request[s].cmd = c
    BY <2>2 DEF IssueInv
  <2>3. ASSUME NEW t \in Task, Sent(t, s) PROVE Issued(c)
    BY <1>2, <2>3 DEF Sent, RowInv, Holds
  <2>4. CASE Lookup(s) \/ Run(s) \/ Save(s)
    BY <1>2, <2>1, <2>2, <2>4, ServerMoves DEF Replied, Moved
  <2> QED
    BY <1>2, <2>1, <2>2, <2>3, <2>4, RequestMoves DEF Same
<1>3. ASSUME NEW c \in Cmd, Done(c)' PROVE Issued(c)
  <2>1. CASE UNCHANGED runs
    BY <1>3, <2>1 DEF IssueInv, Done
  <2>2. ASSUME NEW s \in Slot, Run(s) PROVE Issued(c)
    <3>1. CASE request[s].cmd = c
      BY <3>1 DEF IssueInv
    <3>2. CASE request[s].cmd # c
      <4>1. runs'[c] = runs[c]
        BY <2>2, <3>2, ServerMoves DEF Shape
      <4> QED
        BY <1>3, <4>1 DEF IssueInv, Done
    <3> QED
      BY <3>1, <3>2
  <2> QED
    BY <2>1, <2>2, OnlyRuns
<1> QED
  BY <1>1, <1>2, <1>3, IssuedGrows DEF IssueInv

-----------------------------------------------------------------------------
(* A refusal is true.                                                      *)

\* Nothing that may still happen lets the command take effect.
Hopeless(c) ==
  \/ Kind[c] = "create" /\ document[Target[c]].status # "absent"
  \/ Kind[c] = "edit" /\ document[Target[c]].status = "cancelled"
  \/ Kind[c] = "cancel" /\ document[Target[c]].version > seen[c]

\* The row says so, or the answer that will make it say so.
Denied(r, c) == r.cmd = c /\ r.keyed /\ r.at = "answer" /\ ~r.ok
Refused(c) == outbox[c].error = "refused" \/ \E s \in Slot : Denied(request[s], c)

Pardoned(c) == runs[c].direct > 0 \/ Blamed("unsaved", c) \/ Blamed("raced", c)

\* A command was given of a document the user saw, and saw no later version.
Sighted(c) ==
  /\ Kind[c] = "edit" => document[Target[c]].status # "absent"
  /\ Kind[c] = "cancel" => document[Target[c]].version >= seen[c]

RefusalInv ==
  /\ seen \in [Cmd -> Nat]
  /\ \A c \in Cmd : Issued(c) => Sighted(c)
  /\ \A c \in Cmd : Refused(c) => Issued(c) /\ Hopeless(c) /\ (~Done(c) \/ Pardoned(c))

LEMMA RefusalInit == Init => RefusalInv
<1> SUFFICES ASSUME Init PROVE RefusalInv
  OBVIOUS
<1>1. \A c : ~Issued(c)
  BY DEF Init, Issued, Among
<1>2. \A c \in Cmd : ~Refused(c)
  BY DEF Init, Refused, Denied, NoRequest
<1>3. seen \in [Cmd -> Nat]
  BY DEF Init
<1> QED
  BY <1>1, <1>2, <1>3 DEF RefusalInv

LEMMA RefusedFrom ==
  ASSUME Shape, WaitInv, [Next]_vars, NEW c \in Cmd, Refused(c)'
  PROVE  \/ Refused(c)
         \/ \E s \in Slot : Run(s) /\ Busy(request[s], c) /\ request[s].at = "run" /\ ~Allowed(c)
<1> USE DEF server, client
<1>a. outbox \in [Cmd -> Row] /\ \A s \in Slot : Waited(s)
  BY DEF Shape, WaitInv
<1>1. ASSUME outbox'[c].error = "refused" PROVE Refused(c)
  <2>1. CASE UNCHANGED outbox
    BY <1>1, <2>1 DEF Refused
  <2>2. ASSUME NEW t \in Task, Fail(t, "network") PROVE Refused(c)
    BY <1>1, <1>a, <2>2, FailFacts DEF Refused
  <2>3. ASSUME NEW s \in Slot, Answer(s), Fail(request[s].for, "refused"), ~request[s].ok
        PROVE  Refused(c)
    <3>1. \/ outbox[c].error = "refused"
          \/ c = task[request[s].for].cmd /\ task[request[s].for].keyed
      BY <1>1, <1>a, <2>3, FailFacts
    <3>2. request[s].at = "answer" /\ request[s].for # None
      BY <2>3 DEF Answer
    <3> QED
      BY <1>a, <2>3, <3>1, <3>2 DEF Waited, Refused, Denied
  <2>4. ASSUME NEW s \in Slot, MarkApplied(request[s].cmd) PROVE Refused(c)
    <3>1. outbox'[c].error \in {outbox[c].error, "none"}
      BY <1>a, <2>4 DEF MarkApplied, Row
    <3> QED
      BY <1>1, <3>1 DEF Refused
  <2>5. ASSUME ClientStep PROVE Refused(c)
    BY <2>1, <2>2, <2>5 DEF ClientStep, Quit, OpenList, GiveUp, Offline, Issue
  <2>6. ASSUME NEW s \in Slot, Answer(s) PROVE Refused(c)
    BY <2>1, <2>3, <2>4, <2>6 DEF Answer
  <2>7. CASE UNCHANGED vars
    BY <2>1, <2>7 DEF vars
  <2> QED
    BY <2>1, <2>5, <2>6, <2>7, Frames DEF Next, ClientStep
<1>2. ASSUME NEW s \in Slot, Denied(request'[s], c)
      PROVE  Refused(c) \/ (Run(s) /\ Busy(request[s], c) /\ request[s].at = "run" /\ ~Allowed(c))
  <2>1. NoRequest.cmd # c
    BY OutboxAssumption DEF NoRequest
  <2>2. CASE Same(s)
    BY <1>2, <2>1, <2>2 DEF Same, Refused, Denied
  <2>3. ~Replied(s, TRUE) /\ \A a \in {"run", "save"} : ~Moved(s, a)
    BY <1>2, <2>1 DEF Replied, Moved, Denied
  <2>4. ASSUME Run(s) PROVE Busy(request[s], c) /\ request[s].at = "run" /\ ~Allowed(c)
    <3>1. Replied(s, FALSE) /\ request[s].at = "run"
      BY <2>3, <2>4, ServerMoves
    <3>2. request[s].cmd = c /\ request[s].keyed
      BY <1>2, <2>1, <3>1 DEF Replied, Denied
    <3>3. CASE Allowed(c)
      <4>1. request' = [request EXCEPT ![s] = IF request[s].keyed
                          THEN [request[s] EXCEPT !.at = "save"] ELSE Reply(request[s], TRUE)]
        BY <2>4, <3>2, <3>3 DEF Run
      <4>2. request'[s] = [request[s] EXCEPT !.at = "save"]
        BY <3>2, <4>1 DEF Shape
      <4> QED
        BY <2>3, <4>2, MoveFacts
    <3> QED
      BY <3>1, <3>2, <3>3 DEF Busy
  <2>5. ASSUME NEW t \in Task, Sent(t, s) PROVE FALSE
    BY <1>2, <2>5 DEF Sent, Denied
  <2> QED
    BY <2>2, <2>3, <2>4, <2>5, RequestMoves, ServerMoves
<1>3. outbox'[c].error = "refused" \/ \E s \in Slot : Denied(request'[s], c)
  BY DEF Refused, Denied
<1> QED
  BY <1>1, <1>2, <1>3

\* What is hopeless stays so, and is not allowed.
LEMMA HopelessStays ==
  ASSUME ServerTyped, WaitInv, [Next]_vars, NEW c \in Cmd, Hopeless(c), seen'[c] = seen[c],
         seen \in [Cmd -> Nat]
  PROVE  Hopeless(c)' /\ ~Allowed(c)
<1>1. Target[c] \in Document /\ seen[c] \in Nat
  BY OutboxAssumption DEF Hopeless
<1> DEFINE d == Target[c]
<1>2. /\ document[d].status # "absent" => document'[d].status # "absent"
      /\ document[d].status = "cancelled" => document'[d].status = "cancelled"
      /\ document'[d].version >= document[d].version
      /\ document[d].version \in Nat /\ document'[d].version \in Nat
  BY <1>1, DocumentGrows
<1>3. Hopeless(c)'
  BY <1>1, <1>2 DEF Hopeless
<1>4. ~Allowed(c)
  <2>1. CASE Kind[c] = "create"
    BY <2>1 DEF Hopeless, Allowed
  <2>2. CASE Kind[c] = "edit"
    BY <2>2 DEF Hopeless, Allowed
  <2>3. CASE Kind[c] = "cancel"
    <3>1. document[d].version > seen[c]
      BY <2>3 DEF Hopeless
    <3>2. document[d].version # seen[c]
      BY <1>1, <1>2, <3>1
    <3> QED
      BY <2>3, <3>2 DEF Allowed
  <2> QED
    BY <2>1, <2>2, <2>3 DEF Hopeless
<1> QED
  BY <1>3, <1>4

LEMMA RefusalStep ==
  ASSUME Shape, ServerTyped, WaitInv, RowInv, IssueInv, KeyInv, RefusalInv, [Next]_vars,
         cause \subseteq cause'
  PROVE  RefusalInv'
<1>a. \A c \in Cmd : /\ Issued(c) => Sighted(c)
                     /\ Refused(c) => Issued(c) /\ Hopeless(c) /\ (~Done(c) \/ Pardoned(c))
  BY DEF RefusalInv
<1>b. seen \in [Cmd -> Nat] /\ \A d \in Document : document[d].version \in Nat
  BY DEF RefusalInv, ServerTyped, Content
<1>c. \A c \in Cmd : Kind[c] \in {"edit", "cancel"} => Target[c] \in Document
  BY OutboxAssumption
<1>d. ASSUME NEW c \in Cmd, Pardoned(c) PROVE Pardoned(c)'
  <2>1. CASE runs[c].direct > 0
    <3>1. CASE UNCHANGED runs
      BY <2>1, <3>1 DEF Pardoned
    <3>2. ASSUME NEW s \in Slot, Run(s) PROVE Pardoned(c)'
      <4>1. runs \in [Cmd -> [keyed : Nat, direct : Nat]]
        BY DEF Shape
      <4>2. \/ runs' = runs
            \/ runs' = [runs EXCEPT ![request[s].cmd].keyed = @ + 1]
            \/ runs' = [runs EXCEPT ![request[s].cmd].direct = @ + 1]
        BY <3>2, ServerMoves
      <4>3. runs'[c].direct \in {runs[c].direct, runs[c].direct + 1} /\ runs[c].direct \in Nat
        BY <4>1, <4>2
      <4> QED
        BY <2>1, <4>3 DEF Pardoned
    <3> QED
      BY <3>1, <3>2, OnlyRuns
  <2>2. CASE Blamed("unsaved", c) \/ Blamed("raced", c)
    BY <2>2 DEF Pardoned, Blamed
  <2> QED
    BY <1>d, <2>1, <2>2 DEF Pardoned
<1>1. /\ seen' \in [Cmd -> Nat]
      /\ \A c \in Cmd : Issued(c) => seen'[c] = seen[c]
      /\ \A c \in Cmd : Issued(c)' => Issued(c) \/ Sighted(c)'
  <2>1. ASSUME NEW t \in Task, NEW d \in Cmd, Issue(t, d)
        PROVE  /\ seen' \in [Cmd -> Nat]
               /\ \A c \in Cmd : Issued(c) => seen'[c] = seen[c]
               /\ \A c \in Cmd : Issued(c)' => Issued(c) \/ Sighted(c)'
    <3>1. /\ ~Issued(d) /\ \A c \in Cmd : Issued(c)' => c = d \/ Issued(c)
      BY <2>1, IssuedGrows DEF Issued
    <3>2. /\ Kind[d] \in {"edit", "cancel"} => document[Target[d]].status # "absent"
          /\ seen' = IF Kind[d] = "cancel" THEN [seen EXCEPT ![d] = document[Target[d]].version]
                     ELSE seen
          /\ document' = document
      BY <2>1 DEF Issue, server
    <3>3. seen' \in [Cmd -> Nat] /\ \A c \in Cmd : c # d => seen'[c] = seen[c]
      BY <1>b, <1>c, <3>2
    <3>4. Sighted(d)'
      <4>1. Kind[d] = "cancel" => seen'[d] = document[Target[d]].version
        BY <1>b, <3>2
      <4>2. Kind[d] = "cancel" => document[Target[d]].version \in Nat
        BY <1>b, <1>c
      <4> QED
        BY <3>2, <4>1, <4>2 DEF Sighted
    <3> QED
      BY <3>1, <3>3, <3>4
  <2>2. (\E t \in Task, c \in Cmd : Issue(t, c)) \/ (issued' = issued /\ seen' = seen)
    BY DEF Next, Quit, OpenList, Send, GiveUp, Offline, Answer, Lookup, Run, Save, Restart, vars,
           client
  <2> QED
    BY <1>b, <2>1, <2>2 DEF Issued
<1>2. ASSUME NEW c \in Cmd, Issued(c) PROVE Sighted(c)'
  <2>1. Sighted(c) /\ seen'[c] = seen[c] /\ seen[c] \in Nat
    BY <1>2, <1>a, <1>1, <1>b
  <2>2. CASE Kind[c] \in {"edit", "cancel"}
    <3>1. Target[c] \in Document
      BY <1>c, <2>2
    <3> DEFINE d == Target[c]
    <3>2. /\ document[d].status # "absent" => document'[d].status # "absent"
          /\ document'[d].version >= document[d].version
          /\ document[d].version \in Nat /\ document'[d].version \in Nat
      BY <3>1, DocumentGrows
    <3> QED
      BY <2>1, <3>2 DEF Sighted
  <2>3. CASE Kind[c] \notin {"edit", "cancel"}
    BY <2>3 DEF Sighted
  <2> QED
    BY <2>2, <2>3
<1>3. ASSUME NEW c \in Cmd, Refused(c)'
      PROVE  Issued(c)' /\ Hopeless(c)' /\ (~Done(c)' \/ Pardoned(c)')
  <2>1. CASE Refused(c)
    <3>1. Issued(c) /\ Hopeless(c) /\ (~Done(c) \/ Pardoned(c))
      BY <1>a, <2>1
    <3>2. Hopeless(c)' /\ ~Allowed(c) /\ Issued(c)'
      BY <1>1, <1>b, <3>1, HopelessStays, IssuedGrows
    <3>3. ~Done(c) => ~Done(c)'
      <4>1. CASE UNCHANGED runs
        BY <4>1 DEF Done
      <4>2. ASSUME NEW s \in Slot, Run(s) PROVE ~Done(c) => ~Done(c)'
        <5>1. CASE request[s].cmd = c
          BY <3>2, <4>2, <5>1 DEF Run, Done
        <5>2. CASE request[s].cmd # c
          <6>1. runs'[c] = runs[c]
            BY <4>2, <5>2, ServerMoves DEF Shape
          <6> QED
            BY <6>1 DEF Done
        <5> QED
          BY <5>1, <5>2
      <4> QED
        BY <4>1, <4>2, OnlyRuns
    <3> QED
      BY <1>d, <3>1, <3>2, <3>3
  <2>2. ASSUME NEW s \in Slot, Run(s), Busy(request[s], c), request[s].at = "run", ~Allowed(c)
        PROVE  Issued(c)' /\ Hopeless(c)' /\ (~Done(c)' \/ Pardoned(c)')
    <3>1. request[s].cmd = c /\ Issued(c)
      BY <2>2 DEF Busy, IssueInv
    <3>2. Kind[c] \in {"create", "edit", "cancel"} /\ Target[c] \in Document
      BY <2>2, OutboxAssumption DEF Allowed
    <3>3. Hopeless(c)
      <4>1. Sighted(c) /\ document[Target[c]] \in Content /\ seen[c] \in Nat
        BY <1>a, <1>b, <3>1, <3>2 DEF ServerTyped
      <4>2. CASE Kind[c] = "create"
        BY <2>2, <4>2 DEF Allowed, Hopeless
      <4>3. CASE Kind[c] = "edit"
        BY <2>2, <4>1, <4>3 DEF Allowed, Hopeless, Sighted, Content
      <4>4. CASE Kind[c] = "cancel"
        BY <2>2, <4>1, <4>4 DEF Allowed, Hopeless, Sighted, Content
      <4> QED
        BY <3>2, <4>2, <4>3, <4>4
    <3>4. Hopeless(c)' /\ Issued(c)'
      BY <1>1, <1>b, <3>1, <3>3, HopelessStays, IssuedGrows
    <3>5. runs' = runs
      BY <2>2, <3>1 DEF Run
    <3>6. ~Done(c) \/ Pardoned(c)
      <4>1. CASE Excused(c)
        BY <3>2, <4>1 DEF Excused, Pardoned
      <4>2. CASE ~Excused(c)
        <5>1. runs[c].keyed = 0 /\ runs[c].direct \in Nat
          BY <2>2, <4>2 DEF KeyInv, Once, Shape
        <5> QED
          BY <5>1 DEF Done, Pardoned
      <4> QED
        BY <4>1, <4>2
    <3> QED
      BY <1>d, <3>4, <3>5, <3>6 DEF Done
  <2> QED
    BY <1>3, <2>1, <2>2, RefusedFrom
<1> QED
  BY <1>1, <1>2, <1>3 DEF RefusalInv

\* A refusal the user reads in a row of the outbox is true: outside the windows
\* listed the command has no effect on the server, however its requests were
\* lost, repeated or overtaken.
THEOREM RefusedIsUndone == Spec => []RefusalMeansUndone
<1> DEFINE I == /\ Shape /\ ServerTyped /\ WaitInv /\ OutboxInv /\ KeyInv
                /\ IssueInv /\ RefusalInv
<1>1. Init => I
  BY ShapeInit, TypeInit, WaitInit, OutboxInit, KeyInit, IssueInit, RefusalInit
<1>2. I /\ [Next]_vars => I'
  <2> SUFFICES ASSUME I, [Next]_vars PROVE I'
    OBVIOUS
  <2>1. Shape' /\ ServerTyped' /\ WaitInv' /\ OutboxInv' /\ KeyInv'
    BY ShapeStep, TypeStep, OutboxStep, KeyStep
  <2>2. IssueInv'
    BY IssueStep DEF OutboxInv
  <2>3. RefusalInv'
    BY Moves, RefusalStep DEF OutboxInv
  <2> QED
    BY <2>1, <2>2, <2>3
<1>3. I => RefusalMeansUndone
  BY DEF RefusalInv, Refused, Pardoned, RefusalMeansUndone
<1> QED
  BY <1>1, <1>2, <1>3, PTL DEF Spec

-----------------------------------------------------------------------------
(* The newest edit wins.                                                   *)

\* Two edits of a document, c given before e.
Sibling(c, e) == Kind[c] = "edit" /\ Kind[e] = "edit" /\ Target[c] = Target[e] /\ Before(c, e)

\* A row no drain leaves out, of a command the server knows nothing of.
Late(c) == c \notin results /\ outbox[c].status = "pending" /\ outbox[c].attempts = 0

\* A call that will send e, if at all, only when it is through with c.
Behind(k, c, e) ==
  /\ ~(k.cmd = e /\ k.keyed)
  /\ Among(e, k.todo) => k.cmd = c \/ Ahead(c, e, k.todo)

\* Of two edits the older is never sent directly any more, is queued first, and
\* as long as its row has not failed the newer is not sent from the queue.
Ordered(c, e) ==
  /\ \A t \in Task : task[t].cmd = c => task[t].keyed
  /\ Among(c, queue) /\ Among(e, queue) => Ahead(c, e, queue)
  /\ Late(c) => /\ \A s \in Slot : ~(request[s].cmd = e /\ request[s].keyed)
                /\ \A t \in Task : Behind(task[t], c, e)
QueueInv == \A c, e \in Cmd : Sibling(c, e) => Ordered(c, e)

LEMMA QueueInit == Init => QueueInv
BY DEF Init, QueueInv, Sibling, Before

LEMMA SiblingFacts ==
  ASSUME RowInv, IssueInv, NEW c \in Cmd, NEW e \in Cmd, Sibling(c, e)
  PROVE  c # e /\ Issued(c) /\ Issued(e) /\ Kind[c] # "push" /\ Kind[e] # "push"
<1>1. PICK i \in DOMAIN issued, j \in DOMAIN issued : i < j /\ issued[i] = c /\ issued[j] = e
  BY DEF Sibling, Before
<1>2. i # j
  BY <1>1 DEF RowInv
<1> QED
  BY <1>1, <1>2 DEF IssueInv, Distinct, Issued, Among, Sibling

LEMMA SiblingFrom ==
  ASSUME Shape, WaitInv, RowInv, IssueInv, [Next]_vars, NEW c \in Cmd, NEW e \in Cmd, Sibling(c, e)'
  PROVE  \/ Sibling(c, e)
         \/ /\ Issued(c) /\ Kind[c] = "edit" /\ Kind[e] = "edit" /\ Target[c] = Target[e]
            /\ \E t \in Task : Issue(t, e)
<1>1. /\ Before(c, e)' /\ Kind[c] = "edit" /\ Kind[e] = "edit" /\ Target[c] = Target[e]
  BY DEF Sibling
<1>2. CASE issued' = issued
  BY <1>1, <1>2 DEF Sibling, Before
<1>3. ASSUME NEW t \in Task, NEW d \in Cmd, Issue(t, d)
      PROVE  Sibling(c, e) \/ (Issued(c) /\ e = d)
  <2>1. Ahead(c, e, issued) \/ (Among(c, issued) /\ e = d)
    BY <1>1, <1>3, IssuedGrows
  <2> QED
    BY <1>1, <2>1 DEF Issued, Sibling, Before, Ahead
<1> QED
  BY <1>1, <1>2, <1>3, IssuedGrows

\* A row is late no longer than it was.
LEMMA LateFrom ==
  ASSUME Shape, WaitInv, OutboxInv, [Next]_vars, NEW c \in Cmd, Kind[c] # "push", Late(c)',
         \A t \in Task : task[t].cmd = c => task[t].keyed
  PROVE  /\ Late(c)
         /\ \A t \in Task : Ended(t) => task[t].cmd # c
<1>1. c \notin results
  <2>1. results \subseteq results'
    BY Frames DEF Next, ClientStep, Save, vars, server
  <2> QED
    BY <2>1 DEF Late
<1>2. TaskOK /\ outbox \in [Cmd -> Row] /\ outbox[c].attempts \in Nat
  BY DEF WaitInv, Shape, Row
<1>3. ASSUME NEW t \in Task, Ended(t) PROVE task[t].cmd # c /\ outbox'[c] = outbox[c]
  <2>1. CASE task[t].cmd = c
    <3>1. outbox'[c].status = "applied" \/ outbox'[c].attempts = outbox[c].attempts + 1
      BY <1>2, <1>3, <2>1, EndRows
    <3> QED
      BY <1>2, <3>1 DEF Late
  <2>2. CASE task[t].cmd # c
    BY <1>2, <1>3, <2>2, EndRows
  <2> QED
    BY <2>1, <2>2
<1>4. outbox'[c] = outbox[c]
  BY <1>2, <1>3, Moves, IssueFacts DEF Rested, Quitted, Retried, Drained
<1> QED
  BY <1>1, <1>3, <1>4 DEF Late

\* An edit that has just been given is behind the others.
LEMMA QueueIssue ==
  ASSUME WaitInv, RowInv, IssueInv, NEW t \in Task, NEW c \in Cmd, NEW e \in Cmd,
         Issue(t, e), Issued(c), Kind[e] = "edit", Target[c] = Target[e]
  PROVE  Ordered(c, e)'
<1>1. /\ task'[t].cmd = e /\ ~task'[t].keyed /\ task'[t].todo = <<>>
      /\ \A u \in Task \ {t} : task'[u] = task[u]
      /\ UNCHANGED <<outbox, queue, request>> /\ ~Issued(e)
  BY IssueFacts DEF WaitInv
<1>2. c # None /\ c # e
  BY <1>1, OutboxAssumption
<1>3. /\ ~Among(e, queue) /\ (\A u \in Task : ~Holds(task[u], e))
      /\ \A s \in Slot : request[s].cmd # e
  BY <1>1 DEF RowInv, IssueInv
<1>4. \A u \in Task : task[u].cmd = c => task[u].keyed
  BY <1>2 DEF Issue
<1>5. \A u \in Task : task'[u].cmd = c => task'[u].keyed
  BY <1>1, <1>2, <1>4
<1>6. \A u \in Task : Behind(task'[u], c, e)
  <2>1. Behind(task'[t], c, e)
    BY <1>1, NoTaskFacts DEF Behind
  <2>2. \A u \in Task \ {t} : Behind(task'[u], c, e)
    BY <1>1, <1>3 DEF Behind, Holds
  <2> QED
    BY <2>1, <2>2
<1> QED
  BY <1>1, <1>3, <1>5, <1>6 DEF Ordered, Behind

\* No call sends the older edit directly.
LEMMA KeyedStays ==
  ASSUME Shape, WaitInv, OutboxInv, [Next]_vars, NEW c \in Cmd, Issued(c),
         \A t \in Task : task[t].cmd = c => task[t].keyed
  PROVE  \A t \in Task : task'[t].cmd = c => task'[t].keyed
<1>1. c # None /\ NoTask.cmd = None /\ TaskOK /\ RowInv
  BY OutboxAssumption, NoTaskFacts DEF WaitInv, OutboxInv
<1>2. CASE Rested \/ Quitted
  BY <1>1, <1>2 DEF Rested, Quitted
<1>3. ASSUME NEW t \in Task, NEW d \in Cmd, Issue(t, d)
      PROVE  \A u \in Task : task'[u].cmd = c => task'[u].keyed
  BY <1>1, <1>3, IssueFacts
<1>4. ASSUME NEW t \in Task, Retried(t)
      PROVE  \A u \in Task : task'[u].cmd = c => task'[u].keyed
  BY <1>4 DEF Retried
<1>5. ASSUME NEW t \in Task, Drained(t)
      PROVE  \A u \in Task : task'[u].cmd = c => task'[u].keyed
  BY <1>1, <1>5, DrainFacts
<1>6. ASSUME NEW t \in Task, Ended(t)
      PROVE  \A u \in Task : task'[u].cmd = c => task'[u].keyed
  BY <1>1, <1>6, EndFacts
<1> QED
  BY <1>2, <1>3, <1>4, <1>5, <1>6, Moves

LEMMA AheadStays ==
  ASSUME Shape, WaitInv, OutboxInv, [Next]_vars, NEW c \in Cmd, NEW e \in Cmd, c # e,
         \A t \in Task : task[t].cmd = c => task[t].keyed,
         Among(c, queue) /\ Among(e, queue) => Ahead(c, e, queue),
         Among(c, queue'), Among(e, queue')
  PROVE  Ahead(c, e, queue')
<1>1. CASE queue' = queue
  BY <1>1
<1>2. ASSUME NEW t \in Task, Ended(t) PROVE Ahead(c, e, queue')
  <2>1. CASE queue' # queue
    <3>1. task[t].cmd \in Cmd /\ task[t].cmd # c /\ queue' = Append(queue, task[t].cmd)
      BY <1>2, <2>1, EndRows, EndFacts DEF WaitInv, Shape
    <3>2. queue \in Seq(Cmd)
      BY DEF OutboxInv, RowInv
    <3>3. Among(c, queue) /\ (Among(e, queue) \/ e = task[t].cmd)
      BY <3>1, <3>2, AppendHas
    <3> QED
      BY <3>1, <3>2, <3>3, AppendHas
  <2> QED
    BY <1>1, <2>1
<1> QED
  BY <1>1, <1>2, Moves, IssueFacts DEF Rested, Quitted, Retried, Drained, WaitInv

\* While the row of the older edit is late, the calls stay behind it.
LEMMA BehindStays ==
  ASSUME Shape, WaitInv, OutboxInv, [Next]_vars, NEW c \in Cmd, NEW e \in Cmd, c # e,
         Issued(e), Kind[e] # "push",
         Among(c, queue) /\ Among(e, queue) => Ahead(c, e, queue),
         \A t \in Task : Behind(task[t], c, e),
         Late(c), \A t \in Task : Ended(t) => task[t].cmd # c
  PROVE  \A t \in Task : Behind(task'[t], c, e)
<1>1. /\ TaskOK /\ RowInv /\ e # None
      /\ NoTask.cmd = None /\ NoTask.todo = <<>> /\ ~Among(e, <<>>)
  BY OutboxAssumption, NoTaskFacts DEF WaitInv, OutboxInv
<1>2. CASE Rested \/ Quitted
  BY <1>1, <1>2 DEF Rested, Quitted, Behind
<1>3. ASSUME NEW t \in Task, NEW d \in Cmd, Issue(t, d)
      PROVE  \A u \in Task : Behind(task'[u], c, e)
  <2>1. d # e /\ task'[t].cmd = d /\ task'[t].todo = <<>> /\ \A u \in Task \ {t} : task'[u] = task[u]
    BY <1>1, <1>3, IssueFacts
  <2>2. Behind(task'[t], c, e)
    BY <1>1, <2>1 DEF Behind
  <2> QED
    BY <2>1, <2>2
<1>4. ASSUME NEW t \in Task, Retried(t)
      PROVE  \A u \in Task : Behind(task'[u], c, e)
  BY <1>4 DEF Retried, Behind
<1>5. ASSUME NEW t \in Task, Drained(t)
      PROVE  \A u \in Task : Behind(task'[u], c, e)
  <2>1. PICK S \in DueRows :
          /\ \A u \in Task \ {t} : task'[u] = task[u]
          /\ \A d \in Cmd : Holds(task'[t], d) <=> d \in S
          /\ \A d \in S : d \in Cmd /\ outbox[d].status = "pending" /\ Among(d, queue)
          /\ \A a, b \in S : Ahead(a, b, queue) =>
               /\ task'[t].cmd # b
               /\ (task'[t].cmd = a /\ Among(b, task'[t].todo)) \/ Ahead(a, b, task'[t].todo)
    BY <1>1, <1>5, DrainFacts
  <2>2. c \in S
    BY DEF Late, DueRows, Pending
  <2>3. CASE e \in S
    <3>1. Ahead(c, e, queue)
      BY <2>1, <2>2, <2>3
    <3>2. Behind(task'[t], c, e)
      BY <2>1, <2>2, <2>3, <3>1 DEF Behind
    <3> QED
      BY <2>1, <3>2
  <2>4. CASE e \notin S
    <3>1. ~Holds(task'[t], e)
      BY <2>1, <2>4
    <3>2. Behind(task'[t], c, e)
      BY <3>1 DEF Behind, Holds
    <3> QED
      BY <2>1, <3>2
  <2> QED
    BY <2>3, <2>4
<1>6. ASSUME NEW t \in Task, Ended(t)
      PROVE  \A u \in Task : Behind(task'[u], c, e)
  <2>1. task[t].cmd # c
    BY <1>6
  <2>2. /\ \A u \in Task \ {t} : task'[u] = task[u]
        /\ Holds(task'[t], e) => Among(e, task[t].todo)
        /\ Ahead(c, e, task[t].todo) =>
             task'[t].cmd # e /\ ((task'[t].cmd = c /\ Among(e, task'[t].todo))
                                  \/ Ahead(c, e, task'[t].todo))
    BY <1>1, <1>6, EndFacts
  <2>3. Among(e, task[t].todo) => Ahead(c, e, task[t].todo)
    BY <2>1 DEF Behind
  <2>4. Behind(task'[t], c, e)
    BY <2>2, <2>3 DEF Behind, Holds
  <2> QED
    BY <2>2, <2>4
<1> QED
  BY <1>2, <1>3, <1>4, <1>5, <1>6, Moves

LEMMA QueueStep ==
  ASSUME Shape, WaitInv, OutboxInv, IssueInv, QueueInv, [Next]_vars
  PROVE  QueueInv'
<1> SUFFICES ASSUME NEW c \in Cmd, NEW e \in Cmd, Sibling(c, e)' PROVE Ordered(c, e)'
  BY DEF QueueInv
<1>1. TaskOK /\ RowInv
  BY DEF WaitInv, OutboxInv
<1>2. CASE Sibling(c, e)
  <2>1. Ordered(c, e)
    BY <1>2 DEF QueueInv
  <2>2. c # e /\ Issued(c) /\ Issued(e) /\ Kind[c] # "push" /\ Kind[e] # "push"
    BY <1>1, <1>2, SiblingFacts
  <2>3. \A t \in Task : task'[t].cmd = c => task'[t].keyed
    BY <2>1, <2>2, KeyedStays DEF Ordered
  <2>4. Among(c, queue') /\ Among(e, queue') => Ahead(c, e, queue')
    BY <2>1, <2>2, AheadStays DEF Ordered
  <2>5. ASSUME Late(c)'
        PROVE  /\ \A s \in Slot : ~(request'[s].cmd = e /\ request'[s].keyed)
               /\ \A t \in Task : Behind(task'[t], c, e)
    <3>1. Late(c) /\ \A t \in Task : Ended(t) => task[t].cmd # c
      BY <2>1, <2>2, <2>5, LateFrom DEF Ordered
    <3>2. /\ \A s \in Slot : ~(request[s].cmd = e /\ request[s].keyed)
          /\ \A t \in Task : Behind(task[t], c, e)
      BY <2>1, <3>1 DEF Ordered
    <3>3. \A t \in Task : Behind(task'[t], c, e)
      BY <2>1, <2>2, <3>1, <3>2, BehindStays DEF Ordered
    <3>4. ASSUME NEW s \in Slot PROVE ~(request'[s].cmd = e /\ request'[s].keyed)
      <4>1. NoRequest.cmd # e
        BY OutboxAssumption DEF NoRequest
      <4>2. ASSUME NEW t \in Task, Sent(t, s) PROVE ~(request'[s].cmd = e /\ request'[s].keyed)
        BY <3>2, <4>2 DEF Sent, Behind
      <4> QED
        BY <3>2, <4>1, <4>2, RequestMoves, ServerMoves DEF Same, Replied, Moved
    <3> QED
      BY <3>3, <3>4
  <2> QED
    BY <2>3, <2>4, <2>5 DEF Ordered, Behind
<1>3. CASE ~Sibling(c, e)
  BY <1>1, <1>3, SiblingFrom, QueueIssue
<1> QED
  BY <1>2, <1>3

\* The command is through: no request of it will run any more, because its
\* success is recorded or because nothing is left that would send it.
Over(c) ==
  /\ \A s \in Slot : request[s].cmd = c => request[s].at # "run"
  /\ \/ c \in results
     \/ /\ outbox[c].status # "pending"
        /\ \A s \in Slot : request[s].cmd # c
        /\ \A t \in Task : ~Holds(task[t], c)

\* The lines of a document are of a command of its own, and the newest.
Written(c, d) ==
  /\ c \in Cmd /\ Target[c] = d /\ Kind[c] \in {"create", "edit"} /\ Done(c)
  /\ Kind[c] = "create" => \A e \in Cmd : Kind[e] = "edit" /\ Target[e] = d => ~Done(e)
  /\ \A e \in Cmd : Sibling(c, e) /\ Done(e) => Blamed("overtaken", c)
Lines(d) == document[d].content # None => Written(document[d].content, d)

EditInv ==
  /\ \A c, e \in Cmd : Sibling(c, e) /\ Done(e) => Over(c) \/ Blamed("overtaken", c)
  /\ \A d \in Document : Lines(d)

LEMMA EditInit == Init => EditInv
BY DEF Init, EditInv, Lines, Sibling, Before

LEMMA OverStays ==
  ASSUME Shape, WaitInv, OutboxInv, [Next]_vars, NEW c \in Cmd, Kind[c] = "edit", Issued(c), Over(c),
         \A t \in Task : task[t].cmd = c => task[t].keyed
  PROVE  Over(c)'
<1>1. NoRequest.cmd # c /\ TaskOK /\ RowInv /\ (\A e \in Cmd : ~Holds(NoTask, e))
      /\ outbox \in [Cmd -> Row]
  BY OutboxAssumption, NoTaskFacts DEF NoRequest, WaitInv, OutboxInv, Shape
<1>2. results \subseteq results'
  BY Frames DEF Next, ClientStep, Save, vars, server
<1>3. ASSUME NEW s \in Slot, request'[s].cmd = c
      PROVE  /\ request'[s].at # "run"
             /\ request[s].cmd = c \/ \E t \in Task : task[t].cmd = c
  <2>1. CASE Same(s)
    BY <1>1, <1>3, <2>1 DEF Same, Over
  <2>2. ASSUME NEW t \in Task, Sent(t, s) PROVE request'[s].at # "run" /\ task[t].cmd = c
    BY <1>3, <2>2 DEF Sent
  <2>3. CASE Lookup(s)
    <3>1. request[s].cmd = c
      BY <1>1, <1>3, <2>3, ServerMoves DEF Replied, Moved
    <3>2. c \in results
      BY <3>1 DEF Over
    <3>3. request' = [request EXCEPT ![s] = Reply(request[s], TRUE)]
      BY <2>3, <3>1, <3>2 DEF Lookup, Known
    <3>4. Replied(s, TRUE)
      BY <3>3, MoveFacts DEF Shape
    <3> QED
      BY <1>1, <1>3, <3>1, <3>4 DEF Replied
  <2>4. CASE Run(s) \/ Save(s)
    BY <1>1, <1>3, <2>4, ServerMoves DEF Replied, Moved
  <2> QED
    BY <2>1, <2>2, <2>3, <2>4, RequestMoves
<1>4. CASE c \in results
  BY <1>2, <1>3, <1>4 DEF Over
<1>5. CASE c \notin results
  <2>1. /\ outbox[c].status # "pending" /\ (\A s \in Slot : request[s].cmd # c)
        /\ \A t \in Task : ~Holds(task[t], c)
    BY <1>5 DEF Over
  <2>2. \A s \in Slot : request'[s].cmd # c
    BY <1>3, <2>1 DEF Holds
  <2>3. ASSUME NEW t \in Task, Ended(t)
        PROVE  outbox'[c] = outbox[c] /\ \A u \in Task : ~Holds(task'[u], c)
    <3>1. task[t].cmd # c
      BY <2>1 DEF Holds
    <3> QED
      BY <1>1, <2>1, <2>3, <3>1, EndRows, EndFacts
  <2>4. ASSUME NEW t \in Task, Drained(t)
        PROVE  outbox'[c] = outbox[c] /\ \A u \in Task : ~Holds(task'[u], c)
    <3>1. PICK S \in DueRows :
            /\ \A u \in Task \ {t} : task'[u] = task[u]
            /\ \A d \in Cmd : Holds(task'[t], d) <=> d \in S
            /\ \A d \in S : outbox[d].status = "pending"
      BY <1>1, <2>4, DrainFacts
    <3> QED
      BY <2>1, <2>4, <3>1 DEF Drained
  <2>5. ASSUME NEW t \in Task, NEW d \in Cmd, Issue(t, d)
        PROVE  outbox'[c] = outbox[c] /\ \A u \in Task : ~Holds(task'[u], c)
    BY <1>1, <2>1, <2>5, IssueFacts, ZenonT(40)
  <2>6. ASSUME NEW t \in Task, Retried(t)
        PROVE  outbox'[c] = outbox[c] /\ \A u \in Task : ~Holds(task'[u], c)
    BY <2>1, <2>6 DEF Retried, Holds
  <2>7. Rested \/ Quitted => outbox'[c] = outbox[c] /\ \A u \in Task : ~Holds(task'[u], c)
    BY <1>1, <2>1 DEF Rested, Quitted
  <2>8. outbox'[c] = outbox[c] /\ \A u \in Task : ~Holds(task'[u], c)
    BY <2>3, <2>4, <2>5, <2>6, <2>7, Moves
  <2> QED
    BY <2>1, <2>2, <2>8 DEF Over
<1> QED
  BY <1>4, <1>5

\* An edit that takes effect writes its lines, and the edits it has overtaken
\* are on record.
LEMMA EditRuns ==
  ASSUME Shape, ServerTyped, NEW s \in Slot, Run(s), NEW e \in Cmd, Done(e)', ~Done(e)
  PROVE  /\ request[s].cmd = e /\ Allowed(e)
         /\ Kind[e] = "edit" =>
              /\ document'[Target[e]].content = e
              /\ \A c \in Overtaken(e, request[s].keyed) : Blamed("overtaken", c)'
<1>1. runs' # runs
  BY DEF Done
<1>2. request[s].cmd = e
  <2>1. CASE request[s].cmd # e
    <3>1. runs'[e] = runs[e]
      BY <2>1, ServerMoves DEF Shape
    <3> QED
      BY <3>1 DEF Done
  <2> QED
    BY <2>1
<1>3. Allowed(e)
  BY <1>1, <1>2 DEF Run
<1>4. ASSUME Kind[e] = "edit"
      PROVE  /\ document'[Target[e]].content = e
             /\ \A c \in Overtaken(e, request[s].keyed) : Blamed("overtaken", c)'
  <2>1. Target[e] \in Document /\ DOMAIN document = Document
    BY <1>4, OutboxAssumption DEF ServerTyped
  <2>2. /\ cause' = cause \cup {<<"overtaken", c>> : c \in Overtaken(e, request[s].keyed)}
        /\ document' = [document EXCEPT ![Target[e]] =
             [status |-> "draft", version |-> document[Target[e]].version + 1, content |-> e]]
    BY <1>1, <1>2, <1>3, <1>4 DEF Run
  <2> QED
    BY <2>1, <2>2 DEF Blamed
<1> QED
  BY <1>2, <1>3, <1>4

\* An older edit that is not through when the newer one takes effect has been
\* overtaken.
LEMMA EditOvertakes ==
  ASSUME Shape, ServerTyped, WaitInv, OutboxInv, IssueInv, QueueInv, [Next]_vars,
         NEW s \in Slot, Run(s), NEW c \in Cmd, NEW e \in Cmd, Sibling(c, e), Done(e)', ~Done(e)
  PROVE  Over(c) \/ Blamed("overtaken", c)'
<1> DEFINE k == request[s].keyed
<1>1. /\ request[s].cmd = e /\ Kind[e] = "edit"
      /\ \A d \in Overtaken(e, k) : Blamed("overtaken", d)'
  BY EditRuns DEF Sibling
<1>2. SUFFICES ASSUME c \notin Overtaken(e, k) PROVE Over(c)
  BY <1>1
<1>3. /\ \A q \in Slot : ~(request[q].cmd = c /\ request[q].at = "run")
      /\ c \notin results =>
           /\ ~(outbox[c].status = "pending" /\ (~k \/ outbox[c].attempts > 0))
           /\ (\A q \in Slot : request[q].cmd # c) /\ Holding(c) = {}
  BY <1>2 DEF Overtaken, Sibling
<1>4. CASE c \in results
  BY <1>3, <1>4 DEF Over
<1>5. CASE c \notin results
  <2>1. outbox[c].attempts \in Nat
    BY DEF Shape, Row
  <2>2. ~(Late(c) /\ k)
    BY <1>1 DEF QueueInv, Ordered
  <2>3. outbox[c].status # "pending"
    BY <1>3, <1>5, <2>1, <2>2 DEF Late
  <2>4. \A t \in Task : ~Holds(task[t], c)
    BY <1>3, <1>5 DEF Holding, Holds, Among
  <2> QED
    BY <1>3, <1>5, <2>3, <2>4 DEF Over
<1> QED
  BY <1>4, <1>5

LEMMA EditStep ==
  ASSUME Shape, ServerTyped, WaitInv, OutboxInv, IssueInv, QueueInv, RefusalInv, EditInv,
         [Next]_vars, cause \subseteq cause'
  PROVE  EditInv'
<1>a. RowInv /\ \A c : Blamed("overtaken", c) => Blamed("overtaken", c)'
  BY DEF OutboxInv, Blamed
\* Of an edit just given nothing has happened.
<1>b. ASSUME NEW c \in Cmd, NEW e \in Cmd, Sibling(c, e)', Done(e)'
      PROVE  Sibling(c, e)
  <2>1. ASSUME NEW t \in Task, Issue(t, e) PROVE FALSE
    <3>1. ~Issued(e) /\ runs' = runs
      BY <2>1, <1>a, IssuedGrows DEF Issue
    <3> QED
      BY <1>b, <3>1 DEF IssueInv, Done
  <2> QED
    BY <1>a, <1>b, <2>1, SiblingFrom
<1>c. ASSUME NEW e \in Cmd, Done(e)', ~Done(e)
      PROVE  \E s \in Slot : Run(s)
  BY <1>c, OnlyRuns DEF Done
<1>d. \A e \in Cmd : Done(e) => Done(e)'
  <2>1. ASSUME NEW s \in Slot, Run(s) PROVE \A e \in Cmd : Done(e) => Done(e)'
    BY <2>1, RunFacts
  <2> QED
    BY <2>1, OnlyRuns DEF Done
<1>1. ASSUME NEW c \in Cmd, NEW e \in Cmd, Sibling(c, e)', Done(e)'
      PROVE  Over(c)' \/ Blamed("overtaken", c)'
  <2>1. Sibling(c, e)
    BY <1>1, <1>b
  <2>2. Over(c) \/ Blamed("overtaken", c)'
    <3>1. CASE Done(e)
      BY <1>a, <2>1, <3>1 DEF EditInv
    <3>2. CASE ~Done(e)
      BY <1>1, <1>c, <2>1, <3>2, EditOvertakes
    <3> QED
      BY <3>1, <3>2
  <2>3. Over(c) => Over(c)'
    BY <1>a, <2>1, SiblingFacts, OverStays DEF Sibling, QueueInv, Ordered
  <2> QED
    BY <2>2, <2>3
<1>2. ASSUME NEW d \in Document PROVE Lines(d)'
  <2>1. SUFFICES ASSUME NEW c, c = document'[d].content, c # None
                 PROVE  /\ c \in Cmd /\ Target[c] = d /\ Kind[c] \in {"create", "edit"} /\ Done(c)'
                        /\ Kind[c] = "create" =>
                             \A e \in Cmd : Kind[e] = "edit" /\ Target[e] = d => ~Done(e)'
                        /\ \A e \in Cmd : Sibling(c, e)' /\ Done(e)' => Blamed("overtaken", c)'
    <3>1. ASSUME document'[d].content # None PROVE Written(document[d].content, d)'
      BY <2>1, <3>1 DEF Written
    <3> QED
      BY <3>1 DEF Lines
  <2>2. CASE document[d].content = c
    <3>1. /\ c \in Cmd /\ Target[c] = d /\ Kind[c] \in {"create", "edit"} /\ Done(c)
          /\ Kind[c] = "create" => \A e \in Cmd : Kind[e] = "edit" /\ Target[e] = d => ~Done(e)
          /\ \A e \in Cmd : Sibling(c, e) /\ Done(e) => Blamed("overtaken", c)
      BY <2>1, <2>2 DEF EditInv, Lines, Written
    <3>2. ASSUME NEW e \in Cmd, Kind[e] = "edit", Target[e] = d, ~Done(e), Done(e)' PROVE e = c
      <4>1. PICK s \in Slot : Run(s)
        BY <1>c, <3>2
      <4>2. document'[d].content = e
        BY <3>2, <4>1, EditRuns
      <4> QED
        BY <2>1, <4>2
    <3>3. Kind[c] = "create" => \A e \in Cmd : Kind[e] = "edit" /\ Target[e] = d => ~Done(e)'
      BY <3>1, <3>2
    <3>4. ASSUME NEW e \in Cmd, Sibling(c, e)', Done(e)' PROVE Blamed("overtaken", c)'
      <4>1. Sibling(c, e) /\ c # e /\ Kind[e] = "edit" /\ Target[e] = d
        BY <1>a, <1>b, <3>1, <3>4, SiblingFacts DEF Sibling
      <4>2. Done(e)
        BY <3>2, <3>4, <4>1
      <4> QED
        BY <1>a, <3>1, <4>1, <4>2
    <3> QED
      BY <1>d, <3>1, <3>3, <3>4
  <2>3. CASE document[d].content # c
    <3>1. PICK s \in Slot : Run(s)
      BY <2>1, <2>3, OnlyRuns
    <3>2. request[s].cmd \in Cmd /\ request[s].at = "run"
      BY <3>1 DEF WaitInv, Waited, Run
    <3>3. /\ c = request[s].cmd /\ Target[c] = d /\ Allowed(c) /\ Kind[c] \in {"create", "edit"}
      BY <2>1, <2>3, <3>1, <3>2, RunDocument DEF ServerTyped
    <3>4. Done(c)'
      <4>1. runs' = IF request[s].keyed THEN [runs EXCEPT ![request[s].cmd].keyed = @ + 1]
                    ELSE [runs EXCEPT ![request[s].cmd].direct = @ + 1]
        BY <2>1, <2>3, <3>1 DEF Run
      <4>2. /\ runs \in [Cmd -> [keyed : Nat, direct : Nat]]
            /\ runs' \in [Cmd -> [keyed : Nat, direct : Nat]] /\ c \in Cmd
        BY <3>1, <3>2, <3>3, RunFacts DEF Shape
      <4>3. runs'[c].keyed > 0 \/ runs'[c].direct > 0
        BY <3>3, <4>1, <4>2
      <4> QED
        BY <4>2, <4>3 DEF Done
    <3>5. \A e \in Cmd : Done(e)' => Done(e) \/ e = c
      BY <3>1, <3>3, EditRuns
    <3>6. ASSUME Kind[c] = "create", NEW e \in Cmd, Kind[e] = "edit", Target[e] = d, Done(e)'
          PROVE  FALSE
      <4>1. document[d].status # "absent"
        BY <3>5, <3>6 DEF IssueInv, RefusalInv, Sighted
      <4> QED
        BY <3>3, <3>6, <4>1 DEF Allowed
    <3>7. ASSUME NEW e \in Cmd, Sibling(c, e)', Done(e)' PROVE Blamed("overtaken", c)'
      <4>1. Sibling(c, e) /\ c # e
        BY <1>a, <1>b, <3>2, <3>3, <3>7, SiblingFacts
      <4>2. Done(e) /\ ~Over(c)
        BY <3>2, <3>3, <3>5, <3>7, <4>1 DEF Over
      <4> QED
        BY <1>a, <3>2, <3>3, <4>1, <4>2 DEF EditInv
    <3> QED
      BY <3>2, <3>3, <3>4, <3>6, <3>7
  <2> QED
    BY <2>2, <2>3
<1> QED
  BY <1>1, <1>2 DEF EditInv

LEMMA EditImplied == ServerTyped /\ EditInv => NewestEditWins
<1> SUFFICES ASSUME ServerTyped, EditInv, NEW c \in Cmd, NEW d \in Document, document[d].content = c,
                    NEW e \in Cmd, Kind[e] = "edit", Target[e] = d, Before(c, e), Done(e)
             PROVE  Blamed("overtaken", c)
  BY DEF NewestEditWins
<1>1. /\ Target[c] = d /\ Kind[c] \in {"create", "edit"} /\ Kind[c] # "create"
      /\ \A f \in Cmd : Sibling(c, f) /\ Done(f) => Blamed("overtaken", c)
  BY OutboxAssumption DEF EditInv, Lines, Written
<1> QED
  BY <1>1 DEF Sibling

\* The lines of a document are those of its newest edit that took effect, for
\* any number of drains, requests and instances, unless the newer edit overtook
\* the older one in one of the listed ways.
THEOREM NewestWins == Spec => []NewestEditWins
<1> DEFINE I == /\ Shape /\ ServerTyped /\ WaitInv /\ OutboxInv /\ KeyInv
                /\ IssueInv /\ RefusalInv /\ QueueInv /\ EditInv
<1>1. Init => I
  BY ShapeInit, TypeInit, WaitInit, OutboxInit, KeyInit, IssueInit, RefusalInit, QueueInit, EditInit
<1>2. I /\ [Next]_vars => I'
  <2> SUFFICES ASSUME I, [Next]_vars PROVE I'
    OBVIOUS
  <2>1. Shape' /\ ServerTyped' /\ WaitInv' /\ OutboxInv' /\ KeyInv'
    BY ShapeStep, TypeStep, OutboxStep, KeyStep
  <2>2. IssueInv'
    BY IssueStep DEF OutboxInv
  <2>3. RefusalInv' /\ EditInv'
    BY Moves, RefusalStep, EditStep DEF OutboxInv
  <2>4. QueueInv'
    BY QueueStep
  <2> QED
    BY <2>1, <2>2, <2>3, <2>4
<1>3. I => NewestEditWins
  BY EditImplied
<1> QED
  BY <1>1, <1>2, <1>3, PTL DEF Spec
=============================================================================
