------------------------- MODULE StockDocumentsProofs -------------------------
(***************************************************************************)
(* Proofs of the properties of StockDocuments, for any documents, lines,   *)
(* orders, places, quantities, requests and deaths.  In this order: an     *)
(* order has one document and may strand (OrderInv); sums over finite sets *)
(* and what the lines of a document add up to; types, and what each step   *)
(* does (TypeInv); what a request knows of the header it has read          *)
(* (DocInv); the posting that got somewhere (PostInv); what is planned for *)
(* a balance, owed to it and reserved of it (StockInv).                    *)
(***************************************************************************)
EXTENDS StockDocuments, TLAPS, FiniteSetTheorems, WellFoundedInduction

-----------------------------------------------------------------------------
(* The shape of what the proofs look at.                                   *)

Form(r) ==
  r \in [op : {r.op}, at : {r.at}, doc : {r.doc}, order : {r.order}, flag : {r.flag},
         reversed : {r.reversed}, held : {r.held}, free : {r.free}, lines : {r.lines},
         plan : {r.plan}, back : {r.back}, i : {r.i}, stale : {r.stale}, late : {r.late}]
Header(d) == d \in [status : {d.status}, flag : {d.flag}, reversed : {d.reversed}]

OrderOps == {"saveDraft", "postOrder", "deleteDraft", "closeOrder"}
\* A request that begins is one for a work order.
Begins(r) == r.at = "load" => r.op \in OrderOps /\ r.order \in Order

Shape ==
  /\ DOMAIN proc = Proc
  /\ \A p \in Proc : Form(proc[p]) /\ Begins(proc[p])
  /\ DOMAIN doc = Doc /\ \A d \in Doc : Header(doc[d])
  /\ DOMAIN order = Order

LEMMA FormFacts ==
  /\ Form(Idle) /\ Idle.doc = None /\ Idle.order = None /\ Idle.at = "idle"
  /\ \A r, part : LET q == Return(r, part) IN
       /\ Form(q) /\ q.doc \in {r.doc, None} /\ q.order \in {r.order, None} /\ q.at # "load"
<1>1. Form(Idle) /\ Idle.doc = None /\ Idle.order = None /\ Idle.at = "idle"
  BY DEF Form, Idle
<1>2. ASSUME NEW r, NEW part
      PROVE  LET q == Return(r, part) IN
               /\ Form(q) /\ q.doc \in {r.doc, None} /\ q.order \in {r.order, None} /\ q.at # "load"
  <2> DEFINE a == After(r.op, part)
  <2>1. a # "load"
    BY DEF After
  <2> HIDE DEF a
  <2>2. Return(r, part) = IF a = "idle" THEN Idle
                          ELSE [Idle EXCEPT !.op = r.op, !.order = r.order, !.doc = r.doc, !.at = a,
                                            !.late = r.late]
    BY DEF Return, a
  <2> DEFINE q == [Idle EXCEPT !.op = r.op, !.order = r.order, !.doc = r.doc, !.at = a,
                               !.late = r.late]
  <2>3. Form(q) /\ q.doc = r.doc /\ q.order = r.order /\ q.at = a
    BY DEF Form, Idle
  <2> HIDE DEF q
  <2>4. Return(r, part) = Idle \/ Return(r, part) = q
    BY <2>2 DEF q
  <2> QED
    BY <2>1, <2>3, <2>4, <1>1
<1> QED
  BY <1>1, <1>2

-----------------------------------------------------------------------------
(* The invariant: what a request or an order refers to has been created, so *)
(* that only createWarehouseDocument, which looks at the number, makes one. *)

Known  == \A p \in Proc : proc[p].doc \in Doc => doc[proc[p].doc].status # "absent"
Linked == \A o \in Order : order[o].doc \in Doc => doc[order[o].doc].status # "absent"
OrderInv == Shape /\ Known /\ Linked /\ OneDocumentPerOrder

\* What every step but those of Create, Load and the requests does: no document
\* appears or disappears, and nothing is referred to that was not before.
Calm(p) ==
  /\ Shape'
  /\ \A d \in Doc : doc'[d].status # "absent" <=> doc[d].status # "absent"
  /\ \A q \in Proc : proc'[q].doc \in {proc[q].doc, None} /\ proc'[q].order \in {proc[q].order, None}
  /\ \A q \in Proc \ {p} : proc'[q].at = proc[q].at
  /\ \A o \in Order : order'[o] = order[o] \/ o = proc[p].order
  /\ \A o \in Order : order'[o].doc \in {order[o].doc, proc[p].doc, None}
  /\ proc[p].at \in {"load", "create"} => proc'[p] = Idle /\ order' = order

LEMMA CalmKeepsInv ==
  ASSUME OrderInv, NEW p \in Proc, Calm(p)
  PROVE  OrderInv'
<1>1. None \notin Doc
  BY StockAssumption
<1>2. Known'
  <2> SUFFICES ASSUME NEW q \in Proc, proc'[q].doc \in Doc
               PROVE  doc'[proc'[q].doc].status # "absent"
    BY DEF Known
  <2>1. proc'[q].doc = proc[q].doc
    BY <1>1 DEF Calm
  <2>2. doc[proc[q].doc].status # "absent"
    BY <2>1 DEF OrderInv, Known
  <2>3. doc[proc'[q].doc].status # "absent"
    BY <2>1, <2>2
  <2> QED
    BY <2>3 DEF Calm
<1>3. Linked'
  <2> SUFFICES ASSUME NEW o \in Order, order'[o].doc \in Doc
               PROVE  doc'[order'[o].doc].status # "absent"
    BY DEF Linked
  <2>1. order'[o].doc = order[o].doc \/ order'[o].doc = proc[p].doc
    BY <1>1 DEF Calm
  <2>2. doc[order'[o].doc].status # "absent"
    BY <2>1 DEF OrderInv, Known, Linked
  <2> QED
    BY <2>2 DEF Calm
<1>4. OneDocumentPerOrder'
  BY DEF Calm, OrderInv, OneDocumentPerOrder
<1> QED
  BY <1>2, <1>3, <1>4 DEF Calm, OrderInv

LEMMA CalmKeepsStranded ==
  ASSUME OrderInv, NEW p \in Proc, Calm(p), NEW o \in Order, Stranded(o)
  PROVE  Stranded(o)'
<1>1. None \notin Order
  BY StockAssumption
<1>2. NumberTaken(o)'
  BY DEF Stranded, NumberTaken, Calm
<1>3. order'[o].doc = None
  <2>1. CASE o = proc[p].order
    BY <2>1 DEF Stranded, Calm
  <2>2. CASE o # proc[p].order
    BY <2>2 DEF Stranded, Calm
  <2> QED
    BY <2>1, <2>2
<1>4. ASSUME NEW q \in Proc, proc'[q].order = o
      PROVE  proc'[q].at \in {"load", "create"}
  <2>1. proc[q].order = o /\ proc[q].at \in {"load", "create"}
    BY <1>1, <1>4 DEF Calm, Stranded
  <2>2. q # p
    BY <1>1, <1>4, <2>1, FormFacts DEF Calm
  <2> QED
    BY <2>1, <2>2 DEF Calm
<1> QED
  BY <1>2, <1>3, <1>4 DEF Stranded

-----------------------------------------------------------------------------
(* A step that goes on as a record made from the old one is calm.          *)

\* r may follow the record of p.
Follows(p, r) ==
  /\ Form(r) /\ r.at # "load"
  /\ r.doc \in {proc[p].doc, None} /\ r.order \in {proc[p].order, None}
\* What a write leaves as it is of the others.
Same(q) ==
  /\ proc'[q].doc = proc[q].doc /\ proc'[q].order = proc[q].order
  /\ proc'[q].at = proc[q].at /\ proc'[q].op = proc[q].op
\* No document appears or disappears.
SameDocs ==
  /\ DOMAIN doc' = Doc
  /\ \A d \in Doc : Header(doc'[d]) /\ (doc'[d].status # "absent" <=> doc[d].status # "absent")

LEMMA FollowFacts ==
  ASSUME Shape, NEW p \in Proc
  PROVE  /\ Follows(p, Idle)
         /\ \A part : Follows(p, Return(proc[p], part))
         /\ \A step : step # "load" => Follows(p, [proc[p] EXCEPT !.at = step])
<1>1. Follows(p, Idle)
  BY FormFacts DEF Follows
<1>2. \A part : Follows(p, Return(proc[p], part))
  BY FormFacts DEF Follows
<1>3. ASSUME NEW step, step # "load"
      PROVE  Follows(p, [proc[p] EXCEPT !.at = step])
  <2>1. Form(proc[p])
    BY DEF Shape
  <2> QED
    BY <2>1, <1>3 DEF Follows, Form
<1> QED
  BY <1>1, <1>2, <1>3

LEMMA WriteFacts ==
  ASSUME Shape, NEW p \in Proc, NEW r, NEW K, NEW D, Write(p, r, K, D)
  PROVE  /\ DOMAIN proc' = Proc /\ proc'[p] = r
         /\ \A q \in Proc \ {p} : Form(proc'[q]) /\ Same(q)
<1>1. DOMAIN proc' = Proc /\ proc'[p] = r
  BY Zenon DEF Write
<1>2. ASSUME NEW q \in Proc \ {p}
      PROVE  Form(proc'[q]) /\ Same(q)
  <2>1. PICK a, b : proc'[q] = [proc[q] EXCEPT !.stale = a, !.late = b]
    BY Zenon DEF Write
  <2>2. Form(proc[q])
    BY DEF Shape
  <2> QED
    BY <2>1, <2>2 DEF Form, Same
<1> QED
  BY <1>1, <1>2

LEMMA CalmWrite ==
  ASSUME Shape, NEW p \in Proc, NEW r, NEW K, NEW D, Write(p, r, K, D), Follows(p, r),
         SameDocs, UNCHANGED order,
         proc[p].at \in {"load", "create"} => r = Idle
  PROVE  Calm(p)
<1>1. DOMAIN proc' = Proc /\ proc'[p] = r
  BY WriteFacts
<1>2. \A q \in Proc \ {p} : Form(proc'[q]) /\ Same(q)
  BY WriteFacts
<1>3. Shape'
  <2>1. ASSUME NEW q \in Proc
        PROVE  Form(proc'[q]) /\ Begins(proc'[q])
    BY <1>1, <1>2 DEF Shape, Follows, Same, Begins
  <2> QED
    BY <1>1, <2>1 DEF Shape, SameDocs
<1>4. \A q \in Proc : proc'[q].doc \in {proc[q].doc, None} /\ proc'[q].order \in {proc[q].order, None}
  BY <1>1, <1>2 DEF Follows, Same
<1>5. \A q \in Proc \ {p} : proc'[q].at = proc[q].at
  BY <1>2 DEF Same
<1>6. proc[p].at \in {"load", "create"} => proc'[p] = Idle /\ order' = order
  BY <1>1
<1> QED
  BY <1>3, <1>4, <1>5, <1>6 DEF Calm, SameDocs

LEMMA CalmGo ==
  ASSUME Shape, NEW p \in Proc, NEW r, Go(p, r), Follows(p, r), UNCHANGED tables,
         proc[p].at \in {"load", "create"} => r = Idle
  PROVE  Calm(p)
<1>1. SameDocs
  BY DEF tables, SameDocs, Shape
<1> QED
  BY <1>1, CalmWrite DEF Go, tables

LEMMA CalmGoto ==
  ASSUME Shape, NEW p \in Proc, NEW step, step # "load", Goto(p, step), UNCHANGED tables,
         proc[p].at \notin {"load", "create"}
  PROVE  Calm(p)
BY FollowFacts, CalmGo DEF Goto

LEMMA CalmRefuse ==
  ASSUME Shape, NEW p \in Proc, Refuse(p), UNCHANGED tables
  PROVE  Calm(p)
BY FollowFacts, CalmGo DEF Refuse

LEMMA CalmReturn ==
  ASSUME Shape, NEW p \in Proc, NEW part, Go(p, Return(proc[p], part)), UNCHANGED tables,
         proc[p].at \notin {"load", "create"}
  PROVE  Calm(p)
BY FollowFacts, CalmGo

LEMMA CalmStatus ==
  ASSUME OrderInv, NEW p \in Proc, NEW step, NEW status, NEW r, SetStatus(p, step, status, r),
         Follows(p, r), status # "absent", step \notin {"load", "create"}
  PROVE  Calm(p)
<1>1. Shape /\ Known
  BY DEF OrderInv
<1>2. SameDocs
  <2>1. DOMAIN doc' = Doc
    BY <1>1 DEF SetStatus, Shape
  <2>2. ASSUME NEW d \in Doc
        PROVE  Header(doc'[d]) /\ (doc'[d].status # "absent" <=> doc[d].status # "absent")
    <3>1. Header(doc[d])
      BY <1>1 DEF Shape
    <3>2. CASE d = proc[p].doc
      BY <1>1, <3>1, <3>2 DEF SetStatus, Shape, Header, Known
    <3>3. CASE d # proc[p].doc
      BY <1>1, <3>1, <3>3 DEF SetStatus, Shape
    <3> QED
      BY <3>2, <3>3
  <2> QED
    BY <2>1, <2>2 DEF SameDocs
<1>3. Write(p, r, {}, {proc[p].doc}) /\ order' = order /\ proc[p].at \notin {"load", "create"}
  BY DEF SetStatus
<1> QED
  BY <1>1, <1>2, <1>3, CalmWrite

LEMMA CalmPost ==
  ASSUME OrderInv, NEW p \in Proc,
         \/ PostHeader(p) \/ PostStock(p) \/ PostBalance(p) \/ PostMovement(p) \/ PostDone(p)
         \/ Tell(p) \/ Publish(p)
  PROVE  Calm(p)
<1>1. Shape /\ Form(proc[p])
  BY DEF OrderInv, Shape
<1>2. CASE PostHeader(p)
  <2>1. proc[p].at \notin {"load", "create"} /\ UNCHANGED tables
    BY <1>2 DEF PostHeader
  <2>2. Go(p, Return(proc[p], "post")) \/ Refuse(p) \/ Goto(p, "stock")
    BY <1>2 DEF PostHeader
  <2> QED
    BY <1>1, <2>1, <2>2, CalmReturn, CalmRefuse, CalmGoto
<1>3. CASE PostStock(p)
  <2>1. proc[p].at \notin {"load", "create"} /\ UNCHANGED tables
    BY <1>3, Zenon DEF PostStock
  <2>2. Refuse(p) \/ \E plan : Go(p, [proc[p] EXCEPT !.at = "balance", !.i = 1, !.plan = plan])
    BY <1>3, Zenon DEF PostStock
  <2>3. ASSUME NEW plan
        PROVE  Follows(p, [proc[p] EXCEPT !.at = "balance", !.i = 1, !.plan = plan])
    BY <1>1 DEF Follows, Form
  <2> QED
    BY <1>1, <2>1, <2>2, <2>3, CalmRefuse, CalmGo, Zenon
<1>4. CASE PostBalance(p)
  <2>1. proc[p].at \notin {"load", "create"} /\ UNCHANGED <<doc, order>>
    BY <1>4 DEF PostBalance
  <2>2. SameDocs
    BY <1>1, <2>1 DEF SameDocs, Shape
  <2>3. Write(p, Idle, {}, {})
        \/ \E plan, stale, K : Write(p, [proc[p] EXCEPT !.at = "movement", !.plan = plan, !.stale = stale], K, {})
    <3> DEFINE k == Line(proc[p]).place
               plan == [proc[p].plan EXCEPT ![k].row = TRUE]
               r == [proc[p] EXCEPT !.at = "movement", !.plan[k].row = TRUE, !.stale = @ \ {k}]
    <3>1. Refuse(p) \/ Write(p, r, {k}, {})
      BY <1>4 DEF PostBalance
    <3>2. r = [proc[p] EXCEPT !.at = "movement", !.plan = plan, !.stale = proc[p].stale \ {k}]
      BY <1>1 DEF Form
    <3> HIDE DEF r, plan, k
    <3> QED
      BY <3>1, <3>2, Zenon DEF Refuse, Go
  <2>4. ASSUME NEW plan, NEW stale
        PROVE  Follows(p, [proc[p] EXCEPT !.at = "movement", !.plan = plan, !.stale = stale])
    BY <1>1 DEF Follows, Form
  <2> QED
    BY <1>1, <2>1, <2>2, <2>3, <2>4, FollowFacts, CalmWrite, Zenon
<1>5. CASE PostMovement(p)
  <2>1. proc[p].at \notin {"load", "create"} /\ UNCHANGED <<doc, order>>
    BY <1>5 DEF PostMovement
  <2>2. SameDocs
    BY <1>1, <2>1 DEF SameDocs, Shape
  <2> DEFINE r == IF proc[p].i = Len(Lines[proc[p].doc]) THEN [proc[p] EXCEPT !.at = "posted"]
                  ELSE [proc[p] EXCEPT !.at = "balance", !.i = @ + 1]
  <2>3. Follows(p, r)
    BY <1>1 DEF Follows, Form
  <2>4. Write(p, r, {}, {proc[p].doc})
    BY <1>5 DEF PostMovement
  <2> QED
    BY <1>1, <2>1, <2>2, <2>3, <2>4, CalmWrite
<1>6. CASE PostDone(p)
  <2> DEFINE r == [Idle EXCEPT !.op = proc[p].op, !.at = "tell", !.doc = proc[p].doc,
                               !.order = proc[p].order, !.late = proc[p].late]
  <2>1. Follows(p, r)
    BY DEF Follows, Form, Idle
  <2>2. SetStatus(p, "posted", "posted", r)
    BY <1>6 DEF PostDone
  <2> QED
    BY <2>1, <2>2, CalmStatus
<1>7. CASE Tell(p)
  <2>1. Follows(p, [proc[p] EXCEPT !.at = "publish", !.plan = stock])
    BY <1>1 DEF Follows, Form
  <2> QED
    BY <1>1, <1>7, <2>1, CalmGo DEF Tell
<1>8. CASE Publish(p)
  <2>1. PICK part : Go(p, Return(proc[p], part))
    BY <1>8 DEF Publish
  <2>2. Write(p, Return(proc[p], part), {}, {}) /\ UNCHANGED <<doc, order>> /\ proc[p].at = "publish"
    BY <1>8, <2>1 DEF Publish, Go
  <2>3. SameDocs
    BY <1>1, <2>2 DEF SameDocs, Shape
  <2> QED
    BY <1>1, <2>2, <2>3, FollowFacts, CalmWrite
<1> QED
  BY <1>2, <1>3, <1>4, <1>5, <1>6, <1>7, <1>8

LEMMA CalmCards ==
  ASSUME OrderInv, NEW p \in Proc,
         \/ PlanHeader(p) \/ PlanDone(p) \/ CancelHeader(p) \/ CancelDone(p)
         \/ EditHeader(p) \/ EditDone(p)
  PROVE  Calm(p)
<1>1. Shape /\ Known /\ Form(proc[p])
  BY DEF OrderInv, Shape
<1>2. CASE PlanHeader(p) \/ EditHeader(p)
  <2>1. proc[p].at \notin {"load", "create"} /\ UNCHANGED tables
    BY <1>2 DEF PlanHeader, EditHeader
  <2>2. Refuse(p) \/ \E step \in {"planned", "edited"} : Goto(p, step)
    BY <1>2 DEF PlanHeader, EditHeader
  <2> QED
    BY <1>1, <2>1, <2>2, CalmRefuse, CalmGoto
<1>3. CASE PlanDone(p)
  BY <1>1, <1>3, FollowFacts, CalmStatus DEF PlanDone
<1>4. CASE CancelHeader(p)
  <2>1. proc[p].at \notin {"load", "create"} /\ UNCHANGED tables
    BY <1>4 DEF CancelHeader
  <2>2. Refuse(p) \/ Go(p, Return(proc[p], "cancel")) \/ Goto(p, "cancelled")
    BY <1>4 DEF CancelHeader
  <2> QED
    BY <1>1, <2>1, <2>2, CalmRefuse, CalmReturn, CalmGoto
<1>5. CASE CancelDone(p)
  BY <1>1, <1>5, FollowFacts, CalmStatus DEF CancelDone
<1>6. CASE EditDone(p)
  <2>1. proc[p].at \notin {"load", "create"} /\ UNCHANGED order
    BY <1>6, Zenon DEF EditDone
  <2>2. CASE rows[proc[p].doc] # "none"
    <3>1. Write(p, Idle, {}, {}) /\ UNCHANGED doc
      BY <1>6, <2>2 DEF EditDone, Refuse, Go
    <3>2. SameDocs
      BY <1>1, <3>1 DEF SameDocs, Shape
    <3> QED
      BY <1>1, <2>1, <3>1, <3>2, FollowFacts, CalmWrite
  <2>3. CASE rows[proc[p].doc] = "none"
    <3> DEFINE new == [status |-> "draft", flag |-> FALSE, reversed |-> FALSE]
    <3>1. doc' = [doc EXCEPT ![proc[p].doc] = new]
      BY <1>6, <2>3, Zenon DEF EditDone
    <3>2. Header(new)
      BY DEF Header
    <3>3. SameDocs
      <4>1. ASSUME NEW d \in Doc
            PROVE  Header(doc'[d]) /\ (doc'[d].status # "absent" <=> doc[d].status # "absent")
        <5>1. CASE d = proc[p].doc
          BY <1>1, <3>1, <3>2, <5>1 DEF Shape, Known
        <5>2. CASE d # proc[p].doc
          BY <1>1, <3>1, <5>2 DEF Shape
        <5> QED
          BY <5>1, <5>2
      <4> QED
        BY <1>1, <3>1, <4>1 DEF SameDocs, Shape
    <3> DEFINE r == Return(proc[p], "edit")
    <3>4. Follows(p, r)
      BY <1>1, FollowFacts
    <3>5. DOMAIN proc' = Proc /\ proc'[p] = r
      <4> HIDE DEF r
      <4>1. proc'[p] = Return(proc[p], "edit") /\ DOMAIN proc' = Proc
        BY <1>6, <2>3, Zenon DEF EditDone
      <4> QED
        BY <4>1 DEF r
    <3>6. ASSUME NEW q \in Proc \ {p}
          PROVE  Form(proc'[q]) /\ Same(q)
      <4>1. \/ proc'[q] = proc[q]
            \/ \E b : proc'[q] = [proc[q] EXCEPT !.lines = FALSE, !.late = b]
        BY <1>6, <2>3, ZenonT(40) DEF EditDone
      <4>2. Form(proc[q])
        BY <1>1 DEF Shape
      <4> QED
        BY <4>1, <4>2, Zenon DEF Form, Same
    <3>7. Shape'
      <4> HIDE DEF r
      <4>1. ASSUME NEW q \in Proc
            PROVE  Form(proc'[q]) /\ Begins(proc'[q])
        BY <1>1, <3>4, <3>5, <3>6 DEF Shape, Follows, Same, Begins
      <4> QED
        BY <1>1, <2>1, <3>3, <3>5, <4>1 DEF Shape, SameDocs
    <3> HIDE DEF r
    <3>8. \A q \in Proc : proc'[q].doc \in {proc[q].doc, None} /\ proc'[q].order \in {proc[q].order, None}
      BY <3>4, <3>5, <3>6 DEF Follows, Same
    <3> QED
      BY <2>1, <3>3, <3>6, <3>7, <3>8 DEF Calm, SameDocs, Same
  <2> QED
    BY <2>2, <2>3
<1> QED
  BY <1>2, <1>3, <1>4, <1>5, <1>6

LEMMA CalmReverse ==
  ASSUME OrderInv, NEW p \in Proc,
         ReverseHeader(p) \/ ReverseStock(p) \/ ReverseNumber(p) \/ ReverseDone(p)
  PROVE  Calm(p)
<1>1. Shape /\ Known /\ Form(proc[p])
  BY DEF OrderInv, Shape
<1>2. CASE ReverseHeader(p)
  <2>1. proc[p].at = "reversal" /\ UNCHANGED tables
    BY <1>2 DEF ReverseHeader
  <2>2. Refuse(p) \/ \E flag : Go(p, [proc[p] EXCEPT !.at = "movements", !.flag = flag])
    BY <1>2, Zenon DEF ReverseHeader
  <2>3. ASSUME NEW flag
        PROVE  Follows(p, [proc[p] EXCEPT !.at = "movements", !.flag = flag])
    BY <1>1 DEF Follows, Form
  <2> QED
    BY <1>1, <2>1, <2>2, <2>3, CalmRefuse, CalmGo, Zenon
<1>3. CASE ReverseStock(p)
  <2>1. proc[p].at = "movements" /\ UNCHANGED tables
    BY <1>3, Zenon DEF ReverseStock
  <2>2. Refuse(p)
        \/ \E back, plan : Go(p, [proc[p] EXCEPT !.at = "number", !.back = back, !.plan = plan])
    BY <1>3, Zenon DEF ReverseStock
  <2>3. ASSUME NEW back, NEW plan
        PROVE  Follows(p, [proc[p] EXCEPT !.at = "number", !.back = back, !.plan = plan])
    BY <1>1 DEF Follows, Form
  <2> QED
    BY <1>1, <2>1, <2>2, <2>3, CalmRefuse, CalmGo, Zenon
<1>4. CASE ReverseNumber(p)
  <2>1. proc[p].at = "number" /\ UNCHANGED tables
    BY <1>4 DEF ReverseNumber
  <2>2. PICK free : Go(p, [proc[p] EXCEPT !.at = "reverse", !.free = free])
    BY <1>4, Zenon DEF ReverseNumber
  <2>3. Follows(p, [proc[p] EXCEPT !.at = "reverse", !.free = free])
    BY <1>1 DEF Follows, Form
  <2> QED
    BY <1>1, <2>1, <2>2, <2>3, CalmGo
<1>5. CASE ReverseDone(p)
  <2>1. proc[p].at = "reverse" /\ UNCHANGED order
    BY <1>5 DEF ReverseDone
  <2> DEFINE r == [Idle EXCEPT !.op = proc[p].op, !.at = "tell", !.doc = proc[p].doc]
  <2>2. \/ Refuse(p) /\ UNCHANGED doc
        \/ /\ doc' = [doc EXCEPT ![proc[p].doc].flag = proc[p].flag, ![proc[p].doc].reversed = TRUE]
           /\ \E K : Write(p, r, K, {proc[p].doc})
    BY <1>5 DEF ReverseDone
  <2>3. CASE Refuse(p) /\ UNCHANGED doc
    <3>1. SameDocs
      BY <1>1, <2>3 DEF SameDocs, Shape
    <3>2. Write(p, Idle, {}, {})
      BY <2>3 DEF Refuse, Go
    <3> QED
      BY <1>1, <2>1, <3>1, <3>2, FollowFacts, CalmWrite
  <2>4. CASE /\ doc' = [doc EXCEPT ![proc[p].doc].flag = proc[p].flag, ![proc[p].doc].reversed = TRUE]
             /\ \E K : Write(p, r, K, {proc[p].doc})
    <3>1. SameDocs
      BY <1>1, <2>4 DEF SameDocs, Shape, Header
    <3>2. Follows(p, r)
      BY DEF Follows, Form, Idle
    <3> HIDE DEF r
    <3> QED
      BY <1>1, <2>1, <2>4, <3>1, <3>2, CalmWrite
  <2> QED
    BY <2>2, <2>3, <2>4
<1> QED
  BY <1>2, <1>3, <1>4, <1>5

LEMMA CalmReserve ==
  ASSUME OrderInv, NEW p \in Proc,
         ReserveHeader(p) \/ ReserveDone(p) \/ ReleaseHeader(p) \/ ReleaseDone(p)
  PROVE  Calm(p)
<1>1. Shape /\ Form(proc[p])
  BY DEF OrderInv, Shape
<1>2. CASE ReserveHeader(p)
  <2>1. proc[p].at = "reserve" /\ UNCHANGED tables
    BY <1>2 DEF ReserveHeader
  <2>2. \/ Refuse(p) \/ Go(p, Return(proc[p], "reserve"))
        \/ \E b : Go(p, [proc[p] EXCEPT !.at = "reserved", !.lines = TRUE, !.reversed = b])
    BY <1>2, Zenon DEF ReserveHeader
  <2>3. ASSUME NEW b
        PROVE  Follows(p, [proc[p] EXCEPT !.at = "reserved", !.lines = TRUE, !.reversed = b])
    BY <1>1 DEF Follows, Form
  <2> QED
    BY <1>1, <2>1, <2>2, <2>3, CalmRefuse, CalmReturn, CalmGo, Zenon
<1>3. CASE ReserveDone(p)
  <2>1. proc[p].at = "reserved" /\ UNCHANGED order
    BY <1>3 DEF ReserveDone
  <2>2. \/ Refuse(p) /\ UNCHANGED doc
        \/ /\ doc' = [doc EXCEPT ![proc[p].doc].flag = TRUE, ![proc[p].doc].reversed = proc[p].reversed]
           /\ \E K : Write(p, Return(proc[p], "reserve"), K, {proc[p].doc})
    BY <1>3 DEF ReserveDone
  <2>3. SameDocs
    BY <1>1, <2>2 DEF SameDocs, Shape, Header
  <2>4. \E K, D : Write(p, Idle, K, D) \/ Write(p, Return(proc[p], "reserve"), K, D)
    BY <2>2 DEF Refuse, Go
  <2> QED
    BY <1>1, <2>1, <2>3, <2>4, FollowFacts, CalmWrite
<1>4. CASE ReleaseHeader(p)
  <2>1. proc[p].at = "release" /\ UNCHANGED tables
    BY <1>4 DEF ReleaseHeader
  <2>2. \/ Go(p, Return(proc[p], "release"))
        \/ \E a, b : Go(p, [proc[p] EXCEPT !.at = "released", !.held = a, !.reversed = b])
    BY <1>4, Zenon DEF ReleaseHeader
  <2>3. ASSUME NEW a, NEW b
        PROVE  Follows(p, [proc[p] EXCEPT !.at = "released", !.held = a, !.reversed = b])
    BY <1>1 DEF Follows, Form
  <2> QED
    BY <1>1, <2>1, <2>2, <2>3, CalmReturn, CalmGo, Zenon
<1>5. CASE ReleaseDone(p)
  <2>1. proc[p].at = "released" /\ UNCHANGED order
    BY <1>5 DEF ReleaseDone
  <2>2. /\ doc' = [doc EXCEPT ![proc[p].doc].flag = FALSE, ![proc[p].doc].reversed = proc[p].reversed]
        /\ \E K : Write(p, Return(proc[p], "release"), K, {proc[p].doc})
    BY <1>5 DEF ReleaseDone
  <2>3. SameDocs
    BY <1>1, <2>2 DEF SameDocs, Shape, Header
  <2> QED
    BY <1>1, <2>1, <2>2, <2>3, FollowFacts, CalmWrite
<1> QED
  BY <1>2, <1>3, <1>4, <1>5

LEMMA CalmOrder ==
  ASSUME OrderInv, NEW p \in Proc, Link(p) \/ Close(p) \/ Unlink(p)
  PROVE  Calm(p)
<1>1. Shape
  BY DEF OrderInv
<1>a. PICK step \in {"link", "close", "unlink"} :
        \E x : SetOrder(p, step, x) /\ x.doc \in {proc[p].doc, None}
  BY DEF Link, Close, Unlink
<1>2. PICK o : SetOrder(p, step, o) /\ o.doc \in {proc[p].doc, None}
  BY <1>a
<1>3. /\ proc[p].at \notin {"load", "create"} /\ doc' = doc /\ Write(p, Idle, {}, {})
      /\ order' = [order EXCEPT ![proc[p].order] = o]
  BY <1>2 DEF SetOrder, Go
<1>4. SameDocs
  BY <1>1, <1>3 DEF SameDocs, Shape
<1>5. DOMAIN proc' = Proc /\ proc'[p] = Idle
  BY <1>1, <1>3, WriteFacts
<1>6. \A q \in Proc \ {p} : Form(proc'[q]) /\ Same(q)
  BY <1>1, <1>3, WriteFacts
<1>7. Shape'
  <2>1. ASSUME NEW q \in Proc
        PROVE  Form(proc'[q]) /\ Begins(proc'[q])
    BY <1>1, <1>5, <1>6, FormFacts DEF Shape, Same, Begins
  <2>2. DOMAIN order' = Order
    BY <1>1, <1>3 DEF Shape
  <2> QED
    BY <1>4, <1>5, <2>1, <2>2 DEF Shape, SameDocs
<1>8. ASSUME NEW x \in Order
      PROVE  /\ order'[x] = order[x] \/ x = proc[p].order
             /\ order'[x].doc \in {order[x].doc, proc[p].doc, None}
  BY <1>1, <1>2, <1>3 DEF Shape
<1>9. \A q \in Proc : proc'[q].doc \in {proc[q].doc, None} /\ proc'[q].order \in {proc[q].order, None}
  BY <1>5, <1>6, FormFacts DEF Same
<1> QED
  BY <1>3, <1>4, <1>6, <1>7, <1>8, <1>9 DEF Calm, SameDocs, Same

LEMMA CalmDie ==
  ASSUME OrderInv, NEW p \in Proc, Die(p)
  PROVE  Calm(p)
BY CalmRefuse DEF OrderInv, Die

-----------------------------------------------------------------------------
(* The steps that are not calm.                                            *)

\* A new request refers to a document that exists.
LEMMA AskSafe ==
  ASSUME OrderInv, NEW p \in Proc,
         \/ \E d \in Doc, op \in {"post", "plan", "cancel", "edit", "reverse"} : AskDoc(p, d, op)
         \/ \E o \in Order, op \in OrderOps : AskOrder(p, o, op)
  PROVE  /\ OrderInv'
         /\ \A o \in Order : Stranded(o) => Stranded(o)'
<1>1. Shape /\ Known /\ Linked /\ OneDocumentPerOrder /\ None \notin Order /\ None \notin Doc
  BY StockAssumption DEF OrderInv
<1>2. UNCHANGED <<doc, order>> /\ proc[p] = Idle
  BY Zenon DEF AskDoc, AskOrder, tables
<1>3. PICK r : /\ proc' = [proc EXCEPT ![p] = r]
               /\ Form(r) /\ Begins(r)
               /\ r.doc \in Doc => doc[r.doc].status # "absent"
               /\ r.order = None \/ r.at = "load"
  <2>1. CASE \E d \in Doc, op \in {"post", "plan", "cancel", "edit", "reverse"} : AskDoc(p, d, op)
    <3>1. PICK d \in Doc, op \in {"post", "plan", "cancel", "edit", "reverse"} : AskDoc(p, d, op)
      BY <2>1
    <3> DEFINE at == IF op = "reverse" THEN "reversal" ELSE op
               r == [Idle EXCEPT !.op = op, !.doc = d, !.at = at]
    <3>2. proc' = [proc EXCEPT ![p] = r]
      BY <1>1, <1>2, <3>1, Zenon DEF AskDoc, Shape
    <3>3. Form(r) /\ r.at # "load" /\ r.doc = d /\ r.order = None
      BY DEF Form, Idle
    <3>4. doc[d].status # "absent"
      BY <3>1, Zenon DEF AskDoc
    <3> HIDE DEF r
    <3> QED
      BY <3>2, <3>3, <3>4 DEF Begins
  <2>2. CASE \E o \in Order, op \in OrderOps : AskOrder(p, o, op)
    <3>1. PICK o \in Order, op \in OrderOps : AskOrder(p, o, op)
      BY <2>2
    <3> DEFINE r == [Idle EXCEPT !.op = op, !.order = o, !.at = "load"]
    <3>2. proc' = [proc EXCEPT ![p] = r]
      BY <1>1, <1>2, <3>1, Zenon DEF AskOrder, Shape
    <3>3. Form(r) /\ r.at = "load" /\ r.op = op /\ r.order = o /\ r.doc = None
      BY DEF Form, Idle
    <3> HIDE DEF r
    <3> QED
      BY <1>1, <3>2, <3>3 DEF Begins
  <2> QED
    BY <2>1, <2>2
<1>4. DOMAIN proc' = Proc /\ proc'[p] = r /\ \A q \in Proc \ {p} : proc'[q] = proc[q]
  BY <1>1, <1>3 DEF Shape
<1>5. Shape'
  BY <1>1, <1>2, <1>3, <1>4 DEF Shape
<1>6. Known' /\ Linked'
  BY <1>1, <1>2, <1>3, <1>4 DEF Known, Linked
<1>7. OneDocumentPerOrder'
  BY <1>1, <1>2 DEF OneDocumentPerOrder
<1>8. ASSUME NEW o \in Order, Stranded(o)
      PROVE  Stranded(o)'
  BY <1>1, <1>2, <1>3, <1>4, <1>8 DEF Stranded, NumberTaken
<1> QED
  BY <1>5, <1>6, <1>7, <1>8 DEF OrderInv

\* A document is made only for an order that has none, so not for a stranded one.
LEMMA CreateSafe ==
  ASSUME OrderInv, NEW p \in Proc, Create(p)
  PROVE  /\ OrderInv'
         /\ \A o \in Order : Stranded(o) => Stranded(o)'
<1>1. Shape /\ Known /\ Linked /\ OneDocumentPerOrder /\ None \notin Order /\ None \notin Doc
  BY StockAssumption DEF OrderInv
<1>2. CASE NumberTaken(proc[p].order)
  <2>1. Refuse(p) /\ UNCHANGED tables
    BY <1>2 DEF Create, tables
  <2> QED
    BY <1>1, <2>1, CalmRefuse, CalmKeepsInv, CalmKeepsStranded
<1>3. CASE ~NumberTaken(proc[p].order)
  <2>1. PICK d \in Doc :
          /\ OrderOf[d] = proc[p].order /\ doc[d].status = "absent"
          /\ doc' = [doc EXCEPT ![d].status = IF d \in Incoming THEN "planned" ELSE "draft"]
          /\ Go(p, Return([proc[p] EXCEPT !.doc = d], "create"))
    BY <1>3 DEF Create
  <2>2. order' = order
    BY DEF Create
  <2> DEFINE x == [proc[p] EXCEPT !.doc = d]
             r == Return(x, "create")
  <2>3. x.doc = d /\ x.order = proc[p].order
    <3>1. Form(proc[p])
      BY <1>1 DEF Shape
    <3> QED
      BY <3>1 DEF Form
  <2>4. Form(r) /\ r.doc \in {d, None} /\ r.order \in {proc[p].order, None} /\ r.at # "load"
    <3> HIDE DEF x
    <3> QED
      BY <2>3, FormFacts
  <2>5. Write(p, r, {}, {})
    BY <2>1 DEF Go
  <2> HIDE DEF x, r
  <2>6. /\ DOMAIN proc' = Proc /\ proc'[p] = r
        /\ \A q \in Proc \ {p} : Form(proc'[q]) /\ Same(q)
    BY <1>1, <2>5, WriteFacts
  <2>7. DOMAIN doc' = Doc /\ doc'[d].status # "absent" /\ Header(doc'[d])
    <3>1. Header(doc[d])
      BY <1>1 DEF Shape
    <3> QED
      BY <1>1, <2>1, <3>1 DEF Shape, Header
  <2>8. \A e \in Doc \ {d} : doc'[e] = doc[e]
    BY <1>1, <2>1 DEF Shape
  <2>9. Shape'
    <3>1. ASSUME NEW q \in Proc
          PROVE  Form(proc'[q]) /\ Begins(proc'[q])
      BY <1>1, <2>4, <2>6 DEF Shape, Same, Begins
    <3> QED
      BY <1>1, <2>2, <2>6, <2>7, <2>8, <3>1 DEF Shape
  <2>10. Known'
    <3> SUFFICES ASSUME NEW q \in Proc, proc'[q].doc \in Doc
                 PROVE  doc'[proc'[q].doc].status # "absent"
      BY DEF Known
    <3>1. CASE q = p
      BY <1>1, <2>4, <2>6, <2>7, <3>1
    <3>2. CASE q # p
      BY <1>1, <2>6, <2>7, <2>8, <3>2 DEF Known, Same
    <3> QED
      BY <3>1, <3>2
  <2>11. Linked'
    BY <1>1, <2>2, <2>7, <2>8 DEF Linked
  <2>12. OneDocumentPerOrder'
    BY <1>1, <1>3, <2>1, <2>8 DEF OneDocumentPerOrder, NumberTaken
  <2>13. ASSUME NEW o \in Order, Stranded(o)
         PROVE  Stranded(o)'
    <3>1. NumberTaken(o)'
      BY <2>7, <2>8, <2>13 DEF Stranded, NumberTaken
    <3>2. proc[p].order # o
      BY <1>3, <2>13 DEF Stranded
    <3>3. ASSUME NEW q \in Proc, proc'[q].order = o
          PROVE  proc'[q].at \in {"load", "create"}
      <4>1. q # p
        BY <1>1, <2>4, <2>6, <3>2, <3>3
      <4> QED
        BY <2>6, <2>13, <3>3, <4>1 DEF Same, Stranded
    <3> QED
      BY <2>2, <2>13, <3>1, <3>3 DEF Stranded
  <2> QED
    BY <2>9, <2>10, <2>11, <2>12, <2>13 DEF OrderInv
<1> QED
  BY <1>2, <1>3

\* A request for an order takes up the document linked to it, if there is one;
\* without one it is refused or goes on to create.
LEMMA LoadSafe ==
  ASSUME OrderInv, NEW p \in Proc, Load(p)
  PROVE  /\ OrderInv'
         /\ \A o \in Order : Stranded(o) => Stranded(o)'
<1>1. Shape /\ Known /\ Linked /\ OneDocumentPerOrder /\ None \notin Order /\ None \notin Doc
  BY StockAssumption DEF OrderInv
<1>2. Form(proc[p]) /\ proc[p].at = "load" /\ proc[p].op \in OrderOps /\ proc[p].order \in Order
  BY <1>1 DEF Load, Shape, Begins
<1>3. UNCHANGED <<doc, order>>
  BY DEF Load, tables
<1> DEFINE linked == order[proc[p].order].doc
<1>4. \/ Go(p, Idle)
      \/ Go(p, [proc[p] EXCEPT !.at = "create"])
      \/ /\ linked # None
         /\ \E step \in {"release", "post", "unlink"} :
              Go(p, [proc[p] EXCEPT !.at = step, !.doc = linked])
  <2>1. CASE proc[p].op = "closeOrder"
    BY <2>1 DEF Load, Refuse, Goto
  <2>2. CASE proc[p].op = "saveDraft"
    BY <2>2 DEF Load, Refuse, Goto
  <2>3. CASE proc[p].op = "postOrder"
    BY <2>3 DEF Load, Refuse, Goto
  <2>4. CASE proc[p].op = "deleteDraft"
    BY <2>4 DEF Load, Refuse, Goto
  <2> QED
    BY <1>2, <2>1, <2>2, <2>3, <2>4 DEF OrderOps
<1>5. PICK r : /\ Write(p, r, {}, {})
               /\ Form(r) /\ r.at # "load"
               /\ r.doc \in {proc[p].doc, linked, None} /\ r.order \in {proc[p].order, None}
               /\ linked = None => r.order = None \/ r.at = "create"
  <2>1. CASE Go(p, Idle)
    BY <2>1, FormFacts DEF Go
  <2>2. CASE Go(p, [proc[p] EXCEPT !.at = "create"])
    <3> DEFINE r == [proc[p] EXCEPT !.at = "create"]
    <3>1. Form(r) /\ r.at = "create" /\ r.doc = proc[p].doc /\ r.order = proc[p].order
      BY <1>2 DEF Form
    <3> HIDE DEF r
    <3>2. Write(p, r, {}, {})
      BY <2>2 DEF Go, r
    <3> QED
      BY <3>1, <3>2
  <2>3. CASE /\ linked # None
             /\ \E step \in {"release", "post", "unlink"} :
                  Go(p, [proc[p] EXCEPT !.at = step, !.doc = linked])
    <3>1. PICK step \in {"release", "post", "unlink"} :
            Go(p, [proc[p] EXCEPT !.at = step, !.doc = linked])
      BY <2>3
    <3> DEFINE r == [proc[p] EXCEPT !.at = step, !.doc = linked]
    <3>2. Form(r) /\ r.at = step /\ r.doc = linked /\ r.order = proc[p].order
      BY <1>2 DEF Form
    <3>3. Write(p, r, {}, {})
      BY <3>1 DEF Go
    <3> HIDE DEF r
    <3> QED
      BY <2>3, <3>2, <3>3
  <2> QED
    BY <1>4, <2>1, <2>2, <2>3
<1> HIDE DEF linked
<1>6. /\ DOMAIN proc' = Proc /\ proc'[p] = r
      /\ \A q \in Proc \ {p} : Form(proc'[q]) /\ Same(q)
  BY <1>1, <1>5, WriteFacts
<1>7. Shape'
  <2>1. ASSUME NEW q \in Proc
        PROVE  Form(proc'[q]) /\ Begins(proc'[q])
    BY <1>1, <1>5, <1>6 DEF Shape, Same, Begins
  <2> QED
    BY <1>1, <1>3, <1>6, <2>1 DEF Shape
<1>8. Known'
  <2> SUFFICES ASSUME NEW q \in Proc, proc'[q].doc \in Doc
               PROVE  doc'[proc'[q].doc].status # "absent"
    BY DEF Known
  <2>1. CASE q = p
    <3>1. linked \in Doc => doc[linked].status # "absent"
      BY <1>1, <1>2 DEF Linked, linked
    <3> QED
      BY <1>1, <1>3, <1>5, <1>6, <2>1, <3>1 DEF Known
  <2>2. CASE q # p
    BY <1>1, <1>3, <1>6, <2>2 DEF Known, Same
  <2> QED
    BY <2>1, <2>2
<1>9. Linked' /\ OneDocumentPerOrder'
  BY <1>1, <1>3 DEF Linked, OneDocumentPerOrder
<1>10. ASSUME NEW o \in Order, Stranded(o)
       PROVE  Stranded(o)'
  <2>1. ASSUME NEW q \in Proc, proc'[q].order = o
        PROVE  proc'[q].at \in {"load", "create"}
    <3>1. CASE q = p
      <4>1. proc[p].order = o /\ linked = None
        BY <1>1, <1>5, <1>6, <1>10, <2>1, <3>1 DEF Stranded, linked
      <4> QED
        BY <1>1, <1>5, <1>6, <2>1, <3>1, <4>1
    <3>2. CASE q # p
      BY <1>6, <1>10, <2>1, <3>2 DEF Same, Stranded
    <3> QED
      BY <3>1, <3>2
  <2> QED
    BY <1>3, <1>10, <2>1 DEF Stranded, NumberTaken
<1> QED
  BY <1>7, <1>8, <1>9, <1>10 DEF OrderInv

-----------------------------------------------------------------------------
(* The theorems.                                                           *)

LEMMA OrderStep ==
  ASSUME OrderInv, [Next]_vars
  PROVE  /\ OrderInv'
         /\ \A o \in Order : Stranded(o) => Stranded(o)'
<1>1. CASE UNCHANGED vars
  <2>1. UNCHANGED <<doc, order, proc>>
    BY <1>1 DEF vars, tables
  <2>2. OrderInv'
    BY <2>1 DEF OrderInv, Shape, Known, Linked, OneDocumentPerOrder
  <2>3. \A o \in Order : Stranded(o) => Stranded(o)'
    BY <2>1 DEF Stranded, NumberTaken
  <2> QED
    BY <2>2, <2>3
<1>2. CASE Next
  <2>1. PICK p \in Proc :
          \/ \E d \in Doc, op \in {"post", "plan", "cancel", "edit", "reverse"} : AskDoc(p, d, op)
          \/ \E o \in Order, op \in OrderOps : AskOrder(p, o, op)
          \/ PostHeader(p) \/ PostStock(p) \/ PostBalance(p) \/ PostMovement(p) \/ PostDone(p)
          \/ Tell(p) \/ Publish(p)
          \/ PlanHeader(p) \/ PlanDone(p) \/ CancelHeader(p) \/ CancelDone(p)
          \/ Create(p) \/ EditHeader(p) \/ EditDone(p)
          \/ ReverseHeader(p) \/ ReverseStock(p) \/ ReverseNumber(p) \/ ReverseDone(p)
          \/ ReserveHeader(p) \/ ReserveDone(p) \/ ReleaseHeader(p) \/ ReleaseDone(p)
          \/ Load(p) \/ Link(p) \/ Close(p) \/ Unlink(p)
          \/ Die(p)
    BY <1>2 DEF Next, OrderOps
  <2>2. \/ Calm(p) \/ Create(p) \/ Load(p)
        \/ \E d \in Doc, op \in {"post", "plan", "cancel", "edit", "reverse"} : AskDoc(p, d, op)
        \/ \E o \in Order, op \in OrderOps : AskOrder(p, o, op)
    BY <2>1, CalmPost, CalmCards, CalmReverse, CalmReserve, CalmOrder, CalmDie
  <2> QED
    BY <2>2, CalmKeepsInv, CalmKeepsStranded, CreateSafe, LoadSafe, AskSafe
<1> QED
  BY <1>1, <1>2

LEMMA OrderInit == Init => OrderInv
<1> SUFFICES ASSUME Init PROVE OrderInv
  OBVIOUS
<1>1. None \notin Doc
  BY StockAssumption
<1>2. DOMAIN proc = Proc /\ \A p \in Proc : proc[p] = Idle
  BY DEF Init
<1>3. DOMAIN order = Order /\ \A o \in Order : order[o].doc = None
  BY DEF Init
<1>4. PICK status : doc = [d \in Doc |-> [flag |-> FALSE, reversed |-> FALSE, status |-> status[d]]]
  <2>1. PICK planned \in SUBSET Incoming :
          doc = [d \in Doc |-> [flag |-> FALSE, reversed |-> FALSE,
                                status |-> CASE OrderOf[d] # None -> "absent"
                                             [] OrderOf[d] = None /\ d \in planned -> "planned"
                                             [] OTHER -> "draft"]]
    BY DEF Init
  <2> DEFINE status == [d \in Doc |-> CASE OrderOf[d] # None -> "absent"
                                        [] OrderOf[d] = None /\ d \in planned -> "planned"
                                        [] OTHER -> "draft"]
  <2>2. doc = [d \in Doc |-> [flag |-> FALSE, reversed |-> FALSE, status |-> status[d]]]
    BY <2>1
  <2> QED
    BY <2>2
<1>5. \A d \in Doc : OrderOf[d] # None => doc[d].status = "absent"
  BY DEF Init
<1>6. DOMAIN doc = Doc /\ \A d \in Doc : Header(doc[d])
  BY <1>4 DEF Header
<1>7. Shape
  BY <1>2, <1>3, <1>6, FormFacts DEF Shape, Begins
<1>8. Known /\ Linked
  BY <1>1, <1>2, <1>3, FormFacts DEF Known, Linked
<1>9. OneDocumentPerOrder
  BY <1>5 DEF OneDocumentPerOrder
<1> QED
  BY <1>7, <1>8, <1>9 DEF OrderInv

\* createWarehouseDocument makes one document for a work order, however many
\* requests run at the same time, die half way or are repeated after the draft
\* was deleted.
THEOREM OneDocument == Spec => []OneDocumentPerOrder
<1>1. OrderInv => OneDocumentPerOrder
  BY DEF OrderInv
<1> QED
  BY <1>1, OrderInit, OrderStep, PTL DEF Spec

\* An order whose document exists without a link to it stays stranded: no
\* sequence of requests leads closeWorkOrder, or a saved draft, past the number
\* that is taken.
THEOREM Stranding == Spec => StrandedOrder
<1>1. OrderInv /\ [Next]_vars => [\A o \in Order : Stranded(o) => Stranded(o)']_vars
  BY OrderStep
<1>2. OrderInv /\ [Next]_vars => OrderInv'
  BY OrderStep
<1> QED
  BY <1>1, <1>2, OrderInit, PTL DEF Spec, StrandedOrder
-----------------------------------------------------------------------------
(* Sums over finite sets: the fold of the library does not depend on the    *)
(* order in which the elements are taken.                                   *)

\* A family of subsets of a finite set has a smallest member.
LEMMA SmallestSet ==
  ASSUME NEW S, IsFiniteSet(S), NEW F \in SUBSET SUBSET S, F # {}
  PROVE  \E T \in F : \A U \in F : U \subseteq T => U = T
<1> DEFINE R == StrictSubsetOrdering(S)
<1>1. IsWellFoundedOn(R, SUBSET S)
  BY FS_StrictSubsetOrderingWellFounded, FS_FiniteSubsetsOfFinite
<1>2. \A T, U \in SUBSET S : U \subseteq T /\ U # T => <<U, T>> \in R
  BY DEF StrictSubsetOrdering
<1> HIDE DEF R
<1>3. PICK T \in F : \A U \in F : ~(<<U, T>> \in R)
  BY <1>1, WFMin
<1> QED
  BY <1>2, <1>3

\* g is the function the fold of f over S is defined by.
Taken(s) == CHOOSE x \in s : TRUE
Sums(f, S, g) ==
  g = [s \in SUBSET S |-> IF s = {} THEN 0 ELSE f[Taken(s)] + g[s \ {Taken(s)}]]

LEMMA SumsFacts ==
  ASSUME NEW f, NEW S, NEW g, Sums(f, S, g), NEW s, s \subseteq S
  PROVE  /\ s = {} => g[s] = 0
         /\ s # {} => Taken(s) \in s /\ g[s] = f[Taken(s)] + g[s \ {Taken(s)}]
<1>1. s # {} => Taken(s) \in s
  BY DEF Taken
<1> DEFINE e(t) == IF t = {} THEN 0 ELSE f[Taken(t)] + g[t \ {Taken(t)}]
<1>2. g = [t \in SUBSET S |-> e(t)]
  BY DEF Sums
<1>3. g[s] = e(s)
  <2> HIDE DEF e
  <2> QED
    BY <1>2
<1> QED
  BY <1>1, <1>3

\* Two such functions agree where both are defined.
LEMMA SumsAgree ==
  ASSUME NEW f, NEW S, IsFiniteSet(S), NEW T \in SUBSET S, NEW g, NEW h, Sums(f, S, g), Sums(f, T, h)
  PROVE  g[T] = h[T]
<1> DEFINE F == {s \in SUBSET T : g[s] # h[s]}
<1>1. F \in SUBSET SUBSET S
  OBVIOUS
<1>2. F = {}
  <2> SUFFICES ASSUME F # {} PROVE FALSE
    OBVIOUS
  <2> HIDE DEF F
  <2>1. PICK s \in F : \A u \in F : u \subseteq s => u = s
    BY <1>1, SmallestSet
  <2> USE DEF F
  <2>2. s # {}
    <3>1. s \subseteq S /\ s \subseteq T
      BY <2>1
    <3> QED
      BY <2>1, <3>1, SumsFacts
  <2> DEFINE x == Taken(s)
  <2>3. x \in s /\ g[s] = f[x] + g[s \ {x}] /\ h[s] = f[x] + h[s \ {x}]
    <3>1. s \subseteq S /\ s \subseteq T
      BY <2>1
    <3> QED
      BY <2>2, <3>1, SumsFacts, SMTT(20)
  <2> HIDE DEF x
  <2>4. g[s \ {x}] = h[s \ {x}]
    BY <2>1, <2>3
  <2> QED
    BY <2>1, <2>3, <2>4
<1> QED
  BY <1>2

LEMMA SumsExist ==
  ASSUME NEW f, NEW S, IsFiniteSet(S)
  PROVE  \E g : Sums(f, S, g)
<1> DEFINE F == {s \in SUBSET S : ~ \E g : Sums(f, s, g)}
<1>1. F \in SUBSET SUBSET S
  OBVIOUS
<1>2. F = {}
  <2> SUFFICES ASSUME F # {} PROVE FALSE
    OBVIOUS
  <2> HIDE DEF F
  <2>1. PICK T \in F : \A u \in F : u \subseteq T => u = T
    BY <1>1, SmallestSet
  <2> USE DEF F
  <2> DEFINE h(s) == CHOOSE g : Sums(f, s, g)
             v(s) == h(s)[s]
             g == [s \in SUBSET T |-> IF s = {} THEN 0
                                      ELSE f[Taken(s)] + v(s \ {Taken(s)})]
  <2>2. \A s \in SUBSET T : s # T => Sums(f, s, h(s)) /\ IsFiniteSet(s)
    BY <2>1, FS_Subset
  <2>3. ASSUME NEW s \in SUBSET T, s # T PROVE g[s] = v(s)
    <3>1. Sums(f, s, h(s)) /\ IsFiniteSet(s)
      BY <2>2, <2>3
    <3>2. CASE s = {}
      <4>1. g[s] = 0
        BY <3>2
      <4> QED
        BY <3>1, <3>2, <4>1, SumsFacts
    <3>3. CASE s # {}
      <4> DEFINE x == Taken(s)
      <4>1. g[s] = f[x] + v(s \ {x})
        BY <3>3
      <4>2. x \in s /\ h(s)[s] = f[x] + h(s)[s \ {x}]
        <5> HIDE DEF h
        <5> QED
          BY <3>1, <3>3, SumsFacts
      <4> HIDE DEF x, g, v
      <4>3. Sums(f, s \ {x}, h(s \ {x}))
        <5>1. s \ {x} \in SUBSET T /\ s \ {x} # T
          BY <2>3, <4>2
        <5> HIDE DEF h
        <5> QED
          BY <5>1, <2>2
      <4>4. h(s)[s \ {x}] = v(s \ {x})
        <5>1. s \ {x} \in SUBSET s
          OBVIOUS
        <5>2. h(s)[s \ {x}] = h(s \ {x})[s \ {x}]
          <6> HIDE DEF h
          <6> QED
            BY <3>1, <4>3, <5>1, SumsAgree
        <5> QED
          BY <5>2 DEF v
      <4>5. h(s)[s] = v(s)
        BY DEF v
      <4> QED
        BY <4>1, <4>2, <4>4, <4>5
    <3> QED
      BY <3>2, <3>3
  <2>4. Sums(f, T, g)
    <3>1. ASSUME NEW s \in SUBSET T, s # {}
          PROVE  v(s \ {Taken(s)}) = g[s \ {Taken(s)}]
      <4> DEFINE x == Taken(s)
      <4>1. x \in s
        BY <3>1 DEF Taken
      <4> HIDE DEF x
      <4>2. s \ {x} \in SUBSET T /\ s \ {x} # T
        BY <4>1
      <4>3. v(s \ {x}) = g[s \ {x}]
        <5> HIDE DEF v, g
        <5> QED
          BY <4>2, <2>3
      <4> QED
        BY <4>3 DEF x
    <3> DEFINE a(s) == IF s = {} THEN 0 ELSE f[Taken(s)] + v(s \ {Taken(s)})
               b(s) == IF s = {} THEN 0 ELSE f[Taken(s)] + g[s \ {Taken(s)}]
    <3>2. \A s \in SUBSET T : a(s) = b(s)
      <4> HIDE DEF v, g
      <4> QED
        BY <3>1
    <3>3. g = [s \in SUBSET T |-> a(s)]
      OBVIOUS
    <3>4. g = [s \in SUBSET T |-> b(s)]
      <4> HIDE DEF a, b, g
      <4> QED
        BY <3>2, <3>3
    <3> HIDE DEF g
    <3> QED
      BY <3>4 DEF Sums
  <2> QED
    BY <2>1, <2>4
<1> QED
  BY <1>2

LEMMA SumIs ==
  ASSUME NEW f, NEW S, IsFiniteSet(S), NEW T \in SUBSET S, NEW g, Sums(f, S, g)
  PROVE  SumFunctionOnSet(f, T) = g[T]
<1> DEFINE h == CHOOSE h : Sums(f, T, h)
<1>1. IsFiniteSet(T)
  BY FS_Subset
<1>2. Sums(f, T, h)
  BY <1>1, SumsExist
<1>3. SumFunctionOnSet(f, T) = h[T]
  BY DEF SumFunctionOnSet, FoldFunctionOnSet, MapThenFoldSet, Sums, Taken
<1> HIDE DEF h
<1> QED
  BY <1>2, <1>3, SumsAgree

LEMMA SumEmpty == \A f : SumFunctionOnSet(f, {}) = 0
<1> SUFFICES ASSUME NEW f PROVE SumFunctionOnSet(f, {}) = 0
  OBVIOUS
<1>1. IsFiniteSet({})
  BY FS_EmptySet
<1>2. PICK g : Sums(f, {}, g)
  BY <1>1, SumsExist
<1> QED
  <2>1. {} \subseteq {} /\ {} \in SUBSET {}
    OBVIOUS
  <2>2. SumFunctionOnSet(f, {}) = g[{}]
    BY <1>1, <1>2, <2>1, SumIs
  <2>3. g[{}] = 0
    BY <1>2, <2>1, SumsFacts
  <2> QED
    BY <2>2, <2>3

\* f has an integer at every element of S.
Ints(f, S) == \A x \in S : f[x] \in Int

LEMMA SumStep ==
  ASSUME NEW f, NEW S, IsFiniteSet(S), Ints(f, S)
  PROVE  /\ SumFunctionOnSet(f, S) \in Int
         /\ \A x \in S : SumFunctionOnSet(f, S) = f[x] + SumFunctionOnSet(f, S \ {x})
<1> DEFINE sum(s) == SumFunctionOnSet(f, s)
           F == {s \in SUBSET S : ~ (sum(s) \in Int /\ \A x \in s : sum(s) = f[x] + sum(s \ {x}))}
<1> HIDE DEF sum
<1>1. sum({}) = 0
  BY SumEmpty DEF sum
<1>2. ASSUME NEW s \in SUBSET S, s # {}
      PROVE  \E c \in s : sum(s) = f[c] + sum(s \ {c})
  <2>1. IsFiniteSet(s)
    BY FS_Subset
  <2>2. PICK g : Sums(f, s, g)
    BY <2>1, SumsExist
  <2> DEFINE c == Taken(s)
  <2>3. c \in s /\ g[s] = f[c] + g[s \ {c}]
    BY <1>2, <2>2, SumsFacts
  <2> HIDE DEF c
  <2>4. sum(s) = g[s] /\ sum(s \ {c}) = g[s \ {c}]
    BY <2>1, <2>2, SumIs DEF sum
  <2> QED
    BY <2>3, <2>4
<1>3. F \in SUBSET SUBSET S
  OBVIOUS
<1>4. F = {}
  <2> SUFFICES ASSUME F # {} PROVE FALSE
    OBVIOUS
  <2> HIDE DEF F
  <2>1. PICK s \in F : \A u \in F : u \subseteq s => u = s
    BY <1>3, SmallestSet
  <2>2. s \in SUBSET S /\ ~ (sum(s) \in Int /\ \A x \in s : sum(s) = f[x] + sum(s \ {x}))
    BY <2>1 DEF F
  <2>3. \A u \in SUBSET S : u \subseteq s /\ u # s =>
          sum(u) \in Int /\ \A x \in u : sum(u) = f[x] + sum(u \ {x})
    BY <2>1 DEF F
  <2>4. s # {}
    BY <2>2, <1>1
  <2>5. PICK c \in s : sum(s) = f[c] + sum(s \ {c})
    BY <1>2, <2>2, <2>4
  <2>6. s \ {c} \in SUBSET S /\ s \ {c} \subseteq s /\ s \ {c} # s
    BY <2>2
  <2>7. sum(s \ {c}) \in Int /\ f[c] \in Int
    <3>1. c \in S
      BY <2>2, <2>5
    <3> QED
      BY <2>3, <2>6, <3>1 DEF Ints
  <2>8. PICK x \in s : sum(s) # f[x] + sum(s \ {x})
    <3>1. sum(s) \in Int
      BY <2>5, <2>7
    <3> QED
      BY <2>2, <3>1
  <2>9. x # c /\ x \in s \ {c} /\ c \in s \ {x}
    BY <2>5, <2>8
  <2>10. sum(s \ {c}) = f[x] + sum((s \ {c}) \ {x})
    BY <2>3, <2>6, <2>9
  <2>11. s \ {x} \in SUBSET S /\ s \ {x} \subseteq s /\ s \ {x} # s
    BY <2>2
  <2>12. sum(s \ {x}) = f[c] + sum((s \ {x}) \ {c})
    BY <2>3, <2>9, <2>11
  <2>13. (s \ {c}) \ {x} = (s \ {x}) \ {c}
    OBVIOUS
  <2>14. sum((s \ {x}) \ {c}) \in Int
    <3>1. (s \ {x}) \ {c} \in SUBSET S /\ (s \ {x}) \ {c} \subseteq s /\ (s \ {x}) \ {c} # s
      BY <2>2
    <3> QED
      BY <2>3, <3>1
  <2>15. f[x] \in Int
    BY <2>2 DEF Ints
  <2>16. sum(s) = f[c] + (f[x] + sum((s \ {x}) \ {c}))
    BY <2>5, <2>10, <2>13
  <2>17. f[x] + sum(s \ {x}) = f[x] + (f[c] + sum((s \ {x}) \ {c}))
    BY <2>12
  <2> DEFINE a == f[c]
             b == f[x]
             w == sum((s \ {x}) \ {c})
  <2>18. a \in Int /\ b \in Int /\ w \in Int
    BY <2>7, <2>14, <2>15
  <2> HIDE DEF a, b, w
  <2>19. a + (b + w) = b + (a + w)
    BY <2>18
  <2> USE DEF a, b, w
  <2> QED
    BY <2>8, <2>16, <2>17, <2>19
<1>5. S \in SUBSET S /\ S \notin F
  BY <1>4
<1> QED
  BY <1>5 DEF sum

\* Elements where the function is zero add nothing.
LEMMA SumZeros ==
  ASSUME NEW f, NEW S, IsFiniteSet(S), Ints(f, S), NEW T \in SUBSET S, \A x \in S \ T : f[x] = 0
  PROVE  SumFunctionOnSet(f, S) = SumFunctionOnSet(f, T)
<1> DEFINE F == {s \in SUBSET S : T \subseteq s /\ SumFunctionOnSet(f, s) # SumFunctionOnSet(f, T)}
<1>1. F \in SUBSET SUBSET S
  OBVIOUS
<1>2. F = {}
  <2> SUFFICES ASSUME F # {} PROVE FALSE
    OBVIOUS
  <2> HIDE DEF F
  <2>1. PICK s \in F : \A u \in F : u \subseteq s => u = s
    BY <1>1, SmallestSet
  <2> USE DEF F
  <2>a. T \subseteq s /\ s # T
    BY <2>1
  <2>2. PICK x \in s : x \notin T
    BY <2>a
  <2>3. s \ {x} \notin F
    BY <2>1
  <2>4. SumFunctionOnSet(f, s \ {x}) = SumFunctionOnSet(f, T)
    BY <2>1, <2>2, <2>3
  <2>5. IsFiniteSet(s) /\ Ints(f, s) /\ IsFiniteSet(s \ {x}) /\ Ints(f, s \ {x}) /\ f[x] = 0
    BY <2>1, <2>2, FS_Subset DEF Ints
  <2>6. SumFunctionOnSet(f, s) = f[x] + SumFunctionOnSet(f, s \ {x}) /\ SumFunctionOnSet(f, s \ {x}) \in Int
    BY <2>5, SumStep
  <2> QED
    BY <2>1, <2>4, <2>5, <2>6
<1> QED
  BY <1>2

\* Functions that agree on a set have the same sum there.
LEMMA SumSame ==
  ASSUME NEW f, NEW g, NEW S, IsFiniteSet(S), Ints(f, S), \A x \in S : f[x] = g[x]
  PROVE  SumFunctionOnSet(f, S) = SumFunctionOnSet(g, S)
<1> DEFINE F == {s \in SUBSET S : SumFunctionOnSet(f, s) # SumFunctionOnSet(g, s)}
<1>1. F \in SUBSET SUBSET S
  OBVIOUS
<1>2. F = {}
  <2> SUFFICES ASSUME F # {} PROVE FALSE
    OBVIOUS
  <2> HIDE DEF F
  <2>1. PICK s \in F : \A u \in F : u \subseteq s => u = s
    BY <1>1, SmallestSet
  <2> USE DEF F
  <2>a. s # {}
    BY <2>1, SumEmpty
  <2>2. PICK x \in s : TRUE
    BY <2>a
  <2>3. s \ {x} \notin F
    BY <2>1
  <2>4. SumFunctionOnSet(f, s \ {x}) = SumFunctionOnSet(g, s \ {x})
    BY <2>1, <2>3
  <2>5. IsFiniteSet(s) /\ Ints(f, s) /\ Ints(g, s)
    BY <2>1, FS_Subset DEF Ints
  <2>6. SumFunctionOnSet(f, s) = f[x] + SumFunctionOnSet(f, s \ {x})
    BY <2>5, SumStep
  <2>7. SumFunctionOnSet(g, s) = g[x] + SumFunctionOnSet(g, s \ {x})
    BY <2>5, SumStep
  <2> QED
    BY <2>1, <2>4, <2>6, <2>7
<1> QED
  BY <1>2

\* The sum of a function that changes at one element changes by as much.
LEMMA SumChange ==
  ASSUME NEW f, NEW g, NEW S, IsFiniteSet(S), Ints(f, S), Ints(g, S), NEW x \in S,
         \A y \in S \ {x} : f[y] = g[y]
  PROVE  SumFunctionOnSet(g, S) = SumFunctionOnSet(f, S) - f[x] + g[x]
<1>1. IsFiniteSet(S \ {x}) /\ Ints(f, S \ {x})
  BY FS_Subset DEF Ints
<1>2. SumFunctionOnSet(f, S \ {x}) = SumFunctionOnSet(g, S \ {x}) /\ SumFunctionOnSet(f, S \ {x}) \in Int
  BY <1>1, SumSame, SumStep
<1>3. SumFunctionOnSet(f, S) = f[x] + SumFunctionOnSet(f, S \ {x})
  BY SumStep
<1>4. SumFunctionOnSet(g, S) = g[x] + SumFunctionOnSet(g, S \ {x})
  BY SumStep
<1> QED
  BY <1>2, <1>3, <1>4 DEF Ints

\* A sum of natural numbers is one, and no less than any of them.
LEMMA SumNat ==
  ASSUME NEW f, NEW S, IsFiniteSet(S), \A x \in S : f[x] \in Nat
  PROVE  /\ SumFunctionOnSet(f, S) \in Nat
         /\ \A x \in S : f[x] <= SumFunctionOnSet(f, S)
<1> DEFINE F == {s \in SUBSET S : SumFunctionOnSet(f, s) \notin Nat}
<1>1. F \in SUBSET SUBSET S
  OBVIOUS
<1>2. F = {}
  <2> SUFFICES ASSUME F # {} PROVE FALSE
    OBVIOUS
  <2> HIDE DEF F
  <2>1. PICK s \in F : \A u \in F : u \subseteq s => u = s
    BY <1>1, SmallestSet
  <2> USE DEF F
  <2>a. s # {}
    <3>1. SumFunctionOnSet(f, {}) \in Nat
      BY SumEmpty
    <3> QED
      BY <2>1, <3>1
  <2>2. PICK x \in s : TRUE
    BY <2>a
  <2>3. s \ {x} \notin F
    BY <2>1
  <2>4. IsFiniteSet(s) /\ Ints(f, s)
    BY <2>1, FS_Subset DEF Ints
  <2>5. SumFunctionOnSet(f, s) = f[x] + SumFunctionOnSet(f, s \ {x})
    BY <2>4, SumStep
  <2> QED
    BY <2>1, <2>3, <2>5
<1>3. ASSUME NEW x \in S PROVE f[x] <= SumFunctionOnSet(f, S)
  <2>1. Ints(f, S)
    BY DEF Ints
  <2>2. SumFunctionOnSet(f, S) = f[x] + SumFunctionOnSet(f, S \ {x})
    BY <2>1, SumStep
  <2>3. SumFunctionOnSet(f, S \ {x}) \in Nat
    BY <1>2
  <2> QED
    BY <2>2, <2>3
<1> QED
  BY <1>2, <1>3
-----------------------------------------------------------------------------
(* What the lines of a document add up to.                                 *)

LEMMA LinesFacts ==
  ASSUME NEW d \in Doc
  PROVE  /\ Len(Lines[d]) \in Nat /\ DOMAIN Lines[d] = 1..Len(Lines[d]) /\ IsFiniteSet(DOMAIN Lines[d])
         /\ \A i \in DOMAIN Lines[d] : Lines[d][i].place \in Place /\ Lines[d][i].delta \in Int
         /\ Places(d) \subseteq Place
<1> DEFINE L == [place : Place, delta : Int]
<1>1. Lines[d] \in Seq(L)
  BY StockAssumption
<1>2. Len(Lines[d]) \in Nat /\ DOMAIN Lines[d] = 1..Len(Lines[d])
  BY <1>1
<1>3. \A i \in DOMAIN Lines[d] : Lines[d][i] \in L
  <2> HIDE DEF L
  <2>1. Lines[d] \in [1..Len(Lines[d]) -> L]
    BY <1>1
  <2> QED
    BY <1>2, <2>1
<1>4. IsFiniteSet(DOMAIN Lines[d])
  BY <1>2, FS_Interval
<1> QED
  BY <1>2, <1>3, <1>4 DEF Places

LEMMA MovesFacts ==
  ASSUME NEW d \in Doc, NEW k
  PROVE  /\ DOMAIN Moves(d, k) = DOMAIN Lines[d] /\ Ints(Moves(d, k), DOMAIN Lines[d])
         /\ \A i \in DOMAIN Lines[d] :
              Moves(d, k)[i] = IF Lines[d][i].place = k THEN Lines[d][i].delta ELSE 0
         /\ SumFunction(Moves(d, k)) = SumFunctionOnSet(Moves(d, k), DOMAIN Lines[d])
         /\ SumFunction(Moves(d, k)) \in Int
         /\ \A T \in SUBSET DOMAIN Lines[d] : SumFunctionOnSet(Moves(d, k), T) \in Int
<1>1. /\ DOMAIN Moves(d, k) = DOMAIN Lines[d]
      /\ \A i \in DOMAIN Lines[d] :
           Moves(d, k)[i] = IF Lines[d][i].place = k THEN Lines[d][i].delta ELSE 0
  BY DEF Moves
<1>2. Ints(Moves(d, k), DOMAIN Lines[d])
  BY <1>1, LinesFacts DEF Ints
<1>3. SumFunction(Moves(d, k)) = SumFunctionOnSet(Moves(d, k), DOMAIN Lines[d])
  BY <1>1 DEF SumFunction
<1>4. ASSUME NEW T \in SUBSET DOMAIN Lines[d]
      PROVE  SumFunctionOnSet(Moves(d, k), T) \in Int
  <2>1. IsFiniteSet(T)
    BY LinesFacts, FS_Subset
  <2>2. Ints(Moves(d, k), T)
    BY <1>2 DEF Ints
  <2> QED
    BY <2>1, <2>2, SumStep
<1> QED
  BY <1>1, <1>2, <1>3, <1>4

\* The lines after the last one at k add nothing, nor do those before the first.
LEMMA PartOfLines ==
  ASSUME NEW d \in Doc, NEW k, NEW T \in SUBSET DOMAIN Lines[d],
         \A i \in DOMAIN Lines[d] \ T : Lines[d][i].place # k
  PROVE  SumFunctionOnSet(Moves(d, k), T) = SumFunction(Moves(d, k))
<1>1. \A i \in DOMAIN Lines[d] \ T : Moves(d, k)[i] = 0
  BY MovesFacts
<1> QED
  BY <1>1, MovesFacts, LinesFacts, SumZeros

LEMMA NeedsFacts ==
  ASSUME NEW d \in Doc, NEW k
  PROVE  Needs(d, k) \in Nat /\ (Needs(d, k) > 0 => k \in Places(d))
<1> DEFINE f == [i \in DOMAIN Lines[d] |-> IF Moves(d, k)[i] < 0 THEN - Moves(d, k)[i] ELSE 0]
<1>1. DOMAIN f = DOMAIN Lines[d] /\ \A i \in DOMAIN Lines[d] : f[i] \in Nat
  <2>1. \A i \in DOMAIN Lines[d] : Moves(d, k)[i] \in Int
    BY MovesFacts DEF Ints
  <2> QED
    BY <2>1
<1>2. k \notin Places(d) => \A i \in DOMAIN Lines[d] : f[i] = 0
  BY MovesFacts DEF Places
<1>3. Needs(d, k) = SumFunctionOnSet(f, DOMAIN Lines[d])
  BY DEF Needs, SumFunction
<1> HIDE DEF f
<1>4. Needs(d, k) \in Nat
  BY <1>1, <1>3, LinesFacts, SumNat
<1>5. k \notin Places(d) => Needs(d, k) = 0
  <2> SUFFICES ASSUME k \notin Places(d) PROVE Needs(d, k) = 0
    OBVIOUS
  <2>1. Ints(f, DOMAIN Lines[d])
    BY <1>1 DEF Ints
  <2>2. {} \in SUBSET DOMAIN Lines[d] /\ \A i \in DOMAIN Lines[d] \ {} : f[i] = 0
    BY <1>2
  <2>3. SumFunctionOnSet(f, DOMAIN Lines[d]) = SumFunctionOnSet(f, {})
    BY <2>1, <2>2, LinesFacts, SumZeros
  <2> QED
    BY <1>3, <2>3, SumEmpty
<1> QED
  BY <1>4, <1>5

LEMMA RegisteredFacts ==
  ASSUME NEW d \in Doc, NEW k, \A i \in DOMAIN Lines[d] : moved[d][i] \in Nat
  PROVE  Registered(d, k) \in Int
<1> DEFINE f == [i \in DOMAIN Lines[d] |-> moved[d][i] * Moves(d, k)[i]]
<1>1. \A i \in DOMAIN Lines[d] : Moves(d, k)[i] \in Int
  BY MovesFacts DEF Ints
<1>2. DOMAIN f = DOMAIN Lines[d] /\ Ints(f, DOMAIN Lines[d])
  BY <1>1 DEF Ints
<1>3. Registered(d, k) = SumFunctionOnSet(f, DOMAIN Lines[d])
  BY DEF Registered, SumFunction
<1> HIDE DEF f
<1> QED
  BY <1>2, <1>3, LinesFacts, SumStep

-----------------------------------------------------------------------------
(* The records of the requests: their types, and what a request at a place  *)
(* of a handler knows.                                                      *)

CardOps == {"post", "plan", "cancel", "edit", "reverse"}

\* The operations whose handlers have a part.
Handled(op, at) ==
  /\ at = "idle" <=> op = "idle"
  /\ at \in {"post", "stock", "balance", "movement", "posted"} => op \in {"post", "postOrder", "closeOrder"}
  /\ at \in {"tell", "publish"} => op \in {"post", "postOrder", "closeOrder", "reverse"}
  /\ at \in {"plan", "planned"} => op = "plan"
  /\ at \in {"cancel", "cancelled"} => op \in {"cancel", "deleteDraft"}
  /\ at \in {"edit", "edited"} => op \in {"edit", "saveDraft"}
  /\ at \in {"reversal", "movements", "number", "reverse"} => op = "reverse"
  /\ at = "load" => op \in OrderOps
  /\ at = "create" => op \in {"saveDraft", "closeOrder"}
  /\ at \in {"release", "released"} => op \in {"saveDraft", "postOrder", "deleteDraft"}
  /\ at \in {"reserve", "reserved", "link"} => op = "saveDraft"
  /\ at = "close" => op \in {"postOrder", "closeOrder"}
  /\ at = "unlink" => op = "deleteDraft"

Typed(r) ==
  /\ Form(r) /\ r.op \in Ops /\ r.at \in Steps
  /\ r.doc \in Doc \cup {None} /\ r.order \in Order \cup {None}
  /\ r.flag \in BOOLEAN /\ r.reversed \in BOOLEAN /\ r.held \in BOOLEAN
  /\ r.free \in BOOLEAN /\ r.lines \in BOOLEAN /\ r.late \in BOOLEAN
  /\ r.plan \in [Place -> Balance]
  /\ DOMAIN r.back \subseteq Place /\ r.back \in [DOMAIN r.back -> Int]
  /\ r.i \in Nat /\ r.stale \subseteq Place

Placed(r) ==
  /\ Handled(r.op, r.at)
  /\ r.at \in {"idle", "load", "create"} <=> r.doc = None
  /\ r.op \in OrderOps => r.order \in Order /\ (r.doc # None => OrderOf[r.doc] = r.order)
  /\ r.op \notin OrderOps => r.order = None
  /\ r.at \in {"balance", "movement"} => r.i \in DOMAIN Lines[r.doc]
  /\ r.at \in {"number", "reverse"} => DOMAIN r.back \subseteq Places(r.doc)
  /\ r.at \notin HoldsStock \cup {"posted"} => r.stale = {}

Request(r) == Typed(r) /\ Placed(r)

\* n is r, as far as its fields are concerned, at another place.
Goes(n, r, at) ==
  /\ Form(n) /\ n.op = r.op /\ n.at = at /\ n.doc = r.doc /\ n.order = r.order
  /\ n.late = r.late /\ n.stale = r.stale

LEMMA IdleFacts ==
  /\ Request(Idle) /\ Idle.op = "idle" /\ Idle.at = "idle" /\ Idle.doc = None /\ Idle.order = None
  /\ Idle.late = FALSE /\ Idle.stale = {}
<1>1. /\ Form(Idle) /\ Idle.op = "idle" /\ Idle.at = "idle" /\ Idle.doc = None /\ Idle.order = None
      /\ Idle.flag = FALSE /\ Idle.reversed = FALSE /\ Idle.held = FALSE /\ Idle.free = FALSE
      /\ Idle.lines = TRUE /\ Idle.plan = NoPlan /\ Idle.back = NoSums /\ Idle.i = 0
      /\ Idle.stale = {} /\ Idle.late = FALSE
  BY DEF Form, Idle
<1>2. NoPlan \in [Place -> Balance]
  BY DEF NoPlan, Balance
<1>3. DOMAIN NoSums \subseteq Place /\ NoSums \in [DOMAIN NoSums -> Int]
  BY DEF NoSums
<1>4. Typed(Idle)
  <2>1. /\ Idle.plan \in [Place -> Balance]
        /\ DOMAIN Idle.back \subseteq Place /\ Idle.back \in [DOMAIN Idle.back -> Int]
    BY <1>1, <1>2, <1>3
  <2>2. Idle.op \in Ops /\ Idle.at \in Steps /\ Idle.i \in Nat /\ Idle.stale \subseteq Place
    BY <1>1 DEF Ops, Steps
  <2> QED
    BY <1>1, <2>1, <2>2 DEF Typed
<1>5. Placed(Idle)
  BY <1>1 DEF Placed, Handled, OrderOps, HoldsStock
<1> QED
  BY <1>1, <1>4, <1>5 DEF Request

\* A part returns to its handler, which goes on, or has ended the request.
Parts(op) ==
  CASE op \in {"post", "closeOrder"} -> {"post", "create"} [] op = "postOrder" -> {"post", "release"}
    [] op = "saveDraft" -> {"release", "create", "edit", "reserve"}
    [] op = "deleteDraft" -> {"release", "cancel"}
    [] OTHER -> {"cancel", "edit", "reverse"}
Back(n, r, part) ==
  /\ n.stale = {}
  /\ \/ n = Idle /\ n.at = "idle" /\ n.doc = None /\ After(r.op, part) = "idle"
     \/ /\ n.op = r.op /\ n.at = After(r.op, part) /\ n.at # "idle" /\ n.doc = r.doc
        /\ n.order = r.order /\ n.late = r.late

LEMMA ReturnFacts ==
  ASSUME NEW r, Typed(r), r.doc \in Doc, r.op # "idle",
         r.op \in OrderOps => r.order \in Order /\ OrderOf[r.doc] = r.order,
         r.op \notin OrderOps => r.order = None,
         NEW part \in Parts(r.op)
  PROVE  Request(Return(r, part)) /\ Back(Return(r, part), r, part)
<1> DEFINE a == After(r.op, part)
           n == [Idle EXCEPT !.op = r.op, !.order = r.order, !.doc = r.doc, !.at = a, !.late = r.late]
<1>1. Return(r, part) = IF a = "idle" THEN Idle ELSE n
  BY DEF Return
<1>2. a \in Steps
  BY DEF After, Steps
<1>3. r.op \in Ops
  BY DEF Typed
<1>4. a # "idle" => Handled(r.op, a) /\ a \notin {"load", "create", "balance", "movement", "number", "reverse"}
  BY <1>3, Zenon DEF After, Handled, Parts, Ops, OrderOps
<1> HIDE DEF a
<1>5. /\ Form(n) /\ n.op = r.op /\ n.at = a /\ n.doc = r.doc /\ n.order = r.order
      /\ n.flag = Idle.flag /\ n.reversed = Idle.reversed /\ n.held = Idle.held /\ n.free = Idle.free
      /\ n.lines = Idle.lines /\ n.plan = Idle.plan /\ n.back = Idle.back /\ n.i = Idle.i
      /\ n.stale = Idle.stale /\ n.late = r.late
  BY DEF Form, Idle
<1> HIDE DEF n
<1>6. Typed(n)
  BY <1>2, <1>5, IdleFacts DEF Request, Typed
<1>7. a # "idle" => Placed(n)
  BY <1>4, <1>5, IdleFacts, StockAssumption DEF Placed
<1> QED
  BY <1>1, <1>5, <1>6, <1>7, IdleFacts DEF Request, Back, a

\* A request that only goes to another place.
LEMMA GotoFacts ==
  ASSUME NEW r, Request(r), NEW at \in Steps, Handled(r.op, at),
         r.at \in {"idle", "load", "create"} <=> at \in {"idle", "load", "create"},
         at \notin {"balance", "movement", "number", "reverse"}, r.stale = {}
  PROVE  Request([r EXCEPT !.at = at]) /\ Goes([r EXCEPT !.at = at], r, at)
<1> DEFINE n == [r EXCEPT !.at = at]
<1>1. /\ Form(n) /\ n.op = r.op /\ n.at = at /\ n.doc = r.doc /\ n.order = r.order
      /\ n.flag = r.flag /\ n.reversed = r.reversed /\ n.held = r.held /\ n.free = r.free
      /\ n.lines = r.lines /\ n.plan = r.plan /\ n.back = r.back /\ n.i = r.i
      /\ n.stale = r.stale /\ n.late = r.late
  BY DEF Request, Typed, Form
<1> HIDE DEF n
<1>2. Typed(n)
  BY <1>1 DEF Request, Typed
<1>3. Placed(n)
  BY <1>1 DEF Request, Placed
<1> QED
  BY <1>1, <1>2, <1>3 DEF Request, Goes, n

-----------------------------------------------------------------------------
(* What a step of one request does to the others.                          *)

Kept(q) ==
  /\ proc'[q].op = proc[q].op /\ proc'[q].at = proc[q].at
  /\ proc'[q].doc = proc[q].doc /\ proc'[q].order = proc[q].order
  /\ proc'[q].flag = proc[q].flag /\ proc'[q].reversed = proc[q].reversed
  /\ proc'[q].held = proc[q].held /\ proc'[q].free = proc[q].free
  /\ proc'[q].plan = proc[q].plan /\ proc'[q].back = proc[q].back /\ proc'[q].i = proc[q].i
  /\ proc[q].late => proc'[q].late
  /\ proc[q].stale \subseteq proc'[q].stale

Requests == DOMAIN proc = Proc /\ \A p \in Proc : Request(proc[p])

\* The other requests keep what they have; those that hold a document of D or
\* a balance of K are told that it is out of date.
Others(p, K, D) ==
  \A q \in Proc \ {p} :
    /\ Kept(q)
    /\ \A d \in D : Holds(proc[q], d) => proc'[q].late
    /\ proc[q].at \in HoldsStock => K \subseteq proc'[q].stale

LEMMA WriteKept ==
  ASSUME Requests, NEW p \in Proc, NEW r, Request(r), NEW K, K \subseteq Place, NEW D, Write(p, r, K, D)
  PROVE  /\ Requests' /\ proc'[p] = r /\ Others(p, K, D)
<1>1. DOMAIN proc' = Proc /\ proc'[p] = r
  BY Zenon DEF Write
<1>2. ASSUME NEW q \in Proc \ {p}
      PROVE  /\ Request(proc'[q]) /\ Kept(q)
             /\ \A d \in D : Holds(proc[q], d) => proc'[q].late
             /\ proc[q].at \in HoldsStock => K \subseteq proc'[q].stale
  <2>1. Request(proc[q])
    BY DEF Requests
  <2> DEFINE s == IF proc[q].at \in HoldsStock THEN proc[q].stale \cup K ELSE proc[q].stale
             b == proc[q].late \/ \E d \in D : Holds(proc[q], d)
  <2>2. proc'[q] = [proc[q] EXCEPT !.stale = s, !.late = b]
    BY Zenon DEF Write
  <2>3. s \subseteq Place /\ b \in BOOLEAN /\ (proc[q].at \notin HoldsStock => s = proc[q].stale)
    BY <2>1 DEF Request, Typed
  <2>4. /\ proc[q].late => b
        /\ proc[q].stale \subseteq s /\ (proc[q].at \in HoldsStock => K \subseteq s)
        /\ \A d \in D : Holds(proc[q], d) => b
    OBVIOUS
  <2> HIDE DEF s, b
  <2>5. SUFFICES ASSUME NEW n, n = proc'[q]
                 PROVE  /\ Request(n) /\ n.op = proc[q].op /\ n.at = proc[q].at
                        /\ n.doc = proc[q].doc /\ n.order = proc[q].order
                        /\ n.flag = proc[q].flag /\ n.reversed = proc[q].reversed
                        /\ n.held = proc[q].held /\ n.free = proc[q].free /\ n.plan = proc[q].plan
                        /\ n.back = proc[q].back /\ n.i = proc[q].i /\ n.stale = s /\ n.late = b
    BY <2>4, <2>5 DEF Kept
  <2>6. SUFFICES ASSUME NEW r0, r0 = proc[q]
                 PROVE  /\ Request(n) /\ n.op = r0.op /\ n.at = r0.at
                        /\ n.doc = r0.doc /\ n.order = r0.order
                        /\ n.flag = r0.flag /\ n.reversed = r0.reversed
                        /\ n.held = r0.held /\ n.free = r0.free /\ n.plan = r0.plan
                        /\ n.back = r0.back /\ n.i = r0.i /\ n.stale = s /\ n.late = b
    BY <2>6
  <2>7. Request(r0) /\ n = [r0 EXCEPT !.stale = s, !.late = b] /\ (r0.at \notin HoldsStock => s = r0.stale)
    BY <2>1, <2>2, <2>3, <2>5, <2>6
  <2>8. s \subseteq Place /\ b \in BOOLEAN
    BY <2>3
  <2>9. /\ Form(n) /\ n.op = r0.op /\ n.at = r0.at /\ n.doc = r0.doc /\ n.order = r0.order
        /\ n.flag = r0.flag /\ n.reversed = r0.reversed /\ n.held = r0.held /\ n.free = r0.free
        /\ n.lines = r0.lines /\ n.plan = r0.plan /\ n.back = r0.back /\ n.i = r0.i
        /\ n.stale = s /\ n.late = b
    <3>1. Form(r0) /\ n = [r0 EXCEPT !.stale = s, !.late = b]
      BY <2>7 DEF Request, Typed
    <3> QED
      BY <3>1 DEF Form
  <2>10. Typed(n)
    BY <2>7, <2>8, <2>9 DEF Request, Typed
  <2>11. Placed(n)
    BY <2>7, <2>9 DEF Request, Placed
  <2> QED
    BY <2>9, <2>10, <2>11 DEF Request
<1> QED
  BY <1>1, <1>2 DEF Requests, Others

-----------------------------------------------------------------------------
(* Types.                                                                  *)

DocRow == [status : {"absent", "draft", "planned", "posted", "cancelled"},
           flag : BOOLEAN, reversed : BOOLEAN]

Tables ==
  /\ doc \in [Doc -> DocRow]
  /\ rows \in [Doc -> {"none", "active", "past"}]
  /\ DOMAIN moved = Doc /\ \A d \in Doc : moved[d] \in [DOMAIN Lines[d] -> Nat]
  /\ reversals \in [Doc -> Nat]
  /\ stock \in [Place -> Balance]
  /\ register \in [Place -> Int] /\ told \in [Place -> Nat]
  /\ order \in [Order -> [status : {"open", "closed"}, doc : Doc \cup {None}]]

\* An order is linked to documents made for it.
Belongs == \A o \in Order : order[o].doc # None => OrderOf[order[o].doc] = o

Counted == requests \in 0..MaxRequests /\ deaths \in 0..MaxDeaths
TypeInv == Tables /\ Belongs /\ Requests /\ Counted

\* The tables stay as they are.
LEMMA SameTables ==
  ASSUME Tables, Belongs, UNCHANGED tables
  PROVE  Tables' /\ Belongs'
BY DEF Tables, Belongs, tables

LEMMA QuietStep ==
  ASSUME TypeInv, NEW p \in Proc, NEW n, Request(n), Go(p, n), UNCHANGED <<tables, requests, deaths>>
  PROVE  TypeInv' /\ Others(p, {}, {}) /\ proc'[p] = n
<1>1. Requests' /\ proc'[p] = n /\ Others(p, {}, {})
  <2>1. {} \subseteq Place
    OBVIOUS
  <2> QED
    BY <2>1, WriteKept DEF TypeInv, Go
<1>2. Tables' /\ Belongs'
  BY SameTables DEF TypeInv
<1>3. Counted'
  BY DEF TypeInv, Counted
<1> QED
  BY <1>1, <1>2, <1>3 DEF TypeInv

\* What a request at a place is.
LEMMA ProcFacts ==
  ASSUME TypeInv, NEW p \in Proc
  PROVE  /\ Request(proc[p]) /\ Typed(proc[p]) /\ Placed(proc[p]) /\ Form(proc[p])
         /\ proc[p].at \notin {"idle", "load", "create"} => proc[p].doc \in Doc
BY StockAssumption DEF TypeInv, Requests, Request, Typed, Placed

LEMMA RefuseFacts ==
  ASSUME TypeInv, NEW p \in Proc, Refuse(p), UNCHANGED <<tables, requests, deaths>>
  PROVE  TypeInv' /\ Others(p, {}, {}) /\ proc'[p] = Idle
BY IdleFacts, QuietStep DEF Refuse

LEMMA GotoStep ==
  ASSUME TypeInv, NEW p \in Proc, NEW at \in Steps, Handled(proc[p].op, at),
         proc[p].at \notin {"idle", "load", "create"} /\ at \notin {"idle", "load", "create"},
         at \notin {"balance", "movement", "number", "reverse"}, proc[p].at \notin HoldsStock \cup {"posted"},
         Goto(p, at), UNCHANGED <<tables, requests, deaths>>
  PROVE  TypeInv' /\ Others(p, {}, {}) /\ Goes(proc'[p], proc[p], at)
<1>1. Request(proc[p]) /\ proc[p].stale = {}
  BY ProcFacts DEF Placed
<1>2. Request([proc[p] EXCEPT !.at = at]) /\ Goes([proc[p] EXCEPT !.at = at], proc[p], at)
  BY <1>1, GotoFacts
<1> QED
  BY <1>2, QuietStep DEF Goto

LEMMA BackStep ==
  ASSUME TypeInv, NEW p \in Proc, NEW part \in Parts(proc[p].op), proc[p].at \notin {"idle", "load", "create"},
         Go(p, Return(proc[p], part)), UNCHANGED <<tables, requests, deaths>>
  PROVE  TypeInv' /\ Others(p, {}, {}) /\ Back(proc'[p], proc[p], part)
<1>1. Request(Return(proc[p], part)) /\ Back(Return(proc[p], part), proc[p], part)
  BY ProcFacts, ReturnFacts DEF Placed, Handled
<1> QED
  BY <1>1, QuietStep

-----------------------------------------------------------------------------
(* What each step does: the steps that only read.                          *)

Reads(p) == TypeInv' /\ Others(p, {}, {}) /\ UNCHANGED tables /\ cause' = cause
Ended(p) == proc'[p] = Idle

LEMMA PostHeaderFacts ==
  ASSUME TypeInv, NEW p \in Proc, PostHeader(p)
  PROVE  /\ Reads(p) /\ proc[p].at = "post"
         /\ \/ Ended(p)
            \/ doc[proc[p].doc].status = "posted" /\ Back(proc'[p], proc[p], "post")
            \/ doc[proc[p].doc].status # "posted" /\ Goes(proc'[p], proc[p], "stock")
<1>1. /\ proc[p].at = "post" /\ UNCHANGED tables /\ UNCHANGED <<cause, requests, deaths>>
      /\ \/ Refuse(p)
         \/ doc[proc[p].doc].status = "posted" /\ Go(p, Return(proc[p], "post"))
         \/ doc[proc[p].doc].status # "posted" /\ Goto(p, "stock")
  BY DEF PostHeader
<1>2. proc[p].op \in {"post", "postOrder", "closeOrder"}
  BY <1>1, ProcFacts DEF Placed, Handled
<1>3. Handled(proc[p].op, "stock") /\ "post" \in Parts(proc[p].op) /\ "stock" \in Steps
  BY <1>2 DEF Handled, Parts, Steps
<1> QED
  BY <1>1, <1>3, RefuseFacts, BackStep, GotoStep DEF Reads, Ended, HoldsStock

LEMMA PlanHeaderFacts ==
  ASSUME TypeInv, NEW p \in Proc, PlanHeader(p)
  PROVE  /\ Reads(p) /\ proc[p].at = "plan"
         /\ \/ Ended(p)
            \/ doc[proc[p].doc].status # "posted" /\ Goes(proc'[p], proc[p], "planned")
<1>1. /\ proc[p].at = "plan" /\ UNCHANGED tables /\ UNCHANGED <<cause, requests, deaths>>
      /\ Refuse(p) \/ (doc[proc[p].doc].status # "posted" /\ Goto(p, "planned"))
  BY DEF PlanHeader
<1>2. Handled(proc[p].op, "planned") /\ "planned" \in Steps
  BY <1>1, ProcFacts DEF Placed, Handled, Steps
<1> QED
  BY <1>1, <1>2, RefuseFacts, GotoStep DEF Reads, Ended, HoldsStock

LEMMA CancelHeaderFacts ==
  ASSUME TypeInv, NEW p \in Proc, CancelHeader(p)
  PROVE  /\ Reads(p) /\ proc[p].at = "cancel"
         /\ \/ Ended(p)
            \/ /\ doc[proc[p].doc].status # "posted"
               /\ Back(proc'[p], proc[p], "cancel") \/ Goes(proc'[p], proc[p], "cancelled")
<1>1. /\ proc[p].at = "cancel" /\ UNCHANGED tables /\ UNCHANGED <<cause, requests, deaths>>
      /\ \/ Refuse(p)
         \/ /\ doc[proc[p].doc].status # "posted"
            /\ Go(p, Return(proc[p], "cancel")) \/ Goto(p, "cancelled")
  BY DEF CancelHeader
<1>2. proc[p].op \in {"cancel", "deleteDraft"}
  BY <1>1, ProcFacts DEF Placed, Handled
<1>3. Handled(proc[p].op, "cancelled") /\ "cancel" \in Parts(proc[p].op) /\ "cancelled" \in Steps
  BY <1>2 DEF Handled, Parts, Steps
<1> QED
  BY <1>1, <1>3, RefuseFacts, BackStep, GotoStep DEF Reads, Ended, HoldsStock

LEMMA EditHeaderFacts ==
  ASSUME TypeInv, NEW p \in Proc, EditHeader(p)
  PROVE  /\ Reads(p) /\ proc[p].at = "edit"
         /\ Ended(p) \/ (doc[proc[p].doc].status = "draft" /\ Goes(proc'[p], proc[p], "edited"))
<1>1. /\ proc[p].at = "edit" /\ UNCHANGED tables /\ UNCHANGED <<cause, requests, deaths>>
      /\ Refuse(p) \/ (doc[proc[p].doc].status = "draft" /\ Goto(p, "edited"))
  BY DEF EditHeader
<1>2. Handled(proc[p].op, "edited") /\ "edited" \in Steps
  BY <1>1, ProcFacts DEF Placed, Handled, Steps
<1> QED
  BY <1>1, <1>2, RefuseFacts, GotoStep DEF Reads, Ended, HoldsStock

LEMMA ReverseHeaderFacts ==
  ASSUME TypeInv, NEW p \in Proc, ReverseHeader(p)
  PROVE  /\ Reads(p) /\ proc[p].at = "reversal"
         /\ \/ Ended(p)
            \/ /\ doc[proc[p].doc].status = "posted" /\ ~doc[proc[p].doc].reversed
               /\ Goes(proc'[p], proc[p], "movements") /\ proc'[p].flag = doc[proc[p].doc].flag
<1> DEFINE r == proc[p]
           h == doc[r.doc]
           n == [r EXCEPT !.at = "movements", !.flag = h.flag]
<1>1. /\ r.at = "reversal" /\ UNCHANGED tables /\ UNCHANGED <<cause, requests, deaths>>
      /\ Refuse(p) \/ (h.status = "posted" /\ ~h.reversed /\ Go(p, n))
  BY DEF ReverseHeader
<1>2. Request(r) /\ Typed(r) /\ Placed(r) /\ Form(r) /\ r.doc \in Doc
  BY <1>1, ProcFacts
<1>3. h.flag \in BOOLEAN
  BY <1>2 DEF TypeInv, Tables, DocRow
<1> HIDE DEF r, h
<1>4. /\ Form(n) /\ n.op = r.op /\ n.at = "movements" /\ n.doc = r.doc /\ n.order = r.order
      /\ n.flag = h.flag /\ n.reversed = r.reversed /\ n.held = r.held /\ n.free = r.free
      /\ n.lines = r.lines /\ n.plan = r.plan /\ n.back = r.back /\ n.i = r.i
      /\ n.stale = r.stale /\ n.late = r.late
  BY <1>2 DEF Form
<1> HIDE DEF n
<1>5. Typed(n)
  BY <1>2, <1>3, <1>4 DEF Typed, Steps
<1>6. Placed(n) /\ Goes(n, r, "movements")
  BY <1>1, <1>2, <1>4 DEF Placed, Handled, HoldsStock, Goes
<1>7. Go(p, n) => Reads(p) /\ proc'[p] = n
  BY <1>1, <1>5, <1>6, QuietStep DEF Request, Reads
<1>8. Refuse(p) => Reads(p) /\ Ended(p)
  BY <1>1, RefuseFacts DEF Reads, Ended
<1>9. SUFFICES ASSUME NEW m, m = proc'[p]
               PROVE  /\ Reads(p) /\ r.at = "reversal"
                      /\ \/ m = Idle
                         \/ /\ h.status = "posted" /\ ~h.reversed
                            /\ Goes(m, r, "movements") /\ m.flag = h.flag
  BY <1>9 DEF Ended, r, h
<1> QED
  BY <1>1, <1>4, <1>6, <1>7, <1>8, <1>9 DEF Ended

LEMMA ReserveHeaderFacts ==
  ASSUME TypeInv, NEW p \in Proc, ReserveHeader(p)
  PROVE  /\ Reads(p) /\ proc[p].at = "reserve"
         /\ \/ Ended(p) \/ Back(proc'[p], proc[p], "reserve")
            \/ /\ doc[proc[p].doc].status = "draft" /\ ~doc[proc[p].doc].flag
               /\ Goes(proc'[p], proc[p], "reserved")
               /\ proc'[p].reversed = doc[proc[p].doc].reversed
<1> DEFINE r == proc[p]
           h == doc[r.doc]
           n == [r EXCEPT !.at = "reserved", !.lines = TRUE, !.reversed = h.reversed]
<1>1. /\ r.at = "reserve" /\ UNCHANGED tables /\ UNCHANGED <<cause, requests, deaths>>
      /\ \/ Refuse(p) \/ Go(p, Return(r, "reserve"))
         \/ (h.status = "draft" /\ ~h.flag /\ Go(p, n))
  BY DEF ReserveHeader
<1>2. Request(r) /\ Typed(r) /\ Placed(r) /\ Form(r) /\ r.doc \in Doc /\ "reserve" \in Parts(r.op)
  BY <1>1, ProcFacts DEF Placed, Handled, Parts
<1>3. h.reversed \in BOOLEAN
  BY <1>2 DEF TypeInv, Tables, DocRow
<1>a. Go(p, Return(r, "reserve")) => Reads(p) /\ Back(proc'[p], r, "reserve")
  BY <1>1, <1>2, BackStep DEF Reads
<1> HIDE DEF r, h
<1>4. /\ Form(n) /\ n.op = r.op /\ n.at = "reserved" /\ n.doc = r.doc /\ n.order = r.order
      /\ n.flag = r.flag /\ n.reversed = h.reversed /\ n.held = r.held /\ n.free = r.free
      /\ n.lines = TRUE /\ n.plan = r.plan /\ n.back = r.back /\ n.i = r.i
      /\ n.stale = r.stale /\ n.late = r.late
  BY <1>2 DEF Form
<1> HIDE DEF n
<1>5. Typed(n)
  BY <1>2, <1>3, <1>4 DEF Typed, Steps
<1>6. Placed(n) /\ Goes(n, r, "reserved")
  BY <1>1, <1>2, <1>4 DEF Placed, Handled, HoldsStock, Goes
<1>7. Go(p, n) => Reads(p) /\ proc'[p] = n
  BY <1>1, <1>5, <1>6, QuietStep DEF Request, Reads
<1>8. Refuse(p) => Reads(p) /\ Ended(p)
  BY <1>1, RefuseFacts DEF Reads, Ended
<1>9. SUFFICES ASSUME NEW m, m = proc'[p]
               PROVE  /\ Reads(p) /\ r.at = "reserve"
                      /\ \/ m = Idle \/ Back(m, r, "reserve")
                         \/ /\ h.status = "draft" /\ ~h.flag
                            /\ Goes(m, r, "reserved") /\ m.reversed = h.reversed
  BY <1>9 DEF Ended, r, h
<1> QED
  BY <1>1, <1>a, <1>4, <1>6, <1>7, <1>8, <1>9 DEF Ended

LEMMA ReleaseHeaderFacts ==
  ASSUME TypeInv, NEW p \in Proc, ReleaseHeader(p)
  PROVE  /\ Reads(p) /\ proc[p].at = "release"
         /\ \/ ~doc[proc[p].doc].flag /\ Back(proc'[p], proc[p], "release")
            \/ /\ doc[proc[p].doc].flag /\ Goes(proc'[p], proc[p], "released")
               /\ proc'[p].reversed = doc[proc[p].doc].reversed
               /\ proc'[p].held <=> rows[proc[p].doc] = "active"
<1> DEFINE r == proc[p]
           h == doc[r.doc]
           a == rows[r.doc] = "active"
           n == [r EXCEPT !.at = "released", !.held = a, !.reversed = h.reversed]
<1>1. /\ r.at = "release" /\ UNCHANGED tables /\ UNCHANGED <<cause, requests, deaths>>
      /\ (~h.flag /\ Go(p, Return(r, "release"))) \/ (h.flag /\ Go(p, n))
  BY DEF ReleaseHeader
<1>2. Request(r) /\ Typed(r) /\ Placed(r) /\ Form(r) /\ r.doc \in Doc /\ "release" \in Parts(r.op)
  BY <1>1, ProcFacts DEF Placed, Handled, Parts
<1>3. h.reversed \in BOOLEAN /\ a \in BOOLEAN
  BY <1>2 DEF TypeInv, Tables, DocRow
<1>a. Go(p, Return(r, "release")) => Reads(p) /\ Back(proc'[p], r, "release")
  BY <1>1, <1>2, BackStep DEF Reads
<1> HIDE DEF r, h, a
<1>4. /\ Form(n) /\ n.op = r.op /\ n.at = "released" /\ n.doc = r.doc /\ n.order = r.order
      /\ n.flag = r.flag /\ n.reversed = h.reversed /\ (n.held <=> a) /\ n.held \in BOOLEAN /\ n.free = r.free
      /\ n.lines = r.lines /\ n.plan = r.plan /\ n.back = r.back /\ n.i = r.i
      /\ n.stale = r.stale /\ n.late = r.late
  BY <1>2, <1>3 DEF Form
<1> HIDE DEF n
<1>5. Typed(n)
  BY <1>2, <1>3, <1>4 DEF Typed, Steps
<1>6. Placed(n) /\ Goes(n, r, "released")
  BY <1>1, <1>2, <1>4 DEF Placed, Handled, HoldsStock, Goes
<1>7. Go(p, n) => Reads(p) /\ proc'[p] = n
  BY <1>1, <1>5, <1>6, QuietStep DEF Request, Reads
<1>9. SUFFICES ASSUME NEW m, m = proc'[p]
               PROVE  /\ Reads(p) /\ r.at = "release"
                      /\ \/ ~h.flag /\ Back(m, r, "release")
                         \/ /\ h.flag /\ Goes(m, r, "released")
                            /\ m.reversed = h.reversed /\ (m.held <=> a)
  BY <1>9 DEF r, h, a
<1> QED
  BY <1>1, <1>a, <1>4, <1>6, <1>7, <1>9

\* The plan of request n is the balance of k as it is, changed by c.
Plans(n, k, c) ==
  n.plan[k].qty = stock[k].qty + c /\ n.plan[k].res = stock[k].res /\ n.plan[k].row = stock[k].row

LEMMA ReverseStockFacts ==
  ASSUME TypeInv, NEW p \in Proc, ReverseStock(p)
  PROVE  /\ Reads(p) /\ proc[p].at = "movements"
         /\ \/ Ended(p)
            \/ /\ Goes(proc'[p], proc[p], "number") /\ proc'[p].flag = proc[p].flag
               /\ \A k \in Place : Plans(proc'[p], k, IF k \in DOMAIN proc'[p].back THEN proc'[p].back[k] ELSE 0)
<1> DEFINE r == proc[p]
           touched == {Lines[r.doc][i].place : i \in {j \in DOMAIN Lines[r.doc] : moved[r.doc][j] > 0}}
           back == [k \in touched |-> - Registered(r.doc, k)]
           plan == [k \in Place |-> IF k \in touched THEN [stock[k] EXCEPT !.qty = stock[k].qty + back[k]]
                                    ELSE stock[k]]
           n == [r EXCEPT !.at = "number", !.back = back, !.plan = plan]
<1>1. /\ r.at = "movements" /\ UNCHANGED tables /\ UNCHANGED <<cause, requests, deaths>>
      /\ \/ Refuse(p)
         \/ /\ \A k \in touched : stock[k].qty + back[k] >= 0
            /\ Go(p, n)
  BY Zenon DEF ReverseStock
<1>2. Request(r) /\ Typed(r) /\ Placed(r) /\ Form(r) /\ r.doc \in Doc
  BY <1>1, ProcFacts, Zenon
<1>3. touched \subseteq Places(r.doc) /\ touched \subseteq Place
  BY <1>2, LinesFacts DEF Places
<1>4. \A k \in touched : back[k] \in Int
  <2>1. \A i \in DOMAIN Lines[r.doc] : moved[r.doc][i] \in Nat
    BY <1>2 DEF TypeInv, Tables
  <2>2. \A k \in touched : Registered(r.doc, k) \in Int
    BY <1>2, <2>1, RegisteredFacts
  <2>3. \A k \in touched : back[k] = - Registered(r.doc, k)
    OBVIOUS
  <2> HIDE DEF touched, back
  <2> QED
    BY <2>2, <2>3
<1>5. DOMAIN back = touched /\ back \in [DOMAIN back -> Int]
  BY <1>4
<1> HIDE DEF touched, back
<1>6. ASSUME \A k \in touched : stock[k].qty + back[k] >= 0
      PROVE  /\ plan \in [Place -> Balance]
             /\ \A k \in Place : /\ plan[k].qty = stock[k].qty + (IF k \in DOMAIN back THEN back[k] ELSE 0)
                                 /\ plan[k].res = stock[k].res /\ plan[k].row = stock[k].row
  <2>1. ASSUME NEW k \in Place
        PROVE  /\ plan[k] \in Balance
               /\ plan[k].qty = stock[k].qty + (IF k \in DOMAIN back THEN back[k] ELSE 0)
               /\ plan[k].res = stock[k].res /\ plan[k].row = stock[k].row
    <3>1. stock[k] \in Balance
      BY DEF TypeInv, Tables
    <3>2. CASE k \in touched
      <4>1. plan[k] = [stock[k] EXCEPT !.qty = stock[k].qty + back[k]]
        BY <3>2
      <4>2. stock[k].qty + back[k] \in Nat
        BY <1>4, <1>6, <3>1, <3>2 DEF Balance
      <4> QED
        BY <1>5, <3>1, <3>2, <4>1, <4>2 DEF Balance
    <3>3. CASE k \notin touched
      <4>1. plan[k] = stock[k]
        BY <3>3
      <4> QED
        BY <1>5, <3>1, <3>3, <4>1 DEF Balance
    <3> QED
      BY <3>2, <3>3
  <2> QED
    BY <2>1
<1> HIDE DEF r, plan
<1>7. /\ Form(n) /\ n.op = r.op /\ n.at = "number" /\ n.doc = r.doc /\ n.order = r.order
      /\ n.flag = r.flag /\ n.reversed = r.reversed /\ n.held = r.held /\ n.free = r.free
      /\ n.lines = r.lines /\ n.plan = plan /\ n.back = back /\ n.i = r.i
      /\ n.stale = r.stale /\ n.late = r.late
  BY <1>2 DEF Form
<1> HIDE DEF n
<1>8. plan \in [Place -> Balance] => Typed(n)
  BY <1>2, <1>3, <1>5, <1>7 DEF Typed, Steps
<1>9. Placed(n) /\ Goes(n, r, "number")
  BY <1>1, <1>2, <1>3, <1>5, <1>7 DEF Placed, Handled, HoldsStock, Goes
<1>10. CASE Refuse(p)
  BY <1>1, <1>10, RefuseFacts DEF Reads, Ended, r
<1>11. CASE (\A k \in touched : stock[k].qty + back[k] >= 0) /\ Go(p, n)
  <2>1. Reads(p) /\ proc'[p] = n
    BY <1>1, <1>6, <1>8, <1>9, <1>11, QuietStep DEF Request, Reads
  <2>2. \A k \in Place : Plans(n, k, IF k \in DOMAIN n.back THEN n.back[k] ELSE 0)
    BY <1>6, <1>7, <1>11 DEF Plans
  <2>3. SUFFICES ASSUME NEW m, m = proc'[p]
                 PROVE  /\ Reads(p) /\ r.at = "movements" /\ Goes(m, r, "number") /\ m.flag = r.flag
                        /\ \A k \in Place : Plans(m, k, IF k \in DOMAIN m.back THEN m.back[k] ELSE 0)
    BY <2>3 DEF r
  <2> QED
    BY <1>1, <1>7, <1>9, <2>1, <2>2, <2>3
<1> QED
  BY <1>1, <1>10, <1>11

\* A place a document names has a last line.
LEMMA LastLine ==
  ASSUME NEW d \in Doc, NEW k \in Places(d)
  PROVE  \E i \in DOMAIN Lines[d] :
           Lines[d][i].place = k /\ \A j \in DOMAIN Lines[d] : j > i => Lines[d][j].place # k
<1> DEFINE n == Len(Lines[d])
           at == {i \in 1..n : Lines[d][i].place = k}
           F == {i..n : i \in at}
<1>1. n \in Nat /\ DOMAIN Lines[d] = 1..n /\ IsFiniteSet(1..n)
  BY LinesFacts, FS_Interval
<1>2. at # {}
  BY <1>1 DEF Places
<1> HIDE DEF n
<1>3. at \subseteq 1..n
  OBVIOUS
<1>4. F \in SUBSET SUBSET (1..n) /\ F # {}
  <2>1. \A i \in at : i..n \subseteq 1..n
    BY <1>1, <1>3
  <2> HIDE DEF at
  <2> QED
    BY <1>2, <2>1
<1> HIDE DEF F
<1>5. PICK T \in F : \A U \in F : U \subseteq T => U = T
  <2> DEFINE S == 1..n
  <2>1. IsFiniteSet(S) /\ F \in SUBSET SUBSET S /\ F # {}
    BY <1>1, <1>4
  <2> HIDE DEF S
  <2> QED
    BY <2>1, SmallestSet
<1>6. PICK i \in at : T = i..n
  BY <1>5 DEF F
<1>7. ASSUME NEW j \in at, j > i PROVE FALSE
  <2>1. j..n \in F
    BY <1>7 DEF F
  <2>2. i \in 1..n /\ j \in 1..n
    BY <1>3, <1>6, <1>7
  <2>3. j..n \subseteq i..n /\ i \in i..n /\ i \notin j..n
    BY <1>1, <1>7, <2>2
  <2> QED
    BY <1>5, <1>6, <2>1, <2>3, Zenon
<1> QED
  BY <1>1, <1>6, <1>7

LEMMA PostStockFacts ==
  ASSUME TypeInv, NEW p \in Proc, PostStock(p)
  PROVE  /\ Reads(p) /\ proc[p].at = "stock"
         /\ \/ Ended(p)
            \/ /\ Goes(proc'[p], proc[p], "balance") /\ proc'[p].i = 1
               /\ \A k \in Place : Plans(proc'[p], k, SumFunction(Moves(proc[p].doc, k)))
<1> DEFINE r == proc[p]
           d == r.doc
           left(i) == stock[Lines[d][i].place].qty + SumFunctionOnSet(Moves(d, Lines[d][i].place), 1..i)
           plan == [k \in Place |-> [stock[k] EXCEPT !.qty = stock[k].qty + SumFunction(Moves(d, k))]]
           n == [r EXCEPT !.at = "balance", !.i = 1, !.plan = plan]
<1>1. /\ r.at = "stock" /\ UNCHANGED tables /\ UNCHANGED <<cause, requests, deaths>>
      /\ \/ Refuse(p)
         \/ Lines[d] # <<>> /\ (\A i \in DOMAIN Lines[d] : left(i) >= 0) /\ Go(p, n)
  BY Zenon DEF PostStock
<1>2. Request(r) /\ Typed(r) /\ Placed(r) /\ Form(r) /\ d \in Doc
  BY <1>1, ProcFacts
<1>3. \A k \in Place : stock[k] \in Balance
  BY DEF TypeInv, Tables
<1>4. ASSUME \A i \in DOMAIN Lines[d] : left(i) >= 0, NEW k \in Place
      PROVE  /\ plan[k] \in Balance
             /\ plan[k].qty = stock[k].qty + SumFunction(Moves(d, k))
             /\ plan[k].res = stock[k].res /\ plan[k].row = stock[k].row
  <2>1. plan[k] = [stock[k] EXCEPT !.qty = stock[k].qty + SumFunction(Moves(d, k))]
    OBVIOUS
  <2>2. SumFunction(Moves(d, k)) \in Int
    BY <1>2, MovesFacts
  <2>3. stock[k].qty + SumFunction(Moves(d, k)) >= 0
    <3>1. CASE k \in Places(d)
      <4>1. PICK i \in DOMAIN Lines[d] :
              Lines[d][i].place = k /\ \A j \in DOMAIN Lines[d] : j > i => Lines[d][j].place # k
        BY <1>2, <3>1, LastLine
      <4>2. DOMAIN Lines[d] = 1..Len(Lines[d]) /\ Len(Lines[d]) \in Nat
        BY <1>2, LinesFacts
      <4>3. 1..i \in SUBSET DOMAIN Lines[d] /\ \A j \in DOMAIN Lines[d] \ (1..i) : j > i
        BY <4>2
      <4>4. SumFunctionOnSet(Moves(d, k), 1..i) = SumFunction(Moves(d, k))
        BY <1>2, <4>1, <4>3, PartOfLines
      <4>5. left(i) >= 0
        BY <1>4
      <4> QED
        BY <4>1, <4>4, <4>5
    <3>2. CASE k \notin Places(d)
      <4>1. {} \in SUBSET DOMAIN Lines[d] /\ \A i \in DOMAIN Lines[d] \ {} : Lines[d][i].place # k
        BY <3>2 DEF Places
      <4>2. SumFunction(Moves(d, k)) = 0
        BY <1>2, <4>1, PartOfLines, SumEmpty
      <4> QED
        BY <1>3, <4>2 DEF Balance
    <3> QED
      BY <3>1, <3>2
  <2> HIDE DEF plan
  <2> QED
    BY <1>3, <2>1, <2>2, <2>3 DEF Balance
<1>5. (\A i \in DOMAIN Lines[d] : left(i) >= 0) => plan \in [Place -> Balance]
  BY <1>4
<1>6. Lines[d] # <<>> => 1 \in DOMAIN Lines[d]
  BY <1>2, StockAssumption
<1> HIDE DEF plan
<1>7. /\ Form(n) /\ n.op = r.op /\ n.at = "balance" /\ n.doc = d /\ n.order = r.order
      /\ n.flag = r.flag /\ n.reversed = r.reversed /\ n.held = r.held /\ n.free = r.free
      /\ n.lines = r.lines /\ n.plan = plan /\ n.back = r.back /\ n.i = 1
      /\ n.stale = r.stale /\ n.late = r.late
  <2> HIDE DEF r
  <2> QED
    BY <1>2 DEF Form
<1>10. CASE Refuse(p)
  BY <1>1, <1>10, RefuseFacts DEF Reads, Ended
<1>11. CASE Lines[d] # <<>> /\ (\A i \in DOMAIN Lines[d] : left(i) >= 0) /\ Go(p, n)
  <2>a. \A k \in Place : /\ plan[k].qty = stock[k].qty + SumFunction(Moves(d, k))
                         /\ plan[k].res = stock[k].res /\ plan[k].row = stock[k].row
    BY <1>4, <1>11
  <2> HIDE DEF n, left
  <2>1. plan \in [Place -> Balance]
    BY <1>5, <1>11
  <2>2. Typed(n)
    <3> HIDE DEF r
    <3> QED
      BY <1>2, <1>7, <2>1 DEF Typed, Steps
  <2>3. Placed(n) /\ Goes(n, r, "balance")
    <3>1. 1 \in DOMAIN Lines[n.doc]
      BY <1>6, <1>7, <1>11
    <3> HIDE DEF r
    <3> QED
      BY <1>1, <1>2, <1>7, <3>1 DEF Placed, Handled, HoldsStock, Goes
  <2>4. Reads(p) /\ proc'[p] = n
    BY <1>1, <1>11, <2>2, <2>3, QuietStep DEF Request, Reads
  <2>5. \A k \in Place : Plans(n, k, SumFunction(Moves(d, k)))
    BY <1>7, <2>a DEF Plans
  <2>6. SUFFICES ASSUME NEW m, m = proc'[p]
                 PROVE  /\ Reads(p) /\ r.at = "stock" /\ Goes(m, r, "balance") /\ m.i = 1
                        /\ \A k \in Place : Plans(m, k, SumFunction(Moves(d, k)))
    BY <2>6
  <2> QED
    BY <1>1, <1>7, <2>3, <2>4, <2>5, <2>6
<1> QED
  BY <1>1, <1>10, <1>11, Zenon

LEMMA ReverseNumberFacts ==
  ASSUME TypeInv, NEW p \in Proc, ReverseNumber(p)
  PROVE  /\ Reads(p) /\ proc[p].at = "number"
         /\ Goes(proc'[p], proc[p], "reverse") /\ proc'[p].flag = proc[p].flag
         /\ proc'[p].plan = proc[p].plan /\ proc'[p].back = proc[p].back
<1> DEFINE r == proc[p]
           b == reversals[r.doc] = 0
           n == [r EXCEPT !.at = "reverse", !.free = b]
<1>1. r.at = "number" /\ UNCHANGED tables /\ UNCHANGED <<cause, requests, deaths>> /\ Go(p, n)
  BY DEF ReverseNumber
<1>2. Request(r) /\ Typed(r) /\ Placed(r) /\ Form(r) /\ b \in BOOLEAN
  BY <1>1, ProcFacts
<1> HIDE DEF r, b
<1>3. /\ Form(n) /\ n.op = r.op /\ n.at = "reverse" /\ n.doc = r.doc /\ n.order = r.order
      /\ n.flag = r.flag /\ n.reversed = r.reversed /\ n.held = r.held /\ n.free \in BOOLEAN
      /\ n.lines = r.lines /\ n.plan = r.plan /\ n.back = r.back /\ n.i = r.i
      /\ n.stale = r.stale /\ n.late = r.late
  BY <1>2 DEF Form
<1> HIDE DEF n
<1>4. Typed(n)
  BY <1>2, <1>3 DEF Typed, Steps
<1>5. Placed(n) /\ Goes(n, r, "reverse")
  BY <1>1, <1>2, <1>3 DEF Placed, Handled, HoldsStock, Goes
<1>6. Reads(p) /\ proc'[p] = n
  BY <1>1, <1>4, <1>5, QuietStep DEF Request, Reads
<1>7. SUFFICES ASSUME NEW m, m = proc'[p]
               PROVE  /\ Reads(p) /\ r.at = "number" /\ Goes(m, r, "reverse") /\ m.flag = r.flag
                      /\ m.plan = r.plan /\ m.back = r.back
  BY <1>7 DEF r
<1> QED
  BY <1>1, <1>3, <1>5, <1>6, <1>7

LEMMA TellFacts ==
  ASSUME TypeInv, NEW p \in Proc, Tell(p)
  PROVE  /\ Reads(p) /\ proc[p].at = "tell"
         /\ Goes(proc'[p], proc[p], "publish") /\ proc'[p].plan = stock
<1> DEFINE r == proc[p]
           n == [r EXCEPT !.at = "publish", !.plan = stock]
<1>1. r.at = "tell" /\ UNCHANGED tables /\ UNCHANGED <<cause, requests, deaths>> /\ Go(p, n)
  BY DEF Tell
<1>2. Request(r) /\ Typed(r) /\ Placed(r) /\ Form(r) /\ stock \in [Place -> Balance]
  BY <1>1, ProcFacts DEF TypeInv, Tables
<1> HIDE DEF r
<1>3. /\ Form(n) /\ n.op = r.op /\ n.at = "publish" /\ n.doc = r.doc /\ n.order = r.order
      /\ n.flag = r.flag /\ n.reversed = r.reversed /\ n.held = r.held /\ n.free = r.free
      /\ n.lines = r.lines /\ n.plan = stock /\ n.back = r.back /\ n.i = r.i
      /\ n.stale = r.stale /\ n.late = r.late
  BY <1>2 DEF Form
<1> HIDE DEF n
<1>4. Typed(n)
  BY <1>2, <1>3 DEF Typed, Steps
<1>5. Placed(n) /\ Goes(n, r, "publish")
  BY <1>1, <1>2, <1>3 DEF Placed, Handled, HoldsStock, Goes
<1>6. Reads(p) /\ proc'[p] = n
  BY <1>1, <1>4, <1>5, QuietStep DEF Request, Reads
<1>7. SUFFICES ASSUME NEW m, m = proc'[p]
               PROVE  Reads(p) /\ r.at = "tell" /\ Goes(m, r, "publish") /\ m.plan = stock
  BY <1>7 DEF r
<1> QED
  BY <1>1, <1>3, <1>5, <1>6, <1>7

\* A request for an order takes up the document linked to it.
Takes(n, r, at, d) ==
  Form(n) /\ n.op = r.op /\ n.at = at /\ n.doc = d /\ n.order = r.order /\ n.stale = {}

LEMMA LoadFacts ==
  ASSUME TypeInv, NEW p \in Proc, Load(p)
  PROVE  /\ Reads(p) /\ proc[p].at = "load"
         /\ \/ Ended(p) \/ Goes(proc'[p], proc[p], "create")
            \/ \E d \in Doc :
                 /\ d = order[proc[p].order].doc
                 /\ \/ proc[p].op = "saveDraft" /\ Takes(proc'[p], proc[p], "release", d)
                    \/ /\ proc[p].op = "postOrder"
                       /\ \/ doc[d].status = "posted" /\ Takes(proc'[p], proc[p], "release", d)
                          \/ Takes(proc'[p], proc[p], "post", d)
                    \/ /\ proc[p].op = "deleteDraft" /\ doc[d].status # "posted"
                       /\ \/ Takes(proc'[p], proc[p], "release", d)
                          \/ Takes(proc'[p], proc[p], "unlink", d)
<1> DEFINE r == proc[p]
           d == order[r.order].doc
           to(step) == [r EXCEPT !.at = step, !.doc = d]
<1>1. r.at = "load" /\ UNCHANGED tables /\ UNCHANGED <<cause, requests, deaths>>
  BY DEF Load
<1>2. /\ Request(r) /\ Typed(r) /\ Placed(r) /\ Form(r) /\ r.doc = None /\ r.stale = {}
      /\ r.op \in OrderOps /\ r.order \in Order
  BY <1>1, ProcFacts DEF Placed, Handled, HoldsStock
<1>3. d \in Doc \cup {None} /\ (d # None => OrderOf[d] = r.order)
  BY <1>2 DEF TypeInv, Tables, Belongs
<1>4. \/ Refuse(p)
      \/ r.op \in {"saveDraft", "closeOrder"} /\ Goto(p, "create")
      \/ r.op = "saveDraft" /\ d # None /\ Go(p, to("release"))
      \/ /\ r.op = "postOrder" /\ d # None
         /\ (doc[d].status = "posted" /\ Go(p, to("release"))) \/ Go(p, to("post"))
      \/ /\ r.op = "deleteDraft" /\ d # None /\ doc[d].status # "posted"
         /\ Go(p, to("release")) \/ Go(p, to("unlink"))
  <2>1. CASE r.op = "closeOrder"
    BY <2>1 DEF Load, Refuse, Goto
  <2>2. CASE r.op = "saveDraft"
    BY <2>2 DEF Load, Refuse, Goto
  <2>3. CASE r.op = "postOrder"
    BY <2>3 DEF Load, Refuse, Goto
  <2>4. CASE r.op = "deleteDraft"
    BY <2>4 DEF Load, Refuse, Goto
  <2> QED
    BY <1>2, <2>1, <2>2, <2>3, <2>4 DEF OrderOps
<1> HIDE DEF d
<1>5. ASSUME NEW step \in {"release", "post", "unlink"}, Handled(r.op, step), d # None, Go(p, to(step))
      PROVE  Reads(p) /\ Takes(proc'[p], r, step, d)
  <2> DEFINE n == to(step)
  <2>1. /\ Form(n) /\ n.op = r.op /\ n.at = step /\ n.doc = d /\ n.order = r.order
        /\ n.flag = r.flag /\ n.reversed = r.reversed /\ n.held = r.held /\ n.free = r.free
        /\ n.lines = r.lines /\ n.plan = r.plan /\ n.back = r.back /\ n.i = r.i
        /\ n.stale = r.stale /\ n.late = r.late
    <3> HIDE DEF r
    <3> QED
      BY <1>2 DEF Form
  <2> HIDE DEF n
  <2>2. Typed(n)
    <3> HIDE DEF r
    <3> QED
      BY <1>2, <1>3, <1>5, <2>1 DEF Typed, Steps
  <2>3. Placed(n) /\ Takes(n, r, step, d)
    <3> HIDE DEF r
    <3> QED
      BY <1>2, <1>3, <1>5, <2>1 DEF Placed, HoldsStock, Takes
  <2>4. Go(p, n)
    BY <1>5 DEF n
  <2> QED
    BY <1>1, <2>2, <2>3, <2>4, QuietStep DEF Request, Reads
<1>6. ASSUME r.op \in {"saveDraft", "closeOrder"}, Goto(p, "create")
      PROVE  Reads(p) /\ Goes(proc'[p], r, "create")
  <2>1. Handled(r.op, "create") /\ "create" \in Steps
    BY <1>6 DEF Handled, Steps
  <2>2. Request([r EXCEPT !.at = "create"]) /\ Goes([r EXCEPT !.at = "create"], r, "create")
    BY <1>1, <1>2, <2>1, GotoFacts
  <2> QED
    BY <1>1, <1>6, <2>2, QuietStep DEF Goto, Reads
<1>7. /\ r.op = "saveDraft" => Handled(r.op, "release")
      /\ r.op = "postOrder" => Handled(r.op, "release") /\ Handled(r.op, "post")
      /\ r.op = "deleteDraft" => Handled(r.op, "release") /\ Handled(r.op, "unlink")
  BY DEF Handled, OrderOps
<1>8. Refuse(p) => Reads(p) /\ Ended(p)
  BY <1>1, RefuseFacts DEF Reads, Ended
<1>9. SUFFICES /\ Reads(p)
               /\ \/ Ended(p) \/ Goes(proc'[p], r, "create")
                  \/ /\ d \in Doc
                     /\ \/ r.op = "saveDraft" /\ Takes(proc'[p], r, "release", d)
                        \/ /\ r.op = "postOrder"
                           /\ \/ doc[d].status = "posted" /\ Takes(proc'[p], r, "release", d)
                              \/ Takes(proc'[p], r, "post", d)
                        \/ /\ r.op = "deleteDraft" /\ doc[d].status # "posted"
                           /\ \/ Takes(proc'[p], r, "release", d)
                              \/ Takes(proc'[p], r, "unlink", d)
  BY <1>1, <1>9 DEF d
<1> HIDE DEF r, to
<1>10. CASE Refuse(p)
  BY <1>8, <1>10
<1>11. CASE r.op \in {"saveDraft", "closeOrder"} /\ Goto(p, "create")
  BY <1>6, <1>11
<1>12. CASE r.op = "saveDraft" /\ d # None /\ Go(p, to("release"))
  BY <1>3, <1>5, <1>7, <1>12
<1>13. CASE /\ r.op = "postOrder" /\ d # None
            /\ (doc[d].status = "posted" /\ Go(p, to("release"))) \/ Go(p, to("post"))
  BY <1>3, <1>5, <1>7, <1>13
<1>14. CASE /\ r.op = "deleteDraft" /\ d # None /\ doc[d].status # "posted"
            /\ Go(p, to("release")) \/ Go(p, to("unlink"))
  BY <1>3, <1>5, <1>7, <1>14
<1> QED
  BY <1>4, <1>10, <1>11, <1>12, <1>13, <1>14

\* A request is made: the others do not notice.
LEMMA AskFacts ==
  ASSUME TypeInv, NEW p \in Proc, NEW n, Request(n), proc[p] = Idle, requests < MaxRequests,
         requests' = requests + 1, UNCHANGED <<tables, deaths>>, proc' = [proc EXCEPT ![p] = n]
  PROVE  TypeInv' /\ Others(p, {}, {}) /\ proc'[p] = n
<1>1. DOMAIN proc = Proc /\ \A q \in Proc : Request(proc[q])
  BY DEF TypeInv, Requests
<1>2. DOMAIN proc' = Proc /\ proc'[p] = n /\ \A q \in Proc \ {p} : proc'[q] = proc[q]
  BY <1>1
<1>3. Requests'
  BY <1>1, <1>2 DEF Requests
<1>4. Others(p, {}, {})
  BY <1>2 DEF Others, Kept
<1>5. Tables' /\ Belongs'
  BY SameTables DEF TypeInv
<1>6. Counted'
  BY StockAssumption DEF TypeInv, Counted
<1> QED
  BY <1>2, <1>3, <1>4, <1>5, <1>6 DEF TypeInv

LEMMA AskDocFacts ==
  ASSUME TypeInv, NEW p \in Proc, NEW d \in Doc, NEW op \in CardOps, AskDoc(p, d, op)
  PROVE  /\ TypeInv' /\ Others(p, {}, {}) /\ UNCHANGED tables /\ cause \subseteq cause'
         /\ proc[p] = Idle /\ doc[d].status # "absent"
         /\ OrderOf[d] # None => <<"direct", d>> \in cause'
         /\ proc'[p].op = op /\ proc'[p].doc = d /\ proc'[p].order = None
         /\ proc'[p].at \in {"post", "plan", "cancel", "edit", "reversal"} /\ proc'[p].stale = {}
<1> DEFINE at == IF op = "reverse" THEN "reversal" ELSE op
           n == [Idle EXCEPT !.op = op, !.doc = d, !.at = at]
<1>1. /\ UNCHANGED tables /\ UNCHANGED deaths /\ requests < MaxRequests /\ requests' = requests + 1
      /\ proc[p] = Idle /\ doc[d].status # "absent" /\ cause \subseteq cause'
      /\ OrderOf[d] # None => <<"direct", d>> \in cause'
  BY DEF AskDoc
<1>2. proc' = [proc EXCEPT ![p] = n]
  BY <1>1 DEF AskDoc, TypeInv, Requests
<1>3. at \in {"post", "plan", "cancel", "edit", "reversal"} /\ Handled(op, at) /\ op \notin OrderOps
  BY DEF CardOps, Handled, OrderOps
<1>4. op \in Ops /\ at \in Steps
  BY <1>3 DEF CardOps, Ops, Steps
<1> HIDE DEF at
<1>5. /\ Form(n) /\ n.op = op /\ n.at = at /\ n.doc = d /\ n.order = Idle.order
      /\ n.flag = Idle.flag /\ n.reversed = Idle.reversed /\ n.held = Idle.held /\ n.free = Idle.free
      /\ n.lines = Idle.lines /\ n.plan = Idle.plan /\ n.back = Idle.back /\ n.i = Idle.i
      /\ n.stale = Idle.stale /\ n.late = Idle.late
  BY DEF Form, Idle
<1> HIDE DEF n
<1>6. Typed(n)
  BY <1>4, <1>5, IdleFacts DEF Request, Typed
<1>7. Placed(n)
  BY <1>3, <1>5, IdleFacts, StockAssumption DEF Placed
<1>8. TypeInv' /\ Others(p, {}, {}) /\ proc'[p] = n
  BY <1>1, <1>2, <1>6, <1>7, AskFacts DEF Request
<1> QED
  BY <1>1, <1>3, <1>5, <1>8, IdleFacts

LEMMA AskOrderFacts ==
  ASSUME TypeInv, NEW p \in Proc, NEW o \in Order, NEW op \in OrderOps, AskOrder(p, o, op)
  PROVE  /\ Reads(p) /\ proc[p] = Idle
         /\ proc'[p].op = op /\ proc'[p].doc = None /\ proc'[p].order = o
         /\ proc'[p].at = "load" /\ proc'[p].stale = {}
<1> DEFINE n == [Idle EXCEPT !.op = op, !.order = o, !.at = "load"]
<1>1. /\ UNCHANGED tables /\ UNCHANGED <<cause, deaths>> /\ requests < MaxRequests
      /\ requests' = requests + 1 /\ proc[p] = Idle
  BY DEF AskOrder
<1>2. proc' = [proc EXCEPT ![p] = n]
  BY <1>1 DEF AskOrder, TypeInv, Requests
<1>3. op \in Ops /\ Handled(op, "load") /\ "load" \in Steps
  BY DEF OrderOps, Ops, Steps, Handled
<1>4. /\ Form(n) /\ n.op = op /\ n.at = "load" /\ n.doc = Idle.doc /\ n.order = o
      /\ n.flag = Idle.flag /\ n.reversed = Idle.reversed /\ n.held = Idle.held /\ n.free = Idle.free
      /\ n.lines = Idle.lines /\ n.plan = Idle.plan /\ n.back = Idle.back /\ n.i = Idle.i
      /\ n.stale = Idle.stale /\ n.late = Idle.late
  BY DEF Form, Idle
<1> HIDE DEF n
<1>5. Typed(n)
  BY <1>3, <1>4, IdleFacts DEF Request, Typed
<1>6. Placed(n)
  BY <1>3, <1>4, IdleFacts DEF Placed
<1>7. TypeInv' /\ Others(p, {}, {}) /\ proc'[p] = n
  BY <1>1, <1>2, <1>5, <1>6, AskFacts DEF Request
<1> QED
  BY <1>1, <1>4, <1>7, IdleFacts DEF Reads

LEMMA DieFacts ==
  ASSUME TypeInv, NEW p \in Proc, Die(p)
  PROVE  /\ TypeInv' /\ Others(p, {}, {}) /\ UNCHANGED tables
         /\ Ended(p) /\ cause' = cause \cup TornBy(proc[p])
<1>1. /\ UNCHANGED tables /\ UNCHANGED requests /\ deaths < MaxDeaths /\ deaths' = deaths + 1
      /\ cause' = cause \cup TornBy(proc[p]) /\ Write(p, Idle, {}, {})
  BY DEF Die, Refuse, Go
<1>2. Requests' /\ proc'[p] = Idle /\ Others(p, {}, {})
  <2>1. {} \subseteq Place
    OBVIOUS
  <2> QED
    BY <1>1, <2>1, IdleFacts, WriteKept DEF TypeInv
<1>3. Tables' /\ Belongs'
  BY <1>1, SameTables DEF TypeInv
<1>4. Counted'
  BY <1>1, StockAssumption DEF TypeInv, Counted
<1> QED
  BY <1>1, <1>2, <1>3, <1>4 DEF TypeInv, Ended

-----------------------------------------------------------------------------
(* The steps that write.                                                   *)

LEMMA WriteStep ==
  ASSUME TypeInv, NEW p \in Proc, NEW n, Request(n), NEW K, K \subseteq Place, NEW D, Write(p, n, K, D),
         Tables', Belongs', UNCHANGED <<requests, deaths>>
  PROVE  TypeInv' /\ Others(p, K, D) /\ proc'[p] = n
<1>1. Requests' /\ proc'[p] = n /\ Others(p, K, D)
  BY WriteKept DEF TypeInv
<1>2. Counted'
  BY DEF TypeInv, Counted
<1> QED
  BY <1>1, <1>2 DEF TypeInv

\* The balance of k is written as planned.
Books(p, k) ==
  /\ Others(p, {k}, {}) /\ UNCHANGED <<doc, rows, moved, reversals, register, told, order>>
  /\ cause \subseteq cause' /\ (k \in proc[p].stale => <<"lost", k>> \in cause')
  /\ \A j \in Place \ {k} : stock'[j] = stock[j] /\ proc'[p].plan[j] = proc[p].plan[j]
  /\ stock'[k].qty = proc[p].plan[k].qty /\ stock'[k].res = proc[p].plan[k].res /\ stock'[k].row = TRUE
  /\ proc'[p].plan[k] = stock'[k]
  /\ Form(proc'[p]) /\ proc'[p].op = proc[p].op /\ proc'[p].at = "movement" /\ proc'[p].doc = proc[p].doc
  /\ proc'[p].order = proc[p].order /\ proc'[p].late = proc[p].late /\ proc'[p].i = proc[p].i
  /\ proc'[p].stale = proc[p].stale \ {k}

LEMMA PostBalanceFacts ==
  ASSUME TypeInv, NEW p \in Proc, PostBalance(p)
  PROVE  /\ TypeInv' /\ proc[p].at = "balance" /\ Line(proc[p]).place \in Place
         /\ \/ /\ Others(p, {}, {}) /\ UNCHANGED tables /\ Ended(p)
               /\ cause' = cause \cup TornBy(proc[p])
            \/ Books(p, Line(proc[p]).place)
<1> DEFINE r == proc[p]
           k == Line(r).place
           b == [r.plan[k] EXCEPT !.row = TRUE]
           plan == [r.plan EXCEPT ![k] = b]
           n == [r EXCEPT !.at = "movement", !.plan = plan, !.stale = r.stale \ {k}]
<1>1. /\ r.at = "balance" /\ UNCHANGED <<doc, rows, moved, reversals, register, told, order, requests, deaths>>
      /\ \/ Refuse(p) /\ cause' = cause \cup TornBy(r) /\ UNCHANGED stock
         \/ /\ stock' = [stock EXCEPT ![k] = b]
            /\ cause' = IF k \in r.stale THEN cause \cup {<<"lost", k>>} ELSE cause
            /\ Write(p, [r EXCEPT !.at = "movement", !.plan[k].row = TRUE, !.stale = @ \ {k}], {k}, {})
  BY DEF PostBalance
<1>2. /\ Request(r) /\ Typed(r) /\ Placed(r) /\ Form(r) /\ r.doc \in Doc /\ r.i \in DOMAIN Lines[r.doc]
      /\ r.plan \in [Place -> Balance] /\ stock \in [Place -> Balance]
  BY <1>1, ProcFacts DEF Placed, Typed, TypeInv, Tables
<1>3. k \in Place
  BY <1>2, LinesFacts DEF Line
<1>4. [r EXCEPT !.at = "movement", !.plan[k].row = TRUE, !.stale = @ \ {k}] = n
  <2> HIDE DEF k
  <2> QED
    BY <1>2 DEF Form
<1>5. CASE Refuse(p) /\ cause' = cause \cup TornBy(r) /\ UNCHANGED stock
  BY <1>1, <1>3, <1>5, RefuseFacts DEF Ended, tables
<1>6. CASE /\ stock' = [stock EXCEPT ![k] = b]
           /\ cause' = IF k \in r.stale THEN cause \cup {<<"lost", k>>} ELSE cause
           /\ Write(p, n, {k}, {})
  <2> HIDE DEF r, k
  <2>1. r.plan[k] \in Balance
    BY <1>2, <1>3
  <2>2. b \in Balance /\ b.qty = r.plan[k].qty /\ b.res = r.plan[k].res /\ b.row = TRUE
    BY <2>1 DEF Balance
  <2> HIDE DEF b
  <2>3. plan \in [Place -> Balance] /\ plan[k] = b /\ \A j \in Place \ {k} : plan[j] = r.plan[j]
    BY <1>2, <1>3, <2>2
  <2>4. stock' \in [Place -> Balance] /\ stock'[k] = b /\ \A j \in Place \ {k} : stock'[j] = stock[j]
    BY <1>2, <1>3, <1>6, <2>2
  <2> HIDE DEF plan
  <2>5. /\ Form(n) /\ n.op = r.op /\ n.at = "movement" /\ n.doc = r.doc /\ n.order = r.order
        /\ n.flag = r.flag /\ n.reversed = r.reversed /\ n.held = r.held /\ n.free = r.free
        /\ n.lines = r.lines /\ n.plan = plan /\ n.back = r.back /\ n.i = r.i
        /\ n.stale = r.stale \ {k} /\ n.late = r.late
    BY <1>2 DEF Form
  <2>a. Write(p, n, {k}, {})
    BY <1>6
  <2> HIDE DEF n
  <2>6. Typed(n)
    BY <1>2, <2>3, <2>5 DEF Typed, Steps
  <2>7. Placed(n)
    BY <1>1, <1>2, <2>5 DEF Placed, Handled, HoldsStock
  <2>8. Tables' /\ Belongs'
    BY <1>1, <2>4 DEF TypeInv, Tables, Belongs
  <2>9. {k} \subseteq Place
    BY <1>3
  <2>10. TypeInv' /\ Others(p, {k}, {}) /\ proc'[p] = n
    BY <1>1, <2>a, <2>6, <2>7, <2>8, <2>9, WriteStep DEF Request
  <2>11. Books(p, k)
    <3>1. cause \subseteq cause' /\ (k \in r.stale => <<"lost", k>> \in cause')
      BY <1>6
    <3>2. SUFFICES ASSUME NEW m, m = proc'[p]
                   PROVE  /\ \A j \in Place \ {k} : stock'[j] = stock[j] /\ m.plan[j] = r.plan[j]
                          /\ stock'[k].qty = r.plan[k].qty /\ stock'[k].res = r.plan[k].res
                          /\ stock'[k].row = TRUE /\ m.plan[k] = stock'[k]
                          /\ Form(m) /\ m.op = r.op /\ m.at = "movement" /\ m.doc = r.doc
                          /\ m.order = r.order /\ m.late = r.late /\ m.i = r.i
                          /\ m.stale = r.stale \ {k}
      BY <1>1, <2>10, <3>1, <3>2, Zenon DEF Books, r
    <3> QED
      BY <2>2, <2>3, <2>4, <2>5, <2>10, <3>2
  <2> QED
    BY <1>1, <1>3, <2>10, <2>11 DEF k, r
<1> HIDE DEF n
<1> QED
  BY <1>1, <1>4, <1>5, <1>6

\* What has gone wrong when p writes what it has read of its document.
Blames(p) ==
  /\ cause \subseteq cause'
  /\ proc[p].late => <<"raced", proc[p].doc>> \in cause'

LEMMA RacedFacts ==
  ASSUME NEW p \in Proc, NEW x, cause' = (cause \cup Raced(proc[p])) \cup x
  PROVE  Blames(p) /\ x \subseteq cause'
BY DEF Blames, Raced

LEMMA PostMovementFacts ==
  ASSUME TypeInv, NEW p \in Proc, PostMovement(p)
  PROVE  LET r == proc[p]
             n == proc'[p]
             l == Line(r) IN
         /\ TypeInv' /\ Others(p, {}, {r.doc}) /\ Blames(p) /\ r.at = "movement"
         /\ UNCHANGED <<doc, rows, reversals, stock, told, order>>
         /\ l.place \in Place /\ l.delta \in Int
         /\ register'[l.place] = register[l.place] + l.delta
         /\ \A k \in Place \ {l.place} : register'[k] = register[k]
         /\ \A d \in Doc \ {r.doc} : moved'[d] = moved[d]
         /\ moved'[r.doc][r.i] = moved[r.doc][r.i] + 1
         /\ \A i \in DOMAIN Lines[r.doc] \ {r.i} : moved'[r.doc][i] = moved[r.doc][i]
         /\ Form(n) /\ n.op = r.op /\ n.doc = r.doc /\ n.order = r.order /\ n.late = r.late
         /\ n.plan = r.plan /\ n.stale = r.stale
         /\ \/ n.at = "posted" /\ r.i = Len(Lines[r.doc])
            \/ n.at = "balance" /\ n.i = r.i + 1 /\ n.i \in DOMAIN Lines[r.doc]
<1> DEFINE r == proc[p]
           l == Line(r)
           end == r.i = Len(Lines[r.doc])
           n1 == [r EXCEPT !.at = "posted"]
           n2 == [r EXCEPT !.at = "balance", !.i = r.i + 1]
<1>1. /\ r.at = "movement" /\ UNCHANGED <<doc, rows, reversals, stock, told, order, requests, deaths>>
      /\ moved' = [moved EXCEPT ![r.doc] = [moved[r.doc] EXCEPT ![r.i] = moved[r.doc][r.i] + 1]]
      /\ register' = [register EXCEPT ![l.place] = register[l.place] + l.delta]
      /\ cause' = cause \cup Raced(r)
      /\ Write(p, IF end THEN n1 ELSE n2, {}, {r.doc})
  BY DEF PostMovement
<1>2. /\ Request(r) /\ Typed(r) /\ Placed(r) /\ Form(r) /\ r.doc \in Doc /\ r.i \in DOMAIN Lines[r.doc]
      /\ r.stale \subseteq Place
  BY <1>1, ProcFacts DEF Placed, Typed
<1>3. l.place \in Place /\ l.delta \in Int
  BY <1>2, LinesFacts DEF Line
<1>4. Len(Lines[r.doc]) \in Nat /\ DOMAIN Lines[r.doc] = 1..Len(Lines[r.doc])
  BY <1>2, LinesFacts
<1>5. ~end => r.i + 1 \in DOMAIN Lines[r.doc]
  BY <1>2, <1>4
<1>6. /\ register' \in [Place -> Int] /\ register'[l.place] = register[l.place] + l.delta
      /\ \A k \in Place \ {l.place} : register'[k] = register[k]
  <2>1. register \in [Place -> Int]
    BY DEF TypeInv, Tables
  <2> HIDE DEF l
  <2> QED
    BY <1>1, <1>3, <2>1
<1>7. /\ DOMAIN moved' = Doc /\ (\A d \in Doc : moved'[d] \in [DOMAIN Lines[d] -> Nat])
      /\ \A d \in Doc \ {r.doc} : moved'[d] = moved[d]
      /\ moved'[r.doc][r.i] = moved[r.doc][r.i] + 1
      /\ \A i \in DOMAIN Lines[r.doc] \ {r.i} : moved'[r.doc][i] = moved[r.doc][i]
  <2>1. DOMAIN moved = Doc /\ \A d \in Doc : moved[d] \in [DOMAIN Lines[d] -> Nat]
    BY DEF TypeInv, Tables
  <2> DEFINE row == [moved[r.doc] EXCEPT ![r.i] = moved[r.doc][r.i] + 1]
  <2>2. moved[r.doc] \in [DOMAIN Lines[r.doc] -> Nat]
    BY <1>2, <2>1
  <2>3. /\ row \in [DOMAIN Lines[r.doc] -> Nat] /\ row[r.i] = moved[r.doc][r.i] + 1
        /\ \A i \in DOMAIN Lines[r.doc] \ {r.i} : row[i] = moved[r.doc][i]
    <3> HIDE DEF r
    <3> QED
      BY <1>2, <2>2
  <2>4. moved' = [moved EXCEPT ![r.doc] = row]
    BY <1>1
  <2> HIDE DEF row, r
  <2> QED
    BY <1>2, <2>1, <2>3, <2>4
<1>8. Tables' /\ Belongs'
  BY <1>1, <1>6, <1>7, Zenon DEF TypeInv, Tables, Belongs
<1>9. Blames(p)
  <2>1. cause' = (cause \cup Raced(proc[p])) \cup {}
    BY <1>1
  <2> QED
    BY <2>1, RacedFacts
<1> HIDE DEF r, l, end
<1>10. /\ Form(n1) /\ n1.op = r.op /\ n1.at = "posted" /\ n1.doc = r.doc /\ n1.order = r.order
       /\ n1.flag = r.flag /\ n1.reversed = r.reversed /\ n1.held = r.held /\ n1.free = r.free
       /\ n1.lines = r.lines /\ n1.plan = r.plan /\ n1.back = r.back /\ n1.i = r.i
       /\ n1.stale = r.stale /\ n1.late = r.late
  BY <1>2 DEF Form
<1>11. /\ Form(n2) /\ n2.op = r.op /\ n2.at = "balance" /\ n2.doc = r.doc /\ n2.order = r.order
       /\ n2.flag = r.flag /\ n2.reversed = r.reversed /\ n2.held = r.held /\ n2.free = r.free
       /\ n2.lines = r.lines /\ n2.plan = r.plan /\ n2.back = r.back /\ n2.i = r.i + 1
       /\ n2.stale = r.stale /\ n2.late = r.late
  BY <1>2 DEF Form
<1> HIDE DEF n1, n2
<1>12. PICK n : /\ n = proc'[p] /\ TypeInv' /\ Others(p, {}, {r.doc})
                /\ \/ end /\ n = n1
                   \/ ~end /\ n = n2
  <2>1. {} \subseteq Place
    OBVIOUS
  <2>2. CASE end
    <3>1. Typed(n1)
      BY <1>2, <1>10 DEF Typed, Steps
    <3>2. Placed(n1)
      BY <1>1, <1>2, <1>10 DEF Placed, Handled, HoldsStock
    <3>3. Write(p, n1, {}, {r.doc})
      BY <1>1, <2>2
    <3> QED
      BY <1>1, <1>8, <2>1, <2>2, <3>1, <3>2, <3>3, WriteStep DEF Request
  <2>3. CASE ~end
    <3>1. Typed(n2)
      BY <1>2, <1>11 DEF Typed, Steps
    <3>2. Placed(n2)
      BY <1>1, <1>2, <1>5, <1>11, <2>3 DEF Placed, Handled, HoldsStock
    <3>3. Write(p, n2, {}, {r.doc})
      BY <1>1, <2>3
    <3> QED
      BY <1>1, <1>8, <2>1, <2>3, <3>1, <3>2, <3>3, WriteStep DEF Request
  <2> QED
    BY <2>2, <2>3
<1>13. /\ Form(n) /\ n.op = r.op /\ n.doc = r.doc /\ n.order = r.order /\ n.late = r.late
       /\ n.plan = r.plan /\ n.stale = r.stale
       /\ \/ n.at = "posted" /\ r.i = Len(Lines[r.doc])
          \/ n.at = "balance" /\ n.i = r.i + 1 /\ n.i \in DOMAIN Lines[r.doc]
  BY <1>5, <1>10, <1>11, <1>12 DEF end
<1> QED
  BY <1>1, <1>3, <1>6, <1>7, <1>9, <1>12, <1>13, Zenon DEF r, l

\* The header of document d alone is written, and nothing but the documents.
Heads(p, d) ==
  /\ UNCHANGED <<rows, moved, reversals, stock, register, told, order>>
  /\ \A e \in Doc \ {d} : doc'[e] = doc[e]

LEMMA SetStatusFacts ==
  ASSUME TypeInv, NEW p \in Proc, NEW step, NEW status \in {"planned", "posted", "cancelled"}, NEW n,
         SetStatus(p, step, status, n), step \notin {"idle", "load", "create"}, Request(n)
  PROVE  LET d == proc[p].doc IN
         /\ TypeInv' /\ Others(p, {}, {d}) /\ Blames(p) /\ proc[p].at = step /\ proc'[p] = n
         /\ Heads(p, d) /\ doc'[d].status = status
         /\ doc'[d].flag = doc[d].flag /\ doc'[d].reversed = doc[d].reversed
<1> DEFINE d == proc[p].doc
           h == [doc[d] EXCEPT !.status = status]
<1>1. /\ proc[p].at = step /\ UNCHANGED <<rows, moved, reversals, stock, register, told, order, requests, deaths>>
      /\ doc' = [doc EXCEPT ![d] = h] /\ cause' = cause \cup Raced(proc[p])
      /\ Write(p, n, {}, {d})
  BY DEF SetStatus
<1>2. d \in Doc /\ doc \in [Doc -> DocRow] /\ doc[d] \in DocRow
  BY <1>1, ProcFacts DEF TypeInv, Tables
<1>3. h \in DocRow /\ h.status = status /\ h.flag = doc[d].flag /\ h.reversed = doc[d].reversed
  BY <1>2 DEF DocRow
<1> HIDE DEF d, h
<1>4. doc' \in [Doc -> DocRow] /\ doc'[d] = h /\ \A e \in Doc \ {d} : doc'[e] = doc[e]
  BY <1>1, <1>2, <1>3
<1>5. Tables' /\ Belongs'
  BY <1>1, <1>4 DEF TypeInv, Tables, Belongs
<1>6. TypeInv' /\ Others(p, {}, {d}) /\ proc'[p] = n
  <2>1. {} \subseteq Place
    OBVIOUS
  <2> QED
    BY <1>1, <1>5, <2>1, WriteStep
<1>7. Blames(p)
  <2>1. cause' = (cause \cup Raced(proc[p])) \cup {}
    BY <1>1
  <2> QED
    BY <2>1, RacedFacts
<1>8. Heads(p, d)
  BY <1>1, <1>4 DEF Heads
<1> QED
  BY <1>1, <1>3, <1>4, <1>6, <1>7, <1>8 DEF d

LEMMA PostDoneFacts ==
  ASSUME TypeInv, NEW p \in Proc, PostDone(p)
  PROVE  LET r == proc[p]
             n == proc'[p] IN
         /\ TypeInv' /\ Others(p, {}, {r.doc}) /\ Blames(p) /\ r.at = "posted"
         /\ Heads(p, r.doc) /\ doc'[r.doc].status = "posted"
         /\ doc'[r.doc].flag = doc[r.doc].flag /\ doc'[r.doc].reversed = doc[r.doc].reversed
         /\ n.op = r.op /\ n.at = "tell" /\ n.doc = r.doc /\ n.order = r.order /\ n.late = r.late
         /\ n.stale = {}
<1> DEFINE r == proc[p]
           n == [Idle EXCEPT !.op = r.op, !.at = "tell", !.doc = r.doc, !.order = r.order, !.late = r.late]
<1>1. SetStatus(p, "posted", "posted", n) /\ r.at = "posted"
  BY DEF PostDone, SetStatus
<1>2. Request(r) /\ Typed(r) /\ Placed(r) /\ Form(r) /\ r.doc \in Doc
  BY <1>1, ProcFacts
<1> HIDE DEF r
<1>3. /\ Form(n) /\ n.op = r.op /\ n.at = "tell" /\ n.doc = r.doc /\ n.order = r.order
      /\ n.flag = Idle.flag /\ n.reversed = Idle.reversed /\ n.held = Idle.held /\ n.free = Idle.free
      /\ n.lines = Idle.lines /\ n.plan = Idle.plan /\ n.back = Idle.back /\ n.i = Idle.i
      /\ n.stale = Idle.stale /\ n.late = r.late
  BY DEF Form, Idle
<1> HIDE DEF n
<1>4. Typed(n)
  BY <1>2, <1>3, IdleFacts DEF Request, Typed, Steps
<1>5. Placed(n)
  BY <1>1, <1>2, <1>3, IdleFacts DEF Placed, Handled
<1>6. PICK m : m = n
  OBVIOUS
<1>7. /\ TypeInv' /\ Others(p, {}, {r.doc}) /\ Blames(p) /\ proc'[p] = m
      /\ Heads(p, r.doc) /\ doc'[r.doc].status = "posted"
      /\ doc'[r.doc].flag = doc[r.doc].flag /\ doc'[r.doc].reversed = doc[r.doc].reversed
  <2>1. Request(m) /\ SetStatus(p, "posted", "posted", m)
    BY <1>1, <1>4, <1>5, <1>6 DEF Request
  <2> HIDE DEF n
  <2> QED
    BY <2>1, SetStatusFacts DEF r
<1>8. m.op = r.op /\ m.at = "tell" /\ m.doc = r.doc /\ m.order = r.order /\ m.late = r.late /\ m.stale = {}
  BY <1>3, <1>6, IdleFacts
<1> QED
  BY <1>1, <1>7, <1>8 DEF r

LEMMA PlanDoneFacts ==
  ASSUME TypeInv, NEW p \in Proc, PlanDone(p)
  PROVE  LET d == proc[p].doc IN
         /\ TypeInv' /\ Others(p, {}, {d}) /\ Blames(p) /\ proc[p].at = "planned" /\ Ended(p)
         /\ Heads(p, d) /\ doc'[d].status = "planned"
         /\ doc'[d].flag = doc[d].flag /\ doc'[d].reversed = doc[d].reversed
BY IdleFacts, SetStatusFacts DEF PlanDone, Ended

LEMMA CancelDoneFacts ==
  ASSUME TypeInv, NEW p \in Proc, CancelDone(p)
  PROVE  LET d == proc[p].doc IN
         /\ TypeInv' /\ Others(p, {}, {d}) /\ Blames(p) /\ proc[p].at = "cancelled"
         /\ Back(proc'[p], proc[p], "cancel")
         /\ Heads(p, d) /\ doc'[d].status = "cancelled"
         /\ doc'[d].flag = doc[d].flag /\ doc'[d].reversed = doc[d].reversed
<1>1. proc[p].at = "cancelled"
  BY DEF CancelDone, SetStatus
<1>2. "cancel" \in Parts(proc[p].op)
  BY <1>1, ProcFacts DEF Placed, Handled, Parts
<1>3. PICK n : n = Return(proc[p], "cancel")
  OBVIOUS
<1>4. Request(n) /\ Back(n, proc[p], "cancel")
  BY <1>1, <1>2, <1>3, ProcFacts, ReturnFacts DEF Placed, Handled
<1>5. SetStatus(p, "cancelled", "cancelled", n)
  BY <1>3 DEF CancelDone
<1>6. /\ TypeInv' /\ Others(p, {}, {proc[p].doc}) /\ Blames(p) /\ proc'[p] = n
      /\ Heads(p, proc[p].doc) /\ doc'[proc[p].doc].status = "cancelled"
      /\ doc'[proc[p].doc].flag = doc[proc[p].doc].flag /\ doc'[proc[p].doc].reversed = doc[proc[p].doc].reversed
  BY <1>1, <1>4, <1>5, SetStatusFacts, ZenonT(40)
<1> QED
  BY <1>1, <1>4, <1>6

LEMMA PublishFacts ==
  ASSUME TypeInv, NEW p \in Proc, Publish(p)
  PROVE  LET r == proc[p] IN
         /\ TypeInv' /\ Others(p, {}, {}) /\ r.at = "publish"
         /\ UNCHANGED <<doc, rows, moved, reversals, stock, register, order>>
         /\ cause \subseteq cause'
         /\ \A k \in Place \ Places(r.doc) : told'[k] = told[k]
         /\ \A k \in Places(r.doc) :
              told'[k] = r.plan[k].qty /\ (k \in r.stale => <<"untold", k>> \in cause')
         /\ \/ r.op = "reverse" /\ Ended(p)
            \/ r.op # "reverse" /\ Back(proc'[p], r, "post")
<1> DEFINE r == proc[p]
           part == IF r.op = "reverse" THEN "reverse" ELSE "post"
           n == Return(r, part)
<1>1. /\ r.at = "publish" /\ UNCHANGED <<doc, rows, moved, reversals, stock, register, order, requests, deaths>>
      /\ told' = [k \in Place |-> IF k \in Places(r.doc) THEN r.plan[k].qty ELSE told[k]]
      /\ cause' = cause \cup {<<"untold", k>> : k \in r.stale \cap Places(r.doc)}
      /\ Write(p, n, {}, {})
  BY DEF Publish, Go
<1>2. Request(r) /\ Typed(r) /\ Placed(r) /\ Form(r) /\ r.doc \in Doc /\ Places(r.doc) \subseteq Place
  BY <1>1, ProcFacts, LinesFacts
<1>3. part \in Parts(r.op) /\ r.op # "idle"
  BY <1>1, <1>2 DEF Placed, Handled, Parts
<1>4. Request(n) /\ Back(n, r, part)
  <2> HIDE DEF r, part
  <2> QED
    BY <1>2, <1>3, ReturnFacts, StockAssumption DEF Placed
<1>5. /\ told' \in [Place -> Nat]
      /\ \A k \in Place \ Places(r.doc) : told'[k] = told[k]
      /\ \A k \in Places(r.doc) : told'[k] = r.plan[k].qty
  <2>1. \A k \in Place : r.plan[k].qty \in Nat /\ told[k] \in Nat
    BY <1>2 DEF Typed, Balance, TypeInv, Tables
  <2> HIDE DEF r
  <2> QED
    BY <1>1, <1>2, <2>1
<1>6. Tables' /\ Belongs'
  BY <1>1, <1>5 DEF TypeInv, Tables, Belongs
<1> HIDE DEF n
<1>7. TypeInv' /\ Others(p, {}, {}) /\ proc'[p] = n
  <2>1. {} \subseteq Place
    OBVIOUS
  <2> QED
    BY <1>1, <1>4, <1>6, <2>1, WriteStep
<1>8. r.op = "reverse" => n = Idle
  <2>1. r.op = "reverse" => After(r.op, part) = "idle"
    BY DEF After
  <2> HIDE DEF r, part
  <2> QED
    BY <1>4, <2>1 DEF Back
<1>9. r.op # "reverse" => Back(n, r, "post")
  BY <1>4
<1>10. cause \subseteq cause' /\ \A k \in Places(r.doc) : k \in r.stale => <<"untold", k>> \in cause'
  BY <1>1
<1> QED
  BY <1>1, <1>5, <1>7, <1>8, <1>9, <1>10 DEF Ended

LEMMA CreateFacts ==
  ASSUME TypeInv, NEW p \in Proc, Create(p)
  PROVE  /\ TypeInv' /\ Others(p, {}, {}) /\ proc[p].at = "create" /\ cause' = cause
         /\ \/ UNCHANGED tables /\ Ended(p)
            \/ \E d \in Doc :
                 /\ doc[d].status = "absent" /\ Heads(p, d)
                 /\ doc'[d].status \in {"planned", "draft"}
                 /\ doc'[d].flag = doc[d].flag /\ doc'[d].reversed = doc[d].reversed
                 /\ Form(proc'[p]) /\ proc'[p].doc = d /\ proc'[p].order = proc[p].order
                 /\ proc'[p].op = proc[p].op /\ proc'[p].stale = {}
                 /\ proc'[p].at = After(proc[p].op, "create")
<1> DEFINE r == proc[p]
<1>1. /\ r.at = "create" /\ UNCHANGED <<rows, moved, reversals, stock, register, told, order, cause, requests, deaths>>
      /\ \/ Refuse(p) /\ UNCHANGED doc
         \/ \E d \in Doc :
              /\ OrderOf[d] = r.order /\ doc[d].status = "absent"
              /\ doc' = [doc EXCEPT ![d].status = IF d \in Incoming THEN "planned" ELSE "draft"]
              /\ Write(p, Return([r EXCEPT !.doc = d], "create"), {}, {})
  BY DEF Create, Go
<1>2. Request(r) /\ Typed(r) /\ Placed(r) /\ Form(r) /\ r.op \in {"saveDraft", "closeOrder"} /\ r.stale = {}
  BY <1>1, ProcFacts DEF Placed, Handled, HoldsStock
<1>3. CASE Refuse(p) /\ UNCHANGED doc
  BY <1>1, <1>3, RefuseFacts DEF tables, Ended
<1>4. ASSUME NEW d \in Doc, OrderOf[d] = r.order, doc[d].status = "absent",
             doc' = [doc EXCEPT ![d].status = IF d \in Incoming THEN "planned" ELSE "draft"],
             Write(p, Return([r EXCEPT !.doc = d], "create"), {}, {})
      PROVE  /\ TypeInv' /\ Others(p, {}, {}) /\ Heads(p, d)
             /\ doc'[d].status \in {"planned", "draft"}
             /\ doc'[d].flag = doc[d].flag /\ doc'[d].reversed = doc[d].reversed
             /\ Form(proc'[p]) /\ proc'[p].doc = d /\ proc'[p].order = r.order
             /\ proc'[p].op = r.op /\ proc'[p].stale = {} /\ proc'[p].at = After(r.op, "create")
  <2> DEFINE x == [r EXCEPT !.doc = d]
             n == Return(x, "create")
             status == IF d \in Incoming THEN "planned" ELSE "draft"
             h == [doc[d] EXCEPT !.status = status]
  <2>1. /\ Form(x) /\ x.op = r.op /\ x.at = r.at /\ x.doc = d /\ x.order = r.order
        /\ x.flag = r.flag /\ x.reversed = r.reversed /\ x.held = r.held /\ x.free = r.free
        /\ x.lines = r.lines /\ x.plan = r.plan /\ x.back = r.back /\ x.i = r.i
        /\ x.stale = r.stale /\ x.late = r.late
    <3> HIDE DEF r
    <3> QED
      BY <1>2 DEF Form
  <2> HIDE DEF x
  <2>2. Typed(x)
    <3> HIDE DEF r
    <3> QED
      BY <1>2, <2>1 DEF Typed
  <2>3. x.op # "idle" /\ x.op \in OrderOps /\ x.order \in Order /\ OrderOf[x.doc] = x.order /\ "create" \in Parts(x.op)
    <3>1. r.op \in OrderOps /\ r.order \in Order
      BY <1>2 DEF OrderOps, Placed
    <3> HIDE DEF r
    <3> QED
      BY <1>2, <1>4, <2>1, <3>1 DEF OrderOps, Parts
  <2>4. Request(n) /\ Back(n, x, "create")
    BY <2>1, <2>2, <2>3, ReturnFacts
  <2>5. After(x.op, "create") # "idle"
    <3> HIDE DEF r
    <3> QED
      BY <1>2, <2>1 DEF After
  <2>6. doc \in [Doc -> DocRow] /\ doc[d] \in DocRow
    BY DEF TypeInv, Tables
  <2>7. h \in DocRow /\ h.status \in {"planned", "draft"} /\ h.flag = doc[d].flag /\ h.reversed = doc[d].reversed
    BY <2>6 DEF DocRow
  <2>8. doc' = [doc EXCEPT ![d] = h]
    BY <1>4
  <2> HIDE DEF h
  <2>9. doc' \in [Doc -> DocRow] /\ doc'[d] = h /\ \A e \in Doc \ {d} : doc'[e] = doc[e]
    BY <2>6, <2>7, <2>8
  <2>10. Tables' /\ Belongs'
    BY <1>1, <2>9 DEF TypeInv, Tables, Belongs
  <2>11. Write(p, n, {}, {})
    BY <1>4 DEF x
  <2> HIDE DEF n
  <2>12. TypeInv' /\ Others(p, {}, {}) /\ proc'[p] = n
    <3>1. {} \subseteq Place
      OBVIOUS
    <3> QED
      BY <1>1, <2>4, <2>10, <2>11, <3>1, WriteStep
  <2>13. Heads(p, d)
    BY <1>1, <2>9 DEF Heads
  <2>14. n.doc = d /\ n.order = r.order /\ n.op = r.op /\ n.stale = {} /\ n.at = After(r.op, "create")
    <3> HIDE DEF r
    <3> QED
      BY <2>1, <2>4, <2>5 DEF Back
  <2>15. Form(n)
    BY <2>4 DEF Request, Typed
  <2>16. SUFFICES ASSUME NEW m, m = proc'[p]
                  PROVE  /\ Form(m) /\ m.doc = d /\ m.order = r.order
                         /\ m.op = r.op /\ m.stale = {} /\ m.at = After(r.op, "create")
    BY <2>7, <2>9, <2>12, <2>13, <2>16
  <2> QED
    BY <2>12, <2>14, <2>15, <2>16
<1>5. CASE \E d \in Doc :
              /\ OrderOf[d] = r.order /\ doc[d].status = "absent"
              /\ doc' = [doc EXCEPT ![d].status = IF d \in Incoming THEN "planned" ELSE "draft"]
              /\ Write(p, Return([r EXCEPT !.doc = d], "create"), {}, {})
  BY <1>1, <1>4, <1>5, Zenon
<1> QED
  BY <1>1, <1>3, <1>5

\* An edit of a document nothing is, or was, reserved for.
LEMMA EditDoneFacts ==
  ASSUME TypeInv, NEW p \in Proc, EditDone(p)
  PROVE  LET d == proc[p].doc IN
         /\ TypeInv' /\ proc[p].at = "edited"
         /\ \/ rows[d] # "none" /\ Others(p, {}, {}) /\ UNCHANGED tables /\ cause' = cause /\ Ended(p)
            \/ /\ rows[d] = "none" /\ Others(p, {}, {d}) /\ Blames(p) /\ Heads(p, d)
               /\ doc'[d].status = "draft" /\ doc'[d].flag = FALSE /\ doc'[d].reversed = FALSE
               /\ Back(proc'[p], proc[p], "edit")
<1> DEFINE r == proc[p]
           d == r.doc
           n == Return(r, "edit")
           h == [status |-> "draft", flag |-> FALSE, reversed |-> FALSE]
           b(q) == proc[q].late \/ Holds(proc[q], d)
           drop(q) == [proc[q] EXCEPT !.lines = FALSE, !.late = b(q)]
<1>1. /\ r.at = "edited" /\ UNCHANGED <<rows, moved, reversals, stock, register, told, order, requests, deaths>>
      /\ \/ rows[d] # "none" /\ Refuse(p) /\ UNCHANGED <<doc, cause>>
         \/ /\ rows[d] = "none" /\ doc' = [doc EXCEPT ![d] = h] /\ cause' = cause \cup Raced(r)
            /\ proc' = [q \in Proc |-> CASE q = p -> n
                                         [] q # p /\ proc[q].doc = d -> drop(q)
                                         [] OTHER -> proc[q]]
  BY Zenon DEF EditDone
<1>2. Request(r) /\ Typed(r) /\ Placed(r) /\ Form(r) /\ d \in Doc
  BY <1>1, ProcFacts, Zenon
<1>3. "edit" \in Parts(r.op) /\ r.op # "idle"
  BY <1>1, <1>2, Zenon DEF Placed, Handled, Parts
<1>4. Request(n) /\ Back(n, r, "edit")
  <2> HIDE DEF r
  <2> QED
    BY <1>2, <1>3, ReturnFacts, StockAssumption DEF Placed
<1>5. CASE rows[d] # "none" /\ Refuse(p) /\ UNCHANGED <<doc, cause>>
  BY <1>1, <1>5, RefuseFacts, Zenon DEF tables, Ended
<1>6. CASE /\ rows[d] = "none" /\ doc' = [doc EXCEPT ![d] = h] /\ cause' = cause \cup Raced(r)
           /\ proc' = [q \in Proc |-> CASE q = p -> n
                                        [] q # p /\ proc[q].doc = d -> drop(q)
                                        [] OTHER -> proc[q]]
  <2> HIDE DEF n, h
  <2>1. h \in DocRow /\ h.status = "draft" /\ h.flag = FALSE /\ h.reversed = FALSE
    BY DEF h, DocRow
  <2>2. doc' \in [Doc -> DocRow] /\ doc'[d] = h /\ \A e \in Doc \ {d} : doc'[e] = doc[e]
    BY <1>2, <1>6, <2>1, Zenon DEF TypeInv, Tables
  <2>3. Tables' /\ Belongs'
    BY <1>1, <2>2, Zenon DEF TypeInv, Tables, Belongs
  <2>4. DOMAIN proc' = Proc /\ proc'[p] = n
    BY <1>6, Zenon
  <2>5. ASSUME NEW q \in Proc \ {p}
        PROVE  Request(proc'[q]) /\ Kept(q) /\ (Holds(proc[q], d) => proc'[q].late)
               /\ (proc[q].at \in HoldsStock => {} \subseteq proc'[q].stale)
    <3>1. Request(proc[q]) /\ Form(proc[q])
      BY ProcFacts
    <3>2. CASE proc[q].doc # d
      <4>1. proc'[q] = proc[q] /\ ~Holds(proc[q], d)
        BY <1>6, <3>2, Zenon DEF Holds
      <4> QED
        BY <3>1, <4>1 DEF Kept
    <3>3. CASE proc[q].doc = d
      <4> DEFINE r0 == proc[q]
                 c == b(q)
                 m == [r0 EXCEPT !.lines = FALSE, !.late = c]
      <4>1. proc'[q] = m
        BY <1>6, <3>3, Zenon
      <4>2. c \in BOOLEAN /\ (r0.late => c) /\ (Holds(r0, d) => c)
        BY <3>1 DEF Request, Typed
      <4>3. SUFFICES ASSUME NEW v, v = proc'[q]
                     PROVE  /\ Request(v) /\ v.op = r0.op /\ v.at = r0.at
                            /\ v.doc = r0.doc /\ v.order = r0.order
                            /\ v.flag = r0.flag /\ v.reversed = r0.reversed
                            /\ v.held = r0.held /\ v.free = r0.free /\ v.plan = r0.plan
                            /\ v.back = r0.back /\ v.i = r0.i /\ v.stale = r0.stale /\ v.late = c
        BY <4>2, <4>3 DEF Kept
      <4> HIDE DEF c, r0
      <4>4. v = m
        BY <4>1, <4>3
      <4>5. Request(r0) /\ Form(r0)
        BY <3>1 DEF r0
      <4>6. /\ Form(v) /\ v.op = r0.op /\ v.at = r0.at /\ v.doc = r0.doc /\ v.order = r0.order
            /\ v.flag = r0.flag /\ v.reversed = r0.reversed /\ v.held = r0.held /\ v.free = r0.free
            /\ v.lines = FALSE /\ v.plan = r0.plan /\ v.back = r0.back /\ v.i = r0.i
            /\ v.stale = r0.stale /\ v.late = c
        BY <4>4, <4>5 DEF Form
      <4>7. Typed(v)
        BY <4>2, <4>5, <4>6 DEF Request, Typed
      <4>8. Placed(v)
        BY <4>5, <4>6 DEF Request, Placed
      <4> QED
        BY <4>6, <4>7, <4>8 DEF Request
    <3> QED
      BY <3>2, <3>3
  <2>6. Requests' /\ Others(p, {}, {d})
    BY <1>4, <2>4, <2>5 DEF Requests, Others
  <2>7. Counted'
    BY <1>1, Zenon DEF TypeInv, Counted
  <2>8. Blames(p)
    <3>1. cause' = (cause \cup Raced(proc[p])) \cup {}
      BY <1>6, Zenon
    <3> QED
      BY <3>1, RacedFacts
  <2>9. Heads(p, d)
    BY <1>1, <2>2, Zenon DEF Heads
  <2>10. Back(proc'[p], proc[p], "edit")
    BY <1>4, <2>4
  <2> QED
    BY <1>1, <1>6, <2>1, <2>2, <2>3, <2>6, <2>7, <2>8, <2>9, <2>10, Zenon DEF TypeInv
<1> QED
  BY <1>1, <1>5, <1>6, Zenon

LEMMA ReverseDoneFacts ==
  ASSUME TypeInv, NEW p \in Proc, ReverseDone(p)
  PROVE  LET r == proc[p]
             d == r.doc
             K == DOMAIN r.back IN
         /\ TypeInv' /\ r.at = "reverse"
         /\ \/ Others(p, {}, {}) /\ UNCHANGED tables /\ cause' = cause /\ Ended(p)
            \/ /\ Others(p, K, {d}) /\ Blames(p) /\ UNCHANGED <<rows, moved, told, order>>
               /\ K \subseteq Places(d)
               /\ reversals'[d] = reversals[d] + 1 /\ \A e \in Doc \ {d} : reversals'[e] = reversals[e]
               /\ \A e \in Doc \ {d} : doc'[e] = doc[e]
               /\ doc'[d].status = doc[d].status /\ doc'[d].flag = r.flag /\ doc'[d].reversed = TRUE
               /\ \A k \in Place \ K : stock'[k] = stock[k] /\ register'[k] = register[k]
               /\ \A k \in K : /\ stock'[k].qty = r.plan[k].qty /\ stock'[k].res = r.plan[k].res
                               /\ stock'[k].row = TRUE /\ register'[k] = register[k] + r.back[k]
                               /\ k \in r.stale => <<"lost", k>> \in cause'
               /\ proc'[p].op = "reverse" /\ proc'[p].at = "tell" /\ proc'[p].doc = d
               /\ proc'[p].order = None /\ proc'[p].stale = {}
<1> DEFINE r == proc[p]
           d == r.doc
           K == DOMAIN r.back
           h == [doc[d] EXCEPT !.flag = r.flag, !.reversed = TRUE]
           b(k) == [r.plan[k] EXCEPT !.row = TRUE]
           n == [Idle EXCEPT !.op = r.op, !.at = "tell", !.doc = d]
<1>1. /\ r.at = "reverse" /\ UNCHANGED <<rows, moved, told, order, requests, deaths>>
      /\ \/ Refuse(p) /\ UNCHANGED <<doc, reversals, stock, register, cause>>
         \/ /\ reversals' = [reversals EXCEPT ![d] = reversals[d] + 1]
            /\ stock' = [k \in Place |-> IF k \in K THEN b(k) ELSE stock[k]]
            /\ register' = [k \in Place |-> IF k \in K THEN register[k] + r.back[k] ELSE register[k]]
            /\ doc' = [doc EXCEPT ![d].flag = r.flag, ![d].reversed = TRUE]
            /\ cause' = cause \cup Raced(r) \cup {<<"lost", k>> : k \in r.stale \cap K}
            /\ Write(p, n, K, {d})
  BY DEF ReverseDone
<1>2. Request(r) /\ Typed(r) /\ Placed(r) /\ Form(r) /\ d \in Doc /\ r.op = "reverse"
  BY <1>1, ProcFacts DEF Placed, Handled
<1>3. /\ K \subseteq Places(d) /\ K \subseteq Place /\ r.plan \in [Place -> Balance]
      /\ r.back \in [K -> Int] /\ r.flag \in BOOLEAN
  BY <1>1, <1>2 DEF Placed, Typed
<1>4. CASE Refuse(p) /\ UNCHANGED <<doc, reversals, stock, register, cause>>
  BY <1>1, <1>4, RefuseFacts DEF tables, Ended
<1>5. CASE /\ reversals' = [reversals EXCEPT ![d] = reversals[d] + 1]
           /\ stock' = [k \in Place |-> IF k \in K THEN b(k) ELSE stock[k]]
           /\ register' = [k \in Place |-> IF k \in K THEN register[k] + r.back[k] ELSE register[k]]
           /\ doc' = [doc EXCEPT ![d].flag = r.flag, ![d].reversed = TRUE]
           /\ cause' = cause \cup Raced(r) \cup {<<"lost", k>> : k \in r.stale \cap K}
           /\ Write(p, n, K, {d})
  <2>1. /\ reversals \in [Doc -> Nat] /\ stock \in [Place -> Balance] /\ register \in [Place -> Int]
        /\ doc \in [Doc -> DocRow] /\ doc[d] \in DocRow
    BY <1>2 DEF TypeInv, Tables
  <2>2. doc' = [doc EXCEPT ![d] = h]
    <3> HIDE DEF r, d
    <3> QED
      BY <1>2, <1>5, <2>1
  <2>a. Blames(p) /\ {<<"lost", k>> : k \in r.stale \cap K} \subseteq cause'
    <3>1. cause' = (cause \cup Raced(proc[p])) \cup {<<"lost", k>> : k \in r.stale \cap K}
      BY <1>5
    <3> QED
      BY <3>1, RacedFacts
  <2>b. \A k \in K : k \in r.stale => <<"lost", k>> \in cause'
    BY <2>a
  <2>c. /\ reversals' = [reversals EXCEPT ![d] = reversals[d] + 1]
        /\ stock' = [k \in Place |-> IF k \in K THEN b(k) ELSE stock[k]]
        /\ register' = [k \in Place |-> IF k \in K THEN register[k] + r.back[k] ELSE register[k]]
        /\ Write(p, n, K, {d})
    BY <1>5
  <2> HIDE DEF r, d, K
  <2>3. h \in DocRow /\ h.status = doc[d].status /\ h.flag = r.flag /\ h.reversed = TRUE
    BY <1>3, <2>1 DEF DocRow
  <2> HIDE DEF h
  <2>4. doc' \in [Doc -> DocRow] /\ doc'[d] = h /\ \A e \in Doc \ {d} : doc'[e] = doc[e]
    BY <1>2, <2>1, <2>2, <2>3
  <2>5. /\ reversals' \in [Doc -> Nat] /\ reversals'[d] = reversals[d] + 1
        /\ \A e \in Doc \ {d} : reversals'[e] = reversals[e]
    BY <1>2, <2>1, <2>c
  <2>6. \A k \in K : b(k) \in Balance /\ b(k).qty = r.plan[k].qty /\ b(k).res = r.plan[k].res /\ b(k).row = TRUE
    BY <1>3 DEF Balance
  <2> HIDE DEF b
  <2>7. /\ stock' \in [Place -> Balance] /\ \A k \in K : stock'[k] = b(k)
        /\ \A k \in Place \ K : stock'[k] = stock[k]
    BY <1>3, <2>1, <2>c, <2>6
  <2>8. /\ register' \in [Place -> Int] /\ \A k \in K : register'[k] = register[k] + r.back[k]
        /\ \A k \in Place \ K : register'[k] = register[k]
    <3>1. \A k \in K : r.back[k] \in Int
      BY <1>3
    <3> QED
      BY <1>3, <2>1, <2>c, <3>1
  <2>9. Tables' /\ Belongs'
    BY <1>1, <2>4, <2>5, <2>7, <2>8 DEF TypeInv, Tables, Belongs
  <2>10. /\ Form(n) /\ n.op = r.op /\ n.at = "tell" /\ n.doc = d /\ n.order = Idle.order
         /\ n.flag = Idle.flag /\ n.reversed = Idle.reversed /\ n.held = Idle.held /\ n.free = Idle.free
         /\ n.lines = Idle.lines /\ n.plan = Idle.plan /\ n.back = Idle.back /\ n.i = Idle.i
         /\ n.stale = Idle.stale /\ n.late = Idle.late
    BY DEF Form, Idle
  <2> HIDE DEF n
  <2>11. Typed(n)
    BY <1>2, <2>10, IdleFacts DEF Request, Typed, Steps
  <2>12. Placed(n)
    <3>1. d # None /\ "reverse" \notin OrderOps
      BY <1>2, StockAssumption DEF OrderOps
    <3> QED
      BY <1>2, <2>10, <3>1, IdleFacts DEF Placed, Handled
  <2>13. TypeInv' /\ Others(p, K, {d}) /\ proc'[p] = n
    BY <1>1, <1>3, <2>c, <2>9, <2>11, <2>12, WriteStep DEF Request
  <2>14. SUFFICES ASSUME NEW m, m = proc'[p]
                  PROVE  /\ TypeInv' /\ r.at = "reverse" /\ Others(p, K, {d}) /\ Blames(p)
                         /\ UNCHANGED <<rows, moved, told, order>> /\ K \subseteq Places(d)
                         /\ reversals'[d] = reversals[d] + 1 /\ \A e \in Doc \ {d} : reversals'[e] = reversals[e]
                         /\ \A e \in Doc \ {d} : doc'[e] = doc[e]
                         /\ doc'[d].status = doc[d].status /\ doc'[d].flag = r.flag /\ doc'[d].reversed = TRUE
                         /\ \A k \in Place \ K : stock'[k] = stock[k] /\ register'[k] = register[k]
                         /\ \A k \in K : /\ stock'[k].qty = r.plan[k].qty /\ stock'[k].res = r.plan[k].res
                                         /\ stock'[k].row = TRUE /\ register'[k] = register[k] + r.back[k]
                                         /\ k \in r.stale => <<"lost", k>> \in cause'
                         /\ m.op = "reverse" /\ m.at = "tell" /\ m.doc = d /\ m.order = None /\ m.stale = {}
    BY <2>14 DEF r, d, K
  <2> QED
    BY <1>1, <1>2, <1>3, <2>a, <2>b, <2>3, <2>4, <2>5, <2>6, <2>7, <2>8, <2>10, <2>13, <2>14, IdleFacts
<1> QED
  BY <1>1, <1>4, <1>5, Zenon

LEMMA NeededFacts ==
  ASSUME NEW d \in Doc
  PROVE  /\ Needed(d) \subseteq Places(d) /\ Needed(d) \subseteq Place
         /\ \A k \in Place : Needs(d, k) \in Nat /\ (Needs(d, k) > 0 <=> k \in Needed(d))
BY LinesFacts, NeedsFacts DEF Needed

\* What both steps of a reservation write: its marks in the document.
Marks(p, d, flag) ==
  /\ UNCHANGED <<moved, reversals, register, told, order>>
  /\ \A e \in Doc \ {d} : doc'[e] = doc[e] /\ rows'[e] = rows[e]
  /\ doc'[d].status = doc[d].status /\ doc'[d].flag = flag /\ doc'[d].reversed = proc[p].reversed
  /\ \A k \in Place : stock'[k].qty = stock[k].qty /\ stock'[k].row = stock[k].row
  /\ \A k \in Place \ Needed(d) : stock'[k] = stock[k]

\* The transaction of both: the reservations K becomes res, that of the document v.
MarksWrite(p, flag, part, v, res, K) ==
  LET d == proc[p].doc IN
  /\ proc[p].at \in {"reserved", "released"}
  /\ flag \in BOOLEAN /\ part \in Parts(proc[p].op) /\ v \in {"none", "active", "past"}
  /\ K \subseteq Needed(d) /\ \A k \in Needed(d) : res[k] \in Nat
  /\ stock' = [k \in Place |-> IF k \in K THEN [stock[k] EXCEPT !.res = res[k]] ELSE stock[k]]
  /\ rows' = [rows EXCEPT ![d] = v]
  /\ doc' = [doc EXCEPT ![d].flag = flag, ![d].reversed = proc[p].reversed]
  /\ cause' = cause \cup Raced(proc[p])
  /\ Write(p, Return(proc[p], part), Needed(d), {d})
  /\ UNCHANGED <<moved, reversals, register, told, order, requests, deaths>>

MarksEffect(p, flag, part, v, res, K) ==
  LET d == proc[p].doc IN
  /\ TypeInv' /\ Others(p, Needed(d), {d}) /\ Blames(p) /\ Back(proc'[p], proc[p], part)
  /\ Marks(p, d, flag) /\ rows'[d] = v
  /\ \A k \in K : stock'[k].res = res[k]
  /\ \A k \in Place \ K : stock'[k] = stock[k]

LEMMA MarksFacts ==
  ASSUME TypeInv, NEW p \in Proc, NEW flag, NEW part, NEW v, NEW res, NEW K,
         MarksWrite(p, flag, part, v, res, K)
  PROVE  MarksEffect(p, flag, part, v, res, K)
<1> DEFINE d == proc[p].doc
           h == [doc[d] EXCEPT !.flag = flag, !.reversed = proc[p].reversed]
           b(k) == [stock[k] EXCEPT !.res = res[k]]
<1>0. /\ flag \in BOOLEAN /\ part \in Parts(proc[p].op) /\ v \in {"none", "active", "past"}
      /\ K \subseteq Needed(d) /\ \A k \in Needed(d) : res[k] \in Nat
  BY DEF MarksWrite
<1>1. /\ Request(proc[p]) /\ Typed(proc[p]) /\ Placed(proc[p]) /\ Form(proc[p]) /\ d \in Doc
      /\ proc[p].op # "idle"
  BY ProcFacts DEF Placed, Handled, MarksWrite
<1>2. /\ doc \in [Doc -> DocRow] /\ doc[d] \in DocRow /\ rows \in [Doc -> {"none", "active", "past"}]
      /\ stock \in [Place -> Balance] /\ proc[p].reversed \in BOOLEAN
  BY <1>1 DEF TypeInv, Tables, Typed
<1>3. h \in DocRow /\ h.status = doc[d].status /\ h.flag = flag /\ h.reversed = proc[p].reversed
  BY <1>0, <1>2 DEF DocRow
<1>4. doc' = [doc EXCEPT ![d] = h]
  BY <1>2 DEF MarksWrite
<1>b. /\ rows' = [rows EXCEPT ![d] = v] /\ cause' = cause \cup Raced(proc[p])
      /\ Write(p, Return(proc[p], part), Needed(d), {d})
      /\ UNCHANGED <<moved, reversals, register, told, order, requests, deaths>>
  BY DEF MarksWrite
<1> HIDE DEF h, d
<1>5. doc' \in [Doc -> DocRow] /\ doc'[d] = h /\ \A e \in Doc \ {d} : doc'[e] = doc[e]
  BY <1>1, <1>2, <1>3, <1>4
<1>6. /\ rows' \in [Doc -> {"none", "active", "past"}] /\ rows'[d] = v
      /\ \A e \in Doc \ {d} : rows'[e] = rows[e]
  BY <1>0, <1>1, <1>2, <1>b
<1>7. K \subseteq Needed(d) /\ Needed(d) \subseteq Place /\ \A k \in K : res[k] \in Nat
  BY <1>0, <1>1, NeededFacts
<1>8. \A k \in K : b(k) \in Balance /\ b(k).qty = stock[k].qty /\ b(k).res = res[k] /\ b(k).row = stock[k].row
  BY <1>2, <1>7 DEF Balance
<1>a. stock' = [k \in Place |-> IF k \in K THEN b(k) ELSE stock[k]]
  BY DEF MarksWrite
<1> HIDE DEF b
<1>9. /\ stock' \in [Place -> Balance] /\ \A k \in K : stock'[k] = b(k)
      /\ \A k \in Place \ K : stock'[k] = stock[k]
  BY <1>2, <1>7, <1>8, <1>a
<1>10. Tables' /\ Belongs'
  BY <1>5, <1>6, <1>9, <1>b DEF TypeInv, Tables, Belongs
<1>11. PICK n : n = Return(proc[p], part)
  OBVIOUS
<1>12. Request(n) /\ Back(n, proc[p], part)
  BY <1>0, <1>1, <1>11, ReturnFacts, StockAssumption DEF Placed, d
<1>13. TypeInv' /\ Others(p, Needed(d), {d}) /\ proc'[p] = n
  <2>1. Write(p, n, Needed(d), {d})
    BY <1>11, <1>b
  <2> QED
    BY <1>7, <1>10, <1>12, <1>b, <2>1, WriteStep
<1>14. Blames(p)
  <2>1. cause' = (cause \cup Raced(proc[p])) \cup {}
    BY <1>b
  <2> QED
    BY <2>1, RacedFacts
<1>15. \A k \in Place : stock'[k].qty = stock[k].qty /\ stock'[k].row = stock[k].row
  BY <1>8, <1>9
<1>16. Marks(p, d, flag)
  BY <1>3, <1>5, <1>6, <1>7, <1>9, <1>15, <1>b DEF Marks
<1> QED
  BY <1>6, <1>8, <1>9, <1>12, <1>13, <1>14, <1>16 DEF MarksEffect, d

LEMMA ReserveDoneFacts ==
  ASSUME TypeInv, NEW p \in Proc, ReserveDone(p)
  PROVE  LET d == proc[p].doc IN
         /\ TypeInv' /\ proc[p].at = "reserved"
         /\ \/ Others(p, {}, {}) /\ UNCHANGED tables /\ cause' = cause /\ Ended(p)
            \/ /\ Others(p, Needed(d), {d}) /\ Blames(p) /\ Back(proc'[p], proc[p], "reserve")
               /\ Marks(p, d, TRUE) /\ rows[d] # "active" /\ rows'[d] = "active"
               /\ \A k \in Needed(d) : /\ stock[k].qty - stock[k].res >= Needs(d, k)
                                       /\ stock'[k].res = stock[k].res + Needs(d, k)
<1> DEFINE r == proc[p]
           d == r.doc
           res == [k \in Needed(d) |-> stock[k].res + Needs(d, k)]
<1>1. /\ r.at = "reserved" /\ UNCHANGED <<moved, reversals, register, told, order, requests, deaths>>
      /\ \/ Refuse(p) /\ UNCHANGED <<doc, rows, stock, cause>>
         \/ /\ Available(d) /\ rows[d] # "active"
            /\ stock' = [k \in Place |-> IF k \in Needed(d) THEN [stock[k] EXCEPT !.res = stock[k].res + Needs(d, k)]
                                         ELSE stock[k]]
            /\ rows' = [rows EXCEPT ![d] = "active"]
            /\ doc' = [doc EXCEPT ![d].flag = TRUE, ![d].reversed = r.reversed]
            /\ cause' = cause \cup Raced(r)
            /\ Write(p, Return(r, "reserve"), Needed(d), {d})
  BY DEF ReserveDone
<1>2. Request(r) /\ Typed(r) /\ Placed(r) /\ Form(r) /\ d \in Doc /\ "reserve" \in Parts(r.op)
  BY <1>1, ProcFacts DEF Placed, Handled, Parts
<1>3. CASE Refuse(p) /\ UNCHANGED <<doc, rows, stock, cause>>
  BY <1>1, <1>3, RefuseFacts DEF tables, Ended
<1>4. CASE /\ Available(d) /\ rows[d] # "active"
           /\ stock' = [k \in Place |-> IF k \in Needed(d) THEN [stock[k] EXCEPT !.res = stock[k].res + Needs(d, k)]
                                        ELSE stock[k]]
           /\ rows' = [rows EXCEPT ![d] = "active"]
           /\ doc' = [doc EXCEPT ![d].flag = TRUE, ![d].reversed = r.reversed]
           /\ cause' = cause \cup Raced(r)
           /\ Write(p, Return(r, "reserve"), Needed(d), {d})
  <2>1. \A k \in Needed(d) : res[k] = stock[k].res + Needs(d, k) /\ res[k] \in Nat
    <3>1. \A k \in Needed(d) : stock[k].res \in Nat /\ Needs(d, k) \in Nat
      BY <1>2, NeededFacts DEF TypeInv, Tables, Balance
    <3> HIDE DEF d
    <3> QED
      BY <3>1
  <2>2. stock' = [k \in Place |-> IF k \in Needed(d) THEN [stock[k] EXCEPT !.res = res[k]] ELSE stock[k]]
    <3> HIDE DEF d
    <3> QED
      BY <1>4
  <2> HIDE DEF res
  <2>3. /\ TypeInv' /\ Others(p, Needed(d), {d}) /\ Blames(p) /\ Back(proc'[p], proc[p], "reserve")
        /\ Marks(p, d, TRUE) /\ rows'[d] = "active" /\ \A k \in Needed(d) : stock'[k].res = res[k]
    <3>1. Needed(d) \subseteq Needed(proc[p].doc) /\ TRUE \in BOOLEAN /\ "active" \in {"none", "active", "past"}
      OBVIOUS
    <3>2. PICK flag, part, v : flag = TRUE /\ part = "reserve" /\ v = "active"
      OBVIOUS
    <3>3. MarksWrite(p, flag, part, v, res, Needed(d))
      BY <1>1, <1>2, <1>4, <2>1, <2>2, <3>1, <3>2 DEF MarksWrite
    <3>4. MarksEffect(p, flag, part, v, res, Needed(d))
      BY <3>3, MarksFacts
    <3> QED
      BY <3>2, <3>4 DEF MarksEffect
  <2>4. \A k \in Needed(d) : stock[k].qty - stock[k].res >= Needs(d, k)
    BY <1>4 DEF Available
  <2> QED
    BY <1>1, <1>4, <2>1, <2>3, <2>4
<1> QED
  BY <1>1, <1>3, <1>4

LEMMA ReleaseDoneFacts ==
  ASSUME TypeInv, NEW p \in Proc, ReleaseDone(p)
  PROVE  LET d == proc[p].doc IN
         /\ TypeInv' /\ proc[p].at = "released"
         /\ Others(p, Needed(d), {d}) /\ Blames(p) /\ Back(proc'[p], proc[p], "release")
         /\ Marks(p, d, FALSE) /\ (rows'[d] = IF proc[p].held THEN "past" ELSE rows[d])
         /\ \A k \in Needed(d) :
              /\ stock[k].row /\ stock[k].res >= Needs(d, k) => stock'[k].res = stock[k].res - Needs(d, k)
              /\ ~stock[k].row => stock'[k] = stock[k]
<1> DEFINE r == proc[p]
           d == r.doc
           res == [k \in Needed(d) |-> IF stock[k].res < Needs(d, k) THEN 0 ELSE stock[k].res - Needs(d, k)]
           K == {k \in Needed(d) : stock[k].row}
           v == IF r.held THEN "past" ELSE rows[d]
<1>1. /\ r.at = "released" /\ UNCHANGED <<moved, reversals, register, told, order, requests, deaths>>
      /\ rows' = [rows EXCEPT ![d] = IF r.held THEN "past" ELSE @]
      /\ doc' = [doc EXCEPT ![d].flag = FALSE, ![d].reversed = r.reversed]
      /\ cause' = cause \cup Raced(r)
      /\ Write(p, Return(r, "release"), Needed(d), {d})
  BY DEF ReleaseDone
<1>2. Request(r) /\ Typed(r) /\ Placed(r) /\ Form(r) /\ d \in Doc /\ "release" \in Parts(r.op)
  BY <1>1, ProcFacts DEF Placed, Handled, Parts
<1>3. stock' = [k \in Place |-> IF k \in K THEN [stock[k] EXCEPT !.res = res[k]] ELSE stock[k]]
  BY DEF ReleaseDone
<1>4. rows' = [rows EXCEPT ![d] = v] /\ v \in {"none", "active", "past"}
  BY <1>1, <1>2 DEF TypeInv, Tables
<1>5. \A k \in Needed(d) : /\ res[k] \in Nat
                           /\ stock[k].res >= Needs(d, k) => res[k] = stock[k].res - Needs(d, k)
  <2>1. \A k \in Needed(d) : stock[k].res \in Nat /\ Needs(d, k) \in Nat
    BY <1>2, NeededFacts DEF TypeInv, Tables, Balance
  <2> HIDE DEF d
  <2> QED
    BY <2>1
<1>6. K \subseteq Needed(d) /\ FALSE \in BOOLEAN /\ Needed(d) \subseteq Place
  BY <1>2, NeededFacts
<1>7. \A k \in Needed(d) : k \in K <=> stock[k].row
  OBVIOUS
<1> HIDE DEF res, K, v
<1>8. /\ TypeInv' /\ Others(p, Needed(d), {d}) /\ Blames(p) /\ Back(proc'[p], proc[p], "release")
      /\ Marks(p, d, FALSE) /\ rows'[d] = v /\ (\A k \in K : stock'[k].res = res[k])
      /\ \A k \in Place \ K : stock'[k] = stock[k]
  <2>1. PICK flag, part : flag = FALSE /\ part = "release"
    OBVIOUS
  <2>2. MarksWrite(p, flag, part, v, res, K)
    BY <1>1, <1>2, <1>3, <1>4, <1>5, <1>6, <2>1 DEF MarksWrite
  <2>3. MarksEffect(p, flag, part, v, res, K)
    BY <2>2, MarksFacts
  <2> QED
    BY <2>1, <2>3 DEF MarksEffect
<1> QED
  BY <1>1, <1>5, <1>6, <1>7, <1>8 DEF v

LEMMA SetOrderFacts ==
  ASSUME TypeInv, NEW p \in Proc, Link(p) \/ Close(p) \/ Unlink(p)
  PROVE  LET r == proc[p]
             o == order'[r.order] IN
         /\ TypeInv' /\ Others(p, {}, {}) /\ Blames(p) /\ Ended(p)
         /\ UNCHANGED <<doc, rows, moved, reversals, stock, register, told>>
         /\ r.order \in Order /\ OrderOf[r.doc] = r.order
         /\ \A u \in Order \ {r.order} : order'[u] = order[u]
         /\ \/ r.at = "link" /\ o.status = "open" /\ o.doc = r.doc
            \/ r.at = "close" /\ o.status = "closed" /\ o.doc = r.doc
            \/ r.at = "unlink" /\ o.status = order[r.order].status /\ o.doc = None
<1> DEFINE r == proc[p]
<1>1. PICK step \in {"link", "close", "unlink"},
           o \in [status : {"open", "closed", order[r.order].status}, doc : {r.doc, None}] :
        /\ SetOrder(p, step, o)
        /\ \/ step = "link" /\ o.status = "open" /\ o.doc = r.doc
           \/ step = "close" /\ o.status = "closed" /\ o.doc = r.doc
           \/ step = "unlink" /\ o.status = order[r.order].status /\ o.doc = None
  BY DEF Link, Close, Unlink
<1>2. /\ r.at = step /\ UNCHANGED <<doc, rows, moved, reversals, stock, register, told, requests, deaths>>
      /\ order' = [order EXCEPT ![r.order] = o] /\ cause' = cause \cup Raced(r) /\ Write(p, Idle, {}, {})
  BY <1>1 DEF SetOrder, Go
<1>3. /\ Request(r) /\ r.doc \in Doc /\ r.op \in {"saveDraft", "postOrder", "closeOrder", "deleteDraft"}
      /\ r.order \in Order /\ OrderOf[r.doc] = r.order
  <2>1. Placed(r) /\ Request(r) /\ r.doc \in Doc
    BY <1>1, <1>2, ProcFacts
  <2>2. r.op \in {"saveDraft", "postOrder", "closeOrder", "deleteDraft"}
    BY <1>1, <1>2, <2>1 DEF Placed, Handled
  <2> HIDE DEF r
  <2> QED
    BY <2>1, <2>2, StockAssumption DEF Placed, OrderOps
<1> DEFINE Row == [status : {"open", "closed"}, doc : Doc \cup {None}]
<1>4. order \in [Order -> Row] /\ order[r.order].status \in {"open", "closed"}
  BY <1>3 DEF TypeInv, Tables
<1>5. o \in Row
  <2> HIDE DEF r
  <2> QED
    BY <1>1, <1>3, <1>4
<1> HIDE DEF r, Row
<1>6. order' \in [Order -> Row] /\ order'[r.order] = o /\ \A u \in Order \ {r.order} : order'[u] = order[u]
  BY <1>2, <1>3, <1>4, <1>5
<1>7. Tables'
  BY <1>2, <1>6 DEF TypeInv, Tables, Row
<1>8. Belongs'
  <2> SUFFICES ASSUME NEW u \in Order, order'[u].doc # None
               PROVE  OrderOf[order'[u].doc] = u
    BY DEF Belongs
  <2>1. CASE u = r.order
    BY <1>1, <1>3, <1>6, <2>1
  <2>2. CASE u # r.order
    BY <1>6, <2>2 DEF TypeInv, Belongs
  <2> QED
    BY <2>1, <2>2
<1>9. TypeInv' /\ Others(p, {}, {}) /\ proc'[p] = Idle
  <2>1. {} \subseteq Place
    OBVIOUS
  <2> QED
    BY <1>2, <1>7, <1>8, <2>1, IdleFacts, WriteStep
<1>10. Blames(p)
  <2>1. cause' = (cause \cup Raced(proc[p])) \cup {}
    BY <1>2 DEF r
  <2> QED
    BY <2>1, RacedFacts
<1> QED
  BY <1>1, <1>2, <1>3, <1>6, <1>9, <1>10 DEF Ended, r

-----------------------------------------------------------------------------
(* Every step keeps the types.                                             *)

\* What Next does for one request.
Steps1(p) ==
  \/ PostHeader(p) \/ PostStock(p) \/ PostBalance(p) \/ PostMovement(p) \/ PostDone(p)
  \/ Tell(p) \/ Publish(p)
  \/ PlanHeader(p) \/ PlanDone(p) \/ CancelHeader(p) \/ CancelDone(p)
  \/ Create(p) \/ EditHeader(p) \/ EditDone(p)
Steps2(p) ==
  \/ ReverseHeader(p) \/ ReverseStock(p) \/ ReverseNumber(p) \/ ReverseDone(p)
  \/ ReserveHeader(p) \/ ReserveDone(p) \/ ReleaseHeader(p) \/ ReleaseDone(p)
  \/ Load(p) \/ Link(p) \/ Close(p) \/ Unlink(p)
  \/ Die(p)
Asks(p) ==
  \/ \E d \in Doc, op \in CardOps : AskDoc(p, d, op)
  \/ \E o \in Order, op \in OrderOps : AskOrder(p, o, op)

LEMMA NextSteps == Next => \E p \in Proc : Steps1(p) \/ Steps2(p) \/ Asks(p)
BY DEF Next, Steps1, Steps2, Asks, CardOps, OrderOps

LEMMA TypeStep ==
  ASSUME TypeInv, NEW p \in Proc, Steps1(p) \/ Steps2(p) \/ Asks(p)
  PROVE  TypeInv'
<1>1. CASE Steps1(p)
  BY <1>1, PostHeaderFacts, PostStockFacts, PostBalanceFacts, PostMovementFacts, PostDoneFacts,
     TellFacts, PublishFacts, PlanHeaderFacts, PlanDoneFacts, CancelHeaderFacts, CancelDoneFacts,
     CreateFacts, EditHeaderFacts, EditDoneFacts DEF Steps1, Reads
<1>2. CASE Steps2(p)
  BY <1>2, ReverseHeaderFacts, ReverseStockFacts, ReverseNumberFacts, ReverseDoneFacts,
     ReserveHeaderFacts, ReserveDoneFacts, ReleaseHeaderFacts, ReleaseDoneFacts, LoadFacts,
     SetOrderFacts, DieFacts DEF Steps2, Reads
<1>3. CASE Asks(p)
  BY <1>3, AskDocFacts, AskOrderFacts DEF Asks, Reads
<1> QED
  BY <1>1, <1>2, <1>3

LEMMA TypeInit == Init => TypeInv
<1> SUFFICES ASSUME Init PROVE TypeInv
  OBVIOUS
<1>1. doc \in [Doc -> DocRow]
  BY DEF Init, DocRow
<1>2. \A k \in Place : stock[k] \in Balance /\ stock[k].qty \in Nat /\ register[k] = stock[k].qty
  <2> SUFFICES ASSUME NEW k \in Place
               PROVE  stock[k] \in Balance /\ stock[k].qty \in Nat /\ register[k] = stock[k].qty
    OBVIOUS
  <2>1. Stocked[k] \in Nat \cup {-1}
    BY StockAssumption
  <2>2. stock[k] = [row |-> Stocked[k] # -1, res |-> 0, qty |-> IF Stocked[k] = -1 THEN 0 ELSE Stocked[k]]
    BY DEF Init
  <2>3. register[k] = stock[k].qty
    BY DEF Init
  <2> QED
    BY <2>1, <2>2, <2>3 DEF Balance
<1>3. stock \in [Place -> Balance] /\ register \in [Place -> Int] /\ told \in [Place -> Nat]
  <2>1. DOMAIN stock = Place /\ stock = [k \in Place |-> stock[k]] /\ told = register
    BY DEF Init
  <2>2. register = [k \in Place |-> stock[k].qty]
    BY DEF Init
  <2> QED
    BY <1>2, <2>1, <2>2
<1>4. /\ rows \in [Doc -> {"none", "active", "past"}] /\ DOMAIN moved = Doc
      /\ (\A d \in Doc : moved[d] \in [DOMAIN Lines[d] -> Nat]) /\ reversals \in [Doc -> Nat]
      /\ order \in [Order -> [status : {"open", "closed"}, doc : Doc \cup {None}]]
  BY DEF Init
<1>5. Belongs
  BY DEF Init, Belongs
<1>6. Requests
  BY IdleFacts DEF Init, Requests
<1>7. Counted
  BY StockAssumption DEF Init, Counted
<1> QED
  BY <1>1, <1>3, <1>4, <1>5, <1>6, <1>7 DEF TypeInv, Tables

LEMMA TypeNext == TypeInv /\ [Next]_vars => TypeInv'
<1> SUFFICES ASSUME TypeInv, [Next]_vars PROVE TypeInv'
  OBVIOUS
<1>1. CASE Next
  BY <1>1, NextSteps, TypeStep
<1>2. CASE UNCHANGED vars
  BY <1>2 DEF vars, tables, TypeInv, Tables, Belongs, Requests, Counted
<1> QED
  BY <1>1, <1>2

\* The tables and the requests keep their shape, and no balance ever goes below
\* zero: postWarehouseDocument and the reversal check the total of each place
\* before they write it.
THEOREM TypeCorrect == Spec => []TypeOK
<1>1. TypeInv => TypeOK
  <2> SUFFICES ASSUME TypeInv PROVE TypeOK
    OBVIOUS
  <2>1. \A p \in Proc : Typed(proc[p])
    BY ProcFacts
  <2> QED
    BY <2>1 DEF TypeInv, Tables, DocRow, Requests, Counted, TypeOK, Typed
<1> QED
  BY <1>1, TypeInit, TypeNext, PTL DEF Spec

-----------------------------------------------------------------------------
(* Documents: what a request that has read a header knows of it, unless it   *)
(* is late, and what is true of a document no late request has written.      *)

Active(d) == rows[d] = "active"
RacedOn(d) == Blamed("raced", d)

\* h is the header of the request's document, a says whether it is reserved.
Knows(r, h, a) ==
  /\ r.at \in {"stock", "balance", "movement", "posted", "planned", "cancelled"} => h.status # "posted"
  /\ r.at = "edited" => h.status = "draft"
  /\ r.at \in {"movements", "number", "reverse"} => h.status = "posted" /\ ~h.reversed /\ r.flag = h.flag
  /\ r.at = "reserved" => h.status = "draft" /\ ~h.flag /\ r.reversed = h.reversed
  /\ r.at = "released" => h.flag /\ r.reversed = h.reversed /\ (r.held <=> a)
  /\ r.op = "postOrder" /\ r.at \in {"tell", "publish", "release", "released", "close"} => h.status = "posted"
  /\ r.op = "closeOrder" /\ r.at \in {"tell", "publish", "close"} => h.status = "posted"
  /\ r.op = "deleteDraft" => h.status # "posted"
  /\ (\/ r.op = "closeOrder"
      \/ (r.op = "postOrder" /\ r.at = "close")
      \/ (r.op = "deleteDraft" /\ r.at \in {"cancel", "cancelled"})) => ~a

Direct == \A p \in Proc : proc[p].op \in CardOps /\ proc[p].doc \in Doc /\ OrderOf[proc[p].doc] # None =>
            Blamed("direct", proc[p].doc)
Blank == \A d \in Doc : doc[d].status = "absent" => rows[d] = "none" /\ reversals[d] = 0
Ordered == \A d \in Doc : Active(d) => OrderOf[d] \in Order

SoundDoc(d) ==
  /\ doc[d].flag <=> Active(d)
  /\ reversals[d] = 0 \/ (reversals[d] = 1 /\ doc[d].status = "posted" /\ doc[d].reversed)
  /\ Active(d) => \/ doc[d].status = "draft" \/ Blamed("direct", d)
                  \/ (doc[d].status = "posted" /\ order[OrderOf[d]].status = "open")
Sound == \A d \in Doc : RacedOn(d) \/ SoundDoc(d)

HeaderInv == \A p \in Proc : proc[p].doc \in Doc =>
  proc[p].late \/ RacedOn(proc[p].doc) \/ Knows(proc[p], doc[proc[p].doc], Active(proc[p].doc))

\* The parts of a closed order have been taken, by the document it is linked to.
Spent(d) == doc[d].status = "posted" /\ ~Active(d)
Closed == \A o \in Order : order[o].status = "closed" =>
  \E d \in Doc : /\ OrderOf[d] = o /\ doc[d].status # "absent"
                 /\ RacedOn(d) \/ (order[o].doc = d /\ Spent(d))

DocInv == Direct /\ Blank /\ Ordered /\ Sound /\ HeaderInv /\ Closed
Docs == TypeInv /\ OrderInv /\ DocInv

\* What p knows after its step.
NewKnows(p) ==
  LET n == proc'[p] IN n.doc \in Doc =>
    /\ n.op \in CardOps /\ OrderOf[n.doc] # None => <<"direct", n.doc>> \in cause'
    /\ n.late \/ <<"raced", n.doc>> \in cause' \/ Knows(n, doc'[n.doc], rows'[n.doc] = "active")

\* A request that holds nothing of a document knows nothing of it.
LEMMA KnowsNothing ==
  ASSUME TypeInv, NEW q \in Proc, NEW d, proc[q].doc = d, ~Holds(proc[q], d), NEW h, NEW a \in BOOLEAN
  PROVE  Knows(proc[q], h, a)
<1>1. proc[q].at \notin HoldsHeader /\ proc[q].order = None
  BY DEF Holds
<1>2. proc[q].op \notin OrderOps
  BY <1>1, ProcFacts, StockAssumption DEF Placed
<1> QED
  BY <1>1, <1>2 DEF Knows, HoldsHeader, OrderOps

\* A request the step is not of knows what it knew.
LEMMA KnowsStill ==
  ASSUME NEW q \in Proc, Kept(q), NEW h, NEW a \in BOOLEAN, Knows(proc[q], h, a)
  PROVE  Knows(proc'[q], h, a)
<1> SUFFICES ASSUME NEW n, n = proc'[q] PROVE Knows(n, h, a)
  OBVIOUS
<1>1. /\ n.op = proc[q].op /\ n.at = proc[q].at /\ n.flag = proc[q].flag
      /\ n.reversed = proc[q].reversed /\ n.held = proc[q].held
  BY DEF Kept
<1> QED
  BY <1>1 DEF Knows

\* A step that writes no document, or one that no other request holds unaware.
LEMMA DocWrite ==
  ASSUME Docs, TypeInv', OrderInv', NEW p \in Proc, NEW D, D \subseteq Doc, NEW K, Others(p, K, D),
         cause \subseteq cause', order' = order, NewKnows(p),
         \A e \in Doc \ D : doc'[e] = doc[e] /\ rows'[e] = rows[e] /\ reversals'[e] = reversals[e],
         \A d \in D : /\ doc'[d].status # "absent"
                      /\ rows'[d] = "active" => OrderOf[d] \in Order
                      /\ RacedOn(d)' \/ (SoundDoc(d)' /\ (Spent(d) => Spent(d)'))
  PROVE  DocInv'
<1>1. TypeInv /\ OrderInv /\ DocInv
  BY DEF Docs
<1>2. ASSUME NEW q \in Proc \ {p}
      PROVE  /\ Kept(q) /\ proc'[q].op = proc[q].op /\ proc'[q].doc = proc[q].doc
             /\ proc[q].late => proc'[q].late
             /\ \A d \in D : Holds(proc[q], d) => proc'[q].late
  BY DEF Others, Kept
<1>3. \A d \in Doc : RacedOn(d) => RacedOn(d)'
  BY DEF RacedOn, Blamed
<1>4. Direct'
  <2> SUFFICES ASSUME NEW q \in Proc, proc'[q].op \in CardOps, proc'[q].doc \in Doc, OrderOf[proc'[q].doc] # None
               PROVE  <<"direct", proc'[q].doc>> \in cause'
    BY DEF Direct, Blamed
  <2>1. CASE q = p
    BY <2>1 DEF NewKnows
  <2>2. CASE q # p
    <3>1. proc'[q].op = proc[q].op /\ proc'[q].doc = proc[q].doc
      BY <1>2, <2>2
    <3> QED
      BY <1>1, <3>1 DEF DocInv, Direct, Blamed
  <2> QED
    BY <2>1, <2>2
<1>5. Blank' /\ Ordered'
  BY <1>1 DEF DocInv, Blank, Ordered, Active
<1>6. Sound'
  <2> SUFFICES ASSUME NEW d \in Doc, ~RacedOn(d)' PROVE SoundDoc(d)'
    BY DEF Sound
  <2>1. CASE d \in D
    BY <2>1
  <2>2. CASE d \notin D
    <3>1. SoundDoc(d)
      BY <1>1, <1>3 DEF DocInv, Sound
    <3>2. doc'[d] = doc[d] /\ rows'[d] = rows[d] /\ reversals'[d] = reversals[d]
      BY <2>2
    <3> QED
      BY <3>1, <3>2 DEF SoundDoc, Active, Blamed
  <2> QED
    BY <2>1, <2>2
<1>7. HeaderInv'
  <2> SUFFICES ASSUME NEW q \in Proc, NEW n, n = proc'[q], n.doc \in Doc, ~n.late, NEW d, d = n.doc, ~RacedOn(d)'
               PROVE  Knows(n, doc'[d], rows'[d] = "active")
    BY DEF HeaderInv, Active, RacedOn, Blamed
  <2>1. CASE q = p
    BY <2>1 DEF NewKnows, RacedOn, Blamed
  <2>2. CASE q # p
    <3>1. Kept(q) /\ proc[q].doc = d /\ ~proc[q].late /\ (d \in D => ~Holds(proc[q], d))
      BY <1>2, <2>2
    <3>2. (rows'[d] = "active") \in BOOLEAN
      OBVIOUS
    <3>3. Knows(proc[q], doc'[d], rows'[d] = "active")
      <4>1. CASE d \in D
        BY <1>1, <3>1, <3>2, <4>1, KnowsNothing
      <4>2. CASE d \notin D
        <5>1. doc'[d] = doc[d] /\ rows'[d] = rows[d] /\ ~RacedOn(d)
          BY <1>3, <4>2
        <5>2. Knows(proc[q], doc[d], Active(d))
          BY <1>1, <3>1, <5>1 DEF DocInv, HeaderInv
        <5> QED
          BY <5>1, <5>2 DEF Active
      <4> QED
        BY <4>1, <4>2
    <3> QED
      BY <3>1, <3>2, <3>3, KnowsStill
  <2> QED
    BY <2>1, <2>2
<1>8. Closed'
  <2> SUFFICES ASSUME NEW o \in Order, order[o].status = "closed"
               PROVE  \E d \in Doc : /\ OrderOf[d] = o /\ doc'[d].status # "absent"
                                     /\ RacedOn(d)' \/ (order[o].doc = d /\ Spent(d)')
    BY DEF Closed
  <2>1. PICK d \in Doc : /\ OrderOf[d] = o /\ doc[d].status # "absent"
                         /\ RacedOn(d) \/ (order[o].doc = d /\ Spent(d))
    BY <1>1 DEF DocInv, Closed
  <2>2. CASE d \in D
    BY <1>3, <2>1, <2>2
  <2>3. CASE d \notin D
    BY <1>3, <2>1, <2>3 DEF Spent, Active
  <2> QED
    BY <2>2, <2>3
<1> QED
  BY <1>4, <1>5, <1>6, <1>7, <1>8 DEF DocInv

LEMMA DocRead ==
  ASSUME Docs, TypeInv', OrderInv', NEW p \in Proc, Others(p, {}, {}), cause \subseteq cause',
         UNCHANGED <<doc, rows, reversals, order>>, NewKnows(p)
  PROVE  DocInv'
<1> DEFINE D == {}
<1>1. D \subseteq Doc /\ \A d \in D : FALSE
  OBVIOUS
<1>2. Others(p, {}, D)
  OBVIOUS
<1> HIDE DEF D
<1>3. \A d \in D : /\ doc'[d].status # "absent"
                   /\ rows'[d] = "active" => OrderOf[d] \in Order
                   /\ RacedOn(d)' \/ (SoundDoc(d)' /\ (Spent(d) => Spent(d)'))
  BY <1>1
<1> QED
  BY <1>1, <1>2, <1>3, DocWrite

-----------------------------------------------------------------------------
(* Steps that read, or write no document.                                  *)

LEMMA Nobody ==
  ASSUME NEW p \in Proc, Ended(p)
  PROVE  NewKnows(p)
BY IdleFacts, StockAssumption DEF NewKnows, Ended

\* A request that goes on with its document.
LEMMA Learns ==
  ASSUME Docs, NEW p \in Proc, NEW n, n = proc'[p], NEW r, r = proc[p], r.doc \in Doc,
         n.op = r.op, n.doc = r.doc, n.late = r.late, cause \subseteq cause',
         SoundDoc(r.doc) /\ Knows(r, doc[r.doc], Active(r.doc))
           => Knows(n, doc'[r.doc], rows'[r.doc] = "active")
  PROVE  NewKnows(p)
<1>1. n.op \in CardOps /\ OrderOf[n.doc] # None => <<"direct", n.doc>> \in cause'
  BY DEF Docs, DocInv, Direct, Blamed
<1>2. ASSUME ~n.late, <<"raced", n.doc>> \notin cause'
      PROVE  Knows(n, doc'[n.doc], rows'[n.doc] = "active")
  <2>1. ~RacedOn(r.doc) /\ ~r.late
    BY <1>2 DEF RacedOn, Blamed
  <2>2. SoundDoc(r.doc)
    BY <2>1 DEF Docs, DocInv, Sound
  <2>3. Knows(r, doc[r.doc], Active(r.doc))
    BY <2>1 DEF Docs, DocInv, HeaderInv
  <2> QED
    BY <2>2, <2>3
<1> QED
  BY <1>1, <1>2 DEF NewKnows

\* A step that leaves the documents and the orders as they are.
Watches(p) ==
  /\ TypeInv' /\ Others(p, {}, {}) /\ UNCHANGED <<doc, rows, reversals, order>>
  /\ cause \subseteq cause'

LEMMA ReadsWatch ==
  ASSUME NEW p \in Proc, Reads(p)
  PROVE  Watches(p)
BY DEF Reads, Watches, tables

\* p goes on with what it knows: h is the header of its document.
LEMMA DocReads ==
  ASSUME Docs, OrderInv', NEW p \in Proc, Watches(p), proc[p].doc \in Doc,
         \/ Ended(p)
         \/ /\ proc'[p].op = proc[p].op /\ proc'[p].doc = proc[p].doc /\ proc'[p].late = proc[p].late
            /\ \A n, r, h : \A a \in BOOLEAN :
                 /\ n = proc'[p] /\ r = proc[p] /\ h = doc[r.doc] /\ a = Active(r.doc)
                 /\ SoundDoc(r.doc) /\ Knows(r, h, a)
                 => Knows(n, h, a)
  PROVE  DocInv'
<1>1. /\ TypeInv' /\ Others(p, {}, {}) /\ UNCHANGED <<doc, rows, reversals, order>>
      /\ cause \subseteq cause'
  BY DEF Watches
<1>2. NewKnows(p)
  <2>1. CASE Ended(p)
    BY <2>1, Nobody
  <2>2. CASE ~Ended(p)
    <3> DEFINE r == proc[p]
               n == proc'[p]
    <3>1. /\ n.op = r.op /\ n.doc = r.doc /\ n.late = r.late
          /\ doc'[r.doc] = doc[r.doc] /\ rows'[r.doc] = rows[r.doc]
      BY <1>1, <2>2
    <3>2. Active(r.doc) \in BOOLEAN
      BY DEF Active
    <3>3. SoundDoc(r.doc) /\ Knows(r, doc[r.doc], Active(r.doc)) => Knows(n, doc[r.doc], Active(r.doc))
      BY <2>2, <3>2
    <3>4. SoundDoc(r.doc) /\ Knows(r, doc[r.doc], Active(r.doc))
            => Knows(n, doc'[r.doc], rows'[r.doc] = "active")
      BY <3>1, <3>3 DEF Active
    <3> QED
      BY <1>1, <3>1, <3>4, Learns
  <2> QED
    BY <2>1, <2>2
<1> QED
  BY <1>1, <1>2, DocRead

LEMMA BackFacts ==
  ASSUME NEW n, NEW r, NEW part, Back(n, r, part)
  PROVE  n = Idle \/ (/\ n.op = r.op /\ n.doc = r.doc /\ n.late = r.late /\ n.at # "idle"
                      /\ n.at = After(r.op, part))
BY DEF Back

LEMMA DocPostHeader ==
  ASSUME Docs, OrderInv', NEW p \in Proc, PostHeader(p)
  PROVE  DocInv'
<1> DEFINE r == proc[p]
           n == proc'[p]
<1>1. TypeInv
  BY DEF Docs
<1>2. Reads(p) /\ r.doc \in Doc /\ r.at = "post" /\ r.op \in {"post", "postOrder", "closeOrder"}
  BY <1>1, PostHeaderFacts, ProcFacts DEF Placed, Handled
<1>3. \/ Ended(p)
      \/ /\ n.op = r.op /\ n.doc = r.doc /\ n.late = r.late
         /\ \/ doc[r.doc].status # "posted" /\ n.at = "stock"
            \/ doc[r.doc].status = "posted" /\ n.at = After(r.op, "post") /\ n.at # "idle"
  BY <1>1, PostHeaderFacts, BackFacts DEF Goes, Ended
<1>4. ASSUME ~Ended(p), NEW m, NEW q, NEW h, NEW a \in BOOLEAN, m = n, q = r, h = doc[q.doc],
             a = Active(q.doc), SoundDoc(q.doc), Knows(q, h, a)
      PROVE  Knows(m, h, a)
  <2>1. /\ q.op \in {"post", "postOrder", "closeOrder"} /\ q.at = "post" /\ m.op = q.op
        /\ \/ h.status # "posted" /\ m.at = "stock"
           \/ h.status = "posted" /\ m.at = After(q.op, "post") /\ m.at # "idle"
    BY <1>2, <1>3, <1>4
  <2>2. /\ m.op = "closeOrder" => ~a
        /\ \/ h.status # "posted" /\ m.at = "stock"
           \/ h.status = "posted" /\ m.at = "release" /\ m.op = "postOrder"
           \/ h.status = "posted" /\ m.at = "close" /\ m.op = "closeOrder"
    BY <2>1, <1>4 DEF Knows, After
  <2>3. m.op # "deleteDraft" /\ m.at \notin {"edited", "movements", "number", "reverse", "reserved", "released"}
    BY <2>1, <2>2
  <2> QED
    BY <2>2, <2>3 DEF Knows
<1> QED
  BY <1>2, <1>3, <1>4, ReadsWatch, DocReads

LEMMA DocPostStock ==
  ASSUME Docs, OrderInv', NEW p \in Proc, PostStock(p)
  PROVE  DocInv'
<1> DEFINE r == proc[p]
           n == proc'[p]
<1>1. TypeInv
  BY DEF Docs
<1>2. Reads(p) /\ r.doc \in Doc /\ r.at = "stock" /\ r.op \in {"post", "postOrder", "closeOrder"}
  BY <1>1, PostStockFacts, ProcFacts DEF Placed, Handled
<1>3. \/ Ended(p)
      \/ /\ n.op = r.op /\ n.doc = r.doc /\ n.late = r.late
         /\ n.at = "balance"
  BY <1>1, PostStockFacts, BackFacts DEF Goes, Ended
<1>4. ASSUME ~Ended(p), NEW m, NEW q, NEW h, NEW a \in BOOLEAN, m = n, q = r, h = doc[q.doc],
             a = Active(q.doc), SoundDoc(q.doc), Knows(q, h, a)
      PROVE  Knows(m, h, a)
  <2>1. /\ q.op \in {"post", "postOrder", "closeOrder"} /\ q.at = "stock" /\ m.op = q.op
        /\ m.at = "balance"
    BY <1>2, <1>3, <1>4
  <2>2. (m.op = "closeOrder" => ~a) /\ h.status # "posted" /\ m.at = "balance"
    BY <2>1, <1>4 DEF Knows, After
  <2>3. m.op # "deleteDraft" /\ m.at \notin {"edited", "movements", "number", "reverse", "reserved", "released", "tell", "publish", "close"}
    BY <2>1, <2>2
  <2> QED
    BY <2>2, <2>3 DEF Knows
<1> QED
  BY <1>2, <1>3, <1>4, ReadsWatch, DocReads

LEMMA DocTell ==
  ASSUME Docs, OrderInv', NEW p \in Proc, Tell(p)
  PROVE  DocInv'
<1> DEFINE r == proc[p]
           n == proc'[p]
<1>1. TypeInv
  BY DEF Docs
<1>2. Reads(p) /\ r.doc \in Doc /\ r.at = "tell" /\ r.op \in {"post", "postOrder", "closeOrder", "reverse"}
  BY <1>1, TellFacts, ProcFacts DEF Placed, Handled
<1>3. \/ Ended(p)
      \/ /\ n.op = r.op /\ n.doc = r.doc /\ n.late = r.late
         /\ n.at = "publish"
  BY <1>1, TellFacts, BackFacts DEF Goes, Ended
<1>4. ASSUME ~Ended(p), NEW m, NEW q, NEW h, NEW a \in BOOLEAN, m = n, q = r, h = doc[q.doc],
             a = Active(q.doc), SoundDoc(q.doc), Knows(q, h, a)
      PROVE  Knows(m, h, a)
  <2>1. /\ q.op \in {"post", "postOrder", "closeOrder", "reverse"} /\ q.at = "tell" /\ m.op = q.op
        /\ m.at = "publish"
    BY <1>2, <1>3, <1>4
  <2>2. /\ m.op = "closeOrder" => ~a
        /\ m.op \in {"postOrder", "closeOrder"} => h.status = "posted"
        /\ m.at = "publish"
    BY <2>1, <1>4 DEF Knows, After
  <2>3. m.op # "deleteDraft" /\ m.at \notin {"stock", "balance", "movement", "posted", "planned", "cancelled", "edited", "movements", "number", "reverse", "reserved", "released"}
    BY <2>1, <2>2
  <2> QED
    BY <2>2, <2>3 DEF Knows
<1> QED
  BY <1>2, <1>3, <1>4, ReadsWatch, DocReads

LEMMA DocPlanHeader ==
  ASSUME Docs, OrderInv', NEW p \in Proc, PlanHeader(p)
  PROVE  DocInv'
<1> DEFINE r == proc[p]
           n == proc'[p]
<1>1. TypeInv
  BY DEF Docs
<1>2. Reads(p) /\ r.doc \in Doc /\ r.at = "plan" /\ r.op \in {"plan"}
  BY <1>1, PlanHeaderFacts, ProcFacts DEF Placed, Handled
<1>3. \/ Ended(p)
      \/ /\ n.op = r.op /\ n.doc = r.doc /\ n.late = r.late
         /\ doc[r.doc].status # "posted" /\ n.at = "planned"
  BY <1>1, PlanHeaderFacts, BackFacts DEF Goes, Ended
<1>4. ASSUME ~Ended(p), NEW m, NEW q, NEW h, NEW a \in BOOLEAN, m = n, q = r, h = doc[q.doc],
             a = Active(q.doc), SoundDoc(q.doc), Knows(q, h, a)
      PROVE  Knows(m, h, a)
  <2>1. /\ q.op \in {"plan"} /\ q.at = "plan" /\ m.op = q.op
        /\ h.status # "posted" /\ m.at = "planned"
    BY <1>2, <1>3, <1>4
  <2>2. h.status # "posted" /\ m.at = "planned" /\ m.op = "plan"
    BY <2>1, <1>4 DEF Knows, After
  <2>3. m.op \notin {"deleteDraft", "postOrder", "closeOrder"}
    BY <2>1, <2>2
  <2> QED
    BY <2>2, <2>3 DEF Knows
<1> QED
  BY <1>2, <1>3, <1>4, ReadsWatch, DocReads

LEMMA DocCancelHeader ==
  ASSUME Docs, OrderInv', NEW p \in Proc, CancelHeader(p)
  PROVE  DocInv'
<1> DEFINE r == proc[p]
           n == proc'[p]
<1>1. TypeInv
  BY DEF Docs
<1>2. Reads(p) /\ r.doc \in Doc /\ r.at = "cancel" /\ r.op \in {"cancel", "deleteDraft"}
  BY <1>1, CancelHeaderFacts, ProcFacts DEF Placed, Handled
<1>3. \/ Ended(p)
      \/ /\ n.op = r.op /\ n.doc = r.doc /\ n.late = r.late
         /\ doc[r.doc].status # "posted"
         /\ n.at = "cancelled" \/ (n.at = After(r.op, "cancel") /\ n.at # "idle")
  BY <1>1, CancelHeaderFacts, BackFacts DEF Goes, Ended
<1>4. ASSUME ~Ended(p), NEW m, NEW q, NEW h, NEW a \in BOOLEAN, m = n, q = r, h = doc[q.doc],
             a = Active(q.doc), SoundDoc(q.doc), Knows(q, h, a)
      PROVE  Knows(m, h, a)
  <2>1. /\ q.op \in {"cancel", "deleteDraft"} /\ q.at = "cancel" /\ m.op = q.op
        /\ h.status # "posted"
        /\ m.at = "cancelled" \/ (m.at = After(q.op, "cancel") /\ m.at # "idle")
    BY <1>2, <1>3, <1>4
  <2>2. /\ m.op = "deleteDraft" => ~a
        /\ h.status # "posted" /\ m.at \in {"cancelled", "unlink"}
    BY <2>1, <1>4 DEF Knows, After
  <2>3. m.op \notin {"postOrder", "closeOrder"}
    BY <2>1, <2>2
  <2> QED
    BY <2>2, <2>3 DEF Knows
<1> QED
  BY <1>2, <1>3, <1>4, ReadsWatch, DocReads

LEMMA DocEditHeader ==
  ASSUME Docs, OrderInv', NEW p \in Proc, EditHeader(p)
  PROVE  DocInv'
<1> DEFINE r == proc[p]
           n == proc'[p]
<1>1. TypeInv
  BY DEF Docs
<1>2. Reads(p) /\ r.doc \in Doc /\ r.at = "edit" /\ r.op \in {"edit", "saveDraft"}
  BY <1>1, EditHeaderFacts, ProcFacts DEF Placed, Handled
<1>3. \/ Ended(p)
      \/ /\ n.op = r.op /\ n.doc = r.doc /\ n.late = r.late
         /\ doc[r.doc].status = "draft" /\ n.at = "edited"
  BY <1>1, EditHeaderFacts, BackFacts DEF Goes, Ended
<1>4. ASSUME ~Ended(p), NEW m, NEW q, NEW h, NEW a \in BOOLEAN, m = n, q = r, h = doc[q.doc],
             a = Active(q.doc), SoundDoc(q.doc), Knows(q, h, a)
      PROVE  Knows(m, h, a)
  <2>1. /\ q.op \in {"edit", "saveDraft"} /\ q.at = "edit" /\ m.op = q.op
        /\ h.status = "draft" /\ m.at = "edited"
    BY <1>2, <1>3, <1>4
  <2>2. h.status = "draft" /\ m.at = "edited"
    BY <2>1, <1>4 DEF Knows, After
  <2>3. m.op \notin {"deleteDraft", "postOrder", "closeOrder"}
    BY <2>1, <2>2
  <2> QED
    BY <2>2, <2>3 DEF Knows
<1> QED
  BY <1>2, <1>3, <1>4, ReadsWatch, DocReads

LEMMA DocReverseHeader ==
  ASSUME Docs, OrderInv', NEW p \in Proc, ReverseHeader(p)
  PROVE  DocInv'
<1> DEFINE r == proc[p]
           n == proc'[p]
<1>1. TypeInv
  BY DEF Docs
<1>2. Reads(p) /\ r.doc \in Doc /\ r.at = "reversal" /\ r.op \in {"reverse"}
  BY <1>1, ReverseHeaderFacts, ProcFacts DEF Placed, Handled
<1>3. \/ Ended(p)
      \/ /\ n.op = r.op /\ n.doc = r.doc /\ n.late = r.late
         /\ doc[r.doc].status = "posted" /\ ~doc[r.doc].reversed /\ n.flag = doc[r.doc].flag
         /\ n.at = "movements"
  BY <1>1, ReverseHeaderFacts, BackFacts DEF Goes, Ended
<1>4. ASSUME ~Ended(p), NEW m, NEW q, NEW h, NEW a \in BOOLEAN, m = n, q = r, h = doc[q.doc],
             a = Active(q.doc), SoundDoc(q.doc), Knows(q, h, a)
      PROVE  Knows(m, h, a)
  <2>1. /\ q.op \in {"reverse"} /\ q.at = "reversal" /\ m.op = q.op
        /\ h.status = "posted" /\ ~h.reversed /\ m.flag = h.flag
        /\ m.at = "movements"
    BY <1>2, <1>3, <1>4
  <2>2. h.status = "posted" /\ ~h.reversed /\ m.flag = h.flag /\ m.at = "movements"
    BY <2>1, <1>4 DEF Knows, After
  <2>3. m.op \notin {"deleteDraft", "postOrder", "closeOrder"}
    BY <2>1, <2>2
  <2> QED
    BY <2>2, <2>3 DEF Knows
<1> QED
  BY <1>2, <1>3, <1>4, ReadsWatch, DocReads

LEMMA DocReverseStock ==
  ASSUME Docs, OrderInv', NEW p \in Proc, ReverseStock(p)
  PROVE  DocInv'
<1> DEFINE r == proc[p]
           n == proc'[p]
<1>1. TypeInv
  BY DEF Docs
<1>2. Reads(p) /\ r.doc \in Doc /\ r.at = "movements" /\ r.op \in {"reverse"}
  BY <1>1, ReverseStockFacts, ProcFacts DEF Placed, Handled
<1>3. \/ Ended(p)
      \/ /\ n.op = r.op /\ n.doc = r.doc /\ n.late = r.late
         /\ n.flag = r.flag /\ n.at = "number"
  BY <1>1, ReverseStockFacts, BackFacts DEF Goes, Ended
<1>4. ASSUME ~Ended(p), NEW m, NEW q, NEW h, NEW a \in BOOLEAN, m = n, q = r, h = doc[q.doc],
             a = Active(q.doc), SoundDoc(q.doc), Knows(q, h, a)
      PROVE  Knows(m, h, a)
  <2>1. /\ q.op \in {"reverse"} /\ q.at = "movements" /\ m.op = q.op
        /\ m.flag = q.flag /\ m.at = "number"
    BY <1>2, <1>3, <1>4
  <2>2. h.status = "posted" /\ ~h.reversed /\ m.flag = h.flag /\ m.at = "number"
    BY <2>1, <1>4 DEF Knows, After
  <2>3. m.op \notin {"deleteDraft", "postOrder", "closeOrder"}
    BY <2>1, <2>2
  <2> QED
    BY <2>2, <2>3 DEF Knows
<1> QED
  BY <1>2, <1>3, <1>4, ReadsWatch, DocReads

LEMMA DocReverseNumber ==
  ASSUME Docs, OrderInv', NEW p \in Proc, ReverseNumber(p)
  PROVE  DocInv'
<1> DEFINE r == proc[p]
           n == proc'[p]
<1>1. TypeInv
  BY DEF Docs
<1>2. Reads(p) /\ r.doc \in Doc /\ r.at = "number" /\ r.op \in {"reverse"}
  BY <1>1, ReverseNumberFacts, ProcFacts DEF Placed, Handled
<1>3. \/ Ended(p)
      \/ /\ n.op = r.op /\ n.doc = r.doc /\ n.late = r.late
         /\ n.flag = r.flag /\ n.at = "reverse"
  BY <1>1, ReverseNumberFacts, BackFacts DEF Goes, Ended
<1>4. ASSUME ~Ended(p), NEW m, NEW q, NEW h, NEW a \in BOOLEAN, m = n, q = r, h = doc[q.doc],
             a = Active(q.doc), SoundDoc(q.doc), Knows(q, h, a)
      PROVE  Knows(m, h, a)
  <2>1. /\ q.op \in {"reverse"} /\ q.at = "number" /\ m.op = q.op
        /\ m.flag = q.flag /\ m.at = "reverse"
    BY <1>2, <1>3, <1>4
  <2>2. h.status = "posted" /\ ~h.reversed /\ m.flag = h.flag /\ m.at = "reverse"
    BY <2>1, <1>4 DEF Knows, After
  <2>3. m.op \notin {"deleteDraft", "postOrder", "closeOrder"}
    BY <2>1, <2>2
  <2> QED
    BY <2>2, <2>3 DEF Knows
<1> QED
  BY <1>2, <1>3, <1>4, ReadsWatch, DocReads

LEMMA DocReserveHeader ==
  ASSUME Docs, OrderInv', NEW p \in Proc, ReserveHeader(p)
  PROVE  DocInv'
<1> DEFINE r == proc[p]
           n == proc'[p]
<1>1. TypeInv
  BY DEF Docs
<1>2. Reads(p) /\ r.doc \in Doc /\ r.at = "reserve" /\ r.op \in {"saveDraft"}
  BY <1>1, ReserveHeaderFacts, ProcFacts DEF Placed, Handled
<1>3. \/ Ended(p)
      \/ /\ n.op = r.op /\ n.doc = r.doc /\ n.late = r.late
         /\ \/ n.at = After(r.op, "reserve")
            \/ /\ doc[r.doc].status = "draft" /\ ~doc[r.doc].flag /\ n.reversed = doc[r.doc].reversed
               /\ n.at = "reserved"
  BY <1>1, ReserveHeaderFacts, BackFacts DEF Goes, Ended
<1>4. ASSUME ~Ended(p), NEW m, NEW q, NEW h, NEW a \in BOOLEAN, m = n, q = r, h = doc[q.doc],
             a = Active(q.doc), SoundDoc(q.doc), Knows(q, h, a)
      PROVE  Knows(m, h, a)
  <2>1. /\ q.op \in {"saveDraft"} /\ q.at = "reserve" /\ m.op = q.op
        /\ \/ m.at = After(q.op, "reserve")
           \/ /\ h.status = "draft" /\ ~h.flag /\ m.reversed = h.reversed
              /\ m.at = "reserved"
    BY <1>2, <1>3, <1>4
  <2>2. \/ m.at = "link"
        \/ h.status = "draft" /\ ~h.flag /\ m.reversed = h.reversed /\ m.at = "reserved"
    BY <2>1, <1>4 DEF Knows, After
  <2>3. m.op \notin {"deleteDraft", "postOrder", "closeOrder"}
    BY <2>1, <2>2
  <2> QED
    BY <2>2, <2>3 DEF Knows
<1> QED
  BY <1>2, <1>3, <1>4, ReadsWatch, DocReads

LEMMA DocReleaseHeader ==
  ASSUME Docs, OrderInv', NEW p \in Proc, ReleaseHeader(p)
  PROVE  DocInv'
<1> DEFINE r == proc[p]
           n == proc'[p]
<1>1. TypeInv
  BY DEF Docs
<1>2. Reads(p) /\ r.doc \in Doc /\ r.at = "release" /\ r.op \in {"saveDraft", "postOrder", "deleteDraft"}
  BY <1>1, ReleaseHeaderFacts, ProcFacts DEF Placed, Handled
<1>3. \/ Ended(p)
      \/ /\ n.op = r.op /\ n.doc = r.doc /\ n.late = r.late
         /\ \/ ~doc[r.doc].flag /\ n.at = After(r.op, "release")
            \/ /\ doc[r.doc].flag /\ n.reversed = doc[r.doc].reversed /\ (n.held <=> rows[r.doc] = "active")
               /\ n.at = "released"
  BY <1>1, ReleaseHeaderFacts, BackFacts DEF Goes, Ended
<1>4. ASSUME ~Ended(p), NEW m, NEW q, NEW h, NEW a \in BOOLEAN, m = n, q = r, h = doc[q.doc],
             a = Active(q.doc), SoundDoc(q.doc), Knows(q, h, a)
      PROVE  Knows(m, h, a)
  <2>1. /\ q.op \in {"saveDraft", "postOrder", "deleteDraft"} /\ q.at = "release" /\ m.op = q.op
        /\ \/ ~h.flag /\ m.at = After(q.op, "release")
           \/ /\ h.flag /\ m.reversed = h.reversed /\ (m.held <=> rows[q.doc] = "active")
              /\ m.at = "released"
    BY <1>2, <1>3, <1>4
  <2>2. /\ m.op = "postOrder" => h.status = "posted"
        /\ m.op = "deleteDraft" => h.status # "posted"
        /\ \/ ~a /\ m.at \in {"edit", "close", "cancel"}
           \/ h.flag /\ m.reversed = h.reversed /\ (m.held <=> a) /\ m.at = "released"
    BY <2>1, <1>4 DEF Knows, After, SoundDoc, Active
  <2>3. m.op # "closeOrder"
    BY <2>1, <2>2
  <2> QED
    BY <2>2, <2>3 DEF Knows
<1> QED
  BY <1>2, <1>3, <1>4, ReadsWatch, DocReads


LEMMA FewerOthers ==
  ASSUME NEW p \in Proc, NEW K, NEW D, Others(p, K, D)
  PROVE  Others(p, {}, {})
BY DEF Others

LEMMA DocPublish ==
  ASSUME Docs, OrderInv', NEW p \in Proc, Publish(p)
  PROVE  DocInv'
<1> DEFINE r == proc[p]
           n == proc'[p]
<1>1. TypeInv
  BY DEF Docs
<1>2. Watches(p) /\ r.doc \in Doc /\ r.at = "publish" /\ r.op \in {"post", "postOrder", "closeOrder", "reverse"}
  BY <1>1, PublishFacts, ProcFacts DEF Placed, Handled, Watches
<1>3. \/ Ended(p)
      \/ /\ n.op = r.op /\ n.doc = r.doc /\ n.late = r.late
         /\ r.op # "reverse" /\ n.at = After(r.op, "post") /\ n.at # "idle"
  BY <1>1, PublishFacts, BackFacts DEF Goes, Ended
<1>4. ASSUME ~Ended(p), NEW m, NEW q, NEW h, NEW a \in BOOLEAN, m = n, q = r, h = doc[q.doc],
             a = Active(q.doc), SoundDoc(q.doc), Knows(q, h, a)
      PROVE  Knows(m, h, a)
  <2>1. /\ q.op \in {"post", "postOrder", "closeOrder", "reverse"} /\ q.at = "publish" /\ m.op = q.op
        /\ q.op # "reverse" /\ m.at = After(q.op, "post") /\ m.at # "idle"
    BY <1>2, <1>3, <1>4
  <2>2. /\ m.op = "closeOrder" => ~a
        /\ h.status = "posted"
        /\ \/ m.at = "release" /\ m.op = "postOrder"
           \/ m.at = "close" /\ m.op = "closeOrder"
    BY <2>1, <1>4 DEF Knows, After
  <2>3. m.op # "deleteDraft"
    BY <2>1, <2>2
  <2> QED
    BY <2>2, <2>3 DEF Knows
<1> QED
  BY <1>2, <1>3, <1>4, DocReads

LEMMA DocPostBalance ==
  ASSUME Docs, OrderInv', NEW p \in Proc, PostBalance(p)
  PROVE  DocInv'
<1> DEFINE r == proc[p]
           n == proc'[p]
<1>1. TypeInv
  BY DEF Docs
<1>2. Watches(p) /\ r.doc \in Doc /\ r.at = "balance" /\ r.op \in {"post", "postOrder", "closeOrder"}
  BY <1>1, PostBalanceFacts, ProcFacts, FewerOthers DEF Placed, Handled, Watches, Books, tables
<1>3. \/ Ended(p)
      \/ /\ n.op = r.op /\ n.doc = r.doc /\ n.late = r.late
         /\ n.at = "movement"
  BY <1>1, PostBalanceFacts, BackFacts DEF Goes, Ended, Books
<1>4. ASSUME ~Ended(p), NEW m, NEW q, NEW h, NEW a \in BOOLEAN, m = n, q = r, h = doc[q.doc],
             a = Active(q.doc), SoundDoc(q.doc), Knows(q, h, a)
      PROVE  Knows(m, h, a)
  <2>1. /\ q.op \in {"post", "postOrder", "closeOrder"} /\ q.at = "balance" /\ m.op = q.op
        /\ m.at = "movement"
    BY <1>2, <1>3, <1>4
  <2>2. (m.op = "closeOrder" => ~a) /\ h.status # "posted" /\ m.at = "movement"
    BY <2>1, <1>4 DEF Knows, After
  <2>3. m.op # "deleteDraft" /\ m.at \notin {"edited", "movements", "number", "reverse", "reserved", "released", "tell", "publish", "close"}
    BY <2>1, <2>2
  <2> QED
    BY <2>2, <2>3 DEF Knows
<1> QED
  BY <1>2, <1>3, <1>4, DocReads

LEMMA DocPostMovement ==
  ASSUME Docs, OrderInv', NEW p \in Proc, PostMovement(p)
  PROVE  DocInv'
<1> DEFINE r == proc[p]
           n == proc'[p]
<1>1. TypeInv
  BY DEF Docs
<1>2. Watches(p) /\ r.doc \in Doc /\ r.at = "movement" /\ r.op \in {"post", "postOrder", "closeOrder"}
  BY <1>1, PostMovementFacts, ProcFacts, FewerOthers DEF Placed, Handled, Watches, Blames
<1>3. \/ Ended(p)
      \/ /\ n.op = r.op /\ n.doc = r.doc /\ n.late = r.late
         /\ n.at \in {"balance", "posted"}
  BY <1>1, PostMovementFacts, BackFacts DEF Goes, Ended
<1>4. ASSUME ~Ended(p), NEW m, NEW q, NEW h, NEW a \in BOOLEAN, m = n, q = r, h = doc[q.doc],
             a = Active(q.doc), SoundDoc(q.doc), Knows(q, h, a)
      PROVE  Knows(m, h, a)
  <2>1. /\ q.op \in {"post", "postOrder", "closeOrder"} /\ q.at = "movement" /\ m.op = q.op
        /\ m.at \in {"balance", "posted"}
    BY <1>2, <1>3, <1>4
  <2>2. (m.op = "closeOrder" => ~a) /\ h.status # "posted" /\ m.at \in {"balance", "posted"}
    BY <2>1, <1>4 DEF Knows, After
  <2>3. m.op # "deleteDraft" /\ m.at \notin {"edited", "movements", "number", "reverse", "reserved", "released", "tell", "publish", "close"}
    BY <2>1, <2>2
  <2> QED
    BY <2>2, <2>3 DEF Knows
<1> QED
  BY <1>2, <1>3, <1>4, DocReads

LEMMA DocDie ==
  ASSUME Docs, OrderInv', NEW p \in Proc, Die(p)
  PROVE  DocInv'
<1>1. TypeInv' /\ Others(p, {}, {}) /\ UNCHANGED <<doc, rows, reversals, order>> /\ cause \subseteq cause' /\ Ended(p)
  BY DieFacts DEF Docs, tables
<1> QED
  BY <1>1, Nobody, DocRead

LEMMA DocLoad ==
  ASSUME Docs, OrderInv', NEW p \in Proc, Load(p)
  PROVE  DocInv'
<1> DEFINE r == proc[p]
           n == proc'[p]
<1>1. /\ TypeInv' /\ Others(p, {}, {}) /\ UNCHANGED <<doc, rows, reversals, order>> /\ cause \subseteq cause'
      /\ r.at = "load" /\ r.doc = None /\ r.op \in OrderOps
  BY LoadFacts, ProcFacts DEF Docs, Reads, tables, Placed, Handled
<1>2. \/ n.doc = None
      \/ /\ n.doc \in Doc /\ n.op = r.op
         /\ \/ n.op = "saveDraft" /\ n.at = "release"
            \/ n.op = "postOrder" /\ doc[n.doc].status = "posted" /\ n.at = "release"
            \/ n.op = "postOrder" /\ n.at = "post"
            \/ n.op = "deleteDraft" /\ doc[n.doc].status # "posted" /\ n.at \in {"release", "unlink"}
  BY <1>1, LoadFacts, IdleFacts DEF Docs, Goes, Takes, Ended
<1>3. NewKnows(p)
  <2> SUFFICES ASSUME n.doc \in Doc
               PROVE  n.op \notin CardOps /\ Knows(n, doc'[n.doc], rows'[n.doc] = "active")
    BY DEF NewKnows
  <2>1. n.op \in OrderOps /\ n.op \notin CardOps
    BY <1>1, <1>2, StockAssumption DEF OrderOps, CardOps
  <2>2. ASSUME NEW m, NEW h, NEW a \in BOOLEAN, m = n, h = doc[m.doc]
        PROVE  Knows(m, h, a)
    <3>1. \/ m.op = "saveDraft" /\ m.at = "release"
          \/ m.op = "postOrder" /\ h.status = "posted" /\ m.at = "release"
          \/ m.op = "postOrder" /\ m.at = "post"
          \/ m.op = "deleteDraft" /\ h.status # "posted" /\ m.at \in {"release", "unlink"}
      BY <1>2, <2>2, StockAssumption
    <3>2. /\ m.at \notin {"stock", "balance", "movement", "posted", "planned", "cancelled", "edited",
                          "movements", "number", "reverse", "reserved", "released", "tell", "publish", "close"}
          /\ m.op # "closeOrder"
      BY <3>1
    <3> QED
      BY <3>1, <3>2 DEF Knows
  <2>3. (rows'[n.doc] = "active") \in BOOLEAN /\ doc' = doc
    BY <1>1
  <2> QED
    BY <2>1, <2>2, <2>3
<1> QED
  BY <1>1, <1>3, DocRead

LEMMA DocAskDoc ==
  ASSUME Docs, OrderInv', NEW p \in Proc, NEW d \in Doc, NEW op \in CardOps, AskDoc(p, d, op)
  PROVE  DocInv'
<1> DEFINE n == proc'[p]
<1>1. /\ TypeInv' /\ Others(p, {}, {}) /\ UNCHANGED <<doc, rows, reversals, order>> /\ cause \subseteq cause'
      /\ (OrderOf[d] # None => <<"direct", d>> \in cause') /\ n.doc = d /\ n.op = op
      /\ n.at \in {"post", "plan", "cancel", "edit", "reversal"}
  BY AskDocFacts DEF Docs, tables
<1>2. ASSUME NEW m, NEW h, NEW a \in BOOLEAN, m = n
      PROVE  Knows(m, h, a)
  <2>1. m.op \in CardOps /\ m.at \in {"post", "plan", "cancel", "edit", "reversal"}
    BY <1>1, <1>2
  <2>2. m.op \notin {"postOrder", "closeOrder", "deleteDraft"}
    BY <2>1 DEF CardOps
  <2> QED
    BY <2>1, <2>2 DEF Knows
<1>3. NewKnows(p)
  <2>1. (rows'[d] = "active") \in BOOLEAN
    OBVIOUS
  <2> QED
    BY <1>1, <1>2, <2>1 DEF NewKnows
<1> QED
  BY <1>1, <1>3, DocRead

LEMMA DocAskOrder ==
  ASSUME Docs, OrderInv', NEW p \in Proc, NEW o \in Order, NEW op \in OrderOps, AskOrder(p, o, op)
  PROVE  DocInv'
<1>1. /\ TypeInv' /\ Others(p, {}, {}) /\ UNCHANGED <<doc, rows, reversals, order>> /\ cause \subseteq cause'
      /\ proc'[p].doc = None
  BY AskOrderFacts DEF Docs, Reads, tables
<1>2. NewKnows(p)
  BY <1>1, StockAssumption DEF NewKnows
<1> QED
  BY <1>1, <1>2, DocRead

-----------------------------------------------------------------------------
(* Steps that write the document of the request.                           *)

\* What a request that is not late makes of its document d.
Minds(p, d) ==
  /\ SoundDoc(d)' /\ (Spent(d) => Spent(d)')
  /\ proc'[p].doc = d => Knows(proc'[p], doc'[d], rows'[d] = "active")

LEMMA DocWrites ==
  ASSUME Docs, TypeInv', OrderInv', NEW p \in Proc, NEW d \in Doc, d = proc[p].doc, NEW K,
         Others(p, K, {d}), Blames(p), order' = order,
         \A e \in Doc \ {d} : doc'[e] = doc[e] /\ rows'[e] = rows[e] /\ reversals'[e] = reversals[e],
         doc'[d].status # "absent", rows'[d] = "active" => OrderOf[d] \in Order,
         Ended(p) \/ (proc'[p].op = proc[p].op /\ proc'[p].doc = d),
         SoundDoc(d) /\ ~RacedOn(d) /\ Knows(proc[p], doc[d], Active(d)) => Minds(p, d)
  PROVE  DocInv'
<1>1. cause \subseteq cause' /\ (proc[p].late => RacedOn(d)') /\ (RacedOn(d) => RacedOn(d)')
  BY DEF Blames, RacedOn, Blamed
<1>2. RacedOn(d)' \/ Minds(p, d)
  <2> SUFFICES ASSUME ~RacedOn(d)' PROVE Minds(p, d)
    OBVIOUS
  <2>1. SoundDoc(d) /\ Knows(proc[p], doc[d], Active(d))
    BY <1>1 DEF Docs, DocInv, Sound, HeaderInv
  <2> QED
    BY <1>1, <2>1
<1>3. NewKnows(p)
  <2>1. CASE Ended(p)
    BY <2>1, Nobody
  <2>2. CASE ~Ended(p)
    <3>1. /\ proc'[p].op \in CardOps /\ OrderOf[d] # None => <<"direct", d>> \in cause'
          /\ proc'[p].doc = d
      BY <1>1, <2>2 DEF Docs, DocInv, Direct, Blamed
    <3>2. <<"raced", d>> \in cause' \/ Knows(proc'[p], doc'[d], rows'[d] = "active")
      BY <1>2, <3>1 DEF Minds, RacedOn, Blamed
    <3> QED
      BY <3>1, <3>2 DEF NewKnows
  <2> QED
    BY <2>1, <2>2
<1> DEFINE D == {d}
<1>4. D \subseteq Doc /\ Others(p, K, D) /\ \A e \in D : e = d
  OBVIOUS
<1>5. \A e \in Doc \ D : doc'[e] = doc[e] /\ rows'[e] = rows[e] /\ reversals'[e] = reversals[e]
  OBVIOUS
<1> HIDE DEF D
<1>6. \A e \in D : /\ doc'[e].status # "absent"
                   /\ rows'[e] = "active" => OrderOf[e] \in Order
                   /\ RacedOn(e)' \/ (SoundDoc(e)' /\ (Spent(e) => Spent(e)'))
  <2> SUFFICES ASSUME NEW e \in D
               PROVE  /\ doc'[e].status # "absent"
                      /\ rows'[e] = "active" => OrderOf[e] \in Order
                      /\ RacedOn(e)' \/ (SoundDoc(e)' /\ (Spent(e) => Spent(e)'))
    OBVIOUS
  <2>1. e = d
    BY <1>4
  <2> QED
    BY <1>2, <2>1 DEF Minds
<1> QED
  BY <1>1, <1>3, <1>4, <1>5, <1>6, DocWrite

\* An order that is still being worked on has not been closed.
LEMMA StillOpen ==
  ASSUME Docs, NEW d \in Doc, OrderOf[d] \in Order, doc[d].status \notin {"absent", "posted"}, ~RacedOn(d)
  PROVE  order[OrderOf[d]].status = "open"
<1>1. order[OrderOf[d]].status \in {"open", "closed"}
  BY DEF Docs, TypeInv, Tables
<1> SUFFICES ASSUME order[OrderOf[d]].status = "closed" PROVE FALSE
  BY <1>1
<1>2. PICK e \in Doc : /\ OrderOf[e] = OrderOf[d] /\ doc[e].status # "absent"
                       /\ RacedOn(e) \/ (order[OrderOf[d]].doc = e /\ Spent(e))
  BY DEF Docs, DocInv, Closed
<1>3. e = d
  BY <1>2, StockAssumption DEF Docs, OrderInv, OneDocumentPerOrder
<1> QED
  BY <1>2, <1>3 DEF Spent

\* The document of a request exists, and one worked on from the cards is known.
LEMMA OwnDoc ==
  ASSUME Docs, NEW p \in Proc, NEW d \in Doc, d = proc[p].doc
  PROVE  /\ doc[d] \in DocRow /\ doc[d].status # "absent" /\ reversals[d] \in Nat
         /\ rows[d] = "active" => OrderOf[d] \in Order /\ OrderOf[d] # None
         /\ rows[d] = "active" /\ proc[p].op \in CardOps => Blamed("direct", d)
BY StockAssumption DEF Docs, TypeInv, Tables, OrderInv, Known, DocInv, Ordered, Active, Direct

\* What OwnDoc says of the document d of request r.
OwnFacts(r, d) ==
  /\ doc[d] \in DocRow /\ doc[d].status # "absent" /\ reversals[d] \in Nat
  /\ rows[d] = "active" => OrderOf[d] \in Order /\ OrderOf[d] # None
  /\ rows[d] = "active" /\ r.op \in CardOps => Blamed("direct", d)

LEMMA DocPostDone ==
  ASSUME Docs, OrderInv', NEW p \in Proc, PostDone(p)
  PROVE  DocInv'
<1> SUFFICES ASSUME NEW d, d = proc[p].doc, NEW r, r = proc[p], NEW n, n = proc'[p]
             PROVE  DocInv'
  OBVIOUS
<1>1. TypeInv
  BY DEF Docs
<1>2. /\ TypeInv' /\ d \in Doc /\ r.doc = d /\ r.at = "posted" /\ r.op \in {"post", "postOrder", "closeOrder"}
      /\ r.op \in OrderOps => OrderOf[d] = r.order /\ r.order \in Order
  BY <1>1, PostDoneFacts, ProcFacts, StockAssumption DEF Placed, Handled
<1>4. Others(p, {}, {d}) /\ Blames(p) /\ order' = order
      /\ \A e \in Doc \ {d} : doc'[e] = doc[e] /\ rows'[e] = rows[e] /\ reversals'[e] = reversals[e]
  BY <1>1, <1>2, PostDoneFacts DEF Heads
<1>5. \/ Ended(p)
      \/ n.op = r.op /\ n.doc = d /\ n.at = "tell"
  BY <1>1, <1>2, PostDoneFacts DEF Ended, Back
<1>6. /\ doc'[d].status = "posted" /\ doc'[d].flag = doc[d].flag /\ doc'[d].reversed = doc[d].reversed
      /\ rows'[d] = rows[d] /\ reversals'[d] = reversals[d]
  BY <1>1, <1>2, PostDoneFacts, ZenonT(40) DEF Heads
<1>7. OwnFacts(r, d)
  BY <1>2, OwnDoc DEF OwnFacts
<1>8. doc'[d].status # "absent" /\ (rows'[d] = "active" => OrderOf[d] \in Order)
  BY <1>2, <1>6, <1>7 DEF OwnFacts, OrderOps
<1>9. ASSUME NEW h, NEW a \in BOOLEAN, h = doc[d], a = Active(d), SoundDoc(d), ~RacedOn(d), Knows(r, h, a)
      PROVE  Minds(p, d)
  <2>1. h.status # "posted" /\ (r.op = "closeOrder" => ~a)
    BY <1>2, <1>9 DEF Knows

  <2>4. SoundDoc(d)'
    <3>1. doc'[d].flag <=> Active(d)'
      BY <1>6, <1>7, <1>9, <2>1 DEF SoundDoc, Active, OwnFacts
    <3>2. reversals'[d] = 0 \/ (reversals'[d] = 1 /\ doc'[d].status = "posted" /\ doc'[d].reversed)
      BY <1>6, <1>7, <1>9, <2>1 DEF SoundDoc, OwnFacts
    <3>3. Active(d)' => \/ doc'[d].status = "draft" \/ Blamed("direct", d)'
                       \/ (doc'[d].status = "posted" /\ order'[OrderOf[d]].status = "open")
      BY <1>2, <1>4, <1>6, <1>7, <1>9, <2>1, StillOpen DEF CardOps, Active, Blamed, Blames, OwnFacts
    <3> QED
      BY <3>1, <3>2, <3>3 DEF SoundDoc
  <2>5. Spent(d) => Spent(d)'
    BY <1>6, <1>9, <2>1 DEF Spent, Active
  <2>6. ASSUME n.doc = d, NEW g, g = doc'[d], NEW b \in BOOLEAN, b = (rows'[d] = "active"), NEW m, m = n
        PROVE  Knows(m, g, b)
    <3>1. (m.op = "closeOrder" => ~b) /\ g.status = "posted" /\ m.at = "tell" /\ m.op = r.op
      BY <1>2, <1>5, <1>6, <1>9, <2>1, <2>6, IdleFacts, StockAssumption DEF Ended, Active, After
    <3>2. m.op # "deleteDraft"
      BY <1>2, <3>1
    <3> QED
      BY <3>1, <3>2 DEF Knows
  <2>7. proc'[p].doc = d => Knows(proc'[p], doc'[d], rows'[d] = "active")
    <3>1. (rows'[d] = "active") \in BOOLEAN
      OBVIOUS
    <3> QED
      BY <2>6, <3>1
  <2> QED
    BY <2>4, <2>5, <2>7 DEF Minds
<1>10. SoundDoc(d) /\ ~RacedOn(d) /\ Knows(proc[p], doc[d], Active(d)) => Minds(p, d)
  <2>1. Active(d) \in BOOLEAN
    BY DEF Active
  <2> QED
    BY <1>9, <2>1
<1> QED
  BY <1>2, <1>4, <1>5, <1>8, <1>10, DocWrites

LEMMA DocPlanDone ==
  ASSUME Docs, OrderInv', NEW p \in Proc, PlanDone(p)
  PROVE  DocInv'
<1> SUFFICES ASSUME NEW d, d = proc[p].doc, NEW r, r = proc[p], NEW n, n = proc'[p]
             PROVE  DocInv'
  OBVIOUS
<1>1. TypeInv
  BY DEF Docs
<1>2. /\ TypeInv' /\ d \in Doc /\ r.doc = d /\ r.at = "planned" /\ r.op \in {"plan"}
      /\ r.op \in OrderOps => OrderOf[d] = r.order /\ r.order \in Order
  BY <1>1, PlanDoneFacts, ProcFacts, StockAssumption DEF Placed, Handled
<1>4. Others(p, {}, {d}) /\ Blames(p) /\ order' = order
      /\ \A e \in Doc \ {d} : doc'[e] = doc[e] /\ rows'[e] = rows[e] /\ reversals'[e] = reversals[e]
  BY <1>1, <1>2, PlanDoneFacts DEF Heads
<1>5. \/ Ended(p)
      \/ n.op = r.op /\ n.doc = d /\ FALSE
  BY <1>1, <1>2, PlanDoneFacts DEF Ended, Back
<1>6. /\ doc'[d].status = "planned" /\ doc'[d].flag = doc[d].flag /\ doc'[d].reversed = doc[d].reversed
      /\ rows'[d] = rows[d] /\ reversals'[d] = reversals[d]
  BY <1>1, <1>2, PlanDoneFacts DEF Heads
<1>7. OwnFacts(r, d)
  BY <1>2, OwnDoc DEF OwnFacts
<1>8. doc'[d].status # "absent" /\ (rows'[d] = "active" => OrderOf[d] \in Order)
  BY <1>2, <1>6, <1>7 DEF OwnFacts, OrderOps
<1>9. ASSUME NEW h, NEW a \in BOOLEAN, h = doc[d], a = Active(d), SoundDoc(d), ~RacedOn(d), Knows(r, h, a)
      PROVE  Minds(p, d)
  <2>1. h.status # "posted"
    BY <1>2, <1>9 DEF Knows

  <2>4. SoundDoc(d)'
    <3>1. doc'[d].flag <=> Active(d)'
      BY <1>6, <1>7, <1>9, <2>1 DEF SoundDoc, Active, OwnFacts
    <3>2. reversals'[d] = 0 \/ (reversals'[d] = 1 /\ doc'[d].status = "posted" /\ doc'[d].reversed)
      BY <1>6, <1>7, <1>9, <2>1 DEF SoundDoc, OwnFacts
    <3>3. Active(d)' => \/ doc'[d].status = "draft" \/ Blamed("direct", d)'
                       \/ (doc'[d].status = "posted" /\ order'[OrderOf[d]].status = "open")
      BY <1>2, <1>4, <1>6, <1>7 DEF CardOps, Active, Blamed, Blames, OwnFacts
    <3> QED
      BY <3>1, <3>2, <3>3 DEF SoundDoc
  <2>5. Spent(d) => Spent(d)'
    BY <1>6, <1>9, <2>1 DEF Spent, Active
  <2>6. ASSUME n.doc = d, NEW g, g = doc'[d], NEW b \in BOOLEAN, b = (rows'[d] = "active"), NEW m, m = n
        PROVE  Knows(m, g, b)
    BY <1>2, <1>5, <2>6, IdleFacts, StockAssumption DEF Ended
  <2>7. proc'[p].doc = d => Knows(proc'[p], doc'[d], rows'[d] = "active")
    <3>1. (rows'[d] = "active") \in BOOLEAN
      OBVIOUS
    <3> QED
      BY <2>6, <3>1
  <2> QED
    BY <2>4, <2>5, <2>7 DEF Minds
<1>10. SoundDoc(d) /\ ~RacedOn(d) /\ Knows(proc[p], doc[d], Active(d)) => Minds(p, d)
  <2>1. Active(d) \in BOOLEAN
    BY DEF Active
  <2> QED
    BY <1>9, <2>1
<1> QED
  BY <1>2, <1>4, <1>5, <1>8, <1>10, DocWrites

LEMMA DocCancelDone ==
  ASSUME Docs, OrderInv', NEW p \in Proc, CancelDone(p)
  PROVE  DocInv'
<1> SUFFICES ASSUME NEW d, d = proc[p].doc, NEW r, r = proc[p], NEW n, n = proc'[p]
             PROVE  DocInv'
  OBVIOUS
<1>1. TypeInv
  BY DEF Docs
<1>2. /\ TypeInv' /\ d \in Doc /\ r.doc = d /\ r.at = "cancelled" /\ r.op \in {"cancel", "deleteDraft"}
      /\ r.op \in OrderOps => OrderOf[d] = r.order /\ r.order \in Order
  BY <1>1, CancelDoneFacts, ProcFacts, StockAssumption DEF Placed, Handled
<1>4. Others(p, {}, {d}) /\ Blames(p) /\ order' = order
      /\ \A e \in Doc \ {d} : doc'[e] = doc[e] /\ rows'[e] = rows[e] /\ reversals'[e] = reversals[e]
  BY <1>1, <1>2, CancelDoneFacts DEF Heads
<1>5. \/ Ended(p)
      \/ n.op = r.op /\ n.doc = d /\ n.at = After(r.op, "cancel") /\ n.at # "idle"
  BY <1>1, <1>2, CancelDoneFacts DEF Ended, Back
<1>6. /\ doc'[d].status = "cancelled" /\ doc'[d].flag = doc[d].flag /\ doc'[d].reversed = doc[d].reversed
      /\ rows'[d] = rows[d] /\ reversals'[d] = reversals[d]
  BY <1>1, <1>2, CancelDoneFacts DEF Heads
<1>7. OwnFacts(r, d)
  BY <1>2, OwnDoc DEF OwnFacts
<1>8. doc'[d].status # "absent" /\ (rows'[d] = "active" => OrderOf[d] \in Order)
  BY <1>2, <1>6, <1>7 DEF OwnFacts, OrderOps
<1>9. ASSUME NEW h, NEW a \in BOOLEAN, h = doc[d], a = Active(d), SoundDoc(d), ~RacedOn(d), Knows(r, h, a)
      PROVE  Minds(p, d)
  <2>1. h.status # "posted" /\ (r.op = "deleteDraft" => ~a)
    BY <1>2, <1>9 DEF Knows

  <2>4. SoundDoc(d)'
    <3>1. doc'[d].flag <=> Active(d)'
      BY <1>6, <1>7, <1>9, <2>1 DEF SoundDoc, Active, OwnFacts
    <3>2. reversals'[d] = 0 \/ (reversals'[d] = 1 /\ doc'[d].status = "posted" /\ doc'[d].reversed)
      BY <1>6, <1>7, <1>9, <2>1 DEF SoundDoc, OwnFacts
    <3>3. Active(d)' => \/ doc'[d].status = "draft" \/ Blamed("direct", d)'
                       \/ (doc'[d].status = "posted" /\ order'[OrderOf[d]].status = "open")
      BY <1>2, <1>4, <1>6, <1>7, <1>9, <2>1 DEF CardOps, Active, Blamed, Blames, OwnFacts
    <3> QED
      BY <3>1, <3>2, <3>3 DEF SoundDoc
  <2>5. Spent(d) => Spent(d)'
    BY <1>6, <1>9, <2>1 DEF Spent, Active
  <2>6. ASSUME n.doc = d, NEW g, g = doc'[d], NEW b \in BOOLEAN, b = (rows'[d] = "active"), NEW m, m = n
        PROVE  Knows(m, g, b)
    <3>1. m.op = "deleteDraft" /\ g.status # "posted" /\ m.at = "unlink"
      BY <1>2, <1>5, <1>6, <1>9, <2>1, <2>6, IdleFacts, StockAssumption DEF Ended, Active, After
    <3>2. m.op \notin {"postOrder", "closeOrder"}
      BY <1>2, <3>1
    <3> QED
      BY <3>1, <3>2 DEF Knows
  <2>7. proc'[p].doc = d => Knows(proc'[p], doc'[d], rows'[d] = "active")
    <3>1. (rows'[d] = "active") \in BOOLEAN
      OBVIOUS
    <3> QED
      BY <2>6, <3>1
  <2> QED
    BY <2>4, <2>5, <2>7 DEF Minds
<1>10. SoundDoc(d) /\ ~RacedOn(d) /\ Knows(proc[p], doc[d], Active(d)) => Minds(p, d)
  <2>1. Active(d) \in BOOLEAN
    BY DEF Active
  <2> QED
    BY <1>9, <2>1
<1> QED
  BY <1>2, <1>4, <1>5, <1>8, <1>10, DocWrites

LEMMA DocReleaseDone ==
  ASSUME Docs, OrderInv', NEW p \in Proc, ReleaseDone(p)
  PROVE  DocInv'
<1> SUFFICES ASSUME NEW d, d = proc[p].doc, NEW r, r = proc[p], NEW n, n = proc'[p]
             PROVE  DocInv'
  OBVIOUS
<1>1. TypeInv
  BY DEF Docs
<1>2. /\ TypeInv' /\ d \in Doc /\ r.doc = d /\ r.at = "released" /\ r.op \in {"saveDraft", "postOrder", "deleteDraft"}
      /\ r.op \in OrderOps => OrderOf[d] = r.order /\ r.order \in Order
  BY <1>1, ReleaseDoneFacts, ProcFacts, StockAssumption DEF Placed, Handled
<1>4. Others(p, Needed(d), {d}) /\ Blames(p) /\ order' = order
      /\ \A e \in Doc \ {d} : doc'[e] = doc[e] /\ rows'[e] = rows[e] /\ reversals'[e] = reversals[e]
  BY <1>1, <1>2, ReleaseDoneFacts DEF Marks
<1>5. \/ Ended(p)
      \/ n.op = r.op /\ n.doc = d /\ n.at = After(r.op, "release")
  BY <1>1, <1>2, ReleaseDoneFacts DEF Ended, Back
<1>6. /\ doc'[d].status = doc[d].status /\ doc'[d].flag = FALSE /\ doc'[d].reversed = r.reversed
      /\ (rows'[d] = IF r.held THEN "past" ELSE rows[d]) /\ reversals'[d] = reversals[d]
  BY <1>1, <1>2, ReleaseDoneFacts, ZenonT(40) DEF Marks
<1>7. OwnFacts(r, d)
  BY <1>2, OwnDoc DEF OwnFacts
<1>8. doc'[d].status # "absent" /\ (rows'[d] = "active" => OrderOf[d] \in Order)
  BY <1>2, <1>6, <1>7 DEF OwnFacts, OrderOps
<1>9. ASSUME NEW h, NEW a \in BOOLEAN, h = doc[d], a = Active(d), SoundDoc(d), ~RacedOn(d), Knows(r, h, a)
      PROVE  Minds(p, d)
  <2>1. /\ r.reversed = h.reversed /\ h.flag /\ r.held /\ a
        /\ (r.op = "postOrder" => h.status = "posted") /\ (r.op = "deleteDraft" => h.status # "posted")
    BY <1>2, <1>9 DEF Knows, SoundDoc

  <2>4. SoundDoc(d)'
    <3>1. doc'[d].flag <=> Active(d)'
      BY <1>6, <1>7, <1>9, <2>1 DEF SoundDoc, Active, OwnFacts
    <3>2. reversals'[d] = 0 \/ (reversals'[d] = 1 /\ doc'[d].status = "posted" /\ doc'[d].reversed)
      BY <1>6, <1>7, <1>9, <2>1 DEF SoundDoc, OwnFacts
    <3>3. Active(d)' => \/ doc'[d].status = "draft" \/ Blamed("direct", d)'
                       \/ (doc'[d].status = "posted" /\ order'[OrderOf[d]].status = "open")
      BY <1>4, <1>6, <1>7, <1>9, <2>1 DEF SoundDoc, Active, Blamed, Blames, OwnFacts
    <3> QED
      BY <3>1, <3>2, <3>3 DEF SoundDoc
  <2>5. Spent(d) => Spent(d)'
    BY <1>6, <1>9, <2>1 DEF Spent, Active
  <2>6. ASSUME n.doc = d, NEW g, g = doc'[d], NEW b \in BOOLEAN, b = (rows'[d] = "active"), NEW m, m = n
        PROVE  Knows(m, g, b)
    <3>1. m.op = r.op /\ m.at = After(r.op, "release")
      BY <1>2, <1>5, <2>6, IdleFacts, StockAssumption DEF Ended
    <3>2. m.at \in {"edit", "close", "cancel"} /\ m.op # "closeOrder"
      BY <1>2, <3>1 DEF After
    <3>3. ~b /\ (m.op = "postOrder" => g.status = "posted") /\ (m.op = "deleteDraft" => g.status # "posted")
      BY <1>6, <1>9, <2>1, <2>6, <3>1
    <3> QED
      BY <3>2, <3>3 DEF Knows
  <2>7. proc'[p].doc = d => Knows(proc'[p], doc'[d], rows'[d] = "active")
    <3>1. (rows'[d] = "active") \in BOOLEAN
      OBVIOUS
    <3> QED
      BY <2>6, <3>1
  <2> QED
    BY <2>4, <2>5, <2>7 DEF Minds
<1>10. SoundDoc(d) /\ ~RacedOn(d) /\ Knows(proc[p], doc[d], Active(d)) => Minds(p, d)
  <2>1. Active(d) \in BOOLEAN
    BY DEF Active
  <2> QED
    BY <1>9, <2>1
<1> QED
  BY <1>2, <1>4, <1>5, <1>8, <1>10, DocWrites

LEMMA DocEditDone ==
  ASSUME Docs, OrderInv', NEW p \in Proc, EditDone(p)
  PROVE  DocInv'
<1> SUFFICES ASSUME NEW d, d = proc[p].doc, NEW r, r = proc[p], NEW n, n = proc'[p]
             PROVE  DocInv'
  OBVIOUS
<1>1. TypeInv
  BY DEF Docs
<1>2. /\ TypeInv' /\ d \in Doc /\ r.doc = d /\ r.at = "edited" /\ r.op \in {"edit", "saveDraft"}
      /\ r.op \in OrderOps => OrderOf[d] = r.order /\ r.order \in Order
  BY <1>1, EditDoneFacts, ProcFacts, StockAssumption DEF Placed, Handled
<1>3. \/ Ended(p) /\ Watches(p)
      \/ /\ rows[d] = "none" /\ Others(p, {}, {d}) /\ Blames(p) /\ Heads(p, d)
         /\ doc'[d].status = "draft" /\ doc'[d].flag = FALSE /\ doc'[d].reversed = FALSE
         /\ Back(n, r, "edit")
  BY <1>1, <1>2, EditDoneFacts DEF Watches, tables
<1> SUFFICES ASSUME /\ rows[d] = "none" /\ Others(p, {}, {d}) /\ Blames(p) /\ Heads(p, d)
                    /\ doc'[d].status = "draft" /\ doc'[d].flag = FALSE /\ doc'[d].reversed = FALSE
                    /\ Back(n, r, "edit")
             PROVE  DocInv'
  BY <1>3, Nobody, DocRead DEF Watches
<1>4. Others(p, {}, {d}) /\ Blames(p) /\ order' = order
      /\ \A e \in Doc \ {d} : doc'[e] = doc[e] /\ rows'[e] = rows[e] /\ reversals'[e] = reversals[e]
  BY <1>2 DEF Heads
<1>5. \/ Ended(p)
      \/ n.op = r.op /\ n.doc = d /\ n.at = After(r.op, "edit") /\ n.at # "idle"
  BY <1>2 DEF Ended, Back
<1>6. /\ doc'[d].status = "draft" /\ doc'[d].flag = FALSE /\ doc'[d].reversed = FALSE
      /\ rows'[d] = "none" /\ reversals'[d] = reversals[d]
  BY <1>2 DEF Heads
<1>7. OwnFacts(r, d)
  BY <1>2, OwnDoc DEF OwnFacts
<1>8. doc'[d].status # "absent" /\ (rows'[d] = "active" => OrderOf[d] \in Order)
  BY <1>2, <1>6, <1>7 DEF OwnFacts, OrderOps
<1>9. ASSUME NEW h, NEW a \in BOOLEAN, h = doc[d], a = Active(d), SoundDoc(d), ~RacedOn(d), Knows(r, h, a)
      PROVE  Minds(p, d)
  <2>1. h.status = "draft"
    BY <1>2, <1>9 DEF Knows

  <2>4. SoundDoc(d)'
    <3>1. doc'[d].flag <=> Active(d)'
      BY <1>6, <1>7, <1>9, <2>1 DEF SoundDoc, Active, OwnFacts
    <3>2. reversals'[d] = 0 \/ (reversals'[d] = 1 /\ doc'[d].status = "posted" /\ doc'[d].reversed)
      BY <1>6, <1>7, <1>9, <2>1 DEF SoundDoc, OwnFacts
    <3>3. Active(d)' => \/ doc'[d].status = "draft" \/ Blamed("direct", d)'
                       \/ (doc'[d].status = "posted" /\ order'[OrderOf[d]].status = "open")
      BY <1>4, <1>6, <1>7, <1>9, <2>1 DEF SoundDoc, Active, Blamed, Blames, OwnFacts
    <3> QED
      BY <3>1, <3>2, <3>3 DEF SoundDoc
  <2>5. Spent(d) => Spent(d)'
    BY <1>6, <1>9, <2>1 DEF Spent, Active
  <2>6. ASSUME n.doc = d, NEW g, g = doc'[d], NEW b \in BOOLEAN, b = (rows'[d] = "active"), NEW m, m = n
        PROVE  Knows(m, g, b)
    <3>1. m.op = "saveDraft" /\ m.at = "reserve"
      BY <1>2, <1>5, <1>6, <1>9, <2>1, <2>6, IdleFacts, StockAssumption DEF Ended, Active, After
    <3>2. m.op \notin {"postOrder", "closeOrder", "deleteDraft"}
      BY <1>2, <3>1
    <3> QED
      BY <3>1, <3>2 DEF Knows
  <2>7. proc'[p].doc = d => Knows(proc'[p], doc'[d], rows'[d] = "active")
    <3>1. (rows'[d] = "active") \in BOOLEAN
      OBVIOUS
    <3> QED
      BY <2>6, <3>1
  <2> QED
    BY <2>4, <2>5, <2>7 DEF Minds
<1>10. SoundDoc(d) /\ ~RacedOn(d) /\ Knows(proc[p], doc[d], Active(d)) => Minds(p, d)
  <2>1. Active(d) \in BOOLEAN
    BY DEF Active
  <2> QED
    BY <1>9, <2>1
<1> QED
  BY <1>2, <1>4, <1>5, <1>8, <1>10, DocWrites

\* What a reversal writes of the documents.
ReversedDoc(p, d) ==
  /\ Others(p, DOMAIN proc[p].back, {d}) /\ Blames(p) /\ UNCHANGED <<rows, order>>
  /\ reversals'[d] = reversals[d] + 1 /\ \A e \in Doc \ {d} : reversals'[e] = reversals[e]
  /\ \A e \in Doc \ {d} : doc'[e] = doc[e]
  /\ doc'[d].status = doc[d].status /\ doc'[d].flag = proc[p].flag /\ doc'[d].reversed = TRUE
  /\ proc'[p].op = "reverse" /\ proc'[p].at = "tell" /\ proc'[p].doc = d

LEMMA ReversedDocFacts ==
  ASSUME TypeInv, NEW p \in Proc, ReverseDone(p)
  PROVE  (Ended(p) /\ Watches(p)) \/ ReversedDoc(p, proc[p].doc)
<1>2. CASE Others(p, {}, {}) /\ UNCHANGED tables /\ cause' = cause /\ Ended(p)
  BY <1>2, ReverseDoneFacts DEF Watches, tables
<1>3. CASE ~(Others(p, {}, {}) /\ UNCHANGED tables /\ cause' = cause /\ Ended(p))
  BY <1>3, ReverseDoneFacts DEF ReversedDoc
<1> QED
  BY <1>2, <1>3

LEMMA DocReverseDone ==
  ASSUME Docs, OrderInv', NEW p \in Proc, ReverseDone(p)
  PROVE  DocInv'
<1> SUFFICES ASSUME NEW d, d = proc[p].doc, NEW r, r = proc[p], NEW n, n = proc'[p]
             PROVE  DocInv'
  OBVIOUS
<1>1. TypeInv
  BY DEF Docs
<1>2. /\ TypeInv' /\ d \in Doc /\ r.doc = d /\ r.at = "reverse" /\ r.op \in {"reverse"}
      /\ r.op \in OrderOps => OrderOf[d] = r.order /\ r.order \in Order
  BY <1>1, ReverseDoneFacts, ProcFacts, StockAssumption DEF Placed, Handled
<1>3. \/ Ended(p) /\ Watches(p)
      \/ ReversedDoc(p, d)
  BY <1>1, ReversedDocFacts
<1> SUFFICES ASSUME ReversedDoc(p, d)
             PROVE  DocInv'
  BY <1>3, Nobody, DocRead DEF Watches
<1>4. Others(p, DOMAIN r.back, {d}) /\ Blames(p) /\ order' = order
      /\ \A e \in Doc \ {d} : doc'[e] = doc[e] /\ rows'[e] = rows[e] /\ reversals'[e] = reversals[e]
  BY <1>2 DEF ReversedDoc
<1>5. \/ Ended(p)
      \/ n.op = r.op /\ n.doc = d /\ n.at = "tell"
  BY <1>2 DEF ReversedDoc
<1>6. /\ doc'[d].status = doc[d].status /\ doc'[d].flag = r.flag /\ doc'[d].reversed = TRUE
      /\ rows'[d] = rows[d] /\ reversals'[d] = reversals[d] + 1
  BY <1>2 DEF ReversedDoc
<1>7. OwnFacts(r, d)
  BY <1>2, OwnDoc DEF OwnFacts
<1>8. doc'[d].status # "absent" /\ (rows'[d] = "active" => OrderOf[d] \in Order)
  BY <1>2, <1>6, <1>7 DEF OwnFacts, OrderOps
<1>9. ASSUME NEW h, NEW a \in BOOLEAN, h = doc[d], a = Active(d), SoundDoc(d), ~RacedOn(d), Knows(r, h, a)
      PROVE  Minds(p, d)
  <2>1. h.status = "posted" /\ ~h.reversed /\ r.flag = h.flag
    BY <1>2, <1>9 DEF Knows

  <2>4. SoundDoc(d)'
    <3>1. doc'[d].flag <=> Active(d)'
      BY <1>6, <1>7, <1>9, <2>1 DEF SoundDoc, Active, OwnFacts
    <3>2. reversals'[d] = 0 \/ (reversals'[d] = 1 /\ doc'[d].status = "posted" /\ doc'[d].reversed)
      BY <1>6, <1>7, <1>9, <2>1 DEF SoundDoc, OwnFacts
    <3>3. Active(d)' => \/ doc'[d].status = "draft" \/ Blamed("direct", d)'
                       \/ (doc'[d].status = "posted" /\ order'[OrderOf[d]].status = "open")
      BY <1>4, <1>6, <1>7, <1>9, <2>1 DEF SoundDoc, Active, Blamed, Blames, OwnFacts
    <3> QED
      BY <3>1, <3>2, <3>3 DEF SoundDoc
  <2>5. Spent(d) => Spent(d)'
    BY <1>6, <1>9, <2>1 DEF Spent, Active
  <2>6. ASSUME n.doc = d, NEW g, g = doc'[d], NEW b \in BOOLEAN, b = (rows'[d] = "active"), NEW m, m = n
        PROVE  Knows(m, g, b)
    <3>1. m.op = "reverse" /\ m.at = "tell"
      BY <1>2, <1>5, <1>6, <1>9, <2>1, <2>6, IdleFacts, StockAssumption DEF Ended, Active, After
    <3>2. m.op \notin {"postOrder", "closeOrder", "deleteDraft"}
      BY <1>2, <3>1
    <3> QED
      BY <3>1, <3>2 DEF Knows
  <2>7. proc'[p].doc = d => Knows(proc'[p], doc'[d], rows'[d] = "active")
    <3>1. (rows'[d] = "active") \in BOOLEAN
      OBVIOUS
    <3> QED
      BY <2>6, <3>1
  <2> QED
    BY <2>4, <2>5, <2>7 DEF Minds
<1>10. SoundDoc(d) /\ ~RacedOn(d) /\ Knows(proc[p], doc[d], Active(d)) => Minds(p, d)
  <2>1. Active(d) \in BOOLEAN
    BY DEF Active
  <2> QED
    BY <1>9, <2>1
<1> QED
  BY <1>2, <1>4, <1>5, <1>8, <1>10, DocWrites

LEMMA DocReserveDone ==
  ASSUME Docs, OrderInv', NEW p \in Proc, ReserveDone(p)
  PROVE  DocInv'
<1> SUFFICES ASSUME NEW d, d = proc[p].doc, NEW r, r = proc[p], NEW n, n = proc'[p]
             PROVE  DocInv'
  OBVIOUS
<1>1. TypeInv
  BY DEF Docs
<1>2. /\ TypeInv' /\ d \in Doc /\ r.doc = d /\ r.at = "reserved" /\ r.op \in {"saveDraft"}
      /\ r.op \in OrderOps => OrderOf[d] = r.order /\ r.order \in Order
  BY <1>1, ReserveDoneFacts, ProcFacts, StockAssumption DEF Placed, Handled
<1>3. \/ Ended(p) /\ Watches(p)
      \/ /\ Others(p, Needed(d), {d}) /\ Blames(p) /\ Marks(p, d, TRUE)
         /\ rows'[d] = "active" /\ Back(n, r, "reserve")
  BY <1>1, <1>2, ReserveDoneFacts DEF Watches, tables
<1> SUFFICES ASSUME /\ Others(p, Needed(d), {d}) /\ Blames(p) /\ Marks(p, d, TRUE)
                    /\ rows'[d] = "active" /\ Back(n, r, "reserve")
             PROVE  DocInv'
  BY <1>3, Nobody, DocRead DEF Watches
<1>4. Others(p, Needed(d), {d}) /\ Blames(p) /\ order' = order
      /\ \A e \in Doc \ {d} : doc'[e] = doc[e] /\ rows'[e] = rows[e] /\ reversals'[e] = reversals[e]
  BY <1>2 DEF Marks
<1>5. \/ Ended(p)
      \/ n.op = r.op /\ n.doc = d /\ n.at = After(r.op, "reserve") /\ n.at # "idle"
  BY <1>2 DEF Ended, Back
<1>6. /\ doc'[d].status = doc[d].status /\ doc'[d].flag = TRUE /\ doc'[d].reversed = r.reversed
      /\ rows'[d] = "active" /\ reversals'[d] = reversals[d]
  BY <1>2 DEF Marks
<1>7. OwnFacts(r, d)
  BY <1>2, OwnDoc DEF OwnFacts
<1>8. doc'[d].status # "absent" /\ (rows'[d] = "active" => OrderOf[d] \in Order)
  BY <1>2, <1>6, <1>7 DEF OwnFacts, OrderOps
<1>9. ASSUME NEW h, NEW a \in BOOLEAN, h = doc[d], a = Active(d), SoundDoc(d), ~RacedOn(d), Knows(r, h, a)
      PROVE  Minds(p, d)
  <2>1. h.status = "draft" /\ r.reversed = h.reversed
    BY <1>2, <1>9 DEF Knows

  <2>4. SoundDoc(d)'
    <3>1. doc'[d].flag <=> Active(d)'
      BY <1>6, <1>7, <1>9, <2>1 DEF SoundDoc, Active, OwnFacts
    <3>2. reversals'[d] = 0 \/ (reversals'[d] = 1 /\ doc'[d].status = "posted" /\ doc'[d].reversed)
      BY <1>6, <1>7, <1>9, <2>1 DEF SoundDoc, OwnFacts
    <3>3. Active(d)' => \/ doc'[d].status = "draft" \/ Blamed("direct", d)'
                       \/ (doc'[d].status = "posted" /\ order'[OrderOf[d]].status = "open")
      BY <1>4, <1>6, <1>7, <1>9, <2>1 DEF SoundDoc, Active, Blamed, Blames, OwnFacts
    <3> QED
      BY <3>1, <3>2, <3>3 DEF SoundDoc
  <2>5. Spent(d) => Spent(d)'
    BY <1>6, <1>9, <2>1 DEF Spent, Active
  <2>6. ASSUME n.doc = d, NEW g, g = doc'[d], NEW b \in BOOLEAN, b = (rows'[d] = "active"), NEW m, m = n
        PROVE  Knows(m, g, b)
    <3>1. m.op = "saveDraft" /\ m.at = "link"
      BY <1>2, <1>5, <1>6, <1>9, <2>1, <2>6, IdleFacts, StockAssumption DEF Ended, Active, After
    <3>2. m.op \notin {"postOrder", "closeOrder", "deleteDraft"}
      BY <1>2, <3>1
    <3> QED
      BY <3>1, <3>2 DEF Knows
  <2>7. proc'[p].doc = d => Knows(proc'[p], doc'[d], rows'[d] = "active")
    <3>1. (rows'[d] = "active") \in BOOLEAN
      OBVIOUS
    <3> QED
      BY <2>6, <3>1
  <2> QED
    BY <2>4, <2>5, <2>7 DEF Minds
<1>10. SoundDoc(d) /\ ~RacedOn(d) /\ Knows(proc[p], doc[d], Active(d)) => Minds(p, d)
  <2>1. Active(d) \in BOOLEAN
    BY DEF Active
  <2> QED
    BY <1>9, <2>1
<1> QED
  BY <1>2, <1>4, <1>5, <1>8, <1>10, DocWrites


-----------------------------------------------------------------------------
(* A document is made, an order is written.                                *)

LEMMA DocCreate ==
  ASSUME Docs, OrderInv', NEW p \in Proc, Create(p)
  PROVE  DocInv'
<1>1. TypeInv
  BY DEF Docs
<1>2. /\ TypeInv' /\ Others(p, {}, {}) /\ proc[p].at = "create" /\ cause' = cause
      /\ proc[p].op \in {"saveDraft", "closeOrder"}
  BY <1>1, CreateFacts, ProcFacts DEF Placed, Handled
<1>3. CASE UNCHANGED tables /\ Ended(p)
  BY <1>2, <1>3, Nobody, DocRead DEF tables
<1>4. CASE ~(UNCHANGED tables /\ Ended(p))
  <2>1. PICK d \in Doc :
          /\ doc[d].status = "absent" /\ Heads(p, d)
          /\ doc'[d].status \in {"planned", "draft"}
          /\ doc'[d].flag = doc[d].flag /\ doc'[d].reversed = doc[d].reversed
          /\ proc'[p].doc = d /\ proc'[p].op = proc[p].op
          /\ proc'[p].at = After(proc[p].op, "create")
    BY <1>1, <1>4, CreateFacts
  <2>2. rows[d] = "none" /\ reversals[d] = 0 /\ UNCHANGED <<rows, reversals, order>>
    BY <2>1 DEF Docs, DocInv, Blank, Heads
  <2> DEFINE D == {d}
  <2>3. Others(p, {}, D) /\ D \subseteq Doc /\ \A e \in D : e = d
    BY <1>2, <2>1 DEF Others, Holds, Docs, OrderInv, Known
  <2>4. \A e \in Doc \ D : doc'[e] = doc[e] /\ rows'[e] = rows[e] /\ reversals'[e] = reversals[e]
    BY <2>1, <2>2 DEF Heads
  <2>5. RacedOn(d)' \/ SoundDoc(d)'
    <3> SUFFICES ASSUME ~RacedOn(d)' PROVE SoundDoc(d)'
      OBVIOUS
    <3>1. SoundDoc(d)
      BY <1>2 DEF Docs, DocInv, Sound, RacedOn, Blamed
    <3> QED
      BY <2>1, <2>2, <3>1 DEF SoundDoc, Active
  <2>6. ASSUME NEW m, m = proc'[p], NEW h
        PROVE  m.op \notin CardOps /\ Knows(m, h, FALSE)
    <3>1. /\ m.op \in {"saveDraft", "closeOrder"}
          /\ (m.op = "saveDraft" /\ m.at = "reserve") \/ (m.op = "closeOrder" /\ m.at = "post")
      BY <1>2, <2>1, <2>6 DEF After
    <3>2. m.op \notin {"deleteDraft", "postOrder"} /\ m.op \notin CardOps
      BY <3>1 DEF CardOps
    <3> QED
      BY <3>1, <3>2 DEF Knows
  <2>7. NewKnows(p)
    <3>1. (rows'[d] = "active") = FALSE
      BY <2>2
    <3> QED
      BY <2>1, <2>6, <3>1 DEF NewKnows
  <2> HIDE DEF D
  <2>8. \A e \in D : /\ doc'[e].status # "absent"
                     /\ rows'[e] = "active" => OrderOf[e] \in Order
                     /\ RacedOn(e)' \/ (SoundDoc(e)' /\ (Spent(e) => Spent(e)'))
    <3> SUFFICES ASSUME NEW e \in D
                 PROVE  /\ doc'[e].status # "absent"
                        /\ rows'[e] = "active" => OrderOf[e] \in Order
                        /\ RacedOn(e)' \/ (SoundDoc(e)' /\ (Spent(e) => Spent(e)'))
      OBVIOUS
    <3>1. e = d
      BY <2>3
    <3> QED
      BY <2>1, <2>2, <2>5, <3>1 DEF Spent
  <2> QED
    BY <1>2, <2>2, <2>3, <2>4, <2>7, <2>8, DocWrite
<1> QED
  BY <1>3, <1>4

LEMMA DocSetOrder ==
  ASSUME Docs, OrderInv', NEW p \in Proc, Link(p) \/ Close(p) \/ Unlink(p)
  PROVE  DocInv'
<1> SUFFICES ASSUME NEW r, r = proc[p], NEW d, d = r.doc, NEW o, o = r.order
             PROVE  DocInv'
  OBVIOUS
<1>1. TypeInv /\ OrderInv /\ DocInv
  BY DEF Docs
<1>2. /\ TypeInv' /\ Others(p, {}, {}) /\ Blames(p) /\ Ended(p)
      /\ UNCHANGED <<doc, rows, reversals>> /\ o \in Order
      /\ \A u \in Order \ {o} : order'[u] = order[u]
      /\ \/ r.at = "link" /\ order'[o].status = "open"
         \/ r.at = "close" /\ order'[o].status = "closed" /\ order'[o].doc = d
         \/ r.at = "unlink" /\ order'[o].status = order[o].status
  BY <1>1, SetOrderFacts
<1>3. /\ d \in Doc /\ OrderOf[d] = o /\ doc[d].status # "absent"
      /\ (r.at = "close" => r.op \in {"postOrder", "closeOrder"}) /\ (r.at = "unlink" => r.op = "deleteDraft")
  BY <1>1, <1>2, ProcFacts, SetOrderFacts DEF Placed, Handled, OrderInv, Known
<1>4. cause \subseteq cause' /\ (r.late => RacedOn(d)') /\ \A e \in Doc : RacedOn(e) => RacedOn(e)'
  BY <1>2 DEF Blames, RacedOn, Blamed
<1>5. /\ r.at = "close" => RacedOn(d)' \/ Spent(d)
      /\ r.at = "unlink" => RacedOn(d)' \/ doc[d].status # "posted"
  <2> SUFFICES ASSUME ~RacedOn(d)'
               PROVE  /\ r.at = "close" => Spent(d)
                      /\ r.at = "unlink" => doc[d].status # "posted"
    OBVIOUS
  <2>1. Knows(r, doc[d], Active(d))
    BY <1>1, <1>3, <1>4 DEF DocInv, HeaderInv
  <2>2. CASE r.at = "close"
    <3>1. CASE r.op = "postOrder"
      BY <2>1, <2>2, <3>1 DEF Knows, Spent
    <3>2. CASE r.op = "closeOrder"
      BY <2>1, <2>2, <3>2 DEF Knows, Spent
    <3> QED
      BY <1>3, <2>2, <3>1, <3>2
  <2>3. CASE r.at = "unlink"
    BY <1>3, <2>1, <2>3 DEF Knows
  <2> QED
    BY <2>2, <2>3
<1>6. ASSUME NEW e \in Doc, OrderOf[e] = o, doc[e].status # "absent"
      PROVE  e = d
  BY <1>1, <1>2, <1>3, <1>6, StockAssumption DEF OrderInv, OneDocumentPerOrder
<1>7. Direct' /\ HeaderInv'
  <2>1. ASSUME NEW q \in Proc, proc'[q].doc \in Doc
        PROVE  q # p /\ Kept(q)
    BY <1>2, <2>1, IdleFacts, StockAssumption DEF Ended, Others
  <2>2. Direct'
    BY <1>1, <1>4, <2>1 DEF DocInv, Direct, Blamed, Kept
  <2>3. HeaderInv'
    <3> SUFFICES ASSUME NEW q \in Proc, NEW e \in Doc, proc'[q].doc = e, ~proc'[q].late, ~RacedOn(e)'
                 PROVE  Knows(proc'[q], doc'[e], rows'[e] = "active")
      BY DEF HeaderInv, Active, RacedOn, Blamed
    <3>1. Kept(q) /\ proc[q].doc = e /\ ~proc[q].late /\ ~RacedOn(e)
      BY <1>4, <2>1 DEF Kept
    <3>2. Knows(proc[q], doc[e], Active(e))
      BY <1>1, <3>1 DEF DocInv, HeaderInv
    <3>3. doc'[e] = doc[e] /\ rows'[e] = rows[e] /\ Active(e) \in BOOLEAN
      BY <1>2 DEF Active
    <3>4. Knows(proc'[q], doc[e], Active(e))
      BY <3>1, <3>2, <3>3, KnowsStill
    <3> QED
      BY <3>3, <3>4 DEF Active
  <2> QED
    BY <2>2, <2>3
<1>8. Blank' /\ Ordered'
  BY <1>1, <1>2 DEF DocInv, Blank, Ordered, Active
<1>9. Sound'
  <2> SUFFICES ASSUME NEW e \in Doc, ~RacedOn(e)' PROVE SoundDoc(e)'
    BY DEF Sound
  <2>1. SoundDoc(e)
    BY <1>1, <1>4 DEF DocInv, Sound
  <2>2. doc'[e] = doc[e] /\ rows'[e] = rows[e] /\ reversals'[e] = reversals[e] /\ (Active(e)' <=> Active(e))
    BY <1>2 DEF Active
  <2>3. Active(e) /\ doc[e].status = "posted" /\ order[OrderOf[e]].status = "open"
          => order'[OrderOf[e]].status = "open"
    <3> SUFFICES ASSUME Active(e), doc[e].status = "posted", order[OrderOf[e]].status = "open",
                        order'[OrderOf[e]].status # "open"
                 PROVE  FALSE
      OBVIOUS
    <3>1. OrderOf[e] = o
      BY <1>1, <1>2 DEF DocInv, Ordered
    <3>2. e = d /\ r.at = "close"
      BY <1>2, <1>6, <3>1
    <3> QED
      BY <1>5, <3>2 DEF Spent
  <2> QED
    BY <1>4, <2>1, <2>2, <2>3 DEF SoundDoc, Blamed
<1>10. Closed'
  <2> SUFFICES ASSUME NEW u \in Order, order'[u].status = "closed"
               PROVE  \E e \in Doc : /\ OrderOf[e] = u /\ doc'[e].status # "absent"
                                     /\ RacedOn(e)' \/ (order'[u].doc = e /\ Spent(e)')
    BY DEF Closed
  <2>1. \A e \in Doc : Spent(e)' <=> Spent(e)
    BY <1>2 DEF Spent, Active
  <2>2. CASE u # o
    <3>1. PICK e \in Doc : /\ OrderOf[e] = u /\ doc[e].status # "absent"
                           /\ RacedOn(e) \/ (order[u].doc = e /\ Spent(e))
      BY <1>1, <1>2, <2>2 DEF DocInv, Closed
    <3> QED
      BY <1>2, <1>4, <2>1, <2>2, <3>1
  <2>3. CASE u = o /\ r.at = "close"
    BY <1>2, <1>3, <1>5, <2>1, <2>3
  <2>4. CASE u = o /\ r.at = "unlink"
    <3>1. PICK e \in Doc : /\ OrderOf[e] = o /\ doc[e].status # "absent"
                           /\ RacedOn(e) \/ (order[o].doc = e /\ Spent(e))
      BY <1>1, <1>2, <2>4 DEF DocInv, Closed
    <3>2. e = d
      BY <1>6, <3>1
    <3>3. RacedOn(d)'
      BY <1>4, <1>5, <2>4, <3>1, <3>2 DEF Spent
    <3> QED
      BY <1>2, <1>3, <2>4, <3>3
  <2> QED
    BY <1>2, <2>2, <2>3, <2>4
<1> QED
  BY <1>7, <1>8, <1>9, <1>10 DEF DocInv

-----------------------------------------------------------------------------
(* The invariant of the documents.                                         *)

LEMMA DocStep ==
  ASSUME Docs, OrderInv', NEW p \in Proc, Steps1(p) \/ Steps2(p) \/ Asks(p)
  PROVE  DocInv'
<1>1. CASE Steps1(p)
  BY <1>1, DocPostHeader, DocPostStock, DocPostBalance, DocPostMovement, DocPostDone, DocTell, DocPublish,
     DocPlanHeader, DocPlanDone, DocCancelHeader, DocCancelDone, DocCreate, DocEditHeader, DocEditDone
     DEF Steps1
<1>2. CASE Steps2(p)
  BY <1>2, DocReverseHeader, DocReverseStock, DocReverseNumber, DocReverseDone, DocReserveHeader,
     DocReserveDone, DocReleaseHeader, DocReleaseDone, DocLoad, DocSetOrder, DocDie DEF Steps2
<1>3. CASE Asks(p)
  BY <1>3, DocAskDoc, DocAskOrder DEF Asks
<1> QED
  BY <1>1, <1>2, <1>3

LEMMA DocNext == Docs /\ [Next]_vars => Docs'
<1> SUFFICES ASSUME Docs, [Next]_vars PROVE Docs'
  OBVIOUS
<1>1. TypeInv' /\ OrderInv'
  BY TypeNext, OrderStep DEF Docs
<1>2. DocInv'
  <2>1. CASE Next
    BY <1>1, <2>1, NextSteps, DocStep
  <2>2. CASE UNCHANGED vars
    <3>1. UNCHANGED <<doc, rows, reversals, order, proc, cause>>
      BY <2>2 DEF vars, tables
    <3> QED
      BY <3>1 DEF Docs, DocInv, Direct, Blank, Ordered, Active, Sound, SoundDoc, RacedOn, Blamed, HeaderInv,
                  Closed, Spent
  <2> QED
    BY <2>1, <2>2
<1> QED
  BY <1>1, <1>2 DEF Docs

LEMMA DocInit == Init => Docs
<1> SUFFICES ASSUME Init PROVE Docs
  OBVIOUS
<1>1. TypeInv /\ OrderInv
  BY TypeInit, OrderInit
<1>2. /\ \A p \in Proc : proc[p] = Idle
      /\ \A d \in Doc : rows[d] = "none" /\ reversals[d] = 0 /\ doc[d].flag = FALSE
      /\ \A o \in Order : order[o].status = "open"
  BY DEF Init
<1>3. \A p \in Proc : proc[p].doc \notin Doc
  BY <1>2, IdleFacts, StockAssumption
<1>4. Direct /\ HeaderInv
  BY <1>3 DEF Direct, HeaderInv
<1>5. Blank /\ Ordered /\ Sound /\ Closed
  BY <1>2 DEF Blank, Ordered, Active, Sound, SoundDoc, Closed
<1> QED
  BY <1>1, <1>4, <1>5 DEF Docs, DocInv

\* reverseWarehouseDocument makes a second СТОРНО of a document only when
\* another request has written its header since it was read.
THEOREM ReversesOnce == Spec => []ReversedOnce
<1>1. Docs => ReversedOnce
  BY DEF Docs, DocInv, Sound, SoundDoc, RacedOn, ReversedOnce, Overlapped
<1> QED
  BY <1>1, DocInit, DocNext, PTL DEF Spec

\* Whatever is saved, posted, deleted, closed or repeated: an active reservation
\* keeps a document from which its order can still release it.
THEOREM OwnersKept == Spec => []ReservationHasOwner
<1>1. Docs => ReservationHasOwner
  BY DEF Docs, DocInv, Sound, SoundDoc, RacedOn, ReservationHasOwner, Overlapped, Active
<1> QED
  BY <1>1, DocInit, DocNext, PTL DEF Spec

-----------------------------------------------------------------------------
(* Postings: the registered lines of a document are those of the one         *)
(* posting that has got somewhere, or all of them.                           *)

On(p, d) == proc[p].doc = d /\ Begun(proc[p])
\* How many lines a posting under way has registered.
Count(r) == IF r.at = "posted" THEN Len(Lines[r.doc]) ELSE r.i - 1

Prefix(d, c) == \A i \in DOMAIN Lines[d] : moved[d][i] = IF i <= c THEN 1 ELSE 0
Fresh(d) == Prefix(d, 0) /\ \A p \in Proc : On(p, d) => Count(proc[p]) = 0
Led(d, p) ==
  /\ On(p, d) /\ Prefix(d, Count(proc[p]))
  /\ \A q \in Proc \ {p} : On(q, d) => Count(proc[q]) = 0
Clean(d) ==
  /\ doc[d].status = "posted" => Prefix(d, Len(Lines[d]))
  /\ doc[d].status # "posted" => Fresh(d) \/ \E p \in Proc : Led(d, p)

TornOn(d) == Blamed("torn", d)
PostInv == \A d \in Doc :
  RacedOn(d) \/ TornOn(d) \/ Clean(d) \/ \E p \in Proc : On(p, d) /\ proc[p].late

LEMMA OnKept ==
  ASSUME NEW q \in Proc, Kept(q), NEW d
  PROVE  (On(q, d)' <=> On(q, d)) /\ Count(proc[q])' = Count(proc[q]) /\ (proc[q].late => proc'[q].late)
BY DEF Kept, On, Begun, Count

\* p begins nothing, goes on where it is, or stops.
Posts(p) ==
  \/ ~Begun(proc[p]) /\ ~Begun(proc[p])'
  \/ ~Begun(proc[p]) /\ Count(proc[p])' = 0
  \/ /\ Begun(proc[p]) /\ Begun(proc[p])' /\ proc'[p].doc = proc[p].doc
     /\ Count(proc[p])' = Count(proc[p]) /\ proc'[p].late = proc[p].late
  \/ ~Begun(proc[p])' /\ <<"torn", proc[p].doc>> \in cause'

LEMMA PostKeeps ==
  ASSUME PostInv, NEW p \in Proc, Others(p, {}, {}), cause \subseteq cause', moved' = moved, Posts(p),
         \A d \in Doc : RacedOn(d)' \/ (doc'[d].status = "posted" <=> doc[d].status = "posted")
  PROVE  PostInv'
<1> SUFFICES ASSUME NEW d \in Doc, ~RacedOn(d)', ~TornOn(d)'
             PROVE  Clean(d)' \/ \E q \in Proc : On(q, d)' /\ proc'[q].late
  BY DEF PostInv
<1>1. ASSUME NEW q \in Proc \ {p}
      PROVE  (On(q, d)' <=> On(q, d)) /\ Count(proc[q])' = Count(proc[q]) /\ (proc[q].late => proc'[q].late)
  BY OnKept DEF Others
<1>2. On(p, d) => On(p, d)' /\ Count(proc[p])' = Count(proc[p]) /\ proc'[p].late = proc[p].late
  BY DEF Posts, On, TornOn, Blamed
<1>3. On(p, d)' /\ ~On(p, d) => Count(proc[p])' = 0
  BY DEF Posts, On
<1>4. \A c : Prefix(d, c)' <=> Prefix(d, c)
  BY DEF Prefix
<1>5. Clean(d) \/ \E q \in Proc : On(q, d) /\ proc[q].late
  BY DEF PostInv, RacedOn, TornOn, Blamed
<1>6. CASE \E q \in Proc : On(q, d) /\ proc[q].late
  BY <1>1, <1>2, <1>6
<1>7. CASE Clean(d)
  <2>1. CASE doc[d].status = "posted"
    BY <1>4, <1>7, <2>1 DEF Clean
  <2>2. CASE doc[d].status # "posted" /\ Fresh(d)
    <3>1. Prefix(d, 0)'
      BY <1>4, <2>2 DEF Fresh
    <3>2. ASSUME NEW q \in Proc, On(q, d)' PROVE Count(proc[q])' = 0
      <4>1. CASE q = p
        BY <1>2, <1>3, <2>2, <3>2, <4>1 DEF Fresh
      <4>2. CASE q # p
        BY <1>1, <2>2, <3>2, <4>2 DEF Fresh
      <4> QED
        BY <4>1, <4>2
    <3>3. Fresh(d)'
      BY <3>1, <3>2 DEF Fresh
    <3> QED
      BY <2>2, <3>3 DEF Clean
  <2>3. CASE doc[d].status # "posted" /\ \E q \in Proc : Led(d, q)
    <3>1. PICK q \in Proc : Led(d, q)
      BY <2>3
    <3>2. On(q, d)' /\ Count(proc[q])' = Count(proc[q])
      BY <1>1, <1>2, <3>1 DEF Led
    <3>3. Prefix(d, Count(proc[q]))'
      BY <1>4, <3>1, <3>2 DEF Led, Prefix
    <3>4. ASSUME NEW u \in Proc \ {q}, On(u, d)' PROVE Count(proc[u])' = 0
      <4>1. CASE u = p
        BY <1>2, <1>3, <3>1, <3>4, <4>1 DEF Led
      <4>2. CASE u # p
        BY <1>1, <3>1, <3>4, <4>2 DEF Led
      <4> QED
        BY <4>1, <4>2
    <3>5. Led(d, q)'
      BY <3>2, <3>3, <3>4 DEF Led
    <3> QED
      BY <2>3, <3>5 DEF Clean
  <2> QED
    BY <1>7, <2>1, <2>2, <2>3 DEF Clean
<1> QED
  BY <1>5, <1>6, <1>7

\* A posting that registers or finishes while another one is under way makes
\* it late; alone, it counts on.
LEMMA PostWrites ==
  ASSUME Docs, PostInv, NEW p \in Proc, NEW d \in Doc, On(p, d), Others(p, {}, {d}), Blames(p),
         proc[p].at \in {"movement", "posted"},
         \A e \in Doc \ {d} : moved'[e] = moved[e] /\ doc'[e] = doc[e] /\ ~On(p, e)',
         ~proc[p].late /\ doc[d].status # "posted" /\ Prefix(d, Count(proc[p]))
           /\ (\A q \in Proc \ {p} : ~On(q, d)')
           => Clean(d)'
  PROVE  PostInv'
<1> SUFFICES ASSUME NEW e \in Doc, ~RacedOn(e)', ~TornOn(e)'
             PROVE  Clean(e)' \/ \E q \in Proc : On(q, e)' /\ proc'[q].late
  BY DEF PostInv
<1>1. cause \subseteq cause' /\ ~RacedOn(e) /\ ~TornOn(e)
  BY DEF Blames, RacedOn, TornOn, Blamed
<1>2. ASSUME NEW q \in Proc \ {p}
      PROVE  (On(q, e)' <=> On(q, e)) /\ Count(proc[q])' = Count(proc[q]) /\ (proc[q].late => proc'[q].late)
  BY OnKept DEF Others
<1>3. Clean(e) \/ \E q \in Proc : On(q, e) /\ proc[q].late
  BY <1>1 DEF PostInv
<1>4. CASE e # d
  <2>1. ~On(p, e) /\ ~On(p, e)' /\ doc'[e] = doc[e] /\ moved'[e] = moved[e]
    BY <1>4 DEF On
  <2>2. \A c : Prefix(e, c)' <=> Prefix(e, c)
    BY <2>1 DEF Prefix
  <2>3. CASE \E q \in Proc : On(q, e) /\ proc[q].late
    BY <1>2, <2>1, <2>3
  <2>4. CASE Clean(e) /\ Fresh(e)
    <3>1. Fresh(e)'
      BY <1>2, <2>1, <2>2, <2>4 DEF Fresh
    <3> QED
      BY <2>1, <2>2, <2>4, <3>1 DEF Clean
  <2>5. CASE Clean(e) /\ \E q \in Proc : Led(e, q)
    <3>1. PICK q \in Proc : Led(e, q)
      BY <2>5
    <3>2. q # p /\ On(q, e)' /\ Count(proc[q])' = Count(proc[q])
      BY <1>2, <2>1, <3>1 DEF Led
    <3>3. Prefix(e, Count(proc[q]))'
      BY <2>1, <3>1, <3>2 DEF Led, Prefix
    <3>4. Led(e, q)'
      BY <1>2, <2>1, <3>1, <3>2, <3>3 DEF Led
    <3> QED
      BY <2>1, <2>2, <2>5, <3>4 DEF Clean
  <2>6. CASE Clean(e) /\ doc[e].status = "posted"
    BY <2>1, <2>2, <2>6 DEF Clean
  <2> QED
    BY <1>3, <2>3, <2>4, <2>5, <2>6 DEF Clean
<1>5. CASE e = d
  <2>1. ~proc[p].late
    BY <1>5 DEF Blames, On, RacedOn, Blamed
  <2>2. doc[d].status # "posted"
    <3>1. Knows(proc[p], doc[d], Active(d))
      BY <1>1, <1>5, <2>1 DEF Docs, DocInv, HeaderInv, On
    <3> QED
      BY <3>1 DEF Knows
  <2>3. CASE \E q \in Proc \ {p} : On(q, d)'
    <3>1. PICK q \in Proc \ {p} : On(q, d)'
      BY <2>3
    <3>2. Holds(proc[q], d)
      BY <1>2, <1>5, <3>1 DEF On, Begun, Holds, HoldsHeader
    <3>3. proc'[q].late
      BY <3>2 DEF Others
    <3> QED
      BY <1>5, <3>1, <3>3
  <2>4. CASE \A q \in Proc \ {p} : ~On(q, d)'
    <3>1. Clean(d)
      BY <1>2, <1>3, <1>5, <2>1, <2>4
    <3>2. Prefix(d, Count(proc[p]))
      <4>1. CASE Fresh(d)
        BY <4>1 DEF Fresh
      <4>2. CASE \E q \in Proc : Led(d, q)
        <5>1. PICK q \in Proc : Led(d, q)
          BY <4>2
        <5>2. q = p
          BY <1>2, <1>5, <2>4, <5>1 DEF Led
        <5> QED
          BY <5>1, <5>2 DEF Led
      <4> QED
        BY <2>2, <3>1, <4>1, <4>2 DEF Clean
    <3> QED
      BY <1>5, <2>1, <2>2, <2>4, <3>2
  <2> QED
    BY <2>3, <2>4
<1> QED
  BY <1>4, <1>5

\* A step that registers nothing, and posts no document.
Leaves(p) ==
  /\ Others(p, {}, {}) /\ cause \subseteq cause' /\ moved' = moved /\ Posts(p)
  /\ \A d \in Doc : RacedOn(d)' \/ (doc'[d].status = "posted" <=> doc[d].status = "posted")

Calmly(r) == r.at \notin {"balance", "movement", "posted"}
LEMMA CalmFacts ==
  /\ \A r : Calmly(r) => ~Begun(r)
  /\ Calmly(Idle)
  /\ \A n, r, part : Back(n, r, part) => Calmly(n)
  /\ \A n, r, at : Goes(n, r, at) /\ at \notin {"balance", "movement", "posted"} => Calmly(n)
<1>1. \A op, part : After(op, part) \notin {"balance", "movement", "posted"}
  BY DEF After
<1>2. ASSUME NEW n, NEW r, NEW part, Back(n, r, part) PROVE Calmly(n)
  BY <1>1, <1>2 DEF Back, Calmly
<1> QED
  BY <1>2, IdleFacts DEF Calmly, Begun, Goes

LEMMA CalmPosts ==
  ASSUME NEW p \in Proc, Calmly(proc[p]), Calmly(proc'[p])
  PROVE  Posts(p)
<1> SUFFICES ASSUME NEW n, n = proc'[p], Calmly(n)
             PROVE  Posts(p)
  OBVIOUS
<1>1. n.at \notin {"balance", "movement", "posted"}
  BY DEF Calmly
<1>2. ~Begun(proc[p]) /\ ~Begun(proc[p])'
  BY <1>1 DEF Calmly, Begun
<1> QED
  BY <1>2 DEF Posts

LEMMA LeavesReads ==
  ASSUME TypeInv, NEW p \in Proc, Reads(p), Calmly(proc[p]), Calmly(proc'[p])
  PROVE  Leaves(p)
BY CalmPosts DEF Reads, tables, Leaves

\* A header written by a request that had not read "posted".
LEMMA LeavesStatus ==
  ASSUME Docs, NEW p \in Proc, NEW d \in Doc, d = proc[p].doc, NEW K, Others(p, K, {d}), Blames(p), moved' = moved,
         \A e \in Doc \ {d} : doc'[e] = doc[e],
         doc'[d].status # "posted" \/ doc'[d].status = doc[d].status,
         doc'[d].status # doc[d].status => proc[p].at \in {"planned", "cancelled", "edited"},
         Calmly(proc[p]), Calmly(proc'[p])
  PROVE  Leaves(p)
<1>1. Others(p, {}, {}) /\ cause \subseteq cause' /\ Posts(p)
  BY FewerOthers, CalmPosts DEF Blames
<1>2. RacedOn(d)' \/ (doc'[d].status = "posted" <=> doc[d].status = "posted")
  <2> SUFFICES ASSUME ~RacedOn(d)', doc'[d].status # doc[d].status PROVE doc[d].status # "posted"
    OBVIOUS
  <2>1. ~proc[p].late /\ ~RacedOn(d)
    BY DEF Blames, RacedOn, Blamed
  <2>2. Knows(proc[p], doc[d], Active(d))
    BY <2>1 DEF Docs, DocInv, HeaderInv
  <2> QED
    BY <2>2 DEF Knows
<1> QED
  BY <1>1, <1>2 DEF Leaves

LEMMA LeavesSteps1 ==
  ASSUME Docs, NEW p \in Proc,
         \/ PostHeader(p) \/ PlanHeader(p) \/ CancelHeader(p) \/ EditHeader(p) \/ Tell(p) \/ Publish(p)
         \/ ReverseHeader(p) \/ ReverseStock(p) \/ ReverseNumber(p) \/ ReserveHeader(p) \/ ReleaseHeader(p)
  PROVE  Leaves(p)
<1>0. TypeInv
  BY DEF Docs
<1>1. CASE PostHeader(p)
  <2>1. Reads(p) /\ Calmly(proc[p]) /\ Calmly(proc'[p])
    BY <1>0, <1>1, PostHeaderFacts, CalmFacts DEF Ended, Calmly, Goes
  <2> QED
    BY <1>0, <2>1, LeavesReads
<1>2. CASE PlanHeader(p)
  <2>1. Reads(p) /\ Calmly(proc[p]) /\ Calmly(proc'[p])
    BY <1>0, <1>2, PlanHeaderFacts, CalmFacts DEF Ended, Calmly, Goes
  <2> QED
    BY <1>0, <2>1, LeavesReads
<1>3. CASE CancelHeader(p)
  <2>1. Reads(p) /\ Calmly(proc[p]) /\ Calmly(proc'[p])
    BY <1>0, <1>3, CancelHeaderFacts, CalmFacts DEF Ended, Calmly, Goes
  <2> QED
    BY <1>0, <2>1, LeavesReads
<1>4. CASE EditHeader(p)
  <2>1. Reads(p) /\ Calmly(proc[p]) /\ Calmly(proc'[p])
    BY <1>0, <1>4, EditHeaderFacts, CalmFacts DEF Ended, Calmly, Goes
  <2> QED
    BY <1>0, <2>1, LeavesReads
<1>5. CASE Tell(p)
  <2>1. Reads(p) /\ Calmly(proc[p]) /\ Calmly(proc'[p])
    BY <1>0, <1>5, TellFacts DEF Calmly, Goes
  <2> QED
    BY <1>0, <2>1, LeavesReads
<1>6. CASE Publish(p)
  <2>1. /\ Others(p, {}, {}) /\ cause \subseteq cause' /\ UNCHANGED <<doc, moved>>
        /\ Calmly(proc[p]) /\ Calmly(proc'[p])
    BY <1>0, <1>6, PublishFacts, CalmFacts DEF Ended, Calmly
  <2> QED
    BY <2>1, CalmPosts DEF Leaves
<1>7. CASE ReverseHeader(p)
  <2>1. Reads(p) /\ Calmly(proc[p]) /\ Calmly(proc'[p])
    BY <1>0, <1>7, ReverseHeaderFacts, CalmFacts DEF Ended, Calmly, Goes
  <2> QED
    BY <1>0, <2>1, LeavesReads
<1>8. CASE ReverseStock(p)
  <2>1. Reads(p) /\ Calmly(proc[p]) /\ Calmly(proc'[p])
    BY <1>0, <1>8, ReverseStockFacts, CalmFacts DEF Ended, Calmly, Goes
  <2> QED
    BY <1>0, <2>1, LeavesReads
<1>9. CASE ReverseNumber(p)
  <2>1. Reads(p) /\ Calmly(proc[p]) /\ Calmly(proc'[p])
    BY <1>0, <1>9, ReverseNumberFacts DEF Calmly, Goes
  <2> QED
    BY <1>0, <2>1, LeavesReads
<1>10. CASE ReserveHeader(p)
  <2>1. Reads(p) /\ Calmly(proc[p]) /\ Calmly(proc'[p])
    BY <1>0, <1>10, ReserveHeaderFacts, CalmFacts DEF Ended, Calmly, Goes
  <2> QED
    BY <1>0, <2>1, LeavesReads
<1>11. CASE ReleaseHeader(p)
  <2>1. Reads(p) /\ Calmly(proc[p]) /\ Calmly(proc'[p])
    BY <1>0, <1>11, ReleaseHeaderFacts, CalmFacts DEF Ended, Calmly, Goes
  <2> QED
    BY <1>0, <2>1, LeavesReads
<1> QED
  BY <1>1, <1>2, <1>3, <1>4, <1>5, <1>6, <1>7, <1>8, <1>9, <1>10, <1>11

LEMMA LeavesSteps2 ==
  ASSUME Docs, NEW p \in Proc,
         \/ PlanDone(p) \/ CancelDone(p) \/ Create(p) \/ EditDone(p) \/ ReverseDone(p)
         \/ ReserveDone(p) \/ ReleaseDone(p) \/ Load(p) \/ Link(p) \/ Close(p) \/ Unlink(p)
  PROVE  Leaves(p)
<1> DEFINE d == proc[p].doc
<1>0. TypeInv /\ (Calmly(proc[p]) /\ Ended(p) /\ Watches(p) /\ moved' = moved => Leaves(p))
  BY CalmFacts, CalmPosts DEF Docs, Ended, Watches, Leaves
<1>a. proc[p].at \notin {"idle", "load", "create"} => d \in Doc
  BY <1>0, ProcFacts
<1>1. CASE PlanDone(p)
  <2>1. /\ d \in Doc /\ Others(p, {}, {d}) /\ Blames(p) /\ moved' = moved /\ Heads(p, d)
        /\ doc'[d].status = "planned" /\ proc[p].at = "planned" /\ Calmly(proc[p]) /\ Calmly(proc'[p])
    BY <1>0, <1>a, <1>1, PlanDoneFacts, CalmFacts DEF Ended, Calmly, Heads
  <2> QED
    BY <2>1, LeavesStatus DEF Heads
<1>2. CASE CancelDone(p)
  <2>1. /\ d \in Doc /\ Others(p, {}, {d}) /\ Blames(p) /\ moved' = moved /\ Heads(p, d)
        /\ doc'[d].status = "cancelled" /\ proc[p].at = "cancelled" /\ Calmly(proc[p]) /\ Calmly(proc'[p])
    BY <1>0, <1>a, <1>2, CancelDoneFacts, CalmFacts DEF Calmly, Heads
  <2> QED
    BY <2>1, LeavesStatus DEF Heads
<1>3. CASE EditDone(p)
  <2>1. CASE Others(p, {}, {}) /\ UNCHANGED tables /\ cause' = cause /\ Ended(p)
    BY <1>0, <1>3, <2>1, EditDoneFacts, CalmFacts, CalmPosts DEF Leaves, tables, Calmly, Ended
  <2>2. CASE ~(Others(p, {}, {}) /\ UNCHANGED tables /\ cause' = cause /\ Ended(p))
    <3>1. /\ d \in Doc /\ Others(p, {}, {d}) /\ Blames(p) /\ moved' = moved /\ Heads(p, d)
          /\ doc'[d].status = "draft" /\ proc[p].at = "edited" /\ Calmly(proc[p]) /\ Calmly(proc'[p])
      BY <1>0, <1>a, <1>3, <2>2, EditDoneFacts, CalmFacts DEF Calmly, Heads
    <3> QED
      BY <3>1, LeavesStatus DEF Heads
  <2> QED
    BY <2>1, <2>2
<1>4. CASE ReverseDone(p)
  <2>0. moved' = moved /\ proc[p].at = "reverse"
    BY <1>0, <1>4, ReverseDoneFacts DEF tables
  <2>1. CASE Ended(p) /\ Watches(p)
    BY <1>0, <2>0, <2>1 DEF Calmly
  <2>2. CASE ReversedDoc(p, d)
    <3>1. /\ d \in Doc /\ Others(p, DOMAIN proc[p].back, {d}) /\ Blames(p) /\ doc'[d].status = doc[d].status
          /\ (\A e \in Doc \ {d} : doc'[e] = doc[e]) /\ Calmly(proc[p]) /\ Calmly(proc'[p])
      BY <1>a, <2>0, <2>2 DEF ReversedDoc, Calmly
    <3> QED
      BY <2>0, <3>1, LeavesStatus
  <2> QED
    BY <1>0, <1>4, <2>1, <2>2, ReversedDocFacts
<1>5. CASE ReserveDone(p)
  <2>1. CASE Others(p, {}, {}) /\ UNCHANGED tables /\ cause' = cause /\ Ended(p)
    BY <1>0, <1>5, <2>1, ReserveDoneFacts, CalmFacts, CalmPosts DEF Leaves, tables, Calmly, Ended
  <2>2. CASE ~(Others(p, {}, {}) /\ UNCHANGED tables /\ cause' = cause /\ Ended(p))
    <3>1. /\ d \in Doc /\ Others(p, Needed(d), {d}) /\ Blames(p) /\ moved' = moved
          /\ (\A e \in Doc \ {d} : doc'[e] = doc[e])
          /\ doc'[d].status = doc[d].status /\ Calmly(proc[p]) /\ Calmly(proc'[p])
      BY <1>0, <1>a, <1>5, <2>2, ReserveDoneFacts, CalmFacts DEF Calmly, Marks
    <3> QED
      BY <3>1, LeavesStatus
  <2> QED
    BY <2>1, <2>2
<1>6. CASE ReleaseDone(p)
  <2>1. /\ d \in Doc /\ Others(p, Needed(d), {d}) /\ Blames(p) /\ moved' = moved
        /\ (\A e \in Doc \ {d} : doc'[e] = doc[e])
        /\ doc'[d].status = doc[d].status /\ Calmly(proc[p]) /\ Calmly(proc'[p])
    BY <1>0, <1>a, <1>6, ReleaseDoneFacts, CalmFacts DEF Calmly, Marks
  <2> QED
    BY <2>1, LeavesStatus
<1>7. CASE Create(p)
  <2>1. Others(p, {}, {}) /\ cause' = cause /\ Calmly(proc[p])
    BY <1>0, <1>7, CreateFacts DEF Calmly
  <2>2. Calmly(proc'[p]) /\ moved' = moved
    BY <1>0, <1>7, CreateFacts, CalmFacts DEF Ended, Calmly, After, Heads, tables
  <2>3. \A e \in Doc : doc'[e].status = "posted" <=> doc[e].status = "posted"
    <3>1. CASE UNCHANGED tables
      BY <3>1 DEF tables
    <3>2. CASE ~UNCHANGED tables
      <4>1. PICK e \in Doc : doc[e].status = "absent" /\ Heads(p, e) /\ doc'[e].status \in {"planned", "draft"}
        BY <1>0, <1>7, <3>2, CreateFacts
      <4> QED
        BY <4>1 DEF Heads
    <3> QED
      BY <3>1, <3>2
  <2> QED
    BY <2>1, <2>2, <2>3, CalmPosts DEF Leaves
<1>8. CASE Load(p)
  <2>1. Reads(p) /\ Calmly(proc[p]) /\ Calmly(proc'[p])
    BY <1>0, <1>8, LoadFacts, CalmFacts DEF Ended, Calmly, Goes, Takes
  <2> QED
    BY <1>0, <2>1, LeavesReads
<1>9. CASE Link(p) \/ Close(p) \/ Unlink(p)
  <2>1. /\ Others(p, {}, {}) /\ cause \subseteq cause' /\ UNCHANGED <<doc, moved>>
        /\ Calmly(proc[p]) /\ Calmly(proc'[p])
    BY <1>0, <1>9, SetOrderFacts, CalmFacts DEF Ended, Calmly, Blames
  <2> QED
    BY <2>1, CalmPosts DEF Leaves
<1> QED
  BY <1>1, <1>2, <1>3, <1>4, <1>5, <1>6, <1>7, <1>8, <1>9

LEMMA TornFacts ==
  ASSUME NEW p \in Proc, cause' = cause \cup TornBy(proc[p]), Ended(p)
  PROVE  Posts(p)
<1>1. ~Begun(proc[p])'
  BY CalmFacts DEF Ended
<1>2. Begun(proc[p]) => <<"torn", proc[p].doc>> \in cause'
  BY DEF TornBy
<1> QED
  BY <1>1, <1>2 DEF Posts

LEMMA LeavesSteps3 ==
  ASSUME Docs, NEW p \in Proc, PostStock(p) \/ PostBalance(p) \/ Die(p) \/ Asks(p)
  PROVE  Leaves(p)
<1>0. TypeInv
  BY DEF Docs
<1>1. CASE PostStock(p)
  <2>1. Reads(p) /\ ~Begun(proc[p])
    BY <1>0, <1>1, PostStockFacts DEF Begun
  <2>2. ~Begun(proc[p])'
    BY <1>0, <1>1, PostStockFacts, CalmFacts DEF Goes, Ended, Begun
  <2> QED
    BY <2>1, <2>2 DEF Posts, Leaves, Reads, tables
<1>2. CASE PostBalance(p)
  <2>1. proc[p].at = "balance" /\ proc[p].i \in Nat /\ proc[p].i >= 1
    <3>1. proc[p].at = "balance" /\ proc[p].i \in DOMAIN Lines[proc[p].doc] /\ proc[p].doc \in Doc
      BY <1>0, <1>2, PostBalanceFacts, ProcFacts DEF Placed
    <3>2. DOMAIN Lines[proc[p].doc] \subseteq Nat \ {0}
      BY <3>1, LinesFacts
    <3> QED
      BY <3>1, <3>2
  <2>2. CASE Others(p, {}, {}) /\ UNCHANGED tables /\ Ended(p) /\ cause' = cause \cup TornBy(proc[p])
    BY <2>2, TornFacts DEF Leaves, tables
  <2>3. CASE Books(p, Line(proc[p]).place)
    <3>1. Others(p, {}, {}) /\ cause \subseteq cause' /\ UNCHANGED <<doc, moved>>
      BY <2>3, FewerOthers DEF Books
    <3>2. /\ proc'[p].at = "movement" /\ proc'[p].doc = proc[p].doc /\ proc'[p].late = proc[p].late
          /\ proc'[p].i = proc[p].i
      BY <2>3 DEF Books
    <3>3. Begun(proc[p])' /\ Count(proc[p])' = proc[p].i - 1 /\ Count(proc[p]) = proc[p].i - 1
      BY <2>1, <3>2 DEF Begun, Count
    <3>4. proc[p].i = 1 \/ Begun(proc[p])
      BY <2>1 DEF Begun
    <3>5. Posts(p)
      <4>1. CASE Begun(proc[p])
        BY <3>2, <3>3, <4>1 DEF Posts
      <4>2. CASE ~Begun(proc[p])
        BY <3>3, <3>4, <4>2 DEF Posts
      <4> QED
        BY <4>1, <4>2
    <3> QED
      BY <3>1, <3>5 DEF Leaves
  <2> QED
    BY <1>0, <1>2, <2>2, <2>3, PostBalanceFacts
<1>3. CASE Die(p)
  <2>1. Others(p, {}, {}) /\ UNCHANGED tables /\ Ended(p) /\ cause' = cause \cup TornBy(proc[p])
    BY <1>0, <1>3, DieFacts
  <2> QED
    BY <2>1, TornFacts DEF Leaves, tables
<1>4. CASE \E d \in Doc, op \in CardOps : AskDoc(p, d, op)
  <2>1. PICK d \in Doc, op \in CardOps : AskDoc(p, d, op)
    BY <1>4
  <2>2. /\ Others(p, {}, {}) /\ UNCHANGED tables /\ cause \subseteq cause' /\ proc[p] = Idle
        /\ proc'[p].at \in {"post", "plan", "cancel", "edit", "reversal"}
    BY <1>0, <2>1, AskDocFacts
  <2>3. Calmly(proc[p]) /\ Calmly(proc'[p])
    BY <2>2, CalmFacts DEF Calmly
  <2> QED
    BY <2>2, <2>3, CalmPosts DEF Leaves, tables
<1>5. CASE \E o \in Order, op \in OrderOps : AskOrder(p, o, op)
  <2>1. PICK o \in Order, op \in OrderOps : AskOrder(p, o, op)
    BY <1>5
  <2>2. Reads(p) /\ proc[p] = Idle /\ proc'[p].at = "load"
    BY <1>0, <2>1, AskOrderFacts
  <2>3. Calmly(proc[p]) /\ Calmly(proc'[p])
    BY <2>2, CalmFacts DEF Calmly
  <2> QED
    BY <1>0, <2>2, <2>3, LeavesReads
<1> QED
  BY <1>1, <1>2, <1>3, <1>4, <1>5 DEF Asks

LEMMA PostsMovement ==
  ASSUME Docs, PostInv, NEW p \in Proc, PostMovement(p)
  PROVE  PostInv'
<1> SUFFICES ASSUME NEW d, d = proc[p].doc, NEW i, i = proc[p].i
             PROVE  PostInv'
  OBVIOUS
<1>0. TypeInv
  BY DEF Docs
<1>1. /\ Others(p, {}, {d}) /\ Blames(p) /\ proc[p].at = "movement" /\ doc' = doc
      /\ \A e \in Doc \ {d} : moved'[e] = moved[e]
      /\ moved'[d][i] = moved[d][i] + 1
      /\ \A j \in DOMAIN Lines[d] \ {i} : moved'[d][j] = moved[d][j]
      /\ proc'[p].doc = d
      /\ (proc'[p].at = "posted" /\ i = Len(Lines[d])) \/ (proc'[p].at = "balance" /\ proc'[p].i = i + 1)
  BY <1>0, PostMovementFacts
<1>2. d \in Doc /\ i \in DOMAIN Lines[d]
  BY <1>0, <1>1, ProcFacts DEF Placed
<1>3. DOMAIN Lines[d] \subseteq Nat \ {0} /\ i \in Nat /\ i >= 1
  <2>1. DOMAIN Lines[d] \subseteq Nat \ {0}
    BY <1>2, LinesFacts
  <2> QED
    BY <1>2, <2>1
<1>4. On(p, d) /\ On(p, d)' /\ Count(proc[p]) = i - 1 /\ Count(proc[p])' = i
  BY <1>1, <1>3 DEF On, Begun, Count
<1>5. ASSUME doc[d].status # "posted", Prefix(d, Count(proc[p])), \A q \in Proc \ {p} : ~On(q, d)'
      PROVE  Clean(d)'
  <2>1. Prefix(d, i)'
    <3> SUFFICES ASSUME NEW j \in DOMAIN Lines[d] PROVE moved'[d][j] = IF j <= i THEN 1 ELSE 0
      BY DEF Prefix
    <3>1. moved[d][j] = IF j <= i - 1 THEN 1 ELSE 0
      BY <1>4, <1>5 DEF Prefix
    <3>2. j \in Nat
      BY <1>3
    <3> QED
      BY <1>1, <1>3, <3>1, <3>2
  <2>2. Prefix(d, Count(proc[p]))'
    BY <1>4, <2>1 DEF Prefix
  <2>3. Led(d, p)'
    BY <1>4, <1>5, <2>2 DEF Led
  <2> QED
    BY <1>1, <1>5, <2>3 DEF Clean
<1>6. \A e \in Doc \ {d} : moved'[e] = moved[e] /\ doc'[e] = doc[e] /\ ~On(p, e)'
  BY <1>1 DEF On
<1> QED
  BY <1>1, <1>2, <1>4, <1>5, <1>6, PostWrites

LEMMA PostsDone ==
  ASSUME Docs, PostInv, NEW p \in Proc, PostDone(p)
  PROVE  PostInv'
<1> SUFFICES ASSUME NEW d, d = proc[p].doc
             PROVE  PostInv'
  OBVIOUS
<1>0. TypeInv
  BY DEF Docs
<1>1. /\ Others(p, {}, {d}) /\ Blames(p) /\ proc[p].at = "posted" /\ Heads(p, d)
      /\ doc'[d].status = "posted" /\ proc'[p].at = "tell"
  BY <1>0, PostDoneFacts
<1>2. d \in Doc
  BY <1>0, <1>1, ProcFacts
<1>3. On(p, d) /\ Count(proc[p]) = Len(Lines[d])
  BY <1>1 DEF On, Begun, Count
<1>4. \A e \in Doc \ {d} : moved'[e] = moved[e] /\ doc'[e] = doc[e] /\ ~On(p, e)'
  BY <1>1 DEF Heads, On, Begun
<1>5. Prefix(d, Count(proc[p])) => Clean(d)'
  BY <1>1, <1>3 DEF Prefix, Clean, Heads
<1> QED
  BY <1>1, <1>2, <1>3, <1>4, <1>5, PostWrites

LEMMA PostNext == Docs /\ PostInv /\ [Next]_vars => PostInv'
<1> SUFFICES ASSUME Docs, PostInv, [Next]_vars PROVE PostInv'
  OBVIOUS
<1>1. CASE Next
  <2>1. PICK p \in Proc : Steps1(p) \/ Steps2(p) \/ Asks(p)
    BY <1>1, NextSteps
  <2>2. CASE PostMovement(p)
    BY <2>2, PostsMovement
  <2>3. CASE PostDone(p)
    BY <2>3, PostsDone
  <2>4. CASE ~PostMovement(p) /\ ~PostDone(p)
    <3>1. Leaves(p)
      BY <2>1, <2>4, LeavesSteps1, LeavesSteps2, LeavesSteps3 DEF Steps1, Steps2
    <3> QED
      BY <3>1, PostKeeps DEF Leaves
  <2> QED
    BY <2>2, <2>3, <2>4
<1>2. CASE UNCHANGED vars
  <2>1. UNCHANGED <<doc, moved, proc, cause>>
    BY <1>2 DEF vars, tables
  <2> SUFFICES ASSUME NEW d \in Doc
               PROVE  RacedOn(d)' \/ TornOn(d)' \/ Clean(d)' \/ \E p \in Proc : On(p, d)' /\ proc'[p].late
    BY DEF PostInv
  <2>2. /\ \A p \in Proc : On(p, d)' <=> On(p, d)
        /\ \A p \in Proc : Count(proc[p])' = Count(proc[p])
    BY <2>1 DEF On, Begun, Count
  <2>3. \A c : Prefix(d, c)' <=> Prefix(d, c)
    BY <2>1 DEF Prefix
  <2>4. Fresh(d)' <=> Fresh(d)
    BY <2>2, <2>3 DEF Fresh
  <2>5. ASSUME NEW p \in Proc PROVE Led(d, p)' <=> Led(d, p)
    <3>1. Prefix(d, Count(proc[p]))' <=> Prefix(d, Count(proc[p]))
      BY <2>1 DEF Prefix, Count
    <3> QED
      BY <2>2, <3>1 DEF Led
  <2>6. Clean(d)' <=> Clean(d)
    BY <2>1, <2>3, <2>4, <2>5 DEF Clean
  <2>7. (RacedOn(d)' <=> RacedOn(d)) /\ (TornOn(d)' <=> TornOn(d))
    BY <2>1 DEF RacedOn, TornOn, Blamed
  <2> QED
    BY <2>1, <2>2, <2>6, <2>7 DEF PostInv
<1> QED
  BY <1>1, <1>2

LEMMA PostInit == Init => PostInv
<1> SUFFICES ASSUME Init, NEW d \in Doc PROVE Clean(d)
  BY DEF PostInv
<1>1. /\ \A p \in Proc : proc[p] = Idle
      /\ moved = [e \in Doc |-> [i \in DOMAIN Lines[e] |-> 0]]
      /\ doc[d].status # "posted"
  BY DEF Init
<1>2. Prefix(d, 0)
  <2>1. DOMAIN Lines[d] \subseteq Nat \ {0}
    BY LinesFacts
  <2> QED
    BY <1>1, <2>1 DEF Prefix
<1>3. \A p \in Proc : ~On(p, d)
  BY <1>1, CalmFacts DEF On
<1> QED
  BY <1>1, <1>2, <1>3 DEF Clean, Fresh

\* What both properties of a posting say of a document.
LEMMA Registered1 ==
  ASSUME Docs, PostInv, NEW d \in Doc, ~Disturbed(d)
  PROVE  /\ \A i \in DOMAIN moved[d] : moved[d][i] <= 1
         /\ \/ \A i \in DOMAIN moved[d] : moved[d][i] > 0 <=> doc[d].status = "posted"
            \/ \E p \in Proc : proc[p].doc = d /\ proc[p].at \in {"balance", "movement", "posted"}
<1>1. Clean(d)
  BY DEF PostInv, Disturbed, Overlapped, RacedOn, TornOn, On
<1>2. DOMAIN moved[d] = DOMAIN Lines[d] /\ DOMAIN Lines[d] = 1..Len(Lines[d]) /\ Len(Lines[d]) \in Nat
  <2>1. moved[d] \in [DOMAIN Lines[d] -> Nat]
    BY DEF Docs, TypeInv, Tables
  <2> QED
    BY <2>1, LinesFacts
<1>3. CASE doc[d].status = "posted"
  <2>1. \A i \in DOMAIN moved[d] : moved[d][i] = 1
    BY <1>1, <1>2, <1>3 DEF Clean, Prefix
  <2> QED
    BY <1>3, <2>1
<1>4. CASE doc[d].status # "posted" /\ Fresh(d)
  <2>1. \A i \in DOMAIN moved[d] : moved[d][i] = 0
    BY <1>2, <1>4 DEF Fresh, Prefix
  <2> QED
    BY <1>4, <2>1
<1>5. CASE doc[d].status # "posted" /\ \E p \in Proc : Led(d, p)
  <2>1. PICK p \in Proc : Led(d, p)
    BY <1>5
  <2>2. proc[p].doc = d /\ proc[p].at \in {"balance", "movement", "posted"}
    BY <2>1 DEF Led, On, Begun
  <2>3. \A i \in DOMAIN moved[d] : moved[d][i] \in {0, 1}
    BY <1>2, <2>1 DEF Led, Prefix
  <2> QED
    BY <2>2, <2>3
<1> QED
  BY <1>1, <1>3, <1>4, <1>5 DEF Clean

LEMMA PostAlways == Spec => [](Docs /\ PostInv)
BY DocInit, DocNext, PostInit, PostNext, PTL DEF Spec

\* postWarehouseDocument repeated, retried or run twice at the same time does
\* not register a line twice, unless a request wrote what it had read before
\* the other, or one stopped in the middle.
THEOREM PostsOnce == Spec => []PostedOnce
<1>1. Docs /\ PostInv => PostedOnce
  <2> SUFFICES ASSUME Docs, PostInv, NEW d \in Doc, ~Disturbed(d), NEW i \in DOMAIN moved[d]
               PROVE  ~(moved[d][i] > 1)
    BY DEF PostedOnce
  <2>1. moved[d] \in [DOMAIN Lines[d] -> Nat]
    BY DEF Docs, TypeInv, Tables
  <2>2. moved[d][i] <= 1 /\ moved[d][i] \in Nat
    BY <2>1, Registered1
  <2> QED
    BY <2>2
<1> QED
  BY <1>1, PostAlways, PTL

\* The status of a document and the movements registered for it agree, while
\* nobody is posting it.
THEOREM StatusTells == Spec => []StatusMatchesRegister
<1>1. Docs /\ PostInv => StatusMatchesRegister
  BY Registered1 DEF StatusMatchesRegister
<1> QED
  BY <1>1, PostAlways, PTL

\* A closed order has consumed its parts and holds no reservation, whichever
\* of closeWorkOrder and the posting of its draft closed it.
THEOREM ClosedConsumed == Spec => []ClosedMeansConsumed
<1>1. Docs /\ PostInv => ClosedMeansConsumed
  <2> SUFFICES ASSUME Docs, PostInv, NEW o \in Order, order[o].status = "closed"
               PROVE  \E d \in Doc : OrderOf[d] = o /\
                        \/ /\ order[o].doc = d /\ doc[d].status = "posted"
                           /\ \A i \in DOMAIN moved[d] : moved[d][i] > 0
                           /\ rows[d] # "active"
                        \/ Disturbed(d)
    BY DEF ClosedMeansConsumed
  <2>1. PICK d \in Doc : /\ OrderOf[d] = o
                         /\ RacedOn(d) \/ (order[o].doc = d /\ Spent(d))
    BY DEF Docs, DocInv, Closed
  <2>2. CASE Disturbed(d)
    BY <2>1, <2>2
  <2>3. CASE ~Disturbed(d)
    <3>1. order[o].doc = d /\ doc[d].status = "posted" /\ rows[d] # "active"
      BY <2>1, <2>3 DEF Disturbed, Overlapped, RacedOn, Spent, Active
    <3>2. Clean(d)
      BY <2>3 DEF PostInv, Disturbed, Overlapped, RacedOn, TornOn, On
    <3>3. moved[d] \in [DOMAIN Lines[d] -> Nat] /\ DOMAIN Lines[d] = 1..Len(Lines[d]) /\ Len(Lines[d]) \in Nat
      BY LinesFacts DEF Docs, TypeInv, Tables
    <3>4. \A i \in DOMAIN moved[d] : moved[d][i] = 1
      BY <3>1, <3>2, <3>3 DEF Clean, Prefix
    <3> QED
      BY <2>1, <3>1, <3>4
  <2> QED
    BY <2>2, <2>3
<1> QED
  BY <1>1, PostAlways, PTL

-----------------------------------------------------------------------------
(* Balances: what a request has planned for a place is right unless it knows *)
(* otherwise, and the balance of a place is its register and what the        *)
(* postings under way still owe it.                                          *)

\* The places whose balance request r has written.
Written(r) == {Lines[r.doc][i].place : i \in 1..(IF r.at = "movement" THEN r.i ELSE r.i - 1)}
\* What r has added to the balance of k and not yet registered.
Owes(r, k) ==
  IF r.at \in {"balance", "movement"} /\ k \in Written(r)
  THEN SumFunctionOnSet(Moves(r.doc, k), r.i..Len(Lines[r.doc])) ELSE 0
\* What r is going to add to the balance of k.
Change(r, k) ==
  CASE r.at \in {"balance", "movement"} -> IF k \in Written(r) THEN 0 ELSE SumFunction(Moves(r.doc, k))
    [] r.at \in {"number", "reverse"}   -> IF k \in DOMAIN r.back THEN r.back[k] ELSE 0
    [] OTHER -> 0
\* r is on its way to sign the balance of k.
Signs(r, k) == (Begun(r) \/ r.at \in {"tell", "publish"}) /\ k \in Places(r.doc)

LostOn(k) == Blamed("lost", k)
TornAt(k) == Blamed("torn", k)
UntoldOf(k) == Blamed("untold", k)

PlanRight(p, k) ==
  /\ proc[p].plan[k].qty = stock[k].qty + Change(proc[p], k)
  /\ proc[p].plan[k].res = stock[k].res /\ proc[p].plan[k].row = stock[k].row
PlanInv == \A p \in Proc : proc[p].at \in HoldsStock =>
  \A k \in Place : k \in proc[p].stale \/ PlanRight(p, k)
RowInv == \A k \in Place : ~stock[k].row => stock[k].qty = 0 /\ stock[k].res = 0
Owed(k) == SumFunctionOnSet([p \in Proc |-> Owes(proc[p], k)], Proc)
QtyInv == \A k \in Place : LostOn(k) \/ TornAt(k) \/ stock[k].qty = register[k] + Owed(k)
ToldInv == \A k \in Place : told[k] # stock[k].qty => UntoldOf(k) \/ \E p \in Proc : Signs(proc[p], k)
ResInv == \A k \in Place :
  LostOn(k) \/ (\E d \in Doc : k \in Places(d) /\ RacedOn(d)) \/ stock[k].res = Reserved(k)
StockInv == PlanInv /\ RowInv /\ QtyInv /\ ToldInv /\ ResInv

LEMMA RecordKept ==
  ASSUME NEW q \in Proc, Kept(q), NEW k
  PROVE  /\ Change(proc[q], k)' = Change(proc[q], k) /\ Owes(proc[q], k)' = Owes(proc[q], k)
         /\ Signs(proc[q], k)' <=> Signs(proc[q], k)
<1> SUFFICES ASSUME NEW n, n = proc'[q], NEW r, r = proc[q]
             PROVE  Change(n, k) = Change(r, k) /\ Owes(n, k) = Owes(r, k) /\ (Signs(n, k) <=> Signs(r, k))
  BY DEF Change, Owes, Signs, Written, Begun
<1>1. n.at = r.at /\ n.doc = r.doc /\ n.i = r.i /\ n.back = r.back
  BY DEF Kept
<1>2. Written(n) = Written(r)
  BY <1>1 DEF Written
<1> QED
  BY <1>1, <1>2 DEF Change, Owes, Signs, Begun

LEMMA OwesInt ==
  ASSUME NEW r, Request(r), NEW k
  PROVE  Owes(r, k) \in Int
<1> SUFFICES ASSUME r.at \in {"balance", "movement"}
             PROVE  SumFunctionOnSet(Moves(r.doc, k), r.i..Len(Lines[r.doc])) \in Int
  BY DEF Owes
<1>1. r.doc \in Doc /\ r.i \in DOMAIN Lines[r.doc]
  BY StockAssumption DEF Request, Placed, Typed
<1>2. DOMAIN Lines[r.doc] = 1..Len(Lines[r.doc]) /\ Len(Lines[r.doc]) \in Nat
  BY <1>1, LinesFacts
<1>3. (r.i..Len(Lines[r.doc])) \in SUBSET DOMAIN Lines[r.doc]
  BY <1>1, <1>2
<1> QED
  BY <1>1, <1>3, MovesFacts

\* The balances outside K stay as they are.
LEMMA PlanStep ==
  ASSUME PlanInv, NEW p \in Proc, NEW K, Others(p, K, {}), \A k \in Place \ K : stock'[k] = stock[k],
         proc'[p].at \in HoldsStock => \A k \in Place : k \in proc'[p].stale \/ PlanRight(p, k)'
  PROVE  PlanInv'
<1> SUFFICES ASSUME NEW q \in Proc, proc'[q].at \in HoldsStock, NEW k \in Place, k \notin proc'[q].stale
             PROVE  PlanRight(q, k)'
  BY DEF PlanInv
<1>1. CASE q = p
  BY <1>1
<1>2. CASE q # p
  <2>1. Kept(q) /\ proc[q].at \in HoldsStock /\ k \notin K /\ k \notin proc[q].stale
    BY <1>2 DEF Others, Kept
  <2>2. PlanRight(q, k)
    BY <2>1 DEF PlanInv
  <2>3. Change(proc[q], k)' = Change(proc[q], k) /\ proc'[q].plan = proc[q].plan /\ stock'[k] = stock[k]
    BY <2>1, RecordKept DEF Kept
  <2> QED
    BY <2>2, <2>3 DEF PlanRight
<1> QED
  BY <1>1, <1>2

LEMMA QtyStep ==
  ASSUME TypeInv, TypeInv', QtyInv, NEW p \in Proc, Others(p, {}, {}), cause \subseteq cause',
         \A k \in Place : \/ LostOn(k)' \/ TornAt(k)'
                          \/ stock'[k].qty = stock[k].qty + (register'[k] - register[k])
                                             + (Owes(proc[p], k)' - Owes(proc[p], k))
  PROVE  QtyInv'
<1> SUFFICES ASSUME NEW k \in Place, ~LostOn(k)', ~TornAt(k)'
             PROVE  stock'[k].qty = register'[k] + Owed(k)'
  BY DEF QtyInv
<1> DEFINE f == [q \in Proc |-> Owes(proc[q], k)]
           g == [q \in Proc |-> Owes(proc[q], k)']
<1>1. Owed(k) = SumFunctionOnSet(f, Proc) /\ Owed(k)' = SumFunctionOnSet(g, Proc)
  BY DEF Owed
<1>2. \A q \in Proc : f[q] = Owes(proc[q], k) /\ g[q] = Owes(proc[q], k)'
  OBVIOUS
<1>3. ASSUME NEW q \in Proc
      PROVE  Owes(proc[q], k) \in Int /\ Owes(proc[q], k)' \in Int
  <2>1. Request(proc[q]) /\ Request(proc'[q])
    BY DEF TypeInv, Requests
  <2>2. Owes(proc[q], k) \in Int /\ Owes(proc'[q], k) \in Int
    BY <2>1, OwesInt
  <2>3. Owes(proc[q], k)' = Owes(proc'[q], k)
    BY DEF Owes, Written
  <2> QED
    BY <2>2, <2>3
<1>4. Ints(f, Proc) /\ Ints(g, Proc)
  BY <1>2, <1>3 DEF Ints
<1>5. ASSUME NEW q \in Proc \ {p} PROVE f[q] = g[q]
  <2>1. Kept(q)
    BY DEF Others
  <2> QED
    BY <1>2, <2>1, RecordKept
<1>6. f[p] = Owes(proc[p], k) /\ g[p] = Owes(proc[p], k)' /\ f[p] \in Int /\ g[p] \in Int
  BY <1>2, <1>3
<1>7. IsFiniteSet(Proc)
  BY StockAssumption
<1> HIDE DEF f, g
<1>8. Owed(k)' = Owed(k) - f[p] + g[p] /\ Owed(k) \in Int
  <2>1. SumFunctionOnSet(g, Proc) = SumFunctionOnSet(f, Proc) - f[p] + g[p]
    BY <1>4, <1>5, <1>7, SumChange
  <2>2. SumFunctionOnSet(f, Proc) \in Int
    BY <1>4, <1>7, SumStep
  <2> QED
    BY <1>1, <2>1, <2>2
<1>9. stock[k].qty = register[k] + Owed(k)
  BY DEF QtyInv, LostOn, TornAt, Blamed
<1>10. register[k] \in Int /\ register'[k] \in Int /\ stock[k].qty \in Int
  BY DEF TypeInv, Tables, Balance
<1>11. stock'[k].qty = stock[k].qty + (register'[k] - register[k]) + (g[p] - f[p])
  BY <1>6
<1> QED
  BY <1>6, <1>8, <1>9, <1>10, <1>11

LEMMA ToldStep ==
  ASSUME ToldInv, NEW p \in Proc, Others(p, {}, {}), cause \subseteq cause',
         \A k \in Place : told'[k] # stock'[k].qty =>
           \/ UntoldOf(k)' \/ Signs(proc[p], k)'
           \/ told'[k] = told[k] /\ stock'[k].qty = stock[k].qty /\ ~Signs(proc[p], k)
  PROVE  ToldInv'
<1> SUFFICES ASSUME NEW k \in Place, told'[k] # stock'[k].qty, ~UntoldOf(k)', ~Signs(proc[p], k)'
             PROVE  \E q \in Proc : Signs(proc[q], k)'
  BY DEF ToldInv
<1>1. told[k] # stock[k].qty /\ ~Signs(proc[p], k) /\ ~UntoldOf(k)
  BY DEF UntoldOf, Blamed
<1>2. PICK q \in Proc : Signs(proc[q], k)
  BY <1>1 DEF ToldInv
<1>3. q # p /\ Kept(q)
  BY <1>1, <1>2 DEF Others
<1> QED
  BY <1>2, <1>3, RecordKept

LEMMA ResStep ==
  ASSUME ResInv, cause \subseteq cause', rows' = rows,
         \A k \in Place : LostOn(k)' \/ stock'[k].res = stock[k].res
  PROVE  ResInv'
<1> SUFFICES ASSUME NEW k \in Place, ~LostOn(k)', ~\E d \in Doc : k \in Places(d) /\ RacedOn(d)'
             PROVE  stock'[k].res = Reserved(k)'
  BY DEF ResInv
<1>1. Reserved(k)' = Reserved(k)
  BY DEF Reserved
<1>2. ~LostOn(k) /\ ~\E d \in Doc : k \in Places(d) /\ RacedOn(d)
  BY DEF LostOn, RacedOn, Blamed
<1> QED
  BY <1>1, <1>2 DEF ResInv

\* A step that touches neither the balances nor what is known of them.
LEMMA StockRests ==
  ASSUME TypeInv, TypeInv', StockInv, NEW p \in Proc, Others(p, {}, {}), cause \subseteq cause',
         UNCHANGED <<stock, register, told, rows>>,
         proc'[p].at \in HoldsStock => \A k \in Place : k \in proc'[p].stale \/ PlanRight(p, k)',
         \A k \in Place : \/ TornAt(k)' \/ Owes(proc[p], k)' = Owes(proc[p], k),
         \A k \in Place : Signs(proc[p], k) => Signs(proc[p], k)' \/ UntoldOf(k)'
  PROVE  StockInv'
<1>1. PlanInv' /\ RowInv'
  BY PlanStep DEF StockInv, RowInv
<1>2. QtyInv'
  <2>1. ASSUME NEW k \in Place, ~TornAt(k)'
        PROVE  stock'[k].qty = stock[k].qty + (register'[k] - register[k]) + (Owes(proc[p], k)' - Owes(proc[p], k))
    <3>1. Owes(proc[p], k) \in Int /\ stock[k].qty \in Int /\ register[k] \in Int
      BY OwesInt DEF TypeInv, Requests, Tables, Balance
    <3> QED
      BY <2>1, <3>1
  <2> QED
    BY <2>1, QtyStep DEF StockInv
<1>3. ToldInv'
  BY ToldStep DEF StockInv
<1>4. ResInv'
  BY ResStep DEF StockInv
<1> QED
  BY <1>1, <1>2, <1>3, <1>4 DEF StockInv

-----------------------------------------------------------------------------
(* Steps that have nothing to do with balances.                            *)

Free(r) == r.at \notin {"balance", "movement", "number", "reverse", "publish", "posted", "tell"}

LEMMA FreeFacts ==
  /\ Free(Idle)
  /\ \A n, r, part : Back(n, r, part) => Free(n)
  /\ \A r, k : Free(r) => Owes(r, k) = 0 /\ ~Signs(r, k) /\ r.at \notin HoldsStock
<1>1. \A op, part : After(op, part) \notin {"balance", "movement", "number", "reverse", "publish", "posted", "tell"}
  BY DEF After
<1>2. ASSUME NEW n, NEW r, NEW part, Back(n, r, part) PROVE Free(n)
  BY <1>1, <1>2 DEF Back, Free
<1>3. ASSUME NEW r, NEW k, Free(r) PROVE Owes(r, k) = 0 /\ ~Signs(r, k) /\ r.at \notin HoldsStock
  BY <1>3 DEF Free, Owes, Signs, Begun, HoldsStock
<1> QED
  BY <1>2, <1>3, IdleFacts DEF Free

Apart(p) ==
  /\ Others(p, {}, {}) /\ cause \subseteq cause' /\ UNCHANGED <<stock, register, told, rows>>
  /\ Free(proc[p]) /\ Free(proc'[p])

LEMMA StockApart ==
  ASSUME TypeInv, TypeInv', StockInv, NEW p \in Proc, Apart(p)
  PROVE  StockInv'
<1> SUFFICES ASSUME NEW n, n = proc'[p]
             PROVE  StockInv'
  OBVIOUS
<1>1. proc'[p].at \notin HoldsStock
  BY FreeFacts DEF Apart
<1>2. ASSUME NEW k \in Place
      PROVE  Owes(proc[p], k)' = Owes(proc[p], k) /\ ~Signs(proc[p], k)
  <2>1. Owes(n, k) = 0 /\ Owes(proc[p], k) = 0 /\ ~Signs(proc[p], k)
    BY FreeFacts DEF Apart
  <2>2. Owes(proc[p], k)' = Owes(n, k)
    BY DEF Owes, Written
  <2> QED
    BY <2>1, <2>2
<1> QED
  BY <1>1, <1>2, StockRests DEF Apart

LEMMA ApartReads ==
  ASSUME NEW p \in Proc, Reads(p), Free(proc[p]), Free(proc'[p])
  PROVE  Apart(p)
BY DEF Reads, Apart, tables

LEMMA ApartSteps1 ==
  ASSUME TypeInv, NEW p \in Proc,
         \/ PostHeader(p) \/ PlanHeader(p) \/ CancelHeader(p) \/ EditHeader(p)
         \/ ReverseHeader(p) \/ ReserveHeader(p) \/ ReleaseHeader(p) \/ Load(p) \/ Asks(p)
  PROVE  Apart(p)
<1>1. CASE PostHeader(p)
  <2>1. Reads(p) /\ Free(proc[p]) /\ Free(proc'[p])
    BY <1>1, PostHeaderFacts, FreeFacts DEF Ended, Free, Goes
  <2> QED
    BY <2>1, ApartReads
<1>2. CASE PlanHeader(p)
  <2>1. Reads(p) /\ Free(proc[p]) /\ Free(proc'[p])
    BY <1>2, PlanHeaderFacts, FreeFacts DEF Ended, Free, Goes
  <2> QED
    BY <2>1, ApartReads
<1>3. CASE CancelHeader(p)
  <2>1. Reads(p) /\ Free(proc[p]) /\ Free(proc'[p])
    BY <1>3, CancelHeaderFacts, FreeFacts DEF Ended, Free, Goes
  <2> QED
    BY <2>1, ApartReads
<1>4. CASE EditHeader(p)
  <2>1. Reads(p) /\ Free(proc[p]) /\ Free(proc'[p])
    BY <1>4, EditHeaderFacts, FreeFacts DEF Ended, Free, Goes
  <2> QED
    BY <2>1, ApartReads
<1>5. CASE ReverseHeader(p)
  <2>1. Reads(p) /\ Free(proc[p]) /\ Free(proc'[p])
    BY <1>5, ReverseHeaderFacts, FreeFacts DEF Ended, Free, Goes
  <2> QED
    BY <2>1, ApartReads
<1>6. CASE ReserveHeader(p)
  <2>1. Reads(p) /\ Free(proc[p]) /\ Free(proc'[p])
    BY <1>6, ReserveHeaderFacts, FreeFacts DEF Ended, Free, Goes
  <2> QED
    BY <2>1, ApartReads
<1>7. CASE ReleaseHeader(p)
  <2>1. Reads(p) /\ Free(proc[p]) /\ Free(proc'[p])
    BY <1>7, ReleaseHeaderFacts, FreeFacts DEF Ended, Free, Goes
  <2> QED
    BY <2>1, ApartReads
<1>8. CASE Load(p)
  <2>1. Reads(p) /\ Free(proc[p]) /\ Free(proc'[p])
    BY <1>8, LoadFacts, FreeFacts DEF Ended, Free, Goes, Takes
  <2> QED
    BY <2>1, ApartReads
<1>9. CASE \E d \in Doc, op \in CardOps : AskDoc(p, d, op)
  <2>1. PICK d \in Doc, op \in CardOps : AskDoc(p, d, op)
    BY <1>9
  <2>2. /\ Others(p, {}, {}) /\ UNCHANGED tables /\ cause \subseteq cause' /\ proc[p] = Idle
        /\ proc'[p].at \in {"post", "plan", "cancel", "edit", "reversal"}
    BY <2>1, AskDocFacts
  <2>3. Free(proc[p]) /\ Free(proc'[p])
    BY <2>2, FreeFacts DEF Free
  <2> QED
    BY <2>2, <2>3 DEF Apart, tables
<1>10. CASE \E o \in Order, op \in OrderOps : AskOrder(p, o, op)
  <2>1. PICK o \in Order, op \in OrderOps : AskOrder(p, o, op)
    BY <1>10
  <2>2. Reads(p) /\ proc[p] = Idle /\ proc'[p].at = "load"
    BY <2>1, AskOrderFacts
  <2>3. Free(proc[p]) /\ Free(proc'[p])
    BY <2>2, FreeFacts DEF Free
  <2> QED
    BY <2>2, <2>3, ApartReads
<1> QED
  BY <1>1, <1>2, <1>3, <1>4, <1>5, <1>6, <1>7, <1>8, <1>9, <1>10 DEF Asks

LEMMA ApartSteps2 ==
  ASSUME TypeInv, NEW p \in Proc,
         \/ PlanDone(p) \/ CancelDone(p) \/ Create(p) \/ EditDone(p)
         \/ Link(p) \/ Close(p) \/ Unlink(p)
  PROVE  Apart(p)
<1> DEFINE d == proc[p].doc
<1>1. CASE PlanDone(p)
  <2>1. /\ Others(p, {}, {d}) /\ Blames(p) /\ Heads(p, d)
        /\ Free(proc[p]) /\ Free(proc'[p])
    BY <1>1, PlanDoneFacts, FreeFacts DEF Ended, Free
  <2> QED
    BY <2>1, FewerOthers DEF Heads, Apart, Blames
<1>2. CASE CancelDone(p)
  <2>1. /\ Others(p, {}, {d}) /\ Blames(p) /\ Heads(p, d)
        /\ Free(proc[p]) /\ Free(proc'[p])
    BY <1>2, CancelDoneFacts, FreeFacts DEF Free
  <2> QED
    BY <2>1, FewerOthers DEF Heads, Apart, Blames
<1>3. CASE EditDone(p)
  <2>1. CASE Others(p, {}, {}) /\ UNCHANGED tables /\ cause' = cause /\ Ended(p)
    BY <1>3, <2>1, EditDoneFacts, FreeFacts DEF Apart, tables, Free, Ended
  <2>2. CASE ~(Others(p, {}, {}) /\ UNCHANGED tables /\ cause' = cause /\ Ended(p))
    <3>1. /\ Others(p, {}, {d}) /\ Blames(p) /\ Heads(p, d)
          /\ Free(proc[p]) /\ Free(proc'[p])
      BY <1>3, <2>2, EditDoneFacts, FreeFacts DEF Free
    <3> QED
      BY <3>1, FewerOthers DEF Heads, Apart, Blames
  <2> QED
    BY <2>1, <2>2
<1>4. CASE Create(p)
  <2>1. Others(p, {}, {}) /\ cause' = cause /\ Free(proc[p])
    BY <1>4, CreateFacts DEF Free
  <2>2. Free(proc'[p]) /\ UNCHANGED <<stock, register, told, rows>>
    BY <1>4, CreateFacts, FreeFacts DEF Ended, Free, After, Heads, tables
  <2> QED
    BY <2>1, <2>2 DEF Apart
<1>5. CASE Link(p) \/ Close(p) \/ Unlink(p)
  BY <1>5, SetOrderFacts, FreeFacts DEF Ended, Free, Apart, Blames
<1> QED
  BY <1>1, <1>2, <1>3, <1>4, <1>5

-----------------------------------------------------------------------------
(* Steps that read balances, or leave them.                                *)

\* What a request owes a place after its last written line it owes no more.
LEMMA OwesHalf ==
  ASSUME NEW r, Request(r), NEW k, k \notin Half(r)
  PROVE  Owes(r, k) = 0
<1> SUFFICES ASSUME r.at \in {"balance", "movement"}, k \in Written(r)
             PROVE  SumFunctionOnSet(Moves(r.doc, k), r.i..Len(Lines[r.doc])) = 0
  BY DEF Owes
<1> DEFINE T == r.i..Len(Lines[r.doc])
<1>1. r.doc \in Doc /\ r.i \in DOMAIN Lines[r.doc]
  BY StockAssumption DEF Request, Placed, Typed
<1>2. DOMAIN Lines[r.doc] = 1..Len(Lines[r.doc]) /\ Len(Lines[r.doc]) \in Nat /\ IsFiniteSet(DOMAIN Lines[r.doc])
  BY <1>1, LinesFacts
<1>3. T \subseteq DOMAIN Lines[r.doc]
  BY <1>1, <1>2
<1>4. \A j \in T : Lines[r.doc][j].place # k
  BY DEF Half, Written
<1>5. IsFiniteSet(T) /\ \A j \in T : Moves(r.doc, k)[j] = 0
  BY <1>1, <1>2, <1>3, <1>4, MovesFacts, FS_Subset
<1> HIDE DEF T
<1>6. SumFunctionOnSet(Moves(r.doc, k), T) = SumFunctionOnSet(Moves(r.doc, k), {})
  <2>1. Ints(Moves(r.doc, k), T) /\ {} \in SUBSET T /\ \A j \in T \ {} : Moves(r.doc, k)[j] = 0
    BY <1>5 DEF Ints
  <2> QED
    BY <1>5, <2>1, SumZeros
<1> QED
  BY <1>6, SumEmpty DEF T

LEMMA StockStops ==
  ASSUME TypeInv, TypeInv', StockInv, NEW p \in Proc, Others(p, {}, {}), UNCHANGED tables, Ended(p),
         cause' = cause \cup TornBy(proc[p])
  PROVE  StockInv'
<1>1. proc'[p] = Idle /\ Request(proc[p])
  BY DEF Ended, TypeInv, Requests
<1>2. ASSUME NEW k \in Place
      PROVE  /\ TornAt(k)' \/ Owes(proc[p], k)' = Owes(proc[p], k)
             /\ Signs(proc[p], k) => UntoldOf(k)'
  <2>1. Owes(Idle, k) = 0
    BY FreeFacts
  <2>2. Owes(proc[p], k)' = 0
    BY <1>1, <2>1 DEF Owes, Written
  <2>3. k \in Half(proc[p]) => TornAt(k)'
    BY DEF TornBy, TornAt, Blamed
  <2>4. Signs(proc[p], k) => UntoldOf(k)'
    BY DEF Signs, TornBy, UntoldOf, Blamed
  <2> QED
    BY <1>1, <2>2, <2>3, <2>4, OwesHalf
<1>3. proc'[p].at \notin HoldsStock
  BY <1>1, IdleFacts DEF HoldsStock
<1> QED
  BY <1>2, <1>3, StockRests DEF tables

LEMMA StockPostStock ==
  ASSUME TypeInv, TypeInv', StockInv, NEW p \in Proc, PostStock(p)
  PROVE  StockInv'
<1> SUFFICES ASSUME NEW n, n = proc'[p]
             PROVE  StockInv'
  OBVIOUS
<1>1. Reads(p) /\ Free(proc[p])
  BY PostStockFacts DEF Free
<1>2. CASE Ended(p)
  BY <1>1, <1>2, FreeFacts, ApartReads, StockApart DEF Ended
<1>3. CASE ~Ended(p)
  <2>1. /\ n.at = "balance" /\ n.i = 1 /\ n.doc = proc[p].doc
        /\ \A k \in Place : Plans(n, k, SumFunction(Moves(n.doc, k)))
    BY <1>3, PostStockFacts DEF Goes
  <2>2. Written(n) = {}
    BY <2>1 DEF Written
  <2>3. ASSUME NEW k \in Place
        PROVE  /\ PlanRight(p, k)' /\ ~Signs(proc[p], k)
               /\ Owes(proc[p], k)' = Owes(proc[p], k)
    <3>1. Change(n, k) = SumFunction(Moves(n.doc, k)) /\ Owes(n, k) = 0
      BY <2>1, <2>2 DEF Change, Owes
    <3>2. Change(proc[p], k)' = Change(n, k) /\ Owes(proc[p], k)' = Owes(n, k)
      BY DEF Change, Owes, Written
    <3>3. stock' = stock /\ Plans(n, k, Change(n, k))
      BY <1>1, <2>1, <3>1 DEF Reads, tables
    <3>4. PlanRight(p, k)'
      BY <3>2, <3>3 DEF PlanRight, Plans
    <3> QED
      BY <1>1, <3>1, <3>2, <3>4, FreeFacts
  <2> QED
    BY <1>1, <2>3, StockRests DEF Reads, tables
<1> QED
  BY <1>2, <1>3

LEMMA StockTell ==
  ASSUME TypeInv, TypeInv', StockInv, NEW p \in Proc, Tell(p)
  PROVE  StockInv'
<1> SUFFICES ASSUME NEW n, n = proc'[p]
             PROVE  StockInv'
  OBVIOUS
<1>1. /\ Reads(p) /\ proc[p].at = "tell" /\ n.at = "publish" /\ n.plan = stock /\ n.doc = proc[p].doc
  BY TellFacts DEF Goes
<1>2. ASSUME NEW k \in Place
      PROVE  /\ PlanRight(p, k)' /\ (Signs(proc[p], k) => Signs(proc[p], k)')
             /\ Owes(proc[p], k)' = Owes(proc[p], k)
  <2>1. Change(n, k) = 0 /\ Owes(n, k) = 0 /\ Owes(proc[p], k) = 0
    BY <1>1 DEF Change, Owes
  <2>2. Change(proc[p], k)' = Change(n, k) /\ Owes(proc[p], k)' = Owes(n, k)
    BY DEF Change, Owes, Written
  <2>3. stock' = stock /\ stock[k].qty \in Int
    BY <1>1 DEF Reads, tables, TypeInv, Tables, Balance
  <2>4. PlanRight(p, k)'
    BY <1>1, <2>1, <2>2, <2>3 DEF PlanRight
  <2>5. Signs(proc[p], k) => Signs(proc[p], k)'
    BY <1>1 DEF Signs
  <2> QED
    BY <2>1, <2>2, <2>4, <2>5
<1> QED
  BY <1>1, <1>2, StockRests DEF Reads, tables

LEMMA StockReverseStock ==
  ASSUME TypeInv, TypeInv', StockInv, NEW p \in Proc, ReverseStock(p)
  PROVE  StockInv'
<1> SUFFICES ASSUME NEW n, n = proc'[p]
             PROVE  StockInv'
  OBVIOUS
<1>1. Reads(p) /\ Free(proc[p])
  BY ReverseStockFacts DEF Free
<1>2. CASE Ended(p)
  BY <1>1, <1>2, FreeFacts, ApartReads, StockApart DEF Ended
<1>3. CASE ~Ended(p)
  <2>1. /\ n.at = "number" /\ n.doc = proc[p].doc
        /\ \A k \in Place : Plans(n, k, IF k \in DOMAIN n.back THEN n.back[k] ELSE 0)
    BY <1>3, ReverseStockFacts DEF Goes
  <2>2. ASSUME NEW k \in Place
        PROVE  /\ PlanRight(p, k)' /\ ~Signs(proc[p], k)
               /\ Owes(proc[p], k)' = Owes(proc[p], k)
    <3>1. (Change(n, k) = IF k \in DOMAIN n.back THEN n.back[k] ELSE 0) /\ Owes(n, k) = 0
      BY <2>1 DEF Change, Owes
    <3>2. Change(proc[p], k)' = Change(n, k) /\ Owes(proc[p], k)' = Owes(n, k)
      BY DEF Change, Owes, Written
    <3>3. stock' = stock /\ Plans(n, k, Change(n, k))
      BY <1>1, <2>1, <3>1 DEF Reads, tables
    <3>4. PlanRight(p, k)'
      BY <3>2, <3>3 DEF PlanRight, Plans
    <3> QED
      BY <1>1, <3>1, <3>2, <3>4, FreeFacts
  <2> QED
    BY <1>1, <2>2, StockRests DEF Reads, tables
<1> QED
  BY <1>2, <1>3

LEMMA StockReverseNumber ==
  ASSUME TypeInv, TypeInv', StockInv, NEW p \in Proc, ReverseNumber(p)
  PROVE  StockInv'
<1> SUFFICES ASSUME NEW n, n = proc'[p], NEW r, r = proc[p]
             PROVE  StockInv'
  OBVIOUS
<1>1. /\ Reads(p) /\ r.at = "number" /\ n.at = "reverse" /\ n.plan = r.plan /\ n.back = r.back
      /\ n.stale = r.stale
  BY ReverseNumberFacts DEF Goes
<1>2. ASSUME NEW k \in Place
      PROVE  /\ k \in n.stale \/ PlanRight(p, k)'
             /\ ~Signs(proc[p], k) /\ Owes(proc[p], k)' = Owes(proc[p], k)
  <2>1. Change(n, k) = Change(r, k) /\ Owes(n, k) = 0 /\ Owes(r, k) = 0 /\ ~Signs(r, k)
    BY <1>1 DEF Change, Owes, Signs, Begun
  <2>2. Change(proc[p], k)' = Change(n, k) /\ Owes(proc[p], k)' = Owes(n, k)
    BY DEF Change, Owes, Written
  <2>3. stock' = stock
    BY <1>1 DEF Reads, tables
  <2>4. k \in r.stale \/ PlanRight(p, k)
    BY <1>1 DEF StockInv, PlanInv, HoldsStock
  <2>5. k \in n.stale \/ PlanRight(p, k)'
    BY <1>1, <2>1, <2>2, <2>3, <2>4 DEF PlanRight
  <2> QED
    BY <2>1, <2>2, <2>5
<1> QED
  BY <1>1, <1>2, StockRests DEF Reads, tables

LEMMA StockPostDone ==
  ASSUME TypeInv, TypeInv', StockInv, NEW p \in Proc, PostDone(p)
  PROVE  StockInv'
<1> SUFFICES ASSUME NEW n, n = proc'[p]
             PROVE  StockInv'
  OBVIOUS
<1>1. /\ Others(p, {}, {}) /\ cause \subseteq cause' /\ UNCHANGED <<stock, register, told, rows>>
      /\ proc[p].at = "posted" /\ n.at = "tell" /\ n.doc = proc[p].doc
  BY PostDoneFacts, FewerOthers DEF Blames, Heads
<1>2. ASSUME NEW k \in Place
      PROVE  /\ Owes(proc[p], k)' = Owes(proc[p], k) /\ (Signs(proc[p], k) => Signs(proc[p], k)')
  <2>1. Owes(n, k) = 0 /\ Owes(proc[p], k) = 0
    BY <1>1 DEF Owes
  <2>2. Owes(proc[p], k)' = Owes(n, k)
    BY DEF Owes, Written
  <2>3. Signs(proc[p], k) => Signs(proc[p], k)'
    BY <1>1 DEF Signs
  <2> QED
    BY <2>1, <2>2, <2>3
<1>3. proc'[p].at \notin HoldsStock
  BY <1>1 DEF HoldsStock
<1> QED
  BY <1>1, <1>2, <1>3, StockRests

-----------------------------------------------------------------------------
(* Steps of a posting that write a balance or a movement.                  *)

LEMMA SomeLines ==
  ASSUME NEW d \in Doc, NEW T \in SUBSET DOMAIN Lines[d]
  PROVE  IsFiniteSet(T)
<1>1. IsFiniteSet(DOMAIN Lines[d])
  BY LinesFacts
<1> QED
  BY <1>1, FS_Subset

\* The movement registered is no longer owed.
Pays(r, n, k) ==
  /\ Moves(r.doc, k)[r.i] \in Int /\ Owes(r, k) \in Int
  /\ Owes(n, k) = Owes(r, k) - Moves(r.doc, k)[r.i]
  /\ n.at = "balance" => Written(n) = Written(r)

LEMMA OwesStep ==
  ASSUME NEW r, NEW n, r.doc \in Doc, n.doc = r.doc, r.at = "movement", r.i \in DOMAIN Lines[r.doc],
         \/ n.at = "posted" /\ r.i = Len(Lines[r.doc])
         \/ n.at = "balance" /\ n.i = r.i + 1,
         NEW k
  PROVE  Pays(r, n, k)
<1> SUFFICES ASSUME NEW d \in Doc, d = r.doc, NEW f, f = Moves(d, k), NEW i, i = r.i, NEW len, len = Len(Lines[d])
             PROVE  /\ f[i] \in Int /\ Owes(r, k) \in Int /\ Owes(n, k) = Owes(r, k) - f[i]
                    /\ n.at = "balance" => Written(n) = Written(r)
  BY DEF Pays
<1>1. len \in Nat /\ DOMAIN Lines[d] = 1..len /\ i \in 1..len /\ IsFiniteSet(1..len)
  BY LinesFacts
<1>2. /\ Ints(f, 1..len) /\ f[i] \in Int
      /\ f[i] = IF Lines[d][i].place = k THEN Lines[d][i].delta ELSE 0
  BY <1>1, MovesFacts DEF Ints
<1>3. n.at = "balance" => n.i - 1 = i
  BY <1>1
<1>4. /\ Written(r) = {Lines[d][j].place : j \in 1..i}
      /\ n.at = "balance" => Written(n) = {Lines[d][j].place : j \in 1..i}
  BY <1>3 DEF Written
<1>5. CASE k \notin Written(r)
  <2>1. Lines[d][i].place # k
    BY <1>1, <1>4, <1>5
  <2>2. Owes(r, k) = 0 /\ Owes(n, k) = 0
    BY <1>4, <1>5 DEF Owes
  <2> QED
    BY <1>2, <1>4, <2>1, <2>2
<1>6. CASE k \in Written(r)
  <2> DEFINE S == i..len
             T == (i + 1)..len
  <2>1. S \subseteq 1..len /\ i \in S /\ S \ {i} = T
    BY <1>1
  <2>2. IsFiniteSet(S) /\ Ints(f, S)
    <3>1. Ints(f, S)
      BY <1>2, <2>1 DEF Ints
    <3>2. IsFiniteSet(S)
      BY <1>1, <2>1, SomeLines
    <3> QED
      BY <3>1, <3>2
  <2> HIDE DEF S, T
  <2>3. SumFunctionOnSet(f, S) = f[i] + SumFunctionOnSet(f, T) /\ SumFunctionOnSet(f, S) \in Int
    BY <2>1, <2>2, SumStep
  <2>4. SumFunctionOnSet(f, T) \in Int
    <3>1. IsFiniteSet(T) /\ Ints(f, T)
      BY <2>1, <2>2, FS_Subset DEF Ints
    <3> QED
      BY <3>1, SumStep
  <2>5. Owes(r, k) = SumFunctionOnSet(f, S)
    BY <1>6 DEF Owes, S
  <2>6. Owes(n, k) = SumFunctionOnSet(f, T)
    <3>1. CASE n.at = "balance"
      BY <1>4, <1>6, <3>1 DEF Owes, T
    <3>2. CASE n.at = "posted"
      <4>1. T = {} /\ Owes(n, k) = 0
        BY <1>1, <3>2 DEF Owes, T
      <4> QED
        BY <4>1, SumEmpty
    <3> QED
      BY <3>1, <3>2
  <2> QED
    BY <1>2, <1>4, <2>3, <2>4, <2>5, <2>6, SMTT(20)
<1> QED
  BY <1>5, <1>6

LEMMA StockPostMovement ==
  ASSUME TypeInv, TypeInv', StockInv, NEW p \in Proc, PostMovement(p)
  PROVE  StockInv'
<1> SUFFICES ASSUME NEW n, n = proc'[p], NEW r, r = proc[p]
             PROVE  StockInv'
  OBVIOUS
<1>1. /\ Others(p, {}, {}) /\ cause \subseteq cause' /\ r.at = "movement" /\ UNCHANGED <<rows, stock, told>>
      /\ n.doc = r.doc /\ n.plan = r.plan /\ n.stale = r.stale
      /\ (n.at = "posted" /\ r.i = Len(Lines[r.doc])) \/ (n.at = "balance" /\ n.i = r.i + 1)
  BY PostMovementFacts, FewerOthers DEF Blames
<1>2. r.doc \in Doc /\ r.i \in DOMAIN Lines[r.doc] /\ DOMAIN Lines[r.doc] \subseteq Nat \ {0}
  <2>1. r.doc \in Doc /\ r.i \in DOMAIN Lines[r.doc]
    BY <1>1, ProcFacts DEF Placed
  <2> QED
    BY <2>1, LinesFacts
<1>3. ASSUME NEW k \in Place
      PROVE  /\ register'[k] = register[k] + Moves(r.doc, k)[r.i]
             /\ Moves(r.doc, k)[r.i] \in Int /\ Owes(r, k) \in Int
             /\ Owes(n, k) = Owes(r, k) - Moves(r.doc, k)[r.i]
             /\ n.at = "balance" => Written(n) = Written(r)
  <2>1. /\ Moves(r.doc, k)[r.i] \in Int /\ Owes(r, k) \in Int
        /\ Owes(n, k) = Owes(r, k) - Moves(r.doc, k)[r.i]
        /\ n.at = "balance" => Written(n) = Written(r)
    <3>1. Pays(r, n, k)
      BY <1>1, <1>2, OwesStep
    <3> QED
      BY <3>1 DEF Pays
  <2>2. Moves(r.doc, k)[r.i] = IF Lines[r.doc][r.i].place = k THEN Lines[r.doc][r.i].delta ELSE 0
    BY <1>2, MovesFacts
  <2>3. /\ register'[Line(r).place] = register[Line(r).place] + Line(r).delta
        /\ \A j \in Place \ {Line(r).place} : register'[j] = register[j]
    BY PostMovementFacts
  <2>4. register[k] \in Int
    BY DEF TypeInv, Tables
  <2>5. Line(r).place = Lines[r.doc][r.i].place /\ Line(r).delta = Lines[r.doc][r.i].delta
    BY DEF Line
  <2>6. register'[k] = register[k] + Moves(r.doc, k)[r.i]
    <3>1. CASE Line(r).place = k
      BY <2>2, <2>3, <2>5, <3>1
    <3>2. CASE Line(r).place # k
      <4>1. Moves(r.doc, k)[r.i] = 0
        BY <2>2, <2>5, <3>2
      <4>2. register'[k] = register[k]
        BY <2>3, <3>2
      <4>3. register[k] = register[k] + 0
        BY <2>4
      <4> QED
        BY <4>1, <4>2, <4>3
    <3> QED
      BY <3>1, <3>2
  <2> QED
    BY <2>1, <2>6
<1>4. ASSUME NEW k \in Place
      PROVE  Owes(proc[p], k)' = Owes(n, k) /\ Change(proc[p], k)' = Change(n, k) /\ (Signs(proc[p], k)' <=> Signs(n, k))
  BY DEF Owes, Written, Change, Signs, Begun
<1>5. PlanInv'
  <2>1. ASSUME n.at \in HoldsStock, NEW k \in Place PROVE k \in n.stale \/ PlanRight(p, k)'
    <3>1. n.at = "balance"
      BY <1>1, <2>1 DEF HoldsStock
    <3>2. Change(n, k) = Change(r, k)
      BY <1>1, <1>3, <3>1 DEF Change
    <3>3. k \in r.stale \/ PlanRight(p, k)
      BY <1>1 DEF StockInv, PlanInv, HoldsStock
    <3> QED
      BY <1>1, <1>4, <3>2, <3>3 DEF PlanRight
  <2> QED
    BY <1>1, <2>1, PlanStep DEF StockInv
<1>6. QtyInv'
  <2>1. ASSUME NEW k \in Place
        PROVE  stock'[k].qty = stock[k].qty + (register'[k] - register[k]) + (Owes(proc[p], k)' - Owes(proc[p], k))
    <3>1. stock'[k] = stock[k] /\ stock[k].qty \in Int /\ register[k] \in Int
      BY <1>1 DEF TypeInv, Tables, Balance
    <3> QED
      BY <1>3, <1>4, <3>1
  <2> QED
    BY <1>1, <2>1, QtyStep DEF StockInv
<1>7. ToldInv'
  <2>1. ASSUME NEW k \in Place
        PROVE  Signs(proc[p], k) => Signs(proc[p], k)'
    <3>1. Begun(n)
      BY <1>1, <1>2 DEF Begun
    <3> QED
      BY <1>1, <1>4, <3>1 DEF Signs
  <2> QED
    BY <1>1, <2>1, ToldStep DEF StockInv
<1>8. RowInv' /\ ResInv'
  BY <1>1, ResStep DEF StockInv, RowInv
<1> QED
  BY <1>5, <1>6, <1>7, <1>8 DEF StockInv

LEMMA StockPublish ==
  ASSUME TypeInv, TypeInv', StockInv, NEW p \in Proc, Publish(p)
  PROVE  StockInv'
<1> SUFFICES ASSUME NEW n, n = proc'[p], NEW r, r = proc[p]
             PROVE  StockInv'
  OBVIOUS
<1>1. /\ Others(p, {}, {}) /\ cause \subseteq cause' /\ r.at = "publish" /\ UNCHANGED <<rows, stock, register>>
      /\ (\A k \in Place \ Places(r.doc) : told'[k] = told[k])
      /\ \A k \in Places(r.doc) : told'[k] = r.plan[k].qty /\ (k \in r.stale => UntoldOf(k)')
  BY PublishFacts DEF UntoldOf, Blamed
<1>2. Free(n)
  BY PublishFacts, FreeFacts DEF Ended
<1>3. ASSUME NEW k \in Place
      PROVE  Owes(proc[p], k)' = 0 /\ Owes(proc[p], k) = 0
  <2>1. Owes(n, k) = 0
    BY <1>2, FreeFacts
  <2>2. Owes(proc[p], k)' = Owes(n, k)
    BY DEF Owes, Written
  <2> QED
    BY <1>1, <2>1, <2>2 DEF Owes
<1>4. PlanInv'
  <2>1. n.at \notin HoldsStock
    BY <1>2 DEF Free, HoldsStock
  <2> QED
    BY <1>1, <2>1, PlanStep DEF StockInv
<1>5. QtyInv'
  <2>1. ASSUME NEW k \in Place
        PROVE  stock'[k].qty = stock[k].qty + (register'[k] - register[k]) + (Owes(proc[p], k)' - Owes(proc[p], k))
    <3>1. stock'[k] = stock[k] /\ register'[k] = register[k] /\ stock[k].qty \in Int /\ register[k] \in Int
      BY <1>1 DEF TypeInv, Tables, Balance
    <3> QED
      BY <1>3, <3>1
  <2> QED
    BY <1>1, <2>1, QtyStep DEF StockInv
<1>6. ToldInv'
  <2>1. ASSUME NEW k \in Place, told'[k] # stock'[k].qty, ~UntoldOf(k)'
        PROVE  told'[k] = told[k] /\ stock'[k].qty = stock[k].qty /\ ~Signs(proc[p], k)
    <3>1. stock'[k] = stock[k]
      BY <1>1
    <3>2. k \notin Places(r.doc)
      <4> SUFFICES ASSUME k \in Places(r.doc) PROVE FALSE
        OBVIOUS
      <4>1. told'[k] = r.plan[k].qty /\ k \notin r.stale
        BY <1>1, <2>1
      <4>2. PlanRight(p, k)
        BY <1>1, <4>1 DEF StockInv, PlanInv, HoldsStock
      <4>3. Change(r, k) = 0 /\ stock[k].qty \in Int
        BY <1>1 DEF Change, TypeInv, Tables, Balance
      <4> QED
        BY <2>1, <3>1, <4>1, <4>2, <4>3 DEF PlanRight
    <3> QED
      BY <1>1, <3>1, <3>2 DEF Signs
  <2> QED
    BY <1>1, <2>1, ToldStep DEF StockInv
<1>7. RowInv' /\ ResInv'
  BY <1>1, ResStep DEF StockInv, RowInv
<1> QED
  BY <1>4, <1>5, <1>6, <1>7 DEF StockInv

LEMMA StockPostBalance ==
  ASSUME TypeInv, TypeInv', StockInv, NEW p \in Proc, PostBalance(p)
  PROVE  StockInv'
<1> SUFFICES ASSUME NEW n, n = proc'[p], NEW r, r = proc[p], NEW j, j = Line(r).place
             PROVE  StockInv'
  OBVIOUS
<1>1. r.at = "balance" /\ j \in Place
  BY PostBalanceFacts
<1>2. CASE Others(p, {}, {}) /\ UNCHANGED tables /\ Ended(p) /\ cause' = cause \cup TornBy(proc[p])
  BY <1>2, StockStops
<1>3. CASE Books(p, j)
  <2>1. /\ Others(p, {j}, {}) /\ UNCHANGED <<rows, register, told>>
        /\ cause \subseteq cause' /\ (j \in r.stale => LostOn(j)')
        /\ (\A k \in Place \ {j} : stock'[k] = stock[k] /\ n.plan[k] = r.plan[k])
        /\ stock'[j].qty = r.plan[j].qty /\ stock'[j].res = r.plan[j].res /\ stock'[j].row = TRUE
        /\ n.plan[j] = stock'[j] /\ n.at = "movement" /\ n.doc = r.doc /\ n.i = r.i /\ n.stale = r.stale \ {j}
    BY <1>3 DEF Books, LostOn, Blamed
  <2>2. /\ r.doc \in Doc /\ r.i \in DOMAIN Lines[r.doc] /\ DOMAIN Lines[r.doc] = 1..Len(Lines[r.doc])
        /\ Len(Lines[r.doc]) \in Nat
    <3>1. r.doc \in Doc /\ r.i \in DOMAIN Lines[r.doc]
      BY <1>1, ProcFacts DEF Placed
    <3> QED
      BY <3>1, LinesFacts
  <2>3. /\ Written(n) = Written(r) \cup {j} /\ j \in Places(r.doc)
        /\ j \notin Written(r) => \A i \in DOMAIN Lines[r.doc] \ (r.i..Len(Lines[r.doc])) : Lines[r.doc][i].place # j
    <3>1. Written(n) = {Lines[r.doc][i].place : i \in 1..r.i} /\ Written(r) = {Lines[r.doc][i].place : i \in 1..(r.i - 1)}
      BY <1>1, <2>1 DEF Written
    <3>2. 1..r.i = (1..(r.i - 1)) \cup {r.i} /\ j = Lines[r.doc][r.i].place
      BY <2>2 DEF Line
    <3> QED
      BY <2>2, <3>1, <3>2, SMTT(60) DEF Places
  <2>4. ASSUME NEW k \in Place
        PROVE  Owes(proc[p], k)' = Owes(n, k) /\ Change(proc[p], k)' = Change(n, k) /\ (Signs(proc[p], k)' <=> Signs(n, k))
    BY DEF Owes, Written, Change, Signs, Begun
  <2>5. ASSUME NEW k \in Place \ {j}
        PROVE  Owes(n, k) = Owes(r, k) /\ Change(n, k) = Change(r, k)
    BY <1>1, <2>1, <2>3 DEF Owes, Change
  <2>6. Change(n, j) = 0 /\ Owes(n, j) = Owes(r, j) + Change(r, j) /\ Owes(r, j) \in Int /\ Change(r, j) \in Int
    <3> DEFINE s == SumFunctionOnSet(Moves(r.doc, j), r.i..Len(Lines[r.doc]))
    <3>1. Change(n, j) = 0 /\ Owes(n, j) = s
      BY <2>1, <2>3 DEF Change, Owes
    <3>2. (r.i..Len(Lines[r.doc])) \in SUBSET DOMAIN Lines[r.doc]
      BY <2>2
    <3>3. s \in Int
      BY <2>2, <3>2, MovesFacts
    <3>4. CASE j \in Written(r)
      BY <1>1, <3>1, <3>3, <3>4 DEF Owes, Change
    <3>5. CASE j \notin Written(r)
      <4>1. s = SumFunction(Moves(r.doc, j))
        BY <2>2, <2>3, <3>2, <3>5, PartOfLines
      <4>2. Owes(r, j) = 0 /\ Change(r, j) = SumFunction(Moves(r.doc, j))
        BY <1>1, <3>5 DEF Owes, Change
      <4> HIDE DEF s
      <4> QED
        BY <3>1, <3>3, <4>1, <4>2
    <3> QED
      BY <3>4, <3>5
  <2>7. j \notin r.stale => PlanRight(p, j)
    BY <1>1 DEF StockInv, PlanInv, HoldsStock
  <2>8. Others(p, {}, {})
    BY <2>1, FewerOthers
  <2>9. PlanInv'
    <3>1. ASSUME NEW k \in Place PROVE k \in n.stale \/ PlanRight(p, k)'
      <4>1. CASE k = j
        <5>1. stock'[j].qty \in Int
          BY <1>1 DEF TypeInv, Tables, Balance
        <5> QED
          BY <1>1, <2>1, <2>4, <2>6, <4>1, <5>1 DEF PlanRight
      <4>2. CASE k # j
        <5>1. k \in r.stale \/ PlanRight(p, k)
          BY <1>1 DEF StockInv, PlanInv, HoldsStock
        <5> QED
          BY <2>1, <2>4, <2>5, <4>2, <5>1 DEF PlanRight
      <4> QED
        BY <4>1, <4>2
    <3> QED
      BY <2>1, <3>1, PlanStep DEF StockInv
  <2>10. RowInv'
    <3> SUFFICES ASSUME NEW k \in Place, ~stock'[k].row PROVE stock'[k].qty = 0 /\ stock'[k].res = 0
      BY DEF RowInv
    <3>1. k # j
      BY <2>1
    <3> QED
      BY <2>1, <3>1 DEF StockInv, RowInv
  <2>11. QtyInv'
    <3>1. ASSUME NEW k \in Place, ~LostOn(k)'
          PROVE  stock'[k].qty = stock[k].qty + (register'[k] - register[k]) + (Owes(proc[p], k)' - Owes(proc[p], k))
      <4>1. stock[k].qty \in Int /\ register'[k] = register[k] /\ register[k] \in Int /\ Owes(r, k) \in Int
        BY <2>1, ProcFacts, OwesInt DEF TypeInv, Tables, Balance
      <4>2. CASE k = j
        <5>1. stock'[j].qty = stock[j].qty + Change(r, j)
          BY <2>1, <2>7, <3>1, <4>2 DEF PlanRight
        <5> QED
          BY <2>4, <2>6, <4>1, <4>2, <5>1
      <4>3. CASE k # j
        BY <2>1, <2>4, <2>5, <4>1, <4>3
      <4> QED
        BY <4>2, <4>3
    <3> QED
      BY <2>1, <2>8, <3>1, QtyStep DEF StockInv
  <2>12. ToldInv'
    <3>1. ASSUME NEW k \in Place
          PROVE  /\ Signs(proc[p], k) => Signs(proc[p], k)'
                 /\ k # j => told'[k] = told[k] /\ stock'[k].qty = stock[k].qty
                 /\ k = j => Signs(proc[p], k)'
      BY <2>1, <2>3, <2>4 DEF Signs, Begun
    <3> QED
      BY <2>1, <2>8, <3>1, ToldStep DEF StockInv
  <2>13. ResInv'
    <3>1. ASSUME NEW k \in Place PROVE LostOn(k)' \/ stock'[k].res = stock[k].res
      BY <2>1, <2>7 DEF PlanRight
    <3> QED
      BY <2>1, <3>1, ResStep DEF StockInv
  <2> QED
    BY <2>9, <2>10, <2>11, <2>12, <2>13 DEF StockInv
<1> QED
  BY <1>2, <1>3, PostBalanceFacts

-----------------------------------------------------------------------------
(* Transactions that write several balances.                               *)

\* What a reversal writes of the balances.
ReversedStock(p, d) ==
  LET r == proc[p]
      K == DOMAIN r.back IN
  /\ Others(p, K, {d}) /\ cause \subseteq cause' /\ UNCHANGED <<rows, told>> /\ K \subseteq Places(d)
  /\ \A k \in Place \ K : stock'[k] = stock[k] /\ register'[k] = register[k]
  /\ \A k \in K : /\ stock'[k].qty = r.plan[k].qty /\ stock'[k].res = r.plan[k].res
                  /\ stock'[k].row = TRUE /\ register'[k] = register[k] + r.back[k]
                  /\ k \in r.stale => LostOn(k)'
  /\ proc'[p].at = "tell" /\ proc'[p].doc = d

LEMMA ReversedStockFacts ==
  ASSUME TypeInv, NEW p \in Proc, ReverseDone(p)
  PROVE  \/ Others(p, {}, {}) /\ UNCHANGED tables /\ cause' = cause /\ Ended(p)
         \/ ReversedStock(p, proc[p].doc)
<1> SUFFICES ASSUME ~(Others(p, {}, {}) /\ UNCHANGED tables /\ cause' = cause /\ Ended(p))
             PROVE  ReversedStock(p, proc[p].doc)
  OBVIOUS
<1> QED
  BY ReverseDoneFacts DEF ReversedStock, Blames, LostOn, Blamed

LEMMA StockReverseDone ==
  ASSUME TypeInv, TypeInv', StockInv, NEW p \in Proc, ReverseDone(p)
  PROVE  StockInv'
<1> SUFFICES ASSUME NEW n, n = proc'[p], NEW r, r = proc[p], NEW d, d = proc[p].doc, NEW K, K = DOMAIN r.back
             PROVE  StockInv'
  OBVIOUS
<1>1. /\ r.at = "reverse" /\ d \in Doc /\ K \subseteq Place /\ r.back \in [K -> Int]
  BY ReverseDoneFacts, ProcFacts DEF Typed
<1>2. ASSUME NEW k \in Place
      PROVE  /\ Owes(proc[p], k) = 0 /\ ~Signs(proc[p], k)
             /\ Owes(proc[p], k)' = Owes(n, k) /\ (Signs(proc[p], k)' <=> Signs(n, k))
  BY <1>1 DEF Owes, Written, Signs, Begun
<1>3. CASE Others(p, {}, {}) /\ UNCHANGED tables /\ cause' = cause /\ Ended(p)
  <2>1. n = Idle /\ Idle.at \notin HoldsStock
    BY <1>3, FreeFacts DEF Ended, HoldsStock
  <2>2. ASSUME NEW k \in Place PROVE Owes(proc[p], k)' = Owes(proc[p], k) /\ ~Signs(proc[p], k)
    BY <1>2, <2>1, FreeFacts
  <2> QED
    BY <1>3, <2>1, <2>2, StockRests DEF tables
<1>4. CASE ReversedStock(p, d)
  <2>1. /\ Others(p, K, {d}) /\ cause \subseteq cause' /\ UNCHANGED <<rows, told>> /\ K \subseteq Places(d)
        /\ (\A k \in Place \ K : stock'[k] = stock[k] /\ register'[k] = register[k])
        /\ (\A k \in K : /\ stock'[k].qty = r.plan[k].qty /\ stock'[k].res = r.plan[k].res
                         /\ stock'[k].row = TRUE /\ register'[k] = register[k] + r.back[k]
                         /\ k \in r.stale => LostOn(k)')
        /\ n.at = "tell" /\ n.doc = d
    BY <1>4 DEF ReversedStock
  <2>2. Others(p, {}, {}) /\ Others(p, K, {})
    BY <2>1, FewerOthers DEF Others
  <2>3. ASSUME NEW k \in K, k \notin r.stale
        PROVE  stock'[k].qty = stock[k].qty + r.back[k] /\ stock'[k].res = stock[k].res
    <3>1. PlanRight(p, k)
      BY <1>1, <2>3 DEF StockInv, PlanInv, HoldsStock
    <3>2. Change(r, k) = r.back[k]
      BY <1>1 DEF Change
    <3> QED
      BY <2>1, <3>1, <3>2 DEF PlanRight
  <2>4. PlanInv'
    <3>1. n.at \notin HoldsStock
      BY <2>1 DEF HoldsStock
    <3> QED
      BY <2>1, <2>2, <3>1, PlanStep DEF StockInv
  <2>5. RowInv'
    <3> SUFFICES ASSUME NEW k \in Place, ~stock'[k].row PROVE stock'[k].qty = 0 /\ stock'[k].res = 0
      BY DEF RowInv
    <3>1. k \notin K
      BY <2>1
    <3> QED
      BY <2>1, <3>1 DEF StockInv, RowInv
  <2>6. QtyInv'
    <3>1. ASSUME NEW k \in Place, ~LostOn(k)'
          PROVE  stock'[k].qty = stock[k].qty + (register'[k] - register[k]) + (Owes(proc[p], k)' - Owes(proc[p], k))
      <4>1. stock[k].qty \in Int /\ register[k] \in Int
        BY DEF TypeInv, Tables, Balance
      <4>2. Owes(proc[p], k)' = 0 /\ Owes(proc[p], k) = 0
        BY <1>2, <2>1 DEF Owes
      <4>3. CASE k \in K
        <5>1. stock'[k].qty = stock[k].qty + r.back[k] /\ register'[k] = register[k] + r.back[k]
          BY <2>1, <2>3, <3>1, <4>3
        <5>2. r.back[k] \in Int
          BY <1>1, <4>3
        <5> QED
          BY <4>1, <4>2, <5>1, <5>2
      <4>4. CASE k \notin K
        BY <2>1, <4>1, <4>2, <4>4
      <4> QED
        BY <4>3, <4>4
    <3> QED
      BY <2>1, <2>2, <3>1, QtyStep DEF StockInv
  <2>7. ToldInv'
    <3>1. ASSUME NEW k \in Place
          PROVE  \/ Signs(proc[p], k)'
                 \/ told'[k] = told[k] /\ stock'[k].qty = stock[k].qty /\ ~Signs(proc[p], k)
      <4>1. CASE k \in K
        BY <1>2, <2>1, <4>1 DEF Signs
      <4>2. CASE k \notin K
        BY <1>2, <2>1, <4>2
      <4> QED
        BY <4>1, <4>2
    <3> QED
      BY <2>1, <2>2, <3>1, ToldStep DEF StockInv
  <2>8. ResInv'
    <3>1. ASSUME NEW k \in Place PROVE LostOn(k)' \/ stock'[k].res = stock[k].res
      BY <2>1, <2>3
    <3> QED
      BY <2>1, <3>1, ResStep DEF StockInv
  <2> QED
    BY <2>4, <2>5, <2>6, <2>7, <2>8 DEF StockInv
<1> QED
  BY <1>3, <1>4, ReversedStockFacts

-----------------------------------------------------------------------------
(* Reservations.                                                           *)

\* The reservation of one document changes: so does what is reserved.
LEMMA ReservedFacts ==
  ASSUME Tables, NEW k
  PROVE  /\ Reserved(k) \in Nat
         /\ \A d \in Doc : Active(d) => Needs(d, k) <= Reserved(k)
<1> DEFINE f == [d \in Doc |-> IF rows[d] = "active" THEN Needs(d, k) ELSE 0]
<1>1. \A d \in Doc : f[d] \in Nat /\ (Active(d) => f[d] = Needs(d, k))
  BY NeedsFacts DEF Active
<1>2. Reserved(k) = SumFunctionOnSet(f, Doc)
  BY DEF Reserved, SumFunction
<1> HIDE DEF f
<1>3. IsFiniteSet(Doc)
  BY StockAssumption
<1> QED
  BY <1>1, <1>2, <1>3, SumNat

Holding(d, k) == IF rows[d] = "active" THEN Needs(d, k) ELSE 0

LEMMA ReservedChange ==
  ASSUME TypeInv, TypeInv', NEW d \in Doc, \A e \in Doc \ {d} : rows'[e] = rows[e], NEW k
  PROVE  /\ Reserved(k)' = Reserved(k) - Holding(d, k) + Holding(d, k)'
         /\ Reserved(k) \in Nat /\ Holding(d, k) \in Nat /\ Holding(d, k)' \in Nat
<1> DEFINE f == [e \in Doc |-> Holding(e, k)]
           g == [e \in Doc |-> Holding(e, k)']
<1>1. ASSUME NEW e \in Doc
      PROVE  /\ f[e] = Holding(e, k) /\ g[e] = Holding(e, k)' /\ f[e] \in Nat /\ g[e] \in Nat
             /\ e # d => f[e] = g[e]
  BY NeedsFacts DEF Holding
<1>2. Reserved(k) = SumFunctionOnSet(f, Doc) /\ Reserved(k)' = SumFunctionOnSet(g, Doc)
  BY DEF Reserved, SumFunction, Holding
<1> HIDE DEF f, g
<1>3. IsFiniteSet(Doc) /\ Ints(f, Doc) /\ Ints(g, Doc)
  BY <1>1, StockAssumption DEF Ints
<1>4. SumFunctionOnSet(g, Doc) = SumFunctionOnSet(f, Doc) - f[d] + g[d]
  BY <1>1, <1>3, SumChange
<1>5. SumFunctionOnSet(f, Doc) \in Nat
  BY <1>1, <1>3, SumNat
<1> QED
  BY <1>1, <1>2, <1>4, <1>5

\* Only reserved quantities are written, at the places where d holds some.
Reserves(p, d) ==
  /\ Others(p, Needed(d), {d}) /\ cause \subseteq cause' /\ (proc[p].late => RacedOn(d)')
  /\ UNCHANGED <<register, told>> /\ Free(proc[p]) /\ Free(proc'[p])
  /\ \A e \in Doc \ {d} : rows'[e] = rows[e]
  /\ \A k \in Place : stock'[k].qty = stock[k].qty /\ stock'[k].row = stock[k].row
  /\ \A k \in Place \ Needed(d) : stock'[k] = stock[k]

LEMMA StockReserves ==
  ASSUME TypeInv, TypeInv', StockInv, NEW p \in Proc, NEW d \in Doc, Reserves(p, d),
         \A k \in Place : ~stock[k].row => stock'[k].res = stock[k].res,
         \A k \in Places(d) : \/ RacedOn(d)' \/ LostOn(k)
                              \/ stock'[k].res = stock[k].res - Holding(d, k) + Holding(d, k)'
                              \/ \E e \in Doc : k \in Places(e) /\ RacedOn(e)
  PROVE  StockInv'
<1> SUFFICES ASSUME NEW n, n = proc'[p], NEW r, r = proc[p]
             PROVE  StockInv'
  OBVIOUS
<1>1. Others(p, {}, {}) /\ Others(p, Needed(d), {}) /\ n.at \notin HoldsStock
  <2>1. n.at \notin HoldsStock
    BY FreeFacts DEF Reserves
  <2> QED
    BY <2>1, FewerOthers DEF Reserves, Others
<1>2. ASSUME NEW k \in Place
      PROVE  /\ Owes(proc[p], k) = 0 /\ Owes(proc[p], k)' = 0 /\ ~Signs(proc[p], k)
             /\ stock[k].qty \in Int /\ register[k] \in Int
  <2>1. Owes(r, k) = 0 /\ Owes(n, k) = 0 /\ ~Signs(r, k)
    BY FreeFacts DEF Reserves
  <2>2. Owes(proc[p], k)' = Owes(n, k)
    BY DEF Owes, Written
  <2> QED
    BY <2>1, <2>2 DEF TypeInv, Tables, Balance
<1>3. PlanInv'
  BY <1>1, PlanStep DEF StockInv, Reserves
<1>4. RowInv'
  BY DEF StockInv, RowInv, Reserves
<1>5. QtyInv'
  <2>1. ASSUME NEW k \in Place
        PROVE  stock'[k].qty = stock[k].qty + (register'[k] - register[k]) + (Owes(proc[p], k)' - Owes(proc[p], k))
    BY <1>2 DEF Reserves
  <2> QED
    BY <1>1, <2>1, QtyStep DEF StockInv, Reserves
<1>6. ToldInv'
  BY <1>1, <1>2, ToldStep DEF StockInv, Reserves
<1>7. ResInv'
  <2> SUFFICES ASSUME NEW k \in Place, ~LostOn(k)', ~\E e \in Doc : k \in Places(e) /\ RacedOn(e)'
               PROVE  stock'[k].res = Reserved(k)'
    BY DEF ResInv
  <2>1. ~LostOn(k) /\ ~\E e \in Doc : k \in Places(e) /\ RacedOn(e)
    BY DEF Reserves, LostOn, RacedOn, Blamed
  <2>2. stock[k].res = Reserved(k)
    BY <2>1 DEF StockInv, ResInv
  <2>3. /\ Reserved(k)' = Reserved(k) - Holding(d, k) + Holding(d, k)'
        /\ Reserved(k) \in Nat /\ Holding(d, k) \in Nat /\ Holding(d, k)' \in Nat
    BY ReservedChange DEF Reserves
  <2>4. CASE k \in Places(d)
    BY <2>1, <2>2, <2>3, <2>4
  <2>5. CASE k \notin Places(d)
    <3>1. k \notin Needed(d) /\ Needs(d, k) = 0
      BY <2>5, NeededFacts, NeedsFacts
    <3>2. Holding(d, k) = 0 /\ Holding(d, k)' = 0
      BY <3>1 DEF Holding
    <3> QED
      BY <2>2, <2>3, <3>1, <3>2 DEF Reserves
  <2> QED
    BY <2>4, <2>5
<1> QED
  BY <1>3, <1>4, <1>5, <1>6, <1>7 DEF StockInv

LEMMA StockReserveDone ==
  ASSUME TypeInv, TypeInv', StockInv, NEW p \in Proc, ReserveDone(p)
  PROVE  StockInv'
<1> SUFFICES ASSUME NEW d, d = proc[p].doc
             PROVE  StockInv'
  OBVIOUS
<1>1. proc[p].at = "reserved" /\ d \in Doc /\ Free(proc[p])
  BY ReserveDoneFacts, ProcFacts DEF Free
<1>2. CASE Others(p, {}, {}) /\ UNCHANGED tables /\ cause' = cause /\ Ended(p)
  BY <1>1, <1>2, FreeFacts, StockApart DEF Apart, tables, Ended
<1>3. CASE ~(Others(p, {}, {}) /\ UNCHANGED tables /\ cause' = cause /\ Ended(p))
  <2>1. /\ Others(p, Needed(d), {d}) /\ Blames(p) /\ Back(proc'[p], proc[p], "reserve")
        /\ Marks(p, d, TRUE) /\ rows[d] # "active" /\ rows'[d] = "active"
        /\ \A k \in Needed(d) : /\ stock[k].qty - stock[k].res >= Needs(d, k)
                                /\ stock'[k].res = stock[k].res + Needs(d, k)
    BY <1>3, ReserveDoneFacts
  <2>2. Reserves(p, d)
    BY <1>1, <2>1, FreeFacts DEF Reserves, Marks, Blames, RacedOn, Blamed
  <2>3. ASSUME NEW k \in Place, ~stock[k].row PROVE stock'[k].res = stock[k].res
    <3>1. stock[k].qty = 0 /\ stock[k].res = 0
      BY <2>3 DEF StockInv, RowInv
    <3>2. k \notin Needed(d)
      <4>1. Needs(d, k) \in Nat /\ (Needs(d, k) > 0 <=> k \in Needed(d))
        BY <1>1, NeededFacts
      <4> QED
        BY <2>1, <3>1, <4>1
    <3> QED
      BY <2>2, <3>2 DEF Reserves
  <2>4. ASSUME NEW k \in Places(d) PROVE stock'[k].res = stock[k].res - Holding(d, k) + Holding(d, k)'
    <3>1. k \in Place /\ Needs(d, k) \in Nat /\ (Needs(d, k) > 0 <=> k \in Needed(d)) /\ stock[k].res \in Nat
      BY <1>1, LinesFacts, NeededFacts DEF TypeInv, Tables, Balance
    <3>2. Holding(d, k) = 0 /\ Holding(d, k)' = Needs(d, k)
      BY <2>1 DEF Holding
    <3>3. stock'[k].res = stock[k].res + Needs(d, k)
      <4>1. CASE k \in Needed(d)
        BY <2>1, <4>1
      <4>2. CASE k \notin Needed(d)
        BY <2>2, <3>1, <4>2 DEF Reserves
      <4> QED
        BY <4>1, <4>2
    <3> QED
      BY <3>1, <3>2, <3>3
  <2> QED
    BY <1>1, <2>2, <2>3, <2>4, StockReserves
<1> QED
  BY <1>2, <1>3

LEMMA StockReleaseDone ==
  ASSUME Docs, TypeInv', StockInv, NEW p \in Proc, ReleaseDone(p)
  PROVE  StockInv'
<1> SUFFICES ASSUME NEW d, d = proc[p].doc, NEW r, r = proc[p]
             PROVE  StockInv'
  OBVIOUS
<1>0. TypeInv
  BY DEF Docs
<1>1. /\ r.at = "released" /\ d \in Doc /\ Free(r)
      /\ Others(p, Needed(d), {d}) /\ Blames(p) /\ Back(proc'[p], r, "release")
      /\ Marks(p, d, FALSE) /\ (rows'[d] = IF r.held THEN "past" ELSE rows[d])
      /\ \A k \in Needed(d) :
           /\ stock[k].row /\ stock[k].res >= Needs(d, k) => stock'[k].res = stock[k].res - Needs(d, k)
           /\ ~stock[k].row => stock'[k] = stock[k]
  BY <1>0, ReleaseDoneFacts, ProcFacts DEF Free
<1>2. Reserves(p, d)
  BY <1>1, FreeFacts DEF Reserves, Marks, Blames, RacedOn, Blamed
<1>3. \A k \in Place : ~stock[k].row => stock'[k].res = stock[k].res
  BY <1>1, <1>2 DEF Reserves
<1>4. ASSUME NEW k \in Places(d), ~RacedOn(d)', ~LostOn(k), ~\E e \in Doc : k \in Places(e) /\ RacedOn(e)
      PROVE  stock'[k].res = stock[k].res - Holding(d, k) + Holding(d, k)'
  <2>1. k \in Place /\ Needs(d, k) \in Nat /\ (Needs(d, k) > 0 <=> k \in Needed(d)) /\ stock[k].res \in Nat
    BY <1>0, <1>1, LinesFacts, NeededFacts DEF TypeInv, Tables, Balance
  <2>2. ~r.late /\ ~RacedOn(d)
    BY <1>1, <1>2, <1>4 DEF Reserves
  <2>3. SoundDoc(d) /\ Knows(r, doc[d], Active(d))
    BY <1>1, <2>2 DEF Docs, DocInv, Sound, HeaderInv
  <2>4. Active(d) /\ r.held
    BY <1>1, <2>3 DEF SoundDoc, Knows
  <2>5. rows[d] = "active" /\ rows'[d] = "past"
    BY <1>1, <2>4 DEF Active
  <2>6. Holding(d, k) = Needs(d, k) /\ Holding(d, k)' = 0
    BY <2>5 DEF Holding
  <2>7. stock[k].res = Reserved(k) /\ Needs(d, k) <= Reserved(k) /\ Reserved(k) \in Nat
    BY <1>0, <1>1, <1>4, <2>1, <2>4, ReservedFacts DEF StockInv, ResInv, TypeInv
  <2>8. CASE k \in Needed(d)
    <3>1. stock[k].row
      BY <2>1, <2>7, <2>8 DEF StockInv, RowInv
    <3>2. stock'[k].res = stock[k].res - Needs(d, k)
      BY <1>1, <2>1, <2>7, <2>8, <3>1
    <3> QED
      BY <2>1, <2>6, <3>2
  <2>9. CASE k \notin Needed(d)
    BY <1>2, <2>1, <2>6, <2>9 DEF Reserves
  <2> QED
    BY <2>8, <2>9
<1> QED
  BY <1>0, <1>1, <1>2, <1>3, <1>4, StockReserves

-----------------------------------------------------------------------------
(* The invariant of the balances.                                          *)

LEMMA StockStep ==
  ASSUME Docs, TypeInv', StockInv, NEW p \in Proc, Steps1(p) \/ Steps2(p) \/ Asks(p)
  PROVE  StockInv'
<1>1. TypeInv
  BY DEF Docs
<1>2. CASE Apart(p)
  BY <1>1, <1>2, StockApart
<1>3. CASE Die(p)
  BY <1>1, <1>3, DieFacts, StockStops
<1>4. CASE Steps1(p) /\ ~Apart(p)
  BY <1>1, <1>4, ApartSteps1, ApartSteps2, StockPostStock, StockPostBalance, StockPostMovement, StockPostDone,
     StockTell, StockPublish DEF Steps1
<1>5. CASE Steps2(p) /\ ~Apart(p)
  BY <1>1, <1>3, <1>5, ApartSteps1, ApartSteps2, StockReverseStock, StockReverseNumber, StockReverseDone,
     StockReserveDone, StockReleaseDone DEF Steps2
<1>6. CASE Asks(p)
  BY <1>1, <1>2, <1>6, ApartSteps1
<1> QED
  BY <1>2, <1>4, <1>5, <1>6

LEMMA StockNext == Docs /\ StockInv /\ [Next]_vars => StockInv'
<1> SUFFICES ASSUME Docs, StockInv, [Next]_vars PROVE StockInv'
  OBVIOUS
<1>1. CASE Next
  <2>1. TypeInv'
    BY TypeNext DEF Docs
  <2>2. PICK p \in Proc : Steps1(p) \/ Steps2(p) \/ Asks(p)
    BY <1>1, NextSteps
  <2> QED
    BY <2>1, <2>2, StockStep
<1>2. CASE UNCHANGED vars
  <2>1. UNCHANGED <<rows, stock, register, told, proc, cause>>
    BY <1>2 DEF vars, tables
  <2>2. ASSUME NEW q \in Proc, NEW k
        PROVE  /\ Owes(proc[q], k)' = Owes(proc[q], k) /\ (Signs(proc[q], k)' <=> Signs(proc[q], k))
               /\ PlanRight(q, k)' <=> PlanRight(q, k)
    BY <2>1 DEF Owes, Written, Signs, Begun, PlanRight, Change
  <2>3. ASSUME NEW k
        PROVE  /\ Owed(k)' = Owed(k) /\ Reserved(k)' = Reserved(k)
               /\ (LostOn(k)' <=> LostOn(k)) /\ (TornAt(k)' <=> TornAt(k)) /\ (UntoldOf(k)' <=> UntoldOf(k))
               /\ RacedOn(k)' <=> RacedOn(k)
    BY <2>1, <2>2 DEF Owed, Reserved, LostOn, TornAt, UntoldOf, RacedOn, Blamed
  <2>4. PlanInv' /\ RowInv'
    BY <2>1, <2>2 DEF StockInv, PlanInv, RowInv
  <2>5. QtyInv'
    BY <2>1, <2>3 DEF StockInv, QtyInv
  <2>6. ToldInv'
    BY <2>1, <2>2, <2>3 DEF StockInv, ToldInv
  <2>7. ResInv'
    BY <2>1, <2>3 DEF StockInv, ResInv
  <2> QED
    BY <2>4, <2>5, <2>6, <2>7 DEF StockInv
<1> QED
  BY <1>1, <1>2

LEMMA StockInit == Init => StockInv
<1> SUFFICES ASSUME Init PROVE StockInv
  OBVIOUS
<1>1. TypeInv
  BY TypeInit
<1>2. /\ \A p \in Proc : proc[p] = Idle
      /\ \A d \in Doc : rows[d] = "none"
      /\ \A k \in Place : register[k] = stock[k].qty /\ told[k] = stock[k].qty
  BY DEF Init
<1>3. \A k \in Place : stock[k].res = 0 /\ (~stock[k].row => stock[k].qty = 0)
  <2> SUFFICES ASSUME NEW k \in Place PROVE stock[k].res = 0 /\ (~stock[k].row => stock[k].qty = 0)
    OBVIOUS
  <2>1. stock[k] = [row |-> Stocked[k] # -1, res |-> 0, qty |-> IF Stocked[k] = -1 THEN 0 ELSE Stocked[k]]
    BY DEF Init
  <2>2. CASE Stocked[k] = -1
    BY <2>1, <2>2
  <2>3. CASE Stocked[k] # -1
    <3>1. stock[k] = [row |-> TRUE, res |-> 0, qty |-> Stocked[k]]
      BY <2>1, <2>3
    <3> QED
      BY <3>1
  <2> QED
    BY <2>2, <2>3
<1>4. PlanInv /\ RowInv /\ ToldInv
  <2>1. Idle.at \notin HoldsStock
    BY FreeFacts
  <2> QED
    BY <1>2, <1>3, <2>1 DEF PlanInv, RowInv, ToldInv
<1>5. ASSUME NEW k \in Place PROVE Owed(k) = 0
  <2> DEFINE f == [p \in Proc |-> Owes(proc[p], k)]
  <2>1. Owes(Idle, k) = 0
    BY FreeFacts
  <2>2. \A p \in Proc : f[p] = 0
    BY <1>2, <2>1
  <2>3. Owed(k) = SumFunctionOnSet(f, Proc)
    BY DEF Owed
  <2> HIDE DEF f
  <2>4. IsFiniteSet(Proc) /\ Ints(f, Proc) /\ {} \in SUBSET Proc
    BY <2>2, StockAssumption DEF Ints
  <2>5. SumFunctionOnSet(f, Proc) = SumFunctionOnSet(f, {})
    BY <2>2, <2>4, SumZeros
  <2> QED
    BY <2>3, <2>5, SumEmpty
<1>6. ASSUME NEW k \in Place PROVE Reserved(k) = 0
  <2> DEFINE f == [d \in Doc |-> IF rows[d] = "active" THEN Needs(d, k) ELSE 0]
  <2>1. \A d \in Doc : f[d] = 0
    BY <1>2
  <2>2. Reserved(k) = SumFunctionOnSet(f, Doc)
    BY DEF Reserved, SumFunction
  <2> HIDE DEF f
  <2>3. IsFiniteSet(Doc) /\ Ints(f, Doc) /\ {} \in SUBSET Doc
    BY <2>1, StockAssumption DEF Ints
  <2>4. SumFunctionOnSet(f, Doc) = SumFunctionOnSet(f, {})
    BY <2>1, <2>3, SumZeros
  <2> QED
    BY <2>2, <2>4, SumEmpty
<1>7. QtyInv /\ ResInv
  <2>1. \A k \in Place : register[k] \in Int
    BY <1>1 DEF TypeInv, Tables
  <2> QED
    BY <1>2, <1>3, <1>5, <1>6, <2>1 DEF QtyInv, ResInv
<1> QED
  BY <1>4, <1>7 DEF StockInv

LEMMA StockAlways == Spec => [](Docs /\ StockInv)
BY DocInit, DocNext, StockInit, StockNext, PTL DEF Spec

\* Whatever postWarehouseDocument and reverseWarehouseDocument do at the same
\* time, refuse or leave half done: the balance of a place differs from the sum
\* of its movements only when a total computed from an old balance was written
\* there, or a posting stopped, or is, between its balance and its movements.
THEOREM BalanceRegistered == Spec => []StockMatchesRegister
<1>1. Docs /\ StockInv => StockMatchesRegister
  <2> SUFFICES ASSUME Docs, StockInv, NEW k \in Place, ~LostOn(k), ~TornAt(k), \A p \in Proc : k \notin Half(proc[p])
               PROVE  stock[k].qty = register[k]
    BY DEF StockMatchesRegister, LostOn, TornAt
  <2> DEFINE f == [p \in Proc |-> Owes(proc[p], k)]
  <2>1. \A p \in Proc : Owes(proc[p], k) = 0
    <3>1. \A p \in Proc : Request(proc[p])
      BY DEF Docs, TypeInv, Requests
    <3> QED
      BY <3>1, OwesHalf
  <2>2. Owed(k) = SumFunctionOnSet(f, Proc) /\ \A p \in Proc : f[p] = 0
    BY <2>1 DEF Owed
  <2> HIDE DEF f
  <2>3. IsFiniteSet(Proc) /\ Ints(f, Proc) /\ {} \in SUBSET Proc
    BY <2>2, StockAssumption DEF Ints
  <2>4. SumFunctionOnSet(f, Proc) = SumFunctionOnSet(f, {})
    BY <2>2, <2>3, SumZeros
  <2>5. stock[k].qty = register[k] + Owed(k)
    BY DEF StockInv, QtyInv
  <2>6. register[k] \in Int
    BY DEF Docs, TypeInv, Tables
  <2> QED
    BY <2>2, <2>4, <2>5, <2>6, SumEmpty
<1> QED
  BY <1>1, StockAlways, PTL

\* reserveAssemblyDraftReservation and releaseAssemblyDraftReservation keep
\* reserved_qty equal to what the active reservations hold, unless a posting
\* wrote an old reserved_qty back or a request of a document that has a line
\* there wrote what it had read before another did.
THEOREM ReservedRecorded == Spec => []ReservedMatchesRows
<1>1. Docs /\ StockInv => ReservedMatchesRows
  BY DEF StockInv, ResInv, ReservedMatchesRows, LostOn, RacedOn, Overlapped
<1> QED
  BY <1>1, StockAlways, PTL

\* The quantity that postWarehouseDocument and reverseWarehouseDocument sign
\* into the ledger at their end is the balance: the two differ only while
\* a request is on its way to sign, or after one that stopped before it or was
\* overtaken between its reading and its signature.
THEOREM LedgerTold == Spec => []LedgerTellsStock
<1>1. Docs /\ StockInv => LedgerTellsStock
  BY DEF StockInv, ToldInv, LedgerTellsStock, Signs, Begun, UntoldOf
<1> QED
  BY <1>1, StockAlways, PTL
=============================================================================
