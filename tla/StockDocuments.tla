--------------------------- MODULE StockDocuments ---------------------------
(***************************************************************************)
(* backend-api/src/services/warehouseService.ts (create, edit, plan, post, *)
(* cancel, reverse, reserve, release) and workOrderClosingService.ts (save *)
(* the draft, post, delete the draft, close), over the tables of documents,*)
(* balances, movements and reservations.  Requests run concurrently in two *)
(* instances: an action is one statement or one transaction of a handler,  *)
(* reads that follow each other directly being one action.                 *)
(*                                                                         *)
(* Abstractions: one nomenclature position; a document keeps its lines, an *)
(* edit rewrites them with the same content; expectedUpdatedAt, always     *)
(* optional, only refuses a request at its first read; numbered instances, *)
(* planned_incoming, the journal and the engine phase are left out.        *)
(***************************************************************************)
EXTENDS Integers, FiniteSets, Sequences, Functions

CONSTANTS
  Place,        \* warehouse locations
  Doc,          \* documents, those not created yet included
  Order,        \* work orders
  Proc,         \* requests that may run at the same time
  None,
  Lines,        \* the movements of a document, in order: place and delta
  Incoming,     \* documents of the INCOMING_DOC_TYPES
  OrderOf,      \* the work order a document would belong to, or None
  Stocked,      \* the quantity of each place at the start, -1 without a balance row
  Reservable,   \* orders of kind assembly
  MaxRequests,  \* bound: requests made
  MaxDeaths     \* bound: requests that die half way

ASSUME StockAssumption ==
  /\ IsFiniteSet(Doc) /\ IsFiniteSet(Proc)
  /\ Lines \in [Doc -> Seq([place : Place, delta : Int])]
  /\ Incoming \subseteq Doc /\ Reservable \subseteq Order
  /\ None \notin Doc \cup Order
  /\ OrderOf \in [Doc -> Order \cup {None}]
  /\ Stocked \in [Place -> Nat \cup {-1}]
  /\ MaxRequests \in Nat /\ MaxDeaths \in Nat

VARIABLES
  doc,       \* erp_document_headers: status and the two marks in payload_json
  rows,      \* erp_stock_reservations of a document
  moved,     \* erp_reg_stock_movements: how often each line was registered
  reversals, \* СТОРНО documents made for a document
  stock,     \* erp_reg_stock_balance
  register,  \* the sum of the movements at a place
  told,      \* the last quantity of a place signed into the ledger
  order,     \* operations: status and linkedDocumentId
  proc,      \* the requests being handled
  cause,     \* history: what went wrong so far, and to what
  requests, deaths

tables == <<doc, rows, moved, reversals, stock, register, told, order>>
vars   == <<tables, proc, cause, requests, deaths>>

-----------------------------------------------------------------------------

NoSums == [k \in {} |-> 0]
NoPlan == [k \in Place |-> [row |-> FALSE, qty |-> 0, res |-> 0]]
Idle == [op |-> "idle", at |-> "idle", doc |-> None, order |-> None,
         flag |-> FALSE, reversed |-> FALSE, held |-> FALSE, free |-> FALSE, lines |-> TRUE,
         plan |-> NoPlan, back |-> NoSums, i |-> 0, stale |-> {}, late |-> FALSE]

\* What each line of a document does to place k.
Moves(d, k) ==
  [i \in DOMAIN Lines[d] |-> IF Lines[d][i].place = k THEN Lines[d][i].delta ELSE 0]
Places(d) == {Lines[d][i].place : i \in DOMAIN Lines[d]}
\* What a reservation of the document holds: the lines that take from a place.
Needs(d, k) ==
  SumFunction([i \in DOMAIN Lines[d] |-> IF Moves(d, k)[i] < 0 THEN - Moves(d, k)[i] ELSE 0])
\* What the registered movements of a document add up to.
Registered(d, k) == SumFunction([i \in DOMAIN Lines[d] |-> moved[d][i] * Moves(d, k)[i]])
\* Mutant of NumberTaken: the number of a cancelled document may be used again.
NumberInUse(o) == \E d \in Doc : OrderOf[d] = o /\ doc[d].status \notin {"absent", "cancelled"}

NumberTaken(o) == \E d \in Doc : OrderOf[d] = o /\ doc[d].status # "absent"

Init ==
  /\ \E planned \in SUBSET Incoming :
       doc = [d \in Doc |-> [flag |-> FALSE, reversed |-> FALSE,
                             status |-> CASE OrderOf[d] # None -> "absent"
                                          [] OrderOf[d] = None /\ d \in planned -> "planned"
                                          [] OTHER -> "draft"]]
  /\ rows = [d \in Doc |-> "none"]
  /\ moved = [d \in Doc |-> [i \in DOMAIN Lines[d] |-> 0]]
  /\ reversals = [d \in Doc |-> 0]
  /\ stock = [k \in Place |-> [row |-> Stocked[k] # -1, res |-> 0,
                               qty |-> IF Stocked[k] = -1 THEN 0 ELSE Stocked[k]]]
  /\ register = [k \in Place |-> stock[k].qty]
  /\ told = register
  /\ order = [o \in Order |-> [status |-> "open", doc |-> None]]
  /\ proc = [p \in Proc |-> Idle]
  /\ cause = {} /\ requests = 0 /\ deaths = 0

-----------------------------------------------------------------------------
(* One step of a request.                                                  *)

At(p, op, step) == proc[p].op \in op /\ proc[p].at = step
Line(r) == Lines[r.doc][r.i]

\* Mutant of After: a posted order is closed with its reservation left as it is.
AfterNoRelease(op, part) ==
  CASE op = "postOrder"                        -> "close"
    [] op = "closeOrder" /\ part = "create"    -> "post"
    [] op = "closeOrder" /\ part = "post"      -> "close"
    [] op = "saveDraft" /\ part = "release"    -> "edit"
    [] op = "saveDraft" /\ part \in {"create", "edit"} -> "reserve"
    [] op = "saveDraft" /\ part = "reserve"    -> "link"
    [] op = "deleteDraft" /\ part = "release"  -> "cancel"
    [] op = "deleteDraft" /\ part = "cancel"   -> "unlink"
    [] OTHER -> "idle"

\* The handler a finished part returns to, and what that handler does next.
After(op, part) ==
  CASE op = "postOrder" /\ part = "post"    -> "release"
    [] op = "postOrder" /\ part = "release" -> "close"
    [] op = "closeOrder" /\ part = "create" -> "post"
    [] op = "closeOrder" /\ part = "post"   -> "close"
    [] op = "saveDraft" /\ part = "release" -> "edit"
    [] op = "saveDraft" /\ part \in {"create", "edit"} -> "reserve"
    [] op = "saveDraft" /\ part = "reserve" -> "link"
    [] op = "deleteDraft" /\ part = "release" -> "cancel"
    [] op = "deleteDraft" /\ part = "cancel"  -> "unlink"
    [] OTHER -> "idle"

\* Request r has done a part: what it read for that part is forgotten.
Return(r, part) ==
  IF After(r.op, part) = "idle" THEN Idle
  ELSE [Idle EXCEPT !.op = r.op, !.order = r.order, !.doc = r.doc, !.at = After(r.op, part),
                    !.late = r.late]

\* Steps at which a request holds balances it has read, and steps at which it
\* holds a header it has read; one of a work order does so all the time.
HoldsStock == {"balance", "movement", "number", "reverse", "publish"}
HoldsHeader == {"stock", "balance", "movement", "posted", "cancelled", "edited", "planned",
                "movements", "number", "reverse", "reserved", "released"}

\* p goes on as r, having written the balances K and the documents D: what the
\* others have read of them is out of date from now on.
Holds(r, d) == r.doc = d /\ (r.at \in HoldsHeader \/ r.order # None)
Write(p, r, K, D) ==
  proc' = [q \in Proc |->
    IF q = p THEN r
    ELSE [proc[q] EXCEPT !.stale = IF proc[q].at \in HoldsStock THEN @ \cup K ELSE @,
                         !.late = @ \/ \E d \in D : Holds(proc[q], d)]]
Go(p, r) == Write(p, r, {}, {})
Goto(p, step) == Go(p, [proc[p] EXCEPT !.at = step])
Refuse(p) == Go(p, Idle)

\* A write by a request whose header read is out of date.
Raced(r) == IF r.late THEN {<<"raced", r.doc>>} ELSE {}

-----------------------------------------------------------------------------
(* postWarehouseDocument: every statement stands for itself.               *)

\* Mutant of PostHeader: a posted document is posted again.
PostHeaderAgain(p) ==
  LET r == proc[p] IN
  /\ r.at = "post"
  /\ IF r.doc \in Incoming /\ doc[r.doc].status \notin {"planned", "posted"}
     THEN Refuse(p) ELSE Goto(p, "stock")
  /\ UNCHANGED <<tables, cause, requests, deaths>>

PostHeader(p) ==
  LET r == proc[p] IN
  /\ r.at = "post"
  /\ \/ /\ doc[r.doc].status = "posted"
        /\ Go(p, Return(r, "post"))
     \/ /\ doc[r.doc].status # "posted"
        /\ IF r.doc \in Incoming /\ doc[r.doc].status # "planned"
           THEN Refuse(p) ELSE Goto(p, "stock")
  /\ UNCHANGED <<tables, cause, requests, deaths>>

\* Mutant of PostStock: the quantity is not compared with zero, only with what
\* others have reserved.
PostStockUnchecked(p) ==
  LET r == proc[p] IN
  /\ r.at = "stock"
  /\ IF \A k \in Places(r.doc) : stock[k].res = 0 \/ rows[r.doc] = "active"
     THEN Go(p, [r EXCEPT !.at = "balance", !.i = 1,
                 !.plan = [k \in Place |-> [stock[k] EXCEPT !.qty = @ + SumFunction(Moves(r.doc, k))]]])
     ELSE Refuse(p)
  /\ UNCHANGED <<tables, cause, requests, deaths>>

\* The reservations and the balances are read, then checked movement by
\* movement: nothing below zero, nothing below what others have reserved.
PostStock(p) ==
  LET r == proc[p]
      d == r.doc
      own(k) == IF rows[d] = "active" THEN Needs(d, k) ELSE 0
      left(i) == stock[Lines[d][i].place].qty + SumFunctionOnSet(Moves(d, Lines[d][i].place), 1..i)
      enough == \A i \in DOMAIN Lines[d] :
                  /\ left(i) >= 0
                  /\ left(i) >= stock[Lines[d][i].place].res - own(Lines[d][i].place)
  IN
  /\ r.at = "stock"
  /\ IF Lines[d] # <<>> /\ enough
     THEN Go(p, [r EXCEPT !.at = "balance", !.i = 1,
                 !.plan = [k \in Place |-> [stock[k] EXCEPT !.qty = @ + SumFunction(Moves(d, k))]]])
     ELSE Refuse(p)
  /\ UNCHANGED <<tables, cause, requests, deaths>>

\* The places where request r has written a balance with a movement to come.
Half(r) ==
  IF r.at \notin {"balance", "movement"} THEN {}
  ELSE {Lines[r.doc][i].place : i \in 1..(IF r.at = "movement" THEN r.i ELSE r.i - 1)}
       \cap {Lines[r.doc][i].place : i \in r.i..Len(Lines[r.doc])}
\* A posting under way that has written something.
Begun(r) == r.at \in {"movement", "posted"} \/ (r.at = "balance" /\ r.i > 1)

\* What a request leaves behind when it stops at this point.
TornBy(r) ==
  (IF Begun(r) THEN {<<"torn", r.doc>>} ELSE {})
  \cup {<<"torn", k>> : k \in Half(r)}
  \cup (IF Begun(r) \/ r.at \in {"tell", "publish"}
        THEN {<<"untold", k>> : k \in Places(r.doc)} ELSE {})

\* Mutant of PostBalance: a row inserted by another request since is left as it
\* is (on conflict do nothing).
PostBalanceOrNothing(p) ==
  LET r == proc[p]
      k == Line(r).place
  IN
  /\ r.at = "balance"
  /\ IF stock[k].row /\ ~r.plan[k].row
     THEN /\ Goto(p, "movement")
          /\ UNCHANGED <<stock, cause>>
     ELSE /\ stock' = [stock EXCEPT ![k] = [r.plan[k] EXCEPT !.row = TRUE]]
          /\ cause' = IF k \in r.stale THEN cause \cup {<<"lost", k>>} ELSE cause
          /\ Write(p, [r EXCEPT !.at = "movement", !.plan[k].row = TRUE, !.stale = @ \ {k}], {k}, {})
  /\ UNCHANGED <<doc, rows, moved, reversals, register, told, order, requests, deaths>>

\* The balance is set to the total computed before; the row is found by the id
\* read before, and a row another request has inserted since is a unique error.
PostBalance(p) ==
  LET r == proc[p]
      k == Line(r).place
  IN
  /\ r.at = "balance"
  /\ IF stock[k].row /\ ~r.plan[k].row
     THEN /\ Refuse(p)
          /\ cause' = cause \cup TornBy(r)
          /\ UNCHANGED stock
     ELSE /\ stock' = [stock EXCEPT ![k] = [r.plan[k] EXCEPT !.row = TRUE]]
          /\ cause' = IF k \in r.stale THEN cause \cup {<<"lost", k>>} ELSE cause
          /\ Write(p, [r EXCEPT !.at = "movement", !.plan[k].row = TRUE, !.stale = @ \ {k}], {k}, {})
  /\ UNCHANGED <<doc, rows, moved, reversals, register, told, order, requests, deaths>>

PostMovement(p) ==
  LET r == proc[p] IN
  /\ r.at = "movement"
  /\ moved' = [moved EXCEPT ![r.doc][r.i] = @ + 1]
  /\ register' = [register EXCEPT ![Line(r).place] = @ + Line(r).delta]
  /\ cause' = cause \cup Raced(r)
  /\ Write(p, IF r.i = Len(Lines[r.doc]) THEN [r EXCEPT !.at = "posted"]
              ELSE [r EXCEPT !.at = "balance", !.i = @ + 1], {}, {r.doc})
  /\ UNCHANGED <<doc, rows, reversals, stock, told, order, requests, deaths>>

SetStatus(p, step, status, r) ==
  /\ proc[p].at = step
  /\ doc' = [doc EXCEPT ![proc[p].doc].status = status]
  /\ cause' = cause \cup Raced(proc[p])
  /\ Write(p, r, {}, {proc[p].doc})
  /\ UNCHANGED <<rows, moved, reversals, stock, register, told, order, requests, deaths>>

\* Mutant of PostDone: nothing is signed into the ledger after a posting.
PostDoneUntold(p) == SetStatus(p, "posted", "posted", Return(proc[p], "post"))

PostDone(p) ==
  LET r == proc[p] IN
  SetStatus(p, "posted", "posted", [Idle EXCEPT !.op = r.op, !.at = "tell", !.doc = r.doc,
                                                !.order = r.order, !.late = r.late])

\* Balances and movements are read again and signed into the ledger.
Tell(p) ==
  /\ proc[p].at = "tell"
  /\ Go(p, [proc[p] EXCEPT !.at = "publish", !.plan = stock])
  /\ UNCHANGED <<tables, cause, requests, deaths>>

Publish(p) ==
  LET r == proc[p] IN
  /\ r.at = "publish"
  /\ told' = [k \in Place |-> IF k \in Places(r.doc) THEN r.plan[k].qty ELSE told[k]]
  /\ cause' = cause \cup {<<"untold", k>> : k \in r.stale \cap Places(r.doc)}
  /\ Go(p, Return(r, IF r.op = "reverse" THEN "reverse" ELSE "post"))
  /\ UNCHANGED <<doc, rows, moved, reversals, stock, register, order, requests, deaths>>

-----------------------------------------------------------------------------
(* planWarehouseDocument, cancelWarehouseDocument, createWarehouseDocument. *)

PlanHeader(p) ==
  LET r == proc[p] IN
  /\ r.at = "plan"
  /\ IF r.doc \in Incoming /\ doc[r.doc].status \in {"draft", "planned"}
     THEN Goto(p, "planned") ELSE Refuse(p)
  /\ UNCHANGED <<tables, cause, requests, deaths>>

PlanDone(p) == SetStatus(p, "planned", "planned", Idle)

\* Mutant of CancelHeader: a posted document is cancelled as well.
CancelHeaderPosted(p) ==
  LET r == proc[p] IN
  /\ r.at = "cancel"
  /\ IF doc[r.doc].status = "cancelled" THEN Go(p, Return(r, "cancel")) ELSE Goto(p, "cancelled")
  /\ UNCHANGED <<tables, cause, requests, deaths>>

CancelHeader(p) ==
  LET r == proc[p] IN
  /\ r.at = "cancel"
  /\ CASE doc[r.doc].status = "posted"    -> Refuse(p)
       [] doc[r.doc].status = "cancelled" -> Go(p, Return(r, "cancel"))
       [] OTHER                           -> Goto(p, "cancelled")
  /\ UNCHANGED <<tables, cause, requests, deaths>>

CancelDone(p) == SetStatus(p, "cancelled", "cancelled", Return(proc[p], "cancel"))

\* A document number is unique for ever, also after a cancellation.
Create(p) ==
  LET r == proc[p] IN
  /\ r.at = "create"
  /\ \/ /\ NumberTaken(r.order)
        /\ Refuse(p)
        /\ UNCHANGED doc
     \/ /\ ~NumberTaken(r.order)
        /\ \E d \in Doc :
             /\ OrderOf[d] = r.order /\ doc[d].status = "absent"
             /\ doc' = [doc EXCEPT ![d].status = IF d \in Incoming THEN "planned" ELSE "draft"]
             /\ Go(p, Return([r EXCEPT !.doc = d], "create"))
  /\ UNCHANGED <<rows, moved, reversals, stock, register, told, order, cause, requests, deaths>>

EditHeader(p) ==
  LET r == proc[p] IN
  /\ r.at = "edit"
  /\ IF doc[r.doc].status = "draft" THEN Goto(p, "edited") ELSE Refuse(p)
  /\ UNCHANGED <<tables, cause, requests, deaths>>

\* The lines are deleted and inserted again; a reservation, active or past,
\* refers to the old ones and stops it (foreign key, no cascade).
EditDone(p) ==
  LET r == proc[p]
      drop(q) == [proc[q] EXCEPT !.lines = FALSE, !.late = @ \/ Holds(proc[q], r.doc)]
  IN
  /\ r.at = "edited"
  /\ IF rows[r.doc] # "none"
     THEN Refuse(p) /\ UNCHANGED <<doc, cause>>
     ELSE /\ doc' = [doc EXCEPT ![r.doc] = [status |-> "draft", flag |-> FALSE, reversed |-> FALSE]]
          /\ cause' = cause \cup Raced(r)
          /\ proc' = [q \in Proc |-> CASE q = p -> Return(r, "edit")
                                       [] q # p /\ proc[q].doc = r.doc -> drop(q)
                                       [] OTHER -> proc[q]]
  /\ UNCHANGED <<rows, moved, reversals, stock, register, told, order, requests, deaths>>

-----------------------------------------------------------------------------
(* reverseWarehouseDocument.                                               *)

\* Mutant of ReverseHeader: a reversed document is reversed again.
ReverseHeaderAgain(p) ==
  LET r == proc[p] IN
  /\ r.at = "reversal"
  /\ IF doc[r.doc].status = "posted"
     THEN Go(p, [r EXCEPT !.at = "movements", !.flag = doc[r.doc].flag]) ELSE Refuse(p)
  /\ UNCHANGED <<tables, cause, requests, deaths>>

ReverseHeader(p) ==
  LET r == proc[p] IN
  /\ r.at = "reversal"
  /\ IF doc[r.doc].status = "posted" /\ ~doc[r.doc].reversed
     THEN Go(p, [r EXCEPT !.at = "movements", !.flag = doc[r.doc].flag]) ELSE Refuse(p)
  /\ UNCHANGED <<tables, cause, requests, deaths>>

\* The registered movements, not the lines, are reversed.  They come in no
\* order: where the total suffices, one on the way to it may not.
ReverseStock(p) ==
  LET r == proc[p]
      touched == {Lines[r.doc][i].place : i \in {j \in DOMAIN Lines[r.doc] : moved[r.doc][j] > 0}}
      back == [k \in touched |-> - Registered(r.doc, k)]
      taken(k) == SumFunction([i \in DOMAIN Lines[r.doc] |->
                    IF Moves(r.doc, k)[i] > 0 THEN moved[r.doc][i] * Moves(r.doc, k)[i] ELSE 0])
  IN
  /\ r.at = "movements"
  /\ \/ /\ touched # {} /\ \A k \in touched : stock[k].qty + back[k] >= 0
        /\ Go(p, [r EXCEPT !.at = "number", !.back = back,
                          !.plan = [k \in Place |-> IF k \in touched
                                                    THEN [stock[k] EXCEPT !.qty = @ + back[k]]
                                                    ELSE stock[k]]])
     \/ /\ touched = {} \/ \E k \in touched : stock[k].qty < taken(k)
        /\ Refuse(p)
  /\ UNCHANGED <<tables, cause, requests, deaths>>

\* docNoTaken: a second reversal takes a number with a suffix.
ReverseNumber(p) ==
  LET r == proc[p] IN
  /\ r.at = "number"
  /\ Go(p, [r EXCEPT !.at = "reverse", !.free = reversals[r.doc] = 0])
  /\ UNCHANGED <<tables, cause, requests, deaths>>

\* One transaction; the marks of the original are those read at the start.
ReverseDone(p) ==
  LET r == proc[p]
      touched == DOMAIN r.back
      clash == \E k \in touched : stock[k].row /\ ~r.plan[k].row
  IN
  /\ r.at = "reverse"
  /\ IF (r.free /\ reversals[r.doc] > 0) \/ clash
     THEN Refuse(p) /\ UNCHANGED <<doc, reversals, stock, register, cause>>
     ELSE /\ reversals' = [reversals EXCEPT ![r.doc] = @ + 1]
          /\ stock' = [k \in Place |-> IF k \in touched THEN [r.plan[k] EXCEPT !.row = TRUE]
                                       ELSE stock[k]]
          /\ register' = [k \in Place |-> IF k \in touched THEN register[k] + r.back[k] ELSE register[k]]
          /\ doc' = [doc EXCEPT ![r.doc].flag = r.flag, ![r.doc].reversed = TRUE]
          /\ cause' = cause \cup Raced(r) \cup {<<"lost", k>> : k \in r.stale \cap touched}
          /\ Write(p, [Idle EXCEPT !.op = r.op, !.at = "tell", !.doc = r.doc], touched, {r.doc})
  /\ UNCHANGED <<rows, moved, told, order, requests, deaths>>

-----------------------------------------------------------------------------
(* reserveAssemblyDraftReservation and releaseAssemblyDraftReservation.    *)

Needed(d) == {k \in Places(d) : Needs(d, k) > 0}
Available(d) == \A k \in Needed(d) : stock[k].qty - stock[k].res >= Needs(d, k)

ReserveHeader(p) ==
  LET r == proc[p] IN
  /\ r.at = "reserve"
  /\ CASE doc[r.doc].status # "draft" -> Refuse(p)
       [] doc[r.doc].status = "draft" /\ doc[r.doc].flag -> Go(p, Return(r, "reserve"))
       [] OTHER -> IF Needed(r.doc) # {} /\ Available(r.doc)
                   THEN Go(p, [r EXCEPT !.at = "reserved", !.lines = TRUE,
                                         !.reversed = doc[r.doc].reversed])
                   ELSE Refuse(p)
  /\ UNCHANGED <<tables, cause, requests, deaths>>

\* The balances are locked and checked again, the header is not.
ReserveDone(p) ==
  LET r == proc[p]
      d == r.doc
  IN
  /\ r.at = "reserved"
  /\ IF Available(d) /\ rows[d] # "active" /\ r.lines
     THEN /\ stock' = [k \in Place |-> IF k \in Needed(d) THEN [stock[k] EXCEPT !.res = @ + Needs(d, k)]
                                       ELSE stock[k]]
          /\ rows' = [rows EXCEPT ![d] = "active"]
          /\ doc' = [doc EXCEPT ![d].flag = TRUE, ![d].reversed = r.reversed]
          /\ cause' = cause \cup Raced(r)
          /\ Write(p, Return(r, "reserve"), Needed(d), {d})
     ELSE Refuse(p) /\ UNCHANGED <<doc, rows, stock, cause>>
  /\ UNCHANGED <<moved, reversals, register, told, order, requests, deaths>>

ReleaseHeader(p) ==
  LET r == proc[p] IN
  /\ r.at = "release"
  /\ IF doc[r.doc].flag
     THEN Go(p, [r EXCEPT !.at = "released", !.held = rows[r.doc] = "active",
                          !.reversed = doc[r.doc].reversed])
     ELSE Go(p, Return(r, "release"))
  /\ UNCHANGED <<tables, cause, requests, deaths>>

\* Mutant of ReleaseDone: the reservation is closed, its quantity stays reserved.
ReleaseDoneRowsOnly(p) ==
  LET r == proc[p] IN
  /\ r.at = "released"
  /\ rows' = [rows EXCEPT ![r.doc] = IF r.held THEN "past" ELSE @]
  /\ doc' = [doc EXCEPT ![r.doc].flag = FALSE, ![r.doc].reversed = r.reversed]
  /\ cause' = cause \cup Raced(r)
  /\ Write(p, Return(r, "release"), {}, {r.doc})
  /\ UNCHANGED <<moved, reversals, stock, register, told, order, requests, deaths>>

\* The quantity goes back whether the reservation is still active or not.
ReleaseDone(p) ==
  LET r == proc[p]
      d == r.doc
      less(k) == IF stock[k].res < Needs(d, k) THEN 0 ELSE stock[k].res - Needs(d, k)
  IN
  /\ r.at = "released"
  /\ stock' = [k \in Place |-> IF k \in Needed(d) /\ stock[k].row
                               THEN [stock[k] EXCEPT !.res = less(k)] ELSE stock[k]]
  /\ rows' = [rows EXCEPT ![d] = IF r.held THEN "past" ELSE @]
  /\ doc' = [doc EXCEPT ![d].flag = FALSE, ![d].reversed = r.reversed]
  /\ cause' = cause \cup Raced(r)
  /\ Write(p, Return(r, "release"), Needed(d), {d})
  /\ UNCHANGED <<moved, reversals, register, told, order, requests, deaths>>

-----------------------------------------------------------------------------
(* workOrderClosingService.                                                *)

Load(p) ==
  LET r == proc[p]
      o == order[r.order]
      status == doc[o.doc].status
      to(step) == Go(p, [r EXCEPT !.at = step, !.doc = o.doc])
  IN
  /\ r.at = "load"
  /\ CASE r.op = "closeOrder" ->
            IF o.status = "closed" /\ o.doc # None THEN Refuse(p) ELSE Goto(p, "create")
       [] r.op = "saveDraft" ->
            CASE o.status = "closed" -> Refuse(p)
              [] o.status # "closed" /\ o.doc = None -> Goto(p, "create")
              [] OTHER -> CASE status = "posted"    -> Refuse(p)
                            [] status = "cancelled" -> Goto(p, "create")
                            [] OTHER                -> to("release")
       [] r.op = "postOrder" ->
            CASE o.doc = None \/ o.status = "closed" -> Refuse(p)
              [] OTHER -> CASE status = "posted" -> to("release")
                            [] status = "draft"  -> to("post")
                            [] OTHER             -> Refuse(p)
       [] r.op = "deleteDraft" ->
            CASE o.doc = None \/ o.status = "closed" -> Refuse(p)
              [] OTHER -> CASE status = "posted" -> Refuse(p)
                            [] status = "draft"  -> to("release")
                            [] OTHER             -> to("unlink")
  /\ UNCHANGED <<tables, cause, requests, deaths>>

\* The last statement of a work order request: the operation row, read at the
\* start, is written without a condition.
SetOrder(p, step, o) ==
  /\ proc[p].at = step
  /\ order' = [order EXCEPT ![proc[p].order] = o]
  /\ cause' = cause \cup Raced(proc[p])
  /\ Go(p, Idle)
  /\ UNCHANGED <<doc, rows, moved, reversals, stock, register, told, requests, deaths>>

Link(p)   == SetOrder(p, "link", [status |-> "open", doc |-> proc[p].doc])
Close(p)  == SetOrder(p, "close", [status |-> "closed", doc |-> proc[p].doc])
Unlink(p) == SetOrder(p, "unlink", [status |-> order[proc[p].order].status, doc |-> None])

-----------------------------------------------------------------------------
(* Requests, and requests that never finish.                               *)

\* A request for one document, from the warehouse cards.
AskDoc(p, d, op) ==
  /\ proc[p] = Idle /\ doc[d].status # "absent" /\ requests < MaxRequests
  /\ proc' = [proc EXCEPT ![p].op = op, ![p].doc = d,
                          ![p].at = IF op = "reverse" THEN "reversal" ELSE op]
  /\ cause' = IF OrderOf[d] = None THEN cause ELSE cause \cup {<<"direct", d>>}
  /\ requests' = requests + 1
  /\ UNCHANGED <<tables, deaths>>

\* A request for a work order.
AskOrder(p, o, op) ==
  /\ proc[p] = Idle /\ requests < MaxRequests
  /\ op = "closeOrder" \/ o \in Reservable
  /\ proc' = [proc EXCEPT ![p].op = op, ![p].order = o, ![p].at = "load"]
  /\ requests' = requests + 1
  /\ UNCHANGED <<tables, cause, deaths>>

\* The instance stops, or a statement fails.
Die(p) ==
  /\ proc[p] # Idle /\ deaths < MaxDeaths
  /\ deaths' = deaths + 1
  /\ cause' = cause \cup TornBy(proc[p])
  /\ Refuse(p)
  /\ UNCHANGED <<tables, requests>>

Next == \E p \in Proc :
  \/ \E d \in Doc, op \in {"post", "plan", "cancel", "edit", "reverse"} : AskDoc(p, d, op)
  \/ \E o \in Order, op \in {"saveDraft", "postOrder", "deleteDraft", "closeOrder"} : AskOrder(p, o, op)
  \/ PostHeader(p) \/ PostStock(p) \/ PostBalance(p) \/ PostMovement(p) \/ PostDone(p)
  \/ Tell(p) \/ Publish(p)
  \/ PlanHeader(p) \/ PlanDone(p) \/ CancelHeader(p) \/ CancelDone(p)
  \/ Create(p) \/ EditHeader(p) \/ EditDone(p)
  \/ ReverseHeader(p) \/ ReverseStock(p) \/ ReverseNumber(p) \/ ReverseDone(p)
  \/ ReserveHeader(p) \/ ReserveDone(p) \/ ReleaseHeader(p) \/ ReleaseDone(p)
  \/ Load(p) \/ Link(p) \/ Close(p) \/ Unlink(p)
  \/ Die(p)

Spec == Init /\ [][Next]_vars

-----------------------------------------------------------------------------
(* Properties.                                                             *)

Steps == {"idle", "post", "stock", "balance", "movement", "posted", "tell", "publish", "plan",
          "planned", "cancel", "cancelled", "create", "edit", "edited", "reversal", "movements",
          "number", "reverse", "reserve", "reserved", "release", "released", "load", "link",
          "close", "unlink"}
Ops == {"idle", "post", "plan", "cancel", "edit", "reverse", "saveDraft", "postOrder",
        "deleteDraft", "closeOrder"}
Balance == [row : BOOLEAN, qty : Nat, res : Nat]

\* The shape of the tables and of the requests; no balance is ever below zero.
TypeOK ==
  /\ doc \in [Doc -> [status : {"absent", "draft", "planned", "posted", "cancelled"},
                      flag : BOOLEAN, reversed : BOOLEAN]]
  /\ rows \in [Doc -> {"none", "active", "past"}]
  /\ DOMAIN moved = Doc /\ \A d \in Doc : moved[d] \in [DOMAIN Lines[d] -> Nat]
  /\ reversals \in [Doc -> Nat]
  /\ stock \in [Place -> Balance]
  /\ register \in [Place -> Int] /\ told \in [Place -> Nat]
  /\ order \in [Order -> [status : {"open", "closed"}, doc : Doc \cup {None}]]
  /\ DOMAIN proc = Proc
  /\ \A p \in Proc : LET r == proc[p] IN
       /\ r.op \in Ops /\ r.at \in Steps
       /\ r.doc \in Doc \cup {None} /\ r.order \in Order \cup {None}
       /\ {r.flag, r.reversed, r.held, r.free, r.lines, r.late} \subseteq BOOLEAN
       /\ r.plan \in [Place -> Balance]
       /\ DOMAIN r.back \subseteq Place /\ r.back \in [DOMAIN r.back -> Int]
       /\ r.i \in Nat /\ r.stale \subseteq Place
  /\ requests \in 0..MaxRequests /\ deaths \in 0..MaxDeaths

Blamed(why, what) == <<why, what>> \in cause
\* Another request changed the document under a request that had read it.
Overlapped(d) == Blamed("raced", d) \/ \E p \in Proc : proc[p].late /\ proc[p].doc = d
Disturbed(d) == Overlapped(d) \/ Blamed("torn", d)

\* The balance of a place is the sum of its movements, whatever requests ran,
\* were refused, failed or were repeated, unless a request wrote a total
\* computed from a balance that had changed since, or stopped, or still is,
\* between the balance and its movements.
StockMatchesRegister ==
  \A k \in Place : stock[k].qty # register[k] =>
    \/ Blamed("lost", k) \/ Blamed("torn", k)
    \/ \E p \in Proc : k \in Half(proc[p])

\* Posting is idempotent: a line is registered twice only when two requests
\* overlapped on the document or an earlier one stopped in the middle.
PostedOnce ==
  \A d \in Doc : (\E i \in DOMAIN moved[d] : moved[d][i] > 1) => Disturbed(d)

\* A document is reversed once, unless requests overlapped on it.
ReversedOnce == \A d \in Doc : reversals[d] > 1 => Overlapped(d)

Reserved(k) == SumFunction([d \in Doc |-> IF rows[d] = "active" THEN Needs(d, k) ELSE 0])

\* reserved_qty of a place is what the active reservations hold there, unless
\* a posting wrote back an old reserved_qty or requests overlapped on a
\* document with a line there.
ReservedMatchesRows ==
  \A k \in Place : stock[k].res # Reserved(k) =>
    Blamed("lost", k) \/ \E d \in Doc : k \in Places(d) /\ Overlapped(d)

\* An active reservation has a document that still leads to its end: a draft,
\* or a posted one of an order whose request can be repeated, unless the
\* document was handled outside its order or requests overlapped on it.
ReservationHasOwner ==
  \A d \in Doc : rows[d] = "active" =>
    \/ doc[d].status = "draft"
    \/ doc[d].status = "posted" /\ order[OrderOf[d]].status = "open"
    \/ Blamed("direct", d) \/ Overlapped(d)

\* The status of a document says what the register holds of it: a posted one
\* has moved every line, any other nothing.  Excepted are a document being
\* posted (a cancelled one of a kind that is not planned can be, too), and one
\* whose requests overlapped or stopped half way.
StatusMatchesRegister ==
  \A d \in Doc :
    \/ \A i \in DOMAIN moved[d] : moved[d][i] > 0 <=> doc[d].status = "posted"
    \/ \E p \in Proc : proc[p].doc = d /\ proc[p].at \in {"balance", "movement", "posted"}
    \/ Disturbed(d)

\* The parts of a closed order have left the stock and nothing of them is
\* reserved any more.
ClosedMeansConsumed ==
  \A o \in Order : order[o].status = "closed" =>
    \E d \in Doc : OrderOf[d] = o /\
      \/ /\ order[o].doc = d /\ doc[d].status = "posted"
         /\ \A i \in DOMAIN moved[d] : moved[d][i] > 0
         /\ rows[d] # "active"
      \/ Disturbed(d)

\* A work order never has two documents: a crash before the link is saved, a
\* deleted draft and a repeated save cannot consume the parts twice.
OneDocumentPerOrder ==
  \A d, e \in Doc : OrderOf[d] # None /\ OrderOf[d] = OrderOf[e] /\ d # e =>
    doc[d].status = "absent" \/ doc[e].status = "absent"

\* The last quantity signed into the ledger is the balance, unless a request
\* is on its way to sign, stopped before, or was overtaken between reading
\* the balance and signing it.
LedgerTellsStock ==
  \A k \in Place : told[k] # stock[k].qty =>
    \/ Blamed("untold", k)
    \/ \E p \in Proc : /\ proc[p].at \in {"balance", "movement", "posted", "tell", "publish"}
                       /\ k \in Places(proc[p].doc)

\* An order whose document exists but is not linked, and that no request has
\* taken further than the creation of a document.
Stranded(o) ==
  /\ NumberTaken(o) /\ order[o].doc = None
  /\ \A p \in Proc : proc[p].order = o => proc[p].at \in {"load", "create"}

\* The other side of the unique number: an order stranded by the deletion of
\* its draft or by a first save that failed stays so for ever, whatever
\* requests are made for it and for its document.
StrandedOrder == [][\A o \in Order : Stranded(o) => Stranded(o)']_vars

\* Claimed by the comments on saveAssemblyWorkOrderDraft and on
\* deleteAssemblyWorkOrderDraft, and not so: an order whose document is
\* cancelled gets a new one when it is saved again.
CancelledIsReplaced ==
  [][\A p \in Proc :
       /\ At(p, {"saveDraft"}, "create") /\ deaths' = deaths
       /\ \A d \in Doc : OrderOf[d] = proc[p].order => doc[d].status \in {"absent", "cancelled"}
       => proc'[p].at # "idle"]_vars
=============================================================================
