-------------------------- MODULE MCStockDocuments --------------------------
(* A store and the assembly hall: a receipt into the store, a transfer to    *)
(* the hall, whose balance row does not exist yet, and an assembly order,    *)
(* whose documents do so twice: each place is in two of their lines.         *)
EXTENDS StockDocuments

CONSTANTS store, hall, in, tr, a1, a2, w

Out == <<[place |-> store, delta |-> 0 - 1], [place |-> hall, delta |-> 1]>>

MCPlace == {store, hall}
MCDoc == {in, tr, a1, a2}
MCOrder == {w}
MCLines == [d \in MCDoc |-> CASE d = in -> <<[place |-> store, delta |-> 1]>>
                              [] d = tr -> Out
                              [] OTHER  -> Out \o Out]
MCIncoming == {in}
MCOrderOf == [d \in MCDoc |-> IF d \in {a1, a2} THEN w ELSE None]
MCStocked == [k \in MCPlace |-> IF k = store THEN 2 ELSE -1]
=============================================================================
