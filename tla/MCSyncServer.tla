---------------------------- MODULE MCSyncServer ----------------------------
(* A definition and a value that refers to it, which two clients have made    *)
(* each under ids of their own: d1 and d2 have one code, v1 and v2 one pair.  *)
EXTENDS SyncServer

CONSTANTS d1, d2, v1, v2, w1, w2, c1

MCRow == {d1, d2, v1, v2}
MCKeyOf == [r \in MCRow |-> IF r \in {d1, d2} THEN "code" ELSE "pair"]
MCParent == [r \in MCRow |-> CASE r = v1 -> d1 [] r = v2 -> d2 [] OTHER -> None]
MCTableOf == [r \in MCRow |-> IF r \in {d1, d2} THEN 1 ELSE 2]
MCTwoWriters == {w1, w2}
MCOneWriter == {w1}
MCPushes == [w \in MCTwoWriters |-> IF w = w1 THEN {d1, v1} ELSE {d2, v2}]
MCPushesAll == [w \in MCOneWriter |-> MCRow]
MCPushesOne == [w \in MCTwoWriters |-> {d1, v1}]
MCClient == {c1}
MCVisible == [c \in MCClient |-> MCRow]
MCOneHidden == [c \in MCClient |-> MCRow \ {v1}]
=============================================================================
