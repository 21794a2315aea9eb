---------------------------- MODULE MCClientSync ----------------------------
(* One client with a catalogue row and a row that refers to it.             *)
EXTENDS ClientSync

CONSTANTS t, e

MCRow == {t, e}
MCCatalog == {t}
MCTypesOf == [r \in MCRow |-> IF r = e THEN {t} ELSE {}]
MCNoTypes == [r \in MCRow |-> {}]
MCNone == {}
MCEntities == {e}
=============================================================================
