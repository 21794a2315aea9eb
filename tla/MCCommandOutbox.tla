-------------------------- MODULE MCCommandOutbox --------------------------
(* Two edits and a cancellation of a document that exists, the creation of   *)
(* another one, and a push.                                                 *)
EXTENDS CommandOutbox, TLC

CONSTANTS old, new, edit1, edit2, cancel, create, push

MCDocument == {old, new}
MCExisting == {old}
MCKind == [c \in Cmd |-> CASE c = create -> "create" [] c = cancel -> "cancel"
                           [] c = push -> "push" [] OTHER -> "edit"]
MCTarget == [c \in Cmd |-> CASE c = create -> new [] c = push -> None [] OTHER -> old]
Symmetry == {a @@ b @@ c @@ d : a \in Permutations(Slot), b \in Permutations(Inst),
                                 c \in Permutations(Task), d \in Permutations({edit1, edit2})}
=============================================================================
