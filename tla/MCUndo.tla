------------------------------- MODULE MCUndo -------------------------------
(* A small undo database: one or two indexes, few ids, keys and values. *)
EXTENDS UndoHistory

MCMaxSizes == {1, 2}
=============================================================================
