--------------------------- MODULE MCDatasetCache ---------------------------
(* TLC instance of DatasetCache: a dump with rows before and after the end  *)
(* of its table and lines that are none, one that has grown, and one        *)
(* without rows; batches of two.                                            *)
EXTENDS DatasetCache

Short == <<"row", "copy", "row", "bad", "copy", "row", "row", "end", "row">>
Grown == <<"other", "copy", "row", "row", "row", "row", "row">>
Empty == <<"copy", "bad", "end", "row">>

MCDumps == {Short, Grown, Empty}
MCRequests == {0, 1, 3, 4}
=============================================================================
