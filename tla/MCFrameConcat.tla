--------------------------- MODULE MCFrameConcat ---------------------------
(***************************************************************************)
(* FrameConcat for TLC: any diagram of two- and three-part frames with one *)
(* of three task ids, in any order and any number of times.                *)
(***************************************************************************)
EXTENDS FrameConcat

MCDiagrams ==
    UNION {[task : {1}, id : 0..1, num : {2}],
           [task : {2}, id : 0..2, num : {3}],
           [task : {3}, id : 0..1, num : {2, 3}]}
=============================================================================
