------------------------------ MODULE TokenCursor ------------------------------
(***************************************************************************)
(* What the parser may assume of the lexer: a cursor over the tokens of    *)
(* the file, which are numbered from 1, and a stack of marks to return to. *)
(* Looking ahead does not move the cursor, so it is a stuttering step.     *)
(* src/src/vhdl/lexer.h promises this in the comments of scan, peek,       *)
(* add_checkpoint, backtrack and drop_checkpoint, but for a fragile mark:  *)
(* one above which another mark was forgotten after the cursor had moved.  *)
(* Nothing is promised once a fragile mark was returned to.                *)
(***************************************************************************)
EXTENDS Naturals, Sequences

VARIABLES
  position,   \* the number of the current token; 0 before the first scan
  marks,      \* the positions to return to, the last one on top
  fragile,    \* the places in marks of those that cannot be returned to
  broken      \* one of them was returned to

cursor == <<position, marks, fragile, broken>>

Front(s) == SubSeq(s, 1, Len(s) - 1)

Start ==
  /\ position = 0
  /\ marks = <<>>
  /\ fragile = {}
  /\ broken = FALSE

Advance == position' = position + 1 /\ UNCHANGED <<marks, fragile, broken>>

Mark == marks' = Append(marks, position) /\ UNCHANGED <<position, fragile, broken>>

Return ==
  /\ marks # <<>>
  /\ Len(marks) \notin fragile
  /\ position' = marks[Len(marks)]
  /\ marks' = Front(marks)
  /\ UNCHANGED <<fragile, broken>>

(* Where the cursor is after this is not said.                             *)
ReturnToFragile ==
  /\ marks # <<>>
  /\ Len(marks) \in fragile
  /\ broken' = TRUE

Forget ==
  /\ marks # <<>>
  /\ marks' = Front(marks)
  /\ fragile' = (fragile \ {Len(marks)}) \cup
                (IF /\ Len(marks) > 1
                    /\ position # marks[Len(marks)] \/ Len(marks) \in fragile
                   THEN {Len(marks) - 1} ELSE {})
  /\ UNCHANGED <<position, broken>>

Broken == broken /\ broken'

CursorSpec ==
  Start /\ [][Advance \/ Mark \/ Return \/ Forget \/ ReturnToFragile \/ Broken]_cursor
================================================================================
