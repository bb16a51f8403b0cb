------------------------------ MODULE Timeline ------------------------------
(***************************************************************************)
(* What the history of a workspace promises its user: a stack of snapshots *)
(* and a cursor.  A new snapshot goes on top of the cursor and drops what  *)
(* could have been redone, an amendment replaces the top, and undo, redo   *)
(* and goto only move the cursor.                                          *)
(*                                                                         *)
(* Until the timeline file is written for the first time the stack is what *)
(* the git branch says, and the branch has no redo stack: going back then  *)
(* cuts it, until the file is written with what was cut off.               *)
(***************************************************************************)
EXTENDS Integers, Sequences

CONSTANT Snapshots

VARIABLES stack, cursor, written

tvars == <<stack, cursor, written>>

TInit == stack = <<>> /\ cursor = 0 /\ ~written

Push ==
  /\ cursor' = cursor + 1 /\ Len(stack') = cursor'
  /\ \A i \in 1 .. cursor : stack'[i] = stack[i]
  /\ stack'[cursor'] \in Snapshots
  /\ UNCHANGED written

Amend ==
  /\ cursor > 0 /\ cursor = Len(stack)
  /\ Len(stack') = cursor
  /\ \A i \in 1 .. cursor - 1 : stack'[i] = stack[i]
  /\ stack'[cursor] \in Snapshots
  /\ UNCHANGED <<cursor, written>>

Move == \E i \in 1 .. Len(stack) :
  /\ cursor' = i
  /\ UNCHANGED <<stack, written>>

Cut ==
  /\ ~written
  /\ \E i \in 1 .. Len(stack) : cursor' = i /\ stack' = SubSeq(stack, 1, i)
  /\ UNCHANGED written

FirstFile ==
  /\ ~written /\ written'
  /\ Len(stack') >= Len(stack)
  /\ \A i \in 1 .. Len(stack) : stack'[i] = stack[i]
  /\ \A i \in 1 .. Len(stack') : stack'[i] \in Snapshots
  /\ UNCHANGED cursor

TNext == Push \/ Amend \/ Move \/ Cut \/ FirstFile
TSpec == TInit /\ [][TNext]_tvars
=============================================================================
