----------------------------- MODULE DropOldest -----------------------------
(***************************************************************************)
(* The contents of an EFI_KEY_QUEUE of KeypadDxe as a sequence: at most      *)
(* Capacity keys, the oldest first, and the oldest goes to make room.       *)
(***************************************************************************)
EXTENDS Integers, Sequences

CONSTANT Capacity   (* KEYPAD_EFI_KEY_MAX_COUNT - 1.                        *)

Pushed(q, k) == Append(IF Len(q) = Capacity THEN Tail(q) ELSE q, k)

(* The queue after m pushes of k.                                           *)
PushedTimes(q, m, k) ==
  LET lost == IF Len(q) + m > Capacity THEN Len(q) + m - Capacity ELSE 0
  IN [i \in 1 .. Len(q) + m - lost |-> IF i + lost <= Len(q) THEN q[i + lost] ELSE k]

Rest(q) == IF q = <<>> THEN q ELSE Tail(q)
=============================================================================
