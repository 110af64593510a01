------------------------------- MODULE KeyFifo -------------------------------
(***************************************************************************)
(* What an EFI_KEY_QUEUE of KeypadDxe promises, whatever its layout: a     *)
(* first-in first-out queue of at most Capacity keys, which forgets its    *)
(* oldest key to make room for a new one.  KeyQueue implements it.         *)
(***************************************************************************)
EXTENDS DropOldest

CONSTANTS
  Keys,       (* The values of EFI_KEY_DATA.                               *)
  Partial,    (* The key without scan code and character.                  *)
  NotReady    (* EFI_NOT_READY in place of a key.                          *)

VARIABLES
  fifo,   (* The keys that wait, the oldest first.                         *)
  did     (* The last operation, with the key it was given or returned.    *)

fifoVars == <<fifo, did>>

Did(op, k) == [op |-> op, key |-> k]

First(q) == IF q = <<>> THEN NotReady ELSE Head(q)

(* n partial keys are all there are before the first key worth waiting for. *)
SkipsTo(q, n) ==
  /\ \A i \in 1 .. n : q[i] = Partial
  /\ n < Len(q) => q[n + 1] # Partial

FifoInit == fifo = <<>> /\ did = Did("reset", NotReady)

Push(k) == fifo' = Pushed(fifo, k) /\ did' = Did("push", k)
Pop == fifo' = Rest(fifo) /\ did' = Did("pop", First(fifo))
Reset == fifo' = <<>> /\ did' = Did("reset", NotReady)

(* WaitForKey: partial keys at the head go, a key that is left is reported. *)
Wait ==
  \E n \in 0 .. Len(fifo) :
    /\ SkipsTo(fifo, n)
    /\ fifo' = SubSeq(fifo, n + 1, Len(fifo))
    /\ did' = Did("wait", First(fifo'))

FifoNext == (\E k \in Keys : Push(k)) \/ Pop \/ Wait \/ Reset

FifoSpec == FifoInit /\ [][FifoNext]_fifoVars
=============================================================================
