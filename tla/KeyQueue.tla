------------------------------ MODULE KeyQueue ------------------------------
(***************************************************************************)
(* EFI_KEY_QUEUE, the ring buffer of KeypadDxe: EfiKeyQueue, which the     *)
(* console reads, and EfiKeyQueueForNotify are two of these.  Every        *)
(* operation runs at TPL_NOTIFY, the highest level that touches the queue, *)
(* so each is one step.                                                    *)
(***************************************************************************)
EXTENDS Integers, Sequences

CONSTANTS
  Size,       (* KEYPAD_EFI_KEY_MAX_COUNT, 256 in the code.                *)
  Keys,       (* The values of EFI_KEY_DATA.                               *)
  Partial,    (* Key.ScanCode = SCAN_NULL and Key.UnicodeChar = CHAR_NULL, *)
              (* which is also what AllocateZeroPool fills the buffer with. *)
  NotReady    (* EFI_NOT_READY, returned instead of a key.                 *)

ASSUME QueueAssumption ==
  /\ Size \in Nat /\ Size >= 2
  /\ Partial \in Keys
  /\ NotReady \notin Keys

VARIABLES
  head, tail,   (* Queue->Head and Queue->Tail.                            *)
  buffer,       (* Queue->Buffer.                                          *)
  did           (* History: the last operation, with the key it was given  *)
                (* or handed out.                                          *)

queueVars == <<head, tail, buffer, did>>

Did(op, k) == [op |-> op, key |-> k]

Slots == 0 .. Size - 1

Advanced(i) == (i + 1) % Size

IsEfikeyBufEmpty == head = tail

IsFull == Advanced(tail) = head

(* Mutant: a full queue is overrun.                                        *)
OverrunningPush(k) ==
  /\ head' = head
  /\ buffer' = [buffer EXCEPT ![tail] = k]
  /\ tail' = Advanced(tail)
  /\ did' = Did("push", k)

(* PushEfikeyBufTail.                                                      *)
Push(k) ==
  /\ head' = IF IsFull THEN Advanced(head) ELSE head
  /\ buffer' = [buffer EXCEPT ![tail] = k]
  /\ tail' = Advanced(tail)
  /\ did' = Did("push", k)

(* PopEfikeyBufHead, as KeypadReadKeyStrokeWorker and                      *)
(* KeyNotifyProcessHandler call it.                                        *)
Pop ==
  /\ IF IsEfikeyBufEmpty
     THEN head' = head /\ did' = Did("pop", NotReady)
     ELSE head' = Advanced(head) /\ did' = Did("pop", buffer[head])
  /\ UNCHANGED <<tail, buffer>>

(* The number of keys between the indices, and the i-th of them.           *)
Count == IF head <= tail THEN tail - head ELSE tail + Size - head
Slot(i) == IF head + i - 1 < Size THEN head + i - 1 ELSE head + i - 1 - Size

(* The loop of KeypadWaitForKey pops the n partial keys at the head, and   *)
(* signals the event if a key remains: did has that key.                   *)
WaitForKeyPops ==
  \E n \in 0 .. Count :
    /\ \A i \in 1 .. n : buffer[Slot(i)] = Partial
    /\ n < Count => buffer[Slot(n + 1)] # Partial
    /\ head' = Slot(n + 1)
    /\ did' = Did("wait", IF n = Count THEN NotReady ELSE buffer[Slot(n + 1)])
    /\ UNCHANGED <<tail, buffer>>

(* InitKeypad empties the queue and leaves the buffer.                     *)
Reset ==
  /\ head' = 0 /\ tail' = 0
  /\ did' = Did("reset", NotReady)
  /\ UNCHANGED buffer

QueueInit ==
  /\ head = 0 /\ tail = 0
  /\ buffer = [i \in Slots |-> Partial]
  /\ did = Did("reset", NotReady)

QueueNext == (\E k \in Keys : Push(k)) \/ Pop \/ WaitForKeyPops \/ Reset

QueueSpec == QueueInit /\ [][QueueNext]_queueVars
-----------------------------------------------------------------------------
(* The indices stay inside the buffer, which holds keys only.              *)
QueueTypeOK ==
  /\ head \in Slots /\ tail \in Slots
  /\ buffer \in [Slots -> Keys]
  /\ did \in [op : {"push", "pop", "wait", "reset"}, key : Keys \cup {NotReady}]

(* The keys that wait, the oldest first.                                   *)
Contents == [i \in 1 .. Count |-> buffer[Slot(i)]]

Fifo == INSTANCE KeyFifo WITH Capacity <- Size - 1, fifo <- Contents

(* The ring implements the bounded queue that drops its oldest key: no     *)
(* wrap of either index, overrun or reset loses, repeats or reorders a key. *)
IsFifo == Fifo!FifoSpec
=============================================================================
