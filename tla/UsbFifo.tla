------------------------------ MODULE UsbFifo ------------------------------
(***************************************************************************)
(* What usb.device.core.Buffer promises to its one producer and its one    *)
(* consumer: the bytes come out in the order they went in, none lost, none *)
(* repeated, and at most Length of them are inside at any time.  How the   *)
(* bytes lie in memory and what the two parties do in between (UsbBuffer)  *)
(* does not show.                                                          *)
(***************************************************************************)
EXTENDS Integers, Sequences

CONSTANTS
  Byte,     \* the values of a byte
  Length    \* Buffer(length)

VARIABLES
  sent,     \* every byte the producer has declared written, in order
  rcvd      \* every byte the consumer has declared read, in order

vars == <<sent, rcvd>>

Chunk == UNION {[1..k -> Byte] : k \in 0..Length}

Held == Len(sent) - Len(rcvd)

Init ==
  /\ sent = <<>>
  /\ rcvd = <<>>

Write(chunk) ==
  /\ Held + Len(chunk) <= Length
  /\ sent' = sent \o chunk
  /\ UNCHANGED rcvd

Read(k) ==
  /\ k <= Held
  /\ rcvd' = SubSeq(sent, 1, Len(rcvd) + k)
  /\ UNCHANGED sent

Next ==
  \/ \E chunk \in Chunk : Write(chunk)
  \/ \E k \in 1..Length : Read(k)

Spec == Init /\ [][Next]_vars
============================================================================
