------------------------------ MODULE UsbBytes ------------------------------
(***************************************************************************)
(* The state of usb.device.core.Buffer: the bytearray, a function on its   *)
(* indices, and the two counters.                                          *)
(***************************************************************************)
EXTENDS Integers

CONSTANTS
  Byte,     \* the values of a byte
  Length    \* Buffer(length)

ASSUME LengthAssumption == Length \in Nat \ {0}

VARIABLES
  b,        \* _b
  n,        \* _n
  w         \* _w

Index == 0..(Length - 1)

\* a with the k bytes that start at index from copied to index to, all at once.
Moved(a, from, to, k) ==
  [i \in Index |-> IF to <= i /\ i < to + k THEN a[from + i - to] ELSE a[i]]
============================================================================
