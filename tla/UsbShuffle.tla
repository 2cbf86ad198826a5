---------------------------- MODULE UsbShuffle ----------------------------
(***************************************************************************)
(* The two loops of usb.device.core.Buffer that shuffle bytes towards      *)
(* index 0, one iteration a step.  finish_write() and finish_read() run    *)
(* them with interrupts off, so nothing else moves; but source and         *)
(* destination may overlap and the loops overwrite bytes as they go.       *)
(* UsbBuffer takes each loop as one simultaneous move (Moved); this module *)
(* says why it may.                                                        *)
(***************************************************************************)
EXTENDS UsbBytes

VARIABLES
  op,           \* "write" (in finish_write), "read" (in finish_read) or "done"
  nbytes,       \* the argument, counted down by finish_write
  idx,          \* i, the index of finish_read
  call          \* history: the operation and b, n, w, nbytes on entry

loop == <<op, b, n, w, nbytes, idx, call>>

Call == [op : {"write", "read"}, b : [Index -> Byte], n : 0..Length,
         w : 0..Length, nbytes : 0..Length]

\* The calls that reach a loop: their assertions hold; finish_write() is on its
\* slow path (_n has fallen behind _w) and finish_read(0) has returned.
Reaches(c) ==
  CASE c.op = "write" -> c.n < c.w /\ c.nbytes <= Length - c.w
    [] c.op = "read"  -> 0 < c.nbytes /\ c.nbytes <= c.n

\* finish_read() takes nbytes off _n before its loop.
LoopInit ==
  /\ call \in {c \in Call : Reaches(c)}
  /\ op = call.op
  /\ b = call.b
  /\ n = IF call.op = "read" THEN call.n - call.nbytes ELSE call.n
  /\ w = call.w
  /\ nbytes = call.nbytes
  /\ idx = 0

\* while nbytes > 0
WriteMore == nbytes > 0

WriteIteration_KeepsW ==
  /\ op = "write"
  /\ WriteMore
  /\ b' = [b EXCEPT ![n] = b[w]]
  /\ n' = n + 1
  /\ nbytes' = nbytes - 1
  /\ UNCHANGED <<op, w, idx, call>>

WriteIteration ==
  /\ op = "write"
  /\ WriteMore
  /\ b' = [b EXCEPT ![n] = b[w]]
  /\ n' = n + 1
  /\ w' = w + 1
  /\ nbytes' = nbytes - 1
  /\ UNCHANGED <<op, idx, call>>

WriteExit ==
  /\ op = "write"
  /\ ~WriteMore
  /\ w' = Length
  /\ op' = "done"
  /\ UNCHANGED <<b, n, nbytes, idx, call>>

\* while i < self._n
ReadMore_OffByOne == idx <= n
ReadMore == idx < n

ReadIteration ==
  /\ op = "read"
  /\ ReadMore
  /\ b' = [b EXCEPT ![idx] = b[idx + nbytes]]
  /\ idx' = idx + 1
  /\ UNCHANGED <<op, n, w, nbytes, call>>

ReadExit ==
  /\ op = "read"
  /\ ~ReadMore
  /\ op' = "done"
  /\ UNCHANGED <<b, n, w, nbytes, idx, call>>

LoopNext ==
  \/ WriteIteration
  \/ WriteExit
  \/ ReadIteration
  \/ ReadExit

LoopSpec == LoopInit /\ [][LoopNext]_loop

----------------------------------------------------------------------------
\* The types of the loops' variables.
LoopTypeOK ==
  /\ op \in {"write", "read", "done"}
  /\ b \in [Index -> Byte]
  /\ n \in 0..Length
  /\ w \in 0..Length
  /\ nbytes \in 0..Length
  /\ idx \in 0..Length
  /\ call \in {c \in Call : Reaches(c)}

\* No iteration of either loop indexes the bytearray outside its bounds.
InBounds ==
  /\ op = "write" /\ WriteMore => n \in Index /\ w \in Index
  /\ op = "read" /\ ReadMore => idx \in Index /\ (idx + nbytes) \in Index

\* The byte-by-byte loops come to one simultaneous move of the block, although
\* source and destination overlap: finish_write() appends the bytes at _w to the
\* valid ones, finish_read() brings what was not read to index 0.
LoopMoves ==
  op = "done" =>
    IF call.op = "write"
      THEN /\ b = Moved(call.b, call.w, call.n, call.nbytes)
           /\ n = call.n + call.nbytes
           /\ w = Length
      ELSE /\ b = Moved(call.b, call.nbytes, 0, call.n - call.nbytes)
           /\ n = call.n - call.nbytes
           /\ w = call.w

============================================================================
