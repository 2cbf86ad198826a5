----------------------------- MODULE UsbBuffer -----------------------------
(***************************************************************************)
(* usb.device.core.Buffer: a bytearray shared by one producer and one      *)
(* consumer, either of which may run in an interrupt that cuts into the    *)
(* other.  Only finish_write() and finish_read() run with interrupts off;  *)
(* everything else interleaves: the load of _n and the store to _w in      *)
(* pend_write(), every byte stored through the producer's memoryview and   *)
(* every byte the consumer (or the USB controller) fetches from its own.   *)
(***************************************************************************)
EXTENDS UsbBytes, Sequences

CONSTANTS
  Zero,     \* what bytearray(length) is filled with
  MaxSent   \* bound: bytes the producer ever writes

ASSUME BufferAssumption ==
  /\ MaxSent \in Nat
  /\ Zero \in Byte

VARIABLES
  ppc,      \* producer: "idle", "load" (inside pend_write), "fill" (holds a view)
  loaded,   \* producer: _n as pend_write() read it
  wlen,     \* producer: length of the memoryview _b[_w:end] it holds
  out,      \* producer: bytes it has stored through that memoryview
  cpc,      \* consumer: "idle", "copy" (holds a view)
  rlen,     \* consumer: length of the memoryview _b[:_n] it holds
  got,      \* consumer: bytes it has fetched through that memoryview
  sent,     \* history: bytes declared written
  rcvd      \* history: bytes declared read

producer == <<ppc, loaded, wlen, out>>
consumer == <<cpc, rlen, got>>
vars == <<b, n, w, producer, consumer, sent, rcvd>>

Least(x, y) == IF x < y THEN x ELSE y

Init ==
  /\ b = [i \in Index |-> Zero]
  /\ n = 0
  /\ w = Length
  /\ ppc = "idle" /\ loaded = 0 /\ wlen = 0 /\ out = <<>>
  /\ cpc = "idle" /\ rlen = 0 /\ got = <<>>
  /\ sent = <<>>
  /\ rcvd = <<>>

----------------------------------------------------------------------------
(* The producer.                                                           *)

\* pend_write(), first half: the load of self._n.  It may be called again
\* while a view is held, which gives the old one up.
WriteStart == n

PendWriteLoad ==
  /\ ppc \in {"idle", "fill"}
  /\ ppc' = "load"
  /\ loaded' = WriteStart
  /\ wlen' = 0
  /\ out' = <<>>
  /\ UNCHANGED <<b, n, w, consumer, sent, rcvd>>

\* pend_write(), second half: the store to self._w and the slice of at most
\* wmax bytes (wmax = Length stands for "no limit").
ViewLen_Unclamped(wmax) == wmax
ViewLen_End(wmax) == loaded + wmax
ViewLen(wmax) == Least(wmax, Length - loaded)

PendWriteStore(wmax) ==
  /\ ppc = "load"
  /\ ppc' = "fill"
  /\ w' = loaded
  /\ wlen' = ViewLen(wmax)
  /\ UNCHANGED <<b, n, loaded, out, consumer, sent, rcvd>>

\* One byte stored through the producer's view.
FillByte(x) ==
  /\ ppc = "fill"
  /\ Len(out) < wlen
  /\ Len(sent) + Len(out) < MaxSent
  /\ b' = [b EXCEPT ![w + Len(out)] = x]
  /\ out' = Append(out, x)
  /\ UNCHANGED <<n, w, ppc, loaded, wlen, consumer, sent, rcvd>>

\* The bytes after finish_write(k): those stored at w are now at n, which is
\* where they were unless something was read meanwhile (n = w, the fast path).
AfterWrite_NotMoved(k) == b
AfterWrite_ToZero(k) == Moved(b, w, 0, k)
AfterWrite(k) == Moved(b, w, n, k)

FinishWrite(k) ==
  /\ ppc = "fill"
  /\ k <= Len(out)
  /\ b' = AfterWrite(k)
  /\ n' = n + k
  /\ w' = Length
  /\ ppc' = "idle" /\ loaded' = 0 /\ wlen' = 0 /\ out' = <<>>
  /\ sent' = sent \o SubSeq(out, 1, k)
  /\ UNCHANGED <<consumer, rcvd>>

----------------------------------------------------------------------------
(* The consumer.                                                           *)

\* pend_read(); it may be called again while a view is held.
PendRead ==
  /\ cpc' = "copy"
  /\ rlen' = n
  /\ got' = <<>>
  /\ UNCHANGED <<b, n, w, producer, sent, rcvd>>

\* One byte fetched through the consumer's view.
CopyByte ==
  /\ cpc = "copy"
  /\ Len(got) < rlen
  /\ got' = Append(got, b[Len(got)])
  /\ UNCHANGED <<b, n, w, producer, cpc, rlen, sent, rcvd>>

\* The bytes after finish_read(k): what is left of the valid ones is at index 0.
AfterRead_WholeArray(k) == Moved(b, k, 0, Length - k)
AfterRead_OneShort(k) == Moved(b, k, 0, n - k - 1)
AfterRead(k) == Moved(b, k, 0, n - k)

\* finish_read(0) returns at once and changes nothing in the buffer.
FinishRead(k) ==
  /\ cpc = "copy"
  /\ k <= Len(got)
  /\ b' = IF k = 0 THEN b ELSE AfterRead(k)
  /\ n' = n - k
  /\ cpc' = "idle" /\ rlen' = 0 /\ got' = <<>>
  /\ rcvd' = rcvd \o SubSeq(got, 1, k)
  /\ UNCHANGED <<w, producer, sent>>

----------------------------------------------------------------------------
Next ==
  \/ PendWriteLoad
  \/ \E wmax \in 1..Length : PendWriteStore(wmax)
  \/ \E x \in Byte : FillByte(x)
  \/ \E k \in 0..Length : FinishWrite(k)
  \/ PendRead
  \/ CopyByte
  \/ \E k \in 0..Length : FinishRead(k)

Spec == Init /\ [][Next]_vars

----------------------------------------------------------------------------
(* Properties.                                                             *)

\* The type invariant of Buffer and of its two users.
TypeOK ==
  /\ b \in [Index -> Byte]
  /\ n \in 0..Length
  /\ w \in 0..Length
  /\ ppc \in {"idle", "load", "fill"}
  /\ loaded \in 0..Length
  /\ wlen \in 0..Length
  /\ out \in Seq(Byte)
  /\ cpc \in {"idle", "copy"}
  /\ rlen \in 0..Length
  /\ got \in Seq(Byte)
  /\ sent \in Seq(Byte)
  /\ rcvd \in Seq(Byte)

\* The assertions of finish_write() and finish_read() cannot fail, however the
\* two parties interleave between taking a view and finishing with it: the
\* bytes stored fit between _w and the end, and the view being read lies
\* within the _n valid bytes.
AssertsHold ==
  /\ ppc = "fill" => Len(out) <= Length - w
  /\ cpc = "copy" => rlen <= n

\* No finish_read() moves or overwrites what the producer has stored through
\* its view but not yet declared written.
PendedBytesIntact ==
  ppc = "fill" => \A i \in 1..Len(out) : b[w + i - 1] = out[i]

\* What was read and what the buffer holds are together what was written: no
\* byte is lost, repeated or reordered by the in-place shuffles.
StreamIntact ==
  /\ Len(sent) = Len(rcvd) + n
  /\ \A i \in 1..Len(rcvd) : rcvd[i] = sent[i]
  /\ \A i \in 0..(n - 1) : b[i] = sent[Len(rcvd) + i + 1]

\* "previous pend_read() memoryview should be the same": from pend_read() to
\* finish_read() no step of the producer changes a byte of the consumer's view
\* (the USB controller may be sending from it).
ViewStable ==
  [][cpc = "copy" /\ cpc' = "copy" /\ rlen' = rlen
       => \A i \in 0..(rlen - 1) : b'[i] = b[i]]_vars

Fifo == INSTANCE UsbFifo

\* The buffer implements the bounded first-in first-out stream of UsbFifo.
FifoSpec == Fifo!Spec
============================================================================
