-------------------------- MODULE UsbBufferProofs --------------------------
(***************************************************************************)
(* For every buffer length, every set of byte values and every history:    *)
(* the assertions of Buffer never fail, no byte is lost, repeated or       *)
(* reordered, a view is never changed under its reader, and the buffer     *)
(* implements UsbFifo; the loops of finish_write() and finish_read() equal *)
(* the block moves that these proofs take them for.                        *)
(***************************************************************************)
EXTENDS UsbBuffer, UsbShuffle, SequenceTheorems, TLAPS

\* How the three regions of the bytearray and the two views lie.
Layout ==
  /\ ppc = "load" => n <= loaded /\ out = <<>>
  /\ ppc = "fill" => n <= w /\ w + wlen <= Length /\ Len(out) <= wlen
  /\ cpc = "copy" => rlen <= n /\ Len(got) <= rlen

\* What the consumer has fetched is still what its view shows.
CopyFaithful ==
  cpc = "copy" => \A i \in 1..Len(got) : got[i] = b[i - 1]

IInv ==
  /\ TypeOK
  /\ Layout
  /\ PendedBytesIntact
  /\ StreamIntact
  /\ CopyFaithful

----------------------------------------------------------------------------
\* A block move stays within bytes when its source lies in the array.
LEMMA MovedType ==
  ASSUME NEW a \in [Index -> Byte], NEW from \in Nat, NEW to \in Nat, NEW k \in Int,
         from + k <= Length
  PROVE  Moved(a, from, to, k) \in [Index -> Byte]
BY LengthAssumption DEF Moved, Index

\* Every initial state satisfies the inductive invariant.
LEMMA InitIInv == Init => IInv
BY LengthAssumption, BufferAssumption
DEF Init, IInv, TypeOK, Layout, PendedBytesIntact, StreamIntact, CopyFaithful, Index

\* finish_write(k): what was stored at _w becomes the tail of the valid bytes.
LEMMA FinishWriteIInv ==
  ASSUME IInv, NEW k \in 0..Length, FinishWrite(k)
  PROVE  IInv'
<1> USE LengthAssumption
<1>1. n + k <= Length /\ n <= w /\ w + k <= Length /\ k <= Len(out)
  BY DEF FinishWrite, IInv, TypeOK, Layout
<1>2. b' \in [Index -> Byte]
  <2>1. b' = Moved(b, w, n, k)
    BY DEF FinishWrite, AfterWrite
  <2>2. b \in [Index -> Byte] /\ w \in Nat /\ n \in Nat /\ k \in Int
    BY SMTT(30) DEF IInv, TypeOK
  <2> QED
    BY <1>1, <2>1, <2>2, MovedType
<1>3. \A i \in Index : i < n => b'[i] = b[i]
  BY <1>1 DEF FinishWrite, AfterWrite, Moved, Index, IInv, TypeOK
<1>4. \A i \in Index : n <= i /\ i < n + k => b'[i] = out[i - n + 1]
  <2> SUFFICES ASSUME NEW i \in Index, n <= i, i < n + k
               PROVE  b'[i] = out[i - n + 1]
    OBVIOUS
  <2>1. b'[i] = b[w + i - n]
    BY <1>1 DEF FinishWrite, AfterWrite, Moved, IInv, TypeOK
  <2>2. i - n + 1 \in 1..Len(out)
    BY <1>1 DEF Index, IInv, TypeOK
  <2>3. b[w + (i - n + 1) - 1] = out[i - n + 1]
    BY <2>2 DEF FinishWrite, IInv, PendedBytesIntact
  <2> QED
    BY <2>1, <2>3 DEF Index, IInv, TypeOK
<1>5. TypeOK'
  BY <1>1, <1>2 DEF FinishWrite, consumer, IInv, TypeOK
<1>6. Layout'
  BY <1>1 DEF FinishWrite, consumer, IInv, TypeOK, Layout
<1>7. PendedBytesIntact'
  BY DEF FinishWrite, PendedBytesIntact
<1>8. StreamIntact'
  <2>1. /\ Len(sent') = Len(sent) + k
        /\ \A i \in 1..Len(sent) : sent'[i] = sent[i]
        /\ \A i \in 1..k : sent'[Len(sent) + i] = out[i]
    <3>1. sent' = sent \o SubSeq(out, 1, k) /\ sent \in Seq(Byte) /\ out \in Seq(Byte)
      BY DEF FinishWrite, IInv, TypeOK
    <3> QED
      BY <1>1, <3>1
  <2>2. Len(sent') = Len(rcvd') + n'
    BY <2>1 DEF FinishWrite, IInv, TypeOK, StreamIntact
  <2>3. \A i \in 1..Len(rcvd') : rcvd'[i] = sent'[i]
    BY <2>1 DEF FinishWrite, IInv, TypeOK, StreamIntact
  <2>4. ASSUME NEW i \in 0..(n' - 1) PROVE b'[i] = sent'[Len(rcvd') + i + 1]
    <3>0. n' = n + k /\ rcvd' = rcvd /\ i \in Index /\ Len(rcvd) \in Nat
      BY <1>1 DEF FinishWrite, IInv, TypeOK, Index
    <3>1. CASE i < n
      <4>1. b'[i] = b[i]
        BY <3>0, <3>1, <1>3
      <4>2. b[i] = sent[Len(rcvd) + i + 1]
        BY <3>0, <3>1 DEF IInv, StreamIntact, TypeOK, Index
      <4>3. Len(rcvd) + i + 1 \in 1..Len(sent)
        BY <3>0, <3>1 DEF IInv, StreamIntact, TypeOK, Index
      <4> QED
        BY <3>0, <4>1, <4>2, <4>3, <2>1
    <3>2. CASE n <= i
      <4>1. b'[i] = out[i - n + 1]
        BY <3>0, <3>2, <1>4 DEF IInv, TypeOK
      <4>2. i - n + 1 \in 1..k
        BY <3>0, <3>2 DEF IInv, TypeOK, Index
      <4>3. sent'[Len(sent) + (i - n + 1)] = out[i - n + 1]
        BY <4>2, <2>1
      <4>4. Len(sent) + (i - n + 1) = Len(rcvd') + i + 1
        BY <3>0, <3>2 DEF IInv, TypeOK, StreamIntact, Index
      <4> QED
        BY <4>1, <4>3, <4>4
    <3> QED
      BY <3>0, <3>1, <3>2 DEF Index, IInv, TypeOK
  <2> QED
    BY <2>2, <2>3, <2>4 DEF StreamIntact
<1>9. CopyFaithful'
  <2> SUFFICES ASSUME cpc = "copy", NEW i \in 1..Len(got)
               PROVE  got[i] = b'[i - 1]
    BY DEF FinishWrite, consumer, CopyFaithful
  <2>1. i - 1 \in Index /\ i - 1 < n
    BY DEF IInv, TypeOK, Layout, Index
  <2> QED
    BY <2>1, <1>3 DEF IInv, CopyFaithful
<1> QED
  BY <1>5, <1>6, <1>7, <1>8, <1>9 DEF IInv

\* finish_read(k): the rest of the valid bytes comes to index 0, and neither a
\* pending write nor its bytes are disturbed.
LEMMA FinishReadIInv ==
  ASSUME IInv, NEW k \in 0..Length, FinishRead(k)
  PROVE  IInv'
<1> USE LengthAssumption
<1>1. k <= n /\ k <= Len(got) /\ rlen <= n /\ n \in 0..Length
  BY DEF FinishRead, IInv, TypeOK, Layout
<1>2. b' \in [Index -> Byte]
  <2>1. b' = b \/ b' = Moved(b, k, 0, n - k)
    BY DEF FinishRead, AfterRead
  <2>2. b \in [Index -> Byte] /\ k \in Nat /\ n - k \in Int /\ k + (n - k) <= Length
    BY <1>1 DEF IInv, TypeOK
  <2> QED
    BY <2>1, <2>2, MovedType
<1>3. \A i \in Index : i < n - k => b'[i] = b[i + k]
  <2>1. CASE k = 0
    BY <2>1 DEF FinishRead, Index
  <2>2. CASE k # 0
    <3>1. b' = Moved(b, k, 0, n - k)
      BY <2>2 DEF FinishRead, AfterRead
    <3> QED
      BY <1>1, <3>1 DEF Moved, Index
  <2> QED
    BY <2>1, <2>2
<1>4. \A i \in Index : n - k <= i => b'[i] = b[i]
  BY <1>1 DEF FinishRead, AfterRead, Moved, Index, IInv, TypeOK
<1>5. TypeOK'
  BY <1>1, <1>2 DEF FinishRead, producer, IInv, TypeOK
<1>6. Layout'
  BY <1>1 DEF FinishRead, producer, IInv, TypeOK, Layout
<1>7. PendedBytesIntact'
  <2> SUFFICES ASSUME ppc = "fill", NEW i \in 1..Len(out)
               PROVE  b'[w + i - 1] = out[i]
    BY DEF FinishRead, producer, PendedBytesIntact
  <2>1. w + i - 1 \in Index /\ n - k <= w + i - 1
    BY <1>1 DEF IInv, TypeOK, Layout, Index
  <2>2. b[w + i - 1] = out[i]
    BY DEF IInv, PendedBytesIntact
  <2> QED
    BY <2>1, <2>2, <1>4
<1>8. StreamIntact'
  <2>1. /\ Len(rcvd') = Len(rcvd) + k
        /\ \A i \in 1..Len(rcvd) : rcvd'[i] = rcvd[i]
        /\ \A i \in 1..k : rcvd'[Len(rcvd) + i] = got[i]
    <3>1. rcvd' = rcvd \o SubSeq(got, 1, k) /\ rcvd \in Seq(Byte) /\ got \in Seq(Byte)
      BY DEF FinishRead, IInv, TypeOK
    <3> QED
      BY <1>1, <3>1
  <2>2. Len(sent') = Len(rcvd') + n'
    <3>1. n' = n - k /\ sent' = sent /\ Len(rcvd) \in Nat /\ Len(sent) = Len(rcvd) + n
      BY DEF FinishRead, IInv, TypeOK, StreamIntact
    <3> QED
      BY <1>1, <2>1, <3>1
  <2>3. ASSUME NEW i \in 1..Len(rcvd') PROVE rcvd'[i] = sent'[i]
    <3>0. i \in 1..(Len(rcvd) + k) /\ Len(rcvd) \in Nat /\ sent' = sent
      BY <2>1 DEF FinishRead, IInv, TypeOK
    <3>1. CASE i <= Len(rcvd)
      BY <3>0, <3>1, <2>1 DEF IInv, StreamIntact
    <3>2. CASE i > Len(rcvd)
      <4> DEFINE j == i - Len(rcvd)
      <4>1. j \in 1..k /\ j \in 1..Len(got) /\ i = Len(rcvd) + j /\ j - 1 \in 0..(n - 1)
        BY <1>1, <3>0, <3>2 DEF IInv, TypeOK
      <4>2. rcvd'[i] = got[j]
        BY <4>1, <2>1
      <4>3. got[j] = b[j - 1]
        BY <4>1 DEF FinishRead, IInv, CopyFaithful
      <4>4. b[j - 1] = sent[Len(rcvd) + (j - 1) + 1]
        BY <4>1 DEF IInv, StreamIntact
      <4>5. Len(rcvd) + (j - 1) + 1 = i
        BY <3>0
      <4> QED
        BY <3>0, <4>2, <4>3, <4>4, <4>5
    <3> QED
      BY <3>0, <3>1, <3>2
  <2>4. ASSUME NEW i \in 0..(n' - 1) PROVE b'[i] = sent'[Len(rcvd') + i + 1]
    <3>1. /\ n' = n - k /\ sent' = sent /\ Len(rcvd) \in Nat
          /\ i \in Index /\ i < n - k /\ i + k \in 0..(n - 1)
      BY <1>1 DEF FinishRead, IInv, TypeOK, Index
    <3>2. b'[i] = b[i + k]
      BY <3>1, <1>3
    <3>3. b[i + k] = sent[Len(rcvd) + (i + k) + 1]
      BY <3>1 DEF IInv, StreamIntact
    <3>4. Len(rcvd) + (i + k) + 1 = Len(rcvd') + i + 1
      BY <3>1, <2>1
    <3> QED
      BY <3>1, <3>2, <3>3, <3>4
  <2> QED
    BY <2>2, <2>3, <2>4 DEF StreamIntact
<1>9. CopyFaithful'
  BY DEF FinishRead, CopyFaithful
<1> QED
  BY <1>5, <1>6, <1>7, <1>8, <1>9 DEF IInv

\* A byte stored through the producer's view disturbs neither the valid bytes
\* nor the bytes stored before it.
LEMMA FillByteIInv ==
  ASSUME IInv, NEW x \in Byte, FillByte(x)
  PROVE  IInv'
<1> USE LengthAssumption
<1> DEFINE p == w + Len(out)
<1>1. p \in Index /\ n <= p /\ Len(out) \in Nat
  BY DEF FillByte, IInv, TypeOK, Layout, Index
<1>2. b' \in [Index -> Byte] /\ b'[p] = x /\ \A i \in Index : i # p => b'[i] = b[i]
  BY <1>1 DEF FillByte, IInv, TypeOK
<1>3. /\ out' \in Seq(Byte) /\ Len(out') = Len(out) + 1 /\ out'[Len(out) + 1] = x
      /\ \A i \in 1..Len(out) : out'[i] = out[i]
  BY DEF FillByte, IInv, TypeOK
<1>4. TypeOK'
  BY <1>2, <1>3 DEF FillByte, consumer, IInv, TypeOK
<1>5. Layout'
  BY <1>1, <1>3 DEF FillByte, consumer, IInv, TypeOK, Layout
<1>6. PendedBytesIntact'
  <2> SUFFICES ASSUME NEW i \in 1..(Len(out) + 1)
               PROVE  b'[w + i - 1] = out'[i]
    BY <1>1, <1>3 DEF FillByte, PendedBytesIntact
  <2>1. CASE i = Len(out) + 1
    BY <2>1, <1>1, <1>2, <1>3 DEF IInv, TypeOK
  <2>2. CASE i <= Len(out)
    <3>1. w + i - 1 \in Index /\ w + i - 1 # p /\ i \in 1..Len(out)
      BY <1>1, <2>2 DEF FillByte, IInv, TypeOK, Layout, Index
    <3>2. b[w + i - 1] = out[i]
      BY <3>1 DEF FillByte, IInv, PendedBytesIntact
    <3> QED
      BY <3>1, <3>2, <1>2, <1>3
  <2> QED
    BY <1>1, <2>1, <2>2
<1>7. StreamIntact'
  BY <1>1, <1>2 DEF FillByte, consumer, IInv, TypeOK, StreamIntact, Index
<1>8. CopyFaithful'
  <2> SUFFICES ASSUME cpc = "copy", NEW i \in 1..Len(got)
               PROVE  got[i] = b'[i - 1]
    BY DEF FillByte, consumer, CopyFaithful
  <2>1. i - 1 \in Index /\ i - 1 # p
    BY <1>1 DEF IInv, TypeOK, Layout, Index
  <2> QED
    BY <2>1, <1>2 DEF IInv, CopyFaithful
<1> QED
  BY <1>4, <1>5, <1>6, <1>7, <1>8 DEF IInv

\* Every step preserves the inductive invariant.
LEMMA NextIInv == IInv /\ [Next]_vars => IInv'
<1> SUFFICES ASSUME IInv, [Next]_vars PROVE IInv'
  OBVIOUS
<1> USE LengthAssumption
<1>1. CASE PendWriteLoad
  BY <1>1 DEF PendWriteLoad, WriteStart, consumer, IInv, TypeOK, Layout,
              PendedBytesIntact, StreamIntact, CopyFaithful
<1>2. ASSUME NEW wmax \in 1..Length, PendWriteStore(wmax) PROVE IInv'
  <2>1. wlen' \in 0..Length /\ w' + wlen' <= Length /\ w' \in 0..Length
    BY <1>2 DEF PendWriteStore, ViewLen, Least, IInv, TypeOK
  <2>2. out' = <<>>
    BY <1>2 DEF PendWriteStore, IInv, Layout
  <2> QED
    BY <1>2, <2>1, <2>2 DEF PendWriteStore, consumer, IInv, TypeOK, Layout,
              PendedBytesIntact, StreamIntact, CopyFaithful
<1>3. ASSUME NEW x \in Byte, FillByte(x) PROVE IInv'
  BY <1>3, FillByteIInv
<1>4. ASSUME NEW k \in 0..Length, FinishWrite(k) PROVE IInv'
  BY <1>4, FinishWriteIInv
<1>5. CASE PendRead
  BY <1>5 DEF PendRead, producer, IInv, TypeOK, Layout,
              PendedBytesIntact, StreamIntact, CopyFaithful
<1>6. CASE CopyByte
  <2>1. Len(got) \in Index /\ Len(got) < rlen
    BY <1>6 DEF CopyByte, IInv, TypeOK, Layout, Index
  <2>2. TypeOK' /\ Layout'
    BY <1>6, <2>1 DEF CopyByte, producer, IInv, TypeOK, Layout
  <2>3. CopyFaithful'
    BY <1>6, <2>1 DEF CopyByte, IInv, TypeOK, CopyFaithful
  <2> QED
    BY <1>6, <2>2, <2>3 DEF CopyByte, producer, IInv, PendedBytesIntact, StreamIntact
<1>7. ASSUME NEW k \in 0..Length, FinishRead(k) PROVE IInv'
  BY <1>7, FinishReadIInv
<1>8. CASE UNCHANGED vars
  BY <1>8 DEF vars, producer, consumer, IInv, TypeOK, Layout,
              PendedBytesIntact, StreamIntact, CopyFaithful
<1> QED
  BY <1>1, <1>2, <1>3, <1>4, <1>5, <1>6, <1>7, <1>8 DEF Next

\* The inductive invariant holds of every behaviour.
THEOREM SpecIInv == Spec => []IInv
<1> QED
  BY InitIInv, NextIInv, PTL DEF Spec

\* Buffer's fields and its users' local state keep their types: in particular
\* _n and _w stay within the bytearray.
THEOREM BufferTypeOK == Spec => []TypeOK
<1>1. IInv => TypeOK
  BY DEF IInv
<1> QED
  BY SpecIInv, <1>1, PTL

\* The assert statements of finish_write() and finish_read() never fail for
\* parties that stay within the view they were given, whatever interleaves.
THEOREM BufferAssertsHold == Spec => []AssertsHold
<1>1. IInv => AssertsHold
  BY LengthAssumption DEF IInv, AssertsHold, TypeOK, Layout
<1> QED
  BY SpecIInv, <1>1, PTL

\* What the producer has stored through its view waits there unharmed.
THEOREM BufferPendedBytesIntact == Spec => []PendedBytesIntact
<1>1. IInv => PendedBytesIntact
  BY DEF IInv
<1> QED
  BY SpecIInv, <1>1, PTL

\* No byte is lost, repeated or reordered between the two parties.
THEOREM BufferStreamIntact == Spec => []StreamIntact
<1>1. IInv => StreamIntact
  BY DEF IInv
<1> QED
  BY SpecIInv, <1>1, PTL

\* No step of the producer changes a byte under the view of the consumer, so a
\* USB transfer may send straight from the buffer.
THEOREM BufferViewStable == Spec => ViewStable
<1> DEFINE Stable == cpc = "copy" /\ cpc' = "copy" /\ rlen' = rlen
                       => \A i \in 0..(rlen - 1) : b'[i] = b[i]
<1>1. IInv /\ [Next]_vars => [Stable]_vars
  <2> SUFFICES ASSUME IInv, Next, cpc = "copy", cpc' = "copy",
                      NEW i \in 0..(rlen - 1)
               PROVE  b'[i] = b[i]
    OBVIOUS
  <2> USE LengthAssumption
  <2>1. i \in Index /\ i < n
    BY DEF IInv, TypeOK, Layout, Index
  <2>2. ASSUME NEW x \in Byte, FillByte(x) PROVE b'[i] = b[i]
    BY <2>1, <2>2 DEF FillByte, IInv, TypeOK, Layout, Index
  <2>3. ASSUME NEW k \in 0..Length, FinishWrite(k) PROVE b'[i] = b[i]
    BY <2>1, <2>3 DEF FinishWrite, AfterWrite, Moved, IInv, TypeOK, Index
  <2>4. ASSUME NEW k \in 0..Length, FinishRead(k) PROVE FALSE
    BY <2>4 DEF FinishRead
  <2>5. CASE b' = b
    BY <2>5
  <2> QED
    BY <2>2, <2>3, <2>4, <2>5
    DEF Next, PendWriteLoad, PendWriteStore, PendRead, CopyByte
<1> QED
  BY SpecIInv, <1>1, PTL DEF Spec, ViewStable

----------------------------------------------------------------------------
\* Every step of Buffer is a step of the bounded stream or leaves it alone:
\* only finish_write() and finish_read() move it, by the bytes they declare.
LEMMA StepRefines ==
  ASSUME IInv, IInv', [Next]_vars
  PROVE  [Fifo!Next]_(Fifo!vars)
<1> USE LengthAssumption
<1>1. ASSUME NEW k \in 0..Length, FinishWrite(k) PROVE Fifo!Next
  <2> DEFINE chunk == SubSeq(out, 1, k)
  <2>1. k <= Len(out) /\ n + k <= Length /\ out \in Seq(Byte) /\ n \in Nat
    BY <1>1 DEF FinishWrite, IInv, TypeOK, Layout
  <2>2. chunk \in [1..k -> Byte] /\ Len(chunk) = k
    <3>1. chunk \in Seq(Byte) /\ Len(chunk) = k
      BY <2>1
    <3> QED
      BY <3>1, LenProperties
  <2>3. chunk \in Fifo!Chunk
    BY <2>2 DEF Fifo!Chunk
  <2>4. Fifo!Held = n
    BY DEF IInv, TypeOK, StreamIntact, Fifo!Held
  <2>5. Fifo!Write(chunk)
    BY <1>1, <2>1, <2>2, <2>4 DEF FinishWrite, Fifo!Write
  <2> QED
    BY <2>3, <2>5 DEF Fifo!Next
<1>2. ASSUME NEW k \in 0..Length, FinishRead(k) PROVE [Fifo!Next]_(Fifo!vars)
  <2>1. /\ k <= n /\ sent' = sent
        /\ sent \in Seq(Byte) /\ rcvd \in Seq(Byte) /\ rcvd' \in Seq(Byte)
        /\ n \in Nat /\ k <= Len(got) /\ got \in Seq(Byte)
        /\ rcvd' = rcvd \o SubSeq(got, 1, k)
    BY <1>2 DEF FinishRead, IInv, TypeOK, Layout
  <2>2. Fifo!Held = n /\ Len(rcvd) + k <= Len(sent)
    BY <2>1 DEF IInv, StreamIntact, Fifo!Held
  <2>3. Len(rcvd') = Len(rcvd) + k
    BY <2>1
  <2>4. \A i \in 1..Len(rcvd') : rcvd'[i] = sent[i]
    BY <2>1 DEF IInv, StreamIntact
  <2>5. rcvd' = SubSeq(sent, 1, Len(rcvd) + k)
    BY <2>1, <2>2, <2>3, <2>4
  <2>6. CASE k = 0
    <3>1. rcvd' = rcvd
      BY <2>6, <2>1
    <3> QED
      BY <3>1, <2>1 DEF Fifo!vars
  <2>7. CASE k # 0
    BY <2>1, <2>2, <2>5, <2>7 DEF Fifo!Next, Fifo!Read
  <2> QED
    BY <2>6, <2>7
<1>3. CASE UNCHANGED <<sent, rcvd>>
  BY <1>3 DEF Fifo!vars
<1> QED
  BY <1>1, <1>2, <1>3
  DEF Next, vars, PendWriteLoad, PendWriteStore, FillByte, PendRead, CopyByte

\* Buffer implements the bounded first-in first-out byte stream.
THEOREM BufferImplementsFifo == Spec => FifoSpec
<1>1. Init => Fifo!Init
  BY DEF Init, Fifo!Init
<1>2. IInv /\ IInv' /\ [Next]_vars => [Fifo!Next]_(Fifo!vars)
  BY StepRefines
<1> QED
  BY SpecIInv, <1>1, <1>2, PTL DEF Spec, FifoSpec, Fifo!Spec

----------------------------------------------------------------------------
(* The loops of finish_write() and finish_read().                          *)

\* The loop invariants: how far the call has come, and that what was moved so
\* far is a block move of its own (the source always lies above the target).
LoopInv ==
  /\ op = "write" =>
       /\ call.op = "write"
       /\ nbytes <= call.nbytes
       /\ n = call.n + (call.nbytes - nbytes)
       /\ w = call.w + (call.nbytes - nbytes)
       /\ b = Moved(call.b, call.w, call.n, call.nbytes - nbytes)
  /\ op = "read" =>
       /\ call.op = "read"
       /\ nbytes = call.nbytes
       /\ n = call.n - call.nbytes
       /\ w = call.w
       /\ idx <= n
       /\ b = Moved(call.b, call.nbytes, 0, idx)

LInv == LoopTypeOK /\ LoopInv /\ LoopMoves

\* A move of no bytes changes nothing.
LEMMA MovedNone ==
  ASSUME NEW a \in [Index -> Byte], NEW from \in Nat, NEW to \in Nat
  PROVE  a = Moved(a, from, to, 0)
<1>1. ASSUME NEW j \in Index PROVE Moved(a, from, to, 0)[j] = a[j]
  BY DEF Moved, Index
<1> QED
  BY <1>1 DEF Moved

\* What is known of a call that reaches a loop, field by field.
LEMMA CallFields ==
  ASSUME NEW c \in Call, Reaches(c)
  PROVE  /\ c.op \in {"write", "read"} /\ c.b \in [Index -> Byte]
         /\ c.n \in 0..Length /\ c.w \in 0..Length /\ c.nbytes \in 0..Length
         /\ c.op = "write" => c.n < c.w /\ c.nbytes <= Length - c.w
         /\ c.op = "read" => 0 < c.nbytes /\ c.nbytes <= c.n
<1>1. /\ c.op \in {"write", "read"} /\ c.b \in [Index -> Byte]
      /\ c.n \in 0..Length /\ c.w \in 0..Length /\ c.nbytes \in 0..Length
  BY DEF Call
<1>2. c.op = "write" => c.n < c.w /\ c.nbytes <= Length - c.w
  BY DEF Reaches
<1>3. c.op = "read" => 0 < c.nbytes /\ c.nbytes <= c.n
  BY DEF Reaches
<1> QED
  BY <1>1, <1>2, <1>3

\* Every call that reaches a loop starts within the loop invariant.
LEMMA InitLInv == LoopInit => LInv
<1> SUFFICES ASSUME LoopInit PROVE LInv
  OBVIOUS
<1> USE LengthAssumption
<1>0. call \in Call /\ Reaches(call)
  BY DEF LoopInit
<1>1. /\ call.op \in {"write", "read"} /\ call.b \in [Index -> Byte]
      /\ call.n \in 0..Length /\ call.w \in 0..Length /\ call.nbytes \in 0..Length
      /\ call.op = "read" => call.nbytes <= call.n
  BY <1>0, CallFields
<1>2. LoopTypeOK
  BY <1>0, <1>1 DEF LoopInit, LoopTypeOK
<1>3. b = Moved(call.b, call.w, call.n, 0)
  BY <1>1, MovedNone DEF LoopInit
<1>4. b = Moved(call.b, call.nbytes, 0, 0)
  BY <1>1, MovedNone DEF LoopInit
<1>5. op # "done"
  BY <1>1 DEF LoopInit
<1>6. LoopInv
  <2>1. call.nbytes - nbytes = 0
    BY <1>1 DEF LoopInit
  <2> QED
    BY <1>1, <1>3, <1>4, <2>1 DEF LoopInit, LoopInv
<1> QED
  BY <1>2, <1>5, <1>6 DEF LInv, LoopMoves

\* One iteration of finish_write's loop extends the block moved by one byte.
LEMMA WriteIterationLInv == LInv /\ WriteIteration => LInv'
<1> SUFFICES ASSUME LInv, WriteIteration PROVE LInv'
  OBVIOUS
<1> USE LengthAssumption
<1> DEFINE d == call.nbytes - nbytes
<1>1. /\ call \in Call /\ Reaches(call) /\ call.op = "write"
      /\ call.n \in Nat /\ call.w \in Nat /\ call.nbytes \in Nat
      /\ call.n < call.w /\ call.nbytes <= Length - call.w
  <2>1. call \in Call /\ Reaches(call) /\ call.op = "write"
    BY DEF LInv, LoopTypeOK, LoopInv, WriteIteration
  <2> QED
    BY <2>1, CallFields
<1>2. /\ d \in Nat /\ nbytes \in 1..Length /\ nbytes <= call.nbytes
      /\ n = call.n + d /\ w = call.w + d
      /\ call.n \in Nat /\ call.w \in Nat /\ call.nbytes \in Nat
      /\ n \in Index /\ w \in Index
  <2>1. /\ nbytes \in 1..Length /\ nbytes <= call.nbytes
        /\ n = call.n + d /\ w = call.w + d
    BY DEF LInv, LoopTypeOK, LoopInv, WriteIteration, WriteMore
  <2>2. n < w /\ w + nbytes <= Length /\ n \in Nat /\ w \in Nat
    BY <1>1, <2>1
  <2> QED
    BY <1>1, <2>1, <2>2 DEF Index
<1>3. b = Moved(call.b, call.w, call.n, d)
  BY DEF LInv, LoopInv, WriteIteration
<1>4. b[w] = call.b[w]
  BY <1>1, <1>2, <1>3 DEF Moved, Index
<1>5. b' = Moved(call.b, call.w, call.n, d + 1)
  <2>1. b' = [j \in Index |-> IF j = n THEN call.b[w] ELSE b[j]]
    BY <1>2, <1>4 DEF WriteIteration, LInv, LoopTypeOK
  <2>2. ASSUME NEW j \in Index
        PROVE  b'[j] = Moved(call.b, call.w, call.n, d + 1)[j]
    <3>1. j \in Int
      BY DEF Index
    <3>2. CASE j = n
      BY <1>2, <2>1, <3>1, <3>2 DEF Moved
    <3>3. CASE j # n
      BY <1>2, <1>3, <2>1, <3>1, <3>3 DEF Moved
    <3> QED
      BY <3>2, <3>3
  <2> QED
    BY <2>1, <2>2 DEF Moved
<1>6. d + 1 = call'.nbytes - nbytes'
  BY <1>2 DEF WriteIteration
<1>7. b' \in [Index -> Byte]
  BY <1>2 DEF WriteIteration, LInv, LoopTypeOK
<1>8. LoopTypeOK'
  <2>1. n' \in 0..Length /\ w' \in 0..Length /\ nbytes' \in 0..Length
    BY <1>2 DEF WriteIteration, Index
  <2> QED
    BY <1>7, <2>1 DEF WriteIteration, LInv, LoopTypeOK
<1>9. LoopInv'
  <2>1. /\ nbytes' <= call.nbytes /\ n' = call.n + (d + 1) /\ w' = call.w + (d + 1)
        /\ call' = call /\ op' = "write"
    BY <1>2 DEF WriteIteration
  <2> QED
    BY <1>1, <1>5, <1>6, <2>1 DEF LoopInv
<1> QED
  BY <1>8, <1>9 DEF LInv, LoopMoves, WriteIteration

\* One iteration of finish_read's loop extends the block moved by one byte.
LEMMA ReadIterationLInv == LInv /\ ReadIteration => LInv'
<1> SUFFICES ASSUME LInv, ReadIteration PROVE LInv'
  OBVIOUS
<1> USE LengthAssumption
<1>1. /\ call \in Call /\ Reaches(call) /\ call.op = "read"
      /\ call.n \in 0..Length /\ 0 < call.nbytes /\ call.nbytes <= call.n
  <2>1. call \in Call /\ Reaches(call) /\ call.op = "read"
    BY DEF LInv, LoopTypeOK, LoopInv, ReadIteration
  <2> QED
    BY <2>1, CallFields
<1>2. /\ nbytes = call.nbytes /\ n = call.n - nbytes /\ idx < n
      /\ call.n \in 0..Length /\ nbytes \in 1..Length
      /\ idx \in Index /\ idx + nbytes \in Index
  BY <1>1 DEF LInv, LoopTypeOK, LoopInv, ReadIteration, ReadMore, Index
<1>3. b = Moved(call.b, nbytes, 0, idx)
  BY DEF LInv, LoopInv, ReadIteration
<1>4. b[idx + nbytes] = call.b[idx + nbytes]
  BY <1>2, <1>3 DEF Moved, Index
<1>5. b' = Moved(call.b, nbytes, 0, idx + 1)
  <2>1. b' = [j \in Index |-> IF j = idx THEN call.b[idx + nbytes] ELSE b[j]]
    BY <1>2, <1>4 DEF ReadIteration, LInv, LoopTypeOK
  <2>2. ASSUME NEW j \in Index
        PROVE  b'[j] = Moved(call.b, nbytes, 0, idx + 1)[j]
    <3>1. j \in Int /\ idx \in Int /\ nbytes \in Int
      BY <1>2 DEF Index
    <3>2. CASE j = idx
      BY <1>2, <2>1, <3>1, <3>2 DEF Moved, Index
    <3>3. CASE j # idx
      BY <1>2, <1>3, <2>1, <3>1, <3>3 DEF Moved
    <3> QED
      BY <3>2, <3>3
  <2> QED
    BY <2>1, <2>2 DEF Moved
<1>6. b' \in [Index -> Byte]
  BY <1>2 DEF ReadIteration, LInv, LoopTypeOK
<1>7. LoopTypeOK'
  BY <1>1, <1>2, <1>6 DEF ReadIteration, LInv, LoopTypeOK, Index
<1>8. LoopInv'
  <2>1. /\ nbytes' = call.nbytes /\ n' = call.n - call.nbytes /\ idx' = idx + 1 /\ idx' <= n'
        /\ call' = call /\ op' = "read"
    BY <1>2 DEF ReadIteration, Index
  <2>2. w' = call.w
    BY DEF LInv, LoopInv, ReadIteration
  <2> QED
    BY <1>1, <1>2, <1>5, <2>1, <2>2 DEF LoopInv
<1> QED
  BY <1>7, <1>8 DEF LInv, LoopMoves, ReadIteration

\* Every step preserves the loop invariants, and a loop that exits has moved
\* the whole block.
LEMMA NextLInv == LInv /\ [LoopNext]_loop => LInv'
<1> SUFFICES ASSUME LInv, [LoopNext]_loop PROVE LInv'
  OBVIOUS
<1> USE LengthAssumption
<1>1. CASE WriteIteration
  BY <1>1, WriteIterationLInv
<1>2. CASE WriteExit
  <2>1. nbytes = 0 /\ call.op = "write" /\ call.nbytes \in Nat
    BY <1>2, CallFields DEF WriteExit, WriteMore, LInv, LoopTypeOK, LoopInv
  <2>2. LoopTypeOK' /\ LoopInv'
    BY <1>2 DEF WriteExit, LInv, LoopTypeOK, LoopInv
  <2>3. LoopMoves'
    BY <1>2, <2>1 DEF WriteExit, LInv, LoopInv, LoopMoves
  <2> QED
    BY <2>2, <2>3 DEF LInv
<1>3. CASE ReadIteration
  BY <1>3, ReadIterationLInv
<1>4. CASE ReadExit
  <2>1. idx = n /\ call.op = "read"
    BY <1>4 DEF ReadExit, ReadMore, LInv, LoopTypeOK, LoopInv
  <2>2. LoopTypeOK' /\ LoopInv'
    BY <1>4 DEF ReadExit, LInv, LoopTypeOK, LoopInv
  <2>3. LoopMoves'
    BY <1>4, <2>1 DEF ReadExit, LInv, LoopInv, LoopMoves
  <2> QED
    BY <2>2, <2>3 DEF LInv
<1>5. CASE UNCHANGED loop
  BY <1>5 DEF loop, LInv, LoopTypeOK, LoopInv, LoopMoves
<1> QED
  BY <1>1, <1>2, <1>3, <1>4, <1>5 DEF LoopNext

\* The loop invariants hold of every execution of the loops.
LEMMA SpecLInv == LoopSpec => []LInv
  BY InitLInv, NextLInv, PTL DEF LoopSpec

\* Neither loop of Buffer indexes outside the bytearray.
THEOREM ShuffleInBounds == LoopSpec => []InBounds
<1>1. LInv => InBounds
  <2> SUFFICES ASSUME LInv PROVE InBounds
    OBVIOUS
  <2> USE LengthAssumption
  <2>1. /\ call.n \in 0..Length /\ call.w \in 0..Length /\ call.nbytes \in 0..Length
        /\ call.op = "write" => call.n < call.w /\ call.nbytes <= Length - call.w
        /\ call.op = "read" => 0 < call.nbytes /\ call.nbytes <= call.n
    BY CallFields DEF LInv, LoopTypeOK
  <2>2. ASSUME op = "write", WriteMore PROVE n \in Index /\ w \in Index
    <3>1. /\ nbytes \in Nat /\ nbytes > 0 /\ nbytes <= call.nbytes
          /\ call.op = "write"
          /\ n = call.n + call.nbytes - nbytes
          /\ w = call.w + call.nbytes - nbytes
      BY <2>2 DEF LInv, LoopTypeOK, LoopInv, WriteMore
    <3>2. n \in Int /\ w \in Int /\ 0 <= n /\ n < w /\ w < Length
      BY <2>1, <3>1
    <3> QED
      BY <3>2 DEF Index
  <2>3. ASSUME op = "read", ReadMore PROVE idx \in Index /\ (idx + nbytes) \in Index
    BY <2>1, <2>3 DEF LInv, LoopTypeOK, LoopInv, ReadMore, Index
  <2> QED
    BY <2>2, <2>3 DEF InBounds
<1> QED
  BY SpecLInv, <1>1, PTL

\* When a loop of finish_write() or finish_read() ends, the block has moved as
\* if all of its bytes had been copied at once.
THEOREM ShuffleLoopMoves == LoopSpec => []LoopMoves
<1>1. LInv => LoopMoves
  BY DEF LInv
<1> QED
  BY SpecLInv, <1>1, PTL

\* The loop that finish_write(k) or finish_read(k) would run on the buffer as it is.
CallOf(o, k) == [op |-> o, b |-> b, n |-> n, w |-> w, nbytes |-> k]

\* Each finish_write() that is not on its fast path, and each finish_read() of some bytes, is
\* a call that the theorems about the loops speak of.
LoopCalls ==
  /\ ppc = "fill" /\ n # w =>
       \A k \in 0..Len(out) : CallOf("write", k) \in {c \in Call : Reaches(c)}
  /\ cpc = "copy" =>
       \A k \in 1..Len(got) : CallOf("read", k) \in {c \in Call : Reaches(c)}

\* However producer and consumer interleave, finish_write() and finish_read() run their loops
\* from such calls only, so that UsbBuffer may take AfterWrite and AfterRead for what the
\* loops leave.
THEOREM BufferCallsReach == Spec => []LoopCalls
<1>1. IInv => LoopCalls
  <2> SUFFICES ASSUME IInv PROVE LoopCalls
    OBVIOUS
  <2> USE LengthAssumption DEF IInv, TypeOK, Layout, CallOf, Call, Reaches
  <2>1. ASSUME ppc = "fill", n # w, NEW k \in 0..Len(out)
        PROVE  CallOf("write", k) \in {c \in Call : Reaches(c)}
    <3>1. n < w /\ k <= Length - w /\ k \in 0..Length
      BY <2>1
    <3> QED
      BY <3>1
  <2>2. ASSUME cpc = "copy", NEW k \in 1..Len(got)
        PROVE  CallOf("read", k) \in {c \in Call : Reaches(c)}
    <3>1. 0 < k /\ k <= n /\ k \in 0..Length
      BY <2>2
    <3> QED
      BY <3>1
  <2> QED
    BY <2>1, <2>2 DEF LoopCalls
<1> QED
  BY SpecIInv, <1>1, PTL
============================================================================
