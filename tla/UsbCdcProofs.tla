---------------------------- MODULE UsbCdcProofs -----------------------------
(***************************************************************************)
(* For any lengths of its buffers, UsbCdc loses nothing but what a reset,  *)
(* a failed transfer or an exception takes, and never forgets to start a   *)
(* transfer again.                                                         *)
(***************************************************************************)
EXTENDS UsbCdc, TLAPS

\* Where the thread is in write(), and in read().
CdcWriting ==
  {"wb_pend", "wb_finish", "wx_open", "wx_pending", "wx_submit", "w_check", "w_idle"}
CdcReading == {"rb_copy", "rx_open", "rx_pending", "rx_submit", "r_check", "r_idle"}

\* What the transfers in flight hold of the two buffers.
CdcTransfers ==
  /\ ~open => xin = NoXfer /\ xout = NoXfer
  /\ IF InFlight(xin) THEN xin <= wn /\ taken <= xin ELSE taken = 0
  /\ wpos + taken <= host /\ host <= wpos + wn

\* What the call has still to do, and what it has seen is still so when it acts on it.
CdcSeen ==
  /\ IF pc \in CdcWriting THEN wpos + wn + rem <= MaxTx ELSE wpos + wn <= MaxTx
  /\ pc \in CdcReading => rem <= MaxRx
  /\ pc \notin CdcReading => inhand = 0
  /\ pc = "wb_finish" => view <= rem /\ view <= TxLen - wn
  /\ pc = "wx_submit" /\ open => xin = NoXfer /\ view = wn
  /\ pc = "rx_submit" /\ open => xout = NoXfer /\ Room(rn)

\* While no transfer moves the bytes of _wb, or fills the room of _rb, the thread is on its
\* way to start one, unless the controller has refused it.
CdcGoing ==
  open =>
    /\ wn > 0 /\ xin = NoXfer /\ ~skipped => pc \in {"wx_open", "wx_pending", "wx_submit"}
    /\ Room(rn) /\ xout = NoXfer => pc \in {"rx_open", "rx_pending", "rx_submit"}

CdcInv == TypeOK /\ RxConserved /\ CdcTransfers /\ CdcSeen /\ CdcGoing

\* What the callbacks leave of the transfers.
LEMMA NextOutCdc ==
  ASSUME NEW n \in Int, NEW x \in NextOut(n)
  PROVE  x = NoXfer \/ x = Stuck \/ (x = 0 /\ RxLen - n >= EpLen)
<1>1. CASE Room(n)
  BY <1>1 DEF NextOut, Room
<1>2. CASE ~Room(n)
  BY <1>2 DEF NextOut
<1> QED
  BY <1>1, <1>2

\* At first the buffers are empty and nothing is in flight.
LEMMA InitCdc == ASSUME Init PROVE CdcInv
<1> USE CdcAssumption DEF Init, NoXfer, InFlight
<1>1. TypeOK
  <2>1. \A n \in {TxLen, RxLen, MaxTx, MaxRx, MaxTx + MaxRx} : 0 \in 0..n
    OBVIOUS
  <2>2. timeout \in BOOLEAN /\ open \in BOOLEAN /\ skipped \in BOOLEAN
    OBVIOUS
  <2> QED
    BY <2>1, <2>2 DEF TypeOK
<1>2. RxConserved /\ CdcTransfers /\ CdcSeen /\ CdcGoing
  BY DEF RxConserved, CdcTransfers, CdcSeen, CdcGoing, CdcWriting, CdcReading
<1> QED
  BY <1>1, <1>2 DEF CdcInv

\* The thread calls write(), read() or flush(), with nothing in its hands.
LEMMA EnterCdc ==
  ASSUME CdcInv,
         \/ \E n \in 1..MaxTx : Write(n)
         \/ \E n \in 1..MaxRx : Read(n)
         \/ Flush
  PROVE  CdcInv'
<1> USE CdcAssumption DEF CdcInv
<1>1. /\ pc = "idle" /\ inhand' = 0 /\ view' = 0 /\ result' = "none"
      /\ \/ pc' = "wb_pend" /\ rem' \in 1..MaxTx /\ wpos + wn + rem' <= MaxTx
         \/ pc' = "rb_copy" /\ rem' \in 1..MaxRx
         \/ pc' = "f_loop" /\ rem' = 0
      /\ UNCHANGED <<usb, bufs, hist>>
  BY DEF Write, Read, Flush, Enter, Goto
<1>2. inhand = 0
  BY <1>1 DEF CdcSeen, CdcReading
<1>3. TypeOK'
  BY <1>1 DEF TypeOK, usb, bufs, hist
<1>4. (RxConserved /\ CdcTransfers /\ CdcGoing)'
  BY <1>1, <1>2 DEF RxConserved, CdcTransfers, CdcGoing, Room, usb, bufs, hist
<1>5. CdcSeen'
  BY <1>1, <1>2 DEF CdcSeen, CdcWriting, CdcReading, usb, bufs, hist
<1> QED
  BY <1>3, <1>4, <1>5

\* The call where it only looks: what it takes note of, a callback cannot undo.
LEMMA LookCdc ==
  ASSUME CdcInv,
         \/ WbPendWrite \/ WrOpen \/ WrPending \/ RbEmpty \/ RdOpen
         \/ RdPending \/ FlushOpen \/ MachineIdle \/ GoRound
  PROVE  CdcInv'
<1> USE CdcAssumption DEF CdcInv
<1>1. /\ UNCHANGED <<usb, bufs, rem, inhand, result, host, sent, lost, returned>>
      /\ skipped' = skipped \/ (skipped' = FALSE /\ pc = "wx_pending")
      /\ pc' \in {"wb_pend", "wb_finish", "wx_pending", "wx_submit", "w_check", "w_idle",
                  "rb_copy", "rx_pending", "rx_submit", "r_check", "r_idle",
                  "f_loop", "f_open", "f_idle"}
      /\ view' \in 0..TxLen
      /\ pc' \in CdcWriting <=> pc \in CdcWriting
      /\ pc' \in CdcReading <=> pc \in CdcReading
  BY DEF WbPendWrite, WrOpen, WrPending, RbEmpty, RdOpen, RdPending, FlushOpen, MachineIdle,
         GoRound, Waiting, IdleOf, Again, Goto, Least, TypeOK, CdcWriting, CdcReading, hist
<1>2. (TypeOK /\ RxConserved /\ CdcTransfers)'
  <2>1. TypeOK'
    <3>1. skipped' \in BOOLEAN
      BY <1>1 DEF TypeOK
    <3> QED
      BY <1>1, <3>1 DEF TypeOK, usb, bufs
  <2>2. RxConserved' /\ CdcTransfers'
    BY <1>1 DEF RxConserved, CdcTransfers, usb, bufs
  <2> QED
    BY <2>1, <2>2
<1>3. /\ pc' = "wb_finish" => view' <= rem /\ view' <= TxLen - wn
      /\ pc' = "wx_submit" => xin = NoXfer /\ view' = wn
      /\ pc' = "rx_submit" => xout = NoXfer /\ Room(rn)
  BY DEF WbPendWrite, WrOpen, WrPending, RbEmpty, RdOpen, RdPending, FlushOpen, MachineIdle,
         GoRound, Waiting, IdleOf, Again, Goto, Least, TypeOK
<1>4. CdcSeen'
  BY <1>1, <1>3 DEF CdcSeen, Room, usb, bufs
<1>5. /\ pc \in {"wx_open", "wx_pending"} /\ open =>
           pc' \in {"wx_pending", "wx_submit"} \/ ~(wn > 0 /\ xin = NoXfer)
      /\ pc \in {"rx_open", "rx_pending"} /\ open =>
           pc' \in {"rx_pending", "rx_submit"} \/ ~(Room(rn) /\ xout = NoXfer)
      /\ pc \notin {"wx_submit", "rx_submit"}
  BY DEF WbPendWrite, WrOpen, WrPending, RbEmpty, RdOpen, RdPending, FlushOpen, MachineIdle,
         GoRound, Waiting, IdleOf, Again, Goto
<1>6. CdcGoing'
  BY <1>1, <1>5 DEF CdcGoing, Room, usb, bufs, hist
<1> QED
  BY <1>2, <1>4, <1>6

\* The bytes join _wb, in the room that was there; those of _rb go to the caller; the
\* views are submitted.
LEMMA ActCdc ==
  ASSUME CdcInv,
         WbFinishWrite \/ WrSubmit \/ RbReadinto \/ RdSubmit
  PROVE  CdcInv'
<1> USE CdcAssumption DEF CdcInv, NoXfer, Stuck, InFlight
<1>1. CASE WbFinishWrite
  <2>1. /\ pc = "wb_finish" /\ pc' = "wx_open" /\ wn' = wn + view /\ rem' = rem - view
        /\ view <= rem /\ view <= TxLen - wn /\ wpos + wn + rem <= MaxTx /\ inhand = 0
        /\ UNCHANGED <<usb, wpos, rn, inhand, view, result, hist>>
    BY <1>1 DEF WbFinishWrite, Goto, CdcSeen, CdcWriting, CdcReading
  <2>2. wn' \in 0..TxLen /\ rem' \in 0..(MaxTx + MaxRx) /\ wn' >= wn
    BY <2>1 DEF TypeOK
  <2>3. TypeOK'
    BY <2>1, <2>2 DEF TypeOK, usb, hist
  <2>4. (RxConserved /\ CdcGoing)'
    BY <2>1 DEF RxConserved, CdcGoing, Room, usb, hist
  <2>5. CdcTransfers'
    BY <2>1, <2>2 DEF CdcTransfers, usb, hist, TypeOK
  <2>6. CdcSeen'
    BY <2>1, <2>2 DEF CdcSeen, CdcWriting, CdcReading, TypeOK
  <2> QED
    BY <2>3, <2>4, <2>5, <2>6
<1>2. CASE WrSubmit
  <2>1. /\ pc = "wx_submit" /\ pc' = "w_check" /\ xin' = wn /\ taken' = 0 /\ open
        /\ xin = NoXfer
        /\ UNCHANGED <<timeout, open, xout, bufs, rem, inhand, view, result, hist>>
    BY <1>2 DEF WrSubmit, Goto, CdcSeen
  <2>2. TypeOK'
    BY <2>1 DEF TypeOK, bufs, hist
  <2>3. CdcTransfers'
    BY <2>1 DEF CdcTransfers, bufs, hist, TypeOK
  <2>4. (RxConserved /\ CdcSeen)'
    BY <2>1 DEF RxConserved, CdcSeen, CdcWriting, CdcReading, bufs, hist
  <2>5. CdcGoing'
    BY <2>1 DEF CdcGoing, Room, bufs, TypeOK
  <2> QED
    BY <2>2, <2>3, <2>4, <2>5
<1>3. CASE RbReadinto
  <2> DEFINE k == Least(rem, rn)
  <2>1. /\ pc = "rb_copy" /\ pc' = "rx_open"
        /\ rn' = rn - k /\ rem' = rem - k /\ inhand' = inhand + k
        /\ rem <= MaxRx
        /\ UNCHANGED <<usb, wpos, wn, view, result, hist>>
    BY <1>3 DEF RbReadinto, Goto, CdcSeen, CdcReading
  <2>2. k \in Nat /\ k <= rem /\ k <= rn
    BY DEF Least, TypeOK
  <2> HIDE DEF k
  <2>3. RxConserved'
    BY <2>1, <2>2 DEF RxConserved, TypeOK, usb, hist
  <2>4. inhand' \in 0..MaxRx /\ rn' \in 0..RxLen /\ rem' \in 0..(MaxTx + MaxRx) /\ rem' <= MaxRx
    BY <2>1, <2>2 DEF TypeOK, RxConserved
  <2>5. TypeOK'
    BY <2>1, <2>4 DEF TypeOK, usb, hist
  <2>6. (CdcTransfers /\ CdcSeen)'
    BY <2>1, <2>4 DEF CdcTransfers, CdcSeen, CdcWriting, CdcReading, usb, hist
  <2>7. CdcGoing'
    BY <2>1 DEF CdcGoing, usb, hist
  <2> QED
    BY <2>3, <2>5, <2>6, <2>7
<1>4. CASE RdSubmit
  <2>1. /\ pc = "rx_submit" /\ pc' = "r_check" /\ xout' = 0 /\ open
        /\ xout = NoXfer /\ Room(rn)
        /\ UNCHANGED <<timeout, open, xin, taken, bufs, rem, inhand, view, result, hist>>
    BY <1>4 DEF RdSubmit, Goto, CdcSeen
  <2>2. TypeOK'
    BY <2>1 DEF TypeOK, bufs, hist
  <2>3. RxConserved'
    BY <2>1 DEF RxConserved, Room, bufs, hist, TypeOK
  <2>4. (CdcTransfers /\ CdcSeen /\ CdcGoing)'
    BY <2>1 DEF CdcTransfers, CdcSeen, CdcGoing, CdcWriting, CdcReading, Room, bufs, hist
  <2> QED
    BY <2>2, <2>3, <2>4
<1> QED
  BY <1>1, <1>2, <1>3, <1>4

\* The call ends: what it has in its hands is returned, or lost with an exception.
LEMMA LeaveCdc ==
  ASSUME CdcInv,
         \/ WriteDone \/ ReadDone \/ FlushDone \/ FlushClosed
         \/ PendingKeyError \/ SubmitRuntimeError \/ DcdError \/ TimedOut
  PROVE  CdcInv'
<1> USE CdcAssumption DEF CdcInv, NoXfer, Stuck, InFlight
<1>1. /\ pc' = "idle" /\ rem' = 0 /\ inhand' = 0 /\ view' = 0
      /\ result' \in {"ok", "timeout", "EINVAL", "KeyError", "RuntimeError", "TypeError"}
      /\ \/ lost' = lost + inhand /\ returned' = returned
         \/ lost' = lost /\ returned' = returned + inhand
      /\ UNCHANGED <<timeout, open, bufs, host, sent, skipped>>
  BY DEF WriteDone, ReadDone, FlushDone, FlushClosed, PendingKeyError, SubmitRuntimeError,
         DcdError, TimedOut, Waiting, Leave, Return, Goto, Raised, usb
\* What a refusal changes of the transfers.
<1>2. \/ /\ UNCHANGED usb
         /\ pc \in {"wx_open", "wx_pending", "wx_submit", "rx_open", "rx_pending", "rx_submit"}
              => ~open
      \/ /\ pc = "wx_submit" /\ open /\ xin = NoXfer
         /\ xin' = Stuck /\ UNCHANGED <<taken, xout>>
      \/ /\ pc = "rx_submit" /\ open /\ xout = NoXfer
         /\ xout' = Stuck /\ UNCHANGED <<xin, taken>>
  BY DEF WriteDone, ReadDone, FlushDone, FlushClosed, PendingKeyError, SubmitRuntimeError,
         DcdError, TimedOut, Waiting, Leave, CdcSeen
<1>3. RxConserved'
  BY <1>1, <1>2 DEF RxConserved, TypeOK, usb, bufs
<1>4. lost' \in 0..MaxRx /\ returned' \in 0..MaxRx
  BY <1>1 DEF RxConserved, TypeOK
<1>5. TypeOK'
  <2>1. /\ xin' \in {NoXfer, Stuck} \cup 0..TxLen /\ taken' \in 0..TxLen
        /\ xout' \in {NoXfer, Stuck} \cup 0..EpLen
    BY <1>2 DEF TypeOK, usb
  <2> QED
    BY <1>1, <1>4, <2>1 DEF TypeOK, bufs
<1>6. CdcTransfers'
  BY <1>1, <1>2 DEF CdcTransfers, usb, bufs
<1>7. CdcGoing'
  BY <1>1, <1>2 DEF CdcGoing, Room, usb, bufs
<1>8. CdcSeen'
  BY <1>1 DEF CdcSeen, CdcWriting, CdcReading, bufs, TypeOK
<1> QED
  BY <1>3, <1>5, <1>6, <1>7, <1>8

\* The host takes and sends bytes one by one; _wr_cb() takes out of _wb what the host has,
\* and submits what is left.
LEMMA HostCdc ==
  ASSUME CdcInv,
         HostTakes \/ HostSends \/ \E ok \in BOOLEAN : WrCb(ok)
  PROVE  CdcInv'
<1> USE CdcAssumption DEF CdcInv, NoXfer, Stuck, InFlight
<1>1. CASE HostTakes
  <2>1. /\ InFlight(xin) /\ taken < xin /\ taken' = taken + 1
        /\ host' = IF wpos + taken + 1 > host THEN wpos + taken + 1 ELSE host
        /\ UNCHANGED <<timeout, open, xin, xout, bufs, call, sent, lost, returned, skipped>>
    BY <1>1 DEF HostTakes, TypeOK
  <2>2. taken' \in 0..TxLen /\ host' \in 0..MaxTx /\ CdcTransfers'
    BY <2>1 DEF CdcTransfers, CdcSeen, TypeOK, bufs
  <2>3. TypeOK'
    BY <2>1, <2>2 DEF TypeOK, bufs, call
  <2>4. (RxConserved /\ CdcSeen /\ CdcGoing)'
    BY <2>1 DEF RxConserved, CdcSeen, CdcGoing, Room, CdcWriting, CdcReading, bufs, call
  <2> QED
    BY <2>2, <2>3, <2>4
<1>2. CASE HostSends
  <2>1. (TypeOK /\ CdcTransfers)'
    BY <1>2 DEF HostSends, TypeOK, CdcTransfers, bufs, call
  <2>2. (RxConserved /\ CdcSeen /\ CdcGoing)'
    BY <1>2 DEF HostSends, RxConserved, CdcSeen, CdcGoing, Room, CdcWriting, CdcReading, bufs,
                call, TypeOK
  <2> QED
    BY <2>1, <2>2
<1>3. ASSUME NEW ok \in BOOLEAN, WrCb(ok)
      PROVE  CdcInv'
  <2>1. (TypeOK /\ CdcTransfers)'
    BY <1>3 DEF WrCb, Consumed, NextIn, TypeOK, CdcTransfers, CdcSeen, call, hist
  <2>2. (RxConserved /\ CdcGoing)'
    BY <1>3 DEF WrCb, Consumed, NextIn, RxConserved, CdcGoing, Room, call, hist, TypeOK,
                CdcTransfers
  <2>3. CdcSeen'
    BY <1>3 DEF WrCb, Consumed, Room, CdcSeen, CdcTransfers, call, hist, TypeOK
  <2> QED
    BY <2>1, <2>2, <2>3
<1> QED
  BY <1>1, <1>2, <1>3

\* _rd_cb() adds the packet to _rb; a reset drops both transfers; on_open() starts them again.
LEMMA ReceiveCdc ==
  ASSUME CdcInv,
         (\E ok \in BOOLEAN : RdCb(ok)) \/ ResetCb \/ OnOpen
  PROVE  CdcInv'
<1> USE CdcAssumption DEF CdcInv, NoXfer, Stuck, InFlight
<1>1. ASSUME NEW ok \in BOOLEAN, RdCb(ok)
      PROVE  CdcInv'
  <2>0. xout \in 0..EpLen /\ (xout' = NoXfer \/ xout' = Stuck \/ (xout' = 0 /\ RxLen - rn' >= EpLen))
    <3>1. xout \in 0..EpLen /\ xout' \in NextOut(rn') /\ rn' \in Int
      BY <1>1 DEF RdCb, Received, TypeOK
    <3> QED
      BY <3>1, NextOutCdc
  <2>1. RxConserved'
    BY <1>1, <2>0 DEF RdCb, Received, RxConserved, TypeOK, call
  <2>2. (TypeOK /\ CdcTransfers)'
    BY <1>1 DEF RdCb, Received, NextOut, Room, RxConserved, TypeOK, CdcTransfers, call
  <2>3. (CdcSeen /\ CdcGoing)'
    BY <1>1 DEF RdCb, Received, NextOut, Room, CdcSeen, CdcGoing, CdcTransfers, CdcWriting,
                CdcReading, call
  <2> QED
    BY <2>1, <2>2, <2>3
<1>2. CASE ResetCb
  <2>1. /\ ~open' /\ xin' = NoXfer /\ taken' = 0 /\ xout' = NoXfer
        /\ lost' = IF InFlight(xout) THEN lost + xout ELSE lost
        /\ UNCHANGED <<timeout, bufs, call, host, sent, returned, skipped>>
    BY <1>2 DEF ResetCb, call
  <2>2. RxConserved' /\ lost' \in 0..MaxRx
    BY <2>1 DEF RxConserved, TypeOK, bufs, call
  <2>3. open' \in BOOLEAN
    BY <1>2 DEF ResetCb
  <2>4. TypeOK'
    BY <2>1, <2>2, <2>3 DEF TypeOK, bufs, call
  <2>5. (CdcTransfers /\ CdcSeen /\ CdcGoing)'
    BY <2>1 DEF CdcTransfers, CdcSeen, CdcGoing, CdcWriting, CdcReading, bufs, call, TypeOK
  <2> QED
    BY <2>2, <2>4, <2>5
<1>3. CASE OnOpen
  <2>0. /\ xout' = NoXfer \/ xout' = Stuck \/ (xout' = 0 /\ RxLen - rn >= EpLen)
        /\ xin' = NoXfer \/ xin' = Stuck \/ xin' = wn
        /\ taken' = 0 /\ open' = TRUE /\ skipped' \in BOOLEAN /\ xout = NoXfer
        /\ UNCHANGED <<timeout, bufs, call, host, sent, lost, returned>>
    <3>1. /\ open' = TRUE /\ xout = NoXfer /\ xout' \in NextOut(rn)
          /\ skipped' = (xout' = Stuck) /\ taken' = 0
          /\ xin' \in IF skipped' THEN {NoXfer} ELSE NextIn(wn)
          /\ UNCHANGED <<timeout, bufs, call, host, sent, lost, returned>>
      BY <1>3 DEF OnOpen, CdcTransfers
    <3>2. xout' = NoXfer \/ xout' = Stuck \/ (xout' = 0 /\ RxLen - rn >= EpLen)
      BY <3>1, NextOutCdc DEF TypeOK
    <3>3. xin' = NoXfer \/ xin' = Stuck \/ xin' = wn
      BY <3>1 DEF NextIn
    <3>4. skipped' \in BOOLEAN
      BY <3>1
    <3> QED
      BY <3>1, <3>2, <3>3, <3>4
  <2>1. (TypeOK /\ RxConserved /\ CdcTransfers)'
    <3>1. TypeOK'
      BY <2>0 DEF TypeOK, bufs, call
    <3>2. (RxConserved /\ CdcTransfers)'
      BY <2>0 DEF TypeOK, RxConserved, CdcTransfers, bufs, call
    <3> QED
      BY <3>1, <3>2
  <2>2. (CdcSeen /\ CdcGoing)'
    BY <1>3 DEF OnOpen, Settled, Again, NextIn, NextOut, Room, CdcSeen, CdcGoing, CdcWriting,
                CdcReading, bufs, call, hist
  <2> QED
    BY <2>1, <2>2
<1> QED
  BY <1>1, <1>2, <1>3

\* The invariant holds of the driver.
LEMMA SpecCdc == Spec => []CdcInv
<1>1. CdcInv /\ [Next]_vars => CdcInv'
  <2> SUFFICES ASSUME CdcInv, [Next]_vars PROVE CdcInv'
    OBVIOUS
  <2>1. CASE UNCHANGED vars
    <3>1. UNCHANGED <<timeout, open, xin, taken, xout, wpos, wn, rn, pc, rem, inhand, view,
                      result, host, sent, lost, returned, skipped>>
      BY <2>1 DEF vars, usb, bufs, call, hist
    <3>2. TypeOK'
      BY <3>1 DEF CdcInv, TypeOK
    <3>3. (RxConserved /\ CdcTransfers /\ CdcSeen /\ CdcGoing)'
      BY <3>1 DEF CdcInv, RxConserved, CdcTransfers, CdcSeen, CdcGoing, Room
    <3> QED
      BY <3>2, <3>3 DEF CdcInv
  <2> QED
    BY <2>1, EnterCdc, LookCdc, ActCdc, LeaveCdc, HostCdc, ReceiveCdc
    DEF Next, Steps, Calls, Usb
<1> QED
  BY InitCdc, <1>1, PTL DEF Spec

\* For any lengths of the buffers: no byte that leaves _wb is missing at the host, every byte
\* that the host sent is in flight, in _rb, in the caller's hands, returned or lost in a reset,
\* a failed transfer or an exception, and the views of the transfers lie within the buffers.
THEOREM CdcConserved == Spec => []Conserved
<1>1. CdcInv => Conserved
  BY DEF CdcInv, CdcTransfers, Conserved, HostHasWhatLeft, TypeOK, InFlight
<1> QED
  BY SpecCdc, <1>1, PTL

\* When the thread is in no step of a call, bytes in _wb have a transfer that takes them and
\* room for a packet in _rb has one that fills it, unless the controller has refused it: no
\* interleaving loses the restart.
THEOREM CdcKeepsGoing == Spec => []KeepsGoing
<1>1. CdcInv => KeepsGoing
  BY DEF CdcInv, CdcGoing, KeepsGoing, Settled, Again, InFlight, TypeOK
<1> QED
  BY SpecCdc, <1>1, PTL
=============================================================================
