---------------------------- MODULE UsbMidiProofs ----------------------------
(***************************************************************************)
(* For any lengths of its buffers, UsbMidi loses nothing but what a reset  *)
(* or a failed transfer takes, and what it has received has a handler      *)
(* coming.                                                                 *)
(***************************************************************************)
EXTENDS UsbMidi, TLAPS

\* What the transfers in flight hold of the two buffers.
MidiTransfers ==
  /\ ~open => xin = NoXfer /\ xout = NoXfer
  /\ IF InFlight(xin) THEN xin <= wn /\ taken <= xin ELSE taken = 0
  /\ IF InFlight(xout) THEN got <= xout /\ xout <= RxLen - rn ELSE got = 0
  /\ wpos + taken <= host /\ host <= wpos + wn
  /\ wpos + wn <= MaxTx /\ sched + other <= Depth

\* What send_event() has seen is still so when it acts on it.
MidiSeen ==
  /\ pc \in {"pend_write", "fill"} => wpos + wn < MaxTx
  /\ pc = "fill" /\ room => wn < TxLen
  /\ pc = "submit" /\ open => xin = NoXfer /\ view = wn /\ wn > 0

MidiInv ==
  /\ TypeOK /\ RxConserved /\ HandlerOnItsWay
  /\ MidiTransfers /\ MidiSeen

\* At first the buffers are empty and nothing is in flight.
LEMMA InitMidi == ASSUME Init PROVE MidiInv
<1> USE MidiAssumption DEF Init, NoXfer, InFlight
<1>1. TypeOK
  <2>1. \A n \in {TxLen, RxLen, Depth, MaxTx, MaxRx} : 0 \in 0..n
    OBVIOUS
  <2> QED
    BY <2>1 DEF TypeOK
<1>2. RxConserved /\ HandlerOnItsWay /\ MidiTransfers /\ MidiSeen
  BY DEF RxConserved, HandlerOnItsWay, MidiTransfers, MidiSeen
<1> QED
  BY <1>1, <1>2 DEF MidiInv

\* send_event() where it only looks: an event that it has seen room for, or a transfer
\* that it has seen none of, is its own affair until it acts.
LEMMA LookMidi ==
  ASSUME MidiInv,
         \/ SendEvent \/ PendWrite \/ Full \/ TxOpen \/ TxPending
         \/ PendingKeyError \/ SubmitRuntimeError \/ Sent
  PROVE  MidiInv'
<1> USE MidiAssumption DEF MidiInv
<1> USE DEF SendEvent, PendWrite, Full, TxOpen, TxPending, Fits,
            PendingKeyError, SubmitRuntimeError, Sent, Leave, Return, Goto
<1>1. /\ UNCHANGED <<usb, bufs, queue, hist>>
      /\ view' \in {view, 0, wn}
      /\ pc' \in {"idle", "pend_write", "fill", "open", "pending", "submit", "sent"}
      /\ result' \in {result, "none", "ok", "full", "KeyError", "RuntimeError"}
  OBVIOUS
<1>2. room' \in BOOLEAN
  <2>1. room \in BOOLEAN
    BY Zenon DEF TypeOK
  <2>2. room' = room \/ room' = FALSE \/ room' = (wn < TxLen)
    OBVIOUS
  <2>3. (wn < TxLen) = TRUE \/ (wn < TxLen) = FALSE
    OBVIOUS
  <2> QED
    BY ONLY <2>1, <2>2, <2>3, Zenon
<1> HIDE DEF SendEvent, PendWrite, Full, TxOpen, TxPending, Fits,
             PendingKeyError, SubmitRuntimeError, Sent, Leave, Return, Goto
<1>3. (TypeOK /\ RxConserved /\ HandlerOnItsWay /\ MidiTransfers)'
  BY <1>1, <1>2 DEF usb, bufs, queue, hist, TypeOK, RxConserved,
                    HandlerOnItsWay, MidiTransfers
<1>4. MidiSeen'
  BY DEF SendEvent, PendWrite, Full, TxOpen, TxPending, Fits,
         PendingKeyError, SubmitRuntimeError, Sent, Leave, Return, Goto,
         usb, bufs, MidiSeen, TypeOK
<1> QED
  BY <1>3, <1>4

\* The event joins _tx, in the room that was there; the view of _tx is submitted, or
\* refused.
LEMMA ActMidi ==
  ASSUME MidiInv, FinishWrite \/ TxSubmit \/ DcdError
  PROVE  MidiInv'
<1> USE MidiAssumption DEF MidiInv, NoXfer, Stuck, InFlight
<1>1. CASE FinishWrite
  <2>1. /\ wn' = wn + 1 /\ wn < TxLen /\ wpos + wn < MaxTx /\ pc' = "open"
        /\ UNCHANGED <<usb, wpos, rn, queue, room, view, result, hist>>
    BY <1>1 DEF FinishWrite, Goto, MidiSeen
  <2>2. wn' \in 0..TxLen /\ MidiTransfers'
    BY <2>1 DEF usb, queue, hist, MidiTransfers, TypeOK
  <2>3. TypeOK'
    BY <2>1, <2>2 DEF usb, queue, hist, TypeOK
  <2>4. (RxConserved /\ HandlerOnItsWay /\ MidiSeen)'
    BY <2>1 DEF usb, queue, hist, RxConserved, HandlerOnItsWay,
                MidiSeen
  <2> QED
    BY <2>2, <2>3, <2>4
<1>2. CASE TxSubmit
  <2>1. /\ pc' = "sent" /\ xin' = wn /\ wn \in 1..TxLen /\ taken' = 0 /\ xin = NoXfer /\ open
        /\ UNCHANGED <<open, xout, got, bufs, queue, room, view, result, hist>>
    BY <1>2 DEF TxSubmit, Goto, MidiSeen, TypeOK
  <2>2. MidiTransfers'
    BY <2>1 DEF bufs, queue, hist, MidiTransfers, TypeOK
  <2>3. TypeOK'
    BY <2>1 DEF bufs, queue, hist, TypeOK
  <2>4. (RxConserved /\ HandlerOnItsWay /\ MidiSeen)'
    BY <2>1 DEF bufs, queue, hist, RxConserved, HandlerOnItsWay,
                MidiSeen
  <2> QED
    BY <2>2, <2>3, <2>4
<1>3. CASE DcdError
  <2>1. /\ pc' = "idle" /\ result' = "RuntimeError" /\ xin' = Stuck /\ xin = NoXfer /\ open
        /\ UNCHANGED <<open, taken, xout, got, bufs, queue, room, view, hist>>
    BY <1>3 DEF DcdError, Return, Goto, MidiSeen
  <2>2. (TypeOK /\ MidiTransfers)'
    BY <2>1 DEF bufs, queue, hist, MidiTransfers, TypeOK
  <2>3. (RxConserved /\ HandlerOnItsWay /\ MidiSeen)'
    BY <2>1 DEF bufs, queue, hist, RxConserved, HandlerOnItsWay, MidiSeen
  <2> QED
    BY <2>2, <2>3
<1> QED
  BY <1>1, <1>2, <1>3

\* The host takes and sends events one by one; _tx_cb() takes out of _tx what the host has.
LEMMA HostMidi ==
  ASSUME MidiInv,
         HostTakes \/ HostSends \/ \E ok \in BOOLEAN : TxCb(ok)
  PROVE  MidiInv'
<1> USE MidiAssumption DEF MidiInv, NoXfer, Stuck, InFlight, usb, bufs, queue,
            call, hist
<1>1. CASE HostTakes \/ HostSends
  <2>1. (TypeOK /\ MidiTransfers)'
    BY <1>1 DEF HostTakes, HostSends, TypeOK, MidiTransfers
  <2>2. (RxConserved /\ HandlerOnItsWay /\ MidiSeen)'
    BY <1>1 DEF HostTakes, HostSends, RxConserved, HandlerOnItsWay,
                MidiSeen, TypeOK
  <2> QED
    BY <2>1, <2>2
<1>2. ASSUME NEW ok \in BOOLEAN, TxCb(ok)
      PROVE  MidiInv'
  <2>1. (TypeOK /\ MidiTransfers)'
    BY <1>2 DEF TxCb, Consumed, NextIn, TypeOK, MidiTransfers
  <2>2. (RxConserved /\ HandlerOnItsWay /\ MidiSeen)'
    BY <1>2 DEF TxCb, Consumed, RxConserved, HandlerOnItsWay, MidiSeen,
                TypeOK
  <2> QED
    BY <2>1, <2>2
<1> QED
  BY <1>1, <1>2

\* _rx_cb() adds the events to _rx and schedules _on_rx(), or is refused; _on_rx() empties
\* _rx, whatever else runs.
LEMMA ReceiveMidi ==
  ASSUME MidiInv,
         \/ \E ok \in BOOLEAN : RxCb(ok)
         \/ RxCbQueueFull \/ OnRx \/ OtherScheduled \/ OtherRuns
  PROVE  MidiInv'
<1> USE MidiAssumption DEF MidiInv, NoXfer, Stuck, InFlight, usb, bufs, queue,
            call, hist
<1>1. ASSUME NEW ok \in BOOLEAN, RxCb(ok)
      PROVE  MidiInv'
  <2>1. (TypeOK /\ MidiTransfers)'
    BY <1>1 DEF RxCb, Received, Scheduled, NextOut, TypeOK,
                MidiTransfers, RxConserved
  <2>4. RxConserved'
    BY <1>1 DEF RxCb, Received, NextOut, RxConserved, TypeOK,
                MidiTransfers
  <2>2. MidiSeen'
    BY <1>1 DEF RxCb, MidiSeen
  <2>3. HandlerOnItsWay'
    <3>1. IF ok THEN sched' = sched + 1 ELSE rn' = rn /\ sched' = sched
      BY <1>1 DEF RxCb, Received, Scheduled, TypeOK
    <3>2. sched \in Nat /\ refused' = refused
      BY <1>1 DEF RxCb, TypeOK
    <3> QED
      BY <3>1, <3>2 DEF HandlerOnItsWay
  <2> QED
    BY <2>1, <2>2, <2>3, <2>4
<1>2. CASE RxCbQueueFull \/ OnRx \/ OtherScheduled \/ OtherRuns
  <2>1. MidiTransfers'
    BY <1>2 DEF RxCbQueueFull, OnRx, OtherScheduled, OtherRuns,
                Received, TypeOK, MidiTransfers
  <2>2. TypeOK'
    <3>1. CASE RxCbQueueFull
      BY <3>1 DEF RxCbQueueFull, Received, TypeOK, MidiTransfers
    <3>2. CASE OnRx
      BY <3>2 DEF OnRx, TypeOK, RxConserved
    <3>3. CASE OtherScheduled \/ OtherRuns
      BY <3>3 DEF OtherScheduled, OtherRuns, TypeOK
    <3> QED
      BY <1>2, <3>1, <3>2, <3>3
  <2>3. (RxConserved /\ HandlerOnItsWay /\ MidiSeen)'
    BY <1>2 DEF RxCbQueueFull, OnRx, OtherScheduled, OtherRuns,
                Received, RxConserved, HandlerOnItsWay, MidiSeen, TypeOK
  <2> QED
    BY <2>1, <2>2, <2>3
<1> QED
  BY <1>1, <1>2

\* A reset drops both transfers; on_open() starts them again.
LEMMA ResetMidi ==
  ASSUME MidiInv, ResetCb \/ OnOpen
  PROVE  MidiInv'
<1> USE MidiAssumption DEF MidiInv, NoXfer, Stuck, InFlight, usb, bufs, queue,
            call, hist
<1>1. (MidiTransfers /\ MidiSeen /\ RxConserved /\ HandlerOnItsWay)'
  BY DEF ResetCb, OnOpen, NextIn, NextOut, MidiTransfers, MidiSeen,
         RxConserved, HandlerOnItsWay, TypeOK
<1>2. TypeOK'
  <2>1. lost' \in 0..MaxRx
    BY DEF ResetCb, OnOpen, TypeOK, RxConserved
  <2>2. xin' \in {NoXfer, Stuck} \cup 1..TxLen /\ taken' = 0
    BY DEF ResetCb, OnOpen, NextIn, TypeOK
  <2>3. xout' \in {NoXfer, Stuck} \cup 1..RxLen /\ got' = 0
    <3>1. CASE ResetCb
      BY <3>1 DEF ResetCb
    <3>2. CASE OnOpen
      <4>1. xout' = NoXfer \/ (xout' \in NextOut(rn) /\ rn \in 0..RxLen)
        BY <3>2 DEF OnOpen, TypeOK
      <4> QED
        BY <3>2, <4>1 DEF OnOpen, NextOut
    <3> QED
      BY <3>1, <3>2
  <2>4. open' \in BOOLEAN
    BY DEF ResetCb, OnOpen
  <2>5. UNCHANGED <<bufs, queue, call, host, sent, delivered, refused>>
    BY DEF ResetCb, OnOpen
  <2> QED
    BY <2>1, <2>2, <2>3, <2>4, <2>5 DEF TypeOK
<1> QED
  BY <1>1, <1>2

\* The invariant holds of the driver.
LEMMA SpecMidi == Spec => []MidiInv
<1>1. MidiInv /\ [Next]_vars => MidiInv'
  <2> SUFFICES ASSUME MidiInv, [Next]_vars PROVE MidiInv'
    OBVIOUS
  <2>1. CASE UNCHANGED vars
    BY <2>1 DEF vars, usb, bufs, queue, call, hist, MidiInv,
                TypeOK, RxConserved, HandlerOnItsWay, MidiTransfers, MidiSeen
  <2> QED
    BY <2>1, LookMidi, ActMidi, HostMidi, ReceiveMidi, ResetMidi
    DEF Next, Steps, Usb, Scheduler
<1> QED
  BY InitMidi, <1>1, PTL DEF Spec

\* For any lengths of the buffers: no event that leaves _tx is missing at the host, every
\* event that the host sent is in the transfer, in _rx, handled or lost in a reset or a
\* failed transfer, and the views of the transfers lie within the buffers.
THEOREM MidiConserved == Spec => []Conserved
<1>1. MidiInv => Conserved
  BY DEF MidiInv, MidiTransfers, Conserved, HostHasWhatLeft, RxConserved,
         TypeOK, NoXfer, InFlight
<1> QED
  BY SpecMidi, <1>1, PTL

\* What is in _rx has a call of _on_rx() on its way, unless schedule() refused one.
THEOREM MidiHandlerOnItsWay == Spec => []HandlerOnItsWay
<1>1. MidiInv => HandlerOnItsWay
  BY DEF MidiInv
<1> QED
  BY SpecMidi, <1>1, PTL
=============================================================================
