------------------------------ MODULE UsbMidi ------------------------------
(***************************************************************************)
(* MIDIInterface of usb/device/midi.py.  The program calls send_event();   *)
(* transfer callbacks, resets, configurations and the scheduled _on_rx()   *)
(* cut in between any two of its steps.  micropython.schedule() runs one   *)
(* scheduled function at a time, TinyUSB's callbacks among them, so these  *)
(* are one step each.  The endpoints are those of UsbEndpoint, the buffers *)
(* those of UsbFifo; an event (four bytes) is its position in the stream.  *)
(***************************************************************************)
EXTENDS Integers

CONSTANTS
  TxLen,        \* txlen, in events
  RxLen,        \* rxlen, in events
  Depth,        \* calls that micropython.schedule() can hold
  MaxTx,        \* bound: events the program ever queues
  MaxRx         \* bound: events the host ever sends

ASSUME MidiAssumption ==
  /\ TxLen \in Nat \ {0} /\ RxLen \in Nat \ {0}
  /\ Depth \in Nat \ {0}
  /\ MaxTx \in Nat /\ MaxRx \in Nat

NoXfer == -1
Stuck == -2   \* "DCD error": the transfer was refused, and the endpoint stays marked pending

VARIABLES
  open,       \* is_open(): configured, and both endpoints registered
  xin,        \* events in the IN transfer in flight, NoXfer or Stuck
  taken,      \* how many of them the host has
  xout,       \* the OUT transfer in flight: room in its view; or NoXfer or Stuck
  got,        \* how many events the host has put in it
  wpos, wn,   \* _tx: position in the stream of its first event, and _n
  rn,         \* _rx: _n
  sched,      \* calls of _on_rx() scheduled
  other,      \* calls that the rest of the program scheduled
  pc,         \* where the thread is
  room,       \* send_event: len(w) >= 4
  view,       \* length of the view taken by pend_read()
  result,     \* how the last call ended
  host,       \* history: events the host has received, in order
  sent,       \* history: events the host has sent
  lost,       \* history: those gone in a reset or a failed transfer
  delivered,  \* history: those passed to on_midi_event()
  refused     \* history: schedule() had no place for _on_rx() once

usb == <<open, xin, taken, xout, got>>
bufs == <<wpos, wn, rn>>
queue == <<sched, other>>
call == <<pc, room, view, result>>
hist == <<host, sent, lost, delivered, refused>>
vars == <<usb, bufs, queue, call, hist>>

Init ==
  /\ open = FALSE /\ xin = NoXfer /\ taken = 0 /\ xout = NoXfer /\ got = 0
  /\ wpos = 0 /\ wn = 0 /\ rn = 0
  /\ sched = 0 /\ other = 0
  /\ pc = "idle" /\ room = FALSE /\ view = 0 /\ result = "none"
  /\ host = 0 /\ sent = 0 /\ lost = 0 /\ delivered = 0 /\ refused = FALSE

----------------------------------------------------------------------------
(* send_event(cin, midi0, midi1, midi2)                                     *)

Goto(l) == pc' = l

SendEvent ==
  /\ pc = "idle"
  /\ wpos + wn < MaxTx
  /\ Goto("pend_write")
  /\ room' = FALSE /\ view' = 0 /\ result' = "none"
  /\ UNCHANGED <<usb, bufs, queue, hist>>

\* The call ends as r says.
Return(r) ==
  /\ Goto("idle")
  /\ result' = r
  /\ UNCHANGED <<bufs, queue, room, view, hist>>

Leave(r) == Return(r) /\ UNCHANGED usb

Fits(n) == n < TxLen

\* w = self._tx.pend_write()
PendWrite ==
  /\ pc = "pend_write"
  /\ room' = Fits(wn)
  /\ Goto("fill")
  /\ UNCHANGED <<usb, bufs, queue, view, result, hist>>

Full ==
  /\ pc = "fill"
  /\ ~room
  /\ Leave("full")

\* The four stores, and finish_write(4).
FinishWrite ==
  /\ pc = "fill"
  /\ room
  /\ wn' = wn + 1
  /\ Goto("open")
  /\ UNCHANGED <<usb, wpos, rn, queue, room, view, result, hist>>

\* _tx_xfer(): is_open()
TxOpen ==
  /\ pc = "open"
  /\ Goto(IF open THEN "pending" ELSE "sent")
  /\ UNCHANGED <<usb, bufs, queue, room, view, result, hist>>

\* xfer_pending(), readable() and pend_read().
TxPending ==
  /\ pc = "pending"
  /\ open
  /\ Goto(IF xin = NoXfer /\ wn > 0 THEN "submit" ELSE "sent")
  /\ view' = wn
  /\ UNCHANGED <<usb, bufs, queue, room, result, hist>>

\* The bus was reset since is_open() answered: _ep_cbs has no such key.
PendingKeyError ==
  /\ pc = "pending"
  /\ ~open
  /\ Leave("KeyError")

TxSubmit ==
  /\ pc = "submit"
  /\ open
  /\ xin' = view
  /\ taken' = 0
  /\ Goto("sent")
  /\ UNCHANGED <<open, xout, got, bufs, queue, room, view, result, hist>>

\* The controller refuses the transfer: "DCD error", and the endpoint stays marked.
DcdError ==
  /\ pc = "submit"
  /\ open
  /\ xin' = Stuck
  /\ Return("RuntimeError")
  /\ UNCHANGED <<open, taken, xout, got>>

\* The bus was reset since xfer_pending() answered: "Not open".
SubmitRuntimeError ==
  /\ pc = "submit"
  /\ ~open
  /\ Leave("RuntimeError")

Sent ==
  /\ pc = "sent"
  /\ Leave("ok")

----------------------------------------------------------------------------
(* The host, the controller, the callbacks and the scheduler.              *)

\* The host receives one more event of the IN transfer.
HostTakes ==
  /\ taken < xin
  /\ taken' = taken + 1
  /\ host' = IF wpos + taken + 1 > host THEN wpos + taken + 1 ELSE host
  /\ UNCHANGED <<open, xin, xout, got, bufs, queue, call, sent, lost, delivered, refused>>

\* The host sends one more event.
HostSends ==
  /\ got < xout
  /\ sent < MaxRx
  /\ got' = got + 1
  /\ sent' = sent + 1
  /\ UNCHANGED <<open, xin, taken, xout, bufs, queue, call, host, lost, delivered, refused>>

InFlight(x) == x > 0

\* What _tx_xfer() leaves from a callback with n events in _tx: the transfer that it
\* submits, if any, or "DCD error" that it raises out of the callback.
NextIn_Never(n) == {NoXfer}
NextIn(n) == IF n > 0 THEN {n, Stuck} ELSE {NoXfer}

\* _tx_cb(): the events sent leave _tx if the transfer succeeded.
Consumed_Always(ok) == xin
Consumed(ok) == IF ok THEN xin ELSE 0

TxCb(ok) ==
  /\ InFlight(xin)
  /\ ok => taken = xin
  /\ wn' = wn - Consumed(ok)
  /\ wpos' = wpos + Consumed(ok)
  /\ xin' \in NextIn(wn')
  /\ taken' = 0
  /\ UNCHANGED <<open, xout, got, rn, queue, call, hist>>

\* The same of _rx_xfer() with n events in _rx.
NextOut(n) == IF n < RxLen THEN {RxLen - n, Stuck} ELSE {NoXfer}

\* _rx_cb(): the events join _rx if the transfer succeeded, and _on_rx() is
\* scheduled.
Received(ok) == IF ok THEN got ELSE 0

Scheduled_Never(ok) == 0
Scheduled(ok) == IF ok THEN 1 ELSE 0

RxCb(ok) ==
  /\ InFlight(xout)
  /\ ok => sched + other < Depth
  /\ rn' = rn + Received(ok)
  /\ sched' = sched + Scheduled(ok)
  /\ lost' = IF ok THEN lost ELSE lost + got
  /\ xout' \in NextOut(rn')
  /\ got' = 0
  /\ UNCHANGED <<open, xin, taken, wpos, wn, other, call, host, sent, delivered, refused>>

\* The scheduler's queue is full: schedule() raises, and _rx_xfer() is not called.
RxCbQueueFull ==
  /\ InFlight(xout)
  /\ sched + other >= Depth
  /\ rn' = rn + Received(TRUE)
  /\ xout' = NoXfer
  /\ got' = 0
  /\ refused' = TRUE
  /\ UNCHANGED <<open, xin, taken, wpos, wn, queue, call, host, sent, lost, delivered>>

\* _on_rx(): every event in _rx is handled and leaves it.
OnRx ==
  /\ sched > 0
  /\ sched' = sched - 1
  /\ delivered' = delivered + rn
  /\ rn' = 0
  /\ UNCHANGED <<usb, wpos, wn, other, call, host, sent, lost, refused>>

OtherScheduled ==
  /\ sched + other < Depth
  /\ other' = other + 1
  /\ UNCHANGED <<usb, bufs, sched, call, hist>>

OtherRuns ==
  /\ other > 0
  /\ other' = other - 1
  /\ UNCHANGED <<usb, bufs, sched, call, hist>>

\* A bus reset cancels both transfers; what is in the buffers stays.
ResetCb ==
  /\ open
  /\ open' = FALSE
  /\ xin' = NoXfer /\ taken' = 0
  /\ xout' = NoXfer /\ got' = 0
  /\ lost' = lost + got
  /\ UNCHANGED <<bufs, queue, call, host, sent, delivered, refused>>

\* on_open() kicks off both transfers, the second only if the first is not refused.
\* An enumeration takes the host longer than the thread takes over send_event().
OnOpen ==
  /\ ~open /\ pc = "idle"
  /\ open' = TRUE
  /\ xin' \in NextIn(wn) /\ taken' = 0
  /\ xout' \in (IF xin' = Stuck THEN {NoXfer} ELSE NextOut(rn)) /\ got' = 0
  /\ UNCHANGED <<bufs, queue, call, hist>>

----------------------------------------------------------------------------
Steps ==
  \/ PendWrite \/ Full \/ FinishWrite
  \/ TxOpen \/ TxPending \/ TxSubmit \/ PendingKeyError \/ SubmitRuntimeError
  \/ DcdError \/ Sent

Usb ==
  \/ HostTakes \/ HostSends
  \/ \E ok \in BOOLEAN : TxCb(ok) \/ RxCb(ok)
  \/ RxCbQueueFull
  \/ ResetCb \/ OnOpen

Scheduler == OnRx \/ OtherScheduled \/ OtherRuns

Next == SendEvent \/ Steps \/ Usb \/ Scheduler

\* The thread runs, what is scheduled runs, and the host takes a transfer in the
\* end.
Fairness ==
  /\ WF_vars(Steps)
  /\ WF_vars(OnRx)
  /\ \A k \in 0..TxLen : SF_vars(taken = k /\ HostTakes)
  /\ SF_vars(TxCb(TRUE))

Spec == Init /\ [][Next]_vars /\ Fairness

----------------------------------------------------------------------------
(* Properties.                                                             *)

TypeOK ==
  /\ open \in BOOLEAN /\ room \in BOOLEAN /\ refused \in BOOLEAN
  /\ xin \in {NoXfer, Stuck} \cup 1..TxLen /\ taken \in 0..TxLen
  /\ xout \in {NoXfer, Stuck} \cup 1..RxLen /\ got \in 0..RxLen
  /\ wpos \in 0..MaxTx /\ wn \in 0..TxLen /\ rn \in 0..RxLen
  /\ sched \in 0..Depth /\ other \in 0..Depth
  /\ pc \in {"idle", "pend_write", "fill", "open", "pending", "submit", "sent"}
  /\ view \in 0..TxLen
  /\ result \in {"none", "ok", "full", "KeyError", "RuntimeError"}
  /\ host \in 0..MaxTx
  /\ sent \in 0..MaxRx /\ lost \in 0..MaxRx /\ delivered \in 0..MaxRx

\* No event is dropped on its way to the host: what leaves _tx the host has, across
\* failed transfers and resets; and a transfer's view lies within _tx.
HostHasWhatLeft ==
  /\ wpos <= host /\ host <= wpos + wn
  /\ InFlight(xin) => xin <= wn

\* Every event the host sent is in the transfer, in _rx, handled, or lost in a
\* reset or a failed transfer: none twice, none skipped. And the view of the OUT
\* transfer in flight stays within the room that _rx has.
RxConserved ==
  /\ sent = delivered + rn + lost + got
  /\ InFlight(xout) => xout <= RxLen - rn

\* The events of each direction are where they should be.
Conserved == TypeOK /\ HostHasWhatLeft /\ RxConserved

\* What is in _rx has a call of _on_rx() on its way, so that no event waits for
\* the host to send another, unless schedule() refused it.
HandlerOnItsWay == rn > 0 /\ ~refused => sched > 0

\* An event queued reaches the host, whatever transfers fail, unless the bus is
\* reset or the controller refuses an IN transfer first: then _tx_xfer() sees one
\* pending until the endpoint is opened again.
TxDelivers ==
  \A p \in 1..MaxTx : (open /\ wpos + wn >= p) ~> (host >= p \/ ~open \/ xin = Stuck)
=============================================================================
