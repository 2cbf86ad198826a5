------------------------------- MODULE UsbCdc -------------------------------
(***************************************************************************)
(* CDCInterface of usb/device/cdc.py: one thread calls write(), read() (or *)
(* readinto()) and flush() on a USB serial port, while the callbacks of    *)
(* its two data endpoints, bus resets and configurations cut in between    *)
(* any two of its steps.  The endpoints are those of UsbEndpoint, the      *)
(* buffers _wb and _rb those of UsbFifo, so a position in the byte stream  *)
(* stands for the byte.                                                    *)
(***************************************************************************)
EXTENDS Integers

CONSTANTS
  TxLen,      \* init(txbuf)
  RxLen,      \* init(rxbuf)
  EpLen,      \* _BULK_EP_LEN
  MaxTx,      \* bound: bytes the program ever writes
  MaxRx       \* bound: bytes the host ever sends

\* init() raises ValueError unless rxbuf holds the packets of one endpoint.
ASSUME CdcAssumption ==
  /\ TxLen \in Nat \ {0} /\ EpLen \in Nat \ {0}
  /\ RxLen \in Nat /\ RxLen >= EpLen
  /\ MaxTx \in Nat /\ MaxRx \in Nat

Least(x, y) == IF x < y THEN x ELSE y

NoXfer == -1
Stuck == -2   \* "DCD error": the transfer was refused, and the endpoint stays marked pending

VARIABLES
  timeout,  \* init() was given a timeout: _timeout is not None, its default
  open,     \* is_open(): configured, and both endpoints registered
  xin,      \* length of the IN transfer in flight (its view starts at wpos), NoXfer or Stuck
  taken,    \* how much of it the host has
  xout,     \* how much the host has put in the OUT transfer in flight, NoXfer or Stuck
  wpos, wn, \* _wb: position in the stream of its first byte, and _n
  rn,       \* _rb: _n
  pc,       \* where the thread is
  rem,      \* bytes the call has still to write or to read
  inhand,   \* readinto: bytes already copied to the caller's buffer
  view,     \* length of the view taken by the last pend_write() or pend_read()
  result,   \* how the last call ended
  host,     \* history: bytes of the stream the host has received, in order
  sent,     \* history: bytes the host has sent and the controller acknowledged
  lost,     \* history: those gone in a reset, a failed transfer or an exception
  returned, \* history: those that calls have returned
  skipped   \* history: on_open() raised before its _wr_xfer(), and none has run since

usb == <<timeout, open, xin, taken, xout>>
bufs == <<wpos, wn, rn>>
call == <<pc, rem, inhand, view, result>>
hist == <<host, sent, lost, returned, skipped>>
vars == <<usb, bufs, call, hist>>

Init ==
  /\ timeout \in BOOLEAN
  /\ open = FALSE /\ xin = NoXfer /\ taken = 0 /\ xout = NoXfer
  /\ wpos = 0 /\ wn = 0 /\ rn = 0
  /\ pc = "idle" /\ rem = 0 /\ inhand = 0 /\ view = 0
  /\ result = "none"
  /\ host = 0 /\ sent = 0 /\ lost = 0 /\ returned = 0 /\ skipped = FALSE

----------------------------------------------------------------------------
(* Steps of the thread.                                                    *)

Goto(l) == pc' = l

Enter(l, n) ==
  /\ pc = "idle"
  /\ Goto(l)
  /\ rem' = n
  /\ inhand' = 0
  /\ view' = 0
  /\ result' = "none"
  /\ UNCHANGED <<usb, bufs, hist>>

\* The call ends as r says.  Bytes already copied out of _rb are returned, or
\* lost with the caller's buffer when an exception is raised.
Raised(r) == r \in {"KeyError", "RuntimeError", "TypeError"}

Return(r) ==
  /\ Goto("idle")
  /\ result' = r
  /\ rem' = 0 /\ inhand' = 0 /\ view' = 0
  /\ lost' = IF Raised(r) THEN lost + inhand ELSE lost
  /\ returned' = IF Raised(r) THEN returned ELSE returned + inhand
  /\ UNCHANGED <<bufs, host, sent, skipped>>

Leave(r) == Return(r) /\ UNCHANGED usb

\* write(buf)
Write(n) == wpos + wn + n <= MaxTx /\ Enter("wb_pend", n)

WbPendWrite ==
  /\ pc = "wb_pend"
  /\ view' = Least(rem, TxLen - wn)
  /\ Goto("wb_finish")
  /\ UNCHANGED <<usb, bufs, rem, inhand, result, hist>>

WbFinishWrite ==
  /\ pc = "wb_finish"
  /\ wn' = wn + view
  /\ rem' = rem - view
  /\ Goto("wx_open")
  /\ UNCHANGED <<usb, wpos, rn, inhand, view, result, hist>>

\* _wr_xfer(): is_open()
WrOpen ==
  /\ pc = "wx_open"
  /\ Goto(IF open THEN "wx_pending" ELSE "w_check")
  /\ UNCHANGED <<usb, bufs, rem, inhand, view, result, hist>>

\* xfer_pending(), readable() and pend_read().
WrPending ==
  /\ pc = "wx_pending"
  /\ open
  /\ Goto(IF xin = NoXfer /\ wn > 0 THEN "wx_submit" ELSE "w_check")
  /\ view' = wn
  /\ skipped' = FALSE
  /\ UNCHANGED <<usb, bufs, rem, inhand, result, host, sent, lost, returned>>

WrSubmit ==
  /\ pc = "wx_submit"
  /\ open
  /\ xin' = view
  /\ taken' = 0
  /\ Goto("w_check")
  /\ UNCHANGED <<timeout, open, xout, bufs, rem, inhand, view, result, hist>>

\* The bus was reset since is_open() answered: _ep_cbs has no such key.
PendingKeyError ==
  /\ pc \in {"wx_pending", "rx_pending"}
  /\ ~open
  /\ Leave("KeyError")

\* The controller refuses the transfer: "DCD error", and the endpoint stays marked.
DcdError ==
  /\ open
  /\ \/ pc = "wx_submit" /\ xin' = Stuck /\ UNCHANGED <<taken, xout>>
     \/ pc = "rx_submit" /\ xout' = Stuck /\ UNCHANGED <<xin, taken>>
  /\ Return("RuntimeError")
  /\ UNCHANGED <<timeout, open>>

\* The bus was reset since xfer_pending() answered: "Not open".
SubmitRuntimeError ==
  /\ pc \in {"wx_submit", "rx_submit"}
  /\ ~open
  /\ Leave("RuntimeError")

WriteDone ==
  /\ pc = "w_check"
  /\ rem = 0
  /\ Leave("ok")

\* _readinto(b)
Read(n) == Enter("rb_copy", n)

RbReadinto ==
  /\ pc = "rb_copy"
  /\ rn > 0
  /\ rn' = rn - Least(rem, rn)
  /\ rem' = rem - Least(rem, rn)
  /\ inhand' = inhand + Least(rem, rn)
  /\ Goto("rx_open")
  /\ UNCHANGED <<usb, wpos, wn, view, result, hist>>

RbEmpty ==
  /\ pc = "rb_copy"
  /\ rn = 0
  /\ Goto("r_check")
  /\ UNCHANGED <<usb, bufs, rem, inhand, view, result, hist>>

\* _rd_xfer(): is_open()
RdOpen ==
  /\ pc = "rx_open"
  /\ Goto(IF open THEN "rx_pending" ELSE "r_check")
  /\ UNCHANGED <<usb, bufs, rem, inhand, view, result, hist>>

\* writable() >= _BULK_EP_LEN, for n bytes in _rb
Room(n) == RxLen - n >= EpLen

\* xfer_pending(), writable() and pend_write().
RdPending ==
  /\ pc = "rx_pending"
  /\ open
  /\ Goto(IF xout = NoXfer /\ Room(rn) THEN "rx_submit" ELSE "r_check")
  /\ UNCHANGED <<usb, bufs, rem, inhand, view, result, hist>>

RdSubmit ==
  /\ pc = "rx_submit"
  /\ open
  /\ xout' = 0
  /\ Goto("r_check")
  /\ UNCHANGED <<timeout, open, xin, taken, bufs, rem, inhand, view, result, hist>>

ReadDone ==
  /\ pc = "r_check"
  /\ rem = 0
  /\ Leave("ok")

\* flush(): ioctl(MP_STREAM_FLUSH)
Flush == Enter("f_loop", 0)

FlushDone ==
  /\ pc = "f_loop"
  /\ wn = 0
  /\ Leave("ok")

FlushOpen ==
  /\ pc = "f_loop"
  /\ wn > 0
  /\ Goto("f_open")
  /\ UNCHANGED <<usb, bufs, rem, inhand, view, result, hist>>

FlushClosed ==
  /\ pc = "f_open"
  /\ ~open
  /\ Leave("EINVAL")

\* The three loops compare the time with self._timeout, call machine.idle() and
\* go round.
Waiting == \/ pc \in {"w_check", "r_check"} /\ rem > 0
           \/ pc = "f_open" /\ open

TimedOut_NotInFlush ==
  /\ pc # "f_open" /\ Waiting
  /\ Leave(IF timeout THEN "timeout" ELSE "TypeError")

TimedOut ==
  /\ Waiting
  /\ Leave(IF timeout THEN "timeout" ELSE "TypeError")

IdleOf == [w_check |-> "w_idle", r_check |-> "r_idle", f_open |-> "f_idle"]
Again == [w_idle |-> "wb_pend", r_idle |-> "rb_copy", f_idle |-> "f_loop"]

MachineIdle ==
  /\ Waiting
  /\ timeout
  /\ Goto(IdleOf[pc])
  /\ UNCHANGED <<usb, bufs, rem, inhand, view, result, hist>>

GoRound ==
  /\ pc \in DOMAIN Again
  /\ Goto(Again[pc])
  /\ UNCHANGED <<usb, bufs, rem, inhand, view, result, hist>>

\* Where the thread waits, or runs code that is not this driver's.
Settled == pc = "idle" \/ pc \in DOMAIN Again

----------------------------------------------------------------------------
(* The host, the controller, and TinyUSB's callbacks.                      *)

InFlight(x) == x >= 0

\* The host receives one more byte of the IN transfer.
HostTakes ==
  /\ taken < xin
  /\ taken' = taken + 1
  /\ host' = IF wpos + taken + 1 > host THEN wpos + taken + 1 ELSE host
  /\ UNCHANGED <<timeout, open, xin, xout, bufs, call, sent, lost, returned, skipped>>

\* The host sends one more byte of the packet.
HostSends ==
  /\ InFlight(xout) /\ xout < EpLen
  /\ sent < MaxRx
  /\ xout' = xout + 1
  /\ sent' = sent + 1
  /\ UNCHANGED <<timeout, open, xin, taken, bufs, call, host, lost, returned, skipped>>

\* What _wr_xfer() leaves from a callback with n bytes in _wb: the transfer that it
\* submits, if any, or "DCD error" that it raises out of the callback.
NextIn_Never(n) == {NoXfer}
NextIn(n) == IF n > 0 THEN {n, Stuck} ELSE {NoXfer}

\* _wr_cb(): the bytes sent leave _wb if the transfer succeeded.
Consumed_Always(ok) == xin
Consumed(ok) == IF ok THEN xin ELSE 0

WrCb(ok) ==
  /\ InFlight(xin)
  /\ ok => taken = xin
  /\ wn' = wn - Consumed(ok)
  /\ wpos' = wpos + Consumed(ok)
  /\ xin' \in NextIn(wn')
  /\ taken' = 0
  /\ UNCHANGED <<timeout, open, xout, rn, call, hist>>

\* The same of _rd_xfer() with n bytes in _rb.
NextOut_Never(n) == {NoXfer}
NextOut(n) == IF Room(n) THEN {0, Stuck} ELSE {NoXfer}

\* _rd_cb(): the packet joins _rb if the transfer succeeded.
Received(ok) == IF ok THEN xout ELSE 0

RdCb(ok) ==
  /\ InFlight(xout)
  /\ rn' = rn + Received(ok)
  /\ lost' = IF ok THEN lost ELSE lost + xout
  /\ xout' \in NextOut(rn')
  /\ UNCHANGED <<timeout, open, xin, taken, wpos, wn, call, host, sent, returned, skipped>>

\* A bus reset cancels both transfers; what is in the buffers stays.
ResetCb ==
  /\ open
  /\ open' = FALSE
  /\ xin' = NoXfer /\ taken' = 0
  /\ xout' = NoXfer
  /\ lost' = IF InFlight(xout) THEN lost + xout ELSE lost
  /\ UNCHANGED <<timeout, bufs, call, host, sent, returned, skipped>>

\* on_open() kicks off both transfers, the second only if the first is not refused.
\* An enumeration takes the host longer than the thread takes from one
\* machine.idle() to the next.
OnOpen ==
  /\ ~open /\ Settled
  /\ open' = TRUE
  /\ xout' \in NextOut(rn)
  /\ skipped' = (xout' = Stuck)
  /\ xin' \in IF skipped' THEN {NoXfer} ELSE NextIn(wn)
  /\ taken' = 0
  /\ UNCHANGED <<timeout, bufs, call, host, sent, lost, returned>>

----------------------------------------------------------------------------
Steps ==
  \/ WbPendWrite \/ WbFinishWrite \/ WrOpen \/ WrPending \/ WrSubmit \/ WriteDone
  \/ RbReadinto \/ RbEmpty \/ RdOpen \/ RdPending \/ RdSubmit \/ ReadDone
  \/ FlushDone \/ FlushOpen \/ FlushClosed
  \/ PendingKeyError \/ SubmitRuntimeError \/ DcdError
  \/ TimedOut \/ MachineIdle \/ GoRound

Calls ==
  \/ \E n \in 1..MaxTx : Write(n)
  \/ \E n \in 1..MaxRx : Read(n)
  \/ Flush

Usb ==
  \/ HostTakes \/ HostSends
  \/ \E ok \in BOOLEAN : WrCb(ok) \/ RdCb(ok)
  \/ ResetCb \/ OnOpen

Next == Steps \/ Calls \/ Usb

\* The thread runs and its clock advances.
ThreadFairness == WF_vars(Steps) /\ SF_vars(TimedOut)

\* A host that is there polls the IN endpoint and takes a transfer in the end,
\* though some may fail first.
HostFairness ==
  /\ \A k \in 0..TxLen : SF_vars(taken = k /\ HostTakes)
  /\ SF_vars(WrCb(TRUE))

Spec == Init /\ [][Next]_vars /\ ThreadFairness

----------------------------------------------------------------------------
(* Properties.                                                             *)

TypeOK ==
  /\ timeout \in BOOLEAN /\ open \in BOOLEAN /\ skipped \in BOOLEAN
  /\ xin \in {NoXfer, Stuck} \cup 0..TxLen /\ taken \in 0..TxLen
  /\ xout \in {NoXfer, Stuck} \cup 0..EpLen
  /\ wpos \in 0..MaxTx /\ wn \in 0..TxLen /\ rn \in 0..RxLen
  /\ pc \in {"idle", "wb_pend", "wb_finish", "wx_open", "wx_pending", "wx_submit",
             "w_check", "w_idle", "rb_copy", "rx_open", "rx_pending", "rx_submit",
             "r_check", "r_idle", "f_loop", "f_open", "f_idle"}
  /\ rem \in 0..(MaxTx + MaxRx) /\ inhand \in 0..MaxRx
  /\ view \in 0..TxLen
  /\ result \in {"none", "ok", "timeout", "EINVAL"} \cup
                {"KeyError", "RuntimeError", "TypeError"}
  /\ host \in 0..MaxTx
  /\ sent \in 0..MaxRx /\ lost \in 0..MaxRx /\ returned \in 0..MaxRx

\* No byte is dropped on its way to the host: what leaves _wb the host has, across
\* failed transfers and resets; and a transfer's view lies within the bytes of
\* _wb, so the assertion of finish_read() in _wr_cb() holds.
HostHasWhatLeft ==
  /\ wpos <= host /\ host <= wpos + wn
  /\ InFlight(xin) => xin <= wn

\* Every byte the host sent is in flight, in _rb, in the caller's hands or
\* returned; only a reset, a failed transfer or an exception loses any. And the view
\* of the OUT transfer in flight has room for a packet of the endpoint's full length.
RxConserved ==
  /\ sent = returned + inhand + rn + lost + (IF InFlight(xout) THEN xout ELSE 0)
  /\ InFlight(xout) => RxLen - rn >= EpLen

\* The stream of each direction is where it should be.
Conserved == TypeOK /\ HostHasWhatLeft /\ RxConserved

\* "make sure a transfer is running from _wb" and "Keep an active data OUT transfer to
\* read data from the host, whenever the receive buffer has room for new data": no
\* interleaving of the calls with the callbacks leaves bytes in _wb, or room for a
\* packet in _rb, with nobody to move them.  Only a refused transfer does: its endpoint
\* stays marked until it is opened again, and if it was the first that on_open()
\* submits, the bytes in _wb wait for the next write().
KeepsGoing ==
  Settled /\ open =>
    /\ wn > 0 => InFlight(xin) \/ xin = Stuck \/ skipped
    /\ Room(rn) => InFlight(xout) \/ xout = Stuck

\* What is in _wb reaches a host that polls, whatever transfers fail, unless the bus
\* is reset or the controller refuses a transfer first, as KeepsGoing says.
TxDelivers ==
  HostFairness =>
    \A p \in 1..MaxTx :
      (open /\ wpos + wn >= p) ~> (host >= p \/ ~open \/ xin = Stuck \/ skipped)

\* write(), read() and flush() come back, whatever the host does or fails to do.
CallsReturn == (pc # "idle") ~> (pc = "idle")
=============================================================================
