------------------------------- MODULE UsbHid -------------------------------
(***************************************************************************)
(* HIDInterface.send_report() of usb/device/hid.py and its two callers:    *)
(* KeyboardInterface.send_keys() with its ping/pong report buffers, and    *)
(* MouseInterface.send_report() with its single one.  A report is a        *)
(* number; what matters here is which report a buffer holds while the      *)
(* controller reads it.                                                    *)
(* The endpoint is one of UsbEndpoint; resets cut in between any two steps.*)
(***************************************************************************)
EXTENDS Integers

CONSTANT
  MaxReports   \* bound: calls the program makes

ASSUME HidAssumption == MaxReports \in Nat

NoBuffer == -1
Stuck == -2   \* "DCD error": the transfer was refused, and the endpoint stays marked pending

VARIABLES
  device,    \* the class of the interface: "keyboard" or "mouse"
  open,      \* is_open(): configured, and the endpoint registered
  xfer,      \* the buffer that the IN transfer in flight sends; or NoBuffer or Stuck
  next,      \* the buffer to write to: _key_reports[0] or _buf
  buf,       \* the report that each buffer holds
  pc,        \* where the thread is
  result,    \* how the last call ended
  last,      \* history: the last report asked for
  asked,     \* history: the report the transfer in flight was submitted for
  accepted,  \* history: reports whose call returned True
  got,       \* history: reports the host has received
  lost       \* history: reports gone in a reset or a failed transfer

bus == <<open, xfer, asked, got, lost>>
call == <<pc, result>>
vars == <<device, bus, next, buf, call, last, accepted>>

\* _key_reports, or _buf.
Buffers(d) == IF d = "keyboard" THEN {0, 1} ELSE {0}

Init ==
  /\ device \in {"keyboard", "mouse"}
  /\ open = FALSE /\ xfer = NoBuffer
  /\ next = 0 /\ buf = [b \in Buffers(device) |-> 0]
  /\ pc = "idle" /\ result = "none"
  /\ last = 0 /\ asked = 0 /\ accepted = {} /\ got = {} /\ lost = {}

----------------------------------------------------------------------------
(* Steps of the thread.                                                    *)

Goto(l) == pc' = l /\ UNCHANGED <<device, bus, next, buf, result, last, accepted>>

Return(r) ==
  /\ pc' = "idle"
  /\ result' = r
  /\ UNCHANGED <<device, next, buf, last, accepted>>

Leave(r) == Return(r) /\ UNCHANGED bus

Enter(l) ==
  /\ pc = "idle"
  /\ last < MaxReports
  /\ last' = last + 1
  /\ pc' = l
  /\ result' = "none"
  /\ UNCHANGED <<device, bus, next, accepted>>

Filled == [buf EXCEPT ![next] = last']

\* send_keys(): the report is written to r at once.
SendKeys ==
  /\ device = "keyboard"
  /\ Enter("s_open")
  /\ buf' = Filled

\* MouseInterface.send_report() waits for the pending report first.
MouseReport ==
  /\ device = "mouse"
  /\ Enter("m_open")
  /\ UNCHANGED buf

\* busy() in the two loops: is_open() ...
NotBusy == [m_open |-> "m_pack", m_pending |-> "m_pack",
            s_open |-> "s_check", s_pending |-> "s_check"]

BusyOpen ==
  \/ pc = "m_open" /\ Goto(IF open THEN "m_pending" ELSE NotBusy[pc])
  \/ pc = "s_open" /\ Goto(IF open THEN "s_pending" ELSE NotBusy[pc])

\* ... and xfer_pending().
Pending_Never == FALSE
Pending == xfer # NoBuffer

BusyPending ==
  /\ open
  /\ \/ pc = "m_pending" /\ Goto(IF Pending THEN "m_idle" ELSE NotBusy[pc])
     \/ pc = "s_pending" /\ Goto(IF Pending THEN "s_wait" ELSE NotBusy[pc])

\* The bus was reset since is_open() answered: _ep_cbs has no such key.
PendingKeyError ==
  /\ pc \in {"m_pending", "s_pending"}
  /\ ~open
  /\ Leave("KeyError")

\* machine.idle(), and round again: the mouse without, send_report() with a
\* deadline.
MouseIdle == pc = "m_idle" /\ Goto("m_open")

TimedOut_Never == FALSE
TimedOut == pc = "s_wait" /\ Leave("timeout")

Idle == pc = "s_wait" /\ Goto("s_open")

\* struct.pack_into(): the mouse's report is written.
MousePack ==
  /\ pc = "m_pack"
  /\ buf' = [buf EXCEPT ![next] = last]
  /\ pc' = "s_open"
  /\ UNCHANGED <<device, bus, next, result, last, accepted>>

\* if not self.is_open(): return False
CheckOpen ==
  \/ pc = "s_check" /\ open /\ Goto("s_submit")
  \/ pc = "s_check" /\ ~open /\ Leave("closed")

Submit ==
  /\ pc = "s_submit"
  /\ open
  /\ xfer' = next
  /\ asked' = last
  /\ pc' = "queued"
  /\ UNCHANGED <<device, open, next, buf, result, last, accepted, got, lost>>

\* The controller refuses the transfer: "DCD error", and the endpoint stays marked.
DcdError ==
  /\ pc = "s_submit"
  /\ open
  /\ xfer' = Stuck
  /\ Return("RuntimeError")
  /\ UNCHANGED <<open, asked, got, lost>>

\* The bus was reset since is_open() answered: "Not open".
SubmitRuntimeError ==
  /\ pc = "s_submit"
  /\ ~open
  /\ Leave("RuntimeError")

\* The keyboard swaps its buffers if the previous one is newly queued.
Swapped_Not == next
Swapped == IF device = "keyboard" THEN 1 - next ELSE next

ReturnTrue ==
  /\ pc = "queued"
  /\ next' = Swapped
  /\ accepted' = accepted \cup {last}
  /\ pc' = "idle"
  /\ result' = "ok"
  /\ UNCHANGED <<device, bus, buf, last>>

----------------------------------------------------------------------------
(* The host and the controller.  The transfer has no callback.             *)

InFlight == xfer \in Buffers(device)

\* The host has read the report in the buffer.
HostTakes ==
  /\ InFlight
  /\ got' = got \cup {buf[xfer]}
  /\ xfer' = NoBuffer
  /\ asked' = 0
  /\ UNCHANGED <<device, open, next, buf, call, last, accepted, lost>>

\* The transfer in flight is dropped.
Drop ==
  /\ xfer' = NoBuffer
  /\ asked' = 0
  /\ lost' = IF InFlight THEN lost \cup {asked} ELSE lost

XferFails ==
  /\ InFlight
  /\ Drop
  /\ UNCHANGED <<device, open, next, buf, call, last, accepted, got>>

ResetCb ==
  /\ open
  /\ open' = FALSE
  /\ Drop
  /\ UNCHANGED <<device, next, buf, pc, result, last, accepted, got>>

\* The host configures the device again, which takes it longer than the thread
\* takes from one machine.idle() to the next.
OnOpen ==
  /\ ~open
  /\ pc \in {"idle", "m_idle", "s_wait"}
  /\ open' = TRUE
  /\ UNCHANGED <<device, xfer, next, buf, call, last, asked, accepted, got, lost>>

----------------------------------------------------------------------------
Steps ==
  \/ BusyOpen \/ BusyPending \/ PendingKeyError
  \/ MouseIdle \/ MousePack
  \/ Idle \/ TimedOut
  \/ CheckOpen \/ Submit \/ DcdError \/ SubmitRuntimeError \/ ReturnTrue

Next ==
  \/ SendKeys \/ MouseReport
  \/ Steps
  \/ HostTakes \/ XferFails \/ ResetCb \/ OnOpen

\* The thread runs and its clock advances; the host of a mouse polls the endpoint.
Fairness ==
  /\ WF_vars(Steps)
  /\ SF_vars(TimedOut)
  /\ WF_vars(device = "mouse" /\ HostTakes)

Spec == Init /\ [][Next]_vars /\ Fairness

----------------------------------------------------------------------------
(* Properties.                                                             *)

TypeOK ==
  /\ open \in BOOLEAN
  /\ xfer \in Buffers(device) \cup {NoBuffer, Stuck} /\ next \in Buffers(device)
  /\ buf \in [Buffers(device) -> 0..MaxReports]
  /\ pc \in {"idle", "m_open", "m_pending", "m_idle", "m_pack", "s_open",
             "s_pending", "s_wait", "s_check", "s_submit", "queued"}
  /\ result \in {"none", "ok", "timeout", "closed", "KeyError", "RuntimeError"}
  /\ last \in 0..MaxReports /\ asked \in 0..MaxReports
  /\ accepted \in SUBSET (1..MaxReports)
  /\ got \in SUBSET (1..MaxReports) /\ lost \in SUBSET (1..MaxReports)

\* "so any subsequent call can't modify that buffer mid-send", "Wait for any
\* pending report to be sent to the host before updating contents of _buf": the
\* buffer in flight holds the report it was submitted for, whatever earlier
\* calls timed out, failed, or raised.
InFlightIntact == TypeOK /\ (InFlight => buf[xfer] = asked)

\* "Returns True if successful": between calls, the reports whose call returned
\* True are exactly those in flight, received, and lost in a reset or a failed
\* transfer; a call that returned False, or raised, sent nothing.
Accounted ==
  pc = "idle" =>
    accepted = got \cup lost \cup (IF InFlight THEN {asked} ELSE {})

\* "Will block for up to timeout_ms": send_keys() comes back whatever the host and
\* the controller do. The mouse waits without a deadline: its call comes back if the
\* host polls, unless an earlier transfer was refused, whose mark busy() takes for a
\* pending report until the endpoint is opened again.
CallsReturn ==
  (pc # "idle") ~> (pc = "idle" \/ (device = "mouse" /\ xfer = Stuck))
=============================================================================
