---------------------------- MODULE UsbEndpoint ----------------------------
(***************************************************************************)
(* What usb.device.core promises to a class driver about the endpoints of  *)
(* a device: at most one transfer in flight on each, none while the host   *)
(* has not configured the device, and, when one completes, the callback    *)
(* that was submitted with it and no other.  UsbCore implements this; the  *)
(* class drivers (UsbCdc, UsbMidi, UsbHid) are modelled on top of it.      *)
(***************************************************************************)
EXTENDS Integers

CONSTANTS
  Ep,        \* endpoint addresses
  MaxXfers   \* bound: transfers ever submitted

Xfer == 1..MaxXfers
Idle == 0

VARIABLES
  cfg,       \* the host has configured the device
  xfer,      \* the transfer in flight on an endpoint, or Idle
  ran        \* the transfers whose own callback has run

vars == <<cfg, xfer, ran>>

Init ==
  /\ cfg = FALSE
  /\ xfer = [ep \in Ep |-> Idle]
  /\ ran = {}

Submit(ep, x) ==
  /\ cfg
  /\ xfer[ep] = Idle
  /\ x \notin ran
  /\ xfer' = [xfer EXCEPT ![ep] = x]
  /\ UNCHANGED <<cfg, ran>>

Complete(ep) ==
  /\ xfer[ep] # Idle
  /\ ran' = ran \cup {xfer[ep]}
  /\ xfer' = [xfer EXCEPT ![ep] = Idle]
  /\ UNCHANGED cfg

\* While the device is not configured, a completion without a transfer may call the
\* callback of a submission that the reset overtook.
Stray(x) ==
  /\ ~cfg
  /\ ran' = ran \cup {x}
  /\ UNCHANGED <<cfg, xfer>>

Reset ==
  /\ cfg' = FALSE
  /\ xfer' = [ep \in Ep |-> Idle]
  /\ UNCHANGED ran

Configure ==
  /\ ~cfg
  /\ cfg' = TRUE
  /\ UNCHANGED <<xfer, ran>>

Next ==
  \/ \E ep \in Ep, x \in Xfer : Submit(ep, x)
  \/ \E ep \in Ep : Complete(ep)
  \/ \E x \in Xfer : Stray(x)
  \/ Reset
  \/ Configure

Spec == Init /\ [][Next]_vars
============================================================================
