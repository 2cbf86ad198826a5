------------------------------ MODULE UsbCore ------------------------------
(***************************************************************************)
(* _Device of usb/device/core.py with the transfer and open/reset handling *)
(* of Interface: threads that call Interface.submit_xfer(), and the        *)
(* callbacks TinyUSB makes (transfer done, bus reset, interface opened),   *)
(* one at a time, between any two bytecodes of some thread, which waits    *)
(* until the callback returns while the other threads go on.  Each step is *)
(* one access to shared state: the lookup in _eps, each of the two loads   *)
(* of _xfer_pending(), the store to _ep_cbs, the call of the controller.   *)
(***************************************************************************)
EXTENDS Integers

CONSTANTS
  Thread,      \* the threads of the program
  CbThread,    \* those that TinyUSB's callbacks may run on
  Ep,          \* endpoint addresses of the interface
  Submits,     \* set of <<t, ep>>: thread t submits transfers on endpoint ep
  Resubmits,   \* set of <<e, ep>>: so do the callbacks of endpoint e, and
               \* on_open() for e = NoEp
  MaxXfers     \* bound: calls of submit_xfer() that find the interface open

Cb == "cb"     \* the actor that runs TinyUSB's callbacks
Actor == Thread \cup {Cb}
Nobody == "nobody"
NoEp == "noep"

ASSUME CoreAssumption ==
  /\ Cb \notin Thread /\ Nobody \notin Thread /\ NoEp \notin Ep
  /\ CbThread \subseteq Thread
  /\ Submits \subseteq (Thread \X Ep)
  /\ Resubmits \subseteq ((Ep \cup {NoEp}) \X Ep)
  /\ MaxXfers \in Nat

\* A transfer is numbered by its submission; the number also stands for the
\* "done_cb or True" that the submission stores.
Xfer == 1..MaxXfers
None == 0
Absent == -1   \* no such key in _ep_cbs

VARIABLES
  open,        \* Interface._open
  eps,         \* keys of _Device._eps
  ep_cbs,      \* _Device._ep_cbs: a transfer's callback, None or Absent
  cb_thread,   \* _Device._cb_thread
  cb_ep,       \* _Device._cb_ep
  cfg,         \* controller: the host has configured the device
  hw,          \* controller: the transfer in flight on an endpoint, or None
  on,          \* the thread the running callback interrupts, or Nobody
  pc,          \* per actor: where in the code it is
  aep,         \* per actor: the ep_addr argument
  axf,         \* per actor: the transfer being submitted, or (Cb) completed
  found,       \* Cb: local cb of _xfer_cb, what _ep_cbs held
  last,        \* the number of the last submission
  refused,     \* history: endpoints the controller refused since they were opened
  ran          \* transfers whose own callback has been called

device == <<open, eps, ep_cbs, cb_thread, cb_ep>>
controller == <<cfg, hw>>
hist == <<last, refused, ran>>
vars == <<device, controller, on, pc, aep, axf, found, hist>>

Ident(a) == IF a = Cb THEN on ELSE a      \* get_ident()

\* A thread does nothing while a callback runs on it.
Runs(a) == a = Cb \/ on # a

Init ==
  /\ open = FALSE /\ eps = {}
  /\ ep_cbs = [ep \in Ep |-> Absent]
  /\ cb_thread = Nobody /\ cb_ep = NoEp
  /\ cfg = FALSE /\ hw = [ep \in Ep |-> None]
  /\ on = Nobody
  /\ pc = [a \in Actor |-> "idle"]
  /\ aep = [a \in Actor |-> NoEp]
  /\ axf = [a \in Actor |-> None]
  /\ found = None
  /\ last = 0
  /\ refused = {}
  /\ ran = {}

----------------------------------------------------------------------------
(* Interface.submit_xfer(ep, data, done_cb), called by a thread, or by the  *)
(* callback of a transfer or on_open() (both of them Cb at "body").         *)

Calls(a, ep) ==
  \/ a # Cb /\ on # a /\ pc[a] = "idle" /\ <<a, ep>> \in Submits
  \/ a = Cb /\ pc[a] = "body" /\ <<cb_ep, ep>> \in Resubmits

\* Return, or raise: either way the caller goes on; a callback may submit again.
Leave(a) ==
  /\ pc' = [pc EXCEPT ![a] = IF a = Cb THEN "body" ELSE "idle"]
  /\ aep' = [aep EXCEPT ![a] = NoEp]
  /\ axf' = [axf EXCEPT ![a] = None]

Goto(a, l) ==
  /\ pc' = [pc EXCEPT ![a] = l]
  /\ UNCHANGED <<aep, axf>>

\* "Not open" is raised at once, or the call goes on to _submit_xfer().
SubmitXfer(a, ep) ==
  /\ Calls(a, ep)
  /\ open
  /\ last < MaxXfers
  /\ last' = last + 1
  /\ pc' = [pc EXCEPT ![a] = "eps"]
  /\ aep' = [aep EXCEPT ![a] = ep]
  /\ axf' = [axf EXCEPT ![a] = last + 1]
  /\ UNCHANGED <<device, controller, on, found, refused, ran>>

\* if ep_addr not in self._eps: raise ValueError
CheckEps(a) ==
  /\ Runs(a) /\ pc[a] = "eps"
  /\ IF aep[a] \in eps THEN Goto(a, "pending") ELSE Leave(a)
  /\ UNCHANGED <<device, controller, on, found, hist>>

\* _xfer_pending, first load: KeyError and "xfer_pending" leave.
Unmarked_Registered(a) == ep_cbs[aep[a]] # Absent
Unmarked(a) == ep_cbs[aep[a]] = None

PendingLoadCb(a) ==
  /\ Runs(a) /\ pc[a] = "pending"
  /\ IF Unmarked(a) THEN Goto(a, "cbep") ELSE Leave(a)
  /\ UNCHANGED <<device, controller, on, found, hist>>

\* _xfer_pending, second load: is a callback for this endpoint running, on
\* another thread?
RunningElsewhere(a) == cb_ep = aep[a] /\ cb_thread # Ident(a)

PendingLoadEp(a) ==
  /\ Runs(a) /\ pc[a] = "cbep"
  /\ IF RunningElsewhere(a) THEN Leave(a) ELSE Goto(a, "store")
  /\ UNCHANGED <<device, controller, on, found, hist>>

\* self._ep_cbs[ep_addr] = done_cb or True
StoreCb_Lost(a) == ep_cbs
StoreCb(a) == [ep_cbs EXCEPT ![aep[a]] = axf[a]]

Store(a) ==
  /\ Runs(a) /\ pc[a] = "store"
  /\ ep_cbs' = StoreCb(a)
  /\ Goto(a, "queue")
  /\ UNCHANGED <<open, eps, cb_thread, cb_ep, controller, on, found, hist>>

\* The controller can take a transfer when it is configured and the endpoint is
\* free.  It may refuse one all the same: then "DCD error" is raised, and the mark
\* stays in _ep_cbs.
Accepts(a) == cfg /\ hw[aep[a]] = None

Queue(a) ==
  /\ Runs(a) /\ pc[a] = "queue"
  /\ Accepts(a)
  /\ hw' = [hw EXCEPT ![aep[a]] = axf[a]]
  /\ Leave(a)
  /\ UNCHANGED <<device, cfg, on, found, hist>>

DcdError(a) ==
  /\ Runs(a) /\ pc[a] = "queue"
  /\ refused' = refused \cup {aep[a]}
  /\ Leave(a)
  /\ UNCHANGED <<device, controller, on, found, last, ran>>

----------------------------------------------------------------------------
(* TinyUSB's callbacks.                                                    *)

\* A transfer completes, and _xfer_cb(ep, result, n) starts on some thread: cb
\* is looked up.
XferCb(ep, t) ==
  /\ pc[Cb] = "idle"
  /\ hw[ep] # None
  /\ on' = t
  /\ found' = ep_cbs[ep]
  /\ hw' = [hw EXCEPT ![ep] = None]
  /\ ran' = IF ep_cbs[ep] = hw[ep] THEN ran \cup {hw[ep]} ELSE ran
  /\ pc' = [pc EXCEPT ![Cb] = "mark"]
  /\ aep' = [aep EXCEPT ![Cb] = ep]
  /\ axf' = [axf EXCEPT ![Cb] = hw[ep]]
  /\ UNCHANGED <<device, cfg, last, refused>>

\* A completion for an endpoint with no transfer ("may happen in transient
\* states"): cb is None and nothing is called, unless a call of submit_xfer() that
\* the reset overtook has left its mark; and the key is stored.
StrayXferCb(ep, t) ==
  /\ pc[Cb] = "idle"
  /\ ~cfg
  /\ on' = t
  /\ found' = ep_cbs[ep]
  /\ ran' = ran \cup ({ep_cbs[ep]} \cap Xfer)
  /\ pc' = [pc EXCEPT ![Cb] = "mark"]
  /\ aep' = [aep EXCEPT ![Cb] = ep]
  /\ UNCHANGED <<device, controller, axf, last, refused>>

\* self._cb_thread = get_ident(); self._cb_ep = ep_addr
Mark ==
  /\ pc[Cb] = "mark"
  /\ cb_thread' = on
  /\ cb_ep' = aep[Cb]
  /\ pc' = [pc EXCEPT ![Cb] = "clear"]
  /\ UNCHANGED <<open, eps, ep_cbs, controller, on, aep, axf, found, hist>>

\* self._ep_cbs[ep_addr] = None, and cb is called if it is callable.
Cleared_Not == ep_cbs
Cleared == [ep_cbs EXCEPT ![aep[Cb]] = None]

Clear ==
  /\ pc[Cb] = "clear"
  /\ ep_cbs' = Cleared
  /\ pc' = [pc EXCEPT ![Cb] = IF found \in Xfer THEN "body" ELSE "finally"]
  /\ aep' = [aep EXCEPT ![Cb] = NoEp]
  /\ axf' = [axf EXCEPT ![Cb] = None]
  /\ UNCHANGED <<open, eps, cb_thread, cb_ep, controller, on, found, hist>>

\* The callback (or on_open()) submits nothing more and returns, or raises.
BodyDone ==
  /\ pc[Cb] = "body"
  /\ Goto(Cb, "finally")
  /\ UNCHANGED <<device, controller, on, found, hist>>

\* finally: self._cb_ep = None; the interrupted thread goes on.
Finally ==
  /\ pc[Cb] = "finally"
  /\ cb_ep' = NoEp
  /\ found' = None
  /\ on' = Nobody
  /\ pc' = [pc EXCEPT ![Cb] = "idle"]
  /\ UNCHANGED <<open, eps, ep_cbs, cb_thread, controller, aep, axf, hist>>

\* The host resets the bus: the controller drops every transfer, and _reset_cb()
\* starts with on_reset().
ResetCb(t) ==
  /\ pc[Cb] = "idle"
  /\ cfg
  /\ cfg' = FALSE
  /\ hw' = [ep \in Ep |-> None]
  /\ on' = t
  /\ open' = FALSE
  /\ pc' = [pc EXCEPT ![Cb] = "reset_eps"]
  /\ UNCHANGED <<eps, ep_cbs, cb_thread, cb_ep, aep, axf, found, hist>>

ResetEps ==
  /\ pc[Cb] = "reset_eps"
  /\ eps' = {}
  /\ pc' = [pc EXCEPT ![Cb] = "reset_cbs"]
  /\ UNCHANGED <<open, ep_cbs, cb_thread, cb_ep, controller, on, aep, axf, found, hist>>

ResetCbs ==
  /\ pc[Cb] = "reset_cbs"
  /\ ep_cbs' = [ep \in Ep |-> Absent]
  /\ on' = Nobody
  /\ pc' = [pc EXCEPT ![Cb] = "idle"]
  /\ UNCHANGED <<open, eps, cb_thread, cb_ep, controller, aep, axf, found, hist>>

\* The host configures the device: _open_itf_cb() registers the endpoints.  The
\* host takes many milliseconds over an enumeration; no call of submit_xfer()
\* by a thread is taken to last from before it to after it.
OpenItfCb(t) ==
  /\ pc[Cb] = "idle"
  /\ ~cfg
  /\ \A a \in Thread : pc[a] = "idle"
  /\ cfg' = TRUE
  /\ on' = t
  /\ eps' = Ep
  /\ ep_cbs' = [ep \in Ep |-> None]
  /\ refused' = {}
  /\ pc' = [pc EXCEPT ![Cb] = "on_open"]
  /\ UNCHANGED <<open, cb_thread, cb_ep, hw, aep, axf, found, last, ran>>

\* itf.on_open() sets _open and may submit the first transfers, on several endpoints.
OnOpen ==
  /\ pc[Cb] = "on_open"
  /\ open' = TRUE
  /\ pc' = [pc EXCEPT ![Cb] = "body"]
  /\ UNCHANGED <<eps, ep_cbs, cb_thread, cb_ep, controller, on, aep, axf, found, hist>>

----------------------------------------------------------------------------
SubmitStep(a) ==
  \/ \E ep \in Ep : SubmitXfer(a, ep)
  \/ CheckEps(a)
  \/ PendingLoadCb(a)
  \/ PendingLoadEp(a)
  \/ Store(a)
  \/ Queue(a)
  \/ DcdError(a)

CbStep ==
  \/ Mark \/ Clear \/ BodyDone \/ Finally
  \/ ResetEps \/ ResetCbs \/ OnOpen

HostStep ==
  \E t \in CbThread :
    \/ \E ep \in Ep : XferCb(ep, t) \/ StrayXferCb(ep, t)
    \/ ResetCb(t)
    \/ OpenItfCb(t)

Next ==
  \/ \E a \in Actor : SubmitStep(a)
  \/ CbStep
  \/ HostStep

\* The controller reports every transfer in the end, because the host polls the
\* endpoint and TinyUSB takes its events in order; threads and callbacks go on.
Fairness ==
  /\ \A a \in Thread :
       WF_vars(CheckEps(a) \/ PendingLoadCb(a) \/ PendingLoadEp(a) \/ Store(a)
               \/ Queue(a) \/ DcdError(a))
  /\ WF_vars(CheckEps(Cb) \/ PendingLoadCb(Cb) \/ PendingLoadEp(Cb) \/ Store(Cb)
             \/ Queue(Cb) \/ DcdError(Cb) \/ CbStep)
  /\ \A ep \in Ep : SF_vars(\E t \in CbThread : XferCb(ep, t))

Spec == Init /\ [][Next]_vars
FairSpec == Spec /\ Fairness

----------------------------------------------------------------------------
(* Properties.                                                             *)

TypeOK ==
  /\ open \in BOOLEAN
  /\ eps \in SUBSET Ep
  /\ ep_cbs \in [Ep -> Xfer \cup {None, Absent}]
  /\ cb_thread \in CbThread \cup {Nobody}
  /\ cb_ep \in Ep \cup {NoEp}
  /\ cfg \in BOOLEAN
  /\ hw \in [Ep -> Xfer \cup {None}]
  /\ on \in CbThread \cup {Nobody}
  /\ pc \in [Actor -> {"idle", "eps", "pending", "cbep", "store", "queue", "mark",
                       "clear", "body", "finally", "reset_eps", "reset_cbs",
                       "on_open"}]
  /\ aep \in [Actor -> Ep \cup {NoEp}]
  /\ axf \in [Actor -> Xfer \cup {None}]
  /\ found \in Xfer \cup {None, Absent}
  /\ last \in 0..MaxXfers
  /\ refused \in SUBSET Ep
  /\ ran \in SUBSET Xfer

\* A submission that found no transfer pending is not refused by the controller
\* because one is: nothing starts between the two loads of the check, the store
\* and the call.
FreeWhenQueued ==
  /\ TypeOK
  /\ \A a \in Actor : pc[a] = "queue" /\ cfg => hw[aep[a]] = None

\* "Return True if a transfer is already pending on ep_addr": when no call is
\* under way on an open interface, _ep_cbs marks the endpoints with a transfer in
\* flight, and none besides but those whose transfer the controller refused, that
\* stay marked until they are opened again.
PendingExact ==
  open /\ (\A a \in Actor : pc[a] = "idle")
    => \A ep \in Ep : (ep_cbs[ep] # None) <=> (hw[ep] # None \/ ep \in refused)

\* "If the function returns, the transfer is queued": every transfer the
\* controller took calls back, unless the bus is reset first.
XferCallsBack ==
  \A ep \in Ep, x \in Xfer : (hw[ep] = x) ~> (x \in ran \/ ~cfg)

\* Who submits where so that the two loads of _xfer_pending() are enough: the callback
\* of an endpoint submits on no other, one thread at most submits on an endpoint, and
\* if the callbacks do so too, they run on that thread.
OneSubmitter ==
  /\ \A e, ep \in Ep : <<e, ep>> \in Resubmits => e = ep
  /\ \A t, u \in Thread, ep \in Ep : <<t, ep>> \in Submits /\ <<u, ep>> \in Submits => t = u
  /\ \A t \in Thread, ep \in Ep, e \in Ep \cup {NoEp} :
       <<t, ep>> \in Submits /\ <<e, ep>> \in Resubmits => CbThread \subseteq {t}

Endpoint == INSTANCE UsbEndpoint WITH xfer <- hw

\* The two-load check, the callback table and the nesting of callbacks amount
\* to the endpoints of UsbEndpoint.
EndpointSpec == Endpoint!Spec
============================================================================
