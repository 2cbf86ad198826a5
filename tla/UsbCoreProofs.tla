--------------------------- MODULE UsbCoreProofs ---------------------------
(***************************************************************************)
(* For any threads, endpoints and number of transfers, as long as the      *)
(* endpoints have the users OneSubmitter allows: the two loads of          *)
(* _xfer_pending() are enough for one transfer at a time on each endpoint, *)
(* the marks in _ep_cbs are exact, and UsbCore implements UsbEndpoint.     *)
(***************************************************************************)
EXTENDS UsbCore, TLAPS

\* A call of submit_xfer() under way; one that has found no transfer pending.
Submitting == {"eps", "pending", "cbep", "store", "queue"}
Passed == {"cbep", "store", "queue"}

\* A completion that has not cleared its mark; a callback that may submit.
Completing == pc[Cb] \in {"mark", "clear"}
InCallback == pc[Cb] \in {"on_open", "body"} \cup Submitting

\* Where the callbacks are, and what the controller has in flight without them.
Callbacks ==
  /\ pc[Cb] # "idle" => on \in CbThread
  /\ pc[Cb] \in {"idle", "mark", "on_open", "reset_eps", "reset_cbs"} => cb_ep = NoEp
  /\ pc[Cb] = "clear" => cb_ep = aep[Cb]
  /\ Completing => aep[Cb] \in Ep
  /\ pc[Cb] \in {"on_open"} \cup Submitting => cfg
  /\ pc[Cb] \in {"reset_eps", "reset_cbs"} => ~cfg
  /\ ~cfg => ~open /\ \A ep \in Ep : hw[ep] = None
  /\ \A t \in Thread : pc[t] \in {"idle"} \cup Submitting

\* Who submits is one that may, with a number of its own.
Numbered ==
  \A a \in Actor : pc[a] \in Submitting =>
    /\ aep[a] \in Ep
    /\ IF a = Cb THEN <<cb_ep, aep[a]>> \in Resubmits ELSE <<a, aep[a]>> \in Submits
    /\ axf[a] \in 1..last /\ (cfg => axf[a] \notin ran)
    /\ \A ep \in Ep : hw[ep] # axf[a]
    /\ \A b \in Actor : pc[b] \in Submitting /\ axf[b] = axf[a] => b = a

\* Numbers not given yet.
Unused ==
  /\ ran \subseteq 1..last
  /\ \A ep \in Ep : hw[ep] \in 0..last /\ ep_cbs[ep] \in Absent..last

\* A thread that has found no transfer pending on an endpoint has no callback of that
\* endpoint, nor one that may submit there, beside it.
Apart ==
  \A t \in Thread : cfg /\ pc[t] \in Passed =>
    /\ Completing => aep[Cb] # aep[t]
    /\ InCallback => <<cb_ep, aep[t]>> \notin Resubmits

\* What the two loads and the store have established stays so until the call.
Checked ==
  cfg => \A a \in Actor :
    /\ pc[a] \in {"cbep", "store"} => ep_cbs[aep[a]] = None
    /\ pc[a] = "queue" => ep_cbs[aep[a]] = axf[a] /\ hw[aep[a]] = None

\* A completion keeps its endpoint marked until it clears the mark.
Completes ==
  cfg /\ Completing => hw[aep[Cb]] = None /\ found \in Xfer /\ ep_cbs[aep[Cb]] = found

\* A transfer in flight has its own callback.
Own == \A ep \in Ep : hw[ep] # None => ep_cbs[ep] = hw[ep]

\* Why an endpoint is marked; what a refused transfer leaves.
Marked ==
  cfg => \A ep \in Ep :
    ep_cbs[ep] # None =>
      \/ hw[ep] # None \/ ep \in refused
      \/ \E a \in Actor : pc[a] = "queue" /\ aep[a] = ep
      \/ Completing /\ aep[Cb] = ep
Refused ==
  cfg => \A ep \in refused :
    /\ hw[ep] = None /\ ep_cbs[ep] # None
    /\ \A a \in Actor : pc[a] \in Passed => aep[a] # ep
    /\ Completing => aep[Cb] # ep

IInv ==
  /\ TypeOK /\ Callbacks /\ Numbered /\ Unused
  /\ Apart /\ Checked /\ Completes /\ Own /\ Marked /\ Refused

----------------------------------------------------------------------------

\* Two calls that have found no transfer pending are on different endpoints.
LEMMA Alone ==
  ASSUME IInv, OneSubmitter, cfg, NEW a \in Actor, NEW b \in Actor,
         pc[a] \in Passed, pc[b] \in Passed, aep[a] = aep[b]
  PROVE  a = b
<1>1. ASSUME NEW t \in Thread, pc[t] \in Passed, pc[Cb] \in Passed, aep[t] = aep[Cb]
      PROVE  FALSE
  BY <1>1, CoreAssumption DEF IInv, Numbered, Apart, Submitting, Passed, InCallback, Actor
<1>2. CASE a # Cb /\ b # Cb
  BY <1>2, CoreAssumption DEF IInv, Numbered, Submitting, Passed, Actor, OneSubmitter
<1> QED
  BY <1>1, <1>2 DEF Actor

\* submit_xfer() begins: its transfer is a new one.
LEMMA SubmitXferIInv ==
  ASSUME IInv, NEW a \in Actor, NEW ep \in Ep, SubmitXfer(a, ep)
  PROVE  IInv'
<1> USE CoreAssumption DEF IInv, Actor, Xfer, None, Absent, Submitting, Passed, Completing,
                           InCallback, device, controller, hist
<1>1. (TypeOK /\ Unused /\ Own)'
  BY DEF SubmitXfer, TypeOK, Unused, Own
<1>2. (Callbacks /\ Apart /\ Checked /\ Completes /\ Marked)'
  BY DEF SubmitXfer, Calls, Callbacks, Apart, Checked, Completes, Marked
<1>3. Refused'
  BY DEF SubmitXfer, Calls, Refused
<1>4. Numbered'
  <2>1. /\ pc' = [pc EXCEPT ![a] = "eps"] /\ aep' = [aep EXCEPT ![a] = ep]
        /\ axf' = [axf EXCEPT ![a] = last + 1] /\ last' = last + 1 /\ last \in Nat
        /\ UNCHANGED <<cfg, cb_ep, hw, ran>>
    BY DEF SubmitXfer, TypeOK
  <2>2. last + 1 \in 1..last' /\ last + 1 \notin ran /\ \A e \in Ep : hw[e] # last + 1
    BY <2>1 DEF Unused
  <2>3. \A b \in Actor : pc[b] \in Submitting => axf[b] \in 1..last' /\ axf[b] # last + 1
    <3>1. last \in Nat /\ last' = last + 1
      BY <2>1
    <3>2. \A b \in Actor : pc[b] \in Submitting => axf[b] \in 1..last
      BY DEF Numbered
    <3>3. \A n \in 1..last : n \in 1..last' /\ n # last + 1
      BY <3>1
    <3> QED
      BY <3>2, <3>3
  <2>4. /\ IF a = Cb THEN <<cb_ep, ep>> \in Resubmits ELSE <<a, ep>> \in Submits
        /\ pc[a] \notin Submitting
    BY DEF SubmitXfer, Calls
  <2> QED
    BY <2>1, <2>2, <2>3, <2>4 DEF Numbered, TypeOK
<1> QED
  BY <1>1, <1>2, <1>3, <1>4

\* The endpoint is looked up in _eps.
LEMMA CheckEpsIInv ==
  ASSUME IInv, NEW a \in Actor, CheckEps(a)
  PROVE  IInv'
<1> USE CoreAssumption DEF IInv, Actor, Xfer, None, Absent, Submitting, Passed, Completing,
                           InCallback, device, controller, hist
<1>1. (TypeOK /\ Callbacks /\ Numbered /\ Apart /\ Checked)'
  BY DEF CheckEps, Goto, Leave, TypeOK, Callbacks, Numbered, Apart, Checked
<1>2. (Completes /\ Marked /\ Refused)'
  BY DEF CheckEps, Goto, Leave, Completes, TypeOK, Marked, Refused
<1>3. (Unused /\ Own)'
  BY DEF CheckEps, Unused, Own
<1> QED
  BY <1>1, <1>2, <1>3

\* _xfer_pending() finds no mark: no completion of the endpoint is before its clearing,
\* and as the thread runs, no callback does that submits there too.
LEMMA PendingLoadCbIInv ==
  ASSUME IInv, OneSubmitter, NEW a \in Actor, PendingLoadCb(a)
  PROVE  IInv'
<1> USE CoreAssumption DEF IInv, Actor, Xfer, None, Absent, Submitting, Passed, Completing,
                           InCallback, device, controller, hist
<1>1. (TypeOK /\ Callbacks /\ Numbered /\ Completes /\ Marked)'
  BY DEF PendingLoadCb, Goto, Leave, TypeOK, Callbacks, Numbered, Completes, Marked
<1>2. (Unused /\ Own)'
  BY DEF PendingLoadCb, Unused, Own
<1>3. Apart'
  <2>1. /\ Runs(a) /\ pc[a] = "pending" /\ UNCHANGED <<cfg, cb_ep, on>>
        /\ \/ Unmarked(a) /\ pc' = [pc EXCEPT ![a] = "cbep"] /\ UNCHANGED aep
           \/ /\ pc' = [pc EXCEPT ![a] = IF a = Cb THEN "body" ELSE "idle"]
              /\ aep' = [aep EXCEPT ![a] = NoEp]
    BY DEF PendingLoadCb, Goto, Leave
  <2>2. CASE a = Cb
    BY <2>1, <2>2 DEF Apart, TypeOK
  <2>3. CASE a # Cb
    <3>1. ASSUME cfg, Completing, Unmarked(a) PROVE aep[Cb] # aep[a]
      BY <3>1 DEF Unmarked, Completes
    <3>2. ASSUME InCallback PROVE <<cb_ep, aep[a]>> \notin Resubmits
      <4>1. on \in CbThread /\ on # a /\ on \in Thread
        BY <2>1, <2>3, <3>2 DEF Callbacks, Runs
      <4>2. <<a, aep[a]>> \in Submits /\ aep[a] \in Ep /\ cb_ep \in Ep \cup {NoEp} /\ a \in Thread
        BY <2>1, <2>3 DEF Numbered, TypeOK
      <4> QED
        BY <4>1, <4>2 DEF OneSubmitter
    <3> QED
      BY <2>1, <2>3, <3>1, <3>2 DEF Apart, TypeOK
  <2> QED
    BY <2>2, <2>3
<1>4. Checked'
  BY DEF PendingLoadCb, Goto, Leave, Unmarked, Checked, TypeOK
<1>5. Refused'
  BY DEF PendingLoadCb, Goto, Leave, Unmarked, Refused, TypeOK
<1> QED
  BY <1>1, <1>2, <1>3, <1>4, <1>5

\* _xfer_pending() finds no callback of the endpoint running on another thread.
LEMMA PendingLoadEpIInv ==
  ASSUME IInv, NEW a \in Actor, PendingLoadEp(a)
  PROVE  IInv'
<1> USE CoreAssumption DEF IInv, Actor, Xfer, None, Absent, Submitting, Passed, Completing,
                           InCallback, device, controller, hist
<1>1. (TypeOK /\ Callbacks /\ Numbered /\ Apart /\ Checked)'
  BY DEF PendingLoadEp, Goto, Leave, TypeOK, Callbacks, Numbered, Apart, Checked
<1>2. (Completes /\ Marked /\ Refused)'
  BY DEF PendingLoadEp, Goto, Leave, Completes, TypeOK, Marked, Refused
<1>3. (Unused /\ Own)'
  BY DEF PendingLoadEp, Unused, Own
<1> QED
  BY <1>1, <1>2, <1>3

\* The endpoint is marked by the only one that has found it free.
LEMMA StoreIInv ==
  ASSUME IInv, OneSubmitter, NEW a \in Actor, Store(a)
  PROVE  IInv'
<1> USE CoreAssumption DEF IInv, Actor, Xfer, None, Absent, Submitting, Passed, Completing,
                           InCallback, device, controller, hist
<1>1. (Callbacks /\ Numbered /\ Apart)'
  BY DEF Store, Goto, Callbacks, Numbered, Apart
<1>2. Unused'
  <2>1. pc[a] = "store" /\ ep_cbs' = [ep_cbs EXCEPT ![aep[a]] = axf[a]] /\ UNCHANGED <<last, ran, hw>>
    BY DEF Store, StoreCb
  <2>2. axf[a] \in 1..last
    BY <2>1 DEF Numbered
  <2> QED
    BY <2>1, <2>2 DEF Unused, TypeOK
<1>3. TypeOK'
  BY DEF Store, Goto, StoreCb, TypeOK
<1>4. Checked'
  <2>1. /\ pc[a] = "store" /\ pc' = [pc EXCEPT ![a] = "queue"]
        /\ ep_cbs' = [ep_cbs EXCEPT ![aep[a]] = axf[a]]
        /\ UNCHANGED <<cfg, hw, aep, axf>>
    BY DEF Store, StoreCb, Goto
  <2>2. \A b \in Actor : cfg /\ pc[b] \in Passed /\ aep[b] = aep[a] => b = a
    BY <2>1, Alone
  <2>3. cfg => hw[aep[a]] = None /\ aep[a] \in Ep
    BY <2>1 DEF Checked, Own, Numbered
  <2> QED
    BY <2>1, <2>2, <2>3 DEF Checked, TypeOK, Numbered
<1>5. Completes'
  BY DEF Store, Goto, StoreCb, Completes, TypeOK, Callbacks, Apart
<1>6. Own'
  BY DEF Store, StoreCb, Own, Callbacks, Checked
<1>7. Marked'
  BY DEF Store, Goto, StoreCb, Marked, TypeOK
<1>8. Refused'
  BY DEF Store, Goto, StoreCb, Refused
<1> QED
  BY <1>1, <1>2, <1>3, <1>4, <1>5, <1>6, <1>7, <1>8

\* The controller takes the transfer, whose callback is in place.
LEMMA QueueIInv ==
  ASSUME IInv, OneSubmitter, NEW a \in Actor, Queue(a)
  PROVE  IInv'
<1> USE CoreAssumption DEF IInv, Actor, Xfer, None, Absent, Submitting, Passed, Completing,
                           InCallback, device, controller, hist
<1>1. (TypeOK /\ Numbered /\ Apart /\ Refused)'
  <2>1. /\ pc[a] = "queue" /\ hw' = [hw EXCEPT ![aep[a]] = axf[a]]
        /\ UNCHANGED <<device, cfg, on, found, hist>> /\ Leave(a)
    BY DEF Queue
  <2>2. aep[a] \in Ep
    BY <2>1 DEF Numbered
  <2>3. hw' \in [Ep -> Xfer \cup {None}]
    BY <2>1, <2>2 DEF TypeOK
  <2>4. TypeOK'
    BY <2>1, <2>3 DEF Leave, TypeOK
  <2>5. Numbered'
    BY <2>1 DEF Leave, TypeOK, Numbered
  <2>6. Apart'
    BY <2>1 DEF Leave, TypeOK, Apart
  <2>7. Refused'
    BY <2>1 DEF Leave, TypeOK, Numbered, Refused
  <2> QED
    BY <2>4, <2>5, <2>6, <2>7
<1>2. Callbacks'
  BY DEF Queue, Leave, Accepts, Callbacks
<1>3. Unused'
  <2>1. /\ pc[a] = "queue" /\ hw' = [hw EXCEPT ![aep[a]] = axf[a]]
        /\ UNCHANGED <<ep_cbs, last, ran>>
    BY DEF Queue
  <2>2. axf[a] \in 1..last
    BY <2>1 DEF Numbered
  <2> QED
    BY <2>1, <2>2 DEF Unused, TypeOK
<1>4. Checked'
  BY Alone DEF Queue, Leave, Checked, TypeOK
<1>5. Completes'
  <2>1. /\ pc[a] = "queue" /\ hw' = [hw EXCEPT ![aep[a]] = axf[a]]
        /\ UNCHANGED <<cfg, ep_cbs, found>>
        /\ pc' = [pc EXCEPT ![a] = IF a = Cb THEN "body" ELSE "idle"]
        /\ aep' = [aep EXCEPT ![a] = NoEp]
    BY DEF Queue, Leave
  <2>2. CASE a = Cb
    BY <2>1, <2>2 DEF Completes, TypeOK
  <2>3. CASE a # Cb
    BY <2>1, <2>3 DEF Completes, Apart, TypeOK, Callbacks
  <2> QED
    BY <2>2, <2>3
<1>6. Own'
  BY DEF Queue, Accepts, Own, Checked
<1>7. Marked'
  BY DEF Queue, Leave, Marked, TypeOK, Checked
<1> QED
  BY <1>1, <1>2, <1>3, <1>4, <1>5, <1>6, <1>7

\* The controller refuses the transfer, and the mark stays.
LEMMA DcdErrorIInv ==
  ASSUME IInv, OneSubmitter, NEW a \in Actor, DcdError(a)
  PROVE  IInv'
<1> USE CoreAssumption DEF IInv, Actor, Xfer, None, Absent, Submitting, Passed, Completing,
                           InCallback, device, controller, hist
<1>1. (Callbacks /\ Numbered /\ Apart /\ Checked /\ Completes)'
  BY DEF DcdError, Leave, Callbacks, Numbered, TypeOK, Apart, Checked, Completes
<1>2. Marked'
  BY DEF DcdError, Leave, Marked
<1>3. (Unused /\ Own)'
  BY DEF DcdError, Unused, Own
<1>4. TypeOK'
  <2>1. refused' \in SUBSET Ep
    BY DEF DcdError, TypeOK, Numbered
  <2> QED
    BY <2>1 DEF DcdError, Leave, TypeOK
<1>5. Refused'
  <2>1. /\ pc[a] = "queue" /\ refused' = refused \cup {aep[a]} /\ UNCHANGED <<cfg, hw, ep_cbs>>
        /\ pc' = [pc EXCEPT ![a] = IF a = Cb THEN "body" ELSE "idle"]
        /\ aep' = [aep EXCEPT ![a] = NoEp]
    BY DEF DcdError, Leave
  <2>2. \A b \in Actor : cfg /\ pc[b] \in Passed /\ aep[b] = aep[a] => b = a
    BY <2>1, Alone
  <2>3. cfg => hw[aep[a]] = None /\ ep_cbs[aep[a]] # None
    BY <2>1 DEF Checked, Numbered, TypeOK
  <2>4. a # Cb /\ cfg /\ Completing => aep[Cb] # aep[a]
    BY <2>1 DEF Apart
  <2> QED
    BY <2>1, <2>2, <2>3, <2>4 DEF Refused, TypeOK
<1> QED
  BY <1>1, <1>2, <1>3, <1>4, <1>5

\* The callback is noted in _cb_thread and _cb_ep.
LEMMA MarkIInv ==
  ASSUME IInv, Mark
  PROVE  IInv'
<1> USE CoreAssumption DEF IInv, Actor, Xfer, None, Absent, Submitting, Passed, Completing,
                           InCallback, device, controller, hist
<1>1. (TypeOK /\ Callbacks /\ Numbered /\ Unused /\ Apart)'
  BY DEF Mark, TypeOK, Callbacks, Numbered, Unused, Apart
<1>2. (Checked /\ Completes /\ Own /\ Marked /\ Refused)'
  BY DEF Mark, Checked, Completes, Own, Marked, Refused
<1> QED
  BY <1>1, <1>2

\* The completion clears the mark; nobody has found the endpoint free meanwhile.
LEMMA ClearIInv ==
  ASSUME IInv, OneSubmitter, Clear
  PROVE  IInv'
<1> USE CoreAssumption DEF IInv, Actor, Xfer, None, Absent, Submitting, Passed, Completing,
                           InCallback, device, controller, hist
<1>1. Callbacks'
  BY DEF Clear, Callbacks, TypeOK
<1>10. Unused'
  BY DEF Clear, Cleared, TypeOK, Unused
<1>2. Numbered'
  BY DEF Clear, Numbered, TypeOK
<1>3. Completes'
  BY DEF Clear, TypeOK, Completes
<1>4. TypeOK'
  BY DEF Clear, Cleared, TypeOK
<1>5. Apart'
  <2>1. /\ pc[Cb] = "clear" /\ UNCHANGED <<cfg, cb_ep>>
        /\ pc' = [pc EXCEPT ![Cb] = IF found \in Xfer THEN "body" ELSE "finally"]
        /\ aep' = [aep EXCEPT ![Cb] = NoEp]
    BY DEF Clear
  <2>2. cb_ep = aep[Cb] /\ aep[Cb] \in Ep
    BY <2>1 DEF Callbacks
  <2>3. ASSUME NEW t \in Thread, cfg, pc[t] \in Passed PROVE <<cb_ep, aep[t]>> \notin Resubmits
    <3>1. aep[t] \in Ep /\ aep[t] # aep[Cb]
      BY <2>1, <2>3 DEF Apart, Numbered
    <3> QED
      BY <2>2, <3>1 DEF OneSubmitter
  <2> QED
    BY <2>1, <2>3 DEF Apart, TypeOK
<1>6. Checked'
  BY DEF Clear, Cleared, Checked, Apart
<1>7. Own'
  BY DEF Clear, Cleared, Own, Callbacks, Completes
<1>8. Marked'
  BY DEF Clear, Cleared, Marked, TypeOK
<1>9. Refused'
  BY DEF Clear, Cleared, Refused, TypeOK
<1> QED
  BY <1>1, <1>2, <1>3, <1>4, <1>5, <1>6, <1>7, <1>8, <1>9, <1>10

\* The callback, or on_open(), returns.
LEMMA BodyDoneIInv ==
  ASSUME IInv, BodyDone
  PROVE  IInv'
<1> USE CoreAssumption DEF IInv, Actor, Xfer, None, Absent, Submitting, Passed, Completing,
                           InCallback, device, controller, hist
<1>1. (TypeOK /\ Callbacks /\ Numbered /\ Apart /\ Checked /\ Completes)'
  BY DEF BodyDone, Goto, TypeOK, Callbacks, Numbered, Apart, Checked, Completes
<1>2. (Marked /\ Refused)'
  BY DEF BodyDone, Goto, Marked, Refused
<1>3. (Unused /\ Own)'
  BY DEF BodyDone, Unused, Own
<1> QED
  BY <1>1, <1>2, <1>3

\* The thread that was interrupted goes on.
LEMMA FinallyIInv ==
  ASSUME IInv, Finally
  PROVE  IInv'
<1> USE CoreAssumption DEF IInv, Actor, Xfer, None, Absent, Submitting, Passed, Completing,
                           InCallback, device, controller, hist
<1>1. (TypeOK /\ Callbacks /\ Numbered /\ Unused /\ Apart)'
  BY DEF Finally, TypeOK, Callbacks, Numbered, Unused, Apart
<1>2. (Checked /\ Completes /\ Own /\ Marked /\ Refused)'
  BY DEF Finally, Checked, Completes, Own, Marked, Refused
<1> QED
  BY <1>1, <1>2

\* _reset_cb() forgets the endpoints.
LEMMA ResetEpsIInv ==
  ASSUME IInv, ResetEps
  PROVE  IInv'
<1> USE CoreAssumption DEF IInv, Actor, Xfer, None, Absent, Submitting, Passed, Completing,
                           InCallback, device, controller, hist
<1>1. (TypeOK /\ Callbacks /\ Numbered /\ Unused /\ Apart)'
  BY DEF ResetEps, TypeOK, Callbacks, Numbered, Unused, Apart
<1>2. (Checked /\ Completes /\ Own /\ Marked /\ Refused)'
  BY DEF ResetEps, Checked, Completes, Own, Marked, Refused
<1> QED
  BY <1>1, <1>2

\* _reset_cb() forgets the callbacks of the transfers, that the controller has dropped.
LEMMA ResetCbsIInv ==
  ASSUME IInv, ResetCbs
  PROVE  IInv'
<1> USE CoreAssumption DEF IInv, Actor, Xfer, None, Absent, Submitting, Passed, Completing,
                           InCallback, device, controller, hist
<1>1. (TypeOK /\ Callbacks /\ Numbered /\ Unused /\ Apart)'
  BY DEF ResetCbs, TypeOK, Callbacks, Numbered, Unused, Apart
<1>2. (Completes /\ Refused)'
  BY DEF ResetCbs, Completes, Refused, TypeOK
<1>3. Checked'
  BY DEF ResetCbs, Checked, Callbacks
<1>4. Own'
  BY DEF ResetCbs, Own, Callbacks
<1>5. Marked'
  BY DEF ResetCbs, Marked, Callbacks
<1> QED
  BY <1>1, <1>2, <1>3, <1>4, <1>5

\* on_open() marks the interface open.
LEMMA OnOpenIInv ==
  ASSUME IInv, OnOpen
  PROVE  IInv'
<1> USE CoreAssumption DEF IInv, Actor, Xfer, None, Absent, Submitting, Passed, Completing,
                           InCallback, device, controller, hist
<1>1. (TypeOK /\ Callbacks /\ Numbered /\ Unused /\ Apart)'
  BY DEF OnOpen, TypeOK, Callbacks, Numbered, Unused, Apart
<1>2. (Checked /\ Completes /\ Own /\ Marked /\ Refused)'
  BY DEF OnOpen, Checked, Completes, Own, Marked, Refused
<1> QED
  BY <1>1, <1>2

\* A transfer completes: the controller is free, the mark still there.
LEMMA XferCbIInv ==
  ASSUME IInv, NEW ep \in Ep, NEW t \in CbThread, XferCb(ep, t)
  PROVE  IInv'
<1> USE CoreAssumption DEF IInv, Actor, Xfer, None, Absent, Submitting, Passed, Completing,
                           InCallback, device, controller, hist
<1>1. (Callbacks /\ Checked /\ Own /\ Marked /\ Refused)'
  BY DEF XferCb, Callbacks, TypeOK, Checked, Own, Marked, Refused
<1>2. TypeOK'
  <2>1. hw[ep] \in Xfer /\ ep_cbs[ep] \in Xfer
    BY DEF XferCb, TypeOK, Own
  <2> QED
    BY <2>1 DEF XferCb, TypeOK
<1>3. Numbered'
  <2>1. /\ pc[Cb] = "idle" /\ pc' = [pc EXCEPT ![Cb] = "mark"]
        /\ aep' = [aep EXCEPT ![Cb] = ep] /\ axf' = [axf EXCEPT ![Cb] = hw[ep]]
        /\ UNCHANGED <<cb_ep, last>> /\ cfg
        /\ ran' \in {ran, ran \cup {hw[ep]}} /\ hw' = [hw EXCEPT ![ep] = None]
    BY DEF XferCb, Callbacks
  <2>2. ASSUME NEW b \in Actor, pc'[b] \in Submitting
        PROVE  b # Cb /\ pc[b] = pc'[b] /\ aep'[b] = aep[b] /\ axf'[b] = axf[b]
    BY <2>1, <2>2 DEF TypeOK
  <2>3. ASSUME NEW b \in Actor, pc[b] \in Submitting
        PROVE  axf[b] \notin ran' /\ \A e \in Ep : hw'[e] # axf[b]
    <3>1. axf[b] \in 1..last /\ axf[b] \notin ran /\ \A e \in Ep : hw[e] # axf[b]
      BY <2>1, <2>3 DEF Numbered
    <3> QED
      BY <2>1, <3>1 DEF TypeOK
  <2>4. ASSUME NEW b \in Actor, pc'[b] \in Submitting
        PROVE  /\ aep'[b] \in Ep
               /\ IF b = Cb THEN <<cb_ep', aep'[b]>> \in Resubmits ELSE <<b, aep'[b]>> \in Submits
               /\ axf'[b] \in 1..last' /\ (cfg' => axf'[b] \notin ran')
               /\ \A e \in Ep : hw'[e] # axf'[b]
               /\ \A c \in Actor : pc'[c] \in Submitting /\ axf'[c] = axf'[b] => c = b
    <3>1. /\ aep[b] \in Ep /\ <<b, aep[b]>> \in Submits /\ axf[b] \in 1..last
          /\ \A c \in Actor : pc[c] \in Submitting /\ axf[c] = axf[b] => c = b
      BY <2>2, <2>4 DEF Numbered
    <3>2. \A c \in Actor : pc'[c] \in Submitting => pc[c] \in Submitting /\ axf'[c] = axf[c]
      BY <2>2
    <3> QED
      BY <2>1, <2>2, <2>3, <2>4, <3>1, <3>2
  <2> QED
    BY <2>4 DEF Numbered
<1>4. Unused'
  <2>1. /\ ran' \in {ran, ran \cup {hw[ep]}} /\ hw' = [hw EXCEPT ![ep] = None]
        /\ hw[ep] \in 1..last /\ UNCHANGED <<ep_cbs, last>>
    BY DEF XferCb, Unused, TypeOK
  <2> QED
    BY <2>1 DEF Unused, TypeOK
<1>5. Apart'
  BY DEF XferCb, Apart, TypeOK, Checked, Own
<1>6. Completes'
  BY DEF XferCb, Completes, TypeOK, Own
<1> QED
  BY <1>1, <1>2, <1>3, <1>4, <1>5, <1>6

\* A completion with no transfer comes while the device is not configured, when no
\* submission that is under way reaches the controller.
LEMMA StrayXferCbIInv ==
  ASSUME IInv, NEW ep \in Ep, NEW t \in CbThread, StrayXferCb(ep, t)
  PROVE  IInv'
<1> USE CoreAssumption DEF IInv, Actor, Xfer, None, Absent, Submitting, Passed, Completing,
                           InCallback, device, controller, hist
<1>1. (TypeOK /\ Callbacks)'
  BY DEF StrayXferCb, TypeOK, Callbacks
<1>2. (Numbered /\ Apart)'
  BY DEF StrayXferCb, Numbered, Apart, TypeOK
<1>3. Unused'
  <2>1. /\ ran' = ran \cup ({ep_cbs[ep]} \cap Xfer) /\ UNCHANGED <<ep_cbs, last, hw>>
        /\ ep_cbs[ep] \in Absent..last /\ last \in Nat
    BY DEF StrayXferCb, Unused, TypeOK
  <2>2. {ep_cbs[ep]} \cap Xfer \subseteq 1..last
    BY <2>1
  <2> QED
    BY <2>1, <2>2 DEF Unused
<1>4. (Checked /\ Completes /\ Own /\ Marked /\ Refused)'
  BY DEF StrayXferCb, Checked, Completes, Own, Marked, Refused
<1> QED
  BY <1>1, <1>2, <1>3, <1>4

\* The bus is reset: nothing is in flight, the interface is closed.
LEMMA ResetCbIInv ==
  ASSUME IInv, NEW t \in CbThread, ResetCb(t)
  PROVE  IInv'
<1> USE CoreAssumption DEF IInv, Actor, Xfer, None, Absent, Submitting, Passed, Completing,
                           InCallback, device, controller, hist
<1>1. TypeOK'
  BY DEF ResetCb, TypeOK
<1>2. Unused'
  BY DEF ResetCb, TypeOK, Unused
<1>3. (Callbacks /\ Apart)'
  BY DEF ResetCb, Callbacks, Apart
<1>4. Numbered'
  BY DEF ResetCb, Numbered
<1>5. (Checked /\ Completes /\ Own /\ Marked /\ Refused)'
  BY DEF ResetCb, Checked, Completes, Own, Marked, Refused
<1> QED
  BY <1>1, <1>2, <1>3, <1>4, <1>5

\* The host configures the device: nothing is marked, in flight or refused.
LEMMA OpenItfCbIInv ==
  ASSUME IInv, NEW t \in CbThread, OpenItfCb(t)
  PROVE  IInv'
<1> USE CoreAssumption DEF IInv, Actor, Xfer, None, Absent, Submitting, Passed, Completing,
                           InCallback, device, controller, hist
<1>1. (TypeOK /\ Callbacks /\ Numbered /\ Unused /\ Apart)'
  BY DEF OpenItfCb, TypeOK, Callbacks, Numbered, Unused, Apart
<1>2. (Checked /\ Completes /\ Marked /\ Refused)'
  BY DEF OpenItfCb, Checked, Completes, Marked, Refused
<1>3. Own'
  BY DEF OpenItfCb, Own, Callbacks
<1> QED
  BY <1>1, <1>2, <1>3

\* At first no call is under way and the host has not configured the device.
LEMMA InitIInv == Init => IInv
<1> USE CoreAssumption DEF Actor, Xfer, None, Absent, Submitting, Passed, Completing, InCallback
<1> SUFFICES ASSUME Init PROVE IInv
  OBVIOUS
<1>1. TypeOK
  <2>1. 0 \in 0..MaxXfers
    OBVIOUS
  <2> QED
    BY <2>1 DEF Init, TypeOK
<1>2. Callbacks /\ Numbered /\ Unused
  BY DEF Init, Callbacks, Numbered, Unused
<1>3. Apart /\ Checked /\ Completes /\ Own /\ Marked /\ Refused
  BY DEF Init, Apart, Checked, Completes, Own, Marked, Refused
<1> QED
  BY <1>1, <1>2, <1>3 DEF IInv

\* A step that changes nothing.
LEMMA StutterIInv ==
  ASSUME IInv, UNCHANGED vars
  PROVE  IInv'
<1> USE DEF vars, device, controller, hist
<1>1. TypeOK' /\ Callbacks' /\ Numbered' /\ Unused'
  BY DEF IInv, TypeOK, Callbacks, Numbered, Unused, Completing, InCallback
<1>2. Apart' /\ Checked' /\ Completes' /\ Own' /\ Marked' /\ Refused'
  BY DEF IInv, Apart, Checked, Completes, Own, Marked, Refused, Completing, InCallback
<1> QED
  BY <1>1, <1>2 DEF IInv

\* Every step of a submission, of a callback or of the host.
LEMMA StepIInv ==
  ASSUME OneSubmitter, IInv, [Next]_vars
  PROVE  IInv'
<1>1. ASSUME NEW a \in Actor, SubmitStep(a)
      PROVE  IInv'
  <2>1. ASSUME NEW ep \in Ep, SubmitXfer(a, ep) PROVE IInv'
    BY <2>1, SubmitXferIInv
  <2>2. CASE CheckEps(a)
    BY <2>2, CheckEpsIInv
  <2>3. CASE PendingLoadCb(a)
    BY <2>3, PendingLoadCbIInv
  <2>4. CASE PendingLoadEp(a)
    BY <2>4, PendingLoadEpIInv
  <2>5. CASE Store(a)
    BY <2>5, StoreIInv
  <2>6. CASE Queue(a)
    BY <2>6, QueueIInv
  <2>7. CASE DcdError(a)
    BY <2>7, DcdErrorIInv
  <2> QED
    BY <1>1, <2>1, <2>2, <2>3, <2>4, <2>5, <2>6, <2>7 DEF SubmitStep
<1>2. CASE CbStep
  BY <1>2, MarkIInv, ClearIInv, BodyDoneIInv, FinallyIInv, ResetEpsIInv, ResetCbsIInv, OnOpenIInv
     DEF CbStep
<1>3. CASE HostStep
  <2>1. ASSUME NEW t \in CbThread, NEW ep \in Ep, XferCb(ep, t) PROVE IInv'
    BY <2>1, XferCbIInv
  <2>2. ASSUME NEW t \in CbThread, NEW ep \in Ep, StrayXferCb(ep, t) PROVE IInv'
    BY <2>2, StrayXferCbIInv
  <2>3. ASSUME NEW t \in CbThread, ResetCb(t) PROVE IInv'
    BY <2>3, ResetCbIInv
  <2>4. ASSUME NEW t \in CbThread, OpenItfCb(t) PROVE IInv'
    BY <2>4, OpenItfCbIInv
  <2> QED
    BY <1>3, <2>1, <2>2, <2>3, <2>4 DEF HostStep
<1> QED
  BY <1>1, <1>2, <1>3, StutterIInv DEF Next

\* The inductive invariant.
LEMMA SpecIInv ==
  ASSUME OneSubmitter
  PROVE  Spec => []IInv
<1>1. Init => IInv
  BY InitIInv
<1>2. IInv /\ [Next]_vars => IInv'
  BY StepIInv
<1> QED
  BY <1>1, <1>2, PTL DEF Spec

\* submit_xfer() calls the controller only with the endpoint free: however the bytecodes of
\* the threads and the callbacks interleave, what the two loads of _xfer_pending() saw is
\* still so at the call.
THEOREM CoreFreeWhenQueued ==
  ASSUME OneSubmitter
  PROVE  Spec => []FreeWhenQueued
<1>1. IInv => FreeWhenQueued
  BY DEF IInv, Checked, FreeWhenQueued
<1> QED
  BY <1>1, SpecIInv, PTL

\* Between calls, _ep_cbs of an open interface marks the endpoints that have a transfer in
\* flight and those whose transfer the controller has refused: no mark is lost or left.
THEOREM CorePendingExact ==
  ASSUME OneSubmitter
  PROVE  Spec => []PendingExact
<1>1. ASSUME IInv, open, \A a \in Actor : pc[a] = "idle", NEW ep \in Ep
      PROVE  (ep_cbs[ep] # None) <=> (hw[ep] # None \/ ep \in refused)
  <2>1. cfg /\ ~Completing
    BY <1>1 DEF IInv, Callbacks, Completing, Actor
  <2>2. ASSUME ep_cbs[ep] # None PROVE hw[ep] # None \/ ep \in refused
    BY <1>1, <2>1, <2>2 DEF IInv, Marked
  <2>3. ASSUME hw[ep] # None PROVE ep_cbs[ep] # None
    BY <1>1, <2>3 DEF IInv, Own
  <2>4. ASSUME ep \in refused PROVE ep_cbs[ep] # None
    BY <1>1, <2>1, <2>4 DEF IInv, Refused
  <2> QED
    BY <2>2, <2>3, <2>4
<1>2. IInv => PendingExact
  BY <1>1 DEF PendingExact
<1> QED
  BY <1>2, SpecIInv, PTL

\* A step of a submission is Submit of UsbEndpoint when it hands the transfer to the
\* controller, and otherwise changes nothing there.
LEMMA SubmitImplements ==
  ASSUME IInv, NEW a \in Actor, SubmitStep(a)
  PROVE  [Endpoint!Next]_(Endpoint!vars)
<1>1. CASE Queue(a)
  <2>1. /\ cfg /\ hw[aep[a]] = None /\ hw' = [hw EXCEPT ![aep[a]] = axf[a]]
        /\ UNCHANGED <<cfg, ran>>
    BY <1>1 DEF Queue, Accepts, hist
  <2>2. aep[a] \in Ep /\ axf[a] \notin ran /\ axf[a] \in 1..last
    BY <1>1 DEF Queue, Accepts, IInv, Numbered, Submitting
  <2>3. axf[a] \in Xfer
    <3>1. last \in 0..MaxXfers /\ MaxXfers \in Nat
      BY CoreAssumption DEF IInv, TypeOK
    <3> QED
      BY <2>2, <3>1 DEF Xfer
  <2> QED
    BY <2>1, <2>2, <2>3 DEF Endpoint!Next, Endpoint!Submit, Endpoint!Xfer, Endpoint!Idle, Xfer,
                            None
<1>2. CASE ~Queue(a)
  <2>1. UNCHANGED <<cfg, hw, ran>>
    BY <1>2 DEF SubmitStep, SubmitXfer, CheckEps, PendingLoadCb, PendingLoadEp, Store, DcdError,
                controller, hist
  <2> QED
    BY <2>1 DEF Endpoint!vars
<1> QED
  BY <1>1, <1>2

\* A completion finds in _ep_cbs the callback its transfer was submitted with, and is
\* Complete; a completion without a transfer, a reset and a configuration are Stray, Reset
\* and Configure.
LEMMA HostImplements ==
  ASSUME IInv, HostStep
  PROVE  [Endpoint!Next]_(Endpoint!vars)
<1>1. ASSUME NEW ep \in Ep, NEW t \in CbThread, XferCb(ep, t)
      PROVE  Endpoint!Complete(ep)
  BY <1>1 DEF XferCb, IInv, Own, Endpoint!Complete, Endpoint!Idle, None
<1>2. ASSUME NEW ep \in Ep, NEW t \in CbThread, StrayXferCb(ep, t)
      PROVE  [Endpoint!Next]_(Endpoint!vars)
  <2>1. CASE ep_cbs[ep] \in Xfer
    <3>1. ~cfg /\ ran' = ran \cup {ep_cbs[ep]} /\ UNCHANGED <<cfg, hw>>
      BY <1>2, <2>1 DEF StrayXferCb, controller
    <3> QED
      BY <2>1, <3>1 DEF Endpoint!Next, Endpoint!Stray, Endpoint!Xfer, Xfer
  <2>2. CASE ep_cbs[ep] \notin Xfer
    BY <1>2, <2>2 DEF StrayXferCb, controller, Endpoint!vars
  <2> QED
    BY <2>1, <2>2
<1>3. ASSUME NEW t \in CbThread, ResetCb(t)
      PROVE  Endpoint!Reset
  BY <1>3 DEF ResetCb, hist, Endpoint!Reset, Endpoint!Idle, None
<1>4. ASSUME NEW t \in CbThread, OpenItfCb(t)
      PROVE  Endpoint!Configure
  BY <1>4 DEF OpenItfCb, Endpoint!Configure
<1> QED
  BY <1>1, <1>2, <1>3, <1>4 DEF HostStep, Endpoint!Next

\* The two-load check, the callback table and the nesting of callbacks implement the
\* endpoints that the class drivers are written against: one transfer at a time on each,
\* none while the device is not configured, and each completion with its own callback.
THEOREM CoreImplementsEndpoint ==
  ASSUME OneSubmitter
  PROVE  Spec => EndpointSpec
<1>1. Init => Endpoint!Init
  BY DEF Init, Endpoint!Init, Endpoint!Idle, None
<1>2. IInv /\ [Next]_vars => [Endpoint!Next]_(Endpoint!vars)
  <2> SUFFICES ASSUME IInv, [Next]_vars PROVE [Endpoint!Next]_(Endpoint!vars)
    OBVIOUS
  <2>1. CASE CbStep
    BY <2>1 DEF CbStep, Mark, Clear, BodyDone, Finally, ResetEps, ResetCbs, OnOpen, controller,
                hist, Endpoint!vars
  <2>2. CASE UNCHANGED vars
    BY <2>2 DEF vars, controller, hist, Endpoint!vars
  <2> QED
    BY <2>1, <2>2, SubmitImplements, HostImplements DEF Next
<1> QED
  BY <1>1, <1>2, SpecIInv, PTL DEF Spec, EndpointSpec, Endpoint!Spec
============================================================================
