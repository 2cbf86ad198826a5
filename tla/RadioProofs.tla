----------------------------- MODULE RadioProofs -----------------------------
(***************************************************************************)
(* The two radios: aioble, for any number of devices, handles and          *)
(* connections, and the LoRa modems, for every clock period, timeout and   *)
(* history.  The two share nothing; each part has its own specification.   *)
(***************************************************************************)
EXTENDS AioConnection, LoraModem, TLAPS

----------------------------------------------------------------------------
(***************************************************************************)
(* aioble.  A device that has a link is not held for closed, and the map   *)
(* by which interrupts find the object of a handle has those it must have. *)
(***************************************************************************)

\* The attempt of a device belongs to its object, which the map does not have, and which
\* has a handle once the event is set; nobody sets it before the device is in _connecting.
Attempts ==
  /\ \A d \in connecting : pc[d] # NoConn
  /\ \A d \in cancelling : pc[d] # NoConn /\ d \notin connecting /\ ~event[pc[d]]
  /\ \A d \in Device : pc[d] # NoConn =>
       /\ connection[d] = pc[d] /\ task[pc[d]] = "none"
       /\ event[pc[d]] => handle[pc[d]] \in Handle
       /\ \A h \in Handle : connected[h] # pc[d]

\* The controller tries to reach an address once, and only one without a link.
Unlinked ==
  \A d \in trying : ~Linked(d) /\ \A e \in trying : e \in Equal(d) => e = d

\* Objects not made yet are blank.
Fresh ==
  \A c \in Conn : c > made =>
    /\ handle[c] = NoHandle /\ ~event[c] /\ task[c] = "none"
    /\ incoming # c /\ \A d \in Device : connection[d] # c

\* No two devices have the same object.
Apart ==
  \A d, e \in Device : connection[d] # NoConn /\ connection[d] = connection[e] => d = e

\* The object that advertise() has yet to return has a handle and no device of the
\* central; told of its disconnection it has no link.
Incoming ==
  /\ connect_event <=> incoming # NoConn
  /\ incoming # NoConn =>
       /\ handle[incoming] \in Handle /\ task[incoming] = "none"
       /\ \A d \in Device : connection[d] # incoming
       /\ event[incoming] => \A h \in Handle : up[h] # incoming

\* An entry of the map of handles is the object's own handle.
Entries == \A h \in Handle : connected[h] # NoConn => handle[connected[h]] = h

\* An object whose device_task waits has a handle; one whose device_task is about to run
\* has no link.
Ending ==
  \A c \in Conn : task[c] = "wait" =>
    /\ handle[c] \in Handle
    /\ event[c] => \A h \in Handle : up[h] # c

IInv ==
  /\ TypeOK /\ Attempts /\ Unlinked /\ Fresh /\ Apart
  /\ Incoming /\ Entries /\ DownMeansDown /\ Ending

\* Two objects whose tasks have yet to let go of one handle are marked overtaken.
Marked ==
  \A c, o \in Conn :
    /\ c # o /\ handle[c] = handle[o] /\ handle[c] \in Handle
    /\ task[c] \in {"none", "wait"} /\ task[o] \in {"none", "wait"}
    => c \in overtaken

\* An object that connect() still waits for has its link once the event is set, unless it
\* is marked; what advertise() is to return is found.
Waited ==
  /\ \A d \in Device : pc[d] # NoConn =>
       (event[pc[d]] /\ pc[d] \notin early \cup overtaken => \E h \in Handle : up[h] = pc[d])
  /\ incoming # NoConn /\ incoming \notin early \cup overtaken => Found(incoming)

RInv == IInv /\ Marked /\ Waited /\ Registered

----------------------------------------------------------------------------
\* Devices that are equal.
LEMMA EqualDevices ==
  ASSUME NEW d \in Device
  PROVE  /\ d \in Equal(d) /\ Equal(d) \subseteq Device
         /\ \A e \in Equal(d) : Equal(e) = Equal(d)
BY ConnectionAssumption DEF Equal

\* What adding a device to _connecting and calling gap_connect() comes to.
LEMMA GapConnected ==
  ASSUME TypeOK, NEW d \in Device, NEW c \in Conn, GapConnect(d, c)
  PROVE  /\ connecting' \subseteq connecting \cup {d} /\ trying' \subseteq trying \cup {d}
         /\ d \in trying' => d \in trying \/ (~Linked(d) /\ trying \cap Equal(d) = {})
         /\ \/ pc' = [pc EXCEPT ![d] = c]
            \/ pc' = [pc EXCEPT ![d] = NoConn] /\ d \notin connecting'
BY EqualDevices DEF GapConnect, Joined

\* A new object is blank, and alone in having its number.
LEMMA ConnectIInv == ASSUME IInv, NEW d \in Device, Connect(d) PROVE IInv'
<1> USE ConnectionAssumption DEF IInv, NoConn
<1> DEFINE c == made + 1
<1>0. /\ c \in Conn /\ made' = c /\ made' \in 0..MaxConn /\ pc[d] = NoConn
      /\ connection' = [connection EXCEPT ![d] = c]
      /\ UNCHANGED <<handle, event, timeouts, connected, advertiser, incoming, connect_event, up,
                     advertising, early, overtaken>>
  BY DEF Connect, TypeOK, Conn, peripheral, hist
<1>10. /\ handle[c] = NoHandle /\ ~event[c] /\ task[c] = "none"
       /\ incoming # c /\ \A e \in Device : connection[e] # c /\ pc[e] # c
  BY <1>0 DEF Fresh, Attempts, Conn, TypeOK
<1>11. \/ /\ task' = [task EXCEPT ![c] = "failed"]
          /\ UNCHANGED <<connecting, cancelling, trying, pc>>
       \/ /\ UNCHANGED <<task, cancelling>>
          /\ connecting' \subseteq connecting \cup {d} /\ trying' \subseteq trying \cup {d}
          /\ d \in trying' => d \in trying \/ (~Linked(d) /\ trying \cap Equal(d) = {})
          /\ \/ pc' = [pc EXCEPT ![d] = c]
             \/ pc' = [pc EXCEPT ![d] = NoConn] /\ d \notin connecting'
       \/ /\ cancelling' = cancelling \cup {d} /\ pc' = [pc EXCEPT ![d] = c]
          /\ UNCHANGED <<task, connecting, trying>>
  BY <1>0, GapConnected DEF Connect
<1>1. TypeOK'
  <2>1. connection' \in [Device -> Conn \cup {NoConn}]
    BY <1>0 DEF TypeOK
  <2>2. /\ task' \in [Conn -> {"none", "wait", "done", "failed", "cancelled"}]
        /\ pc' \in [Device -> Conn \cup {NoConn}]
        /\ connecting' \in SUBSET Device /\ cancelling' \in SUBSET Device /\ trying' \in SUBSET Device
    BY <1>0, <1>11 DEF TypeOK
  <2> QED
    BY <1>0, <2>1, <2>2 DEF TypeOK
<1>2. Attempts'
  <2>1. d \notin connecting /\ d \notin cancelling
    BY <1>0 DEF Attempts
  <2>2. \A h \in Handle : connected[h] # c
    BY <1>0, <1>10 DEF Entries, Conn
  <2>3. /\ \A e \in Device : pc'[e] \in {pc[e], c}
        /\ \A e \in Device : e # d => pc'[e] = pc[e] /\ connection'[e] = connection[e]
        /\ \A o \in Conn : o # c => task'[o] = task[o]
        /\ pc'[d] # NoConn => task' = task
        /\ connection'[d] = c
    BY <1>0, <1>11 DEF TypeOK
  <2>4. \A e \in Device : pc'[e] # NoConn =>
          /\ connection'[e] = pc'[e] /\ task'[pc'[e]] = "none"
          /\ event'[pc'[e]] => handle'[pc'[e]] \in Handle
          /\ \A h \in Handle : connected'[h] # pc'[e]
    BY <1>0, <1>10, <2>2, <2>3 DEF Attempts, TypeOK
  <2>5. /\ \A e \in connecting' : pc'[e] # NoConn
        /\ \A e \in cancelling' : pc'[e] # NoConn /\ e \notin connecting' /\ ~event'[pc'[e]]
    BY <1>0, <1>10, <1>11, <2>1 DEF Attempts, TypeOK, Conn
  <2> QED
    BY <2>4, <2>5 DEF Attempts
<1>3. Fresh'
  <2>1. \A o \in Conn : o > made' => o > made /\ o # c
    BY <1>0 DEF Conn, TypeOK
  <2> QED
    BY <1>0, <1>11, <2>1 DEF Fresh, TypeOK
<1>4. Apart'
  BY <1>0, <1>10 DEF Apart, TypeOK
<1>5. Incoming'
  <2>1. \A o \in Conn : o # c => task'[o] = task[o]
    BY <1>11 DEF TypeOK
  <2> QED
    BY <1>0, <1>10, <2>1 DEF Incoming, TypeOK
<1>6. Entries'
  BY <1>0 DEF Entries
<1>7. DownMeansDown'
  BY <1>0 DEF DownMeansDown
<1>8. Ending'
  BY <1>0, <1>11 DEF Ending, TypeOK
<1>9. Unlinked'
  <2>1. \A h \in Handle : up[h] # c
    BY <1>0, <1>10 DEF DownMeansDown
  <2>2. \A e \in Device : Linked(e)' => Linked(e)
    BY <1>0, <2>1 DEF Linked, TypeOK
  <2>3. trying' \subseteq Device
    BY <1>1 DEF TypeOK
  <2>4. \A e \in trying' : ~Linked(e)
    BY <1>11 DEF Unlinked
  <2>5. \A e, g \in trying' : g \in Equal(e) => g = e
    BY <1>11, <2>3, EqualDevices DEF Unlinked
  <2> QED
    BY <2>2, <2>3, <2>4, <2>5 DEF Unlinked
<1> QED
  BY <1>1, <1>2, <1>3, <1>4, <1>5, <1>6, <1>7, <1>8, <1>9

\* The scan is cancelled, and connect() goes on.
LEMMA ScanCancelledIInv == ASSUME IInv, NEW d \in Device, ScanCancelled(d) PROVE IInv'
<1> USE ConnectionAssumption DEF IInv, NoConn
<1>0. /\ d \in cancelling /\ cancelling' = cancelling \ {d} /\ pc[d] \in Conn /\ pc[d] # NoConn
      /\ UNCHANGED <<handle, event, task, timeouts, connected, connection, advertiser, incoming,
                     connect_event, up, advertising, made, early, overtaken>>
  BY DEF ScanCancelled, Attempts, TypeOK, object, peripheral, hist
<1>10. /\ connecting' \subseteq connecting \cup {d} /\ trying' \subseteq trying \cup {d}
       /\ d \in trying' => d \in trying \/ (~Linked(d) /\ trying \cap Equal(d) = {})
       /\ \/ pc' = pc
          \/ pc' = [pc EXCEPT ![d] = NoConn] /\ d \notin connecting'
  <2>1. [pc EXCEPT ![d] = pc[d]] = pc
    BY DEF TypeOK
  <2> QED
    BY <1>0, <2>1, GapConnected DEF ScanCancelled
<1>1. TypeOK'
  <2>1. /\ connecting' \in SUBSET Device /\ cancelling' \in SUBSET Device /\ trying' \in SUBSET Device
        /\ pc' \in [Device -> Conn \cup {NoConn}]
    BY <1>0, <1>10 DEF TypeOK
  <2> QED
    BY <1>0, <2>1 DEF TypeOK
<1>2. Attempts'
  BY <1>0, <1>10 DEF Attempts, TypeOK
<1>3. Fresh' /\ Apart' /\ Incoming' /\ Entries' /\ DownMeansDown' /\ Ending'
  BY <1>0 DEF Fresh, Apart, Incoming, Entries, DownMeansDown, Ending
<1>4. Unlinked'
  <2>1. \A e \in Device : Linked(e)' => Linked(e)
    BY <1>0 DEF Linked
  <2>2. trying' \subseteq Device
    BY <1>1 DEF TypeOK
  <2>3. \A e \in trying' : ~Linked(e)
    BY <1>10 DEF Unlinked
  <2>4. \A e, g \in trying' : g \in Equal(e) => g = e
    BY <1>10, <2>2, EqualDevices DEF Unlinked
  <2> QED
    BY <2>1, <2>2, <2>3, <2>4 DEF Unlinked
<1> QED
  BY <1>1, <1>2, <1>3, <1>4

\* connect() goes on with the handle that the interrupt gave its object.
LEMMA ConnectedIInv == ASSUME IInv, NEW d \in Device, Connected(d) PROVE IInv'
<1> USE ConnectionAssumption DEF IInv, NoConn
<1> DEFINE c == pc[d]
<1>0. /\ c \in Conn /\ event[c] /\ event' = [event EXCEPT ![c] = FALSE]
      /\ handle[c] \in Handle /\ connection[d] = c /\ task[c] = "none" /\ d \notin cancelling
      /\ connected' = [connected EXCEPT ![handle[c]] = c]
      /\ connecting' = connecting \ Equal(d) /\ pc' = [pc EXCEPT ![d] = NoConn]
      /\ task' = task \/ task' = [task EXCEPT ![c] = "wait"]
      /\ UNCHANGED <<handle, timeouts, connection, cancelling, advertiser, incoming, connect_event,
                     up, trying, advertising, made, early, overtaken>>
  BY DEF Connected, Started, TypeOK, Attempts, peripheral, controller, hist
<1>1. TypeOK'
  <2>1. /\ connected' \in [Handle -> Conn \cup {NoConn}] /\ event' \in [Conn -> BOOLEAN]
        /\ task' \in [Conn -> {"none", "wait", "done", "failed", "cancelled"}]
        /\ pc' \in [Device -> Conn \cup {NoConn}] /\ connecting' \in SUBSET Device
    BY <1>0 DEF TypeOK
  <2> QED
    BY <1>0, <2>1 DEF TypeOK
<1>2. Attempts'
  <2>1. \A e \in Device : e # d /\ pc[e] # NoConn => pc[e] # c
    BY <1>0 DEF Attempts, Apart
  <2>2. d \notin connecting'
    BY <1>0, EqualDevices
  <2>3. \A e \in Device : e # d => pc'[e] = pc[e]
    BY <1>0 DEF TypeOK
  <2> QED
    BY <1>0, <2>1, <2>2, <2>3 DEF Attempts, TypeOK
<1>3. Fresh'
  <2>1. \A o \in Conn : o > made => o # c
    BY <1>0 DEF Fresh
  <2> QED
    BY <1>0, <2>1 DEF Fresh, TypeOK
<1>4. Apart'
  BY <1>0 DEF Apart
<1>5. Incoming'
  BY <1>0 DEF Incoming, TypeOK
<1>6. Entries'
  BY <1>0 DEF Entries, TypeOK
<1>7. DownMeansDown'
  BY <1>0 DEF DownMeansDown
<1>8. Ending'
  BY <1>0 DEF Ending, TypeOK
<1>9. Unlinked'
  BY <1>0 DEF Unlinked, Linked
<1> QED
  BY <1>1, <1>2, <1>3, <1>4, <1>5, <1>6, <1>7, <1>8, <1>9

\* connect() gives up; the controller may still be trying.
LEMMA ConnectTimeoutIInv == ASSUME IInv, NEW d \in Device, ConnectTimeout(d) PROVE IInv'
<1> USE ConnectionAssumption DEF IInv, NoConn
<1>0. /\ d \notin cancelling /\ connecting' = connecting \ Equal(d)
      /\ pc' = [pc EXCEPT ![d] = NoConn]
      /\ UNCHANGED <<handle, event, task, timeouts, connected, connection, cancelling, advertiser,
                     incoming, connect_event, up, trying, advertising, made, early, overtaken>>
  BY DEF ConnectTimeout, object, peripheral, controller, hist
<1>1. TypeOK'
  <2>1. connecting' \in SUBSET Device /\ pc' \in [Device -> Conn \cup {NoConn}]
    BY <1>0 DEF TypeOK
  <2> QED
    BY <1>0, <2>1 DEF TypeOK
<1>2. Attempts'
  <2>1. d \notin connecting'
    BY <1>0, EqualDevices
  <2> QED
    BY <1>0, <2>1 DEF Attempts, TypeOK
<1>3. Fresh' /\ Apart' /\ Incoming' /\ Entries' /\ DownMeansDown' /\ Ending' /\ Unlinked'
  BY <1>0 DEF Fresh, Apart, Incoming, Entries, DownMeansDown, Ending, Unlinked, Linked
<1> QED
  BY <1>1, <1>2, <1>3

\* What the interrupt of a new link does to the object of the device waited for, if any.
LEMMA PeripheralConnected ==
  ASSUME IInv, NEW d \in Device, NEW h \in Handle, PeripheralConnect(d, h)
  PROVE  /\ up[h] = NoConn /\ d \in trying /\ trying' = trying \ {d}
         /\ UNCHANGED <<task, timeouts, connected, connection, connecting, cancelling, pc,
                        advertiser, incoming, connect_event, advertising, made, early>>
         /\ \/ \E e \in Device :
                 /\ e \in connecting /\ e \in Equal(d) /\ connection[e] = pc[e] /\ pc[e] \in Conn
                 /\ \A g \in Handle : up[g] # pc[e]
                 /\ up' = [up EXCEPT ![h] = pc[e]] /\ handle' = [handle EXCEPT ![pc[e]] = h]
                 /\ event' = [event EXCEPT ![pc[e]] = TRUE] /\ Overtakes(pc[e], h)
            \/ up' = [up EXCEPT ![h] = Stray] /\ UNCHANGED <<handle, event, overtaken>>
<1> USE DEF IInv, NoConn
<1>1. /\ up[h] = NoConn /\ d \in trying /\ trying' = trying \ {d} /\ connecting \subseteq Device
      /\ UNCHANGED <<task, timeouts, connected, connection, connecting, cancelling, pc,
                     advertiser, incoming, connect_event, advertising, made, early>>
  BY DEF PeripheralConnect, central, peripheral, TypeOK
<1>2. ASSUME NEW e \in connecting \cap Equal(d)
      PROVE  connection[e] = pc[e] /\ pc[e] \in Conn /\ \A g \in Handle : up[g] # pc[e]
  <2>1. connection[e] = pc[e] /\ pc[e] \in Conn
    BY <1>1 DEF Attempts, TypeOK
  <2>2. ~Linked(d)
    BY <1>1 DEF Unlinked
  <2> QED
    BY <2>1, <2>2 DEF Linked
<1> QED
  BY <1>1, <1>2 DEF PeripheralConnect

\* The interrupt gives a handle to the object that connect() waits for, if it waits.
LEMMA PeripheralConnectIInv ==
  ASSUME IInv, NEW d \in Device, NEW h \in Handle, PeripheralConnect(d, h)
  PROVE  IInv'
<1> USE ConnectionAssumption DEF IInv, NoConn
<1>1. /\ up[h] = NoConn /\ d \in trying /\ trying' = trying \ {d}
      /\ UNCHANGED <<task, timeouts, connected, connection, connecting, cancelling, pc,
                     advertiser, incoming, connect_event, advertising, made, early>>
  BY PeripheralConnected
<1>2. CASE up' = [up EXCEPT ![h] = Stray] /\ UNCHANGED <<handle, event, overtaken>>
  <2>1. \A o \in Conn, g \in Handle : up'[g] = o => up[g] = o
    BY <1>2 DEF TypeOK, Stray, Conn
  <2>2. TypeOK' /\ Attempts' /\ Fresh' /\ Apart' /\ Entries'
    BY <1>1, <1>2 DEF TypeOK, Attempts, Fresh, Apart, Entries
  <2>3. Incoming' /\ DownMeansDown' /\ Ending'
    BY <1>1, <1>2, <2>1 DEF Incoming, DownMeansDown, Ending, TypeOK
  <2>4. Unlinked'
    BY <1>1, <2>1 DEF Unlinked, Linked
  <2> QED
    BY <2>2, <2>3, <2>4
<1>3. ASSUME NEW e \in Device, e \in connecting, e \in Equal(d), connection[e] = pc[e],
             pc[e] \in Conn, \A g \in Handle : up[g] # pc[e],
             up' = [up EXCEPT ![h] = pc[e]], handle' = [handle EXCEPT ![pc[e]] = h],
             event' = [event EXCEPT ![pc[e]] = TRUE], Overtakes(pc[e], h)
      PROVE  IInv'
  <2> DEFINE c == pc[e]
  <2>1. c \in Conn /\ c # NoConn /\ task[c] = "none" /\ \A g \in Handle : connected[g] # c
    BY <1>3 DEF Attempts, Conn
  <2>2. TypeOK'
    <3>1. handle' \in [Conn -> Handle \cup {NoHandle}] /\ event' \in [Conn -> BOOLEAN]
      BY <1>3 DEF TypeOK
    <3>2. up' \in [Handle -> Conn \cup {NoConn, Stray}]
      BY <1>3 DEF TypeOK
    <3>3. overtaken' \in SUBSET Conn
      BY <1>3 DEF Overtakes, TypeOK
    <3> QED
      BY <1>1, <3>1, <3>2, <3>3 DEF TypeOK
  <2>3. \A g \in Device : g # e /\ connection[g] # NoConn => connection[g] # c
    BY <1>3, <2>1 DEF Apart
  <2>4. /\ \A o \in Conn : o # c => handle'[o] = handle[o] /\ event'[o] = event[o]
        /\ handle'[c] = h /\ event'[c]
    BY <1>3 DEF TypeOK
  <2>5. Attempts'
    <3>1. \A g \in cancelling : pc[g] # c
      BY <1>3, <2>1, <2>3 DEF Attempts, TypeOK
    <3>2. \A g \in Device : pc[g] # NoConn /\ event'[pc[g]] => handle'[pc[g]] \in Handle
      BY <2>4 DEF Attempts, TypeOK
    <3>3. \A g \in cancelling : ~event'[pc[g]]
      BY <2>4, <3>1 DEF Attempts, TypeOK
    <3> QED
      BY <1>1, <3>2, <3>3 DEF Attempts
  <2>6. Fresh'
    BY <1>1, <1>3, <2>1, <2>4 DEF Fresh
  <2>7. Apart'
    BY <1>1 DEF Apart
  <2>8. Incoming'
    <3>1. incoming # c
      BY <1>3, <2>1 DEF Incoming
    <3> QED
      BY <1>1, <1>3, <2>4, <3>1 DEF Incoming, TypeOK
  <2>9. Entries'
    BY <1>1, <2>1, <2>4 DEF Entries, TypeOK
  <2>10. DownMeansDown'
    BY <1>3, <2>4 DEF DownMeansDown, TypeOK
  <2>11. Ending'
    BY <1>1, <1>3, <2>1, <2>4 DEF Ending, TypeOK
  <2>12. Unlinked'
    <3>1. SUFFICES ASSUME NEW g \in trying, g # d PROVE ~Linked(g)'
      BY <1>1 DEF Unlinked
    <3>2. g \in Device /\ e \notin Equal(g)
      BY <1>1, <1>3, <3>1, EqualDevices DEF Unlinked, TypeOK
    <3>3. \A f \in Equal(g) : f \in Device /\ connection[f] # c
      BY <1>3, <2>1, <2>3, <3>2, EqualDevices
    <3>4. ~Linked(g)
      BY DEF Unlinked
    <3> QED
      BY <1>1, <1>3, <3>3, <3>4 DEF Linked, TypeOK
  <2> QED
    BY <2>2, <2>5, <2>6, <2>7, <2>8, <2>9, <2>10, <2>11, <2>12
<1> QED
  BY <1>2, <1>3, PeripheralConnected

\* advertise() starts, and changes no object.
LEMMA AdvertiseIInv == ASSUME IInv, Advertise PROVE IInv'
<1> USE ConnectionAssumption DEF IInv, Conn, NoConn
<1>1. TypeOK'
  BY DEF Advertise, object, central, hist, TypeOK
<1>2. Attempts'
  BY DEF Advertise, object, central, Attempts
<1>3. Fresh'
  BY DEF Advertise, object, central, Fresh
<1>4. Apart'
  BY DEF Advertise, central, Apart
<1>5. Incoming'
  BY DEF Advertise, object, central, Incoming
<1>6. Entries'
  BY DEF Advertise, object, Entries
<1>7. DownMeansDown'
  BY DEF Advertise, object, DownMeansDown
<1>8. Ending'
  BY DEF Advertise, object, Ending
<1>9. Unlinked'
  BY DEF Advertise, object, central, controller, Unlinked, Linked
<1> QED
  BY <1>1, <1>2, <1>3, <1>4, <1>5, <1>6, <1>7, <1>8, <1>9

\* advertise() returns the object that the interrupt made.
LEMMA AdvertiseReturnsIInv == ASSUME IInv, AdvertiseReturns PROVE IInv'
<1> USE ConnectionAssumption DEF IInv, Conn, NoConn
<1>1. TypeOK'
  BY DEF AdvertiseReturns, central, controller, hist, TypeOK
<1>2. Attempts'
  BY DEF AdvertiseReturns, central, controller, Attempts, Incoming
<1>3. Fresh'
  BY DEF AdvertiseReturns, central, Fresh
<1>4. Apart'
  BY DEF AdvertiseReturns, central, Apart
<1>5. Incoming'
  BY DEF AdvertiseReturns, Incoming
<1>6. Entries'
  BY DEF AdvertiseReturns, Entries
<1>7. DownMeansDown'
  BY DEF AdvertiseReturns, controller, DownMeansDown
<1>8. Ending'
  BY DEF AdvertiseReturns, controller, Incoming, Ending
<1>9. Unlinked'
  BY DEF AdvertiseReturns, object, central, controller, Unlinked, Linked
<1> QED
  BY <1>1, <1>2, <1>3, <1>4, <1>5, <1>6, <1>7, <1>8, <1>9

\* advertise() gives up; the object of the interrupt stays where it is.
LEMMA AdvertiseTimeoutIInv == ASSUME IInv, AdvertiseTimeout PROVE IInv'
<1> USE ConnectionAssumption DEF IInv, Conn, NoConn
<1>1. TypeOK'
  BY DEF AdvertiseTimeout, object, central, hist, TypeOK
<1>2. Attempts'
  BY DEF AdvertiseTimeout, object, central, Attempts
<1>3. Fresh'
  BY DEF AdvertiseTimeout, object, central, Fresh
<1>4. Apart'
  BY DEF AdvertiseTimeout, central, Apart
<1>5. Incoming'
  BY DEF AdvertiseTimeout, object, central, Incoming
<1>6. Entries'
  BY DEF AdvertiseTimeout, object, Entries
<1>7. DownMeansDown'
  BY DEF AdvertiseTimeout, object, DownMeansDown
<1>8. Ending'
  BY DEF AdvertiseTimeout, object, Ending
<1>9. Unlinked'
  BY DEF AdvertiseTimeout, object, central, controller, Unlinked, Linked
<1> QED
  BY <1>1, <1>2, <1>3, <1>4, <1>5, <1>6, <1>7, <1>8, <1>9

\* The interrupt makes an object with a handle.
LEMMA CentralConnectIInv == ASSUME IInv, NEW h \in Handle, CentralConnect(h) PROVE IInv'
<1> USE ConnectionAssumption DEF IInv, Conn, NoConn
<1>1. TypeOK'
  <2>1. made' \in 0..MaxConn /\ made' = made + 1 /\ made + 1 \in Conn
    BY DEF CentralConnect, TypeOK
  <2>2. overtaken' \in SUBSET Conn
    BY <2>1 DEF CentralConnect, TypeOK, Overtakes
  <2>3. handle' \in [Conn -> Handle \cup {NoHandle}] /\ connected' \in [Handle -> Conn \cup {NoConn}]
    BY <2>1 DEF CentralConnect, TypeOK
  <2>4. up' \in [Handle -> Conn \cup {NoConn, Stray}]
    BY <2>1 DEF CentralConnect, TypeOK
  <2>5. task' = task /\ event' = event /\ timeouts' = timeouts /\ early' = early /\ trying' = trying
        /\ advertiser' = advertiser /\ incoming' = made + 1 /\ connect_event' = TRUE
        /\ advertising' = FALSE /\ UNCHANGED <<connection, connecting, cancelling, pc>>
    BY DEF CentralConnect, central
  <2> QED
    BY <2>1, <2>2, <2>3, <2>4, <2>5 DEF TypeOK
<1>2. Attempts'
  BY DEF CentralConnect, central, TypeOK, Attempts, Fresh
<1>3. Fresh'
  BY DEF CentralConnect, central, TypeOK, Fresh
<1>4. Apart'
  BY DEF CentralConnect, central, Apart
<1>5. Incoming'
  BY DEF CentralConnect, central, TypeOK, Fresh, Incoming
<1>6. Entries'
  BY DEF CentralConnect, TypeOK, Fresh, Entries
<1>7. DownMeansDown'
  BY DEF CentralConnect, TypeOK, Fresh, DownMeansDown
<1>8. Ending'
  BY DEF CentralConnect, TypeOK, Fresh, Ending
<1>9. Unlinked'
  <2>1. \A e \in Device : connection[e] # made + 1
    BY DEF CentralConnect, TypeOK, Fresh
  <2>2. /\ up' = [up EXCEPT ![h] = made + 1] /\ trying' = trying /\ connection' = connection
        /\ trying \subseteq Device
    BY DEF CentralConnect, central, TypeOK
  <2>3. \A d \in Device : Linked(d)' => Linked(d)
    BY <2>1, <2>2, EqualDevices DEF Linked, TypeOK
  <2> QED
    BY <2>2, <2>3 DEF Unlinked
<1> QED
  BY <1>1, <1>2, <1>3, <1>4, <1>5, <1>6, <1>7, <1>8, <1>9

\* A link goes down; the object that the map has for its handle is told.
LEMMA DisconnectIInv == ASSUME IInv, NEW h \in Handle, Disconnect(h) PROVE IInv'
<1> USE ConnectionAssumption DEF IInv, Conn, NoConn
<1>1. TypeOK'
  <2>1. event' \in [Conn -> BOOLEAN]
    BY DEF Disconnect, TypeOK
  <2>2. up' \in [Handle -> Conn \cup {NoConn, Stray}]
    BY DEF Disconnect, TypeOK
  <2>3. early' \in SUBSET Conn
    <3>1. early' = early \/ (early' = early \cup {up[h]} /\ \E d \in Device : pc[d] # NoConn /\ pc[d] = up[h])
      BY DEF Disconnect
    <3>2. \A d \in Device : pc[d] # NoConn => pc[d] \in Conn
      BY DEF TypeOK
    <3>3. (\E d \in Device : pc[d] # NoConn /\ pc[d] = up[h]) => up[h] \in Conn
      BY <3>2
    <3> QED
      BY <3>1, <3>3 DEF TypeOK
  <2> QED
    BY <2>1, <2>2, <2>3 DEF Disconnect, TypeOK, central, peripheral
<1>2. Attempts'
  <2>1. UNCHANGED <<handle, task, connected, connection, connecting, cancelling, pc>>
    BY DEF Disconnect, central
  <2>2. \A d \in Device : pc[d] # NoConn => event'[pc[d]] = event[pc[d]]
    BY DEF Disconnect, Attempts, TypeOK
  <2>3. cancelling \subseteq Device
    BY DEF TypeOK
  <2> QED
    BY <2>1, <2>2, <2>3 DEF Attempts
<1>3. Fresh'
  BY DEF Disconnect, central, peripheral, Fresh, Entries
<1>4. Apart'
  BY DEF Disconnect, central, Apart
<1>5. Incoming'
  BY DEF Disconnect, central, peripheral, TypeOK, Incoming, Entries, DownMeansDown
<1>6. Entries'
  BY DEF Disconnect, Entries
<1>7. DownMeansDown'
  BY DEF Disconnect, DownMeansDown
<1>8. Ending'
  BY DEF Disconnect, TypeOK, Entries, DownMeansDown, Ending
<1>9. Unlinked'
  BY DEF Disconnect, object, central, controller, Unlinked, Linked
<1> QED
  BY <1>1, <1>2, <1>3, <1>4, <1>5, <1>6, <1>7, <1>8, <1>9

\* device_task() takes the handle from an object without a link.
LEMMA DeviceTaskIInv == ASSUME IInv, NEW c \in Conn, DeviceTask(c) PROVE IInv'
<1> USE ConnectionAssumption DEF IInv, Conn, NoConn
<1>1. TypeOK'
  <2>1. handle[c] \in Handle
    BY DEF DeviceTask, Ending
  <2>2. event' \in [Conn -> BOOLEAN]
    BY DEF DeviceTask, TypeOK
  <2>3. task' \in [Conn -> {"none", "wait", "done", "failed", "cancelled"}]
    <3>1. task \in [Conn -> {"none", "wait", "done", "failed", "cancelled"}]
      BY DEF TypeOK
    <3>2. task' = [task EXCEPT ![c] = "failed"] \/ task' = [task EXCEPT ![c] = "done"]
      BY DEF DeviceTask
    <3> QED
      BY <3>1, <3>2
  <2>4. handle' \in [Conn -> Handle \cup {NoHandle}]
    BY DEF DeviceTask, TypeOK
  <2>5. connected' \in [Handle -> Conn \cup {NoConn}]
    BY <2>1 DEF DeviceTask, TypeOK
  <2>6. connection' \in [Device -> Conn \cup {NoConn}]
    BY DEF DeviceTask, TypeOK
  <2>7. timeouts' \in [Conn -> {"none", "wait", "cancelled"}]
    BY DEF DeviceTask, TypeOK
  <2> QED
    BY <2>2, <2>3, <2>4, <2>5, <2>6, <2>7 DEF DeviceTask, TypeOK, peripheral, controller, hist
<1>2. Attempts'
  <2>1. \A d \in Device : pc[d] # NoConn => pc[d] \in Conn /\ pc[d] # c
    BY DEF DeviceTask, Attempts, TypeOK
  <2>2. \A o \in Conn : o # c => handle'[o] = handle[o] /\ event'[o] = event[o] /\ task'[o] = task[o]
    BY DEF DeviceTask, TypeOK
  <2>3. \A d \in Device : connection[d] # c => connection'[d] = connection[d]
    BY DEF DeviceTask
  <2>4. UNCHANGED <<connecting, cancelling, pc>> /\ cancelling \subseteq Device
    BY DEF DeviceTask, TypeOK
  <2>5. \A h \in Handle : connected'[h] \in {connected[h], NoConn}
    BY DEF DeviceTask, TypeOK
  <2>6. \A d \in Device : pc[d] # NoConn => connection[d] # c
    BY <2>1 DEF Attempts
  <2>7. \A d \in Device : pc[d] # NoConn =>
          /\ connection'[d] = pc[d] /\ task'[pc[d]] = "none"
          /\ event'[pc[d]] => handle'[pc[d]] \in Handle
          /\ \A h \in Handle : connected'[h] # pc[d]
    BY <2>1, <2>2, <2>3, <2>5, <2>6 DEF Attempts
  <2>8. \A d \in cancelling : pc[d] # NoConn /\ d \notin connecting /\ ~event'[pc[d]]
    BY <2>1, <2>2, <2>4 DEF Attempts
  <2> QED
    BY <2>4, <2>7, <2>8 DEF Attempts
<1>3. Fresh'
  <2>1. \A o \in Conn : o > made => o # c
    BY DEF DeviceTask, Fresh
  <2>2. \A o \in Conn : o # c => handle'[o] = handle[o] /\ event'[o] = event[o] /\ task'[o] = task[o]
    BY DEF DeviceTask, TypeOK
  <2>3. \A d \in Device : connection'[d] \in {connection[d], NoConn}
    BY DEF DeviceTask
  <2>4. UNCHANGED <<incoming, made>>
    BY DEF DeviceTask, peripheral
  <2> QED
    BY <2>1, <2>2, <2>3, <2>4 DEF Fresh
<1>4. Apart'
  BY DEF DeviceTask, Apart
<1>5. Incoming'
  BY DEF DeviceTask, peripheral, controller, TypeOK, Incoming
<1>6. Entries'
  BY DEF DeviceTask, TypeOK, Entries
<1>7. DownMeansDown'
  BY DEF DeviceTask, controller, TypeOK, DownMeansDown, Ending
<1>8. Ending'
  BY DEF DeviceTask, controller, TypeOK, Ending
<1>9. Unlinked'
  <2>1. up' = up /\ trying' = trying /\ trying \subseteq Device
        /\ \A d \in Device : connection'[d] \in {connection[d], NoConn}
    BY DEF DeviceTask, controller, TypeOK
  <2>2. \A d \in Device : Linked(d)' => Linked(d)
    BY <2>1, EqualDevices DEF Linked, Conn
  <2> QED
    BY <2>1, <2>2 DEF Unlinked
<1> QED
  BY <1>1, <1>2, <1>3, <1>4, <1>5, <1>6, <1>7, <1>8, <1>9

\* A device_task that is cancelled cleans nothing up.
LEMMA DisconnectedTimeoutIInv == ASSUME IInv, NEW c \in Conn, DisconnectedTimeout(c) PROVE IInv'
<1> USE ConnectionAssumption DEF IInv, Conn, NoConn
<1>1. TypeOK'
  BY DEF DisconnectedTimeout, central, peripheral, controller, hist, TypeOK
<1>2. Attempts'
  BY DEF DisconnectedTimeout, central, controller, Attempts
<1>3. Fresh'
  BY DEF DisconnectedTimeout, central, peripheral, Fresh
<1>4. Apart'
  BY DEF DisconnectedTimeout, central, Apart
<1>5. Incoming'
  BY DEF DisconnectedTimeout, central, peripheral, controller, Incoming
<1>6. Entries'
  BY DEF DisconnectedTimeout, Entries
<1>7. DownMeansDown'
  BY DEF DisconnectedTimeout, controller, DownMeansDown
<1>8. Ending'
  BY DEF DisconnectedTimeout, controller, Ending
<1>9. Unlinked'
  BY DEF DisconnectedTimeout, object, central, controller, Unlinked, Linked
<1> QED
  BY <1>1, <1>2, <1>3, <1>4, <1>5, <1>6, <1>7, <1>8, <1>9

----------------------------------------------------------------------------
\* A new object has no handle to be found by.
LEMMA ConnectRInv == ASSUME RInv, NEW d \in Device, Connect(d) PROVE RInv'
<1> USE ConnectionAssumption DEF RInv, IInv, NoConn
<1> DEFINE c == made + 1
<1>0. IInv'
  BY ConnectIInv
<1>1. /\ c \in Conn /\ connection' = [connection EXCEPT ![d] = c] /\ ~event[c]
      /\ handle[c] = NoHandle /\ task[c] = "none" /\ incoming # c
      /\ UNCHANGED <<handle, event, timeouts, connected, incoming, up, early, overtaken>>
  BY DEF Connect, TypeOK, Conn, Fresh, peripheral, hist
<1>2. task' = task \/ task' = [task EXCEPT ![c] = "failed"]
  BY DEF Connect
<1>3. \A e \in Device : pc'[e] \in {pc[e], c, NoConn}
  BY <1>1, GapConnected DEF Connect, TypeOK
<1>4. Marked'
  BY <1>1, <1>2 DEF Marked, TypeOK
<1>5. Waited'
  BY <1>1, <1>3 DEF Waited, Found
<1>6. Registered'
  BY <1>0, <1>1, <1>2 DEF Registered, Found, TypeOK
<1> QED
  BY <1>0, <1>4, <1>5, <1>6

\* connect() goes on to gap_connect(), which touches no handle.
LEMMA ScanCancelledRInv == ASSUME RInv, NEW d \in Device, ScanCancelled(d) PROVE RInv'
<1> USE ConnectionAssumption DEF RInv, IInv, NoConn
<1>0. IInv'
  BY ScanCancelledIInv
<1>1. UNCHANGED <<handle, event, task, timeouts, connected, incoming, up, early, overtaken>>
  BY DEF ScanCancelled, object, peripheral, hist
<1>2. \A e \in Device : pc'[e] \in {pc[e], NoConn}
  <2>1. pc[d] \in Conn
    BY DEF ScanCancelled, Attempts, TypeOK
  <2> QED
    BY <2>1, GapConnected DEF ScanCancelled, TypeOK
<1>3. Marked' /\ Waited' /\ Registered'
  BY <1>0, <1>1, <1>2 DEF Marked, Waited, Registered, Found
<1> QED
  BY <1>0, <1>3

\* connect() registers the handle: only a marked object had it in the map.
LEMMA ConnectedRInv == ASSUME RInv, NEW d \in Device, Connected(d) PROVE RInv'
<1> USE ConnectionAssumption DEF RInv, IInv, NoConn
<1> DEFINE c == pc[d]
<1>0. IInv'
  BY ConnectedIInv
<1>1. /\ c \in Conn /\ event[c] /\ event' = [event EXCEPT ![c] = FALSE]
      /\ handle[c] \in Handle /\ connection[d] = c /\ task[c] = "none" /\ incoming # c
      /\ connected' = [connected EXCEPT ![handle[c]] = c]
      /\ pc' = [pc EXCEPT ![d] = NoConn]
      /\ task' = task \/ task' = [task EXCEPT ![c] = "wait"]
      /\ UNCHANGED <<handle, incoming, up, early, overtaken>>
  BY DEF Connected, Started, TypeOK, Attempts, Incoming, peripheral, controller, hist
<1>2. Marked'
  BY <1>1 DEF Marked, TypeOK
<1>3. Waited'
  <2>1. \A e \in Device : pc'[e] # NoConn => pc'[e] = pc[e] /\ pc[e] # c
    BY <1>1 DEF Attempts, Apart, TypeOK
  <2>2. \A e \in Device : pc'[e] # NoConn => event'[pc'[e]] = event[pc[e]]
    BY <1>1, <2>1 DEF TypeOK
  <2>3. incoming # NoConn /\ incoming \notin early \cup overtaken => Found(incoming)'
    BY <1>1 DEF Waited, Marked, Incoming, Found, TypeOK
  <2> QED
    BY <1>1, <2>1, <2>2, <2>3 DEF Waited
<1>4. Registered'
  <2>1. ASSUME NEW o \in Conn, task'[o] = "wait", o \notin early' \cup overtaken', o # c
        PROVE  Found(o)'
    BY <1>1, <2>1 DEF Registered, Marked, Found, Ending, TypeOK
  <2>2. ASSUME NEW o \in Conn, o = c, o \notin early' \cup overtaken' PROVE Found(o)'
    <3>1. o # NoConn
      BY <2>2 DEF Connected
    <3>2. \E h \in Handle : up[h] = o
      BY <1>1, <2>2, <3>1 DEF Waited
    <3>3. connected'[handle'[o]] = o
      BY <1>1, <2>2 DEF TypeOK
    <3> QED
      BY <1>1, <3>2, <3>3 DEF Found
  <2>3. \A o \in Conn : task'[o] = "wait" /\ o \notin early' \cup overtaken' => Found(o)'
    BY <2>1, <2>2
  <2> QED
    BY <1>0, <2>3 DEF Registered
<1> QED
  BY <1>0, <1>2, <1>3, <1>4

\* connect() gives up before anything is registered.
LEMMA ConnectTimeoutRInv == ASSUME RInv, NEW d \in Device, ConnectTimeout(d) PROVE RInv'
<1> USE ConnectionAssumption DEF RInv, IInv, NoConn
<1>0. IInv'
  BY ConnectTimeoutIInv
<1>1. Marked'
  BY <1>0 DEF ConnectTimeout, object, hist, Marked
<1>2. Waited'
  BY <1>0 DEF ConnectTimeout, object, peripheral, controller, hist, Waited, Found
<1>3. Registered'
  BY <1>0 DEF ConnectTimeout, object, controller, hist, Registered, Found
<1> QED
  BY <1>0, <1>1, <1>2, <1>3

\* A link with a handle that another object has yet to let go marks both.
LEMMA PeripheralConnectRInv ==
  ASSUME RInv, NEW d \in Device, NEW h \in Handle, PeripheralConnect(d, h)
  PROVE  RInv'
<1> USE ConnectionAssumption DEF RInv, IInv, NoConn
<1>0. IInv'
  BY PeripheralConnectIInv
<1>1. up[h] = NoConn /\ UNCHANGED <<task, connected, connection, pc, incoming, early>>
  BY PeripheralConnected
<1>2. CASE up' = [up EXCEPT ![h] = Stray] /\ UNCHANGED <<handle, event, overtaken>>
  <2>1. \A o \in Conn, g \in Handle : up'[g] = o <=> up[g] = o
    BY <1>1, <1>2 DEF TypeOK, Stray, Conn
  <2>2. Marked' /\ Registered'
    BY <1>0, <1>1, <1>2, <2>1 DEF Marked, Registered, Found
  <2>3. Waited'
    BY <1>1, <1>2, <2>1 DEF Waited, Found, TypeOK
  <2> QED
    BY <1>0, <2>2, <2>3
<1>3. ASSUME NEW e \in Device, e \in connecting, e \in Equal(d), connection[e] = pc[e],
             pc[e] \in Conn, \A g \in Handle : up[g] # pc[e],
             up' = [up EXCEPT ![h] = pc[e]], handle' = [handle EXCEPT ![pc[e]] = h],
             event' = [event EXCEPT ![pc[e]] = TRUE], Overtakes(pc[e], h)
      PROVE  RInv'
  <2> DEFINE c == pc[e]
  <2>1. c \in Conn /\ c # NoConn /\ task[c] = "none" /\ incoming # c
    BY <1>3 DEF Attempts, Incoming, Conn
  <2>2. /\ \A o \in Conn : o # c => /\ handle'[o] = handle[o] /\ event'[o] = event[o]
                                    /\ \A g \in Handle : up'[g] = o <=> up[g] = o
        /\ handle'[c] = h /\ event'[c] /\ up'[h] = c
    BY <1>1, <1>3 DEF TypeOK, Conn
  <2>3. overtaken \subseteq overtaken'
    BY <1>3 DEF Overtakes
  <2>4. \A o \in Conn \ {c} : handle[o] = h /\ task[o] \in {"none", "wait"}
                              => {o, c} \subseteq overtaken'
    BY <1>3 DEF Overtakes
  <2>5. Marked'
    BY <1>1, <2>1, <2>2, <2>3, <2>4 DEF Marked
  <2>6. Waited'
    <3>1. \A g \in Device : pc[g] # NoConn => pc[g] \in Conn
      BY DEF TypeOK
    <3>2. incoming # NoConn => incoming \in Conn
      BY DEF TypeOK
    <3> QED
      BY <1>1, <2>1, <2>2, <2>3, <3>1, <3>2 DEF Waited, Found
  <2>7. Registered'
    BY <1>0, <1>1, <2>1, <2>2, <2>3 DEF Registered, Found
  <2> QED
    BY <1>0, <2>5, <2>6, <2>7
<1> QED
  BY <1>2, <1>3, PeripheralConnected

\* advertise() starts, and changes nothing that the map is about.
LEMMA AdvertiseRInv == ASSUME RInv, Advertise PROVE RInv'
<1> USE ConnectionAssumption DEF RInv, IInv, NoConn
<1>0. IInv'
  BY AdvertiseIInv
<1>1. Marked'
  BY <1>0 DEF Advertise, object, hist, Marked
<1>2. Waited'
  BY <1>0 DEF Advertise, object, central, hist, Waited, Found
<1>3. Registered'
  BY <1>0 DEF Advertise, object, hist, Registered, Found
<1> QED
  BY <1>0, <1>1, <1>2, <1>3

\* What advertise() returns was registered by the interrupt.
LEMMA AdvertiseReturnsRInv == ASSUME RInv, AdvertiseReturns PROVE RInv'
<1> USE ConnectionAssumption DEF RInv, IInv, NoConn
<1>0. IInv'
  BY AdvertiseReturnsIInv
<1>1. Marked'
  BY <1>0 DEF AdvertiseReturns, hist, Marked, Incoming
<1>2. Waited'
  BY <1>0 DEF AdvertiseReturns, central, controller, hist, Waited
<1>3. Registered'
  BY <1>0 DEF AdvertiseReturns, controller, hist, Registered, Waited, Incoming, Found
<1> QED
  BY <1>0, <1>1, <1>2, <1>3

\* advertise() gives up, and leaves the map.
LEMMA AdvertiseTimeoutRInv == ASSUME RInv, AdvertiseTimeout PROVE RInv'
<1> USE ConnectionAssumption DEF RInv, IInv, NoConn
<1>0. IInv'
  BY AdvertiseTimeoutIInv
<1>1. Marked'
  BY <1>0 DEF AdvertiseTimeout, object, hist, Marked
<1>2. Waited'
  BY <1>0 DEF AdvertiseTimeout, object, central, hist, Waited, Found
<1>3. Registered'
  BY <1>0 DEF AdvertiseTimeout, object, hist, Registered, Found
<1> QED
  BY <1>0, <1>1, <1>2, <1>3

\* The interrupt registers the object that it makes, over a marked one if any.
LEMMA CentralConnectRInv == ASSUME RInv, NEW h \in Handle, CentralConnect(h) PROVE RInv'
<1> USE ConnectionAssumption DEF RInv, IInv, NoConn
<1>0. IInv'
  BY CentralConnectIInv
<1>1. Marked'
  <2>1. made + 1 \in Conn /\ handle[made + 1] = NoHandle
    BY DEF CentralConnect, Fresh, TypeOK, Conn
  <2>2. handle' = [handle EXCEPT ![made + 1] = h] /\ task' = task /\ Overtakes(made + 1, h)
    BY DEF CentralConnect
  <2>3. \A o \in Conn : handle[o] = h /\ task[o] \in {"none", "wait"}
                       => {o, made + 1} \subseteq overtaken'
    BY <2>1, <2>2 DEF Overtakes
  <2>4. overtaken \subseteq overtaken'
    BY <2>2 DEF Overtakes
  <2> QED
    BY <2>1, <2>2, <2>3, <2>4 DEF Marked
<1>2. Waited'
  BY <1>0 DEF CentralConnect, central, Overtakes, TypeOK, Waited, Attempts, Incoming, Found
<1>3. Registered'
  BY <1>0 DEF CentralConnect, Overtakes, Registered, DownMeansDown, Ending, Found
<1> QED
  BY <1>0, <1>1, <1>2, <1>3

\* The interrupt finds the object by its handle, unless connect() has not gone on.
LEMMA DisconnectRInv == ASSUME RInv, NEW h \in Handle, Disconnect(h) PROVE RInv'
<1> USE ConnectionAssumption DEF RInv, IInv, NoConn
<1>0. IInv'
  BY DisconnectIInv
<1>1. Marked'
  BY <1>0 DEF Disconnect, Marked
<1>2. Waited'
  <2>1. /\ event' = (IF connected[h] # NoConn THEN [event EXCEPT ![connected[h]] = TRUE] ELSE event)
        /\ up' = [up EXCEPT ![h] = NoConn] /\ early \subseteq early'
        /\ UNCHANGED <<handle, connected, pc, incoming, overtaken>>
    BY DEF Disconnect, central, peripheral
  <2>2. ASSUME NEW d \in Device, pc[d] # NoConn, event'[pc[d]], pc[d] \notin early' \cup overtaken
        PROVE  \E g \in Handle : up'[g] = pc[d]
    <3>1. event[pc[d]]
      BY <2>1, <2>2 DEF Attempts, TypeOK
    <3>2. PICK g \in Handle : up[g] = pc[d]
      BY <2>1, <2>2, <3>1 DEF Waited
    <3>3. g # h
      BY <2>2, <3>2 DEF Disconnect
    <3> QED
      BY <2>1, <3>2, <3>3 DEF TypeOK
  <2>3. incoming # NoConn /\ incoming \notin early' \cup overtaken => Found(incoming)'
    BY <2>1 DEF TypeOK, Waited, DownMeansDown, Found
  <2> QED
    BY <2>1, <2>2, <2>3 DEF Waited
<1>3. Registered'
  BY <1>0 DEF Disconnect, TypeOK, Registered, DownMeansDown, Ending, Found
<1> QED
  BY <1>0, <1>1, <1>2, <1>3

\* device_task() deletes the entry of its handle: another object found by it is marked.
LEMMA DeviceTaskRInv == ASSUME RInv, NEW c \in Conn, DeviceTask(c) PROVE RInv'
<1> USE ConnectionAssumption DEF RInv, IInv, NoConn
<1>0. IInv'
  BY DeviceTaskIInv
<1>1. Marked'
  BY <1>0 DEF DeviceTask, hist, TypeOK, Marked
<1>2. Waited'
  BY <1>0 DEF DeviceTask, peripheral, controller, hist, TypeOK, Waited, Marked, Incoming, Found
<1>3. Registered'
  BY <1>0 DEF DeviceTask, controller, hist, TypeOK, Registered, Marked, Ending, Found
<1> QED
  BY <1>0, <1>1, <1>2, <1>3

\* An object whose device_task was cancelled is not promised to be found.
LEMMA DisconnectedTimeoutRInv == ASSUME RInv, NEW c \in Conn, DisconnectedTimeout(c) PROVE RInv'
<1> USE ConnectionAssumption DEF RInv, IInv, NoConn
<1>0. IInv'
  BY DisconnectedTimeoutIInv
<1>1. Marked'
  BY <1>0 DEF DisconnectedTimeout, hist, Marked
<1>2. Waited'
  BY <1>0 DEF DisconnectedTimeout, central, peripheral, controller, hist, Waited, Found
<1>3. Registered'
  BY <1>0 DEF DisconnectedTimeout, controller, hist, Registered, Found
<1> QED
  BY <1>0, <1>1, <1>2, <1>3

\* Requests, answered or cancelled, touch no handle.
LEMMA RequestsRInv ==
  ASSUME RInv, timeouts' \in [Conn -> {"none", "wait", "cancelled"}],
         UNCHANGED <<handle, event, task, connected, central, peripheral, controller, made, hist>>
  PROVE  RInv'
<1> USE DEF RInv, IInv, central, peripheral, controller, hist
<1>1. TypeOK'
  BY DEF TypeOK
<1>2. /\ Attempts' /\ Unlinked' /\ Fresh' /\ Apart'
      /\ Entries' /\ DownMeansDown' /\ Ending' /\ Marked'
  BY DEF Attempts, Unlinked, Linked, Fresh, Apart, Entries, DownMeansDown, Ending, Marked
<1>3. Incoming' /\ Waited'
  BY DEF Incoming, Waited, Found
<1>4. Registered'
  BY <1>1 DEF Registered, Found
<1> QED
  BY <1>1, <1>2, <1>3, <1>4

\* At first there are no objects and no links.
LEMMA InitRInv == Init => RInv
<1> SUFFICES ASSUME Init PROVE RInv
  OBVIOUS
<1> USE DEF NoConn
<1>1. TypeOK
  <2>1. /\ made \in 0..MaxConn /\ connecting \in SUBSET Device /\ trying \in SUBSET Device
        /\ cancelling \in SUBSET Device
        /\ early \in SUBSET Conn /\ overtaken \in SUBSET Conn
    BY ConnectionAssumption DEF Init
  <2>2. /\ handle \in [Conn -> Handle \cup {NoHandle}] /\ event \in [Conn -> BOOLEAN]
        /\ task \in [Conn -> {"none", "wait", "done", "failed", "cancelled"}]
        /\ timeouts \in [Conn -> {"none", "wait", "cancelled"}]
    BY DEF Init
  <2>3. /\ connected \in [Handle -> Conn \cup {NoConn}]
        /\ connection \in [Device -> Conn \cup {NoConn}] /\ pc \in [Device -> Conn \cup {NoConn}]
        /\ up \in [Handle -> Conn \cup {NoConn, Stray}]
    BY DEF Init
  <2> QED
    BY <2>1, <2>2, <2>3 DEF Init, TypeOK
<1>2. Attempts /\ Unlinked /\ Fresh /\ Apart /\ Entries /\ Ending
  BY DEF Init, Attempts, Unlinked, Fresh, Apart, Entries, Ending
<1>3. DownMeansDown
  BY DEF Init, DownMeansDown, Conn
<1>4. Incoming /\ Marked /\ Waited
  BY ConnectionAssumption DEF Init, Incoming, Marked, Waited
<1>5. Registered
  BY <1>1 DEF Init, Registered
<1> QED
  BY <1>1, <1>2, <1>3, <1>4, <1>5 DEF RInv, IInv

\* Every step of the program.
LEMMA StepRInv == RInv /\ [Next]_vars => RInv'
<1> SUFFICES ASSUME RInv, [Next]_vars PROVE RInv'
  OBVIOUS
<1>1. CASE Irq
  BY <1>1, CentralConnectRInv, DisconnectRInv, PeripheralConnectRInv DEF Irq
<1>2. CASE \E d \in Device :
             Connect(d) \/ ScanCancelled(d) \/ Connected(d) \/ ConnectTimeout(d)
  BY <1>2, ConnectRInv, ScanCancelledRInv, ConnectedRInv, ConnectTimeoutRInv
<1>3. CASE Advertise \/ AdvertiseReturns \/ AdvertiseTimeout
  BY <1>3, AdvertiseRInv, AdvertiseReturnsRInv, AdvertiseTimeoutRInv
<1>4. ASSUME NEW c \in Conn, DeviceTask(c) \/ DisconnectedTimeout(c) PROVE RInv'
  BY <1>4, DeviceTaskRInv, DisconnectedTimeoutRInv
<1>5. ASSUME NEW c \in Conn, Request(c) \/ TimeoutSleep(c) \/ RequestEnds(c) \/ Answered(c)
      PROVE  RInv'
  <2>1. /\ timeouts' \in [Conn -> {"none", "wait", "cancelled"}]
        /\ UNCHANGED <<handle, event, task, connected, central, peripheral, controller, made,
                       hist>>
    BY <1>5 DEF RInv, IInv, TypeOK, Request, TimeoutSleep, RequestEnds, Answered
  <2> QED
    BY <2>1, RequestsRInv
<1>6. CASE UNCHANGED vars
  <2>1. timeouts' \in [Conn -> {"none", "wait", "cancelled"}]
    BY <1>6 DEF RInv, IInv, TypeOK, vars, object
  <2> QED
    BY <1>6, <2>1, RequestsRInv DEF vars, object
<1> QED
  BY <1>1, <1>2, <1>3, <1>4, <1>5, <1>6 DEF Next, Tasks

\* The invariant holds of the program.
LEMMA SpecRInv == Spec => []RInv
BY InitRInv, StepRInv, PTL DEF Spec

\* A connection is closed, and its requests cancelled, only when its link is down: an
\* object that has a link keeps the handle of it.
THEOREM ConnectionDownMeansDown == Spec => []DownMeansDown
<1>1. RInv => DownMeansDown
  BY DEF RInv, IInv
<1> QED
  BY SpecRInv, <1>1, PTL

\* "Global map of connection handle to active devices": every connection that the
\* program was given and that has not ended is in the map, but for one disconnected
\* before connect() went on, and for a handle given out again too early.
THEOREM ConnectionRegistered == Spec => []Registered
<1>1. RInv => Registered
  BY DEF RInv
<1> QED
  BY SpecRInv, <1>1, PTL

----------------------------------------------------------------------------
(***************************************************************************)
(* LoRa.  A receive that a send has suspended is resumed and gives up in its *)
(* time, and nothing cuts a transmission short.                            *)
(***************************************************************************)

Listening == mode \in {"single", "continuous"}

\* A transmission belongs to _tx, and to what the chip was prepared for; _tx outlives its
\* sender only if that was cancelled, and the transmission _tx if start_send() raised.
Transmits ==
  /\ mode = "tx" => (tx \/ left) /\ "tx_done" \notin irq /\ (loaded = "tx" \/ late)
  /\ mode = "tx" /\ ~tx => sender = "idle"
  /\ sender = "idle" /\ tx => left
  /\ sender = "at" => late /\ "tx_done" \notin irq /\ mode # "tx"

\* With no transmission, a receive that is on is heard, or a flag is up.
Heard ==
  receiver = "wait" /\ ~tx /\ sender # "at" /\ Receiving(rx) /\ ~left => Listening \/ irq # {}

LInv == ModemTypeOK /\ Transmits /\ Heard

\* The time of a recv() is over, or its deadline is one that counts as none.
Past == due # Never /\ (now >= due \/ ticks_ms(due) = 0)

\* A deadline is that of recv()'s timeout, and less than half a period away.  A receive
\* is off before its task knows only by standby() or in its time.
Deadline ==
  /\ rx >= 0 => /\ due # Never /\ rx = ticks_ms(due)
                /\ due - now < Period \div 2 /\ now - due < Period \div 2
  /\ continuous => rx < 0
  /\ receiver = "wait" /\ rx = Off => stood \/ Past

----------------------------------------------------------------------------
\* The clock stops somewhere.
LEMMA MaxTimeType == MaxTime \in Nat
BY LoraAssumption

\* A reading of the clock.
LEMMA TicksType ==
  ASSUME NEW t \in Nat
  PROVE  /\ ticks_ms(t) \in 0..(Period - 1)
         /\ \A a, b \in Int : ticks_diff(a, b) \in Int
BY LoraAssumption DEF ticks_ms, ticks_diff

\* The chip is given a timeout that it knows, or none.
LEMMA ListenTimer ==
  ASSUME now \in Nat, NEW timeout \in Nat \cup {Never}, NEW cont, Listen(timeout, cont)
  PROVE  timer' \in Nat \cup {Never, Zeroed}
<1>1. CASE timeout = Never
  BY <1>1 DEF Listen
<1>2. CASE timeout \in Nat
  <2>1. timeout % ChipWrap \in Nat
    BY <1>2, LoraAssumption
  <2>2. now + (timeout % ChipWrap) \in Nat
    BY <2>1
  <2> QED
    BY <2>2 DEF Listen
<1> QED
  BY <1>1, <1>2

\* At first nothing is on.
LEMMA InitLInv == ModemInit => LInv
<1> SUFFICES ASSUME ModemInit PROVE LInv
  OBVIOUS
<1>1. DriverOK /\ ChipOK
  BY LoraAssumption DEF ModemInit, DriverOK, ChipOK, Off
<1>2. TasksOK
  <2>1. 0 \in 0..MaxTime
    BY LoraAssumption
  <2> QED
    BY <2>1 DEF ModemInit, TasksOK, Never
<1>3. Transmits /\ Heard
  BY DEF ModemInit, Transmits, Heard
<1> QED
  BY <1>1, <1>2, <1>3 DEF LInv, ModemTypeOK

\* _check_recv(): a receive that goes on is started again unless the chip is busy, and one
\* that does not is off.
LEMMA CheckRecvHeard ==
  ASSUME ModemTypeOK, NEW r \in {Off, On} \cup 0..(Period - 1),
         NEW flags \in SUBSET {"rx_done", "crc_err", "timeout", "tx_done"}, CheckRecv(r, flags)
  PROVE  /\ rx' \in {Off, On} \cup 0..(Period - 1)
         /\ irq' \in {flags, {}} /\ loaded' \in {"rx", loaded} /\ left' \in {left, FALSE}
         /\ timer' \in Nat \cup {Never, Zeroed}
         /\ mode' \in {mode, "single", "continuous"}
         /\ mode = "tx" => mode' = "tx" /\ loaded' = loaded /\ left' = left
         /\ Receiving(rx') => mode' \in {"single", "continuous", "tx"}
<1> USE DEF Off, On, Never
<1>1. CASE Goes(r) /\ mode = "standby" /\ rx' = r /\ Listen(Left(r), continuous)
  <2>1. now \in Nat /\ r \in Int
    <3>1. now \in 0..MaxTime /\ MaxTime \in Nat /\ Period \in Nat
      BY LoraAssumption DEF ModemTypeOK, TasksOK
    <3> QED
      BY <3>1
  <2>2. Left(r) \in Nat \cup {Never}
    <3>1. CASE r >= 0
      <4>1. ~(Left(r) <= 0)
        BY <1>1, <3>1 DEF Goes, Expired
      <4>2. Left(r) \in Int
        BY <2>1, <3>1, TicksType DEF Left
      <4> QED
        BY <4>1, <4>2
    <3>2. CASE ~(r >= 0)
      BY <3>2 DEF Left
    <3> QED
      BY <3>1, <3>2
  <2>3. timer' \in Nat \cup {Never, Zeroed}
    BY <1>1, <2>1, <2>2, ListenTimer
  <2> QED
    BY <1>1, <2>3 DEF Listen
<1>2. CASE ~(Goes(r) /\ mode = "standby")
  BY <1>2 DEF CheckRecv, Goes, ModemTypeOK, DriverOK, ChipOK, Receiving
<1> QED
  BY <1>1, <1>2 DEF CheckRecv

\* recv() starts the chip at once, or while a send is under way only notes the receive.
LEMMA RecvLInv ==
  ASSUME LInv, NEW timeout \in Timeout \cup {Never}, NEW cont \in BOOLEAN, Recv(timeout, cont)
  PROVE  LInv'
<1> USE DEF LInv, Off, On, Never
<1>1. /\ rx' \in {Off, On} \cup 0..(Period - 1) /\ due' \in 0..MaxTime \cup {Never}
      /\ timeout \in Nat \cup {Never} /\ now \in Nat
  <2>1. now \in 0..MaxTime /\ now + timeout <= MaxTime
    BY DEF Recv, ModemTypeOK, TasksOK
  <2>2. now \in Nat
    BY <2>1, MaxTimeType
  <2>3. CASE timeout = Never
    BY <2>2, <2>3 DEF Recv
  <2>4. CASE timeout # Never
    <3>1. timeout \in Nat
      BY LoraAssumption, <2>4
    <3>2. now + timeout \in 0..MaxTime /\ now + timeout \in Nat
      BY <2>1, <3>1, MaxTimeType
    <3> QED
      BY <2>2, <2>4, <3>1, <3>2, TicksType DEF Recv
  <2> QED
    BY <2>3, <2>4
<1>2. /\ UNCHANGED <<tx, sender, now, late>> /\ continuous' = cont
      /\ receiver' = "wait" /\ stood' = FALSE /\ got' = ""
  BY DEF Recv
<1>3. CASE tx
  <2>1. UNCHANGED <<mode, irq, loaded, timer, left>>
    BY <1>3 DEF Recv, chip
  <2>2. ModemTypeOK'
    <3>1. DriverOK'
      BY <1>1, <1>2, <2>1 DEF ModemTypeOK, DriverOK
    <3>2. ChipOK'
      BY <1>1, <1>2, <2>1 DEF ModemTypeOK, ChipOK
    <3>3. TasksOK'
      BY <1>1, <1>2, <2>1 DEF ModemTypeOK, TasksOK
    <3> QED
      BY <3>1, <3>2, <3>3 DEF ModemTypeOK
  <2> QED
    BY <1>2, <1>3, <2>1, <2>2 DEF Transmits, Heard
<1>4. CASE ~tx
  <2>1. /\ mode' \in {"single", "continuous"} /\ irq' = {} /\ loaded' = "rx" /\ left' = FALSE
        /\ timer' \in Nat \cup {Never, Zeroed}
    BY <1>1, <1>4, ListenTimer DEF Recv, Listen
  <2>2. ModemTypeOK'
    <3>1. DriverOK'
      BY <1>1, <1>2, <2>1 DEF ModemTypeOK, DriverOK
    <3>2. ChipOK'
      BY <1>1, <1>2, <2>1 DEF ModemTypeOK, ChipOK
    <3>3. TasksOK'
      BY <1>1, <1>2, <2>1 DEF ModemTypeOK, TasksOK
    <3> QED
      BY <3>1, <3>2, <3>3 DEF ModemTypeOK
  <2> QED
    BY <1>2, <1>4, <2>1, <2>2 DEF Transmits, Heard, Listening
<1> QED
  BY <1>3, <1>4

\* poll_recv(): a packet ends a single receive, and _check_recv() sees to the rest.
LEMMA PollRecvLInv ==
  ASSUME LInv, NEW result \in {"", "packet", "empty"}, NEW crc \in BOOLEAN, PollRecv(result, crc)
  PROVE  LInv'
<1> USE DEF LInv, Off, On, Never
<1> DEFINE r == IF Complete /\ (Success \/ crc) /\ ~continuous THEN Off ELSE rx
           flags == IF Complete THEN {} ELSE irq
<1>1. /\ UNCHANGED <<continuous, tx, sender, now, due, stood, late>>
      /\ ~tx /\ CheckRecv(r, flags)
      /\ receiver' \in {"wait", "idle"} /\ got' \in {"", "None", "packet", "empty"}
  BY DEF PollRecv, ModemTypeOK, TasksOK
<1>2. /\ r \in {Off, On} \cup 0..(Period - 1)
      /\ flags \in SUBSET {"rx_done", "crc_err", "timeout", "tx_done"}
      /\ flags \subseteq irq
  BY <1>1 DEF Transmits, ModemTypeOK, DriverOK, ChipOK
<1> HIDE DEF r, flags
<1>3. /\ rx' \in {Off, On} \cup 0..(Period - 1)
      /\ irq' \in {flags, {}} /\ loaded' \in {"rx", loaded} /\ left' \in {left, FALSE}
      /\ timer' \in Nat \cup {Never, Zeroed}
      /\ mode' \in {mode, "single", "continuous"}
      /\ mode = "tx" => mode' = "tx" /\ loaded' = loaded /\ left' = left
      /\ Receiving(rx') => mode' \in {"single", "continuous", "tx"}
  BY <1>1, <1>2, CheckRecvHeard
<1>4. irq' \subseteq irq /\ rx' \in {Off, On} \cup 0..(Period - 1)
  BY <1>2, <1>3
<1>5. ModemTypeOK'
  <2>1. DriverOK'
    BY <1>1, <1>3, <1>4 DEF ModemTypeOK, DriverOK
  <2>2. ChipOK'
    BY <1>1, <1>3, <1>4 DEF ModemTypeOK, ChipOK
  <2>3. TasksOK'
    BY <1>1, <1>3, <1>4 DEF ModemTypeOK, TasksOK
  <2> QED
    BY <2>1, <2>2, <2>3 DEF ModemTypeOK
<1>6. Transmits'
  <2>1. CASE mode' = "tx"
    <3>1. mode = "tx" /\ loaded' = loaded /\ left' = left
      BY <1>3, <2>1
    <3>2. left /\ sender = "idle" /\ "tx_done" \notin irq /\ (loaded = "tx" \/ late)
      BY <1>1, <3>1 DEF Transmits
    <3> QED
      BY <1>1, <1>4, <3>1, <3>2 DEF Transmits
  <2>2. CASE mode' # "tx"
    <3>1. ~tx' /\ sender' = sender /\ late' = late
      BY <1>1
    <3>2. sender = "at" => late /\ "tx_done" \notin irq
      BY DEF Transmits
    <3> QED
      BY <1>4, <2>2, <3>1, <3>2 DEF Transmits
  <2> QED
    BY <2>1, <2>2
<1>7. Heard'
  <2> SUFFICES ASSUME Receiving(rx'), ~left' PROVE mode' \in {"single", "continuous"}
    BY DEF Heard, Listening
  <2>1. CASE mode' = "tx"
    BY <1>3, <1>6, <1>1, <2>1 DEF Transmits
  <2> QED
    BY <1>3, <2>1
<1> QED
  BY <1>5, <1>6, <1>7

\* send() prepares the chip, and starts it at once or after a sleep; a send that is
\* cancelled, or raises, has left.
LEMMA SendLInv ==
  ASSUME LInv, PrepareRaises \/ Send \/ SendAt \/ StartSend \/ SendCancelled
  PROVE  LInv'
<1> USE DEF LInv, Off, On, Never, Zeroed
<1>1. CASE Send \/ SendAt
  <2>1. /\ UNCHANGED <<rx, continuous, receiver, now, due, got, stood>>
        /\ irq' = {} /\ loaded' = "tx" /\ timer' = Never
        /\ \/ mode' = "tx" /\ tx' = TRUE /\ sender' = "wait" /\ left' = FALSE /\ late' = FALSE
           \/ mode' = "standby" /\ tx' = tx /\ sender' = "at" /\ left' = FALSE /\ late' = TRUE
           \/ /\ mode' \in {"tx", "standby"} /\ tx' = tx /\ sender' = "idle" /\ left' = TRUE
              /\ late' = FALSE
    BY <1>1 DEF Send, SendAt, Start, PrepareSend, driver
  <2>2. ModemTypeOK'
    <3>1. DriverOK'
      BY <2>1 DEF ModemTypeOK, DriverOK
    <3>2. ChipOK'
      BY <2>1 DEF ModemTypeOK, ChipOK
    <3>3. TasksOK'
      BY <2>1 DEF ModemTypeOK, TasksOK
    <3> QED
      BY <3>1, <3>2, <3>3 DEF ModemTypeOK
  <2> QED
    BY <2>1, <2>2 DEF Transmits, Heard
<1>2. CASE StartSend
  <2>1. /\ UNCHANGED <<rx, continuous, receiver, irq, loaded, now, due, got, stood, late>>
        /\ sender = "at" /\ timer' = Never
        /\ \/ mode' = "tx" /\ tx' = TRUE /\ sender' = "wait" /\ left' = FALSE
           \/ mode' \in {"tx", "standby"} /\ tx' = tx /\ sender' = "idle" /\ left' = TRUE
    BY <1>2 DEF StartSend, Start
  <2>2. ModemTypeOK'
    <3>1. DriverOK'
      BY <2>1 DEF ModemTypeOK, DriverOK
    <3>2. ChipOK'
      BY <2>1 DEF ModemTypeOK, ChipOK
    <3>3. TasksOK'
      BY <2>1 DEF ModemTypeOK, TasksOK
    <3> QED
      BY <3>1, <3>2, <3>3 DEF ModemTypeOK
  <2> QED
    BY <2>1, <2>2 DEF Transmits, Heard
<1>3. CASE SendCancelled \/ PrepareRaises
  <2>1. /\ UNCHANGED <<rx, continuous, tx, receiver, loaded, now, due, got, stood, late>>
        /\ sender' = "idle" /\ left' = TRUE
        /\ \/ UNCHANGED <<mode, irq, timer>>
           \/ mode' = "standby" /\ irq' = {} /\ timer' = Never
    BY <1>3 DEF SendCancelled, PrepareRaises, driver, chip
  <2>2. ModemTypeOK'
    <3>1. DriverOK'
      BY <2>1 DEF ModemTypeOK, DriverOK
    <3>2. ChipOK'
      BY <2>1 DEF ModemTypeOK, ChipOK
    <3>3. TasksOK'
      BY <2>1 DEF ModemTypeOK, TasksOK
    <3> QED
      BY <3>1, <3>2, <3>3 DEF ModemTypeOK
  <2> QED
    BY <2>1, <2>2 DEF Transmits, Heard
<1> QED
  BY <1>1, <1>2, <1>3

\* poll_send(): _check_recv() resumes the receive that the send suspended.
LEMMA PollSendLInv == ASSUME LInv, PollSend PROVE LInv'
<1> USE DEF LInv, Off, On, Never
<1>1. /\ UNCHANGED <<continuous, receiver, now, due, got, stood, late>>
      /\ sender = "wait" /\ sender' = "idle"
  BY DEF PollSend, driver
<1>2. CASE ~tx /\ UNCHANGED <<driver, chip, left>>
  <2>1. UNCHANGED <<rx, tx, mode, irq, loaded, timer, left>>
    BY <1>2 DEF driver, chip
  <2>2. ModemTypeOK'
    <3>1. DriverOK'
      BY <1>1, <2>1 DEF ModemTypeOK, DriverOK
    <3>2. ChipOK'
      BY <1>1, <2>1 DEF ModemTypeOK, ChipOK
    <3>3. TasksOK'
      BY <1>1, <2>1 DEF ModemTypeOK, TasksOK
    <3> QED
      BY <3>1, <3>2, <3>3 DEF ModemTypeOK
  <2> QED
    BY <1>1, <1>2, <2>1, <2>2 DEF Transmits, Heard, Listening
<1>3. CASE tx /\ "tx_done" \in irq /\ tx' = FALSE /\ CheckRecv(rx, {})
  <2>1. mode # "tx"
    BY <1>3 DEF Transmits
  <2>2. /\ rx' \in {Off, On} \cup 0..(Period - 1)
        /\ irq' = {} /\ loaded' \in {"rx", loaded} /\ left' \in {left, FALSE}
        /\ timer' \in Nat \cup {Never, Zeroed}
        /\ mode' \in {mode, "single", "continuous"}
        /\ Receiving(rx') => mode' \in {"single", "continuous", "tx"}
    BY <1>3, <2>1, CheckRecvHeard DEF ModemTypeOK, DriverOK
  <2>3. ModemTypeOK'
    <3>1. DriverOK'
      BY <1>1, <1>3, <2>2 DEF ModemTypeOK, DriverOK
    <3>2. ChipOK'
      BY <1>1, <1>3, <2>2 DEF ModemTypeOK, ChipOK
    <3>3. TasksOK'
      BY <1>1, <1>3, <2>2 DEF ModemTypeOK, TasksOK
    <3> QED
      BY <3>1, <3>2, <3>3 DEF ModemTypeOK
  <2> QED
    BY <1>1, <1>3, <2>1, <2>2, <2>3 DEF Transmits, Heard, Listening
<1> QED
  BY <1>2, <1>3 DEF PollSend

\* standby() stops all; the task in recv() ends its call.
LEMMA StopLInv == ASSUME LInv, PollRecvNone \/ RecvCancelled \/ Standby PROVE LInv'
<1> USE DEF LInv, Off, On, Never
<1>1. CASE PollRecvNone \/ RecvCancelled
  <2>1. /\ UNCHANGED <<rx, continuous, tx, sender, mode, irq, loaded, timer, now, due, stood, left, late>>
        /\ receiver' = "idle" /\ got' \in {"", "None"}
    BY <1>1 DEF PollRecvNone, RecvCancelled, driver, chip
  <2>2. ModemTypeOK'
    <3>1. DriverOK'
      BY <2>1 DEF ModemTypeOK, DriverOK
    <3>2. ChipOK'
      BY <2>1 DEF ModemTypeOK, ChipOK
    <3>3. TasksOK'
      BY <2>1 DEF ModemTypeOK, TasksOK
    <3> QED
      BY <3>1, <3>2, <3>3 DEF ModemTypeOK
  <2> QED
    BY <2>1, <2>2 DEF Transmits, Heard
<1>2. CASE Standby
  <2>1. ModemTypeOK'
    <3>1. DriverOK'
      BY <1>2 DEF Standby, ModemTypeOK, DriverOK
    <3>2. ChipOK'
      BY <1>2 DEF Standby, ModemTypeOK, ChipOK
    <3>3. TasksOK'
      BY <1>2 DEF Standby, ModemTypeOK, TasksOK
    <3> QED
      BY <3>1, <3>2, <3>3 DEF ModemTypeOK
  <2>2. ~Receiving(rx')
    BY <1>2 DEF Standby, Receiving
  <2> QED
    BY <1>2, <2>1, <2>2 DEF Standby, Transmits, Heard
<1> QED
  BY <1>1, <1>2

\* The chip raises a flag whenever it stops by itself.
LEMMA ChipLInv ==
  ASSUME LInv, ChipReceives \/ ChipTimeout \/ ChipSent \/ Tick \/ UNCHANGED modemVars
  PROVE  LInv'
<1> USE DEF LInv, Off, On, Never
<1>1. UNCHANGED <<rx, continuous, tx, receiver, sender, loaded, due, got, stood, left, late>>
  BY DEF ChipReceives, ChipTimeout, ChipSent, Tick, modemVars, driver, chip
<1>2. /\ irq \subseteq irq' /\ irq' \subseteq {"rx_done", "crc_err", "timeout", "tx_done"}
      /\ mode' \in {mode, "standby"} /\ timer' \in {timer, Never}
  BY DEF ChipReceives, ChipTimeout, ChipSent, Tick, modemVars, chip, ModemTypeOK, ChipOK
<1>3. /\ mode' # mode => irq' # {}
      /\ "tx_done" \in irq' => "tx_done" \in irq \/ (mode = "tx" /\ mode' = "standby")
  BY DEF ChipReceives, ChipTimeout, ChipSent, Tick, modemVars, chip
<1>4. ModemTypeOK'
  <2>1. DriverOK'
    BY <1>1 DEF ModemTypeOK, DriverOK
  <2>2. ChipOK'
    BY <1>1, <1>2 DEF ModemTypeOK, ChipOK
  <2>3. TasksOK'
    <3>1. now' = now \/ (now < MaxTime /\ now' = now + 1)
      BY DEF ChipReceives, ChipTimeout, ChipSent, Tick, modemVars
    <3>2. now \in 0..MaxTime
      BY DEF ModemTypeOK, TasksOK
    <3>3. now' \in 0..MaxTime
      BY <3>1, <3>2, MaxTimeType
    <3> QED
      BY <1>1, <3>3 DEF ModemTypeOK, TasksOK
  <2> QED
    BY <2>1, <2>2, <2>3 DEF ModemTypeOK
<1> QED
  BY <1>1, <1>2, <1>3, <1>4 DEF Transmits, Heard, Listening

\* The invariant holds of the program.
LEMMA SpecLInv == ModemSpec => []LInv
<1>1. LInv /\ [ModemNext]_modemVars => LInv'
  BY RecvLInv, PollRecvLInv, SendLInv, PollSendLInv, StopLInv, ChipLInv DEF ModemNext, ModemTasks
<1> QED
  BY InitLInv, <1>1, PTL DEF ModemSpec

\* "The receive will automatically resume once the modem finishes sending": with no send
\* in progress, a receive that is on is heard by the chip, or a flag waits for a poll.
THEOREM ReceiveResumed == ModemSpec => []Resumed
<1>1. LInv => Resumed
  BY DEF LInv, Transmits, Heard, Listening, Resumed
<1> QED
  BY SpecLInv, <1>1, PTL

\* "Send always has priority over receive": only standby(), or what starts next after a
\* send that was cancelled or raised, ends a transmission before the chip is done.
THEOREM SendsUndisturbed == ModemSpec => SendUndisturbed
<1>1. LInv /\ LInv' /\ [ModemNext]_modemVars =>
        [/\ mode = "tx" /\ mode' # "tx" => "tx_done" \in irq' \/ (stood' /\ ~tx') \/ left
         /\ mode' = "tx" => loaded' = "tx" \/ late']_modemVars
  <2> SUFFICES ASSUME LInv, LInv', ModemNext, mode = "tx", mode' # "tx"
               PROVE  "tx_done" \in irq' \/ (stood' /\ ~tx') \/ left
    BY DEF LInv, Transmits
  <2>1. "tx_done" \notin irq /\ (sender = "idle" => left) /\ sender # "at" /\ (~tx => left)
    BY DEF LInv, Transmits
  <2> QED
    BY <2>1 DEF ModemNext, ModemTasks, Recv, PollRecv, PollRecvNone, RecvCancelled, PrepareRaises, Send,
       SendAt, PrepareSend, StartSend, PollSend, SendCancelled, Standby, ChipReceives, ChipTimeout,
       ChipSent, Tick, chip, driver
<1> QED
  BY SpecLInv, <1>1, PTL DEF ModemSpec, SendUndisturbed

----------------------------------------------------------------------------
(* The deadline                                                            *)

\* A number is its quotient and its remainder.
LEMMA RemainderOf ==
  ASSUME NEW P \in Nat \ {0}, NEW c \in Nat
  PROVE  c = P * (c \div P) + (c % P)
OBVIOUS

\* A number has one remainder.
LEMMA OneRemainder ==
  ASSUME NEW P \in Nat \ {0}, NEW k \in Int, NEW x \in 0..(P - 1), NEW s \in Int, s = x + k * P
  PROVE  s % P = x
<1> DEFINE q == s \div P
           r == s % P
<1>1. q \in Int /\ r \in 0..(P - 1) /\ s = P * q + r
  OBVIOUS
<1> HIDE DEF q, r
<1> DEFINE e == q - k
<1>2. e \in Int /\ P * e = x - r
  BY <1>1
<1>3. CASE e >= 1
  <2>1. P * e >= P
    BY <1>2, <1>3
  <2> QED
    BY <1>1, <1>2, <2>1
<1>4. CASE e <= -1
  <2>1. P * e <= -P
    BY <1>2, <1>4
  <2> QED
    BY <1>1, <1>2, <2>1
<1>5. CASE e = 0
  <2>1. P * e = 0
    BY <1>5
  <2>2. x = r
    BY <1>1, <1>2, <2>1
  <2> QED
    BY <2>2 DEF r
<1> QED
  BY <1>2, <1>3, <1>4, <1>5

\* ticks_diff() of two readings is the time between them, if that is less than half a
\* period, whatever wraps there were.
LEMMA TicksDiffExact ==
  ASSUME NEW a \in Nat, NEW b \in Nat, a - b < Period \div 2, b - a < Period \div 2
  PROVE  ticks_diff(ticks_ms(a), ticks_ms(b)) = a - b
<1> DEFINE H == Period \div 2
           ka == a \div Period
           kb == b \div Period
<1>1. Period \in Nat \ {0} /\ H \in Nat /\ Period = 2 * H
  BY LoraAssumption
<1>2. ka \in Int /\ kb \in Int /\ a % Period \in Int /\ b % Period \in Int
  BY <1>1
<1>3. a = Period * ka + (a % Period) /\ b = Period * kb + (b % Period)
  BY <1>1, RemainderOf
<1> HIDE DEF ka, kb
<1> DEFINE k == kb - ka
           x == a - b + H
           s == (a % Period) - (b % Period) + H
<1>4. k \in Int /\ x \in Int /\ s \in Int
  BY <1>1, <1>2
<1>5. x \in 0..(Period - 1)
  BY <1>1, <1>4
<1>6. k * Period = Period * kb - Period * ka
  BY <1>1, <1>2
<1>7. s = x + k * Period
  <2> DEFINE pa == Period * ka
             pb == Period * kb
             ra == a % Period
             rb == b % Period
             kp == k * Period
  <2>1. pa \in Int /\ pb \in Int /\ ra \in Int /\ rb \in Int /\ kp = pb - pa
    BY <1>1, <1>2, <1>6
  <2>2. a = pa + ra /\ b = pb + rb
    BY <1>3
  <2> HIDE DEF pa, pb, ra, rb, kp, H
  <2>3. ra - rb + H = a - b + H + kp
    BY <1>1, <2>1, <2>2
  <2> QED
    BY <2>3 DEF ra, rb, kp
<1> HIDE DEF k, x, s, H
<1>8. s % Period = x
  BY <1>1, <1>4, <1>5, <1>7, OneRemainder
<1>9. ticks_diff(ticks_ms(a), ticks_ms(b)) = (s % Period) - H
  BY DEF ticks_diff, ticks_ms, s, H
<1> QED
  BY <1>1, <1>8, <1>9 DEF x

\* A receive that _check_recv() does not go on with has had its time.
LEMMA NotGoingIsPast ==
  ASSUME ModemTypeOK, Deadline, rx # Off, ~Goes(rx)
  PROVE  Past
<1> USE DEF Off, On, Never
<1>1. now \in Nat /\ due \in Nat \cup {Never} /\ rx \in {Off, On} \cup 0..(Period - 1)
  <2>1. now \in 0..MaxTime /\ due \in 0..MaxTime \cup {Never}
    BY DEF ModemTypeOK, TasksOK
  <2> QED
    BY <2>1, MaxTimeType DEF ModemTypeOK, DriverOK
<1>2. CASE ~Receiving(rx)
  BY <1>1, <1>2 DEF Receiving, Deadline, Past
<1>3. CASE Receiving(rx)
  <2>1. rx >= 0 /\ Left(rx) <= 0
    BY <1>3 DEF Goes, Expired
  <2>2. due \in Nat /\ rx = ticks_ms(due) /\ Left(rx) = due - now
    BY <1>1, <2>1, TicksDiffExact DEF Deadline, Left
  <2> QED
    BY <1>1, <2>1, <2>2 DEF Past
<1> QED
  BY <1>2, <1>3

\* With no deadline a receive goes on.
LEMMA ContinuousGoes ==
  ASSUME ModemTypeOK, Deadline, continuous, rx # Off
  PROVE  rx = On /\ Goes(rx)
<1>1. rx = On
  BY LoraAssumption DEF ModemTypeOK, DriverOK, Deadline
<1> QED
  BY <1>1 DEF On, Off, Receiving, Goes, Expired

\* _check_recv() keeps what it was given, or sets it off.
LEMMA CheckRecvKeeps ==
  ASSUME NEW r, NEW flags, CheckRecv(r, flags)
  PROVE  rx' = IF Receiving(r) /\ ~Goes(r) THEN Off ELSE r
BY DEF CheckRecv, Goes

\* Off is no deadline.
LEMMA OffNegative == ~(Off >= 0) /\ Off < 0
BY DEF Off

\* At first there is no deadline.
LEMMA InitDeadline == ModemInit => Deadline
<1> SUFFICES ASSUME ModemInit PROVE Deadline
  OBVIOUS
<1>1. rx = Off /\ ~continuous /\ receiver # "wait"
  BY DEF ModemInit
<1> QED
  BY <1>1 DEF Deadline, Off

\* recv() sets its deadline less than half a period ahead.
LEMMA RecvDeadline ==
  ASSUME LInv, NEW timeout \in Timeout \cup {Never}, NEW cont \in BOOLEAN, Recv(timeout, cont)
  PROVE  Deadline'
<1> USE DEF Off, On, Never
<1>1. now' = now /\ now \in Nat
  <2>1. now \in 0..MaxTime
    BY DEF LInv, ModemTypeOK, TasksOK
  <2>2. now' = now
    BY DEF Recv
  <2> QED
    BY <2>1, <2>2, MaxTimeType
<1>2. continuous' = cont
  BY DEF Recv
<1>3. CASE timeout = Never
  <2>1. rx' = On
    BY <1>3 DEF Recv
  <2> QED
    BY <2>1 DEF Deadline
<1>4. CASE timeout # Never
  <2>1. timeout \in 0..(Period \div 2 - 1) /\ Period \div 2 \in Nat
    BY <1>4, LoraAssumption
  <2>2. rx' = ticks_ms(now + timeout) /\ due' = now + timeout /\ ~cont
    BY <1>4 DEF Recv
  <2>3. now + timeout \in Nat
    BY <1>1, <2>1
  <2>4. rx' \in 0..(Period - 1) /\ due' # Never
    BY <2>2, <2>3, TicksType
  <2>5. due' - now' < Period \div 2 /\ now' - due' < Period \div 2
    BY <1>1, <2>1, <2>2
  <2>6. rx' = ticks_ms(due')
    BY <2>2
  <2>7. rx' >= 0 /\ rx' # Off /\ ~continuous'
    BY <1>2, <2>2, <2>4, LoraAssumption
  <2> QED
    BY <2>4, <2>5, <2>6, <2>7 DEF Deadline, ticks_ms
<1> QED
  BY <1>3, <1>4

\* A poll sets a receive off after a packet, and then the task returns; or in its time.
LEMMA PollRecvDeadline ==
  ASSUME LInv, Deadline, NEW result \in {"", "packet", "empty"}, NEW crc \in BOOLEAN,
         PollRecv(result, crc)
  PROVE  Deadline'
<1> USE DEF LInv
<1> DEFINE r == IF Complete /\ (Success \/ crc) /\ ~continuous THEN Off ELSE rx
           flags == IF Complete THEN {} ELSE irq
<1>1. UNCHANGED <<continuous, now, due, stood>> /\ rx # Off /\ CheckRecv(r, flags)
  BY DEF PollRecv
<1>2. rx' = IF Receiving(r) /\ ~Goes(r) THEN Off ELSE r
  <2> HIDE DEF r, flags
  <2> QED
    BY <1>1, CheckRecvKeeps
<1>3. rx' \in {rx, Off}
  BY <1>2
<1>4. ASSUME receiver' = "wait", rx' = Off
      PROVE  Past
  <2>1. CASE r = Off
    <3>1. Complete /\ (Success \/ crc) /\ ~continuous
      BY <1>1, <2>1
    <3>2. receiver' = "idle"
      BY <2>1, <3>1 DEF PollRecv, Goes, Receiving
    <3> QED
      BY <1>4, <3>2
  <2>2. CASE r # Off
    <3>1. r = rx
      BY <2>2
    <3>2. ~Goes(rx)
      BY <1>1, <1>2, <1>4, <3>1
    <3> QED
      BY <1>1, <3>2, NotGoingIsPast
  <2> QED
    BY <2>1, <2>2
<1>5. Past => Past'
  BY <1>1 DEF Past, ticks_ms
<1> HIDE DEF r, flags
<1>6. rx' = rx \/ (rx' = Off /\ ~(Off >= 0) /\ Off < 0)
  BY <1>3, OffNegative
<1>7. continuous' => rx' < 0
  <2>1. continuous => rx < 0
    BY DEF Deadline
  <2> QED
    BY <1>6, <1>1, <2>1
<1>8. receiver' = "wait" /\ rx' = Off => stood' \/ Past'
  BY <1>1, <1>4, <1>5
<1>9. rx' >= 0 => rx' = rx
  BY <1>6
<1> QED
  BY <1>1, <1>7, <1>8, <1>9 DEF Deadline, ticks_ms

\* The other steps keep the deadline, or set the receive off; poll_send() only in its time.
LEMMA OthersDeadline ==
  ASSUME LInv, Deadline,
         \/ PollRecvNone \/ RecvCancelled \/ PrepareRaises \/ Send \/ SendAt \/ StartSend \/ PollSend
         \/ SendCancelled \/ Standby \/ ChipReceives \/ ChipTimeout \/ ChipSent
         \/ UNCHANGED modemVars
  PROVE  Deadline'
<1> USE DEF LInv
<1>1. UNCHANGED <<continuous, now, due>> /\ receiver' \in {receiver, "idle"}
  BY DEF PollRecvNone, RecvCancelled, PrepareRaises, Send, SendAt, PrepareSend, StartSend,
     PollSend, SendCancelled, Standby, ChipReceives, ChipTimeout, ChipSent, modemVars, driver, chip
<1>2. stood => stood'
  BY DEF PollRecvNone, RecvCancelled, PrepareRaises, Send, SendAt, StartSend, PollSend,
     SendCancelled, Standby, ChipReceives, ChipTimeout, ChipSent, modemVars
<1>3. rx' = rx \/ (rx' = Off /\ (stood' \/ Past))
  <2>1. CASE PollSend
    <3>1. CASE UNCHANGED driver
      BY <3>1 DEF driver
    <3>2. CASE CheckRecv(rx, {})
      <4>1. rx' = IF Receiving(rx) /\ ~Goes(rx) THEN Off ELSE rx
        BY <3>2, CheckRecvKeeps
      <4> QED
        BY <4>1, NotGoingIsPast
    <3> QED
      BY <2>1, <3>1, <3>2 DEF PollSend
  <2>2. CASE Standby
    BY <2>2 DEF Standby
  <2>3. CASE ~PollSend /\ ~Standby
    BY <2>3 DEF PollRecvNone, RecvCancelled, PrepareRaises, Send, SendAt, PrepareSend, StartSend,
       SendCancelled, ChipReceives, ChipTimeout, ChipSent, modemVars, driver, chip
  <2> QED
    BY <2>1, <2>2, <2>3
<1>4. Past => Past'
  BY <1>1 DEF Past, ticks_ms
<1>5. continuous' => rx' < 0
  BY <1>1, <1>3 DEF Deadline, Off
<1>6. receiver' = "wait" /\ rx' = Off => stood' \/ Past'
  BY <1>2, <1>1, <1>3, <1>4 DEF Deadline
<1>7. rx' >= 0 => rx' = rx
  BY <1>3 DEF Off
<1> QED
  BY <1>1, <1>5, <1>6, <1>7 DEF Deadline, ticks_ms

\* Time goes on, no further than half a period past a deadline.
LEMMA TickDeadline == ASSUME LInv, Deadline, Tick PROVE Deadline'
<1> USE DEF LInv
<1>1. /\ UNCHANGED <<rx, continuous, receiver, due, stood>> /\ now' = now + 1
      /\ rx >= 0 => now + 1 < due + Period \div 2
  BY DEF Tick, driver
<1>2. now \in Nat /\ due \in Nat \cup {Never} /\ Period \div 2 \in Nat
  <2>1. now \in 0..MaxTime /\ due \in 0..MaxTime \cup {Never}
    BY DEF ModemTypeOK, TasksOK
  <2> QED
    BY <2>1, MaxTimeType, LoraAssumption
<1>3. Past => Past'
  BY <1>1, <1>2 DEF Past, ticks_ms
<1>4. ASSUME rx >= 0
      PROVE  due' - now' < Period \div 2 /\ now' - due' < Period \div 2
  BY <1>1, <1>2, <1>4 DEF Deadline
<1>5. ticks_ms(due') = ticks_ms(due)
  BY <1>1
<1> QED
  BY <1>1, <1>3, <1>4, <1>5 DEF Deadline, ticks_ms

\* recv() "returns None on timeout", and only then: but for standby(), a deadline that
\* falls on 0 ticks, and an empty packet, which it returns as None at any time.  So it is
\* however often a send suspended it or raised, and for every period.
THEOREM RecvGivesUpInTime == ModemSpec => GivesUpInTime
<1>1. LInv /\ Deadline /\ [ModemNext]_modemVars => Deadline'
  BY RecvDeadline, PollRecvDeadline, OthersDeadline, TickDeadline DEF ModemNext, ModemTasks
<1>2. LInv /\ Deadline /\ [ModemNext]_modemVars =>
        [ReturnedNone(got') /\ ~ReturnedNone(got) =>
           \/ due # Never /\ now >= due
           \/ stood \/ (due # Never /\ ticks_ms(due) = 0) \/ got' = "empty"]_modemVars
  <2> SUFFICES ASSUME LInv, Deadline, ModemNext, got' = "None", got # "None"
               PROVE  stood \/ Past
    BY DEF Past, ReturnedNone
  <2> USE DEF LInv
  <2>1. \/ PollRecvNone
        \/ \E result \in {"", "packet", "empty"}, crc \in BOOLEAN : PollRecv(result, crc)
    BY DEF ModemNext, ModemTasks, Recv, RecvCancelled, PrepareRaises, Send, SendAt, PrepareSend,
       StartSend, PollSend, SendCancelled, Standby, ChipReceives, ChipTimeout, ChipSent, Tick
  <2>2. CASE PollRecvNone
    BY <2>2 DEF PollRecvNone, Deadline
  <2>3. ASSUME NEW result \in {"", "packet", "empty"}, NEW crc \in BOOLEAN, PollRecv(result, crc)
        PROVE  Past
    <3>1. rx # Off /\ result = "" /\ receiver' # "wait"
      BY <2>3 DEF PollRecv
    <3>2. ~Goes(rx)
      BY <2>3, <3>1 DEF PollRecv
    <3> QED
      BY <3>1, <3>2, NotGoingIsPast
  <2> QED
    BY <2>1, <2>2, <2>3
<1>3. ModemSpec => [](LInv /\ Deadline)
  <2>1. ModemSpec => []Deadline
    BY <1>1, SpecLInv, InitDeadline, PTL DEF ModemSpec
  <2> QED
    BY <2>1, SpecLInv, PTL
<1> QED
  BY <1>2, <1>3, PTL DEF ModemSpec, GivesUpInTime
=============================================================================
