--------------------------- MODULE AioConnection ---------------------------
(***************************************************************************)
(* The life of aioble's connections (aioble/device.py, central.py,         *)
(* peripheral.py): tasks that connect, advertise, wait for a disconnection *)
(* and make requests, each with a timeout; the device_task that cleans up; *)
(* and the interrupts of the controller, which come between any two steps  *)
(* of the tasks and give a handle out again once its link is down.         *)
(***************************************************************************)
EXTENDS Integers, FiniteSets

CONSTANTS
  Device,    \* the Device objects that the program connects
  Twins,     \* those that are equal: they have one address
  Handle,    \* connection handles of the controller
  MaxConn    \* bound: DeviceConnection objects made

NoHandle == "None"

ASSUME ConnectionAssumption ==
  MaxConn \in Nat /\ NoHandle \notin Handle /\ Twins \subseteq Device

Conn == 1..MaxConn
NoConn == 0
Stray == -1        \* a link up that no object stands for

VARIABLES
  handle,      \* DeviceConnection._conn_handle
  event,       \* ._event, which connecting and disconnecting set
  task,        \* ._task, "none" before _run_task()
  timeouts,    \* ._timeouts: the task of a request, "none", "wait" or "cancelled"
  connected,   \* DeviceConnection._connected
  connection,  \* Device._connection
  connecting,  \* central.py: _connecting
  cancelling,  \* the devices whose _connect() waits for a scan to be cancelled
  pc,          \* per device: no task, or one in connect() with object pc
  advertiser,  \* peripheral.py: a task is in advertise()
  incoming,    \* _incoming_connection
  connect_event,  \* _connect_event
  up,          \* controller: the object whose link has the handle
  trying,      \* controller: gap_connect() goes on for a device
  advertising, \* controller: advertising
  made,        \* the number of objects
  early,       \* history: disconnected between the interrupt and connect()'s going on
  overtaken    \* history: got a handle that another object still had, or was that object

object == <<handle, event, task, timeouts>>
central == <<connection, connecting, cancelling, pc>>
peripheral == <<advertiser, incoming, connect_event>>
controller == <<up, trying, advertising>>
hist == <<early, overtaken>>
vars == <<object, connected, central, peripheral, controller, made, hist>>

Init ==
  /\ handle = [c \in Conn |-> NoHandle] /\ event = [c \in Conn |-> FALSE]
  /\ task = [c \in Conn |-> "none"] /\ timeouts = [c \in Conn |-> "none"]
  /\ connected = [h \in Handle |-> NoConn] /\ connection = [d \in Device |-> NoConn]
  /\ connecting = {} /\ cancelling = {} /\ pc = [d \in Device |-> NoConn]
  /\ advertiser = FALSE /\ incoming = NoConn /\ connect_event = FALSE
  /\ up = [h \in Handle |-> NoConn] /\ trying = {} /\ advertising = FALSE
  /\ made = 0 /\ early = {} /\ overtaken = {}

----------------------------------------------------------------------------
(* The central: Device.connect() and _connect()                            *)

\* Device.__eq__(): what the set _connecting, and the controller, tell apart.
Equal(d) == IF d \in Twins THEN Twins ELSE {d}
Joined(S, d) == IF S \cap Equal(d) = {} THEN S \cup {d} ELSE S

Linked(d) == \E e \in Equal(d), h \in Handle : up[h] \in Conn /\ up[h] = connection[e]

\* The device joins _connecting; gap_connect() may raise, and does if there is a link.
GapConnect(d, c) ==
  \/ /\ ~Linked(d)
     /\ connecting' = Joined(connecting, d) /\ trying' = Joined(trying, d)
     /\ pc' = [pc EXCEPT ![d] = c]
  \/ /\ connecting' = connecting \ Equal(d)
     /\ pc' = [pc EXCEPT ![d] = NoConn]
     /\ UNCHANGED trying

\* A device that has an object is given that one, connected or not.  Otherwise a new
\* object: returned as it is, its device_task to fail at once, if an equal device is
\* connecting; a scan that is active is cancelled first.
Connect(d) ==
  LET c == made + 1
      ahead == connecting \cap Equal(d) # {}
  IN
  /\ pc[d] = NoConn /\ connection[d] = NoConn /\ made < MaxConn
  /\ made' = c /\ connection' = [connection EXCEPT ![d] = c]
  /\ \/ /\ ahead
        /\ task' = [task EXCEPT ![c] = "failed"]
        /\ UNCHANGED <<connecting, cancelling, trying, pc>>
     \/ /\ ~ahead /\ GapConnect(d, c) /\ UNCHANGED <<task, cancelling>>
     \/ /\ ~ahead
        /\ cancelling' = cancelling \cup {d} /\ pc' = [pc EXCEPT ![d] = c]
        /\ UNCHANGED <<task, connecting, trying>>
  /\ UNCHANGED <<handle, event, timeouts, connected, peripheral, up, advertising, hist>>

\* _cancel_pending() has returned.
ScanCancelled(d) ==
  /\ d \in cancelling
  /\ cancelling' = cancelling \ {d}
  /\ GapConnect(d, pc[d])
  /\ UNCHANGED <<object, connected, connection, peripheral, up, advertising, made, hist>>

\* The wait is over: register the handle, start the device_task; but remove() raises
\* KeyError if the call for an equal device has ended before.
Started(d, c) ==
  /\ connecting' = connecting \ Equal(d) /\ pc' = [pc EXCEPT ![d] = NoConn]
  /\ task' = IF connecting \cap Equal(d) = {} THEN task ELSE [task EXCEPT ![c] = "wait"]

Connected_Uncleared(d) ==
  LET c == pc[d] IN
  /\ c # NoConn /\ event[c]
  /\ connected' = [connected EXCEPT ![handle[c]] = c]
  /\ Started(d, c)
  /\ UNCHANGED <<handle, event, timeouts, connection, cancelling, peripheral, controller,
                 made, hist>>
Connected(d) ==
  LET c == pc[d] IN
  /\ c # NoConn /\ event[c]
  /\ event' = [event EXCEPT ![c] = FALSE]
  /\ connected' = [connected EXCEPT ![handle[c]] = c]
  /\ Started(d, c)
  /\ UNCHANGED <<handle, timeouts, connection, cancelling, peripheral, controller,
                 made, hist>>

\* The timeout cancels the wait: the controller goes on trying, Device._connection
\* is kept.
ConnectTimeout(d) ==
  /\ pc[d] # NoConn /\ d \notin cancelling
  /\ connecting' = connecting \ Equal(d) /\ pc' = [pc EXCEPT ![d] = NoConn]
  /\ UNCHANGED <<object, connected, connection, cancelling, peripheral, controller, made, hist>>

\* A new link: its handle may be one that the task of another object has yet to
\* register, or to delete.
Overtakes(c, h) ==
  LET had == {o \in Conn \ {c} : handle[o] = h /\ task[o] \in {"none", "wait"}} IN
  overtaken' = IF had = {} THEN overtaken ELSE overtaken \cup had \cup {c}

\* _central_irq(), _IRQ_PERIPHERAL_CONNECT: only a device still waited for, or its equal.
PeripheralConnect(d, h) ==
  /\ d \in trying /\ up[h] = NoConn
  /\ trying' = trying \ {d}
  /\ \/ \E e \in connecting \cap Equal(d) :
          LET c == connection[e] IN
          /\ up' = [up EXCEPT ![h] = c]
          /\ handle' = [handle EXCEPT ![c] = h] /\ event' = [event EXCEPT ![c] = TRUE]
          /\ Overtakes(c, h)
     \/ /\ connecting \cap Equal(d) = {}
        /\ up' = [up EXCEPT ![h] = Stray] /\ UNCHANGED <<handle, event, overtaken>>
  /\ UNCHANGED <<task, timeouts, connected, central, peripheral,
                 advertising, made, early>>

----------------------------------------------------------------------------
(* The peripheral: advertise()                                             *)

Advertise ==
  /\ ~advertiser
  /\ advertiser' = TRUE /\ advertising' = TRUE
  /\ UNCHANGED <<object, connected, central, incoming, connect_event, up, trying, made, hist>>

AdvertiseReturns ==
  /\ advertiser /\ connect_event
  /\ advertiser' = FALSE /\ connect_event' = FALSE /\ incoming' = NoConn
  /\ task' = [task EXCEPT ![incoming] = "wait"]
  /\ UNCHANGED <<handle, event, timeouts, connected, central, controller,
                 made, hist>>

\* Timed out or cancelled, even with the event set: gap_advertise(None).
AdvertiseTimeout ==
  /\ advertiser
  /\ advertiser' = FALSE /\ advertising' = FALSE
  /\ UNCHANGED <<object, connected, central, incoming, connect_event, up, trying, made, hist>>

\* _peripheral_irq(), _IRQ_CENTRAL_CONNECT: the object is made and registered in the
\* interrupt.  The controller stops advertising.
CentralConnect_Unregistered(h) ==
  /\ advertising /\ up[h] = NoConn /\ made < MaxConn
  /\ LET c == made + 1 IN
     /\ made' = c /\ incoming' = c /\ connect_event' = TRUE
     /\ handle' = [handle EXCEPT ![c] = h]
     /\ up' = [up EXCEPT ![h] = c] /\ advertising' = FALSE
     /\ Overtakes(c, h)
  /\ UNCHANGED <<event, task, timeouts, connected, central, advertiser,
                 trying, early>>
CentralConnect(h) ==
  /\ advertising /\ up[h] = NoConn /\ made < MaxConn
  /\ LET c == made + 1 IN
     /\ made' = c /\ incoming' = c /\ connect_event' = TRUE
     /\ handle' = [handle EXCEPT ![c] = h] /\ connected' = [connected EXCEPT ![h] = c]
     /\ up' = [up EXCEPT ![h] = c] /\ advertising' = FALSE
     /\ Overtakes(c, h)
  /\ UNCHANGED <<event, task, timeouts, central, advertiser, trying, early>>

----------------------------------------------------------------------------
(* Both: disconnection                                                     *)

\* _IRQ_PERIPHERAL_DISCONNECT, _IRQ_CENTRAL_DISCONNECT: by whatever cause, also after
\* gap_disconnect().
Disconnect(h) ==
  /\ up[h] # NoConn
  /\ up' = [up EXCEPT ![h] = NoConn]
  /\ event' = IF connected[h] # NoConn THEN [event EXCEPT ![connected[h]] = TRUE] ELSE event
  /\ early' = IF \E d \in Device : pc[d] # NoConn /\ pc[d] = up[h] THEN early \cup {up[h]}
              ELSE early
  /\ UNCHANGED <<handle, task, timeouts, connected, central, peripheral,
                 trying, advertising, made, overtaken>>

\* device_task(): clean up and cancel the requests.  The deletion raises KeyError if
\* the entry of the handle has gone with another's.
DeviceTask_Uncancelled(c) ==
  /\ task[c] = "wait" /\ event[c]
  /\ event' = [event EXCEPT ![c] = FALSE]
  /\ task' = [task EXCEPT ![c] = "done"]
  /\ connected' = [connected EXCEPT ![handle[c]] = NoConn]
  /\ handle' = [handle EXCEPT ![c] = NoHandle]
  /\ connection' = [d \in Device |-> IF connection[d] = c THEN NoConn ELSE connection[d]]
  /\ UNCHANGED <<timeouts, connecting, cancelling, pc, peripheral, controller, made, hist>>
DeviceTask(c) ==
  /\ task[c] = "wait" /\ event[c]
  /\ event' = [event EXCEPT ![c] = FALSE]
  /\ IF connected[handle[c]] = NoConn
     THEN /\ task' = [task EXCEPT ![c] = "failed"]
          /\ UNCHANGED <<handle, timeouts, connected, connection>>
     ELSE /\ task' = [task EXCEPT ![c] = "done"]
          /\ connected' = [connected EXCEPT ![handle[c]] = NoConn]
          /\ handle' = [handle EXCEPT ![c] = NoHandle]
          /\ connection' = [d \in Device |-> IF connection[d] = c THEN NoConn ELSE connection[d]]
          /\ timeouts' = [timeouts EXCEPT ![c] = IF @ = "none" THEN @ ELSE "cancelled"]
  /\ UNCHANGED <<connecting, cancelling, pc, peripheral, controller, made, hist>>

\* disconnected() waits for the device_task, and returns with it.  Its timeout, at any
\* time after the call, cancels what it waits for: asyncio passes a cancellation on to
\* the task awaited.
DisconnectedTimeout(c) ==
  /\ handle[c] # NoHandle /\ task[c] = "wait"
  /\ task' = [task EXCEPT ![c] = "cancelled"]
  /\ UNCHANGED <<handle, event, timeouts, connected, central, peripheral, controller, made,
                 hist>>

----------------------------------------------------------------------------
(* A request: exchange_mtu(), and whatever else runs with                  *)
(* connection.timeout() around its wait                                    *)

Request(c) ==
  /\ handle[c] # NoHandle /\ task[c] # "none" /\ timeouts[c] = "none"
  /\ timeouts' = [timeouts EXCEPT ![c] = "wait"]
  /\ UNCHANGED <<handle, event, task, connected, central, peripheral, controller, made, hist>>

\* The timeout task cancels the request, which may have been given no timeout.
TimeoutSleep(c) ==
  /\ timeouts[c] # "none"
  /\ timeouts' = [timeouts EXCEPT ![c] = "cancelled"]
  /\ UNCHANGED <<handle, event, task, connected, central, peripheral, controller, made, hist>>

\* It ends with the answer, while the link is up, or with the exception that
\* __exit__() makes of the cancellation.
RequestEnds(c) ==
  /\ timeouts[c] = "cancelled"
  /\ timeouts' = [timeouts EXCEPT ![c] = "none"]
  /\ UNCHANGED <<handle, event, task, connected, central, peripheral, controller, made, hist>>

Answered(c) ==
  /\ timeouts[c] = "wait" /\ \E h \in Handle : up[h] = c
  /\ timeouts' = [timeouts EXCEPT ![c] = "none"]
  /\ UNCHANGED <<handle, event, task, connected, central, peripheral, controller,
                 made, hist>>

----------------------------------------------------------------------------
Irq ==
  \E h \in Handle :
    CentralConnect(h) \/ Disconnect(h) \/ \E d \in Device : PeripheralConnect(d, h)

Tasks ==
  \/ \E d \in Device :
       Connect(d) \/ ScanCancelled(d) \/ Connected(d) \/ ConnectTimeout(d)
  \/ Advertise \/ AdvertiseReturns \/ AdvertiseTimeout
  \/ \E c \in Conn :
       \/ DeviceTask(c) \/ DisconnectedTimeout(c)
       \/ Request(c) \/ TimeoutSleep(c) \/ RequestEnds(c) \/ Answered(c)

Next == Irq \/ Tasks

\* The event loop runs every task that is ready.
Spec ==
  /\ Init /\ [][Next]_vars
  /\ \A d \in Device : WF_vars(Connected(d))
  /\ \A c \in Conn : WF_vars(DeviceTask(c)) /\ WF_vars(RequestEnds(c))

----------------------------------------------------------------------------
(* Properties.                                                             *)

TypeOK ==
  /\ handle \in [Conn -> Handle \cup {NoHandle}] /\ event \in [Conn -> BOOLEAN]
  /\ task \in [Conn -> {"none", "wait", "done", "failed", "cancelled"}]
  /\ timeouts \in [Conn -> {"none", "wait", "cancelled"}]
  /\ connected \in [Handle -> Conn \cup {NoConn}]
  /\ connection \in [Device -> Conn \cup {NoConn}]
  /\ connecting \in SUBSET Device /\ cancelling \in SUBSET Device
  /\ pc \in [Device -> Conn \cup {NoConn}]
  /\ advertiser \in BOOLEAN /\ incoming \in Conn \cup {NoConn} /\ connect_event \in BOOLEAN
  /\ up \in [Handle -> Conn \cup {NoConn, Stray}]
  /\ trying \in SUBSET Device /\ advertising \in BOOLEAN
  /\ made \in 0..MaxConn /\ early \in SUBSET Conn /\ overtaken \in SUBSET Conn

\* An interrupt finds the object of a link; the device_task of one without is told.
Found(c) == IF \E h \in Handle : up[h] = c THEN connected[handle[c]] = c ELSE event[c]

\* "Global map of connection handle to active devices (for IRQ mapping)": it has every
\* connection that the program was given and that has not ended, but for one that was
\* disconnected before connect() went on, and for a handle given out again before the
\* object that had it let it go.
Registered ==
  /\ TypeOK
  /\ \A c \in Conn : task[c] = "wait" /\ c \notin early \cup overtaken => Found(c)

\* A connection is closed, and its requests are cancelled, only when the link is down:
\* no interrupt meant for another, and none of its own connecting, ends it.
DownMeansDown ==
  \A h \in Handle : up[h] \in Conn => handle[up[h]] = h

\* "Cancel any in-progress operations on this device": after a disconnection
\* is_connected() is False and no request waits, unless disconnected() timed out.
Down(c) == task[c] = "wait" /\ \A h \in Handle : up[h] # c

CleansUp ==
  \A c \in Conn :
    (Down(c) /\ c \notin early)
      ~> (\/ handle[c] = NoHandle /\ timeouts[c] = "none"
          \/ task[c] = "cancelled" \/ c \in overtaken)
============================================================================
