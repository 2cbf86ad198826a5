# TLA+ models of micropython-lib

The repository is a collection of packages for MicroPython. Most of them are ports of
pure functions or thin drivers; a few keep state that threads, interrupts, callbacks, tasks
and a remote party change at the same time, and those are what this directory is about:

- the runtime **USB** device stack (`micropython/usb`): application threads call it,
  TinyUSB's callbacks cut in between any two bytecodes of a thread, and a host that may
  reset the bus at any moment is at the other end;
- the **threads** of the standard library (`python-stdlib/threading`, `queue`,
  `concurrent.futures`): queues on shared events, a pool of workers with futures;
- **aioble** (`micropython/bluetooth`): tasks that wait for what interrupts report about
  connections;
- the **LoRa** modems (`micropython/lora`): one half-duplex chip shared by a task that
  receives and a task that sends.

Contents: [inventory](#inventory) · [modules](#modules-and-the-code-they-model) ·
[conventions](#conventions) · [runs](#runs) · [bounds](#why-the-bounds-are-enough) ·
[fairness](#fairness) · [assumptions](#assumptions) · [proofs](#proofs) ·
[findings](#findings-and-observations) · [not modelled](#what-is-not-modelled-and-why) ·
[plan](#plan)

## Inventory

### USB: `Buffer` (`usb-device/usb/device/core.py`) — modelled

- *State*: a bytearray `_b`, the count `_n` of valid bytes at its start, the index `_w` at
  which a pended write begins.
- *Operations*: `pend_write`/`finish_write` (producer), `pend_read`/`finish_read`
  (consumer), and `write`/`readinto` built on them. Producer and consumer are on different
  sides of an interrupt. `finish_write` and `finish_read` move bytes inside the array with
  interrupts off; the rest runs with interrupts on.
- *Hard*: `finish_read` of one party shuffles the bytes that the other is appending to;
  `finish_write` moves its bytes next to those the other is removing; a view is read by the
  controller long after it was taken; source and target of the byte loops overlap.
- *Correct when*: the bytes come out in the order they went in, none lost or repeated; a
  view does not change under its reader; the asserts hold.

### USB: transfers (`_Device._submit_xfer`, `_xfer_pending`, `_xfer_cb`, `_reset_cb`, `_open_itf_cb`) — modelled, without `stall()`

- *State*: `_eps` (endpoint to interface), `_ep_cbs` (endpoint to the callback of its
  transfer), `_cb_thread` and `_cb_ep` (which completion callback is running, and where).
- *Operations*: submit, ask whether pending; completion, reset and opening by callbacks.
- *Interactions*: class drivers call `submit_xfer()` from threads and from their completion
  callbacks; the controller (`machine.USBDevice`) takes or refuses a transfer and calls back.
- *Hard*: check-then-act over two fields without a lock, against callbacks on another
  thread; refused transfers; a reset between a check and its use.
- *Correct when*: at most one transfer is in flight per endpoint, every one calls its own
  callback, and "pending" is what the controller says it is.

### USB: configuration and control dispatch (`_Device.config`, `active`, `_open_itf_cb`, `_control_xfer_cb`, and the drivers' `desc_cfg`) — modelled, without the bytes

- *State*: `_itfs`, `_eps`, the descriptor, each interface object's `_open` and the numbers
  it saved, `protocol` of a HID object.
- *Hard*: `desc_cfg()` runs twice and must be idempotent; objects with several interfaces
  must be opened once, after their last interface; numbers given in one place are used in
  another; the program reconfigures, the host resets and enumerates at any time.

### USB: CDC, MIDI, HID with keyboard and mouse — modelled, without the control requests

- *CDC* (`cdc.py`): two `Buffer`s, an IN and an OUT endpoint. `write()`, `read()` and
  `flush()` loop over copying, starting transfers and waiting in `machine.idle()`, up to a
  timeout; `_wr_cb` and `_rd_cb` finish the buffers and start the next transfer. *Correct
  when* no byte is lost in either direction, neither direction stalls, and calls come back.
- *MIDI* (`midi.py`): two `Buffer`s of 4-byte events; received events are handed to the
  program by `_on_rx()`, which `micropython.schedule()` runs later. *Hard*: the queue of
  scheduled functions is small and shared with the rest of the program.
- *HID* (`hid.py`, `keyboard.py`, `mouse.py`): `send_report()` waits with or without a
  deadline; the keyboard has two report buffers and swaps them if the send succeeded, the
  mouse one. *Correct when* the buffer the controller reads is never rewritten and the
  result of the call is what happened to the report.

### `threading` and `queue` (`python-stdlib`) — queue modelled, threading as queue uses it

- *State of threading*: `Condition` keeps a list of waiters, each a lock of its own; `Event`
  a flag, `Semaphore` a value under such a condition.
- *State of queue*: a deque, `_unfinished_tasks`, three `Event`s that all waiters share;
  `SimpleQueue` a deque and a `Semaphore`.
- *Operations*: `get` and `put`, blocking, with a timeout or not at all; `join`,
  `task_done`.
- *Hard*: an event set for one waiter and cleared by another; `wait()` called without the
  mutex; a notification spent on a waiter that is giving up; an item put while a timed
  `get()` gives up; a semaphore counted apart from the deque.
- *Correct when*: no item is lost, repeated or out of order, nobody sleeps beside what it
  waits for, `join()` returns with the last `task_done()`.
- `Barrier`, `Timer`, `Thread` and `BoundedSemaphore` of threading are not modelled.

### `concurrent.futures` (`python-stdlib`) — modelled, without the loops over results

- *State*: per future `_state`, `_done_callbacks` and the waiters of `_condition`; of the
  pool `_work_queue`, `_threads`, `_shutdown`, `_queue_condition`.
- *Hard*: cancel against run; callbacks called without the lock, added and removed
  meanwhile; a shutdown whose flag is under one lock and whose notification is under another;
  workers that die of an initializer or of an exception.
- *Correct when*: a future is cancelled or its function runs, once; callbacks are called
  once; the pool keeps its bound; shutdown and results come back.

### `aioble` (`micropython/bluetooth`) — the life of a connection is modelled

- *State*: tables of the module (`_connected`, `_connecting`, `_incoming_connection`), and
  per connection `_conn_handle`, `_event`, `_task`, `_timeouts`.
- *Interactions*: one IRQ handler hands the events of `bluetooth.BLE` to the modules; tasks
  wait for `asyncio.ThreadSafeFlag`s.
- *Hard*: an interrupt before the object is registered or after its task timed out; the
  controller gives a handle out again before the object that had it was cleaned up; requests
  in flight at a disconnection.
- *Correct when*: an interrupt reaches the object it is about, and after a disconnection
  everything is cleaned up and every request is cancelled.
- Scanning, discovery, characteristics, pairing, L2CAP: not modelled.

### LoRa modems (`micropython/lora`) — base class, SX126x and the asynchronous wrapper

- *State*: `_rx` (off, on, or a deadline in ticks), `_rx_continuous`, `_tx`; the chip's mode,
  its interrupt flags, what it is set up for.
- *Hard*: a send suspends a receive, and the next poll of whichever task resumes it with what
  is left of its deadline; the deadline wraps; tasks are cancelled; a sleep between the
  preparation and the start of a send.
- *Correct when*: the receive is resumed, ends in time and never ends a send.

### Not to be modelled

- `umqtt` (`simple`, `robust`): blocking calls on one socket by one caller; planned last.
- `contextvars`: a stack, sequential apart from thread-local storage.
- `aiorepl`, `mip`, `net`, `espflash`, `senml` and the device drivers: thin layers over
  sockets, files and registers, with no protocol of their own that a small model would say
  more about than reading does.
- The ports of CPython modules (`argparse`, `datetime`, `unittest`, `asyncio`, ...),
  `python-ecosys` and `unix-ffi`: parsing, formatting, arithmetic, bindings to the C library.
  They are most of the repository's lines, so the modules here stand for a small share of it.

## Modules and the code they model

    UsbBytes       the state of Buffer; Moved: what a block move inside its bytearray does
    UsbFifo        abstract: a bounded first-in first-out stream
    UsbBuffer      Buffer, one producer and one consumer      implements UsbFifo
    UsbShuffle     the byte loops inside the critical sections
    UsbEndpoint    abstract: at most one transfer per endpoint, its own callback
    UsbCore        _Device and Interface: transfers           implements UsbEndpoint
    UsbConfig      _Device: configuration, opening, dispatch
    UsbCdc         CDCInterface    \
    UsbMidi        MIDIInterface    > stand on UsbEndpoint and UsbFifo
    UsbHid         HIDInterface, keyboard and mouse /
    BoundedQueue   abstract: a bounded collection of a kind
    Queue          queue.py on threading.py                   implements BoundedQueue
    ThreadPool     concurrent/futures/__init__.py
    AioConnection  aioble's device.py, central.py, peripheral.py
    LoraModem      lora/modem.py, sx126x.py, async_modem.py
    UsbBufferProofs, UsbCoreProofs, UsbCdcProofs, UsbMidiProofs, QueueProofs,
    ThreadPoolProofs      theorems about the module of that name
    UsbInterfaceProofs    theorems about UsbConfig and UsbHid
    RadioProofs           theorems about AioConnection and LoraModem
    MCUsbCore, MCUsbConfig, MCQueue, MCThreadPool   constants of runs that a .cfg cannot write

**UsbBuffer.** `b`, `n`, `w` are `_b`, `_n`, `_w`. The producer is at `idle`, `load` (inside
`pend_write`, after it loaded `_n`) or `fill` (it holds a view and stores byte after byte);
the consumer at `idle` or `copy`. `finish_write` and `finish_read` are one step each, as
interrupts are off in them; their loops are a `Moved` of a block. UsbShuffle justifies this:
it is the two loops one iteration at a time, from every call that satisfies the asserts
(`Reaches`), and its property is that the outcome equals `Moved`. That the calls the two
parties make are such calls is the theorem `BufferCallsReach`.

**UsbCore.** One actor per thread and one, `"cb"`, for TinyUSB's callbacks, which run one at
a time on some thread (`on`), and that thread waits meanwhile. Each access to shared state is
a step: the lookup in `_eps` (`CheckEps`), the two loads of `_xfer_pending()`
(`PendingLoadCb`, `PendingLoadEp`), the store to `_ep_cbs` (`Store`), the controller's call
(`Queue`, or `DcdError` when it is refused). A completion is `XferCb` (the lookup), `Mark`,
`Clear`, the callback's own submissions, as many as it likes and on several endpoints,
`Finally`. `StrayXferCb` is a completion for which the controller has no transfer; it may find
the mark of a submission that a reset overtook. A reset is `ResetCb`, `ResetEps`, `ResetCbs`. A
transfer is numbered by its submission and the number stands for its callback.
The refinement maps the abstract `xfer` to `hw`, what the controller has in flight.

**UsbConfig.** `Config(list)` is the body of `config()` for a list of interface objects:
`desc_cfg()` of every class as an operator that returns the groups (an interface, or the
interfaces of one association) that it puts in the descriptor, the loop over the list that
numbers interfaces and endpoints (`Built`, a function of the number of objects placed, whose
steps are `Place`), and the two passes. `OpenItfCb` is one call of `_open_itf_cb()`; the host
opens the groups in order (`walk`). Its definitions have names (`ConfigSpec`, `DeviceReset`,
`is_open`) that stand beside those of UsbHid in one proof module; `ModemSpec` and the like of
LoraModem stand beside those of AioConnection.

**UsbCdc.** Buffers are counts, with `wpos` for the place in the stream of `_wb`'s first
byte; transfers are the number of bytes in their view. The thread's steps are those of
`write()` (`wb_*`, `wx_*`, `w_*`), `read()` (`rb_*`, `rx_*`, `r_*`) and `flush()` (`f_*`),
one per access to something a callback changes: the copy into and out of a buffer, `is_open()`,
`xfer_pending()` with `pend_read()`, `submit_xfer()`, the time check, `machine.idle()`.
Whether `init()` was given a timeout is the variable `timeout`, chosen once. Callbacks are
one step each: `WrCb(ok)`, `RdCb(ok)`, `ResetCb`, `OnOpen`. The controller may refuse any
transfer ("DCD error"): the call raises (`DcdError`), or the callback does, and the endpoint
stays marked (`Stuck`) until a reset; `on_open()` that raises at its first transfer does not
submit the second (`skipped`). MIDI and HID have the same.

**UsbMidi.** The same shape in events of four bytes, with the queue of
`micropython.schedule()`: calls of `_on_rx()` (`sched`) and those of the rest of the program
(`other`) share `Depth` places.

**UsbHid.** The steps of `send_report()` inside `send_keys()` (`device = "keyboard"`) and of
the mouse's `send_report()`; a report is a number and the question is which report the buffer
in flight holds.

**Queue.** One module for the four classes; `kind` is chosen once per behaviour. A step is
what a thread does under one lock: `Get`, `Put`, `Blocked` (found empty or full: clear the
event, or raise), `Join` and `TaskDone` are bodies under `_mutex`; `Wait` is `Event.wait()`
under the event's own condition; `Wake`, `TimedOut` and `GaveUp` are the three ways out of
the wait for a waiter's lock. A timed waiter first gives up (`TimedOut`) and takes itself out
of `_waiters` only with the lock again (`GaveUp`); between the two it can be notified. For a
SimpleQueue `SimplePut` appends, `Release` raises the semaphore, `Acquire` and `SimplePop` are
the two halves of `get()`. Item numbers are also the priorities.

**ThreadPool.** Clients call `submit`, `cancel`, `result`, `add_done_callback`,
`remove_done_callback`, `shutdown`; workers go through `Initializer`, `WorkerWaits`,
`WorkerWakes`, `WorkerTakes`, `Run`, `Fn`, `WorkerSets`, `WorkerLeaves`. `Submit` is one step
since both locks are held; `Shutdown`, `NotifyAll` and `Join` are three. `Invoke` is one turn
of the loop over callbacks, by its index and without the lock. Futures of the program's own
(`Promise`) have their result set by `SetResult`: that is where callbacks and results can be
followed to the end, given finding 1. The program may do the same to a future it has from
`submit()`; the worker that takes it then raises in `Run` and ends.

**AioConnection.** An object of `DeviceConnection` is its number; `task` is its
`device_task()`, `timeouts` the request that runs in a `DeviceTimeout`. The central's
`connect()` is `Connect` (up to its wait), then `Connected` or `ConnectTimeout`; the
peripheral's `advertise()` is `Advertise`, then `AdvertiseReturns` or `AdvertiseTimeout`.
`Connect` has three ends: an equal device is connecting and the call returns at once; a scan is
active and has to be cancelled first (`cancelling`, until `ScanCancelled`); or the controller is
asked (`GapConnect`), which refuses a device that is linked. `Device` objects are equal if their
addresses are (`Twins`), and `_connecting`, a set, holds one of them.
`PeripheralConnect`, `CentralConnect` and `Disconnect` are the interrupts. The controller
(external) has a link per handle (`up`) and gives a handle out again as soon as its link is
down. History variables name the two cases the code does not cover (`early`, `overtaken`), so
that the properties say what holds outside of them.

**LoraModem.** `rx`, `continuous`, `tx` are `_rx`, `_rx_continuous`, `_tx`; `rx` is a deadline
in wrapping ticks, or `On`, or `Off`. `Recv` is the call of `recv()` up to its wait, `PollRecv`
one turn of its loop, `PollSend` the same for `send()`; both end in `_check_recv()`
(`CheckRecv`). `SendAt` and `StartSend` are a send with `tx_at_ms`, that sleeps in between.
`prepare_send()` and `start_send()` each may raise, on an error that the chip reports
(`PrepareRaises`, `Start`). A timeout is given to the chip in 24 bits of 1/64 ms: `Listen` takes
it modulo `ChipWrap` (262144 ms), and one that is 0 then is no timeout (`Zeroed`). Each poll may
find `rx_crc_error` set, with which a receive that failed or timed out returns a packet too.
Tasks of one event loop run undisturbed between awaits, and a wait ends by an interrupt or
after a second, so a poll may happen at any time. The chip (external) receives, times out or
finishes sending by itself and raises flags.

`PROJECT.json` maps each definition to the lines it models.

## Conventions

- Definitions keep the source's names in camel case. A definition `Name_Bug` next to `Name`
  is a plausible mistake in that piece of code; a specification never uses it. Replacing
  `Name` by it must break the property it is listed with in `PROJECT.json`; this shows that
  the property depends on that code.
- Variables commented "history" are not in the code and no guard of the program reads them
  (counters of bytes sent bound the runs).
- A constant commented "bound" limits how long a behaviour the runs explore.

## Runs

| run | what it asks | size | result |
|---|---|---|---|
| `buffer` | Do a producer and a consumer that interleave at every load and byte keep the stream intact, views stable, the asserts true; is `Buffer` a `UsbFifo`? | length 3, 2 byte values, 5 bytes sent; 26 952 states | holds |
| `shuffle` | Are the byte loops a block move, and in bounds, on every content and every call that the asserts admit? | length 4, 3 byte values; 16 605 states | holds |
| `core` | Two threads and the callbacks, with refused transfers, stray completions and resets: does "pending" agree with the controller, does each transfer call back, is the device a `UsbEndpoint`? | 3 endpoints, 3 submissions; 146 254 states | holds |
| `cdc` | `write()`, `read()`, `flush()` against callbacks, failed and refused transfers, resets: is every byte accounted for, does each direction keep going, do calls return? | `_wb` 2, `_rb` 3, packets of 2, 3 bytes each way; 171 746 states | holds |
| `midi` | The same for `send_event()` and the scheduled handler | buffers of 2 events, scheduler depth 2, 3 events each way; 288 720 states | holds |
| `hid` | Is the buffer in flight never rewritten, and is the result of `send_report()` the truth, for keyboard and mouse? | 4 reports; 2 904 states | holds |
| `config` | Any sequence of `config()`, `active()`, resets, enumerations and SET_PROTOCOL: is each object opened once and complete, does each number belong to one object? | 4 objects, 2 per configuration; 93 179 states | holds |
| `queue` | Threads that get, put, join and report items done, blocking, timed or not, on the four kinds of queue: do the shared events tell the truth, is every kind a `BoundedQueue`, is everybody served? | 3 threads, 3 items, maxsize 2; 185 964 states | holds |
| `pool` | Submitting, cancelling, waiting, callbacks, shutdown against workers that sleep, run and die: does a function run once or never, are callbacks called once, is the bound kept, do calls return? | 2 clients, 3 workers, 3 futures of the pool and 1 of the program, 2 callbacks, `max_workers` 2, 3 programs; 203 261 states | holds |
| `pool_ends` | Does a function that the pool has called leave its future finished? | 2 clients, 2 workers, 2 futures, `max_workers` 1 | violated |
| `aioble` | Connecting and being connected to, with timeouts, disconnections at any moment and handles given out again: do interrupts find the object, and is it cleaned up? | 3 devices, 2 of them equal, 2 handles, 2 objects; 84 850 states | holds |
| `lora` | A receive with a deadline on a clock that wraps, beside sends, also such that raise, packets, CRC errors, standby and cancellation: is it resumed, does it end in time, is a send left alone? | period 12, 14 ticks, the chip counts 3, timeouts 0, 2, 3 and 5; 84 023 states | holds |

What the properties say, run by run:

- `buffer`: `AssertsHold` (the asserts in `finish_write`/`finish_read`, for parties that
  stay within their view), `PendedBytesIntact` (a `finish_read` never disturbs bytes stored
  and not yet declared), `ViewStable` (an action property: no step of the producer changes a
  byte in the consumer's view), `FifoSpec` (refinement). That what was read and what is held
  is what was written (`StreamIntact`) is implied by the last, and proved.
- `shuffle`: `InBounds`, `LoopMoves`: the loops stay in the array, and their outcome is a
  block move.
- `core`: `FreeWhenQueued` relates the two-load check to the controller's state at the call
  that follows it; `PendingExact` relates `_ep_cbs` and the controller in quiet states;
  `XferCallsBack` is the promise of `submit_xfer()`; `EndpointSpec` the refinement the
  drivers stand on.
- `cdc`, `midi`: `Conserved` (bytes leave the send buffer only after the host has them, every
  byte received is in exactly one place, the view of the transfer in flight fits),
  `KeepsGoing` and `HandlerOnItsWay` (nothing waits with nobody to move it), `TxDelivers`
  (what was queued arrives, unless the bus is reset), `CallsReturn`. A refused transfer is the
  exception of `KeepsGoing` and `TxDelivers`, for its own endpoint until the next reset; if it
  was the OUT transfer that CDC's `on_open()` submits first, also for what waits in `_wb`, until
  the next `write()`.
- `hid`: `InFlightIntact`; `Accounted` (the calls that returned True are the reports in
  flight, received or lost); `CallsReturn`, but for a mouse behind a refused transfer, whose
  loop has no deadline.
- `config`: `OpensOnceReady` (an object is opened once, after its last interface),
  `AddressesOwned`, `ControlReachesOwner` (numbers given in one place and used in another
  belong to one object, and a control request reaches it).
- `queue`: `EventsTell` (an event that somebody waits on is set, or there is nothing to wait
  for, and nobody sleeps on one that is set), `TasksCounted` (what `join()` waits for is what
  was put and not reported done), `SemaphoreTells` (a thread that acquired finds an item; no
  notification is lost on a waiter that gave up), `QueueSpec` (refinement), `Served` (who
  waits for what is there comes back, unless another takes it).
- `pool`: `OnceOrNever` (a future is cancelled or its function runs, and what has ended stays
  so), `WorkersBounded` (never more than `max_workers`, none after `shutdown(wait=True)`),
  `CallbacksOnce`, `CallsReturn` (`shutdown()` comes back, though its flag and its
  notification are under different locks; `result()` comes back once the future has ended).
- `pool_ends`: `WorkEnds`, finding 1.
- `aioble`: `Registered` (the map of handles has every connection the program was given),
  `DownMeansDown` (no object is closed while its link is up), `CleansUp` (after a
  disconnection the object is closed and its requests are cancelled).
- `lora`: `Resumed` (with no send in progress a receive that is on is heard, or a flag is up
  for the next poll, unless that send was cancelled or raised), `GivesUpInTime` (`None` means
  the timeout is over, however often the receive was suspended, but for standby, a deadline on
  tick 0 and an empty packet), `SendUndisturbed` (only standby, or what starts after a send that
  was cancelled or raised, ends a transmission, and the chip sends what it was prepared for),
  `RecvEnds` (a receive with a timeout ends; not if a send cancelled once it had started left
  `_tx` set, if the chip was given a timeout of 0, or if `start_send()` raises over and over).

Deadlock is checked except where the program really may stop, or a bound ends every
behaviour: `core` (all submissions made and the controller off), `shuffle` (a loop that is
done), `queue` (all threads wait for an item nobody puts), `pool` and `pool_ends` (all
futures submitted), `aioble` (all objects made).

## Why the bounds are enough

- *Buffer*: with length 3 there can be a byte consumed, a byte held and a byte pended at
  once, and 5 bytes send the stream round the array; the theorems below cover every length.
- *UsbCore*: the callback nests on at most one thread. The main thread, on which the callbacks
  run, and the callbacks of `in` both submit on `in`, as the callbacks of `out` do on `out`, and
  `on_open()` on both; a second thread submits on `aux`, so that `_cb_ep` and `_cb_thread` are
  read by submissions on one endpoint while callbacks of another write them. Three submissions
  let one be in flight, or refused, while the callback of the second makes the third. The
  theorems cover any threads, endpoints and number of transfers.
- *CDC*: `_rb` of 3 with packets of 2 has all three cases of room (none for a packet, room
  left over, empty); `_wb` of 2 with 3 bytes to send fills up, so a write waits. The theorems
  cover any lengths and packets, for CDC and MIDI.
- *MIDI*: buffers of 2 events are full, partly full and empty; a depth of 2 makes the
  scheduler full with and without an `_on_rx()` among its entries.
- *HID*: two buffers and four reports let each buffer be reused once while the other, or
  itself, is in flight after a timeout; the theorems cover any number of reports.
- *Config*: two objects in a configuration have a neighbour's interface after an object's
  last one; a MIDI object is outside an association and a CDC object inside one; a
  configuration may be replaced by any other, in any order. The theorems cover any objects in
  any number.
- *Queue*: the events go wrong with a waiter, one who sets for it and one who clears: three
  threads, of which two get, two put and one joins, so that a getter, a putter and each
  other's rival meet. Three items fill a queue of two and leave one to wait. The theorems cover
  any threads, items and sizes.
- *ThreadPool*: three programs, each with the calls that contend with one another (the pool's,
  those about callbacks, and results set by the program); two clients race; of three workers two are alive and one replaces a dead
  one; three futures keep one in the queue while two run. Two callbacks let one be removed
  before another is called. The theorems cover any number.
- *AioConnection*: two objects contend for a handle, one of the central and one of the
  peripheral, or two of the central, of different devices or of equal ones. The theorems cover
  any number.
- *LoRa*: 14 ticks of a period of 12 pass the wrap, and timeouts of 2, 3 and 5 have deadlines
  before it, on it and after it. With a chip that counts 3 ticks the timeouts are one it can
  hold, one of which nothing is left and one of which a part is; 0 is over at once. The theorems
  cover any period and any `ChipWrap`.

## Fairness

- *UsbCore* (`FairSpec`): threads and callbacks go on (weak fairness: the scheduler runs
  every thread, a callback runs to its end); strong fairness of `XferCb` per endpoint: a
  transfer in flight is reported in the end though other callbacks run first, because TinyUSB
  takes events in order. `XferCallsBack` allows a reset instead.
- *UsbCdc* (`Spec`): weak fairness of the thread's steps. Strong fairness of `TimedOut`: the
  loops compare the clock again and again, and time passes. That the host polls and that a
  transfer succeeds in the end (`HostFairness`) is *not* in the specification; it is the
  premise of `TxDelivers`, so `CallsReturn` is checked with a host that does nothing.
- *UsbMidi*: weak fairness of the thread and of `_on_rx()`; strong fairness of the host.
- *UsbHid*: weak fairness of the thread, strong fairness of the deadline as in CDC; the mouse,
  that waits without a deadline, needs a host that polls, and only for it is that assumed.
- *Queue*: weak fairness of each thread's steps. Nobody is obliged to call, to report an item
  done or to give up, so `Served` does not rest on a timeout.
- *ThreadPool*: weak fairness of each worker and of what each client has begun. That the
  functions and callbacks of the program return is part of it.
- *AioConnection*: weak fairness of `Connected`, `DeviceTask` and `RequestEnds`: the event
  loop runs a task that is ready. Nothing is assumed of the controller.
- *LoRa*: weak fairness of the polls (a wait of `AsyncModem` lasts a second at most), of a
  sender that wakes, of the chip (a transmission and its receive timeout end) and of time.
  No packet need come.

## Assumptions

- The drivers' modules replace the device and `Buffer` by the abstract modules that UsbCore
  and UsbBuffer implement (as far as the observations allow: a CDC program that calls
  `write()` from two threads at once is outside both).
- `OneSubmitter` (UsbCore): one thread at most submits on an endpoint; a completion callback
  submits on its own endpoint only; and where callbacks submit, the thread that submits there
  too is the one they run on. The drivers keep to the second; the rest is up to the program:
  it uses an interface from one thread, and a CDC or MIDI interface, whose callbacks submit,
  from the thread on which callbacks run. The theorems about UsbCore have it as a hypothesis,
  run `core` satisfies it (MCUsbCore evaluates it), and the first observation below is what
  happens without.
- Callbacks of TinyUSB and functions of `micropython.schedule()` are atomic to each other:
  the scheduler runs one at a time. To threads they are atomic in the driver modules, not in
  UsbCore.
- An enumeration by the host takes longer than one call (or one wait in `machine.idle()`) of
  a thread: no call of `submit_xfer()` begins before a reset and ends after the next
  configuration.
- The host sends no packet longer than the view of the transfer it answers. (The MIDI
  driver submits views shorter than its endpoint's 64-byte packets; what the controller does
  with a longer packet is not in the repository.)
- What a thread does between taking and releasing a lock is one step, locks of `_thread`
  being mutual exclusion; two threads meet only at what no common lock protects. The lock of
  a condition is taken again by a waiter before anything else happens to it.
- A program reports a task done once for an item it took. Items are distinct.
- A timeout may pass at any time, also at once.
- LoRa: a deadline is polled, or replaced, before half a period of `ticks_ms()` has passed
  over it (six days; the loop polls once a second), and a timeout is less than half a period,
  as `ticks_diff()` demands. One task receives and one sends.
- LoRa: the errors that a chip reports are raised by sends only (`_check_error()`); commands of a
  poll or of a receive succeed.
- aioble: the controller refuses to connect to a device that it is linked to.
- The controllers (`machine.USBDevice`, `bluetooth.BLE`, the SX126x), the host, the event
  loop and `micropython.schedule()` are external: modelled by what this code relies on.

## Proofs

All theorems are about every value of the constants that the modules' assumptions admit.
Where an invariant is not inductive as it stands, the proof module defines the conjuncts that
make it so.

**UsbBufferProofs** proves, for every `Length` of at least 1, every set of bytes and any bound
(`LengthAssumption`, `BufferAssumption`): `BufferTypeOK`, `BufferAssertsHold`,
`BufferPendedBytesIntact`, `BufferStreamIntact`, `BufferViewStable`, and
`BufferImplementsFifo`: `Spec => Fifo!Spec`. The safety properties are not inductive alone.
`IInv` adds `Layout` (between the producer's load of `_n` and its store of `_w` the valid
bytes only shrink; the view lies above them; the consumer's view lies within them) and
`CopyFaithful` (what the consumer has fetched so far is still what its view shows). Without
`Layout`, `finish_write` could be thought to move its bytes upwards over others; without
`CopyFaithful` the refinement could not show that the bytes returned are the head of the
queue. There is one lemma for each action that moves bytes.

The same module proves of the byte loops `ShuffleInBounds` and `ShuffleLoopMoves`: the loop
invariant `LoopInv` says that after some iterations the array is the block move of that many
bytes. Overlap is harmless because the loops ascend and move downwards, and that is where the
proof uses the asserts of the code. `BufferCallsReach` closes the gap between the two
modules: every `finish_write()` and `finish_read()` that the producer and the consumer call
runs its loops from a state and with an argument that the theorems about the loops cover. (It
has to admit a `finish_read()` while a write is pended at any `_w`.)

**UsbCoreProofs** proves `CoreFreeWhenQueued`, `CorePendingExact` and
`CoreImplementsEndpoint`, `Spec => EndpointSpec`, for any threads, endpoints and number of
transfers, under `OneSubmitter`. What a thread found in `_xfer_pending()` must still be true
when it calls the controller some steps later. `IInv` says why: `Checked` (what the two loads
and the store established still holds), because of `Apart` (no callback that could change it
runs beside the thread: this is where `OneSubmitter` is used) and `Completes` (a completion
keeps its endpoint marked until it clears the mark); `Own` (a transfer in flight has its own
callback), `Marked` and `Refused` (why an endpoint is marked, and what a refused transfer
leaves), `Callbacks` (where the callbacks are, and on which thread), `Numbered` and `Unused`
(a submission has a number that nobody else has). The refinement maps each step that reaches
the controller to the abstract one and the others to stutters.

**UsbCdcProofs** proves `CdcConserved` and `CdcKeepsGoing` for buffers, packets and bounds of
any size. What is in the buffers, in flight and delivered adds up only together with
`CdcTransfers` (a transfer in flight is part of the valid bytes, and what the host has reaches
no further) and `CdcSeen` (what a thread found in an earlier step, such as an endpoint with no
transfer pending, is still so when it acts on it, or a reset has come between and the call
fails). `CdcGoing` strengthens `KeepsGoing` to all states: while no transfer moves the bytes of
a buffer, and none was refused, the thread is on its way to start one.

**UsbMidiProofs** proves `MidiConserved` and `MidiHandlerOnItsWay` in the same way. `MidiInv`
has `HandlerOnItsWay` itself, which is inductive: received events wait only with an `_on_rx()`
to come, unless the scheduler refused it.

**UsbInterfaceProofs** proves of UsbConfig `ConfigOpensOnceReady`, `ConfigAddressesOwned` and
`ConfigControlReachesOwner`, for any objects of the three classes, in lists of any length and
order, and any sequence of configurations, resets and enumerations (`ConfigAssumption`), and
`ConfigDeclaresOne`: every HID interface declares protocol 1, whatever its constructor gave and
the host set. `CInv` has four parts:

- `Tables` relates the descriptor, `_itfs` and the addresses that the objects saved:
  `Numbers` (interface numbers ascend through the descriptor and each leads to its object),
  `Closes` (of an object's groups only the last does not put `on_open()` off), `Saved` (the
  addresses saved are those in the descriptor, and no two objects share one);
- `Opened` relates the tables to what the host has done: an object counts as opened exactly
  if its last group is behind the host, and the endpoints of every group behind the host are
  registered;
- `DeclaresOne`, of the descriptor that the second pass made, and `Types`.

That a callback keeps `CInv` rests on `Tables` as it is; that `config()` establishes it is the
work. `DescCfgBlock` says what each class's `desc_cfg()` returns (as many interfaces and
endpoints as `num_itfs()` and `num_eps()` say, the last group at the last interface),
`PlacePlaced` that one turn of the loop keeps `Placed`, which is `Tables` with the two counters
above every number given. The loop is unrolled without an induction theorem, which would take
an operator as its argument: a counterexample of least length is a contradiction (`LeastNat`),
both to the existence of the recursive function (`LoopRuns`) and to `Placed` along it
(`BuiltTables`). An object is in the list once (`Lists`), and the proof needs it: of an
object that is there twice only the last addresses are saved, and it may be opened twice.

The same module proves of UsbHid `HidInFlightIntact` and `HidAccounted` for any number of
reports. `HInv` adds `Free` (the buffer that is filled next is never the one in flight: for the
keyboard because buffers are swapped after a success only, for the mouse because it waited
for the endpoint before it touches its buffer) and `Settled` (the account, with the report
just queued and not yet returned for).

**QueueProofs** proves `QueueEventsTell` for any threads, items, size and kind. `EInv` splits
the property: `Believed` is about threads that are anywhere between having found nothing and
coming back, `NoneAsleep` about the waiters of an event that is set. It is inductive because
an event is cleared only under the mutex by somebody who has just found nothing
(`BlockedEInv`), or by `put()` that makes `join()`'s reason true; `SetTells` says what
`Event.set()` leaves.

`QueueTasksCounted` follows from `CInv`: `Counted` (the unfinished tasks are the items in the
deque and those taken, less those reported), `Distinct` (an item is in one place: with a
thread about to put it, in the deque, or taken) and `Placed` (whoever is to put has an item).
`QueueImplements` is `Spec => QueueSpec`: under `CInv` a step that puts or takes an item is one
of the bounded queue, by a lemma for each such action, and the others leave its contents
alone. `QueueSemaphoreTells`, about SimpleQueue, needs `SInv`: `Units` (the value of the
semaphore, the threads that acquired and have not popped and those that appended and have not
released add up to the items), `Coming` (while anybody sleeps, every unit in the semaphore has
a thread on its way to it) and `Waits` (who is in the list of waiters).

**ThreadPoolProofs** proves `PoolOnceOrNever` from `Ran` (a function that was called has left
its future running or finished) and `Moves`, the transitions that one step can make of a
future, one lemma for clients and one for workers; `PoolWorkersBounded` from `Known` (a
thread that is alive is in `_threads`, which `submit()` keeps within bounds; a shutdown that
has returned saw all of them end); and `PoolCallbacksOnce` from `CbInv`. One thread at most
goes through the callbacks of a future, after its end; those before its index were called,
the others not (`InTurn`). Before the end none was called, and after it, with no thread in the
list, all were (`OnTime`). A future of which a callback was removed meanwhile is the
exception. `Begun` (what `submit()` makes is new) and `Held` say which future an actor is busy
with. `PoolAssumption` has that there are threads enough, and that the sets of clients,
workers and futures are apart.

**RadioProofs** proves `ConnectionDownMeansDown` and `ConnectionRegistered` for any
devices, handles and number of objects. `IInv` follows an object through its life: `Attempts`
(what `connect()` and the controller have of it), `Incoming` (what `advertise()` has),
`Entries` (the map's entry of a handle is an object with that handle), `Ending` (an object
whose `device_task()` is about to run has no link), `Unlinked` (the controller tries one of
several equal devices at a time, and none that has a link). `RInv` adds `Marked` (two objects that
have one handle and have not let it go are the excepted ones) and `Waited`, what is known of
an object before its connection is handed to the program; without it nothing would be known
at the moment it is. One lemma per action and invariant.

Of LoraModem the same module proves `ReceiveResumed`, `SendsUndisturbed` and
`RecvGivesUpInTime`, for every period, timeout and end of the clock (`LoraAssumption`). `LInv` adds `Transmits` (the
chip sends only with the flag down and `_tx` set, or after a `start_send()` that raised, and
`_tx` outlives its sender only if that was cancelled) and `Heard`, that unlike `Resumed` also speaks of the moments in a send at
which `_tx` is already clear. `RecvGivesUpInTime` needs `Deadline`: `_rx` is the deadline of
the present `recv()` and less than half a period away, and is off before its task knows only
by `standby()` or in its time. `TicksDiffExact` then gives that `ticks_diff()` is the true
difference of two times, whatever wraps lie between them. What the chip makes of a timeout
(`ChipWrap`) does not enter: `GivesUpInTime` rests on the driver's own test of the deadline.

Model-checked only: all liveness (`XferCallsBack`, `TxDelivers`, `CallsReturn`, `Served`,
`CleansUp`, `RecvEnds`), since the prover does not handle fairness; and `WorkEnds`, which does
not hold. Every invariant, action property and refinement that a run checks is a theorem.

## Findings and observations

1. `pool_ends` (futures/__init__.py:337): `run()` moves the future from PENDING to RUNNING,
   then calls `set_result()`, which raises InvalidStateError unless the future is PENDING; the
   handler calls `set_exception()`, which raises it again, out of `run()` and out of
   `_worker()`. The thread ends, the future stays RUNNING and `result()` waits for ever.

Observations that no run pins down. USB:

- core.py:327: the two loads of `_xfer_pending()` are not atomic. Where a thread and a
  callback that runs on another thread submit on one endpoint, a callback between the loads
  that resubmits and ends leaves both answering "not pending"; the thread's submission then
  overwrites the callback of the one in flight. Likewise between the check at 312 and the
  store at 319. The drivers here submit on one endpoint from one side, or from a thread that
  the callbacks run on.
- A refused transfer ("DCD error") leaves its mark in `_ep_cbs` (core.py:319–320, 603–604), so
  the endpoint answers "pending" until it is opened again. Neither `_wr_xfer()`, `_rd_xfer()` and
  `_tx_xfer()` nor `busy()` can tell: the stream of that endpoint stops, `flush()` and `write()`
  run into their timeouts, and the mouse, whose loop has no deadline (mouse.py:42), waits until
  the bus is reset. `PendingExact`, `KeepsGoing`, `TxDelivers` and `CallsReturn` of `hid` have it
  as their exception.
- `on_open()` of CDC and MIDI submits on both endpoints; if the first submission raises the
  second is not made (cdc.py:281–285). For CDC's `_wb` the next `write()` makes good for it.
- After a reset, a completion that comes late may find the mark of a submission that the reset
  overtook, and call its callback (core.py:331).
- midi.py:145: when `_rx` is full as `_rx_cb()` runs, no OUT transfer is submitted; `_on_rx()`
  empties `_rx` and submits none. The interface never receives again until it is configured
  anew, contrary to "Keep an active OUT transfer".
- keyboard.py:60: after a rollover the padding loop sets the last entry of the report to 0.
- hid.py:161: `desc_cfg()` assigns `self.protocol = 1` after using it; it runs twice, so every
  HID descriptor declares the keyboard protocol (the theorem `ConfigDeclaresOne`).
- A CDC interface whose `init()` got no timeout compares `None` with a number when it has to
  wait (cdc.py:371): TypeError.
- A reset between `is_open()` and `xfer_pending()` or `submit_xfer()` raises KeyError or
  RuntimeError in the caller (hid.py:112 and 125–127, cdc.py:321–322, midi's `_tx_xfer()`).
  `write()` then does not say how much was queued, and `read()` drops the bytes in hand.
- Bytes of a failed or reset transfer are sent again: the host may see them twice.
- `config()` replaces `_itfs`; an object that leaves it keeps `_open` set (core.py:173).
- `Interface.stall()` reads an attribute `_eps` that Interface does not have (core.py:616).

queue and futures:

- A timed `get()` or `put()` that gave up raises Empty or Full though it was notified before
  it had the lock again (queue.py:155 and 200): it does not look once more.
- `shutdown()` makes workers leave with items still queued (futures/__init__.py:298): their
  futures stay pending.
- A program that sets the result of a future it has from `submit()` makes the worker that takes
  it raise InvalidStateError out of `_worker()` (futures/__init__.py:185–186): the thread ends.
- A callback removed while another thread goes through the list makes the loop skip the next
  one (futures/__init__.py:190). `CallbacksOnce` has it as its exception.

aioble:

- After a `connect()` that timed out, or a `gap_connect()` that raised, `device._connection`
  keeps the object without a handle, and `connect()` returns it from then on (device.py:142
  and 167).
- `Device` objects are compared by address (device.py:119). While one is connecting, `connect()`
  of an equal one returns at once, with a connection that is not up and a `device_task()` that
  fails (central.py:111–112). If both got past that test, since each awaits `_cancel_pending()`
  (central.py:116) before it joins the set, the one to end second raises KeyError (central.py:143).
- A disconnection between the connect interrupt and the task's going on is lost: `_connected`
  does not have the handle yet (central.py:85 and 140). `early` in the properties.
- A handle given out again before `device_task()` of its last owner has run: that task deletes
  the new owner's entry, and the next deletion raises KeyError (device.py:213). `overtaken` in
  the properties.
- A timeout of `disconnected()` cancels the `device_task()` it awaits, after which nobody
  cleans up (device.py:240).
- An answer to an MTU exchange that comes after its timeout sets the event for the next
  (device.py:281). L2CAP's `send()` stores what `l2cap_send()` returned after the interrupt
  that it waits for may have come (l2cap.py:124 and 144).

LoRa:

- A `send()` with `tx_at_ms` awaits between `prepare_send()` and `start_send()`; a receiving
  task's poll resumes its receive there and overwrites what was prepared
  (async_modem.py:70). `late` in `SendUndisturbed`.
- A deadline that falls on tick 0 counts as no receive (modem.py:365): `recv()` returns `None`
  before its time, or is not resumed.
- An empty packet is falsy (modem.py:349): a single `recv()` returns `None` for it, at any time,
  though lora/README.md:708 has `None` for a timeout only, and `recv_continuous()` waits for
  another. `got = "empty"` in `GivesUpInTime`.
- The chip is given a timeout as `timeout_ms * 64` in 24 bits (sx126x.py:541–548). Of a timeout,
  or a remainder of one, that is a multiple of 262144 ms (4 minutes and 22 seconds) nothing is
  left, and 0 is no timeout: the chip listens until a packet comes, `is_idle()` is False, and
  `recv()` need not return. Other long timeouts end early in the chip and are resumed. `Zeroed` in
  `RecvEnds`.
- With `rx_crc_error` set, the hardware's receive timeout returns a packet (modem.py:336), whatever
  the FIFO held.
- A `send()` that raises in `prepare_send()` leaves the receive suspended until the next poll
  (sx126x.py:617); one that raises in `start_send()` leaves `_tx` False with the chip perhaps
  sending (sx126x.py:665), so that the flag of its end is a receive's to clear. `left` in the
  properties.
- After a cancelled `send()` `_tx` stays set and polls return True for ever, until the next
  send or standby. `left` in the properties.
- sx126x.py:345 and 585: `_clear_irq()` clears `_last_irq` before `_read_packet()` looks at
  it; the SX127x driver never clears it. The hardware's receive timeout counts as a CRC error
  (modem.py:335). A `send()` during which `standby()` is called returns False.

## What is not modelled, and why

- The bulk of the repository: ports of CPython modules, bindings to the C library of Unix,
  `python-ecosys`, drivers of displays, sensors and network chips. Parsing, formatting,
  arithmetic and register access by one caller: there is no state that several parties share,
  and what could be said of a module is what its tests say. `asyncio` here is the port of
  CPython's own; the modules above assume of an event loop what its documentation says.
- USB: bytes of descriptors and strings, and the memory views of the data stage of control
  transfers; CDC line coding, control line state and break, HID idle rate and SET_REPORT
  (each stores its argument and calls the program); the layout of a keyboard report;
  `Interface.stall()` and remote wake-up: single calls into the controller. Several producers
  on one `Buffer`: outside its contract (core.py:774). What the interrupt controller does
  inside `machine.disable_irq()`, and what TinyUSB does.
- threading: `Barrier`, `Timer`, `BoundedSemaphore`, `Thread`; nothing above uses them.
- futures: `as_completed()`, `wait()` and `map()` poll `done()` and call `result()` and
  `submit()`. Exceptions and results as values.
- aioble: scanning, discovery, characteristics, pairing, L2CAP channels; the contents of
  advertisements.
- LoRa: SyncModem (the same calls in a loop of one caller), SX127x and STM32WL55,
  configuration, calibration, antenna switches, contents and time stamps of packets; commands
  of a poll or a receive that fail (`_decode_status()` raises, a BUSY line that stays high).
- umqtt: one blocking caller on a socket; its interesting states are in the broker.

## Plan

Done: the USB modules, Queue, ThreadPool, AioConnection, LoraModem, and proofs of every
safety property of theirs. What would come next, in this order:

1. **Barrier** of threading (filling, draining, resetting, broken) against "parties leave
   together, or all are told".
2. **aioble's L2CAP channel**: credit, `_stalled` and the interrupts.
3. **umqtt.robust**: QoS 1 against a lossy connection, reconnection.
