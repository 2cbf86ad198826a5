----------------------------- MODULE LoraModem -----------------------------
(***************************************************************************)
(* A LoRa modem shared by a task in recv() or recv_continuous() and a task *)
(* in send(): BaseModem (lora/modem.py), the SX126x driver                 *)
(* (lora-sx126x) and AsyncModem (lora-async).  A send suspends the receive *)
(* and whichever task polls next resumes it, with what is left of its      *)
(* deadline.                                                               *)
(*                                                                         *)
(* A task polls when its wait ends, by an interrupt or after at most a     *)
(* second: at any time.  Between its awaits it runs undisturbed.           *)
(***************************************************************************)
EXTENDS Integers

CONSTANTS
  Period,   \* time.ticks_ms() counts modulo this
  ChipWrap, \* the chip takes a timeout modulo this: 24 bits of 1/64 ms are 262144 ms
  MaxTime,  \* bound: the clock stops
  Timeout   \* timeouts given to recv(), in ticks

\* ticks_diff() tells past from future within half a period.
ASSUME LoraAssumption ==
  /\ Period \in Nat \ {0} /\ Period % 2 = 0 /\ ChipWrap \in Nat \ {0} /\ MaxTime \in Nat
  /\ \A t \in Timeout : t \in 0..(Period \div 2 - 1)

Off == -2     \* _rx is False
On == -1      \* _rx is True: no deadline
Never == -1
Zeroed == -2  \* no timeout either: the 24 bits of the one given are 0

VARIABLES
  rx,          \* _rx: Off, On or the deadline in ticks
  continuous,  \* _rx_continuous
  tx,          \* _tx
  receiver,    \* the task in recv(): "idle", "wait"
  sender,      \* the task in send(): "idle", "at" (until tx_at_ms), "wait"
  mode,        \* chip: "standby", "single", "continuous" or "tx"
  irq,         \* chip: interrupt flags
  loaded,      \* chip: what its packet parameters and FIFO are set up for, "rx" or "tx"
  timer,       \* chip: the time its receive times out, Never or Zeroed
  now,
  due,         \* history: the time recv()'s timeout is over, or Never
  got,         \* history: what recv() returned: "packet", "None", or "empty", which is a
               \* None too: an empty RxPacket is False
  stood,       \* history: standby() was called since recv()
  left,        \* history: a send was cancelled or raised, and nothing has started since
  late         \* history: the send was given a tx_at_ms

driver == <<rx, continuous, tx>>
chip == <<mode, irq, loaded, timer>>
modemVars == <<driver, receiver, sender, chip, now, due, got, stood, left, late>>

ModemInit ==
  /\ rx = Off /\ continuous = FALSE /\ tx = FALSE
  /\ receiver = "idle" /\ sender = "idle"
  /\ mode = "standby" /\ irq = {} /\ loaded = "rx" /\ timer = Never
  /\ now = 0 /\ due = Never /\ got = "" /\ stood = FALSE /\ left = FALSE /\ late = FALSE

ticks_ms(time) == time % Period
ticks_diff(a, b) == ((a - b + Period \div 2) % Period) - Period \div 2

----------------------------------------------------------------------------
(* Receiving                                                               *)

\* start_recv() of the SX126x, past its test of _tx: standby, then set up and start.  The
\* chip is given the low 24 bits of max(1, timeout_ms * 64); it takes 0 for no timeout.
Listen_Untimed(timeout, cont) ==
  /\ mode' = IF cont THEN "continuous" ELSE "single"
  /\ irq' = {} /\ loaded' = "rx" /\ left' = FALSE
  /\ timer' = Never
Listen(timeout, cont) ==
  /\ mode' = IF cont THEN "continuous" ELSE "single"
  /\ irq' = {} /\ loaded' = "rx" /\ left' = FALSE
  /\ timer' = CASE timeout = Never -> Never
                [] timeout > 0 /\ timeout % ChipWrap = 0 -> Zeroed
                [] OTHER -> now + (timeout % ChipWrap)

\* recv(timeout), or recv_continuous() which has none.  While a send is under way the
\* receive is only noted.
Recv_Cutting(timeout, cont) ==
  /\ receiver = "idle" /\ (cont => timeout = Never) /\ now + timeout <= MaxTime
  /\ rx' = IF timeout = Never THEN On ELSE ticks_ms(now + timeout)
  /\ continuous' = cont
  /\ Listen(timeout, cont)
  /\ receiver' = "wait" /\ stood' = FALSE /\ got' = ""
  /\ due' = IF timeout = Never THEN Never ELSE now + timeout
  /\ UNCHANGED <<tx, sender, now, late>>
Recv(timeout, cont) ==
  /\ receiver = "idle" /\ (cont => timeout = Never) /\ now + timeout <= MaxTime
  /\ rx' = IF timeout = Never THEN On ELSE ticks_ms(now + timeout)
  /\ continuous' = cont
  /\ IF tx THEN UNCHANGED <<chip, left>> ELSE Listen(timeout, cont)
  /\ receiver' = "wait" /\ stood' = FALSE /\ got' = ""
  /\ due' = IF timeout = Never THEN Never ELSE now + timeout
  /\ UNCHANGED <<tx, sender, now, late>>

\* _check_recv(), for a value r of _rx.  Its tests: "if not self._rx", where a
\* deadline of 0 ticks counts as False, is_idle(), and the deadline.
Receiving(r) == r \notin {Off, 0}
\* True is no int in MicroPython: no deadline.
Left(r) == IF r >= 0 THEN ticks_diff(r, ticks_ms(now)) ELSE Never
Expired_Plain(r) == r >= 0 /\ r <= ticks_ms(now)
Expired(r) == r >= 0 /\ Left(r) <= 0
Goes(r) == Receiving(r) /\ (mode = "standby" => ~Expired(r))  \* what it returns

\* The interrupt flags are those left by the caller.
CheckRecv_NoResume(r, flags) ==
  /\ rx' = IF Receiving(r) /\ ~Goes(r) THEN Off ELSE r
  /\ irq' = flags /\ UNCHANGED <<mode, loaded, timer, left>>
CheckRecv(r, flags) ==
  \/ /\ Goes(r) /\ mode = "standby"
     /\ rx' = r /\ Listen(Left(r), continuous)
  \/ /\ ~(Goes(r) /\ mode = "standby")
     /\ rx' = IF Receiving(r) /\ ~Goes(r) THEN Off ELSE r
     /\ irq' = flags /\ UNCHANGED <<mode, loaded, timer, left>>

Complete == irq \cap {"rx_done", "timeout"} # {}
Success == irq \ {"tx_done"} = {"rx_done"}

\* poll_recv() with _rx set and no send: a packet ends a single receive.  An error, or the
\* chip's timeout, is dropped, or is a packet too if the program sets rx_crc_error.  An empty
\* packet is False: what _check_recv() says is returned.  _recv() goes on while it gets
\* True; a continuous receive is called again.
PollRecv(result, rx_crc_error) ==
  /\ receiver = "wait" /\ rx # Off /\ ~tx
  /\ LET packet == Complete /\ (Success \/ rx_crc_error)
         r == IF packet /\ ~continuous THEN Off ELSE rx IN
     /\ result \in IF packet THEN {"packet", "empty"} ELSE {""}
     /\ CheckRecv(r, IF Complete THEN {} ELSE irq)
     /\ \/ (continuous /\ result = "packet") /\ UNCHANGED <<receiver, got>>
        \/ /\ ~(continuous /\ result = "packet")
           /\ receiver' = IF result # "packet" /\ Goes(r) THEN "wait" ELSE "idle"
           /\ got' = IF receiver' = "wait" THEN got
                     ELSE IF result = "" THEN "None" ELSE result
  /\ UNCHANGED <<continuous, tx, sender, now, due, stood, late>>

\* poll_recv() with no receive: False.
PollRecvNone ==
  /\ receiver = "wait" /\ rx = Off
  /\ receiver' = "idle" /\ got' = "None"
  /\ UNCHANGED <<driver, sender, chip, now, due, stood, left, late>>

\* The task is cancelled, or leaves its loop over recv_continuous().
RecvCancelled ==
  /\ receiver = "wait"
  /\ receiver' = "idle" /\ got' = ""
  /\ UNCHANGED <<driver, sender, chip, now, due, stood, left, late>>

----------------------------------------------------------------------------
(* Sending                                                                 *)

PrepareSend ==
  /\ sender = "idle"
  /\ irq' = {} /\ loaded' = "tx" /\ timer' = Never

\* Its _check_error() raises, with the chip in standby: so does send().
PrepareRaises ==
  /\ sender = "idle"
  /\ mode' = "standby" /\ irq' = {} /\ timer' = Never /\ left' = TRUE
  /\ UNCHANGED <<driver, receiver, sender, loaded, now, due, got, stood, late>>

\* start_send(): its _check_error() may raise, with the chip started, before _tx is set.
Start ==
  \/ mode' = "tx" /\ tx' = TRUE /\ sender' = "wait" /\ left' = FALSE
  \/ mode' \in {"tx", "standby"} /\ sender' = "idle" /\ left' = TRUE /\ UNCHANGED tx

\* send(): prepare_send() and start_send().
Send ==
  /\ PrepareSend /\ Start
  /\ late' = FALSE
  /\ UNCHANGED <<rx, continuous, receiver, now, due, got, stood>>

\* send() with a tx_at_ms sleeps between the two.
SendAt ==
  /\ PrepareSend
  /\ mode' = "standby" /\ sender' = "at" /\ late' = TRUE /\ left' = FALSE
  /\ UNCHANGED <<driver, receiver, now, due, got, stood>>

StartSend ==
  /\ sender = "at"
  /\ Start /\ timer' = Never
  /\ UNCHANGED <<rx, continuous, receiver, irq, loaded, now, due, got, stood, late>>

\* poll_send(), once the chip is done or standby() has cleared _tx.
PollSend ==
  /\ sender = "wait"
  /\ \/ ~tx /\ UNCHANGED <<driver, chip, left>>
     \/ /\ tx /\ "tx_done" \in irq
        /\ tx' = FALSE /\ CheckRecv(rx, {}) /\ UNCHANGED continuous
  /\ sender' = "idle"
  /\ UNCHANGED <<receiver, now, due, got, stood, late>>

\* The sending task is cancelled.
SendCancelled ==
  /\ sender # "idle"
  /\ sender' = "idle" /\ left' = TRUE
  /\ UNCHANGED <<driver, receiver, chip, now, due, got, stood, late>>

----------------------------------------------------------------------------
(* Both                                                                    *)

\* standby(), and sleep() which calls it.
Standby ==
  /\ mode' = "standby" /\ irq' = {} /\ timer' = Never
  /\ rx' = Off /\ tx' = FALSE /\ stood' = TRUE /\ left' = FALSE
  /\ UNCHANGED <<continuous, receiver, sender, loaded, now, due, got, late>>

\* The chip: a packet, with a good or a bad CRC; its receive timeout; a packet sent.
ChipReceives ==
  /\ mode \in {"single", "continuous"}
  /\ \E flags \in {{"rx_done"}, {"rx_done", "crc_err"}} : irq' = irq \cup flags
  /\ mode' = IF mode = "single" THEN "standby" ELSE mode
  /\ timer' = Never
  /\ UNCHANGED <<driver, receiver, sender, loaded, now, due, got, stood, left, late>>

ChipTimeout ==
  /\ mode = "single" /\ timer >= 0 /\ now >= timer
  /\ irq' = irq \cup {"timeout"} /\ mode' = "standby" /\ timer' = Never
  /\ UNCHANGED <<driver, receiver, sender, loaded, now, due, got, stood, left, late>>

ChipSent ==
  /\ mode = "tx"
  /\ irq' = irq \cup {"tx_done"} /\ mode' = "standby"
  /\ UNCHANGED <<driver, receiver, sender, loaded, timer, now, due, got, stood, left, late>>

\* Bound: no deadline is left alone for half a period (six days) after it has passed.
Tick ==
  /\ now < MaxTime
  /\ rx >= 0 => now + 1 < due + Period \div 2
  /\ now' = now + 1
  /\ UNCHANGED <<driver, receiver, sender, chip, due, got, stood, left, late>>

ModemTasks ==
  \/ \E timeout \in Timeout \cup {Never}, cont \in BOOLEAN : Recv(timeout, cont)
  \/ \E result \in {"", "packet", "empty"}, rx_crc_error \in BOOLEAN : PollRecv(result, rx_crc_error)
  \/ PollRecvNone \/ RecvCancelled
  \/ PrepareRaises \/ Send \/ SendAt \/ StartSend \/ PollSend \/ SendCancelled \/ Standby

ModemNext == ModemTasks \/ ChipReceives \/ ChipTimeout \/ ChipSent \/ Tick

\* Every wait of a task ends, by its own timeout if not before; a transmission ends;
\* time goes on.
ModemSpec ==
  /\ ModemInit /\ [][ModemNext]_modemVars
  /\ WF_modemVars(PollRecvNone)
  /\ WF_modemVars(\E result \in {"", "packet", "empty"}, rx_crc_error \in BOOLEAN :
                    PollRecv(result, rx_crc_error))
  /\ WF_modemVars(PollSend) /\ WF_modemVars(StartSend)
  /\ WF_modemVars(ChipSent) /\ WF_modemVars(ChipTimeout) /\ WF_modemVars(Tick)

----------------------------------------------------------------------------
(* Properties.                                                             *)

DriverOK == rx \in {Off, On} \cup 0..(Period - 1) /\ continuous \in BOOLEAN /\ tx \in BOOLEAN
ChipOK ==
  /\ mode \in {"standby", "single", "continuous", "tx"}
  /\ irq \subseteq {"rx_done", "crc_err", "timeout", "tx_done"} /\ loaded \in {"rx", "tx"}
  /\ timer \in Nat \cup {Never, Zeroed}
TasksOK ==
  /\ receiver \in {"idle", "wait"} /\ sender \in {"idle", "at", "wait"}
  /\ now \in 0..MaxTime /\ due \in 0..MaxTime \cup {Never}
  /\ got \in {"", "None", "packet", "empty"}
  /\ stood \in BOOLEAN /\ left \in BOOLEAN /\ late \in BOOLEAN
ModemTypeOK == DriverOK /\ ChipOK /\ TasksOK

\* "The receive will automatically resume once the modem finishes sending": with no
\* send in progress a receive that is on is heard by the chip, or an interrupt flag is
\* up for the next poll to act on.  Not so after a send was cancelled, or has raised: then
\* a poll without a flag resumes it (RecvEnds), unless _tx is still set.
Resumed ==
  /\ ModemTypeOK
  /\ receiver = "wait" /\ sender = "idle" /\ Receiving(rx) /\ ~left =>
       mode \in {"single", "continuous"} \/ irq # {}

\* recv() "returns None on timeout", and only then, however often it was suspended and
\* resumed: but for standby(), a deadline that falls on 0 ticks, and an empty packet, which
\* is returned as None at any time.
ReturnedNone(value) == value \in {"None", "empty"}
GivesUpInTime ==
  [][ReturnedNone(got') /\ ~ReturnedNone(got) =>
       \/ due # Never /\ now >= due
       \/ stood \/ (due # Never /\ ticks_ms(due) = 0) \/ got' = "empty"]_modemVars

\* "Send always has priority over receive": nothing but standby() ends a transmission
\* before the chip is done, or what starts next if the task that sent was cancelled or got
\* an error from start_send(); and the chip sends what it was prepared for, unless the
\* sending task slept in between.
SendUndisturbed ==
  [][/\ mode = "tx" /\ mode' # "tx" => "tx_done" \in irq' \/ (stood' /\ ~tx') \/ left
     /\ mode' = "tx" => loaded' = "tx" \/ late']_modemVars

\* A recv() with a timeout ends, whatever is sent meanwhile, or raises now and then.  But
\* not if a send is cancelled once it has started, for then _tx stays set and every poll
\* returns True; nor, with no packet and no send, when the chip was given a timeout whose
\* 24 bits are 0, nor if start_send() raises over and over with the chip sending, for
\* is_idle() is False.  (poll_send() does not see a deadline of 0 ticks pass.)
RecvEnds ==
  (receiver = "wait" /\ due # Never /\ ticks_ms(due) # 0)
    ~> \/ receiver = "idle" \/ (left /\ tx)
       \/ [](mode = "single" /\ timer = Zeroed)
       \/ []<>(left /\ mode = "tx")
============================================================================
