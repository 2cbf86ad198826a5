----------------------------- MODULE UsbConfig -----------------------------
(***************************************************************************)
(* config(), active() and the callbacks of _Device in usb/device/core.py   *)
(* that open and reset interface objects, with desc_cfg(), num_itfs() and  *)
(* num_eps() of the drivers in the repository.  The program configures     *)
(* the device again and again, with other interfaces; the host resets and  *)
(* enumerates it at any time.                                              *)
(***************************************************************************)
EXTENDS Integers, FiniteSets, SequencesExt

CONSTANTS
  Hid, Cdc, Midi,  \* the interface objects the program has, by class
  Protocol,        \* protocol argument of the constructor of each Hid
  ItfMax, EpMax,   \* builtin_driver.itf_max and ep_max
  MaxItfs          \* bound: objects in one configuration

Itf == Hid \cup Cdc \cup Midi

ASSUME ConfigAssumption ==
  /\ Hid \cap Cdc = {} /\ Hid \cap Midi = {} /\ Cdc \cap Midi = {}
  /\ Protocol \in [Hid -> 0..2]
  /\ ItfMax \in Nat /\ EpMax \in Nat /\ MaxItfs \in Nat

VARIABLES
  active,    \* _usbd.active()
  desc,      \* the configuration descriptor handed to _usbd.config(), as the
             \* groups that _open_itf_cb() is called with
  itfs,      \* _Device._itfs
  eps,       \* _Device._eps
  addrs,     \* per object: the endpoint addresses that it saved
  protocol,  \* per Hid: self.protocol
  is_open,      \* per object: _open
  walk,      \* host: groups it has opened since the last reset; NoWalk without one
  opens      \* history: calls of on_open() since the last reset, per object

configVars == <<active, desc, itfs, eps, addrs, protocol, is_open, walk, opens>>

NoWalk == -1

ConfigInit ==
  /\ active = FALSE
  /\ desc = <<>> /\ itfs = <<>> /\ eps = <<>>
  /\ addrs = [i \in Itf |-> {}]
  /\ protocol = Protocol
  /\ is_open = [i \in Itf |-> FALSE]
  /\ walk = NoWalk
  /\ opens = [i \in Itf |-> 0]

\* The dictionary t after t[x] = v for each x in keys.
Store(t, keys, v) == [x \in DOMAIN t \cup keys |-> IF x \in keys THEN v ELSE t[x]]

----------------------------------------------------------------------------
(* config()                                                                *)

NumItfs_One(i) == 1
NumItfs(i) == IF i \in Hid THEN 1 ELSE 2

NumEps_One(i) == 1
NumEps(i) == IF i \in Cdc THEN 2 ELSE 1

\* A group: interface numbers first..last, of object i, with endpoints as and, for
\* a Hid, the protocol it declares.
Group(i, first, last, as, prot) ==
  [itf |-> i, first |-> first, last |-> last, addrs |-> as, prot |-> prot]

\* What desc_cfg(desc, n, e, strs) of each class appends.  A Cdc puts its interfaces
\* in one association; a Midi does not.
HidGroups(i, n, e, prot) == << Group(i, n, n, {<<e, "in">>}, prot[i]) >>

CdcGroups(i, n, e) ==
  << Group(i, n, n + 1, {<<e, "in">>, <<e + 1, "out">>, <<e + 1, "in">>}, 0) >>

MidiGroups(i, n, e) ==
  << Group(i, n, n, {}, 0), Group(i, n + 1, n + 1, {<<e, "in">>, <<e, "out">>}, 0) >>

DescCfg(i, n, e, prot) ==
  CASE i \in Hid  -> HidGroups(i, n, e, prot)
    [] i \in Cdc  -> CdcGroups(i, n, e)
    [] i \in Midi -> MidiGroups(i, n, e)

\* What desc_cfg() leaves in self.protocol of a Hid in list.
AfterDescCfg(list, prot) == [i \in Hid |-> IF i \in ToSet(list) THEN 1 ELSE prot[i]]

\* The loop over itfs: numbers go up by num_itfs() and num_eps().
Place(prot, b, i) ==
  [desc  |-> b.desc \o DescCfg(i, b.itf, b.ep, prot),
   itfs  |-> Store(b.itfs, b.itf .. b.itf + NumItfs(i) - 1, i),
   addrs |-> [b.addrs EXCEPT ![i] =
                UNION {g.addrs : g \in ToSet(DescCfg(i, b.itf, b.ep, prot))}],
   itf   |-> b.itf + NumItfs(i),
   ep    |-> b.ep + NumEps(i)]

FirstEp == IF EpMax > 1 THEN EpMax ELSE 1

Nothing ==
  [desc |-> <<>>, itfs |-> <<>>, addrs |-> addrs, itf |-> ItfMax, ep |-> FirstEp]

Built(list, prot) ==
  LET built[k \in 0..Len(list)] ==
        IF k = 0 THEN Nothing ELSE Place(prot, built[k - 1], list[k])
  IN built[Len(list)]

\* desc_cfg() runs twice: the first pass, that only counts bytes, leaves nothing
\* but what it did to protocol.
Config(list) ==
  /\ ~active
  /\ LET b == Built(list, AfterDescCfg(list, protocol)) IN
       /\ desc' = b.desc
       /\ itfs' = b.itfs
       /\ addrs' = b.addrs
  /\ protocol' = AfterDescCfg(list, protocol)
  /\ UNCHANGED <<active, eps, is_open, walk, opens>>

\* active(value).  The device leaves the bus; a reset follows when the host sees
\* it again, or sooner.
SetActive(value) ==
  /\ active # value
  /\ active' = value
  /\ walk' = NoWalk
  /\ UNCHANGED <<desc, itfs, eps, addrs, protocol, is_open, opens>>

----------------------------------------------------------------------------
(* The host, and TinyUSB's callbacks.                                      *)

\* _reset_cb(): on_reset() of every registered interface.
DeviceReset ==
  /\ is_open' = [i \in Itf |-> is_open[i] /\ i \notin Range(itfs)]
  /\ eps' = <<>>
  /\ walk' = IF active THEN 0 ELSE NoWalk
  /\ opens' = [i \in Itf |-> 0]
  /\ UNCHANGED <<active, desc, itfs, addrs, protocol>>

\* on_open() is put off until the callback for the object's last interface.
Deferred_Never(g, i) == FALSE
Deferred(g, i) == g.last + 1 \in DOMAIN itfs /\ itfs[g.last + 1] = i

\* _open_itf_cb(), for the next interface or association of the configuration.
OpenItfCb ==
  /\ active /\ walk # NoWalk /\ walk < Len(desc)
  /\ walk' = walk + 1
  /\ LET g == desc[walk + 1]
         i == itfs[g.first] IN
       /\ eps' = Store(eps, g.addrs, i)
       /\ IF Deferred(g, i)
          THEN UNCHANGED <<is_open, opens>>
          ELSE /\ is_open' = [is_open EXCEPT ![i] = TRUE]
               /\ opens' = [opens EXCEPT ![i] = @ + 1]
  /\ UNCHANGED <<active, desc, itfs, addrs, protocol>>

\* _control_xfer_cb(): the object that a request for interface n is passed to.
Owner(n) == itfs[n]

\* SET_PROTOCOL for interface n.
SetProtocol(n, value) ==
  /\ walk # NoWalk
  /\ n \in DOMAIN itfs /\ Owner(n) \in Hid
  /\ protocol' = [protocol EXCEPT ![Owner(n)] = value]
  /\ UNCHANGED <<active, desc, itfs, eps, addrs, is_open, walk, opens>>

\* The interface objects of one configuration, each once, in any order.
Lists == {l \in UNION {[1..n -> Itf] : n \in 0..MaxItfs} : IsInjective(l)}

ConfigNext ==
  \/ \E list \in Lists : Config(list)
  \/ \E value \in BOOLEAN : SetActive(value)
  \/ DeviceReset
  \/ OpenItfCb
  \/ \E n \in DOMAIN itfs, value \in 0..1 : SetProtocol(n, value)

ConfigSpec == ConfigInit /\ [][ConfigNext]_configVars

----------------------------------------------------------------------------
(* Properties.                                                             *)

Listed == Range(itfs)

\* The host has opened everything in the configuration.
Configured == walk = Len(desc)

ConfigTypeOK ==
  /\ active \in BOOLEAN
  /\ \A k \in DOMAIN desc : desc[k].itf \in Itf /\ desc[k].first \in DOMAIN itfs
  /\ Range(itfs) \subseteq Itf
  /\ Range(eps) \subseteq Itf
  /\ DOMAIN eps \subseteq (Nat \X {"in", "out"})
  /\ protocol \in [Hid -> 0..2]
  /\ is_open \in [Itf -> BOOLEAN]
  /\ walk \in {NoWalk} \cup 0..Len(desc)
  /\ opens \in [Itf -> 0..2]

\* "This means on_open() is only called once, and that it can safely submit
\* transfers on any of the USB interfaces' endpoints": by the time on_open() is
\* called every endpoint of the object is registered as its own, whether or not
\* its interfaces are in an association and whatever the host opens next to them.
\* And when the host is through, every object of the configuration is open.
OpensOnceReady ==
  /\ walk # NoWalk =>
       \A i \in Itf :
         /\ opens[i] <= 1
         /\ opens[i] = 1 => \A a \in addrs[i] : a \in DOMAIN eps /\ eps[a] = i
  /\ Configured => \A i \in Listed : is_open[i]

\* Endpoint addresses belong to one object each, leave out those of the built-in
\* driver and endpoint 0, and are in the descriptor what the objects saved.
AddressesOwned ==
  /\ ConfigTypeOK
  /\ \A i, j \in Listed : i # j => addrs[i] \cap addrs[j] = {}
  /\ \A i \in Listed : \A a \in addrs[i] : a[1] >= EpMax /\ a[1] > 0
  /\ \A i \in Listed :
       addrs[i] = UNION {desc[k].addrs : k \in {k \in DOMAIN desc : desc[k].itf = i}}

\* A control request for any interface number in the descriptor reaches the object
\* that put it there, and no two interfaces have one number.
ControlReachesOwner ==
  /\ \A k \in DOMAIN desc : \A n \in desc[k].first .. desc[k].last :
       n \in DOMAIN itfs /\ Owner(n) = desc[k].itf
  /\ \A k, l \in DOMAIN desc : k < l => desc[k].last < desc[l].first
  /\ \A n \in DOMAIN itfs : n >= ItfMax
============================================================================
