------------------------- MODULE UsbInterfaceProofs --------------------------
(***************************************************************************)
(* The interface objects: how _Device numbers, opens and resets any of     *)
(* them, in any number and order, and what the HID ones send, for any      *)
(* number of reports.  Each part has its own specification.                *)
(***************************************************************************)
EXTENDS UsbConfig, UsbHid, SequenceTheorems, WellFoundedInduction, TLAPS

----------------------------------------------------------------------------
(***************************************************************************)
(* Configuration.  What config() builds is one table, and the host opens   *)
(* each object once, when it is complete.                                  *)
(***************************************************************************)

Addr == Nat \X {"in", "out"}
GroupType == [itf : Itf, first : Nat, last : Nat, addrs : SUBSET Addr, prot : 0..2]

\* Whether on_open() waits for another callback, by the table t of interfaces.
Waits(t, g) == g.last + 1 \in DOMAIN t /\ t[g.last + 1] = g.itf

(* What config() makes of the descriptor d, of _itfs, t, and of the addresses *)
(* saved, a.                                                                *)

\* Interface numbers ascend through the descriptor, and each leads to its object.
Numbers(d, t) ==
  /\ \A k \in DOMAIN d :
       /\ d[k].first <= d[k].last
       /\ \A n \in d[k].first .. d[k].last : n \in DOMAIN t /\ t[n] = d[k].itf
  /\ \A k, l \in DOMAIN d : k < l => d[k].last < d[l].first
  /\ \A n \in DOMAIN t : n \in Nat /\ n >= ItfMax /\ t[n] \in Itf

\* Only an object's last group does not wait.
Closes(d, t) ==
  /\ \A k, l \in DOMAIN d : k < l /\ d[k].itf = d[l].itf => Waits(t, d[k])
  /\ \A n \in DOMAIN t : \E k \in DOMAIN d : d[k].itf = t[n] /\ ~Waits(t, d[k])

\* Addresses are saved as they are in the descriptor, past those of the built-in
\* driver, and no two objects share one.
Saved(d, t, a) ==
  /\ \A n \in DOMAIN t :
       a[t[n]] = UNION {d[k].addrs : k \in {k \in DOMAIN d : d[k].itf = t[n]}}
  /\ \A k, l \in DOMAIN d : d[k].itf # d[l].itf => d[k].addrs \cap d[l].addrs = {}
  /\ \A k \in DOMAIN d : \A x \in d[k].addrs : x[1] >= FirstEp

Tables(d, t, a) ==
  /\ d \in Seq(GroupType) /\ a \in [Itf -> SUBSET Addr]
  /\ Numbers(d, t) /\ Closes(d, t) /\ Saved(d, t, a)

\* Whatever the protocol of a HID object was, its descriptor says 1, a keyboard's.
DeclaresOne(d) == \A k \in DOMAIN d : d[k].itf \in Hid => d[k].prot = 1

(* What the host has opened of it.                                          *)

Types ==
  /\ active \in BOOLEAN /\ protocol \in [Hid -> 0..2]
  /\ is_open \in [Itf -> BOOLEAN] /\ opens \in [Itf -> 0..1]
  /\ DOMAIN eps \subseteq Addr /\ \A x \in DOMAIN eps : eps[x] \in Itf

Opened ==
  /\ walk \in {NoWalk} \cup 0..Len(desc) /\ (~active => walk = NoWalk)
  /\ walk # NoWalk =>
       /\ \A i \in Itf :
            /\ opens[i] = 1 <=> \E k \in 1..walk : desc[k].itf = i /\ ~Waits(itfs, desc[k])
            /\ opens[i] = 1 => is_open[i]
       /\ \A k \in 1..walk : \A x \in desc[k].addrs :
            x \in DOMAIN eps /\ eps[x] = desc[k].itf

CInv == Tables(desc, itfs, addrs) /\ DeclaresOne(desc) /\ Types /\ Opened

----------------------------------------------------------------------------
(* The loop over the interface objects.                                     *)

\* A set of natural numbers has a least one.
LEMMA LeastNat ==
  ASSUME NEW T, T \subseteq Nat, T # {}
  PROVE  \E x \in T : \A y \in T : x <= y
<1> DEFINE R == OpToRel(<, Nat)
<1>1. IsWellFoundedOn(R, Nat)
  BY NatLessThanWellFounded
<1>2. \A x, y \in Nat : <<y, x>> \in R <=> y < x
  BY DEF OpToRel
<1> HIDE DEF R
<1>3. PICK x \in T : \A y \in T : ~ (<<y, x>> \in R)
  BY <1>1, WFMin
<1>4. ASSUME NEW y \in T
      PROVE  x <= y
  <2>1. x \in Nat /\ y \in Nat /\ ~(y < x)
    BY <1>2, <1>3
  <2> QED
    BY <2>1
<1> QED
  BY <1>4

\* The first k objects are placed.
PlaceAll(f, k, list, prot) ==
  f = [j \in 0..k |-> IF j = 0 THEN Nothing ELSE Place(prot, f[j - 1], list[j])]

\* The loop goes on for any number of objects.
LEMMA LoopRuns ==
  ASSUME NEW list, NEW prot, NEW len \in Nat
  PROVE  \E f : PlaceAll(f, len, list, prot)
<1> DEFINE Bad == {k \in Nat : ~ \E f : PlaceAll(f, k, list, prot)}
<1>1. Bad \subseteq Nat
  OBVIOUS
<1>2. ASSUME Bad # {}
      PROVE  FALSE
  <2> HIDE DEF Bad
  <2>1. PICK k \in Bad : \A j \in Bad : k <= j
    BY <1>1, <1>2, LeastNat
  <2>2. k \in Nat /\ \A j \in 0..(k - 1) : j \notin Bad
    BY <1>1, <2>1
  <2> USE DEF Bad
  <2>3. CASE k = 0
    <3>1. PlaceAll([j \in 0..0 |-> Nothing], 0, list, prot)
      BY DEF PlaceAll
    <3> QED
      BY <2>3, <3>1
  <2>4. CASE k # 0
    <3>1. PICK f : PlaceAll(f, k - 1, list, prot)
      BY <2>2, <2>4
    <3> DEFINE g == [j \in 0..k |-> IF j = k THEN Place(prot, f[k - 1], list[k]) ELSE f[j]]
    <3>2. \A j \in 0..k : g[j] = IF j = 0 THEN Nothing ELSE Place(prot, g[j - 1], list[j])
      <4> SUFFICES ASSUME NEW j \in 0..k
                   PROVE  g[j] = IF j = 0 THEN Nothing ELSE Place(prot, g[j - 1], list[j])
        OBVIOUS
      <4>1. CASE j = k
        <5>1. k - 1 \in 0..k /\ k - 1 # k
          BY <2>2, <2>4
        <5>2. g[k - 1] = f[k - 1] /\ g[j] = Place(prot, f[k - 1], list[k])
          BY <4>1, <5>1
        <5> QED
          BY <2>4, <4>1, <5>2
      <4>2. CASE j # k
        <5>1. j \in 0..(k - 1) /\ g[j] = f[j]
          BY <2>2, <4>2
        <5>2. f[j] = IF j = 0 THEN Nothing ELSE Place(prot, f[j - 1], list[j])
          BY <3>1, <5>1 DEF PlaceAll
        <5>3. CASE j # 0
          <6>1. j - 1 \in 0..k /\ j - 1 # k
            BY <2>2, <5>3
          <6> QED
            BY <5>1, <5>2, <5>3, <6>1
        <5> QED
          BY <5>1, <5>2, <5>3
      <4> QED
        BY <4>1, <4>2
    <3>3. PlaceAll(g, k, list, prot)
      <4> HIDE DEF g
      <4>1. g = [j \in 0..k |-> g[j]]
        BY DEF g
      <4> QED
        BY <3>2, <4>1 DEF PlaceAll
    <3> QED
      BY <3>3
  <2> QED
    BY <2>3, <2>4
<1> QED
  BY <1>2

\* Built() is where the loop ends.
LEMMA BuiltLoop ==
  ASSUME NEW list, NEW prot, Len(list) \in Nat
  PROVE  \E f : PlaceAll(f, Len(list), list, prot) /\ Built(list, prot) = f[Len(list)]
<1> DEFINE f == CHOOSE f : PlaceAll(f, Len(list), list, prot)
<1>1. PlaceAll(f, Len(list), list, prot)
  BY LoopRuns
<1>2. Built(list, prot) = f[Len(list)]
  BY DEF Built, PlaceAll
<1> QED
  BY <1>1, <1>2

\* What is known after the objects of L: the numbers given are below b.itf and b.ep.
Placed(b, L, prot) ==
  /\ b.itf \in Nat /\ b.itf >= ItfMax /\ b.ep \in Nat /\ b.ep >= FirstEp
  /\ Tables(b.desc, b.itfs, b.addrs)
  /\ DOMAIN b.itfs = ItfMax .. b.itf - 1 /\ \A n \in DOMAIN b.itfs : b.itfs[n] \in L
  /\ \A k \in DOMAIN b.desc :
       /\ b.desc[k].itf \in L /\ \A x \in b.desc[k].addrs : x[1] < b.ep
       /\ b.desc[k].itf \in Hid => b.desc[k].prot = prot[b.desc[k].itf]

\* The groups d of one object i, with its interfaces n..m, endpoints e..f and protocol p.
Block(d, i, n, m, e, f, p) ==
  /\ d \in Seq(GroupType) /\ Len(d) > 0 /\ d[Len(d)].last = m
  /\ \A k \in 1..Len(d) :
       /\ d[k].itf = i /\ n <= d[k].first /\ d[k].first <= d[k].last /\ d[k].last <= m
       /\ k # Len(d) => d[k].last < m
       /\ \A x \in d[k].addrs : e <= x[1] /\ x[1] <= f
       /\ i \in Hid => d[k].prot = p
  /\ \A k, l \in 1..Len(d) : k < l => d[k].last < d[l].first

\* desc_cfg() of each class: as many interfaces and endpoints as num_itfs() and num_eps() say.
LEMMA DescCfgBlock ==
  ASSUME NEW i \in Itf, NEW n \in Nat, NEW e \in Nat, NEW prot \in [Hid -> 0..2]
  PROVE  Block(DescCfg(i, n, e, prot), i, n, n + NumItfs(i) - 1, e, e + NumEps(i) - 1,
               prot[i])
<1> USE DEF Group
<1> DEFINE d == DescCfg(i, n, e, prot)
<1>1. CASE i \in Hid
  <2>1. d = << Group(i, n, n, {<<e, "in">>}, prot[i]) >> /\ NumItfs(i) = 1 /\ NumEps(i) = 1
    BY <1>1, ConfigAssumption DEF DescCfg, HidGroups, NumItfs, NumEps
  <2>2. Group(i, n, n, {<<e, "in">>}, prot[i]) \in GroupType
    BY <1>1 DEF GroupType, Addr
  <2> HIDE DEF d
  <2>3. d \in Seq(GroupType) /\ Len(d) = 1 /\ d[1] = Group(i, n, n, {<<e, "in">>}, prot[i])
    BY <2>1, <2>2
  <2> QED
    BY <2>1, <2>3 DEF Block, d
<1>2. CASE i \in Cdc
  <2> DEFINE as == {<<e, "in">>, <<e + 1, "out">>, <<e + 1, "in">>}
  <2>1. d = << Group(i, n, n + 1, as, 0) >> /\ i \notin Hid /\ NumItfs(i) = 2 /\ NumEps(i) = 2
    BY <1>2, ConfigAssumption DEF DescCfg, CdcGroups, NumItfs, NumEps
  <2>2. Group(i, n, n + 1, as, 0) \in GroupType
    BY <1>2 DEF GroupType, Addr
  <2> HIDE DEF d
  <2>3. d \in Seq(GroupType) /\ Len(d) = 1 /\ d[1] = Group(i, n, n + 1, as, 0)
    BY <2>1, <2>2
  <2> QED
    BY <2>1, <2>3 DEF Block, d
<1>3. CASE i \in Midi
  <2> DEFINE as == {<<e, "in">>, <<e, "out">>}
             g == Group(i, n, n, {}, 0)
             h == Group(i, n + 1, n + 1, as, 0)
  <2>1. d = << g, h >> /\ i \notin Hid /\ NumItfs(i) = 2 /\ NumEps(i) = 1
    BY <1>3, ConfigAssumption DEF DescCfg, MidiGroups, NumItfs, NumEps
  <2>2. g \in GroupType /\ h \in GroupType
    BY <1>3 DEF GroupType, Addr
  <2> HIDE DEF d
  <2>3. d \in Seq(GroupType) /\ Len(d) = 2 /\ d[1] = g /\ d[2] = h
    <3> HIDE DEF g, h
    <3> QED
      BY <2>1, <2>2
  <2>4. /\ g.itf = i /\ g.first = n /\ g.last = n /\ g.addrs = {}
        /\ h.itf = i /\ h.first = n + 1 /\ h.last = n + 1 /\ h.addrs = as
    OBVIOUS
  <2> HIDE DEF g, h
  <2>5. \A k \in 1..2 : k = 1 \/ k = 2
    OBVIOUS
  <2> QED
    BY <2>1, <2>3, <2>4, <2>5 DEF Block, d
<1> QED
  BY <1>1, <1>2, <1>3 DEF Itf

\* One turn of the loop: what was there stays, and the new groups come after it.
LEMMA PlacePlaced ==
  ASSUME NEW prot \in [Hid -> 0..2], NEW L, NEW b, Placed(b, L, prot), NEW i \in Itf, i \notin L
  PROVE  Placed(Place(prot, b, i), L \cup {i}, prot)
<1> DEFINE d == b.desc
           t == b.itfs
           a == b.addrs
           n == b.itf
           e == b.ep
           m == n + NumItfs(i) - 1
           f == e + NumEps(i) - 1
           g == DescCfg(i, n, e, prot)
           dd == d \o g
           tt == Store(t, n .. m, i)
           as == UNION {h.addrs : h \in ToSet(g)}
           aa == [a EXCEPT ![i] = as]
<1>0. \A k \in DOMAIN d : d[k].itf \in Hid => d[k].prot = prot[d[k].itf]
  BY DEF Placed
<1>1. /\ n \in Nat /\ n >= ItfMax /\ e \in Nat /\ e >= FirstEp
      /\ Tables(d, t, a)
      /\ DOMAIN t = ItfMax .. n - 1 /\ \A x \in DOMAIN t : t[x] \in L
      /\ \A k \in DOMAIN d : d[k].itf \in L /\ \A x \in d[k].addrs : x[1] < e
  BY DEF Placed
<1>2. NumItfs(i) \in 1..2 /\ NumEps(i) \in 1..2 /\ ItfMax \in Nat /\ FirstEp \in Nat
  BY ConfigAssumption DEF NumItfs, NumEps, FirstEp
<1>3. Block(g, i, n, m, e, f, prot[i])
  BY <1>1, DescCfgBlock
<1>4. LET c == Place(prot, b, i)
      IN  /\ c.desc = dd /\ c.itfs = tt /\ c.addrs = aa
          /\ c.itf = n + NumItfs(i) /\ c.ep = e + NumEps(i)
  BY DEF Place
<1> HIDE DEF d, t, a, n, e, g
<1>5. m \in Nat /\ f \in Nat /\ n <= m /\ e <= f
  BY <1>1, <1>2
<1> HIDE DEF m, f
<1>6. /\ d \in Seq(GroupType) /\ Len(d) \in Nat /\ DOMAIN d = 1..Len(d)
      /\ g \in Seq(GroupType) /\ Len(g) \in Nat /\ DOMAIN g = 1..Len(g)
  BY <1>1, <1>3, LenProperties DEF Tables, Block
<1>7. /\ dd \in Seq(GroupType) /\ DOMAIN dd = 1..(Len(d) + Len(g))
      /\ \A k \in 1..Len(d) : dd[k] = d[k]
      /\ \A k \in (Len(d) + 1)..(Len(d) + Len(g)) :
           k - Len(d) \in 1..Len(g) /\ dd[k] = g[k - Len(d)]
  <2>1. /\ dd \in Seq(GroupType) /\ Len(dd) = Len(d) + Len(g)
        /\ \A k \in 1..(Len(d) + Len(g)) :
             dd[k] = IF k <= Len(d) THEN d[k] ELSE g[k - Len(d)]
    BY <1>6, ConcatProperties
  <2>2. DOMAIN dd = 1..Len(dd)
    BY <2>1, LenProperties
  <2> HIDE DEF dd
  <2> QED
    BY <1>6, <2>1, <2>2
<1>8. /\ DOMAIN tt = ItfMax..m
      /\ \A x \in DOMAIN t : tt[x] = t[x]
      /\ \A x \in n..m : tt[x] = i
  <2>1. tt = [x \in DOMAIN t \cup (n..m) |-> IF x \in n..m THEN i ELSE t[x]]
    BY DEF Store
  <2>2. DOMAIN t \cup (n..m) = ItfMax..m
    BY <1>1, <1>2, <1>5
  <2>3. \A x \in n..m : x \notin DOMAIN t
    BY <1>1, <1>2, <1>5
  <2> HIDE DEF tt
  <2> QED
    BY <2>1, <2>2, <2>3
<1> HIDE DEF dd, tt
<1> DEFINE Old == 1..Len(d)
           New == (Len(d) + 1)..(Len(d) + Len(g))
<1>9. /\ DOMAIN dd = Old \cup New
      /\ \A k \in Old : k \in Nat /\ dd[k] = d[k] /\ dd[k].itf \in L /\ dd[k].itf # i
                        /\ \A x \in dd[k].addrs : x[1] < e
      /\ \A k \in Old, l \in New : k < l
  <2>1. DOMAIN dd = Old \cup New /\ \A k \in Old, l \in New : k < l
    BY <1>6, <1>7
  <2>2. \A k \in Old : k \in Nat /\ k \in DOMAIN d /\ dd[k] = d[k]
    BY <1>6, <1>7
  <2> HIDE DEF Old, New
  <2>3. \A k \in Old : d[k].itf \in L /\ d[k].itf # i /\ \A x \in d[k].addrs : x[1] < e
    BY <1>1, <2>2
  <2> QED
    BY <2>1, <2>2, <2>3
<1>10. \A k \in New :
         /\ k \in Nat /\ dd[k].itf = i /\ dd[k] \in GroupType
         /\ n <= dd[k].first /\ dd[k].first <= dd[k].last /\ dd[k].last <= m
         /\ \A x \in dd[k].addrs : e <= x[1] /\ x[1] <= f
         /\ IF k = Len(d) + Len(g) THEN dd[k].last = m ELSE dd[k].last < m
         /\ \A l \in New : k < l => dd[k].last < dd[l].first
  <2> SUFFICES ASSUME NEW k \in New
               PROVE  /\ k \in Nat /\ dd[k].itf = i /\ dd[k] \in GroupType
                      /\ n <= dd[k].first /\ dd[k].first <= dd[k].last /\ dd[k].last <= m
                      /\ \A x \in dd[k].addrs : e <= x[1] /\ x[1] <= f
                      /\ IF k = Len(d) + Len(g) THEN dd[k].last = m ELSE dd[k].last < m
                      /\ \A l \in New : k < l => dd[k].last < dd[l].first
    OBVIOUS
  <2>1. k \in Nat /\ k - Len(d) \in 1..Len(g) /\ dd[k] = g[k - Len(d)]
    BY <1>6, <1>7
  <2>2. (k = Len(d) + Len(g)) <=> (k - Len(d) = Len(g))
    BY <1>6, <2>1
  <2>3. ASSUME NEW l \in New, k < l
        PROVE  dd[k].last < dd[l].first
    <3>1. l - Len(d) \in 1..Len(g) /\ dd[l] = g[l - Len(d)] /\ k - Len(d) < l - Len(d)
      BY <1>6, <1>7, <2>1, <2>3
    <3> QED
      BY <1>3, <2>1, <3>1 DEF Block
  <2>4. dd[k] \in GroupType
    BY <1>6, <2>1
  <2> QED
    BY <1>3, <2>1, <2>2, <2>3, <2>4 DEF Block
<1>11. \A k \in Old : dd[k] \in GroupType /\ dd[k].first \in Nat /\ dd[k].last \in Nat
                      /\ dd[k].first <= dd[k].last /\ dd[k].last < n
  <2> SUFFICES ASSUME NEW k \in Old
               PROVE  dd[k] \in GroupType /\ dd[k].first \in Nat /\ dd[k].last \in Nat
                      /\ dd[k].first <= dd[k].last /\ dd[k].last < n
    OBVIOUS
  <2>1. dd[k] = d[k] /\ d[k] \in GroupType
    BY <1>6, <1>9
  <2>2. d[k].first \in Nat /\ d[k].last \in Nat
    BY <2>1 DEF GroupType
  <2>3. d[k].first <= d[k].last /\ d[k].last \in DOMAIN t
    BY SMTT(30), <1>1, <1>6, <2>2 DEF Tables, Numbers
  <2> QED
    BY <1>1, <1>2, <2>1, <2>2, <2>3
<1>12. Numbers(dd, tt)
  <2>1. \A k \in DOMAIN dd :
          /\ dd[k].first <= dd[k].last
          /\ \A x \in dd[k].first .. dd[k].last : x \in DOMAIN tt /\ tt[x] = dd[k].itf
    <3> SUFFICES ASSUME NEW k \in DOMAIN dd
                 PROVE  /\ dd[k].first <= dd[k].last
                        /\ \A x \in dd[k].first .. dd[k].last : x \in DOMAIN tt /\ tt[x] = dd[k].itf
      OBVIOUS
    <3>1. CASE k \in Old
      <4>1. \A x \in d[k].first .. d[k].last : x \in DOMAIN t /\ t[x] = d[k].itf
        BY <1>1, <1>6, <3>1 DEF Tables, Numbers
      <4>2. DOMAIN t \subseteq DOMAIN tt
        BY <1>1, <1>2, <1>5, <1>8
      <4> QED
        BY <1>8, <1>9, <1>11, <3>1, <4>1, <4>2
    <3>2. CASE k \in New
      <4>1. dd[k].first \in Nat /\ dd[k].last \in Nat
        BY <1>10, <3>2 DEF GroupType
      <4>2. \A x \in dd[k].first .. dd[k].last : x \in n..m
        BY <1>1, <1>5, <1>10, <3>2, <4>1
      <4>3. n..m \subseteq DOMAIN tt
        BY <1>1, <1>2, <1>5, <1>8
      <4> QED
        BY <1>8, <1>10, <3>2, <4>2, <4>3
    <3> QED
      BY <1>9, <3>1, <3>2
  <2>2. \A k, l \in DOMAIN dd : k < l => dd[k].last < dd[l].first
    <3> SUFFICES ASSUME NEW k \in DOMAIN dd, NEW l \in DOMAIN dd, k < l
                 PROVE  dd[k].last < dd[l].first
      OBVIOUS
    <3>1. CASE k \in Old /\ l \in Old
      BY <1>1, <1>6, <1>9, <3>1 DEF Tables, Numbers
    <3>2. CASE k \in Old /\ l \in New
      <4>1. dd[l].first \in Nat
        BY <1>10, <3>2 DEF GroupType
      <4> QED
        BY <1>1, <1>10, <1>11, <3>2, <4>1
    <3>3. CASE k \in New /\ l \in New
      BY <1>10, <3>3
    <3>4. ~(k \in New /\ l \in Old)
      BY <1>6
    <3> QED
      BY <1>9, <3>1, <3>2, <3>3, <3>4
  <2>3. \A x \in DOMAIN tt : x \in Nat /\ x >= ItfMax /\ tt[x] \in Itf
    <3> SUFFICES ASSUME NEW x \in DOMAIN tt
                 PROVE  x \in Nat /\ x >= ItfMax /\ tt[x] \in Itf
      OBVIOUS
    <3>1. x \in Nat /\ x >= ItfMax /\ (x \in DOMAIN t \/ x \in n..m)
      BY <1>1, <1>2, <1>5, <1>8
    <3> QED
      BY <1>1, <1>8, <3>1 DEF Tables, Numbers
  <2> QED
    BY <2>1, <2>2, <2>3 DEF Numbers
<1>13. \A k \in Old : Waits(tt, dd[k]) <=> Waits(t, d[k])
  <2> SUFFICES ASSUME NEW k \in Old
               PROVE  Waits(tt, dd[k]) <=> Waits(t, d[k])
    OBVIOUS
  <2>1. dd[k] = d[k] /\ dd[k].last + 1 \in Nat /\ dd[k].last + 1 <= n /\ dd[k].itf # i
    BY <1>1, <1>9, <1>11
  <2>2. CASE dd[k].last + 1 \in DOMAIN t
    <3>1. dd[k].last + 1 \in DOMAIN tt
      BY <1>1, <1>2, <1>5, <1>8, <2>2
    <3> QED
      BY <1>8, <2>1, <2>2, <3>1 DEF Waits
  <2>3. CASE dd[k].last + 1 \notin DOMAIN t
    <3>1. dd[k].last + 1 \in DOMAIN tt => dd[k].last + 1 \in n..m
      BY <1>1, <1>2, <1>5, <1>8, <2>1, <2>3
    <3> QED
      BY <1>8, <2>1, <2>3, <3>1 DEF Waits
  <2> QED
    BY <2>2, <2>3
<1>14. \A k \in New : Waits(tt, dd[k]) <=> k # Len(d) + Len(g)
  <2> SUFFICES ASSUME NEW k \in New
               PROVE  Waits(tt, dd[k]) <=> k # Len(d) + Len(g)
    OBVIOUS
  <2>1. dd[k].itf = i /\ dd[k].last \in Nat /\ n <= dd[k].last
    <3>1. dd[k].first \in Nat /\ dd[k].last \in Nat
      BY <1>10 DEF GroupType
    <3> QED
      BY <1>1, <1>10, <3>1
  <2>2. CASE k = Len(d) + Len(g)
    <3>1. dd[k].last + 1 \notin DOMAIN tt
      BY <1>5, <1>8, <1>10, <2>2
    <3> QED
      BY <2>2, <3>1 DEF Waits
  <2>3. CASE k # Len(d) + Len(g)
    <3>1. dd[k].last < m
      BY <1>10, <2>3
    <3>2. dd[k].last + 1 \in n..m /\ dd[k].last + 1 \in DOMAIN tt
      BY SMTT(30), <1>1, <1>2, <1>5, <1>8, <2>1, <3>1
    <3> QED
      BY <1>8, <2>1, <2>3, <3>2 DEF Waits
  <2> QED
    BY <2>2, <2>3
<1>15. Len(d) + Len(g) \in New
  <2>1. Len(g) > 0
    BY <1>3 DEF Block
  <2> QED
    BY <1>6, <2>1
<1>16. Closes(dd, tt)
  <2>1. ASSUME NEW k \in DOMAIN dd, NEW l \in DOMAIN dd, k < l, dd[k].itf = dd[l].itf
        PROVE  Waits(tt, dd[k])
    <3>1. CASE k \in Old
      <4>1. l \in Old
        BY <1>9, <1>10, <2>1, <3>1
      <4>2. Waits(t, d[k])
        BY <1>1, <1>6, <1>9, <2>1, <3>1, <4>1 DEF Tables, Closes
      <4> QED
        BY <1>13, <3>1, <4>2
    <3>2. CASE k \in New
      <4>1. l \in New
        BY <1>6, <1>9, <2>1, <3>2
      <4>2. k # Len(d) + Len(g)
        BY <1>6, <2>1, <3>2, <4>1
      <4> QED
        BY <1>14, <3>2, <4>2
    <3> QED
      BY <1>9, <3>1, <3>2
  <2>2. ASSUME NEW x \in DOMAIN tt
        PROVE  \E k \in DOMAIN dd : dd[k].itf = tt[x] /\ ~Waits(tt, dd[k])
    <3>1. CASE x \in DOMAIN t
      <4>1. PICK k \in DOMAIN d : d[k].itf = t[x] /\ ~Waits(t, d[k])
        BY <1>1, <3>1 DEF Tables, Closes
      <4>2. k \in Old /\ k \in DOMAIN dd
        BY <1>6, <1>9
      <4> QED
        BY <1>8, <1>9, <1>13, <3>1, <4>1, <4>2
    <3>2. CASE x \in n..m
      BY <1>8, <1>9, <1>10, <1>14, <1>15, <3>2
    <3>3. x \in DOMAIN t \/ x \in n..m
      BY <1>1, <1>2, <1>5, <1>8, <2>2
    <3> QED
      BY <3>1, <3>2, <3>3
  <2> QED
    BY <2>1, <2>2 DEF Closes
<1>17. /\ aa \in [Itf -> SUBSET Addr] /\ aa[i] = as
       /\ \A j \in Itf \ {i} : aa[j] = a[j]
  <2>1. as \in SUBSET Addr
    <3>1. \A h \in ToSet(g) : h \in GroupType
      BY <1>6 DEF ToSet
    <3>2. \A h \in ToSet(g) : h.addrs \in SUBSET Addr
      BY <3>1 DEF GroupType
    <3> QED
      BY <3>2
  <2>2. a \in [Itf -> SUBSET Addr]
    BY <1>1 DEF Tables
  <2> HIDE DEF as
  <2> QED
    BY <2>1, <2>2
<1>18. Saved(dd, tt, aa)
  <2> DEFINE Of(j) == UNION {dd[k].addrs : k \in {k \in DOMAIN dd : dd[k].itf = j}}
  <2>1. Of(i) = as
    <3>1. ASSUME NEW k \in DOMAIN dd, dd[k].itf = i
          PROVE  dd[k] \in ToSet(g)
      <4>1. k \in New
        BY <1>9, <3>1
      <4> QED
        BY <1>6, <1>7, <4>1 DEF ToSet
    <3>2. ASSUME NEW h \in ToSet(g)
          PROVE  \E k \in DOMAIN dd : dd[k].itf = i /\ dd[k] = h
      <4>1. PICK j \in 1..Len(g) : h = g[j]
        BY <1>6 DEF ToSet
      <4>2. j + Len(d) \in New /\ (j + Len(d)) - Len(d) = j
        BY <1>6
      <4>3. dd[j + Len(d)] = h
        BY <1>7, <4>1, <4>2
      <4> QED
        BY <1>9, <1>10, <4>2, <4>3
    <3> QED
      BY <3>1, <3>2
  <2>2. ASSUME NEW x \in DOMAIN t
        PROVE  Of(t[x]) = a[t[x]]
    <3>1. a[t[x]] = UNION {d[k].addrs : k \in {k \in DOMAIN d : d[k].itf = t[x]}}
      BY <1>1 DEF Tables, Saved
    <3>2. t[x] # i
      BY <1>1
    <3>3. \A k \in DOMAIN dd : dd[k].itf = t[x] <=> k \in DOMAIN d /\ d[k].itf = t[x]
      BY <1>6, <1>9, <1>10, <3>2
    <3>4. \A k \in DOMAIN d : dd[k] = d[k] /\ k \in DOMAIN dd
      BY <1>6, <1>9
    <3> QED
      BY <3>1, <3>3, <3>4
  <2>3. ASSUME NEW x \in DOMAIN tt
        PROVE  aa[tt[x]] = Of(tt[x])
    <3>1. x \in DOMAIN t \/ x \in n..m
      BY <1>1, <1>2, <1>5, <1>8, <2>3
    <3>2. CASE x \in DOMAIN t
      <4>1. tt[x] = t[x] /\ t[x] \in Itf \ {i}
        BY <1>1, <1>8, <3>2 DEF Tables, Numbers
      <4> HIDE DEF Of, aa
      <4> QED
        BY <1>17, <2>2, <3>2, <4>1
    <3>3. CASE x \in n..m
      <4> HIDE DEF Of, aa
      <4> QED
        BY <1>8, <1>17, <2>1, <3>3
    <3> QED
      BY <3>1, <3>2, <3>3
  <2>4. ASSUME NEW k \in DOMAIN dd, NEW l \in DOMAIN dd, dd[k].itf # dd[l].itf
        PROVE  dd[k].addrs \cap dd[l].addrs = {}
    <3>1. CASE k \in Old /\ l \in Old
      BY <1>1, <1>6, <1>9, <2>4, <3>1 DEF Tables, Saved
    <3>2. ASSUME NEW r \in Old, NEW s \in New
          PROVE  dd[r].addrs \cap dd[s].addrs = {}
      <4>1. ASSUME NEW x \in dd[r].addrs, x \in dd[s].addrs
            PROVE  FALSE
        <5>1. x \in Addr
          BY <1>10, <4>1 DEF GroupType
        <5>2. x[1] \in Nat
          BY <5>1 DEF Addr
        <5> QED
          BY <1>1, <1>9, <1>10, <4>1, <5>2
      <4> QED
        BY <4>1
    <3>3. ~(k \in New /\ l \in New)
      BY <1>10, <2>4
    <3> QED
      BY <1>9, <3>1, <3>2, <3>3
  <2>5. ASSUME NEW k \in DOMAIN dd, NEW x \in dd[k].addrs
        PROVE  x[1] >= FirstEp
    <3>1. CASE k \in Old
      BY <1>1, <1>6, <1>9, <3>1 DEF Tables, Saved
    <3>2. CASE k \in New
      <4>1. x \in Addr
        BY <1>10, <2>5, <3>2 DEF GroupType
      <4>2. x[1] \in Nat
        BY <4>1 DEF Addr
      <4> QED
        BY <1>1, <1>2, <1>10, <2>5, <3>2, <4>2
    <3> QED
      BY <1>9, <3>1, <3>2
  <2> QED
    BY <2>3, <2>4, <2>5 DEF Saved
<1> HIDE DEF aa, as
<1>19. Tables(dd, tt, aa)
  BY <1>7, <1>12, <1>16, <1>17, <1>18 DEF Tables
<1>20. /\ n + NumItfs(i) \in Nat /\ n + NumItfs(i) >= ItfMax /\ m = n + NumItfs(i) - 1
       /\ e + NumEps(i) \in Nat /\ e + NumEps(i) >= FirstEp /\ f = e + NumEps(i) - 1
  BY <1>1, <1>2 DEF m, f
<1>21. DOMAIN tt = ItfMax .. (n + NumItfs(i)) - 1 /\ \A x \in DOMAIN tt : tt[x] \in L \cup {i}
  <2>1. \A x \in DOMAIN tt : x \in DOMAIN t \/ x \in n..m
    BY <1>1, <1>2, <1>5, <1>8
  <2>2. (n + NumItfs(i)) - 1 = m
    BY SMTT(30), <1>1, <1>2, <1>20
  <2> QED
    BY <1>1, <1>8, <2>1, <2>2
<1>22. \A k \in DOMAIN dd :
         dd[k].itf \in L \cup {i} /\ \A x \in dd[k].addrs : x[1] < e + NumEps(i)
  <2> SUFFICES ASSUME NEW k \in DOMAIN dd
               PROVE  dd[k].itf \in L \cup {i} /\ \A x \in dd[k].addrs : x[1] < e + NumEps(i)
    OBVIOUS
  <2>1. dd[k] \in GroupType
    BY <1>9, <1>10, <1>11
  <2>2. \A x \in dd[k].addrs : x[1] \in Nat
    BY <2>1 DEF GroupType, Addr
  <2>3. dd[k].itf \in L \cup {i} /\ \A x \in dd[k].addrs : x[1] < e \/ x[1] <= f
    BY <1>9, <1>10
  <2>4. e \in Nat /\ f \in Nat /\ NumEps(i) \in Nat /\ e <= f /\ e + NumEps(i) = f + 1
    BY SMTT(30), <1>1, <1>2, <1>5, <1>20
  <2>5. ASSUME NEW x \in dd[k].addrs
        PROVE  x[1] < e + NumEps(i)
    <3>1. x[1] \in Nat /\ (x[1] < e \/ x[1] <= f)
      BY <2>2, <2>3
    <3> QED
      BY <2>4, <3>1
  <2> QED
    BY <2>3, <2>5
<1>23. \A k \in DOMAIN dd : dd[k].itf \in Hid => dd[k].prot = prot[dd[k].itf]
  <2>1. \A k \in Old : dd[k].itf \in Hid => dd[k].prot = prot[dd[k].itf]
    BY <1>0, <1>6, <1>9
  <2>2. ASSUME NEW k \in New, dd[k].itf \in Hid
        PROVE  dd[k].prot = prot[dd[k].itf]
    <3>1. dd[k].itf = i
      BY <1>10
    <3>2. k - Len(d) \in 1..Len(g) /\ dd[k] = g[k - Len(d)]
      BY <1>7
    <3> QED
      BY <1>3, <2>2, <3>1, <3>2 DEF Block
  <2> QED
    BY <1>9, <2>1, <2>2
<1> QED
  BY <1>4, <1>19, <1>20, <1>21, <1>22, <1>23 DEF Placed

LEMMA NothingPlaced ==
  ASSUME addrs \in [Itf -> SUBSET Addr], NEW prot
  PROVE  Placed(Nothing, {}, prot)
<1>1. Nothing.desc = <<>> /\ Nothing.itfs = <<>> /\ Nothing.addrs = addrs
      /\ Nothing.itf = ItfMax /\ Nothing.ep = FirstEp
  BY DEF Nothing
<1>2. FirstEp \in Nat /\ ItfMax \in Nat
  BY ConfigAssumption DEF FirstEp
<1>3. <<>> \in Seq(GroupType) /\ DOMAIN <<>> = {} /\ ItfMax .. ItfMax - 1 = {}
  BY <1>2
<1>4. Tables(<<>>, <<>>, addrs)
  BY <1>3 DEF Tables, Numbers, Closes, Saved
<1> QED
  BY <1>1, <1>2, <1>3, <1>4 DEF Placed

\* The whole loop, over objects that are in the list once each.
LEMMA BuiltTables ==
  ASSUME addrs \in [Itf -> SUBSET Addr], NEW list \in Lists, NEW prot \in [Hid -> 0..2]
  PROVE  LET b == Built(list, prot)
         IN  /\ Tables(b.desc, b.itfs, b.addrs)
             /\ \A k \in DOMAIN b.desc :
                  /\ b.desc[k].itf \in ToSet(list)
                  /\ b.desc[k].itf \in Hid => b.desc[k].prot = prot[b.desc[k].itf]
<1>1. PICK len \in Nat : list \in [1..len -> Itf] /\ IsInjective(list)
  BY ConfigAssumption DEF Lists
<1>2. Len(list) = len
  BY <1>1
<1>3. PICK f : PlaceAll(f, len, list, prot) /\ Built(list, prot) = f[len]
  BY <1>2, BuiltLoop
<1> DEFINE L(k) == {list[j] : j \in 1..k}
           Bad == {k \in 0..len : ~Placed(f[k], L(k), prot)}
<1>4. ASSUME Bad # {}
      PROVE  FALSE
  <2>1. Bad \subseteq Nat
    OBVIOUS
  <2> HIDE DEF Bad
  <2>2. PICK k \in Bad : \A j \in Bad : k <= j
    BY <1>4, <2>1, LeastNat
  <2> USE DEF Bad
  <2>3. k \in 0..len /\ ~Placed(f[k], L(k), prot)
    BY <2>2
  <2>4. CASE k = 0
    <3>1. f[k] = Nothing /\ L(k) = {}
      BY <1>3, <2>3, <2>4 DEF PlaceAll
    <3> QED
      BY <2>3, <3>1, NothingPlaced
  <2>5. CASE k # 0
    <3>1. k - 1 \in 0..len /\ ~(k <= k - 1) /\ k \in 1..len
      BY <2>3, <2>5
    <3>2. k - 1 \notin Bad
      <4> HIDE DEF Bad
      <4> QED
        BY <2>2, <3>1
    <3>3. Placed(f[k - 1], L(k - 1), prot)
      BY <3>1, <3>2
    <3>4. f[k] = Place(prot, f[k - 1], list[k])
      BY <1>3, <2>3, <2>5 DEF PlaceAll
    <3>5. list[k] \in Itf /\ list[k] \notin L(k - 1)
      <4>1. \A j \in 1..(k - 1) : j \in 1..len /\ j # k
        BY <2>3
      <4> QED
        BY <1>1, <3>1, <4>1 DEF IsInjective
    <3>6. L(k) = L(k - 1) \cup {list[k]}
      <4>1. 1..k = (1..(k - 1)) \cup {k}
        BY <3>1
      <4> QED
        BY <4>1
    <3> HIDE DEF L, Bad
    <3>7. Placed(f[k], L(k - 1) \cup {list[k]}, prot)
      BY <3>3, <3>4, <3>5, PlacePlaced
    <3> QED
      BY <2>3, <3>6, <3>7
  <2> QED
    BY <2>4, <2>5
<1>5. Placed(f[len], L(len), prot)
  <2>1. len \in 0..len
    OBVIOUS
  <2> QED
    BY <1>4, <2>1
<1>6. L(len) = ToSet(list)
  BY <1>1, <1>2 DEF ToSet
<1> HIDE DEF L
<1> QED
  BY <1>3, <1>5, <1>6 DEF Placed

----------------------------------------------------------------------------
(* Any sequence of configurations, resets and enumerations.                 *)

LEMMA InitCInv ==
  ConfigInit => CInv
<1> SUFFICES ASSUME ConfigInit
             PROVE  CInv
  OBVIOUS
<1>1. desc = <<>> /\ itfs = <<>> /\ eps = <<>> /\ addrs = [i \in Itf |-> {}]
  BY DEF ConfigInit
<1>2. addrs \in [Itf -> SUBSET Addr]
  BY <1>1
<1>3. Tables(desc, itfs, addrs)
  <2>1. Placed(Nothing, {}, Protocol)
    BY <1>2, NothingPlaced
  <2>2. Nothing.desc = desc /\ Nothing.itfs = itfs /\ Nothing.addrs = addrs
    BY <1>1 DEF Nothing
  <2> QED
    BY <2>1, <2>2 DEF Placed
<1>4. Types
  <2>1. active = FALSE /\ protocol = Protocol
        /\ is_open = [i \in Itf |-> FALSE] /\ opens = [i \in Itf |-> 0]
    BY DEF ConfigInit
  <2>2. is_open \in [Itf -> BOOLEAN] /\ opens \in [Itf -> 0..1]
    BY <2>1
  <2>3. DOMAIN eps = {}
    BY <1>1
  <2> QED
    BY <2>1, <2>2, <2>3, ConfigAssumption DEF Types
<1>5. Opened
  BY DEF ConfigInit, Opened, NoWalk
<1>6. DeclaresOne(desc)
  BY <1>1 DEF DeclaresOne
<1> QED
  BY <1>3, <1>4, <1>5, <1>6 DEF CInv

\* A new configuration: the device is off the bus, and no enumeration is under way.
LEMMA ConfigCInv ==
  ASSUME CInv, NEW list \in Lists, Config(list)
  PROVE  CInv'
<1> DEFINE prot == AfterDescCfg(list, protocol)
           b == Built(list, prot)
<1>1. /\ ~active /\ desc' = b.desc /\ itfs' = b.itfs /\ addrs' = b.addrs
      /\ protocol' = prot
      /\ active' = active /\ eps' = eps /\ is_open' = is_open /\ walk' = walk /\ opens' = opens
  BY DEF Config
<1>2. prot \in [Hid -> 0..2]
  BY DEF CInv, Types, AfterDescCfg
<1>3. addrs \in [Itf -> SUBSET Addr]
  BY DEF CInv, Tables
<1> HIDE DEF prot
<1>4. /\ Tables(b.desc, b.itfs, b.addrs)
      /\ \A k \in DOMAIN b.desc :
           /\ b.desc[k].itf \in ToSet(list)
           /\ b.desc[k].itf \in Hid => b.desc[k].prot = prot[b.desc[k].itf]
  BY <1>2, <1>3, BuiltTables
<1> HIDE DEF b
<1>5. Tables(desc', itfs', addrs')
  BY <1>1, <1>4
<1>6. Types'
  BY <1>1, <1>2 DEF CInv, Types
<1>7. Opened'
  BY <1>1 DEF CInv, Opened
<1>8. DeclaresOne(desc')
  <2>1. \A i \in Hid : i \in ToSet(list) => prot[i] = 1
    BY DEF prot, AfterDescCfg
  <2> QED
    BY <1>1, <1>4, <2>1 DEF DeclaresOne
<1> QED
  BY <1>5, <1>6, <1>7, <1>8 DEF CInv

LEMMA SetActiveCInv ==
  ASSUME CInv, NEW value \in BOOLEAN, SetActive(value)
  PROVE  CInv'
<1>1. /\ active' = value /\ walk' = NoWalk
      /\ desc' = desc /\ itfs' = itfs /\ eps' = eps /\ addrs' = addrs
      /\ protocol' = protocol /\ is_open' = is_open /\ opens' = opens
  BY DEF SetActive
<1>2. Tables(desc', itfs', addrs') /\ DeclaresOne(desc')
  BY <1>1 DEF CInv
<1>3. Types'
  BY <1>1 DEF CInv, Types
<1>4. Opened'
  BY <1>1 DEF Opened
<1> QED
  BY <1>2, <1>3, <1>4 DEF CInv

LEMMA ResetCbCInv ==
  ASSUME CInv, DeviceReset
  PROVE  CInv'
<1>1. /\ eps' = <<>> /\ walk' = (IF active THEN 0 ELSE NoWalk) /\ opens' = [i \in Itf |-> 0]
      /\ active' = active /\ desc' = desc /\ itfs' = itfs /\ addrs' = addrs
      /\ protocol' = protocol
  BY DEF DeviceReset
<1>2. is_open' \in [Itf -> BOOLEAN]
  BY DEF DeviceReset
<1>3. Tables(desc', itfs', addrs') /\ DeclaresOne(desc')
  BY <1>1 DEF CInv
<1>4. Types'
  BY <1>1, <1>2 DEF CInv, Types
<1>5. Len(desc) \in Nat
  BY LenProperties DEF CInv, Tables
<1>6. Opened'
  BY <1>1, <1>5 DEF Opened, NoWalk
<1> QED
  BY <1>3, <1>4, <1>6 DEF CInv

LEMMA SetProtocolCInv ==
  ASSUME CInv, NEW n, NEW value \in 0..1, SetProtocol(n, value)
  PROVE  CInv'
<1>1. /\ protocol' = [protocol EXCEPT ![Owner(n)] = value]
      /\ active' = active /\ walk' = walk /\ desc' = desc /\ itfs' = itfs /\ eps' = eps
      /\ addrs' = addrs /\ is_open' = is_open /\ opens' = opens
  BY DEF SetProtocol
<1>2. protocol' \in [Hid -> 0..2]
  <2>1. protocol \in [Hid -> 0..2] /\ value \in 0..2
    BY DEF CInv, Types
  <2> QED
    BY <1>1, <2>1
<1>3. Types'
  BY <1>1, <1>2 DEF CInv, Types
<1>4. Tables(desc', itfs', addrs') /\ DeclaresOne(desc')
  BY <1>1 DEF CInv
<1>5. Opened'
  BY <1>1 DEF CInv, Opened
<1> QED
  BY <1>3, <1>4, <1>5 DEF CInv

LEMMA StutterCInv ==
  ASSUME CInv, UNCHANGED configVars
  PROVE  CInv'
<1>1. /\ active' = active /\ walk' = walk /\ desc' = desc /\ itfs' = itfs /\ eps' = eps
      /\ addrs' = addrs /\ is_open' = is_open /\ opens' = opens /\ protocol' = protocol
  BY DEF configVars
<1> QED
  BY <1>1 DEF CInv, Types, Opened

\* The host opens the next group.
LEMMA OpenItfCbCInv ==
  ASSUME CInv, OpenItfCb
  PROVE  CInv'
<1> DEFINE K == walk + 1
           g == desc[K]
           i == itfs[g.first]
<1>1. /\ active /\ walk # NoWalk /\ walk < Len(desc) /\ walk' = K
      /\ eps' = Store(eps, g.addrs, i)
      /\ IF Deferred(g, i)
         THEN is_open' = is_open /\ opens' = opens
         ELSE /\ is_open' = [is_open EXCEPT ![i] = TRUE]
              /\ opens' = [opens EXCEPT ![i] = @ + 1]
      /\ active' = active /\ desc' = desc /\ itfs' = itfs /\ addrs' = addrs
      /\ protocol' = protocol
  BY DEF OpenItfCb
<1>2. desc \in Seq(GroupType) /\ Len(desc) \in Nat /\ DOMAIN desc = 1..Len(desc)
  BY LenProperties DEF CInv, Tables
<1>3. walk \in 0..Len(desc) /\ K \in 1..Len(desc) /\ K \in Nat
  BY <1>1, <1>2 DEF CInv, Opened
<1>4. g \in GroupType /\ g.first \in Nat /\ g.last \in Nat /\ g.addrs \subseteq Addr /\ g.itf \in Itf
  <2>1. g \in GroupType
    BY <1>2, <1>3
  <2> HIDE DEF g
  <2> QED
    BY <2>1 DEF GroupType
<1>5. i = g.itf /\ i \in Itf
  <2>1. g.first <= g.last /\ \A n \in g.first .. g.last : itfs[n] = g.itf
    BY <1>2, <1>3 DEF CInv, Tables, Numbers
  <2> QED
    BY <1>4, <2>1
<1>6. Deferred(g, i) <=> Waits(itfs, g)
  BY <1>5 DEF Deferred, Waits
<1>7. \A k \in 1..walk : k \in DOMAIN desc /\ k \in Nat /\ k < K
  BY <1>2, <1>3
<1>8. ASSUME NEW k \in 1..walk, desc[k].itf = i
      PROVE  Waits(itfs, desc[k])
  BY <1>2, <1>3, <1>5, <1>7, <1>8 DEF CInv, Tables, Closes
<1>9. opens[i] = 0
  <2>1. opens[i] \in 0..1
    BY <1>5 DEF CInv, Types
  <2>2. opens[i] # 1
    BY <1>1, <1>5, <1>8 DEF CInv, Opened
  <2> QED
    BY <2>1, <2>2
<1>10. 1..K = (1..walk) \cup {K}
  BY <1>3
<1> HIDE DEF K, g, i
<1>11. is_open' \in [Itf -> BOOLEAN] /\ opens' \in [Itf -> 0..1]
  <2>1. is_open \in [Itf -> BOOLEAN] /\ opens \in [Itf -> 0..1]
    BY DEF CInv, Types
  <2>2. CASE Deferred(g, i)
    BY <1>1, <2>1, <2>2
  <2>3. CASE ~Deferred(g, i)
    <3>1. is_open' = [is_open EXCEPT ![i] = TRUE] /\ opens' = [opens EXCEPT ![i] = @ + 1]
      BY <1>1, <2>3
    <3>2. [is_open EXCEPT ![i] = TRUE] \in [Itf -> BOOLEAN]
      BY <2>1
    <3>3. [opens EXCEPT ![i] = @ + 1] \in [Itf -> 0..1]
      BY <1>5, <1>9, <2>1
    <3> QED
      BY <3>1, <3>2, <3>3
  <2> QED
    BY <2>2, <2>3
<1>12. /\ DOMAIN eps' = DOMAIN eps \cup g.addrs
       /\ \A x \in g.addrs : eps'[x] = i
       /\ \A x \in DOMAIN eps \ g.addrs : eps'[x] = eps[x]
  BY <1>1 DEF Store
<1>13. Types'
  <2>1. DOMAIN eps \subseteq Addr /\ \A x \in DOMAIN eps : eps[x] \in Itf
    BY DEF CInv, Types
  <2>2. DOMAIN eps' \subseteq Addr /\ \A x \in DOMAIN eps' : eps'[x] \in Itf
    BY <1>4, <1>5, <1>12, <2>1
  <2> QED
    BY <1>1, <1>11, <2>2 DEF CInv, Types
<1>14. ASSUME NEW j \in Itf
       PROVE  /\ opens'[j] = 1 <=> \E k \in 1..K : desc[k].itf = j /\ ~Waits(itfs, desc[k])
              /\ opens'[j] = 1 => is_open'[j]
  <2>1. /\ opens[j] = 1 <=> \E k \in 1..walk : desc[k].itf = j /\ ~Waits(itfs, desc[k])
        /\ opens[j] = 1 => is_open[j]
    BY <1>1 DEF CInv, Opened
  <2>2. (\E k \in 1..K : desc[k].itf = j /\ ~Waits(itfs, desc[k]))
          <=> \/ opens[j] = 1
              \/ g.itf = j /\ ~Waits(itfs, g)
    BY <1>10, <2>1 DEF g
  <2>3. CASE Deferred(g, i) \/ j # i
    <3>1. opens'[j] = opens[j] /\ is_open'[j] = is_open[j]
      <4>1. is_open \in [Itf -> BOOLEAN] /\ opens \in [Itf -> 0..1]
        BY DEF CInv, Types
      <4> QED
        BY <1>1, <2>3, <4>1
    <3>2. ~(g.itf = j /\ ~Waits(itfs, g))
      BY <1>5, <1>6, <2>3
    <3> QED
      BY <2>1, <2>2, <3>1, <3>2
  <2>4. CASE ~Deferred(g, i) /\ j = i
    <3>1. opens'[j] = 1 /\ is_open'[j] = TRUE
      <4>1. is_open \in [Itf -> BOOLEAN] /\ opens \in [Itf -> 0..1]
        BY DEF CInv, Types
      <4> QED
        BY <1>1, <1>5, <1>9, <2>4, <4>1
    <3> QED
      BY <1>5, <1>6, <2>2, <2>4, <3>1
  <2> QED
    BY <2>3, <2>4
<1>15. ASSUME NEW k \in 1..K, NEW x \in desc[k].addrs
       PROVE  x \in DOMAIN eps' /\ eps'[x] = desc[k].itf
  <2>1. CASE x \in g.addrs
    <3>1. desc[k].itf = g.itf
      <4>1. k \in DOMAIN desc /\ K \in DOMAIN desc
        BY <1>2, <1>3, <1>7, <1>10
      <4> QED
        BY <1>15, <2>1, <4>1 DEF CInv, Tables, Saved, g
    <3> QED
      BY <1>5, <1>12, <2>1, <3>1
  <2>2. CASE x \notin g.addrs
    <3>1. k \in 1..walk
      BY <1>10, <1>15, <2>2 DEF g
    <3>2. x \in DOMAIN eps /\ eps[x] = desc[k].itf
      BY <1>1, <1>15, <3>1 DEF CInv, Opened
    <3> QED
      BY <1>12, <2>2, <3>2
  <2> QED
    BY <2>1, <2>2
<1>16. Opened'
  <2>1. walk' \in {NoWalk} \cup 0..Len(desc')
    BY <1>1, <1>2, <1>3
  <2> QED
    BY <1>1, <1>14, <1>15, <2>1 DEF Opened
<1> QED
  BY <1>1, <1>13, <1>16 DEF CInv

LEMMA CInvInvariant ==
  ConfigSpec => []CInv
<1>1. ConfigInit => CInv
  BY InitCInv
<1>2. CInv /\ [ConfigNext]_configVars => CInv'
  <2> SUFFICES ASSUME CInv, [ConfigNext]_configVars
               PROVE  CInv'
    OBVIOUS
  <2>1. CASE \E list \in Lists : Config(list)
    BY <2>1, ConfigCInv
  <2>2. CASE \E value \in BOOLEAN : SetActive(value)
    BY <2>2, SetActiveCInv
  <2>3. CASE DeviceReset
    BY <2>3, ResetCbCInv
  <2>4. CASE OpenItfCb
    BY <2>4, OpenItfCbCInv
  <2>5. CASE \E n \in DOMAIN itfs, value \in 0..1 : SetProtocol(n, value)
    BY <2>5, SetProtocolCInv
  <2>6. CASE UNCHANGED configVars
    BY <2>6, StutterCInv
  <2> QED
    BY <2>1, <2>2, <2>3, <2>4, <2>5, <2>6 DEF ConfigNext
<1> QED
  BY <1>1, <1>2, PTL DEF ConfigSpec

----------------------------------------------------------------------------
(* What the program and the host rely on.                                   *)

\* on_open() is called once for each object of the configuration between two
\* resets, and by then every endpoint in the object's descriptor is registered as
\* its own; when the host is through, all objects are open.
THEOREM ConfigOpensOnceReady ==
  ConfigSpec => []OpensOnceReady
<1>1. CInv => OpensOnceReady
  <2> SUFFICES ASSUME CInv
               PROVE  OpensOnceReady
    OBVIOUS
  <2>1. desc \in Seq(GroupType) /\ Len(desc) \in Nat /\ DOMAIN desc = 1..Len(desc)
    BY LenProperties DEF CInv, Tables
  <2>2. ASSUME walk # NoWalk, NEW i \in Itf
        PROVE  opens[i] <= 1
    BY DEF CInv, Types
  <2>3. ASSUME walk # NoWalk, NEW i \in Itf, opens[i] = 1, NEW x \in addrs[i]
        PROVE  x \in DOMAIN eps /\ eps[x] = i
    <3>1. PICK k \in 1..walk : desc[k].itf = i /\ ~Waits(itfs, desc[k])
      BY <2>3 DEF CInv, Opened
    <3>2. walk \in 0..Len(desc)
      BY <2>3 DEF CInv, Opened
    <3>3. k \in DOMAIN desc /\ k \in Nat
      BY <2>1, <3>2
    <3>4. desc[k].first \in Nat /\ desc[k].last \in Nat
      <4>1. desc[k] \in GroupType
        BY <2>1, <3>3
      <4> QED
        BY <4>1 DEF GroupType
    <3>5. desc[k].first \in DOMAIN itfs /\ itfs[desc[k].first] = i
      BY <3>1, <3>3, <3>4 DEF CInv, Tables, Numbers
    <3>6. addrs[i] = UNION {desc[l].addrs : l \in {l \in DOMAIN desc : desc[l].itf = i}}
      BY <3>5 DEF CInv, Tables, Saved
    <3>7. PICK l \in DOMAIN desc : desc[l].itf = i /\ x \in desc[l].addrs
      BY <2>3, <3>6
    <3>8. ~(k < l)
      BY <3>1, <3>3, <3>7 DEF CInv, Tables, Closes
    <3>9. l \in 1..walk
      BY <2>1, <3>2, <3>8
    <3> QED
      BY <2>3, <3>7, <3>9 DEF CInv, Opened
  <2>4. ASSUME walk = Len(desc), NEW i \in Range(itfs)
        PROVE  is_open[i]
    <3>1. PICK n \in DOMAIN itfs : i = itfs[n]
      BY DEF Range
    <3>2. PICK k \in DOMAIN desc : desc[k].itf = i /\ ~Waits(itfs, desc[k])
      BY <3>1 DEF CInv, Tables, Closes
    <3>3. walk # NoWalk /\ k \in 1..walk
      BY <2>1, <2>4 DEF NoWalk
    <3>4. i \in Itf
      BY <3>1 DEF CInv, Tables, Numbers
    <3> QED
      BY <3>2, <3>3, <3>4 DEF CInv, Opened
  <2> QED
    BY <2>2, <2>3, <2>4 DEF OpensOnceReady, Configured, Listed
<1> QED
  BY <1>1, CInvInvariant, PTL

\* Endpoint addresses belong to one object each, are past those of the built-in
\* driver and endpoint 0, and are the ones in the descriptor, whatever objects are
\* configured in whatever order and however often.
THEOREM ConfigAddressesOwned ==
  ConfigSpec => []AddressesOwned
<1>1. CInv => AddressesOwned
  <2> SUFFICES ASSUME CInv
               PROVE  AddressesOwned
    OBVIOUS
  <2>1. desc \in Seq(GroupType) /\ Len(desc) \in Nat /\ DOMAIN desc = 1..Len(desc)
    BY LenProperties DEF CInv, Tables
  <2>2. ASSUME NEW k \in DOMAIN desc
        PROVE  desc[k].itf \in Itf /\ desc[k].first \in DOMAIN itfs /\ desc[k].addrs \subseteq Addr
    <3>1. desc[k] \in GroupType
      BY <2>1, <2>2
    <3>2. desc[k].itf \in Itf /\ desc[k].first \in Nat /\ desc[k].last \in Nat
          /\ desc[k].addrs \subseteq Addr
      BY <3>1 DEF GroupType
    <3> QED
      BY <2>2, <3>2 DEF CInv, Tables, Numbers
  <2>3. ASSUME NEW i \in Listed
        PROVE  /\ i \in Itf
               /\ addrs[i] = UNION {desc[k].addrs : k \in {k \in DOMAIN desc : desc[k].itf = i}}
    <3>1. PICK n \in DOMAIN itfs : i = itfs[n]
      BY <2>3 DEF Listed, Range
    <3> QED
      BY <3>1 DEF CInv, Tables, Numbers, Saved
  <2>4. ConfigTypeOK
    <3>1. Range(itfs) \subseteq Itf
      BY <2>3 DEF Listed
    <3>2. Range(eps) \subseteq Itf
      BY DEF Range, CInv, Types
    <3>3. opens \in [Itf -> 0..2]
      BY DEF CInv, Types
    <3>4. DOMAIN eps \subseteq Nat \X {"in", "out"}
      BY DEF CInv, Types, Addr
    <3>5. active \in BOOLEAN /\ protocol \in [Hid -> 0..2] /\ is_open \in [Itf -> BOOLEAN]
          /\ walk \in {NoWalk} \cup 0..Len(desc)
      BY DEF CInv, Types, Opened
    <3> QED
      BY <2>2, <3>1, <3>2, <3>3, <3>4, <3>5 DEF ConfigTypeOK
  <2>5. ASSUME NEW i \in Listed, NEW j \in Listed, i # j, NEW x \in addrs[i]
        PROVE  x \notin addrs[j]
    <3>1. PICK k \in DOMAIN desc : desc[k].itf = i /\ x \in desc[k].addrs
      BY <2>3, <2>5
    <3>2. \A l \in DOMAIN desc : desc[l].itf = j => x \notin desc[l].addrs
      BY <2>5, <3>1 DEF CInv, Tables, Saved
    <3> QED
      BY <2>3, <3>2
  <2>6. ASSUME NEW i \in Listed, NEW x \in addrs[i]
        PROVE  x[1] >= EpMax /\ x[1] > 0
    <3>1. PICK k \in DOMAIN desc : x \in desc[k].addrs
      BY <2>3, <2>6
    <3>2. x[1] >= FirstEp
      BY <3>1 DEF CInv, Tables, Saved
    <3>3. x[1] \in Nat
      BY <2>2, <3>1 DEF Addr
    <3> QED
      BY <3>2, <3>3, ConfigAssumption DEF FirstEp
  <2> QED
    BY <2>3, <2>4, <2>5, <2>6 DEF AddressesOwned
<1> QED
  BY <1>1, CInvInvariant, PTL

\* A control request for any interface number in the descriptor reaches the object
\* that put it there; no two groups share a number, and none is the built-in driver's.
THEOREM ConfigControlReachesOwner ==
  ConfigSpec => []ControlReachesOwner
<1>1. CInv => ControlReachesOwner
  BY DEF CInv, Tables, Numbers, ControlReachesOwner, Owner
<1> QED
  BY <1>1, CInvInvariant, PTL

\* The second pass of desc_cfg() declares what the first one left in self.protocol: every HID
\* interface is a keyboard's to the host, the mouse's and that of a custom device included,
\* whatever SET_PROTOCOL requests and configurations came before.
THEOREM ConfigDeclaresOne ==
  ConfigSpec => []DeclaresOne(desc)
<1>1. CInv => DeclaresOne(desc)
  BY DEF CInv
<1> QED
  BY <1>1, CInvInvariant, PTL

----------------------------------------------------------------------------
(***************************************************************************)
(* HID.  The report in flight is never changed under the controller, and a *)
(* call says truly whether its report left.                                *)
(***************************************************************************)

Sending == IF InFlight THEN {asked} ELSE {}

\* Where nothing can be in flight, and the buffer that is never the one in flight.
Free ==
  /\ device \in {"keyboard", "mouse"}
  /\ ~open => xfer = NoBuffer
  /\ pc \in {"m_pack", "s_check", "s_submit"} => xfer = NoBuffer
  /\ device = "mouse" /\ pc \in {"s_open", "s_pending", "s_wait"} => xfer = NoBuffer
  /\ device = "keyboard" => pc \notin {"m_open", "m_pending", "m_idle", "m_pack"}
  /\ device = "keyboard" /\ pc # "queued" => xfer # next
  /\ pc = "queued" => xfer \in {NoBuffer, next}

\* What the call of the thread has written, and what is in flight, is a report.
Written ==
  /\ pc # "idle" => last \in 1..MaxReports
  /\ pc \in {"s_open", "s_pending", "s_wait", "s_check", "s_submit"} => buf[next] = last
  /\ InFlight => asked \in 1..MaxReports

\* Every report that left is accounted for; the one just queued is not accepted yet.
Settled ==
  IF pc = "queued" THEN accepted \cup {last} = got \cup lost \cup Sending
                   ELSE accepted = got \cup lost \cup Sending

HInv == InFlightIntact /\ Free /\ Written /\ Settled

----------------------------------------------------------------------------
\* At first nothing is in flight.
LEMMA InitHInv == Init => HInv
<1> USE HidAssumption DEF Init, Buffers, NoBuffer, Stuck, InFlight
<1>1. Init => TypeOK
  <2>1. Init => buf \in [Buffers(device) -> 0..MaxReports]
    OBVIOUS
  <2>2. Init => /\ accepted \in SUBSET (1..MaxReports)
                /\ got \in SUBSET (1..MaxReports) /\ lost \in SUBSET (1..MaxReports)
    OBVIOUS
  <2>3. Init => /\ xfer \in Buffers(device) \cup {NoBuffer} /\ next \in Buffers(device)
                /\ last \in 0..MaxReports /\ asked \in 0..MaxReports
    OBVIOUS
  <2> QED
    BY <2>1, <2>2, <2>3 DEF TypeOK
<1>2. Init => Free /\ Written /\ Settled
  BY DEF Free, Written, Settled, Sending
<1> QED
  BY <1>1, <1>2 DEF HInv, InFlightIntact

\* A call is entered: the keyboard writes the buffer that is not in flight.
LEMMA EnterHInv == ASSUME HInv, SendKeys \/ MouseReport PROVE HInv'
<1> USE HidAssumption DEF HInv, InFlightIntact, Buffers, NoBuffer, Stuck, InFlight
<1>0. /\ pc = "idle" /\ pc' \in {"s_open", "m_open"} /\ last \in Nat /\ last' = last + 1
      /\ last' \in 1..MaxReports /\ result' = "none" /\ UNCHANGED <<device, bus, next, accepted>>
  BY DEF SendKeys, MouseReport, Enter, TypeOK
<1>1. CASE SendKeys
  <2>1. /\ device = "keyboard" /\ pc' = "s_open" /\ buf' = [buf EXCEPT ![next] = last']
        /\ next \in {0, 1} /\ buf \in [{0, 1} -> 0..MaxReports] /\ xfer # next
    BY <1>0, <1>1 DEF SendKeys, Enter, Filled, TypeOK, Free
  <2>2. TypeOK' /\ (InFlight' => buf'[xfer'] = asked')
    BY <1>0, <2>1 DEF TypeOK, bus
  <2>3. Free' /\ Written' /\ Settled'
    BY <1>0, <2>1 DEF Free, Written, Settled, Sending, bus
  <2> QED
    BY <2>2, <2>3
<1>2. CASE MouseReport
  <2>1. device = "mouse" /\ pc' = "m_open" /\ buf' = buf
    BY <1>2 DEF MouseReport, Enter
  <2>2. TypeOK' /\ (InFlight' => buf'[xfer'] = asked')
    BY <1>0, <2>1 DEF TypeOK, bus
  <2>3. Free' /\ Written' /\ Settled'
    BY <1>0, <2>1 DEF Free, Written, Settled, Sending, bus
  <2> QED
    BY <2>2, <2>3
<1> QED
  BY <1>1, <1>2

\* The thread between its call and the submission: it only moves on.
LEMMA WaitHInv ==
  ASSUME HInv, \/ BusyOpen \/ BusyPending \/ PendingKeyError \/ MouseIdle \/ Idle
               \/ TimedOut \/ CheckOpen \/ SubmitRuntimeError
  PROVE  HInv'
<1> USE DEF HInv, InFlightIntact, NoBuffer, Stuck, Buffers, InFlight
<1>1. /\ UNCHANGED <<device, bus, next, buf, last, accepted>>
      /\ pc # "queued" /\ pc # "idle" /\ pc' # "queued"
      /\ pc' \in {"idle", "m_pending", "m_idle", "m_open", "m_pack", "s_open", "s_pending",
                  "s_wait", "s_check", "s_submit"}
      /\ result' \in {result, "timeout", "closed", "KeyError", "RuntimeError"}
  BY DEF BusyOpen, BusyPending, PendingKeyError, MouseIdle, Idle, TimedOut, CheckOpen,
         SubmitRuntimeError, Goto, Leave, Return, NotBusy
<1>2. TypeOK' /\ (InFlight' => buf'[xfer'] = asked')
  BY <1>1 DEF TypeOK, bus
<1>3. Free'
  BY DEF Free, bus, BusyOpen, BusyPending, PendingKeyError, MouseIdle, Idle, TimedOut, CheckOpen,
         SubmitRuntimeError, Goto, Leave, Return, NotBusy, Pending
<1>4. Written'
  BY DEF Written, Free, bus, BusyOpen, BusyPending, PendingKeyError, MouseIdle, Idle, TimedOut,
         CheckOpen, SubmitRuntimeError, Goto, Leave, Return, NotBusy
<1>5. Settled'
  BY <1>1 DEF Settled, Sending, bus
<1> QED
  BY <1>2, <1>3, <1>4, <1>5

\* The mouse's single buffer is written when nothing is in flight.
LEMMA PackHInv == ASSUME HInv, MousePack PROVE HInv'
<1> USE DEF HInv, InFlightIntact, NoBuffer, Stuck, Buffers, InFlight
<1>1. /\ pc = "m_pack" /\ xfer = NoBuffer /\ device = "mouse" /\ pc' = "s_open"
      /\ buf' = [buf EXCEPT ![next] = last] /\ next = 0 /\ last \in 1..MaxReports
      /\ UNCHANGED <<device, bus, next, result, last, accepted>>
  BY DEF MousePack, Free, TypeOK, Written
<1>2. TypeOK'
  BY <1>1 DEF TypeOK, bus
<1>3. Free' /\ Written' /\ Settled'
  BY <1>1 DEF TypeOK, Free, Written, Settled, Sending, bus
<1> QED
  BY <1>1, <1>2, <1>3 DEF bus

\* The transfer is queued, then the call returns True and the keyboard swaps buffers.
LEMMA SubmitHInv == ASSUME HInv, Submit PROVE HInv'
<1> USE DEF HInv, InFlightIntact, NoBuffer, Stuck, Buffers, InFlight
<1>1. /\ pc = "s_submit" /\ xfer = NoBuffer /\ pc' = "queued" /\ open
      /\ xfer' = next /\ asked' = last /\ last \in 1..MaxReports /\ buf[next] = last
      /\ UNCHANGED <<device, open, next, buf, result, last, accepted, got, lost>>
  BY DEF Submit, Free, Written
<1>2. TypeOK' /\ Free' /\ Written' /\ Settled'
  BY <1>1 DEF TypeOK, Free, Written, Settled, Sending
<1> QED
  BY <1>1, <1>2

\* The transfer is refused: the call raises, and the mark is left with nothing in flight.
LEMMA RefusedHInv == ASSUME HInv, DcdError PROVE HInv'
<1> USE DEF HInv, InFlightIntact, NoBuffer, Stuck, Buffers, InFlight
<1>1. /\ pc = "s_submit" /\ xfer = NoBuffer /\ pc' = "idle" /\ open
      /\ xfer' = Stuck /\ result' = "RuntimeError"
      /\ UNCHANGED <<device, open, next, buf, last, accepted, asked, got, lost>>
  BY DEF DcdError, Return, Free
<1>2. TypeOK' /\ Free' /\ Written' /\ Settled'
  BY <1>1 DEF TypeOK, Free, Written, Settled, Sending
<1> QED
  BY <1>1, <1>2

\* send_report() returns True, and the keyboard swaps its buffers.
LEMMA ReturnHInv == ASSUME HInv, ReturnTrue PROVE HInv'
<1> USE DEF HInv, InFlightIntact, NoBuffer, Stuck, Buffers, InFlight
<1>1. /\ pc = "queued" /\ pc' = "idle" /\ result' = "ok" /\ next' = Swapped
      /\ accepted' = accepted \cup {last} /\ last \in 1..MaxReports
      /\ UNCHANGED <<device, bus, buf, last>>
  BY DEF ReturnTrue, Written
<1>2. xfer \in {NoBuffer, next}
  BY <1>1 DEF Free
<1>3. TypeOK' /\ Free' /\ Written' /\ Settled'
  BY <1>1, <1>2 DEF TypeOK, Free, Written, Settled, Sending, Swapped, bus
<1> QED
  BY <1>1, <1>3 DEF bus

\* The host, the controller and a reset take away what is in flight.
LEMMA BusHInv == ASSUME HInv, HostTakes \/ XferFails \/ ResetCb \/ OnOpen PROVE HInv'
<1> USE DEF HInv, InFlightIntact, NoBuffer, Stuck, Buffers, InFlight
<1>1. UNCHANGED <<device, next, buf, pc, result, last, accepted>>
  BY DEF HostTakes, XferFails, ResetCb, OnOpen, call
<1>2. /\ open' \in BOOLEAN
      /\ xfer' \in {xfer, NoBuffer} /\ asked' \in {asked, 0}
      /\ InFlight' => asked' = asked /\ xfer' = xfer
      /\ got' \in {got, got \cup {asked}} /\ lost' \in {lost, lost \cup {asked}}
      /\ ~InFlight => got' = got /\ lost' = lost
  <2>1. CASE HostTakes
    BY <1>1, <2>1 DEF HostTakes, TypeOK
  <2>2. CASE XferFails
    BY <1>1, <2>2 DEF XferFails, Drop, TypeOK
  <2>3. CASE ResetCb
    <3>1. open' = FALSE /\ Drop /\ got' = got /\ device' = device
      BY <2>3 DEF ResetCb
    <3>2. xfer' = NoBuffer /\ asked' = 0 /\ ~InFlight'
      BY <3>1 DEF Drop
    <3>3. IF InFlight THEN lost' = lost \cup {asked} ELSE lost' = lost
      BY <3>1 DEF Drop
    <3> HIDE DEF InFlight
    <3> QED
      BY <3>1, <3>2, <3>3
  <2>4. CASE OnOpen
    BY <1>1, <2>4 DEF OnOpen, TypeOK
  <2> QED
    BY <2>1, <2>2, <2>3, <2>4
<1>3. TypeOK' /\ (InFlight' => buf'[xfer'] = asked')
  <2>1. got' \in SUBSET (1..MaxReports) /\ lost' \in SUBSET (1..MaxReports)
    BY <1>2 DEF TypeOK, Written
  <2>2. xfer' \in Buffers(device') \cup {NoBuffer, Stuck} /\ asked' \in 0..MaxReports
    BY <1>1, <1>2, HidAssumption DEF TypeOK
  <2>3. TypeOK'
    BY <1>1, <1>2, <2>1, <2>2 DEF TypeOK
  <2> QED
    BY <1>1, <1>2, <2>3
<1>4. Free' /\ Written'
  BY <1>1 DEF HostTakes, XferFails, ResetCb, OnOpen, Drop, TypeOK, Free, Written
<1>5. Settled'
  BY <1>1 DEF HostTakes, XferFails, ResetCb, OnOpen, Drop, Settled, Sending, Free
<1> QED
  BY <1>3, <1>4, <1>5

\* The invariant holds of the program.
LEMMA SpecHInv == Spec => []HInv
<1>1. HInv /\ [Next]_vars => HInv'
  <2> SUFFICES ASSUME HInv, [Next]_vars PROVE HInv'
    OBVIOUS
  <2>1. CASE UNCHANGED vars
    BY <2>1 DEF vars, bus, call, HInv, InFlightIntact, TypeOK, Free, Written, Settled, Sending, InFlight
  <2> QED
    BY <2>1, EnterHInv, WaitHInv, PackHInv, SubmitHInv, RefusedHInv, ReturnHInv, BusHInv DEF Next, Steps
<1> QED
  BY InitHInv, <1>1, PTL DEF Spec

\* While the controller reads a buffer, no call changes it: not a call that comes after
\* one that timed out, nor one that comes after a reset.
THEOREM HidInFlightIntact == Spec => []InFlightIntact
<1>1. HInv => InFlightIntact
  BY DEF HInv
<1> QED
  BY SpecHInv, <1>1, PTL

\* The calls that returned True are those whose report is in flight, received or lost.
THEOREM HidAccounted == Spec => []Accounted
<1>1. HInv => Accounted
  BY DEF HInv, Settled, Accounted, Sending, InFlight
<1> QED
  BY SpecHInv, <1>1, PTL
=============================================================================
