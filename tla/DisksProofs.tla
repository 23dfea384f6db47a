---------------------------- MODULE DisksProofs ----------------------------
(***************************************************************************)
(* On every machine, whatever it has of PCI functions and drives and       *)
(* whichever reads fail, the lists that the boot fills are exact, and      *)
(* label C leads to the kernel's partition if diskInit succeeds; where     *)
(* nothing fails, it succeeds if the first drive that boots has one.       *)
(***************************************************************************)
EXTENDS Disks, SequenceTheorems, WellFoundedInduction, TLAPS

(* A list grows by one element.                                            *)
LEMMA Appended ==
    ASSUME NEW S, NEW s \in Seq(S), NEW x \in S
    PROVE  /\ Append(s, x) \in Seq(S) /\ Len(Append(s, x)) = Len(s) + 1
           /\ Len(s) \in Nat /\ DOMAIN s = 1 .. Len(s) /\ DOMAIN Append(s, x) = 1 .. (Len(s) + 1)
           /\ \A i \in 1 .. Len(s) : Append(s, x)[i] = s[i] /\ s[i] \in S
           /\ Append(s, x)[Len(s) + 1] = x
OBVIOUS

LEMMA AppendOnce ==
    ASSUME NEW S, NEW s \in Seq(S), NEW x \in S, x \notin Range(s), IsInjective(s)
    PROVE  IsInjective(Append(s, x)) /\ Range(Append(s, x)) = Range(s) \cup {x}
<1> DEFINE r == Append(s, x)
           n == Len(s)
<1>1. /\ n \in Nat /\ DOMAIN s = 1 .. n /\ DOMAIN r = 1 .. (n + 1)
      /\ \A i \in 1 .. n : r[i] = s[i]
      /\ r[n + 1] = x
  BY Appended
<1> HIDE DEF r, n
<1>2. \A i \in 1 .. n : s[i] # x
  BY <1>1 DEF Range
<1>3. \A i \in 1 .. (n + 1) : i \in 1 .. n \/ i = n + 1
  BY <1>1
<1>4. IsInjective(r)
  BY <1>1, <1>2, <1>3 DEF IsInjective
<1>5. Range(r) = Range(s) \cup {x}
  <2>1. \A y : y \in Range(r) <=> \E i \in 1 .. (n + 1) : r[i] = y
    BY <1>1 DEF Range
  <2>2. \A y : y \in Range(s) <=> \E i \in 1 .. n : s[i] = y
    BY <1>1 DEF Range
  <2>3. n + 1 \in 1 .. (n + 1) /\ \A i \in 1 .. n : i \in 1 .. (n + 1)
    BY <1>1
  <2> QED  BY <1>1, <1>3, <2>1, <2>2, <2>3
<1> QED  BY <1>4, <1>5 DEF r
-----------------------------------------------------------------------------
(* The scan of the PCI functions.                                          *)
PciInv ==
    /\ machine \in Machines /\ pciDevices \in Seq(Nat \X Nat)
    /\ pciNext \in Nat \ {0} /\ pciNext <= Len(machine.pci) + 1
    /\ pciSub \in Nat /\ pciSub >= 2
    /\ pciNext <= Len(machine.pci) => pciSub <= Len(machine.pci[pciNext]) + 1
    /\ Len(pciDevices) <= MAX_PCI /\ EveryFunctionOnce

LEMMA MachineIs ==
    ASSUME NEW m \in Machines
    PROVE  /\ Len(m.pci) \in Nat
           /\ \A n \in 1 .. Len(m.pci) : Len(m.pci[n]) \in Nat /\ Len(m.pci[n]) > 0
<1>1. m.pci \in Seq(Range(m.pci)) /\ \A d \in Range(m.pci) : d \in Seq(Range(d)) /\ Len(d) > 0
  BY PciAssumption
<1>2. Len(m.pci) \in Nat /\ \A n \in 1 .. Len(m.pci) : m.pci[n] \in Range(m.pci)
  BY <1>1
<1>3. ASSUME NEW n \in 1 .. Len(m.pci) PROVE Len(m.pci[n]) \in Nat /\ Len(m.pci[n]) > 0
  <2>1. m.pci[n] \in Seq(Range(m.pci[n])) /\ Len(m.pci[n]) > 0
    BY <1>1, <1>2
  <2> QED  BY <2>1
<1> QED  BY <1>2, <1>3

LEMMA PassedIs ==
    \A f : f \in Passed <=>
               \/ \E n \in 1 .. (pciNext - 1) : \E i \in 1 .. Len(machine.pci[n]) :
                     f = <<n, i>> /\ Supported(n, i)
               \/ \E i \in 2 .. (pciSub - 1) : f = <<pciNext, i>> /\ Supported(pciNext, i)
<1> SUFFICES ASSUME NEW f
             PROVE  f \in Passed <=>
                       \/ \E n \in 1 .. (pciNext - 1) : \E i \in 1 .. Len(machine.pci[n]) :
                             f = <<n, i>> /\ Supported(n, i)
                       \/ \E i \in 2 .. (pciSub - 1) : f = <<pciNext, i>> /\ Supported(pciNext, i)
  BY Zenon
<1> QED  BY DEF Passed

(* A function that was not passed before is pushed, refused or skipped.    *)
LEMMA Pushed ==
    ASSUME PciInv, NEW n \in Nat, NEW i \in Nat, <<n, i>> \notin Passed,
           NEW passed, passed = Passed \cup (IF Function(<<n, i>>).hdr \in {"device", "multi"} THEN {<<n, i>>} ELSE {}),
           NEW list, list = PushDevice(pciDevices, <<n, i>>)
    PROVE  /\ list \in Seq(Nat \X Nat) /\ Len(list) <= MAX_PCI
           /\ IsInjective(list) /\ Range(list) \subseteq passed
           /\ Range(list) # passed => Len(list) = MAX_PCI
<1> DEFINE f == <<n, i>>
           there == Function(f).hdr \in {"device", "multi"}
<1>1. /\ pciDevices \in Seq(Nat \X Nat) /\ IsInjective(pciDevices) /\ Range(pciDevices) \subseteq Passed
      /\ Range(pciDevices) # Passed => Len(pciDevices) = MAX_PCI
  BY DEF PciInv, EveryFunctionOnce
<1>2. f \in Nat \X Nat /\ f \notin Range(pciDevices) /\ f \notin Passed
  BY <1>1
<1>3. passed = Passed \cup (IF there THEN {f} ELSE {})
  OBVIOUS
<1>4. list = IF there /\ Len(pciDevices) < MAX_PCI THEN Append(pciDevices, f) ELSE pciDevices
  BY DEF PushDevice
<1>5. Len(pciDevices) \in Nat /\ MAX_PCI \in Nat /\ Len(pciDevices) <= MAX_PCI
  BY <1>1, PciAssumption DEF PciInv
<1> HIDE DEF f
<1>6. CASE there /\ Len(pciDevices) < MAX_PCI
  <2>1. list = Append(pciDevices, f)
    BY <1>4, <1>6
  <2>2. Append(pciDevices, f) \in Seq(Nat \X Nat) /\ Len(Append(pciDevices, f)) = Len(pciDevices) + 1
    BY <1>1, <1>2, Appended
  <2>3. IsInjective(Append(pciDevices, f)) /\ Range(Append(pciDevices, f)) = Range(pciDevices) \cup {f}
    BY <1>1, <1>2, AppendOnce
  <2>4. Range(pciDevices) = Passed /\ passed = Passed \cup {f}
    <3>1. Len(pciDevices) # MAX_PCI
      BY <1>5, <1>6
    <3>2. passed = Passed \cup {f}
      BY <1>3, <1>6
    <3> QED  BY <3>1, <3>2, <1>1
  <2>5. Len(list) <= MAX_PCI
    BY <2>1, <2>2, <1>5, <1>6
  <2> QED  BY <2>1, <2>2, <2>3, <2>4, <2>5
<1>7. CASE ~ there
  BY <1>1, <1>3, <1>4, <1>5, <1>7
<1>8. CASE there /\ ~ (Len(pciDevices) < MAX_PCI)
  <2>1. list = pciDevices /\ passed = Passed \cup {f}
    BY <1>3, <1>4, <1>8
  <2>2. Len(pciDevices) = MAX_PCI
    BY <1>5, <1>8
  <2> QED  BY <2>1, <2>2, <1>1, <1>5
<1> QED  BY <1>6, <1>7, <1>8

LEMMA SubStep == ASSUME PciInv, ReadSubDevice PROVE PciInv'
<1> DEFINE d == machine.pci[pciNext]
           f == <<pciNext, pciSub>>
<1>1. /\ bootPc = "pci" /\ pciNext <= Len(machine.pci) /\ d[1].hdr = "multi" /\ pciSub <= Len(d)
      /\ machine' = machine /\ pciNext' = pciNext
      /\ \/ pciSub' = pciSub /\ pciDevices' = pciDevices
         \/ pciSub' = pciSub + 1 /\ pciDevices' = PushDevice(pciDevices, f)
  BY DEF ReadSubDevice
<1>2. /\ machine \in Machines /\ pciNext \in Nat \ {0} /\ pciSub \in Nat /\ pciSub >= 2 /\ Len(machine.pci) \in Nat
      /\ pciNext <= Len(machine.pci) + 1
  BY MachineIs DEF PciInv
<1>3. CASE pciSub' = pciSub /\ pciDevices' = pciDevices
  BY <1>1, <1>3, SMTT(40) DEF PciInv, EveryFunctionOnce, Passed, Supported
<1>4. CASE pciSub' = pciSub + 1 /\ pciDevices' = PushDevice(pciDevices, f)
  <2>1. Len(d) \in Nat
    BY <1>1, <1>2, MachineIs
  <2>2. \A n, i : Supported(n, i)' <=> Supported(n, i)
    BY <1>1 DEF Supported
  <2>3. Supported(pciNext, pciSub) <=> Function(f).hdr \in {"device", "multi"}
    BY <1>1 DEF Supported, Function
  <2>4. f \notin Passed
    <3> SUFFICES ASSUME f \in Passed PROVE FALSE
      OBVIOUS
    <3>1. \/ \E n \in 1 .. (pciNext - 1) : \E i \in 1 .. Len(machine.pci[n]) : f = <<n, i>>
          \/ \E i \in 2 .. (pciSub - 1) : f = <<pciNext, i>>
      BY PassedIs
    <3> QED  BY <3>1, <1>2
  <2>5. Passed' = Passed \cup (IF Function(f).hdr \in {"device", "multi"} THEN {f} ELSE {})
    <3>1. ASSUME NEW x
          PROVE  x \in Passed' <=>
                    \/ \E n \in 1 .. (pciNext - 1) : \E i \in 1 .. Len(machine.pci[n]) :
                          x = <<n, i>> /\ Supported(n, i)
                    \/ \E i \in 2 .. pciSub : x = <<pciNext, i>> /\ Supported(pciNext, i)
      <4>1. pciSub' - 1 = pciSub
        BY <1>2, <1>4
      <4> QED  BY <4>1, <1>1, <2>2 DEF Passed
    <3>2. \A i : i \in 2 .. pciSub <=> i \in 2 .. (pciSub - 1) \/ i = pciSub
      BY <1>2
    <3>3. ASSUME NEW x PROVE x \in Passed' <=> x \in Passed \/ (x = f /\ Supported(pciNext, pciSub))
      BY <3>1, <3>2, PassedIs
    <3> HIDE DEF f
    <3> QED  BY <3>3, <2>3
  <2>6. /\ pciDevices' \in Seq(Nat \X Nat) /\ Len(pciDevices') <= MAX_PCI
        /\ IsInjective(pciDevices') /\ Range(pciDevices') \subseteq Passed'
        /\ Range(pciDevices') # Passed' => Len(pciDevices') = MAX_PCI
    <3>1. pciNext \in Nat /\ pciSub \in Nat
      BY <1>2
    <3> QED  BY <3>1, <1>4, <2>4, <2>5, Pushed
  <2>7. pciSub' \in Nat /\ pciSub' >= 2 /\ pciSub' <= Len(d) + 1
    BY <1>1, <1>2, <1>4, <2>1
  <2> QED  BY <1>1, <1>2, <2>6, <2>7 DEF PciInv, EveryFunctionOnce
<1> QED  BY <1>1, <1>3, <1>4

LEMMA DeviceStep == ASSUME PciInv, ReadDevice PROVE PciInv'
<1> DEFINE d == machine.pci[pciNext]
           f == <<pciNext, 1>>
<1>1. /\ bootPc = "pci" /\ pciNext <= Len(machine.pci) /\ (d[1].hdr = "multi" => pciSub > Len(d))
      /\ machine' = machine /\ pciNext' = pciNext + 1 /\ pciSub' = 2
      /\ pciDevices' = PushDevice(pciDevices, f)
  BY DEF ReadDevice
<1>2. /\ machine \in Machines /\ pciNext \in Nat \ {0} /\ pciSub \in Nat /\ pciSub >= 2 /\ Len(machine.pci) \in Nat
      /\ Len(d) \in Nat /\ Len(d) > 0 /\ pciSub <= Len(d) + 1
  BY <1>1, MachineIs DEF PciInv
<1>3. \A n, i : Supported(n, i)' <=> Supported(n, i)
  BY <1>1 DEF Supported
<1>4. Supported(pciNext, 1) <=> Function(f).hdr \in {"device", "multi"}
  BY DEF Supported, Function
<1>5. f \notin Passed
  <2> SUFFICES ASSUME f \in Passed PROVE FALSE
    OBVIOUS
  <2>1. \/ \E n \in 1 .. (pciNext - 1) : \E i \in 1 .. Len(machine.pci[n]) : f = <<n, i>>
        \/ \E i \in 2 .. (pciSub - 1) : f = <<pciNext, i>>
    BY PassedIs
  <2> QED  BY <2>1, <1>2
<1>6. Passed' = Passed \cup (IF Function(f).hdr \in {"device", "multi"} THEN {f} ELSE {})
  <2>1. ASSUME NEW x
        PROVE  x \in Passed' <=> \E n \in 1 .. pciNext : \E i \in 1 .. Len(machine.pci[n]) :
                                    x = <<n, i>> /\ Supported(n, i)
    <3>1. pciNext' - 1 = pciNext /\ \A i : i \notin 2 .. (pciSub' - 1)
      BY <1>1, <1>2
    <3> QED  BY <3>1, <1>1, <1>3, SMTT(40) DEF Passed
  <2>2. \A n : n \in 1 .. pciNext <=> n \in 1 .. (pciNext - 1) \/ n = pciNext
    BY <1>2
  <2>3. ASSUME NEW i, i # 1, Supported(pciNext, i), i \in 1 .. Len(d) \/ i \in 2 .. (pciSub - 1)
        PROVE  i \in 1 .. Len(d) /\ i \in 2 .. (pciSub - 1)
    <3>1. i \in Nat /\ i > 1
      BY <2>3, <1>2
    <3>2. d[1].hdr = "multi"
      BY <3>1, <2>3 DEF Supported
    <3> QED  BY <3>1, <3>2, <2>3, <1>1, <1>2
  <2>4. 1 \in 1 .. Len(d) /\ 1 \notin 2 .. (pciSub - 1)
    BY <1>2
  <2>5. ASSUME NEW x PROVE x \in Passed' <=> x \in Passed \/ (x = f /\ Supported(pciNext, 1))
    <3>1. x \in Passed' <=> \/ \E n \in 1 .. (pciNext - 1) : \E i \in 1 .. Len(machine.pci[n]) :
                                  x = <<n, i>> /\ Supported(n, i)
                            \/ \E i \in 1 .. Len(d) : x = <<pciNext, i>> /\ Supported(pciNext, i)
      BY <2>1, <2>2, SMTT(40)
    <3>2. (\E i \in 1 .. Len(d) : x = <<pciNext, i>> /\ Supported(pciNext, i))
             <=> \/ \E i \in 2 .. (pciSub - 1) : x = <<pciNext, i>> /\ Supported(pciNext, i)
                 \/ x = f /\ Supported(pciNext, 1)
      BY <2>3, <2>4
    <3> QED  BY <3>1, <3>2, PassedIs
  <2> HIDE DEF f
  <2> QED  BY <2>5, <1>4
<1>7. /\ pciDevices' \in Seq(Nat \X Nat) /\ Len(pciDevices') <= MAX_PCI
      /\ IsInjective(pciDevices') /\ Range(pciDevices') \subseteq Passed'
      /\ Range(pciDevices') # Passed' => Len(pciDevices') = MAX_PCI
  <2> DEFINE one == 1
             g == <<pciNext, one>>
  <2>1. pciNext \in Nat /\ one \in Nat
    BY <1>2
  <2>2. /\ pciDevices' = PushDevice(pciDevices, g) /\ g \notin Passed
        /\ Passed' = Passed \cup (IF Function(g).hdr \in {"device", "multi"} THEN {g} ELSE {})
    BY <1>1, <1>5, <1>6
  <2> HIDE DEF one
  <2> QED  BY <2>1, <2>2, Pushed
<1>8. /\ pciNext' \in Nat \ {0} /\ pciNext' <= Len(machine.pci) + 1 /\ pciSub' \in Nat /\ pciSub' >= 2
      /\ pciNext' <= Len(machine.pci) => pciSub' <= Len(machine.pci[pciNext']) + 1
  <2>1. ASSUME pciNext' <= Len(machine.pci) PROVE pciSub' <= Len(machine.pci[pciNext']) + 1
    <3>1. pciNext' \in 1 .. Len(machine.pci)
      BY <2>1, <1>1, <1>2
    <3>2. Len(machine.pci[pciNext']) \in Nat /\ Len(machine.pci[pciNext']) > 0
      BY <3>1, <1>2, MachineIs
    <3> QED  BY <3>2, <1>1
  <2> QED  BY <2>1, <1>1, <1>2
<1> QED  BY <1>1, <1>2, <1>7, <1>8 DEF PciInv, EveryFunctionOnce

LEMMA PciStays == ASSUME PciInv, UNCHANGED pciVars PROVE PciInv'
BY SMTT(40) DEF PciInv, pciVars, EveryFunctionOnce, Passed, Supported

LEMMA PciFirst == ASSUME PciInit PROVE PciInv
<1>1. machine \in Machines /\ pciNext = 1 /\ pciSub = 2 /\ pciDevices = << >>
  BY DEF PciInit
<1>2. \A f : f \notin Passed
  BY <1>1, PassedIs
<1>3. IsInjective(pciDevices) /\ Range(pciDevices) = {}
  BY <1>1 DEF IsInjective, Range
<1>4. Len(machine.pci) \in Nat /\ (1 <= Len(machine.pci) => Len(machine.pci[1]) \in Nat /\ Len(machine.pci[1]) > 0)
  BY <1>1, MachineIs
<1> QED  BY <1>1, <1>2, <1>3, <1>4, PciAssumption DEF PciInv, EveryFunctionOnce

-----------------------------------------------------------------------------
(* The objects of disks and partitions, and stores to their fields.        *)
Part(K)       == [kind : K, label : Nat]
Disk(D, K)    == [id : Nat, drive : D, parts : Seq(Part(K))]
PartsOf(ds)   == UNION {{<<d, i>> : i \in DOMAIN ds[d].parts} : d \in DOMAIN ds}
Lab(ds, p)    == ds[p[1]].parts[p[2]].label
Kind(ds, p)   == ds[p[1]].parts[p[2]].kind

LEMMA SeqWiden ==
    ASSUME NEW S, NEW T, S \subseteq T, NEW s \in Seq(S)
    PROVE  s \in Seq(T)
OBVIOUS

LEMMA SeqElement ==
    ASSUME NEW S, NEW s \in Seq(S)
    PROVE  Len(s) \in Nat /\ DOMAIN s = 1 .. Len(s) /\ \A i \in 1 .. Len(s) : s[i] \in S
OBVIOUS

LEMMA PartIs ==
    ASSUME NEW D, NEW K, NEW ds \in Seq(Disk(D, K))
    PROVE  /\ \A p : p \in PartsOf(ds) <=>
                 \E d \in 1 .. Len(ds) : \E i \in 1 .. Len(ds[d].parts) : p = <<d, i>>
           /\ \A p \in PartsOf(ds) : /\ p = <<p[1], p[2]>> /\ p[1] \in 1 .. Len(ds)
                                     /\ p[2] \in 1 .. Len(ds[p[1]].parts) /\ Lab(ds, p) \in Nat
<1>1. /\ Len(ds) \in Nat /\ DOMAIN ds = 1 .. Len(ds)
      /\ \A d \in 1 .. Len(ds) : ds[d] \in Disk(D, K)
  BY SeqElement
<1>2. ASSUME NEW d \in 1 .. Len(ds)
      PROVE  /\ ds[d].parts \in Seq(Part(K)) /\ DOMAIN ds[d].parts = 1 .. Len(ds[d].parts)
             /\ \A i \in 1 .. Len(ds[d].parts) : ds[d].parts[i].label \in Nat
  <2>1. ds[d].parts \in Seq(Part(K))
    BY <1>1 DEF Disk
  <2>2. /\ DOMAIN ds[d].parts = 1 .. Len(ds[d].parts)
        /\ \A i \in 1 .. Len(ds[d].parts) : ds[d].parts[i] \in Part(K)
    BY <2>1, SeqElement
  <2> QED  BY <2>1, <2>2 DEF Part
<1>3. ASSUME NEW p
      PROVE  p \in PartsOf(ds) <=> \E d \in 1 .. Len(ds) : \E i \in 1 .. Len(ds[d].parts) : p = <<d, i>>
  BY <1>1, <1>2 DEF PartsOf
<1>4. ASSUME NEW p \in PartsOf(ds)
      PROVE  /\ p = <<p[1], p[2]>> /\ p[1] \in 1 .. Len(ds)
             /\ p[2] \in 1 .. Len(ds[p[1]].parts) /\ Lab(ds, p) \in Nat
  <2>1. PICK d \in 1 .. Len(ds) : \E i \in 1 .. Len(ds[d].parts) : p = <<d, i>>
    BY <1>3
  <2>2. PICK i \in 1 .. Len(ds[d].parts) : p = <<d, i>>
    BY <2>1
  <2> QED  BY <2>2, <1>2 DEF Lab
<1> QED  BY <1>3, <1>4

LEMMA SeqExcept ==
    ASSUME NEW S, NEW s \in Seq(S), NEW x \in 1 .. Len(s), NEW w \in S
    PROVE  /\ [s EXCEPT ![x] = w] \in Seq(S) /\ Len([s EXCEPT ![x] = w]) = Len(s)
           /\ \A i \in 1 .. Len(s) : [s EXCEPT ![x] = w][i] = IF i = x THEN w ELSE s[i]
<1>1. s \in [1 .. Len(s) -> S] /\ Len(s) \in Nat
  BY SeqElement
<1> QED  BY <1>1

SetId(ds, x, v) == [ds EXCEPT ![x].id = v]

LEMMA StoreId ==
    ASSUME NEW D, NEW K, NEW ds \in Seq(Disk(D, K)), NEW x \in 1 .. Len(ds), NEW v \in Nat
    PROVE  /\ SetId(ds, x, v) \in Seq(Disk(D, K)) /\ Len(SetId(ds, x, v)) = Len(ds)
           /\ \A d \in 1 .. Len(ds) : /\ SetId(ds, x, v)[d].parts = ds[d].parts
                                      /\ SetId(ds, x, v)[d].drive = ds[d].drive
                                      /\ SetId(ds, x, v)[d].id = IF d = x THEN v ELSE ds[d].id
<1> DEFINE r == SetId(ds, x, v)
           n == Len(ds)
           w == [ds[x] EXCEPT !.id = v]
<1>1. n \in Nat /\ DOMAIN ds = 1 .. n /\ \A d \in 1 .. n : ds[d] \in Disk(D, K)
  BY SeqElement
<1>2. w \in Disk(D, K) /\ w.id = v /\ w.drive = ds[x].drive /\ w.parts = ds[x].parts
  BY <1>1 DEF Disk
<1>3. r = [ds EXCEPT ![x] = w]
  BY DEF SetId
<1> HIDE DEF w
<1>4. r \in Seq(Disk(D, K)) /\ Len(r) = n /\ \A d \in 1 .. n : r[d] = IF d = x THEN w ELSE ds[d]
  BY <1>2, <1>3, SeqExcept
<1> HIDE DEF r
<1> QED  BY <1>2, <1>4 DEF r

LEMMA StoreLabel ==
    ASSUME NEW D, NEW K, NEW ds \in Seq(Disk(D, K)), NEW p \in PartsOf(ds), NEW l \in Nat
    PROVE  /\ SetLabel(ds, p, l) \in Seq(Disk(D, K)) /\ Len(SetLabel(ds, p, l)) = Len(ds)
           /\ \A d \in 1 .. Len(ds) : SetLabel(ds, p, l)[d].id = ds[d].id
           /\ PartsOf(SetLabel(ds, p, l)) = PartsOf(ds)
           /\ \A q \in PartsOf(ds) : /\ Kind(SetLabel(ds, p, l), q) = Kind(ds, q)
                                     /\ Lab(SetLabel(ds, p, l), q) = IF q = p THEN l ELSE Lab(ds, q)
<1> DEFINE r == SetLabel(ds, p, l)
           n == Len(ds)
           x == p[1]
           y == p[2]
           ps == ds[x].parts
           pt == [ps[y] EXCEPT !.label = l]
           qs == [ps EXCEPT ![y] = pt]
           w == [ds[x] EXCEPT !.parts = qs]
<1>1. n \in Nat /\ DOMAIN ds = 1 .. n /\ \A d \in 1 .. n : ds[d] \in Disk(D, K)
  BY SeqElement
<1>2. p = <<x, y>> /\ x \in 1 .. n /\ y \in 1 .. Len(ps)
  BY PartIs
<1>3. r = [ds EXCEPT ![x] = w]
  BY DEF SetLabel
<1>4. ps \in Seq(Part(K)) /\ \A i \in 1 .. Len(ps) : ps[i] \in Part(K)
  <2>1. ps \in Seq(Part(K))
    BY <1>1, <1>2 DEF Disk
  <2> HIDE DEF ps
  <2> QED  BY <2>1, SeqElement
<1>5. ds[x] \in Disk(D, K)
  BY <1>1, <1>2
<1> HIDE DEF r, n, y
<1>6. pt \in Part(K) /\ pt.label = l /\ pt.kind = ps[y].kind
  <2> HIDE DEF ps
  <2> QED  BY <1>2, <1>4 DEF Part
<1> HIDE DEF pt
<1>7. qs \in Seq(Part(K)) /\ Len(qs) = Len(ps) /\ \A i \in 1 .. Len(ps) : qs[i] = IF i = y THEN pt ELSE ps[i]
  <2> HIDE DEF ps
  <2> QED  BY <1>2, <1>4, <1>6, SeqExcept
<1>8. \A i \in 1 .. Len(ps) : qs[i].kind = ps[i].kind /\ qs[i].label = IF i = y THEN l ELSE ps[i].label
  <2> HIDE DEF ps, qs
  <2> QED  BY <1>6, <1>7
<1>9. w \in Disk(D, K) /\ w.id = ds[x].id /\ w.parts = qs
  <2> HIDE DEF qs
  <2> QED  BY <1>5, <1>7 DEF Disk
<1> HIDE DEF x, ps, qs, w
<1>11. r \in Seq(Disk(D, K)) /\ Len(r) = n /\ \A d \in 1 .. n : r[d] = IF d = x THEN w ELSE ds[d]
  BY <1>2, <1>3, <1>9, SeqExcept DEF n
<1>12. \A d \in 1 .. n : r[d].id = ds[d].id /\ r[d].parts = IF d = x THEN qs ELSE ds[d].parts
  BY <1>9, <1>11
<1>13. \A d \in 1 .. n : Len(r[d].parts) = Len(ds[d].parts)
  BY <1>7, <1>12 DEF ps
<1>14. PartsOf(r) = PartsOf(ds)
  <2>1. \A q : q \in PartsOf(ds) <=> \E d \in 1 .. n : \E i \in 1 .. Len(ds[d].parts) : q = <<d, i>>
    BY PartIs DEF n
  <2>2. \A q : q \in PartsOf(r) <=> \E d \in 1 .. n : \E i \in 1 .. Len(r[d].parts) : q = <<d, i>>
    BY <1>11, PartIs
  <2>3. \A q : q \in PartsOf(r) <=> q \in PartsOf(ds)
    BY <2>1, <2>2, <1>13
  <2> QED  BY <2>3
<1>15. ASSUME NEW q \in PartsOf(ds)
       PROVE  Kind(r, q) = Kind(ds, q) /\ Lab(r, q) = IF q = p THEN l ELSE Lab(ds, q)
  <2>1. q = <<q[1], q[2]>> /\ q[1] \in 1 .. n /\ q[2] \in 1 .. Len(ds[q[1]].parts)
    BY PartIs DEF n
  <2>2. CASE q[1] = x
    <3>1. r[q[1]].parts = qs /\ ds[q[1]].parts = ps /\ q[2] \in 1 .. Len(ps) /\ (q = p <=> q[2] = y)
      BY <2>1, <2>2, <1>2, <1>12 DEF ps
    <3> QED  BY <3>1, <1>8 DEF Kind, Lab
  <2>3. CASE q[1] # x
    <3>1. r[q[1]].parts = ds[q[1]].parts /\ q # p
      BY <2>1, <2>3, <1>2, <1>12
    <3> QED  BY <3>1 DEF Kind, Lab
  <2> QED  BY <2>2, <2>3
<1> QED  BY <1>11, <1>12, <1>14, <1>15 DEF r, n

-----------------------------------------------------------------------------
(* The lists and the objects fit each other: ListsInv without the PCI part *)
(* for any values of the variables.                                        *)
Exact(ds, dl, pl, lb) ==
    /\ \E D, K : ds \in Seq(Disk(D, K))
    /\ dl \in Seq(Nat) /\ Len(dl) <= MAX_DISKS
    /\ pl \in Seq(Nat \X Nat) /\ Len(pl) <= MAX_PARTITIONS
    /\ \A i \in 1 .. Len(dl) : dl[i] \in 1 .. Len(ds) /\ ds[dl[i]].id = i - 1
    /\ \A j \in 1 .. Len(pl) : pl[j] \in PartsOf(ds)
    /\ \A p, q \in PartsOf(ds) : Lab(ds, p) = Lab(ds, q) => p = q
    /\ lb = Len(pl) /\ \A p \in PartsOf(ds) : Lab(ds, p) \in 0 .. (lb - 1)
    /\ Len(pl) > 0 => Lab(ds, pl[1]) = 0

(* A disk with n partitions is added.                                      *)
LEMMA ExactAdd ==
    ASSUME NEW ds, NEW dl, NEW pl, NEW lb, Exact(ds, dl, pl, lb),
           NEW drive, NEW K0, NEW parts \in Seq(Part(K0)), Len(parts) <= MAX_PARTITIONS - Len(pl),
           \A i \in 1 .. Len(parts) : parts[i].label = lb + i - 1,
           NEW ds2, ds2 = Append(ds, [id |-> Len(dl), drive |-> drive, parts |-> parts]),
           NEW dl2, dl2 = IF Len(dl) = MAX_DISKS THEN dl ELSE Append(dl, Len(ds) + 1),
           NEW pl2, pl2 = pl \o [i \in 1 .. Len(parts) |-> <<Len(ds) + 1, 1>>]
    PROVE  Exact(ds2, dl2, pl2, lb + Len(parts))
<1> DEFINE n == Len(ds)
           m == Len(parts)
           new == [id |-> Len(dl), drive |-> drive, parts |-> parts]
<1>1. PICK D, K : ds \in Seq(Disk(D, K))
  BY DEF Exact
<1>2. /\ dl \in Seq(Nat) /\ Len(dl) <= MAX_DISKS /\ Len(dl) \in Nat
      /\ pl \in Seq(Nat \X Nat) /\ Len(pl) <= MAX_PARTITIONS /\ Len(pl) \in Nat
      /\ \A i \in 1 .. Len(dl) : dl[i] \in 1 .. Len(ds) /\ ds[dl[i]].id = i - 1
      /\ \A j \in 1 .. Len(pl) : pl[j] \in PartsOf(ds)
      /\ \A p, q \in PartsOf(ds) : Lab(ds, p) = Lab(ds, q) => p = q
      /\ lb = Len(pl) /\ \A p \in PartsOf(ds) : Lab(ds, p) \in 0 .. (lb - 1)
      /\ Len(pl) > 0 => Lab(ds, pl[1]) = 0
  BY SeqElement DEF Exact
<1>3. m \in Nat /\ n \in Nat /\ MAX_DISKS \in Nat /\ MAX_PARTITIONS \in Nat
  BY <1>1, SeqElement, DisksAssumption
<1> DEFINE D2 == D \cup {drive}
           K2 == K \cup K0
<1>4. ds2 \in Seq(Disk(D2, K2))
  <2>1. Part(K) \subseteq Part(K2) /\ Part(K0) \subseteq Part(K2)
    BY DEF Part
  <2>2. Disk(D, K) \subseteq Disk(D2, K2)
    <3> SUFFICES ASSUME NEW d \in Disk(D, K) PROVE d \in Disk(D2, K2)
      OBVIOUS
    <3>1. d.parts \in Seq(Part(K)) /\ d.id \in Nat /\ d.drive \in D
          /\ d = [id |-> d.id, drive |-> d.drive, parts |-> d.parts]
      BY DEF Disk
    <3>2. d.parts \in Seq(Part(K2))
      BY <3>1, <2>1, SeqWiden
    <3> HIDE DEF K2
    <3> QED  BY <3>1, <3>2 DEF Disk
  <2>3. parts \in Seq(Part(K2))
    BY <2>1, SeqWiden
  <2>4. new \in Disk(D2, K2)
    <3> HIDE DEF K2
    <3> QED  BY <2>3, <1>2 DEF Disk
  <2>5. ds \in Seq(Disk(D2, K2))
    <3> HIDE DEF K2, D2
    <3> QED  BY <2>2, <1>1, SeqWiden
  <2> HIDE DEF K2, D2, new
  <2>6. Append(ds, new) \in Seq(Disk(D2, K2))
    BY <2>4, <2>5, Appended
  <2> QED  BY <2>6 DEF new
<1> HIDE DEF D2, K2
<1>5. Len(ds2) = n + 1 /\ ds2[n + 1] = new /\ \A d \in 1 .. n : ds2[d] = ds[d]
  <2>1. ds \in Seq(Disk(D, K) \cup {new}) /\ new \in Disk(D, K) \cup {new}
    BY <1>1, SeqWiden
  <2> HIDE DEF new
  <2>2. /\ Len(Append(ds, new)) = Len(ds) + 1 /\ Append(ds, new)[Len(ds) + 1] = new
        /\ \A i \in 1 .. Len(ds) : Append(ds, new)[i] = ds[i]
    BY <2>1, Appended
  <2> QED  BY <2>2 DEF new
<1>6. new.id = Len(dl) /\ new.parts = parts
  OBVIOUS
<1> HIDE DEF n, m, new
<1>n. m \in Nat /\ n \in Nat /\ lb \in Nat /\ Len(pl) \in Nat /\ lb = Len(pl) /\ Len(dl) \in Nat
  BY <1>2, <1>3
<1>7. \A p : p \in PartsOf(ds2) <=> p \in PartsOf(ds) \/ \E i \in 1 .. m : p = <<n + 1, i>>
  <2>1. \A p : p \in PartsOf(ds) <=> \E d \in 1 .. n : \E i \in 1 .. Len(ds[d].parts) : p = <<d, i>>
    BY <1>1, PartIs DEF n
  <2>2. \A p : p \in PartsOf(ds2) <=> \E d \in 1 .. (n + 1) : \E i \in 1 .. Len(ds2[d].parts) : p = <<d, i>>
    <3>1. \A p : p \in PartsOf(ds2) <=>
                  \E d \in 1 .. Len(ds2) : \E i \in 1 .. Len(ds2[d].parts) : p = <<d, i>>
      <4>1. \A x \in Seq(Disk(D2, K2)) : \A p : p \in PartsOf(x) <=>
                  \E d \in 1 .. Len(x) : \E i \in 1 .. Len(x[d].parts) : p = <<d, i>>
        BY PartIs
      <4> QED  BY <4>1, <1>4
    <3>2. Len(ds2) = n + 1
      BY <1>5
    <3> QED  BY <3>1, <3>2
  <2>3. \A d : d \in 1 .. (n + 1) <=> d \in 1 .. n \/ d = n + 1
    BY <1>3
  <2>4. \A d \in 1 .. n : ds2[d].parts = ds[d].parts
    BY <1>5
  <2>5. ds2[n + 1].parts = parts
    BY <1>5, <1>6
  <2> QED  BY <2>1, <2>2, <2>3, <2>4, <2>5, ZenonT(40) DEF m
<1>8. \A p \in PartsOf(ds) : p[1] \in 1 .. n /\ Lab(ds2, p) = Lab(ds, p)
  <2>1. \A p \in PartsOf(ds) : p[1] \in 1 .. n
    BY <1>1, PartIs DEF n
  <2> QED  BY <2>1, <1>5 DEF Lab
<1>9. \A i \in 1 .. m : Lab(ds2, <<n + 1, i>>) = lb + i - 1
  BY <1>5, <1>6 DEF Lab, m
<1>10. \A p \in PartsOf(ds) : Lab(ds, p) \in Nat /\ Lab(ds, p) < lb
  BY <1>2
<1>11. \A p \in PartsOf(ds2) : Lab(ds2, p) \in 0 .. (lb + m - 1)
  <2> SUFFICES ASSUME NEW p \in PartsOf(ds2) PROVE Lab(ds2, p) \in 0 .. (lb + m - 1)
    OBVIOUS
  <2>1. CASE p \in PartsOf(ds)
    BY <2>1, <1>2, <1>3, <1>8, <1>10
  <2>2. CASE \E i \in 1 .. m : p = <<n + 1, i>>
    BY <2>2, <1>2, <1>3, <1>9, SMTT(40)
  <2> QED  BY <2>1, <2>2, <1>7
<1>12. ASSUME NEW p \in PartsOf(ds2), NEW q \in PartsOf(ds2), Lab(ds2, p) = Lab(ds2, q) PROVE p = q
  <2>1. CASE p \in PartsOf(ds) /\ q \in PartsOf(ds)
    BY <2>1, <1>2, <1>8, <1>12
  <2>2. CASE p \in PartsOf(ds) /\ \E i \in 1 .. m : q = <<n + 1, i>>
    BY <2>2, <1>2, <1>3, <1>8, <1>9, <1>10, <1>12, SMTT(40)
  <2>3. CASE q \in PartsOf(ds) /\ \E i \in 1 .. m : p = <<n + 1, i>>
    BY <2>3, <1>2, <1>3, <1>8, <1>9, <1>10, <1>12, SMTT(40)
  <2>4. CASE (\E i \in 1 .. m : p = <<n + 1, i>>) /\ (\E i \in 1 .. m : q = <<n + 1, i>>)
    <3>1. PICK i \in 1 .. m : p = <<n + 1, i>>
      BY <2>4
    <3>2. PICK j \in 1 .. m : q = <<n + 1, j>>
      BY <2>4
    <3>3. lb + i - 1 = lb + j - 1
      BY <3>1, <3>2, <1>9, <1>12
    <3>4. i = j
      BY <3>3, <1>n
    <3> QED  BY <3>1, <3>2, <3>4
  <2> QED  BY <2>1, <2>2, <2>3, <2>4, <1>7
<1>13. /\ pl2 \in Seq(Nat \X Nat) /\ Len(pl2) = Len(pl) + m
       /\ \A j \in 1 .. Len(pl) : pl2[j] = pl[j]
       /\ \A j \in (Len(pl) + 1) .. (Len(pl) + m) : pl2[j] = <<n + 1, 1>>
  <2> DEFINE more == [i \in 1 .. m |-> <<n + 1, 1>>]
  <2>1. more \in Seq(Nat \X Nat) /\ Len(more) = m /\ \A i \in 1 .. m : more[i] = <<n + 1, 1>>
    <3> DEFINE x == <<n + 1, 1>>
    <3>1. x \in Nat \X Nat
      BY <1>n
    <3> HIDE DEF x
    <3>2. [i \in 1 .. m |-> x] \in Seq(Nat \X Nat) /\ Len([i \in 1 .. m |-> x]) = m
      BY <3>1, <1>n
    <3> QED  BY <3>2 DEF x
  <2>2. pl2 = pl \o more
    BY DEF n, m
  <2> HIDE DEF more
  <2>3. /\ pl2 \in Seq(Nat \X Nat) /\ Len(pl2) = Len(pl) + m
        /\ \A j \in 1 .. (Len(pl) + m) : pl2[j] = IF j <= Len(pl) THEN pl[j] ELSE more[j - Len(pl)]
    <3>1. pl \in Seq(Nat \X Nat) /\ Len(pl) \in Nat
      BY <1>2
    <3>2. /\ pl \o more \in Seq(Nat \X Nat) /\ Len(pl \o more) = Len(pl) + Len(more)
          /\ \A j \in 1 .. (Len(pl) + Len(more)) :
                (pl \o more)[j] = IF j <= Len(pl) THEN pl[j] ELSE more[j - Len(pl)]
      BY <3>1, <2>1, ConcatProperties
    <3> QED  BY <3>2, <2>1, <2>2
  <2>4. ASSUME NEW j \in (Len(pl) + 1) .. (Len(pl) + m) PROVE pl2[j] = <<n + 1, 1>>
    <3>1. j \in 1 .. (Len(pl) + m) /\ ~ (j <= Len(pl)) /\ j - Len(pl) \in 1 .. m
      BY <1>2, <1>3
    <3> QED  BY <3>1, <2>1, <2>3
  <2>5. ASSUME NEW j \in 1 .. Len(pl) PROVE pl2[j] = pl[j]
    <3>1. j \in 1 .. (Len(pl) + m) /\ j <= Len(pl)
      BY <1>2, <1>3
    <3> QED  BY <3>1, <2>3
  <2> QED  BY <2>3, <2>4, <2>5
<1>14. \A j \in 1 .. Len(pl2) : pl2[j] \in PartsOf(ds2)
  <2> SUFFICES ASSUME NEW j \in 1 .. (Len(pl) + m) PROVE pl2[j] \in PartsOf(ds2)
    BY <1>13
  <2>1. CASE j \in 1 .. Len(pl)
    BY <2>1, <1>2, <1>7, <1>13
  <2>2. CASE j \in (Len(pl) + 1) .. (Len(pl) + m)
    <3>1. 1 \in 1 .. m
      BY <2>2, <1>n
    <3>2. pl2[j] = <<n + 1, 1>>
      BY <2>2, <1>13
    <3> QED  BY <3>1, <3>2, <1>7
  <2>3. j \in 1 .. Len(pl) \/ j \in (Len(pl) + 1) .. (Len(pl) + m)
    BY <1>n
  <2> QED  BY <2>1, <2>2, <2>3
<1>15. Len(pl2) > 0 => Lab(ds2, pl2[1]) = 0
  <2>1. CASE Len(pl) > 0
    <3>1. 1 \in 1 .. Len(pl)
      BY <2>1, <1>2
    <3> QED  BY <3>1, <2>1, <1>2, <1>8, <1>13
  <2>2. CASE Len(pl) = 0 /\ m > 0
    <3>1. 1 \in (Len(pl) + 1) .. (Len(pl) + m) /\ 1 \in 1 .. m
      BY <2>2, <1>n
    <3>2. pl2[1] = <<n + 1, 1>>
      BY <3>1, <1>13
    <3>3. Lab(ds2, <<n + 1, 1>>) = lb + 1 - 1
      BY <3>1, <1>9
    <3>4. lb + 1 - 1 = 0
      BY <2>2, <1>n
    <3> QED  BY <3>2, <3>3, <3>4
  <2>3. Len(pl2) > 0 => Len(pl) > 0 \/ (Len(pl) = 0 /\ m > 0)
    BY <1>n, <1>13
  <2> QED  BY <2>1, <2>2, <2>3
<1>16. /\ dl2 \in Seq(Nat) /\ Len(dl2) <= MAX_DISKS
       /\ \A i \in 1 .. Len(dl2) : dl2[i] \in 1 .. Len(ds2) /\ ds2[dl2[i]].id = i - 1
  <2>1. \A i \in 1 .. Len(dl) : dl[i] \in 1 .. Len(ds2) /\ ds2[dl[i]].id = i - 1
    BY <1>2, <1>3, <1>5, SMTT(40) DEF n
  <2>2. CASE Len(dl) = MAX_DISKS
    BY <2>1, <2>2, <1>2
  <2>3. CASE Len(dl) # MAX_DISKS
    <3>1. dl2 = Append(dl, n + 1) /\ n + 1 \in Nat
      BY <2>3, <1>3 DEF n
    <3>2. /\ dl2 \in Seq(Nat) /\ Len(dl2) = Len(dl) + 1
          /\ \A i \in 1 .. Len(dl) : dl2[i] = dl[i]
          /\ dl2[Len(dl) + 1] = n + 1
      BY <3>1, <1>2, Appended
    <3>3. ASSUME NEW i \in 1 .. (Len(dl) + 1) PROVE dl2[i] \in 1 .. Len(ds2) /\ ds2[dl2[i]].id = i - 1
      <4>1. CASE i \in 1 .. Len(dl)
        BY <4>1, <2>1, <3>2
      <4>2. CASE i = Len(dl) + 1
        <5>1. dl2[i] = n + 1
          BY <4>2, <3>2
        <5>2. n + 1 \in 1 .. Len(ds2)
          BY <1>n, <1>5
        <5>3. ds2[n + 1].id = Len(dl)
          BY <1>5, <1>6
        <5>4. i - 1 = Len(dl)
          BY <4>2, <1>n
        <5>5. dl2[i] \in 1 .. Len(ds2)
          BY <5>1, <5>2
        <5>6. ds2[dl2[i]].id = i - 1
          BY <5>1, <5>3, <5>4
        <5> QED  BY <5>5, <5>6
      <4>3. i \in 1 .. Len(dl) \/ i = Len(dl) + 1
        BY <1>n
      <4> QED  BY <4>1, <4>2, <4>3
    <3>4. Len(dl2) <= MAX_DISKS
      BY <3>2, <2>3, <1>2, <1>3
    <3> QED  BY <3>2, <3>3, <3>4
  <2> QED  BY <2>2, <2>3
<1>17. lb + m = Len(pl2) /\ Len(pl2) <= MAX_PARTITIONS
  BY <1>2, <1>3, <1>13 DEF m
<1>18. \E D3, K3 : ds2 \in Seq(Disk(D3, K3))
  BY <1>4
<1>19. \A p, q \in PartsOf(ds2) : Lab(ds2, p) = Lab(ds2, q) => p = q
  BY <1>12
<1> DEFINE lb2 == lb + m
<1>20. lb2 = Len(pl2)
  BY <1>17
<1>24. \A p \in PartsOf(ds2) : Lab(ds2, p) \in 0 .. (lb2 - 1)
  <2>1. lb + m - 1 = lb2 - 1
    BY <1>n
  <2> HIDE DEF lb2
  <2> QED  BY <1>11, <2>1
<1> HIDE DEF lb2
<1>21. pl2 \in Seq(Nat \X Nat)
  BY <1>13
<1>22. Exact(ds2, dl2, pl2, lb2)
  BY <1>14, <1>15, <1>16, <1>17, <1>18, <1>19, <1>20, <1>21, <1>24 DEF Exact
<1> QED  BY <1>22 DEF lb2, m

(* Two disks change their places and their ids.                            *)
LEMMA ExactSwap ==
    ASSUME NEW ds, NEW dl, NEW pl, NEW lb, Exact(ds, dl, pl, lb), NEW j \in 1 .. Len(dl)
    PROVE  LET ds2 == SetId(SetId(ds, dl[1], j - 1), dl[j], 0)
           IN  Exact(ds2, Swap(dl, j), pl, lb) /\ Len(Swap(dl, j)) = Len(dl)
<1> DEFINE ds1 == SetId(ds, dl[1], j - 1)
           ds2 == SetId(ds1, dl[j], 0)
           dl2 == Swap(dl, j)
           n == Len(ds)
<1>1. PICK D, K : ds \in Seq(Disk(D, K))
  BY DEF Exact
<1>2. dl \in Seq(Nat) /\ \A i \in 1 .. Len(dl) : dl[i] \in 1 .. n /\ ds[dl[i]].id = i - 1
  BY DEF Exact
<1>3. /\ j \in Nat /\ j - 1 \in Nat /\ Len(dl) \in Nat /\ 1 \in 1 .. Len(dl)
      /\ dl[1] \in 1 .. n /\ dl[j] \in 1 .. n /\ dl[1] \in Nat /\ dl[j] \in Nat
  BY <1>2, SeqElement
<1>4. /\ ds1 \in Seq(Disk(D, K)) /\ Len(ds1) = n
      /\ \A d \in 1 .. n : ds1[d].parts = ds[d].parts /\ ds1[d].id = IF d = dl[1] THEN j - 1 ELSE ds[d].id
  BY <1>1, <1>3, StoreId
<1> HIDE DEF ds1
<1>5. /\ ds2 \in Seq(Disk(D, K)) /\ Len(ds2) = n
      /\ \A d \in 1 .. n : ds2[d].parts = ds1[d].parts /\ ds2[d].id = IF d = dl[j] THEN 0 ELSE ds1[d].id
  BY <1>3, <1>4, StoreId
<1> HIDE DEF ds2
<1>6. /\ dl2 \in Seq(Nat) /\ Len(dl2) = Len(dl)
      /\ \A i \in 1 .. Len(dl) : dl2[i] = IF i = j THEN dl[1] ELSE IF i = 1 THEN dl[j] ELSE dl[i]
  <2> DEFINE dl1 == [dl EXCEPT ![1] = dl[j]]
  <2>1. dl1 \in Seq(Nat) /\ Len(dl1) = Len(dl) /\ \A i \in 1 .. Len(dl) : dl1[i] = IF i = 1 THEN dl[j] ELSE dl[i]
    BY <1>2, <1>3, SeqExcept, SMTT(40)
  <2>2. dl2 = [dl1 EXCEPT ![j] = dl[1]]
    BY DEF Swap
  <2> HIDE DEF dl1
  <2>3. /\ dl2 \in Seq(Nat) /\ Len(dl2) = Len(dl1)
        /\ \A i \in 1 .. Len(dl1) : dl2[i] = IF i = j THEN dl[1] ELSE dl1[i]
    BY <2>1, <2>2, <1>3, SeqExcept
  <2> QED  BY <2>1, <2>3
<1> HIDE DEF dl2, n
<1>7. ASSUME NEW a \in 1 .. Len(dl), NEW b \in 1 .. Len(dl), dl[a] = dl[b] PROVE a = b
  <2>1. ds[dl[a]].id = a - 1 /\ ds[dl[b]].id = b - 1
    BY <1>2
  <2>2. a - 1 = b - 1
    BY <2>1, <1>7
  <2> QED  BY <2>2, <1>3
<1>8. ASSUME NEW i \in 1 .. Len(dl) PROVE dl2[i] \in 1 .. Len(ds2) /\ ds2[dl2[i]].id = i - 1
  <2>1. CASE i = j /\ j # 1
    <3>1. dl2[i] = dl[1] /\ dl[1] # dl[j]
      BY <2>1, <1>3, <1>6, <1>7
    <3>2. ds2[dl[1]].id = ds1[dl[1]].id /\ ds1[dl[1]].id = j - 1
      BY <3>1, <1>3, <1>4, <1>5
    <3> QED  BY <3>1, <3>2, <2>1, <1>3, <1>5
  <2>2. CASE i = 1
    <3>1. dl2[i] = dl[j]
      BY <2>2, <1>3, <1>6
    <3>2. ds2[dl[j]].id = 0
      BY <1>3, <1>5
    <3> QED  BY <3>1, <3>2, <2>2, <1>3, <1>5
  <2>3. CASE i # 1 /\ i # j
    <3>1. dl2[i] = dl[i] /\ dl[i] # dl[1] /\ dl[i] # dl[j] /\ dl[i] \in 1 .. n
      BY <2>3, <1>2, <1>3, <1>6, <1>7
    <3>2. ds2[dl[i]].id = ds1[dl[i]].id /\ ds1[dl[i]].id = ds[dl[i]].id
      BY <3>1, <1>4, <1>5
    <3> QED  BY <3>1, <3>2, <1>2, <1>5
  <2> QED  BY <2>1, <2>2, <2>3
<1>9. PartsOf(ds2) = PartsOf(ds) /\ \A p \in PartsOf(ds) : Lab(ds2, p) = Lab(ds, p)
  <2>1. \A d \in 1 .. n : ds2[d].parts = ds[d].parts
    BY <1>4, <1>5
  <2>2. \A p : p \in PartsOf(ds) <=> \E d \in 1 .. n : \E i \in 1 .. Len(ds[d].parts) : p = <<d, i>>
    BY <1>1, PartIs DEF n
  <2>3. \A p : p \in PartsOf(ds2) <=> \E d \in 1 .. n : \E i \in 1 .. Len(ds2[d].parts) : p = <<d, i>>
    <3>1. \A p : p \in PartsOf(ds2) <=>
                  \E d \in 1 .. Len(ds2) : \E i \in 1 .. Len(ds2[d].parts) : p = <<d, i>>
      BY <1>5, PartIs
    <3> QED  BY <3>1, <1>5
  <2>4. ASSUME NEW p PROVE p \in PartsOf(ds2) <=> p \in PartsOf(ds)
    BY <2>1, <2>2, <2>3
  <2>5. \A p \in PartsOf(ds) : p[1] \in 1 .. n
    BY <1>1, PartIs DEF n
  <2> QED  BY <2>1, <2>4, <2>5 DEF Lab
<1>10. \E D3, K3 : ds2 \in Seq(Disk(D3, K3))
  BY <1>5
<1>11. Exact(ds2, dl2, pl, lb)
  <2>1. /\ Len(dl2) <= MAX_DISKS /\ pl \in Seq(Nat \X Nat) /\ Len(pl) <= MAX_PARTITIONS
        /\ \A i \in 1 .. Len(pl) : pl[i] \in PartsOf(ds)
        /\ \A p, q \in PartsOf(ds) : Lab(ds, p) = Lab(ds, q) => p = q
        /\ lb = Len(pl) /\ \A p \in PartsOf(ds) : Lab(ds, p) \in 0 .. (lb - 1)
        /\ Len(pl) > 0 => Lab(ds, pl[1]) = 0
    BY <1>6 DEF Exact
  <2>2. Len(pl) > 0 => pl[1] \in PartsOf(ds)
    <3>1. Len(pl) \in Nat
      BY <2>1, SeqElement
    <3> QED  BY <3>1, <2>1
  <2>3. Len(pl) > 0 => Lab(ds2, pl[1]) = 0
    BY <2>1, <2>2, <1>9
  <2>4. \A p, q \in PartsOf(ds2) : Lab(ds2, p) = Lab(ds2, q) => p = q
    BY <2>1, <1>9
  <2>5. \A p \in PartsOf(ds2) : Lab(ds2, p) \in 0 .. (lb - 1)
    BY <2>1, <1>9
  <2> QED  BY <2>1, <2>3, <2>4, <2>5, <1>6, <1>8, <1>9, <1>10 DEF Exact
<1> QED  BY <1>6, <1>11 DEF ds2, ds1, dl2

(* What StoreLabel says of the disks r after the store.                    *)
LabelStored(D, K, ds, p, l, r) ==
    /\ r \in Seq(Disk(D, K)) /\ Len(r) = Len(ds)
    /\ \A d \in 1 .. Len(ds) : r[d].id = ds[d].id
    /\ PartsOf(r) = PartsOf(ds)
    /\ \A q \in PartsOf(ds) : Kind(r, q) = Kind(ds, q) /\ Lab(r, q) = IF q = p THEN l ELSE Lab(ds, q)

LEMMA StoredLabel ==
    ASSUME NEW D, NEW K, NEW ds \in Seq(Disk(D, K)), NEW p \in PartsOf(ds), NEW l \in Nat
    PROVE  LabelStored(D, K, ds, p, l, SetLabel(ds, p, l))
<1> DEFINE r == SetLabel(ds, p, l)
<1>1. r \in Seq(Disk(D, K)) /\ Len(r) = Len(ds)
  BY StoreLabel
<1>2. \A d \in 1 .. Len(ds) : r[d].id = ds[d].id
  BY StoreLabel
<1>3. PartsOf(r) = PartsOf(ds)
  BY StoreLabel
<1>4. \A q \in PartsOf(ds) : Kind(r, q) = Kind(ds, q) /\ Lab(r, q) = IF q = p THEN l ELSE Lab(ds, q)
  BY StoreLabel
<1> HIDE DEF r
<1>5. LabelStored(D, K, ds, p, l, r)
  BY <1>1, <1>2, <1>3, <1>4 DEF LabelStored
<1> QED  BY <1>5 DEF r

(* A partition p changes its place and its label with the first one.       *)
Exchanged(ds, pl, p, ds2, pl2) ==
    /\ ds2 = SetLabel(SetLabel(ds, pl[1], Lab(ds, p)), p, 0)
    /\ pl2 = [pl EXCEPT ![1] = p, ![Lab(ds, p) + 1] = pl[1]]

LEMMA ExactPutFirst ==
    ASSUME NEW ds, NEW dl, NEW pl, NEW lb, Exact(ds, dl, pl, lb),
           NEW p \in PartsOf(ds), Lab(ds, p) # 0,
           NEW ds2, NEW pl2, Exchanged(ds, pl, p, ds2, pl2)
    PROVE  /\ Exact(ds2, dl, pl2, lb) /\ PartsOf(ds2) = PartsOf(ds)
           /\ \A q \in PartsOf(ds) : Kind(ds2, q) = Kind(ds, q)
           /\ pl2[1] = p
<1> DEFINE old == pl[1]
           l == Lab(ds, p)
           ds1 == SetLabel(ds, old, l)
           P == PartsOf(ds)
<1>1. PICK D, K : ds \in Seq(Disk(D, K))
  BY DEF Exact
<1>2. /\ dl \in Seq(Nat) /\ Len(dl) <= MAX_DISKS
      /\ \A i \in 1 .. Len(dl) : dl[i] \in 1 .. Len(ds) /\ ds[dl[i]].id = i - 1
  BY DEF Exact
<1>3. /\ pl \in Seq(Nat \X Nat) /\ Len(pl) <= MAX_PARTITIONS
      /\ lb = Len(pl)
      /\ \A j \in 1 .. Len(pl) : pl[j] \in P
  BY DEF Exact
<1>4. /\ \A q, r \in P : Lab(ds, q) = Lab(ds, r) => q = r
      /\ \A q \in P : Lab(ds, q) \in 0 .. (lb - 1)
  BY DEF Exact
<1>5. Len(pl) > 0 => Lab(ds, old) = 0
  BY DEF Exact
<1> HIDE DEF P, old, l
<1>6. /\ Len(pl) \in Nat /\ l \in Nat /\ l # 0 /\ l \in 1 .. (lb - 1) /\ l + 1 \in 1 .. Len(pl)
      /\ 1 \in 1 .. Len(pl) /\ Len(pl) > 0 /\ lb \in Nat /\ lb > 0
  <2>1. Len(pl) \in Nat
    BY <1>3, SeqElement
  <2>2. l \in 0 .. (lb - 1) /\ l # 0
    BY <1>4 DEF l, P
  <2> QED  BY <2>1, <2>2, <1>3
<1>7. old \in P /\ Lab(ds, old) = 0 /\ p \in P /\ old # p
  BY <1>3, <1>5, <1>6 DEF old, P, l
<1>8. p \in Nat \X Nat /\ old \in Nat \X Nat
  <2>1. p = <<p[1], p[2]>> /\ p[1] \in 1 .. Len(ds) /\ p[2] \in 1 .. Len(ds[p[1]].parts)
    BY <1>1, PartIs
  <2>2. \A j \in 1 .. Len(pl) : pl[j] \in Nat \X Nat
    BY <1>3, SeqElement
  <2>3. old \in Nat \X Nat
    BY <2>2, <1>6 DEF old
  <2>4. p[1] \in Nat /\ p[2] \in Nat
    BY <2>1
  <2>5. <<p[1], p[2]>> \in Nat \X Nat
    BY <2>4
  <2>6. p \in Nat \X Nat
    BY <2>1, <2>5
  <2> QED  BY <2>3, <2>6
<1>9. /\ ds1 \in Seq(Disk(D, K)) /\ Len(ds1) = Len(ds)
      /\ \A d \in 1 .. Len(ds) : ds1[d].id = ds[d].id
      /\ PartsOf(ds1) = P
      /\ \A q \in P : Kind(ds1, q) = Kind(ds, q) /\ Lab(ds1, q) = IF q = old THEN l ELSE Lab(ds, q)
  <2>1. old \in PartsOf(ds)
    BY <1>7 DEF P
  <2>2. ds1 = SetLabel(ds, old, l)
    OBVIOUS
  <2> HIDE DEF ds1
  <2>3. LabelStored(D, K, ds, old, l, ds1)
    BY <2>1, <2>2, <1>1, <1>6, StoredLabel
  <2> QED  BY <2>3 DEF P, LabelStored
<1>10. ds2 = SetLabel(ds1, p, 0)
  BY DEF old, l, Exchanged
<1> HIDE DEF ds1
<1>11. /\ ds2 \in Seq(Disk(D, K)) /\ Len(ds2) = Len(ds1)
       /\ \A d \in 1 .. Len(ds1) : ds2[d].id = ds1[d].id
       /\ PartsOf(ds2) = PartsOf(ds1)
       /\ \A q \in PartsOf(ds1) : Kind(ds2, q) = Kind(ds1, q) /\ Lab(ds2, q) = IF q = p THEN 0 ELSE Lab(ds1, q)
  <2>1. p \in PartsOf(ds1) /\ 0 \in Nat
    BY <1>7, <1>9
  <2>2. LabelStored(D, K, ds1, p, 0, ds2)
    BY <2>1, <1>9, <1>10, StoredLabel
  <2> QED  BY <2>2 DEF LabelStored
<1>12. /\ Len(ds2) = Len(ds) /\ PartsOf(ds2) = P
       /\ \A d \in 1 .. Len(ds) : ds2[d].id = ds[d].id
       /\ \A q \in P : Kind(ds2, q) = Kind(ds, q)
       /\ Lab(ds2, p) = 0 /\ Lab(ds2, old) = l
       /\ \A q \in P : q # p /\ q # old => Lab(ds2, q) = Lab(ds, q)
  BY <1>7, <1>9, <1>11
<1>13. /\ pl2 \in Seq(Nat \X Nat) /\ Len(pl2) = Len(pl)
       /\ \A j \in 1 .. Len(pl) : pl2[j] = IF j = l + 1 THEN old ELSE IF j = 1 THEN p ELSE pl[j]
  <2> DEFINE pl1 == [pl EXCEPT ![1] = p]
  <2>1. /\ pl1 \in Seq(Nat \X Nat) /\ Len(pl1) = Len(pl)
        /\ \A j \in 1 .. Len(pl) : pl1[j] = IF j = 1 THEN p ELSE pl[j]
    <3> DEFINE one == 1
    <3>1. one \in 1 .. Len(pl) /\ pl1 = [pl EXCEPT ![one] = p] /\ pl \in Seq(Nat \X Nat)
      BY <1>3, <1>6
    <3> HIDE DEF one, pl1
    <3>2. /\ pl1 \in Seq(Nat \X Nat) /\ Len(pl1) = Len(pl)
          /\ \A j \in 1 .. Len(pl) : pl1[j] = IF j = one THEN p ELSE pl[j]
      BY <3>1, <1>8, SeqExcept, SMTT(40)
    <3> QED  BY <3>2 DEF one
  <2>2. pl2 = [pl1 EXCEPT ![l + 1] = old]
    BY DEF old, l, Exchanged
  <2> HIDE DEF pl1
  <2>3. /\ [pl1 EXCEPT ![l + 1] = old] \in Seq(Nat \X Nat) /\ Len([pl1 EXCEPT ![l + 1] = old]) = Len(pl1)
        /\ \A j \in 1 .. Len(pl1) : [pl1 EXCEPT ![l + 1] = old][j] = IF j = l + 1 THEN old ELSE pl1[j]
    <3>1. l + 1 \in 1 .. Len(pl1)
      BY <2>1, <1>6
    <3> QED  BY <3>1, <2>1, <1>8, SeqExcept, SMTT(40)
  <2> QED  BY <2>1, <2>2, <2>3
<1>14. \A j \in 1 .. Len(pl2) : pl2[j] \in PartsOf(ds2)
  <2>1. ASSUME NEW j \in 1 .. Len(pl) PROVE pl2[j] \in P
    <3>1. pl2[j] \in {old, p, pl[j]}
      BY <1>13
    <3> QED  BY <3>1, <1>3, <1>7
  <2>2. Len(pl2) = Len(pl) /\ PartsOf(ds2) = P
    BY <1>12, <1>13
  <2> QED  BY <2>1, <2>2
<1>15. pl2[1] = p
  BY <1>6, <1>13
<1>16. \A q \in PartsOf(ds2) : Lab(ds2, q) \in 0 .. (lb - 1)
  <2>1. 0 \in 0 .. (lb - 1) /\ l \in 0 .. (lb - 1)
    BY <1>6
  <2> QED  BY <2>1, <1>4, <1>12
<1>17. ASSUME NEW q \in P PROVE Lab(ds, q) = 0 => q = old
  BY <1>4, <1>7
<1>18. ASSUME NEW q \in P PROVE Lab(ds, q) = l => q = p
  BY <1>4, <1>7 DEF l
<1>19. \A q, r \in PartsOf(ds2) : Lab(ds2, q) = Lab(ds2, r) => q = r
  <2> SUFFICES ASSUME NEW q \in P, NEW r \in P, Lab(ds2, q) = Lab(ds2, r) PROVE q = r
    BY <1>12
  <2>1. CASE q \notin {p, old} /\ r \notin {p, old}
    BY <2>1, <1>4, <1>12
  <2>2. CASE q \in {p, old} /\ r \in {p, old}
    BY <2>2, <1>6, <1>12
  <2>3. CASE q \in {p, old} /\ r \notin {p, old}
    BY <2>3, <1>12, <1>17, <1>18
  <2>4. CASE q \notin {p, old} /\ r \in {p, old}
    BY <2>4, <1>12, <1>17, <1>18
  <2> QED  BY <2>1, <2>2, <2>3, <2>4
<1>20. \A i \in 1 .. Len(dl) : dl[i] \in 1 .. Len(ds2) /\ ds2[dl[i]].id = i - 1
  BY <1>2, <1>12
<1>21. \E D3, K3 : ds2 \in Seq(Disk(D3, K3))
  BY <1>11
<1>22. lb = Len(pl2) /\ Len(pl2) <= MAX_PARTITIONS /\ Lab(ds2, pl2[1]) = 0
  BY <1>3, <1>12, <1>13, <1>15
<1>23. Exact(ds2, dl, pl2, lb)
  BY <1>2, <1>13, <1>14, <1>16, <1>19, <1>20, <1>21, <1>22 DEF Exact
<1> QED  BY <1>12, <1>15, <1>23 DEF P

(* What checkMbrPartition finds, in the order of the labels.               *)
LEMMA MbrIs ==
    ASSUME NEW drive, NEW junk, Len(partitionList) \in Nat, Len(partitionList) <= MAX_PARTITIONS
    PROVE  LET parts == CheckMbrPartition(drive, junk)
           IN  /\ \E K : label \in Nat => parts \in Seq(Part(K))
               /\ Len(parts) \in Nat /\ Len(parts) <= MAX_PARTITIONS - Len(partitionList)
               /\ \A i \in 1 .. Len(parts) : parts[i].label = label + i - 1
<1> DEFINE active == Active(drive.mbr[1]) \o Active(drive.mbr[3]) \o Active(junk)
           room   == MAX_PARTITIONS - Len(partitionList)
           n      == IF Len(active) > room THEN room ELSE Len(active)
           K      == {drive.mbr[1], drive.mbr[3], junk}
           parts  == [i \in 1 .. n |-> [kind |-> active[i], label |-> label + i - 1]]
<1>1. active \in Seq(K)
  <2>1. ASSUME NEW e \in K PROVE Active(e) \in Seq(K)
    <3> HIDE DEF K
    <3> QED  BY DEF Active
  <2>2. /\ Active(drive.mbr[1]) \in Seq(K) /\ Active(drive.mbr[3]) \in Seq(K)
        /\ Active(junk) \in Seq(K)
    BY <2>1
  <2> HIDE DEF K
  <2> QED  BY <2>2
<1> HIDE DEF K, active
<1>2. Len(active) \in Nat /\ \A i \in 1 .. Len(active) : active[i] \in K
  BY <1>1, SeqElement
<1>3. room \in Nat
  BY DisksAssumption
<1>4. n \in Nat /\ n <= room /\ n <= Len(active)
  BY <1>2, <1>3
<1> HIDE DEF n, room
<1>5. Len(parts) = n /\ \A i \in 1 .. n : parts[i] = [kind |-> active[i], label |-> label + i - 1]
  BY <1>4
<1>6. label \in Nat => parts \in Seq(Part(K))
  <2> SUFFICES ASSUME label \in Nat PROVE parts \in Seq(Part(K))
    OBVIOUS
  <2>1. ASSUME NEW i \in 1 .. n PROVE [kind |-> active[i], label |-> label + i - 1] \in Part(K)
    <3>1. active[i] \in K
      BY <1>2, <1>4
    <3>2. label + i - 1 \in Nat
      BY <1>4
    <3> QED  BY <3>1, <3>2 DEF Part
  <2> QED  BY <2>1, <1>4
<1>7. CheckMbrPartition(drive, junk) = parts
  BY DEF CheckMbrPartition, n, room, active
<1> HIDE DEF parts
<1>8. /\ Len(parts) \in Nat /\ Len(parts) <= MAX_PARTITIONS - Len(partitionList)
      /\ \A i \in 1 .. Len(parts) : parts[i].label = label + i - 1
  BY <1>4, <1>5 DEF room
<1> QED  BY <1>6, <1>7, <1>8

-----------------------------------------------------------------------------
(* The steps of the boot.  If diskInit succeeds, the kernel's partition is *)
(* at the front of the list, and nothing happens after that.               *)
KernelFirst ==
    /\ bootPc = "done" /\ Len(partitionList) > 0
    /\ partitionList[1][1] = diskList[1] /\ Kind(disks, partitionList[1]) = "os"

BootInv ==
    /\ PciInv /\ Exact(disks, diskList, partitionList, label)
    /\ k \in Nat \ {0} /\ result \in {"none", "SUCCESS", "ENFOUND"}
    /\ bootPc = "kernelPart" => Len(diskList) > 0
    /\ result = "SUCCESS" => KernelFirst

LEMMA ExactIs ==
    ASSUME Exact(disks, diskList, partitionList, label)
    PROVE  /\ Len(disks) \in Nat /\ DOMAIN disks = 1 .. Len(disks)
           /\ Len(diskList) \in Nat /\ DOMAIN diskList = 1 .. Len(diskList) /\ Len(diskList) <= MAX_DISKS
           /\ Len(partitionList) \in Nat /\ DOMAIN partitionList = 1 .. Len(partitionList)
           /\ Len(partitionList) <= MAX_PARTITIONS /\ label = Len(partitionList)
           /\ \A i \in 1 .. Len(diskList) : diskList[i] \in 1 .. Len(disks) /\ disks[diskList[i]].id = i - 1
           /\ \A j \in 1 .. Len(partitionList) : partitionList[j] \in PartsOf(disks)
           /\ \A p, q \in PartsOf(disks) : Lab(disks, p) = Lab(disks, q) => p = q
           /\ \A p \in PartsOf(disks) : Lab(disks, p) \in 0 .. (label - 1)
           /\ Len(partitionList) > 0 => Lab(disks, partitionList[1]) = 0
           /\ \A d \in 1 .. Len(disks) :
                 Len(disks[d].parts) \in Nat
                 /\ \A i \in 1 .. Len(disks[d].parts) : <<d, i>> \in PartsOf(disks)
<1>1. PICK D, K : disks \in Seq(Disk(D, K))
  BY DEF Exact
<1>2. /\ Len(disks) \in Nat /\ DOMAIN disks = 1 .. Len(disks)
      /\ \A d \in 1 .. Len(disks) : disks[d] \in Disk(D, K)
  BY <1>1, SeqElement
<1>3. diskList \in Seq(Nat) /\ partitionList \in Seq(Nat \X Nat)
  BY DEF Exact
<1>4. /\ Len(diskList) \in Nat /\ DOMAIN diskList = 1 .. Len(diskList)
      /\ Len(partitionList) \in Nat /\ DOMAIN partitionList = 1 .. Len(partitionList)
  BY <1>3, SeqElement
<1>5. ASSUME NEW d \in 1 .. Len(disks)
      PROVE  Len(disks[d].parts) \in Nat
             /\ \A i \in 1 .. Len(disks[d].parts) : <<d, i>> \in PartsOf(disks)
  <2>1. disks[d].parts \in Seq(Part(K))
    BY <1>2 DEF Disk
  <2>2. Len(disks[d].parts) \in Nat
    BY <2>1, SeqElement
  <2>3. \A p : p \in PartsOf(disks) <=>
               \E x \in 1 .. Len(disks) : \E i \in 1 .. Len(disks[x].parts) : p = <<x, i>>
    BY <1>1, PartIs
  <2> QED  BY <2>2, <2>3
<1>6. /\ Len(diskList) <= MAX_DISKS /\ Len(partitionList) <= MAX_PARTITIONS /\ label = Len(partitionList)
      /\ \A i \in 1 .. Len(diskList) : diskList[i] \in 1 .. Len(disks) /\ disks[diskList[i]].id = i - 1
      /\ \A j \in 1 .. Len(partitionList) : partitionList[j] \in PartsOf(disks)
      /\ \A p, q \in PartsOf(disks) : Lab(disks, p) = Lab(disks, q) => p = q
      /\ \A p \in PartsOf(disks) : Lab(disks, p) \in 0 .. (label - 1)
      /\ Len(partitionList) > 0 => Lab(disks, partitionList[1]) = 0
  BY DEF Exact
<1> QED  BY <1>2, <1>4, <1>5, <1>6

LEMMA AddStep == ASSUME BootInv, AddDisk PROVE BootInv'
<1> USE DEF tables
<1>1. /\ PciInv /\ Exact(disks, diskList, partitionList, label)
      /\ k \in Nat \ {0} /\ result \in {"none", "SUCCESS", "ENFOUND"} /\ result # "SUCCESS"
      /\ bootPc \in {"legacyDisk", "sataDisk"}
  BY DEF BootInv, KernelFirst, AddDisk
<1>2. UNCHANGED <<pciVars, k, result>>
  BY DEF AddDisk
<1>3. PciInv'
  BY <1>1, <1>2, PciStays
<1>4. CASE bootPc' = "stuck" /\ UNCHANGED tables
  <2>1. Exact(disks, diskList, partitionList, label)'
    BY <1>1, <1>4
  <2> QED  BY <2>1, <1>1, <1>2, <1>3, <1>4 DEF BootInv
<1>5. ASSUME NEW readable \in BOOLEAN, NEW junk,
             LET parts == IF readable THEN CheckMbrPartition(Head(scanned), junk) ELSE << >>
                 new   == Len(disks) + 1
             IN  /\ disks' = Append(disks, [id |-> NextId, drive |-> Head(scanned), parts |-> parts])
                 /\ partitionList' = partitionList \o [i \in 1 .. Len(parts) |-> <<new, 1>>]
                 /\ label' = label + Len(parts)
                 /\ diskList' = InsertDisk(new)
                 /\ bootPc' = bootPc
      PROVE  BootInv'
  <2> DEFINE drive == Head(scanned)
             parts == IF readable THEN CheckMbrPartition(drive, junk) ELSE << >>
             new   == Len(disks) + 1
  <2>1. /\ disks' = Append(disks, [id |-> Len(diskList), drive |-> drive, parts |-> parts])
        /\ partitionList' = partitionList \o [i \in 1 .. Len(parts) |-> <<new, 1>>]
        /\ label' = label + Len(parts)
        /\ diskList' = IF Len(diskList) = MAX_DISKS THEN diskList ELSE Append(diskList, new)
        /\ bootPc' = bootPc
    BY <1>5 DEF NextId, InsertDisk
  <2> HIDE DEF drive
  <2>2. Len(partitionList) \in Nat /\ Len(partitionList) <= MAX_PARTITIONS /\ label \in Nat
    BY <1>1, ExactIs
  <2>3. \E K : /\ parts \in Seq(Part(K)) /\ Len(parts) <= MAX_PARTITIONS - Len(partitionList)
               /\ \A i \in 1 .. Len(parts) : parts[i].label = label + i - 1
    <3>1. CASE readable
      <4>1. parts = CheckMbrPartition(drive, junk)
        BY <3>1
      <4> HIDE DEF parts
      <4> QED  BY <4>1, <2>2, MbrIs
    <3>2. CASE ~ readable
      <4>1. parts = << >>
        BY <3>2
      <4> HIDE DEF parts
      <4> QED  BY <4>1, <2>2, DisksAssumption
    <3> QED  BY <3>1, <3>2
  <2> HIDE DEF parts
  <2>4. PICK K : /\ parts \in Seq(Part(K)) /\ Len(parts) <= MAX_PARTITIONS - Len(partitionList)
                 /\ \A i \in 1 .. Len(parts) : parts[i].label = label + i - 1
    BY <2>3
  <2>5. Exact(disks', diskList', partitionList', label + Len(parts))
    BY <2>1, <2>4, <1>1, ExactAdd
  <2>6. Exact(disks, diskList, partitionList, label)'
    BY <2>1, <2>5
  <2> QED  BY <2>1, <2>6, <1>1, <1>2, <1>3 DEF BootInv
<1> QED  BY <1>4, <1>5 DEF AddDisk

LEMMA SwapStep == ASSUME BootInv, findKernelDisk PROVE BootInv'
<1>1. /\ PciInv /\ Exact(disks, diskList, partitionList, label)
      /\ k \in Nat \ {0} /\ result \in {"none", "SUCCESS", "ENFOUND"} /\ result # "SUCCESS"
      /\ bootPc = "kernelDisk" /\ k <= Len(diskList)
  BY DEF BootInv, KernelFirst, findKernelDisk
<1>2. UNCHANGED <<pciVars, partitionList, label, scanned, result>>
  BY DEF findKernelDisk
<1>3. PciInv'
  BY <1>1, <1>2, PciStays
<1>4. k \in 1 .. Len(diskList) /\ Len(diskList) > 0
  BY <1>1, ExactIs
<1>5. CASE k' = k + 1 /\ UNCHANGED <<diskList, disks, bootPc>>
  <2>1. Exact(disks, diskList, partitionList, label)'
    BY <1>1, <1>2, <1>5
  <2> QED  BY <2>1, <1>1, <1>2, <1>3, <1>4, <1>5 DEF BootInv
<1>6. CASE /\ diskList' = Swap(diskList, k) /\ bootPc' = "kernelPart" /\ k' = 1
           /\ disks' = [disks EXCEPT ![diskList[1]].id = k - 1, ![diskList[k]].id = 0]
  <2> DEFINE ds2 == SetId(SetId(disks, diskList[1], k - 1), diskList[k], 0)
  <2>1. disks' = ds2
    BY <1>6 DEF SetId
  <2>2. Exact(ds2, Swap(diskList, k), partitionList, label) /\ Len(Swap(diskList, k)) = Len(diskList)
    BY <1>1, <1>4, ExactSwap
  <2>3. Exact(disks, diskList, partitionList, label)' /\ Len(diskList') > 0
    BY <2>1, <2>2, <1>2, <1>4, <1>6
  <2> QED  BY <2>3, <1>1, <1>2, <1>3, <1>6 DEF BootInv
<1> QED  BY <1>5, <1>6 DEF findKernelDisk

LEMMA PartitionStep == ASSUME BootInv, findKernelPartition PROVE BootInv'
<1> DEFINE one == 1
           p == <<diskList[1], k>>
           pt == disks[diskList[1]].parts[k]
<1>1. /\ PciInv /\ Exact(disks, diskList, partitionList, label)
      /\ k \in Nat \ {0} /\ result \in {"none", "SUCCESS", "ENFOUND"} /\ result # "SUCCESS"
      /\ bootPc = "kernelPart" /\ k <= Len(disks[diskList[1]].parts) /\ Len(diskList) > 0
  BY DEF BootInv, KernelFirst, findKernelPartition
<1>2. UNCHANGED <<pciVars, diskList, label, scanned>>
  BY DEF findKernelPartition
<1>3. PciInv'
  BY <1>1, <1>2, PciStays
<1>4. p \in PartsOf(disks) /\ Lab(disks, p) = pt.label /\ Kind(disks, p) = pt.kind
  <2>1. diskList[1] \in 1 .. Len(disks)
    <3>1. 1 \in 1 .. Len(diskList)
      BY <1>1, ExactIs
    <3> QED  BY <3>1, <1>1, ExactIs
  <2>2. k \in 1 .. Len(disks[diskList[1]].parts)
    BY <2>1, <1>1, ExactIs
  <2>3. p \in PartsOf(disks)
    BY <2>1, <2>2, <1>1, ExactIs
  <2> QED  BY <2>3 DEF Lab, Kind
<1>5. p[1] = diskList[1]
  OBVIOUS
<1>6. Len(partitionList) > 0
  BY <1>1, <1>4, ExactIs
<1>7. CASE k' = k + 1 /\ UNCHANGED <<partitionList, disks, bootPc, result>>
  <2>1. Exact(disks, diskList, partitionList, label)'
    BY <1>1, <1>2, <1>7
  <2> QED  BY <2>1, <1>1, <1>2, <1>3, <1>7 DEF BootInv
<1>8. CASE /\ bootPc' = "done" /\ result' = "SUCCESS" /\ k' = k /\ pt.kind = "os"
           /\ pt.label = 0 /\ UNCHANGED <<partitionList, disks>>
  <2>1. Exact(disks, diskList, partitionList, label)'
    BY <1>1, <1>2, <1>8
  <2>2. partitionList[1] = p
    <3>1. partitionList[1] \in PartsOf(disks) /\ Lab(disks, partitionList[1]) = 0
      <4>1. 1 \in 1 .. Len(partitionList)
        BY <1>1, <1>6, ExactIs
      <4> QED  BY <4>1, <1>1, <1>6, ExactIs
    <3> HIDE DEF p, pt
    <3> QED  BY <3>1, <1>1, <1>4, <1>8, ExactIs
  <2>3. KernelFirst'
    <3> HIDE DEF p, pt
    <3>1. partitionList'[1] = p /\ disks' = disks /\ diskList' = diskList /\ Len(partitionList') > 0
      BY <2>2, <1>2, <1>6, <1>8
    <3>2. Kind(disks', p) = "os" /\ p[1] = diskList'[1]
      BY <3>1, <1>4, <1>5, <1>8
    <3> QED  BY <3>1, <3>2, <1>8 DEF KernelFirst
  <2> QED  BY <2>1, <2>3, <1>1, <1>2, <1>3, <1>8 DEF BootInv
<1>9. CASE /\ bootPc' = "done" /\ result' = "SUCCESS" /\ k' = k /\ pt.kind = "os"
           /\ pt.label # 0 /\ PutFirst(p, pt.label)
  <2>1. /\ partitionList' = [partitionList EXCEPT ![1] = p, ![Lab(disks, p) + 1] = partitionList[1]]
        /\ disks' = SetLabel(SetLabel(disks, partitionList[1], Lab(disks, p)), p, 0)
    BY <1>4, <1>9 DEF PutFirst
  <2> HIDE DEF p, pt
  <2>2. Lab(disks, p) # 0 /\ Kind(disks, p) = "os"
    BY <1>4, <1>9
  <2>3. /\ Exact(disks', diskList, partitionList', label) /\ PartsOf(disks') = PartsOf(disks)
        /\ \A q \in PartsOf(disks) : Kind(disks', q) = Kind(disks, q)
        /\ partitionList'[1] = p
    <3>1. Exchanged(disks, partitionList, p, disks', partitionList')
      BY <2>1 DEF Exchanged
    <3> QED  BY <3>1, <2>2, <1>1, <1>4, ExactPutFirst
  <2>4. Exact(disks, diskList, partitionList, label)'
    BY <2>3, <1>2
  <2>5. KernelFirst'
    <3>1. Kind(disks', p) = "os" /\ p[1] = diskList'[1]
      BY <2>2, <2>3, <1>2, <1>4, <1>5
    <3>2. label' = label /\ label = Len(partitionList)
      BY <1>1, <1>2, ExactIs
    <3>3. Len(partitionList') = label
      BY <2>3 DEF Exact
    <3>4. Len(partitionList') > 0
      BY <3>2, <3>3, <1>6
    <3> QED  BY <3>1, <3>4, <2>3, <1>9 DEF KernelFirst
  <2> QED  BY <2>4, <2>5, <1>1, <1>2, <1>3, <1>9 DEF BootInv
<1> QED  BY <1>7, <1>8, <1>9 DEF findKernelPartition, Finish

LEMMA BootStays ==
    ASSUME BootInv, PciInv', UNCHANGED <<tables, k>>,
           \/ bootPc' = bootPc /\ result' = result
           \/ bootPc # "done" /\ bootPc' # "kernelPart" /\ result' = result
           \/ bootPc # "done" /\ bootPc' = "done" /\ result' = "ENFOUND"
    PROVE  BootInv'
<1>1. Exact(disks, diskList, partitionList, label)'
  BY DEF BootInv, tables
<1> QED  BY <1>1 DEF BootInv, KernelFirst, tables, Kind

LEMMA BootStep == ASSUME BootInv, [Next]_diskVars PROVE BootInv'
<1> USE DEF tables
<1>1. CASE ScanBus
  <2>1. PciInv'
    BY <1>1, SubStep, DeviceStep DEF BootInv, ScanBus, pciScanBus
  <2>2. UNCHANGED <<tables, k, result>> /\ bootPc = "pci" /\ bootPc' \in {"pci", "stuck"}
    BY <1>1 DEF ScanBus, pciScanBus, ReadSubDevice, ReadDevice
  <2> QED  BY <2>1, <2>2, BootStays
<1>2. CASE ScanBusEnds \/ ScanEnds
  <2>1. UNCHANGED <<pciVars, tables, k, result>> /\ bootPc # "done" /\ bootPc' # "kernelPart"
    BY <1>2 DEF ScanBusEnds, ScanEnds
  <2>2. PciInv'
    BY <2>1, PciStays DEF BootInv
  <2> QED  BY <2>1, <2>2, BootStays
<1>3. CASE scanLegacyPorts \/ scanSata
  <2>1. UNCHANGED <<pciVars, tables, k, result>> /\ bootPc # "done" /\ bootPc' # "kernelPart"
    BY <1>3 DEF scanLegacyPorts, scanSata, Scan
  <2>2. PciInv'
    BY <2>1, PciStays DEF BootInv
  <2> QED  BY <2>1, <2>2, BootStays
<1>4. CASE NoKernelDisk \/ NoKernelPartition
  <2>1. /\ UNCHANGED <<pciVars, tables, k>> /\ bootPc # "done" /\ bootPc' = "done"
        /\ result' = "ENFOUND"
    BY <1>4 DEF NoKernelDisk, NoKernelPartition, Finish
  <2>2. PciInv'
    BY <2>1, PciStays DEF BootInv
  <2> QED  BY <2>1, <2>2, BootStays
<1>5. CASE UNCHANGED diskVars
  <2>1. UNCHANGED <<pciVars, tables, k, bootPc, result>>
    BY <1>5 DEF diskVars
  <2>2. PciInv'
    BY <2>1, PciStays DEF BootInv
  <2> QED  BY <2>1, <2>2, BootStays
<1>6. CASE AddDisk
  BY <1>6, AddStep
<1>7. CASE findKernelDisk
  BY <1>7, SwapStep
<1>8. CASE findKernelPartition
  BY <1>8, PartitionStep
<1> QED  BY <1>1, <1>2, <1>3, <1>4, <1>5, <1>6, <1>7, <1>8 DEF Next, diskInit

LEMMA BootFirst == ASSUME Init PROVE BootInv
<1>1. /\ PciInit /\ disks = << >> /\ diskList = << >> /\ partitionList = << >> /\ label = 0
      /\ k = 1 /\ result = "none" /\ bootPc = "pci"
  BY DEF Init, PciInit
<1>2. Exact(disks, diskList, partitionList, label)
  <2>1. disks \in Seq(Disk({}, {})) /\ diskList \in Seq(Nat) /\ partitionList \in Seq(Nat \X Nat)
    BY <1>1
  <2>2. \A p : p \notin PartsOf(disks)
    <3>1. \A p : p \in PartsOf(disks) <=>
                  \E d \in 1 .. Len(disks) : \E i \in 1 .. Len(disks[d].parts) : p = <<d, i>>
      BY <2>1, PartIs
    <3>2. \A d : d \notin 1 .. Len(disks)
      BY <1>1
    <3> QED  BY <3>1, <3>2
  <2>3. Len(diskList) <= MAX_DISKS /\ Len(partitionList) <= MAX_PARTITIONS /\ label = Len(partitionList)
        /\ Len(diskList) = 0 /\ Len(partitionList) = 0
    BY <1>1, DisksAssumption
  <2>4. \E D, K : disks \in Seq(Disk(D, K))
    BY <2>1
  <2> QED  BY <2>1, <2>2, <2>3, <2>4 DEF Exact
<1> QED  BY <1>1, <1>2, PciFirst DEF BootInv

-----------------------------------------------------------------------------
LEMMA BootLists == ASSUME BootInv PROVE ListsInv
<1>1. /\ Exact(disks, diskList, partitionList, label) /\ PciInv
      /\ k \in Nat \ {0} /\ result \in {"none", "SUCCESS", "ENFOUND"}
  BY DEF BootInv
<1>2. AllParts = PartsOf(disks) /\ \A p : LabelOf(p) = Lab(disks, p)
  BY DEF AllParts, PartsOf, LabelOf, Lab
<1>3. TypeOK
  <2>1. Range(diskList) \subseteq DOMAIN disks
    BY <1>1, ExactIs DEF Range
  <2>2. Range(partitionList) \subseteq AllParts
    BY <1>1, <1>2, ExactIs DEF Range
  <2>3. Len(diskList) <= MAX_DISKS /\ Len(partitionList) <= MAX_PARTITIONS
    BY <1>1, ExactIs
  <2> QED  BY <2>1, <2>2, <2>3, <1>1 DEF TypeOK
<1>4. EveryFunctionOnce
  BY <1>1 DEF PciInv
<1>5. IdsArePlaces
  BY <1>1, ExactIs DEF IdsArePlaces
<1>6. LabelsUnique
  BY <1>1, <1>2, ExactIs DEF LabelsUnique
<1>7. LabelsArePlaces
  <2>1. label = Len(partitionList) /\ \A p \in AllParts : LabelOf(p) \in 0 .. (label - 1)
    BY <1>1, <1>2, ExactIs
  <2>2. partitionList # << >> => LabelOf(partitionList[1]) = 0
    <3>1. partitionList # << >> => Len(partitionList) > 0
      <4>1. partitionList \in Seq(Nat \X Nat)
        BY <1>1 DEF Exact
      <4> QED  BY <4>1
    <3> QED  BY <3>1, <1>1, <1>2, ExactIs
  <2> QED  BY <2>1, <2>2 DEF LabelsArePlaces
<1> QED  BY <1>3, <1>4, <1>5, <1>6, <1>7 DEF ListsInv

LEMMA BootKernel == ASSUME BootInv PROVE KernelIsC
<1> SUFFICES ASSUME result = "SUCCESS"
             PROVE  LET p == partitionGetByVolumeLabel(0)
                    IN  /\ p \in AllParts /\ p[1] = diskList[1]
                        /\ disks[p[1]].parts[p[2]].kind = "os" /\ LabelOf(p) = 0
  BY DEF KernelIsC
<1>1. /\ Exact(disks, diskList, partitionList, label)
      /\ Len(partitionList) > 0 /\ partitionList[1][1] = diskList[1] /\ Kind(disks, partitionList[1]) = "os"
  BY DEF BootInv, KernelFirst
<1>2. Len(partitionList) \in Nat
  BY <1>1, ExactIs
<1>3. partitionGetByVolumeLabel(0) = partitionList[1]
  <2>1. ~ (0 >= Len(partitionList)) /\ 0 \in 0 .. (Len(partitionList) - 1)
    BY <1>1, <1>2
  <2>2. 0 - 0 = 0
    OBVIOUS
  <2>3. 0 + 1 = 1
    OBVIOUS
  <2> QED  BY <2>1, <2>2, <2>3 DEF partitionGetByVolumeLabel
<1>4. partitionList[1] \in PartsOf(disks) /\ Lab(disks, partitionList[1]) = 0
  <2>1. 1 \in 1 .. Len(partitionList)
    BY <1>1, <1>2
  <2> QED  BY <2>1, <1>1, ExactIs
<1>5. AllParts = PartsOf(disks) /\ \A p : LabelOf(p) = Lab(disks, p)
  BY DEF AllParts, PartsOf, LabelOf, Lab
<1> QED  BY <1>1, <1>3, <1>4, <1>5 DEF Kind

(* Through the scan of the PCI devices, the scans of the drives with their *)
(* checkMbrPartition, and the exchanges of findKernelDisk and              *)
(* findKernelPartition, the lists of pci.c and disk.c stay exact: every    *)
(* function once, ids and labels unique and indexes of their lists, on     *)
(* every machine and whichever reads and allocations fail.                 *)
THEOREM ListsStayExact == Spec => []ListsInv
<1>1. Init => BootInv
  BY BootFirst
<1>2. BootInv /\ [Next]_diskVars => BootInv'
  BY BootStep
<1>3. BootInv => ListsInv
  BY BootLists
<1> QED  BY <1>1, <1>2, <1>3, PTL DEF Spec

(* If diskInit returns SUCCESS, partitionGetByVolumeLabel finds at C a     *)
(* partition with the volume id of the system on the first disk, although  *)
(* a buffer may be stale when findKernelDisk compares it.                  *)
THEOREM KernelIsAtC == Spec => []KernelIsC
<1>1. Init => BootInv
  BY BootFirst
<1>2. BootInv /\ [Next]_diskVars => BootInv'
  BY BootStep
<1>3. BootInv => KernelIsC
  BY BootKernel
<1> QED  BY <1>1, <1>2, <1>3, PTL DEF Spec

-----------------------------------------------------------------------------
(* The kernel is found.  First, the drives behind the SATA controllers are *)
(* a sequence: FlattenSeq gives one.                                       *)
LEMMA Least ==
    ASSUME NEW S, S \subseteq Nat, S # {}
    PROVE  \E x \in S : \A y \in S : x <= y
<1>1. PICK x \in S : \A y \in S : ~ (<<y, x>> \in OpToRel(<, Nat))
  BY NatLessThanWellFounded, WFMin
<1>2. \A y \in S : ~ (y < x)
  BY <1>1, Zenon DEF OpToRel
<1> QED  BY <1>2

LEMMA FlattenExists ==
    ASSUME NEW q, NEW n \in Nat
    PROVE  \E f : f = [i \in 1 .. n |-> IF i = 1 THEN q[i] ELSE f[i - 1] \o q[i]]
<1> DEFINE Is(f, m) == f = [i \in 1 .. m |-> IF i = 1 THEN q[i] ELSE f[i - 1] \o q[i]]
           W == {m \in Nat : ~ \E f : Is(f, m)}
<1> SUFFICES ASSUME W # {} PROVE FALSE
  OBVIOUS
<1>1. PICK m \in W : \A j \in W : m <= j
  <2> W \subseteq Nat
    OBVIOUS
  <2> HIDE DEF W
  <2> QED  BY Least
<1>2. m \in Nat /\ ~ \E f : Is(f, m)
  OBVIOUS
<1>3. m # 0
  <2> SUFFICES ASSUME m = 0 PROVE FALSE
    OBVIOUS
  <2>1. Is([i \in 1 .. 0 |-> 0], 0)
    OBVIOUS
  <2> QED  BY <1>2, <2>1
<1>4. PICK f : Is(f, m - 1)
  <2>1. m - 1 \in Nat /\ ~ (m <= m - 1)
    BY <1>2, <1>3
  <2> QED  BY <1>1, <2>1
<1> DEFINE g == [i \in 1 .. m |-> IF i = m THEN (IF i = 1 THEN q[i] ELSE f[i - 1] \o q[i]) ELSE f[i]]
<1>5. ASSUME NEW i \in 1 .. m
      PROVE  g[i] = IF i = 1 THEN q[i] ELSE g[i - 1] \o q[i]
  <2>1. CASE i = 1 /\ i = m
    BY <2>1
  <2>2. CASE i = 1 /\ i # m
    <3>1. i \in 1 .. (m - 1)
      BY <1>2, <2>2
    <3> QED  BY <1>4, <2>2, <3>1
  <2>3. CASE i # 1 /\ i = m
    <3>1. i - 1 \in 1 .. m /\ i - 1 # m
      BY <1>2, <2>3
    <3>2. g[i - 1] = f[i - 1]
      BY <3>1
    <3> QED  BY <2>3, <3>2
  <2>4. CASE i # 1 /\ i # m
    <3>1. i \in 1 .. (m - 1) /\ i - 1 \in 1 .. m /\ i - 1 # m
      BY <1>2, <2>4
    <3>2. g[i - 1] = f[i - 1] /\ g[i] = f[i]
      BY <2>4, <3>1
    <3> QED  BY <1>4, <2>4, <3>1, <3>2
  <2> QED  BY <2>1, <2>2, <2>3, <2>4
<1>6. g = [i \in 1 .. m |-> g[i]]
  OBVIOUS
<1> HIDE DEF g
<1>7. Is(g, m)
  BY <1>5, <1>6
<1> QED  BY <1>2, <1>7

LEMMA FlattenTyped ==
    ASSUME NEW n \in Nat, NEW F, NEW S, \A i \in 1 .. n : F[i] \in Seq(S)
    PROVE  FlattenSeq([i \in 1 .. n |-> F[i]]) \in Seq(S)
<1> DEFINE q == [i \in 1 .. n |-> F[i]]
           g == CHOOSE f : f = [i \in 1 .. Len(q) |-> IF i = 1 THEN q[i] ELSE f[i - 1] \o q[i]]
<1>1. Len(q) = n /\ \A i \in 1 .. n : q[i] \in Seq(S)
  OBVIOUS
<1>2. CASE n = 0
  <2>1. q = << >>
    BY <1>2
  <2> HIDE DEF q
  <2>2. FlattenSeq(q) = q
    BY <2>1, Len(<< >>) = 0 DEF FlattenSeq
  <2>3. q \in Seq(S)
    BY <2>1
  <2> QED  BY <2>2, <2>3 DEF q
<1>3. CASE n # 0
  <2>1. FlattenSeq(q) = g[n]
    BY <1>1, <1>3 DEF FlattenSeq
  <2> HIDE DEF q
  <2>2. \E f : f = [i \in 1 .. Len(q) |-> IF i = 1 THEN q[i] ELSE f[i - 1] \o q[i]]
    BY <1>1, FlattenExists
  <2>3. g = [i \in 1 .. Len(q) |-> IF i = 1 THEN q[i] ELSE g[i - 1] \o q[i]]
    BY <2>2
  <2> HIDE DEF g
  <2>4. \A i \in 1 .. n : g[i] = IF i = 1 THEN q[i] ELSE g[i - 1] \o q[i]
    BY <1>1, <2>3
  <2> DEFINE W == {i \in 1 .. n : g[i] \notin Seq(S)}
  <2>5. W = {}
    <3> SUFFICES ASSUME W # {} PROVE FALSE
      OBVIOUS
    <3>1. W \subseteq Nat
      OBVIOUS
    <3> HIDE DEF W
    <3>2. PICK i \in W : \A j \in W : i <= j
      BY <3>1, Least
    <3>3. i \in 1 .. n /\ g[i] \notin Seq(S)
      BY <3>2 DEF W
    <3>4. CASE i = 1
      BY <1>1, <2>4, <3>3, <3>4
    <3>5. CASE i # 1
      <4>1. i - 1 \in 1 .. n /\ ~ (i <= i - 1)
        BY <3>3, <3>5
      <4>2. g[i - 1] \in Seq(S)
        BY <3>2, <4>1 DEF W
      <4>3. g[i] = g[i - 1] \o q[i] /\ q[i] \in Seq(S)
        BY <1>1, <2>4, <3>3, <3>5
      <4>4. g[i - 1] \o q[i] \in Seq(S)
        BY <4>2, <4>3
      <4> QED  BY <3>3, <4>3, <4>4
    <3> QED  BY <3>4, <3>5
  <2>6. n \in 1 .. n
    BY <1>3
  <2> QED  BY <2>1, <2>5, <2>6 DEF q
<1> QED  BY <1>2, <1>3

(* When the scan is over, the drives are a sequence.                       *)
ScanOver == pciNext > Len(machine.pci) /\ pciSub = 2

SataAt(f) == IF IsSata(f) /\ Function(f).mode = "ahci" THEN Function(f).drives ELSE << >>

LEMMA SataAre == SataDrives = FlattenSeq([i \in 1 .. Len(pciDevices) |-> SataAt(pciDevices[i])])
BY DEF SataDrives, SataAt

LEMMA FunctionsAre ==
    ASSUME PciInv, ScanOver, NEW i \in 1 .. Len(pciDevices)
    PROVE  Function(pciDevices[i]).drives \in Seq(Range(Function(pciDevices[i]).drives))
<1> DEFINE f == pciDevices[i]
<1>1. /\ machine \in Machines /\ pciDevices \in Seq(Nat \X Nat) /\ Range(pciDevices) \subseteq Passed
      /\ pciNext \in Nat /\ pciNext <= Len(machine.pci) + 1 /\ pciNext > Len(machine.pci) /\ pciSub = 2
  BY DEF PciInv, ScanOver, EveryFunctionOnce
<1>2. Len(machine.pci) \in Nat
  BY <1>1, MachineIs
<1>3. f \in Passed
  <2>1. f \in Range(pciDevices)
    BY <1>1, SeqElement DEF Range
  <2> QED  BY <1>1, <2>1
<1> HIDE DEF f
<1>4. \A j : j \notin 2 .. (pciSub - 1)
  BY <1>1
<1>5. PICK n \in 1 .. (pciNext - 1) : \E j \in 1 .. Len(machine.pci[n]) : f = <<n, j>>
  BY <1>3, <1>4, PassedIs
<1>6. PICK j \in 1 .. Len(machine.pci[n]) : f = <<n, j>>
  BY <1>5
<1> DEFINE d == machine.pci[n]
<1>7. machine.pci \in Seq(Range(machine.pci)) /\ n \in 1 .. Len(machine.pci)
  BY <1>1, <1>2, PciAssumption
<1>8. d \in Range(machine.pci)
  BY <1>7, SeqElement
<1>9. d \in Seq(Range(d)) /\ \A x \in Range(d) : x.drives \in Seq(Range(x.drives))
  BY <1>1, <1>8, PciAssumption
<1>10. d[j] \in Range(d)
  BY <1>6, <1>9, SeqElement
<1>11. Function(f) = d[j]
  BY <1>6 DEF Function
<1> QED  BY <1>9, <1>10, <1>11 DEF f

LEMMA DrivesAre ==
    ASSUME PciInv, ScanOver
    PROVE  \E S : LegacyDrives \in Seq(S) /\ SataDrives \in Seq(S)
<1> DEFINE I == 1 .. Len(pciDevices)
           S == (UNION {Range(Function(pciDevices[i]).drives) : i \in I}) \cup {machine.primary}
<1>1. LegacyDrives \in Seq(S)
  <2> DEFINE x == machine.primary
  <2>1. x \in S
    OBVIOUS
  <2> HIDE DEF S
  <2>2. <<x>> \in Seq(S) /\ << >> \in Seq(S)
    BY <2>1
  <2>3. \A a, b \in Seq(S) : a \o b \in Seq(S)
    OBVIOUS
  <2> QED  BY <2>2, <2>3 DEF LegacyDrives
<1>2. ASSUME NEW i \in I PROVE SataAt(pciDevices[i]) \in Seq(S)
  <2> DEFINE r == Function(pciDevices[i]).drives
  <2>1. r \in Seq(Range(r))
    BY FunctionsAre
  <2>2. Range(r) \subseteq S
    OBVIOUS
  <2> HIDE DEF S
  <2>3. r \in Seq(S) /\ << >> \in Seq(S)
    BY <2>1, <2>2, SeqWiden
  <2> QED  BY <2>3 DEF SataAt
<1>3. Len(pciDevices) \in Nat
  BY SeqElement DEF PciInv
<1> HIDE DEF S
<1>4. SataDrives \in Seq(S)
  <2> DEFINE F == [i \in I |-> SataAt(pciDevices[i])]
  <2>1. \A i \in I : F[i] \in Seq(S)
    BY <1>2
  <2>2. F = [i \in I |-> F[i]]
    OBVIOUS
  <2> HIDE DEF F
  <2>3. FlattenSeq([i \in I |-> F[i]]) \in Seq(S)
    BY <1>3, <2>1, FlattenTyped
  <2> QED  BY <2>2, <2>3, SataAre DEF F
<1> QED  BY <1>1, <1>4

-----------------------------------------------------------------------------
(* How far the search is while nothing has failed, D being the drives in   *)
(* the order of the scan and l the number of legacy ones.                  *)
HasOs(parts) == \E j \in 1 .. Len(parts) : parts[j].kind = "os"

ReadDisks(D, ds) ==
    /\ Len(ds) <= Len(D)
    /\ \A i \in 1 .. Len(ds) : ds[i].drive = D[i] /\ (HasSystem(D[i]) => HasOs(ds[i].parts))

Scanning(D, t) ==
    /\ \E S : scanned \in Seq(S)
    /\ Len(disks) + Len(scanned) = t /\ t <= Len(D)
    /\ \A j \in 1 .. Len(scanned) : scanned[j] = D[Len(disks) + j]
    /\ Len(partitionList) <= 3 * Len(disks)

InOrder(ds, dl) == Len(dl) = Len(ds) /\ \A i \in 1 .. Len(ds) : dl[i] = i

NoneBefore(D, n) == \A j \in 1 .. Len(D) : j < n => ~ D[j].boot
NoOsBefore(parts, n) == \A j \in 1 .. Len(parts) : j < n => parts[j].kind # "os"

First(D, b) == b \in 1 .. Len(D) /\ D[b].boot /\ NoneBefore(D, b)

OnTheWay(D, l) ==
    /\ bootPc # "done" => ReadDisks(D, disks)
    /\ bootPc \in {"legacyDisk", "sata"} => Scanning(D, l)
    /\ bootPc = "sataDisk" => Scanning(D, Len(D))
    /\ bootPc \in {"legacyDisk", "sata", "sataDisk"} => k = 1
    /\ bootPc = "sata" => scanned = << >>
    /\ bootPc \in {"legacyDisk", "sata", "sataDisk", "kernelDisk"} => InOrder(disks, diskList)
    /\ bootPc \in {"kernelDisk", "kernelPart"} => Len(disks) = Len(D)
    /\ bootPc = "kernelDisk" => NoneBefore(D, k)
    /\ bootPc = "kernelPart" => First(D, diskList[1]) /\ NoOsBefore(disks[diskList[1]].parts, k)
    /\ bootPc = "done" => result = "SUCCESS" \/ \A b : First(D, b) => ~ HasSystem(D[b])

FoundInv ==
    /\ bootPc \in {"pci", "stuck", "legacy", "legacyDisk", "sata", "sataDisk",
                   "kernelDisk", "kernelPart", "done"}
    /\ pciNext > Len(machine.pci) => pciSub = 2
    /\ bootPc \notin {"pci", "stuck"} => ScanOver
    /\ bootPc \in {"pci", "legacy"} =>
          disks = << >> /\ diskList = << >> /\ partitionList = << >> /\ k = 1
    /\ bootPc \notin {"pci", "legacy", "stuck"} /\ ~ faulty /\ Len(Drives) <= MAX_DISKS =>
          OnTheWay(Drives, Len(LegacyDrives))

LEMMA DrivesStay ==
    ASSUME UNCHANGED <<machine, pciDevices>>
    PROVE  Drives' = Drives /\ LegacyDrives' = LegacyDrives /\ SataDrives' = SataDrives
<1>1. LegacyDrives' = LegacyDrives
  BY DEF LegacyDrives
<1>2. SataDrives' = SataDrives
  <2> DEFINE F == [i \in 1 .. Len(pciDevices) |-> SataAt(pciDevices[i])]
  <2>2. SataDrives = FlattenSeq(F)
    BY SataAre DEF F
  <2>3. SataDrives' = FlattenSeq(F')
    <3>1. (SataDrives = FlattenSeq([i \in 1 .. Len(pciDevices) |-> SataAt(pciDevices[i])]))'
      BY SataAre, PTL
    <3> QED  BY <3>1 DEF F
  <2>5. F' = F
    BY DEF SataAt, IsSata, Function
  <2> QED  BY <2>2, <2>3, <2>5
<1> QED  BY <1>1, <1>2 DEF Drives

(* Where the drives of the two scans are among all drives.                 *)
LEMMA DrivesJoin ==
    ASSUME PciInv, ScanOver
    PROVE  /\ \E S : LegacyDrives \in Seq(S) /\ SataDrives \in Seq(S)
           /\ Len(LegacyDrives) \in Nat /\ Len(SataDrives) \in Nat
           /\ Len(Drives) = Len(LegacyDrives) + Len(SataDrives)
           /\ \A j \in 1 .. Len(LegacyDrives) : Drives[j] = LegacyDrives[j]
           /\ \A j \in 1 .. Len(SataDrives) : Drives[Len(LegacyDrives) + j] = SataDrives[j]
<1>1. PICK S : LegacyDrives \in Seq(S) /\ SataDrives \in Seq(S)
  BY DrivesAre
<1>2. PICK a \in Seq(S) : a = LegacyDrives
  BY <1>1
<1>3. PICK b \in Seq(S) : b = SataDrives
  BY <1>1
<1>4. Drives = a \o b
  BY <1>2, <1>3 DEF Drives
<1>5. /\ Len(a) \in Nat /\ Len(b) \in Nat /\ Len(a \o b) = Len(a) + Len(b)
      /\ \A j \in 1 .. Len(a) : (a \o b)[j] = a[j]
      /\ \A j \in 1 .. Len(b) : (a \o b)[Len(a) + j] = b[j]
  OBVIOUS
<1> QED  BY <1>1, <1>2, <1>3, <1>4, <1>5

(* checkMbrPartition finds the system if there is room for three entries.  *)
LEMMA MbrFinds ==
    ASSUME NEW drive, NEW junk, Len(partitionList) \in Nat, Len(partitionList) + 3 <= MAX_PARTITIONS,
           NEW parts, parts = CheckMbrPartition(drive, junk)
    PROVE  Len(parts) \in Nat /\ Len(parts) <= 3 /\ (HasSystem(drive) => HasOs(parts))
<1> DEFINE a == Active(drive.mbr[1])
           b == Active(drive.mbr[3])
           c == Active(junk)
           active == a \o b \o c
           K == {drive.mbr[1], drive.mbr[3], junk}
<1>1. ASSUME NEW e \in K
      PROVE  Active(e) \in Seq(K) /\ Len(Active(e)) \in 0 .. 1 /\ (e = "os" => Len(Active(e)) = 1 /\ Active(e)[1] = "os")
  <2> HIDE DEF K
  <2> QED  BY DEF Active
<1>2. /\ a \in Seq(K) /\ b \in Seq(K) /\ c \in Seq(K)
      /\ Len(a) \in 0 .. 1 /\ Len(b) \in 0 .. 1 /\ Len(c) \in 0 .. 1
      /\ HasSystem(drive) => \/ Len(a) = 1 /\ a[1] = "os"
                             \/ Len(b) = 1 /\ b[1] = "os"
  BY <1>1 DEF HasSystem
<1> HIDE DEF K, a, b, c
<1>3. /\ Len(active) = Len(a) + Len(b) + Len(c)
      /\ \A i \in 1 .. Len(a) : active[i] = a[i]
      /\ \A i \in 1 .. Len(b) : active[Len(a) + i] = b[i]
  BY <1>2
<1> HIDE DEF active
<1>4. /\ Len(active) \in 0 .. 3
      /\ HasSystem(drive) => \E i \in 1 .. Len(active) : active[i] = "os"
  <2>1. Len(active) \in 0 .. 3
    <3>1. PICK x, y, z \in 0 .. 1 : x = Len(a) /\ y = Len(b) /\ z = Len(c)
      BY <1>2
    <3>2. Len(active) = x + y + z
      BY <1>3, <3>1
    <3> QED  BY <3>2
  <2>2. CASE Len(a) = 1 /\ a[1] = "os"
    <3>1. 1 \in 1 .. Len(active) /\ active[1] = "os"
      BY <1>2, <1>3, <2>2
    <3> QED  BY <2>1, <3>1
  <2>3. CASE Len(b) = 1 /\ b[1] = "os"
    <3>1. Len(a) + 1 \in 1 .. Len(active) /\ active[Len(a) + 1] = "os"
      BY <1>2, <1>3, <2>3
    <3> QED  BY <2>1, <3>1
  <2> QED  BY <1>2, <2>1, <2>2, <2>3
<1>5. parts = [i \in 1 .. Len(active) |-> [kind |-> active[i], label |-> label + i - 1]]
  <2>1. ~ (Len(active) > MAX_PARTITIONS - Len(partitionList))
    <3>1. PICK x \in 0 .. 3 : x = Len(active)
      BY <1>4
    <3>2. PICK y \in Nat : y = Len(partitionList)
      OBVIOUS
    <3>3. y + 3 <= MAX_PARTITIONS /\ MAX_PARTITIONS \in Nat
      BY <3>2, DisksAssumption
    <3>4. ~ (x > MAX_PARTITIONS - y)
      BY <3>3
    <3> QED  BY <3>1, <3>2, <3>4
  <2> QED  BY <2>1 DEF CheckMbrPartition, active, a, b, c
<1>6. Len(parts) = Len(active) /\ \A i \in 1 .. Len(active) : parts[i].kind = active[i]
  BY <1>4, <1>5
<1> QED  BY <1>4, <1>6 DEF HasOs

-----------------------------------------------------------------------------
(* The steps of the search.                                                *)
LEMMA DisksGrow ==
    ASSUME Exact(disks, diskList, partitionList, label), NEW d
    PROVE  /\ Len(Append(disks, d)) = Len(disks) + 1
           /\ \A i \in 1 .. Len(disks) : Append(disks, d)[i] = disks[i]
           /\ Append(disks, d)[Len(disks) + 1] = d
<1>1. PICK D, K : disks \in Seq(Disk(D, K))
  BY DEF Exact
<1> DEFINE X == Disk(D, K) \cup {d}
<1>2. disks \in Seq(X)
  BY <1>1, SeqWiden
<1>3. d \in X
  OBVIOUS
<1> HIDE DEF X
<1> QED  BY <1>2, <1>3, Appended

LEMMA ListGrows ==
    ASSUME Exact(disks, diskList, partitionList, label), NEW d \in Nat
    PROVE  /\ Len(Append(diskList, d)) = Len(diskList) + 1
           /\ \A i \in 1 .. Len(diskList) : Append(diskList, d)[i] = diskList[i]
           /\ Append(diskList, d)[Len(diskList) + 1] = d
<1>1. diskList \in Seq(Nat)
  BY DEF Exact
<1> QED  BY <1>1, Appended

LEMMA AddOnWay ==
    ASSUME NEW D, NEW l \in Nat, Len(D) \in Nat, Len(D) <= MAX_DISKS, RoomForPartitions,
           BootInv, AddDisk, bootPc' # "stuck", ~ faulty', OnTheWay(D, l)
    PROVE  OnTheWay(D, l)'
<1> DEFINE n == Len(disks)
           drive == Head(scanned)
<1>1. /\ Exact(disks, diskList, partitionList, label)
      /\ bootPc \in {"legacyDisk", "sataDisk"} /\ scanned # << >>
  BY DEF BootInv, AddDisk
<1> PICK t \in Nat : t = IF bootPc = "sataDisk" THEN Len(D) ELSE l
  OBVIOUS
<1>2. ReadDisks(D, disks) /\ Scanning(D, t) /\ k = 1 /\ InOrder(disks, diskList)
  BY <1>1 DEF OnTheWay
<1>3. PICK junk : LET parts == CheckMbrPartition(drive, junk)
                  IN  /\ disks' = Append(disks, [id |-> NextId, drive |-> drive, parts |-> parts])
                      /\ partitionList' = partitionList \o [i \in 1 .. Len(parts) |-> <<n + 1, 1>>]
                      /\ diskList' = InsertDisk(n + 1)
                      /\ scanned' = IF Len(diskList) = MAX_DISKS THEN << >> ELSE Tail(scanned)
                      /\ bootPc' = bootPc /\ k' = k
  BY DEF AddDisk
<1>4. PICK parts : parts = CheckMbrPartition(drive, junk)
  OBVIOUS
<1> DEFINE d == [id |-> NextId, drive |-> drive, parts |-> parts]
<1>5. /\ disks' = Append(disks, d)
      /\ partitionList' = partitionList \o [i \in 1 .. Len(parts) |-> <<n + 1, 1>>]
  BY <1>3, <1>4
<1>6. d.drive = drive /\ d.parts = parts
  OBVIOUS
<1> HIDE DEF d
<1>7. n \in Nat /\ Len(diskList) = n /\ Len(partitionList) \in Nat /\ partitionList \in Seq(Nat \X Nat)
  BY <1>1, <1>2, ExactIs DEF InOrder, Exact
<1>8. PICK S : scanned \in Seq(S)
  BY <1>2 DEF Scanning
<1>9. /\ Len(scanned) \in Nat /\ Len(scanned) > 0 /\ drive = scanned[1]
      /\ Tail(scanned) \in Seq(S) /\ Len(Tail(scanned)) = Len(scanned) - 1
      /\ \A j \in 1 .. (Len(scanned) - 1) : Tail(scanned)[j] = scanned[j + 1]
  BY <1>1, <1>8
<1>10. /\ n + Len(scanned) = t /\ t <= Len(D) /\ Len(partitionList) <= 3 * n
       /\ \A j \in 1 .. Len(scanned) : scanned[j] = D[n + j]
  BY <1>2 DEF Scanning
<1> HIDE DEF drive, n
<1>11. n < MAX_DISKS /\ n + 1 <= Len(D)
  BY <1>7, <1>9, <1>10, DisksAssumption
<1>12. Len(partitionList) + 3 <= MAX_PARTITIONS
  BY <1>7, <1>10, <1>11, DisksAssumption DEF RoomForPartitions
<1>13. Len(parts) \in Nat /\ Len(parts) <= 3 /\ (HasSystem(drive) => HasOs(parts))
  BY <1>4, <1>7, <1>12, MbrFinds
<1>14. /\ Len(disks') = n + 1 /\ disks'[n + 1] = d
       /\ \A i \in 1 .. n : disks'[i] = disks[i]
  BY <1>1, <1>5, DisksGrow DEF n
<1>15. drive = D[n + 1]
  BY <1>9, <1>10
<1>16. ReadDisks(D, disks')
  <2>1. ASSUME NEW i \in 1 .. (n + 1)
        PROVE  disks'[i].drive = D[i] /\ (HasSystem(D[i]) => HasOs(disks'[i].parts))
    <3>1. CASE i = n + 1
      BY <3>1, <1>6, <1>13, <1>14, <1>15
    <3>2. CASE i # n + 1
      <4>1. i \in 1 .. n
        BY <3>2, <1>7
      <4> QED  BY <4>1, <1>2, <1>14 DEF ReadDisks, n
    <3> QED  BY <3>1, <3>2
  <2> QED  BY <2>1, <1>11, <1>14 DEF ReadDisks
<1>17. /\ diskList' = Append(diskList, n + 1) /\ scanned' = Tail(scanned)
       /\ bootPc' = bootPc /\ k' = 1
  <2>1. Len(diskList) # MAX_DISKS
    BY <1>7, <1>11, DisksAssumption
  <2> QED  BY <2>1, <1>2, <1>3 DEF InsertDisk
<1>18. InOrder(disks', diskList')
  <2>1. /\ Len(diskList') = n + 1 /\ diskList'[n + 1] = n + 1
        /\ \A i \in 1 .. n : diskList'[i] = diskList[i]
    <3>1. n + 1 \in Nat
      BY <1>7
    <3> QED  BY <3>1, <1>1, <1>7, <1>17, ListGrows
  <2>2. \A i \in 1 .. n : diskList[i] = i
    BY <1>2 DEF InOrder, n
  <2>3. \A i \in 1 .. (n + 1) : i = n + 1 \/ i \in 1 .. n
    BY <1>7
  <2> QED  BY <2>1, <2>2, <2>3, <1>14 DEF InOrder
<1>19. Scanning(D, t)'
  <2>1. \E X : scanned' \in Seq(X)
    BY <1>9, <1>17
  <2>2. Len(disks') + Len(scanned') = t
    <3>1. Len(scanned') = Len(scanned) - 1
      BY <1>9, <1>17
    <3>2. PICK m \in Nat : m = Len(scanned)
      BY <1>9
    <3>3. Len(disks') = n + 1 /\ Len(scanned') = m - 1 /\ n + m = t
      BY <3>1, <3>2, <1>10, <1>14
    <3>4. PICK x \in Nat : x = n
      BY <1>7
    <3>5. (x + 1) + (m - 1) = t
      BY <3>3, <3>4
    <3> QED  BY <3>3, <3>4, <3>5, Zenon
  <2>3. ASSUME NEW j \in 1 .. Len(scanned') PROVE scanned'[j] = D[Len(disks') + j]
    <3>1. j \in 1 .. (Len(scanned) - 1) /\ scanned'[j] = scanned[j + 1]
      BY <1>9, <1>17
    <3>2. j + 1 \in 1 .. Len(scanned) /\ n + (j + 1) = (n + 1) + j
      BY <3>1, <1>7, <1>9
    <3> QED  BY <3>1, <3>2, <1>10, <1>14
  <2>4. Len(partitionList') <= 3 * Len(disks')
    <3>1. Len(partitionList') = Len(partitionList) + Len(parts)
      <4>1. \A x \in Nat : x \in Nat => [i \in 1 .. Len(parts) |-> <<x, 1>>] \in Seq(Nat \X Nat)
        BY <1>13
      <4>2. n + 1 \in Nat
        BY <1>7
      <4>3. PICK q \in Seq(Nat \X Nat) : q = [i \in 1 .. Len(parts) |-> <<n + 1, 1>>]
        BY <4>1, <4>2
      <4>4. Len(q) = Len(parts)
        BY <4>3, <1>13
      <4> QED  BY <4>3, <4>4, <1>5, <1>7
    <3> QED  BY <3>1, <1>7, <1>10, <1>13, <1>14
  <2> QED  BY <2>1, <2>2, <2>3, <2>4, <1>10 DEF Scanning
<1> QED
  <2>1. (bootPc' \in {"legacyDisk", "sataDisk"}) /\ t = IF bootPc' = "sataDisk" THEN Len(D) ELSE l
    BY <1>1, <1>17
  <2> QED  BY <2>1, <1>16, <1>17, <1>18, <1>19 DEF OnTheWay

(* The first bootable drive's disk comes to the front.                     *)
LEMMA SwapOnWay ==
    ASSUME NEW D, NEW l, Len(D) \in Nat,
           BootInv, findKernelDisk, ~ faulty', OnTheWay(D, l)
    PROVE  OnTheWay(D, l)'
<1>1. /\ Exact(disks, diskList, partitionList, label) /\ k \in Nat \ {0}
      /\ bootPc = "kernelDisk" /\ k <= Len(diskList) /\ scanned' = scanned
  BY DEF BootInv, findKernelDisk
<1>2. /\ ReadDisks(D, disks) /\ InOrder(disks, diskList) /\ Len(disks) = Len(D) /\ NoneBefore(D, k)
  BY <1>1 DEF OnTheWay
<1>3. /\ k \in 1 .. Len(D) /\ diskList[k] = k /\ disks[k].drive = D[k]
  BY <1>1, <1>2 DEF InOrder, ReadDisks
<1>4. \/ /\ disks[k].drive.boot
         /\ diskList' = Swap(diskList, k) /\ bootPc' = "kernelPart" /\ k' = 1
         /\ disks' = [disks EXCEPT ![diskList[1]].id = k - 1, ![diskList[k]].id = 0]
      \/ /\ ~ disks[k].drive.boot
         /\ k' = k + 1 /\ UNCHANGED <<diskList, disks, bootPc>>
  BY <1>3 DEF findKernelDisk
<1>5. CASE ~ disks[k].drive.boot /\ k' = k + 1 /\ UNCHANGED <<diskList, disks, bootPc>>
  <2>1. NoneBefore(D, k + 1)
    <3>1. ASSUME NEW j \in 1 .. Len(D), j < k + 1 PROVE ~ D[j].boot
      <4>1. j = k \/ j < k
        BY <3>1, <1>1
      <4> QED  BY <4>1, <1>2, <1>3, <1>5 DEF NoneBefore
    <3> QED  BY <3>1 DEF NoneBefore
  <2> QED  BY <2>1, <1>1, <1>2, <1>5 DEF OnTheWay
<1>6. CASE /\ disks[k].drive.boot
           /\ diskList' = Swap(diskList, k) /\ bootPc' = "kernelPart" /\ k' = 1
           /\ disks' = [disks EXCEPT ![diskList[1]].id = k - 1, ![diskList[k]].id = 0]
  <2> DEFINE d1 == SetId(disks, diskList[1], k - 1)
             d2 == SetId(d1, k, 0)
  <2>1. PICK E, K : disks \in Seq(Disk(E, K))
    BY <1>1 DEF Exact
  <2>2. k - 1 \in Nat /\ k \in 1 .. Len(disks) /\ diskList[1] \in 1 .. Len(disks)
    BY <1>1, <1>2, <1>3 DEF InOrder
  <2>3. /\ d1 \in Seq(Disk(E, K)) /\ Len(d1) = Len(disks)
        /\ \A i \in 1 .. Len(disks) : d1[i].drive = disks[i].drive /\ d1[i].parts = disks[i].parts
    BY <2>1, <2>2, StoreId
  <2>4. /\ Len(d2) = Len(disks)
        /\ \A i \in 1 .. Len(disks) : d2[i].drive = disks[i].drive /\ d2[i].parts = disks[i].parts
    <3> HIDE DEF d1
    <3>1. k \in 1 .. Len(d1) /\ 0 \in Nat
      BY <2>2, <2>3
    <3>2. /\ Len(d2) = Len(d1)
          /\ \A i \in 1 .. Len(d1) : d2[i].drive = d1[i].drive /\ d2[i].parts = d1[i].parts
      BY <2>3, <3>1, StoreId
    <3> QED  BY <2>3, <3>2
  <2>5. disks' = d2
    BY <1>3, <1>6 DEF SetId
  <2> HIDE DEF d1, d2
  <2>6. ReadDisks(D, disks') /\ Len(disks') = Len(D)
    BY <1>2, <2>4, <2>5 DEF ReadDisks
  <2>7. diskList'[1] = k
    <3>1. diskList \in Seq(Nat) /\ 1 \in 1 .. Len(diskList)
      BY <1>1, <1>2, <1>3 DEF Exact, InOrder
    <3> QED  BY <3>1, <1>1, <1>3, <1>6 DEF Swap
  <2>8. First(D, diskList'[1])
    BY <2>7, <1>2, <1>3, <1>6 DEF First
  <2>9. NoOsBefore(disks'[diskList'[1]].parts, 1)
    BY DEF NoOsBefore
  <2> QED  BY <2>6, <2>8, <2>9, <1>6 DEF OnTheWay
<1> QED  BY <1>4, <1>5, <1>6

(* Its partition is looked for among those of the disk.                    *)
LEMMA PartitionOnWay ==
    ASSUME NEW D, NEW l,
           BootInv, findKernelPartition, ~ faulty', OnTheWay(D, l)
    PROVE  OnTheWay(D, l)'
<1> DEFINE parts == disks[diskList[1]].parts
<1>1. /\ Exact(disks, diskList, partitionList, label) /\ k \in Nat \ {0}
      /\ bootPc = "kernelPart" /\ k <= Len(parts) /\ scanned' = scanned /\ diskList' = diskList
  BY DEF BootInv, findKernelPartition
<1>2. /\ ReadDisks(D, disks) /\ Len(disks) = Len(D) /\ First(D, diskList[1])
      /\ NoOsBefore(parts, k)
  BY <1>1 DEF OnTheWay
<1>3. \/ bootPc' = "done" /\ result' = "SUCCESS"
      \/ parts[k].kind # "os" /\ k' = k + 1 /\ UNCHANGED <<partitionList, disks, bootPc, result>>
  BY DEF findKernelPartition, Finish
<1>4. CASE bootPc' = "done" /\ result' = "SUCCESS"
  BY <1>4 DEF OnTheWay
<1>5. CASE parts[k].kind # "os" /\ k' = k + 1 /\ UNCHANGED <<partitionList, disks, bootPc, result>>
  <2>1. NoOsBefore(parts, k + 1)
    <3> HIDE DEF parts
    <3>1. ASSUME NEW j \in 1 .. Len(parts), j < k + 1 PROVE parts[j].kind # "os"
      <4>1. Len(parts) \in Nat => j = k \/ j < k
        BY <3>1, <1>1
      <4>2. Len(parts) \in Nat
        <5>1. diskList[1] \in 1 .. Len(disks)
          BY <1>2 DEF First
        <5> QED  BY <5>1, <1>1, ExactIs DEF parts
      <4> QED  BY <4>1, <4>2, <1>2, <1>5 DEF NoOsBefore
    <3> QED  BY <3>1 DEF NoOsBefore
  <2> QED  BY <2>1, <1>1, <1>2, <1>5 DEF OnTheWay
<1> QED  BY <1>3, <1>4, <1>5

LEMMA FirstIsOne ==
    ASSUME NEW D, Len(D) \in Nat, NEW b, NEW c, First(D, b), First(D, c)
    PROVE  b = c
<1>1. /\ b \in 1 .. Len(D) /\ c \in 1 .. Len(D) /\ D[b].boot /\ D[c].boot
      /\ ~ (b < c) /\ ~ (c < b)
  BY DEF First, NoneBefore
<1> QED  BY <1>1

(* What is missing when the search ends without a result.                  *)
LEMMA EndOnWay ==
    ASSUME NEW D, NEW l, Len(D) \in Nat,
           BootInv, NoKernelDisk \/ NoKernelPartition, OnTheWay(D, l)
    PROVE  OnTheWay(D, l)'
<1>1. bootPc' = "done" /\ Exact(disks, diskList, partitionList, label) /\ k \in Nat
  BY DEF BootInv, NoKernelDisk, NoKernelPartition, Finish
<1>2. \A b : First(D, b) => ~ HasSystem(D[b])
  <2>1. CASE NoKernelDisk
    <3>1. /\ bootPc = "kernelDisk" /\ k > Len(D) /\ NoneBefore(D, k)
      BY <2>1 DEF NoKernelDisk, OnTheWay, InOrder
    <3>2. ASSUME NEW b, First(D, b) PROVE FALSE
      <4>1. b \in 1 .. Len(D) /\ b < k
        BY <3>1, <3>2, <1>1 DEF First
      <4> QED  BY <4>1, <3>1, <3>2 DEF First, NoneBefore
    <3> QED  BY <3>2
  <2>2. CASE NoKernelPartition
    <3> DEFINE c == diskList[1]
               parts == disks[c].parts
    <3>1. /\ bootPc = "kernelPart" /\ k > Len(parts) /\ NoOsBefore(parts, k)
          /\ First(D, c) /\ ReadDisks(D, disks) /\ Len(disks) = Len(D)
      BY <2>2 DEF NoKernelPartition, OnTheWay
    <3>2. c \in 1 .. Len(D) /\ Len(parts) \in Nat
      <4>1. c \in 1 .. Len(disks)
        BY <3>1 DEF First
      <4> QED  BY <4>1, <3>1, <1>1, ExactIs
    <3>3. HasSystem(D[c]) => HasOs(parts)
      BY <3>1, <3>2 DEF ReadDisks
    <3> HIDE DEF parts
    <3>4. ~ HasOs(parts)
      <4>1. \A j \in 1 .. Len(parts) : j < k
        BY <3>1, <3>2, <1>1
      <4> QED  BY <4>1, <3>1 DEF HasOs, NoOsBefore
    <3> QED  BY <3>1, <3>3, <3>4, FirstIsOne
  <2> QED  BY <2>1, <2>2
<1>3. bootPc' = "done" => \A b : First(D, b) => ~ HasSystem(D[b])
  BY <1>2
<1> QED  BY <1>1, <1>3 DEF OnTheWay

(* A scan without a failure has all its drives before it.                  *)
LEMMA ScanIsWhole ==
    ASSUME NEW drives, NEW S, drives \in Seq(S), NEW next, Scan(drives, next), ~ faulty'
    PROVE  scanned' = drives /\ ~ faulty
<1>1. PICK n \in 0 .. Len(drives) : scanned' = SubSeq(drives, 1, n) /\ faulty' = (faulty \/ n < Len(drives))
  BY DEF Scan
<1>2. Len(drives) \in Nat /\ SubSeq(drives, 1, Len(drives)) = drives
  OBVIOUS
<1>3. ~ (n < Len(drives)) /\ ~ faulty
  BY <1>1
<1>4. n = Len(drives)
  <2>1. PICK m \in Nat : m = Len(drives)
    BY <1>2
  <2>2. n \in 0 .. m /\ ~ (n < m)
    BY <1>3, <2>1
  <2> QED  BY <2>1, <2>2
<1> QED  BY <1>1, <1>2, <1>3, <1>4

LEMMA LegacyOnWay ==
    ASSUME NEW D, NEW l \in Nat, NEW S, NEW L \in Seq(S), Len(L) = l, Len(D) \in Nat, l <= Len(D),
           \A j \in 1 .. l : D[j] = L[j],
           Scan(L, "legacyDisk"), ~ faulty', k = 1,
           disks = << >>, diskList = << >>, partitionList = << >>
    PROVE  OnTheWay(D, l)'
<1>1. /\ scanned' = L /\ bootPc' = "legacyDisk" /\ k' = 1
      /\ disks' = << >> /\ diskList' = << >> /\ partitionList' = << >>
  BY ScanIsWhole DEF Scan, tables
<1>2. Len(disks') = 0 /\ Len(diskList') = 0 /\ Len(partitionList') = 0
  BY <1>1
<1>3. \A i : i \notin 1 .. 0
  OBVIOUS
<1>4. ReadDisks(D, disks') /\ InOrder(disks', diskList')
  BY <1>2, <1>3 DEF ReadDisks, InOrder
<1>5. Scanning(D, l)'
  <2>1. \A j \in 1 .. Len(scanned') : scanned'[j] = D[Len(disks') + j]
    BY <1>1, <1>2
  <2>2. \E X : scanned' \in Seq(X)
    BY <1>1
  <2> QED  BY <2>1, <2>2, <1>1, <1>2 DEF Scanning
<1> QED  BY <1>1, <1>4, <1>5 DEF OnTheWay

LEMMA SataOnWay ==
    ASSUME NEW D, NEW l \in Nat, NEW S, NEW L \in Seq(S), Len(D) = l + Len(L),
           \A j \in 1 .. Len(L) : D[l + j] = L[j],
           Len(disks) \in Nat, bootPc = "sata", Scan(L, "sataDisk"), ~ faulty', OnTheWay(D, l)
    PROVE  OnTheWay(D, l)'
<1>1. /\ scanned' = L /\ bootPc' = "sataDisk" /\ k' = k
      /\ disks' = disks /\ diskList' = diskList /\ partitionList' = partitionList
  BY ScanIsWhole DEF Scan, tables
<1>2. /\ ReadDisks(D, disks) /\ InOrder(disks, diskList) /\ Scanning(D, l) /\ scanned = << >> /\ k = 1
  BY DEF OnTheWay
<1>3. Len(disks) = l /\ Len(partitionList) <= 3 * Len(disks)
  <2>1. Len(disks) + 0 = l /\ Len(disks) <= Len(D) /\ Len(partitionList) <= 3 * Len(disks)
    BY <1>2, Len(<< >>) = 0 DEF Scanning, ReadDisks
  <2> QED  BY <2>1
<1>4. Scanning(D, Len(D))'
  <2>1. \A j \in 1 .. Len(scanned') : scanned'[j] = D[Len(disks') + j]
    BY <1>1, <1>3
  <2>2. \E X : scanned' \in Seq(X)
    BY <1>1
  <2>3. Len(disks') + Len(scanned') = Len(D) /\ Len(D) <= Len(D)
    <3>1. Len(L) \in Nat
      OBVIOUS
    <3> QED  BY <3>1, <1>1, <1>3
  <2> QED  BY <2>1, <2>2, <2>3, <1>1, <1>3 DEF Scanning
<1> QED  BY <1>1, <1>2, <1>4 DEF OnTheWay

LEMMA ScanEndOnWay ==
    ASSUME NEW D, NEW l, Len(disks) \in Nat, ScanEnds, OnTheWay(D, l)
    PROVE  OnTheWay(D, l)'
<1>1. /\ bootPc \in {"legacyDisk", "sataDisk"} /\ scanned = << >>
      /\ bootPc' = IF bootPc = "legacyDisk" THEN "sata" ELSE "kernelDisk"
      /\ disks' = disks /\ diskList' = diskList /\ partitionList' = partitionList
      /\ scanned' = scanned /\ k' = k
  BY DEF ScanEnds, tables
<1>2. ReadDisks(D, disks) /\ InOrder(disks, diskList) /\ k = 1
  BY <1>1 DEF OnTheWay
<1>3. CASE bootPc = "legacyDisk"
  <2>1. Scanning(D, l)
    BY <1>3 DEF OnTheWay
  <2>2. Scanning(D, l)'
    BY <2>1, <1>1 DEF Scanning
  <2> QED  BY <2>2, <1>1, <1>2, <1>3 DEF OnTheWay
<1>4. CASE bootPc = "sataDisk"
  <2>1. Len(disks) + 0 = Len(D)
    BY <1>1, <1>4, Len(<< >>) = 0 DEF OnTheWay, Scanning
  <2>2. Len(disks') = Len(D)
    BY <2>1, <1>1
  <2>3. NoneBefore(D, 1)
    BY DEF NoneBefore
  <2> QED  BY <2>2, <2>3, <1>1, <1>2, <1>4 DEF OnTheWay
<1> QED  BY <1>1, <1>3, <1>4

-----------------------------------------------------------------------------
LEMMA FoundFirst == ASSUME Init PROVE FoundInv
<1>1. /\ machine \in Machines /\ bootPc = "pci" /\ pciNext = 1 /\ pciSub = 2 /\ k = 1
      /\ disks = << >> /\ diskList = << >> /\ partitionList = << >>
  BY DEF Init, PciInit
<1> QED  BY <1>1 DEF FoundInv

(* After the scan of the PCI devices the drives are fixed, and a step has  *)
(* only to carry the search on.                                            *)
LEMMA FoundLater ==
    ASSUME FoundInv, UNCHANGED pciVars, bootPc \notin {"pci", "stuck"},
           bootPc' \in {"stuck", "legacyDisk", "sata", "sataDisk", "kernelDisk", "kernelPart", "done"},
           NEW D, D = Drives, NEW l, l = Len(LegacyDrives),
           bootPc' # "stuck" /\ ~ faulty' /\ Len(D) <= MAX_DISKS => OnTheWay(D, l)'
    PROVE  FoundInv'
<1>1. Drives' = D /\ LegacyDrives' = LegacyDrives
  BY DrivesStay DEF pciVars
<1>2. ScanOver'
  BY DEF FoundInv, ScanOver, pciVars
<1>3. bootPc' \notin {"pci", "legacy"}
  OBVIOUS
<1>4. ~ faulty' /\ bootPc' # "stuck" /\ Len(Drives') <= MAX_DISKS => OnTheWay(Drives, Len(LegacyDrives))'
  <2>1. Len(LegacyDrives') = l
    BY <1>1
  <2> HIDE DEF OnTheWay
  <2>2. SUFFICES ASSUME ~ faulty', bootPc' # "stuck", Len(D) <= MAX_DISKS
        PROVE  OnTheWay(Drives, Len(LegacyDrives))'
    BY <1>1
  <2>3. OnTheWay(D, l)'
    BY <2>2
  <2> QED  BY <2>1, <2>3, <1>1 DEF OnTheWay, ReadDisks, Scanning, NoneBefore, First
<1> QED  BY <1>2, <1>3, <1>4 DEF FoundInv, ScanOver

LEMMA FoundStep == ASSUME RoomForPartitions, BootInv, FoundInv, [Next]_diskVars PROVE FoundInv'
<1> USE DEF tables
<1>1. PciInv /\ Exact(disks, diskList, partitionList, label) /\ Len(disks) \in Nat
  BY ExactIs DEF BootInv
<1>2. CASE ScanBus
  <2>1. /\ bootPc = "pci" /\ pciNext <= Len(machine.pci) /\ machine' = machine
        /\ UNCHANGED <<tables, k>>
        /\ \/ bootPc' \in {"pci", "stuck"} /\ pciNext' = pciNext
           \/ bootPc' = "pci" /\ pciSub' = 2
    BY <1>2 DEF ScanBus, pciScanBus, ReadSubDevice, ReadDevice
  <2>2. pciNext' = pciNext => ~ (pciNext' > Len(machine'.pci))
    BY <2>1, <1>1, MachineIs DEF PciInv
  <2> QED  BY <2>1, <2>2 DEF FoundInv
<1>3. CASE ScanBusEnds
  <2>1. /\ bootPc = "pci" /\ bootPc' = "legacy" /\ pciNext > Len(machine.pci)
        /\ UNCHANGED <<pciVars, tables, k>>
    BY <1>3 DEF ScanBusEnds
  <2> QED  BY <2>1 DEF FoundInv, ScanOver, pciVars
<1>4. CASE UNCHANGED diskVars
  <2>1. UNCHANGED <<pciVars, tables, bootPc, scanned, k, result, faulty>>
    BY <1>4 DEF diskVars
  <2>2. Drives' = Drives /\ LegacyDrives' = LegacyDrives
    BY <2>1, DrivesStay DEF pciVars
  <2> QED  BY <2>1, <2>2 DEF FoundInv, ScanOver, pciVars, OnTheWay, ReadDisks, Scanning, InOrder,
                            NoneBefore, NoOsBefore, First
<1>5. CASE scanLegacyPorts \/ scanSata \/ ScanEnds \/ AddDisk \/ findKernelDisk \/ NoKernelDisk
           \/ findKernelPartition \/ NoKernelPartition
  <2>1. /\ UNCHANGED pciVars /\ bootPc \notin {"pci", "stuck", "done"}
        /\ bootPc' \in {"stuck", "legacyDisk", "sata", "sataDisk", "kernelDisk", "kernelPart", "done"}
        /\ faulty => faulty'
    <3>1. CASE scanLegacyPorts \/ scanSata
      BY <3>1 DEF scanLegacyPorts, scanSata, Scan
    <3>2. CASE ScanEnds \/ NoKernelDisk \/ NoKernelPartition
      BY <3>2 DEF ScanEnds, NoKernelDisk, NoKernelPartition, Finish
    <3>3. CASE AddDisk
      BY <3>3 DEF AddDisk
    <3>4. CASE findKernelDisk
      BY <3>4 DEF findKernelDisk
    <3>5. CASE findKernelPartition
      BY <3>5 DEF findKernelPartition, Finish
    <3> QED  BY <1>5, <3>1, <3>2, <3>3, <3>4, <3>5
  <2>2. ScanOver
    BY <2>1 DEF FoundInv
  <2>3. PICK D : D = Drives
    OBVIOUS
  <2>4. PICK l : l = Len(LegacyDrives)
    OBVIOUS
  <2>5. PICK S : LegacyDrives \in Seq(S) /\ SataDrives \in Seq(S)
    BY <1>1, <2>2, DrivesJoin
  <2>6. /\ l \in Nat /\ Len(SataDrives) \in Nat /\ Len(D) = l + Len(SataDrives)
        /\ Len(D) \in Nat /\ l <= Len(D)
        /\ \A j \in 1 .. l : D[j] = LegacyDrives[j]
        /\ \A j \in 1 .. Len(SataDrives) : D[l + j] = SataDrives[j]
    <3>1. /\ l \in Nat /\ Len(SataDrives) \in Nat /\ Len(D) = l + Len(SataDrives)
          /\ \A j \in 1 .. l : D[j] = LegacyDrives[j]
          /\ \A j \in 1 .. Len(SataDrives) : D[l + j] = SataDrives[j]
      BY <1>1, <2>2, <2>3, <2>4, DrivesJoin
    <3> QED  BY <3>1
  <2>7. ASSUME bootPc' # "stuck", ~ faulty', Len(D) <= MAX_DISKS PROVE OnTheWay(D, l)'
    <3>1. bootPc # "legacy" => OnTheWay(D, l)
      BY <2>1, <2>3, <2>4, <2>7 DEF FoundInv
    <3>2. CASE scanLegacyPorts
      <4>1. /\ disks = << >> /\ diskList = << >> /\ partitionList = << >> /\ k = 1
            /\ Scan(LegacyDrives, "legacyDisk")
        BY <3>2 DEF FoundInv, scanLegacyPorts
      <4>2. PICK L \in Seq(S) : L = LegacyDrives
        BY <2>5
      <4> QED  BY <4>1, <4>2, <2>4, <2>6, <2>7, LegacyOnWay
    <3>3. CASE scanSata
      <4>1. bootPc = "sata" /\ Scan(SataDrives, "sataDisk") /\ OnTheWay(D, l)
        BY <3>1, <3>3 DEF scanSata
      <4>2. PICK L \in Seq(S) : L = SataDrives
        BY <2>5
      <4> QED  BY <4>1, <4>2, <2>6, <2>7, <1>1, SataOnWay
    <3>4. CASE ScanEnds
      BY <3>1, <3>4, <1>1, ScanEndOnWay DEF ScanEnds
    <3>5. CASE AddDisk
      BY <3>1, <3>5, <2>6, <2>7, AddOnWay DEF AddDisk
    <3>6. CASE findKernelDisk
      BY <3>1, <3>6, <2>6, <2>7, SwapOnWay DEF findKernelDisk
    <3>7. CASE findKernelPartition
      BY <3>1, <3>7, <2>7, PartitionOnWay DEF findKernelPartition
    <3>8. CASE NoKernelDisk \/ NoKernelPartition
      BY <3>1, <3>8, <2>6, EndOnWay DEF NoKernelDisk, NoKernelPartition
    <3> QED  BY <1>5, <3>2, <3>3, <3>4, <3>5, <3>6, <3>7, <3>8
  <2> QED  BY <2>1, <2>3, <2>4, <2>7, FoundLater
<1> QED  BY <1>2, <1>3, <1>4, <1>5 DEF Next, diskInit

(* On a machine without faults the kernel is found: the disks are read in  *)
(* the order of the drives, of each the entries that checkMbrPartition     *)
(* looks at get into its list as there is room for them, findKernelDisk    *)
(* stops at the first that boots, wherever the lists have it, and          *)
(* findKernelPartition at the system's partition among those of that disk. *)
THEOREM KernelIsFound == ASSUME RoomForPartitions PROVE Spec => []KernelFound
<1>1. Init => BootInv /\ FoundInv
  BY BootFirst, FoundFirst
<1>2. BootInv /\ FoundInv /\ [Next]_diskVars => BootInv' /\ FoundInv'
  BY BootStep, FoundStep
<1>3. FoundInv => KernelFound
  <2> SUFFICES ASSUME FoundInv, bootPc = "done", ~ faulty, Len(Drives) <= MAX_DISKS,
                      NEW i \in 1 .. Len(Drives), FirstBootable(i), HasSystem(Drives[i])
               PROVE  result = "SUCCESS"
    BY DEF KernelFound
  <2>1. result = "SUCCESS" \/ \A b : First(Drives, b) => ~ HasSystem(Drives[b])
    BY DEF FoundInv, OnTheWay
  <2>2. First(Drives, i)
    BY DEF FirstBootable, First, NoneBefore
  <2> QED  BY <2>1, <2>2
<1> QED  BY <1>1, <1>2, <1>3, PTL DEF Spec
=============================================================================
