---------------------------- MODULE DeviceProofs ---------------------------
(***************************************************************************)
(* The devices of the machine.                                             *)
(*                                                                         *)
(* Interrupts, for every set of lines and of exceptions: routines nest at  *)
(* most four deep, every vector that is delivered finds a handler, each    *)
(* end of interrupt takes the right line out of service, and the globals   *)
(* the stubs share never harm the code that is interrupted.                *)
(*                                                                         *)
(* The disk drivers, for drives of every size, every width of the count    *)
(* and address registers, every limit of a transfer and every set of       *)
(* requests: what ataPio.c and ahci.c answer is what the drive has done,   *)
(* and drive and driver keep out of each other's way.                      *)
(***************************************************************************)
EXTENDS Interrupts, DiskDrivers, WellFoundedInduction, TLAPS

(* The inductive invariant.                                                *)
InterruptsInv == ServiceInv /\ InterruptedCodeUnharmed
-----------------------------------------------------------------------------
(* The stack of routines.                                                  *)

LEMMA TopIs ==
    ASSUME TypeOK
    PROVE  Top = cpu[Len(cpu)] /\ Top \in Routine /\ Len(cpu) \in Nat \ {0}
BY DEF TypeOK, Top, Last

(* The routine that runs, unless it is the kernel's own code.              *)
LEMMA TopRoutine ==
    ASSUME InterruptsInv
    PROVE  /\ Len(cpu) = 1 \/ Len(cpu) > 1
           /\ Len(cpu) > 1 =>
                /\ Top.at \notin {"kernel", "wild", "reset"}
                /\ Top.vec \in (32 .. 47) \cup Exceptions \cup {NMI}
                /\ Top.vec \in 32 .. 47 => /\ Len(cpu) = 2 /\ Top.flag
                                            /\ cpu[1].at = "kernel" /\ Top.at # "panic"
                /\ Top.at = "loadRegisters" => Top.vec \in 32 .. 47
           /\ Len(cpu) = 1 => Top = cpu[1] /\ Top.at \in {"kernel", "panic", "reset"}
<1>1. Top = cpu[Len(cpu)] /\ Len(cpu) \in Nat \ {0}
  BY TopIs DEF InterruptsInv, ServiceInv
<1>2. Len(cpu) > 1 => Len(cpu) \in 2 .. Len(cpu)
  BY <1>1
<1>3. NestingInv
  BY DEF InterruptsInv, ServiceInv
<1>4. ASSUME Len(cpu) > 1
      PROVE  /\ Top.at \notin {"kernel", "wild", "reset"}
             /\ Top.vec \in (32 .. 47) \cup Exceptions \cup {NMI}
             /\ Top.vec \in 32 .. 47 => /\ Len(cpu) = 2 /\ Top.flag
                                         /\ cpu[1].at = "kernel" /\ Top.at # "panic"
             /\ Top.at = "loadRegisters" => Top.vec \in 32 .. 47
  <2>1. Len(cpu) \in 2 .. Len(cpu)
    BY <1>2, <1>4
  <2> QED  BY <1>1, <1>3, <2>1, Zenon DEF NestingInv
<1>5. ASSUME Len(cpu) = 1  PROVE Top = cpu[1] /\ Top.at \in {"kernel", "panic", "reset"}
  BY <1>1, <1>3, <1>5 DEF NestingInv
<1>6. Len(cpu) = 1 \/ Len(cpu) > 1
  <2>1. \A n \in Nat \ {0} : n = 1 \/ n > 1
    OBVIOUS
  <2> QED  BY <1>1, <2>1, Zenon
<1> QED  BY <1>4, <1>5, <1>6

LEMMA GotoMoves ==
    ASSUME TypeOK, NEW at \in Places, Goto(at)
    PROVE  /\ cpu' \in Seq(Routine) /\ Len(cpu') = Len(cpu)
           /\ \A i \in 1 .. Len(cpu) : i # Len(cpu) => cpu'[i] = cpu[i]
           /\ cpu'[Len(cpu)] = [Top EXCEPT !.at = at]
           /\ Top' = cpu'[Len(cpu)]
<1>1. Top = cpu[Len(cpu)] /\ Top \in Routine /\ Len(cpu) \in Nat \ {0} /\ cpu \in Seq(Routine)
  BY TopIs DEF TypeOK
<1>2. [Top EXCEPT !.at = at] \in Routine
  BY <1>1 DEF Routine
<1>3. cpu' = [cpu EXCEPT ![Len(cpu)] = [Top EXCEPT !.at = at]]
  BY <1>1 DEF Goto
<1>4. cpu' \in Seq(Routine) /\ Len(cpu') = Len(cpu)
  BY <1>1, <1>2, <1>3
<1> QED  BY <1>1, <1>3, <1>4 DEF Top, Last

LEMMA EnterPushes ==
    ASSUME TypeOK, NEW v \in Vectors, Enter(v)
    PROVE  /\ cpu' \in Seq(Routine) /\ Len(cpu') = Len(cpu) + 1
           /\ \A i \in 1 .. Len(cpu) : cpu'[i] = cpu[i]
           /\ cpu'[Len(cpu) + 1] = [at |-> "saveRegisters", vec |-> v, rax |-> Junk, flag |-> intFlag]
           /\ Top' = cpu'[Len(cpu) + 1]
           /\ intFlag' = FALSE
<1> DEFINE f == [at |-> "saveRegisters", vec |-> v, rax |-> Junk, flag |-> intFlag]
<1>1. f \in Routine
  BY DEF Routine, Places, TypeOK
<1>2. cpu' = Append(cpu, f) /\ intFlag' = FALSE
  BY DEF Enter, FlagInStub
<1> HIDE DEF f
<1>3. cpu' \in Seq(Routine) /\ Len(cpu') = Len(cpu) + 1
  BY <1>1, <1>2 DEF TypeOK
<1>4. cpu'[Len(cpu) + 1] = f /\ \A i \in 1 .. Len(cpu) : cpu'[i] = cpu[i]
  BY <1>1, <1>2 DEF TypeOK
<1> QED  BY <1>2, <1>3, <1>4 DEF f, Top, Last

(* The handlers idtInit installs.                                          *)
LEMMA HandlersInstalled ==
    ASSUME idtInit
    PROVE  /\ DOMAIN handlerList' = Vectors
           /\ \A v \in 32 .. 47 : handlerList'[v] \notin {"NULL", "panic"}
           /\ \A v \in Exceptions \cup {NMI} : handlerList'[v] = "panic"
<1> DEFINE E == (0 .. 8) \cup (10 .. 14) \cup (16 .. 21) \cup (28 .. 30)
<1>1. handlerList' = [v \in Vectors |->
                        IF v \in E THEN "panic"
                        ELSE IF v \in 32 .. 47 THEN InitIrqHandler[v] ELSE "NULL"]
  BY DEF idtInit, InitExceptionHandler, InitIrqHandler, Vectors
<1>2. E \cup (32 .. 47) \subseteq Vectors /\ E \cap (32 .. 47) = {}
  BY DEF Vectors, TOTAL_INTERRUPTS
<1>3. Exceptions \cup {NMI} \subseteq E
  BY ExceptionsAssumption DEF NMI
<1>4. \A v \in 32 .. 47 : InitIrqHandler[v] \notin {"NULL", "panic"}
  BY DEF InitIrqHandler
<1> QED  BY <1>1, <1>2, <1>3, <1>4
-----------------------------------------------------------------------------
(* Steps of a stub and its handler.                                        *)

(* The running routine goes on to another place.                           *)
LEMMA MoveTop ==
    ASSUME InterruptsInv, Len(cpu) > 1,
           cpu' \in Seq(Routine), Len(cpu') = Len(cpu),
           \A i \in 1 .. Len(cpu) : i # Len(cpu) => cpu'[i] = cpu[i],
           cpu'[Len(cpu)].vec = Top.vec, cpu'[Len(cpu)].flag = Top.flag,
           cpu'[Len(cpu)].at \in {"popReturn", "push", "jump", "trapHandler", "loadRegisters", "panic"},
           cpu'[Len(cpu)].at = "loadRegisters" => Top.vec \in 32 .. 47,
           cpu'[Len(cpu)].at = "panic" => Top.vec \notin 32 .. 47,
           ~ intFlag', UNCHANGED <<handlerList, idtr>>
    PROVE  /\ NestingInv' /\ BootInv' /\ NoWildCall' /\ InterruptedCodeUnharmed'
           /\ Top' = cpu'[Len(cpu)]
<1>1. Top = cpu[Len(cpu)] /\ Len(cpu) \in Nat \ {0, 1} /\ Top' = cpu'[Len(cpu)]
  BY TopIs DEF InterruptsInv, ServiceInv, Top, Last
<1>2. NestingInv'
  <2>1. cpu'[1] = cpu[1] /\ 1 \in 1 .. Len(cpu)
    BY <1>1
  <2>2. cpu'[1].vec = 0 /\ cpu'[1].at \in {"kernel", "panic", "reset"}
    BY <2>1 DEF InterruptsInv, ServiceInv, NestingInv
  <2>3. ASSUME NEW i \in 2 .. Len(cpu), i # Len(cpu)
        PROVE  /\ cpu'[i] = cpu[i]
               /\ cpu'[2].vec = cpu[2].vec
    BY <1>1, <2>3
  <2>4. cpu'[2].vec = cpu[2].vec
    BY <1>1, <2>3
  <2>5. ASSUME NEW i \in 2 .. Len(cpu')
        PROVE  /\ cpu'[i].at \notin {"kernel", "wild", "reset"}
               /\ cpu'[i].vec \in (32 .. 47) \cup Exceptions \cup {NMI}
               /\ cpu'[i].vec \in 32 .. 47 => /\ i = 2 /\ cpu'[i].flag
                                               /\ cpu'[1].at = "kernel" /\ cpu'[i].at # "panic"
               /\ cpu'[i].vec \in Exceptions => i = 2 \/ (i = 3 /\ cpu'[2].vec \in 32 .. 47)
               /\ cpu'[i].vec = NMI => i = Len(cpu')
               /\ cpu'[i].at = "loadRegisters" => cpu'[i].vec \in 32 .. 47
    <3>1. i \in 2 .. Len(cpu)
      OBVIOUS
    <3>2. CASE i # Len(cpu)
      BY <2>1, <2>3, <2>4, <3>1, <3>2, SMTT(40) DEF InterruptsInv, ServiceInv, NestingInv
    <3>3. CASE i = Len(cpu)
      BY <1>1, <2>1, <2>4, <3>1, <3>3 DEF InterruptsInv, ServiceInv, NestingInv
    <3> QED  BY <3>2, <3>3
  <2> QED  BY <2>2, <2>5 DEF NestingInv
<1>3. BootInv'
  BY <1>1 DEF InterruptsInv, ServiceInv, BootInv
<1>4. NoWildCall'
  <2>1. ASSUME NEW i \in 1 .. Len(cpu)  PROVE cpu'[i].at # "wild"
    <3>1. CASE i = Len(cpu)
      BY <3>1
    <3>2. CASE i # Len(cpu)
      BY <3>2 DEF InterruptsInv, ServiceInv, NoWildCall
    <3> QED  BY <3>1, <3>2
  <2> QED  BY <2>1 DEF NoWildCall
<1>5. InterruptedCodeUnharmed'
  BY <1>1 DEF InterruptedCodeUnharmed
<1> QED  BY <1>1, <1>2, <1>3, <1>4, <1>5

(* A line is in service while its routine is in its stub.                  *)
LEMMA StillServed ==
    ASSUME InterruptsInv, Len(cpu) > 1, Len(cpu') = Len(cpu),
           \A i \in 1 .. Len(cpu) : i # Len(cpu) => cpu'[i] = cpu[i],
           cpu'[Len(cpu)].vec = Top.vec, cpu'[Len(cpu)].at # "loadRegisters", isr' = isr
    PROVE  InServiceIsServed'
<1>1. Top = cpu[Len(cpu)] /\ Len(cpu) \in Nat \ {0, 1}
  BY TopIs DEF InterruptsInv, ServiceInv
<1>2. ASSUME NEW l \in isr \ Slaves
      PROVE  \E i \in 1 .. Len(cpu) : /\ cpu'[i].vec \in 32 .. 47 /\ Level(cpu'[i].vec - 32) = l
                                       /\ cpu'[i].at # "loadRegisters"
  <2>1. PICK i \in 1 .. Len(cpu) : /\ cpu[i].vec \in 32 .. 47 /\ Level(cpu[i].vec - 32) = l
                                   /\ cpu[i].at # "loadRegisters"
    BY DEF InterruptsInv, ServiceInv, InServiceIsServed
  <2>2. cpu'[i].vec = cpu[i].vec /\ cpu'[i].at # "loadRegisters"
    BY <1>1, <2>1
  <2> QED  BY <2>1, <2>2
<1> QED  BY <1>2 DEF InServiceIsServed

LEMMA StubGoesOn ==
    ASSUME InterruptsInv, SaveRax \/ SaveReturn \/ PushRegisters \/ JumpBack
    PROVE  InterruptsInv'
<1>1. TypeOK /\ Top = cpu[Len(cpu)] /\ Top \in Routine /\ Len(cpu) \in Nat \ {0}
  BY TopIs DEF InterruptsInv, ServiceInv
<1>2. Len(cpu) > 1 /\ ~ intFlag
  BY <1>1 DEF InterruptsInv, ServiceInv, NestingInv, SaveRax, SaveReturn, PushRegisters, JumpBack
<1>3. CASE SaveRax
  <2>1. Goto("popReturn") /\ "popReturn" \in Places
    BY <1>3 DEF SaveRax, Places
  <2>2. Top' = [Top EXCEPT !.at = "popReturn"]
    BY <1>1, <2>1, GotoMoves
  <2>3. UNCHANGED <<handlerList, idtr, intFlag, rax, saveRetAddress, irr, isr>>
        /\ tempSave' = rax /\ Top.at = "saveRegisters"
    BY <1>3 DEF SaveRax, boot, pic
  <2>4. Top'.vec = Top.vec /\ Top'.flag = Top.flag /\ Top'.at = "popReturn"
    BY <1>1, <2>2 DEF Routine
  <2>5. NestingInv' /\ BootInv' /\ NoWildCall' /\ InterruptedCodeUnharmed'
    BY <1>1, <1>2, <2>1, <2>3, <2>4, GotoMoves, MoveTop
  <2>6. InServiceIsServed'
    BY <1>1, <1>2, <2>1, <2>3, <2>4, GotoMoves, StillServed
  <2>7. TypeOK'
    BY <1>1, <2>1, <2>3, GotoMoves DEF TypeOK
  <2>8. GlobalsInv'
    BY <1>2, <2>3, <2>4 DEF GlobalsInv, InterruptsInv, ServiceInv
  <2> QED  BY <2>5, <2>6, <2>7, <2>8 DEF InterruptsInv, ServiceInv
<1>4. CASE SaveReturn
  <2>1. Goto("push") /\ "push" \in Places
    BY <1>4 DEF SaveReturn, Places
  <2>2. Top' = [Top EXCEPT !.at = "push"]
    BY <1>1, <2>1, GotoMoves
  <2>3. UNCHANGED <<handlerList, idtr, intFlag, tempSave, irr, isr>>
        /\ saveRetAddress' = Top.vec /\ rax' = Junk /\ Top.at = "popReturn"
    BY <1>4 DEF SaveReturn, boot, pic
  <2>4. Top'.vec = Top.vec /\ Top'.flag = Top.flag /\ Top'.at = "push" /\ Top.vec \in Vectors
    BY <1>1, <2>2 DEF Routine
  <2>5. NestingInv' /\ BootInv' /\ NoWildCall' /\ InterruptedCodeUnharmed'
    BY <1>1, <1>2, <2>1, <2>3, <2>4, GotoMoves, MoveTop
  <2>6. InServiceIsServed'
    BY <1>1, <1>2, <2>1, <2>3, <2>4, GotoMoves, StillServed
  <2>7. TypeOK'
    BY <1>1, <2>1, <2>3, <2>4, GotoMoves DEF TypeOK
  <2>8. GlobalsInv'
    BY <1>2, <2>3, <2>4 DEF GlobalsInv, InterruptsInv, ServiceInv
  <2> QED  BY <2>5, <2>6, <2>7, <2>8 DEF InterruptsInv, ServiceInv
<1>5. CASE PushRegisters
  <2> DEFINE f == [Top EXCEPT !.at = "jump", !.rax = tempSave]
  <2>1. UNCHANGED <<handlerList, idtr, intFlag, tempSave, saveRetAddress, irr, isr>>
        /\ rax' = Junk /\ Top.at = "push"
    BY <1>5 DEF PushRegisters, boot, pic
  <2>2. cpu' = [cpu EXCEPT ![Len(cpu)] = f]
    BY <1>1, <1>5 DEF PushRegisters
  <2>3. /\ f \in Routine /\ f.vec = Top.vec /\ f.flag = Top.flag /\ f.at = "jump"
        /\ f.rax = tempSave
    BY <1>1 DEF Routine, Places, TypeOK
  <2> HIDE DEF f
  <2>4. /\ cpu' \in Seq(Routine) /\ Len(cpu') = Len(cpu) /\ cpu'[Len(cpu)] = f
        /\ \A i \in 1 .. Len(cpu) : i # Len(cpu) => cpu'[i] = cpu[i]
    BY <1>1, <2>2, <2>3 DEF TypeOK
  <2>5. NestingInv' /\ BootInv' /\ NoWildCall' /\ InterruptedCodeUnharmed' /\ Top' = f
    BY <1>2, <2>1, <2>3, <2>4, MoveTop
  <2>6. InServiceIsServed'
    BY <1>2, <2>1, <2>3, <2>4, StillServed
  <2>7. TypeOK'
    BY <1>1, <2>1, <2>4 DEF TypeOK
  <2>8. GlobalsInv'
    BY <1>2, <2>1, <2>3, <2>5 DEF GlobalsInv, InterruptsInv, ServiceInv
  <2> QED  BY <2>5, <2>6, <2>7, <2>8 DEF InterruptsInv, ServiceInv
<1>6. CASE JumpBack
  <2> DEFINE f == [Top EXCEPT !.at = "trapHandler", !.vec = saveRetAddress]
  <2>1. UNCHANGED <<handlerList, idtr, intFlag, rax, tempSave, saveRetAddress, irr, isr>>
        /\ Top.at = "jump"
    BY <1>6 DEF JumpBack, boot, pic
  <2>2. cpu' = [cpu EXCEPT ![Len(cpu)] = f]
    BY <1>1, <1>6 DEF JumpBack
  <2>3. saveRetAddress = Top.vec
    BY <1>2, <2>1 DEF GlobalsInv, InterruptsInv, ServiceInv
  <2>4. /\ f \in Routine /\ f.vec = Top.vec /\ f.flag = Top.flag /\ f.at = "trapHandler"
        /\ f.rax = Top.rax
    BY <1>1, <2>3 DEF Routine, Places, TypeOK
  <2> HIDE DEF f
  <2>5. /\ cpu' \in Seq(Routine) /\ Len(cpu') = Len(cpu) /\ cpu'[Len(cpu)] = f
        /\ \A i \in 1 .. Len(cpu) : i # Len(cpu) => cpu'[i] = cpu[i]
    BY <1>1, <2>2, <2>4 DEF TypeOK
  <2>6. NestingInv' /\ BootInv' /\ NoWildCall' /\ InterruptedCodeUnharmed' /\ Top' = f
    BY <1>2, <2>1, <2>4, <2>5, MoveTop
  <2>7. InServiceIsServed'
    BY <1>2, <2>1, <2>4, <2>5, StillServed
  <2>8. TypeOK'
    BY <1>1, <2>1, <2>5 DEF TypeOK
  <2>9. GlobalsInv'
    BY <1>2, <2>1, <2>4, <2>6 DEF GlobalsInv, InterruptsInv, ServiceInv
  <2> QED  BY <2>6, <2>7, <2>8, <2>9 DEF InterruptsInv, ServiceInv
<1> QED  BY <1>3, <1>4, <1>5, <1>6

(* The lines of the first controller in service: the one whose routine     *)
(* runs, or none.                                                          *)
LEMMA OneInService ==
    ASSUME InterruptsInv, NEW l \in isr \ Slaves
    PROVE  /\ Len(cpu) > 1 /\ cpu[2].vec \in 32 .. 47 /\ cpu[2].at # "loadRegisters"
           /\ l = Level(cpu[2].vec - 32)
<1>1. PICK i \in 1 .. Len(cpu) : /\ cpu[i].vec \in 32 .. 47 /\ Level(cpu[i].vec - 32) = l
                                 /\ cpu[i].at # "loadRegisters"
  BY DEF InterruptsInv, ServiceInv, InServiceIsServed
<1>2. Len(cpu) \in Nat \ {0}
  BY TopIs DEF InterruptsInv, ServiceInv
<1>3. i # 1
  BY <1>1, SMTT(40) DEF InterruptsInv, ServiceInv, NestingInv
<1>4. i \in 2 .. Len(cpu)
  BY <1>1, <1>2, <1>3
<1>5. i = 2
  BY <1>1, <1>4 DEF InterruptsInv, ServiceInv, NestingInv
<1> QED  BY <1>1, <1>2, <1>4, <1>5

LEMMA LevelNotSlave == ASSUME NEW l \in 0 .. 15 PROVE Level(l) \notin Slaves
BY DEF Level, Slaves, CASCADE

LEMMA HandlerRuns ==
    ASSUME InterruptsInv, trapHandler
    PROVE  InterruptsInv'
<1>1. TypeOK /\ Top = cpu[Len(cpu)] /\ Top \in Routine /\ Len(cpu) \in Nat \ {0}
  BY TopIs DEF InterruptsInv, ServiceInv
<1>2. Len(cpu) > 1 /\ ~ intFlag /\ Top.at = "trapHandler"
  BY <1>1 DEF InterruptsInv, ServiceInv, NestingInv, trapHandler
<1>3. idtr /\ Top.vec \in (32 .. 47) \cup Exceptions \cup {NMI}
  BY <1>1, <1>2 DEF InterruptsInv, ServiceInv, BootInv, NestingInv
<1>4. UNCHANGED <<handlerList, idtr, rax, tempSave, saveRetAddress, irr>>
  BY DEF trapHandler, boot
<1>5. CASE Top.vec \notin 32 .. 47
  <2>1. handlerList[Top.vec] = "panic"
    BY <1>3, <1>5 DEF InterruptsInv, ServiceInv, BootInv
  <2>2. Goto("panic") /\ intFlag' = FALSE /\ isr' = isr /\ "panic" \in Places
    BY <2>1 DEF trapHandler, Panic, Places
  <2>3. Top' = [Top EXCEPT !.at = "panic"]
    BY <1>1, <2>2, GotoMoves
  <2>4. Top'.vec = Top.vec /\ Top'.flag = Top.flag /\ Top'.at = "panic"
    BY <1>1, <2>3 DEF Routine
  <2>5. NestingInv' /\ BootInv' /\ NoWildCall' /\ InterruptedCodeUnharmed'
    BY <1>1, <1>2, <1>4, <1>5, <2>2, <2>4, GotoMoves, MoveTop
  <2>6. InServiceIsServed'
    BY <1>1, <1>2, <2>2, <2>4, GotoMoves, StillServed
  <2>7. TypeOK'
    BY <1>1, <1>4, <2>2, GotoMoves DEF TypeOK
  <2>8. GlobalsInv'
    BY <2>4 DEF GlobalsInv
  <2> QED  BY <2>5, <2>6, <2>7, <2>8 DEF InterruptsInv, ServiceInv
<1>6. CASE Top.vec \in 32 .. 47
  <2>1. handlerList[Top.vec] \notin {"NULL", "panic"}
    BY <1>3, <1>6 DEF InterruptsInv, ServiceInv, BootInv
  <2>2. /\ Goto("loadRegisters") /\ intFlag' = intFlag /\ EndOfInterrupt(Top.vec)
        /\ "loadRegisters" \in Places
    BY <2>1 DEF trapHandler, Places
  <2>3. Top' = [Top EXCEPT !.at = "loadRegisters"]
    BY <1>1, <2>2, GotoMoves
  <2>4. Top'.vec = Top.vec /\ Top'.flag = Top.flag /\ Top'.at = "loadRegisters" /\ Top'.rax = Top.rax
    BY <1>1, <2>3 DEF Routine
  <2>5. NestingInv' /\ BootInv' /\ NoWildCall' /\ InterruptedCodeUnharmed'
    BY <1>1, <1>2, <1>4, <1>6, <2>2, <2>4, GotoMoves, MoveTop
  <2>6. isr' \subseteq isr /\ isr' \ Slaves = {}
    <3>1. \A k, l \in isr \ Slaves : k = l
      BY OneInService
    <3>2. isr' = IF isr \ Slaves # {} THEN isr \ {Min(isr \ Slaves)} ELSE isr
      BY <1>6, <2>2 DEF EndOfInterrupt
    <3>3. ASSUME NEW l \in isr \ Slaves  PROVE Min(isr \ Slaves) = l
      <4>1. l \in Int
        BY LinesAssumption DEF InterruptsInv, ServiceInv, TypeOK, CASCADE
      <4>2. \A y \in isr \ Slaves : l <= y
        BY <3>1, <4>1
      <4>3. Min(isr \ Slaves) \in isr \ Slaves
        BY <4>2 DEF Min
      <4> QED  BY <3>1, <4>3
    <3> QED  BY <3>2, <3>3
  <2>7. InServiceIsServed'
    BY <2>6 DEF InServiceIsServed
  <2>8. TypeOK'
    BY <1>1, <1>4, <2>2, <2>6, GotoMoves DEF TypeOK
  <2>9. GlobalsInv'
    BY <1>2, <1>4, <2>4 DEF GlobalsInv, InterruptsInv, ServiceInv
  <2> QED  BY <2>5, <2>7, <2>8, <2>9 DEF InterruptsInv, ServiceInv
<1> QED  BY <1>5, <1>6

LEMMA StubReturns ==
    ASSUME InterruptsInv, LoadRegisters
    PROVE  InterruptsInv'
<1>1. TypeOK /\ Top = cpu[Len(cpu)] /\ Top \in Routine /\ Len(cpu) \in Nat \ {0}
  BY TopIs DEF InterruptsInv, ServiceInv
<1>2. Len(cpu) > 1 /\ Top.at = "loadRegisters"
  BY <1>1 DEF InterruptsInv, ServiceInv, NestingInv, LoadRegisters
<1>3. Top.vec \in 32 .. 47 /\ Len(cpu) = 2 /\ Top.flag /\ cpu[1].at = "kernel" /\ cpu[1].vec = 0
  BY <1>2, TopRoutine DEF InterruptsInv, ServiceInv, NestingInv
<1>4. cpu' = Front(cpu) /\ rax' = Top.rax /\ intFlag' = Top.flag
      /\ UNCHANGED <<handlerList, idtr, tempSave, saveRetAddress, irr, isr>>
  BY DEF LoadRegisters, boot, pic
<1>5. cpu' \in Seq(Routine) /\ Len(cpu') = 1 /\ cpu'[1] = cpu[1]
  <2>1. cpu' = SubSeq(cpu, 1, 1) /\ cpu \in Seq(Routine)
    BY <1>1, <1>3, <1>4 DEF Front, TypeOK
  <2> QED  BY <1>3, <2>1
<1>6. Top' = cpu'[1]
  BY <1>5 DEF Top, Last
<1>7. rax' = 1 /\ intFlag' = TRUE
  BY <1>1, <1>2, <1>3, <1>4 DEF InterruptsInv, ServiceInv, GlobalsInv, Routine
<1>8. isr \ Slaves = {}
  BY <1>1, <1>2, <1>3, OneInService
<1>9. TypeOK'
  <2>1. intFlag' \in BOOLEAN /\ rax' \in {Junk, 1}
    BY <1>7
  <2> QED  BY <1>1, <1>4, <1>5, <2>1 DEF TypeOK
<1>10. NoWildCall' /\ NestingInv'
  BY <1>3, <1>5 DEF NoWildCall, NestingInv
<1>11. InServiceIsServed'
  BY <1>4, <1>8 DEF InServiceIsServed
<1>12. BootInv'
  <2>1. idtr
    <3>1. Len(cpu) # 1
      BY <1>3
    <3> QED  BY <3>1, Zenon DEF InterruptsInv, ServiceInv, BootInv
  <2> QED  BY <1>4, <2>1 DEF InterruptsInv, ServiceInv, BootInv
<1>13. GlobalsInv' /\ InterruptedCodeUnharmed'
  BY <1>5, <1>6, <1>7 DEF GlobalsInv, InterruptedCodeUnharmed
<1> QED  BY <1>9, <1>10, <1>11, <1>12, <1>13 DEF InterruptsInv, ServiceInv
-----------------------------------------------------------------------------
(* Steps of the kernel's own code and of the hardware.                     *)

LEMMA KernelSteps ==
    ASSUME InterruptsInv, idtInit \/ enableInterrupts \/ KernelPanic
    PROVE  InterruptsInv'
<1>1. TypeOK /\ Top = cpu[Len(cpu)] /\ Top \in Routine /\ Len(cpu) \in Nat \ {0}
  BY TopIs DEF InterruptsInv, ServiceInv
<1>2. Len(cpu) = 1 /\ Top.at = "kernel"
  BY TopRoutine DEF idtInit, enableInterrupts, KernelPanic
<1>3. isr \ Slaves = {}
  BY <1>2, OneInService
<1>4. CASE idtInit
  <2>1. idtr' = TRUE /\ UNCHANGED <<intFlag, cpu, rax, tempSave, saveRetAddress, irr, isr>>
    BY <1>4 DEF idtInit, pic
  <2>2. Top' = Top
    BY <2>1 DEF Top
  <2>3. TypeOK' /\ BootInv'
    BY <1>1, <1>4, <2>1, HandlersInstalled DEF TypeOK, BootInv
  <2>4. NoWildCall' /\ InServiceIsServed' /\ NestingInv' /\ GlobalsInv'
    BY <2>1, <2>2 DEF InterruptsInv, ServiceInv, NoWildCall, InServiceIsServed, NestingInv, GlobalsInv
  <2>5. InterruptedCodeUnharmed'
    BY <2>1, <2>2 DEF InterruptsInv, InterruptedCodeUnharmed
  <2> QED  BY <2>3, <2>4, <2>5 DEF InterruptsInv, ServiceInv
<1>5. CASE enableInterrupts
  <2>1. /\ idtr /\ intFlag' = TRUE
        /\ UNCHANGED <<handlerList, idtr, cpu, rax, tempSave, saveRetAddress, irr, isr>>
    BY <1>5 DEF enableInterrupts, boot, pic
  <2>2. Top' = Top
    BY <2>1 DEF Top
  <2>3. TypeOK' /\ BootInv'
    BY <2>1 DEF InterruptsInv, ServiceInv, TypeOK, BootInv
  <2>4. NoWildCall' /\ InServiceIsServed' /\ NestingInv' /\ GlobalsInv'
    <3>1. NoWildCall'
      BY <2>1, ZenonT(40) DEF InterruptsInv, ServiceInv, NoWildCall
    <3>2. InServiceIsServed'
      BY <2>1, ZenonT(40) DEF InterruptsInv, ServiceInv, InServiceIsServed
    <3>3. NestingInv' /\ GlobalsInv'
      BY <1>1, <1>2, <2>1, <2>2, SMTT(40)
         DEF InterruptsInv, ServiceInv, NestingInv, GlobalsInv
    <3> QED  BY <3>1, <3>2, <3>3
  <2>5. InterruptedCodeUnharmed'
    BY <2>1, <2>2 DEF InterruptsInv, InterruptedCodeUnharmed
  <2> QED  BY <2>3, <2>4, <2>5 DEF InterruptsInv, ServiceInv
<1>6. CASE KernelPanic
  <2>1. /\ Goto("panic") /\ intFlag' = FALSE /\ "panic" \in Places
        /\ UNCHANGED <<handlerList, idtr, rax, tempSave, saveRetAddress, irr, isr>>
    BY <1>6 DEF KernelPanic, Panic, Places, boot, pic
  <2>2. /\ cpu' \in Seq(Routine) /\ Len(cpu') = 1
        /\ cpu'[1] = [Top EXCEPT !.at = "panic"] /\ Top' = cpu'[1]
    BY <1>1, <1>2, <2>1, GotoMoves
  <2>3. cpu'[1].at = "panic" /\ cpu'[1].vec = 0
    BY <1>1, <1>2, <2>2 DEF Routine, InterruptsInv, ServiceInv, NestingInv
  <2>4. TypeOK'
    <3>1. intFlag' \in BOOLEAN /\ Len(cpu') \in 1 .. 4
      <4>1. 1 \in 1 .. 4
        OBVIOUS
      <4> QED  BY <2>1, <2>2, <4>1, Zenon
    <3> QED  BY <1>1, <2>1, <2>2, <3>1 DEF TypeOK
  <2>5. BootInv'
    BY <1>2, <2>1, <2>2 DEF InterruptsInv, ServiceInv, BootInv
  <2>6. NestingInv'
    BY <2>1, <2>2, <2>3 DEF NestingInv
  <2>7. NoWildCall' /\ GlobalsInv'
    <3>1. ~ (1 > 1) /\ \A i \in 1 .. 1 : i = 1
      OBVIOUS
    <3>2. GlobalsInv'
      BY <2>2, <3>1, Zenon DEF GlobalsInv
    <3>3. NoWildCall'
      BY <2>2, <2>3, <3>1, Zenon DEF NoWildCall
    <3> QED  BY <3>2, <3>3
  <2>8. InServiceIsServed'
    BY <1>3, <2>1 DEF InServiceIsServed
  <2>9. InterruptedCodeUnharmed'
    BY <2>2, <2>3 DEF InterruptedCodeUnharmed
  <2> QED  BY <2>4, <2>5, <2>6, <2>7, <2>8, <2>9 DEF InterruptsInv, ServiceInv
<1> QED  BY <1>4, <1>5, <1>6

(* Some arithmetic of vectors and depths.                                  *)
LEMMA Vector ==
    /\ \A l \in 0 .. 15 : 32 + l \in 32 .. 47 /\ 32 + l \in Vectors /\ (32 + l) - 32 = l
    /\ \A v \in Exceptions \cup {NMI} : v \in Vectors /\ v \notin 32 .. 47
    /\ NMI \notin Exceptions /\ NMI # 0 /\ \A l \in 0 .. 15 : 32 + l \notin Exceptions \cup {NMI}
BY ExceptionsAssumption DEF Vectors, TOTAL_INTERRUPTS, NMI

(* The vector of a line is delivered to the kernel's own code.             *)
LEMMA LineEntered ==
    ASSUME InterruptsInv, intFlag, NEW l \in 0 .. 15, Enter(32 + l),
           UNCHANGED <<handlerList, idtr, rax, tempSave, saveRetAddress>>,
           irr' \subseteq Lines, isr' \subseteq Lines \cup {CASCADE}, isr' \ Slaves \subseteq {Level(l)}
    PROVE  InterruptsInv'
<1>1. TypeOK /\ Len(cpu) = 1 /\ cpu[1].at = "kernel" /\ cpu[1].vec = 0
  BY DEF InterruptsInv, ServiceInv, NestingInv
<1>2. Top = cpu[1] /\ rax = 1
  BY <1>1, TopIs DEF InterruptsInv, InterruptedCodeUnharmed
<1> DEFINE f == [at |-> "saveRegisters", vec |-> 32 + l, rax |-> Junk, flag |-> intFlag]
<1>3. /\ cpu' \in Seq(Routine) /\ Len(cpu') = 1 + 1 /\ cpu'[1] = cpu[1]
      /\ cpu'[1 + 1] = f /\ Top' = cpu'[1 + 1] /\ intFlag' = FALSE
  <2>1. 1 \in 1 .. 1
    OBVIOUS
  <2> QED  BY <1>1, <2>1, EnterPushes, Vector, ZenonT(40)
<1>4. Len(cpu') = 2 /\ cpu'[2] = f /\ Top' = f
  BY <1>3
<1>5. f.at = "saveRegisters" /\ f.vec \in 32 .. 47 /\ f.vec - 32 = l /\ f.flag
  BY Vector
<1> HIDE DEF f
<1>6. TypeOK'
  <2>1. 2 \in 1 .. 4
    OBVIOUS
  <2> QED  BY <1>1, <1>3, <1>4, <2>1 DEF TypeOK
<1>7. \A i : i \in 1 .. 2 <=> i = 1 \/ i = 2
  OBVIOUS
<1>8. NoWildCall'
  BY <1>1, <1>3, <1>4, <1>5, <1>7, Zenon DEF NoWildCall
<1>9. InServiceIsServed'
  <2>1. 2 \in 1 .. 2 /\ "saveRegisters" # "loadRegisters"
    OBVIOUS
  <2> QED  BY <1>4, <1>5, <2>1, Zenon DEF InServiceIsServed
<1>10. idtr
  BY Zenon DEF InterruptsInv, ServiceInv, BootInv
<1>11. BootInv'
  BY <1>10 DEF InterruptsInv, ServiceInv, BootInv
<1>12. NestingInv'
  <2>1. \A i \in 2 .. 2 : i = 2
    OBVIOUS
  <2>2. f.vec \notin Exceptions /\ f.vec # NMI
    BY Vector DEF f
  <2> QED  BY <1>1, <1>3, <1>4, <1>5, <2>1, <2>2, SMT DEF NestingInv
<1>13. GlobalsInv'
  BY <1>2, <1>4, <1>5 DEF GlobalsInv
<1>14. InterruptedCodeUnharmed'
  BY <1>4, <1>5 DEF InterruptedCodeUnharmed
<1> QED  BY <1>6, <1>8, <1>9, <1>11, <1>12, <1>13, <1>14 DEF InterruptsInv, ServiceInv

LEMMA Delivered ==
    ASSUME InterruptsInv,
           \/ \E l \in Lines : Acknowledge(l)
           \/ \E l \in {7, 15} : Spurious(l)
    PROVE  InterruptsInv'
<1>1. ASSUME intFlag  PROVE isr \ Slaves = {}
  <2>1. Len(cpu) = 1
    BY <1>1 DEF InterruptsInv, ServiceInv, NestingInv
  <2>2. ~ (Len(cpu) > 1)
    BY <2>1
  <2> QED  BY <2>2, OneInService, Zenon
<1>2. isr \subseteq Lines \cup {CASCADE} /\ irr \subseteq Lines
  BY DEF InterruptsInv, ServiceInv, TypeOK
<1>3. ASSUME NEW l \in Lines, Acknowledge(l)  PROVE InterruptsInv'
  <2>1. l \in 0 .. 15 /\ (Level(l) = l \/ (l \in Slaves /\ Level(l) = CASCADE))
    BY LinesAssumption DEF Level
  <2>2. /\ intFlag /\ Enter(32 + l) /\ irr' = irr \ {l} /\ isr' = isr \cup {l, Level(l)}
        /\ UNCHANGED <<handlerList, idtr, rax, tempSave, saveRetAddress>>
    BY <1>3 DEF Acknowledge, boot
  <2>3. isr' \ Slaves \subseteq {Level(l)} /\ isr' \subseteq Lines \cup {CASCADE} /\ irr' \subseteq Lines
    BY <1>1, <1>2, <2>1, <2>2
  <2> QED  BY <2>1, <2>2, <2>3, LineEntered
<1>4. ASSUME NEW l \in {7, 15}, Spurious(l)  PROVE InterruptsInv'
  <2>1. /\ intFlag /\ Enter(32 + l) /\ irr' = irr
        /\ isr' = IF l \in Slaves THEN isr \cup {CASCADE} ELSE isr
        /\ UNCHANGED <<handlerList, idtr, rax, tempSave, saveRetAddress>>
    BY <1>4 DEF Spurious, boot
  <2>2. l \in 0 .. 15 /\ (l \in Slaves => Level(l) = CASCADE)
    BY DEF Level
  <2>3. isr' \ Slaves \subseteq {Level(l)} /\ isr' \subseteq Lines \cup {CASCADE} /\ irr' \subseteq Lines
    BY <1>1, <1>2, <2>1, <2>2
  <2> QED  BY <2>1, <2>2, <2>3, LineEntered
<1> QED  BY <1>3, <1>4

(* What an exception or an NMI may interrupt leaves room on the stack.     *)
LEMMA FaultEntered ==
    ASSUME InterruptsInv, NEW v \in Exceptions \cup {NMI}, Fault(v)
    PROVE  InterruptsInv'
<1>1. TypeOK /\ NestingInv /\ Top = cpu[Len(cpu)] /\ Len(cpu) \in Nat \ {0}
  BY TopIs DEF InterruptsInv, ServiceInv
<1>2. UNCHANGED <<handlerList, idtr, rax, tempSave, saveRetAddress, irr, isr>>
  BY DEF Fault, boot, pic
<1>3. CASE ~ idtr
  <2>1. Goto("reset") /\ intFlag' = intFlag /\ "reset" \in Places
    BY <1>3 DEF Fault, Places
  <2>2. Len(cpu) = 1 /\ ~ intFlag
    BY <1>3, Zenon DEF InterruptsInv, ServiceInv, BootInv
  <2>3. /\ cpu' \in Seq(Routine) /\ Len(cpu') = 1 /\ Top' = cpu'[1]
        /\ cpu'[1] = [Top EXCEPT !.at = "reset"]
    BY <1>1, <2>1, <2>2, GotoMoves
  <2>4. cpu'[1].at = "reset" /\ cpu'[1].vec = 0
    BY <1>1, <2>2, <2>3, TopIs, ZenonT(40) DEF NestingInv, Routine
  <2>5. ~ (1 > 1) /\ (\A i \in 1 .. 1 : i = 1) /\ 1 \in 1 .. 4 /\ \A i \in 2 .. 1 : FALSE
    OBVIOUS
  <2>6. TypeOK' /\ BootInv'
    BY <1>1, <1>2, <1>3, <2>1, <2>2, <2>3, <2>5, Zenon DEF TypeOK, BootInv
  <2>7. NoWildCall' /\ NestingInv' /\ GlobalsInv' /\ InterruptedCodeUnharmed'
    BY <2>1, <2>2, <2>3, <2>4, <2>5, Zenon
       DEF NoWildCall, NestingInv, GlobalsInv, InterruptedCodeUnharmed
  <2>8. isr \ Slaves = {}
    BY <2>2, <2>5, OneInService, Zenon
  <2>9. InServiceIsServed'
    BY <1>2, <2>8 DEF InServiceIsServed
  <2> QED  BY <2>6, <2>7, <2>9 DEF InterruptsInv, ServiceInv
<1>4. CASE idtr
  <2>1. Enter(v)
    BY <1>4, Zenon DEF Fault
  <2> DEFINE n == Len(cpu)
             f == [at |-> "saveRegisters", vec |-> v, rax |-> Junk, flag |-> intFlag]
  <2>2. /\ cpu' \in Seq(Routine) /\ Len(cpu') = n + 1
        /\ \A i \in 1 .. n : cpu'[i] = cpu[i]
        /\ cpu'[n + 1] = f /\ Top' = f /\ intFlag' = FALSE
    BY <1>1, <2>1, EnterPushes, Vector
  <2>3. f.at = "saveRegisters" /\ f.vec = v
    OBVIOUS
  <2> HIDE DEF f
  <2>4. /\ v \in Exceptions => n = 1 \/ (n = 2 /\ cpu[2].vec \in 32 .. 47)
        /\ \A i \in 2 .. n : cpu[i].vec # NMI
    <3>1. CASE v = NMI
      <4>1. \A i \in 1 .. n : cpu[i].vec # NMI
        BY <3>1 DEF Fault
      <4> QED  BY <1>1, <3>1, <4>1, Vector, SMTT(40)
    <3>2. CASE v # NMI
      <4>1. Top.at = "kernel" \/ (Top.at = "trapHandler" /\ Top.vec \in 32 .. 47)
        BY <3>2 DEF Fault
      <4>2. n = 1 \/ (n = 2 /\ Top.vec \in 32 .. 47)
        BY <4>1, TopRoutine
      <4>3. ASSUME NEW i \in 2 .. n  PROVE cpu[i].vec # NMI
        <5>1. n = 2 /\ i = 2 /\ cpu[i].vec \in 32 .. 47
          BY <1>1, <4>2
        <5> QED  BY <5>1, Vector
      <4> QED  BY <1>1, <4>2, <4>3
    <3> QED  BY <3>1, <3>2
  <2>5. n \in 1 .. 3
    <3>1. n \in 1 .. 4
      BY <1>1 DEF TypeOK
    <3>2. ASSUME n = 4  PROVE FALSE
      <4>1. 4 \in 2 .. n /\ 4 \notin {2, 3}
        BY <3>2
      <4>2. cpu[4].vec \in (32 .. 47) \cup Exceptions
        BY <1>1, <2>4, <4>1 DEF NestingInv
      <4> QED  BY <1>1, <4>1, <4>2 DEF NestingInv
    <3> QED  BY <3>1, <3>2
  <2>6. TypeOK'
    <3>1. \A k \in 1 .. 3 : k + 1 \in 1 .. 4
      OBVIOUS
    <3>2. Len(cpu') \in 1 .. 4 /\ intFlag' \in BOOLEAN
      BY <2>2, <2>5, <3>1, Zenon
    <3> QED  BY <1>1, <1>2, <2>2, <3>2 DEF TypeOK
  <2>7. BootInv'
    BY <1>2, <1>4 DEF InterruptsInv, ServiceInv, BootInv
  <2>8. NestingInv'
    <3>1. cpu'[1] = cpu[1] /\ (n # 1 => cpu'[2] = cpu[2])
      BY <2>2, <2>5
    <3>2. ASSUME NEW i \in 2 .. n
          PROVE  /\ cpu'[i].at \notin {"kernel", "wild", "reset"}
                 /\ cpu'[i].vec \in (32 .. 47) \cup Exceptions
                 /\ cpu'[i].vec \in 32 .. 47 => /\ i = 2 /\ cpu'[i].flag
                                                 /\ cpu'[1].at = "kernel" /\ cpu'[i].at # "panic"
                 /\ cpu'[i].vec \in Exceptions => i = 2 \/ (i = 3 /\ cpu'[2].vec \in 32 .. 47)
                 /\ cpu'[i].at = "loadRegisters" => cpu'[i].vec \in 32 .. 47
      <4>1. cpu'[i] = cpu[i] /\ n # 1
        BY <2>2, <2>5
      <4> QED  BY <1>1, <2>4, <3>1, <4>1, ZenonT(40) DEF NestingInv
    <3>3. /\ cpu'[n + 1].at \notin {"kernel", "wild", "reset", "loadRegisters"}
          /\ cpu'[n + 1].vec = v /\ v \notin 32 .. 47
          /\ v \in Exceptions => n + 1 = 2 \/ (n + 1 = 3 /\ cpu'[2].vec \in 32 .. 47)
      <4>1. 1 + 1 = 2 /\ 2 + 1 = 3 /\ 2 # 1
        OBVIOUS
      <4>2. cpu'[n + 1].at = "saveRegisters" /\ cpu'[n + 1].vec = v
        BY <2>2, <2>3
      <4>3. v \notin 32 .. 47
        BY Vector
      <4>4. v \in Exceptions => n + 1 = 2 \/ (n + 1 = 3 /\ cpu'[2].vec \in 32 .. 47)
        BY <2>4, <3>1, <4>1, Zenon
      <4> QED  BY <4>2, <4>3, <4>4
    <3>4. ASSUME NEW i \in 2 .. (n + 1)  PROVE i \in 2 .. n \/ i = n + 1
      BY <2>5
    <3>5. \A x \in (32 .. 47) \cup Exceptions : x # NMI
      BY Vector
    <3>6. cpu'[1].vec = 0 /\ cpu'[1].at \in {"kernel", "panic", "reset"} /\ ~ intFlag'
      BY <1>1, <2>2, <3>1 DEF NestingInv
    <3> QED  BY <2>2, <3>2, <3>3, <3>4, <3>5, <3>6, Zenon DEF NestingInv
  <2>9. NoWildCall'
    <3>1. ASSUME NEW i \in 1 .. (n + 1)  PROVE i \in 1 .. n \/ i = n + 1
      BY <2>5
    <3> QED  BY <2>2, <2>3, <3>1, Zenon DEF InterruptsInv, ServiceInv, NoWildCall
  <2>10. InServiceIsServed'
    <3>1. \A i \in 1 .. n : i \in 1 .. (n + 1)
      BY <2>5
    <3> QED  BY <1>2, <2>2, <3>1, ZenonT(40) DEF InterruptsInv, ServiceInv, InServiceIsServed
  <2>11. GlobalsInv' /\ InterruptedCodeUnharmed'
    BY <2>2, <2>3, Vector DEF GlobalsInv, InterruptedCodeUnharmed
  <2> QED  BY <2>6, <2>7, <2>8, <2>9, <2>10, <2>11 DEF InterruptsInv, ServiceInv
<1> QED  BY <1>3, <1>4

LEMMA InitInv == Init => InterruptsInv
<1> SUFFICES ASSUME Init PROVE InterruptsInv
  OBVIOUS
<1> DEFINE f == [at |-> "kernel", vec |-> 0, rax |-> Junk, flag |-> FALSE]
<1>1. /\ cpu = <<f>> /\ rax = 1 /\ tempSave = Junk /\ saveRetAddress = Junk
      /\ handlerList = << >> /\ idtr = FALSE /\ intFlag = FALSE /\ irr = {} /\ isr = {}
  BY DEF Init
<1>2. f \in Routine /\ f.at = "kernel" /\ f.vec = 0
  BY DEF Routine, Places, Vectors, TOTAL_INTERRUPTS
<1> HIDE DEF f
<1>3. cpu \in Seq(Routine) /\ Len(cpu) = 1 /\ cpu[1] = f
  BY <1>1, <1>2
<1>4. Top = f
  BY <1>3 DEF Top, Last
<1>5. TypeOK
  <2>1. DOMAIN << >> = {} /\ Junk \in Vectors /\ 1 \in 1 .. 4
    BY DEF Junk, Vectors, TOTAL_INTERRUPTS
  <2> QED  BY <1>1, <1>3, <2>1 DEF TypeOK
<1>6. ~ (1 > 1) /\ (\A i \in 1 .. 1 : i = 1) /\ \A i \in 2 .. 1 : FALSE
  OBVIOUS
<1>7. NoWildCall /\ BootInv /\ NestingInv /\ GlobalsInv
  BY <1>1, <1>2, <1>3, <1>6, Zenon DEF NoWildCall, BootInv, NestingInv, GlobalsInv
<1>8. InServiceIsServed /\ InterruptedCodeUnharmed
  BY <1>1, <1>4 DEF InServiceIsServed, InterruptedCodeUnharmed
<1> QED  BY <1>5, <1>7, <1>8 DEF InterruptsInv, ServiceInv

LEMMA NextInv == InterruptsInv /\ [Next]_vars => InterruptsInv'
<1> SUFFICES ASSUME InterruptsInv, [Next]_vars PROVE InterruptsInv'
  OBVIOUS
<1>1. CASE idtInit \/ enableInterrupts \/ KernelPanic
  BY <1>1, KernelSteps
<1>2. CASE SaveRax \/ SaveReturn \/ PushRegisters \/ JumpBack
  BY <1>2, StubGoesOn
<1>3. CASE trapHandler
  BY <1>3, HandlerRuns
<1>4. CASE LoadRegisters
  BY <1>4, StubReturns
<1>5. CASE \E l \in Lines : Raise(l)
  <2>1. /\ irr' \subseteq Lines
        /\ UNCHANGED <<handlerList, idtr, intFlag, cpu, rax, tempSave, saveRetAddress, isr>>
    BY <1>5 DEF Raise, boot, InterruptsInv, ServiceInv, TypeOK
  <2> QED  BY <2>1, SMTT(40) DEF InterruptsInv, ServiceInv, TypeOK, NoWildCall, InServiceIsServed, BootInv,
                      NestingInv, GlobalsInv, InterruptedCodeUnharmed, Top
<1>6. CASE (\E l \in Lines : Acknowledge(l)) \/ (\E l \in {7, 15} : Spurious(l))
  BY <1>6, Delivered
<1>7. CASE \E v \in Exceptions \cup {NMI} : Fault(v)
  BY <1>7, FaultEntered
<1>8. CASE UNCHANGED vars
  BY <1>8 DEF vars, InterruptsInv, ServiceInv, TypeOK, NoWildCall, InServiceIsServed, BootInv,
              NestingInv, GlobalsInv, InterruptedCodeUnharmed, Top
<1> QED  BY <1>1, <1>2, <1>3, <1>4, <1>5, <1>6, <1>7, <1>8 DEF Next, Step
-----------------------------------------------------------------------------
LEMMA InterruptsInvariant == Spec => []InterruptsInv
BY InitInv, NextInv, PTL DEF Spec

(* Routines nest at most four deep, every vector that is delivered has a   *)
(* handler, and a line of the first controller is in service only while    *)
(* its routine runs (idt.asm, idt.c).                                      *)
THEOREM InterruptsServed == Spec => []ServiceInv
<1>1. InterruptsInv => ServiceInv
  BY DEF InterruptsInv
<1> QED  BY <1>1, InterruptsInvariant, PTL

(* Code that goes on after interrupts finds its registers as they were,    *)
(* although the stubs keep them in globals (idt.asm, saveRegisters).       *)
THEOREM InterruptsHarmless == Spec => []InterruptedCodeUnharmed
<1>1. InterruptsInv => InterruptedCodeUnharmed
  BY DEF InterruptsInv
<1> QED  BY <1>1, InterruptsInvariant, PTL

-----------------------------------------------------------------------------
(* The registers.                                                          *)

LEMMA Remainder ==
    ASSUME NEW a \in Nat, NEW s \in Nat \ {0}
    PROVE  a % s \in 0 .. (s - 1) /\ a % s <= a /\ (a < s => a % s = a)
<1>1. a \div s \in Nat /\ a % s \in 0 .. (s - 1) /\ a = ((a \div s) * s) + (a % s)
  OBVIOUS
<1>2. (a \div s) * s \in Nat
  BY <1>1
<1>3. a < s => (a \div s) * s = 0
  BY <1>1
<1> QED  BY <1>1, <1>2, <1>3

(* The drive is never asked for more than the caller wants, nor for none.  *)
LEMMA CountBound ==
    ASSUME NEW total \in Nat \ {0}
    PROVE  CountRegister(total) \in 1 .. total
<1> DEFINE q == total \div ATA_COUNT
           r == total % ATA_COUNT
<1>1. ATA_COUNT \in Nat \ {0}
  BY AtaAssumption
<1>2. q \in Nat /\ r \in 0 .. (ATA_COUNT - 1) /\ total = (q * ATA_COUNT) + r
  BY <1>1
<1> HIDE DEF q, r
<1>3. CASE r = 0
  <2>1. q # 0
    BY <1>1, <1>2, <1>3
  <2>2. q * ATA_COUNT >= ATA_COUNT
    BY <1>1, <1>2, <2>1
  <2> QED  BY <1>1, <1>2, <1>3, <2>2 DEF CountRegister, r
<1>4. CASE r # 0
  <2>1. q * ATA_COUNT \in Nat
    BY <1>1, <1>2
  <2> QED  BY <1>1, <1>2, <1>4, <2>1 DEF CountRegister, r
<1> QED  BY <1>3, <1>4

(* The sectors of a call are on the drive.                                 *)
LEMMA FirstSector ==
    ASSUME AtaTypeOK
    PROVE  /\ AtaFirst \in Nat /\ AtaFirst <= ataReq.lba
           /\ AtaFirst + ataReq.total <= ATA_SECTORS
           /\ ataReq.lba < ATA_LBA => AtaFirst = ataReq.lba
<1>1. ATA_LBA \in Nat \ {0} /\ ATA_SECTORS \in Nat
  BY AtaAssumption
<1>2. ataReq.lba \in Nat /\ ataReq.total \in Nat /\ ataReq.lba + ataReq.total <= ATA_SECTORS
  BY DEF AtaTypeOK
<1>3. AtaFirst \in 0 .. (ATA_LBA - 1) /\ AtaFirst <= ataReq.lba
      /\ (ataReq.lba < ATA_LBA => AtaFirst = ataReq.lba)
  BY <1>1, <1>2, Remainder DEF AtaFirst
<1> QED  BY <1>1, <1>2, <1>3
-----------------------------------------------------------------------------
(* ATA PIO.  The invariant follows the number of sectors the call has      *)
(* moved and the number the drive has; a sector that was given to the      *)
(* drive and not yet stored is the difference.                             *)

(* What the answer says is what has been moved.                            *)
LEMMA AtaAnswerFollows == AtaTypeOK /\ AtaInStep => AtaOkMeansDone
<1> SUFFICES ASSUME AtaTypeOK, AtaInStep, ataAnswer = "ok", ataReq.lba < ATA_LBA,
                    NEW b \in 0 .. (ataReq.total - 1)
             PROVE  /\ ataReq.op = "read" => ataBuf[b + 1] = ataDisk[ataReq.lba + b]
                    /\ ataReq.op = "write" /\ b < ataReq.total - 1 =>
                          ataDisk[ataReq.lba + b] = AtaNew(ataReq.lba + b)
  BY DEF AtaOkMeansDone
<1>1. AtaFirst = ataReq.lba /\ ataReq.total \in Nat
  BY FirstSector DEF AtaTypeOK
<1>2. ataReq.op = "read" => ataBuf[b + 1] = ataDisk[ataReq.lba + b]
  BY <1>1 DEF AtaInStep, AtaReadRight
<1>3. ASSUME ataReq.op = "write", b < ataReq.total - 1
      PROVE  ataDisk[ataReq.lba + b] = AtaNew(ataReq.lba + b)
  <2>1. b \in 0 .. (ataReq.total - 2)
    BY <1>1, <1>3
  <2> QED  BY <1>1, <1>3, <2>1 DEF AtaInStep, AtaWriteRight
<1> QED  BY <1>2, <1>3

LEMMA AtaKept == AtaTypeOK' /\ AtaInStep' => AtaInv'
BY AtaAnswerFollows, PTL DEF AtaInv

LEMMA AtaStart == AtaInit => AtaInv
<1> SUFFICES ASSUME AtaInit  PROVE AtaInv
  OBVIOUS
<1>1. ataReq.op = "none" /\ ataReq.lba = 0 /\ ataReq.total = 0 /\ ataCmd.left = 0
  BY DEF AtaInit, ATA_NO_REQ, ATA_NO_CMD
<1>2. AtaTypeOK
  BY AtaAssumption DEF AtaInit, AtaTypeOK, ATA_NO_REQ, ATA_NO_CMD
<1>3. AtaInStep
  BY <1>1 DEF AtaInit, AtaInStep, AtaCallOK, AtaLatchOK, AtaDriveOK, AtaReadRight, AtaWriteRight
<1> QED  BY <1>2, <1>3, AtaAnswerFollows DEF AtaInv

(* A call begins.                                                          *)
LEMMA AtaBegins ==
    ASSUME AtaInv, NEW op \in {"read", "write"}, NEW r \in ATA_REQUESTS, AtaRequest(op, r)
    PROVE  AtaInv'
<1>1. /\ ataReq'.op = op /\ ataReq'.lba = r[1] /\ ataReq'.total = r[2]
      /\ r[1] \in Nat /\ r[2] \in Nat \ {0} /\ r[1] + r[2] <= ATA_SECTORS
  BY AtaAssumption DEF AtaRequest
<1>2. /\ ataPc = "idle" /\ ataPc' = "bsy" /\ ataB' = 0 /\ ataB = 0 /\ ataLatch' = -1
      /\ ataBuf = <<>>
  BY DEF AtaRequest, ataDevice, AtaInv, AtaTypeOK, AtaInStep, AtaCallOK, AtaLatchOK
<1>3. AtaTypeOK'
  BY <1>1, <1>2 DEF AtaRequest, ataDevice, AtaInv, AtaTypeOK
<1>4. AtaInStep'
  BY <1>1, <1>2 DEF AtaRequest, ataDevice, AtaInv, AtaTypeOK, AtaInStep, AtaCallOK, AtaLatchOK,
                    AtaDriveOK, AtaReadRight, AtaWriteRight
<1> QED  BY <1>3, <1>4, AtaKept

LEMMA AtaIdentifies ==
    ASSUME AtaInv, ataPioIdentify
    PROVE  AtaInv'
<1>1. /\ ataPc = "idle" /\ ataPc' = "idBsy" /\ ataB' = ataB /\ ataBuf' = ataBuf
      /\ ataAnswer' = ataAnswer
      /\ ataReq' = [op |-> "identify", lba |-> 0, total |-> 1]
      /\ "BSY" \notin status
  BY DEF ataPioIdentify, AtaInv, AtaInStep, AtaCallOK
<1>2. /\ status' = {"BSY"} /\ ataCmd' = [op |-> "identify", lba |-> 0, left |-> 1]
      /\ ataLatch' = -1 /\ ataDisk' = ataDisk
  BY <1>1 DEF ataPioIdentify, AtaCommand
<1>3. AtaTypeOK'
  BY <1>1, <1>2, AtaAssumption DEF AtaInv, AtaTypeOK, AtaInStep, AtaCallOK
<1>4. AtaInStep'
  BY <1>1, <1>2 DEF AtaInv, AtaInStep, AtaCallOK, AtaLatchOK, AtaDriveOK, AtaReadRight, AtaWriteRight
<1> QED  BY <1>3, <1>4, AtaKept

(* The driver waits, gives up, or returns: the drive is not touched.       *)
LEMMA AtaWaits ==
    ASSUME AtaInv, ataPioWaitBsy
    PROVE  AtaInv'
<1>1. AtaTypeOK'
  BY DEF ataPioWaitBsy, ataDevice, AtaInv, AtaTypeOK
<1>2. AtaInStep'
  BY DEF ataPioWaitBsy, ataDevice, AtaInv, AtaTypeOK, AtaInStep, AtaCallOK, AtaLatchOK, AtaDriveOK,
         AtaReadRight, AtaWriteRight
<1> QED  BY <1>1, <1>2, AtaKept

LEMMA AtaFails ==
    ASSUME AtaInv, AtaFail
    PROVE  AtaInv'
<1>1. /\ ataPc = "drq" /\ ataPc' = "done" /\ ataAnswer' = "EHARDWARE" /\ "DRQ" \in status
      /\ UNCHANGED <<ataReq, ataB, ataBuf, status, ataCmd, ataLatch, ataDisk>>
  BY DEF AtaFail, AtaAnswer, ataDevice
<1>2. AtaTypeOK'
  BY <1>1 DEF AtaInv, AtaTypeOK
<1>3. ataLatch = -1 /\ "BSY" \notin status
  BY <1>1 DEF AtaInv, AtaTypeOK, AtaInStep, AtaLatchOK
<1>4. AtaInStep'
  BY <1>1, <1>3 DEF AtaInv, AtaInStep, AtaCallOK, AtaLatchOK, AtaDriveOK, AtaReadRight,
                    AtaWriteRight, AtaFirst
<1> QED  BY <1>2, <1>4, AtaKept

LEMMA AtaEnds ==
    ASSUME AtaInv, AtaFlushed
    PROVE  AtaInv'
<1>1. /\ ataPc = "flushed" /\ ataPc' = "done" /\ ataAnswer' = "ok" /\ "BSY" \notin status
      /\ UNCHANGED <<ataReq, ataB, ataBuf, status, ataCmd, ataLatch, ataDisk>>
  BY DEF AtaFlushed, AtaAnswer, ataDevice
<1>2. AtaTypeOK'
  BY <1>1 DEF AtaInv, AtaTypeOK
<1>3. ataLatch = -1 /\ ataReq.op = "write"
  BY <1>1 DEF AtaInv, AtaInStep, AtaLatchOK, AtaCallOK
<1>4. AtaInStep'
  BY <1>1, <1>3 DEF AtaInv, AtaInStep, AtaCallOK, AtaLatchOK, AtaDriveOK, AtaReadRight,
                    AtaWriteRight, AtaFirst
<1> QED  BY <1>2, <1>4, AtaKept

LEMMA AtaReturns ==
    ASSUME AtaInv, AtaReturn
    PROVE  AtaInv'
<1>1. /\ ataPc = "done" /\ ataPc' = "idle" /\ ataReq' = ATA_NO_REQ /\ ataB' = 0 /\ ataBuf' = <<>>
      /\ ataAnswer' = "none"
      /\ UNCHANGED <<status, ataCmd, ataLatch, ataDisk>>
  BY DEF AtaReturn, ataDevice
<1>2. ataLatch = -1 /\ "BSY" \notin status /\ ataReq'.op = "none"
  BY <1>1 DEF AtaInv, AtaInStep, AtaLatchOK, AtaCallOK, ATA_NO_REQ
<1>3. AtaTypeOK'
  BY <1>1, AtaAssumption DEF AtaInv, AtaTypeOK, ATA_NO_REQ
<1>4. AtaInStep'
  BY <1>1, <1>2 DEF AtaInv, AtaInStep, AtaCallOK, AtaLatchOK, AtaDriveOK, AtaReadRight, AtaWriteRight
<1> QED  BY <1>3, <1>4, AtaKept

(* The command reaches a drive that waits for one.                         *)
LEMMA AtaIssues ==
    ASSUME AtaInv, AtaIssue
    PROVE  AtaInv'
<1>1. /\ ataPc = "bsy" /\ ataPc' = "drq" /\ UNCHANGED <<ataReq, ataB, ataBuf, ataAnswer>>
      /\ status' = {"BSY"} /\ ataLatch' = -1 /\ ataDisk' = ataDisk
      /\ ataCmd' = [op |-> ataReq.op, lba |-> AtaFirst, left |-> CountRegister(ataReq.total)]
  BY DEF AtaIssue, AtaCommand, AtaFirst
<1>2. /\ ataB = 0 /\ ataReq.op \in {"read", "write"} /\ ataReq.total \in Nat \ {0}
      /\ ataAnswer = "none"
  BY <1>1 DEF AtaInv, AtaInStep, AtaCallOK, AtaTypeOK
<1>3. AtaFirst \in Nat /\ CountRegister(ataReq.total) \in 1 .. ataReq.total
  BY <1>2, CountBound, FirstSector DEF AtaInv
<1>4. AtaFirst' = AtaFirst /\ AtaStored' = 0
  BY <1>1, <1>2 DEF AtaFirst, AtaStored
<1>5. ataCmd'.lba = AtaFirst /\ ataCmd'.left = CountRegister(ataReq.total)
  BY <1>1
<1>6. AtaTypeOK'
  BY <1>1, <1>2, <1>3 DEF AtaInv, AtaTypeOK
<1>7. AtaCallOK' /\ AtaLatchOK'
  BY <1>1, <1>2 DEF AtaInv, AtaInStep, AtaCallOK, AtaLatchOK
<1>8. AtaDriveOK'
  BY <1>1, <1>2, <1>3, <1>4, <1>5 DEF AtaDriveOK
<1>9. AtaReadRight' /\ AtaWriteRight'
  BY <1>1, <1>2, <1>4 DEF AtaInv, AtaInStep, AtaReadRight, AtaWriteRight
<1> QED  BY <1>6, <1>7, <1>8, <1>9, AtaKept DEF AtaInStep

(* A sector arrives.                                                       *)
LEMMA AtaReads ==
    ASSUME AtaInv, AtaRead
    PROVE  AtaInv'
<1> DEFINE x == IF ataCmd.left = 0 THEN -1 ELSE ataDisk[ataCmd.lba]
<1>1. /\ ataPc = "drq" /\ "DRQ" \in status /\ ataReq.op \in {"read", "identify"}
      /\ ataReq.op = "read" => "ERR" \notin status
      /\ ataBuf' = Append(ataBuf, x)
      /\ ataCmd' = [ataCmd EXCEPT !.lba = @ + 1, !.left = @ - 1]
      /\ status' = IF ataCmd.left > 1 THEN {"BSY"} ELSE {}
      /\ UNCHANGED <<ataReq, ataLatch, ataDisk>>
  BY DEF AtaRead, CheckStatusError
<1>2. /\ ataB' = ataB + 1
      /\ IF ataB + 1 < ataReq.total THEN ataPc' = "drq" /\ ataAnswer' = ataAnswer
         ELSE ataPc' = "done" /\ ataAnswer' = "ok"
  BY <1>1 DEF AtaRead, AtaMoved, AtaAnswer
<1>3. /\ ataLatch = -1 /\ ataB \in Nat /\ ataReq.total \in Nat /\ ataB < ataReq.total
      /\ ataAnswer = "none" /\ ataReq.lba \in Nat /\ ATA_SECTORS \in Nat \ {0}
      /\ ataCmd.lba \in Nat /\ ataCmd.left \in Int /\ ataBuf \in Seq(Int) /\ Len(ataBuf) <= ataB
      /\ ataDisk \in [0 .. (ATA_SECTORS - 1) -> 0 .. (2 * ATA_SECTORS - 1)]
  BY <1>1, AtaAssumption, SMTT(40) DEF AtaInv, AtaTypeOK, AtaInStep, AtaLatchOK, AtaCallOK
<1>4. /\ ataCmd'.lba = ataCmd.lba + 1 /\ ataCmd'.left = ataCmd.left - 1
      /\ ataCmd' \in [op : {"none", "read", "write", "identify", "flush"}, lba : Nat, left : Int]
  <2>1. ataCmd \in [op : {"none", "read", "write", "identify", "flush"}, lba : Nat, left : Int]
    BY DEF AtaInv, AtaTypeOK
  <2>2. ataCmd' = [op |-> ataCmd.op, lba |-> ataCmd.lba + 1, left |-> ataCmd.left - 1]
    BY <1>1, <2>1
  <2> QED  BY <1>3, <2>1, <2>2
<1>5. AtaFirst' = AtaFirst /\ AtaStored = ataB /\ AtaStored' = ataB + 1
  BY <1>1, <1>2, <1>3 DEF AtaFirst, AtaStored
<1>6. /\ AtaFirst \in Nat /\ AtaFirst + ataReq.total <= ATA_SECTORS
      /\ CountRegister(ataReq.total) \in 1 .. ataReq.total
  <2>1. ataReq.total \in Nat \ {0}
    BY <1>3
  <2> QED  BY <2>1, FirstSector, CountBound DEF AtaInv
<1>7. ataReq.op = "read" => /\ ataCmd.lba = AtaFirst + ataB /\ ataCmd.left > 0
                           /\ ataCmd.left = CountRegister(ataReq.total) - ataB
  BY <1>1, <1>5 DEF AtaInv, AtaInStep, AtaDriveOK
<1>8. ataReq.op = "identify" => ataReq.total = 1 /\ ataCmd.left <= 1 /\ ataCmd.lba = 0 /\ ataB = 0
  BY <1>1, <1>3 DEF AtaInv, AtaInStep, AtaCallOK
<1>9. ataCmd.lba \in 0 .. (ATA_SECTORS - 1)
  BY <1>1, <1>3, <1>6, <1>7, <1>8, SMTT(40)
<1>10. x \in Int
  BY <1>3, <1>9
<1> HIDE DEF x
<1>11. /\ ataBuf' \in Seq(Int) /\ Len(ataBuf') = Len(ataBuf) + 1
       /\ \A i \in 1 .. Len(ataBuf) : ataBuf'[i] = ataBuf[i]
       /\ ataBuf'[Len(ataBuf) + 1] = x
  BY <1>1, <1>3, <1>10
<1>12. ataPc' = "done" => ataCmd.left <= 1 /\ status' = {}
  <2> SUFFICES ASSUME ataPc' = "done"  PROVE ~ (ataCmd.left > 1) /\ ataCmd.left <= 1
    BY <1>1
  <2>1. ataB + 1 = ataReq.total
    BY <1>2, <1>3
  <2> DEFINE c == CountRegister(ataReq.total)
             left == ataCmd.left
  <2> HIDE DEF c, left
  <2>2. ataReq.op = "read" => left = c - ataB
    BY <1>7 DEF c, left
  <2>3. c \in 1 .. ataReq.total /\ left \in Int
    BY <1>3, <1>6 DEF c, left
  <2>4. ataReq.op = "identify" => left <= 1
    BY <1>8 DEF left
  <2>5. left <= 1
    BY <1>1, <1>3, <2>1, <2>2, <2>3, <2>4
  <2> QED  BY <2>3, <2>5 DEF left
<1>13. AtaTypeOK'
  <2>1. ataB' \in 0 .. ataReq'.total /\ Len(ataBuf') <= ataB'
    BY <1>1, <1>2, <1>3, <1>11, SMTT(40)
  <2> QED  BY <1>1, <1>2, <1>4, <1>11, <2>1 DEF AtaInv, AtaTypeOK
<1>14. AtaCallOK' /\ AtaLatchOK'
  <2>1. ataPc' = "drq" => ataB' < ataReq'.total
    BY <1>1, <1>2
  <2> QED  BY <1>1, <1>2, <1>3, <1>4, <1>8, <1>12, <2>1, SMTT(40)
           DEF AtaInv, AtaInStep, AtaCallOK, AtaLatchOK, AtaTypeOK
<1>15. AtaDriveOK'
  <2> SUFFICES ASSUME ataReq.op = "read"
               PROVE  /\ ataCmd'.lba = AtaFirst + (ataB + 1)
                      /\ ataCmd'.left = CountRegister(ataReq.total) - (ataB + 1)
                      /\ status' # {} => ataCmd'.left > 0
    BY <1>1, <1>5 DEF AtaDriveOK
  <2> DEFINE c == CountRegister(ataReq.total)
             left == ataCmd.left
  <2>1. c \in Nat /\ left \in Int /\ left = c - ataB
    BY <1>3, <1>6, <1>7
  <2>2. ataCmd'.lba = (AtaFirst + ataB) + 1 /\ ataCmd'.left = left - 1
    BY <1>4, <1>7
  <2>3. status' # {} => left > 1
    BY <1>1
  <2> HIDE DEF c, left
  <2>4. ataCmd'.left = c - (ataB + 1) /\ (status' # {} => ataCmd'.left > 0)
    BY <1>3, <2>1, <2>2, <2>3
  <2> QED  BY <1>3, <1>6, <2>2, <2>4 DEF c
<1>16. AtaReadRight'
  <2> SUFFICES ASSUME ataReq.op = "read"
               PROVE  /\ Len(ataBuf') = ataB'
                      /\ \A b \in 0 .. (ataB' - 1) : ataBuf'[b + 1] = ataDisk[AtaFirst + b]
                      /\ ataAnswer' = "ok" => ataB' = ataReq.total
    BY <1>1, <1>5 DEF AtaReadRight
  <2>1. Len(ataBuf) = ataB /\ \A b \in 0 .. (ataB - 1) : ataBuf[b + 1] = ataDisk[AtaFirst + b]
    BY DEF AtaInv, AtaInStep, AtaReadRight
  <2>2. x = ataDisk[AtaFirst + ataB]
    BY <1>3, <1>7 DEF x
  <2>3. ASSUME NEW b \in 0 .. (ataB' - 1)  PROVE ataBuf'[b + 1] = ataDisk[AtaFirst + b]
    <3>1. CASE b = ataB
      BY <1>11, <2>1, <2>2, <3>1
    <3>2. CASE b # ataB
      <4>1. b \in 0 .. (ataB - 1) /\ b + 1 \in 1 .. Len(ataBuf)
        BY <1>2, <1>3, <2>1, <3>2
      <4> QED  BY <1>11, <2>1, <4>1
    <3> QED  BY <3>1, <3>2
  <2>4. Len(ataBuf') = ataB'
    BY <1>2, <1>11, <2>1
  <2>5. ataAnswer' = "ok" => ataB' = ataReq.total
    BY <1>2, <1>3
  <2> QED  BY <2>3, <2>4, <2>5
<1>17. AtaWriteRight'
  BY <1>1 DEF AtaWriteRight
<1> QED  BY <1>13, <1>14, <1>15, <1>16, <1>17, AtaKept DEF AtaInStep

(* A sector is handed to the drive.                                        *)
LEMMA AtaWrites ==
    ASSUME AtaInv, AtaWrite
    PROVE  AtaInv'
<1>1. /\ ataPc = "drq" /\ "DRQ" \in status /\ ataReq.op = "write" /\ "ERR" \notin status
      /\ ataLatch' = AtaNew(ataReq.lba + ataB) /\ status' = {"BSY"}
      /\ UNCHANGED <<ataReq, ataBuf, ataCmd, ataDisk>>
  BY DEF AtaWrite, CheckStatusError
<1>2. /\ ataB' = ataB + 1
      /\ IF ataB + 1 < ataReq.total THEN ataPc' = "drq" ELSE ataPc' = "flush"
      /\ ataAnswer' = ataAnswer
  BY <1>1 DEF AtaWrite, AtaMoved
<1>3. /\ ataLatch = -1 /\ ataB \in Nat /\ ataReq.total \in Nat /\ ataB < ataReq.total
      /\ ataAnswer = "none" /\ ataReq.lba \in Nat /\ ATA_SECTORS \in Nat \ {0}
      /\ ataCmd.lba \in Nat /\ ataCmd.left \in Int
  BY <1>1, AtaAssumption DEF AtaInv, AtaTypeOK, AtaInStep, AtaLatchOK, AtaCallOK
<1>4. ataLatch' # -1 /\ ataLatch' = AtaNew(ataReq.lba + ataB' - 1)
  BY <1>1, <1>2, <1>3 DEF AtaNew
<1>5. AtaFirst' = AtaFirst /\ AtaStored = ataB /\ AtaStored' = ataB
  BY <1>1, <1>2, <1>3, <1>4 DEF AtaFirst, AtaStored
<1>6. /\ ataCmd.lba = AtaFirst + ataB /\ ataCmd.left > 0
      /\ ataCmd.left = CountRegister(ataReq.total) - ataB
  BY <1>1, <1>5 DEF AtaInv, AtaInStep, AtaDriveOK
<1>7. \A b \in 0 .. (ataB - 1) : ataDisk[AtaFirst + b] = AtaNew(ataReq.lba + b)
  BY <1>1, <1>5 DEF AtaInv, AtaInStep, AtaWriteRight
<1>8. AtaTypeOK'
  <2>1. ataB' \in 0 .. ataReq'.total /\ Len(ataBuf') <= ataB'
    <3>1. ataBuf \in Seq(Int) /\ Len(ataBuf) <= ataB
      BY DEF AtaInv, AtaTypeOK
    <3>2. Len(ataBuf) \in Nat
      BY <3>1
    <3> QED  BY <1>1, <1>2, <1>3, <3>1, <3>2
  <2> QED  BY <1>1, <1>2, <2>1 DEF AtaInv, AtaTypeOK
<1>9. AtaCallOK' /\ AtaReadRight'
  BY <1>1, <1>2, <1>3 DEF AtaInv, AtaInStep, AtaCallOK, AtaReadRight
<1>10. AtaLatchOK' /\ AtaDriveOK'
  BY <1>1, <1>2, <1>3, <1>4, <1>5, <1>6 DEF AtaLatchOK, AtaDriveOK
<1>11. AtaWriteRight'
  <2>1. ataPc' = "flush" => ataReq.total - 2 = ataB - 1
    BY <1>2, <1>3
  <2> QED  BY <1>1, <1>2, <1>3, <1>5, <1>7, <2>1 DEF AtaWriteRight
<1> QED  BY <1>8, <1>9, <1>10, <1>11, AtaKept DEF AtaInStep

(* The flush may be ignored by a drive that still writes.                  *)
LEMMA AtaFlushes ==
    ASSUME AtaInv, cacheFlush
    PROVE  AtaInv'
<1>1. ataPc = "flush" /\ ataPc' = "flushed" /\ UNCHANGED <<ataReq, ataB, ataBuf, ataAnswer, ataDisk>>
  BY DEF cacheFlush, AtaCommand, ataDevice
<1>2. ataReq.op = "write" /\ ataB = ataReq.total /\ ataB > 0 /\ ataAnswer = "none"
  BY <1>1 DEF AtaInv, AtaInStep, AtaCallOK
<1>3. \/ UNCHANGED <<status, ataCmd, ataLatch>>
      \/ status' = {"BSY"} /\ ataCmd' = [op |-> "flush", lba |-> 0, left |-> 0] /\ ataLatch' = -1
  BY DEF cacheFlush, AtaCommand, ataDevice
<1>4. AtaTypeOK'
  BY <1>1, <1>3 DEF AtaInv, AtaTypeOK
<1>5. AtaCallOK' /\ AtaDriveOK' /\ AtaReadRight' /\ AtaWriteRight'
  BY <1>1, <1>2 DEF AtaInv, AtaInStep, AtaCallOK, AtaDriveOK, AtaReadRight, AtaWriteRight, AtaFirst
<1>6. AtaLatchOK'
  BY <1>1, <1>2, <1>3 DEF AtaInv, AtaInStep, AtaLatchOK, AtaFirst, AtaStored
<1> QED  BY <1>4, <1>5, <1>6, AtaKept DEF AtaInStep

(* The drive works only while a call waits for it.                         *)
LEMMA AtaBusy ==
    ASSUME AtaInv, "BSY" \in status
    PROVE  /\ ataPc \in {"idBsy", "drq", "flush", "flushed"} /\ status = {"BSY"}
           /\ ataAnswer = "none"
           /\ ataReq.lba \in Nat /\ ataReq.total \in Nat /\ ataB \in 0 .. ataReq.total
           /\ ATA_SECTORS \in Nat \ {0}
           /\ ataCmd.lba \in Nat /\ ataCmd.left \in Int
           /\ ataDisk \in [0 .. (ATA_SECTORS - 1) -> 0 .. (2 * ATA_SECTORS - 1)]
           /\ AtaFirst \in Nat /\ AtaFirst + ataReq.total <= ATA_SECTORS
<1>1. /\ ataPc \in {"idBsy", "drq", "flush", "flushed"} /\ status = {"BSY"}
      /\ ataAnswer = "none"
  BY DEF AtaInv, AtaTypeOK, AtaInStep, AtaCallOK
<1>2. /\ ataReq.lba \in Nat /\ ataReq.total \in Nat /\ ataB \in 0 .. ataReq.total
      /\ ATA_SECTORS \in Nat \ {0}
      /\ ataCmd.lba \in Nat /\ ataCmd.left \in Int
      /\ ataDisk \in [0 .. (ATA_SECTORS - 1) -> 0 .. (2 * ATA_SECTORS - 1)]
  BY AtaAssumption DEF AtaInv, AtaTypeOK
<1>3. AtaFirst \in Nat /\ AtaFirst + ataReq.total <= ATA_SECTORS
  BY FirstSector DEF AtaInv
<1> QED  BY <1>1, <1>2, <1>3

(* It stores the sector it has taken and asks for the next one.            *)
LEMMA DriveStores ==
    ASSUME AtaInv, DriveWorks, UNCHANGED ataHost, ataLatch # -1
    PROVE  AtaInv'
<1>1. "BSY" \in status
  BY DEF DriveWorks
<1>2. /\ UNCHANGED <<ataPc, ataReq, ataB, ataBuf, ataAnswer>>
      /\ status' = {} \/ status' = {"DRQ"}
      /\ status' # {} => ataCmd.left - 1 # 0
      /\ ataDisk' = [ataDisk EXCEPT ![ataCmd.lba] = ataLatch]
      /\ ataCmd' = [ataCmd EXCEPT !.lba = @ + 1, !.left = ataCmd.left - 1]
      /\ ataLatch' = -1
  BY DEF DriveWorks, ataHost
<1>3. /\ ataReq.op = "write" /\ ataB > 0 /\ ataPc \in {"drq", "flush", "flushed"}
      /\ ataLatch = AtaNew(ataReq.lba + ataB - 1)
      /\ ataCmd.lba = AtaFirst + AtaStored
  BY DEF AtaInv, AtaInStep, AtaLatchOK
<1>4. AtaFirst' = AtaFirst /\ AtaStored = ataB - 1 /\ AtaStored' = ataB
  BY <1>1, <1>2, AtaBusy DEF AtaFirst, AtaStored
<1>5. /\ ataCmd'.lba = ataCmd.lba + 1 /\ ataCmd'.left = ataCmd.left - 1
      /\ ataCmd' \in [op : {"none", "read", "write", "identify", "flush"}, lba : Nat, left : Int]
  <2>1. ataCmd \in [op : {"none", "read", "write", "identify", "flush"}, lba : Nat, left : Int]
    BY DEF AtaInv, AtaTypeOK
  <2>2. ataCmd' = [op |-> ataCmd.op, lba |-> ataCmd.lba + 1, left |-> ataCmd.left - 1]
    BY <1>2, <2>1
  <2> QED  BY <1>1, <2>1, <2>2, AtaBusy
<1>6. /\ ataCmd.lba = AtaFirst + (ataB - 1) /\ ataCmd.lba \in 0 .. (ATA_SECTORS - 1)
      /\ ataB \in 1 .. ataReq.total
  BY <1>1, <1>3, <1>4, AtaBusy, SMTT(40)
<1>7. AtaTypeOK'
  <2>1. ataReq.lba + ataReq.total <= ATA_SECTORS
    BY DEF AtaInv, AtaTypeOK
  <2>2. ataLatch \in 0 .. (2 * ATA_SECTORS - 1)
    <3> DEFINE l == ataReq.lba
               t == ataReq.total
    <3>1. l \in Nat /\ t \in Nat /\ l + t <= ATA_SECTORS /\ ATA_SECTORS \in Nat /\ ataB \in 1 .. t
      BY <1>1, <1>6, <2>1, AtaBusy
    <3>2. ataLatch = (l + ataB - 1) + ATA_SECTORS
      BY <1>3 DEF AtaNew
    <3> HIDE DEF l, t
    <3> QED  BY <3>1, <3>2
  <2>3. ataDisk' \in [0 .. (ATA_SECTORS - 1) -> 0 .. (2 * ATA_SECTORS - 1)]
    BY <1>1, <1>2, <2>2, AtaBusy
  <2> QED  BY <1>2, <1>5, <2>3 DEF AtaInv, AtaTypeOK
<1>8. AtaCallOK' /\ AtaLatchOK' /\ AtaReadRight'
  BY <1>2, <1>3 DEF AtaInv, AtaInStep, AtaCallOK, AtaLatchOK, AtaReadRight
<1>9. AtaDriveOK'
  <2> SUFFICES ASSUME ataPc = "drq"
               PROVE  /\ ataCmd'.lba = AtaFirst + ataB
                      /\ ataCmd'.left = CountRegister(ataReq.total) - ataB
                      /\ status' # {} => ataCmd'.left > 0
    BY <1>2, <1>4 DEF AtaDriveOK
  <2> DEFINE c == CountRegister(ataReq.total)
  <2>1. ataCmd.left = c - (ataB - 1) /\ ataCmd.left > 0
    BY <1>1, <1>3, <1>4, AtaBusy DEF AtaInv, AtaInStep, AtaDriveOK
  <2>2. c \in Nat
    <3>1. ataReq.total \in Nat \ {0}
      BY <1>1, <1>6, AtaBusy
    <3> QED  BY <3>1, CountBound
  <2> HIDE DEF c
  <2>3. ataCmd'.lba = AtaFirst + ataB
    BY <1>1, <1>5, <1>6, AtaBusy
  <2>4. ataCmd'.left = c - ataB
    BY <1>1, <1>5, <1>6, <2>1, <2>2
  <2>5. status' # {} => ataCmd'.left > 0
    BY <1>1, <1>2, <1>5, <2>1, AtaBusy
  <2> QED  BY <2>3, <2>4, <2>5 DEF c
<1>10. ASSUME NEW b \in 0 .. (ataB - 2)
       PROVE  ataDisk'[AtaFirst + b] = ataDisk[AtaFirst + b]
  <2>1. AtaFirst + b # ataCmd.lba /\ AtaFirst + b \in 0 .. (ATA_SECTORS - 1)
    <3> DEFINE f == AtaFirst
               t == ataReq.total
    <3>1. f \in Nat /\ t \in Nat /\ f + t <= ATA_SECTORS /\ ATA_SECTORS \in Nat /\ ataB \in 1 .. t
      BY <1>1, <1>6, AtaBusy
    <3> HIDE DEF f, t
    <3>2. f + b # f + (ataB - 1) /\ f + b \in 0 .. (ATA_SECTORS - 1)
      BY <3>1
    <3> QED  BY <1>6, <3>2 DEF f
  <2> QED  BY <1>1, <1>2, <2>1, AtaBusy
<1>11. ataDisk'[AtaFirst + (ataB - 1)] = AtaNew(ataReq.lba + (ataB - 1))
  <2>1. ataDisk'[ataCmd.lba] = ataLatch
    BY <1>1, <1>2, <1>6, AtaBusy
  <2>2. ataReq.lba + ataB - 1 = ataReq.lba + (ataB - 1)
    BY <1>1, <1>6, AtaBusy
  <2> QED  BY <1>3, <1>6, <2>1, <2>2
<1>12. AtaWriteRight'
  <2>1. ataPc = "drq" => \A b \in 0 .. (ataB - 1) : ataDisk'[AtaFirst + b] = AtaNew(ataReq.lba + b)
    <3> SUFFICES ASSUME ataPc = "drq", NEW b \in 0 .. (ataB - 1)
                 PROVE  ataDisk'[AtaFirst + b] = AtaNew(ataReq.lba + b)
      OBVIOUS
    <3>1. CASE b = ataB - 1
      BY <1>11, <3>1
    <3>2. CASE b # ataB - 1
      <4>1. b \in 0 .. (ataB - 2) /\ b \in 0 .. ((ataB - 1) - 1)
        BY <1>6, <3>2
      <4>2. \A c \in 0 .. ((ataB - 1) - 1) : ataDisk[AtaFirst + c] = AtaNew(ataReq.lba + c)
        <5>1. "ERR" \notin status
          BY <1>1, AtaBusy
        <5>2. \A c \in 0 .. (AtaStored - 1) : ataDisk[AtaFirst + c] = AtaNew(ataReq.lba + c)
          BY <1>3, <5>1 DEF AtaInv, AtaInStep, AtaWriteRight
        <5> QED  BY <1>4, <5>2
      <4> QED  BY <1>10, <4>1, <4>2
    <3> QED  BY <3>1, <3>2
  <2>2. ataPc \in {"flush", "flushed"} =>
           \A b \in 0 .. (ataReq.total - 2) : ataDisk'[AtaFirst + b] = AtaNew(ataReq.lba + b)
    <3> SUFFICES ASSUME ataPc \in {"flush", "flushed"}, NEW b \in 0 .. (ataReq.total - 2)
                 PROVE  ataDisk'[AtaFirst + b] = AtaNew(ataReq.lba + b)
      OBVIOUS
    <3>1. ataB = ataReq.total
      BY DEF AtaInv, AtaInStep, AtaCallOK
    <3>2. ataDisk[AtaFirst + b] = AtaNew(ataReq.lba + b)
      BY <1>3 DEF AtaInv, AtaInStep, AtaWriteRight
    <3> QED  BY <1>10, <3>1, <3>2
  <2> QED  BY <1>1, <1>2, <1>4, <2>1, <2>2, AtaBusy DEF AtaWriteRight
<1> QED  BY <1>7, <1>8, <1>9, <1>12, AtaKept DEF AtaInStep

(* It begins a command, or ends one that had nothing to store.             *)
LEMMA DriveGoesOn ==
    ASSUME AtaInv, DriveWorks, UNCHANGED ataHost, ataLatch = -1
    PROVE  AtaInv'
<1>1. "BSY" \in status
  BY DEF DriveWorks
<1>2. /\ UNCHANGED <<ataPc, ataReq, ataB, ataBuf, ataAnswer, ataDisk, ataCmd, ataLatch>>
      /\ status' = {} \/ status' = {"DRQ"}
      /\ status' # {} => ataCmd.left - 0 # 0
  BY DEF DriveWorks, ataHost
<1>3. AtaTypeOK'
  BY <1>2 DEF AtaInv, AtaTypeOK
<1>4. AtaCallOK' /\ AtaLatchOK' /\ AtaReadRight'
  BY <1>1, <1>2, AtaBusy DEF AtaInv, AtaInStep, AtaCallOK, AtaLatchOK, AtaReadRight, AtaFirst
<1>5. AtaDriveOK'
  BY <1>1, <1>2, AtaBusy DEF AtaInv, AtaInStep, AtaDriveOK, AtaFirst, AtaStored
<1>6. AtaWriteRight'
  BY <1>1, <1>2, AtaBusy DEF AtaInv, AtaInStep, AtaWriteRight, AtaFirst, AtaStored
<1> QED  BY <1>3, <1>4, <1>5, <1>6, AtaKept DEF AtaInStep

(* It fails; the sector it had taken is lost.                              *)
LEMMA DriveGivesUp ==
    ASSUME AtaInv, NEW drq \in {{}, {"DRQ"}}, DriveFails(drq), UNCHANGED ataHost
    PROVE  AtaInv'
<1>1. "BSY" \in status
  BY DEF DriveFails
<1>2. /\ UNCHANGED <<ataPc, ataReq, ataB, ataBuf, ataAnswer, ataDisk>>
      /\ status' = {"ERR"} \/ status' = {"ERR", "DRQ"}
      /\ ataCmd' = [ataCmd EXCEPT !.left = 0]
      /\ ataLatch' = -1
  BY DEF DriveFails, ataHost
<1>3. ataCmd'.lba = ataCmd.lba /\ ataCmd'.left = 0
  BY <1>2 DEF AtaInv, AtaTypeOK
<1>4. AtaTypeOK'
  BY <1>2 DEF AtaInv, AtaTypeOK
<1>5. AtaCallOK' /\ AtaLatchOK' /\ AtaDriveOK' /\ AtaReadRight' /\ AtaWriteRight'
  BY <1>1, <1>2, <1>3, AtaBusy DEF AtaInv, AtaInStep, AtaCallOK, AtaLatchOK, AtaDriveOK,
                                   AtaReadRight, AtaWriteRight, AtaFirst
<1> QED  BY <1>4, <1>5, AtaKept DEF AtaInStep
-----------------------------------------------------------------------------
(* AHCI.  The bytes of an address.                                         *)

LEMMA SmallQuotient ==
    ASSUME NEW a \in Nat, NEW d \in Nat, a < d
    PROVE  a \div d = 0
<1>1. a \div d \in Nat /\ a % d \in 0 .. (d - 1) /\ a = ((a \div d) * d) + (a % d)
  OBVIOUS
<1>2. a \div d # 0 => (a \div d) * d >= d
  BY <1>1
<1> QED  BY <1>1, <1>2

(* An lba of two bytes reaches the drive as it is.                         *)
LEMMA AddressExact ==
    ASSUME NEW lba \in Nat
    PROVE  FisLba(lba) \in Nat /\ (lba < BYTE * BYTE => FisLba(lba) = lba)
<1> DEFINE B == BYTE
           B2 == BYTE * BYTE
           byte(place) == (lba \div place) % B
<1>1. B \in Nat \ {0, 1}
  BY AhciAssumption
<1>2. /\ B2 \in Nat /\ B2 >= B
      /\ B2 * B2 \in Nat /\ B2 * B2 >= B2
      /\ B2 * B2 * B2 \in Nat /\ B2 * B2 * B2 >= B2
      /\ B2 * B \in Nat /\ B2 * B2 * B \in Nat
  <2>1. B2 \in Nat /\ B2 >= B /\ B2 >= 1
    BY <1>1
  <2> HIDE DEF B2, B
  <2>2. B2 * B2 \in Nat /\ B2 * B2 >= B2
    BY <2>1
  <2>3. B2 * B2 * B2 \in Nat /\ B2 * B2 * B2 >= B2 * B2
    BY <2>1, <2>2
  <2>4. B2 * B \in Nat /\ B2 * B2 * B \in Nat
    BY <1>1, <2>1, <2>2
  <2> QED  BY <2>1, <2>2, <2>3, <2>4
<1>3. FisLba(lba) = byte(1) + (byte(B) * B) + (byte(B2) * B2) + (byte(B2) * (B2 * B))
                    + (byte(B2 * B2) * (B2 * B2)) + (byte(B2 * B2 * B2) * (B2 * B2 * B))
  BY DEF FisLba
<1>4. ASSUME NEW place \in Nat \ {0}  PROVE byte(place) \in Nat
  BY <1>1
<1>5. FisLba(lba) \in Nat
  <2>1. /\ byte(1) \in Nat /\ byte(B) \in Nat /\ byte(B2) \in Nat
        /\ byte(B2 * B2) \in Nat /\ byte(B2 * B2 * B2) \in Nat
    <3>1. B2 # 0 /\ B2 * B2 # 0 /\ B2 * B2 * B2 # 0
      <4> HIDE DEF B2, B
      <4> QED  BY <1>1, <1>2
    <3> HIDE DEF byte, B2
    <3> QED  BY <1>1, <1>2, <1>4, <3>1
  <2> HIDE DEF byte, B2, B
  <2>2. /\ byte(B) * B \in Nat /\ byte(B2) * B2 \in Nat /\ byte(B2) * (B2 * B) \in Nat
        /\ byte(B2 * B2) * (B2 * B2) \in Nat /\ byte(B2 * B2 * B2) * (B2 * B2 * B) \in Nat
    BY <1>1, <1>2, <2>1
  <2> QED  BY <1>3, <2>1, <2>2
<1>6. ASSUME lba < B2  PROVE FisLba(lba) = lba
  <2>1. lba \div B2 = 0 /\ lba \div (B2 * B2) = 0 /\ lba \div (B2 * B2 * B2) = 0
    <3> HIDE DEF B2
    <3>1. lba < B2 * B2 /\ lba < B2 * B2 * B2
      BY <1>2, <1>6
    <3> QED  BY <1>2, <1>6, <3>1, SmallQuotient
  <2>2. 0 % B = 0
    BY <1>1
  <2>3. byte(B2) = 0 /\ byte(B2 * B2) = 0 /\ byte(B2 * B2 * B2) = 0
    <3> HIDE DEF B2, B
    <3> QED  BY <2>1, <2>2
  <2>4. byte(1) = lba % B
    <3>1. lba \div 1 = lba
      OBVIOUS
    <3> QED  BY <3>1
  <2> DEFINE q == lba \div B
  <2>5. q \in Nat /\ lba % B \in Nat /\ lba = (q * B) + (lba % B)
    BY <1>1
  <2>6. q < B
    <3>1. q >= B => q * B >= B2
      <4> HIDE DEF q
      <4> QED  BY <1>1, <2>5
    <3>2. q * B \in Nat
      BY <1>1, <2>5
    <3> HIDE DEF q, B2, B
    <3> QED  BY <1>1, <1>2, <1>6, <2>5, <3>1, <3>2
  <2>7. byte(B) = q
    <3> HIDE DEF q
    <3>1. q % B = q
      BY <1>1, <2>5, <2>6, Remainder
    <3> QED  BY <3>1 DEF q
  <2> HIDE DEF byte, B2, B, q
  <2>8. 0 * B2 = 0 /\ 0 * (B2 * B) = 0 /\ 0 * (B2 * B2) = 0 /\ 0 * (B2 * B2 * B) = 0
    BY <1>1, <1>2
  <2>9. q * B \in Nat
    BY <1>1, <2>5
  <2> QED  BY <1>3, <2>3, <2>4, <2>5, <2>7, <2>8, <2>9
<1> QED  BY <1>5, <1>6

(* getFreeSlot finds a slot among those its variable can hold, and one     *)
(* more.                                                                   *)
LEMMA SlotFound == getFreeSlot \in 0 .. SLOT_BITS
<1> DEFINE cut == {i \in commandIssue : i < SLOT_BITS}
           T == {i \in 0 .. SLOT_BITS : i \notin cut}
<1>1. SLOT_BITS \in Nat
  BY AhciAssumption
<1>2. SLOT_BITS \in T
  BY <1>1
<1>3. T \subseteq Nat /\ T # {}
  BY <1>1, <1>2
<1> HIDE DEF T
<1>4. \E x \in T : \A y \in T : ~ (<<y, x>> \in OpToRel(<, Nat))
  BY <1>3, NatLessThanWellFounded, WFMin, Zenon
<1>5. PICK x \in T : \A y \in T : ~ (y < x)
  BY <1>3, <1>4, Zenon DEF OpToRel
<1>6. x \in 0 .. SLOT_BITS /\ x \notin cut /\ \A j \in 0 .. (x - 1) : j \in cut
  BY <1>1, <1>5 DEF T
<1> HIDE DEF cut
<1>7. \E i \in 0 .. SLOT_BITS : i \notin cut /\ \A j \in 0 .. (i - 1) : j \in cut
  BY <1>6
<1> QED  BY <1>7 DEF getFreeSlot, cut
-----------------------------------------------------------------------------
(* AHCI.  The invariant follows the slot of the call: its bit is the only  *)
(* one while the port works, and stays once the port has failed.           *)

LEMMA AhciStart == AhciInit => AhciInv
<1> SUFFICES ASSUME AhciInit  PROVE AhciInv
  OBVIOUS
<1>1. AhciTypeOK
  <2>1. running \subseteq {"CR", "FR"} /\ started \in BOOLEAN /\ tfes \in BOOLEAN
    BY Zenon DEF AhciInit
  <2>2. ahciDisk \in [0 .. (AHCI_SECTORS - 1) -> 0 .. (2 * AHCI_SECTORS - 1)]
    BY AhciAssumption DEF AhciInit
  <2>3. ahciReq.lba = 0 /\ ahciReq.total = 0 /\ ahciReq.slot = 0 /\ commandIssue = {}
    BY DEF AhciInit, AHCI_NO_REQ
  <2> QED  BY <2>1, <2>2, <2>3, AhciAssumption DEF AhciInit, AhciTypeOK
<1> QED  BY <1>1 DEF AhciInit, AhciInv, OneCommand, AhciOkMeansDone, DeadPortAnswersError

(* Bringing up a port issues no command.                                   *)
LEMMA AhciSetup ==
    ASSUME AhciInv, stopCommandSending \/ remapPort \/ startCommandSending
    PROVE  AhciInv'
<1>1. /\ ahciPc \in {"stop", "stopping", "start"}
      /\ ahciPc' \in {"stopping", "start", "ENMEM", "idle"}
      /\ started' \in BOOLEAN
      /\ UNCHANGED <<ahciReq, ahciBuf, ahciAnswer, running, commandIssue, tfes, ahciDisk>>
  BY DEF stopCommandSending, remapPort, startCommandSending, AhciInv, AhciTypeOK
<1>2. AhciTypeOK'
  BY <1>1 DEF AhciInv, AhciTypeOK
<1>3. ahciAnswer = "none"
  BY <1>1 DEF AhciInv, OneCommand
<1> QED  BY <1>1, <1>2, <1>3 DEF AhciInv, OneCommand, AhciOkMeansDone, DeadPortAnswersError

LEMMA AhciBegins ==
    ASSUME AhciInv, NEW op \in {"read", "write"}, NEW r \in AHCI_REQUESTS, AhciRequest(op, r)
    PROVE  AhciInv'
<1>1. /\ ahciReq'.op = op /\ ahciReq'.lba = r[1] /\ ahciReq'.total = r[2]
      /\ ahciReq'.slot = getFreeSlot
      /\ r[1] \in Nat /\ r[2] \in Nat \ {0} /\ r[1] + r[2] <= AHCI_SECTORS
      /\ AHCI_MAX \in Nat
  BY AhciAssumption DEF AhciRequest
<1>2. /\ ahciPc = "idle" /\ UNCHANGED <<ahciBuf, running, started, listBase, commandIssue, tfes, ahciDisk>>
      /\ \/ ahciPc' = "done" /\ ahciAnswer' = "ELONG"
         \/ ahciPc' = "issue" /\ ahciAnswer' = ahciAnswer /\ ~ (r[2] > AHCI_MAX)
  BY DEF AhciRequest, ahciPort, TooLong
<1>3. AhciTypeOK'
  BY <1>1, <1>2, SlotFound DEF AhciInv, AhciTypeOK
<1>4. ahciAnswer = "none" /\ (~ tfes => commandIssue = {})
  BY <1>2 DEF AhciInv, OneCommand
<1>5. OneCommand'
  BY <1>1, <1>2, <1>4 DEF OneCommand
<1> QED  BY <1>2, <1>3, <1>4, <1>5 DEF AhciInv, AhciOkMeansDone, DeadPortAnswersError

LEMMA AhciIdentifies ==
    ASSUME AhciInv, ahciIdentifyCommand
    PROVE  AhciInv'
<1>1. /\ ahciReq'.op = "identify" /\ ahciReq'.lba = 0 /\ ahciReq'.total = 1
      /\ ahciReq'.slot = getFreeSlot
      /\ AHCI_MAX \in Nat \ {0} /\ AHCI_SECTORS \in Nat \ {0}
  BY AhciAssumption DEF ahciIdentifyCommand
<1>2. /\ ahciPc = "idle" /\ UNCHANGED <<ahciBuf, running, started, listBase, commandIssue, tfes, ahciDisk>>
      /\ \/ ahciPc' = "done" /\ ahciAnswer' = "ENMEM"
         \/ ahciPc' = "issue" /\ ahciAnswer' = ahciAnswer
  BY DEF ahciIdentifyCommand, ahciPort
<1>3. AhciTypeOK'
  BY <1>1, <1>2, SlotFound, SMTT(40) DEF AhciInv, AhciTypeOK
<1>4. ahciAnswer = "none" /\ (~ tfes => commandIssue = {})
  BY <1>2 DEF AhciInv, OneCommand
<1>5. OneCommand'
  BY <1>1, <1>2, <1>4 DEF OneCommand
<1> QED  BY <1>2, <1>3, <1>4, <1>5 DEF AhciInv, AhciOkMeansDone, DeadPortAnswersError

LEMMA AhciIssues ==
    ASSUME AhciInv, AhciIssue
    PROVE  AhciInv'
<1>1. /\ ahciPc = "issue" /\ ahciPc' = "poll" /\ commandIssue' = commandIssue \cup {ahciReq.slot}
      /\ UNCHANGED <<ahciReq, ahciBuf, ahciAnswer, running, started, listBase, tfes, ahciDisk>>
  BY DEF AhciIssue
<1>2. AhciTypeOK'
  BY <1>1 DEF AhciInv, AhciTypeOK
<1>3. ahciAnswer = "none"
  BY <1>1 DEF AhciInv, OneCommand
<1> QED  BY <1>1, <1>2, <1>3 DEF AhciInv, OneCommand, AhciOkMeansDone, DeadPortAnswersError

(* The poll ends: with success only if the HBA has cleared the bit, which  *)
(* it does not do once it has failed.                                      *)
LEMMA AhciAnswers ==
    ASSUME AhciInv, AhciDone \/ AhciError
    PROVE  AhciInv'
<1>1. /\ ahciPc = "poll" /\ ahciPc' = "done"
      /\ UNCHANGED <<ahciReq, ahciBuf, running, started, listBase, commandIssue, tfes, ahciDisk>>
      /\ \/ ahciReq.slot \notin commandIssue /\ ahciAnswer' = "ok"
         \/ ahciReq.slot \in commandIssue /\ tfes /\ ahciAnswer' = "EHARDWARE"
  BY DEF AhciDone, AhciError, AhciAnswer, ahciPort
<1>2. AhciTypeOK'
  BY <1>1 DEF AhciInv, AhciTypeOK
<1>3. OneCommand'
  BY <1>1 DEF AhciInv, OneCommand
<1>4. AhciOkMeansDone'
  BY <1>1 DEF AhciInv, AhciOkMeansDone, AhciMoved
<1>5. DeadPortAnswersError'
  BY <1>1 DEF AhciInv, DeadPortAnswersError
<1> QED  BY <1>2, <1>3, <1>4, <1>5 DEF AhciInv

LEMMA AhciReturns ==
    ASSUME AhciInv, AhciReturn
    PROVE  AhciInv'
<1>1. /\ ahciPc = "done" /\ ahciPc' = "idle" /\ ahciReq' = AHCI_NO_REQ /\ ahciAnswer' = "none"
      /\ UNCHANGED <<running, started, listBase, commandIssue, tfes, ahciDisk>>
  BY DEF AhciReturn, ahciPort
<1>2. AhciTypeOK'
  BY <1>1, AhciAssumption DEF AhciInv, AhciTypeOK, AHCI_NO_REQ
<1> QED  BY <1>1, <1>2 DEF AhciInv, OneCommand, AhciOkMeansDone, DeadPortAnswersError

LEMMA AhciEngine ==
    ASSUME AhciInv, NEW bit \in {"CR", "FR"}, PortEngine(bit)
    PROVE  AhciInv'
<1>1. /\ UNCHANGED <<ahciPc, ahciReq, ahciBuf, ahciAnswer, started, listBase, commandIssue, tfes, ahciDisk>>
      /\ running' \subseteq running \cup {bit}
  BY DEF PortEngine, ahciHost, AhciInv, AhciTypeOK
<1>2. AhciTypeOK'
  BY <1>1 DEF AhciInv, AhciTypeOK
<1> QED  BY <1>1, <1>2 DEF AhciInv, OneCommand, AhciOkMeansDone, AhciMoved, DeadPortAnswersError

(* What the HBA moves are sectors of the drive, and those that were asked  *)
(* for if the address is right and all of them are moved.                  *)
LEMMA TransferExact ==
    ASSUME AhciInv, NEW n \in Nat, Transfer(n), ahciReq' = ahciReq,
           ahciReq.lba + ahciReq.total <= AHCI_SECTORS
    PROVE  /\ ahciDisk' \in [0 .. (AHCI_SECTORS - 1) -> 0 .. (2 * AHCI_SECTORS - 1)]
           /\ n = ahciReq.total => AhciMoved'
<1> DEFINE S == AHCI_SECTORS
           lba == ahciReq.lba
           total == ahciReq.total
<1>1. /\ S \in Nat \ {0} /\ lba \in Nat /\ total \in Nat /\ lba + total <= S
      /\ ahciDisk \in [0 .. (S - 1) -> 0 .. (2 * S - 1)]
      /\ Asked \in Nat /\ (lba < BYTE * BYTE => Asked = lba)
  BY AhciAssumption, AddressExact DEF AhciInv, AhciTypeOK, Asked
<1> HIDE DEF S, lba, total
<1>2. ahciReq.op # "write" => ahciDisk' = ahciDisk
  BY DEF Transfer
<1>3. ahciReq.op = "write" =>
         ahciDisk' = [s \in 0 .. (S - 1) |->
                        IF s \in {(Asked + i - 1) % S : i \in 1 .. n}
                        THEN AhciNew((s - Asked + lba) % S) ELSE ahciDisk[s]]
  BY <1>1 DEF Transfer, S, lba
<1>4. ahciDisk' \in [0 .. (S - 1) -> 0 .. (2 * S - 1)]
  <2>1. ASSUME NEW s \in 0 .. (S - 1)
        PROVE  AhciNew((s - Asked + lba) % S) \in 0 .. (2 * S - 1)
    <3>1. (s - Asked + lba) % S \in 0 .. (S - 1)
      BY <1>1
    <3> DEFINE k == (s - Asked + lba) % S
    <3> HIDE DEF k
    <3>2. k + S \in 0 .. (2 * S - 1)
      BY <1>1, <3>1 DEF k
    <3> QED  BY <3>2 DEF AhciNew, k, S
  <2>2. CASE ahciReq.op = "write"
    BY <1>1, <1>3, <2>1, <2>2
  <2>3. CASE ahciReq.op # "write"
    BY <1>1, <1>2, <2>3
  <2> QED  BY <2>2, <2>3
<1>5. ASSUME n = total, lba < BYTE * BYTE, NEW b \in 0 .. (total - 1)
      PROVE  /\ b + 1 \in 1 .. n /\ (Asked + (b + 1) - 1) % S = lba + b
             /\ ((lba + b) - Asked + lba) % S = lba + b
             /\ lba + b \in 0 .. (S - 1)
  <2>1. b + 1 \in 1 .. n /\ lba + b \in 0 .. (S - 1) /\ lba + b \in Nat /\ lba + b < S
    BY <1>1, <1>5
  <2>2. Asked + (b + 1) - 1 = lba + b /\ (lba + b) - Asked + lba = lba + b
    BY <1>1, <1>5
  <2>3. (lba + b) % S = lba + b
    BY <1>1, <2>1, Remainder
  <2> QED  BY <2>1, <2>2, <2>3
<1>6. ASSUME n = total, lba < BYTE * BYTE, NEW b \in 0 .. (total - 1), ahciReq.op = "read"
      PROVE  b + 1 \in DOMAIN ahciBuf' /\ ahciBuf'[b + 1] = ahciDisk'[lba + b]
  <2>1. ahciBuf' = [i \in 1 .. n |-> ahciDisk[(Asked + i - 1) % S]] /\ ahciDisk' = ahciDisk
    BY <1>6 DEF Transfer, S
  <2>2. b + 1 \in 1 .. n /\ (Asked + (b + 1) - 1) % S = lba + b
    BY <1>5, <1>6
  <2> QED  BY <2>1, <2>2
<1>7. ASSUME n = total, lba < BYTE * BYTE, NEW b \in 0 .. (total - 1), ahciReq.op = "write"
      PROVE  ahciDisk'[lba + b] = AhciNew(lba + b)
  <2>1. /\ b + 1 \in 1 .. n /\ (Asked + (b + 1) - 1) % S = lba + b
        /\ ((lba + b) - Asked + lba) % S = lba + b
        /\ lba + b \in 0 .. (S - 1)
    BY <1>5, <1>7
  <2>2. lba + b \in {(Asked + i - 1) % S : i \in 1 .. n}
    BY <2>1
  <2> DEFINE s == lba + b
  <2> HIDE DEF s
  <2>3. ahciDisk'[s] = AhciNew((s - Asked + lba) % S)
    BY <1>3, <1>7, <2>1, <2>2 DEF s
  <2> QED  BY <2>1, <2>3 DEF s
<1>8. n = total => AhciMoved'
  <2>1. ahciReq'.lba = lba /\ ahciReq'.total = total /\ ahciReq'.op = ahciReq.op
    BY DEF lba, total
  <2> QED  BY <1>6, <1>7, <2>1 DEF AhciMoved
<1> QED  BY <1>4, <1>8 DEF S, total

LEMMA HbaStep ==
    ASSUME AhciInv, HbaExecutes \/ HbaFails
    PROVE  AhciInv'
<1>1. /\ ~ tfes /\ ahciReq.slot \in commandIssue
      /\ UNCHANGED <<ahciPc, ahciReq, ahciAnswer, running, started, listBase>>
  BY DEF HbaExecutes, HbaFails
<1>2. /\ ahciPc = "poll" /\ commandIssue = {ahciReq.slot} /\ ahciAnswer = "none"
      /\ ahciReq.total <= AHCI_MAX /\ ahciReq.lba + ahciReq.total <= AHCI_SECTORS
      /\ ahciReq.total \in Nat /\ AHCI_MAX \in Nat
  BY <1>1, AhciAssumption DEF AhciInv, OneCommand, AhciTypeOK
<1>3. CASE HbaExecutes
  <2>1. Transfer(ahciReq.total) /\ commandIssue' = {} /\ tfes' = tfes
    <3>1. ~ (ahciReq.total > AHCI_MAX)
      BY <1>2
    <3> QED  BY <1>2, <1>3, <3>1 DEF HbaExecutes
  <2>2. ahciDisk' \in [0 .. (AHCI_SECTORS - 1) -> 0 .. (2 * AHCI_SECTORS - 1)] /\ AhciMoved'
    BY <1>1, <1>2, <2>1, TransferExact
  <2>3. AhciTypeOK'
    BY <1>1, <2>1, <2>2 DEF AhciInv, AhciTypeOK
  <2> QED  BY <1>1, <1>2, <2>1, <2>2, <2>3
           DEF AhciInv, OneCommand, AhciOkMeansDone, DeadPortAnswersError
<1>4. CASE HbaFails
  <2>1. PICK n \in 0 .. (ahciReq.total - 1) : Transfer(n)
    BY <1>4 DEF HbaFails
  <2>2. tfes' /\ tfes' \in BOOLEAN /\ commandIssue' = commandIssue
    BY <1>4 DEF HbaFails
  <2>3. ahciDisk' \in [0 .. (AHCI_SECTORS - 1) -> 0 .. (2 * AHCI_SECTORS - 1)]
    <3>1. n \in Nat
      BY <1>2
    <3> QED  BY <1>1, <1>2, <2>1, <3>1, TransferExact
  <2>4. AhciTypeOK'
    BY <1>1, <2>2, <2>3 DEF AhciInv, AhciTypeOK
  <2> QED  BY <1>1, <1>2, <2>2, <2>4
           DEF AhciInv, OneCommand, AhciOkMeansDone, DeadPortAnswersError
<1> QED  BY <1>3, <1>4
-----------------------------------------------------------------------------
(* Both drivers together.                                                  *)

LEMMA DriversStep == AtaInv /\ AhciInv /\ [DriversNext]_driverVars => AtaInv' /\ AhciInv'
<1> SUFFICES ASSUME AtaInv, AhciInv, [DriversNext]_driverVars  PROVE AtaInv' /\ AhciInv'
  OBVIOUS
<1>1. UNCHANGED ataVars => AtaInv'
  <2> SUFFICES ASSUME UNCHANGED ataVars  PROVE AtaInv'
    OBVIOUS
  <2>1. AtaTypeOK'
    BY DEF ataVars, AtaInv, AtaTypeOK
  <2>2. AtaInStep'
    BY DEF ataVars, AtaInv, AtaInStep, AtaCallOK, AtaLatchOK, AtaDriveOK, AtaReadRight,
           AtaWriteRight, AtaFirst, AtaStored
  <2> QED  BY <2>1, <2>2, AtaKept
<1>2. UNCHANGED ahciVars => AhciInv'
  BY DEF ahciVars, AhciInv, AhciTypeOK, OneCommand, AhciOkMeansDone, AhciMoved, DeadPortAnswersError
<1>3. CASE AtaCall
  BY <1>2, <1>3, AtaIdentifies, AtaBegins DEF AtaCall
<1>4. CASE AhciCall
  BY <1>1, <1>4, AhciIdentifies, AhciBegins DEF AhciCall
<1>5. CASE AtaRuns
  BY <1>2, <1>5, AtaWaits, AtaIssues, AtaFails, AtaReads, AtaWrites, AtaFlushes, AtaEnds, AtaReturns
  DEF AtaRuns, AtaHostStep
<1>6. CASE AtaWorks
  BY <1>2, <1>6, DriveStores, DriveGoesOn, DriveGivesUp DEF AtaWorks, AtaDrive
<1>7. CASE AhciRuns
  BY <1>1, <1>7, AhciSetup, AhciIssues, AhciAnswers, AhciReturns DEF AhciRuns, AhciHostStep
<1>8. CASE AhciWorks
  BY <1>1, <1>8, HbaStep, AhciEngine DEF AhciWorks, AhciPortStep
<1>9. CASE UNCHANGED driverVars
  BY <1>1, <1>2, <1>9 DEF driverVars
<1> QED  BY <1>3, <1>4, <1>5, <1>6, <1>7, <1>8, <1>9 DEF DriversNext

(* A read or write of ataPio.c that answers 0 has moved what it was asked  *)
(* for, but for the last sector of a write, wherever the drive fails and   *)
(* however many calls went before.                                         *)
THEOREM AtaSafe == DriversSpec => []AtaInv
<1> QED  BY AtaStart, AhciStart, DriversStep, PTL DEF DriversSpec, DriversInit

(* A read or write of ahci.c that answers SUCCESS has moved what it was    *)
(* asked for, and on a port that has failed none answers SUCCESS.          *)
THEOREM AhciSafe == DriversSpec => []AhciInv
<1> QED  BY AtaStart, AhciStart, DriversStep, PTL DEF DriversSpec, DriversInit

(* No sector changes between calls, and no table of a port moves under an  *)
(* engine that uses it.                                                    *)
THEOREM DriversNeverOverlap == DriversSpec => NoOverlap
<1>1. AtaInv /\ [DriversNext]_driverVars =>
         [(ataPc \in {"idle", "bsy", "done"}) => ataDisk' = ataDisk]_ataVars
  <2> SUFFICES ASSUME AtaInv, DriversNext, ataPc \in {"idle", "bsy", "done"}
               PROVE  ataDisk' = ataDisk
    BY DEF driverVars
  <2>1. "BSY" \notin status
    BY DEF AtaInv, AtaInStep, AtaCallOK
  <2> QED  BY <2>1 DEF DriversNext, AtaCall, AhciCall, AtaRuns, AtaWorks, AhciRuns, AhciWorks, ataVars,
               ataDevice, AtaHostStep, AtaDrive, ataPioIdentify, AtaRequest, ataPioWaitBsy, AtaIssue,
               AtaFail, AtaRead, AtaWrite, cacheFlush, AtaFlushed, AtaReturn, DriveWorks, DriveFails,
               AtaCommand
<1>2. AhciInv /\ [DriversNext]_driverVars => [listBase' # listBase => running = {}]_ahciVars
  <2> SUFFICES ASSUME AhciInv, DriversNext, listBase' # listBase  PROVE running = {}
    BY DEF driverVars
  <2>1. remapPort
    BY DEF DriversNext, AtaCall, AhciCall, AtaRuns, AtaWorks, AhciRuns, AhciWorks, ahciVars, ahciPort,
           AhciHostStep, AhciPortStep, stopCommandSending, startCommandSending, ahciIdentifyCommand,
           AhciRequest, AhciIssue, AhciDone, AhciError, AhciAnswer, AhciReturn, HbaExecutes, HbaFails,
           PortEngine
  <2> QED  BY <2>1 DEF remapPort, EnginesStopped, AhciInv, AhciTypeOK
<1> QED  BY <1>1, <1>2, AtaSafe, AhciSafe, PTL
         DEF DriversSpec, NoOverlap, AtaQuietAfterAnswer, TablesMoveWhenStopped
=============================================================================
