----------------------------- MODULE Interrupts -----------------------------
(***************************************************************************)
(* idt/: the way of an interrupt through the stub of idt.asm, trapHandler, *)
(* a handler and back, with the processor and the two 8259A controllers    *)
(* as boot/stage2.asm sets them up (external).                             *)
(*                                                                         *)
(* cpu is the stack of routines that have been interrupted, the last one   *)
(* is running; the first is the kernel's own code.  Of the registers only  *)
(* rax goes through a global variable on its way to the stack: rax is the  *)
(* depth of the routine whose value the register holds, or Junk.           *)
(***************************************************************************)
EXTENDS Integers, Sequences, FiniteSets, SequencesExt

CONSTANTS
    Lines,       \* The IRQ lines devices use.
    Exceptions   \* Exceptions the code of the kernel may raise.

ASSUME LinesAssumption == Lines \subseteq (0 .. 15) \ {2}

(* The exceptions the processor knows; the other vectors below 32 are      *)
(* reserved, 2 is the NMI.                                                 *)
ASSUME ExceptionsAssumption ==
    Exceptions \subseteq ((0 .. 21) \cup (28 .. 30)) \ {2, 9, 15}

VARIABLES
    handlerList, \* From vectors to handlers.
    idtr,        \* The IDT has been loaded.
    intFlag,     \* The interrupt flag of the processor.
    cpu,         \* The routines: where they are, their vector, what they saved.
    rax, tempSave, saveRetAddress,
    irr, isr     \* Lines requested, lines in service.

vars == <<handlerList, idtr, intFlag, cpu, rax, tempSave, saveRetAddress, irr, isr>>
boot == <<handlerList, idtr>>
pic  == <<irr, isr>>

TOTAL_INTERRUPTS == 256
CASCADE   == 2       \* The line of the first controller the second one is on.
NMI       == 2
Junk      == 0
Slaves    == 8 .. 15
Level(l)  == IF l \in Slaves THEN CASCADE ELSE l
Top       == Last(cpu)
Goto(at)  == cpu' = [cpu EXCEPT ![Len(cpu)].at = at]

Init ==
    /\ handlerList = << >> /\ idtr = FALSE /\ intFlag = FALSE
    /\ cpu = <<[at |-> "kernel", vec |-> 0, rax |-> Junk, flag |-> FALSE]>> /\ rax = 1
    /\ tempSave = Junk /\ saveRetAddress = Junk
    /\ irr = {} /\ isr = {}
-----------------------------------------------------------------------------
(* None of the IRQ handlers does anything but print, and all return 0.     *)
InitIrqHandler == [v \in 32 .. 47 |->
    IF v = 32 THEN "timerInterrupt" ELSE IF v = 43 THEN "freePeripherals" ELSE "noInterruptHandler"]

(* Every exception handler is a call of panic.                             *)
InitExceptionHandler == [v \in (0 .. 8) \cup (10 .. 14) \cup (16 .. 21) \cup (28 .. 30) |-> "panic"]

(* kmain loads the IDT first and then lets interrupts in.                  *)
idtInit ==
    /\ Top.at = "kernel" /\ ~ idtr
    /\ handlerList' = [v \in 0 .. TOTAL_INTERRUPTS - 1 |->
                          IF v \in DOMAIN InitExceptionHandler THEN InitExceptionHandler[v]
                          ELSE IF v \in DOMAIN InitIrqHandler THEN InitIrqHandler[v] ELSE "NULL"]
    /\ idtr' = TRUE
    /\ UNCHANGED <<intFlag, cpu, rax, tempSave, saveRetAddress, pic>>

enableInterrupts ==
    /\ Top.at = "kernel" /\ idtr /\ ~ intFlag
    /\ intFlag' = TRUE
    /\ UNCHANGED <<boot, cpu, rax, tempSave, saveRetAddress, pic>>

(* panic prints and loops for ever with interrupts disabled.               *)
Panic == Goto("panic") /\ intFlag' = FALSE

KernelPanic ==
    /\ Top.at = "kernel" /\ intFlag
    /\ Panic
    /\ UNCHANGED <<boot, rax, tempSave, saveRetAddress, pic>>
-----------------------------------------------------------------------------
(* A device raises its line.                                               *)
Raise(l) ==
    /\ l \notin irr
    /\ irr' = irr \cup {l}
    /\ UNCHANGED <<boot, intFlag, cpu, rax, tempSave, saveRetAddress, isr>>

(* The second controller holds back a line while one of the same or of a   *)
(* higher priority is in service there.                                    *)
Blocked(l) == l \in Slaves /\ \E s \in isr \cap Slaves : s <= l

Before(k, l) == Level(k) < Level(l) \/ (Level(k) = Level(l) /\ k < l)

Deliverable(l) ==
    /\ l \in irr /\ ~ Blocked(l)
    /\ \A k \in irr : Before(k, l) => Blocked(k)
    /\ \A s \in isr \ Slaves : s > Level(l)

(* fillIdt makes all gates interrupt gates.                                *)
FlagInStub == FALSE

(* The processor pushes the flags and begins the stub of the vector; the   *)
(* values in the registers are still those of the interrupted routine.     *)
Enter(v) ==
    /\ cpu' = Append(cpu, [at |-> "saveRegisters", vec |-> v, rax |-> Junk, flag |-> intFlag])
    /\ intFlag' = FlagInStub

Acknowledge(l) ==
    /\ intFlag /\ Deliverable(l)
    /\ Enter(32 + l)
    /\ irr' = irr \ {l} /\ isr' = isr \cup {l, Level(l)}
    /\ UNCHANGED <<boot, rax, tempSave, saveRetAddress>>

(* A request that goes away before it is acknowledged is delivered as the  *)
(* last line of its controller, which has no bit in service.               *)
Spurious(l) ==
    /\ intFlag /\ \A s \in isr \ Slaves : s > Level(l)
    /\ Enter(32 + l)
    /\ isr' = IF l \in Slaves THEN isr \cup {CASCADE} ELSE isr
    /\ UNCHANGED <<boot, rax, tempSave, saveRetAddress, irr>>

(* Exceptions come from the kernel's own code or a handler; a further NMI  *)
(* waits for the iretq of the last.  Without an IDT the machine resets.    *)
Fault(v) ==
    /\ IF v = NMI THEN \A i \in 1 .. Len(cpu) : cpu[i].vec # NMI /\ cpu[i].at # "reset"
                  ELSE Top.at = "kernel" \/ (Top.at = "trapHandler" /\ Top.vec \in 32 .. 47)
    /\ IF idtr THEN Enter(v) ELSE Goto("reset") /\ UNCHANGED intFlag
    /\ UNCHANGED <<boot, rax, tempSave, saveRetAddress, pic>>
-----------------------------------------------------------------------------
(* saveRegisters: rax and the return address of the stub go through        *)
(* globals while the return address is taken off the stack.                *)
SaveRax ==
    /\ Top.at = "saveRegisters"
    /\ tempSave' = rax /\ Goto("popReturn")
    /\ UNCHANGED <<boot, intFlag, rax, saveRetAddress, pic>>

SaveReturn ==
    /\ Top.at = "popReturn"
    /\ saveRetAddress' = Top.vec /\ rax' = Junk /\ Goto("push")
    /\ UNCHANGED <<boot, intFlag, tempSave, pic>>

(* Mutant: rax is pushed before it is loaded from the global again.        *)
MutPushRegisters ==
    /\ Top.at = "push"
    /\ cpu' = [cpu EXCEPT ![Len(cpu)] = [@ EXCEPT !.at = "jump", !.rax = rax]]
    /\ rax' = Junk
    /\ UNCHANGED <<boot, intFlag, tempSave, saveRetAddress, pic>>

PushRegisters ==
    /\ Top.at = "push"
    /\ cpu' = [cpu EXCEPT ![Len(cpu)] = [@ EXCEPT !.at = "jump", !.rax = tempSave]]
    /\ rax' = Junk
    /\ UNCHANGED <<boot, intFlag, tempSave, saveRetAddress, pic>>

JumpBack ==
    /\ Top.at = "jump"
    /\ cpu' = [cpu EXCEPT ![Len(cpu)] = [@ EXCEPT !.at = "trapHandler", !.vec = saveRetAddress]]
    /\ UNCHANGED <<boot, intFlag, rax, tempSave, saveRetAddress, pic>>

(* Mutant: an off-by-one, the timer gets no end of interrupt.              *)
MutEndOfInterrupt(v) ==
    isr' = IF v > 32 /\ v < 48 /\ isr \ Slaves # {} THEN isr \ {Min(isr \ Slaves)} ELSE isr

(* Only the first controller is told, for all IRQ vectors: it takes its    *)
(* line of the highest priority out of service.                            *)
EndOfInterrupt(v) ==
    isr' = IF v > 31 /\ v < 48 /\ isr \ Slaves # {} THEN isr \ {Min(isr \ Slaves)} ELSE isr

(* A vector without a handler is reported, and then called all the same.   *)
trapHandler ==
    LET handler == handlerList[Top.vec] IN
    /\ Top.at = "trapHandler"
    /\ IF handler = "panic" THEN Panic /\ UNCHANGED isr
       ELSE IF handler = "NULL" THEN Goto("wild") /\ UNCHANGED <<intFlag, isr>>
       ELSE EndOfInterrupt(Top.vec) /\ Goto("loadRegisters") /\ UNCHANGED intFlag
    /\ UNCHANGED <<boot, rax, tempSave, saveRetAddress, irr>>

(* Mutant: ret in place of iretq, the flags are not popped.                *)
MutLoadRegisters ==
    /\ Top.at = "loadRegisters"
    /\ rax' = Top.rax /\ cpu' = Front(cpu)
    /\ UNCHANGED <<boot, intFlag, tempSave, saveRetAddress, pic>>

LoadRegisters ==
    /\ Top.at = "loadRegisters"
    /\ rax' = Top.rax /\ intFlag' = Top.flag /\ cpu' = Front(cpu)
    /\ UNCHANGED <<boot, tempSave, saveRetAddress, pic>>
-----------------------------------------------------------------------------
Step == \/ idtInit \/ enableInterrupts
        \/ SaveRax \/ SaveReturn \/ PushRegisters \/ JumpBack \/ trapHandler \/ LoadRegisters

Next ==
    \/ Step
    \/ KernelPanic
    \/ \E l \in Lines : Raise(l) \/ Acknowledge(l)
    \/ \E l \in {7, 15} : Spurious(l)
    \/ \E v \in Exceptions \cup {NMI} : Fault(v)

(* The processor goes on, and a request it could take does not lose        *)
(* against something else for ever.                                        *)
Spec == Init /\ [][Next]_vars /\ WF_vars(Step) /\ \A l \in Lines : SF_vars(Acknowledge(l))
-----------------------------------------------------------------------------
Places == {"kernel", "saveRegisters", "popReturn", "push", "jump", "trapHandler",
           "loadRegisters", "panic", "wild", "reset"}

Vectors == 0 .. TOTAL_INTERRUPTS - 1
Routine == [at : Places, vec : Vectors, rax : {Junk, 1}, flag : BOOLEAN]

Dead ==
    \E i \in 1 .. Len(cpu) : \/ cpu[i].at \in {"panic", "wild", "reset"}
                             \/ i > 1 /\ cpu[i].vec \in Exceptions

(* The stack of routines is bounded: the kernel's code, one IRQ, one       *)
(* exception, one NMI (idt.c, fillIdt).                                    *)
TypeOK ==
    /\ DOMAIN handlerList \in {{}, Vectors}
    /\ idtr \in BOOLEAN /\ intFlag \in BOOLEAN
    /\ cpu \in Seq(Routine) /\ Len(cpu) \in 1 .. 4
    /\ rax \in {Junk, 1} /\ tempSave \in {Junk, 1} /\ saveRetAddress \in Vectors
    /\ irr \subseteq Lines /\ isr \subseteq Lines \cup {CASCADE}

(* Whatever interrupts the kernel's code, when that code goes on it finds  *)
(* its own value in rax, although all stubs share two global variables and *)
(* a fault can come between any two instructions of one (idt.asm,          *)
(* saveRegisters); and interrupts are enabled again.                       *)
InterruptedCodeUnharmed ==
    Top.at = "kernel" => rax = 1 /\ (tempSave # Junk => intFlag)

(* No vector the hardware can deliver reaches the call of a null pointer   *)
(* in trapHandler, and none is delivered before there is an IDT unless it  *)
(* is a fault of the kernel's own code.                                    *)
NoWildCall == \A i \in 1 .. Len(cpu) : cpu[i].at # "wild"

(* A line of the first controller is in service only while its handler     *)
(* runs: each end of interrupt, the ones of spurious requests too, takes   *)
(* the right line out of service (idt.c, trapHandler).                     *)
InServiceIsServed ==
    \A l \in isr \ Slaves : \E i \in 1 .. Len(cpu) :
        /\ cpu[i].vec \in 32 .. 47 /\ Level(cpu[i].vec - 32) = l
        /\ cpu[i].at # "loadRegisters"

(* idtInit gives the vectors of lines handlers that return, and the ones   *)
(* of exceptions panic; no stub runs before.                               *)
BootInv ==
    IF idtr THEN /\ \A v \in 32 .. 47 : handlerList[v] \notin {"NULL", "panic"}
                 /\ \A v \in Exceptions \cup {NMI} : handlerList[v] = "panic"
            ELSE Len(cpu) = 1 /\ ~ intFlag

(* Who interrupts whom: a line the kernel's code only, while interrupts    *)
(* are enabled; an exception that code or the handler of a line; an NMI    *)
(* everything.  Of these only the routine of a line returns.               *)
NestingInv ==
    /\ intFlag => Len(cpu) = 1 /\ cpu[1].at = "kernel"
    /\ cpu[1].vec = 0 /\ cpu[1].at \in {"kernel", "panic", "reset"}
    /\ \A i \in 2 .. Len(cpu) :
          /\ cpu[i].at \notin {"kernel", "wild", "reset"}
          /\ cpu[i].vec \in (32 .. 47) \cup Exceptions \cup {NMI}
          /\ cpu[i].vec \in 32 .. 47 => /\ i = 2 /\ cpu[i].flag
                                         /\ cpu[1].at = "kernel" /\ cpu[i].at # "panic"
          /\ cpu[i].vec \in Exceptions => i = 2 \/ (i = 3 /\ cpu[2].vec \in 32 .. 47)
          /\ cpu[i].vec = NMI => i = Len(cpu)
          /\ cpu[i].at = "loadRegisters" => cpu[i].vec \in 32 .. 47

(* While the stub of a line runs on, the globals hold what it put there.   *)
GlobalsInv ==
    Len(cpu) > 1 =>
        /\ Top.at \in {"push", "jump"} => saveRetAddress = Top.vec
        /\ Top.vec \in 32 .. 47 =>
              /\ Top.at = "saveRegisters" => rax = 1
              /\ Top.at \in {"popReturn", "push"} => tempSave = 1
              /\ Top.at \in {"jump", "trapHandler", "loadRegisters"} => Top.rax = 1

(* Interrupts nest within bounds, reach a handler, and leave the first     *)
(* controller as they found it (trapHandler).                              *)
ServiceInv ==
    /\ TypeOK /\ NoWildCall /\ InServiceIsServed
    /\ BootInv /\ NestingInv /\ GlobalsInv

(* Every request of a device is taken, unless the kernel is dead, requests *)
(* of higher priority wait whenever the kernel's code goes on, or the line *)
(* is behind one of the second controller whose service never ends (idt.c, *)
(* trapHandler: no end of interrupt to that one).                          *)
RequestsServed ==
    \A l \in Lines :
        []<>(Top.at = "kernel" /\ \A k \in irr : Before(k, l) => Blocked(k))
            => ((l \in irr) ~> (l \notin irr \/ Dead \/ Blocked(l)))
=============================================================================
