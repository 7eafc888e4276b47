-------------------------- MODULE DescriptorTables --------------------------
(***************************************************************************)
(* The global descriptor table and the interrupt descriptor table.  Both   *)
(* are functions from the numbers that were set to entries.                *)
(***************************************************************************)
LOCAL INSTANCE Integers
LOCAL INSTANCE TLC

CONSTANT Say(_, _)        \* Console::puts of the kernel

(***************************************************************************)
(* GDT.  An address or a limit of 32 bits is the pair of its halves.  The  *)
(* base is cut into three fields, the limit into two, and the upper four   *)
(* bits of gran share a byte with the limit.                               *)
(***************************************************************************)
Descriptor(base, limit, access, gran) ==
    [base_low  |-> base[2],  base_middle |-> base[1] % 256, base_high |-> base[1] \div 256,
     limit_low |-> limit[2], granularity |-> (limit[1] % 16) + (gran \div 16) * 16,
     access    |-> access]

gdt_set_gate(table, num, base, limit, access, gran) ==
    (num :> Descriptor(base, limit, access, gran)) @@ table

Zero == <<0, 0>>
FourGB == <<65535, 65535>>
Segments ==
    LET null == gdt_set_gate(<<>>, 0, Zero, Zero, 0, 0)
        code == gdt_set_gate(null, 1, Zero, FourGB, 154, 207)
    IN  gdt_set_gate(code, 2, Zero, FourGB, 146, 207)

gdt_init(m) == [m EXCEPT !.gdt = Segments]

\* What the processor makes of a descriptor: all memory, and instructions in it.
IsFlat(d) == /\ <<d.base_low, d.base_middle, d.base_high>> = <<0, 0, 0>>
             /\ d.limit_low = 65535 /\ d.granularity % 16 = 15 /\ d.granularity \div 128 = 1
IsCode(d) == d.access \div 128 = 1 /\ (d.access \div 8) % 4 = 3

-----------------------------------------------------------------------------
(***************************************************************************)
(* IDT: init() clears all gates and tells the processor where they are.  A *)
(* dispatcher calls set_gate for a run of vectors: here it is given all    *)
(* their gates, and its report to the console, the same for each of them,  *)
(* is written once.                                                        *)
(***************************************************************************)
InstallingHandler == <<"g", "newline">>

Gate(routine, selector, flags) == [base |-> routine, sel |-> selector, flags |-> flags]

idt_init(m) == [m EXCEPT !.idt = <<>>, !.idt_loaded = TRUE]
idt_set_gate(m, gates) == [Say(m, InstallingHandler) EXCEPT !.idt = gates @@ @]

(***************************************************************************)
(* A vector can be taken through a present gate with an entry in the code  *)
(* segment; 0x8E is a present gate that clears the interrupt flag.         *)
(***************************************************************************)
KernelCode == 8
InterruptGate == 142

CanTake(m, vector) ==
    /\ m.idt_loaded /\ vector \in DOMAIN m.idt
    /\ LET gate == m.idt[vector]
       IN  /\ gate.flags = InterruptGate /\ gate.sel \div 8 \in DOMAIN m.gdt
           /\ IsCode(m.gdt[gate.sel \div 8]) /\ IsFlat(m.gdt[gate.sel \div 8])
=============================================================================
