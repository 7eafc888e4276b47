----------------------------- MODULE Processor -----------------------------
(***************************************************************************)
(* The processor and the low-level routines behind the gates.  A vector is *)
(* taken through its gate, which clears the interrupt flag; the routine    *)
(* calls the dispatcher of its kernel and iret restores the flag.  Without *)
(* a gate to take there is no way on: the machine resets, or halts here.   *)
(***************************************************************************)
LOCAL INSTANCE Integers
LOCAL INSTANCE Sequences

CONSTANTS Say(_, _),
          dispatch_interrupt(_, _), dispatch_exception(_, _)

LOCAL INSTANCE DescriptorTables
LOCAL INSTANCE Utils
LOCAL PIC == INSTANCE Interrupts WITH _assert <- abort, handle_interrupt <- LAMBDA m, h : m

Take(m, vector) ==
    LET off     == [m EXCEPT !.interrupts_enabled = FALSE]
        routine == m.idt[vector].base
        handled == IF routine[1] = "irq" THEN dispatch_interrupt(off, routine[2])
                   ELSE dispatch_exception(off, routine[2])
    IN  IF ~CanTake(m, vector) THEN abort(m)
        ELSE [handled EXCEPT !.interrupts_enabled = m.interrupts_enabled]

\* The controller says which line it is; the slave's vectors follow the master's.
Interrupt(m, n) == Take([m EXCEPT !.pic = PIC!InService(@, n)], m.pic.base + n)
=============================================================================
