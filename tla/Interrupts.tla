----------------------------- MODULE Interrupts -----------------------------
(***************************************************************************)
(* The interrupt controllers and the dispatcher.  The controllers are a    *)
(* record: what the devices request, what each of the two has in service,  *)
(* and the vector the master starts at.  Interrupts 8 to 15 come from the  *)
(* slave, which hangs on input 2 of the master.  The handlers are virtual  *)
(* functions of each kernel, so handle_interrupt is a parameter here.      *)
(***************************************************************************)
EXTENDS Integers, FiniteSetsExt

CONSTANTS
    Say(_, _), _assert(_),
    handle_interrupt(_, _)      \* what a handler makes of a machine

INSTANCE Machine
Tables == INSTANCE DescriptorTables

IRQ_BASE == 32
IRQ_TABLE_SIZE == 16
Lines == 0 .. IRQ_TABLE_SIZE - 1
Number == <<"n", "newline">>
NoHandler == <<"u", "newline">>

-----------------------------------------------------------------------------
(***************************************************************************)
(* The controllers as the BIOS leaves them, and after irq_remap.           *)
(***************************************************************************)
BIOSVectors == [requested |-> {}, master |-> {}, slave |-> {}, base |-> 8]
irq_remap_unmoved(p) == [p EXCEPT !.requested = {}, !.master = {}, !.slave = {}]
irq_remap(p) == [p EXCEPT !.requested = {}, !.master = {}, !.slave = {}, !.base = IRQ_BASE]

generated_by_slave_PIC(n) == n > 7
Input(n) == IF generated_by_slave_PIC(n) THEN 2 ELSE n

Requested(p, n) == [p EXCEPT !.requested = @ \cup {n}]

\* A request waits while one of the same or a higher priority is in service.
Grants(p, n) ==
    /\ n \in p.requested
    /\ \A i \in p.master : Input(n) < i
    /\ generated_by_slave_PIC(n) => \A i \in p.slave : n < i
    /\ \A k \in p.requested : Input(n) < Input(k) \/ (Input(n) = Input(k) /\ n <= k)

InService(p, n) ==
    [p EXCEPT !.requested = @ \ {n}, !.master = @ \cup {Input(n)},
              !.slave = IF generated_by_slave_PIC(n) THEN @ \cup {n} ELSE @]

\* The command 0x20 ends what has the highest priority in a controller.
Ended(S) == IF S = {} THEN S ELSE S \ {Min(S)}

EndOfInterrupt_masterOnly(p, n) == [p EXCEPT !.master = Ended(@)]
EndOfInterrupt(p, n) ==
    [p EXCEPT !.slave  = IF generated_by_slave_PIC(n) THEN Ended(@) ELSE @,
              !.master = Ended(@)]

Idle(p) == p.master = {} /\ p.slave = {}

-----------------------------------------------------------------------------
(***************************************************************************)
(* The gates and the table of handlers; the dispatch of an interrupt: the  *)
(* handler or a report, then the end of the interrupt in either case.      *)
(***************************************************************************)
irq(n) == <<"irq", n>>
NoHandlers == [n \in Lines |-> NULL]

init_dispatcher(m) ==
    LET gates == [v \in IRQ_BASE .. IRQ_BASE + IRQ_TABLE_SIZE - 1 |->
                     Tables!Gate(irq(v - IRQ_BASE), Tables!KernelCode, Tables!InterruptGate)]
    IN  [Tables!idt_set_gate(m, gates) EXCEPT !.handlers = NoHandlers]

register_handler(m, n, handler) ==
    assert(m, n \in Lines, Say([m EXCEPT !.handlers[n] = handler], Number))
deregister_handler(m, n) ==
    assert(m, n \in Lines, Say([m EXCEPT !.handlers[n] = NULL], Number))

Handled(m, n) ==
    IF m.handlers[n] = NULL THEN Say(m, NoHandler) ELSE handle_interrupt(m, m.handlers[n])

dispatch_interrupt(m, n) ==
    LET h == assert(m, n \in Lines, Handled(m, n)) IN [h EXCEPT !.pic = EndOfInterrupt(@, n)]
=============================================================================
