----------------------------- MODULE Exceptions -----------------------------
(***************************************************************************)
(* The exception dispatcher: a gate and a slot in the table of handlers    *)
(* for each of the 32 exceptions of the processor.                         *)
(***************************************************************************)
LOCAL INSTANCE Integers

CONSTANTS Say(_, _), _assert(_),
          handle_exception(_, _)    \* what a handler makes of a machine

LOCAL INSTANCE Machine
LOCAL INSTANCE Utils
Tables == INSTANCE DescriptorTables

EXCEPTION_TABLE_SIZE == 32
Exceptions == 0 .. EXCEPTION_TABLE_SIZE - 1
Number == <<"n", "newline">>

isr(n) == <<"isr", n>>

\* The gates, then the table.
init_dispatcher(m) ==
    LET gates == [v \in Exceptions |-> Tables!Gate(isr(v), Tables!KernelCode, Tables!InterruptGate)]
    IN  [Tables!idt_set_gate(m, gates) EXCEPT !.exceptions = [n \in Exceptions |-> NULL]]

register_handler(m, code, handler) ==
    assert(m, code \in Exceptions, Say([m EXCEPT !.exceptions[code] = handler], Number))
deregister_handler(m, code) ==
    assert(m, code \in Exceptions, Say([m EXCEPT !.exceptions[code] = NULL], Number))

\* An exception without a handler stops the kernel.
dispatch_exception(m, n) ==
    LET said == Say(m, Number)
    IN  assert(said, n \in Exceptions,
               IF m.exceptions[n] = NULL THEN abort(Say(said, Number))
               ELSE handle_exception(said, m.exceptions[n]))
=============================================================================
