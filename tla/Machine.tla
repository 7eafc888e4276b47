------------------------------ MODULE Machine ------------------------------
(***************************************************************************)
(* The machine under every kernel: the interrupt flag of the processor,    *)
(* and the assert macro around what it protects.  A machine is a record;   *)
(* a module names the fields that it changes, here interrupts_enabled.     *)
(***************************************************************************)
CONSTANT _assert(_)         \* what the kernel does when an assertion fails

NULL == "null"
AssertionFailed == <<"!", "newline">>

assert(m, holds, then) == IF holds THEN then ELSE _assert(m)

interrupts_enabled(m) == m.interrupts_enabled
enable_interrupts(m)  == assert(m, ~interrupts_enabled(m), [m EXCEPT !.interrupts_enabled = TRUE])
disable_interrupts(m) == assert(m, interrupts_enabled(m), [m EXCEPT !.interrupts_enabled = FALSE])
=============================================================================
