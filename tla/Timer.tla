-------------------------------- MODULE Timer --------------------------------
(***************************************************************************)
(* SimpleTimer: seconds, and ticks since the last of them.  The frequency  *)
(* is given to the chip as a divisor of its clock.                         *)
(***************************************************************************)
LOCAL INSTANCE Integers

CONSTANTS Hz,           \* ticks of a second, 100 in the kernels
          Seconds,      \* the counter of seconds wraps to 0 after so many, 2^32
          Say(_, _)

Message == <<"s", "newline">>       \* "One second has passed\n"

SimpleTimer == [seconds |-> 0, ticks |-> 0]

\* The chip divides its clock of 1.19 MHz by a number of two bytes.
Divisor == 1193180 \div Hz
Constructed(m) == [m EXCEPT !.timer = SimpleTimer, !.divisor = <<Divisor % 256, (Divisor \div 256) % 256>>]

SecondIsOver(t) == t.ticks + 1 >= Hz

Tick_keepsTicks(t) ==
    IF SecondIsOver(t) THEN [seconds |-> (t.seconds + 1) % Seconds, ticks |-> t.ticks]
    ELSE [t EXCEPT !.ticks = @ + 1]
Tick(t) ==
    IF SecondIsOver(t) THEN [seconds |-> (t.seconds + 1) % Seconds, ticks |-> 0]
    ELSE [t EXCEPT !.ticks = @ + 1]

TimerInterrupt(m) ==
    LET ticked == [m EXCEPT !.timer = Tick(@)]
    IN  IF SecondIsOver(m.timer) THEN Say(ticked, Message) ELSE ticked
=============================================================================
