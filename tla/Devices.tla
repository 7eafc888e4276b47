------------------------------ MODULE Devices ------------------------------
(***************************************************************************)
(* The drivers of a running kernel, interrupted at every step.  The main   *)
(* thread prints through Console, reads the clock or waits for it through  *)
(* SimpleTimer, or waits for keys through SimpleKeyboard.  Its steps are   *)
(* the loads and stores on what it shares with the handlers.  A handler    *)
(* runs in one step: its gate clears the interrupt flag, so nothing else   *)
(* runs until it returns.  No variable of these drivers is protected in    *)
(* any other way.                                                          *)
(***************************************************************************)
EXTENDS Console, FiniteSets, TLC

CONSTANTS
    Tasks,          \* what the main thread may do: "print", "clock", "keys"
    Hz,             \* ticks of a second, 100 in the kernels
    Seconds,        \* the counter of seconds wraps to 0 after so many, 2^32
    Characters,     \* what the main thread prints
    MaxPrinted,     \* bound: characters printed by all
    MaxElapsed,     \* bound: ticks that a call is seen to take
    MaxKeys,        \* bound: keys pressed
    MaxWait         \* bound: seconds to wait for

ASSUME DevicesAssumption ==
    /\ {Hz, Seconds} \subseteq Nat \ {0}
    /\ Tasks \subseteq {"print", "clock", "keys"}
    /\ {MaxPrinted, MaxElapsed, MaxKeys, MaxWait} \subseteq Nat
    /\ "s" \notin Characters

VARIABLES
    task,       \* what the main thread does
    machine,    \* the devices and what their handlers share with the rest
    irq,        \* the interrupt in service, or none
    at, local,  \* the main thread: its next step and its registers
    printed,    \* history: the characters of all putch calls, in their order
    raced,      \* history: whether a handler has printed inside a putch
    elapsed     \* history: ticks since the call began, up to MaxElapsed

vars == <<task, machine, irq, at, local, printed, raced, elapsed>>

NoIrq == -1

-----------------------------------------------------------------------------
(***************************************************************************)
(* SimpleTimer::handle_interrupt, SimpleKeyboard::handle_interrupt and the *)
(* handler that only consumes the interrupts of a disk.                    *)
(***************************************************************************)
Say(m, s) == [m EXCEPT !.console = puts(@, s)]
_assert(m) == abort(Say(m, <<"!", "newline">>))

Timer    == INSTANCE Timer
Keyboard == INSTANCE Keyboard

handle_interrupt(m, handler) ==
    CASE handler = "timer"    -> Timer!TimerInterrupt(m)
      [] handler = "keyboard" -> Keyboard!KeyInterrupt(m)
      [] OTHER                -> m

Dispatcher == INSTANCE Interrupts

Handlers == [Dispatcher!NoHandlers EXCEPT ![0] = "timer", ![1] = "keyboard", ![14] = "disk"]

Registers == [ch |-> "newline", reg |-> 0, index |-> 0, edge |-> FALSE,
              seconds |-> 0, ticks |-> 0, then |-> 0, key |-> 0, before |-> 0]

Init ==
    /\ task \in Tasks
    /\ machine = [console  |-> output_redirection(init(Untouched, 15, 0), task = "print"),
                  timer    |-> Timer!SimpleTimer, keyboard |-> Keyboard!SimpleKeyboard,
                  controller |-> <<>>, pressed |-> 0,
                  handlers |-> Handlers,
                  pic |-> Dispatcher!irq_remap(Dispatcher!BIOSVectors),
                  interrupts_enabled |-> TRUE]
    /\ irq = NoIrq /\ at = "idle" /\ local = Registers
    /\ printed = <<>> /\ raced = FALSE /\ elapsed = 0

-----------------------------------------------------------------------------
(***************************************************************************)
(* The devices and the processor.  The timer's request is lost when one is *)
(* pending already; the keyboard holds a key back while the controller has *)
(* one.  The processor takes an interrupt between any two steps of the     *)
(* main thread, runs the handler with interrupts off, and returns.         *)
(***************************************************************************)
DeviceTick ==
    /\ task # "keys" /\ 0 \notin machine.pic.requested
    /\ Len(printed) + Len(Timer!Message) <= MaxPrinted \/ task = "clock"
    /\ machine' = [machine EXCEPT !.pic = Dispatcher!Requested(@, 0)]
    /\ UNCHANGED <<task, irq, at, local, printed, raced, elapsed>>

DeviceKey ==
    /\ task = "keys" /\ machine.controller = <<>> /\ machine.pressed < MaxKeys
    /\ \E code \in {Keyboard!NoKey, machine.pressed + 1} :
          machine' = [machine EXCEPT !.controller = <<code>>, !.pressed = @ + 1,
                                     !.pic = Dispatcher!Requested(@, 1)]
    /\ UNCHANGED <<task, irq, at, local, printed, raced, elapsed>>

DeviceDisk ==
    /\ task = "keys" /\ 14 \notin machine.pic.requested
    /\ machine' = [machine EXCEPT !.pic = Dispatcher!Requested(@, 14)]
    /\ UNCHANGED <<task, irq, at, local, printed, raced, elapsed>>

Interrupt ==
    /\ machine.interrupts_enabled
    /\ \E n \in Dispatcher!Lines :
          /\ Dispatcher!Grants(machine.pic, n)
          /\ irq' = n
          /\ machine' = [machine EXCEPT !.pic = Dispatcher!InService(@, n),
                                        !.interrupts_enabled = FALSE]
    /\ UNCHANGED <<task, at, local, printed, raced, elapsed>>

Prints(n) == n = 0 /\ Timer!SecondIsOver(machine.timer)

Handle ==
    /\ irq # NoIrq
    /\ machine' = [Dispatcher!dispatch_interrupt(machine, irq) EXCEPT !.interrupts_enabled = TRUE]
    /\ irq' = NoIrq
    /\ printed' = IF Prints(irq) /\ task = "print" THEN printed \o Timer!Message ELSE printed
    /\ raced'   = (raced \/ (Prints(irq) /\ task = "print" /\ at # "idle"))
    /\ elapsed' = IF task = "clock" /\ at # "idle" /\ elapsed < MaxElapsed THEN elapsed + 1 ELSE elapsed
    /\ UNCHANGED <<task, at, local>>

-----------------------------------------------------------------------------
(***************************************************************************)
(* A step of the main thread from one label to the next: the devices it    *)
(* leaves and its registers.                                               *)
(***************************************************************************)
Runs == irq = NoIrq
Goto(from, to, m, registers) ==
    /\ Runs /\ at = from
    /\ at' = to /\ machine' = m /\ local' = registers
    /\ UNCHANGED <<task, irq, printed, raced, elapsed>>

Con == machine.console
WithConsole(c) == [machine EXCEPT !.console = c]
SetX(x) == WithConsole([Con EXCEPT !.x = x])
SetY(y) == WithConsole([Con EXCEPT !.y = y])

(***************************************************************************)
(* putch.  Incrementing a coordinate is a load and a store, and the        *)
(* address of a cell takes a load of either coordinate.                    *)
(***************************************************************************)
BeginPutch ==
    /\ Runs /\ task = "print" /\ at = "idle" /\ Len(printed) < MaxPrinted
    /\ \E ch \in Characters :
          /\ printed' = Append(printed, ch)
          /\ local' = [local EXCEPT !.ch = ch]
          /\ at' = CASE ch \notin Controls -> "row"
                     [] ch = "backspace" -> "margin"
                     [] ch = "tab"       -> "loadx"
                     [] OTHER            -> "clearx"
    /\ UNCHANGED <<task, machine, irq, raced, elapsed>>

AddressRow    == Goto("row", "column", machine, [local EXCEPT !.reg = Con.y])
AddressColumn == Goto("column", "store", machine, [local EXCEPT !.index = Where([Con EXCEPT !.y = local.reg])])
Store    == Goto("store", "loadx", WithConsole(Stored(Con, local.index, local.ch)), local)
Margin   == Goto("margin", IF AtMargin(Con) THEN "edge" ELSE "loadx", machine, local)
LoadX    == Goto("loadx", "storex", machine, [local EXCEPT !.reg = Con.x])
StoreX   == Goto("storex", IF local.ch \in Controls THEN "edge" ELSE "echo",
                 SetX(Column(local.reg, local.ch)), local)
ClearX   == Goto("clearx", IF local.edge \/ local.ch = "newline" THEN "loady" ELSE "echo", SetX(0), local)
LoadY    == Goto("loady", "storey", machine, [local EXCEPT !.reg = Con.y])
StoreY   == Goto("storey", IF local.edge THEN "below" ELSE "echo", SetY(local.reg + 1), local)
Echo     == Goto("echo", "edge", WithConsole(Echoed(Con, local.ch)), local)
Edge     == Goto("edge", IF AtEdge(Con) THEN "clearx" ELSE "below", machine,
                 [local EXCEPT !.edge = AtEdge(Con)])
Below    == Goto("below", IF BelowScreen(Con) THEN "excess" ELSE "done", machine, local)
LoadExcess == Goto("excess", "scroll", machine, [local EXCEPT !.reg = Excess(Con), !.index = 0])

\* memcpy and memsetw, cell by cell, and the new row of the cursor.
Kept == (Rows - local.reg) * Columns
ScrollCell ==
    Goto("scroll", IF local.index + 1 = Kept + Columns THEN "last" ELSE "scroll",
         WithConsole([Con EXCEPT !.text[local.index] =
             IF local.index < Kept THEN Con.text[local.reg * Columns + local.index] ELSE Blank(Con)]),
         [local EXCEPT !.index = @ + 1])
LastRow    == Goto("last", "done", SetY(Rows - 1), local)
MoveCursor == Goto("done", "idle", machine, Registers)

Putch == \/ BeginPutch \/ AddressRow \/ AddressColumn \/ Store \/ Margin \/ LoadX \/ StoreX
         \/ ClearX \/ LoadY \/ StoreY \/ Echo \/ Edge \/ Below \/ LoadExcess \/ ScrollCell \/ LastRow \/ MoveCursor
-----------------------------------------------------------------------------
(***************************************************************************)
(* SimpleTimer: current() reads the seconds and then the ticks; wait(n)    *)
(* begins with a current().  The condition of its loop is read in one      *)
(* step: a tick between its two reads costs one more turn and no more.     *)
(***************************************************************************)
Clock == machine.timer

BeginCurrent ==
    /\ Runs /\ task = "clock" /\ at = "idle"
    /\ \E next \in {"seconds", "wait-seconds"} : at' = next
    /\ elapsed' = 0
    /\ UNCHANGED <<task, machine, irq, local, printed, raced>>

ReadSeconds == \/ Goto("seconds", "ticks", machine, [local EXCEPT !.seconds = Clock.seconds])
               \/ Goto("wait-seconds", "wait-ticks", machine, [local EXCEPT !.seconds = Clock.seconds])
ReadTicks   == \/ Goto("ticks", "time", machine, [local EXCEPT !.ticks = Clock.ticks])
               \/ Goto("wait-ticks", "time-then", machine, [local EXCEPT !.ticks = Clock.ticks])
EndCurrent  == Goto("time", "idle", machine, Registers)

BeginWait == \E n \in 0 .. MaxWait :
    Goto("time-then", "while", machine, [local EXCEPT !.then = (local.seconds + n) % Seconds])

MayWait_either == Clock.seconds <= local.then \/ Clock.ticks < local.ticks
MayWait == Clock.seconds <= local.then /\ Clock.ticks < local.ticks
Wait    == MayWait  /\ Goto("while", "while", machine, local)
EndWait == ~MayWait /\ Goto("while", "idle", machine, Registers)

ReadClock == BeginCurrent \/ ReadSeconds \/ ReadTicks \/ EndCurrent \/ BeginWait \/ Wait \/ EndWait

(***************************************************************************)
(* SimpleKeyboard: read() clears the flag, spins until the handler has set *)
(* it, and fetches the code; wait() leaves the code where it is.  before   *)
(* is history: the keys that the handler had been given when read() was    *)
(* called.                                                                 *)
(***************************************************************************)
Keys == machine.keyboard
KeysTaken == machine.pressed - Len(machine.controller)

BeginRead   == task = "keys" /\ Goto("idle", "clear", machine, [local EXCEPT !.before = KeysTaken])
ClearFlag_keepsFlag == Goto("clear", "spin", machine, local)
ClearFlag   == Goto("clear", "spin", [machine EXCEPT !.keyboard.key_pressed = FALSE], local)
Spin        == Keys.key_pressed /\ \/ Goto("spin", "fetch", machine, local)
                                       \/ Goto("spin", "idle", machine, Registers)
Fetch       == Goto("fetch", "key", machine, [local EXCEPT !.key = Keys.key_code])
EndRead     == Goto("key", "idle", machine, Registers)

ReadKey == BeginRead \/ ClearFlag \/ Spin \/ Fetch \/ EndRead

-----------------------------------------------------------------------------
MainStep == Putch \/ ReadClock \/ ReadKey
Next == DeviceTick \/ DeviceKey \/ DeviceDisk \/ Interrupt \/ Handle \/ MainStep

(***************************************************************************)
(* The processor takes an interrupt that it may take before long, and      *)
(* between two of them goes on with the main thread.  The loop of wait()   *)
(* turns many times between two ticks, so it sees its condition fail when  *)
(* that is so again and again.  The timer chip ticks for ever; keys and    *)
(* disk promise nothing.                                                   *)
(***************************************************************************)
Fairness ==
    /\ SF_vars(MainStep) /\ WF_vars(Interrupt \/ Handle)
    /\ SF_vars(EndWait) /\ WF_vars(DeviceTick)

Spec == Init /\ [][Next]_vars /\ Fairness

-----------------------------------------------------------------------------
(***************************************************************************)
(* Type invariant.                                                         *)
(***************************************************************************)
Labels == {"idle", "row", "column", "store", "margin", "loadx", "storex", "clearx", "loady",
           "storey", "echo", "edge", "below", "excess", "scroll", "last", "done", "seconds", "ticks", "time",
           "wait-seconds", "wait-ticks", "time-then", "while", "clear", "spin", "fetch", "key"}

TypeOK ==
    /\ task \in Tasks /\ at \in Labels
    /\ machine.timer \in [seconds : 0 .. Seconds - 1, ticks : 0 .. Hz - 1]
    /\ machine.keyboard \in [key_pressed : BOOLEAN, key_code : 0 .. MaxKeys]
    /\ DOMAIN Con.text = TextMemory
    /\ irq \in Dispatcher!Lines \cup {NoIrq}
    /\ machine.interrupts_enabled <=> irq = NoIrq
    /\ raced \in BOOLEAN /\ elapsed \in 0 .. MaxElapsed

(***************************************************************************)
(* The console as its header describes it: characters go on a paper that   *)
(* never ends, and the screen shows its last rows.                         *)
(***************************************************************************)
Sheet == [x |-> 0, y |-> 0, cells |-> <<>>]
Inked(cells, where, ch) ==
    [c \in DOMAIN cells \cup {where} |-> IF c = where THEN ch ELSE cells[c]]
Typed(p, ch) ==
    CASE ch = "backspace" -> [p EXCEPT !.x = IF @ = 0 THEN 0 ELSE @ - 1]
      [] ch = "tab"       -> [p EXCEPT !.x = CHOOSE c \in @ + 1 .. @ + TabStop : c % TabStop = 0]
      [] ch = "return"    -> [p EXCEPT !.x = 0]
      [] ch = "newline"   -> [p EXCEPT !.x = 0, !.y = @ + 1]
      [] OTHER -> [p EXCEPT !.x = @ + 1, !.cells = Inked(@, <<p.y, p.x>>, ch)]
Wrapped(p) == IF p.x = Columns THEN [p EXCEPT !.x = 0, !.y = @ + 1] ELSE p

Paper(s) ==
    LET typed[n \in 0 .. Len(s)] == IF n = 0 THEN Sheet ELSE Wrapped(Typed(typed[n - 1], s[n]))
    IN  typed[Len(s)]

Letter(p, row, column) ==
    IF <<row, column>> \in DOMAIN p.cells THEN p.cells[<<row, column>>] ELSE " "
Top(p) == IF p.y < Rows THEN 0 ELSE p.y - Rows + 1
Shows(c, p, top) ==
    \A row \in 0 .. Rows - 1, column \in 0 .. Columns - 1 :
        c.text[row * Columns + column][1] = Letter(p, top + row, column)

ScreenShowsPaper ==
    (task = "print" /\ at = "idle" /\ ~raced) => Shows(Con, Paper(printed), Top(Paper(printed)))

(***************************************************************************)
(* Wherever handlers print, the cursor is on the screen again when a putch *)
(* is over, and no character goes further behind the screen than one row.  *)
(* Only backspaces can take the cursor before its row: the handler moves   *)
(* it to the margin between the test and the decrement, and the next one   *)
(* finds it left of the margin.                                            *)
(***************************************************************************)
LeftMost == -Cardinality({i \in DOMAIN printed : printed[i] = "backspace"})

CursorComesBack ==
    /\ at = "idle" => Con.x \in LeftMost .. Columns - 1 /\ Con.y \in 0 .. Rows - 1
    /\ \A a \in TextMemory : (a < LeftMost \/ a >= (Rows + 1) * Columns) => Con.text[a] = Unknown

(***************************************************************************)
(* The redirected output loses nothing, whatever happens on the screen:    *)
(* the main thread's characters arrive in their order, but for the one on  *)
(* its way, and the lines of the handler in one piece between them.        *)
(***************************************************************************)
Picked(s, I) ==
    LET picked[n \in 0 .. Len(s)] ==
            IF n = 0 THEN <<>>
            ELSE IF n \in I THEN Append(picked[n - 1], s[n]) ELSE picked[n - 1]
    IN  picked[Len(s)]

Silent == {"backspace", "tab"}
Echoes(s) == Picked(s, {i \in DOMAIN s : s[i] \notin Silent})
OfHandler(s, i) == s[i] = "s" \/ (i > 1 /\ s[i - 1] = "s")
OfMain(s) == Picked(s, {i \in DOMAIN s : ~OfHandler(s, i)})
Pending ==
    IF /\ at \in {"row", "column", "store", "loadx", "storex", "clearx", "loady", "storey", "echo"}
       /\ ~local.edge /\ local.ch \notin Silent
    THEN <<local.ch>> ELSE <<>>

EchoComplete ==
    Con.redirect =>
        LET sent == Echoes(printed)
        IN  /\ Len(Con.port) + Len(Pending) = Len(sent)
            /\ OfMain(Con.port) \o Pending = OfMain(sent)
            /\ \A i \in DOMAIN Con.port : Con.port[i] = "s" => i < Len(Con.port) /\ Con.port[i + 1] = "newline"

(***************************************************************************)
(* current() reads two variables between which a second may end: the time  *)
(* it answers is never later than now, and earlier than the beginning of   *)
(* the call by less than a second.                                         *)
(***************************************************************************)
Time(t) == t.seconds * Hz + t.ticks

TimeIsNear ==
    (at \in {"time", "time-then"} /\ elapsed < MaxElapsed) =>
        (Time(Clock) - Time(local)) % (Seconds * Hz) <= elapsed + Hz - 1

(***************************************************************************)
(* read() answers no key that the handler had been given before the call,  *)
(* though the flag and the code are two variables and keys go on being     *)
(* pressed: the answer was pressed after the call, or the controller still *)
(* held it then.                                                           *)
(***************************************************************************)
FreshKey == at = "key" => local.key > local.before

(***************************************************************************)
(* No interrupt stays in service, in either controller, once its handler   *)
(* has returned: lower priorities would wait for ever.                     *)
(***************************************************************************)
Acknowledged ==
    /\ irq = NoIrq => Dispatcher!Idle(machine.pic)
    /\ Cardinality(machine.pic.master) <= 1

(***************************************************************************)
(* Drivers and controllers as they may be whenever the main thread runs.   *)
(***************************************************************************)
DriversConsistent == TypeOK /\ Acknowledged

\* Every request of a device is served, whatever the main thread does.
RequestsServed == \A n \in {0, 1, 14} : n \in machine.pic.requested ~> n \notin machine.pic.requested

\* A key pressed while read() or wait() spins ends it, through the interrupt and its handler.
KeyEndsRead == (at = "spin" /\ machine.controller \notin {<<>>, <<Keyboard!NoKey>>}) ~> at = "idle"

\* wait() ends, even for a number of seconds that makes the sum wrap.
WaitEnds == at = "while" ~> at = "idle"

\* The busy loops of simple_timer.C and simple_keyboard.C end.
BusyLoopsEnd == KeyEndsRead /\ WaitEnds
=============================================================================
