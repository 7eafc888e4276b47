---------------------------- MODULE Devices_proofs ----------------------------
(***************************************************************************)
(* Theorems about Devices, for any screen, frequency, counter of seconds   *)
(* and characters: the drivers and the controllers are consistent whenever *)
(* the main thread runs, the clock that current() reads is near, read()    *)
(* answers a fresh key, the screen shows what was printed, the redirected  *)
(* output loses nothing, and the cursor comes back to the screen however   *)
(* the handlers print inside putch.                                        *)
(***************************************************************************)
EXTENDS Devices, Lemmas, FiniteSetTheorems

-----------------------------------------------------------------------------
(***************************************************************************)
(* The machine without its console, the registers of the main thread, and  *)
(* the labels that belong to each task.                                    *)
(***************************************************************************)
MachineFields == {"console", "timer", "keyboard", "controller", "pressed", "handlers", "pic",
                  "interrupts_enabled"}
PicFields == {"requested", "master", "slave", "base"}
Devs == {0, 1, 14}

PrintLabels == {"row", "column", "store", "margin", "loadx", "storex", "clearx", "loady",
                "storey", "echo", "edge", "below", "excess", "scroll", "last", "done"}
ClockLabels == {"seconds", "ticks", "time", "wait-seconds", "wait-ticks", "time-then", "while"}
KeyLabels   == {"clear", "spin", "fetch", "key"}

MachineOK ==
    /\ DOMAIN machine = MachineFields
    /\ DOMAIN machine.pic = PicFields
    /\ machine.handlers = Handlers
    /\ machine.timer \in [seconds : 0 .. Seconds - 1, ticks : 0 .. Hz - 1]
    /\ machine.keyboard \in [key_pressed : BOOLEAN, key_code : 0 .. MaxKeys]
    /\ machine.pic.requested \subseteq Devs
    /\ machine.controller \in {<<>>} \cup {<<c>> : c \in 0 .. MaxKeys}
    /\ machine.pressed \in 0 .. MaxKeys

(***************************************************************************)
(* What is in service is the interrupt whose handler is about to run.      *)
(***************************************************************************)
InServiceOK ==
    /\ irq \in Devs \cup {NoIrq}
    /\ machine.interrupts_enabled <=> irq = NoIrq
    /\ machine.pic.master = IF irq = NoIrq THEN {} ELSE {Dispatcher!Input(irq)}
    /\ machine.pic.slave = IF irq = 14 THEN {irq} ELSE {}

RegisterType ==
    [ch : Characters \cup {"newline"}, reg : Int, index : Int, edge : BOOLEAN,
     seconds : 0 .. Seconds - 1, ticks : 0 .. Hz - 1, then : 0 .. Seconds - 1,
     key : 0 .. MaxKeys, before : Int]

MainOK ==
    /\ task \in Tasks /\ at \in Labels
    /\ local \in RegisterType
    /\ at \in PrintLabels => task = "print"
    /\ at \in ClockLabels => task = "clock"
    /\ at \in KeyLabels => task = "keys"
    /\ raced \in BOOLEAN /\ elapsed \in 0 .. MaxElapsed

DriversInv == MachineOK /\ InServiceOK /\ MainOK

-----------------------------------------------------------------------------
(***************************************************************************)
(* What the dispatch of an interrupt in service makes of the machine.      *)
(***************************************************************************)
LEMMA EndedLemma == ASSUME NEW x \in Int PROVE Dispatcher!Ended({x}) = {}
<1>1. Dispatcher!Min({x}) = x
  BY DEF Dispatcher!Min
<1>. QED
  BY <1>1 DEF Dispatcher!Ended

LEMMA DispatchLemma ==
    ASSUME MachineOK, irq \in Devs,
           NEW h, h = Dispatcher!dispatch_interrupt(machine, irq)
    PROVE  /\ DOMAIN h = MachineFields
           /\ h.console = IF Prints(irq) THEN puts(Con, Timer!Message) ELSE Con
           /\ h.timer = IF irq = 0 THEN Timer!Tick(Clock) ELSE Clock
           /\ h.keyboard = IF irq = 1 /\ machine.controller # <<>>
                           THEN Keyboard!Key(Keys, machine.controller[1]) ELSE Keys
           /\ h.controller = IF irq = 1 THEN <<>> ELSE machine.controller
           /\ h.pressed = machine.pressed /\ h.handlers = machine.handlers
           /\ h.pic = Dispatcher!EndOfInterrupt(machine.pic, irq)
<1>. DEFINE d == Dispatcher!Handled(machine, irq)
<1>1. h = [d EXCEPT !.pic = Dispatcher!EndOfInterrupt(@, irq)]
  BY DEF Dispatcher!dispatch_interrupt, Dispatcher!assert, Dispatcher!Lines, Dispatcher!IRQ_TABLE_SIZE, Devs
<1>2. d = handle_interrupt(machine, Handlers[irq])
  BY DEF Dispatcher!Handled, Handlers, Dispatcher!NoHandlers, Dispatcher!NULL, MachineOK, Devs,
         Dispatcher!Lines, Dispatcher!IRQ_TABLE_SIZE
<1>3. CASE irq = 0
  <2>1. d = Timer!TimerInterrupt(machine)
    BY <1>2, <1>3 DEF handle_interrupt, Handlers, Dispatcher!NoHandlers, Dispatcher!Lines, Dispatcher!IRQ_TABLE_SIZE
  <2>2. Prints(irq) <=> Timer!SecondIsOver(machine.timer)
    BY <1>3 DEF Prints
  <2>3. /\ DOMAIN d = MachineFields
        /\ d.console = IF Prints(irq) THEN puts(Con, Timer!Message) ELSE Con
        /\ d.timer = Timer!Tick(Clock)
        /\ d.keyboard = Keys /\ d.controller = machine.controller
        /\ d.pressed = machine.pressed /\ d.handlers = machine.handlers /\ d.pic = machine.pic
    BY <2>1, <2>2 DEF Timer!TimerInterrupt, Say, MachineOK, MachineFields, Con, Clock, Keys
  <2>. HIDE DEF d
  <2>. QED
    BY <1>1, <1>3, <2>3 DEF MachineFields
<1>4. CASE irq = 1
  <2>1. d = Keyboard!KeyInterrupt(machine)
    BY <1>2, <1>4 DEF handle_interrupt, Handlers, Dispatcher!NoHandlers, Dispatcher!Lines, Dispatcher!IRQ_TABLE_SIZE
  <2>2. ~Prints(irq)
    BY <1>4 DEF Prints
  <2>3. /\ DOMAIN d = MachineFields
        /\ d.console = Con /\ d.timer = Clock
        /\ d.keyboard = IF machine.controller # <<>>
                        THEN Keyboard!Key(Keys, machine.controller[1]) ELSE Keys
        /\ d.controller = <<>>
        /\ d.pressed = machine.pressed /\ d.handlers = machine.handlers /\ d.pic = machine.pic
    BY <2>1 DEF Keyboard!KeyInterrupt, MachineOK, MachineFields, Con, Clock, Keys
  <2>. HIDE DEF d
  <2>. QED
    BY <1>1, <1>4, <2>2, <2>3 DEF MachineFields
<1>5. CASE irq = 14
  <2>1. d = machine
    BY <1>2, <1>5 DEF handle_interrupt, Handlers, Dispatcher!NoHandlers, Dispatcher!Lines, Dispatcher!IRQ_TABLE_SIZE
  <2>2. ~Prints(irq)
    BY <1>5 DEF Prints
  <2>. HIDE DEF d
  <2>. QED
    BY <1>1, <1>5, <2>1, <2>2 DEF MachineFields, MachineOK, Con, Clock, Keys
<1>. QED
  BY <1>3, <1>4, <1>5 DEF Devs

-----------------------------------------------------------------------------
(***************************************************************************)
(* DriversInv is inductive.  A step of putch changes the console alone.    *)
(***************************************************************************)
SameDrivers ==
    /\ DOMAIN machine' = MachineFields
    /\ machine'.timer = machine.timer /\ machine'.keyboard = machine.keyboard
    /\ machine'.controller = machine.controller /\ machine'.pressed = machine.pressed
    /\ machine'.handlers = machine.handlers /\ machine'.pic = machine.pic
    /\ machine'.interrupts_enabled = machine.interrupts_enabled

LEMMA WithConsoleLemma ==
    ASSUME MachineOK, \/ machine' = machine
                      \/ \E c : machine' = WithConsole(c)
    PROVE  SameDrivers
BY DEF SameDrivers, MachineOK, MachineFields, WithConsole

LEMMA RegistersLemma == Registers \in RegisterType
BY DevicesAssumption DEF Registers, RegisterType

LEMMA InitDrivers == Init => DriversInv
<1>. SUFFICES ASSUME Init PROVE DriversInv
  OBVIOUS
<1>1. MachineOK
  <2>1. /\ DOMAIN machine = MachineFields
        /\ machine.timer = Timer!SimpleTimer /\ machine.keyboard = Keyboard!SimpleKeyboard
        /\ machine.controller = <<>> /\ machine.pressed = 0 /\ machine.handlers = Handlers
        /\ machine.pic = Dispatcher!irq_remap(Dispatcher!BIOSVectors)
    BY DEF Init, MachineFields
  <2>2. /\ DOMAIN machine.pic = PicFields /\ machine.pic.requested = {}
    BY <2>1 DEF Dispatcher!irq_remap, Dispatcher!BIOSVectors, PicFields
  <2>3. Timer!SimpleTimer \in [seconds : 0 .. Seconds - 1, ticks : 0 .. Hz - 1]
    BY DevicesAssumption DEF Timer!SimpleTimer
  <2>4. /\ Keyboard!SimpleKeyboard \in [key_pressed : BOOLEAN, key_code : 0 .. MaxKeys]
        /\ 0 \in 0 .. MaxKeys
    BY DevicesAssumption DEF Keyboard!SimpleKeyboard, Keyboard!NoKey
  <2>. QED
    BY <2>1, <2>2, <2>3, <2>4 DEF MachineOK
<1>2. InServiceOK
  <2>1. machine.pic = Dispatcher!irq_remap(Dispatcher!BIOSVectors) /\ machine.interrupts_enabled = TRUE
    BY DEF Init
  <2>2. machine.pic.master = {} /\ machine.pic.slave = {}
    BY <2>1 DEF Dispatcher!irq_remap, Dispatcher!BIOSVectors
  <2>. QED
    BY <2>1, <2>2 DEF Init, InServiceOK, NoIrq
<1>3. MainOK
  <2>1. task \in Tasks /\ at = "idle" /\ local = Registers /\ raced = FALSE /\ elapsed = 0
    BY DEF Init
  <2>2. 0 \in 0 .. MaxElapsed
    BY DevicesAssumption
  <2>. QED
    BY <2>1, <2>2, RegistersLemma DEF MainOK, Labels, PrintLabels, ClockLabels, KeyLabels
<1>. QED
  BY <1>1, <1>2, <1>3 DEF DriversInv

\* The cursor is made of integers.
CursorType == Con.x \in Int /\ Con.y \in Int

(***************************************************************************)
(* The steps of the three tasks, as the drivers see them.                  *)
(***************************************************************************)
Stays == /\ UNCHANGED <<task, irq, raced, elapsed>>
         /\ irq = NoIrq /\ local' \in RegisterType

LEMMA PutchDrivers ==
    ASSUME DriversInv, CursorType, Putch
    PROVE  /\ Stays /\ SameDrivers
           /\ task = "print" /\ at' \in PrintLabels \cup {"idle"}
<1>1. /\ MachineOK /\ local \in RegisterType /\ Registers \in RegisterType
      /\ at \in PrintLabels => task = "print"
      /\ Where(Con) \in Int /\ Excess(Con) \in Int /\ AtEdge(Con) \in BOOLEAN
      /\ Con.x \in Int /\ Con.y \in Int
  BY RegistersLemma, ConsoleAssumption DEF DriversInv, MainOK, CursorType, Where, Excess, AtEdge
<1>2. CASE BeginPutch
  <2>1. PICK ch \in Characters : local' = [local EXCEPT !.ch = ch]
    BY <1>2 DEF BeginPutch
  <2>2. local' \in RegisterType
    BY <1>1, <2>1 DEF RegisterType
  <2>3. at' \in PrintLabels
    BY <1>2 DEF BeginPutch, PrintLabels
  <2>4. SameDrivers
    BY <1>1, <1>2, WithConsoleLemma DEF BeginPutch
  <2>. QED
    BY <1>2, <2>2, <2>3, <2>4 DEF BeginPutch, Stays, Runs
<1>3. CASE AddressRow \/ AddressColumn
  <2>1. local' \in RegisterType
    <3>1. CASE AddressRow
      BY <1>1, <3>1 DEF AddressRow, Goto, RegisterType
    <3>2. CASE AddressColumn
      <4>1. Where([Con EXCEPT !.y = local.reg]) \in Int
        BY <1>1, ConsoleAssumption DEF Where, RegisterType, CursorType
      <4>. QED
        BY <1>1, <3>2, <4>1 DEF AddressColumn, Goto, RegisterType
    <3>. QED
      BY <1>3, <3>1, <3>2
  <2>2. SameDrivers
    BY <1>1, <1>3, WithConsoleLemma DEF AddressRow, AddressColumn, Goto, SetX, SetY
  <2>. QED
    BY <1>1, <1>3, <2>1, <2>2 DEF AddressRow, AddressColumn, Goto, Stays, Runs, PrintLabels
<1>4. CASE Store
  <2>1. local' \in RegisterType
    BY <1>1, <1>4 DEF Store, Goto, RegisterType
  <2>2. SameDrivers
    BY <1>1, <1>4, WithConsoleLemma DEF Store, Goto, SetX, SetY
  <2>. QED
    BY <1>1, <1>4, <2>1, <2>2 DEF Store, Goto, Stays, Runs, PrintLabels
<1>5. CASE Margin
  <2>1. local' \in RegisterType
    BY <1>1, <1>5 DEF Margin, Goto, RegisterType
  <2>2. SameDrivers
    BY <1>1, <1>5, WithConsoleLemma DEF Margin, Goto, SetX, SetY
  <2>. QED
    BY <1>1, <1>5, <2>1, <2>2 DEF Margin, Goto, Stays, Runs, PrintLabels
<1>6. CASE LoadX
  <2>1. local' \in RegisterType
    BY <1>1, <1>6 DEF LoadX, Goto, RegisterType
  <2>2. SameDrivers
    BY <1>1, <1>6, WithConsoleLemma DEF LoadX, Goto, SetX, SetY
  <2>. QED
    BY <1>1, <1>6, <2>1, <2>2 DEF LoadX, Goto, Stays, Runs, PrintLabels
<1>7. CASE StoreX
  <2>1. local' \in RegisterType
    BY <1>1, <1>7 DEF StoreX, Goto, RegisterType
  <2>2. SameDrivers
    BY <1>1, <1>7, WithConsoleLemma DEF StoreX, Goto, SetX, SetY
  <2>. QED
    BY <1>1, <1>7, <2>1, <2>2 DEF StoreX, Goto, Stays, Runs, PrintLabels
<1>8. CASE ClearX
  <2>1. local' \in RegisterType
    BY <1>1, <1>8 DEF ClearX, Goto, RegisterType
  <2>2. SameDrivers
    BY <1>1, <1>8, WithConsoleLemma DEF ClearX, Goto, SetX, SetY
  <2>. QED
    BY <1>1, <1>8, <2>1, <2>2 DEF ClearX, Goto, Stays, Runs, PrintLabels
<1>9. CASE LoadY
  <2>1. local' \in RegisterType
    BY <1>1, <1>9 DEF LoadY, Goto, RegisterType
  <2>2. SameDrivers
    BY <1>1, <1>9, WithConsoleLemma DEF LoadY, Goto, SetX, SetY
  <2>. QED
    BY <1>1, <1>9, <2>1, <2>2 DEF LoadY, Goto, Stays, Runs, PrintLabels
<1>10. CASE StoreY
  <2>1. local' \in RegisterType
    BY <1>1, <1>10 DEF StoreY, Goto, RegisterType
  <2>2. SameDrivers
    BY <1>1, <1>10, WithConsoleLemma DEF StoreY, Goto, SetX, SetY
  <2>. QED
    BY <1>1, <1>10, <2>1, <2>2 DEF StoreY, Goto, Stays, Runs, PrintLabels
<1>11. CASE Echo
  <2>1. local' \in RegisterType
    BY <1>1, <1>11 DEF Echo, Goto, RegisterType
  <2>2. SameDrivers
    BY <1>1, <1>11, WithConsoleLemma DEF Echo, Goto, SetX, SetY
  <2>. QED
    BY <1>1, <1>11, <2>1, <2>2 DEF Echo, Goto, Stays, Runs, PrintLabels
<1>12. CASE Edge
  <2>1. local' \in RegisterType
    BY <1>1, <1>12 DEF Edge, Goto, RegisterType
  <2>2. SameDrivers
    BY <1>1, <1>12, WithConsoleLemma DEF Edge, Goto, SetX, SetY
  <2>. QED
    BY <1>1, <1>12, <2>1, <2>2 DEF Edge, Goto, Stays, Runs, PrintLabels
<1>13. CASE Below
  <2>1. local' \in RegisterType
    BY <1>1, <1>13 DEF Below, Goto, RegisterType
  <2>2. SameDrivers
    BY <1>1, <1>13, WithConsoleLemma DEF Below, Goto, SetX, SetY
  <2>. QED
    BY <1>1, <1>13, <2>1, <2>2 DEF Below, Goto, Stays, Runs, PrintLabels
<1>14. CASE LoadExcess
  <2>1. local' \in RegisterType
    <3>1. local' = [[local EXCEPT !.reg = Excess(Con)] EXCEPT !.index = 0]
      BY <1>1, <1>14 DEF LoadExcess, Goto
    <3>2. [local EXCEPT !.reg = Excess(Con)] \in RegisterType
      BY <1>1 DEF RegisterType
    <3>3. ASSUME NEW r \in RegisterType PROVE [r EXCEPT !.index = 0] \in RegisterType
      BY DEF RegisterType
    <3>. QED
      BY <3>1, <3>2, <3>3, Zenon
  <2>2. SameDrivers
    BY <1>1, <1>14, WithConsoleLemma DEF LoadExcess, Goto, SetX, SetY
  <2>. QED
    BY <1>1, <1>14, <2>1, <2>2 DEF LoadExcess, Goto, Stays, Runs, PrintLabels
<1>15. CASE ScrollCell
  <2>1. local' \in RegisterType
    BY <1>1, <1>15 DEF ScrollCell, Goto, RegisterType
  <2>2. SameDrivers
    BY <1>1, <1>15, WithConsoleLemma DEF ScrollCell, Goto, SetX, SetY
  <2>. QED
    BY <1>1, <1>15, <2>1, <2>2 DEF ScrollCell, Goto, Stays, Runs, PrintLabels
<1>16. CASE LastRow
  <2>1. local' \in RegisterType
    BY <1>1, <1>16 DEF LastRow, Goto, RegisterType
  <2>2. SameDrivers
    BY <1>1, <1>16, WithConsoleLemma DEF LastRow, Goto, SetX, SetY
  <2>. QED
    BY <1>1, <1>16, <2>1, <2>2 DEF LastRow, Goto, Stays, Runs, PrintLabels
<1>17. CASE MoveCursor
  <2>1. local' \in RegisterType
    BY <1>1, <1>17 DEF MoveCursor, Goto, RegisterType
  <2>2. SameDrivers
    BY <1>1, <1>17, WithConsoleLemma DEF MoveCursor, Goto, SetX, SetY
  <2>. QED
    BY <1>1, <1>17, <2>1, <2>2 DEF MoveCursor, Goto, Stays, Runs, PrintLabels
<1>. QED
  BY <1>2, <1>3, <1>4, <1>5, <1>6, <1>7, <1>8, <1>9, <1>10, <1>11, <1>12, <1>13, <1>14, <1>15, <1>16, <1>17 DEF Putch

LEMMA ClockDrivers ==
    ASSUME DriversInv, ReadClock
    PROVE  /\ UNCHANGED <<task, irq, machine, printed, raced>> /\ irq = NoIrq
           /\ task = "clock" /\ {at, at'} \subseteq ClockLabels \cup {"idle"}
           /\ local' \in RegisterType /\ elapsed' \in {elapsed, 0}
<1>1. /\ local \in RegisterType /\ Registers \in RegisterType
      /\ at \in ClockLabels => task = "clock"
      /\ Clock.seconds \in 0 .. Seconds - 1 /\ Clock.ticks \in 0 .. Hz - 1
  BY RegistersLemma DEF DriversInv, MachineOK, MainOK, Clock
<1>2. CASE BeginCurrent
  BY <1>1, <1>2 DEF BeginCurrent, Runs, ClockLabels
<1>3. CASE ReadSeconds
  <2>1. local' \in RegisterType
    BY <1>1, <1>3 DEF ReadSeconds, Goto, RegisterType
  <2>. QED
    BY <1>1, <1>3, <2>1 DEF ReadSeconds, Goto, Runs, ClockLabels
<1>4. CASE ReadTicks
  <2>1. local' \in RegisterType
    BY <1>1, <1>4 DEF ReadTicks, Goto, RegisterType
  <2>. QED
    BY <1>1, <1>4, <2>1 DEF ReadTicks, Goto, Runs, ClockLabels
<1>5. CASE EndCurrent
  BY <1>1, <1>5 DEF EndCurrent, Goto, Runs, ClockLabels
<1>6. CASE BeginWait
  <2>1. PICK n \in 0 .. MaxWait :
            Goto("time-then", "while", machine, [local EXCEPT !.then = (local.seconds + n) % Seconds])
    BY <1>6 DEF BeginWait
  <2>2. (local.seconds + n) % Seconds \in 0 .. Seconds - 1
    BY <1>1, DevicesAssumption DEF RegisterType
  <2>3. local' \in RegisterType
    BY <1>1, <2>1, <2>2 DEF Goto, RegisterType
  <2>. QED
    BY <1>1, <2>1, <2>3 DEF Goto, Runs, ClockLabels
<1>7. CASE Wait
  BY <1>1, <1>7 DEF Wait, Goto, Runs, ClockLabels
<1>8. CASE EndWait
  BY <1>1, <1>8 DEF EndWait, Goto, Runs, ClockLabels
<1>. QED
  BY <1>2, <1>3, <1>4, <1>5, <1>6, <1>7, <1>8 DEF ReadClock

LEMMA KeysDrivers ==
    ASSUME DriversInv, ReadKey
    PROVE  /\ Stays /\ UNCHANGED printed
           /\ task = "keys" /\ {at, at'} \subseteq KeyLabels \cup {"idle"}
           /\ \/ machine' = machine
              \/ machine' = [machine EXCEPT !.keyboard.key_pressed = FALSE]
<1>1. /\ local \in RegisterType /\ Registers \in RegisterType
      /\ at \in KeyLabels => task = "keys"
      /\ Keys.key_code \in 0 .. MaxKeys
  BY RegistersLemma DEF DriversInv, MachineOK, MainOK, Keys
<1>2. CASE BeginRead
  <2>1. KeysTaken \in Int
    BY DEF DriversInv, MachineOK, KeysTaken
  <2>2. local' \in RegisterType
    BY <1>1, <1>2, <2>1 DEF BeginRead, Goto, RegisterType
  <2>. QED
    BY <1>1, <1>2, <2>2 DEF BeginRead, Goto, Runs, KeyLabels, Stays
<1>3. CASE ClearFlag
  BY <1>1, <1>3 DEF ClearFlag, Goto, Runs, KeyLabels, Stays
<1>4. CASE Spin
  BY <1>1, <1>4 DEF Spin, Goto, Runs, KeyLabels, Stays
<1>5. CASE Fetch
  <2>1. local' \in RegisterType
    BY <1>1, <1>5 DEF Fetch, Goto, RegisterType
  <2>. QED
    BY <1>1, <1>5, <2>1 DEF Fetch, Goto, Runs, KeyLabels, Stays
<1>6. CASE EndRead
  BY <1>1, <1>6 DEF EndRead, Goto, Runs, KeyLabels, Stays
<1>. QED
  BY <1>2, <1>3, <1>4, <1>5, <1>6 DEF ReadKey

LEMMA NextDrivers == DriversInv /\ CursorType /\ [Next]_vars => DriversInv'
<1>. SUFFICES ASSUME DriversInv, CursorType, [Next]_vars PROVE DriversInv'
  OBVIOUS
<1>. USE DEF DriversInv
<1>1. ASSUME SameDrivers, irq' = irq PROVE MachineOK' /\ InServiceOK'
  BY <1>1 DEF SameDrivers, MachineOK, InServiceOK
<1>2. ASSUME local' \in RegisterType, task' = task, at' \in Labels, raced' \in BOOLEAN,
             elapsed' \in 0 .. MaxElapsed,
             /\ at' \in PrintLabels => task = "print"
             /\ at' \in ClockLabels => task = "clock"
             /\ at' \in KeyLabels => task = "keys"
      PROVE  MainOK'
  BY <1>2 DEF MainOK
<1>3. ASSUME UNCHANGED <<task, at, local, raced, elapsed>> PROVE MainOK'
  BY <1>3 DEF MainOK
<1>4. ASSUME NEW n \in Devs, machine' = [machine EXCEPT !.pic = Dispatcher!Requested(@, n)], irq' = irq
      PROVE  MachineOK' /\ InServiceOK'
  BY <1>4 DEF MachineOK, MachineFields, PicFields, InServiceOK, Dispatcher!Requested
<1>5. CASE DeviceTick
  BY <1>3, <1>4, <1>5 DEF DeviceTick, Devs
<1>6. CASE DeviceKey
  <2>1. PICK code \in {Keyboard!NoKey, machine.pressed + 1} :
            machine' = [machine EXCEPT !.controller = <<code>>, !.pressed = @ + 1,
                                       !.pic = Dispatcher!Requested(@, 1)]
    BY <1>6 DEF DeviceKey
  <2>2. machine.pressed < MaxKeys /\ irq' = irq /\ UNCHANGED <<task, at, local, raced, elapsed>>
    BY <1>6 DEF DeviceKey
  <2>3. code \in 0 .. MaxKeys /\ machine.pressed + 1 \in 0 .. MaxKeys
    BY <2>2, DevicesAssumption DEF MachineOK, Keyboard!NoKey
  <2>4. /\ DOMAIN machine' = MachineFields
        /\ machine'.pic = Dispatcher!Requested(machine.pic, 1)
        /\ machine'.controller = <<code>> /\ machine'.pressed = machine.pressed + 1
        /\ machine'.timer = machine.timer /\ machine'.keyboard = machine.keyboard
        /\ machine'.handlers = machine.handlers
        /\ machine'.interrupts_enabled = machine.interrupts_enabled
    BY <2>1 DEF MachineOK, MachineFields
  <2>5. /\ DOMAIN machine'.pic = PicFields /\ machine'.pic.requested \subseteq Devs
        /\ machine'.pic.master = machine.pic.master /\ machine'.pic.slave = machine.pic.slave
    BY <2>4 DEF Dispatcher!Requested, MachineOK, PicFields, Devs
  <2>6. MachineOK'
    BY <2>3, <2>4, <2>5 DEF MachineOK
  <2>7. InServiceOK'
    BY <2>2, <2>4, <2>5 DEF InServiceOK
  <2>. QED
    BY <1>3, <2>2, <2>6, <2>7
<1>7. CASE DeviceDisk
  BY <1>3, <1>4, <1>7 DEF DeviceDisk, Devs
<1>8. CASE Interrupt
  <2>1. PICK n \in Dispatcher!Lines :
            /\ Dispatcher!Grants(machine.pic, n) /\ irq' = n
            /\ machine' = [machine EXCEPT !.pic = Dispatcher!InService(@, n),
                                          !.interrupts_enabled = FALSE]
    BY <1>8 DEF Interrupt
  <2>2. n \in Devs /\ irq = NoIrq /\ machine.pic.master = {} /\ machine.pic.slave = {}
    BY <1>8, <2>1 DEF Interrupt, Dispatcher!Grants, MachineOK, InServiceOK, NoIrq, Devs
  <2>3. /\ DOMAIN machine' = MachineFields
        /\ machine'.pic = Dispatcher!InService(machine.pic, n)
        /\ machine'.interrupts_enabled = FALSE
        /\ machine'.controller = machine.controller /\ machine'.pressed = machine.pressed
        /\ machine'.timer = machine.timer /\ machine'.keyboard = machine.keyboard
        /\ machine'.handlers = machine.handlers
    BY <2>1 DEF MachineOK, MachineFields
  <2>4. /\ DOMAIN machine'.pic = PicFields /\ machine'.pic.requested \subseteq Devs
        /\ machine'.pic.master = {Dispatcher!Input(n)}
        /\ machine'.pic.slave = IF n = 14 THEN {n} ELSE {}
    BY <2>2, <2>3 DEF Dispatcher!InService, Dispatcher!generated_by_slave_PIC, MachineOK, PicFields, Devs
  <2>5. MachineOK'
    BY <2>3, <2>4 DEF MachineOK
  <2>6. InServiceOK'
    BY <2>1, <2>2, <2>3, <2>4 DEF InServiceOK, NoIrq, Devs
  <2>. QED
    BY <1>3, <1>8, <2>5, <2>6 DEF Interrupt
<1>9. CASE Handle
  <2>. DEFINE h == Dispatcher!dispatch_interrupt(machine, irq)
  <2>1. irq \in Devs /\ irq' = NoIrq /\ machine' = [h EXCEPT !.interrupts_enabled = TRUE]
    BY <1>9 DEF Handle, InServiceOK
  <2>2. /\ DOMAIN h = MachineFields
        /\ h.timer = IF irq = 0 THEN Timer!Tick(Clock) ELSE Clock
        /\ h.keyboard = IF irq = 1 /\ machine.controller # <<>>
                        THEN Keyboard!Key(Keys, machine.controller[1]) ELSE Keys
        /\ h.controller = IF irq = 1 THEN <<>> ELSE machine.controller
        /\ h.pressed = machine.pressed /\ h.handlers = machine.handlers
        /\ h.pic = Dispatcher!EndOfInterrupt(machine.pic, irq)
    BY <2>1, DispatchLemma
  <2>. HIDE DEF h
  <2>3. h.timer \in [seconds : 0 .. Seconds - 1, ticks : 0 .. Hz - 1]
    <3>1. Clock \in [seconds : 0 .. Seconds - 1, ticks : 0 .. Hz - 1]
      BY DEF MachineOK, Clock
    <3>2. (Clock.seconds + 1) % Seconds \in 0 .. Seconds - 1
      BY <3>1, DevicesAssumption
    <3>3. Timer!Tick(Clock) \in [seconds : 0 .. Seconds - 1, ticks : 0 .. Hz - 1]
      BY <3>1, <3>2, DevicesAssumption DEF Timer!Tick, Timer!SecondIsOver
    <3>. QED
      BY <2>2, <3>1, <3>3
  <2>4. h.keyboard \in [key_pressed : BOOLEAN, key_code : 0 .. MaxKeys]
    <3>1. Keys \in [key_pressed : BOOLEAN, key_code : 0 .. MaxKeys]
      BY DEF MachineOK, Keys
    <3>2. machine.controller # <<>> => machine.controller[1] \in 0 .. MaxKeys
      BY DEF MachineOK
    <3>. QED
      BY <2>2, <3>1, <3>2 DEF Keyboard!Key
  <2>5. /\ DOMAIN h.pic = PicFields /\ h.pic.requested = machine.pic.requested
        /\ h.pic.master = {} /\ h.pic.slave = {}
    <3>1. Dispatcher!Input(irq) \in Int /\ irq \in Int
      BY <2>1 DEF Dispatcher!Input, Devs
    <3>2. /\ machine.pic.master = {Dispatcher!Input(irq)}
          /\ machine.pic.slave = IF irq = 14 THEN {irq} ELSE {}
          /\ Dispatcher!generated_by_slave_PIC(irq) <=> irq = 14
      BY <2>1, <1>9 DEF InServiceOK, Handle, Dispatcher!generated_by_slave_PIC, Devs
    <3>3. Dispatcher!Ended(machine.pic.master) = {} /\ Dispatcher!Ended({irq}) = {}
      BY <3>1, <3>2, EndedLemma
    <3>. QED
      BY <2>2, <3>2, <3>3 DEF Dispatcher!EndOfInterrupt, MachineOK, PicFields
  <2>6. /\ DOMAIN machine' = MachineFields /\ machine'.interrupts_enabled = TRUE
        /\ machine'.timer = h.timer /\ machine'.keyboard = h.keyboard
        /\ machine'.controller = h.controller /\ machine'.pressed = h.pressed
        /\ machine'.handlers = h.handlers /\ machine'.pic = h.pic
    BY <2>1, <2>2 DEF MachineFields
  <2>7. MachineOK'
    BY <2>2, <2>3, <2>4, <2>5, <2>6 DEF MachineOK
  <2>8. InServiceOK'
    BY <2>1, <2>5, <2>6 DEF InServiceOK, NoIrq
  <2>9. MainOK'
    BY <1>9, DevicesAssumption DEF Handle, MainOK
  <2>. QED
    BY <2>7, <2>8, <2>9
<1>10. CASE Putch
  <2>1. /\ Stays /\ SameDrivers /\ task = "print" /\ at' \in PrintLabels \cup {"idle"}
    BY <1>10, PutchDrivers
  <2>2. at' \in Labels /\ at' \notin ClockLabels /\ at' \notin KeyLabels
    BY <2>1 DEF Labels, PrintLabels, ClockLabels, KeyLabels
  <2>. QED
    BY <1>1, <1>2, <2>1, <2>2 DEF Stays, MainOK
<1>11. CASE ReadClock
  <2>1. /\ UNCHANGED <<task, irq, machine, printed, raced>> /\ irq = NoIrq
        /\ task = "clock" /\ at' \in ClockLabels \cup {"idle"}
        /\ local' \in RegisterType /\ elapsed' \in {elapsed, 0}
    BY <1>11, ClockDrivers
  <2>2. at' \in Labels /\ at' \notin PrintLabels /\ at' \notin KeyLabels
    BY <2>1 DEF Labels, PrintLabels, ClockLabels, KeyLabels
  <2>3. SameDrivers
    BY <2>1, WithConsoleLemma
  <2>4. elapsed' \in 0 .. MaxElapsed
    BY <2>1, DevicesAssumption DEF MainOK
  <2>. QED
    BY <1>1, <1>2, <2>1, <2>2, <2>3, <2>4 DEF MainOK
<1>12. CASE ReadKey
  <2>1. /\ Stays /\ task = "keys" /\ at' \in KeyLabels \cup {"idle"}
        /\ \/ machine' = machine
           \/ machine' = [machine EXCEPT !.keyboard.key_pressed = FALSE]
    BY <1>12, KeysDrivers
  <2>2. at' \in Labels /\ at' \notin PrintLabels /\ at' \notin ClockLabels
    BY <2>1 DEF Labels, PrintLabels, ClockLabels, KeyLabels
  <2>3. MachineOK' /\ InServiceOK'
    <3>1. /\ DOMAIN machine' = MachineFields
          /\ machine'.timer = machine.timer
          /\ machine'.controller = machine.controller /\ machine'.pressed = machine.pressed
          /\ machine'.handlers = machine.handlers /\ machine'.pic = machine.pic
          /\ machine'.interrupts_enabled = machine.interrupts_enabled
          /\ \/ machine'.keyboard = Keys
             \/ machine'.keyboard = [Keys EXCEPT !.key_pressed = FALSE]
      BY <2>1 DEF MachineOK, MachineFields, Keys
    <3>2. Keys \in [key_pressed : BOOLEAN, key_code : 0 .. MaxKeys]
      BY DEF MachineOK, Keys
    <3>3. [Keys EXCEPT !.key_pressed = FALSE] \in [key_pressed : BOOLEAN, key_code : 0 .. MaxKeys]
      BY <3>2
    <3>4. machine'.keyboard \in [key_pressed : BOOLEAN, key_code : 0 .. MaxKeys]
      BY <3>1, <3>2, <3>3
    <3>. QED
      BY <2>1, <3>1, <3>4 DEF MachineOK, InServiceOK, Stays
  <2>. QED
    BY <1>2, <2>1, <2>2, <2>3 DEF Stays, MainOK
<1>13. CASE UNCHANGED vars
  BY <1>13 DEF vars, MachineOK, InServiceOK, MainOK
<1>. QED
  BY <1>5, <1>6, <1>7, <1>8, <1>9, <1>10, <1>11, <1>12, <1>13 DEF Next, MainStep

-----------------------------------------------------------------------------
(***************************************************************************)
(* The clock.  Time wraps with the counter of seconds, so differences of   *)
(* times are taken modulo Period.                                          *)
(***************************************************************************)
Period == Seconds * Hz
ClockType == [seconds : 0 .. Seconds - 1, ticks : 0 .. Hz - 1]

LEMMA PeriodLemma == Period \in Nat \ {0}
<1>1. \A a, b \in Nat \ {0} : a * b \in Nat \ {0}
  OBVIOUS
<1>. QED
  BY <1>1, DevicesAssumption DEF Period

LEMMA TickLemma ==
    ASSUME NEW t \in ClockType
    PROVE  Time(Timer!Tick(t)) \in {Time(t) + 1, Time(t) + 1 - Period} /\ Time(t) \in Int
<1>1. /\ Hz \in Nat \ {0} /\ Seconds \in Nat \ {0}
      /\ t.seconds \in 0 .. Seconds - 1 /\ t.ticks \in 0 .. Hz - 1
  BY DevicesAssumption DEF ClockType
<1>. DEFINE s == t.seconds
<1>2. (s + 1) * Hz = s * Hz + Hz /\ s * Hz \in Int
  BY <1>1
<1>3. Time(t) \in Int
  BY <1>1, <1>2 DEF Time
<1>4. CASE ~Timer!SecondIsOver(t)
  BY <1>1, <1>2, <1>4 DEF Time, Timer!Tick, Timer!SecondIsOver, ClockType
<1>5. CASE Timer!SecondIsOver(t)
  <2>1. t.ticks = Hz - 1
    BY <1>1, <1>5 DEF Timer!SecondIsOver
  <2>2. Timer!Tick(t) = [seconds |-> (s + 1) % Seconds, ticks |-> 0]
    BY <1>5 DEF Timer!Tick
  <2>3. Time(Timer!Tick(t)) = ((s + 1) % Seconds) * Hz + 0
    BY <2>2 DEF Time
  <2>4. CASE s + 1 < Seconds
    <3>1. (s + 1) % Seconds = s + 1
      BY <1>1, <2>4, ModSmall
    <3>. QED
      BY <1>1, <1>2, <2>1, <2>3, <3>1 DEF Time
  <2>5. CASE s + 1 = Seconds
    <3>1. (s + 1) % Seconds = 0
      BY <1>1, <2>5
    <3>2. Time(Timer!Tick(t)) = 0
      BY <1>1, <2>3, <3>1
    <3>3. Period = s * Hz + Hz
      BY <1>2, <2>5 DEF Period
    <3>. QED
      BY <1>1, <1>2, <2>1, <3>2, <3>3 DEF Time
  <2>. QED
    BY <1>1, <2>4, <2>5
<1>. QED
  BY <1>3, <1>4, <1>5

\* One tick adds one at most to a distance.
LEMMA DistanceLemma ==
    ASSUME NEW v \in Int, NEW w \in {v + 1, v + 1 - Period}
    PROVE  w % Period <= (v % Period) + 1
<1>. DEFINE p == Period
<1>1. p \in Nat /\ p > 0
  BY PeriodLemma
<1>2. PICK q \in Int : v = (p * q) + (v % p) /\ v % p \in 0 .. p - 1
  BY <1>1, DivMod
<1>. DEFINE r == v % p
<1>3. /\ p * (q + 1) = (p * q) + p /\ p * (q - 1) = (p * q) - p /\ p * q \in Int
  BY <1>1
<1>4. r \in 0 .. p - 1 /\ v = (p * q) + r
  BY <1>2
<1>. HIDE DEF p, r
<1>5. \/ w = (p * q) + (r + 1)
      \/ w = (p * (q - 1)) + (r + 1)
      \/ w = (p * (q + 1)) + 0 /\ r + 1 = p
      \/ w = (p * q) + 0 /\ r + 1 = p
  BY <1>1, <1>3, <1>4 DEF p
<1>6. r + 1 \in 0 .. p - 1 \/ r + 1 = p
  BY <1>1, <1>4
<1>7. ASSUME NEW k \in Int, NEW x \in 0 .. p - 1, w = (p * k) + x PROVE w % p = x
  <2>1. w \in Int
    BY <1>1, <1>7
  <2>. QED
    BY <1>1, <1>7, <2>1, ModUnique
<1>. QED
  <2>1. w \in Int /\ 0 \in 0 .. p - 1 /\ q + 1 \in Int /\ q - 1 \in Int
    BY <1>1, <1>4, <1>5, <1>3
  <2>2. w % p \in {0, r + 1}
    <3>1. CASE r + 1 \in 0 .. p - 1
      BY <1>5, <1>7, <2>1, <3>1
    <3>2. CASE r + 1 = p
      <4>1. w = (p * q) + 0 \/ w = (p * (q + 1)) + 0
        BY <1>1, <1>3, <1>4, <1>5, <3>2
      <4>. QED
        BY <1>7, <2>1, <4>1
    <3>. QED
      BY <1>6, <3>1, <3>2
  <2>3. w % p <= r + 1
    BY <1>1, <1>4, <2>2
  <2>. QED
    BY <2>3 DEF p, r

\* Reading the ticks brings a time that was read only in seconds nearer.
LEMMA ReadLemma ==
    ASSUME NEW t \in ClockType, NEW s \in 0 .. Seconds - 1
    PROVE  (Time(t) - (s * Hz + t.ticks)) % Period <= (Time(t) - s * Hz) % Period
<1>1. /\ Hz \in Nat \ {0} /\ Seconds \in Nat \ {0}
      /\ t.seconds \in 0 .. Seconds - 1 /\ t.ticks \in 0 .. Hz - 1
      /\ Period \in Nat /\ Period > 0
  BY DevicesAssumption, PeriodLemma DEF ClockType
<1>. DEFINE n == t.ticks
            k == IF s <= t.seconds THEN t.seconds - s ELSE (t.seconds - s) + Seconds
            q == IF s <= t.seconds THEN 0 ELSE -1
<1>2. k \in 0 .. Seconds - 1 /\ t.seconds = s + k + Seconds * q /\ q \in Int
  BY <1>1
<1>3. t.seconds * Hz = s * Hz + k * Hz + Period * q
  <2>1. \A a, b, h \in Int : (a + b) * h = a * h + b * h /\ (a - b) * h = a * h - b * h
    OBVIOUS
  <2>2. CASE s <= t.seconds
    <3>1. k \in Int /\ q = 0 /\ t.seconds = s + k
      BY <1>1, <2>2
    <3>. HIDE DEF k, q
    <3>2. t.seconds * Hz = s * Hz + k * Hz
      BY <1>1, <2>1, <3>1
    <3>. QED
      BY <1>1, <3>1, <3>2
  <2>3. CASE s > t.seconds
    <3>1. k \in Int /\ q = -1 /\ t.seconds = (s + k) - Seconds
      BY <1>1, <2>3
    <3>. HIDE DEF k, q
    <3>2. t.seconds * Hz = (s + k) * Hz - Seconds * Hz
      BY <1>1, <2>1, <3>1
    <3>3. (s + k) * Hz = s * Hz + k * Hz
      BY <1>1, <2>1, <3>1
    <3>4. Period * q = -Period
      BY <1>1, <3>1
    <3>5. /\ t.seconds * Hz \in Int /\ (s + k) * Hz \in Int /\ s * Hz \in Int
          /\ k * Hz \in Int /\ Seconds * Hz = Period
      BY <1>1, <3>1 DEF Period
    <3>. QED
      BY <1>1, <3>2, <3>3, <3>4, <3>5
  <2>. QED
    BY <1>1, <2>2, <2>3
<1>4. k * Hz \in Nat /\ k * Hz + n \in 0 .. Period - 1
  <2>1. k * Hz <= (Seconds - 1) * Hz /\ (Seconds - 1) * Hz = Period - Hz /\ k * Hz \in Nat
    BY <1>1, <1>2 DEF Period
  <2>. QED
    BY <1>1, <2>1
<1>5. k * Hz \in 0 .. Period - 1
  BY <1>1, <1>4
<1>6. s * Hz \in Int /\ Period * q \in Int /\ t.seconds * Hz \in Int
  BY <1>1, <1>2
<1>. HIDE DEF k, q
<1>7. Time(t) - s * Hz = Period * q + (k * Hz + n)
  BY <1>1, <1>3, <1>4, <1>6 DEF Time
<1>8. Time(t) - (s * Hz + t.ticks) = Period * q + k * Hz
  BY <1>1, <1>3, <1>4, <1>6 DEF Time
<1>9. (Period * q + (k * Hz + n)) % Period = k * Hz + n
  BY <1>1, <1>2, <1>4, <1>6, ModUnique
<1>10. (Period * q + k * Hz) % Period = k * Hz
  BY <1>1, <1>2, <1>5, <1>6, ModUnique
<1>. QED
  BY <1>1, <1>4, <1>7, <1>8, <1>9, <1>10

(***************************************************************************)
(* Between its two reads current() knows the seconds alone; the ticks of   *)
(* the current second and those since the call began are all that the      *)
(* clock may be ahead of them.                                             *)
(***************************************************************************)
Near(time) == (Time(Clock) - time) % Period <= elapsed + Hz - 1

SecondsNear ==
    (at \in {"ticks", "wait-ticks"} /\ elapsed < MaxElapsed) => Near(local.seconds * Hz)

ClockInv == SecondsNear /\ TimeIsNear

\* The devices leave the clock and the main thread alone.
LEMMA DeviceLemma ==
    ASSUME DriversInv, DeviceTick \/ DeviceKey \/ DeviceDisk \/ Interrupt
    PROVE  /\ UNCHANGED <<task, at, local, printed, raced, elapsed>>
           /\ machine'.timer = Clock /\ machine'.keyboard = Keys /\ machine'.console = Con
<1>1. DOMAIN machine = MachineFields
  BY DEF DriversInv, MachineOK
<1>2. CASE DeviceTick
  BY <1>1, <1>2 DEF DeviceTick, Clock, Keys, Con, MachineFields
<1>3. CASE DeviceKey
  BY <1>1, <1>3 DEF DeviceKey, Clock, Keys, Con, MachineFields
<1>4. CASE DeviceDisk
  BY <1>1, <1>4 DEF DeviceDisk, Clock, Keys, Con, MachineFields
<1>5. CASE Interrupt
  BY <1>1, <1>5 DEF Interrupt, Clock, Keys, Con, MachineFields
<1>. QED
  BY <1>2, <1>3, <1>4, <1>5

LEMMA HandleLemma ==
    ASSUME DriversInv, Handle
    PROVE  /\ irq \in Devs /\ UNCHANGED <<task, at, local>>
           /\ machine'.timer = IF irq = 0 THEN Timer!Tick(Clock) ELSE Clock
           /\ machine'.keyboard = IF irq = 1 /\ machine.controller # <<>>
                                  THEN Keyboard!Key(Keys, machine.controller[1]) ELSE Keys
           /\ machine'.controller = IF irq = 1 THEN <<>> ELSE machine.controller
           /\ machine'.pressed = machine.pressed
           /\ machine'.console = IF Prints(irq) THEN puts(Con, Timer!Message) ELSE Con
<1>. DEFINE h == Dispatcher!dispatch_interrupt(machine, irq)
<1>1. /\ irq \in Devs /\ machine' = [h EXCEPT !.interrupts_enabled = TRUE] /\ MachineOK
      /\ UNCHANGED <<task, at, local>>
  BY DEF Handle, DriversInv, InServiceOK
<1>2. /\ DOMAIN h = MachineFields
      /\ h.console = IF Prints(irq) THEN puts(Con, Timer!Message) ELSE Con
      /\ h.timer = IF irq = 0 THEN Timer!Tick(Clock) ELSE Clock
      /\ h.keyboard = IF irq = 1 /\ machine.controller # <<>>
                      THEN Keyboard!Key(Keys, machine.controller[1]) ELSE Keys
      /\ h.controller = IF irq = 1 THEN <<>> ELSE machine.controller
      /\ h.pressed = machine.pressed
  BY <1>1, DispatchLemma
<1>. HIDE DEF h
<1>3. /\ machine'.timer = h.timer /\ machine'.keyboard = h.keyboard
      /\ machine'.controller = h.controller /\ machine'.pressed = h.pressed
      /\ machine'.console = h.console
  BY <1>1, <1>2 DEF MachineFields
<1>. QED
  BY <1>1, <1>2, <1>3

LEMMA InitClock == Init => ClockInv
BY DEF Init, ClockInv, SecondsNear, TimeIsNear

LEMMA NextClock == DriversInv /\ ClockInv /\ CursorType /\ [Next]_vars => ClockInv'
<1>. SUFFICES ASSUME DriversInv, ClockInv, CursorType, [Next]_vars PROVE ClockInv'
  OBVIOUS
<1>1. /\ Clock \in ClockType /\ local \in RegisterType /\ elapsed \in 0 .. MaxElapsed
      /\ at \in ClockLabels => task = "clock"
      /\ Hz \in Nat \ {0} /\ Seconds \in Nat \ {0} /\ MaxElapsed \in Nat
  BY DevicesAssumption DEF DriversInv, MachineOK, MainOK, Clock, ClockType
<1>2. ASSUME at' \notin {"ticks", "wait-ticks", "time", "time-then"} PROVE ClockInv'
  BY <1>2 DEF ClockInv, SecondsNear, TimeIsNear
<1>3. ASSUME UNCHANGED <<at, local, elapsed, Clock>> PROVE ClockInv'
  BY <1>3 DEF ClockInv, SecondsNear, TimeIsNear, Near, Time
<1>4. CASE DeviceTick \/ DeviceKey \/ DeviceDisk \/ Interrupt
  BY <1>3, <1>4, DeviceLemma DEF Clock
<1>5. CASE Handle
  <2>1. /\ UNCHANGED <<task, at, local>> /\ Clock' = IF irq = 0 THEN Timer!Tick(Clock) ELSE Clock
    BY <1>5, HandleLemma DEF Clock
  <2>2. elapsed' = IF task = "clock" /\ at # "idle" /\ elapsed < MaxElapsed THEN elapsed + 1 ELSE elapsed
    BY <1>5 DEF Handle
  <2>3. ASSUME at \in ClockLabels, elapsed' < MaxElapsed
        PROVE  elapsed < MaxElapsed /\ elapsed' = elapsed + 1
    BY <1>1, <2>2, <2>3 DEF ClockLabels
  <2>4. ASSUME NEW time \in Int, Near(time), elapsed' = elapsed + 1
        PROVE  (Time(Clock') - time) % Period <= elapsed' + Hz - 1
    <3>. DEFINE v == Time(Clock) - time
                w == Time(Clock') - time
    <3>1. Time(Clock) \in Int /\ Period \in Int
      BY <1>1, TickLemma, PeriodLemma
    <3>2. Clock' = Clock \/ Time(Clock') \in {Time(Clock) + 1, Time(Clock) + 1 - Period}
      BY <1>1, <2>1, TickLemma
    <3>3. w = v \/ w \in {v + 1, v + 1 - Period}
      BY <3>1, <3>2, <2>4
    <3>4. v \in Int /\ w \in Int /\ v % Period \in Int /\ w % Period \in Int
      BY <3>1, <3>3, <2>4, PeriodLemma
    <3>5. v % Period <= elapsed + Hz - 1
      BY <2>4 DEF Near
    <3>. HIDE DEF v, w
    <3>6. w % Period <= (v % Period) + 1
      BY <3>3, <3>4, DistanceLemma
    <3>7. w % Period <= elapsed' + Hz - 1
      BY <1>1, <2>4, <3>4, <3>5, <3>6
    <3>. QED
      BY <3>7 DEF w
  <2>5. local.seconds * Hz \in Int /\ Time(local) \in Int
    BY <1>1 DEF RegisterType, Time
  <2>6. SecondsNear'
    <3>. SUFFICES ASSUME at' \in {"ticks", "wait-ticks"}, elapsed' < MaxElapsed
                  PROVE  (Time(Clock') - local'.seconds * Hz) % Period <= elapsed' + Hz - 1
      BY DEF SecondsNear, Near, Time
    <3>1. elapsed < MaxElapsed /\ elapsed' = elapsed + 1
      BY <2>1, <2>3 DEF ClockLabels
    <3>2. Near(local.seconds * Hz)
      BY <2>1, <3>1 DEF ClockInv, SecondsNear
    <3>. QED
      BY <2>1, <2>4, <2>5, <3>1, <3>2
  <2>7. TimeIsNear'
    <3>. SUFFICES ASSUME at' \in {"time", "time-then"}, elapsed' < MaxElapsed
                  PROVE  (Time(Clock') - Time(local')) % Period <= elapsed' + Hz - 1
      BY DEF TimeIsNear, Period, Time
    <3>1. elapsed < MaxElapsed /\ elapsed' = elapsed + 1
      BY <2>1, <2>3 DEF ClockLabels
    <3>2. Near(Time(local))
      BY <2>1, <3>1 DEF ClockInv, TimeIsNear, Near, Period
    <3>. QED
      BY <2>1, <2>4, <2>5, <3>1, <3>2
  <2>. QED
    BY <2>6, <2>7 DEF ClockInv
<1>6. CASE Putch
  <2>1. at' \in PrintLabels \cup {"idle"}
    BY <1>6, PutchDrivers
  <2>. QED
    BY <1>2, <2>1 DEF PrintLabels
<1>7. CASE ReadClock
  <2>1. machine' = machine /\ Clock' = Clock
    BY <1>7, ClockDrivers DEF Clock
  <2>2. CASE BeginCurrent \/ EndCurrent \/ EndWait \/ Wait
    BY <1>2, <2>2 DEF BeginCurrent, EndCurrent, EndWait, Wait, Goto
  <2>3. CASE BeginWait
    BY <1>2, <2>3 DEF BeginWait, Goto
  <2>4. CASE ReadSeconds
    <3>1. /\ at' \in {"ticks", "wait-ticks"} /\ elapsed' = elapsed
          /\ local' = [local EXCEPT !.seconds = Clock.seconds]
      BY <2>4 DEF ReadSeconds, Goto
    <3>2. local'.seconds = Clock.seconds
      BY <1>1, <3>1 DEF RegisterType
    <3>3. TimeIsNear'
      BY <3>1 DEF TimeIsNear
    <3>4. (Time(Clock) - Clock.seconds * Hz) % Period <= elapsed + Hz - 1
      <4>. DEFINE a == Clock.seconds * Hz
                  n == Clock.ticks
      <4>1. a \in Int /\ n \in 0 .. Hz - 1 /\ Time(Clock) = a + n
        BY <1>1 DEF ClockType, Time
      <4>. HIDE DEF a
      <4>2. Time(Clock) - a = n /\ n \in Nat
        BY <1>1, <4>1
      <4>3. Hz <= Period
        <5>1. \A x, y \in Nat \ {0} : y <= x * y
          OBVIOUS
        <5>. QED
          BY <1>1, <5>1 DEF Period
      <4>4. n < Period
        BY <1>1, <4>1, <4>3, PeriodLemma
      <4>5. n % Period = n
        BY <4>2, <4>4, PeriodLemma, ModSmall
      <4>6. n <= elapsed + Hz - 1
        BY <1>1, <4>1
      <4>7. (Time(Clock) - a) % Period <= elapsed + Hz - 1
        BY <4>2, <4>5, <4>6
      <4>. QED
        BY <4>7 DEF a
    <3>5. SecondsNear'
      BY <2>1, <3>1, <3>2, <3>4 DEF SecondsNear, Near, Time
    <3>. QED
      BY <3>3, <3>5 DEF ClockInv
  <2>5. CASE ReadTicks
    <3>1. /\ at \in {"ticks", "wait-ticks"} /\ at' \in {"time", "time-then"} /\ elapsed' = elapsed
          /\ local' = [local EXCEPT !.ticks = Clock.ticks]
      BY <2>5 DEF ReadTicks, Goto
    <3>2. local'.seconds = local.seconds /\ local'.ticks = Clock.ticks /\ local.seconds \in 0 .. Seconds - 1
      BY <1>1, <3>1 DEF RegisterType
    <3>3. SecondsNear'
      BY <3>1 DEF SecondsNear
    <3>4. ASSUME elapsed' < MaxElapsed
          PROVE  (Time(Clock) - Time(local')) % Period <= elapsed + Hz - 1
      <4>1. (Time(Clock) - local.seconds * Hz) % Period <= elapsed + Hz - 1
        BY <3>1, <3>4 DEF ClockInv, SecondsNear, Near
      <4>2. (Time(Clock) - (local.seconds * Hz + Clock.ticks)) % Period
              <= (Time(Clock) - local.seconds * Hz) % Period
        BY <1>1, <3>2, ReadLemma
      <4>3. Time(local') = local.seconds * Hz + Clock.ticks
        BY <3>2 DEF Time
      <4>. DEFINE a == Time(Clock) - local.seconds * Hz
                  b == Time(Clock) - (local.seconds * Hz + Clock.ticks)
      <4>4. a \in Int /\ b \in Int
        BY <1>1, <3>2, TickLemma DEF ClockType
      <4>5. a % Period \in Int /\ b % Period \in Int
        BY <4>4, PeriodLemma
      <4>. HIDE DEF a, b
      <4>6. b % Period <= elapsed + Hz - 1
        <5>1. a % Period <= elapsed + Hz - 1 /\ b % Period <= a % Period
          BY <4>1, <4>2 DEF a, b
        <5>. QED
          BY <1>1, <4>5, <5>1
      <4>. QED
        BY <4>3, <4>6 DEF b
    <3>5. TimeIsNear'
      BY <2>1, <3>1, <3>4 DEF TimeIsNear, Time, Period
    <3>. QED
      BY <3>3, <3>5 DEF ClockInv
  <2>. QED
    BY <1>7, <2>2, <2>3, <2>4, <2>5 DEF ReadClock
<1>8. CASE ReadKey
  <2>1. at' \in KeyLabels \cup {"idle"}
    BY <1>8, KeysDrivers
  <2>. QED
    BY <1>2, <2>1 DEF KeyLabels
<1>9. CASE UNCHANGED vars
  BY <1>3, <1>9 DEF vars, Clock
<1>. QED
  BY <1>4, <1>5, <1>6, <1>7, <1>8, <1>9 DEF Next, MainStep

-----------------------------------------------------------------------------
(***************************************************************************)
(* The keyboard.  Keys are numbered in the order in which they are         *)
(* pressed: what the handler last left was taken from the controller, what *)
(* the controller holds is the latest, and a flag that is set after read() *)
(* cleared it tells of a key that was not taken when read() was called.    *)
(***************************************************************************)
ControllerLatest ==
    machine.controller # <<>> => machine.controller[1] \in {Keyboard!NoKey, machine.pressed}

CallWasBefore == at \in {"clear", "spin", "fetch"} => local.before <= KeysTaken

FlagIsNew ==
    at = "fetch" \/ (at = "spin" /\ Keys.key_pressed) => local.before < Keys.key_code

KeyInv ==
    /\ Keys.key_code <= KeysTaken
    /\ ControllerLatest /\ CallWasBefore /\ FlagIsNew
    /\ FreshKey

LEMMA InitKeys == Init => KeyInv
<1>. SUFFICES ASSUME Init PROVE KeyInv
  OBVIOUS
<1>1. Keys = Keyboard!SimpleKeyboard /\ machine.controller = <<>> /\ machine.pressed = 0 /\ at = "idle"
  BY DEF Init, Keys
<1>. QED
  BY <1>1 DEF KeyInv, KeysTaken, ControllerLatest, CallWasBefore, FlagIsNew, FreshKey,
              Keyboard!SimpleKeyboard, Keyboard!NoKey

LEMMA NextKeys == DriversInv /\ KeyInv /\ CursorType /\ [Next]_vars => KeyInv'
<1>. SUFFICES ASSUME DriversInv, KeyInv, CursorType, [Next]_vars PROVE KeyInv'
  OBVIOUS
<1>1. /\ DOMAIN machine = MachineFields /\ machine.pressed \in 0 .. MaxKeys
      /\ machine.controller \in {<<>>} \cup {<<c>> : c \in 0 .. MaxKeys}
      /\ Keys \in [key_pressed : BOOLEAN, key_code : 0 .. MaxKeys]
      /\ local \in RegisterType /\ MaxKeys \in Nat
      /\ local.before \in Int /\ local.key \in Int /\ Keys.key_code \in Int
      /\ KeysTaken \in Int
  <2>1. /\ DOMAIN machine = MachineFields /\ machine.pressed \in 0 .. MaxKeys
        /\ machine.controller \in {<<>>} \cup {<<c>> : c \in 0 .. MaxKeys}
        /\ Keys \in [key_pressed : BOOLEAN, key_code : 0 .. MaxKeys]
        /\ local \in RegisterType /\ MaxKeys \in Nat
    BY DevicesAssumption DEF DriversInv, MachineOK, MainOK, Keys
  <2>2. local.before \in Int /\ local.key \in Int
    BY <2>1 DEF RegisterType
  <2>3. KeysTaken \in Int /\ Keys.key_code \in Int
    BY <2>1 DEF KeysTaken
  <2>. QED
    BY <2>1, <2>2, <2>3
<1>2. ASSUME UNCHANGED <<at, local, Keys, machine.controller, machine.pressed>> PROVE KeyInv'
  BY <1>2 DEF KeyInv, KeysTaken, ControllerLatest, CallWasBefore, FlagIsNew, FreshKey, Keys
<1>3. ASSUME at' \notin {"clear", "spin", "fetch", "key"},
             UNCHANGED <<Keys, machine.controller, machine.pressed>>
      PROVE  KeyInv'
  BY <1>3 DEF KeyInv, KeysTaken, ControllerLatest, CallWasBefore, FlagIsNew, FreshKey, Keys
<1>4. CASE DeviceTick \/ DeviceDisk \/ Interrupt
  <2>1. UNCHANGED <<at, local, Keys>>
    BY <1>4, DeviceLemma DEF Keys
  <2>2. UNCHANGED <<machine.controller, machine.pressed>>
    BY <1>1, <1>4 DEF DeviceTick, DeviceDisk, Interrupt, MachineFields
  <2>. QED
    BY <1>2, <2>1, <2>2
<1>5. CASE DeviceKey
  <2>1. UNCHANGED <<at, local, Keys>>
    BY <1>5, DeviceLemma DEF Keys
  <2>2. PICK code \in {Keyboard!NoKey, machine.pressed + 1} :
            machine' = [machine EXCEPT !.controller = <<code>>, !.pressed = @ + 1,
                                       !.pic = Dispatcher!Requested(@, 1)]
    BY <1>5 DEF DeviceKey
  <2>3. /\ machine.controller = <<>> /\ machine'.controller = <<code>>
        /\ machine'.pressed = machine.pressed + 1
    BY <1>1, <1>5, <2>2 DEF DeviceKey, MachineFields
  <2>4. KeysTaken' = KeysTaken
    BY <1>1, <2>3 DEF KeysTaken
  <2>5. ControllerLatest'
    BY <2>3 DEF ControllerLatest
  <2>. QED
    BY <2>1, <2>4, <2>5 DEF KeyInv, CallWasBefore, FlagIsNew, FreshKey, Keys
<1>6. CASE Handle
  <2>1. /\ UNCHANGED <<at, local>> /\ machine'.pressed = machine.pressed
        /\ Keys' = IF irq = 1 /\ machine.controller # <<>>
                   THEN Keyboard!Key(Keys, machine.controller[1]) ELSE Keys
        /\ machine'.controller = IF irq = 1 THEN <<>> ELSE machine.controller
    BY <1>6, HandleLemma DEF Keys
  <2>2. KeysTaken' \in Int /\ KeysTaken <= KeysTaken'
    BY <1>1, <2>1 DEF KeysTaken
  <2>3. ControllerLatest'
    BY <2>1 DEF KeyInv, ControllerLatest
  <2>4. CallWasBefore' /\ FreshKey'
    BY <1>1, <2>1, <2>2 DEF KeyInv, CallWasBefore, FreshKey
  <2>5. CASE Keys' = Keys
    <3>1. Keys'.key_code <= KeysTaken' /\ FlagIsNew'
      BY <1>1, <2>1, <2>2, <2>5 DEF KeyInv, FlagIsNew
    <3>. QED
      BY <2>3, <2>4, <3>1 DEF KeyInv
  <2>6. CASE /\ irq = 1 /\ machine.controller # <<>>
             /\ machine.controller[1] # Keyboard!NoKey
    <3>1. Keys' = [key_pressed |-> TRUE, key_code |-> machine.pressed]
      BY <2>1, <2>6 DEF Keyboard!Key, KeyInv, ControllerLatest
    <3>2. KeysTaken' = machine.pressed /\ KeysTaken < machine.pressed
      BY <1>1, <2>1, <2>6 DEF KeysTaken
    <3>3. Keys'.key_code <= KeysTaken'
      BY <1>1, <3>1, <3>2
    <3>4. FlagIsNew'
      BY <1>1, <2>1, <3>1, <3>2 DEF KeyInv, CallWasBefore, FlagIsNew
    <3>. QED
      BY <2>3, <2>4, <3>3, <3>4 DEF KeyInv
  <2>7. Keyboard!Key(Keys, Keyboard!NoKey) = Keys
    BY DEF Keyboard!Key
  <2>. QED
    BY <2>1, <2>5, <2>6, <2>7
<1>7. CASE Putch
  <2>1. SameDrivers /\ at' \in PrintLabels \cup {"idle"}
    BY <1>7, PutchDrivers
  <2>. QED
    BY <1>3, <2>1 DEF SameDrivers, PrintLabels, Keys
<1>8. CASE ReadClock
  <2>1. machine' = machine /\ at' \in ClockLabels \cup {"idle"}
    BY <1>8, ClockDrivers
  <2>. QED
    BY <1>3, <2>1 DEF ClockLabels, Keys
<1>9. CASE ReadKey
  <2>1. CASE BeginRead
    <3>1. /\ at' = "clear" /\ machine' = machine
          /\ local' = [local EXCEPT !.before = KeysTaken]
      BY <2>1 DEF BeginRead, Goto
    <3>2. local'.before = KeysTaken /\ KeysTaken' = KeysTaken
      BY <1>1, <3>1 DEF RegisterType, KeysTaken
    <3>. QED
      BY <1>1, <3>1, <3>2 DEF KeyInv, ControllerLatest, CallWasBefore, FlagIsNew, FreshKey, Keys
  <2>2. CASE EndRead
    BY <1>3, <2>2 DEF EndRead, Goto, Keys
  <2>3. CASE ClearFlag
    <3>1. /\ at = "clear" /\ at' = "spin" /\ local' = local
          /\ machine' = [machine EXCEPT !.keyboard.key_pressed = FALSE]
      BY <2>3 DEF ClearFlag, Goto
    <3>2. /\ Keys' = [Keys EXCEPT !.key_pressed = FALSE]
          /\ UNCHANGED <<machine.controller, machine.pressed>>
      BY <1>1, <3>1 DEF MachineFields, Keys
    <3>3. Keys'.key_code = Keys.key_code /\ Keys'.key_pressed = FALSE /\ KeysTaken' = KeysTaken
      BY <1>1, <3>2 DEF KeysTaken
    <3>. QED
      BY <3>1, <3>2, <3>3 DEF KeyInv, ControllerLatest, CallWasBefore, FlagIsNew, FreshKey
  <2>4. CASE Spin
    <3>1. /\ Keys.key_pressed /\ at = "spin" /\ machine' = machine
          /\ (at' = "fetch" /\ local' = local) \/ at' = "idle"
      BY <2>4 DEF Spin, Goto
    <3>. QED
      BY <3>1 DEF KeyInv, KeysTaken, ControllerLatest, CallWasBefore, FlagIsNew, FreshKey, Keys
  <2>5. CASE Fetch
    <3>1. /\ at = "fetch" /\ at' = "key" /\ machine' = machine
          /\ local' = [local EXCEPT !.key = Keys.key_code]
      BY <2>5 DEF Fetch, Goto
    <3>2. local'.key = Keys.key_code /\ local'.before = local.before
      BY <1>1, <3>1 DEF RegisterType
    <3>3. local'.key > local'.before
      BY <1>1, <3>1, <3>2 DEF KeyInv, FlagIsNew
    <3>. QED
      BY <3>1, <3>3 DEF KeyInv, KeysTaken, ControllerLatest, CallWasBefore, FlagIsNew, FreshKey, Keys
  <2>. QED
    BY <1>9, <2>1, <2>2, <2>3, <2>4, <2>5 DEF ReadKey
<1>10. CASE UNCHANGED vars
  BY <1>2, <1>10 DEF vars, Keys
<1>. QED
  BY <1>4, <1>5, <1>6, <1>7, <1>8, <1>9, <1>10 DEF Next, MainStep

-----------------------------------------------------------------------------
(***************************************************************************)
(* memcpy ends, and changes no cell that is not in its destination.        *)
(***************************************************************************)
CellCopied(m, dest, src, n) == [m EXCEPT ![dest + n - 1] = m[src + n - 1]]
CopyTurns(g, k, memory, dest, src) ==
    [n \in 0 .. k |-> IF n = 0 THEN memory ELSE CellCopied(g[n - 1], dest, src, n)]

LEMMA CopyRuns ==
    ASSUME NEW memory, NEW dest, NEW src, NEW k \in Nat
    PROVE  \E g : g = CopyTurns(g, k, memory, dest, src)
<1>. DEFINE T == {n \in Nat : ~\E g : g = CopyTurns(g, n, memory, dest, src)}
<1>. SUFFICES ASSUME T # {} PROVE FALSE
  OBVIOUS
<1>1. PICK x \in T : \A y \in T : x <= y
  <2>1. T \subseteq Nat
    OBVIOUS
  <2>. QED
    BY <2>1, LeastElement
<1>2. CASE x = 0
  <2>. DEFINE h == [n \in 0 .. 0 |-> memory]
  <2>1. h = CopyTurns(h, 0, memory, dest, src)
    BY DEF CopyTurns
  <2>. QED
    BY <1>1, <1>2, <2>1
<1>3. CASE x # 0
  <2>1. x - 1 \in Nat /\ x \in Nat /\ x - 1 \notin T
    BY <1>1, <1>3
  <2>2. PICK g : g = CopyTurns(g, x - 1, memory, dest, src)
    BY <2>1
  <2>. DEFINE h == [n \in 0 .. x |-> IF n < x THEN g[n] ELSE CellCopied(g[x - 1], dest, src, x)]
  <2>3. ASSUME NEW n \in 0 .. x
        PROVE  h[n] = IF n = 0 THEN memory ELSE CellCopied(h[n - 1], dest, src, n)
    <3>1. CASE n = 0
      BY <2>1, <2>2, <3>1, <1>3 DEF CopyTurns
    <3>2. CASE n # 0 /\ n < x
      <4>1. n \in 0 .. x - 1 /\ n - 1 \in 0 .. x /\ n - 1 < x
        BY <2>1, <3>2
      <4>2. h[n] = g[n] /\ h[n - 1] = g[n - 1]
        BY <3>2, <4>1
      <4>3. g[n] = CellCopied(g[n - 1], dest, src, n)
        BY <2>2, <3>2, <4>1 DEF CopyTurns
      <4>. QED
        BY <3>2, <4>2, <4>3
    <3>3. CASE n = x
      <4>1. x \in 0 .. x /\ x - 1 \in 0 .. x /\ x - 1 < x /\ ~(x < x)
        BY <2>1
      <4>2. h[x] = CellCopied(g[x - 1], dest, src, x) /\ h[x - 1] = g[x - 1]
        BY <4>1
      <4>. QED
        BY <1>3, <3>3, <4>2
    <3>. QED
      BY <2>1, <3>1, <3>2, <3>3
  <2>4. h = CopyTurns(h, x, memory, dest, src)
    <3>. DEFINE E(n) == IF n = 0 THEN memory ELSE CellCopied(h[n - 1], dest, src, n)
    <3>1. \A n \in 0 .. x : h[n] = E(n)
      BY <2>3
    <3>2. h = [n \in 0 .. x |-> h[n]]
      OBVIOUS
    <3>. HIDE DEF h
    <3>. QED
      BY <3>1, <3>2 DEF CopyTurns
  <2>. HIDE DEF h
  <2>. QED
    BY <1>1, <2>4
<1>. QED
  BY <1>2, <1>3

LEMMA CopiedTurns ==
    ASSUME NEW memory, NEW dest, NEW src, NEW count \in Nat
    PROVE  \E g : /\ memcpy(memory, dest, src, count) = g[count] /\ g[0] = memory
                  /\ \A n \in 1 .. count : g[n] = CellCopied(g[n - 1], dest, src, n)
<1>. DEFINE f == CHOOSE g : g = CopyTurns(g, count, memory, dest, src)
<1>1. f = CopyTurns(f, count, memory, dest, src)
  BY CopyRuns
<1>2. memcpy(memory, dest, src, count) = f[count]
  BY DEF memcpy, CopyTurns, CellCopied
<1>. HIDE DEF f
<1>3. f[0] = memory /\ \A n \in 1 .. count : f[n] = CellCopied(f[n - 1], dest, src, n)
  <2>1. 0 \in 0 .. count /\ \A n \in 1 .. count : n \in 0 .. count /\ n # 0
    OBVIOUS
  <2>2. \A n \in 0 .. count :
           f[n] = IF n = 0 THEN memory ELSE CellCopied(f[n - 1], dest, src, n)
    BY <1>1 DEF CopyTurns
  <2>. QED
    BY <2>1, <2>2
<1>. QED
  BY <1>2, <1>3

LEMMA MemcpyLemma ==
    ASSUME NEW memory, NEW dest \in Int, NEW src \in Int, NEW count \in Nat
    PROVE  LET m == memcpy(memory, dest, src, count)
           IN  /\ DOMAIN m = DOMAIN memory
               /\ \A a \in DOMAIN memory : a \notin dest .. dest + count - 1 => m[a] = memory[a]
<1>1. PICK g : /\ memcpy(memory, dest, src, count) = g[count] /\ g[0] = memory
               /\ \A n \in 1 .. count : g[n] = CellCopied(g[n - 1], dest, src, n)
  BY CopiedTurns
<1>. DEFINE Held(n) == /\ DOMAIN g[n] = DOMAIN memory
                       /\ \A a \in DOMAIN memory : a \notin dest .. dest + count - 1 => g[n][a] = memory[a]
            T == {n \in 0 .. count : ~Held(n)}
<1>2. SUFFICES ASSUME T # {} PROVE FALSE
  BY <1>1
<1>3. PICK x \in T : \A y \in T : x <= y
  <2>1. T \subseteq Nat
    OBVIOUS
  <2>. QED
    BY <1>2, <2>1, LeastElement
<1>4. x # 0
  BY <1>1, <1>3
<1>5. x - 1 \in 0 .. count /\ x \in 1 .. count /\ x - 1 \notin T
  BY <1>3, <1>4
<1>6. Held(x - 1) /\ g[x] = CellCopied(g[x - 1], dest, src, x)
  BY <1>1, <1>5
<1>7. dest + x - 1 \in dest .. dest + count - 1
  BY <1>5
<1>8. Held(x)
  BY <1>6, <1>7 DEF CellCopied
<1>. QED
  BY <1>3, <1>8

-----------------------------------------------------------------------------
(***************************************************************************)
(* A console whose cursor is on the screen or one step behind it, and      *)
(* whose text memory is untouched before low and from the second row       *)
(* behind the screen.                                                      *)
(***************************************************************************)
ConsoleFields == {"x", "y", "attrib", "redirect", "port", "textmemptr", "text"}
Untold(c, low) ==
    /\ DOMAIN c = ConsoleFields /\ DOMAIN c.text = TextMemory
    /\ \A a \in TextMemory : (a < low \/ a >= (Rows + 1) * Columns) => c.text[a] = Unknown

OnScreen(c, low)   == c.x \in low .. Columns - 1 /\ c.y \in 0 .. Rows - 1
NearScreen(c, low) == c.x \in low .. Columns /\ c.y \in 0 .. Rows /\ (c.y = Rows => c.x < Columns)

\* The cells of the rows.
LEMMA RowsLemma ==
    /\ Columns \in Nat \ {0} /\ Rows \in Nat /\ Rows > 1
    /\ Rows * Columns \in Nat /\ (Rows + 1) * Columns = Rows * Columns + Columns
    /\ \A k \in 0 .. Rows : /\ k * Columns \in Nat /\ k * Columns <= Rows * Columns
                            /\ k # Rows => k * Columns + Columns <= Rows * Columns
<1>1. Columns \in Nat \ {0} /\ Rows \in Nat /\ Rows > 1
  BY ConsoleAssumption
<1>2. Rows * Columns \in Nat /\ (Rows + 1) * Columns = Rows * Columns + Columns
  BY <1>1
<1>3. ASSUME NEW k \in 0 .. Rows
      PROVE  /\ k * Columns \in Nat /\ k * Columns <= Rows * Columns
             /\ k # Rows => k * Columns + Columns <= Rows * Columns
  <2>1. \A a, b, n \in Nat : a <= b => a * n <= b * n /\ a * n \in Nat /\ (a + 1) * n = a * n + n
    OBVIOUS
  <2>2. k \in Nat /\ k <= Rows /\ (k # Rows => k + 1 <= Rows) /\ k + 1 \in Nat
    BY <1>1
  <2>3. k * Columns \in Nat /\ k * Columns <= Rows * Columns /\ (k + 1) * Columns = k * Columns + Columns
    BY <1>1, <2>1, <2>2
  <2>4. k # Rows => (k + 1) * Columns <= Rows * Columns
    BY <1>1, <2>1, <2>2
  <2>. QED
    BY <2>3, <2>4
<1>. QED
  BY <1>1, <1>2, <1>3

LEMMA ScrolledLemma ==
    ASSUME NEW low \in Int, low <= 0, NEW c, Untold(c, low), c.y \in 0 .. Rows + 1
    PROVE  /\ Untold(Scrolled(c), low) /\ Scrolled(c).x = c.x
           /\ Scrolled(c).y = IF c.y < Rows THEN c.y ELSE Rows - 1
<1>. DEFINE e == Excess(c)
            kept == (Rows - e) * Columns
            moved == memcpy(c.text, 0, e * Columns, kept)
            blank == memset(moved, kept, Blank(c), Columns)
<1>1. CASE c.y < Rows
  BY <1>1, RowsLemma DEF Scrolled, BelowScreen
<1>2. CASE c.y >= Rows
  <2>1. Scrolled(c) = [c EXCEPT !.text = blank, !.y = Rows - 1]
    BY <1>2, RowsLemma DEF Scrolled, BelowScreen
  <2>2. Rows - e \in 0 .. Rows - 1 /\ e \in Nat
    BY <1>2, RowsLemma DEF Excess
  <2>3. kept \in Nat /\ kept + Columns <= Rows * Columns /\ e * Columns \in Int
    BY <2>2, RowsLemma
  <2>. HIDE DEF e, kept
  <2>4. /\ DOMAIN moved = TextMemory
        /\ \A a \in TextMemory : a \notin 0 .. kept - 1 => moved[a] = c.text[a]
    <3>1. DOMAIN c.text = TextMemory /\ 0 + kept - 1 = kept - 1
      BY <2>3 DEF Untold
    <3>. QED
      BY <2>3, <3>1, MemcpyLemma
  <2>. HIDE DEF moved
  <2>5. /\ DOMAIN blank = TextMemory
        /\ \A a \in TextMemory : a \notin kept .. kept + Columns - 1 => blank[a] = moved[a]
    BY <2>4 DEF memset
  <2>. HIDE DEF blank
  <2>6. ASSUME NEW a \in TextMemory, a < low \/ a >= (Rows + 1) * Columns
        PROVE  blank[a] = Unknown
    <3>1. a \in Int
      BY RowsLemma DEF TextMemory
    <3>2. a \notin 0 .. kept - 1 /\ a \notin kept .. kept + Columns - 1
      BY <2>3, <2>6, <3>1, RowsLemma
    <3>. QED
      BY <2>4, <2>5, <2>6, <3>2 DEF Untold
  <2>7. /\ DOMAIN Scrolled(c) = ConsoleFields /\ Scrolled(c).text = blank
        /\ Scrolled(c).x = c.x /\ Scrolled(c).y = Rows - 1
    BY <2>1 DEF Untold, ConsoleFields
  <2>. QED
    BY <1>2, <2>5, <2>6, <2>7, RowsLemma DEF Untold
<1>. QED
  BY <1>1, <1>2, RowsLemma

(***************************************************************************)
(* putch of a character that a handler prints.                             *)
(***************************************************************************)
LEMMA StoredLemma ==
    ASSUME NEW low \in Int, low <= 0, NEW c, Untold(c, low), NEW ch,
           NEW where \in low .. (Rows + 1) * Columns - 1
    PROVE  /\ Untold(Stored(c, where, ch), low)
           /\ Stored(c, where, ch).x = c.x /\ Stored(c, where, ch).y = c.y
<1>1. /\ DOMAIN Stored(c, where, ch) = ConsoleFields
      /\ Stored(c, where, ch).text = [c.text EXCEPT ![where] = <<ch, c.attrib>>]
      /\ Stored(c, where, ch).x = c.x /\ Stored(c, where, ch).y = c.y
  BY DEF Stored, Untold, ConsoleFields
<1>2. \A a \in TextMemory : (a < low \/ a >= (Rows + 1) * Columns) => a # where
  BY RowsLemma DEF TextMemory
<1>. QED
  BY <1>1, <1>2 DEF Untold

LEMMA WhereLemma ==
    ASSUME NEW low \in Int, low <= 0, NEW c, NearScreen(c, low)
    PROVE  Where(c) \in low .. (Rows + 1) * Columns - 1
<1>1. /\ c.x \in low .. Columns /\ c.y \in 0 .. Rows /\ (c.y = Rows => c.x < Columns)
      /\ c.y * Columns \in Nat /\ c.y * Columns <= Rows * Columns
      /\ c.y # Rows => c.y * Columns + Columns <= Rows * Columns
  BY RowsLemma DEF NearScreen
<1>. DEFINE a == c.y * Columns
            b == Rows * Columns
<1>2. Where(c) = a + c.x /\ (Rows + 1) * Columns = b + Columns /\ b \in Nat
  BY RowsLemma DEF Where
<1>. HIDE DEF a, b
<1>. QED
  BY <1>1, <1>2, RowsLemma DEF a, b

LEMMA EchoedLemma ==
    ASSUME NEW low, NEW c, Untold(c, low), NEW ch
    PROVE  /\ Untold(Echoed(c, ch), low)
           /\ Echoed(c, ch).x = c.x /\ Echoed(c, ch).y = c.y
BY DEF Echoed, Untold, ConsoleFields

\* The end of putch: a full row ends, and the screen scrolls.
LEMMA LineEndLemma ==
    ASSUME NEW low \in Int, low <= 0, NEW c, Untold(c, low),
           c.x \in low .. Columns + 1, c.y \in 0 .. Rows, c.y = Rows => c.x <= Columns
    PROVE  LET e == IF AtEdge(c) THEN [c EXCEPT !.x = 0, !.y = @ + 1] ELSE c
           IN  /\ Untold(Scrolled(e), low) /\ OnScreen(Scrolled(e), low)
               /\ c.y >= Rows - 1 => Scrolled(e).y = Rows - 1
               /\ c.x = 0 => Scrolled(e).x = 0
<1>. DEFINE e == IF AtEdge(c) THEN [c EXCEPT !.x = 0, !.y = @ + 1] ELSE c
<1>1. Columns \in Nat \ {0} /\ Rows \in Nat /\ Rows > 1
  BY RowsLemma
<1>2. /\ Untold(e, low)
      /\ IF c.x >= Columns THEN e.x = 0 /\ e.y = c.y + 1 ELSE e.x = c.x /\ e.y = c.y
  BY DEF AtEdge, Untold, ConsoleFields
<1>. HIDE DEF e
<1>3. e.y \in 0 .. Rows + 1 /\ e.x \in low .. Columns - 1
  BY <1>1, <1>2
<1>4. /\ Untold(Scrolled(e), low) /\ Scrolled(e).x = e.x
      /\ Scrolled(e).y = IF e.y < Rows THEN e.y ELSE Rows - 1
  BY <1>2, <1>3, ScrolledLemma
<1>5. OnScreen(Scrolled(e), low)
  BY <1>1, <1>3, <1>4 DEF OnScreen
<1>6. c.y >= Rows - 1 => Scrolled(e).y = Rows - 1
  BY <1>1, <1>2, <1>3, <1>4
<1>7. c.x = 0 => Scrolled(e).x = 0
  BY <1>1, <1>2, <1>4
<1>. QED
  BY <1>4, <1>5, <1>6, <1>7 DEF e

LEMMA PutLetterLemma ==
    ASSUME NEW low \in Int, low <= 0, NEW c, Untold(c, low), NearScreen(c, low)
    PROVE  LET p == putch(c, "s")
           IN  /\ Untold(p, low) /\ OnScreen(p, low)
               /\ c.y >= Rows - 1 => p.y = Rows - 1
<1>. DEFINE stored == Stored(c, Where(c), "s")
            moved  == [stored EXCEPT !.x = @ + 1, !.y = @]
            echoed == Echoed(moved, "s")
<1>1. Columns \in Nat \ {0} /\ Rows \in Nat /\ Rows > 1
  BY RowsLemma
<1>2. c.x \in low .. Columns /\ c.y \in 0 .. Rows /\ (c.y = Rows => c.x < Columns)
  BY DEF NearScreen
<1>3. Untold(stored, low) /\ stored.x = c.x /\ stored.y = c.y
  BY StoredLemma, WhereLemma
<1>. HIDE DEF stored
<1>4. Untold(moved, low) /\ moved.x = c.x + 1 /\ moved.y = c.y
  BY <1>3 DEF Untold, ConsoleFields
<1>. HIDE DEF moved
<1>5. Untold(echoed, low) /\ echoed.x = c.x + 1 /\ echoed.y = c.y
  BY <1>4, EchoedLemma
<1>6. putch(c, "s") = Scrolled(IF AtEdge(echoed) THEN [echoed EXCEPT !.x = 0, !.y = @ + 1] ELSE echoed)
  BY DEF putch, Controls, Column, echoed, moved, stored
<1>. HIDE DEF echoed
<1>7. echoed.x \in low .. Columns + 1 /\ echoed.y \in 0 .. Rows /\ (echoed.y = Rows => echoed.x <= Columns)
  BY <1>1, <1>2, <1>5
<1>. QED
  BY <1>5, <1>6, <1>7, LineEndLemma

LEMMA PutNewlineLemma ==
    ASSUME NEW low \in Int, low <= 0, NEW c, Untold(c, low), OnScreen(c, low)
    PROVE  LET p == putch(c, "newline")
           IN  /\ Untold(p, low) /\ OnScreen(p, low) /\ p.x = 0
               /\ c.y >= Rows - 1 => p.y = Rows - 1
<1>. DEFINE moved  == [c EXCEPT !.x = 0, !.y = @ + 1]
            echoed == Echoed(moved, "newline")
<1>1. Columns \in Nat \ {0} /\ Rows \in Nat /\ Rows > 1
  BY RowsLemma
<1>2. c.x \in low .. Columns - 1 /\ c.y \in 0 .. Rows - 1
  BY DEF OnScreen
<1>3. Untold(moved, low) /\ moved.x = 0 /\ moved.y = c.y + 1
  BY DEF Untold, ConsoleFields
<1>. HIDE DEF moved
<1>4. Untold(echoed, low) /\ echoed.x = 0 /\ echoed.y = c.y + 1
  BY <1>3, EchoedLemma
<1>5. putch(c, "newline") = Scrolled(IF AtEdge(echoed) THEN [echoed EXCEPT !.x = 0, !.y = @ + 1] ELSE echoed)
  BY DEF putch, Controls, Column, echoed, moved
<1>. HIDE DEF echoed
<1>6. echoed.x \in low .. Columns + 1 /\ echoed.y \in 0 .. Rows /\ (echoed.y = Rows => echoed.x <= Columns)
  BY <1>1, <1>2, <1>4
<1>7. c.y >= Rows - 1 => echoed.y >= Rows - 1
  BY <1>1, <1>2, <1>4
<1>. QED
  BY <1>4, <1>5, <1>6, <1>7, LineEndLemma

LEMMA MessageLemma == ASSUME NEW c PROVE puts(c, Timer!Message) = putch(putch(c, "s"), "newline")
<1>. DEFINE s == Timer!Message
            body(f) == [n \in 0 .. Len(s) |-> IF n = 0 THEN c ELSE putch(f[n - 1], s[n])]
            h == [n \in 0 .. 2 |-> IF n = 0 THEN c ELSE IF n = 1 THEN putch(c, "s")
                                   ELSE putch(putch(c, "s"), "newline")]
            f == CHOOSE g : g = body(g)
<1>1. Len(s) = 2 /\ s[1] = "s" /\ s[2] = "newline"
  BY DEF Timer!Message
<1>. HIDE DEF s
<1>2. h = body(h)
  <2>1. ASSUME NEW n \in 0 .. 2 PROVE h[n] = IF n = 0 THEN c ELSE putch(h[n - 1], s[n])
    <3>1. CASE n = 0
      BY <3>1
    <3>2. CASE n = 1
      BY <1>1, <3>2
    <3>3. CASE n = 2
      BY <1>1, <3>3
    <3>. QED
      BY <3>1, <3>2, <3>3
  <2>. DEFINE E(n) == IF n = 0 THEN c ELSE putch(h[n - 1], s[n])
  <2>2. \A n \in 0 .. 2 : h[n] = E(n)
    BY <2>1
  <2>3. h = [n \in 0 .. 2 |-> h[n]]
    OBVIOUS
  <2>. HIDE DEF h
  <2>. QED
    BY <1>1, <2>2, <2>3
<1>. HIDE DEF h
<1>3. f = body(f)
  BY <1>2
<1>4. puts(c, s) = f[2]
  BY <1>1 DEF puts
<1>. HIDE DEF f
<1>5. \A n \in 0 .. 2 : f[n] = IF n = 0 THEN c ELSE putch(f[n - 1], s[n])
  BY <1>1, <1>3
<1>6. f[0] = c /\ f[1] = putch(f[0], s[1]) /\ f[2] = putch(f[1], s[2])
  <2>1. 0 \in 0 .. 2 /\ 1 \in 0 .. 2 /\ 2 \in 0 .. 2 /\ 1 - 1 = 0 /\ 2 - 1 = 1 /\ 1 # 0 /\ 2 # 0
    OBVIOUS
  <2>. QED
    BY <1>5, <2>1
<1>. QED
  BY <1>1, <1>4, <1>6 DEF s

LEMMA HandlerPrints ==
    ASSUME NEW low \in Int, low <= 0, NEW c, Untold(c, low), NearScreen(c, low)
    PROVE  LET p == puts(c, Timer!Message)
           IN  /\ Untold(p, low) /\ OnScreen(p, low) /\ p.x = 0
               /\ c.y >= Rows - 1 => p.y = Rows - 1
<1>. DEFINE p == putch(c, "s")
<1>1. Untold(p, low) /\ OnScreen(p, low) /\ (c.y >= Rows - 1 => p.y = Rows - 1)
  BY PutLetterLemma
<1>. HIDE DEF p
<1>2. p.y = Rows - 1 => p.y >= Rows - 1
  BY RowsLemma
<1>3. LET q == putch(p, "newline")
      IN  /\ Untold(q, low) /\ OnScreen(q, low) /\ q.x = 0
          /\ p.y >= Rows - 1 => q.y = Rows - 1
  BY <1>1, PutNewlineLemma
<1>. QED
  BY <1>1, <1>2, <1>3, MessageLemma DEF p

-----------------------------------------------------------------------------
(***************************************************************************)
(* The cursor.  Behind the screen or the row it is only on the way to the  *)
(* scroll and to the new row, and what the main thread loaded of it stays  *)
(* usable whatever a handler prints before the store.                      *)
(***************************************************************************)
Backspaces(s) == {i \in DOMAIN s : s[i] = "backspace"}
Printable == Characters \cup {"s", "newline"}

AboutToScroll == {"echo", "edge", "below", "excess", "scroll", "last"}

CursorOK ==
    /\ Untold(Con, LeftMost) /\ NearScreen(Con, LeftMost)
    /\ Con.y = Rows => at \in AboutToScroll
    /\ Con.x = Columns => at \in {"echo", "edge", "clearx"}

RegistersOK ==
    /\ at = "column" => local.reg \in 0 .. Rows - 1
    /\ at = "store" => local.index \in LeftMost .. Rows * Columns - 1
    /\ at \in {"row", "column", "store"} => local.ch # "backspace"
    /\ at = "margin" => local.ch = "backspace"
    /\ (at \in {"margin", "loadx", "storex"} /\ local.ch = "backspace") => LeftMost < 0
    /\ (at \in {"margin", "loadx"} /\ local.ch = "backspace") => Con.x > LeftMost
    /\ at = "storex" => local.reg \in LeftMost .. Columns - 1
    /\ (at = "storex" /\ local.ch = "backspace") => local.reg > LeftMost
    /\ at = "storey" => local.reg \in 0 .. Rows - 1
    /\ at = "excess" => Con.y \in {Rows - 1, Rows}
    /\ at = "scroll" => local.reg \in {0, 1} /\ local.index \in 0 .. Kept + Columns - 1

CursorInv == printed \in Seq(Printable) /\ CursorOK /\ RegistersOK

LEMMA BackspacesLemma ==
    ASSUME NEW s \in Seq(Printable)
    PROVE  /\ IsFiniteSet(Backspaces(s)) /\ Cardinality(Backspaces(s)) \in Nat
           /\ \A c : Cardinality(Backspaces(Append(s, c))) =
                    Cardinality(Backspaces(s)) + IF c = "backspace" THEN 1 ELSE 0
           /\ Backspaces(s \o Timer!Message) = Backspaces(s)
<1>1. DOMAIN s = 1 .. Len(s) /\ Len(s) \in Nat
  OBVIOUS
<1>2. IsFiniteSet(Backspaces(s))
  <2>1. Backspaces(s) \subseteq 1 .. Len(s)
    BY <1>1 DEF Backspaces
  <2>2. IsFiniteSet(1 .. Len(s))
    BY <1>1, FS_Interval
  <2>. QED
    BY <2>1, <2>2, FS_Subset, Zenon
<1>3. Cardinality(Backspaces(s)) \in Nat
  BY <1>2, FS_CardinalityType
<1>4. ASSUME NEW c
      PROVE  Cardinality(Backspaces(Append(s, c))) =
                Cardinality(Backspaces(s)) + IF c = "backspace" THEN 1 ELSE 0
  <2>1. /\ DOMAIN Append(s, c) = 1 .. Len(s) + 1 /\ Append(s, c)[Len(s) + 1] = c
        /\ \A i \in 1 .. Len(s) : Append(s, c)[i] = s[i]
    OBVIOUS
  <2>2. CASE c = "backspace"
    <3>1. Backspaces(Append(s, c)) = Backspaces(s) \cup {Len(s) + 1} /\ Len(s) + 1 \notin Backspaces(s)
      BY <1>1, <2>1, <2>2 DEF Backspaces
    <3>2. Cardinality(Backspaces(s) \cup {Len(s) + 1}) = Cardinality(Backspaces(s)) + 1
      BY <1>2, <3>1, FS_AddElement
    <3>. QED
      BY <2>2, <3>1, <3>2
  <2>3. CASE c # "backspace"
    <3>1. Backspaces(Append(s, c)) = Backspaces(s)
      BY <1>1, <2>1, <2>3 DEF Backspaces
    <3>. QED
      BY <1>3, <2>3, <3>1
  <2>. QED
    BY <2>2, <2>3
<1>5. Backspaces(s \o Timer!Message) = Backspaces(s)
  <2>. DEFINE t == s \o <<"s", "newline">>
  <2>1. /\ DOMAIN t = 1 .. Len(s) + 2 /\ \A i \in 1 .. Len(s) : t[i] = s[i]
        /\ t[Len(s) + 1] = "s" /\ t[Len(s) + 2] = "newline"
    OBVIOUS
  <2>. HIDE DEF t
  <2>2. Backspaces(t) = Backspaces(s)
    BY <1>1, <2>1 DEF Backspaces
  <2>. QED
    BY <2>2 DEF t, Timer!Message
<1>. QED
  BY <1>2, <1>3, <1>4, <1>5

LEMMA LeftMostLemma ==
    ASSUME printed \in Seq(Printable)
    PROVE  /\ LeftMost \in Int /\ LeftMost <= 0
           /\ printed' = printed => LeftMost' = LeftMost
           /\ printed' = printed \o Timer!Message => printed' \in Seq(Printable) /\ LeftMost' = LeftMost
           /\ \A c \in Characters : printed' = Append(printed, c) =>
                 /\ printed' \in Seq(Printable)
                 /\ LeftMost' = IF c = "backspace" THEN LeftMost - 1 ELSE LeftMost
<1>1. LeftMost = -Cardinality(Backspaces(printed)) /\ LeftMost' = -Cardinality(Backspaces(printed'))
  BY DEF LeftMost, Backspaces
<1>2. Cardinality(Backspaces(printed)) \in Nat
  BY BackspacesLemma
<1>3. ASSUME printed' = printed \o Timer!Message
      PROVE  printed' \in Seq(Printable) /\ LeftMost' = LeftMost
  <2>1. Timer!Message \in Seq(Printable)
    BY DEF Timer!Message, Printable
  <2>. QED
    BY <1>1, <1>3, <2>1, BackspacesLemma
<1>4. ASSUME NEW c \in Characters, printed' = Append(printed, c)
      PROVE  /\ printed' \in Seq(Printable)
             /\ LeftMost' = IF c = "backspace" THEN LeftMost - 1 ELSE LeftMost
  <2>1. printed' \in Seq(Printable)
    BY <1>4 DEF Printable
  <2>2. Cardinality(Backspaces(printed')) =
           Cardinality(Backspaces(printed)) + IF c = "backspace" THEN 1 ELSE 0
    BY <1>4, BackspacesLemma
  <2>. QED
    BY <1>1, <1>2, <2>1, <2>2
<1>. QED
  BY <1>1, <1>2, <1>3, <1>4

LEMMA TabLemma ==
    ASSUME NEW x \in Int, x < Columns
    PROVE  Column(x, "tab") \in x .. Columns
<1>1. /\ TabStop \in Nat /\ TabStop > 0 /\ Columns \in Nat /\ Columns % TabStop = 0
  BY ConsoleAssumption
<1>. DEFINE t == TabStop
            q == (x + t) \div t
<1>2. \A m \in Int, w \in Nat : w > 0 => /\ m \div w \in Int
                                        /\ (m \div w) * w \in Int
                                        /\ (m \div w) * w <= m /\ m < (m \div w) * w + w
  OBVIOUS
<1>3. q \in Int /\ q * t \in Int /\ q * t <= x + t /\ x + t < q * t + t
  BY <1>1, <1>2
<1>4. PICK k \in Int : Columns = (t * k) + (Columns % t)
  BY <1>1, DivMod
<1>5. Columns = k * t
  BY <1>1, <1>4
<1>. HIDE DEF q
<1>6. q <= k
  <2>. SUFFICES ASSUME q >= k + 1 PROVE FALSE
    BY <1>3
  <2>1. \A a, b \in Int, w \in Nat : a >= b => a * w >= b * w
    OBVIOUS
  <2>2. q * t >= (k + 1) * t
    BY <1>1, <1>3, <2>1
  <2>3. (k + 1) * t = k * t + t /\ k * t \in Int
    BY <1>1
  <2>. QED
    BY <1>1, <1>3, <1>5, <2>2, <2>3
<1>7. q * t <= k * t
  <2>1. \A a, b \in Int, w \in Nat : a <= b => a * w <= b * w
    OBVIOUS
  <2>. QED
    BY <1>1, <1>3, <1>6, <2>1
<1>8. Column(x, "tab") = q * t
  BY DEF Column, q
<1>. QED
  BY <1>1, <1>3, <1>5, <1>7, <1>8

LEMMA InitCursor == Init => CursorInv
<1>. SUFFICES ASSUME Init PROVE CursorInv
  OBVIOUS
<1>1. /\ at = "idle" /\ printed = <<>>
      /\ Con = output_redirection(init(Untouched, 15, 0), task = "print")
  BY DEF Init, Con
<1>2. printed \in Seq(Printable) /\ LeftMost = 0
  <2>1. {i \in DOMAIN printed : printed[i] = "backspace"} = {}
    BY <1>1
  <2>. QED
    BY <1>1, <2>1, FS_EmptySet DEF LeftMost
<1>. DEFINE t == set_TextColor(Untouched, 15, 0)
            u == [t EXCEPT !.textmemptr = TRUE]
            m == memset(u.text, 0, Blank(u), Rows * Columns)
            v == cls(u)
<1>3. /\ DOMAIN u = ConsoleFields /\ DOMAIN u.text = TextMemory
      /\ \A a \in TextMemory : u.text[a] = Unknown
  BY DEF set_TextColor, Untouched, ConsoleFields
<1>. HIDE DEF u
<1>4. v = [u EXCEPT !.text = m, !.x = 0, !.y = 0]
  BY DEF cls
<1>5. /\ DOMAIN m = TextMemory
      /\ \A a \in TextMemory : a \notin 0 .. Rows * Columns - 1 => m[a] = Unknown
  BY <1>3, RowsLemma DEF memset
<1>. HIDE DEF m
<1>6. DOMAIN v = ConsoleFields /\ v.text = m /\ v.x = 0 /\ v.y = 0
  BY <1>3, <1>4 DEF ConsoleFields
<1>. HIDE DEF v
<1>7. DOMAIN Con = ConsoleFields /\ Con.text = m /\ Con.x = 0 /\ Con.y = 0
  BY <1>1, <1>6 DEF output_redirection, init, ConsoleFields, v, u, t
<1>8. Untold(Con, 0)
  <2>1. \A a \in TextMemory : (a < 0 \/ a >= (Rows + 1) * Columns) => a \notin 0 .. Rows * Columns - 1
    BY RowsLemma DEF TextMemory
  <2>. QED
    BY <1>5, <1>7, <2>1 DEF Untold
<1>. QED
  BY <1>1, <1>2, <1>7, <1>8, RowsLemma DEF CursorInv, CursorOK, RegistersOK, NearScreen

LEMMA ConsoleLemma ==
    ASSUME MachineOK
    PROVE  /\ machine' = machine => Con' = Con
           /\ \A c : machine' = WithConsole(c) => Con' = c
BY DEF MachineOK, MachineFields, WithConsole, Con

\* Printing moves the lowest cell that may be reached down, never up.
LEMMA LowerLemma ==
    ASSUME NEW c, NEW low \in Int, NEW lower \in Int, lower <= low, Untold(c, low), NearScreen(c, low)
    PROVE  Untold(c, lower) /\ NearScreen(c, lower)
<1>1. \A a \in TextMemory : a < lower => a < low
  BY RowsLemma DEF TextMemory
<1>. QED
  BY <1>1, RowsLemma DEF Untold, NearScreen

(***************************************************************************)
(* The steps of putch.                                                     *)
(***************************************************************************)
LEMMA PutchCursor ==
    ASSUME DriversInv, CursorInv, Putch
    PROVE  CursorInv'
<1>. DEFINE low == LeftMost
<1>1. /\ MachineOK /\ local \in RegisterType /\ printed \in Seq(Printable)
      /\ Untold(Con, low) /\ NearScreen(Con, low)
      /\ low \in Int /\ low <= 0 /\ (printed' = printed => LeftMost' = low)
      /\ Columns \in Nat \ {0} /\ Rows \in Nat /\ Rows > 1
  BY LeftMostLemma, RowsLemma DEF DriversInv, MainOK, CursorInv, CursorOK
<1>2. /\ Con.x \in low .. Columns /\ Con.y \in 0 .. Rows /\ (Con.y = Rows => Con.x < Columns)
      /\ Con.y = Rows => at \in AboutToScroll
      /\ Con.x = Columns => at \in {"echo", "edge", "clearx"}
  BY <1>1 DEF CursorInv, CursorOK, NearScreen
<1>3. RegistersOK
  BY DEF CursorInv
<1>. HIDE DEF low
<1>4. ASSUME printed' = printed, Untold(Con', low), NearScreen(Con', low),
             Con'.y = Rows => at' \in AboutToScroll,
             Con'.x = Columns => at' \in {"echo", "edge", "clearx"}, RegistersOK'
      PROVE  CursorInv'
  BY <1>1, <1>4 DEF CursorInv, CursorOK
<1>5. CASE BeginPutch
  <2>1. PICK ch \in Characters :
            /\ printed' = Append(printed, ch) /\ local' = [local EXCEPT !.ch = ch]
            /\ at' = CASE ch \notin Controls -> "row"
                       [] ch = "backspace" -> "margin"
                       [] ch = "tab"       -> "loadx"
                       [] OTHER            -> "clearx"
    BY <1>5 DEF BeginPutch
  <2>2. /\ printed' \in Seq(Printable)
        /\ LeftMost' = IF ch = "backspace" THEN low - 1 ELSE low
    BY <1>1, <2>1, LeftMostLemma DEF low
  <2>3. Con' = Con /\ at = "idle" /\ local'.ch = ch
    BY <1>1, <1>5, <2>1, ConsoleLemma DEF BeginPutch, RegisterType
  <2>4. Con.x < Columns /\ Con.y < Rows
    BY <1>1, <1>2, <2>3 DEF AboutToScroll
  <2>5. LeftMost' \in Int /\ LeftMost' <= low /\ (ch = "backspace" => LeftMost' < low)
    BY <1>1, <2>2
  <2>6. Untold(Con', LeftMost') /\ NearScreen(Con', LeftMost')
    BY <1>1, <2>3, <2>5, LowerLemma
  <2>7. /\ at' \in {"row", "margin", "loadx", "clearx"} /\ (at' = "margin" => ch = "backspace")
        /\ at' = "row" => ch # "backspace"
    BY <2>1 DEF Controls
  <2>8. CursorOK'
    BY <1>1, <1>2, <2>3, <2>4, <2>6 DEF CursorOK
  <2>9. RegistersOK'
    <3>1. ch = "backspace" => LeftMost' < 0 /\ Con'.x > LeftMost'
      BY <1>1, <1>2, <2>3, <2>5
    <3>2. local'.ch = ch
      BY <2>3
    <3>3. at' \notin {"column", "store", "storex", "storey", "excess", "scroll"}
      BY <2>7
    <3>4. at' \in {"row", "column", "store"} => local'.ch # "backspace"
      BY <2>7, <3>2
    <3>5. at' = "margin" => local'.ch = "backspace"
      BY <2>7, <3>2
    <3>. QED
      BY <3>1, <3>2, <3>3, <3>4, <3>5 DEF RegistersOK
  <2>. QED
    BY <2>2, <2>8, <2>9 DEF CursorInv
<1>6. CASE AddressRow
  <2>1. /\ at = "row" /\ at' = "column" /\ printed' = printed /\ Con' = Con
        /\ local' = [local EXCEPT !.reg = Con.y]
    BY <1>1, <1>6, ConsoleLemma DEF AddressRow, Goto
  <2>2. local'.reg = Con.y /\ local'.ch = local.ch
    BY <1>1, <2>1 DEF RegisterType
  <2>3. Con.y < Rows /\ Con.x < Columns
    BY <1>1, <1>2, <2>1 DEF AboutToScroll
  <2>4. Con.y \in 0 .. Rows - 1
    BY <1>1, <1>2, <2>3
  <2>5. RegistersOK'
    <3>1. local'.reg \in 0 .. Rows - 1 /\ local'.ch # "backspace"
      BY <1>3, <2>1, <2>2, <2>4 DEF RegistersOK
    <3>. QED
      BY <2>1, <3>1 DEF RegistersOK
  <2>. QED
    BY <1>1, <1>2, <1>4, <2>1, <2>3, <2>5
<1>24. CASE AddressColumn
  <2>1. /\ at = "column" /\ at' = "store" /\ printed' = printed /\ Con' = Con
        /\ local' = [local EXCEPT !.index = Where([Con EXCEPT !.y = local.reg])]
    BY <1>1, <1>24, ConsoleLemma DEF AddressColumn, Goto
  <2>2. /\ local'.index = local.reg * Columns + Con.x /\ local'.ch = local.ch
    BY <1>1, <2>1 DEF RegisterType, Where, Untold, ConsoleFields
  <2>3. Con.y < Rows /\ Con.x < Columns /\ local.reg \in 0 .. Rows - 1
    BY <1>1, <1>2, <1>3, <2>1 DEF AboutToScroll, RegistersOK
  <2>4. local.reg * Columns + Con.x \in low .. Rows * Columns - 1
    <3>1. /\ local.reg * Columns \in Nat /\ local.reg * Columns + Columns <= Rows * Columns
          /\ Rows * Columns \in Nat
      BY <2>3, RowsLemma
    <3>. DEFINE a == local.reg * Columns
                b == Rows * Columns
    <3>. HIDE DEF a, b
    <3>2. a \in Nat /\ a + Columns <= b /\ b \in Nat
      BY <3>1 DEF a, b
    <3>3. a + Con.x \in low .. b - 1
      BY <1>1, <1>2, <2>3, <3>2
    <3>. QED
      BY <3>3 DEF a, b
  <2>5. RegistersOK'
    BY <1>1, <1>3, <2>1, <2>2, <2>4 DEF RegistersOK
  <2>. QED
    BY <1>1, <1>2, <1>4, <2>1, <2>3, <2>5
<1>7. CASE Store
  <2>1. /\ at = "store" /\ at' = "loadx" /\ printed' = printed /\ local' = local
        /\ Con' = Stored(Con, local.index, local.ch)
    BY <1>1, <1>7, ConsoleLemma DEF Store, Goto
  <2>2. local.index \in low .. (Rows + 1) * Columns - 1
    <3>1. local.index \in low .. Rows * Columns - 1
      BY <1>3, <2>1 DEF RegistersOK, low
    <3>. DEFINE b == Rows * Columns
    <3>2. b \in Nat /\ (Rows + 1) * Columns = b + Columns
      BY RowsLemma
    <3>. HIDE DEF b
    <3>3. local.index \in low .. (b + Columns) - 1
      BY <1>1, <3>1, <3>2 DEF b
    <3>. QED
      BY <3>2, <3>3, Zenon
  <2>3. Untold(Con', low) /\ Con'.x = Con.x /\ Con'.y = Con.y
    BY <1>1, <2>1, <2>2, StoredLemma
  <2>4. local.ch # "backspace"
    BY <1>3, <2>1 DEF RegistersOK
  <2>5. RegistersOK'
    BY <2>1, <2>4 DEF RegistersOK
  <2>. QED
    BY <1>1, <1>2, <1>4, <2>1, <2>3, <2>5 DEF NearScreen, AboutToScroll
<1>8. CASE Margin
  <2>1. /\ at = "margin" /\ at' \in {"edge", "loadx"} /\ printed' = printed /\ local' = local
        /\ Con' = Con
    BY <1>1, <1>8, ConsoleLemma DEF Margin, Goto
  <2>2. RegistersOK'
    BY <1>1, <1>3, <2>1 DEF RegistersOK, low
  <2>. QED
    BY <1>1, <1>2, <1>4, <2>1, <2>2 DEF AboutToScroll
<1>9. CASE LoadX
  <2>1. /\ at = "loadx" /\ at' = "storex" /\ printed' = printed /\ Con' = Con
        /\ local' = [local EXCEPT !.reg = Con.x]
    BY <1>1, <1>9, ConsoleLemma DEF LoadX, Goto
  <2>2. local'.reg = Con.x /\ local'.ch = local.ch
    BY <1>1, <2>1 DEF RegisterType
  <2>3. Con.x \in low .. Columns - 1 /\ Con.y # Rows
    BY <1>1, <1>2, <2>1 DEF AboutToScroll
  <2>4. RegistersOK'
    BY <1>1, <1>3, <2>1, <2>2, <2>3 DEF RegistersOK, low
  <2>. QED
    BY <1>1, <1>2, <1>4, <2>1, <2>3, <2>4
<1>10. CASE StoreX
  <2>. DEFINE x == Column(local.reg, local.ch)
  <2>1. /\ at = "storex" /\ at' \in {"edge", "echo"} /\ printed' = printed /\ local' = local
        /\ Con' = [Con EXCEPT !.x = x]
    BY <1>1, <1>10, ConsoleLemma DEF StoreX, Goto, SetX
  <2>2. /\ local.reg \in low .. Columns - 1 /\ (local.ch = "backspace" => local.reg > low)
    BY <1>3, <2>1 DEF RegistersOK, low
  <2>3. x \in low .. Columns
    <3>1. CASE local.ch = "tab"
      BY <1>1, <2>2, <3>1, TabLemma
    <3>2. CASE local.ch # "tab"
      BY <1>1, <2>2, <3>2 DEF Column
    <3>. QED
      BY <3>1, <3>2
  <2>. HIDE DEF x
  <2>4. Untold(Con', low) /\ Con'.x = x /\ Con'.y = Con.y
    BY <1>1, <2>1 DEF Untold, ConsoleFields
  <2>5. Con.y < Rows
    BY <1>1, <1>2, <2>1 DEF AboutToScroll
  <2>6. NearScreen(Con', low)
    BY <1>1, <1>2, <2>3, <2>4, <2>5 DEF NearScreen
  <2>7. RegistersOK'
    BY <2>1 DEF RegistersOK
  <2>. QED
    BY <1>1, <1>2, <1>4, <2>1, <2>4, <2>5, <2>6, <2>7
<1>11. CASE ClearX
  <2>1. /\ at = "clearx" /\ at' \in {"loady", "echo"} /\ printed' = printed /\ local' = local
        /\ Con' = [Con EXCEPT !.x = 0]
    BY <1>1, <1>11, ConsoleLemma DEF ClearX, Goto, SetX
  <2>2. Untold(Con', low) /\ Con'.x = 0 /\ Con'.y = Con.y
    BY <1>1, <2>1 DEF Untold, ConsoleFields
  <2>3. Con.y < Rows
    BY <1>1, <1>2, <2>1 DEF AboutToScroll
  <2>4. NearScreen(Con', low)
    BY <1>1, <1>2, <2>2, <2>3 DEF NearScreen
  <2>5. RegistersOK'
    BY <2>1 DEF RegistersOK
  <2>. QED
    BY <1>1, <1>2, <1>4, <2>1, <2>2, <2>3, <2>4, <2>5
<1>12. CASE LoadY
  <2>1. /\ at = "loady" /\ at' = "storey" /\ printed' = printed /\ Con' = Con
        /\ local' = [local EXCEPT !.reg = Con.y]
    BY <1>1, <1>12, ConsoleLemma DEF LoadY, Goto
  <2>2. local'.reg = Con.y
    BY <1>1, <2>1 DEF RegisterType
  <2>3. Con.y \in 0 .. Rows - 1 /\ Con.x # Columns
    BY <1>1, <1>2, <2>1 DEF AboutToScroll
  <2>4. RegistersOK'
    BY <2>1, <2>2, <2>3 DEF RegistersOK
  <2>. QED
    BY <1>1, <1>2, <1>4, <2>1, <2>3, <2>4
<1>13. CASE StoreY
  <2>1. /\ at = "storey" /\ at' \in {"below", "echo"} /\ printed' = printed /\ local' = local
        /\ Con' = [Con EXCEPT !.y = local.reg + 1]
    BY <1>1, <1>13, ConsoleLemma DEF StoreY, Goto, SetY
  <2>2. local.reg \in 0 .. Rows - 1
    BY <1>3, <2>1 DEF RegistersOK
  <2>3. Untold(Con', low) /\ Con'.x = Con.x /\ Con'.y = local.reg + 1
    BY <1>1, <2>1 DEF Untold, ConsoleFields
  <2>4. Con.x < Columns
    BY <1>1, <1>2, <2>1
  <2>5. NearScreen(Con', low)
    BY <1>1, <1>2, <2>2, <2>3, <2>4 DEF NearScreen
  <2>6. RegistersOK'
    BY <2>1 DEF RegistersOK
  <2>. QED
    BY <1>1, <1>2, <1>4, <2>1, <2>3, <2>4, <2>5, <2>6 DEF AboutToScroll
<1>14. CASE Echo
  <2>1. /\ at = "echo" /\ at' = "edge" /\ printed' = printed /\ Con' = Echoed(Con, local.ch)
    BY <1>1, <1>14, ConsoleLemma DEF Echo, Goto
  <2>2. Untold(Con', low) /\ Con'.x = Con.x /\ Con'.y = Con.y
    BY <1>1, <2>1, EchoedLemma
  <2>3. RegistersOK'
    BY <2>1 DEF RegistersOK
  <2>. QED
    BY <1>1, <1>2, <1>4, <2>1, <2>2, <2>3 DEF NearScreen, AboutToScroll
<1>15. CASE Edge
  <2>1. /\ at = "edge" /\ at' = IF AtEdge(Con) THEN "clearx" ELSE "below"
        /\ printed' = printed /\ Con' = Con
    BY <1>1, <1>15, ConsoleLemma DEF Edge, Goto
  <2>2. /\ at' = "clearx" => Con.x = Columns
        /\ at' # "clearx" => at' = "below" /\ Con.x < Columns
    BY <1>1, <1>2, <2>1 DEF AtEdge
  <2>3. RegistersOK'
    BY <2>2 DEF RegistersOK
  <2>. QED
    BY <1>1, <1>2, <1>4, <2>1, <2>2, <2>3 DEF AboutToScroll
<1>16. CASE Below
  <2>1. /\ at = "below" /\ at' = IF BelowScreen(Con) THEN "excess" ELSE "done"
        /\ printed' = printed /\ Con' = Con
    BY <1>1, <1>16, ConsoleLemma DEF Below, Goto
  <2>2. /\ at' = "excess" => Con.y = Rows
        /\ at' # "excess" => at' = "done" /\ Con.y < Rows
    BY <1>1, <1>2, <2>1 DEF BelowScreen
  <2>3. RegistersOK'
    BY <2>1, <2>2 DEF RegistersOK
  <2>. QED
    BY <1>1, <1>2, <1>4, <2>1, <2>2, <2>3 DEF AboutToScroll
<1>17. CASE LoadExcess
  <2>1. /\ at = "excess" /\ at' = "scroll" /\ printed' = printed /\ Con' = Con
        /\ local' = [local EXCEPT !.reg = Excess(Con), !.index = 0]
    BY <1>1, <1>17, ConsoleLemma DEF LoadExcess, Goto
  <2>2. local'.reg = Excess(Con) /\ local'.index = 0
    BY <1>1, <2>1 DEF RegisterType
  <2>3. Excess(Con) \in {0, 1}
    BY <1>1, <1>3, <2>1 DEF RegistersOK, Excess
  <2>4. local'.index \in 0 .. Kept' + Columns - 1
    <3>1. Kept' = (Rows - Excess(Con)) * Columns
      BY <2>2 DEF Kept
    <3>2. Rows - Excess(Con) \in 0 .. Rows
      BY <1>1, <2>3
    <3>3. Kept' \in Nat
      BY <3>1, <3>2, RowsLemma
    <3>4. \A k \in Nat : 0 \in 0 .. k + Columns - 1
      BY <1>1
    <3>. QED
      BY <2>2, <3>3, <3>4, Zenon
  <2>5. RegistersOK'
    BY <2>1, <2>2, <2>3, <2>4 DEF RegistersOK
  <2>. QED
    BY <1>1, <1>2, <1>4, <2>1, <2>5 DEF AboutToScroll
<1>18. CASE ScrollCell
  <2>1. /\ at = "scroll" /\ at' = IF local.index + 1 = Kept + Columns THEN "last" ELSE "scroll"
        /\ printed' = printed /\ local' = [local EXCEPT !.index = @ + 1]
        /\ \E cell : Con' = [Con EXCEPT !.text[local.index] = cell]
    BY <1>1, <1>18, ConsoleLemma DEF ScrollCell, Goto
  <2>2. /\ local.reg \in {0, 1} /\ local.index \in 0 .. Kept + Columns - 1
        /\ local'.reg = local.reg /\ local'.index = local.index + 1
    BY <1>1, <1>3, <2>1 DEF RegistersOK, RegisterType
  <2>3. Kept' = Kept
    BY <2>2 DEF Kept
  <2>4. Kept \in Nat /\ Kept <= Rows * Columns
    <3>1. Rows - local.reg \in 0 .. Rows
      BY <1>1, <2>2
    <3>. QED
      BY <3>1, RowsLemma DEF Kept
  <2>5. PICK cell : Con' = [Con EXCEPT !.text[local.index] = cell]
    BY <2>1
  <2>6. local.index \in low .. (Rows + 1) * Columns - 1
    <3>. DEFINE b == Rows * Columns
    <3>1. b \in Nat /\ (Rows + 1) * Columns = b + Columns
      BY RowsLemma
    <3>. HIDE DEF b
    <3>2. local.index \in low .. (b + Columns) - 1
      BY <1>1, <2>2, <2>4, <3>1 DEF b
    <3>. QED
      BY <3>1, <3>2, Zenon
  <2>7. Untold(Con', low) /\ Con'.x = Con.x /\ Con'.y = Con.y
    <3>1. \A a \in TextMemory : (a < low \/ a >= (Rows + 1) * Columns) => a # local.index
      BY <1>1, <2>6, RowsLemma DEF TextMemory
    <3>2. /\ DOMAIN Con' = ConsoleFields /\ Con'.text = [Con.text EXCEPT ![local.index] = cell]
          /\ Con'.x = Con.x /\ Con'.y = Con.y
      BY <1>1, <2>5 DEF Untold, ConsoleFields
    <3>. QED
      BY <1>1, <3>1, <3>2 DEF Untold
  <2>8. RegistersOK'
    <3>1. local.index + 1 # Kept + Columns => local'.index \in 0 .. Kept' + Columns - 1
      BY <1>1, <2>2, <2>3, <2>4
    <3>. QED
      BY <2>1, <2>2, <3>1 DEF RegistersOK
  <2>. QED
    BY <1>1, <1>2, <1>4, <2>1, <2>7, <2>8 DEF NearScreen, AboutToScroll
<1>19. CASE LastRow
  <2>1. /\ at = "last" /\ at' = "done" /\ printed' = printed /\ local' = local
        /\ Con' = [Con EXCEPT !.y = Rows - 1]
    BY <1>1, <1>19, ConsoleLemma DEF LastRow, Goto, SetY
  <2>2. Untold(Con', low) /\ Con'.x = Con.x /\ Con'.y = Rows - 1
    BY <1>1, <2>1 DEF Untold, ConsoleFields
  <2>3. NearScreen(Con', low) /\ Con'.x # Columns /\ Con'.y # Rows
    BY <1>1, <1>2, <2>1, <2>2 DEF NearScreen
  <2>4. RegistersOK'
    BY <2>1 DEF RegistersOK
  <2>. QED
    BY <1>1, <1>4, <2>1, <2>2, <2>3, <2>4
<1>20. CASE MoveCursor
  <2>1. /\ at = "done" /\ at' = "idle" /\ printed' = printed /\ Con' = Con
    BY <1>1, <1>20, ConsoleLemma DEF MoveCursor, Goto
  <2>2. RegistersOK'
    BY <2>1 DEF RegistersOK
  <2>. QED
    BY <1>1, <1>2, <1>4, <2>1, <2>2 DEF AboutToScroll
<1>. QED
  BY <1>5, <1>6, <1>7, <1>8, <1>9, <1>10, <1>11, <1>12, <1>13, <1>14, <1>15, <1>16, <1>17, <1>18, <1>19, <1>20, <1>24
     DEF Putch

LEMMA NextCursor == DriversInv /\ CursorInv /\ [Next]_vars => CursorInv'
<1>. SUFFICES ASSUME DriversInv, CursorInv, [Next]_vars PROVE CursorInv'
  OBVIOUS
<1>. DEFINE low == LeftMost
<1>1. /\ MachineOK /\ printed \in Seq(Printable)
      /\ Untold(Con, low) /\ NearScreen(Con, low)
      /\ low \in Int /\ low <= 0 /\ (printed' = printed => LeftMost' = low)
      /\ Columns \in Nat \ {0} /\ Rows \in Nat /\ Rows > 1
  BY LeftMostLemma, RowsLemma DEF DriversInv, MainOK, CursorInv, CursorOK
<1>2. /\ Con.x \in low .. Columns /\ Con.y \in 0 .. Rows
      /\ Con.y = Rows => at \in AboutToScroll
      /\ Con.x = Columns => at \in {"echo", "edge", "clearx"}
  BY <1>1 DEF CursorInv, CursorOK, NearScreen
<1>3. RegistersOK
  BY DEF CursorInv
<1>4. ASSUME UNCHANGED <<at, local, printed, Con>> PROVE CursorInv'
  <2>1. LeftMost' = LeftMost
    BY <1>1, <1>4
  <2>2. Kept' = Kept
    BY <1>4 DEF Kept
  <2>. QED
    BY <1>4, <2>1, <2>2 DEF CursorInv, CursorOK, RegistersOK
<1>5. ASSUME UNCHANGED <<printed, Con>>, {at, at'} \subseteq ClockLabels \cup KeyLabels \cup {"idle"}
      PROVE  CursorInv'
  <2>1. LeftMost' = LeftMost
    BY <1>1, <1>5
  <2>2. CursorOK'
    BY <1>1, <1>2, <1>5, <2>1 DEF CursorOK, AboutToScroll, ClockLabels, KeyLabels
  <2>3. RegistersOK'
    BY <1>5 DEF RegistersOK, ClockLabels, KeyLabels
  <2>. QED
    BY <1>1, <1>5, <2>2, <2>3 DEF CursorInv
<1>6. CASE DeviceTick \/ DeviceKey \/ DeviceDisk \/ Interrupt
  BY <1>4, <1>6, DeviceLemma DEF Con
<1>7. CASE Handle
  <2>1. /\ UNCHANGED <<at, local>>
        /\ Con' = IF Prints(irq) THEN puts(Con, Timer!Message) ELSE Con
    BY <1>7, HandleLemma DEF Con
  <2>2. printed' = printed \/ printed' = printed \o Timer!Message
    BY <1>7 DEF Handle
  <2>3. printed' \in Seq(Printable) /\ LeftMost' = low
    BY <1>1, <2>2, LeftMostLemma
  <2>. HIDE DEF low
  <2>4. CASE ~Prints(irq)
    <3>1. Kept' = Kept /\ Con' = Con
      BY <2>1, <2>4 DEF Kept
    <3>2. CursorOK'
      BY <1>1, <1>2, <2>1, <2>3, <3>1 DEF CursorOK
    <3>3. RegistersOK'
      BY <1>3, <2>1, <2>3, <3>1 DEF RegistersOK, low
    <3>. QED
      BY <2>3, <3>2, <3>3 DEF CursorInv
  <2>5. CASE Prints(irq)
    <3>1. /\ Untold(Con', low) /\ OnScreen(Con', low) /\ Con'.x = 0
          /\ Con.y >= Rows - 1 => Con'.y = Rows - 1
      BY <1>1, <2>1, <2>5, HandlerPrints
    <3>2. Kept' = Kept
      BY <2>1 DEF Kept
    <3>3. Con'.y \in 0 .. Rows - 1 /\ NearScreen(Con', low)
      BY <1>1, <3>1 DEF OnScreen, NearScreen
    <3>4. CursorOK'
      BY <1>1, <2>3, <3>1, <3>3 DEF CursorOK
    <3>5. at = "excess" => Con'.y \in {Rows - 1, Rows}
      BY <1>1, <1>3, <3>1 DEF RegistersOK
    <3>6. (at \in {"margin", "loadx"} /\ local.ch = "backspace") => Con'.x > low
      BY <1>1, <1>3, <3>1 DEF RegistersOK, low
    <3>7. RegistersOK'
      BY <1>3, <2>1, <2>3, <3>2, <3>5, <3>6 DEF RegistersOK, low
    <3>. QED
      BY <2>3, <3>4, <3>7 DEF CursorInv
  <2>. QED
    BY <2>4, <2>5
<1>8. CASE Putch
  BY <1>8, PutchCursor
<1>9. CASE ReadClock
  BY <1>5, <1>9, ClockDrivers DEF Con
<1>10. CASE ReadKey
  <2>1. /\ UNCHANGED printed /\ {at, at'} \subseteq KeyLabels \cup {"idle"}
        /\ \/ machine' = machine
           \/ machine' = [machine EXCEPT !.keyboard.key_pressed = FALSE]
    BY <1>10, KeysDrivers
  <2>2. Con' = Con
    BY <1>1, <2>1 DEF MachineOK, MachineFields, Con
  <2>. QED
    BY <1>5, <2>1, <2>2
<1>11. CASE UNCHANGED vars
  BY <1>4, <1>11 DEF vars, Con
<1>. QED
  BY <1>6, <1>7, <1>8, <1>9, <1>10, <1>11 DEF Next, MainStep

-----------------------------------------------------------------------------
LEMMA CursorIsTyped == CursorInv => CursorType
<1>. SUFFICES ASSUME CursorInv PROVE CursorType
  OBVIOUS
<1>1. LeftMost \in Int /\ Columns \in Int /\ Rows \in Int
  BY LeftMostLemma, RowsLemma DEF CursorInv
<1>. QED
  BY <1>1 DEF CursorInv, CursorOK, NearScreen, CursorType

LEMMA DevicesInvariant == Spec => [](DriversInv /\ CursorInv)
<1>1. Init => DriversInv /\ CursorInv
  BY InitDrivers, InitCursor
<1>2. DriversInv /\ CursorInv /\ [Next]_vars => DriversInv' /\ CursorInv'
  BY NextDrivers, NextCursor, CursorIsTyped
<1>. QED
  BY <1>1, <1>2, PTL DEF Spec

-----------------------------------------------------------------------------
(***************************************************************************)
(* Recursive functions on the positions of a sequence.  Two of them that   *)
(* begin alike and go on alike agree, and one exists for every length.     *)
(***************************************************************************)
LEMMA SameTurns ==
    ASSUME NEW f, NEW g, NEW n \in Nat, f[0] = g[0],
           \A k \in 1 .. n : f[k - 1] = g[k - 1] => f[k] = g[k]
    PROVE  \A k \in 0 .. n : f[k] = g[k]
<1>. DEFINE T == {k \in 0 .. n : f[k] # g[k]}
<1>1. SUFFICES ASSUME T # {} PROVE FALSE
  OBVIOUS
<1>2. PICK x \in T : \A y \in T : x <= y
  <2>1. T \subseteq Nat
    OBVIOUS
  <2>. QED
    BY <1>1, <2>1, LeastElement
<1>3. x \in 1 .. n /\ x - 1 \in 0 .. n /\ x - 1 \notin T
  BY <1>2
<1>. QED
  BY <1>2, <1>3

PickTurns(g, n, s, I) ==
    [k \in 0 .. n |-> IF k = 0 THEN <<>> ELSE IF k \in I THEN Append(g[k - 1], s[k]) ELSE g[k - 1]]

LEMMA PickRuns == ASSUME NEW s, NEW I, NEW n \in Nat PROVE \E g : g = PickTurns(g, n, s, I)
<1>. DEFINE T == {k \in 0 .. n : ~\E g : g = PickTurns(g, k, s, I)}
<1>1. SUFFICES ASSUME T # {} PROVE FALSE
  OBVIOUS
<1>2. PICK x \in T : \A y \in T : x <= y
  <2>1. T \subseteq Nat
    OBVIOUS
  <2>. QED
    BY <1>1, <2>1, LeastElement
<1>3. x # 0
  <2>1. [k \in 0 .. 0 |-> <<>>] = PickTurns([k \in 0 .. 0 |-> <<>>], 0, s, I)
    BY DEF PickTurns
  <2>. QED
    BY <1>2, <2>1
<1>4. x \in Nat /\ x - 1 \in 0 .. n /\ x - 1 \notin T
  BY <1>2, <1>3
<1>5. PICK g : g = PickTurns(g, x - 1, s, I)
  BY <1>4
<1>. DEFINE h == [k \in 0 .. x |-> IF k < x THEN g[k]
                                  ELSE IF k \in I THEN Append(g[k - 1], s[k]) ELSE g[k - 1]]
<1>6. ASSUME NEW k \in 0 .. x
      PROVE  h[k] = IF k = 0 THEN <<>> ELSE IF k \in I THEN Append(h[k - 1], s[k]) ELSE h[k - 1]
  <2>1. k # 0 => k - 1 \in 0 .. x /\ k - 1 < x /\ h[k - 1] = g[k - 1]
    BY <1>4
  <2>2. CASE k = x
    BY <1>3, <2>1, <2>2
  <2>3. CASE k < x
    <3>1. k \in 0 .. x - 1
      BY <1>4, <2>3
    <3>2. g[k] = IF k = 0 THEN <<>> ELSE IF k \in I THEN Append(g[k - 1], s[k]) ELSE g[k - 1]
      BY <1>5, <3>1 DEF PickTurns
    <3>. QED
      BY <2>1, <2>3, <3>2
  <2>. QED
    BY <1>4, <2>2, <2>3
<1>7. h = PickTurns(h, x, s, I)
  <2>. DEFINE E(k) == IF k = 0 THEN <<>> ELSE IF k \in I THEN Append(h[k - 1], s[k]) ELSE h[k - 1]
  <2>1. h = [k \in 0 .. x |-> h[k]] /\ \A k \in 0 .. x : h[k] = E(k)
    BY <1>6
  <2>. HIDE DEF h
  <2>. QED
    BY <2>1 DEF PickTurns
<1>. HIDE DEF h
<1>. QED
  BY <1>2, <1>7

LEMMA PickedTurns ==
    ASSUME NEW s, NEW I, Len(s) \in Nat
    PROVE  \E g : /\ Picked(s, I) = g[Len(s)] /\ g[0] = <<>>
                  /\ \A k \in 1 .. Len(s) : g[k] = IF k \in I THEN Append(g[k - 1], s[k]) ELSE g[k - 1]
<1>. DEFINE f == CHOOSE g : g = PickTurns(g, Len(s), s, I)
<1>1. f = PickTurns(f, Len(s), s, I)
  BY PickRuns
<1>2. Picked(s, I) = f[Len(s)]
  BY DEF Picked, PickTurns
<1>. HIDE DEF f
<1>3. \A k \in 0 .. Len(s) :
         f[k] = IF k = 0 THEN <<>> ELSE IF k \in I THEN Append(f[k - 1], s[k]) ELSE f[k - 1]
  BY <1>1 DEF PickTurns
<1>4. 0 \in 0 .. Len(s) /\ \A k \in 1 .. Len(s) : k \in 0 .. Len(s) /\ k # 0
  OBVIOUS
<1>. QED
  BY <1>2, <1>3, <1>4

LEMMA PickedLemma ==
    ASSUME NEW S, NEW s \in Seq(S), NEW c \in S, NEW I, NEW J,
           \A i \in 1 .. Len(s) : i \in I <=> i \in J
    PROVE  Picked(Append(s, c), J) = IF Len(s) + 1 \in J THEN Append(Picked(s, I), c) ELSE Picked(s, I)
<1>. DEFINE t == Append(s, c)
            n == Len(s)
<1>1. n \in Nat /\ Len(t) = n + 1 /\ t[n + 1] = c /\ \A k \in 1 .. n : t[k] = s[k]
  OBVIOUS
<1>. HIDE DEF t, n
<1>2. PICK f : /\ Picked(s, I) = f[n] /\ f[0] = <<>>
               /\ \A k \in 1 .. n : f[k] = IF k \in I THEN Append(f[k - 1], s[k]) ELSE f[k - 1]
  BY <1>1, PickedTurns DEF n
<1>3. PICK g : /\ Picked(t, J) = g[n + 1] /\ g[0] = <<>>
               /\ \A k \in 1 .. n + 1 : g[k] = IF k \in J THEN Append(g[k - 1], t[k]) ELSE g[k - 1]
  <2>1. Len(t) \in Nat
    BY <1>1
  <2>. QED
    BY <1>1, <2>1, PickedTurns
<1>4. \A k \in 1 .. n : f[k - 1] = g[k - 1] => f[k] = g[k]
  <2>1. \A k \in 1 .. n : k \in 1 .. n + 1 /\ (k \in I <=> k \in J)
    BY <1>1 DEF n
  <2>. QED
    BY <1>1, <1>2, <1>3, <2>1
<1>5. f[n] = g[n]
  <2>1. n \in Nat /\ n \in 0 .. n
    BY <1>1
  <2>2. f[0] = g[0]
    BY <1>2, <1>3
  <2>3. \A k \in 0 .. n : f[k] = g[k]
    BY <1>4, <2>1, <2>2, SameTurns
  <2>. QED
    BY <2>1, <2>3
<1>6. n + 1 \in 1 .. n + 1 /\ (n + 1) - 1 = n
  BY <1>1
<1>7. g[n + 1] = IF n + 1 \in J THEN Append(g[n], c) ELSE g[n]
  BY <1>1, <1>3, <1>6
<1>. QED
  BY <1>2, <1>3, <1>5, <1>7 DEF t, n

LEMMA PickedEmpty == ASSUME NEW I PROVE Picked(<<>>, I) = <<>>
<1>1. Len(<<>>) = 0
  OBVIOUS
<1>2. PICK g : Picked(<<>>, I) = g[0] /\ g[0] = <<>>
  <2>1. Len(<<>>) \in Nat
    OBVIOUS
  <2>. QED
    BY <1>1, <2>1, PickedTurns
<1>. QED
  BY <1>2

-----------------------------------------------------------------------------
(***************************************************************************)
(* The redirected output.                                                  *)
(***************************************************************************)
LEMMA EchoesAppend ==
    ASSUME NEW s \in Seq(Printable), NEW c \in Printable
    PROVE  Echoes(Append(s, c)) = IF c \in Silent THEN Echoes(s) ELSE Append(Echoes(s), c)
<1>. DEFINE t == Append(s, c)
            I == {i \in DOMAIN s : s[i] \notin Silent}
            J == {i \in DOMAIN t : t[i] \notin Silent}
<1>1. /\ Len(s) \in Nat /\ DOMAIN s = 1 .. Len(s) /\ DOMAIN t = 1 .. Len(s) + 1 /\ t[Len(s) + 1] = c
      /\ \A i \in 1 .. Len(s) : t[i] = s[i]
  OBVIOUS
<1>. HIDE DEF t
<1>2. (\A i \in 1 .. Len(s) : i \in I <=> i \in J) /\ (Len(s) + 1 \in J <=> c \notin Silent)
  BY <1>1
<1>. HIDE DEF I, J
<1>3. Picked(t, J) = IF Len(s) + 1 \in J THEN Append(Picked(s, I), c) ELSE Picked(s, I)
  BY <1>2, PickedLemma DEF t
<1>. QED
  BY <1>2, <1>3 DEF Echoes, t, I, J

\* The lines of the handler in a sequence are complete.
Complete(s) == s # <<>> => s[Len(s)] # "s"

LEMMA OfMainAppend ==
    ASSUME NEW s \in Seq(Printable), NEW c \in Printable
    PROVE  LET handlers == c = "s" \/ (s # <<>> /\ s[Len(s)] = "s")
           IN  OfMain(Append(s, c)) = IF handlers THEN OfMain(s) ELSE Append(OfMain(s), c)
<1>. DEFINE t == Append(s, c)
            I == {i \in DOMAIN s : ~OfHandler(s, i)}
            J == {i \in DOMAIN t : ~OfHandler(t, i)}
<1>1. /\ Len(s) \in Nat /\ DOMAIN s = 1 .. Len(s) /\ DOMAIN t = 1 .. Len(s) + 1 /\ t[Len(s) + 1] = c
      /\ \A i \in 1 .. Len(s) : t[i] = s[i]
      /\ s # <<>> <=> Len(s) # 0
  BY EmptySeq
<1>. HIDE DEF t
<1>2. \A i \in 1 .. Len(s) : i \in I <=> i \in J
  <2>1. ASSUME NEW i \in 1 .. Len(s) PROVE OfHandler(s, i) <=> OfHandler(t, i)
    <3>1. i > 1 => i - 1 \in 1 .. Len(s)
      BY <1>1
    <3>. QED
      BY <1>1, <3>1 DEF OfHandler
  <2>2. \A i \in 1 .. Len(s) : i \in 1 .. Len(s) + 1
    BY <1>1
  <2>. QED
    BY <1>1, <2>1, <2>2
<1>3. Len(s) + 1 \in J <=> ~(c = "s" \/ (s # <<>> /\ s[Len(s)] = "s"))
  <2>1. /\ Len(s) + 1 \in 1 .. Len(s) + 1 /\ (Len(s) + 1) - 1 = Len(s)
        /\ (Len(s) + 1 > 1 <=> s # <<>>) /\ (s # <<>> => Len(s) \in 1 .. Len(s))
    BY <1>1
  <2>. QED
    BY <1>1, <2>1 DEF OfHandler
<1>. HIDE DEF I, J
<1>4. Picked(t, J) = IF Len(s) + 1 \in J THEN Append(Picked(s, I), c) ELSE Picked(s, I)
  BY <1>2, PickedLemma DEF t
<1>. QED
  BY <1>3, <1>4 DEF OfMain, t, I, J

\* A line of the handler is nothing of the main thread.
LEMMA LineLemma ==
    ASSUME NEW s \in Seq(Printable)
    PROVE  LET t == Append(Append(s, "s"), "newline")
           IN  /\ t \in Seq(Printable) /\ Len(t) = Len(s) + 2 /\ Complete(t)
               /\ OfMain(t) = OfMain(s)
               /\ Echoes(t) = Append(Append(Echoes(s), "s"), "newline")
               /\ s \o Timer!Message = t
               /\ \A i \in 1 .. Len(s) : t[i] = s[i]
               /\ t[Len(s) + 1] = "s" /\ t[Len(s) + 2] = "newline"
<1>. DEFINE u == Append(s, "s")
            t == Append(u, "newline")
<1>1. {"s", "newline"} \subseteq Printable
  BY DEF Printable
<1>2. /\ u \in Seq(Printable) /\ Len(u) = Len(s) + 1 /\ u # <<>> /\ u[Len(u)] = "s"
      /\ \A i \in 1 .. Len(s) : u[i] = s[i]
  BY <1>1
<1>3. OfMain(u) = OfMain(s) /\ Echoes(u) = Append(Echoes(s), "s")
  BY <1>1, OfMainAppend, EchoesAppend DEF Silent
<1>4. s \o <<"s", "newline">> = t
  <2>1. <<"s", "newline">> \in Seq(Printable)
    BY <1>1
  <2>. QED
    BY <1>1, <2>1, SeqEqual
<1>. HIDE DEF u
<1>5. OfMain(t) = OfMain(u) /\ Echoes(t) = Append(Echoes(u), "newline")
  BY <1>1, <1>2, OfMainAppend, EchoesAppend DEF Silent
<1>6. /\ t \in Seq(Printable) /\ Len(t) = Len(s) + 2 /\ Complete(t)
      /\ \A i \in 1 .. Len(s) : t[i] = s[i]
      /\ t[Len(s) + 1] = "s" /\ t[Len(s) + 2] = "newline"
  BY <1>1, <1>2 DEF Complete
<1>. QED
  BY <1>3, <1>4, <1>5, <1>6 DEF u, Timer!Message

(***************************************************************************)
(* Which characters reach which step of putch, and when the row was full.  *)
(***************************************************************************)
FullRow == {"clearx", "loady", "storey", "below", "excess", "scroll", "last", "done"}

FlowOK ==
    /\ at \in PrintLabels => local.ch \in Characters
    /\ local.edge => at \in FullRow
    /\ at \in {"row", "column", "store"} => local.ch \notin Controls
    /\ at = "margin" => local.ch = "backspace"
    /\ at \in {"loadx", "storex"} => local.ch \notin {"return", "newline"}
    /\ at = "echo" => local.ch \notin Silent
    /\ (at = "clearx" /\ ~local.edge) => local.ch \in {"return", "newline"}
    /\ (at \in {"loady", "storey"} /\ ~local.edge) => local.ch = "newline"

LEMMA PutchFlow ==
    ASSUME DriversInv, FlowOK, Putch
    PROVE  FlowOK'
<1>1. local \in RegisterType
  BY DEF DriversInv, MainOK
<1>2. /\ DOMAIN local = {"ch", "reg", "index", "edge", "seconds", "ticks", "then", "key", "before"}
      /\ local.edge \in BOOLEAN
  BY <1>1 DEF RegisterType
<1>3. ASSUME at \in PrintLabels, local'.ch = local.ch, local'.edge = local.edge,
             at' # "idle",
             local.edge => at' \in FullRow,
             at' \in {"row", "column", "store"} => local.ch \notin Controls,
             at' = "margin" => local.ch = "backspace",
             at' \in {"loadx", "storex"} => local.ch \notin {"return", "newline"},
             at' = "echo" => local.ch \notin Silent,
             (at' = "clearx" /\ ~local.edge) => local.ch \in {"return", "newline"},
             (at' \in {"loady", "storey"} /\ ~local.edge) => local.ch = "newline"
      PROVE  FlowOK'
  BY <1>3 DEF FlowOK
<1>4. CASE BeginPutch
  <2>1. PICK ch \in Characters :
            /\ local' = [local EXCEPT !.ch = ch]
            /\ at' = CASE ch \notin Controls -> "row"
                       [] ch = "backspace" -> "margin"
                       [] ch = "tab"       -> "loadx"
                       [] OTHER            -> "clearx"
    BY <1>4 DEF BeginPutch
  <2>2. local'.ch = ch /\ local'.edge = local.edge /\ ~local.edge
    BY <1>2, <1>4, <2>1 DEF BeginPutch, FlowOK, FullRow
  <2>3. /\ at' \in {"row", "margin", "loadx", "clearx"}
        /\ at' = "row" => ch \notin Controls
        /\ at' = "margin" => ch = "backspace"
        /\ at' = "loadx" => ch \notin {"return", "newline"}
        /\ at' = "clearx" => ch \in {"return", "newline"}
    BY <2>1 DEF Controls
  <2>. QED
    BY <2>1, <2>2, <2>3 DEF FlowOK
<1>5. CASE AddressRow \/ AddressColumn \/ Store \/ Margin \/ LoadX \/ StoreX
  BY <1>2, <1>3, <1>5 DEF AddressRow, AddressColumn, Store, Margin, LoadX, StoreX, Goto, FlowOK, PrintLabels,
         FullRow, Controls, Silent
<1>6. CASE ClearX \/ LoadY \/ StoreY \/ Echo
  BY <1>2, <1>3, <1>6 DEF ClearX, LoadY, StoreY, Echo, Goto, FlowOK, PrintLabels, FullRow, Controls, Silent
<1>7. CASE Edge
  <2>1. /\ at = "edge" /\ at' = IF AtEdge(Con) THEN "clearx" ELSE "below"
        /\ local' = [local EXCEPT !.edge = AtEdge(Con)]
    BY <1>7 DEF Edge, Goto
  <2>2. local'.edge = AtEdge(Con) /\ local'.ch = local.ch
    BY <1>2, <2>1
  <2>3. at' \in {"clearx", "below"} /\ (at' = "clearx" <=> local'.edge)
    BY <2>1, <2>2 DEF AtEdge
  <2>. QED
    BY <2>1, <2>2, <2>3 DEF FlowOK, PrintLabels, FullRow
<1>8. CASE Below \/ ScrollCell \/ LastRow
  BY <1>2, <1>3, <1>8 DEF Below, ScrollCell, LastRow, Goto, FlowOK, PrintLabels, FullRow, Controls, Silent
<1>9. CASE LoadExcess
  <2>1. /\ at = "excess" /\ at' = "scroll"
        /\ local' = [local EXCEPT !.reg = Excess(Con), !.index = 0]
    BY <1>9 DEF LoadExcess, Goto
  <2>2. local'.edge = local.edge /\ local'.ch = local.ch
    BY <1>2, <2>1
  <2>. QED
    BY <2>1, <2>2 DEF FlowOK, PrintLabels, FullRow
<1>10. CASE MoveCursor
  <2>1. at' = "idle" /\ ~local'.edge
    BY <1>10 DEF MoveCursor, Goto, Registers
  <2>. QED
    BY <2>1 DEF FlowOK, PrintLabels
<1>. QED
  BY <1>4, <1>5, <1>6, <1>7, <1>8, <1>9, <1>10 DEF Putch

\* What the other steps are to the console.
LEMMA OtherSteps ==
    ASSUME DriversInv, CursorType, [Next]_vars
    PROVE  \/ Putch
           \/ /\ Handle /\ UNCHANGED <<task, at, local>>
              /\ Con' = IF Prints(irq) THEN puts(Con, Timer!Message) ELSE Con
              /\ printed' = IF Prints(irq) /\ task = "print" THEN printed \o Timer!Message ELSE printed
           \/ UNCHANGED <<task, at, local, printed, raced, Con>>
           \/ /\ UNCHANGED <<task, printed, raced, Con>>
              /\ {at, at'} \subseteq ClockLabels \cup KeyLabels \cup {"idle"}
              /\ task # "print" /\ (local' = local \/ local'.edge = local.edge \/ local' = Registers)
<1>1. MachineOK /\ local \in RegisterType
  BY DEF DriversInv, MainOK
<1>2. CASE DeviceTick \/ DeviceKey \/ DeviceDisk \/ Interrupt
  <2>1. UNCHANGED <<task, at, local, printed, raced>>
    BY <1>2 DEF DeviceTick, DeviceKey, DeviceDisk, Interrupt
  <2>2. Con' = Con
    BY <1>2, DeviceLemma DEF Con
  <2>. QED
    BY <2>1, <2>2
<1>3. CASE Handle
  <2>1. UNCHANGED <<at, local>> /\ Con' = IF Prints(irq) THEN puts(Con, Timer!Message) ELSE Con
    BY <1>3, HandleLemma DEF Con
  <2>2. task' = task /\ printed' = IF Prints(irq) /\ task = "print" THEN printed \o Timer!Message ELSE printed
    BY <1>3 DEF Handle
  <2>. QED
    BY <1>3, <2>1, <2>2
<1>4. CASE ReadClock
  <2>1. /\ UNCHANGED <<task, printed, raced, machine>> /\ task # "print"
        /\ {at, at'} \subseteq ClockLabels \cup {"idle"}
    BY <1>4, ClockDrivers
  <2>2. local' = local \/ local'.edge = local.edge \/ local' = Registers
    BY <1>1, <1>4 DEF ReadClock, BeginCurrent, ReadSeconds, ReadTicks, EndCurrent, BeginWait, Wait, EndWait,
                      Goto, RegisterType
  <2>. QED
    BY <2>1, <2>2 DEF Con
<1>5. CASE ReadKey
  <2>1. /\ UNCHANGED <<task, printed, raced>> /\ task # "print"
        /\ {at, at'} \subseteq KeyLabels \cup {"idle"}
        /\ \/ machine' = machine
           \/ machine' = [machine EXCEPT !.keyboard.key_pressed = FALSE]
    BY <1>5, KeysDrivers DEF Stays
  <2>2. Con' = Con
    BY <1>1, <2>1 DEF MachineOK, MachineFields, Con
  <2>3. local' = local \/ local'.edge = local.edge \/ local' = Registers
    BY <1>1, <1>5 DEF ReadKey, BeginRead, ClearFlag, Spin, Fetch, EndRead, Goto, RegisterType
  <2>. QED
    BY <2>1, <2>2, <2>3
<1>6. CASE UNCHANGED vars
  BY <1>6 DEF vars, Con
<1>. QED
  BY <1>2, <1>3, <1>4, <1>5, <1>6 DEF Next, MainStep

LEMMA InitFlow == Init => FlowOK
BY DEF Init, FlowOK, Registers, PrintLabels

LEMMA NextFlow == DriversInv /\ FlowOK /\ CursorType /\ [Next]_vars => FlowOK'
<1>. SUFFICES ASSUME DriversInv, FlowOK, CursorType, [Next]_vars PROVE FlowOK'
  OBVIOUS
<1>1. CASE Putch
  BY <1>1, PutchFlow
<1>2. CASE UNCHANGED <<at, local>>
  BY <1>2 DEF FlowOK
<1>3. CASE /\ {at, at'} \subseteq ClockLabels \cup KeyLabels \cup {"idle"}
           /\ (local' = local \/ local'.edge = local.edge \/ local' = Registers)
  <2>1. ~local.edge
    BY <1>3 DEF FlowOK, FullRow, ClockLabels, KeyLabels
  <2>2. ~local'.edge
    BY <1>3, <2>1 DEF Registers
  <2>. QED
    BY <1>3, <2>2 DEF FlowOK, ClockLabels, KeyLabels, PrintLabels
<1>. QED
  BY <1>1, <1>2, <1>3, OtherSteps

Sent == Echoes(printed)

EchoInv ==
    Con.redirect =>
        /\ task = "print"
        /\ {Con.port, OfMain(Con.port), Sent} \subseteq Seq(Printable)
        /\ Complete(Con.port) /\ Complete(Sent)
        /\ Len(Con.port) + Len(Pending) = Len(Sent)
        /\ OfMain(Con.port) \o Pending = OfMain(Sent)
        /\ \A i \in DOMAIN Con.port :
              Con.port[i] = "s" => i < Len(Con.port) /\ Con.port[i + 1] = "newline"

\* What putch does to the port, in one piece and by its steps.
Sends(c, ch) == IF c.redirect /\ ch \notin Silent THEN Append(c.port, ch) ELSE c.port

LEMMA PutchSends ==
    ASSUME NEW c, DOMAIN c = ConsoleFields, NEW ch
    PROVE  LET q == putch(c, ch)
           IN  DOMAIN q = ConsoleFields /\ q.redirect = c.redirect /\ q.port = Sends(c, ch)
<1>. DEFINE same(q) == DOMAIN q = ConsoleFields /\ q.redirect = c.redirect /\ q.port = c.port
            stored == IF ch \in Controls THEN c ELSE Stored(c, Where(c), ch)
            moved  == [stored EXCEPT !.x = IF ch = "backspace" /\ AtMargin(c) THEN c.x ELSE Column(c.x, ch),
                                     !.y = IF ch = "newline" THEN c.y + 1 ELSE c.y]
            echoed == Echoed(moved, ch)
            edged  == IF AtEdge(echoed) THEN [echoed EXCEPT !.x = 0, !.y = @ + 1] ELSE echoed
<1>1. same(stored) /\ stored.x = c.x /\ stored.y = c.y
  BY DEF Stored, ConsoleFields
<1>2. putch(c, ch) = Scrolled(edged)
  <2>1. moved = [stored EXCEPT !.x = IF ch = "backspace" /\ AtMargin(c) THEN @ ELSE Column(@, ch),
                               !.y = IF ch = "newline" THEN @ + 1 ELSE @]
    BY <1>1
  <2>. HIDE DEF moved
  <2>. QED
    BY <2>1 DEF putch
<1>. HIDE DEF stored
<1>3. same(moved)
  BY <1>1 DEF ConsoleFields
<1>. HIDE DEF moved
<1>4. DOMAIN echoed = ConsoleFields /\ echoed.redirect = c.redirect /\ echoed.port = Sends(c, ch)
  BY <1>3 DEF Echoed, ConsoleFields, Sends, Silent
<1>. HIDE DEF echoed
<1>5. DOMAIN edged = ConsoleFields /\ edged.redirect = c.redirect /\ edged.port = Sends(c, ch)
  BY <1>4 DEF ConsoleFields
<1>. HIDE DEF edged
<1>6. \/ Scrolled(edged) = edged
      \/ \E text : Scrolled(edged) = [edged EXCEPT !.text = text, !.y = Rows - 1]
  BY DEF Scrolled
<1>. QED
  BY <1>2, <1>5, <1>6 DEF ConsoleFields

LEMMA MessageSends ==
    ASSUME NEW c, DOMAIN c = ConsoleFields
    PROVE  LET q == puts(c, Timer!Message)
           IN  /\ q.redirect = c.redirect
               /\ c.redirect => q.port = Append(Append(c.port, "s"), "newline")
<1>. DEFINE p == putch(c, "s")
            q == putch(p, "newline")
<1>1. DOMAIN p = ConsoleFields /\ p.redirect = c.redirect /\ p.port = Sends(c, "s")
  BY PutchSends
<1>. HIDE DEF p
<1>2. q.redirect = p.redirect /\ q.port = Sends(p, "newline")
  BY <1>1, PutchSends
<1>. QED
  BY <1>1, <1>2, MessageLemma DEF p, Sends, Silent

LEMMA PutchPort ==
    ASSUME DriversInv, CursorInv, FlowOK, Putch
    PROVE  /\ Con'.redirect = Con.redirect
           /\ \/ BeginPutch /\ Con' = Con
              \/ printed' = printed /\ Con'.port = Con.port /\ Pending' = Pending
              \/ /\ at = "echo" /\ at' = "edge" /\ printed' = printed /\ local' = local
                 /\ Con' = Echoed(Con, local.ch)
<1>1. MachineOK /\ local \in RegisterType /\ DOMAIN Con = ConsoleFields
  BY DEF DriversInv, MainOK, CursorInv, CursorOK, Untold
<1>2. DOMAIN local = {"ch", "reg", "index", "edge", "seconds", "ticks", "then", "key", "before"}
  BY <1>1 DEF RegisterType
<1>3. CASE BeginPutch
  BY <1>1, <1>3, ConsoleLemma DEF BeginPutch
<1>4. CASE AddressRow \/ AddressColumn \/ Margin \/ LoadX \/ LoadY \/ Edge \/ Below \/ LoadExcess \/ MoveCursor
  <2>1. Con' = Con /\ printed' = printed
    BY <1>1, <1>4, ConsoleLemma
       DEF AddressRow, AddressColumn, Margin, LoadX, LoadY, Edge, Below, LoadExcess, MoveCursor, Goto
  <2>2. CASE AddressRow \/ AddressColumn \/ Margin \/ LoadX \/ LoadY
    BY <1>2, <2>1, <2>2 DEF AddressRow, AddressColumn, Margin, LoadX, LoadY, Goto, Pending, FlowOK, Controls, Silent
  <2>3. CASE Edge
    <3>1. /\ at = "edge" /\ at' = IF AtEdge(Con) THEN "clearx" ELSE "below"
          /\ local' = [local EXCEPT !.edge = AtEdge(Con)]
      BY <2>3 DEF Edge, Goto
    <3>2. local'.edge = AtEdge(Con)
      BY <1>2, <3>1
    <3>. QED
      BY <2>1, <3>1, <3>2 DEF Pending
  <2>4. CASE Below \/ LoadExcess \/ MoveCursor
    BY <2>1, <2>4 DEF Below, LoadExcess, MoveCursor, Goto, Pending
  <2>. QED
    BY <1>4, <2>2, <2>3, <2>4
<1>5. CASE Store \/ StoreX \/ ClearX \/ StoreY \/ ScrollCell \/ LastRow
  <2>1. /\ printed' = printed /\ local'.ch = local.ch /\ local'.edge = local.edge
        /\ \/ \E w, cell : Con' = [Con EXCEPT !.text[w] = cell]
           \/ \E x : Con' = [Con EXCEPT !.x = x]
           \/ \E y : Con' = [Con EXCEPT !.y = y]
    <3>1. CASE Store \/ ScrollCell
      BY <1>1, <1>2, <3>1, ConsoleLemma DEF Store, ScrollCell, Goto, Stored
    <3>2. CASE StoreX \/ ClearX \/ StoreY \/ LastRow
      BY <1>1, <1>2, <3>2, ConsoleLemma DEF StoreX, ClearX, StoreY, LastRow, Goto, SetX, SetY
    <3>. QED
      BY <1>5, <3>1, <3>2
  <2>2. Con'.redirect = Con.redirect /\ Con'.port = Con.port
    BY <1>1, <2>1 DEF ConsoleFields
  <2>3. Pending' = Pending
    <3>1. CASE Store \/ StoreX \/ ClearX \/ StoreY
      BY <2>1, <3>1 DEF Store, StoreX, ClearX, StoreY, Goto, Pending, FlowOK, Controls, Silent
    <3>2. CASE ScrollCell \/ LastRow
      BY <3>2 DEF ScrollCell, LastRow, Goto, Pending
    <3>. QED
      BY <1>5, <3>1, <3>2
  <2>. QED
    BY <2>1, <2>2, <2>3
<1>6. CASE Echo
  BY <1>1, <1>6, ConsoleLemma DEF Echo, Goto, Echoed, ConsoleFields
<1>. QED
  BY <1>3, <1>4, <1>5, <1>6 DEF Putch

\* A character that the main thread sends.
LEMMA CharacterLemma ==
    ASSUME NEW s \in Seq(Printable), Complete(s), NEW ch \in Characters
    PROVE  /\ Append(s, ch) \in Seq(Printable) /\ Complete(Append(s, ch))
           /\ OfMain(Append(s, ch)) = Append(OfMain(s), ch)
           /\ Len(Append(s, ch)) = Len(s) + 1
<1>1. ch \in Printable /\ ch # "s"
  BY DevicesAssumption DEF Printable
<1>2. OfMain(Append(s, ch)) = Append(OfMain(s), ch)
  BY <1>1, OfMainAppend DEF Complete
<1>3. Append(s, ch) \in Seq(Printable) /\ Len(Append(s, ch)) = Len(s) + 1 /\ Append(s, ch)[Len(s) + 1] = ch
  BY <1>1
<1>. QED
  BY <1>1, <1>2, <1>3 DEF Complete

LEMMA InitEcho == Init => EchoInv
<1>. SUFFICES ASSUME Init PROVE EchoInv
  OBVIOUS
<1>1. printed = <<>> /\ at = "idle"
  BY DEF Init
<1>2. Con.port = <<>> /\ (Con.redirect => task = "print")
  BY DEF Init, Con, output_redirection, init, cls, set_TextColor, Untouched
<1>3. Sent = <<>> /\ OfMain(<<>>) = <<>> /\ Pending = <<>>
  BY <1>1, PickedEmpty DEF Sent, Echoes, OfMain, Pending
<1>4. <<>> \in Seq(Printable) /\ Len(<<>>) = 0 /\ DOMAIN <<>> = {}
  OBVIOUS
<1>5. <<>> \o <<>> = <<>>
  OBVIOUS
<1>6. {<<>>, OfMain(<<>>), Sent} \subseteq Seq(Printable)
  BY <1>3, <1>4
<1>7. Len(<<>>) + Len(Pending) = Len(Sent) /\ OfMain(<<>>) \o Pending = OfMain(Sent)
  BY <1>3, <1>4, <1>5
<1>. QED
  BY <1>2, <1>3, <1>4, <1>6, <1>7 DEF EchoInv, Complete

LEMMA NextEcho == DriversInv /\ CursorInv /\ FlowOK /\ EchoInv /\ [Next]_vars => EchoInv'
<1>. SUFFICES ASSUME DriversInv, CursorInv, FlowOK, EchoInv, [Next]_vars PROVE EchoInv'
  OBVIOUS
<1>1. /\ MachineOK /\ local \in RegisterType /\ DOMAIN Con = ConsoleFields /\ printed \in Seq(Printable)
      /\ CursorType /\ task' = task
  <2>1. CursorType
    BY CursorIsTyped
  <2>2. task' = task
    BY <2>1, OtherSteps, PutchDrivers DEF Stays
  <2>. QED
    BY <2>1, <2>2 DEF DriversInv, MainOK, CursorInv, CursorOK, Untold
<1>2. ASSUME Con'.redirect = Con.redirect, Con'.port = Con.port, printed' = printed, Pending' = Pending
      PROVE  EchoInv'
  BY <1>1, <1>2 DEF EchoInv, Sent
<1>3. CASE UNCHANGED <<at, local, printed, Con>>
  BY <1>2, <1>3 DEF Pending
<1>4. CASE /\ UNCHANGED <<printed, Con>>
           /\ {at, at'} \subseteq ClockLabels \cup KeyLabels \cup {"idle"}
  BY <1>2, <1>4 DEF Pending, ClockLabels, KeyLabels
<1>5. CASE Putch
  <2>1. CASE printed' = printed /\ Con'.port = Con.port /\ Pending' = Pending
    BY <1>2, <1>5, <2>1, PutchPort
  <2>2. ASSUME Con.redirect, BeginPutch, Con' = Con PROVE EchoInv'
    <3>1. PICK ch \in Characters :
              /\ printed' = Append(printed, ch) /\ local' = [local EXCEPT !.ch = ch]
              /\ at' = CASE ch \notin Controls -> "row"
                         [] ch = "backspace" -> "margin"
                         [] ch = "tab"       -> "loadx"
                         [] OTHER            -> "clearx"
      BY <2>2 DEF BeginPutch
    <3>2. local'.ch = ch /\ local'.edge = local.edge /\ ~local.edge /\ at = "idle"
      BY <1>1, <2>2, <3>1 DEF BeginPutch, FlowOK, FullRow, RegisterType
    <3>3. Pending = <<>> /\ Pending' = IF ch \in Silent THEN <<>> ELSE <<ch>>
      <4>1. /\ at' \in {"row", "margin", "loadx", "clearx"}
            /\ at' = "margin" => ch = "backspace"
        BY <3>1 DEF Controls
      <4>. QED
        BY <3>2, <4>1 DEF Pending, Silent
    <3>4. Sent' = IF ch \in Silent THEN Sent ELSE Append(Sent, ch)
      <4>1. ch \in Printable
        BY DEF Printable
      <4>. QED
        BY <1>1, <3>1, <4>1, EchoesAppend DEF Sent
    <3>5. /\ {Con.port, OfMain(Con.port), Sent} \subseteq Seq(Printable)
          /\ Complete(Sent) /\ Len(Con.port) = Len(Sent) /\ OfMain(Con.port) = OfMain(Sent)
          /\ task' = "print"
      BY <1>1, <2>2, <3>3 DEF EchoInv
    <3>6. CASE ch \in Silent
      <4>1. Sent' = Sent /\ Pending' = Pending
        BY <3>3, <3>4, <3>6
      <4>. QED
        BY <1>1, <2>2, <4>1 DEF EchoInv
    <3>7. CASE ch \notin Silent
      <4>1. /\ Sent' \in Seq(Printable) /\ Complete(Sent') /\ OfMain(Sent') = Append(OfMain(Sent), ch)
            /\ Len(Sent') = Len(Sent) + 1
        BY <3>4, <3>5, <3>7, CharacterLemma
      <4>2. Pending' = <<ch>> /\ Len(<<ch>>) = 1 /\ Len(Con.port) \in Nat
        BY <3>3, <3>5, <3>7
      <4>3. OfMain(Con.port) \o <<ch>> = Append(OfMain(Con.port), ch)
        <5>1. ch \in Printable
          BY DEF Printable
        <5>. QED
          BY <3>5, <5>1
      <4>. QED
        BY <2>2, <3>5, <4>1, <4>2, <4>3 DEF EchoInv
    <3>. QED
      BY <3>6, <3>7
  <2>3. ASSUME Con.redirect, at = "echo", at' = "edge", printed' = printed, local' = local,
               Con' = Echoed(Con, local.ch)
        PROVE  EchoInv'
    <3>. DEFINE ch == local.ch
                port == Con.port
    <3>1. ch \in Characters /\ ch \notin Silent /\ ~local.edge
      BY <2>3 DEF FlowOK, PrintLabels, FullRow
    <3>2. Pending = <<ch>> /\ Pending' = <<>>
      BY <2>3, <3>1 DEF Pending
    <3>3. Con'.port = Append(port, ch) /\ Sent' = Sent
      BY <1>1, <2>3, <3>1 DEF Echoed, ConsoleFields, Silent, Sent
    <3>4. /\ {port, OfMain(port), Sent} \subseteq Seq(Printable) /\ Complete(port) /\ Complete(Sent)
          /\ Len(port) + 1 = Len(Sent) /\ OfMain(port) \o <<ch>> = OfMain(Sent)
          /\ \A i \in DOMAIN port : port[i] = "s" => i < Len(port) /\ port[i + 1] = "newline"
          /\ task' = "print"
      BY <1>1, <2>3, <3>2 DEF EchoInv
    <3>. HIDE DEF ch, port
    <3>5. /\ Append(port, ch) \in Seq(Printable) /\ Complete(Append(port, ch))
          /\ OfMain(Append(port, ch)) = Append(OfMain(port), ch)
          /\ Len(Append(port, ch)) = Len(port) + 1
      BY <3>1, <3>4, CharacterLemma
    <3>6. /\ OfMain(port) \o <<ch>> = Append(OfMain(port), ch)
          /\ Append(OfMain(port), ch) \in Seq(Printable)
          /\ Append(OfMain(port), ch) \o <<>> = Append(OfMain(port), ch)
      <4>1. ch \in Printable
        BY <3>1 DEF Printable
      <4>. QED
        BY <3>4, <4>1
    <3>7. ASSUME NEW i \in DOMAIN Append(port, ch), Append(port, ch)[i] = "s"
          PROVE  i < Len(Append(port, ch)) /\ Append(port, ch)[i + 1] = "newline"
      <4>1. /\ Len(port) \in Nat /\ DOMAIN port = 1 .. Len(port) /\ DOMAIN Append(port, ch) = 1 .. Len(port) + 1
            /\ Append(port, ch)[Len(port) + 1] = ch /\ \A k \in 1 .. Len(port) : Append(port, ch)[k] = port[k]
        BY <3>4
      <4>2. ch # "s"
        BY <3>1, DevicesAssumption
      <4>3. i \in 1 .. Len(port) /\ port[i] = "s"
        BY <3>7, <4>1, <4>2
      <4>4. i < Len(port) /\ port[i + 1] = "newline"
        BY <3>4, <4>1, <4>3
      <4>. QED
        BY <3>5, <4>1, <4>3, <4>4
    <3>. QED
      BY <3>2, <3>3, <3>4, <3>5, <3>6, <3>7 DEF EchoInv
  <2>4. CASE ~Con.redirect
    BY <1>5, <2>4, PutchPort DEF EchoInv
  <2>. QED
    BY <1>5, <2>1, <2>2, <2>3, <2>4, PutchPort
<1>6. CASE /\ Handle /\ UNCHANGED <<task, at, local>>
           /\ Con' = IF Prints(irq) THEN puts(Con, Timer!Message) ELSE Con
           /\ printed' = IF Prints(irq) /\ task = "print" THEN printed \o Timer!Message ELSE printed
  <2>1. Pending' = Pending
    BY <1>6 DEF Pending
  <2>2. CASE ~Prints(irq)
    BY <1>2, <1>6, <2>1, <2>2
  <2>3. ASSUME Prints(irq), Con.redirect PROVE EchoInv'
    <3>. DEFINE port == Con.port
                line(s) == Append(Append(s, "s"), "newline")
    <3>1. Con'.redirect = Con.redirect /\ Con'.port = line(port)
      BY <1>1, <1>6, <2>3, MessageSends
    <3>2. printed' = line(printed)
      BY <1>1, <1>6, <2>3, LineLemma DEF EchoInv
    <3>3. Sent' = line(Sent)
      BY <1>1, <3>2, LineLemma DEF Sent
    <3>4. /\ {port, OfMain(port), Sent} \subseteq Seq(Printable)
          /\ Len(port) + Len(Pending) = Len(Sent) /\ OfMain(port) \o Pending = OfMain(Sent)
          /\ \A i \in DOMAIN port : port[i] = "s" => i < Len(port) /\ port[i + 1] = "newline"
      BY <2>3 DEF EchoInv
    <3>. HIDE DEF port
    <3>5. /\ {line(port), OfMain(line(port)), line(Sent)} \subseteq Seq(Printable)
          /\ Complete(line(port)) /\ Complete(line(Sent))
          /\ OfMain(line(port)) = OfMain(port) /\ OfMain(line(Sent)) = OfMain(Sent)
          /\ Len(line(port)) = Len(port) + 2 /\ Len(line(Sent)) = Len(Sent) + 2
          /\ line(port)[Len(port) + 1] = "s" /\ line(port)[Len(port) + 2] = "newline"
          /\ \A i \in 1 .. Len(port) : line(port)[i] = port[i]
      BY <3>4, LineLemma
    <3>6. ASSUME NEW i \in DOMAIN line(port), line(port)[i] = "s"
          PROVE  i < Len(line(port)) /\ line(port)[i + 1] = "newline"
      <4>1. Len(port) \in Nat /\ DOMAIN port = 1 .. Len(port) /\ DOMAIN line(port) = 1 .. Len(port) + 2
        BY <3>4, <3>5
      <4>2. i \in 1 .. Len(port) \/ i = Len(port) + 1 \/ i = Len(port) + 2
        BY <4>1
      <4>3. CASE i \in 1 .. Len(port)
        <5>1. i < Len(port) /\ port[i + 1] = "newline" /\ i + 1 \in 1 .. Len(port)
          BY <3>4, <3>5, <3>6, <4>1, <4>3
        <5>. QED
          BY <3>5, <4>1, <5>1
      <4>4. CASE i = Len(port) + 1
        BY <3>5, <4>1, <4>4
      <4>5. CASE i = Len(port) + 2
        BY <3>5, <3>6, <4>5
      <4>. QED
        BY <4>2, <4>3, <4>4, <4>5
    <3>7. Len(line(port)) + Len(Pending) = Len(line(Sent))
      <4>1. Len(Pending) \in Nat
        BY DEF Pending
      <4>2. /\ Len(port) \in Nat /\ Len(Sent) \in Nat /\ Len(port) + Len(Pending) = Len(Sent)
            /\ Len(line(port)) = Len(port) + 2 /\ Len(line(Sent)) = Len(Sent) + 2
        BY <3>4, <3>5
      <4>. HIDE DEF line
      <4>. QED
        BY <4>1, <4>2
    <3>8. task' = "print"
      BY <1>1, <2>3 DEF EchoInv
    <3>. HIDE DEF line
    <3>. QED
      BY <2>1, <3>1, <3>3, <3>4, <3>5, <3>6, <3>7, <3>8 DEF EchoInv
  <2>4. CASE Prints(irq) /\ ~Con.redirect
    BY <1>1, <1>6, <2>4, MessageSends DEF EchoInv
  <2>. QED
    BY <2>2, <2>3, <2>4
<1>. QED
  BY <1>1, <1>3, <1>4, <1>5, <1>6, OtherSteps

-----------------------------------------------------------------------------
(***************************************************************************)
(* The paper.  One more character is typed where the last one left off.    *)
(***************************************************************************)
TypeTurns(g, n, s) == [k \in 0 .. n |-> IF k = 0 THEN Sheet ELSE Wrapped(Typed(g[k - 1], s[k]))]

LEMMA TypeRuns == ASSUME NEW s, NEW n \in Nat PROVE \E g : g = TypeTurns(g, n, s)
<1>. DEFINE T == {k \in 0 .. n : ~\E g : g = TypeTurns(g, k, s)}
<1>1. SUFFICES ASSUME T # {} PROVE FALSE
  OBVIOUS
<1>2. PICK x \in T : \A y \in T : x <= y
  <2>1. T \subseteq Nat
    OBVIOUS
  <2>. QED
    BY <1>1, <2>1, LeastElement
<1>3. x # 0
  <2>1. [k \in 0 .. 0 |-> Sheet] = TypeTurns([k \in 0 .. 0 |-> Sheet], 0, s)
    BY DEF TypeTurns
  <2>. QED
    BY <1>2, <2>1
<1>4. x \in Nat /\ x - 1 \in 0 .. n /\ x - 1 \notin T
  BY <1>2, <1>3
<1>5. PICK g : g = TypeTurns(g, x - 1, s)
  BY <1>4
<1>. DEFINE h == [k \in 0 .. x |-> IF k < x THEN g[k] ELSE Wrapped(Typed(g[k - 1], s[k]))]
<1>6. ASSUME NEW k \in 0 .. x
      PROVE  h[k] = IF k = 0 THEN Sheet ELSE Wrapped(Typed(h[k - 1], s[k]))
  <2>1. k # 0 => k - 1 \in 0 .. x /\ k - 1 < x /\ h[k - 1] = g[k - 1]
    BY <1>4
  <2>2. CASE k = x
    BY <1>3, <2>1, <2>2
  <2>3. CASE k < x
    <3>1. k \in 0 .. x - 1
      BY <1>4, <2>3
    <3>2. g[k] = IF k = 0 THEN Sheet ELSE Wrapped(Typed(g[k - 1], s[k]))
      BY <1>5, <3>1 DEF TypeTurns
    <3>. QED
      BY <2>1, <2>3, <3>2
  <2>. QED
    BY <1>4, <2>2, <2>3
<1>7. h = TypeTurns(h, x, s)
  <2>. DEFINE E(k) == IF k = 0 THEN Sheet ELSE Wrapped(Typed(h[k - 1], s[k]))
  <2>1. h = [k \in 0 .. x |-> h[k]] /\ \A k \in 0 .. x : h[k] = E(k)
    BY <1>6
  <2>. HIDE DEF h
  <2>. QED
    BY <2>1 DEF TypeTurns
<1>. HIDE DEF h
<1>. QED
  BY <1>2, <1>7

LEMMA PaperTurns ==
    ASSUME NEW s, Len(s) \in Nat
    PROVE  \E g : /\ Paper(s) = g[Len(s)] /\ g[0] = Sheet
                  /\ \A k \in 1 .. Len(s) : g[k] = Wrapped(Typed(g[k - 1], s[k]))
<1>. DEFINE f == CHOOSE g : g = TypeTurns(g, Len(s), s)
<1>1. f = TypeTurns(f, Len(s), s)
  BY TypeRuns
<1>2. Paper(s) = f[Len(s)]
  BY DEF Paper, TypeTurns
<1>. HIDE DEF f
<1>3. \A k \in 0 .. Len(s) : f[k] = IF k = 0 THEN Sheet ELSE Wrapped(Typed(f[k - 1], s[k]))
  BY <1>1 DEF TypeTurns
<1>4. 0 \in 0 .. Len(s) /\ \A k \in 1 .. Len(s) : k \in 0 .. Len(s) /\ k # 0
  OBVIOUS
<1>. QED
  BY <1>2, <1>3, <1>4

LEMMA PaperLemma ==
    /\ Paper(<<>>) = Sheet
    /\ \A s \in Seq(Printable), c \in Printable : Paper(Append(s, c)) = Wrapped(Typed(Paper(s), c))
<1>1. Paper(<<>>) = Sheet
  <2>1. Len(<<>>) = 0 /\ Len(<<>>) \in Nat
    OBVIOUS
  <2>. QED
    BY <2>1, PaperTurns
<1>2. ASSUME NEW s \in Seq(Printable), NEW c \in Printable
      PROVE  Paper(Append(s, c)) = Wrapped(Typed(Paper(s), c))
  <2>. DEFINE t == Append(s, c)
              n == Len(s)
  <2>1. n \in Nat /\ Len(t) = n + 1 /\ t[n + 1] = c /\ \A k \in 1 .. n : t[k] = s[k]
    OBVIOUS
  <2>. HIDE DEF t, n
  <2>2. PICK f : /\ Paper(s) = f[n] /\ f[0] = Sheet
                 /\ \A k \in 1 .. n : f[k] = Wrapped(Typed(f[k - 1], s[k]))
    BY <2>1, PaperTurns DEF n
  <2>3. PICK g : /\ Paper(t) = g[n + 1] /\ g[0] = Sheet
                 /\ \A k \in 1 .. n + 1 : g[k] = Wrapped(Typed(g[k - 1], t[k]))
    <3>1. Len(t) \in Nat
      BY <2>1
    <3>. QED
      BY <2>1, <3>1, PaperTurns
  <2>4. \A k \in 1 .. n : f[k - 1] = g[k - 1] => f[k] = g[k]
    <3>1. \A k \in 1 .. n : k \in 1 .. n + 1
      BY <2>1
    <3>. QED
      BY <2>1, <2>2, <2>3, <3>1
  <2>5. f[n] = g[n]
    <3>1. n \in Nat /\ n \in 0 .. n
      BY <2>1
    <3>2. f[0] = g[0]
      BY <2>2, <2>3
    <3>3. \A k \in 0 .. n : f[k] = g[k]
      BY <2>4, <3>1, <3>2, SameTurns
    <3>. QED
      BY <3>1, <3>3
  <2>6. n + 1 \in 1 .. n + 1 /\ (n + 1) - 1 = n
    BY <2>1
  <2>7. g[n + 1] = Wrapped(Typed(g[n], c))
    BY <2>1, <2>3, <2>6
  <2>. QED
    BY <2>2, <2>3, <2>5, <2>7 DEF t
<1>. QED
  BY <1>1, <1>2

(***************************************************************************)
(* A paper has nothing below the row of its cursor.                        *)
(***************************************************************************)
PaperOK(p) ==
    /\ DOMAIN p = {"x", "y", "cells"}
    /\ p.x \in 0 .. Columns - 1 /\ p.y \in Nat
    /\ \A row, column \in Nat : row > p.y => <<row, column>> \notin DOMAIN p.cells

\* The next stop of the tabulator is the only one within a tab stop.
LEMMA NextTab ==
    ASSUME NEW x \in Nat
    PROVE  (CHOOSE c \in x + 1 .. x + TabStop : c % TabStop = 0) = Column(x, "tab")
<1>. DEFINE t == TabStop
            q == (x + t) \div t
            v == q * t
<1>1. t \in Nat /\ t > 0
  BY ConsoleAssumption
<1>2. Column(x, "tab") = v
  BY DEF Column
<1>3. q \in Int /\ v \in Int /\ v <= x + t /\ x + t < v + t
  <2>1. \A m \in Int, w \in Nat : w > 0 => /\ m \div w \in Int /\ (m \div w) * w \in Int
                                          /\ (m \div w) * w <= m /\ m < (m \div w) * w + w
    OBVIOUS
  <2>. QED
    BY <1>1, <2>1
<1>4. v = (t * q) + 0
  BY <1>1, <1>3
<1>. HIDE DEF t, q
<1>5. v % t = 0
  <2>1. 0 \in 0 .. t - 1
    BY <1>1
  <2>. QED
    BY <1>1, <1>3, <1>4, <2>1, ModUnique
<1>6. v \in x + 1 .. x + t
  BY <1>1, <1>3
<1>7. ASSUME NEW c \in x + 1 .. x + t, c % t = 0 PROVE c = v
  <2>1. PICK k \in Int : c = t * k
    <3>1. PICK k \in Int : c = (t * k) + (c % t)
      BY <1>1, DivMod
    <3>2. t * k \in Int
      BY <1>1
    <3>. QED
      BY <1>7, <3>1, <3>2
  <2>2. \A a, b \in Int, w \in Nat : a < b => w * a + w <= w * b
    OBVIOUS
  <2>3. v = t * q /\ t * k \in Int
    BY <1>1, <1>3, <1>4
  <2>. HIDE DEF v
  <2>4. k < q => t * k + t <= t * q
    BY <1>1, <1>3, <2>2
  <2>5. q < k => t * q + t <= t * k
    BY <1>1, <1>3, <2>2
  <2>6. ~(k < q) /\ ~(q < k)
    BY <1>1, <1>3, <1>6, <2>1, <2>3, <2>4, <2>5
  <2>. QED
    BY <1>3, <2>1, <2>3, <2>6
<1>. HIDE DEF v
<1>8. (CHOOSE c \in x + 1 .. x + t : c % t = 0) = v
  BY <1>5, <1>6, <1>7
<1>. QED
  BY <1>2, <1>8 DEF t

\* A character typed: where the cursor goes and what the paper shows then.
CursorTyped(p, ch, t, w) ==
    /\ t.x = IF ch = "backspace" /\ p.x = 0 THEN p.x ELSE Column(p.x, ch)
    /\ t.y = IF ch = "newline" THEN p.y + 1 ELSE p.y
    /\ t.x \in 0 .. Columns
    /\ w.x = IF t.x = Columns THEN 0 ELSE t.x
    /\ w.y = IF t.x = Columns THEN t.y + 1 ELSE t.y
    /\ w.y \in {p.y, p.y + 1}
LettersTyped(p, ch, w) ==
    \A row, column \in Nat :
        /\ Letter(w, row, column) =
               IF ch \notin Controls /\ row = p.y /\ column = p.x THEN ch ELSE Letter(p, row, column)
        /\ row > p.y => Letter(w, row, column) = " "

LEMMA TypedLemma ==
    ASSUME NEW p, PaperOK(p), NEW ch
    PROVE  LET t == Typed(p, ch)
               w == Wrapped(t)
           IN  CursorTyped(p, ch, t, w) /\ LettersTyped(p, ch, w) /\ PaperOK(w)
<1>. DEFINE t == Typed(p, ch)
            w == Wrapped(t)
<1>1. /\ Columns \in Nat /\ Columns > 0 /\ p.x \in 0 .. Columns - 1 /\ p.y \in Nat
      /\ DOMAIN p = {"x", "y", "cells"}
  BY ConsoleAssumption DEF PaperOK
<1>2. /\ DOMAIN t = {"x", "y", "cells"}
      /\ t.x = IF ch = "backspace" /\ p.x = 0 THEN p.x ELSE Column(p.x, ch)
      /\ t.y = IF ch = "newline" THEN p.y + 1 ELSE p.y
      /\ t.cells = IF ch \in Controls THEN p.cells ELSE Inked(p.cells, <<p.y, p.x>>, ch)
  <2>1. CASE ch = "tab"
    <3>1. p.x \in Nat
      BY <1>1
    <3>2. (CHOOSE c \in p.x + 1 .. p.x + TabStop : c % TabStop = 0) = Column(p.x, "tab")
      BY <3>1, NextTab
    <3>3. t = [p EXCEPT !.x = CHOOSE c \in @ + 1 .. @ + TabStop : c % TabStop = 0]
      BY <2>1 DEF Typed
    <3>4. t = [p EXCEPT !.x = CHOOSE c \in p.x + 1 .. p.x + TabStop : c % TabStop = 0]
      BY <1>1, <3>3
    <3>5. t = [p EXCEPT !.x = Column(p.x, "tab")]
      BY <3>2, <3>4
    <3>. QED
      BY <1>1, <2>1, <3>5 DEF Controls
  <2>2. CASE ch = "backspace"
    BY <1>1, <2>2 DEF Typed, Column, Controls
  <2>3. CASE ch \in {"return", "newline"}
    BY <1>1, <2>3 DEF Typed, Column, Controls
  <2>4. CASE ch \notin Controls
    <3>1. t = [p EXCEPT !.x = p.x + 1, !.cells = Inked(p.cells, <<p.y, p.x>>, ch)]
      BY <2>4 DEF Typed, Controls
    <3>. QED
      BY <1>1, <2>4, <3>1 DEF Column, Controls
  <2>. QED
    BY <2>1, <2>2, <2>3, <2>4 DEF Controls
<1>. HIDE DEF t
<1>3. t.x \in 0 .. Columns /\ (ch = "newline" => t.x = 0)
  <2>1. CASE ch = "tab"
    <3>1. t.x \in p.x .. Columns
      BY <1>1, <1>2, <2>1, TabLemma
    <3>. QED
      BY <1>1, <2>1, <3>1
  <2>2. CASE ch # "tab"
    BY <1>1, <1>2, <2>2 DEF Column
  <2>. QED
    BY <2>1, <2>2
<1>4. /\ DOMAIN w = {"x", "y", "cells"} /\ w.cells = t.cells
      /\ w.x = IF t.x = Columns THEN 0 ELSE t.x
      /\ w.y = IF t.x = Columns THEN t.y + 1 ELSE t.y
  BY <1>2 DEF Wrapped
<1>. HIDE DEF w
<1>5. w.y \in {p.y, p.y + 1} /\ w.y >= p.y /\ w.y \in Nat /\ w.x \in 0 .. Columns - 1
  BY <1>1, <1>2, <1>3, <1>4
<1>6. ASSUME NEW row \in Nat, NEW column \in Nat
      PROVE  /\ Letter(w, row, column) =
                    IF ch \notin Controls /\ row = p.y /\ column = p.x THEN ch ELSE Letter(p, row, column)
             /\ row > p.y => Letter(w, row, column) = " " /\ <<row, column>> \notin DOMAIN t.cells
  <2>1. Letter(w, row, column) = Letter(t, row, column)
    BY <1>4 DEF Letter
  <2>2. CASE ch \in Controls
    <3>1. t.cells = p.cells
      BY <1>2, <2>2
    <3>. QED
      BY <1>1, <2>1, <2>2, <3>1 DEF Letter, PaperOK
  <2>3. CASE ch \notin Controls
    <3>1. t.cells = Inked(p.cells, <<p.y, p.x>>, ch)
      BY <1>2, <2>3
    <3>2. Letter(t, row, column) = IF <<row, column>> = <<p.y, p.x>> THEN ch ELSE Letter(p, row, column)
      BY <3>1 DEF Letter, Inked
    <3>3. <<row, column>> = <<p.y, p.x>> <=> row = p.y /\ column = p.x
      OBVIOUS
    <3>4. row > p.y => row # p.y /\ <<row, column>> \notin DOMAIN p.cells
      BY <1>1 DEF PaperOK
    <3>5. row > p.y => <<row, column>> \notin DOMAIN t.cells
      BY <3>1, <3>3, <3>4 DEF Inked
    <3>. QED
      BY <2>1, <2>3, <3>2, <3>3, <3>4, <3>5 DEF Letter
  <2>. QED
    BY <2>2, <2>3
<1>7. PaperOK(w)
  <2>1. ASSUME NEW row \in Nat, NEW column \in Nat, row > w.y
        PROVE  <<row, column>> \notin DOMAIN w.cells
    <3>1. row > p.y
      BY <1>1, <1>5, <2>1
    <3>. QED
      BY <1>4, <1>6, <3>1
  <2>. QED
    BY <1>4, <1>5, <2>1 DEF PaperOK
<1>8. CursorTyped(p, ch, t, w)
  BY <1>2, <1>3, <1>4, <1>5 DEF CursorTyped
<1>9. LettersTyped(p, ch, w)
  BY <1>6 DEF LettersTyped
<1>. QED
  BY <1>7, <1>8, <1>9 DEF t, w

-----------------------------------------------------------------------------
(***************************************************************************)
(* The cells of the screen, and what the scroll makes of them.             *)
(***************************************************************************)
Cell(row, column) == row * Columns + column
OfScreen(row, column) == row \in 0 .. Rows - 1 /\ column \in 0 .. Columns - 1

LEMMA CellLemma ==
    ASSUME NEW row, NEW column, OfScreen(row, column)
    PROVE  /\ Cell(row, column) \in 0 .. Rows * Columns - 1 /\ Cell(row, column) \in TextMemory
           /\ Cell(row + 1, column) = Columns + Cell(row, column)
           /\ row = Rows - 1 <=> Cell(row, column) >= (Rows - 1) * Columns
           /\ \A row2, column2 : OfScreen(row2, column2) =>
                 (Cell(row, column) = Cell(row2, column2) <=> row = row2 /\ column = column2)
<1>1. Columns \in Nat /\ Columns > 0 /\ Rows \in Nat /\ Rows > 1
  BY ConsoleAssumption
<1>2. \A a, b, n \in Nat : /\ a * n \in Nat /\ (a + 1) * n = a * n + n
                           /\ a < b => a * n + n <= b * n
  OBVIOUS
<1>3. row \in Nat /\ row < Rows /\ column \in Nat /\ column < Columns /\ Rows - 1 \in Nat
  BY <1>1 DEF OfScreen
<1>. DEFINE top == Rows * Columns
            last == (Rows - 1) * Columns
            here == row * Columns
<1>4. here \in Nat /\ top \in Nat /\ last \in Nat /\ (row + 1) * Columns = here + Columns
  BY <1>1, <1>2, <1>3
<1>5. here + Columns <= top /\ last + Columns <= top
  BY <1>1, <1>2, <1>3
<1>6. row < Rows - 1 => here + Columns <= last
  BY <1>1, <1>2, <1>3
<1>7. row = Rows - 1 => here = last
  OBVIOUS
<1>8. ASSUME NEW row2, NEW column2, OfScreen(row2, column2)
      PROVE  Cell(row, column) = Cell(row2, column2) <=> row = row2 /\ column = column2
  <2>. DEFINE there == row2 * Columns
  <2>1. row2 \in Nat /\ column2 \in Nat /\ column2 < Columns
    BY <1>1, <1>8 DEF OfScreen
  <2>2. there \in Nat
    BY <1>1, <1>2, <2>1
  <2>3. row < row2 => here + Columns <= there
    BY <1>1, <1>2, <1>3, <2>1
  <2>4. row2 < row => there + Columns <= here
    BY <1>1, <1>2, <1>3, <2>1
  <2>5. row = row2 => here = there
    OBVIOUS
  <2>. HIDE DEF here, there
  <2>6. here + column = there + column2 <=> row = row2 /\ column = column2
    BY <1>1, <1>3, <1>4, <2>1, <2>2, <2>3, <2>4, <2>5
  <2>. QED
    BY <2>6 DEF Cell, here, there
<1>. HIDE DEF here, top, last
<1>9. /\ here + column \in 0 .. top - 1 /\ (row = Rows - 1 <=> here + column >= last)
      /\ (here + Columns) + column = Columns + (here + column)
  BY <1>1, <1>3, <1>4, <1>5, <1>6, <1>7
<1>10. 0 .. top - 1 \subseteq TextMemory
  <2>1. (Rows + 2) * Columns = top + Columns + Columns
    BY <1>1 DEF top
  <2>. QED
    BY <1>1, <1>4, <2>1 DEF TextMemory
<1>11. /\ Cell(row, column) = here + column /\ Cell(row + 1, column) = (here + Columns) + column
       /\ Rows * Columns = top /\ (Rows - 1) * Columns = last
  BY <1>4 DEF Cell, here, top, last
<1>. QED
  BY <1>8, <1>9, <1>10, <1>11

\* A copy to lower addresses reads every cell before it writes it.
LEMMA MovedLemma ==
    ASSUME NEW memory, NEW src \in Nat, src > 0, NEW count \in Nat,
           0 .. src + count - 1 \subseteq DOMAIN memory
    PROVE  LET m == memcpy(memory, 0, src, count)
           IN  \A a \in 0 .. count - 1 : m[a] = memory[src + a]
<1>1. PICK g : /\ memcpy(memory, 0, src, count) = g[count] /\ g[0] = memory
               /\ \A n \in 1 .. count : g[n] = CellCopied(g[n - 1], 0, src, n)
  BY CopiedTurns
<1>. DEFINE Held(n) == /\ DOMAIN g[n] = DOMAIN memory
                       /\ \A a \in Nat : a < n => g[n][a] = memory[src + a]
                       /\ \A a \in Nat : (a \in DOMAIN memory /\ a >= n) => g[n][a] = memory[a]
            T == {n \in 0 .. count : ~Held(n)}
<1>2. T = {}
  <2>1. SUFFICES ASSUME T # {} PROVE FALSE
    OBVIOUS
  <2>2. PICK x \in T : \A y \in T : x <= y
    <3>1. T \subseteq Nat
      OBVIOUS
    <3>. QED
      BY <2>1, <3>1, LeastElement
  <2>3. x # 0
    BY <1>1, <2>2
  <2>4. x - 1 \in 0 .. count /\ x \in 1 .. count /\ x - 1 \notin T /\ x - 1 \in Nat
    BY <2>2, <2>3
  <2>5. Held(x - 1) /\ g[x] = CellCopied(g[x - 1], 0, src, x)
    BY <1>1, <2>4
  <2>6. 0 + x - 1 = x - 1 /\ src + x - 1 \in 0 .. src + count - 1 /\ src + x - 1 >= x - 1 /\ src + x - 1 \in Nat
        /\ src + x - 1 = src + (x - 1) /\ x - 1 \in 0 .. src + count - 1
    BY <2>4
  <2>7. src + x - 1 \in DOMAIN memory /\ x - 1 \in DOMAIN memory
    BY <2>6
  <2>8. g[x] = [g[x - 1] EXCEPT ![x - 1] = g[x - 1][src + x - 1]]
    BY <2>5, <2>6 DEF CellCopied
  <2>9. g[x - 1][src + x - 1] = memory[src + x - 1]
    BY <2>5, <2>6, <2>7
  <2>10. DOMAIN g[x] = DOMAIN memory /\ g[x][x - 1] = memory[src + (x - 1)]
    BY <2>5, <2>6, <2>7, <2>8, <2>9
  <2>11. \A a \in Nat : a < x => a = x - 1 \/ a < x - 1
    BY <2>4
  <2>12. \A a \in Nat : a # x - 1 => g[x][a] = g[x - 1][a]
    BY <2>8
  <2>13. \A a \in Nat : a < x => g[x][a] = memory[src + a]
    BY <2>4, <2>5, <2>10, <2>11, <2>12
  <2>14. \A a \in Nat : a >= x => a # x - 1 /\ a >= x - 1
    BY <2>4
  <2>15. \A a \in Nat : (a \in DOMAIN memory /\ a >= x) => g[x][a] = memory[a]
    BY <2>5, <2>12, <2>14
  <2>16. Held(x)
    BY <2>10, <2>13, <2>15
  <2>. QED
    BY <2>2, <2>16
<1>3. count \in 0 .. count /\ \A a \in 0 .. count - 1 : a \in Nat /\ a < count
  OBVIOUS
<1>4. Held(count)
  BY <1>2, <1>3
<1>. QED
  BY <1>1, <1>3, <1>4

NothingAt(p, row) == \A column \in Nat : Letter(p, row, column) = " "
ConsoleOK(c) == DOMAIN c = ConsoleFields /\ DOMAIN c.text = TextMemory

(***************************************************************************)
(* The scroll at the end of putch: the screen goes one row down the paper. *)
(***************************************************************************)
LEMMA ScrollShows ==
    ASSUME NEW c, ConsoleOK(c), c.y = Rows,
           NEW p, NEW top \in Nat, Shows(c, p, top),
           NothingAt(p, top + Rows)
    PROVE  LET d == Scrolled(c)
           IN  Shows(d, p, top + 1) /\ ConsoleOK(d) /\ d.x = c.x /\ d.y = Rows - 1
<1>. DEFINE kept == (Rows - 1) * Columns
            moved == memcpy(c.text, 0, Columns, kept)
            blank == memset(moved, kept, Blank(c), Columns)
            d == Scrolled(c)
<1>1. Columns \in Nat /\ Columns > 0 /\ Rows \in Nat /\ Rows > 1
  BY ConsoleAssumption
<1>2. Rows - 1 \in Nat /\ kept \in Nat /\ kept + Columns = Rows * Columns
  BY <1>1, RowsLemma
<1>3. d = [c EXCEPT !.text = blank, !.y = Rows - 1]
  <2>1. Excess(c) = 1 /\ BelowScreen(c) /\ 1 * Columns = Columns
    BY <1>1 DEF Excess, BelowScreen
  <2>. QED
    BY <2>1 DEF Scrolled
<1>4. DOMAIN d = ConsoleFields /\ d.x = c.x /\ d.y = Rows - 1 /\ d.text = blank
  BY <1>3 DEF ConsoleOK, ConsoleFields
<1>. HIDE DEF d, kept
<1>5. DOMAIN moved = TextMemory
  <2>1. 0 \in Int /\ Columns \in Int /\ kept \in Nat
    BY <1>1, <1>2
  <2>2. DOMAIN c.text = TextMemory
    BY DEF ConsoleOK
  <2>. QED
    BY <2>1, <2>2, MemcpyLemma
<1>6. \A a \in 0 .. kept - 1 : moved[a] = c.text[Columns + a]
  <2>1. Columns + kept - 1 = Rows * Columns - 1
    BY <1>1, <1>2
  <2>2. 0 .. Rows * Columns - 1 \subseteq TextMemory
    <3>1. (Rows + 2) * Columns = Rows * Columns + Columns + Columns /\ Rows * Columns \in Nat
      BY <1>1, RowsLemma
    <3>. QED
      BY <1>1, <3>1 DEF TextMemory
  <2>3. 0 .. Columns + kept - 1 \subseteq DOMAIN c.text
    BY <2>1, <2>2 DEF ConsoleOK
  <2>. QED
    BY <1>1, <1>2, <2>3, MovedLemma
<1>. HIDE DEF moved
<1>7. /\ DOMAIN blank = TextMemory
      /\ \A a \in TextMemory : blank[a] = IF a \in kept .. kept + Columns - 1 THEN Blank(c) ELSE moved[a]
  BY <1>5 DEF memset
<1>. HIDE DEF blank
<1>8. ASSUME NEW row \in 0 .. Rows - 1, NEW column \in 0 .. Columns - 1
      PROVE  d.text[row * Columns + column][1] = Letter(p, (top + 1) + row, column)
  <2>. DEFINE a == Cell(row, column)
  <2>1. OfScreen(row, column)
    BY DEF OfScreen
  <2>2. /\ a \in 0 .. Rows * Columns - 1 /\ a \in TextMemory /\ Cell(row + 1, column) = Columns + a
        /\ row = Rows - 1 <=> a >= kept
    BY <2>1, CellLemma DEF kept
  <2>. HIDE DEF a
  <2>3. CASE row = Rows - 1
    <3>1. a \in kept .. kept + Columns - 1
      BY <1>1, <1>2, <2>2, <2>3
    <3>2. d.text[a] = Blank(c) /\ Blank(c)[1] = " "
      BY <1>4, <1>7, <2>2, <3>1 DEF Blank
    <3>3. (top + 1) + row = top + Rows /\ column \in Nat
      BY <1>1, <2>3
    <3>4. Letter(p, (top + 1) + row, column) = " "
      BY <3>3 DEF NothingAt
    <3>. QED
      BY <3>2, <3>4 DEF a, Cell
  <2>4. CASE row # Rows - 1
    <3>1. a \in 0 .. kept - 1 /\ a \notin kept .. kept + Columns - 1
      BY <1>1, <1>2, <2>2, <2>4
    <3>2. d.text[a] = c.text[Columns + a]
      BY <1>4, <1>6, <1>7, <2>2, <3>1
    <3>3. row + 1 \in 0 .. Rows - 1 /\ top + (row + 1) = (top + 1) + row
      BY <1>1, <2>4
    <3>4. c.text[(row + 1) * Columns + column][1] = Letter(p, top + (row + 1), column)
      BY <3>3 DEF Shows
    <3>. QED
      BY <2>2, <3>2, <3>3, <3>4 DEF a, Cell
  <2>. QED
    BY <2>3, <2>4
<1>9. Shows(d, p, top + 1)
  BY <1>8 DEF Shows
<1>10. ConsoleOK(d)
  BY <1>4, <1>7 DEF ConsoleOK
<1>. QED
  BY <1>4, <1>9, <1>10 DEF d

\* Where the first row of the screen is on the paper.
LEMMA TopLemma ==
    ASSUME NEW p, PaperOK(p), NEW w, w.y \in {p.y, p.y + 1}
    PROVE  /\ Top(p) \in Nat /\ p.y - Top(p) \in 0 .. Rows - 1 /\ w.y - Top(p) \in 0 .. Rows
           /\ Top(p) + (p.y - Top(p)) = p.y
           /\ w.y - Top(p) < Rows => Top(w) = Top(p)
           /\ w.y - Top(p) >= Rows =>
                 /\ Top(w) = Top(p) + 1 /\ w.y = p.y + 1
                 /\ w.y = Top(p) + Rows /\ w.y - Top(p) = Rows /\ w.y - Top(w) = Rows - 1
<1>1. Rows \in Nat /\ Rows > 1 /\ p.y \in Nat
  BY ConsoleAssumption DEF PaperOK
<1>2. CASE w.y = p.y
  BY <1>1, <1>2 DEF Top
<1>3. CASE w.y = p.y + 1
  BY <1>1, <1>3 DEF Top
<1>. QED
  BY <1>2, <1>3

\* A character stored at the cursor appears where the cursor of the paper is.
LEMMA StoreShows ==
    ASSUME NEW c, ConsoleOK(c),
           NEW p, PaperOK(p), Shows(c, p, Top(p)), NEW ch, ch \notin Controls
    PROVE  LET where == Cell(p.y - Top(p), p.x)
           IN  Shows(Stored(c, where, ch), Wrapped(Typed(p, ch)), Top(p))
<1>. DEFINE r == p.y - Top(p)
            where == Cell(r, p.x)
            w == Wrapped(Typed(p, ch))
            d == Stored(c, where, ch)
<1>1. OfScreen(r, p.x) /\ Top(p) \in Nat /\ Top(p) + r = p.y
  <2>1. p.y \in {p.y, p.y + 1}
    OBVIOUS
  <2>. QED
    BY <2>1, TopLemma DEF PaperOK, OfScreen
<1>2. d.text = [c.text EXCEPT ![where] = <<ch, c.attrib>>]
  BY DEF Stored, ConsoleOK, ConsoleFields
<1>3. \A row, column \in Nat : Letter(w, row, column) =
          IF row = p.y /\ column = p.x THEN ch ELSE Letter(p, row, column)
  <2>1. LettersTyped(p, ch, w)
    BY TypedLemma
  <2>. QED
    BY <2>1 DEF LettersTyped
<1>. HIDE DEF w, d
<1>4. ASSUME NEW row \in 0 .. Rows - 1, NEW column \in 0 .. Columns - 1
      PROVE  d.text[row * Columns + column][1] = Letter(w, Top(p) + row, column)
  <2>. DEFINE a == Cell(row, column)
  <2>1. OfScreen(row, column) /\ row \in Nat /\ column \in Nat
    BY DEF OfScreen
  <2>2. a \in TextMemory /\ (a = where <=> row = r /\ column = p.x)
    BY <1>1, <2>1, CellLemma
  <2>. HIDE DEF a, where
  <2>3. Top(p) + row \in Nat /\ (row = r <=> Top(p) + row = p.y)
    BY <1>1, <2>1 DEF PaperOK, OfScreen
  <2>4. c.text[a][1] = Letter(p, Top(p) + row, column)
    BY DEF Shows, a, Cell
  <2>5. d.text[a] = IF a = where THEN <<ch, c.attrib>> ELSE c.text[a]
    BY <1>2, <2>2 DEF ConsoleOK
  <2>6. d.text[a][1] = IF a = where THEN ch ELSE c.text[a][1]
    BY <2>5
  <2>. HIDE DEF r
  <2>7. d.text[a][1] = Letter(w, Top(p) + row, column)
    BY <1>3, <2>1, <2>2, <2>3, <2>4, <2>6
  <2>. QED
    BY <2>7 DEF a, Cell
<1>. QED
  BY <1>4 DEF Shows, d, w

-----------------------------------------------------------------------------
(***************************************************************************)
(* putch in one piece types its character on the paper.                    *)
(***************************************************************************)
OnPaper(c, p) == PaperOK(p) /\ Shows(c, p, Top(p)) /\ c.x = p.x /\ c.y = p.y - Top(p)

LEMMA SameScreen ==
    ASSUME NEW c, NEW d, d.text = c.text, NEW p, NEW top, Shows(c, p, top)
    PROVE  Shows(d, p, top)
BY DEF Shows

\* What is shown before a character that leaves no letter is shown after it.
LEMMA ControlShows ==
    ASSUME NEW c, NEW p, PaperOK(p), Shows(c, p, Top(p)), NEW ch \in Controls
    PROVE  Shows(c, Wrapped(Typed(p, ch)), Top(p))
<1>. DEFINE w == Wrapped(Typed(p, ch))
<1>1. LettersTyped(p, ch, w)
  BY TypedLemma
<1>2. Top(p) \in Nat
  <2>1. p.y \in {p.y, p.y + 1}
    OBVIOUS
  <2>. QED
    BY <2>1, TopLemma
<1>. HIDE DEF w
<1>3. ASSUME NEW row \in 0 .. Rows - 1, NEW column \in 0 .. Columns - 1
      PROVE  c.text[row * Columns + column][1] = Letter(w, Top(p) + row, column)
  <2>1. Top(p) + row \in Nat /\ column \in Nat
    BY <1>2
  <2>2. Letter(w, Top(p) + row, column) = Letter(p, Top(p) + row, column)
    BY <1>1, <2>1 DEF LettersTyped
  <2>. QED
    BY <2>2 DEF Shows
<1>. QED
  BY <1>3 DEF Shows, w

\* The row after the one of the cursor is still empty when the cursor comes to it.
LEMMA EndShows ==
    ASSUME NEW c, ConsoleOK(c), NEW p, PaperOK(p), NEW w, PaperOK(w), w.y \in {p.y, p.y + 1},
           NEW ch, LettersTyped(p, ch, w),
           Shows(c, w, Top(p)), c.x = w.x, c.y = w.y - Top(p)
    PROVE  OnPaper(Scrolled(c), w) /\ ConsoleOK(Scrolled(c))
<1>1. /\ Top(p) \in Nat /\ c.y \in 0 .. Rows
      /\ c.y < Rows => Top(w) = Top(p)
      /\ c.y >= Rows => /\ Top(w) = Top(p) + 1 /\ w.y = p.y + 1
                        /\ w.y = Top(p) + Rows /\ c.y = Rows /\ w.y - Top(w) = Rows - 1
  BY TopLemma
<1>2. Rows \in Nat /\ Rows > 1 /\ p.y \in Nat /\ w.y \in Nat
  BY ConsoleAssumption DEF PaperOK
<1>3. CASE c.y < Rows
  <2>1. Scrolled(c) = c
    <3>1. ~BelowScreen(c)
      BY <1>1, <1>2, <1>3 DEF BelowScreen
    <3>. QED
      BY <3>1 DEF Scrolled
  <2>. QED
    BY <1>1, <1>3, <2>1 DEF OnPaper
<1>4. CASE c.y >= Rows
  <2>1. ASSUME NEW column \in Nat PROVE Letter(w, Top(p) + Rows, column) = " "
    <3>1. Top(p) + Rows = w.y /\ w.y \in Nat /\ w.y > p.y
      BY <1>1, <1>2, <1>4
    <3>2. Letter(w, w.y, column) = " "
      BY <3>1 DEF LettersTyped
    <3>. QED
      BY <3>1, <3>2
  <2>2. NothingAt(w, Top(p) + Rows)
    BY <2>1 DEF NothingAt
  <2>3. LET d == Scrolled(c)
        IN  Shows(d, w, Top(p) + 1) /\ ConsoleOK(d) /\ d.x = c.x /\ d.y = Rows - 1
    BY <1>1, <1>4, <2>2, ScrollShows
  <2>. QED
    BY <1>1, <1>4, <2>3 DEF OnPaper
<1>. QED
  BY <1>1, <1>2, <1>3, <1>4

LEMMA PutchTypes ==
    ASSUME NEW c, ConsoleOK(c), NEW p, OnPaper(c, p), NEW ch
    PROVE  OnPaper(putch(c, ch), Wrapped(Typed(p, ch))) /\ ConsoleOK(putch(c, ch))
<1>. DEFINE t == Typed(p, ch)
            w == Wrapped(t)
            top == Top(p)
            stored == IF ch \in Controls THEN c ELSE Stored(c, Where(c), ch)
            moved  == [stored EXCEPT !.x = IF ch = "backspace" /\ AtMargin(c) THEN @ ELSE Column(@, ch),
                                     !.y = IF ch = "newline" THEN @ + 1 ELSE @]
            echoed == Echoed(moved, ch)
            ended  == IF AtEdge(echoed) THEN [echoed EXCEPT !.x = 0, !.y = @ + 1] ELSE echoed
<1>1. /\ PaperOK(p) /\ Shows(c, p, top) /\ c.x = p.x /\ c.y = p.y - top
  BY DEF OnPaper
<1>2. CursorTyped(p, ch, t, w) /\ LettersTyped(p, ch, w) /\ PaperOK(w)
  BY <1>1, TypedLemma
<1>3. putch(c, ch) = Scrolled(ended)
  BY DEF putch
<1>4. Shows(stored, w, top) /\ ConsoleOK(stored) /\ stored.x = c.x /\ stored.y = c.y
  <2>1. CASE ch \in Controls
    BY <1>1, <2>1, ControlShows
  <2>2. CASE ch \notin Controls
    <3>1. Where(c) = Cell(p.y - top, p.x)
      BY <1>1 DEF Where, Cell
    <3>2. Shows(Stored(c, Where(c), ch), w, top)
      BY <1>1, <2>2, <3>1, StoreShows
    <3>3. LET d == Stored(c, Where(c), ch) IN ConsoleOK(d) /\ d.x = c.x /\ d.y = c.y
      BY DEF Stored, ConsoleOK, ConsoleFields
    <3>. QED
      BY <2>2, <3>2, <3>3
  <2>. QED
    BY <2>1, <2>2
<1>. HIDE DEF stored
<1>5. Columns \in Nat /\ Columns > 0 /\ p.x \in 0 .. Columns - 1 /\ p.y \in Nat
  BY <1>1, ConsoleAssumption DEF PaperOK
<1>6. top \in Nat
  <2>1. p.y \in {p.y, p.y + 1}
    OBVIOUS
  <2>. QED
    BY <1>1, <2>1, TopLemma
<1>. HIDE DEF t, w, top
<1>7. moved.text = stored.text /\ ConsoleOK(moved) /\ moved.x = t.x /\ moved.y = t.y - top
  <2>1. /\ DOMAIN moved = DOMAIN stored /\ moved.text = stored.text
        /\ moved.x = IF ch = "backspace" /\ AtMargin(c) THEN stored.x ELSE Column(stored.x, ch)
        /\ moved.y = IF ch = "newline" THEN stored.y + 1 ELSE stored.y
    BY <1>4 DEF ConsoleOK, ConsoleFields
  <2>. HIDE DEF moved
  <2>2. ConsoleOK(moved)
    BY <1>4, <2>1 DEF ConsoleOK
  <2>3. moved.x = t.x
    BY <1>1, <1>2, <1>4, <2>1 DEF CursorTyped, AtMargin
  <2>4. moved.y = t.y - top
    BY <1>1, <1>2, <1>4, <1>5, <1>6, <2>1 DEF CursorTyped
  <2>. QED
    BY <2>1, <2>2, <2>3, <2>4
<1>. HIDE DEF moved
<1>8. echoed.text = moved.text /\ ConsoleOK(echoed) /\ echoed.x = moved.x /\ echoed.y = moved.y
  BY <1>7 DEF Echoed, ConsoleOK, ConsoleFields
<1>. HIDE DEF echoed
<1>9. /\ ended.text = echoed.text /\ ConsoleOK(ended)
      /\ ended.x = IF AtEdge(echoed) THEN 0 ELSE echoed.x
      /\ ended.y = IF AtEdge(echoed) THEN echoed.y + 1 ELSE echoed.y
  BY <1>8 DEF ConsoleOK, ConsoleFields
<1>. HIDE DEF ended
<1>10. AtEdge(echoed) <=> t.x = Columns
  <2>1. t.x \in 0 .. Columns
    BY <1>2 DEF CursorTyped
  <2>. QED
    BY <1>5, <1>7, <1>8, <2>1 DEF AtEdge
<1>11. ended.x = w.x
  BY <1>2, <1>7, <1>8, <1>9, <1>10 DEF CursorTyped
<1>12. ended.y = w.y - top
  <2>1. t.y \in Nat
    BY <1>2, <1>5 DEF CursorTyped
  <2>. QED
    BY <1>2, <1>6, <1>7, <1>8, <1>9, <1>10, <2>1 DEF CursorTyped
<1>13. Shows(ended, w, top)
  BY <1>4, <1>7, <1>8, <1>9, SameScreen
<1>14. w.y \in {p.y, p.y + 1}
  BY <1>2 DEF CursorTyped
<1>15. OnPaper(Scrolled(ended), w) /\ ConsoleOK(Scrolled(ended))
  BY <1>1, <1>2, <1>9, <1>11, <1>12, <1>13, <1>14, EndShows DEF top
<1>. QED
  BY <1>3, <1>15 DEF w, t

(***************************************************************************)
(* The scroll of the main thread, cell by cell: the cells before the index *)
(* show the paper one row further down than the others.                    *)
(***************************************************************************)
Scrolling(c, w, top, index) ==
    \A row \in 0 .. Rows - 1, column \in 0 .. Columns - 1 :
        c.text[row * Columns + column][1] =
            Letter(w, (IF row * Columns + column < index THEN top + 1 ELSE top) + row, column)

LEMMA ScrollBegins ==
    ASSUME NEW c, NEW w, NEW top, Shows(c, w, top)
    PROVE  Scrolling(c, w, top, 0)
<1>1. ASSUME NEW row \in 0 .. Rows - 1, NEW column \in 0 .. Columns - 1
      PROVE  c.text[row * Columns + column][1] =
                Letter(w, (IF row * Columns + column < 0 THEN top + 1 ELSE top) + row, column)
  <2>1. Cell(row, column) \in 0 .. Rows * Columns - 1
    BY CellLemma DEF OfScreen
  <2>2. ~(Cell(row, column) < 0)
    BY <2>1, RowsLemma
  <2>3. ~(row * Columns + column < 0)
    BY <2>2 DEF Cell
  <2>. QED
    BY <2>3 DEF Shows
<1>. QED
  BY <1>1 DEF Scrolling

LEMMA ScrollEnds ==
    ASSUME NEW c, NEW w, NEW top, Scrolling(c, w, top, Rows * Columns)
    PROVE  Shows(c, w, top + 1)
<1>1. ASSUME NEW row \in 0 .. Rows - 1, NEW column \in 0 .. Columns - 1
      PROVE  c.text[row * Columns + column][1] = Letter(w, (top + 1) + row, column)
  <2>1. Cell(row, column) \in 0 .. Rows * Columns - 1
    BY CellLemma DEF OfScreen
  <2>2. Cell(row, column) < Rows * Columns
    BY <2>1, RowsLemma
  <2>3. row * Columns + column < Rows * Columns
    BY <2>2 DEF Cell
  <2>. QED
    BY <2>3 DEF Scrolling
<1>. QED
  BY <1>1 DEF Shows

LEMMA ScrollGoesOn ==
    ASSUME NEW c, ConsoleOK(c), NEW w, NEW top \in Nat, NothingAt(w, top + Rows),
           NEW index \in 0 .. Rows * Columns - 1, Scrolling(c, w, top, index)
    PROVE  LET d == [c EXCEPT !.text[index] = IF index < (Rows - 1) * Columns THEN c.text[Columns + index]
                                              ELSE Blank(c)]
           IN  Scrolling(d, w, top, index + 1) /\ d.x = c.x /\ d.y = c.y
<1>. DEFINE kept == (Rows - 1) * Columns
            new == IF index < kept THEN c.text[Columns + index] ELSE Blank(c)
            d == [c EXCEPT !.text[index] = new]
<1>1. Columns \in Nat /\ Columns > 0 /\ Rows \in Nat /\ Rows > 1 /\ Rows * Columns \in Nat
  BY RowsLemma
<1>2. kept \in Nat
  BY <1>1
<1>. HIDE DEF kept
<1>3. new = IF index < kept THEN c.text[Columns + index] ELSE Blank(c)
  OBVIOUS
<1>. HIDE DEF new
<1>4. d.text = [c.text EXCEPT ![index] = new] /\ d.x = c.x /\ d.y = c.y
  BY DEF ConsoleOK, ConsoleFields
<1>. HIDE DEF d
<1>5. ASSUME NEW row \in 0 .. Rows - 1, NEW column \in 0 .. Columns - 1
      PROVE  d.text[row * Columns + column][1] =
                Letter(w, (IF row * Columns + column < index + 1 THEN top + 1 ELSE top) + row, column)
  <2>. DEFINE a == Cell(row, column)
  <2>1. OfScreen(row, column)
    BY DEF OfScreen
  <2>2. /\ a \in 0 .. Rows * Columns - 1 /\ a \in TextMemory /\ Cell(row + 1, column) = Columns + a
        /\ row = Rows - 1 <=> a >= kept
    BY <2>1, CellLemma DEF kept
  <2>3. c.text[a][1] = Letter(w, (IF a < index THEN top + 1 ELSE top) + row, column)
    BY DEF Scrolling, Cell
  <2>4. row + 1 \in 0 .. Rows - 1 =>
           c.text[Cell(row + 1, column)][1] =
               Letter(w, (IF Cell(row + 1, column) < index THEN top + 1 ELSE top) + (row + 1), column)
    BY DEF Scrolling, Cell
  <2>. HIDE DEF a
  <2>5. a \in Nat /\ index \in Nat
    BY <1>1, <2>2
  <2>6. d.text[a] = IF a = index THEN new ELSE c.text[a]
    BY <1>4, <2>2 DEF ConsoleOK
  <2>7. CASE a = index /\ a < kept
    <3>1. row + 1 \in 0 .. Rows - 1
      BY <1>1, <1>2, <2>2, <2>5, <2>7
    <3>2. ~(Columns + a < index) /\ a < index + 1 /\ top + (row + 1) = (top + 1) + row
      BY <1>1, <2>5, <2>7
    <3>3. c.text[Columns + a][1] = Letter(w, top + (row + 1), column)
      BY <2>2, <2>4, <3>1, <3>2
    <3>4. d.text[a][1] = c.text[Columns + a][1]
      BY <1>3, <2>6, <2>7
    <3>. QED
      BY <3>2, <3>3, <3>4 DEF a, Cell
  <2>8. CASE a = index /\ ~(a < kept)
    <3>1. row = Rows - 1
      BY <1>1, <1>2, <2>2, <2>5, <2>8
    <3>2. a < index + 1 /\ (top + 1) + row = top + Rows /\ column \in Nat
      BY <1>1, <2>5, <2>8, <3>1
    <3>3. Letter(w, (top + 1) + row, column) = " "
      BY <3>2 DEF NothingAt
    <3>4. d.text[a] = Blank(c) /\ Blank(c)[1] = " "
      BY <1>3, <2>6, <2>8 DEF Blank
    <3>. QED
      BY <3>2, <3>3, <3>4 DEF a, Cell
  <2>9. CASE a # index
    <3>1. a < index + 1 <=> a < index
      BY <2>5, <2>9
    <3>. QED
      BY <2>3, <2>6, <2>9, <3>1 DEF a, Cell
  <2>. QED
    BY <2>7, <2>8, <2>9
<1>6. Scrolling(d, w, top, index + 1)
  BY <1>5 DEF Scrolling
<1>. QED
  BY <1>4, <1>6 DEF d, new, kept

(***************************************************************************)
(* A putch on its way from the paper p to the paper w: where the cursor,   *)
(* the registers and the screen are before each step.  t is the paper      *)
(* before a full row ends.                                                 *)
(***************************************************************************)
CursorOf(p, t, w) ==
    /\ at \in {"row", "column", "store", "margin", "loadx", "storex"} => Con.x = p.x /\ Con.y = p.y - Top(p)
    /\ at \in {"clearx", "loady", "storey"} => Con.y = (IF local.edge THEN t.y ELSE p.y) - Top(p)
    /\ at \in {"loady", "storey"} => Con.x = 0
    /\ at \in {"echo", "edge"} => Con.x = t.x /\ Con.y = t.y - Top(p)
    /\ at \in {"below", "excess", "scroll", "last", "done"} => Con.x = w.x
    /\ at \in {"below", "excess", "scroll"} => Con.y = w.y - Top(p)
    /\ at = "done" => Con.y = w.y - Top(w)

RegistersOf(p, t, w) ==
    /\ local.edge => t.x = Columns
    /\ at = "column" => local.reg = Con.y
    /\ at = "store" => local.index = Where(Con)
    /\ at = "storex" => local.reg = p.x
    /\ at = "storey" => local.reg = Con.y
    /\ at \in {"excess", "scroll", "last"} => w.y - Top(p) >= Rows
    /\ at = "scroll" => local.reg = 1
    /\ (at \in {"loadx", "storex"} /\ local.ch = "backspace") => p.x # 0

ScreenOf(p, w) ==
    /\ at \in {"row", "column", "store"} => Shows(Con, p, Top(p))
    /\ at \notin {"row", "column", "store", "scroll", "last", "done"} => Shows(Con, w, Top(p))
    /\ at = "scroll" => Scrolling(Con, w, Top(p), local.index)
    /\ at \in {"last", "done"} => Shows(Con, w, Top(w))

OnTheWay(p, t, w) == CursorOf(p, t, w) /\ RegistersOf(p, t, w) /\ ScreenOf(p, w)

LEMMA PutchOnPaper ==
    ASSUME DriversInv, CursorInv, FlowOK, Putch, at # "idle",
           NEW p, NEW t, NEW w, NEW ch, t = Typed(p, ch), w = Wrapped(t), local.ch = ch,
           PaperOK(p), OnTheWay(p, t, w)
    PROVE  IF at' = "idle" THEN OnPaper(Con', w) ELSE local'.ch = ch /\ OnTheWay(p, t, w)'
<1>. DEFINE top == Top(p)
<1>1. /\ MachineOK /\ local \in RegisterType /\ RegistersOK /\ ConsoleOK(Con)
      /\ Columns \in Nat /\ Columns > 0 /\ Rows \in Nat /\ Rows > 1
      /\ at \in PrintLabels => local.ch \in Characters
  BY RowsLemma DEF DriversInv, MainOK, CursorInv, CursorOK, Untold, ConsoleOK, FlowOK
<1>2. /\ DOMAIN local = {"ch", "reg", "index", "edge", "seconds", "ticks", "then", "key", "before"}
      /\ local.edge \in BOOLEAN
  BY <1>1 DEF RegisterType
<1>3. CursorTyped(p, ch, t, w) /\ LettersTyped(p, ch, w) /\ PaperOK(w)
  BY TypedLemma
<1>4. /\ p.x \in 0 .. Columns - 1 /\ p.y \in Nat /\ t.x \in 0 .. Columns /\ t.y \in Nat
      /\ w.y \in Nat /\ w.x \in Nat /\ w.y \in {p.y, p.y + 1}
  BY <1>1, <1>3 DEF CursorTyped, PaperOK
<1>5. /\ top \in Nat /\ p.y - top \in 0 .. Rows - 1 /\ w.y - top \in 0 .. Rows
      /\ w.y - top < Rows => Top(w) = top
      /\ w.y - top >= Rows => /\ Top(w) = top + 1 /\ w.y = p.y + 1
                              /\ w.y = top + Rows /\ w.y - top = Rows /\ w.y - Top(w) = Rows - 1
  BY <1>4, TopLemma
<1>6. CursorOf(p, t, w) /\ RegistersOf(p, t, w) /\ ScreenOf(p, w)
  BY DEF OnTheWay
<1>7. w.y > p.y => NothingAt(w, w.y)
  BY <1>3, <1>4 DEF LettersTyped, NothingAt
<1>8. CASE AddressRow
  <2>1. /\ at = "row" /\ at' = "column" /\ Con' = Con
        /\ local' = [local EXCEPT !.reg = Con.y]
    BY <1>1, <1>8, ConsoleLemma DEF AddressRow, Goto
  <2>2. local'.reg = Con.y /\ local'.ch = local.ch /\ local'.edge = local.edge
    BY <1>2, <2>1
  <2>3. CursorOf(p, t, w)'
    BY <1>6, <2>1 DEF CursorOf
  <2>4. RegistersOf(p, t, w)'
    BY <1>6, <2>1, <2>2 DEF RegistersOf
  <2>5. ScreenOf(p, w)'
    BY <1>6, <2>1 DEF ScreenOf
  <2>. QED
    BY <2>1, <2>2, <2>3, <2>4, <2>5 DEF OnTheWay
<1>26. CASE AddressColumn
  <2>1. /\ at = "column" /\ at' = "store" /\ Con' = Con
        /\ local' = [local EXCEPT !.index = Where([Con EXCEPT !.y = local.reg])]
    BY <1>1, <1>26, ConsoleLemma DEF AddressColumn, Goto
  <2>2. local'.index = Where(Con) /\ local'.ch = local.ch /\ local'.edge = local.edge
    <3>1. local.reg = Con.y
      BY <1>6, <2>1 DEF RegistersOf
    <3>2. Where([Con EXCEPT !.y = local.reg]) = Where(Con)
      BY <1>1, <3>1 DEF Where, ConsoleOK, ConsoleFields
    <3>. QED
      BY <1>2, <2>1, <3>2
  <2>3. CursorOf(p, t, w)'
    BY <1>6, <2>1 DEF CursorOf
  <2>4. RegistersOf(p, t, w)'
    BY <1>6, <2>1, <2>2 DEF RegistersOf
  <2>5. ScreenOf(p, w)'
    BY <1>6, <2>1 DEF ScreenOf
  <2>. QED
    BY <2>1, <2>2, <2>3, <2>4, <2>5 DEF OnTheWay
<1>9. CASE Store
  <2>1. /\ at = "store" /\ at' = "loadx" /\ local' = local
        /\ Con' = Stored(Con, local.index, local.ch)
    BY <1>1, <1>9, ConsoleLemma DEF Store, Goto
  <2>2. Con'.x = Con.x /\ Con'.y = Con.y
    BY <1>1, <2>1 DEF Stored, ConsoleOK, ConsoleFields
  <2>3. ch \notin Controls
    BY <2>1 DEF FlowOK
  <2>4. local.index = Cell(p.y - top, p.x) /\ Shows(Con, p, top)
    BY <1>6, <2>1 DEF RegistersOf, CursorOf, ScreenOf, Where, Cell
  <2>5. Shows(Con', w, top)
    BY <1>1, <2>1, <2>3, <2>4, StoreShows
  <2>6. CursorOf(p, t, w)'
    BY <1>6, <2>1, <2>2 DEF CursorOf
  <2>7. RegistersOf(p, t, w)'
    BY <1>6, <2>1, <2>3 DEF RegistersOf, Controls
  <2>8. ScreenOf(p, w)'
    BY <2>1, <2>5 DEF ScreenOf
  <2>. QED
    BY <2>1, <2>6, <2>7, <2>8 DEF OnTheWay
<1>10. CASE Margin
  <2>1. /\ at = "margin" /\ at' = (IF AtMargin(Con) THEN "edge" ELSE "loadx") /\ local' = local /\ Con' = Con
    BY <1>1, <1>10, ConsoleLemma DEF Margin, Goto
  <2>2. ch = "backspace" /\ Con.x = p.x /\ Con.y = p.y - top /\ ~local.edge
    BY <1>6, <2>1 DEF FlowOK, CursorOf, FullRow
  <2>3. AtMargin(Con) => t.x = p.x /\ t.y = p.y
    BY <1>3, <2>2 DEF CursorTyped, AtMargin
  <2>4. CursorOf(p, t, w)'
    BY <2>1, <2>2, <2>3 DEF CursorOf
  <2>5. RegistersOf(p, t, w)'
    BY <2>1, <2>2 DEF RegistersOf, AtMargin
  <2>6. ScreenOf(p, w)'
    BY <1>6, <2>1 DEF ScreenOf
  <2>. QED
    BY <2>1, <2>4, <2>5, <2>6 DEF OnTheWay
<1>11. CASE LoadX
  <2>1. /\ at = "loadx" /\ at' = "storex" /\ Con' = Con
        /\ local' = [local EXCEPT !.reg = Con.x]
    BY <1>1, <1>11, ConsoleLemma DEF LoadX, Goto
  <2>2. local'.reg = Con.x /\ local'.ch = local.ch /\ local'.edge = local.edge
    BY <1>2, <2>1
  <2>3. CursorOf(p, t, w)'
    BY <1>6, <2>1 DEF CursorOf
  <2>4. RegistersOf(p, t, w)'
    BY <1>6, <2>1, <2>2 DEF RegistersOf, CursorOf
  <2>5. ScreenOf(p, w)'
    BY <1>6, <2>1 DEF ScreenOf
  <2>. QED
    BY <2>1, <2>2, <2>3, <2>4, <2>5 DEF OnTheWay
<1>12. CASE StoreX
  <2>1. /\ at = "storex" /\ at' = (IF local.ch \in Controls THEN "edge" ELSE "echo") /\ local' = local
        /\ Con' = [Con EXCEPT !.x = Column(local.reg, local.ch)]
    BY <1>1, <1>12, ConsoleLemma DEF StoreX, Goto, SetX
  <2>2. Con'.x = Column(local.reg, local.ch) /\ Con'.y = Con.y /\ Con'.text = Con.text
    BY <1>1, <2>1 DEF ConsoleOK, ConsoleFields
  <2>3. /\ local.reg = p.x /\ Con.y = p.y - top /\ (ch = "backspace" => p.x # 0)
        /\ ch \notin {"return", "newline"} /\ ~local.edge
    BY <1>6, <2>1 DEF FlowOK, CursorOf, RegistersOf, FullRow
  <2>4. Con'.x = t.x /\ Con'.y = t.y - top
    BY <1>3, <2>2, <2>3 DEF CursorTyped
  <2>5. CursorOf(p, t, w)'
    BY <2>1, <2>4 DEF CursorOf
  <2>6. RegistersOf(p, t, w)'
    BY <2>1, <2>3 DEF RegistersOf
  <2>7. ScreenOf(p, w)'
    <3>1. Shows(Con, w, top)
      BY <1>6, <2>1 DEF ScreenOf
    <3>2. Shows(Con', w, top)
      BY <2>2, <3>1, SameScreen
    <3>. QED
      BY <2>1, <3>2 DEF ScreenOf
  <2>. QED
    BY <2>1, <2>5, <2>6, <2>7 DEF OnTheWay
<1>13. CASE ClearX
  <2>1. /\ at = "clearx" /\ at' = (IF local.edge \/ local.ch = "newline" THEN "loady" ELSE "echo")
        /\ local' = local /\ Con' = [Con EXCEPT !.x = 0]
    BY <1>1, <1>13, ConsoleLemma DEF ClearX, Goto, SetX
  <2>2. Con'.x = 0 /\ Con'.y = Con.y /\ Con'.text = Con.text
    BY <1>1, <2>1 DEF ConsoleOK, ConsoleFields
  <2>3. Con.y = (IF local.edge THEN t.y ELSE p.y) - top /\ (~local.edge => ch \in {"return", "newline"})
    BY <1>6, <2>1 DEF FlowOK, CursorOf
  <2>4. at' = "echo" => t.x = 0 /\ t.y = p.y /\ ~local.edge
    BY <1>3, <2>1, <2>3 DEF CursorTyped, Column
  <2>5. CursorOf(p, t, w)'
    BY <2>1, <2>2, <2>3, <2>4 DEF CursorOf
  <2>6. RegistersOf(p, t, w)'
    BY <1>6, <2>1 DEF RegistersOf
  <2>7. ScreenOf(p, w)'
    BY <1>6, <2>1, <2>2, SameScreen DEF ScreenOf
  <2>. QED
    BY <2>1, <2>5, <2>6, <2>7 DEF OnTheWay
<1>14. CASE LoadY
  <2>1. /\ at = "loady" /\ at' = "storey" /\ Con' = Con
        /\ local' = [local EXCEPT !.reg = Con.y]
    BY <1>1, <1>14, ConsoleLemma DEF LoadY, Goto
  <2>2. local'.reg = Con.y /\ local'.ch = local.ch /\ local'.edge = local.edge
    BY <1>2, <2>1
  <2>3. CursorOf(p, t, w)'
    BY <1>6, <2>1, <2>2 DEF CursorOf
  <2>4. RegistersOf(p, t, w)'
    BY <1>6, <2>1, <2>2 DEF RegistersOf
  <2>5. ScreenOf(p, w)'
    BY <1>6, <2>1 DEF ScreenOf
  <2>. QED
    BY <2>1, <2>2, <2>3, <2>4, <2>5 DEF OnTheWay
<1>15. CASE StoreY
  <2>1. /\ at = "storey" /\ at' = (IF local.edge THEN "below" ELSE "echo")
        /\ local' = local /\ Con' = [Con EXCEPT !.y = local.reg + 1]
    BY <1>1, <1>15, ConsoleLemma DEF StoreY, Goto, SetY
  <2>2. Con'.x = Con.x /\ Con'.y = local.reg + 1 /\ Con'.text = Con.text
    BY <1>1, <2>1 DEF ConsoleOK, ConsoleFields
  <2>3. /\ local.reg = (IF local.edge THEN t.y ELSE p.y) - top /\ Con.x = 0
        /\ ~local.edge => ch = "newline"
        /\ local.edge => t.x = Columns
    BY <1>6, <2>1 DEF FlowOK, CursorOf, RegistersOf
  <2>4. local.edge => w.x = 0 /\ w.y = t.y + 1
    BY <1>3, <2>3 DEF CursorTyped
  <2>5. ~local.edge => t.x = 0 /\ t.y = p.y + 1
    BY <1>3, <2>3 DEF CursorTyped, Column
  <2>6. Con'.y = (IF local.edge THEN w.y ELSE t.y) - top
    BY <1>4, <1>5, <2>2, <2>3, <2>4, <2>5
  <2>7. CursorOf(p, t, w)'
    BY <2>1, <2>2, <2>3, <2>4, <2>5, <2>6 DEF CursorOf
  <2>8. RegistersOf(p, t, w)'
    BY <1>6, <2>1 DEF RegistersOf
  <2>9. ScreenOf(p, w)'
    <3>1. Shows(Con, w, top)
      BY <1>6, <2>1 DEF ScreenOf
    <3>2. Shows(Con', w, top)
      BY <2>2, <3>1, SameScreen
    <3>. QED
      BY <2>1, <3>2 DEF ScreenOf
  <2>. QED
    BY <2>1, <2>7, <2>8, <2>9 DEF OnTheWay
<1>16. CASE Echo
  <2>1. /\ at = "echo" /\ at' = "edge" /\ local' = local /\ Con' = Echoed(Con, local.ch)
    BY <1>1, <1>16, ConsoleLemma DEF Echo, Goto
  <2>2. Con'.x = Con.x /\ Con'.y = Con.y /\ Con'.text = Con.text
    BY <1>1, <2>1 DEF Echoed, ConsoleOK, ConsoleFields
  <2>3. CursorOf(p, t, w)'
    BY <1>6, <2>1, <2>2 DEF CursorOf
  <2>4. RegistersOf(p, t, w)'
    BY <1>6, <2>1 DEF RegistersOf
  <2>5. ScreenOf(p, w)'
    BY <1>6, <2>1, <2>2, SameScreen DEF ScreenOf
  <2>. QED
    BY <2>1, <2>3, <2>4, <2>5 DEF OnTheWay
<1>17. CASE Edge
  <2>1. /\ at = "edge" /\ at' = (IF AtEdge(Con) THEN "clearx" ELSE "below") /\ Con' = Con
        /\ local' = [local EXCEPT !.edge = AtEdge(Con)]
    BY <1>1, <1>17, ConsoleLemma DEF Edge, Goto
  <2>2. local'.edge = AtEdge(Con) /\ local'.ch = local.ch
    BY <1>2, <2>1
  <2>3. Con.x = t.x /\ Con.y = t.y - top
    BY <1>6, <2>1 DEF CursorOf
  <2>4. AtEdge(Con) <=> t.x = Columns
    BY <1>1, <1>4, <2>3 DEF AtEdge
  <2>5. t.x # Columns => w.x = t.x /\ w.y = t.y
    BY <1>3 DEF CursorTyped
  <2>6. CursorOf(p, t, w)'
    BY <2>1, <2>2, <2>3, <2>4, <2>5 DEF CursorOf
  <2>7. RegistersOf(p, t, w)'
    BY <2>1, <2>2, <2>4 DEF RegistersOf
  <2>8. ScreenOf(p, w)'
    BY <1>6, <2>1 DEF ScreenOf
  <2>. QED
    BY <2>1, <2>2, <2>6, <2>7, <2>8 DEF OnTheWay
<1>18. CASE Below
  <2>1. /\ at = "below" /\ at' = (IF BelowScreen(Con) THEN "excess" ELSE "done") /\ local' = local /\ Con' = Con
    BY <1>1, <1>18, ConsoleLemma DEF Below, Goto
  <2>2. Con.y = w.y - top /\ Con.x = w.x
    BY <1>6, <2>1 DEF CursorOf
  <2>3. BelowScreen(Con) <=> w.y - top >= Rows
    BY <2>2 DEF BelowScreen
  <2>4. ~BelowScreen(Con) => Top(w) = top
    BY <1>1, <1>5, <2>3
  <2>5. CursorOf(p, t, w)'
    BY <2>1, <2>2, <2>4 DEF CursorOf
  <2>6. RegistersOf(p, t, w)'
    BY <1>6, <2>1, <2>3 DEF RegistersOf
  <2>7. ScreenOf(p, w)'
    BY <1>6, <2>1, <2>4 DEF ScreenOf
  <2>. QED
    BY <2>1, <2>5, <2>6, <2>7 DEF OnTheWay
<1>19. CASE LoadExcess
  <2>1. /\ at = "excess" /\ at' = "scroll" /\ Con' = Con
        /\ local' = [local EXCEPT !.reg = Excess(Con), !.index = 0]
    BY <1>1, <1>19, ConsoleLemma DEF LoadExcess, Goto
  <2>2. local'.reg = Excess(Con) /\ local'.index = 0 /\ local'.ch = local.ch /\ local'.edge = local.edge
    BY <1>2, <2>1
  <2>3. Con.y = w.y - top /\ w.y - top >= Rows
    BY <1>6, <2>1 DEF CursorOf, RegistersOf
  <2>4. Excess(Con) = 1
    BY <1>1, <1>5, <2>3 DEF Excess
  <2>5. CursorOf(p, t, w)'
    BY <1>6, <2>1 DEF CursorOf
  <2>6. RegistersOf(p, t, w)'
    BY <1>6, <2>1, <2>2, <2>3, <2>4 DEF RegistersOf
  <2>7. ScreenOf(p, w)'
    BY <1>6, <2>1, <2>2, ScrollBegins DEF ScreenOf
  <2>. QED
    BY <2>1, <2>2, <2>5, <2>6, <2>7 DEF OnTheWay
<1>20. CASE ScrollCell
  <2>. DEFINE i == local.index
              kept == (Rows - 1) * Columns
              cell == IF i < kept THEN Con.text[Columns + i] ELSE Blank(Con)
  <2>1. /\ at = "scroll" /\ at' = (IF i + 1 = Kept + Columns THEN "last" ELSE "scroll")
        /\ local' = [local EXCEPT !.index = i + 1]
        /\ Con' = [Con EXCEPT !.text[local.index] =
                      IF local.index < Kept THEN Con.text[local.reg * Columns + local.index] ELSE Blank(Con)]
    BY <1>1, <1>20, ConsoleLemma DEF ScrollCell, Goto
  <2>2. local'.index = i + 1 /\ local'.reg = local.reg /\ local'.ch = local.ch /\ local'.edge = local.edge
    BY <1>2, <2>1
  <2>3. local.reg = 1 /\ w.y - top >= Rows /\ Con.y = w.y - top /\ Con.x = w.x
    BY <1>6, <2>1 DEF CursorOf, RegistersOf
  <2>4. Kept = kept /\ 1 * Columns = Columns
    BY <1>1, <2>3 DEF Kept
  <2>5. i \in 0 .. Kept + Columns - 1
    BY <1>1, <2>1 DEF RegistersOK
  <2>6. kept \in Nat /\ kept + Columns = Rows * Columns /\ Rows * Columns \in Nat
    BY <1>1, RowsLemma
  <2>7. Con' = [Con EXCEPT !.text[i] = cell]
    BY <2>1, <2>3, <2>4
  <2>8. i \in 0 .. Rows * Columns - 1
    BY <1>1, <2>4, <2>5, <2>6
  <2>9. NothingAt(w, top + Rows)
    <3>1. w.y = top + Rows /\ w.y > p.y
      BY <1>4, <1>5, <2>3
    <3>. QED
      BY <1>7, <3>1
  <2>10. Scrolling(Con, w, top, i)
    BY <1>6, <2>1 DEF ScreenOf
  <2>11. Scrolling(Con', w, top, i + 1) /\ Con'.x = Con.x /\ Con'.y = Con.y
    BY <1>1, <1>5, <2>7, <2>8, <2>9, <2>10, ScrollGoesOn
  <2>12. at' = "last" => Shows(Con', w, Top(w))
    <3>. SUFFICES ASSUME at' = "last" PROVE Shows(Con', w, Top(w))
      OBVIOUS
    <3>1. i + 1 = Rows * Columns
      BY <2>1, <2>4, <2>6
    <3>2. Scrolling(Con', w, top, Rows * Columns) /\ Top(w) = top + 1
      BY <1>5, <2>3, <2>11, <3>1
    <3>. QED
      BY <3>2, ScrollEnds
  <2>. HIDE DEF i, kept, cell
  <2>13. at' \in {"last", "scroll"}
    BY <2>1
  <2>14. CursorOf(p, t, w)'
    BY <2>3, <2>11, <2>13 DEF CursorOf
  <2>15. RegistersOf(p, t, w)'
    BY <1>6, <2>2, <2>3, <2>13 DEF RegistersOf
  <2>16. ScreenOf(p, w)'
    BY <2>2, <2>11, <2>12, <2>13 DEF ScreenOf
  <2>. QED
    BY <2>2, <2>13, <2>14, <2>15, <2>16 DEF OnTheWay
<1>21. CASE LastRow
  <2>1. /\ at = "last" /\ at' = "done" /\ local' = local /\ Con' = [Con EXCEPT !.y = Rows - 1]
    BY <1>1, <1>21, ConsoleLemma DEF LastRow, Goto, SetY
  <2>2. Con'.x = Con.x /\ Con'.y = Rows - 1 /\ Con'.text = Con.text
    BY <1>1, <2>1 DEF ConsoleOK, ConsoleFields
  <2>3. Con.x = w.x /\ w.y - top >= Rows
    BY <1>6, <2>1 DEF CursorOf, RegistersOf
  <2>4. Con'.y = w.y - Top(w)
    BY <1>5, <2>2, <2>3
  <2>5. CursorOf(p, t, w)'
    BY <2>1, <2>2, <2>3, <2>4 DEF CursorOf
  <2>6. RegistersOf(p, t, w)'
    BY <1>6, <2>1 DEF RegistersOf
  <2>7. ScreenOf(p, w)'
    <3>1. Shows(Con, w, Top(w))
      BY <1>6, <2>1 DEF ScreenOf
    <3>2. Shows(Con', w, Top(w))
      BY <2>2, <3>1, SameScreen
    <3>. QED
      BY <2>1, <3>2 DEF ScreenOf
  <2>. QED
    BY <2>1, <2>5, <2>6, <2>7 DEF OnTheWay
<1>22. CASE MoveCursor
  <2>1. at = "done" /\ at' = "idle" /\ Con' = Con
    BY <1>1, <1>22, ConsoleLemma DEF MoveCursor, Goto
  <2>2. Con.x = w.x /\ Con.y = w.y - Top(w) /\ Shows(Con, w, Top(w))
    BY <1>6, <2>1 DEF CursorOf, ScreenOf
  <2>3. OnPaper(Con', w)
    BY <1>3, <2>1, <2>2 DEF OnPaper
  <2>. QED
    BY <2>1, <2>3
<1>23. ~BeginPutch
  BY DEF BeginPutch
<1>. QED
  BY <1>8, <1>9, <1>10, <1>11, <1>12, <1>13, <1>14, <1>15, <1>16, <1>17, <1>18, <1>19, <1>20, <1>21, <1>22, <1>23,
     <1>26
     DEF Putch

(***************************************************************************)
(* As long as no handler has printed inside a putch, the console is on the *)
(* paper of what was printed, or on its way there from the paper of all    *)
(* but the last character.                                                 *)
(***************************************************************************)
Typing(s) ==
    LET p == Paper(s)
        t == Typed(p, local.ch)
    IN  printed = Append(s, local.ch) /\ PaperOK(p) /\ OnTheWay(p, t, Wrapped(t))

PaperInv ==
    (task = "print" /\ ~raced) =>
        IF at = "idle" THEN OnPaper(Con, Paper(printed)) ELSE \E s \in Seq(Printable) : Typing(s)

LEMMA InitPaper == Init => PaperInv
<1>. SUFFICES ASSUME Init PROVE PaperInv
  OBVIOUS
<1>1. /\ at = "idle" /\ printed = <<>>
      /\ Con = output_redirection(init(Untouched, 15, 0), task = "print")
  BY DEF Init, Con
<1>. DEFINE t == set_TextColor(Untouched, 15, 0)
            u == [t EXCEPT !.textmemptr = TRUE]
            m == memset(u.text, 0, Blank(u), Rows * Columns)
            v == cls(u)
<1>2. DOMAIN u = ConsoleFields /\ DOMAIN u.text = TextMemory
  BY DEF set_TextColor, Untouched, ConsoleFields
<1>. HIDE DEF u
<1>3. v = [u EXCEPT !.text = m, !.x = 0, !.y = 0]
  BY DEF cls
<1>4. \A a \in TextMemory : a \in 0 .. 0 + (Rows * Columns) - 1 => m[a] = Blank(u)
  BY <1>2 DEF memset
<1>. HIDE DEF m
<1>5. DOMAIN v = ConsoleFields /\ v.text = m /\ v.x = 0 /\ v.y = 0
  BY <1>2, <1>3 DEF ConsoleFields
<1>. HIDE DEF v
<1>6. Con.text = m /\ Con.x = 0 /\ Con.y = 0
  BY <1>1, <1>5 DEF output_redirection, init, ConsoleFields, v, u, t
<1>7. /\ Paper(printed) = Sheet /\ Top(Sheet) = 0 /\ PaperOK(Sheet) /\ Sheet.x = 0 /\ Sheet.y = 0
      /\ \A row, column : Letter(Sheet, row, column) = " "
  <2>1. Paper(printed) = Sheet
    BY <1>1, PaperLemma
  <2>2. DOMAIN Sheet.cells = {} /\ DOMAIN Sheet = {"x", "y", "cells"} /\ Sheet.x = 0 /\ Sheet.y = 0
    BY DEF Sheet
  <2>3. Columns \in Nat /\ Columns > 0 /\ Rows \in Nat /\ Rows > 1
    BY ConsoleAssumption
  <2>4. 0 \in 0 .. Columns - 1 /\ 0 \in Nat /\ 0 < Rows
    BY <2>3
  <2>. QED
    BY <2>1, <2>2, <2>4 DEF Top, PaperOK, Letter
<1>8. ASSUME NEW row \in 0 .. Rows - 1, NEW column \in 0 .. Columns - 1
      PROVE  Con.text[row * Columns + column][1] = Letter(Sheet, 0 + row, column)
  <2>1. Cell(row, column) \in 0 .. Rows * Columns - 1 /\ Cell(row, column) \in TextMemory
    BY CellLemma DEF OfScreen
  <2>2. 0 + (Rows * Columns) - 1 = Rows * Columns - 1
    BY RowsLemma
  <2>3. m[Cell(row, column)] = Blank(u)
    BY <1>4, <2>1, <2>2
  <2>4. Blank(u)[1] = " "
    BY DEF Blank
  <2>5. m[row * Columns + column][1] = " "
    BY <2>3, <2>4 DEF Cell
  <2>. QED
    BY <1>6, <1>7, <2>5
<1>9. Shows(Con, Sheet, 0)
  BY <1>8 DEF Shows
<1>10. OnPaper(Con, Sheet)
  <2>1. 0 = 0 - 0
    OBVIOUS
  <2>. QED
    BY <1>6, <1>7, <1>9, <2>1 DEF OnPaper
<1>. QED
  BY <1>1, <1>7, <1>10 DEF PaperInv

LEMMA BeginOnPaper ==
    ASSUME DriversInv, FlowOK, BeginPutch, NEW s \in Seq(Printable), s = printed, OnPaper(Con, Paper(s))
    PROVE  Typing(s)'
<1>. DEFINE p == Paper(s)
<1>1. PICK ch \in Characters :
          /\ printed' = Append(printed, ch) /\ local' = [local EXCEPT !.ch = ch]
          /\ at' = CASE ch \notin Controls -> "row"
                     [] ch = "backspace" -> "margin"
                     [] ch = "tab"       -> "loadx"
                     [] OTHER            -> "clearx"
  BY DEF BeginPutch
<1>. DEFINE t == Typed(p, ch)
            w == Wrapped(t)
<1>2. MachineOK /\ local \in RegisterType /\ ~local.edge
  BY DEF DriversInv, MainOK, BeginPutch, FlowOK, FullRow
<1>3. Con' = Con /\ local'.ch = ch /\ ~local'.edge
  BY <1>1, <1>2, ConsoleLemma DEF BeginPutch, RegisterType
<1>4. PaperOK(p) /\ Shows(Con, p, Top(p)) /\ Con.x = p.x /\ Con.y = p.y - Top(p)
  BY DEF OnPaper
<1>5. /\ at' \in {"row", "margin", "loadx", "clearx"}
      /\ at' # "row" => ch \in Controls
      /\ at' = "loadx" => ch # "backspace"
  BY <1>1 DEF Controls
<1>6. ch \in Controls => Shows(Con, w, Top(p))
  BY <1>4, ControlShows
<1>. HIDE DEF p, t, w
<1>7. CursorOf(p, t, w)'
  BY <1>3, <1>4, <1>5 DEF CursorOf
<1>8. RegistersOf(p, t, w)'
  BY <1>3, <1>5 DEF RegistersOf
<1>9. ScreenOf(p, w)'
  BY <1>3, <1>4, <1>5, <1>6 DEF ScreenOf
<1>. QED
  BY <1>1, <1>3, <1>4, <1>7, <1>8, <1>9 DEF Typing, OnTheWay, p, t, w

LEMMA PutchPaper ==
    ASSUME DriversInv, CursorInv, FlowOK, PaperInv, Putch
    PROVE  PaperInv'
<1>1. /\ task' = task /\ raced' = raced /\ printed \in Seq(Printable)
      /\ at \in PrintLabels => local.ch \in Printable
      /\ at # "idle" => at \in PrintLabels /\ printed' = printed /\ ~BeginPutch
  <2>1. at # "idle" => at \in PrintLabels /\ printed' = printed /\ ~BeginPutch
    BY DEF Putch, BeginPutch, AddressRow, AddressColumn, Store, Margin, LoadX, StoreX, ClearX,
           LoadY, StoreY, Echo, Edge, Below,
           LoadExcess, ScrollCell, LastRow, MoveCursor, Goto, PrintLabels
  <2>. QED
    BY <2>1 DEF CursorInv, FlowOK, Printable, Putch, BeginPutch, AddressRow, AddressColumn, Store,
           Margin, LoadX, StoreX, ClearX, LoadY, StoreY, Echo, Edge, Below, LoadExcess, ScrollCell, LastRow, MoveCursor, Goto
<1>. SUFFICES ASSUME task = "print", ~raced
              PROVE  IF at' = "idle" THEN OnPaper(Con', Paper(printed')) ELSE \E s \in Seq(Printable) : Typing(s)'
  BY <1>1 DEF PaperInv
<1>2. CASE at = "idle"
  <2>1. BeginPutch
    BY <1>2 DEF Putch, AddressRow, AddressColumn, Store, Margin, LoadX, StoreX, ClearX,
           LoadY, StoreY, Echo, Edge, Below,
           LoadExcess, ScrollCell, LastRow, MoveCursor, Goto
  <2>2. PICK s \in Seq(Printable) : s = printed
    BY <1>1
  <2>3. OnPaper(Con, Paper(s))
    BY <1>2, <2>2 DEF PaperInv
  <2>4. Typing(s)'
    BY <2>1, <2>2, <2>3, BeginOnPaper
  <2>5. at' # "idle"
    BY <2>1 DEF BeginPutch
  <2>. QED
    BY <2>4, <2>5
<1>3. CASE at # "idle"
  <2>1. PICK s \in Seq(Printable) : Typing(s)
    BY <1>3 DEF PaperInv
  <2>2. PICK ch \in Printable : ch = local.ch
    BY <1>1, <1>3
  <2>. DEFINE p == Paper(s)
              t == Typed(p, ch)
              w == Wrapped(t)
  <2>3. printed = Append(s, ch) /\ PaperOK(p) /\ OnTheWay(p, t, w)
    BY <2>1, <2>2 DEF Typing
  <2>4. IF at' = "idle" THEN OnPaper(Con', w) ELSE local'.ch = ch /\ OnTheWay(p, t, w)'
    <3>1. \A q : PaperOK(q) /\ OnTheWay(q, Typed(q, ch), Wrapped(Typed(q, ch))) =>
             IF at' = "idle" THEN OnPaper(Con', Wrapped(Typed(q, ch)))
             ELSE local'.ch = ch /\ OnTheWay(q, Typed(q, ch), Wrapped(Typed(q, ch)))'
      BY <1>3, <2>2, PutchOnPaper
    <3>. QED
      BY <2>3, <3>1
  <2>5. CASE at' = "idle"
    <3>1. Paper(printed') = w
      BY <1>1, <1>3, <2>2, <2>3, PaperLemma
    <3>. QED
      BY <2>4, <2>5, <3>1
  <2>6. CASE at' # "idle"
    <3>1. Typing(s)'
      BY <1>1, <1>3, <2>3, <2>4, <2>6 DEF Typing
    <3>. QED
      BY <2>6, <3>1
  <2>. QED
    BY <2>5, <2>6
<1>. QED
  BY <1>2, <1>3

LEMMA NextPaper == DriversInv /\ CursorInv /\ FlowOK /\ PaperInv /\ [Next]_vars => PaperInv'
<1>. SUFFICES ASSUME DriversInv, CursorInv, FlowOK, PaperInv, [Next]_vars PROVE PaperInv'
  OBVIOUS
<1>1. CursorType /\ ConsoleOK(Con) /\ printed \in Seq(Printable)
  BY CursorIsTyped DEF CursorInv, CursorOK, Untold, ConsoleOK
<1>2. CASE Putch
  BY <1>2, PutchPaper
<1>3. ASSUME UNCHANGED <<at, local, printed, Con>>, task' = task, raced => raced'
      PROVE PaperInv'
  <2>1. ASSUME NEW p, NEW t, NEW w PROVE OnTheWay(p, t, w)' <=> OnTheWay(p, t, w)
    <3>1. CursorOf(p, t, w)' <=> CursorOf(p, t, w)
      BY <1>3 DEF CursorOf
    <3>2. RegistersOf(p, t, w)' <=> RegistersOf(p, t, w)
      BY <1>3 DEF RegistersOf
    <3>3. ScreenOf(p, w)' <=> ScreenOf(p, w)
      BY <1>3 DEF ScreenOf
    <3>. QED
      BY <3>1, <3>2, <3>3 DEF OnTheWay
  <2>2. ASSUME NEW s PROVE Typing(s)' <=> Typing(s)
    BY <1>3, <2>1 DEF Typing
  <2>3. at' = at /\ task' = task /\ OnPaper(Con', Paper(printed')) = OnPaper(Con, Paper(printed))
    BY <1>3
  <2>. QED
    BY <1>3, <2>2, <2>3 DEF PaperInv
<1>4. CASE /\ Handle /\ UNCHANGED <<task, at, local>>
           /\ Con' = IF Prints(irq) THEN puts(Con, Timer!Message) ELSE Con
           /\ printed' = IF Prints(irq) /\ task = "print" THEN printed \o Timer!Message ELSE printed
  <2>1. raced' = (raced \/ (Prints(irq) /\ task = "print" /\ at # "idle"))
    BY <1>4 DEF Handle
  <2>2. CASE ~Prints(irq)
    BY <1>3, <1>4, <2>1, <2>2
  <2>3. CASE Prints(irq) /\ (at # "idle" \/ task # "print" \/ raced)
    <3>1. raced' \/ task' # "print"
      BY <1>4, <2>1, <2>3, Zenon
    <3>. QED
      BY <3>1, Zenon DEF PaperInv
  <2>4. CASE Prints(irq) /\ at = "idle" /\ task = "print" /\ ~raced
    <3>. DEFINE c == putch(Con, "s")
                p == Paper(printed)
                w == Wrapped(Typed(p, "s"))
    <3>1. OnPaper(Con, p)
      BY <2>4 DEF PaperInv
    <3>2. OnPaper(c, w) /\ ConsoleOK(c)
      BY <1>1, <3>1, PutchTypes
    <3>3. OnPaper(putch(c, "newline"), Wrapped(Typed(w, "newline")))
      BY <3>2, PutchTypes
    <3>4. Con' = putch(c, "newline")
      BY <1>4, <2>4, MessageLemma
    <3>5. Paper(printed') = Wrapped(Typed(w, "newline"))
      <4>1. "s" \in Printable /\ "newline" \in Printable
        BY DEF Printable
      <4>2. printed' = Append(Append(printed, "s"), "newline")
        BY <1>1, <1>4, <2>4 DEF Timer!Message
      <4>3. Append(printed, "s") \in Seq(Printable)
        BY <1>1, <4>1
      <4>4. Paper(Append(printed, "s")) = w
        BY <1>1, <4>1, PaperLemma
      <4>5. Paper(Append(Append(printed, "s"), "newline")) = Wrapped(Typed(Paper(Append(printed, "s")), "newline"))
        BY <4>1, <4>3, PaperLemma
      <4>. QED
        BY <4>2, <4>4, <4>5
    <3>. QED
      BY <1>4, <2>4, <3>3, <3>4, <3>5 DEF PaperInv
  <2>. QED
    BY <2>2, <2>3, <2>4
<1>5. CASE UNCHANGED <<task, at, local, printed, raced, Con>>
  BY <1>3, <1>5
<1>6. CASE task' = task /\ task # "print"
  BY <1>6 DEF PaperInv
<1>. QED
  BY <1>1, <1>2, <1>4, <1>5, <1>6, OtherSteps

-----------------------------------------------------------------------------
(***************************************************************************)
(* Whenever the main thread runs, the state of the drivers is what they    *)
(* expect and no interrupt is in service in either controller, whatever    *)
(* ran before: dispatch_interrupt of interrupts.C ends every interrupt in  *)
(* the controllers that have it.                                           *)
(***************************************************************************)
THEOREM DriversAgree == Spec => []DriversConsistent
<1>1. DriversInv /\ CursorInv => DriversConsistent
  <2>. SUFFICES ASSUME DriversInv, CursorInv PROVE DriversConsistent
    OBVIOUS
  <2>1. TypeOK
    <3>1. DOMAIN Con.text = TextMemory
      BY DEF CursorInv, CursorOK, Untold
    <3>2. irq \in Dispatcher!Lines \cup {NoIrq}
      BY DEF DriversInv, InServiceOK, Devs, Dispatcher!Lines, Dispatcher!IRQ_TABLE_SIZE
    <3>. QED
      BY <3>1, <3>2 DEF TypeOK, DriversInv, MachineOK, InServiceOK, MainOK
  <2>2. irq = NoIrq => Dispatcher!Idle(machine.pic)
    BY DEF DriversInv, InServiceOK, NoIrq, Dispatcher!Idle
  <2>3. Cardinality(machine.pic.master) <= 1
    <3>1. \A x : Cardinality({x}) = 1
      BY FS_Singleton
    <3>2. Cardinality({}) = 0
      BY FS_EmptySet
    <3>3. machine.pic.master = {} \/ \E x : machine.pic.master = {x}
      BY DEF DriversInv, InServiceOK
    <3>4. CASE machine.pic.master = {}
      BY <3>2, <3>4
    <3>5. ASSUME NEW x, machine.pic.master = {x} PROVE Cardinality(machine.pic.master) <= 1
      <4>1. Cardinality(machine.pic.master) = 1
        BY <3>1, <3>5, Zenon
      <4>. QED
        BY <4>1
    <3>. QED
      BY <3>3, <3>4, <3>5
  <2>. QED
    BY <2>1, <2>2, <2>3 DEF DriversConsistent, Acknowledged
<1>. QED
  BY <1>1, DevicesInvariant, PTL

(***************************************************************************)
(* SimpleTimer::current() answers a time that is never later than now and  *)
(* earlier than the beginning of the call by less than a second, though    *)
(* the handler may change seconds and ticks between its two reads.         *)
(***************************************************************************)
THEOREM CurrentIsNear == Spec => []TimeIsNear
<1>1. DriversInv /\ CursorInv /\ ClockInv /\ [Next]_vars => ClockInv'
  BY NextClock, CursorIsTyped
<1>2. ClockInv => TimeIsNear
  BY DEF ClockInv
<1>. QED
  BY <1>1, <1>2, InitClock, DevicesInvariant, PTL DEF Spec

(***************************************************************************)
(* SimpleKeyboard::read() answers a key that was pressed after the call or *)
(* that the controller still held then, and none that the handler had been *)
(* given before, although keys go on coming between its steps.             *)
(***************************************************************************)
THEOREM ReadIsFresh == Spec => []FreshKey
<1>1. DriversInv /\ CursorInv /\ KeyInv /\ [Next]_vars => KeyInv'
  BY NextKeys, CursorIsTyped
<1>2. KeyInv => FreshKey
  BY DEF KeyInv
<1>. QED
  BY <1>1, <1>2, InitKeys, DevicesInvariant, PTL DEF Spec

(***************************************************************************)
(* However handlers print inside Console::putch, between any two of its    *)
(* loads and stores, the cursor is on the screen when putch is over, no    *)
(* character is stored further behind the screen than one row, and before  *)
(* it not further than there were backspaces.                              *)
(***************************************************************************)
THEOREM CursorReturns == Spec => []CursorComesBack
<1>1. CursorInv => CursorComesBack
  <2>. SUFFICES ASSUME CursorInv PROVE CursorComesBack
    OBVIOUS
  <2>1. LeftMost \in Int /\ Columns \in Nat /\ Rows \in Nat
    BY LeftMostLemma, RowsLemma DEF CursorInv
  <2>2. at = "idle" => Con.x \in LeftMost .. Columns - 1 /\ Con.y \in 0 .. Rows - 1
    BY <2>1 DEF CursorInv, CursorOK, NearScreen, AboutToScroll
  <2>3. \A a \in TextMemory : (a < LeftMost \/ a >= (Rows + 1) * Columns) => Con.text[a] = Unknown
    BY DEF CursorInv, CursorOK, Untold
  <2>. QED
    BY <2>2, <2>3 DEF CursorComesBack
<1>. QED
  BY <1>1, DevicesInvariant, PTL
(***************************************************************************)
(* The redirected output loses nothing and mixes nothing up: what the main *)
(* thread prints through Console::putch leaves the port in its order, and  *)
(* the line of a handler that came between two steps of putch in one       *)
(* piece, wherever the race has taken the cursor.                          *)
(***************************************************************************)
THEOREM EchoArrives == Spec => []EchoComplete
<1>1. Init => DriversInv /\ CursorInv /\ FlowOK /\ EchoInv
  BY InitDrivers, InitCursor, InitFlow, InitEcho
<1>2. DriversInv /\ CursorInv /\ FlowOK /\ EchoInv /\ [Next]_vars => FlowOK' /\ EchoInv'
  BY NextFlow, NextEcho, CursorIsTyped
<1>3. EchoInv => EchoComplete
  BY DEF EchoInv, EchoComplete, Sent
<1>. QED
  BY <1>1, <1>2, <1>3, DevicesInvariant, PTL DEF Spec

(***************************************************************************)
(* Unless a handler has printed inside a putch, the screen shows between   *)
(* two calls of Console::putch the last rows of a paper on which           *)
(* everything was typed: tabs, backspaces and the ends of the rows         *)
(* included, and however many rows the scroll has dropped.                 *)
(***************************************************************************)
THEOREM ScreenIsPaper == Spec => []ScreenShowsPaper
<1>1. Init => FlowOK /\ PaperInv
  BY InitFlow, InitPaper
<1>2. DriversInv /\ CursorInv /\ FlowOK /\ PaperInv /\ [Next]_vars => FlowOK' /\ PaperInv'
  BY NextFlow, NextPaper, CursorIsTyped
<1>3. PaperInv => ScreenShowsPaper
  BY DEF PaperInv, ScreenShowsPaper, OnPaper
<1>. QED
  BY <1>1, <1>2, <1>3, DevicesInvariant, PTL DEF Spec
===============================================================================
