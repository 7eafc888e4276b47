------------------------------ MODULE Console ------------------------------
(***************************************************************************)
(* The text console.  It is a record: the cursor, the colours, the text    *)
(* memory of the screen with the rows behind it, and the port to which     *)
(* output is sent too when it is redirected.  Each step of putch is an     *)
(* operator of its own, so that a module can run putch in one piece, as    *)
(* an interrupt handler does, or stop between the steps.                   *)
(***************************************************************************)
EXTENDS Integers, Sequences, SequencesExt, Utils

CONSTANTS Columns, Rows,    \* 80 and 25
          TabStop,          \* 8
          CanRedirect       \* whether this kernel's console has the port

ASSUME ConsoleAssumption ==
    /\ Columns \in Nat \ {0} /\ Rows \in Nat /\ Rows > 1
    /\ TabStop \in 1 .. Columns /\ Columns % TabStop = 0
    /\ CanRedirect \in BOOLEAN

Controls == {"backspace", "tab", "return", "newline"}

\* The text memory goes on behind the screen, and other memory lies before it:
\* two rows behind and one before are enough to see what is written there.
TextMemory == -Columns .. (Rows + 2) * Columns - 1
Unknown == <<"?", 0>>

Attribute(fore, back) == (back * 16) + (fore % 16)
Blank(c) == <<" ", c.attrib>>
set_TextColor(c, fore, back) == [c EXCEPT !.attrib = Attribute(fore, back)]

cls(c) == [c EXCEPT !.text = memset(@, 0, Blank(c), Rows * Columns), !.x = 0, !.y = 0]

\* The statics before init: zeros, and whatever is in the text memory.
\* A console without its pointer to the text memory writes anywhere.
Untouched == [x |-> 0, y |-> 0, attrib |-> 0, redirect |-> FALSE, port |-> <<>>,
              textmemptr |-> FALSE, text |-> [a \in TextMemory |-> Unknown]]

init(c, fore, back) == cls([set_TextColor(c, fore, back) EXCEPT !.textmemptr = TRUE])

output_redirection(c, on) == [c EXCEPT !.redirect = CanRedirect /\ on]

-----------------------------------------------------------------------------
(***************************************************************************)
(* putch: the store of a printable character, the move of the cursor, the  *)
(* echo, the edge of the row, the scroll.                                  *)
(***************************************************************************)
Where(c) == c.y * Columns + c.x
Stored(c, where, ch) == [c EXCEPT !.text[where] = <<ch, c.attrib>>]

AtMargin(c) == c.x = 0
Column(x, ch) ==
    CASE ch = "backspace"             -> x - 1
      [] ch = "tab"                   -> ((x + TabStop) \div TabStop) * TabStop
      [] ch \in {"return", "newline"} -> 0
      [] OTHER                        -> x + 1

Echoed_printableOnly(c, ch) ==
    IF c.redirect /\ ch \notin Controls THEN [c EXCEPT !.port = Append(@, ch)] ELSE c
Echoed(c, ch) ==
    IF c.redirect /\ ch \notin {"backspace", "tab"} THEN [c EXCEPT !.port = Append(@, ch)] ELSE c

AtEdge_late(c) == c.x > Columns
AtEdge(c) == c.x >= Columns

\* scroll: lines to drop, then the cells that move up and the blank row.
BelowScreen_late(c) == c.y > Rows
BelowScreen(c) == c.y >= Rows
Excess(c) == c.y - Rows + 1
Scrolled(c) ==
    IF ~BelowScreen(c) THEN c
    ELSE LET kept == (Rows - Excess(c)) * Columns
         IN  [c EXCEPT !.text = memset(memcpy(@, 0, Excess(c) * Columns, kept), kept, Blank(c), Columns),
                       !.y = Rows - 1]

putch(c, ch) ==
    LET stored == IF ch \in Controls THEN c ELSE Stored(c, Where(c), ch)
        moved  == [stored EXCEPT !.x = IF ch = "backspace" /\ AtMargin(c) THEN @ ELSE Column(@, ch),
                                 !.y = IF ch = "newline" THEN @ + 1 ELSE @]
        echoed == Echoed(moved, ch)
    IN  Scrolled(IF AtEdge(echoed) THEN [echoed EXCEPT !.x = 0, !.y = @ + 1] ELSE echoed)

puts(c, s) ==
    LET after[n \in 0 .. Len(s)] == IF n = 0 THEN c ELSE putch(after[n - 1], s[n])
    IN  after[Len(s)]

\* A number is printed as its digits, an unsigned one in angle brackets.
puti(c, n)  == puts(c, int2str(n))
putui(c, n) == puts(c, <<"<">> \o int2str(n) \o <<">">>)
=============================================================================
