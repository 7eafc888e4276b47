----------------------------- MODULE SimpleDisk -----------------------------
(***************************************************************************)
(* The driver of the disk: a command is written to the ports of the        *)
(* controller byte by byte, the driver spins until the controller asks for *)
(* data, and then moves a block word by word.  The controller is a record: *)
(* the task registers, what it is doing, and whether it asks for data.     *)
(***************************************************************************)
LOCAL INSTANCE Integers
LOCAL INSTANCE Sequences

SizeOfDisk == 12
READ == 32          \* 0x20
WRITE == 48         \* 0x30
Master == 0

SimpleDisk(m, id, size) == [m EXCEPT !.disk_id = id, !.disk_size = size]

\* The controller before the first command.
Quiet == [registers |-> <<>>, command |-> 0, drq |-> FALSE]

Byte(n, i) == (n \div (256 ^ i)) % 256

issue_operation(m, op, block) ==
    [m EXCEPT !.ide =
        [registers |-> <<0, 1, Byte(block, 0), Byte(block, 1), Byte(block, 2),
                         (Byte(block, 3) % 16) + 224 + (m.disk_id * 16)>>,
         command |-> op, drq |-> FALSE]]

is_ready(m) == m.ide.drq

\* 256 words of two bytes each, which is what the controller expects.
Transfer(m) == [m EXCEPT !.ide.drq = FALSE, !.ide.command = 0]

\* What the controller makes of its registers.
BlockOf(r) == r[3] + 256 * r[4] + 65536 * r[5] + 16777216 * (r[6] % 16)
=============================================================================
