------------------------------- MODULE Utils -------------------------------
(***************************************************************************)
(* The functions on memory and numbers that every kernel links.  A memory  *)
(* is a function from addresses to cells; a loop over a memory goes one    *)
(* cell at a time from the low end, which matters when the two areas of    *)
(* memcpy overlap.                                                         *)
(***************************************************************************)
EXTENDS Integers, Sequences, SequencesExt, TLC

\* abort() loops for ever; the statement that follows it is never reached.
abort(m) == [m EXCEPT !.halted = TRUE]

memcpy(memory, dest, src, count) ==
    LET copied[n \in 0 .. count] ==
            IF n = 0 THEN memory
            ELSE LET m == copied[n - 1] IN [m EXCEPT ![dest + n - 1] = m[src + n - 1]]
    IN  copied[count]

memset(memory, dest, val, count) ==
    [a \in DOMAIN memory |-> IF a \in dest .. dest + count - 1 THEN val ELSE memory[a]]

(***************************************************************************)
(* int2str and uint2str: the ten remainders of the number, without the     *)
(* zeros in front of the first other digit.  C rounds a quotient towards   *)
(* zero, so the remainders of a negative number are negative and become    *)
(* characters below "0": a character here is its distance from "0".        *)
(***************************************************************************)
Quotient(n)  == IF n < 0 THEN -((-n) \div 10) ELSE n \div 10
Remainder(n) == n - 10 * Quotient(n)

Remainders(n) ==
    FoldLeft(LAMBDA d, i : [rest |-> Quotient(d.rest), digits |-> <<Remainder(d.rest)>> \o d.digits],
             [rest |-> n, digits |-> <<>>], [i \in 1 .. 10 |-> i]).digits

int2str(n) ==
    LET d     == Remainders(n)
        first == CHOOSE i \in 1 .. 10 :
                    /\ \A j \in 1 .. i - 1 : d[j] = 0
                    /\ d[i] # 0 \/ i = 10
    IN  [i \in 1 .. 11 - first |-> ToString(d[first + i - 1])]
=============================================================================
