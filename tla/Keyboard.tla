------------------------------ MODULE Keyboard ------------------------------
(***************************************************************************)
(* SimpleKeyboard: the flag and the code that the handler leaves to the    *)
(* busy loops of wait() and read().  The controller holds one code at most *)
(* until it is read; NoKey stands for the release of a key, whose code is  *)
(* negative.                                                               *)
(***************************************************************************)
NoKey == 0

SimpleKeyboard == [key_pressed |-> FALSE, key_code |-> NoKey]

Key(k, code) == IF code = NoKey THEN k ELSE [key_pressed |-> TRUE, key_code |-> code]

KeyInterrupt(m) ==
    [m EXCEPT !.keyboard = IF m.controller = <<>> THEN @ ELSE Key(@, m.controller[1]),
              !.controller = <<>>]
=============================================================================
