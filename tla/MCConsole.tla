----------------------------- MODULE MCConsole -----------------------------
(* Model values for Console: the keys and the panic messages.              *)
EXTENDS Console

Plain(code) == [code |-> code, ext |-> FALSE]
Grey(code)  == [code |-> code, ext |-> TRUE]

\* A letter, a digit, backspace, newline, both shift keys, caps lock, the
\* arrows and a fake shift.
MCKeys == {Plain(30), Plain(2), Plain(14), Plain(28), Plain(42), Plain(54), Plain(58),
           Grey(72), Grey(75), Grey(77), Grey(80), Grey(42)}

\* A message that fills the screen to its last cell, one below a blank row.
MCPanic == {<<[row |-> 0, text |-> <<"p">>], [row |-> 1, text |-> <<"q">>]>>,
            <<[row |-> 1, text |-> <<"s">>]>>}
=============================================================================
