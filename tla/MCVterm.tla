------------------------------ MODULE MCVterm ------------------------------
(* Model values for Vterm: a string that fills a line and wraps, and one   *)
(* that breaks a line and takes it back.                                   *)
EXTENDS Vterm

MCTexts == {<<"a", "a", "a">>, <<"a", "NL", "BS">>}
=============================================================================
