------------------------------ MODULE MCConsole ------------------------------
(* Instance of Console for TLC: the characters of the arrow keys are all there *)
(* is to type.                                                                 *)
EXTENDS Console

ArrowCharacters == {"[", "A", "B"}

=============================================================================
