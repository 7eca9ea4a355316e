-------------------------------- MODULE Chars --------------------------------
(***************************************************************************)
(* Characters of text that mean something of their own.  A printable       *)
(* character is a string of length one.                                    *)
(***************************************************************************)
CONSTANTS
    NL,    \* the newline
    ESC    \* the escape character, which begins a sequence for a console
=============================================================================
