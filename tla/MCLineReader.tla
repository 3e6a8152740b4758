---------------------------- MODULE MCLineReader ----------------------------
(***************************************************************************)
(* Instances of LineReader for TLC.                                        *)
(***************************************************************************)
EXTENDS LineReader

\* Lines of one, two and three digits, ended by "\r\n" or by one character.
ThreeLines == <<"digit", "eol", "eol",
                "digit", "digit", "eol", "eol",
                "digit", "digit", "digit", "eol">>
=============================================================================
