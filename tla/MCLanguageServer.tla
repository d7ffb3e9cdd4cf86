-------------------------- MODULE MCLanguageServer --------------------------
(* Small instances of LanguageServer for TLC.                               *)
EXTENDS LanguageServer

CONSTANTS file1, file2, alias, typo

\* alias means file2, typo nothing.
AliasAndTypo == [s \in Specifiers |-> IF s = alias THEN file2 ELSE Unknown]

=============================================================================
