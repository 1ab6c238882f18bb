---------------------------- MODULE MCCollection ----------------------------
(* Small instances of the parts of one scenario's collection, for TLC.     *)
EXTENDS ContentTerminal, TLC

\* A list whose last row looks like its first.
TwinList == {<<"a", "b", "c", "a">>}

=============================================================================
