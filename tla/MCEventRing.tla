---------------------------- MODULE MCEventRing ----------------------------
(* Instances of EventRing for TLC.                                         *)
EXTENDS EventRing

\* A short row, one with an SQL NULL, one with more columns than the limit and
\* one with an empty column and a column that no arena can take.
MCRowBody == {<<1>>, <<NULL, 2>>, <<1, 2, 1>>, <<0, 4>>}

=============================================================================
