--------------------------- MODULE MCMapLifecycle ---------------------------
(* Constants for checking MapLifecycle with TLC.                           *)
EXTENDS MapLifecycle

\* One bucket as asked for, or the default number.
TooFewOrOne == {0, 1}
=============================================================================
