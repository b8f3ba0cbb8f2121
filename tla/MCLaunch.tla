------------------------------ MODULE MCLaunch ------------------------------
(* Launch for TLC. *)
EXTENDS Launch

CONSTANTS c1, c2

MCCalls == {c1, c2}

\* Two calls at the same time: a push or a save beside any call but a push.  A
\* second checkout that runs beside that of a push is a retry's.
PairedOps == [c \in MCCalls |-> IF c = c1 THEN {"push", "save"} ELSE Operations \ {"push"}]
=============================================================================
