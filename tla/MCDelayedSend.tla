--------------------------- MODULE MCDelayedSend ---------------------------
(* TLC instances of DelayedSend: three messages, delays up to five ticks.      *)
EXTENDS DelayedSend

CONSTANTS m1, m2, m3
MCMessages == {m1, m2, m3}
=============================================================================
