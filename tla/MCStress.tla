------------------------------ MODULE MCStress ------------------------------
(* TLC instance of Stress: two pipelines (a third A process, which shares B2   *)
(* with the second one, is left out), every second report a "twentieth", and   *)
(* so few blocks that the losses can dry up the pool at every point.  Deadlock *)
(* is not checked: at the end all reports are made, or no block is left.       *)
EXTENDS Stress, TLC

CONSTANTS A1, A2, B1, B2

MCA == {A1, A2}
MCB == {B1, B2}
MCto_c == (B1 :> C1) @@ (B2 :> C2)
MCto_b == (A1 :> B1) @@ (A2 :> B2)
MCMaxReports == (A1 :> 3) @@ (A2 :> 3)
=============================================================================
