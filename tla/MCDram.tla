------------------------------- MODULE MCDram -------------------------------
(* Small instances of the DRAM model.                                      *)
EXTENDS Dram

\* The proportions of the default DDR3 device, scaled down.
Scaled == [tRC |-> 6, tRRD |-> 2, tRP |-> 2, tCCD |-> 2, tRTRS |-> 1, tCWD |-> 1,
           tWTR |-> 2, tCAS |-> 3, tRCD |-> 2, tOST |-> 1, tRAS |-> 4, tWR |-> 2,
           tRTP |-> 2, tBURST |-> 2]
=============================================================================
