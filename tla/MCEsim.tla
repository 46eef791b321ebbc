------------------------------- MODULE MCEsim -------------------------------
(* Two domains of 500 GHz and 333.333 GHz: cycles of 2 and of 3 picoseconds, *)
(* so that times are rounded and the slow domain's frames lie in the past.   *)
EXTENDS Esim, TLC

CONSTANTS fast, slow, Fast, Slow

MCFrequency == (Fast :> 500000) @@ (Slow :> 333333)
MCDomainOf  == (fast :> Fast) @@ (slow :> Slow)
MCPeriods   == (fast :> {0}) @@ (slow :> {1})

=============================================================================
