-------------------------------- MODULE MCZrtp --------------------------------
EXTENDS ZrtpSession, TLC

(* One packet is doubled, and that in the first call.                      *)
MC_MaxDoubled == [s \in 1 .. MaxSession |-> IF s = 1 THEN 1 ELSE 0]
===============================================================================
