-------------------------------- MODULE MCSrtp --------------------------------
(* Ten sequence numbers, so that a stream of as many packets wraps around  *)
(* wherever it begins, with a window and an int that are narrower.         *)
EXTENDS SrtpStream
=============================================================================
