------------------------------ MODULE MCLinkBuf ------------------------------
(* Instances of LinkBuf for TLC. *)
EXTENDS LinkBuf, TLC

CONSTANTS u1, u2, u3, t1
=============================================================================
