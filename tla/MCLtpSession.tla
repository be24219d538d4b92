----------------------------- MODULE MCLtpSession -----------------------------
(* Small instances of LtpSession for TLC. *)
EXTENDS LtpSession, TLC
=============================================================================
