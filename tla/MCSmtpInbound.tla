--------------------------- MODULE MCSmtpInbound -----------------------------
(* The instance of SmtpInbound for MCSmtpInboundAck.cfg; MCServices checks the *)
(* larger one.                                                                 *)
EXTENDS SmtpInbound

CONSTANTS c1, m1, a1, a2
=============================================================================
