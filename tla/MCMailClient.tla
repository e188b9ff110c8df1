----------------------------- MODULE MCMailClient -----------------------------
(* The instance of MailClient that TLC checks: two labels, pages of one      *)
(* thread.                                                                   *)
EXTENDS MailClient, TLC

CONSTANTS inbox, archive
===============================================================================
