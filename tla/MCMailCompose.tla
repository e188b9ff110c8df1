---------------------------- MODULE MCMailCompose ----------------------------
(* The instance of MailCompose that TLC checks: one thread, whose last       *)
(* message is from somebody else.                                            *)
EXTENDS MailCompose, TLC

CONSTANTS ann, self, thread

MCSender    == thread :> ann
MCReceivers == thread :> {self}
===============================================================================
