----------------------------- MODULE MCMailSend ------------------------------
(* The instances of MailSend that TLC checks: one address with an account,  *)
(* one without, and forms that put them in every field.                     *)
EXTENDS MailSend, TLC

CONSTANTS loc, ext, m1, m2, r1, r2, r3

Form(t, c, b) == [to |-> t, cc |-> c, bcc |-> b]

\* An external recipient with a local one in Cc; a local one twice and an
\* external one in Bcc; a draft that names nobody in To.
MCEnvelopes == {Form(<<ext>>, <<loc>>, <<>>),
                Form(<<loc, loc>>, <<>>, <<ext>>),
                Form(<<>>, <<loc>>, <<ext>>)}
=============================================================================
