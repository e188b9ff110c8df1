------------------------------ MODULE MCServices ------------------------------
(* The instance of the inbound SMTP server, the auth service and the custom     *)
(* domains that TLC checks.  The three share no table row that their modules    *)
(* keep: their behaviours are checked side by side, those of one in each.       *)
EXTENDS SmtpInbound, AuthService, CustomDomains, TLC

CONSTANTS c1, c2, m1, m2, a1, a2, p1, p2, d1, d2, ask1

VARIABLE service   \* the module whose actions are taken

smtpVars == vars

\* Two of the four records that UpdateDomainVerification takes alike, and the one
\* that needs a key.
MCChecks == <<"mx", "dkim">>

\* The modules start in all their initial states when it is their turn, and in one
\* of them otherwise.
ServicesInit ==
    /\ service \in {"smtp", "auth", "domains"}
    /\ Init
    /\ AuthInit   /\ (service = "auth"    \/ ~user.there)
    /\ CustomInit /\ (service = "domains" \/ zone = [d \in DomainIds |-> {}])

\* Connections are alike, and so are messages and addresses as long as nothing has told
\* one from the other: then the first is c1, m1 or a1.
SmtpFirst ==
    /\ conn'[c1].pc = "none" => conn'[c2].pc = "none"
    /\ mails = 0 => \A c \in Connections : conn'[c].mailFrom # m2
    /\ accounts = Addresses /\ (\A m \in Messages, a \in Addresses : asked[m][a] = 0) =>
           a2 \in accounts' /\ \A m \in Messages : asked'[m][a2] = 0

\* So are the domains, of which the first is d1.
DomainFirst ==
    zone[d1] = zone[d2] /\ (\A d \in DomainIds : ~domain[d].ever) =>
        zone'[d2] = zone[d2] /\ ~domain'[d2].ever

ServicesNext ==
    /\ service' = service
    /\ \/ service = "smtp"    /\ Next /\ SmtpFirst /\ UNCHANGED <<authVars, customVars>>
       \/ service = "auth"    /\ AuthNext /\ UNCHANGED <<smtpVars, customVars>>
       \/ service = "domains" /\ CustomNext /\ DomainFirst /\ UNCHANGED <<smtpVars, authVars>>

ServicesSpec == ServicesInit /\ [][ServicesNext]_<<smtpVars, authVars, customVars, service>>

\* The types of the variables of the three modules.
ServicesTypeOK ==
    CASE service = "smtp"    -> TypeOK
      [] service = "auth"    -> AuthTypeOK
      [] service = "domains" -> CustomTypeOK
===============================================================================
