---------------------------- MODULE Credentials ----------------------------
(* The SNMP credentials of a task (glpi-core types/snmp.rs, glpi-discovery  *)
(* snmp/credentials.rs) and those SnmpClient::connect makes a session of.   *)
(* Of a credential its version matters and which of its fields are set; an  *)
(* empty user name is none.                                                 *)
EXTENDS Naturals

CredentialFields ==
    {"community", "username", "auth_protocol", "auth_password", "priv_protocol", "priv_password"}

SnmpCredentials == [version : {"1", "2c", "3"}, set : SUBSET CredentialFields]

CONSTANTS
    NumCredentials,  \* credentials of the task
    credentials      \* [Credential -> SnmpCredentials]

Credential == 1..NumCredentials

ASSUME CredentialsAssumption ==
    /\ NumCredentials \in Nat
    /\ credentials \in [Credential -> SnmpCredentials]

v2c == [version |-> "2c", set |-> {"community"}]

is_v3(c) == credentials[c].version = "3"

\* An algorithm without its passphrase, or the other way round, is none:
\* the session is made without authentication or without encryption.
security_level(c) ==
    LET has_auth == {"auth_protocol", "auth_password"} \subseteq credentials[c].set
        has_priv == {"priv_protocol", "priv_password"} \subseteq credentials[c].set
    IN IF has_priv THEN IF has_auth THEN "AuthPriv" ELSE "refused"
       ELSE IF has_auth THEN "AuthNoPriv" ELSE "NoAuthNoPriv"

community(c) == ~is_v3(c) /\ "community" \in credentials[c].set

build_security(c) == "username" \in credentials[c].set /\ security_level(c) # "refused"

\* Those SnmpClient::connect refuses.
Malformed == {c \in Credential : ~(IF is_v3(c) THEN build_security(c) ELSE community(c))}
=============================================================================
