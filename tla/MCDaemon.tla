------------------------------ MODULE MCDaemon ------------------------------
(* Small instances of Daemon: requests for everything, for another task, a   *)
(* delayed partial one and one from an untrusted address; two configurations *)
(* that describe_changes tells apart and one it does not.                    *)
EXTENDS Daemon

CONSTANTS all, other, partial, stranger, base, verbose, retuned

Ask(p, t, d) == [partial |-> p, task |-> t, delay |-> d]

MCQuery == [r \in Request |->
    CASE r = all -> Ask(FALSE, "", 1)
      [] r = other -> Ask(FALSE, "deploy", 0)
      [] r = partial -> Ask(TRUE, "", 1)
      [] r = stranger -> Ask(FALSE, "netdiscovery", 0)]

MCNotable == [c \in Config |-> IF c = verbose THEN "debug" ELSE "default"]
=============================================================================
