--------------------------- MODULE MCProxyRelay ---------------------------
(* A relay in front of another one that only trusts it, a shared GLPI       *)
(* server, a proxy that has itself among its servers, and one without any.  *)
EXTENDS ProxyRelay, TLC

CONSTANTS agent, relay, inner, loop, archive, glpi1, glpi2

MCServersOf ==
    (relay :> <<inner, glpi1>>) @@ (inner :> <<glpi1, glpi2>>) @@ (loop :> <<glpi1, loop>>) @@
    (archive :> <<>>)
MCMaxPassThrough == (relay :> 3) @@ (inner :> 3) @@ (loop :> 2) @@ (archive :> 1)
MCTrustedBy == (relay :> {}) @@ (inner :> {relay}) @@ (loop :> {}) @@ (archive :> {})
=============================================================================
