--------------------------- MODULE MCProxyDriver ---------------------------
(***************************************************************************)
(* The proxies ProxyDriver.tla grades: the one of proxy.c, and others that *)
(* lack one ability each.                                                  *)
(***************************************************************************)
EXTENDS ProxyDriver

MCBasic == <<"home.html", "godzilla.jpg">>
MCCache == <<"tiny.c", "home.html", "csapp.c">>

proxy_c == [relays |-> Files, concurrent |-> TRUE, caches |-> "late", quits |-> TRUE]
MCProxies == {proxy_c,
              [proxy_c EXCEPT !.caches = "early"],
              [proxy_c EXCEPT !.caches = "never"],
              [proxy_c EXCEPT !.relays = @ \ {"godzilla.jpg"}],
              [proxy_c EXCEPT !.concurrent = FALSE],
              [proxy_c EXCEPT !.quits = FALSE]}
=============================================================================
