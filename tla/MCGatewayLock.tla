--------------------------- MODULE MCGatewayLock ---------------------------
(* Two or three replicas for GatewayLock, with their clock skews.          *)
EXTENDS GatewayLock
CONSTANTS a, b

NoSkew == [i \in Instance |-> 0]

\* b's clock runs five seconds ahead of a's.
FastPeer == [i \in Instance |-> IF i = b THEN 5 ELSE 0]

\* b is one second ahead.
OneAhead == [i \in Instance |-> IF i = b THEN 1 ELSE 0]
=============================================================================
