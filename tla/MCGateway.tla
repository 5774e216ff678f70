------------------------------ MODULE MCGateway ------------------------------
(* Gateway on a small instance: two addresses share a bucket of the limiter. *)
EXTENDS Gateway, TLC

CONSTANTS ip1, ip2, ip3, h1, h2
ThreeIps == {ip1, ip2, ip3}
TwoHandlers == {h1, h2}
HandlersAlike == Permutations(TwoHandlers)
Hash == [i \in ThreeIps |-> IF i = ip3 THEN 1 ELSE 2]
SomeRequests == {[ip |-> ip2, kind |-> "traversal"],
                 [ip |-> ip3, kind |-> "injection"], [ip |-> ip2, kind |-> "signature"],
                 [ip |-> ip1, kind |-> "websocket"], [ip |-> ip2, kind |-> "page"]}
=============================================================================
