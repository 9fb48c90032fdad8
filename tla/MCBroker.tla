------------------------------ MODULE MCBroker ------------------------------
(* Two threads, two ordinary tickets and a retry ticket that both requests  *)
(* name.  The caps admit two of the three reservations.                     *)
EXTENDS ProviderBroker

T(retryOwner, expires) == [owner |-> "LIVE", retryOwner |-> retryOwner, binding |-> "task",
                           maxInput |-> 4, maxOutput |-> 2, expires |-> expires]

MCTicket == [k \in {"a", "b", "r"} |->
               IF k = "r" THEN T("LIVE", 1) ELSE IF k = "a" THEN T("none", 1) ELSE T("none", 0)]

Q(k, estimate, bytes) ==
    [ticket |-> k, retry |-> "r", lease |-> {"a", "b", "r"}, binding |-> "task",
     leaseExpires |-> 1, estimate |-> estimate, bytes |-> bytes]

MCRequests == {Q("a", 1, 0), Q("b", 0, 3)}

U(input, output, reasoning) == [input |-> input, output |-> output, reasoning |-> reasoning]

MCReplies == {U(2, 2, 1), U(5, 1, 0), U(1, 1, 2)}
=============================================================================
