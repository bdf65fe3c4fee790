----------------------------- MODULE MCHandshake -----------------------------
EXTENDS Handshake, TLC

CONSTANTS k1, k2

Setting(variant, config, scheme, context) ==
    [variant |-> variant, config |-> config, scheme |-> scheme, context |-> context]

Assigned   == Setting("default", "assigned", "hmac-sha256", "own")
Registered == Setting("split", "registration", "hmac-sha256", "shared")
Other      == Setting("default", "registration", "hmac-sha512", "shared")
Unsigned   == Setting("split", "registration", "none", "own")

\* Two kernels with assigned ports, one of them with another that finds its own,
\* and all pairs of schemes with one that the launcher uses.
Launched ==
    {k1 :> a @@ k2 :> b :
        <<a, b>> \in {<<Assigned, Assigned>>, <<Assigned, Registered>>,
                      <<Registered, Registered>>, <<Registered, Other>>,
                      <<Registered, Unsigned>>}}

=============================================================================
