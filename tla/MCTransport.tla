----------------------------- MODULE MCTransport -----------------------------
(* Instances of Transport for TLC: b1 takes an event whole, b2 in two        *)
(* fragments with one retry each, b3 whole with one retry.                   *)
EXTENDS Transport, TLC

CONSTANTS b1, b2, b3

MCScore == (b1 :> 2) @@ (b2 :> 2) @@ (b3 :> 1)
MCFragmentCount == (b1 :> 1) @@ (b2 :> 2) @@ (b3 :> 1)
MCRetryLimit == (b1 :> 0) @@ (b2 :> 1) @@ (b3 :> 1)
=============================================================================
