---- MODULE MCModelGateway ----
(* One caller with a fallback, one without: both use provider p first.       *)
EXTENDS ModelGateway, TLC

CONSTANTS a, b, p, q

MCRoute == a :> <<p, q>> @@ b :> <<p>>

\* A single caller whose route has no fallback.
OneCandidate == b :> <<p>>
====
