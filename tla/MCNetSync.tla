----------------------------- MODULE MCNetSync ------------------------------
(***************************************************************************)
(* Instances of NetSync for TLC: two regions that share the places p and   *)
(* q; the place u belongs to the other region only.  The transition of the *)
(* observed runner moves tokens from p to q, the other one takes tokens    *)
(* from p as well, or from u, and leaves them at q or u.                   *)
(***************************************************************************)
EXTENDS NetSync, TLC

CONSTANTS p, q, u, own, other, t1, t10

In == (own :> {p}) @@ (other :> {p, u})
Out == (own :> {q}) @@ (other :> {q, u})

\* Ids as they are handed out, of which 10 begins with the digit of 1.
DecimalIds == [t \in Token |-> IF t = t1 THEN {t1, t10} ELSE {t}]
=============================================================================
