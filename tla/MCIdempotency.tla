--------------------------- MODULE MCIdempotency ---------------------------
(***************************************************************************)
(* Three POSTs of one pile under one key, a fourth without the header. The *)
(* process of the third stays up.                                          *)
(***************************************************************************)
EXTENDS Idempotency

CONSTANTS r1, r2, r3, r4, k1

MCRequests == {r1, r2, r3, r4}
MCKeyOf == [r \in MCRequests |-> IF r = r4 THEN NoKey ELSE k1]
MCMortal == MCRequests \ {r3}
=============================================================================
