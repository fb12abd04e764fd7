----------------------------- MODULE MCJwksCache -----------------------------
(***************************************************************************)
(* Two verifications, a kid whose key material is replaced (ka1, ka2), a   *)
(* second kid that appears by rotation (kb) and a key validate_jwk rejects *)
(* (kx).  The documents include rotations, a set with a duplicate kid and  *)
(* one with an invalid key.                                                *)
(***************************************************************************)
EXTENDS JwksCache, TLC

CONSTANTS t1, t2, ka1, ka2, kb, kx, a, b

MCTasks == {t1, t2}
MCKeys == {ka1, ka2, kb, kx}
MCKids == {a, b}
MCKidOf == (ka1 :> a) @@ (ka2 :> a) @@ (kb :> b) @@ (kx :> b)
MCValidKeys == {ka1, ka2, kb}
MCPinChoices == {None, ka1, kx}
MCDocuments == {{ka1}, {ka2, kb}, {ka1, ka2}, {kx}}
=============================================================================
