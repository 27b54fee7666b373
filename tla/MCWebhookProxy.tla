--------------------------- MODULE MCWebhookProxy ---------------------------
(* Instances of WebhookProxy for TLC. *)
EXTENDS WebhookProxy, TLC

CONSTANTS h1, h2, nsA, nsB, p1, p2

(* The only delivery, and its tenant. *)
OneOwner == (h1 :> {nsA})

(* A delivery for each of two tenants. *)
TwoOwners == (h1 :> {nsA}) @@ (h2 :> {nsB})

(* The repository of the only delivery moves from one tenant to another    *)
(* during the run: a lookup may give either, a cached one also the first   *)
(* after the second.                                                       *)
MovedOwner == (h1 :> {nsA, nsB})

=============================================================================
