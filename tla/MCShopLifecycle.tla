-------------------------- MODULE MCShopLifecycle --------------------------
(* ShopLifecycle on small instances; the configurations give the constants. *)
EXTENDS ShopLifecycle
=============================================================================
