--------------------------- MODULE MCShopHistory ---------------------------
(***************************************************************************)
(* The instances of MCShop for the specification with history.             *)
(***************************************************************************)
EXTENDS MCShop, ShopHistory
=============================================================================
