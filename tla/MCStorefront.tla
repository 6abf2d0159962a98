----------------------------- MODULE MCStorefront -----------------------------
(***************************************************************************)
(* An instance of Storefront for TLC.  The parts that share state move     *)
(* together: the cart with the session, the products with the sales.       *)
(***************************************************************************)
EXTENDS StorefrontInvariant, TLC

CONSTANTS p1, before

MCOrder == Attempt \cup {before}
MCActing ==
  {{"shopper", "session", "sharing"}, {"shopper", "session", "haste"},
   {"products", "sales"}, {"products", "removals"}, {"products", "haste"},
   {"orders"}, {"orders", "haste"}, {"search"}}

MCInitialCatalogue ==
  {[p \in Product |-> IF p = p1 THEN [sku |-> "s1", quantity |-> 2] ELSE None]}
MCInitialOrder ==
  [status |-> "pending", stock_restored |-> FALSE,
   line_items |-> [p \in {p1} |-> [quantity |-> 1]]]

Symmetry == Permutations(Attempt) \cup Permutations(Account \ {Owner}) \cup Permutations(Request)
=============================================================================
