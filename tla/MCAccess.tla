------------------------------ MODULE MCAccess ------------------------------
(***************************************************************************)
(* An instance of Access for TLC: one address typed in two ways, one that  *)
(* both a customer and the seed script may take, a customer from before.   *)
(***************************************************************************)
EXTENDS AccessInvariant, TLC

MCSpelling == {"a@x", "A@X", "admin"}
MCNormalForm == [e \in MCSpelling |-> IF e = "A@X" THEN "a@x" ELSE e]
MCMaxRequests == [l \in Limiter |-> IF l = "assistant" THEN 2 ELSE 1]
MCLoadTest == {"a@x"}
MCInitialUsers ==
  {[i \in UserId |-> None],
   [i \in UserId |-> CASE i = 1 -> [email |-> "a@x", role |-> "customer"]
                         [] i = 2 -> [email |-> "admin", role |-> "admin"] [] OTHER -> None]}

(* What interacts is put together: threads and time, registrations and the *)
(* scripts, accounts and their use.                                        *)
MCTraffic ==
  {{"register", "time"}, {"register", "me", "scripts"}, {"register", "login", "stop"},
   {"me", "assistant", "scripts", "time"}}

Symmetry == Permutations(Visit)
=============================================================================
