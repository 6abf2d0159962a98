--------------------------- MODULE AccessInvariant ---------------------------
(***************************************************************************)
(* The invariant behind what Access promises.                              *)
(***************************************************************************)
EXTENDS Access

(* How far a visit is fits its call, its reply and its new account.        *)
CallsFit ==
  \A v \in Visit :
    /\ pc[v] = "idle" => account[v] = None
    /\ pc[v] # "done" => reply[v] = None
    /\ pc[v] # "idle" => call[v] # None
    /\ pc[v] \in {"limit", "purge", "append"} => call[v].endpoint \in {"register", "login"}
    /\ pc[v] \in {"create", "refresh"} => call[v].endpoint = "register"
    /\ pc[v] = "query" => call[v].endpoint = "assistant"
    /\ pc[v] = "refresh" \/ (reply[v] = "ok" /\ call[v].endpoint = "register")
         => account[v] # None

(* A token that is shown has been issued.                                  *)
TokensShown ==
  \A v \in Visit :
    call[v] # None /\ call[v].endpoint \in {"me", "assistant"} => call[v].token \in tokens

(* Addresses are stored normalised.                                        *)
AddressesNormal ==
  \A i \in UserId : users[i] # None => NormalForm[users[i].email] = users[i].email

(* A sequence is past every id that has been given, and so a token never   *)
(* comes to name the row of another user.                                  *)
IdsNotReused ==
  Dialect = "postgresql" =>
    /\ \A i \in UserId : users[i] # None => i <= sequence
    /\ \A t \in tokens :
         /\ t.subject <= sequence
         /\ users[t.subject] # None => users[t.subject].email = t.owner

(* Until rows are deleted, or where ids are not used again, each           *)
(* registration has a row of its own, of its address.                      *)
IdsKept == Dialect = "postgresql" \/ cleanup # "done"
AccountsOfVisits ==
  /\ \A v \in Visit : account[v] # None =>
       /\ call[v] # None /\ call[v].endpoint = "register"
       /\ Dialect = "postgresql" => account[v] <= sequence
       /\ cleanup = "done" \/ users[account[v]] # None
       /\ IdsKept /\ users[account[v]] # None => users[account[v]].email = normalized_email(v)
  /\ IdsKept => \A v, w \in Visit : account[v] # None /\ account[v] = account[w] => v = w

(* What a registration is told of rows was so when it was told.            *)
RepliesTrue ==
  \A v \in Visit :
    /\ call[v] # None /\ call[v].endpoint = "register" /\ reply[v] = "conflict" =>
         cleanup = "done" \/ get_by_email(normalized_email(v)) # {}
    /\ reply[v] = "no_row" => cleanup = "done"

(* A server with its startup hook has its tables before it is up.          *)
ServerReady ==
  /\ \A v \in InFlight : server = "up" /\ (lifespan => pc[v] # "bootstrap")
  /\ lifespan /\ server # "down" => factory
  /\ lifespan /\ server = "up" => tables

(* A deque ts whose admissions are ad, under a limit of m: what is left of *)
(* them, in order, after dropped ones that no check at `time` can count.   *)
Deque(ts, ad, time, m) ==
  /\ Len(ts) <= Len(ad)
  /\ \A i \in 1..Len(ts) : ts[i] = ad[(Len(ad) - Len(ts)) + i]
  /\ \A i, j \in 1..Len(ad) : i <= j => ad[i] <= ad[j]
  /\ \A i \in 1..Len(ad) : ad[i] <= time
  /\ \A i \in 1..(Len(ad) - Len(ts)) : ad[i] < time - Window
  /\ \A i \in 1..(Len(ad) - m) : ad[i + m] - ad[i] > Window

DequeAt(k, time) == Deque(timestamps[k], admitted[k], time, MaxRequests[k[1]])

(* One thread at a time checks the key, and no admission is later than its *)
(* `now`; having found room, it still has it.                              *)
OneChecking(k) ==
  /\ \A v, w \in Checking(k) : v = w
  /\ \A v \in Checking(k) :
       /\ now[v] <= clock /\ DequeAt(k, now[v])
       /\ pc[v] = "append" => Len(timestamps[k]) < MaxRequests[k[1]]

KeyInv(k) == overlapped[k] \/ (DequeAt(k, clock) /\ OneChecking(k))

LimitInv ==
  /\ \A i \in UserId : ~overlapped[<<"assistant", i>>]
  /\ \A k \in Key : KeyInv(k)

IInv ==
  /\ TypeOK /\ CallsFit /\ TokensShown
  /\ AddressesNormal /\ OneAccountPerAddress /\ IdsNotReused
  /\ AccountsOfVisits /\ RepliesTrue
  /\ ServerReady /\ TablesBeforeRequests
  /\ LimitInv
=============================================================================
