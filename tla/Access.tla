-------------------------------- MODULE Access --------------------------------
(***************************************************************************)
(* Clients, the limiters, the life of the server and the accounts together *)
(* (app/main.py), and what they promise.                                   *)
(***************************************************************************)
EXTENDS Lifecycle, Accounts

CONSTANTS
  Traffic,         \* bound: sets of what happens in one behaviour: endpoints that
                   \* are called, "scripts" that run, "time" that passes, a "stop" of the server
  Typed,           \* bound: the addresses clients type
  MaxClock,        \* bound: the clock stops there
  InitialUsers     \* contents table users may have

ASSUME TypedAssumption == Typed \subseteq Spelling
(* Rows have the first ids, and an address of their own.                   *)
ASSUME InitialUsersAssumption ==
  \A us \in InitialUsers :
    /\ us \in [UserId -> User \cup {None}]
    /\ LET ids == {i \in UserId : us[i] # None}
       IN  Cardinality(ids) \in Nat /\ ids = 1..Cardinality(ids)
    /\ \A i \in UserId : us[i] # None => NormalForm[us[i].email] = us[i].email
    /\ \A i, j \in UserId :
         us[i] # None /\ us[j] # None /\ us[i].email = us[j].email => i = j

Init ==
  /\ traffic \in Traffic
  /\ pc = [v \in Visit |-> "idle"]
  /\ call = [v \in Visit |-> None]
  /\ reply = [v \in Visit |-> None]
  /\ account = [v \in Visit |-> None]
  /\ server = "down" /\ factory = FALSE
  /\ lifespan \in BOOLEAN
  /\ clock = 0
  /\ timestamps = [k \in Key |-> <<>>] /\ admitted = [k \in Key |-> <<>>]
  /\ now = [v \in Visit |-> 0]
  /\ overlapped = [k \in Key |-> FALSE]
  /\ users \in InitialUsers
  /\ \/ tables = TRUE
     \/ tables = FALSE /\ users = [i \in UserId |-> None]
  /\ sequence = Cardinality({i \in UserId : users[i] # None})
  /\ tokens = {[subject |-> i, owner |-> users[i].email] : i \in {i \in UserId : users[i] # None}}
  /\ seed = "idle" /\ cleanup = "idle" /\ doomed = {}

Calls ==
  {c \in [endpoint : {"register", "login"}, ip : Ip, email : Typed]
           \cup [endpoint : {"me", "assistant"}, token : tokens] : c.endpoint \in traffic}

(* A client sends a request; register and login meet their limiter before  *)
(* anything else.                                                          *)
Arrive(v) ==
  /\ pc[v] = "idle" /\ server = "up"
  /\ \E c \in Calls :
       /\ call' = [call EXCEPT ![v] = c]
       /\ Goto(v, IF c.endpoint \in {"register", "login"} THEN "limit" ELSE "session")
  /\ UNCHANGED <<traffic, account, process, limits, accounts, scripts>>

Tick ==
  /\ "time" \in traffic /\ clock < MaxClock
  /\ clock' = clock + 1
  /\ UNCHANGED <<timestamps, now, admitted, overlapped, visit, process, accounts, scripts>>

Next ==
  \/ \E v \in Visit : Arrive(v) \/ Threads(v) \/ OpenSession(v) \/ Bootstrap(v) \/ Handler(v)
  \/ Start \/ Started
  \/ "stop" \in traffic /\ Stop
  \/ "scripts" \in traffic /\ Script
  \/ Tick

Spec == Init /\ [][Next]_vars

(***************************************************************************)
(* Properties                                                              *)
(***************************************************************************)

(* One account per e-mail address, however it is typed and whoever writes  *)
(* it: overlapping registrations, the seed script.                         *)
OneAccountPerAddress ==
  \A i, j \in UserId :
    users[i] # None /\ users[j] # None
      /\ NormalForm[users[i].email] = NormalForm[users[j].email] => i = j

(* Of the registrations of an address one is told ok and the others that   *)
(* there is a conflict, whatever their order and overlap.  Only after the  *)
(* clean-up may two have been told ok, or one miss the row it has made,    *)
(* and where ids are not used again the two have different rows, of which  *)
(* one is gone; a conflict names an address that had a row.                *)
RegistrationsAgree ==
  \A v, w \in Visit :
    LET Done(x, answer) == call[x] # None /\ call[x].endpoint = "register" /\ reply[x] = answer
    IN  /\ Done(v, "conflict") =>
             cleanup = "done" \/ get_by_email(normalized_email(v)) # {}
        /\ Done(v, "no_row") => cleanup = "done"
        /\ Done(v, "ok") /\ Done(w, "ok") /\ v # w
             /\ normalized_email(v) = normalized_email(w) =>
               /\ cleanup = "done"
               /\ Dialect = "postgresql" =>
                    /\ account[v] # account[w]
                    /\ {users[account[v]], users[account[w]]} \cap {None} # {}

(* A token opens the account of the user it was given to and no other:     *)
(* once that row is deleted it is refused, whoever registers afterwards.   *)
TokensOpenTheirAccount ==
  [][\A v \in Visit :
       pc[v] = "lookup" /\ pc'[v] # "lookup" /\ call[v].endpoint \in {"me", "assistant"}
         /\ reply'[v] \notin {"unauthenticated", "no_table", "lost"} =>
         LET row == users[call[v].token.subject]
         IN  row # None /\ row.email = call[v].token.owner]_vars

ByAssistant(v) == call[v].endpoint = "assistant"
CheckedKey(v) == IF ByAssistant(v) THEN <<"assistant", call[v].token.subject>> ELSE KeyOf(v)
CheckedAt(v) == IF ByAssistant(v) THEN clock ELSE now[v]

(* The n-th and the (n + MaxRequests)-th admission of a key are more than  *)
(* a window apart.                                                         *)
WindowKept(k) ==
  \A i \in 1..(Len(admitted[k]) - MaxRequests[k[1]]) :
    admitted[k][i + MaxRequests[k[1]]] - admitted[k][i] > Window

(* The assistant's limiter is checked on the event loop and keeps its      *)
(* bound whatever overlaps.                                                *)
AssistantWindow == \A i \in UserId : WindowKept(<<"assistant", i>>)

(* Those of register and login keep theirs as long as no two checks of the *)
(* same key overlap.                                                       *)
AuthWindow == \A k \in {"register", "login"} \X Ip : overlapped[k] \/ WindowKept(k)

(* Nobody who has requests left is refused: unless two checks of its key   *)
(* overlap, a visit is refused only when the last MaxRequests admissions   *)
(* of the key lie in the window.                                           *)
RefusedOnlyWhenFull ==
  [][\A v \in Visit :
       pc[v] # "done" /\ reply'[v] = "limited" /\ ~overlapped[CheckedKey(v)] =>
         LET k == CheckedKey(v)
             n == Len(admitted[k]) - MaxRequests[k[1]]
         IN  n >= 0 /\ admitted[k][n + 1] >= CheckedAt(v) - Window]_vars

(* A server that runs its startup hook never lets a request meet a         *)
(* database without tables, however its starts fail and its requests       *)
(* overlap.                                                                *)
TablesBeforeRequests ==
  lifespan => \A v \in Visit : reply[v] \notin {"no_table", "no_database"}
=============================================================================
