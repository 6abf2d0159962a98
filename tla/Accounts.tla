------------------------------- MODULE Accounts -------------------------------
(***************************************************************************)
(* auth_service.py, user_repository.py and routers/auth.py on table users, *)
(* the assistant's handler, and the scripts that write the same table      *)
(* beside the server.  Every statement fails while the tables are missing. *)
(***************************************************************************)
EXTENDS RateLimiter

CONSTANTS
  AdminEmail,     \* seed_admin's DEFAULT_ADMIN_EMAIL, normalised
  LoadTestEmail   \* addresses cleanup_locust_data deletes

ASSUME ScriptAssumption ==
  /\ AdminEmail \in Spelling /\ NormalForm[AdminEmail] = AdminEmail
  /\ LoadTestEmail \subseteq Spelling

(* The address as it was typed.                                            *)
typed_email(v) == call[v].email

normalized_email(v) == NormalForm[call[v].email]
get_by_email(e) == {i \in UserId : users[i] # None /\ users[i].email = e}
create_access_token(v, i) == [subject |-> i, owner |-> normalized_email(v)]

(* The id an INSERT gets: PostgreSQL takes the next of its sequence, which *)
(* is not rolled back; without AUTOINCREMENT SQLite gives the id after the *)
(* greatest one in the table, and so that of a deleted last row again.     *)
new_id ==
  1 + (IF Dialect = "sqlite" THEN Greatest({i \in UserId : users[i] # None}) ELSE sequence)
take_id == sequence' = IF Dialect = "sqlite" THEN sequence ELSE sequence + 1

NoTable(v) == ~tables /\ Respond(v, "no_table") /\ UNCHANGED <<account, limits, accounts>>

register_user(v) ==
  IF get_by_email(normalized_email(v)) # {} THEN Respond(v, "conflict") ELSE Goto(v, "create")

(* Any password may be right or wrong.                                     *)
login_user(v) ==
  \/ Respond(v, "unauthenticated") /\ UNCHANGED tokens
  \/ \E i \in get_by_email(normalized_email(v)) :
       Respond(v, "ok") /\ tokens' = tokens \cup {create_access_token(v, i)}

(* The claims are believed, the row is not looked for.                     *)
get_current_user_by_claims(v, i) ==
  \/ Respond(v, "unauthenticated") /\ UNCHANGED limits
  \/ CASE call[v].endpoint = "me" -> Respond(v, "ok") /\ UNCHANGED limits
       [] OTHER -> Check(v, <<"assistant", i>>)

(* A token is refused when it has expired or its row is gone.              *)
get_current_user(v, i) ==
  \/ Respond(v, "unauthenticated") /\ UNCHANGED limits
  \/ /\ users[i] # None
     /\ CASE call[v].endpoint = "me" -> Respond(v, "ok") /\ UNCHANGED limits
          [] users[i].role # "customer" -> Respond(v, "forbidden") /\ UNCHANGED limits
          [] OTHER -> Check(v, <<"assistant", i>>)

(* The first statement of each handler.                                    *)
Lookup(v) ==
  /\ pc[v] = "lookup"
  /\ \/ NoTable(v)
     \/ /\ tables
        /\ CASE call[v].endpoint = "register" -> register_user(v) /\ UNCHANGED <<tokens, limits>>
             [] call[v].endpoint = "login" -> login_user(v) /\ UNCHANGED limits
             [] OTHER -> get_current_user(v, call[v].token.subject) /\ UNCHANGED tokens
        /\ UNCHANGED <<account, users, sequence>>
  /\ UNCHANGED <<traffic, call, process, scripts>>

(* The loser of a race is given the winner's row.                          *)
create_or_adopt(v) ==
  /\ pc[v] = "create" /\ new_id \in UserId
  /\ take_id
  /\ Goto(v, "refresh")
  /\ LET taken == get_by_email(normalized_email(v)) IN
     IF taken # {}
       THEN /\ \E i \in taken : account' = [account EXCEPT ![v] = i]
            /\ UNCHANGED users
       ELSE /\ users' = [users EXCEPT ![new_id] = [email |-> normalized_email(v),
                                                   role |-> "customer"]]
            /\ account' = [account EXCEPT ![v] = new_id]
  /\ UNCHANGED <<traffic, call, tokens, process, limits, scripts>>

(* create_user: INSERT and COMMIT; the unique index on email turns the     *)
(* loser of a race away, and IntegrityError becomes a conflict.            *)
CreateUser(v) ==
  /\ pc[v] = "create" /\ new_id \in UserId
  /\ take_id
  /\ IF get_by_email(normalized_email(v)) # {}
       THEN Respond(v, "conflict") /\ UNCHANGED <<users, account>>
       ELSE /\ users' = [users EXCEPT ![new_id] = [email |-> normalized_email(v),
                                                   role |-> "customer"]]
            /\ account' = [account EXCEPT ![v] = new_id]
            /\ Goto(v, "refresh")
  /\ UNCHANGED <<traffic, call, tokens, process, limits, scripts>>

(* db.refresh: fails if the row has gone since the COMMIT.                 *)
Refresh(v) ==
  /\ pc[v] = "refresh"
  /\ IF users[account[v]] = None
       THEN Respond(v, "no_row") /\ UNCHANGED tokens
       ELSE Respond(v, "ok") /\ tokens' = tokens \cup {create_access_token(v, account[v])}
  /\ UNCHANGED <<traffic, call, account, users, sequence, process, limits, scripts>>

(* The language model answers, or fails in any of the ways extract_filters *)
(* turns into LlmUnavailableError; the visit has been counted either way.  *)
Query(v) ==
  /\ pc[v] = "query"
  /\ Respond(v, "ok") \/ Respond(v, "unavailable")
  /\ UNCHANGED <<traffic, call, account, process, limits, accounts, scripts>>

(* seed_admin: makes the tables, looks for the address, then inserts; an   *)
(* IntegrityError ends the script.                                         *)
SeedLookup ==
  /\ seed = "idle"
  /\ tables' = TRUE
  /\ seed' = IF get_by_email(AdminEmail) = {} THEN "insert" ELSE "done"
  /\ UNCHANGED <<visit, server, factory, lifespan, limits, accounts, cleanup, doomed>>

SeedInsert ==
  /\ seed = "insert" /\ new_id \in UserId
  /\ take_id
  /\ users' = IF get_by_email(AdminEmail) # {} THEN users
              ELSE [users EXCEPT ![new_id] = [email |-> AdminEmail, role |-> "admin"]]
  /\ seed' = "done"
  /\ UNCHANGED <<visit, process, limits, tokens, cleanup, doomed>>

(* cleanup_locust_data: reads the ids of the load test's users, then       *)
(* deletes those rows.                                                     *)
CleanupRead ==
  /\ cleanup = "idle" /\ tables
  /\ doomed' = UNION {get_by_email(e) : e \in LoadTestEmail}
  /\ cleanup' = "delete"
  /\ UNCHANGED <<visit, process, limits, accounts, seed>>

CleanupDelete ==
  /\ cleanup = "delete"
  /\ users' = [i \in UserId |-> IF i \in doomed THEN None ELSE users[i]]
  /\ cleanup' = "done" /\ doomed' = {}
  /\ UNCHANGED <<visit, process, limits, sequence, tokens, seed>>

Script == SeedLookup \/ SeedInsert \/ CleanupRead \/ CleanupDelete
Handler(v) == Lookup(v) \/ CreateUser(v) \/ Refresh(v) \/ Query(v)
=============================================================================
