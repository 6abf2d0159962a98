----------------------------- MODULE AccessState -----------------------------
(***************************************************************************)
(* What stands between a client and the services: the rate limiters, the   *)
(* start-up of the database and the accounts.  A visit is one HTTP request *)
(* to /auth/register, /auth/login, /auth/me or /assistant/query; pc[v] is  *)
(* the step its handler takes next, so visits interleave between awaits    *)
(* and, inside the limiters of register and login, between threads.        *)
(***************************************************************************)
EXTENDS Integers, Sequences, FiniteSets

CONSTANTS
  Visit,           \* HTTP requests
  Ip,              \* client addresses, as _get_client_ip reads them
  Spelling,        \* e-mail addresses as typed
  NormalForm,      \* NormalForm[e]: e stripped and in lower case
  LastUserId,      \* bound: the greatest key of table users
  Dialect,         \* the database: it decides the ids of new rows
  MaxRequests,     \* MaxRequests[l]: requests limiter l allows in a window
  Window,          \* window_seconds
  None

UserId == 1..LastUserId
Limiter == {"register", "login", "assistant"}
Key == ({"register", "login"} \X Ip) \cup ({"assistant"} \X UserId)

ASSUME SpellingAssumption ==
  /\ NormalForm \in [Spelling -> Spelling]
  /\ \A e \in Spelling : NormalForm[NormalForm[e]] = NormalForm[e]
ASSUME UserIdAssumption == LastUserId \in Nat
ASSUME DialectAssumption == Dialect \in {"postgresql", "sqlite"}
ASSUME LimitAssumption == MaxRequests \in [Limiter -> Nat \ {0}] /\ Window \in Nat

VARIABLES
  traffic,                    \* bound: what happens in this behaviour
  pc, call, reply, account,   \* of each visit; account[v]: the row it created
  server, factory, tables,    \* the process, _session_factory, create_all
  lifespan,                   \* TRUE iff the host of the app runs its startup hook
  clock, timestamps, now,     \* time; the limiters' deques; a thread's `now`
  admitted, overlapped,       \* history: all admissions; two checks overlapped
  users, sequence, tokens,    \* table users, its id sequence (PostgreSQL's), tokens issued
  seed, cleanup, doomed       \* the maintenance scripts

visit == <<traffic, pc, call, reply, account>>
process == <<server, factory, tables, lifespan>>
limits == <<clock, timestamps, now, admitted, overlapped>>
accounts == <<users, sequence, tokens>>
scripts == <<seed, cleanup, doomed>>
vars == <<visit, process, limits, accounts, scripts>>

User == [email : Spelling, role : {"customer", "admin"}]
ASSUME NoneAssumption == None \notin UserId \cup User

(* A token names a row; `owner` is history: who was given it.              *)
Token == [subject : UserId, owner : Spelling]
Call == [endpoint : {"register", "login"}, ip : Ip, email : Spelling]
          \cup [endpoint : {"me", "assistant"}, token : Token]
Steps == {"idle", "limit", "purge", "append", "session", "bootstrap", "lookup",
          "create", "refresh", "query", "done"}
(* ok 200, conflict 409, unauthenticated 401, forbidden 403, limited 429,  *)
(* unavailable 503; no_table, no_row, no_database: 500 and why; lost: the  *)
(* server died.                                                            *)
Replies == {"ok", "conflict", "unauthenticated", "forbidden", "limited",
            "unavailable", "no_table", "no_row", "no_database", "lost"}

ASSUME CallAssumption == None \notin Call \cup Replies

TypeOK ==
  /\ pc \in [Visit -> Steps]
  /\ call \in [Visit -> Call \cup {None}]
  /\ reply \in [Visit -> Replies \cup {None}]
  /\ account \in [Visit -> UserId \cup {None}]
  /\ server \in {"down", "starting", "up"}
  /\ factory \in BOOLEAN /\ tables \in BOOLEAN /\ lifespan \in BOOLEAN
  /\ clock \in Nat
  /\ timestamps \in [Key -> Seq(Nat)] /\ admitted \in [Key -> Seq(Nat)]
  /\ now \in [Visit -> Nat]
  /\ overlapped \in [Key -> BOOLEAN]
  /\ users \in [UserId -> User \cup {None}]
  /\ sequence \in Nat
  /\ tokens \subseteq Token
  /\ seed \in {"idle", "insert", "done"} /\ cleanup \in {"idle", "delete", "done"}
  /\ doomed \subseteq UserId

(* The greatest of a finite set of ids, 0 if it is empty.                  *)
Greatest(ids) ==
  LET greatest == {i \in ids : \A j \in ids : j <= i}
  IN  IF greatest = {} THEN 0 ELSE CHOOSE i \in greatest : TRUE

Goto(v, step) == pc' = [pc EXCEPT ![v] = step] /\ UNCHANGED reply

Respond(v, answer) ==
  /\ pc' = [pc EXCEPT ![v] = "done"]
  /\ reply' = [reply EXCEPT ![v] = answer]

InFlight == {v \in Visit : pc[v] \notin {"idle", "done"}}
=============================================================================
