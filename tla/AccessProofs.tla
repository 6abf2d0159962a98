---------------------------- MODULE AccessProofs ----------------------------
(***************************************************************************)
(* Theorems about what stands before the services: IInv is inductive, one  *)
(* lemma per part of it.                                                   *)
(***************************************************************************)
EXTENDS AccessInvariant, TLAPS, WellFoundedInduction, SequenceTheorems

(***************************************************************************)
(* Calls and deques                                                        *)
(***************************************************************************)

(* A call carries an address, or a token.                                  *)
LEMMA CallFacts ==
  ASSUME NEW c \in Call
  PROVE  /\ c.endpoint \in {"register", "login", "me", "assistant"}
         /\ c.endpoint \in {"register", "login"} => c.ip \in Ip /\ c.email \in Spelling
         /\ c.endpoint \in {"me", "assistant"} => c.token \in Token
  BY DEF Call

(* The key of a call to register or login.                                 *)
LEMMA KeyOfVisit ==
  ASSUME TypeOK, NEW v \in Visit, call[v] # None, call[v].endpoint \in {"register", "login"}
  PROVE  KeyOf(v) \in Key /\ KeyOf(v)[1] = call[v].endpoint
         /\ \A i \in UserId : KeyOf(v) # <<"assistant", i>>
<1>1. call[v] \in Call
  BY DEF TypeOK
<1>2. call[v].ip \in Ip
  BY <1>1, CallFacts
<1> QED
  BY <1>2 DEF KeyOf, Key

(* What the loop over stale timestamps leaves is a suffix, and the first   *)
(* timestamp of it is not stale.                                           *)
LEMMA PurgedSuffix ==
  ASSUME NEW ts \in Seq(Nat), NEW start \in Int
  PROVE  LET left == Purged(ts, start) IN
         /\ left \in Seq(Nat)
         /\ \E n \in 0..Len(ts) :
              /\ Len(left) = Len(ts) - n
              /\ \A i \in 1..Len(left) : left[i] = ts[n + i]
              /\ \A i \in 1..n : ts[i] < start
              /\ n < Len(ts) => ts[n + 1] >= start
<1> DEFINE Ends == {n \in 0..Len(ts) : n < Len(ts) => ts[n + 1] >= start}
<1>1. Len(ts) \in Ends
  OBVIOUS
<1>2. Ends \subseteq Nat
  OBVIOUS
<1>3. PICK n \in Ends : \A m \in Ends : <<m, n>> \notin OpToRel(<, Nat)
  BY <1>1, <1>2, NatLessThanWellFounded, WFMin
<1>4. \A m \in Ends : ~(m < n)
  BY <1>2, <1>3 DEF OpToRel
<1>5. \A i \in 1..n : ts[i] < start
  <2> SUFFICES ASSUME NEW i \in 1..n
               PROVE  ts[i] < start
    OBVIOUS
  <2>1. i - 1 \notin Ends
    BY <1>4
  <2> QED
    BY <2>1
<1>6. \E m \in 0..Len(ts) :
        /\ Purged(ts, start) = SubSeq(ts, m + 1, Len(ts))
        /\ \A i \in 1..m : ts[i] < start
        /\ m < Len(ts) => ts[m + 1] >= start
  BY <1>5 DEF Purged
<1>7. PICK m \in 0..Len(ts) :
        /\ Purged(ts, start) = SubSeq(ts, m + 1, Len(ts))
        /\ \A i \in 1..m : ts[i] < start
        /\ m < Len(ts) => ts[m + 1] >= start
  BY <1>6
<1>8. /\ SubSeq(ts, m + 1, Len(ts)) \in Seq(Nat)
      /\ Len(SubSeq(ts, m + 1, Len(ts))) = Len(ts) - m
      /\ \A i \in 1..Len(ts) - m : SubSeq(ts, m + 1, Len(ts))[i] = ts[m + i]
  <2>1. \A i \in m + 1..Len(ts) : ts[i] \in Nat
    OBVIOUS
  <2>2. m + 1 \in Int /\ Len(ts) \in Int /\ (m + 1 <= Len(ts) \/ m = Len(ts))
    OBVIOUS
  <2> QED
    BY <2>1, <2>2, SubSeqProperties
<1> QED
  BY <1>7, <1>8

(***************************************************************************)
(* Ids                                                                     *)
(***************************************************************************)

(* Ids are positive numbers.                                               *)
LEMMA UserIds == \A i \in UserId : i \in Nat /\ i >= 1 /\ i <= LastUserId
  BY UserIdAssumption DEF UserId

(* The greatest of some ids is not below any of them.                      *)
LEMMA GreatestBounds ==
  ASSUME NEW ids \in SUBSET UserId
  PROVE  Greatest(ids) \in Nat /\ \A i \in ids : i <= Greatest(ids)
<1> DEFINE Bounds == {n \in Nat : \A i \in ids : i <= n}
           greatest == {i \in ids : \A j \in ids : j <= i}
<1>1. \A i \in ids : i \in Nat /\ i >= 1 /\ i <= LastUserId
  BY UserIds
<1>2. CASE ids = {}
  BY <1>2 DEF Greatest
<1>3. CASE ids # {}
  <2>1. LastUserId \in Bounds
    BY <1>1, UserIdAssumption
  <2>2. PICK n \in Bounds : \A m \in Bounds : <<m, n>> \notin OpToRel(<, Nat)
    <3>1. Bounds \subseteq Nat /\ Bounds # {}
      BY <2>1
    <3> QED
      BY <3>1, NatLessThanWellFounded, WFMin
  <2>3. \A m \in Bounds : ~(m < n)
    BY <2>2 DEF OpToRel
  <2>4. n \in Nat /\ \A i \in ids : i <= n
    BY <2>2
  <2>5. n \in ids
    <3> SUFFICES ASSUME n \notin ids
                 PROVE  FALSE
      OBVIOUS
    <3>1. \A i \in ids : i \in Nat /\ i >= 1 /\ i <= n - 1
      BY <1>1, <2>4
    <3>2. n - 1 \in Nat
      BY <1>3, <2>4, <3>1
    <3> QED
      BY <2>3, <2>4, <3>1, <3>2
  <2>6. n \in greatest
    BY <2>4, <2>5
  <2>7. Greatest(ids) \in greatest
    BY <2>6 DEF Greatest
  <2> QED
    BY <1>1, <2>7
<1> QED
  BY <1>2, <1>3

(* Taking an id: the sequence never falls, and is the id on PostgreSQL.    *)
LEMMA IdTaken ==
  ASSUME sequence \in Nat, take_id
  PROVE  /\ sequence' \in Nat /\ sequence <= sequence'
         /\ Dialect = "postgresql" => new_id = sequence + 1 /\ sequence' = new_id
<1>1. CASE Dialect = "sqlite"
  BY <1>1 DEF take_id
<1>2. CASE Dialect = "postgresql"
  <2>1. new_id = 1 + sequence /\ sequence' = sequence + 1
    BY <1>2 DEF take_id, new_id
  <2> QED
    BY <2>1
<1> QED
  BY <1>1, <1>2, DialectAssumption

(***************************************************************************)
(* Types                                                                   *)
(***************************************************************************)

(* A handler goes on or answers.                                           *)
LEMMA Replied ==
  ASSUME TypeOK, NEW v \in Visit,
         \/ \E step \in Steps : Goto(v, step)
         \/ \E answer \in Replies : Respond(v, answer)
  PROVE  pc' \in [Visit -> Steps] /\ reply' \in [Visit -> Replies \cup {None}]
  BY DEF TypeOK, Goto, Respond, Steps

(* What the limiters keep.                                                 *)
LimitTypes ==
  /\ clock \in Nat
  /\ timestamps \in [Key -> Seq(Nat)] /\ admitted \in [Key -> Seq(Nat)]
  /\ now \in [Visit -> Nat]
  /\ overlapped \in [Key -> BOOLEAN]

(* What the visits keep.                                                   *)
VisitTypes ==
  /\ pc \in [Visit -> Steps]
  /\ call \in [Visit -> Call \cup {None}]
  /\ reply \in [Visit -> Replies \cup {None}]
  /\ account \in [Visit -> UserId \cup {None}]

(* What the process, the table and the scripts keep.                       *)
TableTypes ==
  /\ server \in {"down", "starting", "up"}
  /\ factory \in BOOLEAN /\ tables \in BOOLEAN /\ lifespan \in BOOLEAN
  /\ users \in [UserId -> User \cup {None}]
  /\ sequence \in Nat
  /\ tokens \subseteq Token
  /\ seed \in {"idle", "insert", "done"} /\ cleanup \in {"idle", "delete", "done"}
  /\ doomed \subseteq UserId

AllTypes == LimitTypes /\ VisitTypes /\ TableTypes

LEMMA TypeParts == TypeOK => AllTypes
  BY DEF TypeOK, AllTypes, LimitTypes, VisitTypes, TableTypes

(* The address of a registration or login, and the row it may become.      *)
LEMMA AddressOfVisit ==
  ASSUME TypeOK, NEW v \in Visit, call[v] # None, call[v].endpoint \in {"register", "login"}
  PROVE  /\ normalized_email(v) \in Spelling
         /\ NormalForm[normalized_email(v)] = normalized_email(v)
         /\ [email |-> normalized_email(v), role |-> "customer"] \in User
         /\ \A i \in UserId : create_access_token(v, i) \in Token
<1>1. call[v] \in Call
  BY DEF TypeOK
<1>2. call[v].email \in Spelling
  BY <1>1, CallFacts
<1>3. normalized_email(v) \in Spelling /\ NormalForm[normalized_email(v)] = normalized_email(v)
  BY <1>2, SpellingAssumption DEF normalized_email
<1> QED
  BY <1>3 DEF User, Token, create_access_token

(* The check on the event loop.                                            *)
LEMMA CheckTypes ==
  ASSUME TypeOK, NEW v \in Visit, NEW i \in UserId, Check(v, <<"assistant", i>>)
  PROVE  LimitTypes' /\ pc' \in [Visit -> Steps] /\ reply' \in [Visit -> Replies \cup {None}]
<1> DEFINE k == <<"assistant", i>>
           left == Purged(timestamps[k], clock - Window)
<1>1. k \in Key /\ timestamps[k] \in Seq(Nat) /\ admitted[k] \in Seq(Nat) /\ clock \in Nat
  BY DEF Key, TypeOK
<1>2. left \in Seq(Nat)
  <2>1. clock - Window \in Int
    BY <1>1, LimitAssumption
  <2> QED
    BY <1>1, <2>1, PurgedSuffix
<1>3. Append(left, clock) \in Seq(Nat) /\ Append(admitted[k], clock) \in Seq(Nat)
  BY <1>1, <1>2
<1>4. /\ timestamps' \in [Key -> Seq(Nat)] /\ admitted' \in [Key -> Seq(Nat)]
      /\ UNCHANGED <<clock, now, overlapped>>
  <2> HIDE DEF left
  <2>1. CASE timestamps' = [timestamps EXCEPT ![k] = left] /\ UNCHANGED admitted
             /\ UNCHANGED <<clock, now, overlapped>>
    BY <1>1, <1>2, <2>1 DEF TypeOK
  <2>2. CASE /\ timestamps' = [timestamps EXCEPT ![k] = Append(left, clock)]
             /\ admitted' = [admitted EXCEPT ![k] = Append(@, clock)]
             /\ UNCHANGED <<clock, now, overlapped>>
    BY <1>1, <1>3, <2>2 DEF TypeOK
  <2> QED
    BY <2>1, <2>2 DEF Check, left
<1>5. Goto(v, "query") \/ Respond(v, "limited")
  BY DEF Check
<1>6. pc' \in [Visit -> Steps] /\ reply' \in [Visit -> Replies \cup {None}]
  BY <1>5, Replied DEF Steps, Replies
<1> QED
  BY <1>4, <1>6 DEF TypeOK, LimitTypes

(* Arrive and the limiters' threads.                                       *)
LEMMA TypesOfLimits ==
  ASSUME TypeOK, CallsFit, NEW v \in Visit, Arrive(v) \/ Threads(v)
  PROVE  AllTypes'
<1> USE TypeParts DEF AllTypes
<1>1. CASE Arrive(v)
  <2>1. PICK c \in Calls : /\ call' = [call EXCEPT ![v] = c]
                           /\ Goto(v, IF c.endpoint \in {"register", "login"}
                                        THEN "limit" ELSE "session")
    BY <1>1 DEF Arrive
  <2>2. c \in Call
    BY TypedAssumption DEF Calls, Call, TypeOK
  <2>3. VisitTypes'
    BY <1>1, <2>1, <2>2, Replied DEF Arrive, VisitTypes, Steps
  <2>4. UNCHANGED <<process, limits, accounts, scripts>>
    BY <1>1 DEF Arrive
  <2> QED
    BY <2>3, <2>4 DEF LimitTypes, TableTypes, process, limits, accounts, scripts
<1>2. CASE Threads(v)
  <2>1. pc[v] \in {"limit", "purge", "append"} /\ UNCHANGED <<traffic, call, account, process, accounts, scripts>>
    BY <1>2 DEF Threads, Capture, PopStale, Count, AppendNow, visit
  <2>2. KeyOf(v) \in Key
    BY <2>1, KeyOfVisit DEF CallsFit
  <2>3. UNCHANGED <<pc, reply>> \/ \E step \in Steps : Goto(v, step)
        \/ \E answer \in Replies : Respond(v, answer)
    BY <1>2 DEF Threads, Capture, PopStale, Count, AppendNow, visit, Steps, Replies
  <2>4. VisitTypes'
    BY <2>1, <2>3, Replied DEF VisitTypes
  <2>5. LimitTypes'
    <3> DEFINE k == KeyOf(v)
    <3>1. /\ timestamps[k] \in Seq(Nat) /\ admitted[k] \in Seq(Nat)
          /\ now[v] \in Nat /\ clock \in Nat
      BY <2>2 DEF TypeOK
    <3>2. CASE Capture(v)
      BY <3>1, <2>2, <3>2 DEF Capture, LimitTypes
    <3>3. CASE PopStale(v)
      <4>1. Tail(timestamps[k]) \in Seq(Nat)
        BY <3>1, <3>3 DEF PopStale, Stale
      <4> QED
        BY <4>1, <2>2, <3>3 DEF PopStale, LimitTypes
    <3>4. CASE Count(v)
      <4>1. UNCHANGED now \/ now' = [now EXCEPT ![v] = 0]
        BY <3>4 DEF Count, Forget
      <4>2. UNCHANGED <<clock, timestamps, admitted, overlapped>>
        BY <3>4 DEF Count
      <4> QED
        BY <4>1, <4>2 DEF LimitTypes
    <3>5. CASE AppendNow(v)
      <4>1. Append(timestamps[k], now[v]) \in Seq(Nat) /\ Append(admitted[k], now[v]) \in Seq(Nat)
        BY <3>1
      <4> QED
        BY <4>1, <2>2, <3>5 DEF AppendNow, LimitTypes, Forget
    <3> QED
      BY <1>2, <3>2, <3>3, <3>4, <3>5 DEF Threads
  <2> QED
    BY <2>1, <2>4, <2>5 DEF TableTypes, process, accounts, scripts
<1> QED
  BY <1>1, <1>2

(* A handler opens its session.                                            *)
LEMMA TypesOfSessions ==
  ASSUME TypeOK, NEW v \in Visit, OpenSession(v) \/ Bootstrap(v)
  PROVE  AllTypes'
<1> USE TypeParts DEF AllTypes
<1>1. (\E step \in Steps : Goto(v, step)) \/ \E answer \in Replies : Respond(v, answer)
  BY DEF OpenSession, Bootstrap, Steps, Replies
<1>2. VisitTypes'
  BY <1>1, Replied DEF VisitTypes, OpenSession, Bootstrap
<1>3. TableTypes' /\ LimitTypes'
  BY DEF OpenSession, Bootstrap, TableTypes, LimitTypes, limits, accounts, scripts
<1> QED
  BY <1>2, <1>3

(* The life of the process, and time.                                      *)
LEMMA TypesOfProcess ==
  ASSUME TypeOK, Start \/ Started \/ Stop \/ Tick
  PROVE  AllTypes'
<1> USE TypeParts DEF AllTypes
<1>1. CASE Start \/ Started
  BY <1>1 DEF Start, Started, visit, limits, accounts, scripts, LimitTypes, VisitTypes, TableTypes
<1>2. CASE Stop
  <2>1. VisitTypes'
    BY <1>2 DEF Stop, VisitTypes, Steps, Replies
  <2>2. LimitTypes'
    <3>1. <<>> \in Seq(Nat)
      OBVIOUS
    <3> QED
      BY <1>2, <3>1 DEF Stop, LimitTypes
  <2> QED
    BY <1>2, <2>1, <2>2 DEF Stop, TableTypes, accounts, scripts
<1>3. CASE Tick
  BY <1>3 DEF Tick, visit, process, accounts, scripts, LimitTypes, VisitTypes, TableTypes
<1> QED
  BY <1>1, <1>2, <1>3

(* What a first statement does: nothing to the rows, one token at most.    *)
LEMMA LookupTypes ==
  ASSUME TypeOK, CallsFit, NEW v \in Visit, Lookup(v)
  PROVE  AllTypes'
<1> USE TypeParts DEF AllTypes
<1>1. call[v] \in Call /\ pc[v] = "lookup"
  BY DEF Lookup, CallsFit, TypeOK
<1>2. UNCHANGED <<traffic, call, process, scripts, account, users, sequence>>
  BY DEF Lookup, NoTable, accounts
<1>3. ASSUME UNCHANGED limits, UNCHANGED tokens,
             \/ \E step \in Steps : Goto(v, step)
             \/ \E answer \in Replies : Respond(v, answer)
      PROVE  AllTypes'
  BY <1>2, <1>3, Replied DEF LimitTypes, VisitTypes, TableTypes, process, limits, scripts
<1>4. CASE NoTable(v)
  BY <1>3, <1>4 DEF NoTable, accounts, Replies
<1>5. CASE register_user(v) /\ UNCHANGED <<tokens, limits>>
  BY <1>3, <1>5 DEF register_user, Replies, Steps
<1>6. CASE call[v].endpoint = "login" /\ login_user(v) /\ UNCHANGED limits
  <2>1. CASE UNCHANGED tokens
    BY <1>3, <1>6, <2>1 DEF login_user, Replies
  <2>2. ASSUME NEW i \in get_by_email(normalized_email(v)), Respond(v, "ok"),
               tokens' = tokens \cup {create_access_token(v, i)}
        PROVE  AllTypes'
    <3>1. create_access_token(v, i) \in Token
      <4>1. i \in UserId /\ call[v] # None
        BY <1>1, CallAssumption DEF get_by_email
      <4> QED
        BY <1>6, <4>1, AddressOfVisit
    <3>2. pc' \in [Visit -> Steps] /\ reply' \in [Visit -> Replies \cup {None}]
      BY <2>2, Replied DEF Replies
    <3> QED
      BY <1>2, <1>6, <2>2, <3>1, <3>2 DEF LimitTypes, VisitTypes, TableTypes,
         process, limits, scripts
  <2> QED
    BY <1>6, <2>1, <2>2 DEF login_user
<1>7. CASE /\ call[v].endpoint \notin {"register", "login"}
           /\ get_current_user(v, call[v].token.subject) /\ UNCHANGED tokens
  <2>1. call[v].token.subject \in UserId
    BY <1>1, <1>7, CallFacts DEF Token
  <2>2. CASE UNCHANGED limits /\ \E answer \in Replies : Respond(v, answer)
    BY <1>3, <1>7, <2>2
  <2>3. CASE Check(v, <<"assistant", call[v].token.subject>>)
    BY <1>2, <1>7, <2>1, <2>3, CheckTypes DEF VisitTypes, TableTypes, process, scripts
  <2> QED
    BY <1>7, <2>2, <2>3 DEF get_current_user, Replies
<1> QED
  BY <1>4, <1>5, <1>6, <1>7 DEF Lookup

(* The later statements of a handler.                                      *)
LEMMA TypesOfHandlers ==
  ASSUME TypeOK, CallsFit, NEW v \in Visit, Handler(v)
  PROVE  AllTypes'
<1> USE TypeParts DEF AllTypes
<1>1. CASE CreateUser(v)
  <2>1. [email |-> normalized_email(v), role |-> "customer"] \in User
    BY <1>1, AddressOfVisit DEF CreateUser, CallsFit
  <2>2. new_id \in UserId /\ sequence' \in Nat
    BY <1>1, IdTaken DEF CreateUser, TypeOK
  <2>3. (\E step \in Steps : Goto(v, step)) \/ \E answer \in Replies : Respond(v, answer)
    BY <1>1 DEF CreateUser, Steps, Replies
  <2>4. pc' \in [Visit -> Steps] /\ reply' \in [Visit -> Replies \cup {None}]
    BY <2>3, Replied
  <2>5. /\ users' \in [UserId -> User \cup {None}]
        /\ account' \in [Visit -> UserId \cup {None}]
    BY <1>1, <2>1, <2>2 DEF CreateUser, TableTypes, VisitTypes
  <2> QED
    BY <1>1, <2>2, <2>4, <2>5 DEF CreateUser, LimitTypes, VisitTypes, TableTypes,
       process, limits, scripts
<1>2. CASE Refresh(v)
  <2>1. account[v] \in UserId
    BY <1>2 DEF Refresh, CallsFit, TypeOK
  <2>2. tokens' \subseteq Token
    <3>1. call[v] # None /\ call[v].endpoint = "register"
      BY <1>2 DEF Refresh, CallsFit
    <3>2. create_access_token(v, account[v]) \in Token
      BY <2>1, <3>1, AddressOfVisit
    <3> QED
      BY <1>2, <3>2 DEF Refresh, TableTypes
  <2>3. \E answer \in Replies : Respond(v, answer)
    BY <1>2 DEF Refresh, Replies
  <2>4. pc' \in [Visit -> Steps] /\ reply' \in [Visit -> Replies \cup {None}]
    BY <2>3, Replied
  <2> QED
    BY <1>2, <2>2, <2>4 DEF Refresh, LimitTypes, VisitTypes, TableTypes, process, limits, scripts
<1>3. CASE Query(v)
  <2>1. \E answer \in Replies : Respond(v, answer)
    BY <1>3 DEF Query, Replies
  <2>2. pc' \in [Visit -> Steps] /\ reply' \in [Visit -> Replies \cup {None}]
    BY <2>1, Replied
  <2> QED
    BY <1>3, <2>2 DEF Query, LimitTypes, VisitTypes, TableTypes, process, limits, accounts, scripts
<1> QED
  BY <1>1, <1>2, <1>3, LookupTypes DEF Handler

(* The scripts.                                                            *)
LEMMA TypesOfScripts ==
  ASSUME TypeOK, Script
  PROVE  AllTypes'
<1> USE TypeParts DEF AllTypes
<1>1. CASE SeedLookup
  BY <1>1 DEF SeedLookup, LimitTypes, VisitTypes, TableTypes, visit, limits, accounts
<1>2. CASE SeedInsert
  <2>1. [email |-> AdminEmail, role |-> "admin"] \in User
    BY ScriptAssumption DEF User
  <2>2. new_id \in UserId /\ sequence' \in Nat
    BY <1>2, IdTaken DEF SeedInsert, TypeOK
  <2>3. users' \in [UserId -> User \cup {None}]
    BY <1>2, <2>1, <2>2 DEF SeedInsert, TableTypes
  <2> QED
    BY <1>2, <2>2, <2>3 DEF SeedInsert, LimitTypes, VisitTypes, TableTypes, visit, limits, process
<1>3. CASE CleanupRead
  <2>1. doomed' \subseteq UserId
    BY <1>3 DEF CleanupRead, get_by_email
  <2> QED
    BY <1>3, <2>1 DEF CleanupRead, LimitTypes, VisitTypes, TableTypes, visit, limits, process, accounts
<1>4. CASE CleanupDelete
  BY <1>4 DEF CleanupDelete, LimitTypes, VisitTypes, TableTypes, visit, limits, process
<1> QED
  BY <1>1, <1>2, <1>3, <1>4 DEF Script

(* A step is one of these.                                                 *)
LEMMA StepKinds ==
  ASSUME [Next]_vars
  PROVE  \/ \E v \in Visit : Arrive(v) \/ Threads(v) \/ OpenSession(v) \/ Bootstrap(v) \/ Handler(v)
         \/ Start \/ Started \/ Stop \/ Script \/ Tick \/ UNCHANGED vars
  BY DEF Next

LEMMA TypeNext ==
  ASSUME TypeOK, CallsFit, [Next]_vars
  PROVE  TypeOK'
<1>1. AllTypes'
  <2>1. UNCHANGED vars => AllTypes'
    BY TypeParts DEF vars, visit, process, limits, accounts, scripts, AllTypes,
       LimitTypes, VisitTypes, TableTypes
  <2> QED
    BY <2>1, StepKinds, TypesOfLimits, TypesOfSessions, TypesOfProcess, TypesOfHandlers,
       TypesOfScripts
<1> QED
  BY <1>1 DEF TypeOK, AllTypes, LimitTypes, VisitTypes, TableTypes

(***************************************************************************)
(* Calls                                                                   *)
(***************************************************************************)

(* CallsFit of one visit.                                                  *)
Fits(v) ==
  /\ pc[v] = "idle" => account[v] = None
  /\ pc[v] # "done" => reply[v] = None
  /\ pc[v] # "idle" => call[v] # None
  /\ pc[v] \in {"limit", "purge", "append"} => call[v].endpoint \in {"register", "login"}
  /\ pc[v] \in {"create", "refresh"} => call[v].endpoint = "register"
  /\ pc[v] = "query" => call[v].endpoint = "assistant"
  /\ pc[v] = "refresh" \/ (reply[v] = "ok" /\ call[v].endpoint = "register")
       => account[v] # None

(* A visit v takes a step and no other visit does.                         *)
Steps1(v) ==
  \A w \in Visit : w # v => /\ pc'[w] = pc[w] /\ reply'[w] = reply[w]
                            /\ account'[w] = account[w] /\ call'[w] = call[w]

(* A visit that goes on, or answers, from a step of its handler.           *)
LEMMA WentOn ==
  ASSUME TypeOK, NEW v \in Visit
  PROVE  /\ \A step : Goto(v, step) => /\ pc'[v] = step /\ reply' = reply
                                       /\ \A w \in Visit : w # v => pc'[w] = pc[w]
         /\ \A answer : Respond(v, answer) =>
              /\ pc'[v] = "done" /\ reply'[v] = answer
              /\ \A w \in Visit : w # v => pc'[w] = pc[w] /\ reply'[w] = reply[w]
  BY DEF TypeOK, Goto, Respond

(* Calls of visits that do not move still fit.                             *)
LEMMA OneFits ==
  ASSUME CallsFit, NEW v \in Visit, Steps1(v), Fits(v)'
  PROVE  CallsFit'
<1> SUFFICES ASSUME NEW w \in Visit
             PROVE  Fits(w)'
  BY DEF CallsFit, Fits
<1> QED
  BY DEF Steps1, CallsFit, Fits

(* A visit that answers: an ok to a registration comes with its account.   *)
LEMMA AnswerFits ==
  ASSUME TypeOK, NEW v \in Visit, call[v] # None, NEW answer, Respond(v, answer),
         UNCHANGED <<call, account>>,
         answer = "ok" /\ call[v].endpoint = "register" => account[v] # None
  PROVE  Steps1(v) /\ Fits(v)'
<1>1. /\ pc'[v] = "done" /\ reply'[v] = answer
      /\ \A w \in Visit : w # v => pc'[w] = pc[w] /\ reply'[w] = reply[w]
  BY WentOn
<1> QED
  BY <1>1 DEF Steps1, Fits

(* A visit that goes on to a step its call may take.                       *)
LEMMA StepFits ==
  ASSUME TypeOK, NEW v \in Visit, call[v] # None, reply[v] = None,
         NEW step, Goto(v, step), UNCHANGED <<call, account>>,
         step \notin {"idle", "done"},
         step \in {"limit", "purge", "append"} => call[v].endpoint \in {"register", "login"},
         step \in {"create", "refresh"} => call[v].endpoint = "register",
         step = "query" => call[v].endpoint = "assistant",
         step = "refresh" => account[v] # None
  PROVE  Steps1(v) /\ Fits(v)'
<1>1. /\ pc'[v] = step /\ reply' = reply
      /\ \A w \in Visit : w # v => pc'[w] = pc[w]
  BY WentOn
<1>2. None # "ok"
  BY CallAssumption DEF Replies
<1> QED
  BY <1>1, <1>2 DEF Steps1, Fits

LEMMA CallsOfVisits ==
  ASSUME TypeOK, CallsFit, NEW v \in Visit,
         Arrive(v) \/ Threads(v) \/ OpenSession(v) \/ Bootstrap(v) \/ Handler(v)
  PROVE  Steps1(v) /\ Fits(v)'
<1>1. Fits(v)
  BY DEF CallsFit, Fits
<1>2. CASE Arrive(v)
  <2>1. PICK c \in Calls : /\ call' = [call EXCEPT ![v] = c]
                           /\ Goto(v, IF c.endpoint \in {"register", "login"}
                                        THEN "limit" ELSE "session")
    BY <1>2 DEF Arrive
  <2>2. c \in Call /\ c # None
    BY TypedAssumption, CallAssumption DEF Calls, Call, TypeOK
  <2>3. /\ pc'[v] = IF c.endpoint \in {"register", "login"} THEN "limit" ELSE "session"
        /\ reply' = reply /\ \A w \in Visit : w # v => pc'[w] = pc[w]
    BY <2>1, WentOn
  <2>4. call'[v] = c /\ \A w \in Visit : w # v => call'[w] = call[w]
    BY <2>1 DEF TypeOK
  <2>5. UNCHANGED account /\ pc[v] = "idle"
    BY <1>2 DEF Arrive
  <2>6. None # "ok"
    BY CallAssumption DEF Replies
  <2> QED
    BY <1>1, <2>2, <2>3, <2>4, <2>5, <2>6 DEF Steps1, Fits
<1>3. CASE Capture(v)
  BY <1>1, <1>3, StepFits DEF Capture, Fits
<1>4. CASE PopStale(v)
  BY <1>1, <1>4 DEF PopStale, visit, Steps1, Fits
<1>5. CASE Count(v)
  <2>1. call[v] # None /\ reply[v] = None /\ call[v].endpoint \in {"register", "login"}
        /\ UNCHANGED <<call, account>>
    BY <1>1, <1>5 DEF Count, Fits
  <2>2. Respond(v, "limited") \/ Goto(v, "append")
    BY <1>5 DEF Count
  <2> QED
    BY <2>1, <2>2, AnswerFits, StepFits
<1>6. CASE AppendNow(v)
  BY <1>1, <1>6, StepFits DEF AppendNow, Fits
<1>7. CASE OpenSession(v)
  <2>1. call[v] # None /\ reply[v] = None /\ UNCHANGED <<call, account>>
        /\ (Goto(v, "lookup") \/ Goto(v, "bootstrap"))
    BY <1>1, <1>7 DEF OpenSession, Fits
  <2> QED
    BY <2>1, StepFits
<1>8. CASE Bootstrap(v)
  <2>1. call[v] # None /\ reply[v] = None /\ UNCHANGED <<call, account>>
        /\ (Goto(v, "lookup") \/ Respond(v, "no_database"))
    BY <1>1, <1>8 DEF Bootstrap, Fits
  <2> QED
    BY <2>1, AnswerFits, StepFits
<1>9. CASE Lookup(v)
  <2>1. call[v] # None /\ reply[v] = None /\ UNCHANGED <<call, account>>
    BY <1>1, <1>9 DEF Lookup, Fits, NoTable
  <2>2. \/ \E answer \in Replies : Respond(v, answer)
           /\ (answer = "ok" => call[v].endpoint # "register")
        \/ Goto(v, "create") /\ call[v].endpoint = "register"
        \/ Goto(v, "query") /\ call[v].endpoint = "assistant"
    <3>1. call[v] \in Call
      BY <2>1 DEF TypeOK
    <3>2. CASE NoTable(v)
      BY <3>2 DEF NoTable, Replies
    <3>3. CASE call[v].endpoint = "register" /\ register_user(v)
      BY <3>3 DEF register_user, Replies
    <3>4. CASE call[v].endpoint = "login" /\ login_user(v)
      BY <3>4 DEF login_user, Replies
    <3>5. CASE call[v].endpoint \notin {"register", "login"}
               /\ get_current_user(v, call[v].token.subject)
      <4>1. call[v].endpoint \in {"me", "assistant"}
        BY <3>1, <3>5, CallFacts
      <4> QED
        BY <3>5, <4>1 DEF get_current_user, Check, Replies
    <3> QED
      BY <1>9, <3>2, <3>3, <3>4, <3>5 DEF Lookup
  <2>3. ASSUME NEW answer \in Replies, Respond(v, answer),
               answer = "ok" => call[v].endpoint # "register"
        PROVE  Steps1(v) /\ Fits(v)'
    BY <2>1, <2>3, AnswerFits
  <2>4. CASE Goto(v, "create") /\ call[v].endpoint = "register"
    BY <2>1, <2>4, StepFits
  <2>5. CASE Goto(v, "query") /\ call[v].endpoint = "assistant"
    BY <2>1, <2>5, StepFits
  <2> QED
    BY <2>2, <2>3, <2>4, <2>5
<1>10. CASE CreateUser(v)
  <2>1. call[v] # None /\ reply[v] = None /\ call[v].endpoint = "register" /\ UNCHANGED call
    BY <1>1, <1>10 DEF CreateUser, Fits
  <2>2. CASE Respond(v, "conflict") /\ UNCHANGED account
    BY <2>1, <2>2, AnswerFits
  <2>3. CASE Goto(v, "refresh") /\ account' = [account EXCEPT ![v] = new_id]
    <3>1. new_id \in UserId /\ new_id # None
      BY <1>10, NoneAssumption DEF CreateUser
    <3>2. account'[v] = new_id /\ \A w \in Visit : w # v => account'[w] = account[w]
      BY <2>3 DEF TypeOK
    <3>3. pc'[v] = "refresh" /\ reply' = reply /\ \A w \in Visit : w # v => pc'[w] = pc[w]
      BY <2>3, WentOn
    <3> QED
      BY <2>1, <3>1, <3>2, <3>3 DEF Steps1, Fits
  <2> QED
    BY <1>10, <2>2, <2>3 DEF CreateUser
<1>11. CASE Refresh(v)
  <2>1. call[v] # None /\ account[v] # None /\ UNCHANGED <<call, account>>
        /\ (Respond(v, "no_row") \/ Respond(v, "ok"))
    BY <1>1, <1>11 DEF Refresh, Fits
  <2> QED
    BY <2>1, AnswerFits
<1>12. CASE Query(v)
  <2>1. call[v] # None /\ call[v].endpoint = "assistant" /\ UNCHANGED <<call, account>>
        /\ (Respond(v, "ok") \/ Respond(v, "unavailable"))
    BY <1>1, <1>12 DEF Query, Fits
  <2> QED
    BY <2>1, AnswerFits
<1> QED
  BY <1>2, <1>3, <1>4, <1>5, <1>6, <1>7, <1>8, <1>9, <1>10, <1>11, <1>12 DEF Threads, Handler

LEMMA CallsNext ==
  ASSUME TypeOK, CallsFit, [Next]_vars
  PROVE  CallsFit'
<1>1. ASSUME UNCHANGED <<pc, call, reply, account>>
      PROVE  CallsFit'
  BY <1>1 DEF CallsFit
<1>2. CASE Stop
  BY <1>2 DEF Stop, CallsFit, InFlight, TypeOK
<1>3. CASE Start \/ Started \/ Script \/ Tick \/ UNCHANGED vars
  BY <1>1, <1>3 DEF Start, Started, Script, SeedLookup, SeedInsert, CleanupRead, CleanupDelete,
     Tick, vars, visit
<1> QED
  BY <1>2, <1>3, StepKinds, CallsOfVisits, OneFits

(***************************************************************************)
(* Accounts                                                                *)
(***************************************************************************)

UsersInv == AddressesNormal /\ OneAccountPerAddress /\ IdsNotReused

(* What a step does to the rows, the sequence and the tokens.              *)
TokenIssued ==
  /\ \E i \in UserId, e \in Spelling :
       /\ users[i] # None
       /\ Dialect = "postgresql" => users[i].email = e
       /\ tokens' = tokens \cup {[subject |-> i, owner |-> e]}
  /\ UNCHANGED <<users, sequence>>
RowAdded(row) ==
  /\ NormalForm[row.email] = row.email /\ row \in User
  /\ get_by_email(row.email) = {}
  /\ new_id \in UserId /\ take_id
  /\ users' = [users EXCEPT ![new_id] = row]
  /\ UNCHANGED tokens
IdSkipped == take_id /\ UNCHANGED <<users, tokens>>

LEMMA TokenInv ==
  ASSUME TypeOK, UsersInv, TokenIssued
  PROVE  UsersInv'
<1>1. PICK i \in UserId, e \in Spelling :
        /\ users[i] # None
        /\ Dialect = "postgresql" => users[i].email = e
        /\ tokens' = tokens \cup {[subject |-> i, owner |-> e]}
  BY DEF TokenIssued
<1>2. UNCHANGED <<users, sequence>>
  BY DEF TokenIssued
<1>3. \A t \in tokens' : t \in tokens \/ (t.subject = i /\ t.owner = e)
  BY <1>1
<1>4. IdsNotReused'
  BY <1>1, <1>2, <1>3 DEF UsersInv, IdsNotReused
<1> QED
  BY <1>2, <1>4 DEF UsersInv, OneAccountPerAddress, AddressesNormal

(* The new id is that of no row and, on PostgreSQL, of no token.           *)
LEMMA FreshId ==
  ASSUME TypeOK, UsersInv, new_id \in UserId
  PROVE  /\ users[new_id] = None
         /\ Dialect = "postgresql" =>
              new_id \in Nat /\ new_id > sequence /\ \A t \in tokens : t.subject # new_id
<1> DEFINE present == {i \in UserId : users[i] # None}
<1>1. CASE Dialect = "sqlite"
  <2>1. Greatest(present) \in Nat /\ \A i \in present : i <= Greatest(present)
    BY GreatestBounds
  <2>2. new_id = 1 + Greatest(present)
    BY <1>1 DEF new_id
  <2>3. new_id \notin present
    <3> HIDE DEF present
    <3> QED
      BY <2>1, <2>2
  <2> QED
    BY <1>1, <2>3
<1>2. CASE Dialect = "postgresql"
  <2>1. sequence \in Nat /\ tokens \subseteq Token /\ \A i \in UserId : i \in Nat
    BY UserIds DEF TypeOK
  <2>2. new_id = 1 + sequence
    BY <1>2 DEF new_id
  <2>3. \A i \in UserId : i <= sequence => i # new_id
    BY <2>1, <2>2
  <2> QED
    BY <1>2, <2>1, <2>2, <2>3 DEF UsersInv, IdsNotReused, Token
<1> QED
  BY <1>1, <1>2, DialectAssumption

LEMMA RowInv ==
  ASSUME TypeOK, UsersInv, NEW row, RowAdded(row)
  PROVE  UsersInv'
<1>1. /\ new_id \in UserId /\ users[new_id] = None
      /\ Dialect = "postgresql" => \A t \in tokens : t.subject # new_id
  BY FreshId DEF RowAdded
<1>2. users'[new_id] = row /\ \A i \in UserId : i # new_id => users'[i] = users[i]
  BY <1>1 DEF RowAdded, TypeOK
<1>3. /\ sequence \in Nat /\ sequence' \in Nat /\ sequence <= sequence'
      /\ Dialect = "postgresql" => sequence' = new_id
      /\ tokens' = tokens /\ tokens \subseteq Token
  BY IdTaken DEF RowAdded, TypeOK
<1>4. NormalForm[row.email] = row.email
  BY DEF RowAdded
<1>5. AddressesNormal'
  BY <1>1, <1>2, <1>4 DEF UsersInv, AddressesNormal
<1>6. OneAccountPerAddress'
  <2>1. \A i \in UserId : users[i] # None => users[i].email # row.email
    BY DEF RowAdded, get_by_email
  <2>2. \A i \in UserId : users[i] # None => NormalForm[users[i].email] # NormalForm[row.email]
    BY <1>4, <2>1 DEF UsersInv, AddressesNormal
  <2> QED
    BY <1>2, <2>2 DEF UsersInv, OneAccountPerAddress
<1>7. IdsNotReused'
  <2> SUFFICES ASSUME Dialect = "postgresql"
               PROVE  /\ \A i \in UserId : users'[i] # None => i <= sequence'
                      /\ \A t \in tokens' :
                           /\ t.subject <= sequence'
                           /\ users'[t.subject] # None => users'[t.subject].email = t.owner
    BY DEF IdsNotReused
  <2>1. \A i \in UserId : i <= sequence => i <= sequence'
    BY <1>3, UserIds
  <2>2. \A i \in UserId : users'[i] # None => i <= sequence'
    <3>1. new_id <= sequence'
      BY <1>3
    <3> QED
      BY <1>2, <2>1, <3>1 DEF UsersInv, IdsNotReused
  <2>3. ASSUME NEW t \in tokens
        PROVE  /\ t.subject <= sequence'
               /\ users'[t.subject] # None => users'[t.subject].email = t.owner
    <3>1. /\ t.subject \in UserId /\ t.subject # new_id /\ t.subject <= sequence
          /\ users[t.subject] # None => users[t.subject].email = t.owner
      BY <1>1, <1>3 DEF Token, UsersInv, IdsNotReused
    <3> QED
      BY <1>2, <2>1, <3>1
  <2> QED
    BY <1>3, <2>2, <2>3
<1> QED
  BY <1>5, <1>6, <1>7 DEF UsersInv

LEMMA SkipInv ==
  ASSUME TypeOK, UsersInv, IdSkipped
  PROVE  UsersInv'
<1>1. /\ tokens \subseteq Token /\ UNCHANGED <<users, tokens>>
      /\ sequence \in Nat /\ sequence' \in Nat /\ sequence <= sequence'
  BY IdTaken DEF TypeOK, IdSkipped
<1>2. \A i \in UserId : i <= sequence => i <= sequence'
  BY <1>1, UserIds
<1>3. IdsNotReused'
  BY <1>1, <1>2 DEF UsersInv, IdsNotReused, Token
<1> QED
  BY <1>1, <1>3 DEF UsersInv, OneAccountPerAddress, AddressesNormal

LEMMA DeleteInv ==
  ASSUME TypeOK, UsersInv, CleanupDelete
  PROVE  UsersInv'
<1>1. \A i \in UserId : users'[i] # None => users'[i] = users[i]
  BY DEF CleanupDelete
<1>2. UNCHANGED <<sequence, tokens>> /\ tokens \subseteq Token
  BY DEF CleanupDelete, TypeOK
<1>3. \A t \in tokens : t.subject \in UserId
  BY <1>2 DEF Token
<1> QED
  BY <1>1, <1>2, <1>3 DEF UsersInv, IdsNotReused, OneAccountPerAddress, AddressesNormal

(* What CreateUser and SeedInsert do to the rows.                          *)
LEMMA CreateAdds ==
  ASSUME TypeOK, CallsFit, NEW v \in Visit, CreateUser(v)
  PROVE  \/ IdSkipped /\ UNCHANGED account /\ Respond(v, "conflict")
            /\ get_by_email(normalized_email(v)) # {}
         \/ /\ RowAdded([email |-> normalized_email(v), role |-> "customer"])
            /\ account' = [account EXCEPT ![v] = new_id] /\ Goto(v, "refresh")
<1>1. /\ NormalForm[normalized_email(v)] = normalized_email(v)
      /\ [email |-> normalized_email(v), role |-> "customer"] \in User
  BY AddressOfVisit DEF CreateUser, CallsFit
<1> QED
  BY <1>1 DEF CreateUser, RowAdded, IdSkipped

LEMMA SeedAdds ==
  ASSUME SeedInsert
  PROVE  IdSkipped \/ RowAdded([email |-> AdminEmail, role |-> "admin"])
<1>1. [email |-> AdminEmail, role |-> "admin"] \in User
  BY ScriptAssumption DEF User
<1> QED
  BY <1>1, ScriptAssumption DEF SeedInsert, RowAdded, IdSkipped

(* Lookup and Refresh issue at most one token, for the row of its owner    *)
(* where ids are not used again.                                           *)
LEMMA TokenSteps ==
  ASSUME TypeOK, CallsFit, AccountsOfVisits, NEW v \in Visit, Lookup(v) \/ Refresh(v)
  PROVE  UNCHANGED accounts \/ TokenIssued
<1>1. CASE Lookup(v)
  <2>1. CASE call[v].endpoint = "login" /\ login_user(v) /\ UNCHANGED <<users, sequence>>
    <3>1. CASE UNCHANGED tokens
      BY <2>1, <3>1 DEF accounts
    <3>2. ASSUME NEW i \in get_by_email(normalized_email(v)),
                 tokens' = tokens \cup {create_access_token(v, i)}
          PROVE  TokenIssued
      <4>1. i \in UserId /\ users[i] # None /\ users[i].email = normalized_email(v)
        BY DEF get_by_email
      <4>2. normalized_email(v) \in Spelling
        BY <1>1, <2>1, AddressOfVisit DEF Lookup, CallsFit
      <4> QED
        BY <2>1, <3>2, <4>1, <4>2 DEF TokenIssued, create_access_token
    <3> QED
      BY <2>1, <3>1, <3>2 DEF login_user
  <2>2. CASE UNCHANGED accounts
    BY <2>2
  <2> QED
    BY <1>1, <2>1, <2>2 DEF Lookup, NoTable, accounts
<1>2. CASE Refresh(v)
  <2>1. account[v] \in UserId /\ account[v] # None
    BY <1>2 DEF Refresh, CallsFit, TypeOK
  <2>2. normalized_email(v) \in Spelling
    BY <1>2, AddressOfVisit DEF Refresh, CallsFit
  <2>3. Dialect = "postgresql" /\ users[account[v]] # None
          => users[account[v]].email = normalized_email(v)
    BY <2>1 DEF AccountsOfVisits, IdsKept
  <2> QED
    BY <1>2, <2>1, <2>2, <2>3 DEF Refresh, TokenIssued, create_access_token, accounts
<1> QED
  BY <1>1, <1>2

(* The other steps leave the accounts alone.                               *)
LEMMA AccountSteps ==
  ASSUME TypeOK, CallsFit, AccountsOfVisits, [Next]_vars
  PROVE  \/ UNCHANGED accounts \/ TokenIssued \/ CleanupDelete \/ SeedInsert
         \/ \E v \in Visit : CreateUser(v)
<1>1. ASSUME NEW v \in Visit, Arrive(v) \/ Threads(v) \/ OpenSession(v) \/ Bootstrap(v) \/ Query(v)
      PROVE  UNCHANGED accounts
  BY <1>1 DEF Arrive, Threads, Capture, PopStale, Count, AppendNow, OpenSession, Bootstrap, Query
<1>2. Start \/ Started \/ Stop \/ Tick \/ SeedLookup \/ CleanupRead \/ UNCHANGED vars
        => UNCHANGED accounts
  BY DEF Start, Started, Stop, Tick, SeedLookup, CleanupRead, vars
<1> QED
  BY <1>1, <1>2, StepKinds, TokenSteps DEF Handler, Script

LEMMA UsersNext ==
  ASSUME TypeOK, CallsFit, UsersInv, AccountsOfVisits, [Next]_vars
  PROVE  UsersInv'
<1>1. UNCHANGED accounts => UsersInv'
  BY DEF accounts, UsersInv, AddressesNormal, OneAccountPerAddress, IdsNotReused
<1> QED
  BY <1>1, AccountSteps, TokenInv, DeleteInv, SeedAdds, CreateAdds, SkipInv, RowInv

(* What a visit shows has been issued, and tokens are not called back.     *)
LEMMA TokensShownNext ==
  ASSUME TypeOK, CallsFit, AccountsOfVisits, TokensShown, [Next]_vars
  PROVE  TokensShown'
<1>1. tokens \subseteq tokens'
  BY AccountSteps DEF accounts, TokenIssued, CleanupDelete, SeedInsert, CreateUser
<1>2. UNCHANGED call => TokensShown'
  BY <1>1 DEF TokensShown
<1>3. ASSUME NEW v \in Visit, Arrive(v)
      PROVE  TokensShown'
  <2>1. PICK c \in Calls : call' = [call EXCEPT ![v] = c]
    BY <1>3 DEF Arrive
  <2>2. c.endpoint \in {"me", "assistant"} => c.token \in tokens
    BY DEF Calls
  <2>3. call'[v] = c /\ \A w \in Visit : w # v => call'[w] = call[w]
    BY <2>1 DEF TypeOK
  <2> QED
    BY <1>1, <2>2, <2>3 DEF TokensShown
<1>4. ASSUME NEW v \in Visit, Threads(v) \/ OpenSession(v) \/ Bootstrap(v) \/ Handler(v)
      PROVE  UNCHANGED call
  BY <1>4 DEF Threads, Capture, PopStale, Count, AppendNow, OpenSession, Bootstrap, Handler,
     Lookup, NoTable, CreateUser, Refresh, Query, visit
<1>5. Start \/ Started \/ Stop \/ Script \/ Tick \/ UNCHANGED vars => UNCHANGED call
  BY DEF Start, Started, Stop, Script, SeedLookup, SeedInsert, CleanupRead, CleanupDelete, Tick,
     vars, visit
<1> QED
  BY <1>2, <1>3, <1>4, <1>5, StepKinds

(* Rows keep their addresses: until the clean-up is done all of them stay, *)
(* and on PostgreSQL no id up to the sequence is given to another row.     *)
RowsKept ==
  /\ cleanup = "done" => cleanup' = "done"
  /\ \A i \in UserId : users[i] # None => users'[i] = users[i] \/ cleanup' = "done"
  /\ Dialect = "postgresql" =>
       /\ sequence \in Nat /\ sequence' \in Nat /\ sequence <= sequence'
       /\ \A i \in UserId : i <= sequence /\ users'[i] # None => users'[i] = users[i]

LEMMA RowsStay ==
  ASSUME TypeOK, UsersInv, cleanup = "done" => cleanup' = "done"
  PROVE  /\ UNCHANGED <<users, sequence>> => RowsKept
         /\ IdSkipped => RowsKept
         /\ \A row : RowAdded(row) => RowsKept
         /\ CleanupDelete => RowsKept
<1>1. sequence \in Nat
  BY DEF TypeOK
<1>2. UNCHANGED <<users, sequence>> => RowsKept
  BY <1>1 DEF RowsKept
<1>3. IdSkipped => RowsKept
  BY <1>1, IdTaken DEF RowsKept, IdSkipped
<1>4. ASSUME NEW row, RowAdded(row)
      PROVE  RowsKept
  <2>1. /\ new_id \in UserId /\ users[new_id] = None
        /\ Dialect = "postgresql" => new_id \in Nat /\ new_id > sequence
    BY <1>4, FreshId DEF RowAdded
  <2>2. \A i \in UserId : i # new_id => users'[i] = users[i]
    BY <1>4 DEF RowAdded, TypeOK
  <2>3. sequence' \in Nat /\ sequence <= sequence'
    BY <1>1, <1>4, IdTaken DEF RowAdded
  <2>4. Dialect = "postgresql" => \A i \in UserId : i <= sequence => i # new_id
    BY <1>1, <2>1, UserIds
  <2> QED
    BY <1>1, <2>1, <2>2, <2>3, <2>4 DEF RowsKept
<1>5. CleanupDelete => RowsKept
  BY <1>1 DEF CleanupDelete, RowsKept
<1> QED
  BY <1>2, <1>3, <1>4, <1>5

LEMMA RowsKeptNext ==
  ASSUME TypeOK, CallsFit, UsersInv, AccountsOfVisits, [Next]_vars
  PROVE  RowsKept
<1>1. UNCHANGED accounts \/ TokenIssued => UNCHANGED <<users, sequence>>
  BY DEF accounts, TokenIssued
<1>2. cleanup = "done" => cleanup' = "done"
  BY StepKinds DEF Arrive, Threads, Capture, PopStale, Count, AppendNow,
     OpenSession, Bootstrap, Handler, Lookup, CreateUser, Refresh, Query, Start, Started, Stop,
     Script, SeedLookup, SeedInsert, CleanupRead, CleanupDelete, Tick, vars, scripts
<1> QED
  BY <1>1, <1>2, AccountSteps, RowsStay, SeedAdds, CreateAdds

(* AccountsOfVisits of one visit.                                          *)
Owns(v) ==
  account[v] # None =>
    /\ call[v] # None /\ call[v].endpoint = "register"
    /\ Dialect = "postgresql" => account[v] <= sequence
    /\ cleanup = "done" \/ users[account[v]] # None
    /\ IdsKept /\ users[account[v]] # None => users[account[v]].email = normalized_email(v)

(* A visit keeps the account it has.                                       *)
LEMMA OwnsStill ==
  ASSUME TypeOK, RowsKept, NEW v \in Visit, Owns(v), account'[v] = account[v],
         call'[v] = call[v] \/ account[v] = None
  PROVE  Owns(v)'
<1> SUFFICES ASSUME account[v] # None
             PROVE  /\ call'[v] # None /\ call'[v].endpoint = "register"
                    /\ Dialect = "postgresql" => account[v] <= sequence'
                    /\ cleanup' = "done" \/ users'[account[v]] # None
                    /\ IdsKept' /\ users'[account[v]] # None =>
                         users'[account[v]].email = NormalForm[call[v].email]
  BY DEF Owns, normalized_email
<1>1. account[v] \in UserId /\ account[v] \in Nat
  BY UserIds DEF TypeOK
<1>2. call'[v] = call[v] /\ call[v] # None /\ call[v].endpoint = "register"
  BY DEF Owns
<1>3. Dialect = "postgresql" => account[v] <= sequence'
  BY <1>1 DEF Owns, RowsKept
<1>4. cleanup' = "done" \/ (users[account[v]] # None /\ users'[account[v]] = users[account[v]])
  BY <1>1 DEF Owns, RowsKept
<1>5. ASSUME IdsKept', users'[account[v]] # None
      PROVE  users'[account[v]].email = NormalForm[call[v].email]
  <2>1. IdsKept
    BY <1>5 DEF IdsKept, RowsKept
  <2>2. users'[account[v]] = users[account[v]]
    BY <1>1, <1>4, <1>5 DEF IdsKept, Owns, RowsKept
  <2> QED
    BY <1>5, <2>1, <2>2 DEF Owns, normalized_email
<1> QED
  BY <1>2, <1>3, <1>4, <1>5

(* Who has an account, and of which address: only CreateUser changes it.   *)
LEMMA AccountsKept ==
  ASSUME TypeOK, CallsFit, AccountsOfVisits, RowsKept, UNCHANGED account,
         \A v \in Visit : call'[v] = call[v] \/ account[v] = None
  PROVE  AccountsOfVisits'
<1>1. \A v \in Visit : Owns(v)'
  <2>1. \A v \in Visit : Owns(v)
    BY DEF AccountsOfVisits, Owns
  <2> QED
    BY <2>1, OwnsStill
<1>2. IdsKept' => IdsKept
  BY DEF IdsKept, RowsKept
<1> QED
  BY <1>1, <1>2 DEF AccountsOfVisits, Owns

LEMMA AccountGiven ==
  ASSUME TypeOK, CallsFit, UsersInv, AccountsOfVisits, RowsKept, NEW v \in Visit, CreateUser(v),
         RowAdded([email |-> normalized_email(v), role |-> "customer"]),
         account' = [account EXCEPT ![v] = new_id]
  PROVE  AccountsOfVisits'
<1> DEFINE row == [email |-> normalized_email(v), role |-> "customer"]
<1>1. /\ new_id \in UserId /\ users[new_id] = None /\ sequence \in Nat
      /\ Dialect = "postgresql" => new_id \in Nat /\ new_id > sequence /\ sequence' = new_id
  BY FreshId, IdTaken DEF RowAdded, TypeOK
<1>2. users'[new_id] = row /\ row # None
  BY <1>1, NoneAssumption DEF RowAdded, TypeOK
<1>3. account'[v] = new_id /\ \A w \in Visit : w # v => account'[w] = account[w]
  BY DEF TypeOK
<1>4. UNCHANGED <<call, cleanup>> /\ call[v] # None /\ call[v].endpoint = "register"
  BY DEF CreateUser, CallsFit, scripts
<1>5. Owns(v)'
  <2>1. Dialect = "postgresql" => new_id <= sequence'
    BY <1>1
  <2>2. users'[new_id].email = NormalForm[call[v].email]
    BY <1>2 DEF normalized_email
  <2> QED
    BY <1>2, <1>3, <1>4, <2>1, <2>2 DEF Owns, normalized_email
<1>6. \A w \in Visit : w # v => Owns(w)'
  <2>1. \A w \in Visit : Owns(w)
    BY DEF AccountsOfVisits, Owns
  <2> QED
    BY <1>3, <1>4, <2>1, OwnsStill
<1>7. ASSUME IdsKept', NEW w \in Visit, account[w] # None
      PROVE  account[w] # new_id
  <2>1. CASE Dialect = "postgresql"
    <3>1. account[w] \in UserId /\ account[w] \in Nat /\ account[w] <= sequence
      BY <1>7, <2>1, UserIds DEF TypeOK, AccountsOfVisits
    <3> QED
      BY <1>1, <2>1, <3>1
  <2>2. CASE cleanup # "done"
    BY <1>1, <1>7, <2>2 DEF AccountsOfVisits
  <2> QED
    BY <1>4, <1>7, <2>1, <2>2 DEF IdsKept
<1>8. IdsKept' => IdsKept
  BY DEF IdsKept, RowsKept
<1>9. IdsKept' => \A w, x \in Visit : account'[w] # None /\ account'[w] = account'[x] => w = x
  <2> SUFFICES ASSUME IdsKept', NEW w \in Visit, NEW x \in Visit,
                      account'[w] # None, account'[w] = account'[x]
               PROVE  w = x
    OBVIOUS
  <2>1. CASE w = v \/ x = v
    BY <1>3, <1>7, <2>1
  <2>2. CASE w # v /\ x # v
    BY <1>3, <1>8, <2>2 DEF AccountsOfVisits
  <2> QED
    BY <2>1, <2>2
<1>10. \A w \in Visit : Owns(w)'
  BY <1>5, <1>6
<1> QED
  BY <1>9, <1>10 DEF AccountsOfVisits, Owns

LEMMA AccountsNext ==
  ASSUME TypeOK, CallsFit, UsersInv, AccountsOfVisits, [Next]_vars
  PROVE  AccountsOfVisits'
<1>1. RowsKept
  BY RowsKeptNext
<1>2. ASSUME NEW v \in Visit, CreateUser(v)
      PROVE  AccountsOfVisits'
  <2>1. UNCHANGED call
    BY <1>2 DEF CreateUser
  <2> QED
    BY <1>1, <1>2, <2>1, CreateAdds, AccountsKept, AccountGiven
<1>3. ASSUME NEW v \in Visit, Arrive(v)
      PROVE  AccountsOfVisits'
  <2>1. UNCHANGED account /\ account[v] = None
        /\ \A w \in Visit : w # v => call'[w] = call[w]
    BY <1>3 DEF Arrive, CallsFit, TypeOK
  <2> QED
    BY <1>1, <2>1, AccountsKept
<1>4. ASSUME NEW v \in Visit,
             Threads(v) \/ OpenSession(v) \/ Bootstrap(v) \/ Lookup(v) \/ Refresh(v) \/ Query(v)
      PROVE  UNCHANGED <<call, account>>
  BY <1>4 DEF Threads, Capture, PopStale, Count, AppendNow, OpenSession, Bootstrap, Lookup,
     NoTable, Refresh, Query, visit
<1>5. Start \/ Started \/ Stop \/ Script \/ Tick \/ UNCHANGED vars => UNCHANGED <<call, account>>
  BY DEF Start, Started, Stop, Script, SeedLookup, SeedInsert, CleanupRead, CleanupDelete, Tick,
     vars, visit
<1> QED
  BY <1>1, <1>2, <1>3, <1>4, <1>5, StepKinds, AccountsKept DEF Handler

(* Only a registration whose address has a row is told of a conflict, and  *)
(* only one whose row is gone of a missing row.                            *)
LEMMA RowsTold ==
  ASSUME TypeOK, CallsFit, NEW v \in Visit, reply'[v] \in {"conflict", "no_row"},
         Arrive(v) \/ Threads(v) \/ OpenSession(v) \/ Bootstrap(v) \/ Handler(v)
  PROVE  /\ call'[v] = call[v]
         /\ reply'[v] = "conflict" => get_by_email(normalized_email(v)) # {}
         /\ reply'[v] = "no_row" => pc[v] = "refresh" /\ users[account[v]] = None
<1>1. None \notin {"conflict", "no_row"}
  BY CallAssumption DEF Replies
<1>2. pc[v] # "done"
  BY DEF Arrive, Threads, Capture, PopStale, Count, AppendNow, OpenSession, Bootstrap, Handler,
     Lookup, CreateUser, Refresh, Query
<1>3. reply[v] = None
  BY <1>2 DEF CallsFit
<1>4. ~UNCHANGED reply /\ \A step : ~Goto(v, step)
  BY <1>1, <1>3 DEF Goto
<1>5. \A answer : Respond(v, answer) => answer = reply'[v]
  BY WentOn
<1>6. ~(Arrive(v) \/ Threads(v) \/ OpenSession(v) \/ Bootstrap(v) \/ Query(v))
  <2>1. ~Respond(v, "limited") /\ ~Respond(v, "no_database")
        /\ ~Respond(v, "ok") /\ ~Respond(v, "unavailable")
    BY <1>5
  <2> QED
    BY <1>4, <2>1 DEF Arrive, Threads, Capture, PopStale, Count, AppendNow, OpenSession,
       Bootstrap, Query, visit
<1>7. CASE CreateUser(v)
  <2>1. Respond(v, "conflict") /\ get_by_email(normalized_email(v)) # {} /\ UNCHANGED call
    BY <1>4, <1>7 DEF CreateUser
  <2> QED
    BY <1>5, <2>1
<1>8. CASE Refresh(v)
  <2>1. Respond(v, "no_row") /\ pc[v] = "refresh" /\ users[account[v]] = None /\ UNCHANGED call
    <3>1. ~Respond(v, "ok")
      BY <1>5
    <3> QED
      BY <1>8, <3>1 DEF Refresh
  <2> QED
    BY <1>5, <2>1
<1>9. CASE Lookup(v)
  <2>1. ~Respond(v, "no_table") /\ ~Respond(v, "unauthenticated") /\ ~Respond(v, "ok")
        /\ ~Respond(v, "forbidden") /\ ~Respond(v, "limited")
    BY <1>5
  <2>2. ~NoTable(v) /\ ~login_user(v) /\ ~get_current_user(v, call[v].token.subject)
    BY <1>4, <2>1 DEF NoTable, login_user, get_current_user, Check
  <2>3. register_user(v) /\ UNCHANGED call
    BY <1>9, <2>2 DEF Lookup
  <2>4. Respond(v, "conflict") /\ get_by_email(normalized_email(v)) # {}
    BY <1>4, <2>3 DEF register_user
  <2> QED
    BY <1>5, <2>3, <2>4
<1> QED
  BY <1>6, <1>7, <1>8, <1>9 DEF Handler

(* RepliesTrue of one visit.                                               *)
ReplyTrue(v) ==
  /\ call[v] # None /\ call[v].endpoint = "register" /\ reply[v] = "conflict" =>
       cleanup = "done" \/ get_by_email(normalized_email(v)) # {}
  /\ reply[v] = "no_row" => cleanup = "done"

(* A conflict was told while the address had a row, a missing row after    *)
(* rows were deleted.                                                      *)
LEMMA RepliesNext ==
  ASSUME TypeOK, CallsFit, UsersInv, AccountsOfVisits, RepliesTrue, [Next]_vars
  PROVE  RepliesTrue'
<1>1. RowsKept
  BY RowsKeptNext
<1>2. \A e : get_by_email(e) # {} => get_by_email(e)' # {} \/ cleanup' = "done"
  BY <1>1 DEF RowsKept, get_by_email
<1>3. None \notin {"conflict", "no_row"}
  BY CallAssumption DEF Replies
<1>4. ASSUME NEW w \in Visit,
             reply'[w] = reply[w] /\ (call'[w] = call[w] \/ reply[w] = None)
      PROVE  ReplyTrue(w)'
  <2>1. ReplyTrue(w)
    BY DEF RepliesTrue, ReplyTrue
  <2>2. CASE reply[w] = None
    BY <1>3, <1>4, <2>2 DEF ReplyTrue
  <2>3. CASE call'[w] = call[w]
    <3>1. \A e : get_by_email(e) # {} => get_by_email(e)' # {} \/ cleanup' = "done"
      BY <1>2
    <3>2. cleanup = "done" => cleanup' = "done"
      BY <1>1 DEF RowsKept
    <3> QED
      BY <1>4, <2>1, <2>3, <3>1, <3>2 DEF ReplyTrue, normalized_email, get_by_email
  <2> QED
    BY <1>4, <2>2, <2>3
<1>5. ASSUME NEW v \in Visit,
             Arrive(v) \/ Threads(v) \/ OpenSession(v) \/ Bootstrap(v) \/ Handler(v)
      PROVE  \A w \in Visit : ReplyTrue(w)'
  <2>1. ASSUME NEW w \in Visit, w # v
        PROVE  ReplyTrue(w)'
    <3>1. Steps1(v)
      BY <1>5, CallsOfVisits
    <3>2. reply'[w] = reply[w] /\ call'[w] = call[w]
      BY <2>1, <3>1 DEF Steps1
    <3> QED
      BY <1>4, <3>2
  <2>2. reply'[v] \notin {"conflict", "no_row"} => ReplyTrue(v)'
    BY DEF ReplyTrue
  <2>3. CASE reply'[v] = "conflict"
    <3>1. call'[v] = call[v] /\ get_by_email(normalized_email(v)) # {}
      BY <1>5, <2>3, RowsTold
    <3> QED
      BY <1>2, <2>1, <2>3, <3>1 DEF ReplyTrue, normalized_email, get_by_email
  <2>4. CASE reply'[v] = "no_row"
    <3>1. pc[v] = "refresh" /\ users[account[v]] = None
      BY <1>5, <2>4, RowsTold
    <3>2. account[v] # None
      BY <3>1 DEF CallsFit
    <3>3. cleanup = "done"
      BY <3>1, <3>2 DEF AccountsOfVisits
    <3>4. ReplyTrue(v)'
      BY <1>1, <2>4, <3>3 DEF ReplyTrue, RowsKept
    <3> QED
      BY <2>1, <3>4
  <2> QED
    BY <2>1, <2>2, <2>3, <2>4
<1>6. CASE Stop
  <2>1. ASSUME NEW w \in Visit
        PROVE  ReplyTrue(w)'
    <3>1. UNCHANGED call /\ (reply'[w] = reply[w] \/ reply'[w] = "lost")
      BY <1>6 DEF Stop, TypeOK
    <3>2. CASE reply'[w] = reply[w]
      BY <1>4, <3>1, <3>2
    <3>3. CASE reply'[w] = "lost"
      BY <3>3 DEF ReplyTrue
    <3> QED
      BY <3>1, <3>2, <3>3
  <2> QED
    BY <2>1 DEF RepliesTrue, ReplyTrue
<1>7. CASE Start \/ Started \/ Script \/ Tick \/ UNCHANGED vars
  <2>1. UNCHANGED <<call, reply>>
    BY <1>7 DEF Start, Started, Script, SeedLookup, SeedInsert, CleanupRead, CleanupDelete,
       Tick, vars, visit
  <2>2. \A w \in Visit : ReplyTrue(w)'
    BY <1>4, <2>1
  <2> QED
    BY <2>2 DEF RepliesTrue, ReplyTrue
<1> QED
  BY <1>5, <1>6, <1>7, StepKinds DEF RepliesTrue, ReplyTrue

(* On PostgreSQL a token finds the row it was issued for, or none.         *)
LEMMA TokenFinds ==
  ASSUME Dialect = "postgresql", IInv, [Next]_vars, NEW v \in Visit,
         pc[v] = "lookup", pc'[v] # "lookup", call[v].endpoint \in {"me", "assistant"},
         reply'[v] \notin {"unauthenticated", "no_table", "lost"}
  PROVE  /\ users[call[v].token.subject] # None
         /\ users[call[v].token.subject].email = call[v].token.owner
<1>1. TypeOK /\ CallsFit /\ TokensShown /\ IdsNotReused
  BY DEF IInv
<1>2. call[v] # None
  BY <1>1 DEF CallsFit
<1>3. call[v].token \in tokens
  BY <1>1, <1>2 DEF TokensShown
<1>4. ASSUME NEW w \in Visit,
             Arrive(w) \/ Threads(w) \/ OpenSession(w) \/ Bootstrap(w) \/ Handler(w)
      PROVE  w = v /\ Lookup(v)
  <2>1. w = v
    BY <1>1, <1>4, CallsOfVisits DEF Steps1
  <2> QED
    BY <1>4, <2>1 DEF Arrive, Threads, Capture, PopStale, Count, AppendNow, OpenSession,
       Bootstrap, Handler, CreateUser, Refresh, Query
<1>5. ~Stop
  <2> SUFFICES ASSUME Stop
               PROVE  FALSE
    OBVIOUS
  <2>1. v \in InFlight
    BY DEF InFlight
  <2>2. reply'[v] = "lost"
    BY <1>1, <2>1 DEF Stop, TypeOK
  <2> QED
    BY <2>2
<1>6. ~(Start \/ Started \/ Script \/ Tick \/ UNCHANGED vars)
  BY DEF Start, Started, Script, SeedLookup, SeedInsert, CleanupRead, CleanupDelete, Tick, vars,
     visit
<1>7. Lookup(v)
  BY <1>4, <1>5, <1>6, StepKinds
<1>8. ~Respond(v, "no_table") /\ ~Respond(v, "unauthenticated")
  BY <1>1, WentOn
<1>9. users[call[v].token.subject] # None
  BY <1>7, <1>8 DEF Lookup, NoTable, get_current_user
<1> QED
  BY <1>1, <1>3, <1>9 DEF IdsNotReused

(***************************************************************************)
(* The server                                                              *)
(***************************************************************************)

ServerInv == ServerReady /\ TablesBeforeRequests

(* A step of a visit while the server is up.                               *)
LEMMA ServerOfVisits ==
  ASSUME TypeOK, CallsFit, ServerInv, NEW v \in Visit,
         Arrive(v) \/ Threads(v) \/ OpenSession(v) \/ Bootstrap(v) \/ Handler(v)
  PROVE  ServerInv'
<1>1. UNCHANGED <<server, lifespan>> /\ (factory => factory') /\ (tables => tables')
  BY DEF Arrive, Threads, Capture, PopStale, Count, AppendNow, OpenSession, Bootstrap, Handler,
     Lookup, CreateUser, Refresh, Query, process
<1>2. server = "up"
  <2>1. CASE Arrive(v)
    BY <2>1 DEF Arrive
  <2>2. CASE ~Arrive(v)
    <3>1. v \in InFlight
      BY <2>2 DEF InFlight, Threads, Capture, PopStale, Count, AppendNow, OpenSession, Bootstrap,
         Handler, Lookup, CreateUser, Refresh, Query
    <3> QED
      BY <3>1 DEF ServerInv, ServerReady
  <2> QED
    BY <2>1, <2>2
<1>3. \A w \in Visit : w # v => pc'[w] = pc[w] /\ reply'[w] = reply[w]
  BY CallsOfVisits DEF Steps1
<1>4. ASSUME lifespan
      PROVE  pc'[v] # "bootstrap" /\ reply'[v] \notin {"no_table", "no_database"}
  <2>1. tables /\ factory /\ ~Bootstrap(v) /\ ~NoTable(v)
    <3>1. tables /\ factory
      BY <1>2, <1>4 DEF ServerInv, ServerReady
    <3>2. Bootstrap(v) => v \in InFlight /\ pc[v] = "bootstrap"
      BY DEF Bootstrap, InFlight
    <3> QED
      BY <1>4, <3>1, <3>2 DEF ServerInv, ServerReady, NoTable
  <2>2. reply[v] \notin {"no_table", "no_database"} /\ None \notin {"no_table", "no_database"}
    BY <1>4, CallAssumption DEF ServerInv, TablesBeforeRequests, Replies
  <2>3. \A step : Goto(v, step) /\ step # "bootstrap" =>
          pc'[v] # "bootstrap" /\ reply'[v] \notin {"no_table", "no_database"}
    BY <2>2, WentOn
  <2>4. \A answer : Respond(v, answer) /\ answer \notin {"no_table", "no_database"} =>
          pc'[v] # "bootstrap" /\ reply'[v] \notin {"no_table", "no_database"}
    BY WentOn
  <2>5. CASE Arrive(v)
    BY <2>3, <2>5 DEF Arrive
  <2>6. CASE Threads(v)
    <3>1. CASE PopStale(v)
      BY <2>2, <3>1 DEF PopStale, visit
    <3> QED
      BY <2>3, <2>4, <2>6, <3>1 DEF Threads, Capture, Count, AppendNow
  <2>7. CASE OpenSession(v)
    BY <2>1, <2>3, <2>7 DEF OpenSession
  <2>8. CASE Lookup(v)
    <3>1. CASE register_user(v)
      BY <2>3, <2>4, <3>1 DEF register_user
    <3>2. CASE login_user(v)
      BY <2>4, <3>2 DEF login_user
    <3>3. CASE get_current_user(v, call[v].token.subject)
      BY <2>3, <2>4, <3>3 DEF get_current_user, Check
    <3> QED
      BY <2>1, <2>8, <3>1, <3>2, <3>3 DEF Lookup
  <2>9. CASE CreateUser(v) \/ Refresh(v) \/ Query(v)
    BY <2>3, <2>4, <2>9 DEF CreateUser, Refresh, Query
  <2> QED
    BY <2>1, <2>5, <2>6, <2>7, <2>8, <2>9 DEF Handler
<1>5. ServerReady'
  BY <1>1, <1>2, <1>3, <1>4 DEF ServerInv, ServerReady, InFlight
<1>6. TablesBeforeRequests'
  BY <1>1, <1>3, <1>4 DEF ServerInv, TablesBeforeRequests
<1> QED
  BY <1>5, <1>6 DEF ServerInv

LEMMA ServerNext ==
  ASSUME TypeOK, CallsFit, ServerInv, [Next]_vars
  PROVE  ServerInv'
<1>1. CASE Start
  BY <1>1 DEF Start, visit, ServerInv, ServerReady, TablesBeforeRequests, InFlight
<1>2. CASE Started
  BY <1>2 DEF Started, visit, ServerInv, ServerReady, TablesBeforeRequests, InFlight
<1>3. CASE Stop
  BY <1>3 DEF Stop, ServerInv, ServerReady, TablesBeforeRequests, InFlight, TypeOK
<1>4. CASE Script \/ Tick \/ UNCHANGED vars
  <2>1. UNCHANGED <<pc, reply, server, factory, lifespan>> /\ (tables => tables')
    BY <1>4 DEF Script, SeedLookup, SeedInsert, CleanupRead, CleanupDelete, Tick, vars, visit,
       process
  <2> QED
    BY <2>1 DEF ServerInv, ServerReady, TablesBeforeRequests, InFlight
<1> QED
  BY <1>1, <1>2, <1>3, <1>4, StepKinds, ServerOfVisits

(***************************************************************************)
(* The limiters                                                            *)
(***************************************************************************)

(* Time may pass.                                                          *)
LEMMA DequeLater ==
  ASSUME NEW ts \in Seq(Nat), NEW ad \in Seq(Nat), NEW m \in Nat \ {0},
         NEW time \in Nat, NEW later \in Nat, time <= later, Deque(ts, ad, time, m)
  PROVE  Deque(ts, ad, later, m)
<1>1. \A i \in 1..Len(ad) : ad[i] \in Nat
  OBVIOUS
<1>2. Len(ts) \in Nat /\ Len(ad) \in Nat /\ Window \in Nat
  BY LimitAssumption
<1>3. \A i \in 1..Len(ad) : ad[i] <= later
  BY <1>1 DEF Deque
<1>4. \A i \in 1..(Len(ad) - Len(ts)) : ad[i] < later - Window
  BY <1>1, <1>2 DEF Deque
<1> QED
  BY <1>3, <1>4 DEF Deque

(* Stale timestamps may be dropped.                                        *)
LEMMA DequeDrops ==
  ASSUME NEW ts \in Seq(Nat), NEW ad \in Seq(Nat), NEW m \in Nat \ {0}, NEW time \in Nat,
         Deque(ts, ad, time, m), NEW left \in Seq(Nat), NEW n \in 0..Len(ts),
         Len(left) = Len(ts) - n, \A i \in 1..Len(left) : left[i] = ts[n + i],
         \A i \in 1..n : ts[i] < time - Window
  PROVE  Deque(left, ad, time, m)
<1> DEFINE d == Len(ad) - Len(ts)
           e == Len(ad) - Len(left)
<1>1. Len(ts) \in Nat /\ Len(ad) \in Nat /\ Len(left) \in Nat /\ n \in Nat /\ n <= Len(ts)
  OBVIOUS
<1>2. d \in Nat /\ e \in Nat /\ e = d + n /\ Len(left) <= Len(ad)
  BY <1>1 DEF Deque
<1>3. \A i \in 1..Len(ts) : ts[i] = ad[d + i]
  BY DEF Deque
<1>4. \A i \in 1..Len(left) : left[i] = ad[e + i]
  <2> SUFFICES ASSUME NEW i \in 1..Len(left)
               PROVE  left[i] = ad[e + i]
    OBVIOUS
  <2>1. n + i \in 1..Len(ts) /\ d + (n + i) = e + i
    BY <1>1, <1>2
  <2> QED
    BY <1>3, <2>1
<1>5. \A i \in 1..e : ad[i] < time - Window
  <2> SUFFICES ASSUME NEW i \in 1..e
               PROVE  ad[i] < time - Window
    OBVIOUS
  <2>1. CASE i \in 1..d
    BY <2>1 DEF Deque
  <2>2. CASE i \notin 1..d
    <3>1. i - d \in 1..n /\ i - d \in 1..Len(ts) /\ d + (i - d) = i
      BY <1>1, <1>2, <2>2
    <3> QED
      BY <1>3, <3>1
  <2> QED
    BY <2>1, <2>2
<1> QED
  BY <1>2, <1>4, <1>5 DEF Deque

(* A deque that is not full admits.                                        *)
LEMMA DequeAdmits ==
  ASSUME NEW ts \in Seq(Nat), NEW ad \in Seq(Nat), NEW m \in Nat \ {0}, NEW time \in Nat,
         Deque(ts, ad, time, m), Len(ts) < m
  PROVE  Deque(Append(ts, time), Append(ad, time), time, m)
<1> DEFINE tn == Append(ts, time)
           an == Append(ad, time)
<1>1. Len(ts) \in Nat /\ Len(ad) \in Nat /\ Window \in Nat /\ Len(ts) <= Len(ad)
  BY LimitAssumption DEF Deque
<1>2. /\ Len(tn) = Len(ts) + 1 /\ tn[Len(ts) + 1] = time
      /\ \A i \in 1..Len(ts) : tn[i] = ts[i]
  BY AppendProperties
<1>3. /\ Len(an) = Len(ad) + 1 /\ an[Len(ad) + 1] = time
      /\ \A i \in 1..Len(ad) : an[i] = ad[i]
  BY AppendProperties
<1>4. \A i \in 1..Len(ad) : ad[i] \in Nat /\ ad[i] <= time
  BY DEF Deque
<1> HIDE DEF tn, an
<1>5. Len(tn) <= Len(an) /\ Len(an) - Len(tn) = Len(ad) - Len(ts)
  BY <1>1, <1>2, <1>3
<1>6. \A i \in 1..Len(tn) : tn[i] = an[(Len(an) - Len(tn)) + i]
  <2> SUFFICES ASSUME NEW i \in 1..Len(tn)
               PROVE  tn[i] = an[(Len(ad) - Len(ts)) + i]
    BY <1>5
  <2>1. CASE i = Len(ts) + 1
    <3>1. (Len(ad) - Len(ts)) + i = Len(ad) + 1
      BY <1>1, <2>1
    <3> QED
      BY <1>2, <1>3, <2>1, <3>1
  <2>2. CASE i # Len(ts) + 1
    <3>1. i \in 1..Len(ts) /\ (Len(ad) - Len(ts)) + i \in 1..Len(ad)
      BY <1>1, <1>2, <2>2
    <3> QED
      BY <1>2, <1>3, <3>1 DEF Deque
  <2> QED
    BY <2>1, <2>2
<1>7. \A i \in 1..Len(an) : an[i] \in Nat /\ an[i] <= time
  BY <1>1, <1>3, <1>4
<1>8. \A i, j \in 1..Len(an) : i <= j => an[i] <= an[j]
  <2> SUFFICES ASSUME NEW i \in 1..Len(an), NEW j \in 1..Len(an), i <= j
               PROVE  an[i] <= an[j]
    OBVIOUS
  <2>1. CASE j = Len(ad) + 1
    BY <1>3, <1>7, <2>1
  <2>2. CASE j # Len(ad) + 1
    <3>1. i \in 1..Len(ad) /\ j \in 1..Len(ad)
      BY <1>1, <1>3, <2>2
    <3> QED
      BY <1>3, <3>1 DEF Deque
  <2> QED
    BY <2>1, <2>2
<1>9. \A i \in 1..(Len(an) - Len(tn)) : an[i] < time - Window
  <2> SUFFICES ASSUME NEW i \in 1..(Len(ad) - Len(ts))
               PROVE  an[i] < time - Window
    BY <1>5
  <2>1. i \in 1..Len(ad)
    BY <1>1
  <2> QED
    BY <1>3, <2>1 DEF Deque
<1>10. \A i \in 1..(Len(an) - m) : an[i + m] - an[i] > Window
  <2> SUFFICES ASSUME NEW i \in 1..(Len(an) - m)
               PROVE  an[i + m] - an[i] > Window
    OBVIOUS
  <2>1. i \in 1..Len(ad) /\ an[i] = ad[i] /\ ad[i] \in Nat
    BY <1>1, <1>3, <1>4
  <2>2. CASE i + m = Len(ad) + 1
    <3>1. i \in 1..(Len(ad) - Len(ts))
      BY <1>1, <2>2
    <3>2. ad[i] < time - Window
      BY <3>1 DEF Deque
    <3> QED
      BY <1>1, <1>3, <2>1, <2>2, <3>2
  <2>3. CASE i + m # Len(ad) + 1
    <3>1. i + m \in 1..Len(ad) /\ i \in 1..(Len(ad) - m)
      <4>1. i \in Nat /\ i >= 1 /\ i + m <= Len(ad) + 1 /\ m \in Nat
        BY <1>1, <1>3
      <4>2. i + m <= Len(ad)
        BY <1>1, <2>3, <4>1
      <4> QED
        BY <1>1, <4>1, <4>2
    <3>2. ad[i + m] - ad[i] > Window
      BY <3>1 DEF Deque
    <3> QED
      BY <1>3, <2>1, <3>1, <3>2
  <2> QED
    BY <2>2, <2>3
<1> QED
  BY <1>5, <1>6, <1>7, <1>8, <1>9, <1>10 DEF Deque, tn, an

(* A full deque without a stale head: the last m admissions are recent.    *)
LEMMA DequeFull ==
  ASSUME NEW ts \in Seq(Nat), NEW ad \in Seq(Nat), NEW m \in Nat \ {0}, NEW time \in Nat,
         Deque(ts, ad, time, m), Len(ts) >= m, ts[1] >= time - Window
  PROVE  Len(ad) - m >= 0 /\ ad[(Len(ad) - m) + 1] >= time - Window
<1> DEFINE d == Len(ad) - Len(ts)
           e == Len(ad) - m
<1>1. Len(ts) \in Nat /\ Len(ad) \in Nat /\ Window \in Nat /\ Len(ts) <= Len(ad)
  BY LimitAssumption DEF Deque
<1>2. d \in Nat /\ d + 1 \in 1..Len(ad) /\ e + 1 \in 1..Len(ad)
      /\ d + 1 <= e + 1
  BY <1>1
<1>3. ts[1] = ad[d + 1]
  BY <1>1 DEF Deque
<1>4. ad[d + 1] <= ad[e + 1]
  BY <1>2 DEF Deque
<1>5. \A i \in 1..Len(ad) : ad[i] \in Nat
  OBVIOUS
<1>6. ad[d + 1] \in Nat /\ ad[e + 1] \in Nat
  BY <1>2, <1>5
<1>7. ad[e + 1] >= time - Window
  <2>1. ad[d + 1] >= time - Window
    BY <1>3
  <2> QED
    BY <1>1, <1>4, <1>6, <2>1
<1> QED
  BY <1>1, <1>7

(* What a key's parts are.                                                 *)
LEMMA KeyTypes ==
  ASSUME TypeOK, NEW k \in Key
  PROVE  /\ timestamps[k] \in Seq(Nat) /\ admitted[k] \in Seq(Nat)
         /\ MaxRequests[k[1]] \in Nat \ {0} /\ clock \in Nat /\ Window \in Nat
         /\ \A v \in Visit : now[v] \in Nat
<1>1. k[1] \in Limiter
  BY DEF Key, Limiter
<1> QED
  BY <1>1, LimitAssumption DEF TypeOK

(* A step that leaves a key's deque alone, lets time pass, and lets no     *)
(* thread into the check of that key.                                      *)
LEMMA KeyAlone ==
  ASSUME TypeOK, TypeOK', NEW k \in Key, KeyInv(k), clock <= clock',
         timestamps'[k] = timestamps[k], admitted'[k] = admitted[k],
         overlapped'[k] = overlapped[k],
         \A v \in Visit : v \in Checking(k)' =>
           /\ v \in Checking(k) /\ now'[v] = now[v]
           /\ pc'[v] = "append" =>
                pc[v] = "append" \/ Len(timestamps[k]) < MaxRequests[k[1]]
  PROVE  KeyInv(k)'
<1> SUFFICES ASSUME ~overlapped[k]
             PROVE  DequeAt(k, clock)' /\ OneChecking(k)'
  BY DEF KeyInv
<1>1. DequeAt(k, clock) /\ OneChecking(k)
  BY DEF KeyInv
<1>2. clock \in Nat /\ clock' \in Nat
  BY DEF TypeOK
<1>3. DequeAt(k, clock)'
  BY <1>1, <1>2, KeyTypes, DequeLater DEF DequeAt
<1>4. Checking(k)' \subseteq Visit
  BY DEF Checking
<1>5. \A v, w \in Checking(k)' : v = w
  BY <1>1, <1>4 DEF OneChecking
<1>6. ASSUME NEW v \in Checking(k)'
      PROVE  /\ now'[v] <= clock' /\ DequeAt(k, now[v])'
             /\ pc'[v] = "append" => Len(timestamps'[k]) < MaxRequests[k[1]]
  <2>1. v \in Visit /\ v \in Checking(k) /\ now'[v] = now[v] /\ now[v] \in Nat
    BY <1>4, KeyTypes
  <2>2. now[v] <= clock /\ DequeAt(k, now[v])
    BY <1>1, <2>1 DEF OneChecking
  <2>3. now'[v] <= clock'
    BY <1>2, <2>1, <2>2
  <2>4. DequeAt(k, now[v])'
    BY <2>1, <2>2 DEF DequeAt
  <2>5. pc'[v] = "append" => Len(timestamps'[k]) < MaxRequests[k[1]]
    BY <1>1, <2>1 DEF OneChecking
  <2> QED
    BY <2>3, <2>4, <2>5
<1> QED
  BY <1>3, <1>5, <1>6 DEF OneChecking

(* Nobody is in the check of a key of the assistant, which is one step.    *)
LEMMA NobodyChecking ==
  ASSUME NEW k \in Key, NEW v \in Checking(k), TypeOK, CallsFit
  PROVE  \A i \in UserId : k # <<"assistant", i>>
BY KeyOfVisit DEF Checking, CallsFit

(* A step of visit w that leaves the limiters' data of key k alone.        *)
LEMMA VisitElsewhere ==
  ASSUME TypeOK, TypeOK', NEW w \in Visit, NEW k \in Key, KeyInv(k), Steps1(w), clock' = clock,
         timestamps'[k] = timestamps[k], admitted'[k] = admitted[k],
         overlapped'[k] = overlapped[k], \A v \in Visit : v # w => now'[v] = now[v],
         w \notin Checking(k)'
  PROVE  KeyInv(k)'
<1>1. clock <= clock'
  BY DEF TypeOK
<1>2. ASSUME NEW v \in Visit, v \in Checking(k)'
      PROVE  v \in Checking(k) /\ now'[v] = now[v] /\ pc'[v] = pc[v]
  BY <1>2 DEF Checking, KeyOf, Steps1
<1> QED
  BY <1>1, <1>2, KeyAlone

(* A thread enters a check: alone, or the key is marked as overlapped.     *)
LEMMA KeyCaptured ==
  ASSUME TypeOK, TypeOK', CallsFit, NEW v \in Visit, Capture(v), NEW k \in Key, KeyInv(k)
  PROVE  KeyInv(k)'
<1>1. Steps1(v) /\ UNCHANGED <<call, clock, timestamps, admitted>>
  BY CallsOfVisits DEF Threads, Capture
<1>2. KeyOf(v) \in Key
  BY KeyOfVisit DEF Capture, CallsFit
<1>3. pc'[v] = "purge" /\ now'[v] = clock /\ \A w \in Visit : w # v => now'[w] = now[w]
  BY WentOn DEF Capture, TypeOK
<1>4. CASE k # KeyOf(v)
  <2>1. overlapped'[k] = overlapped[k]
    BY <1>2, <1>4 DEF Capture, TypeOK
  <2>2. v \notin Checking(k)'
    BY <1>1, <1>4 DEF Checking, KeyOf
  <2> QED
    BY <1>1, <1>3, <2>1, <2>2, VisitElsewhere
<1>5. CASE k = KeyOf(v)
  <2> SUFFICES ASSUME ~overlapped'[k]
               PROVE  DequeAt(k, clock)' /\ OneChecking(k)'
    BY DEF KeyInv
  <2>1. overlapped'[k] = (overlapped[k] \/ Checking(k) # {})
    BY <1>2, <1>5 DEF Capture, TypeOK
  <2>2. Checking(k) = {} /\ DequeAt(k, clock)
    BY <2>1 DEF KeyInv
  <2>3. DequeAt(k, clock)'
    BY <1>1, <2>2 DEF DequeAt
  <2>4. \A w \in Checking(k)' : w = v
    BY <1>1, <2>2 DEF Checking, KeyOf, Steps1
  <2>5. now'[v] <= clock' /\ DequeAt(k, now[v])'
    BY <1>1, <1>3, <2>3 DEF DequeAt, TypeOK
  <2> QED
    BY <1>3, <2>3, <2>4, <2>5 DEF OneChecking
<1> QED
  BY <1>4, <1>5

(* It drops what is stale at its `now`.                                    *)
LEMMA KeyPopped ==
  ASSUME TypeOK, TypeOK', CallsFit, NEW v \in Visit, PopStale(v), NEW k \in Key, KeyInv(k)
  PROVE  KeyInv(k)'
<1>1. Steps1(v) /\ UNCHANGED <<pc, call, clock, now, admitted, overlapped>> /\ pc[v] = "purge"
  BY CallsOfVisits DEF Threads, PopStale, visit
<1>2. KeyOf(v) \in Key
  BY KeyOfVisit DEF PopStale, CallsFit
<1>3. CASE k # KeyOf(v)
  <2>1. timestamps'[k] = timestamps[k]
    BY <1>2, <1>3 DEF PopStale, TypeOK
  <2>2. v \notin Checking(k)'
    BY <1>1, <1>3 DEF Checking, KeyOf
  <2> QED
    BY <1>1, <2>1, <2>2, VisitElsewhere
<1>4. CASE k = KeyOf(v)
  <2> SUFFICES ASSUME ~overlapped[k]
               PROVE  DequeAt(k, clock)' /\ OneChecking(k)'
    BY <1>1 DEF KeyInv
  <2> DEFINE ts == timestamps[k]
  <2>1. /\ ts \in Seq(Nat) /\ admitted[k] \in Seq(Nat) /\ MaxRequests[k[1]] \in Nat \ {0}
        /\ clock \in Nat /\ now[v] \in Nat
    BY KeyTypes
  <2>2. ts # <<>> /\ Head(ts) < now[v] - Window /\ timestamps'[k] = Tail(ts)
    BY <1>2, <1>4 DEF PopStale, Stale, TypeOK
  <2>3. v \in Checking(k) /\ OneChecking(k)
    BY <1>1, <1>4 DEF Checking, KeyInv
  <2>4. now[v] <= clock /\ DequeAt(k, now[v]) /\ \A w \in Checking(k) : w = v
    BY <2>3 DEF OneChecking
  <2>5. /\ Tail(ts) \in Seq(Nat) /\ Len(Tail(ts)) = Len(ts) - 1 /\ Head(ts) = ts[1]
        /\ \A i \in 1..Len(Tail(ts)) : Tail(ts)[i] = ts[i + 1]
    BY <2>1, <2>2, HeadTailProperties
  <2>6. 1 \in 0..Len(ts)
    BY <2>1, <2>2
  <2>7. \A i \in 1..1 : ts[i] < now[v] - Window
    BY <2>2, <2>5
  <2>8. \A i \in 1..Len(Tail(ts)) : Tail(ts)[i] = ts[1 + i]
    BY <2>5
  <2>9. Deque(ts, admitted[k], now[v], MaxRequests[k[1]])
    BY <2>4 DEF DequeAt
  <2>10. Deque(Tail(ts), admitted[k], now[v], MaxRequests[k[1]])
    BY <2>1, <2>5, <2>6, <2>7, <2>8, <2>9, DequeDrops
  <2>11. DequeAt(k, now[v])'
    BY <1>1, <2>2, <2>10 DEF DequeAt
  <2>12. DequeAt(k, clock)'
    <3>1. Deque(Tail(ts), admitted[k], clock, MaxRequests[k[1]])
      BY <2>1, <2>4, <2>5, <2>10, DequeLater
    <3> QED
      BY <1>1, <2>2, <3>1 DEF DequeAt
  <2>13. Checking(k)' = Checking(k)
    BY <1>1 DEF Checking, KeyOf
  <2> QED
    BY <1>1, <2>3, <2>4, <2>11, <2>12, <2>13 DEF OneChecking
<1> QED
  BY <1>3, <1>4

(* It counts, and leaves or goes on with room for its own.                 *)
LEMMA KeyCounted ==
  ASSUME TypeOK, TypeOK', CallsFit, NEW v \in Visit, Count(v), NEW k \in Key, KeyInv(k)
  PROVE  KeyInv(k)'
<1>1. Steps1(v) /\ UNCHANGED <<call, clock, timestamps, admitted, overlapped>> /\ pc[v] = "purge"
  BY CallsOfVisits DEF Threads, Count
<1>2. \A w \in Visit : w # v => now'[w] = now[w]
  BY DEF Count, Forget, TypeOK
<1>3. KeyOf(v) \in Key /\ clock <= clock'
  BY <1>1, KeyOfVisit DEF CallsFit, TypeOK
<1>4. CASE Respond(v, "limited")
  <2>1. pc'[v] = "done"
    BY <1>4, WentOn
  <2> QED
    BY <1>1, <1>2, <2>1, VisitElsewhere DEF Checking
<1>5. CASE ~Full(KeyOf(v), timestamps[KeyOf(v)]) /\ UNCHANGED now
  <2>1. Len(timestamps[KeyOf(v)]) < MaxRequests[KeyOf(v)[1]]
    <3>1. timestamps[KeyOf(v)] \in Seq(Nat) /\ MaxRequests[KeyOf(v)[1]] \in Nat
      BY <1>3, KeyTypes
    <3> QED
      BY <1>5, <3>1 DEF Full
  <2>2. \A w \in Visit : w \in Checking(k)' =>
          /\ w \in Checking(k)
          /\ w = v => k = KeyOf(v)
          /\ w # v => pc'[w] = pc[w]
    BY <1>1 DEF Checking, KeyOf, Steps1
  <2> QED
    BY <1>1, <1>3, <1>5, <2>1, <2>2, KeyAlone
<1> QED
  BY <1>4, <1>5 DEF Count

(* It appends its `now` and is out of the check.                           *)
LEMMA KeyAppended ==
  ASSUME TypeOK, TypeOK', CallsFit, NEW v \in Visit, AppendNow(v), NEW k \in Key, KeyInv(k)
  PROVE  KeyInv(k)'
<1>1. Steps1(v) /\ UNCHANGED <<call, clock, overlapped>> /\ pc[v] = "append"
  BY CallsOfVisits DEF Threads, AppendNow
<1>2. KeyOf(v) \in Key
  BY <1>1, KeyOfVisit DEF CallsFit
<1>3. pc'[v] = "session" /\ \A w \in Visit : w # v => now'[w] = now[w]
  BY WentOn DEF AppendNow, Forget, TypeOK
<1>4. CASE k # KeyOf(v)
  <2>1. timestamps'[k] = timestamps[k] /\ admitted'[k] = admitted[k]
    BY <1>2, <1>4 DEF AppendNow, TypeOK
  <2>2. v \notin Checking(k)'
    BY <1>3 DEF Checking
  <2> QED
    BY <1>1, <1>3, <2>1, <2>2, VisitElsewhere
<1>5. CASE k = KeyOf(v)
  <2> SUFFICES ASSUME ~overlapped[k]
               PROVE  DequeAt(k, clock)' /\ OneChecking(k)'
    BY <1>1 DEF KeyInv
  <2> DEFINE ts == timestamps[k]
             ad == admitted[k]
  <2>1. /\ ts \in Seq(Nat) /\ ad \in Seq(Nat) /\ MaxRequests[k[1]] \in Nat \ {0}
        /\ clock \in Nat /\ now[v] \in Nat
    BY KeyTypes
  <2>2. timestamps'[k] = Append(ts, now[v]) /\ admitted'[k] = Append(ad, now[v])
    BY <1>2, <1>5 DEF AppendNow, TypeOK
  <2>3. v \in Checking(k) /\ OneChecking(k)
    BY <1>1, <1>5 DEF Checking, KeyInv
  <2>4. /\ now[v] <= clock /\ DequeAt(k, now[v]) /\ \A w \in Checking(k) : w = v
        /\ Len(ts) < MaxRequests[k[1]]
    BY <1>1, <2>3 DEF OneChecking
  <2>5. Deque(Append(ts, now[v]), Append(ad, now[v]), now[v], MaxRequests[k[1]])
    BY <2>1, <2>4, DequeAdmits DEF DequeAt
  <2>6. Append(ts, now[v]) \in Seq(Nat) /\ Append(ad, now[v]) \in Seq(Nat)
    BY <2>1
  <2>7. Deque(Append(ts, now[v]), Append(ad, now[v]), clock, MaxRequests[k[1]])
    BY <2>1, <2>4, <2>5, <2>6, DequeLater
  <2>8. DequeAt(k, clock)'
    BY <1>1, <2>2, <2>7 DEF DequeAt
  <2>9. Checking(k)' = {}
    BY <1>1, <1>3, <2>4 DEF Checking, KeyOf, Steps1
  <2> QED
    BY <2>8, <2>9 DEF OneChecking
<1> QED
  BY <1>4, <1>5

(* The check on the event loop, of the assistant's key kk.                 *)
LEMMA KeyChecked ==
  ASSUME TypeOK, TypeOK', CallsFit, NEW v \in Visit, NEW i \in UserId, Steps1(v),
         UNCHANGED call, pc[v] = "lookup", Check(v, <<"assistant", i>>),
         NEW k \in Key, KeyInv(k)
  PROVE  KeyInv(k)'
<1> DEFINE kk == <<"assistant", i>>
<1>1. UNCHANGED <<clock, now, overlapped>> /\ kk \in Key
  BY DEF Check, Key
<1>2. pc'[v] \in {"done", "query"}
  BY WentOn DEF Check
<1>3. v \notin Checking(k)'
  BY <1>2 DEF Checking
<1>4. CASE k # kk
  <2>1. timestamps'[k] = timestamps[k] /\ admitted'[k] = admitted[k]
    BY <1>1, <1>4 DEF Check, TypeOK
  <2> QED
    BY <1>1, <1>3, <2>1, VisitElsewhere
<1>5. CASE k = kk
  <2> SUFFICES ASSUME ~overlapped[k]
               PROVE  DequeAt(k, clock)' /\ OneChecking(k)'
    BY <1>1 DEF KeyInv
  <2> DEFINE ts == timestamps[k]
             ad == admitted[k]
             left == Purged(ts, clock - Window)
             m == MaxRequests[k[1]]
  <2>1. ts \in Seq(Nat) /\ ad \in Seq(Nat) /\ m \in Nat \ {0} /\ clock \in Nat /\ Window \in Nat
    BY KeyTypes
  <2>2. Deque(ts, ad, clock, m)
    BY DEF KeyInv, DequeAt
  <2>3. clock - Window \in Int
    BY <2>1
  <2>4. left \in Seq(Nat)
    BY <2>1, <2>3, PurgedSuffix
  <2>5. PICK n \in 0..Len(ts) :
          /\ Len(left) = Len(ts) - n
          /\ \A j \in 1..Len(left) : left[j] = ts[n + j]
          /\ \A j \in 1..n : ts[j] < clock - Window
    BY <2>1, <2>3, PurgedSuffix
  <2> HIDE DEF left
  <2>6. Deque(left, ad, clock, m)
    BY <2>1, <2>2, <2>4, <2>5, DequeDrops
  <2>7. DequeAt(k, clock)'
    <3>1. CASE Full(k, left) /\ timestamps' = [timestamps EXCEPT ![k] = left] /\ UNCHANGED admitted
      <4>1. timestamps'[k] = left /\ admitted'[k] = ad
        BY <3>1 DEF TypeOK
      <4> QED
        BY <1>1, <2>6, <4>1 DEF DequeAt
    <3>2. CASE /\ ~Full(k, left)
               /\ timestamps' = [timestamps EXCEPT ![k] = Append(left, clock)]
               /\ admitted' = [admitted EXCEPT ![k] = Append(@, clock)]
      <4>1. timestamps'[k] = Append(left, clock) /\ admitted'[k] = Append(ad, clock)
        BY <3>2 DEF TypeOK
      <4>2. Len(left) < m
        BY <2>1, <2>4, <3>2 DEF Full
      <4>3. Deque(Append(left, clock), Append(ad, clock), clock, m)
        BY <2>1, <2>4, <2>6, <4>2, DequeAdmits
      <4> QED
        BY <1>1, <4>1, <4>3 DEF DequeAt
    <3> QED
      BY <1>5, <3>1, <3>2 DEF Check, left
  <2>8. Checking(k)' = {}
    <3> SUFFICES ASSUME NEW w \in Visit, w \in Checking(k)'
                 PROVE  FALSE
      BY DEF Checking
    <3>1. w \in Checking(k)
      BY <1>3 DEF Checking, KeyOf, Steps1
    <3> QED
      BY <1>5, <3>1, NobodyChecking
  <2> QED
    BY <2>7, <2>8 DEF OneChecking
<1> QED
  BY <1>4, <1>5

(* What the first statement does to the limiters.                          *)
LEMMA LookupChecks ==
  ASSUME TypeOK, CallsFit, NEW v \in Visit, Lookup(v)
  PROVE  /\ pc[v] = "lookup" /\ pc'[v] \notin {"purge", "append"} /\ UNCHANGED call
         /\ \/ UNCHANGED limits /\ (reply'[v] = "limited" => reply[v] = "limited")
            \/ /\ call[v].endpoint = "assistant" /\ call[v].token.subject \in UserId
               /\ Check(v, <<"assistant", call[v].token.subject>>)
<1>1. call[v] \in Call /\ pc[v] = "lookup" /\ UNCHANGED call
  BY DEF Lookup, CallsFit, TypeOK
<1>2. ASSUME \/ Goto(v, "create")
             \/ \E answer \in Replies \ {"limited"} : Respond(v, answer)
      PROVE  pc'[v] \notin {"purge", "append"} /\ (reply'[v] = "limited" => reply[v] = "limited")
  BY <1>2, WentOn
<1>3. CASE NoTable(v) \/ (register_user(v) /\ UNCHANGED limits) \/ (login_user(v) /\ UNCHANGED limits)
  <2>1. UNCHANGED limits
    BY <1>3 DEF NoTable
  <2>2. \/ Goto(v, "create")
        \/ \E answer \in Replies \ {"limited"} : Respond(v, answer)
    BY <1>3 DEF NoTable, register_user, login_user, Replies
  <2> QED
    BY <1>1, <1>2, <2>1, <2>2
<1>4. CASE call[v].endpoint \notin {"register", "login"}
           /\ get_current_user(v, call[v].token.subject)
  <2>1. call[v].endpoint \in {"me", "assistant"} /\ call[v].token.subject \in UserId
    BY <1>1, <1>4, CallFacts DEF Token
  <2>2. CASE UNCHANGED limits /\ \E answer \in Replies \ {"limited"} : Respond(v, answer)
    BY <1>1, <1>2, <2>2
  <2>3. CASE call[v].endpoint = "assistant" /\ Check(v, <<"assistant", call[v].token.subject>>)
    <3>1. pc'[v] \in {"done", "query"}
      BY <2>3, WentOn DEF Check
    <3> QED
      BY <1>1, <2>1, <2>3, <3>1
  <2> QED
    BY <1>4, <2>1, <2>2, <2>3 DEF get_current_user, Replies
<1> QED
  BY <1>3, <1>4 DEF Lookup

(* Every step of a visit keeps every key's deque in order.                 *)
LEMMA KeysOfVisits ==
  ASSUME TypeOK, TypeOK', CallsFit, NEW v \in Visit,
         Arrive(v) \/ Threads(v) \/ OpenSession(v) \/ Bootstrap(v) \/ Handler(v),
         NEW k \in Key, KeyInv(k)
  PROVE  KeyInv(k)'
<1>1. Steps1(v)
  BY CallsOfVisits
<1>2. ASSUME UNCHANGED limits, pc'[v] \notin {"purge", "append"}
      PROVE  KeyInv(k)'
  <2>1. v \notin Checking(k)'
    BY <1>2 DEF Checking
  <2> QED
    BY <1>1, <1>2, <2>1, VisitElsewhere DEF limits
<1>3. CASE Arrive(v)
  <2>1. pc'[v] \in {"limit", "session"}
    BY <1>3, WentOn DEF Arrive
  <2> QED
    BY <1>2, <1>3, <2>1 DEF Arrive
<1>4. CASE OpenSession(v) \/ Bootstrap(v) \/ CreateUser(v) \/ Refresh(v) \/ Query(v)
  <2>1. pc'[v] \notin {"purge", "append"}
    BY <1>4, WentOn DEF OpenSession, Bootstrap, CreateUser, Refresh, Query
  <2> QED
    BY <1>2, <1>4, <2>1 DEF OpenSession, Bootstrap, CreateUser, Refresh, Query
<1>5. CASE Lookup(v)
  BY <1>1, <1>2, <1>5, LookupChecks, KeyChecked
<1> QED
  BY <1>3, <1>4, <1>5, KeyCaptured, KeyPopped, KeyCounted, KeyAppended DEF Threads, Handler

(* The server forgets everything when it stops.                            *)
LEMMA KeysStopped ==
  ASSUME TypeOK, Stop, NEW k \in Key
  PROVE  KeyInv(k)'
<1>1. timestamps'[k] = <<>> /\ admitted'[k] = <<>>
  BY DEF Stop
<1>2. Checking(k)' = {}
  BY DEF Stop, Checking, InFlight, TypeOK
<1>3. MaxRequests[k[1]] \in Nat \ {0} /\ Len(<<>>) = 0
  BY KeyTypes
<1>4. \A time : Deque(<<>>, <<>>, time, MaxRequests[k[1]])
  BY <1>3 DEF Deque
<1> QED
  BY <1>1, <1>2, <1>4 DEF KeyInv, OneChecking, DequeAt

LEMMA LimitNext ==
  ASSUME TypeOK, TypeOK', CallsFit, LimitInv, [Next]_vars
  PROVE  LimitInv'
<1>1. ASSUME NEW k \in Key
      PROVE  KeyInv(k)'
  <2>1. KeyInv(k)
    BY DEF LimitInv
  <2>2. CASE Start \/ Started \/ Script \/ Tick \/ UNCHANGED vars
    <3>1. UNCHANGED <<pc, call, timestamps, now, admitted, overlapped>> /\ clock <= clock'
      BY <2>2 DEF Start, Started, Script, SeedLookup, SeedInsert, CleanupRead, CleanupDelete,
         Tick, vars, visit, limits, TypeOK
    <3>2. \A v \in Visit : v \in Checking(k)' => v \in Checking(k)
      BY <3>1 DEF Checking, KeyOf
    <3> QED
      BY <2>1, <3>1, <3>2, KeyAlone
  <2> QED
    BY <2>1, <2>2, StepKinds, KeysOfVisits, KeysStopped
<1>2. ASSUME NEW i \in UserId
      PROVE  ~overlapped'[<<"assistant", i>>]
  <2> DEFINE kk == <<"assistant", i>>
  <2>1. kk \in Key /\ ~overlapped[kk]
    BY DEF LimitInv, Key
  <2>2. ASSUME NEW v \in Visit, Capture(v)
        PROVE  ~overlapped'[kk]
    <3>1. KeyOf(v) \in Key /\ KeyOf(v) # kk
      BY <2>2, KeyOfVisit DEF Capture, CallsFit
    <3> QED
      BY <2>1, <2>2, <3>1 DEF Capture, TypeOK
  <2>3. CASE Stop
    BY <2>1, <2>3 DEF Stop
  <2>4. UNCHANGED limits => ~overlapped'[kk]
    BY <2>1 DEF limits
  <2>5. ASSUME NEW v \in Visit, Threads(v) \/ Lookup(v)
        PROVE  ~overlapped'[kk]
    BY <2>1, <2>2, <2>4, <2>5, LookupChecks DEF Threads, PopStale, Count, AppendNow, Check
  <2> QED
    BY <2>1, <2>3, <2>4, <2>5, StepKinds DEF Arrive, OpenSession, Bootstrap, Handler,
       CreateUser, Refresh, Query, Start, Started, Script, SeedLookup, SeedInsert, CleanupRead,
       CleanupDelete, Tick, vars
<1> QED
  BY <1>1, <1>2 DEF LimitInv

(* Who is told that there were too many requests, and at which step.       *)
LEMMA LimitedTold ==
  ASSUME TypeOK, CallsFit, [Next]_vars, NEW v \in Visit, pc[v] # "done", reply'[v] = "limited"
  PROVE  \/ Count(v) /\ Full(KeyOf(v), timestamps[KeyOf(v)])
         \/ /\ call[v].endpoint = "assistant" /\ call[v].token.subject \in UserId
            /\ Check(v, <<"assistant", call[v].token.subject>>) /\ Respond(v, "limited")
<1>1. reply[v] = None /\ None # "limited"
  BY CallAssumption DEF CallsFit, Replies
<1>2. ~UNCHANGED reply /\ (\A step : ~Goto(v, step))
      /\ (\A answer : Respond(v, answer) => answer = "limited")
  BY <1>1, WentOn DEF Goto
<1>3. ASSUME NEW w \in Visit,
             Arrive(w) \/ Threads(w) \/ OpenSession(w) \/ Bootstrap(w) \/ Handler(w)
      PROVE  w = v
  BY <1>1, <1>3, CallsOfVisits DEF Steps1
<1>4. ~(Start \/ Started \/ Script \/ Tick \/ UNCHANGED vars)
  BY <1>2 DEF Start, Started, Script, SeedLookup, SeedInsert, CleanupRead, CleanupDelete, Tick,
     vars, visit
<1>5. ~Stop
  BY <1>1 DEF Stop
<1>6. ~(Arrive(v) \/ OpenSession(v) \/ Bootstrap(v) \/ CreateUser(v) \/ Refresh(v) \/ Query(v))
  <2>1. ~Respond(v, "no_database") /\ ~Respond(v, "conflict") /\ ~Respond(v, "no_row")
        /\ ~Respond(v, "ok") /\ ~Respond(v, "unavailable")
    BY <1>2
  <2> QED
    BY <1>2, <2>1 DEF Arrive, OpenSession, Bootstrap, CreateUser, Refresh, Query
<1>7. CASE Threads(v)
  BY <1>2, <1>7 DEF Threads, Capture, PopStale, Count, AppendNow, visit
<1>8. CASE Lookup(v)
  BY <1>1, <1>2, <1>8, LookupChecks DEF Check
<1> QED
  BY <1>3, <1>4, <1>5, <1>6, <1>7, <1>8, StepKinds DEF Handler

(* Whoever is told so was refused by a full deque.                         *)
LEMMA RefusedNext ==
  ASSUME TypeOK, CallsFit, LimitInv, [Next]_vars, NEW v \in Visit,
         pc[v] # "done", reply'[v] = "limited", ~overlapped[CheckedKey(v)]
  PROVE  LET k == CheckedKey(v)
             n == Len(admitted[k]) - MaxRequests[k[1]]
         IN  n >= 0 /\ admitted[k][n + 1] >= CheckedAt(v) - Window
<1> DEFINE k == CheckedKey(v)
           ts == timestamps[k]
           ad == admitted[k]
           m == MaxRequests[k[1]]
<1>1. CASE Count(v) /\ Full(KeyOf(v), timestamps[KeyOf(v)])
  <2>1. pc[v] = "purge" /\ call[v] # None /\ call[v].endpoint \in {"register", "login"}
    BY <1>1 DEF Count, CallsFit
  <2>2. k = KeyOf(v) /\ CheckedAt(v) = now[v] /\ k \in Key
    BY <2>1, KeyOfVisit DEF CheckedKey, CheckedAt, ByAssistant
  <2>3. v \in Checking(k) /\ KeyInv(k)
    BY <2>1, <2>2 DEF Checking, LimitInv
  <2>4. Deque(ts, ad, now[v], m)
    BY <2>3 DEF KeyInv, OneChecking, DequeAt
  <2>5. ts \in Seq(Nat) /\ ad \in Seq(Nat) /\ m \in Nat \ {0} /\ now[v] \in Nat /\ Window \in Nat
    BY <2>2, KeyTypes
  <2> HIDE DEF k
  <2>6. Len(ts) >= m /\ ~Stale(ts, now[v] - Window)
    BY <1>1, <2>2 DEF Full, Count
  <2>7. ts # <<>> /\ Head(ts) = ts[1] /\ ts[1] \in Nat
    <3>1. Len(ts) >= 1
      BY <2>5, <2>6
    <3> QED
      BY <2>5, <3>1
  <2>8. ts[1] >= now[v] - Window
    BY <2>5, <2>6, <2>7 DEF Stale
  <2>9. Len(ad) - m >= 0 /\ ad[(Len(ad) - m) + 1] >= now[v] - Window
    BY <2>4, <2>5, <2>6, <2>8, DequeFull
  <2> QED
    BY <2>2, <2>9 DEF k
<1>2. CASE /\ call[v].endpoint = "assistant" /\ call[v].token.subject \in UserId
           /\ Check(v, <<"assistant", call[v].token.subject>>) /\ Respond(v, "limited")
  <2> DEFINE left == Purged(ts, clock - Window)
  <2>1. k = <<"assistant", call[v].token.subject>> /\ CheckedAt(v) = clock /\ k \in Key
    BY <1>2 DEF CheckedKey, CheckedAt, ByAssistant, Key
  <2>2. KeyInv(k) /\ ~overlapped[k]
    BY <2>1 DEF LimitInv
  <2>3. Deque(ts, ad, clock, m)
    BY <2>2 DEF KeyInv, DequeAt
  <2>4. ts \in Seq(Nat) /\ ad \in Seq(Nat) /\ m \in Nat \ {0} /\ clock \in Nat /\ Window \in Nat
    BY <2>1, KeyTypes
  <2>5. Full(k, left)
    <3>1. ~Goto(v, "query")
      BY <1>2, WentOn
    <3> QED
      BY <1>2, <2>1, <3>1 DEF Check
  <2> HIDE DEF k
  <2>6. clock - Window \in Int
    BY <2>4
  <2>7. left \in Seq(Nat)
    BY <2>4, <2>6, PurgedSuffix
  <2>8. PICK n \in 0..Len(ts) :
          /\ Len(left) = Len(ts) - n
          /\ \A j \in 1..Len(left) : left[j] = ts[n + j]
          /\ \A j \in 1..n : ts[j] < clock - Window
          /\ n < Len(ts) => ts[n + 1] >= clock - Window
    BY <2>4, <2>6, PurgedSuffix
  <2>9. Deque(left, ad, clock, m)
    BY <2>3, <2>4, <2>7, <2>8, DequeDrops
  <2>10. Len(left) >= m
    BY <2>5 DEF Full
  <2>11. left[1] >= clock - Window
    <3>1. Len(left) >= 1 /\ n < Len(ts)
      BY <2>4, <2>7, <2>8, <2>10
    <3>2. left[1] = ts[n + 1]
      BY <2>7, <2>8, <3>1
    <3> QED
      BY <2>8, <3>1, <3>2
  <2>12. Len(ad) - m >= 0 /\ ad[(Len(ad) - m) + 1] >= clock - Window
    BY <2>4, <2>7, <2>9, <2>10, <2>11, DequeFull
  <2> QED
    BY <2>1, <2>12 DEF k
<1> QED
  BY <1>1, <1>2, LimitedTold

(***************************************************************************)
(* The theorems                                                            *)
(***************************************************************************)

(* IInv holds at first, and every step keeps it.                            *)
LEMMA InitInv == Init => IInv
<1> SUFFICES ASSUME Init
             PROVE  IInv
  OBVIOUS
<1> DEFINE ids == {i \in UserId : users[i] # None}
<1>1. /\ users \in [UserId -> User \cup {None}]
      /\ sequence = Cardinality(ids) /\ sequence \in Nat /\ ids = 1..sequence
      /\ \A i \in UserId : users[i] # None => NormalForm[users[i].email] = users[i].email
      /\ \A i, j \in UserId :
           users[i] # None /\ users[j] # None /\ users[i].email = users[j].email => i = j
  BY InitialUsersAssumption DEF Init
<1>2. \A i \in ids : i <= sequence
  BY <1>1
<1>3. \A i \in ids : [subject |-> i, owner |-> users[i].email] \in Token
  BY <1>1 DEF Token, User
<1>4. \A t \in tokens : \E i \in ids : t.subject = i /\ t.owner = users[i].email
  BY DEF Init
<1>5. TypeOK
  <2>1. tokens \subseteq Token
    BY <1>3 DEF Init
  <2>2. <<>> \in Seq(Nat)
    OBVIOUS
  <2> QED
    BY <1>1, <2>1, <2>2 DEF Init, TypeOK, Steps
<1>6. None # "ok" /\ None # "conflict" /\ None # "no_row" /\ None # "no_table" /\ None # "no_database"
  BY CallAssumption DEF Replies
<1>7. CallsFit /\ TokensShown /\ AccountsOfVisits /\ RepliesTrue
  BY <1>6 DEF Init, CallsFit, TokensShown, AccountsOfVisits, RepliesTrue
<1>8. AddressesNormal
  BY <1>1 DEF AddressesNormal
<1>9. OneAccountPerAddress
  BY <1>1 DEF OneAccountPerAddress
<1>10. IdsNotReused
  BY <1>2, <1>4 DEF IdsNotReused
<1>11. ServerReady /\ TablesBeforeRequests
  BY <1>6 DEF Init, ServerReady, TablesBeforeRequests, InFlight
<1>12. LimitInv
  <2>1. ASSUME NEW k \in Key
        PROVE  KeyInv(k)
    <3>1. timestamps[k] = <<>> /\ admitted[k] = <<>> /\ Checking(k) = {}
      BY DEF Init, Checking
    <3>2. MaxRequests[k[1]] \in Nat \ {0} /\ Len(<<>>) = 0
      BY <1>5, KeyTypes
    <3>3. \A time : Deque(<<>>, <<>>, time, MaxRequests[k[1]])
      BY <3>2 DEF Deque
    <3> QED
      BY <3>1, <3>3 DEF KeyInv, OneChecking, DequeAt
  <2>2. \A i \in UserId : ~overlapped[<<"assistant", i>>]
    BY DEF Init, Key
  <2> QED
    BY <2>1, <2>2 DEF LimitInv
<1> QED
  BY <1>5, <1>7, <1>8, <1>9, <1>10, <1>11, <1>12 DEF IInv

LEMMA NextInv == IInv /\ [Next]_vars => IInv'
<1> SUFFICES ASSUME IInv, [Next]_vars
             PROVE  IInv'
  OBVIOUS
<1>1. /\ TypeOK /\ CallsFit /\ TokensShown /\ UsersInv /\ AccountsOfVisits /\ RepliesTrue
      /\ ServerInv /\ LimitInv
  BY DEF IInv, UsersInv, ServerInv
<1>2. TypeOK' /\ CallsFit' /\ TokensShown'
  BY <1>1, TypeNext, CallsNext, TokensShownNext
<1>3. UsersInv' /\ AccountsOfVisits' /\ RepliesTrue'
  BY <1>1, UsersNext, AccountsNext, RepliesNext
<1>4. ServerInv'
  BY <1>1, ServerNext
<1>5. LimitInv'
  BY <1>1, <1>2, LimitNext
<1> QED
  BY <1>2, <1>3, <1>4, <1>5 DEF IInv, UsersInv, ServerInv

(* The invariant: how far each visit is fits its call and its account, ids *)
(* grow, the server is ready for its requests, every deque that no two     *)
(* threads checked at once is what is left of its admissions.              *)
THEOREM AccessInvariantHolds == Spec => []IInv
<1>1. IInv /\ [Next]_vars => IInv'
  BY NextInv
<1> QED
  BY <1>1, InitInv, PTL DEF Spec

(* The variables of the front door keep their types.                       *)
THEOREM AccessTypes == Spec => []TypeOK
<1>1. IInv => TypeOK
  BY DEF IInv
<1> QED
  BY <1>1, AccessInvariantHolds, PTL

(* However an address is typed, whoever registers it and whenever the seed *)
(* script runs, it has one row (auth_service.register_user, User.email).   *)
THEOREM OneAccount == Spec => []OneAccountPerAddress
<1>1. IInv => OneAccountPerAddress
  BY DEF IInv
<1> QED
  BY <1>1, AccessInvariantHolds, PTL

(* Registrations of one address: until rows are deleted one is told ok and *)
(* none misses its row, where ids are not used again at most one ok has    *)
(* its row still, and every conflict has a row behind it (register_user,   *)
(* create_user, db.refresh).                                               *)
THEOREM RegistrationsHold == Spec => []RegistrationsAgree
<1>1. ASSUME IInv
      PROVE  RegistrationsAgree
  <2> DEFINE Done(x, answer) == call[x] # None /\ call[x].endpoint = "register" /\ reply[x] = answer
  <2>1. /\ TypeOK /\ CallsFit /\ OneAccountPerAddress /\ AccountsOfVisits
        /\ RepliesTrue
    BY <1>1 DEF IInv
  <2>2. ASSUME NEW v \in Visit, NEW w \in Visit, Done(v, "ok"), Done(w, "ok"),
               v # w, normalized_email(v) = normalized_email(w)
        PROVE  /\ cleanup = "done"
               /\ Dialect = "postgresql" =>
                    /\ account[v] # account[w]
                    /\ {users[account[v]], users[account[w]]} \cap {None} # {}
    <3>1. account[v] # None /\ account[w] # None
      BY <2>1, <2>2 DEF CallsFit
    <3>2. account[v] \in UserId /\ account[w] \in UserId
      BY <2>1, <3>1 DEF TypeOK
    <3>3. IdsKept => account[v] # account[w]
      BY <2>1, <2>2, <3>1 DEF AccountsOfVisits
    <3>4. IdsKept => users[account[v]] = None \/ users[account[w]] = None
      <4> SUFFICES ASSUME IdsKept, users[account[v]] # None, users[account[w]] # None
                   PROVE  FALSE
        OBVIOUS
      <4>1. users[account[v]].email = users[account[w]].email
        BY <2>1, <2>2, <3>1 DEF AccountsOfVisits
      <4> QED
        BY <2>1, <3>2, <3>3, <4>1 DEF OneAccountPerAddress
    <3>5. cleanup = "done"
      BY <2>1, <3>1, <3>4 DEF AccountsOfVisits, IdsKept
    <3> QED
      BY <3>3, <3>4, <3>5 DEF IdsKept
  <2>3. \A v \in Visit :
          /\ Done(v, "conflict") => cleanup = "done" \/ get_by_email(normalized_email(v)) # {}
          /\ Done(v, "no_row") => cleanup = "done"
    BY <2>1 DEF RepliesTrue
  <2> QED
    BY <2>2, <2>3 DEF RegistrationsAgree
<1> QED
  BY <1>1, AccessInvariantHolds, PTL

(* On PostgreSQL, whose sequence gives no id twice, a token opens the      *)
(* account of the user it was given to, and once that is deleted none      *)
(* (create_access_token, get_current_user).                                *)
THEOREM TokensHold == Dialect = "postgresql" /\ Spec => TokensOpenTheirAccount
<1> SUFFICES ASSUME Dialect = "postgresql"
             PROVE  Spec => TokensOpenTheirAccount
  OBVIOUS
<1>1. IInv /\ [Next]_vars =>
        [\A v \in Visit :
           pc[v] = "lookup" /\ pc'[v] # "lookup" /\ call[v].endpoint \in {"me", "assistant"}
             /\ reply'[v] \notin {"unauthenticated", "no_table", "lost"} =>
             LET row == users[call[v].token.subject]
             IN  row # None /\ row.email = call[v].token.owner]_vars
  BY TokenFinds
<1> QED
  BY <1>1, AccessInvariantHolds, PTL DEF Spec, TokensOpenTheirAccount

(* A server with its startup hook answers no request for want of tables    *)
(* (init_database, get_db_session).                                        *)
THEOREM TablesHold == Spec => []TablesBeforeRequests
<1>1. IInv => TablesBeforeRequests
  BY DEF IInv
<1> QED
  BY <1>1, AccessInvariantHolds, PTL

(* The assistant's limit holds over every window, whatever overlaps        *)
(* (InMemoryRateLimiter.check on the event loop).                          *)
THEOREM AssistantWindowHolds == Spec => []AssistantWindow
<1>1. ASSUME IInv, NEW i \in UserId
      PROVE  WindowKept(<<"assistant", i>>)
  BY <1>1 DEF IInv, LimitInv, KeyInv, DequeAt, Deque, WindowKept, Key
<1>2. IInv => AssistantWindow
  BY <1>1 DEF AssistantWindow
<1> QED
  BY <1>2, AccessInvariantHolds, PTL

(* The limits of register and login hold over every window as long as no   *)
(* two threads check the same key at once.                                 *)
THEOREM AuthWindowHolds == Spec => []AuthWindow
<1>1. ASSUME IInv, NEW k \in {"register", "login"} \X Ip, ~overlapped[k]
      PROVE  WindowKept(k)
  <2>1. k \in Key
    BY DEF Key
  <2> QED
    BY <1>1, <2>1 DEF IInv, LimitInv, KeyInv, DequeAt, Deque, WindowKept
<1>2. IInv => AuthWindow
  BY <1>1 DEF AuthWindow
<1> QED
  BY <1>2, AccessInvariantHolds, PTL

(* Nobody with requests left is refused (the while loop and the length     *)
(* test of check).                                                         *)
THEOREM RefusalsHold == Spec => RefusedOnlyWhenFull
<1>1. IInv /\ [Next]_vars =>
        [\A v \in Visit :
           pc[v] # "done" /\ reply'[v] = "limited" /\ ~overlapped[CheckedKey(v)] =>
             LET k == CheckedKey(v)
                 n == Len(admitted[k]) - MaxRequests[k[1]]
             IN  n >= 0 /\ admitted[k][n + 1] >= CheckedAt(v) - Window]_vars
  BY RefusedNext DEF IInv
<1> QED
  BY <1>1, AccessInvariantHolds, PTL DEF Spec, RefusedOnlyWhenFull
=============================================================================
