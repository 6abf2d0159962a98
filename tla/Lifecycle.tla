------------------------------ MODULE Lifecycle ------------------------------
(***************************************************************************)
(* app/database.py: the startup hook, which makes the tables before the    *)
(* server takes requests, and get_db_session, which makes them lazily when *)
(* the app is hosted without its startup hook.                             *)
(***************************************************************************)
EXTENDS AccessState

(* A startup hook that is not awaited.                                     *)
start_at_once ==
  /\ server = "down"
  /\ server' = "up"
  /\ factory' = (factory \/ lifespan)
  /\ UNCHANGED <<visit, tables, lifespan, limits, accounts, scripts>>

(* The process starts; with a lifespan, _startup publishes the factory and *)
(* awaits create_all, otherwise requests are served at once.               *)
Start ==
  /\ server = "down"
  /\ IF lifespan THEN server' = "starting" /\ factory' = TRUE
                 ELSE server' = "up" /\ UNCHANGED factory
  /\ UNCHANGED <<visit, tables, lifespan, limits, accounts, scripts>>

Started ==
  /\ server = "starting"
  /\ tables' = TRUE
  /\ server' = "up"
  /\ UNCHANGED <<visit, factory, lifespan, limits, accounts, scripts>>

(* The process ends, by its shutdown hook or by a crash, at any time: its  *)
(* requests get no answer, its memory is gone and the tables stay.         *)
Stop ==
  /\ server # "down"
  /\ server' = "down" /\ factory' = FALSE
  /\ pc' = [v \in Visit |-> IF v \in InFlight THEN "done" ELSE pc[v]]
  /\ reply' = [v \in Visit |-> IF v \in InFlight THEN "lost" ELSE reply[v]]
  /\ timestamps' = [k \in Key |-> <<>>] /\ admitted' = [k \in Key |-> <<>>]
  /\ overlapped' = [k \in Key |-> FALSE] /\ now' = [v \in Visit |-> 0]
  /\ UNCHANGED <<traffic, call, account, tables, lifespan, clock, accounts, scripts>>

(* get_db_session: the first caller without a factory publishes one, and   *)
(* only then awaits create_all.                                            *)
OpenSession(v) ==
  /\ pc[v] = "session"
  /\ factory' = TRUE
  /\ Goto(v, IF factory THEN "lookup" ELSE "bootstrap")
  /\ UNCHANGED <<traffic, call, account, server, tables, lifespan, limits, accounts, scripts>>

Bootstrap(v) ==
  /\ pc[v] = "bootstrap"
  /\ \/ tables' = TRUE /\ Goto(v, "lookup")
     \/ Respond(v, "no_database") /\ UNCHANGED tables
  /\ UNCHANGED <<traffic, call, account, server, factory, lifespan, limits, accounts, scripts>>
=============================================================================
