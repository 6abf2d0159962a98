------------------------------ MODULE Database ------------------------------
(***************************************************************************)
(* The transactional store behind the sessions of app/database.py, as the  *)
(* code uses it: PostgreSQL at its default READ COMMITTED level, or the    *)
(* SQLite file of a development set-up.                                    *)
(*                                                                         *)
(* A row has a committed version, which every other session reads, and a   *)
(* working version, which differs from it only while the session that      *)
(* holds the row's lock has an open transaction.  PostgreSQL locks a row   *)
(* with the first UPDATE, INSERT or DELETE of it; SQLite locks the whole   *)
(* database with the first such statement.  Reads take no lock in either.  *)
(***************************************************************************)
EXTENDS Integers, FiniteSets

CONSTANTS
  ProductId,    \* keys of the products table
  OrderId,      \* keys of the orders table
  Session,      \* database sessions: one per HTTP request
  NoRow,        \* what a key without a row holds
  NoSession,    \* the holder of a free lock
  Dialect       \* "postgresql" or "sqlite"

ASSUME KeyAssumption == ProductId \subseteq Nat \ {0} /\ ProductId \cap OrderId = {}
ASSUME SessionAssumption == NoSession \notin Session
ASSUME DialectAssumption == Dialect \in {"postgresql", "sqlite"}

VARIABLES
  committed,    \* committed[x]: the version of row x other sessions read
  working,      \* working[x]: the newest version of row x, committed or not
  lock          \* lock[x]: the session whose open transaction wrote row x

tables == <<committed, working, lock>>

Row == ProductId \cup OrderId

(* The rows a statement that writes row x locks.                           *)
LockSet(x) == IF Dialect = "sqlite" THEN Row ELSE {x}

(* A statement of session r that writes row x can go on: nobody else has   *)
(* the lock.  Until then the statement waits.                              *)
CanWrite(r, x) == \A y \in LockSet(x) : lock[y] \in {r, NoSession}

(* What a SELECT of session r returns for row x.                           *)
Read(r, x) == IF lock[x] = r THEN working[x] ELSE committed[x]

(* An INSERT, UPDATE or DELETE inside a transaction that goes on.          *)
Write(r, x, version) ==
  /\ CanWrite(r, x)
  /\ working' = [working EXCEPT ![x] = version]
  /\ lock' = [y \in Row |-> IF y \in LockSet(x) THEN r ELSE lock[y]]
  /\ UNCHANGED committed

(* A transaction of one statement: the write and its COMMIT.               *)
WriteAndCommit(r, x, version) ==
  /\ CanWrite(r, x)
  /\ working' = [working EXCEPT ![x] = version]
  /\ committed' = [committed EXCEPT ![x] = version]
  /\ UNCHANGED lock

Released(r) == [x \in Row |-> IF lock[x] = r THEN NoSession ELSE lock[x]]

Commit(r) ==
  /\ committed' = [x \in Row |-> IF lock[x] = r THEN working[x] ELSE committed[x]]
  /\ lock' = Released(r)
  /\ UNCHANGED working

Rollback(r) ==
  /\ working' = [x \in Row |-> IF lock[x] = r THEN committed[x] ELSE working[x]]
  /\ lock' = Released(r)
  /\ UNCHANGED committed
=============================================================================
