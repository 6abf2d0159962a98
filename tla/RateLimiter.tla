----------------------------- MODULE RateLimiter -----------------------------
(***************************************************************************)
(* InMemoryRateLimiter.  FastAPI calls the limiters of register and login, *)
(* which are plain functions, in worker threads; the assistant's handler   *)
(* calls its limiter on the event loop.  CPython 3.12 switches threads     *)
(* after a call returns and when a loop jumps back, so a threaded check is *)
(* the four actions below and a check on the loop is one.                  *)
(***************************************************************************)
EXTENDS AccessState

KeyOf(v) == <<call[v].endpoint, call[v].ip>>

(* A timestamp at the edge of the window taken for one outside, and one    *)
(* that no loop ever drops.                                                *)
stale_at_edge(ts, start) == ts # <<>> /\ Head(ts) <= start
never_stale(ts, start) == FALSE

Stale(ts, start) == ts # <<>> /\ Head(ts) < start
(* One request more than the limit.                                        *)
full_above_limit(k, ts) == Len(ts) > MaxRequests[k[1]]
Full(k, ts) == Len(ts) >= MaxRequests[k[1]]

(* What the loop over stale timestamps leaves.                             *)
Purged(ts, start) ==
  LET n == CHOOSE n \in 0..Len(ts) :
             /\ \A i \in 1..n : ts[i] < start
             /\ n < Len(ts) => ts[n + 1] >= start
  IN  SubSeq(ts, n + 1, Len(ts))

(* The thread's local variables are gone when check returns.               *)
Forget(v) == now' = [now EXCEPT ![v] = 0]

Checking(k) == {v \in Visit : pc[v] \in {"purge", "append"} /\ KeyOf(v) = k}

(* A worker thread takes the check up and reads the time.                  *)
Capture(v) ==
  /\ pc[v] = "limit"
  /\ now' = [now EXCEPT ![v] = clock]
  /\ overlapped' = [overlapped EXCEPT ![KeyOf(v)] = @ \/ Checking(KeyOf(v)) # {}]
  /\ Goto(v, "purge")
  /\ UNCHANGED <<traffic, call, account, clock, timestamps, admitted, process, accounts, scripts>>

PopStale(v) ==
  LET k == KeyOf(v) IN
  /\ pc[v] = "purge" /\ Stale(timestamps[k], now[v] - Window)
  /\ timestamps' = [timestamps EXCEPT ![k] = Tail(@)]
  /\ UNCHANGED <<visit, clock, now, admitted, overlapped, process, accounts, scripts>>

Count(v) ==
  LET k == KeyOf(v) IN
  /\ pc[v] = "purge" /\ ~Stale(timestamps[k], now[v] - Window)
  /\ IF Full(k, timestamps[k]) THEN Respond(v, "limited") /\ Forget(v)
                               ELSE Goto(v, "append") /\ UNCHANGED now
  /\ UNCHANGED <<traffic, call, account, clock, timestamps, admitted, overlapped,
                 process, accounts, scripts>>

(* The window's start appended in place of its end.                        *)
append_window_start(v) ==
  LET k == KeyOf(v) IN
  /\ pc[v] = "append"
  /\ timestamps' = [timestamps EXCEPT ![k] = Append(@, now[v] - Window)]
  /\ admitted' = [admitted EXCEPT ![k] = Append(@, now[v])]
  /\ Goto(v, "session") /\ Forget(v)
  /\ UNCHANGED <<traffic, call, account, clock, overlapped, process, accounts, scripts>>

AppendNow(v) ==
  LET k == KeyOf(v) IN
  /\ pc[v] = "append"
  /\ timestamps' = [timestamps EXCEPT ![k] = Append(@, now[v])]
  /\ admitted' = [admitted EXCEPT ![k] = Append(@, now[v])]
  /\ Goto(v, "session") /\ Forget(v)
  /\ UNCHANGED <<traffic, call, account, clock, overlapped, process, accounts, scripts>>

(* The whole check on the event loop: refuse, or admit and go on.          *)
Check(v, k) ==
  LET left == Purged(timestamps[k], clock - Window) IN
  /\ IF Full(k, left)
       THEN /\ timestamps' = [timestamps EXCEPT ![k] = left]
            /\ Respond(v, "limited")
            /\ UNCHANGED admitted
       ELSE /\ timestamps' = [timestamps EXCEPT ![k] = Append(left, clock)]
            /\ admitted' = [admitted EXCEPT ![k] = Append(@, clock)]
            /\ Goto(v, "query")
  /\ UNCHANGED <<clock, now, overlapped>>

Threads(v) == Capture(v) \/ PopStale(v) \/ Count(v) \/ AppendNow(v)
=============================================================================
