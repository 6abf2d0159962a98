---------------------------- MODULE ClientSession ----------------------------
(***************************************************************************)
(* AuthContext.jsx, the interceptors of api/client.js and ProtectedRoute:  *)
(* localStorage holds `token` and `storedUser`, React shows `user`.        *)
(***************************************************************************)
EXTENDS BrowserState

(* A token that stays when the user changes.                               *)
store_user_only(t, u) == storedUser' = u /\ UNCHANGED token

Store(t, u) == token' = t /\ storedUser' = u

(* setUser; without a user the cart page gives way to the login page.      *)
setUser(u) ==
  /\ user' = u
  /\ IF u = None /\ page = "cart" THEN page' = "other" /\ attempt' = Unmounted
                                  ELSE UNCHANGED <<page, attempt>>
  /\ UNCHANGED <<items, stored, submitting>>

(* The tab is loaded anew: localStorage stays, everything under way is     *)
(* forgotten, and /auth/me is asked when there is a token but no user.     *)
Reload ==
  /\ CustomerMayAct
  /\ user' = storedUser
  /\ me' = IF storedUser = None THEN token ELSE None
  /\ signin' = None
  /\ items' = stored /\ page' = "other" /\ submitting' = FALSE
  /\ attempt' = [a \in Attempt |-> IF attempt[a] = None THEN None
                                   ELSE [attempt[a] EXCEPT !.view = "deaf"]]
  /\ UNCHANGED <<stored, token, storedUser, world, shop>>

MeArrives ==
  /\ me # None
  /\ storedUser' = me /\ setUser(me)
  /\ me' = None
  /\ UNCHANGED <<token, signin, world, shop>>

(* A 401, which the interceptor and the catch both clear the session for,  *)
(* or any other failure, for which the catch does.                         *)
MeFails ==
  /\ me # None
  /\ Store(None, None) /\ setUser(None)
  /\ me' = None
  /\ UNCHANGED <<signin, world, shop>>

(* login and register differ in the path only.                             *)
SignIn ==
  /\ CustomerMayAct /\ user = None /\ signin = None
  /\ \E u \in Customers : signin' = u
  /\ UNCHANGED <<token, storedUser, user, me, cart, world, shop>>

SignedIn ==
  /\ signin # None
  /\ Store(signin, signin) /\ setUser(signin)
  /\ signin' = None
  /\ UNCHANGED <<me, world, shop>>

(* A wrong password is a 401, which clears localStorage only; a conflict,  *)
(* a limit or a lost answer clears nothing.                                *)
SignInFails ==
  /\ signin # None
  /\ Store(None, None) \/ UNCHANGED <<token, storedUser>>
  /\ signin' = None
  /\ UNCHANGED <<user, me, cart, world, shop>>

(* A logout that forgets localStorage.                                     *)
logout_on_screen ==
  /\ CustomerMayAct /\ user # None
  /\ setUser(None)
  /\ UNCHANGED <<token, storedUser, me, signin, world, shop>>

logout ==
  /\ CustomerMayAct /\ user # None
  /\ Store(None, None) /\ setUser(None)
  /\ UNCHANGED <<me, signin, world, shop>>

Session == Reload \/ MeArrives \/ MeFails \/ SignIn \/ SignedIn \/ SignInFails \/ logout
=============================================================================
