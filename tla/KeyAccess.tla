------------------------------ MODULE KeyAccess ------------------------------
(* What a service of VPN keys promises: every change of who can connect is    *)
(* announced before it is made and is about one key; a key is granted or      *)
(* closed only while its access is what that says; and what a failure has     *)
(* left unclear stays so until a start without failure settles it.            *)

CONSTANTS
  Keys,    \* ids, each used once
  Others   \* clients that are not the service's

VARIABLES
  stage,   \* stage[k]: how far the key has come in its life
  access   \* who can connect, of the others and of the keys that are not unclear

accessVars == <<stage, access>>

Stages  == {"none", "opening", "open", "closing", "closed", "unclear"}
Settled == {"none", "open", "closed"}

Changing == {k \in Keys : stage[k] \in {"opening", "closing"}}
Unclear  == {k \in Keys : stage[k] = "unclear"}

Turn(k, to) == stage' = [stage EXCEPT ![k] = to] /\ UNCHANGED access

AccessInit == stage = [k \in Keys |-> "none"] /\ access \subseteq Others

Announce(k) == stage[k] = "none" /\ Turn(k, "opening")
Withdraw(k) == stage[k] \in {"open", "closed"} /\ Turn(k, "closing")

\* access is given only while a key is opened
Give(k) == stage[k] = "opening" /\ access' = access \cup {k} /\ UNCHANGED stage
Take(k) == access' = access \ {k} /\ UNCHANGED stage

\* the change is over, and the answer says what is the case; a withdrawal that failed
\* leaves the key open
Grant(k) == k \in access /\ Turn(k, "open")
Close(k) == k \notin access /\ Turn(k, "closed")

\* a failure leaves a change half made, and a crash several
Lose(K) ==
  /\ stage' = [k \in Keys |-> IF k \in K THEN "unclear" ELSE stage[k]]
  /\ access' = access \ K

Settle(K) ==
  \E s \in [K -> Settled] :
    /\ stage' = [k \in Keys |-> IF k \in K THEN s[k] ELSE stage[k]]
    /\ access' = access \cup {k \in K : s[k] = "open"}

AccessNext ==
  \/ \E K \in SUBSET Changing : Lose(K)
  \/ \E K \in SUBSET Unclear : Settle(K)
  \/ \E k \in Keys : Announce(k) \/ Withdraw(k)
  \/ \E k \in Changing : Give(k) \/ Take(k) \/ Grant(k) \/ Close(k)

AccessSpec == AccessInit /\ [][AccessNext]_accessVars

\* What follows: a key that is open can connect, and one that is not yet or no more
\* announced cannot.
PromiseKept ==
  \A k \in Keys : /\ stage[k] = "open" => k \in access
                  /\ stage[k] \in {"none", "closed"} => k \notin access
==============================================================================
