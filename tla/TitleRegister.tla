---------------------------- MODULE TitleRegister ----------------------------
(***************************************************************************)
(* What the ownership ledger promises, whatever requests race: each unit   *)
(* has at most one current title; a title, once given, stays in the        *)
(* register with the one it replaced; and a new title replaces exactly the *)
(* one that was current.  A title may be annulled, which leaves the unit   *)
(* without a current one: a record that is reversed may end its period     *)
(* (023_ownership_ledger.sql:240-242).                                     *)
(***************************************************************************)
EXTENDS Naturals

CONSTANTS Units, Titles

NoTitle == 0   \* no row id is 0

VARIABLES
  granted,   \* titles ever granted on each unit
  holder,    \* the current title of each unit, or NoTitle
  follows    \* pairs <<older, newer>>: newer replaced older

Init ==
  /\ granted = [u \in Units |-> {}]
  /\ holder = [u \in Units |-> NoTitle]
  /\ follows = {}

Transfer(u, t) ==
  /\ \A v \in Units : t \notin granted[v]
  /\ granted' = [granted EXCEPT ![u] = @ \cup {t}]
  /\ holder' = [holder EXCEPT ![u] = t]
  /\ follows' = follows \cup (IF holder[u] = NoTitle THEN {} ELSE {<<holder[u], t>>})

Annul(u) ==
  /\ holder[u] # NoTitle
  /\ holder' = [holder EXCEPT ![u] = NoTitle]
  /\ UNCHANGED <<granted, follows>>

Next == \E u \in Units : Annul(u) \/ \E t \in Titles : Transfer(u, t)

Spec == Init /\ [][Next]_<<granted, holder, follows>>
==============================================================================
