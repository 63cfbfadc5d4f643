------------------------------ MODULE KeyLease ------------------------------
(***************************************************************************)
(* What the session registry promises, seen from outside: an id is leased  *)
(* to at most one live session, a live holder is never displaced, and a    *)
(* lease ends only with the death of its holder, after which the id is     *)
(* free and the dead session never holds it again.  (PROTOCOL.md,          *)
(* "caller-supplied id"; internal/server/server.go, addSession and         *)
(* removeSession.)                                                         *)
(***************************************************************************)
CONSTANTS Key, Sess, KeyOf, NoSess

VARIABLES
    holder,   \* the live session that holds each id
    ended     \* the sessions that have died

vars == <<holder, ended>>

Init ==
    /\ holder = [k \in Key |-> NoSess]
    /\ ended = {}

\* A live session takes a free id.
Acquire(s) ==
    /\ s \notin ended
    /\ holder[KeyOf[s]] = NoSess
    /\ holder' = [holder EXCEPT ![KeyOf[s]] = s]
    /\ UNCHANGED ended

\* A session dies, with or without an id.
End(s) ==
    /\ s \notin ended
    /\ ended' = ended \cup {s}
    /\ holder' = [k \in Key |-> IF holder[k] = s THEN NoSess ELSE holder[k]]

\* The daemon dies, and every session with it.
Crash ==
    /\ ended' = Sess
    /\ holder' = [k \in Key |-> NoSess]

Next == (\E s \in Sess : Acquire(s) \/ End(s)) \/ Crash

Spec == Init /\ [][Next]_vars
=============================================================================
