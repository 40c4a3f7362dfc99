------------------------------ MODULE PortLease ------------------------------
(* What the session protocol promises, without requests, counts, replies   *)
(* and processes: a server lends the port of a resource to its users.  The *)
(* port is there for the first of them and until the last one has given    *)
(* it back, and nobody who holds it has it taken away.                     *)
(*                                                                         *)
(* The promise is for one server at a time: while valid is FALSE there is  *)
(* none (no server runs, or one that was told to take back what it never   *)
(* lent), and when it becomes TRUE nothing is lent.                        *)
(***************************************************************************)
CONSTANTS
    Resources,
    Tickets      \* one for each time somebody uses a resource

VARIABLES
    valid,   \* a server stands to its promise
    users,   \* to whom the port of a resource is lent
    held,    \* those of them that know and have not begun to give it back
    open     \* the resources whose port is there

leaseVars == <<valid, users, held, open>>

Nobody == [r \in Resources |-> {}]

Init ==
    /\ valid = TRUE
    /\ users = Nobody /\ held = Nobody
    /\ open = {}

\* Lent to one more user, who will be told.
Grant(r, t) ==
    /\ valid
    /\ \A x \in Resources : t \notin users[x]
    /\ users' = [users EXCEPT ![r] = @ \cup {t}]
    /\ open' = open \cup {r}
    /\ UNCHANGED <<valid, held>>

\* The user is told.
Deliver(r, t) ==
    /\ t \in users[r] \ held[r]
    /\ held' = [held EXCEPT ![r] = @ \cup {t}]
    /\ UNCHANGED <<valid, users, open>>

\* Some users are done, or gone.
LetGo ==
    /\ \A r \in Resources : held'[r] \subseteq held[r]
    /\ UNCHANGED <<valid, users, open>>

\* What a user who is done had is taken back; the last one closes the port.
Return(r, t) ==
    /\ t \in users[r] \ held[r]
    /\ users' = [users EXCEPT ![r] = @ \ {t}]
    /\ open' = IF users'[r] = {} THEN open \ {r} ELSE open
    /\ UNCHANGED <<valid, held>>

\* No promise any more, and everything lent is lost.
End ==
    /\ valid
    /\ valid' = FALSE
    /\ users' = Nobody /\ held' = Nobody /\ open' = {}

Begin ==
    /\ ~valid
    /\ valid' = TRUE
    /\ UNCHANGED <<users, held, open>>

Next ==
    \/ \E r \in Resources, t \in Tickets : Grant(r, t) \/ Deliver(r, t) \/ Return(r, t)
    \/ LetGo \/ End \/ Begin

Spec == Init /\ [][Next]_leaseVars
=============================================================================
