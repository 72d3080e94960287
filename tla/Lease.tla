------------------------------- MODULE Lease -------------------------------
(***************************************************************************)
(* What sessions promise, with tokens and their claims left out: a request *)
(* acts for a user only on the user's credentials, or while the user is    *)
(* signed in; it renews the session only if it came with credentials, or   *)
(* found the user signed in once more after it was let in; and the user    *)
(* stays signed in for a bounded time after the last renewal.              *)
(***************************************************************************)
EXTENDS Integers

CONSTANTS User, Credential, Request, Term, None

VARIABLES
  password,    \* password[u]: the credentials of user u, None before he registers
  shown,       \* shown[r]: the credentials request r shows, or None
  acting,      \* acting[r]: the user request r has been let in as, or None
  renewing,    \* the requests that may renew the session of their user
  open         \* open[u]: the ticks from now at which u is still signed in

vars == <<password, shown, acting, renewing, open>>

Times == 0..Term

Init == /\ password = [u \in User |-> None]
        /\ shown = [r \in Request |-> None]
        /\ acting = [r \in Request |-> None]
        /\ renewing = {}
        /\ open = [u \in User |-> {}]

Register(u, c) == /\ password[u] = None
                  /\ password' = [password EXCEPT ![u] = c]
                  /\ UNCHANGED <<shown, acting, renewing, open>>

Come(r, c) == /\ shown[r] = None /\ acting[r] = None
              /\ shown' = [shown EXCEPT ![r] = c]
              /\ UNCHANGED <<password, acting, renewing, open>>

(* In by credentials, which is enough to renew, or in while signed in. *)
LetIn(r, u) == /\ acting[r] = None
               /\ \/ /\ shown[r] # None /\ password[u] = shown[r]
                     /\ renewing' = renewing \cup {r}
                  \/ /\ shown[r] = None /\ 0 \in open[u]
                     /\ UNCHANGED renewing
               /\ acting' = [acting EXCEPT ![r] = u]
               /\ UNCHANGED <<password, shown, open>>

(* A request let in finds its user still signed in. *)
Confirm(r) == /\ acting[r] # None /\ 0 \in open[acting[r]]
              /\ renewing' = renewing \cup {r}
              /\ UNCHANGED <<password, shown, acting, open>>

(* It renews its user's session, for Term at the most. *)
Renews(r) == \E t \in Times :
  /\ r \in renewing
  /\ open' = [open EXCEPT ![acting[r]] = @ \cup 0..t]

Leave(r) == /\ shown' = [shown EXCEPT ![r] = None]
            /\ acting' = [acting EXCEPT ![r] = None]
            /\ renewing' = renewing \ {r}
            /\ Renews(r) \/ UNCHANGED open
            /\ UNCHANGED password

Tick == /\ open' = [u \in User |-> {t \in Times : t + 1 \in open[u]}]
        /\ UNCHANGED <<password, shown, acting, renewing>>

Next == \/ Tick
        \/ \E u \in User, c \in Credential : Register(u, c)
        \/ \E r \in Request : \/ Leave(r) \/ Confirm(r)
                              \/ \E c \in Credential : Come(r, c)
                              \/ \E u \in User : LetIn(r, u)

Spec == Init /\ [][Next]_vars
=============================================================================
