---------------------------- MODULE Credentials ----------------------------
(***************************************************************************)
(* What the admin interface promises of its credentials, the sessions of   *)
(* browsers and the API keys of secondaries: each is issued once, ends     *)
(* once and for good, and lets a request through only if it was good when  *)
(* the request came.  WebAccess is shown to implement it.                  *)
(***************************************************************************)
CONSTANTS Creds, Clients

VARIABLES
    status,  \* of each credential
    asks     \* of each client: the credential it presents, whether it was good
             \* when the request came, and whether the request was let through

NoAsk == [phase |-> "none"]

Init ==
    /\ status = [x \in Creds |-> "unused"]
    /\ asks = [c \in Clients |-> NoAsk]

\* What may become of a credential in a step.
Moves(old, new) ==
    \/ new = old
    \/ old = "unused" /\ new = "live"
    \/ old = "live" /\ new = "over"

\* A request comes with a credential.
Asks(old, new) ==
    /\ old = NoAsk
    /\ \E x \in Creds : new = [phase |-> "asking", cred |-> x, live |-> status[x] = "live"]

\* It is let through.
Granted(old, new) ==
    /\ old.phase = "asking" /\ old.live
    /\ new = [old EXCEPT !.phase = "granted"]

Next ==
    /\ \A x \in Creds : Moves(status[x], status'[x])
    /\ \A c \in Clients :
          \/ asks'[c] \in {asks[c], NoAsk}
          \/ Asks(asks[c], asks'[c])
          \/ Granted(asks[c], asks'[c])
    /\ DOMAIN status' = Creds /\ DOMAIN asks' = Clients

Spec == Init /\ [][Next]_<<status, asks>>
=============================================================================
