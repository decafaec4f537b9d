------------------------------ MODULE SessionPool ------------------------------
(***************************************************************************)
(* What a service with rotating refresh tokens promises of its sessions:   *)
(* a session begins with a login, a refresh exchanges one token for one,   *)
(* and sessions end.  So a user never has more refresh tokens, counting    *)
(* those on their way to the client, than logins.                          *)
(***************************************************************************)
EXTENDS Naturals

CONSTANT User

VARIABLES
  logins,    \* how often each user gave the right credentials
  sessions   \* how many refresh tokens of the user are good

Init ==
  /\ logins = [u \in User |-> 0]
  /\ sessions = [u \in User |-> 0]

Login(u) ==
  /\ logins' = [logins EXCEPT ![u] = @ + 1]
  /\ sessions' = [sessions EXCEPT ![u] = @ + 1]

\* A logout, an expiry, or two sessions found to be the same one.
End ==
  /\ sessions' \in [User -> Nat]
  /\ \A u \in User : sessions'[u] <= sessions[u]
  /\ UNCHANGED logins

Next == (\E u \in User : Login(u)) \/ End

Spec == Init /\ [][Next]_<<logins, sessions>>

=============================================================================
