--------------------------- MODULE ExpiringLease ---------------------------
(***************************************************************************)
(* What the claims of this system promise: an exclusive, expiring lease.   *)
(* A client acquires it at most once; it replaces an owner only after the  *)
(* lease of that owner has expired.  Expiry may take the owner away with   *)
(* it (a cache entry) or leave it in place (a database row).               *)
(***************************************************************************)
CONSTANTS
  Clients,
  NoClient   \* not one of the clients

VARIABLES
  owner,  \* the client recorded as the holder
  valid,  \* has its lease not expired?
  used    \* the clients that acquired the lease at some time

vars == <<owner, valid, used>>

Init ==
  /\ owner = NoClient
  /\ valid = FALSE
  /\ used = {}

Acquire(c) ==
  /\ c \notin used
  /\ ~valid
  /\ owner' = c
  /\ valid' = TRUE
  /\ used' = used \cup {c}

Expire ==
  /\ valid
  /\ valid' = FALSE
  /\ owner' \in {owner, NoClient}
  /\ UNCHANGED used

Release(c) ==
  /\ owner = c
  /\ owner' = NoClient
  /\ valid' = FALSE
  /\ UNCHANGED used

Next == Expire \/ \E c \in Clients : Acquire(c) \/ Release(c)

Spec == Init /\ [][Next]_vars
=============================================================================
