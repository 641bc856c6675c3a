---------------------------- MODULE AddressLease ----------------------------
(***************************************************************************)
(* What the relay's address management promises, without its tables, locks *)
(* or file: every virtual address has at most one owner, an address is     *)
(* granted only while nobody owns it, and it changes hands only through a  *)
(* release.  Server implements this specification.                         *)
(***************************************************************************)
CONSTANTS
  Client,       \* the clients
  NoClient,     \* "owned by nobody"
  Address       \* the addresses a client can own

VARIABLE owner  \* owner[v]: the client that owns address v, or NoClient

\* Leases of an earlier run may have survived.
Init == owner \in [Address -> Client \cup {NoClient}]

\* A free address is given to a client.
Grant(c, v) ==
  /\ owner[v] = NoClient
  /\ owner' = [owner EXCEPT ![v] = c]

\* Owners lose some addresses: one by a kick or an expiry, several by a restart.
Release(S) ==
  owner' = [v \in Address |-> IF v \in S THEN NoClient ELSE owner[v]]

Next ==
  \/ \E c \in Client, v \in Address : Grant(c, v)
  \/ \E S \in SUBSET Address : Release(S)

Spec == Init /\ [][Next]_owner
=============================================================================
