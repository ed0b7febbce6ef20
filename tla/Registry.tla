------------------------------ MODULE Registry ------------------------------
(***************************************************************************)
(* What the hub promises of connections: one comes online once, for one    *)
(* account, in place of the one that was online for it, which is hung up   *)
(* there and then; it goes offline for good; and only what has gone        *)
(* offline is hung up, once.                                               *)
(***************************************************************************)
CONSTANTS Accounts, Conns, None

VARIABLES
  online,  \* the connection found for each account, or None
  over,    \* connections that were found and never will be again
  hung     \* those of them that were told to close

registryVars == <<online, over, hung>>

RegistryInit ==
  /\ online = [a \in Accounts |-> None]
  /\ over = {}
  /\ hung = {}

Enter(a, c) ==
  LET old == {online[a]} \ {None} IN
  /\ c \notin over
  /\ \A b \in Accounts : online[b] # c
  /\ online' = [online EXCEPT ![a] = c]
  /\ over' = over \cup old
  /\ hung' = hung \cup old

Leave(a) ==
  /\ online[a] # None
  /\ online' = [online EXCEPT ![a] = None]
  /\ over' = over \cup {online[a]}
  /\ UNCHANGED hung

HangUp(c) ==
  /\ c \in over \ hung
  /\ hung' = hung \cup {c}
  /\ UNCHANGED <<online, over>>

RegistryNext ==
  \/ \E a \in Accounts : Leave(a) \/ \E c \in Conns : Enter(a, c)
  \/ \E c \in Conns : HangUp(c)

RegistrySpec == RegistryInit /\ [][RegistryNext]_registryVars
=============================================================================
