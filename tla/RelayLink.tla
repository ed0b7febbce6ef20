------------------------------ MODULE RelayLink ------------------------------
(***************************************************************************)
(* What the relay promises of the frames it accepts for a connection: each *)
(* frame joins one line at most once, and a connection is written a prefix *)
(* of its line, in order, until the link is cut for good.  A frame still   *)
(* in line when the link is cut is lost, and so is one accepted later.     *)
(***************************************************************************)
EXTENDS Naturals, Sequences

CONSTANTS Conns, Frames

VARIABLES
  line,   \* the frames accepted for each connection, in order
  handed, \* how many of them have been written to it
  cut     \* connections nothing will be written to any more

linkVars == <<line, handed, cut>>

LinkInit ==
  /\ line = [c \in Conns |-> <<>>]
  /\ handed = [c \in Conns |-> 0]
  /\ cut = {}

Accept(c, f) ==
  /\ \A d \in Conns : \A i \in DOMAIN line[d] : line[d][i] # f
  /\ line' = [line EXCEPT ![c] = Append(@, f)]
  /\ UNCHANGED <<handed, cut>>

Hand(c) ==
  /\ c \notin cut
  /\ handed[c] < Len(line[c])
  /\ handed' = [handed EXCEPT ![c] = @ + 1]
  /\ UNCHANGED <<line, cut>>

Cut(c) ==
  /\ c \notin cut
  /\ cut' = cut \cup {c}
  /\ UNCHANGED <<line, handed>>

LinkNext ==
  \E c \in Conns : Hand(c) \/ Cut(c) \/ \E f \in Frames : Accept(c, f)

LinkSpec == LinkInit /\ [][LinkNext]_linkVars
=============================================================================
