------------------------------- MODULE Lobby -------------------------------
(***************************************************************************)
(* What the rooms of YNetServer promise, without how they are kept: a peer *)
(* is in at most one room, peers come and go one at a time, a room has a   *)
(* host, who hands it over only to another member, and when a room closes  *)
(* everybody is out of it at once.  Nothing here corresponds to one piece  *)
(* of the code; YNetServer is shown to implement it for clients that leave *)
(* a room before they enter another.                                       *)
(***************************************************************************)
EXTENDS FiniteSets

CONSTANTS Peers, Codes

VARIABLES
  members,    \* open room -> the peers in it
  host        \* open room -> the peer that runs it

lobby == <<members, host>>

Init == members = [c \in {} |-> {}] /\ host = [c \in {} |-> {}]

Somewhere(p) == \E c \in DOMAIN members : p \in members[c]

Open(p, c) ==
  /\ c \notin DOMAIN members
  /\ ~Somewhere(p)
  /\ members' = [d \in DOMAIN members \cup {c} |-> IF d = c THEN {p} ELSE members[d]]
  /\ host' = [d \in DOMAIN members \cup {c} |-> IF d = c THEN p ELSE host[d]]

Enter(p, c) ==
  /\ ~Somewhere(p)
  /\ members' = [members EXCEPT ![c] = @ \cup {p}]
  /\ UNCHANGED host

Leave(p, c) ==
  /\ p \in members[c] \ {host[c]}
  /\ members' = [members EXCEPT ![c] = @ \ {p}]
  /\ UNCHANGED host

HandOver(c, heir) ==
  /\ heir \in members[c] \ {host[c]}
  /\ members' = [members EXCEPT ![c] = @ \ {host[c]}]
  /\ host' = [host EXCEPT ![c] = heir]

\* The host leaves and so does everybody else.
Close(c) ==
  /\ members' = [d \in DOMAIN members \ {c} |-> members[d]]
  /\ host' = [d \in DOMAIN members \ {c} |-> host[d]]

Next ==
  \/ \E p \in Peers, c \in Codes : Open(p, c)
  \/ \E c \in DOMAIN members :
       \/ \E p \in Peers : Enter(p, c) \/ Leave(p, c) \/ HandOver(c, p)
       \/ Close(c)

Spec == Init /\ [][Next]_lobby
=============================================================================
