----------------------------- MODULE Rendezvous -----------------------------
(***************************************************************************)
(* What a penetrate session promises its visitors, without ids or          *)
(* messages: a visitor that is taken in is joined, at most once and for    *)
(* good, with a connection nobody else is joined with, or it is let down.  *)
(* The connection is one made for it, unless the visitor is crossed.       *)
(***************************************************************************)
CONSTANTS Visitors, NoVisitor, Connections, NoConnection

VARIABLES
  phase,   \* "new", "pending", "joined" or "failed" for each visitor
  peer,    \* the connection a visitor is joined with
  made,    \* the visitor a connection was made for
  crossed  \* visitors that may be given what was made for another

vars == <<phase, peer, made, crossed>>

Init ==
  /\ phase = [v \in Visitors |-> "new"]
  /\ peer = [v \in Visitors |-> NoConnection]
  /\ made = [c \in Connections |-> NoVisitor]
  /\ crossed = {}

Ask(v) ==
  /\ phase[v] = "new"
  /\ phase' = [phase EXCEPT ![v] = "pending"]
  /\ UNCHANGED <<peer, made>>

Make(c, v) ==
  /\ made[c] = NoVisitor /\ phase[v] # "new"
  /\ made' = [made EXCEPT ![c] = v]
  /\ UNCHANGED <<phase, peer>>

Join(v, c) ==
  /\ phase[v] = "pending"
  /\ made[c] = v \/ (made[c] # NoVisitor /\ v \in crossed)
  /\ \A u \in Visitors : peer[u] # c
  /\ phase' = [phase EXCEPT ![v] = "joined"]
  /\ peer' = [peer EXCEPT ![v] = c]
  /\ UNCHANGED made

\* One visitor, or all of a session that ends, are let down in one step.
LetDown(V) ==
  /\ V # {}
  /\ \A v \in V : phase[v] = "pending"
  /\ phase' = [v \in Visitors |-> IF v \in V THEN "failed" ELSE phase[v]]
  /\ UNCHANGED <<peer, made>>

\* A visitor that is crossed stays so.
Next ==
  /\ crossed \subseteq crossed'
  /\ \/ UNCHANGED <<phase, peer, made>>
     \/ \E v \in Visitors : Ask(v) \/ \E c \in Connections : Make(c, v) \/ Join(v, c)
     \/ \E V \in SUBSET Visitors : LetDown(V)

Spec == Init /\ [][Next]_vars
=============================================================================
