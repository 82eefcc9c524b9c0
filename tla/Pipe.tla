-------------------------------- MODULE Pipe --------------------------------
(***************************************************************************)
(* What a KCP stream promises the programs at its two ends: what is read   *)
(* at one end is what was written at the other, from the first unit on and *)
(* without a gap, and an end of stream comes after all of it.  A reset may *)
(* come at any time and may cost what was not yet read.                    *)
(***************************************************************************)
EXTENDS Integers, Sequences

CONSTANTS
  Ends,    \* the two ends
  Far(_)   \* the other end

VARIABLES
  sent,    \* sent[e]: how many units have been written at e
  got,     \* got[e]: the numbers of the units read at e
  over,    \* over[e]: how reading stopped at e: "no", "eof", "reset"
  shut     \* shut[e]: e refuses further writes

vars == <<sent, got, over, shut>>

Init == /\ sent = [e \in Ends |-> 0]
        /\ got = [e \in Ends |-> <<>>]
        /\ over = [e \in Ends |-> "no"]
        /\ shut = [e \in Ends |-> FALSE]

Write(e) == /\ ~shut[e]
            /\ sent'[e] \in Nat /\ sent'[e] > sent[e]
            /\ sent' = [sent EXCEPT ![e] = sent'[e]]
            /\ UNCHANGED <<got, over, shut>>

Read(e) == /\ over[e] = "no"
           /\ \E n \in 1..(sent[Far(e)] - Len(got[e])) :
                got' = [got EXCEPT ![e] = @ \o [i \in 1..n |-> Len(@) + i]]
           /\ UNCHANGED <<sent, over, shut>>

EndOfStream(e) == /\ over[e] = "no"
                  /\ shut[Far(e)] /\ Len(got[e]) = sent[Far(e)]
                  /\ over' = [over EXCEPT ![e] = "eof"]
                  /\ UNCHANGED <<sent, got, shut>>

Reset(e) == /\ over[e] = "no"
            /\ over' = [over EXCEPT ![e] = "reset"]
            /\ UNCHANGED <<sent, got, shut>>

Shut(e) == /\ ~shut[e]
           /\ shut' = [shut EXCEPT ![e] = TRUE]
           /\ UNCHANGED <<sent, got, over>>

\* A program that restarts reads from the beginning, or nothing at all.
Restart(e) == /\ sent[e] = 0
              /\ got' = [got EXCEPT ![e] = <<>>]
              /\ over' = [over EXCEPT ![e] = "no"]
              /\ shut' = [shut EXCEPT ![e] = FALSE]
              /\ UNCHANGED sent

Next == \E e \in Ends : \/ Write(e) \/ Read(e) \/ EndOfStream(e)
                        \/ Reset(e) \/ Shut(e) \/ Restart(e)

Spec == Init /\ [][Next]_vars
=============================================================================
