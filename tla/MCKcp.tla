------------------------------- MODULE MCKcp -------------------------------
(* Instances of KcpLink for TLC: what the program at each end writes. *)
EXTENDS KcpLink

\* Messages of one unit and one of two, which is read in two pieces.
FourUnits == [e \in Ends |-> IF e = "a" THEN <<2, 1, 1>> ELSE <<>>]
Single == [e \in Ends |-> IF e = "a" THEN <<1>> ELSE <<>>]
=============================================================================
