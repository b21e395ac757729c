-------------------------------- MODULE Rows --------------------------------
(* Loops over rows: those of a sequence that are in a set, in the order they  *)
(* had, and the rows of several sequences one after the other.                *)
EXTENDS Integers, Sequences

Those(s, S) ==
    LET upTo[n \in 0..Len(s)] ==
            IF n = 0 THEN <<>> ELSE IF s[n] \in S THEN Append(upTo[n - 1], s[n]) ELSE upTo[n - 1]
    IN  upTo[Len(s)]

Joined(s) ==
    LET upTo[n \in 0..Len(s)] == IF n = 0 THEN <<>> ELSE upTo[n - 1] \o s[n]
    IN  upTo[Len(s)]
=============================================================================
