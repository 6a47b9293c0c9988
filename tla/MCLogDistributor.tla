-------------------------- MODULE MCLogDistributor --------------------------
(* LogDistributor.tla with two logs of at most two lines and ints of four  *)
(* bits.  One line is half of the largest int, so that the sum of two of   *)
(* them, in one log or in two, leaves it.                                  *)
EXTENDS LogDistributor

CONSTANTS f1, f2, u1, u2, r, dash

MCLines == {[url |-> u1, size |-> 4, ref |-> r],
            [url |-> u2, size |-> 1, ref |-> dash],
            [url |-> dash, size |-> 1, ref |-> r],
            [url |-> u2, size |-> 0, ref |-> r]}

Symmetry == Permutations({f1, f2})
=============================================================================
