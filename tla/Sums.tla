--------------------------------- MODULE Sums ---------------------------------
(* Sums of the numbers in a sequence, as the loops of the reporting tools add  *)
(* them up.                                                                    *)
EXTENDS Integers, Sequences

SumOf(terms) ==
  LET upTo[n \in 0 .. Len(terms)] == IF n = 0 THEN 0 ELSE upTo[n - 1] + terms[n] IN upTo[Len(terms)]
=============================================================================
