------------------------------- MODULE Lists -------------------------------
(***************************************************************************)
(* What the modules say of the queues and lists of the code: what is in    *)
(* one, and that nothing is in it twice.                                   *)
(***************************************************************************)
EXTENDS Naturals, Sequences

Elems(s) == {s[i] : i \in 1..Len(s)}

Distinct(s) == \A i, j \in 1..Len(s) : s[i] = s[j] => i = j
=============================================================================
