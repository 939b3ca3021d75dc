------------------------------ MODULE Orderings ------------------------------
(***************************************************************************)
(* How an index selects an order: the two Lehmer-code decoders, one in the *)
(* engine (permutation.go, used to release held syscalls) and one in the   *)
(* spec runtime (star/interleavings.go, used to pin the branch order of a  *)
(* plan leaf), and the policies that say how many orders a parallel() call *)
(* contributes to the plan (star/leaf.go).                                 *)
(*                                                                         *)
(* Positions and digits count from 0 as in the code; a slice xs[i] is the  *)
(* TLA+ sequence element xs[i + 1].                                        *)
(***************************************************************************)
EXTENDS Naturals, Sequences

FactorialMax == 12

FactorialOf[n \in Nat] == IF n <= 1 THEN 1 ELSE n * FactorialOf[n - 1]

(* engine.Factorial stops at 12!, the last one that fits an int32. *)
Factorial(n) == FactorialOf[IF n > FactorialMax THEN FactorialMax ELSE n]

Identity(n) == [i \in 1..n |-> i - 1]

(* One decoding step: append the element at the digit, and remove it. *)
DecodeStep(st, f, digit) ==
  [perm  |-> Append(st.perm, st.pool[digit + 1]),
   pool  |-> SubSeq(st.pool, 1, digit) \o SubSeq(st.pool, digit + 2, Len(st.pool)),
   index |-> st.index % f]

PermutationFromIndexClamps(n, index) ==
  LET decode[i \in 0..n] ==
        IF i = 0 THEN [perm |-> <<>>, pool |-> Identity(n), index |-> index]
        ELSE LET prev == decode[i - 1]
                 f == Factorial(n - i)
                 digit == prev.index \div f
             IN  DecodeStep(prev, f, IF digit >= Len(prev.pool) THEN Len(prev.pool) - 1 ELSE digit)
  IN  decode[n].perm

PermutationFromIndex(n, index) ==
  LET decode[i \in 0..n] ==
        IF i = 0 THEN [perm |-> <<>>, pool |-> Identity(n), index |-> index % Factorial(n)]
        ELSE LET prev == decode[i - 1]
                 f == Factorial(n - i)
             IN  DecodeStep(prev, f, prev.index \div f)
  IN  decode[n].perm

PermutationByIndex(n, k) ==
  LET decode[i \in 0..n] ==
        IF i = 0 THEN [perm |-> <<>>, pool |-> Identity(n), index |-> k]
        ELSE LET prev == decode[i - 1]
                 f == FactorialOf[n - i]
                 digit == prev.index \div f
             IN  DecodeStep(prev, f, IF digit >= Len(prev.pool) THEN Len(prev.pool) - 1 ELSE digit)
  IN  decode[n].perm

-----------------------------------------------------------------------------
(* A policy is [kind |-> "single" | "all" | "critical" | "n", n |-> N]. *)
Smaller(a, b) == IF a < b THEN a ELSE b

InterleavingCardinalityUncapped(branches, policy) ==
  CASE branches < 2              -> 0
    [] policy.kind = "all"       -> FactorialOf[branches]
    [] policy.kind = "n"         -> policy.n
    [] policy.kind = "critical"  -> 2 * branches - 1
    [] OTHER                     -> 0

InterleavingCardinality(branches, policy) ==
  CASE branches < 2              -> 0
    [] policy.kind = "all"       -> FactorialOf[branches]
    [] policy.kind = "n"         -> Smaller(policy.n, FactorialOf[branches])
    [] policy.kind = "critical"  -> Smaller(2 * branches - 1, FactorialOf[branches])
    [] OTHER                     -> 0

InterleavingOrdering(branches, policy, idx) ==
  CASE policy.kind = "all" -> PermutationByIndex(branches, idx)
    [] policy.kind = "n" /\ idx < policy.n -> PermutationByIndex(branches, idx)
    [] /\ policy.kind = "critical"
       /\ idx < Smaller(2 * branches - 1, FactorialOf[branches])
         -> PermutationByIndex(branches, idx)
    [] OTHER -> Identity(branches)
=============================================================================
