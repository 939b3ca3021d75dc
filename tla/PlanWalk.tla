------------------------------ MODULE PlanWalk ------------------------------
(***************************************************************************)
(* The plan walker over one parallel() site: its leaves in order, for      *)
(* every policy and up to MaxBranches branches.                            *)
(***************************************************************************)
EXTENDS Orderings, SequencesExt

CONSTANTS MaxBranches, MaxN

Policies == { [kind |-> k, n |-> 0] : k \in {"single", "all", "critical"} }
            \cup { [kind |-> "n", n |-> n] : n \in 2..MaxN }

VARIABLES branches, policy, leaf, seen
vars == <<branches, policy, leaf, seen>>

Init ==
  /\ branches \in 1..MaxBranches
  /\ policy \in Policies
  /\ leaf = 0
  /\ seen = {}

(* runTestFanout: run the leaf, that is, drive the branches in its order. *)
RunLeaf ==
  /\ leaf < InterleavingCardinality(branches, policy)
  /\ seen' = seen \cup {InterleavingOrdering(branches, policy, leaf)}
  /\ leaf' = leaf + 1
  /\ UNCHANGED <<branches, policy>>

Spec == Init /\ [][RunLeaf]_vars

-----------------------------------------------------------------------------
(* The reference: permutations of 0..n-1 and their lexicographic rank. *)
Perms(n) == { p \in [1..n -> 0..(n - 1)] : IsInjective(p) }

LexLess(p, q) ==
  \E i \in DOMAIN p : p[i] < q[i] /\ \A j \in 1..(i - 1) : p[j] = q[j]

Rank(p) == Cardinality({ q \in Perms(Len(p)) : LexLess(q, p) })

(* Both decoders return "the k-th lexicographic permutation"              *)
(* (interleavings.go:81): for every k below n!, the rank of the result is  *)
(* k, so "the plan walker and the engine agree on which ordering each leaf *)
(* index pins" (interleavings.go:82); the engine's wraps around past n!.   *)
DecodesLexicographicRank ==
  /\ leaf < FactorialOf[branches] =>
       \A p \in {PermutationByIndex(branches, leaf), PermutationFromIndex(branches, leaf)} :
          p \in Perms(branches) /\ Rank(p) = leaf
  /\ PermutationFromIndex(branches, leaf + FactorialOf[branches]) =
       PermutationFromIndex(branches, leaf)

(* No two leaves of a site run the same order, and under "all" the leaves  *)
(* cover every order there is (leaf.go:272).                               *)
LeavesDistinctAndComplete ==
  /\ Cardinality(seen) = leaf
  /\ policy.kind = "all" /\ branches > 1 /\ leaf = InterleavingCardinality(branches, policy)
       => seen = Perms(branches)

(* The leaves of a parallel() site are the orders they are meant to be. *)
OrderingsAreExact == DecodesLexicographicRank /\ LeavesDistinctAndComplete
=============================================================================
