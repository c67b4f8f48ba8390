----------------------------- MODULE Subsequences -----------------------------
(***************************************************************************)
(* What Vec::retain and sort_unstable do to a sequence, defined through    *)
(* the ranks of its positions.  Sequences defines SelectSeq and SortSeq by *)
(* recursion; these definitions have the same values (the module of their  *)
(* lemmas is SubsequenceProofs).                                           *)
(***************************************************************************)
EXTENDS Integers, Sequences, FiniteSets

Elements(s) == {s[i] : i \in 1..Len(s)}

Distinct(s) == \A i, j \in 1..Len(s) : s[i] = s[j] => i = j

(* The n-th smallest member of a finite set of integers.                   *)
Rank(K, k) == Cardinality({j \in K : j <= k})
Nth(K, n) == CHOOSE k \in K : Rank(K, k) = n

(* What is left of s when only the positions in K are kept.                *)
Kept(s, K) == [n \in 1..Cardinality(K) |-> s[Nth(K, n)]]

(* s.retain(|y| S.contains(y))                                             *)
Retained(s, S) == Kept(s, {i \in 1..Len(s) : s[i] \in S})

(* s.retain(|y| y != x)                                                    *)
Without(s, x) == Kept(s, {i \in 1..Len(s) : s[i] # x})

(* s.sort_by_key(..), stable, key[p] being the key of the element at p: the *)
(* n-th of the result is at the position that n - 1 positions come before. *)
SortedBy(s, key) ==
  [n \in 1..Len(s) |->
     s[CHOOSE p \in 1..Len(s) :
         Cardinality({q \in 1..Len(s) :
                        key[q] < key[p] \/ (key[q] = key[p] /\ q <= p)}) = n]]

(* s.sort_unstable() for a sequence of integers.                           *)
Sorted(s) == SortedBy(s, s)
===============================================================================
