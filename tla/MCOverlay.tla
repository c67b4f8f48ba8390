------------------------------- MODULE MCOverlay -------------------------------
(* Two commands at a time, two distributions of one lockfile, in which     *)
(* pandas needs numpy and tests; tests is of a type the loader skips, and  *)
(* ghost is not in the lockfile.                                           *)
EXTENDS Overlay, TLC

CONSTANTS numpy, pandas, tests, ghost
MCDepends == (pandas :> {numpy, tests}) @@ [q \in {numpy, tests, ghost} |-> {}]
Request(packages, manifest, load, save) ==
  [packages |-> packages, manifest |-> manifest, load |-> load, save |-> save]
MCRequests ==
  { Request({}, {numpy}, FALSE, TRUE),
    Request({pandas, ghost}, {}, TRUE, FALSE),
    Request({}, {}, FALSE, TRUE) }
Symmetry == Permutations(Process) \cup Permutations(Fingerprint)

=============================================================================
