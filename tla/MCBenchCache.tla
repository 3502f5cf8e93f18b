---------------------------- MODULE MCBenchCache ----------------------------
(***************************************************************************)
(* BenchCache on captures of different sizes: one cut, one of no bytes.     *)
(***************************************************************************)
EXTENDS BenchCache, TLC

Captures == 1 .. 4
Cut == 3
Empty == 4
Complete == Captures \ {Cut}
Sizes == [v \in Captures |-> CASE v = Empty -> 0 [] v = 2 -> 1 [] OTHER -> 2]

ProcessSymmetry == Permutations(Processes)

=============================================================================
