-------------------------- MODULE MCSegmentLattice --------------------------
(***************************************************************************)
(* A small instance of SegmentLattice: two jamo, every word of up to two   *)
(* of them and two that do not fit, every changed suffix of up to three,   *)
(* and room for six positions, so that they run out in mid-segment.        *)
(***************************************************************************)
EXTENDS SegmentLattice

WordsUpTo(n) == UNION { [1 .. m -> Keys] : m \in 0 .. n }

MCWords == WordsUpTo(2) \cup UNION { [1 .. 6 -> {k}] : k \in Keys }
MCSegments == WordsUpTo(3) \cup { w \in [1 .. 4 -> Keys] : w[1] = w[2] }

=============================================================================
