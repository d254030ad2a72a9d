---------------------------- MODULE MCHlsAssets ----------------------------
(* Small instances of HlsAssets for TLC. *)
EXTENDS HlsAssets, TLC

\* Workers, sessions, assets and jobs are interchangeable; the last two carry
\* their track in the state.
Symmetry == Permutations(Workers) \cup Permutations(Assets)
            \cup Permutations(Jobs)
============================================================================
