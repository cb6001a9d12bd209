--------------------------- MODULE MCElfAccessors ---------------------------
(***************************************************************************)
(* Small instances of the accessors for TLC.                               *)
(***************************************************************************)
EXTENDS ElfAccessors, TLC

MCNames == {<<>>, <<"a">>, <<"b", "a">>}
MCHash == [n \in MCNames |-> CASE n = <<>> -> 0 [] n = <<"a">> -> 5 [] OTHER -> 3]

\* A section of notes may be empty or hold one whole note, one cut short, one
\* whose sizes are too large, or less than a note.
Letter == 1000
MCLoaded ==
    {<<>>, <<4, 4, 1, Letter, 8>>, <<4, 8, 1, Letter, 0>>, <<Letter, 0, 1, 0>>, <<0, 0, 1>>}

\* Neither the tables nor the accessors of a section are told apart.
Symmetry == Permutations(Tables) \cup Permutations(Accessors)
=============================================================================
