---------------------------- MODULE MCElfSection ----------------------------
(* ElfSection on a short stream. *)
EXTENDS ElfSection

MCFile == <<"a", "b">>
=============================================================================
