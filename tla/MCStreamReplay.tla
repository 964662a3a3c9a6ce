--------------------------- MODULE MCStreamReplay ---------------------------
(***************************************************************************)
(* Small instances of StreamReplay; the responses are interchangeable.     *)
(***************************************************************************)
EXTENDS StreamReplay, TLC

MCSymmetry == Permutations(Clients)
=============================================================================
