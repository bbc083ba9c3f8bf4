--------------------------- MODULE MCImportPreview ---------------------------
(* Two overlapping files that list their common lines in opposite orders;  *)
(* the second repeats a line.                                              *)
EXTENDS ImportPreview

MCLines == [f \in {"ab", "bab"} |-> IF f = "ab" THEN <<"a", "b">> ELSE <<"b", "a", "b">>]
=============================================================================
