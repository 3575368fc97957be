--------------------------- MODULE MCExternalScanner --------------------------
(***************************************************************************)
(* Texts of dollar signs, slashes, stars, the letter a and blanks.         *)
(***************************************************************************)
EXTENDS ExternalScanner

MCBlank == {32}
MCChar  == {36, 47, 42, 97} \cup MCBlank
===============================================================================
