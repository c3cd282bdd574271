----------------------------- MODULE MCContents -----------------------------
(***************************************************************************)
(* Contents and names for the members of archives and directories: x       *)
(* decodes, y is over the cap, z looks binary, void is empty; name 2 is an *)
(* image's and 4 a HEIC image's.                                           *)
(***************************************************************************)
EXTENDS Processing

CONSTANTS x, y, z, void

Contents4 == {x, y, z, void}
Sizes == [c \in Contents4 |-> IF c = void THEN 0 ELSE IF c = y THEN 2 ELSE 1]
Extensions ==
  [p \in 1 .. 9 |-> IF p = 2 THEN "image" ELSE IF p = 4 THEN "heic" ELSE "other"]
=============================================================================
