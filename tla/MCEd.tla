--------------------------------- MODULE MCEd ---------------------------------
(* Values for the constants of Ed.                                         *)
EXTENDS Ed

(* No file, and files that fit the buffer, fill it and exceed it.          *)
StoredFiles == {NoFile, <<0, 1>>, <<2, 2>>, <<2, 2, 2>>}
(* What follows the s: a pattern and a replacement with the slashes as the *)
(* parser wants them, or without a replacement; and as the help text shows.*)
Forms == {<<1, Slash, 2, Slash>>, <<2, Slash>>}
HelpForms == {<<Slash, 1, Slash, 2, Slash>>}
=============================================================================
