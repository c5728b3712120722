----------------------------- MODULE MCLineEditor -----------------------------
(* Values for the constants of LineEditor.                                 *)
EXTENDS LineEditor

APrompt == <<">">>
(* At the beginning of the line the builtin and the file match, behind a   *)
(* space only the file.                                                    *)
Commands == <<<<"a", "a">>>>
Names    == <<<<"a">>>>
(* A file with more lines than the ring holds, one of them empty and one   *)
(* too long.                                                               *)
SavedFiles == {<<<<"a">>, <<>>, <<"a", "a">>, <<"a", "a", "a", "a", "a">>, <<" ", "a">>>>}
(* Text without a newline at its end, behind which the longest line just   *)
(* does not fit its row.  A prompt at column 0 comes from an empty command *)
(* or a clear.                                                             *)
AText == {<<"a">>}

(* The rows above the cursor are not read again, and of the longest line   *)
(* only whether it fitted its row.                                         *)
Visible == <<line, pos, hist, count, index, pcol, given, shows, left, moved,
             overrun, Fits(widest), scr.row, scr.col,
             [y \in scr.row .. Height - 1 |-> scr.cell[y]]>>
=============================================================================
