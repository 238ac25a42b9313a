--------------------------- MODULE MCSessionControl ---------------------------
(* A small instance of SessionControl: arrangements in which the numbers of a  *)
(* tab on the screen, in the file and after a restart differ, because untitled *)
(* tabs are not saved and the file b can no longer be opened.                  *)
EXTENDS SessionControl

CONSTANTS a, b, c

Files == {a, b, c}
Desks == {[tabs |-> <<NoFile, b, a, c>>, active |-> 4], [tabs |-> <<NoFile, b, a, c>>, active |-> 3],
          [tabs |-> <<b, a>>, active |-> 1], [tabs |-> <<a, NoFile>>, active |-> 2]}
=============================================================================
