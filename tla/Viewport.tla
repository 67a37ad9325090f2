------------------------------- MODULE Viewport -------------------------------
(***************************************************************************)
(* Which rows of the process list are drawn: the scrolling of              *)
(* render_processes (src/main.c).  The height of the terminal is asked for *)
(* anew in every frame, so nothing is kept between two frames.             *)
(***************************************************************************)
EXTENDS Integers

table_row == 8
about_row(height) == height - 9

\* The lines the scrolling counts on: at least 4, also where there are fewer.
Visible(height) ==
    LET lines == about_row(height) - table_row - 1
    IN  IF lines < 4 THEN 4 ELSE lines

\* Index of the first row drawn: the list moves up once the highlight passes the
\* last visible line.
FirstRow(height, count, highlight) ==
    IF count > 0 /\ highlight >= Visible(height) THEN highlight - Visible(height) + 1 ELSE 0

\* The rows drawn, from table_row down to the rule above ABOUT THIS PROCESS.
Drawn(height, count, highlight) ==
    LET first == FirstRow(height, count, highlight)
    IN  {i \in first .. count - 1 : table_row + (i - first) < about_row(height) - 1}
=============================================================================
