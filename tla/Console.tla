------------------------------ MODULE Console ------------------------------
(***************************************************************************)
(* Cursor arithmetic on the CGA text screen (lib.c, lib.h).                *)
(*                                                                         *)
(* A cursor is the number of cells between CONSOLE_BEGIN and the pointer   *)
(* the C code holds; CONSOLE_END is COLS * ROWS cells further on (80 * 25  *)
(* in lib.h).  The pointer one past the last cell is a legal cursor: it    *)
(* is console_putc that moves it back before it writes.                    *)
(***************************************************************************)
EXTENDS Integers

CONSTANTS
  COLS,   \* cells in a row of the screen (80)
  ROWS    \* rows of the screen (25)

ASSUME ScreenAssumption == COLS \in Nat \ {0} /\ ROWS \in Nat \ {0}

CONSOLE_END == COLS * ROWS

(* console_putc: "if (cursor >= CONSOLE_END) cursor = CONSOLE_BEGIN". *)
WrapCursor(cursor) == IF cursor >= CONSOLE_END THEN 0 ELSE cursor

(* console_putc of '\n': blanks up to the end of the row the (wrapped)     *)
(* cursor is in, which may leave the cursor on CONSOLE_END.                *)
EndOfRow(cursor) == ((WrapCursor(cursor) \div COLS) + 1) * COLS

(* The cells that one such newline, or text shorter than a row followed by *)
(* a newline, fills.                                                       *)
RowCells(cursor) == WrapCursor(cursor) .. (EndOfRow(cursor) - 1)
=============================================================================
