------------------------------ MODULE MCPrintf ------------------------------
(* Instances of Printf: an int of 12 bits, so that numbers have one to four *)
(* decimal digits, and calls of one escape between two characters, or of    *)
(* two escapes.                                                             *)
EXTENDS Printf

MCNumOf == [n \in {"1", "3", "6"} |->
              CASE n = "1" -> 1 [] n = "3" -> 3 [] n = "6" -> 6]

None      == [form |-> "none"]
Zero      == [form |-> "digits", token |-> "0", value |-> 0]
Empty     == [form |-> "empty"]
Digits(n) == [form |-> "digits", token |-> n, value |-> MCNumOf[n]]
Star(n)   == [form |-> "star", value |-> n]

Escapes(escs, flagss, widths, precisions, args) ==
  [esc : escs, flags : flagss, width : widths, precision : precisions, arg : args]
Plain(c) == [text |-> c]

Widths  == {None, Digits("1"), Digits("6"), Star(3)}
Unflagged == {<<>>, <<"0">>, <<"-">>, <<"-", "0">>, <<"#">>}
Signed  == Unflagged \cup {<<"+">>, <<" ">>, <<"+", "0">>, <<" ", "-">>, <<" ", "+">>}
Strings == {<<<<>>>>, <<<<"w">>>>, <<<<"w", "o", "r", "d">>>>}
(* Precisions that no number given is longer than, and, for %d, 0. *)
Wide    == {None, Digits("6"), Star(6)}
Ints    == {<<-2048>>, <<-7>>, <<0>>, <<10>>, <<2047>>}
Uints   == {<<0>>, <<10>>, <<171>>, <<4095>>}

OneEscape ==
       Escapes({"d"}, Signed, Widths, Wide, Ints)
  \cup Escapes({"d"}, Signed, Widths, {Zero, Empty, Star(0)}, {<<0>>})
  \cup Escapes({"u", "x", "X"}, Unflagged, Widths, Wide, Uints)
  \cup Escapes({"s"}, Unflagged, Widths, {None, Zero, Empty, Digits("3"), Star(1)}, Strings)
  \cup Escapes({"c"}, Unflagged, Widths, {None}, {<<<<>>>>, <<<<"w">>>>})
  \cup Escapes({"%"}, {<<>>, <<"-">>}, Widths, {None}, {<<>>})

(* Escapes for which the code does not do what C does, or of which it cuts *)
(* digits off: what they print is not looked at, but what is next to them. *)
Odd == Escapes({"u"}, {<<"+">>}, {Star(-3)}, {Digits("1"), Star(-1)}, {<<171>>})

Some == Odd \cup Escapes({"d"}, {<<>>, <<"-", "+">>}, {None, Digits("6")}, {None, Digits("6")}, {<<-7>>, <<10>>})
        \cup Escapes({"s"}, {<<>>, <<"-">>}, {None, Digits("6")}, {None, Digits("3")}, Strings)
        \cup Escapes({"C"}, {<<>>}, {None}, {None}, {<<7>>})

MCCalls ==
  { <<Plain("\n"), e, Plain("!")>> : e \in OneEscape }
  \cup { <<e, f>> : e \in Some, f \in Some }
  \cup { <<Plain("!"), e>> : e \in Escapes({"NUL"}, {<<>>, <<"-">>}, Widths, {None}, {<<>>}) }

(* A precision that is smaller than the number. *)
MCShort ==
  { <<Plain("\n"), e>> :
      e \in    Escapes({"d"}, {<<>>, <<"0">>}, Widths, {None, Digits("1"), Digits("3")}, Ints)
         \cup Escapes({"u", "x", "X"}, {<<>>, <<"0">>}, Widths,
                      {None, Digits("1"), Digits("3")}, Uints) }
=============================================================================
