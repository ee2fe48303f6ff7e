------------------------------- MODULE Printf -------------------------------
(***************************************************************************)
(* console_vprintf() and fill_numbuf() (lib.c): the parser of the format,  *)
(* one action per part of an escape, and the field that an escape prints.  *)
(* Where the characters go on the screen is in Console.                    *)
(*                                                                         *)
(* A format is a sequence of tokens: a character, or a run of digits that  *)
(* the code reads as one number.  What is printed is a sequence of pieces, *)
(* each one a character of the format or the field of one escape.          *)
(***************************************************************************)
EXTENDS Integers, SequencesExt

CONSTANTS
  Word,     \* values of an unsigned int, 2^32
  NUMBUFSIZ,
  NumOf,    \* [run of digits -> its value]
  Calls     \* calls, each a sequence of [text |-> character] and
            \* [esc, flags, width, precision, arg] records; see Encode

Blank == " "   \* the character that pads, and a flag

ASSUME WordAssumption == Word \in Nat \ {0} /\ Word % 2 = 0

(* A run of digits that does not begin with 0, and is none of the other    *)
(* tokens.                                                                 *)
ASSUME NumAssumption ==
  \A t \in DOMAIN NumOf :
    /\ NumOf[t] \in Nat \ {0}
    /\ t \notin {"#", "0", "-", Blank, "+", "*", ".", "%", "NUL",
                 "d", "u", "x", "X", "s", "c", "C"}

VARIABLES
  call,
  at,                        \* the pointer "format"
  val,                       \* the arguments that are left
  stage,                     \* "text", "flags", "width", ... or "done"
  flags, width, precision,   \* of the escape being read
  color,
  out                        \* [color, chars] of the pieces printed

vars == <<call, at, val, stage, flags, width, precision, color, out>>

-----------------------------------------------------------------------------
(* How a caller writes a call: the format and the arguments.               *)
IsText(p) == "text" \in DOMAIN p

Number(n) == CASE n.form = "none"   -> <<>>
               [] n.form = "digits" -> <<n.token>>
               [] n.form = "star"   -> <<"*">>
Starred(n) == IF n.form = "star" THEN <<n.value>> ELSE <<>>
Dotted(n)  == CASE n.form = "none"  -> <<>>
                [] n.form = "empty" -> <<".">>
                [] OTHER            -> <<".">> \o Number(n)

Encode(p) ==
  IF IsText(p) THEN <<p.text>>
  ELSE <<"%">> \o p.flags \o Number(p.width) \o Dotted(p.precision) \o <<p.esc>>
Arguments(p) ==
  IF IsText(p) THEN <<>>
  ELSE Starred(p.width) \o Starred(p.precision) \o p.arg

(* The calls that C defines: each escape is complete, and its arguments    *)
(* have the types it asks for.  An escape with no letter, "NUL", ends the  *)
(* format.                                                                 *)
FlagChars  == {"#", "0", "-", Blank, "+"}

IsWidth(n) ==
  \/ n.form = "none"
  \/ n.form = "digits" /\ n.token \in DOMAIN NumOf /\ n.value = NumOf[n.token]
  \/ n.form = "star" /\ n.value \in Int
IsPrecision(n) ==
  \/ IsWidth(n)
  \/ n.form = "empty"
  \/ n.form = "digits" /\ n.token = "0" /\ n.value = 0

IsArgument(esc, arg) ==
  CASE esc = "d"               -> arg[1] \in -(Word \div 2) .. (Word \div 2) - 1
    [] esc \in {"u", "x", "X"} -> arg[1] \in 0 .. Word - 1
    [] esc \in {"s", "c"}      -> /\ arg[1] \in Seq(Range(arg[1]))
                                  /\ esc = "c" => Len(arg[1]) <= 1
    [] OTHER                   -> TRUE

IsEscape(p) ==
  /\ DOMAIN p = {"esc", "flags", "width", "precision", "arg"}
  /\ p.flags \in Seq(FlagChars)
  /\ IsWidth(p.width) /\ IsPrecision(p.precision)
  /\ p.esc \notin FlagChars \cup DOMAIN NumOf \cup {"*", "."}
  /\ p.arg \in Seq(Range(p.arg))
  /\ Len(p.arg) = IF p.esc \in {"d", "u", "x", "X", "s", "c", "C"} THEN 1 ELSE 0
  /\ IsArgument(p.esc, p.arg)

ASSUME CallAssumption ==
  \A c \in Calls :
    /\ c \in Seq(Range(c))
    /\ \A k \in DOMAIN c :
         \/ DOMAIN c[k] = {"text"} /\ c[k].text \notin {"%", "NUL"}
         \/ IsEscape(c[k]) /\ (c[k].esc = "NUL" => k = Len(c))

Format(c) == FlattenSeq([k \in DOMAIN c |-> Encode(c[k])])

Char(k) == LET f == Format(call) IN IF k <= Len(f) THEN f[k] ELSE "NUL"

-----------------------------------------------------------------------------
upper_digits == <<"0", "1", "2", "3", "4", "5", "6", "7", "8", "9",
                  "A", "B", "C", "D", "E", "F">>
lower_digits == <<"0", "1", "2", "3", "4", "5", "6", "7", "8", "9",
                  "a", "b", "c", "d", "e", "f">>
Copies(c, n) == [k \in 1 .. n |-> c]

(* A bug: the zeros that the precision asks for are put into numbuf. *)
Mutant_ZerosInNumbuf(x, base, digits, prec) ==
  LET d[n \in 0 .. Word - 1] ==
        IF n < base THEN <<digits[n + 1]>>
        ELSE Append(d[n \div base], digits[(n % base) + 1])
  IN IF prec # 0 \/ x # 0 THEN Copies("0", prec - Len(d[x])) \o d[x] ELSE <<>>

(* fill_numbuf(): digits from the last one, none for 0 with precision 0.   *)
FillNumbuf(x, base, digits, prec) ==
  LET d[n \in 0 .. Word - 1] ==
        IF n < base THEN <<digits[n + 1]>>
        ELSE Append(d[n \div base], digits[(n % base) + 1])
  IN IF prec # 0 \/ x # 0 THEN d[x] ELSE <<>>

Init ==
  /\ call \in Calls
  /\ val = FlattenSeq([k \in DOMAIN call |-> Arguments(call[k])])
  /\ at = 1 /\ stage = "text" /\ color = 0 /\ out = <<>>
  /\ flags = {} /\ width = -1 /\ precision = -1

Text ==
  /\ stage = "text" /\ Char(at) \notin {"%", "NUL"}
  /\ out' = Append(out, [color |-> color, chars |-> <<Char(at)>>])
  /\ at' = at + 1
  /\ UNCHANGED <<call, val, stage, flags, width, precision, color>>

(* A bug: the precision of the escape before is still there. *)
Mutant_KeepsPrecision ==
  /\ stage = "text" /\ Char(at) = "%"
  /\ flags' = {} /\ width' = -1
  /\ at' = at + 1
  /\ stage' = "flags"
  /\ UNCHANGED <<call, val, precision, color, out>>

Percent ==
  /\ stage = "text" /\ Char(at) = "%"
  /\ flags' = {} /\ width' = -1 /\ precision' = -1
  /\ at' = at + 1
  /\ stage' = "flags"
  /\ UNCHANGED <<call, val, color, out>>

Flag ==
  /\ stage = "flags" /\ Char(at) \in FlagChars
  /\ flags' = flags \cup {Char(at)}
  /\ at' = at + 1
  /\ UNCHANGED <<call, val, stage, width, precision, color, out>>

(* What follows the flags: a number, "*", or neither.                      *)
Width ==
  /\ stage = "flags" /\ Char(at) \notin FlagChars
  /\ \/ /\ Char(at) \in DOMAIN NumOf
        /\ width' = NumOf[Char(at)] /\ at' = at + 1 /\ val' = val
     \/ /\ Char(at) = "*"
        /\ width' = Head(val) /\ at' = at + 1 /\ val' = Tail(val)
     \/ /\ Char(at) \notin DOMAIN NumOf \cup {"*"}
        /\ UNCHANGED <<width, at, val>>
  /\ stage' = "precision"
  /\ UNCHANGED <<call, flags, precision, color, out>>

(* "." and then a number, "*", or neither; a negative precision counts as  *)
(* 0.                                                                      *)
Precision ==
  /\ stage = "precision"
  /\ \/ /\ Char(at) # "."
        /\ UNCHANGED <<precision, at, val>>
     \/ /\ Char(at) = "." /\ Char(at + 1) \in DOMAIN NumOf \cup {"0"}
        /\ precision' = IF Char(at + 1) = "0" THEN 0 ELSE NumOf[Char(at + 1)]
        /\ at' = at + 2 /\ val' = val
     \/ /\ Char(at) = "." /\ Char(at + 1) = "*"
        /\ precision' = IF Head(val) < 0 THEN 0 ELSE Head(val)
        /\ at' = at + 2 /\ val' = Tail(val)
     \/ /\ Char(at) = "." /\ Char(at + 1) \notin DOMAIN NumOf \cup {"0", "*"}
        /\ precision' = 0 /\ at' = at + 1 /\ val' = val
  /\ stage' = "convert"
  /\ UNCHANGED <<call, flags, width, color, out>>

(* data as the flags, width and precision ask for it.                      *)
FieldOf(data, numeric, negative) ==
  LET len   == IF precision >= 0 /\ precision < Len(data) THEN precision ELSE Len(data)
      sign  == IF negative THEN <<"-">>
               ELSE IF "+" \in flags THEN <<"+">>
               ELSE IF Blank \in flags THEN <<Blank>> ELSE <<>>
      zeros == IF numeric /\ precision > len THEN precision - len
               ELSE IF flags \cap {"0", "-"} = {"0"} /\ numeric /\ precision < 0
                 THEN width - len - Len(sign)
               ELSE 0
      body  == sign \o Copies("0", zeros) \o SubSeq(data, 1, len)
      pad   == Copies(Blank, width - Len(body))
  IN IF "-" \in flags THEN body \o pad ELSE pad \o body

PutField(data, numeric, negative) ==
  out' = Append(out, [color |-> color, chars |-> FieldOf(data, numeric, negative)])

(* The digits of the number that is next. *)
Negative == Char(at) = "d" /\ Head(val) < 0
Numbuf ==
  LET x        == Head(val)
      base     == IF Char(at) \in {"d", "u"} THEN 10 ELSE 16
      digits   == IF Char(at) = "x" THEN lower_digits ELSE upper_digits
      absolute == IF Negative THEN -x ELSE x
  IN FillNumbuf(absolute % Word, base, digits, precision)

Numeric ==
  /\ stage = "convert" /\ Char(at) \in {"d", "u", "x", "X"}
  /\ PutField(Numbuf, TRUE, Negative)
  /\ val' = Tail(val)
  /\ at' = at + 1 /\ stage' = "text"
  /\ UNCHANGED <<call, flags, width, precision, color>>

(* %s and %c: a string is its characters.  The argument of %c is one       *)
(* character; the character 0 is stored as the empty string.               *)
String ==
  /\ stage = "convert" /\ Char(at) \in {"s", "c"}
  /\ PutField(Head(val), FALSE, FALSE)
  /\ val' = Tail(val)
  /\ at' = at + 1 /\ stage' = "text"
  /\ UNCHANGED <<call, flags, width, precision, color>>

Color ==
  /\ stage = "convert" /\ Char(at) = "C"
  /\ color' = Head(val)
  /\ val' = Tail(val)
  /\ at' = at + 1 /\ stage' = "text"
  /\ UNCHANGED <<call, flags, width, precision, out>>

(* Any other character stands for itself; at the end of the format, "%".   *)
Other ==
  /\ stage = "convert" /\ Char(at) \notin {"d", "u", "x", "X", "s", "c", "C"}
  /\ PutField(<<IF Char(at) = "NUL" THEN "%" ELSE Char(at)>>, FALSE, FALSE)
  /\ at' = IF Char(at) = "NUL" THEN at ELSE at + 1
  /\ stage' = "text"
  /\ UNCHANGED <<call, val, flags, width, precision, color>>

Finish ==
  /\ stage = "text" /\ Char(at) = "NUL"
  /\ stage' = "done"
  /\ UNCHANGED <<call, at, val, flags, width, precision, color, out>>

Next ==
  \/ Text \/ Percent \/ Flag \/ Width \/ Precision
  \/ Numeric \/ String \/ Color \/ Other \/ Finish

Spec == Init /\ [][Next]_vars

-----------------------------------------------------------------------------
(* What a reader of the output sees.  Field(f, p) says that the characters *)
(* f are the field that the escape p asks for, without saying how to make  *)
(* them.  For %d, %u, %x, %X, %c and %s with a width, a precision and      *)
(* flags, the field is the one that C's printf defines (C11 7.21.6.1).     *)
(* What C leaves undefined is as the code has it: another character behind *)
(* the % stands for itself, a precision cuts %c and such a character as it *)
(* cuts %s, and '#' and '0' have no effect where they do not belong.       *)
DigitValue(c) ==
  CHOOSE d \in 0 .. 15 : c \in {upper_digits[d + 1], lower_digits[d + 1]}
ValueOf(s, base) ==
  LET v[k \in 0 .. Len(s)] ==
        IF k = 0 THEN 0 ELSE v[k - 1] * base + DigitValue(s[k])
  IN v[Len(s)]

HasFlag(p, f) == \E k \in DOMAIN p.flags : p.flags[k] = f
Given(n, default) ==
  CASE n.form \in {"digits", "star"} -> n.value
    [] n.form = "empty" -> 0
    [] n.form = "none"  -> default

Sign(p) ==
  IF p.esc # "d" THEN <<>>
  ELSE IF p.arg[1] < 0 THEN <<"-">>
  ELSE IF HasFlag(p, "+") THEN <<"+">>
  ELSE IF HasFlag(p, Blank) THEN <<Blank>> ELSE <<>>

IsNumber(p) == p.esc \in {"d", "u", "x", "X"}
Absolute(p) == IF p.esc = "d" /\ p.arg[1] < 0 THEN -p.arg[1] ELSE p.arg[1] % Word
Base(p)     == IF p.esc \in {"d", "u"} THEN 10 ELSE 16

(* The flag '#': C prints 0x or 0X before a hexadecimal number.            *)
HexPrefixed(p) ==
  p.esc \in {"x", "X"} /\ HasFlag(p, "#") /\ Absolute(p) # 0

(* What stands before the number, and counts as part of the field.         *)
Prefix(p) == IF HexPrefixed(p) THEN <<"0", p.esc>> ELSE Sign(p)

(* body is the number: at least as many digits as the precision says, and  *)
(* no more zeros in front than the precision or the flag '0' ask for.      *)
IsBody(body, p) ==
  LET prec   == Given(p.precision, 1)
      fill   == HasFlag(p, "0") /\ ~HasFlag(p, "-") /\ p.precision.form = "none"
      enough == IF fill /\ Given(p.width, 0) - Len(Prefix(p)) > prec
                  THEN Given(p.width, 0) - Len(Prefix(p)) ELSE prec
  IN /\ Range(body) \subseteq Range(IF p.esc = "x" THEN lower_digits ELSE upper_digits)
     /\ Len(body) >= enough
     /\ Len(body) > enough => body[1] # "0"
     /\ ValueOf(body, Base(p)) = Absolute(p)

(* body is the string, cut off at the precision. *)
IsString(body, p) ==
  LET s == IF p.esc \in {"s", "c"} THEN p.arg[1]
           ELSE <<IF p.esc = "NUL" THEN "%" ELSE p.esc>>
  IN /\ IsPrefix(body, s)
     /\ Len(body) = (IF Given(p.precision, Len(s)) < Len(s)
                       THEN Given(p.precision, Len(s)) ELSE Len(s))

Field(f, p) ==
  \E l, r \in 0 .. Len(f) :
    LET prefix == Prefix(p)
        text == SubSeq(f, l + 1, Len(f) - r)
        body == SubSeq(text, Len(prefix) + 1, Len(text))
    IN /\ l + r <= Len(f) /\ IsPrefix(prefix, text)
       /\ SubSeq(f, 1, l) = Copies(Blank, l)
       /\ SubSeq(f, Len(f) - r + 1, Len(f)) = Copies(Blank, r)
       /\ IF HasFlag(p, "-") THEN l = 0 ELSE r = 0
       /\ Len(text) < Len(f) => Len(f) = Given(p.width, 0)
       /\ Len(f) >= Given(p.width, 0)
       /\ IF IsNumber(p) THEN IsBody(body, p) ELSE IsString(body, p)

(* The escapes for which the code does what C's printf does.  The others:  *)
(* - an argument for the width or the precision is negative (in C, the     *)
(*   flag '-' and no precision);                                           *)
(* - "+" or " " with another conversion than %d (in C, no effect);         *)
(* - "#" with %x or %X (in C, a prefix): the code reads the flag and never *)
(*   looks at it again;                                                    *)
(* - %c of the character 0 (in C, that character);                         *)
(* - a precision cuts digits off (see NumberInFull).                       *)
NumberOfDigits(x, base) ==
  LET n[y \in 0 .. Word - 1] == IF y < base THEN 1 ELSE n[y \div base] + 1
  IN n[x]

Conventional(p) ==
  /\ Given(p.width, 0) >= 0 /\ Given(p.precision, 0) >= 0
  /\ p.esc # "d" => ~HasFlag(p, "+") /\ ~HasFlag(p, Blank)
  /\ ~HexPrefixed(p)
  /\ p.esc = "c" => Len(p.arg[1]) = 1
  /\ IsNumber(p) /\ p.precision.form # "none" =>
       \/ Absolute(p) = 0
       \/ NumberOfDigits(Absolute(p), Base(p)) <= Given(p.precision, 0)

(* The pieces of a call that print something: where in the output, and in  *)
(* the color of the last %C before them.                                   *)
SetsColor(p) == ~IsText(p) /\ p.esc = "C"
Printing(n)  == {j \in 1 .. n : ~SetsColor(call[j])}
Place(k)     == Cardinality(Printing(k - 1)) + 1
LastColor(k) == {j \in 1 .. k - 1 : /\ SetsColor(call[j])
                                    /\ \A n \in j + 1 .. k - 1 : ~SetsColor(call[n])}
ColorOf(k)   == IF LastColor(k) = {} THEN 0
                ELSE call[CHOOSE j \in LastColor(k) : TRUE].arg[1]

(* console_printf() prints every character of the format, and for every    *)
(* escape the field it asks for, as far as it is Conventional, in order    *)
(* and in the right color; what one escape says does not change another.   *)
Rendered ==
  /\ stage = "done" => Len(out) = Cardinality(Printing(Len(call)))
  /\ \A k \in Printing(Len(call)) : Place(k) <= Len(out) =>
       /\ out[Place(k)].color = ColorOf(k)
       /\ IF IsText(call[k]) THEN out[Place(k)].chars = <<call[k].text>>
          ELSE Conventional(call[k]) => Field(out[Place(k)].chars, call[k])

(* A %d, %u, %x or %X prints all of its number: lib.h, "to print an        *)
(* integer in decimal notation ... also takes field widths and so forth".  *)
NumberInFull ==
  \A k \in Printing(Len(call)) :
    Place(k) <= Len(out) /\ ~IsText(call[k]) /\ IsNumber(call[k]) =>
      LET digits == SelectSeq(out[Place(k)].chars,
                              LAMBDA c : c \in Range(upper_digits) \cup Range(lower_digits))
      IN ValueOf(digits, Base(call[k])) = Absolute(call[k])

(* The array holds the decimal digits of the largest number and a '\0'.    *)
ASSUME NumbufAssumption ==
  NUMBUFSIZ \in Nat /\ NumberOfDigits(Word - 1, 10) < NUMBUFSIZ

(* fill_numbuf() writes from the end of numbuf and never looks for its     *)
(* beginning: the digits of a number and the '\0' behind them do not reach *)
(* it, whatever the base, the sign and the precision.                      *)
NumbufFits ==
  stage = "convert" /\ Char(at) \in {"d", "u", "x", "X"} => Len(Numbuf) < NUMBUFSIZ
=============================================================================
