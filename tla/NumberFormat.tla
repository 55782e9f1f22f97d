---------------------------- MODULE NumberFormat ----------------------------
(***************************************************************************)
(* What becomes of the arguments of a message: the overloads of            *)
(* Log::append, the formats that may stand before an argument in a chain   *)
(* or in send, and the conversion of integers and floating point numbers.  *)
(* A text is the sequence of its characters, a word one of them.  Integers *)
(* are as narrow as Width makes them; floating point numbers are decimal   *)
(* fractions of Precision + 1 digits, which are computed with exactly.     *)
(***************************************************************************)
EXTENDS Integers, Sequences

CONSTANTS
  Width,        \* bits of each type of integers
  TypeFormat,   \* the formats of LogConfig for each type of numbers
  Formats,      \* the formats that the application uses
  StackLength,  \* LogConfig::appendStackBufferLength
  Precision,    \* digits of a floating point number after the first
  Mantissas,    \* its digits as one integer; 0 for zero
  Exponents,    \* its exponents of ten
  MaxLinks      \* bound: links of a chain

Signed == {"int8", "int16", "int32", "int64"}
Unsigned == {"uint8", "uint16", "uint32", "uint64"}
Floating == {"float", "double"}
LogFormat == [base : Nat, fill : Nat]

Power(b, k) == LET power[i \in Nat] == IF i = 0 THEN 1 ELSE b * power[i - 1] IN power[k]

ASSUME FormatAssumption ==
  /\ Width \in [Signed \cup Unsigned -> Nat \ {0}]
  /\ TypeFormat \in [Signed \cup Unsigned \cup Floating -> LogFormat]
  /\ Formats \subseteq LogFormat
  /\ StackLength \in Nat \ {0} /\ Precision \in Nat /\ MaxLinks \in Nat
  /\ Mantissas \subseteq {0} \cup Power(10, Precision) .. Power(10, Precision + 1) - 1
  /\ Exponents \subseteq Int

VARIABLES
  prefix,      \* LogConfig::appendBasePrefix
  align,       \* LogConfig::alignSigned
  nextFormat,  \* mNextFormat of the LogShiftChainHelper
  links,       \* the links of the chain so far; a send takes all of them
  given,       \* history: the format that stands right before, or Nothing
  item         \* history: the last argument, the format given for it, whether both
               \* were links of a chain, and the text

vars == <<prefix, align, nextFormat, links, given, item>>

NoFormat == [base |-> 0, fill |-> 0]
Nothing == <<>>

\* LogFormat::isValid; the bases of append are the same.
IsValid(f) == f.base \in {2, 10, 16}

Integer(t, v) == [type |-> t, kind |-> "integer", value |-> v]

Word(t) ==
  IF t \in Signed THEN -Power(2, Width[t] - 1) .. Power(2, Width[t] - 1) - 1
  ELSE 0 .. Power(2, Width[t]) - 1

Arguments ==
  (UNION {{Integer(t, v) : v \in Word(t)} : t \in Signed \cup Unsigned})
    \cup [type : Floating, kind : {"finite"}, negative : BOOLEAN, mantissa : Mantissas,
          exponent : Exponents]
    \cup [type : Floating, kind : {"nan", "inf"}]
    \cup [type : {"string", "bool"}, kind : {"text"}]

Init ==
  /\ prefix \in BOOLEAN /\ align \in BOOLEAN
  /\ nextFormat = NoFormat
  /\ links = 0
  /\ given = Nothing
  /\ item = Nothing

-----------------------------------------------------------------------------
Digit2char ==
  <<"0", "1", "2", "3", "4", "5", "6", "7", "8", "9", "a", "b", "c", "d", "e", "f">>

\* Division of C++ truncates: the remainder has the sign of the dividend.
Abs(n) == IF n < 0 THEN -n ELSE n
Quotient(n, b) == IF n < 0 THEN -((-n) \div b) ELSE n \div b
Remainder(n, b) == n - b * Quotient(n, b)

\* Mutant: the loop stops one digit short.
DigitsShort(v, b) ==
  LET turn[k \in 0 .. StackLength] ==
        IF k = 0 THEN [rest |-> v, text |-> <<>>]
        ELSE LET t == turn[k - 1]
             IN  IF k > 1 /\ t.rest = 0 THEN t
                 ELSE [rest |-> Quotient(t.rest, b),
                       text |-> <<Digit2char[Abs(Remainder(t.rest, b)) + 1]>> \o t.text]
  IN  turn[StackLength].text

\* The loop that fills the buffer on the stack, the last digit first.  It ends
\* when it has written one character more than the buffer holds.
Digits(v, b) ==
  LET turn[k \in 0 .. StackLength + 1] ==
        IF k = 0 THEN [rest |-> v, text |-> <<>>]
        ELSE LET t == turn[k - 1]
             IN  IF k > 1 /\ t.rest = 0 THEN t
                 ELSE [rest |-> Quotient(t.rest, b),
                       text |-> <<Digit2char[Abs(Remainder(t.rest, b)) + 1]>> \o t.text]
  IN  turn[StackLength + 1].text

\* Mutant: only a sign takes space.
SignUnaligned(v, fill) == IF v < 0 THEN <<"-">> ELSE <<>>

Sign(v, fill) ==
  IF v < 0 THEN <<"-">> ELSE IF align /\ fill > 0 THEN <<" ">> ELSE <<>>

BasePrefix(b) ==
  IF prefix THEN CASE b = 2 -> <<"0", "b">> [] b = 16 -> <<"0", "x">> [] OTHER -> <<>>
  ELSE <<>>

\* append for integers: # for what cannot be converted.
AppendInteger(v, f) ==
  IF ~IsValid(f) THEN <<"#">>
  ELSE LET digits == Digits(v, f.base)
       IN  BasePrefix(f.base) \o
             IF Len(digits) > StackLength THEN <<"#">>
             ELSE Sign(v, f.fill) \o [i \in 1 .. f.fill - Len(digits) |-> "0"] \o digits

\* The digits of a floating point number, the last of them rounded, but never up
\* to ten.
FloatingDigits(mantissa, last) ==
  LET one == Power(10, Precision)
      normalized[i \in Nat \ {0}] ==
        IF i = 1 THEN mantissa ELSE 10 * (normalized[i - 1] % one)
      truncated(i) == normalized[i] \div one
      rounded(i) == (2 * normalized[i] + one) \div (2 * one)
      capped(d) == IF d > 9 THEN 9 ELSE d
  IN  [i \in 1 .. last |->
         Digit2char[capped(IF i < last THEN truncated(i) ELSE rounded(i)) + 1]]

\* append for floating point numbers: digitsNeeded digits, at least one.
AppendFloating(x, digitsNeeded) ==
  CASE x.kind \in {"nan", "inf"} -> <<x.kind>>
    [] x.kind = "finite" /\ x.mantissa = 0 -> <<"0">>
    [] OTHER ->
        LET last == IF digitsNeeded > 1 THEN digitsNeeded ELSE 1
            digits == FloatingDigits(x.mantissa, last)
        IN  (IF x.negative THEN <<"-">> ELSE IF align THEN <<" ">> ELSE <<>>)
              \o (IF last > 1 THEN <<digits[1], ".">> \o Tail(digits) ELSE digits)
              \o <<"e">> \o (IF x.exponent >= 0 THEN <<"+">> ELSE <<>>)
              \o AppendInteger(x.exponent, [base |-> 10, fill |-> 0])

AppendNumber(x, f) ==
  IF x.kind = "integer" THEN AppendInteger(x.value, f) ELSE AppendFloating(x, f.fill)

\* The overloads without a format take that of LogConfig; the one for uint64_t
\* takes that of uint32_t.
AppendDefault(x) ==
  IF x.kind = "text" THEN <<x.type>>
  ELSE AppendNumber(x, TypeFormat[IF x.type = "uint64" THEN "uint32" ELSE x.type])

\* The overloads with a format.  There is none for bool, and that for int32_t
\* has another name: both go to the template for anything else.
AppendFormatted(f, x) ==
  CASE x.type = "string" -> <<x.type>>
    [] x.type \in {"bool", "int32"} -> <<"-=unknown=-">>
    [] OTHER -> AppendNumber(x, f)

-----------------------------------------------------------------------------
Link == links < MaxLinks /\ links' = links + 1

\* << of the helper with a format: it waits for the next argument.
SetFormat(f) ==
  /\ Link
  /\ nextFormat' = f
  /\ given' = f
  /\ UNCHANGED <<prefix, align, item>>

\* Mutant: the format stays for the arguments after the next.
ArgumentKeeping(x) ==
  /\ Link
  /\ item' = [argument |-> x, given |-> given, chained |-> TRUE,
              text |-> IF IsValid(nextFormat) THEN AppendFormatted(nextFormat, x)
                       ELSE AppendDefault(x)]
  /\ given' = Nothing
  /\ UNCHANGED <<prefix, align, nextFormat>>

\* << of the helper with an argument: a valid format is used up.
Argument(x) ==
  /\ Link
  /\ item' = [argument |-> x, given |-> given, chained |-> TRUE,
              text |-> IF IsValid(nextFormat) THEN AppendFormatted(nextFormat, x)
                       ELSE AppendDefault(x)]
  /\ nextFormat' = IF IsValid(nextFormat) THEN [nextFormat EXCEPT !.base = 0] ELSE nextFormat
  /\ given' = Nothing
  /\ UNCHANGED <<prefix, align>>

\* doSend with a format: whatever it is, it goes with the argument after it.
SendFormatted(f, x) ==
  /\ links = 0 /\ links' = MaxLinks
  /\ item' = [argument |-> x, given |-> f, chained |-> FALSE,
              text |-> AppendFormatted(f, x)]
  /\ UNCHANGED <<prefix, align, nextFormat, given>>

Next ==
  \/ \E f \in Formats : SetFormat(f)
  \/ \E x \in Arguments : Argument(x)
  \/ \E f \in Formats, x \in Arguments : SendFormatted(f, x)

Spec == Init /\ [][Next]_vars

-----------------------------------------------------------------------------
\* The reader of the log.
DigitValue(c) == CHOOSE d \in 0 .. 15 : Digit2char[d + 1] = c

Value(s, b) ==
  LET value[k \in 0 .. Len(s)] == IF k = 0 THEN 0 ELSE b * value[k - 1] + DigitValue(s[k])
  IN  value[Len(s)]

IsNumeral(s, b) ==
  s # <<>> /\ \A i \in 1 .. Len(s) : \E d \in 0 .. b - 1 : s[i] = Digit2char[d + 1]

Unsign(s) == IF s[1] \in {"-", " "} THEN Tail(s) ELSE s

\* # for what has more digits than the buffer; no zeros before the digits but to
\* fill up.
ReadsInteger(t, v, f) ==
  LET marked == prefix /\ f.base # 10
      s == IF marked THEN SubSeq(t, 3, Len(t)) ELSE t
      digits == Unsign(s)
  IN  IF Abs(v) >= Power(f.base, StackLength) THEN s = <<"#">>
      ELSE /\ marked => SubSeq(t, 1, 2) = <<"0", IF f.base = 2 THEN "b" ELSE "x">>
           /\ IsNumeral(digits, f.base)
           /\ Len(digits) >= f.fill
           /\ Len(digits) > f.fill /\ Len(digits) > 1 => digits[1] # "0"
           /\ Value(digits, f.base) = Abs(v)
           /\ s[1] = "-" <=> v < 0

\* Less than one unit of the last digit off: digits / 10^(k-1) stands for
\* mantissa / 10^Precision.
ReadsFloating(t, x, f) ==
  LET s == Unsign(t)
      e == CHOOSE i \in 1 .. Len(s) : s[i] = "e"
      digits == <<s[1]>> \o SubSeq(s, 3, e - 1)
      power == SubSeq(s, IF s[e + 1] = "+" THEN e + 2 ELSE e + 1, Len(s))
      k == Len(digits)
  IN  /\ e > 2 => s[2] = "." /\ e > 3
      /\ IsNumeral(digits, 10)
      /\ k = IF f.fill > 1 THEN f.fill ELSE 1
      /\ Abs(Value(digits, 10) * Power(10, Precision) - x.mantissa * Power(10, k - 1))
           < Power(10, Precision)
      /\ t[1] = "-" <=> x.negative
      /\ ReadsInteger(power, x.exponent, [base |-> 10, fill |-> 0])

\* The format that README.md:183-188 and the comments of append promise: the one
\* given, whatever its base, else that of the type.  An integer in a base other
\* than 2, 10 and 16 becomes an error message, and a floating point number has
\* no use for the base (Log.h:114).  Of cNone README.md:198 promises something
\* else, that nothing is printed; the code does so nowhere.
Promised == IF item.given # Nothing THEN item.given ELSE TypeFormat[item.argument.type]

\* A format in a chain whose base is not valid is as good as none.
Ignored(x) == x.chained /\ x.given # Nothing /\ ~IsValid(x.given)

\* Where the code does otherwise: an ignored format, which promises # for an
\* integer and its fill for a floating point number; a formatted int32_t; and
\* an uint64_t for which no format was given.
Diverges ==
  \/ Ignored(item)
  \/ item.argument.type = "int32" /\ item.given # Nothing
  \/ item.argument.type = "uint64" /\ item.given = Nothing

\* Who reads the text of an argument by the format promised for it gets its
\* value, with just as many digits as asked for, or # when it was too long or
\* the base is none: whatever stood before it in the chain, for the least integer
\* as well (whose negation overflows), and with digits of floating point numbers
\* that round up to ten.  A format serves the argument after it and no other.
ReadsBack ==
  item # Nothing /\ item.argument.kind \in {"integer", "finite"} =>
    LET x == item.argument
    IN  Diverges \/ IF x.kind = "integer"
                    THEN IF IsValid(Promised) THEN ReadsInteger(item.text, x.value, Promised)
                         ELSE item.text = <<"#">>
                    ELSE IF x.mantissa = 0 THEN item.text = <<"0">>
                         ELSE ReadsFloating(item.text, x, Promised)

Opposite(x) ==
  IF x.kind = "integer" THEN [x EXCEPT !.value = -@] ELSE [x EXCEPT !.negative = ~@]

HasOpposite(x) ==
  \/ x.type \in Signed /\ x.value # 0 /\ -x.value \in Word(x.type)
  \/ x.kind = "finite" /\ x.mantissa # 0

\* With alignSigned a number and its opposite take the same space, as long as
\* the width of the digits is given (Log.h:217 asks for it without this) and
\* that format is the one used.
Aligned ==
  item # Nothing /\ ~Diverges /\ align /\ HasOpposite(item.argument) /\ Promised.fill > 0 =>
    LET x == Opposite(item.argument)
    IN  Len(item.text) = Len(IF item.given = Nothing THEN AppendDefault(x)
                             ELSE AppendFormatted(item.given, x))

=============================================================================
