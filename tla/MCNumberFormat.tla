--------------------------- MODULE MCNumberFormat ---------------------------
(***************************************************************************)
(* Words of three to six bits, as many as there are widths in the code, a  *)
(* format of its own for each type, and a buffer on the stack that is too  *)
(* short for the longest binary numbers.                                   *)
(***************************************************************************)
EXTENDS NumberFormat

WidthOfTypes ==
  [t \in Signed \cup Unsigned |->
     CASE t \in {"int8", "uint8"} -> 3
       [] t \in {"int16", "uint16"} -> 4
       [] t \in {"int32", "uint32"} -> 5
       [] OTHER -> 6]

F(b, n) == [base |-> b, fill |-> n]

FormatOfTypes ==
  [t \in Signed \cup Unsigned \cup Floating |->
     CASE t = "int8" -> F(2, 3)
       [] t = "int16" -> F(16, 1)
       [] t = "int32" -> F(10, 0)
       [] t = "int64" -> F(10, 3)
       [] t = "uint8" -> F(10, 2)
       [] t = "uint16" -> F(2, 0)
       [] t = "uint32" -> F(16, 2)
       [] t = "uint64" -> F(16, 0)
       [] t = "float" -> F(10, 2)
       [] t = "double" -> F(10, 4)]

FormatsUsed == {F(0, 0), F(8, 2), F(2, 4), F(10, 3), F(16, 1)}

\* Digits that round to ten, at the first place or at later ones, and others.
MantissasUsed == {0, 100, 345, 949, 950, 996}

ExponentsUsed == {-12, 0, 7}

=============================================================================
