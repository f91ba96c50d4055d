----------------------------- MODULE MCConsole -----------------------------
(***************************************************************************)
(* Two clients: a has two files, b none.  Half of the name of one of them  *)
(* is the name of the other, so that a second download by b can replace a  *)
(* file.  One file has eight bytes, and there is another version of them;  *)
(* the other has one.                                                      *)
(* The user of b searches for a word that both names contain, or a date    *)
(* that is a part of one, and requests an identity that there is, two that *)
(* can only be seen half copied, or something that is no identity.         *)
(***************************************************************************)
EXTENDS Console, TLC

CONSTANTS a, b, x, y

i1 == <<8, 5>>
version == <<8, 6>>
i2 == <<1, 8>>
mcIdentity == {i1, version, i2}
mcShares ==
  a :> (x :> i2 @@ y :> i1) @@ b :> (x :> Absent @@ y :> Absent)

(* The name x is the beginning of y; half of a pair is zero.               *)
mcTornName == x :> {} @@ y :> {x}
mcTornIdentity == i1 :> {<<8, 0>>, <<0, 5>>} @@ version :> {} @@ i2 :> {}

common == <<SomeWord>>
date == <<Digits(2), Minus, Digits(1)>>
mcTerm == {common}
mcTermDates == {common, date}
mcNamesWith == [t \in Term |-> IF t = common THEN {x, y} ELSE {y}]

(* "8 5", "1 010 " (octal), "8 0", "0 5", "8 5x".                          *)
octal == [kind |-> "digits", ten |-> 10, zero |-> 8]
mcLine ==
  {<<Digits(8), Blank, Digits(5)>>,
   <<Digits(1), Blank, octal, Blank>>,
   <<Digits(8), Blank, Digits(0)>>,
   <<Digits(0), Blank, Digits(5)>>,
   <<Digits(8), Blank, Digits(5), SomeWord>>}
=============================================================================
