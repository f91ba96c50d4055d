------------------------------ MODULE FindTerm ------------------------------
(***************************************************************************)
(* The texts in which identities travel: the arguments of `request' as the *)
(* console reads them, the search term it builds from them, and the parser *)
(* with which the server tells an identity from a text.                    *)
(*                                                                         *)
(* A text is a sequence of tokens: a run of digits, a blank (a space or a  *)
(* tab), a mark (one of : , ;), a sign, a tag (S= or H=), or a word (any   *)
(* other run of characters).  A run of digits has a value in base 10 and   *)
(* one in base 0, where a leading 0 means octal.                           *)
(***************************************************************************)
EXTENDS Integers, Sequences

CONSTANT Word   \* 2^64: values are 0 .. Word - 1

ASSUME WordAssumption == Word \in Nat \ {0}

Token == [kind : {"digits"}, ten : Nat, zero : Nat]
           \cup [kind : {"blank", "mark", "minus", "plus", "S=", "H=", "word"}]

Blank == [kind |-> "blank"]
Mark == [kind |-> "mark"]
Minus == [kind |-> "minus"]
SizeTag == [kind |-> "S="]
HashTag == [kind |-> "H="]
SomeWord == [kind |-> "word"]

(* A value as printf("%llu") writes it: decimal, without leading zeros.    *)
Digits(v) == [kind |-> "digits", ten |-> v, zero |-> v]

Value == 0 .. Word - 1
None == << >>   \* what a parser that fails returns

Starts(text, kinds) == text # << >> /\ text[1].kind \in kinds

(* How many tokens at the start of the text are of these kinds.            *)
Leading(text, kinds) ==
  CHOOSE n \in 0 .. Len(text) :
    /\ \A k \in 1 .. n : text[k].kind \in kinds
    /\ n < Len(text) => text[n + 1].kind \notin kinds

Skip(text, kinds) == SubSeq(text, Leading(text, kinds) + 1, Len(text))

(* skip_spaces() and skip_identity_separator() skip these.                 *)
Spaces == {"blank"}
Separators == {"blank", "mark"}

Failed == [ok |-> FALSE, value |-> 0, rest |-> << >>]

(* strtoull(): blanks, an optional sign, digits.  A minus sign negates in  *)
(* 64 bits; a value that does not fit is an error.                         *)
Number(text, base) ==
  LET t == Skip(text, Spaces)
      u == IF Starts(t, {"minus", "plus"}) THEN Tail(t) ELSE t
      v == u[1][base]
  IN IF ~Starts(u, {"digits"}) THEN Failed
     ELSE IF v >= Word THEN Failed
     ELSE [ok |-> TRUE,
           value |-> IF Starts(t, {"minus"}) THEN (Word - v) % Word ELSE v,
           rest |-> Tail(u)]

(* parse_u64_arg() of the console, and parse_uint64_token() of the server. *)
U64Arg(text) == Number(text, "zero")
Uint64Token(text) == Number(text, "ten")

(* Two numbers with separators between and after them, the second with an  *)
(* optional tag; the end of each form of parse_identity_find_term().       *)
Pair(text, tags) ==
  LET first == Uint64Token(text)
      middle == Skip(first.rest, Separators)
      second ==
        Uint64Token(IF Starts(middle, tags) THEN Tail(middle) ELSE middle)
  IN IF first.ok /\ second.ok /\ Skip(second.rest, Separators) = << >>
     THEN <<first.value, second.value>>
     ELSE None

Swapped(pair) == IF pair = None THEN None ELSE <<pair[2], pair[1]>>

(* Mutant: the plain form has the hash first.                              *)
ParsedTermSwapped(text) ==
  IF Starts(text, {"S="}) THEN Pair(Tail(text), {"H="})
  ELSE Swapped(Pair(text, {}))

(* parse_identity_find_term(): the identity <<size, hash>> the server      *)
(* takes the term for, None if it searches for names that contain it.      *)
ParsedTerm(text) ==
  IF Starts(text, {"S="}) THEN Pair(Tail(text), {"H="})
  ELSE IF Starts(text, {"H="}) THEN Swapped(Pair(Tail(text), {"S="}))
  ELSE Pair(text, {})

(* The arguments of `request': parse_u64_arg() twice, in base 0, and       *)
(* nothing but spaces after them.                                          *)
RequestedIdentity(text) ==
  LET first == U64Arg(text)
      second == U64Arg(first.rest)
  IN IF first.ok /\ second.ok /\ Skip(second.rest, Spaces) = << >>
     THEN <<first.value, second.value>>
     ELSE None

(* build_identity_find_term().  Two numbers always fit its buffer.         *)
IdentityTerm(id) == <<Digits(id[1]), Blank, Digits(id[2])>>

-----------------------------------------------------------------------------
(* The forms of an identity that docs/main.tex lists.                      *)
DocumentedForms(id) ==
  {IdentityTerm(id), <<Digits(id[1]), Mark, Digits(id[2])>>,
   <<SizeTag, Digits(id[1]), Blank, HashTag, Digits(id[2])>>}
=============================================================================
