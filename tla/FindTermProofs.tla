--------------------------- MODULE FindTermProofs ---------------------------
(***************************************************************************)
(* Theorems about FindTerm, for every width of the numbers: identities     *)
(* survive the texts they travel in, and a text with a word in it is never *)
(* taken for one.                                                          *)
(***************************************************************************)
EXTENDS FindTerm, FiniteSetTheorems, SequenceTheorems, TLAPS

-----------------------------------------------------------------------------
(* Leading tokens.  The lengths of the prefixes that are all of some kinds *)
(* are 0 .. n for some n, which is the one Leading chooses.                *)

Prefixes(text, kinds) ==
  {n \in 0 .. Len(text) : \A k \in 1 .. n : text[k].kind \in kinds}

LEMMA LeadingExists ==
  ASSUME NEW S, NEW text \in Seq(S), NEW kinds
  PROVE  \E n \in 0 .. Len(text) :
           /\ \A k \in 1 .. n : text[k].kind \in kinds
           /\ n < Len(text) => text[n + 1].kind \notin kinds
<1> DEFINE P == Prefixes(text, kinds)
           c == Cardinality(P)
<1>0. Len(text) \in Nat
  OBVIOUS
<1>1. P \in SUBSET (0 .. Len(text)) /\ 0 \in P
  BY <1>0 DEF Prefixes
<1>2. IsFiniteSet(0 .. Len(text))
  BY <1>0, FS_Interval
<1>3. IsFiniteSet(P) /\ c \in Nat
  <2>1. IsFiniteSet(P)
    BY <1>1, <1>2, FS_Subset
  <2> QED
    BY <2>1, FS_CardinalityType
<1>4. \A n \in P : 0 .. n \in SUBSET P
  BY <1>0 DEF Prefixes
<1>5. \A n \in Nat : Cardinality(0 .. n) = n + 1
  BY FS_Interval
<1>6. c # 0
  BY <1>1, <1>3, FS_EmptySet
<1>7. c - 1 \in P
  <2> SUFFICES ASSUME c - 1 \notin P
               PROVE  FALSE
    OBVIOUS
  <2>1. c - 1 \in Nat
    BY <1>3, <1>6
  <2>2. \A n \in P : n < c - 1
    <3> SUFFICES ASSUME NEW n \in P, c - 1 <= n
                 PROVE  FALSE
      BY <1>0, <1>1, <2>1
    <3>1. n \in Nat /\ c - 1 \in 0 .. n
      BY <1>0, <1>1, <2>1
    <3> QED
      BY <1>4, <3>1
  <2>3. c - 2 \in Nat /\ P \in SUBSET (0 .. c - 2)
    <3>1. 0 < c - 1
      BY <1>1, <2>2
    <3>2. \A n \in P : n \in Nat /\ n <= c - 2
      BY <1>0, <1>1, <1>3, <2>2
    <3> HIDE DEF P, c
    <3>3. c - 2 \in Nat
      BY <1>3, <3>1
    <3> QED
      BY <3>2, <3>3
  <2>4. IsFiniteSet(0 .. c - 2) /\ Cardinality(0 .. c - 2) = c - 1
    <3> HIDE DEF P, c
    <3>1. IsFiniteSet(0 .. c - 2) /\ Cardinality(0 .. c - 2) = (c - 2) + 1
      BY <2>3, <1>5, FS_Interval
    <3> QED
      BY <1>3, <3>1
  <2>5. c <= c - 1
    BY <2>3, <2>4, FS_Subset
  <2> QED
    BY <1>3, <2>5
<1>8. c \notin P
  <2> SUFFICES ASSUME c \in P
               PROVE  FALSE
    OBVIOUS
  <2>1. 0 .. c \in SUBSET P
    BY <1>4
  <2>2. Cardinality(0 .. c) <= c
    BY <1>3, <2>1, FS_Subset
  <2> QED
    BY <1>3, <1>5, <2>2
<1> HIDE DEF c
<1>9. c - 1 \in 0 .. Len(text) /\ \A k \in 1 .. c - 1 : text[k].kind \in kinds
  BY <1>7 DEF Prefixes
<1>10. c - 1 < Len(text) => text[c].kind \notin kinds
  <2> SUFFICES ASSUME c - 1 < Len(text), text[c].kind \in kinds
               PROVE  c \in P
    BY <1>8
  <2>1. \A k \in 1 .. c : k \in 1 .. c - 1 \/ k = c
    BY <1>3
  <2> QED
    BY <1>0, <1>3, <1>9, <2>1 DEF Prefixes
<1> QED
  BY <1>3, <1>9, <1>10

(* What Leading promises, and that nothing else has these properties.      *)
LEMMA LeadingProperties ==
  ASSUME NEW S, NEW text \in Seq(S), NEW kinds
  PROVE  /\ Leading(text, kinds) \in 0 .. Len(text)
         /\ \A k \in 1 .. Leading(text, kinds) : text[k].kind \in kinds
         /\ Leading(text, kinds) < Len(text) =>
              text[Leading(text, kinds) + 1].kind \notin kinds
BY LeadingExists DEF Leading

LEMMA LeadingIs ==
  ASSUME NEW S, NEW text \in Seq(S), NEW kinds, NEW n \in 0 .. Len(text),
         \A k \in 1 .. n : text[k].kind \in kinds,
         n < Len(text) => text[n + 1].kind \notin kinds
  PROVE  Leading(text, kinds) = n
<1> DEFINE m == Leading(text, kinds)
<1>1. /\ m \in 0 .. Len(text) /\ \A k \in 1 .. m : text[k].kind \in kinds
      /\ m < Len(text) => text[m + 1].kind \notin kinds
  BY LeadingProperties
<1> HIDE DEF m
<1>2. Len(text) \in Nat
  OBVIOUS
<1>3. ~(m < n)
  <2>1. m < n => m + 1 \in 1 .. n /\ m < Len(text)
    BY <1>1, <1>2
  <2> QED
    BY <1>1, <2>1
<1>4. ~(n < m)
  <2>1. n < m => n + 1 \in 1 .. m /\ n < Len(text)
    BY <1>1, <1>2
  <2> QED
    BY <1>1, <2>1
<1>5. m = n
  BY <1>1, <1>2, <1>3, <1>4
<1> QED
  BY <1>5 DEF m

-----------------------------------------------------------------------------
(* Texts that are read: Skip drops tokens of the given kinds only, and     *)
(* stops at the first other one.                                           *)

LEMMA SkipNothing ==
  ASSUME NEW S, NEW text \in Seq(S), NEW kinds,
         text = << >> \/ text[1].kind \notin kinds
  PROVE  Skip(text, kinds) = text
<1>1. Leading(text, kinds) = 0
  <2>1. 0 \in 0 .. Len(text) /\ (0 < Len(text) => text # << >>)
    OBVIOUS
  <2> QED
    BY <2>1, LeadingIs
<1>2. SubSeq(text, 0 + 1, Len(text)) = text
  OBVIOUS
<1> QED
  BY <1>1, <1>2 DEF Skip

(* One token to skip, before one that is not or the end.                   *)
LEMMA SkipOne ==
  ASSUME NEW S, NEW text \in Seq(S), NEW kinds, text # << >>,
         text[1].kind \in kinds, Len(text) > 1 => text[2].kind \notin kinds
  PROVE  Skip(text, kinds) = Tail(text)
<1>1. Leading(text, kinds) = 1
  <2>1. 1 \in 0 .. Len(text) /\ \A k \in 1 .. 1 : k = 1
    OBVIOUS
  <2> QED
    BY <2>1, LeadingIs
<1>2. SubSeq(text, 1 + 1, Len(text)) = Tail(text)
  OBVIOUS
<1> QED
  BY <1>1, <1>2 DEF Skip

(* A value that was printed is read back, whatever follows it.             *)
LEMMA NumberOfDigits ==
  ASSUME NEW S, NEW v \in Value, NEW text \in Seq(S), text # << >>,
         text[1] = Digits(v), NEW base \in {"ten", "zero"}
  PROVE  Number(text, base) = [ok |-> TRUE, value |-> v, rest |-> Tail(text)]
<1>1. Skip(text, Spaces) = text
  BY SkipNothing DEF Digits, Spaces
<1>2. text[1][base] = v /\ text[1].kind = "digits"
  BY DEF Digits
<1>3. v < Word /\ ~(v >= Word)
  BY WordAssumption DEF Value
<1> QED
  BY <1>1, <1>2, <1>3 DEF Number, Starts

(* The same after one blank.                                               *)
LEMMA NumberAfterBlank ==
  ASSUME NEW v \in Value, NEW base \in {"ten", "zero"}
  PROVE  Number(<<Blank, Digits(v)>>, base) =
           [ok |-> TRUE, value |-> v, rest |-> << >>]
<1> DEFINE text == <<Blank, Digits(v)>>
           S == {Blank, Digits(v)}
<1>1. text \in Seq(S) /\ text # << >> /\ Tail(text) = <<Digits(v)>>
  OBVIOUS
<1>2. Skip(text, Spaces) = <<Digits(v)>>
  BY <1>1, SkipOne DEF Blank, Digits, Spaces
<1>3. v < Word /\ ~(v >= Word)
  BY WordAssumption DEF Value
<1>4. Tail(<<Digits(v)>>) = << >>
  OBVIOUS
<1>5. /\ ~Starts(<<Digits(v)>>, {"minus", "plus"}) /\ ~Starts(<<Digits(v)>>, {"minus"})
      /\ Starts(<<Digits(v)>>, {"digits"})
  BY DEF Starts, Digits
<1>6. <<Digits(v)>>[1][base] = v
  BY DEF Digits
<1> QED
  BY <1>2, <1>3, <1>4, <1>5, <1>6 DEF Number

LEMMA SkipEmpty ==
  ASSUME NEW kinds
  PROVE  Skip(<< >>, kinds) = << >>
<1>1. << >> \in Seq({})
  OBVIOUS
<1> QED
  BY <1>1, SkipNothing

(* Two numbers with one separator between them, and a tag or none.         *)
LEMMA PairOfDigits ==
  ASSUME NEW v \in Value, NEW w \in Value, NEW mark \in {Blank, Mark}, NEW tags,
         tags \subseteq {"S=", "H="}
  PROVE  /\ Pair(<<Digits(v), mark, Digits(w)>>, tags) = <<v, w>>
         /\ "H=" \in tags =>
              Pair(<<Digits(v), mark, HashTag, Digits(w)>>, tags) = <<v, w>>
<1> DEFINE D == {Digits(v), mark, Digits(w), HashTag}
           plain == <<Digits(v), mark, Digits(w)>>
           tagged == <<Digits(v), mark, HashTag, Digits(w)>>
<1>1. Number(<<Digits(w)>>, "ten") = [ok |-> TRUE, value |-> w, rest |-> << >>]
  <2>1. <<Digits(w)>> \in Seq(D) /\ Tail(<<Digits(w)>>) = << >>
    OBVIOUS
  <2> QED
    BY <2>1, NumberOfDigits
<1>2. Pair(plain, tags) = <<v, w>>
  <2>1. plain \in Seq(D) /\ plain # << >> /\ plain[1] = Digits(v)
        /\ Tail(plain) = <<mark, Digits(w)>>
    OBVIOUS
  <2>2. Number(plain, "ten") =
          [ok |-> TRUE, value |-> v, rest |-> <<mark, Digits(w)>>]
    BY <2>1, NumberOfDigits
  <2>3. Skip(<<mark, Digits(w)>>, Separators) = <<Digits(w)>>
    <3>1. <<mark, Digits(w)>> \in Seq(D)
          /\ Tail(<<mark, Digits(w)>>) = <<Digits(w)>>
          /\ Len(<<mark, Digits(w)>>) = 2
      OBVIOUS
    <3>2. mark.kind \in Separators /\ Digits(w).kind \notin Separators
      BY DEF Blank, Mark, Digits, Separators
    <3> QED
      BY <3>1, <3>2, SkipOne
  <2>4. ~Starts(<<Digits(w)>>, tags)
    BY DEF Starts, Digits
  <2> QED
    BY <1>1, <2>2, <2>3, <2>4, SkipEmpty DEF Pair, Uint64Token
<1>3. ASSUME "H=" \in tags
      PROVE  Pair(tagged, tags) = <<v, w>>
  <2>1. tagged \in Seq(D) /\ tagged # << >> /\ tagged[1] = Digits(v)
        /\ Tail(tagged) = <<mark, HashTag, Digits(w)>>
    OBVIOUS
  <2>2. Number(tagged, "ten") =
          [ok |-> TRUE, value |-> v, rest |-> <<mark, HashTag, Digits(w)>>]
    BY <2>1, NumberOfDigits
  <2>3. Skip(<<mark, HashTag, Digits(w)>>, Separators) = <<HashTag, Digits(w)>>
    <3>1. <<mark, HashTag, Digits(w)>> \in Seq(D)
          /\ Tail(<<mark, HashTag, Digits(w)>>) = <<HashTag, Digits(w)>>
      OBVIOUS
    <3>2. mark.kind \in Separators /\ HashTag.kind \notin Separators
      BY DEF Blank, Mark, HashTag, Separators
    <3> QED
      BY <3>1, <3>2, SkipOne
  <2>4. Starts(<<HashTag, Digits(w)>>, tags)
        /\ Tail(<<HashTag, Digits(w)>>) = <<Digits(w)>>
    BY <1>3 DEF Starts, HashTag
  <2>5. Number(IF Starts(<<HashTag, Digits(w)>>, tags)
               THEN Tail(<<HashTag, Digits(w)>>) ELSE <<HashTag, Digits(w)>>, "ten")
          = [ok |-> TRUE, value |-> w, rest |-> << >>]
    BY <1>1, <2>4
  <2> DEFINE first == Number(tagged, "ten")
             middle == Skip(first.rest, Separators)
             second == Number(IF Starts(middle, tags) THEN Tail(middle) ELSE middle,
                              "ten")
  <2>6. first.ok /\ first.value = v /\ middle = <<HashTag, Digits(w)>>
    BY <2>2, <2>3
  <2>7. second.ok /\ second.value = w /\ Skip(second.rest, Separators) = << >>
    <3> HIDE DEF first, middle
    <3>1. second = [ok |-> TRUE, value |-> w, rest |-> << >>]
      BY <2>5, <2>6
    <3> HIDE DEF second
    <3> QED
      BY <3>1, SkipEmpty
  <2>8. Pair(tagged, tags) =
          IF first.ok /\ second.ok /\ Skip(second.rest, Separators) = << >>
          THEN <<first.value, second.value>> ELSE None
    BY DEF Pair, Uint64Token
  <2> HIDE DEF first, middle, second
  <2> QED
    BY <2>6, <2>7, <2>8
<1> QED
  BY <1>2, <1>3

(* Every form of an identity that the documents list denotes it, whatever  *)
(* its size and hash.                                                      *)
THEOREM DocumentedFormsParsed ==
  ASSUME NEW id \in Value \X Value, NEW text \in DocumentedForms(id)
  PROVE  ParsedTerm(text) = id
<1>1. id = <<id[1], id[2]>> /\ id[1] \in Value /\ id[2] \in Value
  OBVIOUS
<1>2. ASSUME NEW mark \in {Blank, Mark}
      PROVE  ParsedTerm(<<Digits(id[1]), mark, Digits(id[2])>>) = id
  <2>1. Pair(<<Digits(id[1]), mark, Digits(id[2])>>, {}) = id
    BY <1>1, PairOfDigits
  <2> QED
    BY <2>1 DEF ParsedTerm, Starts, Digits
<1>3. ParsedTerm(<<SizeTag, Digits(id[1]), Blank, HashTag, Digits(id[2])>>) = id
  <2>1. Pair(<<Digits(id[1]), Blank, HashTag, Digits(id[2])>>, {"H="}) = id
    BY <1>1, PairOfDigits
  <2>2. Tail(<<SizeTag, Digits(id[1]), Blank, HashTag, Digits(id[2])>>)
          = <<Digits(id[1]), Blank, HashTag, Digits(id[2])>>
    OBVIOUS
  <2> QED
    BY <2>1, <2>2 DEF ParsedTerm, Starts, SizeTag
<1> QED
  BY <1>2, <1>3 DEF DocumentedForms, IdentityTerm

(* The term `request' builds from what the user typed is read by the       *)
(* server as that identity, and would be by `request' itself.              *)
THEOREM IdentityTermsReadBack ==
  ASSUME NEW id \in Value \X Value
  PROVE  /\ ParsedTerm(IdentityTerm(id)) = id
         /\ RequestedIdentity(IdentityTerm(id)) = id
<1>1. id = <<id[1], id[2]>> /\ id[1] \in Value /\ id[2] \in Value
  OBVIOUS
<1>2. ParsedTerm(IdentityTerm(id)) = id
  BY DocumentedFormsParsed DEF DocumentedForms
<1> DEFINE text == <<Digits(id[1]), Blank, Digits(id[2])>>
<1>3. Number(text, "zero") =
        [ok |-> TRUE, value |-> id[1], rest |-> <<Blank, Digits(id[2])>>]
  <2>1. text \in Seq({Digits(id[1]), Blank, Digits(id[2])})
        /\ text # << >> /\ text[1] = Digits(id[1])
        /\ Tail(text) = <<Blank, Digits(id[2])>>
    OBVIOUS
  <2> QED
    BY <1>1, <2>1, NumberOfDigits
<1>4. Number(<<Blank, Digits(id[2])>>, "zero") =
        [ok |-> TRUE, value |-> id[2], rest |-> << >>]
  BY <1>1, NumberAfterBlank
<1>5. RequestedIdentity(text) = id
  BY <1>1, <1>3, <1>4, SkipEmpty DEF RequestedIdentity, U64Arg
<1> QED
  BY <1>2, <1>5 DEF IdentityTerm

-----------------------------------------------------------------------------
(* A word is never skipped, and no number is read past one.                *)

HasWord(text) == \E k \in DOMAIN text : text[k].kind = "word"

LEMMA SkipKeepsWord ==
  ASSUME NEW S, NEW text \in Seq(S), NEW kinds, "word" \notin kinds, HasWord(text)
  PROVE  Skip(text, kinds) \in Seq(S) /\ HasWord(Skip(text, kinds))
<1> DEFINE m == Leading(text, kinds)
<1>1. m \in 0 .. Len(text) /\ \A k \in 1 .. m : text[k].kind \in kinds
  BY LeadingProperties
<1> HIDE DEF m
<1>2. PICK k \in 1 .. Len(text) : text[k].kind = "word"
  BY DEF HasWord
<1>3. m < k
  BY <1>1, <1>2
<1> DEFINE rest == SubSeq(text, m + 1, Len(text))
<1>4. rest \in Seq(S) /\ Len(rest) = Len(text) - m
  BY <1>1
<1>5. k - m \in 1 .. Len(rest) /\ rest[k - m] = text[k]
  BY <1>1, <1>3, <1>4
<1>6. HasWord(rest)
  BY <1>2, <1>4, <1>5 DEF HasWord
<1> QED
  BY <1>4, <1>6 DEF Skip, m

LEMMA TailKeepsWord ==
  ASSUME NEW S, NEW text \in Seq(S), text # << >>, text[1].kind # "word",
         HasWord(text)
  PROVE  Tail(text) \in Seq(S) /\ HasWord(Tail(text))
<1>1. PICK k \in 1 .. Len(text) : text[k].kind = "word"
  BY DEF HasWord
<1>2. k - 1 \in 1 .. Len(Tail(text)) /\ Tail(text)[k - 1] = text[k]
  BY <1>1
<1>3. Tail(text) \in Seq(S) /\ DOMAIN Tail(text) = 1 .. Len(Tail(text))
  OBVIOUS
<1> DEFINE rest == Tail(text)
<1> HIDE DEF rest
<1>4. k - 1 \in DOMAIN rest /\ rest[k - 1].kind = "word"
  BY <1>1, <1>2, <1>3 DEF rest
<1>5. HasWord(rest)
  BY <1>4 DEF HasWord
<1> QED
  BY <1>3, <1>5 DEF rest

LEMMA NumberKeepsWord ==
  ASSUME NEW S, NEW text \in Seq(S), HasWord(text), NEW base,
         Number(text, base).ok
  PROVE  Number(text, base).rest \in Seq(S) /\ HasWord(Number(text, base).rest)
<1> DEFINE t == Skip(text, Spaces)
           u == IF Starts(t, {"minus", "plus"}) THEN Tail(t) ELSE t
<1>1. t \in Seq(S) /\ HasWord(t)
  BY SkipKeepsWord DEF Spaces
<1>2. Number(text, base) =
        IF ~Starts(u, {"digits"}) \/ u[1][base] >= Word THEN Failed
        ELSE [ok |-> TRUE,
              value |-> IF Starts(t, {"minus"}) THEN (Word - u[1][base]) % Word
                        ELSE u[1][base],
              rest |-> Tail(u)]
  BY DEF Number
<1> HIDE DEF t
<1>3. u \in Seq(S) /\ HasWord(u)
  BY <1>1, TailKeepsWord DEF Starts
<1> HIDE DEF u
<1>4. Starts(u, {"digits"}) /\ Number(text, base).rest = Tail(u)
  BY <1>2 DEF Failed
<1>5. u # << >> /\ u[1].kind # "word"
  BY <1>4 DEF Starts
<1> QED
  BY <1>3, <1>4, <1>5, TailKeepsWord

LEMMA NoPairWithWord ==
  ASSUME NEW S, NEW text \in Seq(S), HasWord(text), NEW tags, "word" \notin tags
  PROVE  Pair(text, tags) = None
<1> DEFINE first == Number(text, "ten")
           middle == Skip(first.rest, Separators)
           marked == IF Starts(middle, tags) THEN Tail(middle) ELSE middle
           second == Number(marked, "ten")
           last == Skip(second.rest, Separators)
<1>1. Pair(text, tags) = IF first.ok /\ second.ok /\ last = << >>
                         THEN <<first.value, second.value>> ELSE None
  BY DEF Pair, Uint64Token
<1> SUFFICES ASSUME first.ok, second.ok
             PROVE  last # << >>
  BY <1>1
<1>2. first.rest \in Seq(S) /\ HasWord(first.rest)
  BY NumberKeepsWord
<1>3. middle \in Seq(S) /\ HasWord(middle)
  <2> HIDE DEF first
  <2> QED
    BY <1>2, SkipKeepsWord DEF Separators
<1>4. marked \in Seq(S) /\ HasWord(marked)
  <2> HIDE DEF middle
  <2> QED
    BY <1>3, TailKeepsWord DEF Starts
<1>5. second.rest \in Seq(S) /\ HasWord(second.rest)
  <2> HIDE DEF marked
  <2> QED
    BY <1>4, NumberKeepsWord
<1>6. HasWord(last)
  <2> HIDE DEF second
  <2> QED
    BY <1>5, SkipKeepsWord DEF Separators
<1>7. ~HasWord(<< >>)
  BY DEF HasWord
<1> HIDE DEF last
<1> QED
  BY <1>6, <1>7

(* A text with a word in it is searched by name: the server takes nothing  *)
(* but numbers, signs, tags and separators for an identity.                *)
THEOREM WordsSearchNames ==
  ASSUME NEW text \in Seq(Token), HasWord(text)
  PROVE  ParsedTerm(text) = None
<1>1. Pair(text, {}) = None
  <2>1. "word" \notin {}
    OBVIOUS
  <2> QED
    BY <2>1, NoPairWithWord
<1>2. ASSUME NEW tag \in {"S=", "H="}, Starts(text, {tag})
      PROVE  \A tags \in {{"S="}, {"H="}} : Pair(Tail(text), tags) = None
  <2>1. Tail(text) \in Seq(Token) /\ HasWord(Tail(text))
    BY <1>2, TailKeepsWord DEF Starts
  <2>2. "word" \notin {"S="} /\ "word" \notin {"H="}
    OBVIOUS
  <2> QED
    BY <2>1, <2>2, NoPairWithWord
<1> QED
  BY <1>1, <1>2 DEF ParsedTerm, Swapped

-----------------------------------------------------------------------------
(* Whatever is typed, what is read are values of the width.                *)

LEMMA SkipTokens ==
  ASSUME NEW S, NEW text \in Seq(S), NEW kinds
  PROVE  Skip(text, kinds) \in Seq(S)
<1> DEFINE m == Leading(text, kinds)
<1>1. m \in 0 .. Len(text)
  BY LeadingProperties
<1> HIDE DEF m
<1>2. SubSeq(text, m + 1, Len(text)) \in Seq(S)
  BY <1>1
<1> QED
  BY <1>2 DEF Skip, m

LEMMA NumberInValue ==
  ASSUME NEW text \in Seq(Token), NEW base \in {"ten", "zero"},
         Number(text, base).ok
  PROVE  /\ Number(text, base).value \in Value
         /\ Number(text, base).rest \in Seq(Token)
<1> DEFINE t == Skip(text, Spaces)
           u == IF Starts(t, {"minus", "plus"}) THEN Tail(t) ELSE t
           v == u[1][base]
<1>1. t \in Seq(Token)
  BY SkipTokens
<1>2. Number(text, base) =
        IF ~Starts(u, {"digits"}) \/ v >= Word THEN Failed
        ELSE [ok |-> TRUE,
              value |-> IF Starts(t, {"minus"}) THEN (Word - v) % Word ELSE v,
              rest |-> Tail(u)]
  BY DEF Number
<1> HIDE DEF t
<1>3. u \in Seq(Token)
  BY <1>1 DEF Starts
<1> HIDE DEF u
<1>4. Starts(u, {"digits"}) /\ ~(v >= Word)
  BY <1>2 DEF Failed
<1>5. u # << >> /\ u[1] \in Token /\ u[1].kind = "digits" /\ Tail(u) \in Seq(Token)
  BY <1>3, <1>4 DEF Starts
<1>6. v \in Nat
  BY <1>5 DEF Token
<1> HIDE DEF v
<1>7. v \in Value /\ (Word - v) % Word \in Value
  BY <1>4, <1>6, WordAssumption DEF Value
<1> QED
  BY <1>2, <1>4, <1>5, <1>7

LEMMA RequestedInValue ==
  ASSUME NEW text \in Seq(Token), RequestedIdentity(text) # None
  PROVE  RequestedIdentity(text) \in Value \X Value
<1> DEFINE first == Number(text, "zero")
           second == Number(first.rest, "zero")
<1>1. first.ok /\ second.ok /\ RequestedIdentity(text) = <<first.value, second.value>>
  BY DEF RequestedIdentity, U64Arg
<1>2. first.value \in Value /\ first.rest \in Seq(Token)
  BY <1>1, NumberInValue
<1>3. second.value \in Value
  <2> HIDE DEF first
  <2> QED
    BY <1>1, <1>2, NumberInValue
<1> QED
  BY <1>1, <1>2, <1>3

=============================================================================
