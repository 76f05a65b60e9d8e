-------------------------------- MODULE Glob --------------------------------
(***************************************************************************)
(* internal/authz/authz.go, globMatch: patterns in rules, over strings as  *)
(* sequences of one-byte characters ("?" takes a byte of a longer one).    *)
(***************************************************************************)
EXTENDS Integers, Sequences, SequencesExt

CONSTANT CodeOf  \* [character -> Nat]: their order, for ranges

Chars == DOMAIN CodeOf

\* strings.IndexByte: the first place of c in s from i on, 0 if none.
IndexFrom(s, i, c) ==
    LET at == {j \in i..Len(s) : s[j] = c} IN IF at = {} THEN 0 ELSE Min(at)

(***************************************************************************)
(* filepath.Match for a class: "^" negates; characters, ranges lo-hi, and  *)
(* escapes; an empty class, or one with a range cut short, is an error and *)
(* matches nothing.  The body is what stands between the brackets.         *)
(***************************************************************************)
ClassChars(body) ==
    LET negated == body # <<>> /\ body[1] = "^"
        n == Len(body)
        \* getEsc: the place of the character at i, 0 on an error
        At(i) == IF i > n \/ body[i] = "-" THEN 0
                 ELSE IF body[i] # "\\" THEN i
                 ELSE IF i < n THEN i + 1 ELSE 0
        Bad == [ok |-> FALSE, chars |-> {}]
        from[i \in 1..n + 1] ==
            IF i = n + 1 THEN [ok |-> TRUE, chars |-> {}]
            ELSE LET lo == At(i)
                     isRange == lo # 0 /\ lo < n /\ body[lo + 1] = "-"
                     hi == IF isRange THEN At(lo + 2) ELSE lo
                 IN  IF lo = 0 \/ hi = 0 \/ ~from[hi + 1].ok THEN Bad
                     ELSE [ok |-> TRUE,
                           chars |-> from[hi + 1].chars \cup
                               {c \in Chars : CodeOf[body[lo]] <= CodeOf[c]
                                              /\ CodeOf[c] <= CodeOf[body[hi]]}]
        first == IF negated THEN 2 ELSE 1
    IN  IF first > n \/ ~from[first].ok THEN {}
        ELSE IF negated THEN Chars \ from[first].chars ELSE from[first].chars

\* Mutated form: a star takes at least one character.
StarPlacesPlus(j, len) == j + 1..len + 1

\* Where the rest of a pattern is tried after a star that stands before
\* character j of a value.
StarPlaces(j, len) == j..len + 1

\* How far a run of stars at i goes.
AfterStars(pattern, i) ==
    Min({k \in i..Len(pattern) : pattern[k] # "*"} \cup {Len(pattern) + 1})

\* The places of a value at which a character of C stands, with one of S next.
Before(value, C, S) == {j \in 1..Len(value) : value[j] \in C /\ j + 1 \in S}

(***************************************************************************)
(* The places of the value from which deepMatch matches the pattern from   *)
(* character i on, given those for its later characters.                   *)
(***************************************************************************)
MatchesAt(pattern, value, later, i) ==
    LET n == Len(pattern)
        after == AfterStars(pattern, i)
        end == IndexFrom(pattern, i, "]")
    IN  IF i > n THEN {Len(value) + 1}
        ELSE CASE pattern[i] = "*" ->
                    {j \in 1..Len(value) + 1 :
                        after > n \/ StarPlaces(j, Len(value)) \cap later[after] # {}}
               [] pattern[i] = "?" -> Before(value, Chars, later[i + 1])
               [] pattern[i] = "[" ->
                    IF end = 0 THEN {}
                    ELSE Before(value, ClassChars(SubSeq(pattern, i + 1, end - 1)),
                                later[end + 1])
               [] pattern[i] = "\\" ->
                    IF i = n THEN {} ELSE Before(value, {pattern[i + 1]}, later[i + 2])
               [] OTHER -> Before(value, {pattern[i]}, later[i + 1])

MatchesFrom(pattern, value) ==
    LET from[i \in 1..Len(pattern) + 1] == MatchesAt(pattern, value, from, i) IN from

DeepMatch(pattern, value) == 1 \in MatchesFrom(pattern, value)[1]

-----------------------------------------------------------------------------
\* The language of a pattern

(***************************************************************************)
(* The piece of a pattern that begins at i: a star, or the characters of   *)
(* which it takes one, and where the next piece begins.  What is malformed *)
(* takes no character.                                                     *)
(***************************************************************************)
PieceAt(pattern, i) ==
    LET n == Len(pattern)
        end == IndexFrom(pattern, i, "]")
        Piece(C, next) == [star |-> FALSE, chars |-> C, next |-> next]
    IN  CASE pattern[i] = "*" -> [star |-> TRUE, chars |-> Chars, next |-> i + 1]
          [] pattern[i] = "?" -> Piece(Chars, i + 1)
          [] pattern[i] = "[" ->
                IF end = 0 THEN Piece({}, n + 1)
                ELSE Piece(ClassChars(SubSeq(pattern, i + 1, end - 1)), end + 1)
          [] pattern[i] = "\\" ->
                IF i = n THEN Piece({}, n + 1) ELSE Piece({pattern[i + 1]}, i + 2)
          [] OTHER -> Piece({pattern[i]}, i + 1)

PiecesFrom(pattern) ==
    LET from[i \in 1..Len(pattern) + 1] ==
            IF i > Len(pattern) THEN <<>>
            ELSE <<PieceAt(pattern, i)>> \o from[PieceAt(pattern, i).next]
    IN  from

\* A piece can take what stands in the value after d, up to and with e.
Takes(piece, value, d, e) ==
    IF piece.star THEN d <= e ELSE e = d + 1 /\ value[e] \in piece.chars

(***************************************************************************)
(* The value from d on is made of shares, one for each piece.              *)
(***************************************************************************)
Cut(pieces, value, d) ==
    \E cut \in [0..Len(pieces) -> 0..Len(value)] :
        /\ cut[0] = d /\ cut[Len(pieces)] = Len(value)
        /\ \A k \in 1..Len(pieces) : Takes(pieces[k], value, cut[k - 1], cut[k])

InLanguage(pattern, value) == Cut(PiecesFrom(pattern)[1], value, 0)
=============================================================================
