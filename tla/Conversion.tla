---------------------------- MODULE Conversion ----------------------------
(***************************************************************************)
(* Text read as a number (cflare/util.c).  A text is a sequence of         *)
(* character codes.  The code adds a number up in floating point, digit by *)
(* digit, and stores each sum in an int64_t: what a double cannot hold is  *)
(* rounded, and a sum that an int64_t cannot hold is undefined in C.       *)
(*                                                                         *)
(* Round(x) is the double that stands for the integer x, or for a power    *)
(* that pow() computed; Exact is 2^53, up to which a double is exact,      *)
(* Int64 is 2^63, and Largest the greatest double, above which a power is  *)
(* infinite.                                                               *)
(***************************************************************************)
EXTENDS Integers, Sequences, SequencesExt, FiniteSetsExt

CONSTANTS Exact, Int64, Largest, Round(_)

\* A byte is exact, whichever the numbers are.
ASSUME ConversionAssumption ==
    /\ Exact \in Nat /\ Int64 \in Nat /\ Largest \in Nat
    /\ 255 <= Exact /\ Exact < Int64 /\ Int64 <= Largest
    /\ \A x \in 0..Exact : Round(x) = x
    /\ \A x \in 0..Largest : Round(x) \in Nat

Dash == 45
Plus == 43
Zero == 48
LetterB == 98
LetterX == 120

DecimalDigit == 48..57
Lower == 97..122
Upper == 65..90

\* char_to_number
CharToNumber(x) ==
    CASE x \in DecimalDigit -> x - 48
      [] x \in Lower -> 10 + (x - 97)
      [] x \in Upper -> 10 + (x - 65)
      [] OTHER -> -1

\* What a call leaves: it returned true and a value, it returned true and some
\* value that C does not define, it returned false, or an assertion ended the
\* process.
Gives(v) == [out |-> "true", value |-> v]
Undefined == [out |-> "undefined", value |-> 0]
Fails == [out |-> "false", value |-> 0]
Aborts == [out |-> "abort", value |-> 0]

\* The base that is denoted at the start of a text without sign.
Base(s) ==
    CASE Len(s) >= 2 /\ s[1] = Zero /\ s[2] = LetterX -> 16
      [] Len(s) >= 2 /\ s[1] = Zero /\ s[2] = LetterB -> 2
      [] OTHER -> 10

\* What pow(base, n) is called for.
Power(base, n) == LET pow[b \in 0..n] == IF b = 0 THEN 1 ELSE base * pow[b - 1] IN pow[n]

\* The loop over the digits s of a number, at least one: the value, or what its
\* first character that is no digit of the base leads to.  An infinite power, the
\* first digit's before all others, makes every sum undefined.
DigitsValue(s, base) ==
    LET bad == {i \in DOMAIN s : CharToNumber(s[i]) \notin 0..(base - 1)}
        ret[i \in 0..Len(s)] ==
            IF i = 0 THEN 0
            ELSE Round(Round(ret[i - 1]) + Round(Round(Power(base, Len(s) - i)) * CharToNumber(s[i])))
    IN  IF bad # {} THEN IF CharToNumber(s[Min(bad)]) < 0 THEN Aborts ELSE Fails
        ELSE IF Power(base, Len(s) - 1) <= Largest /\ \A i \in DOMAIN s : ret[i] \in 0..(Int64 - 1)
        THEN Gives(ret[Len(s)]) ELSE Undefined

\* A slip: the base is looked for before the sign is taken off.
ToIntegerBaseFirst(s) ==
    LET digits == IF Base(s) = 10 THEN s ELSE SubSeq(s, 3, Len(s))
        signed == digits # <<>> /\ digits[1] \in {Dash, Plus}
        rest   == IF signed THEN Tail(digits) ELSE digits
        number == DigitsValue(rest, Base(s))
    IN  IF rest = <<>> THEN Fails
        ELSE IF signed /\ digits[1] = Dash THEN [number EXCEPT !.value = -@] ELSE number

\* cflare_tointeger
ToInteger(s) ==
    LET signed == s # <<>> /\ s[1] \in {Dash, Plus}
        rest   == IF signed THEN Tail(s) ELSE s
        digits == IF Base(rest) = 10 THEN rest ELSE SubSeq(rest, 3, Len(rest))
        number == DigitsValue(digits, Base(rest))
    IN  IF digits = <<>> THEN Fails
        ELSE IF signed /\ s[1] = Dash THEN [number EXCEPT !.value = -@] ELSE number

-----------------------------------------------------------------------------
\* What a text means: the numerals it is, each a sign, a base and digits.
Horner(s, base) == FoldLeft(LAMBDA v, x : base * v + CharToNumber(x), 0, s)

Denotes == {<<10, <<>>>>, <<16, <<Zero, LetterX>>>>, <<2, <<Zero, LetterB>>>>}

Numerals(s) ==
    UNION {{[sign |-> sign[1], base |-> denote[1], digits |-> SubSeq(s, k, Len(s))] :
            k \in {k \in 1..Len(s) : /\ SubSeq(s, 1, k - 1) = sign[2] \o denote[2]
                                     /\ \A i \in k..Len(s) : CharToNumber(s[i]) \in 0..(denote[1] - 1)}} :
           sign \in {<<1, <<>>>>, <<1, <<Plus>>>>, <<-1, <<Dash>>>>}, denote \in Denotes}

Meaning(n) == n.sign * Horner(n.digits, n.base)

\* A double can hold the number, and the power of its first digit.
Fits(n) == Horner(n.digits, n.base) <= Exact /\ Power(n.base, Len(n.digits) - 1) <= Largest

\* cflare_tointeger accepts exactly the numerals - an optional sign, an optional
\* base, one digit of the base at least - and gives what they mean as long as it
\* fits a double: a longer one comes out rounded, or undefined.  The process ends
\* only over a character that is no digit of any base.
ReadsNumerals(s) ==
    LET r == ToInteger(s) IN
    /\ r.out \in {"true", "undefined"} <=> Numerals(s) # {}
    /\ \A n \in Numerals(s) : Fits(n) => r = Gives(Meaning(n))
    /\ r.out = "abort" => \E i \in DOMAIN s : CharToNumber(s[i]) = -1
=============================================================================
