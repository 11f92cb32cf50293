-------------------------------- MODULE Url --------------------------------
(***************************************************************************)
(* Query strings (cflare/url.c).  cflare_unescape_url_mutate works in      *)
(* place: when it fails, the text is decoded up to the failure, the rest   *)
(* and the length are as they were, and the caller goes on with that.  The *)
(* growing buffers that keys and values are copied to are left out.        *)
(***************************************************************************)
EXTENDS Conversion

Percent == 37
Ampersand == 38
Equals == 61
Space == 32

\* The character that the escape at position i stands for.
Escape(s, i) == IF i + 2 > Len(s) THEN Fails ELSE ToInteger(<<Zero, LetterX, s[i + 1], s[i + 2]>>)

\* One turn of the loop of cflare_unescape_url_mutate: i is the next character,
\* text the characters decoded so far.
Turn(s, t) ==
    IF t.i > Len(s) \/ t.out # "true" THEN t
    ELSE IF s[t.i] = Percent
    THEN LET e == Escape(s, t.i)
         IN  IF e.out # "true" THEN [t EXCEPT !.out = e.out]
             ELSE [t EXCEPT !.i = @ + 3, !.text = Append(@, e.value)]
    ELSE [t EXCEPT !.i = @ + 1, !.text = Append(@, IF s[t.i] = Plus THEN Space ELSE s[t.i])]

\* cflare_unescape_url_mutate: what it returns, and the text afterwards.
Unescape(s) ==
    LET turn[k \in 0..Len(s)] == IF k = 0 THEN [i |-> 1, text |-> <<>>, out |-> "true"]
                                 ELSE Turn(s, turn[k - 1])
        t == turn[Len(s)]
    IN  IF t.out = "true" THEN [out |-> "true", text |-> t.text]
        ELSE [out |-> t.out, text |-> t.text \o SubSeq(s, Len(t.text) + 1, Len(s))]

\* The first position from i on with one of chars, or the one behind the text.
FirstOf(s, i, chars) == Min({j \in i..Len(s) : s[j] \in chars} \cup {Len(s) + 1})

\* A slip: a key without "=" is given the next pair as its value.
PairsTakeNext(s) ==
    LET from[i \in 1..(Len(s) + 2)] ==
            LET k == FirstOf(s, i, {Ampersand, Equals})
                v == FirstOf(s, k + 1, {Ampersand})
            IN  IF i > Len(s) THEN <<>>
                ELSE <<<<SubSeq(s, i, k - 1), SubSeq(s, k + 1, v - 1)>>>> \o from[v + 1]
    IN  from[1]

\* The loop of cflare_url_parse_query: the keys and values as they are written.
\* A key ends at "&" or "=", a value, if there is one, at "&".
Pairs(s) ==
    LET from[i \in 1..(Len(s) + 2)] ==
            LET k == FirstOf(s, i, {Ampersand, Equals})
                v == FirstOf(s, k, {Ampersand})
            IN  IF i > Len(s) THEN <<>>
                ELSE <<<<SubSeq(s, i, k - 1), SubSeq(s, k + 1, v - 1)>>>> \o from[v + 1]
    IN  from[1]

\* cflare_url_parse_query: what the callback is called with.  (Should an
\* assertion end the process on the way, the text is as it was then.)
ParseQuery(s) == [n \in DOMAIN Pairs(s) |-> <<Unescape(Pairs(s)[n][1]).text, Unescape(Pairs(s)[n][2]).text>>]

-----------------------------------------------------------------------------
\* How a client writes a text in a query.
HexDigit(n) == IF n < 10 THEN 48 + n ELSE 87 + n
Written(c) ==
    IF c \in DecimalDigit \cup Lower \cup Upper THEN <<c>>
    ELSE <<Percent, HexDigit(c \div 16), HexDigit(c % 16)>>
Writes(text, c) == text \o Written(c)
Escaped(s) == FoldLeft(Writes, <<>>, s)

\* A query cut at each "&", and a piece cut at its first "=".
Split(pieces, c) ==
    IF c = Ampersand THEN Append(pieces, <<>>) ELSE Append(Front(pieces), Append(Last(pieces), c))
Pieces(s) == FoldLeft(Split, <<<<>>>>, s)
CutPiece(p) ==
    LET e == SelectInSeq(p, LAMBDA c : c = Equals)
    IN  IF e = 0 THEN <<p, <<>>>> ELSE <<SubSeq(p, 1, e - 1), SubSeq(p, e + 1, Len(p))>>
HasHexDigits(s, i) == i + 2 <= Len(s) /\ \A j \in {i + 1, i + 2} : CharToNumber(s[j]) \in 0..15

\* What was written as a key and value is what the callback gets; any query at
\* all is cut into its pairs, an empty one at its very end left out; unescaping
\* fails only at a "%" without two digits, and then keeps the length.
ReadsQuery(s) ==
    /\ Unescape(Escaped(s)) = [out |-> "true", text |-> s]
    /\ ParseQuery(Escaped(s) \o <<Equals>> \o Escaped(s)) = <<<<s, s>>>>
    /\ LET written == [n \in DOMAIN Pieces(s) |-> CutPiece(Pieces(s)[n])]
       IN  Pairs(s) = IF Last(Pieces(s)) = <<>> THEN Front(written) ELSE written
    /\ Unescape(s).out # "true" =>
          /\ Len(Unescape(s).text) = Len(s)
          /\ \E i \in DOMAIN s : s[i] = Percent /\ ~HasHexDigits(s, i)
=============================================================================
