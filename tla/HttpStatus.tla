----------------------------- MODULE HttpStatus -----------------------------
(***************************************************************************)
(* The known status codes (cflare/httpstatus.c), read from files of lines  *)
(* such as "404 Not Found # comment" into two tables, from codes to reasons*)
(* and back.  The tables are functions (see Hashtable).  A line is at most *)
(* what fgets returns, with its newline.  A code is a uint32_t: Width is   *)
(* 2^32.  A number that no double holds leaves some code, which is 0 here. *)
(***************************************************************************)
EXTENDS Conversion

CONSTANT Width

ASSUME HttpStatusAssumption == Width \in Nat \ {0}

Hash == 35
White == 9..13 \cup {32}    \* isspace

\* normalize_status: the letters only, and in lower case.
NormalizeStatus(s) ==
    LET letters == SelectSeq(s, LAMBDA c : c \in Lower \cup Upper)
    IN  [i \in DOMAIN letters |-> IF letters[i] \in Upper THEN letters[i] + 32 ELSE letters[i]]

\* The part of a line before "#".
Uncommented(line) == SubSeq(line, 1, Min({i \in DOMAIN line : line[i] = Hash} \cup {Len(line) + 1}) - 1)

\* The first position of s with a character that is not in chars, or the one
\* behind s; and the last position with one, 0 if there is none.
FirstNot(s, chars) == Min({i \in DOMAIN s : s[i] \notin chars} \cup {Len(s) + 1})
LastNot(s, chars) == Max({i \in DOMAIN s : s[i] \notin chars} \cup {0})

\* A slip: the line is cut at the last character that is not white, not behind it.
ParseLineShort(line) ==
    LET text   == Uncommented(line)
        rest   == SubSeq(text, FirstNot(text, White), Len(text))
        digits == FirstNot(rest, DecimalDigit) - 1
        reason == SubSeq(rest, digits + 2, Len(rest))
        last   == LastNot(reason, White)
    IN  IF digits = 0 \/ digits = Len(rest) \/ last <= 1 THEN {}
        ELSE {[code |-> ToInteger(SubSeq(rest, 1, digits)).value % Width, reason |-> SubSeq(reason, 1, last - 1)]}

\* parse_line: the code and reason of a line, if it has them.  One character is
\* skipped behind the digits, and a reason whose last character that is not
\* white is its first, or which has none, is not taken.
ParseLine(line) ==
    LET text   == Uncommented(line)
        rest   == SubSeq(text, FirstNot(text, White), Len(text))
        digits == FirstNot(rest, DecimalDigit) - 1
        reason == SubSeq(rest, digits + 2, Len(rest))
        last   == LastNot(reason, White)
    IN  IF digits = 0 \/ digits = Len(rest) \/ last <= 1 THEN {}
        ELSE {[code |-> ToInteger(SubSeq(rest, 1, digits)).value % Width, reason |-> SubSeq(reason, 1, last)]}

NoStatuses == [toString |-> <<>>, toCode |-> <<>>]

\* cflare_hashtable_set
TableSet(table, key, value) == [k \in DOMAIN table \cup {key} |-> IF k = key THEN value ELSE table[k]]

\* The end of parse_line: both tables are set.
Adds(tables, line) ==
    LET s == CHOOSE s \in ParseLine(line) : TRUE
    IN  IF ParseLine(line) = {} THEN tables
        ELSE [toString |-> TableSet(tables.toString, s.code, s.reason),
              toCode |-> TableSet(tables.toCode, NormalizeStatus(s.reason), s.code)]

\* cflare_httpstatus_load: all lines of all files.
HttpStatusLoad(lines) == FoldLeft(Adds, NoStatuses, lines)

\* cflare_httpstatus_tostring (an empty set for null) and _fromstring.
StatusToString(tables, code) == {tables.toString[c] : c \in DOMAIN tables.toString \cap {code}}
StatusFromString(tables, stat) ==
    IF NormalizeStatus(stat) \in DOMAIN tables.toCode THEN tables.toCode[NormalizeStatus(stat)] ELSE 0

-----------------------------------------------------------------------------
\* What a line says: white space, digits, one character that is no digit, the
\* reason, white space, and perhaps a comment.
Says(line) ==
    {[number |-> [sign |-> 1, base |-> 10, digits |-> SubSeq(line, p[1], p[2] - 1)],
      reason |-> SubSeq(line, p[2] + 1, p[3])] :
     p \in {p \in (1..Len(line)) \X (1..Len(line)) \X (1..Len(line)) :
              /\ p[1] < p[2] /\ p[2] + 1 < p[3]
              /\ \A i \in 1..(p[1] - 1) : line[i] \in White
              /\ \A i \in p[1]..(p[2] - 1) : line[i] \in DecimalDigit
              /\ line[p[2]] \notin DecimalDigit /\ line[p[3]] \notin White
              /\ \A i \in p[2]..p[3] : line[i] # Hash
              /\ \A i \in (p[3] + 1)..Len(line) :
                    line[i] \in White \/ \E j \in (p[3] + 1)..i : line[j] = Hash}}

\* And the code as 32 bits hold it.
States(line) == {[code |-> Meaning(s.number) % Width, reason |-> s.reason] : s \in Says(line)}

\* As long as the numbers of the files fit a double: the last line with a code
\* gives its reason, and the last one with a reason, however it is spelled, its
\* code; so a reason leads back to the code it was looked up for, unless a line
\* gives that reason to another code.
KnowsStatuses(lines) ==
    LET tables == HttpStatusLoad(lines)
        says   == [n \in DOMAIN lines |-> States(lines[n])]
        all    == UNION {says[n] : n \in DOMAIN lines}
        same(s, r) == NormalizeStatus(s.reason) = NormalizeStatus(r.reason)
    IN  (\A n \in DOMAIN lines : \A s \in Says(lines[n]) : Fits(s.number)) =>
        /\ \A n \in DOMAIN lines : \A s \in says[n] :
              /\ (\A m \in (n + 1)..Len(lines) : \A r \in says[m] : r.code # s.code) =>
                    StatusToString(tables, s.code) = {s.reason}
              /\ (\A m \in (n + 1)..Len(lines) : \A r \in says[m] : ~same(s, r)) =>
                    StatusFromString(tables, s.reason) = s.code
        /\ DOMAIN tables.toString = {s.code : s \in all}
        /\ \A c \in DOMAIN tables.toString :
              LET s == [code |-> c, reason |-> tables.toString[c]]
              IN  (\A r \in all : same(s, r) => r.code = c) => StatusFromString(tables, s.reason) = c
=============================================================================
