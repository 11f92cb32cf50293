------------------------------- MODULE MCText -------------------------------
(***************************************************************************)
(* Everything that is read as text, over all inputs up to a length: an     *)
(* input grows by one part a step, and in every state what the code makes  *)
(* of it is compared with what it means.                                   *)
(***************************************************************************)
EXTENDS Url, Options, HttpStatus, RequestHead, TLC

CONSTANT MaxParts    \* MaxParts[kind]: the parts an input of that kind has at most

VARIABLES kind, input

\* Doubles of eight bits: the nearest one, an even one of two.
NearestEven(x) ==
    LET ulp == Min({u \in {2 ^ k : k \in 0..16} : x <= 256 * u})
        low == x \div ulp
        rest == x % ulp
    IN  ulp * IF 2 * rest > ulp \/ (2 * rest = ulp /\ low % 2 = 1) THEN low + 1 ELSE low

\* The characters of a number: - + 0 1 9 b x f z ! ; of a query: % & = + 4 c z !
NumberChars == {45, 43, 48, 49, 57, 98, 120, 102, 122, 33}
QueryChars == {37, 38, 61, 43, 52, 99, 122, 33}

\* Words of a command line: "" - -- -ab --a --b=0 --a=no --=0 x --a=7
Words ==
    {<<>>, <<45>>, <<45, 45>>, <<45, 97, 98>>, <<45, 45, 97>>, <<45, 45, 98, 61, 48>>,
     <<45, 45, 97, 61, 110, 111>>, <<45, 45, 61, 48>>, <<120>>, <<45, 45, 97, 61, 55>>}
OptionNames == {<<>>, <<97>>, <<98>>}
\* What lies behind a value in memory.
OptionTails == {<<>>, <<48>>, <<110, 111>>, <<55>>}

\* Lines of a status file: "4 No#x" "4 nO!\n" "\f5 No\v\n" "55  Go\n" "4\n" "4"
\* "4 N\n" "#4 No" "No 4" "21\tGo", where 21 is 5 in the run, "500 Go" and a blank.
StatusLines ==
    {<<52, 32, 78, 111, 35, 120>>, <<52, 32, 110, 79, 33, 10>>, <<12, 53, 32, 78, 111, 11, 10>>,
     <<53, 53, 32, 32, 71, 111, 10>>, <<52, 10>>, <<52>>, <<52, 32, 78, 10>>, <<35, 52, 32, 78, 111>>,
     <<78, 111, 32, 52>>, <<50, 49, 9, 71, 111>>,
     <<53, 48, 48, 32, 71, 111>>, <<32, 10>>}

\* Header lines of each sort: " k" "k" (the token cut off) " c"; lengths " 5" " -1"
\* " 0xf" " 5z" " 5 " " 999" " 9999" "42" "5" and none, before "7" and a newline.
HeaderLines ==
    [is : {"header"}, name : {"host", "other"}, text : {<<32>>, <<>>}, behind : {<<>>}]
        \cup [is : {"header"}, name : {"connection"}, text : {<<32, 107>>, <<107>>, <<32, 99>>}, behind : {<<>>}]
        \cup [is : {"header"}, name : {"content-length"},
              text : {<<32, 53>>, <<32, 45, 49>>, <<32, 48, 120, 102>>, <<32, 53, 122>>, <<32, 53, 32>>,
                      <<32, 57, 57, 57>>, <<32, 57, 57, 57, 57>>, <<52, 50>>, <<53>>},
              behind : {<<>>}]
        \cup [is : {"header"}, name : {"content-length"}, text : {<<>>}, behind : {<<55>>, <<10>>}]
        \cup [is : {"unknown", "folded", "plain"}, name : {"none"}, text : {<<>>}, behind : {<<>>}]

Parts ==
    [number |-> NumberChars, query |-> QueryChars, options |-> Words, status |-> StatusLines,
     head |-> HeaderLines]

Lengths == [number |-> 5, query |-> 5, options |-> 4, status |-> 3, head |-> 3]

Init == kind \in DOMAIN Parts /\ input = <<>>

\* One part more.
Next ==
    /\ Len(input) < MaxParts[kind]
    /\ \E p \in Parts[kind] : input' = Append(input, p)
    /\ UNCHANGED kind

Spec == Init /\ [][Next]_<<kind, input>>

-----------------------------------------------------------------------------
\* cflare_tointeger reads every numeral, and nothing else, as what it means.
ToIntegerCorrect == kind = "number" => ReadsNumerals(input)

\* cflare_url_parse_query finds the pairs of a query, and unescaping undoes escaping.
QueryCorrect == kind = "query" => ReadsQuery(input)

\* cflare_options_load keeps the last setting of each option, and the arguments.
OptionsCorrect == kind = "options" => LoadsOptions(input, OptionNames, OptionTails)

\* The two tables of status codes agree with the files and with each other.
StatusCorrect == kind = "status" => KnowsStatuses(input)

\* The parsing of a head accepts the right ones, and settles keepalive and the
\* length of the content by the version and the last header that says so.
HeadCorrect ==
    kind = "head" =>
        \A version \in {<<1, 0>>, <<1, 1>>, <<1, 2>>, <<1, 3>>, <<2, 0>>}, authority \in {"none", "path", "bare"} :
            ReadsHead(input, version, authority)
=============================================================================
