------------------------------ MODULE Options ------------------------------
(***************************************************************************)
(* The options of the command line (cflare/options.c): cflare_options_load *)
(* puts them into a table and the other words into a list.  The table is a *)
(* function from names to values (see Hashtable).  A value is stored       *)
(* without the null byte behind it, and the functions that read it as a    *)
(* string run on into the memory after it: "beyond" is what is found there *)
(* up to the first null byte.  The environment is not looked at.           *)
(***************************************************************************)
EXTENDS Conversion

EqualsSign == 61

Nothing == [opts |-> <<>>, args |-> <<>>, parsing |-> TRUE]

\* cflare_hashtable_set of each name with one value.
Sets(load, names, value) ==
    [load EXCEPT !.opts = [n \in names \cup DOMAIN @ |-> IF n \in names THEN value ELSE @[n]]]

\* The position of the "=" behind an option's name, or the one behind the word.
NameEnd(word) == Min({i \in 3..Len(word) : word[i] = EqualsSign} \cup {Len(word) + 1})

\* A slip: options go on behind "--".
TakesOn(load, word) ==
    IF ~(Len(word) > 0 /\ word[1] = Dash) THEN [load EXCEPT !.args = Append(@, word)]
    ELSE IF Len(word) < 2 \/ word[2] # Dash
    THEN Sets(load, {<<word[i]>> : i \in 2..Len(word)}, <<>>)
    ELSE IF Len(word) = 2 THEN [load EXCEPT !.parsing = FALSE]
    ELSE Sets(load, {SubSeq(word, 3, NameEnd(word) - 1)}, SubSeq(word, NameEnd(word) + 1, Len(word)))

\* A turn of the loop of cflare_options_load: "-abc" sets each letter, "--" ends
\* the options, "--name=value" and "--name" set one; what is no option, or comes
\* behind "--", is an argument.
Takes(load, word) ==
    IF ~(load.parsing /\ Len(word) > 0 /\ word[1] = Dash) THEN [load EXCEPT !.args = Append(@, word)]
    ELSE IF Len(word) < 2 \/ word[2] # Dash
    THEN Sets(load, {<<word[i]>> : i \in 2..Len(word)}, <<>>)
    ELSE IF Len(word) = 2 THEN [load EXCEPT !.parsing = FALSE]
    ELSE Sets(load, {SubSeq(word, 3, NameEnd(word) - 1)}, SubSeq(word, NameEnd(word) + 1, Len(word)))

\* cflare_options_load of the words behind the program's name.
OptionsLoad(words) == FoldLeft(Takes, Nothing, words)

Has(load, name) == name \in DOMAIN load.opts

FalseWords == {<<102, 97, 108, 115, 101>>, <<Zero>>, <<110, 111>>, <<111, 102, 102>>}

\* cflare_options_boolean, _string and _integer.
OptionsBoolean(load, name, fallback, beyond) ==
    LET value == load.opts[name]
    IN  CASE ~Has(load, name) -> fallback
          [] Has(load, name) /\ Len(value) = 0 -> TRUE
          [] Has(load, name) /\ Len(value) = 1 -> value[1] # Zero
          [] OTHER -> value \o beyond \notin FalseWords

OptionsString(load, name, fallback, beyond) == IF Has(load, name) THEN load.opts[name] \o beyond ELSE fallback

OptionsInteger(load, name, fallback, beyond) ==
    LET number == ToInteger(load.opts[name] \o beyond)
    IN  CASE ~Has(load, name) -> Gives(fallback)
          [] Has(load, name) /\ number.out = "false" -> Gives(fallback)
          [] OTHER -> number

\* cflare_options_argument; no argument is an empty sequence.
OptionsArgument(load, position) ==
    IF position >= Len(load.args) THEN <<>> ELSE <<load.args[position + 1]>>

-----------------------------------------------------------------------------
\* The words before the first "--" are looked at for options.
Stop(words) == Min({i \in DOMAIN words : words[i] = <<Dash, Dash>>} \cup {Len(words) + 1})
IsOption(words, i) == i < Stop(words) /\ Len(words[i]) > 0 /\ words[i][1] = Dash
IsArgument(words, i) == i > Stop(words) \/ (i < Stop(words) /\ ~IsOption(words, i))

\* The ways to write an option, and the words that are one of them.
Writings(name, value) ==
    {<<Dash, Dash>> \o name \o <<EqualsSign>> \o value}
        \cup (IF value = <<>> THEN {<<Dash, Dash>> \o name} ELSE {})
SetsTo(word, name, value) ==
    \/ word \in Writings(name, value) /\ Len(word) > 2
    \/ /\ value = <<>> /\ Len(name) = 1 /\ Len(word) > 1 /\ word[2] # Dash
       /\ name[1] \in ToSet(Tail(word))
\* Every value is the end of a word.
Values(words) == UNION {Suffixes(words[i]) : i \in DOMAIN words}
LastSetting(words, name) ==
    {v \in Values(words) : \E i \in DOMAIN words :
        /\ IsOption(words, i) /\ SetsTo(words[i], name, v)
        /\ \A j \in (i + 1)..Len(words), u \in Values(words) : IsOption(words, j) => ~SetsTo(words[j], name, u)}

\* Each option has the value of its last setting, one never set the fallback; the
\* arguments are the other words, in order, and all words behind "--"; an option
\* set without a value is true, one set to a single 0 is false; and a string begins
\* with what was set, whatever lies beyond it.
LoadsOptions(words, names, beyonds) ==
    LET load == OptionsLoad(words)
        positions == {i \in DOMAIN words : IsArgument(words, i)}
    IN
    /\ \A name \in names :
          LastSetting(words, name) = IF Has(load, name) THEN {load.opts[name]} ELSE {}
    /\ \E at \in [1..Len(load.args) -> positions] :
          /\ \A n, m \in DOMAIN at : n < m => at[n] < at[m]
          /\ positions = {at[n] : n \in DOMAIN at}
          /\ load.args = [n \in DOMAIN at |-> words[at[n]]]
    /\ OptionsArgument(load, Cardinality(positions)) = <<>>
    /\ \A name \in names, fallback \in BOOLEAN, beyond \in beyonds :
          LET set == LastSetting(words, name)
              read == OptionsBoolean(load, name, fallback, beyond)
              text == OptionsString(load, name, <<>>, beyond)
          IN  /\ set = {} => read = fallback /\ OptionsInteger(load, name, 7, beyond) = Gives(7) /\ text = <<>>
              /\ \A v \in set : IsPrefix(v, text)
              /\ set = {<<>>} => read
              /\ set = {<<Zero>>} => ~read
=============================================================================
