------------------------------ MODULE IniCodec ------------------------------
(***************************************************************************)
(* The settings file of a game server, src/internal/palsettings/ini.go: one *)
(* line OptionSettings=(key=value,...), as ParseINI reads and Serialize      *)
(* writes it.  A text is a sequence of characters, since what the quotes,    *)
(* commas and parentheses of a value do to the others is the point.  Keys    *)
(* are characters of their own, and the values of the managed ones are of   *)
(* the schema's type string; truth values and numbers have no such          *)
(* characters and a notation of their own (formatValue).                    *)
(***************************************************************************)
EXTENDS Naturals, Sequences, SequencesExt

CONSTANTS
    Managed,   \* the keys of the schema, in its order
    Unmanaged, \* other keys a file may have, in alphabetical order
    Default    \* the schema's default of every managed key

ASSUME CodecAssumption == ToSet(Managed) \cap ToSet(Unmanaged) = {}

Keys == ToSet(Managed) \cup ToSet(Unmanaged)

Quote == "'"
Comma == ","
Open  == "("
Close == ")"
Equal == "="
Blank == "_"
Letters == {"x", "y"}
Chars == Letters \cup {Quote, Comma, Open, Close, Equal, Blank}

-----------------------------------------------------------------------------
(* Strings *)

Has(text, c) == Contains(text, c)
NotBlank(c) == c # Blank

\* strings.TrimSpace
Trim(text) ==
    IF \A i \in DOMAIN text : text[i] = Blank THEN << >>
    ELSE SubSeq(text, SelectInSeq(text, NotBlank), SelectLastInSeq(text, NotBlank))

\* The n-th character, if there is one.
At(text, n, c) == n <= Len(text) /\ text[n] = c

-----------------------------------------------------------------------------
(* Reading *)

\* normalizeParenValues: a list the game writes without quotes, key=(a,b), gets
\* them.  The scan knows if it is within quotes, and up to where it has copied.
NormalizeStep(body, s, i) ==
    LET closing == SelectInSubSeq(body, i + 2, Len(body), LAMBDA c : c = Close) IN
    IF i <= s.done THEN s
    ELSE IF body[i] = Quote
    THEN [s EXCEPT !.out = Append(@, Quote), !.quoted = ~s.quoted]
    ELSE IF body[i] = Equal /\ ~s.quoted /\ At(body, i + 1, Open) /\ closing > 0
    THEN [s EXCEPT !.out = @ \o <<Equal, Quote>> \o SubSeq(body, i + 1, closing) \o <<Quote>>,
                   !.done = closing]
    ELSE [s EXCEPT !.out = Append(@, body[i])]

Normalize(body) ==
    LET step(s, i) == NormalizeStep(body, s, i)
    IN FoldLeftDomain(step, [out |-> << >>, quoted |-> FALSE, done |-> 0], body).out

\* splitRespectingQuotes: commas within quotes do not split, and two quotes
\* within quotes are one.
SplitStep(body, s, i) ==
    IF i <= s.done THEN s
    ELSE IF body[i] = Quote /\ s.quoted /\ At(body, i + 1, Quote)
    THEN [s EXCEPT !.token = Append(@, Quote), !.done = i + 1]
    ELSE IF body[i] = Quote
    THEN [s EXCEPT !.token = Append(@, Quote), !.quoted = ~s.quoted]
    ELSE IF body[i] = Comma /\ ~s.quoted
    THEN [s EXCEPT !.tokens = Append(@, s.token), !.token = << >>]
    ELSE [s EXCEPT !.token = Append(@, body[i])]

Split(body) ==
    LET step(s, i) == SplitStep(body, s, i)
        s == FoldLeftDomain(step, [tokens |-> << >>, token |-> << >>, quoted |-> FALSE,
                                   done |-> 0], body)
    IN Append(s.tokens, s.token)

\* unquote takes the quotes around a value away.
Unquote(text) ==
    IF Len(text) >= 2 /\ text[1] = Quote /\ text[Len(text)] = Quote
    THEN SubSeq(text, 2, Len(text) - 1)
    ELSE text

\* splitPairs: the tokens that have a key, the last one of a key counts.
EqualAt(token) == SelectInSeq(token, LAMBDA c : c = Equal)
KeyOf(token) == Trim(SubSeq(token, 1, EqualAt(token) - 1))
ValueOf(token) == Unquote(Trim(SubSeq(token, EqualAt(token) + 1, Len(token))))

Pairs(body) ==
    LET tokens == SelectSeq(Split(body), LAMBDA t : EqualAt(Trim(t)) > 1)
        names == {KeyOf(tokens[i]) : i \in DOMAIN tokens}
    IN [k \in names |->
           ValueOf(tokens[SelectLastInSeq(tokens, LAMBDA t : KeyOf(t) = k)])]

\* ParseINI on the line's body: up to the last closing parenthesis.
ParseINI(line) ==
    LET closing == SelectLastInSeq(line, LAMBDA c : c = Close)
    IN Pairs(Normalize(SubSeq(line, 1, closing - 1)))

-----------------------------------------------------------------------------
(* Writing *)

\* Every quote is written twice.
Doubled(v) == FlattenSeq([i \in DOMAIN v |-> IF v[i] = Quote THEN <<Quote, Quote>> ELSE <<v[i]>>])

\* quoteValue, which is what formatValue does with a string.
QuoteValue(v) ==
    IF Has(v, Comma) \/ Has(v, Quote) THEN <<Quote>> \o Doubled(v) \o <<Quote>> ELSE v

Given(map, k) == k \in DOMAIN map /\ map[k] # << >>

\* An empty override, an empty value in the file: the next in line counts.
ValueFor(k, overrides, existing) ==
    IF Given(overrides, k) THEN overrides[k]
    ELSE IF Given(existing, k) THEN existing[k]
    ELSE Default[k]

\* Serialize: the managed keys in the schema's order, then the others the file
\* has.
Serialize(overrides, existing) ==
    LET managed == [i \in DOMAIN Managed |->
                       <<Managed[i], Equal>>
                           \o QuoteValue(ValueFor(<<Managed[i]>>, overrides, existing))]
        extra == SelectSeq(Unmanaged, LAMBDA k : <<k>> \in DOMAIN existing)
        others == [i \in DOMAIN extra |->
                      <<extra[i], Equal>> \o QuoteValue(existing[<<extra[i]>>])]
        join(a, b) == IF a = << >> THEN b ELSE a \o <<Comma>> \o b
    IN FoldLeft(join, << >>, managed \o others) \o <<Close>>
=============================================================================
