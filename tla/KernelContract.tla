-------------------------- MODULE KernelContract --------------------------
(* What a reader of a page may rely on, whatever the order in which the    *)
(* language is decided, the catalogs arrive and messages are asked for.    *)
EXTENDS I18n

CONSTANT PluralCases  \* fixtures/<locale>-plurals.json: <<tag, count, category>>

TypeOK ==
  /\ current \in DOMAIN LocaleData
  /\ initialized \in BOOLEAN
  /\ pageContext = NoContext \/ ValidSource(pageContext.source)
  /\ element.dir \in {"", "ltr", "rtl"}
  /\ \A r \in registered : r[1] \in DOMAIN Tables /\ r[2] \in DOMAIN Tables[r[1]]
  /\ Cardinality(reported) <= MaxReports

-----------------------------------------------------------------------------
(* Reading a text back *)

SymbolsOf(text) == {text[i] : i \in DOMAIN text}

DigitValue(symbol) == CHOOSE d \in 0 .. 9 : Digit(d) = symbol
IsDigit(symbol) == \E d \in 0 .. 9 : Digit(d) = symbol

\* The number a text's digits make, separators left out.
NumberIn(text) ==
  LET read[i \in 0 .. Len(text)] ==
        IF i = 0 THEN 0
        ELSE IF IsDigit(text[i]) THEN 10 * read[i - 1] + DigitValue(text[i])
        ELSE read[i - 1]
  IN  read[Len(text)]

\* The words of each locale's tables.
WordsOf ==
  LET Pieces(entry) ==
        IF entry.kind = "text" THEN SymbolsOf(entry.segments)
        ELSE UNION {SymbolsOf(entry.variants[v]) : v \in DOMAIN entry.variants}
      Entries(table) == {table[n] : n \in DOMAIN table}
      EntriesOf(tag) == UNION {Entries(Tables[tag][d]) : d \in DOMAIN Tables[tag]}
  IN  [tag \in DOMAIN Tables |->
         {p.words : p \in UNION {Pieces(entry) : entry \in EntriesOf(tag)}} \ {Absent}]

AllWords == UNION {WordsOf[tag] : tag \in DOMAIN Tables}

Spoken(text) == SymbolsOf(text) \cap AllWords

Fallback(call) == call.text = KeyText(call.key)

\* The locale whose words a message is made of.
SpokenIn(call, tag) ==
  tag \in DOMAIN Tables /\ Spoken(call.text) # {} /\ Spoken(call.text) \subseteq WordsOf[tag]

Controls == Openers \cup {"PDI"}

\* How many isolates are open at a position of a text.
Depth(text, i) ==
  Cardinality({j \in 1 .. i : text[j] \in Openers})
    - Cardinality({j \in 1 .. i : text[j] = "PDI"})

ControlsIn(text) == {i \in DOMAIN text : text[i] \in Controls}

-----------------------------------------------------------------------------
(* What the readings presuppose of tables and callers                      *)

\* What the formatters write: digits, separators, marks and controls.
Separators ==
  {",", "."} \cup UNION {{LocaleData[tag].group, LocaleData[tag].decimal} : tag \in DOMAIN LocaleData}
Marks      == {"h", "m", "s", Space, ":", "-", "UTC"}
Formatting == DigitSymbols \cup Separators \cup Marks \cup Controls

\* A caller passes no value at all, or one that the declared type can write.
Counted == {"integer", "duration"}
Suits(value, type) ==
  \/ value = Null
  \/ type \in Counted \cup {"decimal"} /\ (value.kind = "text" \/ IsNumber(value))
  \/ type = "datetime" /\ IsDate(value)
  \/ /\ type \notin Counted \cup {"decimal", "datetime"}
     /\ value = Words(value.symbols)
     /\ value.symbols \in Seq(SymbolsOf(value.symbols))

\* A caller's words: no table's, no separators, and with no controls or
\* isolated as a whole.
Foreign(symbols) ==
  /\ SymbolsOf(symbols) \cap (AllWords \cup Separators) = {}
  /\ ControlsIn(symbols) # {} =>
       /\ ControlsIn(symbols) = {1, Len(symbols)} /\ Len(symbols) >= 2
       /\ symbols[1] \in Openers /\ symbols[Len(symbols)] = "PDI"

Passes(value, type) ==
  Suits(value, type) /\ (value.kind = "text" => Foreign(value.symbols))

Argument(args, piece) == IF piece.arg \in DOMAIN args THEN args[piece.arg] ELSE Null

\* A form has words of its own (all but a handful of the compiled ones do), no
\* decimals (none of them has), and is given arguments of the types it declares.
Sayable(form, args) ==
  /\ form \in Seq(SymbolsOf(form))
  /\ \E i \in DOMAIN form : form[i].arg = Absent
  /\ \A i \in DOMAIN form :
       IF form[i].arg = Absent
       THEN form[i].words # Absent
       ELSE /\ form[i].words = Absent /\ form[i].type # "decimal"
            /\ Passes(Argument(args, form[i]), form[i].type)

\* The compiler refuses a message without the form "other".
Answerable(entry, args) ==
  IF entry.kind = "text"
  THEN Sayable(entry.segments, args)
  ELSE /\ "other" \in DOMAIN entry.variants
       /\ \A v \in DOMAIN entry.variants : Sayable(entry.variants[v], args)

Declares(tag, key) == key[1] \in DOMAIN Tables[tag] /\ key[2] \in DOMAIN Tables[tag][key[1]]

ASSUME RequestsAssumption ==
  \A r \in Requests :
    /\ \A tag \in DOMAIN Tables : Declares(tag, r.key) => Answerable(Entry(tag, r.key), r.args)
    /\ SymbolsOf(KeyText(r.key)) \cap AllWords = {}
    /\ r.key[2] = "host_online_count" => r.key[1] = "status" /\ "count" \in DOMAIN r.args

ASSUME TypedAssumption == \A arg \in Typed : Passes(arg.value, arg.type)

\* No word is read for anything else, and locales of two directions share none.
ASSUME WordsAssumption ==
  /\ AllWords \cap Formatting = {}
  /\ Controls \cap (DigitSymbols \cup Separators \cup Marks) = {}
  /\ \A tag, other \in DOMAIN Tables :
       DataFor(tag).direction # DataFor(other).direction => WordsOf[tag] \cap WordsOf[other] = {}

\* A whole number of millions.
Millions(n) == Abs(n.num) % (1000000 * n.den) = 0

\* The cardinal rules of CLDR 46, over the size of a number.
Cardinal(rule, n) ==
  LET size == Abs(n.num)
  IN  CASE rule = "one-if-1" ->
             IF n.num = n.den THEN "one" ELSE "other"
        [] rule = "pt-cardinal-cldr46" ->
             IF size < 2 * n.den THEN "one"
             ELSE IF Millions(n) THEN "many" ELSE "other"
        [] rule = "he-cardinal-cldr46" ->
             IF 0 < size /\ size <= n.den THEN "one"
             ELSE IF size = 2 * n.den THEN "two" ELSE "other"
        [] rule = "zh-cardinal-cldr46" -> "other"

\* The categories a rule tells apart.
Categories(rule) ==
  CASE rule = "one-if-1"           -> {"one", "other"}
    [] rule = "pt-cardinal-cldr46" -> {"one", "many", "other"}
    [] rule = "he-cardinal-cldr46" -> {"one", "two", "other"}
    [] rule = "zh-cardinal-cldr46" -> {"other"}

\* The fixtures record what CLDR says of their locale.
ASSUME FixturesAssumption ==
  \A case \in PluralCases :
    LET rule == LocaleData[case[1]].plural
    IN  /\ case[1] \in DOMAIN LocaleData /\ rule \in PinnedRules
        /\ IsNumber(case[2]) /\ case[2].finite
        /\ case[3] = Cardinal(rule, case[2])

\* A catalog has a form of the counted message for every category of its rule.
ASSUME FormsAssumption ==
  \A tag \in DOMAIN Tables :
    LET rule  == DataFor(tag).plural
        entry == Entry(tag, <<"status", "host_online_count">>)
    IN  /\ rule \in PinnedRules
        /\ Declares(tag, <<"status", "host_online_count">>)
        /\ entry.kind = "plural" /\ entry.selector = "count"
        /\ DOMAIN entry.variants = Categories(rule)

-----------------------------------------------------------------------------
\* A sentence is written by one locale: its words, the separators of its
\* numbers and the plural form of its noun all follow the tag asked for, or
\* all follow the default when that tag has no such message yet; a Hebrew
\* sentence never gets an English plural rule, nor an English one Hebrew
\* digits.
OneVoice ==
  LET count == said.args.count
      Writes(tag) ==
        /\ SpokenIn(said, tag)
        /\ \A s \in SymbolsOf(said.text) \cap {",", "."} : s = DataFor(tag).group
        /\ said.key[2] = "host_online_count" =>
             \A case \in PluralCases :
               (case[1] = tag /\ case[2] = count) =>
                 Spoken(said.text) =
                   {p.words : p \in SymbolsOf(
                      Tables[tag]["status"]["host_online_count"].variants[case[3]])} \ {Absent}
  IN  said.what = "message" /\ ~Fallback(said) =>
        Writes(said.tag) \/ Writes(DEFAULT_TAG)

\* Nothing is papered over in silence: a message that is not in the language
\* asked for has left a diagnostic of that key and that language, and a page
\* shows a bare key only where no catalog it carries declares it.
GapsAreReported ==
  said.what = "message" =>
    /\ said.tag # DEFAULT_TAG /\ ~SpokenIn(said, said.tag) =>
         Missing(said.key, said.tag) \in reported
    /\ Fallback(said) =>
         /\ Nowhere(said.key) \in reported
         /\ said.key[1] \in Resident => said.key[2] \notin DOMAIN Tables[DEFAULT_TAG][said.key[1]]

\* Inside right-to-left text every foreign run sits in exactly one closed
\* isolate, also when the caller isolated it before; left-to-right text gets
\* no controls of its own.
ArgumentsIsolated ==
  LET text == said.text
      Enclosed ==
        \A i \in DOMAIN text :
          /\ Depth(text, i) \in {0, 1}
          /\ text[i] \notin Spoken(text) \cup {"PDI"} => Depth(text, i) = 1
          /\ i = Len(text) => Depth(text, i) = 0
      Given == IF said.what = "argument" THEN {said.value.value}
               ELSE {said.args[a] : a \in DOMAIN said.args}
      Passed == UNION {ControlsIn(v.symbols) : v \in {g \in Given : g.kind = "text"}}
      Rtl == IF said.what = "argument" THEN DataFor(said.tag).direction = "rtl"
             ELSE \E tag \in DOMAIN Tables :
                    SpokenIn(said, tag) /\ DataFor(tag).direction = "rtl"
  IN  said.what = "argument" \/ (said.what = "message" /\ ~Fallback(said)) =>
        IF Rtl THEN Enclosed ELSE ControlsIn(text) # {} => Passed # {}

\* A count gets the category the three runtimes agreed on, and one its
\* locale's catalog has a form for: Hebrew and Portuguese forms are never
\* dropped for "other".
PluralsAgree ==
  said.what = "plural" =>
    /\ \A case \in PluralCases :
         (case[1] = said.tag /\ case[2] = said.value) => said.text = case[3]
    /\ said.tag \in DOMAIN Tables =>
         said.text \in DOMAIN Tables[said.tag]["status"]["host_online_count"].variants

\* What a text says of a number: the nearest one its places can show, the
\* even one of two; grouped by threes from the right in the locale's own
\* separators, with the sign outside.
ReadsBack(text, value, tag, places) ==
  LET decimals == IF places = Integral THEN 0 ELSE 2
      \* the end of the whole part
      whole    == IF decimals = 0 THEN Len(text) ELSE Len(text) - decimals - 1
      d        == DataFor(tag)
  IN  /\ IsHalfEven(NumberIn(text), Abs(value.num), value.den, places.scale)
      /\ (text[1] = "-") = (value.num < 0)
      /\ decimals > 0 => text[whole + 1] = d.decimal
      /\ \A i \in 1 .. whole :
           IF text[i] = "-" THEN i = 1
           ELSE IF (whole - i) % 4 = 3
           THEN text[i] = d.group /\ i > 1 /\ IsDigit(text[i - 1])
           ELSE IsDigit(text[i])

\* A number reads back as itself, at the places asked for; what is no number
\* has no text.
NumbersReadBack ==
  \A places \in {Integral, Decimal} :
    said.what = (IF places = Integral THEN "integer" ELSE "decimal") =>
      IF said.value.finite
      THEN ReadsBack(said.text, said.value, said.tag, places)
      ELSE said.text = <<>>

\* A duration read back: its smallest unit, where its larger one ends (0 if it
\* has one unit only), and the seconds it shows.
SmallestUnit(text) == IF "h" \in SymbolsOf(text) THEN 60 ELSE 1
SpaceIn(text) ==
  CHOOSE i \in 0 .. Len(text) :
    IF Space \in SymbolsOf(text) THEN i > 0 /\ text[i] = Space ELSE i = 0
Larger(text)  == NumberIn(SubSeq(text, 1, SpaceIn(text)))
Smaller(text) == NumberIn(SubSeq(text, SpaceIn(text) + 1, Len(text)))
Shown(text) ==
  IF SpaceIn(text) = 0 THEN Smaller(text)
  ELSE SmallestUnit(text) * (60 * Larger(text) + Smaller(text))

\* A duration shown is never longer than the time that passed, and short of
\* it by less than its smallest unit; no value at all for no time at all.
DurationsAreFloors ==
  LET text == said.text
      v    == said.value
  IN  said.what = "duration" =>
        IF ~v.finite \/ v.num < 0
        THEN text = <<>>
        ELSE /\ Shown(text) * v.den <= v.num
             /\ v.num < (Shown(text) + SmallestUnit(text)) * v.den
             /\ SpaceIn(text) > 0 => Larger(text) > 0 /\ Smaller(text) < 60

\* The time and the day a stamp shows.
ClockIn(what, text) ==
  CASE what = "local"    -> 100 * NumberIn(SubSeq(text, 12, 16))
    [] what = "datetime" -> NumberIn(SubSeq(text, 12, 19))
    [] OTHER             -> NumberIn(text)
DayIn(text) == NumberIn(SubSeq(text, 9, 10))

\* A stamp is the instant, in the reader's zone or in UTC as its shape says;
\* a page without the runtime writes the same one, and no stamp is written
\* for what is not an instant.
StampsAgree ==
  LET text  == said.text
      at    == said.value.at + (IF said.what = "datetime" THEN 0 ELSE Zone)
      clock == ClockIn(said.what, text)
  IN  said.what \in {"local", "localTime", "pageTime", "datetime"} =>
        IF said.value = BadDate
        THEN text = <<>>
        ELSE /\ clock \div 10000 = (at % 86400) \div 3600
             /\ (clock \div 100) % 100 = (at % 3600) \div 60
             /\ clock % 100 = IF said.what = "local" THEN 0 ELSE at % 60
             /\ said.what \in {"local", "datetime"} => DayIn(text) = 1 + (at \div 86400)
             /\ said.what \in {"localTime", "pageTime"} =>
                  FormatLocalTime(said.value) = YurunaLocalTime(said.value)
=============================================================================
