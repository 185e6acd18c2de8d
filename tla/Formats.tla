------------------------------ MODULE Formats ------------------------------
(* How the browser kernel (globalization/kernel/yuruna.i18n.js) writes a   *)
(* value: plural categories, numbers, durations, stamps, and the isolation *)
(* of arguments in right-to-left text.                                     *)
(*                                                                         *)
(* A text is a sequence of symbols: one for each digit, separator and      *)
(* bidi control, one for each stretch of words.                            *)
EXTENDS Locales, Rounding, Sequences
Seqs == INSTANCE SequencesExt

CONSTANT Zone   \* the reader's offset from UTC, in seconds

-----------------------------------------------------------------------------
(* Values a page passes to the kernel *)

Null == [kind |-> "null"]

\* A number of the engine: num/den, den a power of two, or not finite.
Finite(num, den) == [kind |-> "number", finite |-> TRUE, num |-> num, den |-> den]
NaN == [kind |-> "number", finite |-> FALSE, num |-> 0, den |-> 1]

\* An instant, in seconds from the first day of a month; or no instant.
Instant(at) == [kind |-> "date", at |-> at]
BadDate == Instant(-1)

\* Words of the caller, with the bidi controls they carry.
Words(symbols) == [kind |-> "text", symbols |-> symbols]

\* Number(value): null counts as zero, words as no number.
AsNumber(value) ==
  CASE value.kind = "number" -> value
    [] value.kind = "null"   -> Finite(0, 1)
    [] OTHER                 -> NaN

Abs(n) == IF n < 0 THEN -n ELSE n

-----------------------------------------------------------------------------
(* Plural categories *)

\* Mutant: every locale counts as the default does.
PluralRuleOfDefault(tag) == DataFor(DEFAULT_TAG).plural

\* A locale without a pinned rule borrows the default's.
PluralRule(tag) ==
  LET rule == DataFor(tag).plural
  IN  IF rule = "" THEN DataFor(DEFAULT_TAG).plural ELSE rule

PinnedRules == {"one-if-1", "pt-cardinal-cldr46", "zh-cardinal-cldr46",
                "he-cardinal-cldr46"}

PluralCategory(tag, count) ==
  LET size  == Abs(count.num)
      whole == size \div count.den
      exact == size % count.den = 0
      rule  == PluralRule(tag)
  IN  IF ~count.finite
      THEN "other"
      ELSE CASE rule = "one-if-1" ->
                  IF count.num = count.den THEN "one" ELSE "other"
             [] rule = "pt-cardinal-cldr46" ->
                  IF whole <= 1 THEN "one"
                  ELSE IF exact /\ whole % 1000000 = 0 THEN "many" ELSE "other"
             [] rule = "he-cardinal-cldr46" ->
                  IF (whole = 1 /\ exact) \/ (whole = 0 /\ ~exact) THEN "one"
                  ELSE IF whole = 2 /\ exact THEN "two" ELSE "other"
             [] OTHER -> "other"

-----------------------------------------------------------------------------
(* Numbers *)

Space  == " "
Absent == ""

Digit(d) == <<"0", "1", "2", "3", "4", "5", "6", "7", "8", "9">>[d + 1]

DigitSymbols == {Digit(d) : d \in 0 .. 9}

Digits[n \in Nat] ==
  LET last == <<Digit(n % 10)>>
  IN  IF n < 10 THEN last ELSE Digits[n \div 10] \o last

Pad2(n) == IF n < 10 THEN <<"0">> \o Digits[n] ELSE Digits[n]

\* A separator before every size-th digit from the right, but not in front.
GroupDigits(digits, sep, size) ==
  LET Left(i) == Len(digits) - i + 1
  IN  IF sep = Absent \/ size <= 0 \/ Len(digits) <= size
      THEN digits
      ELSE Seqs!FlattenSeq([i \in 1 .. Len(digits) |->
             IF Left(i) % size = 0 /\ i > 1
             THEN <<sep, digits[i]>>
             ELSE <<digits[i]>>])

\* The generated YurunaLocaleData groups by threes, and no separator is read
\* for a digit or a sign.
ASSUME SeparatorsAssumption ==
  \A tag \in DOMAIN LocaleData :
    /\ LocaleData[tag].groupSize = 3
    /\ {LocaleData[tag].group, LocaleData[tag].decimal}
         \cap (DigitSymbols \cup {Absent, "-"}) = {}

Integral == [scale |-> 1, binary |-> 2]
Decimal  == [scale |-> 100, binary |-> 8]

FormatNumber(value, tag, places) ==
  LET d     == DataFor(tag)
      text  == Rounded(Abs(value.num), value.den, places.scale, places.binary)
      whole == GroupDigits(Digits[text \div places.scale], d.group, d.groupSize)
      sign  == IF value.num < 0 THEN <<"-">> ELSE <<>>
      parts == IF places = Integral
               THEN <<>> ELSE <<d.decimal>> \o Pad2(text % places.scale)
  IN  IF value.finite THEN sign \o whole \o parts ELSE <<>>

-----------------------------------------------------------------------------
(* Durations and stamps *)

\* The two largest units of a duration.
HoursAndMinutes(h, m)   == Digits[h] \o <<"h", Space>> \o Digits[m] \o <<"m">>
MinutesAndSeconds(m, s) == Digits[m] \o <<"m", Space>> \o Digits[s] \o <<"s">>
Seconds(s)              == Digits[s] \o <<"s">>

\* Mutant: the hours are rounded.
FormatDurationRounded(value) ==
  LET total == value.num \div value.den
      h     == (total + 1800) \div 3600
      m     == (total % 3600) \div 60
  IN  CASE ~value.finite \/ total < 0 -> <<>>
        [] h >= 1 -> HoursAndMinutes(h, m)
        [] OTHER -> MinutesAndSeconds(m, total % 60)

\* Floored to the second, then to the two largest units.
FormatDuration(value) ==
  LET total == value.num \div value.den
      h     == total \div 3600
      m     == (total % 3600) \div 60
      s     == total % 60
  IN  CASE ~value.finite \/ total < 0 -> <<>>
        [] h >= 1 -> HoursAndMinutes(h, m)
        [] h = 0 /\ m >= 1 -> MinutesAndSeconds(m, s)
        [] OTHER -> Seconds(s)

\* The fields of a Date, as its getters give them (months from 0).
Fields(at) ==
  [year |-> 2026, month |-> 8, day |-> 1 + (at \div 86400),
   hours |-> (at % 86400) \div 3600, minutes |-> (at % 3600) \div 60,
   seconds |-> at % 60]

Day(f) ==
  Digits[f.year] \o <<"-">> \o Pad2(f.month + 1) \o <<"-">> \o Pad2(f.day)
Clock(f) == Pad2(f.hours) \o <<":">> \o Pad2(f.minutes) \o <<":">> \o Pad2(f.seconds)

\* A datetime argument: always UTC, one shape for every runtime.
FormatDatetime(value) ==
  LET f == Fields(value.at)
  IN  IF value = BadDate THEN <<>> ELSE Day(f) \o <<Space>> \o Clock(f) \o <<Space, "UTC">>

\* Mutant: the UTC fields, as a datetime argument has them.
FormatLocalInUTC(value) ==
  LET f == Fields(value.at)
  IN  IF value = BadDate
      THEN <<>>
      ELSE Day(f) \o <<Space>> \o Pad2(f.hours) \o <<":">> \o Pad2(f.minutes)

\* fmtLocal, fmtLocalTime: the reader's zone, the same shape for everyone.
FormatLocal(value) ==
  LET f == Fields(value.at + Zone)
  IN  IF value = BadDate
      THEN <<>>
      ELSE Day(f) \o <<Space>> \o Pad2(f.hours) \o <<":">> \o Pad2(f.minutes)

FormatLocalTime(value) ==
  IF value = BadDate THEN <<>> ELSE Clock(Fields(value.at + Zone))

\* yurunaLocalTime of the pages that carry no runtime.
YurunaLocalTime(value) ==
  LET f == Fields(value.at + Zone)
  IN  IF value = BadDate
      THEN <<>>
      ELSE Pad2(f.hours) \o <<":">> \o Pad2(f.minutes) \o <<":">> \o Pad2(f.seconds)

-----------------------------------------------------------------------------
(* Arguments *)

FormatText(value, type, tag) ==
  IF value = Null
  THEN <<>>
  ELSE CASE type = "integer"   -> FormatNumber(AsNumber(value), tag, Integral)
         [] type = "decimal"   -> FormatNumber(AsNumber(value), tag, Decimal)
         [] type = "duration"  -> FormatDuration(AsNumber(value))
         [] type = "datetime"  -> FormatDatetime(value)
         [] OTHER              -> value.symbols

Openers == {"LRI", "RLI", "FSI"}

\* Mutant: a text is isolated once more.
IsolatedNever(t) == FALSE

\* The test the kernel makes for a text that is isolated already.
Isolated(t) == Len(t) >= 2 /\ t[1] \in Openers /\ t[Len(t)] = "PDI"

FormatArgument(value, type, tag) ==
  LET t     == FormatText(value, type, tag)
      opens == IF type \in {"integer", "decimal", "duration", "datetime"}
               THEN "LRI" ELSE "FSI"
  IN  IF DataFor(tag).direction # "rtl" \/ t = <<>> \/ Isolated(t)
      THEN t
      ELSE <<opens>> \o t \o <<"PDI">>

\* A message's pieces: words, or a typed argument; an absent argument is null.
RenderSegments(segments, args, tag) ==
  Seqs!FlattenSeq([i \in DOMAIN segments |->
    IF segments[i].arg = Absent
    THEN <<segments[i].words>>
    ELSE FormatArgument(IF segments[i].arg \in DOMAIN args
                        THEN args[segments[i].arg] ELSE Null,
                        segments[i].type, tag)])
=============================================================================
