----------------------------- MODULE I18nProofs -----------------------------
(* Proofs about I18n: for any locales, catalogs, requests and values, and  *)
(* whatever the server wrote into <html>, a page has one language.         *)
EXTENDS PageContextProofs, FormatsProofs

\* Messages, registrations and formatting leave the decision alone.
LEMMA NextDecides ==
  ASSUME Next
  PROVE  \/ \E decision \in Decisions : InitPage(decision)
         \/ \E tag \in RawTags : SetLocale(tag)
         \/ AskContext
         \/ UNCHANGED contextVars
<1>1. CASE Decide
  BY <1>1 DEF Decide
<1>2. CASE \E tag \in DOMAIN Tables : \E domain \in DOMAIN Tables[tag] : Register(tag, domain)
  BY <1>2 DEF Register
<1>3. CASE \E r \in Requests : Translate(r.key, r.args, r.tag)
  BY <1>3 DEF Translate
<1>4. CASE \E tag \in Tags, count \in Numbers : AskPlural(tag, count)
  BY <1>4 DEF AskPlural
<1>5. CASE Format
  BY <1>5 DEF Format, Answer
<1>6. QED
  BY <1>1, <1>2, <1>3, <1>4, <1>5 DEF Next

\* Every step keeps the invariant.
LEMMA NextContext == ContextInv /\ [Next]_vars => ContextInv'
<1> SUFFICES ASSUME ContextInv, [Next]_vars PROVE ContextInv'
  OBVIOUS
<1>1. CASE UNCHANGED contextVars
  BY <1>1 DEF contextVars, ContextInv, ElementHonest, ContextAgrees
<1>2. CASE Next /\ ~UNCHANGED contextVars
  BY <1>2, NextDecides, InitPageContext, SetLocaleContext, AskContextContext
<1>3. QED
  BY <1>1, <1>2 DEF vars, contextVars

\* Once the decision is sealed no step changes it.
LEMMA NextSealed ==
  ASSUME ContextInv, [Next]_vars, initialized
  PROVE  UNCHANGED contextVars
<1>1. CASE Next
  <2>1. CASE AskContext
    BY <2>1 DEF AskContext, ContextInv, ContextAgrees, contextVars
  <2>2. QED
    BY <1>1, <2>1, NextDecides DEF InitPage, SetLocale
<1>2. QED
  BY <1>1 DEF vars, contextVars

-----------------------------------------------------------------------------
\* The invariant holds in every state of a page.
THEOREM ContextInvariant == Spec => []ContextInv
<1>1. I18nInit => ContextInv
  BY InitContext, ServerAssumption DEF I18nInit
<1>2. QED
  BY <1>1, NextContext, PTL DEF Spec

\* Whatever is called before and after init(), in any order, the context, the
\* locale messages are rendered in, and the language and direction the
\* document announces are one decision.
THEOREM OneDecision == Spec => []ContextAgrees
<1>1. ContextInv => ContextAgrees
  BY DEF ContextInv
<1>2. QED
  BY <1>1, ContextInvariant, PTL

\* After init() no call changes the page's language.
THEOREM DecisionStands == Spec => Sealed
<1>1. ContextInv /\ [Next]_vars => [initialized => UNCHANGED contextVars]_contextVars
  BY NextSealed
<1>2. QED
  BY <1>1, ContextInvariant, PTL DEF Spec, Sealed

-----------------------------------------------------------------------------
(* Types *)

\* The part of the types that the decision leaves out: every context has a
\* source, every table that registered itself is one of the compiled ones,
\* and the diagnostics are within their bound.
Shapes ==
  /\ pageContext = NoContext \/ ValidSource(pageContext.source)
  /\ \A r \in registered : r[1] \in DOMAIN Tables /\ r[2] \in DOMAIN Tables[r[1]]
  /\ Cardinality(reported) <= MaxReports

\* A context has a source that the kernel knows, whatever it was given.
LEMMA ContextSourced ==
  ASSUME NEW requested, NEW resolved, NEW source
  PROVE  ValidSource(NewPageContext(requested, resolved, source).source)
BY DEF NewPageContext, ValidSource

\* A step that leaves the context alone, or makes a new one.
LEMMA NextSourced ==
  ASSUME [Next]_vars
  PROVE  pageContext' = pageContext \/ ValidSource(pageContext'.source)
<1>1. ASSUME NEW decision, InitPage(decision)
      PROVE  pageContext' = pageContext \/ ValidSource(pageContext'.source)
  <2>1. \/ pageContext' = pageContext
        \/ \E requested, resolved, source :
             pageContext' = NewPageContext(requested, resolved, source)
    BY <1>1 DEF InitPage, contextVars
  <2>2. QED
    BY <2>1, ContextSourced
<1>2. ASSUME NEW tag, SetLocale(tag)
      PROVE  pageContext' = pageContext \/ ValidSource(pageContext'.source)
  BY <1>2, ContextSourced DEF SetLocale, contextVars
<1>3. ASSUME AskContext
      PROVE  pageContext' = pageContext \/ ValidSource(pageContext'.source)
  BY <1>3, ContextSourced DEF AskContext
<1>4. CASE Next
  BY <1>1, <1>2, <1>3, <1>4, NextDecides DEF contextVars
<1>5. CASE UNCHANGED vars
  BY <1>5 DEF vars
<1>6. QED
  BY <1>4, <1>5

\* A step registers a compiled table, or none; and it reports within bounds.
LEMMA NextRegisters ==
  ASSUME [Next]_vars
  PROVE  /\ \/ registered' = registered
            \/ \E tag \in DOMAIN Tables : \E domain \in DOMAIN Tables[tag] :
                 registered' = registered \cup {<<tag, domain>>}
         /\ \/ reported' = reported
            \/ Cardinality(reported') <= MaxReports
<1>1. CASE Decide
  BY <1>1 DEF Decide
<1>2. CASE \E tag \in DOMAIN Tables : \E domain \in DOMAIN Tables[tag] : Register(tag, domain)
  BY <1>2 DEF Register
<1>3. CASE \E r \in Requests : Translate(r.key, r.args, r.tag)
  <2>1. PICK r \in Requests : Translate(r.key, r.args, r.tag)
    BY <1>3
  <2>2. registered' = registered /\ \E reports : ReportOnce(reports)
    BY <2>1 DEF Translate
  <2>3. QED
    BY <2>2 DEF ReportOnce
<1>4. CASE \E tag \in Tags, count \in Numbers : AskPlural(tag, count)
  BY <1>4 DEF AskPlural, ReportOnce
<1>5. CASE Format
  BY <1>5 DEF Format, Answer
<1>6. CASE UNCHANGED vars
  BY <1>6 DEF vars
<1>7. QED
  BY <1>1, <1>2, <1>3, <1>4, <1>5, <1>6 DEF Next

\* Every variable has the shape of what it stands for, for any catalogs,
\* whatever the server wrote into <html>, and however often a script runs.
THEOREM TypeCorrect == Spec => []TypeOK
<1>1. I18nInit => Shapes
  <2> SUFFICES ASSUME I18nInit PROVE Shapes
    OBVIOUS
  <2>1. /\ pageContext = NoContext
        /\ registered = {DEFAULT_TAG} \X Resident
        /\ reported = {}
    BY DEF I18nInit, ContextInit
  <2>2. Cardinality({}) = 0
    BY FS_EmptySet
  <2>3. QED
    BY <2>1, <2>2, TablesAssumption DEF Shapes
<1>2. Shapes /\ [Next]_vars => Shapes'
  <2> SUFFICES ASSUME Shapes, [Next]_vars PROVE Shapes'
    OBVIOUS
  <2>1. (pageContext = NoContext \/ ValidSource(pageContext.source))'
    BY NextSourced DEF Shapes, ValidSource
  <2>2. (\A r \in registered : r[1] \in DOMAIN Tables /\ r[2] \in DOMAIN Tables[r[1]])'
    BY NextRegisters DEF Shapes
  <2>3. (Cardinality(reported) <= MaxReports)'
    BY NextRegisters DEF Shapes
  <2>4. QED
    BY <2>1, <2>2, <2>3 DEF Shapes
<1>3. ContextInv /\ Shapes => TypeOK
  <2> SUFFICES ASSUME ContextInv, Shapes PROVE TypeOK
    OBVIOUS
  <2>1. element.dir \in {"", "ltr", "rtl"}
    BY LocalesAssumption DEF ContextInv, ElementHonest, DataFor
  <2>2. QED
    BY <2>1 DEF ContextInv, Shapes, TypeOK
<1>4. QED
  BY <1>1, <1>2, <1>3, ContextInvariant, PTL DEF Spec
-----------------------------------------------------------------------------
(* Durations and stamps: what their fields say                             *)

\* What a duration's text counts, in its two largest units.
Spells(text, unit, major, minor) ==
  \/ unit = 60 /\ major > 0 /\ text = HoursAndMinutes(major, minor)
  \/ unit = 1 /\ major > 0 /\ text = MinutesAndSeconds(major, minor)
  \/ unit = 1 /\ major = 0 /\ text = Seconds(minor)

\* The fields of a count of seconds.
LEMMA Clockwise ==
  ASSUME NEW total \in Nat
  PROVE  /\ total \div 3600 \in Nat
         /\ (total % 3600) \div 60 \in 0 .. 59
         /\ total % 60 \in 0 .. 59
         /\ total = 3600 * (total \div 3600) + 60 * ((total % 3600) \div 60) + (total % 60)
OBVIOUS

\* Whole seconds stand for the time that passed.
LEMMA FloorsTime ==
  ASSUME NEW num \in Nat, NEW den \in Nat \ {0},
         NEW shown \in Nat, NEW unit \in Nat,
         shown <= num \div den, num \div den < shown + unit
  PROVE  shown * den <= num /\ num < (shown + unit) * den
<1> DEFINE total == num \div den
<1>1. total \in Nat /\ num % den \in 0 .. den - 1 /\ num = den * total + (num % den)
  BY DivMod
<1>2. shown <= total /\ total < shown + unit
  OBVIOUS
<1> HIDE DEF total
<1>3. PICK d \in Nat : total = shown + d
  BY <1>1, <1>2
<1>4. PICK e \in Nat : shown + unit = total + 1 + e
  BY <1>1, <1>2
<1>5. den * total = shown * den + d * den
  BY <1>3
<1>6. (shown + unit) * den = den * total + den + e * den
  BY <1>1, <1>4
<1>7. d * den \in Nat /\ e * den \in Nat
  BY <1>3, <1>4
<1>8. QED
  BY <1>1, <1>5, <1>6, <1>7

\* A duration shown is never longer than the time that passed, and short of
\* it by less than its smallest unit, for every time.
THEOREM DurationsRoundDown ==
  ASSUME NEW num \in Nat, NEW den \in Nat \ {0}
  PROVE  \E unit \in {1, 60}, major \in Nat, minor \in 0 .. 59 :
           /\ Spells(FormatDuration(Finite(num, den)), unit, major, minor)
           /\ (unit * (60 * major + minor)) * den <= num
           /\ num < (unit * (60 * major + minor) + unit) * den
<1> DEFINE total == num \div den
           h == total \div 3600
           m == (total % 3600) \div 60
           s == total % 60
           text == FormatDuration(Finite(num, den))
<1>1. total \in Nat
  BY DivMod
<1>2. /\ h \in Nat /\ m \in 0 .. 59 /\ s \in 0 .. 59
      /\ total = 3600 * h + 60 * m + s
  BY <1>1, Clockwise
<1>3. /\ h >= 1 => text = HoursAndMinutes(h, m)
      /\ h = 0 /\ m >= 1 => text = MinutesAndSeconds(m, s)
      /\ h = 0 /\ m = 0 => text = Seconds(s)
  <2> DEFINE value == Finite(num, den)
  <2>1. value.finite /\ total = value.num \div value.den
    BY DEF Finite
  <2>2. text = FormatDuration(value)
    OBVIOUS
  <2> HIDE DEF value, text
  <2>3. QED
    BY <1>1, <2>1, <2>2 DEF FormatDuration
<1>4. \A shown, unit \in Nat :
        shown <= total /\ total < shown + unit =>
          shown * den <= num /\ num < (shown + unit) * den
  BY FloorsTime
<1> HIDE DEF total, h, m, s, text
<1>5. CASE h >= 1
  <2>1. Spells(text, 60, h, m)
    <3>1. h > 0
      BY <1>2, <1>5
    <3>2. QED
      BY <1>3, <1>5, <3>1, Zenon DEF Spells
  <2> DEFINE shown == 60 * (60 * h + m)
  <2>2. shown \in Nat /\ shown <= total /\ total < shown + 60
    BY <1>2
  <2>3. shown * den <= num /\ num < (shown + 60) * den
    BY <1>4, <2>2
  <2>4. 60 \in {1, 60} /\ h \in Nat /\ m \in 0 .. 59
    BY <1>2
  <2>5. QED
    BY <2>1, <2>3, <2>4, Zenon DEF text
<1>6. CASE h = 0
  <2>1. Spells(text, 1, m, s)
    <3>1. CASE m >= 1
      <4>1. m > 0
        BY <1>2, <3>1
      <4>2. QED
        BY <1>3, <1>6, <3>1, <4>1, Zenon DEF Spells
    <3>2. CASE m = 0
      BY <1>3, <1>6, <3>2, Zenon DEF Spells
    <3>3. QED
      BY <1>2, <3>1, <3>2
  <2> DEFINE shown == 1 * (60 * m + s)
  <2>2. shown \in Nat /\ shown <= total /\ total < shown + 1
    BY <1>2, <1>6
  <2>3. shown * den <= num /\ num < (shown + 1) * den
    BY <1>4, <2>2
  <2>4. 1 \in {1, 60} /\ m \in Nat /\ s \in 0 .. 59
    BY <1>2
  <2>5. QED
    BY <2>1, <2>3, <2>4, Zenon DEF text
<1>7. QED
  BY <1>2, <1>5, <1>6

\* A stamp shows the reader's time of day, the same with the runtime as on
\* the pages that carry none; the instant is the day it falls on and what the
\* stamp shows.
THEOREM StampsTellTheTime ==
  ASSUME NEW at \in Nat, at + Zone \in Nat
  PROVE  LET f == Fields(at + Zone)
         IN  /\ f.hours \in 0 .. 23 /\ f.minutes \in 0 .. 59 /\ f.seconds \in 0 .. 59
             /\ \E day \in Nat :
                  at + Zone = 86400 * day + 3600 * f.hours + 60 * f.minutes + f.seconds
             /\ FormatLocalTime(Instant(at)) = Clock(f)
             /\ YurunaLocalTime(Instant(at)) = Clock(f)
<1> DEFINE now == at + Zone
           f   == Fields(now)
<1>1. Instant(at) # BadDate /\ Instant(at).at = at
  BY DEF Instant, BadDate
<1>2. FormatLocalTime(Instant(at)) = Clock(f)
  BY <1>1, Zenon DEF FormatLocalTime
<1>3. YurunaLocalTime(Instant(at)) = Clock(f)
  BY <1>1, Zenon DEF YurunaLocalTime, Clock
<1>4. /\ now \div 86400 \in Nat
      /\ f.hours \in 0 .. 23 /\ f.minutes \in 0 .. 59 /\ f.seconds \in 0 .. 59
      /\ now = 86400 * (now \div 86400) + 3600 * f.hours + 60 * f.minutes + f.seconds
  <2> HIDE DEF now
  <2>1. now \in Nat
    BY DEF now
  <2>2. /\ f.hours = (now % 86400) \div 3600
        /\ f.minutes = (now % 3600) \div 60
        /\ f.seconds = now % 60
    BY DEF Fields
  <2> HIDE DEF f
  <2>3. QED
    BY <2>1, <2>2
<1>5. QED
  BY <1>2, <1>3, <1>4

-----------------------------------------------------------------------------
(* What the formatters said                                                *)

\* What the formatters have said.
SaidFormats ==
  /\ said.what = "integer" =>
       /\ said.value \in Numbers /\ said.tag \in Tags
       /\ said.text = FormatNumber(said.value, said.tag, Integral)
  /\ said.what = "decimal" =>
       /\ said.value \in Numbers /\ said.tag \in Tags
       /\ said.text = FormatNumber(said.value, said.tag, Decimal)
  /\ said.what = "duration" =>
       said.value \in Numbers /\ said.text = FormatDuration(said.value)
  /\ said.what = "local" =>
       said.value \in Dates /\ said.text = FormatLocal(said.value)
  /\ said.what = "localTime" =>
       said.value \in Dates /\ said.text = FormatLocalTime(said.value)
  /\ said.what = "pageTime" =>
       said.value \in Dates /\ said.text = YurunaLocalTime(said.value)
  /\ said.what = "datetime" =>
       said.value \in Dates /\ said.text = FormatDatetime(said.value)
  /\ said.what = "argument" =>
       /\ said.value \in Typed
       /\ said.text = FormatArgument(said.value.value, said.value.type, said.tag)

\* The formatters, by what they answer.
Formatters ==
  {"integer", "decimal", "duration", "local", "localTime", "pageTime", "datetime", "argument"}

\* What a formatter says.
LEMMA AnswerSays ==
  ASSUME NEW what, NEW value, NEW tag, NEW text, Answer(what, value, tag, text)
  PROVE  said'.what = what /\ said'.value = value /\ said'.tag = tag /\ said'.text = text
BY DEF Answer

\* No other step speaks as a formatter.
LEMMA OthersSay ==
  ASSUME Next, ~Format
  PROVE  said'.what \notin Formatters
<1>1. CASE Decide
  BY <1>1 DEF Decide, Silence, Formatters
<1>2. ASSUME NEW tag, NEW domain, Register(tag, domain) PROVE said'.what \notin Formatters
  BY <1>2 DEF Register, Silence, Formatters
<1>3. ASSUME NEW key, NEW args, NEW tag, Translate(key, args, tag)
      PROVE  said'.what \notin Formatters
  <2>1. said'.what = "message"
    BY <1>3 DEF Translate
  <2> QED BY <2>1 DEF Formatters
<1>4. ASSUME NEW tag, NEW count, AskPlural(tag, count) PROVE said'.what \notin Formatters
  <2>1. said'.what = "plural"
    BY <1>4 DEF AskPlural
  <2> QED BY <2>1 DEF Formatters
<1> QED BY <1>1, <1>2, <1>3, <1>4 DEF Next

\* A formatter says what it computes.
LEMMA FormatSays == ASSUME Format PROVE SaidFormats'
<1>1. ASSUME NEW value \in Numbers, NEW tag \in Tags,
             Answer("integer", value, tag, FormatNumber(value, tag, Integral))
      PROVE  SaidFormats'
  <2>1. /\ said'.what = "integer" /\ said'.value = value /\ said'.tag = tag
        /\ said'.text = FormatNumber(value, tag, Integral)
    BY <1>1, AnswerSays
  <2> QED BY <2>1 DEF SaidFormats
<1>2. ASSUME NEW value \in Numbers, NEW tag \in Tags,
             Answer("decimal", value, tag, FormatNumber(value, tag, Decimal))
      PROVE  SaidFormats'
  <2>1. /\ said'.what = "decimal" /\ said'.value = value /\ said'.tag = tag
        /\ said'.text = FormatNumber(value, tag, Decimal)
    BY <1>2, AnswerSays
  <2> QED BY <2>1 DEF SaidFormats
<1>3. ASSUME NEW value \in Numbers, NEW tag \in Tags,
             Answer("duration", value, tag, FormatDuration(value))
      PROVE  SaidFormats'
  <2>1. said'.what = "duration" /\ said'.value = value /\ said'.text = FormatDuration(value)
    BY <1>3, AnswerSays
  <2> QED BY <2>1 DEF SaidFormats
<1>4. ASSUME NEW arg \in Typed, NEW tag,
             Answer("argument", arg, tag, FormatArgument(arg.value, arg.type, tag))
      PROVE  SaidFormats'
  <2>1. /\ said'.what = "argument" /\ said'.value = arg /\ said'.tag = tag
        /\ said'.text = FormatArgument(arg.value, arg.type, tag)
    BY <1>4, AnswerSays
  <2> QED BY <2>1 DEF SaidFormats
<1>5. ASSUME NEW value \in Dates, Answer("local", value, current, FormatLocal(value))
      PROVE  SaidFormats'
  <2>1. said'.what = "local" /\ said'.value = value /\ said'.text = FormatLocal(value)
    BY <1>5, AnswerSays
  <2> QED BY <2>1 DEF SaidFormats
<1>6. ASSUME NEW value \in Dates, Answer("localTime", value, current, FormatLocalTime(value))
      PROVE  SaidFormats'
  <2>1. said'.what = "localTime" /\ said'.value = value /\ said'.text = FormatLocalTime(value)
    BY <1>6, AnswerSays
  <2> QED BY <2>1 DEF SaidFormats
<1>7. ASSUME NEW value \in Dates, Answer("pageTime", value, current, YurunaLocalTime(value))
      PROVE  SaidFormats'
  <2>1. said'.what = "pageTime" /\ said'.value = value /\ said'.text = YurunaLocalTime(value)
    BY <1>7, AnswerSays
  <2> QED BY <2>1 DEF SaidFormats
<1>8. ASSUME NEW value \in Dates, Answer("datetime", value, current, FormatDatetime(value))
      PROVE  SaidFormats'
  <2>1. said'.what = "datetime" /\ said'.value = value /\ said'.text = FormatDatetime(value)
    BY <1>8, AnswerSays
  <2> QED BY <2>1 DEF SaidFormats
<1> QED
  BY <1>1, <1>2, <1>3, <1>4, <1>5, <1>6, <1>7, <1>8, Zenon DEF Format

\* In every state, what a formatter said last is what it computes.
LEMMA FormatsSaid == Spec => []SaidFormats
<1>1. I18nInit => SaidFormats
  BY DEF I18nInit, Silence, SaidFormats
<1>2. SaidFormats /\ [Next]_vars => SaidFormats'
  <2> SUFFICES ASSUME SaidFormats, [Next]_vars PROVE SaidFormats'
    OBVIOUS
  <2>1. CASE Format
    BY <2>1, FormatSays
  <2>2. CASE Next /\ ~Format
    <3>1. said'.what \notin Formatters
      BY <2>2, OthersSay
    <3> QED BY <3>1 DEF SaidFormats, Formatters
  <2>3. CASE UNCHANGED vars
    BY <2>3 DEF vars, SaidFormats
  <2> QED BY <2>1, <2>2, <2>3
<1> QED BY <1>1, <1>2, PTL DEF Spec

\* A duration's text reads back as what it spells.
LEMMA SpellingReads ==
  ASSUME NEW text, NEW unit \in {1, 60}, NEW major \in Nat, NEW minor \in 0 .. 59,
         Spells(text, unit, major, minor)
  PROVE  /\ Shown(text) = unit * (60 * major + minor)
         /\ SmallestUnit(text) = unit
         /\ SpaceIn(text) > 0 => Larger(text) > 0 /\ Smaller(text) < 60
<1> DEFINE a == Digits[major]
           b == Digits[minor]
<1>1. a \in Seq(DigitSymbols) /\ b \in Seq(DigitSymbols)
  BY DigitsType
<1>2. NumberIn(a) = major /\ NumberIn(b) = minor
  BY NumberOfDigits
<1>3. {"h", "m", "s"} \subseteq Marks \ {Space}
  <2>1. Space # "h" /\ Space # "m" /\ Space # "s"
    BY Zenon DEF Space
  <2> QED BY <2>1 DEF Marks
<1>4. CASE unit = 60 /\ major > 0 /\ text = HoursAndMinutes(major, minor)
  <2>1. text = TwoUnits(a, "h", b, "m")
    BY <1>4, Zenon DEF HoursAndMinutes, TwoUnits
  <2> HIDE DEF a, b
  <2>2. /\ SmallestUnit(text) = 60 /\ SpaceIn(text) > 0
        /\ Larger(text) = NumberIn(a) /\ Smaller(text) = NumberIn(b)
    BY <1>1, <1>3, <2>1, Halves
  <2> QED BY <1>2, <1>4, <2>2 DEF Shown
<1>5. CASE unit = 1 /\ major > 0 /\ text = MinutesAndSeconds(major, minor)
  <2>1. text = TwoUnits(a, "m", b, "s")
    BY <1>5, Zenon DEF MinutesAndSeconds, TwoUnits
  <2> HIDE DEF a, b
  <2>2. /\ SmallestUnit(text) = 1 /\ SpaceIn(text) > 0
        /\ Larger(text) = NumberIn(a) /\ Smaller(text) = NumberIn(b)
    BY <1>1, <1>3, <2>1, Halves
  <2> QED BY <1>2, <1>5, <2>2 DEF Shown
<1>6. CASE unit = 1 /\ major = 0 /\ text = Seconds(minor)
  <2>1. text = OneUnit(b, "s")
    BY <1>6, Zenon DEF Seconds, OneUnit
  <2> HIDE DEF a, b
  <2>2. "s" \in Marks \ {Space, "h"}
    BY <1>3
  <2>3. SmallestUnit(text) = 1 /\ SpaceIn(text) = 0 /\ Smaller(text) = NumberIn(b)
    BY <1>1, <2>1, <2>2, WholeOfSeconds
  <2> QED BY <1>2, <1>6, <2>3 DEF Shown
<1> QED BY <1>4, <1>5, <1>6 DEF Spells

\* No text is written for a negative duration.
LEMMA NoDurationBefore ==
  ASSUME NEW num \in Int, num < 0, NEW den \in Nat \ {0}
  PROVE  FormatDuration(Finite(num, den)) = <<>>
<1>1. num \div den < 0
  <2> DEFINE q == num \div den
  <2>1. q \in Int /\ num % den \in 0 .. den - 1 /\ num = den * q + (num % den)
    OBVIOUS
  <2> HIDE DEF q
  <2>2. q >= 0 => den * q >= 0
    BY <2>1
  <2>3. q < 0
    BY <2>1, <2>2
  <2> QED BY <2>3 DEF q
<1> DEFINE value == Finite(num, den)
<1>2. value.num = num /\ value.den = den
  BY DEF Finite
<1> HIDE DEF value
<1>3. FormatDuration(value) = <<>>
  BY <1>1, <1>2 DEF FormatDuration
<1> QED BY <1>3 DEF value

\* A duration's text is short of the duration by less than its smallest unit.
LEMMA DurationReads ==
  ASSUME NEW num \in Nat, NEW den \in Nat \ {0}
  PROVE  LET text == FormatDuration(Finite(num, den))
         IN  /\ Shown(text) * den <= num
             /\ num < (Shown(text) + SmallestUnit(text)) * den
             /\ SpaceIn(text) > 0 => Larger(text) > 0 /\ Smaller(text) < 60
<1> DEFINE text == FormatDuration(Finite(num, den))
<1>1. PICK unit \in {1, 60}, major \in Nat, minor \in 0 .. 59 :
        /\ Spells(text, unit, major, minor)
        /\ (unit * (60 * major + minor)) * den <= num
        /\ num < (unit * (60 * major + minor) + unit) * den
  BY DurationsRoundDown
<1> HIDE DEF text
<1>2. /\ Shown(text) = unit * (60 * major + minor)
      /\ SmallestUnit(text) = unit
      /\ SpaceIn(text) > 0 => Larger(text) > 0 /\ Smaller(text) < 60
  BY <1>1, SpellingReads
<1>3. /\ Shown(text) * den <= num
      /\ num < (Shown(text) + SmallestUnit(text)) * den
      /\ SpaceIn(text) > 0 => Larger(text) > 0 /\ Smaller(text) < 60
  BY <1>1, <1>2
<1> QED BY <1>3 DEF text

\* A duration shown is never longer than the time that passed, and short of
\* it by less than its smallest unit; its smaller unit is below sixty.
THEOREM DurationsFloor == Spec => []DurationsAreFloors
<1>1. SaidFormats => DurationsAreFloors
  <2> SUFFICES ASSUME SaidFormats, said.what = "duration" PROVE DurationsAreFloors
    BY DEF DurationsAreFloors
  <2> DEFINE v == said.value
             text == said.text
  <2>1. v \in Numbers /\ text = FormatDuration(v)
    BY DEF SaidFormats
  <2>2. CASE v = NaN
    <3>1. ~v.finite /\ v.num = 0 /\ v.den = 1
      BY <2>2 DEF NaN
    <3>2. text = <<>>
      <4> HIDE DEF v, text
      <4>1. 0 \div 1 = 0
        OBVIOUS
      <4> QED BY <2>1, <3>1, <4>1 DEF FormatDuration
    <3> QED BY <3>1, <3>2 DEF DurationsAreFloors
  <2>3. CASE v # NaN
    <3>1. v = Finite(v.num, v.den) /\ v.num \in Int /\ v.den \in Nat \ {0}
      BY <2>1, <2>3, NumbersAssumption, Zenon DEF IsNumber
    <3> DEFINE num == v.num
               den == v.den
    <3>2. text = FormatDuration(Finite(num, den))
      BY <2>1, <3>1, Zenon
    <3>3. v.finite
      BY <3>1 DEF Finite
    <3>4. CASE num < 0
      <4>1. text = <<>>
        BY <3>1, <3>2, <3>4, NoDurationBefore
      <4> QED BY <3>4, <4>1 DEF DurationsAreFloors
    <3>5. CASE num >= 0
      <4>1. num \in Nat
        BY <3>1, <3>5
      <4>2. /\ Shown(text) * den <= num
            /\ num < (Shown(text) + SmallestUnit(text)) * den
            /\ SpaceIn(text) > 0 => Larger(text) > 0 /\ Smaller(text) < 60
        BY <3>1, <3>2, <4>1, DurationReads
      <4> QED BY <3>1, <3>3, <3>5, <4>2 DEF DurationsAreFloors
    <3> QED BY <3>1, <3>4, <3>5
  <2> QED BY <2>2, <2>3
<1> QED BY <1>1, FormatsSaid, PTL

\* A number shown is the nearest its places can show, the even one of two,
\* grouped by threes from the right in the separators of its locale, with its
\* sign in front; what is no number has no text.
THEOREM NumbersTell == Spec => []NumbersReadBack
<1>1. ASSUME NEW value \in Numbers, NEW tag, NEW places \in {Integral, Decimal},
             NEW text, text = FormatNumber(value, tag, places)
      PROVE  IF value.finite THEN ReadsBack(text, value, tag, places) ELSE text = <<>>
  <2>1. CASE ~value.finite
    BY <1>1, <2>1, Zenon DEF FormatNumber
  <2>2. CASE value.finite
    <3>1. value.num \in Int /\ value.den \in Nat \ {0} /\ value.den % 5 # 0
      BY <2>2, NumbersAssumption, SMT DEF NaN, IsNumber
    <3>2. CASE places = Integral
      BY <1>1, <2>2, <3>1, <3>2, IntegersRead
    <3>3. CASE places = Decimal
      BY <1>1, <2>2, <3>1, <3>3, DecimalsReadBack
    <3> QED BY <2>2, <3>2, <3>3
  <2> QED BY <2>1, <2>2
<1>2. SaidFormats => NumbersReadBack
  <2> SUFFICES ASSUME SaidFormats, NEW places \in {Integral, Decimal},
                      said.what = (IF places = Integral THEN "integer" ELSE "decimal")
               PROVE  IF said.value.finite
                      THEN ReadsBack(said.text, said.value, said.tag, places)
                      ELSE said.text = <<>>
    BY Zenon DEF NumbersReadBack
  <2>1. said.value \in Numbers /\ said.text = FormatNumber(said.value, said.tag, places)
    BY PlacesAre DEF SaidFormats
  <2> QED BY <1>1, <2>1
<1> QED BY <1>2, FormatsSaid, PTL

\* A stamp shows the instant, in the reader's zone or in UTC, a page without
\* the runtime writes the same one, and none is written for what is no
\* instant.
THEOREM StampsTell == Spec => []StampsAgree
<1>1. SaidFormats => StampsAgree
  <2> SUFFICES ASSUME SaidFormats,
                      said.what \in {"local", "localTime", "pageTime", "datetime"}
               PROVE  StampsAgree
    BY SMT DEF StampsAgree
  <2> DEFINE value == said.value
             text  == said.text
             zoned == value.at + Zone
  <2>1. value \in Dates
    BY DEF SaidFormats
  <2>2. /\ said.what = "local" => text = FormatLocal(value)
        /\ said.what = "localTime" => text = FormatLocalTime(value)
        /\ said.what = "pageTime" => text = YurunaLocalTime(value)
        /\ said.what = "datetime" => text = FormatDatetime(value)
    BY DEF SaidFormats
  <2>3. CASE value = BadDate
    <3>1. text = <<>>
      BY <2>2, <2>3 DEF FormatLocal, FormatLocalTime, YurunaLocalTime, FormatDatetime
    <3> QED BY <2>3, <3>1, SMT DEF StampsAgree
  <2>4. CASE value # BadDate
    <3>1. Moment(value.at) /\ Moment(zoned)
      BY <2>1, <2>4, DatesAssumption DEF IsDate
    <3>2. CASE said.what = "local"
      <4>1. Shows(ClockIn("local", text), zoned, 0) /\ DayIn(text) = DayOf(zoned)
        BY <2>2, <2>4, <3>1, <3>2, LocalShows
      <4> QED BY <2>4, <3>2, <4>1, SMT DEF StampsAgree, Shows, DayOf, HourOf, MinuteOf, SecondOf
    <3>3. CASE said.what = "datetime"
      <4>1. /\ Shows(ClockIn("datetime", text), value.at, SecondOf(value.at))
            /\ DayIn(text) = DayOf(value.at)
        BY <2>2, <2>4, <3>1, <3>3, DatetimeShows
      <4>2. value.at + 0 = value.at
        BY <3>1, SMT DEF Moment
      <4> QED BY <2>4, <3>3, <4>1, <4>2, SMT DEF StampsAgree, Shows, DayOf, HourOf, MinuteOf, SecondOf
    <3>4. CASE said.what \in {"localTime", "pageTime"}
      <4>1. Shows(NumberIn(text), zoned, SecondOf(zoned)) /\ FormatLocalTime(value) = YurunaLocalTime(value)
        BY <2>2, <2>4, <3>1, <3>4, LocalTimeShows
      <4>2. ClockIn(said.what, text) = NumberIn(text)
        BY <3>4 DEF ClockIn
      <4> QED BY <2>4, <3>4, <4>1, <4>2, SMT DEF StampsAgree, Shows, DayOf, HourOf, MinuteOf, SecondOf
    <3> QED BY <3>2, <3>3, <3>4
  <2> QED BY <2>3, <2>4
<1> QED BY <1>1, FormatsSaid, PTL

-----------------------------------------------------------------------------
(* Texts joined: what holds of a flattened sequence, by induction          *)

\* A text is made of its symbols.
IsText(t) == t \in Seq(SymbolsOf(t))

LEMMA TextIs ==
  ASSUME NEW T, NEW t \in Seq(T)
  PROVE  IsText(t) /\ SymbolsOf(t) \subseteq T
<1>1. \A i \in DOMAIN t : t[i] \in T
  OBVIOUS
<1>2. t \in [1 .. Len(t) -> SymbolsOf(t)] /\ Len(t) \in Nat
  BY DEF SymbolsOf
<1>3. t \in Seq(SymbolsOf(t))
  <2> DEFINE S == SymbolsOf(t)
  <2> HIDE DEF S
  <2>1. t \in [1 .. Len(t) -> S] /\ Len(t) \in Nat
    BY <1>2 DEF S
  <2> QED BY <2>1, IsASeq DEF S
<1> QED BY <1>1, <1>3 DEF IsText, SymbolsOf

\* The symbols of two texts joined.
LEMMA JoinedSymbols ==
  ASSUME NEW T, NEW s \in Seq(T), NEW t \in Seq(T)
  PROVE  s \o t \in Seq(T) /\ SymbolsOf(s \o t) = SymbolsOf(s) \cup SymbolsOf(t)
<1> DEFINE k == Len(s)
           l == Len(t)
           u == s \o t
<1>1. u \in Seq(T) /\ Len(u) = k + l /\ k \in Nat /\ l \in Nat
  OBVIOUS
<1>2. (\A i \in 1 .. k : u[i] = s[i]) /\ (\A i \in 1 .. l : u[k + i] = t[i])
  BY Joined
<1>3. DOMAIN u = 1 .. k + l /\ DOMAIN s = 1 .. k /\ DOMAIN t = 1 .. l
  BY <1>1
<1> HIDE DEF k, l, u
<1>4. SymbolsOf(u) \subseteq SymbolsOf(s) \cup SymbolsOf(t)
  <2> SUFFICES ASSUME NEW i \in 1 .. k + l PROVE u[i] \in SymbolsOf(s) \cup SymbolsOf(t)
    BY <1>3 DEF SymbolsOf
  <2>1. CASE i <= k
    <3>1. i \in 1 .. k
      BY <1>1, <2>1
    <3> QED BY <1>2, <1>3, <3>1 DEF SymbolsOf
  <2>2. CASE i > k
    <3>1. i - k \in 1 .. l /\ k + (i - k) = i
      BY <1>1, <2>2
    <3>2. u[i] = t[i - k]
      BY <1>2, <3>1
    <3> QED BY <1>3, <3>1, <3>2 DEF SymbolsOf
  <2> QED BY <1>1, <2>1, <2>2
<1>5. SymbolsOf(s) \subseteq SymbolsOf(u)
  <2> SUFFICES ASSUME NEW i \in 1 .. k PROVE s[i] \in SymbolsOf(u)
    BY <1>3 DEF SymbolsOf
  <2>1. i \in 1 .. k + l /\ u[i] = s[i]
    BY <1>1, <1>2
  <2> QED BY <1>3, <2>1 DEF SymbolsOf
<1>6. SymbolsOf(t) \subseteq SymbolsOf(u)
  <2> SUFFICES ASSUME NEW i \in 1 .. l PROVE t[i] \in SymbolsOf(u)
    BY <1>3 DEF SymbolsOf
  <2>1. k + i \in 1 .. k + l /\ u[k + i] = t[i]
    BY <1>1, <1>2
  <2> QED BY <1>3, <2>1 DEF SymbolsOf
<1> QED BY <1>1, <1>4, <1>5, <1>6 DEF u

\* What holds of nothing, and of one more sequence joined whenever it holds of
\* the earlier ones, holds of the flattened sequence.
LEMMA FlattenInduction ==
  ASSUME NEW T, NEW l \in Nat \ {0}, NEW seqs, Len(seqs) = l,
         \A i \in 1 .. l : seqs[i] \in Seq(T),
         NEW P, <<0, <<>>>> \in P,
         \A i \in 1 .. l : \A t \in Seq(T) : <<i - 1, t>> \in P => <<i, t \o seqs[i]>> \in P
  PROVE  Seqs!FlattenSeq(seqs) \in Seq(T) /\ <<l, Seqs!FlattenSeq(seqs)>> \in P
<1> DEFINE f == Flattening(seqs)
           S == {n \in Nat : n + 1 \in 1 .. l => f[n + 1] \in Seq(T) /\ <<n + 1, f[n + 1]>> \in P}
<1>1. Flattens(f, seqs)
  BY FlatteningExists
<1> HIDE DEF f
<1>2. f[1] = seqs[1] /\ \A i \in 2 .. l : f[i] = f[i - 1] \o seqs[i]
  <2>1. f = [i \in 1 .. l |-> IF i = 1 THEN seqs[i] ELSE f[i - 1] \o seqs[i]]
    BY <1>1, Zenon DEF Flattens
  <2>2. \A i \in 1 .. l : f[i] = IF i = 1 THEN seqs[i] ELSE f[i - 1] \o seqs[i]
    BY <2>1, Zenon
  <2>3. 1 \in 1 .. l /\ \A i \in 2 .. l : i \in 1 .. l /\ i # 1
    OBVIOUS
  <2> QED BY <2>2, <2>3, Zenon
<1>3. 0 \in S
  <2>1. 1 \in 1 .. l /\ seqs[1] \in Seq(T) /\ <<>> \in Seq(T)
    OBVIOUS
  <2>2. 1 - 1 = 0
    OBVIOUS
  <2>3. <<1, <<>> \o seqs[1]>> \in P
    <3>1. <<1 - 1, <<>>>> \in P
      BY <2>2, Zenon
    <3> QED BY <2>1, <3>1, Zenon
  <2>4. <<>> \o seqs[1] = seqs[1]
    BY <2>1, ConcatEmptySeq
  <2>5. f[1] \in Seq(T) /\ <<1, f[1]>> \in P
    BY <1>2, <2>1, <2>3, <2>4, Zenon
  <2>6. \A z : z = 1 => f[z] \in Seq(T) /\ <<z, f[z]>> \in P
    BY <2>5, Zenon
  <2>7. 0 + 1 = 1
    OBVIOUS
  <2>8. f[0 + 1] \in Seq(T) /\ <<0 + 1, f[0 + 1]>> \in P
    BY <2>6, <2>7, Zenon
  <2> QED BY <2>8, Zenon
<1>4. ASSUME NEW n \in Nat, n \in S PROVE n + 1 \in S
  <2> SUFFICES ASSUME n + 2 \in 1 .. l
               PROVE  f[n + 2] \in Seq(T) /\ <<n + 2, f[n + 2]>> \in P
    OBVIOUS
  <2> DEFINE t == f[n + 1]
             i == n + 2
  <2>1. i \in 2 .. l /\ i \in 1 .. l /\ i - 1 = n + 1 /\ n + 1 \in 1 .. l
    OBVIOUS
  <2>2. t \in Seq(T) /\ <<i - 1, t>> \in P
    BY <1>4, <2>1
  <2>3. f[i] = t \o seqs[i] /\ seqs[i] \in Seq(T)
    BY <1>2, <2>1
  <2> HIDE DEF t, i
  <2>4. <<i, t \o seqs[i]>> \in P /\ t \o seqs[i] \in Seq(T)
    <3>1. <<i, t \o seqs[i]>> \in P
      BY <2>1, <2>2, Zenon
    <3>2. t \o seqs[i] \in Seq(T)
      BY <2>2, <2>3
    <3> QED BY <3>1, <3>2
  <2> QED BY <2>3, <2>4 DEF i
<1> HIDE DEF S
<1>5. Nat \subseteq S
  BY <1>3, <1>4, Induction
<1>6. l - 1 \in S /\ (l - 1) + 1 = l /\ l \in 1 .. l
  BY <1>5
<1>7. f[l] \in Seq(T) /\ <<l, f[l]>> \in P
  BY <1>6 DEF S
<1> QED BY <1>7, FlattenSeqIs DEF f

\* The symbols of a flattened sequence are those of its members.
LEMMA FlattenedSymbols ==
  ASSUME NEW T, NEW l \in Nat \ {0}, NEW seqs, Len(seqs) = l,
         \A i \in 1 .. l : seqs[i] \in Seq(T)
  PROVE  /\ Seqs!FlattenSeq(seqs) \in Seq(T)
         /\ SymbolsOf(Seqs!FlattenSeq(seqs)) = UNION {SymbolsOf(seqs[i]) : i \in 1 .. l}
<1> DEFINE Of(n) == UNION {SymbolsOf(seqs[i]) : i \in 1 .. n}
           P == {p \in Nat \X Seq(T) : SymbolsOf(p[2]) = Of(p[1])}
<1>1. <<0, <<>>>> \in P
  <2>1. SymbolsOf(<<>>) = {} /\ Of(0) = {} /\ <<>> \in Seq(T)
    BY DEF SymbolsOf
  <2> QED BY <2>1
<1>2. ASSUME NEW i \in 1 .. l, NEW t \in Seq(T), <<i - 1, t>> \in P
      PROVE  <<i, t \o seqs[i]>> \in P
  <2>1. SymbolsOf(t) = Of(i - 1)
    BY <1>2
  <2>2. t \o seqs[i] \in Seq(T) /\ SymbolsOf(t \o seqs[i]) = SymbolsOf(t) \cup SymbolsOf(seqs[i])
    BY JoinedSymbols
  <2>3. Of(i) = Of(i - 1) \cup SymbolsOf(seqs[i])
    <3>1. 1 .. i = (1 .. i - 1) \cup {i}
      OBVIOUS
    <3> QED BY <3>1
  <2> HIDE DEF Of
  <2>4. SymbolsOf(t \o seqs[i]) = Of(i)
    BY <2>1, <2>2, <2>3
  <2>5. i \in Nat
    OBVIOUS
  <2> QED BY <2>2, <2>4, <2>5
<1> HIDE DEF P
<1>3. Seqs!FlattenSeq(seqs) \in Seq(T) /\ <<l, Seqs!FlattenSeq(seqs)>> \in P
  BY <1>1, <1>2, FlattenInduction
<1> QED BY <1>3 DEF P

-----------------------------------------------------------------------------
(* What the formatters write                                               *)

\* An integer is written with digits, the separator of its locale and a sign.
LEMMA IntegerWrites ==
  ASSUME NEW value, value.finite, value.num \in Int, value.den \in Nat \ {0},
         value.den % 5 # 0, NEW tag
  PROVE  FormatNumber(value, tag, Integral) \in Seq(DigitSymbols \cup {DataFor(tag).group, Minus})
<1> DEFINE d    == DataFor(tag)
           n    == Units(value, Integral)
           neg  == value.num < 0
           body == BodyText(d, n, neg)
           T    == DigitSymbols \cup {d.group, Minus}
<1>1. n \in Nat /\ neg \in BOOLEAN
  BY UnitsRound
<1> HIDE DEF n, neg
<1>2. body \in Seq(NumberSymbols(d)) /\ Body(body, d.group, Minus, neg)
  BY <1>1, BodyReads
<1>3. FormatNumber(value, tag, Integral) = body \o <<>>
  BY <1>1, IntegerText DEF n, neg
<1> HIDE DEF body
<1>4. ASSUME NEW i \in 1 .. Len(body) PROVE body[i] \in T
  BY <1>2 DEF Body, IsDigit, DigitSymbols
<1>5. body \in Seq(T)
  <2> HIDE DEF T
  <2>1. body \in [1 .. Len(body) -> T] /\ Len(body) \in Nat
    BY <1>2, <1>4
  <2> QED BY <2>1, IsASeq
<1>6. body \o <<>> = body
  BY <1>2, ConcatEmptySeq
<1> QED BY <1>3, <1>5, <1>6

\* With decimals, also the decimal mark of its locale.
LEMMA DecimalWrites ==
  ASSUME NEW value, value.finite, value.num \in Int, value.den \in Nat \ {0},
         value.den % 5 # 0, NEW tag
  PROVE  FormatNumber(value, tag, Decimal) \in Seq(NumberSymbols(DataFor(tag)))
<1> DEFINE d    == DataFor(tag)
           n    == Units(value, Decimal)
           neg  == value.num < 0
           q    == n \div 100
           k    == n % 100
           body == BodyText(d, q, neg)
           last == Pad2(k)
           T    == NumberSymbols(d)
<1>1. n \in Nat /\ neg \in BOOLEAN
  BY UnitsRound
<1>2. q \in Nat /\ k \in Pairs
  <2> HIDE DEF n
  <2> QED BY <1>1 DEF Pairs
<1>3. FormatNumber(value, tag, Decimal) = body \o (<<d.decimal>> \o last)
  BY DecimalText
<1> HIDE DEF n, neg, q, k
<1>4. body \in Seq(T)
  BY <1>1, <1>2, BodyReads
<1>5. last \in Seq(DigitSymbols)
  <2>1. <<>> \in Seq(DigitSymbols)
    OBVIOUS
  <2> QED BY <1>2, <2>1, NumberOfPair
<1> HIDE DEF body, last
<1>6. DigitSymbols \subseteq T /\ d.decimal \in T
  BY DEF NumberSymbols
<1> HIDE DEF T
<1>7. last \in Seq(T) /\ <<d.decimal>> \in Seq(T)
  <2>1. last \in Seq(T)
    BY <1>5, <1>6, SeqMonotonic
  <2> QED BY <1>6, <2>1
<1>8. body \o (<<d.decimal>> \o last) \in Seq(T)
  BY <1>4, <1>7
<1> QED BY <1>3, <1>8 DEF T

\* A duration is written with digits and marks.
LEMMA DurationWrites ==
  ASSUME NEW value, IsNumber(value)
  PROVE  FormatDuration(value) \in Seq(Symbols)
<1>1. CASE value = NaN
  <2>1. ~value.finite /\ value.num = 0 /\ value.den = 1
    BY <1>1 DEF NaN
  <2>2. 0 \div 1 = 0
    OBVIOUS
  <2>3. FormatDuration(value) = <<>>
    BY <2>1, <2>2 DEF FormatDuration
  <2> QED BY <2>3
<1>2. CASE value # NaN
  <2> DEFINE num == value.num
             den == value.den
             text == FormatDuration(Finite(num, den))
  <2>1. value = Finite(num, den) /\ num \in Int /\ den \in Nat \ {0}
    BY <1>2, Zenon DEF IsNumber
  <2>2. text = FormatDuration(value)
    BY <2>1, Zenon
  <2>3. CASE num < 0
    <3>1. text = <<>>
      BY <2>1, <2>3, NoDurationBefore
    <3> QED BY <2>2, <3>1
  <2>4. CASE num >= 0
    <3>1. num \in Nat
      BY <2>1, <2>4
    <3>2. PICK unit \in {1, 60}, major \in Nat, minor \in 0 .. 59 : Spells(text, unit, major, minor)
      BY <2>1, <3>1, DurationsRoundDown
    <3> DEFINE a == Digits[major]
               b == Digits[minor]
    <3>3. a \in Seq(DigitSymbols) /\ b \in Seq(DigitSymbols)
      BY <3>2, DigitsType
    <3>4. a \in Seq(Symbols) /\ b \in Seq(Symbols)
      BY <3>3, DigitsAreSymbols, Zenon
    <3>5. \/ text = a \o <<"h", Space>> \o b \o <<"m">>
          \/ text = a \o <<"m", Space>> \o b \o <<"s">>
          \/ text = b \o <<"s">>
      BY <3>2, Zenon DEF Spells, HoursAndMinutes, MinutesAndSeconds, Seconds
    <3>6. {"h", "m", "s", Space} \subseteq Symbols
      BY DEF Symbols, Marks
    <3> HIDE DEF a, b, text
    <3>7. /\ <<"h", Space>> \in Seq(Symbols) /\ <<"m", Space>> \in Seq(Symbols)
          /\ <<"m">> \in Seq(Symbols) /\ <<"s">> \in Seq(Symbols)
      BY <3>6
    <3>8. \A x, y \in Seq(Symbols) : x \o y \in Seq(Symbols)
      BY Joined, Zenon
    <3>9. text \in Seq(Symbols)
      <4>1. \A x, y \in Seq(Symbols) : a \o x \o b \o y \in Seq(Symbols)
        <5> TAKE x, y \in Seq(Symbols)
        <5>1. a \o x \in Seq(Symbols)
          BY <3>4, <3>8, Zenon
        <5>2. a \o x \o b \in Seq(Symbols)
          BY <3>4, <3>8, <5>1, Zenon
        <5> QED BY <3>8, <5>2, Zenon
      <4>2. b \o <<"s">> \in Seq(Symbols)
        BY <3>4, <3>7, <3>8, Zenon
      <4>3. CASE text = b \o <<"s">>
        BY <4>2, <4>3, Zenon
      <4>4. CASE text = a \o <<"h", Space>> \o b \o <<"m">>
        BY <3>7, <4>1, <4>4, Zenon
      <4>5. CASE text = a \o <<"m", Space>> \o b \o <<"s">>
        BY <3>7, <4>1, <4>5, Zenon
      <4> QED BY <3>5, <4>3, <4>4, <4>5, Zenon
    <3> QED BY <2>2, <3>9
  <2> QED BY <2>1, <2>3, <2>4
<1> QED BY <1>1, <1>2

\* So is a stamp in UTC.
LEMMA DatetimeWrites ==
  ASSUME NEW value, IsDate(value)
  PROVE  FormatDatetime(value) \in Seq(Symbols)
<1>1. CASE value = BadDate
  <2>1. FormatDatetime(value) = <<>>
    BY <1>1, Zenon DEF FormatDatetime
  <2> QED BY <2>1
<1>2. CASE value # BadDate
  <2> DEFINE at == value.at
             day == DayText(DayOf(at))
             clock == Time(HourOf(at), MinuteOf(at), SecondOf(at))
  <2>1. Moment(at)
    BY <1>2 DEF IsDate
  <2>2. FormatDatetime(value) = Both(Stamp(day, clock), Utc) /\ TextOf(Utc, 2)
    BY <1>2, <2>1, DatetimeIs
  <2>3. /\ DayOf(at) \in Pairs /\ HourOf(at) \in Pairs
        /\ MinuteOf(at) \in Pairs /\ SecondOf(at) \in Pairs
    BY <2>1, MomentsInRange DEF Pairs
  <2>4. TextOf(day, 10) /\ TextOf(clock, 8)
    BY <2>3, DayReads, TimeReads
  <2> HIDE DEF day, clock
  <2>5. TextOf(Stamp(day, clock), 11 + 8)
    BY <2>4, StampReads
  <2>6. TextOf(Both(Stamp(day, clock), Utc), 11 + 8 + 2)
    BY <2>2, <2>5, BothRead
  <2> QED BY <2>2, <2>6 DEF TextOf
<1> QED BY <1>1, <1>2

\* A typed value is its caller's words, or digits, separators and marks.
LEMMA TextWrites ==
  ASSUME NEW value, NEW type, NEW tag, Passes(value, type)
  PROVE  LET t     == FormatText(value, type, tag)
             d     == DataFor(tag)
             Whole == DigitSymbols \cup Marks \cup {d.group}
         IN  \/ value.kind = "text" /\ t = value.symbols /\ IsText(t) /\ Foreign(t)
             \/ t \in Seq(Whole \cup {d.decimal}) /\ (type # "decimal" => t \in Seq(Whole))
<1> DEFINE t     == FormatText(value, type, tag)
           d     == DataFor(tag)
           Whole == DigitSymbols \cup Marks \cup {d.group}
           Writes == t \in Seq(Whole \cup {d.decimal}) /\ (type # "decimal" => t \in Seq(Whole))
<1>1. ASSUME NEW S, S \subseteq Whole, t \in Seq(S) PROVE Writes
  <2>1. S \subseteq Whole \cup {d.decimal}
    BY <1>1
  <2> HIDE DEF Whole, t
  <2>2. t \in Seq(Whole) /\ t \in Seq(Whole \cup {d.decimal})
    BY <1>1, <2>1, SeqMonotonic
  <2> QED BY <2>2
<1>2. ASSUME t = <<>> PROVE Writes
  <2> HIDE DEF t, Whole
  <2> QED BY <1>2
<1>3. CASE value = Null
  <2>1. t = <<>>
    BY <1>3, Zenon DEF FormatText
  <2> QED BY <1>2, <2>1
<1>4. CASE value # Null /\ type \in Counted \cup {"decimal"}
  <2> DEFINE n == AsNumber(value)
  <2>1. IsNumber(n)
    <3>1. CASE value.kind = "text"
      <4>1. n = NaN
        BY <3>1 DEF AsNumber
      <4> QED BY <4>1 DEF IsNumber
    <3>2. CASE IsNumber(value)
      <4>1. value.kind = "number"
        BY <3>2 DEF IsNumber, NaN, Finite
      <4>2. n = value
        BY <4>1 DEF AsNumber
      <4> QED BY <3>2, <4>2
    <3> QED BY <1>4, <3>1, <3>2 DEF Passes, Suits, Counted
  <2>2. /\ type = "integer" => t = FormatNumber(n, tag, Integral)
        /\ type = "decimal" => t = FormatNumber(n, tag, Decimal)
        /\ type = "duration" => t = FormatDuration(n)
    BY <1>4, SMT DEF FormatText
  <2> HIDE DEF n
  <2>3. \/ ~n.finite
        \/ n.finite /\ n.num \in Int /\ n.den \in Nat \ {0} /\ n.den % 5 # 0
    BY <2>1 DEF IsNumber, NaN, Finite
  <2>4. CASE type = "duration"
    <3>1. t \in Seq(Symbols) /\ Symbols \subseteq Whole
      BY <2>1, <2>2, <2>4, DurationWrites DEF Symbols
    <3> QED BY <1>1, <3>1
  <2>5. CASE type = "integer"
    <3>1. CASE ~n.finite
      <4>1. t = <<>>
        BY <2>2, <2>5, <3>1, Zenon DEF FormatNumber
      <4> QED BY <1>2, <4>1
    <3>2. CASE n.finite
      <4>1. t \in Seq(DigitSymbols \cup {d.group, Minus})
        BY <2>2, <2>3, <2>5, <3>2, IntegerWrites
      <4>2. DigitSymbols \cup {d.group, Minus} \subseteq Whole
        BY DEF Marks, Minus
      <4> QED BY <1>1, <4>1, <4>2
    <3> QED BY <3>1, <3>2
  <2>6. CASE type = "decimal"
    <3>1. CASE ~n.finite
      <4>1. t = <<>>
        BY <2>2, <2>6, <3>1, Zenon DEF FormatNumber
      <4> QED BY <1>2, <4>1
    <3>2. CASE n.finite
      <4>1. t \in Seq(NumberSymbols(d))
        BY <2>2, <2>3, <2>6, <3>2, DecimalWrites
      <4>2. NumberSymbols(d) \subseteq Whole \cup {d.decimal}
        BY DEF Marks, Minus, NumberSymbols
      <4>3. t \in Seq(Whole \cup {d.decimal})
        <5> HIDE DEF Whole, t
        <5> QED BY <4>1, <4>2, SeqMonotonic
      <4> QED BY <2>6, <4>3
    <3> QED BY <3>1, <3>2
  <2> QED BY <1>4, <2>4, <2>5, <2>6 DEF Counted
<1>5. CASE value # Null /\ type = "datetime"
  <2>1. t = FormatDatetime(value)
    BY <1>5, SMT DEF FormatText
  <2>2. IsDate(value)
    BY <1>5 DEF Passes, Suits, Counted
  <2>3. t \in Seq(Symbols) /\ Symbols \subseteq Whole
    BY <2>1, <2>2, DatetimeWrites DEF Symbols
  <2> QED BY <1>1, <2>3
<1>6. CASE value # Null /\ type \notin Counted \cup {"decimal", "datetime"}
  <2>1. t = value.symbols
    BY <1>6, SMT DEF FormatText, Counted
  <2>2. value = Words(value.symbols) /\ IsText(value.symbols)
    BY <1>6 DEF Passes, Suits, IsText
  <2>3. value.kind = "text"
    BY <2>2 DEF Words
  <2>4. Foreign(value.symbols)
    BY <2>3 DEF Passes
  <2> QED BY <2>1, <2>2, <2>3, <2>4, Zenon
<1> QED BY <1>3, <1>4, <1>5, <1>6, Zenon

-----------------------------------------------------------------------------
(* Arguments in a text                                                     *)

\* An isolate: one control opens it, one closes it, and no other is in it.
Capsule(t) ==
  /\ Len(t) >= 2 /\ t[1] \in Openers /\ t[Len(t)] = "PDI"
  /\ ControlsIn(t) = {1, Len(t)}

\* A text with controls is one that has them among its symbols.
LEMMA ControlsAmong == ASSUME NEW t PROVE ControlsIn(t) = {} <=> SymbolsOf(t) \cap Controls = {}
BY DEF ControlsIn, SymbolsOf

\* Controls put around a text that has none make an isolate.
LEMMA Encloses ==
  ASSUME NEW T, NEW x \in Seq(T), ControlsIn(x) = {}, NEW opener \in Openers
  PROVE  LET u == <<opener>> \o x \o <<"PDI">>
         IN  Capsule(u) /\ IsText(u) /\ SymbolsOf(u) = SymbolsOf(x) \cup {opener, "PDI"}
<1> DEFINE S == T \cup {opener, "PDI"}
           u == <<opener>> \o x \o <<"PDI">>
           l == Len(x)
<1>1. l \in Nat /\ DOMAIN x = 1 .. l
  OBVIOUS
<1>2. x \in Seq(S) /\ <<opener>> \in Seq(S) /\ <<"PDI">> \in Seq(S)
  OBVIOUS
<1>3. /\ u \in Seq(S) /\ Len(u) = l + 2
      /\ u[1] = opener /\ u[l + 2] = "PDI"
      /\ \A i \in 1 .. l : u[i + 1] = x[i]
  BY <1>2, <1>1
<1>4. SymbolsOf(u) = SymbolsOf(x) \cup {opener, "PDI"}
  <2>1. SymbolsOf(<<opener>>) = {opener} /\ SymbolsOf(<<"PDI">>) = {"PDI"}
    BY DEF SymbolsOf
  <2> HIDE DEF S
  <2>2. \A s, t \in Seq(S) :
          s \o t \in Seq(S) /\ SymbolsOf(s \o t) = SymbolsOf(s) \cup SymbolsOf(t)
    BY JoinedSymbols, Zenon
  <2> DEFINE a == <<opener>>
             b == <<"PDI">>
  <2>3. a \in Seq(S) /\ b \in Seq(S)
    BY <1>2
  <2> HIDE DEF a, b
  <2>4. a \o x \in Seq(S) /\ SymbolsOf(a \o x) = SymbolsOf(a) \cup SymbolsOf(x)
    BY <1>2, <2>2, <2>3, Zenon
  <2>5. SymbolsOf(a \o x \o b) = SymbolsOf(a \o x) \cup SymbolsOf(b)
    BY <2>2, <2>3, <2>4, Zenon
  <2> QED BY <2>1, <2>4, <2>5 DEF a, b
<1> HIDE DEF u, S, l
<1>5. DOMAIN u = 1 .. l + 2
  BY <1>1, <1>3
<1>6. {opener, "PDI"} \subseteq Controls
  BY DEF Controls
<1>7. ControlsIn(u) = {1, l + 2}
  <2>1. ASSUME NEW i \in 2 .. l + 1 PROVE u[i] \notin Controls
    <3>1. i - 1 \in 1 .. l /\ (i - 1) + 1 = i
      BY <1>1
    <3>2. u[i] = x[i - 1]
      BY <1>3, <3>1
    <3> QED BY <1>1, <3>1, <3>2 DEF ControlsIn
  <2>2. 1 .. l + 2 = {1, l + 2} \cup 2 .. l + 1
    BY <1>1
  <2> QED BY <1>3, <1>5, <1>6, <2>1, <2>2 DEF ControlsIn
<1>8. Capsule(u)
  BY <1>1, <1>3, <1>7 DEF Capsule
<1>9. IsText(u)
  BY <1>3, TextIs
<1> QED BY <1>4, <1>8, <1>9 DEF u

\* A locale's separators are among all separators.
LEMMA SeparatorsOfLocale ==
  ASSUME NEW tag
  PROVE  DataFor(tag).group \in Separators /\ DataFor(tag).decimal \in Separators
<1>1. \E other \in DOMAIN LocaleData : DataFor(tag) = LocaleData[other]
  BY LocalesAssumption DEF DataFor
<1>2. PICK other \in DOMAIN LocaleData : DataFor(tag) = LocaleData[other]
  BY <1>1
<1> QED BY <1>2 DEF Separators

\* What the formatters write has no words in it and no controls.
LEMMA FormattersSpeakNot ==
  ASSUME NEW tag
  PROVE  LET d     == DataFor(tag)
             Whole == DigitSymbols \cup Marks \cup {d.group, d.decimal}
         IN  Whole \cap (AllWords \cup Controls) = {}
BY SeparatorsOfLocale, WordsAssumption DEF Formatting

\* Digits and marks are no points and no commas.
LEMMA MarksAreNoPoints == {",", "."} \cap (DigitSymbols \cup Marks) = {}
<1>1. ASSUME NEW d \in 0 .. 9 PROVE Digit(d) \notin {",", "."}
  <2>1. Digit(d) \in {"0", "1", "2", "3", "4", "5", "6", "7", "8", "9"}
    BY DigitTable
  <2> QED BY <2>1, Zenon
<1>2. Space \notin {",", "."}
  BY Zenon DEF Space
<1>3. {",", "."} \cap Marks = {}
  BY <1>2 DEF Marks
<1> QED BY <1>1, <1>3 DEF DigitSymbols

\* Before it is isolated: no words of a table, no separators but its locale's
\* own, and controls only when its caller isolated it.
LEMMA TextSays ==
  ASSUME NEW value, NEW type, NEW tag, Passes(value, type)
  PROVE  LET t == FormatText(value, type, tag)
             d == DataFor(tag)
         IN  /\ IsText(t)
             /\ SymbolsOf(t) \cap AllWords = {}
             /\ type # "decimal" => SymbolsOf(t) \cap {",", "."} \subseteq {d.group}
             /\ ControlsIn(t) # {} => value.kind = "text" /\ t = value.symbols /\ Capsule(t)
<1> DEFINE t     == FormatText(value, type, tag)
           d     == DataFor(tag)
           Whole == DigitSymbols \cup Marks \cup {d.group}
<1>1. \/ value.kind = "text" /\ t = value.symbols /\ IsText(t) /\ Foreign(t)
      \/ t \in Seq(Whole \cup {d.decimal}) /\ (type # "decimal" => t \in Seq(Whole))
  BY TextWrites
<1> HIDE DEF t, d
<1>2. CASE value.kind = "text" /\ t = value.symbols /\ IsText(t) /\ Foreign(t)
  <2>1. SymbolsOf(t) \cap AllWords = {} /\ SymbolsOf(t) \cap Separators = {}
    BY <1>2 DEF Foreign
  <2>2. {",", "."} \subseteq Separators
    BY DEF Separators
  <2>3. ControlsIn(t) # {} => Capsule(t)
    BY <1>2 DEF Foreign, Capsule
  <2> QED BY <1>2, <2>1, <2>2, <2>3 DEF t, d
<1>3. CASE t \in Seq(Whole \cup {d.decimal}) /\ (type # "decimal" => t \in Seq(Whole))
  <2>1. (Whole \cup {d.decimal}) \cap (AllWords \cup Controls) = {}
    BY FormattersSpeakNot DEF d
  <2>2. Whole \cap {",", "."} \subseteq {d.group}
    BY MarksAreNoPoints
  <2> HIDE DEF Whole
  <2>3. IsText(t) /\ SymbolsOf(t) \subseteq Whole \cup {d.decimal}
    BY <1>3, TextIs
  <2>4. type # "decimal" => SymbolsOf(t) \subseteq Whole
    BY <1>3, TextIs
  <2>5. ControlsIn(t) = {}
    BY <2>1, <2>3, ControlsAmong
  <2>6. SymbolsOf(t) \cap AllWords = {}
    BY <2>1, <2>3
  <2>7. type # "decimal" => SymbolsOf(t) \cap {",", "."} \subseteq {d.group}
    BY <2>2, <2>4
  <2> QED BY <2>3, <2>5, <2>6, <2>7 DEF t, d
<1> QED BY <1>1, <1>2, <1>3

\* An argument in a message: the same, and in right-to-left text in exactly
\* one isolate, unless there is nothing to write.
LEMMA ArgumentWrites ==
  ASSUME NEW value, NEW type, NEW tag, Passes(value, type)
  PROVE  LET x == FormatArgument(value, type, tag)
             d == DataFor(tag)
         IN  /\ IsText(x)
             /\ SymbolsOf(x) \cap AllWords = {}
             /\ type # "decimal" => SymbolsOf(x) \cap {",", "."} \subseteq {d.group}
             /\ IF d.direction = "rtl"
                THEN x = <<>> \/ Capsule(x)
                ELSE ControlsIn(x) # {} => value.kind = "text" /\ ControlsIn(value.symbols) # {}
<1> DEFINE t      == FormatText(value, type, tag)
           x      == FormatArgument(value, type, tag)
           d      == DataFor(tag)
           opener == IF type \in {"integer", "decimal", "duration", "datetime"}
                     THEN "LRI" ELSE "FSI"
           u      == <<opener>> \o t \o <<"PDI">>
<1>1. /\ IsText(t)
      /\ SymbolsOf(t) \cap AllWords = {}
      /\ type # "decimal" => SymbolsOf(t) \cap {",", "."} \subseteq {d.group}
      /\ ControlsIn(t) # {} => value.kind = "text" /\ t = value.symbols /\ Capsule(t)
  BY TextSays
<1>2. x = IF d.direction # "rtl" \/ t = <<>> \/ Isolated(t) THEN t ELSE u
  BY DEF FormatArgument
<1>3. opener \in Openers
  BY DEF Openers
<1> HIDE DEF t, x, d, opener
<1>4. CASE d.direction # "rtl"
  BY <1>1, <1>2, <1>4 DEF x, d
<1>5. CASE d.direction = "rtl" /\ (t = <<>> \/ ControlsIn(t) # {})
  <2>1. t = <<>> \/ Capsule(t)
    BY <1>1, <1>5
  <2>2. Capsule(t) => Isolated(t)
    BY DEF Capsule, Isolated
  <2>3. x = t
    BY <1>2, <2>1, <2>2
  <2> QED BY <1>1, <1>5, <2>1, <2>3 DEF x, d
<1>6. CASE d.direction = "rtl" /\ t # <<>> /\ ControlsIn(t) = {}
  <2>1. t \in Seq(SymbolsOf(t))
    BY <1>1 DEF IsText
  <2>2. ~Isolated(t)
    <3> SUFFICES ASSUME Isolated(t) PROVE FALSE
      OBVIOUS
    <3>1. Len(t) >= 2 /\ t[1] \in Controls
      BY DEF Isolated, Controls
    <3>2. 1 \in DOMAIN t
      BY <2>1, <3>1
    <3> QED BY <1>6, <3>1, <3>2 DEF ControlsIn
  <2>3. x = u
    BY <1>2, <1>6, <2>2
  <2>4. Capsule(u) /\ IsText(u) /\ SymbolsOf(u) = SymbolsOf(t) \cup {opener, "PDI"}
    BY <1>3, <1>6, <2>1, Encloses
  <2>5. {opener, "PDI"} \subseteq Controls
    BY <1>3 DEF Controls
  <2>6. Controls \cap AllWords = {} /\ Controls \cap Separators = {} /\ {",", "."} \subseteq Separators
    BY WordsAssumption DEF Formatting, Separators
  <2> HIDE DEF u
  <2>7. SymbolsOf(x) \cap AllWords = {}
    BY <1>1, <2>3, <2>4, <2>5, <2>6
  <2>8. type # "decimal" => SymbolsOf(x) \cap {",", "."} \subseteq {d.group}
    BY <1>1, <2>3, <2>4, <2>5, <2>6
  <2> QED BY <1>6, <2>3, <2>4, <2>7, <2>8 DEF x, d
<1> QED BY <1>4, <1>5, <1>6

-----------------------------------------------------------------------------
(* How many isolates are open, symbol by symbol                            *)

\* How many symbols of a set a text has up to a position.
Times(t, i, S) == Cardinality({j \in 1 .. i : t[j] \in S})

\* One symbol more counts once, or not at all.
LEMMA TimesSteps ==
  ASSUME NEW t, NEW S, NEW i \in Nat
  PROVE  /\ Times(t, 0, S) = 0
         /\ Times(t, i, S) \in Nat
         /\ Times(t, i + 1, S) = Times(t, i, S) + (IF t[i + 1] \in S THEN 1 ELSE 0)
<1> DEFINE At(n) == {j \in 1 .. n : t[j] \in S}
<1>1. At(0) = {} /\ At(i + 1) = IF t[i + 1] \in S THEN At(i) \cup {i + 1} ELSE At(i)
  <2>1. 1 .. i + 1 = (1 .. i) \cup {i + 1} /\ 1 .. 0 = {}
    OBVIOUS
  <2> QED BY <2>1
<1>2. IsFiniteSet(At(i))
  <2>1. IsFiniteSet(1 .. i)
    BY FS_Interval
  <2> QED BY <2>1, FS_Subset
<1>3. i + 1 \notin At(i)
  OBVIOUS
<1> HIDE DEF At
<1>4. Cardinality(At(0)) = 0 /\ Cardinality(At(i)) \in Nat
  BY <1>1, <1>2, FS_EmptySet, FS_CardinalityType
<1>5. Cardinality(At(i + 1)) = Cardinality(At(i)) + (IF t[i + 1] \in S THEN 1 ELSE 0)
  <2>1. Cardinality(At(i) \cup {i + 1}) = Cardinality(At(i)) + 1
    BY <1>2, <1>3, FS_AddElement
  <2> QED BY <1>1, <1>4, <2>1
<1> QED BY <1>4, <1>5 DEF At, Times

\* What a symbol does to the isolates that are open.
Turn(symbol) == IF symbol \in Openers THEN 1 ELSE IF symbol = "PDI" THEN -1 ELSE 0

\* The depth is counted one symbol at a time.
LEMMA DepthSteps ==
  ASSUME NEW t, NEW i \in Nat
  PROVE  /\ Depth(t, 0) = 0
         /\ Depth(t, i) \in Int
         /\ Depth(t, i + 1) = Depth(t, i) + Turn(t[i + 1])
<1> DEFINE C == {"PDI"}
           O == Openers
<1>1. "PDI" \notin O
  BY DEF Openers
<1>2. \A n : Depth(t, n) = Times(t, n, O) - Times(t, n, C)
  BY DEF Depth, Times
<1> HIDE DEF O
<1>3. /\ Times(t, 0, O) = 0 /\ Times(t, i, O) \in Nat
      /\ Times(t, i + 1, O) = Times(t, i, O) + (IF t[i + 1] \in O THEN 1 ELSE 0)
  BY TimesSteps
<1>4. /\ Times(t, 0, C) = 0 /\ Times(t, i, C) \in Nat
      /\ Times(t, i + 1, C) = Times(t, i, C) + (IF t[i + 1] \in C THEN 1 ELSE 0)
  <2> HIDE DEF C
  <2> QED BY TimesSteps
<1> QED BY <1>1, <1>2, <1>3, <1>4 DEF Turn, O

\* Two texts that begin alike are alike deep.
LEMMA DepthAlike ==
  ASSUME NEW s, NEW t, NEW i \in Nat, \A j \in 1 .. i : s[j] = t[j]
  PROVE  Depth(s, i) = Depth(t, i)
<1>1. {j \in 1 .. i : s[j] \in Openers} = {j \in 1 .. i : t[j] \in Openers}
  OBVIOUS
<1>2. {j \in 1 .. i : s[j] = "PDI"} = {j \in 1 .. i : t[j] = "PDI"}
  OBVIOUS
<1> QED BY <1>1, <1>2 DEF Depth

\* From a position on a text goes on as another one.
GoesOn(u, k, t, l) == \A j \in 1 .. l : u[k + j] = t[j]

\* The depths of the two add up.
LEMMA DepthAdds ==
  ASSUME NEW u, NEW t, NEW k \in Nat, NEW l \in Nat, GoesOn(u, k, t, l), NEW i \in 0 .. l
  PROVE  Depth(u, k + i) = Depth(u, k) + Depth(t, i)
<1> DEFINE S == {n \in Nat : n <= l => Depth(u, k + n) = Depth(u, k) + Depth(t, n)}
<1>1. 0 \in S
  <2>1. Depth(t, 0) = 0 /\ Depth(u, k) \in Int
    BY DepthSteps
  <2>2. k + 0 = k
    OBVIOUS
  <2>3. Depth(u, k + 0) = Depth(u, k)
    BY <2>2, Zenon
  <2> QED BY <2>1, <2>3
<1>2. ASSUME NEW n \in Nat, n \in S PROVE n + 1 \in S
  <2> SUFFICES ASSUME n + 1 <= l PROVE Depth(u, k + (n + 1)) = Depth(u, k) + Depth(t, n + 1)
    OBVIOUS
  <2>1. Depth(u, k + n) = Depth(u, k) + Depth(t, n)
    BY <1>2
  <2>2. k + n \in Nat /\ (k + n) + 1 = k + (n + 1) /\ n + 1 \in 1 .. l
    OBVIOUS
  <2>3. Depth(u, (k + n) + 1) = Depth(u, k + n) + Turn(u[(k + n) + 1])
    BY <2>2, DepthSteps, Zenon
  <2>4. Depth(t, n + 1) = Depth(t, n) + Turn(t[n + 1])
    BY DepthSteps
  <2>5. u[(k + n) + 1] = t[n + 1]
    BY <2>2 DEF GoesOn
  <2>6. Depth(u, k) \in Int /\ Depth(t, n) \in Int
    BY DepthSteps
  <2>7. \A s : Turn(s) \in Int
    BY DEF Turn
  <2>8. Depth(u, (k + n) + 1) = Depth(u, k) + (Depth(t, n) + Turn(t[n + 1]))
    BY <2>1, <2>3, <2>5, <2>6, <2>7
  <2> QED BY <2>2, <2>4, <2>8
<1> HIDE DEF S
<1>3. Nat \subseteq S
  BY <1>1, <1>2, Induction
<1> QED BY <1>3 DEF S

\* What ArgumentsIsolated asks of right-to-left text: never two isolates open,
\* one where no table speaks, and none at the end.
Nested(t) ==
  \A i \in DOMAIN t :
    /\ Depth(t, i) \in {0, 1}
    /\ t[i] \notin AllWords \cup {"PDI"} => Depth(t, i) = 1
    /\ i = Len(t) => Depth(t, i) = 0

\* Nothing is nested, and so are a table's words.
LEMMA WordsNest ==
  /\ Nested(<<>>)
  /\ \A word \in AllWords : Nested(<<word>>)
<1>1. Nested(<<>>)
  BY DEF Nested
<1>2. ASSUME NEW word \in AllWords PROVE Nested(<<word>>)
  <2> DEFINE t == <<word>>
  <2>1. word \notin Controls
    BY WordsAssumption DEF Formatting
  <2>2. Turn(t[1]) = 0
    BY <2>1 DEF Turn, Controls
  <2>3. Depth(t, 0) = 0 /\ Depth(t, 0 + 1) = Depth(t, 0) + Turn(t[0 + 1])
    BY DepthSteps, Zenon
  <2>4. Len(t) = 1 /\ DOMAIN t = {1} /\ t[1] = word
    OBVIOUS
  <2> HIDE DEF t
  <2>5. Depth(t, 1) = 0
    BY <2>2, <2>3
  <2>6. t[1] \in AllWords
    BY <2>4
  <2>7. Nested(t)
    BY <2>4, <2>5, <2>6 DEF Nested
  <2> QED BY <2>7 DEF t
<1> QED BY <1>1, <1>2

\* So is one isolate.
LEMMA CapsuleNests ==
  ASSUME NEW T, NEW t \in Seq(T), Capsule(t)
  PROVE  Nested(t)
<1> DEFINE l == Len(t)
           S == {n \in Nat : n + 1 < l => Depth(t, n + 1) = 1}
<1>1. l \in Nat /\ l >= 2 /\ DOMAIN t = 1 .. l
  BY DEF Capsule
<1>2. Turn(t[1]) = 1 /\ Turn(t[l]) = -1 /\ t[l] = "PDI"
  BY DEF Capsule, Turn, Openers
<1>3. \A i \in 2 .. l - 1 : Turn(t[i]) = 0
  <2> TAKE i \in 2 .. l - 1
  <2>1. i # 1 /\ i # l /\ i \in 1 .. l
    <3> HIDE DEF l
    <3> QED BY <1>1
  <2>2. t[i] \notin Controls
    BY <1>1, <2>1 DEF Capsule, ControlsIn
  <2> QED BY <2>2 DEF Turn, Controls
<1> HIDE DEF l
<1>4. 0 \in S
  <2>1. Depth(t, 0) = 0 /\ Depth(t, 0 + 1) = Depth(t, 0) + Turn(t[0 + 1])
    BY DepthSteps, Zenon
  <2> QED BY <1>2, <2>1
<1>5. ASSUME NEW n \in Nat, n \in S PROVE n + 1 \in S
  <2> SUFFICES ASSUME (n + 1) + 1 < l PROVE Depth(t, (n + 1) + 1) = 1
    OBVIOUS
  <2>1. Depth(t, n + 1) = 1
    BY <1>1, <1>5
  <2>2. n + 1 \in Nat /\ (n + 1) + 1 \in 2 .. l - 1
    BY <1>1
  <2>3. Depth(t, (n + 1) + 1) = Depth(t, n + 1) + Turn(t[(n + 1) + 1])
    BY <2>2, DepthSteps, Zenon
  <2> QED BY <1>3, <2>1, <2>2, <2>3
<1> HIDE DEF S
<1>6. \A i \in 1 .. l - 1 : Depth(t, i) = 1
  <2> TAKE i \in 1 .. l - 1
  <2>1. i - 1 \in S /\ (i - 1) + 1 = i /\ i < l
    BY <1>1, <1>4, <1>5, Induction
  <2> QED BY <2>1 DEF S
<1>7. Depth(t, l) = 0
  <2>1. l - 1 \in Nat /\ l - 1 \in 1 .. l - 1 /\ (l - 1) + 1 = l
    BY <1>1
  <2>2. Depth(t, (l - 1) + 1) = Depth(t, l - 1) + Turn(t[(l - 1) + 1])
    BY <2>1, DepthSteps, Zenon
  <2> QED BY <1>2, <1>6, <2>1, <2>2
<1>8. \A i \in 1 .. l : i = l \/ i \in 1 .. l - 1
  BY <1>1
<1> QED BY <1>1, <1>2, <1>6, <1>7, <1>8 DEF Nested, l

\* And so are two texts that are, joined.
LEMMA JoinedNest ==
  ASSUME NEW T, NEW s \in Seq(T), NEW t \in Seq(T), Nested(s), Nested(t)
  PROVE  Nested(s \o t)
<1> DEFINE k == Len(s)
           l == Len(t)
           u == s \o t
<1>1. u \in Seq(T) /\ Len(u) = k + l /\ k \in Nat /\ l \in Nat
  OBVIOUS
<1>2. (\A i \in 1 .. k : u[i] = s[i]) /\ (\A i \in 1 .. l : u[k + i] = t[i])
  BY Joined
<1>3. DOMAIN u = 1 .. k + l /\ DOMAIN s = 1 .. k /\ DOMAIN t = 1 .. l
  BY <1>1
<1>4. \A i \in 1 .. k : /\ Depth(s, i) \in {0, 1}
                        /\ s[i] \notin AllWords \cup {"PDI"} => Depth(s, i) = 1
                        /\ i = k => Depth(s, i) = 0
  BY <1>3 DEF Nested
<1>5. \A i \in 1 .. l : /\ Depth(t, i) \in {0, 1}
                        /\ t[i] \notin AllWords \cup {"PDI"} => Depth(t, i) = 1
                        /\ i = l => Depth(t, i) = 0
  BY <1>3 DEF Nested
<1> HIDE DEF k, l, u
<1>6. \A i \in 0 .. k : Depth(u, i) = Depth(s, i)
  <2> TAKE i \in 0 .. k
  <2>1. i \in Nat /\ \A j \in 1 .. i : u[j] = s[j]
    BY <1>1, <1>2
  <2> QED BY <2>1, DepthAlike
<1>7. Depth(u, k) = 0
  <2>1. k = 0 => Depth(s, k) = 0
    BY DepthSteps
  <2>2. k # 0 => Depth(s, k) = 0
    BY <1>1, <1>4
  <2> QED BY <1>1, <1>6, <2>1, <2>2
<1>8. \A i \in 1 .. l : Depth(u, k + i) = Depth(t, i)
  <2> TAKE i \in 1 .. l
  <2>1. Depth(u, k + i) = Depth(u, k) + Depth(t, i)
    <3>1. i \in 0 .. l
      BY <1>1
    <3>2. GoesOn(u, k, t, l)
      BY <1>2 DEF GoesOn
    <3>3. k \in Nat /\ l \in Nat
      BY <1>1
    <3> QED BY <3>1, <3>2, <3>3, DepthAdds
  <2>2. Depth(t, i) \in Int
    BY <1>5
  <2> QED BY <1>7, <2>1, <2>2
<1>9. ASSUME NEW i \in 1 .. k + l
      PROVE  /\ Depth(u, i) \in {0, 1}
             /\ u[i] \notin AllWords \cup {"PDI"} => Depth(u, i) = 1
             /\ i = k + l => Depth(u, i) = 0
  <2>1. CASE i <= k
    <3>1. i \in 1 .. k /\ i \in 0 .. k
      BY <1>1, <2>1
    <3>2. i = k + l => i = k
      BY <1>1, <2>1
    <3> QED BY <1>2, <1>4, <1>6, <3>1, <3>2
  <2>2. CASE i > k
    <3> DEFINE j == i - k
    <3>1. j \in 1 .. l /\ k + j = i /\ (i = k + l => j = l)
      BY <1>1, <2>2
    <3> HIDE DEF j
    <3>2. u[i] = t[j] /\ Depth(u, i) = Depth(t, j)
      BY <1>2, <1>8, <3>1
    <3> QED BY <1>5, <3>1, <3>2
  <2> QED BY <1>1, <2>1, <2>2
<1>10. Nested(u)
  BY <1>1, <1>3, <1>9 DEF Nested
<1> QED BY <1>10 DEF u

-----------------------------------------------------------------------------
(* What a message says                                                     *)

\* The words a form has of its own, and those a table has.
WordsIn(form) == {p.words : p \in SymbolsOf(form)} \ {Absent}

\* One piece of a form, written.
PieceText(form, args, tag, i) ==
  IF form[i].arg = Absent
  THEN <<form[i].words>>
  ELSE FormatArgument(Argument(args, form[i]), form[i].type, tag)

\* Some argument of a form came with controls.
ComesIsolated(form, args) ==
  \E i \in DOMAIN form :
    /\ form[i].arg # Absent
    /\ Argument(args, form[i]).kind = "text"
    /\ ControlsIn(Argument(args, form[i]).symbols) # {}

\* A piece speaks its own words or none, and keeps what is asked of a text.
LEMMA PieceSays ==
  ASSUME NEW form, NEW args, NEW tag, Sayable(form, args), WordsIn(form) \subseteq AllWords,
         NEW i \in DOMAIN form
  PROVE  LET x == PieceText(form, args, tag, i)
         IN  /\ IsText(x)
             /\ SymbolsOf(x) \cap AllWords =
                  IF form[i].arg = Absent THEN {form[i].words} ELSE {}
             /\ SymbolsOf(x) \cap {",", "."} \subseteq {DataFor(tag).group}
             /\ IF DataFor(tag).direction = "rtl"
                THEN Nested(x) ELSE ControlsIn(x) # {} => ComesIsolated(form, args)
<1> DEFINE x == PieceText(form, args, tag, i)
           d == DataFor(tag)
           p == form[i]
<1>1. CASE p.arg = Absent
  <2> DEFINE word == p.words
  <2>1. x = <<word>>
    BY <1>1 DEF PieceText
  <2>2. word # Absent /\ p \in SymbolsOf(form)
    BY <1>1 DEF Sayable, SymbolsOf
  <2>3. word \in AllWords
    BY <2>2 DEF WordsIn
  <2>4. word \notin Controls \cup Separators /\ {",", "."} \subseteq Separators
    BY <2>3, WordsAssumption DEF Formatting, Separators
  <2> HIDE DEF word
  <2>5. IsText(x) /\ SymbolsOf(x) = {word}
    BY <2>1 DEF IsText, SymbolsOf
  <2>6. ControlsIn(x) = {}
    BY <2>4, <2>5, ControlsAmong
  <2>7. Nested(x)
    BY <2>1, <2>3, WordsNest
  <2> HIDE DEF x
  <2>8. SymbolsOf(x) \cap AllWords = {word} /\ SymbolsOf(x) \cap {",", "."} = {}
    BY <2>3, <2>4, <2>5
  <2> QED BY <1>1, <2>5, <2>6, <2>7, <2>8 DEF x, word
<1>2. CASE p.arg # Absent
  <2> DEFINE v == Argument(args, p)
             y == FormatArgument(v, p.type, tag)
  <2>1. x = y
    BY <1>2 DEF PieceText
  <2>2. Passes(v, p.type) /\ p.type # "decimal"
    BY <1>2 DEF Sayable
  <2>3. /\ IsText(y)
        /\ SymbolsOf(y) \cap AllWords = {}
        /\ SymbolsOf(y) \cap {",", "."} \subseteq {d.group}
        /\ IF d.direction = "rtl"
           THEN y = <<>> \/ Capsule(y)
           ELSE ControlsIn(y) # {} => v.kind = "text" /\ ControlsIn(v.symbols) # {}
    <3> HIDE DEF v
    <3> QED BY <2>2, ArgumentWrites
  <2> HIDE DEF v, x, y
  <2>4. CASE d.direction = "rtl"
    <3>1. y \in Seq(SymbolsOf(y)) /\ (y = <<>> \/ Capsule(y))
      BY <2>3, <2>4 DEF IsText
    <3>2. Nested(<<>>)
      BY WordsNest, Zenon
    <3>3. ASSUME y = <<>> PROVE Nested(y)
      BY <3>2, <3>3
    <3>4. ASSUME Capsule(y) PROVE Nested(y)
      BY <3>1, <3>4, CapsuleNests
    <3>5. Nested(y)
      BY <3>1, <3>3, <3>4
    <3> QED BY <1>2, <2>1, <2>3, <2>4, <3>5 DEF x
  <2>5. CASE d.direction # "rtl"
    <3>1. ControlsIn(y) # {} => ComesIsolated(form, args)
      BY <1>2, <2>3, <2>5 DEF ComesIsolated, v
    <3> QED BY <1>2, <2>1, <2>3, <2>5, <3>1 DEF x
  <2> QED BY <2>4, <2>5
<1> QED BY <1>1, <1>2

\* The pieces joined: a message speaks the words of its form, all of them and
\* no others; its only point or comma is its locale's group separator; in
\* right-to-left text its arguments are isolated, and in other text no control
\* is the kernel's.
LEMMA RenderSays ==
  ASSUME NEW form, NEW args, NEW tag, Sayable(form, args), WordsIn(form) \subseteq AllWords
  PROVE  LET text == RenderSegments(form, args, tag)
         IN  /\ IsText(text)
             /\ Spoken(text) = WordsIn(form) /\ Spoken(text) # {}
             /\ SymbolsOf(text) \cap {",", "."} \subseteq {DataFor(tag).group}
             /\ IF DataFor(tag).direction = "rtl"
                THEN Nested(text) ELSE ControlsIn(text) # {} => ComesIsolated(form, args)
<1> DEFINE text == RenderSegments(form, args, tag)
           d    == DataFor(tag)
           l    == Len(form)
           of(i) == PieceText(form, args, tag, i)
           seqs == [i \in DOMAIN form |-> of(i)]
           T    == UNION {SymbolsOf(of(i)) : i \in DOMAIN form}
<1>1. text = Seqs!FlattenSeq(seqs)
  BY DEF RenderSegments, PieceText, Argument
<1>2. /\ l \in Nat \ {0} /\ DOMAIN form = 1 .. l
      /\ \E i \in 1 .. l : form[i].arg = Absent
  BY DEF Sayable
<1>3. Len(seqs) = l /\ \A i \in 1 .. l : seqs[i] = of(i)
  BY <1>2
<1>4. \A i \in 1 .. l : /\ IsText(of(i))
                        /\ SymbolsOf(of(i)) \cap AllWords =
                             IF form[i].arg = Absent THEN {form[i].words} ELSE {}
                        /\ SymbolsOf(of(i)) \cap {",", "."} \subseteq {d.group}
                        /\ IF d.direction = "rtl"
                           THEN Nested(of(i)) ELSE ControlsIn(of(i)) # {} => ComesIsolated(form, args)
  BY <1>2, PieceSays
<1>5. WordsIn(form) = {form[i].words : i \in {j \in 1 .. l : form[j].arg = Absent}}
  BY <1>2 DEF WordsIn, SymbolsOf, Sayable
<1>6. T = UNION {SymbolsOf(of(i)) : i \in 1 .. l}
  BY <1>2
<1> HIDE DEF l, of, seqs, T
<1>7. \A i \in 1 .. l : seqs[i] \in Seq(T)
  <2> TAKE i \in 1 .. l
  <2>1. of(i) \in Seq(SymbolsOf(of(i))) /\ SymbolsOf(of(i)) \subseteq T
    BY <1>4, <1>6 DEF IsText
  <2>2. of(i) \in Seq(T)
    BY <2>1, SeqMonotonic
  <2> QED BY <1>3, <2>2
<1>8. text \in Seq(T) /\ SymbolsOf(text) = UNION {SymbolsOf(of(i)) : i \in 1 .. l}
  <2>1. Seqs!FlattenSeq(seqs) \in Seq(T)
        /\ SymbolsOf(Seqs!FlattenSeq(seqs)) = UNION {SymbolsOf(seqs[i]) : i \in 1 .. l}
    BY <1>2, <1>3, <1>7, FlattenedSymbols
  <2> QED BY <1>1, <1>3, <2>1
<1> HIDE DEF text
<1>9. IsText(text)
  BY <1>8, TextIs
<1>10. Spoken(text) = WordsIn(form)
  <2>1. Spoken(text) = UNION {SymbolsOf(of(i)) \cap AllWords : i \in 1 .. l}
    BY <1>8 DEF Spoken
  <2>2. \A i \in 1 .. l : SymbolsOf(of(i)) \cap AllWords =
                           IF form[i].arg = Absent THEN {form[i].words} ELSE {}
    BY <1>4
  <2>3. Spoken(text) = UNION {IF form[i].arg = Absent THEN {form[i].words} ELSE {} : i \in 1 .. l}
    BY <2>1, <2>2
  <2> QED BY <1>5, <2>3
<1>11. WordsIn(form) # {}
  BY <1>2, <1>5
<1>12. SymbolsOf(text) \cap {",", "."} \subseteq {d.group}
  BY <1>4, <1>8
<1>13. CASE d.direction # "rtl"
  <2>1. ASSUME ControlsIn(text) # {} PROVE ComesIsolated(form, args)
    <3>1. PICK i \in 1 .. l : SymbolsOf(of(i)) \cap Controls # {}
      BY <1>8, <2>1, ControlsAmong
    <3>2. ControlsIn(of(i)) # {}
      BY <3>1, ControlsAmong
    <3> QED BY <1>4, <1>13, <3>2
  <2> QED BY <1>9, <1>10, <1>11, <1>12, <1>13, <2>1 DEF text
<1>14. CASE d.direction = "rtl"
  <2> DEFINE P == {p \in Nat \X Seq(T) : Nested(p[2])}
  <2>1. <<0, <<>>>> \in P
    <3>1. Nested(<<>>)
      BY WordsNest, Zenon
    <3>2. <<>> \in Seq(T)
      OBVIOUS
    <3> QED BY <3>1, <3>2
  <2>2. ASSUME NEW i \in 1 .. l, NEW t \in Seq(T), <<i - 1, t>> \in P
        PROVE  <<i, t \o seqs[i]>> \in P
    <3>1. Nested(t)
      BY <2>2
    <3>2. seqs[i] \in Seq(T) /\ Nested(seqs[i])
      BY <1>3, <1>4, <1>7, <1>14
    <3>3. Nested(t \o seqs[i])
      BY <3>1, <3>2, JoinedNest
    <3>4. t \o seqs[i] \in Seq(T) /\ i \in Nat
      BY <1>2, <3>2
    <3> QED BY <3>3, <3>4
  <2> HIDE DEF P
  <2>3. <<l, Seqs!FlattenSeq(seqs)>> \in P
    BY <1>2, <1>3, <1>7, <2>1, <2>2, FlattenInduction
  <2>4. Nested(text)
    BY <1>1, <2>3 DEF P
  <2> QED BY <1>9, <1>10, <1>11, <1>12, <1>14, <2>4 DEF text
<1> QED BY <1>13, <1>14

-----------------------------------------------------------------------------
(* Plural categories                                                       *)

\* A product that is nonnegative and below its factor is zero.
LEMMA OnlyZero ==
  ASSUME NEW y \in Nat \ {0}, NEW d \in Int, y * d >= 0, y * d < y
  PROVE  d = 0
<1>1. CASE d >= 1
  <2>1. PICK e \in Nat : d = e + 1
    <3>1. d - 1 \in Nat /\ d = (d - 1) + 1
      BY <1>1
    <3> QED BY <3>1
  <2>2. y * d = y * e + y
    BY <2>1
  <2>3. y * e >= 0
    OBVIOUS
  <2> QED BY <2>2, <2>3
<1>2. CASE d <= -1
  <2>1. PICK e \in Nat : d = -1 - e
    <3>1. -1 - d \in Nat /\ d = -1 - (-1 - d)
      BY <1>2
    <3> QED BY <3>1
  <2>2. y * d = -y - y * e
    BY <2>1
  <2>3. y * e >= 0
    OBVIOUS
  <2> QED BY <2>2, <2>3
<1> QED BY <1>1, <1>2

\* No remainder is being a multiple.
LEMMA MultipleIs ==
  ASSUME NEW x \in Nat, NEW y \in Nat \ {0}
  PROVE  x % y = 0 <=> \E z \in Nat : x = y * z
<1> DEFINE a == x \div y
           b == x % y
<1>1. a \in Nat /\ b \in 0 .. y - 1 /\ x = y * a + b
  BY DivMod
<1> HIDE DEF a, b
<1>2. ASSUME NEW z \in Nat, x = y * z PROVE b = 0
  <2>1. y * (z - a) = y * z - y * a
    BY <1>1
  <2>2. b = y * (z - a)
    BY <1>1, <1>2, <2>1
  <2>3. z - a = 0
    <3> DEFINE d == z - a
    <3>1. d \in Int
      BY <1>1
    <3> HIDE DEF d
    <3>2. y * d >= 0 /\ y * d < y
      BY <1>1, <2>2 DEF d
    <3>3. d = 0
      BY <3>1, <3>2, OnlyZero
    <3> QED BY <3>3 DEF d
  <2> QED BY <2>2, <2>3
<1>3. ASSUME b = 0 PROVE \E z \in Nat : x = y * z
  BY <1>1, <1>3
<1> QED BY <1>2, <1>3 DEF b

\* Products of positive numbers.
LEMMA Products ==
  ASSUME NEW x \in Nat \ {0}, NEW y \in Nat \ {0}
  PROVE  x * y \in Nat \ {0} /\ \A z \in Nat : (x * y) * z = y * (x * z)
<1>1. x * y \in Nat \ {0}
  <2>1. PICK a \in Nat, b \in Nat : x = a + 1 /\ y = b + 1
    <3>1. x - 1 \in Nat /\ y - 1 \in Nat /\ x = (x - 1) + 1 /\ y = (y - 1) + 1
      OBVIOUS
    <3> QED BY <3>1
  <2>2. x * y = a * b + a + b + 1 /\ a * b >= 0
    BY <2>1
  <2>3. a * b \in Nat
    BY <2>2
  <2> QED BY <2>2, <2>3
<1> QED BY <1>1

\* A quotient and a remainder, as comparisons with multiples of the divisor.
LEMMA QuotientTells ==
  ASSUME NEW x \in Nat, NEW y \in Nat \ {0}, NEW k \in Nat \ {0}
  PROVE  LET whole == x \div y
             exact == x % y = 0
         IN  /\ whole <= 1 <=> x < 2 * y
             /\ (whole = 1 /\ exact) \/ (whole = 0 /\ ~exact) <=> 0 < x /\ x <= y
             /\ whole = 2 /\ exact <=> x = 2 * y
             /\ exact /\ whole % k = 0 <=> x % (k * y) = 0
<1> DEFINE q == x \div y
           r == x % y
<1>1. q \in Nat /\ r \in 0 .. y - 1 /\ x = y * q + r
  BY DivMod
<1> HIDE DEF q, r
<1>2. q = 0 => y * q = 0
  BY <1>1
<1>3. q = 1 => y * q = y
  BY <1>1
<1>4. q = 2 => y * q = 2 * y
  BY <1>1
<1>5. q >= 3 => y * q >= 3 * y
  <2> SUFFICES ASSUME q >= 3 PROVE y * q >= 3 * y
    OBVIOUS
  <2>1. PICK e \in Nat : q = e + 3
    <3>1. q - 3 \in Nat /\ q = (q - 3) + 3
      BY <1>1
    <3> QED BY <3>1
  <2>2. y * q = y * e + 3 * y
    BY <2>1
  <2>3. y * e >= 0
    OBVIOUS
  <2> QED BY <2>2, <2>3
<1>6. q \in {0, 1, 2} \/ q >= 3
  BY <1>1
<1>7. q <= 1 <=> x < 2 * y
  BY <1>1, <1>2, <1>3, <1>4, <1>5, <1>6
<1>8. (q = 1 /\ r = 0) \/ (q = 0 /\ r # 0) <=> 0 < x /\ x <= y
  BY <1>1, <1>2, <1>3, <1>4, <1>5, <1>6
<1>9. q = 2 /\ r = 0 <=> x = 2 * y
  BY <1>1, <1>2, <1>3, <1>4, <1>5, <1>6
<1>10. r = 0 /\ q % k = 0 <=> x % (k * y) = 0
  <2> DEFINE m == k * y
  <2>1. m \in Nat \ {0} /\ \A z \in Nat : m * z = y * (k * z)
    BY Products
  <2> HIDE DEF m
  <2>2. x % m = 0 <=> \E z \in Nat : x = m * z
    BY <2>1, MultipleIs
  <2>3. q % k = 0 <=> \E z \in Nat : q = k * z
    BY <1>1, MultipleIs
  <2>4. ASSUME NEW z \in Nat, r = 0, q = k * z PROVE x = m * z
    BY <1>1, <2>1, <2>4
  <2>5. ASSUME NEW z \in Nat, x = m * z PROVE r = 0 /\ q = k * z
    <3> DEFINE p == k * z
               d == p - q
    <3>1. p \in Nat /\ x = y * p
      BY <2>1, <2>5
    <3> HIDE DEF p
    <3>2. d \in Int /\ y * d = y * p - y * q
      BY <1>1, <3>1
    <3>3. r = y * d
      BY <1>1, <3>1, <3>2
    <3> HIDE DEF d
    <3>4. y * d >= 0 /\ y * d < y
      BY <1>1, <3>3
    <3>5. d = 0
      BY <3>2, <3>4, OnlyZero
    <3>6. p = q
      BY <1>1, <3>1, <3>5 DEF d
    <3>7. r = 0
      BY <3>3, <3>5
    <3> QED BY <3>6, <3>7 DEF p
  <2> QED BY <2>2, <2>3, <2>4, <2>5 DEF m
<1> QED BY <1>7, <1>8, <1>9, <1>10 DEF q, r

\* A locale with a pinned rule counts by it.
LEMMA PinnedRule ==
  ASSUME NEW tag, DataFor(tag).plural \in PinnedRules
  PROVE  PluralRule(tag) = DataFor(tag).plural
<1> DEFINE rule == DataFor(tag).plural
<1>1. PluralRule(tag) = IF rule = "" THEN DataFor(DEFAULT_TAG).plural ELSE rule
  BY Zenon DEF PluralRule
<1>2. \/ rule = "one-if-1" \/ rule = "pt-cardinal-cldr46"
      \/ rule = "zh-cardinal-cldr46" \/ rule = "he-cardinal-cldr46"
  BY Zenon DEF PinnedRules
<1> HIDE DEF rule
<1>3. rule # ""
  BY <1>2, Zenon
<1> QED BY <1>1, <1>3, Zenon DEF rule

\* The kernel's truncations compute the cardinal rule of its locale, for every
\* number.
LEMMA CategoryIs ==
  ASSUME NEW tag, NEW n, IsNumber(n), n.finite, DataFor(tag).plural \in PinnedRules
  PROVE  PluralCategory(tag, n) = Cardinal(DataFor(tag).plural, n)
<1> DEFINE rule  == DataFor(tag).plural
           size  == Abs(n.num)
           whole == size \div n.den
           exact == size % n.den = 0
           c     == PluralCategory(tag, n)
<1>1. n.num \in Int /\ n.den \in Nat \ {0} /\ size \in Nat
  <2>1. n.num \in Int /\ n.den \in Nat \ {0}
    BY DEF IsNumber, NaN, Finite
  <2> QED BY <2>1 DEF Abs
<1>2. /\ whole <= 1 <=> size < 2 * n.den
      /\ (whole = 1 /\ exact) \/ (whole = 0 /\ ~exact) <=> 0 < size /\ size <= n.den
      /\ whole = 2 /\ exact <=> size = 2 * n.den
      /\ exact /\ whole % 1000000 = 0 <=> Millions(n)
  <2> DEFINE k == 1000000
  <2>1. k \in Nat \ {0}
    BY SMT
  <2> HIDE DEF size, k
  <2>2. /\ size \div n.den <= 1 <=> size < 2 * n.den
        /\ (size \div n.den = 1 /\ size % n.den = 0) \/ (size \div n.den = 0 /\ ~(size % n.den = 0))
             <=> 0 < size /\ size <= n.den
        /\ size \div n.den = 2 /\ size % n.den = 0 <=> size = 2 * n.den
        /\ size % n.den = 0 /\ (size \div n.den) % k = 0 <=> size % (k * n.den) = 0
    BY <1>1, <2>1, QuotientTells, SMT
  <2> QED BY <2>2, SMT DEF k, size, Millions
<1>3. PluralRule(tag) = rule
  BY PinnedRule
<1>4. c = CASE rule = "one-if-1" ->
                  IF n.num = n.den THEN "one" ELSE "other"
             [] rule = "pt-cardinal-cldr46" ->
                  IF whole <= 1 THEN "one"
                  ELSE IF exact /\ whole % 1000000 = 0 THEN "many" ELSE "other"
             [] rule = "he-cardinal-cldr46" ->
                  IF (whole = 1 /\ exact) \/ (whole = 0 /\ ~exact) THEN "one"
                  ELSE IF whole = 2 /\ exact THEN "two" ELSE "other"
             [] OTHER -> "other"
  BY <1>3, SMT DEF PluralCategory
<1> HIDE DEF rule, size, whole, exact, c
<1>5. rule \in {"one-if-1", "pt-cardinal-cldr46", "zh-cardinal-cldr46", "he-cardinal-cldr46"}
  BY DEF rule, PinnedRules
<1>6. CASE rule = "one-if-1"
  <2>1. Cardinal(rule, n) = IF n.num = n.den THEN "one" ELSE "other"
    BY <1>6, SMT DEF Cardinal
  <2> QED BY <1>4, <1>6, <2>1, SMT DEF c, rule
<1>7. CASE rule = "pt-cardinal-cldr46"
  <2>1. Cardinal(rule, n) = IF size < 2 * n.den THEN "one"
                            ELSE IF Millions(n) THEN "many" ELSE "other"
    BY <1>7, SMT DEF Cardinal, size
  <2>2. c = IF whole <= 1 THEN "one"
            ELSE IF exact /\ whole % 1000000 = 0 THEN "many" ELSE "other"
    BY <1>4, <1>7, SMT
  <2> QED BY <1>2, <2>1, <2>2, SMT DEF c, rule
<1>8. CASE rule = "he-cardinal-cldr46"
  <2>1. Cardinal(rule, n) = IF 0 < size /\ size <= n.den THEN "one"
                            ELSE IF size = 2 * n.den THEN "two" ELSE "other"
    BY <1>8, SMT DEF Cardinal, size
  <2>2. c = IF (whole = 1 /\ exact) \/ (whole = 0 /\ ~exact) THEN "one"
            ELSE IF whole = 2 /\ exact THEN "two" ELSE "other"
    BY <1>4, <1>8, SMT
  <2> QED BY <1>2, <2>1, <2>2, SMT DEF c, rule
<1>9. CASE rule = "zh-cardinal-cldr46"
  <2>1. Cardinal(rule, n) = "other"
    BY <1>9, SMT DEF Cardinal
  <2>2. c = "other"
    BY <1>4, <1>9, SMT
  <2> QED BY <2>1, <2>2 DEF c, rule
<1> QED BY <1>5, <1>6, <1>7, <1>8, <1>9

\* Every number gets a category of its locale's rule.
LEMMA CategoryKnown ==
  ASSUME NEW tag, NEW n, IsNumber(n), DataFor(tag).plural \in PinnedRules
  PROVE  PluralCategory(tag, n) \in Categories(DataFor(tag).plural)
<1> DEFINE rule == DataFor(tag).plural
<1>1. rule \in {"one-if-1", "pt-cardinal-cldr46", "zh-cardinal-cldr46", "he-cardinal-cldr46"}
  BY DEF PinnedRules
<1>2. CASE n.finite
  <2>1. PluralCategory(tag, n) = Cardinal(rule, n)
    BY <1>2, CategoryIs
  <2> HIDE DEF rule
  <2>2. Cardinal(rule, n) \in Categories(rule)
    BY <1>1, SMT DEF Cardinal, Categories
  <2> QED BY <2>1, <2>2 DEF rule
<1>3. CASE ~n.finite
  <2>1. PluralCategory(tag, n) = "other"
    BY <1>3, SMT DEF PluralCategory
  <2> HIDE DEF rule
  <2>2. "other" \in Categories(rule)
    BY <1>1, SMT DEF Categories
  <2> QED BY <2>1, <2>2 DEF rule
<1> QED BY <1>2, <1>3

-----------------------------------------------------------------------------
(* Messages                                                                *)

\* The forms of an entry.
FormsOf(entry) ==
  IF entry.kind = "text"
  THEN {entry.segments} ELSE {entry.variants[v] : v \in DOMAIN entry.variants}

\* The words of a form are words of its locale.
LEMMA FormsSpeak ==
  ASSUME NEW tag \in DOMAIN Tables, NEW key, Declares(tag, key),
         NEW form \in FormsOf(Entry(tag, key))
  PROVE  WordsIn(form) \subseteq WordsOf[tag] /\ WordsOf[tag] \subseteq AllWords
<1> DEFINE Pieces(entry) ==
             IF entry.kind = "text" THEN SymbolsOf(entry.segments)
             ELSE UNION {SymbolsOf(entry.variants[v]) : v \in DOMAIN entry.variants}
           Entries(table) == {table[n] : n \in DOMAIN table}
           EntriesOf(t) == UNION {Entries(Tables[t][d]) : d \in DOMAIN Tables[t]}
           entry == Entry(tag, key)
<1>1. WordsOf[tag] = {p.words : p \in UNION {Pieces(e) : e \in EntriesOf(tag)}} \ {Absent}
  BY DEF WordsOf
<1>2. entry \in EntriesOf(tag)
  <2>1. entry \in Entries(Tables[tag][key[1]]) /\ key[1] \in DOMAIN Tables[tag]
    BY DEF Declares, Entry
  <2> HIDE DEF Entries, entry
  <2> QED BY <2>1
<1>3. SymbolsOf(form) \subseteq Pieces(entry)
  BY DEF FormsOf
<1> HIDE DEF Pieces, Entries, EntriesOf, entry
<1>4. WordsIn(form) \subseteq WordsOf[tag]
  BY <1>1, <1>2, <1>3 DEF WordsIn
<1>5. WordsOf[tag] \subseteq AllWords
  BY DEF AllWords
<1> QED BY <1>4, <1>5

\* A message that can be answered is written from one of its forms: of a
\* choice, from the variant chosen.
LEMMA RenderIs ==
  ASSUME NEW entry, NEW args, NEW tag, NEW key, Answerable(entry, args)
  PROVE  LET v == Variant(entry, args, tag)
         IN  \E form \in FormsOf(entry) :
               /\ Sayable(form, args)
               /\ Render(entry, args, tag, key) = RenderSegments(form, args, tag)
               /\ entry.kind # "text" => form = entry.variants[v]
<1> DEFINE v == Variant(entry, args, tag)
<1>1. CASE entry.kind = "text"
  BY <1>1 DEF Answerable, FormsOf, Render
<1>2. CASE entry.kind # "text"
  <2>1. v \in DOMAIN entry.variants
    BY <1>2 DEF Answerable, Variant
  <2>2. Sayable(entry.variants[v], args)
    BY <1>2, <2>1 DEF Answerable
  <2>3. Render(entry, args, tag, key) = RenderSegments(entry.variants[v], args, tag)
    BY <1>2, <2>1 DEF Render
  <2>4. entry.variants[v] \in FormsOf(entry)
    BY <1>2, <2>1 DEF FormsOf
  <2> QED BY <1>2, <2>2, <2>3, <2>4
<1> QED BY <1>1, <1>2

\* Some argument came with controls.
ArgumentIsolated(args) ==
  \E a \in DOMAIN args : args[a].kind = "text" /\ ControlsIn(args[a].symbols) # {}

\* A message of a locale: its words, its separator, its isolates, and the
\* variant its arguments choose.
LEMMA MessageSays ==
  ASSUME NEW tag \in DOMAIN Tables, NEW key, NEW args, Declares(tag, key),
         Answerable(Entry(tag, key), args)
  PROVE  LET entry == Entry(tag, key)
             text  == Render(entry, args, tag, key)
         IN  /\ Spoken(text) # {} /\ Spoken(text) \subseteq WordsOf[tag]
             /\ entry.kind # "text" =>
                  Spoken(text) = WordsIn(entry.variants[Variant(entry, args, tag)])
             /\ SymbolsOf(text) \cap {",", "."} \subseteq {DataFor(tag).group}
             /\ IF DataFor(tag).direction = "rtl"
                THEN Nested(text) ELSE ControlsIn(text) # {} => ArgumentIsolated(args)
<1> DEFINE entry == Entry(tag, key)
           text  == Render(entry, args, tag, key)
           v     == Variant(entry, args, tag)
<1>1. PICK form \in FormsOf(entry) :
        /\ Sayable(form, args)
        /\ text = RenderSegments(form, args, tag)
        /\ entry.kind # "text" => form = entry.variants[v]
  BY RenderIs
<1>2. WordsIn(form) \subseteq WordsOf[tag] /\ WordsIn(form) \subseteq AllWords
  BY FormsSpeak
<1> HIDE DEF entry, text, v
<1>3. LET said_ == RenderSegments(form, args, tag)
      IN  /\ Spoken(said_) = WordsIn(form) /\ Spoken(said_) # {}
          /\ SymbolsOf(said_) \cap {",", "."} \subseteq {DataFor(tag).group}
          /\ IF DataFor(tag).direction = "rtl"
             THEN Nested(said_) ELSE ControlsIn(said_) # {} => ComesIsolated(form, args)
  BY <1>1, <1>2, RenderSays
<1>4. ComesIsolated(form, args) => ArgumentIsolated(args)
  BY DEF ComesIsolated, ArgumentIsolated, Argument, Null
<1> QED BY <1>1, <1>2, <1>3, <1>4 DEF entry, text, v

-----------------------------------------------------------------------------
(* What t() and pluralCategory() said                                      *)

\* How a request is answered from the tables loaded, and what it reports.
Answers(r, tag, text, loaded, reports) ==
  LET Has(t) == <<t, r.key[1]>> \in loaded /\ r.key[2] \in DOMAIN Tables[t][r.key[1]]
      use    == IF Has(tag) THEN tag ELSE DEFAULT_TAG
  IN  /\ use # tag => Missing(r.key, tag) \in reports
      /\ IF Has(use)
         THEN text = Render(Entry(use, r.key), r.args, use, r.key)
         ELSE text = KeyText(r.key) /\ Nowhere(r.key) \in reports

\* What was said answers a request; and the runtime keeps its own tables.
Told ==
  /\ {DEFAULT_TAG} \X Resident \subseteq registered
  /\ said.what = "message" =>
       \E r \in Requests :
         /\ said.key = r.key /\ said.args = r.args
         /\ Answers(r, said.tag, said.text, registered, reported)
  /\ said.what = "plural" =>
       said.value \in Numbers /\ said.text = PluralCategory(said.tag, said.value)

\* Only t() says a message, and only pluralCategory() a category.
LEMMA WhoSays ==
  ASSUME Next
  PROVE  /\ said'.what = "message" => \E r \in Requests : Translate(r.key, r.args, r.tag)
         /\ said'.what = "plural" => \E tag \in Tags, count \in Numbers : AskPlural(tag, count)
<1>1. CASE Decide
  <2>1. said'.what = "nothing"
    BY <1>1 DEF Decide, Silence
  <2> QED BY <2>1
<1>2. ASSUME NEW tag, NEW domain, Register(tag, domain) PROVE said'.what = "nothing"
  BY <1>2 DEF Register, Silence
<1>3. ASSUME NEW key, NEW args, NEW tag, Translate(key, args, tag) PROVE said'.what = "message"
  BY <1>3 DEF Translate
<1>4. ASSUME NEW tag, NEW count, AskPlural(tag, count) PROVE said'.what = "plural"
  BY <1>4 DEF AskPlural
<1>5. ASSUME Format PROVE said'.what \notin {"message", "plural"}
  <2>1. ASSUME NEW what, NEW value, NEW tag, NEW text, Answer(what, value, tag, text),
               what \notin {"message", "plural"}
        PROVE  said'.what \notin {"message", "plural"}
    BY <2>1, AnswerSays
  <2>2. \E what \in Formatters : \E value, tag, text : Answer(what, value, tag, text)
    BY <1>5, Zenon DEF Format, Formatters
  <2>3. \A what \in Formatters : what \notin {"message", "plural"}
    BY DEF Formatters
  <2> QED BY <2>1, <2>2, <2>3
<1> QED BY <1>1, <1>2, <1>3, <1>4, <1>5 DEF Next

\* t() answers its request.
LEMMA TranslateAnswers ==
  ASSUME NEW r, Translate(r.key, r.args, r.tag)
  PROVE  /\ said'.what = "message" /\ said'.key = r.key /\ said'.args = r.args
         /\ Answers(r, said'.tag, said'.text, registered', reported')
<1> DEFINE key   == r.key
           args  == r.args
           asked == IF r.tag = Absent THEN current ELSE r.tag
           gap   == asked # DEFAULT_TAG /\ ~Lookup(asked, key)
           use   == IF gap THEN DEFAULT_TAG ELSE asked
           found == Lookup(use, key)
           text  == IF found THEN Render(Entry(use, key), args, use, key) ELSE KeyText(key)
           made  == {x \in {Missing(key, asked), Nowhere(key)} :
                       (gap /\ x = Missing(key, asked)) \/ (~found /\ x = Nowhere(key))}
<1>1. /\ said' = [what |-> "message", key |-> key, args |-> args, tag |-> asked, text |-> text]
      /\ ReportOnce(made) /\ registered' = registered
  BY Zenon DEF Translate
<1> HIDE DEF made, text
<1>2. /\ said'.what = "message" /\ said'.key = key /\ said'.args = args
      /\ said'.tag = asked /\ said'.text = text
  BY <1>1
<1> HIDE DEF asked
<1>3. made \subseteq reported'
  BY <1>1 DEF ReportOnce
<1>4. (gap => Missing(key, asked) \in reported') /\ (~found => Nowhere(key) \in reported')
  BY <1>3 DEF made
<1> DEFINE Has(t) == <<t, key[1]>> \in registered' /\ key[2] \in DOMAIN Tables[t][key[1]]
           used   == IF Has(asked) THEN asked ELSE DEFAULT_TAG
<1>5. \A t : Has(t) <=> Lookup(t, key)
  BY <1>1 DEF Lookup
<1> HIDE DEF Has
<1>6. used = use /\ (use # asked => gap) /\ (Has(used) <=> found)
  BY <1>5
<1>7. text = IF found THEN Render(Entry(use, key), args, use, key) ELSE KeyText(key)
  BY DEF text
<1> HIDE DEF use, gap, found, used
<1>8. /\ used # asked => Missing(key, asked) \in reported'
      /\ IF Has(used)
         THEN text = Render(Entry(used, key), args, used, key)
         ELSE text = KeyText(key) /\ Nowhere(key) \in reported'
  BY <1>4, <1>6, <1>7
<1>9. Answers(r, asked, text, registered', reported')
  BY <1>8, Zenon DEF Answers, Has, used
<1> QED BY <1>2, <1>9

\* In every state, what was said is an answer.
LEMMA ToldAlways == Spec => []Told
<1>1. I18nInit => Told
  BY DEF I18nInit, Silence, Told
<1>2. Told /\ [Next]_vars => Told'
  <2> SUFFICES ASSUME Told, [Next]_vars PROVE Told'
    OBVIOUS
  <2>1. ({DEFAULT_TAG} \X Resident \subseteq registered)'
    BY NextRegisters DEF Told
  <2>2. CASE UNCHANGED vars
    BY <2>2 DEF vars, Told
  <2>3. CASE Next
    <3>1. ASSUME said'.what = "message"
          PROVE  \E r \in Requests :
                   /\ said'.key = r.key /\ said'.args = r.args
                   /\ Answers(r, said'.tag, said'.text, registered', reported')
      <4>1. PICK r \in Requests : Translate(r.key, r.args, r.tag)
        BY <2>3, <3>1, WhoSays
      <4> QED BY <4>1, TranslateAnswers
    <3>2. ASSUME said'.what = "plural"
          PROVE  said'.value \in Numbers /\ said'.text = PluralCategory(said'.tag, said'.value)
      <4>1. PICK tag \in Tags, count \in Numbers : AskPlural(tag, count)
        BY <2>3, <3>2, WhoSays
      <4>2. said'.value = count /\ said'.tag = tag /\ said'.text = PluralCategory(tag, count)
        BY <4>1 DEF AskPlural
      <4> QED BY <4>2
    <3> QED BY <2>1, <3>1, <3>2 DEF Told
  <2> QED BY <2>2, <2>3
<1> QED BY <1>1, <1>2, PTL DEF Spec

-----------------------------------------------------------------------------
(* What a reader may rely on                                               *)

\* A message whose key no table holds: a bare key, and reported.
Unheard ==
  /\ ~Lookup(DEFAULT_TAG, said.key)
  /\ said.text = KeyText(said.key)
  /\ Nowhere(said.key) \in reported
  /\ said.tag # DEFAULT_TAG => Missing(said.key, said.tag) \in reported

\* A message of a locale that has it, of the default's only with a report.
HeardIn(use) ==
  LET entry == Entry(use, said.key)
  IN  /\ use \in {said.tag, DEFAULT_TAG} \cap DOMAIN Tables
      /\ use # said.tag => Missing(said.key, said.tag) \in reported
      /\ Declares(use, said.key) /\ ~Fallback(said)
      /\ said.text = Render(entry, said.args, use, said.key)
      /\ Spoken(said.text) # {} /\ Spoken(said.text) \subseteq WordsOf[use]
      /\ entry.kind # "text" =>
           Spoken(said.text) = WordsIn(entry.variants[Variant(entry, said.args, use)])
      /\ SymbolsOf(said.text) \cap {",", "."} \subseteq {DataFor(use).group}
      /\ IF DataFor(use).direction = "rtl"
         THEN Nested(said.text) ELSE ControlsIn(said.text) # {} => ArgumentIsolated(said.args)

\* Every message is one or the other.
LEMMA MessageHeard ==
  ASSUME TypeOK, Told, said.what = "message"
  PROVE  Unheard \/ \E use : HeardIn(use)
<1>1. PICK r \in Requests :
        /\ said.key = r.key /\ said.args = r.args
        /\ Answers(r, said.tag, said.text, registered, reported)
  BY DEF Told
<1> DEFINE key == said.key
           use == IF Lookup(said.tag, key) THEN said.tag ELSE DEFAULT_TAG
<1>2. /\ use # said.tag => Missing(key, said.tag) \in reported
      /\ IF Lookup(use, key)
         THEN said.text = Render(Entry(use, key), said.args, use, key)
         ELSE said.text = KeyText(key) /\ Nowhere(key) \in reported
  BY <1>1, Zenon DEF Answers, Lookup
<1>3. CASE Lookup(use, key)
  <2>1. use \in DOMAIN Tables /\ Declares(use, key)
    <3>1. <<use, key[1]>> \in registered /\ key[2] \in DOMAIN Tables[use][key[1]]
      BY <1>3, Zenon DEF Lookup
    <3> HIDE DEF use, key
    <3>2. \A p \in registered : p[1] \in DOMAIN Tables /\ p[2] \in DOMAIN Tables[p[1]]
      BY DEF TypeOK
    <3> QED BY <3>1, <3>2 DEF Declares
  <2> HIDE DEF use
  <2>2. Answerable(Entry(use, key), said.args) /\ SymbolsOf(KeyText(key)) \cap AllWords = {}
    BY <1>1, <2>1, RequestsAssumption
  <2> DEFINE entry == Entry(use, key)
  <2>3. said.text = Render(entry, said.args, use, key)
    BY <1>2, <1>3
  <2> HIDE DEF entry
  <2>4. /\ Spoken(said.text) # {} /\ Spoken(said.text) \subseteq WordsOf[use]
        /\ entry.kind # "text" =>
             Spoken(said.text) = WordsIn(entry.variants[Variant(entry, said.args, use)])
        /\ SymbolsOf(said.text) \cap {",", "."} \subseteq {DataFor(use).group}
        /\ IF DataFor(use).direction = "rtl"
           THEN Nested(said.text) ELSE ControlsIn(said.text) # {} => ArgumentIsolated(said.args)
    <3> DEFINE text == Render(entry, said.args, use, key)
    <3> HIDE DEF key
    <3>1. /\ Spoken(text) # {} /\ Spoken(text) \subseteq WordsOf[use]
          /\ entry.kind # "text" =>
               Spoken(text) = WordsIn(entry.variants[Variant(entry, said.args, use)])
          /\ SymbolsOf(text) \cap {",", "."} \subseteq {DataFor(use).group}
          /\ IF DataFor(use).direction = "rtl"
             THEN Nested(text) ELSE ControlsIn(text) # {} => ArgumentIsolated(said.args)
      BY <2>1, <2>2, MessageSays DEF entry
    <3> HIDE DEF text
    <3>2. said.text = text
      BY <2>3 DEF text
    <3> QED BY <3>1, <3>2
  <2>5. ~Fallback(said)
    BY <2>2, <2>4 DEF Fallback, Spoken
  <2>6. use \in {said.tag, DEFAULT_TAG}
    BY DEF use
  <2>7. HeardIn(use)
    BY <1>2, <2>1, <2>3, <2>4, <2>5, <2>6, Zenon DEF HeardIn, entry
  <2> QED BY <2>7
<1>4. CASE ~Lookup(use, key)
  <2>1. ~Lookup(said.tag, key) /\ use = DEFAULT_TAG
    BY <1>4
  <2> QED BY <1>2, <1>4, <2>1 DEF Unheard
<1> QED BY <1>3, <1>4

\* Nothing is papered over in silence: whatever the catalogs hold and in
\* whatever order they arrive, a message that is not in the language asked for
\* has left a diagnostic of that key and that language, and a bare key is
\* shown only where no loaded catalog declares it.
THEOREM GapsTold == Spec => []GapsAreReported
<1>1. TypeOK /\ Told => GapsAreReported
  <2> SUFFICES ASSUME TypeOK, Told, said.what = "message" PROVE GapsAreReported
    BY DEF GapsAreReported
  <2>1. CASE Unheard
    <3>1. ASSUME said.key[1] \in Resident
          PROVE  said.key[2] \notin DOMAIN Tables[DEFAULT_TAG][said.key[1]]
      <4>1. <<DEFAULT_TAG, said.key[1]>> \in registered
        BY <3>1 DEF Told
      <4> QED BY <2>1, <4>1 DEF Unheard, Lookup
    <3> QED BY <2>1, <3>1 DEF Unheard, GapsAreReported
  <2>2. ASSUME NEW use, HeardIn(use) PROVE GapsAreReported
    <3>1. ~Fallback(said) /\ (use # said.tag => Missing(said.key, said.tag) \in reported)
      BY <2>2, Zenon DEF HeardIn
    <3>2. SpokenIn(said, use)
      BY <2>2 DEF HeardIn, SpokenIn
    <3> QED BY <3>1, <3>2 DEF GapsAreReported
  <2> QED BY <2>1, <2>2, MessageHeard
<1> QED BY <1>1, TypeCorrect, ToldAlways, PTL

\* A number is one, whatever it is.
LEMMA NumberKind == ASSUME NEW n, IsNumber(n) PROVE n.kind = "number" /\ AsNumber(n) = n
<1>1. n.kind = "number"
  BY DEF IsNumber, NaN, Finite
<1> QED BY <1>1 DEF AsNumber

\* A counted message takes the variant its fixture names.
LEMMA VariantIs ==
  ASSUME NEW case \in PluralCases, NEW args, case[1] \in DOMAIN Tables,
         "count" \in DOMAIN args, args["count"] = case[2]
  PROVE  LET entry == Entry(case[1], <<"status", "host_online_count">>)
         IN  entry.kind # "text" /\ Variant(entry, args, case[1]) = case[3]
<1> DEFINE tag   == case[1]
           n     == case[2]
           entry == Entry(tag, <<"status", "host_online_count">>)
           rule  == DataFor(tag).plural
<1>1. /\ tag \in DOMAIN LocaleData /\ IsNumber(n) /\ n.finite
      /\ case[3] = Cardinal(LocaleData[tag].plural, n)
  BY FixturesAssumption
<1>2. /\ rule \in PinnedRules /\ entry.kind = "plural" /\ entry.selector = "count"
      /\ DOMAIN entry.variants = Categories(rule)
  BY FormsAssumption
<1>3. case[3] = Cardinal(rule, n)
  BY <1>1 DEF DataFor
<1> HIDE DEF tag, n, entry, rule
<1>4. PluralCategory(tag, n) = case[3] /\ PluralCategory(tag, n) \in Categories(rule)
  BY <1>1, <1>2, <1>3, CategoryIs, CategoryKnown DEF rule
<1>5. AsNumber(args[entry.selector]) = n /\ entry.selector \in DOMAIN args
  BY <1>1, <1>2, NumberKind DEF n
<1>6. Variant(entry, args, tag) =
        IF PluralCategory(tag, n) \in DOMAIN entry.variants THEN PluralCategory(tag, n) ELSE "other"
  BY <1>2, <1>5, Zenon DEF Variant
<1>7. entry.kind # "text" /\ Variant(entry, args, tag) = case[3]
  BY <1>2, <1>4, <1>6
<1> QED BY <1>7 DEF tag, entry

\* A sentence is written by one locale: its words, the separators of its
\* numbers and the plural form of its noun follow the tag asked for, or all
\* follow the default when that tag has no such message yet.
THEOREM VoiceIsOne == Spec => []OneVoice
<1>1. TypeOK /\ Told => OneVoice
  <2> SUFFICES ASSUME TypeOK, Told, said.what = "message", ~Fallback(said) PROVE OneVoice
    BY DEF OneVoice
  <2>1. PICK use : HeardIn(use)
    BY MessageHeard DEF Unheard, Fallback
  <2>2. SpokenIn(said, use) /\ use \in {said.tag, DEFAULT_TAG} /\ use \in DOMAIN Tables
    BY <2>1 DEF HeardIn, SpokenIn
  <2>3. \A s \in SymbolsOf(said.text) \cap {",", "."} : s = DataFor(use).group
    <3>1. SymbolsOf(said.text) \cap {",", "."} \subseteq {DataFor(use).group}
      BY <2>1, Zenon DEF HeardIn
    <3> QED BY <3>1
  <2>4. ASSUME said.key[2] = "host_online_count", NEW case \in PluralCases,
               case[1] = use, case[2] = said.args.count
        PROVE  Spoken(said.text) =
                 {p.words : p \in SymbolsOf(
                    Tables[use]["status"]["host_online_count"].variants[case[3]])} \ {Absent}
    <3> DEFINE entry == Entry(use, <<"status", "host_online_count">>)
    <3>1. PICK r \in Requests : said.key = r.key /\ said.args = r.args
      BY DEF Told
    <3>2. said.key[1] = "status" /\ "count" \in DOMAIN said.args
      BY <2>4, <3>1, RequestsAssumption
    <3>3. entry.kind # "text" /\ Variant(entry, said.args, use) = case[3]
      BY <2>2, <2>4, <3>2, VariantIs
    <3>4. Entry(use, said.key) = entry
      BY <2>4, <3>2 DEF Entry
    <3>5. Spoken(said.text) = WordsIn(entry.variants[case[3]])
      BY <2>1, <3>3, <3>4, Zenon DEF HeardIn
    <3>6. entry = Tables[use]["status"]["host_online_count"]
      BY DEF Entry
    <3> QED BY <3>5, <3>6 DEF WordsIn
  <2> QED BY <2>2, <2>3, <2>4 DEF OneVoice
<1> QED BY <1>1, TypeCorrect, ToldAlways, PTL

\* The kernel chooses the category that CLDR gives a count, and one its
\* locale's catalog has a form for.
THEOREM PluralsStand == Spec => []PluralsAgree
<1>1. Told => PluralsAgree
  <2> SUFFICES ASSUME Told, said.what = "plural" PROVE PluralsAgree
    BY DEF PluralsAgree
  <2> DEFINE tag == said.tag
             n   == said.value
  <2>1. IsNumber(n) /\ said.text = PluralCategory(tag, n)
    BY NumbersAssumption DEF Told
  <2>2. ASSUME NEW case \in PluralCases, case[1] = tag, case[2] = n PROVE said.text = case[3]
    <3>1. /\ tag \in DOMAIN LocaleData /\ LocaleData[tag].plural \in PinnedRules
          /\ n.finite /\ case[3] = Cardinal(LocaleData[tag].plural, n)
      BY <2>2, FixturesAssumption
    <3>2. DataFor(tag) = LocaleData[tag]
      BY <3>1 DEF DataFor
    <3> QED BY <2>1, <3>1, <3>2, CategoryIs
  <2>3. ASSUME tag \in DOMAIN Tables
        PROVE  said.text \in DOMAIN Tables[tag]["status"]["host_online_count"].variants
    <3>1. /\ DataFor(tag).plural \in PinnedRules
          /\ DOMAIN Entry(tag, <<"status", "host_online_count">>).variants =
               Categories(DataFor(tag).plural)
      BY <2>3, FormsAssumption
    <3>2. Entry(tag, <<"status", "host_online_count">>) = Tables[tag]["status"]["host_online_count"]
      BY DEF Entry
    <3> QED BY <2>1, <3>1, <3>2, CategoryKnown
  <2> QED BY <2>2, <2>3 DEF PluralsAgree
<1> QED BY <1>1, ToldAlways, PTL

\* Inside right-to-left text every foreign run sits in exactly one closed
\* isolate, also when its caller isolated it before; in left-to-right text
\* no control is the kernel's.
THEOREM ForeignRunsIsolated == Spec => []ArgumentsIsolated
<1> DEFINE Enclosed(text) ==
             \A i \in DOMAIN text :
               /\ Depth(text, i) \in {0, 1}
               /\ text[i] \notin Spoken(text) \cup {"PDI"} => Depth(text, i) = 1
               /\ i = Len(text) => Depth(text, i) = 0
<1>1. ASSUME NEW text, Nested(text) PROVE Enclosed(text)
  BY <1>1 DEF Nested, Spoken, SymbolsOf
<1>2. TypeOK /\ Told /\ SaidFormats => ArgumentsIsolated
  <2> SUFFICES ASSUME TypeOK, Told, SaidFormats PROVE ArgumentsIsolated
    OBVIOUS
  <2>1. CASE said.what = "argument"
    <3> DEFINE v == said.value
               d == DataFor(said.tag)
    <3>1. Passes(v.value, v.type) /\ said.text = FormatArgument(v.value, v.type, said.tag)
      BY <2>1, TypedAssumption DEF SaidFormats
    <3> DEFINE text == FormatArgument(v.value, v.type, said.tag)
    <3>2. /\ IsText(text)
          /\ IF d.direction = "rtl"
             THEN text = <<>> \/ Capsule(text)
             ELSE ControlsIn(text) # {} => v.value.kind = "text" /\ ControlsIn(v.value.symbols) # {}
      <4> HIDE DEF v
      <4> QED BY <3>1, ArgumentWrites
    <3> HIDE DEF d, text
    <3>3. said.text = text
      BY <3>1 DEF text
    <3>4. CASE d.direction = "rtl"
      <4>1. text \in Seq(SymbolsOf(text))
        BY <3>2 DEF IsText
      <4>2. ASSUME text = <<>> PROVE Nested(text)
        BY <4>2, WordsNest, Zenon
      <4>3. ASSUME Capsule(text) PROVE Nested(text)
        BY <4>1, <4>3, CapsuleNests
      <4>4. Nested(said.text)
        BY <3>2, <3>3, <3>4, <4>2, <4>3
      <4> QED BY <1>1, <2>1, <3>4, <4>4 DEF ArgumentsIsolated, d
    <3>5. CASE d.direction # "rtl"
      BY <2>1, <3>2, <3>3, <3>5 DEF ArgumentsIsolated, d
    <3> QED BY <3>4, <3>5
  <2>2. CASE said.what = "message" /\ ~Fallback(said)
    <3>1. PICK use : HeardIn(use)
      BY <2>2, MessageHeard DEF Unheard, Fallback
    <3> DEFINE rtl == \E tag \in DOMAIN Tables :
                        SpokenIn(said, tag) /\ DataFor(tag).direction = "rtl"
    <3>2. rtl <=> DataFor(use).direction = "rtl"
      <4>1. use \in DOMAIN Tables /\ SpokenIn(said, use)
        BY <3>1 DEF HeardIn, SpokenIn
      <4>2. \A tag \in DOMAIN Tables :
              SpokenIn(said, tag) => DataFor(tag).direction = DataFor(use).direction
        BY <4>1, WordsAssumption DEF SpokenIn
      <4> QED BY <4>1, <4>2
    <3>3. IF DataFor(use).direction = "rtl"
          THEN Nested(said.text) ELSE ControlsIn(said.text) # {} => ArgumentIsolated(said.args)
      BY <3>1, Zenon DEF HeardIn
    <3>4. CASE rtl
      BY <1>1, <2>2, <3>2, <3>3, <3>4 DEF ArgumentsIsolated
    <3>5. CASE ~rtl
      <4>1. ControlsIn(said.text) # {} => ArgumentIsolated(said.args)
        BY <3>2, <3>3, <3>5
      <4> QED BY <2>2, <3>5, <4>1 DEF ArgumentsIsolated, ArgumentIsolated
    <3> QED BY <3>4, <3>5
  <2>3. CASE said.what # "argument" /\ ~(said.what = "message" /\ ~Fallback(said))
    BY <2>3 DEF ArgumentsIsolated
  <2> QED BY <2>1, <2>2, <2>3
<1> QED BY <1>2, TypeCorrect, ToldAlways, FormatsSaid, PTL
=============================================================================
