-------------------------------- MODULE I18n --------------------------------
(* The catalog kernel of a page (globalization/kernel/yuruna.i18n.js):     *)
(* messages are looked up, rendered and reported while the page's language *)
(* is being decided and its catalog scripts arrive.                        *)
EXTENDS FiniteSets, PageContext, Formats

CONSTANTS
  Tables,      \* the registry once every script has run: [tag][domain][name]
  Resident,    \* the domains whose default table is part of the runtime
  Elements,    \* what the server may write into <html>
  Decisions,   \* what a caller may pass to init()
  RawTags,     \* the tags a caller may pass to setLocale()
  Requests,    \* the calls of t(): [key, args, tag]; tag "" is absent
  Numbers,     \* the values formatted: numbers,
  Dates,       \*   instants,
  Typed,       \*   and typed arguments: [value, type]
  Tags,        \* the tags the exported formatters are asked for
  MaxReports   \* bound: diagnostics of one page

\* The server derives a direction it writes from the language it writes.
ASSUME ServerAssumption ==
  Elements \subseteq ElementsOf({e.lang : e \in Elements},
                                {e.requested : e \in Elements},
                                {e.source : e \in Elements})

\* The runtime carries the default tables of its resident domains.
ASSUME TablesAssumption ==
  /\ DEFAULT_TAG \in DOMAIN Tables
  /\ Resident \subseteq DOMAIN Tables[DEFAULT_TAG]
  /\ MaxReports \in Nat

\* A number of the engine is no number or a fraction over a power of two: of
\* its denominator it matters that it has no factor five.
IsNumber(v) ==
  \/ v = NaN
  \/ v = Finite(v.num, v.den) /\ v.num \in Int /\ v.den \in Nat \ {0} /\ v.den % 5 # 0

ASSUME NumbersAssumption == \A v \in Numbers : IsNumber(v)

\* Bound: the instants are of the month Fields() tells the days of, in UTC and
\* in the reader's zone.
Moment(at) == at \in Nat /\ at < 30 * 86400

IsDate(v) ==
  \/ v = BadDate
  \/ v = Instant(v.at) /\ Moment(v.at) /\ Moment(v.at + Zone)

ASSUME DatesAssumption == \A v \in Dates : IsDate(v)

VARIABLES
  registered,  \* the tables that registered themselves: <<tag, domain>>
  reported,    \* the diagnostics printed
  said         \* what the last call asked and what it returned

vars == <<current, initialized, pageContext, element, registered, reported, said>>

Silence == [what |-> "nothing"]

I18nInit ==
  /\ ContextInit(Elements)
  /\ registered = {DEFAULT_TAG} \X Resident
  /\ reported = {}
  /\ said = Silence

-----------------------------------------------------------------------------
(* Diagnostics: one per key per locale per page *)

Missing(key, tag) == <<"missing", key, tag>>
Nowhere(key)      == <<"nowhere", key>>
NoRule(tag)       == <<"unpinned", tag>>

\* Mutant: one diagnostic for a page.
ReportFirst(reports) ==
  /\ Cardinality(reported \cup reports) <= MaxReports
  /\ reported' = IF reported = {} THEN reports ELSE reported

ReportOnce(reports) ==
  /\ Cardinality(reported \cup reports) <= MaxReports
  /\ reported' = reported \cup reports

PluralReports(tag) == IF DataFor(tag).plural = "" THEN {NoRule(tag)} ELSE {}

-----------------------------------------------------------------------------
(* Messages: a key is <<domain, name>> *)

Lookup(tag, key) == <<tag, key[1]>> \in registered /\ key[2] \in DOMAIN Tables[tag][key[1]]

Entry(tag, key) == Tables[tag][key[1]][key[2]]

KeyText(key) == <<key[1], ".", key[2]>>

\* The variant the arguments choose; other when the catalog has not that one.
Variant(entry, args, tag) ==
  LET given  == entry.selector \in DOMAIN args
      count  == IF given THEN AsNumber(args[entry.selector]) ELSE Finite(0, 1)
      chosen == IF entry.kind = "plural" THEN PluralCategory(tag, count)
                ELSE IF given THEN args[entry.selector].symbols[1] ELSE Absent
  IN  IF chosen \in DOMAIN entry.variants THEN chosen ELSE "other"

\* Mutant: the fallback keeps the rules of the page.
RenderInCurrent(entry, args, tag, key) ==
  IF entry.kind = "text"
  THEN RenderSegments(entry.segments, args, current)
  ELSE RenderSegments(entry.variants[Variant(entry, args, current)], args, current)

Render(entry, args, tag, key) ==
  IF entry.kind = "text"
  THEN RenderSegments(entry.segments, args, tag)
  ELSE LET chosen == Variant(entry, args, tag)
       IN  IF chosen \in DOMAIN entry.variants
           THEN RenderSegments(entry.variants[chosen], args, tag)
           ELSE KeyText(key)

\* t(key, args, tag): a gap falls back to the default locale as a whole.
Translate(key, args, tag) ==
  LET asked == IF tag = Absent THEN current ELSE tag
      gap   == asked # DEFAULT_TAG /\ ~Lookup(asked, key)
      use   == IF gap THEN DEFAULT_TAG ELSE asked
      found == Lookup(use, key)
      text  == IF found THEN Render(Entry(use, key), args, use, key) ELSE KeyText(key)
  IN  /\ ReportOnce({r \in {Missing(key, asked), Nowhere(key)} :
                       (gap /\ r = Missing(key, asked)) \/ (~found /\ r = Nowhere(key))})
      /\ said' = [what |-> "message", key |-> key, args |-> args, tag |-> asked, text |-> text]
      /\ UNCHANGED <<contextVars, registered>>

\* A catalog script of the page's locale, or of another domain of it, runs.
Register(tag, domain) ==
  /\ tag = Resolve(element.lang)
  /\ domain \in DOMAIN Tables[tag]
  /\ registered' = registered \cup {<<tag, domain>>}
  /\ said' = Silence
  /\ UNCHANGED <<contextVars, reported>>

-----------------------------------------------------------------------------
(* The exported operations: Y.init, Y.setLocale, Y.context, Y.direction,   *)
(* Y.pluralCategory, Y.formatNumber, Y.formatArgument, Y.fmtLocal and      *)
(* Y.fmtLocalTime.                                                         *)

Decide ==
  /\ \/ \E decision \in Decisions : InitPage(decision)
     \/ \E tag \in RawTags : SetLocale(tag)
     \/ AskContext
  /\ said' = Silence
  /\ UNCHANGED <<registered, reported>>

\* Bound: formatting reads no variable, so the formatters are asked of a
\* kernel nobody has used before, as the fixture harness does.
Harness == said = Silence /\ pageContext = NoContext /\ reported = {}

AskPlural(tag, count) ==
  /\ Harness
  /\ ReportOnce(PluralReports(tag))
  /\ said' = [what |-> "plural", tag |-> tag, value |-> count,
              text |-> PluralCategory(tag, count)]
  /\ UNCHANGED <<contextVars, registered>>

Answer(what, value, tag, text) ==
  /\ Harness
  /\ said' = [what |-> what, value |-> value, tag |-> tag, text |-> text]
  /\ UNCHANGED <<contextVars, registered, reported>>

Format ==
  \/ \E value \in Numbers, tag \in Tags :
       \/ Answer("integer", value, tag, FormatNumber(value, tag, Integral))
       \/ Answer("decimal", value, tag, FormatNumber(value, tag, Decimal))
       \/ Answer("duration", value, tag, FormatDuration(value))
  \/ \E arg \in Typed, tag \in Tags :
       Answer("argument", arg, tag, FormatArgument(arg.value, arg.type, tag))
  \/ \E value \in Dates :
       \/ Answer("local", value, current, FormatLocal(value))
       \/ Answer("localTime", value, current, FormatLocalTime(value))
       \/ Answer("pageTime", value, current, YurunaLocalTime(value))
       \/ Answer("datetime", value, current, FormatDatetime(value))

Next ==
  \/ Decide
  \/ \E tag \in DOMAIN Tables : \E domain \in DOMAIN Tables[tag] : Register(tag, domain)
  \/ \E r \in Requests : Translate(r.key, r.args, r.tag)
  \/ \E tag \in Tags, count \in Numbers : AskPlural(tag, count)
  \/ Format

Spec == I18nInit /\ [][Next]_vars
=============================================================================
