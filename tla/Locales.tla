------------------------------ MODULE Locales ------------------------------
(* The locales a page carries and the one that answers for a tag           *)
(* (dataFor() and resolve() of globalization/kernel/yuruna.i18n.js, over   *)
(* the generated tables YurunaLocaleData, YurunaEnabledLocales and         *)
(* YurunaLocaleAliases).                                                   *)
EXTENDS Integers

CONSTANTS
  DEFAULT_TAG,  \* the locale whose tables are compiled into every runtime
  LocaleData,   \* by tag: [group, decimal, groupSize, plural, direction]
  Normal,       \* the lower-case canonical form of every well-formed tag
  Enabled,      \* by canonical form: the tag of a selectable locale
  Aliases       \* by canonical form: the canonical form it stands for

ASSUME LocalesAssumption ==
  /\ DEFAULT_TAG \in DOMAIN LocaleData
  /\ "" \notin DOMAIN LocaleData
  /\ \A form \in DOMAIN Enabled : Enabled[form] \in DOMAIN LocaleData
  /\ \A tag \in DOMAIN LocaleData : LocaleData[tag].direction \in {"ltr", "rtl"}

\* A locale without data is written as the default is.
DataFor(tag) ==
  LocaleData[IF tag \in DOMAIN LocaleData THEN tag ELSE DEFAULT_TAG]

\* Only an exact match or a declared alias of a selectable locale counts; an
\* absent or malformed tag is outside DOMAIN Normal.
Resolve(tag) ==
  LET form    == Normal[tag]
      aliased == Aliases[form]
  IN  IF tag \notin DOMAIN Normal THEN DEFAULT_TAG
      ELSE IF form \in DOMAIN Enabled THEN Enabled[form]
      ELSE IF form \in DOMAIN Aliases /\ aliased \in DOMAIN Enabled
      THEN Enabled[aliased]
      ELSE DEFAULT_TAG
=============================================================================
