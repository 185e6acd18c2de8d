------------------------------ MODULE MCKernel ------------------------------
(* The kernel on the six locales it ships, a planned one, and pages that   *)
(* announce a tag, an alias or none.                                       *)
EXTENDS KernelContract, TLC

Compiled == INSTANCE Catalogs

MCTables == Compiled!Registry

\* The generated YurunaLocaleData, and a planned locale beside it.
MCLocaleData ==
  LET Data(group, decimal, plural, direction) ==
        [group |-> group, decimal |-> decimal, groupSize |-> 3,
         plural |-> plural, direction |-> direction]
  IN  "en-US"     :> Data(",", ".", "one-if-1", "ltr") @@
      "he-IL"     :> Data(",", ".", "he-cardinal-cldr46", "rtl") @@
      "pt-BR"     :> Data(".", ",", "pt-cardinal-cldr46", "ltr") @@
      "qps-Ploc"  :> Data(",", ".", "one-if-1", "ltr") @@
      "qps-Plocm" :> Data(",", ".", "one-if-1", "rtl") @@
      "zh-CN"     :> Data(",", ".", "zh-cardinal-cldr46", "ltr") @@
      "fr-FR"     :> Data(" ", ",", "", "ltr")

MCEnabled ==
  "en-us" :> "en-US" @@ "he-il" :> "he-IL" @@ "pt-br" :> "pt-BR" @@
  "qps-ploc" :> "qps-Ploc" @@ "qps-plocm" :> "qps-Plocm" @@ "zh-cn" :> "zh-CN"

MCAliases == "en" :> "en-us" @@ "pt-pt" :> "pt-br" @@ "iw" :> "he-il" @@ "fr" :> "fr-fr"

\* Spellings a page or a caller uses; "" and "p" are no tags.
MCNormal ==
  [tag \in DOMAIN MCLocaleData |->
     CHOOSE form \in DOMAIN MCEnabled \cup {"fr-fr"} :
       IF form = "fr-fr" THEN tag = "fr-FR" ELSE MCEnabled[form] = tag] @@
  "PT_br" :> "pt-br" @@ "en" :> "en" @@ "iw" :> "iw" @@ "pt-PT" :> "pt-pt" @@ "fr" :> "fr"

MCRawTags == {"", "p", "PT_br", "iw", "fr"}

MCElements ==
  ElementsOf({"", "en"}, {""}, {""}) \cup
  {e \in ElementsOf({"pt-BR", "he-IL", "zh-CN", "qps-Plocm"}, {"pt-PT"}, {"http"}) :
     e.dir = "" <=> e.lang = "he-IL"}

MCDecisions == {[requested |-> "", source |-> ""], [requested |-> "iw", source |-> "cookie"]}

\* Three hours behind UTC.
MCZone == -10800

MCResident == {"status"}

Host == Words(<<"host-01">>)
MCRequests ==
  LET Ask(name, args, tag) == [key |-> <<"status", name>>, args |-> args, tag |-> tag]
      Counts == {Finite(0, 1), Finite(1, 1), Finite(2, 1), Finite(1000000, 1)}
  IN  {Ask("host_online_count", [count |-> n], "") : n \in Counts} \cup
      {Ask("host_online_count", [count |-> Finite(1234, 1)], "pt-BR"),
       Ask("cycle_paused", [none |-> Null], ""),
       Ask("cycle_duration", [elapsed |-> Finite(10799, 2)], ""),
       Ask("external_detail", [detail |-> Host], ""),
       Ask("external_detail", [none |-> Null], ""),
       Ask("renamed_key", [none |-> Null], ""),
       [key |-> <<"pool", "repo_held_detail">>, args |-> [repo |-> Words(<<"project">>)], tag |-> ""],
       [key |-> <<"pool", "repo_held_detail">>, args |-> [repo |-> Words(<<"else">>)], tag |-> ""]}

MCNumbers ==
  {NaN} \cup
  {Finite(n, 1) : n \in {0, 1, -1, 2, -2, 3, 10, 20, 59, 60, 61, 100, 999, 1000, -1000,
                         3599, 3600, 5400, 86400, 1000000, 1000001, 1234567, -1234567, 2000000}} \cup
  {Finite(n, 2) : n \in {-5, -1, 1, 3, 5, 119, 7199, 2000001}} \cup
  {Finite(n, 8) : n \in {1, 3, 5, 7, 9, -1, 7999, 8001}}

MCDates == {BadDate} \cup {Instant(at) : at \in {86400, 100000, 172799, 259200 + 10800}}

MCTyped ==
  {[value |-> v, type |-> t] :
     v \in {Null, Words(<<>>), Host, Words(<<"FSI", "host-01", "PDI">>)}, t \in {"detail"}} \cup
  {[value |-> v, type |-> t] : v \in {Null, NaN, Finite(-5, 1), Finite(4999, 4)},
                              t \in {"integer", "decimal", "duration"}} \cup
  {[value |-> Instant(100000), type |-> "datetime"], [value |-> BadDate, type |-> "datetime"]}

MCTags == {"en-US", "pt-BR", "he-IL", "zh-CN", "qps-Plocm", "fr-FR"}

MCPluralCases ==
  LET Cases(tag, category, counts) == {<<tag, n, category>> : n \in counts}
      Whole(ns) == {Finite(n, 1) : n \in ns}
      Half(n) == Finite(2 * n + 1, 2)
  IN  Cases("en-US", "one", Whole({1})) \cup
      Cases("en-US", "other", Whole({0, 2, -1}) \cup {Half(1)}) \cup
      Cases("pt-BR", "one", Whole({0, 1, -1}) \cup {Half(0)}) \cup
      Cases("pt-BR", "many", Whole({1000000, 2000000})) \cup
      Cases("pt-BR", "other", Whole({2, -2, 1000001}) \cup {Half(1000000)}) \cup
      Cases("he-IL", "one", Whole({1, -1}) \cup {Half(0)}) \cup
      Cases("he-IL", "two", Whole({2, -2})) \cup
      Cases("he-IL", "other", Whole({0, 3, 10, 20, 100, 1000000}) \cup {Half(1), Half(2)}) \cup
      Cases("zh-CN", "other", Whole({0, 1, 2, 3, 10, 20, 100, -1, 1000000}) \cup {Half(0), Half(1)})
=============================================================================
