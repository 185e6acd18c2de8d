------------------------------ MODULE Catalogs ------------------------------
(* The compiled catalog tables the browser kernel walks                    *)
(* (globalization/generated/browser/<locale>.<domain>.js), cut down to one *)
(* message of each kind: fixed words, words with an argument of each type, *)
(* a plural and a select.  A stretch of words is one symbol, in the        *)
(* locale's own language (transliterated); what a table holds beside it -  *)
(* the selector, the variants, the order and types of the arguments - is   *)
(* as the compiler wrote it.                                               *)

EXTENDS TLC

LOCAL Say(words) == [words |-> words, arg |-> "", type |-> ""]
LOCAL Arg(arg, type) == [words |-> "", arg |-> arg, type |-> type]

LOCAL Text(segments) == [kind |-> "text", segments |-> segments]
LOCAL Plural(variants) ==
  [kind |-> "plural", selector |-> "count", variants |-> variants]
LOCAL Select(variants) ==
  [kind |-> "select", selector |-> "repo", variants |-> variants]

LOCAL Count   == Arg("count", "integer")
LOCAL Elapsed == Arg("elapsed", "duration")
LOCAL Detail  == Arg("detail", "detail")

EnglishStatus ==
  [cycle_paused      |-> Text(<<Say("Paused, waiting for resume.")>>),
   cycle_duration    |-> Text(<<Say("Duration: "), Elapsed>>),
   external_detail   |-> Text(<<Say("The tool reported: "), Detail>>),
   host_online_count |-> Plural(
     [one   |-> <<Count, Say(" host online.")>>,
      other |-> <<Count, Say(" hosts online.")>>])]

PortugueseStatus ==
  [cycle_paused      |-> Text(<<Say("Pausa, a espera do curriculo.")>>),
   cycle_duration    |-> Text(<<Say("Duracao: "), Elapsed>>),
   external_detail   |-> Text(<<Say("A ferramenta reportada: "), Detail>>),
   host_online_count |-> Plural(
     [one   |-> <<Say("Servidor "), Count, Say(" online.")>>,
      many  |-> <<Count, Say(" hospeda online.")>>,
      other |-> <<Count, Say(" hospeda online.")>>])]

HebrewStatus ==
  [cycle_paused      |-> Text(<<Say("mushhe, mamtin lehemshekh.")>>),
   cycle_duration    |-> Text(<<Say("meshekh: "), Elapsed>>),
   external_detail   |-> Text(<<Say("hakli diveach: "), Detail>>),
   host_online_count |-> Plural(
     [one   |-> <<Say("mearech "), Count, Say(" mekuvan.")>>,
      two   |-> <<Count, Say(" mearchim mekuvanim.")>>,
      other |-> <<Count, Say(" mearchim mekuvanim.")>>])]

ChineseStatus ==
  [cycle_paused      |-> Text(<<Say("yi zanting")>>),
   cycle_duration    |-> Text(<<Say("haoshi "), Elapsed>>),
   external_detail   |-> Text(<<Say("gongju baogao "), Detail>>),
   host_online_count |-> Plural([other |-> <<Count, Say(" tai suzhuji zaixian")>>])]

PseudoStatus ==
  [cycle_paused      |-> Text(<<Say("[Paused ~]")>>),
   cycle_duration    |-> Text(<<Say("[Duration: "), Elapsed, Say(" ~]")>>),
   external_detail   |-> Text(<<Say("[The tool reported: "), Detail, Say(" ~]")>>),
   host_online_count |-> Plural(
     [one   |-> <<Say("["), Count, Say(" host online. ~]")>>,
      other |-> <<Say("["), Count, Say(" hosts online. ~]")>>])]

MirroredStatus ==
  [cycle_paused      |-> Text(<<Say("[!Paused~]")>>),
   cycle_duration    |-> Text(<<Say("[!Duration: "), Elapsed, Say("~]")>>),
   external_detail   |-> Text(<<Say("[!The tool reported: "), Detail, Say("~]")>>),
   host_online_count |-> Plural(
     [one   |-> <<Say("[!"), Count, Say(" host online.~]")>>,
      other |-> <<Say("[!"), Count, Say(" hosts online.~]")>>])]

EnglishPool ==
  [repo_held_detail |-> Select(
     [framework |-> <<Say("The framework repository this host holds.")>>,
      project   |-> <<Say("The project repository this host holds.")>>,
      other     |-> <<Say("The repository this host holds.")>>])]

PortuguesePool ==
  [repo_held_detail |-> Select(
     [framework |-> <<Say("O repositorio de framework que esta maquina mantem.")>>,
      project   |-> <<Say("O repositorio de projetos que esta maquina mantem.")>>,
      other     |-> <<Say("O repositorio que esta maquina mantem.")>>])]

HebrewPool ==
  [repo_held_detail |-> Select(
     [framework |-> <<Say("maagar hakod shel svivat haavoda shenimtsa bemearech ze.")>>,
      project   |-> <<Say("maagar hakod shel haproyekt shenimtsa bemearech ze.")>>,
      other     |-> <<Say("maagar hakod shenimtsa bemearech ze.")>>])]

ChinesePool ==
  [repo_held_detail |-> Select(
     [framework |-> <<Say("ci suzhuji shiji chiyou de kuangjia cangku")>>,
      project   |-> <<Say("ci suzhuji shiji chiyou de xiangmu cangku")>>,
      other     |-> <<Say("ci suzhuji shiji chiyou de cangku")>>])]

PseudoPool ==
  [repo_held_detail |-> Select(
     [framework |-> <<Say("[The framework repository this host holds. ~]")>>,
      project   |-> <<Say("[The project repository this host holds. ~]")>>,
      other     |-> <<Say("[The repository this host holds. ~]")>>])]

MirroredPool ==
  [repo_held_detail |-> Select(
     [framework |-> <<Say("[!The framework repository this host holds.~]")>>,
      project   |-> <<Say("[!The project repository this host holds.~]")>>,
      other     |-> <<Say("[!The repository this host holds.~]")>>])]

\* The registry once every script has run: by tag, then by domain.
Registry ==
  "en-US"     :> [status |-> EnglishStatus, pool |-> EnglishPool] @@
  "pt-BR"     :> [status |-> PortugueseStatus, pool |-> PortuguesePool] @@
  "he-IL"     :> [status |-> HebrewStatus, pool |-> HebrewPool] @@
  "zh-CN"     :> [status |-> ChineseStatus, pool |-> ChinesePool] @@
  "qps-Ploc"  :> [status |-> PseudoStatus, pool |-> PseudoPool] @@
  "qps-Plocm" :> [status |-> MirroredStatus, pool |-> MirroredPool]
=============================================================================
