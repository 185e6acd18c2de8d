------------------------------ MODULE MCPages ------------------------------
(* The four pages with the proportions of their intervals and timeouts.    *)
EXTENDS Pages, TLC

MCLocaleData == "en-US" :> [direction |-> "ltr"] @@ "he-IL" :> [direction |-> "rtl"]
MCNormal == "en-US" :> "en-us" @@ "he-IL" :> "he-il" @@ "en" :> "en"
MCEnabled == "en-us" :> "en-US" @@ "he-il" :> "he-IL"
MCAliases == "en" :> "en-us"
MCLangs == {"he-IL"}

Page(page, guard, interval, timeout, slots) ==
  [page |-> page, guard |-> guard, interval |-> interval, timeout |-> timeout,
   slots |-> slots]

MCKinds ==
  {Page("cache/index", "none", 3, 2, 3),    \* 10 s and 8 s
   Page("parser/index", "none", 2, 3, 3),  \* 5 s and 8 s
   Page("images", "single", 1, 2, 2),     \* 5 s and 10 s
   Page("board", "generation", 1, 2, 2)}  \* 30 s and 60 s
=============================================================================
