-------------------------- MODULE PageContextProofs --------------------------
(* What init(), setLocale() and context() keep true of the decision about  *)
(* a page's language, for any locales and any page.                        *)
EXTENDS PageContext, TLAPS

\* The attributes of <html> name their direction by their language.
ElementHonest ==
  /\ element = [lang |-> element.lang, dir |-> element.dir,
                requested |-> element.requested, source |-> element.source]
  /\ element.dir \in {"", DataFor(Resolve(element.lang)).direction}

\* The inductive invariant.
ContextInv ==
  /\ current \in DOMAIN LocaleData
  /\ initialized \in BOOLEAN
  /\ ElementHonest
  /\ ContextAgrees

-----------------------------------------------------------------------------
\* Whatever is asked for, resolve() answers with a locale that has data.
LEMMA ResolveKnown ==
  ASSUME NEW tag
  PROVE  Resolve(tag) \in DOMAIN LocaleData
BY LocalesAssumption DEF Resolve

\* A context made for a locale is no empty one, and has its direction.
LEMMA ContextMade ==
  ASSUME NEW requested, NEW resolved \in DOMAIN LocaleData, NEW source
  PROVE  /\ NewPageContext(requested, resolved, source) # NoContext
         /\ NewPageContext(requested, resolved, source).resolvedTag = resolved
         /\ NewPageContext(requested, resolved, source).direction = DataFor(resolved).direction
BY LocalesAssumption DEF NewPageContext, NoContext

\* An honest page starts undecided.
LEMMA InitContext ==
  ASSUME NEW elements, ContextInit(elements),
         elements \subseteq ElementsOf({e.lang : e \in elements},
                                       {e.requested : e \in elements},
                                       {e.source : e \in elements})
  PROVE  ContextInv
<1>1. ElementHonest
  BY DEF ContextInit, ElementsOf, ElementHonest
<1>2. QED
  BY <1>1, LocalesAssumption DEF ContextInit, ContextInv, ContextAgrees

\* init() makes the decision of the page's language, or does nothing.
LEMMA InitPageContext ==
  ASSUME ContextInv, NEW decision, InitPage(decision)
  PROVE  ContextInv'
<1> DEFINE resolved == Resolve(element.lang)
<1>1. CASE UNCHANGED contextVars
  BY <1>1 DEF contextVars, ContextInv, ElementHonest, ContextAgrees
<1>2. CASE ~initialized /\ ~UNCHANGED contextVars
  <2>1. resolved \in DOMAIN LocaleData
    BY ResolveKnown
  <2>2. PICK requested, source : pageContext' = NewPageContext(requested, resolved, source)
    BY <1>2 DEF InitPage
  <2>3. /\ pageContext' # NoContext
        /\ pageContext'.resolvedTag = resolved
        /\ pageContext'.direction = DataFor(resolved).direction
    BY <2>1, <2>2, ContextMade
  <2>4. /\ current' = resolved
        /\ initialized' = TRUE
        /\ element' = IF element.dir = ""
                      THEN [element EXCEPT !.dir = pageContext'.direction]
                      ELSE element
    BY <1>2 DEF InitPage
  <2>5. /\ element'.lang = element.lang
        /\ element'.dir = DataFor(resolved).direction
        /\ element' = [lang |-> element'.lang, dir |-> element'.dir,
                       requested |-> element'.requested, source |-> element'.source]
    BY <2>3, <2>4 DEF ContextInv, ElementHonest
  <2>6. ElementHonest'
    BY <2>5 DEF ElementHonest
  <2>7. ContextAgrees'
    BY <2>3, <2>4, <2>5 DEF ContextAgrees
  <2>8. QED
    BY <2>1, <2>4, <2>6, <2>7 DEF ContextInv
<1>3. QED
  BY <1>1, <1>2 DEF InitPage

\* setLocale() decides while nothing is sealed, and does nothing after.
LEMMA SetLocaleContext ==
  ASSUME ContextInv, NEW tag, SetLocale(tag)
  PROVE  ContextInv'
<1>1. CASE UNCHANGED contextVars
  BY <1>1 DEF contextVars, ContextInv, ElementHonest, ContextAgrees
<1>2. CASE ~initialized /\ ~UNCHANGED contextVars
  <2>1. Resolve(tag) \in DOMAIN LocaleData
    BY ResolveKnown
  <2>2. /\ current' = Resolve(tag)
        /\ pageContext' = NewPageContext(tag, Resolve(tag), "user")
        /\ UNCHANGED <<initialized, element>>
    BY <1>2 DEF SetLocale
  <2>3. /\ pageContext' # NoContext
        /\ pageContext'.resolvedTag = Resolve(tag)
        /\ pageContext'.direction = DataFor(Resolve(tag)).direction
    BY <2>1, <2>2, ContextMade
  <2>4. ContextAgrees'
    BY <1>2, <2>2, <2>3 DEF ContextAgrees
  <2>5. QED
    BY <2>1, <2>2, <2>4 DEF ContextInv, ElementHonest
<1>3. QED
  BY <1>1, <1>2 DEF SetLocale

\* context() makes the default locale's only while nothing else is decided.
LEMMA AskContextContext ==
  ASSUME ContextInv, AskContext
  PROVE  ContextInv'
<1>1. UNCHANGED <<current, initialized, element>>
  BY DEF AskContext
<1>2. CASE pageContext # NoContext
  <2>1. UNCHANGED pageContext
    BY <1>2 DEF AskContext
  <2>2. QED
    BY <1>1, <2>1 DEF ContextInv, ElementHonest, ContextAgrees
<1>3. CASE pageContext = NoContext
  <2>1. DEFAULT_TAG \in DOMAIN LocaleData
    BY LocalesAssumption
  <2>2. current = DEFAULT_TAG /\ ~initialized
    BY <1>3 DEF ContextInv, ContextAgrees
  <2>3. pageContext' = NewPageContext(DEFAULT_TAG, DEFAULT_TAG, "default")
    BY <1>3 DEF AskContext
  <2>4. /\ pageContext' # NoContext
        /\ pageContext'.resolvedTag = DEFAULT_TAG
        /\ pageContext'.direction = DataFor(DEFAULT_TAG).direction
    BY <2>1, <2>3, ContextMade
  <2>5. ContextAgrees'
    BY <1>1, <2>2, <2>4 DEF ContextAgrees
  <2>6. QED
    BY <1>1, <2>5 DEF ContextInv, ElementHonest
<1>4. QED
  BY <1>2, <1>3
=============================================================================
