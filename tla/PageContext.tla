---------------------------- MODULE PageContext ----------------------------
(* The decision about a page's language, as the kernel keeps it            *)
(* (yuruna.i18n.js: init(), setLocale(), context() and the variables they  *)
(* share).  The server decides and writes the decision into <html>; the    *)
(* first init() seals it for the life of the page.                         *)
EXTENDS Locales

VARIABLES
  current,      \* the locale messages are rendered in
  initialized,  \* init() has run
  pageContext,  \* the frozen context, or NoContext
  element       \* the attributes of <html>; "" is an absent one

contextVars == <<current, initialized, pageContext, element>>

NoContext ==
  [requestedTag |-> "", resolvedTag |-> "", direction |-> "", source |-> ""]

ValidSource(source) == source \in {"config", "user", "http", "process", "default"}

\* Mutant: any source is taken at its word.
NewPageContextAsGiven(requested, resolved, source) ==
  [requestedTag |-> requested, resolvedTag |-> resolved,
   direction |-> DataFor(resolved).direction, source |-> source]

NewPageContext(requested, resolved, source) ==
  [requestedTag |-> IF requested = "" THEN resolved ELSE requested,
   resolvedTag  |-> resolved,
   direction    |-> DataFor(resolved).direction,
   source       |-> IF ValidSource(source) THEN source ELSE "default"]

\* What the server may write: a direction, when there is one, is that of the
\* locale the page's language resolves to.
ElementsOf(langs, tags, sources) ==
  {e \in [lang: langs, dir: {"", "ltr", "rtl"}, requested: tags, source: sources] :
     e.dir \in {"", DataFor(Resolve(e.lang)).direction}}

ContextInit(elements) ==
  /\ current = DEFAULT_TAG
  /\ initialized = FALSE
  /\ pageContext = NoContext
  /\ element \in elements

\* YurunaI18n.init(document, decision): a part of the decision that is not
\* given is read from <html>.
InitPage(decision) ==
  LET resolved  == Resolve(element.lang)
      attribute == IF element.requested # "" THEN element.requested ELSE element.lang
      requested == IF decision.requested # "" THEN decision.requested ELSE attribute
      source    == IF decision.source # "" THEN decision.source ELSE element.source
      context   == NewPageContext(requested, resolved, source)
  IN  \/ /\ ~initialized
         /\ current' = resolved
         /\ initialized' = TRUE
         /\ pageContext' = context
         /\ element' = IF element.dir = ""
                       THEN [element EXCEPT !.dir = context.direction]
                       ELSE element
      \/ /\ initialized
         /\ UNCHANGED contextVars

\* Mutant: the context of the earlier decision stays.
SetLocaleOnly(tag) ==
  /\ current' = IF initialized THEN current ELSE Resolve(tag)
  /\ UNCHANGED <<initialized, pageContext, element>>

\* Mutant: the decision is not sealed.
SetLocaleAlways(tag) ==
  /\ current' = Resolve(tag)
  /\ pageContext' = NewPageContext(tag, Resolve(tag), "user")
  /\ UNCHANGED <<initialized, element>>

\* YurunaI18n.setLocale(tag): only before the decision is sealed.
SetLocale(tag) ==
  \/ /\ ~initialized
     /\ current' = Resolve(tag)
     /\ pageContext' = NewPageContext(tag, Resolve(tag), "user")
     /\ UNCHANGED <<initialized, element>>
  \/ /\ initialized
     /\ UNCHANGED contextVars

\* YurunaI18n.context(): made on first use, for the default locale.
AskContext ==
  /\ pageContext' = IF pageContext = NoContext
                    THEN NewPageContext(DEFAULT_TAG, DEFAULT_TAG, "default")
                    ELSE pageContext
  /\ UNCHANGED <<current, initialized, element>>

-----------------------------------------------------------------------------
\* The context a script is handed, the locale messages are rendered in and,
\* once the decision is sealed, the language and direction the document
\* announces are one and the same decision, whatever was called before.
ContextAgrees ==
  /\ IF pageContext = NoContext
     THEN current = DEFAULT_TAG
     ELSE /\ pageContext.resolvedTag = current
          /\ pageContext.direction = DataFor(current).direction
  /\ initialized =>
       /\ pageContext # NoContext
       /\ current = Resolve(element.lang)
       /\ element.dir = pageContext.direction

\* After init() no call switches the page to another language: the locale,
\* the context and the attributes of <html> never change again.
Sealed == [][initialized => UNCHANGED contextVars]_contextVars
=============================================================================
