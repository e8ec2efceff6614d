------------------------------ MODULE MCBrowser ------------------------------
(***************************************************************************)
(* What lives beside the screens: the cache of the client, the way in, the *)
(* cached keys of the server.  A behaviour is one of one part.             *)
(***************************************************************************)
EXTENDS ClientCache, ClientHooks, Entry, KeyCache

\* The mutation hooks of use-*.ts invalidate what their endpoint changes of the
\* screens that issue them, but for what Forgotten lists.
ASSUME HooksInvalidateScreens ==
  \A h \in HookMutation : (ScreenOf[h] \cap HookAffects[h]) \ HookInvalidates[h] = Forgotten[h]

\* Of a mutation the cache of a query sees the effect: queries with the same
\* effects behave alike, and those with fewer are included.
EffectsOn(q) ==
  {<<q \in HookAffects[h], q \in HookInvalidates[h],
     q \in (ScreenOf[h] \cap HookAffects[h]) \ Forgotten[h]>> : h \in HookMutation}

Representative(q) ==
  \A p \in HookQuery :
    EffectsOn(q) \subseteq EffectsOn(p) =>
      /\ EffectsOn(p) = EffectsOn(q)
      /\ q = CHOOSE r \in HookQuery : EffectsOn(r) = EffectsOn(q)

VARIABLE part

BrowserInit ==
  /\ part \in {"cache", "entry", "keys"}
  /\ Init /\ Representative(query)
  /\ part # "cache" => query = CHOOSE q \in HookQuery : Representative(q)
  /\ EntryInit /\ KeyInit

\* The tabs are alike: only in one does the user enter addresses of the public pages.
FirstTab == CHOOSE t \in Tab : TRUE
PublicInFirstTab == \A t \in Tab \ {FirstTab}, a \in PublicRoutes : ~Visit(t, a)

BrowserNext ==
  /\ UNCHANGED part
  /\ \/ part = "cache" /\ Next /\ UNCHANGED <<entry_vars, key_vars>>
     \/ part = "entry" /\ EntryNext /\ PublicInFirstTab /\ UNCHANGED <<vars, key_vars>>
     \/ part = "keys" /\ KeyNext /\ UNCHANGED <<vars, entry_vars>>

\* The fairness of the parts.
BrowserSpec ==
  /\ BrowserInit
  /\ [][BrowserNext]_<<part, vars, entry_vars, key_vars>>
  /\ AnswersArrive /\ RedirectsFollowed
=============================================================================
