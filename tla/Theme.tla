-------------------------------- MODULE Theme --------------------------------
(***************************************************************************)
(* The theme of the frontend (ThemeContext, ThemeSwitcher) in the tabs of  *)
(* one browser.  The tabs share localStorage and the colour scheme the     *)
(* device prefers; a tab applies its state to storage and to the class of  *)
(* its body in an effect, which React runs after the render.               *)
(***************************************************************************)
EXTENDS Integers

CONSTANTS Tabs, NotSet

ASSUME ThemeAssumption == NotSet \notin BOOLEAN

VARIABLES isDarkTheme, \* the state of each tab, NotSet while it is closed
          dirty,       \* the tabs whose effect is still to run
          light,       \* the tabs whose body has the class 'light'
          stored,      \* REACT_APP_IS_DARK_THEME in localStorage, or NotSet
          listening,   \* the tabs that listen to the media queries
          prefers,     \* the scheme the device prefers
          applied      \* the theme some tab applied last, or NotSet

themeVars == <<isDarkTheme, dirty, light, stored, listening, prefers, applied>>

Schemes == {"light", "dark", "none"}

ThemeInit ==
  /\ isDarkTheme = [t \in Tabs |-> NotSet]
  /\ dirty = {}
  /\ light = {}
  /\ stored = NotSet
  /\ listening = {}
  /\ prefers = "none"
  /\ applied = NotSet

Open(t) == isDarkTheme[t] # NotSet

\* The slip of testing the stored value instead of its presence.
Initial_truthy == IF stored = TRUE THEN TRUE ELSE prefers # "light"

\* What useState starts from: what is stored, or else what the device prefers.
Initial == IF stored # NotSet THEN stored ELSE prefers # "light"

\* A page is loaded in tab t, or loaded again; the body starts with no class.
Load(t) ==
  /\ isDarkTheme' = [isDarkTheme EXCEPT ![t] = Initial]
  /\ dirty' = dirty \union {t}
  /\ light' = light \ {t}
  /\ listening' = listening \ {t}
  /\ UNCHANGED <<stored, prefers, applied>>

\* The effect on isDarkTheme and, after a load, the one that adds the listeners.
Reflect(t) ==
  /\ t \in dirty
  /\ dirty' = dirty \ {t}
  /\ stored' = isDarkTheme[t]
  /\ applied' = isDarkTheme[t]
  /\ light' = IF isDarkTheme[t] THEN light \ {t} ELSE light \union {t}
  /\ listening' = listening \union {t}
  /\ UNCHANGED <<isDarkTheme, prefers>>

\* The switch; a pending effect runs before the next event is handled.
Switch(t) ==
  /\ Open(t) /\ t \notin dirty
  /\ isDarkTheme' = [isDarkTheme EXCEPT ![t] = ~@]
  /\ dirty' = dirty \union {t}
  /\ UNCHANGED <<light, stored, listening, prefers, applied>>

\* The device comes to prefer another scheme: in every tab that listens, the
\* callback of the scheme that matches now sets the state.  A tab that has just
\* been loaded, and has yet to run its effects, misses the change.
Prefer(scheme) ==
  /\ scheme # prefers /\ dirty \intersect listening = {}
  /\ prefers' = scheme
  /\ LET new == [t \in Tabs |-> IF t \in listening /\ scheme # "none"
                                  THEN scheme = "dark" ELSE isDarkTheme[t]]
     IN  /\ isDarkTheme' = new
         /\ dirty' = dirty \union {t \in Tabs : new[t] # isDarkTheme[t]}
  /\ UNCHANGED <<light, stored, listening, applied>>

Close(t) ==
  /\ Open(t)
  /\ isDarkTheme' = [isDarkTheme EXCEPT ![t] = NotSet]
  /\ dirty' = dirty \ {t}
  /\ light' = light \ {t}
  /\ listening' = listening \ {t}
  /\ UNCHANGED <<stored, prefers, applied>>

ThemeNext ==
  \/ \E t \in Tabs : Load(t) \/ Reflect(t) \/ Switch(t) \/ Close(t)
  \/ \E scheme \in Schemes : Prefer(scheme)

ThemeSpec == ThemeInit /\ [][ThemeNext]_themeVars

-----------------------------------------------------------------------------
(* "First check if user has already set theme" (ThemeContext.tsx:27): once *)
(* any tab has applied a theme, a page loaded afterwards, in whichever tab *)
(* and whatever the device prefers by then, starts with the theme applied  *)
(* last, and a tab whose effect has run shows the theme it holds.          *)
ThemeSurvives ==
  /\ \A t \in Tabs : Open(t) /\ t \notin dirty => (t \in light <=> ~isDarkTheme[t])
  /\ applied # NotSet => Initial = applied
=============================================================================
