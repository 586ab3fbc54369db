---------------------------- MODULE ShellProofs ----------------------------
(***************************************************************************)
(* Theorems about Shell: the window shows what is stored, and the lock is  *)
(* no dead end once a prompt has come and opens for a success only, for    *)
(* every set of languages, translated or not, switches and text sizes and  *)
(* however many prompts and queued results.                                *)
(*                                                                         *)
(* The variables fall into two halves that share only "running"; a step    *)
(* that leaves a half alone keeps that half of the invariant.              *)
(***************************************************************************)
EXTENDS Shell, TLAPS

Prompt == [up : BOOLEAN, given : {0, 1}]
Callback == [of : 1 .. MaxPrompts, code : {"success", "error", "cancel"}]

SettingsOK ==
    /\ {DOMAIN stored, DOMAIN shown} = {Keys}
    /\ stored.theme \in Themes /\ stored.language \in Codes /\ stored.scale \in 8 .. 20
    /\ \A key \in Switches \cup {"lock"} : stored[key] \in BOOLEAN
    /\ {enrolled, systemDark, running, dark, mirrored} \subseteq BOOLEAN
    /\ scheme \in {"unknown", "dark", "light"}
    /\ language \in Translated \cup {"source"}
    /\ WindowFollowsStore

LockOK ==
    /\ running \in BOOLEAN
    /\ {overlay, tryAgain, timer} \subseteq BOOLEAN
    /\ prompts \in Seq(Prompt)
    /\ callbacks \in Seq(Callback)
    /\ results \in Seq(BOOLEAN)
    /\ NeverStranded
    /\ PromptsAgree

\* The invariant in two parts, one for each half of the variables.
LEMMA Halves == IInv <=> SettingsOK /\ LockOK
  BY DEF IInv, TypeOK, SettingsOK, LockOK, Prompt, Callback

settingsVars == <<stored, outside, running, looks>>
lockVars == <<running, lock, queues>>

\* A step that changes no setting and nothing shown keeps the first part.
LEMMA SettingsLeftAlone == SettingsOK /\ UNCHANGED settingsVars => SettingsOK'
  BY DEF SettingsOK, WindowFollowsStore, settingsVars, outside, looks, tongue

\* A step that leaves the lock and its queues alone keeps the second.
LEMMA LockLeftAlone == LockOK /\ UNCHANGED lockVars => LockOK'
  BY DEF LockOK, NeverStranded, NoPromptCame, PromptsAgree, lockVars, lock, queues

-----------------------------------------------------------------------------
(* The settings.                                                           *)

\* The defaults are values the store may have.
LEMMA DefaultsOK ==
    /\ DOMAIN Defaults = Keys
    /\ Defaults.theme \in Themes /\ Defaults.language \in Codes /\ Defaults.scale \in 8 .. 20
    /\ \A key \in Switches \cup {"lock"} : Defaults[key] \in BOOLEAN
<1>1. DOMAIN Defaults = Keys /\ \A key \in Keys : Defaults[key] = Default(key)
  BY DEF Defaults
<1>2. {"theme", "language", "scale", "lock"} \cup Switches \subseteq Keys
  BY DEF Keys
<1>3. Default("theme") = "system" /\ Default("language") = "system" /\ Default("scale") = 10
  BY DEF Default
<1>4. \A key \in Switches \cup {"lock"} : Default(key) = (key \in OnByDefault)
  BY SwitchesAssumption DEF Default
<1>5. Defaults.theme \in Themes /\ Defaults.language \in Codes
  BY <1>1, <1>2, <1>3 DEF Themes, Codes
<1>6. Defaults.scale \in 8 .. 20
  BY <1>1, <1>2, <1>3
<1>7. \A key \in Switches \cup {"lock"} : Defaults[key] = Default(key)
  BY <1>1, <1>2
<1>8. \A key \in Switches \cup {"lock"} : (key \in OnByDefault) \in BOOLEAN
  OBVIOUS
<1>9. \A key \in Switches \cup {"lock"} : Defaults[key] \in BOOLEAN
  BY <1>4, <1>7, <1>8, Zenon
<1> QED
  BY <1>1, <1>5, <1>6, <1>9

\* What the window says and which way it runs, of the language stored.
Speaks ==
    /\ language \in Translated \cup {"source"} /\ mirrored \in BOOLEAN
    /\ language \in {Resolved(stored.language), "source"}
    /\ language = "source" => Resolved(stored.language) \notin Translated
    /\ mirrored = (Resolved(stored.language) \in RightToLeft)

\* applyLanguage() leaves the window with the words of the language stored, if there
\* are any, whatever it showed before.
LEMMA ApplySpeaks == ApplyLanguage => Speaks'
<1> SUFFICES ASSUME ApplyLanguage PROVE Speaks'
  OBVIOUS
<1> DEFINE lang == Resolved(stored'.language)
<1>1. /\ language' = IF lang \in Translated THEN lang ELSE "source"
      /\ mirrored' = (lang \in RightToLeft)
  BY DEF ApplyLanguage
<1>2. Resolved(stored.language)' = lang
  BY DEF Resolved
<1>3. (lang \in RightToLeft) \in BOOLEAN
  OBVIOUS
<1> HIDE DEF lang
<1>4. mirrored' \in BOOLEAN
  BY <1>1, <1>3, Zenon
<1>5. mirrored' = (Resolved(stored.language)' \in RightToLeft)
  BY <1>1, <1>2, Zenon
<1>6. /\ language' \in Translated \cup {"source"}
      /\ language' \in {lang, "source"}
      /\ language' = "source" => lang \notin Translated
  BY <1>1, LanguagesAssumption
<1> QED
  BY <1>2, <1>4, <1>5, <1>6 DEF Speaks

\* schemeForTheme() gives a colour scheme.
LEMMA SchemeOfTheme ==
    ASSUME NEW theme \in Themes
    PROVE  SchemeFor(theme) \in {"unknown", "dark", "light"}
  BY DEF SchemeFor, Themes

\* darkMode() is true or false.
LEMMA DarkIsBoolean ==
    ASSUME NEW theme, NEW set, NEW system \in BOOLEAN
    PROVE  DarkMode(theme, set, system) \in BOOLEAN
  BY DEF DarkMode

\* One key is stored, and its control reads it: every control shows the store.
LEMMA OneKeyShown ==
    ASSUME NEW key \in Keys, NEW value,
           shown = stored, DOMAIN stored = Keys,
           stored' = [stored EXCEPT ![key] = value], ControlsRead({key})
    PROVE  shown' = stored' /\ DOMAIN stored' = Keys /\ DOMAIN shown' = Keys
  BY DEF ControlsRead

\* The window of a new session starts from the store.
LEMMA LaunchShows == SettingsOK /\ Launch => SettingsOK'
<1> SUFFICES ASSUME SettingsOK, Launch PROVE SettingsOK'
  OBVIOUS
<1>1. UNCHANGED <<stored, enrolled, systemDark>> /\ running' = TRUE /\ shown' = stored
  BY DEF Launch, outside
<1>2. Speaks'
  BY ApplySpeaks DEF Launch
<1>3. scheme' = SchemeFor(stored.theme) /\ dark' = DarkMode(stored.theme, scheme', systemDark)
  BY <1>1 DEF Launch, ThemeSignals
<1>4. scheme' \in {"unknown", "dark", "light"} /\ dark' \in BOOLEAN
  BY <1>3, SchemeOfTheme, DarkIsBoolean DEF SettingsOK
<1> QED
  BY <1>1, <1>2, <1>3, <1>4 DEF SettingsOK, WindowFollowsStore, Speaks

\* A new theme reaches the scheme, the dark mode and the theme box.
LEMMA SetThemeShows == SettingsOK /\ SetTheme => SettingsOK'
<1> SUFFICES ASSUME SettingsOK, SetTheme PROVE SettingsOK'
  OBVIOUS
<1>1. PICK theme \in Themes : stored' = [stored EXCEPT !["theme"] = theme]
  BY DEF SetTheme
<1>2. shown = stored /\ DOMAIN stored = Keys /\ running
  BY DEF SettingsOK, WindowFollowsStore, SetTheme
<1>3. shown' = stored' /\ DOMAIN stored' = Keys /\ DOMAIN shown' = Keys
  BY <1>1, <1>2, OneKeyShown DEF SetTheme, Keys
<1>4. stored'.theme = theme /\ \A key \in Keys \ {"theme"} : stored'[key] = stored[key]
  BY <1>1, <1>2 DEF Keys
<1>5. /\ stored'.language = stored.language /\ stored'.scale = stored.scale
      /\ \A key \in Switches \cup {"lock"} : stored'[key] = stored[key]
  BY <1>4, SwitchesAssumption DEF Keys
<1>6. scheme' = SchemeFor(theme) /\ dark' = DarkMode(theme, scheme', systemDark)
  BY <1>4 DEF SetTheme, ThemeSignals
<1>7. scheme' \in {"unknown", "dark", "light"} /\ dark' \in BOOLEAN
  BY <1>6, SchemeOfTheme, DarkIsBoolean DEF SettingsOK
<1>8. UNCHANGED <<enrolled, systemDark, running, language, mirrored>>
  BY DEF SetTheme, outside, tongue
<1> QED
  BY <1>2, <1>3, <1>4, <1>5, <1>6, <1>7, <1>8 DEF SettingsOK, WindowFollowsStore

\* A new language reaches the translator and the language box.
LEMMA SetLanguageShows == SettingsOK /\ SetLanguage => SettingsOK'
<1> SUFFICES ASSUME SettingsOK, SetLanguage PROVE SettingsOK'
  OBVIOUS
<1>1. PICK code \in Codes : stored' = [stored EXCEPT !["language"] = code]
  BY DEF SetLanguage
<1>2. shown = stored /\ DOMAIN stored = Keys /\ running
  BY DEF SettingsOK, WindowFollowsStore, SetLanguage
<1>3. shown' = stored' /\ DOMAIN stored' = Keys /\ DOMAIN shown' = Keys
  BY <1>1, <1>2, OneKeyShown DEF SetLanguage, Keys
<1>4. stored'.language = code /\ \A key \in Keys \ {"language"} : stored'[key] = stored[key]
  BY <1>1, <1>2 DEF Keys
<1>5. /\ stored'.theme = stored.theme /\ stored'.scale = stored.scale
      /\ \A key \in Switches \cup {"lock"} : stored'[key] = stored[key]
  BY <1>4, SwitchesAssumption DEF Keys
<1>6. Speaks'
  BY ApplySpeaks DEF SetLanguage
<1>7. UNCHANGED <<enrolled, systemDark, running, scheme, dark>>
  BY DEF SetLanguage, outside
<1> QED
  BY <1>2, <1>3, <1>4, <1>5, <1>6, <1>7 DEF SettingsOK, WindowFollowsStore, Speaks

\* A switch, the lock or the text size: nothing but its key changes.
LEMMA OtherKeyShows ==
    ASSUME SettingsOK, running,
           NEW key \in Switches \cup {"lock", "scale"}, NEW value,
           key = "scale" => value \in 8 .. 20,
           key # "scale" => value \in BOOLEAN,
           stored' = [stored EXCEPT ![key] = value], ControlsRead({key}),
           UNCHANGED <<enrolled, systemDark, running, scheme, language, mirrored, dark>>
    PROVE  SettingsOK'
<1>1. key \in Keys /\ key # "theme" /\ key # "language"
  BY SwitchesAssumption DEF Keys
<1>2. shown = stored /\ DOMAIN stored = Keys
  BY DEF SettingsOK, WindowFollowsStore
<1>3. shown' = stored' /\ DOMAIN stored' = Keys /\ DOMAIN shown' = Keys
  BY <1>1, <1>2, OneKeyShown
<1>4. stored'[key] = value /\ \A k \in Keys \ {key} : stored'[k] = stored[k]
  BY <1>1, <1>2
<1>5. stored'.theme = stored.theme /\ stored'.language = stored.language
  BY <1>1, <1>4 DEF Keys
<1>6. stored'.scale \in 8 .. 20
  BY <1>4 DEF Keys, SettingsOK
<1>7. \A k \in Switches \cup {"lock"} : stored'[k] \in BOOLEAN
  BY <1>4, SwitchesAssumption DEF Keys, SettingsOK
<1> QED
  BY <1>2, <1>3, <1>5, <1>6, <1>7 DEF SettingsOK, WindowFollowsStore

\* A switch that is moved shows what it stored.
LEMMA ToggleShows ==
    ASSUME SettingsOK, NEW key \in Switches, Toggle(key)
    PROVE  SettingsOK'
<1> DEFINE value == ~shown[key]
<1>1. value \in BOOLEAN
  OBVIOUS
<1>2. key # "scale" /\ key \in Switches \cup {"lock", "scale"}
  BY SwitchesAssumption
<1>3. /\ stored' = [stored EXCEPT ![key] = value] /\ ControlsRead({key}) /\ running
      /\ UNCHANGED <<enrolled, systemDark, running, scheme, language, mirrored, dark>>
  BY DEF Toggle, outside, tongue
<1> HIDE DEF value
<1> QED
  BY <1>1, <1>2, <1>3, OtherKeyShows

\* A text size is bounded before it is stored.
LEMMA SetFontScaleShows == SettingsOK /\ SetFontScale => SettingsOK'
<1> SUFFICES ASSUME SettingsOK, SetFontScale PROVE SettingsOK'
  OBVIOUS
<1>1. PICK value \in Scales : stored' = [stored EXCEPT !["scale"] = Bounded(value)]
  BY DEF SetFontScale
<1>2. Bounded(value) \in 8 .. 20
  BY ScalesAssumption DEF Bounded
<1> QED
  BY <1>1, <1>2, OtherKeyShows DEF SetFontScale, outside, tongue

\* The lock switch shows what was stored, the refusal too.
LEMMA ToggleLockShows == SettingsOK /\ ToggleLock => SettingsOK'
<1> SUFFICES ASSUME SettingsOK, ToggleLock PROVE SettingsOK'
  OBVIOUS
<1>1. PICK value \in BOOLEAN : stored' = [stored EXCEPT !["lock"] = value] /\ ControlsRead({"lock"})
  <2>1. CASE Refused
    BY <2>1 DEF Refused
  <2>2. CASE stored' = [stored EXCEPT !.lock = ~shown.lock] /\ ControlsRead({"lock"})
    BY <2>2
  <2> QED
    BY <2>1, <2>2 DEF ToggleLock
<1> QED
  BY <1>1, OtherKeyShows DEF ToggleLock, outside, tongue

\* A reset sends a signal for every key, so that every control reads its default.
LEMMA ResetShows == SettingsOK /\ ResetToDefaults => SettingsOK'
<1> SUFFICES ASSUME SettingsOK, ResetToDefaults PROVE SettingsOK'
  OBVIOUS
<1>1. stored' = Defaults /\ running /\ UNCHANGED <<enrolled, systemDark, running>>
  BY DEF ResetToDefaults, outside
<1>2. ResetSignals = Keys
  BY DEF ResetSignals, Keys
<1>3. shown' = stored'
  <2>1. shown' = [key \in Keys |-> stored'[key]]
    BY <1>2 DEF ResetToDefaults, ControlsRead
  <2>2. stored' = [key \in Keys |-> Default(key)]
    BY <1>1 DEF Defaults
  <2> QED
    BY <2>1, <2>2
<1>4. Speaks'
  BY <1>2, ApplySpeaks DEF ResetToDefaults, Keys
<1>5. scheme' = SchemeFor(stored'.theme) /\ dark' = DarkMode(stored'.theme, scheme', systemDark)
  BY DEF ResetToDefaults, ThemeSignals
<1>6. scheme' \in {"unknown", "dark", "light"} /\ dark' \in BOOLEAN
  BY <1>1, <1>5, DefaultsOK, SchemeOfTheme, DarkIsBoolean DEF SettingsOK
<1> QED
  BY <1>1, <1>3, <1>4, <1>5, <1>6, DefaultsOK DEF SettingsOK, WindowFollowsStore, Speaks

\* The platform's scheme matters to a window without a scheme of its own only, and
\* such a window hears of it.
LEMMA ChangeSystemSchemeShows == SettingsOK /\ ChangeSystemScheme => SettingsOK'
<1> SUFFICES ASSUME SettingsOK, ChangeSystemScheme PROVE SettingsOK'
  OBVIOUS
<1>1. UNCHANGED <<stored, enrolled, running, scheme, language, mirrored, shown>>
  BY DEF ChangeSystemScheme, tongue
<1>2. systemDark' \in BOOLEAN
  BY DEF ChangeSystemScheme
<1>3. dark' \in BOOLEAN
  BY <1>2, DarkIsBoolean DEF ChangeSystemScheme, SettingsOK
<1>4. running => dark' = DarkMode(stored.theme, scheme, systemDark')
  <2>1. CASE stored.theme = "system"
    BY <2>1 DEF ChangeSystemScheme, SettingsOK, WindowFollowsStore, SchemeFor
  <2>2. CASE stored.theme # "system"
    BY <2>2 DEF ChangeSystemScheme, SettingsOK, WindowFollowsStore, DarkMode
  <2> QED
    BY <2>1, <2>2
<1> QED
  BY <1>1, <1>2, <1>3, <1>4 DEF SettingsOK, WindowFollowsStore

-----------------------------------------------------------------------------
(* The lock.                                                               *)

\* What a sequence with one more element is.
LEMMA Appended ==
    ASSUME NEW S, NEW s \in Seq(S), NEW e \in S
    PROVE  /\ Append(s, e) \in Seq(S) /\ Len(Append(s, e)) = Len(s) + 1
           /\ DOMAIN Append(s, e) = 1 .. Len(s) + 1
           /\ \A i \in DOMAIN s : i \in DOMAIN Append(s, e) /\ Append(s, e)[i] = s[i]
           /\ Append(s, e)[Len(s) + 1] = e
  OBVIOUS

\* The prompts after one of them has changed.
LEMMA PromptChanged ==
    ASSUME NEW s \in Seq(Prompt), NEW p \in DOMAIN s, NEW e \in Prompt
    PROVE  /\ [s EXCEPT ![p] = e] \in Seq(Prompt)
           /\ DOMAIN [s EXCEPT ![p] = e] = DOMAIN s /\ Len([s EXCEPT ![p] = e]) = Len(s)
           /\ [s EXCEPT ![p] = e][p] = e
           /\ \A q \in DOMAIN s \ {p} : [s EXCEPT ![p] = e][q] = s[q]
  OBVIOUS

\* A window that locks itself waits for its timer.
LEMMA LaunchLocks == LockOK /\ Launch => LockOK'
<1> SUFFICES ASSUME LockOK, Launch PROVE LockOK'
  OBVIOUS
<1>1. UNCHANGED queues /\ running' = TRUE /\ tryAgain' = FALSE /\ ~running
  BY DEF Launch, LockIfNeeded
<1>2. overlay' \in BOOLEAN /\ timer' = overlay'
  BY DEF Launch, LockIfNeeded
<1>3. NeverStranded'
  BY <1>2 DEF NeverStranded
<1> QED
  BY <1>1, <1>2, <1>3 DEF LockOK, PromptsAgree, queues

\* The end of the process takes the lock and its queues with it.
LEMMA QuitUnlocks == LockOK /\ Quit => LockOK'
<1> SUFFICES ASSUME LockOK, Quit PROVE LockOK'
  OBVIOUS
<1>1. running' = FALSE /\ overlay' = FALSE /\ tryAgain' = FALSE /\ timer' = FALSE
  BY DEF Quit
<1>2. prompts' = <<>> /\ callbacks' = <<>> /\ results' = <<>>
  BY DEF Quit
<1>3. NeverStranded' /\ PromptsAgree'
  <2>1. DOMAIN prompts' = {} /\ DOMAIN callbacks' = {}
    BY <1>2
  <2> QED
    BY <1>1, <1>2, <2>1 DEF NeverStranded, PromptsAgree
<1>4. prompts' \in Seq(Prompt) /\ callbacks' \in Seq(Callback) /\ results' \in Seq(BOOLEAN)
  BY <1>2
<1> QED
  BY <1>1, <1>3, <1>4 DEF LockOK

\* A new prompt is on the screen: a locked window waits for it. The one it takes
\* away has a callback queued, like every prompt that has left the screen.
LEMMA PutUpPromptKeeps ==
    ASSUME LockOK, PutUpPrompt, running, timer' = FALSE, UNCHANGED <<running, overlay, tryAgain>>
    PROVE  LockOK'
<1> DEFINE last == Len(prompts)
           fresh == [up |-> TRUE, given |-> 0]
<1>1. last \in Nat /\ last < MaxPrompts /\ results' = results /\ fresh \in Prompt
  <2>1. fresh \in Prompt
    BY DEF Prompt
  <2>2. results' = results /\ last < MaxPrompts
    BY DEF PutUpPrompt
  <2>3. last \in Nat
    BY DEF LockOK
  <2> QED
    BY <2>1, <2>2, <2>3
\* The prompts as the platform leaves them, and one more.
<1>2. ASSUME NEW before \in Seq(Prompt), Len(before) = last,
             \A p \in DOMAIN prompts : /\ before[p].given = prompts[p].given
                                       /\ before[p].up => prompts[p].up,
             prompts' = Append(before, fresh),
             callbacks' \in Seq(Callback),
             \A i \in DOMAIN callbacks' :
                 callbacks'[i].of \in DOMAIN prompts /\ ~before[callbacks'[i].of].up
      PROVE  LockOK'
  <2>1. /\ prompts' \in Seq(Prompt) /\ DOMAIN prompts' = 1 .. last + 1
        /\ \A p \in DOMAIN before : prompts'[p] = before[p]
        /\ prompts'[last + 1] = fresh
    <3> HIDE DEF fresh
    <3> QED
      BY <1>1, <1>2, Appended
  <2>2. DOMAIN prompts = 1 .. last /\ DOMAIN before = 1 .. last
    BY <1>2 DEF LockOK
  <2>3. last + 1 \in DOMAIN prompts' /\ prompts'[last + 1].up /\ prompts'[last + 1].given = 0
    BY <1>1, <2>1
  <2>4. \A p \in DOMAIN prompts : /\ p \in DOMAIN prompts'
                                  /\ prompts'[p].given = prompts[p].given
                                  /\ prompts'[p].up => prompts[p].up
    BY <1>1, <1>2, <2>1, <2>2
  <2>5. \A i \in DOMAIN callbacks' :
            callbacks'[i].of \in DOMAIN prompts' /\ ~prompts'[callbacks'[i].of].up
    BY <1>1, <1>2, <2>1, <2>2
  <2>6. \A p \in DOMAIN prompts' : prompts'[p].up => prompts'[p].given = 0
    <3>1. \A p \in DOMAIN prompts' : p = last + 1 \/ p \in DOMAIN prompts
      BY <1>1, <2>1, <2>2
    <3> HIDE DEF last
    <3> QED
      BY <2>3, <2>4, <3>1 DEF LockOK, PromptsAgree
  <2>7. results' # <<>> => \E p \in DOMAIN prompts' : prompts'[p].given = 1
    BY <1>1, <2>4 DEF LockOK, PromptsAgree
  <2>8. PromptsAgree'
    BY <2>5, <2>6, <2>7 DEF LockOK, PromptsAgree
  <2>9. NeverStranded'
    BY <2>3 DEF NeverStranded
  <2> QED
    BY <1>1, <1>2, <2>1, <2>8, <2>9 DEF LockOK
<1>3. CASE last > 0 /\ prompts[last].up
  <2> DEFINE e == [prompts[last] EXCEPT !.up = FALSE]
             taken == [prompts EXCEPT ![last] = e]
             report == [of |-> last, code |-> "error"]
  <2>1. last \in DOMAIN prompts /\ prompts[last] \in Prompt /\ last \in 1 .. MaxPrompts
    BY <1>1, <1>3, BoundsAssumption DEF LockOK
  <2>2. e \in Prompt /\ ~e.up /\ e.given = prompts[last].given
    BY <2>1 DEF Prompt
  <2>3. prompts' = Append(taken, fresh) /\ callbacks' = Append(callbacks, report)
    BY <1>3 DEF PutUpPrompt, QueueCallback
  <2>4. /\ taken \in Seq(Prompt) /\ Len(taken) = last /\ taken[last] = e
        /\ \A p \in DOMAIN prompts \ {last} : taken[p] = prompts[p]
    <3> HIDE DEF e
    <3> QED
      BY <2>1, <2>2, PromptChanged DEF LockOK
  <2>5. report \in Callback
    BY <2>1 DEF Callback
  <2>6. /\ callbacks' \in Seq(Callback)
        /\ \A i \in DOMAIN callbacks' :
              \/ i \in DOMAIN callbacks /\ callbacks'[i] = callbacks[i]
              \/ callbacks'[i].of = last
    <3>1. report.of = last
      OBVIOUS
    <3> HIDE DEF report
    <3> QED
      BY <2>3, <2>5, <3>1, Appended DEF LockOK
  <2>7. \A p \in DOMAIN prompts : /\ taken[p].given = prompts[p].given
                                  /\ taken[p].up => prompts[p].up
    <3> HIDE DEF e, taken
    <3> QED
      BY <2>2, <2>4
  <2>8. \A i \in DOMAIN callbacks' :
            callbacks'[i].of \in DOMAIN prompts /\ ~taken[callbacks'[i].of].up
    <3> HIDE DEF e, taken
    <3> QED
      BY <2>1, <2>2, <2>4, <2>6, <2>7 DEF LockOK, PromptsAgree
  <2> HIDE DEF taken, fresh, e, report
  <2> QED
    BY <1>2, <2>3, <2>4, <2>6, <2>7, <2>8
<1>4. CASE ~(last > 0 /\ prompts[last].up)
  <2>1. prompts' = Append(prompts, fresh) /\ callbacks' = callbacks
    BY <1>4 DEF PutUpPrompt
  <2> HIDE DEF fresh
  <2> QED
    BY <1>2, <2>1 DEF LockOK, PromptsAgree
<1> QED
  BY <1>3, <1>4

\* Asked for by the timer, a prompt comes, or none does: and it was the first of its
\* session, so that the window is in the one dead end there is.
LEMMA TriggerPromptKeeps == LockOK /\ TriggerPrompt => LockOK'
<1> SUFFICES ASSUME LockOK, TriggerPrompt PROVE LockOK'
  OBVIOUS
<1>1. timer /\ timer' = FALSE /\ UNCHANGED <<running, overlay, tryAgain>>
  BY DEF TriggerPrompt
<1>2. running /\ prompts = <<>>
  BY <1>1 DEF LockOK, PromptsAgree
<1>3. CASE PutUpPrompt
  BY <1>1, <1>2, <1>3, PutUpPromptKeeps
<1>4. CASE UNCHANGED queues
  BY <1>1, <1>2, <1>4 DEF LockOK, NeverStranded, NoPromptCame, PromptsAgree, queues
<1> QED
  BY <1>3, <1>4 DEF TriggerPrompt, Authenticate

\* Asked for by a press, a prompt comes, or none does and Try again is still there.
LEMMA ClickTryAgainKeeps == LockOK /\ ClickTryAgain => LockOK'
<1> SUFFICES ASSUME LockOK, ClickTryAgain PROVE LockOK'
  OBVIOUS
<1>1. overlay /\ tryAgain /\ UNCHANGED <<running, overlay, tryAgain, timer>>
  BY DEF ClickTryAgain, lock
<1>2. running /\ timer = FALSE
  BY <1>1 DEF LockOK, PromptsAgree
<1>3. CASE PutUpPrompt
  BY <1>1, <1>2, <1>3, PutUpPromptKeeps
<1>4. CASE UNCHANGED queues
  BY <1>1, <1>4, LockLeftAlone DEF lockVars, lock
<1> QED
  BY <1>3, <1>4 DEF ClickTryAgain, Authenticate

\* A prompt that leaves the screen has given nothing yet, and its callback is queued.
LEMMA AnswerPromptKeeps ==
    ASSUME LockOK, NEW p \in 1 .. MaxPrompts, AnswerPrompt(p)
    PROVE  LockOK'
<1>1. PICK code \in {"success", "error", "cancel"} :
          callbacks' = Append(callbacks, [of |-> p, code |-> code])
  BY DEF AnswerPrompt, QueueCallback
<1>2. p \in DOMAIN prompts /\ prompts[p].up /\ prompts[p] \in Prompt /\ prompts[p].given = 0
  BY DEF AnswerPrompt, LockOK, PromptsAgree
<1>3. prompts' = [prompts EXCEPT ![p].up = FALSE] /\ results' = results
  BY DEF AnswerPrompt
<1>4. UNCHANGED <<running, overlay, tryAgain, timer>>
  BY DEF AnswerPrompt, lock
<1>5. /\ prompts' \in Seq(Prompt) /\ DOMAIN prompts' = DOMAIN prompts
      /\ ~prompts'[p].up /\ prompts'[p].given = 0
      /\ \A q \in DOMAIN prompts \ {p} : prompts'[q] = prompts[q]
  <2> DEFINE e == [prompts[p] EXCEPT !.up = FALSE]
  <2>1. e \in Prompt /\ ~e.up /\ e.given = 0
    BY <1>2 DEF Prompt
  <2>2. prompts' = [prompts EXCEPT ![p] = e]
    BY <1>3
  <2> HIDE DEF e
  <2> QED
    BY <1>2, <2>1, <2>2, PromptChanged DEF LockOK
<1>6. /\ callbacks' \in Seq(Callback) /\ Len(callbacks') = Len(callbacks) + 1
      /\ \A i \in 1 .. Len(callbacks) : callbacks'[i] = callbacks[i]
      /\ callbacks'[Len(callbacks) + 1].of = p
  BY <1>1 DEF LockOK, Callback
<1>7. \A i \in DOMAIN callbacks' :
          callbacks'[i].of \in DOMAIN prompts' /\ ~prompts'[callbacks'[i].of].up
  <2>1. \A i \in DOMAIN callbacks' : i \in DOMAIN callbacks \/ i = Len(callbacks) + 1
    BY <1>6 DEF LockOK
  <2>2. \A i \in DOMAIN callbacks : callbacks'[i] = callbacks[i]
    BY <1>6 DEF LockOK
  <2>3. \A q \in DOMAIN prompts : ~prompts[q].up => ~prompts'[q].up
    BY <1>2, <1>5
  <2> QED
    BY <1>2, <1>5, <1>6, <2>1, <2>2, <2>3 DEF LockOK, PromptsAgree
<1>8. PromptsAgree'
  <2>1. \A q \in DOMAIN prompts' : prompts'[q].up => prompts'[q].given = 0
    BY <1>5 DEF LockOK, PromptsAgree
  <2>2. results # <<>> => \E q \in DOMAIN prompts' : prompts'[q].given = 1
    <3>1. results # <<>> => \E q \in DOMAIN prompts : prompts[q].given = 1
      BY DEF LockOK, PromptsAgree
    <3>2. ASSUME NEW q \in DOMAIN prompts, prompts[q].given = 1
          PROVE  q \in DOMAIN prompts' /\ prompts'[q].given = 1
      <4>1. q # p
        BY <1>2, <3>2
      <4> QED
        BY <1>5, <3>2, <4>1, Zenon
    <3> QED
      BY <3>1, <3>2, Zenon
  <2> QED
    BY <1>3, <1>4, <1>7, <2>1, <2>2 DEF LockOK, PromptsAgree
<1>9. NeverStranded'
  <2>1. p \in DOMAIN prompts' /\ Len(callbacks) + 1 \in DOMAIN callbacks'
    BY <1>2, <1>5, <1>6 DEF LockOK
  <2> QED
    BY <1>5, <1>6, <2>1 DEF NeverStranded
<1> QED
  BY <1>3, <1>4, <1>5, <1>6, <1>8, <1>9 DEF LockOK

\* One more report of a prompt adds to the queue and changes nothing else.
LEMMA ReportAgainKeeps ==
    ASSUME LockOK, NEW p \in 1 .. MaxPrompts, ReportAgain(p)
    PROVE  LockOK'
<1>1. p \in DOMAIN prompts /\ ~prompts[p].up
  BY DEF ReportAgain
<1>2. UNCHANGED <<running, overlay, tryAgain, timer, prompts, results>>
  BY DEF ReportAgain, lock
<1>3. /\ callbacks' \in Seq(Callback) /\ Len(callbacks') = Len(callbacks) + 1
      /\ \A i \in 1 .. Len(callbacks) : callbacks'[i] = callbacks[i]
      /\ callbacks'[Len(callbacks) + 1].of = p
  BY DEF LockOK, Callback, ReportAgain
<1>4. PromptsAgree'
  <2>1. \A i \in DOMAIN callbacks' :
            callbacks'[i].of \in DOMAIN prompts /\ ~prompts[callbacks'[i].of].up
    <3>1. \A i \in DOMAIN callbacks' : i \in 1 .. Len(callbacks) \/ i = Len(callbacks) + 1
      BY <1>3 DEF LockOK
    <3>2. \A i \in 1 .. Len(callbacks) :
              callbacks[i].of \in DOMAIN prompts /\ ~prompts[callbacks[i].of].up
      BY DEF LockOK, PromptsAgree
    <3> QED
      BY <1>1, <1>3, <3>1, <3>2
  <2> QED
    BY <1>2, <2>1 DEF LockOK, PromptsAgree
<1>5. NeverStranded'
  <2>1. \A i \in DOMAIN callbacks : i \in DOMAIN callbacks' /\ callbacks'[i] = callbacks[i]
    BY <1>3 DEF LockOK
  <2> QED
    BY <1>2, <2>1 DEF LockOK, NeverStranded, NoPromptCame
<1> QED
  BY <1>2, <1>3, <1>4, <1>5 DEF LockOK

\* The first callback of a prompt becomes a result; a later one is dropped, and
\* was not what anybody waited for.
LEMMA RunCallbackKeeps == LockOK /\ RunCallback => LockOK'
<1> SUFFICES ASSUME LockOK, RunCallback PROVE LockOK'
  OBVIOUS
<1> DEFINE c == Head(callbacks)
<1>1. /\ callbacks # <<>> /\ callbacks' = Tail(callbacks)
      /\ UNCHANGED <<running, overlay, tryAgain, timer>>
  BY DEF RunCallback, lock
<1>2. /\ 1 \in DOMAIN callbacks /\ c = callbacks[1] /\ c \in Callback
      /\ callbacks' \in Seq(Callback) /\ Len(callbacks') = Len(callbacks) - 1
      /\ \A i \in 1 .. Len(callbacks') : callbacks'[i] = callbacks[i + 1]
  BY <1>1 DEF LockOK
<1>3. c.of \in DOMAIN prompts /\ ~prompts[c.of].up /\ prompts[c.of] \in Prompt
  BY <1>2 DEF LockOK, PromptsAgree
<1>4. \A i \in DOMAIN callbacks' :
          callbacks'[i].of \in DOMAIN prompts /\ ~prompts[callbacks'[i].of].up
  <2>1. \A i \in DOMAIN callbacks' : i + 1 \in DOMAIN callbacks /\ callbacks'[i] = callbacks[i + 1]
    BY <1>2 DEF LockOK
  <2> HIDE DEF c
  <2> QED
    BY <2>1 DEF LockOK, PromptsAgree
<1>5. CASE First(c.of)
  <2>1. /\ prompts' = [prompts EXCEPT ![c.of].given = @ + 1]
        /\ results' = Append(results, c.code = "success") /\ prompts[c.of].given = 0
    BY <1>5 DEF RunCallback, First
  <2>2. /\ prompts' \in Seq(Prompt) /\ DOMAIN prompts' = DOMAIN prompts
        /\ ~prompts'[c.of].up /\ prompts'[c.of].given = 1
        /\ \A q \in DOMAIN prompts \ {c.of} : prompts'[q] = prompts[q]
    <3> DEFINE e == [prompts[c.of] EXCEPT !.given = @ + 1]
    <3>1. e \in Prompt /\ ~e.up /\ e.given = 1
      BY <1>3, <2>1 DEF Prompt
    <3>2. prompts' = [prompts EXCEPT ![c.of] = e]
      BY <2>1
    <3> HIDE DEF e, c
    <3> QED
      BY <1>3, <3>1, <3>2, PromptChanged DEF LockOK
  <2>3. results' \in Seq(BOOLEAN) /\ results' # <<>>
    <3> DEFINE success == (c.code = "success")
    <3>1. success \in BOOLEAN
      OBVIOUS
    <3>2. results' = Append(results, success)
      BY <2>1
    <3> HIDE DEF success
    <3> QED
      BY <3>1, <3>2 DEF LockOK
  <2>4. PromptsAgree'
    <3>1. \A i \in DOMAIN callbacks' :
              callbacks'[i].of \in DOMAIN prompts' /\ ~prompts'[callbacks'[i].of].up
      BY <1>4, <2>2
    <3>2. \A q \in DOMAIN prompts' : prompts'[q].up => prompts'[q].given = 0
      BY <2>2 DEF LockOK, PromptsAgree
    <3>3. \E q \in DOMAIN prompts' : prompts'[q].given = 1
      BY <1>3, <2>2
    <3> QED
      BY <1>1, <3>1, <3>2, <3>3 DEF LockOK, PromptsAgree
  <2> QED
    BY <1>1, <1>2, <2>2, <2>3, <2>4 DEF LockOK, NeverStranded
<1>6. CASE ~First(c.of)
  <2>1. prompts' = prompts /\ results' = results /\ prompts[c.of].given # 0
    BY <1>6 DEF RunCallback, First
  <2>2. PromptsAgree'
    BY <1>1, <1>4, <2>1 DEF LockOK, PromptsAgree
  <2>3. \A p \in DOMAIN prompts :
            (prompts[p].given = 0 /\ \E i \in DOMAIN callbacks : callbacks[i].of = p)
              => \E i \in DOMAIN callbacks' : callbacks'[i].of = p
    <3> SUFFICES ASSUME NEW p \in DOMAIN prompts, prompts[p].given = 0,
                        NEW i \in DOMAIN callbacks, callbacks[i].of = p
                 PROVE  \E j \in DOMAIN callbacks' : callbacks'[j].of = p
      OBVIOUS
    <3>1. i # 1 /\ i \in 1 .. Len(callbacks)
      BY <1>2, <2>1 DEF LockOK
    <3>2. i - 1 \in DOMAIN callbacks' /\ callbacks'[i - 1] = callbacks[i]
      BY <1>2, <3>1 DEF LockOK
    <3> QED
      BY <3>2
  <2>4. NeverStranded'
    BY <1>1, <2>1, <2>3 DEF LockOK, NeverStranded, NoPromptCame
  <2> QED
    BY <1>1, <1>2, <2>1, <2>2, <2>4 DEF LockOK
<1> QED
  BY <1>5, <1>6

\* A result opens the window or offers to try again.
LEMMA HandleResultKeeps == LockOK /\ HandleResult => LockOK'
<1> SUFFICES ASSUME LockOK, HandleResult PROVE LockOK'
  OBVIOUS
<1>1. results # <<>> /\ results' = Tail(results) /\ Head(results) \in BOOLEAN
  BY DEF HandleResult, LockOK
<1>2. UNCHANGED <<running, prompts, callbacks>>
  BY DEF HandleResult
<1>3. results' \in Seq(BOOLEAN)
  BY <1>1 DEF LockOK
<1>4. CASE Head(results)
  <2>1. timer' = FALSE /\ overlay' = FALSE /\ tryAgain' = FALSE
    BY <1>4 DEF HandleResult, OnBiometricAuthenticated
  <2> QED
    BY <1>1, <1>2, <1>3, <2>1 DEF LockOK, NeverStranded, PromptsAgree
<1>5. CASE ~Head(results)
  <2>1. timer' = FALSE /\ overlay' = overlay /\ tryAgain' = TRUE
    BY <1>5 DEF HandleResult, OnBiometricAuthenticated, LockOK
  <2> QED
    BY <1>1, <1>2, <1>3, <2>1 DEF LockOK, NeverStranded, PromptsAgree
<1> QED
  BY <1>4, <1>5

-----------------------------------------------------------------------------
(* Every step.                                                             *)

\* The invariant holds of a new installation.
LEMMA InitHolds == Init => IInv
<1> SUFFICES ASSUME Init PROVE SettingsOK /\ LockOK
  BY Halves
<1>1. SettingsOK
  <2>1. stored = Defaults /\ shown = Defaults /\ running = FALSE /\ dark = FALSE
    BY DEF Init
  <2>2. /\ scheme = "unknown" /\ language = "source" /\ mirrored = FALSE
        /\ {enrolled, systemDark} \subseteq BOOLEAN
    BY DEF Init
  <2> QED
    BY <2>1, <2>2, DefaultsOK DEF SettingsOK, WindowFollowsStore
<1>2. LockOK
  <2>1. prompts = <<>> /\ callbacks = <<>> /\ results = <<>>
    BY DEF Init, NoPrompts
  <2>2. overlay = FALSE /\ tryAgain = FALSE /\ timer = FALSE /\ running = FALSE
    BY DEF Init, Unlocked
  <2>3. DOMAIN prompts = {} /\ DOMAIN callbacks = {}
    BY <2>1
  <2>4. prompts \in Seq(Prompt) /\ callbacks \in Seq(Callback) /\ results \in Seq(BOOLEAN)
    BY <2>1
  <2>5. NeverStranded /\ PromptsAgree
    BY <2>1, <2>2, <2>3 DEF NeverStranded, PromptsAgree
  <2> QED
    BY <2>2, <2>4, <2>5 DEF LockOK
<1> QED
  BY <1>1, <1>2

\* Every step keeps the invariant.
LEMMA StepHolds == IInv /\ [Next]_vars => IInv'
<1> SUFFICES ASSUME SettingsOK, LockOK, [Next]_vars PROVE SettingsOK' /\ LockOK'
  BY DEF IInv, TypeOK, SettingsOK, LockOK, Prompt, Callback
<1>1. CASE Launch
  BY <1>1, LaunchShows, LaunchLocks
<1>2. CASE Quit
  <2>1. enrolled' = enrolled /\ systemDark' = systemDark /\ running' = FALSE
    BY <1>2 DEF Quit, outside
  <2>2. SettingsOK'
    BY <1>2, <2>1 DEF Quit, SettingsOK, WindowFollowsStore, looks, tongue
  <2> QED
    BY <1>2, <2>2, QuitUnlocks
<1>3. CASE SetTheme
  <2>1. UNCHANGED lockVars
    BY <1>3 DEF SetTheme, lockVars
  <2> QED
    BY <1>3, <2>1, SetThemeShows, LockLeftAlone
<1>4. CASE SetLanguage
  <2>1. UNCHANGED lockVars
    BY <1>4 DEF SetLanguage, lockVars
  <2> QED
    BY <1>4, <2>1, SetLanguageShows, LockLeftAlone
<1>5. ASSUME NEW key \in Switches, Toggle(key) PROVE SettingsOK' /\ LockOK'
  <2>1. UNCHANGED lockVars
    BY <1>5 DEF Toggle, lockVars
  <2> QED
    BY <1>5, <2>1, ToggleShows, LockLeftAlone
<1>6. CASE SetFontScale
  <2>1. UNCHANGED lockVars
    BY <1>6 DEF SetFontScale, lockVars
  <2> QED
    BY <1>6, <2>1, SetFontScaleShows, LockLeftAlone
<1>7. CASE ToggleLock
  <2>1. UNCHANGED lockVars
    BY <1>7 DEF ToggleLock, lockVars
  <2> QED
    BY <1>7, <2>1, ToggleLockShows, LockLeftAlone
<1>8. CASE ResetToDefaults
  <2>1. UNCHANGED lockVars
    BY <1>8 DEF ResetToDefaults, lockVars
  <2> QED
    BY <1>8, <2>1, ResetShows, LockLeftAlone
<1>9. CASE ChangeSystemScheme
  <2>1. UNCHANGED lockVars
    BY <1>9 DEF ChangeSystemScheme, lockVars
  <2> QED
    BY <1>9, <2>1, ChangeSystemSchemeShows, LockLeftAlone
<1>10. CASE ChangeEnrolment
  <2>1. UNCHANGED lockVars
    BY <1>10 DEF ChangeEnrolment, lockVars
  <2>2. enrolled' \in BOOLEAN /\ UNCHANGED <<stored, systemDark, running, looks>>
    BY <1>10 DEF ChangeEnrolment
  <2>3. SettingsOK'
    BY <2>2 DEF SettingsOK, WindowFollowsStore, looks, tongue
  <2> QED
    BY <2>1, <2>3, LockLeftAlone
<1>11. CASE TriggerPrompt
  <2>1. UNCHANGED settingsVars
    BY <1>11 DEF TriggerPrompt, settingsVars
  <2> QED
    BY <1>11, <2>1, TriggerPromptKeeps, SettingsLeftAlone
<1>12. CASE ClickTryAgain
  <2>1. UNCHANGED settingsVars
    BY <1>12 DEF ClickTryAgain, settingsVars
  <2> QED
    BY <1>12, <2>1, ClickTryAgainKeeps, SettingsLeftAlone
<1>13. CASE RunCallback
  <2>1. UNCHANGED settingsVars
    BY <1>13 DEF RunCallback, settingsVars
  <2> QED
    BY <1>13, <2>1, RunCallbackKeeps, SettingsLeftAlone
<1>14. CASE HandleResult
  <2>1. UNCHANGED settingsVars
    BY <1>14 DEF HandleResult, settingsVars
  <2> QED
    BY <1>14, <2>1, HandleResultKeeps, SettingsLeftAlone
<1>15. ASSUME NEW p \in 1 .. MaxPrompts, AnswerPrompt(p) PROVE SettingsOK' /\ LockOK'
  <2>1. UNCHANGED settingsVars
    BY <1>15 DEF AnswerPrompt, settingsVars
  <2> QED
    BY <1>15, <2>1, AnswerPromptKeeps, SettingsLeftAlone
<1>16. ASSUME NEW p \in 1 .. MaxPrompts, ReportAgain(p) PROVE SettingsOK' /\ LockOK'
  <2>1. UNCHANGED settingsVars
    BY <1>16 DEF ReportAgain, settingsVars
  <2> QED
    BY <1>16, <2>1, ReportAgainKeeps, SettingsLeftAlone
<1>17. CASE UNCHANGED vars
  <2>1. UNCHANGED settingsVars /\ UNCHANGED lockVars
    BY <1>17 DEF vars, settingsVars, lockVars
  <2> QED
    BY <2>1, SettingsLeftAlone, LockLeftAlone
<1> QED
  BY <1>1, <1>2, <1>3, <1>4, <1>5, <1>6, <1>7, <1>8, <1>9, <1>10, <1>11, <1>12,
     <1>13, <1>14, <1>15, <1>16, <1>17 DEF Next

\* The inductive invariant: the window agrees with the store, and prompts,
\* callbacks and results agree with each other.
THEOREM Invariance == Spec => []IInv
<1>1. Init => IInv
  BY InitHolds
<1>2. IInv /\ [Next]_vars => IInv'
  BY StepHolds
<1> QED
  BY <1>1, <1>2, PTL DEF Spec

\* The shell is well typed.
THEOREM TypeCorrect == Spec => []TypeOK
<1>1. IInv => TypeOK
  BY DEF IInv
<1> QED
  BY <1>1, Invariance, PTL

\* Whatever is changed, by the user, a reset, a restart or the platform, the
\* window shows what is stored, in the words of the source if the stored language,
\* any there is, has no translation (settings.cpp, main.cpp, SettingsPage.qml).
THEOREM ShowsStore == Spec => []WindowFollowsStore
<1>1. IInv => WindowFollowsStore
  BY DEF IInv
<1> QED
  BY <1>1, Invariance, PTL

\* From its first prompt on a locked window has something under way or something to
\* press, though any later request for a prompt may come to nothing; the one dead end
\* is a first prompt that never came (main.qml, platformbridge.cpp,
\* BiometricAuthHelper.java).
THEOREM NeverADeadEnd == Spec => []NeverStranded
<1>1. IInv => NeverStranded
  BY DEF IInv
<1> QED
  BY <1>1, Invariance, PTL

\* The shield of a session goes with a success that some prompt gave, and with
\* nothing else (onBiometricAuthenticated in main.qml).
THEOREM ShieldNeedsSuccess == Spec => ShieldStaysUntilSuccess
<1> DEFINE Opens ==
        overlay /\ ~overlay' /\ running' =>
            /\ results # <<>> /\ Head(results)
            /\ \E p \in DOMAIN prompts : prompts[p].given = 1
<1>1. ASSUME IInv, [Next]_vars PROVE Opens
  <2> SUFFICES ASSUME overlay, ~overlay', running'
               PROVE  /\ results # <<>> /\ Head(results)
                      /\ \E p \in DOMAIN prompts : prompts[p].given = 1
    OBVIOUS
  <2>1. running
    BY <1>1 DEF IInv, PromptsAgree
  <2>2. ~Launch /\ ~Quit
    BY <2>1 DEF Launch, Quit
  <2>3. ~UNCHANGED overlay
    OBVIOUS
  <2>4. ~SetTheme /\ ~SetLanguage /\ ~SetFontScale /\ ~ToggleLock /\ ~ResetToDefaults
    BY <2>3 DEF SetTheme, SetLanguage, SetFontScale, ToggleLock, ResetToDefaults, lock
  <2>5. ~ChangeSystemScheme /\ ~ChangeEnrolment /\ \A key \in Switches : ~Toggle(key)
    BY <2>3 DEF ChangeSystemScheme, ChangeEnrolment, Toggle, lock
  <2>6. ~TriggerPrompt /\ ~ClickTryAgain /\ ~RunCallback /\ ~UNCHANGED vars
    BY <2>3 DEF TriggerPrompt, ClickTryAgain, RunCallback, vars, lock
  <2>7. \A p \in 1 .. MaxPrompts : ~AnswerPrompt(p) /\ ~ReportAgain(p)
    BY <2>3 DEF AnswerPrompt, ReportAgain, lock
  <2>8. HandleResult
    BY <1>1, <2>2, <2>4, <2>5, <2>6, <2>7 DEF Next
  <2>9. results # <<>> /\ Head(results)
    BY <2>8 DEF HandleResult, OnBiometricAuthenticated
  <2> QED
    BY <1>1, <2>9 DEF IInv, PromptsAgree
<1>2. []IInv /\ [][Next]_vars => [][Opens]_vars
  BY <1>1, PTL
<1> QED
  BY <1>2, Invariance, PTL DEF Spec, ShieldStaysUntilSuccess

\* The safety half of OneResult: however callbacks of replaced prompts and late
\* ones are queued, no prompt gives a second result (BiometricAuthHelper.java:80).
THEOREM NoSecondResult ==
    Spec => \A p \in 1 .. MaxPrompts : [](p \in DOMAIN prompts => prompts[p].given <= 1)
<1>1. SUFFICES ASSUME NEW p \in 1 .. MaxPrompts
               PROVE  Spec => [](p \in DOMAIN prompts => prompts[p].given <= 1)
  OBVIOUS
<1>2. IInv => (p \in DOMAIN prompts => prompts[p].given <= 1)
  <2> SUFFICES ASSUME IInv, p \in DOMAIN prompts
               PROVE  prompts[p].given <= 1
    OBVIOUS
  <2>1. ASSUME NEW S, NEW s \in Seq(S), NEW i \in DOMAIN s
        PROVE  s[i] \in S
    OBVIOUS
  <2>2. prompts \in Seq(Prompt)
    BY DEF IInv, TypeOK, Prompt
  <2>3. prompts[p] \in Prompt
    BY <2>1, <2>2
  <2> QED
    BY <2>3 DEF Prompt
<1> QED
  BY <1>2, Invariance, PTL
=============================================================================
