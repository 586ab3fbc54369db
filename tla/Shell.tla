------------------------------- MODULE Shell -------------------------------
(***************************************************************************)
(* The window around the pages: the settings and what follows them         *)
(* (src/services/settings.cpp, src/main.cpp, qml/views/SettingsPage.qml),  *)
(* and the biometric lock at launch (qml/main.qml,                         *)
(* src/platform/platformbridge.cpp, BiometricAuthHelper.java).             *)
(*                                                                         *)
(* Actors: the user; the GUI thread with its 400 ms timer; the platform,   *)
(* which shows prompts, queues their callbacks on the helper's executor    *)
(* thread and changes its own colour scheme; the executor thread, which    *)
(* posts results to the GUI thread; and the end of the process.            *)
(***************************************************************************)
EXTENDS Naturals, Sequences

CONSTANTS
    SystemLanguage,     \* the language of the platform's locale, any there is
    Languages,          \* those the Settings page offers
    Translated,         \* those that have a translation to load
    RightToLeft,        \* those that are written from right to left
    Switches,           \* the on-off settings but for the lock
    OnByDefault,        \* those of them that are on in a new store
    Scales,             \* text sizes the slider offers, in tenths
    MaxPrompts,         \* bound: prompts of one session
    MaxQueue            \* bound: callbacks and results queued

ASSUME LanguagesAssumption == "system" \notin Languages /\ "source" \notin Translated
ASSUME SwitchesAssumption ==
    /\ OnByDefault \subseteq Switches
    /\ Switches \cap {"theme", "language", "lock", "scale"} = {}
    /\ "historyExcludeWifiPassword" \in Switches => "historyEnabled" \in Switches
ASSUME ScalesAssumption == Scales \subseteq Nat
ASSUME BoundsAssumption == MaxPrompts \in Nat /\ MaxQueue \in Nat

VARIABLES
    \* What outlives the process.
    stored,         \* m_store: the value of each key
    enrolled,       \* BiometricAuthHelper.isAvailable()
    systemDark,     \* the platform's colour scheme is dark
    \* What the process shows.
    running,
    scheme,         \* the scheme set by applyColorScheme
    language,       \* that of the installed translator, or "source" without one
    mirrored,       \* the layout runs from right to left
    dark,           \* the value QML last read of appSettings.darkMode
    shown,          \* what the controls of the Settings page show of each key
    \* The lock.
    overlay,        \* lockOverlay.visible
    tryAgain,       \* unlockButton.visible
    timer,          \* authTriggerTimer.running
    prompts,        \* of this session: on screen, and results it has given
    callbacks,      \* queued on the executor thread
    results         \* biometricAuthenticated signals queued for the GUI thread

outside == <<enrolled, systemDark>>
tongue == <<language, mirrored>>
looks == <<scheme, tongue, dark, shown>>
lock == <<overlay, tryAgain, timer>>
queues == <<prompts, callbacks, results>>
vars == <<stored, outside, running, looks, lock, queues>>

-----------------------------------------------------------------------------
(* Settings.                                                               *)

Themes == {"system", "dark", "light"}
Codes == Languages \cup {"system"}
Keys == {"theme", "language", "lock", "scale"} \cup Switches

Default(key) ==
    CASE key \in {"theme", "language"} -> "system"
      [] key = "scale" -> 10
      [] OTHER -> key \in OnByDefault

Defaults == [key \in Keys |-> Default(key)]

\* qBound(0.8, value, 2.0)
Bounded(tenths) == IF tenths < 8 THEN 8 ELSE IF tenths > 20 THEN 20 ELSE tenths

\* schemeForTheme()
SchemeFor(theme) == IF theme = "system" THEN "unknown" ELSE theme

\* darkMode(), for the scheme set and the platform's own.
DarkMode(theme, set, system) ==
    \/ theme = "dark"
    \/ theme = "system" /\ (set = "dark" \/ (set = "unknown" /\ system))

\* resolveLanguage()
Resolved(code) == IF code = "system" THEN SystemLanguage ELSE code

\* The handlers of themeChanged and darkModeChanged, in that order.
ThemeSignals ==
    /\ scheme' = SchemeFor(stored'.theme)
    /\ dark' = DarkMode(stored'.theme, scheme', systemDark)

\* applyLanguage(), from languageChanged and from main(): the old translator goes; a
\* translation that does not load leaves the words of the source. The layout follows
\* the language all the same.
ApplyLanguage ==
    LET lang == Resolved(stored'.language)
    IN /\ language' = IF lang \in Translated THEN lang ELSE "source"
       /\ mirrored' = (lang \in RightToLeft)

\* The ...Changed signals of some keys: their controls read the store again. (The
\* language box does so because a new translation rebuilds its rows.)
ControlsRead(keys) ==
    shown' = [key \in Keys |-> IF key \in keys THEN stored'[key] ELSE shown[key]]

Unlocked == overlay = FALSE /\ tryAgain = FALSE /\ timer = FALSE
NoPrompts == prompts = <<>> /\ callbacks = <<>> /\ results = <<>>

-----------------------------------------------------------------------------
Init ==
    /\ stored = Defaults
    /\ enrolled \in BOOLEAN
    /\ systemDark \in BOOLEAN
    /\ running = FALSE
    /\ scheme = "unknown"
    /\ language = "source" /\ mirrored = FALSE
    /\ dark = FALSE
    /\ shown = Defaults
    /\ Unlocked
    /\ NoPrompts

\* lockIfNeeded() on Android.
LockIfNeeded ==
    /\ overlay' = (stored.lock /\ enrolled)
    /\ tryAgain' = FALSE
    /\ timer' = (stored.lock /\ enrolled)

\* main(): the scheme and the language are set before the window is loaded, and
\* the window locks itself when it is complete.
Launch ==
    /\ ~running
    /\ running' = TRUE
    /\ UNCHANGED stored
    /\ ThemeSignals
    /\ ApplyLanguage
    /\ shown' = stored
    /\ LockIfNeeded
    /\ UNCHANGED <<outside, queues>>

\* The process ends, with whatever is on its way.
Quit ==
    /\ running
    /\ running' = FALSE
    /\ overlay' = FALSE /\ tryAgain' = FALSE /\ timer' = FALSE
    /\ prompts' = <<>> /\ callbacks' = <<>> /\ results' = <<>>
    /\ UNCHANGED <<stored, outside, looks>>

SetTheme ==
    /\ running
    /\ \E theme \in Themes \ {stored.theme} : stored' = [stored EXCEPT !.theme = theme]
    /\ ThemeSignals
    /\ ControlsRead({"theme"})
    /\ UNCHANGED <<outside, running, tongue, lock, queues>>

SetLanguage ==
    /\ running
    /\ \E code \in Codes \ {stored.language} : stored' = [stored EXCEPT !.language = code]
    /\ ApplyLanguage
    /\ ControlsRead({"language"})
    /\ UNCHANGED <<outside, running, scheme, dark, lock, queues>>

\* A switch is moved. That for Wi-Fi codes is disabled while no history is kept.
Toggle(key) ==
    /\ running
    /\ key = "historyExcludeWifiPassword" => shown["historyEnabled"]
    /\ stored' = [stored EXCEPT ![key] = ~shown[key]]
    /\ ControlsRead({key})
    /\ UNCHANGED <<outside, running, scheme, tongue, dark, lock, queues>>

SetFontScale ==
    /\ running
    /\ \E value \in Scales :
          /\ Bounded(value) # stored.scale
          /\ stored' = [stored EXCEPT !.scale = Bounded(value)]
    /\ ControlsRead({"scale"})
    /\ UNCHANGED <<outside, running, scheme, tongue, dark, lock, queues>>

\* The Biometric lock switch: refused, and stored as off, without biometrics.
Refused == stored' = [stored EXCEPT !.lock = FALSE] /\ ControlsRead({"lock"})

ToggleLock ==
    /\ running
    /\ \/ /\ ~shown.lock /\ ~enrolled
          /\ Refused
       \/ /\ shown.lock \/ enrolled
          /\ stored' = [stored EXCEPT !.lock = ~shown.lock]
          /\ ControlsRead({"lock"})
    /\ UNCHANGED <<outside, running, scheme, tongue, dark, lock, queues>>

\* The signals resetToDefaults() sends; variant: but for the language.
ResetUntranslated == {"theme", "lock", "scale"} \cup Switches

ResetSignals == {"theme", "language", "lock", "scale"} \cup Switches

\* resetToDefaults()
ResetToDefaults ==
    /\ running
    /\ stored' = Defaults
    /\ ThemeSignals
    /\ IF "language" \in ResetSignals THEN ApplyLanguage ELSE UNCHANGED tongue
    /\ ControlsRead(ResetSignals)
    /\ UNCHANGED <<outside, running, lock, queues>>

\* The platform's colour scheme changes: colorSchemeChanged is sent while no
\* scheme is set, and heard while the theme is "system".
ChangeSystemScheme ==
    /\ systemDark' = ~systemDark
    /\ dark' = IF running /\ scheme = "unknown" /\ stored.theme = "system"
               THEN DarkMode("system", scheme, systemDark') ELSE dark
    /\ UNCHANGED <<stored, enrolled, running, scheme, tongue, shown, lock, queues>>

\* The user enrols a fingerprint, or removes the last one.
ChangeEnrolment ==
    /\ enrolled' = ~enrolled
    /\ UNCHANGED <<stored, systemDark, running, looks, lock, queues>>

-----------------------------------------------------------------------------
(* The lock.                                                               *)

\* A callback of a prompt is queued for the executor; a variant in which nothing
\* listens to the prompt's own Cancel button.
CancelUnheard(p, code) ==
    IF code = "cancel" THEN UNCHANGED callbacks
                       ELSE callbacks' = Append(callbacks, [of |-> p, code |-> code])

QueueCallback(p, code) == callbacks' = Append(callbacks, [of |-> p, code |-> code])

\* A prompt appears; the platform takes away the one before it with an error.
PutUpPrompt ==
    /\ Len(prompts) < MaxPrompts
    /\ Len(callbacks) < MaxQueue
    /\ LET last == Len(prompts)
       IN IF last > 0 /\ prompts[last].up
          THEN /\ prompts' = Append([prompts EXCEPT ![last].up = FALSE], [up |-> TRUE, given |-> 0])
               /\ QueueCallback(last, "error")
          ELSE /\ prompts' = Append(prompts, [up |-> TRUE, given |-> 0])
               /\ UNCHANGED callbacks
    /\ UNCHANGED results

\* authenticate(): a prompt, or nothing at all - it returns in silence without a
\* context, on either side of the bridge, and clears what Java throws.
Authenticate == PutUpPrompt \/ UNCHANGED queues

\* authTriggerTimer.onTriggered
TriggerPrompt ==
    /\ timer
    /\ timer' = FALSE
    /\ Authenticate
    /\ UNCHANGED <<stored, outside, running, looks, overlay, tryAgain>>

\* unlockButton.onClicked
ClickTryAgain ==
    /\ overlay /\ tryAgain
    /\ Authenticate
    /\ UNCHANGED <<stored, outside, running, looks, lock>>

\* The user is recognised, or gives up, or the platform does: the prompt leaves
\* the screen and a callback is queued.
AnswerPrompt(p) ==
    /\ p \in DOMAIN prompts
    /\ prompts[p].up
    /\ Len(callbacks) < MaxQueue
    /\ prompts' = [prompts EXCEPT ![p].up = FALSE]
    /\ \E code \in {"success", "error", "cancel"} : QueueCallback(p, code)
    /\ UNCHANGED <<stored, outside, running, looks, lock, results>>

\* The platform reports the end of a cancelled prompt once more.
ReportAgain(p) ==
    /\ p \in DOMAIN prompts
    /\ ~prompts[p].up
    /\ Len(callbacks) < MaxQueue
    /\ callbacks' = Append(callbacks, [of |-> p, code |-> "error"])
    /\ UNCHANGED <<stored, outside, running, looks, lock, prompts, results>>

\* finished.compareAndSet(false, true), and a variant that always goes on.
FirstAlways(p) == TRUE

First(p) == prompts[p].given = 0

\* A callback runs on the executor thread: onResult(), which posts the result.
RunCallback ==
    /\ callbacks # <<>> /\ Len(results) < MaxQueue
    /\ callbacks' = Tail(callbacks)
    /\ LET c == Head(callbacks)
       IN IF First(c.of)
          THEN /\ prompts' = [prompts EXCEPT ![c.of].given = @ + 1]
               /\ results' = Append(results, c.code = "success")
          ELSE UNCHANGED <<prompts, results>>
    /\ UNCHANGED <<stored, outside, running, looks, lock>>

\* onBiometricAuthenticated, a variant that only hears of success, and one that
\* takes every answer for one.
HandleSuccess ==
    /\ timer' = FALSE
    /\ overlay' = (overlay /\ ~Head(results))
    /\ UNCHANGED tryAgain

HandleAny ==
    /\ timer' = FALSE
    /\ overlay' = FALSE
    /\ tryAgain' = ~Head(results)

OnBiometricAuthenticated ==
    /\ timer' = FALSE
    /\ overlay' = (overlay /\ ~Head(results))
    /\ tryAgain' = ~Head(results)

HandleResult ==
    /\ results # <<>>
    /\ results' = Tail(results)
    /\ OnBiometricAuthenticated
    /\ UNCHANGED <<stored, outside, running, looks, prompts, callbacks>>

Next ==
    \/ Launch
    \/ Quit
    \/ SetTheme
    \/ SetLanguage
    \/ \E key \in Switches : Toggle(key)
    \/ SetFontScale
    \/ ToggleLock
    \/ ResetToDefaults
    \/ ChangeSystemScheme
    \/ ChangeEnrolment
    \/ TriggerPrompt
    \/ ClickTryAgain
    \/ RunCallback
    \/ HandleResult
    \/ \E p \in 1 .. MaxPrompts : AnswerPrompt(p) \/ ReportAgain(p)

\* Timers fire and queued events are handled; a prompt is answered in the end, by
\* the platform's own time limit if by nobody else.
Fairness ==
    /\ WF_vars(TriggerPrompt) /\ WF_vars(RunCallback) /\ WF_vars(HandleResult)
    /\ \A p \in 1 .. MaxPrompts : WF_vars(AnswerPrompt(p))

Spec == Init /\ [][Next]_vars /\ Fairness

-----------------------------------------------------------------------------
TypeOK ==
    /\ {DOMAIN stored, DOMAIN shown} = {Keys}
    /\ stored.theme \in Themes /\ stored.language \in Codes /\ stored.scale \in 8 .. 20
    /\ \A key \in Switches \cup {"lock"} : stored[key] \in BOOLEAN
    /\ {enrolled, systemDark, running, dark, mirrored} \subseteq BOOLEAN
    /\ {overlay, tryAgain, timer} \subseteq BOOLEAN
    /\ scheme \in {"unknown", "dark", "light"}
    /\ language \in Translated \cup {"source"}
    /\ prompts \in Seq([up : BOOLEAN, given : {0, 1}])
    /\ callbacks \in Seq([of : 1 .. MaxPrompts, code : {"success", "error", "cancel"}])
    /\ results \in Seq(BOOLEAN)

\* What the window shows follows the store through changes, resets, restarts and
\* the platform's own changes of scheme; "the Biometric lock switch no longer
\* stays on when the device has no enrolled biometrics" (CHANGELOG.md:42). Its words
\* are those of the stored language, or of the source where that has no translation
\* (a platform's language none was written for), and never those of a language it
\* was set to before; its layout runs the way the stored language does.
WindowFollowsStore ==
    running => /\ dark = DarkMode(stored.theme, scheme, systemDark)
               /\ scheme = SchemeFor(stored.theme)
               /\ language \in {Resolved(stored.language), "source"}
               /\ language = "source" => Resolved(stored.language) \notin Translated
               /\ mirrored = (Resolved(stored.language) \in RightToLeft)
               /\ shown = stored

\* The lock asked for its prompt, and the platform put up none: the shield is up, no
\* answer will come, and Try again is not there. The program has no way out of it but
\* to be closed. This is the one dead end, and it is there only before a first prompt.
NoPromptCame == ~timer /\ prompts = <<>>

\* From its first prompt on a locked window has something to wait for or something
\* to press: a timer, a prompt, a callback or a result under way, or Try again. A
\* result that is lost on its way over three threads would leave the shield up for
\* good, as would a prompt refused in silence had the button gone when it was pressed.
NeverStranded ==
    overlay /\ ~NoPromptCame =>
        \/ timer \/ tryAgain
        \/ results # <<>>
        \/ \E p \in DOMAIN prompts :
              \/ prompts[p].up
              \/ /\ prompts[p].given = 0
                 /\ \E i \in DOMAIN callbacks : callbacks[i].of = p

\* The inductive invariant the proofs use: the above, and how prompts, callbacks
\* and results hang together - what is queued is of a prompt that has left the
\* screen, a prompt on the screen has given nothing, a result was given by one, and
\* the timer runs before the first prompt of a session only.
PromptsAgree ==
    /\ \A i \in DOMAIN callbacks :
          callbacks[i].of \in DOMAIN prompts /\ ~prompts[callbacks[i].of].up
    /\ \A p \in DOMAIN prompts : prompts[p].up => prompts[p].given = 0
    /\ results # <<>> => \E p \in DOMAIN prompts : prompts[p].given = 1
    /\ overlay => running
    /\ timer => running /\ prompts = <<>> /\ ~tryAgain
    /\ ~running => prompts = <<>>

IInv ==
    /\ TypeOK
    /\ WindowFollowsStore
    /\ NeverStranded
    /\ PromptsAgree

\* "Full-screen shield ... so content stays hidden until unlocked" (main.qml:184):
\* in one session the shield goes only with a success that a prompt gave.
ShieldStaysUntilSuccess ==
    [][overlay /\ ~overlay' /\ running' =>
        /\ results # <<>> /\ Head(results)
        /\ \E p \in DOMAIN prompts : prompts[p].given = 1]_vars

\* "Guarantees onResult is delivered exactly once" (BiometricAuthHelper.java:80):
\* no prompt gives a second result, and each that has left the screen gives one.
OneResult ==
    \A p \in 1 .. MaxPrompts :
        /\ [](p \in DOMAIN prompts => prompts[p].given <= 1)
        /\ (p \in DOMAIN prompts /\ ~prompts[p].up)
              ~> (p \in DOMAIN prompts => prompts[p].given = 1)

\* A locked window that got its prompt is opened, or offers to try again, or is closed,
\* whatever becomes of the prompts after the first, or of presses that bring none.
LockResolves == overlay ~> (~overlay \/ tryAgain \/ NoPromptCame)
=============================================================================
