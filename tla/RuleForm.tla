----------------------------- MODULE RuleForm -----------------------------
(***************************************************************************)
(* One automatic task between the file, the editor's form and the file     *)
(* again: NormalizeRules and PrepareRules (src/internal/automation/        *)
(* types.go) and the editor of src/internal/ui/automationpanel: what it    *)
(* puts into its controls (showEditorDraft), which of them a choice shows  *)
(* (layoutEditorContent), what it reads back (syncDraft), what it refuses  *)
(* (validateDraft, PrepareRules) and when cancelling asks.                 *)
(*                                                                         *)
(* Numbers are "zero" (for a warning: below its minimum), "ok" or "out" of *)
(* every range; a date or a time parses ("ok") or not; the week has two    *)
(* days, in the editor's order mon, sun and in the file's order sun, mon;  *)
(* the actions that no code here tells apart are one.                      *)
(***************************************************************************)
EXTENDS Naturals, Sequences, FiniteSets

CONSTANTS
    FileRules,   \* rules as the file may state them
    MaxEdits,    \* bound: what the user does to the form
    MaxText      \* bound: length of a text typed into a time field

StateActions == {"stay_awake", "pause", "enable_idle"}
Actions      == StateActions \cup {"lock"}           \* lock: every event action
ProcessTriggers == {"running", "started", "exited"}
TimeTriggers == {"window", "once", "daily", "weekly"}
Triggers     == ProcessTriggers \cup TimeTriggers
IsEvent(action) == action \in Actions \ StateActions \* IsEventAction
Numbers == {"zero", "ok", "out"}
Logics  == {"any", "all", "none"}
Policies == {"skip", "wait"}
Parses  == {"ok", "bad"}

\* A slice of weekdays: nil and empty are not the same to reflect.DeepEqual
Days == [nil : BOOLEAN, list : {<<>>, <<"mon">>, <<"sun">>, <<"mon", "sun">>, <<"sun", "mon">>}]
NoDays == [nil |-> TRUE, list |-> <<>>]
InOrder(order, set) ==
    [nil |-> FALSE, list |-> CASE set = {} -> <<>> [] set = {"mon"} -> <<"mon">>
                               [] set = {"sun"} -> <<"sun">> [] OTHER -> order]
EditorWeek == <<"mon", "sun">>
FileWeek   == <<"sun", "mon">>
DaySet(days) == {days.list[i] : i \in DOMAIN days.list}

Rules == [name : {"", "own", "made"}, action : Actions \cup {"odd"}, trigger : Triggers \cup {"odd"},
          date : Parses, time : Parses, end : Parses, days : Days, logic : Logics \cup {""},
          procs : {0, 1}, keep : BOOLEAN, idle : Numbers, warning : Numbers,
          policy : Policies \cup {""}, wait : Numbers]

ASSUME FormAssumption ==
    /\ \A r \in FileRules : r \in Rules
    /\ MaxEdits \in Nat /\ MaxText \in Nat
-----------------------------------------------------------------------------
(* automation/types.go *)

TriggerOptions(action) ==
    IF action \in StateActions THEN {"running", "window"}
                               ELSE {"once", "daily", "weekly", "started", "exited"}

\* A time window without days ran every day in older versions
NormalDays(r) ==
    LET days == InOrder(FileWeek, DaySet(r.days))
    IN  IF r.trigger = "window" /\ days.list = <<>> THEN InOrder(FileWeek, {"mon", "sun"}) ELSE days

\* NormalizeRules, of one rule
Normalized(r) ==
    [r EXCEPT !.name   = IF @ = "" THEN "made" ELSE @,         \* its ID
              !.logic  = IF @ \in Logics THEN @ ELSE "any",
              !.policy = IF @ \in Policies THEN @ ELSE "skip",
              !.idle   = "ok",
              !.warning = IF IsEvent(r.action) THEN "ok" ELSE IF @ = "out" THEN "zero" ELSE @,
              !.wait   = IF @ = "out" THEN "zero" ELSE @,
              !.days   = NormalDays(r)]

ActionTriggerFits(r) ==              \* validateActionTrigger, of a normalized rule
    /\ r.trigger \in TriggerOptions(r.action)
    /\ r.trigger \in ProcessTriggers => r.procs > 0
    /\ r.trigger = "once" => r.date = "ok"
    /\ r.trigger \in TimeTriggers => r.time = "ok"
    /\ r.trigger = "window" => r.end = "ok"
    /\ r.trigger \in {"weekly", "window"} => r.days.list # <<>>

WaitsWithoutTargets(r) == IsEvent(r.action) /\ r.trigger \notin {"started", "exited"} /\ r.policy = "wait"
Waits(r) == IsEvent(r.action) /\ r.procs > 0 /\ r.trigger \notin {"started", "exited"} /\ r.policy = "wait"

\* validatePreparedRule: the limits are those of the raw rule
Prepared(r) ==
    /\ r.action \in Actions /\ r.trigger \in Triggers
    /\ r.idle # "out" /\ (r.action = "enable_idle" => r.idle # "zero")
    /\ r.warning # "out" /\ (IsEvent(r.action) => r.warning # "zero")
    /\ r.wait # "out" /\ (Waits(r) => r.wait # "zero")
    /\ ActionTriggerFits(Normalized(r))

\* What the runner and the warnings read of a rule; of dates, times and numbers
\* that is here whether they can be read and are in range
Meaning(r) ==
    [action |-> r.action, trigger |-> r.trigger, procs |-> r.procs,
     date |-> IF r.trigger = "once" THEN r.date ELSE "ok",
     time |-> IF r.trigger \in TimeTriggers THEN r.time ELSE "ok",
     end |-> IF r.trigger = "window" THEN r.end ELSE "ok",
     idle |-> IF r.action = "enable_idle" THEN r.idle ELSE "ok",
     warning |-> IF IsEvent(r.action) THEN r.warning ELSE "ok",
     logic |-> IF r.procs > 0 /\ r.trigger \notin {"started", "exited"} THEN r.logic ELSE "any",
     days |-> IF r.trigger \in {"weekly", "window"} THEN DaySet(r.days) ELSE {},
     keep |-> r.action = "stay_awake" /\ r.keep,
     wait |-> IF Waits(r) THEN r.wait ELSE "zero"]
-----------------------------------------------------------------------------
(* The form *)

VARIABLES
    rule,      \* the rule in p.rules that is edited, or defaultRule
    isNew,     \* editing < 0
    raw,       \* the rule had an issue, which the status row shows
    form,      \* what the controls hold
    procs,     \* draft.Processes
    options,   \* triggerOptions
    shown,     \* the editor controls that are visible
    error,     \* the control the status row blames, "issue", "save" or "none"
    phase,     \* "edit", "asking" (to discard) or "left"
    touched,   \* ghost: the user has changed something
    edits      \* how many times
formVars == <<rule, isNew, raw, form, procs, options, shown, error, phase, touched, edits>>

TextFields == {"name", "date", "time", "end", "idle", "warning", "wait"}
ChoiceFields == {"action", "trigger", "logic", "policy"}

Forms == [name : {"", "own", "made"}, action : Actions, trigger : Triggers, date : Parses,
          time : Parses, end : Parses, days : SUBSET {"mon", "sun"}, logic : Logics,
          keep : BOOLEAN, idle : Numbers, warning : Numbers, policy : Policies, wait : Numbers]

\* defaultRule
DefaultRule ==
    [name |-> "", action |-> "stay_awake", trigger |-> "running", date |-> "ok", time |-> "ok",
     end |-> "ok", days |-> InOrder(EditorWeek, {"mon"}), logic |-> "any", procs |-> 0,
     keep |-> FALSE, idle |-> "ok", warning |-> "ok", policy |-> "skip", wait |-> "ok"]

\* setTriggerOptions: the first option stands in for one the action does not have
FirstOption(action, trigger) == IF action \in StateActions THEN "running" ELSE "once"
Option(action, trigger) ==
    IF trigger \in TriggerOptions(action) THEN trigger
    ELSE IF action \in StateActions THEN "running" ELSE "once"

\* What layoutEditorContent does to the process logic
Coerced(f) ==
    [f EXCEPT !.logic = IF f.trigger = "exited" THEN "none" ELSE IF f.trigger = "started" THEN "any" ELSE @]

\* showEditorDraft; an action the list does not have becomes its first
Filled(r) ==
    LET action == IF r.action \in Actions THEN r.action ELSE "stay_awake"
    IN  Coerced([name |-> r.name, action |-> action,
                 trigger |-> Option(r.action, r.trigger),
                 date |-> r.date, time |-> r.time, end |-> r.end, days |-> DaySet(r.days),
                 logic |-> r.logic, keep |-> r.keep, idle |-> r.idle, warning |-> r.warning,
                 policy |-> r.policy, wait |-> r.wait])

\* syncDraft
Draft ==
    [name |-> form.name, action |-> form.action, trigger |-> form.trigger, date |-> form.date,
     time |-> form.time, end |-> form.end,
     days |-> IF form.days = {} THEN NoDays ELSE InOrder(EditorWeek, form.days),
     logic |-> form.logic, procs |-> procs, keep |-> form.keep, idle |-> form.idle,
     warning |-> form.warning, policy |-> form.policy, wait |-> form.wait]

\* layoutEditorContent: the controls a form with n process targets shows
Always == {"name", "action", "trigger", "choose", "save", "cancel"}
Fields(f, n) ==
    Always
    \cup (IF f.trigger = "once" THEN {"date"} ELSE {})
    \cup (IF f.trigger \in TimeTriggers THEN {"time"} ELSE {})
    \cup (IF f.trigger = "window" THEN {"end"} ELSE {})
    \cup (IF f.trigger \in {"weekly", "window"} THEN {"days"} ELSE {})
    \cup (IF f.trigger \in {"exited", "started"} THEN {} ELSE {"logic"})
    \cup (IF n > 0 THEN {"info"} ELSE {})
    \cup (IF f.action = "stay_awake" THEN {"keep"} ELSE {})
    \cup (IF f.action = "enable_idle" THEN {"idle"} ELSE {})
    \cup (IF IsEvent(f.action) THEN {"warning"} ELSE {})
    \cup (IF IsEvent(f.action) /\ n > 0 /\ f.trigger \notin {"exited", "started"}
          THEN {"policy"} \cup (IF f.policy = "wait" THEN {"wait"} ELSE {}) ELSE {})

\* validateDraft: the first control it finds at fault
Faults(d) == <<
    IF d.trigger \in ProcessTriggers /\ d.procs = 0 THEN "choose" ELSE "none",
    IF d.trigger = "once" /\ d.date = "bad" THEN "date" ELSE "none",
    IF d.trigger \in TimeTriggers /\ d.time = "bad" THEN "time" ELSE "none",
    IF d.trigger = "window" /\ d.end = "bad" THEN "end" ELSE "none",
    IF d.trigger \in {"weekly", "window"} /\ d.days.list = <<>> THEN "days" ELSE "none",
    IF d.action = "enable_idle" /\ d.idle # "ok" THEN "idle" ELSE "none",
    IF IsEvent(d.action) /\ d.warning # "ok" THEN "warning" ELSE "none",
    IF Waits(d) /\ d.wait # "ok" THEN "wait" ELSE "none" >>
FirstFault(d) ==
    LET found == {i \in DOMAIN Faults(d) : Faults(d)[i] # "none"}
    IN  IF found = {} THEN "none" ELSE Faults(d)[CHOOSE i \in found : \A j \in found : i <= j]

\* editorChangesRequireConfirmation
Intent(r) == <<r.name, r.action, r.trigger, r.time, r.end, r.date, r.days.list, r.logic, r.procs>>
AsksToDiscard ==
    /\ Draft # rule
    /\ ~isNew \/ Intent(Draft) # Intent(rule)

FormTypes ==
    /\ rule \in Rules
    /\ form \in Forms /\ procs \in {0, 1} /\ options \in {TriggerOptions(a) : a \in Actions}
    /\ shown \subseteq Always \cup TextFields \cup ChoiceFields \cup {"days", "keep", "info"}
    /\ error \in {"none", "issue", "save", "choose", "days"} \cup TextFields
    /\ phase \in {"edit", "asking", "left"}
    /\ isNew \in BOOLEAN /\ raw \in BOOLEAN /\ touched \in BOOLEAN

Opened(r, fresh, faulty) ==
    /\ rule' = r /\ isNew' = fresh /\ raw' = faulty
    /\ form' = Filled(r) /\ procs' = r.procs /\ options' = TriggerOptions(r.action)
    /\ shown' = Fields(Filled(r), r.procs)
    /\ error' = IF faulty THEN "issue" ELSE "none"
    /\ phase' = "edit" /\ touched' = FALSE

FormInit ==
    /\ \/ /\ rule = DefaultRule /\ isNew = TRUE /\ raw = FALSE
       \/ /\ isNew = FALSE
          /\ \E r \in FileRules : rule = Normalized(r) /\ raw = ~Prepared(r)
    /\ form = Filled(rule) /\ procs = rule.procs /\ options = TriggerOptions(rule.action)
    /\ shown = Fields(form, procs)
    /\ error = IF raw THEN "issue" ELSE "none"
    /\ phase = "edit" /\ touched = FALSE /\ edits = 0
-----------------------------------------------------------------------------
(* What the user does to it (handleEditor) *)

Edit ==
    /\ phase = "edit" /\ edits < MaxEdits
    /\ edits' = edits + 1 /\ touched' = TRUE
    /\ UNCHANGED <<rule, isNew, raw, phase>>

Typed(field) ==
    CASE field = "name" -> {"", "own"} [] field \in {"date", "time", "end"} -> Parses [] OTHER -> Numbers

\* EN_CHANGE of a field that is there to be typed in
TypeField(field, text) ==
    /\ Edit /\ field \in shown /\ form[field] # text
    /\ form' = [form EXCEPT ![field] = text]
    /\ error' = "none"
    /\ UNCHANGED <<procs, options, shown>>

PressDay(day) ==
    /\ Edit /\ "days" \in shown
    /\ form' = [form EXCEPT !.days = IF day \in @ THEN @ \ {day} ELSE @ \cup {day}]
    /\ error' = "none"
    /\ UNCHANGED <<procs, options, shown>>

QuickDays(everyDay) ==               \* selectWeekdays
    /\ Edit /\ "days" \in shown
    /\ form' = [form EXCEPT !.days = IF everyDay THEN {"mon", "sun"} ELSE {"mon"}]
    /\ error' = "none"
    /\ UNCHANGED <<procs, options, shown>>

\* The one control whose change leaves an error in place
PressKeepScreen ==
    /\ Edit /\ "keep" \in shown
    /\ form' = [form EXCEPT !.keep = ~@]
    /\ UNCHANGED <<procs, options, shown, error>>

OfferedValues(field) ==
    CASE field = "action" -> Actions [] field = "trigger" -> options
      [] field = "logic" -> Logics [] OTHER -> Policies

\* What handleChoiceChanged leaves in the controls
AfterChoice(field, value) ==
    LET chosen == [form EXCEPT ![field] = value]
    IN  Coerced(IF field = "action" THEN [chosen EXCEPT !.trigger = Option(value, @)] ELSE chosen)

Choose(field, value) ==
    /\ Edit /\ field \in shown
    /\ form' = AfterChoice(field, value)
    /\ options' = IF field = "action" THEN TriggerOptions(value) ELSE options
    /\ shown' = Fields(form', procs)
    /\ error' = "none"
    /\ UNCHANGED procs

PickWithoutLayout(n) ==
    /\ Edit /\ "choose" \in shown
    /\ procs' = n /\ error' = "none"
    /\ UNCHANGED <<form, options, shown>>

\* The process picker's OnConfirm
PickProcesses(n) ==
    /\ Edit /\ "choose" \in shown
    /\ procs' = n
    /\ shown' = Fields(form, n)
    /\ error' = "none"
    /\ UNCHANGED <<form, options>>

\* saveEditor; what is saved is what the editor opens next
Save ==
    /\ phase = "edit"
    /\ IF FirstFault(Draft) # "none"
       THEN error' = FirstFault(Draft) /\ UNCHANGED <<rule, raw, isNew, phase>>
       ELSE IF ~Prepared(Draft)
       THEN error' = "save" /\ UNCHANGED <<rule, raw, isNew, phase>>
       ELSE rule' = Normalized(Draft) /\ raw' = FALSE /\ isNew' = FALSE /\ phase' = "left" /\ error' = "none"
    /\ UNCHANGED <<form, procs, options, shown, touched, edits>>

\* cancelEditor
Cancel ==
    /\ phase = "edit"
    /\ phase' = IF AsksToDiscard THEN "asking" ELSE "left"
    /\ UNCHANGED <<rule, isNew, raw, form, procs, options, shown, error, touched, edits>>

Answer(discard) ==
    /\ phase = "asking"
    /\ phase' = IF discard THEN "left" ELSE "edit"
    /\ UNCHANGED <<rule, isNew, raw, form, procs, options, shown, error, touched, edits>>

Reopen ==
    /\ phase = "left"
    /\ Opened(rule, isNew, raw)
    /\ UNCHANGED edits

FormNext ==
    \/ \E field \in TextFields : \E text \in Typed(field) : TypeField(field, text)
    \/ \E day \in {"mon", "sun"} : PressDay(day)
    \/ \E everyDay \in BOOLEAN : QuickDays(everyDay)
    \/ PressKeepScreen
    \/ \E field \in ChoiceFields : \E value \in OfferedValues(field) : Choose(field, value)
    \/ \E n \in {0, 1} : PickProcesses(n)
    \/ Save \/ Cancel
    \/ \E discard \in BOOLEAN : Answer(discard)
    \/ Reopen

FormSpec == FormInit /\ [][FormNext]_formVars
-----------------------------------------------------------------------------
(* normalizeTimeEditText: what a time field makes of a text ("d" a digit,  *)
(* "x" anything that is neither a digit nor a colon)                       *)

TimeTexts == UNION {[1 .. n -> {"d", ":", "x"}] : n \in 0 .. MaxText}

Separated(out) == \E i \in DOMAIN out : out[i] = ":"
HourDigits(out) ==
    IF Separated(out) THEN (CHOOSE i \in DOMAIN out : out[i] = ":") - 1 ELSE Len(out)
MinuteDigits(out) == IF Separated(out) THEN Len(out) - 1 - HourDigits(out) ELSE 0

GrownAnywhere(out, x) ==
    CASE x = "d" /\ ~Separated(out) /\ HourDigits(out) < 2 -> Append(out, "d")
      [] x = "d" /\ ~Separated(out) /\ HourDigits(out) = 2 -> out \o <<":", "d">>
      [] x = "d" /\ Separated(out) /\ MinuteDigits(out) < 2 -> Append(out, "d")
      [] x = ":" /\ ~Separated(out) -> Append(out, ":")
      [] OTHER -> out

\* One rune of the text
Grown(out, x) ==
    CASE x = "d" /\ ~Separated(out) /\ HourDigits(out) < 2 -> Append(out, "d")
      [] x = "d" /\ ~Separated(out) /\ HourDigits(out) = 2 -> out \o <<":", "d">>
      [] x = "d" /\ Separated(out) /\ MinuteDigits(out) < 2 -> Append(out, "d")
      [] x = ":" /\ ~Separated(out) /\ HourDigits(out) > 0 -> Append(out, ":")
      [] OTHER -> out

Scanned(text, n) ==
    LET scan[i \in 0 .. n] == IF i = 0 THEN <<>> ELSE Grown(scan[i - 1], text[i])
    IN  scan[n]

\* The text and the caret, while typing and (final) when the field is left
TimeText(text, caret, final) ==
    LET out == Scanned(text, Len(text))
        at  == Len(Scanned(text, caret))
        pad == final /\ Separated(out) /\ HourDigits(out) = 1
    IN  [text |-> IF pad THEN <<"d">> \o out ELSE out,
         caret |-> IF pad /\ caret > 0 THEN at + 1 ELSE at]
-----------------------------------------------------------------------------
(* Properties *)

\* A control that validateDraft blames and setEditorError focuses is one the
\* user can see.
ErrorIsShown == phase = "edit" /\ error \in TextFields \cup {"choose", "days"} => error \in shown

\* Whatever was chosen, picked or opened in whatever order, the form shows the
\* fields of its action and trigger, its trigger is one its action can have,
\* and a control that is blamed is one the user can see.
FormFollowsChoices ==
    /\ FormTypes
    /\ ErrorIsShown
    /\ shown = Fields(form, procs)
    /\ form = Coerced(form)
    /\ form.trigger \in options
    /\ raw \/ options = TriggerOptions(form.action)

\* A rule the file accepts is one the editor accepts, and saving it untouched
\* does not change what it does.
UntouchedKeepsMeaning ==
    phase = "edit" /\ ~touched /\ ~isNew /\ ~raw =>
        /\ FirstFault(Draft) = "none" /\ Prepared(Draft)
        /\ Meaning(Normalized(Draft)) = Meaning(rule)

\* A time field holds at most two digits, a colon and two digits, never a colon
\* first; normalizing twice changes nothing; a left field with a colon has both
\* hour digits; the caret stays in the text.  (A fact about the function: it is
\* looked at once, when a form with a time field opens.)
TimeTextIsSound == edits = 0 /\ "time" \in shown =>
    \A text \in TimeTexts : \A caret \in 0 .. Len(text) : \A final \in BOOLEAN :
        LET t == TimeText(text, caret, final)
        IN  /\ t.caret \in 0 .. Len(t.text)
            /\ HourDigits(t.text) <= 2 /\ MinuteDigits(t.text) <= 2
            /\ Separated(t.text) => HourDigits(t.text) > 0
            /\ Separated(t.text) /\ final => HourDigits(t.text) = 2
            /\ TimeText(t.text, t.caret, final) = t

=============================================================================
