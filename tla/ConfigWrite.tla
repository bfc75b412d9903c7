----------------------------- MODULE ConfigWrite -----------------------------
(***************************************************************************)
(* Batch configuration of a device (backend/routes/config.py): a batch     *)
(* previews a rewrite, and later reads the device's configuration again,   *)
(* applies a regular expression or the template preset, checks the         *)
(* outcome, writes it, reads it back and restores the original when what   *)
(* it reads back is not sound.  The tasks of several batches work on one   *)
(* device at once; every request to it is a step of its own, and one that  *)
(* timed out may still reach it later.                                     *)
(*                                                                         *)
(* A configuration is a main JSON part and message templates behind a      *)
(* separator; of its text only what the checks look at is kept, and which  *)
(* tasks' edits are in it.                                                 *)
(***************************************************************************)
EXTENDS Integers, FiniteSets

CONSTANTS
    Tasks,     \* config_write_task_sync and config_preset_write_task_sync calls
    Presets,   \* those of them that apply the preset
    MaxFaults  \* bound: writes the device garbles or ignores

ASSUME ConfigAssumption == Presets \subseteq Tasks /\ MaxFaults \in Nat

\* "full" has the keys wps and uip; "partial" lacks one; "bad" is no JSON object
\* or an empty one; "empty" is a whole text of "" or "{}".
Config == [main : {"full", "partial", "bad", "empty"}, sep : BOOLEAN, edits : SUBSET Tasks]

Factory == [main |-> "full", sep |-> TRUE, edits |-> {}]

VARIABLES
    cfg,       \* what the device has stored
    pc,        \* where each task stands
    shown,     \* the configuration its preview read
    original,  \* the configuration it read itself
    content,   \* the text it writes
    outcome,   \* what it reports
    late,      \* writes given up by their task that may still arrive
    faults,    \* writes garbled or ignored so far
    overlap    \* history: a task started while another was at work on the device

task == <<pc, shown, original, content, outcome>>
vars == <<cfg, task, late, faults, overlap>>

Points == {"idle", "previewed", "writing", "verifying", "restoring", "ended"}
Outcomes == {"none", "changed", "unchanged", "refused", "unreadable", "notWritten",
             "unverified", "restored"}

Init ==
    /\ cfg = Factory
    /\ pc = [t \in Tasks |-> "idle"]
    /\ shown = [t \in Tasks |-> Factory]
    /\ original = [t \in Tasks |-> Factory]
    /\ content = [t \in Tasks |-> Factory]
    /\ outcome = [t \in Tasks |-> "none"]
    /\ late = {}
    /\ faults = 0
    /\ overlap = FALSE

-----------------------------------------------------------------------------
\* _config_main_json finds a non-empty object.
HasMain(c) == c.main \in {"full", "partial"}

\* Mutant: a lost separator is not noticed.
AcceptableAnySep(old, new) ==
    /\ HasMain(old) => HasMain(new)
    /\ new.main # "empty"
    /\ HasMain(new) => new.main = "full"

\* _validate_config_content raises no objection.
Acceptable(old, new) ==
    /\ HasMain(old) => HasMain(new)
    /\ HasMain(old) /\ old.sep => new.sep
    /\ new.main # "empty"
    /\ HasMain(new) => new.main = "full"

\* _apply_regex: whatever expression the operator typed, the edit goes in, or
\* damages the text, or matches nothing.
Rewritten(t, c) ==
    {c, [c EXCEPT !.edits = @ \cup {t}]}
        \cup {[c EXCEPT !.main = m, !.edits = @ \cup {t}] : m \in {"partial", "bad", "empty"}}
        \cup {[c EXCEPT !.sep = FALSE, !.edits = @ \cup {t}]}

\* _apply_clean_message_template: the main part is kept, the templates replaced.
Templated(t, c) ==
    IF HasMain(c) THEN {[c EXCEPT !.sep = TRUE, !.edits = @ \cup {t}]} ELSE {}

Edited(t, c) == IF t \in Presets THEN Templated(t, c) ELSE Rewritten(t, c)

AtWork == {"writing", "verifying", "restoring"}
Goto(t, point) == pc' = [pc EXCEPT ![t] = point]
End(t, v) == Goto(t, "ended") /\ outcome' = [outcome EXCEPT ![t] = v]

-----------------------------------------------------------------------------
\* The preview the operator looks at before confirming.
Preview(t) ==
    /\ pc[t] = "idle"
    /\ shown' = [shown EXCEPT ![t] = cfg]
    /\ Goto(t, "previewed")
    /\ UNCHANGED <<cfg, original, content, outcome, late, faults, overlap>>

\* The first read of the task fails, or the edit cannot be applied (an invalid
\* expression or a timeout of it, a main part the preset cannot keep).
Unreadable(t) ==
    /\ pc[t] = "previewed"
    /\ End(t, "unreadable")
    /\ UNCHANGED <<cfg, shown, original, content, late, faults, overlap>>

\* Mutant: the rewrite is applied to what the preview read.
StartOnPreview(t) ==
    /\ pc[t] = "previewed"
    /\ original' = [original EXCEPT ![t] = shown[t]]
    /\ overlap' = (overlap \/ late # {} \/ \E q \in Tasks : pc[q] \in AtWork)
    /\ \E new \in Edited(t, shown[t]) :
        /\ content' = [content EXCEPT ![t] = new]
        /\ \/ new = shown[t] /\ End(t, "unchanged")
           \/ new # shown[t] /\ ~Acceptable(shown[t], new) /\ End(t, "refused")
           \/ new # shown[t] /\ Acceptable(shown[t], new) /\ Goto(t, "writing") /\ UNCHANGED outcome
    /\ UNCHANGED <<cfg, shown, late, faults>>

\* The task reads the device again, edits what it read and checks the outcome:
\* nothing to change, an unacceptable text, or a text to write.
Start(t) ==
    /\ pc[t] = "previewed"
    /\ original' = [original EXCEPT ![t] = cfg]
    /\ overlap' = (overlap \/ late # {} \/ \E q \in Tasks : pc[q] \in AtWork)
    /\ \E new \in Edited(t, cfg) :
        /\ content' = [content EXCEPT ![t] = new]
        /\ \/ new = cfg /\ End(t, "unchanged")
           \/ new # cfg /\ ~Acceptable(cfg, new) /\ End(t, "refused")
           \/ new # cfg /\ Acceptable(cfg, new) /\ Goto(t, "writing") /\ UNCHANGED outcome
    /\ UNCHANGED <<cfg, shown, late, faults>>

\* The device stores the text and answers 200.
Write(t) ==
    /\ pc[t] = "writing"
    /\ cfg' = content[t]
    /\ Goto(t, "verifying")
    /\ UNCHANGED <<shown, original, content, outcome, late, faults, overlap>>

\* It answers 200 and has stored a garbled text, or nothing.
WriteGarbled(t) ==
    /\ pc[t] = "writing"
    /\ faults < MaxFaults
    /\ faults' = faults + 1
    /\ \/ \E m \in {"bad", "empty"} : cfg' = [content[t] EXCEPT !.main = m]
       \/ UNCHANGED cfg
    /\ Goto(t, "verifying")
    /\ UNCHANGED <<shown, original, content, outcome, late, overlap>>

\* No 200 in time: the task gives up; the request is lost, has been carried out,
\* or will be.
WriteFails(t) ==
    /\ pc[t] = "writing"
    /\ \/ UNCHANGED <<cfg, late>>
       \/ cfg' = content[t] /\ UNCHANGED late
       \/ late' = late \cup {content[t]} /\ UNCHANGED cfg
    /\ End(t, "notWritten")
    /\ UNCHANGED <<shown, original, content, faults, overlap>>

\* A request somebody gave up reaches the device.
ArriveLate ==
    /\ \E c \in late : cfg' = c /\ late' = late \ {c}
    /\ UNCHANGED <<task, faults, overlap>>

\* The read-back is checked against the original, not against what was written.
ReadBack(t) ==
    /\ pc[t] = "verifying"
    /\ IF Acceptable(original[t], cfg)
       THEN End(t, "changed")
       ELSE Goto(t, "restoring") /\ UNCHANGED outcome
    /\ UNCHANGED <<cfg, shown, original, content, late, faults, overlap>>

ReadBackFails(t) ==
    /\ pc[t] = "verifying"
    /\ End(t, "unverified")
    /\ UNCHANGED <<cfg, shown, original, content, late, faults, overlap>>

\* Mutant: the edited text is written again.
RestoreContent(t) ==
    /\ pc[t] = "restoring"
    /\ cfg' = content[t]
    /\ End(t, "restored")
    /\ UNCHANGED <<shown, original, content, late, faults, overlap>>

\* The original is written back; whether that worked is not looked at.
Restore(t) ==
    /\ pc[t] = "restoring"
    /\ \/ cfg' = original[t] /\ UNCHANGED late
       \/ UNCHANGED <<cfg, late>>
       \/ late' = late \cup {original[t]} /\ UNCHANGED cfg
    /\ End(t, "restored")
    /\ UNCHANGED <<shown, original, content, faults, overlap>>

Task(t) ==
    \/ Preview(t)
    \/ Unreadable(t)
    \/ Start(t)
    \/ Write(t)
    \/ WriteGarbled(t)
    \/ WriteFails(t)
    \/ ReadBack(t)
    \/ ReadBackFails(t)
    \/ Restore(t)

Next == (\E t \in Tasks : Task(t)) \/ ArriveLate

Spec == Init /\ [][Next]_vars

-----------------------------------------------------------------------------
\* Types; a task reports when it ends, and only then.
TypeOK ==
    /\ cfg \in Config
    /\ pc \in [Tasks -> Points]
    /\ shown \in [Tasks -> Config]
    /\ original \in [Tasks -> Config]
    /\ content \in [Tasks -> Config]
    /\ outcome \in [Tasks -> Outcomes]
    /\ \A t \in Tasks : outcome[t] # "none" <=> pc[t] = "ended"
    /\ late \subseteq Config
    /\ faults \in 0..MaxFaults
    /\ overlap \in BOOLEAN

Sound(c) == c.main = "full" /\ c.sep

\* As long as the device stores what it is sent, no batch leaves it with a broken
\* configuration: whatever expressions the operators typed, however their batches
\* overlap, and whenever writes that timed out arrive.
OnlyFaultsDamage == faults = 0 => Sound(cfg)

\* "re-reads each device's current configuration first" (useConfigBatch.js:157):
\* batches that do not overlap on a device lose none of each other's edits, old as
\* their previews may be, and whichever of them failed in between.
SerialBatchesKeepEdits ==
    ~overlap /\ faults = 0 => \A t \in Tasks : outcome[t] = "changed" => t \in cfg.edits

\* A device whose write was garbled once gets back, if the restore reaches it, a
\* sound configuration without the edit that failed and with those accepted
\* before.  Another task at work on the device voids this.
LoneRestoreUndoes ==
    [][\A t \in Tasks :
        pc[t] = "restoring" /\ pc'[t] = "ended" /\ ~overlap /\ faults = 1 /\ cfg' # cfg =>
            /\ Sound(cfg')
            /\ t \notin cfg'.edits
            /\ \A q \in Tasks : outcome[q] = "changed" => q \in cfg'.edits]_vars
=============================================================================
