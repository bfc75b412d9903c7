-------------------------- MODULE ConfigWriteProofs --------------------------
(***************************************************************************)
(* Type correctness of ConfigWrite; that only the device itself can damage *)
(* a configuration; and that batches that do not overlap keep each other's *)
(* edits, a lone restore included: for any tasks, presets and faults.      *)
(***************************************************************************)
EXTENDS ConfigWrite, TLAPS

\* While no fault has happened everything that is or may yet be written to the
\* device is sound: what it stores, what a task would restore, what a task at work
\* writes, what may still arrive.
AllSound ==
    faults = 0 =>
        /\ Sound(cfg)
        /\ \A t \in Tasks : Sound(original[t])
        /\ \A t \in Tasks : pc[t] \in AtWork => Sound(content[t])
        /\ \A c \in late : Sound(c)

-----------------------------------------------------------------------------
\* An edit of a configuration is a configuration, whatever the expression does.
LEMMA EditedType ==
    ASSUME NEW t \in Tasks, NEW c \in Config, NEW new \in Edited(t, c)
    PROVE  new \in Config
<1>1. ASSUME NEW m \in {"full", "partial", "bad", "empty"}, NEW b \in BOOLEAN
      PROVE  /\ [c EXCEPT !.edits = @ \cup {t}] \in Config
             /\ [c EXCEPT !.main = m, !.edits = @ \cup {t}] \in Config
             /\ [c EXCEPT !.sep = b, !.edits = @ \cup {t}] \in Config
  BY DEF Config
<1>2. CASE t \in Presets
  BY <1>1, <1>2 DEF Edited, Templated
<1>3. CASE t \notin Presets
  <2>1. new \in Rewritten(t, c)
    BY <1>3 DEF Edited
  <2>2. \/ new = c
        \/ new = [c EXCEPT !.edits = @ \cup {t}]
        \/ \E m \in {"partial", "bad", "empty"} :
               new = [c EXCEPT !.main = m, !.edits = @ \cup {t}]
        \/ new = [c EXCEPT !.sep = FALSE, !.edits = @ \cup {t}]
    BY <2>1 DEF Rewritten
  <2> QED
    BY <1>1, <2>2
<1> QED
  BY <1>2, <1>3

\* What _validate_config_content lets pass over a sound original is sound.
LEMMA AcceptableIsSound ==
    ASSUME NEW old \in Config, NEW new \in Config, Sound(old), Acceptable(old, new)
    PROVE  Sound(new)
BY DEF Sound, Acceptable, HasMain, Config

-----------------------------------------------------------------------------
LEMMA InitTypeOK == Init => TypeOK
<1>1. Factory \in Config
  BY DEF Factory, Config
<1>2. 0 \in 0..MaxFaults
  BY ConfigAssumption DEF ConfigAssumption
<1> QED
  BY <1>1, <1>2 DEF Init, TypeOK, Points, Outcomes

LEMMA StepTypeOK == TypeOK /\ [Next]_vars => TypeOK'
<1> SUFFICES ASSUME TypeOK, [Next]_vars PROVE TypeOK'
  OBVIOUS
<1> USE DEF Points, Outcomes, AtWork
<1>1. ASSUME NEW t \in Tasks, Preview(t) PROVE TypeOK'
  BY <1>1 DEF TypeOK, Preview, Goto
<1>2. ASSUME NEW t \in Tasks, Unreadable(t) PROVE TypeOK'
  BY <1>2 DEF TypeOK, Unreadable, End, Goto
<1>3. ASSUME NEW t \in Tasks, Start(t) PROVE TypeOK'
  <2>1. PICK new \in Edited(t, cfg) :
          /\ content' = [content EXCEPT ![t] = new]
          /\ \/ End(t, "unchanged")
             \/ End(t, "refused")
             \/ Goto(t, "writing") /\ UNCHANGED outcome
    BY <1>3 DEF Start
  <2>2. new \in Config /\ cfg \in Config
    BY <2>1, EditedType DEF TypeOK
  <2>3. overlap' \in BOOLEAN /\ original' \in [Tasks -> Config] /\ content' \in [Tasks -> Config]
    BY <1>3, <2>1, <2>2 DEF TypeOK, Start
  <2>4. /\ pc[t] = "previewed"
        /\ UNCHANGED <<cfg, shown, late, faults>>
    BY <1>3 DEF Start
  <2>5. /\ pc' \in [Tasks -> Points] /\ outcome' \in [Tasks -> Outcomes]
        /\ \A q \in Tasks : outcome'[q] # "none" <=> pc'[q] = "ended"
    BY <2>1, <2>4 DEF TypeOK, End, Goto
  <2> QED
    BY <2>3, <2>4, <2>5 DEF TypeOK
<1>4. ASSUME NEW t \in Tasks, Write(t) PROVE TypeOK'
  BY <1>4 DEF TypeOK, Write, Goto
<1>5. ASSUME NEW t \in Tasks, WriteGarbled(t) PROVE TypeOK'
  <2>1. cfg' \in Config
    BY <1>5 DEF TypeOK, WriteGarbled, Config
  <2>2. faults' \in 0..MaxFaults
    BY <1>5, ConfigAssumption DEF ConfigAssumption, TypeOK, WriteGarbled
  <2> QED
    BY <1>5, <2>1, <2>2 DEF TypeOK, WriteGarbled, Goto
<1>6. ASSUME NEW t \in Tasks, WriteFails(t) PROVE TypeOK'
  BY <1>6 DEF TypeOK, WriteFails, End, Goto
<1>7. ASSUME NEW t \in Tasks, ReadBack(t) PROVE TypeOK'
  BY <1>7 DEF TypeOK, ReadBack, End, Goto
<1>8. ASSUME NEW t \in Tasks, ReadBackFails(t) PROVE TypeOK'
  BY <1>8 DEF TypeOK, ReadBackFails, End, Goto
<1>9. ASSUME NEW t \in Tasks, Restore(t) PROVE TypeOK'
  BY <1>9 DEF TypeOK, Restore, End, Goto
<1>10. CASE ArriveLate
  BY <1>10 DEF TypeOK, ArriveLate, task
<1>11. CASE UNCHANGED vars
  BY <1>11 DEF TypeOK, vars, task
<1> QED
  BY <1>1, <1>2, <1>3, <1>4, <1>5, <1>6, <1>7, <1>8, <1>9, <1>10, <1>11 DEF Next, Task

\* The variables and the ends of tasks are well typed in every reachable state,
\* and a task has reported exactly when it has ended.
THEOREM TypeCorrect == Spec => []TypeOK
BY InitTypeOK, StepTypeOK, PTL DEF Spec

-----------------------------------------------------------------------------
LEMMA InitAllSound == Init => AllSound
BY DEF Init, AllSound, Sound, Factory, AtWork

\* A fault ends the promise; a step without one keeps everything sound.
LEMMA StepAllSound == TypeOK /\ AllSound /\ [Next]_vars => AllSound'
<1> SUFFICES ASSUME TypeOK, AllSound, [Next]_vars, faults' = 0
             PROVE  /\ Sound(cfg')
                    /\ \A t \in Tasks : Sound(original'[t])
                    /\ \A t \in Tasks : pc'[t] \in AtWork => Sound(content'[t])
                    /\ \A c \in late' : Sound(c)
  BY DEF AllSound, Sound
<1> DEFINE Goal == /\ Sound(cfg')
                   /\ \A t \in Tasks : Sound(original'[t])
                   /\ \A t \in Tasks : pc'[t] \in AtWork => Sound(content'[t])
                   /\ \A c \in late' : Sound(c)
<1>0. /\ cfg \in Config /\ pc \in [Tasks -> Points] /\ faults \in Nat
      /\ original \in [Tasks -> Config] /\ content \in [Tasks -> Config]
  BY ConfigAssumption DEF ConfigAssumption, TypeOK
<1>g. ASSUME NEW t \in Tasks, WriteGarbled(t) PROVE FALSE
  BY <1>g, <1>0 DEF WriteGarbled
<1>s. faults = 0
  <2>1. CASE UNCHANGED faults
    BY <2>1
  <2>2. ASSUME NEW t \in Tasks, Task(t) PROVE UNCHANGED faults
    BY <1>g, <2>2 DEF Task, Preview, Unreadable, Start, Write, WriteFails, ReadBack,
                      ReadBackFails, Restore
  <2>3. ArriveLate \/ UNCHANGED vars => UNCHANGED faults
    BY DEF ArriveLate, vars
  <2> QED
    BY <2>1, <2>2, <2>3 DEF Next
<1>a. /\ Sound(cfg)
      /\ \A t \in Tasks : Sound(original[t])
      /\ \A t \in Tasks : pc[t] \in AtWork => Sound(content[t])
      /\ \A c \in late : Sound(c)
  BY <1>s DEF AllSound
<1> USE DEF AtWork, Points
<1>1. ASSUME NEW t \in Tasks, Preview(t) PROVE Goal
  BY <1>0, <1>1, <1>a DEF Preview, Goto
<1>2. ASSUME NEW t \in Tasks, Unreadable(t) PROVE Goal
  BY <1>0, <1>2, <1>a DEF Unreadable, End, Goto
<1>3. ASSUME NEW t \in Tasks, Start(t) PROVE Goal
  <2>1. PICK new \in Edited(t, cfg) :
          /\ content' = [content EXCEPT ![t] = new]
          /\ \/ End(t, "unchanged")
             \/ End(t, "refused")
             \/ Acceptable(cfg, new) /\ Goto(t, "writing")
    BY <1>3 DEF Start
  <2>2. Acceptable(cfg, new) => Sound(new)
    BY <1>0, <1>a, <2>1, EditedType, AcceptableIsSound
  <2>3. \A q \in Tasks : pc'[q] \in AtWork => Sound(content'[q])
    <3> SUFFICES ASSUME NEW q \in Tasks, pc'[q] \in AtWork PROVE Sound(content'[q])
      OBVIOUS
    <3>1. CASE q = t
      BY <1>0, <2>1, <2>2, <3>1 DEF End, Goto
    <3>2. CASE q # t
      BY <1>0, <1>a, <2>1, <3>2 DEF End, Goto
    <3> QED
      BY <3>1, <3>2
  <2>4. \A q \in Tasks : Sound(original'[q])
    BY <1>0, <1>3, <1>a DEF Start
  <2> QED
    BY <1>3, <1>a, <2>3, <2>4 DEF Start
<1>4. ASSUME NEW t \in Tasks, Write(t) PROVE Goal
  BY <1>0, <1>4, <1>a DEF Write, Goto
<1>6. ASSUME NEW t \in Tasks, WriteFails(t) PROVE Goal
  BY <1>0, <1>6, <1>a DEF WriteFails, End, Goto
<1>7. ASSUME NEW t \in Tasks, ReadBack(t) PROVE Goal
  BY <1>0, <1>7, <1>a DEF ReadBack, End, Goto
<1>8. ASSUME NEW t \in Tasks, ReadBackFails(t) PROVE Goal
  BY <1>0, <1>8, <1>a DEF ReadBackFails, End, Goto
<1>9. ASSUME NEW t \in Tasks, Restore(t) PROVE Goal
  BY <1>0, <1>9, <1>a DEF Restore, End, Goto
<1>10. CASE ArriveLate
  BY <1>10, <1>a DEF ArriveLate, task
<1>11. CASE UNCHANGED vars
  BY <1>11, <1>a DEF vars, task
<1> QED
  BY <1>1, <1>2, <1>3, <1>4, <1>g, <1>6, <1>7, <1>8, <1>9, <1>10, <1>11 DEF Next, Task

\* Whatever the operators' expressions do to the text, however their batches
\* overlap on a device and whenever given-up requests arrive, a device that stores
\* what it is sent keeps a sound configuration.
THEOREM OnlyTheDeviceDamages == Spec => []OnlyFaultsDamage
<1>1. AllSound => OnlyFaultsDamage
  BY DEF AllSound, OnlyFaultsDamage
<1> QED
  BY <1>1, InitTypeOK, StepTypeOK, InitAllSound, StepAllSound, PTL DEF Spec

-----------------------------------------------------------------------------
(***************************************************************************)
(* Batches that do not overlap.  A task at work is then alone on the       *)
(* device and no late write is under way, so what it read is what its      *)
(* write replaces; and a single fault that makes it restore was its own,   *)
(* for what it checked before writing it would accept again.               *)
(***************************************************************************)
\* c has the edit of every task that reported a change.
HasAccepted(c) == \A q \in Tasks : outcome[q] = "changed" => q \in c.edits

\* No edit is on the device, or on its way there, before its task has started.
EditsAreStarted ==
    \A t \in Tasks : pc[t] \in {"idle", "previewed"} =>
        /\ t \notin cfg.edits
        /\ \A u \in Tasks : t \notin original[u].edits /\ t \notin content[u].edits
        /\ \A c \in late : t \notin c.edits

\* What a task at work writes was checked against what it read, and adds its edit.
WorkIsChecked ==
    \A t \in Tasks : pc[t] \in AtWork =>
        /\ Acceptable(original[t], content[t])
        /\ t \notin original[t].edits
        /\ t \in content[t].edits /\ original[t].edits \subseteq content[t].edits

OneAtATime ==
    ~overlap => \A t \in Tasks : pc[t] \in AtWork =>
        late = {} /\ \A u \in Tasks : pc[u] \in AtWork => u = t

NothingLost ==
    ~overlap /\ faults = 0 =>
        /\ HasAccepted(cfg)
        /\ \A t \in Tasks : pc[t] \in AtWork => HasAccepted(original[t])
        /\ \A c \in late : HasAccepted(c)

Undoable(t) == faults = 1 /\ Sound(original[t]) /\ HasAccepted(original[t])

FaultIsItsOwn ==
    ~overlap /\ faults \in {0, 1} => \A t \in Tasks :
        /\ pc[t] = "verifying" => cfg = content[t] \/ Undoable(t)
        /\ pc[t] = "restoring" => Undoable(t)

SerialInv ==
    /\ EditsAreStarted
    /\ WorkIsChecked
    /\ OneAtATime
    /\ NothingLost
    /\ FaultIsItsOwn
-----------------------------------------------------------------------------
\* An edit keeps the edits there are, and adds its task's if it changes anything.
LEMMA EditedEdits ==
    ASSUME NEW t \in Tasks, NEW c \in Config, NEW new \in Edited(t, c)
    PROVE  /\ c.edits \subseteq new.edits /\ new.edits \subseteq c.edits \cup {t}
           /\ new # c => t \in new.edits
<1>1. CASE t \in Presets
  BY <1>1 DEF Edited, Templated, Config
<1>2. CASE t \notin Presets
  <2>1. \/ new = c
        \/ new = [c EXCEPT !.edits = @ \cup {t}]
        \/ \E m \in {"partial", "bad", "empty"} :
               new = [c EXCEPT !.main = m, !.edits = @ \cup {t}]
        \/ new = [c EXCEPT !.sep = FALSE, !.edits = @ \cup {t}]
    BY <1>2 DEF Edited, Rewritten
  <2>2. new = c \/ new.edits = c.edits \cup {t}
    BY <2>1 DEF Config
  <2> QED
    BY <2>2
<1> QED
  BY <1>1, <1>2

\* A task touches what it keeps of itself, and nothing another keeps.
LEMMA OthersUntouched ==
    ASSUME TypeOK, NEW t \in Tasks, Task(t), NEW q \in Tasks, q # t
    PROVE  /\ pc'[q] = pc[q] /\ outcome'[q] = outcome[q]
           /\ original'[q] = original[q] /\ content'[q] = content[q]
BY DEF TypeOK, Task, Preview, Unreadable, Start, Write, WriteGarbled, WriteFails, ReadBack,
       ReadBackFails, Restore, Goto, End

LEMMA StartFacts ==
    ASSUME TypeOK, NEW t \in Tasks, Start(t)
    PROVE  /\ pc[t] = "previewed" /\ UNCHANGED <<cfg, late, faults>>
           /\ original'[t] = cfg
           /\ content'[t].edits \subseteq cfg.edits \cup {t}
           /\ outcome'[t] # "changed"
           /\ \/ pc'[t] = "ended"
              \/ /\ pc'[t] = "writing" /\ outcome' = outcome
                 /\ Acceptable(cfg, content'[t])
                 /\ t \in content'[t].edits /\ cfg.edits \subseteq content'[t].edits
           /\ overlap' = (overlap \/ late # {} \/ \E q \in Tasks : pc[q] \in AtWork)
<1>1. PICK new \in Edited(t, cfg) :
        /\ content' = [content EXCEPT ![t] = new]
        /\ \/ End(t, "unchanged")
           \/ End(t, "refused")
           \/ new # cfg /\ Acceptable(cfg, new) /\ Goto(t, "writing") /\ UNCHANGED outcome
  BY DEF Start
<1>2. /\ cfg.edits \subseteq new.edits /\ new.edits \subseteq cfg.edits \cup {t}
      /\ new # cfg => t \in new.edits
  BY <1>1, EditedEdits DEF TypeOK
<1>3. content'[t] = new /\ original'[t] = cfg
  BY <1>1 DEF TypeOK, Start
<1>4. \/ pc'[t] = "ended" /\ outcome'[t] \in {"unchanged", "refused"}
      \/ new # cfg /\ Acceptable(cfg, new) /\ pc'[t] = "writing" /\ outcome' = outcome
  BY <1>1 DEF TypeOK, End, Goto
<1>5. pc[t] = "previewed" /\ outcome[t] # "changed"
  BY DEF Start, TypeOK
<1> QED
  BY <1>1, <1>2, <1>3, <1>4, <1>5 DEF Start

\* A step before or after the requests that write: what it leaves alone, and where
\* its task goes.
LEMMA QuietFacts ==
    ASSUME TypeOK, NEW t \in Tasks, Preview(t) \/ Unreadable(t) \/ ReadBackFails(t)
    PROVE  /\ UNCHANGED <<cfg, original, content, late, faults, overlap>>
           /\ pc'[t] \notin AtWork /\ outcome'[t] # "changed" /\ outcome[t] # "changed"
           /\ \/ pc[t] \in {"idle", "previewed"}
              \/ pc'[t] \notin {"idle", "previewed"}
BY DEF TypeOK, Preview, Unreadable, ReadBackFails, Goto, End, AtWork

LEMMA WriteFacts ==
    ASSUME TypeOK, NEW t \in Tasks, Write(t) \/ WriteGarbled(t)
    PROVE  /\ pc[t] = "writing" /\ pc'[t] = "verifying" /\ outcome' = outcome
           /\ UNCHANGED <<original, content, late, overlap>>
           /\ \/ cfg' = content[t] /\ faults' = faults
              \/ /\ faults' = faults + 1
                 /\ cfg' \in Config /\ (cfg' = cfg \/ cfg'.edits = content[t].edits)
BY DEF TypeOK, Write, WriteGarbled, Goto, Config

LEMMA WriteFailsFacts ==
    ASSUME TypeOK, NEW t \in Tasks, WriteFails(t)
    PROVE  /\ pc[t] = "writing" /\ pc'[t] = "ended"
           /\ outcome'[t] # "changed" /\ outcome[t] # "changed"
           /\ UNCHANGED <<original, content, faults, overlap>>
           /\ cfg' \in {cfg, content[t]} /\ late' \subseteq late \cup {content[t]}
BY DEF TypeOK, WriteFails, End, Goto

LEMMA ReadBackFacts ==
    ASSUME TypeOK, NEW t \in Tasks, ReadBack(t)
    PROVE  /\ pc[t] = "verifying" /\ outcome[t] # "changed"
           /\ UNCHANGED <<cfg, original, content, late, faults, overlap>>
           /\ \/ Acceptable(original[t], cfg) /\ pc'[t] = "ended" /\ outcome'[t] = "changed"
              \/ ~Acceptable(original[t], cfg) /\ pc'[t] = "restoring" /\ outcome' = outcome
BY DEF TypeOK, ReadBack, End, Goto

LEMMA RestoreFacts ==
    ASSUME TypeOK, NEW t \in Tasks, Restore(t)
    PROVE  /\ pc[t] = "restoring" /\ pc'[t] = "ended"
           /\ outcome'[t] # "changed" /\ outcome[t] # "changed"
           /\ UNCHANGED <<original, content, faults, overlap>>
           /\ cfg' \in {cfg, original[t]} /\ late' \subseteq late \cup {original[t]}
BY DEF TypeOK, Restore, End, Goto

\* A late write, or nothing.
LEMMA LateFacts ==
    ASSUME TypeOK, ArriveLate \/ UNCHANGED vars
    PROVE  /\ UNCHANGED <<pc, original, content, outcome, faults, overlap>>
           /\ cfg' \in late \cup {cfg} /\ late' \subseteq late
           /\ late = {} => cfg' = cfg
BY DEF ArriveLate, vars, task

\* Neither the faults nor an overlap are taken back.
LEMMA HistoryGrows ==
    ASSUME TypeOK, [Next]_vars
    PROVE  /\ faults \in Nat /\ faults' \in {faults, faults + 1}
           /\ ~overlap' => ~overlap
<1>1. faults \in Nat
  BY ConfigAssumption DEF ConfigAssumption, TypeOK
<1>2. ASSUME NEW t \in Tasks, Start(t) PROVE faults' = faults /\ (~overlap' => ~overlap)
  BY <1>2, StartFacts
<1>3. ASSUME NEW t \in Tasks, Task(t), ~Start(t)
      PROVE  faults' \in {faults, faults + 1} /\ overlap' = overlap
  BY <1>3, QuietFacts, WriteFacts, WriteFailsFacts, ReadBackFacts, RestoreFacts DEF Task
<1>4. ASSUME ArriveLate \/ UNCHANGED vars PROVE UNCHANGED <<faults, overlap>>
  BY <1>4, LateFacts
<1> QED
  BY <1>1, <1>2, <1>3, <1>4 DEF Next

-----------------------------------------------------------------------------
LEMMA StepStarted == TypeOK /\ EditsAreStarted /\ [Next]_vars => EditsAreStarted'
<1> SUFFICES ASSUME TypeOK, EditsAreStarted, [Next]_vars, NEW t \in Tasks,
                    pc'[t] \in {"idle", "previewed"}
             PROVE  /\ t \notin cfg'.edits
                    /\ \A u \in Tasks : t \notin original'[u].edits /\ t \notin content'[u].edits
                    /\ \A c \in late' : t \notin c.edits
  BY DEF EditsAreStarted
<1> DEFINE Goal == /\ t \notin cfg'.edits
                   /\ \A u \in Tasks : t \notin original'[u].edits /\ t \notin content'[u].edits
                   /\ \A c \in late' : t \notin c.edits
<1>1. pc[t] \in {"idle", "previewed"}
  BY DEF Next, Task, Preview, Unreadable, Start, Write, WriteGarbled, WriteFails, ReadBack,
         ReadBackFails, Restore, ArriveLate, Goto, End, vars, task, TypeOK
<1>2. /\ t \notin cfg.edits
      /\ \A u \in Tasks : t \notin original[u].edits /\ t \notin content[u].edits
      /\ \A c \in late : t \notin c.edits
  BY <1>1 DEF EditsAreStarted
<1>3. ASSUME NEW p \in Tasks, Start(p) PROVE Goal
  <2>1. pc'[p] \in {"ended", "writing"}
    BY <1>3, StartFacts
  <2>2. \A q \in Tasks : q # p => original'[q] = original[q] /\ content'[q] = content[q]
    BY <1>3, OthersUntouched DEF Task
  <2> QED
    BY <1>2, <1>3, <2>1, <2>2, StartFacts
<1>4. ASSUME NEW p \in Tasks, Preview(p) \/ Unreadable(p) \/ ReadBackFails(p) PROVE Goal
  BY <1>2, <1>4, QuietFacts
<1>5. ASSUME NEW p \in Tasks, Write(p) \/ WriteGarbled(p) PROVE Goal
  BY <1>2, <1>5, WriteFacts
<1>6. ASSUME NEW p \in Tasks, WriteFails(p) PROVE Goal
  BY <1>2, <1>6, WriteFailsFacts
<1>7. ASSUME NEW p \in Tasks, ReadBack(p) PROVE Goal
  BY <1>2, <1>7, ReadBackFacts
<1>8. ASSUME NEW p \in Tasks, Restore(p) PROVE Goal
  BY <1>2, <1>8, RestoreFacts
<1>9. CASE ArriveLate \/ UNCHANGED vars
  BY <1>2, <1>9, LateFacts
<1> QED
  BY <1>3, <1>4, <1>5, <1>6, <1>7, <1>8, <1>9 DEF Next, Task

LEMMA StepChecked == TypeOK /\ EditsAreStarted /\ WorkIsChecked /\ [Next]_vars => WorkIsChecked'
<1> SUFFICES ASSUME TypeOK, EditsAreStarted, WorkIsChecked, [Next]_vars, NEW t \in Tasks,
                    pc'[t] \in AtWork
             PROVE  /\ Acceptable(original'[t], content'[t])
                    /\ t \notin original'[t].edits
                    /\ t \in content'[t].edits /\ original'[t].edits \subseteq content'[t].edits
  BY DEF WorkIsChecked, Acceptable, HasMain
<1>1. CASE pc[t] \in AtWork /\ original'[t] = original[t] /\ content'[t] = content[t]
  BY <1>1 DEF WorkIsChecked
<1>2. ASSUME NEW p \in Tasks, Task(p), p # t
      PROVE  pc[t] \in AtWork /\ original'[t] = original[t] /\ content'[t] = content[t]
  BY <1>2, OthersUntouched
<1>3. CASE Start(t)
  BY <1>3, StartFacts DEF EditsAreStarted, AtWork
<1>4. CASE Preview(t) \/ Unreadable(t) \/ ReadBackFails(t)
  BY <1>4, QuietFacts
<1>5. CASE Write(t) \/ WriteGarbled(t) \/ ReadBack(t)
  BY <1>1, <1>5, WriteFacts, ReadBackFacts DEF AtWork
<1>6. CASE WriteFails(t) \/ Restore(t)
  BY <1>6, WriteFailsFacts, RestoreFacts DEF AtWork
<1>7. CASE ArriveLate \/ UNCHANGED vars
  BY <1>1, <1>7, LateFacts
<1> QED
  BY <1>1, <1>2, <1>3, <1>4, <1>5, <1>6, <1>7 DEF Next, Task

LEMMA StepAlone == TypeOK /\ OneAtATime /\ [Next]_vars => OneAtATime'
<1> SUFFICES ASSUME TypeOK, OneAtATime, [Next]_vars, ~overlap', NEW t \in Tasks, pc'[t] \in AtWork
             PROVE  late' = {} /\ \A u \in Tasks : pc'[u] \in AtWork => u = t
  BY DEF OneAtATime
<1>1. ~overlap
  BY HistoryGrows
<1>2. ASSUME NEW p \in Tasks, Start(p) PROVE late' = {} /\ \A u \in Tasks : pc'[u] \in AtWork => u = t
  <2>1. late' = {} /\ \A q \in Tasks : pc[q] \notin AtWork
    BY <1>2, StartFacts
  <2>2. \A q \in Tasks : q # p => pc'[q] = pc[q]
    BY <1>2, OthersUntouched DEF Task
  <2> QED
    BY <2>1, <2>2
<1>3. ASSUME NEW p \in Tasks, Task(p), p # t, ~Start(p)
      PROVE  late' = {} /\ \A u \in Tasks : pc'[u] \in AtWork => u = t
  <2>1. pc'[t] = pc[t] /\ \A q \in Tasks : q # p => pc'[q] = pc[q]
    BY <1>3, OthersUntouched
  <2>2. pc[p] \notin AtWork /\ late = {}
    BY <1>1, <1>3, <2>1 DEF OneAtATime
  <2>3. Preview(p) \/ Unreadable(p)
    BY <1>3, <2>2 DEF Task, Write, WriteGarbled, WriteFails, ReadBack, ReadBackFails, Restore, AtWork
  <2> QED
    BY <1>1, <2>1, <2>2, <2>3, QuietFacts DEF OneAtATime
<1>4. ASSUME Task(t), ~Start(t) PROVE late' = {} /\ \A u \in Tasks : pc'[u] \in AtWork => u = t
  <2>1. Write(t) \/ WriteGarbled(t) \/ ReadBack(t)
    BY <1>4, QuietFacts, WriteFailsFacts, RestoreFacts DEF Task, AtWork
  <2>2. pc[t] \in AtWork /\ late' = late
    BY <2>1, WriteFacts, ReadBackFacts DEF AtWork
  <2>3. \A q \in Tasks : q # t => pc'[q] = pc[q]
    BY <1>4, OthersUntouched
  <2> QED
    BY <1>1, <2>2, <2>3 DEF OneAtATime
<1>5. CASE ArriveLate \/ UNCHANGED vars
  BY <1>1, <1>5, LateFacts DEF OneAtATime
<1> QED
  BY <1>2, <1>3, <1>4, <1>5 DEF Next

\* While no fault has happened what may reach the device has every accepted edit.
LEMMA StepLost ==
    TypeOK /\ WorkIsChecked /\ OneAtATime /\ NothingLost /\ FaultIsItsOwn /\ [Next]_vars => NothingLost'
<1> DEFINE Has(c) == \A q \in Tasks : outcome'[q] = "changed" => q \in c.edits
           Goal == /\ Has(cfg')
                   /\ \A t \in Tasks : pc'[t] \in AtWork => Has(original'[t])
                   /\ \A c \in late' : Has(c)
<1> SUFFICES ASSUME TypeOK, WorkIsChecked, OneAtATime, NothingLost, FaultIsItsOwn, [Next]_vars,
                    ~overlap', faults' = 0
             PROVE  Goal
  BY DEF NothingLost, HasAccepted
<1>1. ~overlap /\ faults = 0
  BY HistoryGrows
<1>2. /\ HasAccepted(cfg)
      /\ \A t \in Tasks : pc[t] \in AtWork => HasAccepted(original[t])
      /\ \A c \in late : HasAccepted(c)
  BY <1>1 DEF NothingLost
<1>3. \A t \in Tasks : pc[t] \in AtWork => HasAccepted(content[t])
  BY <1>2 DEF WorkIsChecked, HasAccepted
<1>4. ASSUME \A q \in Tasks : outcome'[q] = "changed" => outcome[q] = "changed", NEW c, HasAccepted(c)
      PROVE  Has(c)
  BY <1>4 DEF HasAccepted
<1>5. ASSUME NEW p \in Tasks, Task(p), outcome'[p] # "changed" \/ outcome' = outcome
      PROVE  \A q \in Tasks : outcome'[q] = "changed" => outcome[q] = "changed"
  BY <1>5, OthersUntouched
<1>6. ASSUME NEW p \in Tasks, Task(p), NEW t \in Tasks, pc'[t] \in AtWork, t # p
      PROVE  HasAccepted(original'[t])
  BY <1>2, <1>6, OthersUntouched
<1> HIDE DEF Has
<1>7. ASSUME NEW p \in Tasks, Start(p) PROVE Goal
  <2>1. /\ UNCHANGED <<cfg, late>> /\ original'[p] = cfg
        /\ \A q \in Tasks : outcome'[q] = "changed" => outcome[q] = "changed"
    BY <1>5, <1>7, StartFacts DEF Task
  <2>2. \A t \in Tasks : pc'[t] \in AtWork => HasAccepted(original'[t])
    BY <1>2, <1>6, <1>7, <2>1 DEF Task
  <2> QED
    BY <1>2, <1>4, <2>1, <2>2
<1>8. ASSUME NEW p \in Tasks, Preview(p) \/ Unreadable(p) \/ ReadBackFails(p) PROVE Goal
  <2>1. /\ UNCHANGED <<cfg, late>> /\ pc'[p] \notin AtWork
        /\ \A q \in Tasks : outcome'[q] = "changed" => outcome[q] = "changed"
    BY <1>5, <1>8, QuietFacts DEF Task
  <2> QED
    BY <1>2, <1>4, <1>6, <1>8, <2>1 DEF Task
<1>9. ASSUME NEW p \in Tasks, Write(p) \/ WriteGarbled(p) PROVE Goal
  <2>1. /\ cfg' = content[p] /\ UNCHANGED late /\ pc[p] \in AtWork /\ original'[p] = original[p]
        /\ \A q \in Tasks : outcome'[q] = "changed" => outcome[q] = "changed"
    BY <1>1, <1>5, <1>9, WriteFacts DEF Task, AtWork
  <2> QED
    BY <1>2, <1>3, <1>4, <1>6, <1>9, <2>1 DEF Task
<1>10. ASSUME NEW p \in Tasks, WriteFails(p) PROVE Goal
  <2>1. /\ cfg' \in {cfg, content[p]} /\ late' \subseteq late \cup {content[p]}
        /\ pc[p] \in AtWork /\ pc'[p] \notin AtWork
        /\ \A q \in Tasks : outcome'[q] = "changed" => outcome[q] = "changed"
    BY <1>5, <1>10, WriteFailsFacts DEF Task, AtWork
  <2> QED
    BY <1>2, <1>3, <1>4, <1>6, <1>10, <2>1 DEF Task
<1>11. ASSUME NEW p \in Tasks, Restore(p) PROVE Goal
  <2>1. /\ cfg' \in {cfg, original[p]} /\ late' \subseteq late \cup {original[p]}
        /\ pc[p] \in AtWork /\ pc'[p] \notin AtWork
        /\ \A q \in Tasks : outcome'[q] = "changed" => outcome[q] = "changed"
    BY <1>5, <1>11, RestoreFacts DEF Task, AtWork
  <2> QED
    BY <1>2, <1>4, <1>6, <1>11, <2>1 DEF Task
<1>12. ASSUME NEW p \in Tasks, ReadBack(p) PROVE Goal
  <2>1. pc[p] \in AtWork /\ UNCHANGED <<cfg, late, original>>
    BY <1>12, ReadBackFacts DEF AtWork
  <2>2. cfg = content[p] /\ p \in cfg.edits /\ late = {}
    BY <1>1, <1>12, <2>1, ReadBackFacts DEF FaultIsItsOwn, Undoable, WorkIsChecked, OneAtATime
  <2>3. \A t \in Tasks : pc'[t] \in AtWork => t = p
    BY <1>1, <1>12, <2>1, OthersUntouched DEF Task, OneAtATime
  <2>4. CASE pc'[p] = "ended"
    <3>1. \A q \in Tasks : outcome'[q] = "changed" => outcome[q] = "changed" \/ q = p
      BY <1>12, OthersUntouched DEF Task
    <3>2. Has(cfg)
      BY <1>2, <2>2, <3>1 DEF Has, HasAccepted
    <3> QED
      BY <2>1, <2>2, <2>3, <2>4, <3>2 DEF AtWork
  <2>5. CASE outcome' = outcome
    BY <1>2, <1>4, <2>1, <2>2, <2>3, <2>5
  <2> QED
    BY <1>12, <2>4, <2>5, ReadBackFacts
<1>13. CASE ArriveLate \/ UNCHANGED vars
  <2>1. UNCHANGED <<pc, original, outcome>> /\ cfg' \in late \cup {cfg} /\ late' \subseteq late
    BY <1>13, LateFacts
  <2> QED
    BY <1>2, <1>4, <2>1
<1> QED
  BY <1>7, <1>8, <1>9, <1>10, <1>11, <1>12, <1>13 DEF Next, Task

\* A read-back that does not find what was written follows a fault of this very
\* write; so what the task would restore is sound and has every accepted edit.
LEMMA StepOwnFault ==
    TypeOK /\ AllSound /\ WorkIsChecked /\ OneAtATime /\ NothingLost /\ FaultIsItsOwn /\ [Next]_vars
        => FaultIsItsOwn'
<1> SUFFICES ASSUME TypeOK, AllSound, WorkIsChecked, OneAtATime, NothingLost, FaultIsItsOwn,
                    [Next]_vars, ~overlap', faults' \in {0, 1}, NEW t \in Tasks,
                    pc'[t] \in {"verifying", "restoring"}
             PROVE  \/ pc'[t] = "verifying" /\ cfg' = content'[t]
                    \/ Undoable(t)'
  BY DEF FaultIsItsOwn
<1>1. ~overlap /\ faults \in {0, 1}
  BY HistoryGrows
<1>2. ASSUME pc[t] \in {"verifying", "restoring"}, pc'[t] = pc[t],
             UNCHANGED <<cfg, faults>>, original'[t] = original[t], content'[t] = content[t],
             \A q \in Tasks : outcome'[q] = "changed" => outcome[q] = "changed"
      PROVE  (pc'[t] = "verifying" /\ cfg' = content'[t]) \/ Undoable(t)'
  BY <1>1, <1>2 DEF FaultIsItsOwn, Undoable, HasAccepted, Sound
<1>3. ASSUME NEW p \in Tasks, Task(p), p # t
      PROVE  (pc'[t] = "verifying" /\ cfg' = content'[t]) \/ Undoable(t)'
  <2>1. /\ pc'[t] = pc[t] /\ pc[t] \in AtWork
        /\ original'[t] = original[t] /\ content'[t] = content[t]
    BY <1>3, OthersUntouched DEF AtWork
  <2>2. pc[p] \notin AtWork
    BY <1>1, <1>3, <2>1 DEF OneAtATime
  <2>3. Preview(p) \/ Unreadable(p) \/ Start(p)
    BY <1>3, <2>2 DEF Task, Write, WriteGarbled, WriteFails, ReadBack, ReadBackFails, Restore, AtWork
  <2>4. UNCHANGED <<cfg, faults>> /\ outcome'[p] # "changed"
    BY <2>3, QuietFacts, StartFacts
  <2>5. \A q \in Tasks : outcome'[q] = "changed" => outcome[q] = "changed"
    BY <1>3, <2>4, OthersUntouched
  <2> QED
    BY <1>2, <2>1, <2>4, <2>5
<1>4. CASE Write(t) \/ WriteGarbled(t)
  <2>1. /\ pc[t] = "writing" /\ pc'[t] = "verifying" /\ outcome' = outcome
        /\ UNCHANGED <<original, content>>
        /\ (cfg' = content[t] /\ faults' = faults) \/ faults' = faults + 1
    BY <1>4, WriteFacts
  <2>2. CASE cfg' = content[t]
    BY <2>1, <2>2
  <2>3. CASE faults' = faults + 1
    <3>1. faults = 0 /\ faults' = 1
      BY <1>1, <2>3
    <3>2. Sound(original[t]) /\ HasAccepted(original[t])
      BY <1>1, <2>1, <3>1 DEF AllSound, NothingLost, AtWork
    <3> QED
      BY <2>1, <3>1, <3>2 DEF Undoable, HasAccepted, Sound
  <2> QED
    BY <2>1, <2>2, <2>3
<1>5. CASE ReadBack(t)
  <2>1. /\ pc[t] = "verifying" /\ UNCHANGED <<cfg, original, content, faults>>
        /\ ~Acceptable(original[t], cfg) /\ outcome' = outcome
    BY <1>5, ReadBackFacts
  <2>2. cfg # content[t]
    BY <2>1 DEF WorkIsChecked, AtWork
  <2>3. Undoable(t)
    BY <1>1, <2>1, <2>2 DEF FaultIsItsOwn
  <2> QED
    BY <2>1, <2>3 DEF Undoable, HasAccepted, Sound
<1>6. CASE Preview(t) \/ Unreadable(t) \/ ReadBackFails(t)
  BY <1>6, QuietFacts DEF AtWork
<1>7. CASE Start(t) \/ WriteFails(t) \/ Restore(t)
  BY <1>7, StartFacts, WriteFailsFacts, RestoreFacts
<1>8. CASE ArriveLate \/ UNCHANGED vars
  <2>1. /\ UNCHANGED <<pc, original, content, outcome, faults>>
        /\ late = {} => cfg' = cfg
    BY <1>8, LateFacts
  <2>2. late = {}
    BY <1>1, <2>1 DEF OneAtATime, AtWork
  <2> QED
    BY <1>2, <2>1, <2>2
<1> QED
  BY <1>3, <1>4, <1>5, <1>6, <1>7, <1>8 DEF Next, Task

LEMMA InitSerial == Init => SerialInv
<1> SUFFICES ASSUME Init PROVE SerialInv
  OBVIOUS
<1>1. \A t \in Tasks : pc[t] = "idle" /\ outcome[t] = "none"
  BY DEF Init
<1>2. EditsAreStarted
  BY DEF Init, EditsAreStarted, Factory
<1>3. WorkIsChecked /\ OneAtATime /\ FaultIsItsOwn
  BY <1>1 DEF WorkIsChecked, OneAtATime, FaultIsItsOwn, AtWork
<1>4. NothingLost
  BY <1>1 DEF Init, NothingLost, HasAccepted, AtWork
<1> QED
  BY <1>2, <1>3, <1>4 DEF SerialInv

LEMMA SerialInductive == Spec => [](TypeOK /\ AllSound /\ SerialInv)
<1>1. TypeOK /\ AllSound /\ SerialInv /\ [Next]_vars => SerialInv'
  BY StepStarted, StepChecked, StepAlone, StepLost, StepOwnFault DEF SerialInv
<1> QED
  BY <1>1, InitTypeOK, StepTypeOK, InitAllSound, StepAllSound, InitSerial, PTL DEF Spec

\* Batches that do not overlap on a device that stores what it is sent keep each
\* other's edits: however old their previews are, and whichever of them failed.
THEOREM SerialBatchesAreKept == Spec => []SerialBatchesKeepEdits
<1>1. SerialInv => SerialBatchesKeepEdits
  BY DEF SerialInv, NothingLost, SerialBatchesKeepEdits, HasAccepted
<1> QED
  BY <1>1, SerialInductive, PTL

\* A restore after the only fault, with nobody else at work, leaves on the device
\* a sound configuration with every accepted edit and without the one that failed.
THEOREM RestoreUndoes == Spec => LoneRestoreUndoes
<1> DEFINE Undone ==
             \A t \in Tasks :
                 pc[t] = "restoring" /\ pc'[t] = "ended" /\ ~overlap /\ faults = 1 /\ cfg' # cfg =>
                     /\ Sound(cfg')
                     /\ t \notin cfg'.edits
                     /\ \A q \in Tasks : outcome[q] = "changed" => q \in cfg'.edits
<1>1. TypeOK /\ SerialInv /\ [Next]_vars => Undone
  <2> SUFFICES ASSUME TypeOK, SerialInv, [Next]_vars, NEW t \in Tasks,
                      pc[t] = "restoring", pc'[t] = "ended", ~overlap, faults = 1, cfg' # cfg
               PROVE  /\ Sound(cfg')
                      /\ t \notin cfg'.edits
                      /\ \A q \in Tasks : outcome[q] = "changed" => q \in cfg'.edits
    OBVIOUS
  <2>1. Restore(t)
    <3>1. ~(ArriveLate \/ UNCHANGED vars)
      BY LateFacts
    <3>2. PICK p \in Tasks : Task(p)
      BY <3>1 DEF Next
    <3>3. p = t
      BY <3>2, OthersUntouched
    <3> QED
      BY <3>2, <3>3 DEF Task, Preview, Unreadable, Start, Write, WriteGarbled, WriteFails, ReadBack,
                        ReadBackFails
  <2>2. cfg' = original[t]
    BY <2>1, RestoreFacts
  <2>3. Sound(original[t]) /\ HasAccepted(original[t]) /\ t \notin original[t].edits
    BY DEF SerialInv, FaultIsItsOwn, Undoable, WorkIsChecked, AtWork
  <2> QED
    BY <2>2, <2>3 DEF HasAccepted
<1> QED
  BY <1>1, SerialInductive, PTL DEF Spec, LoneRestoreUndoes

=============================================================================
