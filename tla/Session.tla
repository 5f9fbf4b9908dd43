------------------------------- MODULE Session -------------------------------
(***************************************************************************)
(* The program from main() to its exit: a run without a window, one with a *)
(* window that is fed as it is simulated, or the replay of a file; and, if *)
(* the configuration says so, a second process that replays what the first *)
(* has saved.  The cursor counts half frames.                              *)
(***************************************************************************)
EXTENDS SimRun, FiniteSetsExt

VARIABLES
  process,  \* which of the two processes
  mode,     \* of this process
  file,     \* the items on disk, none if there is no file
  csv,      \* the summaries that appendCsv has added
  viz,      \* the window
  saved     \* history: the recording in the file, and the format

ioVars == <<file, csv, saved>>
sessionVars == <<conf, pc, exit, simVars, process, mode, ioVars, viz>>

IsSequence(s) == Len(s) \in Nat /\ s = [i \in 1 .. Len(s) |-> s[i]]

\* A recording as a run leaves it: every car has the same frames, one every decimation ticks.
IsRecording(r) ==
  /\ {r.meta.cars, r.meta.decimation} \subseteq Nat
  /\ IsSequence(r.offsets) /\ IsSequence(r.summary) /\ IsSequence(r.frames)
  /\ Len(r.frames) = r.meta.cars
  /\ \A v \in 1 .. r.meta.cars :
       /\ IsSequence(r.frames[v]) /\ Len(r.frames[v]) = Len(r.frames[1])
       /\ \A i \in 1 .. Len(r.frames[v]) :
            LET f == r.frames[v][i] IN f.t = (i - 1) * r.meta.decimation /\ f.phys = f.t

\* was: the recording that there is a file of to begin with, in the format version; again: a
\* second process replays; kill: a process may die while it saves; keys: what the user may
\* press; maxTicks and maxAdvance bound the time between two pictures.
SessionConfiguration(c) ==
  /\ c.mode \in {"headless", "live", "replay"}
  /\ {c.save, c.csv, c.again, c.kill} \subseteq BOOLEAN
  /\ IsRecording(c.was) /\ c.version \in Nat
  /\ {c.select, c.screenshotAt, c.maxAdvance} \subseteq Nat
  /\ c.maxTicks \in Nat \ {0}
  /\ c.keys \subseteq {"space", "bracket", "arrows", "drag"}

ASSUME SessionAssumption == \A c \in DOMAIN Config : SessionConfiguration(Config[c])

\* A Visualizer; gFrame and the members are one record.
NewWindow ==
  [cursor |-> 0, playing |-> TRUE, selected |-> C.select, frame |-> 0, drawn |-> 0,
   cached |-> [car |-> -1, frame |-> -1], replayPred |-> NoOverlay, shown |-> NoOverlay]

NoneButWindow == UNCHANGED <<conf, exit, simVars, process, mode, ioVars>>

Live == mode = "live" /\ ~Finished
Frames(v) == rec.frames[v]
Available == IF rec.frames = <<>> THEN 0 ELSE Len(Frames(1))
LastFrame == Max({0, Available - 1})
Clamp(x) == Max({0, Min({x, 2 * LastFrame})})
CanScrub == mode = "replay" \/ Finished

-----------------------------------------------------------------------------
(* main *)

Init ==
  /\ conf \in DOMAIN Config
  /\ pc = "launch" /\ exit = -1 /\ process = 1 /\ mode = C.mode
  /\ fmu = [v \in Car |-> Initialized]
  /\ wrapper = [v \in Car |-> NewWrapper]
  /\ sim = NewSim
  /\ rec = NewRecording
  /\ pred = [v \in Car |-> NoOverlay]
  /\ asked = [v \in Car |-> NothingAsked] /\ served = asked
  /\ samples = [v \in Car |-> <<>>]
  /\ saved = [rec |-> C.was, version |-> C.version]
  /\ LET whole == Layout(C.was, C.version)
     IN \E n \in IF C.kill THEN 0 .. Len(whole) ELSE {Len(whole)} : file = SubSeq(whole, 1, n)
  /\ csv = <<>>
  /\ viz = NewWindow

Quit(status) ==
  /\ pc' = "done" /\ exit' = status
  /\ UNCHANGED <<conf, simVars, process, mode, ioVars, viz>>

LoadFile ==
  /\ pc = "launch" /\ mode = "replay"
  /\ \/ Load(file) = Rejected /\ Quit(1)
     \/ /\ Load(file) # Rejected
        /\ pc' = "input" /\ rec' = Load(file) /\ viz' = NewWindow
        /\ UNCHANGED <<conf, exit, driveVars, sim, pred, samples, process, mode, ioVars>>

\* --headless calls runToCompletion, which runs until step() returns false.
StartHeadless ==
  /\ pc = "launch" /\ mode = "headless"
  /\ Start("tick")
  /\ UNCHANGED <<process, mode, ioVars, viz>>

StartLive ==
  /\ pc = "launch" /\ mode = "live"
  /\ Start("input")
  /\ UNCHANGED <<process, mode, ioVars, viz>>

\* A step() of the loop of runToCompletion or of updateCursor.
Step ==
  /\ SetInputs \/ Advance
  /\ UNCHANGED <<process, mode, ioVars, viz>>

\* The loop has done its steps, or step() returns false.
Stepped ==
  /\ pc = "tick" /\ (sim.left = 0 \/ Finished)
  /\ pc' = IF mode = "live" THEN "cursor" ELSE "csv"
  /\ NoneButWindow /\ UNCHANGED viz

\* appendCsv
AppendCsv ==
  /\ pc = "csv"
  /\ pc' = "open"
  /\ csv' = IF C.csv THEN rec.summary ELSE csv
  /\ UNCHANGED <<conf, exit, simVars, process, mode, file, saved, viz>>

\* RunRecording::save truncates the file, then writes item after item.
Open ==
  /\ pc = "open"
  /\ \/ ~C.save /\ Quit(0)
     \/ /\ C.save
        /\ pc' = "save" /\ file' = <<>> /\ saved' = [rec |-> rec, version |-> Version]
        /\ UNCHANGED <<conf, exit, simVars, process, mode, csv, viz>>

Whole == Layout(saved.rec, saved.version)

Save ==
  /\ pc = "save"
  /\ \/ file = Whole /\ Quit(0)
     \/ /\ file # Whole
        /\ file' = Append(file, Whole[Len(file) + 1])
        /\ UNCHANGED <<conf, pc, exit, simVars, process, mode, csv, saved, viz>>

\* The process is killed while it saves.
Kill == pc = "save" /\ C.kill /\ Quit(2)

\* The saved file is replayed by a new process.
Relaunch ==
  /\ pc = "done" /\ process = 1 /\ C.again
  /\ process' = 2 /\ mode' = "replay" /\ pc' = "launch" /\ exit' = -1
  /\ UNCHANGED <<conf, simVars, ioVars, viz>>

-----------------------------------------------------------------------------
(* The Visualizer *)

\* After the loop: live mode saves what there is, finished or not.
AfterWindow == IF mode = "replay" THEN "closed" ELSE "open"

CloseWindow ==
  /\ pc = "input"
  /\ pc' = AfterWindow
  /\ NoneButWindow /\ UNCHANGED viz

Closed == pc = "closed" /\ Quit(0)

\* Fault: one car too many.
NextCarOffByOne(car) == (car + 1) % (rec.meta.cars + 1)

NextCar(car) == IF rec.meta.cars = 0 THEN car ELSE (car + 1) % rec.meta.cars

\* handleInput: at most one key between two pictures.
HandleInput ==
  /\ pc = "input"
  /\ pc' = "update"
  /\ \/ viz' = viz
     \/ "space" \in C.keys /\ viz' = [viz EXCEPT !.playing = ~@]
     \/ "bracket" \in C.keys /\ viz' = [viz EXCEPT !.selected = NextCar(@)]
     \/ /\ "arrows" \in C.keys /\ CanScrub
        /\ \E by \in -C.maxAdvance .. C.maxAdvance :
             viz' = [viz EXCEPT !.playing = FALSE, !.cursor = Clamp(@ + by)]
  /\ NoneButWindow

\* Fault: playback stops only beyond the last frame, where the cursor is not let.
PlayedBeyond(w, by) ==
  IF w.cursor + by <= 2 * (Available - 1) THEN [w EXCEPT !.cursor = @ + by]
  ELSE [w EXCEPT !.cursor = 2 * (Available - 1)]

Played(w, by) ==
  IF w.cursor + by < 2 * (Available - 1) THEN [w EXCEPT !.cursor = @ + by]
  ELSE [w EXCEPT !.cursor = 2 * (Available - 1), !.playing = FALSE]

At(w) == [w EXCEPT !.frame = Clamp(w.cursor) \div 2]

\* updateCursor of a replay or a finished run; by is the time since the last picture.
UpdateCursor(by) ==
  /\ pc = "update" /\ ~Live
  /\ pc' = "draw"
  /\ viz' = At(IF viz.playing THEN Played(viz, by) ELSE viz)
  /\ NoneButWindow

\* updateCursor of a run that is not finished: it advances while it plays.
UpdateLive ==
  /\ pc = "update" /\ Live
  /\ \/ ~viz.playing /\ pc' = "cursor" /\ UNCHANGED sim
     \/ /\ viz.playing /\ pc' = "tick"
        /\ \E ticks \in 1 .. C.maxTicks : sim' = [sim EXCEPT !.left = ticks]
  /\ UNCHANGED <<conf, exit, driveVars, rec, pred, samples, process, mode, ioVars, viz>>

UpdateLiveCursor ==
  /\ pc = "cursor"
  /\ pc' = "draw"
  /\ viz' = At([viz EXCEPT !.cursor = 2 * LastFrame])
  /\ NoneButWindow

Selected == viz.selected + 1
ShownFrame == Frames(Selected)[viz.frame + 1]

\* The drawing indexes a vector beyond its end; a car without frames is skipped, unless it is
\* the selected one.
InRange(v) == v \in DOMAIN rec.frames /\ viz.frame < Len(Frames(v))
BeyondEnd ==
  Available > 0 /\ ~ /\ InRange(Selected)
                     /\ \A v \in 1 .. rec.meta.cars :
                          InRange(v) \/ (v \in DOMAIN rec.frames /\ Frames(v) = <<>>)

\* Fault: the cache is looked up by the frame only.
CachedByFrame(w) == w.cached.frame = w.frame

CachedFor(w) == w.cached = [car |-> w.selected, frame |-> w.frame]

\* A replay computes the prediction again from what the frame holds.
Recomputed ==
  [car |-> Selected, from |-> ShownFrame.phys,
   base |-> IF rec.plant.kind = "pole" THEN viz.frame * rec.meta.decimation ELSE ShownFrame.ref]

\* currentPrediction
WithOverlay(w) ==
  IF Live THEN [w EXCEPT !.shown = pred[Selected]]
  ELSE IF rec.version < 4 THEN [w EXCEPT !.shown = NoOverlay]
  ELSE IF CachedFor(w) THEN [w EXCEPT !.shown = w.replayPred]
  ELSE [w EXCEPT !.shown = Recomputed, !.replayPred = Recomputed,
                 !.cached = [car |-> w.selected, frame |-> w.frame]]

\* drawTimeline: a click or a drag moves the cursor.
Dragged(w) ==
  IF "drag" \in C.keys /\ CanScrub /\ Available > 0
    THEN {w} \cup {[w EXCEPT !.cursor = to, !.playing = FALSE] : to \in 0 .. 2 * LastFrame}
    ELSE {w}

\* The rest of the loop; the pictures are counted for the screenshot.
Draw ==
  /\ pc = "draw" /\ ~BeyondEnd
  /\ \E w \in Dragged(IF Available > 0 THEN WithOverlay(viz) ELSE viz) :
       viz' = [w EXCEPT !.drawn = IF C.screenshotAt > 0 THEN @ + 1 ELSE @]
  /\ pc' = IF viz'.drawn >= C.screenshotAt /\ C.screenshotAt > 0 THEN AfterWindow ELSE "input"
  /\ NoneButWindow

\* What happens then is anybody's guess.
DrawBeyondEnd ==
  /\ pc = "draw" /\ BeyondEnd
  /\ pc' = "undefined"
  /\ NoneButWindow /\ UNCHANGED viz

-----------------------------------------------------------------------------
Program ==
  \/ LoadFile \/ StartHeadless \/ StartLive \/ Step \/ Stepped \/ AppendCsv \/ Open \/ Save
  \/ Closed \/ HandleInput \/ UpdateLive \/ UpdateLiveCursor \/ Draw \/ DrawBeyondEnd
  \/ \E by \in 0 .. C.maxAdvance : UpdateCursor(by)

Next == Program \/ Kill \/ Relaunch \/ CloseWindow

\* Time passes between two pictures, if not between every two.
Spec ==
  /\ Init /\ [][Next]_sessionVars
  /\ WF_sessionVars(Program)
  /\ SF_sessionVars(\E by \in 1 .. C.maxAdvance : UpdateCursor(by))

-----------------------------------------------------------------------------
(* Properties *)

\* Every tick every plant is driven once, by its references and by the pulses of that tick,
\* though the wrapper writes only what it believes has changed.
PulsedSpec == Pulsed!Spec

Total(errors) == FoldSeq(LAMBDA error, sum : sum + Cost(error), 0, errors)
Beyond(errors) == Cardinality({i \in DOMAIN errors : errors[i] > 0})
LastOf(s, n) == SubSeq(s, Max({1, Len(s) - n + 1}), Len(s))

\* updatePerformanceWindow subtracts what the ring overwrites: the rolling sum is that of the
\* last PERF_WINDOW_SIZE samples, and the totals are those of the whole run.
RollingExact ==
  mode # "replay" /\ pc \in {"tick", "advance"} =>
    \A v \in Car :
      LET m == fmu[v].metrics
          window == LastOf(samples[v], PerfWindow)
      IN /\ m.sum = Total(window) /\ m.count = Len(window)
         /\ m.total = Total(samples[v]) /\ m.violations = Beyond(samples[v])
         /\ m.count > 0 => Rolling(m) = Total(window) \div Len(window)

\* The summary is made once, of all of the run, and agrees with the frames; the soft flag of
\* a frame is that of its tick or of the latest sample.  The share of soft violations counts
\* a whole period for every sample and may be beyond 100 by less than one period.
SummaryAgrees ==
  /\ mode # "replay" =>
       \A v \in Car :
         LET s == rec.summary[v]
             frames == Frames(v)
         IN /\ \A i \in DOMAIN frames :
                 LET sampled == samples[v][(frames[i].t \div MetricPeriod) + 1]
                 IN "soft" \in frames[i].flags <=> frames[i].error > 0 \/ sampled > 0
            /\ ~sim.finalized => s = NoSummary /\ ~Finished
            /\ sim.finalized =>
                 /\ {frames[i].t : i \in DOMAIN frames} =
                      {t \in 0 .. C.duration - 1 : t % C.decimation = 0}
                 /\ s.hard = Cardinality({i \in DOMAIN frames : "hard" \in frames[i].flags})
                 /\ s.maxRolling = Max({0} \cup {frames[i].rolling : i \in DOMAIN frames})
                 /\ s.violations = Beyond(samples[v])
                 /\ s.softPct * C.duration < 100 * (C.duration + MetricPeriod)
  /\ csv # <<>> => sim.finalized /\ mode # "live"
  /\ pc = "save" /\ mode = "headless" => sim.finalized

InFormat(r, version) ==
  [version |-> version, meta |-> r.meta, offsets |-> r.offsets,
   plant |-> IF version >= 5 THEN r.plant ELSE CarPlant,
   summary |-> [i \in DOMAIN r.summary |-> SummaryIn(version, r.summary[i])],
   frames |-> [v \in DOMAIN r.frames |->
                 [i \in DOMAIN r.frames[v] |-> FrameIn(version, r.frames[v][i])]]]

\* What is saved is what is loaded, in every format that is read, up to what the format does
\* not store; other versions are refused.  A file that was cut off is not refused: all that
\* it yields is the recording's own, or zero.
RoundTrip ==
  /\ pc \in {"launch", "save"} \/ (pc = "input" /\ mode = "replay" /\ viz = NewWindow) =>
       LET loaded == Load(file)
           original == InFormat(saved.rec, saved.version)
       IN /\ file = Whole =>
               loaded = IF saved.version \in 2 .. Version THEN original ELSE Rejected
          /\ Len(file) < 2 => loaded = Rejected
          /\ loaded # Rejected =>
               /\ saved.version \in 2 .. Version
               /\ loaded.meta \in {original.meta, NoMeta}
               /\ \A i \in DOMAIN loaded.summary :
                    loaded.summary[i] \in {original.summary[i], NoSummary}
               /\ \A v \in DOMAIN loaded.frames : \A i \in DOMAIN loaded.frames[v] :
                    loaded.frames[v][i] \in {original.frames[v][i], NoFrame}
          /\ pc = "input" => rec = loaded
  /\ exit = 0 /\ mode # "replay" /\ C.save => file = Whole

\* currentPrediction: the overlay belongs to the selected car and to the frame in view, not
\* to one seen before.  Live it is the simulation's, which starts at the next tick; computed
\* again it starts at the frame's own tick, one tick earlier.
OverlayOfFrame ==
  pc = "input" /\ viz.shown # NoOverlay =>
    LET f == Frames(Selected)[viz.frame + 1]
        o == viz.shown
    IN /\ o.car = Selected
       /\ Live => /\ viz.frame = Available - 1
                  /\ o.from = ((sim.step - 1) \div C.refresh) * C.refresh
                  /\ o.base = RefStep(Selected, o.from + 1)
                  /\ C.refresh = C.decimation => o.from = f.t
       /\ ~Live /\ f # NoFrame =>
            o.from = f.t /\ o.base = IF rec.plant.kind = "pole" THEN f.t ELSE f.ref

\* The program does not index beyond a recording unless its file was cut off or --select
\* names a car that the fleet does not have.
ReplayDefined == pc = "undefined" => file # Whole \/ C.select >= rec.meta.cars

\* A run without a window ends; playback ends, be it of a replay or of a live run, unless the
\* user ends it before; and a picture that is asked for closes the window.
EveryRunEnds ==
  /\ mode = "headless" ~> pc = "done"
  /\ viz.playing /\ pc \notin {"launch", "done"} ~> ~viz.playing \/ pc \in {"done", "undefined"}
  /\ C.screenshotAt > 0 /\ pc = "input" ~> pc \in {"done", "undefined"}
=============================================================================
