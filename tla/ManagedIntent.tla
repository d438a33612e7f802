---------------------------- MODULE ManagedIntent ---------------------------
(***************************************************************************)
(* The intent markers that keep the platform's own stops from being taken  *)
(* for crashes (src/managed/ha-intent.ts, ha-command-hooks.ts, the begin   *)
(* and the end of a command in src/commands/command-router.ts) and the     *)
(* dead-primary probe that reads them (src/instance/                       *)
(* pg-dead-primary-observe.ts, src/managed/pg-dead-primary.ts).            *)
(*                                                                         *)
(* One watched Postgres primary on one host.  A command that may take its  *)
(* engine down writes a marker before its handler runs and refreshes it    *)
(* after; the probe ticks at its own pace, every await of either is a      *)
(* point where the other comes in, and the daemon may die anywhere.  Time  *)
(* is left out: a lifetime, a grace or a back-off that ends is an event.   *)
(***************************************************************************)
EXTENDS Naturals, FiniteSets

CONSTANTS
  Command,     \* commands on the cluster under way at once (managed.*)
  HostCommand, \* the same for commands that name no cluster (storage.restore,
               \* server.reboot)
  Probe,       \* the probe, as the writer of a marker
  Threshold,   \* failureThreshold: hard failures in a row that mean dead
  MaxEvents,   \* maxEventsPerIncident
  Races,       \* the probe may release a marker while a command begins, runs
               \* or ends
  MaxCommands, \* bound: commands that are begun
  MaxMishaps   \* bound: deaths of the daemon, lost sessions, samples and host
               \* checks that tell nothing, marker writes that fail

Commands == Command \cup HostCommand

\* One failure must never be enough, nor two: the sample of an engine that a
\* destroy removes before its marker is read counts, and so does the one taken
\* on the first tick after a restart when a cut-off stop has outlived its marker.
ASSUME IntentAssumption ==
  /\ IsFiniteSet(Commands) /\ Command \cap HostCommand = {} /\ Probe \notin Commands
  /\ Threshold \in Nat /\ Threshold >= 3 /\ MaxEvents \in Nat \ {0}
  /\ Races \in BOOLEAN /\ {MaxCommands, MaxMishaps} \subseteq Nat

VARIABLES
  memory,   \* memory: what this process wrote last, per key
  disk,     \* the marker files, per key
  cmd,      \* per command: where it stands
  engine,   \* the engine container; when it is down, why
  listed,   \* the member record is there and no destroy is on record
  watch,    \* ClusterWatch with its DeadPrimaryDetector
  checked,  \* #startupChecked
  tick,     \* the tick in flight
  session,  \* closed; open; the peer's features known
  report,   \* observer: this incident was reported, and why the engine was down
            \* in the samples of the event
  lost,     \* observer: the cluster's last marker is not on disk
  begun, mishaps  \* bounds

markers  == <<memory, disk, lost>>
probe    == <<watch, checked, tick, report>>
host     == <<engine, listed>>
commands == <<cmd, begun>>
vars     == <<markers, probe, host, commands, session, mishaps>>

-----------------------------------------------------------------------------
Key == {"cluster", "host"}

\* ManagedIntentKind.  restart, promote and failover move a marker as apply
\* does, a reboot as a restore of the whole host does; that a marker lives 60 s
\* or 10 min is in when it ends, not in what it is.
Kind == {"start", "stop", "apply", "restore", "destroy"}

\* ManagedIntent: running until its command ends, transient for a while after
\* that, or held; `over` once its lifetime and its grace have passed.  Kind and
\* writer are kept where they are read: of a running marker.
Marker == [kind : Kind \cup {"none"},
           mode : {"absent", "cleared", "running", "transient", "held", "unreadable"},
           by : Commands \cup {Probe}, over : BOOLEAN]
NoMarker(mode) == [kind |-> "none", mode |-> mode, by |-> Probe, over |-> FALSE]
Absent == NoMarker("absent")
RunningMarker(kind, c) == [kind |-> kind, mode |-> "running", by |-> c, over |-> FALSE]

Down == {"crashed", "failed", "taken", "stopped", "halted", "gone"}
\* Down for reasons of its own: what the probe is there to report.
Dead == {"crashed", "failed"}

IdleCmd == [pc |-> "idle", kind |-> "start", own |-> FALSE, took |-> FALSE]
FreshWatch == [streak |-> 0, seen |-> {}, healthy |-> "no", events |-> 0, quiet |-> FALSE]
IdleTick == [pc |-> "idle", sample |-> "none", cause |-> "up", active |-> FALSE,
             heldMarker |-> FALSE, stopRunning |-> FALSE, overdue |-> FALSE, seen |-> {}]

TypeOK ==
  /\ memory \in [Key -> Marker] /\ disk \in [Key -> Marker]
  /\ cmd \in [Commands -> [pc : {"idle", "running"}, kind : Kind,
                           own : BOOLEAN, took : BOOLEAN]]
  /\ engine \in Down \cup {"up"} /\ listed \in BOOLEAN
  /\ watch \in [streak : 0 .. Threshold, seen : SUBSET Down,
                healthy : {"no", "since", "long"},
                events : 0 .. MaxEvents, quiet : BOOLEAN]
  /\ checked \in BOOLEAN
  /\ tick \in [pc : {"idle", "sample", "intent", "judge", "emit"},
               sample : {"none", "healthy", "hard", "soft", "unknown"},
               cause : Down \cup {"up"}, active : BOOLEAN, heldMarker : BOOLEAN,
               stopRunning : BOOLEAN, overdue : BOOLEAN, seen : SUBSET Down]
  /\ session \in {"closed", "open", "known"}
  /\ report \subseteq Down /\ lost \in BOOLEAN
  /\ begun \in 0 .. MaxCommands /\ mishaps \in 0 .. MaxMishaps

Init ==
  /\ memory = [k \in Key |-> Absent] /\ disk = [k \in Key |-> Absent]
  /\ cmd = [c \in Commands |-> IdleCmd]
  /\ engine = "up" /\ listed = TRUE /\ watch = FreshWatch /\ checked = FALSE
  /\ tick = IdleTick /\ session = "closed" /\ report = {}
  /\ lost = FALSE /\ begun = 0 /\ mishaps = 0

Mishap == mishaps < MaxMishaps /\ mishaps' = mishaps + 1
NoMishap == mishaps' = mishaps

Running(c) == cmd[c].pc = "running"
\* #startupCheck: a stop that a daemon restart cut off is held.
NeverHoldsStop == FALSE
HoldsStop == ~checked /\ tick.sample = "hard" /\ tick.stopRunning
\* #trackIntent: a held marker goes after 10 healthy minutes.
ReleasesHeld == \/ tick.overdue
                \/ tick.heldMarker /\ tick.sample = "healthy" /\ watch.healthy = "long"
\* The probe acts on what it read of a marker without looking again.
NoReleaseDue ==
  Races \/ (watch.healthy # "long" /\ (tick.pc = "judge" => ~HoldsStop /\ ~ReleasesHeld))

-----------------------------------------------------------------------------
(***************************************************************************)
(* Markers.                                                                *)
(***************************************************************************)
\* This process's own write wins, else the file.
Lookup(k) ==
  IF memory[k].mode = "cleared" THEN Absent
  ELSE IF memory[k].mode # "absent" THEN memory[k] ELSE disk[k]

\* Held, or not past its time; an unreadable one counts as active.
Active(m) == m.mode \in {"held", "unreadable"} \/ (m.mode \in {"running", "transient"} /\ ~m.over)
Held(m) == m.mode = "held"

\* Memory first, then the file; a file that cannot be written (or removed) is
\* logged and no more.
Put(k, inMemory, onDisk) ==
  /\ memory' = [memory EXCEPT ![k] = inMemory]
  /\ \/ /\ disk' = [disk EXCEPT ![k] = onDisk] /\ NoMishap
        /\ lost' = (lost /\ k # "cluster")
     \/ /\ disk' = disk /\ Mishap
        /\ lost' = (lost \/ k = "cluster")
Keep == UNCHANGED markers /\ NoMishap

Record(k, m) == Put(k, m, m)
Clear(k) == Put(k, NoMarker("cleared"), Absent)

\* A lifetime ends: the TTL of a transient marker, the 6 h ceiling of a running
\* one, the 6 h an unreadable file is honoured.  Handlers end within the 6 h,
\* so a running marker is overdue only when its command is no more; and every
\* lifetime is longer than a tick and its reading of the marker, which breaks
\* the run of failures counted before.
ExpiresOnlyAtCeiling(m) == m.mode = "unreadable" \/ (m.mode = "running" /\ ~Running(m.by))
Expires(m) ==
  \/ m.mode \in {"transient", "unreadable"}
  \/ m.mode = "running" /\ ~Running(m.by)
Expire(k) ==
  LET m == Lookup(k)
      aged(f) == [f EXCEPT ![k] = IF f[k] = m THEN [m EXCEPT !.over = TRUE] ELSE f[k]]
  IN /\ ~m.over /\ Expires(m) /\ tick.pc # "intent" /\ watch.streak = 0
     /\ memory' = aged(memory) /\ disk' = aged(disk)
     /\ UNCHANGED <<lost, probe, host, commands, session, mishaps>>

-----------------------------------------------------------------------------
(***************************************************************************)
(* Commands.                                                               *)
(***************************************************************************)
KeyOf(c) == IF c \in HostCommand THEN "host" ELSE "cluster"
KindsOf(c) == IF c \in HostCommand THEN {"restore"} ELSE Kind
NeverKeepsHeld(c, kind) == FALSE
KeepsHeld(c, kind) == kind # "destroy" /\ Held(Lookup(KeyOf(c)))
OwnMarker(c, kind) ==
  IF kind = "destroy" THEN NoMarker("held") ELSE RunningMarker(kind, c)
\* Before the handler: a running marker, unless a held one is there to stay; a
\* destroy is held from the start.  A later command takes over what an
\* interrupted stop left behind.
BeginManagedIntent(c, kind) ==
  LET keep == KeepsHeld(c, kind)
  IN /\ ~Running(c) /\ NoReleaseDue /\ session # "closed" /\ begun < MaxCommands /\ begun' = begun + 1
     /\ cmd' = [cmd EXCEPT ![c] = [pc |-> "running", kind |-> kind, own |-> ~keep, took |-> FALSE]]
     /\ IF keep THEN Keep ELSE Record(KeyOf(c), OwnMarker(c, kind))
     /\ engine' = IF engine = "halted" THEN "failed" ELSE engine
     /\ UNCHANGED <<listed, probe, session>>

\* The handler takes the engine down.  A destroy first puts itself on record,
\* and from then on the member is not listed.
Take(c) ==
  /\ Running(c) /\ cmd[c].kind # "start"
  /\ engine \in (IF c \in HostCommand THEN {"up"} ELSE {"up", "crashed", "failed"})
  /\ cmd[c].kind = "destroy" => ~listed
  /\ engine' = "taken" /\ cmd' = [cmd EXCEPT ![c].took = TRUE]
  /\ UNCHANGED <<listed, begun, markers, probe, session, mishaps>>

MarkDestroyed(c) ==
  /\ Running(c) /\ cmd[c].kind = "destroy" /\ listed /\ listed' = FALSE
  /\ UNCHANGED <<engine, markers, probe, commands, session, mishaps>>

\* The handler brings it up; a restore starts what it stopped.
Raise(c) ==
  /\ Running(c) /\ cmd[c].kind \in {"start", "apply", "restore"}
  /\ engine \in Down \ {"gone"}
  /\ (cmd[c].kind = "restore" \/ c \in HostCommand) => (engine = "taken" /\ cmd[c].took)
  /\ engine' = "up"
  /\ UNCHANGED <<listed, markers, probe, commands, session, mishaps>>

\* What a handler that reports success has seen to.
Achieved(c) ==
  CASE cmd[c].kind = "stop" -> engine # "up"
    [] cmd[c].kind = "destroy" -> engine # "up" /\ ~listed
    [] cmd[c].kind \in {"start", "apply"} /\ c \in Command -> engine \in {"up", "crashed"}
    [] OTHER -> engine # "taken" \/ ~cmd[c].took

\* After the handler.  Only the owner of the current marker refreshes it; a
\* stop that worked is held; a start or an apply that worked releases a held
\* marker; a destroy that worked clears it, unless the record would not go.
EndManagedIntent(c, ok) ==
  LET key == KeyOf(c)
      current == Lookup(key)
      kind == cmd[c].kind
      owned == cmd[c].own /\ current.by = c /\ current.mode = "running"
      transient == Record(key, NoMarker("transient"))
  IN /\ Running(c) /\ NoReleaseDue /\ (ok => Achieved(c))
     /\ cmd' = [cmd EXCEPT ![c] = IdleCmd]
     /\ engine' = IF ok /\ kind = "stop" THEN "stopped"
                  ELSE IF ok /\ kind = "destroy" THEN "gone"
                  ELSE IF engine = "taken" /\ cmd[c].took THEN "failed" ELSE engine
     /\ \/ ok /\ kind = "destroy" /\ (Clear(key) \/ Keep)
        \/ ok /\ kind = "stop" /\ Record(key, NoMarker("held"))
        \/ ok /\ kind \in {"start", "apply"} /\ Held(current) /\ transient
        \/ /\ ~(ok /\ kind \in {"stop", "destroy"})
           /\ ~(ok /\ kind \in {"start", "apply"} /\ Held(current))
           /\ IF owned /\ kind # "destroy" THEN transient ELSE Keep
     /\ UNCHANGED <<listed, begun, probe, session>>

-----------------------------------------------------------------------------
(***************************************************************************)
(* The probe: one tick is list, sample, read the markers, judge, emit.     *)
(***************************************************************************)
At(p) == tick.pc = p
NoStreak(w) == [w EXCEPT !.streak = 0, !.seen = {}]

\* A cluster that is not listed is forgotten; a gap between two ticks (suspend,
\* a starved loop) forgets the failures counted so far.
List ==
  /\ At("idle") /\ session # "closed"
  /\ \/ listed /\ watch' = watch /\ NoMishap
     \/ listed /\ watch' = [NoStreak(watch) EXCEPT !.healthy = "no"] /\ Mishap
     \/ ~listed /\ watch' = FreshWatch /\ NoMishap
  /\ tick' = IF listed THEN [IdleTick EXCEPT !.pc = "sample"] ELSE IdleTick
  /\ UNCHANGED <<checked, report, markers, host, commands, session>>

\* sampleManagedPostgres and classifyProbeSample: an engine that is down reads
\* hard; one that does not answer inside its grace reads soft; what Docker does
\* not tell is unknown.  A soft sample beyond its grace counts as a hard one
\* (#applySoft): an engine silent that long is down of its own accord, crashed
\* here though its container runs, and reads hard.
Sample ==
  /\ At("sample")
  /\ \E s \in {"healthy", "hard", "soft", "unknown"} :
       /\ s = "healthy" => engine = "up"
       /\ s = "hard" => engine # "up"
       /\ IF s \in {"soft", "unknown"} THEN Mishap ELSE NoMishap
       /\ tick' = [tick EXCEPT !.pc = "intent", !.sample = s,
                              !.cause = IF s = "hard" THEN engine ELSE "up"]
  /\ UNCHANGED <<watch, checked, report, markers, host, commands, session>>

\* IntentState: a marker nobody in this process will end may be released early.
IntentState ==
  LET cluster == Lookup("cluster")
      fromDisk == memory["cluster"].mode = "absent"
  IN /\ At("intent")
     /\ tick' = [tick EXCEPT
          !.pc = "judge",
          !.active = Active(cluster) \/ Active(Lookup("host")),
          !.heldMarker = Held(cluster) \/ cluster.mode = "unreadable"
                         \/ (cluster.mode = "running" /\ fromDisk),
          !.stopRunning = cluster.mode = "running" /\ cluster.kind = "stop",
          !.overdue = cluster.mode = "unreadable" /\ cluster.over]
     /\ UNCHANGED <<watch, checked, report, markers, host, commands, session, mishaps>>

HealthyAfter ==
  IF tick.overdue THEN watch.healthy
  ELSE IF ~tick.heldMarker \/ tick.sample # "healthy" \/ watch.healthy = "long" THEN "no"
  ELSE "since"

\* DeadPrimaryDetector.step: nothing counts under a marker; soft holds the run
\* of failures, unknown breaks it, healthy ends the incident as well.
StepAfter ==
  LET w == [watch EXCEPT !.healthy = HealthyAfter]
  IN IF tick.active \/ tick.sample = "unknown" THEN NoStreak(w)
     ELSE CASE tick.sample = "healthy" -> [NoStreak(w) EXCEPT !.events = 0]
            [] tick.sample = "soft" -> w
            [] OTHER -> [w EXCEPT !.streak = IF @ < Threshold THEN @ + 1 ELSE @,
                                  !.seen = @ \cup {tick.cause}]
\* #canFire: Threshold ticks span the minFailureSpanMs (25 s of 20 s).
CanFireOnceMore(w) == w.streak >= Threshold /\ ~w.quiet /\ w.events <= MaxEvents
CanFire(w) == w.streak >= Threshold /\ ~w.quiet /\ w.events < MaxEvents

Judge ==
  LET w == StepAfter
      fires == ~tick.active /\ CanFire(w)
  IN /\ At("judge")
     /\ checked' = (checked \/ tick.sample # "unknown")
     /\ IF HoldsStop THEN Record("cluster", NoMarker("held"))
        ELSE IF ReleasesHeld THEN Clear("cluster") ELSE Keep
     /\ watch' = w
     /\ report' = IF ~tick.active /\ tick.sample = "healthy" THEN {} ELSE report
     /\ tick' = IF fires THEN [IdleTick EXCEPT !.pc = "emit", !.seen = w.seen] ELSE IdleTick
     /\ UNCHANGED <<host, commands, session>>

\* #mayEmit, send and markEmitted: nothing leaves a detached probe, a host that
\* is not known to be up, or for a control plane that would misread it; the
\* last counts as an event all the same.
MarkEmitted(w) == [w EXCEPT !.events = @ + 1, !.quiet = TRUE]
Emit ==
  /\ At("emit") /\ tick' = IdleTick
  /\ \/ session = "closed" /\ UNCHANGED <<watch, report>> /\ NoMishap
     \/ /\ session # "closed" /\ Mishap
        /\ watch' = NoStreak(watch) /\ UNCHANGED report
     \/ /\ session = "open" /\ watch' = MarkEmitted(watch)
        /\ UNCHANGED report /\ NoMishap
     \/ /\ session = "known" /\ watch' = MarkEmitted(watch)
        /\ report' = tick.seen /\ NoMishap
  /\ UNCHANGED <<checked, markers, host, commands, session>>

\* Ten healthy minutes under a held marker; the re-send interval or the
\* back-off.  The peer's features arrive long before either is over.
HealthyLong ==
  /\ watch.healthy = "since"
  /\ Races \/ (At("idle") /\ \A c \in Command : ~Running(c))
  /\ watch' = [watch EXCEPT !.healthy = "long"]
  /\ UNCHANGED <<checked, tick, report, markers, host, commands, session, mishaps>>
QuietOver ==
  /\ watch.quiet /\ session # "open" /\ watch' = [watch EXCEPT !.quiet = FALSE]
  /\ UNCHANGED <<checked, tick, report, markers, host, commands, session, mishaps>>

-----------------------------------------------------------------------------
(***************************************************************************)
(* The session, the engine and the daemon.                                 *)
(***************************************************************************)
\* attach() and the peer's feature list, then detach() when the socket closes.
Open ==
  /\ session = "closed" /\ session' = "open" /\ NoMishap
  /\ watch' = [NoStreak(watch) EXCEPT !.healthy = "no"]
  /\ UNCHANGED <<checked, tick, report, markers, host, commands>>
FeaturesKnown ==
  /\ session = "open" /\ session' = "known"
  /\ UNCHANGED <<markers, probe, host, commands, mishaps>>
Close ==
  /\ session # "closed" /\ session' = "closed" /\ Mishap
  /\ watch' = [NoStreak(watch) EXCEPT !.healthy = "no"]
  /\ UNCHANGED <<checked, tick, report, markers, host, commands>>

Crash ==
  /\ engine = "up" /\ engine' = "crashed"
  /\ UNCHANGED <<listed, markers, probe, commands, session, mishaps>>
\* Docker's restart policy, or somebody's hands.
ComesBack ==
  /\ \/ engine = "crashed"
     \/ engine \in {"stopped", "failed", "halted"} /\ \A c \in Commands : ~Running(c)
  /\ engine' = "up"
  /\ UNCHANGED <<listed, markers, probe, commands, session, mishaps>>

\* The daemon dies and is started again: memory, watch and commands are gone.
\* A stop cut off after it took the engine down leaves a halted engine.  Its
\* marker may be unreadable; without one a stop cannot be told from a crash.
DaemonDies ==
  LET by == {c \in Commands : Running(c) /\ cmd[c].took}
      stop == \E c \in by : cmd[c].kind = "stop"
      after == IF engine = "taken" THEN (IF stop THEN "halted" ELSE "failed") ELSE engine
  IN /\ Mishap
     /\ memory' = [k \in Key |-> Absent]
     /\ cmd' = [c \in Commands |-> IdleCmd]
     /\ watch' = FreshWatch /\ checked' = FALSE /\ tick' = IdleTick /\ session' = "closed"
     /\ report' = {}
     /\ \E damaged \in BOOLEAN :
          /\ damaged => disk["cluster"].mode # "absent"
          /\ disk' = IF damaged THEN [disk EXCEPT !["cluster"] = NoMarker("unreadable")] ELSE disk
          /\ engine' = IF (lost \/ damaged) /\ after \in {"stopped", "halted"}
                       THEN "crashed" ELSE after
     /\ lost' = FALSE
     /\ UNCHANGED <<listed, begun>>

-----------------------------------------------------------------------------
Tick == List \/ Sample \/ IntentState \/ Judge \/ Emit

Next ==
  \/ \E c \in Commands :
       \/ \E kind \in KindsOf(c) : BeginManagedIntent(c, kind)
       \/ Take(c) \/ MarkDestroyed(c) \/ Raise(c)
       \/ \E ok \in BOOLEAN : EndManagedIntent(c, ok)
  \/ Tick \/ HealthyLong \/ QuietOver
  \/ \E k \in Key : Expire(k)
  \/ Open \/ FeaturesKnown \/ Close
  \/ Crash \/ ComesBack \/ DaemonDies

Spec == Init /\ [][Next]_vars

\* The tick timer, the timers behind every lifetime and back-off, handlers that
\* end, and a client that reconnects; never the crash, the close or the death.
\* A lifetime ends however often a tick is about to read the marker (SF).
Fairness ==
  /\ WF_vars(Tick) /\ WF_vars(QuietOver)
  /\ \A k \in Key : SF_vars(Expire(k))
  /\ \A c \in Commands : WF_vars(EndManagedIntent(c, FALSE) \/ EndManagedIntent(c, TRUE))
  /\ WF_vars(Open) /\ WF_vars(FeaturesKnown)
FairSpec == Spec /\ Fairness

-----------------------------------------------------------------------------
\* The probe never takes the platform for a crash: of the samples an event is
\* built from, none saw an engine that a command under way had taken down, that
\* a command had stopped, or that a stop cut off by a daemon restart had left
\* down; and a database being destroyed is reported only if it was dead before
\* (ha-intent.ts: "a false positive starts a real failover").  A stop whose
\* marker was not written, or cannot be read, when the daemon restarts counts
\* as a crash from then on: the code has nothing else to tell them apart.
NoFalseReport == report # {} => report \cap Dead # {} /\ (listed => report \subseteq Dead)

\* A database the platform stopped stays marked, over every later command that
\* fails and over daemon restarts, until something brings its engine up; except
\* that a restart which finds the marker not written or damaged has lost the stop.
StopStaysMarked == engine = "stopped" => Active(Lookup("cluster"))

\* A primary that died and is not held is reported or comes back: no marker of
\* a command that ended, of a daemon that died or that cannot be read, no lost
\* session and no spent budget silences the probe for ever.
DeadPrimaryReported ==
  (engine \in Dead /\ listed /\ ~Held(Lookup("cluster")))
    ~> (report # {} \/ engine \notin Dead \/ ~listed \/ Held(Lookup("cluster")))
=============================================================================
