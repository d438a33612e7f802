------------------------- MODULE ManagedReportProofs ------------------------
(***************************************************************************)
(* The probe of ManagedIntent never takes the platform for a crash.        *)
(*                                                                         *)
(* A sample counts only when no marker is active, so what has to be shown  *)
(* is that a marker is active whenever an engine is down by the platform's *)
(* own hand, from the sample to the look-up, and how many samples count    *)
(* where it is not: the one taken while a destroy removes the engine, and  *)
(* the one that finds a cut-off stop whose marker is past its time.        *)
(***************************************************************************)
EXTENDS ManagedIntentProofs

\* The first sample after a restart that finds a cut-off stop tells that the
\* engine is down; a soft one would pass for the startup check.
FirstSampleTells == ~checked /\ engine = "halted" => tick.sample # "soft"

\* The marker of a stop that has begun.
StopMarker(m) == m.mode = "running" /\ m.kind = "stop"

-----------------------------------------------------------------------------
(***************************************************************************)
(* Why the engine is down, and the marker that says so.                    *)
(***************************************************************************)
\* What was written last is on disk, unless that write failed.
DiskAgrees == ~lost => disk["cluster"] = Lookup("cluster")

\* A stop under way has its marker, or found a held one.
StopsMarked ==
  \A c \in Command : Running(c) /\ cmd[c].kind = "stop" =>
    Held(Lookup("cluster")) \/ StopMarker(Lookup("cluster"))

\* An engine that is taken down has a command under way that took it down.
TakenByCommand == engine = "taken" => \E c \in Commands : Running(c) /\ cmd[c].took

\* What a destroy removed is not listed.
GoneUnlisted == engine = "gone" => ~listed

\* After a cut-off stop no command runs, and its marker is held, or still there
\* for the startup check to hold.
HaltedMarked ==
  engine = "halted" =>
    /\ \A c \in Commands : ~Running(c)
    /\ Held(Lookup("cluster")) \/ (~checked /\ StopMarker(Lookup("cluster")))

\* No tick in flight found that engine healthy or its marker unreadable, and a
\* look-up found the marker of the stop.
HaltedSampled ==
  engine = "halted" =>
    /\ ~tick.overdue /\ tick.sample # "healthy"
    /\ tick.pc = "judge" => tick.stopRunning \/ Held(Lookup("cluster"))

MarkedInv == /\ DiskAgrees /\ StopsMarked /\ TakenByCommand
             /\ GoneUnlisted /\ HaltedMarked /\ HaltedSampled

(***************************************************************************)
(* What counts as a failure.                                               *)
(***************************************************************************)
\* Nothing is counted before the startup check.
UncheckedCountsNothing == ~checked => watch.streak = 0

\* A run of failures has seen something.
StreakIsSeen == (watch.streak = 0) <=> (watch.seen = {})

\* The sample in flight found a listed engine down by the platform's own hand.
Suspect == tick.sample = "hard" /\ tick.cause \notin Dead /\ listed

\* Such a sample does not count, or it is the one of the startup check.
SuspectCovered ==
  /\ Suspect /\ tick.pc = "intent" =>
       \/ Active(Lookup("cluster")) \/ Active(Lookup("host"))
       \/ ~checked /\ StopMarker(Lookup("cluster"))
  /\ Suspect /\ tick.pc = "judge" => tick.active \/ HoldsStop

\* If it counted, the marker that the check held keeps the next one from counting.
CountedCovered ==
  listed /\ ~(watch.seen \subseteq Dead) =>
    IF tick.pc = "judge" THEN tick.active ELSE Active(Lookup("cluster"))

\* A second failure counts only on top of real ones, until a tick that ends
\* finds the cluster no longer listed.
CountedDead ==
  (listed \/ tick.pc \notin {"idle", "emit"}) /\ watch.streak >= 2 => watch.seen \subseteq Dead

\* NoFalseReport, of an event that is about to be sent.
EventTrue ==
  tick.pc = "emit" => tick.seen \cap Dead # {} /\ (listed => tick.seen \subseteq Dead)

CountInv == /\ UncheckedCountsNothing /\ StreakIsSeen /\ SuspectCovered
            /\ CountedCovered /\ CountedDead /\ EventTrue /\ NoFalseReport

ReportInv == StopInv /\ CoverInv /\ MarkedInv /\ CountInv

-----------------------------------------------------------------------------
\* What the earlier invariants say that the steps below use.
LEMMA BaseParts ==
  ASSUME ReportInv
  PROVE  /\ TypeInv /\ MarkersOK /\ CommandsOK /\ HostOK /\ WatchOK /\ ProbeOK
         /\ watch \in Watch /\ tick \in TickType /\ StopInv /\ CoverInv /\ MarkedInv /\ CountInv
         /\ "cluster" \in Key /\ "host" \in Key
BY TypeParts DEF ReportInv, StopInv, WatchOK, ProbeOK, Key

\* A write of the cluster's marker reaches the disk or is counted as lost; a
\* write of the host's does not touch it.
LEMMA DiskPut ==
  ASSUME MarkersOK, DiskAgrees, NEW k \in Key, NEW m \in Marker, NEW d \in Marker, Put(k, m, d),
         \/ m.mode = "cleared" /\ d = Absent
         \/ m.mode \notin {"cleared", "absent"} /\ d = m
  PROVE  DiskAgrees'
<1>1. "cluster" \in Key
  BY DEF Key
<1>2. CASE k = "cluster"
  <2>1. memory'["cluster"] = m
    BY <1>1, <1>2 DEF Put, MarkersOK
  <2>2. lost' \/ disk'["cluster"] = d
    BY <1>1, <1>2 DEF Put, MarkersOK
  <2>. QED
    BY <2>1, <2>2 DEF DiskAgrees, Lookup
<1>3. CASE k # "cluster"
  <2>1. disk'["cluster"] = disk["cluster"] /\ Lookup("cluster")' = Lookup("cluster")
    BY <1>1, <1>3, PutShape
  <2>2. lost => lost'
    BY <1>3 DEF Put
  <2>. QED
    BY <2>1, <2>2 DEF DiskAgrees
<1>. QED
  BY <1>2, <1>3

\* Leaving the markers alone.
LEMMA DiskKeep ==
  ASSUME DiskAgrees, Keep
  PROVE  DiskAgrees'
BY KeepShape DEF DiskAgrees, Keep, markers

\* A step of a command, the engine or the session does not make a false report:
\* it leaves the probe alone, lists nothing again, and as long as the cluster
\* is listed it replaces a marker only by an active one.
LEMMA CountQuiet ==
  ASSUME CountInv, UNCHANGED probe, listed' => listed,
         listed' => \A k \in Key : Lookup(k)' = Lookup(k) \/ Active(Lookup(k)')
  PROVE  CountInv'
<1>1. watch' = watch /\ checked' = checked /\ tick' = tick /\ report' = report
  BY DEF probe
<1>2. "cluster" \in Key /\ "host" \in Key
  BY DEF Key
<1>3. UncheckedCountsNothing' /\ StreakIsSeen' /\ CountedDead' /\ EventTrue' /\ NoFalseReport'
  BY <1>1 DEF CountInv, UncheckedCountsNothing, StreakIsSeen, CountedDead, EventTrue, NoFalseReport
<1>4. ASSUME listed', NEW k \in Key, Active(Lookup(k)) PROVE Active(Lookup(k))'
  BY <1>4 DEF Active
<1>5. CountedCovered'
  BY <1>1, <1>2, <1>4 DEF CountInv, CountedCovered
<1>6. SuspectCovered'
  <2>1. Suspect' => Suspect /\ listed'
    BY <1>1 DEF Suspect
  <2>2. HoldsStop' <=> HoldsStop
    BY <1>1 DEF HoldsStop
  <2>3. listed' /\ StopMarker(Lookup("cluster")) => StopMarker(Lookup("cluster"))' \/ Active(Lookup("cluster"))'
    BY <1>2 DEF StopMarker, Active
  <2>. QED
    BY <1>1, <1>2, <1>4, <2>1, <2>2, <2>3 DEF CountInv, SuspectCovered
<1>. QED
  BY <1>3, <1>5, <1>6 DEF CountInv

-----------------------------------------------------------------------------
(***************************************************************************)
(* Commands.                                                               *)
(***************************************************************************)
\* The markers that a begin or an end writes are active.
LEMMA WrittenActive ==
  /\ \A c \in Commands, kind \in Kind : Active(OwnMarker(c, kind))
  /\ Active(NoMarker("held")) /\ Active(NoMarker("transient"))
BY MarkerType DEF Active

\* A marker that is written active is found, and the other key is left alone.
LEMMA ActivePut ==
  ASSUME MarkersOK, NEW k \in Key, NEW m \in Marker, Active(m), Put(k, m, m)
  PROVE  \A j \in Key : Lookup(j)' = Lookup(j) \/ Active(Lookup(j)')
<1>1. m.mode \notin {"cleared", "absent"}
  BY DEF Active
<1>. QED
  BY <1>1, PutShape

\* A command that begins.
LEMMA ReportBegin ==
  ASSUME ReportInv, OneEach, NEW c \in Commands, NEW kind \in KindsOf(c), BeginManagedIntent(c, kind)
  PROVE  MarkedInv' /\ CountInv'
<1>0. MarkersOK /\ CommandsOK /\ MarkedInv /\ CountInv /\ "cluster" \in Key /\ "host" \in Key
  BY BaseParts
<1>. DEFINE m == OwnMarker(c, kind)
<1>1. kind \in Kind /\ KeyOf(c) \in Key /\ m \in Marker /\ Active(m)
  BY KeyType, MarkerType, WrittenActive
<1>2. \/ KeepsHeld(c, kind) /\ Keep
      \/ Put(KeyOf(c), m, m)
  BY DEF BeginManagedIntent, Record
<1>3. /\ cmd'[c] = [pc |-> "running", kind |-> kind, own |-> ~KeepsHeld(c, kind), took |-> FALSE]
      /\ \A d \in Commands \ {c} : cmd'[d] = cmd[d]
      /\ ~Running(c)
  BY <1>0 DEF BeginManagedIntent, CommandsOK
<1>4. engine' # "halted" /\ (engine' # engine => engine' = "failed") /\ listed' = listed
  BY DEF BeginManagedIntent
<1>5. DiskAgrees'
  <2>1. m.mode \notin {"cleared", "absent"}
    BY <1>1 DEF Active
  <2>. HIDE DEF m
  <2>. QED
    BY <1>0, <1>1, <1>2, <2>1, DiskPut, DiskKeep DEF MarkedInv
<1>6. StopsMarked'
  <2>. SUFFICES ASSUME NEW d \in Command, Running(d)', cmd'[d].kind = "stop"
                PROVE  Held(Lookup("cluster"))' \/ StopMarker(Lookup("cluster"))'
    BY DEF StopsMarked
  <2>1. d \in Commands /\ KeyOf(d) = "cluster"
    BY IntentAssumption DEF Commands, KeyOf
  <2>2. CASE d = c
    <3>1. kind = "stop" /\ KeyOf(c) = "cluster"
      BY <1>3, <2>1, <2>2
    <3>2. CASE KeepsHeld(c, kind) /\ Keep
      BY <3>1, <3>2, KeepShape DEF KeepsHeld, Held
    <3>3. CASE Put(KeyOf(c), m, m)
      <4>1. m.mode = "running" /\ m.kind = "stop"
        BY <3>1 DEF OwnMarker, RunningMarker
      <4>2. Lookup("cluster")' = m
        BY <1>0, <1>1, <3>1, <3>3, <4>1, PutShape
      <4>. QED
        BY <4>1, <4>2 DEF StopMarker
    <3>. QED
      BY <1>2, <3>2, <3>3
  <2>3. CASE d # c
    <3>1. KeyOf(c) # "cluster"
      BY <2>1, <2>3, OnePerKey
    <3>2. Lookup("cluster")' = Lookup("cluster")
      BY <1>0, <1>1, <1>2, <3>1, PutShape, KeepShape
    <3>3. Running(d) /\ cmd[d].kind = "stop"
      BY <1>3, <2>1, <2>3 DEF Running
    <3>. QED
      BY <1>0, <3>2, <3>3 DEF MarkedInv, StopsMarked, Held, StopMarker
  <2>. QED
    BY <2>2, <2>3
<1>7. TakenByCommand' /\ GoneUnlisted'
  BY <1>0, <1>3, <1>4 DEF MarkedInv, TakenByCommand, GoneUnlisted, Running
<1>8. HaltedMarked' /\ HaltedSampled'
  BY <1>4 DEF HaltedMarked, HaltedSampled
<1>9. CountInv'
  <2>1. \A k \in Key : Lookup(k)' = Lookup(k) \/ Active(Lookup(k)')
    BY <1>0, <1>1, <1>2, ActivePut, KeepShape
  <2>2. UNCHANGED probe
    BY DEF BeginManagedIntent
  <2>. QED
    BY <1>0, <1>4, <2>1, <2>2, CountQuiet
<1>. QED
  BY <1>5, <1>6, <1>7, <1>8, <1>9 DEF MarkedInv

\* A command that ends: only a destroy that worked clears a marker, and then the
\* cluster is not listed any more.
LEMMA ReportEnd ==
  ASSUME ReportInv, OneEach, NEW c \in Commands, NEW ok \in BOOLEAN, EndManagedIntent(c, ok)
  PROVE  MarkedInv' /\ CountInv'
<1>0. MarkersOK /\ CommandsOK /\ MarkedInv /\ CountInv /\ "cluster" \in Key /\ "host" \in Key
  BY BaseParts
<1>1. KeyOf(c) \in Key /\ Running(c) /\ engine # "halted"
  BY <1>0, KeyType DEF EndManagedIntent, MarkedInv, HaltedMarked
<1>2. \/ ok /\ cmd[c].kind = "destroy" /\ Put(KeyOf(c), NoMarker("cleared"), Absent)
      \/ Keep
      \/ \E mode \in {"held", "transient"} : Put(KeyOf(c), NoMarker(mode), NoMarker(mode))
  BY DEF EndManagedIntent, Record, Clear
<1>3. ok /\ cmd[c].kind = "destroy" => ~listed
  BY DEF EndManagedIntent, Achieved
<1>4. cmd'[c] = IdleCmd /\ \A d \in Commands \ {c} : cmd'[d] = cmd[d]
  BY <1>0 DEF EndManagedIntent, CommandsOK
<1>5. DiskAgrees'
  <2>1. \A mode \in {"cleared", "held", "transient"} :
          NoMarker(mode) \in Marker /\ NoMarker(mode).mode = mode
    BY MarkerType
  <2>. QED
    BY <1>0, <1>1, <1>2, <2>1, MarkerType, DiskPut, DiskKeep DEF MarkedInv
<1>6. StopsMarked'
  <2>. SUFFICES ASSUME NEW d \in Command, Running(d)', cmd'[d].kind = "stop"
                PROVE  Held(Lookup("cluster"))' \/ StopMarker(Lookup("cluster"))'
    BY DEF StopsMarked
  <2>1. d \in Commands /\ KeyOf(d) = "cluster" /\ d # c
    BY <1>4, IntentAssumption DEF Commands, KeyOf, Running, IdleCmd
  <2>2. KeyOf(c) # "cluster"
    BY <2>1, OnePerKey
  <2>3. Lookup("cluster")' = Lookup("cluster")
    BY <1>0, <1>1, <1>2, <2>2, MarkerType, PutShape, KeepShape
  <2>4. Running(d) /\ cmd[d].kind = "stop"
    BY <1>4, <2>1 DEF Running
  <2>. QED
    BY <1>0, <2>3, <2>4 DEF MarkedInv, StopsMarked, Held, StopMarker
<1>7. TakenByCommand'
  <2>1. engine' = "taken" => engine = "taken" /\ ~cmd[c].took
    BY DEF EndManagedIntent
  <2>. QED
    BY <1>0, <1>4, <2>1 DEF MarkedInv, TakenByCommand, Running
<1>8. GoneUnlisted'
  BY <1>0, <1>3 DEF EndManagedIntent, MarkedInv, GoneUnlisted
<1>9. HaltedMarked' /\ HaltedSampled'
  BY <1>1 DEF EndManagedIntent, HaltedMarked, HaltedSampled
<1>10. CountInv'
  <2>1. listed' = listed /\ UNCHANGED probe
    BY DEF EndManagedIntent
  <2>2. \A mode \in {"held", "transient"} : NoMarker(mode) \in Marker /\ Active(NoMarker(mode))
    BY MarkerType, WrittenActive
  <2>3. listed => \A k \in Key : Lookup(k)' = Lookup(k) \/ Active(Lookup(k)')
    BY <1>0, <1>1, <1>2, <1>3, <2>2, ActivePut, KeepShape
  <2>. QED
    BY <1>0, <2>1, <2>3, CountQuiet
<1>. QED
  BY <1>5, <1>6, <1>7, <1>8, <1>9, <1>10 DEF MarkedInv

\* A lifetime that ends changes a marker in nothing else, in memory and on disk.
LEMMA ExpireShape ==
  ASSUME MarkersOK, NEW k \in Key, Expire(k)
  PROVE  /\ \A j \in Key \ {k} : Lookup(j)' = Lookup(j) /\ disk'[j] = disk[j]
         /\ Lookup(k)' = [Lookup(k) EXCEPT !.over = TRUE]
         /\ disk[k] = Lookup(k) => disk'[k] = Lookup(k)'
<1>. DEFINE m == Lookup(k)
            n == [m EXCEPT !.over = TRUE]
<1>1. m \in Marker /\ m.mode \in {"transient", "unreadable", "running"}
  BY LookupType DEF Expire, Expires
<1>2. n.mode = m.mode
  BY <1>1 DEF Marker
<1>3. /\ memory' = [memory EXCEPT ![k] = IF memory[k] = m THEN n ELSE memory[k]]
      /\ disk' = [disk EXCEPT ![k] = IF disk[k] = m THEN n ELSE disk[k]]
  BY DEF Expire
<1>4. m = IF memory[k].mode = "cleared" THEN Absent
          ELSE IF memory[k].mode # "absent" THEN memory[k] ELSE disk[k]
  BY DEF Lookup
<1>. HIDE DEF m, n
<1>5. /\ memory'[k] = IF memory[k] = m THEN n ELSE memory[k]
      /\ disk'[k] = IF disk[k] = m THEN n ELSE disk[k]
      /\ \A j \in Key \ {k} : memory'[j] = memory[j] /\ disk'[j] = disk[j]
  BY <1>3 DEF MarkersOK
<1>6. \A j \in Key \ {k} : Lookup(j)' = Lookup(j) /\ disk'[j] = disk[j]
  BY <1>5 DEF Lookup
<1>7. Lookup(k)' = n
  <2>1. CASE memory[k].mode = "absent"
    BY <1>1, <1>2, <1>4, <1>5, <2>1 DEF Lookup
  <2>2. CASE memory[k].mode # "absent"
    BY <1>1, <1>2, <1>4, <1>5, <2>2, MarkerType DEF Lookup
  <2>. QED
    BY <2>1, <2>2
<1>. QED
  BY <1>5, <1>6, <1>7 DEF m, n

\* A lifetime ends between two runs of failures only.
LEMMA ReportExpire ==
  ASSUME ReportInv, NEW k \in Key, Expire(k)
  PROVE  MarkedInv' /\ CountInv'
<1>0. /\ MarkersOK /\ CommandsOK /\ MarkedInv /\ CountInv /\ "cluster" \in Key /\ "host" \in Key
      /\ Lookup("cluster") \in Marker
  BY BaseParts, LookupType
<1>1. /\ watch' = watch /\ checked' = checked /\ tick' = tick /\ report' = report
      /\ engine' = engine /\ listed' = listed /\ cmd' = cmd /\ lost' = lost
      /\ tick.pc # "intent" /\ watch.streak = 0
  BY DEF Expire, probe, host, commands
<1>2. /\ Lookup("cluster")' \in {Lookup("cluster"), [Lookup("cluster") EXCEPT !.over = TRUE]}
      /\ disk["cluster"] = Lookup("cluster") => disk'["cluster"] = Lookup("cluster")'
  BY <1>0, ExpireShape
<1>3. Lookup("cluster")'.mode = Lookup("cluster").mode /\ Lookup("cluster")'.kind = Lookup("cluster").kind
  BY <1>0, <1>2 DEF Marker
<1>4. MarkedInv'
  <2>1. DiskAgrees'
    BY <1>0, <1>1, <1>2 DEF MarkedInv, DiskAgrees
  <2>2. StopsMarked'
    BY <1>0, <1>1, <1>3 DEF MarkedInv, StopsMarked, Running, Held, StopMarker
  <2>3. TakenByCommand' /\ GoneUnlisted'
    BY <1>0, <1>1 DEF MarkedInv, TakenByCommand, GoneUnlisted, Running
  <2>4. HaltedMarked' /\ HaltedSampled'
    BY <1>0, <1>1, <1>3 DEF MarkedInv, HaltedMarked, HaltedSampled, Running, Held, StopMarker
  <2>. QED
    BY <2>1, <2>2, <2>3, <2>4 DEF MarkedInv
<1>5. CountInv'
  <2>1. UncheckedCountsNothing' /\ StreakIsSeen' /\ CountedDead' /\ EventTrue' /\ NoFalseReport'
    BY <1>0, <1>1 DEF CountInv, UncheckedCountsNothing, StreakIsSeen, CountedDead, EventTrue, NoFalseReport
  <2>2. CountedCovered'
    BY <1>0, <1>1 DEF CountInv, StreakIsSeen, CountedCovered
  <2>3. SuspectCovered'
    BY <1>0, <1>1 DEF CountInv, SuspectCovered, Suspect, HoldsStop
  <2>. QED
    BY <2>1, <2>2, <2>3 DEF CountInv
<1>. QED
  BY <1>4, <1>5

\* The handlers, the engine and the peer's features touch no marker.
LEMMA ReportEngine ==
  ASSUME ReportInv,
         \/ \E c \in Commands : Take(c) \/ MarkDestroyed(c) \/ Raise(c)
         \/ Crash \/ ComesBack \/ FeaturesKnown
  PROVE  MarkedInv' /\ CountInv'
<1>0. MarkersOK /\ CommandsOK /\ MarkedInv /\ CountInv
  BY BaseParts
<1>1. /\ UNCHANGED probe /\ memory' = memory /\ disk' = disk /\ lost' = lost
      /\ listed' => listed
      /\ engine' \in {engine, "up", "crashed", "taken"}
  BY DEF Take, MarkDestroyed, Raise, Crash, ComesBack, FeaturesKnown, markers, host
<1>2. \A k : Lookup(k)' = Lookup(k)
  BY <1>1 DEF Lookup
<1>3. CountInv'
  BY <1>0, <1>1, <1>2, CountQuiet
<1>4. \A c \in Commands : /\ cmd'[c].pc = cmd[c].pc /\ cmd'[c].kind = cmd[c].kind
                          /\ cmd[c].took => cmd'[c].took
  BY <1>0 DEF Take, MarkDestroyed, Raise, Crash, ComesBack, FeaturesKnown, commands, CommandsOK, CmdType
<1>5. DiskAgrees' /\ StopsMarked' /\ GoneUnlisted'
  BY <1>0, <1>1, <1>2, <1>4
     DEF MarkedInv, DiskAgrees, StopsMarked, GoneUnlisted, Running, Held, StopMarker, Commands
<1>6. TakenByCommand'
  <2>1. CASE engine' = engine
    BY <1>0, <1>4, <2>1 DEF MarkedInv, TakenByCommand, Running
  <2>2. ASSUME NEW c \in Commands, Take(c) PROVE TakenByCommand'
    <3>1. cmd'[c].took /\ cmd'[c].pc = "running"
      BY <1>0, <2>2 DEF Take, CommandsOK, CmdType, Running
    <3>. QED
      BY <3>1 DEF TakenByCommand, Running
  <2>3. CASE engine' # "taken"
    BY <2>3 DEF TakenByCommand
  <2>. QED
    BY <2>1, <2>2, <2>3 DEF MarkDestroyed, Raise, Crash, ComesBack, FeaturesKnown, host
<1>7. HaltedMarked' /\ HaltedSampled'
  BY <1>0, <1>1, <1>2, <1>4
     DEF MarkedInv, HaltedMarked, HaltedSampled, Running, Held, StopMarker, probe
<1>. QED
  BY <1>3, <1>5, <1>6, <1>7 DEF MarkedInv

-----------------------------------------------------------------------------
(***************************************************************************)
(* The probe.                                                              *)
(***************************************************************************)
\* A step that touches neither markers nor commands nor engine, and neither the
\* startup check nor what the tick in flight found of a halted engine.
LEMMA MarkedQuiet ==
  ASSUME MarkedInv, UNCHANGED <<markers, host, commands>>, checked' = checked,
         ~tick.overdue => ~tick'.overdue, tick'.pc # "judge",
         tick'.sample = "healthy" => engine = "up" \/ tick.sample = "healthy"
  PROVE  MarkedInv'
<1>1. /\ memory' = memory /\ disk' = disk /\ lost' = lost /\ engine' = engine
      /\ listed' = listed /\ cmd' = cmd
  BY DEF markers, host, commands
<1>2. \A k : Lookup(k)' = Lookup(k)
  BY <1>1 DEF Lookup
<1>3. DiskAgrees' /\ StopsMarked' /\ TakenByCommand' /\ GoneUnlisted'
  BY <1>1, <1>2 DEF MarkedInv, DiskAgrees, StopsMarked, TakenByCommand, GoneUnlisted, Running, Held,
                    StopMarker
<1>4. HaltedMarked' /\ HaltedSampled'
  BY <1>1, <1>2 DEF MarkedInv, HaltedMarked, HaltedSampled, Running, Held, StopMarker
<1>. QED
  BY <1>3, <1>4 DEF MarkedInv

\* What the steps of the watch do to the run of failures.
LEMMA WatchCounts ==
  ASSUME NEW w \in Watch
  PROVE  /\ NoStreak(w).streak = 0 /\ NoStreak(w).seen = {}
         /\ [NoStreak(w) EXCEPT !.healthy = "no"].streak = 0
         /\ [NoStreak(w) EXCEPT !.healthy = "no"].seen = {}
         /\ FreshWatch.streak = 0 /\ FreshWatch.seen = {}
         /\ MarkEmitted(w).streak = w.streak /\ MarkEmitted(w).seen = w.seen
         /\ [w EXCEPT !.quiet = FALSE].streak = w.streak /\ [w EXCEPT !.quiet = FALSE].seen = w.seen
         /\ \A h \in {"no", "since", "long"} :
              [w EXCEPT !.healthy = h].streak = w.streak /\ [w EXCEPT !.healthy = h].seen = w.seen
BY DEF NoStreak, FreshWatch, MarkEmitted, Watch

\* A run of failures that is kept or forgotten by a step that leaves the markers,
\* the report and the startup check alone and counts nothing.
LEMMA CountKept ==
  ASSUME CountInv, UNCHANGED <<markers, host>>, checked' = checked, report' = report,
         \/ watch'.streak = watch.streak /\ watch'.seen = watch.seen
         \/ watch'.streak = 0 /\ watch'.seen = {},
         tick.pc # "judge", tick'.pc # "judge",
         tick'.pc \notin {"idle", "emit"} => listed \/ tick.pc \notin {"idle", "emit"},
         tick'.pc # "emit", tick'.pc # "intent"
  PROVE  CountInv'
<1>1. memory' = memory /\ disk' = disk /\ listed' = listed
  BY DEF markers, host
<1>2. \A k : Lookup(k)' = Lookup(k)
  BY <1>1 DEF Lookup
<1>3. UncheckedCountsNothing' /\ StreakIsSeen' /\ NoFalseReport' /\ EventTrue' /\ SuspectCovered'
  BY <1>1 DEF CountInv, UncheckedCountsNothing, StreakIsSeen, NoFalseReport, EventTrue, SuspectCovered
<1>4. CountedCovered'
  BY <1>1, <1>2 DEF CountInv, CountedCovered, Active
<1>5. CountedDead'
  BY <1>1 DEF CountInv, CountedDead
<1>. QED
  BY <1>3, <1>4, <1>5 DEF CountInv

\* A tick that begins forgets a cluster that is not listed.
LEMMA ReportList ==
  ASSUME ReportInv, List
  PROVE  MarkedInv' /\ CountInv'
<1>0. MarkedInv /\ CountInv /\ watch \in Watch
  BY BaseParts
<1>1. /\ UNCHANGED <<markers, host, commands>> /\ checked' = checked /\ report' = report
      /\ tick.pc = "idle"
  BY DEF List, At
<1>2. /\ tick'.pc \in {"idle", "sample"} /\ tick'.sample = "none" /\ ~tick'.overdue
      /\ tick'.pc = "sample" => listed
  BY DEF List, IdleTick
<1>3. \/ watch' = watch
      \/ watch'.streak = 0 /\ watch'.seen = {}
  BY <1>0, WatchCounts DEF List
<1>4. MarkedInv'
  BY <1>0, <1>1, <1>2, MarkedQuiet
<1>5. CountInv'
  BY <1>0, <1>1, <1>2, <1>3, CountKept
<1>. QED
  BY <1>4, <1>5

\* The timers of the probe and the session count nothing.
LEMMA ReportTimers ==
  ASSUME ReportInv, HealthyLong \/ QuietOver \/ Open \/ Close
  PROVE  MarkedInv' /\ CountInv'
<1>0. MarkedInv /\ CountInv /\ watch \in Watch
  BY BaseParts
<1>1. /\ memory' = memory /\ disk' = disk /\ lost' = lost /\ engine' = engine /\ listed' = listed
      /\ cmd' = cmd /\ checked' = checked /\ report' = report /\ tick' = tick
  BY DEF HealthyLong, QuietOver, Open, Close, markers, host, commands
<1>2. \/ watch'.streak = watch.streak /\ watch'.seen = watch.seen
      \/ watch'.streak = 0 /\ watch'.seen = {}
  <2>1. CASE HealthyLong
    BY <1>0, <2>1, WatchCounts DEF HealthyLong
  <2>2. CASE QuietOver
    BY <1>0, <2>2, WatchCounts DEF QuietOver
  <2>3. CASE Open \/ Close
    BY <1>0, <2>3, WatchCounts DEF Open, Close
  <2>. QED
    BY <2>1, <2>2, <2>3
<1>3. \A k : Lookup(k)' = Lookup(k)
  BY <1>1 DEF Lookup
<1>4. MarkedInv'
  <2>1. DiskAgrees' /\ StopsMarked' /\ TakenByCommand' /\ GoneUnlisted'
    BY <1>0, <1>1, <1>3 DEF MarkedInv, DiskAgrees, StopsMarked, TakenByCommand, GoneUnlisted, Running,
                            Held, StopMarker
  <2>2. HaltedMarked' /\ HaltedSampled'
    BY <1>0, <1>1, <1>3 DEF MarkedInv, HaltedMarked, HaltedSampled, Running, Held, StopMarker
  <2>. QED
    BY <2>1, <2>2 DEF MarkedInv
<1>5. CountInv'
  <2>1. UncheckedCountsNothing' /\ StreakIsSeen' /\ NoFalseReport' /\ EventTrue' /\ CountedDead'
    BY <1>0, <1>1, <1>2 DEF CountInv, UncheckedCountsNothing, StreakIsSeen, NoFalseReport, EventTrue,
                            CountedDead
  <2>2. CountedCovered' /\ SuspectCovered'
    BY <1>0, <1>1, <1>2, <1>3
       DEF CountInv, CountedCovered, SuspectCovered, Suspect, Active, HoldsStop, StopMarker
  <2>. QED
    BY <2>1, <2>2 DEF CountInv
<1>. QED
  BY <1>4, <1>5

\* A sample that finds the engine down by the platform's own hand is taken under
\* a marker: the command's, the held one of a stop, or that of a cut-off stop.
LEMMA ReportSample ==
  ASSUME ReportInv, Sample
  PROVE  MarkedInv' /\ CountInv'
<1>0. MarkedInv /\ CountInv /\ HostOK /\ tick \in TickType /\ StopInv /\ CoverInv
  BY BaseParts
<1>1. /\ UNCHANGED <<markers, host, commands>> /\ watch' = watch /\ checked' = checked
      /\ report' = report /\ tick.pc = "sample"
  BY DEF Sample, At
<1>2. /\ tick'.pc = "intent" /\ tick'.overdue = tick.overdue
      /\ tick'.sample = "healthy" => engine = "up"
      /\ tick'.sample = "hard" => engine # "up" /\ tick'.cause = engine
  BY <1>0 DEF Sample, TickType
<1>3. memory' = memory /\ disk' = disk /\ engine' = engine /\ listed' = listed
  BY <1>1 DEF markers, host
<1>4. \A k : Lookup(k)' = Lookup(k)
  BY <1>3 DEF Lookup
<1>5. MarkedInv'
  BY <1>0, <1>1, <1>2, MarkedQuiet
<1>6. ASSUME Suspect'
      PROVE  \/ Active(Lookup("cluster")) \/ Active(Lookup("host"))
             \/ ~checked /\ StopMarker(Lookup("cluster"))
  <2>1. engine \in {"taken", "stopped", "halted", "gone"} /\ listed
    BY <1>0, <1>2, <1>3, <1>6 DEF Suspect, HostOK, Down, Dead
  <2>2. engine # "gone"
    BY <1>0, <2>1 DEF MarkedInv, GoneUnlisted
  <2>3. CASE engine = "taken"
    <3>1. PICK c \in Commands : Running(c)
      BY <1>0, <2>3 DEF MarkedInv, TakenByCommand
    <3>2. Active(Lookup(KeyOf(c)))
      BY <1>0, <3>1 DEF CoverInv, OwnOrHeld, Active, Held
    <3>3. KeyOf(c) \in {"cluster", "host"}
      BY DEF KeyOf
    <3>. QED
      BY <3>2, <3>3
  <2>4. CASE engine = "stopped"
    BY <1>0, <2>4 DEF StopInv, StopHeld, Held, Active
  <2>5. CASE engine = "halted"
    BY <1>0, <2>5 DEF MarkedInv, HaltedMarked, Held, Active
  <2>. QED
    BY <2>1, <2>2, <2>3, <2>4, <2>5
<1>7. SuspectCovered'
  BY <1>1, <1>2, <1>4, <1>6 DEF SuspectCovered, Active, StopMarker
<1>8. UncheckedCountsNothing' /\ StreakIsSeen' /\ NoFalseReport' /\ EventTrue' /\ CountedDead'
  BY <1>0, <1>1, <1>2, <1>3 DEF CountInv, UncheckedCountsNothing, StreakIsSeen, NoFalseReport,
                                EventTrue, CountedDead
<1>9. CountedCovered'
  BY <1>0, <1>1, <1>2, <1>3, <1>4 DEF CountInv, CountedCovered, Active
<1>. QED
  BY <1>5, <1>7, <1>8, <1>9 DEF CountInv

\* The look-up finds the marker that the sample was taken under.
LEMMA ReportIntentState ==
  ASSUME ReportInv, IntentState
  PROVE  MarkedInv' /\ CountInv'
<1>0. MarkedInv /\ CountInv /\ tick \in TickType
  BY BaseParts
<1>1. /\ memory' = memory /\ disk' = disk /\ lost' = lost /\ engine' = engine /\ listed' = listed
      /\ cmd' = cmd /\ watch' = watch /\ checked' = checked /\ report' = report /\ tick.pc = "intent"
  BY DEF IntentState, At, markers, host, commands
<1>2. /\ tick'.pc = "judge" /\ tick'.sample = tick.sample /\ tick'.cause = tick.cause
      /\ tick'.active = (Active(Lookup("cluster")) \/ Active(Lookup("host")))
      /\ tick'.stopRunning = StopMarker(Lookup("cluster"))
      /\ tick'.overdue = (Lookup("cluster").mode = "unreadable" /\ Lookup("cluster").over)
  BY <1>0 DEF IntentState, TickType, StopMarker
<1>3. \A k : Lookup(k)' = Lookup(k)
  BY <1>1 DEF Lookup
<1>4. MarkedInv'
  <2>1. DiskAgrees' /\ StopsMarked' /\ TakenByCommand' /\ GoneUnlisted' /\ HaltedMarked'
    BY <1>0, <1>1, <1>3 DEF MarkedInv, DiskAgrees, StopsMarked, TakenByCommand, GoneUnlisted,
                            HaltedMarked, Running, Held, StopMarker
  <2>2. HaltedSampled'
    BY <1>0, <1>1, <1>2, <1>3 DEF MarkedInv, HaltedMarked, HaltedSampled, Held, StopMarker
  <2>. QED
    BY <2>1, <2>2 DEF MarkedInv
<1>5. SuspectCovered'
  BY <1>0, <1>1, <1>2 DEF CountInv, SuspectCovered, Suspect, HoldsStop
<1>6. UncheckedCountsNothing' /\ StreakIsSeen' /\ NoFalseReport' /\ EventTrue' /\ CountedDead'
  BY <1>0, <1>1, <1>2 DEF CountInv, UncheckedCountsNothing, StreakIsSeen, NoFalseReport, EventTrue,
                          CountedDead
<1>7. CountedCovered'
  BY <1>0, <1>1, <1>2 DEF CountInv, CountedCovered
<1>. QED
  BY <1>4, <1>5, <1>6, <1>7 DEF CountInv

\* DeadPrimaryDetector.step on the run of failures: forgotten under a marker, by
\* an unknown and by a healthy sample, held by a soft one, longer by a hard one.
LEMMA StepCounts ==
  ASSUME TypeInv, At("judge")
  PROVE  /\ tick.active \/ tick.sample \in {"unknown", "healthy"} =>
              StepAfter.streak = 0 /\ StepAfter.seen = {}
         /\ ~tick.active /\ tick.sample = "soft" =>
              StepAfter.streak = watch.streak /\ StepAfter.seen = watch.seen
         /\ ~tick.active /\ tick.sample = "hard" =>
              /\ StepAfter.streak = IF watch.streak < Threshold THEN watch.streak + 1 ELSE watch.streak
              /\ StepAfter.seen = watch.seen \cup {tick.cause}
         /\ tick.sample \in {"healthy", "hard", "soft", "unknown"}
<1>. DEFINE w == [watch EXCEPT !.healthy = HealthyAfter]
            u == NoStreak(w)
            n == IF w.streak < Threshold THEN w.streak + 1 ELSE w.streak
            v == [w EXCEPT !.streak = n, !.seen = w.seen \cup {tick.cause}]
<1>1. w \in Watch /\ w.streak = watch.streak /\ w.seen = watch.seen
  <2>1. HealthyAfter \in {"no", "since", "long"} /\ watch \in Watch
    BY TypeParts DEF WatchOK, Watch, HealthyAfter
  <2>. QED
    BY <2>1, WatchHealthy, WatchCounts
<1>2. tick.sample \in {"healthy", "hard", "soft", "unknown"}
  BY TypeParts DEF ProbeOK, TickType, CauseKnown, At
<1>3. /\ tick.active \/ tick.sample = "unknown" => StepAfter = u
      /\ ~tick.active /\ tick.sample = "healthy" => StepAfter = [u EXCEPT !.events = 0]
      /\ ~tick.active /\ tick.sample = "soft" => StepAfter = w
      /\ ~tick.active /\ tick.sample = "hard" => StepAfter = v
  BY <1>2 DEF StepAfter
<1>. HIDE DEF w
<1>4. u \in Watch /\ u.streak = 0 /\ u.seen = {}
  BY <1>1, WatchType, WatchCounts
<1>. HIDE DEF u
<1>5. [u EXCEPT !.events = 0].streak = 0 /\ [u EXCEPT !.events = 0].seen = {}
  BY <1>4 DEF Watch
<1>6. v.streak = n /\ v.seen = w.seen \cup {tick.cause}
  BY <1>1 DEF Watch
<1>. HIDE DEF v
<1>. QED
  BY <1>1, <1>2, <1>3, <1>4, <1>5, <1>6

\* A judgement fires on real failures only.
LEMMA ReportJudge ==
  ASSUME ReportInv, FirstSampleTells, Judge
  PROVE  MarkedInv' /\ CountInv'
<1>0. /\ MarkersOK /\ MarkedInv /\ CountInv /\ CoverInv /\ TypeInv /\ watch \in Watch
      /\ "cluster" \in Key /\ Threshold \in Nat /\ Threshold >= 3 /\ watch.streak \in Nat
  BY BaseParts, Bounds DEF Watch
<1>1. /\ engine' = engine /\ listed' = listed /\ cmd' = cmd /\ watch' = StepAfter
      /\ checked' = (checked \/ tick.sample # "unknown") /\ tick.pc = "judge"
      /\ report' \in {{}, report}
  BY DEF Judge, At, host, commands
<1>2. /\ tick'.pc \in {"idle", "emit"} /\ tick'.sample = "none" /\ ~tick'.overdue
      /\ tick'.pc = "emit" =>
           /\ ~tick.active /\ StepAfter.streak >= Threshold /\ tick'.seen = StepAfter.seen
  BY DEF Judge, CanFire, IdleTick
<1>3. \/ HoldsStop /\ Put("cluster", NoMarker("held"), NoMarker("held"))
      \/ ~HoldsStop /\ ReleasesHeld /\ Put("cluster", NoMarker("cleared"), Absent)
      \/ ~HoldsStop /\ ~ReleasesHeld /\ Keep
  BY DEF Judge, Record, Clear
<1>4. \A mode \in {"held", "cleared"} : NoMarker(mode) \in Marker /\ NoMarker(mode).mode = mode
  BY MarkerType
<1>5. HoldsStop => Lookup("cluster")'.mode = "held"
  BY <1>0, <1>3, <1>4, PutShape
<1>6. DiskAgrees'
  BY <1>0, <1>3, <1>4, MarkerType, DiskPut, DiskKeep DEF MarkedInv
<1>7. StopsMarked'
  <2>1. CASE HoldsStop
    BY <1>5, <2>1 DEF StopsMarked, Held
  <2>2. CASE ReleasesHeld
    <3>1. \A c \in Command : ~Running(c)
      BY <1>0, <2>2 DEF CoverInv, ReleaseWaits, ReleasesHeld
    <3>. QED
      BY <1>1, <3>1 DEF StopsMarked, Running
  <2>3. CASE Keep
    BY <1>0, <1>1, <2>3, KeepShape DEF MarkedInv, StopsMarked, Running, Held, StopMarker
  <2>. QED
    BY <1>3, <2>1, <2>2, <2>3
<1>8. TakenByCommand' /\ GoneUnlisted' /\ HaltedSampled'
  BY <1>0, <1>1, <1>2 DEF MarkedInv, TakenByCommand, GoneUnlisted, HaltedSampled, Running
<1>9. HaltedMarked'
  <2>. SUFFICES ASSUME engine = "halted"
                PROVE  \/ Held(Lookup("cluster"))'
                       \/ ~checked' /\ StopMarker(Lookup("cluster"))'
    BY <1>0, <1>1 DEF MarkedInv, HaltedMarked, Running
  <2>1. CASE HoldsStop
    BY <1>5, <2>1 DEF Held
  <2>2. CASE ~HoldsStop
    <3>1. ~ReleasesHeld
      BY <1>0 DEF MarkedInv, HaltedSampled, ReleasesHeld
    <3>2. Lookup("cluster")' = Lookup("cluster")
      BY <1>3, <2>2, <3>1, KeepShape
    <3>3. CASE Held(Lookup("cluster"))
      BY <3>2, <3>3 DEF Held
    <3>4. CASE ~Held(Lookup("cluster"))
      <4>1. ~checked /\ StopMarker(Lookup("cluster")) /\ tick.stopRunning /\ tick.sample # "healthy"
        BY <1>0, <1>1, <3>4 DEF MarkedInv, HaltedMarked, HaltedSampled
      <4>2. tick.sample \in {"healthy", "hard", "soft", "unknown"}
        BY <1>0, StepCounts DEF Judge
      <4>3. tick.sample = "unknown"
        BY <2>2, <4>1, <4>2 DEF HoldsStop, FirstSampleTells
      <4>. QED
        BY <1>1, <3>2, <4>1, <4>3 DEF StopMarker
    <3>. QED
      BY <3>3, <3>4
  <2>. QED
    BY <2>1, <2>2
<1>10. /\ tick.active \/ tick.sample \in {"unknown", "healthy"} => watch'.streak = 0 /\ watch'.seen = {}
       /\ ~tick.active /\ tick.sample = "soft" => watch'.streak = watch.streak /\ watch'.seen = watch.seen
       /\ ~tick.active /\ tick.sample = "hard" =>
            /\ watch'.streak = IF watch.streak < Threshold THEN watch.streak + 1 ELSE watch.streak
            /\ watch'.seen = watch.seen \cup {tick.cause}
       /\ tick.sample \in {"healthy", "hard", "soft", "unknown"}
  BY <1>0, <1>1, StepCounts DEF Judge
<1>11. UncheckedCountsNothing' /\ StreakIsSeen'
  <2>1. UncheckedCountsNothing'
    BY <1>1, <1>10 DEF UncheckedCountsNothing
  <2>2. StreakIsSeen'
    BY <1>0, <1>10 DEF CountInv, StreakIsSeen
  <2>. QED
    BY <2>1, <2>2
<1>12. SuspectCovered' /\ NoFalseReport'
  BY <1>0, <1>1, <1>2 DEF SuspectCovered, NoFalseReport, CountInv
<1>13. ASSUME listed, ~tick.active, tick.sample = "hard", tick.cause \notin Dead
       PROVE  HoldsStop /\ watch.streak = 0
  <2>1. HoldsStop
    BY <1>0, <1>1, <1>13 DEF CountInv, SuspectCovered, Suspect
  <2>. QED
    BY <1>0, <2>1 DEF CountInv, UncheckedCountsNothing, HoldsStop
<1>14. listed /\ ~tick.active => watch.seen \subseteq Dead
  BY <1>0, <1>1 DEF CountInv, CountedCovered
<1>15. CountedCovered'
  <2>. SUFFICES ASSUME listed, ~(watch'.seen \subseteq Dead) PROVE Active(Lookup("cluster"))'
    BY <1>1, <1>2 DEF CountedCovered
  <2>1. ~tick.active /\ tick.sample = "hard" /\ tick.cause \notin Dead
    BY <1>10, <1>14
  <2>. QED
    BY <1>5, <1>13, <2>1 DEF Active
<1>16. CountedDead'
  <2>. SUFFICES ASSUME listed, watch'.streak >= 2 PROVE watch'.seen \subseteq Dead
    BY <1>1, <1>2 DEF CountedDead
  <2>1. CASE ~tick.active /\ tick.sample = "hard"
    <3>1. watch.streak # 0
      BY <1>0, <1>10, <2>1
    <3>2. tick.cause \in Dead
      BY <1>13, <2>1, <3>1
    <3>. QED
      BY <1>10, <1>14, <2>1, <3>2
  <2>2. CASE tick.active \/ tick.sample # "hard"
    BY <1>10, <1>14, <2>2
  <2>. QED
    BY <2>1, <2>2
<1>17. EventTrue'
  <2>. SUFFICES ASSUME tick'.pc = "emit"
                PROVE  watch'.seen \cap Dead # {} /\ (listed => watch'.seen \subseteq Dead)
    BY <1>1, <1>2 DEF EventTrue
  <2>1. ~tick.active /\ watch'.streak \in Nat /\ watch'.streak >= 3
    <3>1. StepAfter.streak \in Nat
      BY <1>0, StepType DEF Judge, Watch
    <3>. QED
      BY <1>0, <1>1, <1>2, <3>1
  <2>2. tick.sample \in {"hard", "soft"} /\ watch.streak >= 2
    BY <1>0, <1>10, <2>1
  <2>3. watch.seen \subseteq Dead /\ watch.seen # {} /\ watch.seen \subseteq watch'.seen
    BY <1>0, <1>1, <1>10, <2>1, <2>2 DEF CountInv, CountedDead, StreakIsSeen
  <2>4. listed => watch'.seen \subseteq Dead
    <3>1. watch'.streak >= 2
      BY <2>1
    <3>. QED
      BY <1>1, <1>16, <3>1 DEF CountedDead
  <2>. QED
    BY <2>3, <2>4
<1>. QED
  BY <1>6, <1>7, <1>8, <1>9, <1>11, <1>12, <1>15, <1>16, <1>17 DEF MarkedInv, CountInv

\* What is sent is what was judged.
LEMMA ReportEmit ==
  ASSUME ReportInv, Emit
  PROVE  MarkedInv' /\ CountInv'
<1>0. MarkedInv /\ CountInv /\ watch \in Watch
  BY BaseParts
<1>1. /\ UNCHANGED <<markers, host, commands>> /\ checked' = checked /\ tick.pc = "emit"
      /\ report' \in {report, tick.seen}
  BY DEF Emit, At
<1>2. tick'.pc = "idle" /\ tick'.sample = "none" /\ ~tick'.overdue
  BY DEF Emit, IdleTick
<1>3. \/ watch'.streak = watch.streak /\ watch'.seen = watch.seen
      \/ watch'.streak = 0 /\ watch'.seen = {}
  BY <1>0, WatchCounts DEF Emit
<1>4. memory' = memory /\ disk' = disk /\ listed' = listed
  BY <1>1 DEF markers, host
<1>5. MarkedInv'
  BY <1>0, <1>1, <1>2, MarkedQuiet
<1>6. NoFalseReport'
  BY <1>0, <1>1, <1>4 DEF CountInv, EventTrue, NoFalseReport
<1>7. UncheckedCountsNothing' /\ StreakIsSeen' /\ EventTrue' /\ SuspectCovered'
  BY <1>0, <1>1, <1>2, <1>3 DEF CountInv, UncheckedCountsNothing, StreakIsSeen, EventTrue, SuspectCovered
<1>8. CountedDead'
  BY <1>0, <1>1, <1>2, <1>3, <1>4 DEF CountInv, CountedDead
<1>9. CountedCovered'
  <2>1. Lookup("cluster")' = Lookup("cluster")
    BY <1>4 DEF Lookup
  <2>. QED
    BY <1>0, <1>1, <1>2, <1>3, <1>4, <2>1 DEF CountInv, CountedCovered, Active
<1>. QED
  BY <1>5, <1>6, <1>7, <1>8, <1>9 DEF CountInv

-----------------------------------------------------------------------------
\* The daemon dies: what is known of the stop it cut off is what is on disk.
LEMMA ReportDies ==
  ASSUME ReportInv, DaemonDies
  PROVE  MarkedInv' /\ CountInv'
<1>0. MarkersOK /\ CommandsOK /\ MarkedInv /\ StopInv /\ "cluster" \in Key
  BY BaseParts
<1>1. /\ tick' = IdleTick /\ watch' = FreshWatch /\ report' = {} /\ listed' = listed
      /\ \A c \in Commands : cmd'[c].pc = "idle"
  BY DEF DaemonDies, IdleCmd
<1>2. tick'.pc = "idle" /\ tick'.sample = "none" /\ ~tick'.overdue
  BY <1>1 DEF IdleTick
<1>3. watch'.streak = 0 /\ watch'.seen = {}
  BY <1>1 DEF FreshWatch
<1>4. Lookup("cluster")' = disk'["cluster"] /\ ~checked'
  <2>1. memory'["cluster"].mode = "absent"
    BY <1>0, MarkerType DEF DaemonDies
  <2>2. ~checked'
    BY DEF DaemonDies
  <2>. QED
    BY <2>1, <2>2 DEF Lookup
<1>5. CountInv'
  BY <1>1, <1>2, <1>3 DEF CountInv, UncheckedCountsNothing, StreakIsSeen, SuspectCovered, CountedCovered,
                          CountedDead, EventTrue, NoFalseReport
<1>6. DiskAgrees' /\ StopsMarked'
  BY <1>1, <1>4 DEF DiskAgrees, StopsMarked, Running, Commands
<1>7. TakenByCommand' /\ GoneUnlisted' /\ HaltedSampled'
  <2>1. engine' # "taken" /\ (engine' = "gone" => engine = "gone")
    BY DEF DaemonDies
  <2>. QED
    BY <1>0, <1>1, <1>2, <2>1 DEF MarkedInv, TakenByCommand, GoneUnlisted, HaltedSampled
<1>8. HaltedMarked'
  <2>. SUFFICES ASSUME engine' = "halted"
                PROVE  Held(disk["cluster"]) \/ StopMarker(disk["cluster"])
    <3>1. ASSUME engine' = "halted" PROVE disk' = disk
      BY <3>1 DEF DaemonDies
    <3>. QED
      BY <1>1, <1>4, <3>1 DEF HaltedMarked, Running, Held, StopMarker
  <2>1. ~lost /\ \/ engine = "halted"
                 \/ \E c \in Commands : Running(c) /\ cmd[c].kind = "stop"
    BY DEF DaemonDies
  <2>2. disk["cluster"] = Lookup("cluster")
    BY <1>0, <2>1 DEF MarkedInv, DiskAgrees
  <2>3. ASSUME NEW c \in Commands, Running(c), cmd[c].kind = "stop" PROVE c \in Command
    BY <1>0, <2>3 DEF StopInv, HostRestores, Commands
  <2>. QED
    BY <1>0, <2>1, <2>2, <2>3 DEF MarkedInv, HaltedMarked, StopsMarked
<1>. QED
  BY <1>5, <1>6, <1>7, <1>8 DEF MarkedInv

\* Nothing was stopped or sampled before the first start.
LEMMA ReportInit == Init => ReportInv
<1>. SUFFICES ASSUME Init PROVE ReportInv
  OBVIOUS
<1>1. StopInv /\ CoverInv
  BY StopInit, CoverInit
<1>2. /\ engine = "up" /\ report = {} /\ \A c \in Commands : ~Running(c)
      /\ tick.pc = "idle" /\ watch.streak = 0 /\ watch.seen = {}
  BY DEF Init, Running, IdleCmd, IdleTick, FreshWatch
<1>3. disk["cluster"] = Lookup("cluster")
  BY MarkerType DEF Init, Lookup, Key
<1>4. MarkedInv
  BY <1>2, <1>3 DEF MarkedInv, DiskAgrees, StopsMarked, TakenByCommand, GoneUnlisted, HaltedMarked,
                    HaltedSampled, Commands
<1>5. CountInv
  BY <1>2 DEF CountInv, UncheckedCountsNothing, StreakIsSeen, SuspectCovered, CountedCovered,
              CountedDead, EventTrue, NoFalseReport
<1>. QED
  BY <1>1, <1>4, <1>5 DEF ReportInv

\* No step breaks ReportInv where the first sample tells.
LEMMA ReportNext ==
  ASSUME ~Races, OneEach
  PROVE  ReportInv /\ FirstSampleTells /\ [Next]_vars => ReportInv'
<1>. SUFFICES ASSUME ReportInv, FirstSampleTells, [Next]_vars PROVE ReportInv'
  OBVIOUS
<1>1. StopInv' /\ CoverInv'
  BY StopNext, CoverNext DEF ReportInv
<1>. SUFFICES MarkedInv' /\ CountInv'
  BY <1>1 DEF ReportInv
<1>2. CASE UNCHANGED vars
  <2>0. MarkedInv /\ CountInv
    BY DEF ReportInv
  <2>1. /\ UNCHANGED <<markers, probe, host, commands>>
        /\ \A k : Lookup(k)' = Lookup(k)
    BY <1>2 DEF vars, markers, Lookup
  <2>2. CountInv'
    BY <2>0, <2>1, CountQuiet DEF host
  <2>3. DiskAgrees' /\ StopsMarked' /\ TakenByCommand' /\ GoneUnlisted'
    BY <2>0, <2>1 DEF MarkedInv, DiskAgrees, StopsMarked, TakenByCommand, GoneUnlisted, Running, Held,
                      StopMarker, markers, host, commands
  <2>4. HaltedMarked' /\ HaltedSampled'
    BY <2>0, <2>1 DEF MarkedInv, HaltedMarked, HaltedSampled, Running, Held, StopMarker, probe, host,
                      commands
  <2>. QED
    BY <2>2, <2>3, <2>4 DEF MarkedInv
<1>3. ASSUME NEW c \in Commands, \E kind \in KindsOf(c) : BeginManagedIntent(c, kind)
      PROVE  MarkedInv' /\ CountInv'
  BY <1>3, ReportBegin
<1>4. ASSUME NEW c \in Commands, \E ok \in BOOLEAN : EndManagedIntent(c, ok)
      PROVE  MarkedInv' /\ CountInv'
  BY <1>4, ReportEnd
<1>5. ASSUME NEW c \in Commands, Take(c) \/ MarkDestroyed(c) \/ Raise(c)
      PROVE  MarkedInv' /\ CountInv'
  BY <1>5, ReportEngine
<1>6. CASE Tick
  BY <1>6, ReportList, ReportSample, ReportIntentState, ReportJudge, ReportEmit DEF Tick
<1>7. CASE HealthyLong \/ QuietOver \/ Open \/ Close
  BY <1>7, ReportTimers
<1>8. ASSUME NEW k \in Key, Expire(k) PROVE MarkedInv' /\ CountInv'
  BY <1>8, ReportExpire
<1>9. CASE FeaturesKnown \/ Crash \/ ComesBack
  BY <1>9, ReportEngine
<1>10. CASE DaemonDies
  BY <1>10, ReportDies
<1>. QED
  BY <1>2, <1>3, <1>4, <1>5, <1>6, <1>7, <1>8, <1>9, <1>10 DEF Next

\* The probe never takes the platform for a crash, whatever number of daemon
\* deaths, lost sessions, failed marker writes and samples that tell nothing:
\* with one command on the cluster and one on the whole host at a time, a probe
\* that releases no marker while a command begins, runs or ends, and a first
\* sample after a restart that tells whether a cut-off stop left the engine
\* down (pg-dead-primary-observe.ts takes a soft one for its startup check too).
THEOREM ReportsAreTrue ==
  ASSUME ~Races, OneEach
  PROVE  Spec /\ []FirstSampleTells => []NoFalseReport
<1>1. ReportInv => NoFalseReport
  BY DEF ReportInv, CountInv
<1>. QED
  BY <1>1, ReportInit, ReportNext, PTL DEF Spec

-----------------------------------------------------------------------------
(***************************************************************************)
(* One mishap.  A cut-off stop takes one, a soft sample after it another.  *)
(***************************************************************************)
TellsInv ==
  /\ TypeInv
  /\ engine = "halted" => mishaps >= 1 /\ (tick.sample = "soft" => mishaps >= 2)

\* A halted engine comes from a death of the daemon, which ends the tick in
\* flight; a soft sample after it is one mishap more.
LEMMA TellsNext == TellsInv /\ [Next]_vars => TellsInv'
<1>. SUFFICES ASSUME TellsInv, [Next]_vars PROVE TellsInv'
  OBVIOUS
<1>1. TypeInv' /\ mishaps \in Nat /\ tick \in TickType
  BY NextType, TypeParts, Bounds DEF TellsInv, RestOK, ProbeOK
<1>2. mishaps' \in {mishaps, mishaps + 1}
  BY DEF Next, vars, Tick, BeginManagedIntent, Take, MarkDestroyed, Raise, EndManagedIntent, List,
         Sample, IntentState, Judge, Emit, HealthyLong, QuietOver, Expire, Open, FeaturesKnown, Close,
         Crash, ComesBack, DaemonDies, Record, Clear, Put, Keep, Mishap, NoMishap
<1>3. CASE DaemonDies
  <2>1. mishaps' = mishaps + 1 /\ tick'.sample = "none"
    BY <1>3 DEF DaemonDies, Mishap, IdleTick
  <2>. QED
    BY <1>1, <2>1 DEF TellsInv
<1>4. CASE Sample
  <2>1. engine' = engine /\ (tick'.sample = "soft" => mishaps' = mishaps + 1)
    BY <1>1, <1>4 DEF Sample, Mishap, host, TickType
  <2>. QED
    BY <1>1, <1>2, <2>1 DEF TellsInv
<1>5. CASE ~DaemonDies /\ ~Sample
  <2>1. engine' = "halted" => engine = "halted"
    BY <1>5 DEF Next, vars, Tick, BeginManagedIntent, Take, MarkDestroyed, Raise, EndManagedIntent, List,
         IntentState, Judge, Emit, HealthyLong, QuietOver, Expire, Open, FeaturesKnown, Close,
         Crash, ComesBack, host
  <2>2. tick'.sample \in {tick.sample, "none"}
    <3>1. CASE List \/ Emit
      BY <3>1 DEF List, Emit, IdleTick
    <3>2. CASE Judge
      BY <3>2 DEF Judge, IdleTick
    <3>3. CASE IntentState
      BY <1>1, <3>3 DEF IntentState, TickType
    <3>4. CASE tick' = tick
      BY <3>4
    <3>. QED
      BY <1>5, <3>1, <3>2, <3>3, <3>4
         DEF Next, vars, Tick, BeginManagedIntent, Take, MarkDestroyed, Raise, EndManagedIntent,
             HealthyLong, QuietOver, Expire, Open, FeaturesKnown, Close, Crash, ComesBack, probe
  <2>. QED
    BY <1>1, <1>2, <2>1, <2>2 DEF TellsInv
<1>. QED
  BY <1>3, <1>4, <1>5

\* With at most one mishap no report is false, without more said about samples.
THEOREM OneMishapReportsAreTrue ==
  ASSUME ~Races, OneEach, MaxMishaps <= 1
  PROVE  Spec => []NoFalseReport
<1>1. Init => TellsInv
  BY InitType DEF Init, TellsInv
<1>2. TellsInv => FirstSampleTells
  BY Bounds, TypeParts DEF TellsInv, FirstSampleTells, RestOK
<1>. QED
  BY <1>1, <1>2, TellsNext, ReportsAreTrue, PTL DEF Spec
=============================================================================
