------------------------- MODULE ManagedIntentProofs ------------------------
(***************************************************************************)
(* Proofs about ManagedIntent for every threshold, event budget, number of *)
(* commands and mishaps: its types, that a stopped database stays marked,  *)
(* and the lemmas on the marker of a command under way.                    *)
(***************************************************************************)
EXTENDS ManagedIntent, TLAPS

(***************************************************************************)
(* Type correctness.  The event budget is not exceeded because Emit is     *)
(* reached with an event left and no other step adds one; what is counted  *)
(* is a hard sample, taken of an engine that was down.                     *)
(***************************************************************************)
Watch == [streak : 0 .. Threshold, seen : SUBSET Down, healthy : {"no", "since", "long"},
          events : 0 .. MaxEvents, quiet : BOOLEAN]
TickType == [pc : {"idle", "sample", "intent", "judge", "emit"},
             sample : {"none", "healthy", "hard", "soft", "unknown"},
             cause : Down \cup {"up"}, active : BOOLEAN, heldMarker : BOOLEAN,
             stopRunning : BOOLEAN, overdue : BOOLEAN, seen : SUBSET Down]
CmdType == [pc : {"idle", "running"}, kind : Kind, own : BOOLEAN, took : BOOLEAN]

EventLeft == tick.pc = "emit" => watch.events < MaxEvents
CauseKnown == tick.pc \in {"intent", "judge"} =>
                tick.sample # "none" /\ (tick.sample = "hard" => tick.cause \in Down)
TypeInv == TypeOK /\ EventLeft /\ CauseKnown

\* TypeOK in the parts that an action disturbs.
MarkersOK == memory \in [Key -> Marker] /\ disk \in [Key -> Marker] /\ lost \in BOOLEAN
CommandsOK == cmd \in [Commands -> CmdType] /\ begun \in 0 .. MaxCommands
HostOK == engine \in Down \cup {"up"} /\ listed \in BOOLEAN
WatchOK == watch \in Watch /\ EventLeft
ProbeOK == checked \in BOOLEAN /\ tick \in TickType /\ report \subseteq Down /\ CauseKnown
RestOK == session \in {"closed", "open", "known"} /\ mishaps \in 0 .. MaxMishaps
\* The type invariant is its parts.
LEMMA TypeParts ==
  /\ TypeInv <=> MarkersOK /\ CommandsOK /\ HostOK /\ WatchOK /\ ProbeOK /\ RestOK
  /\ TypeInv' <=> MarkersOK' /\ CommandsOK' /\ HostOK' /\ WatchOK' /\ ProbeOK' /\ RestOK'
BY DEF TypeInv, TypeOK, MarkersOK, CommandsOK, HostOK, WatchOK, ProbeOK, RestOK,
       Watch, TickType, CmdType

\* The bounds are numbers.
LEMMA Bounds ==
  /\ Threshold \in Nat /\ Threshold >= 3 /\ MaxEvents \in Nat \ {0}
  /\ MaxCommands \in Nat /\ MaxMishaps \in Nat /\ Races \in BOOLEAN
BY IntentAssumption

\* The markers that are written are markers, and so is what a look-up finds.
LEMMA MarkerType ==
  /\ \A mode \in {"absent", "cleared", "running", "transient", "held", "unreadable"} :
       NoMarker(mode) \in Marker /\ NoMarker(mode).mode = mode /\ ~NoMarker(mode).over
  /\ \A c \in Commands, kind \in Kind :
       /\ OwnMarker(c, kind) \in Marker /\ ~OwnMarker(c, kind).over
       /\ IF kind = "destroy" THEN OwnMarker(c, kind).mode = "held"
          ELSE OwnMarker(c, kind).mode = "running" /\ OwnMarker(c, kind).by = c
  /\ Absent \in Marker /\ Absent.mode = "absent"
BY DEF NoMarker, OwnMarker, RunningMarker, Marker, Absent

\* A look-up gives a marker.
LEMMA LookupType ==
  ASSUME MarkersOK, NEW k \in Key
  PROVE  Lookup(k) \in Marker
BY MarkerType DEF Lookup, MarkersOK

\* A mishap stays within its bound.
LEMMA MishapType ==
  ASSUME mishaps \in 0 .. MaxMishaps, Mishap \/ NoMishap
  PROVE  mishaps' \in 0 .. MaxMishaps
BY Bounds DEF Mishap, NoMishap

\* Writing or leaving a marker keeps the types of the markers and the mishaps.
LEMMA PutType ==
  ASSUME MarkersOK, RestOK, NEW k \in Key, NEW m \in Marker, NEW d \in Marker, Put(k, m, d)
  PROVE  MarkersOK' /\ mishaps' \in 0 .. MaxMishaps
<1>1. mishaps' \in 0 .. MaxMishaps
  BY MishapType DEF Put, RestOK
<1>2. memory' \in [Key -> Marker] /\ disk' \in [Key -> Marker]
  BY DEF Put, MarkersOK
<1>3. lost' \in BOOLEAN
  BY DEF Put
<1>. QED
  BY <1>1, <1>2, <1>3 DEF MarkersOK
\* A begin that keeps the marker.
LEMMA KeepType ==
  ASSUME MarkersOK, RestOK, Keep
  PROVE  MarkersOK' /\ mishaps' \in 0 .. MaxMishaps
BY MishapType DEF Keep, MarkersOK, RestOK, markers

\* The keys and kinds of a command.
LEMMA KeyType ==
  ASSUME NEW c \in Commands
  PROVE  KeyOf(c) \in Key /\ KindsOf(c) \subseteq Kind
BY DEF KeyOf, Key, KindsOf, Kind

\* Begin keeps the types.
LEMMA TypeBegin ==
  ASSUME TypeInv, NEW c \in Commands, NEW kind \in KindsOf(c), BeginManagedIntent(c, kind)
  PROVE  TypeInv'
<1>. USE TypeParts
<1>1. MarkersOK' /\ mishaps' \in 0 .. MaxMishaps
  <2>1. OwnMarker(c, kind) \in Marker /\ KeyOf(c) \in Key
    BY KeyType, MarkerType
  <2>. QED
    BY <2>1, PutType, KeepType DEF BeginManagedIntent, Record
<1>2. CommandsOK'
  <2>1. kind \in Kind /\ KeepsHeld(c, kind) \in BOOLEAN
    BY KeyType DEF KeepsHeld, Held
  <2>2. begun' \in 0 .. MaxCommands
    BY Bounds DEF BeginManagedIntent, CommandsOK
  <2>3. [pc |-> "running", kind |-> kind, own |-> ~KeepsHeld(c, kind), took |-> FALSE] \in CmdType
    BY <2>1 DEF CmdType
  <2>. QED
    BY <2>2, <2>3 DEF BeginManagedIntent, CommandsOK
<1>3. HostOK' /\ WatchOK' /\ ProbeOK' /\ RestOK'
  BY <1>1 DEF BeginManagedIntent, HostOK, WatchOK, EventLeft, CauseKnown, ProbeOK, RestOK, probe, Down
<1>. QED
  BY <1>1, <1>2, <1>3

\* Handler keeps the types.
LEMMA TypeHandler ==
  ASSUME TypeInv, NEW c \in Commands, Take(c) \/ MarkDestroyed(c) \/ Raise(c)
  PROVE  TypeInv'
<1>. USE TypeParts
<1>1. CommandsOK' /\ HostOK'
  BY DEF Take, MarkDestroyed, Raise, CommandsOK, CmdType, HostOK, Down, commands
<1>2. MarkersOK' /\ WatchOK' /\ ProbeOK' /\ RestOK'
  BY DEF Take, MarkDestroyed, Raise, MarkersOK, WatchOK, EventLeft, CauseKnown, ProbeOK, RestOK, probe,
         markers, commands
<1>. QED
  BY <1>1, <1>2

\* End keeps the types.
LEMMA TypeEnd ==
  ASSUME TypeInv, NEW c \in Commands, NEW ok \in BOOLEAN, EndManagedIntent(c, ok)
  PROVE  TypeInv'
<1>. USE TypeParts
<1>1. MarkersOK' /\ mishaps' \in 0 .. MaxMishaps
  <2>1. \/ Clear(KeyOf(c)) \/ Keep \/ Record(KeyOf(c), NoMarker("held"))
        \/ Record(KeyOf(c), NoMarker("transient"))
    BY DEF EndManagedIntent
  <2>. QED
    BY <2>1, KeyType, MarkerType, PutType, KeepType DEF Record, Clear
<1>2. CommandsOK'
  <2>1. IdleCmd \in CmdType
    BY DEF IdleCmd, CmdType, Kind
  <2>. QED
    BY <2>1 DEF EndManagedIntent, CommandsOK
<1>3. HostOK' /\ WatchOK' /\ ProbeOK' /\ RestOK'
  BY <1>1 DEF EndManagedIntent, HostOK, WatchOK, EventLeft, CauseKnown, ProbeOK, RestOK, probe, Down
<1>. QED
  BY <1>1, <1>2, <1>3

\* Expire keeps the types.
LEMMA TypeExpire ==
  ASSUME TypeInv, NEW k \in Key, Expire(k)
  PROVE  TypeInv'
<1>. USE TypeParts
<1>1. [Lookup(k) EXCEPT !.over = TRUE] \in Marker
  BY LookupType DEF Marker
<1>2. MarkersOK'
  BY <1>1 DEF Expire, MarkersOK
<1>3. CommandsOK' /\ HostOK' /\ WatchOK' /\ ProbeOK' /\ RestOK'
  BY DEF Expire, CommandsOK, HostOK, WatchOK, EventLeft, CauseKnown, ProbeOK, RestOK, probe, host, commands
<1>. QED
  BY <1>2, <1>3

\* A watch with other values in its fields.
LEMMA WatchStreak ==
  ASSUME NEW w \in Watch, NEW streak \in 0 .. Threshold, NEW seen \in SUBSET Down
  PROVE  /\ [w EXCEPT !.streak = streak, !.seen = seen] \in Watch
         /\ [w EXCEPT !.streak = streak, !.seen = seen].events = w.events
         /\ [w EXCEPT !.streak = streak, !.seen = seen].healthy = w.healthy
BY DEF Watch
\* A healthy sample is noted.
LEMMA WatchHealthy ==
  ASSUME NEW w \in Watch, NEW healthy \in {"no", "since", "long"}
  PROVE  /\ [w EXCEPT !.healthy = healthy] \in Watch
         /\ [w EXCEPT !.healthy = healthy].events = w.events
         /\ [w EXCEPT !.healthy = healthy].healthy = healthy
BY DEF Watch
\* An event that is sent is counted.
LEMMA WatchEvents ==
  ASSUME NEW w \in Watch, NEW events \in 0 .. MaxEvents
  PROVE  /\ [w EXCEPT !.events = events, !.quiet = TRUE] \in Watch
         /\ [w EXCEPT !.events = events, !.quiet = TRUE].healthy = w.healthy
         /\ [w EXCEPT !.events = events] \in Watch
         /\ [w EXCEPT !.events = events].healthy = w.healthy
BY DEF Watch

\* The steps of the watch that forget failures, and the one that counts an event.
LEMMA WatchType ==
  ASSUME NEW w \in Watch
  PROVE  /\ NoStreak(w) \in Watch /\ NoStreak(w).events = w.events /\ NoStreak(w).healthy = w.healthy
         /\ [NoStreak(w) EXCEPT !.healthy = "no"] \in Watch
         /\ [NoStreak(w) EXCEPT !.healthy = "no"].events = w.events
         /\ [NoStreak(w) EXCEPT !.healthy = "no"].healthy = "no"
         /\ FreshWatch \in Watch /\ FreshWatch.healthy = "no"
         /\ w.events < MaxEvents => MarkEmitted(w) \in Watch /\ MarkEmitted(w).healthy = w.healthy
<1>0. 0 \in 0 .. Threshold /\ {} \in SUBSET Down
  BY Bounds
<1>1. /\ NoStreak(w) \in Watch /\ NoStreak(w).events = w.events /\ NoStreak(w).healthy = w.healthy
  BY <1>0, WatchStreak DEF NoStreak
<1>2. FreshWatch \in Watch /\ FreshWatch.healthy = "no"
  BY Bounds DEF FreshWatch, Watch
<1>3. ASSUME w.events < MaxEvents
      PROVE  MarkEmitted(w) \in Watch /\ MarkEmitted(w).healthy = w.healthy
  <2>1. w.events + 1 \in 0 .. MaxEvents
    BY <1>3, Bounds DEF Watch
  <2>2. MarkEmitted(w) = [w EXCEPT !.events = w.events + 1, !.quiet = TRUE]
    BY DEF MarkEmitted
  <2>. QED
    BY <2>1, <2>2, WatchEvents
<1>. DEFINE v == NoStreak(w)
<1>. HIDE DEF v
<1>4. v \in Watch => /\ [v EXCEPT !.healthy = "no"] \in Watch
                     /\ [v EXCEPT !.healthy = "no"].events = v.events
                     /\ [v EXCEPT !.healthy = "no"].healthy = "no"
  BY WatchHealthy
<1>. QED
  BY <1>1, <1>2, <1>3, <1>4 DEF v

\* What a tick is at its start.
LEMMA IdleTickType ==
  /\ IdleTick \in TickType /\ IdleTick.pc = "idle" /\ ~IdleTick.overdue
  /\ [IdleTick EXCEPT !.pc = "sample"] \in TickType
  /\ [IdleTick EXCEPT !.pc = "sample"].pc = "sample"
  /\ ~[IdleTick EXCEPT !.pc = "sample"].overdue
BY DEF IdleTick, TickType

\* List keeps the types.
LEMMA TypeList ==
  ASSUME TypeInv, List
  PROVE  TypeInv'
<1>. USE TypeParts
<1>1. /\ tick' \in TickType /\ tick'.pc \in {"idle", "sample"}
  BY IdleTickType DEF List
<1>2. watch' \in Watch
  BY WatchType DEF List, WatchOK
<1>3. RestOK'
  BY MishapType DEF List, RestOK
<1>4. MarkersOK' /\ CommandsOK' /\ HostOK' /\ WatchOK' /\ ProbeOK'
  BY <1>1, <1>2 DEF List, MarkersOK, CommandsOK, HostOK, WatchOK, EventLeft, CauseKnown, ProbeOK, markers,
                    host, commands
<1>. QED
  BY <1>3, <1>4

\* Sample keeps the types.
LEMMA TypeSample ==
  ASSUME TypeInv, Sample
  PROVE  TypeInv'
<1>. USE TypeParts
<1>1. /\ tick' \in TickType /\ tick'.pc # "emit"
  BY DEF Sample, ProbeOK, TickType, HostOK
<1>2. RestOK'
  BY MishapType DEF Sample, RestOK
<1>3. MarkersOK' /\ CommandsOK' /\ HostOK' /\ WatchOK' /\ ProbeOK'
  BY <1>1 DEF Sample, MarkersOK, CommandsOK, HostOK, WatchOK, EventLeft, CauseKnown, ProbeOK, markers,
              host, commands
<1>. QED
  BY <1>2, <1>3

\* IntentState keeps the types.
LEMMA TypeIntentState ==
  ASSUME TypeInv, IntentState
  PROVE  TypeInv'
<1>. USE TypeParts
<1>1. /\ tick' \in TickType /\ tick'.pc = "judge"
      /\ tick'.sample = tick.sample /\ tick'.cause = tick.cause
  <2>1. \A m \in Marker : Active(m) \in BOOLEAN /\ Held(m) \in BOOLEAN /\ m.over \in BOOLEAN
    BY DEF Active, Held, Marker
  <2>2. Lookup("cluster") \in Marker /\ Lookup("host") \in Marker
    BY LookupType DEF Key
  <2>3. PICK a \in BOOLEAN, h \in BOOLEAN, r \in BOOLEAN, o \in BOOLEAN :
          tick' = [tick EXCEPT !.pc = "judge", !.active = a, !.heldMarker = h,
                               !.stopRunning = r, !.overdue = o]
    BY <2>1, <2>2 DEF IntentState
  <2>. QED
    BY <2>3, ZenonT(60) DEF ProbeOK, TickType
<1>3. MarkersOK' /\ CommandsOK' /\ HostOK' /\ WatchOK' /\ ProbeOK' /\ RestOK'
  BY <1>1 DEF IntentState, At, MarkersOK, CommandsOK, HostOK, WatchOK, EventLeft, CauseKnown,
              ProbeOK, markers, host, commands, RestOK
<1>. QED
  BY <1>3

\* DeadPrimaryDetector.step keeps the counters within their bounds.
LEMMA StepType ==
  ASSUME TypeInv, At("judge")
  PROVE  StepAfter \in Watch /\ StepAfter.healthy = HealthyAfter
<1>. USE TypeParts
<1>. DEFINE w == [watch EXCEPT !.healthy = HealthyAfter]
            u == NoStreak(w)
            n == IF w.streak < Threshold THEN w.streak + 1 ELSE w.streak
            v == [w EXCEPT !.streak = n, !.seen = w.seen \cup {tick.cause}]
<1>1. w \in Watch /\ w.healthy = HealthyAfter
  <2>1. HealthyAfter \in {"no", "since", "long"} /\ watch \in Watch
    BY DEF WatchOK, Watch, HealthyAfter
  <2>. QED
    BY <2>1, WatchHealthy
<1>2. tick.sample \in {"healthy", "hard", "soft", "unknown"} /\ (tick.sample = "hard" => tick.cause \in Down)
  BY DEF ProbeOK, TickType, CauseKnown, At
<1>3. StepAfter \in {u, w, v, [u EXCEPT !.events = 0]} /\ (tick.sample # "hard" => StepAfter # v \/ StepAfter \in {u, w, [u EXCEPT !.events = 0]})
  BY <1>2 DEF StepAfter
<1>. HIDE DEF w
<1>4. u \in Watch /\ u.healthy = HealthyAfter
  BY <1>1, WatchType
<1>. HIDE DEF u
<1>5. [u EXCEPT !.events = 0] \in Watch /\ [u EXCEPT !.events = 0].healthy = HealthyAfter
  <2>1. 0 \in 0 .. MaxEvents
    BY Bounds
  <2>. QED
    BY <1>4, <2>1, WatchEvents
<1>6. ASSUME tick.sample = "hard" PROVE v \in Watch /\ v.healthy = HealthyAfter
  <2>1. n \in 0 .. Threshold /\ w.seen \cup {tick.cause} \in SUBSET Down
    BY <1>1, <1>2, <1>6, Bounds DEF Watch
  <2>. HIDE DEF n
  <2>. QED
    BY <1>1, <2>1, WatchStreak
<1>. HIDE DEF v
<1>. QED
  BY <1>1, <1>3, <1>4, <1>5, <1>6

\* A judged tick fires with an event left, or is over.
LEMMA TypeJudge ==
  ASSUME TypeInv, Judge
  PROVE  TypeInv'
<1>. USE TypeParts
<1>1. MarkersOK' /\ RestOK'
  <2>1. Record("cluster", NoMarker("held")) \/ Clear("cluster") \/ Keep
    BY DEF Judge
  <2>2. "cluster" \in Key
    BY DEF Key
  <2>3. MarkersOK' /\ mishaps' \in 0 .. MaxMishaps
    BY <2>1, <2>2, MarkerType, PutType, KeepType DEF Record, Clear
  <2>. QED
    BY <2>3 DEF Judge, RestOK
<1>2. StepAfter \in Watch /\ watch' = StepAfter
  BY StepType DEF Judge
<1>3. \/ tick' = IdleTick
      \/ CanFire(StepAfter) /\ tick' = [IdleTick EXCEPT !.pc = "emit", !.seen = StepAfter.seen]
  BY DEF Judge
<1>. DEFINE seen == StepAfter.seen
<1>4. seen \in SUBSET Down
  BY <1>2 DEF Watch
<1>. HIDE DEF seen
<1>5. /\ [IdleTick EXCEPT !.pc = "emit", !.seen = seen] \in TickType
      /\ [IdleTick EXCEPT !.pc = "emit", !.seen = seen].pc = "emit"
  BY <1>4 DEF IdleTick, TickType
<1>6. tick' \in TickType /\ tick'.pc \in {"idle", "emit"} /\ (tick'.pc = "emit" => CanFire(StepAfter))
  BY <1>3, <1>5, IdleTickType DEF seen
<1>7. WatchOK'
  BY <1>2, <1>6 DEF WatchOK, EventLeft, CanFire
<1>8. ProbeOK'
  <2>1. checked' \in BOOLEAN /\ report' \subseteq Down
    BY DEF Judge, ProbeOK
  <2>. QED
    BY <1>6, <2>1 DEF ProbeOK, CauseKnown
<1>9. CommandsOK' /\ HostOK'
  BY DEF Judge, CommandsOK, HostOK, host, commands
<1>. QED
  BY <1>1, <1>7, <1>8, <1>9

\* Emit keeps the types.
LEMMA TypeEmit ==
  ASSUME TypeInv, Emit
  PROVE  TypeInv'
<1>. USE TypeParts
<1>1. watch \in Watch /\ watch.events < MaxEvents
  BY DEF Emit, At, WatchOK, EventLeft
<1>2. watch' \in Watch
  BY <1>1, WatchType DEF Emit
<1>3. RestOK'
  BY MishapType DEF Emit, RestOK
<1>4. MarkersOK' /\ CommandsOK' /\ HostOK' /\ WatchOK' /\ ProbeOK'
  BY <1>2, IdleTickType DEF Emit, MarkersOK, CommandsOK, HostOK, WatchOK, EventLeft, CauseKnown,
                            ProbeOK, markers, host, commands, TickType
<1>. QED
  BY <1>3, <1>4

\* The timers of the probe and the session.
LEMMA TypeTimers ==
  ASSUME TypeInv, HealthyLong \/ QuietOver \/ Open \/ FeaturesKnown \/ Close
  PROVE  TypeInv'
<1>. USE TypeParts
<1>1. watch' \in Watch /\ watch'.events = watch.events
  <2>1. watch \in Watch
    BY DEF WatchOK
  <2>2. [watch EXCEPT !.healthy = "long"] \in Watch /\ [watch EXCEPT !.healthy = "long"].events = watch.events
    BY <2>1, WatchHealthy
  <2>3. [watch EXCEPT !.quiet = FALSE] \in Watch /\ [watch EXCEPT !.quiet = FALSE].events = watch.events
    BY <2>1 DEF Watch
  <2>. QED
    BY <2>1, <2>2, <2>3, WatchType DEF HealthyLong, QuietOver, Open, FeaturesKnown, Close, probe
<1>2. RestOK'
  BY MishapType DEF HealthyLong, QuietOver, Open, FeaturesKnown, Close, RestOK
<1>3. MarkersOK' /\ CommandsOK' /\ HostOK' /\ WatchOK' /\ ProbeOK'
  BY <1>1 DEF HealthyLong, QuietOver, Open, FeaturesKnown, Close, MarkersOK, CommandsOK, HostOK,
              WatchOK, EventLeft, CauseKnown, ProbeOK, markers, host, commands, probe
<1>. QED
  BY <1>2, <1>3

\* Engine keeps the types.
LEMMA TypeEngine ==
  ASSUME TypeInv, Crash \/ ComesBack
  PROVE  TypeInv'
<1>. USE TypeParts
<1>1. MarkersOK' /\ CommandsOK' /\ WatchOK' /\ ProbeOK' /\ RestOK'
  BY DEF Crash, ComesBack, MarkersOK, CommandsOK, WatchOK, EventLeft, CauseKnown, ProbeOK,
         RestOK, markers, commands, probe
<1>2. HostOK'
  BY DEF Crash, ComesBack, HostOK, Down
<1>. QED
  BY <1>1, <1>2

\* Dies keeps the types.
LEMMA TypeDies ==
  ASSUME TypeInv, DaemonDies
  PROVE  TypeInv'
<1>. USE TypeParts
<1>1. MarkersOK'
  <2>1. NoMarker("unreadable") \in Marker /\ Absent \in Marker
    BY MarkerType
  <2>2. memory' \in [Key -> Marker] /\ disk' \in [Key -> Marker]
    BY <2>1 DEF DaemonDies, MarkersOK
  <2>3. lost' \in BOOLEAN
    BY Zenon DEF DaemonDies
  <2>. QED
    BY <2>2, <2>3 DEF MarkersOK
<1>2. CommandsOK'
  <2>1. IdleCmd \in CmdType
    BY DEF IdleCmd, CmdType, Kind
  <2>. QED
    BY <2>1 DEF DaemonDies, CommandsOK
<1>3. WatchOK' /\ ProbeOK'
  <2>1. checked' \in BOOLEAN
    BY Zenon DEF DaemonDies
  <2>2. FreshWatch \in Watch
    BY Bounds DEF FreshWatch, Watch
  <2>. QED
    BY <2>1, <2>2, IdleTickType DEF DaemonDies, WatchOK, EventLeft, CauseKnown, ProbeOK
<1>4. RestOK'
  BY MishapType DEF DaemonDies, RestOK
<1>5. HostOK'
  BY DEF DaemonDies, HostOK, Down
<1>. QED
  BY <1>1, <1>2, <1>3, <1>4, <1>5

\* The state in which the daemon first starts.
LEMMA InitType == Init => TypeInv
<1>. SUFFICES ASSUME Init PROVE TypeInv
  OBVIOUS
<1>1. MarkersOK
  <2>1. lost \in BOOLEAN
    BY Zenon DEF Init
  <2>. QED
    BY <2>1, MarkerType DEF Init, MarkersOK
<1>2. CommandsOK
  <2>1. IdleCmd \in CmdType
    BY DEF IdleCmd, CmdType, Kind
  <2>. QED
    BY <2>1, Bounds DEF Init, CommandsOK
<1>3. HostOK
  <2>1. listed \in BOOLEAN
    BY Zenon DEF Init
  <2>. QED
    BY <2>1 DEF Init, HostOK
<1>4. WatchOK /\ ProbeOK
  <2>1. checked \in BOOLEAN
    BY Zenon DEF Init
  <2>2. FreshWatch \in Watch
    BY Bounds DEF FreshWatch, Watch
  <2>. QED
    BY <2>1, <2>2, IdleTickType DEF Init, WatchOK, EventLeft, CauseKnown, ProbeOK
<1>5. RestOK
  BY Bounds DEF Init, RestOK
<1>. QED
  BY <1>1, <1>2, <1>3, <1>4, <1>5, TypeParts

\* Every step keeps the types.
LEMMA NextType == TypeInv /\ [Next]_vars => TypeInv'
<1>. SUFFICES ASSUME TypeInv, [Next]_vars PROVE TypeInv'
  OBVIOUS
<1>1. CASE UNCHANGED vars
  BY <1>1 DEF TypeInv, TypeOK, EventLeft, CauseKnown, vars, markers, probe, host, commands
<1>2. ASSUME NEW c \in Commands,
             \/ \E kind \in KindsOf(c) : BeginManagedIntent(c, kind)
             \/ Take(c) \/ MarkDestroyed(c) \/ Raise(c)
             \/ \E ok \in BOOLEAN : EndManagedIntent(c, ok)
      PROVE  TypeInv'
  BY <1>2, TypeBegin, TypeHandler, TypeEnd
<1>3. CASE Tick
  BY <1>3, TypeList, TypeSample, TypeIntentState, TypeJudge, TypeEmit DEF Tick
<1>4. ASSUME NEW k \in Key, Expire(k) PROVE TypeInv'
  BY <1>4, TypeExpire
<1>5. CASE \/ HealthyLong \/ QuietOver \/ Open \/ FeaturesKnown \/ Close
           \/ Crash \/ ComesBack \/ DaemonDies
  BY <1>5, TypeTimers, TypeEngine, TypeDies
<1>. QED
  BY <1>1, <1>2, <1>3, <1>4, <1>5 DEF Next

\* The markers, the commands and the probe keep their types; in particular the
\* probe never sends more than maxEventsPerIncident events for an incident and
\* counts only engines that were down (pg-dead-primary.ts).
THEOREM TypeCorrect == Spec => []TypeOK
<1>1. TypeInv => TypeOK
  BY DEF TypeInv
<1>. QED
  BY <1>1, InitType, NextType, PTL DEF Spec

-----------------------------------------------------------------------------
(***************************************************************************)
(* A stopped database stays marked.                                        *)
(***************************************************************************)
\* A marker is found overdue on the way to a judgement only.
OverdueIsJudged == tick.overdue => tick.pc = "judge"

\* A command that names no cluster is a restore (or a reboot, which is one here).
HostRestores == \A c \in HostCommand : Running(c) => cmd[c].kind = "restore"

\* What the platform stopped is held, and held on disk unless the write failed.
StopHeld == engine = "stopped" => /\ Held(Lookup("cluster"))
                                  /\ ~lost => Held(disk["cluster"])

\* No tick in flight releases it: what it found was not overdue, and the healthy
\* sample it took before the stop is not the one that ends ten healthy minutes.
StopNotReleased ==
  engine = "stopped" =>
    /\ ~tick.overdue
    /\ tick.pc \in {"intent", "judge"} /\ tick.sample = "healthy" => watch.healthy # "long"

StopInv == TypeInv /\ OverdueIsJudged /\ HostRestores /\ StopHeld /\ StopNotReleased

(***************************************************************************)
(* A command is covered while it runs.                                     *)
(***************************************************************************)
\* At most one command on the cluster and one on the whole host at a time: the
\* marker has room for one.
OneEach == (\A c, d \in Command : c = d) /\ (\A c, d \in HostCommand : c = d)

\* The marker of a running command is held, or its own and not past its time.
OwnOrHeld(c) ==
  Running(c) => LET m == Lookup(KeyOf(c))
                IN Held(m) \/ (m.mode = "running" /\ m.by = c /\ ~m.over)

\* The probe has a release due only while no command on the cluster runs.
ReleaseWaits == watch.healthy = "long" \/ tick.overdue => \A c \in Command : ~Running(c)

CoverInv == /\ TypeInv /\ OverdueIsJudged /\ ReleaseWaits
            /\ \A c \in Commands : OwnOrHeld(c)

-----------------------------------------------------------------------------
\* A write puts its marker where a look-up finds it, on disk or counted as lost,
\* and touches no other key.
LEMMA PutShape ==
  ASSUME MarkersOK, NEW k \in Key, NEW m \in Marker, NEW d \in Marker, Put(k, m, d)
  PROVE  /\ m.mode \notin {"cleared", "absent"} => Lookup(k)' = m
         /\ \/ disk'[k] = d /\ lost' = (lost /\ k # "cluster")
            \/ disk'[k] = disk[k] /\ lost' = (lost \/ k = "cluster")
         /\ \A j \in Key \ {k} : disk'[j] = disk[j] /\ Lookup(j)' = Lookup(j)
<1>1. memory' = [memory EXCEPT ![k] = m]
  BY DEF Put
<1>2. \/ disk' = [disk EXCEPT ![k] = d] /\ lost' = (lost /\ k # "cluster")
      \/ disk' = disk /\ lost' = (lost \/ k = "cluster")
  BY DEF Put
<1>3. /\ memory'[k] = m /\ \A j \in Key \ {k} : memory'[j] = memory[j] /\ disk'[j] = disk[j]
      /\ \/ disk'[k] = d /\ lost' = (lost /\ k # "cluster")
         \/ disk'[k] = disk[k] /\ lost' = (lost \/ k = "cluster")
  BY <1>1, <1>2 DEF MarkersOK
<1>. QED
  BY <1>3 DEF Lookup

\* A begin that keeps the marker changes none.
LEMMA KeepShape ==
  ASSUME Keep
  PROVE  disk' = disk /\ lost' = lost /\ \A k : Lookup(k)' = Lookup(k)
BY DEF Keep, markers, Lookup

\* A command before its handler: a held marker stays held.
LEMMA StopBegin ==
  ASSUME StopInv, NEW c \in Commands, NEW kind \in KindsOf(c), BeginManagedIntent(c, kind)
  PROVE  StopInv'
<1>1. TypeInv /\ TypeInv' /\ MarkersOK /\ CommandsOK
  BY TypeBegin, TypeParts DEF StopInv
<1>2. /\ engine' = "stopped" => engine = "stopped"
      /\ cmd' = [cmd EXCEPT ![c] = [pc |-> "running", kind |-> kind, own |-> ~KeepsHeld(c, kind),
                                    took |-> FALSE]]
  BY DEF BeginManagedIntent, probe
<1>3. tick' = tick /\ watch' = watch
  BY DEF BeginManagedIntent, probe
<1>4. OverdueIsJudged' /\ StopNotReleased'
  BY <1>2, <1>3 DEF StopInv, OverdueIsJudged, StopNotReleased
<1>5. HostRestores'
  <2>. SUFFICES ASSUME NEW h \in HostCommand, Running(h)' PROVE cmd'[h].kind = "restore"
    BY DEF HostRestores
  <2>1. CASE h = c
    BY <1>1, <1>2, <2>1 DEF KindsOf, CommandsOK
  <2>2. CASE h # c
    BY <1>1, <1>2, <2>2 DEF StopInv, HostRestores, Running, CommandsOK, Commands
  <2>. QED
    BY <2>1, <2>2
<1>6. ASSUME engine = "stopped"
      PROVE  Held(Lookup("cluster"))' /\ (~lost' => Held(disk["cluster"])')
  <2>1. Held(Lookup("cluster")) /\ (~lost => Held(disk["cluster"])) /\ "cluster" \in Key
    BY <1>6 DEF StopInv, StopHeld, Key
  <2>2. CASE Keep
    BY <2>1, <2>2, KeepShape DEF Held
  <2>3. CASE ~KeepsHeld(c, kind) /\ Record(KeyOf(c), OwnMarker(c, kind))
    <3>1. OwnMarker(c, kind) \in Marker /\ KeyOf(c) \in Key /\ kind \in Kind
      BY KeyType, MarkerType
    <3>2. Put(KeyOf(c), OwnMarker(c, kind), OwnMarker(c, kind))
      BY <2>3 DEF Record
    <3>3. CASE KeyOf(c) = "cluster"
      <4>1. kind = "destroy" /\ OwnMarker(c, kind).mode = "held"
        BY <2>1, <2>3, <3>1, <3>3, MarkerType DEF KeepsHeld
      <4>. QED
        BY <1>1, <3>1, <3>2, <3>3, <4>1, PutShape DEF Held
    <3>4. CASE KeyOf(c) # "cluster"
      BY <1>1, <2>1, <3>1, <3>2, <3>4, PutShape DEF Held
    <3>. QED
      BY <3>3, <3>4
  <2>. QED
    BY <2>2, <2>3 DEF BeginManagedIntent
<1>. QED
  BY <1>1, <1>2, <1>4, <1>5, <1>6 DEF StopInv, StopHeld

\* A command after its handler: a stop that worked is held, and nothing else
\* that ends while the engine is stopped releases it.
LEMMA StopEnd ==
  ASSUME StopInv, ~Races, NEW c \in Commands, NEW ok \in BOOLEAN, EndManagedIntent(c, ok)
  PROVE  StopInv'
<1>. DEFINE kind == cmd[c].kind
<1>1. TypeInv /\ TypeInv' /\ MarkersOK /\ CommandsOK /\ Running(c) /\ KeyOf(c) \in Key
  BY TypeEnd, TypeParts, KeyType DEF StopInv, EndManagedIntent
<1>2. tick' = tick /\ watch' = watch /\ cmd' = [cmd EXCEPT ![c] = IdleCmd]
  BY DEF EndManagedIntent, probe
<1>3. /\ watch.healthy # "long" /\ ~tick.overdue
  <2>1. watch.healthy # "long" /\ (tick.pc = "judge" => ~tick.overdue)
    BY DEF EndManagedIntent, NoReleaseDue, ReleasesHeld
  <2>. QED
    BY <2>1 DEF StopInv, OverdueIsJudged
<1>4. OverdueIsJudged' /\ StopNotReleased'
  BY <1>2, <1>3 DEF OverdueIsJudged, StopNotReleased
<1>5. HostRestores'
  <2>. SUFFICES ASSUME NEW h \in HostCommand, Running(h)' PROVE cmd'[h].kind = "restore"
    BY DEF HostRestores
  <2>1. h # c /\ h \in Commands
    BY <1>1, <1>2 DEF Running, CommandsOK, IdleCmd, Commands
  <2>. QED
    BY <1>1, <1>2, <2>1 DEF StopInv, HostRestores, Running, CommandsOK
<1>6. ASSUME engine' = "stopped"
      PROVE  Held(Lookup("cluster"))' /\ (~lost' => Held(disk["cluster"])')
  <2>0. "cluster" \in Key /\ "host" \in Key /\ KeyOf(c) \in {"cluster", "host"}
    BY DEF Key, KeyOf
  <2>1. KeyOf(c) = "host" => kind = "restore"
    BY <1>1 DEF KeyOf, StopInv, HostRestores
  <2>2. CASE ok /\ kind = "stop"
    <3>1. Put("cluster", NoMarker("held"), NoMarker("held"))
      BY <2>0, <2>1, <2>2 DEF EndManagedIntent, Record
    <3>2. NoMarker("held") \in Marker /\ NoMarker("held").mode = "held"
      BY MarkerType
    <3>. HIDE DEF kind
    <3>. QED
      BY <1>1, <2>0, <3>1, <3>2, PutShape DEF Held
  <2>3. CASE ~(ok /\ kind = "stop")
    <3>1. engine = "stopped" /\ ~(ok /\ kind = "destroy")
      BY <1>6, <2>3 DEF EndManagedIntent
    <3>2. Held(Lookup("cluster")) /\ (~lost => Held(disk["cluster"]))
      BY <3>1 DEF StopInv, StopHeld
    <3>3. ~(ok /\ kind \in {"start", "apply"})
      <4>1. ok => Achieved(c)
        BY DEF EndManagedIntent
      <4>2. KeyOf(c) = "cluster" => c \in Command
        BY DEF KeyOf, Commands
      <4>. QED
        BY <2>0, <2>1, <3>1, <4>1, <4>2 DEF Achieved
    <3>4. Keep \/ (KeyOf(c) = "host" /\ Record("host", NoMarker("transient")))
      BY <2>0, <2>3, <3>1, <3>2, <3>3 DEF EndManagedIntent, Held
    <3>5. CASE Keep
      BY <3>2, <3>5, KeepShape DEF Held
    <3>6. CASE Record("host", NoMarker("transient"))
      <4>1. Put("host", NoMarker("transient"), NoMarker("transient")) /\ NoMarker("transient") \in Marker
        BY <3>6, MarkerType DEF Record
      <4>2. disk'["cluster"] = disk["cluster"] /\ Lookup("cluster")' = Lookup("cluster") /\ lost' = lost
        BY <1>1, <2>0, <4>1, PutShape DEF Key, MarkersOK
      <4>. QED
        BY <3>2, <4>2 DEF Held
    <3>. QED
      BY <3>4, <3>5, <3>6
  <2>. QED
    BY <2>2, <2>3
<1>. QED
  BY <1>1, <1>4, <1>5, <1>6 DEF StopInv, StopHeld

\* No lifetime of a held marker ends.
LEMMA StopExpire ==
  ASSUME StopInv, NEW k \in Key, Expire(k)
  PROVE  StopInv'
<1>1. TypeInv /\ TypeInv' /\ MarkersOK
  BY TypeExpire, TypeParts DEF StopInv
<1>2. tick' = tick /\ watch' = watch /\ cmd' = cmd /\ engine' = engine /\ lost' = lost
  BY DEF Expire, probe, commands, host
<1>3. ASSUME engine = "stopped"
      PROVE  memory'["cluster"] = memory["cluster"] /\ disk'["cluster"] = disk["cluster"]
  <2>1. Held(Lookup("cluster")) /\ "cluster" \in Key
    BY <1>3 DEF StopInv, StopHeld, Key
  <2>2. k # "cluster"
    BY <2>1 DEF Expire, Expires, Held
  <2>. QED
    BY <1>1, <2>1, <2>2 DEF Expire, MarkersOK
<1>4. StopHeld'
  BY <1>2, <1>3 DEF StopInv, StopHeld, Lookup, Held
<1>. QED
  BY <1>1, <1>2, <1>4 DEF StopInv, OverdueIsJudged, HostRestores, Running, StopNotReleased

\* The handlers, the engine and the end of a quiet time leave the markers alone
\* and stop nothing.
LEMMA StopEngine ==
  ASSUME StopInv,
         \/ \E c \in Commands : Take(c) \/ MarkDestroyed(c) \/ Raise(c)
         \/ Crash \/ ComesBack \/ FeaturesKnown
  PROVE  StopInv'
<1>1. TypeInv /\ TypeInv' /\ CommandsOK
  BY TypeHandler, TypeEngine, TypeTimers, TypeParts DEF StopInv
<1>2. /\ tick' = tick /\ watch' = watch /\ memory' = memory /\ disk' = disk /\ lost' = lost
      /\ engine' \in {engine, "up", "crashed", "taken"}
  BY DEF Take, MarkDestroyed, Raise, Crash, ComesBack, FeaturesKnown, probe, markers, host
<1>3. \A c \in Commands : cmd'[c].pc = cmd[c].pc /\ cmd'[c].kind = cmd[c].kind
  BY <1>1 DEF Take, MarkDestroyed, Raise, Crash, ComesBack, FeaturesKnown, commands, CommandsOK,
              CmdType
<1>4. HostRestores'
  BY <1>3 DEF StopInv, HostRestores, Running, Commands
<1>5. StopHeld' /\ StopNotReleased' /\ OverdueIsJudged'
  BY <1>2 DEF StopInv, StopHeld, StopNotReleased, OverdueIsJudged, Held, Lookup
<1>. QED
  BY <1>1, <1>4, <1>5 DEF StopInv

\* The steps of the probe and its timers that write no marker.
LEMMA StopProbe ==
  ASSUME StopInv, ~Races,
         \/ List \/ Sample \/ IntentState \/ Emit
         \/ HealthyLong \/ QuietOver \/ Open \/ Close
  PROVE  StopInv'
<1>1. TypeInv /\ TypeInv' /\ ProbeOK /\ watch \in Watch
  BY TypeList, TypeSample, TypeIntentState, TypeEmit, TypeTimers, TypeParts DEF StopInv, WatchOK
<1>2. memory' = memory /\ disk' = disk /\ lost' = lost /\ engine' = engine /\ cmd' = cmd
  BY DEF List, Sample, IntentState, Emit, HealthyLong, QuietOver, Open, Close, markers, host, commands
<1>3. StopHeld' /\ HostRestores'
  BY <1>2 DEF StopInv, StopHeld, HostRestores, Running, Held, Lookup
<1>4. CASE List \/ Emit
  <2>1. tick'.pc \notin {"intent", "judge"} /\ ~tick'.overdue
    BY <1>4, IdleTickType DEF List, Emit
  <2>. QED
    BY <1>1, <1>3, <2>1 DEF StopInv, StopNotReleased, OverdueIsJudged
<1>5. CASE Sample
  <2>1. /\ watch' = watch /\ tick.pc = "sample" /\ tick'.overdue = tick.overdue
        /\ tick'.sample = "healthy" => engine = "up"
    BY <1>1, <1>5 DEF Sample, At, ProbeOK, TickType
  <2>. QED
    BY <1>1, <1>2, <1>3, <2>1 DEF StopInv, StopNotReleased, OverdueIsJudged
<1>6. CASE IntentState
  <2>1. /\ watch' = watch /\ tick.pc = "intent" /\ tick'.sample = tick.sample /\ tick'.pc = "judge"
        /\ tick'.overdue => Lookup("cluster").mode = "unreadable"
    BY <1>1, <1>6 DEF IntentState, At, ProbeOK, TickType
  <2>. QED
    BY <1>1, <1>2, <1>3, <2>1 DEF StopInv, StopHeld, StopNotReleased, OverdueIsJudged, Held
<1>7. CASE HealthyLong
  <2>1. tick' = tick /\ tick.pc = "idle"
    BY <1>7 DEF HealthyLong, At
  <2>. QED
    BY <1>1, <1>2, <1>3, <2>1 DEF StopInv, StopNotReleased, OverdueIsJudged
<1>8. CASE QuietOver \/ Open \/ Close
  <2>1. [watch EXCEPT !.quiet = FALSE].healthy = watch.healthy
    BY <1>1 DEF Watch
  <2>2. tick' = tick /\ watch'.healthy \in {watch.healthy, "no"}
    BY <1>1, <1>8, <2>1, WatchType DEF QuietOver, Open, Close
  <2>. QED
    BY <1>1, <1>2, <1>3, <2>2 DEF StopInv, StopNotReleased, OverdueIsJudged
<1>. QED
  BY <1>4, <1>5, <1>6, <1>7, <1>8

\* A judgement holds a stop that was cut off; it releases no marker of an engine
\* that is stopped.
LEMMA StopJudge ==
  ASSUME StopInv, Judge
  PROVE  StopInv'
<1>1. TypeInv /\ TypeInv' /\ MarkersOK /\ "cluster" \in Key /\ tick.pc = "judge"
  BY TypeJudge, TypeParts DEF StopInv, Key, Judge, At
<1>2. engine' = engine /\ cmd' = cmd
  BY DEF Judge, host, commands
<1>3. tick'.pc \notin {"intent", "judge"} /\ ~tick'.overdue
  <2>1. ~[IdleTick EXCEPT !.pc = "emit", !.seen = StepAfter.seen].overdue
        /\ [IdleTick EXCEPT !.pc = "emit", !.seen = StepAfter.seen].pc = "emit"
    BY DEF IdleTick
  <2>2. tick' \in {IdleTick, [IdleTick EXCEPT !.pc = "emit", !.seen = StepAfter.seen]}
    BY DEF Judge
  <2>. QED
    BY <2>1, <2>2, IdleTickType
<1>4. ASSUME engine = "stopped"
      PROVE  Held(Lookup("cluster"))' /\ (~lost' => Held(disk["cluster"])')
  <2>1. Held(Lookup("cluster")) /\ (~lost => Held(disk["cluster"]))
    BY <1>4 DEF StopInv, StopHeld
  <2>2. ~ReleasesHeld
    BY <1>1, <1>4 DEF StopInv, StopNotReleased, ReleasesHeld
  <2>3. Keep \/ Put("cluster", NoMarker("held"), NoMarker("held"))
    BY <2>2 DEF Judge, Record
  <2>4. NoMarker("held") \in Marker /\ NoMarker("held").mode = "held"
    BY MarkerType
  <2>5. CASE Keep
    BY <2>1, <2>5, KeepShape DEF Held
  <2>6. CASE Put("cluster", NoMarker("held"), NoMarker("held"))
    BY <1>1, <2>4, <2>6, PutShape DEF Held
  <2>. QED
    BY <2>3, <2>5, <2>6
<1>5. StopHeld' /\ StopNotReleased' /\ OverdueIsJudged'
  BY <1>2, <1>3, <1>4 DEF StopHeld, StopNotReleased, OverdueIsJudged
<1>6. HostRestores'
  BY <1>2 DEF StopInv, HostRestores, Running
<1>. QED
  BY <1>1, <1>5, <1>6 DEF StopInv

\* The daemon dies: what is on disk is what is found.
LEMMA StopDies ==
  ASSUME StopInv, DaemonDies
  PROVE  StopInv'
<1>1. TypeInv /\ TypeInv' /\ MarkersOK
  BY TypeDies, TypeParts DEF StopInv
<1>2. tick' = IdleTick /\ lost' = FALSE /\ \A c \in Commands : cmd'[c].pc = "idle"
  BY DEF DaemonDies, IdleCmd
<1>3. OverdueIsJudged' /\ StopNotReleased' /\ HostRestores'
  BY <1>2, IdleTickType DEF OverdueIsJudged, StopNotReleased, HostRestores, Running, Commands
<1>4. ASSUME engine' = "stopped"
      PROVE  Held(disk'["cluster"]) /\ memory'["cluster"].mode = "absent"
  <2>1. engine = "stopped" /\ ~lost /\ disk' = disk
    BY <1>4 DEF DaemonDies
  <2>2. Held(disk["cluster"])
    BY <2>1 DEF StopInv, StopHeld
  <2>. QED
    BY <2>1, <2>2, MarkerType DEF DaemonDies, Key
<1>5. StopHeld'
  BY <1>4 DEF StopHeld, Lookup, Held
<1>. QED
  BY <1>1, <1>3, <1>5 DEF StopInv

\* StopInv holds at the first start.
LEMMA StopInit == Init => StopInv
<1>. SUFFICES ASSUME Init PROVE StopInv
  OBVIOUS
<1>1. TypeInv
  BY InitType
<1>2. engine # "stopped" /\ ~tick.overdue /\ \A c \in Commands : ~Running(c)
  BY IdleTickType DEF Init, Running, IdleCmd
<1>. QED
  BY <1>1, <1>2 DEF StopInv, OverdueIsJudged, HostRestores, StopHeld, StopNotReleased, Commands

\* No step breaks StopInv.
LEMMA StopNext ==
  ASSUME ~Races
  PROVE  StopInv /\ [Next]_vars => StopInv'
<1>. SUFFICES ASSUME StopInv, [Next]_vars PROVE StopInv'
  OBVIOUS
<1>1. CASE UNCHANGED vars
  <2>1. TypeInv'
    BY <1>1, NextType DEF StopInv
  <2>. QED
    BY <1>1, <2>1 DEF StopInv, OverdueIsJudged, HostRestores, StopHeld, StopNotReleased, Running,
           Lookup, Held, vars, markers, probe, host, commands
<1>2. ASSUME NEW c \in Commands, \E kind \in KindsOf(c) : BeginManagedIntent(c, kind)
      PROVE  StopInv'
  BY <1>2, StopBegin
<1>3. ASSUME NEW c \in Commands, \E ok \in BOOLEAN : EndManagedIntent(c, ok)
      PROVE  StopInv'
  BY <1>3, StopEnd
<1>4. ASSUME NEW c \in Commands, Take(c) \/ MarkDestroyed(c) \/ Raise(c)
      PROVE  StopInv'
  BY <1>4, StopEngine
<1>5. CASE Tick \/ HealthyLong \/ QuietOver
  BY <1>5, StopProbe, StopJudge DEF Tick
<1>6. ASSUME NEW k \in Key, Expire(k) PROVE StopInv'
  BY <1>6, StopExpire
<1>7. CASE Open \/ FeaturesKnown \/ Close \/ Crash \/ ComesBack \/ DaemonDies
  BY <1>7, StopProbe, StopEngine, StopDies
<1>. QED
  BY <1>1, <1>2, <1>3, <1>4, <1>5, <1>6, <1>7 DEF Next

\* endManagedIntent holds the marker of a stop that worked, and with one marker
\* per cluster nothing takes it away while the engine is stopped: no command
\* that fails, no sample taken before the stop, no restart of the daemon.  For
\* any number of commands at once, as long as the probe does not release a
\* marker while a command begins or ends.
THEOREM StoppedStaysMarked == ASSUME ~Races PROVE Spec => []StopStaysMarked
<1>1. StopInv => StopStaysMarked
  BY DEF StopInv, StopHeld, StopStaysMarked, Active, Held
<1>. QED
  BY <1>1, StopInit, StopNext, PTL DEF Spec

-----------------------------------------------------------------------------
\* Two commands that share a key are the same one.
LEMMA OnePerKey ==
  ASSUME OneEach, NEW c \in Commands, NEW d \in Commands, KeyOf(c) = KeyOf(d)
  PROVE  c = d
BY DEF OneEach, Commands, KeyOf

\* A command is covered from its beginning.
LEMMA CoverBegin ==
  ASSUME CoverInv, ~Races, OneEach, NEW c \in Commands, NEW kind \in KindsOf(c),
         BeginManagedIntent(c, kind)
  PROVE  CoverInv'
<1>1. TypeInv /\ TypeInv' /\ MarkersOK /\ CommandsOK /\ KeyOf(c) \in Key
  BY TypeBegin, TypeParts, KeyType DEF CoverInv
<1>2. tick' = tick /\ watch' = watch
  BY DEF BeginManagedIntent, probe
<1>3. watch.healthy # "long" /\ ~tick.overdue
  <2>1. watch.healthy # "long" /\ (tick.pc = "judge" => ~tick.overdue)
    BY DEF BeginManagedIntent, NoReleaseDue, ReleasesHeld
  <2>. QED
    BY <2>1 DEF CoverInv, OverdueIsJudged
<1>4. OverdueIsJudged' /\ ReleaseWaits'
  BY <1>2, <1>3 DEF OverdueIsJudged, ReleaseWaits
<1>5. OwnOrHeld(c)'
  <2>1. CASE KeepsHeld(c, kind) /\ Keep
    BY <2>1, KeepShape DEF KeepsHeld, OwnOrHeld, Held
  <2>2. CASE Record(KeyOf(c), OwnMarker(c, kind))
    <3>1. /\ OwnMarker(c, kind) \in Marker /\ ~OwnMarker(c, kind).over
          /\ \/ OwnMarker(c, kind).mode = "held"
             \/ OwnMarker(c, kind).mode = "running" /\ OwnMarker(c, kind).by = c
      BY KeyType, MarkerType
    <3>2. Lookup(KeyOf(c))' = OwnMarker(c, kind)
      BY <1>1, <2>2, <3>1, PutShape DEF Record
    <3>. QED
      BY <3>1, <3>2 DEF OwnOrHeld, Held
  <2>. QED
    BY <2>1, <2>2 DEF BeginManagedIntent
<1>6. ASSUME NEW d \in Commands, d # c PROVE OwnOrHeld(d)'
  <2>1. KeyOf(d) \in Key \ {KeyOf(c)}
    BY <1>6, OnePerKey, KeyType
  <2>2. Lookup(KeyOf(d))' = Lookup(KeyOf(d))
    <3>1. CASE Keep
      BY <3>1, KeepShape
    <3>2. CASE Record(KeyOf(c), OwnMarker(c, kind))
      <4>1. OwnMarker(c, kind) \in Marker
        BY KeyType, MarkerType
      <4>. QED
        BY <1>1, <2>1, <3>2, <4>1, PutShape DEF Record
    <3>. QED
      BY <3>1, <3>2 DEF BeginManagedIntent
  <2>3. Running(d)' <=> Running(d)
    BY <1>1, <1>6 DEF BeginManagedIntent, Running, CommandsOK
  <2>4. OwnOrHeld(d)
    BY DEF CoverInv
  <2>. QED
    BY <2>2, <2>3, <2>4 DEF OwnOrHeld, Held
<1>. QED
  BY <1>1, <1>4, <1>5, <1>6 DEF CoverInv

\* Its end touches no marker of a command that goes on.
LEMMA CoverEnd ==
  ASSUME CoverInv, OneEach, NEW c \in Commands, NEW ok \in BOOLEAN, EndManagedIntent(c, ok)
  PROVE  CoverInv'
<1>1. TypeInv /\ TypeInv' /\ MarkersOK /\ CommandsOK /\ KeyOf(c) \in Key
  BY TypeEnd, TypeParts, KeyType DEF CoverInv
<1>2. tick' = tick /\ watch' = watch /\ cmd' = [cmd EXCEPT ![c] = IdleCmd]
  BY DEF EndManagedIntent, probe
<1>3. ~Running(c)' /\ \A d \in Commands \ {c} : Running(d)' <=> Running(d)
  BY <1>1, <1>2 DEF Running, CommandsOK, IdleCmd
<1>4. OverdueIsJudged' /\ ReleaseWaits'
  BY <1>2, <1>3 DEF CoverInv, OverdueIsJudged, ReleaseWaits, Commands
<1>5. ASSUME NEW d \in Commands, d # c PROVE OwnOrHeld(d)'
  <2>1. KeyOf(d) \in Key \ {KeyOf(c)}
    BY <1>5, OnePerKey, KeyType
  <2>2. \/ Keep
        \/ \E m, n \in Marker : Put(KeyOf(c), m, n)
    BY MarkerType DEF EndManagedIntent, Record, Clear
  <2>3. Lookup(KeyOf(d))' = Lookup(KeyOf(d))
    BY <1>1, <2>1, <2>2, PutShape, KeepShape
  <2>4. OwnOrHeld(d)
    BY DEF CoverInv
  <2>. QED
    BY <1>3, <1>5, <2>3, <2>4 DEF OwnOrHeld, Held
<1>6. OwnOrHeld(c)'
  BY <1>3 DEF OwnOrHeld
<1>. QED
  BY <1>1, <1>4, <1>5, <1>6 DEF CoverInv

\* The marker of a command that runs does not expire.
LEMMA CoverExpire ==
  ASSUME CoverInv, NEW k \in Key, Expire(k)
  PROVE  CoverInv'
<1>1. TypeInv /\ TypeInv' /\ MarkersOK
  BY TypeExpire, TypeParts DEF CoverInv
<1>2. tick' = tick /\ watch' = watch /\ cmd' = cmd
  BY DEF Expire, probe, commands
<1>3. ASSUME NEW c \in Commands, Running(c)
      PROVE  Lookup(KeyOf(c))' = Lookup(KeyOf(c))
  <2>1. LET m == Lookup(KeyOf(c)) IN Held(m) \/ (m.mode = "running" /\ m.by = c)
    BY <1>3 DEF CoverInv, OwnOrHeld
  <2>2. k # KeyOf(c)
    BY <1>3, <2>1 DEF Expire, Expires, Held
  <2>3. memory'[KeyOf(c)] = memory[KeyOf(c)] /\ disk'[KeyOf(c)] = disk[KeyOf(c)]
    BY <1>1, <2>2, KeyType DEF Expire, MarkersOK
  <2>. QED
    BY <2>3 DEF Lookup
<1>4. \A c \in Commands : OwnOrHeld(c)'
  BY <1>2, <1>3 DEF CoverInv, OwnOrHeld, Running, Held
<1>. QED
  BY <1>1, <1>2, <1>4 DEF CoverInv, OverdueIsJudged, ReleaseWaits, Running

\* The handlers, the engine and the session move neither markers nor commands.
LEMMA CoverEngine ==
  ASSUME CoverInv,
         \/ \E c \in Commands : Take(c) \/ MarkDestroyed(c) \/ Raise(c)
         \/ Crash \/ ComesBack \/ FeaturesKnown
  PROVE  CoverInv'
<1>1. TypeInv /\ TypeInv' /\ CommandsOK
  BY TypeHandler, TypeEngine, TypeTimers, TypeParts DEF CoverInv
<1>2. tick' = tick /\ watch' = watch /\ memory' = memory /\ disk' = disk
  BY DEF Take, MarkDestroyed, Raise, Crash, ComesBack, FeaturesKnown, probe, markers, host
<1>3. \A c \in Commands : Running(c)' <=> Running(c)
  BY <1>1 DEF Take, MarkDestroyed, Raise, Crash, ComesBack, FeaturesKnown, commands, CommandsOK,
              CmdType, Running
<1>4. \A c \in Commands : OwnOrHeld(c)'
  BY <1>2, <1>3 DEF CoverInv, OwnOrHeld, Lookup, Held
<1>. QED
  BY <1>1, <1>2, <1>3, <1>4 DEF CoverInv, OverdueIsJudged, ReleaseWaits, Commands

\* The steps of the probe and its timers that write no marker.
LEMMA CoverProbe ==
  ASSUME CoverInv, ~Races,
         \/ List \/ Sample \/ IntentState \/ Emit
         \/ HealthyLong \/ QuietOver \/ Open \/ Close
  PROVE  CoverInv'
<1>1. TypeInv /\ TypeInv' /\ ProbeOK /\ watch \in Watch
  BY TypeList, TypeSample, TypeIntentState, TypeEmit, TypeTimers, TypeParts DEF CoverInv, WatchOK
<1>2. memory' = memory /\ disk' = disk /\ cmd' = cmd
  BY DEF List, Sample, IntentState, Emit, HealthyLong, QuietOver, Open, Close, markers, commands
<1>3. \A c \in Commands : OwnOrHeld(c)'
  BY <1>2 DEF CoverInv, OwnOrHeld, Running, Lookup, Held
<1>4. OverdueIsJudged' /\ (tick'.overdue => tick.overdue \/ Lookup("cluster").mode = "unreadable")
  <2>1. CASE List \/ Emit
    BY <2>1, IdleTickType DEF List, Emit, OverdueIsJudged
  <2>2. CASE Sample
    BY <1>1, <2>2 DEF Sample, At, ProbeOK, TickType, CoverInv, OverdueIsJudged
  <2>3. CASE IntentState
    BY <1>1, <2>3 DEF IntentState, ProbeOK, TickType, OverdueIsJudged
  <2>4. CASE tick' = tick
    BY <2>4 DEF CoverInv, OverdueIsJudged
  <2>. QED
    BY <2>1, <2>2, <2>3, <2>4 DEF HealthyLong, QuietOver, Open, Close
<1>5. watch'.healthy = "long" => watch.healthy = "long" \/ \A c \in Command : ~Running(c)
  <2>1. CASE HealthyLong
    BY <2>1 DEF HealthyLong
  <2>2. CASE QuietOver
    BY <1>1, <2>2 DEF QuietOver, Watch
  <2>3. CASE Emit
    <3>1. watch.events < MaxEvents
      BY <2>3 DEF CoverInv, TypeInv, EventLeft, Emit, At
    <3>. QED
      BY <1>1, <2>3, <3>1, WatchType DEF Emit
  <2>4. CASE List \/ Open \/ Close
    BY <1>1, <2>4, WatchType DEF List, Open, Close
  <2>5. CASE watch' = watch
    BY <2>5
  <2>. QED
    BY <2>1, <2>2, <2>3, <2>4, <2>5 DEF Sample, IntentState
<1>6. Lookup("cluster").mode = "unreadable" => \A c \in Command : ~Running(c)
  <2>. SUFFICES ASSUME NEW c \in Command, Running(c) PROVE Lookup("cluster").mode # "unreadable"
    OBVIOUS
  <2>1. c \in Commands /\ KeyOf(c) = "cluster"
    BY IntentAssumption DEF Commands, KeyOf
  <2>. QED
    BY <2>1 DEF CoverInv, OwnOrHeld, Held
<1>7. ReleaseWaits'
  BY <1>2, <1>4, <1>5, <1>6 DEF CoverInv, ReleaseWaits, Running
<1>. QED
  BY <1>1, <1>3, <1>4, <1>7 DEF CoverInv

\* A judgement releases the cluster's marker only while no command on it runs.
LEMMA CoverJudge ==
  ASSUME CoverInv, Judge
  PROVE  CoverInv'
<1>1. TypeInv /\ TypeInv' /\ MarkersOK /\ "cluster" \in Key /\ tick.pc = "judge" /\ cmd' = cmd
  BY TypeJudge, TypeParts DEF CoverInv, Key, Judge, At, commands
<1>2. ~tick'.overdue
  <2>1. ~[IdleTick EXCEPT !.pc = "emit", !.seen = StepAfter.seen].overdue
    BY DEF IdleTick
  <2>2. tick' \in {IdleTick, [IdleTick EXCEPT !.pc = "emit", !.seen = StepAfter.seen]}
    BY DEF Judge
  <2>. QED
    BY <2>1, <2>2, IdleTickType
<1>3. watch'.healthy = "long" => watch.healthy = "long"
  BY StepType DEF CoverInv, Judge, HealthyAfter
<1>4. OverdueIsJudged' /\ ReleaseWaits'
  BY <1>1, <1>2, <1>3 DEF CoverInv, OverdueIsJudged, ReleaseWaits, Running
<1>5. ASSUME NEW c \in Commands, Running(c)
      PROVE  OwnOrHeld(c)'
  <2>1. OwnOrHeld(c) /\ KeyOf(c) \in Key /\ (KeyOf(c) = "cluster" => c \in Command)
    BY KeyType DEF CoverInv, KeyOf, Commands
  <2>2. CASE Keep
    BY <1>1, <2>1, <2>2, KeepShape DEF OwnOrHeld, Running, Held
  <2>3. CASE Put("cluster", NoMarker("held"), NoMarker("held"))
    <3>1. NoMarker("held") \in Marker /\ NoMarker("held").mode = "held"
      BY MarkerType
    <3>2. CASE KeyOf(c) = "cluster"
      <4>1. Lookup("cluster")' = NoMarker("held")
        BY <1>1, <2>3, <3>1, PutShape
      <4>. QED
        BY <3>1, <3>2, <4>1 DEF OwnOrHeld, Held
    <3>3. CASE KeyOf(c) # "cluster"
      <4>1. Lookup(KeyOf(c))' = Lookup(KeyOf(c))
        BY <1>1, <2>1, <2>3, <3>1, <3>3, PutShape
      <4>. QED
        BY <1>1, <2>1, <4>1 DEF OwnOrHeld, Running, Held
    <3>. QED
      BY <3>2, <3>3
  <2>4. CASE ReleasesHeld /\ Clear("cluster")
    <3>1. KeyOf(c) # "cluster"
      BY <1>5, <2>1, <2>4 DEF CoverInv, ReleaseWaits, ReleasesHeld
    <3>2. Lookup(KeyOf(c))' = Lookup(KeyOf(c))
      BY <1>1, <2>1, <2>4, <3>1, PutShape, MarkerType DEF Clear
    <3>. QED
      BY <1>1, <2>1, <3>2 DEF OwnOrHeld, Running, Held
  <2>. QED
    BY <2>2, <2>3, <2>4 DEF Judge, Record
<1>6. \A c \in Commands : OwnOrHeld(c)'
  BY <1>1, <1>5 DEF OwnOrHeld, Running
<1>. QED
  BY <1>1, <1>4, <1>6 DEF CoverInv

\* A death ends every command.
LEMMA CoverDies ==
  ASSUME CoverInv, DaemonDies
  PROVE  CoverInv'
<1>1. TypeInv'
  BY TypeDies DEF CoverInv
<1>2. ~tick'.overdue /\ \A c \in Commands : ~Running(c)'
  BY IdleTickType DEF DaemonDies, IdleCmd, Running
<1>. QED
  BY <1>1, <1>2 DEF CoverInv, OverdueIsJudged, ReleaseWaits, OwnOrHeld, Commands

\* CoverInv holds at the first start.
LEMMA CoverInit == Init => CoverInv
<1>. SUFFICES ASSUME Init PROVE CoverInv
  OBVIOUS
<1>1. TypeInv
  BY InitType
<1>2. ~tick.overdue /\ \A c \in Commands : ~Running(c)
  BY IdleTickType DEF Init, Running, IdleCmd
<1>. QED
  BY <1>1, <1>2 DEF CoverInv, OverdueIsJudged, ReleaseWaits, OwnOrHeld, Commands

\* No step breaks CoverInv.
LEMMA CoverNext ==
  ASSUME ~Races, OneEach
  PROVE  CoverInv /\ [Next]_vars => CoverInv'
<1>. SUFFICES ASSUME CoverInv, [Next]_vars PROVE CoverInv'
  OBVIOUS
<1>1. CASE UNCHANGED vars
  <2>1. TypeInv'
    BY <1>1, NextType DEF CoverInv
  <2>. QED
    BY <1>1, <2>1 DEF CoverInv, OverdueIsJudged, ReleaseWaits, OwnOrHeld, Running, Lookup, Held,
           vars, markers, probe, host, commands
<1>2. ASSUME NEW c \in Commands, \E kind \in KindsOf(c) : BeginManagedIntent(c, kind)
      PROVE  CoverInv'
  BY <1>2, CoverBegin
<1>3. ASSUME NEW c \in Commands, \E ok \in BOOLEAN : EndManagedIntent(c, ok)
      PROVE  CoverInv'
  BY <1>3, CoverEnd
<1>4. ASSUME NEW c \in Commands, Take(c) \/ MarkDestroyed(c) \/ Raise(c)
      PROVE  CoverInv'
  BY <1>4, CoverEngine
<1>5. CASE Tick \/ HealthyLong \/ QuietOver
  BY <1>5, CoverProbe, CoverJudge DEF Tick
<1>6. ASSUME NEW k \in Key, Expire(k) PROVE CoverInv'
  BY <1>6, CoverExpire
<1>7. CASE Open \/ FeaturesKnown \/ Close \/ Crash \/ ComesBack \/ DaemonDies
  BY <1>7, CoverProbe, CoverEngine, CoverDies
<1>. QED
  BY <1>1, <1>2, <1>3, <1>4, <1>5, <1>6, <1>7 DEF Next
=============================================================================
