------------------------- MODULE ManagedFenceProofs -------------------------
(***************************************************************************)
(* Proofs about ManagedFence for every number of commands, boots and       *)
(* mishaps: its types, that the hold of a boot lasts until it is answered, *)
(* and that the daemon brings up no second primary.                        *)
(***************************************************************************)
EXTENDS ManagedFence, SequenceTheorems, FiniteSetTheorems, TLAPS

(***************************************************************************)
(* Type correctness.                                                       *)
(***************************************************************************)
CmdType == [kind : Kind, todo : Seq(Step), ok : BOOLEAN, busy : BOOLEAN,
            replica : BOOLEAN, stale : BOOLEAN]

\* TypeOK by the groups of variables the actions name.
MemberOK == /\ data \in {"primary", "standby"} /\ fence \in BOOLEAN /\ demoted \in BOOLEAN
            /\ role \in {"primary", "replica"}
PowerOK == /\ engine \in {"ro", "rw", "down"} /\ docker \in BOOLEAN
           /\ starter \in {"daemon", "docker", "hand"}
HeldOK == /\ marker \in Marker /\ disk \in MarkerKind /\ lost \in BOOLEAN
          /\ hold \in {"none", "unstopped", "stopped"}
          /\ unsettled \in BOOLEAN /\ answered \in {"no", "command", "release"}
StartOK == /\ record \in {"old", "due", "current"} /\ settling \in BOOLEAN
           /\ daemon \in {"off", "boot", "marked", "filed", "up"}
LockOK == lock \in Command \cup {Guard, Healer, Nobody}
CmdOK == cmd \in [Command -> CmdType]
TicksOK == /\ guard \in {"idle", "locked", "writable"} /\ healer \in {"idle", "probed", "go"}
           /\ retry \in {"idle", "unstopped", "again", "unsettled"}
           /\ reporter \in {"idle", "unstopped", "stopped", "release", "starting"}
PlaneOK == /\ support \in {"detached", "unknown", "yes", "no"}
           /\ replaced \in BOOLEAN /\ asked \in BOOLEAN
BegunOK == begun \in 0 .. MaxCommands
BootsOK == boots \in 0 .. MaxBoots
MishapsOK == mishaps \in 0 .. MaxMishaps
\* The type invariant is its parts.
LEMMA TypeParts ==
  /\ TypeOK <=> MemberOK /\ PowerOK /\ HeldOK /\ StartOK /\ LockOK /\ CmdOK /\ TicksOK
                /\ PlaneOK /\ BegunOK /\ BootsOK /\ MishapsOK
  /\ TypeOK' <=> MemberOK' /\ PowerOK' /\ HeldOK' /\ StartOK' /\ LockOK' /\ CmdOK' /\ TicksOK'
                /\ PlaneOK' /\ BegunOK' /\ BootsOK' /\ MishapsOK'
BY Zenon DEF TypeOK, MemberOK, PowerOK, HeldOK, StartOK, LockOK, CmdOK, TicksOK, PlaneOK, BegunOK,
       BootsOK, MishapsOK, CmdType, Up

\* A group that an action leaves alone keeps its types.
LEMMA Unchanged ==
  /\ MemberOK /\ UNCHANGED member => MemberOK'
  /\ PowerOK /\ UNCHANGED power => PowerOK'
  /\ HeldOK /\ UNCHANGED held => HeldOK'
  /\ StartOK /\ UNCHANGED start => StartOK'
  /\ LockOK /\ UNCHANGED lock => LockOK'
  /\ CmdOK /\ UNCHANGED cmd => CmdOK'
  /\ TicksOK /\ UNCHANGED ticks => TicksOK'
  /\ PlaneOK /\ UNCHANGED plane => PlaneOK'
  /\ BegunOK /\ UNCHANGED begun => BegunOK'
  /\ BootsOK /\ UNCHANGED boots => BootsOK'
  /\ MishapsOK /\ UNCHANGED mishaps => MishapsOK'
BY DEF MemberOK, PowerOK, HeldOK, StartOK, LockOK, CmdOK, TicksOK, PlaneOK, BegunOK, BootsOK,
       MishapsOK, member, power, held, marks, start, ticks, plane

\* The bounds are numbers.
LEMMA Bounds ==
  /\ MaxCommands \in Nat /\ MaxBoots \in Nat /\ MaxMishaps \in Nat /\ MaxEvents \in Nat
BY FenceAssumption

\* The lock holders are distinct, and none of them is a command.
LEMMA Holders ==
  /\ Guard # Healer /\ Guard # Nobody /\ Healer # Nobody
  /\ Guard \notin Command /\ Healer \notin Command /\ Nobody \notin Command
<1>1. Cardinality({Guard, Healer, Nobody}) = 3 /\ Command \cap {Guard, Healer, Nobody} = {}
  BY FenceAssumption
<1>2. Guard = Healer \/ Guard = Nobody \/ Healer = Nobody
        => \E x, y : {Guard, Healer, Nobody} = {x} \cup {y}
  OBVIOUS
<1>3. \A x : IsFiniteSet({x}) /\ Cardinality({x}) = 1
  BY FS_Singleton
<1>4. \A x, y : Cardinality({x} \cup {y}) <= 2
  <2>. TAKE x, y
  <2>1. CASE x = y
    <3>1. {x} \cup {y} = {x}
      BY <2>1
    <3>. QED
      BY <3>1, <1>3
  <2>2. CASE x # y
    <3>1. Cardinality({x} \cup {y}) = Cardinality({x}) + 1
      BY <2>2, <1>3, FS_AddElement
    <3>. QED
      BY <3>1, <1>3
  <2>. QED
    BY <2>1, <2>2
<1>5. Cardinality({Guard, Healer, Nobody}) <= 2 => FALSE
  BY <1>1
<1>6. Guard # Healer /\ Guard # Nobody /\ Healer # Nobody
  BY <1>2, <1>4, <1>5, Zenon
<1>. QED
  BY <1>1, <1>6

\* A mishap stays within its bound.
LEMMA MishapType ==
  ASSUME MishapsOK, Mishap \/ NoMishap
  PROVE  MishapsOK'
BY Bounds DEF Mishap, NoMishap, MishapsOK

\* The engine starts and stops.
LEMMA PowerType ==
  ASSUME PowerOK, \/ ComesUp("daemon") \/ ComesUp("docker") \/ ComesUp("hand")
                  \/ GoesDown \/ UNCHANGED power
  PROVE  PowerOK'
BY DEF PowerOK, ComesUp, GoesDown, Started, power

\* The programs are lists of steps.
LEMMA ProgramType ==
  /\ Kind = {"start", "stop", "demote", "return", "apply", "resync", "promote", "reactivate"}
  /\ \A kind \in Kind : Program[kind] \in Seq(Step)
  /\ <<>> \in Seq(Step)
  /\ \A s \in {"refuse", "enforce", "drop"} : <<s>> \in Seq(Step)
<1>1. Kind = {"start", "stop", "demote", "return", "apply", "resync", "promote", "reactivate"}
  BY DEF Kind, Program
<1>2. \A kind \in Kind : Program[kind] \in Seq(Step)
  <2>1. Program["start"] \in Seq(Step)
    BY DEF Program, Step
  <2>2. Program["stop"] \in Seq(Step)
    BY DEF Program, Step
  <2>3. Program["demote"] \in Seq(Step)
    BY DEF Program, Step
  <2>4. Program["return"] \in Seq(Step)
    BY DEF Program, Step
  <2>5. Program["apply"] \in Seq(Step)
    BY DEF Program, Step
  <2>6. Program["resync"] \in Seq(Step)
    BY DEF Program, Step
  <2>7. Program["promote"] \in Seq(Step)
    BY DEF Program, Step
  <2>8. Program["reactivate"] \in Seq(Step)
    BY DEF Program, Step
  <2>. QED
    BY <1>1, <2>1, <2>2, <2>3, <2>4, <2>5, <2>6, <2>7, <2>8
<1>. QED
  BY <1>1, <1>2 DEF Step

\* A command takes a step, throws, or keeps a failure for its end.
LEMMA GoesType ==
  ASSUME CmdOK, NEW c \in Command, NEW todo \in Seq(Step), Goes(c, todo)
  PROVE  CmdOK'
BY DEF CmdOK, CmdType, Goes
\* A step that is done, thrown or put off leaves a well-formed command.
LEMMA StepType ==
  ASSUME CmdOK, NEW c \in Command, NEW s, Does(c, s), Advance(c) \/ Throws(c) \/ StillStops(c)
  PROVE  CmdOK'
<1>1. Tail(cmd[c].todo) \in Seq(Step) /\ <<>> \in Seq(Step)
  BY DEF CmdOK, CmdType, Does
<1>2. CASE Advance(c)
  BY <1>1, <1>2, GoesType DEF Advance
<1>3. CASE Throws(c)
  BY <1>1, <1>3 DEF CmdOK, CmdType, Throws
<1>4. CASE StillStops(c)
  BY <1>1, <1>4 DEF CmdOK, CmdType, StillStops
<1>. QED
  BY <1>2, <1>3, <1>4

\* An idle command.
LEMMA IdleType == IdleCmd \in CmdType
<1>1. "stop" \in Kind /\ <<>> \in Seq(Step)
  BY ProgramType
<1>. QED
  BY <1>1 DEF IdleCmd, CmdType

\* Commands: the steps that only look.
LEMMA TypeTakeLock ==
  ASSUME TypeOK, NEW c \in Command, TakeLock(c) \/ MaybeLock(c)
  PROVE  TypeOK'
<1>. USE TypeParts
<1>1. LockOK'
  BY DEF TakeLock, MaybeLock, LockOK
<1>2. CmdOK'
  BY StepType DEF TakeLock, MaybeLock
<1>3. MemberOK' /\ PowerOK' /\ HeldOK' /\ StartOK' /\ TicksOK' /\ PlaneOK' /\ BegunOK' /\ BootsOK' /\ MishapsOK'
  BY Unchanged DEF TakeLock, MaybeLock
<1>. QED
  BY <1>1, <1>2, <1>3
\* The steps that only look keep the types.
LEMMA TypeLook ==
  ASSUME TypeOK, NEW c \in Command, SkipStale(c) \/ CheckStart(c) \/ Recheck(c) \/ StandbyCheck(c)
  PROVE  TypeOK'
<1>. USE TypeParts
<1>1. CmdOK'
  <2>1. \A s : Does(c, s) => Tail(cmd[c].todo) \in Seq(Step)
    BY DEF CmdOK, CmdType, Does
  <2>. QED
    BY <2>1, ProgramType, GoesType DEF SkipStale, CheckStart, Recheck, StandbyCheck
<1>2. MemberOK' /\ PowerOK' /\ HeldOK' /\ StartOK' /\ LockOK' /\ TicksOK' /\ PlaneOK' /\ BegunOK' /\ BootsOK' /\ MishapsOK'
  BY Unchanged DEF SkipStale, CheckStart, Recheck, StandbyCheck
<1>. QED
  BY <1>1, <1>2
\* Commands: the steps that change the engine or the volume.
LEMMA TypeEnforce ==
  ASSUME TypeOK, NEW c \in Command, Enforce(c)
  PROVE  TypeOK'
<1>. USE TypeParts
<1>1. MemberOK'
  BY DEF Enforce, MemberOK
<1>2. PowerOK'
  BY DEF Enforce, PowerOK, Quiet
<1>3. CmdOK'
  BY ProgramType, GoesType DEF Enforce
<1>4. MishapsOK'
  BY MishapType DEF Enforce
<1>5. HeldOK' /\ StartOK' /\ LockOK' /\ TicksOK' /\ PlaneOK' /\ BegunOK' /\ BootsOK'
  BY Unchanged DEF Enforce
<1>. QED
  BY <1>1, <1>2, <1>3, <1>4, <1>5
\* Power keeps the types.
LEMMA TypePower ==
  ASSUME TypeOK, NEW c \in Command, Drop(c) \/ ComposeStart(c) \/ ComposeStop(c) \/ ComposeUp(c)
  PROVE  TypeOK'
<1>. USE TypeParts
<1>1. PowerOK'
  BY PowerType DEF Drop, TriesToStop, ComposeStart, ComposeStop, ComposeUp
<1>2. CmdOK'
  <2>1. CASE Drop(c)
    BY <2>1, ProgramType, GoesType DEF Drop
  <2>2. CASE ComposeStart(c) \/ ComposeStop(c) \/ ComposeUp(c)
    BY <2>2, StepType DEF ComposeStart, ComposeStop, ComposeUp
  <2>. QED
    BY <2>1, <2>2
<1>3. MishapsOK'
  BY MishapType DEF Drop, TriesToStop, ComposeStart, ComposeStop, ComposeUp
<1>4. MemberOK' /\ HeldOK' /\ StartOK' /\ LockOK' /\ TicksOK' /\ PlaneOK' /\ BegunOK' /\ BootsOK'
  BY Unchanged DEF Drop, ComposeStart, ComposeStop, ComposeUp
<1>. QED
  BY <1>1, <1>2, <1>3, <1>4
\* Fence keeps the types.
LEMMA TypeFence ==
  ASSUME TypeOK, NEW c \in Command, Mark(c) \/ Plant(c) \/ Materialize(c) \/ Unfence(c)
  PROVE  TypeOK'
<1>. USE TypeParts
<1>1. MemberOK'
  BY DEF Mark, Plant, Materialize, Unfence, MemberOK
<1>2. CmdOK'
  BY StepType DEF Mark, Plant, Materialize, Unfence
<1>3. MishapsOK'
  BY MishapType DEF Mark, Plant, Materialize, Unfence, NoMishap
<1>4. PowerOK' /\ HeldOK' /\ StartOK' /\ LockOK' /\ TicksOK' /\ PlaneOK' /\ BegunOK' /\ BootsOK'
  BY Unchanged DEF Mark, Plant, Materialize, Unfence
<1>. QED
  BY <1>1, <1>2, <1>3, <1>4
\* ReadOnly keeps the types.
LEMMA TypeReadOnly ==
  ASSUME TypeOK, NEW c \in Command, ReadOnly(c) \/ Writable(c)
  PROVE  TypeOK'
<1>. USE TypeParts
<1>1. PowerOK'
  BY DEF ReadOnly, Writable, Quiet, PowerOK
<1>2. CmdOK'
  BY StepType DEF ReadOnly, Writable
<1>3. MishapsOK'
  BY MishapType DEF ReadOnly, Writable, NoMishap
<1>4. MemberOK' /\ HeldOK' /\ StartOK' /\ LockOK' /\ TicksOK' /\ PlaneOK' /\ BegunOK' /\ BootsOK'
  BY Unchanged DEF ReadOnly, Writable
<1>. QED
  BY <1>1, <1>2, <1>3, <1>4
\* Wipe keeps the types.
LEMMA TypeWipe ==
  ASSUME TypeOK, NEW c \in Command, Wipe(c)
  PROVE  TypeOK'
<1>. USE TypeParts
<1>1. MemberOK'
  BY DEF Wipe, MemberOK
<1>2. PowerOK'
  BY PowerType DEF Wipe
<1>3. CmdOK'
  BY StepType DEF Wipe
<1>4. MishapsOK'
  BY MishapType DEF Wipe
<1>5. HeldOK' /\ StartOK' /\ LockOK' /\ TicksOK' /\ PlaneOK' /\ BegunOK' /\ BootsOK'
  BY Unchanged DEF Wipe
<1>. QED
  BY <1>1, <1>2, <1>3, <1>4, <1>5
\* Promote keeps the types.
LEMMA TypePromote ==
  ASSUME TypeOK, NEW c \in Command, Promote(c)
  PROVE  TypeOK'
<1>. USE TypeParts
<1>1. MemberOK'
  BY DEF Promote, MemberOK
<1>2. PowerOK'
  BY DEF Promote, PowerOK
<1>3. CmdOK'
  BY StepType DEF Promote
<1>4. PlaneOK'
  BY DEF Promote, PlaneOK
<1>5. HeldOK' /\ StartOK' /\ LockOK' /\ TicksOK' /\ BegunOK' /\ BootsOK' /\ MishapsOK'
  BY Unchanged DEF Promote
<1>. QED
  BY <1>1, <1>2, <1>3, <1>4, <1>5
\* Unmark keeps the types.
LEMMA TypeUnmark ==
  ASSUME TypeOK, NEW c \in Command, Unmark(c)
  PROVE  TypeOK'
<1>. USE TypeParts
<1>1. MemberOK'
  BY DEF Unmark, MemberOK
<1>2. CmdOK'
  <2>. SUFFICES ASSUME NEW d \in Command PROVE cmd'[d] \in CmdType
    BY DEF Unmark, CmdOK
  <2>1. cmd[d] \in CmdType /\ cmd[c] \in CmdType
    BY DEF CmdOK
  <2>2. CASE d = c
    BY ProgramType, <2>1, <2>2 DEF Unmark, CmdType
  <2>3. CASE d # c
    <3>1. cmd'[d] = [cmd[d] EXCEPT !.stale =
                       @ \/ (demoted /\ cmd[c].kind = "resync" /\ Busy(d))]
      BY <2>3 DEF Unmark
    <3>2. cmd[d].stale \in BOOLEAN
      BY <2>1 DEF CmdType
    <3>3. (cmd[d].stale \/ (demoted /\ cmd[c].kind = "resync" /\ Busy(d))) \in BOOLEAN
      OBVIOUS
    <3>. QED
      BY <2>1, <3>1, <3>3 DEF CmdType
  <2>. QED BY <2>2, <2>3
<1>3. PowerOK' /\ HeldOK' /\ StartOK' /\ LockOK' /\ TicksOK' /\ PlaneOK' /\ BegunOK' /\ BootsOK' /\ MishapsOK'
  BY Unchanged DEF Unmark
<1>. QED
  BY <1>1, <1>2, <1>3
\* End keeps the types.
LEMMA TypeEnd ==
  ASSUME TypeOK, NEW c \in Command, End(c)
  PROVE  TypeOK'
<1>. USE TypeParts
<1>1. MemberOK'
  BY DEF End, MemberOK
<1>2. HeldOK'
  <2>1. marker' \in Marker
    BY DEF End, EndMarker, HeldOK, Marker, MarkerKind, MarkerOf
  <2>2. answered' \in {"no", "command", "release"}
    BY DEF End, HeldOK, Answered
  <2>3. disk' \in MarkerKind
    BY <2>1 DEF End, Files, NothingFiled, HeldOK, Marker
  <2>. QED
    BY <2>1, <2>2, <2>3 DEF End, HeldOK
<1>3. LockOK'
  BY DEF End, LockOK
<1>4. CmdOK'
  BY IdleType DEF End, CmdOK
<1>5. PowerOK' /\ StartOK' /\ TicksOK' /\ PlaneOK' /\ BegunOK' /\ BootsOK'
  BY Unchanged DEF End
<1>6. MishapsOK'
  BY MishapType DEF End, Files, NothingFiled
<1>. QED
  BY <1>1, <1>2, <1>3, <1>4, <1>5, <1>6
\* A command begins.
LEMMA AcceptedType ==
  ASSUME NEW k \in Kind, NEW todo \in Seq(Step), NEW r \in BOOLEAN
  PROVE  [IdleCmd EXCEPT !.kind = k, !.todo = todo, !.ok = TRUE, !.busy = TRUE, !.replica = r]
           \in CmdType
BY DEF IdleCmd, CmdType
\* Accept keeps the types.
LEMMA TypeAccept ==
  ASSUME HeldOK, CmdOK, PlaneOK, MishapsOK, NEW c \in Command, NEW kind \in Kind, Accept(c, kind)
  PROVE  HeldOK' /\ CmdOK' /\ MishapsOK'
<1>1. Program[kind] \in Seq(Step)
  BY ProgramType
<1>3. [IdleCmd EXCEPT !.kind = kind, !.todo = Program[kind], !.ok = TRUE, !.busy = TRUE,
                      !.replica = replaced] \in CmdType
  BY <1>1, AcceptedType DEF PlaneOK
<1>4. CmdOK'
  BY <1>3 DEF Accept, CmdOK
<1>5. marker' \in Marker
  BY DEF Accept, HeldOK, BeginMarker, Marker, MarkerKind
<1>6. disk' \in MarkerKind
  BY <1>5 DEF Accept, Files, NothingFiled, HeldOK, Marker
<1>7. MishapsOK'
  BY MishapType DEF Accept, Files, NothingFiled
<1>. QED
  BY <1>4, <1>5, <1>6, <1>7 DEF Accept, HeldOK
\* Begin keeps the types.
LEMMA TypeBegin ==
  ASSUME TypeOK, NEW c \in Command, NEW kind \in Kind, Begin(c, kind)
  PROVE  TypeOK'
<1>. USE TypeParts
<1>1. HeldOK'
  BY TypeAccept DEF Begin
<1>2. CmdOK' /\ MishapsOK'
  BY TypeAccept DEF Begin
<1>3. PlaneOK'
  BY DEF Begin, Accept, PlaneOK
<1>4. BegunOK'
  BY Bounds DEF Begin, BegunOK
<1>5. MemberOK' /\ PowerOK' /\ StartOK' /\ LockOK' /\ TicksOK' /\ BootsOK'
  BY Unchanged DEF Begin, Accept
<1>. QED
  BY <1>1, <1>2, <1>3, <1>4, <1>5
\* Answer keeps the types.
LEMMA TypeAnswer ==
  ASSUME TypeOK, NEW c \in Command, Answer(c)
  PROVE  TypeOK'
<1>. USE TypeParts
<1>1. HeldOK'
  BY TypeAccept, ProgramType DEF Answer
<1>2. CmdOK' /\ MishapsOK'
  BY TypeAccept, ProgramType DEF Answer
<1>3. PlaneOK'
  BY DEF Answer, Accept, PlaneOK
<1>4. MemberOK' /\ PowerOK' /\ StartOK' /\ LockOK' /\ TicksOK' /\ BegunOK' /\ BootsOK'
  BY Unchanged DEF Answer, Accept
<1>. QED
  BY <1>1, <1>2, <1>3, <1>4
\* The tickers.
LEMMA TypeGuard ==
  ASSUME TypeOK, GuardTick
  PROVE  TypeOK'
<1>. USE TypeParts
<1>1. MemberOK'
  BY DEF GuardTick, GuardLock, GuardCheck, GuardStop, MemberOK, member
<1>2. PowerOK'
  BY DEF GuardTick, GuardLock, GuardCheck, GuardStop, PowerOK, GoesDown, Quiet, power
<1>3. HeldOK'
  <2>1. marker' \in Marker
    BY DEF GuardTick, GuardLock, GuardCheck, GuardStop, HeldOK, Marker, MarkerKind, MarkerOf, held, marks
  <2>2. disk' \in MarkerKind
    BY DEF GuardTick, GuardLock, GuardCheck, GuardStop, HeldOK, MarkerKind, held, marks
  <2>. QED
    BY <2>1, <2>2 DEF GuardTick, GuardLock, GuardCheck, GuardStop, HeldOK, held, marks
<1>4. LockOK'
  BY DEF GuardTick, GuardLock, GuardCheck, GuardStop, LockOK
<1>5. TicksOK'
  BY DEF GuardTick, GuardLock, GuardCheck, GuardStop, TicksOK
<1>6. MishapsOK'
  BY MishapType DEF GuardTick, GuardLock, GuardCheck, GuardStop, NoMishap
<1>7. StartOK' /\ CmdOK' /\ PlaneOK' /\ BegunOK' /\ BootsOK'
  BY Unchanged DEF GuardTick, GuardLock, GuardCheck, GuardStop, commandsToo
<1>. QED
  BY <1>1, <1>2, <1>3, <1>4, <1>5, <1>6, <1>7
\* Healer keeps the types.
LEMMA TypeHealer ==
  ASSUME TypeOK, HealerTick
  PROVE  TypeOK'
<1>. USE TypeParts
<1>1. PowerOK'
  BY PowerType DEF HealerTick, HealerCheck, HealerRecheck, HealerStart
<1>2. LockOK'
  BY DEF HealerTick, HealerCheck, HealerRecheck, HealerStart, HealerDone, LockOK
<1>3. TicksOK'
  BY DEF HealerTick, HealerCheck, HealerRecheck, HealerStart, HealerDone, TicksOK
<1>4. MishapsOK'
  BY MishapType DEF HealerTick, HealerCheck, HealerRecheck, HealerStart, NoMishap
<1>5. MemberOK' /\ HeldOK' /\ StartOK' /\ CmdOK' /\ PlaneOK' /\ BegunOK' /\ BootsOK'
  BY Unchanged DEF HealerTick, HealerCheck, HealerRecheck, HealerStart, commandsToo
<1>. QED
  BY <1>1, <1>2, <1>3, <1>4, <1>5
\* Retry keeps the types.
LEMMA TypeRetry ==
  ASSUME TypeOK, RetryTick
  PROVE  TypeOK'
<1>. USE TypeParts
<1>1. PowerOK'
  BY PowerType DEF RetryTick, RetryList, RetryStop
<1>2. HeldOK'
  BY DEF RetryTick, RetryList, RetryStop, ListHolds, HeldOK, marks
<1>3. TicksOK'
  BY DEF RetryTick, RetryList, RetryStop, TicksOK
<1>4. MishapsOK'
  BY MishapType DEF RetryTick, RetryList, RetryStop, NoMishap
<1>5. MemberOK' /\ StartOK' /\ LockOK' /\ CmdOK' /\ PlaneOK' /\ BegunOK' /\ BootsOK'
  BY Unchanged DEF RetryTick, RetryList, RetryStop, work
<1>. QED
  BY <1>1, <1>2, <1>3, <1>4, <1>5
\* Reporter keeps the types.
LEMMA TypeReporter ==
  ASSUME TypeOK, ReporterTick
  PROVE  TypeOK'
<1>. USE TypeParts
<1>1. PowerOK'
  BY PowerType DEF ReporterTick, ReporterList, Report, Release, ReleaseStart
<1>2. HeldOK'
  <2>1. marker' \in Marker /\ disk' \in MarkerKind
    BY DEF ReporterTick, ReporterList, Report, Release, ReleaseStart, Files, NothingFiled, HeldOK,
       Marker, MarkerKind, MarkerOf, held, marks
  <2>. QED
    BY <2>1 DEF ReporterTick, ReporterList, Report, Release, ReleaseStart, ListHolds, HeldOK, held, marks
<1>3. TicksOK'
  BY DEF ReporterTick, ReporterList, Report, Release, ReleaseStart, HoldReport, HeldOK, TicksOK
<1>4. PlaneOK'
  BY DEF ReporterTick, ReporterList, Report, Release, ReleaseStart, PlaneOK, plane
<1>5. MishapsOK'
  BY MishapType DEF ReporterTick, ReporterList, Report, Release, ReleaseStart, Files, NothingFiled,
     NoMishap
<1>6. MemberOK' /\ StartOK' /\ LockOK' /\ CmdOK' /\ BegunOK' /\ BootsOK'
  BY Unchanged DEF ReporterTick, ReporterList, Report, Release, ReleaseStart, work
<1>. QED
  BY <1>1, <1>2, <1>3, <1>4, <1>5, <1>6
\* The start of the daemon.
LEMMA TypeBoot ==
  ASSUME TypeOK, Boot \/ SettleOver
  PROVE  TypeOK'
<1>. USE TypeParts
<1>1. PowerOK'
  BY PowerType DEF Boot, BootCheck, BootFile, BootStop, Persist, SettleOver
<1>2. HeldOK'
  <2>1. marker' \in Marker /\ disk' \in MarkerKind /\ lost' \in BOOLEAN
    BY DEF Boot, BootCheck, BootFile, BootStop, Persist, SettleOver, Files, NothingFiled, HeldOK,
       Marker, MarkerKind, MarkerOf, held, marks
  <2>2. unsettled' \in BOOLEAN
    BY DEF Boot, BootCheck, BootFile, BootStop, Persist, SettleOver, HeldOK, held, marks
  <2>3. hold' \in {"none", "unstopped", "stopped"} /\ answered' \in {"no", "command", "release"}
    BY DEF Boot, BootCheck, BootFile, BootStop, Persist, SettleOver, Answered, HeldOK, held, marks
  <2>. QED
    BY <2>1, <2>2, <2>3 DEF HeldOK
<1>3. StartOK'
  BY DEF Boot, BootCheck, BootFile, BootStop, Persist, SettleOver, Starts, StartOK
<1>4. MishapsOK'
  BY MishapType DEF Boot, BootCheck, BootFile, BootStop, Persist, SettleOver, Files, NothingFiled,
     NoMishap
<1>5. MemberOK' /\ LockOK' /\ CmdOK' /\ TicksOK' /\ PlaneOK' /\ BegunOK' /\ BootsOK'
  BY Unchanged DEF Boot, BootCheck, BootFile, BootStop, Persist, SettleOver, work
<1>. QED
  BY <1>1, <1>2, <1>3, <1>4, <1>5
\* The host, the daemon, the session, the clock.
LEMMA TypeLost ==
  ASSUME TypeOK, HostLost \/ DaemonDies
  PROVE  TypeOK'
<1>. USE TypeParts
<1>1. PowerOK'
  BY DEF HostLost, DaemonDies, PowerOK, power
<1>2. HeldOK'
  <2>1. marker' \in Marker /\ disk' \in MarkerKind
    <3>1. marker' = MarkerOf(disk) /\ disk' = disk
      BY DEF HostLost, DaemonDies, Restarts
    <3>. QED
      BY <3>1 DEF HeldOK, Marker, MarkerOf
  <2>2. unsettled' \in BOOLEAN /\ lost' \in BOOLEAN
    BY DEF HostLost, DaemonDies, Restarts, HeldOK
  <2>. QED
    BY <2>1, <2>2 DEF HostLost, DaemonDies, HeldOK
<1>3. StartOK'
  BY DEF HostLost, DaemonDies, Restarts, StartOK
<1>4. LockOK'
  BY DEF HostLost, DaemonDies, Restarts, LockOK
<1>5. CmdOK'
  BY IdleType DEF HostLost, DaemonDies, Restarts, CmdOK
<1>6. TicksOK'
  BY DEF HostLost, DaemonDies, Restarts, TicksOK
<1>7. PlaneOK'
  BY DEF HostLost, DaemonDies, Restarts, PlaneOK
<1>8. BootsOK'
  <2>1. CASE HostLost
    BY <2>1, Bounds DEF HostLost, BootsOK
  <2>2. CASE DaemonDies
    BY <2>2 DEF DaemonDies, BootsOK
  <2>. QED
    BY <2>1, <2>2
<1>9. MishapsOK'
  BY MishapType DEF HostLost, DaemonDies, NoMishap
<1>10. MemberOK' /\ BegunOK'
  BY Unchanged DEF HostLost, DaemonDies
<1>. QED
  BY <1>1, <1>2, <1>3, <1>4, <1>5, <1>6, <1>7, <1>8, <1>9, <1>10
\* What happens outside the daemon keeps the types.
LEMMA TypeOutside ==
  ASSUME TypeOK, DockerStarts \/ HandStarts \/ Attach \/ Told \/ Detach \/ Switchover \/ Expire
  PROVE  TypeOK'
<1>. USE TypeParts
<1>1. PowerOK'
  BY PowerType DEF DockerStarts, HandStarts, Attach, Told, Detach, Switchover, Expire
<1>2. HeldOK'
  BY DEF DockerStarts, HandStarts, Attach, Told, Detach, Switchover, Expire, HeldOK, Marker,
     MarkerKind, MarkerOf, held, marks
<1>3. PlaneOK'
  BY DEF DockerStarts, HandStarts, Attach, Told, Detach, Switchover, Expire, PlaneOK, plane
<1>4. MishapsOK'
  BY MishapType DEF DockerStarts, HandStarts, Attach, Told, Detach, Switchover, Expire, NoMishap
<1>5. MemberOK' /\ StartOK' /\ LockOK' /\ CmdOK' /\ TicksOK' /\ BegunOK' /\ BootsOK'
  BY Unchanged DEF DockerStarts, HandStarts, Attach, Told, Detach, Switchover, Expire, work
<1>. QED
  BY <1>1, <1>2, <1>3, <1>4, <1>5

\* No step breaks the types.
LEMMA TypeStep == TypeOK /\ [Next]_vars => TypeOK'
<1>. SUFFICES ASSUME TypeOK, [Next]_vars PROVE TypeOK'
  OBVIOUS
<1>1. ASSUME NEW c \in Command, CommandStep(c) PROVE TypeOK'
  BY <1>1, TypeTakeLock, TypeLook, TypeEnforce, TypePower, TypeFence, TypeReadOnly, TypeWipe,
     TypePromote, TypeUnmark, TypeEnd DEF CommandStep
<1>2. CASE UNCHANGED vars
  BY <1>2, TypeParts, Unchanged DEF vars, work
<1>. QED
  BY <1>1, <1>2, TypeBegin, TypeAnswer, TypeGuard, TypeHealer, TypeRetry, TypeReporter, TypeBoot,
     TypeLost, TypeOutside DEF Next

\* The initial states satisfy it.
LEMMA TypeInit == Init => TypeOK
<1>. SUFFICES ASSUME Init PROVE TypeOK
  OBVIOUS
<1>1. CmdOK
  BY IdleType DEF Init, CmdOK
<1>2. HeldOK
  BY DEF Init, HeldOK, Marker, MarkerKind, MarkerOf
<1>3. BegunOK /\ BootsOK /\ MishapsOK
  BY Bounds DEF Init, BegunOK, BootsOK, MishapsOK
<1>4. MemberOK /\ PowerOK /\ StartOK /\ LockOK /\ TicksOK /\ PlaneOK
  BY DEF Init, MemberOK, PowerOK, StartOK, LockOK, TicksOK, PlaneOK
<1>. QED
  BY <1>1, <1>2, <1>3, <1>4, TypeParts

\* The types of ManagedFence hold in every reachable state, for every number of
\* commands, boots and mishaps.
THEOREM TypeCorrect == Spec => []TypeOK
BY TypeInit, TypeStep, PTL DEF Spec

(***************************************************************************)
(* The hold.  Between the held marker and the end of the start the boot is *)
(* not yet on record, or its hold is on file; a daemon that dies there     *)
(* begins again, since a record that is only due was not persisted.        *)
(***************************************************************************)
StartInOrder == /\ daemon = "marked" => record = "old"
                /\ daemon = "boot" => record # "due"
HeldFromStart == answered = "no" /\ daemon \in {"marked", "filed"} => HeldStop
HeldOnRecord == answered = "no" /\ record # "old" => (HeldStop /\ hold # "none") \/ lost
HoldInv == StartInOrder /\ HeldFromStart /\ HeldOnRecord

holdVars == <<marker, lost, hold, answered, record, daemon>>
\* HoldInv is about holdVars alone.
LEMMA HoldUnchanged == HoldInv /\ UNCHANGED holdVars => HoldInv'
BY DEF HoldInv, StartInOrder, HeldFromStart, HeldOnRecord, HeldStop, holdVars

\* A marker written over another one keeps a held one held.
LEMMA HoldKeptHeld ==
  ASSUME HoldInv, HeldStop => HeldStop', UNCHANGED <<lost, answered, record, daemon>>,
         hold # "none" /\ HeldStop => hold' # "none"
  PROVE  HoldInv'
BY DEF HoldInv, StartInOrder, HeldFromStart, HeldOnRecord

\* Accept keeps HoldInv.
LEMMA HoldAccept ==
  ASSUME HoldInv, NEW c \in Command, NEW kind \in Kind, Accept(c, kind)
  PROVE  HoldInv'
<1>1. HeldStop => HeldStop'
  BY DEF Accept, BeginMarker, HeldStop
<1>. QED
  BY <1>1, HoldKeptHeld DEF Accept, start

\* A command ends the hold only as its answer.
LEMMA HoldEnd ==
  ASSUME TypeOK, HoldInv, NEW c \in Command, End(c)
  PROVE  HoldInv'
<1>. DEFINE ends == cmd[c].ok /\ ~Stops(cmd[c].kind) /\ HeldStop
<1>1. CASE ends
  <2>1. answered' # "no"
    BY <1>1 DEF End, Answered
  <2>. QED
    BY <2>1 DEF End, HoldInv, StartInOrder, HeldFromStart, HeldOnRecord, start
<1>2. CASE ~ends
  <2>1. HeldStop => HeldStop'
    BY <1>2 DEF End, EndMarker, HeldStop, MarkerOf
  <2>. QED
    BY <1>2, <2>1, HoldKeptHeld DEF End, start
<1>. QED
  BY <1>1, <1>2

\* Command keeps HoldInv.
LEMMA HoldCommand ==
  ASSUME TypeOK, HoldInv, NEW c \in Command, CommandStep(c)
  PROVE  HoldInv'
<1>1. CASE End(c)
  BY <1>1, HoldEnd
<1>2. CASE ~End(c)
  <2>1. UNCHANGED holdVars
    BY <1>2 DEF CommandStep, holdVars, held, marks, start, TakeLock, MaybeLock, SkipStale, CheckStart,
       Enforce, Drop, ComposeStart, Recheck, ComposeStop, Mark, Plant, ReadOnly, Materialize,
       StandbyCheck, Wipe, ComposeUp, Promote, Writable, Unfence, Unmark
  <2>. QED
    BY <2>1, HoldUnchanged
<1>. QED
  BY <1>1, <1>2

\* The tickers keep HoldInv.
LEMMA HoldTickers ==
  ASSUME TypeOK, HoldInv, GuardTick \/ HealerTick \/ RetryTick \/ ReporterTick
  PROVE  HoldInv'
<1>1. CASE GuardTick
  <2>1. HeldStop => HeldStop'
    BY <1>1 DEF GuardTick, GuardLock, GuardCheck, GuardStop, HeldStop, MarkerOf, held, marks
  <2>. QED
    BY <1>1, <2>1, HoldKeptHeld DEF GuardTick, GuardLock, GuardCheck, GuardStop, held, marks, start
<1>2. CASE HealerTick
  BY <1>2, HoldUnchanged DEF HealerTick, HealerCheck, HealerRecheck, HealerStart, holdVars, held, marks, start
<1>3. CASE RetryTick
  <2>1. UNCHANGED marker
    BY <1>3 DEF RetryTick, RetryList, RetryStop, marks
  <2>2. hold # "none" /\ HeldStop => hold' # "none"
    BY <1>3 DEF RetryTick, RetryList, RetryStop, ListHolds, ActiveHold
  <2>. QED
    BY <1>3, <2>1, <2>2, HoldKeptHeld DEF RetryTick, RetryList, RetryStop, HeldStop, marks, start
<1>4. CASE Release
  BY <1>4 DEF Release, HoldInv, StartInOrder, HeldFromStart, HeldOnRecord, HeldStop, start
<1>5. CASE ReporterList \/ Report \/ ReleaseStart
  <2>1. UNCHANGED marker
    BY <1>5 DEF ReporterList, Report, ReleaseStart, held, marks
  <2>2. hold # "none" /\ HeldStop => hold' # "none"
    BY <1>5 DEF ReporterList, Report, ReleaseStart, ListHolds, ActiveHold, held, marks
  <2>. QED
    BY <1>5, <2>1, <2>2, HoldKeptHeld DEF ReporterList, Report, ReleaseStart, HeldStop, held, marks, start
<1>. QED
  BY <1>1, <1>2, <1>3, <1>4, <1>5 DEF ReporterTick

\* Boot keeps HoldInv.
LEMMA HoldBoot ==
  ASSUME TypeOK, HoldInv, Boot \/ SettleOver
  PROVE  HoldInv'
<1>1. CASE BootCheck
  BY <1>1 DEF BootCheck, NeedsHold, Starts, Answered, HoldInv, StartInOrder, HeldFromStart,
     HeldOnRecord, HeldStop, MarkerOf
<1>2. CASE BootFile
  BY <1>2 DEF BootFile, HoldInv, StartInOrder, HeldFromStart, HeldOnRecord, HeldStop, marks
<1>3. CASE BootStop
  BY <1>3 DEF BootStop, Starts, HoldInv, StartInOrder, HeldFromStart, HeldOnRecord, HeldStop, marks
<1>4. CASE Persist
  BY <1>4 DEF Persist, HoldInv, StartInOrder, HeldFromStart, HeldOnRecord, HeldStop, held, marks
<1>5. CASE SettleOver
  BY <1>5, HoldUnchanged DEF SettleOver, holdVars, held, marks
<1>. QED
  BY <1>1, <1>2, <1>3, <1>4, <1>5 DEF Boot

\* A lost host or process keeps HoldInv.
LEMMA HoldLost ==
  ASSUME TypeOK, HoldInv, HostLost \/ DaemonDies
  PROVE  HoldInv'
<1>1. CASE HostLost
  BY <1>1 DEF HostLost, Restarts, HoldInv, StartInOrder, HeldFromStart, HeldOnRecord
<1>2. CASE DaemonDies
  <2>1. lost => lost'
    BY <1>2 DEF DaemonDies
  <2>2. record' # "old" => record = "current" /\ (lost' \/ (HeldStop => HeldStop'))
    BY <1>2, TypeParts DEF DaemonDies, Restarts, HeldStop, MarkerOf, StartOK
  <2>. QED
    BY <1>2, <2>1, <2>2 DEF DaemonDies, Restarts, HoldInv, StartInOrder, HeldFromStart, HeldOnRecord
<1>. QED
  BY <1>1, <1>2

\* What happens outside the daemon keeps HoldInv.
LEMMA HoldOutside ==
  ASSUME TypeOK, HoldInv,
         DockerStarts \/ HandStarts \/ Attach \/ Told \/ Detach \/ Switchover \/ Expire
  PROVE  HoldInv'
<1>1. CASE Expire
  <2>1. ~HeldStop
    BY <1>1 DEF Expire, HeldStop
  <2>. QED
    BY <1>1, <2>1, HoldKeptHeld DEF Expire, start
<1>2. CASE DockerStarts \/ HandStarts \/ Attach \/ Told \/ Detach \/ Switchover
  BY <1>2, HoldUnchanged DEF DockerStarts, HandStarts, Attach, Told, Detach, Switchover, holdVars,
     held, marks, start
<1>. QED
  BY <1>1, <1>2

\* From the moment the boot is on record as dealt with, a primary that may have
\* been replaced while the host was away stays held until a command or a
\* release ends the hold, for every number of commands, boots, daemon deaths and
\* failed writes; only a daemon restarted while the file of the held marker
\* could not be written loses it.
THEOREM HeldUntilAnswered == Spec => []HoldUntilAnswered
<1>1. Init => HoldInv
  BY DEF Init, HoldInv, StartInOrder, HeldFromStart, HeldOnRecord
<1>2. TypeOK /\ HoldInv /\ [Next]_vars => HoldInv'
  <2>. SUFFICES ASSUME TypeOK, HoldInv, [Next]_vars PROVE HoldInv'
    OBVIOUS
  <2>1. ASSUME NEW c \in Command, Answer(c) PROVE HoldInv'
    BY <2>1, HoldAccept, ProgramType DEF Answer
  <2>2. ASSUME NEW c \in Command, NEW kind \in Kind, Begin(c, kind) PROVE HoldInv'
    BY <2>2, HoldAccept DEF Begin
  <2>3. CASE UNCHANGED vars
    BY <2>3, HoldUnchanged DEF vars, holdVars, held, marks, start
  <2>. QED
    BY <2>1, <2>2, <2>3, HoldCommand, HoldTickers, HoldBoot, HoldLost, HoldOutside DEF Next
<1>3. HoldInv => HoldUntilAnswered
  BY DEF HoldInv, HeldOnRecord, HoldUntilAnswered
<1>. QED
  BY <1>1, <1>2, <1>3, TypeCorrect, PTL DEF Spec

(***************************************************************************)
(* No second primary.  A command that runs while the member is replaced    *)
(* starts it only on data that does not come up writable; the lifecycle    *)
(* lock keeps it so between the check and the start; and the exit guard    *)
(* passes over a replaced primary because one of its two markers, its role *)
(* or its data says so.                                                    *)
(***************************************************************************)
\* What a command may have left to do.
Rest(kind) ==
  CASE kind = "start" -> {<<"check", "start", "recheck">>, <<"start", "recheck">>,
                          <<"recheck">>, <<"refuse">>, <<"enforce">>, <<"drop">>, <<>>}
    [] kind = "stop" -> {<<"stop">>, <<>>}
    [] kind = "demote" -> {<<"mark", "plant", "read-only", "stop">>,
                           <<"plant", "read-only", "stop">>, <<"read-only", "stop">>,
                           <<"stop">>, <<>>}
    [] kind = "return" -> {<<"lock", "stale", "mark", "plant", "read-only", "stop">>,
                           <<"stale", "mark", "plant", "read-only", "stop">>,
                           <<"mark", "plant", "read-only", "stop">>,
                           <<"plant", "read-only", "stop">>, <<"read-only", "stop">>,
                           <<"stop">>, <<>>}
    [] kind = "apply" -> {<<"lock", "materialize", "standby?", "up">>,
                          <<"materialize", "standby?", "up">>, <<"standby?", "up">>, <<"up">>,
                          <<"drop">>, <<>>}
    [] kind = "resync" -> {<<"lock", "materialize", "wipe", "up", "unfence", "unmark">>,
                           <<"materialize", "wipe", "up", "unfence", "unmark">>,
                           <<"wipe", "up", "unfence", "unmark">>,
                           <<"up", "unfence", "unmark">>, <<"unfence", "unmark">>,
                           <<"unmark">>, <<>>}
    [] kind = "promote" -> {<<"locked?", "promote", "unfence", "unmark">>,
                            <<"promote", "unfence", "unmark">>, <<"unfence", "unmark">>,
                            <<"unmark">>, <<>>}
    [] kind = "reactivate" -> {<<"lock", "start", "unfence", "writable", "unmark">>,
                               <<"start", "unfence", "writable", "unmark">>,
                               <<"unfence", "writable", "unmark">>, <<"writable", "unmark">>,
                               <<"unmark">>, <<>>}
Promoted == {<<"unfence", "unmark">>, <<"unmark">>}
Wiped == {<<"up", "unfence", "unmark">>, <<"unfence", "unmark">>, <<"unmark">>}
Late == {<<"up">>} \cup Promoted \cup Wiped

\* The position of a command, from its next step.
Position(kind, t) ==
  /\ Head(t) = "lock" => /\ kind \in {"return", "apply", "resync", "reactivate"}
                         /\ Tail(t) \notin Late
  /\ Head(t) = "locked?" => kind = "promote" /\ Tail(t) \notin Late /\ Tail(t) # <<>>
  /\ Head(t) = "stale" => kind = "return"
  /\ Head(t) \in {"check", "recheck", "refuse", "enforce"} => kind = "start"
  /\ Head(t) = "drop" => kind \in {"start", "apply"}
  /\ Head(t) = "start" => kind \in {"start", "reactivate"}
  /\ Head(t) = "stop" => kind \in {"stop", "demote", "return"}
  /\ Head(t) \in {"mark", "plant", "read-only"} => kind \in {"demote", "return"}
  /\ Head(t) = "materialize" => kind \in {"apply", "resync"} /\ Tail(t) \notin Late
  /\ Head(t) = "standby?" => kind = "apply" /\ Tail(t) = <<"up">>
  /\ Head(t) = "wipe" => kind = "resync"
  /\ Head(t) = "up" => \/ kind = "apply" /\ t = <<"up">> /\ Tail(t) = <<>>
                       \/ kind = "resync" /\ t \in Wiped
  /\ Head(t) = "promote" => kind = "promote"
  /\ Head(t) = "unfence" => \/ kind = "resync" /\ t \in Wiped
                            \/ kind = "promote" /\ t \in Promoted
                            \/ kind = "reactivate"
  /\ Head(t) = "writable" => kind = "reactivate"
  /\ Head(t) = "unmark" => \/ kind = "resync" /\ t \in Wiped
                           \/ kind = "promote" /\ t \in Promoted
                           \/ kind = "reactivate"
  /\ Tail(t) \in Rest(kind)
  /\ kind \in {"apply", "resync", "reactivate"} /\ t = Program[kind] => Head(t) = "lock"
\* The places in the program of Start.
LEMMA Position_Start ==
  ASSUME NEW t \in Rest("start"), t # <<>>
  PROVE  Position("start", t)
<1>1. CASE t = <<"check", "start", "recheck">>
  <2>1. Head(t) = "check" /\ Tail(t) = <<"start", "recheck">>
    BY <1>1
  <2>2. Tail(t) \in Rest("start")
    BY <2>1 DEF Rest
  <2>. QED
    BY <1>1, <2>1, <2>2 DEF Position, Late, Wiped, Promoted, Program
<1>2. CASE t = <<"start", "recheck">>
  <2>1. Head(t) = "start" /\ Tail(t) = <<"recheck">>
    BY <1>2
  <2>2. Tail(t) \in Rest("start")
    BY <2>1 DEF Rest
  <2>. QED
    BY <1>2, <2>1, <2>2 DEF Position, Late, Wiped, Promoted, Program
<1>3. CASE t = <<"recheck">>
  <2>1. Head(t) = "recheck" /\ Tail(t) = <<>>
    BY <1>3
  <2>2. Tail(t) \in Rest("start")
    BY <2>1 DEF Rest
  <2>. QED
    BY <1>3, <2>1, <2>2 DEF Position, Late, Wiped, Promoted, Program
<1>4. CASE t = <<"refuse">>
  <2>1. Head(t) = "refuse" /\ Tail(t) = <<>>
    BY <1>4
  <2>2. Tail(t) \in Rest("start")
    BY <2>1 DEF Rest
  <2>. QED
    BY <1>4, <2>1, <2>2 DEF Position, Late, Wiped, Promoted, Program
<1>5. CASE t = <<"enforce">>
  <2>1. Head(t) = "enforce" /\ Tail(t) = <<>>
    BY <1>5
  <2>2. Tail(t) \in Rest("start")
    BY <2>1 DEF Rest
  <2>. QED
    BY <1>5, <2>1, <2>2 DEF Position, Late, Wiped, Promoted, Program
<1>6. CASE t = <<"drop">>
  <2>1. Head(t) = "drop" /\ Tail(t) = <<>>
    BY <1>6
  <2>2. Tail(t) \in Rest("start")
    BY <2>1 DEF Rest
  <2>. QED
    BY <1>6, <2>1, <2>2 DEF Position, Late, Wiped, Promoted, Program
<1>. QED
  BY <1>1, <1>2, <1>3, <1>4, <1>5, <1>6 DEF Rest
\* The places in the program of Stop.
LEMMA Position_Stop ==
  ASSUME NEW t \in Rest("stop"), t # <<>>
  PROVE  Position("stop", t)
<1>1. CASE t = <<"stop">>
  <2>1. Head(t) = "stop" /\ Tail(t) = <<>>
    BY <1>1
  <2>2. Tail(t) \in Rest("stop")
    BY <2>1 DEF Rest
  <2>. QED
    BY <1>1, <2>1, <2>2 DEF Position, Late, Wiped, Promoted, Program
<1>. QED
  BY <1>1 DEF Rest
\* The places in the program of Demote.
LEMMA Position_Demote ==
  ASSUME NEW t \in Rest("demote"), t # <<>>
  PROVE  Position("demote", t)
<1>1. CASE t = <<"mark", "plant", "read-only", "stop">>
  <2>1. Head(t) = "mark" /\ Tail(t) = <<"plant", "read-only", "stop">>
    BY <1>1
  <2>2. Tail(t) \in Rest("demote")
    BY <2>1 DEF Rest
  <2>. QED
    BY <1>1, <2>1, <2>2 DEF Position, Late, Wiped, Promoted, Program
<1>2. CASE t = <<"plant", "read-only", "stop">>
  <2>1. Head(t) = "plant" /\ Tail(t) = <<"read-only", "stop">>
    BY <1>2
  <2>2. Tail(t) \in Rest("demote")
    BY <2>1 DEF Rest
  <2>. QED
    BY <1>2, <2>1, <2>2 DEF Position, Late, Wiped, Promoted, Program
<1>3. CASE t = <<"read-only", "stop">>
  <2>1. Head(t) = "read-only" /\ Tail(t) = <<"stop">>
    BY <1>3
  <2>2. Tail(t) \in Rest("demote")
    BY <2>1 DEF Rest
  <2>. QED
    BY <1>3, <2>1, <2>2 DEF Position, Late, Wiped, Promoted, Program
<1>4. CASE t = <<"stop">>
  <2>1. Head(t) = "stop" /\ Tail(t) = <<>>
    BY <1>4
  <2>2. Tail(t) \in Rest("demote")
    BY <2>1 DEF Rest
  <2>. QED
    BY <1>4, <2>1, <2>2 DEF Position, Late, Wiped, Promoted, Program
<1>. QED
  BY <1>1, <1>2, <1>3, <1>4 DEF Rest
\* The places in the program of Return.
LEMMA Position_Return ==
  ASSUME NEW t \in Rest("return"), t # <<>>
  PROVE  Position("return", t)
<1>1. CASE t = <<"lock", "stale", "mark", "plant", "read-only", "stop">>
  <2>1. Head(t) = "lock" /\ Tail(t) = <<"stale", "mark", "plant", "read-only", "stop">>
    BY <1>1
  <2>2. Tail(t) \in Rest("return")
    BY <2>1 DEF Rest
  <2>. QED
    BY <1>1, <2>1, <2>2 DEF Position, Late, Wiped, Promoted, Program
<1>2. CASE t = <<"stale", "mark", "plant", "read-only", "stop">>
  <2>1. Head(t) = "stale" /\ Tail(t) = <<"mark", "plant", "read-only", "stop">>
    BY <1>2
  <2>2. Tail(t) \in Rest("return")
    BY <2>1 DEF Rest
  <2>. QED
    BY <1>2, <2>1, <2>2 DEF Position, Late, Wiped, Promoted, Program
<1>3. CASE t = <<"mark", "plant", "read-only", "stop">>
  <2>1. Head(t) = "mark" /\ Tail(t) = <<"plant", "read-only", "stop">>
    BY <1>3
  <2>2. Tail(t) \in Rest("return")
    BY <2>1 DEF Rest
  <2>. QED
    BY <1>3, <2>1, <2>2 DEF Position, Late, Wiped, Promoted, Program
<1>4. CASE t = <<"plant", "read-only", "stop">>
  <2>1. Head(t) = "plant" /\ Tail(t) = <<"read-only", "stop">>
    BY <1>4
  <2>2. Tail(t) \in Rest("return")
    BY <2>1 DEF Rest
  <2>. QED
    BY <1>4, <2>1, <2>2 DEF Position, Late, Wiped, Promoted, Program
<1>5. CASE t = <<"read-only", "stop">>
  <2>1. Head(t) = "read-only" /\ Tail(t) = <<"stop">>
    BY <1>5
  <2>2. Tail(t) \in Rest("return")
    BY <2>1 DEF Rest
  <2>. QED
    BY <1>5, <2>1, <2>2 DEF Position, Late, Wiped, Promoted, Program
<1>6. CASE t = <<"stop">>
  <2>1. Head(t) = "stop" /\ Tail(t) = <<>>
    BY <1>6
  <2>2. Tail(t) \in Rest("return")
    BY <2>1 DEF Rest
  <2>. QED
    BY <1>6, <2>1, <2>2 DEF Position, Late, Wiped, Promoted, Program
<1>. QED
  BY <1>1, <1>2, <1>3, <1>4, <1>5, <1>6 DEF Rest
\* The places in the program of Apply.
LEMMA Position_Apply ==
  ASSUME NEW t \in Rest("apply"), t # <<>>
  PROVE  Position("apply", t)
<1>1. CASE t = <<"lock", "materialize", "standby?", "up">>
  <2>1. Head(t) = "lock" /\ Tail(t) = <<"materialize", "standby?", "up">>
    BY <1>1
  <2>2. Tail(t) \in Rest("apply")
    BY <2>1 DEF Rest
  <2>. QED
    BY <1>1, <2>1, <2>2 DEF Position, Late, Wiped, Promoted, Program
<1>2. CASE t = <<"materialize", "standby?", "up">>
  <2>1. Head(t) = "materialize" /\ Tail(t) = <<"standby?", "up">>
    BY <1>2
  <2>2. Tail(t) \in Rest("apply")
    BY <2>1 DEF Rest
  <2>. QED
    BY <1>2, <2>1, <2>2 DEF Position, Late, Wiped, Promoted, Program
<1>3. CASE t = <<"standby?", "up">>
  <2>1. Head(t) = "standby?" /\ Tail(t) = <<"up">>
    BY <1>3
  <2>2. Tail(t) \in Rest("apply")
    BY <2>1 DEF Rest
  <2>. QED
    BY <1>3, <2>1, <2>2 DEF Position, Late, Wiped, Promoted, Program
<1>4. CASE t = <<"up">>
  <2>1. Head(t) = "up" /\ Tail(t) = <<>>
    BY <1>4
  <2>2. Tail(t) \in Rest("apply")
    BY <2>1 DEF Rest
  <2>. QED
    BY <1>4, <2>1, <2>2 DEF Position, Late, Wiped, Promoted, Program
<1>5. CASE t = <<"drop">>
  <2>1. Head(t) = "drop" /\ Tail(t) = <<>>
    BY <1>5
  <2>2. Tail(t) \in Rest("apply")
    BY <2>1 DEF Rest
  <2>. QED
    BY <1>5, <2>1, <2>2 DEF Position, Late, Wiped, Promoted, Program
<1>. QED
  BY <1>1, <1>2, <1>3, <1>4, <1>5 DEF Rest
\* The places in the program of Resync.
LEMMA Position_Resync ==
  ASSUME NEW t \in Rest("resync"), t # <<>>
  PROVE  Position("resync", t)
<1>1. CASE t = <<"lock", "materialize", "wipe", "up", "unfence", "unmark">>
  <2>1. Head(t) = "lock" /\ Tail(t) = <<"materialize", "wipe", "up", "unfence", "unmark">>
    BY <1>1
  <2>2. Tail(t) \in Rest("resync")
    BY <2>1 DEF Rest
  <2>. QED
    BY <1>1, <2>1, <2>2 DEF Position, Late, Wiped, Promoted, Program
<1>2. CASE t = <<"materialize", "wipe", "up", "unfence", "unmark">>
  <2>1. Head(t) = "materialize" /\ Tail(t) = <<"wipe", "up", "unfence", "unmark">>
    BY <1>2
  <2>2. Tail(t) \in Rest("resync")
    BY <2>1 DEF Rest
  <2>. QED
    BY <1>2, <2>1, <2>2 DEF Position, Late, Wiped, Promoted, Program
<1>3. CASE t = <<"wipe", "up", "unfence", "unmark">>
  <2>1. Head(t) = "wipe" /\ Tail(t) = <<"up", "unfence", "unmark">>
    BY <1>3
  <2>2. Tail(t) \in Rest("resync")
    BY <2>1 DEF Rest
  <2>. QED
    BY <1>3, <2>1, <2>2 DEF Position, Late, Wiped, Promoted, Program
<1>4. CASE t = <<"up", "unfence", "unmark">>
  <2>1. Head(t) = "up" /\ Tail(t) = <<"unfence", "unmark">>
    BY <1>4
  <2>2. Tail(t) \in Rest("resync")
    BY <2>1 DEF Rest
  <2>. QED
    BY <1>4, <2>1, <2>2 DEF Position, Late, Wiped, Promoted, Program
<1>5. CASE t = <<"unfence", "unmark">>
  <2>1. Head(t) = "unfence" /\ Tail(t) = <<"unmark">>
    BY <1>5
  <2>2. Tail(t) \in Rest("resync")
    BY <2>1 DEF Rest
  <2>. QED
    BY <1>5, <2>1, <2>2 DEF Position, Late, Wiped, Promoted, Program
<1>6. CASE t = <<"unmark">>
  <2>1. Head(t) = "unmark" /\ Tail(t) = <<>>
    BY <1>6
  <2>2. Tail(t) \in Rest("resync")
    BY <2>1 DEF Rest
  <2>. QED
    BY <1>6, <2>1, <2>2 DEF Position, Late, Wiped, Promoted, Program
<1>. QED
  BY <1>1, <1>2, <1>3, <1>4, <1>5, <1>6 DEF Rest
\* The places in the program of Promote.
LEMMA Position_Promote ==
  ASSUME NEW t \in Rest("promote"), t # <<>>
  PROVE  Position("promote", t)
<1>1. CASE t = <<"locked?", "promote", "unfence", "unmark">>
  <2>1. Head(t) = "locked?" /\ Tail(t) = <<"promote", "unfence", "unmark">>
    BY <1>1
  <2>2. Tail(t) \in Rest("promote")
    BY <2>1 DEF Rest
  <2>. QED
    BY <1>1, <2>1, <2>2 DEF Position, Late, Wiped, Promoted, Program
<1>2. CASE t = <<"promote", "unfence", "unmark">>
  <2>1. Head(t) = "promote" /\ Tail(t) = <<"unfence", "unmark">>
    BY <1>2
  <2>2. Tail(t) \in Rest("promote")
    BY <2>1 DEF Rest
  <2>. QED
    BY <1>2, <2>1, <2>2 DEF Position, Late, Wiped, Promoted, Program
<1>3. CASE t = <<"unfence", "unmark">>
  <2>1. Head(t) = "unfence" /\ Tail(t) = <<"unmark">>
    BY <1>3
  <2>2. Tail(t) \in Rest("promote")
    BY <2>1 DEF Rest
  <2>. QED
    BY <1>3, <2>1, <2>2 DEF Position, Late, Wiped, Promoted, Program
<1>4. CASE t = <<"unmark">>
  <2>1. Head(t) = "unmark" /\ Tail(t) = <<>>
    BY <1>4
  <2>2. Tail(t) \in Rest("promote")
    BY <2>1 DEF Rest
  <2>. QED
    BY <1>4, <2>1, <2>2 DEF Position, Late, Wiped, Promoted, Program
<1>. QED
  BY <1>1, <1>2, <1>3, <1>4 DEF Rest
\* The places in the program of Reactivate.
LEMMA Position_Reactivate ==
  ASSUME NEW t \in Rest("reactivate"), t # <<>>
  PROVE  Position("reactivate", t)
<1>1. CASE t = <<"lock", "start", "unfence", "writable", "unmark">>
  <2>1. Head(t) = "lock" /\ Tail(t) = <<"start", "unfence", "writable", "unmark">>
    BY <1>1
  <2>2. Tail(t) \in Rest("reactivate")
    BY <2>1 DEF Rest
  <2>. QED
    BY <1>1, <2>1, <2>2 DEF Position, Late, Wiped, Promoted, Program
<1>2. CASE t = <<"start", "unfence", "writable", "unmark">>
  <2>1. Head(t) = "start" /\ Tail(t) = <<"unfence", "writable", "unmark">>
    BY <1>2
  <2>2. Tail(t) \in Rest("reactivate")
    BY <2>1 DEF Rest
  <2>. QED
    BY <1>2, <2>1, <2>2 DEF Position, Late, Wiped, Promoted, Program
<1>3. CASE t = <<"unfence", "writable", "unmark">>
  <2>1. Head(t) = "unfence" /\ Tail(t) = <<"writable", "unmark">>
    BY <1>3
  <2>2. Tail(t) \in Rest("reactivate")
    BY <2>1 DEF Rest
  <2>. QED
    BY <1>3, <2>1, <2>2 DEF Position, Late, Wiped, Promoted, Program
<1>4. CASE t = <<"writable", "unmark">>
  <2>1. Head(t) = "writable" /\ Tail(t) = <<"unmark">>
    BY <1>4
  <2>2. Tail(t) \in Rest("reactivate")
    BY <2>1 DEF Rest
  <2>. QED
    BY <1>4, <2>1, <2>2 DEF Position, Late, Wiped, Promoted, Program
<1>5. CASE t = <<"unmark">>
  <2>1. Head(t) = "unmark" /\ Tail(t) = <<>>
    BY <1>5
  <2>2. Tail(t) \in Rest("reactivate")
    BY <2>1 DEF Rest
  <2>. QED
    BY <1>5, <2>1, <2>2 DEF Position, Late, Wiped, Promoted, Program
<1>. QED
  BY <1>1, <1>2, <1>3, <1>4, <1>5 DEF Rest
\* Every step of every command is at a known place of its program.
LEMMA Positions ==
  ASSUME NEW kind \in Kind, NEW t \in Rest(kind), t # <<>>
  PROVE  Position(kind, t)
BY ProgramType, Position_Start, Position_Stop, Position_Demote, Position_Return, Position_Apply, Position_Resync, Position_Promote, Position_Reactivate

\* The whole program, no step and the steps a check puts in their place.
LEMMA Ends ==
  /\ \A kind \in Kind : /\ <<>> \in Rest(kind)
                        /\ Program[kind] \in Rest(kind) \ Late /\ Program[kind] # <<>>
  /\ {<<"refuse">>, <<"enforce">>, <<"drop">>} \subseteq Rest("start")
  /\ <<"drop">> \in Rest("apply") /\ <<"drop">> \notin Late /\ <<>> \notin Late
  /\ <<"drop">> # <<>>
<1>1. /\ <<>> \in Rest("start") /\ Program["start"] \in Rest("start")
      /\ Program["start"] \notin Late /\ Program["start"] # <<>>
  BY DEF Rest, Program, Late, Wiped, Promoted
<1>2. /\ <<>> \in Rest("stop") /\ Program["stop"] \in Rest("stop")
      /\ Program["stop"] \notin Late /\ Program["stop"] # <<>>
  BY DEF Rest, Program, Late, Wiped, Promoted
<1>3. /\ <<>> \in Rest("demote") /\ Program["demote"] \in Rest("demote")
      /\ Program["demote"] \notin Late /\ Program["demote"] # <<>>
  BY DEF Rest, Program, Late, Wiped, Promoted
<1>4. /\ <<>> \in Rest("return") /\ Program["return"] \in Rest("return")
      /\ Program["return"] \notin Late /\ Program["return"] # <<>>
  BY DEF Rest, Program, Late, Wiped, Promoted
<1>5. /\ <<>> \in Rest("apply") /\ Program["apply"] \in Rest("apply")
      /\ Program["apply"] \notin Late /\ Program["apply"] # <<>>
  BY DEF Rest, Program, Late, Wiped, Promoted
<1>6. /\ <<>> \in Rest("resync") /\ Program["resync"] \in Rest("resync")
      /\ Program["resync"] \notin Late /\ Program["resync"] # <<>>
  BY DEF Rest, Program, Late, Wiped, Promoted
<1>7. /\ <<>> \in Rest("promote") /\ Program["promote"] \in Rest("promote")
      /\ Program["promote"] \notin Late /\ Program["promote"] # <<>>
  BY DEF Rest, Program, Late, Wiped, Promoted
<1>8. /\ <<>> \in Rest("reactivate") /\ Program["reactivate"] \in Rest("reactivate")
      /\ Program["reactivate"] \notin Late /\ Program["reactivate"] # <<>>
  BY DEF Rest, Program, Late, Wiped, Promoted
<1>9. /\ {<<"refuse">>, <<"enforce">>, <<"drop">>} \subseteq Rest("start")
      /\ <<"drop">> \in Rest("apply") /\ <<"drop">> \notin Late /\ <<>> \notin Late
      /\ <<"drop">> # <<>>
  BY DEF Rest, Late, Wiped, Promoted
<1>. QED
  BY ProgramType, <1>1, <1>2, <1>3, <1>4, <1>5, <1>6, <1>7, <1>8, <1>9

CommandsRun == \A c \in Command : cmd[c].todo \in Rest(cmd[c].kind)
\* Apply, resync and reactivate have the lifecycle lock from their first step
\* on; so have the two guards.
LocksHeld ==
  /\ \A c \in Command : Busy(c) /\ cmd[c].kind \in {"apply", "resync", "reactivate"}
                          /\ cmd[c].todo # Program[cmd[c].kind] => lock = c
  /\ guard # "idle" => lock = Guard
  /\ healer # "idle" => lock = Healer
\* Data that does not come up writable.
Safe == data = "standby" \/ fence
\* A command that runs while the member is replaced was sent for a replica, is
\* not one that only a primary gets, has not promoted it, and comes to its
\* start on safe data.
RunsSafely(c) ==
  /\ cmd[c].replica /\ cmd[c].kind \notin {"start", "demote", "reactivate"}
  /\ cmd[c].kind = "promote" => cmd[c].todo \notin Promoted /\ (cmd[c].todo = <<>> => ~cmd[c].ok)
  /\ cmd[c].kind = "apply" /\ cmd[c].todo = <<"up">> => Safe
  /\ cmd[c].kind = "resync" /\ cmd[c].todo \in Wiped => data = "standby"
CommandsSafe == replaced => \A c \in Command : Busy(c) => RunsSafely(c)
TickersSafe ==
  /\ replaced /\ healer # "idle" => Safe \/ answered = "release" \/ lost
  /\ reporter = "starting" => answered = "release"
\* What keeps the exit guard from starting a replaced primary.
Kept == replaced /\ ~(daemon = "boot" /\ record = "old") =>
          \/ demoted \/ HeldStop \/ data = "standby" \/ role = "replica"
          \/ answered = "release" \/ lost
PrimaryInv == CommandsRun /\ LocksHeld /\ CommandsSafe /\ TickersSafe /\ Kept /\ NoSecondPrimary

\* What a step leaves alone.
LEMMA KeptSame ==
  ASSUME Kept, replaced' => replaced, UNCHANGED <<daemon, record, role, answered, lost>>,
         data' = data \/ data' = "standby", demoted' = demoted \/ demoted', HeldStop => HeldStop'
  PROVE  Kept'
BY DEF Kept
\* What cannot disturb the tickers.
LEMMA TickersSame ==
  ASSUME TickersSafe, replaced' => replaced, UNCHANGED <<healer, reporter, answered, lost>>,
         data' = data \/ data' = "standby", fence' = fence \/ fence' \/ healer = "idle"
  PROVE  TickersSafe'
BY DEF TickersSafe, Safe
\* What brings no engine up.
LEMMA PrimarySame ==
  ASSUME NoSecondPrimary, replaced' => replaced, UNCHANGED <<answered, lost>>,
         engine' # "rw" \/ (engine' = engine /\ starter' = starter)
  PROVE  NoSecondPrimary'
BY DEF NoSecondPrimary
\* The daemon may bring up a safe engine, or one it was told to release.
LEMMA PrimaryUp ==
  ASSUME NoSecondPrimary, UNCHANGED <<replaced, answered, lost>>, ComesUp("daemon"),
         replaced => Safe \/ answered = "release" \/ lost
  PROVE  NoSecondPrimary'
BY DEF NoSecondPrimary, ComesUp, Started, Safe, power

\* A command goes on with the steps t.
Moves(c, t) ==
  /\ \A d \in Command : /\ cmd'[d].kind = cmd[d].kind /\ cmd'[d].busy = cmd[d].busy
                        /\ cmd'[d].replica = cmd[d].replica
                        /\ d # c => cmd'[d].todo = cmd[d].todo /\ cmd'[d].ok = cmd[d].ok
  /\ cmd'[c].todo = t /\ (cmd'[c].ok = cmd[c].ok \/ ~cmd'[c].ok)
\* A step that goes on is a move.
LEMMA MovesGoes ==
  ASSUME CmdOK, NEW c \in Command, NEW t, Goes(c, t)
  PROVE  Moves(c, t)
BY DEF CmdOK, CmdType, Goes, Moves
\* A step that advances is a move.
LEMMA MovesAdvance ==
  ASSUME CmdOK, NEW c \in Command, Advance(c)
  PROVE  Moves(c, Tail(cmd[c].todo))
BY MovesGoes DEF Advance
\* A step that throws is a move.
LEMMA MovesThrows ==
  ASSUME CmdOK, NEW c \in Command, Throws(c)
  PROVE  Moves(c, <<>>) /\ ~cmd'[c].ok
BY DEF CmdOK, CmdType, Throws, Moves
\* A step that still stops the engine is a move.
LEMMA MovesStillStops ==
  ASSUME CmdOK, NEW c \in Command, StillStops(c)
  PROVE  Moves(c, Tail(cmd[c].todo))
BY DEF CmdOK, CmdType, StillStops, Moves

\* Where a command is that takes the step s.
LEMMA At ==
  ASSUME CmdOK, CommandsRun, NEW c \in Command, NEW s, Does(c, s)
  PROVE  /\ Busy(c) /\ Head(cmd[c].todo) = s /\ cmd[c].kind \in Kind
         /\ Position(cmd[c].kind, cmd[c].todo) /\ Tail(cmd[c].todo) \in Rest(cmd[c].kind)
         /\ <<>> \in Rest(cmd[c].kind)
<1>1. cmd[c].kind \in Kind /\ cmd[c].todo \in Rest(cmd[c].kind) /\ cmd[c].todo # <<>>
  BY DEF CmdOK, CmdType, CommandsRun, Does
<1>2. Position(cmd[c].kind, cmd[c].todo)
  BY <1>1, Positions
<1>. QED
  BY <1>1, <1>2, Ends DEF Does, Position

\* A command that has not the lock takes it first, when nobody has it.
LEMMA Runs ==
  ASSUME TypeOK, CommandsRun, LocksHeld, NEW c \in Command, NEW s, Does(c, s),
         NEW t \in Rest(cmd[c].kind), Moves(c, t), UNCHANGED <<guard, healer>>,
         (s # "lock" /\ lock' = lock) \/ (lock = Nobody /\ lock' = c)
  PROVE  CommandsRun' /\ LocksHeld'
<1>1. CommandsRun'
  BY DEF CommandsRun, Moves
<1>2. CASE s # "lock" /\ lock' = lock
  <2>1. cmd[c].kind \in {"apply", "resync", "reactivate"} => cmd[c].todo # Program[cmd[c].kind]
    BY <1>2, At, TypeParts DEF Position
  <2>. QED
    BY <1>1, <1>2, <2>1, At, TypeParts DEF LocksHeld, Moves, Busy
<1>3. CASE lock = Nobody /\ lock' = c
  BY <1>1, <1>3, Holders DEF LocksHeld, Moves, Busy
<1>. QED
  BY <1>2, <1>3

\* The other commands are not disturbed by what a command does to the volume:
\* it takes the fence away only with the lock.
LEMMA StaysSafe ==
  ASSUME TypeOK, LocksHeld, CommandsSafe, NEW c \in Command, NEW t, Moves(c, t),
         replaced' => replaced /\ (data' = data \/ data' = "standby"),
         fence' = fence \/ fence' \/ lock = c,
         replaced' /\ Busy(c) =>
           /\ cmd[c].kind = "promote" => t \notin Promoted /\ (t = <<>> => ~cmd'[c].ok)
           /\ cmd[c].kind = "apply" /\ t = <<"up">> => Safe'
           /\ cmd[c].kind = "resync" /\ t \in Wiped => data' = "standby"
  PROVE  CommandsSafe'
<1>. SUFFICES ASSUME replaced', NEW d \in Command, Busy(d)'
              PROVE  RunsSafely(d)'
  BY DEF CommandsSafe
<1>1. replaced /\ Busy(d) /\ RunsSafely(d)
  BY DEF CommandsSafe, Busy, Moves
<1>2. CASE d = c
  BY <1>1, <1>2 DEF RunsSafely, Moves
<1>3. CASE d # c
  <2>1. cmd[d].kind = "apply" /\ cmd[d].todo = <<"up">> => lock = d
    <3>1. <<"up">> # Program["apply"]
      BY DEF Program
    <3>. QED
      BY <1>1, <3>1 DEF LocksHeld
  <2>2. cmd[d].kind = "apply" /\ cmd[d].todo = <<"up">> => Safe'
    BY <1>1, <1>3, <2>1 DEF RunsSafely, Safe
  <2>. QED
    BY <1>1, <1>3, <2>2 DEF RunsSafely, Moves
<1>. QED
  BY <1>2, <1>3

\* The steps that only look.
LEMMA PrimaryLock ==
  ASSUME TypeOK, PrimaryInv, NEW c \in Command, TakeLock(c) \/ MaybeLock(c)
  PROVE  PrimaryInv'
<1>. USE TypeParts DEF PrimaryInv
<1>. DEFINE t == Tail(cmd[c].todo)
<1>1. PICK s : /\ Does(c, s) /\ s \in {"lock", "locked?"}
               /\ (s # "lock" /\ lock' = lock) \/ (lock = Nobody /\ lock' = c)
  BY DEF TakeLock, MaybeLock
<1>2. Moves(c, t) /\ t \in Rest(cmd[c].kind)
  BY <1>1, At, MovesAdvance DEF TakeLock, MaybeLock
<1>3. CommandsRun' /\ LocksHeld'
  BY <1>1, <1>2, Runs DEF TakeLock, MaybeLock, ticks
<1>4. t \notin Late /\ (cmd[c].kind = "promote" => t # <<>>)
  BY <1>1, At DEF Position
<1>5. CommandsSafe'
  <2>1. UNCHANGED <<data, fence, replaced>>
    BY DEF TakeLock, MaybeLock, member, plane
  <2>2. t \notin Promoted /\ t # <<"up">> /\ t \notin Wiped
    BY <1>4 DEF Late
  <2>. HIDE DEF t
  <2>. QED
    BY <1>2, <1>4, <2>1, <2>2, StaysSafe
<1>6. TickersSafe' /\ Kept' /\ NoSecondPrimary'
  BY TickersSame, KeptSame, PrimarySame DEF TakeLock, MaybeLock, member, power, held, marks, ticks, start,
     plane, HeldStop
<1>. QED
  BY <1>3, <1>5, <1>6

\* Look keeps PrimaryInv.
LEMMA PrimaryLook ==
  ASSUME TypeOK, PrimaryInv, NEW c \in Command, SkipStale(c) \/ CheckStart(c) \/ Recheck(c)
  PROVE  PrimaryInv'
<1>. USE TypeParts DEF PrimaryInv
<1>1. PICK s : Does(c, s) /\ s \in {"stale", "check", "recheck"}
  BY DEF SkipStale, CheckStart, Recheck
<1>2. PICK t \in Rest(cmd[c].kind) : Moves(c, t)
  <2>1. CASE SkipStale(c)
    BY <1>1, <2>1, At, MovesGoes DEF SkipStale
  <2>2. CASE CheckStart(c) \/ Recheck(c)
    <3>1. cmd[c].kind = "start"
      BY <2>2, At DEF CheckStart, Recheck, Position
    <3>. QED
      BY <1>1, <2>2, <3>1, At, Ends, MovesGoes DEF CheckStart, Recheck
  <2>. QED
    BY <2>1, <2>2
<1>3. CommandsRun' /\ LocksHeld'
  BY <1>1, <1>2, Runs DEF SkipStale, CheckStart, Recheck, ticks
<1>4. cmd[c].kind \in {"return", "start"}
  BY <1>1, At DEF Position
<1>5. CommandsSafe'
  BY <1>2, <1>4, StaysSafe DEF SkipStale, CheckStart, Recheck, member, plane
<1>6. TickersSafe' /\ Kept' /\ NoSecondPrimary'
  BY TickersSame, KeptSame, PrimarySame DEF SkipStale, CheckStart, Recheck, member, power, held, marks,
     ticks, start, plane, HeldStop
<1>. QED
  BY <1>3, <1>5, <1>6

\* The check of an apply is what makes its start safe.
LEMMA PrimaryStandbyCheck ==
  ASSUME TypeOK, PrimaryInv, NEW c \in Command, StandbyCheck(c)
  PROVE  PrimaryInv'
<1>. USE TypeParts DEF PrimaryInv
<1>1. cmd[c].kind = "apply" /\ Tail(cmd[c].todo) = <<"up">> /\ Busy(c)
  BY At DEF StandbyCheck, Position
<1>2. PICK t \in Rest(cmd[c].kind) :
        /\ Moves(c, t)
        /\ t = <<"up">> => ~(cmd[c].replica /\ data = "primary" /\ ~fence)
  BY <1>1, At, Ends, MovesGoes DEF StandbyCheck, Late
<1>3. CommandsRun' /\ LocksHeld'
  BY <1>2, Runs DEF StandbyCheck, ticks
<1>4. replaced /\ t = <<"up">> => Safe
  BY <1>1, <1>2 DEF CommandsSafe, RunsSafely, Safe, MemberOK
<1>5. CommandsSafe'
  <2>1. UNCHANGED <<data, fence, replaced>>
    BY DEF StandbyCheck, member, plane
  <2>2. Safe' = Safe
    BY <2>1 DEF Safe
  <2>. QED
    BY <1>1, <1>2, <1>4, <2>1, <2>2, StaysSafe
<1>6. TickersSafe' /\ Kept' /\ NoSecondPrimary'
  BY TickersSame, KeptSame, PrimarySame DEF StandbyCheck, member, power, held, marks, ticks, start, plane,
     HeldStop
<1>. QED
  BY <1>3, <1>5, <1>6

\* The steps that start the engine.
LEMMA PrimaryComposeStart ==
  ASSUME TypeOK, PrimaryInv, NEW c \in Command, ComposeStart(c)
  PROVE  PrimaryInv'
<1>. USE TypeParts DEF PrimaryInv
<1>1. cmd[c].kind \in {"start", "reactivate"} /\ Busy(c) /\ Does(c, "start")
  BY At DEF ComposeStart, Position
<1>2. PICK t \in Rest(cmd[c].kind) : Moves(c, t)
  BY <1>1, At, MovesAdvance, MovesThrows DEF ComposeStart
<1>3. CommandsRun' /\ LocksHeld'
  BY <1>1, <1>2, Runs DEF ComposeStart, ticks
<1>4. ~replaced /\ ~replaced'
  BY <1>1 DEF CommandsSafe, RunsSafely, ComposeStart, plane
<1>5. CommandsSafe' /\ Kept' /\ NoSecondPrimary'
  BY <1>4 DEF CommandsSafe, Kept, NoSecondPrimary
<1>6. TickersSafe'
  BY TickersSame DEF ComposeStart, member, held, marks, ticks, plane
<1>. QED
  BY <1>3, <1>5, <1>6

\* ComposeUp keeps PrimaryInv.
LEMMA PrimaryComposeUp ==
  ASSUME TypeOK, PrimaryInv, NEW c \in Command, ComposeUp(c)
  PROVE  PrimaryInv'
<1>. USE TypeParts DEF PrimaryInv
<1>1. /\ Busy(c) /\ Does(c, "up")
      /\ \/ cmd[c].kind = "apply" /\ cmd[c].todo = <<"up">> /\ Tail(cmd[c].todo) = <<>>
         \/ cmd[c].kind = "resync" /\ cmd[c].todo \in Wiped
  BY At DEF ComposeUp, Position
<1>2. PICK t \in Rest(cmd[c].kind) :
        Moves(c, t) /\ (t = Tail(cmd[c].todo) \/ t = <<>>)
  BY <1>1, At, MovesAdvance, MovesThrows DEF ComposeUp
<1>3. CommandsRun' /\ LocksHeld'
  BY <1>1, <1>2, Runs DEF ComposeUp, ticks
<1>4. replaced => Safe /\ (cmd[c].kind = "resync" => data = "standby")
  BY <1>1 DEF CommandsSafe, RunsSafely, Safe
<1>5. CommandsSafe'
  <2>1. cmd[c].kind = "apply" => t # <<"up">>
    <3>1. <<>> # <<"up">>
      OBVIOUS
    <3>2. cmd[c].kind = "apply" => t = <<>>
      BY <1>1, <1>2
    <3>. QED
      BY <3>1, <3>2
  <2>. QED
    BY <1>1, <1>2, <1>4, <2>1, StaysSafe DEF ComposeUp, member, plane
<1>6. NoSecondPrimary'
  BY <1>4, PrimaryUp, PrimarySame DEF ComposeUp, held, marks, plane, power
<1>7. TickersSafe' /\ Kept'
  BY TickersSame, KeptSame DEF ComposeUp, member, held, marks, ticks, start, plane, HeldStop
<1>. QED
  BY <1>3, <1>5, <1>6, <1>7

\* The steps that stop the engine or fence the member.
Stopping(c) == \/ Enforce(c) \/ Drop(c) \/ ComposeStop(c) \/ Mark(c) \/ Plant(c) \/ ReadOnly(c)
\* The steps that stop the engine keep PrimaryInv.
LEMMA PrimaryStopping ==
  ASSUME TypeOK, PrimaryInv, NEW c \in Command, Stopping(c)
  PROVE  PrimaryInv'
<1>. USE TypeParts DEF PrimaryInv
<1>1. PICK s : Does(c, s) /\ s \in {"refuse", "enforce", "drop", "stop", "mark", "plant", "read-only"}
  BY DEF Stopping, Enforce, Drop, ComposeStop, Mark, Plant, ReadOnly
<1>2. cmd[c].kind \in {"start", "apply", "stop", "demote", "return"}
      /\ (Enforce(c) => cmd[c].kind = "start")
  BY <1>1, At DEF Position, Enforce
<1>3. PICK t \in Rest(cmd[c].kind) : Moves(c, t) /\ (cmd[c].kind = "apply" => t = <<>>)
  <2>1. CASE Enforce(c)
    <3>1. Goes(c, <<"drop">>) \/ Goes(c, <<>>)
      BY <2>1 DEF Enforce
    <3>. QED
      BY <1>1, <1>2, <2>1, <3>1, At, Ends, MovesGoes
  <2>2. CASE Drop(c)
    BY <1>1, <2>2, At, MovesGoes DEF Drop
  <2>3. CASE ComposeStop(c) \/ Mark(c) \/ Plant(c) \/ ReadOnly(c)
    <3>1. cmd[c].kind # "apply"
      BY <2>3, At DEF ComposeStop, Mark, Plant, ReadOnly, Position
    <3>. QED
      BY <1>1, <2>3, <3>1, At, MovesAdvance, MovesThrows, MovesStillStops
         DEF ComposeStop, Mark, Plant, ReadOnly
  <2>. QED
    BY <2>1, <2>2, <2>3 DEF Stopping
<1>4. UNCHANGED <<data, role, held, ticks, start, lock, plane>>
  BY DEF Stopping, Enforce, Drop, ComposeStop, Mark, Plant, ReadOnly, member
<1>5. (fence' = fence \/ fence') /\ (demoted' = demoted \/ demoted')
  BY DEF Stopping, Enforce, Drop, ComposeStop, Mark, Plant, ReadOnly, member
<1>6. engine' # "rw" \/ (engine' = engine /\ starter' = starter)
  BY DEF Stopping, Enforce, Drop, TriesToStop, ComposeStop, Mark, Plant, ReadOnly, GoesDown, Quiet,
     power
<1>7. CommandsRun' /\ LocksHeld'
  BY <1>1, <1>3, <1>4, Runs DEF ticks
<1>8. CommandsSafe'
  <2>1. <<>> # <<"up">>
    OBVIOUS
  <2>. QED
    BY <1>2, <1>3, <1>4, <1>5, <2>1, StaysSafe DEF plane
<1>9. TickersSafe' /\ Kept' /\ NoSecondPrimary'
  BY <1>4, <1>5, <1>6, TickersSame, KeptSame, PrimarySame DEF held, marks, ticks, start, plane, HeldStop
<1>. QED
  BY <1>7, <1>8, <1>9

\* The steps that take a fence away, under the lock or on the primary.
LEMMA PrimaryMaterialize ==
  ASSUME TypeOK, PrimaryInv, NEW c \in Command, Materialize(c)
  PROVE  PrimaryInv'
<1>. USE TypeParts DEF PrimaryInv
<1>. DEFINE t == Tail(cmd[c].todo)
<1>1. /\ Busy(c) /\ Does(c, "materialize") /\ cmd[c].kind \in {"apply", "resync"}
      /\ t \notin Late /\ cmd[c].todo # Program[cmd[c].kind]
  BY At DEF Materialize, Position
<1>2. lock = c /\ healer = "idle"
  BY <1>1, Holders DEF LocksHeld
<1>3. Moves(c, t) /\ t \in Rest(cmd[c].kind)
  BY <1>1, At, MovesAdvance DEF Materialize
<1>4. CommandsRun' /\ LocksHeld'
  BY <1>1, <1>3, Runs DEF Materialize, ticks
<1>5. CommandsSafe'
  BY <1>1, <1>2, <1>3, StaysSafe DEF Materialize, plane, Late
<1>6. TickersSafe' /\ Kept' /\ NoSecondPrimary'
  BY <1>2, TickersSame, KeptSame, PrimarySame DEF Materialize, power, held, marks, ticks, start, plane,
     HeldStop
<1>. QED
  BY <1>4, <1>5, <1>6

\* Unfence keeps PrimaryInv.
LEMMA PrimaryUnfence ==
  ASSUME TypeOK, PrimaryInv, NEW c \in Command, Unfence(c)
  PROVE  PrimaryInv'
<1>. USE TypeParts DEF PrimaryInv
<1>1. /\ Busy(c) /\ Does(c, "unfence")
      /\ \/ cmd[c].kind = "resync" /\ cmd[c].todo \in Wiped
         \/ cmd[c].kind = "promote" /\ cmd[c].todo \in Promoted
         \/ cmd[c].kind = "reactivate"
      /\ cmd[c].kind = "resync" => cmd[c].todo # Program[cmd[c].kind]
  BY At DEF Unfence, Position
<1>2. PICK t \in Rest(cmd[c].kind) : Moves(c, t)
  BY <1>1, At, MovesAdvance, MovesThrows DEF Unfence
<1>3. CommandsRun' /\ LocksHeld'
  BY <1>1, <1>2, Runs DEF Unfence, ticks
<1>4. replaced => cmd[c].kind = "resync" /\ data = "standby" /\ lock = c
  BY <1>1 DEF CommandsSafe, RunsSafely, LocksHeld
<1>5. CommandsSafe'
  <2>1. CASE replaced
    BY <1>2, <1>4, <2>1, StaysSafe DEF Unfence, plane
  <2>2. CASE ~replaced
    BY <2>2 DEF CommandsSafe, Unfence, plane
  <2>. QED
    BY <2>1, <2>2
<1>6. TickersSafe'
  BY <1>4 DEF TickersSafe, Safe, Unfence, held, marks, ticks, plane
<1>7. Kept' /\ NoSecondPrimary'
  BY KeptSame, PrimarySame DEF Unfence, power, held, marks, start, plane, HeldStop
<1>. QED
  BY <1>3, <1>5, <1>6, <1>7

\* Wipe keeps PrimaryInv.
LEMMA PrimaryWipe ==
  ASSUME TypeOK, PrimaryInv, NEW c \in Command, Wipe(c)
  PROVE  PrimaryInv'
<1>. USE TypeParts DEF PrimaryInv
<1>1. Busy(c) /\ Does(c, "wipe") /\ cmd[c].kind = "resync"
  BY At DEF Wipe, Position
<1>2. PICK t \in Rest(cmd[c].kind) : Moves(c, t) /\ (t # <<>> => data' = "standby")
  BY <1>1, At, MovesAdvance, MovesThrows DEF Wipe
<1>3. CommandsRun' /\ LocksHeld'
  BY <1>1, <1>2, Runs DEF Wipe, ticks
<1>4. CommandsSafe'
  <2>1. <<>> \notin Wiped
    BY DEF Wiped
  <2>. QED
    BY <1>1, <1>2, <2>1, StaysSafe DEF Wipe, plane
<1>5. TickersSafe' /\ Kept' /\ NoSecondPrimary'
  BY TickersSame, KeptSame, PrimarySame DEF Wipe, GoesDown, held, marks, ticks, start, plane, HeldStop
<1>. QED
  BY <1>3, <1>4, <1>5

\* A promotion makes the member the primary again.
LEMMA PrimaryPromote ==
  ASSUME TypeOK, PrimaryInv, NEW c \in Command, Promote(c)
  PROVE  PrimaryInv'
<1>. USE TypeParts DEF PrimaryInv
<1>1. Busy(c) /\ Does(c, "promote") /\ cmd[c].kind = "promote"
  BY At DEF Promote, Position
<1>2. PICK t \in Rest(cmd[c].kind) : Moves(c, t) /\ (replaced' => t = <<>> /\ ~cmd'[c].ok)
  BY <1>1, At, MovesAdvance, MovesThrows DEF Promote
<1>3. CommandsRun' /\ LocksHeld'
  BY <1>1, <1>2, Runs DEF Promote, ticks
<1>4. replaced' => UNCHANGED <<engine, data, fence, replaced>>
  BY DEF Promote
<1>5. CommandsSafe'
  <2>1. CASE replaced'
    <3>1. <<>> \notin Promoted
      BY DEF Promoted
    <3>. QED
      BY <1>1, <1>2, <1>4, <2>1, <3>1, StaysSafe
  <2>2. CASE ~replaced'
    BY <2>2 DEF CommandsSafe
  <2>. QED
    BY <2>1, <2>2
<1>6. TickersSafe'
  BY <1>4 DEF TickersSafe, Safe, Promote, held, marks, ticks
<1>7. Kept' /\ NoSecondPrimary'
  BY <1>4 DEF Kept, NoSecondPrimary, HeldStop, Promote, held, marks, start
<1>. QED
  BY <1>3, <1>5, <1>6, <1>7

\* Writable keeps PrimaryInv.
LEMMA PrimaryWritable ==
  ASSUME TypeOK, PrimaryInv, NEW c \in Command, Writable(c)
  PROVE  PrimaryInv'
<1>. USE TypeParts DEF PrimaryInv
<1>1. Busy(c) /\ Does(c, "writable") /\ cmd[c].kind = "reactivate"
  BY At DEF Writable, Position
<1>2. PICK t \in Rest(cmd[c].kind) : Moves(c, t)
  BY <1>1, At, MovesAdvance, MovesThrows DEF Writable
<1>3. CommandsRun' /\ LocksHeld'
  BY <1>1, <1>2, Runs DEF Writable, ticks
<1>4. ~replaced /\ ~replaced'
  BY <1>1 DEF CommandsSafe, RunsSafely, Writable, plane
<1>5. CommandsSafe' /\ Kept' /\ NoSecondPrimary'
  BY <1>4 DEF CommandsSafe, Kept, NoSecondPrimary
<1>6. TickersSafe'
  BY TickersSame DEF Writable, member, held, marks, ticks, plane
<1>. QED
  BY <1>3, <1>5, <1>6

\* The marker of a replaced member goes with its old data only.
LEMMA PrimaryUnmark ==
  ASSUME TypeOK, PrimaryInv, NEW c \in Command, Unmark(c)
  PROVE  PrimaryInv'
<1>. USE TypeParts DEF PrimaryInv
<1>1. /\ Busy(c) /\ Does(c, "unmark") /\ <<>> \in Rest(cmd[c].kind)
      /\ \/ cmd[c].kind = "resync" /\ cmd[c].todo \in Wiped
         \/ cmd[c].kind = "promote" /\ cmd[c].todo \in Promoted
         \/ cmd[c].kind = "reactivate"
  BY At DEF Unmark, Position
<1>2. Moves(c, <<>>)
  BY DEF Unmark, Moves, CmdOK, CmdType
<1>3. CommandsRun' /\ LocksHeld'
  BY <1>1, <1>2, Runs DEF Unmark, ticks
<1>4. replaced => cmd[c].kind = "resync" /\ data = "standby"
  BY <1>1 DEF CommandsSafe, RunsSafely
<1>5. CommandsSafe'
  BY <1>2, <1>4, Ends, StaysSafe DEF Unmark, plane, Late
<1>6. TickersSafe' /\ NoSecondPrimary'
  BY TickersSame, PrimarySame DEF Unmark, power, held, marks, ticks, plane
<1>7. Kept'
  BY <1>4 DEF Kept, Unmark, plane
<1>. QED
  BY <1>3, <1>5, <1>6, <1>7

\* A command that ends, and one that begins.
LEMMA PrimaryEnd ==
  ASSUME TypeOK, PrimaryInv, NEW c \in Command, End(c)
  PROVE  PrimaryInv'
<1>. USE TypeParts DEF PrimaryInv
<1>1. /\ cmd' = [cmd EXCEPT ![c] = IdleCmd] /\ cmd \in [Command -> CmdType]
      /\ IdleCmd.kind = "stop" /\ IdleCmd.todo = <<>> /\ ~IdleCmd.busy
  BY DEF End, CmdOK, IdleCmd
<1>2. CommandsRun'
  BY <1>1, Ends, ProgramType DEF CommandsRun
<1>3. LocksHeld'
  <2>1. lock' = IF lock = c THEN Nobody ELSE lock
    BY DEF End
  <2>2. UNCHANGED <<guard, healer>>
    BY DEF End, ticks
  <2>. QED
    BY <1>1, <2>1, <2>2, Holders DEF LocksHeld, Busy
<1>4. UNCHANGED <<data, fence, demoted, engine, starter, daemon, record, replaced, healer, reporter, lost>>
  BY DEF End, power, start, plane, ticks
<1>5. Safe' = Safe
  BY <1>4 DEF Safe
<1>6. CommandsSafe'
  <2>. SUFFICES ASSUME replaced', NEW d \in Command, Busy(d)' PROVE RunsSafely(d)'
    BY DEF CommandsSafe
  <2>1. d # c /\ cmd'[d] = cmd[d]
    BY <1>1 DEF Busy
  <2>2. RunsSafely(d)
    BY <1>4, <2>1 DEF CommandsSafe, Busy
  <2>. QED
    BY <1>4, <1>5, <2>1, <2>2 DEF RunsSafely
<1>7. answered = "release" => answered' = "release"
  BY DEF End, Answered
<1>8. TickersSafe' /\ NoSecondPrimary'
  BY <1>4, <1>5, <1>7 DEF TickersSafe, NoSecondPrimary
<1>9. Kept'
  <2>. SUFFICES ASSUME replaced PROVE Kept'
    BY <1>4 DEF Kept
  <2>1. RunsSafely(c) /\ cmd[c].kind \in Kind /\ cmd[c].todo = <<>>
    BY DEF End, CommandsSafe, CmdOK, CmdType
  <2>2. CASE cmd[c].ok /\ ~Stops(cmd[c].kind)
    <3>1. cmd[c].kind \in {"apply", "resync"} /\ cmd[c].replica
      BY <2>1, <2>2, ProgramType DEF RunsSafely, Stops
    <3>2. role' = "replica"
      BY <2>2, <3>1 DEF End
    <3>. QED
      BY <3>2 DEF Kept
  <2>3. CASE ~(cmd[c].ok /\ ~Stops(cmd[c].kind))
    <3>1. role' = role
      <4>1. cmd[c].ok => cmd[c].kind \in {"stop", "demote", "return"}
        BY <2>3 DEF Stops
      <4>. QED
        BY <4>1 DEF End
    <3>2. HeldStop => HeldStop'
      BY <2>3 DEF End, EndMarker, HeldStop, MarkerOf
    <3>. QED
      BY <1>4, <1>7, <3>1, <3>2 DEF Kept
  <2>. QED
    BY <2>2, <2>3
<1>. QED
  BY <1>2, <1>3, <1>6, <1>8, <1>9

\* Accept keeps PrimaryInv.
LEMMA PrimaryAccept ==
  ASSUME TypeOK, PrimaryInv, NEW c \in Command, NEW kind \in Kind, Accept(c, kind),
         replaced => kind \notin {"start", "demote", "reactivate"}
  PROVE  PrimaryInv'
<1>. USE TypeParts DEF PrimaryInv
<1>. DEFINE new == [IdleCmd EXCEPT !.kind = kind, !.todo = Program[kind], !.ok = TRUE,
                                   !.busy = TRUE, !.replica = replaced]
<1>1. new.kind = kind /\ new.todo = Program[kind] /\ new.replica = replaced
  BY DEF IdleCmd
<1>2. cmd' = [cmd EXCEPT ![c] = new] /\ cmd \in [Command -> CmdType]
  BY DEF Accept, CmdOK
<1>. HIDE DEF new
<1>3. CommandsRun'
  BY <1>1, <1>2, Ends DEF CommandsRun
<1>4. LocksHeld'
  <2>1. UNCHANGED <<lock, guard, healer>>
    BY DEF Accept, ticks
  <2>. QED
    BY <1>1, <1>2, <2>1 DEF LocksHeld, Busy
<1>5. UNCHANGED <<data, fence, replaced>>
  BY DEF Accept, member
<1>6. CommandsSafe'
  <2>. SUFFICES ASSUME replaced', NEW d \in Command, Busy(d)' PROVE RunsSafely(d)'
    BY DEF CommandsSafe
  <2>1. Safe' = Safe
    BY <1>5 DEF Safe
  <2>2. CASE d = c
    <3>1. Program[kind] \notin Late /\ Program[kind] # <<>>
      BY Ends
    <3>2. cmd'[d] = new
      BY <1>2, <2>2
    <3>. QED
      BY <1>1, <1>5, <3>1, <3>2 DEF RunsSafely, Late
  <2>3. CASE d # c
    <3>1. cmd'[d] = cmd[d]
      BY <1>2, <2>3
    <3>2. RunsSafely(d)
      BY <1>5, <3>1 DEF CommandsSafe, Busy
    <3>. QED
      BY <1>5, <2>1, <3>1, <3>2 DEF RunsSafely
  <2>. QED
    BY <2>2, <2>3
<1>7. HeldStop => HeldStop'
  BY DEF Accept, BeginMarker, HeldStop
<1>8. TickersSafe' /\ Kept' /\ NoSecondPrimary'
  BY <1>7, TickersSame, KeptSame, PrimarySame DEF Accept, member, power, ticks, start
<1>. QED
  BY <1>3, <1>4, <1>6, <1>8

\* A step that leaves the commands and the lock alone, and takes nothing away.
LEMMA PrimaryOther ==
  ASSUME TypeOK, PrimaryInv, UNCHANGED <<cmd, lock, guard, healer, reporter, data, fence, replaced>>
  PROVE  CommandsRun' /\ LocksHeld' /\ CommandsSafe' /\ (UNCHANGED <<answered, lost>> => TickersSafe')
<1>. USE DEF PrimaryInv
<1>1. CommandsRun' /\ LocksHeld'
  BY DEF CommandsRun, LocksHeld, Busy
<1>2. Safe' = Safe
  BY DEF Safe
<1>3. CommandsSafe' /\ (UNCHANGED <<answered, lost>> => TickersSafe')
  BY <1>2 DEF CommandsSafe, RunsSafely, Busy, TickersSafe
<1>. QED
  BY <1>1, <1>3

\* A ticker that takes the lock, keeps it or gives it back.
LEMMA TickerLocks ==
  ASSUME TypeOK, LocksHeld, UNCHANGED cmd,
         \/ guard # "idle" /\ lock' = lock /\ UNCHANGED healer
         \/ guard # "idle" /\ lock' = Nobody /\ guard' = "idle" /\ UNCHANGED healer
         \/ lock = Nobody /\ lock' = Guard /\ UNCHANGED healer
         \/ healer # "idle" /\ lock' = lock /\ UNCHANGED guard
         \/ healer # "idle" /\ lock' = Nobody /\ healer' = "idle" /\ UNCHANGED guard
         \/ lock = Nobody /\ lock' = Healer /\ UNCHANGED guard
  PROVE  LocksHeld'
<1>1. \A c \in Command : c # Nobody /\ c # Guard /\ c # Healer
  BY Holders
<1>. QED
  BY <1>1, Holders DEF LocksHeld, Busy

\* Taking the volume as it is, or fencing it, keeps the commands safe.
LEMMA TickerSafe ==
  ASSUME CommandsRun, CommandsSafe, UNCHANGED <<cmd, data, replaced>>, fence' = fence \/ fence'
  PROVE  CommandsRun' /\ CommandsSafe'
<1>1. Safe => Safe'
  BY DEF Safe
<1>. QED
  BY <1>1 DEF CommandsRun, CommandsSafe, RunsSafely, Busy

\* Guard keeps PrimaryInv.
LEMMA PrimaryGuard ==
  ASSUME TypeOK, PrimaryInv, GuardTick
  PROVE  PrimaryInv'
<1>. USE TypeParts DEF PrimaryInv
<1>0. fence' = fence \/ fence'
  <2>1. CASE GuardCheck
    <3>1. fence' = fence \/ \E planted \in BOOLEAN : fence' = (fence \/ planted)
      BY <2>1 DEF GuardCheck
    <3>. QED
      BY <3>1, TypeGuard DEF MemberOK
  <2>2. CASE GuardLock \/ GuardStop
    BY <2>2 DEF GuardLock, GuardStop, member
  <2>. QED
    BY <2>1, <2>2 DEF GuardTick
<1>1. UNCHANGED <<cmd, data, demoted, role, replaced, healer, reporter, daemon, record, answered, lost>>
  BY DEF GuardTick, GuardLock, GuardCheck, GuardStop, commandsToo, member, held, marks, start, plane
<1>2. LocksHeld'
  BY <1>1, TickerLocks DEF GuardTick, GuardLock, GuardCheck, GuardStop
<1>3. CommandsRun' /\ CommandsSafe' /\ TickersSafe'
  BY <1>0, <1>1, TickerSafe, TickersSame
<1>4. HeldStop => HeldStop'
  BY DEF GuardTick, GuardLock, GuardCheck, GuardStop, HeldStop, MarkerOf, held, marks
<1>5. engine' # "rw" \/ (engine' = engine /\ starter' = starter)
  BY DEF GuardTick, GuardLock, GuardCheck, GuardStop, GoesDown, Quiet, power
<1>. QED
  BY <1>1, <1>2, <1>3, <1>4, <1>5, KeptSame, PrimarySame

\* The exit guard starts a replaced member only on safe data: what keeps the
\* member, it looks at; and the fence stays while it has the lock.
LEMMA PrimaryHealer ==
  ASSUME TypeOK, PrimaryInv, HealerTick
  PROVE  PrimaryInv'
<1>. USE TypeParts DEF PrimaryInv
<1>1. UNCHANGED <<cmd, member, held, replaced, guard, reporter, daemon, record>>
  BY DEF HealerTick, HealerCheck, HealerRecheck, HealerStart, commandsToo, start, plane
<1>2. LocksHeld'
  BY <1>1, TickerLocks DEF HealerTick, HealerCheck, HealerRecheck, HealerStart, HealerDone
<1>3. CommandsRun' /\ CommandsSafe'
  BY <1>1, TickerSafe DEF member
<1>4. Kept'
  BY <1>1, KeptSame DEF member, held, marks, HeldStop
<1>5. CASE HealerCheck
  <2>1. replaced => Safe \/ answered = "release" \/ lost
    BY <1>5 DEF Kept, HealerCheck, MeantToStayStopped, StandbyAllowsStart, HeldStop, Safe, MemberOK
  <2>2. TickersSafe'
    BY <1>1, <2>1 DEF TickersSafe, Safe, member, held, marks
  <2>. QED
    BY <1>1, <1>2, <1>3, <1>4, <1>5, <2>2, PrimarySame DEF HealerCheck, power, held, marks
<1>6. CASE HealerRecheck \/ HealerStart
  <2>1. healer # "idle"
    BY <1>6 DEF HealerRecheck, HealerStart
  <2>2. replaced => Safe \/ answered = "release" \/ lost
    BY <2>1 DEF TickersSafe
  <2>3. TickersSafe'
    BY <1>1, <2>2 DEF TickersSafe, Safe, member, held, marks
  <2>4. NoSecondPrimary'
    BY <1>1, <1>6, <2>2, PrimaryUp, PrimarySame DEF HealerRecheck, HealerStart, power, held, marks
  <2>. QED
    BY <1>2, <1>3, <1>4, <2>3, <2>4
<1>. QED
  BY <1>5, <1>6 DEF HealerTick

\* Retry keeps PrimaryInv.
LEMMA PrimaryRetry ==
  ASSUME TypeOK, PrimaryInv, RetryTick
  PROVE  PrimaryInv'
<1>. USE TypeParts DEF PrimaryInv
<1>1. UNCHANGED <<work, member, marker, lost, answered, plane, guard, healer, reporter, start>>
  BY DEF RetryTick, RetryList, RetryStop, marks
<1>2. engine' # "rw" \/ (engine' = engine /\ starter' = starter)
  BY DEF RetryTick, RetryList, RetryStop, GoesDown, power
<1>. QED
  BY <1>1, <1>2, PrimaryOther, KeptSame, PrimarySame DEF work, member, plane, start, HeldStop

\* The reporter starts a member only once it has released it.
LEMMA PrimaryReporter ==
  ASSUME TypeOK, PrimaryInv, ReporterTick
  PROVE  PrimaryInv'
<1>. USE TypeParts DEF PrimaryInv
<1>1. UNCHANGED <<cmd, lock, member, guard, healer, daemon, record, replaced>>
  BY DEF ReporterTick, ReporterList, Report, Release, ReleaseStart, work, start, plane
<1>2. CommandsRun' /\ CommandsSafe'
  BY <1>1, TickerSafe DEF member
<1>3. LocksHeld'
  BY <1>1 DEF LocksHeld, Busy
<1>4. CASE Release
  <2>1. (reporter' = "starting" => answered' = "release") /\ (answered = "release" => answered' = "release")
        /\ (marker' = marker \/ answered' = "release") /\ UNCHANGED <<power, lost>>
    BY <1>4 DEF Release
  <2>2. TickersSafe' /\ Kept'
    BY <1>1, <2>1 DEF TickersSafe, Kept, Safe, HeldStop, member
  <2>3. NoSecondPrimary'
    BY <1>1, <2>1 DEF NoSecondPrimary, power
  <2>. QED
    BY <1>2, <1>3, <2>2, <2>3
<1>5. CASE ReporterList \/ Report \/ ReleaseStart
  <2>1. UNCHANGED <<marker, answered, lost>>
    BY <1>5 DEF ReporterList, Report, ReleaseStart, held, marks
  <2>2. reporter' # "starting"
    BY <1>5 DEF ReporterList, Report, ReleaseStart, HoldReport, HeldOK
  <2>3. TickersSafe' /\ Kept'
    BY <1>1, <2>1, <2>2, KeptSame DEF TickersSafe, Safe, HeldStop, member
  <2>4. NoSecondPrimary'
    <3>1. CASE ReleaseStart
      BY <1>1, <2>1, <3>1, PrimaryUp, PrimarySame DEF ReleaseStart, TickersSafe, power
    <3>2. CASE ReporterList \/ Report
      <4>1. engine' # "rw" \/ (engine' = engine /\ starter' = starter)
        BY <3>2 DEF ReporterList, Report, GoesDown, power
      <4>. QED
        BY <1>1, <2>1, <4>1, PrimarySame
    <3>. QED
      BY <1>5, <3>1, <3>2
  <2>. QED
    BY <1>2, <1>3, <2>3, <2>4
<1>. QED
  BY <1>4, <1>5 DEF ReporterTick

\* A boot that needs no hold is that of a replica, or one already dealt with.
LEMMA PrimaryBoot ==
  ASSUME TypeOK, PrimaryInv, Boot \/ SettleOver
  PROVE  PrimaryInv'
<1>. USE TypeParts DEF PrimaryInv
<1>1. UNCHANGED <<work, member, plane, ticks>>
  BY DEF Boot, BootCheck, BootFile, BootStop, Persist, SettleOver
<1>2. engine' # "rw" \/ (engine' = engine /\ starter' = starter)
  BY DEF Boot, BootCheck, BootFile, BootStop, Persist, SettleOver, GoesDown, power
<1>3. (answered = "release" => answered' = "release") /\ lost' = lost
  BY DEF Boot, BootCheck, BootFile, BootStop, Persist, SettleOver, Answered, held, marks
<1>4. NoSecondPrimary'
  BY <1>1, <1>2, <1>3 DEF NoSecondPrimary, plane
<1>5. CommandsRun' /\ LocksHeld' /\ CommandsSafe'
  BY <1>1, PrimaryOther DEF work, member, plane, ticks
<1>6. TickersSafe'
  BY <1>1, <1>3 DEF TickersSafe, Safe, member, plane, ticks
<1>7. Kept'
  <2>1. CASE BootCheck
    BY <1>1, <1>3, <2>1 DEF BootCheck, NeedsHold, Starts, Kept, HeldStop, MarkerOf, MemberOK, member, plane
  <2>2. CASE BootFile \/ BootStop \/ Persist \/ SettleOver
    <3>1. daemon' # "boot" => daemon # "boot"
      BY <2>2 DEF BootFile, BootStop, Persist, SettleOver, Starts
    <3>2. daemon' = "boot" => daemon = "boot" /\ record' = record
      BY <2>2 DEF BootFile, BootStop, Persist, SettleOver, Starts
    <3>3. UNCHANGED marker
      BY <2>2 DEF BootFile, BootStop, Persist, SettleOver, held, marks
    <3>. QED
      BY <1>1, <1>3, <3>1, <3>2, <3>3 DEF Kept, HeldStop, member, plane
  <2>. QED
    BY <2>1, <2>2 DEF Boot
<1>. QED
  BY <1>4, <1>5, <1>6, <1>7

\* A process that dies takes its commands and its tickers with it.
LEMMA PrimaryLost ==
  ASSUME TypeOK, PrimaryInv, HostLost \/ DaemonDies
  PROVE  PrimaryInv'
<1>. USE TypeParts DEF PrimaryInv
<1>1. Restarts /\ UNCHANGED member
  BY DEF HostLost, DaemonDies
<1>2. \A c \in Command : cmd'[c] = IdleCmd
  BY <1>1 DEF Restarts
<1>3. ~IdleCmd.busy /\ IdleCmd.todo \in Rest(IdleCmd.kind)
  BY Ends, ProgramType DEF IdleCmd
<1>4. CommandsRun' /\ CommandsSafe' /\ LocksHeld' /\ TickersSafe'
  BY <1>1, <1>2, <1>3 DEF CommandsRun, CommandsSafe, LocksHeld, TickersSafe, Busy, Restarts
<1>5. HeldStop /\ disk = "held" => HeldStop'
  BY <1>1 DEF Restarts, HeldStop, MarkerOf
<1>6. CASE HostLost
  BY <1>4, <1>6 DEF HostLost, Restarts, Kept, NoSecondPrimary
<1>7. CASE DaemonDies
  <2>1. /\ UNCHANGED <<power, replaced, answered>> /\ (record' # "old" => record = "current")
        /\ (lost => lost') /\ (record = "current" /\ HeldStop /\ disk # "held" => lost')
    BY <1>7 DEF DaemonDies, StartOK
  <2>2. NoSecondPrimary'
    BY <2>1 DEF NoSecondPrimary, power
  <2>3. Kept'
    BY <1>1, <1>5, <2>1 DEF Kept, Restarts, member
  <2>. QED
    BY <1>4, <2>2, <2>3
<1>. QED
  BY <1>6, <1>7

\* What happens outside the daemon keeps PrimaryInv.
LEMMA PrimaryOutside ==
  ASSUME TypeOK, PrimaryInv,
         DockerStarts \/ HandStarts \/ Attach \/ Told \/ Detach \/ Switchover \/ Expire
  PROVE  PrimaryInv'
<1>. USE TypeParts DEF PrimaryInv
<1>1. UNCHANGED <<work, member, ticks, start, answered, lost>>
  BY DEF DockerStarts, HandStarts, Attach, Told, Detach, Switchover, Expire, held, marks
<1>2. CASE Switchover
  <2>1. demoted /\ fence /\ engine = "down" /\ UNCHANGED power /\ \A c \in Command : ~Busy(c)
    BY <1>2 DEF Switchover
  <2>2. CommandsRun' /\ LocksHeld'
    BY <1>1 DEF CommandsRun, LocksHeld, Busy, work, ticks
  <2>. QED
    BY <1>1, <2>1, <2>2 DEF CommandsSafe, TickersSafe, Kept, NoSecondPrimary, Safe, Busy, member,
       work, ticks, power
<1>3. CASE DockerStarts \/ HandStarts \/ Attach \/ Told \/ Detach \/ Expire
  <2>1. UNCHANGED replaced /\ (HeldStop => HeldStop')
    BY <1>3 DEF DockerStarts, HandStarts, Attach, Told, Detach, Expire, plane, held, marks, HeldStop, MarkerOf
  <2>2. CommandsRun' /\ LocksHeld' /\ CommandsSafe' /\ TickersSafe'
    BY <1>1, <2>1, PrimaryOther DEF work, member, ticks
  <2>3. Kept'
    BY <1>1, <2>1, KeptSame DEF member, start
  <2>4. NoSecondPrimary'
    <3>1. CASE DockerStarts \/ HandStarts
      BY <1>1, <2>1, <3>1 DEF DockerStarts, HandStarts, ComesUp, NoSecondPrimary
    <3>2. CASE Attach \/ Told \/ Detach \/ Expire
      BY <1>1, <2>1, <3>2, PrimarySame DEF Attach, Told, Detach, Expire, power
    <3>. QED
      BY <1>3, <3>1, <3>2
  <2>. QED
    BY <2>2, <2>3, <2>4
<1>. QED
  BY <1>2, <1>3

\* A member the control plane has replaced takes writes only when Docker's
\* restart policy or somebody's hands started it, when an older control plane
\* let it go, or when a restarted daemon lost the held marker it could not
\* write: apart from these no command and no guard of the daemon brings up a
\* second primary, however many commands run at once and whatever fails between
\* their steps, as long as no start is sent to a replaced member.
THEOREM NoSecondPrimaryComesUp ==
  ASSUME ~StartsReplaced
  PROVE  Spec => []NoSecondPrimary
<1>1. Init => PrimaryInv
  <2>. SUFFICES ASSUME Init PROVE PrimaryInv
    OBVIOUS
  <2>1. \A c \in Command : cmd[c] = IdleCmd
    BY DEF Init
  <2>2. ~IdleCmd.busy /\ IdleCmd.todo \in Rest(IdleCmd.kind)
    BY Ends, ProgramType DEF IdleCmd
  <2>. QED
    BY <2>1, <2>2 DEF Init, PrimaryInv, CommandsRun, CommandsSafe, LocksHeld, TickersSafe, Kept,
       NoSecondPrimary, Busy
<1>2. TypeOK /\ PrimaryInv /\ [Next]_vars => PrimaryInv'
  <2>. SUFFICES ASSUME TypeOK, PrimaryInv, [Next]_vars PROVE PrimaryInv'
    OBVIOUS
  <2>1. ASSUME NEW c \in Command, CommandStep(c) PROVE PrimaryInv'
    BY <2>1, PrimaryLock, PrimaryLook, PrimaryStandbyCheck, PrimaryComposeStart, PrimaryComposeUp,
       PrimaryStopping, PrimaryMaterialize, PrimaryUnfence, PrimaryWipe, PrimaryPromote,
       PrimaryWritable, PrimaryUnmark, PrimaryEnd DEF CommandStep, Stopping
  <2>2. ASSUME NEW c \in Command, Answer(c) PROVE PrimaryInv'
    BY <2>2, PrimaryAccept, ProgramType DEF Answer
  <2>3. ASSUME NEW c \in Command, NEW kind \in Kind, Begin(c, kind) PROVE PrimaryInv'
    <3>1. replaced => kind \notin {"start", "demote", "reactivate"}
      BY <2>3 DEF Begin, Sends
    <3>. QED
      BY <2>3, <3>1, PrimaryAccept DEF Begin
  <2>4. CASE UNCHANGED vars
    <3>1. UNCHANGED <<cmd, lock, guard, healer, reporter, member, power, marker, lost, answered, replaced,
                      daemon, record>>
      BY <2>4 DEF vars, work, ticks, held, marks, plane, start
    <3>. QED
      BY <3>1, PrimaryOther, KeptSame, PrimarySame DEF PrimaryInv, member, power, HeldStop
  <2>. QED
    BY <2>1, <2>2, <2>3, <2>4, PrimaryGuard, PrimaryHealer, PrimaryRetry, PrimaryReporter,
       PrimaryBoot, PrimaryLost, PrimaryOutside DEF Next
<1>3. PrimaryInv => NoSecondPrimary
  BY DEF PrimaryInv
<1>. QED
  BY <1>1, <1>2, <1>3, TypeCorrect, PTL DEF Spec
=============================================================================
