---------------------------- MODULE ManagedFence ----------------------------
(***************************************************************************)
(* What keeps a replaced primary from serving: the demoted marker and the  *)
(* on-disk fence (src/managed/demoted-marker.ts, demoted-fence-volume.ts,  *)
(* fenced-member-enforce.ts), the guard that stops a fenced member (demoted-*)
(* guard.ts), the hold after a host boot (host-boot.ts, boot-hold.ts,      *)
(* src/instance/boot-hold-reporter.ts, src/entry/run.ts), the guard that   *)
(* starts an engine that should run (engine-exit-guard.ts) and the         *)
(* commands that move a member between these states (lifecycle.ts,         *)
(* promote.ts, apply.ts), with the lifecycle lock some of them take        *)
(* (target-lock.ts).                                                       *)
(*                                                                         *)
(* One member of one cluster with peers, on one host.  A command is the    *)
(* list of the awaited steps it has still to take; everything else may     *)
(* come between two of them.  What the control plane knows, and which      *)
(* commands it sends then, is external.                                    *)
(***************************************************************************)
EXTENDS Naturals, FiniteSets, Sequences

CONSTANTS
  Command,       \* commands under way at once
  Guard, Healer, \* the demoted-member guard and the exit guard, as lock holders
  Nobody,
  StartsReplaced, \* the control plane also sends a start to a replaced member
  MaxCommands,   \* bound: commands begun
  MaxBoots,      \* bound: host losses
  MaxMishaps,    \* bound: daemon deaths, engines started by hand, lost
                 \* sessions, Docker calls and file writes that fail
  MaxEvents      \* bound: all of these together

ASSUME FenceAssumption ==
  /\ IsFiniteSet(Command) /\ Cardinality({Guard, Healer, Nobody}) = 3
  /\ Command \cap {Guard, Healer, Nobody} = {}
  /\ StartsReplaced \in BOOLEAN /\ {MaxCommands, MaxBoots, MaxMishaps, MaxEvents} \subseteq Nat

VARIABLES
  engine,     \* the engine: down, answering reads only, or writable
  starter,    \* observer: who brought it up, if it is up
  docker,     \* Docker's restart policy has yet to start it after a boot
  data,       \* what the volume holds: a primary's data or a standby's
  fence,      \* standby.signal, or the read-only block in my.cnf
  demoted,    \* demoted.json
  role,       \* the role in ha-member.json
  marker,     \* the intent marker of the cluster, as the process knows it
  disk,       \* the kind of the marker in its file
  lost,       \* observer: a restart of the daemon on this boot lost a held
              \* marker, whose file could not be written
  hold,       \* boot-hold.json: none, unstopped, stopped
  unsettled,  \* unsettledHolds
  record,     \* host-boot.json: of an earlier boot; to be persisted; of this one
  daemon,     \* off; the steps of the start; up
  settling,   \* the minute in which active holds are stopped again
  lock,       \* the lifecycle lock
  cmd,        \* per command: what it is and the steps it has left
  guard, healer, retry, reporter, \* the four tickers
  support,    \* the attached control plane: detached, not told yet, yes, no
  replaced,   \* external: the control plane has another primary
  asked,      \* external: a boot-hold report the control plane has not answered
  answered,   \* observer: what ended the hold of the last boot, if anything did
  begun, boots, mishaps \* bounds

member == <<data, fence, demoted, role>>
power  == <<engine, starter, docker>>
marks  == <<marker, disk, lost>>
held   == <<marks, hold, unsettled, answered>>
ticks  == <<guard, healer, retry, reporter>>
start  == <<record, daemon, settling>>
work   == <<lock, cmd, begun>>
plane  == <<support, replaced, asked>>
vars   == <<member, power, held, ticks, start, work, plane, boots, mishaps>>

-----------------------------------------------------------------------------
Up == {"ro", "rw"}
\* The awaited steps of each command, in order.
Program == [
  start      |-> <<"check", "start", "recheck">>,
  stop       |-> <<"stop">>,
  demote     |-> <<"mark", "plant", "read-only", "stop">>,
  return     |-> <<"lock", "stale", "mark", "plant", "read-only", "stop">>,
  apply      |-> <<"lock", "materialize", "standby?", "up">>,
  resync     |-> <<"lock", "materialize", "wipe", "up", "unfence", "unmark">>,
  promote    |-> <<"locked?", "promote", "unfence", "unmark">>,
  reactivate |-> <<"lock", "start", "unfence", "writable", "unmark">>]
Kind == DOMAIN Program
Step == {"check", "start", "recheck", "stop", "lock", "stale", "mark", "plant", "read-only",
         "materialize", "standby?", "wipe", "up", "locked?", "promote", "unfence", "writable",
         "unmark", "refuse", "enforce", "drop"}
Stops(kind) == kind \in {"stop", "demote", "return"}

\* A marker: of a command that is no stop (running or for a while after), of a
\* stop that has not succeeded, or held.
MarkerKind == {"none", "other", "stop", "held"}
Marker == [kind : MarkerKind, by : Command \cup {Nobody}]
MarkerOf(kind) == [kind |-> kind, by |-> Nobody]
HeldStop == marker.kind = "held"
Answered == IF answered = "no" THEN "command" ELSE answered

IdleCmd == [kind |-> "stop", todo |-> <<>>, ok |-> FALSE, busy |-> FALSE,
            replica |-> FALSE, stale |-> FALSE]

TypeOK ==
  /\ engine \in Up \cup {"down"} /\ docker \in BOOLEAN
  /\ starter \in {"daemon", "docker", "hand"}
  /\ data \in {"primary", "standby"} /\ fence \in BOOLEAN /\ demoted \in BOOLEAN
  /\ role \in {"primary", "replica"}
  /\ marker \in Marker /\ disk \in MarkerKind /\ lost \in BOOLEAN
  /\ hold \in {"none", "unstopped", "stopped"}
  /\ unsettled \in BOOLEAN /\ answered \in {"no", "command", "release"}
  /\ record \in {"old", "due", "current"}
  /\ daemon \in {"off", "boot", "marked", "filed", "up"} /\ settling \in BOOLEAN
  /\ lock \in Command \cup {Guard, Healer, Nobody}
  /\ cmd \in [Command -> [kind : Kind, todo : Seq(Step), ok : BOOLEAN, busy : BOOLEAN,
                          replica : BOOLEAN, stale : BOOLEAN]]
  /\ guard \in {"idle", "locked", "writable"} /\ healer \in {"idle", "probed", "go"}
  /\ retry \in {"idle", "unstopped", "again", "unsettled"}
  /\ reporter \in {"idle", "unstopped", "stopped", "release", "starting"}
  /\ support \in {"detached", "unknown", "yes", "no"}
  /\ replaced \in BOOLEAN /\ asked \in BOOLEAN
  /\ begun \in 0 .. MaxCommands /\ boots \in 0 .. MaxBoots /\ mishaps \in 0 .. MaxMishaps

Init ==
  /\ engine = "rw" /\ starter = "daemon" /\ docker = FALSE
  /\ data = "primary" /\ fence = FALSE /\ demoted = FALSE /\ role = "primary"
  /\ marker = MarkerOf("none") /\ disk = "none" /\ lost = FALSE
  /\ hold = "none" /\ unsettled = FALSE /\ answered = "command"
  /\ record = "current" /\ daemon = "up" /\ settling = FALSE
  /\ lock = Nobody /\ cmd = [c \in Command |-> IdleCmd]
  /\ guard = "idle" /\ healer = "idle" /\ retry = "idle" /\ reporter = "idle"
  /\ support = "yes" /\ replaced = FALSE /\ asked = FALSE
  /\ begun = 0 /\ boots = 0 /\ mishaps = 0

Room == begun + boots + mishaps < MaxEvents
Mishap == mishaps < MaxMishaps /\ Room /\ mishaps' = mishaps + 1
NoMishap == mishaps' = mishaps

\* recordManagedIntent, clearManagedIntent: the memory is set, and the file
\* follows; that it could not be written is only logged.
Files(kind) == \/ disk' = kind /\ NoMishap
               \/ disk' = disk /\ Mishap
NothingFiled == disk' = disk /\ NoMishap

\* An engine started on this volume takes writes unless the volume is a
\* standby's or fenced.
Started == IF data = "primary" /\ ~fence THEN "rw" ELSE "ro"
\* compose start leaves an engine that is up as it is.
ComesUp(who) ==
  IF engine = "down"
  THEN engine' = Started /\ starter' = who /\ docker' = FALSE
  ELSE UNCHANGED power
\* compose stop, which may fail; Docker's boot-time start may still follow it.
GoesDown ==
  /\ engine' = "down" /\ starter' = "daemon" /\ docker' = docker
\* compose stop where the caller only logs a failure.
TriesToStop == \/ GoesDown /\ NoMishap
               \/ UNCHANGED power /\ Mishap
\* SQL read-only on an engine that runs.
Quiet == IF engine = "rw" THEN "ro" ELSE engine
-----------------------------------------------------------------------------
(***************************************************************************)
(* Commands.                                                               *)
(***************************************************************************)
Busy(c) == cmd[c].busy
Does(c, step) == Busy(c) /\ cmd[c].todo # <<>> /\ Head(cmd[c].todo) = step
\* The command goes on with these steps.
Goes(c, todo) == cmd' = [cmd EXCEPT ![c].todo = todo]
Advance(c) == Goes(c, Tail(cmd[c].todo))
\* It throws: no further step, no success.
Throws(c) == cmd' = [cmd EXCEPT ![c].todo = <<>>, ![c].ok = FALSE]

\* Which command the control plane sends when: external.
Sends(kind) ==
  CASE kind = "start" -> replaced => StartsReplaced
    [] kind = "demote" -> ~replaced /\ ~demoted
    [] kind = "return" -> replaced /\ data = "primary"
    [] kind = "resync" -> replaced
    [] kind = "promote" -> replaced /\ data = "standby"
    [] kind = "reactivate" -> ~replaced /\ demoted
    [] OTHER -> TRUE

\* beginManagedIntent: a held marker stays.
AlwaysOwnMarker(c, kind) == [kind |-> IF Stops(kind) THEN "stop" ELSE "other", by |-> c]
BeginMarker(c, kind) ==
  IF HeldStop THEN marker ELSE [kind |-> IF Stops(kind) THEN "stop" ELSE "other", by |-> c]
Accept(c, kind) ==
  /\ daemon = "up" /\ support \in {"yes", "no"} /\ ~Busy(c)
  /\ cmd' = [cmd EXCEPT ![c] = [IdleCmd EXCEPT !.kind = kind, !.todo = Program[kind],
                                !.ok = TRUE, !.busy = TRUE, !.replica = replaced]]
  /\ marker' = BeginMarker(c, kind)
  /\ IF HeldStop THEN NothingFiled ELSE Files(marker'.kind)
  /\ UNCHANGED <<member, power, lost, hold, unsettled, answered, ticks, start, lock, support,
                 replaced, boots>>
Begin(c, kind) ==
  /\ Sends(kind) /\ Accept(c, kind) /\ begun < MaxCommands /\ Room /\ begun' = begun + 1
  /\ UNCHANGED asked
\* The control plane answers a report of a primary that is still the primary.
Answer(c) ==
  /\ asked /\ asked' = FALSE /\ ~replaced /\ Accept(c, "start") /\ UNCHANGED begun

\* endManagedIntent in the router's finally.  A handler that returned counts as
\* a success, also one that refused; so does the member record of an apply.
EndMarker(c) ==
  IF cmd[c].ok /\ Stops(cmd[c].kind) THEN MarkerOf("held")
  ELSE IF cmd[c].ok /\ HeldStop THEN MarkerOf("other") ELSE MarkerOf(marker.kind)
End(c) ==
  LET k == cmd[c].kind
      ok == cmd[c].ok
      writes == (ok /\ (Stops(k) \/ HeldStop)) \/ marker.by = c
  IN /\ Busy(c) /\ cmd[c].todo = <<>>
     /\ cmd' = [cmd EXCEPT ![c] = IdleCmd]
     /\ lock' = IF lock = c THEN Nobody ELSE lock
     /\ IF writes THEN marker' = EndMarker(c) /\ Files(marker'.kind)
        ELSE UNCHANGED marker /\ NothingFiled
     /\ answered' = IF ok /\ ~Stops(k) /\ HeldStop THEN Answered ELSE answered
     /\ role' = IF ~ok THEN role
                ELSE CASE k = "resync" -> "replica"
                       [] k = "apply" -> IF cmd[c].replica THEN "replica" ELSE "primary"
                       [] k = "promote" -> "primary"
                       [] OTHER -> role
     /\ UNCHANGED <<data, fence, demoted, power, lost, hold, unsettled, ticks, start, begun,
                    plane, boots>>

\* Steps that touch neither the engine nor the volume.
TakeLock(c) ==
  /\ Does(c, "lock") /\ lock = Nobody /\ lock' = c /\ Advance(c)
  /\ UNCHANGED <<member, power, held, ticks, start, begun, plane, boots, mishaps>>
\* handleManagedPromote locks only when it finds the marker.
MaybeLock(c) ==
  /\ Does(c, "locked?") /\ (demoted => lock = Nobody)
  /\ lock' = IF demoted THEN c ELSE lock
  /\ Advance(c)
  /\ UNCHANGED <<member, power, held, ticks, start, begun, plane, boots, mishaps>>
\* wasReseededSince: a stop meant for the old data is dropped.
SkipStale(c) ==
  /\ Does(c, "stale") /\ Goes(c, IF cmd[c].stale THEN <<>> ELSE Tail(cmd[c].todo))
  /\ UNCHANGED <<member, power, held, ticks, start, lock, begun, plane, boots, mishaps>>

\* refuseDemotedMemberStart, refuseNonStandbyReplicaStart.
CheckStart(c) ==
  /\ Does(c, "check")
  /\ Goes(c, IF demoted THEN <<"refuse">>
             ELSE IF cmd[c].replica /\ data = "primary" /\ ~fence THEN <<"drop">>
             ELSE Tail(cmd[c].todo))
  /\ UNCHANGED <<member, power, held, ticks, start, lock, begun, plane, boots, mishaps>>
\* enforceFencedMemberIfRunning, then the stop: of a refused start always, after
\* a start that came first only if the engine still takes writes or does not
\* tell.
Enforce(c) ==
  /\ Does(c, "refuse") \/ Does(c, "enforce")
  /\ \E told \in BOOLEAN :
       /\ \/ fence' = TRUE /\ engine' = Quiet /\ told /\ NoMishap
          \/ fence' \in {fence, TRUE} /\ engine' \in {engine, Quiet} /\ Mishap
       /\ Goes(c, IF Does(c, "refuse") \/ engine' = "rw" \/ ~told THEN <<"drop">> ELSE <<>>)
  /\ UNCHANGED <<data, demoted, role, starter, docker, held, ticks, start, lock, begun,
                 plane, boots>>
Drop(c) ==
  /\ Does(c, "drop") /\ Goes(c, <<>>) /\ TriesToStop
  /\ UNCHANGED <<member, held, ticks, start, lock, begun, plane, boots>>

ComposeStart(c) ==
  /\ Does(c, "start")
  /\ \/ ComesUp("daemon") /\ Advance(c) /\ NoMishap
     \/ UNCHANGED power /\ Throws(c) /\ Mishap
  /\ UNCHANGED <<member, held, ticks, start, lock, begun, plane, boots>>
\* refuseWritableFencedAfterComposeStart: the marker may have come meanwhile.
Recheck(c) ==
  /\ Does(c, "recheck") /\ Goes(c, IF demoted THEN <<"enforce">> ELSE <<>>)
  /\ UNCHANGED <<member, power, held, ticks, start, lock, begun, plane, boots, mishaps>>
ComposeStop(c) ==
  /\ Does(c, "stop")
  /\ \/ GoesDown /\ Advance(c) /\ NoMishap
     \/ UNCHANGED power /\ Throws(c) /\ Mishap
  /\ UNCHANGED <<member, held, ticks, start, lock, begun, plane, boots>>

\* recordDemotedFenceOnLifecycleStop: a step that fails is kept for the end and
\* skips nothing.
StillStops(c) == cmd' = [cmd EXCEPT ![c].todo = Tail(@), ![c].ok = FALSE]
Mark(c) ==
  /\ Does(c, "mark")
  /\ \/ demoted' = TRUE /\ Advance(c) /\ NoMishap
     \/ demoted' = demoted /\ StillStops(c) /\ Mishap
  /\ UNCHANGED <<data, fence, role, power, held, ticks, start, lock, begun, plane, boots>>
Plant(c) ==
  /\ Does(c, "plant")
  /\ \/ fence' = TRUE /\ Advance(c) /\ NoMishap
     \/ fence' = fence /\ StillStops(c) /\ Mishap
  /\ UNCHANGED <<data, demoted, role, power, held, ticks, start, lock, begun, plane, boots>>
ReadOnly(c) ==
  /\ Does(c, "read-only") /\ Advance(c)
  /\ \/ engine' = Quiet /\ NoMishap
     \/ engine' = engine /\ Mishap
  /\ UNCHANGED <<member, starter, docker, held, ticks, start, lock, begun, plane, boots>>

\* applyManagedEngine: the files are written anew (my.cnf without its block); a
\* standby is not built on data that is none; a forced re-seed removes the
\* container and fills the volume from the primary.
Materialize(c) ==
  /\ Does(c, "materialize") /\ Advance(c) /\ fence' \in {fence, FALSE}
  /\ UNCHANGED <<data, demoted, role, power, held, ticks, start, lock, begun, plane, boots,
                 mishaps>>
StandbyCheck(c) ==
  /\ Does(c, "standby?")
  /\ Goes(c, IF cmd[c].replica /\ (demoted \/ (data = "primary" /\ ~fence))
             THEN <<"drop">> ELSE Tail(cmd[c].todo))
  /\ UNCHANGED <<member, power, held, ticks, start, lock, begun, plane, boots, mishaps>>
Wipe(c) ==
  /\ Does(c, "wipe") /\ GoesDown
  /\ \/ data' = "standby" /\ Advance(c) /\ NoMishap
     \/ data' = data /\ Throws(c) /\ Mishap
  /\ UNCHANGED <<fence, demoted, role, held, ticks, start, lock, begun, plane, boots>>
ComposeUp(c) ==
  /\ Does(c, "up")
  /\ \/ ComesUp("daemon") /\ Advance(c) /\ NoMishap
     \/ UNCHANGED power /\ Throws(c) /\ Mishap
  /\ UNCHANGED <<member, held, ticks, start, lock, begun, plane, boots>>

\* A standby that runs is made the primary, which ends its standby.signal; a
\* switchover is undone.
Promote(c) ==
  /\ Does(c, "promote")
  /\ IF engine = "down" THEN Throws(c) /\ UNCHANGED <<engine, data, fence, replaced>>
     ELSE /\ Advance(c) /\ engine' = "rw" /\ data' = "primary" /\ replaced' = FALSE
          /\ fence' \in {fence, FALSE}
  /\ UNCHANGED <<demoted, role, starter, docker, held, ticks, start, lock, begun,
                 support, asked, boots, mishaps>>
Writable(c) ==
  /\ Does(c, "writable")
  /\ IF engine = "down" THEN Throws(c) /\ UNCHANGED engine
     ELSE Advance(c) /\ engine' = "rw"
  /\ UNCHANGED <<member, starter, docker, held, ticks, start, lock, begun, plane, boots,
                 mishaps>>

\* clearManagedDemotionArtifacts: the fence goes first, the marker last; without
\* a marker neither is touched, but by a reactivation.
Unfence(c) ==
  /\ Does(c, "unfence")
  /\ \/ fence' = (fence /\ ~demoted /\ cmd[c].kind # "reactivate") /\ Advance(c) /\ NoMishap
     \/ fence /\ (demoted \/ cmd[c].kind = "reactivate") /\ UNCHANGED fence /\ Throws(c) /\ Mishap
  /\ UNCHANGED <<data, demoted, role, power, held, ticks, start, lock, begun, plane, boots>>
\* A re-seed that cleared a marker makes the stops received before it stale.
Unmark(c) ==
  /\ Does(c, "unmark") /\ demoted' = FALSE
  /\ cmd' = [d \in Command |->
       IF d = c THEN [cmd[c] EXCEPT !.todo = <<>>]
       ELSE [cmd[d] EXCEPT !.stale = @ \/ (demoted /\ cmd[c].kind = "resync" /\ Busy(d))]]
  /\ UNCHANGED <<data, fence, role, power, held, ticks, start, lock, begun, plane, boots,
                 mishaps>>

CommandStep(c) ==
  \/ TakeLock(c) \/ MaybeLock(c) \/ SkipStale(c) \/ CheckStart(c) \/ Enforce(c) \/ Drop(c)
  \/ ComposeStart(c) \/ Recheck(c) \/ ComposeStop(c) \/ Mark(c) \/ Plant(c) \/ ReadOnly(c)
  \/ Materialize(c) \/ StandbyCheck(c) \/ Wipe(c) \/ ComposeUp(c) \/ Promote(c) \/ Writable(c)
  \/ Unfence(c) \/ Unmark(c) \/ End(c)

-----------------------------------------------------------------------------
(***************************************************************************)
(* The guard of a fenced member, and the guard of an engine that exited.   *)
(***************************************************************************)
commandsToo == <<cmd, begun, plane, boots>>
GuardLock ==
  /\ daemon = "up" /\ guard = "idle" /\ demoted /\ lock = Nobody
  /\ lock' = Guard /\ guard' = "locked"
  /\ UNCHANGED <<member, power, held, healer, retry, reporter, start, commandsToo, mishaps>>
\* isFencedMemberStillWritable.
WritableUnlessFenced == engine = "rw" /\ ~fence
StillWritable == engine = "rw"
\* #checkAndStop: look again, re-plant; writable or not known: a held marker.
GuardCheck ==
  LET done == lock' = Nobody /\ guard' = "idle" /\ UNCHANGED <<marker, disk>>
  IN /\ guard = "locked"
     /\ \/ ~demoted /\ done /\ UNCHANGED fence /\ NoMishap
        \/ /\ demoted
           /\ \E planted, told, filed \in BOOLEAN :
                /\ fence' = (fence \/ planted)
                /\ IF planted /\ told /\ filed THEN NoMishap ELSE Mishap
                /\ IF StillWritable \/ ~told
                   THEN /\ guard' = "writable" /\ lock' = lock /\ marker' = MarkerOf("held")
                        /\ disk' = IF filed THEN "held" ELSE disk
                   ELSE done
     /\ UNCHANGED <<data, demoted, role, power, lost, hold, unsettled, answered, healer, retry,
                    reporter, start, commandsToo>>
\* SQL read-only, three stop passes, then the kill.
GuardStop ==
  /\ guard = "writable" /\ guard' = "idle" /\ lock' = Nobody
  /\ \/ GoesDown /\ NoMishap
     \/ engine' \in {engine, Quiet} /\ UNCHANGED <<starter, docker>> /\ Mishap
  /\ UNCHANGED <<member, held, healer, retry, reporter, start, commandsToo>>

OnlyFencedStaysStopped == unsettled \/ demoted
MeantToStayStopped == unsettled \/ demoted \/ marker.kind # "none"
StandbyAllowsStart == role = "replica" => (data = "standby" \/ fence)
HealerDone == healer' = "idle" /\ lock' = Nobody
HealerCheck ==
  /\ daemon = "up" /\ healer = "idle" /\ lock = Nobody
  /\ ~MeantToStayStopped /\ engine = "down" /\ StandbyAllowsStart
  /\ lock' = Healer /\ healer' = "probed"
  /\ UNCHANGED <<member, power, held, guard, retry, reporter, start, commandsToo, mishaps>>
\* The probe takes seconds: look again before the start.
HealerRecheck ==
  /\ healer = "probed"
  /\ IF MeantToStayStopped THEN HealerDone ELSE healer' = "go" /\ UNCHANGED lock
  /\ UNCHANGED <<member, power, held, guard, retry, reporter, start, commandsToo, mishaps>>
HealerStart ==
  /\ healer = "go" /\ HealerDone
  /\ \/ ComesUp("daemon") /\ NoMishap
     \/ UNCHANGED power /\ Mishap
  /\ UNCHANGED <<member, held, guard, retry, reporter, start, commandsToo>>

-----------------------------------------------------------------------------
(***************************************************************************)
(* The boot hold: the start of the daemon, the local retry, the reporter.  *)
(***************************************************************************)
NeedsHold == record = "old" /\ (role = "primary" \/ demoted)
Starts == daemon' = "up" /\ settling' = TRUE
\* Classify, then the held marker, on file or not; nothing to hold: the record
\* may be written.
BootCheck ==
  /\ daemon = "boot"
  /\ IF NeedsHold
     THEN daemon' = "marked" /\ marker' = MarkerOf("held") /\ Files("held")
          /\ UNCHANGED <<answered, record, settling>>
     ELSE /\ Starts /\ UNCHANGED marker /\ NothingFiled
          /\ IF record = "old" THEN record' = "due" /\ answered' = Answered
             ELSE UNCHANGED <<record, answered>>
  /\ UNCHANGED <<member, power, lost, hold, unsettled, ticks, work, plane, boots>>
\* The hold file; without it the boot record is not written either.
BootFile ==
  /\ daemon = "marked" /\ daemon' = "filed"
  /\ \/ hold' = (IF hold = "none" THEN "unstopped" ELSE hold) /\ record' = "due" /\ NoMishap
     \/ hold' = hold /\ record' = record /\ Mishap
  /\ UNCHANGED <<member, power, marks, unsettled, answered, settling, ticks, work, plane,
                 boots>>
\* The stop comes whatever happened before; its note in the file may fail.
BootStop ==
  /\ daemon = "filed" /\ Starts
  /\ \/ GoesDown /\ unsettled' = (record = "old") /\ UNCHANGED record /\ NoMishap
        /\ hold' = IF record = "due" THEN "stopped" ELSE hold
     \/ UNCHANGED <<power, hold, record>> /\ unsettled' = TRUE /\ Mishap
     \/ GoesDown /\ record = "due" /\ record' = "old" /\ unsettled' = TRUE
        /\ UNCHANGED hold /\ Mishap
  /\ UNCHANGED <<member, marks, answered, ticks, work, plane, boots>>
\* The record comes last, the tickers already run; the client connects after it.
Persist ==
  /\ daemon = "up" /\ record = "due" /\ record' = "current"
  /\ UNCHANGED <<member, power, held, daemon, settling, ticks, work, plane, boots, mishaps>>

\* listActiveBootHolds: a hold without its held marker is over.
ActiveHold == hold # "none" /\ HeldStop
ListHolds == hold' = IF ActiveHold THEN hold ELSE "none"

\* Docker may start the engine after the stop.
RestopsInTime == settling
Restops == settling \/ unsettled
RetryList ==
  /\ daemon = "up" /\ retry = "idle" /\ (Restops \/ hold = "unstopped")
  /\ ListHolds
  /\ retry' = CASE ActiveHold /\ hold = "unstopped" -> "unstopped"
                [] ActiveHold /\ hold = "stopped" /\ Restops -> "again"
                [] ~ActiveHold /\ unsettled -> "unsettled"
                [] OTHER -> "idle"
  /\ UNCHANGED <<member, power, marks, unsettled, answered, guard, healer, reporter, start,
                 work, plane, boots, mishaps>>
\* It stops what it has listed, and notes the stop in the file.
RetryStop ==
  LET released == retry = "unsettled" /\ marker.kind \in {"other", "stop"}
  IN /\ retry # "idle" /\ retry' = "idle"
     /\ \/ released /\ unsettled' = FALSE /\ UNCHANGED <<power, hold>> /\ NoMishap
        \/ ~released /\ GoesDown /\ unsettled' = FALSE /\ NoMishap
           /\ hold' = IF retry = "unstopped" THEN "stopped" ELSE hold
        \/ ~released /\ UNCHANGED <<power, hold, unsettled>> /\ Mishap
        \/ retry = "unstopped" /\ GoesDown /\ UNCHANGED <<hold, unsettled>> /\ Mishap
     /\ UNCHANGED <<member, marks, answered, guard, healer, reporter, start, work, plane,
                    boots>>
\* The settle time ends by the clock, whatever Docker has started by then.
SettleOver ==
  /\ settling /\ settling' = FALSE
  /\ UNCHANGED <<member, power, held, ticks, record, daemon, work, plane, boots, mishaps>>

\* A control plane that has not told its features is neither asked nor taken
\* for one that cannot answer.
ReportsRemoved == IF support = "unknown" THEN "idle"
                  ELSE IF support = "no" THEN "release"
                  ELSE IF HeldStop THEN hold ELSE "none"
NeverReleases == IF ~ActiveHold \/ support # "yes" THEN "idle" ELSE hold
HoldReport == IF ~ActiveHold \/ support = "unknown" THEN "idle"
              ELSE IF support = "no" THEN "release" ELSE hold
ReporterList ==
  /\ daemon = "up" /\ support # "detached" /\ reporter = "idle" /\ hold # "none"
  /\ ListHolds
  /\ reporter' = HoldReport
  /\ UNCHANGED <<member, power, marks, unsettled, answered, guard, healer, retry, start, work,
                 plane, boots, mishaps>>
Report ==
  /\ reporter \in {"unstopped", "stopped"} /\ reporter' = "idle"
  /\ IF reporter = "stopped" THEN UNCHANGED <<power, hold>> /\ NoMishap
     ELSE \/ GoesDown /\ hold' = "stopped" /\ NoMishap
          \/ UNCHANGED <<power, hold>> /\ Mishap
  /\ asked' = (asked \/ support # "detached")
  /\ UNCHANGED <<member, marks, unsettled, answered, guard, healer, retry, start, work, support,
                 replaced, boots>>
\* releaseBootHoldLocally, never of a demoted member.
Release ==
  /\ reporter = "release"
  /\ IF demoted THEN reporter' = "idle" /\ UNCHANGED <<marker, hold, answered>> /\ NothingFiled
     ELSE /\ reporter' = "starting" /\ marker' = MarkerOf("none") /\ Files("none")
          /\ hold' = "none" /\ answered' = "release"
  /\ UNCHANGED <<member, power, lost, unsettled, guard, healer, retry, start, work, plane,
                 boots>>
ReleaseStart ==
  /\ reporter = "starting" /\ reporter' = "idle"
  /\ \/ ComesUp("daemon") /\ NoMishap
     \/ UNCHANGED power /\ Mishap
  /\ UNCHANGED <<member, held, guard, healer, retry, start, work, plane, boots>>

-----------------------------------------------------------------------------
(***************************************************************************)
(* The host, the daemon, the session, the clock.                           *)
(***************************************************************************)
\* What a process loses with its memory; the marker is read from its file.
Restarts ==
  /\ daemon' = "boot" /\ settling' = FALSE /\ unsettled' = FALSE
  /\ cmd' = [c \in Command |-> IdleCmd] /\ lock' = Nobody
  /\ guard' = "idle" /\ healer' = "idle" /\ retry' = "idle" /\ reporter' = "idle"
  /\ support' = "detached"
  /\ marker' = MarkerOf(disk) /\ disk' = disk
\* While the host was away the control plane may have promoted another member.
HostLost ==
  /\ boots < MaxBoots /\ Room /\ boots' = boots + 1 /\ Restarts
  /\ engine' = "down" /\ starter' = "daemon" /\ docker' = (docker \/ engine \in Up)
  /\ record' = "old" /\ answered' = "no" /\ asked' = FALSE /\ lost' = FALSE
  /\ replaced' \in {replaced, TRUE}
  /\ UNCHANGED <<member, hold, begun, mishaps>>
DaemonDies ==
  /\ daemon # "boot" /\ Mishap /\ Restarts
  /\ record' = IF record = "due" THEN "old" ELSE record
  /\ lost' = (lost \/ (HeldStop /\ disk # "held" /\ record = "current"))
  /\ UNCHANGED <<member, power, hold, answered, begun, replaced, asked, boots>>

DockerStarts ==
  /\ docker /\ engine = "down" /\ ComesUp("docker")
  /\ UNCHANGED <<member, held, ticks, start, work, plane, boots, mishaps>>
HandStarts ==
  /\ engine = "down" /\ ComesUp("hand") /\ Mishap
  /\ UNCHANGED <<member, held, ticks, start, work, plane, boots>>

Attach ==
  /\ daemon = "up" /\ record # "due" /\ support = "detached" /\ support' = "unknown"
  /\ UNCHANGED <<member, power, held, ticks, start, work, replaced, asked, boots, mishaps>>
Told ==
  /\ support = "unknown" /\ support' \in {"yes", "no"}
  /\ UNCHANGED <<member, power, held, ticks, start, work, replaced, asked, boots, mishaps>>
Detach ==
  /\ support # "detached" /\ support' = "detached" /\ Mishap
  /\ UNCHANGED <<member, power, held, ticks, start, work, replaced, asked, boots>>

\* The planned switchover goes on once the old primary is fenced and down.
Switchover ==
  /\ ~replaced /\ demoted /\ fence /\ engine = "down" /\ \A c \in Command : ~Busy(c)
  /\ replaced' = TRUE
  /\ UNCHANGED <<member, power, held, ticks, start, work, support, asked, boots, mishaps>>

\* A marker that is no stop ends with its time.
Expire ==
  /\ marker.kind = "other" /\ marker.by \notin {c \in Command : Busy(c)}
  /\ marker' = MarkerOf("none") /\ disk' = IF disk = "other" THEN "none" ELSE disk
  /\ UNCHANGED <<member, power, lost, hold, unsettled, answered, ticks, start, work, plane, boots,
                 mishaps>>

-----------------------------------------------------------------------------
GuardTick == GuardLock \/ GuardCheck \/ GuardStop
HealerTick == HealerCheck \/ HealerRecheck \/ HealerStart
RetryTick == RetryList \/ RetryStop
ReporterTick == ReporterList \/ Report \/ Release \/ ReleaseStart
Boot == BootCheck \/ BootFile \/ BootStop \/ Persist

Next ==
  \/ \E c \in Command :
       CommandStep(c) \/ Answer(c) \/ \E kind \in Kind : Begin(c, kind)
  \/ GuardTick \/ HealerTick \/ RetryTick \/ ReporterTick
  \/ Boot \/ SettleOver
  \/ HostLost \/ DaemonDies \/ DockerStarts \/ HandStarts
  \/ Attach \/ Told \/ Detach \/ Switchover \/ Expire

Spec == Init /\ [][Next]_vars

\* The timers of the four tickers and of the markers, handlers that run on, a
\* client that reconnects and a control plane that answers.  The lifecycle lock
\* is a flock its waiters queue for (SF).
Fairness ==
  /\ WF_vars(GuardTick) /\ WF_vars(HealerTick) /\ WF_vars(RetryTick) /\ WF_vars(ReporterTick)
  /\ WF_vars(Boot) /\ WF_vars(Expire) /\ WF_vars(Attach \/ Told)
  /\ \A c \in Command :
       WF_vars(CommandStep(c) \/ Answer(c)) /\ SF_vars(TakeLock(c) \/ MaybeLock(c))
FairSpec == Spec /\ Fairness

-----------------------------------------------------------------------------
\* A member the control plane has replaced takes writes only when Docker's
\* restart policy or somebody's hands started it, when an older control plane
\* let it go, or when the daemon was restarted after it could not write the
\* held marker to its file: apart from these no command and no guard of the
\* daemon brings up a second primary.
NoSecondPrimary ==
  replaced /\ engine = "rw" => starter \in {"docker", "hand"} \/ answered = "release" \/ lost

\* From the moment the boot is on record as dealt with, a primary that may have
\* been replaced while the host was away stays held until a command or a
\* release ends the hold, over daemon deaths and failed writes; only the two
\* together, the marker not written and then the daemon restarted, lose it.
HoldUntilAnswered ==
  daemon = "up" /\ record # "old" /\ answered = "no" => (HeldStop /\ hold # "none") \/ lost

\* A fenced member that takes writes is stopped or made read-only, whoever
\* started it and whatever failed on the way, unless a command lifts the fence.
FencedIsStopped == (demoted /\ engine = "rw") ~> (engine # "rw" \/ ~demoted)

\* A stop that failed is tried until it succeeds, also after the settle time,
\* without a control plane and over daemon deaths: a replaced primary that is
\* to be held and whose stop is not on file stops serving, unless something
\* ended its hold.  (One that Docker starts after a stop that succeeded and
\* after the settle time is not stopped.)
StalePrimaryIsStopped ==
  (replaced /\ engine = "rw" /\ (hold = "unstopped" \/ (unsettled /\ record = "old")))
    ~> (engine # "rw" \/ ~replaced \/ answered # "no" \/ lost)

\* A held primary that is still the primary comes back, unless it is stopped on
\* purpose meanwhile.
StoppedOnPurpose == marker.kind = "stop" \/ (HeldStop /\ hold = "none")
CurrentPrimaryServes ==
  (ActiveHold /\ engine = "down" /\ ~replaced /\ ~demoted)
    ~> (engine \in Up \/ replaced \/ demoted \/ StoppedOnPurpose)
=============================================================================
