--------------------------- MODULE FirewallConfirm --------------------------
(***************************************************************************)
(* Commit-confirm of the host firewall (src/firewall/pending.ts, apply.ts, *)
(* confirm.ts, auto-confirm.ts) with the root rollback guard that undoes   *)
(* an unconfirmed ruleset (orchestration/scripts/tp-firewall-guard).       *)
(*                                                                         *)
(* A ruleset is known by its digest: a file or a kernel table holds a      *)
(* digest or NoRules.  An operation is one run of a command handler or of  *)
(* the command line; nothing in the code keeps two of them apart, or them  *)
(* from the guard, so every await is a point where another one comes in.   *)
(* How much of that an instance explores is said by its constants.         *)
(***************************************************************************)
EXTENDS Naturals, FiniteSets

CONSTANTS
  Applies,     \* operations that apply a ruleset (server.firewall.reconcile)
  Confirms,    \* operations that confirm one (server.firewall.confirm, the CLI)
  Offs,        \* operations that take the firewall out (mode off)
  Rehangs,     \* runs of the Docker monitor's reinstall hook
  Ruleset,     \* digests of rendered rulesets
  NoRules,     \* no document / no TurboPanel rules
  OpsOverlap,  \* two operations may be under way at once
  Stalls,      \* an operation may be held up past the end of a confirm window
  GuardOverlaps, \* the guard may run while an operation is under way
  Reapplies,   \* a ruleset may be applied while another one is pending
  MayRefuse,   \* what may fail: "timer" (systemctl), "rules" (loading rules),
               \* "removal" (taking jumps and chains out)
  MaxDeaths,   \* bound: operations cut off in the middle (daemon crash)
  MaxReboots   \* bound: reboots of the host

Ops == Applies \cup Confirms \cup Offs \cup Rehangs

ASSUME FirewallAssumption ==
  /\ IsFiniteSet(Ops) /\ NoRules \notin Ruleset
  /\ Applies \cap (Confirms \cup Offs \cup Rehangs) = {}
  /\ Confirms \cap (Offs \cup Rehangs) = {} /\ Offs \cap Rehangs = {}
  /\ {OpsOverlap, Stalls, GuardOverlaps, Reapplies} \subseteq BOOLEAN
  /\ MayRefuse \subseteq {"timer", "rules", "removal"}
  /\ MaxDeaths \in Nat /\ MaxReboots \in Nat

VARIABLES
  kernel,    \* per family: the TurboPanel rules in force
  durable,   \* <config>/firewall.v4|.v6: the confirmed documents
  pending,   \* <config>/firewall.pending.v4|.v6
  marker,    \* <run>/firewall-pending.json, on tmpfs
  record,    \* <state>/firewall-rollback.json: the digest rolled back
  timer,     \* turbopanel-firewall-guard.timer is active
  asked,     \* a start of the guard service was requested
  over,      \* applies whose confirm window has ended
  op,        \* per operation: where its handler stands
  guard,     \* the guard service: where its script stands
  confirmed, \* observer: rulesets promoted since they were last loaded
  provisional, \* observer: families with rules that are neither confirmed nor undone
  deaths, reboots  \* bounds

files == <<durable, pending, record>>
host  == <<kernel, marker, timer, asked>>
count == <<over, deaths, reboots>>
observed == <<confirmed, provisional>>
vars  == <<files, host, count, op, guard, observed>>

-----------------------------------------------------------------------------
Family == {4, 6}
Document == Ruleset \cup {NoRules}

\* PendingFirewallMarker: its deadline is that of the apply that armed it.
Marker == [by : Applies, digest : Ruleset, v6 : {"keep", "replace", "forget"}]
NoMarker == [digest |-> NoRules]

OpPc == {"idle", "supersede", "stage", "mark", "arm", "load4", "load6",
         "reread", "redoc", "remark", "verify",
         "check", "read4", "put4", "read6", "put6", "forget6",
         "chains4", "chains6", "drop4", "drop6",
         "clear", "clear4", "clear6", "disarm", "unrecord",
         "rehang", "doc4", "hang4", "doc6", "hang6", "done", "dead"}
Answer == {"none", "failed", "unarmed", "pending", "confirmed", "rolled_back",
           "nothing_pending", "digest_mismatch", "expired", "off"}
OpState == [pc : OpPc, digest : Document, mark : Marker \cup {NoMarker},
            doc : Document, v6 : {"keep", "replace", "forget"}, answer : Answer]
IdleOp == [pc |-> "idle", digest |-> NoRules, mark |-> NoMarker, doc |-> NoRules,
           v6 |-> "keep", answer |-> "none"]

GuardPc == {"idle", "open4", "restore4", "open6", "restore6", "record", "undoc",
            "unmark", "stop"}

TypeOK ==
  /\ kernel \in [Family -> Document] /\ durable \in [Family -> Document]
  /\ pending \in [Family -> Document]
  /\ marker \in Marker \cup {NoMarker} /\ record \in Document
  /\ timer \in BOOLEAN /\ asked \in BOOLEAN
  /\ over \subseteq Applies
  /\ op \in [Ops -> OpState]
  /\ guard \in [pc : GuardPc, digest : Document]
  /\ confirmed \subseteq Ruleset /\ provisional \subseteq Family
  /\ deaths \in 0 .. MaxDeaths /\ reboots \in 0 .. MaxReboots

Nothing == [f \in Family |-> NoRules]

Init ==
  /\ kernel = Nothing /\ durable = Nothing /\ pending = Nothing
  /\ marker = NoMarker /\ record = NoRules /\ timer = FALSE /\ asked = FALSE
  /\ over = {} /\ op = [o \in Ops |-> IdleOp]
  /\ guard = [pc |-> "idle", digest |-> NoRules]
  /\ confirmed = {} /\ provisional = {} /\ deaths = 0 /\ reboots = 0

-----------------------------------------------------------------------------
(***************************************************************************)
(* Operations.                                                             *)
(***************************************************************************)
UnderWay == {o \in Ops : op[o].pc \notin {"idle", "done", "dead"}}

At(o, p) == op[o].pc = p
Goto(o, p) == op' = [op EXCEPT ![o].pc = p]
Leaves(o, p, answer) == op' = [op EXCEPT ![o] = [IdleOp EXCEPT !.pc = p, !.answer = answer]]
\* The handler returns or throws; an apply whose ruleset is not confirmed
\* answers that it is still pending.
Ends(o, answer) ==
  Leaves(o, "done", IF o \in Applies /\ answer # "confirmed" THEN "pending" ELSE answer)
Fails(o) == Leaves(o, "done", "failed")

\* Family f now holds doc.  Rules other than those that were in force and the
\* durable document are provisional until they are confirmed or undone.
Loads(f, doc) ==
  /\ kernel' = [kernel EXCEPT ![f] = doc]
  /\ provisional' = IF doc \in {NoRules, durable[f]} THEN provisional \ {f}
                    ELSE IF doc = kernel[f] THEN provisional ELSE provisional \cup {f}

\* A command arrives; its handler runs.
Start(o) ==
  /\ At(o, "idle")
  /\ OpsOverlap \/ UnderWay = {}
  /\ GuardOverlaps \/ guard.pc = "idle"
  /\ \/ /\ o \in Applies /\ (Reapplies \/ marker = NoMarker)
        /\ \E d \in Ruleset :
             op' = [op EXCEPT ![o].pc = "supersede", ![o].digest = d]
     \/ /\ o \in Confirms
        /\ \E d \in Ruleset :
             op' = [op EXCEPT ![o].pc = "check", ![o].digest = d]
     \/ o \in Offs /\ Goto(o, "chains4")
     \/ o \in Rehangs /\ Goto(o, "rehang")
  /\ UNCHANGED <<files, host, count, guard, observed>>

(* armPendingFirewall. *)

\* Variant: the old rollback record is left behind.
ArmSupersedes_KeepsRecord(o) ==
  /\ At(o, "supersede") /\ Goto(o, "stage")
  /\ pending' = [pending EXCEPT ![6] = NoRules]
  /\ UNCHANGED <<durable, record, host, count, guard, observed>>

\* An earlier rollback record and v6 document are superseded ...
ArmSupersedes(o) ==
  /\ At(o, "supersede") /\ Goto(o, "stage")
  /\ record' = NoRules /\ pending' = [pending EXCEPT ![6] = NoRules]
  /\ UNCHANGED <<durable, host, count, guard, observed>>

\* ... the v4 document is written ...
ArmStages(o) ==
  /\ At(o, "stage") /\ Goto(o, "mark")
  /\ pending' = [pending EXCEPT ![4] = op[o].digest]
  /\ UNCHANGED <<durable, record, host, count, guard, observed>>

\* Variant: the marker says nothing of the v6 document.
ArmMarks_WithoutV6(o) ==
  /\ At(o, "mark") /\ Goto(o, "arm")
  /\ marker' = [by |-> o, digest |-> op[o].digest]
  /\ UNCHANGED <<files, kernel, timer, asked, count, guard, observed>>

\* ... then the marker ...
ArmMarks(o) ==
  /\ At(o, "mark") /\ Goto(o, "arm")
  /\ marker' = [by |-> o, digest |-> op[o].digest, v6 |-> "keep"]
  /\ UNCHANGED <<files, kernel, timer, asked, count, guard, observed>>

\* ... and the timer is restarted.  If it cannot be, the stage is cleared.
ArmTimer(o) ==
  /\ At(o, "arm")
  /\ \/ timer' = TRUE /\ Goto(o, "load4")
     \/ /\ "timer" \in MayRefuse
        /\ timer' \in {timer, FALSE}
        /\ op' = [op EXCEPT ![o].pc = "clear", ![o].answer = "unarmed"]
  /\ UNCHANGED <<files, kernel, marker, asked, count, guard, observed>>

(* loadStagedRuleset. *)

\* Variant: the stage is forgotten also when the rules were loaded.
Load4_AlwaysForgets(o) ==
  /\ At(o, "load4")
  /\ \/ Loads(4, op[o].digest) /\ Goto(o, "load6")
     \/ /\ "rules" \in MayRefuse
        /\ op' = [op EXCEPT ![o].pc = "clear", ![o].answer = "failed"]
        /\ Loads(4, op[o].digest) \/ UNCHANGED <<kernel, provisional>>
  /\ confirmed' = confirmed \ {op[o].digest}
  /\ UNCHANGED <<files, marker, timer, asked, count, guard>>

\* Variant: the stage is kept when the rules were refused, and the apply goes on.
Load4_NeverForgets(o) ==
  /\ At(o, "load4")
  /\ Goto(o, "load6")
  /\ \/ Loads(4, op[o].digest) /\ confirmed' = confirmed \ {op[o].digest}
     \/ "rules" \in MayRefuse /\ UNCHANGED <<kernel, observed>>
  /\ UNCHANGED <<files, marker, timer, asked, count, guard>>

\* The v4 rules are loaded in one transaction, then the jump to them goes in.
\* If it is refused, no packet reaches the rules unless a jump was there, and
\* the apply fails with its stage and timer left in place.  Refused rules make
\* it forget its stage and stop the timer.
Load4(o) ==
  /\ At(o, "load4")
  /\ \/ /\ Loads(4, op[o].digest) /\ Goto(o, "load6")
        /\ confirmed' = confirmed \ {op[o].digest}
     \/ /\ "rules" \in MayRefuse /\ Fails(o)
        /\ Loads(4, op[o].digest) \/ (kernel[4] = NoRules /\ Loads(4, NoRules))
        /\ confirmed' = confirmed \ {op[o].digest}
     \/ /\ "rules" \in MayRefuse
        /\ op' = [op EXCEPT ![o].pc = "clear", ![o].answer = "failed"]
        /\ UNCHANGED <<kernel, observed>>
  /\ UNCHANGED <<files, marker, timer, asked, count, guard>>

\* The v6 rules: loaded, refused (before or after they took effect), or not
\* wanted here.
Load6(o) ==
  /\ At(o, "load6")
  /\ \E v6 \in {"replace", "keep", "forget"} :
       /\ op' = [op EXCEPT ![o].pc = "reread", ![o].v6 = v6]
       /\ \/ v6 = "replace" /\ Loads(6, op[o].digest)
          \/ /\ v6 = "keep" /\ "rules" \in MayRefuse
             /\ Loads(6, op[o].digest) \/ UNCHANGED <<kernel, provisional>>
          \/ v6 = "forget" /\ UNCHANGED <<kernel, provisional>>
  /\ UNCHANGED <<files, marker, timer, asked, count, guard, confirmed>>

(* recordPendingV6: what a confirm is to do with the durable v6 document. *)
AfterRecord(o) == IF op[o].v6 = "keep" THEN Fails(o) ELSE Goto(o, "verify")

RecordReads(o) ==
  /\ At(o, "reread")
  /\ IF marker = NoMarker
     THEN AfterRecord(o)
     ELSE op' = [op EXCEPT ![o].pc = "redoc", ![o].mark = marker]
  /\ UNCHANGED <<files, host, count, guard, observed>>

RecordWrites6(o) ==
  /\ At(o, "redoc") /\ Goto(o, "remark")
  /\ pending' = [pending EXCEPT ![6] = IF op[o].v6 = "replace" THEN op[o].digest
                                                               ELSE NoRules]
  /\ UNCHANGED <<durable, record, host, count, guard, observed>>

RecordMarks(o) ==
  /\ At(o, "remark")
  /\ marker' = [op[o].mark EXCEPT !.v6 = op[o].v6]
  /\ AfterRecord(o)
  /\ UNCHANGED <<files, kernel, timer, asked, count, guard, observed>>

(* autoConfirmFirewall: confirm only if the control plane answers. *)
Verifies(o) ==
  /\ At(o, "verify")
  /\ Goto(o, "check") \/ Ends(o, "pending")
  /\ UNCHANGED <<files, host, count, guard, observed>>

-----------------------------------------------------------------------------
(***************************************************************************)
(* confirmPendingFirewall.                                                 *)
(***************************************************************************)
Expired(m) == m.by \in over

\* Variant: any pending ruleset will do.
ConfirmChecks_AnyDigest(o) ==
  /\ At(o, "check")
  /\ IF marker = NoMarker THEN Ends(o, "nothing_pending")
     ELSE op' = [op EXCEPT ![o].pc = "read4", ![o].mark = marker]
  /\ UNCHANGED <<files, host, count, guard, observed>>

\* The marker decides: nothing pending, another ruleset pending, too late
\* (the guard is asked to run now, if it is not running), or go on.
ConfirmChecks(o) ==
  LET d == op[o].digest IN
  /\ At(o, "check")
  /\ \/ /\ marker = NoMarker
        /\ Ends(o, IF record = d THEN "rolled_back" ELSE "nothing_pending")
        /\ UNCHANGED asked
     \/ /\ marker # NoMarker /\ marker.digest # d
        /\ Ends(o, "digest_mismatch") /\ UNCHANGED asked
     \/ /\ marker # NoMarker /\ marker.digest = d /\ Expired(marker)
        /\ asked' = (asked \/ guard.pc = "idle")
        /\ Ends(o, "expired")
     \/ /\ marker # NoMarker /\ marker.digest = d /\ ~Expired(marker)
        /\ op' = [op EXCEPT ![o].pc = "read4", ![o].mark = marker]
        /\ UNCHANGED asked
  /\ UNCHANGED <<files, kernel, marker, timer, count, guard, observed>>

ConfirmReads4(o) ==
  /\ At(o, "read4")
  /\ IF pending[4] = NoRules
     THEN Ends(o, "failed")
     ELSE op' = [op EXCEPT ![o].pc = "put4", ![o].doc = pending[4]]
  /\ UNCHANGED <<files, host, count, guard, observed>>

\* promoteDurable: the v4 document first, then what the marker says of v6.
Promotes4(o) ==
  /\ At(o, "put4")
  /\ durable' = [durable EXCEPT ![4] = op[o].doc]
  /\ confirmed' = confirmed \cup {op[o].digest}
  /\ provisional' = {f \in provisional : kernel[f] # op[o].digest}
  /\ Goto(o, CASE op[o].mark.v6 = "keep" -> "clear"
               [] op[o].mark.v6 = "forget" -> "forget6"
               [] op[o].mark.v6 = "replace" -> "read6")
  /\ UNCHANGED <<pending, record, host, count, guard>>

Forgets6(o) ==
  /\ At(o, "forget6") /\ Goto(o, "clear")
  /\ durable' = [durable EXCEPT ![6] = NoRules]
  /\ UNCHANGED <<pending, record, host, count, guard, observed>>

ConfirmReads6(o) ==
  /\ At(o, "read6")
  /\ IF pending[6] = NoRules
     THEN Ends(o, "failed")
     ELSE op' = [op EXCEPT ![o].pc = "put6", ![o].doc = pending[6]]
  /\ UNCHANGED <<files, host, count, guard, observed>>

Promotes6(o) ==
  /\ At(o, "put6") /\ Goto(o, "clear")
  /\ durable' = [durable EXCEPT ![6] = op[o].doc]
  /\ UNCHANGED <<pending, record, host, count, guard, observed>>

-----------------------------------------------------------------------------
(***************************************************************************)
(* clearPendingFirewall, and what its callers do around it.                *)
(***************************************************************************)

\* The marker first, then the two documents.
ClearsMarker(o) ==
  /\ At(o, "clear") /\ Goto(o, "clear4")
  /\ marker' = NoMarker
  /\ UNCHANGED <<files, kernel, timer, asked, count, guard, observed>>

Clears4(o) ==
  /\ At(o, "clear4") /\ Goto(o, "clear6")
  /\ pending' = [pending EXCEPT ![4] = NoRules]
  /\ UNCHANGED <<durable, record, host, count, guard, observed>>

\* A confirm and a refused apply stop the timer next, an apply that could not
\* arm it throws, removeFirewall drops the rollback record.
Clears6(o) ==
  /\ At(o, "clear6")
  /\ pending' = [pending EXCEPT ![6] = NoRules]
  /\ IF op[o].answer = "unarmed" THEN Fails(o)
     ELSE Goto(o, IF o \in Offs THEN "unrecord" ELSE "disarm")
  /\ UNCHANGED <<durable, record, host, count, guard, observed>>

\* disarmGuardTimer, best effort; a confirm then drops the rollback record.
Disarms(o) ==
  /\ At(o, "disarm")
  /\ timer' \in (IF "timer" \in MayRefuse THEN {FALSE, timer} ELSE {FALSE})
  /\ IF op[o].answer = "failed" THEN Fails(o)
     ELSE IF o \in Offs THEN Ends(o, "off") ELSE Goto(o, "unrecord")
  /\ UNCHANGED <<files, kernel, marker, asked, count, guard, observed>>

Unrecords(o) ==
  /\ At(o, "unrecord")
  /\ record' = NoRules
  /\ IF o \in Offs THEN Goto(o, "disarm") ELSE Ends(o, "confirmed")
  /\ UNCHANGED <<durable, pending, host, count, guard, observed>>

\* What taking TurboPanel's jumps and chains out leaves in force: a failure is
\* only logged (removeFamilyChains) or ignored (tp_drop_jumps).
Removed(f) == {NoRules} \cup (IF "removal" \in MayRefuse THEN {kernel[f]} ELSE {})

(* removeFirewall: the chains of each family, then the durable documents. *)
RemovesChains(o) ==
  /\ \E f \in Family :
       /\ \/ f = 4 /\ At(o, "chains4") /\ Goto(o, "chains6")
          \/ f = 6 /\ At(o, "chains6") /\ Goto(o, "drop4")
       /\ \E doc \in Removed(f) : Loads(f, doc)
  /\ UNCHANGED <<files, marker, timer, asked, count, guard, confirmed>>

DropsDurable(o) ==
  /\ \/ At(o, "drop4") /\ Goto(o, "drop6") /\ durable' = [durable EXCEPT ![4] = NoRules]
     \/ At(o, "drop6") /\ Goto(o, "clear") /\ durable' = [durable EXCEPT ![6] = NoRules]
  /\ UNCHANGED <<pending, record, host, count, guard, observed>>

(* reinstallFirewallForwardingIfEnabled: load the document the kernel should
   hold again, the pending one while a ruleset is pending. *)
RehangStarts(o) ==
  /\ At(o, "rehang")
  /\ op' = [op EXCEPT ![o].pc = "doc4", ![o].mark = marker]
  /\ UNCHANGED <<files, host, count, guard, observed>>

\* forwardDocumentFilename.
ForwardDocument(m, f) ==
  CASE m = NoMarker -> durable[f]
    [] m # NoMarker /\ f = 4 -> pending[4]
    [] m # NoMarker /\ f = 6 -> IF m.v6 = "replace" THEN pending[6] ELSE NoRules

\* rehangForwardChain: read, then load if there is a document with TP-FWD in
\* it, DOCKER-USER exists and the kernel takes it.
RehangReads(o) ==
  /\ \/ At(o, "doc4") /\ op' = [op EXCEPT ![o].pc = "hang4",
                                          ![o].doc = ForwardDocument(op[o].mark, 4)]
     \/ At(o, "doc6") /\ op' = [op EXCEPT ![o].pc = "hang6",
                                          ![o].doc = ForwardDocument(op[o].mark, 6)]
  /\ UNCHANGED <<files, host, count, guard, observed>>

RehangLoads(o) ==
  /\ \E f \in Family :
       /\ \/ f = 4 /\ At(o, "hang4") /\ Goto(o, "doc6")
          \/ f = 6 /\ At(o, "hang6") /\ Leaves(o, "done", "none")
       /\ \/ op[o].doc # NoRules /\ Loads(f, op[o].doc)
          \/ UNCHANGED <<kernel, provisional>>
  /\ UNCHANGED <<files, marker, timer, asked, count, guard, confirmed>>

-----------------------------------------------------------------------------
(***************************************************************************)
(* The guard, the clock, and the host going down.                          *)
(***************************************************************************)

\* The confirm window of an apply ends.
WindowEnds(o) ==
  /\ o \in Applies \ over /\ ~At(o, "idle")
  /\ Stalls \/ UnderWay = {}
  /\ over' = over \cup {o}
  /\ UNCHANGED <<files, host, deaths, reboots, op, guard, observed>>

\* Variant: one look at the marker is all the timer allows.
GuardWakes_LooksOnce ==
  /\ guard.pc = "idle" /\ (timer \/ asked)
  /\ GuardOverlaps \/ UnderWay = {}
  /\ asked' = FALSE
  /\ IF marker # NoMarker /\ Expired(marker)
     THEN guard' = [pc |-> "open4", digest |-> marker.digest] /\ UNCHANGED timer
     ELSE timer' = FALSE /\ UNCHANGED guard
  /\ UNCHANGED <<files, kernel, marker, count, op, observed>>

\* The service starts: with no marker it stops its timer, before the deadline
\* it does nothing, after it the rollback begins.
GuardWakes ==
  /\ guard.pc = "idle" /\ (timer \/ asked)
  /\ GuardOverlaps \/ UnderWay = {}
  /\ asked' = FALSE
  /\ \/ /\ marker = NoMarker
        /\ timer' = FALSE /\ UNCHANGED guard
     \/ /\ marker # NoMarker /\ ~Expired(marker)
        /\ UNCHANGED <<timer, guard>>
     \/ /\ marker # NoMarker /\ Expired(marker)
        /\ guard' = [pc |-> "open4", digest |-> marker.digest]
        /\ UNCHANGED timer
  /\ UNCHANGED <<files, kernel, marker, count, op, observed>>

GuardAt(p, q) == guard.pc = p /\ guard' = [guard EXCEPT !.pc = q]

\* tp_rollback_family: the jumps go first, which disables every rule ...
GuardOpens(f) ==
  /\ \/ f = 4 /\ GuardAt("open4", "restore4")
     \/ f = 6 /\ GuardAt("open6", "restore6")
  /\ \E doc \in Removed(f) : Loads(f, doc)
  /\ UNCHANGED <<files, marker, timer, asked, count, op, confirmed>>

\* ... then the confirmed document is loaded; without one, or if it is refused,
\* the chains are taken out.
GuardRestores(f) ==
  /\ \/ f = 4 /\ GuardAt("restore4", "open6")
     \/ f = 6 /\ GuardAt("restore6", "record")
  /\ \E doc \in {durable[f]} \cup Removed(f) :
       /\ doc # durable[f] => durable[f] = NoRules \/ "rules" \in MayRefuse
       /\ Loads(f, doc)
  /\ UNCHANGED <<files, marker, timer, asked, count, op, confirmed>>

GuardRecords ==
  /\ GuardAt("record", "undoc")
  /\ record' = guard.digest
  /\ UNCHANGED <<durable, pending, host, count, op, observed>>

GuardRemovesDocuments ==
  /\ GuardAt("undoc", "unmark")
  /\ pending' = Nothing
  /\ UNCHANGED <<durable, record, host, count, op, observed>>

GuardRemovesMarker ==
  /\ GuardAt("unmark", "stop")
  /\ marker' = NoMarker
  /\ UNCHANGED <<files, kernel, timer, asked, count, op, observed>>

GuardStopsTimer ==
  /\ guard.pc = "stop" /\ guard' = [pc |-> "idle", digest |-> NoRules]
  /\ timer' = FALSE
  /\ UNCHANGED <<files, kernel, marker, asked, count, op, observed>>

GuardStep ==
  \/ GuardWakes \/ \E f \in Family : GuardOpens(f) \/ GuardRestores(f)
  \/ GuardRecords \/ GuardRemovesDocuments \/ GuardRemovesMarker \/ GuardStopsTimer

\* The process an operation runs in dies; the guard is a process of its own.
Dies(o) ==
  /\ deaths < MaxDeaths /\ o \in UnderWay
  /\ deaths' = deaths + 1 /\ Leaves(o, "dead", "none")
  /\ UNCHANGED <<files, host, over, reboots, guard, observed>>

\* The host restarts: tmpfs, timers and processes are gone, and the boot unit
\* (which runs only if there is a confirmed document) loads what was confirmed.
Reboot ==
  /\ reboots < MaxReboots
  /\ reboots' = reboots + 1
  /\ marker' = NoMarker /\ timer' = FALSE /\ asked' = FALSE
  /\ op' = [o \in Ops |-> IF o \in UnderWay THEN [IdleOp EXCEPT !.pc = "dead"] ELSE op[o]]
  /\ guard' = [pc |-> "idle", digest |-> NoRules]
  /\ \E refused \in SUBSET (IF "rules" \in MayRefuse THEN Family ELSE {}) :
       kernel' = [f \in Family |-> IF f \in refused THEN NoRules ELSE durable[f]]
  /\ provisional' = {}
  /\ pending' = IF durable = Nothing THEN pending ELSE Nothing
  /\ UNCHANGED <<durable, record, over, deaths, confirmed>>

-----------------------------------------------------------------------------
ApplyStep(o) ==
  \/ ArmSupersedes(o) \/ ArmStages(o) \/ ArmMarks(o) \/ ArmTimer(o)
  \/ Load4(o) \/ Load6(o) \/ RecordReads(o) \/ RecordWrites6(o) \/ RecordMarks(o)
  \/ Verifies(o)

ConfirmStep(o) ==
  \/ ConfirmChecks(o) \/ ConfirmReads4(o) \/ Promotes4(o) \/ Forgets6(o)
  \/ ConfirmReads6(o) \/ Promotes6(o)

ClearStep(o) ==
  \/ ClearsMarker(o) \/ Clears4(o) \/ Clears6(o) \/ Disarms(o) \/ Unrecords(o)

OtherStep(o) ==
  \/ RemovesChains(o) \/ DropsDurable(o)
  \/ RehangStarts(o) \/ RehangReads(o) \/ RehangLoads(o)

OpStep(o) == ApplyStep(o) \/ ConfirmStep(o) \/ ClearStep(o) \/ OtherStep(o)

\* No command comes and the guard sleeps: the host just runs on.
Idle == UnderWay = {} /\ guard.pc = "idle" /\ UNCHANGED vars

Next ==
  \/ \E o \in Ops : Start(o) \/ OpStep(o) \/ WindowEnds(o) \/ Dies(o)
  \/ GuardStep \/ Reboot \/ Idle

Spec == Init /\ [][Next]_vars

\* Handlers end (every host command has a timeout), windows end, and systemd
\* runs the guard while its timer is active.
Fairness ==
  /\ \A o \in Ops : WF_vars(OpStep(o)) /\ WF_vars(WindowEnds(o))
  /\ WF_vars(GuardStep)

FairSpec == Spec /\ Fairness

-----------------------------------------------------------------------------
(***************************************************************************)
(* Properties.                                                             *)
(***************************************************************************)

Rolling == guard.pc \notin {"idle", "stop"}

\* "The guard is armed before any rule is loaded": rules nobody has confirmed
\* are in force only with the marker on disk and the timer active, or with the
\* rollback under way.
UnconfirmedIsGuarded ==
  provisional # {} => marker # NoMarker /\ (timer \/ Rolling)

\* "Promote the pending ruleset named by digest": a durable document only ever
\* becomes the ruleset that the confirm writing it was asked for.
PromotesWhatWasNamed ==
  [][\A f \in Family :
       durable'[f] \notin {durable[f], NoRules} =>
         \E o \in Ops : /\ op[o].pc \in {"put4", "put6"} /\ op'[o].pc # op[o].pc
                        /\ op[o].digest = durable'[f]]_vars

\* A confirm answers "confirmed" only for rules that are durable and in force
\* right then, whatever was applied, rolled back or re-hung since; only rules
\* whose apply had failed (no jump to them) may be confirmed without effect.
ConfirmedIsLive ==
  [][\A o \in Ops : op'[o].answer = "confirmed" /\ op[o].answer # "confirmed" =>
       /\ durable[4] = op[o].digest
       /\ kernel[4] = op[o].digest \/ op[op[o].mark.by].answer = "failed"]_vars

\* A rollback is never on record for a ruleset that was promoted and has not
\* been loaded again since: a late confirm would be told "rolled_back".
RollbackRecordIsTrue == record \notin confirmed

\* Whatever becomes of the daemon, unconfirmed rules do not stay: they are
\* confirmed or undone in the end.
UnconfirmedEnds == \A f \in Family : f \in provisional ~> f \notin provisional
=============================================================================
